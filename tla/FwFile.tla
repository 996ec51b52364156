------------------------------- MODULE FwFile -------------------------------
(* parse_uchar2int_arr(): the merged firmware file as a list of sections.   *)
(*                                                                          *)
(* A file is a sequence of lines.  A line is [kind, val]: a "$" line of the *)
(* file header, "#" the address that opens a section, "*" one of the seven  *)
(* numbers of its header, "other" anything else; val is the number, or Bad  *)
(* for text that is not hexadecimal.  The bytes after the seventh "*" are a *)
(* "blob" whose val is the content.                                         *)
EXTENDS Naturals, Sequences

CONSTANTS Contents,     \* what a section may contain
          NULL,         \* no content: a pointer that was never set
          Junk,         \* the bytes behind the end of the file
          Bad,          \* a number that does not parse
          Checksum,     \* [Contents -> Nat], the sum and xor of the words
          Length        \* [Contents -> Nat], their bytes

ASSUME ChecksumAssumption == /\ Checksum \in [Contents -> Nat]
                             /\ Length \in [Contents -> Nat]
                             /\ Junk \in Contents
                             /\ NULL \notin Contents

(* A section as its "#" line leaves it: kmalloc()ed and zeroed.             *)
NewSection(address) ==
    [address |-> address, byte_cnt |-> 0, erase_page_cnt |-> 0,
     checksum |-> 0, content |-> NULL]

Start == [head |-> <<>>, level |-> 0, dollars |-> 0, all |-> FALSE,
          bad |-> FALSE, skip |-> FALSE]

Stop(p) == [p EXCEPT !.bad = TRUE]

(* conv_hex_str2int() stops at the first character that is no digit.        *)
Converts(val) == val # Bad

(* The sum and xor of the content's words are those the section names; a    *)
(* section without a content has none.                                      *)
FwChecksum(section) ==
    section.content # NULL /\ Checksum[section.content] = section.checksum

(* A copy of the section at the tail of the list.                           *)
MakeLink(head, section) == Append(head, section)

(* The first six and the ninth "$" line are numbers; the ninth says whether *)
(* the whole chip is to be erased.                                          *)
Dollar(p, val) ==
    LET n == p.dollars + 1
    IN  IF n \in 1..6 \union {9} /\ ~Converts(val) THEN Stop(p)
        ELSE [p EXCEPT !.dollars = n, !.all = IF n = 9 THEN val = 1 ELSE @]

(* An address opens a section only when none is open.                       *)
Address(p, val) ==
    IF p.level # 0 \/ ~Converts(val) THEN Stop(p)
    ELSE [p EXCEPT !.head = Append(@, NewSection(val)), !.level = 1]

(* The seven numbers, in order; the last one takes byte_cnt of the bytes    *)
(* that follow (or of what lies behind the buffer) and checks them.         *)
Number(p, val, blob) ==
    LET last == Len(p.head)
        content == IF Length[blob] = p.head[last].byte_cnt THEN blob ELSE Junk
        takes == [p EXCEPT !.head[last].content = content, !.level = 0,
                           !.skip = TRUE]
    IN  IF p.level = 0 \/ ~Converts(val) \/ (p.level = 1 /\ val = 0) THEN Stop(p)
        ELSE CASE p.level = 1 ->
                    [p EXCEPT !.head[last].byte_cnt = val, !.level = 2]
               [] p.level = 2 ->
                    [p EXCEPT !.head[last].erase_page_cnt = val, !.level = 3]
               [] p.level = 4 ->
                    [p EXCEPT !.head[last].checksum = val, !.level = 5]
               [] p.level \in {3, 5, 6} -> [p EXCEPT !.level = @ + 1]
               [] p.level = 7 ->
                    IF FwChecksum(takes.head[last]) THEN takes ELSE Stop(takes)

(* One turn of the loop.  A line that ends the file is read and dropped:    *)
(* the end is tested before the line is looked at.  A blob is reached only  *)
(* when no section takes it, and is then a line of its own.                 *)
ReadLine(p, file, i) ==
    LET line == file[i]
        follows == IF i < Len(file) /\ file[i + 1].kind = "blob"
                   THEN file[i + 1].val ELSE Junk
    IN  CASE p.bad -> p
          [] ~p.bad /\ p.skip -> [p EXCEPT !.skip = FALSE]
          [] ~p.bad /\ ~p.skip /\ i = Len(file) -> p
          [] ~p.bad /\ ~p.skip /\ i < Len(file) ->
                CASE line.kind = "$" -> Dollar(p, line.val)
                  [] line.kind = "#" -> Address(p, line.val)
                  [] line.kind = "*" -> Number(p, line.val, follows)
                  [] OTHER -> Stop(p)

(* The state of the parser after each line; a file that is rejected leaves  *)
(* no section behind.                                                       *)
Parse(file) ==
    LET after[i \in 0..Len(file)] ==
            IF i = 0 THEN Start ELSE ReadLine(after[i - 1], file, i)
        end == after[Len(file)]
    IN  [head |-> IF end.bad THEN <<>> ELSE end.head,
         all |-> end.all,
         errnum |-> IF end.bad THEN "parsing" ELSE "none"]

(* A section is written only if it has a length and a content.              *)
HasData(section) == section.byte_cnt > 0 /\ section.content # NULL
=============================================================================
