----------------------------- MODULE MCSeeprom -----------------------------
(* A flash of twelve bytes in two sectors, pages of two bytes, and three    *)
(* sections laid out like those of ssd20xx_upgrade.h: the second starts in  *)
(* the middle of a page, in the sector of the first, and is not erased by   *)
(* itself; a fourth is empty.                                               *)
EXTENDS Seeprom

CONSTANTS sys, cfg, fw, junk, null

MCContents == {sys, cfg, fw, junk}
MCChecksum == [c \in MCContents |-> CASE c = sys -> 1 [] c = cfg -> 2
                                      [] c = fw -> 3 [] c = junk -> 4]
MCLength == [c \in MCContents |-> CASE c = sys -> 2 [] c = cfg -> 3
                                    [] c = fw -> 3 [] c = junk -> 0]

MCAddr == 0..11
MCOld == [a \in MCAddr |-> <<"old">>]

Data(address, content, pages) ==
    [address |-> address, byte_cnt |-> MCLength[content],
     erase_page_cnt |-> pages, checksum |-> MCChecksum[content],
     content |-> content]

MCImage == <<Data(0, sys, 1), Data(3, cfg, 0), Data(8, fw, 1),
             [address |-> 11, byte_cnt |-> 0, erase_page_cnt |-> 0,
              checksum |-> 0, content |-> null]>>

-----------------------------------------------------------------------------
(* The merged file of the first three sections.                             *)
Line(kind, val) == [kind |-> kind, val |-> val]
FileHeader(all) ==
    [i \in 1..9 |-> Line("$", IF i = 9 THEN all ELSE i)]
SectionLines(s) ==
    <<Line("#", s.address), Line("*", s.byte_cnt), Line("*", s.erase_page_cnt),
      Line("*", 0), Line("*", s.checksum), Line("*", 0), Line("*", 0),
      Line("*", 0), Line("blob", s.content)>>

Merged(all) == FileHeader(all) \o SectionLines(MCImage[1])
                    \o SectionLines(MCImage[2]) \o SectionLines(MCImage[3])

(* One line is no number, or the content is not what the checksum says.     *)
Garbled(file) ==
    { [file EXCEPT ![i] = IF @.kind = "blob" THEN Line("blob", junk)
                          ELSE Line(@.kind, Bad)] : i \in DOMAIN file }


FromHeader == [by |-> "header", file |-> <<>>]
From(by, file) == [by |-> by, file |-> file]

Updates == { FromHeader, From("bin", Merged(1)),
             From("file", Merged(0)), From("file", Merged(1)) }
           \union { From("file", f) : f \in Garbled(Merged(0)) }

CorruptBins == { From("bin", f) : f \in Garbled(Merged(1)) }

(* What the theorems of SeepromProofs ask of the files; of the corrupt ones *)
(* of the other run only that they are no hollow files by name.             *)
ASSUME HollowAssumption == NoHollowFile
ASSUME ListsAssumption == Calls = Updates => ListsFit /\ ListsIntact /\ ListsApart
=============================================================================
