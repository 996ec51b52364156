------------------------------ MODULE Seeprom ------------------------------
(* The firmware update of the vendor driver (ssd20xx_mx25v100.c and the     *)
(* callers in ssd20xx_upgrade.c): a list of sections is erased, programmed  *)
(* and verified in the serial flash behind the touch controller, one SPI    *)
(* command per I2C transfer.  A transfer may fail, and the chip may have    *)
(* seen the command all the same.                                           *)
EXTENDS FwFile, SequencesExt

CONSTANTS Addr,         \* the addresses of the flash, from 0
          Image,        \* the sections of the header file, in their order
          WriteMax,     \* m_SEEPROM_WriteMax_Length
          Sector,       \* m_SEEPROM_Align_Sector
          Calls,        \* the updates that may be asked for
          Old,          \* the flash before the first update
          Retries,      \* FW_MAX_RETRY_COUNT
          MaxFaults     \* bound: failed transfers and time-outs

ASSUME SizeAssumption == /\ WriteMax \in Nat \ {0}
                         /\ Sector \in Nat \ {0}
                         /\ Retries \in Nat \ {0}
                         /\ MaxFaults \in Nat

ASSUME AddrAssumption == IsFiniteSet(Addr) /\ Addr = 0 .. Cardinality(Addr) - 1

ASSUME CallAssumption ==
    \A call \in Calls : call.by \in {"header", "bin", "file"}

VARIABLES
    flash,      \* [Addr -> cell]
    wel,        \* the write enable latch
    protect,    \* the block protect bits
    busy,       \* the command the chip is carrying out, or Nothing
    pc,         \* where the driver is
    step,       \* of an operation of three transfers: "wren", "cmd", "wait"
    at,         \* [sec, pos]: the section and the place in it
    tries,      \* attempts left of the operation
    round,      \* passes left over the whole image
    job,        \* [sections, all, byfile]: what is being written, and how
    outcome,    \* how the last update ended
    faults

chip == <<flash, wel, protect, busy>>
driver == <<pc, step, at, tries, round, job, outcome>>
vars == <<flash, wel, protect, busy, pc, step, at, tries, round, job, outcome,
          faults>>

-----------------------------------------------------------------------------
(* The flash chip.                                                          *)
Nothing == [op |-> "none"]
Blank == <<"blank">>
Cell(section, a) == <<section.content, a - section.address>>

Erase(from, to) == [a \in Addr |-> IF a \in from..to THEN Blank ELSE flash[a]]

(* Programming clears bits: a blank cell takes the value, another is spoilt.*)
Programmed(section, from, to) ==
    [a \in Addr |->
        IF a \notin from..to THEN flash[a]
        ELSE IF flash[a] \in {Blank, Cell(section, a)} THEN Cell(section, a)
        ELSE <<"spoilt">>]

(* A command while the chip is busy is ignored; one that writes needs the   *)
(* latch, and the array must not be protected.                              *)
Receive(cmd) ==
    /\ CASE busy # Nothing -> UNCHANGED <<wel, busy>>
         [] busy = Nothing /\ cmd.op = "wren" ->
                wel' = TRUE /\ UNCHANGED busy
         [] busy = Nothing /\ cmd.op # "wren" /\ ~wel -> UNCHANGED <<wel, busy>>
         [] busy = Nothing /\ cmd.op # "wren" /\ wel ->
                IF protect /\ cmd.op # "wrsr" THEN wel' = FALSE /\ UNCHANGED busy
                ELSE busy' = cmd /\ UNCHANGED wel
    /\ UNCHANGED <<flash, protect>>

ChipDone ==
    /\ busy # Nothing
    /\ flash' = CASE busy.op = "chip" -> Erase(0, Cardinality(Addr))
                  [] busy.op = "sector" -> Erase(busy.from, busy.from + Sector - 1)
                  [] busy.op = "page" -> Programmed(busy.section, busy.from, busy.to)
                  [] busy.op = "wrsr" -> flash
    /\ protect' = IF busy.op = "wrsr" THEN busy.protect ELSE protect
    /\ wel' = FALSE
    /\ busy' = Nothing
    /\ UNCHANGED <<driver, faults>>

-----------------------------------------------------------------------------
(* Transfers: one that succeeds reaches the chip, one that fails may have.  *)
Send(cmd) == Receive(cmd) /\ UNCHANGED faults

SendFails(cmd) ==
    /\ faults < MaxFaults
    /\ faults' = faults + 1
    /\ Receive(cmd) \/ UNCHANGED chip

Fails == faults < MaxFaults /\ faults' = faults + 1 /\ UNCHANGED chip

-----------------------------------------------------------------------------
(* What the driver does next.  Each of these sets pc, step, at, tries,      *)
(* round and outcome.                                                       *)
Section == job.sections[at.sec]

GoTo(p, where, n) ==
    /\ pc' = p
    /\ at' = where
    /\ tries' = n
    /\ step' = "wren"
    /\ UNCHANGED <<round, job, outcome>>

Finish(how) ==
    /\ pc' = "done"
    /\ outcome' = how
    /\ UNCHANGED <<step, at, tries, round, job>>

\* mutant: an error leaves by an earlier return
CloseUnlessFailed(how) ==
    /\ pc' = IF how = "failed" THEN "done" ELSE "protect"
    /\ step' = "wren"
    /\ outcome' = how
    /\ UNCHANGED <<at, tries, round, job>>

(* The protection is put back whatever happened to the update.              *)
Close(how) ==
    /\ pc' = "protect"
    /\ step' = "wren"
    /\ outcome' = how
    /\ UNCHANGED <<at, tries, round, job>>

Begin == [sec |-> 1, pos |-> 0]

\* mutant: the first section that fails ends the update of the whole chip
NoSecondPass == Close("failed")

(* retry_all: only an update of the whole chip starts over.  With sections  *)
(* alone the error of the last pass is still set, and ends the next one.    *)
SectionFailed ==
    IF job.all /\ round > 1
    THEN /\ pc' = "chip"
         /\ step' = "wren"
         /\ at' = Begin
         /\ tries' = Retries
         /\ round' = round - 1
         /\ UNCHANGED <<job, outcome>>
    ELSE Close("failed")

WriteSection == GoTo("page", [at EXCEPT !.pos = Section.address], Retries)

LastByte(section) == section.address + section.byte_cnt - 1
Bytes(section) == section.address .. LastByte(section)

(* The end of the page that holds a, and of the chunk that starts there: a  *)
(* page, or what is left of the section.  The first chunk brings the        *)
(* address to a page boundary whatever the length is.                       *)
PageEnd(a) == a - (a % WriteMax) + WriteMax - 1
Unaligned(section) == section.address % WriteMax # 0

ChunkEnd(a) ==
    IF a = Section.address /\ Unaligned(Section) THEN PageEnd(a)
    ELSE IF PageEnd(a) < LastByte(Section) THEN PageEnd(a) ELSE LastByte(Section)

(* The status register written without the protect bits, and with them.     *)
DisableProtect == [op |-> "wrsr", protect |-> FALSE]
EnableProtect == [op |-> "wrsr", protect |-> TRUE]

Command ==
    CASE pc = "unprotect" -> DisableProtect
      [] pc = "protect" -> EnableProtect
      [] pc = "chip" -> [op |-> "chip"]
      [] pc = "sector" ->
            [op |-> "sector", from |-> Section.address + Sector * at.pos]
      [] pc = "page" ->
            [op |-> "page", section |-> Section, from |-> at.pos,
             to |-> ChunkEnd(at.pos)]

(* The operation at pc has succeeded.                                       *)
Succeeded ==
    CASE pc = "unprotect" ->
            IF job.all THEN GoTo("chip", Begin, Retries)
            ELSE GoTo("section", Begin, Retries)
      [] pc = "chip" -> GoTo("section", Begin, Retries)
      [] pc = "sector" ->
            IF at.pos + 1 < Section.erase_page_cnt
            THEN GoTo("sector", [at EXCEPT !.pos = @ + 1], tries)
            ELSE WriteSection
      [] pc = "page" ->
            IF ChunkEnd(at.pos) < LastByte(Section)
            THEN GoTo("page", [at EXCEPT !.pos = ChunkEnd(@) + 1], tries)
            ELSE GoTo("verify", at, Retries)
      [] pc = "protect" -> Finish(outcome)

\* mutant: a page that fails starts over with the attempts of a new section
RetriesAfresh ==
    CASE pc = "unprotect" -> Finish("failed")
      [] pc = "protect" -> Finish(outcome)
      [] pc = "chip" ->
            IF tries > 1 THEN GoTo("chip", at, tries - 1) ELSE Close("failed")
      [] pc = "sector" ->
            IF tries > 1 THEN GoTo("sector", [at EXCEPT !.pos = 0], tries - 1)
            ELSE SectionFailed
      [] pc = "page" -> IF tries > 1 THEN WriteSection ELSE SectionFailed

(* It has returned an error: it starts over from its first command, or is   *)
(* given up.                                                                *)
Failed ==
    CASE pc = "unprotect" -> Finish("failed")
      [] pc = "protect" -> Finish(outcome)
      [] pc = "chip" ->
            IF tries > 1 THEN GoTo("chip", at, tries - 1) ELSE Close("failed")
      [] pc = "sector" ->
            IF tries > 1 THEN GoTo("sector", [at EXCEPT !.pos = 0], tries - 1)
            ELSE SectionFailed
      [] pc = "page" ->
            IF tries > 1
            THEN GoTo("page", [at EXCEPT !.pos = Section.address], tries - 1)
            ELSE SectionFailed

-----------------------------------------------------------------------------
(* The callers.  A call comes when the chip has finished the last one.      *)
Update(sections, all) ==
    /\ pc' = "init"
    /\ outcome' = "running"
    /\ job' = [sections |-> sections, all |-> all]

(* Nothing to write: the result of the parser is what the caller is told.   *)
Refuse(parsed) ==
    /\ pc' = "done"
    /\ outcome' = IF parsed.errnum = "none" THEN "ok" ELSE "refused"
    /\ job' = [sections |-> parsed.head, all |-> parsed.all]

(* update_by_header_all(): a list the driver keeps goes to the whole chip.  *)
UpdateByHeaderAll(sections) == Update(sections, TRUE)

(* The built-in sections, linked one after the other.                       *)
MakeHeaderUseHead == FoldLeft(MakeLink, <<>>, Image)

(* The file's; the list of those a checksum is kept for is built next to it,*)
(* and nobody reads it.                                                     *)
MakeHeaderUseBin(file) == Parse(file).head

PreBootUpCheckHead == UpdateByHeaderAll(MakeHeaderUseHead)

(* Goes to the chip whatever the parser said.                               *)
PreBootUpCheckBin(file) == UpdateByHeaderAll(MakeHeaderUseBin(file))

(* A file asked for by name goes to the chip only if it has a section, and  *)
(* says itself whether the whole chip is erased.  The controller is reset   *)
(* before, which the flash and its chip do not notice.  A file of length    *)
(* zero is not parsed at all: <<>> has neither a section nor an error, so   *)
(* that the call returns 0 and nothing is written.                          *)
UpdateByFile(file) ==
    LET parsed == Parse(file)
    IN  IF parsed.head = <<>> THEN Refuse(parsed)
        ELSE Update(parsed.head, parsed.all)

Ask(call) ==
    /\ pc = "idle" /\ busy = Nothing
    /\ CASE call.by = "header" -> PreBootUpCheckHead
         [] call.by = "bin" -> PreBootUpCheckBin(call.file)
         [] call.by = "file" -> UpdateByFile(call.file)
    /\ round' = Retries
    /\ at' = Begin
    /\ step' = "wren"
    /\ tries' = Retries
    /\ UNCHANGED <<chip, faults>>

Return ==
    /\ pc = "done"
    /\ pc' = "idle"
    /\ job' = [sections |-> <<>>, all |-> FALSE]
    /\ at' = Begin
    /\ UNCHANGED <<chip, step, tries, round, outcome, faults>>

\* mutant: the counter is tested before it is decremented
InitDsOnceMore ==
    /\ pc = "init"
    /\ \/ UNCHANGED <<chip, faults>> /\ GoTo("readid", Begin, 1)
       \/ /\ Fails
          /\ IF tries > 0 THEN GoTo("init", Begin, tries - 1)
             ELSE Finish("failed")

(* fw_solomon_init(): three attempts.                                       *)
InitDs ==
    /\ pc = "init"
    /\ \/ UNCHANGED <<chip, faults>> /\ GoTo("readid", Begin, 1)
       \/ /\ Fails
          /\ IF tries > 1 THEN GoTo("init", Begin, tries - 1)
             ELSE Finish("failed")

(* seeprom_download_initialize(): one.                                      *)
ReadId ==
    /\ pc = "readid"
    /\ \/ UNCHANGED <<chip, faults>> /\ GoTo("unprotect", Begin, 1)
       \/ Fails /\ Finish("failed")

-----------------------------------------------------------------------------
(* The transfers of an erase, of a page and of the status register.         *)
Operations == {"unprotect", "chip", "sector", "page", "protect"}

Wren ==
    /\ pc \in Operations /\ step = "wren"
    /\ \/ /\ Send([op |-> "wren"])
          /\ step' = "cmd"
          /\ UNCHANGED <<pc, at, tries, round, job, outcome>>
       \/ SendFails([op |-> "wren"]) /\ Failed

Cmd ==
    /\ pc \in Operations /\ step = "cmd"
    /\ \/ /\ Send(Command)
          /\ step' = "wait"
          /\ UNCHANGED <<pc, at, tries, round, job, outcome>>
       \/ SendFails(Command) /\ Failed

(* ds16_seeprom_wait_bsyclr() polls until neither busy nor the latch is set;*)
(* when it gives up, it returns the success of the last transfer.  The      *)
(* status register write is followed by one read, whatever it says.         *)
WaitBusyClear ==
    /\ pc \in Operations /\ step = "wait"
    /\ \/ /\ pc \in {"unprotect", "protect"} \/ busy = Nothing
          /\ UNCHANGED <<chip, faults>>
          /\ Succeeded
       \/ /\ pc \notin {"unprotect", "protect"}
          /\ busy # Nothing
          /\ Fails
          /\ Succeeded
       \/ Fails /\ Failed

(* ds16_seeprom_firmware_update_by_section(): what has no data is passed.   *)
BySection ==
    /\ pc = "section"
    /\ IF at.sec > Len(job.sections) THEN Close("ok")
       ELSE CASE ~HasData(Section) ->
                   GoTo("section", [sec |-> at.sec + 1, pos |-> 0], Retries)
              [] HasData(Section) /\ ~job.all /\ Section.erase_page_cnt > 0 ->
                   GoTo("sector", [at EXCEPT !.pos = 0], Retries)
              [] OTHER -> WriteSection
    /\ UNCHANGED <<chip, faults>>

(* What a byte reads as: a chip that is busy sends no data.                 *)
Read(a) == IF busy = Nothing THEN flash[a] ELSE <<"no data">>

(* What is read back of a section is its content.                           *)
ReadNbyte(section) == \A a \in Bytes(section) : Read(a) = Cell(section, a)

\* mutant: a section that cannot be read back counts as written
VerifyLenient ==
    /\ pc = "verify"
    /\ \/ /\ UNCHANGED <<chip, faults>>
          /\ IF ReadNbyte(Section)
             THEN GoTo("section", [sec |-> at.sec + 1, pos |-> 0], Retries)
             ELSE IF tries > 1 THEN GoTo("verify", at, tries - 1)
             ELSE SectionFailed
       \/ /\ Fails
          /\ GoTo("section", [sec |-> at.sec + 1, pos |-> 0], Retries)

\* mutant: the readings are not counted
VerifyForever ==
    /\ pc = "verify"
    /\ \/ /\ UNCHANGED <<chip, faults>>
          /\ IF ReadNbyte(Section)
             THEN GoTo("section", [sec |-> at.sec + 1, pos |-> 0], Retries)
             ELSE GoTo("verify", at, tries)
       \/ Fails /\ GoTo("verify", at, tries)

(* ds16_seeprom_verify(): a section that reads back otherwise is read again.*)
Verify ==
    /\ pc = "verify"
    /\ \/ /\ UNCHANGED <<chip, faults>>
          /\ IF ReadNbyte(Section)
             THEN GoTo("section", [sec |-> at.sec + 1, pos |-> 0], Retries)
             ELSE IF tries > 1 THEN GoTo("verify", at, tries - 1)
             ELSE SectionFailed
       \/ /\ Fails
          /\ IF tries > 1 THEN GoTo("verify", at, tries - 1) ELSE SectionFailed

-----------------------------------------------------------------------------
Init ==
    /\ flash = Old
    /\ wel = FALSE
    /\ protect = TRUE
    /\ busy = Nothing
    /\ pc = "idle"
    /\ step = "wren"
    /\ at = Begin
    /\ tries = Retries
    /\ round = Retries
    /\ job = [sections |-> <<>>, all |-> FALSE]
    /\ outcome = "idle"
    /\ faults = 0

Driver == InitDs \/ ReadId \/ Wren \/ Cmd \/ WaitBusyClear \/ BySection \/ Verify

Next == (\E call \in Calls : Ask(call)) \/ Driver \/ Return \/ ChipDone

Spec == Init /\ [][Next]_vars

(* The chip finishes what it has started, and the driver, which holds no    *)
(* lock anyone waits for here, takes its steps.                             *)
FairSpec == Spec /\ WF_vars(Driver) /\ WF_vars(ChipDone)

-----------------------------------------------------------------------------
(* Types.                                                                   *)
Outcomes == {"idle", "running", "ok", "failed", "refused"}
Places == {"idle", "init", "readid", "section", "verify", "done"} \union Operations

Holds(section) == \A a \in Bytes(section) : flash[a] = Cell(section, a)

(* Every variable has its type, the attempts left never reach zero, and the *)
(* driver is never past the last section, past the pages it erases of one,  *)
(* or at a byte that is not the section's.                                  *)
TypeOK ==
    /\ wel \in BOOLEAN
    /\ protect \in BOOLEAN
    /\ pc \in Places
    /\ step \in {"wren", "cmd", "wait"}
    /\ at.sec \in 1..Len(job.sections) + 1
    /\ pc = "sector" => at.pos \in 0..Section.erase_page_cnt - 1
    /\ pc = "page" => at.pos \in Bytes(Section)
    /\ tries \in 1..Retries
    /\ round \in 1..Retries
    /\ outcome \in Outcomes
    /\ faults \in 0..MaxFaults

(* A whole-chip update (header, bin file) only fails because transfers did: *)
(* one the chip ignores, busy with the status register that nobody waits    *)
(* for at the start, is made good by retry_all.                             *)
FailureNeedsFaults ==
    pc = "done" /\ outcome = "failed" /\ job.all => faults > 0

(* Without a failed transfer the flash is protected again once an update    *)
(* has ended, however it ended.                                             *)
ProtectRestored ==
    pc \in {"idle", "done"} /\ busy = Nothing /\ faults = 0 => protect

(* What seeprom_firmware_update() and seeprom_firmware_pre_boot_up_check()  *)
(* say they return: an update that has succeeded leaves every section of    *)
(* the firmware in the flash.                                               *)
SuccessMeansFlashed ==
    outcome = "ok" => \A i \in DOMAIN Image : Holds(Image[i])

(* The update implements FlashUpdate: it changes the flash only while it    *)
(* runs, and succeeds only with the whole image in place.                   *)
FlashContent == IF \A i \in DOMAIN Image : Holds(Image[i]) THEN "image" ELSE "other"

Abstract == INSTANCE FlashUpdate
    WITH Contents <- {"image", "other"}, Image <- "image",
         content <- FlashContent, outcome <- outcome

ImplementsFlashUpdate == Abstract!Safety

(* It keeps FlashUpdate's other promise too: every update ends, whatever    *)
(* transfers fail and whatever the chip ignores.                            *)
EveryUpdateEnds == Abstract!Fairness

(* What is left of an update: passes over the chip, what comes after the    *)
(* sections, sections, operations on one, attempts, places, transfers.      *)
Phase(p) ==
    CASE p = "init" -> 6 [] p = "readid" -> 5 [] p = "unprotect" -> 4 [] p = "chip" -> 3
      [] p \in {"section", "sector", "page", "verify"} -> 2
      [] p = "protect" -> 1
      [] p \in {"done", "idle"} -> 0

Stage(p) == CASE p = "section" -> 3 [] p = "sector" -> 2 [] p = "page" -> 1 [] OTHER -> 0

PlacesLeft ==
    CASE pc = "sector" -> Section.erase_page_cnt - at.pos
      [] pc = "page" -> LastByte(Section) - at.pos
      [] OTHER -> 0

TransfersLeft == CASE step = "wren" -> 2 [] step = "cmd" -> 1 [] step = "wait" -> 0

Remains == <<round, Phase(pc), Len(job.sections) + 1 - at.sec, Stage(pc), tries,
             PlacesLeft, TransfersLeft>>

Less(a, b) == \E k \in 1..7 : a[k] < b[k] /\ \A n \in 1..k - 1 : a[n] = b[n]

(* Why every update ends: the loops over passes, sections, attempts and     *)
(* pages are nested, each starts the inner ones over, and still no step of  *)
(* the driver gets it back to where it was.  The first number that changes  *)
(* gets smaller, and they are natural numbers.                              *)
AttemptsRunOut ==
    [][Driver => Less(Remains', Remains) /\ \A k \in 1..7 : Remains[k] \in Nat]_vars

-----------------------------------------------------------------------------
(* What the properties rest on: what the header and the files contain.      *)

(* The list a call brings, and whether the whole chip is erased for it.     *)
Asked(call) ==
    CASE call.by = "header" -> [sections |-> MakeHeaderUseHead, all |-> TRUE]
      [] call.by = "bin" -> [sections |-> MakeHeaderUseBin(call.file), all |-> TRUE]
      [] call.by = "file" -> [sections |-> Parse(call.file).head,
                              all |-> Parse(call.file).all]

(* A list of which something is written.                                    *)
Written(sections, all) ==
    all \/ \E i \in 1..Len(sections) : HasData(sections[i])

(* What ProtectRestored rests on: a file asked for by name is refused, or   *)
(* holds a section with a content.  One that ends within its first section  *)
(* is neither: nothing waits for the chip between the removal of the        *)
(* protection and its return, and both commands may reach a busy chip.      *)
NoHollowFile ==
    \A call \in Calls : call.by = "file" =>
        LET parsed == Parse(call.file)
        IN  parsed.head # <<>> => /\ parsed.head \in Seq(Range(parsed.head))
                                  /\ Written(parsed.head, parsed.all)

(* A list of sections whose numbers are numbers, inside the flash.          *)
Fits(sections) ==
    /\ sections \in Seq(Range(sections))
    /\ \A i \in 1..Len(sections) :
          /\ sections[i].address \in Nat
          /\ sections[i].byte_cnt \in Nat
          /\ sections[i].erase_page_cnt \in Nat
          /\ Bytes(sections[i]) \subseteq Addr

(* The bytes that programming a section may change, and the sectors that    *)
(* are erased for it: of the whole chip, nothing is once it is blank.       *)
Programs(section) ==
    Bytes(section)
      \union IF Unaligned(section) THEN section.address .. PageEnd(section.address) ELSE {}

Erases(section, all) ==
    IF all THEN {}
    ELSE UNION { LET from == section.address + Sector * page IN from .. from + Sector - 1 :
                    page \in 0..section.erase_page_cnt - 1 }

(* Writing a section leaves those before it alone.                          *)
InOrder(sections, all) ==
    \A i, j \in 1..Len(sections) :
        i < j /\ HasData(sections[i]) /\ HasData(sections[j])
          => Bytes(sections[i]) \intersect
                (Programs(sections[j]) \union Erases(sections[j], all)) = {}

(* With the chip blank, writing a section leaves those behind it alone too. *)
Apart(sections) ==
    \A i, j \in 1..Len(sections) :
        i # j /\ HasData(sections[i]) /\ HasData(sections[j])
          => Bytes(sections[i]) \intersect Programs(sections[j]) = {}

(* The whole image is in the list.                                          *)
Complete(sections) ==
    \A i \in DOMAIN Image : Image[i].byte_cnt > 0 =>
        \E j \in 1..Len(sections) : sections[j] = Image[i] /\ HasData(sections[j])

(* What TypeOK rests on.                                                    *)
ListsFit == \A call \in Calls : Fits(Asked(call).sections)

(* What ImplementsFlashUpdate rests on: the lists that reach the chip hold  *)
(* the whole image, each section clear of those before it, and a file       *)
(* without a section is an error.                                           *)
ListsIntact ==
    /\ \A i \in DOMAIN Image : Image[i].address \in Nat /\ Image[i].byte_cnt \in Nat
                                 /\ Bytes(Image[i]) \subseteq Addr
    /\ \A call \in Calls :
          IF call.by = "file" /\ Asked(call).sections = <<>>
          THEN Parse(call.file).errnum # "none"
          ELSE /\ InOrder(Asked(call).sections, Asked(call).all)
               /\ Complete(Asked(call).sections)

(* What FailureNeedsFaults rests on: sections of the whole chip are apart,  *)
(* and there is a second pass.                                              *)
ListsApart ==
    /\ Retries > 1
    /\ \A call \in Calls : Asked(call).all => Apart(Asked(call).sections)
=============================================================================
