--------------------------- MODULE SeepromProofs ---------------------------
(* TLAPS proofs about the firmware update, for any flash geometry, any list *)
(* of sections that fits it, any files, any number of attempts and any      *)
(* number of failed transfers: its types, that it runs out of things to do, *)
(* that it implements FlashUpdate, that a whole-chip update without a       *)
(* failed transfer does not fail, and that the protection is put back.      *)
EXTENDS Seeprom, FiniteSetTheorems, TLAPS

(* The chip is carrying out nothing.                                        *)
Rest == busy = Nothing

(* Where the driver may be: an operation on a section is on one of the list *)
(* that has data, at one of its bytes or sectors.                           *)
Spot == [sec : Nat, pos : Nat]
MayBe(p, where) ==
    /\ where \in Spot /\ where.sec \in 1..Len(job.sections) + 1
    /\ p \in {"init", "readid", "unprotect", "chip"} => where = Begin
    /\ p \in {"sector", "page", "verify"} =>
          where.sec <= Len(job.sections) /\ HasData(job.sections[where.sec])
    /\ p = "sector" =>
          ~job.all /\ where.pos \in 0..job.sections[where.sec].erase_page_cnt - 1
    /\ p = "page" => where.pos \in Bytes(job.sections[where.sec])

Known(cmd) ==
    /\ cmd.op \in {"none", "wren", "wrsr", "chip", "sector", "page"}
    /\ cmd.op = "wrsr" => cmd.protect \in BOOLEAN

ChipType ==
    /\ wel \in BOOLEAN /\ protect \in BOOLEAN
    /\ Known(busy) /\ (busy # Nothing => busy.op \notin {"none", "wren"})
    /\ faults \in 0..MaxFaults

DriverType ==
    /\ Fits(job.sections)
    /\ pc \in Places /\ MayBe(pc, at)
    /\ step \in {"wren", "cmd", "wait"}
    /\ tries \in 1..Retries /\ round \in 1..Retries
    /\ outcome \in Outcomes

TypeInv == ChipType /\ DriverType

(* What the constants are.                                                  *)
LEMMA SizeFacts ==
    /\ WriteMax \in Nat /\ WriteMax > 0
    /\ Sector \in Nat /\ Sector > 0
    /\ Retries \in Nat /\ Retries > 0
    /\ MaxFaults \in Nat
  BY SizeAssumption

(* A page ends at or behind each of its bytes.                              *)
LEMMA PageFacts ==
    ASSUME NEW a \in Nat
    PROVE  PageEnd(a) \in Nat /\ PageEnd(a) >= a
  <1>1. a % WriteMax \in 0 .. WriteMax - 1
    BY SizeFacts
  <1> QED
    BY <1>1, SizeFacts DEF PageEnd

(* A chunk starts at a byte of the section and ends at one, or at the end   *)
(* of the section's first page.                                             *)
LEMMA ChunkFacts ==
    ASSUME Section.address \in Nat, Section.byte_cnt \in Nat, NEW a \in Bytes(Section)
    PROVE  /\ a \in Nat /\ ChunkEnd(a) \in Nat /\ ChunkEnd(a) >= a
           /\ a .. ChunkEnd(a) \subseteq Programs(Section)
           /\ ChunkEnd(a) < LastByte(Section) => ChunkEnd(a) + 1 \in Bytes(Section)
  <1>1. LastByte(Section) \in Int /\ a \in Nat /\ Section.address <= a /\ a <= LastByte(Section)
    BY DEF Bytes, LastByte
  <1>2. PageEnd(a) \in Nat /\ PageEnd(a) >= a
    BY <1>1, PageFacts
  <1>3. ChunkEnd(a) \in Nat /\ ChunkEnd(a) >= a
    BY <1>1, <1>2 DEF ChunkEnd
  <1>4. CASE a = Section.address /\ Unaligned(Section)
    BY <1>1, <1>3, <1>4 DEF ChunkEnd, Programs, Bytes
  <1>5. CASE ~(a = Section.address /\ Unaligned(Section))
    <2>1. ChunkEnd(a) <= LastByte(Section)
      BY <1>1, <1>2, <1>5 DEF ChunkEnd
    <2> QED
      BY <1>1, <1>3, <2>1 DEF Programs, Bytes
  <1>6. ChunkEnd(a) < LastByte(Section) => ChunkEnd(a) + 1 \in Bytes(Section)
    BY <1>1, <1>3 DEF Bytes
  <1> QED
    BY <1>1, <1>3, <1>4, <1>5, <1>6

(* The section at hand is inside the flash, and not empty if it has data.   *)
LEMMA SectionFacts ==
    ASSUME Fits(job.sections), at.sec \in 1..Len(job.sections)
    PROVE  /\ Section.address \in Nat /\ Section.byte_cnt \in Nat
           /\ Section.erase_page_cnt \in Nat /\ Bytes(Section) \subseteq Addr
           /\ HasData(Section) => Section.address \in Bytes(Section)
  <1>1. /\ Section.address \in Nat /\ Section.byte_cnt \in Nat
        /\ Section.erase_page_cnt \in Nat /\ Bytes(Section) \subseteq Addr
    BY DEF Section, Fits
  <1>2. HasData(Section) => Section.address \in Bytes(Section)
    BY <1>1 DEF HasData, Bytes, LastByte
  <1> QED
    BY <1>1, <1>2

(* The invariant is stronger than what a run checks of it.                  *)
LEMMA TypeParts == TypeInv => TypeOK
  BY DEF TypeInv, ChipType, DriverType, MayBe, TypeOK, Section

(* To another place in the same section.                                    *)
LEMMA SpotFacts ==
    ASSUME at \in Spot, NEW n \in Nat
    PROVE  /\ [at EXCEPT !.pos = n] \in Spot
           /\ [at EXCEPT !.pos = n].sec = at.sec /\ [at EXCEPT !.pos = n].pos = n
  BY DEF Spot

(* Every list has a place to begin at.                                      *)
LEMMA BeginFacts ==
    /\ Begin \in Spot /\ Begin.sec = 1 /\ Begin.pos = 0
    /\ Fits(job.sections) => Begin.sec \in 1..Len(job.sections) + 1
  <1>1. Fits(job.sections) => Len(job.sections) \in Nat
    BY DEF Fits
  <1> QED
    BY <1>1 DEF Begin, Spot

(* A step to an allowed place keeps the driver's types.                     *)
LEMMA GoToType ==
    ASSUME DriverType, NEW p \in Places, NEW where, NEW n \in 1..Retries,
           MayBe(p, where), GoTo(p, where, n)
    PROVE  DriverType'
  BY DEF DriverType, MayBe, GoTo

(* The end of an update may come anywhere.                                  *)
LEMMA CloseType ==
    ASSUME DriverType, NEW how \in Outcomes,
           Close(how) \/ Finish(how)
    PROVE  DriverType'
  <1>1. MayBe("protect", at) /\ MayBe("done", at)
    BY DEF DriverType, MayBe
  <1> QED
    BY <1>1 DEF DriverType, MayBe, Close, Finish, Places, Operations

(* A section given up: the whole chip again, or the end.                    *)
LEMMA GiveUpType ==
    ASSUME DriverType, SectionFailed
    PROVE  DriverType'
  <1>1. CASE Close("failed")
    BY <1>1, CloseType DEF Outcomes
  <1>2. CASE /\ round > 1 /\ pc' = "chip" /\ step' = "wren" /\ at' = Begin
             /\ tries' = Retries /\ round' = round - 1 /\ UNCHANGED <<job, outcome>>
    <2>1. MayBe("chip", Begin) /\ "chip" \in Places
      BY BeginFacts DEF DriverType, MayBe, Places, Operations
    <2>2. tries' \in 1..Retries /\ round' \in 1..Retries
      BY <1>2, SizeFacts DEF DriverType
    <2> QED
      BY <1>2, <2>1, <2>2 DEF DriverType, MayBe
  <1> QED
    BY <1>1, <1>2 DEF SectionFailed

(* To the first page of a section that has data.                            *)
LEMMA WriteSectionType ==
    ASSUME DriverType, at.sec \in 1..Len(job.sections), HasData(Section), WriteSection
    PROVE  DriverType'
  <1>1. Section.address \in Nat /\ Section.address \in Bytes(Section)
    BY SectionFacts DEF DriverType
  <1>2. MayBe("page", [at EXCEPT !.pos = Section.address])
    BY <1>1, SpotFacts DEF DriverType, MayBe, Section
  <1> QED
    BY <1>2, GoToType, SizeFacts DEF WriteSection, Places, Operations

(* The next operation is in the list, in the section, in the attempts.      *)
LEMMA SucceededType ==
    ASSUME DriverType, pc \in Operations, Succeeded
    PROVE  DriverType'
  <1> USE DEF Places, Operations
  <1>1. Retries \in 1..Retries /\ 1 \in 1..Retries /\ tries \in 1..Retries
    BY SizeFacts DEF DriverType
  <1>2. Fits(job.sections) /\ at \in Spot /\ MayBe(pc, at)
    BY DEF DriverType, MayBe
  <1>3. CASE pc \in {"unprotect", "chip"}
    <2>1. MayBe("chip", Begin) /\ MayBe("section", Begin)
      BY <1>2, BeginFacts DEF MayBe
    <2>2. GoTo("chip", Begin, Retries) \/ GoTo("section", Begin, Retries)
      BY <1>3 DEF Succeeded
    <2> QED
      BY <1>1, <2>1, <2>2, GoToType
  <1>4. CASE pc = "sector"
    <2>1. at.sec \in 1..Len(job.sections) /\ HasData(Section) /\ at.pos \in Nat
      BY <1>2, <1>4 DEF MayBe, Section, Spot
    <2>2. CASE WriteSection
      BY <2>1, <2>2, WriteSectionType
    <2>3. CASE /\ at.pos + 1 < Section.erase_page_cnt
               /\ GoTo("sector", [at EXCEPT !.pos = @ + 1], tries)
      <3>1. at.pos + 1 \in 0..Section.erase_page_cnt - 1
        BY <1>2, <2>1, <2>3, SectionFacts
      <3>2. MayBe("sector", [at EXCEPT !.pos = at.pos + 1])
        BY <1>2, <1>4, <2>1, <3>1, SpotFacts DEF MayBe, Section
      <3> QED
        BY <1>1, <2>3, <3>2, GoToType
    <2> QED
      BY <1>4, <2>2, <2>3 DEF Succeeded
  <1>5. CASE pc = "page"
    <2>1. at.sec \in 1..Len(job.sections) /\ HasData(Section) /\ at.pos \in Bytes(Section)
      BY <1>2, <1>5 DEF MayBe, Section, Spot
    <2>2. CASE GoTo("verify", at, Retries)
      <3>1. MayBe("verify", at)
        BY <1>2, <2>1 DEF MayBe, Section
      <3> QED
        BY <1>1, <2>2, <3>1, GoToType
    <2>3. CASE /\ ChunkEnd(at.pos) < LastByte(Section)
               /\ GoTo("page", [at EXCEPT !.pos = ChunkEnd(@) + 1], tries)
      <3>1. ChunkEnd(at.pos) + 1 \in Bytes(Section) /\ ChunkEnd(at.pos) + 1 \in Nat
        BY <1>2, <2>1, <2>3, SectionFacts, ChunkFacts
      <3>2. MayBe("page", [at EXCEPT !.pos = ChunkEnd(at.pos) + 1])
        BY <1>2, <2>1, <3>1, SpotFacts DEF MayBe, Section
      <3> QED
        BY <1>1, <2>3, <3>2, GoToType
    <2> QED
      BY <1>5, <2>2, <2>3 DEF Succeeded
  <1>6. CASE pc = "protect"
    BY <1>6, CloseType DEF Succeeded, DriverType
  <1> QED
    BY <1>3, <1>4, <1>5, <1>6

(* So is one that starts over.                                              *)
LEMMA FailedType ==
    ASSUME DriverType, pc \in Operations, Failed
    PROVE  DriverType'
  <1> USE DEF Places, Operations
  <1>1. Fits(job.sections) /\ at \in Spot /\ MayBe(pc, at) /\ outcome \in Outcomes
    BY DEF DriverType, MayBe
  <1>2. tries > 1 => tries - 1 \in 1..Retries
    BY SizeFacts DEF DriverType
  <1>3. CASE pc \in {"unprotect", "protect"}
    BY <1>1, <1>3, CloseType DEF Failed, Outcomes
  <1>4. CASE pc = "chip"
    BY <1>1, <1>2, <1>4, CloseType, GoToType DEF Failed, Outcomes
  <1>5. CASE pc = "sector"
    <2>1. at.sec \in 1..Len(job.sections) /\ HasData(Section)
      BY <1>1, <1>5 DEF MayBe, Section, Spot
    <2>2. 0 \in 0..Section.erase_page_cnt - 1
      BY <1>1, <1>5, <2>1, SectionFacts DEF MayBe, Section
    <2>3. MayBe("sector", [at EXCEPT !.pos = 0])
      BY <1>1, <1>5, <2>1, <2>2, SpotFacts DEF MayBe, Section
    <2> QED
      BY <1>2, <1>5, <2>3, GoToType, GiveUpType DEF Failed
  <1>6. CASE pc = "page"
    <2>1. at.sec \in 1..Len(job.sections) /\ HasData(Section)
      BY <1>1, <1>6 DEF MayBe, Section, Spot
    <2>2. Section.address \in Nat /\ Section.address \in Bytes(Section)
      BY <1>1, <2>1, SectionFacts
    <2>3. MayBe("page", [at EXCEPT !.pos = Section.address])
      BY <1>1, <2>1, <2>2, SpotFacts DEF MayBe, Section
    <2> QED
      BY <1>2, <1>6, <2>3, GoToType, GiveUpType DEF Failed
  <1> QED
    BY <1>3, <1>4, <1>5, <1>6

(* What a transfer does to the chip.                                        *)
LEMMA ReceiveType ==
    ASSUME ChipType, NEW cmd, Receive(cmd) \/ UNCHANGED chip,
           Known(cmd), cmd.op # "none",
           faults' = faults \/ (faults < MaxFaults /\ faults' = faults + 1)
    PROVE  ChipType'
  <1>1. faults' \in 0..MaxFaults
    BY SizeFacts DEF ChipType
  <1>2. CASE UNCHANGED chip
    BY <1>1, <1>2 DEF ChipType, chip
  <1>3. CASE Receive(cmd)
    <2>1. (wel' = wel \/ wel' \in BOOLEAN) /\ protect' = protect
      BY <1>3 DEF Receive
    <2>2. busy' = busy \/ (busy' = cmd /\ cmd.op # "wren")
      BY <1>3 DEF Receive
    <2> QED
      BY <1>1, <2>1, <2>2 DEF ChipType, Known
  <1> QED
    BY <1>2, <1>3

(* The commands, one per operation.                                         *)
LEMMA CommandType ==
    ASSUME pc \in Operations
    PROVE  /\ Known(Command) /\ Command.op \notin {"none", "wren"}
           /\ pc = "unprotect" => Command = DisableProtect
           /\ pc = "protect" => Command = EnableProtect
           /\ pc = "chip" => Command.op = "chip"
           /\ pc = "sector" => /\ Command.op = "sector"
                               /\ Command.from = Section.address + Sector * at.pos
           /\ pc = "page" => /\ Command.op = "page" /\ Command.section = Section
                             /\ Command.from = at.pos /\ Command.to = ChunkEnd(at.pos)
  BY DEF Command, Operations, DisableProtect, EnableProtect, Known

(* The chip does not move the driver.                                       *)
LEMMA ChipDoneType == ASSUME TypeInv, ChipDone PROVE TypeInv'
  <1>1. protect' \in BOOLEAN /\ wel' = FALSE /\ busy' = Nothing /\ UNCHANGED <<driver, faults>>
    BY DEF TypeInv, ChipType, ChipDone, Known
  <1>2. ChipType'
    BY <1>1 DEF TypeInv, ChipType, Nothing, Known
  <1>3. DriverType'
    BY <1>1 DEF TypeInv, DriverType, MayBe, driver
  <1> QED
    BY <1>2, <1>3 DEF TypeInv

(* A transfer, one that fails or not.                                       *)
LEMMA TransferType == ASSUME TypeInv, Wren \/ Cmd \/ WaitBusyClear PROVE TypeInv'
  <1>1. pc \in Operations /\ DriverType /\ ChipType
    BY DEF Wren, Cmd, WaitBusyClear, TypeInv
  <1>2. DriverType'
    <2>1. CASE Succeeded \/ Failed
      BY <1>1, <2>1, SucceededType, FailedType
    <2>2. CASE step' \in {"cmd", "wait"} /\ UNCHANGED <<pc, at, tries, round, job, outcome>>
      BY <1>1, <2>2 DEF DriverType, MayBe
    <2> QED
      BY <2>1, <2>2 DEF Wren, Cmd, WaitBusyClear
  <1>3. ChipType'
    <2>1. faults' = faults \/ (faults < MaxFaults /\ faults' = faults + 1)
      BY DEF Wren, Cmd, WaitBusyClear, Send, SendFails, Fails
    <2>2. CASE Wren
      <3>1. Known([op |-> "wren"]) /\ [op |-> "wren"].op # "none"
        BY DEF Known
      <3> QED
        BY <1>1, <2>1, <2>2, <3>1, ReceiveType DEF Wren, Send, SendFails
    <2>3. CASE Cmd
      BY <1>1, <2>1, <2>3, ReceiveType, CommandType DEF Cmd, Send, SendFails
    <2>4. CASE WaitBusyClear
      BY <1>1, <2>1, <2>4, SizeFacts DEF WaitBusyClear, Fails, ChipType, chip
    <2> QED
      BY <2>2, <2>3, <2>4
  <1> QED
    BY <1>2, <1>3 DEF TypeInv

(* The steps that only look at the chip.                                    *)
LEMMA LookingType ==
    ASSUME TypeInv, InitDs \/ ReadId \/ BySection \/ Verify
    PROVE  TypeInv'
  <1> USE DEF Places, Operations
  <1>1. DriverType /\ ChipType /\ MayBe(pc, at) /\ Fits(job.sections) /\ at \in Spot
    BY DEF TypeInv, DriverType, MayBe
  <1>2. /\ Retries \in 1..Retries /\ 1 \in 1..Retries
        /\ tries > 1 => tries - 1 \in 1..Retries
    BY <1>1, SizeFacts DEF DriverType
  <1>3. ChipType'
    <2>1. UNCHANGED chip
      BY DEF InitDs, ReadId, BySection, Verify, Fails
    <2>2. faults' = faults \/ (faults < MaxFaults /\ faults' = faults + 1)
      BY DEF InitDs, ReadId, BySection, Verify, Fails
    <2> QED
      BY <1>1, <2>1, <2>2, SizeFacts DEF ChipType, chip
  <1>4. CASE InitDs \/ ReadId
    <2>1. \A p \in {"init", "readid", "unprotect"} : MayBe(p, Begin)
      BY <1>1, BeginFacts DEF MayBe
    <2>2. \/ \E p \in {"init", "readid", "unprotect"}, n \in 1..Retries : GoTo(p, Begin, n)
          \/ Finish("failed")
      BY <1>2, <1>4 DEF InitDs, ReadId
    <2>3. DriverType'
      BY <1>1, <2>1, <2>2, GoToType, CloseType DEF Outcomes
    <2> QED
      BY <1>3, <2>3 DEF TypeInv
  <1>5. CASE BySection
    <2>1. DriverType'
      <3>1. CASE Close("ok")
        BY <1>1, <3>1, CloseType DEF Outcomes
      <3>2. CASE /\ ~(at.sec > Len(job.sections)) /\ HasData(Section)
                 /\ ~job.all /\ Section.erase_page_cnt > 0
                 /\ GoTo("sector", [at EXCEPT !.pos = 0], Retries)
        <4>1. at.sec \in 1..Len(job.sections)
          BY <1>1, <3>2 DEF MayBe, Fits
        <4>2. 0 \in 0..Section.erase_page_cnt - 1
          BY <1>1, <3>2, <4>1, SectionFacts
        <4>3. MayBe("sector", [at EXCEPT !.pos = 0])
          BY <1>1, <3>2, <4>1, <4>2, SpotFacts DEF MayBe, Section
        <4> QED
          BY <1>1, <1>2, <3>2, <4>3, GoToType
      <3>3. CASE ~(at.sec > Len(job.sections)) /\ HasData(Section) /\ WriteSection
        <4>1. at.sec \in 1..Len(job.sections)
          BY <1>1, <3>3 DEF MayBe, Fits
        <4> QED
          BY <1>1, <3>3, <4>1, WriteSectionType
      <3>4. CASE /\ ~(at.sec > Len(job.sections))
                 /\ GoTo("section", [sec |-> at.sec + 1, pos |-> 0], Retries)
        <4>1. MayBe("section", [sec |-> at.sec + 1, pos |-> 0])
          BY <1>1, <3>4 DEF MayBe, Spot, Fits
        <4> QED
          BY <1>1, <1>2, <3>4, <4>1, GoToType
      <3>5. pc = "section"
        BY <1>5 DEF BySection
      <3> QED
        BY <1>5, <3>1, <3>2, <3>3, <3>4 DEF BySection
    <2> QED
      BY <1>3, <2>1 DEF TypeInv
  <1>6. CASE Verify
    <2>1. MayBe("verify", at)
      BY <1>1, <1>6 DEF Verify
    <2>2. MayBe("section", [sec |-> at.sec + 1, pos |-> 0])
      BY <1>1, <2>1 DEF MayBe, Spot, Fits
    <2>3. \/ GoTo("section", [sec |-> at.sec + 1, pos |-> 0], Retries)
          \/ tries > 1 /\ GoTo("verify", at, tries - 1)
          \/ SectionFailed
      BY <1>6 DEF Verify
    <2>4. DriverType'
      BY <1>1, <1>2, <2>1, <2>2, <2>3, GoToType, GiveUpType
    <2> QED
      BY <1>3, <2>4 DEF TypeInv
  <1> QED
    BY <1>4, <1>5, <1>6

(* A call brings its list, or an empty one.                                 *)
LEMMA AskFacts ==
    ASSUME NEW call \in Calls, Ask(call)
    PROVE  /\ pc = "idle" /\ busy = Nothing /\ at' = Begin /\ step' = "wren"
           /\ tries' = Retries /\ round' = Retries /\ UNCHANGED <<chip, faults>>
           /\ job'.sections = Asked(call).sections /\ job'.all = Asked(call).all
           /\ \/ /\ pc' = "init" /\ outcome' = "running"
                 /\ call.by = "file" => Asked(call).sections # <<>>
              \/ /\ pc' = "done" /\ call.by = "file" /\ Asked(call).sections = <<>>
                 /\ outcome' = IF Parse(call.file).errnum = "none" THEN "ok" ELSE "refused"
  <1>1. CASE call.by = "header"
    BY <1>1 DEF Ask, Asked, PreBootUpCheckHead, UpdateByHeaderAll, Update
  <1>2. CASE call.by = "bin"
    BY <1>2 DEF Ask, Asked, PreBootUpCheckBin, UpdateByHeaderAll, Update
  <1>3. CASE call.by = "file"
    <2>1. UpdateByFile(call.file)
      BY <1>3 DEF Ask
    <2>2. /\ Asked(call).sections = Parse(call.file).head
          /\ Asked(call).all = Parse(call.file).all
      BY <1>3 DEF Asked
    <2>3. CASE Parse(call.file).head = <<>>
      BY <1>3, <2>1, <2>2, <2>3 DEF Ask, UpdateByFile, Refuse
    <2>4. CASE Parse(call.file).head # <<>>
      BY <1>3, <2>1, <2>2, <2>4 DEF Ask, UpdateByFile, Update
    <2> QED
      BY <2>3, <2>4
  <1> QED
    BY <1>1, <1>2, <1>3, CallAssumption

(* A call's list fits, and begins at its first section.                     *)
LEMMA AskType ==
    ASSUME ListsFit, TypeInv, NEW call \in Calls, Ask(call)
    PROVE  TypeInv'
  <1>1. Fits(job'.sections)
    BY AskFacts DEF ListsFit
  <1>2. Begin \in Spot /\ Begin.sec \in 1..Len(job'.sections) + 1
    BY <1>1, BeginFacts DEF Fits, Begin
  <1>3. MayBe(pc, at)'
    BY <1>2, AskFacts DEF MayBe
  <1>4. ChipType'
    BY AskFacts DEF TypeInv, ChipType, chip
  <1>5. pc' \in Places /\ outcome' \in Outcomes /\ step' = "wren"
    BY AskFacts DEF Places, Outcomes
  <1>6. tries' \in 1..Retries /\ round' \in 1..Retries
    BY AskFacts, SizeFacts
  <1> QED
    BY <1>1, <1>3, <1>4, <1>5, <1>6 DEF TypeInv, DriverType

(* The list of a driver that has nothing to do.                             *)
LEMMA NoList == Fits(<<>>)
  BY DEF Fits

(* A return forgets the list.                                               *)
LEMMA ReturnType == ASSUME TypeInv, Return PROVE TypeInv'
  <1>1. /\ pc' = "idle" /\ job' = [sections |-> <<>>, all |-> FALSE] /\ at' = Begin
        /\ UNCHANGED <<chip, step, tries, round, outcome, faults>>
    BY DEF Return
  <1>2. Fits(job.sections)' /\ job'.sections = <<>>
    BY <1>1, NoList
  <1>3. MayBe(pc, at)'
    BY <1>1, <1>2, BeginFacts DEF MayBe, Begin
  <1> QED
    BY <1>1, <1>2, <1>3 DEF TypeInv, ChipType, DriverType, chip, Places

(* The invariant the other proofs start from.                               *)
LEMMA TypeInvariant == ListsFit => (Spec => []TypeInv)
  <1> SUFFICES ASSUME ListsFit PROVE Spec => []TypeInv
    OBVIOUS
  <1>1. Init => TypeInv
    <2> SUFFICES ASSUME Init PROVE TypeInv
      OBVIOUS
    <2>1. job.sections = <<>> /\ pc = "idle" /\ at = Begin
      BY DEF Init
    <2>2. Fits(job.sections) /\ MayBe(pc, at)
      BY <2>1, NoList, BeginFacts DEF MayBe, Begin
    <2>3. ChipType
      <3>1. busy = Nothing /\ Known(Nothing)
        BY DEF Init, Nothing, Known
      <3>2. wel \in BOOLEAN /\ protect \in BOOLEAN /\ faults \in 0..MaxFaults
        <4>1. wel \in BOOLEAN /\ protect \in BOOLEAN
          BY DEF Init
        <4>2. faults = 0
          BY DEF Init
        <4> QED
          BY <4>1, <4>2, SizeFacts
      <3> QED
        BY <3>1, <3>2 DEF ChipType
    <2> QED
      BY <2>2, <2>3, SizeFacts DEF Init, TypeInv, DriverType, Places, Outcomes
  <1>2. TypeInv /\ [Next]_vars => TypeInv'
    <2>1. TypeInv /\ UNCHANGED vars => TypeInv'
      BY DEF vars, TypeInv, ChipType, DriverType, MayBe
    <2> QED
      BY <2>1, AskType, ReturnType, ChipDoneType, TransferType, LookingType DEF Next, Driver
  <1> QED
    BY <1>1, <1>2, PTL DEF Spec

(* The driver stays inside the list, inside the section it writes, and      *)
(* inside its attempts, for any flash, files and failed transfers.          *)
THEOREM TypeCorrect == ListsFit => (Spec => []TypeOK)
  <1> SUFFICES ASSUME ListsFit PROVE Spec => []TypeOK
    OBVIOUS
  <1> QED
    BY TypeInvariant, TypeParts, PTL

-----------------------------------------------------------------------------
(* Every update runs out of things to do.                                   *)

(* The numbers, one by one, now and after the step.                         *)
LEMMA RemainsParts ==
    /\ Remains[1] = round /\ Remains[2] = Phase(pc)
    /\ Remains[3] = Len(job.sections) + 1 - at.sec
    /\ Remains[4] = Stage(pc) /\ Remains[5] = tries
    /\ Remains[6] = PlacesLeft /\ Remains[7] = TransfersLeft
    /\ Remains'[1] = round' /\ Remains'[2] = Phase(pc')
    /\ Remains'[3] = Len(job'.sections) + 1 - at'.sec
    /\ Remains'[4] = Stage(pc') /\ Remains'[5] = tries'
    /\ Remains'[6] = PlacesLeft' /\ Remains'[7] = TransfersLeft'
  BY DEF Remains, Phase, Stage

(* The first number that changes gets smaller.                              *)
LEMMA LessAt ==
    ASSUME NEW a, NEW b
    PROVE  /\ a[1] < b[1] => Less(a, b)
           /\ a[1] = b[1] /\ a[2] < b[2] => Less(a, b)
           /\ a[1] = b[1] /\ a[2] = b[2] /\ a[3] < b[3] => Less(a, b)
           /\ a[1] = b[1] /\ a[2] = b[2] /\ a[3] = b[3] /\ a[4] < b[4] => Less(a, b)
           /\ a[1] = b[1] /\ a[2] = b[2] /\ a[3] = b[3] /\ a[4] = b[4] /\ a[5] < b[5]
                => Less(a, b)
           /\ a[1] = b[1] /\ a[2] = b[2] /\ a[3] = b[3] /\ a[4] = b[4] /\ a[5] = b[5]
                /\ a[6] < b[6] => Less(a, b)
           /\ a[1] = b[1] /\ a[2] = b[2] /\ a[3] = b[3] /\ a[4] = b[4] /\ a[5] = b[5]
                /\ a[6] = b[6] /\ a[7] < b[7] => Less(a, b)
  <1>1. ASSUME NEW k \in 1..7, a[k] < b[k], \A n \in 1..k - 1 : a[n] = b[n]
        PROVE  Less(a, b)
    BY <1>1 DEF Less
  <1> QED
    BY <1>1

(* What is left are natural numbers.                                        *)
LEMMA RemainsNat == ASSUME TypeInv PROVE \A k \in 1..7 : Remains[k] \in Nat
  <1>1. /\ Fits(job.sections) /\ MayBe(pc, at) /\ at \in Spot /\ pc \in Places
        /\ step \in {"wren", "cmd", "wait"} /\ tries \in Nat /\ round \in Nat
    BY SizeFacts DEF TypeInv, DriverType, MayBe
  <1>2. Len(job.sections) + 1 - at.sec \in Nat
    BY <1>1 DEF MayBe, Fits
  <1>3. Phase(pc) \in Nat /\ Stage(pc) \in Nat /\ TransfersLeft \in Nat
    BY <1>1 DEF Phase, Stage, TransfersLeft, Places, Operations
  <1>4. PlacesLeft \in Nat
    <2>1. CASE pc \in {"sector", "page"}
      <3>1. at.sec \in 1..Len(job.sections)
        BY <1>1, <2>1 DEF MayBe, Spot
      <3>2. CASE pc = "sector"
        <4>1. at.pos \in 0..Section.erase_page_cnt - 1
          BY <1>1, <3>2 DEF MayBe, Section
        <4> QED
          BY <1>1, <3>1, <3>2, <4>1, SectionFacts DEF PlacesLeft
      <3>3. CASE pc = "page"
        <4>1. at.pos \in Bytes(Section)
          BY <1>1, <3>3 DEF MayBe, Section
        <4> QED
          BY <1>1, <3>1, <3>3, <4>1, SectionFacts DEF PlacesLeft, Bytes, LastByte
      <3> QED
        BY <2>1, <3>2, <3>3
    <2>2. CASE pc \notin {"sector", "page"}
      BY <2>2 DEF PlacesLeft
    <2> QED
      BY <2>1, <2>2
  <1>5. \A k \in 1..7 : k = 1 \/ k = 2 \/ k = 3 \/ k = 4 \/ k = 5 \/ k = 6 \/ k = 7
    OBVIOUS
  <1> QED
    BY <1>1, <1>2, <1>3, <1>4, <1>5, RemainsParts

(* The end of an update, and the next pass.                                 *)
LEMMA GiveUpRemains ==
    ASSUME TypeInv, pc \in {"chip", "section", "sector", "page", "verify"},
           SectionFailed \/ Close("failed")
    PROVE  Less(Remains', Remains)
  <1>1. round \in Nat
    BY SizeFacts DEF TypeInv, DriverType
  <1>2. CASE round' = round - 1
    BY <1>1, <1>2, RemainsParts, LessAt
  <1>3. CASE Close("failed")
    BY <1>3, RemainsParts, LessAt DEF Close, Phase
  <1> QED
    BY <1>2, <1>3 DEF SectionFailed

(* An operation that has succeeded goes on: nothing starts over.            *)
LEMMA SucceededRemains ==
    ASSUME TypeInv, pc \in Operations, Succeeded
    PROVE  Less(Remains', Remains)
  <1>1. Fits(job.sections) /\ MayBe(pc, at) /\ at \in Spot
    BY DEF TypeInv, DriverType, MayBe
  <1>2. CASE pc \in {"unprotect", "chip", "protect"}
    <2>1. round' = round
      BY <1>2 DEF Succeeded, GoTo, Finish
    <2>2. CASE pc = "unprotect"
      <3>1. pc' \in {"chip", "section"}
        BY <2>2 DEF Succeeded, GoTo
      <3>2. Phase(pc') < Phase(pc)
        BY <2>2, <3>1 DEF Phase
      <3> QED
        BY <2>1, <3>2, RemainsParts, LessAt
    <2>3. CASE pc = "chip"
      <3>1. pc' = "section"
        BY <2>3 DEF Succeeded, GoTo
      <3>2. Phase(pc') < Phase(pc)
        BY <2>3, <3>1 DEF Phase
      <3> QED
        BY <2>1, <3>2, RemainsParts, LessAt
    <2>4. CASE pc = "protect"
      <3>1. pc' = "done"
        BY <2>4 DEF Succeeded, Finish
      <3>2. Phase(pc') < Phase(pc)
        BY <2>4, <3>1 DEF Phase
      <3> QED
        BY <2>1, <3>2, RemainsParts, LessAt
    <2> QED
      BY <1>2, <2>2, <2>3, <2>4
  <1>3. CASE pc = "sector"
    <2>1. at.sec \in 1..Len(job.sections) /\ at.pos \in Nat
      BY <1>1, <1>3 DEF MayBe, Spot
    <2>2. \A n : [at EXCEPT !.pos = n].sec = at.sec
      BY <1>1 DEF Spot
    <2>3. CASE WriteSection
      BY <1>3, <2>2, <2>3, RemainsParts, LessAt DEF WriteSection, GoTo, Phase, Stage
    <2>4. CASE GoTo("sector", [at EXCEPT !.pos = @ + 1], tries)
      <3>1. /\ pc' = "sector" /\ at'.sec = at.sec /\ at'.pos = at.pos + 1
            /\ tries' = tries /\ round' = round /\ job' = job
        BY <1>1, <2>1, <2>4, SpotFacts DEF GoTo
      <3>2. PlacesLeft' < PlacesLeft
        BY <1>1, <1>3, <2>1, <3>1, SectionFacts DEF PlacesLeft, Section
      <3> QED
        BY <1>3, <3>1, <3>2, RemainsParts, LessAt
    <2> QED
      BY <1>3, <2>3, <2>4 DEF Succeeded
  <1>4. CASE pc = "page"
    <2>1. at.sec \in 1..Len(job.sections) /\ at.pos \in Bytes(Section)
      BY <1>1, <1>4 DEF MayBe, Spot, Section
    <2>2. CASE GoTo("verify", at, Retries)
      BY <1>4, <2>2, RemainsParts, LessAt DEF GoTo, Phase, Stage
    <2>3. CASE GoTo("page", [at EXCEPT !.pos = ChunkEnd(@) + 1], tries)
      <3>1. /\ at.pos \in Nat /\ ChunkEnd(at.pos) \in Nat /\ ChunkEnd(at.pos) >= at.pos
        BY <1>1, <2>1, SectionFacts, ChunkFacts
      <3>2. /\ pc' = "page" /\ at'.sec = at.sec /\ at'.pos = ChunkEnd(at.pos) + 1
            /\ tries' = tries /\ round' = round /\ job' = job
        BY <1>1, <2>3, <3>1, SpotFacts DEF GoTo
      <3>3. LastByte(Section)' = LastByte(Section) /\ LastByte(Section) \in Int
        BY <1>1, <2>1, <3>2, SectionFacts DEF Section, LastByte
      <3>4. PlacesLeft = LastByte(Section) - at.pos
        BY <1>4 DEF PlacesLeft
      <3>5. PlacesLeft' = LastByte(Section)' - at'.pos
        BY <3>2 DEF PlacesLeft
      <3>6. PlacesLeft' < PlacesLeft
        BY <3>1, <3>2, <3>3, <3>4, <3>5
      <3> QED
        BY <1>4, <3>2, <3>6, RemainsParts, LessAt
    <2> QED
      BY <1>4, <2>2, <2>3 DEF Succeeded
  <1> QED
    BY <1>2, <1>3, <1>4 DEF Operations

(* One that has failed costs an attempt, a pass, or the update.             *)
LEMMA FailedRemains ==
    ASSUME TypeInv, pc \in Operations, Failed
    PROVE  Less(Remains', Remains)
  <1>1. at \in Spot /\ tries \in Nat
    BY SizeFacts DEF TypeInv, DriverType, MayBe
  <1>2. \A n : [at EXCEPT !.pos = n].sec = at.sec
    BY <1>1 DEF Spot
  <1>3. CASE pc \in {"unprotect", "protect"}
    <2>1. pc' = "done" /\ round' = round
      BY <1>3 DEF Failed, Finish
    <2>2. Phase(pc') < Phase(pc)
      BY <1>3, <2>1 DEF Phase
    <2> QED
      BY <2>1, <2>2, RemainsParts, LessAt
  <1>4. CASE pc \in {"chip", "sector", "page"} /\ (SectionFailed \/ Close("failed"))
    BY <1>4, GiveUpRemains
  <1>5. CASE /\ pc \in {"chip", "sector", "page"}
             /\ \/ GoTo(pc, at, tries - 1)
                \/ \E n : GoTo(pc, [at EXCEPT !.pos = n], tries - 1)
    <2>1. /\ pc' = pc /\ at'.sec = at.sec /\ tries' = tries - 1
          /\ round' = round /\ job' = job
      BY <1>2, <1>5 DEF GoTo
    <2> QED
      BY <1>1, <2>1, RemainsParts, LessAt
  <1> QED
    BY <1>3, <1>4, <1>5 DEF Failed, Operations

(* What each step of the driver leaves less of.                             *)
LEMMA DriverRemains == ASSUME TypeInv, Driver PROVE Less(Remains', Remains)
  <1>1. /\ Fits(job.sections) /\ MayBe(pc, at) /\ at \in Spot /\ tries \in Nat
        /\ at.sec \in Nat /\ Len(job.sections) \in Nat
    BY SizeFacts DEF TypeInv, DriverType, MayBe, Fits, Spot
  <1>2. CASE InitDs \/ ReadId
    <2>1. at = Begin
      BY <1>1, <1>2 DEF InitDs, ReadId, MayBe
    <2> QED
      BY <1>1, <1>2, <2>1, RemainsParts, LessAt DEF InitDs, ReadId, GoTo, Finish, Phase
  <1>3. CASE Wren \/ Cmd \/ WaitBusyClear
    <2>1. pc \in Operations
      BY <1>3 DEF Wren, Cmd, WaitBusyClear
    <2>2. CASE Succeeded \/ Failed
      BY <2>1, <2>2, SucceededRemains, FailedRemains
    <2>3. CASE /\ \/ step = "wren" /\ step' = "cmd"
                  \/ step = "cmd" /\ step' = "wait"
               /\ UNCHANGED <<pc, at, tries, round, job, outcome>>
      <3>1. PlacesLeft' = PlacesLeft
        BY <2>3 DEF PlacesLeft, Section, LastByte
      <3>2. TransfersLeft' < TransfersLeft
        BY <2>3 DEF TransfersLeft
      <3> QED
        BY <2>3, <3>1, <3>2, RemainsParts, LessAt
    <2> QED
      BY <1>3, <2>2, <2>3 DEF Wren, Cmd, WaitBusyClear
  <1>4. CASE BySection
    <2>1. pc = "section" /\ \A n : [at EXCEPT !.pos = n].sec = at.sec
      BY <1>1, <1>4 DEF BySection, Spot
    <2>2. CASE Close("ok")
      BY <2>1, <2>2, RemainsParts, LessAt DEF Close, Phase
    <2>3. CASE GoTo("section", [sec |-> at.sec + 1, pos |-> 0], Retries)
      BY <1>1, <2>1, <2>3, RemainsParts, LessAt DEF GoTo
    <2>4. CASE GoTo("sector", [at EXCEPT !.pos = 0], Retries) \/ WriteSection
      <3>1. /\ pc' \in {"sector", "page"} /\ at'.sec = at.sec
            /\ round' = round /\ job' = job
        BY <2>1, <2>4 DEF WriteSection, GoTo
      <3>2. Phase(pc') = Phase(pc) /\ Stage(pc') < Stage(pc)
        BY <2>1, <3>1 DEF Phase, Stage
      <3> QED
        BY <3>1, <3>2, RemainsParts, LessAt
    <2> QED
      BY <1>4, <2>2, <2>3, <2>4 DEF BySection
  <1>5. CASE Verify
    <2>1. pc = "verify"
      BY <1>5 DEF Verify
    <2>2. CASE GoTo("section", [sec |-> at.sec + 1, pos |-> 0], Retries)
      BY <1>1, <2>1, <2>2, RemainsParts, LessAt DEF GoTo, Phase
    <2>3. CASE GoTo("verify", at, tries - 1)
      BY <1>1, <2>1, <2>3, RemainsParts, LessAt DEF GoTo
    <2>4. CASE SectionFailed
      BY <2>1, <2>4, GiveUpRemains
    <2> QED
      BY <1>5, <2>2, <2>3, <2>4 DEF Verify
  <1> QED
    BY <1>2, <1>3, <1>4, <1>5 DEF Driver

(* No loop of an update, nested as they are, goes round for ever, for any   *)
(* list that fits, and whatever fails: the safety half of EveryUpdateEnds.  *)
THEOREM AttemptsCorrect == ListsFit => (Spec => AttemptsRunOut)
  <1> SUFFICES ASSUME ListsFit PROVE Spec => AttemptsRunOut
    OBVIOUS
  <1> DEFINE Shrinks ==
        Driver => Less(Remains', Remains) /\ \A k \in 1..7 : Remains[k] \in Nat
  <1>1. TypeInv /\ [Next]_vars => [Shrinks]_vars
    BY DriverRemains, RemainsNat
  <1> QED
    BY <1>1, TypeInvariant, PTL DEF Spec, AttemptsRunOut

-----------------------------------------------------------------------------
(* The refinement: what is in the flash, and what the chip is still at.     *)

(* A command that leaves the bytes of a section as they are.                *)
Avoids(cmd, section) ==
    /\ cmd.op = "chip" => Bytes(section) = {}
    /\ cmd.op = "sector" =>
          Bytes(section) \intersect (cmd.from .. cmd.from + Sector - 1) = {}
    /\ cmd.op = "page" => Bytes(section) \intersect (cmd.from .. cmd.to) = {}

Safe(section) == Holds(section) /\ Avoids(busy, section)

(* The sections before the one at hand are in the flash, and what the chip  *)
(* is at leaves them there.                                                 *)
WrittenInv ==
    pc \notin {"idle", "done"} =>
        /\ InOrder(job.sections, job.all) /\ Complete(job.sections)
        /\ \A i \in 1..Len(job.sections) :
              i < at.sec /\ HasData(job.sections[i]) => Safe(job.sections[i])

(* An outcome is settled when the driver turns to the protection; after     *)
(* a success nothing that the chip is still at can undo it.                 *)
OutcomeInv ==
    /\ pc \in {"idle", "done"} => outcome # "running"
    /\ pc = "protect" => outcome \in {"ok", "failed"}
    /\ pc \notin {"idle", "done", "protect"} => outcome = "running"
    /\ outcome \in {"idle", "refused"} => Rest
    /\ outcome = "ok" => \A i \in DOMAIN Image : Safe(Image[i])

(* What the driver's step does to the job: it never touches it, it goes on  *)
(* in the same section, starts over, or goes on past one that needs nothing *)
(* or reads back; and it settles the outcome on its way to the end.         *)
Unsettled(p) == p \notin {"idle", "done", "protect"}

Settles ==
    \/ Unsettled(pc) /\ Unsettled(pc') /\ outcome' = outcome
    \/ pc = "protect" /\ pc' \in {"protect", "done"} /\ outcome' = outcome
    \/ Unsettled(pc) /\ pc' \in {"protect", "done"} /\ outcome' = "failed"
    \/ /\ pc = "section" /\ at.sec > Len(job.sections) /\ pc' = "protect"
       /\ outcome' = "ok"

Advances ==
    \/ at'.sec = at.sec
    \/ at'.sec = 1
    \/ /\ at'.sec = at.sec + 1 /\ busy' = busy
       /\ HasData(Section) => Rest /\ Holds(Section)

(* An operation that has succeeded goes on in its section.                  *)
LEMMA SucceededMoves ==
    ASSUME DriverType, pc \in Operations, Succeeded
    PROVE  job' = job /\ Settles /\ Advances
  <1>1. at \in Spot /\ Begin.sec = 1
    BY BeginFacts DEF DriverType, MayBe
  <1>2. \A n : [at EXCEPT !.pos = n].sec = at.sec
    BY <1>1 DEF Spot
  <1>3. CASE pc \in {"unprotect", "chip"}
    BY <1>1, <1>3 DEF Succeeded, GoTo, Settles, Advances, Unsettled
  <1>4. CASE pc = "sector"
    BY <1>2, <1>4 DEF Succeeded, GoTo, WriteSection, Settles, Advances, Unsettled
  <1>5. CASE pc = "page"
    BY <1>2, <1>5 DEF Succeeded, GoTo, Settles, Advances, Unsettled
  <1>6. CASE pc = "protect"
    BY <1>6 DEF Succeeded, Finish, Settles, Advances
  <1> QED
    BY <1>3, <1>4, <1>5, <1>6 DEF Operations

(* A section given up settles a failure, or starts over.                    *)
LEMMA GiveUpMoves ==
    ASSUME Unsettled(pc), SectionFailed
    PROVE  job' = job /\ Settles /\ Advances
  <1>1. Begin.sec = 1
    BY BeginFacts
  <1> QED
    BY <1>1 DEF SectionFailed, Close, Settles, Advances, Unsettled

(* An operation that has failed starts over, or is given up.                *)
LEMMA FailedMoves ==
    ASSUME DriverType, pc \in Operations, Failed
    PROVE  job' = job /\ Settles /\ Advances
  <1>1. at \in Spot /\ \A n : [at EXCEPT !.pos = n].sec = at.sec
    BY DEF DriverType, MayBe, Spot
  <1>2. CASE SectionFailed /\ Unsettled(pc)
    BY <1>2, GiveUpMoves
  <1>3. CASE pc \in {"unprotect", "protect", "chip"}
    BY <1>3 DEF Failed, GoTo, Finish, Close, Settles, Advances, Unsettled
  <1>4. CASE pc \in {"sector", "page"} /\ ~SectionFailed
    BY <1>1, <1>4 DEF Failed, GoTo, Settles, Advances, Unsettled
  <1> QED
    BY <1>2, <1>3, <1>4 DEF Operations, Unsettled

(* What it does to the chip: nothing, or one command more.                  *)
Sends ==
    /\ UNCHANGED flash
    /\ busy' = busy \/ (pc \in Operations /\ busy' = Command)

(* No step of the driver does anything else.                                *)
LEMMA DriverMoves ==
    ASSUME TypeInv, Driver
    PROVE  job' = job /\ Settles /\ Advances /\ Sends
  <1>1. DriverType /\ at \in Spot
    BY DEF TypeInv, DriverType, MayBe
  <1>2. CASE Wren \/ Cmd \/ WaitBusyClear
    <2>1. pc \in Operations
      BY <1>2 DEF Wren, Cmd, WaitBusyClear
    <2>2. Sends
      BY <1>2, <2>1 DEF Wren, Cmd, WaitBusyClear, Send, SendFails, Fails, Receive, chip, Sends
    <2>3. CASE Succeeded \/ Failed
      BY <1>1, <2>1, <2>2, <2>3, SucceededMoves, FailedMoves
    <2>4. CASE UNCHANGED <<pc, at, tries, round, job, outcome>>
      BY <2>1, <2>2, <2>4 DEF Settles, Advances, Unsettled, Operations
    <2> QED
      BY <1>2, <2>3, <2>4 DEF Wren, Cmd, WaitBusyClear
  <1>3. CASE InitDs \/ ReadId
    <2>1. Begin.sec = 1 /\ at = Begin
      BY <1>1, <1>3, BeginFacts DEF DriverType, MayBe, InitDs, ReadId
    <2> QED
      BY <1>3, <2>1 DEF InitDs, ReadId, GoTo, Finish, Fails, chip, Settles, Advances, Sends, Unsettled
  <1>4. CASE BySection
    <2>1. UNCHANGED chip /\ pc = "section"
      BY <1>4 DEF BySection
    <2>2. CASE Close("ok") /\ at.sec > Len(job.sections)
      BY <2>1, <2>2 DEF Close, chip, Settles, Advances, Sends
    <2>3. CASE /\ ~HasData(Section)
               /\ GoTo("section", [sec |-> at.sec + 1, pos |-> 0], Retries)
      BY <2>1, <2>3 DEF GoTo, chip, Settles, Advances, Sends, Unsettled
    <2>4. CASE GoTo("sector", [at EXCEPT !.pos = 0], Retries) \/ WriteSection
      <3>1. \A n : [at EXCEPT !.pos = n].sec = at.sec
        BY <1>1 DEF Spot
      <3> QED
        BY <2>1, <2>4, <3>1 DEF WriteSection, GoTo, chip, Settles, Advances, Sends, Unsettled
    <2> QED
      BY <1>4, <2>2, <2>3, <2>4 DEF BySection
  <1>5. CASE Verify
    <2>1. UNCHANGED chip /\ pc = "verify" /\ HasData(Section) /\ at.sec \in 1..Len(job.sections)
      BY <1>1, <1>5 DEF Verify, Fails, DriverType, MayBe, Section, Spot
    <2>2. CASE SectionFailed
      BY <2>1, <2>2, GiveUpMoves DEF Sends, Unsettled, chip
    <2>3. CASE GoTo("verify", at, tries - 1)
      BY <2>1, <2>3 DEF GoTo, chip, Settles, Advances, Sends, Unsettled
    <2>4. CASE /\ ReadNbyte(Section)
               /\ GoTo("section", [sec |-> at.sec + 1, pos |-> 0], Retries)
      <3>1. Section.address \in Bytes(Section)
        BY <1>1, <2>1, SectionFacts DEF DriverType
      <3>2. Rest
        <4>1. <<"no data">> # Cell(Section, Section.address)
          BY DEF Cell
        <4> QED
          BY <2>4, <3>1, <4>1 DEF ReadNbyte, Read, Rest
      <3>3. Holds(Section)
        BY <2>4, <3>2 DEF ReadNbyte, Read, Rest, Holds
      <3> QED
        BY <2>1, <2>4, <3>2, <3>3 DEF GoTo, chip, Settles, Advances, Sends, Unsettled
    <2> QED
      BY <1>5, <2>2, <2>3, <2>4 DEF Verify
  <1> QED
    BY <1>2, <1>3, <1>4, <1>5 DEF Driver

(* A section that is in the flash stays there while the chip finishes what  *)
(* leaves it alone, and while it is sent such commands.                     *)
LEMMA ChipDoneKeeps ==
    ASSUME TypeInv, ChipDone, NEW section, Bytes(section) \subseteq Addr, Safe(section)
    PROVE  Safe(section)'
  <1>1. busy' = Nothing
    BY DEF ChipDone
  <1>2. ASSUME NEW a \in Bytes(section) PROVE flash'[a] = flash[a]
    <2>1. a \in Addr /\ busy.op \in {"wrsr", "sector", "page"}
      BY <1>2 DEF TypeInv, ChipType, Known, ChipDone, Safe, Avoids
    <2>2. CASE busy.op = "wrsr"
      BY <2>2 DEF ChipDone
    <2>3. CASE busy.op = "sector"
      <3>1. a \notin busy.from .. busy.from + Sector - 1
        BY <1>2, <2>3 DEF Safe, Avoids
      <3>2. flash' = Erase(busy.from, busy.from + Sector - 1)
        BY <2>3 DEF ChipDone
      <3> QED
        BY <2>1, <3>1, <3>2 DEF Erase
    <2>4. CASE busy.op = "page"
      <3>1. a \notin busy.from .. busy.to
        BY <1>2, <2>4 DEF Safe, Avoids
      <3>2. flash' = Programmed(busy.section, busy.from, busy.to)
        BY <2>4 DEF ChipDone
      <3> QED
        BY <2>1, <3>1, <3>2 DEF Programmed
    <2> QED
      BY <2>1, <2>2, <2>3, <2>4
  <1>3. Holds(section)'
    BY <1>2 DEF Safe, Holds, Bytes, LastByte
  <1>4. Avoids(Nothing, section)
    BY DEF Avoids, Nothing
  <1> QED
    BY <1>1, <1>3, <1>4 DEF Safe, Avoids, Bytes, LastByte

(* A section stays safe when the chip is sent a command that avoids it.     *)
LEMMA SendKeeps ==
    ASSUME Sends, NEW section, Safe(section),
           pc \in Operations => Avoids(Command, section)
    PROVE  Safe(section)'
  BY DEF Sends, Safe, Holds, Avoids, Bytes, LastByte

(* Nothing but an erased chip and the sections at hand and behind it are in *)
(* the way of a section that has been written.                              *)
LEMMA CommandAvoids ==
    ASSUME TypeInv, InOrder(job.sections, job.all), pc \in Operations,
           NEW i \in 1..Len(job.sections), i < at.sec, HasData(job.sections[i])
    PROVE  Avoids(Command, job.sections[i])
  <1>1. MayBe(pc, at) /\ Fits(job.sections) /\ at \in Spot
    BY DEF TypeInv, DriverType, MayBe
  <1>2. CASE pc \in {"unprotect", "protect"}
    BY <1>2, CommandType DEF Avoids, DisableProtect, EnableProtect
  <1>3. CASE pc = "chip"
    BY <1>1, <1>3, BeginFacts DEF MayBe
  <1>4. CASE pc \in {"sector", "page"}
    <2>1. at.sec \in 1..Len(job.sections) /\ HasData(Section) /\ at.pos \in Nat
      BY <1>1, <1>4 DEF MayBe, Section, Spot
    <2>2. Bytes(job.sections[i]) \intersect (Programs(Section) \union Erases(Section, job.all)) = {}
      BY <2>1 DEF InOrder, Section
    <2>3. CASE pc = "sector"
      <3>1. ~job.all /\ at.pos \in 0..Section.erase_page_cnt - 1
        BY <1>1, <2>3 DEF MayBe, Section
      <3>2. Command.from .. Command.from + Sector - 1 \subseteq Erases(Section, job.all)
        <4>1. Command.from = Section.address + Sector * at.pos
          BY <2>3, CommandType
        <4> QED
          BY <3>1, <4>1 DEF Erases
      <3>3. Command.op = "sector"
        BY <2>3, CommandType
      <3> QED
        BY <2>2, <3>2, <3>3 DEF Avoids
    <2>4. CASE pc = "page"
      <3>1. at.pos \in Bytes(Section)
        BY <1>1, <2>4 DEF MayBe, Section
      <3>2. at.pos .. ChunkEnd(at.pos) \subseteq Programs(Section)
        BY <1>1, <2>1, <3>1, SectionFacts, ChunkFacts
      <3>3. Command.op = "page" /\ Command.from = at.pos /\ Command.to = ChunkEnd(at.pos)
        BY <2>4, CommandType
      <3> QED
        BY <2>2, <3>2, <3>3 DEF Avoids
    <2> QED
      BY <1>4, <2>3, <2>4
  <1> QED
    BY <1>2, <1>3, <1>4 DEF Operations

(* It does when the chip is left alone.                                     *)
LEMMA SafeSame ==
    ASSUME flash' = flash, busy' = busy, NEW section
    PROVE  Safe(section)' <=> Safe(section)
  BY DEF Safe, Holds, Avoids, Bytes, LastByte

(* A section without bytes is always in the flash.                          *)
LEMMA EmptySafe ==
    ASSUME NEW section, section.address \in Nat, section.byte_cnt \in Nat,
           ~(section.byte_cnt > 0)
    PROVE  Safe(section)
  <1>1. Bytes(section) = {}
    BY DEF Bytes, LastByte
  <1> QED
    BY <1>1 DEF Safe, Holds, Avoids

(* What comes of a call, of a return, and of a step of the chip.            *)
LEMMA WrittenStep ==
    ASSUME ListsIntact, TypeInv, WrittenInv, [Next]_vars
    PROVE  WrittenInv'
  <1>1. CASE UNCHANGED vars
    <2>1. /\ flash' = flash /\ busy' = busy /\ pc' = pc /\ job' = job /\ at' = at
      BY <1>1 DEF vars
    <2> QED
      BY <2>1, SafeSame DEF WrittenInv, Safe, Holds
  <1>2. ASSUME NEW call \in Calls, Ask(call) PROVE WrittenInv'
    <2>1. CASE pc' = "done"
      BY <2>1 DEF WrittenInv
    <2>2. CASE pc' = "init"
      <3>1. ~(call.by = "file" /\ Asked(call).sections = <<>>)
        BY <1>2, <2>2, AskFacts
      <3>2. InOrder(job'.sections, job'.all) /\ Complete(job'.sections)
        BY <1>2, <3>1, AskFacts DEF ListsIntact
      <3>3. at'.sec = 1
        BY <1>2, AskFacts, BeginFacts
      <3> QED
        BY <3>2, <3>3 DEF WrittenInv
    <2> QED
      BY <1>2, <2>1, <2>2, AskFacts
  <1>3. CASE Return
    BY <1>3 DEF Return, WrittenInv
  <1>4. CASE ChipDone
    <2>1. pc' = pc /\ job' = job /\ at' = at
      BY <1>4 DEF ChipDone, driver
    <2>2. \A i \in 1..Len(job.sections) : Bytes(job.sections[i]) \subseteq Addr
      BY DEF TypeInv, DriverType, Fits
    <2> QED
      BY <1>4, <2>1, <2>2, ChipDoneKeeps DEF WrittenInv
  <1>5. CASE Driver
    <2> SUFFICES ASSUME Unsettled(pc') \/ pc' = "protect" PROVE WrittenInv'
      BY DEF WrittenInv, Unsettled
    <2>1. job' = job /\ Settles /\ Advances /\ Sends
      BY <1>5, DriverMoves
    <2>2. pc \notin {"idle", "done"}
      BY <2>1 DEF Settles, Unsettled
    <2>3. /\ InOrder(job.sections, job.all) /\ Complete(job.sections)
          /\ \A i \in 1..Len(job.sections) :
                i < at.sec /\ HasData(job.sections[i]) => Safe(job.sections[i])
      BY <2>2 DEF WrittenInv
    <2>4. at.sec \in Nat /\ MayBe(pc, at)
      BY DEF TypeInv, DriverType, MayBe, Spot
    <2>5. ASSUME NEW i \in 1..Len(job.sections), i < at'.sec, HasData(job.sections[i])
          PROVE  Safe(job.sections[i])'
      <3>1. CASE i < at.sec
        <4>1. pc \in Operations => Avoids(Command, job.sections[i])
          BY <2>3, <2>5, <3>1, CommandAvoids
        <4> QED
          BY <2>1, <2>3, <2>5, <3>1, <4>1, SendKeeps
      <3>2. CASE ~(i < at.sec)
        <4>1. /\ at'.sec = at.sec + 1 /\ busy' = busy
              /\ HasData(Section) => Rest /\ Holds(Section)
          BY <2>1, <2>4, <2>5, <3>2 DEF Advances
        <4>2. i = at.sec
          BY <2>4, <2>5, <3>2, <4>1
        <4>3. Rest /\ Holds(job.sections[i])
          BY <2>5, <4>1, <4>2 DEF Section
        <4>4. Safe(job.sections[i])
          BY <4>3 DEF Safe, Avoids, Rest, Nothing
        <4> QED
          BY <2>1, <4>1, <4>4, SafeSame DEF Sends
      <3> QED
        BY <3>1, <3>2
    <2> QED
      BY <2>1, <2>3, <2>5 DEF WrittenInv
  <1> QED
    BY <1>1, <1>2, <1>3, <1>4, <1>5 DEF Next

(* What has been reported as a success stays true.                          *)
LEMMA OutcomeStep ==
    ASSUME ListsIntact, TypeInv, WrittenInv, OutcomeInv, [Next]_vars
    PROVE  OutcomeInv'
  <1>1. ASSUME NEW i \in DOMAIN Image, outcome = "ok" PROVE Safe(Image[i])
    BY <1>1 DEF OutcomeInv
  <1>2. ASSUME NEW i \in DOMAIN Image, Unsettled(pc), at.sec > Len(job.sections)
        PROVE  Safe(Image[i])
    <2>1. Image[i].address \in Nat /\ Image[i].byte_cnt \in Nat
      BY DEF ListsIntact
    <2>2. CASE Image[i].byte_cnt > 0
      <3>1. PICK j \in 1..Len(job.sections) : job.sections[j] = Image[i] /\ HasData(job.sections[j])
        BY <1>2, <2>2 DEF WrittenInv, Unsettled, Complete
      <3>2. j < at.sec
        BY <1>2, <3>1 DEF TypeInv, DriverType, MayBe, Spot
      <3> QED
        BY <1>2, <3>1, <3>2 DEF WrittenInv, Unsettled
    <2> QED
      BY <2>1, <2>2, EmptySafe
  <1>3. CASE UNCHANGED vars
    <2>1. flash' = flash /\ busy' = busy /\ pc' = pc /\ outcome' = outcome
      BY <1>3 DEF vars
    <2> QED
      BY <1>1, <2>1, SafeSame DEF OutcomeInv, Rest
  <1>4. ASSUME NEW call \in Calls, Ask(call) PROVE OutcomeInv'
    <2>1. CASE pc' = "init" /\ outcome' = "running"
      BY <2>1 DEF OutcomeInv
    <2>2. CASE pc' = "done" /\ call.by = "file" /\ Asked(call).sections = <<>>
      <3>1. outcome' = "refused" /\ busy' = Nothing
        BY <1>4, <2>2, AskFacts DEF ListsIntact, chip
      <3> QED
        BY <2>2, <3>1 DEF OutcomeInv, Rest
    <2> QED
      BY <1>4, <2>1, <2>2, AskFacts
  <1>5. CASE Return
    <2>1. /\ flash' = flash /\ busy' = busy /\ pc = "done" /\ pc' = "idle"
          /\ outcome' = outcome
      BY <1>5 DEF Return, chip
    <2> QED
      BY <1>1, <2>1, SafeSame DEF OutcomeInv, Rest
  <1>6. CASE ChipDone
    <2>1. pc' = pc /\ outcome' = outcome /\ busy' = Nothing
      BY <1>6 DEF ChipDone, driver
    <2>2. ASSUME NEW i \in DOMAIN Image, outcome = "ok" PROVE Safe(Image[i])'
      BY <1>1, <1>6, <2>2, ChipDoneKeeps DEF ListsIntact
    <2> QED
      BY <2>1, <2>2 DEF OutcomeInv, Rest
  <1>7. CASE Driver
    <2>1. job' = job /\ Settles /\ Sends
      BY <1>7, DriverMoves
    <2>2. CASE Unsettled(pc) /\ Unsettled(pc') /\ outcome' = outcome
      BY <2>2 DEF OutcomeInv, Unsettled
    <2>3. CASE pc = "protect" /\ pc' \in {"protect", "done"} /\ outcome' = outcome
      <3>1. ASSUME NEW i \in DOMAIN Image, outcome = "ok" PROVE Safe(Image[i])'
        <4>1. Avoids(Command, Image[i])
          BY <2>3, CommandType DEF Avoids, Operations, EnableProtect
        <4> QED
          BY <1>1, <2>1, <3>1, <4>1, SendKeeps
      <3> QED
        BY <2>3, <3>1 DEF OutcomeInv
    <2>4. CASE Unsettled(pc) /\ pc' \in {"protect", "done"} /\ outcome' = "failed"
      BY <2>4 DEF OutcomeInv
    <2>5. CASE /\ pc = "section" /\ at.sec > Len(job.sections) /\ pc' = "protect"
               /\ outcome' = "ok"
      <3>1. ASSUME NEW i \in DOMAIN Image PROVE Safe(Image[i])'
        <4>1. Safe(Image[i])
          BY <1>2, <2>5 DEF Unsettled
        <4> QED
          BY <2>1, <2>5, <4>1, SendKeeps DEF Operations
      <3> QED
        BY <2>5, <3>1 DEF OutcomeInv
    <2> QED
      BY <2>1, <2>2, <2>3, <2>4, <2>5 DEF Settles
  <1> QED
    BY <1>3, <1>4, <1>5, <1>6, <1>7 DEF Next

FlashInv == TypeInv /\ WrittenInv /\ OutcomeInv

(* What the flash holds, invariantly.                                       *)
LEMMA FlashInvariant == ListsFit /\ ListsIntact => (Spec => []FlashInv)
  <1> SUFFICES ASSUME ListsFit, ListsIntact PROVE Spec => []FlashInv
    OBVIOUS
  <1>1. Init => WrittenInv /\ OutcomeInv
    BY DEF Init, WrittenInv, OutcomeInv, Rest
  <1>2. TypeInv /\ WrittenInv /\ OutcomeInv /\ [Next]_vars => WrittenInv' /\ OutcomeInv'
    BY WrittenStep, OutcomeStep
  <1>3. Spec => []TypeInv
    BY TypeInvariant
  <1> QED
    BY <1>1, <1>2, <1>3, PTL DEF Spec, FlashInv

(* A step of the update is one of FlashUpdate's, or none.                   *)
LEMMA StepImplements ==
    ASSUME ListsIntact, FlashInv, FlashInv', [Next]_vars
    PROVE  [Abstract!Next]_(Abstract!vars)
  <1> USE DEF Abstract!Next, Abstract!vars
  <1>1. FlashContent' \in {"image", "other"} /\ FlashContent \in {"image", "other"}
    BY DEF FlashContent
  <1>2. ASSUME flash' = flash PROVE FlashContent' = FlashContent
    BY <1>2 DEF FlashContent, Holds
  <1>3. CASE UNCHANGED vars
    BY <1>2, <1>3 DEF vars
  <1>4. ASSUME NEW call \in Calls, Ask(call) PROVE Abstract!Next
    <2>1. outcome # "running" /\ FlashContent' = FlashContent
      BY <1>2, <1>4, AskFacts DEF FlashInv, OutcomeInv, chip
    <2>2. outcome' \in {"running", "refused"}
      BY <1>4, AskFacts DEF ListsIntact
    <2> QED
      BY <2>1, <2>2 DEF Abstract!Begin, Abstract!Refuse
  <1>5. CASE Return
    BY <1>2, <1>5 DEF Return, chip
  <1>6. CASE ChipDone
    <2>1. outcome' = outcome /\ outcome \in Outcomes
      BY <1>6 DEF ChipDone, driver, FlashInv, TypeInv, DriverType
    <2>2. CASE outcome \in {"running", "failed"}
      BY <1>1, <2>1, <2>2 DEF Abstract!Write
    <2>3. CASE outcome = "ok"
      BY <2>1, <2>3 DEF FlashInv, OutcomeInv, Safe, FlashContent
    <2>4. CASE outcome \in {"idle", "refused"}
      BY <1>6, <2>4 DEF ChipDone, FlashInv, OutcomeInv, Rest
    <2> QED
      BY <2>1, <2>2, <2>3, <2>4 DEF Outcomes
  <1>7. CASE Driver
    <2>1. Settles /\ FlashContent' = FlashContent
      BY <1>2, <1>7, DriverMoves DEF FlashInv, Sends
    <2>2. CASE outcome' = outcome
      BY <2>1, <2>2
    <2>3. CASE outcome = "running" /\ outcome' = "failed"
      BY <2>1, <2>3 DEF Abstract!Fail
    <2>4. CASE outcome = "running" /\ outcome' = "ok"
      <3>1. FlashContent' = "image"
        BY <2>4 DEF FlashInv, OutcomeInv, Safe, FlashContent
      <3> QED
        BY <2>1, <2>4, <3>1 DEF Abstract!Succeed
    <2>5. Unsettled(pc) => outcome = "running"
      BY DEF FlashInv, OutcomeInv, Unsettled
    <2> QED
      BY <2>1, <2>2, <2>3, <2>4, <2>5 DEF Settles, Unsettled
  <1> QED
    BY <1>3, <1>4, <1>5, <1>6, <1>7 DEF Next

(* For any image, lists, flash and failed transfers: the flash changes only *)
(* while an update runs or after it has failed, and an update succeeds only *)
(* with the whole image in place.                                           *)
THEOREM UpdateImplements == ListsFit /\ ListsIntact => (Spec => ImplementsFlashUpdate)
  <1> SUFFICES ASSUME ListsFit, ListsIntact PROVE Spec => ImplementsFlashUpdate
    OBVIOUS
  <1>1. Init => Abstract!Init
    BY DEF Init, FlashContent, Abstract!Init
  <1>2. FlashInv /\ FlashInv' /\ [Next]_vars => [Abstract!Next]_(Abstract!vars)
    BY StepImplements
  <1>3. Spec => []FlashInv
    BY FlashInvariant
  <1> QED
    BY <1>1, <1>2, <1>3, PTL DEF Spec, ImplementsFlashUpdate, Abstract!Safety

(* What the driver says it returns, for the lists that hold the image (the  *)
(* run of corrupt bin files shows what one that does not leads to).         *)
THEOREM SuccessFlashed == ListsFit /\ ListsIntact => (Spec => []SuccessMeansFlashed)
  <1> SUFFICES ASSUME ListsFit, ListsIntact PROVE Spec => []SuccessMeansFlashed
    OBVIOUS
  <1>1. FlashInv => SuccessMeansFlashed
    BY DEF FlashInv, OutcomeInv, Safe, SuccessMeansFlashed
  <1> QED
    BY <1>1, FlashInvariant, PTL

-----------------------------------------------------------------------------
(* The first pass of a whole-chip update: the chip may miss commands, for    *)
(* nobody waits for the status register, but the protection is off by the   *)
(* time anything is read back.  The second pass finds a chip that misses    *)
(* nothing.                                                                 *)
Opened == busy = DisableProtect \/ (~protect /\ busy.op # "wrsr")
FirstPass ==
    /\ pc \in {"init", "readid", "section", "verify"} => Rest
    /\ pc = "unprotect" =>
          /\ step = "wren" => Rest
          /\ step = "cmd" => Rest /\ wel
          /\ step = "wait" => Opened
    /\ pc \in {"chip", "section", "page", "verify"} => Opened

BlankFrom(n) ==
    \A i \in 1..Len(job.sections) : i >= n /\ HasData(job.sections[i]) =>
        \A a \in Bytes(job.sections[i]) : flash[a] = Blank

(* The section at hand is in the flash up to a byte, and blank from there.  *)
UpTo(pos) ==
    \A a \in Bytes(Section) : flash[a] = IF a < pos THEN Cell(Section, a) ELSE Blank

SecondPass ==
    /\ pc \in {"chip", "section", "page", "verify", "protect", "done"}
    /\ pc \in {"chip", "section", "page", "verify"} => ~protect
    /\ pc \in {"section", "verify"} \/ (pc \in {"chip", "page"} /\ step # "wait") => Rest
    /\ pc \in {"chip", "page"} /\ step = "cmd" => wel
    /\ pc = "chip" /\ step = "wait" => busy = Command \/ (Rest /\ BlankFrom(1))
    /\ pc = "section" => BlankFrom(at.sec)
    /\ pc \in {"page", "verify"} => BlankFrom(at.sec + 1)
    /\ pc = "page" =>
          IF step = "wait" /\ Rest THEN UpTo(ChunkEnd(at.pos) + 1)
          ELSE (step = "wait" => busy = Command) /\ UpTo(at.pos)
    /\ pc = "verify" => Holds(Section)

CleanInv ==
    faults = 0 /\ job.all =>
        /\ pc \notin {"idle", "done"} => Apart(job.sections)
        /\ pc # "idle" => outcome # "failed"
        /\ round = Retries => FirstPass
        /\ round # Retries => SecondPass

(* What the chip makes of a command.                                        *)
LEMMA ReceiveFacts ==
    ASSUME NEW cmd, Receive(cmd)
    PROVE  /\ flash' = flash /\ protect' = protect
           /\ busy' = busy \/ (busy' = cmd /\ busy = Nothing)
           /\ busy = Nothing /\ cmd.op = "wren" => wel' = TRUE /\ busy' = Nothing
           /\ busy = Nothing /\ cmd.op # "wren" /\ wel /\ (~protect \/ cmd.op = "wrsr")
                => busy' = cmd
  BY DEF Receive

(* A transfer of an operation that does not fail.                           *)
LEMMA CleanTransfer ==
    ASSUME TypeInv, faults = 0, faults' = 0, Wren \/ Cmd \/ WaitBusyClear
    PROVE  \/ /\ step = "wren" /\ step' = "cmd" /\ Receive([op |-> "wren"])
              /\ UNCHANGED <<pc, at, tries, round, job, outcome>>
           \/ /\ step = "cmd" /\ step' = "wait" /\ Receive(Command)
              /\ UNCHANGED <<pc, at, tries, round, job, outcome>>
           \/ /\ step = "wait" /\ UNCHANGED chip /\ Succeeded
              /\ pc \in {"unprotect", "protect"} \/ busy = Nothing
  BY DEF Wren, Cmd, WaitBusyClear, Send, SendFails, Fails

(* Where a whole-chip operation that has succeeded leads to.                *)
LEMMA CleanSucceeded ==
    ASSUME TypeInv, job.all, pc \in Operations, Succeeded
    PROVE  /\ round' = round /\ outcome' = outcome /\ job' = job
           /\ pc # "sector"
           /\ pc = "unprotect" => pc' = "chip" /\ step' = "wren" /\ at' = Begin
           /\ pc = "chip" => pc' = "section" /\ at' = Begin
           /\ pc = "page" =>
                \/ /\ pc' = "page" /\ step' = "wren"
                   /\ at' = [at EXCEPT !.pos = ChunkEnd(at.pos) + 1]
                \/ /\ pc' = "verify" /\ at' = at
                   /\ ~(ChunkEnd(at.pos) < LastByte(Section))
           /\ pc = "protect" => pc' = "done"
  <1>1. pc # "sector"
    BY DEF TypeInv, DriverType, MayBe
  <1> QED
    BY <1>1 DEF Operations, Succeeded, GoTo, Finish

(* From section to section of the whole chip, none of them erased.          *)
LEMMA CleanBySection ==
    ASSUME TypeInv, job.all, BySection
    PROVE  /\ UNCHANGED chip /\ round' = round /\ job' = job /\ pc = "section"
           /\ \/ pc' = "protect" /\ outcome' = "ok"
              \/ /\ pc' = "section" /\ at' = [sec |-> at.sec + 1, pos |-> 0]
                 /\ ~HasData(Section) /\ outcome' = outcome
              \/ /\ pc' = "page" /\ at' = [at EXCEPT !.pos = Section.address]
                 /\ at.sec \in 1..Len(job.sections) /\ HasData(Section)
                 /\ outcome' = outcome /\ step' = "wren"
  <1>1. Fits(job.sections) /\ at.sec \in 1..Len(job.sections) + 1
    BY DEF TypeInv, DriverType, MayBe
  <1>2. at.sec > Len(job.sections) \/ at.sec \in 1..Len(job.sections)
    BY <1>1 DEF Fits
  <1> QED
    BY <1>2 DEF BySection, WriteSection, GoTo, Close

(* What reads back otherwise is read again; then the whole chip starts over.*)
LEMMA CleanVerify ==
    ASSUME TypeInv, job.all, faults = 0, faults' = 0, Verify
    PROVE  /\ UNCHANGED chip /\ job' = job
           /\ \/ /\ ReadNbyte(Section) /\ pc' = "section" /\ outcome' = outcome
                 /\ round' = round /\ at' = [sec |-> at.sec + 1, pos |-> 0]
              \/ /\ ~ReadNbyte(Section) /\ pc' = "verify" /\ outcome' = outcome
                 /\ round' = round /\ at' = at
              \/ /\ ~ReadNbyte(Section) /\ round > 1 /\ pc' = "chip" /\ step' = "wren"
                 /\ at' = Begin /\ round' = round - 1 /\ outcome' = outcome
              \/ ~ReadNbyte(Section) /\ ~(round > 1)
  BY DEF Verify, Fails, GoTo, SectionFailed, Close

(* The first pass leads to its end, or to a second pass with the array open.*)
LEMMA FirstPassStep ==
    ASSUME TypeInv, job.all, FirstPass, round = Retries, Retries > 1,
           faults = 0, faults' = 0, outcome # "failed", Driver
    PROVE  /\ outcome' # "failed"
           /\ \/ round' = Retries /\ FirstPass'
              \/ round' # Retries /\ SecondPass'
  <1>1. CASE InitDs \/ ReadId
    <2>1. /\ pc \in {"init", "readid"} /\ UNCHANGED chip /\ UNCHANGED <<round, outcome>>
          /\ pc' \in {"readid", "unprotect"} /\ step' = "wren"
      BY <1>1 DEF InitDs, ReadId, GoTo, Fails
    <2> QED
      BY <2>1 DEF FirstPass, Rest, chip
  <1>2. CASE Wren \/ Cmd \/ WaitBusyClear
    <2>1. pc \in Operations /\ pc # "sector"
      BY <1>2 DEF Wren, Cmd, WaitBusyClear, TypeInv, DriverType, MayBe
    <2>2. CASE /\ step = "wren" /\ step' = "cmd" /\ Receive([op |-> "wren"])
               /\ UNCHANGED <<pc, at, tries, round, job, outcome>>
      <3>1. /\ protect' = protect /\ busy' = busy
            /\ busy = Nothing => wel' = TRUE
        <4>1. [op |-> "wren"].op = "wren"
          OBVIOUS
        <4> QED
          BY <2>2, <4>1, ReceiveFacts
      <3>2. Opened => Opened'
        BY <3>1 DEF Opened
      <3> QED
        BY <2>1, <2>2, <3>1, <3>2 DEF FirstPass, Rest, Operations
    <2>3. CASE /\ step = "cmd" /\ step' = "wait" /\ Receive(Command)
               /\ UNCHANGED <<pc, at, tries, round, job, outcome>>
      <3>1. CASE pc = "unprotect"
        <4>1. Command = DisableProtect /\ Rest /\ wel
          BY <2>1, <2>3, <3>1, CommandType DEF FirstPass
        <4>2. DisableProtect.op = "wrsr"
          BY DEF DisableProtect
        <4>3. busy' = DisableProtect
          BY <2>3, <4>1, <4>2, ReceiveFacts DEF Rest
        <4> QED
          BY <2>3, <3>1, <4>3 DEF FirstPass, Opened
      <3>2. CASE pc \in {"chip", "page"}
        <4>1. Opened /\ Command.op # "wrsr"
          BY <2>1, <3>2, CommandType DEF FirstPass
        <4>2. protect' = protect /\ (busy' = busy \/ (busy' = Command /\ busy = Nothing))
          BY <2>3, ReceiveFacts
        <4>3. Opened'
          BY <4>1, <4>2 DEF Opened, DisableProtect, Nothing
        <4> QED
          BY <2>3, <3>2, <4>3 DEF FirstPass
      <3>3. CASE pc = "protect"
        BY <2>3, <3>3 DEF FirstPass
      <3> QED
        BY <2>1, <3>1, <3>2, <3>3 DEF Operations
    <2>4. CASE /\ step = "wait" /\ UNCHANGED chip /\ Succeeded
               /\ pc \in {"unprotect", "protect"} \/ busy = Nothing
      <3>1. CASE pc \in {"unprotect", "chip", "page"}
        <4>1. Opened /\ (Opened => Opened')
          BY <2>4, <3>1 DEF FirstPass, Opened, chip
        <4>2. pc # "unprotect" => busy' = Nothing
          BY <2>4, <3>1 DEF chip
        <4> QED
          BY <2>1, <2>4, <3>1, <4>1, <4>2, CleanSucceeded DEF FirstPass, Rest
      <3>2. CASE pc = "protect"
        BY <2>1, <2>4, <3>2, CleanSucceeded DEF FirstPass
      <3> QED
        BY <2>1, <3>1, <3>2 DEF Operations
    <2> QED
      BY <1>2, <2>2, <2>3, <2>4, CleanTransfer
  <1>3. CASE BySection
    <2>1. Rest' /\ Opened'
      BY <1>3, CleanBySection DEF FirstPass, Rest, Opened, chip
    <2> QED
      BY <1>3, <2>1, CleanBySection DEF FirstPass
  <1>4. CASE Verify
    <2>1. Rest' /\ Opened' /\ pc = "verify"
      BY <1>4, CleanVerify DEF Verify, FirstPass, Rest, Opened, chip
    <2>2. CASE pc' \in {"section", "verify"} /\ outcome' = outcome /\ round' = round
      BY <2>1, <2>2 DEF FirstPass
    <2>3. CASE /\ pc' = "chip" /\ step' = "wren" /\ round' = round - 1
               /\ outcome' = outcome
      <3>1. ~protect'
        BY <2>1 DEF Opened, Rest, DisableProtect, Nothing
      <3>2. round' # Retries
        BY <2>3, SizeFacts
      <3> QED
        BY <2>1, <2>3, <3>1, <3>2 DEF SecondPass
    <2> QED
      BY <1>4, <2>2, <2>3, CleanVerify
  <1> QED
    BY <1>1, <1>2, <1>3, <1>4 DEF Driver

(* The second pass: every command is carried out on a blank chip.           *)
LEMMA SecondPassTransfer ==
    ASSUME TypeInv, job.all, SecondPass, faults = 0, faults' = 0,
           Wren \/ Cmd \/ WaitBusyClear
    PROVE  round' = round /\ outcome' = outcome /\ SecondPass'
  <1>1. pc \in {"chip", "page", "protect"}
    BY DEF Wren, Cmd, WaitBusyClear, SecondPass, Operations
  <1>2. CASE /\ step = "wren" /\ step' = "cmd" /\ Receive([op |-> "wren"])
             /\ UNCHANGED <<pc, at, tries, round, job, outcome>>
    <2>1. /\ flash' = flash /\ protect' = protect /\ busy' = busy
          /\ busy = Nothing => wel' = TRUE
      <3>1. [op |-> "wren"].op = "wren"
        OBVIOUS
      <3> QED
        BY <1>2, <3>1, ReceiveFacts
    <2>2. CASE pc = "protect"
      BY <1>2, <2>2 DEF SecondPass
    <2>3. CASE pc \in {"chip", "page"}
      <3>1. Rest /\ ~protect /\ (pc = "page" => BlankFrom(at.sec + 1) /\ UpTo(at.pos))
        BY <1>2, <2>3 DEF SecondPass
      <3>2. pc = "page" => (BlankFrom(at.sec + 1) /\ UpTo(at.pos))'
        BY <1>2, <2>1, <3>1 DEF BlankFrom, UpTo, Section
      <3> QED
        BY <1>2, <2>1, <2>3, <3>1, <3>2 DEF SecondPass, Rest
    <2> QED
      BY <1>1, <2>2, <2>3
  <1>3. CASE /\ step = "cmd" /\ step' = "wait" /\ Receive(Command)
             /\ UNCHANGED <<pc, at, tries, round, job, outcome>>
    <2>1. CASE pc = "protect"
      BY <1>3, <2>1 DEF SecondPass
    <2>2. CASE pc \in {"chip", "page"}
      <3>1. /\ Rest /\ ~protect /\ wel
            /\ pc = "page" => BlankFrom(at.sec + 1) /\ UpTo(at.pos)
        BY <1>3, <2>2 DEF SecondPass
      <3>2. Command.op \in {"chip", "page"}
        BY <2>2, CommandType DEF Operations
      <3>3. busy' = Command /\ flash' = flash /\ protect' = protect
        BY <1>3, <3>1, <3>2, ReceiveFacts DEF Rest
      <3>4. Command' = Command
        BY <1>3, <2>2 DEF Command, Section, ChunkEnd, Unaligned, LastByte
      <3>5. ~Rest'
        BY <3>2, <3>3 DEF Rest, Nothing
      <3>6. pc = "page" => (BlankFrom(at.sec + 1) /\ UpTo(at.pos))'
        BY <1>3, <3>1, <3>3 DEF BlankFrom, UpTo, Section
      <3>7. busy' = Command'
        BY <3>3, <3>4
      <3> QED
        BY <1>3, <2>2, <3>1, <3>3, <3>5, <3>6, <3>7 DEF SecondPass
    <2> QED
      BY <1>1, <2>1, <2>2
  <1>4. CASE /\ step = "wait" /\ UNCHANGED chip /\ Succeeded
             /\ pc \in {"unprotect", "protect"} \/ busy = Nothing
    <2>1. UNCHANGED <<round, outcome, job>> /\ flash' = flash
      BY <1>1, <1>4, CleanSucceeded DEF chip, Operations
    <2>2. CASE pc = "protect"
      BY <1>4, <2>1, <2>2, CleanSucceeded DEF SecondPass, Operations
    <2>3. CASE pc = "chip"
      <3>1. /\ Rest' /\ ~protect' /\ BlankFrom(1)
        <4>1. Rest /\ Command.op = "chip"
          BY <1>4, <2>3, CommandType DEF Rest, Operations
        <4>2. busy # Command
          BY <4>1 DEF Rest, Nothing
        <4> QED
          BY <1>4, <2>3, <4>1, <4>2 DEF SecondPass, chip, Rest
      <3>2. pc' = "section" /\ at'.sec = 1
        BY <1>4, <2>3, CleanSucceeded, BeginFacts DEF Operations
      <3>3. BlankFrom(at.sec)'
        BY <2>1, <3>1, <3>2 DEF BlankFrom
      <3> QED
        BY <2>1, <3>1, <3>2, <3>3 DEF SecondPass
    <2>4. CASE pc = "page"
      <3>1. Rest /\ Rest' /\ ~protect' /\ UpTo(ChunkEnd(at.pos) + 1) /\ BlankFrom(at.sec + 1)
        BY <1>4, <2>4 DEF SecondPass, chip, Rest
      <3>2. /\ Fits(job.sections) /\ at.sec \in 1..Len(job.sections)
            /\ at.pos \in Bytes(Section) /\ at \in Spot
        BY <2>4 DEF TypeInv, DriverType, MayBe, Spot, Section
      <3>3. ChunkEnd(at.pos) \in Nat /\ LastByte(Section) \in Int
        BY <3>2, SectionFacts, ChunkFacts DEF LastByte
      <3>4. CASE /\ pc' = "page" /\ step' = "wren"
                 /\ at' = [at EXCEPT !.pos = ChunkEnd(at.pos) + 1]
        <4>1. at'.sec = at.sec /\ at'.pos = ChunkEnd(at.pos) + 1
          BY <3>2, <3>3, <3>4, SpotFacts
        <4>2. (BlankFrom(at.sec + 1) /\ UpTo(at.pos))'
          BY <2>1, <3>1, <4>1 DEF BlankFrom, UpTo, Section
        <4> QED
          BY <2>1, <3>1, <3>4, <4>2 DEF SecondPass
      <3>5. CASE /\ pc' = "verify" /\ at' = at
                 /\ ~(ChunkEnd(at.pos) < LastByte(Section))
        <4>1. Holds(Section)
          <5> SUFFICES ASSUME NEW a \in Bytes(Section) PROVE flash[a] = Cell(Section, a)
            BY DEF Holds
          <5>1. a < ChunkEnd(at.pos) + 1
            BY <3>3, <3>5, <3>2, SectionFacts DEF Bytes
          <5> QED
            BY <3>1, <5>1 DEF UpTo
        <4>2. Holds(Section)' /\ BlankFrom(at.sec + 1)'
          BY <2>1, <3>1, <3>5, <4>1 DEF Holds, BlankFrom, Section
        <4> QED
          BY <2>1, <3>1, <3>5, <4>2 DEF SecondPass
      <3> QED
        BY <1>4, <2>4, <3>4, <3>5, CleanSucceeded DEF Operations
    <2> QED
      BY <1>1, <2>2, <2>3, <2>4
  <1> QED
    BY <1>2, <1>3, <1>4, CleanTransfer

(* The other steps of the second pass: what was written reads back.         *)
LEMMA SecondPassStep ==
    ASSUME TypeInv, job.all, SecondPass, faults = 0, faults' = 0,
           outcome # "failed", Driver
    PROVE  round' = round /\ outcome' # "failed" /\ SecondPass'
  <1>1. pc \notin {"init", "readid"}
    BY DEF SecondPass
  <1>2. CASE Wren \/ Cmd \/ WaitBusyClear
    BY <1>2, SecondPassTransfer
  <1>3. CASE BySection
    <2>1. /\ UNCHANGED chip /\ round' = round /\ job' = job /\ outcome' # "failed"
      BY <1>3, CleanBySection
    <2>2. Rest /\ ~protect /\ BlankFrom(at.sec)
      BY <1>3 DEF BySection, SecondPass
    <2>3. Rest' /\ ~protect' /\ flash' = flash
      BY <2>1, <2>2 DEF Rest, chip
    <2>4. at \in Spot /\ at.sec \in Nat
      BY DEF TypeInv, DriverType, MayBe, Spot
    <2>5. CASE pc' = "protect"
      BY <2>1, <2>5 DEF SecondPass
    <2>6. CASE /\ pc' = "section" /\ at' = [sec |-> at.sec + 1, pos |-> 0]
      <3>1. BlankFrom(at.sec)'
        BY <2>1, <2>2, <2>3, <2>4, <2>6 DEF BlankFrom
      <3> QED
        BY <2>1, <2>3, <2>6, <3>1 DEF SecondPass
    <2>7. CASE /\ pc' = "page" /\ at' = [at EXCEPT !.pos = Section.address]
               /\ at.sec \in 1..Len(job.sections) /\ HasData(Section)
               /\ step' = "wren"
      <3>1. /\ Section.address \in Nat /\ Section.byte_cnt \in Nat
        BY <2>7, SectionFacts DEF TypeInv, DriverType
      <3>2. at'.sec = at.sec /\ at'.pos = Section.address
        BY <2>4, <2>7, <3>1, SpotFacts
      <3>3. UpTo(Section.address) /\ BlankFrom(at.sec + 1)
        <4>1. \A a \in Bytes(Section) : flash[a] = Blank /\ ~(a < Section.address)
          BY <2>2, <2>7, <2>4, <3>1 DEF BlankFrom, Section, Bytes, LastByte
        <4> QED
          BY <2>2, <2>4, <4>1 DEF UpTo, BlankFrom
      <3>4. (UpTo(at.pos) /\ BlankFrom(at.sec + 1))'
        BY <2>1, <2>3, <3>2, <3>3 DEF UpTo, BlankFrom, Section
      <3> QED
        BY <2>1, <2>3, <2>7, <3>4 DEF SecondPass
    <2> QED
      BY <1>3, <2>1, <2>5, <2>6, <2>7, CleanBySection
  <1>4. CASE Verify
    <2>1. pc = "verify" /\ Rest /\ ~protect /\ Holds(Section) /\ BlankFrom(at.sec + 1)
      BY <1>4 DEF Verify, SecondPass
    <2>2. ReadNbyte(Section)
      BY <2>1 DEF ReadNbyte, Read, Rest, Holds
    <2>3. /\ UNCHANGED chip /\ job' = job /\ pc' = "section" /\ outcome' = outcome
          /\ round' = round /\ at' = [sec |-> at.sec + 1, pos |-> 0]
      BY <1>4, <2>2, CleanVerify
    <2>4. Rest' /\ ~protect' /\ BlankFrom(at.sec)'
      BY <2>1, <2>3 DEF Rest, chip, BlankFrom
    <2> QED
      BY <2>3, <2>4 DEF SecondPass
  <1> QED
    BY <1>1, <1>2, <1>3, <1>4 DEF Driver, InitDs, ReadId

(* A command that the chip finishes in the first pass closes nothing.       *)
LEMMA FirstPassChip ==
    ASSUME FirstPass, ChipDone
    PROVE  FirstPass'
  <1>1. /\ UNCHANGED <<pc, step, at, job>> /\ busy # Nothing /\ busy' = Nothing
        /\ protect' = IF busy.op = "wrsr" THEN busy.protect ELSE protect
    BY DEF ChipDone, driver
  <1>2. Opened => Opened'
    <2>1. CASE busy = DisableProtect
      BY <1>1, <2>1 DEF Opened, DisableProtect, Nothing
    <2>2. CASE ~protect /\ busy.op # "wrsr"
      BY <1>1, <2>2 DEF Opened, Nothing
    <2> QED
      BY <2>1, <2>2 DEF Opened
  <1> QED
    BY <1>1, <1>2 DEF FirstPass, Rest

(* The chip that is erased, and the page that is programmed.                *)
LEMMA SecondPassChip ==
    ASSUME TypeInv, SecondPass, Apart(job.sections), ChipDone
    PROVE  SecondPass'
  <1>1. UNCHANGED <<pc, step, at, job>> /\ ~Rest /\ Rest'
    BY DEF ChipDone, driver, Rest
  <1>2. CASE pc \in {"protect", "done"}
    BY <1>1, <1>2 DEF SecondPass
  <1>3. CASE pc \notin {"protect", "done"}
    <2>1. pc \in {"chip", "page"} /\ step = "wait" /\ busy = Command /\ ~protect
      BY <1>1, <1>3 DEF SecondPass
    <2>2. protect' = protect
      BY <2>1, CommandType DEF ChipDone, Operations
    <2>3. CASE pc = "chip"
      <3>1. flash' = Erase(0, Cardinality(Addr))
        BY <2>1, <2>3, CommandType DEF ChipDone, Operations
      <3>2. Cardinality(Addr) \in Nat
        BY AddrAssumption, FS_CardinalityType
      <3>3. \A a \in Addr : flash'[a] = Blank
        BY <3>1, <3>2, AddrAssumption DEF Erase
      <3>4. \A i \in 1..Len(job.sections) : Bytes(job.sections[i]) \subseteq Addr
        BY DEF TypeInv, DriverType, Fits
      <3>5. BlankFrom(1)'
        BY <1>1, <3>3, <3>4 DEF BlankFrom
      <3> QED
        BY <1>1, <2>1, <2>2, <2>3, <3>5 DEF SecondPass
    <2>4. CASE pc = "page"
      <3>1. /\ Fits(job.sections) /\ at.sec \in 1..Len(job.sections) /\ HasData(Section)
            /\ at.pos \in Bytes(Section) /\ UpTo(at.pos) /\ BlankFrom(at.sec + 1)
        BY <1>1, <2>1, <2>4 DEF TypeInv, DriverType, MayBe, Spot, Section, SecondPass
      <3>2. /\ at.pos \in Nat /\ ChunkEnd(at.pos) \in Nat
            /\ at.pos .. ChunkEnd(at.pos) \subseteq Programs(Section)
            /\ Bytes(Section) \subseteq Addr
        BY <3>1, SectionFacts, ChunkFacts
      <3>3. flash' = Programmed(Section, at.pos, ChunkEnd(at.pos))
        BY <2>1, <2>4, CommandType DEF ChipDone, Operations
      <3>4. UpTo(ChunkEnd(at.pos) + 1)'
        <4> SUFFICES ASSUME NEW a \in Bytes(Section)
                     PROVE  flash'[a] = IF a < ChunkEnd(at.pos) + 1
                                        THEN Cell(Section, a) ELSE Blank
          BY <1>1 DEF UpTo, Section, ChunkEnd, Unaligned, LastByte
        <4>1. a \in Addr /\ a \in Int
          BY <3>1, <3>2, SectionFacts DEF Bytes
        <4>2. flash[a] = IF a < at.pos THEN Cell(Section, a) ELSE Blank
          BY <3>1 DEF UpTo
        <4>3. CASE a \in at.pos .. ChunkEnd(at.pos)
          BY <3>2, <3>3, <4>1, <4>2, <4>3 DEF Programmed
        <4>4. CASE a \notin at.pos .. ChunkEnd(at.pos)
          <5>1. flash'[a] = flash[a]
            BY <3>3, <4>1, <4>4 DEF Programmed
          <5> QED
            BY <3>2, <4>1, <4>2, <4>4, <5>1, SectionFacts, ChunkFacts, <3>1
        <4> QED
          BY <4>3, <4>4
      <3>5. BlankFrom(at.sec + 1)'
        <4> SUFFICES ASSUME NEW i \in 1..Len(job.sections), i >= at.sec + 1,
                            HasData(job.sections[i]), NEW a \in Bytes(job.sections[i])
                     PROVE  flash'[a] = Blank
          BY <1>1 DEF BlankFrom
        <4>1. flash[a] = Blank /\ a \in Addr
          BY <3>1 DEF BlankFrom, Fits
        <4>2. a \notin Programs(Section)
          <5>1. i # at.sec
            BY <3>1
          <5> QED
            BY <3>1, <5>1 DEF Apart, Section
        <4> QED
          BY <3>2, <3>3, <4>1, <4>2 DEF Programmed
      <3> QED
        BY <1>1, <2>1, <2>2, <2>4, <3>4, <3>5 DEF SecondPass
    <2> QED
      BY <2>1, <2>3, <2>4
  <1> QED
    BY <1>2, <1>3

(* Without a failed transfer nothing leads to a failure.                    *)
LEMMA CleanStep ==
    ASSUME ListsApart, TypeInv, TypeInv', CleanInv, [Next]_vars
    PROVE  CleanInv'
  <1> SUFFICES ASSUME faults' = 0, job'.all
               PROVE  (/\ pc \notin {"idle", "done"} => Apart(job.sections)
                       /\ pc # "idle" => outcome # "failed"
                       /\ round = Retries => FirstPass
                       /\ round # Retries => SecondPass)'
    BY DEF CleanInv
  <1>1. CASE UNCHANGED vars
    <2>1. FirstPass' = FirstPass /\ SecondPass' = SecondPass
      BY <1>1 DEF vars, FirstPass, SecondPass, Rest, Opened, BlankFrom, UpTo, Holds,
                  Section, Command, ChunkEnd, Unaligned, LastByte
    <2> QED
      BY <1>1, <2>1 DEF vars, CleanInv
  <1>2. ASSUME NEW call \in Calls, Ask(call)
        PROVE  (/\ Apart(job.sections) /\ outcome # "failed" /\ round = Retries /\ FirstPass)'
    <2>1. Asked(call).all
      BY <1>2, AskFacts
    <2>2. Apart(job'.sections)
      BY <1>2, <2>1, AskFacts DEF ListsApart
    <2>3. busy' = Nothing /\ pc' \in {"init", "done"} /\ round' = Retries
      BY <1>2, AskFacts DEF chip
    <2>4. FirstPass'
      BY <2>3 DEF FirstPass, Rest
    <2>5. outcome' # "failed"
      BY <1>2, AskFacts
    <2> QED
      BY <2>2, <2>3, <2>4, <2>5
  <1>3. CASE Return
    BY <1>3 DEF Return
  <1>4. CASE ChipDone
    <2>1. UNCHANGED <<pc, job, round, outcome, faults>>
      BY <1>4 DEF ChipDone, driver
    <2>2. CASE pc \in {"idle", "done"}
      <3>1. round = Retries => FirstPass'
        BY <2>1, <2>2 DEF FirstPass
      <3>2. round # Retries => SecondPass'
        BY <1>4, <2>1, <2>2 DEF CleanInv, SecondPass
      <3> QED
        BY <2>1, <2>2, <3>1, <3>2 DEF CleanInv
    <2>3. CASE pc \notin {"idle", "done"}
      BY <1>4, <2>1, <2>3, FirstPassChip, SecondPassChip DEF CleanInv
    <2> QED
      BY <2>2, <2>3
  <1>5. CASE Driver
    <2>1. job' = job /\ pc \notin {"idle", "done"}
      BY <1>5, DriverMoves DEF Settles, Unsettled
    <2>2. faults = 0
      <3>1. faults' = faults \/ faults' = faults + 1
        BY <1>5 DEF Driver, InitDs, ReadId, Wren, Cmd, WaitBusyClear, BySection, Verify,
                    Send, SendFails, Fails
      <3>2. faults \in Nat
        BY SizeFacts DEF TypeInv, ChipType
      <3> QED
        BY <3>1, <3>2
    <2>3. Apart(job'.sections) /\ outcome # "failed"
      BY <2>1, <2>2 DEF CleanInv
    <2>4. CASE round = Retries
      <3>1. FirstPass /\ Retries > 1
        BY <2>1, <2>2, <2>4 DEF CleanInv, ListsApart
      <3>2. /\ outcome' # "failed"
            /\ \/ round' = Retries /\ FirstPass'
               \/ round' # Retries /\ SecondPass'
        BY <1>5, <2>1, <2>2, <2>3, <2>4, <3>1, FirstPassStep
      <3> QED
        BY <2>3, <3>2
    <2>5. CASE round # Retries
      <3>1. SecondPass
        BY <2>1, <2>2, <2>5 DEF CleanInv
      <3>2. round' = round /\ outcome' # "failed" /\ SecondPass'
        BY <1>5, <2>1, <2>2, <2>3, <3>1, SecondPassStep
      <3> QED
        BY <2>3, <2>5, <3>2
    <2> QED
      BY <2>4, <2>5
  <1> QED
    BY <1>1, <1>2, <1>3, <1>4, <1>5 DEF Next

(* A whole-chip update in which no transfer fails does not fail, however    *)
(* often the chip is busy when it is sent a command: the first pass may     *)
(* come to nothing, the second one does not.                                *)
THEOREM CleanUpdateSucceeds ==
    ListsFit /\ ListsApart => (Spec => []FailureNeedsFaults)
  <1> SUFFICES ASSUME ListsFit, ListsApart PROVE Spec => []FailureNeedsFaults
    OBVIOUS
  <1>1. Init => CleanInv
    BY DEF Init, CleanInv
  <1>2. TypeInv /\ TypeInv' /\ CleanInv /\ [Next]_vars => CleanInv'
    BY CleanStep
  <1>3. Spec => []TypeInv
    BY TypeInvariant
  <1>4. TypeInv /\ CleanInv => FailureNeedsFaults
    BY SizeFacts DEF TypeInv, ChipType, CleanInv, FailureNeedsFaults
  <1> QED
    BY <1>1, <1>2, <1>3, <1>4, PTL DEF Spec

-----------------------------------------------------------------------------
(* The protection.                                                          *)

(* Where the driver is says what the chip does, as long as no transfer has  *)
(* failed.  Behind "unprotect" the chip may still be at work, until a wait  *)
(* that looks at it; a section that is written has such a wait.             *)
Restored == busy = EnableProtect \/ (Rest /\ protect)

NothingYet ==
    /\ ~job.all
    /\ \A i \in 1..Len(job.sections) : i < at.sec => ~HasData(job.sections[i])

QuietInv ==
    /\ pc \in {"idle", "done"} => Restored
    /\ pc \in {"init", "readid", "verify"} => Rest
    /\ pc = "section" => Rest \/ NothingYet
    /\ pc = "protect" /\ step = "wren" => Rest
    /\ pc = "protect" /\ step = "cmd" => Rest /\ wel
    /\ pc = "protect" /\ step = "wait" => Restored

(* What is at work has something to write.                                  *)
JobInv ==
    pc \notin {"idle", "done"} =>
        job.all \/ /\ job.sections \in Seq(Range(job.sections))
                   /\ Written(job.sections, job.all)

PlaceInv ==
    /\ pc \in Places
    /\ step \in {"wren", "cmd", "wait"}
    /\ at.sec \in Nat
    /\ faults \in Nat

ProtectInv == PlaceInv /\ JobInv /\ (faults = 0 => QuietInv)

-----------------------------------------------------------------------------
(* The command that protects is none of those the chip can be at otherwise. *)
LEMMA CommandFacts ==
    /\ EnableProtect # Nothing
    /\ EnableProtect.op = "wrsr" /\ EnableProtect.protect = TRUE
  BY DEF EnableProtect, Nothing

(* A transfer that fails is counted, and nothing is claimed any more.       *)
LEMMA FailureCounted ==
    ASSUME faults \in Nat
    PROVE  /\ Fails => faults' \in Nat /\ faults' # 0
           /\ \A cmd : SendFails(cmd) => faults' \in Nat /\ faults' # 0
  BY DEF Fails, SendFails

(* A section given up: the whole chip again, or the end.                    *)
LEMMA GiveUpFacts ==
    ASSUME PlaceInv, SectionFailed
    PROVE  /\ pc' \in {"chip", "protect"} /\ step' = "wren" /\ job' = job /\ at'.sec \in Nat
  BY DEF SectionFailed, Close, PlaceInv, Begin

(* Where the driver goes when an operation has succeeded.                   *)
LEMMA SucceededFacts ==
    ASSUME PlaceInv, pc \in Operations, Succeeded
    PROVE  /\ job' = job /\ at'.sec \in Nat /\ step' \in {"wren", "cmd", "wait"}
           /\ pc = "protect" => pc' = "done"
           /\ pc = "unprotect" => \/ pc' = "chip"
                                  \/ pc' = "section" /\ ~job.all /\ at' = Begin
           /\ pc \in {"chip", "sector", "page"} =>
                pc' \in {"section", "sector", "page", "verify"}
  <1>1. Begin.sec \in Nat
    BY DEF Begin
  <1>2. at.sec \in Nat /\ step \in {"wren", "cmd", "wait"}
    BY DEF PlaceInv
  <1>3. CASE pc = "unprotect"
    BY <1>1, <1>3 DEF Succeeded, GoTo
  <1>4. CASE pc = "chip"
    BY <1>1, <1>4 DEF Succeeded, GoTo
  <1>5. CASE pc = "sector"
    <2>1. [at EXCEPT !.pos = @ + 1].sec = at.sec /\ [at EXCEPT !.pos = Section.address].sec = at.sec
      OBVIOUS
    <2> QED
      BY <1>2, <1>5, <2>1 DEF Succeeded, GoTo, WriteSection
  <1>6. CASE pc = "page"
    <2>1. [at EXCEPT !.pos = ChunkEnd(@) + 1].sec = at.sec
      OBVIOUS
    <2> QED
      BY <1>2, <1>6, <2>1 DEF Succeeded, GoTo
  <1>7. CASE pc = "protect"
    BY <1>2, <1>7 DEF Succeeded, Finish
  <1> QED
    BY <1>3, <1>4, <1>5, <1>6, <1>7 DEF Operations

(* It stays on the same list when one has failed.                           *)
LEMMA FailedFacts ==
    ASSUME PlaceInv, pc \in Operations, Failed
    PROVE  /\ job' = job /\ at'.sec \in Nat /\ step' \in {"wren", "cmd", "wait"}
           /\ pc' \in Places
  <1>1. at.sec \in Nat /\ step \in {"wren", "cmd", "wait"}
    BY DEF PlaceInv
  <1>2. \A pos : [at EXCEPT !.pos = pos].sec = at.sec
    OBVIOUS
  <1>3. SectionFailed => job' = job /\ at'.sec \in Nat /\ step' = "wren" /\ pc' \in Places
    BY GiveUpFacts DEF Places, Operations
  <1>4. CASE pc \in {"unprotect", "protect", "chip"}
    BY <1>1, <1>4 DEF Failed, Finish, GoTo, Close, Places, Operations
  <1>5. CASE pc = "sector"
    BY <1>1, <1>2, <1>3, <1>5 DEF Failed, GoTo, Places, Operations
  <1>6. CASE pc = "page"
    BY <1>1, <1>2, <1>3, <1>6 DEF Failed, GoTo, Places, Operations
  <1> QED
    BY <1>4, <1>5, <1>6 DEF Operations
-----------------------------------------------------------------------------
(* A step that failed leaves nothing to show but where the driver is.       *)
LEMMA FailedStep ==
    ASSUME PlaceInv, JobInv, job' = job, pc' \in Places, pc \notin {"idle", "done"},
           step' \in {"wren", "cmd", "wait"}, at'.sec \in Nat,
           faults' \in Nat, faults' # 0
    PROVE  ProtectInv'
  BY DEF ProtectInv, PlaceInv, JobInv

(* The chip finishing a command brings the protection, if it was that one.  *)
LEMMA ChipDoneStep ==
    ASSUME ProtectInv, ChipDone
    PROVE  ProtectInv'
  <1>1. /\ busy # Nothing /\ busy' = Nothing /\ UNCHANGED <<pc, step, at, job, faults>>
        /\ busy.op = "wrsr" => protect' = busy.protect
    BY DEF ChipDone, driver
  <1>2. PlaceInv' /\ JobInv'
    BY <1>1 DEF ProtectInv, PlaceInv, JobInv
  <1>3. Restored => Restored'
    BY <1>1, CommandFacts DEF Restored, Rest
  <1>4. NothingYet' <=> NothingYet
    BY <1>1 DEF NothingYet
  <1>5. QuietInv => QuietInv'
    BY <1>1, <1>3, <1>4 DEF QuietInv, Rest
  <1> QED
    BY <1>1, <1>2, <1>5 DEF ProtectInv

(* A call finds the chip at rest, and brings something to write.            *)
LEMMA AskStep ==
    ASSUME NoHollowFile, ProtectInv, NEW call \in Calls, Ask(call)
    PROVE  ProtectInv'
  <1>1. /\ pc = "idle" /\ busy = Nothing /\ at' = Begin /\ step' = "wren"
        /\ UNCHANGED <<busy, protect, faults>>
    BY DEF Ask, chip
  <1>2. PlaceInv /\ at'.sec \in Nat
    BY <1>1 DEF ProtectInv, Begin
  <1>3. \/ pc' = "done"
        \/ pc' = "init" /\ job'.all = TRUE
        \/ /\ pc' = "init" /\ job'.sections \in Seq(Range(job'.sections))
           /\ Written(job'.sections, job'.all)
    <2>1. CASE call.by = "header"
      BY <2>1 DEF Ask, PreBootUpCheckHead, UpdateByHeaderAll, Update
    <2>2. CASE call.by = "bin"
      BY <2>2 DEF Ask, PreBootUpCheckBin, UpdateByHeaderAll, Update
    <2>3. CASE call.by = "file"
      <3>1. UpdateByFile(call.file)
        BY <2>3 DEF Ask
      <3>2. CASE Parse(call.file).head = <<>>
        BY <3>1, <3>2 DEF UpdateByFile, Refuse
      <3>3. CASE Parse(call.file).head # <<>>
        <4>1. Update(Parse(call.file).head, Parse(call.file).all)
          BY <3>1, <3>3 DEF UpdateByFile
        <4>2. /\ Parse(call.file).head \in Seq(Range(Parse(call.file).head))
              /\ Written(Parse(call.file).head, Parse(call.file).all)
          BY <2>3, <3>3 DEF NoHollowFile
        <4> QED
          BY <4>1, <4>2 DEF Update
      <3> QED
        BY <3>2, <3>3
    <2> QED
      BY <2>1, <2>2, <2>3, CallAssumption
  <1>4. PlaceInv'
    BY <1>1, <1>2, <1>3 DEF PlaceInv, Places
  <1>5. JobInv'
    BY <1>3 DEF JobInv
  <1>6. faults = 0 => QuietInv'
    BY <1>1, <1>3 DEF ProtectInv, QuietInv, Restored, Rest
  <1> QED
    BY <1>1, <1>4, <1>5, <1>6 DEF ProtectInv

(* The return to the caller leaves the chip alone.                          *)
LEMMA ReturnStep ==
    ASSUME ProtectInv, Return
    PROVE  ProtectInv'
  <1>1. /\ pc = "done" /\ pc' = "idle" /\ at' = Begin
        /\ UNCHANGED <<busy, protect, step, faults>>
    BY DEF Return, chip
  <1>2. PlaceInv' /\ JobInv'
    BY <1>1 DEF ProtectInv, PlaceInv, JobInv, Begin, Places
  <1>3. QuietInv => QuietInv'
    BY <1>1 DEF QuietInv, Restored, Rest
  <1> QED
    BY <1>1, <1>2, <1>3 DEF ProtectInv

(* A step that succeeded, before the flash is touched.                      *)
LEMMA OpeningSteps ==
    ASSUME ProtectInv, InitDs \/ ReadId
    PROVE  ProtectInv'
  <1>1. Begin.sec \in Nat /\ PlaceInv /\ JobInv /\ faults \in Nat
    BY DEF Begin, ProtectInv, PlaceInv
  <1>2. pc \in {"init", "readid"} /\ job' = job
    BY DEF InitDs, ReadId, GoTo, Finish
  <1>3. CASE Fails
    <2>1. pc' \in Places /\ step' \in {"wren", "cmd", "wait"} /\ at'.sec \in Nat
      BY <1>1 DEF InitDs, ReadId, GoTo, Finish, PlaceInv, Places, Operations
    <2> QED
      BY <1>1, <1>2, <1>3, <2>1, FailedStep, FailureCounted
  <1>4. CASE UNCHANGED <<chip, faults>> /\ \E p \in {"readid", "unprotect"} : GoTo(p, Begin, 1)
    <2>1. pc' \in {"readid", "unprotect"} /\ step' = "wren" /\ at' = Begin
      BY <1>4 DEF GoTo
    <2>2. PlaceInv' /\ JobInv'
      BY <1>1, <1>2, <1>4, <2>1 DEF PlaceInv, JobInv, Places, Operations
    <2>3. QuietInv => QuietInv'
      BY <1>2, <1>4, <2>1 DEF QuietInv, Rest, chip
    <2> QED
      BY <1>4, <2>2, <2>3 DEF ProtectInv
  <1> QED
    BY <1>3, <1>4 DEF InitDs, ReadId

(* The two commands of an operation: at "protect" they find the chip at     *)
(* rest, and the second one is obeyed.                                      *)
LEMMA WrenStep ==
    ASSUME ProtectInv, Wren
    PROVE  ProtectInv'
  <1>1. PlaceInv /\ JobInv /\ faults \in Nat /\ pc \in Operations /\ step = "wren"
    BY DEF Wren, ProtectInv, PlaceInv
  <1>2. pc \notin {"idle", "done", "init", "readid", "verify", "section"}
    BY <1>1 DEF Operations
  <1>3. CASE SendFails([op |-> "wren"]) /\ Failed
    BY <1>1, <1>2, <1>3, FailedFacts, FailureCounted, FailedStep
  <1>4. CASE Send([op |-> "wren"]) /\ step' = "cmd" /\ UNCHANGED <<pc, at, job>>
    <2>1. PlaceInv' /\ JobInv'
      BY <1>1, <1>4 DEF PlaceInv, JobInv, Send
    <2>2. Rest => Rest' /\ wel'
      BY <1>4 DEF Rest, Send, Receive
    <2>3. QuietInv => QuietInv'
      BY <1>1, <1>2, <1>4, <2>2 DEF QuietInv
    <2> QED
      BY <1>4, <2>1, <2>3 DEF ProtectInv, Send
  <1> QED
    BY <1>3, <1>4 DEF Wren

(* The second of them.                                                      *)
LEMMA CmdStep ==
    ASSUME ProtectInv, Cmd
    PROVE  ProtectInv'
  <1>1. PlaceInv /\ JobInv /\ faults \in Nat /\ pc \in Operations /\ step = "cmd"
    BY DEF Cmd, ProtectInv, PlaceInv
  <1>2. pc \notin {"idle", "done", "init", "readid", "verify", "section"}
    BY <1>1 DEF Operations
  <1>3. CASE SendFails(Command) /\ Failed
    BY <1>1, <1>2, <1>3, FailedFacts, FailureCounted, FailedStep
  <1>4. CASE Send(Command) /\ step' = "wait" /\ UNCHANGED <<pc, at, job>>
    <2>1. PlaceInv' /\ JobInv'
      BY <1>1, <1>4 DEF PlaceInv, JobInv, Send
    <2>2. pc = "protect" => Command = EnableProtect
      BY DEF Command
    <2>3. pc = "protect" /\ Rest /\ wel => Restored'
      BY <1>4, <2>2, CommandFacts DEF Rest, Restored, Send, Receive
    <2>4. QuietInv => QuietInv'
      BY <1>1, <1>2, <1>4, <2>3 DEF QuietInv
    <2> QED
      BY <1>4, <2>1, <2>4 DEF ProtectInv, Send
  <1> QED
    BY <1>3, <1>4 DEF Cmd

(* The wait that looks at the chip leaves it at rest; the status register   *)
(* write is not waited for.                                                 *)
LEMMA WaitStep ==
    ASSUME ProtectInv, WaitBusyClear
    PROVE  ProtectInv'
  <1>1. PlaceInv /\ JobInv /\ faults \in Nat /\ pc \in Operations /\ step = "wait"
    BY DEF WaitBusyClear, ProtectInv, PlaceInv
  <1>2. pc \notin {"idle", "done", "init", "readid", "verify", "section"}
    BY <1>1 DEF Operations
  <1>3. CASE Fails /\ Failed
    BY <1>1, <1>2, <1>3, FailedFacts, FailureCounted, FailedStep
  <1>4. CASE Fails /\ Succeeded
    <2>1. pc' \in Places
      BY <1>1, <1>4, SucceededFacts DEF Places, Operations
    <2> QED
      BY <1>1, <1>2, <1>4, <2>1, SucceededFacts, FailureCounted, FailedStep
  <1>5. CASE /\ pc \in {"unprotect", "protect"} \/ busy = Nothing
             /\ UNCHANGED <<chip, faults>>
             /\ Succeeded
    <2>1. PlaceInv' /\ JobInv'
      BY <1>1, <1>2, <1>5, SucceededFacts DEF PlaceInv, JobInv, Places, Operations
    <2>2. pc = "protect" /\ QuietInv => QuietInv'
      <3>1. pc = "protect" => pc' = "done"
        BY <1>1, <1>5, SucceededFacts
      <3> QED
        BY <1>1, <1>5, <3>1 DEF QuietInv, Restored, Rest, chip
    <2>3. pc = "unprotect" => QuietInv'
      <3>1. pc = "unprotect" => \/ pc' = "chip"
                                \/ pc' = "section" /\ ~job.all /\ at' = Begin /\ job' = job
        BY <1>1, <1>5, SucceededFacts
      <3>2. ~job.all /\ at' = Begin /\ job' = job => NothingYet'
        BY DEF NothingYet, Begin
      <3> QED
        BY <3>1, <3>2 DEF QuietInv
    <2>4. pc \in {"chip", "sector", "page"} => QuietInv'
      <3>1. pc \in {"chip", "sector", "page"} => Rest'
        BY <1>5 DEF Rest, chip
      <3>2. pc \in {"chip", "sector", "page"} =>
              pc' \in {"section", "sector", "page", "verify"}
        BY <1>1, <1>5, SucceededFacts
      <3> QED
        BY <3>1, <3>2 DEF QuietInv
    <2> QED
      BY <1>1, <1>5, <2>1, <2>2, <2>3, <2>4 DEF ProtectInv, Operations
  <1> QED
    BY <1>3, <1>4, <1>5 DEF WaitBusyClear

(* From section to section; at the end the chip is at rest, because at      *)
(* least one section was written.                                           *)
LEMMA BySectionStep ==
    ASSUME ProtectInv, BySection
    PROVE  ProtectInv'
  <1>1. /\ PlaceInv /\ JobInv /\ pc = "section" /\ UNCHANGED <<busy, protect, faults>>
        /\ at.sec \in Nat
    BY DEF BySection, ProtectInv, PlaceInv, chip
  <1>2. CASE at.sec > Len(job.sections) /\ Close("ok")
    <2>1. pc' = "protect" /\ step' = "wren" /\ UNCHANGED <<at, job>>
      BY <1>2 DEF Close
    <2>2. PlaceInv' /\ JobInv'
      BY <1>1, <2>1 DEF PlaceInv, JobInv, Places, Operations
    <2>3. ~NothingYet
      <3>1. CASE job.all
        BY <3>1 DEF NothingYet
      <3>2. CASE /\ job.sections \in Seq(Range(job.sections)) /\ ~job.all
                 /\ Written(job.sections, job.all)
        <4>1. PICK i \in 1..Len(job.sections) : HasData(job.sections[i])
          BY <3>2 DEF Written
        <4>2. Len(job.sections) \in Nat
          BY <3>2
        <4>3. i < at.sec
          BY <1>1, <1>2, <4>1, <4>2
        <4> QED
          BY <4>1, <4>3 DEF NothingYet
      <3> QED
        BY <1>1, <3>1, <3>2 DEF JobInv
    <2>4. QuietInv => QuietInv'
      BY <1>1, <2>1, <2>3 DEF QuietInv, Rest
    <2> QED
      BY <1>1, <2>2, <2>4 DEF ProtectInv
  <1>3. CASE ~HasData(Section) /\ GoTo("section", [sec |-> at.sec + 1, pos |-> 0], Retries)
    <2>1. pc' = "section" /\ step' = "wren" /\ at'.sec = at.sec + 1 /\ job' = job
      BY <1>3 DEF GoTo
    <2>2. PlaceInv' /\ JobInv'
      BY <1>1, <2>1 DEF PlaceInv, JobInv
    <2>3. NothingYet => NothingYet'
      <3>1. SUFFICES ASSUME NothingYet, NEW i \in 1..Len(job.sections), i < at.sec + 1
                     PROVE  ~HasData(job.sections[i])
        BY <2>1 DEF NothingYet
      <3>2. CASE i < at.sec
        BY <3>1, <3>2 DEF NothingYet
      <3>3. CASE ~(i < at.sec)
        <4>1. i = at.sec
          BY <1>1, <3>1, <3>3
        <4> QED
          BY <1>3, <4>1 DEF Section
      <3> QED
        BY <3>2, <3>3
    <2>4. QuietInv => QuietInv'
      BY <1>1, <2>1, <2>3 DEF QuietInv, Rest
    <2> QED
      BY <1>1, <2>2, <2>4 DEF ProtectInv
  <1>4. CASE \/ GoTo("sector", [at EXCEPT !.pos = 0], Retries)
             \/ WriteSection
    <2>1. pc' \in {"sector", "page"} /\ step' = "wren" /\ at'.sec = at.sec /\ job' = job
      <3>1. \A pos : [at EXCEPT !.pos = pos].sec = at.sec
        OBVIOUS
      <3> QED
        BY <1>4, <3>1 DEF GoTo, WriteSection
    <2>2. PlaceInv' /\ JobInv'
      BY <1>1, <2>1 DEF PlaceInv, JobInv, Places, Operations
    <2>3. QuietInv'
      BY <2>1 DEF QuietInv
    <2> QED
      BY <2>2, <2>3 DEF ProtectInv
  <1> QED
    BY <1>2, <1>3, <1>4 DEF BySection

(* A verification reads the chip only.                                      *)
LEMMA VerifyStep ==
    ASSUME ProtectInv, Verify
    PROVE  ProtectInv'
  <1>1. PlaceInv /\ JobInv /\ faults \in Nat /\ pc = "verify" /\ at.sec \in Nat
    BY DEF Verify, ProtectInv, PlaceInv
  <1>2. /\ job' = job /\ step' = "wren" /\ at'.sec \in Nat
        /\ pc' \in {"section", "verify", "chip", "protect"}
    BY <1>1, GiveUpFacts DEF Verify, GoTo
  <1>3. PlaceInv /\ pc' \in Places
    BY <1>1, <1>2 DEF Places, Operations
  <1>4. CASE Fails
    BY <1>1, <1>2, <1>3, <1>4, FailedStep, FailureCounted
  <1>5. CASE UNCHANGED <<chip, faults>>
    <2>1. PlaceInv' /\ JobInv'
      BY <1>1, <1>2, <1>3, <1>5 DEF PlaceInv, JobInv
    <2>2. QuietInv => QuietInv'
      BY <1>1, <1>2, <1>5 DEF QuietInv, Rest, chip
    <2> QED
      BY <1>5, <2>1, <2>2 DEF ProtectInv
  <1> QED
    BY <1>4, <1>5 DEF Verify

-----------------------------------------------------------------------------
(* The protection is back when an update has ended without a failed         *)
(* transfer, whatever it wrote and however it ended.                        *)
THEOREM ProtectRestoredCorrect ==
    NoHollowFile => (Spec => []ProtectRestored)
  <1> SUFFICES ASSUME NoHollowFile PROVE Spec => []ProtectRestored
    OBVIOUS
  <1>1. Init => ProtectInv
    BY CommandFacts
    DEF Init, Begin, ProtectInv, PlaceInv, JobInv, QuietInv, Restored, Rest, Places
  <1>2. ProtectInv /\ [Next]_vars => ProtectInv'
    <2> SUFFICES ASSUME ProtectInv, [Next]_vars PROVE ProtectInv'
      OBVIOUS
    <2>1. CASE UNCHANGED vars
      BY <2>1
      DEF vars, ProtectInv, PlaceInv, JobInv, QuietInv, Restored, Rest, NothingYet
    <2>2. CASE Driver
      BY <2>2, OpeningSteps, WrenStep, CmdStep, WaitStep, BySectionStep, VerifyStep DEF Driver
    <2> QED
      BY <2>1, <2>2, AskStep, ReturnStep, ChipDoneStep DEF Next
  <1>3. ProtectInv => ProtectRestored
    BY CommandFacts DEF ProtectInv, QuietInv, Restored, ProtectRestored
  <1> QED
    BY <1>1, <1>2, <1>3, PTL DEF Spec
=============================================================================
