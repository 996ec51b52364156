--------------------------- MODULE SsdTouchProofs ---------------------------
(***************************************************************************)
(* TLAPS proofs about SsdTouch, for every number of slots, every set of    *)
(* reports, every answer of the chip and every number of bus faults.       *)
(***************************************************************************)
EXTENDS SsdTouch, TLAPS

(* The chip's latch is empty after a reset or a restart.                    *)
LEMMA EmptyFrame == <<>> \in Seq(Record)
  OBVIOUS

LEMMA FrameLen == ASSUME NEW f \in Seq(Record) PROVE Len(f) \in Nat
  OBVIOUS

(* The constants of the geometry are numbers.                               *)
LEMMA GeometryConstants ==
    /\ REG_X_RESOLUTION \in Nat /\ REG_Y_RESOLUTION \in Nat
    /\ DEFAULT_X_RES \in Nat /\ DEFAULT_Y_RES \in Nat
  BY DEF REG_X_RESOLUTION, REG_Y_RESOLUTION, DEFAULT_X_RES, DEFAULT_Y_RES

(* The slot a record lands in always exists: either the record names it, or *)
(* it is the one the input core had staged.                                 *)
LEMMA SlotAtType ==
    ASSUME curslot \in Slots, NEW f, NEW i
    PROVE  SlotAt(f, i) \in Slots
  BY DEF SlotAt

(* The staged slot after a frame exists too: INPUT_MT_DROP_UNUSED selects   *)
(* only slots that were active.                                             *)
LEMMA SlotAfterType ==
    ASSUME curslot \in Slots, active \subseteq Slots, NEW f
    PROVE  SlotAfter(f) \in Slots
  BY SlotAtType DEF SlotAfter

(* Every branch poll() can take after the Status&Length word is a step of   *)
(* the driver.                                                              *)
LEMMA BranchType ==
    ASSUME NEW b, NEW n
    PROVE  Branch(b, n) \in {"idle", "touchmode", "aux", "points", "ack"}
  BY DEF Branch

(* TypeOK alone does not bound the retry counter: that needs the fact that  *)
(* read_snl() is only ever about to transfer with a try left.               *)
RetryLeft == pc \in {"snl", "snlalt"} => retry < SNL_TRIES

TypeInv == TypeOK /\ RetryLeft

(* Type correctness of the driver, the input core's slots and the chip,     *)
(* with a retry loop that never counts past its three tries.                *)
THEOREM TypeCorrect == Spec => []TypeOK
  <1> USE DEF Steps, DsSteps, Bits
  <1>1. Init => TypeInv
    <2> SUFFICES ASSUME Init PROVE TypeInv
      OBVIOUS
    <2>1. 0 \in 0 .. MaxPoint - 1 /\ 0 \in 0 .. SNL_TRIES /\ -1 \in Int
      BY TouchAssumption DEF SNL_TRIES
    <2>2. MaxFaults \in 0 .. MaxFaults
      BY TouchAssumption
    <2> QED
      BY <2>1, <2>2, EmptyFrame DEF Init, TypeInv, TypeOK, RetryLeft, Slots
  <1>2. TypeInv /\ [Next]_vars => TypeInv'
    <2> SUFFICES ASSUME TypeInv, [Next]_vars PROVE TypeInv'
      OBVIOUS
    <2> USE TouchAssumption DEF TypeInv, TypeOK, RetryLeft, geomVars, absVars, inputVars, chipVars,
            drvVars, Fail, ErrorReturn, Fault, NoFault
    <2>1. CASE ProbeStart
      BY <2>1 DEF ProbeStart
    <2>2. CASE HwReset
      BY <2>2, EmptyFrame DEF HwReset
    <2>3. CASE WaitReady
      BY <2>3 DEF WaitReady
    <2>4. CASE DsHandshake
      <3>1. pc' \in Steps /\ ~(pc' \in {"snl", "snlalt"})
        BY <2>4 DEF DsHandshake, DsNext
      <3>2. int' \in BOOLEAN /\ mode' \in {"resetting", "DS", "booting", "TMC"}
        BY <2>4 DEF DsHandshake, DsEffect
      <3>3. flags' = flags /\ frame' = frame
        BY <2>4 DEF DsHandshake, DsEffect
      <3>4. faults' \in 0 .. MaxFaults
        BY <2>4 DEF DsHandshake
      <3> QED
        BY <2>4, <3>1, <3>2, <3>3, <3>4 DEF DsHandshake
    <2>5. CASE WaitLive
      BY <2>5 DEF WaitLive
    <2>6. CASE TouchMode
      BY <2>6 DEF TouchMode
    <2>7. CASE ReadX
      <3>1. maxX' \in Nat
        BY <2>7, GeometryConstants DEF ReadX
      <3>2. pc' \in Steps /\ ~(pc' \in {"snl", "snlalt"}) /\ faults' \in 0 .. MaxFaults
        BY <2>7 DEF ReadX
      <3> QED
        BY <2>7, <3>1, <3>2 DEF ReadX
    <2>8. CASE ReadY
      <3>1. maxY' \in Nat
        BY <2>8, GeometryConstants DEF ReadY
      <3>2. pc' \in Steps /\ ~(pc' \in {"snl", "snlalt"}) /\ faults' \in 0 .. MaxFaults
        BY <2>8 DEF ReadY
      <3> QED
        BY <2>8, <3>1, <3>2 DEF ReadY
    <2>9. CASE ReadPointNum
      BY <2>9, GeometryConstants DEF ReadPointNum, ConfigDone
    <2>10. CASE Register
      BY <2>10, GeometryConstants DEF Register, AbsMax
    <2>11. CASE PollStart
      BY <2>11 DEF PollStart, SNL_TRIES
    <2>12. CASE ReadSnl
      <3>1. pc' \in Steps
        BY <2>12, BranchType DEF ReadSnl, ReadLatched, Retry
      <3>2. ctx' \in {"probe", "aux", "boot"} /\ info' \subseteq Bits
        BY <2>12 DEF ReadSnl, ReadLatched
      <3>3. retry' \in 0 .. SNL_TRIES
        BY <2>12 DEF ReadSnl, ReadLatched, Retry, SNL_TRIES
      <3>6. RetryLeft'
        BY <2>12, BranchType DEF ReadSnl, ReadLatched, Retry
      <3>4. infoLen' \in Nat
        BY <2>12, FrameLen DEF ReadSnl, ReadLatched
      <3>5. faults' \in 0 .. MaxFaults
        BY <2>12 DEF ReadSnl, ReadLatched
      <3> QED
        BY <2>12, <3>1, <3>2, <3>3, <3>4, <3>5, <3>6 DEF ReadSnl
    <2>13. CASE ReadSnlAlt
      <3>1. pc' \in Steps
        BY <2>13, BranchType DEF ReadSnlAlt, ReadLatched, Retry
      <3>2. ctx' \in {"probe", "aux", "boot"} /\ info' \subseteq Bits
        BY <2>13 DEF ReadSnlAlt, ReadLatched
      <3>3. retry' \in 0 .. SNL_TRIES
        BY <2>13 DEF ReadSnlAlt, ReadLatched, Retry, SNL_TRIES
      <3>6. RetryLeft'
        BY <2>13, BranchType DEF ReadSnlAlt, ReadLatched, Retry
      <3>4. infoLen' \in Nat
        BY <2>13, FrameLen DEF ReadSnlAlt, ReadLatched
      <3>5. faults' \in 0 .. MaxFaults
        BY <2>13 DEF ReadSnlAlt, ReadLatched
      <3> QED
        BY <2>13, <3>1, <3>2, <3>3, <3>4, <3>5, <3>6 DEF ReadSnlAlt
    <2>14. CASE ReadAux
      BY <2>14 DEF ReadAux
    <2>15. CASE ReadPoints
      BY <2>15, SlotAfterType DEF ReadPoints, ReportPoints, ActiveAfter
    <2>16. CASE Ack
      <3>1. flags' \subseteq Bits /\ mode' = mode /\ int' = int /\ frame' = frame
        BY <2>16 DEF Ack, AckEffect
      <3>2. pc' = "idle" /\ faults' \in 0 .. MaxFaults
        BY <2>16 DEF Ack
      <3> QED
        BY <2>16, <3>1, <3>2 DEF Ack
    <2>17. CASE Chip
      <3>1. CASE ChipReady
        BY <3>1 DEF ChipReady
      <3>2. CASE ChipLive
        BY <3>2 DEF ChipLive
      <3>3. CASE ChipLatch
        BY <3>3 DEF ChipLatch
      <3>4. CASE ChipAux
        BY <3>4 DEF ChipAux
      <3>5. CASE ChipRestart
        BY <3>5, EmptyFrame DEF ChipRestart
      <3> QED
        BY <2>17, <3>1, <3>2, <3>3, <3>4, <3>5 DEF Chip
    <2>18. CASE UNCHANGED vars
      BY <2>18 DEF vars
    <2> QED
      BY <2>1, <2>2, <2>3, <2>4, <2>5, <2>6, <2>7, <2>8, <2>9, <2>10, <2>11,
         <2>12, <2>13, <2>14, <2>15, <2>16, <2>17, <2>18 DEF Next, Driver
  <1> QED
    BY <1>1, <1>2, PTL DEF Spec, TypeInv

(* The geometry that is about to be published has been checked: the last    *)
(* transfer of tmc_config() replaced it if it was implausible.              *)
GeometryChecked == pc = "register" => Plausible(maxX, maxY)

GeometryInv == GeometryChecked /\ AbsRangeUsable

(* Every axis userspace ever sees is usable, whatever the chip answered,    *)
(* whichever transfer failed and whatever the device tree says:             *)
(* ts->max_x and ts->max_y may hold garbage at any other time.              *)
THEOREM AbsRangeCorrect == Spec => []AbsRangeUsable
  <1>1. Init => GeometryInv
    BY DEF Init, GeometryInv, GeometryChecked, AbsRangeUsable, Registered
  <1>2. TypeOK /\ GeometryInv /\ [Next]_vars => GeometryInv'
    <2> SUFFICES ASSUME TypeOK, GeometryInv, [Next]_vars PROVE GeometryInv'
      OBVIOUS
    <2> USE DEF GeometryInv, GeometryChecked, AbsRangeUsable, Registered
    <2>1. CASE ReadPointNum
      <3>1. Plausible(maxX', maxY')
        BY <2>1 DEF ReadPointNum, Plausible, geomVars, DEFAULT_X_RES,
                    DEFAULT_Y_RES, MAX_COORD
      <3> QED
        BY <2>1, <3>1 DEF ReadPointNum, absVars
    <2>2. CASE Register
      <3>1. 0 <= AbsMax(maxX, DEFAULT_X_RES) /\ AbsMax(maxX, DEFAULT_X_RES) < MAX_COORD
        BY <2>2 DEF Register, AbsMax, Plausible, TypeOK, DEFAULT_X_RES, MAX_COORD
      <3>2. 0 <= AbsMax(maxY, DEFAULT_Y_RES) /\ AbsMax(maxY, DEFAULT_Y_RES) < MAX_COORD
        BY <2>2 DEF Register, AbsMax, Plausible, TypeOK, DEFAULT_Y_RES, MAX_COORD
      <3> QED
        BY <2>2, <3>1, <3>2 DEF Register, absVars
    <2>3. CASE pc' # "register" /\ UNCHANGED absVars
      BY <2>3 DEF absVars
    <2>4. CASE UNCHANGED <<pc, geomVars, absVars>>
      BY <2>4 DEF absVars, geomVars
    <2>5. [Next]_vars => \/ ReadPointNum \/ Register
                         \/ pc' # "register" /\ UNCHANGED absVars
                         \/ UNCHANGED <<pc, geomVars, absVars>>
      <3> USE DEF Fail, ErrorReturn
      <3>1. ProbeStart \/ HwReset \/ WaitReady \/ WaitLive \/ TouchMode \/ PollStart
            => pc' # "register" /\ UNCHANGED absVars
        BY DEF TypeOK, ProbeStart, HwReset, WaitReady, WaitLive, TouchMode, PollStart
      <3>2. DsHandshake => pc' # "register" /\ UNCHANGED absVars
        BY DEF TypeOK, DsHandshake, DsNext, DsSteps
      <3>3. ReadX \/ ReadY => pc' # "register" /\ UNCHANGED absVars
        BY DEF TypeOK, ReadX, ReadY
      <3>4. ReadSnl \/ ReadSnlAlt => pc' # "register" /\ UNCHANGED absVars
        BY BranchType DEF ReadSnl, ReadSnlAlt, ReadLatched, Retry
      <3>5. ReadAux \/ ReadPoints \/ Ack => pc' # "register" /\ UNCHANGED absVars
        BY DEF ReadAux, ReadPoints, Ack
      <3>6. Chip => UNCHANGED <<pc, geomVars, absVars>>
        BY DEF Chip, ChipReady, ChipLive, ChipLatch, ChipAux, ChipRestart, drvVars
      <3>7. UNCHANGED vars => UNCHANGED <<pc, geomVars, absVars>>
        BY DEF vars, geomVars, absVars
      <3> QED
        BY <3>1, <3>2, <3>3, <3>4, <3>5, <3>6, <3>7 DEF Next, Driver
    <2> QED
      BY <2>1, <2>2, <2>3, <2>4, <2>5
  <1> QED
    BY <1>1, <1>2, TypeCorrect, PTL DEF Spec, GeometryInv

(* In a report whose finger ids all have a slot of their own, every finger   *)
(* record lands in the slot it names ...                                    *)
LEMMA OwnSlot ==
    ASSUME NEW f \in Seq(Record), Regular(f), NEW i \in Fingers(f)
    PROVE  SlotAt(f, i) = f[i].id
  <1> DEFINE sel  == {j \in Fingers(f) : j <= i /\ f[j].id \in Slots}
             last == {j \in sel : \A k \in sel : k <= j}
  <1>1. Fingers(f) \subseteq Nat
    BY DEF Fingers
  <1>2. i \in sel
    BY <1>1 DEF Regular
  <1>3. last = {i}
    <2>1. i \in last
      BY <1>2
    <2>2. \A j \in last : j = i
      BY <1>1, <1>2
    <2> QED
      BY <2>1, <2>2
  <1>4. (CHOOSE j \in last : TRUE) = i
    BY <1>3
  <1> QED
    BY <1>3, <1>4 DEF SlotAt

(* ... so the slots down after the frame are the ids of the records that are *)
(* down.                                                                    *)
LEMMA ActiveIsDown ==
    ASSUME NEW f \in Seq(Record), Regular(f)
    PROVE  ActiveAfter(f) = Down(f)
  <1>1. Fingers(f) \subseteq Nat
    BY DEF Fingers
  <1>2. \A s : Written(f, s) = {i \in Fingers(f) : f[i].id = s}
    BY OwnSlot DEF Written
  <1>3. \A s : \A i, j \in Written(f, s) : i = j
    BY <1>2 DEF Regular
  <1>4. ASSUME NEW s \in ActiveAfter(f) PROVE s \in Down(f)
    BY <1>2, <1>4 DEF ActiveAfter, Down
  <1>5. ASSUME NEW s \in Down(f) PROVE s \in ActiveAfter(f)
    <2>1. PICK i \in Fingers(f) : f[i].down /\ f[i].id = s
      BY <1>5 DEF Down
    <2>2. s \in Slots /\ i \in Written(f, s)
      BY <2>1, <1>2 DEF Regular
    <2>3. \A j \in Written(f, s) : j <= i
      BY <2>2, <1>1, <1>2, <1>3
    <2> QED
      BY <2>1, <2>2, <2>3 DEF ActiveAfter
  <1> QED
    BY <1>4, <1>5

(* A packet of zeroes puts no contact down.                                 *)
LEMMA NothingDown ==
    ASSUME NEW f, \A i \in DOMAIN f : ~f[i].down
    PROVE  ActiveAfter(f) = {}
  BY DEF ActiveAfter, Written, Fingers

(* The contacts userspace sees change only to the fingers of the report a    *)
(* live MCU has latched, for every set of regular reports and every          *)
(* interleaving of the chip with the transfers of poll().                   *)
THEOREM ContactsCorrect == Spec => ContactsFollowReport
  <1> DEFINE A == active' # active /\ Regular(frame)
                    => mode = "TMC" /\ active' = Down(frame)
  <1>1. TypeOK /\ [Next]_vars => [A]_vars
    <2> SUFFICES ASSUME TypeOK, Next, active' # active, Regular(frame)
                 PROVE  mode = "TMC" /\ active' = Down(frame)
      BY DEF vars
    <2>1. ReadPoints
      BY DEF Next, Driver, Chip, inputVars, ProbeStart, HwReset, WaitReady,
             DsHandshake, WaitLive, TouchMode, ReadX, ReadY, ReadPointNum,
             Register, PollStart, ReadSnl, ReadSnlAlt, ReadAux, Ack, ChipReady,
             ChipLive, ChipLatch, ChipAux, ChipRestart
    <2>2. ChecksumOk /\ active' = ActiveAfter(Packet)
      BY <2>1 DEF ReadPoints, ReportPoints, inputVars
    <2>3. mode = "TMC" /\ frame \in Seq(Record) /\ PacketLen \in Nat
      BY <2>2, TouchAssumption DEF ChecksumOk, TypeOK, PacketLen
    <2>4. CASE frame = <<>>
      <3>1. \A i \in DOMAIN Packet : ~Packet[i].down
        BY <2>3, <2>4 DEF Packet
      <3>2. Down(frame) = {}
        BY <2>4 DEF Down, Fingers
      <3> QED
        BY <2>2, <2>3, <3>1, <3>2, NothingDown
    <2>5. CASE frame # <<>>
      <3>1. Len(frame) = PacketLen
        BY <2>2, <2>5 DEF ChecksumOk
      <3>2. Packet = frame
        BY <2>3, <3>1 DEF Packet
      <3> QED
        BY <2>2, <2>3, <3>2, ActiveIsDown
    <2> QED
      BY <2>4, <2>5
  <1> QED
    BY <1>1, TypeCorrect, PTL DEF Spec, ContactsFollowReport

=============================================================================
