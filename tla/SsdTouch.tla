------------------------------ MODULE SsdTouch ------------------------------
(***************************************************************************)
(* The polled SSD2092 touchscreen driver (drivers/input/touchscreen/       *)
(* ssd2092.c, added by patches/v6.6/input/0002) together with the chip it  *)
(* talks to over I2C.                                                      *)
(*                                                                         *)
(* One driver step is one I2C transfer, one wait for INT, or one call into *)
(* the input core; the chip takes its own steps in between (it becomes     *)
(* ready, boots its touch MCU, latches a report, raises AUX, restarts).    *)
(* The chip is external: it is modelled from what the driver's code and    *)
(* comments rely on (DS bootloader with a stalled MCU, registers that echo *)
(* their own address until the MCU is live, a report latched until acked). *)
(***************************************************************************)
EXTENDS Integers, Sequences, FiniteSets

CONSTANTS
    MaxPoint,     \* SSD2092_MAX_POINT: number of MT slots and of records kept
    AxisLast,     \* SSD2092_ID_AXIS_LAST: last record id that is a finger
    Frames,       \* the reports the chip may latch: sequences of records
    XResolution,  \* values a live TMC may return for the X resolution word
    YResolution,  \* values a live TMC may return for the Y resolution word
    DtHasSize,    \* the device tree gives touchscreen-size-x/-y
    MaxFaults     \* bound: transfers that fail or are corrupted in a behaviour

Slots == 0 .. MaxPoint - 1

Record == [id : Nat, down : BOOLEAN]

ASSUME TouchAssumption ==
    /\ MaxPoint \in Nat \ {0}
    /\ AxisLast \in Nat
    /\ Frames \subseteq Seq(Record)
    /\ XResolution \subseteq Nat
    /\ YResolution \subseteq Nat
    /\ DtHasSize \in BOOLEAN
    /\ MaxFaults \in Nat

REG_X_RESOLUTION == 86      \* 0x0056, what the stalled chip echoes for X
REG_Y_RESOLUTION == 87      \* 0x0057, what the stalled chip echoes for Y
DEFAULT_X_RES == 1080
DEFAULT_Y_RES == 2160
MAX_COORD == 4095           \* 12-bit coordinate fields
SNL_TRIES == 3

VARIABLES
    pc,        \* the driver's next step
    ctx,       \* who called hw_reset, ds_handshake, tmc_config: probe, aux, boot
    retry,     \* read_snl: tries used up
    info,      \* status bits of the Status&Length word this poll has read
    infoLen,   \* its length, in records
    maxX,      \* ts->max_x
    maxY,      \* ts->max_y
    absX,      \* ABS_MT_POSITION_X maximum given to the input core (-1: none)
    absY,      \* ABS_MT_POSITION_Y maximum given to the input core (-1: none)
    active,    \* input core: slots whose contact is down
    curslot,   \* input core: the staged ABS_MT_SLOT
    mode,      \* chip: resetting, DS (stalled), booting, TMC (live)
    int,       \* chip: INT asserted
    flags,     \* chip: status bits latched in Status&Length
    frame,     \* chip: the point records latched
    faults     \* transfers that may still fail

drvVars   == <<pc, ctx, retry, info, infoLen>>
geomVars  == <<maxX, maxY>>
absVars   == <<absX, absY>>
inputVars == <<active, curslot>>
chipVars  == <<mode, int, flags, frame>>
vars == <<pc, ctx, retry, info, infoLen, maxX, maxY, absX, absY,
          active, curslot, mode, int, flags, frame, faults>>

Bits == {"BOOT", "AUX", "PTS"}

DsSteps == {"bootst", "version", "eflash1", "eflash2", "dsclear", "unstall"}

Steps == {"probe", "reset", "waitready",
          "bootst", "version", "eflash1", "eflash2", "dsclear", "unstall", "waitlive",
          "touchmode", "xres", "yres", "pointnum", "register", "failed",
          "idle", "snl", "snlalt", "aux", "points", "ack"}

\* Probe has returned 0: the input device exists and the poller runs.
Registered == absX # -1

-----------------------------------------------------------------------------
(* The I2C bus: a transfer may fail, or be corrupted, MaxFaults times.      *)

Fault   == faults > 0 /\ faults' = faults - 1
NoFault == faults' = faults

(* Where a failed reset, handshake or config returns to, by caller: probe    *)
(* gives up, reinit just returns to the poller, the boot path goes on to ack.*)
ErrorReturn ==
    CASE ctx = "probe" -> "failed" [] ctx = "aux" -> "idle" [] ctx = "boot" -> "ack"
ConfigDoneNoAck == IF ctx = "probe" THEN "register" ELSE "idle"      \* mutant
ConfigDone ==
    CASE ctx = "probe" -> "register" [] ctx = "aux" -> "idle" [] ctx = "boot" -> "ack"

Fail == pc' = ErrorReturn

-----------------------------------------------------------------------------
(* Reset and DS handshake                                                   *)

(* The start of probe(): memory and the two GPIOs, or an error.             *)
ProbeStart ==
    /\ pc = "probe"
    /\ pc' \in {"reset", "failed"}
    /\ UNCHANGED <<ctx, retry, info, infoLen, geomVars, absVars, inputVars,
                   chipVars, faults>>

(* The reset pulse: the chip forgets its report and starts its bootloader.  *)
HwReset ==
    /\ pc = "reset"
    /\ mode' = "resetting" /\ int' = FALSE /\ flags' = {} /\ frame' = <<>>
    /\ pc' = "waitready"
    /\ UNCHANGED <<ctx, retry, info, infoLen, geomVars, absVars, inputVars,
                   faults>>

(* wait_int() after the pulse: a timeout aborts the whole sequence.         *)
WaitReady ==
    /\ pc = "waitready"
    /\ \/ int  /\ pc' = "bootst"
       \/ ~int /\ Fail
    /\ UNCHANGED <<ctx, retry, info, infoLen, geomVars, absVars, inputVars,
                   chipVars, faults>>

DsNext ==
    CASE pc = "bootst"  -> "version"
      [] pc = "version" -> "eflash1"
      [] pc = "eflash1" -> "eflash2"
      [] pc = "eflash2" -> "dsclear"
      [] pc = "dsclear" -> "unstall"
      [] pc = "unstall" -> "waitlive"

(* What a DS transfer does to the chip: clear INT, release the stalled MCU. *)
DsEffect ==
    /\ int' = (int /\ pc # "dsclear")
    /\ mode' = IF pc = "unstall" THEN "booting" ELSE mode
    /\ UNCHANGED <<flags, frame>>

(* One transfer of ds_handshake(). A failed write may still have reached    *)
(* the chip.                                                                *)
DsHandshake ==
    /\ pc \in DsSteps
    /\ \/ NoFault /\ pc' = DsNext /\ DsEffect
       \/ Fault   /\ Fail             /\ (DsEffect \/ UNCHANGED chipVars)
    /\ UNCHANGED <<ctx, retry, info, infoLen, geomVars, absVars, inputVars>>

(* wait_int() after the unstall: a timeout is only a warning.               *)
WaitLive ==
    /\ pc = "waitlive"
    /\ pc' = "touchmode"
    /\ UNCHANGED <<ctx, retry, info, infoLen, geomVars, absVars, inputVars,
                   chipVars, faults>>

-----------------------------------------------------------------------------
(* tmc_config(): point mode, then the geometry, unchecked until the end     *)

TouchMode ==
    /\ pc = "touchmode"
    /\ \/ NoFault /\ pc' = "xres"
       \/ Fault   /\ Fail
    /\ UNCHANGED <<ctx, retry, info, infoLen, geomVars, absVars, inputVars,
                   chipVars>>

ReadX ==
    /\ pc = "xres"
    /\ \/ /\ NoFault
          /\ maxX' \in IF mode = "TMC" THEN XResolution ELSE {REG_X_RESOLUTION}
          /\ pc' = "yres"
       \/ Fault /\ Fail /\ UNCHANGED maxX
    /\ UNCHANGED <<ctx, retry, info, infoLen, maxY, absVars, inputVars, chipVars>>

ReadY ==
    /\ pc = "yres"
    /\ \/ /\ NoFault
          /\ maxY' \in IF mode = "TMC" THEN YResolution ELSE {REG_Y_RESOLUTION}
          /\ pc' = "pointnum"
       \/ Fault /\ Fail /\ UNCHANGED maxY
    /\ UNCHANGED <<ctx, retry, info, infoLen, maxX, absVars, inputVars, chipVars>>

PlausibleX(x, y) == 0 < x /\ x <= MAX_COORD                         \* mutant
Plausible(x, y) == 0 < x /\ x <= MAX_COORD /\ 0 < y /\ y <= MAX_COORD

(* The point-number read may fail without consequence; both dimensions fall *)
(* back to the default if either is implausible.                            *)
ReadPointNum ==
    /\ pc = "pointnum"
    /\ NoFault \/ Fault
    /\ IF Plausible(maxX, maxY)
       THEN UNCHANGED geomVars
       ELSE maxX' = DEFAULT_X_RES /\ maxY' = DEFAULT_Y_RES
    /\ pc' = ConfigDone
    /\ UNCHANGED <<ctx, retry, info, infoLen, absVars, inputVars, chipVars>>

-----------------------------------------------------------------------------
(* The end of probe(): the input device gets its axes once and for all.     *)

(* touchscreen_parse_properties(): sizes in the device tree win.            *)
AbsMax(dflt, dt) == IF DtHasSize THEN dt - 1 ELSE dflt - 1

Register ==
    /\ pc = "register"
    /\ \/ /\ absX' = AbsMax(maxX, DEFAULT_X_RES)
          /\ absY' = AbsMax(maxY, DEFAULT_Y_RES)
          /\ pc' = "idle"
       \/ pc' = "failed" /\ UNCHANGED absVars     \* allocation failed
    /\ UNCHANGED <<ctx, retry, info, infoLen, geomVars, inputVars, chipVars,
                   faults>>

-----------------------------------------------------------------------------
(* poll(): the Status&Length word                                           *)

PollStart ==
    /\ pc = "idle"
    /\ pc' = "snl" /\ retry' = 0 /\ info' = {} /\ infoLen' = 0
    /\ UNCHANGED <<ctx, geomVars, absVars, inputVars, chipVars, faults>>

(* A word that passed its checksum decides the branch: nothing latched,     *)
(* boot flag, AUX, points, anything else.                                   *)
Branch(bits, len) ==
    CASE bits = {}                     -> "idle"
      [] "BOOT" \in bits               -> "touchmode"
      [] "AUX" \in bits                -> "aux"
      [] "PTS" \in bits /\ len > 0     -> "points"
      [] OTHER                         -> "ack"

ReadLatched ==
    /\ mode = "TMC"
    /\ NoFault
    /\ info' = flags /\ infoLen' = Len(frame)
    /\ pc' = Branch(flags, Len(frame))
    /\ ctx' = IF "BOOT" \in flags THEN "boot" ELSE ctx
    /\ retry' = retry

RetryForever == retry' = retry + 1 /\ pc' = "snl"                  \* mutant

(* A word whose checksum is wrong is read again, three times in all.        *)
Retry ==
    /\ retry' = retry + 1
    /\ pc' = IF retry + 1 < SNL_TRIES THEN "snl" ELSE "ack"

ReadSnl ==
    /\ pc = "snl"
    /\ \/ ReadLatched
       \/ Fault /\ Retry /\ UNCHANGED <<ctx, info, infoLen>>          \* corrupted
       \/ Fault /\ pc' = "ack" /\ UNCHANGED <<ctx, retry, info, infoLen>>
       \/ /\ mode # "TMC" /\ NoFault                                   \* echo
          /\ pc' = "snlalt" /\ UNCHANGED <<ctx, retry, info, infoLen>>
    /\ UNCHANGED <<geomVars, absVars, inputVars, chipVars>>

(* The re-read at 0x00F0. A chip that is still not live echoes that address *)
(* too, and an echoed word never carries its own checksum.                  *)
ReadSnlAlt ==
    /\ pc = "snlalt"
    /\ \/ ReadLatched
       \/ Fault /\ pc' = "ack" /\ UNCHANGED <<ctx, retry, info, infoLen>>
       \/ mode # "TMC" /\ NoFault /\ Retry /\ UNCHANGED <<ctx, info, infoLen>>
    /\ UNCHANGED <<geomVars, absVars, inputVars, chipVars>>

(* AUX: the code read is only logged; the chip is re-initialised anyway.    *)
ReadAux ==
    /\ pc = "aux"
    /\ NoFault \/ Fault
    /\ ctx' = "aux" /\ pc' = "reset"
    /\ UNCHANGED <<retry, info, infoLen, geomVars, absVars, inputVars, chipVars>>

-----------------------------------------------------------------------------
(* poll(): the point records                                                *)

(* Records for keys, gestures and AUX have larger ids and are skipped.      *)
Fingers(f) == {i \in DOMAIN f : f[i].id <= AxisLast}

(* input_mt_slot() ignores a slot the device does not have: the record then *)
(* lands in the slot selected before it.                                    *)
SlotAt(f, i) ==
    LET sel  == {j \in Fingers(f) : j <= i /\ f[j].id \in Slots}
        last == {j \in sel : \A k \in sel : k <= j}
    IN  IF last = {} THEN curslot ELSE f[CHOOSE j \in last : TRUE].id

Written(f, s) == {i \in Fingers(f) : SlotAt(f, i) = s}

(* The slots down after a frame: the last record of a slot decides, and     *)
(* INPUT_MT_DROP_UNUSED releases the slots no record wrote.                 *)
ActiveAfter(f) ==
    {s \in Slots : \E i \in Written(f, s) :
        f[i].down /\ \A j \in Written(f, s) : j <= i}

(* Dropping an unused slot selects it, so the last one dropped stays staged.*)
SlotAfter(f) ==
    LET dropped == {s \in active : Written(f, s) = {}}
        last    == {s \in dropped : \A t \in dropped : t <= s}
    IN  IF last = {} THEN SlotAt(f, Len(f)) ELSE CHOOSE s \in last : TRUE

ReportPoints(f) == active' = ActiveAfter(f) /\ curslot' = SlotAfter(f)

(* The transfer is sized by the length word read earlier, clamped to what   *)
(* the buffer holds. The chip fills it from what it has latched by now;     *)
(* zeroes follow, and a chip that is not live echoes the address (0xF1, an  *)
(* id that is no finger).                                                   *)
PacketLen == IF infoLen > MaxPoint THEN MaxPoint ELSE infoLen

Packet ==
    [i \in 1 .. PacketLen |->
        IF mode # "TMC" THEN [id |-> AxisLast + 1, down |-> TRUE]
        ELSE IF i <= Len(frame) THEN frame[i]
        ELSE [id |-> 0, down |-> FALSE]]

ChecksumIgnored == TRUE                                            \* mutant

(* The checksum word is found where the driver looks for it only if the     *)
(* latched records fill the transfer exactly; all zeroes sum to zero.       *)
ChecksumOk == mode = "TMC" /\ (Len(frame) = PacketLen \/ frame = <<>>)

ReadPoints ==
    /\ pc = "points"
    /\ \/ Fault /\ UNCHANGED inputVars
       \/ NoFault /\ ChecksumOk /\ ReportPoints(Packet)
       \/ NoFault /\ ~ChecksumOk /\ UNCHANGED inputVars
    /\ pc' = "ack"
    /\ UNCHANGED <<ctx, retry, info, infoLen, geomVars, absVars, chipVars>>

(* int_clear(): the chip drops what the driver has read, and may drop what  *)
(* was latched after that; a stalled chip has no such register.             *)
AckEffect ==
    /\ mode = "TMC"
    /\ flags' \in {flags \ info, {}}
    /\ UNCHANGED <<mode, int, frame>>

Ack ==
    /\ pc = "ack"
    /\ \/ NoFault /\ AckEffect
       \/ NoFault /\ mode # "TMC" /\ UNCHANGED chipVars
       \/ Fault /\ (AckEffect \/ UNCHANGED chipVars)
    /\ pc' = "idle"
    /\ UNCHANGED <<ctx, retry, info, infoLen, geomVars, absVars, inputVars>>

-----------------------------------------------------------------------------
(* The chip                                                                 *)

ChipReady ==
    /\ mode = "resetting"
    /\ mode' = "DS" /\ int' = TRUE
    /\ UNCHANGED <<drvVars, geomVars, absVars, inputVars, flags, frame, faults>>

(* The unstalled MCU comes up, with or without the boot flag.               *)
ChipLive ==
    /\ mode = "booting"
    /\ mode' = "TMC" /\ int' = TRUE
    /\ flags' \in {flags, flags \cup {"BOOT"}}
    /\ UNCHANGED <<drvVars, geomVars, absVars, inputVars, frame, faults>>

ChipLatch ==
    /\ mode = "TMC"
    /\ \E f \in Frames : frame' = f
    /\ flags' = flags \cup {"PTS"}
    /\ UNCHANGED <<drvVars, geomVars, absVars, inputVars, mode, int, faults>>

ChipAux ==
    /\ mode = "TMC" /\ "AUX" \notin flags
    /\ flags' = flags \cup {"AUX"}
    /\ UNCHANGED <<drvVars, geomVars, absVars, inputVars, mode, int, frame, faults>>

ChipRestart ==
    /\ mode = "TMC"
    /\ mode' = "booting" /\ int' = FALSE /\ flags' = {} /\ frame' = <<>>
    /\ UNCHANGED <<drvVars, geomVars, absVars, inputVars, faults>>

-----------------------------------------------------------------------------
Init ==
    /\ pc = "probe" /\ ctx = "probe"
    /\ retry = 0 /\ info = {} /\ infoLen = 0
    /\ maxX = 0 /\ maxY = 0 /\ absX = -1 /\ absY = -1
    /\ active = {} /\ curslot = 0
    /\ mode = "resetting" /\ int = FALSE /\ flags = {} /\ frame = <<>>
    /\ faults = MaxFaults

Driver ==
    \/ ProbeStart \/ HwReset \/ WaitReady \/ DsHandshake \/ WaitLive
    \/ TouchMode \/ ReadX \/ ReadY \/ ReadPointNum \/ Register
    \/ PollStart \/ ReadSnl \/ ReadSnlAlt \/ ReadAux \/ ReadPoints \/ Ack

Chip == ChipReady \/ ChipLive \/ ChipLatch \/ ChipAux \/ ChipRestart

Next == Driver \/ Chip

Spec == Init /\ [][Next]_vars

(* The poller is a kernel work item that keeps being queued; the chip's     *)
(* bootloader and MCU come up. Touches, AUX and restarts are not promised.  *)
Fairness == WF_vars(Driver) /\ WF_vars(ChipReady) /\ WF_vars(ChipLive)

FairSpec == Spec /\ Fairness

-----------------------------------------------------------------------------
(* Properties                                                               *)

TypeOK ==
    /\ pc \in Steps /\ ctx \in {"probe", "aux", "boot"}
    /\ retry \in 0 .. SNL_TRIES /\ info \subseteq Bits /\ infoLen \in Nat
    /\ maxX \in Nat /\ maxY \in Nat
    /\ absX \in Int /\ absY \in Int
    /\ active \subseteq Slots /\ curslot \in Slots
    /\ mode \in {"resetting", "DS", "booting", "TMC"} /\ int \in BOOLEAN
    /\ flags \subseteq Bits /\ frame \in Seq(Record)
    /\ faults \in 0 .. MaxFaults

(* The axes userspace sees are usable whatever the chip answered and        *)
(* whichever transfer failed, although ts->max_x and ts->max_y are written  *)
(* before they are checked and a failed Y read leaves them half updated:    *)
(* probe() registers nothing after an error and nothing out of range.       *)
AbsRangeUsable ==
    Registered => 0 <= absX /\ absX < MAX_COORD /\ 0 <= absY /\ absY < MAX_COORD

(* A report whose finger ids all have a slot, each named once.              *)
Regular(f) ==
    \A i, j \in Fingers(f) : f[i].id \in Slots /\ (f[i].id = f[j].id => i = j)

Down(f) == {f[i].id : i \in {j \in Fingers(f) : f[j].down}}

(* The contacts userspace sees change only in a poll that found a live MCU, *)
(* and then to exactly the fingers of the report latched at that moment:    *)
(* poll() reads the length in one transfer and the records in another, and  *)
(* the chip may restart, re-latch a longer report or echo addresses between *)
(* the two, but the checksum rejects every such packet.                     *)
ContactsFollowReport ==
    [][active' # active /\ Regular(frame)
         => mode = "TMC" /\ active' = Down(frame)]_vars

(* A status bit the chip has latched is eventually taken from it, by an ack *)
(* or by a reset, whatever transfers fail on the way: no branch of poll()   *)
(* that has consumed a report may return without the one or the other.      *)
ReportConsumed ==
    \A b \in Bits : (Registered /\ b \in flags) ~> (b \notin flags)

(* "full recovery path: hardware reset + DS handshake + TMC config"         *)
(* (input/0002:444), again mirroring the vendor's: once the bus works, a    *)
(* registered touchscreen whose MCU is stalled in the bootloader is brought *)
(* back to life.                                                            *)
StalledChipRecovers == (Registered /\ mode = "DS") ~> (mode = "TMC")

=============================================================================
