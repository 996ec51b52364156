---------------------------- MODULE Ssd20xxWork ----------------------------
(* Who may talk to the touch controller (vendor driver, ssd20xx.c): the     *)
(* threaded interrupt handler, and the ioctl and sysfs procedures that any  *)
(* process may call at any time.  They are kept apart by three means used   *)
(* in different combinations: disable_irq(), which nests and waits for the  *)
(* handler; the semaphore work_procedure_lock; and the word work_procedure, *)
(* which some test and some only write.                                     *)
EXTENDS RawQueue, FiniteSets

CONSTANTS Procs,        \* the processes
          Kinds,        \* [Procs -> SUBSET Kind], what each of them calls
          MaxCalls,     \* bound: calls, of all processes together
          MaxFrames,    \* bound: frames of the controller
          MaxFaults,    \* bound: failed I2C transfers and user copies
          SkipFrames    \* frames skipped before a low-power test counts

Kind == {"reg", "mode", "mptest", "mp_start", "mp_stop", "stop_later",
         "clear", "get_raw", "download", "update", "mode_read", "reset"}

ASSUME KindsAssumption == Kinds \in [Procs -> SUBSET Kind]
ASSUME BoundsAssumption == /\ MaxCalls \in Nat /\ MaxFrames \in Nat /\ MaxFaults \in Nat
                            /\ SkipFrames \in Nat

VARIABLES
    work_procedure,
    work_lock,          \* work_procedure_lock: 1 when free
    depth,              \* [Procs -> Nat], the disable_irq() of each
    pc,                 \* [Procs -> [at, kind]], where which call is
    reading,            \* [Procs -> the slot it copies], 0 when it does not
    disturbed,          \* [Procs -> BOOLEAN], the frame the process copies was
                        \* cleared, dropped or used as a buffer meanwhile
    handler,            \* where the interrupt thread is
    buffer,             \* the slot it fills, 0 when it does not
    int,                \* TRUE while the controller holds INT low
    pending,            \* an edge the handler has not been called for
    unanswered,         \* INT is low, no edge is to come, and the write by
                        \* which the handler was to release INT has failed
    raw_lock,           \* raw_data_lock
    touch_mode,         \* "point", "raw", or "aging" and above
    mptest_mode,        \* a test and its flags; {} is MPTEST_STOP
    skip_count,         \* m_mp_skip_count
    leaked,             \* an MP_TEST has returned without giving back
    calls, frames, faults

lockVars == <<work_procedure, work_lock, depth>>
callVars == <<pc, reading, disturbed>>
chipVars == <<int, pending, unanswered>>
modeVars == <<touch_mode, mptest_mode, skip_count, leaked>>
countVars == <<calls, frames, faults>>
vars == <<queue, lockVars, callVars, handler, buffer, chipVars, raw_lock, modeVars,
          countVars>>

-----------------------------------------------------------------------------
Idle == [at |-> "idle", kind |-> "none"]

Init ==
    /\ QueueInit
    /\ work_procedure = "none"
    /\ work_lock = 1
    /\ depth = [p \in Procs |-> 0]
    /\ pc = [p \in Procs |-> Idle]
    /\ reading = [p \in Procs |-> 0]
    /\ disturbed = [p \in Procs |-> FALSE]
    /\ handler = "idle"
    /\ buffer = 0
    /\ int = FALSE /\ pending = FALSE /\ unanswered = FALSE
    /\ raw_lock = 1
    /\ touch_mode = "point" /\ mptest_mode = {} /\ skip_count = 0
    /\ leaked = FALSE
    /\ calls = 0 /\ frames = 0 /\ faults = 0

handlerVars == <<handler, buffer>>

IrqOn == \A p \in Procs : depth[p] = 0

At(p, place) == pc[p].at = place
KindOf(p) == pc[p].kind
Go(p, place) ==
    pc' = [pc EXCEPT ![p] = IF place = "idle" THEN Idle ELSE [@ EXCEPT !.at = place]]
IrqOff(p) == depth' = [depth EXCEPT ![p] = @ + 1]
IrqBack(p) == depth' = [depth EXCEPT ![p] = @ - 1]
DisturbAll == disturbed' = [p \in Procs |-> At(p, "copy")]

(* A step that may fail for once.                                           *)
MayFail(fails) ==
    IF fails THEN faults < MaxFaults /\ faults' = faults + 1 /\ UNCHANGED <<calls, frames>>
    ELSE UNCHANGED countVars

(* INT goes up, and what was not answered is forgotten.                     *)
IntUp == int' = FALSE /\ unanswered' = FALSE

(* A write over I2C that releases INT, an int_clear_cmd() or the reset of   *)
(* sint_unstall(): it may fail, and nobody looks at its result.             *)
MayRaiseInt ==
    \E fails \in BOOLEAN :
        MayFail(fails) /\ IF fails THEN UNCHANGED <<int, unanswered>> ELSE IntUp

(* The ring cleared between two steps of those who use it.                  *)
ClearQueue == Clear /\ DisturbAll

-----------------------------------------------------------------------------
(* The controller: a frame pulls INT low, and the edge is latched even      *)
(* while the interrupt is off or its thread runs.                           *)
Frame ==
    /\ ~int
    /\ frames < MaxFrames
    /\ frames' = frames + 1
    /\ int' = TRUE
    /\ pending' = TRUE
    /\ UNCHANGED <<queue, lockVars, callVars, handlerVars, unanswered, raw_lock,
                   modeVars, calls, faults>>

-----------------------------------------------------------------------------
(* The calls.  The first step of each, by what it does first: test nothing  *)
(* and take the semaphore, or turn the interrupt off; the touch mode by     *)
(* ioctl, or by sysfs, which clears the ring first.                         *)
Locked == {"reg", "mode_read"}
Masked == {"mode", "mptest", "download", "mp_start", "mp_stop", "update"}

FirstPlaces(k) ==
    CASE k \in Locked -> {"down"}
      [] k = "mode" -> {"disable", "clear"}
      [] k \in Masked \ {"mode", "mptest"} -> {"disable"}
      [] k = "get_raw" -> {"front"}
      [] k = "stop_later" -> {"flag"}
      [] k = "reset" -> {"reset"}
      [] k \in {"clear", "mptest"} -> {"clear"}

Call(p, k) ==
    /\ At(p, "idle")
    /\ k \in Kinds[p]
    /\ calls < MaxCalls
    /\ calls' = calls + 1
    /\ \E first \in FirstPlaces(k) : pc' = [pc EXCEPT ![p] = [at |-> first, kind |-> k]]
    /\ UNCHANGED <<queue, lockVars, reading, disturbed, handlerVars, chipVars, raw_lock,
                   modeVars, frames, faults>>

(* disable_irq(): the interrupt is off from here on, and the call goes on   *)
(* when a handler that was running has returned.                            *)
DisableIrq(p) ==
    /\ At(p, "disable")
    /\ IrqOff(p)
    /\ Go(p, "synchronize")
    /\ UNCHANGED <<queue, work_procedure, work_lock, reading, disturbed,
                   handlerVars, chipVars, raw_lock, modeVars, countVars>>

\* mutant: disable_irq_nosync()
NoSync(p) ==
    /\ At(p, "synchronize")
    /\ Go(p, IF KindOf(p) \in {"mode", "mptest", "download"} THEN "down" ELSE "take")
    /\ UNCHANGED <<queue, lockVars, reading, disturbed, handlerVars, chipVars,
                   raw_lock, modeVars, countVars>>

\* mutant: it waits for the frame that came meanwhile to be answered, too
SyncAnswered(p) ==
    /\ At(p, "synchronize")
    /\ handler = "idle" /\ ~pending
    /\ Go(p, IF KindOf(p) \in {"mode", "mptest", "download"} THEN "down" ELSE "take")
    /\ UNCHANGED <<queue, lockVars, reading, disturbed, handlerVars, chipVars,
                   raw_lock, modeVars, countVars>>

Synchronize(p) ==
    /\ At(p, "synchronize")
    /\ handler = "idle"
    /\ Go(p, IF KindOf(p) \in {"mode", "mptest", "download"} THEN "down" ELSE "take")
    /\ UNCHANGED <<queue, lockVars, reading, disturbed, handlerVars, chipVars,
                   raw_lock, modeVars, countVars>>

(* down(), and the test of work_procedure that only SET_DOWNLOAD leaves out.*)
Down(p) ==
    /\ At(p, "down")
    /\ work_lock = 1
    /\ work_lock' = 0
    /\ IF KindOf(p) = "download"
       THEN work_procedure' = "upgrade" /\ Go(p, "copyin")
       ELSE IF work_procedure # "none"
       THEN UNCHANGED work_procedure /\ Go(p, IF KindOf(p) \in Masked THEN "enable" ELSE "up")
       ELSE work_procedure' = "set_mode" /\ Go(p, "body")
    /\ UNCHANGED <<queue, depth, reading, disturbed, handlerVars, chipVars,
                   raw_lock, modeVars, countVars>>

(* MP_TEST and the two sysfs updates write the word without looking.        *)
TakeUnasked(p) ==
    /\ At(p, "take")
    /\ work_procedure' = IF KindOf(p) = "update" THEN "upgrade" ELSE "set_mode"
    /\ Go(p, IF KindOf(p) = "update" THEN "flash" ELSE "body")
    /\ UNCHANGED <<queue, work_lock, depth, reading, disturbed, handlerVars,
                   chipVars, raw_lock, modeVars, countVars>>

\* mutant: a failed copy returns at once
CopyInReturns(p) ==
    /\ At(p, "copyin")
    /\ \E fails \in BOOLEAN : MayFail(fails) /\ Go(p, IF fails THEN "idle" ELSE "flash")
    /\ UNCHANGED <<queue, lockVars, reading, disturbed, handlerVars, chipVars,
                   raw_lock, modeVars>>

(* SET_DOWNLOAD copies the name of the file, or gives everything back.      *)
CopyIn(p) ==
    /\ At(p, "copyin")
    /\ \E fails \in BOOLEAN : MayFail(fails) /\ Go(p, IF fails THEN "release" ELSE "flash")
    /\ UNCHANGED <<queue, lockVars, reading, disturbed, handlerVars, chipVars,
                   raw_lock, modeVars>>

(* solomon_firmware_update_byfile() and the reset behind it, by the reset   *)
(* pin, which leaves the controller with INT released; the sysfs update     *)
(* gives the word back before it resets.                                    *)
Flash(p) ==
    /\ At(p, "flash")
    /\ IF KindOf(p) = "download" THEN IntUp ELSE UNCHANGED <<int, unanswered>>
    /\ Go(p, "release")
    /\ UNCHANGED <<queue, lockVars, reading, disturbed, handlerVars, pending,
                   raw_lock, modeVars, countVars>>

-----------------------------------------------------------------------------
(* The bodies.  GET_REG, SET_REG and GET_GRAPH_DATA give the word and the   *)
(* semaphore back whichever of their copies and transfers failed.           *)
RegBody(p) ==
    /\ At(p, "body") /\ KindOf(p) = "reg"
    /\ Go(p, "release")
    /\ UNCHANGED <<queue, lockVars, reading, disturbed, handlerVars, chipVars,
                   raw_lock, modeVars, countVars>>

(* solomon_set_touchmode(): the mode is what is read back.                  *)
ModeBody(p) ==
    /\ At(p, "body") /\ KindOf(p) = "mode"
    /\ touch_mode' \in {"point", "raw", "aging"}
    /\ Go(p, "release")
    /\ UNCHANGED <<queue, lockVars, reading, disturbed, handlerVars, chipVars,
                   raw_lock, mptest_mode, skip_count, leaked, countVars>>

(* solomon_set_mptest(): a failed write changes the mode all the same.      *)
SetMptest(mode) == mptest_mode' = mode /\ ClearQueue

MptestBody(p) ==
    /\ At(p, "body") /\ KindOf(p) = "mptest"
    /\ SetMptest({"test"})
    /\ Go(p, "release")
    /\ UNCHANGED <<lockVars, reading, handlerVars, chipVars, raw_lock, touch_mode,
                   skip_count, leaked, countVars>>

(* sysfs mptest: how many frames to skip is set when all else is done.      *)
SetSkip(p) ==
    /\ At(p, "skip")
    /\ skip_count' \in {0, SkipFrames}
    /\ Go(p, "idle")
    /\ UNCHANGED <<queue, lockVars, reading, disturbed, handlerVars, chipVars,
                   raw_lock, touch_mode, mptest_mode, leaked, countVars>>

(* QUEUE_CLEAR, and sysfs mptest and touchmode before they take anything.   *)
ClearUnasked(p) ==
    /\ At(p, "clear")
    /\ ClearQueue
    /\ Go(p, IF KindOf(p) \in Masked THEN "disable" ELSE "idle")
    /\ UNCHANGED <<lockVars, reading, handlerVars, chipVars, raw_lock,
                   modeVars, countVars>>

MpStop(p) ==
    /\ At(p, "body") /\ KindOf(p) = "mp_stop"
    /\ IF mptest_mode # {} THEN SetMptest({})
       ELSE UNCHANGED <<queue, disturbed, mptest_mode>>
    /\ Go(p, "release")
    /\ UNCHANGED <<lockVars, reading, handlerVars, chipVars, raw_lock, touch_mode,
                   skip_count, leaked, countVars>>

(* MP_TEST whose argument cannot be copied returns as it stands: with the   *)
(* interrupt off and the word taken, for good.                              *)
MpCopyFails(p) ==
    /\ At(p, "body") /\ KindOf(p) \in {"mp_start", "mp_stop"}
    /\ MayFail(TRUE)
    /\ leaked' = TRUE
    /\ Go(p, "idle")
    /\ UNCHANGED <<queue, lockVars, reading, disturbed, handlerVars, chipVars, raw_lock,
                   touch_mode, mptest_mode, skip_count>>

(* A start is only prepared: the handler writes the mode when the           *)
(* controller, reset here, has sent a frame that says it is up.             *)
MpStart(p) ==
    /\ At(p, "body") /\ KindOf(p) = "mp_start"
    /\ mptest_mode' = {"test", "READY_START"}
    /\ ClearQueue
    /\ skip_count' = 1
    /\ MayRaiseInt
    /\ Go(p, "release")
    /\ UNCHANGED <<lockVars, reading, handlerVars, pending, raw_lock, touch_mode, leaked>>

(* sysfs mptest 0: the handler stops the test after its next frame.         *)
StopLater(p) ==
    /\ At(p, "flag")
    /\ mptest_mode' = mptest_mode \union {"READY_STOP"}
    /\ Go(p, "idle")
    /\ UNCHANGED <<queue, lockVars, reading, disturbed, handlerVars, chipVars,
                   raw_lock, touch_mode, skip_count, leaked, countVars>>

(* solomon_get_rawdata_str(): slot 0 of the ring is its buffer.  It waits   *)
(* for INT, for two seconds; a mode that cannot be set ends it early, with  *)
(* INT not cleared.                                                         *)
ModeRead(p) ==
    /\ At(p, "body") /\ KindOf(p) = "mode_read"
    /\ \/ /\ MayFail(TRUE)
          /\ UNCHANGED <<queue, disturbed, int, unanswered>>
       \/ /\ int
          /\ UNCHANGED queue
          /\ DisturbAll
          /\ MayRaiseInt
       \/ /\ ~int
          /\ UNCHANGED <<queue, disturbed, int, unanswered, countVars>>
    /\ Go(p, "release")
    /\ UNCHANGED <<lockVars, reading, handlerVars, pending, raw_lock, modeVars>>

-----------------------------------------------------------------------------
(* How each gives back what it took.  The word first; SET_DOWNLOAD lets go  *)
(* of the semaphore before it turns the interrupt on, the mode calls after. *)
Release(p) ==
    /\ At(p, "release")
    /\ work_procedure' = "none"
    /\ Go(p, CASE KindOf(p) \in Locked \union {"download"} -> "up"
               [] KindOf(p) = "update" -> "reset"
               [] OTHER -> "enable")
    /\ UNCHANGED <<queue, work_lock, depth, reading, disturbed, handlerVars,
                   chipVars, raw_lock, modeVars, countVars>>

(* SW_RESET, HW_RESET and sysfs reset ask nobody; the last of them runs     *)
(* solomon_init_config(), which ends a test.  HW_RESET and the reset behind *)
(* a sysfs update pull the reset pin, the others write over I2C.            *)
Reset(p) ==
    /\ At(p, "reset")
    /\ IF KindOf(p) = "reset" THEN MayRaiseInt ELSE IntUp /\ UNCHANGED countVars
    /\ mptest_mode' \in {mptest_mode} \union IF KindOf(p) = "reset" THEN {{}} ELSE {}
    /\ Go(p, IF KindOf(p) = "update" THEN "enable" ELSE "idle")
    /\ UNCHANGED <<queue, lockVars, reading, disturbed, handlerVars, pending,
                   raw_lock, touch_mode, skip_count, leaked>>

EnableIrq(p) ==
    /\ At(p, "enable")
    /\ IrqBack(p)
    /\ Go(p, IF KindOf(p) \in {"mode", "mptest"} THEN "up" ELSE "idle")
    /\ UNCHANGED <<queue, work_procedure, work_lock, reading, disturbed,
                   handlerVars, chipVars, raw_lock, modeVars, countVars>>

Up(p) ==
    /\ At(p, "up")
    /\ work_lock' = work_lock + 1
    /\ Go(p, CASE KindOf(p) = "download" -> "enable"
               [] KindOf(p) = "mptest" -> "skip"
               [] OTHER -> "idle")
    /\ UNCHANGED <<queue, work_procedure, depth, reading, disturbed, handlerVars,
                   chipVars, raw_lock, modeVars, countVars>>

-----------------------------------------------------------------------------
(* GET_RAW_DATA takes no lock: find the slot, copy it, drop it.             *)
GetFront(p) ==
    /\ At(p, "front")
    /\ IF Empty \/ (touch_mode = "point" /\ mptest_mode = {})
       THEN Go(p, "idle") /\ UNCHANGED reading
       ELSE Go(p, "copy") /\ reading' = [reading EXCEPT ![p] = FrontSlot]
    /\ UNCHANGED <<queue, lockVars, disturbed, handlerVars, chipVars, raw_lock,
                   modeVars, countVars>>

CopyOut(p) ==
    /\ At(p, "copy")
    /\ \E fails \in BOOLEAN : MayFail(fails) /\ Go(p, IF fails THEN "idle" ELSE "drop")
    /\ reading' = [reading EXCEPT ![p] = 0]
    /\ disturbed' = [disturbed EXCEPT ![p] = FALSE]
    /\ UNCHANGED <<queue, lockVars, handlerVars, chipVars,
                   raw_lock, modeVars>>

Drop(p) ==
    /\ At(p, "drop")
    /\ Get /\ DisturbAll
    /\ Go(p, "idle")
    /\ UNCHANGED <<lockVars, reading, handlerVars, chipVars, raw_lock,
                   modeVars, countVars>>

-----------------------------------------------------------------------------
(* The interrupt thread, solomon_work().  Its last write for a frame is to  *)
(* release INT.  If that fails nobody tries again: INT stays low, and if no *)
(* edge is waiting (a frame that followed a reset) none will come.          *)
ClearInt ==
    /\ \E fails \in BOOLEAN :
         /\ MayFail(fails)
         /\ IF fails THEN UNCHANGED int /\ unanswered' = (int /\ ~pending) ELSE IntUp
    /\ UNCHANGED pending

(* IRQF_ONESHOT: an edge that comes while the thread runs is kept.          *)
HandlerStart ==
    /\ handler = "idle" /\ pending /\ IrqOn
    /\ pending' = FALSE
    /\ handler' = IF work_procedure = "upgrade" THEN "idle" ELSE "trylock"
    /\ UNCHANGED <<queue, lockVars, callVars, buffer, int, unanswered, raw_lock,
                   modeVars, countVars>>

TryLock ==
    /\ handler = "trylock"
    /\ IF work_lock = 0
       THEN handler' = "spin" /\ UNCHANGED <<work_procedure, work_lock>>
       ELSE /\ work_lock' = 0
            /\ IF work_procedure # "none"
               THEN handler' = "clear" /\ UNCHANGED work_procedure
               ELSE handler' = "read" /\ work_procedure' = "normal"
    /\ UNCHANGED <<queue, depth, callVars, buffer, chipVars, raw_lock, modeVars,
                   countVars>>

\* mutant: it reads after all
SpinThenRead ==
    /\ handler = "spin"
    /\ work_lock = 1
    /\ work_lock' = 0
    /\ handler' = "read"
    /\ UNCHANGED <<queue, work_procedure, depth, callVars, buffer, chipVars,
                   raw_lock, modeVars, countVars>>

(* Who finds the semaphore taken spins, and drops the frame.                *)
Spin ==
    /\ handler = "spin"
    /\ work_lock = 1
    /\ work_lock' = 0
    /\ handler' = "clear"
    /\ UNCHANGED <<queue, work_procedure, depth, callVars, buffer, chipVars,
                   raw_lock, modeVars, countVars>>

\* mutant: a frame that is dropped is not answered
NoClear ==
    /\ handler = "clear"
    /\ handler' = "out"
    /\ UNCHANGED <<queue, lockVars, callVars, chipVars, buffer, raw_lock, modeVars,
                   countVars>>

HandlerClear ==
    /\ handler = "clear"
    /\ ClearInt
    /\ handler' = "out"
    /\ UNCHANGED <<queue, lockVars, callVars, buffer, raw_lock, modeVars>>

\* mutant: the semaphore is not taken
DispatchUnlocked ==
    /\ handler = "read"
    /\ IF mptest_mode = {} /\ touch_mode # "raw" THEN handler' = "clear"
       ELSE IF ~int THEN handler' = "out"
       ELSE handler' = IF mptest_mode = {} THEN "rawdata" ELSE "mpdata"
    /\ UNCHANGED <<queue, lockVars, callVars, buffer, chipVars, raw_lock, modeVars,
                   countVars>>

(* What to read.  The points are modelled elsewhere; here they are answered.*)
(* In an aging mode most ways through them end in the ring.                 *)
Dispatch ==
    /\ handler = "read"
    /\ IF mptest_mode = {} /\ touch_mode # "raw"
       THEN /\ handler' \in {"clear"} \union IF touch_mode = "aging" THEN {"aging"} ELSE {}
            /\ UNCHANGED raw_lock
       ELSE IF ~int THEN handler' = "out" /\ UNCHANGED raw_lock
       ELSE IF raw_lock = 0 THEN handler' = "unlock" /\ UNCHANGED raw_lock
       ELSE /\ raw_lock' = raw_lock - 1
            /\ handler' = IF mptest_mode = {} THEN "rawdata" ELSE "mpdata"
    /\ UNCHANGED <<queue, lockVars, callVars, buffer, chipVars, modeVars, countVars>>

\* mutant: without room the newest frame is written over
RawDataOver ==
    /\ handler = "rawdata"
    /\ \E fails \in BOOLEAN :
         /\ MayFail(fails)
         /\ IF fails
            THEN handler' = "unlock" /\ UNCHANGED buffer
            ELSE handler' = "raw_fill" /\ buffer' = IF Full THEN queue_rear ELSE RearSlot
    /\ UNCHANGED <<queue, lockVars, callVars, chipVars, raw_lock, modeVars>>

(* solomon_read_rawdata(): a full ring, or a failed transfer, drops it.     *)
RawData ==
    /\ handler = "rawdata"
    /\ \E fails \in BOOLEAN :
         /\ MayFail(fails)
         /\ IF fails \/ Full
            THEN handler' = "unlock" /\ UNCHANGED buffer
            ELSE handler' = "raw_fill" /\ buffer' = RearSlot
    /\ UNCHANGED <<queue, lockVars, callVars, chipVars, raw_lock, modeVars>>

RawFill ==
    /\ handler = "raw_fill"
    /\ \E fails \in BOOLEAN :
         MayFail(fails) /\ handler' = IF fails THEN "unlock" ELSE "raw_put"
    /\ buffer' = 0
    /\ UNCHANGED <<queue, lockVars, callVars, chipVars, raw_lock, modeVars>>

RawPut ==
    /\ handler = "raw_put"
    /\ Put
    /\ handler' = "unlock"
    /\ UNCHANGED <<lockVars, callVars, buffer, chipVars, raw_lock, modeVars, countVars>>

(* solomon_read_points() in an aging mode fills the ring with raw_data_lock *)
(* not taken, and puts the frame in, read well or not.                      *)
AgingData ==
    /\ handler = "aging"
    /\ IF Full
       THEN handler' = "clear" /\ UNCHANGED buffer
       ELSE handler' = "aging_fill" /\ buffer' = RearSlot
    /\ UNCHANGED <<queue, lockVars, callVars, chipVars, raw_lock, modeVars, countVars>>

AgingPut ==
    /\ handler = "aging_fill"
    /\ Put
    /\ handler' = "clear"
    /\ buffer' = 0
    /\ UNCHANGED <<lockVars, callVars, chipVars, raw_lock, modeVars, countVars>>

(* solomon_read_mpdata(): the status of the frame.                          *)
MpStatusFails ==
    /\ handler = "mpdata"
    /\ MayFail(TRUE)
    /\ handler' = "unlock"
    /\ UNCHANGED <<queue, lockVars, callVars, buffer, chipVars, raw_lock, modeVars>>

(* Before a test starts the frame must say that the controller is up.  If   *)
(* it does not, the controller is reset and raw_data_lock stays taken: the  *)
(* reset, sint_unstall(), is all that releases INT, and may fail.           *)
MpNotReady ==
    /\ handler = "mpdata" /\ "READY_START" \in mptest_mode
    /\ ClearInt
    /\ handler' = "out"
    /\ UNCHANGED <<queue, lockVars, callVars, buffer, raw_lock, modeVars>>

(* A mode that cannot be written counts as set, and the controller is reset.*)
MpBegin ==
    /\ handler = "mpdata" /\ "READY_START" \in mptest_mode
    /\ SetMptest(mptest_mode \ {"READY_START"})
    /\ \E fails \in BOOLEAN :
         MayFail(fails) /\ handler' = IF fails THEN "mp_reset" ELSE "unlock"
    /\ UNCHANGED <<lockVars, pc, reading, buffer, chipVars, raw_lock, touch_mode,
                   skip_count, leaked>>

(* The reset ahead of the clear that the way out makes.                     *)
MpReset ==
    /\ handler = "mp_reset"
    /\ MayRaiseInt
    /\ handler' = "unlock"
    /\ UNCHANGED <<queue, lockVars, callVars, buffer, pending, raw_lock, modeVars>>

(* A test frame goes into the ring if there is room, read well or not.      *)
MpData ==
    /\ handler = "mpdata" /\ "READY_START" \notin mptest_mode
    /\ IF Full
       THEN handler' = "mp_after" /\ UNCHANGED buffer
       ELSE handler' = "mp_fill" /\ buffer' = RearSlot
    /\ UNCHANGED <<queue, lockVars, callVars, chipVars, raw_lock, modeVars, countVars>>

MpPut ==
    /\ handler = "mp_fill"
    /\ Put
    /\ handler' = "mp_after"
    /\ buffer' = 0
    /\ UNCHANGED <<lockVars, callVars, chipVars, raw_lock, modeVars, countVars>>

(* solomon_read_mptest(), after the frame: skip it, end the test, or tell   *)
(* user space.                                                              *)
MpSkip ==
    /\ handler = "mp_after" /\ skip_count > 0
    /\ IF skip_count = 1 THEN Clear ELSE Get
    /\ DisturbAll
    /\ skip_count' = skip_count - 1
    /\ handler' = "unlock"
    /\ UNCHANGED <<lockVars, pc, reading, buffer, chipVars, raw_lock, touch_mode,
                   mptest_mode, leaked, countVars>>

MpAfter ==
    /\ handler = "mp_after" /\ skip_count = 0
    /\ IF "READY_STOP" \in mptest_mode
       THEN SetMptest({}) /\ handler' = "mp_reset"
       ELSE UNCHANGED <<queue, disturbed, mptest_mode>> /\ handler' = "unlock"
    /\ UNCHANGED <<lockVars, pc, reading, buffer, chipVars, raw_lock, touch_mode,
                   skip_count, leaked, countVars>>

Unlock ==
    /\ handler = "unlock"
    /\ ClearInt
    /\ raw_lock' = raw_lock + 1
    /\ handler' = "out"
    /\ UNCHANGED <<queue, lockVars, callVars, buffer, modeVars>>

Out ==
    /\ handler = "out"
    /\ work_procedure' = IF work_procedure = "normal" THEN "none" ELSE work_procedure
    /\ work_lock' = work_lock + 1
    /\ handler' = "idle"
    /\ UNCHANGED <<queue, depth, callVars, buffer, chipVars, raw_lock, modeVars,
                   countVars>>

-----------------------------------------------------------------------------
Step(p) ==
    \/ DisableIrq(p) \/ Synchronize(p) \/ Down(p) \/ TakeUnasked(p)
    \/ CopyIn(p) \/ Flash(p) \/ RegBody(p) \/ ModeBody(p) \/ MptestBody(p)
    \/ SetSkip(p) \/ ClearUnasked(p) \/ MpStop(p) \/ MpStart(p) \/ StopLater(p)
    \/ ModeRead(p) \/ MpCopyFails(p) \/ Release(p) \/ Reset(p)
    \/ EnableIrq(p) \/ Up(p) \/ GetFront(p) \/ CopyOut(p) \/ Drop(p)

Handler ==
    \/ HandlerStart \/ TryLock \/ Spin \/ HandlerClear \/ Dispatch
    \/ RawData \/ RawFill \/ RawPut \/ AgingData \/ AgingPut
    \/ MpStatusFails \/ MpNotReady \/ MpBegin \/ MpReset \/ MpData \/ MpPut
    \/ MpSkip \/ MpAfter \/ Unlock \/ Out

Next ==
    \/ Frame
    \/ \E p \in Procs : (\E k \in Kind : Call(p, k)) \/ Step(p)
    \/ Handler

Spec == Init /\ [][Next]_vars

(* The scheduler runs the handler and whoever is inside a call.             *)
FairSpec == Spec /\ WF_vars(Handler) /\ \A p \in Procs : WF_vars(Step(p))

-----------------------------------------------------------------------------
Places == {"idle", "disable", "synchronize", "down", "take", "copyin", "flash",
           "body", "release", "enable", "up", "skip", "clear", "flag", "front",
           "copy", "drop", "reset"}
HandlerPlaces == {"idle", "trylock", "spin", "clear", "read", "rawdata",
                  "raw_fill", "raw_put", "aging", "aging_fill", "mpdata",
                  "mp_reset", "mp_fill", "mp_after", "unlock", "out"}

(* Every variable has its type: in particular the two semaphores are never  *)
(* given back twice, though solomon_read_mpdata() gives raw_data_lock back  *)
(* on paths that have not taken it.                                         *)
TypeOK ==
    /\ QueueTypeOK
    /\ work_procedure \in {"none", "normal", "set_mode", "upgrade"}
    /\ work_lock \in {0, 1}
    /\ depth \in [Procs -> Nat]
    /\ pc \in [Procs -> [at : Places, kind : Kind \union {"none"}]]
    /\ reading \in [Procs -> Slots]
    /\ disturbed \in [Procs -> BOOLEAN]
    /\ handler \in HandlerPlaces
    /\ buffer \in Slots
    /\ int \in BOOLEAN /\ pending \in BOOLEAN /\ unanswered \in BOOLEAN
    /\ raw_lock \in {0, 1}
    /\ touch_mode \in {"point", "raw", "aging"}
    /\ mptest_mode \in SUBSET {"test", "READY_START", "READY_STOP"}
    /\ skip_count \in Nat
    /\ leaked \in BOOLEAN
    /\ calls \in 0..MaxCalls /\ frames \in 0..MaxFrames /\ faults \in 0..MaxFaults

(* When nobody is at work, everything has been given back: the word, the    *)
(* semaphore, and every disable_irq(), whatever failed on the way but the   *)
(* copy of an MP_TEST.                                                      *)
WorkReturned ==
    handler = "idle" /\ (\A p \in Procs : At(p, "idle")) /\ ~leaked
        => work_procedure = "none" /\ work_lock = 1 /\ IrqOn

(* While the flash is being written the interrupt thread does not run, even *)
(* if another process turns "its" interrupt back on meanwhile; and while    *)
(* SET_DOWNLOAD writes, no call that takes the semaphore is at the chip,    *)
(* even though MP_TEST may have taken the word away from it.  What asks for *)
(* no semaphore is not kept out: MP_TEST, a second update, a reset.         *)
FlashAlone ==
    \A p \in Procs : At(p, "flash") =>
        /\ handler = "idle"
        /\ KindOf(p) = "download" =>
             \A q \in Procs \ {p} :
                At(q, "body") => KindOf(q) \in {"mp_start", "mp_stop"}

(* While the handler reads a frame the word says so, whoever writes it      *)
(* without the semaphore.                                                   *)
HandlerOwnsWord ==
    handler \in HandlerPlaces \ {"idle", "trylock", "spin", "clear", "out"}
        => work_procedure = "normal"

(* No lock: the slot that is being copied is not the one that is being      *)
(* filled, unless the frame was taken from under the reader (by a clear, a  *)
(* skipped test frame, another reader).                                     *)
NoTornFrame ==
    handler \in {"raw_fill", "mp_fill", "aging_fill"} =>
        \A p \in Procs : At(p, "copy") /\ ~disturbed[p] => reading[p] # buffer

(* Every call returns: nobody waits for ever for the handler, the semaphore *)
(* or one another.                                                          *)
EveryCallReturns == \A p \in Procs : ~At(p, "idle") ~> At(p, "idle")

(* Every frame is answered, so that the edge-triggered interrupt can come   *)
(* again: no combination of calls leaves INT low with no edge to come, nor  *)
(* does any transfer that fails but one.  That is the handler's own last    *)
(* write for the frame, which nobody repeats (unanswered): INT is then low  *)
(* until a call resets the controller.                                      *)
IntAnswered == int ~> (~int \/ leaked \/ unanswered)
=============================================================================
