--------------------------- MODULE Ssd20xxReport ---------------------------
(* What the vendor driver's interrupt thread does with a frame (ssd20xx.c): *)
(* solomon_read_points(), with its retries, resets and re-initialisations,  *)
(* solomon_report(), and beside it the suspend, pre_on and resume calls,    *)
(* which share m_power_status and the contacts with it and take no lock,    *)
(* and a change of the touch mode, which makes it skip frames.              *)
(* INT is edge triggered: a frame that nobody answers is the last one.      *)
EXTENDS Naturals, FiniteSets, FiniteSetsExt

CONSTANTS Ids,          \* fingers
          Keys,         \* keys of the panel
          es_version,   \* "ES1" or "ES2", read once at boot
          MaxFrames,    \* bound: frames, crashes of the controller
          MaxFaults,    \* bound: failed transfers and bad boots
          MaxCalls      \* bound: suspends, changes of the touch mode

ASSUME IdsAssumption == IsFiniteSet(Ids) /\ Keys \in SUBSET Nat
ASSUME VersionAssumption == es_version \in {"ES1", "ES2"}
ASSUME BoundsAssumption == {MaxFrames, MaxFaults, MaxCalls} \in SUBSET Nat

VARIABLES
    chip,               \* what the controller is doing
    frame,              \* what it presents while INT is low
    touching,           \* the fingers it has reported as down
    int,                \* TRUE while it holds INT low
    pending,            \* an edge the handler has not been called for
    handler,            \* where the interrupt thread is
    seen,               \* the frame it has read
    retry,              \* attempts left
    m_point_skip_time,  \* the touch mode has been set since a frame was checked
    state_flag,         \* are status and length sent with a checksum
    boot_flag,          \* is an error bit of the boot status set
    m_power_status,
    lastValidCnt,
    m_up_event,         \* [finger -> is it down], as a set
    keydata,
    shown,              \* the contacts of the last frame sent to user space
    held,               \* the keys user space sees down
    pm,                 \* where suspend, pre_on and resume are
    accidents,          \* what has happened, of what nothing makes good
    frames, faults, calls

chipVars == <<chip, frame, touching, int, pending>>
readVars == <<handler, seen, retry, m_point_skip_time>>
bootVars == <<state_flag, boot_flag>>
reportVars == <<lastValidCnt, m_up_event, keydata, shown, held>>
countVars == <<frames, faults, calls>>
vars == <<chipVars, readVars, bootVars, m_power_status, reportVars, pm, accidents,
          countVars>>

-----------------------------------------------------------------------------
(* Frames.                                                                  *)
NoFrame == [kind |-> "zero", down |-> {}, up |-> {}]
Plain(kind) == [NoFrame EXCEPT !.kind = kind]

(* The AUX words: those that ask for a reset (WDTDS, C1, ESD), those that   *)
(* nothing is done about (C2 to C4), a checksum error, and the two by which *)
(* a controller that has booted asks to be initialised.                     *)
BootAux == {"bootup", "solomon_aux"}
PointKinds == {"points", "none", "palm"}
AuxKinds == BootAux \union {"needs_reset", "ignored", "cs_error"}
FrameKinds == {"zero", "points", "none", "key", "palm", "gesture", "boot_st"}
                \union AuxKinds

(* A frame of points lists the fingers that are down and, without weight,   *)
(* those that no longer are.                                                *)
PointFrames ==
    { [kind |-> "points", down |-> down, up |-> touching \ down] :
        down \in SUBSET Ids } \ {Plain("points")}
KeyFrames ==
    { [kind |-> "key", down |-> {k}, up |-> {}] : k \in Keys \ keydata }
    \union { [kind |-> "key", down |-> {}, up |-> {k}] : k \in keydata }

Init ==
    /\ chip = "run" /\ frame = NoFrame /\ touching = {}
    /\ int = FALSE /\ pending = FALSE
    /\ handler = "idle" /\ seen = NoFrame /\ retry = 3
    /\ m_point_skip_time = FALSE
    /\ state_flag = 1 /\ boot_flag = FALSE
    /\ m_power_status = "resume"
    /\ lastValidCnt = 0 /\ m_up_event = {} /\ keydata = {}
    /\ shown = {} /\ held = {}
    /\ pm = "on"
    /\ accidents = {}
    /\ frames = 0 /\ faults = 0 /\ calls = 0

-----------------------------------------------------------------------------
(* The controller.                                                          *)
Present(f) ==
    /\ frame' = f
    /\ int' = TRUE
    /\ pending' = TRUE

ChipUnchanged == UNCHANGED <<readVars, bootVars, m_power_status,
                             reportVars, pm, accidents, faults, calls>>

Frame ==
    /\ chip = "run" /\ ~int
    /\ frames < MaxFrames /\ frames' = frames + 1
    /\ \E f \in PointFrames \union KeyFrames
                \union {Plain(kind) : kind \in {"none", "palm", "needs_reset", "ignored", "cs_error"}} :
         /\ f.kind = "none" => touching # {}
         /\ Present(f)
         /\ touching' = IF f.kind \in PointKinds THEN f.down
                        ELSE touching
    /\ UNCHANGED chip
    /\ ChipUnchanged

(* The display is off: only gestures are looked for, until it is on again   *)
(* or the CPU is told to.                                                   *)
Sleep ==
    /\ chip = "run" /\ pm = "off" /\ ~int
    /\ chip' = "asleep" /\ touching' = {}
    /\ UNCHANGED <<frame, int, pending, frames>>
    /\ ChipUnchanged

Gesture ==
    /\ chip = "asleep" /\ ~int
    /\ frames < MaxFrames /\ frames' = frames + 1
    /\ Present(Plain("gesture"))
    /\ UNCHANGED <<chip, touching>>
    /\ ChipUnchanged

DisplayOn ==
    /\ chip = "asleep" /\ pm = "on"
    /\ chip' = "waking"
    /\ UNCHANGED <<frame, touching, int, pending, frames>>
    /\ ChipUnchanged

(* It resets itself; it forgets the fingers, and INT is released until it   *)
(* has booted and waits to be initialised.                                  *)
Released == int' = FALSE /\ frame' = NoFrame
Restarted == chip' = "reset" /\ touching' = {} /\ Released

Crash ==
    /\ chip \in {"run", "asleep", "starting"}
    /\ frames < MaxFrames /\ frames' = frames + 1
    /\ Restarted
    /\ UNCHANGED pending
    /\ ChipUnchanged

Boots ==
    /\ chip = "reset"
    /\ chip' = "stopped"
    /\ \/ Present(Plain("bootup")) /\ UNCHANGED frames
       \/ /\ frames < MaxFrames /\ frames' = frames + 1
          /\ Present(Plain("solomon_aux"))
    /\ UNCHANGED touching
    /\ ChipUnchanged

Starts ==
    /\ chip \in {"starting", "waking"} /\ ~int
    /\ chip' = "run"
    /\ Present(Plain("boot_st"))
    /\ UNCHANGED <<touching, frames>>
    /\ ChipUnchanged

-----------------------------------------------------------------------------
(* What the driver does to it.                                              *)
MayFail(fails) ==
    IF fails THEN faults < MaxFaults /\ faults' = faults + 1 ELSE UNCHANGED faults

When(happens, what) == IF happens THEN {what} ELSE {}
Record(what) == accidents' = accidents \union what

(* int_clear_cmd() is served by the firmware: a controller whose CPU has    *)
(* not been started does not release INT for it.                            *)
IntClear ==
    /\ IF chip \in {"stopped", "reset"} THEN UNCHANGED <<int, frame>> ELSE Released
    /\ UNCHANGED <<chip, touching, pending>>

Presents(kinds) == int /\ frame.kind \in kinds

(* DS_CUP_CONTROL: sint_unstall(), lpm_end() and lpm_end2().                *)
StartCpu ==
    /\ \/ chip = "stopped" /\ chip' = "starting"
       \/ chip = "asleep" /\ chip' = "waking"
       \/ chip \notin {"stopped", "asleep"} /\ UNCHANGED chip
    /\ UNCHANGED <<frame, touching, int, pending>>

(* lpm_end() and lpm_end2() do not ask whether it waits for pre_init().      *)
Unprepared == When(chip = "stopped", "late")

(* solomon_report_release() asks the count, not the contacts.               *)
Release ==
    IF lastValidCnt = 0 THEN UNCHANGED reportVars
    ELSE /\ m_up_event' = {}
         /\ lastValidCnt' = 0
         /\ shown' = {}
         /\ UNCHANGED <<keydata, held>>

SkipTimeUnchanged == UNCHANGED <<pm, frames, calls>>
HandlerUnchanged == SkipTimeUnchanged /\ UNCHANGED m_point_skip_time
Go(place) ==
    /\ handler' = place
    /\ seen' = IF place = "idle" THEN NoFrame ELSE seen
    /\ UNCHANGED retry

-----------------------------------------------------------------------------
(* solomon_read_points().                                                   *)
HandlerStart ==
    /\ handler = "idle" /\ pending
    /\ pending' = FALSE
    /\ handler' = IF int THEN "snl" ELSE "idle"
    /\ retry' = 3
    /\ UNCHANGED <<chip, frame, touching, int, seen, bootVars, m_power_status,
                   reportVars, accidents, faults>>
    /\ HandlerUnchanged

\* mutant: the counter is decremented before it is tested
GarbledTooOften(place) ==
    /\ retry' = IF retry > 0 THEN retry - 1 ELSE 3
    /\ handler' = IF retry = 0 THEN "reset" ELSE place
    /\ UNCHANGED <<faults, accidents>>

(* A bad checksum: read again, or reset after the third.                    *)
Garbled(place) ==
    /\ retry' = IF retry > 1 THEN retry - 1 ELSE 3
    /\ handler' = IF retry = 1 THEN "reset" ELSE place
    /\ UNCHANGED <<faults, accidents>>

(* Where the status word sends a frame.                                     *)
StatusRead(kind) ==
    \/ kind = "zero" /\ handler' = "out"
    \/ kind \in AuxKinds /\ handler' = "aux"
    \/ kind = "boot_st" /\ handler' = "release_config"
    \/ kind = "none" /\ handler' = "out_report"
    \/ kind \in {"points", "key", "palm", "gesture"} /\ handler' = "points"

(* The upper status bits: AUX, BOOT_ST, KEY, PALM_GESTURE.                  *)
Flagged == AuxKinds \union {"boot_st", "key", "palm", "gesture"}

(* Status and length.  A frame that is not read is cleared all the same.    *)
ReadSnl ==
    /\ handler = "snl"
    /\ \/ /\ seen' = IF int THEN frame ELSE NoFrame
          /\ StatusRead(seen'.kind)
          /\ m_point_skip_time' = (m_point_skip_time /\ seen'.kind \notin Flagged)
          /\ retry' = 3
          /\ UNCHANGED <<faults, accidents>>
       \/ /\ state_flag > 0 /\ Garbled("snl")
          /\ seen' = NoFrame
          /\ UNCHANGED m_point_skip_time
       \/ /\ MayFail(TRUE)
          /\ handler' = "out" /\ seen' = NoFrame /\ retry' = 3
          /\ UNCHANGED m_point_skip_time
          /\ Record(When(Presents(BootAux), "boot")
                      \union When(Presents(PointKinds), "dropped"))
    /\ UNCHANGED <<chip, frame, touching, int, pending, bootVars, m_power_status,
                   reportVars>>
    /\ SkipTimeUnchanged

(* solomon_check_skiptime(): such a frame is not looked at within 32 ms of  *)
(* a change of the touch mode.  A length over the maximum, of which the     *)
(* code asks the same, is never presented.                                  *)
SkipTime ==
    /\ handler = "snl"
    /\ m_point_skip_time /\ Presents(Flagged)
    /\ m_point_skip_time' = FALSE
    /\ handler' = "out" /\ seen' = NoFrame /\ retry' = 3
    /\ Record(When(Presents(BootAux), "skipped")
                \union When(Presents(PointKinds), "dropped"))
    /\ UNCHANGED <<chip, frame, touching, int, pending, bootVars, m_power_status,
                   reportVars, faults>>
    /\ SkipTimeUnchanged

AuxRead ==
    \/ seen.kind = "ignored" /\ Go("out_report")
    \/ seen.kind = "needs_reset" /\ Go("reset")
    \/ seen.kind = "cs_error" /\ Go("checksum")
    \/ seen.kind = "bootup" /\ Go("release_init")
    \/ /\ seen.kind = "solomon_aux"
       /\ Go(IF es_version = "ES2" THEN "reset" ELSE "release_init")

(* An AUX word that cannot be read is taken for none.                       *)
ReadAux ==
    /\ handler = "aux"
    /\ \/ AuxRead /\ UNCHANGED <<faults, accidents>>
       \/ /\ MayFail(TRUE)
          /\ Go("out_report")
          /\ Record(When(seen.kind \in BootAux, "boot"))
    /\ UNCHANGED <<chip, frame, touching, int, pending, bootVars, m_power_status,
                   reportVars>>
    /\ HandlerUnchanged

(* The points, checked the same way.                                        *)
ReadPoints ==
    /\ handler = "points"
    /\ \/ /\ handler' = "out_report" /\ retry' = 3
          /\ Record(When(pm # "on", "suspend"))
          /\ UNCHANGED faults
       \/ Garbled("points")
       \/ /\ MayFail(TRUE)
          /\ handler' = "out" /\ retry' = 3
          /\ Record({"dropped"})
    /\ UNCHANGED <<chip, frame, touching, int, pending, seen, bootVars, m_power_status,
                   reportVars>>
    /\ HandlerUnchanged

(* out: the frame is cleared, unless resume is to do it.                    *)
Out ==
    /\ handler \in {"out", "out_report"}
    /\ Go(IF handler = "out" THEN "idle" ELSE "report")
    /\ IF m_power_status = "suspend_delay"
       THEN /\ Record(When(pm \in {"on", "resume_end", "suspending"}, "late"))
            /\ UNCHANGED <<chip, frame, touching, int, pending, faults>>
       ELSE \E fails \in BOOLEAN :
              /\ MayFail(fails)
              /\ Record(When(fails, "clear"))
              /\ IF fails THEN UNCHANGED <<chip, frame, touching, int, pending>> ELSE IntClear
    /\ UNCHANGED <<bootVars, m_power_status, reportVars>>
    /\ HandlerUnchanged

(* out_reset: nothing is released here; the frame after the reset will.     *)
OutReset ==
    /\ handler = "reset"
    /\ Restarted
    /\ state_flag' = 0
    /\ Go("idle")
    /\ UNCHANGED <<pending, boot_flag, m_power_status, reportVars, accidents, faults>>
    /\ HandlerUnchanged

(* checksum: solomon_fw_update() resets before and after what it does.      *)
Checksum ==
    /\ handler = "checksum"
    /\ Release
    /\ Restarted
    /\ state_flag' = 0
    /\ Go("idle")
    /\ UNCHANGED <<pending, boot_flag, m_power_status, accidents, faults>>
    /\ HandlerUnchanged

\* mutant: the contacts are left to the frame that follows
ReleaseLater ==
    /\ handler \in {"release_config", "release_init"}
    /\ Go(IF handler = "release_init" THEN "boot_st" ELSE "config")
    /\ UNCHANGED <<chip, frame, touching, int, pending, bootVars, m_power_status, accidents,
                   faults, reportVars>>
    /\ HandlerUnchanged

(* A controller that has restarted: its contacts are gone.                  *)
ReleaseFirst ==
    /\ handler \in {"release_config", "release_init"}
    /\ Release
    /\ Go(IF handler = "release_init" THEN "boot_st" ELSE "config")
    /\ UNCHANGED <<chip, frame, touching, int, pending, bootVars, m_power_status, accidents,
                   faults>>
    /\ HandlerUnchanged

(* solomon_init_config(): whatever it could not read, the frame is cleared; *)
(* most failures are overwritten by the next read and the frame, of length  *)
(* zero, goes to solomon_report().                                          *)
InitConfig ==
    /\ handler = "config"
    /\ m_point_skip_time' = FALSE
    /\ \E fails \in BOOLEAN :
         /\ MayFail(fails)
         /\ \E place \in {"out_report"} \union When(fails, "out") : Go(place)
    /\ UNCHANGED <<chip, frame, touching, int, pending, bootVars, m_power_status, reportVars,
                   accidents>>
    /\ SkipTimeUnchanged

-----------------------------------------------------------------------------
(* solomon_pre_init().  Whatever fails, nothing tries again.                *)
BootFails ==
    /\ MayFail(TRUE)
    /\ Record({"boot"})
    /\ Go(IF boot_flag THEN "checksum" ELSE "idle")
    /\ UNCHANGED <<chip, frame, touching, int, pending, bootVars>>

PreInit(place) ==
    /\ handler = place
    /\ UNCHANGED <<m_power_status, reportVars>>
    /\ HandlerUnchanged

ReadBootSt ==
    /\ PreInit("boot_st")
    /\ \/ BootFails
       \/ /\ \E bad \in BOOLEAN : MayFail(bad) /\ boot_flag' = bad
          /\ Go("boot_code")
          /\ UNCHANGED <<chip, frame, touching, int, pending, state_flag, accidents>>

InitCode ==
    /\ PreInit("boot_code")
    /\ \/ BootFails
       \/ /\ Go("boot_clear")
          /\ UNCHANGED <<chip, frame, touching, int, pending, bootVars, accidents, faults>>

DsClearInt ==
    /\ PreInit("boot_clear")
    /\ \/ BootFails
       \/ /\ Released
          /\ Go("boot_unstall")
          /\ UNCHANGED <<chip, touching, pending, bootVars, accidents, faults>>

\* mutant: the CPU is not told to start
NoUnstall ==
    /\ PreInit("boot_unstall")
    /\ \/ BootFails
       \/ /\ state_flag' = 1
          /\ Go(IF boot_flag THEN "checksum" ELSE "idle")
          /\ UNCHANGED <<chip, frame, touching, int, pending, boot_flag, accidents, faults>>

(* The CPU starts, and is waited for; an error in the boot status is acted  *)
(* on only now.                                                             *)
Unstall ==
    /\ PreInit("boot_unstall")
    /\ \/ BootFails
       \/ /\ StartCpu
          /\ state_flag' = 1
          /\ Go(IF boot_flag THEN "checksum" ELSE "idle")
          /\ UNCHANGED <<boot_flag, accidents, faults>>

-----------------------------------------------------------------------------
(* solomon_report(), when a frame has been read.                            *)
Report(kinds) == handler = "report" /\ seen.kind \in kinds

ReportUnchanged == UNCHANGED <<chip, frame, touching, int, pending, bootVars, faults>>

(* Nothing in it: no finger, an AUX word that was passed over, the word     *)
(* that its CPU has started.                                                *)
ReportNone ==
    /\ Report({"none", "boot_st"} \union AuxKinds)
    /\ Release
    /\ Go("idle")
    /\ UNCHANGED <<m_power_status, accidents>>
    /\ ReportUnchanged /\ HandlerUnchanged

\* mutant: a finger without weight is counted like the others
ReportPointsAll ==
    /\ Report({"points"})
    /\ lastValidCnt' = Cardinality(seen.down \union seen.up)
    /\ m_up_event' = (m_up_event \union seen.up) \union seen.down
    /\ shown' = seen.down \union seen.up
    /\ Go("idle")
    /\ UNCHANGED <<m_power_status, keydata, held, accidents>>
    /\ ReportUnchanged /\ HandlerUnchanged

(* Protocol A: the contacts of a frame are all there are.                   *)
ReportPoints ==
    /\ Report({"points"})
    /\ lastValidCnt' = Cardinality(seen.down)
    /\ m_up_event' = (m_up_event \ seen.up) \union seen.down
    /\ shown' = seen.down
    /\ Go("idle")
    /\ UNCHANGED <<m_power_status, keydata, held, accidents>>
    /\ ReportUnchanged /\ HandlerUnchanged

(* Any other frame sets the count to zero as well, and there is no contact  *)
(* in it to bring it back: what is down can no longer be released.          *)
Uncounted == When(shown # {}, "uncounted")

(* ssd20xx_send_key(): the mask of a key that is going up holds the keys    *)
(* above it too, so that of several only the first is released.             *)
ReportKey ==
    /\ Report({"key"})
    /\ lastValidCnt' = 0
    /\ Record(Uncounted)
    /\ LET down == keydata \union seen.down
           lifted == IF seen.up \intersect down # {} THEN {Min(seen.up)} ELSE {}
       IN  /\ keydata' = down \ seen.up
           /\ held' = (held \union seen.down) \ lifted
    /\ Go("idle")
    /\ UNCHANGED <<m_power_status, m_up_event, shown>>
    /\ ReportUnchanged /\ HandlerUnchanged

(* PALM_REJECT releases, but the count has just been set to zero.           *)
ReportPalm ==
    /\ Report({"palm"})
    /\ lastValidCnt' = 0
    /\ Record(Uncounted)
    /\ Go("idle")
    /\ UNCHANGED <<m_power_status, m_up_event, keydata, shown, held>>
    /\ ReportUnchanged /\ HandlerUnchanged

(* A gesture: lpm_end(), and from now on it is resume that clears INT; the  *)
(* key is pressed and released.                                             *)
ReportGesture ==
    /\ Report({"gesture"})
    /\ lastValidCnt' = 0
    /\ Record(Uncounted \union Unprepared)
    /\ \/ /\ StartCpu
          /\ m_power_status' = "suspend_delay"
          /\ UNCHANGED faults
       \/ /\ MayFail(TRUE)
          /\ UNCHANGED <<chip, frame, touching, int, pending, m_power_status>>
    /\ Go("idle")
    /\ UNCHANGED <<bootVars, m_up_event, keydata, shown, held>>
    /\ HandlerUnchanged

-----------------------------------------------------------------------------
(* solomon_set_touchmode() with the mode that is set: the interrupt is off, *)
(* and the thread has come to rest.                                         *)
TouchMode ==
    /\ handler = "idle" /\ ~m_point_skip_time
    /\ calls < MaxCalls /\ calls' = calls + 1
    /\ m_point_skip_time' = TRUE
    /\ UNCHANGED <<chipVars, handler, seen, retry, bootVars, m_power_status, reportVars, pm,
                   accidents, frames, faults>>

-----------------------------------------------------------------------------
(* Power management.  SUPPORT_LPM leaves the interrupt on throughout.       *)
PmUnchanged == UNCHANGED <<readVars, bootVars, frames>>

Suspend ==
    /\ pm = "on" /\ calls < MaxCalls
    /\ calls' = calls + 1
    /\ Release
    /\ pm' = "suspending"
    /\ Record(When(handler # "idle", "suspend"))
    /\ UNCHANGED <<chip, frame, touching, int, pending, m_power_status, faults>>
    /\ PmUnchanged

Suspended ==
    /\ pm = "suspending"
    /\ m_power_status' = "suspend"
    /\ pm' = "off"
    /\ UNCHANGED <<chip, frame, touching, int, pending, reportVars, accidents, faults,
                   calls>>
    /\ PmUnchanged

(* solomon_pre_on(): lpm_end2(), and resume will find INT low.              *)
PreOn ==
    /\ pm = "off" /\ m_power_status = "suspend"
    /\ \/ /\ StartCpu
          /\ pm' = "pre_on"
          /\ UNCHANGED faults
       \/ /\ MayFail(TRUE)
          /\ pm' = "off"
          /\ UNCHANGED <<chip, frame, touching, int, pending>>
    /\ Record(Unprepared)
    /\ UNCHANGED <<m_power_status, reportVars, calls>>
    /\ PmUnchanged

PreOnEnd ==
    /\ pm = "pre_on"
    /\ m_power_status' = "suspend_delay"
    /\ pm' = "off"
    /\ UNCHANGED <<chip, frame, touching, int, pending, reportVars, accidents, faults,
                   calls>>
    /\ PmUnchanged

Resume ==
    /\ pm = "off"
    /\ pm' = IF m_power_status = "suspend_delay" THEN "lpm_end_clear" ELSE "resume_end"
    /\ UNCHANGED <<chip, frame, touching, int, pending, m_power_status, reportVars,
                   accidents, faults, calls>>
    /\ PmUnchanged

\* mutant: it waits, and leaves INT to the handler
LpmEndWait ==
    /\ pm = "lpm_end_clear"
    /\ pm' = "resume_end"
    /\ UNCHANGED <<chip, frame, touching, int, pending, faults, accidents>>
    /\ UNCHANGED <<m_power_status, reportVars, calls>>
    /\ PmUnchanged

(* lpm_end_clear() waits for INT for half a second and clears whatever is   *)
(* there.                                                                   *)
LpmEndClear ==
    /\ pm = "lpm_end_clear"
    /\ pm' = "resume_end"
    /\ \E fails \in BOOLEAN :
         /\ MayFail(fails)
         /\ Record(When(fails, "clear")
                     \union When(~fails /\ Presents(PointKinds), "dropped"))
         /\ IF fails THEN UNCHANGED <<chip, frame, touching, int, pending>> ELSE IntClear
    /\ UNCHANGED <<m_power_status, reportVars, calls>>
    /\ PmUnchanged

ResumeEnd ==
    /\ pm = "resume_end"
    /\ m_power_status' = "resume"
    /\ pm' = "on"
    /\ UNCHANGED <<chip, frame, touching, int, pending, reportVars, accidents, faults,
                   calls>>
    /\ PmUnchanged

-----------------------------------------------------------------------------
Chip == Frame \/ Sleep \/ Gesture \/ Crash
ChipStep == DisplayOn \/ Boots \/ Starts

Handler ==
    \/ HandlerStart \/ ReadSnl \/ SkipTime \/ ReadAux \/ ReadPoints \/ Out \/ OutReset \/ Checksum
    \/ ReleaseFirst \/ InitConfig
    \/ ReadBootSt \/ InitCode \/ DsClearInt \/ Unstall
    \/ ReportNone \/ ReportPoints \/ ReportKey \/ ReportPalm \/ ReportGesture

PmStart == Suspend \/ PreOn \/ Resume
PmStep == Suspended \/ PreOnEnd \/ LpmEndClear \/ ResumeEnd

Next == Chip \/ ChipStep \/ Handler \/ TouchMode \/ PmStart \/ PmStep

Spec == Init /\ [][Next]_vars

(* The thread and the calls run to their end, and the controller boots.     *)
FairSpec == Spec /\ WF_vars(ChipStep) /\ WF_vars(Handler) /\ WF_vars(PmStep)

-----------------------------------------------------------------------------
FramesOk == [kind : FrameKinds, down : SUBSET (Ids \union Keys),
             up : SUBSET (Ids \union Keys)]
HandlerPlaces == {"idle", "snl", "aux", "points", "out", "out_report", "report",
                  "reset", "checksum", "release_config", "release_init", "config",
                  "boot_st", "boot_code", "boot_clear", "boot_unstall"}
Accidents == {"clear", "boot", "late", "dropped", "suspend", "uncounted", "skipped"}
Unanswered == {"clear", "boot", "late", "skipped"}

(* Every variable has its type; the attempts of a read end at one.          *)
TypeOK ==
    /\ chip \in {"run", "asleep", "waking", "reset", "stopped", "starting"}
    /\ frame \in FramesOk /\ seen \in FramesOk
    /\ touching \in SUBSET Ids
    /\ int \in BOOLEAN /\ pending \in BOOLEAN
    /\ handler \in HandlerPlaces
    /\ retry \in 1..3 /\ m_point_skip_time \in BOOLEAN
    /\ state_flag \in {0, 1} /\ boot_flag \in BOOLEAN
    /\ m_power_status \in {"resume", "suspend", "suspend_delay"}
    /\ lastValidCnt \in 0..Cardinality(Ids)
    /\ m_up_event \in SUBSET Ids /\ shown \in SUBSET Ids
    /\ keydata \in SUBSET Keys /\ held \in SUBSET Keys
    /\ pm \in {"on", "suspending", "off", "pre_on", "lpm_end_clear", "resume_end"}
    /\ accidents \in SUBSET Accidents
    /\ frames \in 0..MaxFrames /\ faults \in 0..MaxFaults /\ calls \in 0..MaxCalls

(* No ghost contacts: once the frame is answered, user space sees no finger *)
(* that the controller does not, through bad checksums, resets, suspends    *)
(* and whatever was read again.  The only ways to keep a contact that is    *)
(* gone are a frame whose transfer failed, that resume has cleared or that  *)
(* was skipped after a change of the touch mode, one that is being read     *)
(* while suspend releases, and a key, palm or gesture frame that makes the  *)
(* driver forget that a contact is down.  Of a controller that waits to be  *)
(* initialised and is not (clear, boot, late, skipped) nothing is said.     *)
NoGhostContact ==
    chip = "run" /\ handler = "idle" /\ ~int /\ accidents = {}
        => shown \subseteq touching

(* A controller that is started again starts with nothing down: out_reset   *)
(* releases nothing itself, the frame that announces the reset does.        *)
RestartReleases ==
    chip = "starting" /\ accidents = {} => shown = {}

(* With the screen on every frame is answered, so that the next edge can    *)
(* come: nothing leaves INT low for ever but a clear or a re-initialisation *)
(* whose transfer failed; the frame that announces a reset within 32 ms of  *)
(* a change of the touch mode, which is skipped and is not sent again; and  *)
(* a gesture that is reported after resume has looked, so that the handler  *)
(* waits for a resume that is over, or that the next suspend makes forget   *)
(* what it has to clear.                                                    *)
IntAnswered ==
    int /\ pm = "on" ~> ~int \/ pm # "on" \/ accidents \intersect Unanswered # {}

(* A controller that was reset, by itself or by the driver, runs again, but *)
(* for the same accidents.                                                  *)
Recovers ==
    chip \in {"reset", "stopped", "starting"}
        ~> chip = "run" \/ accidents \intersect Unanswered # {}
=============================================================================
