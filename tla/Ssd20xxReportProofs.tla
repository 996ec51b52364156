------------------------ MODULE Ssd20xxReportProofs ------------------------
(* TLAPS proofs about Ssd20xxReport, for any fingers, keys and numbers of   *)
(* frames, failed transfers and suspends.                                   *)
EXTENDS Ssd20xxReport, FiniteSetTheorems, TLAPS

(* Fingers are in frames of points, keys in frames of keys.                 *)
FrameOk(f) ==
    /\ f \in FramesOk
    /\ f.kind = "points" => f.down \subseteq Ids /\ f.up \subseteq Ids
    /\ f.kind = "key" => f.down \subseteq Keys /\ f.up \subseteq Keys
    /\ f.kind \notin {"points", "key"} => f.down = {}

LEMMA BoundsFacts == MaxFrames \in Nat /\ MaxFaults \in Nat /\ MaxCalls \in Nat
  BY BoundsAssumption

LEMMA PlainFacts ==
    ASSUME NEW kind \in FrameKinds
    PROVE  FrameOk(Plain(kind)) /\ Plain(kind).kind = kind /\ Plain(kind).down = {}
  BY DEF FrameOk, FramesOk, Plain, NoFrame, FrameKinds, AuxKinds, BootAux

LEMMA ZeroFacts == FrameOk(NoFrame) /\ NoFrame.kind = "zero" /\ NoFrame.down = {}
  BY DEF FrameOk, FramesOk, NoFrame, FrameKinds, AuxKinds, BootAux

LEMMA PresentedFacts ==
    ASSUME keydata \in SUBSET Keys, touching \in SUBSET Ids, NEW f \in PointFrames \union KeyFrames
    PROVE  FrameOk(f) /\ f.kind \in {"points", "key"}
  <1>1. CASE f \in PointFrames
    BY <1>1 DEF PointFrames, FrameOk, FramesOk, FrameKinds
  <1>2. CASE f \in KeyFrames
    BY <1>2 DEF KeyFrames, FrameOk, FramesOk, FrameKinds
  <1> QED
    BY <1>1, <1>2

LEMMA FaultBudget ==
    ASSUME faults \in 0..MaxFaults, NEW fails \in BOOLEAN, MayFail(fails)
    PROVE  faults' \in 0..MaxFaults
  BY BoundsFacts DEF MayFail

LEMMA CountFacts ==
    ASSUME NEW s, s \subseteq Ids
    PROVE  /\ Cardinality(s) \in 0..Cardinality(Ids)
           /\ Cardinality(s) = 0 <=> s = {}
  <1>1. IsFiniteSet(s)
    BY IdsAssumption, FS_Subset
  <1>2. Cardinality(s) <= Cardinality(Ids) /\ Cardinality(s) \in Nat /\ Cardinality(Ids) \in Nat
    BY <1>1, IdsAssumption, FS_Subset, FS_CardinalityType
  <1> QED
    BY <1>1, <1>2, FS_EmptySet

ChipOk == /\ chip \in {"run", "asleep", "waking", "reset", "stopped", "starting"}
          /\ FrameOk(frame) /\ touching \in SUBSET Ids
          /\ int \in BOOLEAN /\ pending \in BOOLEAN

(* What the driver does to the controller keeps its types.                  *)
LEMMA ClearType ==
    ASSUME ChipOk, IntClear \/ (Restarted /\ UNCHANGED pending) \/ StartCpu
             \/ (Released /\ UNCHANGED <<chip, touching, pending>>)
             \/ UNCHANGED <<chip, frame, touching, int, pending>>
    PROVE  ChipOk'
  BY ZeroFacts DEF ChipOk, IntClear, Restarted, StartCpu, Released, FrameOk, FramesOk

ReportOk == /\ lastValidCnt \in 0..Cardinality(Ids)
            /\ m_up_event \in SUBSET Ids /\ shown \in SUBSET Ids
            /\ keydata \in SUBSET Keys /\ held \in SUBSET Keys

LEMMA ReleaseType == ASSUME ReportOk, Release PROVE ReportOk'
  <1>1. 0 \in 0..Cardinality(Ids)
    BY CountFacts
  <1> QED
    BY <1>1 DEF Release, ReportOk, reportVars

TypeRest ==
    /\ FrameOk(seen) /\ handler \in HandlerPlaces /\ retry \in 1..3
    /\ m_point_skip_time \in BOOLEAN
    /\ state_flag \in {0, 1} /\ boot_flag \in BOOLEAN
    /\ m_power_status \in {"resume", "suspend", "suspend_delay"}
    /\ pm \in {"on", "suspending", "off", "pre_on", "lpm_end_clear", "resume_end"}
    /\ accidents \in SUBSET Accidents
    /\ frames \in 0..MaxFrames /\ faults \in 0..MaxFaults
    /\ calls \in 0..MaxCalls

TypeInv == ChipOk /\ ReportOk /\ TypeRest

LEMMA TypeParts == TypeInv => TypeOK
  BY DEF TypeInv, TypeOK, ChipOk, ReportOk, TypeRest, FrameOk

LEMMA GoType ==
    ASSUME NEW place \in HandlerPlaces, Go(place), FrameOk(seen)
    PROVE  handler' \in HandlerPlaces /\ FrameOk(seen)' /\ retry' = retry
  BY ZeroFacts DEF Go, FrameOk, FramesOk

LEMMA ChipType ==
    ASSUME TypeInv, Chip \/ ChipStep
    PROVE  TypeInv'
  <1> USE DEF TypeInv, TypeRest, ChipUnchanged, readVars, bootVars, reportVars
  <1>1. UNCHANGED <<readVars, bootVars, m_power_status, reportVars, pm, accidents, faults,
                    calls>>
    BY DEF Chip, ChipStep, Frame, Sleep, Gesture, Crash, DisplayOn, Boots, Starts
  <1>2. frames' \in 0..MaxFrames
    BY BoundsFacts DEF Chip, ChipStep, Frame, Sleep, Gesture, Crash, DisplayOn, Boots, Starts
  <1>3. ChipOk'
    <2>1. CASE Frame
      <3>1. PICK f \in PointFrames \union KeyFrames
                \union {Plain(kind) : kind \in {"none", "palm", "needs_reset", "ignored", "cs_error"}} :
              /\ Present(f)
              /\ touching' = IF f.kind \in PointKinds THEN f.down ELSE touching
        BY <2>1 DEF Frame
      <3>2. FrameOk(f) /\ (f.kind \in PointKinds => f.down \subseteq Ids)
        <4>1. CASE f \in PointFrames \union KeyFrames
          BY <4>1, PresentedFacts DEF ChipOk, ReportOk, FrameOk, PointKinds
        <4>2. CASE f \in {Plain(kind) : kind \in {"none", "palm", "needs_reset", "ignored", "cs_error"}}
          BY <4>2, PlainFacts DEF FrameKinds, AuxKinds
        <4> QED
          BY <3>1, <4>1, <4>2
      <3>3. FrameOk(frame)'
        BY <3>1, <3>2 DEF Present, FrameOk, FramesOk
      <3>4. chip' = chip
        BY <2>1 DEF Frame
      <3> QED
        BY <3>1, <3>2, <3>3, <3>4 DEF Present, ChipOk
    <2>2. CASE Gesture \/ Boots \/ Starts
      <3>1. PICK kind \in {"gesture", "bootup", "solomon_aux", "boot_st"} : Present(Plain(kind))
        BY <2>2 DEF Gesture, Boots, Starts
      <3>2. FrameOk(Plain(kind))
        BY PlainFacts DEF FrameKinds, AuxKinds, BootAux
      <3>3. FrameOk(frame)' /\ int' = TRUE /\ pending' = TRUE
        BY <3>1, <3>2 DEF Present, FrameOk, FramesOk
      <3>4. touching' = touching /\ chip' \in {"asleep", "stopped", "run"}
        BY <2>2 DEF Gesture, Boots, Starts, ChipOk
      <3> QED
        BY <3>3, <3>4 DEF ChipOk
    <2>3. CASE Sleep \/ DisplayOn
      BY <2>3 DEF Sleep, DisplayOn, ChipOk, FrameOk, FramesOk
    <2>4. CASE Crash
      BY <2>4, ClearType DEF Crash
    <2> QED
      BY <2>1, <2>2, <2>3, <2>4 DEF Chip, ChipStep
  <1> QED
    BY <1>1, <1>2, <1>3 DEF FrameOk, FramesOk, ReportOk

LEMMA PmType ==
    ASSUME TypeInv, PmStart \/ PmStep
    PROVE  TypeInv'
  <1> USE DEF TypeInv, TypeRest, PmUnchanged, readVars, bootVars, reportVars
  <1>1. /\ UNCHANGED <<readVars, bootVars, frames>>
        /\ UNCHANGED reportVars \/ Release
    BY DEF PmStart, PmStep, Suspend, PreOn, Resume, Suspended, PreOnEnd, LpmEndClear, ResumeEnd
  <1>2. faults' \in 0..MaxFaults
    BY FaultBudget DEF PmStart, PmStep, Suspend, PreOn, Resume, Suspended, PreOnEnd,
           LpmEndClear, ResumeEnd
  <1>3. calls' \in 0..MaxCalls
    <2>1. calls' = calls \/ (calls < MaxCalls /\ calls' = calls + 1)
      BY DEF PmStart, PmStep, Suspend, PreOn, Resume, Suspended, PreOnEnd, LpmEndClear, ResumeEnd
    <2> QED
      BY <2>1, BoundsFacts
  <1>4. accidents' \in SUBSET Accidents
    BY DEF PmStart, PmStep, Suspend, PreOn, Resume, Suspended, PreOnEnd,
           LpmEndClear, ResumeEnd, Record, When, Unprepared, Accidents
  <1>5. /\ pm' \in {"on", "suspending", "off", "pre_on", "lpm_end_clear", "resume_end"}
        /\ m_power_status' \in {"resume", "suspend", "suspend_delay"}
    BY DEF PmStart, PmStep, Suspend, PreOn, Resume, Suspended, PreOnEnd, LpmEndClear, ResumeEnd
  <1>6. ChipOk'
    BY ClearType DEF PmStart, PmStep, Suspend, PreOn, Resume, Suspended, PreOnEnd,
           LpmEndClear, ResumeEnd
  <1>7. ReportOk'
    BY <1>1, ReleaseType DEF ReportOk
  <1> QED
    BY <1>1, <1>2, <1>3, <1>4, <1>5, <1>6, <1>7 DEF FrameOk, FramesOk

LEMMA HandlerType ==
    ASSUME TypeInv, Handler
    PROVE  TypeInv'
  <1> USE DEF TypeInv, TypeRest, HandlerUnchanged, SkipTimeUnchanged, bootVars
  <1> DEFINE Same == UNCHANGED <<chip, frame, touching, int, pending>>
             SameReport == UNCHANGED reportVars
  <1>0. UNCHANGED <<pm, frames, calls>>
    BY DEF Handler, HandlerStart, ReadSnl, SkipTime, ReadAux, ReadPoints, Out, OutReset, Checksum,
           ReleaseFirst, InitConfig, ReadBootSt, InitCode, DsClearInt, Unstall, PreInit,
           ReportNone, ReportPoints, ReportKey, ReportPalm, ReportGesture
  <1>0a. m_point_skip_time' \in BOOLEAN
    <2>1. CASE ReadSnl
      BY <2>1 DEF ReadSnl
    <2>2. CASE SkipTime \/ InitConfig
      BY <2>2 DEF SkipTime, InitConfig
    <2>3. CASE UNCHANGED m_point_skip_time
      BY <2>3
    <2> QED
      BY <2>1, <2>2, <2>3 DEF Handler, HandlerStart, ReadAux, ReadPoints, Out, OutReset,
             Checksum, ReleaseFirst, ReadBootSt, InitCode, DsClearInt, Unstall, PreInit,
             ReportNone, ReportPoints, ReportKey, ReportPalm, ReportGesture
  <1>1. CASE HandlerStart
    <2>1. ReportOk' /\ FrameOk(seen)'
      BY <1>1 DEF HandlerStart, ReportOk, reportVars, FrameOk, FramesOk
    <2>2. ChipOk'
      BY <1>1 DEF HandlerStart, ChipOk, FrameOk, FramesOk
    <2> QED
      BY <1>0, <1>0a, <1>1, <2>1, <2>2 DEF HandlerStart, HandlerPlaces
  <1>2a. CASE SkipTime
    <2>1. ReportOk' /\ ChipOk'
      BY <1>2a, ClearType DEF SkipTime, ReportOk, reportVars
    <2>2. FrameOk(seen)'
      BY <1>2a, ZeroFacts DEF SkipTime, FrameOk, FramesOk
    <2>3. accidents' \in SUBSET Accidents
      BY <1>2a DEF SkipTime, Record, When, Accidents
    <2>4. handler' = "out" /\ retry' = 3 /\ UNCHANGED <<bootVars, m_power_status, faults>>
      BY <1>2a DEF SkipTime
    <2> QED
      BY <1>0, <1>0a, <2>1, <2>2, <2>3, <2>4 DEF HandlerPlaces
  <1>2. CASE ReadSnl
    <2>1. ReportOk' /\ ChipOk'
      BY <1>2, ClearType DEF ReadSnl, Garbled, StatusRead, ReportOk, reportVars
    <2>2. FrameOk(seen)'
      BY <1>2, ZeroFacts DEF ReadSnl, Garbled, StatusRead, ChipOk, FrameOk, FramesOk
    <2>3. retry' \in 1..3 /\ faults' \in 0..MaxFaults
      <3>1. MayFail(TRUE) \/ faults' = faults
        BY <1>2 DEF ReadSnl, Garbled
      <3>2. retry' = 3 \/ (retry > 1 /\ retry' = retry - 1)
        BY <1>2 DEF ReadSnl, Garbled
      <3>3. retry' \in 1..3
        BY <3>2
      <3> QED
        BY <3>1, <3>3, FaultBudget
    <2>4. handler' \in HandlerPlaces
      BY <1>2, <2>2 DEF ReadSnl, Garbled, StatusRead, HandlerPlaces, FrameOk, FramesOk, FrameKinds, PointKinds
    <2>5. accidents' \in SUBSET Accidents
      BY <1>2 DEF ReadSnl, Garbled, StatusRead, Record, When, Accidents
    <2> QED
      BY <1>0, <1>0a, <1>2, <2>1, <2>2, <2>3, <2>4, <2>5 DEF ReadSnl, Garbled, StatusRead
  <1>3. CASE ReadAux
    <2>1. ReportOk' /\ ChipOk'
      BY <1>3, ClearType DEF ReadAux, AuxRead, ReportOk, reportVars
    <2>2. faults' \in 0..MaxFaults
      BY <1>3, FaultBudget DEF ReadAux, AuxRead
    <2>3. \E place \in HandlerPlaces : Go(place)
      BY <1>3 DEF ReadAux, AuxRead, HandlerPlaces
    <2>4. handler' \in HandlerPlaces /\ FrameOk(seen)' /\ retry' = retry
      BY <2>3, GoType
    <2>5. accidents' \in SUBSET Accidents
      BY <1>3 DEF ReadAux, AuxRead, Record, When, Accidents
    <2> QED
      BY <1>0, <1>0a, <1>3, <2>1, <2>2, <2>4, <2>5 DEF ReadAux, AuxRead
  <1>4. CASE ReadPoints
    <2>1. ReportOk' /\ ChipOk'
      BY <1>4, ClearType DEF ReadPoints, Garbled, ReportOk, reportVars
    <2>2. FrameOk(seen)'
      BY <1>4 DEF ReadPoints, Garbled, FrameOk, FramesOk
    <2>3. retry' \in 1..3 /\ faults' \in 0..MaxFaults
      <3>1. MayFail(TRUE) \/ faults' = faults
        BY <1>4 DEF ReadPoints, Garbled
      <3>2. retry' = 3 \/ (retry > 1 /\ retry' = retry - 1)
        BY <1>4 DEF ReadPoints, Garbled
      <3>3. retry' \in 1..3
        BY <3>2
      <3> QED
        BY <3>1, <3>3, FaultBudget
    <2>4. handler' \in HandlerPlaces
      BY <1>4 DEF ReadPoints, Garbled, HandlerPlaces
    <2>5. accidents' \in SUBSET Accidents
      BY <1>4 DEF ReadPoints, Garbled, Record, When, Accidents
    <2> QED
      BY <1>0, <1>0a, <1>4, <2>1, <2>2, <2>3, <2>4, <2>5 DEF ReadPoints, Garbled
  <1>5. CASE Out
    <2>1. ReportOk' /\ ChipOk'
      BY <1>5, ClearType DEF Out, ReportOk, reportVars
    <2>2. faults' \in 0..MaxFaults
      BY <1>5, FaultBudget DEF Out
    <2>3. handler' \in HandlerPlaces /\ FrameOk(seen)' /\ retry' = retry
      BY <1>5, GoType DEF Out, HandlerPlaces
    <2>4. accidents' \in SUBSET Accidents
      BY <1>5 DEF Out, Record, When, Accidents
    <2> QED
      BY <1>0, <1>0a, <1>5, <2>1, <2>2, <2>3, <2>4 DEF Out
  <1>6. CASE OutReset \/ Checksum \/ ReleaseFirst \/ InitConfig
    <2>1. ReportOk'
      BY <1>6, ReleaseType DEF OutReset, Checksum, ReleaseFirst, InitConfig, ReportOk, reportVars
    <2>2. ChipOk'
      BY <1>6, ClearType DEF OutReset, Checksum, ReleaseFirst, InitConfig
    <2>3. faults' \in 0..MaxFaults
      BY <1>6, FaultBudget DEF OutReset, Checksum, ReleaseFirst, InitConfig
    <2>4. handler' \in HandlerPlaces /\ FrameOk(seen)' /\ retry' = retry
      <3>1. \E place \in HandlerPlaces : Go(place)
        <4>1. CASE InitConfig
          BY <4>1 DEF InitConfig, When, HandlerPlaces
        <4>2. CASE OutReset \/ Checksum \/ ReleaseFirst
          BY <4>2 DEF OutReset, Checksum, ReleaseFirst, HandlerPlaces
        <4> QED
          BY <1>6, <4>1, <4>2
      <3> QED
        BY <3>1, GoType
    <2> QED
      BY <1>0, <1>0a, <1>6, <2>1, <2>2, <2>3, <2>4 DEF OutReset, Checksum, ReleaseFirst, InitConfig
  <1>7. CASE ReadBootSt \/ InitCode \/ DsClearInt \/ Unstall
    <2>1. ReportOk' /\ m_power_status' = m_power_status
      BY <1>7 DEF ReadBootSt, InitCode, DsClearInt, Unstall, PreInit, ReportOk, reportVars
    <2>2. ChipOk'
      BY <1>7, ClearType DEF ReadBootSt, InitCode, DsClearInt, Unstall, BootFails
    <2>3. faults' \in 0..MaxFaults
      BY <1>7, FaultBudget DEF ReadBootSt, InitCode, DsClearInt, Unstall, BootFails
    <2>4. handler' \in HandlerPlaces /\ FrameOk(seen)' /\ retry' = retry
      BY <1>7, GoType DEF ReadBootSt, InitCode, DsClearInt, Unstall, BootFails, HandlerPlaces
    <2>5. accidents' \in SUBSET Accidents
      BY <1>7 DEF ReadBootSt, InitCode, DsClearInt, Unstall, BootFails, Record, Accidents
    <2>6. state_flag' \in {0, 1} /\ boot_flag' \in BOOLEAN
      BY <1>7 DEF ReadBootSt, InitCode, DsClearInt, Unstall, BootFails
    <2> QED
      BY <1>0, <1>0a, <2>1, <2>2, <2>3, <2>4, <2>5, <2>6
  <1>8. CASE ReportNone \/ ReportPoints \/ ReportKey \/ ReportPalm \/ ReportGesture
    <2>1. ReportOk'
      <3>1. CASE ReportNone
        BY <3>1, ReleaseType DEF ReportNone
      <3>2. CASE ReportPoints
        <4>1. seen.down \subseteq Ids /\ seen.up \subseteq Ids
          BY <3>2 DEF ReportPoints, Report, FrameOk
        <4>2. Cardinality(seen.down) \in 0..Cardinality(Ids)
          BY <4>1, CountFacts
        <4> QED
          BY <3>2, <4>1, <4>2 DEF ReportPoints, ReportOk
      <3>3. CASE ReportKey
        <4>1. seen.down \subseteq Keys
          BY <3>3 DEF ReportKey, Report, FrameOk
        <4>2. 0 \in 0..Cardinality(Ids)
          BY CountFacts
        <4> QED
          BY <3>3, <4>1, <4>2 DEF ReportKey, ReportOk
      <3>4. CASE ReportPalm \/ ReportGesture
        <4>1. 0 \in 0..Cardinality(Ids)
          BY CountFacts
        <4> QED
          BY <3>4, <4>1 DEF ReportPalm, ReportGesture, ReportOk
      <3> QED
        BY <1>8, <3>1, <3>2, <3>3, <3>4
    <2>2. ChipOk'
      BY <1>8, ClearType DEF ReportNone, ReportPoints, ReportKey, ReportPalm, ReportGesture,
             ReportUnchanged
    <2>3. faults' \in 0..MaxFaults
      BY <1>8, FaultBudget DEF ReportNone, ReportPoints, ReportKey, ReportPalm, ReportGesture,
             ReportUnchanged
    <2>4. handler' \in HandlerPlaces /\ FrameOk(seen)' /\ retry' = retry
      BY <1>8, GoType DEF ReportNone, ReportPoints, ReportKey, ReportPalm, ReportGesture,
             HandlerPlaces
    <2>5. accidents' \in SUBSET Accidents
      BY <1>8 DEF ReportNone, ReportPoints, ReportKey, ReportPalm, ReportGesture, Record,
             Uncounted, Unprepared, When, Accidents
    <2>6. /\ UNCHANGED bootVars
          /\ m_power_status' \in {"resume", "suspend", "suspend_delay"}
      BY <1>8 DEF ReportNone, ReportPoints, ReportKey, ReportPalm, ReportGesture,
             ReportUnchanged
    <2> QED
      BY <1>0, <1>0a, <2>1, <2>2, <2>3, <2>4, <2>5, <2>6
  <1> QED
    BY <1>1, <1>2, <1>2a, <1>3, <1>4, <1>5, <1>6, <1>7, <1>8 DEF Handler

LEMMA TouchModeType == ASSUME TypeInv, TouchMode PROVE TypeInv'
  <1>1. ChipOk' /\ ReportOk' /\ FrameOk(seen)'
    BY DEF TouchMode, TypeInv, TypeRest, ChipOk, ReportOk, chipVars, reportVars, FrameOk, FramesOk
  <1>2. calls' \in 0..MaxCalls
    BY BoundsFacts DEF TouchMode, TypeInv, TypeRest
  <1> QED
    BY <1>1, <1>2 DEF TouchMode, TypeInv, TypeRest, bootVars

LEMMA TypeInvariant == Spec => []TypeInv
  <1>1. Init => TypeInv
    <2> SUFFICES ASSUME Init PROVE TypeInv
      OBVIOUS
    <2>1. ChipOk /\ FrameOk(seen)
      BY ZeroFacts DEF Init, ChipOk
    <2>2. 0 \in 0..Cardinality(Ids)
      BY CountFacts
    <2>3. ReportOk
      BY <2>2 DEF Init, ReportOk
    <2>4. 0 \in 0..MaxFrames /\ 0 \in 0..MaxFaults /\ 0 \in 0..MaxCalls
      BY BoundsFacts
    <2>5. handler \in HandlerPlaces /\ retry \in 1..3
      BY DEF Init, HandlerPlaces
    <2>5a. m_point_skip_time \in BOOLEAN
      BY DEF Init
    <2>7. state_flag \in {0, 1} /\ boot_flag \in BOOLEAN
      BY DEF Init
    <2>8. /\ m_power_status \in {"resume", "suspend", "suspend_delay"}
          /\ pm \in {"on", "suspending", "off", "pre_on", "lpm_end_clear", "resume_end"}
          /\ accidents \in SUBSET Accidents
      BY DEF Init
    <2>6. frames = 0 /\ faults = 0 /\ calls = 0
      BY DEF Init
    <2> QED
      BY <2>1, <2>3, <2>4, <2>5, <2>5a, <2>6, <2>7, <2>8 DEF TypeInv, TypeRest
  <1>2. TypeInv /\ [Next]_vars => TypeInv'
    <2>1. TypeInv /\ UNCHANGED vars => TypeInv'
      BY DEF vars, chipVars, readVars, bootVars, reportVars, countVars, TypeInv, TypeRest,
             ChipOk, ReportOk, FrameOk, FramesOk
    <2> QED
      BY <2>1, ChipType, PmType, HandlerType, TouchModeType DEF Next
  <1> QED
    BY <1>1, <1>2, PTL DEF Spec

(* Type correctness of the controller, the interrupt thread and the calls,  *)
(* the attempts of a read included.                                         *)
THEOREM TypeCorrect == Spec => []TypeOK
  BY TypeInvariant, TypeParts, PTL

-----------------------------------------------------------------------------
(* What holds of the contacts until something has happened that nothing     *)
(* makes good.  A frame of contacts is presented by a running controller,   *)
(* and only one that waits to be initialised announces it.                  *)
Due == Presents(PointKinds)
Restarting == chip \in {"reset", "stopped"}
Ghost == ~(shown \subseteq touching)

FrameInv ==
    /\ Due => chip = "run" /\ touching = frame.down
    /\ Presents(BootAux) => chip = "stopped"
    /\ chip # "run" => touching = {}

(* The count that solomon_report_release() asks tells whether there is one. *)
CountInv == lastValidCnt = 0 <=> shown = {}

(* No contact outlives suspend, or the handling of a restart.               *)
DownInv ==
    /\ pm # "on" => shown = {}
    /\ chip \in {"asleep", "waking", "starting"} => shown = {}
    /\ handler \in {"config", "boot_st", "boot_code", "boot_clear", "boot_unstall"} => shown = {}

(* Only the handler starts the controller, with INT released, and it is not *)
(* a frame of points that it initialises it for.                            *)
BootInv ==
    /\ handler \in {"release_init", "boot_st", "boot_code", "boot_clear", "boot_unstall"}
         => chip = "stopped"
    /\ handler = "aux" => seen.kind # "points" /\ (seen.kind \in BootAux => chip = "stopped")
    /\ handler \in {"release_config", "config"} => seen.kind # "points"
    /\ handler = "boot_unstall" => ~int
    /\ chip = "starting" => ~int /\ handler \in {"idle", "checksum"}

(* A frame of points that has been read is the one presented, until it is   *)
(* cleared; then what it says is true, or the next frame is due.            *)
PointsInv ==
    seen.kind = "points" =>
        /\ handler \in {"points", "out_report"}
             => Restarting \/ (int /\ frame = seen /\ chip = "run")
        /\ handler = "report"
             => Restarting \/ (chip = "run" /\ (Due \/ seen.down \subseteq touching))
        /\ handler \in {"out_report", "report"} => pm = "on"

(* While the handler has no frame in hand, a contact that is gone is        *)
(* contradicted by a frame that waits for it, or by a restart.              *)
Waiting == {"idle", "snl", "aux", "out", "release_config"}
GhostInv ==
    /\ handler \in Waiting /\ chip = "run" /\ Ghost => Due
    /\ handler = "snl" => int \/ shown = {} \/ Restarting
    /\ handler \in {"aux", "out", "release_config"}
         => (int /\ ~Due) \/ shown = {} \/ Restarting

Contact == FrameInv /\ CountInv /\ DownInv /\ BootInv /\ PointsInv /\ GhostInv
ContactInv == accidents = {} => Contact

LEMMA ChipContact ==
    ASSUME TypeInv, TypeInv', Contact, Chip \/ ChipStep, accidents = {}, accidents' = {}
    PROVE  Contact'
  <1> USE DEF TypeInv, ChipOk, TypeRest, Contact, FrameInv, CountInv, DownInv, BootInv,
         PointsInv, GhostInv, Due, Restarting, Ghost, Waiting, Presents, PointKinds, BootAux, AuxKinds
  <1>1. CASE Frame
    <2>1. PICK f \in PointFrames \union KeyFrames
              \union {Plain(kind) : kind \in {"none", "palm", "needs_reset", "ignored", "cs_error"}} :
            /\ Present(f)
            /\ touching' = IF f.kind \in PointKinds THEN f.down ELSE touching
      BY <1>1 DEF Frame
    <2>2. f.kind \notin BootAux
      BY PresentedFacts, PlainFacts DEF FrameKinds, ReportOk
    <2> QED
      BY <1>1, <2>1, <2>2 DEF Frame, Present, ChipUnchanged, readVars, bootVars, reportVars
  <1>2. CASE Sleep
    BY <1>2 DEF Sleep, ChipUnchanged, readVars, bootVars, reportVars
  <1>3. CASE Gesture
    <2>1. frame'.kind = "gesture"
      BY <1>3, PlainFacts DEF Gesture, Present, FrameKinds
    <2> QED
      BY <1>3, <2>1 DEF Gesture, Present, ChipUnchanged, readVars, bootVars, reportVars
  <1>4. CASE Crash
    BY <1>4, ZeroFacts DEF Crash, Restarted, Released, ChipUnchanged, readVars, bootVars,
           reportVars
  <1>5. CASE DisplayOn
    BY <1>5 DEF DisplayOn, ChipUnchanged, readVars, bootVars, reportVars
  <1>6. CASE Boots
    <2>1. frame'.kind \in BootAux
      BY <1>6, PlainFacts DEF Boots, Present, FrameKinds
    <2> QED
      BY <1>6, <2>1 DEF Boots, Present, ChipUnchanged, readVars, bootVars, reportVars
  <1>7. CASE Starts
    <2>1. frame'.kind = "boot_st"
      BY <1>7, PlainFacts DEF Starts, Present, FrameKinds
    <2> QED
      BY <1>7, <2>1 DEF Starts, Present, ChipUnchanged, readVars, bootVars, reportVars
  <1> QED
    BY <1>1, <1>2, <1>3, <1>4, <1>5, <1>6, <1>7 DEF Chip, ChipStep

LEMMA PmContact ==
    ASSUME TypeInv, TypeInv', Contact, PmStart \/ PmStep, accidents = {}, accidents' = {}
    PROVE  Contact'
  <1> USE DEF TypeInv, ChipOk, TypeRest, Contact, FrameInv, CountInv, DownInv, BootInv,
         PointsInv, GhostInv, Due, Restarting, Ghost, Waiting, Presents, PointKinds, BootAux, AuxKinds
  <1>1. CASE Suspend
    BY <1>1 DEF Suspend, Release, reportVars, Record, When, PmUnchanged, readVars, bootVars
  <1>2. CASE PreOn
    <2>1. chip # "stopped"
      BY <1>2 DEF PreOn, Record, Uncounted, Unprepared, When
    <2> QED
      BY <1>2, <2>1 DEF PreOn, StartCpu, Record, Unprepared, When, reportVars, PmUnchanged,
             readVars, bootVars
  <1>3. CASE Resume
    BY <1>3 DEF Resume, reportVars, PmUnchanged, readVars, bootVars
  <1>4. CASE Suspended
    BY <1>4 DEF Suspended, reportVars, PmUnchanged, readVars, bootVars
  <1>5. CASE PreOnEnd
    BY <1>5 DEF PreOnEnd, reportVars, PmUnchanged, readVars, bootVars
  <1>6. CASE LpmEndClear
    BY <1>6, ZeroFacts DEF LpmEndClear, Record, When, IntClear, Released, reportVars,
           PmUnchanged, readVars, bootVars
  <1>7. CASE ResumeEnd
    BY <1>7 DEF ResumeEnd, reportVars, PmUnchanged, readVars, bootVars
  <1> QED
    BY <1>1, <1>2, <1>3, <1>4, <1>5, <1>6, <1>7 DEF PmStart, PmStep

LEMMA HandlerContact ==
    ASSUME TypeInv, TypeInv', Contact, Handler, accidents = {}, accidents' = {}
    PROVE  Contact'
  <1> USE DEF TypeInv, ChipOk, TypeRest, Contact, FrameInv, CountInv, DownInv, BootInv,
         PointsInv, GhostInv, Due, Restarting, Ghost, Waiting, Presents, PointKinds, BootAux, AuxKinds,
         HandlerUnchanged, SkipTimeUnchanged
  <1>1. CASE HandlerStart
    BY <1>1, ZeroFacts DEF HandlerStart, bootVars, reportVars
  <1>2. CASE ReadSnl
    BY <1>2, ZeroFacts DEF ReadSnl, StatusRead, Garbled, Record, When, bootVars, reportVars
  <1>2a. CASE SkipTime
    BY <1>2a, ZeroFacts DEF SkipTime, Flagged, Record, When, bootVars, reportVars
  <1>3. CASE ReadAux
    BY <1>3, ZeroFacts DEF ReadAux, AuxRead, Go, Record, When, bootVars, reportVars
  <1>4. CASE ReadPoints
    BY <1>4 DEF ReadPoints, Record, When, Garbled, bootVars, reportVars
  <1>5. CASE Out
    BY <1>5, ZeroFacts DEF Out, Go, Record, When, IntClear, Released, bootVars, reportVars
  <1>6. CASE OutReset
    BY <1>6, ZeroFacts DEF OutReset, Restarted, Released, Go, reportVars
  <1>7. CASE Checksum
    BY <1>7, ZeroFacts DEF Checksum, Release, reportVars, Restarted, Released, Go
  <1>8. CASE ReleaseFirst
    BY <1>8 DEF ReleaseFirst, Release, reportVars, Go, bootVars
  <1>9. CASE InitConfig
    <2>1. shown = {} /\ UNCHANGED <<chip, frame, touching, int, pm, lastValidCnt, shown, seen>>
      BY <1>9 DEF InitConfig, Go, When, reportVars
    <2>2. handler' \in {"out", "out_report"}
      BY <1>9 DEF InitConfig, Go, When
    <2>3. handler = "config" /\ seen.kind # "points"
      BY <1>9 DEF InitConfig
    <2> QED
      BY <2>1, <2>2, <2>3
  <1>10. CASE ReadBootSt
    BY <1>10, ZeroFacts DEF ReadBootSt, PreInit, reportVars, BootFails,
           Record, Go, bootVars
  <1>11. CASE InitCode
    BY <1>11, ZeroFacts DEF InitCode, PreInit, reportVars, BootFails,
           Record, Go, bootVars
  <1>12. CASE DsClearInt
    BY <1>12, ZeroFacts DEF DsClearInt, PreInit, reportVars, BootFails,
           Record, Go, bootVars, Released
  <1>13. CASE Unstall
    BY <1>13, ZeroFacts DEF Unstall, PreInit, reportVars, BootFails,
           Record, Go, bootVars, StartCpu
  <1>14. CASE ReportNone
    BY <1>14, ZeroFacts DEF ReportNone, Report, Release, reportVars, Go, ReportUnchanged,
           bootVars
  <1>15. CASE ReportPoints
    <2>1. Cardinality(seen.down) = 0 <=> seen.down = {}
      BY <1>15, CountFacts DEF ReportPoints, Report, FrameOk
    <2> QED
      BY <1>15, <2>1 DEF ReportPoints, Report, Go, ReportUnchanged, bootVars
  <1>16. CASE ReportKey
    BY <1>16, ZeroFacts DEF ReportKey, Report, Record, Uncounted, When, Go, ReportUnchanged,
           bootVars
  <1>17. CASE ReportPalm
    BY <1>17, ZeroFacts DEF ReportPalm, Report, Record, Uncounted, When, Go,
           ReportUnchanged, bootVars
  <1>18. CASE ReportGesture
    <2>1. chip # "stopped"
      BY <1>18 DEF ReportGesture, Record, Uncounted, Unprepared, When
    <2>2. shown = {} /\ UNCHANGED <<shown, frame, touching, int, pm>> /\ lastValidCnt' = 0
      BY <1>18 DEF ReportGesture, Record, Uncounted, When, StartCpu
    <2>3. handler' = "idle" /\ seen'.kind = "zero"
      BY <1>18, ZeroFacts DEF ReportGesture, Go
    <2>4. UNCHANGED chip \/ (chip = "asleep" /\ chip' = "waking")
      BY <1>18, <2>1 DEF ReportGesture, StartCpu
    <2> QED
      BY <1>18, <2>1, <2>2, <2>3, <2>4 DEF ReportGesture, Report
  <1> QED
    BY <1>1, <1>2, <1>2a, <1>3, <1>4, <1>5, <1>6, <1>7, <1>8, <1>9, <1>10, <1>11, <1>12, <1>13,
           <1>14, <1>15, <1>16, <1>17, <1>18 DEF Handler

LEMMA TouchModeContact == ASSUME Contact, TouchMode PROVE Contact'
  BY DEF TouchMode, chipVars, reportVars, Contact, FrameInv, CountInv, DownInv, BootInv,
         PointsInv, GhostInv, Due, Restarting, Ghost, Waiting, Presents

LEMMA AccidentsStay == Next /\ accidents' = {} => accidents = {}
  BY DEF Next, Chip, ChipStep, Frame, Sleep, Gesture, Crash, DisplayOn, Boots, Starts,
         ChipUnchanged, Handler, TouchMode, HandlerStart, ReadSnl, SkipTime, ReadAux, ReadPoints, Garbled, Out,
         OutReset, Checksum, ReleaseFirst, InitConfig, ReadBootSt, InitCode, DsClearInt,
         Unstall, BootFails, ReportNone, ReportPoints, ReportKey, ReportPalm, ReportGesture,
         PmStart, PmStep, Suspend, PreOn, Resume, Suspended, PreOnEnd, LpmEndClear,
         ResumeEnd, Record

LEMMA ContactInvariant == Spec => []ContactInv
  <1>1. Init => ContactInv
    BY ZeroFacts DEF Init, ContactInv, Contact, FrameInv, CountInv, DownInv, BootInv,
           PointsInv, GhostInv, Due, Restarting, Ghost, Waiting, Presents
  <1>2. TypeInv /\ TypeInv' /\ ContactInv /\ [Next]_vars => ContactInv'
    <2> SUFFICES ASSUME TypeInv, TypeInv', ContactInv, [Next]_vars, accidents' = {}
                 PROVE  Contact'
      BY DEF ContactInv
    <2>1. CASE UNCHANGED vars
      BY <2>1 DEF vars, chipVars, readVars, bootVars, reportVars, countVars, ContactInv,
             Contact, FrameInv, CountInv, DownInv, BootInv, PointsInv, GhostInv, Due,
             Restarting, Ghost, Waiting, Presents
    <2>2. CASE Next
      <3>1. accidents = {} /\ Contact
        BY <2>2, AccidentsStay DEF ContactInv
      <3> QED
        BY <2>2, <3>1, ChipContact, PmContact, HandlerContact, TouchModeContact DEF Next
    <2> QED
      BY <2>1, <2>2
  <1> QED
    BY <1>1, <1>2, TypeInvariant, PTL DEF Spec

(* Once the frame is answered, no contact that the controller does not see. *)
THEOREM NoGhostContactCorrect == Spec => []NoGhostContact
  <1>1. ContactInv => NoGhostContact
    BY DEF ContactInv, Contact, GhostInv, Ghost, Waiting, Due, Presents, NoGhostContact
  <1> QED
    BY <1>1, ContactInvariant, PTL

(* A controller that is started again starts with no contact held.          *)
THEOREM RestartReleasesCorrect == Spec => []RestartReleases
  <1>1. ContactInv => RestartReleases
    BY DEF ContactInv, Contact, DownInv, RestartReleases
  <1> QED
    BY <1>1, ContactInvariant, PTL
=============================================================================
