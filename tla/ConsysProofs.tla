---------------------------- MODULE ConsysProofs ----------------------------
(***************************************************************************)
(* TLAPS proofs about Consys, for every number and length of firmware       *)
(* files, every script length and every number of faults.                  *)
(***************************************************************************)
EXTENDS Consys, TLAPS

(* The gate is exchanging commands, or has them behind it.                  *)
Released == Exchanging \/ stage \in {"load", "bound", "unbound"}

Up == rails = {"vcn18", "vcn28"} /\ domain /\ emi /\ btifClk /\ ~mcuReset

(* What the stage says about the power state, on the way up and on the way  *)
(* down.                                                                    *)
PowerInv ==
    /\ stage \in {"vcn18", "err_vcn18", "failed"} => ~domain
    /\ stage = "vcn18" => rails = {}
    /\ stage \in {"vcn28", "sleepmask", "rgu", "spm", "domain", "err_vcn28"} => ~domain
    /\ stage \in {"chipid", "err_domain", "emi", "btifclk", "release", "bound"} => domain
    /\ stage \in {"chipid", "err_domain", "emi", "btifclk", "release", "bound", "unbound"}
          => rails = {"vcn18", "vcn28"}
    /\ stage \in {"sleepmask", "rgu", "spm", "domain", "err_vcn28"}
          => rails = {"vcn18", "vcn28"}
    /\ stage \in {"vcn28", "err_vcn18"} => rails = {"vcn18"}
    /\ stage \in {"btifclk", "release"} => emi
    /\ stage = "release" => btifClk
    /\ Exchanging \/ stage = "load" => Up
    /\ done # {} => Released /\ emi /\ btifClk /\ ~mcuReset

(* An exchange is in progress only where the gate makes one.                *)
PhaseInv == phase # "send" => Exchanging

TypeInv == TypeOK /\ PhaseInv

LEMMA Steps ==
    /\ Queries \cup Scripts \cup PatchStages \subseteq Stages
    /\ \A s \in Queries \cup Scripts \cup PatchStages : Event(s) \in Events
  BY DEF Queries, Scripts, PatchStages, Stages, Event, Events

LEMMA EmptySeq == <<>> \in Seq(Events)
  OBVIOUS

LEMMA FirstPatch == 1 \in Patches /\ Len(Frags) \in Nat
  BY ConsysAssumption DEF Patches

LEMMA Budget ==
    ASSUME faults \in 0 .. MaxFaults, Fault \/ NoFault PROVE faults' \in 0 .. MaxFaults
  BY ConsysAssumption DEF Fault, NoFault

(* Where an exchange can lead, whatever its result.                         *)
LEMMA AfterFacts ==
    ASSUME TypeOK, Exchanging, NEW result \in Results, After(result)
    PROVE  /\ stage' \in {"retry", "dlm", "up", "load", "paddr", "frag", "reset", "dn",
                          "final", "bound"}
           /\ p' \in Patches /\ i' \in Nat \ {0}
           /\ push' \in Results /\ verdict' \in {"none", "pass", "fail"}
           /\ push' # push => stage' = "dn"
           /\ stage \in {"dn", "final"} => stage' \in {"dn", "final", "bound"}
           /\ verdict' = "pass" => verdict = "pass" \/ (stage = "final" /\ result = "ok")
  <1> USE FirstPatch DEF TypeOK, Go
  <1>1. CASE stage \in {"query", "retry"}
    BY <1>1 DEF After, AfterQuery, Scripts, PatchStages
  <1>2. CASE stage \in Scripts
    BY <1>2 DEF After, AfterScript, Scripts, PatchStages
  <1>3. CASE stage \in PatchStages
    <2>1. p < Len(Frags) => p + 1 \in Patches
      BY DEF Patches
    <2> QED
      BY <1>3, <2>1 DEF After, AfterPatch, PatchOk, NextPatch, Scripts, PatchStages
  <1>4. CASE stage = "final"
    BY <1>4 DEF After, Scripts, PatchStages
  <1> QED
    BY <1>1, <1>2, <1>3, <1>4 DEF Exchanging, Queries

(* The indices stay within the firmware files, the FIFO holds events only,  *)
(* and an exchange is in progress only in a stage that makes one.           *)
LEMMA TypeInvariant == Spec => []TypeInv
  <1>1. Init => TypeInv
    <2> SUFFICES ASSUME Init PROVE TypeInv
      OBVIOUS
    <2>1. faults \in 0 .. MaxFaults
      BY ConsysAssumption DEF Init
    <2>2. stage \in Stages /\ phase \in {"send", "mcu", "drain"} /\ PhaseInv
      BY DEF Init, Stages, PhaseInv
    <2>3. p \in Patches /\ i \in Nat \ {0}
      BY FirstPatch DEF Init
    <2>4. push \in Results /\ verdict \in {"none", "pass", "fail"}
      BY DEF Init, Results
    <2>5. /\ rails \subseteq {"vcn18", "vcn28"} /\ domain \in BOOLEAN
          /\ sleepMask \in BOOLEAN /\ mcuReset \in BOOLEAN
          /\ btifClk \in BOOLEAN /\ emi \in BOOLEAN /\ fast \in BOOLEAN
      BY DEF Init
    <2>6. done \subseteq Stages \X Patches \X (Nat \ {0})
      BY DEF Init
    <2>7. rx \in Seq(Events) /\ late \in Seq(Events)
      BY EmptySeq DEF Init
    <2> QED
      BY <2>1, <2>2, <2>3, <2>4, <2>5, <2>6, <2>7 DEF TypeInv, TypeOK
  <1>2. TypeInv /\ [Next]_vars => TypeInv'
    <2> SUFFICES ASSUME TypeInv, [Next]_vars PROVE TypeInv'
      OBVIOUS
    <2> USE DEF TypeInv, PhaseInv, powerVars, mcuVars, gateVars
    <2>1. CASE Vcn18 \/ Vcn28 \/ SleepMask \/ HoldMcu \/ SpmKey \/ DomainOn \/ ChipId
                 \/ EmiSetup \/ BtifClk \/ ReleaseMcu
      <3>1. faults' \in 0 .. MaxFaults
        BY <2>1, Budget DEF TypeOK, Vcn18, Vcn28, SleepMask, HoldMcu, SpmKey, DomainOn,
               ChipId, EmiSetup, BtifClk, ReleaseMcu
      <3>2. phase = "send"
        BY <2>1 DEF Exchanging, Queries, Scripts, PatchStages, Vcn18, Vcn28, SleepMask,
               HoldMcu, SpmKey, DomainOn, ChipId, EmiSetup, BtifClk, ReleaseMcu, TypeOK
      <3>3. stage' \in Stages
        BY <2>1 DEF Stages, Vcn18, Vcn28, SleepMask, HoldMcu, SpmKey, DomainOn, ChipId,
               EmiSetup, BtifClk, ReleaseMcu
      <3>4. UNCHANGED <<gateVars, mcuVars>>
        BY <2>1 DEF Vcn18, Vcn28, SleepMask, HoldMcu, SpmKey, DomainOn, ChipId, EmiSetup,
               BtifClk, ReleaseMcu
      <3>5. /\ rails' \subseteq {"vcn18", "vcn28"} /\ domain' \in BOOLEAN
            /\ sleepMask' \in BOOLEAN /\ mcuReset' \in BOOLEAN
            /\ btifClk' \in BOOLEAN /\ emi' \in BOOLEAN
        BY <2>1 DEF TypeOK, Vcn18, Vcn28, SleepMask, HoldMcu, SpmKey, DomainOn, ChipId,
               EmiSetup, BtifClk, ReleaseMcu
      <3> QED
        BY <3>1, <3>2, <3>3, <3>4, <3>5 DEF TypeOK
    <2>2. CASE Unwind \/ Unbind
      <3>1. phase = "send"
        BY <2>2 DEF Exchanging, Queries, Scripts, PatchStages, Unwind, Unwinding, Unbind,
               TypeOK
      <3>2. stage' \in Stages /\ rails' \subseteq rails /\ domain' \in BOOLEAN
        BY <2>2 DEF Unwind, Unwinding, Unbind, TypeOK, Stages
      <3>3. UNCHANGED <<gateVars, mcuVars, sleepMask, mcuReset, btifClk, emi, faults>>
        BY <2>2 DEF Unwind, Unbind
      <3> QED
        BY <3>1, <3>2, <3>3 DEF TypeOK
    <2>3. CASE Transmit
      <3>1. faults' \in 0 .. MaxFaults
        BY <2>3, Budget DEF Transmit, TypeOK
      <3>2. CASE phase' = "mcu"
        BY <2>3, <3>1, <3>2 DEF Transmit, TypeOK, Exchanging
      <3>3. CASE phase' # "mcu"
        <4>1. PICK r \in {"nomem", "timeout"} : After(r)
          BY <2>3, <3>3 DEF Transmit
        <4>2. r \in Results /\ Exchanging /\ phase' = "send"
          BY <2>3, <3>3 DEF Results, Transmit
        <4> QED
          BY <2>3, <3>1, <4>1, <4>2, AfterFacts DEF Transmit, TypeOK, Stages
      <3> QED
        BY <3>2, <3>3
    <2>4. CASE Drain
      <3>1. Result \in Results
        BY DEF Result, Results
      <3> QED
        BY <2>4, <3>1, AfterFacts DEF Drain, TypeOK, Stages
    <2>5. CASE Load
      <3>1. phase = "send"
        BY <2>5 DEF Exchanging, Queries, Scripts, PatchStages, Load, TypeOK
      <3> QED
        BY <2>5, <3>1 DEF Load, Go, TypeOK, Stages, Results
    <2>6. CASE McuAnswers
      <3>1. stage \in Queries \cup Scripts \cup PatchStages /\ Exchanging
        BY <2>6 DEF McuAnswers, Exchanging
      <3>2. Event(stage) \in Events /\ "error" \in Events
        BY <3>1, Steps DEF Events
      <3>3. Cmd \in Stages \X Patches \X (Nat \ {0})
        BY DEF Cmd, TypeOK
      <3>4. faults' \in 0 .. MaxFaults
        BY <2>6, Budget DEF McuAnswers, TypeOK
      <3>5. done' \subseteq Stages \X Patches \X (Nat \ {0}) /\ fast' \in BOOLEAN
        BY <2>6, <3>3 DEF McuAnswers, Execute, TypeOK
      <3>6. rx' \in Seq(Events) /\ late' \in Seq(Events)
        <4>1. rx \in Seq(Events) /\ late \in Seq(Events)
          BY DEF TypeOK
        <4>2. /\ Append(rx, Event(stage)) \in Seq(Events)
              /\ Append(rx, "error") \in Seq(Events)
              /\ Append(late, Event(stage)) \in Seq(Events)
          BY <3>2, <4>1
        <4>3. /\ rx' \in {rx, Append(rx, Event(stage)), Append(rx, "error")}
              /\ late' \in {late, Append(late, Event(stage))}
          BY <2>6 DEF McuAnswers
        <4> QED
          BY <4>1, <4>2, <4>3
      <3>7. UNCHANGED <<stage, p, i, push, verdict, powerVars>> /\ phase' = "drain"
        BY <2>6 DEF McuAnswers
      <3> QED
        BY <3>1, <3>4, <3>5, <3>6, <3>7 DEF TypeOK, Exchanging
    <2>7. CASE LateEvent
      <3>1. rx' \in Seq(Events) /\ late' \in Seq(Events)
        BY <2>7 DEF LateEvent, TypeOK
      <3>2. UNCHANGED <<stage, gateVars, powerVars, done, fast, faults>>
        BY <2>7 DEF LateEvent
      <3> QED
        BY <3>1, <3>2 DEF TypeOK, Exchanging
    <2>8. CASE UNCHANGED vars
      BY <2>8 DEF vars, TypeOK, Exchanging
    <2> QED
      BY <2>1, <2>2, <2>3, <2>4, <2>5, <2>6, <2>7, <2>8 DEF Next, Driver
  <1> QED
    BY <1>1, <1>2, PTL DEF Spec

(* Type correctness of the driver and of the MCU's queues.                  *)
THEOREM TypeCorrect == Spec => []TypeOK
  BY TypeInvariant, PTL DEF TypeInv

-----------------------------------------------------------------------------
(* Power order                                                              *)

(* The MCU executes nothing before the gate releases it, nothing after a    *)
(* failed sequence, and no step of the driver takes power away from a gate  *)
(* that has started: whatever fails, the domain is on only between the two  *)
(* rails' enable and disable.                                               *)
THEOREM PoweredCorrect == Spec => []PoweredInOrder
  <1> USE DEF powerVars, mcuVars, gateVars
  <1>1. Init => PowerInv
    BY DEF Init, PowerInv, Exchanging, Queries, Scripts, PatchStages
  <1>2. TypeInv /\ PowerInv /\ [Next]_vars => PowerInv'
    <2> SUFFICES ASSUME TypeInv, PowerInv, [Next]_vars PROVE PowerInv'
      OBVIOUS
    <2>1. CASE Vcn18 \/ Vcn28
      <3>1. CASE Vcn18
        BY <3>1 DEF Vcn18, PowerInv, Up, Released, Exchanging, Queries, Scripts, PatchStages
      <3>2. CASE Vcn28
        BY <3>2 DEF Vcn28, PowerInv, Up, Released, Exchanging, Queries, Scripts, PatchStages
      <3> QED
        BY <2>1, <3>1, <3>2
    <2>9. CASE SleepMask \/ HoldMcu
      BY <2>9 DEF SleepMask, HoldMcu, PowerInv, Up, Released, Exchanging,
                  Queries, Scripts, PatchStages
    <2>2. CASE SpmKey \/ DomainOn \/ ChipId
      BY <2>2 DEF SpmKey, DomainOn, ChipId, PowerInv, Up, Released, Exchanging,
                  Queries, Scripts, PatchStages
    <2>3. CASE EmiSetup \/ BtifClk \/ ReleaseMcu
      BY <2>3 DEF EmiSetup, BtifClk, ReleaseMcu, PowerInv, Up, Released, Exchanging,
                  Queries, Scripts, PatchStages
    <2>4. CASE Unwind \/ Unbind
      BY <2>4 DEF Unwind, Unwinding, Unbind, PowerInv, Up, Released, Exchanging,
                  Queries, Scripts, PatchStages
    <2>5. CASE Transmit \/ Drain
      <3>1. Exchanging /\ UNCHANGED <<powerVars, done>>
        BY <2>5 DEF Transmit, Drain
      <3>2. stage' = stage \/ \E r \in Results : After(r)
        BY <2>5 DEF Transmit, Drain, Results, Result
      <3>3. stage' = stage
              \/ stage' \in {"retry", "dlm", "up", "load", "paddr", "frag", "reset", "dn",
                             "final", "bound"}
        BY <3>1, <3>2, AfterFacts DEF TypeInv
      <3> QED
        BY <3>1, <3>3 DEF PowerInv, Up, Released, Exchanging, Queries, Scripts, PatchStages
    <2>6. CASE Load
      <3>1. stage = "load" /\ stage' \in {"final", "dn", "addr"}
        BY <2>6 DEF Load, Go
      <3>2. UNCHANGED <<powerVars, done>>
        BY <2>6 DEF Load
      <3> QED
        BY <3>1, <3>2 DEF PowerInv, Up, Released, Exchanging, Queries, Scripts, PatchStages
    <2>7. CASE McuAnswers
      <3>1. UNCHANGED <<stage, powerVars>> /\ Exchanging
        BY <2>7 DEF McuAnswers, TypeInv, PhaseInv
      <3> QED
        BY <3>1 DEF PowerInv, Up, Released, Exchanging
    <2>8. CASE LateEvent \/ UNCHANGED vars
      BY <2>8 DEF LateEvent, vars, PowerInv, Up, Released, Exchanging
    <2> QED
      BY <2>1, <2>2, <2>3, <2>4, <2>5, <2>6, <2>7, <2>8, <2>9 DEF Next, Driver
  <1>3. TypeInv /\ PowerInv => PoweredInOrder
    BY DEF TypeInv, TypeOK, PowerInv, PoweredInOrder, Up, Stages, Released, Exchanging,
           Queries, Scripts, PatchStages
  <1> QED
    BY <1>1, <1>2, <1>3, TypeInvariant, PTL DEF Spec

-----------------------------------------------------------------------------
(* The end of a failed push                                                 *)

PushInv == push # "ok" => stage \in {"dn", "final", "bound", "unbound"}

(* Once a firmware file could not be pushed, the MCU executes only the      *)
(* clock restore and the final query.                                       *)
THEOREM FailedPushCorrect == Spec => FailureEndsPush
  <1> USE DEF powerVars, mcuVars, gateVars
  <1>1. Init => PushInv
    BY DEF Init, PushInv
  <1>2. TypeInv /\ PushInv /\ [Next]_vars => PushInv'
    <2> SUFFICES ASSUME TypeInv, PushInv, [Next]_vars PROVE PushInv'
      OBVIOUS
    <2>1. CASE Vcn18 \/ Vcn28 \/ SleepMask \/ HoldMcu \/ SpmKey \/ DomainOn \/ ChipId
                 \/ EmiSetup \/ BtifClk \/ ReleaseMcu \/ Unwind \/ Unbind
      BY <2>1 DEF Vcn18, Vcn28, SleepMask, HoldMcu, SpmKey, DomainOn, ChipId, EmiSetup,
                  BtifClk, ReleaseMcu, Unwind, Unwinding, Unbind, PushInv
    <2>2. CASE Transmit \/ Drain
      <3>1. UNCHANGED <<stage, push>> \/ \E r \in Results : After(r)
        BY <2>2 DEF Transmit, Drain, Results, Result
      <3>2. Exchanging
        BY <2>2 DEF Transmit, Drain
      <3>3. CASE UNCHANGED <<stage, push>>
        BY <3>3 DEF PushInv
      <3>4. ASSUME NEW r \in Results, After(r) PROVE PushInv'
        <4>1. /\ push' # push => stage' = "dn"
              /\ stage \in {"dn", "final"} => stage' \in {"dn", "final", "bound"}
          BY <3>2, <3>4, AfterFacts DEF TypeInv
        <4>2. push # "ok" => stage \in {"dn", "final"}
          BY <3>2 DEF PushInv, Exchanging, Queries, Scripts, PatchStages
        <4> QED
          BY <4>1, <4>2 DEF PushInv
      <3> QED
        BY <3>1, <3>3, <3>4
    <2>3. CASE Load
      BY <2>3 DEF Load, Go, PushInv
    <2>4. CASE McuAnswers \/ LateEvent \/ UNCHANGED vars
      BY <2>4 DEF McuAnswers, LateEvent, vars, PushInv
    <2> QED
      BY <2>1, <2>2, <2>3, <2>4 DEF Next, Driver
  <1>3. TypeInv /\ PushInv /\ [Next]_vars
           => [push # "ok" => \A c \in done' \ done : c[1] \in {"dn", "final"}]_vars
    <2> SUFFICES ASSUME TypeInv, PushInv, [Next]_vars, push # "ok", NEW c \in done' \ done
                 PROVE  c[1] \in {"dn", "final"}
      OBVIOUS
    <2>1. McuAnswers
      BY DEF Next, Driver, vars, Vcn18, Vcn28, SleepMask, HoldMcu, SpmKey, DomainOn, ChipId,
             EmiSetup, BtifClk, ReleaseMcu, Unwind, Unbind, Transmit, Drain, Load, LateEvent
    <2>2. stage \in {"dn", "final"}
      BY <2>1 DEF McuAnswers, TypeInv, PhaseInv, PushInv, Exchanging, Queries, Scripts,
                  PatchStages
    <2>3. c = Cmd
      BY <2>1 DEF McuAnswers, Execute
    <2> QED
      BY <2>2, <2>3 DEF Cmd
  <1> QED
    BY <1>1, <1>2, <1>3, TypeInvariant, PTL DEF Spec, FailureEndsPush

-----------------------------------------------------------------------------
(* The verdict                                                              *)

Asked == \E c \in done : c[1] \in Queries

Holds(s, e) == \E n \in DOMAIN s : s[n] = e

(* A query event, in the FIFO or still to come, is the answer to a query.   *)
AnswerInv ==
    /\ Holds(rx, "query") \/ Holds(late, "query") => Asked
    /\ verdict = "pass" => Asked

LEMMA HoldsAppend ==
    ASSUME NEW s \in Seq(Events), NEW e, Holds(Append(s, e), "query")
    PROVE  Holds(s, "query") \/ e = "query"
  BY DEF Holds

LEMMA HoldsTail ==
    ASSUME NEW s \in Seq(Events), s # <<>>, Holds(Tail(s), "query")
    PROVE  Holds(s, "query")
  BY DEF Holds

LEMMA HoldsHead ==
    ASSUME NEW s \in Seq(Events), s # <<>>, Head(s) = "query"
    PROVE  Holds(s, "query")
  BY DEF Holds

(* The gate passes only if the MCU has executed a query, whatever events    *)
(* are lost, wrong or late.                                                 *)
THEOREM PassCorrect == Spec => []PassIsAnswered
  <1> USE DEF powerVars, mcuVars, gateVars
  <1>1. Init => AnswerInv
    BY DEF Init, AnswerInv, Holds
  <1>2. TypeInv /\ AnswerInv /\ [Next]_vars => AnswerInv'
    <2> SUFFICES ASSUME TypeInv, AnswerInv, [Next]_vars PROVE AnswerInv'
      OBVIOUS
    <2>0. rx \in Seq(Events) /\ late \in Seq(Events)
      BY DEF TypeInv, TypeOK
    <2>1. CASE UNCHANGED <<rx, late, done, verdict>>
      BY <2>1 DEF AnswerInv, Asked
    <2>2. CASE Transmit
      <3>1. UNCHANGED <<rx, late, done>> /\ Exchanging
        BY <2>2 DEF Transmit
      <3>2. verdict' = verdict \/ \E r \in {"nomem", "timeout"} : After(r)
        BY <2>2 DEF Transmit
      <3>3. verdict' = "pass" => verdict = "pass"
        BY <3>1, <3>2, AfterFacts DEF TypeInv, Results
      <3> QED
        BY <3>1, <3>3 DEF AnswerInv, Asked
    <2>3. CASE Drain
      <3>1. rx' = <<>> /\ UNCHANGED <<late, done>>
        BY <2>3 DEF Drain
      <3>2. Result \in Results /\ Exchanging /\ After(Result)
        BY <2>3 DEF Drain, Result, Results
      <3>3. verdict' = "pass" => verdict = "pass" \/ (stage = "final" /\ Matched(stage))
        <4>1. verdict' = "pass" => verdict = "pass" \/ (stage = "final" /\ Result = "ok")
          BY <3>2, AfterFacts DEF TypeInv
        <4>2. Result = "ok" => Matched(stage)
          BY DEF Result
        <4> QED
          BY <4>1, <4>2
      <3>4. stage = "final" /\ Matched(stage) => Holds(rx, "query")
        <4>1. stage = "final" => Event(stage) = "query"
          BY DEF Event, Queries, Scripts
        <4> QED
          BY <4>1 DEF Matched, Holds
      <3>5. ~Holds(rx', "query")
        BY <3>1 DEF Holds
      <3> QED
        BY <3>1, <3>3, <3>4, <3>5 DEF AnswerInv, Asked
    <2>4. CASE McuAnswers
      <3>1. verdict' = verdict /\ stage \in Queries \cup Scripts \cup PatchStages
        BY <2>4 DEF McuAnswers, TypeInv, PhaseInv, Exchanging
      <3>2. Event(stage) = "query" => stage \in Queries
        BY <3>1 DEF Event, Queries, Scripts, PatchStages
      <3>3. CASE Execute
        <4>1. done' = done \cup {Cmd}
          BY <3>3 DEF Execute
        <4>2. Asked => Asked'
          BY <4>1 DEF Asked
        <4>3. stage \in Queries => Asked'
          <5>1. Cmd \in done' /\ Cmd[1] = stage
            BY <4>1 DEF Cmd
          <5> QED
            BY <5>1 DEF Asked
        <4>4. /\ rx' \in {rx, Append(rx, Event(stage)), Append(rx, "error")}
              /\ late' \in {late, Append(late, Event(stage))}
          BY <2>4 DEF McuAnswers
        <4>5. Holds(rx', "query") => Holds(rx, "query") \/ Event(stage) = "query"
          BY <2>0, <4>4, HoldsAppend
        <4>6. Holds(late', "query") => Holds(late, "query") \/ Event(stage) = "query"
          BY <2>0, <4>4, HoldsAppend
        <4> QED
          BY <3>1, <3>2, <4>2, <4>3, <4>5, <4>6 DEF AnswerInv
      <3>4. CASE ~Execute
        <4>1. done' = done /\ late' = late /\ rx' \in {rx, Append(rx, "error")}
          BY <2>4, <3>4 DEF McuAnswers
        <4>2. Holds(rx', "query") => Holds(rx, "query")
          BY <2>0, <4>1, HoldsAppend
        <4> QED
          BY <3>1, <4>1, <4>2 DEF AnswerInv, Asked
      <3> QED
        BY <3>3, <3>4
    <2>5. CASE LateEvent
      <3>1. /\ late # <<>> /\ rx' = Append(rx, Head(late)) /\ late' = Tail(late)
            /\ UNCHANGED <<done, verdict>>
        BY <2>5 DEF LateEvent
      <3>2. Holds(rx', "query") => Holds(rx, "query") \/ Holds(late, "query")
        BY <2>0, <3>1, HoldsAppend, HoldsHead
      <3>3. Holds(late', "query") => Holds(late, "query")
        BY <2>0, <3>1, HoldsTail
      <3> QED
        BY <3>1, <3>2, <3>3 DEF AnswerInv, Asked
    <2>6. CASE Vcn18 \/ Vcn28 \/ SleepMask \/ HoldMcu \/ SpmKey \/ DomainOn \/ ChipId
                 \/ EmiSetup \/ BtifClk \/ ReleaseMcu \/ Unwind \/ Unbind \/ Load
      BY <2>1, <2>6 DEF Vcn18, Vcn28, SleepMask, HoldMcu, SpmKey, DomainOn, ChipId,
                EmiSetup, BtifClk, ReleaseMcu, Unwind, Unbind, Load
    <2> QED
      BY <2>1, <2>2, <2>3, <2>4, <2>5, <2>6 DEF Next, Driver, vars
  <1>3. AnswerInv => PassIsAnswered
    BY DEF AnswerInv, PassIsAnswered, Asked
  <1> QED
    BY <1>1, <1>2, <1>3, TypeInvariant, PTL DEF Spec

-----------------------------------------------------------------------------
(* Fragments and their address                                              *)

Used == MaxFaults - faults

(* Until a second fault: nothing unexpected is in flight before the first;  *)
(* the commands before the one in progress are executed, and so is that one *)
(* unless it was the one lost, when no event can be taken for its answer.   *)
BlindInv ==
    /\ stage \in {"addr", "paddr", "reset"} => i = 1
    /\ Used = 0 => late = <<>> /\ (phase # "drain" => rx = <<>>)
    /\ Used <= 1 /\ stage \in PatchStages => Before(Cmd) \subseteq done
    /\ Used <= 1 /\ stage \in PatchStages /\ phase = "drain" /\ Cmd \notin done
          => late = <<>> /\ rx \in {<<>>, <<"error">>}
    /\ NoBlindFragments

(* Only a patch command that went well leads to another of the same file.   *)
LEMMA PatchFacts ==
    ASSUME TypeOK, Exchanging, NEW result, After(result), stage' \in PatchStages
    PROVE  result = "ok" /\ stage \in PatchStages /\ PatchOk
  BY DEF After, AfterQuery, AfterScript, AfterPatch, PatchStages, Queries, Scripts, Go

(* What that other command needs is what this one needed, and this one.     *)
LEMMA BeforeNext ==
    ASSUME TypeOK, BlindInv, stage \in PatchStages, PatchOk, stage' \in PatchStages
    PROVE  /\ stage' \in {"addr", "paddr", "reset"} => i' = 1
           /\ Before(Cmd)' \subseteq Before(Cmd) \cup {Cmd}
  <1> USE DEF Go, Cmd
  <1>0. i \in Nat \ {0}
    BY DEF TypeOK
  <1>1. CASE stage = "addr"
    BY <1>1 DEF PatchOk, Before, BlindInv
  <1>2. CASE stage = "paddr"
    BY <1>2 DEF PatchOk, Before, BlindInv
  <1>3. CASE stage = "frag"
    <2>1. CASE i < Frags[p]
      <3>1. stage' = "frag" /\ p' = p /\ i' = i + 1
        BY <1>3, <2>1 DEF PatchOk
      <3>2. 1 .. (i + 1) - 1 = (1 .. i - 1) \cup {i}
        BY <1>0
      <3> QED
        BY <1>3, <3>1, <3>2 DEF Before
    <2>2. CASE ~(i < Frags[p])
      <3>1. stage' = "reset" /\ p' = p /\ i' = 1
        BY <1>3, <2>2 DEF PatchOk
      <3>2. Frags[p] \in Nat
        BY ConsysAssumption DEF TypeOK, Patches
      <3>3. 1 .. Frags[p] \subseteq (1 .. i - 1) \cup {i}
        BY <1>0, <2>2, <3>2
      <3> QED
        BY <1>3, <3>1, <3>3 DEF Before
    <2> QED
      BY <2>1, <2>2
  <1>4. CASE stage = "reset"
    BY <1>4 DEF PatchOk, NextPatch, PatchStages
  <1> QED
    BY <1>1, <1>2, <1>3, <1>4 DEF PatchStages

(* Up to the first failure, whatever it is, the MCU accepts a fragment only *)
(* when it has executed both address commands of the file and every         *)
(* fragment before.                                                         *)
THEOREM NoBlindFragmentsCorrect == Spec => []NoBlindFragments
  <1> USE DEF powerVars, mcuVars, gateVars
  <1>1. Init => BlindInv
    BY DEF Init, BlindInv, PatchStages, NoBlindFragments
  <1>2. TypeInv /\ BlindInv /\ [Next]_vars => BlindInv'
    <2> SUFFICES ASSUME TypeInv, BlindInv, [Next]_vars PROVE BlindInv'
      OBVIOUS
    <2>0. MaxFaults \in Nat /\ faults \in 0 .. MaxFaults /\ TypeOK
      BY ConsysAssumption DEF TypeInv, TypeOK
    <2>1. CASE Vcn18 \/ Vcn28 \/ SleepMask \/ HoldMcu \/ SpmKey \/ DomainOn \/ ChipId
                 \/ EmiSetup \/ BtifClk \/ ReleaseMcu \/ Unwind \/ Unbind
      <3>1. UNCHANGED <<phase, p, i, done, rx, late>>
        BY <2>1 DEF Vcn18, Vcn28, SleepMask, HoldMcu, SpmKey, DomainOn, ChipId, EmiSetup,
               BtifClk, ReleaseMcu, Unwind, Unbind
      <3>2. faults' \in {faults, faults - 1}
        BY <2>1 DEF Vcn18, Vcn28, SleepMask, HoldMcu, SpmKey, DomainOn, ChipId, EmiSetup,
               BtifClk, ReleaseMcu, Unwind, Unbind, Fault, NoFault
      <3>3. stage' \notin PatchStages
        BY <2>1 DEF Vcn18, Vcn28, SleepMask, HoldMcu, SpmKey, DomainOn, ChipId, EmiSetup,
               BtifClk, ReleaseMcu, Unwind, Unwinding, Unbind, PatchStages
      <3> QED
        BY <2>0, <3>1, <3>2, <3>3 DEF BlindInv, Used, NoBlindFragments, PatchStages, Before
    <2>2. CASE Transmit
      <3>1. UNCHANGED <<rx, late, done>> /\ Exchanging /\ phase = "send"
        BY <2>2 DEF Transmit
      <3>2. CASE NoFault /\ phase' = "mcu" /\ UNCHANGED <<stage, p, i>>
        BY <3>1, <3>2 DEF NoFault, BlindInv, Used, NoBlindFragments, Before, Cmd
      <3>3. CASE Fault /\ phase' = "send" /\ \E r \in {"nomem", "timeout"} : After(r)
        <4>1. stage' \notin PatchStages
          BY <2>0, <3>1, <3>3, PatchFacts
        <4> QED
          BY <2>0, <3>1, <3>3, <4>1
             DEF Fault, BlindInv, Used, NoBlindFragments, PatchStages, Before
      <3> QED
        BY <2>2, <3>2, <3>3 DEF Transmit
    <2>3. CASE Drain
      <3>1. /\ Exchanging /\ phase = "drain" /\ After(Result)
            /\ phase' = "send" /\ rx' = <<>> /\ UNCHANGED <<done, late, faults>>
        BY <2>3 DEF Drain
      <3>2. CASE stage' \notin PatchStages
        BY <3>1, <3>2 DEF BlindInv, Used, NoBlindFragments, PatchStages, Before
      <3>3. CASE stage' \in PatchStages
        <4>1. Result = "ok" /\ stage \in PatchStages /\ PatchOk
          BY <2>0, <3>1, <3>3, PatchFacts
        <4>2. /\ stage' \in {"addr", "paddr", "reset"} => i' = 1
              /\ Before(Cmd)' \subseteq Before(Cmd) \cup {Cmd}
          BY <2>0, <3>3, <4>1, BeforeNext
        <4>3. rx \notin {<<>>, <<"error">>}
          BY <4>1 DEF Result, Matched, Event, PatchStages, Queries, Scripts
        <4>4. Used <= 1 => Cmd \in done /\ Before(Cmd) \subseteq done
          BY <3>1, <4>1, <4>3 DEF BlindInv
        <4> QED
          BY <3>1, <4>2, <4>4 DEF BlindInv, Used, NoBlindFragments, Before
      <3> QED
        BY <3>2, <3>3
    <2>4. CASE Load
      <3>1. UNCHANGED <<phase, mcuVars, faults>> /\ stage' \in {"final", "dn", "addr"} /\ i' = 1
        BY <2>4 DEF Load, Go
      <3>2. phase = "send"
        BY <2>4 DEF Load, TypeInv, PhaseInv, Exchanging, Queries, Scripts, PatchStages
      <3>3. stage' \in PatchStages => Before(Cmd)' = {}
        BY <3>1 DEF Before, Cmd, PatchStages
      <3>4. NoBlindFragments'
        BY <3>1 DEF BlindInv, NoBlindFragments, Before
      <3>5. Used' = Used /\ (stage' \in {"addr", "paddr", "reset"} => i' = 1)
        BY <3>1 DEF Used
      <3>6. Used' = 0 => late' = <<>> /\ (phase' # "drain" => rx' = <<>>)
        BY <3>1, <3>5 DEF BlindInv
      <3>7. Used' <= 1 /\ stage' \in PatchStages => Before(Cmd)' \subseteq done'
        BY <3>3
      <3>8. phase' # "drain"
        BY <3>1, <3>2
      <3> QED
        BY <3>4, <3>5, <3>6, <3>7, <3>8 DEF BlindInv
    <2>5. CASE McuAnswers
      <3>1. phase = "mcu" /\ phase' = "drain" /\ UNCHANGED <<stage, p, i>>
        BY <2>5 DEF McuAnswers
      <3>2. Cmd' = Cmd /\ Before(Cmd)' = Before(Cmd)
        BY <3>1 DEF Cmd, Before
      <3>3. Used <= 1 => Before(Cmd) \subseteq done
        <4>1. stage \notin PatchStages => Before(Cmd) = {}
          BY DEF Before, Cmd, PatchStages
        <4> QED
          BY <4>1 DEF BlindInv
      <3>4. faults' \in {faults, faults - 1} /\ faults' \in 0 .. MaxFaults
        BY <2>0, <2>5, Budget DEF McuAnswers, Fault, NoFault
      <3>11. Used' = MaxFaults - faults' /\ Used = MaxFaults - faults
        BY DEF Used
      <3>12. faults \in 0 .. MaxFaults /\ MaxFaults \in Nat
        BY <2>0
      <3>5. Used' = 0 => Used = 0 /\ faults' = faults
        <4>1. CASE faults' = faults
          BY <3>11, <4>1
        <4>2. CASE faults' = faults - 1
          BY <3>11, <3>12, <4>2
        <4> QED
          BY <3>4, <4>1, <4>2
      <3>6. Used' <= 1 => Used <= 1
        <4>1. CASE faults' = faults
          BY <3>11, <4>1
        <4>2. CASE faults' = faults - 1
          BY <3>11, <3>12, <4>2
        <4> QED
          BY <3>4, <4>1, <4>2
      <3>7. Used' = 0 => late' = <<>>
        BY <2>0, <2>5, <3>5 DEF McuAnswers, Fault, BlindInv
      <3>8. done' \in {done, done \cup {Cmd}}
        BY <2>5 DEF McuAnswers, Execute
      <3>9. NoBlindFragments'
        BY <3>3, <3>6, <3>8 DEF BlindInv, NoBlindFragments, Used, Before
      <3>10. ASSUME Used' <= 1, stage \in PatchStages, Cmd \notin done'
             PROVE  late' = <<>> /\ rx' \in {<<>>, <<"error">>}
        <4>1. Fault /\ done' = done /\ late' = late /\ rx' \in {rx, Append(rx, "error")}
          BY <2>5, <3>10 DEF McuAnswers, Execute, PatchStages, Queries
        <4>2. Used = 0
          BY <2>0, <3>10, <4>1 DEF Fault, Used
        <4>3. rx = <<>> /\ late = <<>>
          BY <3>1, <4>2 DEF BlindInv
        <4> QED
          BY <4>1, <4>3
      <3> QED
        BY <3>1, <3>2, <3>3, <3>6, <3>7, <3>8, <3>9, <3>10 DEF BlindInv
    <2>6. CASE LateEvent
      <3>1. late # <<>> /\ UNCHANGED <<stage, phase, p, i, done, faults>>
        BY <2>6 DEF LateEvent
      <3> QED
        BY <3>1 DEF BlindInv, Used, NoBlindFragments, Before, Cmd
    <2>7. CASE UNCHANGED vars
      BY <2>7 DEF vars, BlindInv, Used, NoBlindFragments, Before, Cmd
    <2> QED
      BY <2>1, <2>2, <2>3, <2>4, <2>5, <2>6, <2>7 DEF Next, Driver
  <1>3. BlindInv => NoBlindFragments
    BY DEF BlindInv
  <1> QED
    BY <1>1, <1>2, <1>3, TypeInvariant, PTL DEF Spec

-----------------------------------------------------------------------------
(* probe() runs out of things to do.                                        *)

(* An index counts up to the length of what it is an index of.              *)
IndexInv ==
    /\ stage = "dlm" => i \in 1 .. DlmLen
    /\ stage = "up" => i \in 1 .. UpLen
    /\ stage = "dn" => i \in 1 .. DnLen
    /\ stage = "frag" => i \in 1 .. Frags[p]

(* The lengths are numbers, and none is zero.                               *)
LEMMA Lengths ==
    /\ DlmLen \in Nat \ {0} /\ UpLen \in Nat \ {0} /\ DnLen \in Nat \ {0}
    /\ Len(Frags) \in Nat \ {0} /\ \A q \in Patches : q \in Nat /\ Frags[q] \in Nat \ {0}
  BY ConsysAssumption DEF Patches

(* Where an exchange can lead, with the file and the index.                 *)
LEMMA AfterMoves ==
    ASSUME TypeOK, Exchanging, NEW result, After(result)
    PROVE  \/ stage \in {"query", "retry"} /\ stage' \in {"retry", "dlm"} /\ stage' # stage
              /\ i' \in {1, i} /\ (stage' = "dlm" => i' = 1) /\ p' = p
           \/ stage = "dlm" /\ stage' = "dlm" /\ i < DlmLen /\ i' = i + 1 /\ p' = p
           \/ stage = "dlm" /\ stage' = "up" /\ i' = 1 /\ p' = p
           \/ stage = "up" /\ stage' = "up" /\ i < UpLen /\ i' = i + 1 /\ p' = p
           \/ stage = "up" /\ stage' = "load" /\ i' = 1 /\ p' = 1
           \/ stage = "dn" /\ stage' = "dn" /\ i < DnLen /\ i' = i + 1 /\ p' = p
           \/ stage = "dn" /\ stage' = "final" /\ p' = p
           \/ stage = "addr" /\ stage' = "paddr" /\ p' = p
           \/ stage = "paddr" /\ stage' = "frag" /\ i' = 1 /\ p' = p
           \/ stage = "frag" /\ stage' = "frag" /\ i < Frags[p] /\ i' = i + 1 /\ p' = p
           \/ stage = "frag" /\ stage' = "reset" /\ p' = p
           \/ stage = "reset" /\ stage' = "load" /\ p < Len(Frags) /\ p' = p + 1
           \/ stage \in PatchStages /\ stage' = "dn" /\ i' = 1 /\ p' = p
           \/ stage = "final" /\ stage' = "bound" /\ p' = p
  <1> USE DEF Go
  <1>1. CASE stage \in {"query", "retry"}
    BY <1>1 DEF After, AfterQuery, Scripts, PatchStages
  <1>2. CASE stage \in Scripts
    BY <1>2 DEF After, AfterScript, Scripts, PatchStages
  <1>3. CASE stage \in PatchStages
    BY <1>3 DEF After, AfterPatch, PatchOk, NextPatch, Scripts, PatchStages
  <1>4. CASE stage = "final"
    BY <1>4 DEF After, Scripts, PatchStages
  <1> QED
    BY <1>1, <1>2, <1>3, <1>4 DEF Exchanging, Queries

(* The stages of the power-on sequence, of its unwinding and of the gate up *)
(* to the first query, and where each leads to.                             *)
Onward ==
    {<<"vcn18", "vcn28">>, <<"vcn18", "failed">>, <<"vcn28", "sleepmask">>,
     <<"vcn28", "err_vcn18">>, <<"sleepmask", "rgu">>,
     <<"sleepmask", "err_vcn28">>, <<"rgu", "spm">>, <<"rgu", "err_vcn28">>,
     <<"spm", "domain">>, <<"spm", "err_vcn28">>, <<"domain", "chipid">>,
     <<"domain", "err_vcn28">>, <<"chipid", "emi">>,
     <<"chipid", "err_domain">>, <<"err_domain", "err_vcn28">>,
     <<"err_vcn28", "err_vcn18">>, <<"err_vcn18", "failed">>,
     <<"emi", "btifclk">>, <<"emi", "bound">>, <<"btifclk", "release">>,
     <<"btifclk", "bound">>, <<"release", "query">>, <<"release", "bound">>}

(* The driver's steps outside an exchange.                                  *)
LEMMA StageMoves ==
    ASSUME Driver
    PROVE  \/ UNCHANGED <<p, i>> /\ <<stage, stage'>> \in Onward
           \/ /\ stage = "load" /\ stage' \in {"addr", "dn", "final"} /\ p' = p /\ i' = 1
           \/ /\ Exchanging /\ phase = "send" /\ phase' = "mcu" /\ UNCHANGED <<stage, p, i>>
           \/ Exchanging /\ phase' = "send" /\ \E result : After(result)
  <1>1. CASE Vcn18 \/ Vcn28 \/ SleepMask \/ HoldMcu \/ SpmKey
    BY <1>1 DEF Vcn18, Vcn28, SleepMask, HoldMcu, SpmKey, gateVars, Onward
  <1>2. CASE DomainOn \/ ChipId \/ Unwind
    BY <1>2 DEF DomainOn, ChipId, Unwind, Unwinding, gateVars, Onward
  <1>3. CASE EmiSetup \/ BtifClk \/ ReleaseMcu
    BY <1>3 DEF EmiSetup, BtifClk, ReleaseMcu, gateVars, Onward
  <1>4. CASE Load
    BY <1>4 DEF Load, Go
  <1>5. CASE Transmit \/ Drain
    BY <1>5 DEF Transmit, Drain
  <1> QED
    BY <1>1, <1>2, <1>3, <1>4, <1>5 DEF Driver

(* No index leaves its script or its file.                                  *)
LEMMA IndexStep == ASSUME TypeInv, IndexInv, [Next]_vars PROVE IndexInv'
  <1> USE Lengths DEF IndexInv
  <1>1. stage \in Stages /\ i \in Nat \ {0} /\ p \in Patches
    BY DEF TypeInv, TypeOK
  <1>2. CASE Driver
    <2>1. CASE Exchanging /\ \E result : After(result)
      <3>1. PICK result : After(result)
        BY <2>1
      <3> QED
        BY <1>1, <2>1, <3>1, AfterMoves DEF TypeInv, PatchStages
    <2>2. CASE stage = "load" /\ stage' \in {"addr", "dn", "final"} /\ p' = p /\ i' = 1
      BY <1>1, <2>2
    <2>3. CASE UNCHANGED <<stage, p, i>>
      BY <2>3
    <2>4. CASE stage' \notin {"dlm", "up", "dn", "frag"}
      BY <2>4
    <2> QED
      BY <1>2, <2>1, <2>2, <2>3, <2>4, StageMoves DEF Onward
  <1>3. CASE McuAnswers \/ LateEvent \/ UNCHANGED vars
    BY <1>3 DEF McuAnswers, LateEvent, gateVars, vars
  <1>4. CASE Unbind
    BY <1>4 DEF Unbind
  <1> QED
    BY <1>2, <1>3, <1>4 DEF Next

(* The numbers, one by one, now and after the step.                         *)
LEMMA RemainsParts ==
    /\ Remains[1] = StagesLeft(stage) /\ Remains[2] = Len(Frags) - p
    /\ Remains[3] = FileStepsLeft(stage) /\ Remains[4] = RepeatsLeft(stage, p, i)
    /\ Remains[5] = ExchangeLeft
    /\ Remains'[1] = StagesLeft(stage') /\ Remains'[2] = Len(Frags) - p'
    /\ Remains'[3] = FileStepsLeft(stage') /\ Remains'[4] = RepeatsLeft(stage', p', i')
    /\ Remains'[5] = ExchangeLeft'
  BY DEF Remains, StagesLeft, FileStepsLeft, RepeatsLeft

(* The first number that changes gets smaller.                              *)
LEMMA LessAt ==
    ASSUME NEW a, NEW b
    PROVE  /\ a[1] < b[1] => Less(a, b)
           /\ a[1] = b[1] /\ a[2] < b[2] => Less(a, b)
           /\ a[1] = b[1] /\ a[2] = b[2] /\ a[3] < b[3] => Less(a, b)
           /\ a[1] = b[1] /\ a[2] = b[2] /\ a[3] = b[3] /\ a[4] < b[4] => Less(a, b)
           /\ a[1] = b[1] /\ a[2] = b[2] /\ a[3] = b[3] /\ a[4] = b[4] /\ a[5] < b[5]
                => Less(a, b)
  <1>1. ASSUME NEW k \in 1..5, a[k] < b[k], \A n \in 1..k - 1 : a[n] = b[n]
        PROVE  Less(a, b)
    BY <1>1 DEF Less
  <1> QED
    BY <1>1

(* What is left are natural numbers.                                        *)
LEMMA RemainsNat == ASSUME TypeInv, IndexInv PROVE \A k \in 1..5 : Remains[k] \in Nat
  <1>1. /\ stage \in Stages /\ phase \in {"send", "mcu", "drain"}
        /\ p \in 1 .. Len(Frags) /\ Len(Frags) \in Nat
    BY Lengths DEF TypeInv, TypeOK, Patches
  <1>2. StagesLeft(stage) \in Nat
    BY <1>1 DEF Stages, StagesLeft, PatchStages
  <1>3. FileStepsLeft(stage) \in Nat /\ ExchangeLeft \in Nat
    BY <1>1 DEF FileStepsLeft, ExchangeLeft
  <1>4. RepeatsLeft(stage, p, i) \in Nat
    BY <1>1, Lengths DEF RepeatsLeft, IndexInv, Patches
  <1>5. \A k \in 1..5 : k = 1 \/ k = 2 \/ k = 3 \/ k = 4 \/ k = 5
    OBVIOUS
  <1> QED
    BY <1>1, <1>2, <1>3, <1>4, <1>5, RemainsParts

(* An exchange that has ended leads to a later stage, the next file, a later*)
(* command of this one, or the next reg-write or fragment.                  *)
LEMMA AfterShrinks ==
    ASSUME TypeInv, IndexInv, Exchanging, NEW result, After(result)
    PROVE  Less(Remains', Remains)
  <1>1. /\ TypeOK /\ p \in 1 .. Len(Frags) /\ Len(Frags) \in Nat /\ i \in Nat
        /\ DlmLen \in Nat /\ UpLen \in Nat /\ DnLen \in Nat /\ Frags[p] \in Nat
    BY Lengths DEF TypeInv, TypeOK, Patches
  <1>2. CASE StagesLeft(stage') < StagesLeft(stage)
    BY <1>2, RemainsParts, LessAt
  <1>3. CASE stage = "reset" /\ stage' = "load" /\ p' = p + 1
    <2>1. StagesLeft(stage') = StagesLeft(stage) /\ Len(Frags) - p' < Len(Frags) - p
      BY <1>1, <1>3 DEF StagesLeft, PatchStages
    <2> QED
      BY <2>1, RemainsParts, LessAt
  <1>4. CASE /\ <<stage, stage'>> \in {<<"addr", "paddr">>, <<"paddr", "frag">>,
                                       <<"frag", "reset">>}
             /\ p' = p
    <2>1. /\ StagesLeft(stage') = StagesLeft(stage)
          /\ FileStepsLeft(stage') < FileStepsLeft(stage)
      BY <1>4 DEF StagesLeft, FileStepsLeft, PatchStages
    <2> QED
      BY <1>4, <2>1, RemainsParts, LessAt
  <1>5. CASE stage \in {"dlm", "up", "dn", "frag"} /\ stage' = stage /\ i' = i + 1 /\ p' = p
    <2>1. RepeatsLeft(stage', p', i') < RepeatsLeft(stage, p, i)
      BY <1>1, <1>5 DEF RepeatsLeft
    <2> QED
      BY <1>5, <2>1, RemainsParts, LessAt
  <1>6. \/ <<stage, stage'>> \in {<<"query", "retry">>, <<"query", "dlm">>,
                                  <<"retry", "dlm">>, <<"dlm", "up">>, <<"up", "load">>,
                                  <<"dn", "final">>, <<"final", "bound">>}
        \/ stage \in PatchStages /\ stage' = "dn"
        => StagesLeft(stage') < StagesLeft(stage)
    BY DEF StagesLeft, PatchStages
  <1> QED
    BY <1>1, <1>2, <1>3, <1>4, <1>5, <1>6, AfterMoves

(* So does every other step of the driver, and the MCU's.                   *)
LEMMA StepShrinks ==
    ASSUME TypeInv, IndexInv, Driver \/ McuAnswers PROVE Less(Remains', Remains)
  <1>1. CASE Exchanging /\ \E result : After(result)
    BY <1>1, AfterShrinks
  <1>2. CASE /\ UNCHANGED <<stage, p, i>>
             /\ \/ phase = "send" /\ phase' = "mcu"
                \/ phase = "mcu" /\ phase' = "drain"
    <2>1. ExchangeLeft' < ExchangeLeft
      BY <1>2 DEF ExchangeLeft
    <2> QED
      BY <1>2, <2>1, RemainsParts, LessAt
  <1>3. CASE stage = "load" /\ stage' = "addr" /\ p' = p
    <2>1. /\ StagesLeft(stage') = StagesLeft(stage)
          /\ FileStepsLeft(stage') < FileStepsLeft(stage)
      BY <1>3 DEF StagesLeft, FileStepsLeft, PatchStages
    <2> QED
      BY <1>3, <2>1, RemainsParts, LessAt
  <1>4. CASE StagesLeft(stage') < StagesLeft(stage)
    BY <1>4, RemainsParts, LessAt
  <1>5. stage = "load" /\ stage' \in {"dn", "final"} => StagesLeft(stage') < StagesLeft(stage)
    BY DEF StagesLeft, PatchStages
  <1>6. <<stage, stage'>> \in Onward => StagesLeft(stage') < StagesLeft(stage)
    BY DEF Onward, StagesLeft, PatchStages
  <1>7. McuAnswers => UNCHANGED <<stage, p, i>> /\ phase = "mcu" /\ phase' = "drain"
    BY DEF McuAnswers
  <1> QED
    BY <1>1, <1>2, <1>3, <1>4, <1>5, <1>6, <1>7, StageMoves

(* probe() gets nearer to its end with each of its steps, for every number  *)
(* and length of firmware files and scripts, whatever fails and whatever    *)
(* the MCU answers, loses or delays.                                        *)
THEOREM GateRunsOutCorrect == Spec => GateRunsOut
  <1>1. Init => IndexInv
    BY DEF Init, IndexInv
  <1>2. TypeInv /\ IndexInv /\ [Next]_vars => IndexInv'
    BY IndexStep
  <1> DEFINE Shrinks ==
        Driver \/ McuAnswers =>
            Less(Remains', Remains) /\ \A k \in 1..5 : Remains[k] \in Nat
  <1>3. TypeInv /\ IndexInv /\ [Next]_vars => [Shrinks]_vars
    BY StepShrinks, RemainsNat
  <1> QED
    BY <1>1, <1>2, <1>3, TypeInvariant, PTL DEF Spec, GateRunsOut
=============================================================================
