------------------------------- MODULE Consys -------------------------------
(***************************************************************************)
(* The CONSYS bring-up driver (drivers/soc/mediatek/mtk-mt6797-consys.c,    *)
(* added by patches/v6.6/soc/0003): the power-on sequence of probe() and    *)
(* its unwinding, then the firmware gate: WMT commands sent to the          *)
(* connectivity MCU over BTIF, each followed by a drain of the receive FIFO *)
(* that looks for the expected event, and the firmware push built from      *)
(* them.                                                                    *)
(*                                                                         *)
(* The MCU is external: it executes a command and answers it at once, or    *)
(* (a fault) loses it, answers with an error, or answers after the driver   *)
(* has given up. Its boot ROM may ignore the first queries. An event says   *)
(* only which kind of command it answers, as on the wire.                   *)
(***************************************************************************)
EXTENDS Naturals, Sequences, FiniteSets

CONSTANTS
    Frags,        \* per firmware file, the number of fragments of its body
    Unusable,     \* files that may be missing, or have no body
    DlmLen, UpLen, DnLen,   \* reg-writes in the three clock and DLM scripts
    MaxFaults     \* bound: failures of the bus, the MCU and the resources

Patches == 1 .. Len(Frags)

ASSUME ConsysAssumption ==
    /\ Frags \in Seq(Nat \ {0}) /\ Len(Frags) > 0
    /\ Unusable \subseteq Patches
    /\ DlmLen \in Nat \ {0} /\ UpLen \in Nat \ {0} /\ DnLen \in Nat \ {0}
    /\ MaxFaults \in Nat

VARIABLES
    stage,      \* what probe() and the gate are doing
    phase,      \* of a WMT exchange: send, mcu, drain
    p, i,       \* firmware file and index within its script or fragments
    push,       \* what wmt_firmware_push() will return
    verdict,    \* of Gate G2b
    rails,      \* regulators enabled
    domain,     \* the device's runtime PM reference holds the CONN domain on
    sleepMask,  \* CONN2AP sleep mask bit
    mcuReset,   \* AP_RGU holds the MCU in reset
    btifClk,    \* the BTIF clock is enabled
    emi,        \* EMI remap programmed and control window zeroed
    done,       \* commands the MCU has executed
    fast,       \* the MCU runs on the sped-up clock
    rx,         \* events waiting in the receive FIFO
    late,       \* events the MCU has still to send
    faults

powerVars == <<rails, domain, sleepMask, mcuReset, btifClk, emi>>
mcuVars   == <<done, fast, rx, late>>
gateVars  == <<phase, p, i, push, verdict>>
vars == <<stage, phase, p, i, push, verdict, rails, domain, sleepMask, mcuReset,
          btifClk, emi, done, fast, rx, late, faults>>

Queries == {"query", "retry", "final"}
Scripts == {"dlm", "up", "dn"}
PatchStages == {"addr", "paddr", "frag", "reset"}

(* A command, by where the driver sends it.                                 *)
Cmd == <<stage, p, i>>

(* The event it expects: every reg-write has the same one.                  *)
Event(s) ==
    CASE s \in Queries -> "query"
      [] s \in Scripts \cup {"addr", "paddr"} -> "reg"
      [] s = "frag" -> "patch"
      [] s = "reset" -> "reset"

Fault   == faults > 0 /\ faults' = faults - 1
NoFault == faults' = faults

-----------------------------------------------------------------------------
(* probe(): rails, sleep mask, MCU reset, SPM key, domain, chip ID          *)

(* A step of probe(): it succeeds with an effect, or fails and unwinds.     *)
Vcn18 ==
    /\ stage = "vcn18"
    /\ \/ NoFault /\ rails' = rails \cup {"vcn18"} /\ stage' = "vcn28"
       \/ Fault /\ stage' = "failed" /\ UNCHANGED rails
    /\ UNCHANGED <<gateVars, domain, sleepMask, mcuReset, btifClk, emi, mcuVars>>

Vcn28 ==
    /\ stage = "vcn28"
    /\ \/ NoFault /\ rails' = rails \cup {"vcn28"} /\ stage' = "sleepmask"
       \/ Fault /\ stage' = "err_vcn18" /\ UNCHANGED rails
    /\ UNCHANGED <<gateVars, domain, sleepMask, mcuReset, btifClk, emi, mcuVars>>

SleepMask ==
    /\ stage = "sleepmask"
    /\ \/ NoFault /\ sleepMask' = TRUE /\ stage' = "rgu"
       \/ Fault /\ stage' = "err_vcn28" /\ UNCHANGED sleepMask
    /\ UNCHANGED <<gateVars, rails, domain, mcuReset, btifClk, emi, mcuVars>>

HoldMcu ==
    /\ stage = "rgu"
    /\ \/ NoFault /\ mcuReset' = TRUE /\ stage' = "spm"
       \/ Fault /\ stage' = "err_vcn28" /\ UNCHANGED mcuReset
    /\ UNCHANGED <<gateVars, rails, domain, sleepMask, btifClk, emi, mcuVars>>

SpmKey ==
    /\ stage = "spm"
    /\ \/ NoFault /\ stage' = "domain"
       \/ Fault /\ stage' = "err_vcn28"
    /\ UNCHANGED <<gateVars, powerVars, mcuVars>>

DomainOn ==
    /\ stage = "domain"
    /\ \/ NoFault /\ domain' = TRUE /\ stage' = "chipid"
       \/ Fault /\ stage' = "err_vcn28" /\ UNCHANGED domain
    /\ UNCHANGED <<gateVars, rails, sleepMask, mcuReset, btifClk, emi, mcuVars>>

(* Ten reads of the chip ID, then the MBIST bit; the gate starts.           *)
ChipId ==
    /\ stage = "chipid"
    /\ \/ NoFault /\ stage' = "emi"
       \/ Fault /\ stage' = "err_domain"
    /\ UNCHANGED <<gateVars, powerVars, mcuVars>>

RailsFirst ==                                                      \* mutant
    \/ /\ stage = "err_domain" /\ stage' = "err_vcn28"
       /\ rails' = rails \ {"vcn28"} /\ domain' = domain
    \/ /\ stage = "err_vcn28" /\ stage' = "err_vcn18"
       /\ domain' = FALSE /\ rails' = rails
    \/ /\ stage = "err_vcn18" /\ stage' = "failed"
       /\ rails' = rails \ {"vcn18"} /\ domain' = domain

(* The error labels, in their order.                                        *)
Unwinding ==
    \/ /\ stage = "err_domain" /\ stage' = "err_vcn28"
       /\ domain' = FALSE /\ rails' = rails
    \/ /\ stage = "err_vcn28" /\ stage' = "err_vcn18"
       /\ rails' = rails \ {"vcn28"} /\ domain' = domain
    \/ /\ stage = "err_vcn18" /\ stage' = "failed"
       /\ rails' = rails \ {"vcn18"} /\ domain' = domain

Unwind ==
    /\ Unwinding
    /\ UNCHANGED <<gateVars, sleepMask, mcuReset, btifClk, emi, mcuVars, faults>>

-----------------------------------------------------------------------------
(* The gate: whatever fails in it, probe() returns 0.                       *)

EmiSetup ==
    /\ stage = "emi"
    /\ \/ NoFault /\ emi' = TRUE /\ stage' = "btifclk"
       \/ Fault /\ stage' = "bound" /\ UNCHANGED emi
    /\ UNCHANGED <<gateVars, rails, domain, sleepMask, mcuReset, btifClk, mcuVars>>

BtifClk ==
    /\ stage = "btifclk"
    /\ \/ NoFault /\ btifClk' = TRUE /\ stage' = "release"
       \/ Fault /\ stage' = "bound" /\ UNCHANGED btifClk
    /\ UNCHANGED <<gateVars, rails, domain, sleepMask, mcuReset, emi, mcuVars>>

(* BTIF is mapped and initialised, the MCU leaves reset, its boot chatter   *)
(* is drained.                                                              *)
ReleaseMcu ==
    /\ stage = "release"
    /\ \/ NoFault /\ mcuReset' = FALSE /\ stage' = "query"
       \/ Fault /\ stage' = "bound" /\ UNCHANGED mcuReset
    /\ UNCHANGED <<gateVars, rails, domain, sleepMask, btifClk, emi, mcuVars>>

(* wmt_cmd_evt(): transmit; the receive FIFO keeps what is in it.           *)
Exchanging == stage \in Queries \cup Scripts \cup PatchStages

Go(s, q, n) == stage' = s /\ p' = q /\ i' = n

(* Where an exchange leads, by its result. Only the query's timeout is      *)
(* retried; scripts go on regardless; a failed patch command ends the       *)
(* patches and goes to the clock restore.                                   *)
AfterQuery(result) ==
    IF stage = "query" /\ result = "timeout" THEN Go("retry", p, i) ELSE Go("dlm", p, 1)

AfterScript ==
    \/ stage = "dlm" /\ IF i < DlmLen THEN Go("dlm", p, i + 1) ELSE Go("up", p, 1)
    \/ stage = "up" /\ IF i < UpLen THEN Go("up", p, i + 1) ELSE Go("load", 1, 1)
    \/ stage = "dn" /\ IF i < DnLen THEN Go("dn", p, i + 1) ELSE Go("final", p, 1)

NextPatchOver == IF p <= Len(Frags) THEN Go("load", p + 1, 1) ELSE Go("dn", p, 1)   \* mutant

NextPatch == IF p < Len(Frags) THEN Go("load", p + 1, 1) ELSE Go("dn", p, 1)

PatchOk ==
    \/ stage = "addr" /\ Go("paddr", p, 1)
    \/ stage = "paddr" /\ Go("frag", p, 1)
    \/ stage = "frag" /\ IF i < Frags[p] THEN Go("frag", p, i + 1) ELSE Go("reset", p, 1)
    \/ stage = "reset" /\ NextPatch

AfterPatchGoOn(result) ==                                          \* mutant
    IF result = "ok" THEN PatchOk /\ push' = push
    ELSE NextPatch /\ push' = result

AfterPatchAgain(result) ==                                         \* mutant
    IF result = "ok" THEN PatchOk /\ push' = push
    ELSE Go("load", p, 1) /\ push' = result

AfterPatch(result) ==
    IF result = "ok" THEN PatchOk /\ push' = push
    ELSE Go("dn", p, 1) /\ push' = result

After(result) ==
    \/ /\ stage \in {"query", "retry"} /\ AfterQuery(result)
       /\ UNCHANGED <<push, verdict>>
    \/ /\ stage \in Scripts /\ AfterScript
       /\ UNCHANGED <<push, verdict>>
    \/ /\ stage \in PatchStages /\ AfterPatch(result)
       /\ UNCHANGED verdict
    \/ /\ stage = "final" /\ Go("bound", p, i)
       /\ verdict' = IF result = "ok" THEN "pass" ELSE "fail"
       /\ UNCHANGED push

(* The frame cannot be allocated or the transmitter is stuck.               *)
Transmit ==
    /\ Exchanging /\ phase = "send"
    /\ \/ NoFault /\ phase' = "mcu" /\ UNCHANGED <<stage, p, i, push, verdict>>
       \/ Fault /\ phase' = "send" /\ \E r \in {"nomem", "timeout"} : After(r)
    /\ UNCHANGED <<powerVars, mcuVars>>

QueryPrefix(s) ==                                                  \* mutant
    IF s \in Queries THEN rx # <<>> ELSE \E n \in DOMAIN rx : rx[n] = Event(s)

Matched(s) == \E n \in DOMAIN rx : rx[n] = Event(s)

ResultNoTimeout == IF rx = <<>> \/ Matched(stage) THEN "ok" ELSE "badmsg"       \* mutant

Result == IF rx = <<>> THEN "timeout" ELSE IF Matched(stage) THEN "ok" ELSE "badmsg"

DrainWaits ==                                                      \* mutant
    /\ Exchanging /\ phase = "drain" /\ rx # <<>>
    /\ After(Result)
    /\ phase' = "send" /\ rx' = <<>>
    /\ UNCHANGED <<powerVars, done, fast, late, faults>>

(* btif_rx_drain() and the scan: everything received is consumed.           *)
Drain ==
    /\ Exchanging /\ phase = "drain"
    /\ After(Result)
    /\ phase' = "send" /\ rx' = <<>>
    /\ UNCHANGED <<powerVars, done, fast, late, faults>>

(* request_firmware(): a missing file returns at once, past the restore; a  *)
(* file with no body is refused.                                            *)
Load ==
    /\ stage = "load"
    /\ \/ p \in Unusable /\ Go("final", p, 1) /\ push' = "noent"
       \/ p \in Unusable /\ Go("dn", p, 1) /\ push' = "inval"
       \/ Go("addr", p, 1) /\ push' = push
    /\ UNCHANGED <<phase, verdict, powerVars, mcuVars, faults>>

-----------------------------------------------------------------------------
(* The MCU                                                                  *)

(* The last speed-up command selects the fast clock, the first restore      *)
(* command deselects it; the others prepare and take down its source.       *)
Execute ==
    /\ done' = done \cup {Cmd}
    /\ fast' = IF stage = "up" /\ i = UpLen THEN TRUE
               ELSE fast /\ ~(stage = "dn" /\ i = 1)

McuAnswers ==
    /\ phase = "mcu" /\ phase' = "drain"
    /\ \/ NoFault /\ Execute /\ rx' = Append(rx, Event(stage)) /\ late' = late
       \/ Fault /\ Execute /\ rx' = rx /\ late' = Append(late, Event(stage))
       \/ Fault /\ rx' = Append(rx, "error") /\ UNCHANGED <<done, fast, late>>
       \/ Fault /\ UNCHANGED mcuVars
       \/ stage \in {"query", "retry"} /\ NoFault /\ UNCHANGED mcuVars
    /\ UNCHANGED <<stage, p, i, push, verdict, powerVars>>

LateEvent ==
    /\ late # <<>>
    /\ rx' = Append(rx, Head(late)) /\ late' = Tail(late)
    /\ UNCHANGED <<stage, gateVars, powerVars, done, fast, faults>>

-----------------------------------------------------------------------------
(* The driver has no remove(): unbinding gives neither rails nor clock      *)
(* back. The PM core takes the device out of its domain.                    *)
Unbind ==
    /\ stage = "bound" /\ stage' = "unbound"
    /\ domain' = FALSE
    /\ UNCHANGED <<gateVars, rails, sleepMask, mcuReset, btifClk, emi, mcuVars, faults>>

Init ==
    /\ stage = "vcn18" /\ phase = "send" /\ p = 1 /\ i = 1
    /\ push = "ok" /\ verdict = "none"
    /\ rails = {} /\ domain = FALSE /\ btifClk = FALSE /\ emi = FALSE
    /\ sleepMask = FALSE /\ mcuReset \in BOOLEAN
    /\ done = {} /\ fast = FALSE /\ rx = <<>> /\ late = <<>>
    /\ faults = MaxFaults

Driver ==
    \/ Vcn18 \/ Vcn28 \/ SleepMask \/ HoldMcu \/ SpmKey \/ DomainOn \/ ChipId \/ Unwind
    \/ EmiSetup \/ BtifClk \/ ReleaseMcu \/ Transmit \/ Drain \/ Load

Next == Driver \/ McuAnswers \/ LateEvent \/ Unbind

Spec == Init /\ [][Next]_vars

(* probe() runs to its end: every wait in it has a timeout, and what the    *)
(* MCU does with a command is settled when the timeout has passed.          *)
FairSpec == Spec /\ WF_vars(Driver) /\ WF_vars(McuAnswers)

-----------------------------------------------------------------------------
(* Properties                                                               *)

Stages == {"vcn18", "vcn28", "sleepmask", "rgu", "spm", "domain", "chipid",
           "err_domain", "err_vcn28", "err_vcn18", "failed",
           "emi", "btifclk", "release", "query", "retry", "dlm", "up", "load",
           "addr", "paddr", "frag", "reset", "dn", "final", "bound", "unbound"}

Results == {"ok", "timeout", "badmsg", "nomem", "noent", "inval"}
Events  == {"query", "reg", "patch", "reset", "error"}

TypeOK ==
    /\ stage \in Stages /\ phase \in {"send", "mcu", "drain"}
    /\ p \in Patches /\ i \in Nat \ {0}
    /\ push \in Results /\ verdict \in {"none", "pass", "fail"}
    /\ rails \subseteq {"vcn18", "vcn28"} /\ domain \in BOOLEAN
    /\ sleepMask \in BOOLEAN /\ mcuReset \in BOOLEAN
    /\ btifClk \in BOOLEAN /\ emi \in BOOLEAN
    /\ done \subseteq Stages \X Patches \X (Nat \ {0})
    /\ fast \in BOOLEAN
    /\ rx \in Seq(Events) /\ late \in Seq(Events)
    /\ faults \in 0 .. MaxFaults

(* The CONN domain is held on only while both rails are, through every      *)
(* failure of the sequence and its unwinding; and the MCU executes commands *)
(* only with its domain, its memory window and the BTIF clock in place.     *)
PoweredInOrder ==
    /\ domain => rails = {"vcn18", "vcn28"}
    /\ done # {} => emi /\ btifClk /\ ~mcuReset /\ (domain \/ stage = "unbound")

(* The MCU is given firmware only at an address it was told: when it        *)
(* accepts a fragment it has executed both address commands of the file and *)
(* every fragment before. This holds until a second fault: a late event of  *)
(* an earlier reg-write may then stand in for that of a lost command.       *)
Before(c) ==
    CASE c[1] = "paddr" -> {<<"addr", c[2], 1>>}
      [] c[1] = "frag"  -> {<<"addr", c[2], 1>>, <<"paddr", c[2], 1>>}
                             \cup {<<"frag", c[2], n>> : n \in 1 .. c[3] - 1}
      [] c[1] = "reset" -> {<<"frag", c[2], n>> : n \in 1 .. Frags[c[2]]}
      [] OTHER -> {}

NoBlindFragments ==
    MaxFaults - faults <= 1 => \A c \in done : Before(c) \subseteq done

(* A file that could not be pushed is the last one the MCU hears of: once   *)
(* the push has failed, only the clock restore and the final query follow.  *)
FailureEndsPush ==
    [][push # "ok" => \A c \in done' \ done : c[1] \in {"dn", "final"}]_vars

(* "CONSYS MCU answers WMT" (soc/0003:786): the gate passes only if the MCU *)
(* has executed a query, even when events are lost, wrong or late.          *)
PassIsAnswered == verdict = "pass" => \E c \in done : c[1] \in Queries

(* What probe() has before it: stages, files, commands of a file, reg-writes *)
(* or fragments, and the transfers of an exchange.                          *)
StagesLeft(s) ==
    CASE s = "vcn18" -> 17 [] s = "vcn28" -> 16 [] s = "sleepmask" -> 15 [] s = "rgu" -> 14
      [] s = "spm" -> 13 [] s = "domain" -> 12 [] s = "chipid" -> 11
      [] s \in {"emi", "err_domain"} -> 10 [] s \in {"btifclk", "err_vcn28"} -> 9
      [] s \in {"release", "err_vcn18"} -> 8 [] s = "query" -> 7 [] s = "retry" -> 6
      [] s = "dlm" -> 5 [] s = "up" -> 4 [] s \in {"load"} \cup PatchStages -> 3
      [] s = "dn" -> 2 [] s = "final" -> 1 [] s \in {"bound", "unbound", "failed"} -> 0

FileStepsLeft(s) ==
    CASE s = "load" -> 4 [] s = "addr" -> 3 [] s = "paddr" -> 2 [] s = "frag" -> 1 [] OTHER -> 0

RepeatsLeft(s, q, n) ==
    CASE s = "dlm" -> DlmLen - n [] s = "up" -> UpLen - n [] s = "dn" -> DnLen - n
      [] s = "frag" -> Frags[q] - n [] OTHER -> 0

ExchangeLeft == CASE phase = "send" -> 2 [] phase = "mcu" -> 1 [] phase = "drain" -> 0

Remains == <<StagesLeft(stage), Len(Frags) - p, FileStepsLeft(stage),
             RepeatsLeft(stage, p, i), ExchangeLeft>>

Less(a, b) == \E k \in 1..5 : a[k] < b[k] /\ \A n \in 1..k - 1 : a[n] = b[n]

(* Why probe() returns, however long the files and the scripts are, and     *)
(* whatever is answered: no step leaves as much to do as it found. The      *)
(* first number that changes gets smaller, and none goes below zero: no     *)
(* script and no file is read past its end.                                 *)
GateRunsOut ==
    [][Driver \/ McuAnswers =>
          Less(Remains', Remains) /\ \A k \in 1..5 : Remains[k] \in Nat]_vars

(* probe() returns, whatever the MCU does or does not answer.               *)
GateTerminates == <>(stage \in {"bound", "unbound", "failed"})

=============================================================================
