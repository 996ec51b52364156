------------------------------ MODULE Aw9523b ------------------------------
(***************************************************************************)
(* The AW9523B I2C GPIO expander driver (drivers/gpio/gpio-aw9523b.c, added *)
(* by patches/v6.6/gpio/0001): probe, the gpio_chip operations behind a     *)
(* register cache, the irq_chip operations and the threaded INT handler.    *)
(*                                                                         *)
(* A step is one regmap call or one critical section. Every line belongs to *)
(* one consumer (a thread that calls gpiolib for it), the handler is one    *)
(* thread, and the pads move on their own. The chip and the regmap core are *)
(* external: the chip asserts INT while an unmasked line differs from what  *)
(* was last read of its port (reading the inputs is all the handler does to *)
(* release a level-low INT); regmap serialises its calls, keeps a register  *)
(* it has written or read unless it is volatile, and drops the copy when a  *)
(* write fails, which may nevertheless have reached the chip.               *)
(***************************************************************************)
EXTENDS Naturals, FiniteSets

CONSTANTS
    P0, P1,       \* the lines of the two ports
    GpioLines,    \* lines whose consumer sets direction and level
    IrqLines,     \* lines whose consumer requests and frees the interrupt
    GetLines,     \* lines whose consumer reads the level (gpio get)
    ResetRegs,    \* what a soft reset may leave in the registers
    HasIrq,       \* client->irq: the INT pin is wired up in the device tree
    MaxFaults     \* bound: I2C transfers that fail in a behaviour

Lines == P0 \cup P1
Ports == {0, 1}
Regs  == {"OUT", "CFG"}      \* output latches; direction bits, 1 = input
free  == "free"              \* aw->lock is not held

ASSUME ExpanderAssumption ==
    /\ P0 \cap P1 = {}
    /\ GpioLines \subseteq Lines /\ IrqLines \subseteq Lines /\ GetLines \subseteq Lines
    /\ GpioLines \cap IrqLines = {}
    /\ free \notin Lines
    /\ ResetRegs \subseteq [Regs -> SUBSET Lines]
    /\ HasIrq \in BOOLEAN
    /\ MaxFaults \in Nat

VARIABLES
    pc,         \* where probe() is; "ready" once it has returned 0
    op, arg,    \* each consumer's call in progress, and its level or (un)mask
    lock,       \* aw->lock: free, or the line whose irq bus lock holds it
    irqMask,    \* aw->irq_mask: lines masked
    prev,       \* aw->prev_state: lines high
    hpc,        \* where the INT handler is
    samp,       \* p0 and p1 as read by the handler, or by probe()
    todo,       \* changed: lines still to be dispatched by the handler
    reg,        \* chip: output latches and direction bits
    intMask,    \* chip: lines masked in P0_INT and P1_INT
    seen,       \* chip: levels as last read, per port
    ext,        \* pads pulled high from outside
    cache,      \* regmap: its copies of the latch and direction registers
    cached,     \* regmap: which of those copies exist
    told,       \* level of a line when its interrupt was last dispatched
    faults      \* transfers that may still fail

callVars == <<op, arg>>
irqVars  == <<lock, irqMask>>
hndVars  == <<prev, hpc, samp, todo>>
regVars  == <<reg, cache, cached>>
vars == <<pc, op, arg, lock, irqMask, prev, hpc, samp, todo,
          reg, intMask, seen, ext, cache, cached, told, faults>>

Port(p)   == IF p = 0 THEN P0 ELSE P1
PortOf(l) == IF l \in P0 THEN 0 ELSE 1

ProbeSteps == {"reset", "id", "led0", "led1", "cfg0", "cfg1", "int0", "int1", "ctl",
               "add", "seed0", "seed1", "request", "ready", "failed"}
Ops == {"idle", "latch", "direct", "input", "set", "locked", "sync0", "sync1"}

Level(high) == IF high THEN "high" ELSE "low"

(* The level on a pin: an output shows its latch.                           *)
Pads == (ext \cap reg["CFG"]) \cup (reg["OUT"] \ reg["CFG"])

(* What a pin does to its net.                                              *)
Drive(l) == IF l \in reg["CFG"] THEN "input" ELSE Level(l \in reg["OUT"])

Differs(a, b) == (a \ b) \cup (b \ a)

(* The change of a line asserts INT until its port is read.                 *)
Pending  == Differs(Pads, seen) \ intMask
Asserted == Pending # {}

Fault   == faults > 0 /\ faults' = faults - 1
NoFault == faults' = faults

-----------------------------------------------------------------------------
(* regmap: cached registers, read-modify-write under the map's own lock     *)

Bits(r, p) == (IF <<r, p>> \in cached THEN cache[r] ELSE reg[r]) \cap Port(p)

With(r, p, bits) == (r \ Port(p)) \cup bits

(* The copy of a register after a call that read it, wrote it, or failed.   *)
Keep(r, p, bits) ==
    /\ cache' = [cache EXCEPT ![r] = With(@, p, bits)]
    /\ cached' = cached \cup {<<r, p>>}
Drop(r, p) == cached' = cached \ {<<r, p>>} /\ UNCHANGED cache

Store(r, p, bits) == reg' = [reg EXCEPT ![r] = With(@, p, bits)]

WriteOk(r, p, bits)   == NoFault /\ Store(r, p, bits) /\ Keep(r, p, bits)
WriteFail(r, p, bits) == Fault /\ (Store(r, p, bits) \/ UNCHANGED reg) /\ Drop(r, p)

Unshifted(r, l, b) ==                                              \* mutant
    LET bit == IF l \in P0 THEN l ELSE "bit 8"
    IN  IF b THEN Bits(r, PortOf(l)) \cup {bit} ELSE Bits(r, PortOf(l)) \ {bit}

SetBit(r, l, b) ==
    IF b THEN Bits(r, PortOf(l)) \cup {l} ELSE Bits(r, PortOf(l)) \ {l}

(* regmap_update_bits(): no transfer when the cached bit is already right.  *)
UpdateOk(r, l, b) == WriteOk(r, PortOf(l), SetBit(r, l, b))

UpdateFail(r, l, b) ==
    \/ /\ <<r, PortOf(l)>> \notin cached          \* the read fails
       /\ Fault /\ UNCHANGED regVars
    \/ /\ SetBit(r, l, b) # Bits(r, PortOf(l))    \* the write fails
       /\ WriteFail(r, PortOf(l), SetBit(r, l, b))

(* A read of a volatile input register, which the chip takes note of.       *)
ReadPort(p) == With(samp, p, Pads \cap Port(p))
NotePort(p) == seen' = With(seen, p, Pads \cap Port(p))

-----------------------------------------------------------------------------
(* probe()                                                                  *)

NextStep(s) ==
    CASE s = "reset" -> "id"   [] s = "id" -> "led0"   [] s = "led0" -> "led1"
      [] s = "led1" -> "cfg0"  [] s = "cfg0" -> "cfg1" [] s = "cfg1" -> "int0"
      [] s = "int0" -> "int1"  [] s = "int1" -> "ctl"  [] s = "ctl" -> "add"

(* The soft reset: what the registers come up as is the chip's business.    *)
SoftReset ==
    /\ pc = "reset"
    /\ \/ /\ NoFault
          /\ \E r \in ResetRegs : reg' = r
          /\ intMask' \in {{}, Lines}
          /\ pc' = "id"
       \/ Fault /\ pc' = "failed" /\ UNCHANGED <<reg, intMask>>
    /\ UNCHANGED <<callVars, irqVars, hndVars, seen, ext, cache, cached, told>>

(* The ID read, both LED mode writes and the CTL write touch no register    *)
(* that is modelled; the ID may be wrong without any transfer failing.      *)
Identify ==
    /\ pc \in {"id", "led0", "led1", "ctl"}
    /\ \/ NoFault /\ pc' = NextStep(pc)
       \/ NoFault /\ pc = "id" /\ pc' = "failed"
       \/ Fault /\ pc' = "failed"
    /\ UNCHANGED <<callVars, irqVars, hndVars, regVars, intMask, seen, ext, told>>

(* All pins inputs.                                                         *)
AllInputs(p) ==
    /\ \/ WriteOk("CFG", p, Port(p)) /\ pc' = NextStep(pc)
       \/ WriteFail("CFG", p, Port(p)) /\ pc' = "failed"
    /\ UNCHANGED <<callVars, irqVars, hndVars, intMask, seen, ext, told>>

(* All interrupts off.                                                      *)
NoInterrupts(p) ==
    /\ \/ NoFault /\ intMask' = intMask \cup Port(p) /\ pc' = NextStep(pc)
       \/ Fault /\ intMask' \in {intMask, intMask \cup Port(p)} /\ pc' = "failed"
    /\ UNCHANGED <<callVars, irqVars, hndVars, regVars, seen, ext, told>>

Configure ==
    \/ pc = "cfg0" /\ AllInputs(0)
    \/ pc = "cfg1" /\ AllInputs(1)
    \/ pc = "int0" /\ NoInterrupts(0)
    \/ pc = "int1" /\ NoInterrupts(1)

(* The gpiochip and its IRQ domain appear before the parent IRQ is taken:   *)
(* consumers may call in from here on.                                      *)
AddGpiochip ==
    /\ pc = "add"
    /\ pc' \in {IF HasIrq THEN "seed0" ELSE "ready", "failed"}
    /\ UNCHANGED <<callVars, irqVars, hndVars, regVars, intMask, seen, ext, told, faults>>

Seed0 ==
    /\ pc = "seed0"
    /\ \/ NoFault /\ samp' = ReadPort(0) /\ NotePort(0) /\ pc' = "seed1"
       \/ Fault /\ pc' = "request" /\ UNCHANGED <<samp, seen>>
    /\ UNCHANGED <<callVars, irqVars, prev, hpc, todo, regVars, intMask, ext, told>>

Seed1 ==
    /\ pc = "seed1"
    /\ \/ NoFault /\ samp' = ReadPort(1) /\ NotePort(1) /\ prev' = samp'
       \/ Fault /\ UNCHANGED <<samp, seen, prev>>
    /\ pc' = "request"
    /\ UNCHANGED <<callVars, irqVars, hpc, todo, regVars, intMask, ext, told>>

RequestIrq ==
    /\ pc = "request"
    /\ pc' \in {"ready", "failed"}
    /\ UNCHANGED <<callVars, irqVars, hndVars, regVars, intMask, seen, ext, told, faults>>

Probe == SoftReset \/ Identify \/ Configure \/ AddGpiochip \/ Seed0 \/ Seed1 \/ RequestIrq

-----------------------------------------------------------------------------
(* gpio_chip operations                                                     *)

Added == pc \in {"seed0", "seed1", "request", "ready"}

(* A consumer calls direction_output, direction_input or set for its line.  *)
Call(l) ==
    /\ Added /\ op[l] = "idle" /\ l \in GpioLines
    /\ \E o \in {"latch", "input", "set"}, level \in BOOLEAN :
          op' = [op EXCEPT ![l] = o] /\ arg' = [arg EXCEPT ![l] = level]
    /\ UNCHANGED <<pc, irqVars, hndVars, regVars, intMask, seen, ext, told, faults>>

Return(l) == op' = [op EXCEPT ![l] = "idle"]

LatchAfter(l) ==                                                   \* mutant
    /\ op[l] = "latch"
    /\ \/ UpdateOk("CFG", l, FALSE) /\ op' = [op EXCEPT ![l] = "direct"]
       \/ UpdateFail("CFG", l, FALSE) /\ Return(l)
    /\ UNCHANGED <<pc, arg, irqVars, hndVars, intMask, seen, ext, told>>

LatchIfInput(l) ==                                                 \* mutant
    /\ op[l] = "latch"
    /\ \/ /\ l \in Bits("CFG", PortOf(l))
          /\ UpdateOk("OUT", l, arg[l]) /\ op' = [op EXCEPT ![l] = "direct"]
       \/ l \in Bits("CFG", PortOf(l)) /\ UpdateFail("OUT", l, arg[l]) /\ Return(l)
       \/ /\ l \notin Bits("CFG", PortOf(l))
          /\ NoFault /\ op' = [op EXCEPT ![l] = "direct"] /\ UNCHANGED regVars
    /\ UNCHANGED <<pc, arg, irqVars, hndVars, intMask, seen, ext, told>>

(* direction_output(): the latch first, so that the pin never drives the    *)
(* other level when it becomes an output.                                   *)
Latch(l) ==
    /\ op[l] = "latch"
    /\ \/ UpdateOk("OUT", l, arg[l]) /\ op' = [op EXCEPT ![l] = "direct"]
       \/ UpdateFail("OUT", l, arg[l]) /\ Return(l)
    /\ UNCHANGED <<pc, arg, irqVars, hndVars, intMask, seen, ext, told>>

Direct(l) ==
    /\ op[l] = "direct"
    /\ UpdateOk("CFG", l, FALSE) \/ UpdateFail("CFG", l, FALSE)
    /\ Return(l)
    /\ UNCHANGED <<pc, arg, irqVars, hndVars, intMask, seen, ext, told>>

DirectionInput(l) ==
    /\ op[l] = "input"
    /\ UpdateOk("CFG", l, TRUE) \/ UpdateFail("CFG", l, TRUE)
    /\ Return(l)
    /\ UNCHANGED <<pc, arg, irqVars, hndVars, intMask, seen, ext, told>>

(* set(): the result of the write is ignored.                               *)
Set(l) ==
    /\ op[l] = "set"
    /\ UpdateOk("OUT", l, arg[l]) \/ UpdateFail("OUT", l, arg[l])
    /\ Return(l)
    /\ UNCHANGED <<pc, arg, irqVars, hndVars, intMask, seen, ext, told>>

(* get_direction(): from the cache, which a read fills.                     *)
GetDirection(l) ==
    /\ Added /\ op[l] = "idle" /\ l \in GpioLines
    /\ \/ NoFault /\ Keep("CFG", PortOf(l), Bits("CFG", PortOf(l)))
       \/ /\ <<"CFG", PortOf(l)>> \notin cached
          /\ Fault /\ UNCHANGED <<cache, cached>>
    /\ UNCHANGED <<pc, callVars, irqVars, hndVars, reg, intMask, seen, ext, told>>

(* get(): reads the whole port, whichever line is asked for.                *)
Get(l) ==
    /\ Added /\ op[l] = "idle" /\ l \in GetLines
    /\ \/ NoFault /\ NotePort(PortOf(l))
       \/ Fault /\ UNCHANGED seen
    /\ UNCHANGED <<pc, callVars, irqVars, hndVars, regVars, intMask, ext, told>>

-----------------------------------------------------------------------------
(* irq_chip operations: a mask change is cached under the bus lock and sent *)
(* to both ports when the lock is given back; errors are ignored.           *)

IrqBusLock(l) ==
    /\ Added /\ HasIrq /\ op[l] = "idle" /\ l \in IrqLines
    /\ lock = free /\ lock' = l
    /\ op' = [op EXCEPT ![l] = "locked"]
    /\ UNCHANGED <<pc, arg, irqMask, hndVars, regVars, intMask, seen, ext, told, faults>>

(* irq_mask() and irq_unmask(): a consumer that comes or goes has been told *)
(* nothing of the line's level.                                             *)
IrqMaskUnmask(l) ==
    /\ op[l] = "locked"
    /\ \/ irqMask' = irqMask \cup {l}
       \/ irqMask' = irqMask \ {l}
    /\ told' = [told EXCEPT ![l] = "none"]
    /\ op' = [op EXCEPT ![l] = "sync0"]
    /\ UNCHANGED <<pc, arg, lock, hndVars, regVars, intMask, seen, ext, faults>>

SyncPort(p) ==
    \/ NoFault /\ intMask' = With(intMask, p, irqMask \cap Port(p))
    \/ Fault /\ intMask' \in {intMask, With(intMask, p, irqMask \cap Port(p))}

SyncLost(l) ==                                                     \* mutant
    /\ op[l] = "sync0" /\ NoFault
    /\ op' = [op EXCEPT ![l] = "sync1"]
    /\ UNCHANGED <<pc, arg, irqVars, hndVars, regVars, intMask, seen, ext, told>>

Sync0(l) ==
    /\ op[l] = "sync0" /\ SyncPort(0)
    /\ op' = [op EXCEPT ![l] = "sync1"]
    /\ UNCHANGED <<pc, arg, irqVars, hndVars, regVars, seen, ext, told>>

Sync1(l) ==
    /\ op[l] = "sync1" /\ SyncPort(1)
    /\ lock' = free /\ Return(l)
    /\ UNCHANGED <<pc, arg, irqMask, hndVars, regVars, seen, ext, told>>

Consumer(l) ==
    \/ Call(l) \/ Latch(l) \/ Direct(l) \/ DirectionInput(l) \/ Set(l)
    \/ GetDirection(l) \/ Get(l) \/ IrqBusLock(l) \/ IrqMaskUnmask(l) \/ Sync0(l) \/ Sync1(l)

-----------------------------------------------------------------------------
(* The threaded INT handler                                                 *)

HandlerStart ==
    /\ pc = "ready" /\ HasIrq /\ hpc = "idle" /\ Asserted
    /\ hpc' = "p0"
    /\ UNCHANGED <<pc, callVars, irqVars, prev, samp, todo, regVars, intMask, seen,
                   ext, told, faults>>

(* A failed read returns IRQ_NONE and leaves prev_state as it is.           *)
HandlerRead(p, next) ==
    /\ \/ NoFault /\ samp' = ReadPort(p) /\ NotePort(p) /\ hpc' = next
       \/ Fault /\ hpc' = "idle" /\ UNCHANGED <<samp, seen>>
    /\ UNCHANGED <<pc, callVars, irqVars, prev, todo, regVars, intMask, ext, told>>

ReadP0 == hpc = "p0" /\ HandlerRead(0, "p1")

SkipP1 == hpc = "p1" /\ hpc' = "report"                            \* mutant
    /\ UNCHANGED <<pc, callVars, irqVars, prev, samp, todo, regVars, intMask, seen,
                   ext, told, faults>>

ReadP1 == hpc = "p1" /\ HandlerRead(1, "report")

ReportAll ==                                                       \* mutant
    /\ hpc = "report"
    /\ todo' = Lines \ irqMask
    /\ prev' = samp
    /\ hpc' = IF todo' = {} THEN "idle" ELSE "nested"
    /\ UNCHANGED <<pc, callVars, irqVars, samp, regVars, intMask, seen, ext, told, faults>>

(* Compare with the last sample; masked lines are sampled but not reported. *)
Changed ==
    /\ hpc = "report"
    /\ todo' = Differs(samp, prev) \ irqMask
    /\ prev' = samp
    /\ hpc' = IF todo' = {} THEN "idle" ELSE "nested"
    /\ UNCHANGED <<pc, callVars, irqVars, samp, regVars, intMask, seen, ext, told, faults>>

FirstOnly(l) ==                                                    \* mutant
    /\ hpc = "nested" /\ l \in todo
    /\ todo' = {} /\ hpc' = "idle"
    /\ told' = IF l \in irqMask THEN told ELSE [told EXCEPT ![l] = Level(l \in prev)]
    /\ UNCHANGED <<pc, callVars, irqVars, prev, samp, regVars, intMask, seen, ext, faults>>

(* handle_nested_irq(): nobody is called if the line has been freed since.  *)
(* The order of the lines is left open.                                     *)
NestedIrq(l) ==
    /\ hpc = "nested" /\ l \in todo
    /\ todo' = todo \ {l}
    /\ hpc' = IF todo' = {} THEN "idle" ELSE "nested"
    /\ told' = IF l \in irqMask THEN told ELSE [told EXCEPT ![l] = Level(l \in prev)]
    /\ UNCHANGED <<pc, callVars, irqVars, prev, samp, regVars, intMask, seen, ext, faults>>

Handler == HandlerStart \/ ReadP0 \/ ReadP1 \/ Changed \/ \E l \in Lines : NestedIrq(l)

-----------------------------------------------------------------------------
(* Something outside moves a pad that somebody listens to.                  *)
PadMoves(l) ==
    /\ l \in IrqLines \cup GetLines
    /\ ext' = Differs(ext, {l})
    /\ UNCHANGED <<pc, callVars, irqVars, hndVars, regVars, intMask, seen, told, faults>>

Init ==
    /\ pc = "reset"
    /\ op = [l \in Lines |-> "idle"] /\ arg = [l \in Lines |-> FALSE]
    /\ lock = free /\ irqMask = Lines
    /\ prev = {} /\ hpc = "idle" /\ samp = {} /\ todo = {}
    /\ reg = [r \in Regs |-> {}] /\ intMask = {} /\ seen = {} /\ ext = {}
    /\ cache = [r \in Regs |-> {}] /\ cached = {}
    /\ told = [l \in Lines |-> "none"]
    /\ faults = MaxFaults

Next == Probe \/ Handler \/ \E l \in Lines : Consumer(l) \/ PadMoves(l)

Spec == Init /\ [][Next]_vars

(* The IRQ thread runs as long as it is woken.                              *)
FairSpec == Spec /\ WF_vars(Handler)

-----------------------------------------------------------------------------
(* Properties                                                               *)

TypeOK ==
    /\ pc \in ProbeSteps
    /\ op \in [Lines -> Ops] /\ arg \in [Lines -> BOOLEAN]
    /\ lock \in Lines \cup {free} /\ irqMask \subseteq Lines
    /\ prev \subseteq Lines /\ samp \subseteq Lines /\ todo \subseteq Lines
    /\ hpc \in {"idle", "p0", "p1", "report", "nested"}
    /\ reg \in [Regs -> SUBSET Lines] /\ cache \in [Regs -> SUBSET Lines]
    /\ cached \subseteq Regs \X Ports
    /\ intMask \subseteq Lines /\ seen \subseteq Lines /\ ext \subseteq Lines
    /\ told \in [Lines -> {"none", "low", "high"}]
    /\ faults \in 0 .. MaxFaults

(* The eight lines of a port share each register, their consumers run       *)
(* concurrently and any write may fail half way: still, once the gpiochip   *)
(* exists, what a pin does (input, low, high) changes only during a call    *)
(* for that pin, and only to what the call asks for, never through the      *)
(* opposite level.                                                          *)
DriveAsAsked ==
    [][\A l \in Lines : Added /\ Drive(l)' # Drive(l) =>
          \/ op[l] \in {"latch", "direct", "set"} /\ Drive(l)' = Level(arg[l])
          \/ op[l] = "input" /\ Drive(l)' = "input"]_vars

(* A call that returns without an error has had its effect: the pin is as   *)
(* it was asked to be. regmap leaves out a write when its copy says that    *)
(* the chip holds the bit already, and the copy may come from a neighbour's *)
(* call of which one write failed, with or without reaching the chip.       *)
SuccessTakesEffect ==
    [][\A l \in Lines : op[l] # "idle" /\ op'[l] = "idle" /\ NoFault =>
          /\ op[l] = "direct" => Drive(l)' = Level(arg[l])
          /\ op[l] = "input" => Drive(l)' = "input"
          /\ op[l] = "set" => Drive(l)' \in {"input", Level(arg[l])}]_vars

(* As long as no transfer has failed, the chip masks what the driver says   *)
(* it masks whenever nobody holds the bus lock.                             *)
MaskReachesChip ==
    Added /\ lock = free /\ faults = MaxFaults => intMask = irqMask

(* "unchanged lines do not cause spurious nested IRQs" (gpio/0001:347),     *)
(* seen from a consumer: as long as it keeps its interrupt, two dispatches  *)
(* in a row are for opposite levels, whatever reads failed, whoever else    *)
(* read the port and whichever lines were masked in between.                *)
EventsAlternate ==
    [][\A l \in todo : l \notin todo' /\ l \notin irqMask
          => told[l] # Level(l \in prev)]_vars

Quiet == pc = "ready" /\ hpc = "idle" /\ ~Asserted /\ \A l \in Lines : op[l] = "idle"

Heard(l) == told[l] # "none" => told[l] = Level(l \in Pads)

(* While no transfer fails, a line whose port nobody else reads is reported *)
(* up to date: when INT is released, the last dispatch was for the level    *)
(* the line has.                                                            *)
NothingLost ==
    Quiet /\ faults = MaxFaults =>
        \A l \in Lines \ irqMask :
            Port(PortOf(l)) \cap GetLines = {} => Heard(l)

(* "so both key press and release are reported" (gpio/0001:346), whoever    *)
(* reads the inputs and whatever transfer fails.                            *)
BothReported == Quiet => \A l \in Lines \ irqMask : Heard(l)

(* A change that asserts INT is read by the handler (or reverts, or its     *)
(* line is masked): the handler always gets to read both ports.             *)
ChangeSampled ==
    \A l \in Lines : (pc = "ready" /\ l \in Pending) ~> (l \notin Pending)

=============================================================================
