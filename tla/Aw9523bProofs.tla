--------------------------- MODULE Aw9523bProofs ---------------------------
(***************************************************************************)
(* TLAPS proofs about Aw9523b, for every set of lines, consumers and reset  *)
(* values and every number of failed transfers.                            *)
(***************************************************************************)
EXTENDS Aw9523b, TLAPS

(* Every cached register is what the chip holds: a write that failed, and   *)
(* may or may not have reached the chip, has dropped its copy.              *)
CacheCoherent ==
    \A r \in Regs, p \in Ports :
        <<r, p>> \in cached => cache[r] \cap Port(p) = reg[r] \cap Port(p)

LEMMA PortFacts ==
    /\ \A l \in Lines : PortOf(l) \in Ports /\ l \in Port(PortOf(l))
    /\ \A p \in Ports : Port(p) \subseteq Lines
    /\ \A p, q \in Ports : p # q => Port(p) \cap Port(q) = {}
    /\ 0 \in Ports /\ 1 \in Ports /\ "OUT" \in Regs /\ "CFG" \in Regs
  BY ExpanderAssumption DEF Lines, Ports, Port, PortOf, Regs

(* Replacing the bits of a port leaves the other port alone.                *)
LEMMA WithFacts ==
    ASSUME NEW s \in SUBSET Lines, NEW p \in Ports, NEW bits \in SUBSET Port(p)
    PROVE  /\ With(s, p, bits) \in SUBSET Lines
           /\ With(s, p, bits) \cap Port(p) = bits
           /\ \A q \in Ports : q # p => With(s, p, bits) \cap Port(q) = s \cap Port(q)
  BY PortFacts DEF With

LEMMA Budget ==
    ASSUME faults \in 0 .. MaxFaults, Fault \/ NoFault PROVE faults' \in 0 .. MaxFaults
  BY ExpanderAssumption DEF Fault, NoFault

(* A regmap write, whether it succeeds or fails, touches the bits of one    *)
(* port of one register and keeps the cache coherent.                       *)
LEMMA WriteFacts ==
    ASSUME TypeOK, CacheCoherent, NEW r \in Regs, NEW p \in Ports,
           NEW bits \in SUBSET Port(p), WriteOk(r, p, bits) \/ WriteFail(r, p, bits)
    PROVE  /\ reg' \in [Regs -> SUBSET Lines] /\ cache' \in [Regs -> SUBSET Lines]
           /\ cached' \subseteq Regs \X Ports /\ faults' \in 0 .. MaxFaults
           /\ CacheCoherent'
           /\ reg' = reg \/ reg' = [reg EXCEPT ![r] = With(@, p, bits)]
           /\ WriteOk(r, p, bits) => reg' = [reg EXCEPT ![r] = With(@, p, bits)]
  <1>1. faults' \in 0 .. MaxFaults
    BY Budget DEF WriteOk, WriteFail, TypeOK
  <1>2. /\ With(reg[r], p, bits) \in SUBSET Lines
        /\ With(cache[r], p, bits) \in SUBSET Lines
    BY WithFacts DEF TypeOK
  <1>3. /\ reg' = reg \/ reg' = [reg EXCEPT ![r] = With(@, p, bits)]
        /\ WriteOk(r, p, bits) => reg' = [reg EXCEPT ![r] = With(@, p, bits)]
    BY DEF WriteOk, WriteFail, Store
  <1>4. /\ reg' \in [Regs -> SUBSET Lines]
        /\ cache' \in [Regs -> SUBSET Lines]
        /\ cached' \subseteq Regs \X Ports
    BY <1>2, <1>3 DEF WriteOk, WriteFail, Keep, Drop, TypeOK
  <1>5. CacheCoherent'
    <2> SUFFICES ASSUME NEW s \in Regs, NEW q \in Ports, <<s, q>> \in cached'
                 PROVE  cache'[s] \cap Port(q) = reg'[s] \cap Port(q)
      BY DEF CacheCoherent, Port
    <2>1. CASE s = r /\ q = p
      <3>1. WriteOk(r, p, bits)
        BY <2>1 DEF WriteFail, Drop
      <3>2. cache'[r] = With(cache[r], p, bits) /\ reg'[r] = With(reg[r], p, bits)
        BY <3>1 DEF WriteOk, Keep, Store, TypeOK
      <3> QED
        BY <2>1, <3>2, WithFacts DEF TypeOK
    <2>2. CASE ~(s = r /\ q = p)
      <3>1. <<s, q>> \in cached
        BY <2>2 DEF WriteOk, WriteFail, Keep, Drop
      <3>2. cache[s] \cap Port(q) = reg[s] \cap Port(q)
        BY <3>1 DEF CacheCoherent
      <3>3. reg'[s] \cap Port(q) = reg[s] \cap Port(q)
        BY <1>3, <2>2, WithFacts DEF TypeOK
      <3>4. cache' = cache \/ cache' = [cache EXCEPT ![r] = With(@, p, bits)]
        BY DEF WriteOk, WriteFail, Keep, Drop
      <3>5. cache'[s] \cap Port(q) = cache[s] \cap Port(q)
        BY <3>4, <2>2, WithFacts DEF TypeOK
      <3> QED
        BY <3>2, <3>3, <3>5
    <2> QED
      BY <2>1, <2>2
  <1> QED
    BY <1>1, <1>3, <1>4, <1>5

(* regmap_update_bits() changes at most the bit it is asked to change, to   *)
(* the value asked for; if it succeeds, it does.                            *)
LEMMA UpdateFacts ==
    ASSUME TypeOK, CacheCoherent, NEW r \in Regs, NEW l \in Lines, NEW b \in BOOLEAN,
           UpdateOk(r, l, b) \/ UpdateFail(r, l, b)
    PROVE  /\ reg' \in [Regs -> SUBSET Lines] /\ cache' \in [Regs -> SUBSET Lines]
           /\ cached' \subseteq Regs \X Ports /\ faults' \in 0 .. MaxFaults
           /\ CacheCoherent'
           /\ \A s \in Regs, k \in Lines :
                 (s # r \/ k # l) => (k \in reg'[s] <=> k \in reg[s])
           /\ (l \in reg'[r] <=> l \in reg[r]) \/ (l \in reg'[r] <=> b)
           /\ UpdateOk(r, l, b) => (l \in reg'[r] <=> b)
  <1> DEFINE p == PortOf(l)
             bits == SetBit(r, l, b)
  <1>1. p \in Ports /\ l \in Port(p)
    BY PortFacts
  <1>2. Bits(r, p) = reg[r] \cap Port(p)
    BY <1>1 DEF Bits, CacheCoherent
  <1>3. bits = IF b THEN (reg[r] \cap Port(p)) \cup {l} ELSE (reg[r] \cap Port(p)) \ {l}
    BY <1>2 DEF SetBit
  <1>4. bits \in SUBSET Port(p)
    BY <1>1, <1>3
  <1>5. With(reg[r], p, bits) = IF b THEN reg[r] \cup {l} ELSE reg[r] \ {l}
    BY <1>1, <1>3 DEF With
  <1>6. CASE WriteOk(r, p, bits) \/ WriteFail(r, p, bits)
    <2> HIDE DEF bits, p
    <2>1. reg' = reg \/ reg' = [reg EXCEPT ![r] = With(@, p, bits)]
      BY <1>1, <1>4, <1>6, WriteFacts
    <2>2. UpdateOk(r, l, b) => reg' = [reg EXCEPT ![r] = With(@, p, bits)]
      BY DEF UpdateOk, WriteOk, Store, p, bits
    <2>3. /\ reg' \in [Regs -> SUBSET Lines] /\ cache' \in [Regs -> SUBSET Lines]
          /\ cached' \subseteq Regs \X Ports /\ faults' \in 0 .. MaxFaults
          /\ CacheCoherent'
      BY <1>1, <1>4, <1>6, WriteFacts
    <2>4. \A s \in Regs, k \in Lines :
             (s # r \/ k # l) => (k \in reg'[s] <=> k \in reg[s])
      BY <2>1, <1>5 DEF TypeOK
    <2>5. (l \in reg'[r] <=> l \in reg[r]) \/ (l \in reg'[r] <=> b)
      BY <2>1, <1>5 DEF TypeOK
    <2>6. UpdateOk(r, l, b) => (l \in reg'[r] <=> b)
      BY <2>2, <1>5 DEF TypeOK
    <2> QED
      BY <2>3, <2>4, <2>5, <2>6
  <1>7. CASE ~(WriteOk(r, p, bits) \/ WriteFail(r, p, bits))
    <2>1. Fault /\ UNCHANGED regVars /\ ~UpdateOk(r, l, b)
      BY <1>7 DEF UpdateOk, UpdateFail
    <2>2. CacheCoherent'
      BY <2>1 DEF regVars, CacheCoherent, Port
    <2> QED
      BY <2>1, <2>2, Budget DEF regVars, TypeOK
  <1> QED
    BY <1>6, <1>7

(* No consumer calls before the gpiochip exists.                            *)
NoEarlyCall == pc \in ProbeSteps \ {"seed0", "seed1", "request", "ready", "failed"}
                 => \A l \in Lines : op[l] = "idle"

(* A regmap starts empty, so the soft reset behind its back spoils nothing. *)
EmptyCache == pc = "reset" => cached = {}

(* Between the two writes of direction_output() the latch holds the level.  *)
LatchSet == \A l \in Lines : op[l] = "direct" => (l \in reg["OUT"] <=> arg[l])

DriveInv == TypeOK /\ CacheCoherent /\ EmptyCache /\ NoEarlyCall /\ LatchSet

LEMMA DriveInit == Init => DriveInv
  <1> SUFFICES ASSUME Init PROVE DriveInv
    OBVIOUS
  <1>1. TypeOK
    <2>1. MaxFaults \in 0 .. MaxFaults
      BY ExpanderAssumption
    <2> QED
      BY <2>1 DEF Init, TypeOK, ProbeSteps, Ops
  <1>2. CacheCoherent /\ EmptyCache /\ NoEarlyCall /\ LatchSet
    BY DEF Init, CacheCoherent, EmptyCache, NoEarlyCall, LatchSet
  <1> QED
    BY <1>1, <1>2 DEF DriveInv

(* Each gpio_chip write: what it does to the registers is UpdateFacts, and  *)
(* other consumers' calls are untouched.                                    *)
LEMMA GpioStep ==
    ASSUME DriveInv, NEW l \in Lines,
           Latch(l) \/ Direct(l) \/ DirectionInput(l) \/ Set(l)
    PROVE  DriveInv'
  <1>1. CASE Latch(l)
    <2>1. UpdateOk("OUT", l, arg[l]) \/ UpdateFail("OUT", l, arg[l])
      BY <1>1 DEF Latch
    <2>2. /\ op' = [op EXCEPT ![l] = "direct"] \/ op' = [op EXCEPT ![l] = "idle"]
          /\ op' = [op EXCEPT ![l] = "direct"] => UpdateOk("OUT", l, arg[l])
                                                  \/ op' = [op EXCEPT ![l] = "idle"]
      BY <1>1 DEF Latch, Return
    <2>3. arg[l] \in BOOLEAN
      BY DEF DriveInv, TypeOK
    <2>4. TypeOK'
      BY <1>1, <2>1, <2>2, <2>3, UpdateFacts, PortFacts
      DEF DriveInv, TypeOK, Latch, irqVars, hndVars, Ops
    <2>5. CacheCoherent'
      BY <2>1, <2>3, UpdateFacts, PortFacts DEF DriveInv
    <2>6. NoEarlyCall' /\ EmptyCache'
      BY <1>1, PortFacts DEF DriveInv, NoEarlyCall, EmptyCache, ProbeSteps, TypeOK, Latch
    <2>7. LatchSet'
      BY <1>1, <2>1, <2>2, <2>3, UpdateFacts, PortFacts DEF DriveInv, LatchSet, Latch, TypeOK
    <2> QED
      BY <2>4, <2>5, <2>6, <2>7 DEF DriveInv
  <1>2. CASE Direct(l) \/ DirectionInput(l)
    <2> DEFINE b == IF op[l] = "direct" THEN FALSE ELSE TRUE
    <2>1. UpdateOk("CFG", l, b) \/ UpdateFail("CFG", l, b)
      BY <1>2 DEF Direct, DirectionInput
    <2>2. b \in BOOLEAN
      OBVIOUS
    <2>3. op' = [op EXCEPT ![l] = "idle"]
      BY <1>2 DEF Direct, DirectionInput, Return
    <2> HIDE DEF b
    <2>4. TypeOK'
      BY <1>2, <2>1, <2>2, <2>3, UpdateFacts, PortFacts
      DEF DriveInv, TypeOK, Direct, DirectionInput, irqVars, hndVars, Ops
    <2>5. CacheCoherent'
      BY <2>1, <2>2, UpdateFacts, PortFacts DEF DriveInv
    <2>6. NoEarlyCall' /\ EmptyCache'
      BY <1>2, PortFacts DEF DriveInv, NoEarlyCall, EmptyCache, ProbeSteps, TypeOK, Direct, DirectionInput
    <2>7. \A k \in Lines : k \in reg'["OUT"] <=> k \in reg["OUT"]
      BY <2>1, <2>2, UpdateFacts, PortFacts DEF DriveInv
    <2>8. LatchSet'
      BY <1>2, <2>3, <2>7 DEF DriveInv, LatchSet, Direct, DirectionInput, TypeOK
    <2> QED
      BY <2>4, <2>5, <2>6, <2>8 DEF DriveInv
  <1>3. CASE Set(l)
    <2>1. UpdateOk("OUT", l, arg[l]) \/ UpdateFail("OUT", l, arg[l])
      BY <1>3 DEF Set
    <2>2. op' = [op EXCEPT ![l] = "idle"] /\ arg[l] \in BOOLEAN
      BY <1>3 DEF Set, Return, DriveInv, TypeOK
    <2>3. TypeOK'
      BY <1>3, <2>1, <2>2, UpdateFacts, PortFacts
      DEF DriveInv, TypeOK, Set, irqVars, hndVars, Ops
    <2>4. CacheCoherent'
      BY <2>1, <2>2, UpdateFacts, PortFacts DEF DriveInv
    <2>5. NoEarlyCall' /\ EmptyCache'
      BY <1>3, PortFacts DEF DriveInv, NoEarlyCall, EmptyCache, ProbeSteps, TypeOK, Set
    <2>6. LatchSet'
      BY <1>3, <2>1, <2>2, UpdateFacts, PortFacts DEF DriveInv, LatchSet, Set, TypeOK
    <2> QED
      BY <2>3, <2>4, <2>5, <2>6 DEF DriveInv
  <1> QED
    BY <1>1, <1>2, <1>3

(* The steps of probe() and those that only move pads, masks and samples.   *)
LEMMA ProbeStep ==
    ASSUME DriveInv, Probe
    PROVE  DriveInv'
  <1> USE DEF DriveInv, EmptyCache, NoEarlyCall, LatchSet, callVars, irqVars, hndVars, regVars
  <1>1. CASE SoftReset
    <2>1. cached' = {} /\ op' = op /\ \A l \in Lines : op[l] = "idle"
      BY <1>1 DEF SoftReset, ProbeSteps
    <2>2. CacheCoherent'
      BY <2>1 DEF CacheCoherent
    <2>3. reg' \in [Regs -> SUBSET Lines] /\ intMask' \subseteq Lines /\ pc' \in ProbeSteps
      BY <1>1, ExpanderAssumption DEF SoftReset, TypeOK, ProbeSteps
    <2>4. faults' \in 0 .. MaxFaults
      BY <1>1, Budget DEF SoftReset, TypeOK
    <2>5. TypeOK'
      BY <1>1, <2>3, <2>4 DEF SoftReset, TypeOK
    <2> QED
      BY <2>1, <2>2, <2>5
  <1>2. CASE Identify
    <2>1. pc' \in ProbeSteps /\ pc' # "reset" /\ faults' \in 0 .. MaxFaults
      BY <1>2, Budget DEF Identify, NextStep, TypeOK, ProbeSteps
    <2>2. TypeOK'
      BY <1>2, <2>1 DEF Identify, TypeOK
    <2>3. \A l \in Lines : op[l] = "idle"
      BY <1>2 DEF Identify, ProbeSteps
    <2>4. CacheCoherent'
      BY <1>2 DEF Identify, CacheCoherent, Port
    <2> QED
      BY <1>2, <2>1, <2>2, <2>3, <2>4 DEF Identify
  <1>3. CASE Configure
    <2>1. /\ \A l \in Lines : op[l] = "idle"
          /\ op' = op
          /\ pc' \in ProbeSteps /\ pc' # "reset"
      BY <1>3 DEF Configure, AllInputs, NoInterrupts, NextStep, ProbeSteps
    <2>2. CASE \E q \in Ports : AllInputs(q)
      <3>1. PICK q \in Ports : AllInputs(q)
        BY <2>2
      <3>2. WriteOk("CFG", q, Port(q)) \/ WriteFail("CFG", q, Port(q))
        BY <3>1 DEF AllInputs
      <3>3. /\ reg' \in [Regs -> SUBSET Lines] /\ cache' \in [Regs -> SUBSET Lines]
            /\ cached' \subseteq Regs \X Ports /\ faults' \in 0 .. MaxFaults
            /\ CacheCoherent'
        BY <3>2, WriteFacts, PortFacts
      <3>4. TypeOK'
        BY <2>1, <3>1, <3>3 DEF AllInputs, TypeOK
      <3> QED
        BY <2>1, <3>3, <3>4
    <2>3. CASE \E q \in Ports : NoInterrupts(q)
      <3>1. PICK q \in Ports : NoInterrupts(q)
        BY <2>3
      <3>2. intMask' \subseteq Lines /\ faults' \in 0 .. MaxFaults
        BY <3>1, Budget, PortFacts DEF NoInterrupts, TypeOK
      <3>3. TypeOK'
        BY <2>1, <3>1, <3>2 DEF NoInterrupts, TypeOK
      <3>4. CacheCoherent'
        BY <3>1 DEF NoInterrupts, CacheCoherent, Port
      <3> QED
        BY <2>1, <3>3, <3>4
    <2> QED
      BY <1>3, <2>2, <2>3, PortFacts DEF Configure
  <1>4. CASE AddGpiochip \/ RequestIrq
    <2>1. TypeOK'
      BY <1>4 DEF AddGpiochip, RequestIrq, TypeOK, ProbeSteps
    <2>2. CacheCoherent'
      BY <1>4 DEF AddGpiochip, RequestIrq, CacheCoherent, Port
    <2> QED
      BY <1>4, <2>1, <2>2 DEF AddGpiochip, RequestIrq, ProbeSteps
  <1>5. CASE Seed0 \/ Seed1
    <2>1. faults' \in 0 .. MaxFaults
      BY <1>5, Budget DEF Seed0, Seed1, TypeOK
    <2>2. samp' \subseteq Lines /\ seen' \subseteq Lines /\ prev' \subseteq Lines
      BY <1>5, WithFacts, PortFacts DEF Seed0, Seed1, ReadPort, NotePort, TypeOK
    <2>3. TypeOK'
      BY <1>5, <2>1, <2>2 DEF Seed0, Seed1, TypeOK, ProbeSteps
    <2>4. CacheCoherent'
      BY <1>5 DEF Seed0, Seed1, CacheCoherent, Port
    <2> QED
      BY <1>5, <2>3, <2>4 DEF Seed0, Seed1, ProbeSteps
  <1> QED
    BY <1>1, <1>2, <1>3, <1>4, <1>5 DEF Probe

(* A read of the directions at most fills the cache with what the chip has. *)
LEMMA GetDirectionStep ==
    ASSUME DriveInv, NEW l \in Lines, GetDirection(l)
    PROVE  DriveInv'
  <1> DEFINE p == PortOf(l)
             bits == reg["CFG"] \cap Port(p)
  <1>1. p \in Ports /\ bits \in SUBSET Port(p) /\ bits \in SUBSET Lines
    BY PortFacts
  <1>2. Bits("CFG", p) = bits
    BY <1>1, PortFacts DEF DriveInv, CacheCoherent, Bits
  <1> HIDE DEF p
  <1>3. UNCHANGED <<pc, callVars, irqVars, hndVars, reg, intMask, seen, ext, told>>
    BY DEF GetDirection
  <1>4. faults' \in 0 .. MaxFaults
    BY Budget DEF GetDirection, DriveInv, TypeOK
  <1>5. Keep("CFG", p, bits) \/ UNCHANGED <<cache, cached>>
    BY <1>2 DEF GetDirection, p
  <1>6. /\ cache' \in [Regs -> SUBSET Lines] /\ cached' \subseteq Regs \X Ports
        /\ CacheCoherent'
    <2>1. CASE UNCHANGED <<cache, cached>>
      BY <1>3, <2>1 DEF DriveInv, TypeOK, CacheCoherent, Port
    <2>2. CASE Keep("CFG", p, bits)
      <3>1. With(cache["CFG"], p, bits) \in SUBSET Lines
        BY <1>1, PortFacts, WithFacts DEF DriveInv, TypeOK
      <3>2. /\ cache' = [cache EXCEPT !["CFG"] = With(@, p, bits)]
            /\ cached' = cached \cup {<<"CFG", p>>}
        BY <2>2 DEF Keep
      <3>3. /\ cache' \in [Regs -> SUBSET Lines]
            /\ cached' \subseteq Regs \X Ports
        <4>1. cache' \in [Regs -> SUBSET Lines]
          BY <3>1, <3>2 DEF DriveInv, TypeOK
        <4>2. <<"CFG", p>> \in Regs \X Ports
          BY <1>1, PortFacts
        <4>3. cached' \subseteq Regs \X Ports
          BY <3>2, <4>2 DEF DriveInv, TypeOK
        <4> QED
          BY <4>1, <4>3
      <3>4. ASSUME NEW s \in Regs, NEW q \in Ports, <<s, q>> \in cached'
            PROVE  cache'[s] \cap Port(q) = reg[s] \cap Port(q)
        <4>1. CASE s = "CFG" /\ q = p
          <5>1. cache'[s] = With(cache["CFG"], p, bits)
            BY <3>2, <4>1, PortFacts DEF DriveInv, TypeOK
          <5> QED
            BY <1>1, <4>1, <5>1, PortFacts, WithFacts DEF DriveInv, TypeOK
        <4>2. CASE ~(s = "CFG" /\ q = p)
          <5>1. cache[s] \cap Port(q) = reg[s] \cap Port(q)
            BY <3>2, <3>4, <4>2 DEF DriveInv, CacheCoherent
          <5>2. cache'[s] \cap Port(q) = cache[s] \cap Port(q)
            BY <1>1, <3>2, <4>2, PortFacts, WithFacts DEF DriveInv, TypeOK
          <5> QED
            BY <5>1, <5>2
        <4> QED
          BY <4>1, <4>2
      <3> QED
        BY <1>3, <3>3, <3>4 DEF CacheCoherent, Port
    <2> QED
      BY <1>5, <2>1, <2>2
  <1>7. pc # "reset"
    BY DEF GetDirection, Added
  <1>8. TypeOK'
    BY <1>3, <1>4, <1>6 DEF DriveInv, TypeOK, callVars, irqVars, hndVars
  <1> QED
    BY <1>3, <1>6, <1>7, <1>8
    DEF DriveInv, EmptyCache, NoEarlyCall, LatchSet, callVars

(* The steps that change no output register.                                *)
LEMMA ConsumerStep ==
    ASSUME DriveInv, NEW l \in Lines,
           Call(l) \/ Get(l) \/ IrqBusLock(l) \/ IrqMaskUnmask(l) \/ Sync0(l) \/ Sync1(l)
    PROVE  DriveInv'
  <1> USE DEF DriveInv, EmptyCache, NoEarlyCall, LatchSet, callVars, irqVars, hndVars, regVars
  <1>1. CacheCoherent'
    BY DEF Call, Get, IrqBusLock, IrqMaskUnmask, Sync0, Sync1, CacheCoherent, Port
  <1>2. faults' \in 0 .. MaxFaults
    BY Budget DEF Call, Get, IrqBusLock, IrqMaskUnmask, Sync0, Sync1, SyncPort, TypeOK
  <1>3. CASE Call(l)
    <2>1. pc' = pc /\ pc \notin ProbeSteps \ {"seed0", "seed1", "request", "ready", "failed"}
      BY <1>3 DEF Call, Added, ProbeSteps
    <2>2. op' \in [Lines -> Ops] /\ arg' \in [Lines -> BOOLEAN]
      BY <1>3 DEF Call, TypeOK, Ops
    <2>3. \A k \in Lines : op'[k] = "direct" => k # l /\ op[k] = "direct" /\ arg'[k] = arg[k]
      BY <1>3 DEF Call, TypeOK
    <2> QED
      BY <1>1, <1>3, <2>1, <2>2, <2>3 DEF Call, TypeOK
  <1>4. CASE Get(l)
    <2>1. seen' \subseteq Lines
      BY <1>4, WithFacts, PortFacts DEF Get, NotePort, TypeOK
    <2> QED
      BY <1>1, <1>2, <1>4, <2>1 DEF Get, TypeOK
  <1>5. CASE IrqBusLock(l) \/ IrqMaskUnmask(l) \/ Sync0(l) \/ Sync1(l)
    <2>1. pc' = pc /\ reg' = reg /\ arg' = arg /\ cached' = cached /\ cache' = cache
      BY <1>5 DEF IrqBusLock, IrqMaskUnmask, Sync0, Sync1
    <2>2. \E o \in {"idle", "locked", "sync0", "sync1"} : op' = [op EXCEPT ![l] = o]
      BY <1>5 DEF IrqBusLock, IrqMaskUnmask, Sync0, Sync1, Return
    <2>3. op[l] # "idle" \/ Added
      BY <1>5 DEF IrqBusLock, IrqMaskUnmask, Sync0, Sync1
    <2>4. op' \in [Lines -> Ops] /\ \A k \in Lines : op'[k] = "direct" => op[k] = "direct"
      BY <2>2 DEF TypeOK, Ops
    <2>5. NoEarlyCall'
      BY <2>1, <2>3 DEF Added
    <2>6. LatchSet'
      BY <2>1, <2>4
    <2>7. intMask' \subseteq Lines
      BY <1>5, WithFacts, PortFacts
      DEF IrqBusLock, IrqMaskUnmask, Sync0, Sync1, SyncPort, TypeOK
    <2>8. told' \in [Lines -> {"none", "low", "high"}] /\ irqMask' \subseteq Lines
          /\ lock' \in Lines \cup {free}
      BY <1>5 DEF IrqBusLock, IrqMaskUnmask, Sync0, Sync1, TypeOK
    <2>9. TypeOK'
      BY <1>2, <1>5, <2>1, <2>4, <2>7, <2>8
      DEF IrqBusLock, IrqMaskUnmask, Sync0, Sync1, TypeOK
    <2> QED
      BY <1>1, <2>1, <2>5, <2>6, <2>9
  <1> QED
    BY <1>3, <1>4, <1>5

LEMMA HandlerStep ==
    ASSUME DriveInv, Handler \/ \E l \in Lines : PadMoves(l)
    PROVE  DriveInv'
  <1> USE DEF DriveInv, EmptyCache, NoEarlyCall, LatchSet, callVars, irqVars, hndVars, regVars
  <1>1. /\ UNCHANGED <<pc, callVars, irqVars, regVars, intMask>>
    BY DEF Handler, HandlerStart, ReadP0, ReadP1, HandlerRead, Changed, NestedIrq, PadMoves
  <1>2. CacheCoherent'
    BY <1>1 DEF CacheCoherent, Port
  <1>3. CASE HandlerStart \/ Changed \/ \E l \in Lines : PadMoves(l)
    BY <1>1, <1>2, <1>3 DEF HandlerStart, Changed, PadMoves, Differs, TypeOK
  <1>4. CASE ReadP0 \/ ReadP1
    <2>1. samp' \subseteq Lines /\ seen' \subseteq Lines /\ faults' \in 0 .. MaxFaults
      BY <1>4, WithFacts, PortFacts, Budget
      DEF ReadP0, ReadP1, HandlerRead, ReadPort, NotePort, TypeOK
    <2> QED
      BY <1>1, <1>2, <1>4, <2>1 DEF ReadP0, ReadP1, HandlerRead, TypeOK
  <1>5. CASE \E l \in Lines : NestedIrq(l)
    BY <1>1, <1>2, <1>5 DEF NestedIrq, TypeOK, Level
  <1> QED
    BY <1>3, <1>4, <1>5 DEF Handler

LEMMA DriveInvariant == Spec => []DriveInv
  <1>1. DriveInv /\ [Next]_vars => DriveInv'
    <2> SUFFICES ASSUME DriveInv, [Next]_vars PROVE DriveInv'
      OBVIOUS
    <2>1. CASE UNCHANGED vars
      BY <2>1 DEF vars, DriveInv, TypeOK, CacheCoherent, EmptyCache, NoEarlyCall, LatchSet, Port
    <2>2. CASE Next
      BY <2>2, ProbeStep, HandlerStep, ConsumerStep, GetDirectionStep, GpioStep DEF Next, Consumer
    <2> QED
      BY <2>1, <2>2
  <1> QED
    BY <1>1, DriveInit, PTL DEF Spec

(* Type correctness of driver, register cache and chip.                     *)
THEOREM TypeCorrect == Spec => []TypeOK
  BY DriveInvariant, PTL DEF DriveInv

(* What a pin does changes only during a call for that pin and only to what *)
(* the call asks for, for any number of concurrent consumers and failed     *)
(* transfers: one port register serves eight pins, but the coherent cache   *)
(* confines an update to its bit, and LatchSet puts the level into the      *)
(* latch before the direction changes.                                      *)
THEOREM DriveCorrect == Spec => DriveAsAsked
  <1> DEFINE A == \A l \in Lines : Added /\ Drive(l)' # Drive(l) =>
                     \/ op[l] \in {"latch", "direct", "set"} /\ Drive(l)' = Level(arg[l])
                     \/ op[l] = "input" /\ Drive(l)' = "input"
  <1>1. DriveInv /\ [Next]_vars => [A]_vars
    <2> SUFFICES ASSUME DriveInv, Next, NEW k \in Lines, Added, Drive(k)' # Drive(k)
                 PROVE  \/ op[k] \in {"latch", "direct", "set"} /\ Drive(k)' = Level(arg[k])
                        \/ op[k] = "input" /\ Drive(k)' = "input"
      BY DEF vars
    <2>1. reg' # reg
      BY DEF Drive, Level
    <2>2. PICK l \in Lines : Latch(l) \/ Direct(l) \/ DirectionInput(l) \/ Set(l)
      BY <2>1 DEF Next, Probe, Consumer, Handler, Added, SoftReset, Identify, Configure,
             AllInputs, AddGpiochip, Seed0, Seed1, RequestIrq, Call, GetDirection, Get,
             IrqBusLock,
             IrqMaskUnmask, Sync0, Sync1, HandlerStart, ReadP0, ReadP1, HandlerRead,
             Changed, NestedIrq, PadMoves, regVars
    <2> USE DEF DriveInv
    <2>3. arg[l] \in BOOLEAN
      BY DEF TypeOK
    <2>4. CASE Latch(l) \/ Set(l)
      <3>1. UpdateOk("OUT", l, arg[l]) \/ UpdateFail("OUT", l, arg[l])
        BY <2>4 DEF Latch, Set
      <3>2. /\ \A s \in Regs, m \in Lines :
                  (s # "OUT" \/ m # l) => (m \in reg'[s] <=> m \in reg[s])
            /\ (l \in reg'["OUT"] <=> l \in reg["OUT"]) \/ (l \in reg'["OUT"] <=> arg[l])
        BY <2>3, <3>1, UpdateFacts, PortFacts
      <3>3. k = l /\ (l \in reg'["OUT"] <=> arg[l]) /\ l \notin reg'["CFG"]
        BY <3>2, PortFacts DEF Drive, Level
      <3> QED
        BY <2>3, <2>4, <3>3 DEF Drive, Level, Latch, Set
    <2>5. CASE Direct(l)
      <3>1. UpdateOk("CFG", l, FALSE) \/ UpdateFail("CFG", l, FALSE)
        BY <2>5 DEF Direct
      <3>2. /\ \A s \in Regs, m \in Lines :
                  (s # "CFG" \/ m # l) => (m \in reg'[s] <=> m \in reg[s])
            /\ (l \in reg'["CFG"] <=> l \in reg["CFG"]) \/ l \notin reg'["CFG"]
        BY <3>1, UpdateFacts, PortFacts
      <3>3. k = l /\ l \notin reg'["CFG"] /\ (l \in reg'["OUT"] <=> l \in reg["OUT"])
        BY <3>2, PortFacts DEF Drive, Level
      <3>4. op[l] = "direct" /\ (l \in reg["OUT"] <=> arg[l])
        BY <2>5 DEF Direct, LatchSet
      <3> QED
        BY <2>3, <3>3, <3>4 DEF Drive, Level
    <2>6. CASE DirectionInput(l)
      <3>1. UpdateOk("CFG", l, TRUE) \/ UpdateFail("CFG", l, TRUE)
        BY <2>6 DEF DirectionInput
      <3>2. /\ \A s \in Regs, m \in Lines :
                  (s # "CFG" \/ m # l) => (m \in reg'[s] <=> m \in reg[s])
            /\ (l \in reg'["CFG"] <=> l \in reg["CFG"]) \/ l \in reg'["CFG"]
        BY <3>1, UpdateFacts, PortFacts
      <3>3. k = l /\ l \in reg'["CFG"]
        BY <3>2, PortFacts DEF Drive, Level
      <3> QED
        BY <2>6, <3>3 DEF Drive, DirectionInput
    <2> QED
      BY <2>2, <2>4, <2>5, <2>6
  <1> QED
    BY <1>1, DriveInvariant, PTL DEF Spec, DriveAsAsked

(* Who ends a call without an error: the second write of direction_output,  *)
(* the only one of direction_input and set, and the bus unlock.             *)
LEMMA Returns ==
    ASSUME TypeOK, Next, NEW l \in Lines, op[l] \in {"direct", "input", "set"},
           op'[l] = "idle", NoFault
    PROVE  /\ op[l] = "direct" => UpdateOk("CFG", l, FALSE)
           /\ op[l] = "input" => UpdateOk("CFG", l, TRUE)
           /\ op[l] = "set" => UpdateOk("OUT", l, arg[l])
  <1>1. PICK k \in Lines : Consumer(k)
    BY DEF Next, Probe, Handler, SoftReset, Identify, Configure, AllInputs, NoInterrupts,
           AddGpiochip, Seed0, Seed1, RequestIrq, HandlerStart, ReadP0, ReadP1,
           HandlerRead, Changed, NestedIrq, PadMoves, callVars
  <1>2. \/ \E value \in {"direct", "idle", "locked", "sync0", "sync1"} :
              op' = [op EXCEPT ![k] = value]
        \/ Call(k) \/ UNCHANGED op
    BY <1>1 DEF Consumer, Latch, Direct, DirectionInput, Set, GetDirection, Get, IrqBusLock,
               IrqMaskUnmask, Sync0, Sync1, Return, callVars
  <1>3. k = l
    BY <1>2 DEF TypeOK, Call
  <1>4. Direct(l) \/ DirectionInput(l) \/ Set(l)
    BY <1>1, <1>3 DEF Consumer, Call, Latch, GetDirection, Get, IrqBusLock, IrqMaskUnmask,
                      Sync0, Sync1, TypeOK, callVars
  <1>5. ~Fault
    BY DEF Fault, NoFault, TypeOK
  <1>6. \A r, b : ~UpdateFail(r, l, b)
    BY <1>5 DEF UpdateFail, WriteFail
  <1> QED
    BY <1>4, <1>6 DEF Direct, DirectionInput, Set

(* A call that returns without an error has had its effect: what regmap     *)
(* leaves out because of its copy is what the chip already holds, whatever  *)
(* has failed before and whoever else uses the port.                        *)
THEOREM SuccessCorrect == Spec => SuccessTakesEffect
  <1> DEFINE A == \A l \in Lines : op[l] # "idle" /\ op'[l] = "idle" /\ NoFault =>
                    /\ op[l] = "direct" => Drive(l)' = Level(arg[l])
                    /\ op[l] = "input" => Drive(l)' = "input"
                    /\ op[l] = "set" => Drive(l)' \in {"input", Level(arg[l])}
  <1>1. DriveInv /\ [Next]_vars => [A]_vars
    <2> SUFFICES ASSUME DriveInv, Next, NEW l \in Lines, op'[l] = "idle", NoFault,
                        op[l] \in {"direct", "input", "set"}
                 PROVE  /\ op[l] = "direct" => Drive(l)' = Level(arg[l])
                        /\ op[l] = "input" => Drive(l)' = "input"
                        /\ op[l] = "set" => Drive(l)' \in {"input", Level(arg[l])}
      OBVIOUS
    <2>1. TypeOK /\ CacheCoherent /\ LatchSet /\ arg[l] \in BOOLEAN
      BY DEF DriveInv, TypeOK
    <2>2. CASE op[l] = "direct"
      <3>1. UpdateOk("CFG", l, FALSE)
        BY <2>1, <2>2, Returns
      <3>2. l \notin reg'["CFG"] /\ (l \in reg'["OUT"] <=> l \in reg["OUT"])
        BY <2>1, <3>1, UpdateFacts, PortFacts
      <3>3. l \in reg'["OUT"] <=> arg[l]
        BY <2>1, <2>2, <3>2 DEF LatchSet
      <3> QED
        BY <2>1, <2>2, <3>2, <3>3 DEF Drive, Level
    <2>3. CASE op[l] = "input"
      <3>1. UpdateOk("CFG", l, TRUE)
        BY <2>1, <2>3, Returns
      <3>2. l \in reg'["CFG"]
        BY <2>1, <3>1, UpdateFacts, PortFacts
      <3> QED
        BY <2>3, <3>2 DEF Drive
    <2>4. CASE op[l] = "set"
      <3>1. UpdateOk("OUT", l, arg[l])
        BY <2>1, <2>4, Returns
      <3>2. l \in reg'["OUT"] <=> arg[l]
        BY <2>1, <3>1, UpdateFacts, PortFacts
      <3> QED
        BY <2>1, <2>4, <3>2 DEF Drive, Level
    <2> QED
      BY <2>2, <2>3, <2>4
  <1>2. Spec => []DriveInv
    BY DriveInvariant
  <1> QED
    BY <1>1, <1>2, PTL DEF Spec, SuccessTakesEffect

(* A line's consumer has been told the level in prev_state, unless the      *)
(* handler still has to tell it; of a masked line, and before the parent    *)
(* IRQ is taken, nobody has been told anything.                             *)
ToldInv ==
    /\ pc # "ready" => hpc = "idle" /\ \A l \in Lines : told[l] = "none"
    /\ hpc # "nested" => todo = {}
    /\ \A l \in irqMask : told[l] = "none"
    /\ \A l \in Lines : told[l] # "none" =>
          IF l \in todo THEN told[l] # Level(l \in prev) ELSE told[l] = Level(l \in prev)

LEMMA ToldInvariant == Spec => [](TypeOK /\ ToldInv)
  <1>1. Init => ToldInv
    BY DEF Init, ToldInv
  <1>2. TypeOK /\ ToldInv /\ [Next]_vars => ToldInv'
    <2> SUFFICES ASSUME TypeOK, ToldInv, [Next]_vars PROVE ToldInv'
      OBVIOUS
    <2> USE DEF ToldInv, callVars, irqVars, hndVars
    <2>1. CASE Probe
      <3>1. pc # "ready" /\ UNCHANGED <<hpc, todo, told, irqMask>>
        BY <2>1 DEF Probe, SoftReset, Identify, Configure, AllInputs, NoInterrupts,
               AddGpiochip, Seed0, Seed1, RequestIrq
      <3> QED
        BY <3>1 DEF TypeOK
    <2>2. CASE Handler
      <3>1. pc = "ready" /\ pc' = pc /\ irqMask' = irqMask
        BY <2>2 DEF Handler, HandlerStart, ReadP0, ReadP1, HandlerRead, Changed, NestedIrq
      <3>2. CASE HandlerStart \/ ReadP0 \/ ReadP1
        BY <3>1, <3>2 DEF HandlerStart, ReadP0, ReadP1, HandlerRead
      <3>3. CASE Changed
        <4>1. todo = {} /\ prev' = samp /\ told' = told /\ todo' = Differs(samp, prev) \ irqMask
          BY <3>3 DEF Changed
        <4>2. hpc' # "nested" => todo' = {}
          BY <3>3 DEF Changed
        <4>3. ASSUME NEW l \in Lines, told[l] # "none"
              PROVE  IF l \in todo' THEN told[l] # Level(l \in samp)
                                    ELSE told[l] = Level(l \in samp)
          <5>1. l \notin irqMask /\ told[l] = Level(l \in prev)
            BY <4>1, <4>3
          <5>2. l \in todo' <=> ~(l \in samp <=> l \in prev)
            BY <4>1, <5>1 DEF Differs
          <5> QED
            BY <5>1, <5>2 DEF Level
        <4> QED
          BY <3>1, <4>1, <4>2, <4>3
      <3>4. CASE \E l \in Lines : NestedIrq(l)
        <4>1. PICK l \in Lines : NestedIrq(l)
          BY <3>4
        <4>2. prev' = prev /\ todo' = todo \ {l} /\ (hpc' # "nested" => todo' = {})
          BY <4>1 DEF NestedIrq
        <4>3. \A k \in Lines : k # l => told'[k] = told[k]
          BY <4>1 DEF NestedIrq, TypeOK
        <4>4. IF l \in irqMask THEN told'[l] = "none" ELSE told'[l] = Level(l \in prev)
          BY <4>1 DEF NestedIrq, TypeOK
        <4> QED
          BY <3>1, <4>2, <4>3, <4>4 DEF TypeOK
      <3> QED
        BY <2>2, <3>2, <3>3, <3>4 DEF Handler
    <2>3. CASE \E l \in Lines : Consumer(l) \/ PadMoves(l)
      <3>1. PICK l \in Lines : Consumer(l) \/ PadMoves(l)
        BY <2>3
      <3>2. UNCHANGED <<pc, hndVars>>
        BY <3>1 DEF Consumer, Call, Latch, Direct, DirectionInput, Set, GetDirection, Get,
               IrqBusLock,
               IrqMaskUnmask, Sync0, Sync1, PadMoves
      <3>3. CASE IrqMaskUnmask(l)
        <4>1. told' = [told EXCEPT ![l] = "none"] /\ irqMask' \subseteq irqMask \cup {l}
          BY <3>3 DEF IrqMaskUnmask
        <4> QED
          BY <3>2, <4>1 DEF TypeOK
      <3>4. CASE ~IrqMaskUnmask(l)
        <4>1. UNCHANGED <<told, irqMask>>
          BY <3>1, <3>4 DEF Consumer, Call, Latch, Direct, DirectionInput, Set, GetDirection,
                 Get, IrqBusLock, Sync0, Sync1, PadMoves
        <4> QED
          BY <3>2, <4>1
      <3> QED
        BY <3>3, <3>4
    <2> QED
      BY <2>1, <2>2, <2>3 DEF Next, vars
  <1> QED
    BY <1>1, <1>2, TypeCorrect, PTL DEF Spec

(* No consumer is called twice in a row for the same level, for any number  *)
(* of lines and failed reads, however requests and frees interleave with    *)
(* the handler's samples.                                                   *)
THEOREM EventsCorrect == Spec => EventsAlternate
  <1> DEFINE A == \A l \in todo : l \notin todo' /\ l \notin irqMask
                                   => told[l] # Level(l \in prev)
  <1>1. TypeOK /\ ToldInv /\ [Next]_vars => [A]_vars
    <2> SUFFICES ASSUME TypeOK, ToldInv, NEW l \in todo PROVE told[l] # Level(l \in prev)
      OBVIOUS
    <2> QED
      BY DEF ToldInv, TypeOK, Level
  <1> QED
    BY <1>1, ToldInvariant, PTL DEF Spec, EventsAlternate

-----------------------------------------------------------------------------
(* Masks                                                                    *)

(* The bus lock belongs to the line that is in the middle of a mask change. *)
HeldInv == \A l \in Lines : op[l] \in {"locked", "sync0", "sync1"} <=> lock = l

(* Before the gpiochip exists everything is masked; afterwards the chip     *)
(* has what the driver says, but for the ports of a mask change in progress *)
(* that are still to be written.                                            *)
MaskInv ==
    /\ pc \notin {"seed0", "seed1", "request", "ready", "failed"}
          => irqMask = Lines /\ lock = free
    /\ faults = MaxFaults =>
          /\ pc = "int1" => P0 \subseteq intMask
          /\ pc \in {"ctl", "add"} => intMask = Lines
          /\ Added /\ lock = free => intMask = irqMask
          /\ Added => \A l \in Lines : op[l] = "locked" => intMask = irqMask
          /\ Added => \A l \in Lines :
                op[l] = "sync1" => intMask \cap P0 = irqMask \cap P0

LEMMA Unfailed ==
    ASSUME faults \in 0 .. MaxFaults, Fault \/ NoFault, faults' = MaxFaults
    PROVE  NoFault /\ ~Fault /\ faults = MaxFaults
  BY ExpanderAssumption DEF Fault, NoFault

LEMMA MaskInvariant == Spec => [](DriveInv /\ HeldInv /\ MaskInv)
  <1> USE DEF callVars, irqVars, hndVars, regVars
  <1>1. Init => HeldInv /\ MaskInv
    BY ExpanderAssumption DEF Init, HeldInv, MaskInv, Added
  <1>2. DriveInv /\ HeldInv /\ MaskInv /\ [Next]_vars => HeldInv' /\ MaskInv'
    <2> SUFFICES ASSUME DriveInv, HeldInv, MaskInv, [Next]_vars PROVE HeldInv' /\ MaskInv'
      OBVIOUS
    <2>0. TypeOK /\ faults \in 0 .. MaxFaults
      BY DEF DriveInv, TypeOK
    <2>1. CASE Probe
      <3>1. UNCHANGED <<op, lock, irqMask>>
        BY <2>1 DEF Probe, SoftReset, Identify, Configure, AllInputs, NoInterrupts,
               AddGpiochip, Seed0, Seed1, RequestIrq
      <3>2. faults' = MaxFaults => faults = MaxFaults
        BY <2>0, <2>1, Unfailed DEF Probe, SoftReset, Identify, Configure, AllInputs,
               WriteOk, WriteFail, NoInterrupts, AddGpiochip, Seed0, Seed1, RequestIrq
      <3>3. CASE SoftReset
        BY <3>1, <3>3 DEF SoftReset, HeldInv, MaskInv, Added
      <3>4. CASE Identify
        BY <3>1, <3>2, <3>4 DEF Identify, NextStep, HeldInv, MaskInv, Added
      <3>5. CASE Configure
        <4>1. CASE pc \in {"cfg0", "cfg1"}
          BY <3>1, <3>5, <4>1 DEF Configure, AllInputs, NextStep, HeldInv, MaskInv, Added
        <4>2. CASE pc = "int0" /\ NoInterrupts(0)
          <5>1. faults' = MaxFaults => intMask' = intMask \cup P0
            BY <2>0, <4>2, Unfailed DEF NoInterrupts, Port
          <5> QED
            BY <3>1, <4>2, <5>1 DEF NoInterrupts, NextStep, HeldInv, MaskInv, Added
        <4>3. CASE pc = "int1" /\ NoInterrupts(1)
          <5>1. faults' = MaxFaults => intMask' = intMask \cup P1
            BY <2>0, <4>3, Unfailed DEF NoInterrupts, Port
          <5>2. faults' = MaxFaults => intMask' = Lines
            BY <2>0, <3>2, <4>3, <5>1 DEF MaskInv, Lines, TypeOK
          <5> QED
            BY <3>1, <4>3, <5>2 DEF NoInterrupts, NextStep, HeldInv, MaskInv, Added
        <4> QED
          BY <3>5, <4>1, <4>2, <4>3 DEF Configure
      <3>6. CASE AddGpiochip
        BY <3>1, <3>6 DEF AddGpiochip, HeldInv, MaskInv, Added
      <3>7. CASE Seed0 \/ Seed1 \/ RequestIrq
        <4>1. UNCHANGED intMask /\ Added /\ pc' \in {"seed1", "request", "ready", "failed"}
          BY <3>7 DEF Seed0, Seed1, RequestIrq, Added
        <4> QED
          BY <3>1, <3>2, <4>1 DEF HeldInv, MaskInv, Added
      <3> QED
        BY <2>1, <3>3, <3>4, <3>5, <3>6, <3>7 DEF Probe
    <2>2. CASE Handler \/ (\E l \in Lines : PadMoves(l)) \/ UNCHANGED vars
      <3>1. UNCHANGED <<pc, op, lock, irqMask, intMask>>
        BY <2>2 DEF Handler, HandlerStart, ReadP0, ReadP1, HandlerRead, Changed, NestedIrq,
               PadMoves, vars
      <3>2. faults' = MaxFaults => faults = MaxFaults
        BY <2>0, <2>2, Unfailed DEF Handler, HandlerStart, ReadP0, ReadP1, HandlerRead,
               Changed, NestedIrq, PadMoves, vars
      <3> QED
        BY <3>1, <3>2 DEF HeldInv, MaskInv, Added
    <2>3. ASSUME NEW l \in Lines,
                 Call(l) \/ Latch(l) \/ Direct(l) \/ DirectionInput(l) \/ Set(l)
                   \/ GetDirection(l) \/ Get(l)
          PROVE  HeldInv' /\ MaskInv'
      <3>1. UNCHANGED <<pc, lock, irqMask, intMask>>
        BY <2>3 DEF Call, Latch, Direct, DirectionInput, Set, GetDirection, Get
      <3>2. faults' = MaxFaults => faults = MaxFaults
        BY <2>0, <2>3, Unfailed DEF Call, Latch, Direct, DirectionInput, Set, GetDirection,
               Get, UpdateOk, UpdateFail, WriteOk, WriteFail
      <3>3. /\ op[l] \notin {"locked", "sync0", "sync1"}
            /\ op'[l] \notin {"locked", "sync0", "sync1"}
            /\ \A k \in Lines : k # l => op'[k] = op[k]
        BY <2>0, <2>3 DEF Call, Latch, Direct, DirectionInput, Set, GetDirection, Get,
               Return, TypeOK
      <3> QED
        BY <3>1, <3>2, <3>3 DEF HeldInv, MaskInv, Added
    <2>4. ASSUME NEW l \in Lines, IrqBusLock(l) PROVE HeldInv' /\ MaskInv'
      <3>1. /\ Added /\ lock = free /\ lock' = l
            /\ UNCHANGED <<pc, irqMask, intMask, faults>>
        BY <2>4 DEF IrqBusLock
      <3>2. op' = [op EXCEPT ![l] = "locked"] /\ l # free
        BY <2>4, ExpanderAssumption DEF IrqBusLock
      <3>3. \A k \in Lines : op[k] \notin {"locked", "sync0", "sync1"}
        BY <3>1, ExpanderAssumption DEF HeldInv
      <3> QED
        BY <2>0, <3>1, <3>2, <3>3 DEF HeldInv, MaskInv, Added, TypeOK
    <2>5. ASSUME NEW l \in Lines, IrqMaskUnmask(l) PROVE HeldInv' /\ MaskInv'
      <3>1. /\ op[l] = "locked" /\ op' = [op EXCEPT ![l] = "sync0"]
            /\ UNCHANGED <<pc, lock, intMask, faults>>
        BY <2>5 DEF IrqMaskUnmask
      <3>2. lock = l /\ l # free /\ \A k \in Lines : k # l =>
               op'[k] = op[k] /\ op[k] \notin {"locked", "sync0", "sync1"}
        BY <2>0, <3>1, ExpanderAssumption DEF HeldInv, TypeOK
      <3> QED
        BY <2>0, <3>1, <3>2 DEF HeldInv, MaskInv, Added, TypeOK
    <2>6. ASSUME NEW l \in Lines, Sync0(l) PROVE HeldInv' /\ MaskInv'
      <3>1. /\ op[l] = "sync0" /\ op' = [op EXCEPT ![l] = "sync1"]
            /\ UNCHANGED <<pc, lock, irqMask>>
        BY <2>6 DEF Sync0
      <3>2. lock = l /\ l # free /\ \A k \in Lines : k # l =>
               op'[k] = op[k] /\ op[k] \notin {"locked", "sync0", "sync1"}
        BY <2>0, <3>1, ExpanderAssumption DEF HeldInv, TypeOK
      <3>3. faults' = MaxFaults => intMask' = With(intMask, 0, irqMask \cap P0)
        BY <2>0, <2>6, Unfailed DEF Sync0, SyncPort, Port
      <3>4. With(intMask, 0, irqMask \cap P0) \cap P0 = irqMask \cap P0
        BY DEF With, Port
      <3> QED
        BY <2>0, <3>1, <3>2, <3>3, <3>4 DEF HeldInv, MaskInv, Added, TypeOK
    <2>7. ASSUME NEW l \in Lines, Sync1(l) PROVE HeldInv' /\ MaskInv'
      <3>1. /\ op[l] = "sync1" /\ op' = [op EXCEPT ![l] = "idle"] /\ lock' = free
            /\ UNCHANGED <<pc, irqMask>>
        BY <2>7 DEF Sync1, Return
      <3>2. lock = l /\ l # free /\ \A k \in Lines : k # free /\ (k # l =>
               op'[k] = op[k] /\ op[k] \notin {"locked", "sync0", "sync1"})
        BY <2>0, <3>1, ExpanderAssumption DEF HeldInv, TypeOK
      <3>3. faults' = MaxFaults
              => faults = MaxFaults /\ intMask' = With(intMask, 1, irqMask \cap P1)
        BY <2>0, <2>7, Unfailed DEF Sync1, SyncPort, Port
      <3>4. intMask \cap P0 = irqMask \cap P0
              => With(intMask, 1, irqMask \cap P1) = irqMask
        BY <2>0, ExpanderAssumption DEF With, Port, TypeOK, Lines
      <3>5. faults' = MaxFaults /\ Added => intMask' = irqMask
        BY <3>1, <3>3, <3>4 DEF MaskInv
      <3>6. op'[l] = "idle"
        BY <2>0, <3>1 DEF TypeOK
      <3> QED
        BY <3>1, <3>2, <3>5, <3>6 DEF HeldInv, MaskInv, Added
    <2> QED
      BY <2>1, <2>2, <2>3, <2>4, <2>5, <2>6, <2>7 DEF Next, Consumer
  <1> QED
    BY <1>1, <1>2, DriveInvariant, PTL DEF Spec

(* While no transfer fails, the chip masks exactly what the driver says it  *)
(* masks whenever nobody holds the bus lock, for any number of concurrent   *)
(* requests and frees of interrupts.                                        *)
THEOREM MaskReachesChipCorrect == Spec => []MaskReachesChip
  <1>1. MaskInv => MaskReachesChip
    BY DEF MaskInv, MaskReachesChip
  <1> QED
    BY <1>1, MaskInvariant, PTL

-----------------------------------------------------------------------------
(* Samples                                                                  *)

(* A port nobody else reads was last read by the handler or by probe(), and *)
(* prev_state is that sample unless a new one is being taken.               *)
SampInv ==
    /\ \A q \in Ports :
          Port(q) \cap GetLines = {} => samp \cap Port(q) = seen \cap Port(q)
    /\ faults = MaxFaults /\ hpc \notin {"p1", "report"} /\ pc # "seed1" => prev = samp

(* A read of a port gives the sample and the chip the same bits.            *)
LEMMA ReadFacts ==
    ASSUME TypeOK, NEW p \in Ports, samp' = ReadPort(p), NotePort(p),
           NEW q \in Ports, samp \cap Port(q) = seen \cap Port(q)
    PROVE  samp' \cap Port(q) = seen' \cap Port(q)
  BY DEF ReadPort, NotePort, With

LEMMA SampInvariant == Spec => []SampInv
  <1> USE DEF callVars, irqVars, hndVars, regVars
  <1>1. Init => SampInv
    BY DEF Init, SampInv
  <1>2. TypeOK /\ ToldInv /\ SampInv /\ [Next]_vars => SampInv'
    <2> SUFFICES ASSUME TypeOK, ToldInv, SampInv, [Next]_vars PROVE SampInv'
      OBVIOUS
    <2>0. faults \in 0 .. MaxFaults /\ 0 \in Ports /\ 1 \in Ports
      BY PortFacts DEF TypeOK
    <2>1. CASE SoftReset \/ Identify \/ Configure \/ AddGpiochip \/ RequestIrq
      <3>1. UNCHANGED <<samp, seen, prev, hpc>> /\ pc # "seed1"
        BY <2>1 DEF SoftReset, Identify, Configure, AllInputs, NoInterrupts, AddGpiochip,
               RequestIrq
      <3>2. faults' = MaxFaults => faults = MaxFaults
        BY <2>0, <2>1, Unfailed DEF SoftReset, Identify, Configure, AllInputs,
               WriteOk, WriteFail, NoInterrupts, AddGpiochip, RequestIrq
      <3> QED
        BY <3>1, <3>2 DEF SampInv, Port
    <2>2. CASE Seed0
      <3>1. CASE NoFault /\ samp' = ReadPort(0) /\ NotePort(0) /\ pc' = "seed1"
        BY <2>0, <3>1, ReadFacts DEF SampInv, Port
      <3>2. CASE Fault /\ UNCHANGED <<samp, seen>>
        BY <2>0, <3>2, Unfailed DEF SampInv, Port
      <3> QED
        BY <2>2, <3>1, <3>2 DEF Seed0
    <2>3. CASE Seed1
      <3>1. CASE NoFault /\ samp' = ReadPort(1) /\ NotePort(1) /\ prev' = samp'
        BY <2>0, <3>1, ReadFacts DEF SampInv, Port
      <3>2. CASE Fault /\ UNCHANGED <<samp, seen, prev>>
        BY <2>0, <3>2, Unfailed DEF SampInv, Port
      <3> QED
        BY <2>3, <3>1, <3>2 DEF Seed1
    <2>4. CASE HandlerStart \/ Changed \/ \E l \in Lines : NestedIrq(l)
      <3>1. UNCHANGED <<samp, seen, faults, pc>> /\ pc # "seed1"
        BY <2>4 DEF HandlerStart, Changed, NestedIrq, ToldInv
      <3>2. prev' = samp' \/ (prev' = prev /\ hpc \notin {"p1", "report"})
        BY <2>4 DEF HandlerStart, Changed, NestedIrq
      <3> QED
        BY <3>1, <3>2 DEF SampInv, Port
    <2>5. CASE ReadP0 \/ ReadP1
      <3>1. PICK q \in Ports : \/ /\ NoFault /\ samp' = ReadPort(q) /\ NotePort(q)
                                  /\ hpc' \in {"p1", "report"}
                               \/ Fault /\ UNCHANGED <<samp, seen>>
        BY <2>0, <2>5 DEF ReadP0, ReadP1, HandlerRead
      <3>2. CASE NoFault /\ samp' = ReadPort(q) /\ NotePort(q) /\ hpc' \in {"p1", "report"}
        BY <3>2, ReadFacts DEF SampInv, Port
      <3>3. CASE Fault /\ UNCHANGED <<samp, seen>>
        BY <2>0, <3>3, Unfailed DEF SampInv, Port
      <3> QED
        BY <3>1, <3>2, <3>3
    <2>6. ASSUME NEW l \in Lines, Consumer(l) \/ PadMoves(l) PROVE SampInv'
      <3>1. UNCHANGED <<pc, hndVars>>
        BY <2>6 DEF Consumer, Call, Latch, Direct, DirectionInput, Set, GetDirection, Get,
               IrqBusLock, IrqMaskUnmask, Sync0, Sync1, PadMoves
      <3>2. faults' = MaxFaults => faults = MaxFaults
        BY <2>0, <2>6, Unfailed DEF Consumer, Call, Latch, Direct, DirectionInput, Set,
               GetDirection, Get, IrqBusLock, IrqMaskUnmask, Sync0, Sync1, SyncPort,
               PadMoves, UpdateOk, UpdateFail, WriteOk, WriteFail
      <3>3. CASE Get(l)
        <4>1. l \in GetLines /\ (NotePort(PortOf(l)) \/ UNCHANGED seen)
          BY <3>3 DEF Get
        <4>2. \A q \in Ports : Port(q) \cap GetLines = {} => q # PortOf(l)
          BY <4>1, PortFacts
        <4>3. \A q \in Ports : q # PortOf(l) => seen' \cap Port(q) = seen \cap Port(q)
          BY <4>1, PortFacts, WithFacts DEF NotePort, TypeOK
        <4> QED
          BY <3>1, <3>2, <4>2, <4>3 DEF SampInv, Port
      <3>4. CASE ~Get(l)
        <4>1. UNCHANGED seen
          BY <2>6, <3>4 DEF Consumer, Call, Latch, Direct, DirectionInput, Set,
                 GetDirection, IrqBusLock, IrqMaskUnmask, Sync0, Sync1, PadMoves
        <4> QED
          BY <3>1, <3>2, <4>1 DEF SampInv, Port
      <3> QED
        BY <3>3, <3>4
    <2>7. CASE UNCHANGED vars
      BY <2>7 DEF vars, SampInv, Port
    <2> QED
      BY <2>1, <2>2, <2>3, <2>4, <2>5, <2>6, <2>7 DEF Next, Probe, Handler
  <1> QED
    BY <1>1, <1>2, ToldInvariant, PTL DEF Spec

(* While no transfer fails, a line whose port nobody else reads is reported *)
(* up to date when INT is released: the chip last gave its level to the     *)
(* handler, the handler kept it in prev_state, and told it.                 *)
THEOREM NothingLostCorrect == Spec => []NothingLost
  <1>1. TypeOK /\ ToldInv /\ HeldInv /\ MaskInv /\ SampInv => NothingLost
    <2> SUFFICES ASSUME TypeOK, ToldInv, HeldInv, MaskInv, SampInv, Quiet,
                        faults = MaxFaults, NEW l \in Lines \ irqMask,
                        Port(PortOf(l)) \cap GetLines = {}, told[l] # "none"
                 PROVE  told[l] = Level(l \in Pads)
      BY DEF NothingLost, Heard
    <2>1. lock = free
      BY DEF Quiet, HeldInv, TypeOK
    <2>2. l \notin intMask
      BY <2>1 DEF Quiet, MaskInv, Added
    <2>3. l \in Pads <=> l \in seen
      BY <2>2 DEF Quiet, Asserted, Pending, Differs
    <2>4. l \in seen <=> l \in samp
      BY PortFacts DEF SampInv
    <2>5. prev = samp /\ told[l] = Level(l \in prev)
      BY DEF Quiet, SampInv, ToldInv
    <2> QED
      BY <2>3, <2>4, <2>5 DEF Level
  <1> QED
    BY <1>1, ToldInvariant, MaskInvariant, SampInvariant, PTL
=============================================================================
