------------------------- MODULE Ssd20xxWorkProofs -------------------------
(* TLAPS proofs about Ssd20xxWork, for any set of processes and of calls,   *)
(* any size of the ring and any number of calls, frames and failures.       *)
EXTENDS Ssd20xxWork, TLAPS

(* The calls that may be at a place.                                        *)
Along(p) ==
    LET at == pc[p].at
        kind == pc[p].kind
    IN  /\ at = "idle" => kind = "none"
        /\ at \in {"disable", "synchronize", "enable"} => kind \in Masked
        /\ at \in {"down", "up"} => kind \in Locked \union {"mode", "mptest", "download"}
        /\ at = "take" => kind \in {"mp_start", "mp_stop", "update"}
        /\ at = "copyin" => kind = "download"
        /\ at = "flash" => kind \in {"download", "update"}
        /\ at = "body" => kind \in Locked \union {"mode", "mptest", "mp_start", "mp_stop"}
        /\ at = "release" => kind \in Locked \union Masked
        /\ at = "skip" => kind = "mptest"
        /\ at = "clear" => kind \in {"clear", "mode", "mptest"}
        /\ at = "reset" => kind \in {"reset", "update"}

(* The call has turned the interrupt off, holds the semaphore, or is at     *)
(* work between taking the word and giving it back.                         *)
Masks(p) ==
    \/ pc[p].at \in {"synchronize", "take", "copyin", "flash"}
    \/ pc[p].kind \in Masked /\ pc[p].at \in {"down", "body", "release", "reset", "enable"}
    \/ pc[p].kind = "download" /\ pc[p].at = "up"
Holds(p) ==
    \/ pc[p].at \in {"copyin", "up"}
    \/ pc[p].kind \in Locked \union {"mode", "mptest"} /\ pc[p].at \in {"body", "release"}
    \/ pc[p].kind \in {"mode", "mptest"} /\ pc[p].at = "enable"
    \/ pc[p].kind = "download" /\ pc[p].at \in {"flash", "release"}
Works(p) == pc[p].at \in {"copyin", "flash", "body", "release"}

(* The handler reads a frame; it holds the semaphore.                       *)
Reads == {"read", "rawdata", "raw_fill", "raw_put", "aging", "aging_fill", "mpdata",
    "mp_reset", "mp_fill", "mp_after", "unlock"}
HandlerHolds == handler \in Reads \union {"clear", "out"}

PathInv == \A p \in Procs : Along(p)

DepthInv == \A p \in Procs :
    /\ Masks(p) => depth[p] > 0 /\ (leaked \/ depth[p] = 1)
    /\ ~Masks(p) => leaked \/ depth[p] = 0

QuietInv == \A p \in Procs : Masks(p) /\ pc[p].at # "synchronize" => handler = "idle"

LockInv ==
    /\ \A p \in Procs : Holds(p) => ~HandlerHolds
    /\ \A p, q \in Procs : Holds(p) /\ Holds(q) => p = q
    /\ work_lock = 0 <=> HandlerHolds \/ \E p \in Procs : Holds(p)

WordInv ==
    /\ handler \in Reads => work_procedure = "normal"
    /\ work_procedure = "normal" => HandlerHolds
    /\ work_procedure \in {"set_mode", "upgrade"} => leaked \/ \E p \in Procs : Works(p)

RawInv == handler \in Reads \ {"read", "aging", "aging_fill"} => raw_lock = 0

Fills == handler \in {"raw_fill", "mp_fill", "aging_fill"}

RingInv ==
    /\ Fills => buffer = RearSlot \/ Empty
    /\ \A p \in Procs : At(p, "copy") /\ ~disturbed[p] => ~Empty /\ reading[p] = FrontSlot

Core == PathInv /\ DepthInv /\ QuietInv /\ LockInv /\ WordInv

-----------------------------------------------------------------------------
(* A call moves along by its own entry of pc and no other.                  *)
LEMMA GoFacts ==
    ASSUME TypeOK, NEW p \in Procs, NEW place \in Places, Go(p, place)
    PROVE  /\ pc' \in [Procs -> [at : Places, kind : Kind \union {"none"}]]
           /\ pc'[p].at = place
           /\ pc'[p].kind = IF place = "idle" THEN "none" ELSE pc[p].kind
           /\ \A q \in Procs : q # p => pc'[q] = pc[q]
  BY DEF Go, TypeOK, Places, Idle

(* What a process knows of itself depends on its own entry of pc.           *)
LEMMA Others ==
    ASSUME NEW q \in Procs, pc'[q] = pc[q]
    PROVE  /\ Along(q)' <=> Along(q)
           /\ Masks(q)' <=> Masks(q)
           /\ Holds(q)' <=> Holds(q)
           /\ Works(q)' <=> Works(q)
  BY DEF Along, Masks, Holds, Works

(* A step of a process that takes and gives back nothing.                   *)
LEMMA CalmCore ==
    ASSUME Core, NEW p \in Procs, \A q \in Procs : q # p => pc'[q] = pc[q],
           UNCHANGED <<work_procedure, work_lock, depth, handler, leaked>>,
           Along(p)', Masks(p)' <=> Masks(p), Holds(p)' <=> Holds(p),
           Works(p) => Works(p)',
           Masks(p) /\ pc'[p].at # "synchronize" => handler = "idle"
    PROVE  Core'
  <1>1. \A q \in Procs : /\ Along(q)'
                         /\ Masks(q)' <=> Masks(q)
                         /\ Holds(q)' <=> Holds(q)
                         /\ Works(q) => Works(q)'
    BY Others DEF Core, PathInv
  <1>2. PathInv'
    BY <1>1 DEF PathInv
  <1>3. DepthInv'
    BY <1>1 DEF Core, DepthInv
  <1>4. QuietInv'
    BY <1>1 DEF Core, QuietInv
  <1>5. LockInv'
    BY <1>1 DEF Core, LockInv, HandlerHolds
  <1>6. WordInv'
    BY <1>1 DEF Core, WordInv, HandlerHolds
  <1> QED
    BY <1>2, <1>3, <1>4, <1>5, <1>6 DEF Core

(* down() puts the caller alone in the semaphore.                           *)
LEMMA DownCore ==
    ASSUME TypeOK, Core, NEW p \in Procs, Down(p)
    PROVE Core'
  <1>1. /\ pc[p].at = "down" /\ pc[p].kind \in Locked \union {"mode", "mptest", "download"}
        /\ work_lock = 1 /\ work_lock' = 0 /\ UNCHANGED <<depth, handler, leaked>>
    BY DEF Down, At, handlerVars, modeVars, Core, PathInv, Along
  <1>2. /\ pc'[p].kind = pc[p].kind
        /\ \A q \in Procs : q # p => pc'[q] = pc[q]
        /\ \/ pc[p].kind = "download" /\ work_procedure' = "upgrade" /\ pc'[p].at = "copyin"
           \/ pc[p].kind \in {"mode",
               "mptest"} /\ UNCHANGED work_procedure /\ pc'[p].at = "enable"
           \/ pc[p].kind \in Locked /\ UNCHANGED work_procedure /\ pc'[p].at = "up"
           \/ pc[p].kind # "download" /\ work_procedure' = "set_mode" /\ pc'[p].at = "body"
    BY <1>1, GoFacts DEF Down, KindOf, Places, Locked, Masked
  <1>3. /\ Along(p)' /\ Holds(p)' /\ ~Holds(p) /\ ~Works(p)
        /\ Masks(p)' <=> Masks(p)
    BY <1>1, <1>2 DEF Along, Masks, Holds, Works, Locked, Masked
  <1>4. ~HandlerHolds /\ \A q \in Procs : ~Holds(q)
    BY <1>1 DEF Core, LockInv
  <1>5. PathInv'
    BY <1>2, <1>3, Others DEF Core, PathInv
  <1>6. DepthInv'
    BY <1>1, <1>2, <1>3, Others DEF Core, DepthInv
  <1>7. QuietInv'
    BY <1>1, <1>2, <1>3, Others DEF Core, QuietInv
  <1>8. LockInv'
    BY <1>1, <1>2, <1>3, <1>4, Others DEF LockInv, HandlerHolds
  <1>9. WordInv'
    <2>1. Works(p)' \/ work_procedure' = work_procedure
      BY <1>2 DEF Works
    <2>2. work_procedure' # work_procedure => work_procedure' # "normal"
      BY <1>2
    <2> QED
      BY <1>1, <1>2, <1>3, <1>4, <2>1, <2>2, Others DEF Core, WordInv, HandlerHolds, Reads
  <1> QED
    BY <1>5, <1>6, <1>7, <1>8, <1>9 DEF Core

(* disable_irq() adds one to what the caller owes.                          *)
LEMMA DisableIrqCore ==
    ASSUME TypeOK, Core, NEW p \in Procs, DisableIrq(p)
    PROVE  Core'
  <1>1. /\ pc[p].at = "disable" /\ pc[p].kind \in Masked
        /\ depth' = [depth EXCEPT ![p] = @ + 1]
        /\ UNCHANGED <<work_procedure, work_lock, handler, leaked>>
    BY DEF DisableIrq, IrqOff, At, handlerVars, modeVars, Core, PathInv, Along
  <1>2. /\ pc'[p].kind = pc[p].kind /\ pc'[p].at = "synchronize"
        /\ \A q \in Procs : q # p => pc'[q] = pc[q]
    BY <1>1, GoFacts DEF DisableIrq, Places
  <1>3. /\ Along(p)' /\ Masks(p)' /\ ~Masks(p) /\ ~Holds(p) /\ ~Holds(p)'
        /\ ~Works(p)
    BY <1>1, <1>2 DEF Along, Masks, Holds, Works, Locked, Masked
  <1>4. PathInv'
    BY <1>2, <1>3, Others DEF Core, PathInv
  <1>5. DepthInv'
    BY <1>1, <1>2, <1>3, Others DEF Core, DepthInv, TypeOK
  <1>6. QuietInv'
    BY <1>1, <1>2, Others DEF Core, QuietInv
  <1>7. LockInv'
    BY <1>1, <1>2, <1>3, Others DEF Core, LockInv, HandlerHolds
  <1>8. WordInv'
    BY <1>1, <1>2, <1>3, Others DEF Core, WordInv, HandlerHolds
  <1> QED
    BY <1>4, <1>5, <1>6, <1>7, <1>8 DEF Core

(* Who writes the word unasked has the handler out of the way.              *)
LEMMA TakeUnaskedCore ==
    ASSUME TypeOK, Core, NEW p \in Procs, TakeUnasked(p)
    PROVE  Core'
  <1>1. /\ pc[p].at = "take" /\ pc[p].kind \in {"mp_start", "mp_stop", "update"}
        /\ work_procedure' \in {"set_mode", "upgrade"}
        /\ UNCHANGED <<work_lock, depth, handler, leaked>>
    BY DEF TakeUnasked, At, handlerVars, modeVars, Core, PathInv, Along
  <1>2. /\ pc'[p].kind = pc[p].kind
        /\ pc'[p].at = IF pc[p].kind = "update" THEN "flash" ELSE "body"
        /\ \A q \in Procs : q # p => pc'[q] = pc[q]
    BY <1>1, GoFacts DEF TakeUnasked, KindOf, Places
  <1>3. /\ Along(p)' /\ Masks(p)' /\ Masks(p) /\ ~Holds(p) /\ ~Holds(p)'
        /\ Works(p)'
    BY <1>1, <1>2 DEF Along, Masks, Holds, Works, Locked, Masked
  <1>4. handler = "idle"
    BY <1>1, <1>3 DEF Core, QuietInv
  <1>5. PathInv'
    BY <1>2, <1>3, Others DEF Core, PathInv
  <1>6. DepthInv'
    BY <1>1, <1>2, <1>3, Others DEF Core, DepthInv
  <1>7. QuietInv'
    BY <1>1, <1>2, <1>4, Others DEF Core, QuietInv
  <1>8. LockInv'
    BY <1>1, <1>2, <1>3, Others DEF Core, LockInv, HandlerHolds
  <1>9. WordInv'
    BY <1>1, <1>2, <1>3, <1>4, Others DEF WordInv, HandlerHolds, Reads
  <1> QED
    BY <1>5, <1>6, <1>7, <1>8, <1>9 DEF Core

(* The failed copy is what sets leaked, and from there nothing is claimed   *)
(* of depth and word.                                                       *)
LEMMA MpCopyFailsCore ==
    ASSUME TypeOK, Core, NEW p \in Procs, MpCopyFails(p)
    PROVE  Core'
  <1>1. /\ pc[p].at = "body" /\ pc[p].kind \in {"mp_start", "mp_stop"} /\ leaked'
        /\ UNCHANGED <<work_procedure, work_lock, depth, handler>>
    BY DEF MpCopyFails, At, KindOf, lockVars, handlerVars
  <1>2. /\ pc'[p].kind = "none" /\ pc'[p].at = "idle"
        /\ \A q \in Procs : q # p => pc'[q] = pc[q]
    BY <1>1, GoFacts DEF MpCopyFails, Places
  <1>3. Along(p)' /\ ~Masks(p)' /\ ~Holds(p) /\ ~Holds(p)'
    BY <1>1, <1>2 DEF Along, Masks, Holds, Locked, Masked
  <1>4. PathInv'
    BY <1>2, <1>3, Others DEF Core, PathInv
  <1>5. DepthInv'
    BY <1>1, <1>2, <1>3, Others DEF Core, DepthInv
  <1>6. QuietInv'
    BY <1>1, <1>2, <1>3, Others DEF Core, QuietInv
  <1>7. LockInv'
    BY <1>1, <1>2, <1>3, Others DEF Core, LockInv, HandlerHolds
  <1>8. WordInv'
    BY <1>1 DEF Core, WordInv, HandlerHolds
  <1> QED
    BY <1>4, <1>5, <1>6, <1>7, <1>8 DEF Core

(* The word is given back by one who is at work, while no handler reads.    *)
LEMMA ReleaseCore ==
    ASSUME TypeOK, Core, NEW p \in Procs, Release(p)
    PROVE  Core'
  <1>1. /\ pc[p].at = "release" /\ pc[p].kind \in Locked \union Masked
        /\ work_procedure' = "none"
        /\ UNCHANGED <<work_lock, depth, handler, leaked>>
    BY DEF Release, At, handlerVars, modeVars, Core, PathInv, Along
  <1>2. /\ pc'[p].kind = pc[p].kind
        /\ \/ pc[p].kind \in Locked \union {"download"} /\ pc'[p].at = "up"
           \/ pc[p].kind = "update" /\ pc'[p].at = "reset"
           \/ pc[p].kind \in Masked \ {"download", "update"} /\ pc'[p].at = "enable"
        /\ \A q \in Procs : q # p => pc'[q] = pc[q]
    <2>1. CASE pc[p].kind \in Locked \union {"download"}
      BY <1>1, <2>1, GoFacts DEF Release, KindOf, Places, Locked
    <2>2. CASE pc[p].kind = "update"
      BY <1>1, <2>2, GoFacts DEF Release, KindOf, Places, Locked
    <2>3. CASE pc[p].kind \in Masked \ {"download", "update"}
      BY <1>1, <2>3, GoFacts DEF Release, KindOf, Places, Locked, Masked
    <2> QED
      BY <1>1, <2>1, <2>2, <2>3
  <1>3. /\ Along(p)'
        /\ Masks(p)' <=> Masks(p)
        /\ Holds(p)' <=> Holds(p)
        /\ Masks(p) \/ Holds(p)
    BY <1>1, <1>2 DEF Along, Masks, Holds, Locked, Masked
  <1>4. handler \notin Reads
    BY <1>1, <1>3 DEF Core, QuietInv, LockInv, HandlerHolds, Reads
  <1>5. PathInv'
    BY <1>2, <1>3, Others DEF Core, PathInv
  <1>6. DepthInv'
    BY <1>1, <1>2, <1>3, Others DEF Core, DepthInv
  <1>7. QuietInv'
    BY <1>1, <1>2, <1>3, Others DEF Core, QuietInv
  <1>8. LockInv'
    BY <1>1, <1>2, <1>3, Others DEF Core, LockInv, HandlerHolds
  <1>9. WordInv'
    BY <1>1, <1>4 DEF WordInv, HandlerHolds
  <1> QED
    BY <1>5, <1>6, <1>7, <1>8, <1>9 DEF Core

(* enable_irq() pays back what the caller owes.                             *)
LEMMA EnableIrqCore ==
    ASSUME TypeOK, Core, NEW p \in Procs, EnableIrq(p)
    PROVE  Core'
  <1>1. /\ pc[p].at = "enable" /\ pc[p].kind \in Masked
        /\ depth' = [depth EXCEPT ![p] = @ - 1]
        /\ UNCHANGED <<work_procedure, work_lock, handler, leaked>>
    BY DEF EnableIrq, IrqBack, At, handlerVars, modeVars, Core, PathInv, Along
  <1>2. /\ \/ /\ pc[p].kind \in {"mode", "mptest"}
              /\ pc'[p].at = "up" /\ pc'[p].kind = pc[p].kind
           \/ /\ pc[p].kind \notin {"mode", "mptest"}
              /\ pc'[p].at = "idle" /\ pc'[p].kind = "none"
        /\ \A q \in Procs : q # p => pc'[q] = pc[q]
    BY <1>1, GoFacts DEF EnableIrq, KindOf, Places
  <1>3. /\ Along(p)' /\ ~Masks(p)' /\ Masks(p)
        /\ Holds(p)' <=> Holds(p)
        /\ ~Works(p)
    BY <1>1, <1>2 DEF Along, Masks, Holds, Works, Locked, Masked
  <1>4. PathInv'
    BY <1>2, <1>3, Others DEF Core, PathInv
  <1>5. DepthInv'
    BY <1>1, <1>2, <1>3, Others DEF Core, DepthInv, TypeOK
  <1>6. QuietInv'
    BY <1>1, <1>2, <1>3, Others DEF Core, QuietInv
  <1>7. LockInv'
    BY <1>1, <1>2, <1>3, Others DEF Core, LockInv, HandlerHolds
  <1>8. WordInv'
    BY <1>1, <1>2, <1>3, Others DEF Core, WordInv, HandlerHolds
  <1> QED
    BY <1>4, <1>5, <1>6, <1>7, <1>8 DEF Core

(* up() is called by the one who holds the semaphore.                       *)
LEMMA UpCore ==
    ASSUME TypeOK, Core, NEW p \in Procs, Up(p)
    PROVE  Core'
  <1>1. /\ pc[p].at = "up" /\ pc[p].kind \in Locked \union {"mode", "mptest", "download"}
        /\ work_lock' = work_lock + 1
        /\ UNCHANGED <<work_procedure, depth, handler, leaked>>
    BY DEF Up, At, handlerVars, modeVars, Core, PathInv, Along
  <1>2. /\ \/ pc[p].kind = "download" /\ pc'[p].at = "enable" /\ pc'[p].kind = pc[p].kind
           \/ pc[p].kind = "mptest" /\ pc'[p].at = "skip" /\ pc'[p].kind = pc[p].kind
           \/ pc[p].kind \in Locked \union {"mode"} /\ pc'[p].at = "idle" /\ pc'[p].kind = "none"
        /\ \A q \in Procs : q # p => pc'[q] = pc[q]
    <2>1. CASE pc[p].kind = "download"
      BY <1>1, <2>1, GoFacts DEF Up, KindOf, Places
    <2>2. CASE pc[p].kind = "mptest"
      BY <1>1, <2>2, GoFacts DEF Up, KindOf, Places
    <2>3. CASE pc[p].kind \in Locked \union {"mode"}
      BY <1>1, <2>3, GoFacts DEF Up, KindOf, Places, Locked
    <2> QED
      BY <1>1, <2>1, <2>2, <2>3
  <1>3. /\ Along(p)'
        /\ Masks(p)' <=> Masks(p)
        /\ Holds(p) /\ ~Holds(p)' /\ ~Works(p)
    BY <1>1, <1>2 DEF Along, Masks, Holds, Works, Locked, Masked
  <1>4. /\ work_lock' = 1 /\ ~HandlerHolds
        /\ \A q \in Procs : Holds(q) => q = p
    BY <1>1, <1>3 DEF Core, LockInv, TypeOK
  <1>5. PathInv'
    BY <1>2, <1>3, Others DEF Core, PathInv
  <1>6. DepthInv'
    BY <1>1, <1>2, <1>3, Others DEF Core, DepthInv
  <1>7. QuietInv'
    BY <1>1, <1>2, <1>3, Others DEF Core, QuietInv
  <1>8. LockInv'
    BY <1>1, <1>2, <1>3, <1>4, Others DEF LockInv, HandlerHolds
  <1>9. WordInv'
    BY <1>1, <1>2, <1>3, Others DEF Core, WordInv, HandlerHolds
  <1> QED
    BY <1>5, <1>6, <1>7, <1>8, <1>9 DEF Core

(* Most steps of a call move it along and leave the locks alone.            *)
LEMMA CalmSteps ==
    ASSUME TypeOK, Core, NEW p \in Procs,
           \/ Synchronize(p) \/ CopyIn(p) \/ Flash(p) \/ RegBody(p)
           \/ ModeBody(p) \/ MptestBody(p) \/ MpStop(p) \/ MpStart(p)
           \/ ModeRead(p) \/ Reset(p) \/ SetSkip(p) \/ ClearUnasked(p)
           \/ StopLater(p) \/ GetFront(p) \/ CopyOut(p) \/ Drop(p)
    PROVE  Core'
  <1>1. ASSUME Synchronize(p) PROVE Core'
    <2>1. /\ pc[p].at = "synchronize" /\ handler = "idle"
          /\ UNCHANGED <<work_procedure, work_lock, depth, handler, leaked>>
      BY <1>1 DEF Synchronize, At, KindOf, lockVars, handlerVars, modeVars
    <2>2. /\ pc'[p].kind = IF pc'[p].at = "idle" THEN "none" ELSE pc[p].kind
          /\ \/ pc[p].kind \in {"mode", "mptest", "download"} /\ pc'[p].at = "down"
             \/ pc[p].kind \notin {"mode", "mptest", "download"} /\ pc'[p].at = "take"
          /\ \A q \in Procs : q # p => pc'[q] = pc[q]
      BY <1>1, <2>1, GoFacts DEF Synchronize, KindOf, Places
    <2>3. /\ Along(p)'
          /\ Masks(p)' <=> Masks(p)
          /\ Holds(p)' <=> Holds(p)
          /\ Works(p) => Works(p)'
          /\ Masks(p) /\ pc'[p].at # "synchronize" => handler = "idle"
      BY <2>1, <2>2 DEF Core, PathInv, QuietInv, Along, Masks, Holds, Works, Locked, Masked
    <2> QED
      BY <2>1, <2>2, <2>3, CalmCore
  <1>2. ASSUME CopyIn(p) PROVE Core'
    <2>1. /\ pc[p].at = "copyin"
          /\ UNCHANGED <<work_procedure, work_lock, depth, handler, leaked>>
      BY <1>2 DEF CopyIn, At, KindOf, lockVars, handlerVars, modeVars
    <2>2. /\ pc'[p].kind = IF pc'[p].at = "idle" THEN "none" ELSE pc[p].kind
          /\ pc'[p].at \in {"release", "flash"}
          /\ \A q \in Procs : q # p => pc'[q] = pc[q]
      BY <1>2, <2>1, GoFacts DEF CopyIn, KindOf, Places
    <2>3. /\ Along(p)'
          /\ Masks(p)' <=> Masks(p)
          /\ Holds(p)' <=> Holds(p)
          /\ Works(p) => Works(p)'
          /\ Masks(p) /\ pc'[p].at # "synchronize" => handler = "idle"
      BY <2>1, <2>2 DEF Core, PathInv, QuietInv, Along, Masks, Holds, Works, Locked, Masked
    <2> QED
      BY <2>1, <2>2, <2>3, CalmCore
  <1>3. ASSUME Flash(p) PROVE Core'
    <2>1. /\ pc[p].at = "flash"
          /\ UNCHANGED <<work_procedure, work_lock, depth, handler, leaked>>
      BY <1>3 DEF Flash, At, KindOf, lockVars, handlerVars, modeVars
    <2>2. /\ pc'[p].kind = IF pc'[p].at = "idle" THEN "none" ELSE pc[p].kind
          /\ pc'[p].at = "release"
          /\ \A q \in Procs : q # p => pc'[q] = pc[q]
      BY <1>3, <2>1, GoFacts DEF Flash, KindOf, Places
    <2>3. /\ Along(p)'
          /\ Masks(p)' <=> Masks(p)
          /\ Holds(p)' <=> Holds(p)
          /\ Works(p) => Works(p)'
          /\ Masks(p) /\ pc'[p].at # "synchronize" => handler = "idle"
      BY <2>1, <2>2 DEF Core, PathInv, QuietInv, Along, Masks, Holds, Works, Locked, Masked
    <2> QED
      BY <2>1, <2>2, <2>3, CalmCore
  <1>4. ASSUME RegBody(p) PROVE Core'
    <2>1. /\ pc[p].at = "body" /\ pc[p].kind = "reg"
          /\ UNCHANGED <<work_procedure, work_lock, depth, handler, leaked>>
      BY <1>4 DEF RegBody, At, KindOf, lockVars, handlerVars, modeVars
    <2>2. /\ pc'[p].kind = IF pc'[p].at = "idle" THEN "none" ELSE pc[p].kind
          /\ pc'[p].at = "release"
          /\ \A q \in Procs : q # p => pc'[q] = pc[q]
      BY <1>4, <2>1, GoFacts DEF RegBody, KindOf, Places
    <2>3. /\ Along(p)'
          /\ Masks(p)' <=> Masks(p)
          /\ Holds(p)' <=> Holds(p)
          /\ Works(p) => Works(p)'
          /\ Masks(p) /\ pc'[p].at # "synchronize" => handler = "idle"
      BY <2>1, <2>2 DEF Core, PathInv, QuietInv, Along, Masks, Holds, Works, Locked, Masked
    <2> QED
      BY <2>1, <2>2, <2>3, CalmCore
  <1>5. ASSUME ModeBody(p) PROVE Core'
    <2>1. /\ pc[p].at = "body" /\ pc[p].kind = "mode"
          /\ UNCHANGED <<work_procedure, work_lock, depth, handler, leaked>>
      BY <1>5 DEF ModeBody, At, KindOf, lockVars, handlerVars, modeVars
    <2>2. /\ pc'[p].kind = IF pc'[p].at = "idle" THEN "none" ELSE pc[p].kind
          /\ pc'[p].at = "release"
          /\ \A q \in Procs : q # p => pc'[q] = pc[q]
      BY <1>5, <2>1, GoFacts DEF ModeBody, KindOf, Places
    <2>3. /\ Along(p)'
          /\ Masks(p)' <=> Masks(p)
          /\ Holds(p)' <=> Holds(p)
          /\ Works(p) => Works(p)'
          /\ Masks(p) /\ pc'[p].at # "synchronize" => handler = "idle"
      BY <2>1, <2>2 DEF Core, PathInv, QuietInv, Along, Masks, Holds, Works, Locked, Masked
    <2> QED
      BY <2>1, <2>2, <2>3, CalmCore
  <1>6. ASSUME MptestBody(p) PROVE Core'
    <2>1. /\ pc[p].at = "body" /\ pc[p].kind = "mptest"
          /\ UNCHANGED <<work_procedure, work_lock, depth, handler, leaked>>
      BY <1>6 DEF MptestBody, At, KindOf, lockVars, handlerVars, modeVars
    <2>2. /\ pc'[p].kind = IF pc'[p].at = "idle" THEN "none" ELSE pc[p].kind
          /\ pc'[p].at = "release"
          /\ \A q \in Procs : q # p => pc'[q] = pc[q]
      BY <1>6, <2>1, GoFacts DEF MptestBody, KindOf, Places
    <2>3. /\ Along(p)'
          /\ Masks(p)' <=> Masks(p)
          /\ Holds(p)' <=> Holds(p)
          /\ Works(p) => Works(p)'
          /\ Masks(p) /\ pc'[p].at # "synchronize" => handler = "idle"
      BY <2>1, <2>2 DEF Core, PathInv, QuietInv, Along, Masks, Holds, Works, Locked, Masked
    <2> QED
      BY <2>1, <2>2, <2>3, CalmCore
  <1>7. ASSUME MpStop(p) PROVE Core'
    <2>1. /\ pc[p].at = "body" /\ pc[p].kind = "mp_stop"
          /\ UNCHANGED <<work_procedure, work_lock, depth, handler, leaked>>
      BY <1>7 DEF MpStop, At, KindOf, lockVars, handlerVars, modeVars
    <2>2. /\ pc'[p].kind = IF pc'[p].at = "idle" THEN "none" ELSE pc[p].kind
          /\ pc'[p].at = "release"
          /\ \A q \in Procs : q # p => pc'[q] = pc[q]
      BY <1>7, <2>1, GoFacts DEF MpStop, KindOf, Places
    <2>3. /\ Along(p)'
          /\ Masks(p)' <=> Masks(p)
          /\ Holds(p)' <=> Holds(p)
          /\ Works(p) => Works(p)'
          /\ Masks(p) /\ pc'[p].at # "synchronize" => handler = "idle"
      BY <2>1, <2>2 DEF Core, PathInv, QuietInv, Along, Masks, Holds, Works, Locked, Masked
    <2> QED
      BY <2>1, <2>2, <2>3, CalmCore
  <1>8. ASSUME MpStart(p) PROVE Core'
    <2>1. /\ pc[p].at = "body" /\ pc[p].kind = "mp_start"
          /\ UNCHANGED <<work_procedure, work_lock, depth, handler, leaked>>
      BY <1>8 DEF MpStart, At, KindOf, lockVars, handlerVars, modeVars
    <2>2. /\ pc'[p].kind = IF pc'[p].at = "idle" THEN "none" ELSE pc[p].kind
          /\ pc'[p].at = "release"
          /\ \A q \in Procs : q # p => pc'[q] = pc[q]
      BY <1>8, <2>1, GoFacts DEF MpStart, KindOf, Places
    <2>3. /\ Along(p)'
          /\ Masks(p)' <=> Masks(p)
          /\ Holds(p)' <=> Holds(p)
          /\ Works(p) => Works(p)'
          /\ Masks(p) /\ pc'[p].at # "synchronize" => handler = "idle"
      BY <2>1, <2>2 DEF Core, PathInv, QuietInv, Along, Masks, Holds, Works, Locked, Masked
    <2> QED
      BY <2>1, <2>2, <2>3, CalmCore
  <1>9. ASSUME ModeRead(p) PROVE Core'
    <2>1. /\ pc[p].at = "body" /\ pc[p].kind = "mode_read"
          /\ UNCHANGED <<work_procedure, work_lock, depth, handler, leaked>>
      BY <1>9 DEF ModeRead, At, KindOf, lockVars, handlerVars, modeVars
    <2>2. /\ pc'[p].kind = IF pc'[p].at = "idle" THEN "none" ELSE pc[p].kind
          /\ pc'[p].at = "release"
          /\ \A q \in Procs : q # p => pc'[q] = pc[q]
      BY <1>9, <2>1, GoFacts DEF ModeRead, KindOf, Places
    <2>3. /\ Along(p)'
          /\ Masks(p)' <=> Masks(p)
          /\ Holds(p)' <=> Holds(p)
          /\ Works(p) => Works(p)'
          /\ Masks(p) /\ pc'[p].at # "synchronize" => handler = "idle"
      BY <2>1, <2>2 DEF Core, PathInv, QuietInv, Along, Masks, Holds, Works, Locked, Masked
    <2> QED
      BY <2>1, <2>2, <2>3, CalmCore
  <1>10. ASSUME Reset(p) PROVE Core'
    <2>1. /\ pc[p].at = "reset"
          /\ UNCHANGED <<work_procedure, work_lock, depth, handler, leaked>>
      BY <1>10 DEF Reset, At, KindOf, lockVars, handlerVars, modeVars
    <2>2. /\ pc'[p].kind = IF pc'[p].at = "idle" THEN "none" ELSE pc[p].kind
          /\ \/ pc[p].kind = "update" /\ pc'[p].at = "enable"
             \/ pc[p].kind # "update" /\ pc'[p].at = "idle"
          /\ \A q \in Procs : q # p => pc'[q] = pc[q]
      BY <1>10, <2>1, GoFacts DEF Reset, KindOf, Places
    <2>3. /\ Along(p)'
          /\ Masks(p)' <=> Masks(p)
          /\ Holds(p)' <=> Holds(p)
          /\ Works(p) => Works(p)'
          /\ Masks(p) /\ pc'[p].at # "synchronize" => handler = "idle"
      BY <2>1, <2>2 DEF Core, PathInv, QuietInv, Along, Masks, Holds, Works, Locked, Masked
    <2> QED
      BY <2>1, <2>2, <2>3, CalmCore
  <1>11. ASSUME SetSkip(p) PROVE Core'
    <2>1. /\ pc[p].at = "skip"
          /\ UNCHANGED <<work_procedure, work_lock, depth, handler, leaked>>
      BY <1>11 DEF SetSkip, At, KindOf, lockVars, handlerVars, modeVars
    <2>2. /\ pc'[p].kind = IF pc'[p].at = "idle" THEN "none" ELSE pc[p].kind
          /\ pc'[p].at = "idle"
          /\ \A q \in Procs : q # p => pc'[q] = pc[q]
      BY <1>11, <2>1, GoFacts DEF SetSkip, KindOf, Places
    <2>3. /\ Along(p)'
          /\ Masks(p)' <=> Masks(p)
          /\ Holds(p)' <=> Holds(p)
          /\ Works(p) => Works(p)'
          /\ Masks(p) /\ pc'[p].at # "synchronize" => handler = "idle"
      BY <2>1, <2>2 DEF Core, PathInv, QuietInv, Along, Masks, Holds, Works, Locked, Masked
    <2> QED
      BY <2>1, <2>2, <2>3, CalmCore
  <1>12. ASSUME ClearUnasked(p) PROVE Core'
    <2>1. /\ pc[p].at = "clear"
          /\ UNCHANGED <<work_procedure, work_lock, depth, handler, leaked>>
      BY <1>12 DEF ClearUnasked, At, KindOf, lockVars, handlerVars, modeVars
    <2>2. /\ pc'[p].kind = IF pc'[p].at = "idle" THEN "none" ELSE pc[p].kind
          /\ \/ pc[p].kind \in Masked /\ pc'[p].at = "disable"
             \/ pc[p].kind \notin Masked /\ pc'[p].at = "idle"
          /\ \A q \in Procs : q # p => pc'[q] = pc[q]
      BY <1>12, <2>1, GoFacts DEF ClearUnasked, KindOf, Places
    <2>3. /\ Along(p)'
          /\ Masks(p)' <=> Masks(p)
          /\ Holds(p)' <=> Holds(p)
          /\ Works(p) => Works(p)'
          /\ Masks(p) /\ pc'[p].at # "synchronize" => handler = "idle"
      BY <2>1, <2>2 DEF Core, PathInv, QuietInv, Along, Masks, Holds, Works, Locked, Masked
    <2> QED
      BY <2>1, <2>2, <2>3, CalmCore
  <1>13. ASSUME StopLater(p) PROVE Core'
    <2>1. /\ pc[p].at = "flag"
          /\ UNCHANGED <<work_procedure, work_lock, depth, handler, leaked>>
      BY <1>13 DEF StopLater, At, KindOf, lockVars, handlerVars, modeVars
    <2>2. /\ pc'[p].kind = IF pc'[p].at = "idle" THEN "none" ELSE pc[p].kind
          /\ pc'[p].at = "idle"
          /\ \A q \in Procs : q # p => pc'[q] = pc[q]
      BY <1>13, <2>1, GoFacts DEF StopLater, KindOf, Places
    <2>3. /\ Along(p)'
          /\ Masks(p)' <=> Masks(p)
          /\ Holds(p)' <=> Holds(p)
          /\ Works(p) => Works(p)'
          /\ Masks(p) /\ pc'[p].at # "synchronize" => handler = "idle"
      BY <2>1, <2>2 DEF Core, PathInv, QuietInv, Along, Masks, Holds, Works, Locked, Masked
    <2> QED
      BY <2>1, <2>2, <2>3, CalmCore
  <1>14. ASSUME GetFront(p) PROVE Core'
    <2>1. /\ pc[p].at = "front"
          /\ UNCHANGED <<work_procedure, work_lock, depth, handler, leaked>>
      BY <1>14 DEF GetFront, At, KindOf, lockVars, handlerVars, modeVars
    <2>2. /\ pc'[p].kind = IF pc'[p].at = "idle" THEN "none" ELSE pc[p].kind
          /\ pc'[p].at \in {"idle", "copy"}
          /\ \A q \in Procs : q # p => pc'[q] = pc[q]
      BY <1>14, <2>1, GoFacts DEF GetFront, KindOf, Places
    <2>3. /\ Along(p)'
          /\ Masks(p)' <=> Masks(p)
          /\ Holds(p)' <=> Holds(p)
          /\ Works(p) => Works(p)'
          /\ Masks(p) /\ pc'[p].at # "synchronize" => handler = "idle"
      BY <2>1, <2>2 DEF Core, PathInv, QuietInv, Along, Masks, Holds, Works, Locked, Masked
    <2> QED
      BY <2>1, <2>2, <2>3, CalmCore
  <1>15. ASSUME CopyOut(p) PROVE Core'
    <2>1. /\ pc[p].at = "copy"
          /\ UNCHANGED <<work_procedure, work_lock, depth, handler, leaked>>
      BY <1>15 DEF CopyOut, At, KindOf, lockVars, handlerVars, modeVars
    <2>2. /\ pc'[p].kind = IF pc'[p].at = "idle" THEN "none" ELSE pc[p].kind
          /\ pc'[p].at \in {"idle", "drop"}
          /\ \A q \in Procs : q # p => pc'[q] = pc[q]
      BY <1>15, <2>1, GoFacts DEF CopyOut, KindOf, Places
    <2>3. /\ Along(p)'
          /\ Masks(p)' <=> Masks(p)
          /\ Holds(p)' <=> Holds(p)
          /\ Works(p) => Works(p)'
          /\ Masks(p) /\ pc'[p].at # "synchronize" => handler = "idle"
      BY <2>1, <2>2 DEF Core, PathInv, QuietInv, Along, Masks, Holds, Works, Locked, Masked
    <2> QED
      BY <2>1, <2>2, <2>3, CalmCore
  <1>16. ASSUME Drop(p) PROVE Core'
    <2>1. /\ pc[p].at = "drop"
          /\ UNCHANGED <<work_procedure, work_lock, depth, handler, leaked>>
      BY <1>16 DEF Drop, At, KindOf, lockVars, handlerVars, modeVars
    <2>2. /\ pc'[p].kind = IF pc'[p].at = "idle" THEN "none" ELSE pc[p].kind
          /\ pc'[p].at = "idle"
          /\ \A q \in Procs : q # p => pc'[q] = pc[q]
      BY <1>16, <2>1, GoFacts DEF Drop, KindOf, Places
    <2>3. /\ Along(p)'
          /\ Masks(p)' <=> Masks(p)
          /\ Holds(p)' <=> Holds(p)
          /\ Works(p) => Works(p)'
          /\ Masks(p) /\ pc'[p].at # "synchronize" => handler = "idle"
      BY <2>1, <2>2 DEF Core, PathInv, QuietInv, Along, Masks, Holds, Works, Locked, Masked
    <2> QED
      BY <2>1, <2>2, <2>3, CalmCore
  <1> QED
    BY <1>1, <1>2, <1>3, <1>4, <1>5, <1>6, <1>7, <1>8, <1>9, <1>10, <1>11, <1>12, <1>13,
       <1>14, <1>15, <1>16

(* A call begins with nothing taken.                                        *)
LEMMA CallCore ==
    ASSUME TypeOK, Core, NEW p \in Procs, NEW k \in Kind, Call(p, k)
    PROVE  Core'
  <1>1. /\ pc[p].at = "idle"
        /\ UNCHANGED <<work_procedure, work_lock, depth, handler, leaked>>
    BY DEF Call, At, lockVars, handlerVars, modeVars
  <1>2. /\ pc'[p].kind = k /\ pc'[p].at \in FirstPlaces(k)
        /\ \A q \in Procs : q # p => pc'[q] = pc[q]
    BY DEF Call, TypeOK
  <1>3. \A first \in FirstPlaces(k) :
           \/ k \in Locked /\ first = "down"
           \/ k \in Masked /\ first = "disable"
           \/ k \in {"clear", "mode", "mptest"} /\ first = "clear"
           \/ k = "reset" /\ first = "reset"
           \/ first \in {"front", "flag"}
    BY DEF FirstPlaces, Kind, Locked, Masked
  <1>4. /\ Along(p)'
        /\ ~Masks(p) /\ ~Holds(p) /\ ~Works(p)
        /\ ~Masks(p)' /\ ~Holds(p)'
    BY <1>1, <1>2, <1>3 DEF Core, PathInv, Along, Masks, Holds, Works, Locked, Masked
  <1> QED
    BY <1>1, <1>2, <1>4, CalmCore

(* A step of the handler leaves the calls where they are; unless it starts, *)
(* nobody who has turned the interrupt off is past the wait for it.         *)
LEMMA HandlerCore ==
    ASSUME Core, UNCHANGED <<pc, depth, leaked>>,
           handler # "idle" \/ handler' = "idle" \/ IrqOn,
           LockInv', WordInv'
    PROVE  Core'
  <1>1. \A q \in Procs : /\ Along(q)' <=> Along(q)
                         /\ Masks(q)' <=> Masks(q)
    BY Others
  <1>2. PathInv'
    BY <1>1 DEF Core, PathInv
  <1>3. DepthInv'
    BY <1>1 DEF Core, DepthInv
  <1>4. QuietInv'
    <2>1. CASE handler' = "idle"
      BY <2>1 DEF QuietInv
    <2>2. CASE handler # "idle"
      BY <1>1, <2>2 DEF Core, QuietInv
    <2>3. CASE IrqOn
      BY <1>1, <2>3 DEF Core, DepthInv, QuietInv, IrqOn
    <2> QED
      BY <2>1, <2>2, <2>3
  <1> QED
    BY <1>2, <1>3, <1>4 DEF Core

(* While it reads, and from there to where it gives back, the handler       *)
(* keeps what it has.                                                       *)
LEMMA InsideCore ==
    ASSUME Core, UNCHANGED <<pc, depth, leaked, work_procedure, work_lock>>,
           \/ handler \in Reads /\ handler' \in Reads \union {"clear", "out"}
           \/ handler = "clear" /\ handler' = "out"
    PROVE  Core'
  <1>1. HandlerHolds /\ HandlerHolds' /\ handler # "idle"
    BY DEF HandlerHolds, Reads
  <1>2. \A q \in Procs : (Holds(q)' <=> Holds(q)) /\ (Works(q)' <=> Works(q))
    BY Others
  <1>3. LockInv'
    BY <1>1, <1>2 DEF Core, LockInv
  <1>4. WordInv'
    BY <1>1, <1>2 DEF Core, WordInv, Reads
  <1> QED
    BY <1>1, <1>3, <1>4, HandlerCore

(* The interrupt thread takes the semaphore when no call holds it, and the  *)
(* word with it.                                                            *)
LEMMA HandlerSteps ==
    ASSUME TypeOK, Core, Handler
    PROVE  Core'
  <1>1. ASSUME HandlerStart PROVE Core'
    <2>1. /\ handler = "idle" /\ IrqOn /\ handler' \in {"idle", "trylock"}
          /\ UNCHANGED <<pc, depth, leaked, work_procedure, work_lock>>
      BY <1>1 DEF HandlerStart, lockVars, callVars, modeVars
    <2>2. ~HandlerHolds /\ ~HandlerHolds' /\ handler' \notin Reads
      BY <2>1 DEF HandlerHolds, Reads
    <2>3. \A q \in Procs : (Holds(q)' <=> Holds(q)) /\ (Works(q)' <=> Works(q))
      BY <2>1, Others
    <2>4. LockInv'
      BY <2>1, <2>2, <2>3 DEF Core, LockInv
    <2>5. WordInv'
      BY <2>1, <2>2, <2>3 DEF Core, WordInv
    <2> QED
      BY <2>1, <2>4, <2>5, HandlerCore
  <1>2. ASSUME TryLock PROVE Core'
    <2>1. /\ handler = "trylock"
          /\ \/ /\ handler' = "spin" /\ UNCHANGED <<work_procedure, work_lock>>
             \/ /\ work_lock # 0 /\ work_lock' = 0
                /\ handler' = "clear" /\ UNCHANGED work_procedure
             \/ /\ work_lock # 0 /\ work_lock' = 0
                /\ handler' = "read" /\ work_procedure' = "normal"
      BY <1>2 DEF TryLock
    <2>2. UNCHANGED <<pc, depth, leaked>>
      BY <1>2 DEF TryLock, callVars, modeVars
    <2>3. \A q \in Procs : (Holds(q)' <=> Holds(q)) /\ (Works(q)' <=> Works(q))
      BY <2>2, Others
    <2>4. LockInv'
      BY <2>1, <2>3 DEF Core, LockInv, HandlerHolds, Reads
    <2>5. WordInv'
      BY <2>1, <2>2, <2>3 DEF Core, WordInv, HandlerHolds, Reads
    <2> QED
      BY <2>1, <2>2, <2>4, <2>5, HandlerCore
  <1>3. ASSUME Spin PROVE Core'
    <2>1. /\ handler = "spin"
          /\ work_lock # 0 /\ work_lock' = 0
          /\ handler' = "clear" /\ UNCHANGED work_procedure
      BY <1>3 DEF Spin
    <2>2. UNCHANGED <<pc, depth, leaked>>
      BY <1>3 DEF Spin, callVars, modeVars
    <2>3. \A q \in Procs : (Holds(q)' <=> Holds(q)) /\ (Works(q)' <=> Works(q))
      BY <2>2, Others
    <2>4. LockInv'
      BY <2>1, <2>3 DEF Core, LockInv, HandlerHolds, Reads
    <2>5. WordInv'
      BY <2>1, <2>2, <2>3 DEF Core, WordInv, HandlerHolds, Reads
    <2> QED
      BY <2>1, <2>2, <2>4, <2>5, HandlerCore
  <1>4. ASSUME HandlerClear PROVE Core'
    BY <1>4, InsideCore
    DEF HandlerClear, lockVars, callVars, modeVars, ClearQueue, SetMptest, Reads
  <1>5. ASSUME Dispatch PROVE Core'
    BY <1>5, InsideCore
    DEF Dispatch, lockVars, callVars, modeVars, ClearQueue, SetMptest, Reads
  <1>6. ASSUME RawData PROVE Core'
    BY <1>6, InsideCore
    DEF RawData, lockVars, callVars, modeVars, ClearQueue, SetMptest, Reads
  <1>7. ASSUME RawFill PROVE Core'
    BY <1>7, InsideCore
    DEF RawFill, lockVars, callVars, modeVars, ClearQueue, SetMptest, Reads
  <1>8. ASSUME RawPut PROVE Core'
    BY <1>8, InsideCore
    DEF RawPut, lockVars, callVars, modeVars, ClearQueue, SetMptest, Reads
  <1>9. ASSUME MpStatusFails PROVE Core'
    BY <1>9, InsideCore
    DEF MpStatusFails, lockVars, callVars, modeVars, ClearQueue, SetMptest, Reads
  <1>10. ASSUME MpNotReady PROVE Core'
    BY <1>10, InsideCore
    DEF MpNotReady, lockVars, callVars, modeVars, ClearQueue, SetMptest, Reads
  <1>11. ASSUME MpBegin PROVE Core'
    BY <1>11, InsideCore
    DEF MpBegin, lockVars, callVars, modeVars, ClearQueue, SetMptest, Reads
  <1>12. ASSUME MpData PROVE Core'
    BY <1>12, InsideCore
    DEF MpData, lockVars, callVars, modeVars, ClearQueue, SetMptest, Reads
  <1>13. ASSUME MpPut PROVE Core'
    BY <1>13, InsideCore
    DEF MpPut, lockVars, callVars, modeVars, ClearQueue, SetMptest, Reads
  <1>14. ASSUME MpSkip PROVE Core'
    BY <1>14, InsideCore
    DEF MpSkip, lockVars, callVars, modeVars, ClearQueue, SetMptest, Reads
  <1>15. ASSUME MpAfter PROVE Core'
    BY <1>15, InsideCore
    DEF MpAfter, lockVars, callVars, modeVars, ClearQueue, SetMptest, Reads
  <1>16. ASSUME Unlock PROVE Core'
    BY <1>16, InsideCore
    DEF Unlock, lockVars, callVars, modeVars, ClearQueue, SetMptest, Reads
  <1>17. ASSUME Out PROVE Core'
    <2>1. /\ handler = "out" /\ handler' = "idle"
          /\ work_lock' = work_lock + 1
          /\ work_procedure' = IF work_procedure = "normal" THEN "none" ELSE work_procedure
          /\ UNCHANGED <<pc, depth, leaked>>
      BY <1>17 DEF Out, callVars, modeVars
    <2>2. HandlerHolds /\ ~HandlerHolds' /\ handler' \notin Reads
      BY <2>1 DEF HandlerHolds, Reads
    <2>3. \A q \in Procs : (Holds(q)' <=> Holds(q)) /\ (Works(q)' <=> Works(q))
      BY <2>1, Others
    <2>4. /\ work_lock' = 1
          /\ \A q \in Procs : ~Holds(q)
      BY <2>1, <2>2 DEF Core, LockInv, TypeOK
    <2>5. LockInv'
      BY <2>2, <2>3, <2>4 DEF LockInv
    <2>6. WordInv'
      BY <2>1, <2>2, <2>3 DEF Core, WordInv
    <2> QED
      BY <2>1, <2>5, <2>6, HandlerCore
  <1>18. ASSUME AgingData PROVE Core'
    BY <1>18, InsideCore
    DEF AgingData, lockVars, callVars, modeVars, Reads
  <1>19. ASSUME AgingPut PROVE Core'
    BY <1>19, InsideCore
    DEF AgingPut, lockVars, callVars, modeVars, Reads
  <1>20. ASSUME MpReset PROVE Core'
    BY <1>20, InsideCore
    DEF MpReset, lockVars, callVars, modeVars, Reads
  <1> QED
    BY <1>1, <1>2, <1>3, <1>4, <1>5, <1>6, <1>7, <1>8, <1>9, <1>10, <1>11, <1>12, <1>13,
       <1>14, <1>15, <1>16, <1>17, <1>18, <1>19, <1>20
    DEF Handler

(* Every step keeps who holds what.                                         *)
LEMMA CoreStep ==
    ASSUME TypeOK, Core, [Next]_vars
    PROVE  Core'
  <1>1. CASE Frame \/ UNCHANGED vars
    <2>1. UNCHANGED <<pc, depth, leaked, work_procedure, work_lock, handler>>
      BY <1>1 DEF Frame, vars, lockVars, callVars, handlerVars, modeVars
    <2>2. \A q \in Procs : (Holds(q)' <=> Holds(q)) /\ (Works(q)' <=> Works(q))
      BY <2>1, Others
    <2>3. LockInv'
      BY <2>1, <2>2 DEF Core, LockInv, HandlerHolds
    <2>4. WordInv'
      BY <2>1, <2>2 DEF Core, WordInv, HandlerHolds
    <2> QED
      BY <2>1, <2>3, <2>4, HandlerCore
  <1>2. ASSUME NEW p \in Procs, NEW k \in Kind, Call(p, k) PROVE Core'
    BY <1>2, CallCore
  <1>3. ASSUME NEW p \in Procs, Step(p) PROVE Core'
    BY <1>3, DisableIrqCore, DownCore, TakeUnaskedCore, MpCopyFailsCore, ReleaseCore,
       EnableIrqCore, UpCore, CalmSteps DEF Step
  <1>4. CASE Handler
    BY <1>4, HandlerSteps
  <1> QED
    BY <1>1, <1>2, <1>3, <1>4 DEF Next

-----------------------------------------------------------------------------
(* The ring's successor stays in the ring, and no two slots share one.      *)
LEMMA SuccFacts ==
    /\ 0 \in Slots
    /\ \A i \in Slots : Succ(i) \in Slots
    /\ \A i, j \in Slots : Succ(i) = Succ(j) => i = j
  <1>1. \A i \in Slots : Succ(i) = IF i = QueueSize - 1 THEN 0 ELSE i + 1
    BY QueueAssumption DEF Slots, Succ
  <1> QED
    BY <1>1, QueueAssumption DEF Slots

(* Whatever is done to the ring, its indices stay in it.                    *)
LEMMA QueueStep ==
    ASSUME QueueTypeOK, Clear \/ Get \/ Put \/ UNCHANGED queue
    PROVE  QueueTypeOK'
  BY SuccFacts DEF QueueTypeOK, Clear, Get, Put, queue

(* A failure is counted as long as there is one left.                       *)
LEMMA BudgetStep ==
    ASSUME TypeOK, NEW fails, MayFail(fails)
    PROVE  calls' \in 0..MaxCalls /\ frames' \in 0..MaxFrames /\ faults' \in 0..MaxFaults
  BY BoundsAssumption DEF TypeOK, MayFail, countVars

(* INT stays or goes up.                                                    *)
LEMMA IntStep ==
    ASSUME TypeOK, IntUp \/ UNCHANGED <<int, unanswered>> \/ MayRaiseInt \/ ClearInt
    PROVE  int' \in BOOLEAN /\ unanswered' \in BOOLEAN
  BY DEF TypeOK, IntUp, MayRaiseInt, ClearInt

(* A write that may fail is counted when it does.                           *)
LEMMA IntBudget ==
    ASSUME TypeOK, MayRaiseInt \/ ClearInt
    PROVE  calls' \in 0..MaxCalls /\ frames' \in 0..MaxFrames /\ faults' \in 0..MaxFaults
  BY BudgetStep DEF MayRaiseInt, ClearInt

(* A step of a call keeps the types: what it gives back it had taken.       *)
LEMMA TypeProcSteps ==
    ASSUME TypeOK, Core, NEW p \in Procs, Step(p)
    PROVE  TypeOK'
  <1> USE BoundsAssumption DEF TypeOK
  <1>1. ASSUME DisableIrq(p) PROVE TypeOK'
    BY <1>1, GoFacts, QueueStep
    DEF DisableIrq, IrqOff, Places, At, KindOf, lockVars, callVars, chipVars, modeVars,
        countVars, handlerVars
  <1>2. ASSUME Synchronize(p) PROVE TypeOK'
    BY <1>2, GoFacts, QueueStep
    DEF Synchronize, Places, At, KindOf, lockVars, callVars, chipVars, modeVars,
        countVars, handlerVars
  <1>3. ASSUME Down(p) PROVE TypeOK'
    BY <1>3, GoFacts, QueueStep
    DEF Down, Places, At, KindOf, lockVars, callVars, chipVars, modeVars, countVars,
        handlerVars
  <1>4. ASSUME TakeUnasked(p) PROVE TypeOK'
    BY <1>4, GoFacts, QueueStep
    DEF TakeUnasked, Places, At, KindOf, lockVars, callVars, chipVars, modeVars,
        countVars, handlerVars
  <1>5. ASSUME CopyIn(p) PROVE TypeOK'
    BY <1>5, GoFacts, QueueStep
    DEF CopyIn, MayFail, Places, At, KindOf, lockVars, callVars, chipVars, modeVars,
        countVars, handlerVars
  <1>6. ASSUME Flash(p) PROVE TypeOK'
    <2>1. int' \in BOOLEAN /\ unanswered' \in BOOLEAN
      BY <1>6, IntStep DEF Flash
    <2> QED
      BY <1>6, <2>1, GoFacts, QueueStep
      DEF Flash, Places, lockVars, modeVars, countVars, handlerVars
  <1>7. ASSUME RegBody(p) PROVE TypeOK'
    BY <1>7, GoFacts, QueueStep
    DEF RegBody, Places, At, KindOf, lockVars, callVars, chipVars, modeVars, countVars,
        handlerVars
  <1>8. ASSUME ModeBody(p) PROVE TypeOK'
    BY <1>8, GoFacts, QueueStep
    DEF ModeBody, Places, At, KindOf, lockVars, callVars, chipVars, modeVars, countVars,
        handlerVars
  <1>9. ASSUME MptestBody(p) PROVE TypeOK'
    BY <1>9, GoFacts, QueueStep
    DEF MptestBody, SetMptest, ClearQueue, DisturbAll, Places, At, KindOf, lockVars,
        callVars, chipVars, modeVars, countVars, handlerVars
  <1>10. ASSUME SetSkip(p) PROVE TypeOK'
    BY <1>10, GoFacts, QueueStep
    DEF SetSkip, Places, At, KindOf, lockVars, callVars, chipVars, modeVars, countVars,
        handlerVars
  <1>11. ASSUME ClearUnasked(p) PROVE TypeOK'
    BY <1>11, GoFacts, QueueStep
    DEF ClearUnasked, ClearQueue, DisturbAll, Places, At, KindOf, lockVars, callVars,
        chipVars, modeVars, countVars, handlerVars
  <1>12. ASSUME MpStop(p) PROVE TypeOK'
    <2>1. QueueTypeOK'
      BY <1>12, QueueStep DEF MpStop, SetMptest, ClearQueue
    <2>2. mptest_mode' \in SUBSET {"test", "READY_START", "READY_STOP"}
      BY <1>12 DEF MpStop, SetMptest
    <2>3. disturbed' \in [Procs -> BOOLEAN]
      BY <1>12 DEF MpStop, SetMptest, ClearQueue, DisturbAll, At
    <2> QED
      BY <1>12, <2>1, <2>2, <2>3, GoFacts
      DEF MpStop, Places, At, KindOf, lockVars, callVars, chipVars, modeVars, countVars,
          handlerVars
  <1>13. ASSUME MpStart(p) PROVE TypeOK'
    <2>1. QueueTypeOK' /\ disturbed' \in [Procs -> BOOLEAN]
      BY <1>13, QueueStep DEF MpStart, ClearQueue, DisturbAll, At
    <2>2. mptest_mode' \in SUBSET {"test", "READY_START", "READY_STOP"}
      BY <1>13 DEF MpStart
    <2>3. /\ int' \in BOOLEAN /\ unanswered' \in BOOLEAN
          /\ calls' \in 0..MaxCalls /\ frames' \in 0..MaxFrames /\ faults' \in 0..MaxFaults
      BY <1>13, IntStep, IntBudget DEF MpStart
    <2>4. pc' \in [Procs -> [at : Places, kind : Kind \union {"none"}]]
      BY <1>13, GoFacts DEF MpStart, Places
    <2> QED
      BY <1>13, <2>1, <2>2, <2>3, <2>4 DEF MpStart, lockVars, handlerVars
  <1>14. ASSUME StopLater(p) PROVE TypeOK'
    BY <1>14, GoFacts, QueueStep
    DEF StopLater, Places, At, KindOf, lockVars, callVars, chipVars, modeVars, countVars,
        handlerVars
  <1>15. ASSUME ModeRead(p) PROVE TypeOK'
    <2>1. QueueTypeOK'
      BY <1>15, QueueStep DEF ModeRead, queue
    <2>2. calls' \in 0..MaxCalls /\ frames' \in 0..MaxFrames /\ faults' \in 0..MaxFaults
      BY <1>15, BudgetStep, IntBudget DEF ModeRead, countVars
    <2>3. int' \in BOOLEAN /\ unanswered' \in BOOLEAN
      BY <1>15, IntStep DEF ModeRead
    <2>4. pc' \in [Procs -> [at : Places, kind : Kind \union {"none"}]]
      BY <1>15, GoFacts DEF ModeRead, Places
    <2>5. disturbed' \in [Procs -> BOOLEAN]
      BY <1>15 DEF ModeRead, DisturbAll, At
    <2> QED
      BY <1>15, <2>1, <2>2, <2>3, <2>4, <2>5 DEF ModeRead, lockVars, modeVars, handlerVars
  <1>16. ASSUME MpCopyFails(p) PROVE TypeOK'
    BY <1>16, GoFacts, QueueStep
    DEF MpCopyFails, MayFail, Places, At, KindOf, lockVars, callVars, chipVars, modeVars,
        countVars, handlerVars
  <1>17. ASSUME Release(p) PROVE TypeOK'
    BY <1>17, GoFacts, QueueStep
    DEF Release, Places, At, KindOf, lockVars, callVars, chipVars, modeVars, countVars,
        handlerVars
  <1>18. ASSUME Reset(p) PROVE TypeOK'
    <2>1. QueueTypeOK'
      BY <1>18, QueueStep DEF Reset
    <2>2. /\ int' \in BOOLEAN /\ unanswered' \in BOOLEAN
          /\ calls' \in 0..MaxCalls /\ frames' \in 0..MaxFrames /\ faults' \in 0..MaxFaults
      BY <1>18, IntStep, IntBudget DEF Reset, countVars
    <2>3. mptest_mode' \in SUBSET {"test", "READY_START", "READY_STOP"}
      BY <1>18 DEF Reset
    <2>4. pc' \in [Procs -> [at : Places, kind : Kind \union {"none"}]]
      BY <1>18, GoFacts DEF Reset, Places
    <2> QED
      BY <1>18, <2>1, <2>2, <2>3, <2>4 DEF Reset, lockVars, handlerVars
  <1>19. ASSUME EnableIrq(p) PROVE TypeOK'
    <2>1. depth[p] > 0
      BY <1>19 DEF Core, DepthInv, PathInv, Along, Masks, EnableIrq, At
    <2> QED
      BY <1>19, <2>1, GoFacts, QueueStep
      DEF EnableIrq, IrqBack, Places, At, KindOf, lockVars, callVars, chipVars, modeVars,
          countVars, handlerVars
  <1>20. ASSUME Up(p) PROVE TypeOK'
    <2>1. work_lock = 0
      BY <1>20 DEF Core, LockInv, Holds, Up, At
    <2> QED
      BY <1>20, <2>1, GoFacts, QueueStep
      DEF Up, Places, At, KindOf, lockVars, callVars, chipVars, modeVars, countVars,
          handlerVars
  <1>21. ASSUME GetFront(p) PROVE TypeOK'
    BY <1>21, GoFacts, QueueStep, SuccFacts
    DEF GetFront, FrontSlot, QueueTypeOK, Places, At, KindOf, lockVars, callVars,
        chipVars, modeVars, countVars, handlerVars
  <1>22. ASSUME CopyOut(p) PROVE TypeOK'
    <2>1. QueueTypeOK'
      BY <1>22, QueueStep DEF CopyOut
    <2>2. PICK fails \in BOOLEAN : MayFail(fails) /\ Go(p, IF fails THEN "idle" ELSE "drop")
      BY <1>22 DEF CopyOut
    <2>3. calls' \in 0..MaxCalls /\ frames' \in 0..MaxFrames /\ faults' \in 0..MaxFaults
      BY <2>2, BudgetStep
    <2>4. pc' \in [Procs -> [at : Places, kind : Kind \union {"none"}]]
      BY <2>2, GoFacts DEF Places
    <2>5. reading' \in [Procs -> Slots] /\ disturbed' \in [Procs -> BOOLEAN]
      BY <1>22, SuccFacts DEF CopyOut
    <2> QED
      BY <1>22, <2>1, <2>3, <2>4, <2>5
      DEF CopyOut, lockVars, chipVars, modeVars, handlerVars
  <1>23. ASSUME Drop(p) PROVE TypeOK'
    BY <1>23, GoFacts, QueueStep
    DEF Drop, DisturbAll, Places, At, KindOf, lockVars, callVars, chipVars, modeVars,
        countVars, handlerVars
  <1> QED
    BY <1>1, <1>2, <1>3, <1>4, <1>5, <1>6, <1>7, <1>8, <1>9, <1>10, <1>11, <1>12, <1>13,
       <1>14, <1>15, <1>16, <1>17, <1>18, <1>19, <1>20, <1>21, <1>22, <1>23
    DEF Step

(* A step of the interrupt thread keeps the types, raw_data_lock by RawInv. *)
LEMMA TypeHandlerSteps ==
    ASSUME TypeOK, Core, RawInv, Handler
    PROVE  TypeOK'
  <1> USE BoundsAssumption DEF TypeOK, HandlerPlaces
  <1>1. ASSUME HandlerStart PROVE TypeOK'
    BY <1>1, QueueStep
    DEF HandlerStart, lockVars, callVars, chipVars, modeVars, countVars, handlerVars
  <1>2. ASSUME TryLock PROVE TypeOK'
    BY <1>2, QueueStep
    DEF TryLock, lockVars, callVars, chipVars, modeVars, countVars, handlerVars
  <1>3. ASSUME Spin PROVE TypeOK'
    BY <1>3, QueueStep
    DEF Spin, lockVars, callVars, chipVars, modeVars, countVars, handlerVars
  <1>4. ASSUME HandlerClear PROVE TypeOK'
    <2>1. QueueTypeOK'
      BY <1>4, QueueStep DEF HandlerClear
    <2>2. /\ int' \in BOOLEAN /\ unanswered' \in BOOLEAN /\ pending' \in BOOLEAN
          /\ calls' \in 0..MaxCalls /\ frames' \in 0..MaxFrames /\ faults' \in 0..MaxFaults
      BY <1>4, IntStep, IntBudget DEF HandlerClear, ClearInt
    <2> QED
      BY <1>4, <2>1, <2>2 DEF HandlerClear, lockVars, callVars, modeVars
  <1>5. ASSUME Dispatch PROVE TypeOK'
    BY <1>5, QueueStep
    DEF Dispatch, lockVars, callVars, chipVars, modeVars, countVars, handlerVars
  <1>6. ASSUME RawData PROVE TypeOK'
    BY <1>6, QueueStep, SuccFacts
    DEF RawData, MayFail, RearSlot, QueueTypeOK, lockVars, callVars, chipVars, modeVars,
        countVars, handlerVars
  <1>7. ASSUME RawFill PROVE TypeOK'
    <2>1. QueueTypeOK'
      BY <1>7, QueueStep DEF RawFill
    <2>2. PICK fails \in BOOLEAN : MayFail(fails)
      BY <1>7 DEF RawFill
    <2>3. calls' \in 0..MaxCalls /\ frames' \in 0..MaxFrames /\ faults' \in 0..MaxFaults
      BY <2>2, BudgetStep
    <2>4. handler' \in HandlerPlaces /\ buffer' \in Slots
      BY <1>7, SuccFacts DEF RawFill
    <2> QED
      BY <1>7, <2>1, <2>3, <2>4 DEF RawFill, lockVars, callVars, chipVars, modeVars
  <1>8. ASSUME RawPut PROVE TypeOK'
    BY <1>8, QueueStep
    DEF RawPut, lockVars, callVars, chipVars, modeVars, countVars, handlerVars
  <1>9. ASSUME MpStatusFails PROVE TypeOK'
    BY <1>9, QueueStep
    DEF MpStatusFails, MayFail, lockVars, callVars, chipVars, modeVars, countVars,
        handlerVars
  <1>10. ASSUME MpNotReady PROVE TypeOK'
    <2>1. QueueTypeOK'
      BY <1>10, QueueStep DEF MpNotReady
    <2>2. /\ int' \in BOOLEAN /\ unanswered' \in BOOLEAN /\ pending' \in BOOLEAN
          /\ calls' \in 0..MaxCalls /\ frames' \in 0..MaxFrames /\ faults' \in 0..MaxFaults
      BY <1>10, IntStep, IntBudget DEF MpNotReady, ClearInt
    <2> QED
      BY <1>10, <2>1, <2>2 DEF MpNotReady, lockVars, callVars, modeVars
  <1>11. ASSUME MpBegin PROVE TypeOK'
    <2>1. QueueTypeOK'
      BY <1>11, QueueStep DEF MpBegin, SetMptest, ClearQueue
    <2>2. mptest_mode' \in SUBSET {"test", "READY_START", "READY_STOP"}
      BY <1>11 DEF MpBegin, SetMptest
    <2>3. disturbed' \in [Procs -> BOOLEAN]
      BY <1>11 DEF MpBegin, SetMptest, ClearQueue, DisturbAll, At
    <2>4. /\ handler' \in HandlerPlaces
          /\ calls' \in 0..MaxCalls /\ frames' \in 0..MaxFrames /\ faults' \in 0..MaxFaults
      BY <1>11, BudgetStep DEF MpBegin
    <2> QED
      BY <1>11, <2>1, <2>2, <2>3, <2>4 DEF MpBegin, lockVars, chipVars
  <1>12. ASSUME MpData PROVE TypeOK'
    BY <1>12, QueueStep, SuccFacts
    DEF MpData, RearSlot, QueueTypeOK, lockVars, callVars, chipVars, modeVars, countVars,
        handlerVars
  <1>13. ASSUME MpPut PROVE TypeOK'
    <2>1. QueueTypeOK'
      BY <1>13, QueueStep DEF MpPut, queue
    <2> QED
      BY <1>13, <2>1, SuccFacts DEF MpPut, lockVars, callVars, chipVars, modeVars, countVars
  <1>14. ASSUME MpSkip PROVE TypeOK'
    <2>1. QueueTypeOK'
      BY <1>14, QueueStep DEF MpSkip
    <2>2. skip_count' \in Nat
      BY <1>14 DEF MpSkip
    <2>3. disturbed' \in [Procs -> BOOLEAN]
      BY <1>14 DEF MpSkip, DisturbAll, At
    <2> QED
      BY <1>14, <2>1, <2>2, <2>3
      DEF MpSkip, lockVars, callVars, chipVars, modeVars, countVars
  <1>15. ASSUME MpAfter PROVE TypeOK'
    <2>1. QueueTypeOK'
      BY <1>15, QueueStep DEF MpAfter, SetMptest, ClearQueue
    <2>2. mptest_mode' \in SUBSET {"test", "READY_START", "READY_STOP"}
      BY <1>15 DEF MpAfter, SetMptest
    <2>3. disturbed' \in [Procs -> BOOLEAN]
      BY <1>15 DEF MpAfter, SetMptest, ClearQueue, DisturbAll, At
    <2> QED
      BY <1>15, <2>1, <2>2, <2>3
      DEF MpAfter, lockVars, callVars, chipVars, modeVars, countVars
  <1>16. ASSUME Unlock PROVE TypeOK'
    <2>1. QueueTypeOK'
      BY <1>16, QueueStep DEF Unlock
    <2>2. raw_lock = 0
      BY <1>16 DEF Unlock, RawInv, Reads
    <2>3. raw_lock' = 1
      BY <1>16, <2>2 DEF Unlock
    <2>4. /\ int' \in BOOLEAN /\ unanswered' \in BOOLEAN /\ pending' \in BOOLEAN
          /\ calls' \in 0..MaxCalls /\ frames' \in 0..MaxFrames /\ faults' \in 0..MaxFaults
      BY <1>16, IntStep, IntBudget DEF Unlock, ClearInt
    <2> QED
      BY <1>16, <2>1, <2>3, <2>4 DEF Unlock, lockVars, callVars, modeVars
  <1>17. ASSUME Out PROVE TypeOK'
    <2>1. work_lock = 0
      BY <1>17 DEF Core, LockInv, HandlerHolds, Out
    <2> QED
      BY <1>17, <2>1, QueueStep
      DEF Out, lockVars, callVars, chipVars, modeVars, countVars, handlerVars
  <1>18. ASSUME AgingData PROVE TypeOK'
    BY <1>18, QueueStep, SuccFacts
    DEF AgingData, RearSlot, QueueTypeOK, lockVars, callVars, chipVars, modeVars,
        countVars
  <1>19. ASSUME AgingPut PROVE TypeOK'
    <2>1. QueueTypeOK'
      BY <1>19, QueueStep DEF AgingPut, queue
    <2> QED
      BY <1>19, <2>1, SuccFacts DEF AgingPut, lockVars, callVars, chipVars, modeVars, countVars
  <1>20. ASSUME MpReset PROVE TypeOK'
    <2>1. QueueTypeOK'
      BY <1>20, QueueStep DEF MpReset
    <2>2. /\ int' \in BOOLEAN /\ unanswered' \in BOOLEAN
          /\ calls' \in 0..MaxCalls /\ frames' \in 0..MaxFrames /\ faults' \in 0..MaxFaults
      BY <1>20, IntStep, IntBudget DEF MpReset
    <2> QED
      BY <1>20, <2>1, <2>2 DEF MpReset, lockVars, callVars, modeVars
  <1> QED
    BY <1>1, <1>2, <1>3, <1>4, <1>5, <1>6, <1>7, <1>8, <1>9, <1>10, <1>11, <1>12, <1>13,
       <1>14, <1>15, <1>16, <1>17, <1>18, <1>19, <1>20
    DEF Handler

(* Every step keeps the types.                                              *)
LEMMA TypeStep ==
    ASSUME TypeOK, Core, RawInv, [Next]_vars
    PROVE  TypeOK'
  <1>1. CASE UNCHANGED vars
    BY <1>1, QueueStep DEF TypeOK, vars, lockVars, callVars, chipVars, modeVars, countVars
  <1>2. CASE Frame
    BY <1>2, QueueStep, BoundsAssumption
    DEF Frame, TypeOK, lockVars, callVars, handlerVars, modeVars
  <1>3. ASSUME NEW p \in Procs, NEW k \in Kind, Call(p, k) PROVE TypeOK'
    <2>1. FirstPlaces(k) \subseteq Places
      BY DEF FirstPlaces, Kind, Locked, Masked, Places
    <2>2. pc' \in [Procs -> [at : Places, kind : Kind \union {"none"}]]
      BY <1>3, <2>1 DEF Call, TypeOK
    <2> QED
      BY <1>3, <2>2, QueueStep, BoundsAssumption
      DEF Call, TypeOK, lockVars, handlerVars, chipVars, modeVars
  <1>4. ASSUME NEW p \in Procs, Step(p) PROVE TypeOK'
    BY <1>4, TypeProcSteps
  <1>5. CASE Handler
    BY <1>5, TypeHandlerSteps
  <1> QED
    BY <1>1, <1>2, <1>3, <1>4, <1>5 DEF Next

(* Only the handler takes raw_data_lock, and every way through solomon_work *)
(* that gives it back has it, or has found it taken.                        *)
LEMMA RawStep ==
    ASSUME TypeOK, RawInv, [Next]_vars
    PROVE  RawInv'
  <1>1. ASSUME UNCHANGED <<handler, raw_lock>> PROVE RawInv'
    BY <1>1 DEF RawInv
  <1>2. CASE Frame \/ UNCHANGED vars
    BY <1>1, <1>2 DEF Frame, vars, handlerVars
  <1>3. ASSUME NEW p \in Procs, NEW k \in Kind, Call(p, k) PROVE RawInv'
    BY <1>1, <1>3 DEF Call, handlerVars
  <1>4. ASSUME NEW p \in Procs, Step(p) PROVE RawInv'
    BY <1>1, <1>4 DEF Step, handlerVars,
       DisableIrq, Synchronize, Down, TakeUnasked, CopyIn, Flash,
       RegBody, ModeBody, MptestBody, SetSkip, ClearUnasked, MpStop,
       MpStart, StopLater, ModeRead, MpCopyFails, Release, Reset,
       EnableIrq, Up, GetFront, CopyOut, Drop
  <1>5. CASE Handler
    <2> USE DEF RawInv, Reads
    <2>1. CASE HandlerStart \/ TryLock \/ Spin \/ HandlerClear \/ MpNotReady \/ Out
      BY <2>1 DEF HandlerStart, TryLock, Spin, HandlerClear, MpNotReady, Out
    <2>2. CASE Dispatch
      BY <2>2 DEF Dispatch, TypeOK
    <2>3. CASE RawData \/ RawFill \/ RawPut \/ MpStatusFails \/ MpBegin \/ MpData \/ MpPut
      BY <2>3 DEF RawData, RawFill, RawPut, MpStatusFails, MpBegin, MpData, MpPut
    <2>4. CASE MpReset \/ MpSkip \/ MpAfter \/ Unlock
      BY <2>4 DEF MpReset, MpSkip, MpAfter, Unlock
    <2>5. CASE AgingData \/ AgingPut
      BY <2>5 DEF AgingData, AgingPut
    <2> QED
      BY <1>5, <2>1, <2>2, <2>3, <2>4, <2>5 DEF Handler
  <1> QED
    BY <1>2, <1>3, <1>4, <1>5 DEF Next

-----------------------------------------------------------------------------
(* The ring stands still, and nobody begins to fill or to copy.             *)
LEMMA RingCalm ==
    ASSUME RingInv, UNCHANGED queue,
           Fills' => Fills /\ buffer' = buffer,
           \A q \in Procs : pc'[q].at = "copy" /\ ~disturbed'[q] =>
               pc[q].at = "copy" /\ ~disturbed[q] /\ reading'[q] = reading[q]
    PROVE  RingInv'
  <1>1. UNCHANGED <<Empty, RearSlot, FrontSlot>>
    BY DEF queue, Empty, RearSlot, FrontSlot
  <1> QED
    BY <1>1 DEF RingInv, Fills, At

(* The front moves, or the ring is cleared: every reader is told.           *)
LEMMA RingTaken ==
    ASSUME RingInv, Clear \/ Get, DisturbAll,
           Fills' => Fills /\ buffer' = buffer,
           \A q \in Procs : pc'[q].at = "copy" => pc[q].at = "copy"
    PROVE  RingInv'
  <1>1. Fills => buffer = RearSlot \/ Empty
    BY DEF RingInv, Fills
  <1>2. Clear => Empty'
    BY DEF Clear, Empty
  <1>3. Get => RearSlot' = RearSlot /\ (Empty => Empty')
    BY DEF Get, Empty, RearSlot
  <1>4. \A q \in Procs : pc'[q].at = "copy" => disturbed'[q]
    BY DEF DisturbAll, At
  <1> QED
    BY <1>1, <1>2, <1>3, <1>4 DEF RingInv, Fills, At

(* A frame is put in behind the others.                                     *)
LEMMA RingPut ==
    ASSUME RingInv, Put, ~Fills', UNCHANGED callVars
    PROVE  RingInv'
  <1>1. ~Empty => ~Empty'
    BY DEF Put, Empty, Full
  <1>2. FrontSlot' = FrontSlot
    BY DEF Put, FrontSlot
  <1> QED
    BY <1>1, <1>2 DEF RingInv, Fills, At, callVars

(* A step of a process keeps the ring.                                      *)
LEMMA RingProcSteps ==
    ASSUME TypeOK, RingInv, NEW p \in Procs, Step(p)
    PROVE  RingInv'
  <1> DEFINE Stays == pc'[p].at # "copy" /\ \A q \in Procs : q # p => pc'[q] = pc[q]
  <1>1. ASSUME Stays, UNCHANGED <<queue, reading, disturbed, handlerVars>> PROVE RingInv'
    BY <1>1, RingCalm DEF handlerVars, Fills
  <1>2. ASSUME Stays, Clear \/ Get, DisturbAll, UNCHANGED handlerVars PROVE RingInv'
    BY <1>2, RingTaken DEF handlerVars, Fills
  <1>3. ASSUME DisableIrq(p) PROVE RingInv'
    <2>1. Stays
      BY <1>3, GoFacts DEF DisableIrq, Places
    <2> QED
      BY <1>1, <1>3, <2>1 DEF DisableIrq
  <1>4. ASSUME Synchronize(p) PROVE RingInv'
    <2>1. Stays
      BY <1>4, GoFacts DEF Synchronize, Places
    <2> QED
      BY <1>1, <1>4, <2>1 DEF Synchronize
  <1>5. ASSUME Down(p) PROVE RingInv'
    <2>1. Stays
      BY <1>5, GoFacts DEF Down, Places
    <2> QED
      BY <1>1, <1>5, <2>1 DEF Down
  <1>6. ASSUME TakeUnasked(p) PROVE RingInv'
    <2>1. Stays
      BY <1>6, GoFacts DEF TakeUnasked, Places
    <2> QED
      BY <1>1, <1>6, <2>1 DEF TakeUnasked
  <1>7. ASSUME CopyIn(p) PROVE RingInv'
    <2>1. Stays
      BY <1>7, GoFacts DEF CopyIn, Places
    <2> QED
      BY <1>1, <1>7, <2>1 DEF CopyIn
  <1>8. ASSUME Flash(p) PROVE RingInv'
    <2>1. Stays
      BY <1>8, GoFacts DEF Flash, Places
    <2> QED
      BY <1>1, <1>8, <2>1 DEF Flash
  <1>9. ASSUME RegBody(p) PROVE RingInv'
    <2>1. Stays
      BY <1>9, GoFacts DEF RegBody, Places
    <2> QED
      BY <1>1, <1>9, <2>1 DEF RegBody
  <1>10. ASSUME ModeBody(p) PROVE RingInv'
    <2>1. Stays
      BY <1>10, GoFacts DEF ModeBody, Places
    <2> QED
      BY <1>1, <1>10, <2>1 DEF ModeBody
  <1>11. ASSUME MptestBody(p) PROVE RingInv'
    <2>1. Stays
      BY <1>11, GoFacts DEF MptestBody, Places
    <2> QED
      BY <1>2, <1>11, <2>1 DEF MptestBody, SetMptest, ClearQueue
  <1>12. ASSUME SetSkip(p) PROVE RingInv'
    <2>1. Stays
      BY <1>12, GoFacts DEF SetSkip, Places
    <2> QED
      BY <1>1, <1>12, <2>1 DEF SetSkip
  <1>13. ASSUME ClearUnasked(p) PROVE RingInv'
    <2>1. Stays
      BY <1>13, GoFacts DEF ClearUnasked, Places
    <2> QED
      BY <1>2, <1>13, <2>1 DEF ClearUnasked, ClearQueue
  <1>14. ASSUME MpStop(p) PROVE RingInv'
    <2>1. Stays
      BY <1>14, GoFacts DEF MpStop, Places
    <2> QED
      BY <1>1, <1>2, <1>14, <2>1 DEF MpStop, SetMptest, ClearQueue
  <1>15. ASSUME MpStart(p) PROVE RingInv'
    <2>1. Stays
      BY <1>15, GoFacts DEF MpStart, Places
    <2> QED
      BY <1>2, <1>15, <2>1 DEF MpStart, ClearQueue
  <1>16. ASSUME StopLater(p) PROVE RingInv'
    <2>1. Stays
      BY <1>16, GoFacts DEF StopLater, Places
    <2> QED
      BY <1>1, <1>16, <2>1 DEF StopLater
  <1>17. ASSUME ModeRead(p) PROVE RingInv'
    <2>1. Stays
      BY <1>17, GoFacts DEF ModeRead, Places
    <2>2. CASE UNCHANGED disturbed
      BY <1>1, <1>17, <2>1, <2>2 DEF ModeRead
    <2>3. CASE DisturbAll
      BY <1>17, <2>1, <2>3, RingCalm DEF ModeRead, DisturbAll, At, handlerVars, Fills
    <2> QED
      BY <1>17, <2>2, <2>3 DEF ModeRead
  <1>18. ASSUME MpCopyFails(p) PROVE RingInv'
    <2>1. Stays
      BY <1>18, GoFacts DEF MpCopyFails, Places
    <2> QED
      BY <1>1, <1>18, <2>1 DEF MpCopyFails
  <1>19. ASSUME Release(p) PROVE RingInv'
    <2>1. Stays
      BY <1>19, GoFacts DEF Release, Places
    <2> QED
      BY <1>1, <1>19, <2>1 DEF Release
  <1>20. ASSUME Reset(p) PROVE RingInv'
    <2>1. Stays
      BY <1>20, GoFacts DEF Reset, Places
    <2> QED
      BY <1>1, <1>20, <2>1 DEF Reset
  <1>21. ASSUME EnableIrq(p) PROVE RingInv'
    <2>1. Stays
      BY <1>21, GoFacts DEF EnableIrq, Places
    <2> QED
      BY <1>1, <1>21, <2>1 DEF EnableIrq
  <1>22. ASSUME Up(p) PROVE RingInv'
    <2>1. Stays
      BY <1>22, GoFacts DEF Up, Places
    <2> QED
      BY <1>1, <1>22, <2>1 DEF Up
  <1>23. ASSUME GetFront(p) PROVE RingInv'
    <2>1. CASE Stays /\ UNCHANGED reading
      BY <1>1, <1>23, <2>1 DEF GetFront
    <2>2. CASE Go(p, "copy") /\ ~Empty /\ reading' = [reading EXCEPT ![p] = FrontSlot]
      <3>1. \A q \in Procs : q # p => pc'[q] = pc[q] /\ reading'[q] = reading[q]
        BY <2>2, GoFacts DEF Places, TypeOK
      <3>2. UNCHANGED <<Empty, FrontSlot, RearSlot>>
        BY <1>23 DEF GetFront, queue, Empty, FrontSlot, RearSlot
      <3>3. reading'[p] = FrontSlot
        BY <2>2 DEF TypeOK
      <3> QED
        BY <1>23, <2>2, <3>1, <3>2, <3>3 DEF GetFront, RingInv, At, Fills, handlerVars
    <2> QED
      BY <1>23, <2>1, <2>2, GoFacts DEF GetFront, Places
  <1>24. ASSUME CopyOut(p) PROVE RingInv'
    <2>1. Stays
      BY <1>24, GoFacts DEF CopyOut, Places
    <2>2. \A q \in Procs : q # p => reading'[q] = reading[q] /\ disturbed'[q] = disturbed[q]
      BY <1>24 DEF CopyOut, TypeOK
    <2> QED
      BY <1>24, <2>1, <2>2, RingCalm DEF CopyOut, handlerVars, Fills
  <1>25. ASSUME Drop(p) PROVE RingInv'
    <2>1. Stays
      BY <1>25, GoFacts DEF Drop, Places
    <2> QED
      BY <1>2, <1>25, <2>1 DEF Drop
  <1> QED
    BY <1>3, <1>4, <1>5, <1>6, <1>7, <1>8, <1>9, <1>10, <1>11, <1>12, <1>13, <1>14,
       <1>15, <1>16, <1>17, <1>18, <1>19, <1>20, <1>21, <1>22, <1>23, <1>24, <1>25
    DEF Step

(* A step of the interrupt thread keeps the ring.                           *)
LEMMA RingHandlerSteps ==
    ASSUME TypeOK, RingInv, Handler
    PROVE  RingInv'
  <1>1. ASSUME UNCHANGED <<queue, callVars>>, ~Fills' PROVE RingInv'
    BY <1>1, RingCalm DEF callVars
  <1>2. ASSUME UNCHANGED <<queue, callVars>>, buffer' = RearSlot PROVE RingInv'
    BY <1>2 DEF RingInv, RearSlot, Empty, FrontSlot, At, callVars, queue
  <1>3. ASSUME Clear \/ Get, DisturbAll, ~Fills', UNCHANGED pc PROVE RingInv'
    BY <1>3, RingTaken
  <1>4. ASSUME Put, ~Fills', UNCHANGED callVars PROVE RingInv'
    BY <1>4, RingPut
  <1>5. CASE HandlerStart \/ TryLock \/ Spin \/ HandlerClear \/ Dispatch \/ Unlock \/ Out
    BY <1>1, <1>5
    DEF HandlerStart, TryLock, Spin, HandlerClear, Dispatch, Unlock, Out, Fills, callVars
  <1>6. CASE RawFill \/ MpStatusFails \/ MpNotReady \/ MpReset
    BY <1>1, <1>6 DEF RawFill, MpStatusFails, MpNotReady, MpReset, Fills
  <1>7. CASE RawData
    BY <1>1, <1>2, <1>7 DEF RawData, Fills
  <1>8. CASE MpData \/ AgingData
    BY <1>1, <1>2, <1>8 DEF MpData, AgingData, Fills
  <1>9. CASE RawPut \/ MpPut \/ AgingPut
    BY <1>4, <1>9 DEF RawPut, MpPut, AgingPut, Fills
  <1>10. CASE MpBegin
    BY <1>3, <1>10 DEF MpBegin, SetMptest, ClearQueue, Fills
  <1>11. CASE MpSkip
    BY <1>3, <1>11 DEF MpSkip, Fills
  <1>12. CASE MpAfter
    BY <1>1, <1>3, <1>12 DEF MpAfter, SetMptest, ClearQueue, Fills, callVars
  <1> QED
    BY <1>5, <1>6, <1>7, <1>8, <1>9, <1>10, <1>11, <1>12 DEF Handler

(* Every step keeps the ring.                                               *)
LEMMA RingStep ==
    ASSUME TypeOK, RingInv, [Next]_vars
    PROVE  RingInv'
  <1>1. CASE Frame \/ UNCHANGED vars
    BY <1>1, RingCalm DEF Frame, vars, callVars, handlerVars, Fills
  <1>2. ASSUME NEW p \in Procs, NEW k \in Kind, Call(p, k) PROVE RingInv'
    <2>1. /\ pc'[p].at # "copy"
          /\ \A q \in Procs : q # p => pc'[q] = pc[q]
      BY <1>2 DEF Call, TypeOK, FirstPlaces, Kind, Locked, Masked
    <2> QED
      BY <1>2, <2>1, RingCalm DEF Call, handlerVars, Fills
  <1>3. ASSUME NEW p \in Procs, Step(p) PROVE RingInv'
    BY <1>3, RingProcSteps
  <1>4. CASE Handler
    BY <1>4, RingHandlerSteps
  <1> QED
    BY <1>1, <1>2, <1>3, <1>4 DEF Next

-----------------------------------------------------------------------------
(* The inductive invariant: what is held by whom, and what the ring holds.  *)
WorkInv == TypeOK /\ Core /\ RawInv /\ RingInv

(* The driver starts with nothing taken.                                    *)
LEMMA InitWork == Init => WorkInv
  <1> SUFFICES ASSUME Init PROVE WorkInv
    OBVIOUS
  <1>0. \A p \in Procs : pc[p] = [at |-> "idle", kind |-> "none"]
    BY DEF Init, Idle
  <1>1. \A p \in Procs : Along(p) /\ ~Masks(p) /\ ~Holds(p) /\ ~Works(p)
    BY <1>0 DEF Along, Masks, Holds, Works, Locked, Masked
  <1>2. handler = "idle" /\ ~HandlerHolds /\ handler \notin Reads
    BY DEF Init, HandlerHolds, Reads
  <1>3. TypeOK
    <2>1. QueueTypeOK
      BY SuccFacts DEF Init, QueueInit, QueueTypeOK
    <2>2. pc \in [Procs -> [at : Places, kind : Kind \union {"none"}]]
      BY DEF Init, Idle, Places
    <2>3. /\ reading \in [Procs -> Slots] /\ buffer \in Slots
          /\ depth \in [Procs -> Nat] /\ disturbed \in [Procs -> BOOLEAN]
      BY SuccFacts DEF Init
    <2>4. calls \in 0..MaxCalls /\ frames \in 0..MaxFrames /\ faults \in 0..MaxFaults
      BY BoundsAssumption DEF Init
    <2>5. mptest_mode \in SUBSET {"test", "READY_START", "READY_STOP"}
      BY DEF Init
    <2>6. work_lock \in {0, 1} /\ raw_lock \in {0, 1} /\ skip_count \in Nat
      BY DEF Init
    <2>7. handler \in HandlerPlaces
      BY DEF Init, HandlerPlaces
    <2> QED
      BY <2>1, <2>2, <2>3, <2>4, <2>5, <2>6, <2>7 DEF TypeOK, Init
  <1>4. DepthInv /\ work_lock = 1 /\ work_procedure = "none"
    BY <1>1 DEF Init, DepthInv
  <1>5. Core
    BY <1>1, <1>2, <1>4 DEF Core, PathInv, QuietInv, LockInv, WordInv
  <1>6. RawInv /\ RingInv
    BY <1>0, <1>2 DEF Init, RawInv, RingInv, Fills, At
  <1> QED
    BY <1>3, <1>5, <1>6 DEF WorkInv

(* The invariant holds in every reachable state.                            *)
LEMMA WorkCorrect == Spec => []WorkInv
  <1>1. WorkInv /\ [Next]_vars => WorkInv'
    BY TypeStep, CoreStep, RawStep, RingStep DEF WorkInv
  <1> QED
    BY <1>1, InitWork, PTL DEF Spec

(* Neither semaphore is given back twice, and no disable_irq() is undone    *)
(* that was not done.                                                       *)
THEOREM TypeCorrect == Spec => []TypeOK
  <1>1. WorkInv => TypeOK
    BY DEF WorkInv
  <1> QED
    BY <1>1, WorkCorrect, PTL

(* Once all is quiet the word, the semaphore and every disable_irq() have   *)
(* been given back, unless the argument of an MP_TEST could not be copied.  *)
THEOREM WorkReturnedCorrect == Spec => []WorkReturned
  <1>1. WorkInv => WorkReturned
    <2> SUFFICES ASSUME WorkInv, handler = "idle", \A p \in Procs : At(p, "idle"), ~leaked
                 PROVE  work_procedure = "none" /\ work_lock = 1 /\ IrqOn
      BY DEF WorkReturned
    <2>1. ~HandlerHolds
      BY DEF HandlerHolds, Reads
    <2>2. \A p \in Procs : ~Masks(p) /\ ~Holds(p) /\ ~Works(p)
      BY DEF WorkInv, Core, PathInv, Along, At, Masks, Holds, Works, Masked, Locked
    <2>3. work_lock = 1
      BY <2>1, <2>2 DEF WorkInv, Core, LockInv, TypeOK
    <2>4. work_procedure = "none"
      BY <2>1, <2>2 DEF WorkInv, Core, WordInv, TypeOK
    <2>5. IrqOn
      BY <2>2 DEF WorkInv, Core, DepthInv, IrqOn
    <2> QED
      BY <2>3, <2>4, <2>5
  <1> QED
    BY <1>1, WorkCorrect, PTL

(* The flash is written with the interrupt thread at rest, and under        *)
(* SET_DOWNLOAD with no call at the chip that asks for the semaphore,       *)
(* however many processes there are.                                        *)
THEOREM FlashAloneCorrect == Spec => []FlashAlone
  <1>1. WorkInv => FlashAlone
    <2> SUFFICES ASSUME WorkInv, NEW p \in Procs, pc[p].at = "flash"
                 PROVE  /\ handler = "idle"
                        /\ pc[p].kind = "download" =>
                             \A q \in Procs \ {p} :
                               pc[q].at = "body" => pc[q].kind \in {"mp_start", "mp_stop"}
      BY DEF FlashAlone, At, KindOf
    <2>1. handler = "idle"
      BY DEF WorkInv, Core, QuietInv, Masks
    <2>2. ASSUME pc[p].kind = "download", NEW q \in Procs \ {p}, pc[q].at = "body"
          PROVE  pc[q].kind \in {"mp_start", "mp_stop"}
      <3>1. Holds(p)
        BY <2>2 DEF Holds
      <3>2. ~Holds(q)
        BY <2>2, <3>1 DEF WorkInv, Core, LockInv
      <3>3. Along(q)
        BY <2>2 DEF WorkInv, Core, PathInv
      <3> QED
        BY <2>2, <3>2, <3>3 DEF Holds, Along, Locked
    <2> QED
      BY <2>1, <2>2
  <1> QED
    BY <1>1, WorkCorrect, PTL

(* The word says "normal" as long as the handler reads, whoever writes it   *)
(* without asking.                                                          *)
THEOREM HandlerOwnsWordCorrect == Spec => []HandlerOwnsWord
  <1>1. WorkInv => HandlerOwnsWord
    BY DEF WorkInv, Core, WordInv, HandlerOwnsWord, HandlerPlaces, Reads
  <1> QED
    BY <1>1, WorkCorrect, PTL

(* For a ring of any size and any number of readers, without a lock: the    *)
(* slot being filled is none that a reader copies undisturbed.              *)
THEOREM NoTornFrameCorrect == Spec => []NoTornFrame
  <1>1. WorkInv => NoTornFrame
    <2> SUFFICES ASSUME WorkInv, Fills, NEW p \in Procs, At(p, "copy"), ~disturbed[p]
                 PROVE  reading[p] # buffer
      BY DEF NoTornFrame, Fills
    <2>1. ~Empty /\ reading[p] = FrontSlot /\ buffer = RearSlot
      BY DEF WorkInv, RingInv, Fills
    <2>2. queue_front \in Slots /\ queue_rear \in Slots
      BY DEF WorkInv, TypeOK, QueueTypeOK
    <2> QED
      BY <2>1, <2>2, SuccFacts DEF Empty, FrontSlot, RearSlot
  <1> QED
    BY <1>1, WorkCorrect, PTL

-----------------------------------------------------------------------------
(* No frame is left on INT with nobody to answer it: while INT is low an    *)
(* edge waits for the handler, or the handler is at the frame, or its last  *)
(* write, the one that nobody repeats, has failed.  That is what remains of *)
(* IntAnswered without fairness, and it needs no exception for a call that  *)
(* has kept the interrupt off.                                              *)
AnswerOwed == int => pending \/ unanswered \/ handler \notin {"idle", "out"}

(* The handler lets an edge go only when the word says that the flash is    *)
(* being written; it says so only while a call that writes it is at work,   *)
(* which has turned the interrupt off.                                      *)
Updates(p) == pc[p].kind \in {"download", "update"} /\ pc[p].at \in {"copyin", "flash", "release"}
UpdateInv == work_procedure = "upgrade" => \E p \in Procs : Updates(p)

(* A step of one process that neither begins nor ends an update.            *)
LEMMA UpdateKeeps ==
    ASSUME UpdateInv, NEW p \in Procs, \A q \in Procs : q # p => pc'[q] = pc[q],
           work_procedure' = work_procedure \/ work_procedure' # "upgrade",
           Updates(p) => Updates(p)'
    PROVE  UpdateInv'
  <1>1. \A q \in Procs : Updates(q) => Updates(q)'
    BY DEF Updates
  <1> QED
    BY <1>1 DEF UpdateInv

(* A step of a process keeps the word "upgrade" to those who update.        *)
LEMMA UpdateProcSteps ==
    ASSUME TypeOK, Core, UpdateInv, NEW p \in Procs, Step(p)
    PROVE  UpdateInv'
  <1> DEFINE Else == \A q \in Procs : q # p => pc'[q] = pc[q]
  <1>1. ASSUME Else, UNCHANGED work_procedure, pc[p].at \notin {"copyin", "flash", "release"}
        PROVE  UpdateInv'
    BY <1>1, UpdateKeeps DEF Updates
  <1>2. CASE DisableIrq(p) \/ Synchronize(p)
    BY <1>1, <1>2, GoFacts DEF DisableIrq, Synchronize, At, Places, lockVars
  <1>3. CASE Down(p)
    <2>1. CASE pc[p].kind = "download"
      <3>1. pc'[p].at = "copyin" /\ pc'[p].kind = "download"
        BY <1>3, <2>1, GoFacts DEF Down, KindOf, Places
      <3> QED
        BY <3>1 DEF UpdateInv, Updates
    <2>2. CASE pc[p].kind # "download"
      <3>1. Else /\ (work_procedure' = work_procedure \/ work_procedure' # "upgrade")
        BY <1>3, <2>2, GoFacts DEF Down, KindOf, Places
      <3> QED
        BY <1>3, <3>1, UpdateKeeps DEF Down, At, Updates
    <2> QED
      BY <2>1, <2>2
  <1>4. CASE TakeUnasked(p)
    <2>1. CASE pc[p].kind = "update"
      <3>1. pc'[p].at = "flash" /\ pc'[p].kind = "update"
        BY <1>4, <2>1, GoFacts DEF TakeUnasked, KindOf, Places
      <3> QED
        BY <3>1 DEF UpdateInv, Updates
    <2>2. CASE pc[p].kind # "update"
      BY <1>4, <2>2 DEF TakeUnasked, KindOf, UpdateInv
    <2> QED
      BY <2>1, <2>2
  <1>5. CASE CopyIn(p)
    <2>1. Else /\ pc'[p].at \in {"release", "flash"} /\ pc'[p].kind = pc[p].kind
      BY <1>5, GoFacts DEF CopyIn, Places
    <2> QED
      BY <1>5, <2>1, UpdateKeeps DEF CopyIn, lockVars, Updates
  <1>6. CASE Flash(p)
    <2>1. Else /\ pc'[p].at = "release" /\ pc'[p].kind = pc[p].kind
      BY <1>6, GoFacts DEF Flash, Places
    <2> QED
      BY <1>6, <2>1, UpdateKeeps DEF Flash, lockVars, Updates
  <1>7. CASE RegBody(p) \/ ModeBody(p) \/ MptestBody(p) \/ MpStop(p) \/ MpStart(p)
    BY <1>1, <1>7, GoFacts
    DEF RegBody, ModeBody, MptestBody, MpStop, MpStart, At, Places, lockVars
  <1>8. CASE SetSkip(p) \/ ClearUnasked(p) \/ StopLater(p) \/ ModeRead(p) \/ MpCopyFails(p)
    BY <1>1, <1>8, GoFacts
    DEF SetSkip, ClearUnasked, StopLater, ModeRead, MpCopyFails, At, Places, lockVars
  <1>9. CASE Release(p)
    BY <1>9 DEF Release, UpdateInv
  <1>10. CASE Reset(p) \/ EnableIrq(p) \/ Up(p) \/ GetFront(p) \/ CopyOut(p) \/ Drop(p)
    BY <1>1, <1>10, GoFacts
    DEF Reset, EnableIrq, Up, GetFront, CopyOut, Drop, At, Places, lockVars
  <1> QED
    BY <1>2, <1>3, <1>4, <1>5, <1>6, <1>7, <1>8, <1>9, <1>10 DEF Step

(* No step says "upgrade" for nobody.                                       *)
LEMMA UpdateStep ==
    ASSUME TypeOK, Core, UpdateInv, [Next]_vars
    PROVE  UpdateInv'
  <1>1. ASSUME UNCHANGED pc, work_procedure' = work_procedure \/ work_procedure' # "upgrade"
        PROVE  UpdateInv'
    BY <1>1 DEF UpdateInv, Updates
  <1>2. CASE Frame \/ UNCHANGED vars
    BY <1>1, <1>2 DEF Frame, vars, lockVars, callVars
  <1>3. ASSUME NEW p \in Procs, NEW k \in Kind, Call(p, k) PROVE UpdateInv'
    <2>1. /\ \A q \in Procs : q # p => pc'[q] = pc[q]
          /\ ~Updates(p) /\ UNCHANGED work_procedure
      BY <1>3 DEF Call, TypeOK, At, Updates, lockVars
    <2> QED
      BY <2>1, UpdateKeeps
  <1>4. ASSUME NEW p \in Procs, Step(p) PROVE UpdateInv'
    BY <1>4, UpdateProcSteps
  <1>5. CASE Handler
    <2>1. UNCHANGED pc
      BY <1>5 DEF Handler, callVars, HandlerStart, TryLock, Spin, HandlerClear, Dispatch,
         RawData, RawFill, RawPut, AgingData, AgingPut, MpStatusFails, MpNotReady, MpBegin,
         MpReset, MpData, MpPut, MpSkip, MpAfter, Unlock, Out
    <2>2. work_procedure' = work_procedure \/ work_procedure' # "upgrade"
      BY <1>5 DEF Handler, lockVars, HandlerStart, TryLock, Spin, HandlerClear, Dispatch,
         RawData, RawFill, RawPut, AgingData, AgingPut, MpStatusFails, MpNotReady, MpBegin,
         MpReset, MpData, MpPut, MpSkip, MpAfter, Unlock, Out
    <2> QED
      BY <1>1, <2>1, <2>2
  <1> QED
    BY <1>2, <1>3, <1>4, <1>5 DEF Next

(* A step of a process leaves INT as it is, or releases it.                 *)
LEMMA AnswerProcSteps ==
    ASSUME AnswerOwed, NEW p \in Procs, Step(p)
    PROVE  AnswerOwed'
  <1>1. ASSUME UNCHANGED <<pending, handlerVars>>,
               UNCHANGED <<int, unanswered>> \/ IntUp \/ MayRaiseInt
        PROVE  AnswerOwed'
    BY <1>1 DEF AnswerOwed, IntUp, MayRaiseInt, handlerVars
  <1>2. CASE DisableIrq(p) \/ Synchronize(p) \/ Down(p) \/ TakeUnasked(p) \/ CopyIn(p)
    BY <1>1, <1>2 DEF DisableIrq, Synchronize, Down, TakeUnasked, CopyIn, chipVars
  <1>3. CASE Flash(p)
    BY <1>1, <1>3 DEF Flash
  <1>4. CASE RegBody(p) \/ ModeBody(p) \/ MptestBody(p) \/ SetSkip(p) \/ ClearUnasked(p)
    BY <1>1, <1>4 DEF RegBody, ModeBody, MptestBody, SetSkip, ClearUnasked, chipVars
  <1>5. CASE MpStart(p)
    BY <1>1, <1>5 DEF MpStart
  <1>6. CASE MpStop(p) \/ StopLater(p) \/ MpCopyFails(p) \/ Release(p) \/ EnableIrq(p) \/ Up(p)
    BY <1>1, <1>6 DEF MpStop, StopLater, MpCopyFails, Release, EnableIrq, Up, chipVars
  <1>7. CASE ModeRead(p)
    BY <1>1, <1>7 DEF ModeRead
  <1>8. CASE Reset(p)
    BY <1>1, <1>8 DEF Reset
  <1>9. CASE GetFront(p) \/ CopyOut(p) \/ Drop(p)
    BY <1>1, <1>9 DEF GetFront, CopyOut, Drop, chipVars
  <1> QED
    BY <1>2, <1>3, <1>4, <1>5, <1>6, <1>7, <1>8, <1>9 DEF Step

(* The handler takes an edge only to look at the frame, and leaves it with  *)
(* INT released, or with the write that was to release it failed.           *)
LEMMA AnswerHandlerSteps ==
    ASSUME TypeOK, Core, UpdateInv, AnswerOwed, Handler
    PROVE  AnswerOwed'
  <1> USE DEF AnswerOwed
  <1>1. ASSUME handler' \notin {"idle", "out"} PROVE AnswerOwed'
    BY <1>1
  <1>2. CASE HandlerStart
    <2>1. IrqOn
      BY <1>2 DEF HandlerStart
    <2>2. \A p \in Procs : ~Masks(p)
      BY <2>1 DEF Core, DepthInv, IrqOn
    <2>3. \A p \in Procs : ~Updates(p)
      BY <2>2 DEF Updates, Masks, Masked
    <2>4. work_procedure # "upgrade"
      BY <2>3 DEF UpdateInv
    <2> QED
      BY <1>1, <1>2, <2>4 DEF HandlerStart
  <1>3. CASE HandlerClear \/ Unlock \/ MpNotReady
    <2>1. ClearInt
      BY <1>3 DEF HandlerClear, Unlock, MpNotReady
    <2> QED
      BY <2>1 DEF ClearInt, IntUp, TypeOK
  <1>4. CASE TryLock \/ Spin
    BY <1>1, <1>4 DEF TryLock, Spin
  <1>5. CASE Dispatch
    <2>1. CASE handler' # "out"
      BY <1>1, <1>5, <2>1 DEF Dispatch
    <2>2. CASE ~int
      BY <1>5, <2>2 DEF Dispatch, chipVars
    <2> QED
      BY <1>5, <2>1, <2>2 DEF Dispatch
  <1>6. CASE RawData \/ RawFill \/ RawPut \/ AgingData \/ AgingPut
    BY <1>1, <1>6 DEF RawData, RawFill, RawPut, AgingData, AgingPut
  <1>7. CASE MpStatusFails \/ MpBegin \/ MpReset \/ MpData \/ MpPut \/ MpSkip \/ MpAfter
    BY <1>1, <1>7 DEF MpStatusFails, MpBegin, MpReset, MpData, MpPut, MpSkip, MpAfter
  <1>8. CASE Out
    BY <1>8 DEF Out, chipVars
  <1> QED
    BY <1>2, <1>3, <1>4, <1>5, <1>6, <1>7, <1>8 DEF Handler

(* Every step keeps what is owed to a frame.                                *)
LEMMA AnswerStep ==
    ASSUME TypeOK, Core, UpdateInv, AnswerOwed, [Next]_vars
    PROVE  AnswerOwed'
  <1>1. CASE UNCHANGED vars
    BY <1>1 DEF AnswerOwed, vars, chipVars
  <1>2. CASE Frame
    BY <1>2 DEF Frame, AnswerOwed
  <1>3. ASSUME NEW p \in Procs, NEW k \in Kind, Call(p, k) PROVE AnswerOwed'
    BY <1>3 DEF Call, AnswerOwed, chipVars, handlerVars
  <1>4. ASSUME NEW p \in Procs, Step(p) PROVE AnswerOwed'
    BY <1>4, AnswerProcSteps
  <1>5. CASE Handler
    BY <1>5, AnswerHandlerSteps
  <1> QED
    BY <1>1, <1>2, <1>3, <1>4, <1>5 DEF Next

(* No order of calls and handler loses a frame's edge: INT is low only with *)
(* an edge to come, the handler at the frame, or its last write failed.     *)
THEOREM AnswerOwedCorrect == Spec => []AnswerOwed
  <1>1. Init => UpdateInv /\ AnswerOwed
    BY DEF Init, UpdateInv, AnswerOwed
  <1>2. WorkInv /\ UpdateInv /\ AnswerOwed /\ [Next]_vars => (UpdateInv /\ AnswerOwed)'
    BY UpdateStep, AnswerStep DEF WorkInv
  <1> QED
    BY <1>1, <1>2, WorkCorrect, PTL DEF Spec
=============================================================================
