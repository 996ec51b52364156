------------------------------ MODULE RawQueue ------------------------------
(* The ring of raw-data frames between the touch handler, which fills the   *)
(* slot behind queue_rear, and user space, which copies the one behind      *)
(* queue_front (ssd20xx.c).  Neither takes a lock: one slot is always left  *)
(* unused, so that the ends do not meet.                                    *)
EXTENDS Naturals

CONSTANT QueueSize      \* SOLOMON_MAX_RAWDATA_QUEUE

ASSUME QueueAssumption == QueueSize \in Nat \ {0, 1}

VARIABLES queue_front, queue_rear

queue == <<queue_front, queue_rear>>

Slots == 0..QueueSize - 1
Succ(i) == (i + 1) % QueueSize

(* One slot stays free between the newest frame and the oldest.             *)
Full == Succ(queue_rear) = queue_front
Empty == queue_front = queue_rear

(* get_rear_queue_buff() and get_front_queue_buff(), where they find one.   *)
RearSlot == Succ(queue_rear)
FrontSlot == Succ(queue_front)

(* put_queue() and get_queue() end a transfer: the index moves, if the ring *)
(* still has the room or the frame.                                         *)
Put == /\ queue_rear' = IF Full THEN queue_rear ELSE Succ(queue_rear)
       /\ UNCHANGED queue_front

Get == /\ queue_front' = IF Empty THEN queue_front ELSE Succ(queue_front)
       /\ UNCHANGED queue_rear

Clear == queue_front' = 0 /\ queue_rear' = 0

QueueInit == queue_front = 0 /\ queue_rear = 0

QueueTypeOK == queue_front \in Slots /\ queue_rear \in Slots
=============================================================================
