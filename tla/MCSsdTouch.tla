----------------------------- MODULE MCSsdTouch -----------------------------
(* Small instances of SsdTouch. Two slots; ids 0 and 1 have a slot, id 2 is *)
(* a finger id without one, id 3 is a key record.                           *)
EXTENDS SsdTouch

MCRecord(i, d) == [id |-> i, down |-> d]

(* A touch and its release, one finger of two released, a key record, an id *)
(* without a slot and one record too many.                                  *)
MCFrames ==
    { <<MCRecord(0, TRUE)>>,
      <<MCRecord(0, FALSE)>>,
      <<MCRecord(1, TRUE), MCRecord(0, FALSE)>>,
      <<MCRecord(1, TRUE), MCRecord(3, TRUE)>>,
      <<MCRecord(0, TRUE), MCRecord(2, FALSE)>>,
      <<MCRecord(0, TRUE), MCRecord(1, TRUE), MCRecord(3, FALSE)>> }

MCFramesSmall == { <<MCRecord(0, TRUE)>>, <<MCRecord(0, FALSE)>> }

(* Resolution words of a live MCU, with and without garbage.                *)
MCXAny == {0, 1080}
MCYAny == {2160, 65535}
MCXLive == {1080}
MCYLive == {2160}
=============================================================================
