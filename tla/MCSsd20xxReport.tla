-------------------------- MODULE MCSsd20xxReport --------------------------
(* Two fingers and one key; every step of a recovery may follow another     *)
(* recovery, a suspend, a change of the touch mode or a failed transfer.    *)
EXTENDS Ssd20xxReport

MCIds == 1..2
MCKeys == {3}
=============================================================================
