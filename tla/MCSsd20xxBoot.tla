--------------------------- MODULE MCSsd20xxBoot ---------------------------
(* The flash holds an older, the same or a newer version than the files, a  *)
(* factory version, another product, nothing, or an update that was cut     *)
(* short; the files are the header alone, the header and a newer file, or a *)
(* file that forces an older version.                                       *)
EXTENDS Ssd20xxBoot

CONSTANT absent

MCVersion(display, hidden) == [product |-> 1, display |-> display, hidden |-> hidden]

Header == MCVersion(2, 1)
MCFlashes ==
    { [version |-> v, whole |-> TRUE] :
        v \in {MCVersion(1, 3), Header, MCVersion(2, 2), MCVersion(0, 1),
               MCVersion(3, Factory), [Header EXCEPT !.product = 2, !.display = 1]} }
    \union { [version |-> v, whole |-> FALSE] : v \in {NoVersion, Header} }

MCFileSets ==
    { [force |-> absent, fw |-> absent, header |-> Header],
      [force |-> absent, fw |-> MCVersion(2, 2), header |-> Header],
      [force |-> MCVersion(1, 1), fw |-> absent, header |-> Header] }
=============================================================================
