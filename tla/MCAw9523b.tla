----------------------------- MODULE MCAw9523b -----------------------------
(* Small instances of Aw9523b. For the interrupts, port 0 holds one or two  *)
(* row lines and port 1 a column line; for the directions, two column lines *)
(* share port 1.                                                            *)
EXTENDS Aw9523b

CONSTANTS r0, r1, c0, c1

NoLines == {}
Row0 == {r0}
Rows == {r0, r1}
Column0 == {c0}
Columns == {c0, c1}
RowAndColumn == {r0, c0}

(* After a reset every pin is an output; the latches come up either way.    *)
MCReset == { [r \in Regs |-> IF r = "CFG" THEN {} ELSE out] : out \in {{}, Lines} }
=============================================================================
