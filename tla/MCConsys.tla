----------------------------- MODULE MCConsys -----------------------------
(* A small instance of Consys: a firmware file of three fragments and one    *)
(* of a single fragment, which may be missing or have no body; as few        *)
(* reg-writes per script as keep first, middle and last apart.               *)
EXTENDS Consys

MCFrags == <<3, 1>>
SecondFile == {2}
=============================================================================
