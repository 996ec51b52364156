---------------------------- MODULE FlashUpdate ----------------------------
(* What a firmware update of the touch controller promises, whatever the    *)
(* path it takes: the flash changes only while an update runs (or while the *)
(* chip finishes what a failed one started), an update that reports success *)
(* leaves the whole image in the flash, and every update ends.              *)
CONSTANTS Contents,     \* what the flash may hold
          Image         \* the content a complete update leaves

VARIABLES content,      \* what the flash holds
          outcome       \* "idle", "running", or how the last update ended

vars == <<content, outcome>>

Outcomes == {"idle", "running", "ok", "failed", "refused"}

TypeOK == content \in Contents /\ outcome \in Outcomes

Init == content \in Contents /\ outcome = "idle"

Begin == outcome # "running" /\ outcome' = "running" /\ UNCHANGED content

(* A file that does not parse is refused before the flash is touched.       *)
Refuse == outcome # "running" /\ outcome' = "refused" /\ UNCHANGED content

Write == /\ outcome \in {"running", "failed"}
         /\ content' \in Contents
         /\ UNCHANGED outcome

Succeed == /\ outcome = "running"
           /\ content = Image
           /\ outcome' = "ok"
           /\ UNCHANGED content

Fail == outcome = "running" /\ outcome' = "failed" /\ UNCHANGED content

Next == Begin \/ Refuse \/ Write \/ Succeed \/ Fail

Fairness == WF_vars(Succeed \/ Fail)

(* What it may do, and that it ends.                                        *)
Safety == Init /\ [][Next]_vars

Spec == Safety /\ Fairness
=============================================================================
