--------------------------- MODULE MCSsd20xxWork ---------------------------
(* Two processes, a test application, the only reader of raw data, and an   *)
(* update tool; a ring of two slots, of which one may hold a frame.         *)
(* QUEUE_CLEAR is the first step of the sysfs mptest, and not called alone. *)
EXTENDS Ssd20xxWork

CONSTANTS app, tool

MCKinds == [p \in Procs |->
    IF p = app
    THEN {"mode", "mp_start", "stop_later", "get_raw", "mode_read", "reg"}
    ELSE {"mptest", "mp_stop", "download", "update", "reset"}]
=============================================================================
