--------------------------- MODULE MCEventLoopThread ---------------------------
(* Small instances of EventLoopThread. *)
EXTENDS EventLoopThread
=============================================================================
