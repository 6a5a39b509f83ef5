---------------------------- MODULE MCRemoteJob ----------------------------
(***************************************************************************)
(* An instance of RemoteJob for TLC, with every disturbance.               *)
(***************************************************************************)
EXTENDS RemoteJob

All == {"reply", "request", "reset", "crash", "cancel", "no", "unavailable", "fail"}
=============================================================================
