-------------------------- MODULE MCZygoteLifecycle --------------------------
(***************************************************************************)
(* Small instances of ZygoteLifecycle: two pids that may be used twice.    *)
(***************************************************************************)
EXTENDS ZygoteLifecycle
=============================================================================
