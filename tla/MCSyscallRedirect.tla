-------------------------- MODULE MCSyscallRedirect --------------------------
(* init and one task it forks, which becomes a zygote or a service.           *)
EXTENDS SyscallRedirect
CONSTANTS init, child
=============================================================================
