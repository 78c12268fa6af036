---------------------------- MODULE MCLoadPolicy ----------------------------
(***************************************************************************)
(* A small instance of LoadPolicy: two targets of the same domain, so that *)
(* their needs overlap, each with a rule the boot policy already allows.   *)
(***************************************************************************)
EXTENDS LoadPolicy

CONSTANTS n1, n2, shared, own1, boot

MCNeeds == [p \in Procs |-> IF p = n1 THEN {shared, own1, boot} ELSE {shared, boot}]
MCBoot == {boot}
=============================================================================
