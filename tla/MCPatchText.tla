----------------------------- MODULE MCPatchText -----------------------------
(***************************************************************************)
(* Instances of PatchText: three CPUs, two words, two contents.            *)
(***************************************************************************)
EXTENDS PatchText
=============================================================================
