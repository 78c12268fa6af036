--------------------------- MODULE MCModuleLinker ---------------------------
(* Three kinds of libraries, two identifiers and room for two images, so     *)
(* that both tables are full with the third opening.  One thread besides the *)
(* loader's: threads share nothing but the key.                              *)
EXTENDS ModuleLinker

CONSTANTS l1, l2, l3, libc, t1

MCNeeds == [l \in Libs |-> {libc}]
=============================================================================
