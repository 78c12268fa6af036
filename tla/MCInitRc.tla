------------------------------- MODULE MCInitRc -------------------------------
(* A built-in text of two units; InitRc on files and module texts of every  *)
(* length up to two and reads of up to four.                                *)
EXTENDS InitRc
=============================================================================
