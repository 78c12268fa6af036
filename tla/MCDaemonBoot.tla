---------------------------- MODULE MCDaemonBoot ----------------------------
(* DaemonBoot with a zygisk implementation among the modules, one module    *)
(* that manages the feature, and two boots.                                  *)
EXTENDS DaemonBoot
=============================================================================
