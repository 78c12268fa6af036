----------------------------- MODULE RuleLeases -----------------------------
(***************************************************************************)
(* What the kernel module promises about the SELinux rules it adds while a *)
(* native target loads its injected libraries: a rule is added only on a   *)
(* lease, a lease covers only rules that were not allowed before, no rule  *)
(* is covered by two leases, and ending a lease takes away exactly what it *)
(* covers.  LoadPolicy is the code that implements it.                     *)
(***************************************************************************)
CONSTANTS Rules, BootPolicy

VARIABLES policy,    \* the allow rules of the policy in force
          leases,    \* the sets of rules on lease
          explicit   \* the rules allowed for good: boot policy, later grants,
                     \* and leases that could not be taken back

vars == <<policy, leases, explicit>>

Init == policy = BootPolicy /\ leases = {} /\ explicit = BootPolicy

\* A lease adds rules that were missing.
Take(S) ==
  /\ S # {} /\ S \cap policy = {}
  /\ policy' = policy \cup S
  /\ leases' = leases \cup {S}
  /\ UNCHANGED explicit

\* A lease ends: its rules, and no others, leave the policy.
Release(S) ==
  /\ S \in leases
  /\ leases' = leases \ {S}
  /\ policy' = policy \ S
  /\ UNCHANGED explicit

\* A lease ends, but the policy could not be changed: its rules stay.
Forfeit(S) ==
  /\ S \in leases
  /\ leases' = leases \ {S}
  /\ explicit' = explicit \cup S
  /\ UNCHANGED policy

\* Somebody allows rules for good.
Grant(S) ==
  /\ policy' = policy \cup S
  /\ explicit' = explicit \cup S
  /\ UNCHANGED leases

Next == \E S \in SUBSET Rules : Take(S) \/ Release(S) \/ Forfeit(S) \/ Grant(S)

Spec == Init /\ [][Next]_vars
=============================================================================
