------------------------------ MODULE MCZygiskd ------------------------------
(* A small instance: two modules, two uids, and configurations with the       *)
(* filter off, with one module granted, and with one module granted to one    *)
(* uid only.                                                                  *)
EXTENDS Zygiskd

CONSTANTS a, b, u1, u2, p1, p2

MCOrder == <<a, b>>
MCUidOf == (p1 :> u1) @@ (p2 :> u2)
MCUidOne == p1 :> u1

Absent == [kind |-> "absent", uids |-> {}]
Star == [kind |-> "star", uids |-> {}]
Only(u) == [kind |-> "list", uids |-> {u}]

Open == [filter |-> FALSE, granted |-> {}, scopes |-> [m \in Mods |-> Absent]]
OnlyB == [filter |-> TRUE, granted |-> {b}, scopes |-> [m \in Mods |-> Absent]]
Scoped == [filter |-> TRUE, granted |-> {a, b},
           scopes |-> (a :> Only(u2)) @@ (b :> Star)]
MCConfigs == {Open, OnlyB, Scoped}
=============================================================================
