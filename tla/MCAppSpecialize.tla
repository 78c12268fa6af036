--------------------------- MODULE MCAppSpecialize ---------------------------
(* Two modules, one of a recent API and one of the first; a zygote and the   *)
(* processes it forks, one of which may be a child zygote.                   *)
EXTENDS AppSpecialize

CONSTANTS a, b

MCOrder == <<a, b>>
MCVersion == (a :> 5) @@ (b :> 1)

\* On the denylist in mode 0 is as good as plain, so the child zygote and the
\* pooled process are always on it.
Req(kind, uid, cz) == [kind |-> kind, uid |-> uid, cz |-> cz]
MCRequests == {Req("app", "plain", FALSE), Req("app", "denied", FALSE),
               Req("app", "isolated", FALSE), Req("app", "denied", TRUE),
               Req("usap", "denied", FALSE), Req("usap", "plain", TRUE)}

\* Every method moved; one of them only through the native table, and no pool.
Moved == [m \in Methods |-> "inline"]
MCLayouts == {Moved, [Moved EXCEPT !["fork"] = "table", !["usap"] = "absent"]}
=============================================================================
