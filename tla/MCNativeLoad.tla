---------------------------- MODULE MCNativeLoad ----------------------------
(* Two modules: one has two lines for the process, one of them with a        *)
(* companion; the other has one for it and one for somebody else.            *)
EXTENDS NativeLoad

CONSTANTS a, b, f, g, p1, p2

L(id, here, comp) == [id |-> id, here |-> here, comp |-> comp]
MCLists == {<<L(a, TRUE, TRUE), L(b, FALSE, FALSE), L(b, TRUE, TRUE)>>,
            <<L(b, TRUE, TRUE), L(a, TRUE, TRUE), L(a, TRUE, FALSE)>>}

\* g begins in the page after f's.
MCPageOf == [x \in Funs |-> IF x = f THEN 0 ELSE 1]
=============================================================================
