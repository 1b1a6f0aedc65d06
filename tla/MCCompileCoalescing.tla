------------------------ MODULE MCCompileCoalescing ------------------------
(* CompileCoalescing for TLC: two documents of one preview session.        *)
EXTENDS CompileCoalescing

CONSTANTS k1, k2, s1, OfFirst, OfSecond

MCRequests == OfFirst \cup OfSecond
MCKeys == {k1, k2}
MCSessions == {s1}
MCKeyOf == [r \in MCRequests |-> IF r \in OfFirst THEN k1 ELSE k2]
MCSessionOf == [k \in MCKeys |-> s1]
=============================================================================
