------------------------------ MODULE MCClient ------------------------------
(* Client on small instances. *)
EXTENDS Client, TLC

CONSTANTS c1, c2

CallOf(pieces, kind, size) == [pieces |-> pieces, kind |-> kind, size |-> size]

\* write buffers of 4 bytes: requests that fit, or that are flushed on the way
Small  == CallOf(<<1, 1>>, "value", 2)
NoRtn  == CallOf(<<1>>, "nortn", 0)
Failing == CallOf(<<1, 2>>, "error", 1)
Longer == CallOf(<<2, 3, 1>>, "value", 1)
Exact  == CallOf(<<1, 3>>, "value", 3)
\* the last argument, or the response, does not fit into a write buffer
BigArg  == CallOf(<<1, 4>>, "value", 1)
BigResp == CallOf(<<1>>, "value", 4)

OnlyC1 == {c1}
Both   == {c1, c2}
MixedCalls == [t \in Both |-> IF t = c1 THEN <<Exact, Small, BigResp, NoRtn>> ELSE <<Longer, Failing, BigArg>>]
BigCalls   == [t \in OnlyC1 |-> <<Small, BigArg>>]
=============================================================================
