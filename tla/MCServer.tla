------------------------------ MODULE MCServer ------------------------------
(* Server on small instances. *)
EXTENDS Server, TLC

CONSTANTS w1, w2, c1, c2

\* honest connections are interchangeable only with honest ones
Symmetry == Permutations({w1, w2})

OneTalks == [c \in Conns |-> IF c = c1 THEN MaxReqs ELSE 0]

\* one response goes past the write buffer: the last one
LastLarge == {<<c1, MaxReqs>>}

\* descriptor numbers
OneFd  == {4}
TwoFds == {4, 5}
=============================================================================
