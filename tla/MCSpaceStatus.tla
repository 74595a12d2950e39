---------------------------- MODULE MCSpaceStatus ----------------------------
(* Small instances of SpaceStatus: an account "a" with a tech space, regular  *)
(* spaces and, in some runs, a second account.                                *)
EXTENDS SpaceStatus, TLC

CONSTANTS t, r1, r2, a, b, w1, w2

MCTypeOf == [s \in Spaces |-> IF s = t THEN "tech" ELSE "regular"]

\* Every space was signed by a; b gets one through its ACL.
MCSigners == [s \in Spaces |-> {a}]

\* One in the future, one so far back that the deadline is negative.
MCPeriods == {2, -9}

SymmetricWorkers == Permutations(Workers)

=============================================================================
