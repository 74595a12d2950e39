---------------------------- MODULE MCDeletionLog ----------------------------
(* A small instance of DeletionLog: two spaces of account "a", whose ACLs may *)
(* name "b" as the new owner, and a reader with pages of one or two records.  *)
EXTENDS DeletionLog, TLC

CONSTANTS r1, r2, a, b, w1, w2

MCTypeOf == [s \in Spaces |-> "regular"]

MCSigners == [s \in Spaces |-> {a}]

MCRank == [s \in Spaces |-> IF s = r1 THEN 0 ELSE 1]

SymmetricWorkers == Permutations(Workers)

=============================================================================
