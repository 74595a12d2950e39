---------------------------- MODULE MCAclRecords ----------------------------
(* Small instances of AclRecords: a regular space signed by "a", which "b"    *)
(* may join and take over.                                                    *)
EXTENDS AclRecords, TLC

CONSTANTS r1, a, b, h1, h2

MCTypeOf == [s \in Spaces |-> "regular"]

MCSigners == [s \in Spaces |-> {a}]

SymmetricHandlers == Permutations(Handlers)

=============================================================================
