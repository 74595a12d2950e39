---------------------------- MODULE SpaceLifecycle ----------------------------
(****************************************************************************)
(* What the coordinator promises about a space, without transactions, ids   *)
(* or clocks: a space is in one phase of its life, sets of spaces move      *)
(* between phases in single steps, and a reader of the deletion log is told *)
(* of every move as it happens, and of nothing else.                        *)
(****************************************************************************)
CONSTANTS Spaces, LegacySpaces

VARIABLES phase, announced

Moves == {<<"created", "pending">>, <<"pending", "created">>,
          <<"pending", "deleted">>, <<"deleted", "created">>}

Moved == {"created", "pending", "deleted"}

\* "silent": the log says nothing of the space.
Init ==
    /\ phase \in [Spaces -> {"absent", "created", "pending"}]
    /\ \A s \in Spaces : phase[s] # "absent" => s \in LegacySpaces
    /\ announced = [s \in Spaces |-> "silent"]

\* A new space is registered; that is not announced.
Register(s) ==
    /\ phase[s] = "absent"
    /\ phase' = [phase EXCEPT ![s] = "created"]
    /\ UNCHANGED announced

Move(S, from, to) ==
    /\ <<from, to>> \in Moves
    /\ \A s \in S : phase[s] = from
    /\ phase' = [s \in Spaces |-> IF s \in S THEN to ELSE phase[s]]
    /\ announced' = [s \in Spaces |-> IF s \in S THEN to ELSE announced[s]]

Next ==
    \/ \E s \in Spaces : Register(s)
    \/ \E S \in SUBSET Spaces, from, to \in Moved : Move(S, from, to)

Spec == Init /\ [][Next]_<<phase, announced>>

=============================================================================
