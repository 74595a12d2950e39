------------------------------- MODULE MCInbox -------------------------------
(* Small instances of Inbox: account a with a peer that subscribes twice, and,  *)
(* in some runs, a second peer.                                                 *)
EXTENDS Inbox, TLC

CONSTANTS a, k1, k2, s1, s2, s3

MCAccountOf == [k \in Keys |-> a]

MCKeyOf == [s \in Streams |-> IF s = s3 THEN k2 ELSE k1]

=============================================================================
