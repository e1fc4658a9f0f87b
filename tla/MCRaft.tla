------------------------------- MODULE MCRaft -------------------------------
(* Instances of Raft for TLC. *)
EXTENDS RaftProperties

CONSTANTS s1, s2, s3, a

(* Servers that start for the first time. *)
Fresh == [s \in Server |-> [currentTerm |-> 0, votedFor |-> Nil, log |-> <<Dummy>>]]

(* s1 led term 1 and kept an entry to itself; s2 had opened an election in
   term 2 when it stopped. *)
Longer == [s \in Server |->
  [currentTerm |-> IF s = s2 THEN 2 ELSE 1,
   votedFor |-> IF s = s2 THEN s2 ELSE s1,
   log |-> IF s = s1 THEN <<Dummy, [term |-> 1, command |-> a]>> ELSE <<Dummy>>]]

(* s2 had opened an election in term 1 when it stopped; nobody heard of it. *)
Behind == [s \in Server |->
  [currentTerm |-> IF s = s2 THEN 1 ELSE 0,
   votedFor |-> IF s = s2 THEN s2 ELSE Nil,
   log |-> <<Dummy>>]]

RivalTerms == [s \in Server |-> IF s = s1 THEN 2 ELSE IF s = s2 THEN 3 ELSE 0]
Term1 == [s \in Server |-> 1]
TwoRivals == [s \in Server |-> IF s = s3 THEN 0 ELSE 2]
OnlyS1 == [s \in Server |-> IF s = s1 THEN 2 ELSE 0]
=============================================================================
