------------------------------ MODULE TermVote ------------------------------
(***************************************************************************)
(* What a Raft server promises about its term and its vote, whatever       *)
(* happens to the messages and however often it crashes: the term only     *)
(* grows, and within one term the vote is cast at most once and never      *)
(* withdrawn.  Raft.tla implements this with currentTerm and votedFor.     *)
(***************************************************************************)
EXTENDS Naturals

CONSTANTS Server,   \* the servers
          Nil       \* no vote

VARIABLES term, vote

tvVars == <<term, vote>>

TypeOK == /\ term \in [Server -> Nat]
          /\ vote \in [Server -> Server \cup {Nil}]

Init == TypeOK

(***************************************************************************)
(* Enter a newer term, with or without a vote in it.                       *)
(***************************************************************************)
Raise(s) ==
  /\ term'[s] > term[s]
  /\ term' = [term EXCEPT ![s] = term'[s]]
  /\ vote' = [vote EXCEPT ![s] = vote'[s]]

(***************************************************************************)
(* Vote in the current term, in which no vote was cast yet.                *)
(***************************************************************************)
Cast(s) ==
  /\ vote[s] = Nil
  /\ vote' = [vote EXCEPT ![s] = vote'[s]]
  /\ UNCHANGED term

Next == /\ \E s \in Server : Raise(s) \/ Cast(s)
        /\ TypeOK'

Spec == Init /\ [][Next]_tvVars

=============================================================================
