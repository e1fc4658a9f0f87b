--------------------------- MODULE RaftProperties ---------------------------
(***************************************************************************)
(* What a cluster of Raft peers does, and what its tests expect of it.     *)
(***************************************************************************)
EXTENDS Raft

(***************************************************************************)
(* Whenever rf.mu is free, the persister holds the term, the vote and the  *)
(* log that are in memory: a crash at any point loses nothing that another *)
(* server may have been told.                                              *)
(***************************************************************************)
PersistedIsCurrent ==
  \A s \in Server :
    disk[s] = [currentTerm |-> currentTerm[s], votedFor |-> votedFor[s], log |-> log[s]]

(***************************************************************************)
(* A granted vote that is still on its way binds the voter, through        *)
(* crashes and restarts: until it has left the term it was asked in, its   *)
(* vote is for the server that asked.                                      *)
(***************************************************************************)
VoteDurable ==
  \A c \in BagToSet(calls) :
    c.kind = "RequestVoteReply" /\ c.voteGranted =>
      \/ currentTerm[c.dst] > c.asked
      \/ currentTerm[c.dst] = c.asked /\ votedFor[c.dst] = c.src

(***************************************************************************)
(* The terms of a log, and of a log with the entries of a request behind   *)
(* its PrevLogTerm, never go down and never pass the current term (of the  *)
(* request, its Term): reordered and repeated AppendEntries may cut a log  *)
(* but never mix it up.                                                    *)
(***************************************************************************)
LogTermsOrdered ==
  /\ \A s \in Server :
       /\ log[s] # <<>> /\ log[s][1] = Dummy
       /\ Ordered(log[s])
       /\ \A i \in DOMAIN log[s] : log[s][i].term <= currentTerm[s]
  /\ \A c \in BagToSet(calls) :
       c.kind = "AppendEntries" =>
         /\ Ordered(c.entries)
         /\ c.prevLogTerm <= c.term
         /\ \A i \in DOMAIN c.entries :
              c.prevLogTerm <= c.entries[i].term /\ c.entries[i].term <= c.term

(***************************************************************************)
(* No server ever commits or applies an entry, and no leader announces a   *)
(* commit: sendAppendEntries reaches updateIndexesAndCommit only after it  *)
(* has made the server a follower, and then returns.                       *)
(***************************************************************************)
NothingCommitted ==
  /\ \A s \in Server : commitIndex[s] = 0 /\ lastApplied[s] = 0
  /\ \A c \in BagToSet(calls) : c.kind = "AppendEntries" => c.leaderCommit = 0

(***************************************************************************)
(* Terms and votes behave as TermVote says, restarts included.             *)
(***************************************************************************)
TV == INSTANCE TermVote WITH term <- currentTerm, vote <- votedFor
TermVoteSpec == TV!Spec

(***************************************************************************)
(* config.go checkOneLeader: "term %d has %d (>1) leaders" is a failure.   *)
(***************************************************************************)
ElectionSafety ==
  \A s, p \in Server :
    state[s] = Leader /\ state[p] = Leader /\ currentTerm[s] = currentTerm[p] => s = p

(***************************************************************************)
(* s is the leader and every other server follows it in its term.  (A      *)
(* server at "Candidate" is about to open an election; only MaxTerm can    *)
(* keep it there.)                                                         *)
(***************************************************************************)
Reigns(s) ==
  /\ Alive(s) /\ state[s] = Leader
  /\ \A p \in Server \ {s} :
       /\ pc[p] \notin {"Candidate", "dead"}
       /\ state[p] = Follower /\ currentTerm[p] = currentTerm[s]

(***************************************************************************)
(* p's log reaches and agrees with the entry that s sends before all       *)
(* others.                                                                 *)
(***************************************************************************)
Fits(p, s) ==
  LET next == nextIndex[s][p]
  IN  next <= Len(log[s]) /\ next <= Len(log[p]) /\ log[p][next].term = log[s][next].term

(***************************************************************************)
(* Replication: a follower whose log fits the log of a leader that stays   *)
(* ends up with that log and keeps it, though its AppendEntries may be     *)
(* lost and overtake each other and an overtaken one cuts the log again.   *)
(***************************************************************************)
Converges ==
  \A s \in Server : \A p \in Server \ {s} :
    <>[](Reigns(s) /\ Fits(p, s)) => <>[](log[p] = log[s])

(***************************************************************************)
(* TestBasicAgree2B, and config.go one(), "failed to reach agreement":     *)
(* under a leader that stays and has an entry, somebody applies an entry.  *)
(***************************************************************************)
AgreementReached ==
  \A s \in Server :
    <>[](Reigns(s) /\ Len(log[s]) > 1) => <>(\E p \in Server : lastApplied[p] > 0)
=============================================================================
