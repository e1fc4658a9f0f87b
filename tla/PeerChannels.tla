---------------------------- MODULE PeerChannels ----------------------------
(***************************************************************************)
(* The channels of one Raft peer, trab2/raft/raft.go.  A handler that      *)
(* sends on a full channel waits, and rf.mu is held while it waits; only   *)
(* stateLoop receives, and it takes rf.mu between any two receives.  The   *)
(* terms and logs of Raft are reduced to what they make a handler do.      *)
(***************************************************************************)
EXTENDS Integers

CONSTANTS
  Peers,    \* how many peers there are
  Size,     \* DefaultChannelBufferSize
  Answers,  \* bound: answers to vote requests under way, those above are lost
  Calls,    \* the calls of other peers that are looked at
  Counted   \* bound: up to where the histories count

ASSUME PeersAssumption == Peers \in Nat \ {0} /\ Size \in Nat /\ Answers \in Nat /\ Counted \in Nat
ASSUME CallsAssumption == Calls \subseteq {"RequestVote", "AppendEntries"}

VARIABLES
  state,      \* of the peer
  votes,
  chan,       \* how many tokens are in each channel
  holder,     \* the channel on which the goroutine that holds rf.mu waits to send
  loop,       \* where stateLoop is
  answers,    \* answers to sendRequestVote under way
  requested,  \* history: vote requests sent
  called      \* history: calls that left a token

vars == <<state, votes, chan, holder, loop, answers, requested, called>>

Channel == {"requestVoteReplied", "winner", "appendEntriesRec"}

Capped(n, bound) == IF n < bound THEN n ELSE bound

Init ==
  /\ state = "Follower" /\ votes = 0
  /\ chan = [c \in Channel |-> 0]
  /\ holder = "none"
  /\ loop = "top"
  /\ answers = 0 /\ requested = 0 /\ called = 0

-----------------------------------------------------------------------------
(* Sends that nobody waits for with rf.mu in hand: room, or the channel is taken. *)
SendOneMore(c) ==                                    \* mutant
  IF chan[c] <= Size
  THEN chan' = [chan EXCEPT ![c] = @ + 1] /\ UNCHANGED holder
  ELSE holder' = c /\ UNCHANGED chan

SendOneLess(c) ==                                    \* mutant
  IF chan[c] + 1 < Size
  THEN chan' = [chan EXCEPT ![c] = @ + 1] /\ UNCHANGED holder
  ELSE holder' = c /\ UNCHANGED chan

Send(c) ==
  IF chan[c] < Size
  THEN chan' = [chan EXCEPT ![c] = @ + 1] /\ UNCHANGED holder
  ELSE holder' = c /\ UNCHANGED chan

Receive(c) == chan[c] > 0 /\ chan' = [chan EXCEPT ![c] = @ - 1]

(* rf.mu is free: critical sections that send nothing are single steps. *)
Lock == holder = "none"

(* The send goes through; AppendEntries follows a higher term only after it. *)
Unblock ==
  /\ ~Lock /\ chan[holder] < Size
  /\ chan' = [chan EXCEPT ![holder] = @ + 1]
  /\ holder' = "none"
  /\ state' \in IF holder = "appendEntriesRec" THEN {state, "Follower"} ELSE {state}
  /\ UNCHANGED <<votes, loop, answers, requested, called>>

-----------------------------------------------------------------------------
(* stateLoop.  A time-out may come at any moment. *)
ReadState ==
  /\ loop \in {"top", "expired"} /\ Lock
  /\ loop' = [Follower |-> "follower", Candidate |-> "candidate", Leader |-> "leader"][state]
  /\ UNCHANGED <<state, votes, chan, holder, answers, requested, called>>

doAsFollowerUntimed ==                               \* mutant
  /\ loop = "follower"
  /\ Receive("requestVoteReplied") \/ Receive("appendEntriesRec")
  /\ loop' = "top"
  /\ UNCHANGED <<state, votes, holder, answers, requested, called>>

doAsFollower ==
  /\ loop = "follower"
  /\ \/ /\ Receive("requestVoteReplied") \/ Receive("appendEntriesRec")
        /\ loop' = "top"
     \/ loop' = "timeout" /\ UNCHANGED chan
  /\ UNCHANGED <<state, votes, holder, answers, requested, called>>

FollowerTimeout ==
  /\ loop = "timeout" /\ Lock
  /\ state' = "Candidate" /\ loop' = "top"
  /\ UNCHANGED <<votes, chan, holder, answers, requested, called>>

(* The vote requests go out; a goroutine for each waits for the answer. *)
StartElection ==
  /\ loop = "candidate" /\ Lock
  /\ votes' = 1 /\ loop' = "select"
  /\ answers' = Capped(answers + (Peers - 1), Answers)
  /\ requested' = Capped(requested + (Peers - 1), Counted)
  /\ UNCHANGED <<state, chan, holder, called>>

(* A candidate that hears of a leader sets its state without rf.mu. *)
doAsCandidate ==
  /\ loop = "select"
  /\ \/ /\ Receive("winner")
        /\ loop' = "won" /\ UNCHANGED state
     \/ /\ Receive("appendEntriesRec")
        /\ state' = "Follower" /\ loop' = "top"
     \/ loop' = "expired" /\ UNCHANGED <<chan, state>>
  /\ UNCHANGED <<votes, holder, answers, requested, called>>

becomeLeader ==
  /\ loop = "won" /\ Lock
  /\ state' = "Leader" /\ loop' = "top"
  /\ UNCHANGED <<votes, chan, holder, answers, requested, called>>

doAsLeader ==
  /\ loop = "leader" /\ loop' = "top"
  /\ UNCHANGED <<state, votes, chan, holder, answers, requested, called>>

-----------------------------------------------------------------------------
(***************************************************************************)
(* A vote is granted in a higher term, which is followed, or in a term in  *)
(* which this peer has given none to another.  A candidate in its election *)
(* has given it to itself.                                                 *)
(***************************************************************************)
RequestVote ==
  /\ "RequestVote" \in Calls /\ Lock
  /\ state' \in {state, "Follower"}
  /\ (state = "Candidate" /\ loop = "select") => state' = "Follower"
  /\ Send("requestVoteReplied")
  /\ called' = Capped(called + 1, Counted)
  /\ UNCHANGED <<votes, loop, answers, requested>>

(* The term is checked, and the token sent, before a higher term is followed. *)
AppendEntries ==
  /\ "AppendEntries" \in Calls /\ Lock
  /\ Send("appendEntriesRec")
  /\ state' \in IF holder' = "none" THEN {state, "Follower"} ELSE {state}
  /\ called' = Capped(called + 1, Counted)
  /\ UNCHANGED <<votes, loop, answers, requested>>

(* A higher term, in a call that grants nothing or in any answer. *)
HigherTerm ==
  /\ Lock /\ state # "Follower" /\ state' = "Follower"
  /\ UNCHANGED <<votes, chan, holder, loop, answers, requested, called>>

(* A granted vote counts for the election that is on, and past the majority is a token. *)
VoteGranted ==
  /\ answers > 0 /\ answers' = answers - 1
  /\ Lock /\ state = "Candidate"
  /\ votes' = votes + 1
  /\ IF votes' > Peers \div 2 THEN Send("winner") ELSE UNCHANGED <<chan, holder>>
  /\ UNCHANGED <<state, loop, requested, called>>

(* The vote is denied, or the call is lost, or the peer is no candidate any more. *)
NoVote ==
  /\ answers > 0 /\ answers' = answers - 1
  /\ Lock
  /\ UNCHANGED <<state, votes, chan, holder, loop, requested, called>>

-----------------------------------------------------------------------------
stateLoop ==
  \/ ReadState \/ doAsFollower \/ FollowerTimeout
  \/ StartElection \/ doAsCandidate \/ becomeLeader \/ doAsLeader

Handler == RequestVote \/ AppendEntries \/ HigherTerm \/ VoteGranted \/ NoVote

Next == stateLoop \/ Handler \/ Unblock

Spec == Init /\ [][Next]_vars

(***************************************************************************)
(* Go runs every goroutine that can run, and a Mutex lets the goroutine    *)
(* that has waited longest have it: stateLoop gets rf.mu if it is free     *)
(* again and again.                                                        *)
(***************************************************************************)
FairSpec == Spec /\ SF_vars(stateLoop) /\ WF_vars(Unblock)

-----------------------------------------------------------------------------
TypeOK ==
  /\ state \in {"Follower", "Candidate", "Leader"}
  /\ votes \in Nat
  /\ chan \in [Channel -> 0 .. Size]
  /\ holder \in Channel \cup {"none"}
  /\ loop \in {"top", "expired", "follower", "timeout", "candidate", "select", "won", "leader"}
  /\ answers \in 0 .. Answers /\ requested \in 0 .. Counted /\ called \in 0 .. Counted

(***************************************************************************)
(* A goroutine waits with rf.mu in hand only after more calls, or vote     *)
(* requests, than a channel has room for, over the life of the peer.       *)
(***************************************************************************)
RoomEnough ==
  /\ requested < Counted /\ requested <= Size => holder # "winner"
  /\ called < Counted /\ called <= Size => holder \notin {"requestVoteReplied", "appendEntriesRec"}

(***************************************************************************)
(* stateLoop goes round for ever, unless a channel stays full for ever.    *)
(***************************************************************************)
KeepsRunning ==
  \/ []<>(loop \in {"top", "expired"})
  \/ <>[](\E c \in Channel : chan[c] = Size)

(***************************************************************************)
(* "O tempo de eleição expirou, o que iniciará uma nova eleição": after a  *)
(* time-out a candidate starts an election, if it stays a candidate.       *)
(***************************************************************************)
NewElection == (loop = "expired") ~> (loop = "select" \/ state # "Candidate")
=============================================================================
