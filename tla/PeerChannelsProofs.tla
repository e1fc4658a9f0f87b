------------------------- MODULE PeerChannelsProofs -------------------------
(***************************************************************************)
(* For any number of peers and any size of the channels: no goroutine      *)
(* waits with rf.mu in hand before the calls, or the vote requests, are    *)
(* more than a channel has room for.                                       *)
(***************************************************************************)
EXTENDS PeerChannels, TLAPS

(* The token that a goroutine waits to send. *)
Waiting(c) == IF holder = c THEN 1 ELSE 0

(***************************************************************************)
(* Every token is the work of one vote request or of one call: those in a  *)
(* channel, those about to be sent and those that answers may still bring  *)
(* are no more than were counted.                                          *)
(***************************************************************************)
TokensCounted ==
  /\ requested < Counted =>
       chan["winner"] + Waiting("winner") + answers <= requested
  /\ called < Counted =>
       /\ chan["requestVoteReplied"] + Waiting("requestVoteReplied") <= called
       /\ chan["appendEntriesRec"] + Waiting("appendEntriesRec") <= called

Inv == TypeOK /\ TokensCounted /\ RoomEnough

USE PeersAssumption, CallsAssumption DEF Channel

LEMMA InitInv == Init => Inv
  BY DEF Init, Inv, TypeOK, TokensCounted, RoomEnough, Waiting

(* What stateLoop takes from a channel only makes more room. *)
LEMMA ReceiveKeeps ==
  ASSUME Inv, NEW c \in Channel, Receive(c), UNCHANGED <<holder, answers, requested, called>>
  PROVE  /\ chan' \in [Channel -> 0 .. Size]
         /\ TokensCounted' /\ RoomEnough'
<1>1. chan' \in [Channel -> 0 .. Size] /\ \A d \in Channel : chan'[d] <= chan[d]
  BY DEF Receive, Inv, TypeOK
<1>2. \A d \in Channel : chan[d] \in 0 .. Size /\ chan'[d] \in 0 .. Size
  BY <1>1 DEF Inv, TypeOK
<1> QED
  BY <1>1, <1>2 DEF Inv, TypeOK, TokensCounted, RoomEnough, Waiting

(* A send puts one more token in its channel, or waits with rf.mu if that is full. *)
LEMMA SendKeeps ==
  ASSUME Inv, NEW c \in Channel, Lock, Send(c)
  PROVE  /\ chan' \in [Channel -> 0 .. Size]
         /\ holder' \in {"none", c}
         /\ holder' = c => chan[c] = Size /\ chan' = chan
         /\ holder' = "none" => chan'[c] = chan[c] + 1
         /\ \A d \in Channel \ {c} : chan'[d] = chan[d]
  BY DEF Inv, TypeOK, Send, Lock

LEMMA NextInv == Inv /\ [Next]_vars => Inv'
<1> SUFFICES ASSUME Inv, [Next]_vars PROVE Inv'
  OBVIOUS
<1> USE DEF Inv, TypeOK
<1>1. CASE UNCHANGED vars
  BY <1>1 DEF vars, TokensCounted, RoomEnough, Waiting
<1>2. CASE ReadState \/ FollowerTimeout \/ becomeLeader \/ doAsLeader
  BY <1>2 DEF ReadState, FollowerTimeout, becomeLeader, doAsLeader, TokensCounted, RoomEnough, Waiting
<1>3. CASE doAsFollower
  <2>1. CASE loop' = "timeout" /\ UNCHANGED chan
    BY <1>3, <2>1 DEF doAsFollower, TokensCounted, RoomEnough, Waiting
  <2>2. CASE (Receive("requestVoteReplied") \/ Receive("appendEntriesRec")) /\ loop' = "top"
    BY <1>3, <2>2, ReceiveKeeps DEF doAsFollower
  <2> QED
    BY <1>3, <2>1, <2>2 DEF doAsFollower
<1>4. CASE doAsCandidate
  <2>1. CASE loop' = "expired" /\ UNCHANGED <<chan, state>>
    BY <1>4, <2>1 DEF doAsCandidate, TokensCounted, RoomEnough, Waiting
  <2>2. CASE Receive("winner") /\ loop' = "won" /\ UNCHANGED state
    BY <1>4, <2>2, ReceiveKeeps DEF doAsCandidate
  <2>3. CASE Receive("appendEntriesRec") /\ state' = "Follower" /\ loop' = "top"
    BY <1>4, <2>3, ReceiveKeeps DEF doAsCandidate
  <2> QED
    BY <1>4, <2>1, <2>2, <2>3 DEF doAsCandidate
<1>5. CASE StartElection
  <2>1. /\ answers' \in 0 .. Answers /\ requested' \in 0 .. Counted
        /\ answers' <= answers + (Peers - 1)
        /\ requested' < Counted => requested' = requested + (Peers - 1)
        /\ requested <= requested'
    BY <1>5 DEF StartElection, Capped
  <2> QED
    BY <1>5, <2>1 DEF StartElection, TokensCounted, RoomEnough, Waiting, Lock
<1>6. CASE Unblock
  <2>1. /\ holder \in Channel /\ chan' = [chan EXCEPT ![holder] = @ + 1]
        /\ chan[holder] < Size /\ holder' = "none"
        /\ state' \in {state, "Follower"} /\ UNCHANGED <<votes, loop, answers, requested, called>>
    BY <1>6 DEF Unblock, Lock
  <2>2. TypeOK'
    BY <2>1
  <2>3. \A d \in Channel : chan'[d] + Waiting(d)' = chan[d] + Waiting(d)
    BY <2>1 DEF Waiting
  <2> QED
    BY <2>1, <2>2, <2>3 DEF TokensCounted, RoomEnough
<1>7. CASE RequestVote
  <2>1. /\ Lock /\ Send("requestVoteReplied") /\ state' \in {state, "Follower"}
        /\ UNCHANGED <<votes, loop, answers, requested>>
        /\ called' = Capped(called + 1, Counted)
    BY <1>7 DEF RequestVote
  <2>2. called' \in 0 .. Counted /\ (called' < Counted => called' = called + 1)
    BY <2>1 DEF Capped
  <2> QED
    BY <2>1, <2>2, SendKeeps DEF TokensCounted, RoomEnough, Waiting, Lock
<1>8. CASE AppendEntries
  <2>1. /\ Lock /\ Send("appendEntriesRec") /\ state' \in {state, "Follower"}
        /\ UNCHANGED <<votes, loop, answers, requested>>
        /\ called' = Capped(called + 1, Counted)
    BY <1>8 DEF AppendEntries
  <2>2. called' \in 0 .. Counted /\ (called' < Counted => called' = called + 1)
    BY <2>1 DEF Capped
  <2> QED
    BY <2>1, <2>2, SendKeeps DEF TokensCounted, RoomEnough, Waiting, Lock
<1>9. CASE HigherTerm \/ NoVote
  BY <1>9 DEF HigherTerm, NoVote, TokensCounted, RoomEnough, Waiting
<1>10. CASE VoteGranted
  <2>1. /\ Lock /\ answers > 0 /\ answers' = answers - 1 /\ votes' = votes + 1
        /\ UNCHANGED <<state, loop, requested, called>>
    BY <1>10 DEF VoteGranted
  <2>2. CASE UNCHANGED <<chan, holder>>
    BY <2>1, <2>2 DEF TokensCounted, RoomEnough, Waiting
  <2>3. CASE Send("winner")
    BY <2>1, <2>3, SendKeeps DEF TokensCounted, RoomEnough, Waiting, Lock
  <2> QED
    BY <1>10, <2>2, <2>3 DEF VoteGranted
<1> QED
  BY <1>1, <1>2, <1>3, <1>4, <1>5, <1>6, <1>7, <1>8, <1>9, <1>10
  DEF Next, stateLoop, Handler

(* The channels hold at most what they have room for, and the loop has its places. *)
THEOREM TypeCorrect == Spec => []TypeOK
<1>1. Inv => TypeOK
  BY DEF Inv
<1> QED
  BY <1>1, InitInv, NextInv, PTL DEF Spec

(***************************************************************************)
(* A handler that waits with rf.mu in hand, which stateLoop then waits     *)
(* for, needs more calls or vote requests than a channel has room for.     *)
(***************************************************************************)
THEOREM NoHangBeforeFull == Spec => []RoomEnough
<1>1. Inv => RoomEnough
  BY DEF Inv
<1> QED
  BY <1>1, InitInv, NextInv, PTL DEF Spec
=============================================================================
