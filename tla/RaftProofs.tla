----------------------------- MODULE RaftProofs -----------------------------
(***************************************************************************)
(* Theorems about Raft, for every set of servers, every state they may     *)
(* start from and every value of the bounds.                               *)
(***************************************************************************)
EXTENDS RaftProperties, SequenceTheorems, TLAPS

(***************************************************************************)
(* A bag after calls are sent: a bag, with those calls added.              *)
(***************************************************************************)
LEMMA BagSend ==
  ASSUME NEW B, IsABag(B), NEW S
  PROVE  /\ IsABag(B (+) SetToBag(S))
         /\ BagToSet(B (+) SetToBag(S)) = BagToSet(B) \cup S
BY DEF IsABag, BagToSet, SetToBag, (+)

(***************************************************************************)
(* A bag after a call has ended: a bag that holds nothing new.             *)
(***************************************************************************)
LEMMA BagDone ==
  ASSUME NEW B, IsABag(B), NEW c
  PROVE  /\ IsABag(B (-) SetToBag({c}))
         /\ BagToSet(B (-) SetToBag({c})) \subseteq BagToSet(B)
BY DEF IsABag, BagToSet, SetToBag, (-)

(***************************************************************************)
(* A call of each kind has the fields of that kind.                        *)
(***************************************************************************)
LEMMA CallKinds ==
  ASSUME NEW c \in Call
  PROVE  /\ c.src \in Server /\ c.dst \in Server /\ c.life \in Nat
         /\ c.kind = "RequestVote" => c \in RequestVoteArgs
         /\ c.kind = "RequestVoteReply" => c \in RequestVoteReply
         /\ c.kind = "AppendEntries" => c \in AppendEntriesArgs
         /\ c.kind = "AppendEntriesReply" => c \in AppendEntriesReply
BY DEF Call, RequestVoteArgs, RequestVoteReply, AppendEntriesArgs, AppendEntriesReply

NonEmptyLogs == \A s \in Server : log[s] # <<>>

CallsOK == IsABag(calls) /\ BagToSet(calls) \subseteq Call

(***************************************************************************)
(* Sending calls keeps calls well formed, and adds exactly those.          *)
(***************************************************************************)
LEMMA SendOK ==
  ASSUME CallsOK, NEW S \in SUBSET Call, Send(S)
  PROVE  CallsOK' /\ BagToSet(calls)' = BagToSet(calls) \cup S
BY BagSend DEF CallsOK, Send

(***************************************************************************)
(* Answering a call keeps calls well formed, and adds only the reply.      *)
(***************************************************************************)
LEMMA AnswerOK ==
  ASSUME CallsOK, NEW c, NEW r \in Call, Answer(c, r)
  PROVE  CallsOK' /\ BagToSet(calls)' \subseteq BagToSet(calls) \cup {r}
<1>1. /\ IsABag(calls (-) SetToBag({c}))
      /\ BagToSet(calls (-) SetToBag({c})) \subseteq BagToSet(calls)
  BY BagDone DEF CallsOK
<1>2. /\ IsABag((calls (-) SetToBag({c})) (+) SetToBag({r}))
      /\ BagToSet((calls (-) SetToBag({c})) (+) SetToBag({r}))
           = BagToSet(calls (-) SetToBag({c})) \cup {r}
  BY <1>1, BagSend
<1> QED BY <1>1, <1>2 DEF CallsOK, Answer

(***************************************************************************)
(* Ending a call keeps calls well formed, and adds nothing.                *)
(***************************************************************************)
LEMMA DoneOK ==
  ASSUME CallsOK, NEW c, Done(c)
  PROVE  CallsOK' /\ BagToSet(calls)' \subseteq BagToSet(calls)
BY BagDone DEF CallsOK, Done

(***************************************************************************)
(* A call in flight has the fields of its kind, with their types.          *)
(***************************************************************************)
LEMMA CallFields ==
  ASSUME TypeOK, NEW c \in BagToSet(calls)
  PROVE  /\ c.src \in Server /\ c.dst \in Server /\ c.life \in Nat /\ c.term \in Nat
         /\ c.kind = "RequestVoteReply" => c.asked \in Nat /\ c.voteGranted \in BOOLEAN
         /\ c.kind = "AppendEntries" =>
              /\ c.prevLogIndex \in Nat /\ c.prevLogTerm \in Nat
              /\ c.entries \in Seq(Entry) /\ c.leaderCommit \in Nat
BY DEF TypeOK, Call, RequestVoteArgs, RequestVoteReply, AppendEntriesArgs,
   AppendEntriesReply

(***************************************************************************)
(* Adopting a term yields a term, a vote and a state.                      *)
(***************************************************************************)
LEMMA AfterOK ==
  ASSUME TypeOK, NEW s \in Server, NEW t \in Nat
  PROVE  /\ TermAfter(s, t) \in Nat
         /\ VoteAfter(s, t) \in Server \cup {Nil}
         /\ StateAfter(s, t) \in {Follower, Candidate, Leader}
BY DEF TypeOK, TermAfter, VoteAfter, StateAfter

(***************************************************************************)
(* The reply of RequestVote is a call.                                     *)
(***************************************************************************)
LEMMA VoteReplyOK ==
  ASSUME TypeOK, NEW c \in BagToSet(calls), NEW granted \in BOOLEAN, c.kind = "RequestVote"
  PROVE  VoteReply(c, granted) \in RequestVoteReply
<1> currentTerm[c.dst] \in Nat
  BY CallFields DEF TypeOK
<1> QED BY CallFields DEF VoteReply, RequestVoteReply

(***************************************************************************)
(* The reply of AppendEntries is a call.                                   *)
(***************************************************************************)
LEMMA AppendReplyOK ==
  ASSUME TypeOK, NEW c \in BagToSet(calls), NEW term \in Nat, NEW success \in BOOLEAN,
         NEW index \in Nat, NEW conflictTerm \in Int
  PROVE  AppendReply(c, term, success, index, conflictTerm) \in AppendEntriesReply
BY CallFields DEF AppendReply, AppendEntriesReply

(***************************************************************************)
(* What a log holds is an entry, with a term.                              *)
(***************************************************************************)
LEMMA EntryOK ==
  ASSUME NEW l \in Seq(Entry), NEW i \in 1 .. Len(l)
  PROVE  l[i] \in Entry /\ l[i].term \in Nat
<1>1. l[i] \in Entry
  BY ElementOfSeq
<1> QED BY <1>1 DEF Entry

(***************************************************************************)
(* GetLastEntryIndex and GetLastEntryTerm are defined: no log is empty.    *)
(***************************************************************************)
LEMMA LastEntryOK ==
  ASSUME TypeOK, NonEmptyLogs, NEW s \in Server
  PROVE  /\ GetLastEntryIndex(s) \in Nat /\ GetLastEntryTerm(s) \in Nat
         /\ \A i \in 1 .. Len(log[s]) : log[s][i] \in Entry /\ log[s][i].term \in Nat
<1> log[s] \in Seq(Entry) /\ log[s] # <<>> /\ Len(log[s]) \in 1 .. Len(log[s])
  BY DEF TypeOK, NonEmptyLogs
<1>1. \A i \in 1 .. Len(log[s]) : log[s][i] \in Entry /\ log[s][i].term \in Nat
  BY EntryOK
<1> QED BY <1>1 DEF GetLastEntryIndex, GetLastEntryTerm

(***************************************************************************)
(* The larger of two indices is an index.                                  *)
(***************************************************************************)
LEMMA MaxOK ==
  ASSUME NEW m \in Nat, NEW n \in Nat
  PROVE  Max({m, n}) \in Nat
<1>1. \E x \in {m, n} : \A y \in {m, n} : x >= y
  OBVIOUS
<1> QED BY <1>1 DEF Max

(***************************************************************************)
(* sendVoteRequests sends RequestVote calls.                               *)
(***************************************************************************)
LEMMA SentRequestsOK ==
  ASSUME TypeOK, NonEmptyLogs, NEW s \in Server, sendVoteRequests(s)
  PROVE  \E S \in SUBSET RequestVoteArgs : Send(S)
<1> DEFINE R(p) == [kind |-> "RequestVote", src |-> s, dst |-> p, life |-> life[s],
                    term |-> currentTerm[s], lastLogIndex |-> GetLastEntryIndex(s),
                    lastLogTerm |-> GetLastEntryTerm(s)]
<1>1. ASSUME NEW p \in Server PROVE R(p) \in RequestVoteArgs
  <2> life[s] \in Nat /\ currentTerm[s] \in Nat
    BY DEF TypeOK
  <2> QED BY LastEntryOK DEF RequestVoteArgs
<1> QED BY <1>1 DEF sendVoteRequests

(***************************************************************************)
(* sendEntriesToPeer sends one AppendEntries call, read from the log.      *)
(***************************************************************************)
LEMMA SentEntriesOK ==
  ASSUME TypeOK, NonEmptyLogs, NothingCommitted, NEW s \in Server, NEW p \in Server,
         sendEntriesToPeer(s, p)
  PROVE  \E r \in AppendEntriesArgs :
           /\ Send({r})
           /\ r.leaderCommit = 0 /\ r.term = currentTerm[s]
           /\ r.prevLogTerm = log[s][nextIndex[s][p]].term
           /\ r.entries = EntriesFrom(s, nextIndex[s][p])
<1> DEFINE next == nextIndex[s][p]
           r == [kind |-> "AppendEntries", src |-> s, dst |-> p, life |-> life[s],
                 term |-> currentTerm[s], prevLogIndex |-> next - 1,
                 prevLogTerm |-> log[s][next].term, entries |-> EntriesFrom(s, next),
                 leaderCommit |-> commitIndex[s]]
<1>1. life[s] \in Nat /\ currentTerm[s] \in Nat /\ next \in Nat \ {0} /\ commitIndex[s] = 0
  BY DEF TypeOK, NothingCommitted
<1>2. log[s][next].term \in Nat
  <2>1. Len(log[s]) \in Nat
    BY LenProperties DEF TypeOK
  <2>2. next \in 1 .. Len(log[s])
    BY <1>1, <2>1 DEF sendEntriesToPeer
  <2> QED BY <2>2, LastEntryOK
<1>3. EntriesFrom(s, next) \in Seq(Entry)
  <2>1. log[s] \in Seq(Entry)
    BY DEF TypeOK
  <2> QED BY <1>1, <2>1, SubSeqProperties DEF EntriesFrom
<1>4. r \in AppendEntriesArgs
  BY <1>1, <1>2, <1>3 DEF AppendEntriesArgs
<1> QED BY <1>1, <1>4 DEF sendEntriesToPeer

(***************************************************************************)
(* The log that AppendEntries leaves: a prefix of the old one, then the entries. *)
(***************************************************************************)
LEMMA NewLogOK ==
  ASSUME TypeOK, NonEmptyLogs, NEW s \in Server,
         NEW c \in BagToSet(calls), c.kind = "AppendEntries", Matches(s, c)
  PROVE  /\ Kept(s, c) \in Seq(Entry) /\ Len(Kept(s, c)) = c.prevLogIndex + 1
         /\ \A i \in 1 .. c.prevLogIndex + 1 : Kept(s, c)[i] = log[s][i]
         /\ Kept(s, c) \o c.entries \in Seq(Entry) \ {<<>>}
<1>1. log[s] \in Seq(Entry) /\ c.prevLogIndex + 1 \in 1 .. Len(log[s]) /\ c.entries \in Seq(Entry)
  <2>1. log[s] \in Seq(Entry) /\ Len(log[s]) \in Nat
    BY LenProperties DEF TypeOK
  <2> QED BY <2>1, CallFields DEF Matches, GetLastEntryIndex
<1>2. /\ Kept(s, c) \in Seq(Entry) /\ Len(Kept(s, c)) = c.prevLogIndex + 1
      /\ \A i \in 1 .. c.prevLogIndex + 1 : Kept(s, c)[i] = log[s][i]
  BY <1>1, SubSeqProperties DEF Kept
<1>3. /\ Kept(s, c) \o c.entries \in Seq(Entry)
      /\ Len(Kept(s, c) \o c.entries) = Len(Kept(s, c)) + Len(c.entries)
  BY <1>1, <1>2, ConcatProperties
<1> QED BY <1>1, <1>2, <1>3, EmptySeq, LenProperties

(***************************************************************************)
(* An answer adds no AppendEntries call.                                   *)
(***************************************************************************)
LEMMA ReplyOK ==
  ASSUME TypeOK, NEW c, NEW r \in RequestVoteReply \cup AppendEntriesReply, Answer(c, r)
  PROVE  /\ CallsOK'
         /\ \A q \in BagToSet(calls)' : q \in BagToSet(calls) \/ q.kind # "AppendEntries"
<1>1. CallsOK /\ r \in Call
  BY DEF TypeOK, CallsOK, Call
<1>2. r.kind # "AppendEntries"
  BY DEF RequestVoteReply, AppendEntriesReply
<1> QED BY <1>1, <1>2, AnswerOK

(***************************************************************************)
(* AppendEntries answers, whichever of its outcomes it has.                *)
(***************************************************************************)
LEMMA AppendAnswered ==
  ASSUME TypeOK, NonEmptyLogs, NEW c \in BagToSet(calls), c.kind = "AppendEntries",
         AppendFromOldTerm(c) \/ AppendMismatch(c) \/ AppendMatch(c)
  PROVE  \E q \in AppendEntriesReply : Answer(c, q)
<1>1. c.dst \in Server /\ c.term \in Nat /\ currentTerm[c.dst] \in Nat
  BY CallFields DEF TypeOK
<1>2. CASE AppendFromOldTerm(c)
  <2>1. AppendReply(c, currentTerm[c.dst], FALSE, 0, 0) \in AppendEntriesReply
    BY <1>1, CallFields DEF AppendReply, AppendEntriesReply
  <2> QED BY <1>2, <2>1 DEF AppendFromOldTerm
<1>3. CASE AppendMismatch(c)
  <2> DEFINE index == Max({c.prevLogIndex, Len(log[c.dst])})
             term == IF index < Len(log[c.dst]) THEN log[c.dst][index + 1].term ELSE -1
  <2>1. Len(log[c.dst]) \in Nat /\ index \in Nat
    BY <1>1, CallFields, LenProperties, MaxOK DEF TypeOK
  <2>2. term \in Int
    <3>1. CASE index < Len(log[c.dst])
      <4>1. index + 1 \in 1 .. Len(log[c.dst])
        BY <2>1, <3>1
      <4>2. log[c.dst][index + 1].term \in Nat
        BY <1>1, <4>1, LastEntryOK
      <4> QED BY <3>1, <4>2
    <3>2. CASE ~(index < Len(log[c.dst]))
      BY <3>2
    <3> QED BY <3>1, <3>2
  <2>3. AppendReply(c, c.term, FALSE, index, term) \in AppendEntriesReply
    BY <1>1, <2>1, <2>2, AppendReplyOK
  <2>4. Answer(c, AppendReply(c, c.term, FALSE, index, term))
    BY <1>3 DEF AppendMismatch
  <2> QED BY <2>3, <2>4
<1>4. CASE AppendMatch(c)
  <2>1. AppendReply(c, c.term, TRUE, 0, 0) \in AppendEntriesReply
    BY <1>1, CallFields DEF AppendReply, AppendEntriesReply
  <2> QED BY <1>4, <2>1 DEF AppendMatch
<1> QED BY <1>2, <1>3, <1>4

(***************************************************************************)
(* What persist saves has the type of a persisted state.                   *)
(***************************************************************************)
LEMMA persistOK ==
  ASSUME TypeOK, NEW s \in Server, persist(s),
         currentTerm' \in [Server -> Nat],
         votedFor' \in [Server -> Server \cup {Nil}],
         log' \in [Server -> Seq(Entry)]
  PROVE  disk' \in [Server -> SavedState]
BY DEF TypeOK, persist, SavedState

(***************************************************************************)
(* The inductive invariant that the rest is built on.  TypeOK alone is not *)
(* inductive: that an append leaves a sensible commitIndex needs           *)
(* NothingCommitted, that a restart finds a log needs PersistedIsCurrent,  *)
(* that GetLastEntryTerm is defined needs NonEmptyLogs.                    *)
(***************************************************************************)
Base == TypeOK /\ PersistedIsCurrent /\ NothingCommitted /\ NonEmptyLogs

(***************************************************************************)
(* Base is inductive: one step for each action, one part of Base at a time. *)
(***************************************************************************)
LEMMA BaseNext == Base /\ [Next]_vars => Base'
<1> SUFFICES ASSUME Base, [Next]_vars PROVE Base'
  OBVIOUS
<1> USE ServersAssumption DEF Base, persistent, replication, channels, goroutines
<1>1. ASSUME NEW s \in Server, LoopAsFollower(s) PROVE Base'
  <2>1. TypeOK'
    <3>1. pc' \in [Server -> {"loop", "Follower", "Candidate", "election", "dead"}]
      BY <1>1 DEF LoopAsFollower, TypeOK
    <3> QED BY <1>1, <3>1 DEF LoopAsFollower, TypeOK
  <2>2. PersistedIsCurrent'
    BY <1>1 DEF LoopAsFollower, PersistedIsCurrent, TypeOK
  <2>3. NothingCommitted'
    BY <1>1 DEF LoopAsFollower, NothingCommitted
  <2>4. NonEmptyLogs'
    BY <1>1 DEF LoopAsFollower, NonEmptyLogs
  <2> QED BY <2>1, <2>2, <2>3, <2>4
<1>2. ASSUME NEW s \in Server, LoopAsCandidate(s) PROVE Base'
  <2>1. TypeOK'
    <3>1. pc' \in [Server -> {"loop", "Follower", "Candidate", "election", "dead"}]
      BY <1>2 DEF LoopAsCandidate, TypeOK
    <3> QED BY <1>2, <3>1 DEF LoopAsCandidate, TypeOK
  <2>2. PersistedIsCurrent'
    BY <1>2 DEF LoopAsCandidate, PersistedIsCurrent, TypeOK
  <2>3. NothingCommitted'
    BY <1>2 DEF LoopAsCandidate, NothingCommitted
  <2>4. NonEmptyLogs'
    BY <1>2 DEF LoopAsCandidate, NonEmptyLogs
  <2> QED BY <2>1, <2>2, <2>3, <2>4
<1>3. ASSUME NEW s \in Server, doAsLeader(s) PROVE Base'
  <2>1. TypeOK'
    <3>1. sending' \in [Server -> [Server -> Nat]]
      <4>0. \A p \in Server : sending[s][p] \in Nat
        BY DEF TypeOK
      <4>1. [p \in Server |-> IF p = s THEN sending[s][p] ELSE sending[s][p] + 1] \in [Server -> Nat]
        BY <4>0
      <4> QED BY <1>3, <4>1 DEF doAsLeader, TypeOK
    <3> QED BY <1>3, <3>1 DEF doAsLeader, TypeOK
  <2>2. PersistedIsCurrent'
    BY <1>3 DEF doAsLeader, PersistedIsCurrent, TypeOK
  <2>3. NothingCommitted'
    BY <1>3 DEF doAsLeader, NothingCommitted
  <2>4. NonEmptyLogs'
    BY <1>3 DEF doAsLeader, NonEmptyLogs
  <2> QED BY <2>1, <2>2, <2>3, <2>4
<1>4. ASSUME NEW s \in Server, FollowerTimeout(s) PROVE Base'
  <2>1. TypeOK'
    <3>1. state' \in [Server -> {Follower, Candidate, Leader}]
      BY <1>4 DEF FollowerTimeout, TypeOK
    <3>2. pc' \in [Server -> {"loop", "Follower", "Candidate", "election", "dead"}]
      BY <1>4 DEF FollowerTimeout, TypeOK
    <3> QED BY <1>4, <3>1, <3>2 DEF FollowerTimeout, TypeOK
  <2>2. PersistedIsCurrent'
    BY <1>4 DEF FollowerTimeout, PersistedIsCurrent, TypeOK
  <2>3. NothingCommitted'
    BY <1>4 DEF FollowerTimeout, NothingCommitted
  <2>4. NonEmptyLogs'
    BY <1>4 DEF FollowerTimeout, NonEmptyLogs
  <2> QED BY <2>1, <2>2, <2>3, <2>4
<1>5. ASSUME NEW s \in Server, FollowerVoted(s) PROVE Base'
  <2>1. TypeOK'
    <3>1. requestVoteReplied' \in [Server -> Nat]
      BY <1>5 DEF FollowerVoted, TypeOK
    <3>2. pc' \in [Server -> {"loop", "Follower", "Candidate", "election", "dead"}]
      BY <1>5 DEF FollowerVoted, TypeOK
    <3> QED BY <1>5, <3>1, <3>2 DEF FollowerVoted, TypeOK
  <2>2. PersistedIsCurrent'
    BY <1>5 DEF FollowerVoted, PersistedIsCurrent, TypeOK
  <2>3. NothingCommitted'
    BY <1>5 DEF FollowerVoted, NothingCommitted
  <2>4. NonEmptyLogs'
    BY <1>5 DEF FollowerVoted, NonEmptyLogs
  <2> QED BY <2>1, <2>2, <2>3, <2>4
<1>6. ASSUME NEW s \in Server, FollowerHeard(s) PROVE Base'
  <2>1. TypeOK'
    <3>1. appendEntriesRec' \in [Server -> Nat]
      BY <1>6 DEF FollowerHeard, TypeOK
    <3>2. pc' \in [Server -> {"loop", "Follower", "Candidate", "election", "dead"}]
      BY <1>6 DEF FollowerHeard, TypeOK
    <3> QED BY <1>6, <3>1, <3>2 DEF FollowerHeard, TypeOK
  <2>2. PersistedIsCurrent'
    BY <1>6 DEF FollowerHeard, PersistedIsCurrent, TypeOK
  <2>3. NothingCommitted'
    BY <1>6 DEF FollowerHeard, NothingCommitted
  <2>4. NonEmptyLogs'
    BY <1>6 DEF FollowerHeard, NonEmptyLogs
  <2> QED BY <2>1, <2>2, <2>3, <2>4
<1>7. ASSUME NEW s \in Server, StartElection(s) PROVE Base'
  <2>1. TypeOK'
    <3>1. currentTerm' \in [Server -> Nat]
      BY <1>7 DEF StartElection, TypeOK
    <3>2. votedFor' \in [Server -> Server \cup {Nil}]
      BY <1>7 DEF StartElection, TypeOK
    <3>3. votes' \in [Server -> Nat]
      BY <1>7 DEF StartElection, TypeOK
    <3>4. asking' \in [Server -> Nat]
      BY <1>7 DEF StartElection, TypeOK
    <3>5. pc' \in [Server -> {"loop", "Follower", "Candidate", "election", "dead"}]
      BY <1>7 DEF StartElection, TypeOK
    <3>6. disk' \in [Server -> SavedState]
      BY <1>7, <3>1, <3>2, persistOK DEF StartElection, TypeOK
    <3> QED BY <1>7, <3>1, <3>2, <3>3, <3>4, <3>5, <3>6 DEF StartElection, TypeOK
  <2>2. PersistedIsCurrent'
    BY <1>7 DEF StartElection, persist, PersistedIsCurrent, TypeOK
  <2>3. NothingCommitted'
    BY <1>7 DEF StartElection, NothingCommitted
  <2>4. NonEmptyLogs'
    BY <1>7 DEF StartElection, NonEmptyLogs
  <2> QED BY <2>1, <2>2, <2>3, <2>4
<1>8. ASSUME NEW s \in Server, becomeLeader(s) PROVE Base'
  <2>1. GetLastEntryIndex(s) + 1 \in Nat \ {0}
    BY LastEntryOK
  <2>2. TypeOK'
    <3>1. winner' \in [Server -> Nat]
      BY <1>8, <2>1 DEF becomeLeader, TypeOK
    <3>2. state' \in [Server -> {Follower, Candidate, Leader}]
      BY <1>8, <2>1 DEF becomeLeader, TypeOK
    <3>3. nextIndex' \in [Server -> [Server -> Nat \ {0}]]
      BY <1>8, <2>1 DEF becomeLeader, TypeOK
    <3>4. matchIndex' \in [Server -> [Server -> Nat]]
      BY <1>8, <2>1 DEF becomeLeader, TypeOK
    <3>5. pc' \in [Server -> {"loop", "Follower", "Candidate", "election", "dead"}]
      BY <1>8, <2>1 DEF becomeLeader, TypeOK
    <3> QED BY <1>8, <2>1, <3>1, <3>2, <3>3, <3>4, <3>5 DEF becomeLeader, TypeOK
  <2>3. PersistedIsCurrent'
    BY <1>8, <2>1 DEF becomeLeader, PersistedIsCurrent, TypeOK
  <2>4. NothingCommitted'
    BY <1>8, <2>1 DEF becomeLeader, NothingCommitted
  <2>5. NonEmptyLogs'
    BY <1>8, <2>1 DEF becomeLeader, NonEmptyLogs
  <2> QED BY <2>2, <2>3, <2>4, <2>5
<1>9. ASSUME NEW s \in Server, StepAside(s) PROVE Base'
  <2>1. TypeOK'
    <3>1. appendEntriesRec' \in [Server -> Nat]
      BY <1>9 DEF StepAside, TypeOK
    <3>2. state' \in [Server -> {Follower, Candidate, Leader}]
      BY <1>9 DEF StepAside, TypeOK
    <3>3. pc' \in [Server -> {"loop", "Follower", "Candidate", "election", "dead"}]
      BY <1>9 DEF StepAside, TypeOK
    <3> QED BY <1>9, <3>1, <3>2, <3>3 DEF StepAside, TypeOK
  <2>2. PersistedIsCurrent'
    BY <1>9 DEF StepAside, PersistedIsCurrent, TypeOK
  <2>3. NothingCommitted'
    BY <1>9 DEF StepAside, NothingCommitted
  <2>4. NonEmptyLogs'
    BY <1>9 DEF StepAside, NonEmptyLogs
  <2> QED BY <2>1, <2>2, <2>3, <2>4
<1>10. ASSUME NEW s \in Server, ElectionTimeout(s) PROVE Base'
  <2>1. TypeOK'
    <3>1. pc' \in [Server -> {"loop", "Follower", "Candidate", "election", "dead"}]
      BY <1>10 DEF ElectionTimeout, TypeOK
    <3> QED BY <1>10, <3>1 DEF ElectionTimeout, TypeOK
  <2>2. PersistedIsCurrent'
    BY <1>10 DEF ElectionTimeout, PersistedIsCurrent, TypeOK
  <2>3. NothingCommitted'
    BY <1>10 DEF ElectionTimeout, NothingCommitted
  <2>4. NonEmptyLogs'
    BY <1>10 DEF ElectionTimeout, NonEmptyLogs
  <2> QED BY <2>1, <2>2, <2>3, <2>4
<1>11. ASSUME NEW s \in Server, sendVoteRequests(s) PROVE Base'
  <2>1. CallsOK' /\ \A r \in BagToSet(calls)' : r \in BagToSet(calls) \/ r.kind = "RequestVote"
    <3>1. PICK S \in SUBSET RequestVoteArgs : Send(S)
      BY <1>11, SentRequestsOK
    <3> QED BY <3>1, SendOK DEF TypeOK, CallsOK, Call, RequestVoteArgs
  <2>2. TypeOK'
    <3>1. asking' \in [Server -> Nat]
      BY <1>11 DEF sendVoteRequests, TypeOK
    <3> QED BY <1>11, <2>1, <3>1 DEF sendVoteRequests, TypeOK, CallsOK
  <2>3. PersistedIsCurrent'
    BY <1>11 DEF sendVoteRequests, PersistedIsCurrent, TypeOK
  <2>4. NothingCommitted'
    BY <1>11, <2>1 DEF sendVoteRequests, NothingCommitted
  <2>5. NonEmptyLogs'
    BY <1>11 DEF sendVoteRequests, NonEmptyLogs
  <2> QED BY <2>2, <2>3, <2>4, <2>5
<1>12. ASSUME NEW s \in Server, StartCheck(s) PROVE Base'
  <2>1. TypeOK'
    <3>1. starting' \in [Server -> Nat]
      BY <1>12 DEF StartCheck, TypeOK
    <3> QED BY <1>12, <3>1 DEF StartCheck, TypeOK
  <2>2. PersistedIsCurrent'
    BY <1>12 DEF StartCheck, PersistedIsCurrent, TypeOK
  <2>3. NothingCommitted'
    BY <1>12 DEF StartCheck, NothingCommitted
  <2>4. NonEmptyLogs'
    BY <1>12 DEF StartCheck, NonEmptyLogs
  <2> QED BY <2>1, <2>2, <2>3, <2>4
<1>13. ASSUME NEW s \in Server, Restart(s) PROVE Base'
  <2>1. /\ disk[s].currentTerm \in Nat /\ disk[s].votedFor \in Server \cup {Nil}
        /\ disk[s].log \in Seq(Entry) /\ disk[s].log # <<>>
    BY DEF TypeOK, SavedState, PersistedIsCurrent, NonEmptyLogs
  <2>2. TypeOK'
    <3>1. life' \in [Server -> Nat]
      <4>1. life \in [Server -> Nat]
        BY DEF TypeOK
      <4> QED BY <1>13, <2>1, <4>1 DEF Restart
    <3>2. currentTerm' \in [Server -> Nat]
      BY <1>13, <2>1 DEF Restart, TypeOK
    <3>3. votedFor' \in [Server -> Server \cup {Nil}]
      BY <1>13, <2>1 DEF Restart, TypeOK
    <3>4. log' \in [Server -> Seq(Entry)]
      BY <1>13, <2>1 DEF Restart, TypeOK
    <3>5. state' \in [Server -> {Follower, Candidate, Leader}]
      BY <1>13, <2>1 DEF Restart, TypeOK
    <3>6. votes' \in [Server -> Nat]
      BY <1>13, <2>1 DEF Restart, TypeOK
    <3>7. commitIndex' \in [Server -> Nat]
      BY <1>13, <2>1 DEF Restart, TypeOK
    <3>8. lastApplied' \in [Server -> Nat]
      BY <1>13, <2>1 DEF Restart, TypeOK
    <3>9. nextIndex' \in [Server -> [Server -> Nat \ {0}]]
      BY <1>13, <2>1 DEF Restart, TypeOK
    <3>10. matchIndex' \in [Server -> [Server -> Nat]]
      BY <1>13, <2>1 DEF Restart, TypeOK
    <3>11. requestVoteReplied' \in [Server -> Nat]
      BY <1>13, <2>1 DEF Restart, TypeOK
    <3>12. winner' \in [Server -> Nat]
      BY <1>13, <2>1 DEF Restart, TypeOK
    <3>13. appendEntriesRec' \in [Server -> Nat]
      BY <1>13, <2>1 DEF Restart, TypeOK
    <3>14. pc' \in [Server -> {"loop", "Follower", "Candidate", "election", "dead"}]
      BY <1>13, <2>1 DEF Restart, TypeOK
    <3>15. asking' \in [Server -> Nat]
      BY <1>13, <2>1 DEF Restart, TypeOK
    <3>16. sending' \in [Server -> [Server -> Nat]]
      BY <1>13, <2>1 DEF Restart, TypeOK
    <3>17. starting' \in [Server -> Nat]
      BY <1>13, <2>1 DEF Restart, TypeOK
    <3> QED BY <1>13, <2>1, <3>1, <3>2, <3>3, <3>4, <3>5, <3>6, <3>7, <3>8, <3>9, <3>10, <3>11, <3>12, <3>13, <3>14, <3>15, <3>16, <3>17 DEF Restart, TypeOK
  <2>3. PersistedIsCurrent'
    BY <1>13, <2>1 DEF Restart, PersistedIsCurrent, TypeOK
  <2>4. NothingCommitted'
    BY <1>13, <2>1 DEF Restart, NothingCommitted, TypeOK
  <2>5. NonEmptyLogs'
    BY <1>13, <2>1 DEF Restart, NonEmptyLogs, TypeOK
  <2> QED BY <2>2, <2>3, <2>4, <2>5
<1>14. ASSUME NEW s \in Server, NEW p \in Server, sendEntriesToPeer(s, p) PROVE Base'
  <2>1. CallsOK' /\ \A r \in BagToSet(calls)' : r \in BagToSet(calls) \/ r.leaderCommit = 0
    <3>1. PICK r \in AppendEntriesArgs : Send({r}) /\ r.leaderCommit = 0
      BY <1>14, SentEntriesOK
    <3>2. CallsOK /\ {r} \in SUBSET Call
      BY DEF TypeOK, CallsOK, Call
    <3> QED BY <3>1, <3>2, SendOK
  <2>2. TypeOK'
    <3>1. sending' \in [Server -> [Server -> Nat]]
      <4>1. [sending[s] EXCEPT ![p] = @ - 1] \in [Server -> Nat]
        <5>1. sending[s] \in [Server -> Nat]
          BY DEF TypeOK
        <5> QED BY <1>14, <5>1 DEF sendEntriesToPeer
      <4> QED BY <1>14, <4>1 DEF sendEntriesToPeer, TypeOK
    <3> QED BY <1>14, <2>1, <3>1 DEF sendEntriesToPeer, TypeOK, CallsOK
  <2>3. PersistedIsCurrent'
    BY <1>14 DEF sendEntriesToPeer, PersistedIsCurrent, TypeOK
  <2>4. NothingCommitted'
    BY <1>14, <2>1 DEF sendEntriesToPeer, NothingCommitted
  <2>5. NonEmptyLogs'
    BY <1>14 DEF sendEntriesToPeer, NonEmptyLogs
  <2> QED BY <2>2, <2>3, <2>4, <2>5
<1>15. ASSUME NEW s \in Server, NEW p \in Server, Panic(s, p) PROVE Base'
  <2>1. TypeOK'
    <3>1. pc' \in [Server -> {"loop", "Follower", "Candidate", "election", "dead"}]
      BY <1>15 DEF Panic, TypeOK
    <3>2. asking' \in [Server -> Nat]
      BY <1>15 DEF Panic, TypeOK
    <3>3. sending' \in [Server -> [Server -> Nat]]
      BY <1>15 DEF Panic, TypeOK
    <3>4. starting' \in [Server -> Nat]
      BY <1>15 DEF Panic, TypeOK
    <3> QED BY <1>15, <3>1, <3>2, <3>3, <3>4 DEF Panic, TypeOK
  <2>2. PersistedIsCurrent'
    BY <1>15 DEF Panic, PersistedIsCurrent, TypeOK
  <2>3. NothingCommitted'
    BY <1>15 DEF Panic, NothingCommitted
  <2>4. NonEmptyLogs'
    BY <1>15 DEF Panic, NonEmptyLogs
  <2> QED BY <2>1, <2>2, <2>3, <2>4
<1>16. ASSUME NEW s \in Server, NEW command \in Command, StartAppend(s, command) PROVE Base'
  <2>1. Append(log[s], [term |-> currentTerm[s], command |-> command]) \in Seq(Entry) \ {<<>>}
    <3>1. log[s] \in Seq(Entry) /\ [term |-> currentTerm[s], command |-> command] \in Entry
      BY DEF TypeOK, Entry
    <3> QED BY <3>1, AppendProperties
  <2>2. TypeOK'
    <3>1. starting' \in [Server -> Nat]
      BY <1>16, <2>1 DEF StartAppend, TypeOK
    <3>2. log' \in [Server -> Seq(Entry)]
      BY <1>16, <2>1 DEF StartAppend, TypeOK
    <3>3. disk' \in [Server -> SavedState]
      BY <1>16, <2>1, <3>2, persistOK DEF StartAppend, TypeOK
    <3> QED BY <1>16, <2>1, <3>1, <3>2, <3>3 DEF StartAppend, TypeOK
  <2>3. PersistedIsCurrent'
    BY <1>16, <2>1 DEF StartAppend, persist, PersistedIsCurrent, TypeOK
  <2>4. NothingCommitted'
    BY <1>16, <2>1 DEF StartAppend, NothingCommitted
  <2>5. NonEmptyLogs'
    BY <1>16, <2>1 DEF StartAppend, NonEmptyLogs, TypeOK
  <2> QED BY <2>2, <2>3, <2>4, <2>5
<1>17. ASSUME NEW c \in BagToSet(calls), c.kind = "RequestVote", GrantVote(c) PROVE Base'
  <2>1. /\ c.dst \in Server /\ TermAfter(c.dst, c.term) \in Nat
        /\ VoteAfter(c.dst, c.term) \in Server \cup {Nil}
        /\ StateAfter(c.dst, c.term) \in {Follower, Candidate, Leader}
        /\ c.src \in Server /\ c.term \in Nat
    BY CallFields, AfterOK
  <2>2. CallsOK' /\ \A r \in BagToSet(calls)' : r \in BagToSet(calls) \/ r.kind # "AppendEntries"
    <3>1. PICK r \in RequestVoteReply : Answer(c, r)
      BY <1>17, <2>1, VoteReplyOK DEF GrantVote
    <3> QED BY <3>1, ReplyOK
  <2>3. TypeOK'
    <3>1. currentTerm' \in [Server -> Nat]
      BY <1>17, <2>1 DEF GrantVote, TypeOK
    <3>2. state' \in [Server -> {Follower, Candidate, Leader}]
      BY <1>17, <2>1 DEF GrantVote, TypeOK
    <3>3. votedFor' \in [Server -> Server \cup {Nil}]
      BY <1>17, <2>1 DEF GrantVote, TypeOK
    <3>4. requestVoteReplied' \in [Server -> Nat]
      <4>1. requestVoteReplied \in [Server -> Nat]
        BY DEF TypeOK
      <4> QED BY <1>17, <2>1, <4>1 DEF GrantVote, HearLeader
    <3>5. disk' \in [Server -> SavedState]
      BY <1>17, <2>1, <3>1, <3>3, persistOK DEF GrantVote, TypeOK
    <3> QED BY <1>17, <2>1, <2>2, <3>1, <3>2, <3>3, <3>4, <3>5 DEF GrantVote, TypeOK, CallsOK
  <2>4. PersistedIsCurrent'
    BY <1>17, <2>1 DEF GrantVote, persist, PersistedIsCurrent, TypeOK
  <2>5. NothingCommitted'
    BY <1>17, <2>1, <2>2 DEF GrantVote, NothingCommitted
  <2>6. NonEmptyLogs'
    BY <1>17, <2>1 DEF GrantVote, NonEmptyLogs
  <2> QED BY <2>3, <2>4, <2>5, <2>6
<1>18. ASSUME NEW c \in BagToSet(calls), c.kind = "RequestVote", RefuseVote(c) PROVE Base'
  <2>1. /\ c.dst \in Server /\ TermAfter(c.dst, c.term) \in Nat
        /\ VoteAfter(c.dst, c.term) \in Server \cup {Nil}
        /\ StateAfter(c.dst, c.term) \in {Follower, Candidate, Leader}
        /\ c.src \in Server /\ c.term \in Nat
    BY CallFields, AfterOK
  <2>2. CallsOK' /\ \A r \in BagToSet(calls)' : r \in BagToSet(calls) \/ r.kind # "AppendEntries"
    <3>1. PICK r \in RequestVoteReply : Answer(c, r)
      BY <1>18, <2>1, VoteReplyOK DEF RefuseVote
    <3> QED BY <3>1, ReplyOK
  <2>3. TypeOK'
    <3>1. currentTerm' \in [Server -> Nat]
      BY <1>18, <2>1 DEF RefuseVote, TypeOK
    <3>2. state' \in [Server -> {Follower, Candidate, Leader}]
      BY <1>18, <2>1 DEF RefuseVote, TypeOK
    <3>3. votedFor' \in [Server -> Server \cup {Nil}]
      BY <1>18, <2>1 DEF RefuseVote, TypeOK
    <3>4. disk' \in [Server -> SavedState]
      BY <1>18, <2>1, <3>1, <3>3, persistOK DEF RefuseVote, TypeOK
    <3> QED BY <1>18, <2>1, <2>2, <3>1, <3>2, <3>3, <3>4 DEF RefuseVote, TypeOK, CallsOK
  <2>4. PersistedIsCurrent'
    BY <1>18, <2>1 DEF RefuseVote, persist, PersistedIsCurrent, TypeOK
  <2>5. NothingCommitted'
    BY <1>18, <2>1, <2>2 DEF RefuseVote, NothingCommitted
  <2>6. NonEmptyLogs'
    BY <1>18, <2>1 DEF RefuseVote, NonEmptyLogs
  <2> QED BY <2>3, <2>4, <2>5, <2>6
<1>19. ASSUME NEW c \in BagToSet(calls), c.kind = "RequestVoteReply", VoteReturned(c) PROVE Base'
  <2>1. /\ c.src \in Server /\ TermAfter(c.src, c.term) \in Nat
        /\ VoteAfter(c.src, c.term) \in Server \cup {Nil}
        /\ StateAfter(c.src, c.term) \in {Follower, Candidate, Leader}
        /\ c.src \in Server /\ c.term \in Nat
        /\ votes' = votes \/ votes' = [votes EXCEPT ![c.src] = @ + 1]
        /\ winner' = winner \/ winner' = [winner EXCEPT ![c.src] = @ + 1]
    BY <1>19, CallFields, AfterOK DEF VoteReturned
  <2>2. CallsOK' /\ BagToSet(calls)' \subseteq BagToSet(calls)
    BY <1>19, <2>1, DoneOK DEF VoteReturned, TypeOK, CallsOK
  <2>3. TypeOK'
    <3>1. currentTerm' \in [Server -> Nat]
      BY <1>19, <2>1 DEF VoteReturned, TypeOK
    <3>2. state' \in [Server -> {Follower, Candidate, Leader}]
      BY <1>19, <2>1 DEF VoteReturned, TypeOK
    <3>3. votedFor' \in [Server -> Server \cup {Nil}]
      BY <1>19, <2>1 DEF VoteReturned, TypeOK
    <3>4. votes' \in [Server -> Nat]
      <4>1. votes \in [Server -> Nat]
        BY DEF TypeOK
      <4> QED BY <1>19, <2>1, <4>1
    <3>5. winner' \in [Server -> Nat]
      <4>1. winner \in [Server -> Nat]
        BY DEF TypeOK
      <4> QED BY <1>19, <2>1, <4>1
    <3>6. disk' \in [Server -> SavedState]
      BY <1>19, <2>1, <3>1, <3>3, persistOK DEF VoteReturned, TypeOK
    <3> QED BY <1>19, <2>1, <2>2, <3>1, <3>2, <3>3, <3>4, <3>5, <3>6 DEF VoteReturned, TypeOK, CallsOK
  <2>4. PersistedIsCurrent'
    BY <1>19, <2>1 DEF VoteReturned, persist, PersistedIsCurrent, TypeOK
  <2>5. NothingCommitted'
    BY <1>19, <2>1, <2>2 DEF VoteReturned, NothingCommitted
  <2>6. NonEmptyLogs'
    BY <1>19, <2>1 DEF VoteReturned, NonEmptyLogs
  <2> QED BY <2>3, <2>4, <2>5, <2>6
<1>20. ASSUME NEW c \in BagToSet(calls), c.kind = "AppendEntries", AppendFromOldTerm(c) PROVE Base'
  <2>1. c.dst \in Server /\ currentTerm[c.dst] \in Nat
    BY CallFields DEF TypeOK
  <2>2. CallsOK' /\ \A r \in BagToSet(calls)' : r \in BagToSet(calls) \/ r.kind # "AppendEntries"
    BY <1>20, AppendAnswered, ReplyOK
  <2>3. TypeOK'
    <3>1. disk' \in [Server -> SavedState]
      BY <1>20, <2>1, persistOK DEF AppendFromOldTerm, TypeOK
    <3> QED BY <1>20, <2>1, <2>2, <3>1 DEF AppendFromOldTerm, TypeOK, CallsOK
  <2>4. PersistedIsCurrent'
    BY <1>20, <2>1 DEF AppendFromOldTerm, persist, PersistedIsCurrent, TypeOK
  <2>5. NothingCommitted'
    BY <1>20, <2>1, <2>2 DEF AppendFromOldTerm, NothingCommitted
  <2>6. NonEmptyLogs'
    BY <1>20, <2>1 DEF AppendFromOldTerm, NonEmptyLogs
  <2> QED BY <2>3, <2>4, <2>5, <2>6
<1>21. ASSUME NEW c \in BagToSet(calls), c.kind = "AppendEntries", AppendMismatch(c) PROVE Base'
  <2>1. /\ c.dst \in Server /\ TermAfter(c.dst, c.term) \in Nat
        /\ VoteAfter(c.dst, c.term) \in Server \cup {Nil}
        /\ StateAfter(c.dst, c.term) \in {Follower, Candidate, Leader}
        /\ c.src \in Server /\ c.term \in Nat
    BY CallFields, AfterOK
  <2>2. CallsOK' /\ \A r \in BagToSet(calls)' : r \in BagToSet(calls) \/ r.kind # "AppendEntries"
    BY <1>21, AppendAnswered, ReplyOK
  <2>3. TypeOK'
    <3>1. currentTerm' \in [Server -> Nat]
      BY <1>21, <2>1 DEF AppendMismatch, HearLeader, TypeOK
    <3>2. state' \in [Server -> {Follower, Candidate, Leader}]
      BY <1>21, <2>1 DEF AppendMismatch, HearLeader, TypeOK
    <3>3. votedFor' \in [Server -> Server \cup {Nil}]
      BY <1>21, <2>1 DEF AppendMismatch, HearLeader, TypeOK
    <3>4. appendEntriesRec' \in [Server -> Nat]
      <4>1. appendEntriesRec \in [Server -> Nat]
        BY DEF TypeOK
      <4> QED BY <1>21, <2>1, <4>1 DEF AppendMismatch, HearLeader
    <3>5. disk' \in [Server -> SavedState]
      BY <1>21, <2>1, <3>1, <3>3, persistOK DEF AppendMismatch, HearLeader, TypeOK
    <3> QED BY <1>21, <2>1, <2>2, <3>1, <3>2, <3>3, <3>4, <3>5 DEF AppendMismatch, HearLeader, TypeOK, CallsOK
  <2>4. PersistedIsCurrent'
    BY <1>21, <2>1 DEF AppendMismatch, HearLeader, persist, PersistedIsCurrent, TypeOK
  <2>5. NothingCommitted'
    BY <1>21, <2>1, <2>2 DEF AppendMismatch, NothingCommitted
  <2>6. NonEmptyLogs'
    BY <1>21, <2>1 DEF AppendMismatch, NonEmptyLogs
  <2> QED BY <2>3, <2>4, <2>5, <2>6
<1>22. ASSUME NEW c \in BagToSet(calls), c.kind = "AppendEntries", AppendMatch(c) PROVE Base'
  <2>1. /\ c.dst \in Server /\ TermAfter(c.dst, c.term) \in Nat
        /\ VoteAfter(c.dst, c.term) \in Server \cup {Nil}
        /\ StateAfter(c.dst, c.term) \in {Follower, Candidate, Leader}
        /\ c.src \in Server /\ c.term \in Nat
        /\ log' = [log EXCEPT ![c.dst] = Kept(c.dst, c) \o c.entries]
        /\ Kept(c.dst, c) \o c.entries \in Seq(Entry) \ {<<>>}
        /\ UNCHANGED <<commitIndex, lastApplied>>
    <3>1. /\ c.dst \in Server /\ commitIndex[c.dst] = 0 /\ c.leaderCommit = 0
          /\ commitIndex \in [Server -> Nat] /\ lastApplied \in [Server -> Nat]
      BY <1>22, CallFields DEF NothingCommitted, TypeOK
    <3>2. UNCHANGED <<commitIndex, lastApplied>>
      BY <1>22, <3>1 DEF AppendMatch
    <3> QED BY <1>22, <3>2, NewLogOK, CallFields, AfterOK DEF AppendMatch
  <2>2. CallsOK' /\ \A r \in BagToSet(calls)' : r \in BagToSet(calls) \/ r.kind # "AppendEntries"
    BY <1>22, AppendAnswered, ReplyOK
  <2>3. TypeOK'
    <3>1. currentTerm' \in [Server -> Nat]
      BY <1>22, <2>1 DEF AppendMatch, HearLeader, TypeOK
    <3>2. state' \in [Server -> {Follower, Candidate, Leader}]
      BY <1>22, <2>1 DEF AppendMatch, HearLeader, TypeOK
    <3>3. votedFor' \in [Server -> Server \cup {Nil}]
      BY <1>22, <2>1 DEF AppendMatch, HearLeader, TypeOK
    <3>4. appendEntriesRec' \in [Server -> Nat]
      <4>1. appendEntriesRec \in [Server -> Nat]
        BY DEF TypeOK
      <4> QED BY <1>22, <2>1, <4>1 DEF AppendMatch, HearLeader
    <3>5. log' \in [Server -> Seq(Entry)]
      BY <1>22, <2>1 DEF AppendMatch, HearLeader, TypeOK
    <3>6. disk' \in [Server -> SavedState]
      BY <1>22, <2>1, <3>1, <3>3, <3>5, persistOK DEF AppendMatch, HearLeader, TypeOK
    <3> QED BY <1>22, <2>1, <2>2, <3>1, <3>2, <3>3, <3>4, <3>5, <3>6 DEF AppendMatch, HearLeader, TypeOK, CallsOK
  <2>4. PersistedIsCurrent'
    BY <1>22, <2>1 DEF AppendMatch, HearLeader, persist, PersistedIsCurrent, TypeOK
  <2>5. NothingCommitted'
    BY <1>22, <2>1, <2>2 DEF AppendMatch, NothingCommitted
  <2>6. NonEmptyLogs'
    BY <1>22, <2>1 DEF NonEmptyLogs, TypeOK
  <2> QED BY <2>3, <2>4, <2>5, <2>6
<1>23. ASSUME NEW c \in BagToSet(calls), c.kind = "AppendEntriesReply", AppendIgnored(c) PROVE Base'
  <2>1. CallsOK' /\ BagToSet(calls)' \subseteq BagToSet(calls)
    BY <1>23, DoneOK DEF AppendIgnored, TypeOK, CallsOK
  <2>2. TypeOK'
    <3> QED BY <1>23, <2>1 DEF AppendIgnored, TypeOK, CallsOK
  <2>3. PersistedIsCurrent'
    BY <1>23 DEF AppendIgnored, PersistedIsCurrent, TypeOK
  <2>4. NothingCommitted'
    BY <1>23, <2>1 DEF AppendIgnored, NothingCommitted
  <2>5. NonEmptyLogs'
    BY <1>23 DEF AppendIgnored, NonEmptyLogs
  <2> QED BY <2>2, <2>3, <2>4, <2>5
<1>24. ASSUME NEW c \in BagToSet(calls), c.kind = "AppendEntriesReply", AppendReturned(c) PROVE Base'
  <2>1. /\ c.src \in Server /\ c.term \in Nat /\ Follower # Leader
        /\ UNCHANGED <<commitIndex, lastApplied, nextIndex, matchIndex>>
    <3>1. c.src \in Server /\ c.term \in Nat /\ Follower # Leader
      BY CallFields DEF Follower, Leader
    <3>2. state'[c.src] = Follower
      BY <1>24, <3>1 DEF AppendReturned, TypeOK
    <3> QED BY <1>24, <3>1, <3>2 DEF AppendReturned
  <2>2. CallsOK' /\ BagToSet(calls)' \subseteq BagToSet(calls)
    BY <1>24, <2>1, DoneOK DEF AppendReturned, TypeOK, CallsOK
  <2>3. TypeOK'
    <3>1. currentTerm' \in [Server -> Nat]
      BY <1>24, <2>1 DEF AppendReturned, TypeOK
    <3>2. state' \in [Server -> {Follower, Candidate, Leader}]
      BY <1>24, <2>1 DEF AppendReturned, TypeOK
    <3>3. votedFor' \in [Server -> Server \cup {Nil}]
      BY <1>24, <2>1 DEF AppendReturned, TypeOK
    <3>4. disk' \in [Server -> SavedState]
      BY <1>24, <2>1, <3>1, <3>3, persistOK DEF AppendReturned, TypeOK
    <3> QED BY <1>24, <2>1, <2>2, <3>1, <3>2, <3>3, <3>4 DEF AppendReturned, TypeOK, CallsOK
  <2>4. PersistedIsCurrent'
    BY <1>24, <2>1 DEF AppendReturned, persist, PersistedIsCurrent, TypeOK
  <2>5. NothingCommitted'
    BY <1>24, <2>1, <2>2 DEF AppendReturned, NothingCommitted
  <2>6. NonEmptyLogs'
    BY <1>24, <2>1 DEF AppendReturned, NonEmptyLogs
  <2> QED BY <2>3, <2>4, <2>5, <2>6
<1>25. ASSUME NEW c \in BagToSet(calls), CallFails(c) PROVE Base'
  <2>1. c.src \in Server
    BY CallFields
  <2>2. CallsOK' /\ BagToSet(calls)' \subseteq BagToSet(calls)
    BY <1>25, <2>1, DoneOK DEF CallFails, TypeOK, CallsOK
  <2>3. TypeOK'
    <3>1. disk' \in [Server -> SavedState]
      <4>1. CASE persist(c.src)
        BY <1>25, <2>1, <4>1, persistOK DEF CallFails, TypeOK
      <4>2. CASE UNCHANGED disk
        BY <4>2 DEF TypeOK
      <4> QED BY <1>25, <2>1, <4>1, <4>2 DEF CallFails
    <3> QED BY <1>25, <2>1, <2>2, <3>1 DEF CallFails, TypeOK, CallsOK
  <2>4. PersistedIsCurrent'
    <3>1. CASE persist(c.src)
      BY <1>25, <2>1, <3>1 DEF CallFails, persist, PersistedIsCurrent, TypeOK
    <3>2. CASE UNCHANGED disk
      BY <1>25, <2>1, <3>2 DEF CallFails, PersistedIsCurrent
    <3> QED BY <1>25, <2>1, <3>1, <3>2 DEF CallFails
  <2>5. NothingCommitted'
    BY <1>25, <2>1, <2>2 DEF CallFails, NothingCommitted
  <2>6. NonEmptyLogs'
    BY <1>25, <2>1 DEF CallFails, NonEmptyLogs
  <2> QED BY <2>3, <2>4, <2>5, <2>6
<1>26. CASE UNCHANGED vars
  BY <1>26 DEF vars, TypeOK, PersistedIsCurrent, NothingCommitted, NonEmptyLogs
<1> QED
  BY <1>1, <1>2, <1>3, <1>4, <1>5, <1>6, <1>7, <1>8, <1>9, <1>10, <1>11, <1>12,
     <1>13, <1>14, <1>15, <1>16, <1>17, <1>18, <1>19, <1>20, <1>21, <1>22, <1>23,
     <1>24, <1>25, <1>26
  DEF Next, stateLoop, RequestVote, AppendEntries, Return

(***************************************************************************)
(* Every state the servers can be made in satisfies Base.                  *)
(***************************************************************************)
LEMMA BaseInit == Init => Base
<1> SUFFICES ASSUME Init PROVE Base
  OBVIOUS
<1> USE ServersAssumption, SavedAssumption DEF Init, SavedState
<1>1. \A s \in Server : /\ Saved[s].currentTerm \in Nat
                        /\ Saved[s].votedFor \in Server \cup {Nil}
                        /\ Saved[s].log \in Seq(Entry) /\ Saved[s].log # <<>>
                        /\ Saved[s] = [currentTerm |-> Saved[s].currentTerm,
                                       votedFor |-> Saved[s].votedFor,
                                       log |-> Saved[s].log]
  OBVIOUS
<1>2. IsABag(calls) /\ BagToSet(calls) = {}
  BY DEF EmptyBag, SetToBag, IsABag, BagToSet
<1>3. TypeOK
  <2>1. /\ currentTerm \in [Server -> Nat]
        /\ votedFor \in [Server -> Server \cup {Nil}]
        /\ log \in [Server -> Seq(Entry)]
    BY <1>1
  <2>2. disk \in [Server -> SavedState]
    OBVIOUS
  <2> QED BY <1>2, <2>1, <2>2 DEF TypeOK
<1>4. PersistedIsCurrent
  BY <1>1 DEF PersistedIsCurrent
<1>5. NothingCommitted
  BY <1>2 DEF NothingCommitted
<1>6. NonEmptyLogs
  BY <1>1 DEF NonEmptyLogs
<1> QED BY <1>3, <1>4, <1>5, <1>6 DEF Base

(***************************************************************************)
(* Base holds in every state that a cluster reaches.                       *)
(***************************************************************************)
THEOREM BaseInvariant == Spec => []Base
BY BaseInit, BaseNext, PTL DEF Spec

(***************************************************************************)
(* The type invariant of Raft.                                             *)
(***************************************************************************)
THEOREM TypeCorrect == Spec => []TypeOK
BY BaseInvariant, PTL DEF Base

(***************************************************************************)
(* Whenever rf.mu is free the persister holds the current term, vote and   *)
(* log: no crash takes back what a server has answered.                    *)
(***************************************************************************)
THEOREM DiskIsCurrent == Spec => []PersistedIsCurrent
BY BaseInvariant, PTL DEF Base

(***************************************************************************)
(* The code never commits or applies an entry, in any run of any cluster:  *)
(* sendAppendEntries leaves before updateIndexesAndCommit.                 *)
(***************************************************************************)
THEOREM NeverCommits == Spec => []NothingCommitted
BY BaseInvariant, PTL DEF Base

-----------------------------------------------------------------------------
(***************************************************************************)
(* Terms and votes.  Adopting a term is a step of TermVote.                *)
(***************************************************************************)
LEMMA AdoptIsTermVote ==
  ASSUME TypeOK, TypeOK', NEW s \in Server, NEW t \in Nat,
         currentTerm' = [currentTerm EXCEPT ![s] = TermAfter(s, t)],
         votedFor' = [votedFor EXCEPT ![s] = VoteAfter(s, t)]
  PROVE  [TV!Next]_(TV!tvVars)
<1> TV!TypeOK'
  BY DEF TypeOK, TV!TypeOK
<1>1. CASE t > currentTerm[s]
  <2> TV!Raise(s)
    BY <1>1 DEF TV!Raise, TermAfter, VoteAfter, TypeOK
  <2> QED BY DEF TV!Next
<1>2. CASE ~(t > currentTerm[s])
  BY <1>2 DEF TV!tvVars, TermAfter, VoteAfter, TypeOK
<1> QED BY <1>1, <1>2

(***************************************************************************)
(* Every step of Raft is a step of TermVote or leaves term and vote alone. *)
(***************************************************************************)
LEMMA TermVoteNext == Base /\ [Next]_vars => [TV!Next]_(TV!tvVars)
<1> SUFFICES ASSUME Base, [Next]_vars PROVE [TV!Next]_(TV!tvVars)
  OBVIOUS
<1> USE ServersAssumption DEF persistent
<1>a. TypeOK /\ TypeOK' /\ PersistedIsCurrent
  BY BaseNext DEF Base
<1>b. TV!TypeOK'
  BY <1>a DEF TypeOK, TV!TypeOK
<1>c. (UNCHANGED <<currentTerm, votedFor>>) => [TV!Next]_(TV!tvVars)
  BY DEF TV!tvVars
<1>1. ASSUME NEW s \in Server, LoopAsFollower(s) PROVE [TV!Next]_(TV!tvVars)
  BY <1>1, <1>c DEF LoopAsFollower
<1>2. ASSUME NEW s \in Server, LoopAsCandidate(s) PROVE [TV!Next]_(TV!tvVars)
  BY <1>2, <1>c DEF LoopAsCandidate
<1>3. ASSUME NEW s \in Server, doAsLeader(s) PROVE [TV!Next]_(TV!tvVars)
  BY <1>3, <1>c DEF doAsLeader
<1>4. ASSUME NEW s \in Server, FollowerTimeout(s) PROVE [TV!Next]_(TV!tvVars)
  BY <1>4, <1>c DEF FollowerTimeout
<1>5. ASSUME NEW s \in Server, FollowerVoted(s) PROVE [TV!Next]_(TV!tvVars)
  BY <1>5, <1>c DEF FollowerVoted
<1>6. ASSUME NEW s \in Server, FollowerHeard(s) PROVE [TV!Next]_(TV!tvVars)
  BY <1>6, <1>c DEF FollowerHeard
<1>7. ASSUME NEW s \in Server, becomeLeader(s) PROVE [TV!Next]_(TV!tvVars)
  BY <1>7, <1>c DEF becomeLeader
<1>8. ASSUME NEW s \in Server, StepAside(s) PROVE [TV!Next]_(TV!tvVars)
  BY <1>8, <1>c DEF StepAside
<1>9. ASSUME NEW s \in Server, ElectionTimeout(s) PROVE [TV!Next]_(TV!tvVars)
  BY <1>9, <1>c DEF ElectionTimeout
<1>10. ASSUME NEW s \in Server, sendVoteRequests(s) PROVE [TV!Next]_(TV!tvVars)
  BY <1>10, <1>c DEF sendVoteRequests
<1>11. ASSUME NEW s \in Server, StartCheck(s) PROVE [TV!Next]_(TV!tvVars)
  BY <1>11, <1>c DEF StartCheck
<1>12. ASSUME NEW s \in Server, StartElection(s) PROVE [TV!Next]_(TV!tvVars)
  <2>1. TV!Raise(s)
    BY <1>12, <1>a DEF StartElection, TV!Raise, TypeOK
  <2> QED BY <2>1, <1>b DEF TV!Next
<1>13. ASSUME NEW s \in Server, Restart(s) PROVE [TV!Next]_(TV!tvVars)
  <2>1. UNCHANGED <<currentTerm, votedFor>>
    BY <1>13, <1>a DEF Restart, PersistedIsCurrent, TypeOK
  <2> QED BY <2>1, <1>c
<1>14. ASSUME NEW s \in Server, NEW p \in Server, sendEntriesToPeer(s, p) PROVE [TV!Next]_(TV!tvVars)
  BY <1>14, <1>c DEF sendEntriesToPeer
<1>15. ASSUME NEW s \in Server, NEW p \in Server, Panic(s, p) PROVE [TV!Next]_(TV!tvVars)
  BY <1>15, <1>c DEF Panic
<1>16. ASSUME NEW s \in Server, NEW command \in Command, StartAppend(s, command) PROVE [TV!Next]_(TV!tvVars)
  BY <1>16, <1>c DEF StartAppend
<1>17. ASSUME NEW c \in BagToSet(calls), GrantVote(c) PROVE [TV!Next]_(TV!tvVars)
  <2> DEFINE s == c.dst
  <2>1. s \in Server /\ c.src \in Server /\ c.term \in Nat
    BY <1>a, CallFields
  <2>2. CASE c.term > currentTerm[s]
    <3>1. TV!Raise(s)
      BY <1>17, <1>a, <2>1, <2>2 DEF GrantVote, TermAfter, TV!Raise, TypeOK
    <3> QED BY <2>1, <3>1, <1>b DEF TV!Next
  <2>3. CASE c.term = currentTerm[s]
    <3>1. UNCHANGED currentTerm /\ votedFor' = [votedFor EXCEPT ![s] = c.src]
      BY <1>17, <1>a, <2>1, <2>3 DEF GrantVote, TermAfter, TypeOK
    <3>2. CASE votedFor[s] = Nil
      <4>1. TV!Cast(s)
        BY <1>a, <2>1, <3>1, <3>2 DEF TV!Cast, TypeOK
      <4> QED BY <2>1, <4>1, <1>b DEF TV!Next
    <3>3. CASE votedFor[s] = c.src
      BY <1>a, <1>c, <2>1, <3>1, <3>3 DEF TypeOK
    <3>4. votedFor[s] \in {Nil, c.src}
      BY <1>17, <1>a, <2>1, <2>3 DEF GrantVote, Granted, VoteAfter, TypeOK
    <3> QED BY <3>2, <3>3, <3>4
  <2>4. c.term >= currentTerm[s] /\ currentTerm[s] \in Nat
    BY <1>17, <1>a, <2>1 DEF GrantVote, Granted, TypeOK
  <2> QED BY <2>1, <2>2, <2>3, <2>4
<1>18. ASSUME NEW c \in BagToSet(calls), RefuseVote(c) PROVE [TV!Next]_(TV!tvVars)
  BY <1>18, <1>a, CallFields, AdoptIsTermVote DEF RefuseVote, HearLeader
<1>19. ASSUME NEW c \in BagToSet(calls), VoteReturned(c) PROVE [TV!Next]_(TV!tvVars)
  BY <1>19, <1>a, CallFields, AdoptIsTermVote DEF VoteReturned, HearLeader
<1>20. ASSUME NEW c \in BagToSet(calls), AppendFromOldTerm(c) PROVE [TV!Next]_(TV!tvVars)
  BY <1>20, <1>c DEF AppendFromOldTerm
<1>21. ASSUME NEW c \in BagToSet(calls), AppendMismatch(c) PROVE [TV!Next]_(TV!tvVars)
  BY <1>21, <1>a, CallFields, AdoptIsTermVote DEF AppendMismatch, HearLeader
<1>22. ASSUME NEW c \in BagToSet(calls), AppendMatch(c) PROVE [TV!Next]_(TV!tvVars)
  BY <1>22, <1>a, CallFields, AdoptIsTermVote DEF AppendMatch, HearLeader
<1>23. ASSUME NEW c \in BagToSet(calls), AppendIgnored(c) PROVE [TV!Next]_(TV!tvVars)
  BY <1>23, <1>c DEF AppendIgnored
<1>24. ASSUME NEW c \in BagToSet(calls), AppendReturned(c) PROVE [TV!Next]_(TV!tvVars)
  <2>1. c.src \in Server /\ c.term \in Nat
    BY <1>a, CallFields
  <2>2. TV!Raise(c.src)
    BY <1>24, <1>a, <2>1 DEF AppendReturned, TV!Raise, TypeOK
  <2> QED BY <2>1, <2>2, <1>b DEF TV!Next
<1>25. ASSUME NEW c \in BagToSet(calls), CallFails(c) PROVE [TV!Next]_(TV!tvVars)
  BY <1>25, <1>c DEF CallFails
<1>26. CASE UNCHANGED vars
  BY <1>26, <1>c DEF vars
<1> QED
  BY <1>1, <1>2, <1>3, <1>4, <1>5, <1>6, <1>7, <1>8, <1>9, <1>10, <1>11, <1>12,
     <1>13, <1>14, <1>15, <1>16, <1>17, <1>18, <1>19, <1>20, <1>21, <1>22, <1>23,
     <1>24, <1>25, <1>26
  DEF Next, stateLoop, RequestVote, AppendEntries, Return

(***************************************************************************)
(* Raft implements TermVote: a server's term never goes back and its vote  *)
(* in a term is never changed, whatever is lost, delayed or crashes.       *)
(***************************************************************************)
THEOREM ImplementsTermVote == Spec => TermVoteSpec
<1>1. Init => TV!Init
  BY BaseInit DEF Base, TypeOK, TV!Init, TV!TypeOK
<1> QED BY <1>1, BaseInvariant, TermVoteNext, PTL DEF Spec, TermVoteSpec, TV!Spec

(***************************************************************************)
(* In one step a term does not go back, nor is a vote in it changed.       *)
(***************************************************************************)
LEMMA VoteKeptStep ==
  ASSUME Base, [Next]_vars, NEW s \in Server
  PROVE  \/ currentTerm'[s] > currentTerm[s]
         \/ currentTerm'[s] = currentTerm[s] /\ votedFor[s] \in {Nil, votedFor'[s]}
<1>1. TypeOK /\ TypeOK' /\ [TV!Next]_(TV!tvVars)
  BY BaseNext, TermVoteNext DEF Base
<1>2. ASSUME NEW r \in Server, TV!Raise(r)
      PROVE  currentTerm'[s] > currentTerm[s] \/ UNCHANGED <<currentTerm[s], votedFor[s]>>
  BY <1>1, <1>2 DEF TV!Raise, TypeOK
<1>3. ASSUME NEW r \in Server, TV!Cast(r)
      PROVE  currentTerm'[s] = currentTerm[s] /\ votedFor[s] \in {Nil, votedFor'[s]}
  BY <1>1, <1>3 DEF TV!Cast, TypeOK
<1> QED BY <1>1, <1>2, <1>3 DEF TV!Next, TV!tvVars

-----------------------------------------------------------------------------
(***************************************************************************)
(* A granted vote in flight binds the voter.  Bound(r) says so of one call *)
(* r; what is bound stays bound, and only GrantVote makes new grants.      *)
(***************************************************************************)
Bound(r) ==
  r.kind = "RequestVoteReply" /\ r.voteGranted =>
    \/ currentTerm[r.dst] > r.asked
    \/ currentTerm[r.dst] = r.asked /\ votedFor[r.dst] = r.src

(***************************************************************************)
(* A vote that binds its voter still does after any step.                  *)
(***************************************************************************)
LEMMA StaysBound ==
  ASSUME Base, [Next]_vars, NEW r \in BagToSet(calls), Bound(r)
  PROVE  Bound(r)'
<1> SUFFICES ASSUME r.kind = "RequestVoteReply", r.voteGranted PROVE Bound(r)'
  BY DEF Bound
<1>1. TypeOK /\ TypeOK'
  BY BaseNext DEF Base
<1>2. r.src \in Server /\ r.dst \in Server /\ r.asked \in Nat /\ r.src # Nil
  BY <1>1, CallFields, ServersAssumption
<1>3. currentTerm[r.dst] \in Nat /\ currentTerm'[r.dst] \in Nat
  BY <1>1, <1>2 DEF TypeOK
<1>4. \/ currentTerm'[r.dst] > currentTerm[r.dst]
      \/ currentTerm'[r.dst] = currentTerm[r.dst] /\ votedFor[r.dst] \in {Nil, votedFor'[r.dst]}
  BY <1>2, VoteKeptStep
<1> QED BY <1>2, <1>3, <1>4 DEF Bound

(***************************************************************************)
(* VoteDurable is preserved: a call is old, or made by this step.          *)
(***************************************************************************)
LEMMA VoteDurableNext == Base /\ VoteDurable /\ [Next]_vars => VoteDurable'
<1> SUFFICES ASSUME Base, VoteDurable, [Next]_vars, NEW r \in BagToSet(calls)' PROVE Bound(r)'
  BY DEF VoteDurable, Bound
<1>a. ASSUME r \in BagToSet(calls) PROVE Bound(r)'
  BY <1>a, StaysBound DEF VoteDurable, Bound
<1>b. ASSUME r.kind = "RequestVoteReply" => ~r.voteGranted PROVE Bound(r)'
  BY <1>b DEF Bound
<1>c. TypeOK /\ CallsOK /\ NonEmptyLogs /\ NothingCommitted
  BY DEF Base, TypeOK, CallsOK
<1>1. ASSUME NEW s \in Server, LoopAsFollower(s) PROVE Bound(r)'
  BY <1>1, <1>a DEF LoopAsFollower
<1>2. ASSUME NEW s \in Server, LoopAsCandidate(s) PROVE Bound(r)'
  BY <1>2, <1>a DEF LoopAsCandidate
<1>3. ASSUME NEW s \in Server, doAsLeader(s) PROVE Bound(r)'
  BY <1>3, <1>a DEF doAsLeader
<1>4. ASSUME NEW s \in Server, FollowerTimeout(s) PROVE Bound(r)'
  BY <1>4, <1>a DEF FollowerTimeout
<1>5. ASSUME NEW s \in Server, FollowerVoted(s) PROVE Bound(r)'
  BY <1>5, <1>a DEF FollowerVoted
<1>6. ASSUME NEW s \in Server, FollowerHeard(s) PROVE Bound(r)'
  BY <1>6, <1>a DEF FollowerHeard
<1>7. ASSUME NEW s \in Server, StartElection(s) PROVE Bound(r)'
  BY <1>7, <1>a DEF StartElection
<1>8. ASSUME NEW s \in Server, becomeLeader(s) PROVE Bound(r)'
  BY <1>8, <1>a DEF becomeLeader
<1>9. ASSUME NEW s \in Server, StepAside(s) PROVE Bound(r)'
  BY <1>9, <1>a DEF StepAside
<1>10. ASSUME NEW s \in Server, ElectionTimeout(s) PROVE Bound(r)'
  BY <1>10, <1>a DEF ElectionTimeout
<1>11. ASSUME NEW s \in Server, StartCheck(s) PROVE Bound(r)'
  BY <1>11, <1>a DEF StartCheck
<1>12. ASSUME NEW s \in Server, Restart(s) PROVE Bound(r)'
  BY <1>12, <1>a DEF Restart
<1>13. ASSUME NEW s \in Server, sendVoteRequests(s) PROVE Bound(r)'
  <2>1. PICK R \in SUBSET RequestVoteArgs : Send(R)
    BY <1>13, <1>c, SentRequestsOK
  <2>2. R \in SUBSET Call /\ \A q \in R : q.kind = "RequestVote"
    BY DEF Call, RequestVoteArgs
  <2>3. r \in BagToSet(calls) \/ r \in R
    BY <1>c, <2>1, <2>2, SendOK
  <2> QED BY <1>a, <1>b, <2>2, <2>3
<1>14. ASSUME NEW s \in Server, NEW p \in Server, sendEntriesToPeer(s, p) PROVE Bound(r)'
  <2>1. PICK q \in AppendEntriesArgs : Send({q})
    BY <1>14, <1>c, SentEntriesOK
  <2>2. {q} \in SUBSET Call /\ q.kind = "AppendEntries"
    BY DEF Call, AppendEntriesArgs
  <2>3. r \in BagToSet(calls) \/ r = q
    BY <1>c, <2>1, <2>2, SendOK
  <2> QED BY <1>a, <1>b, <2>2, <2>3
<1>15. ASSUME NEW s \in Server, NEW p \in Server, Panic(s, p) PROVE Bound(r)'
  BY <1>15, <1>a DEF Panic
<1>16. ASSUME NEW s \in Server, NEW command \in Command, StartAppend(s, command) PROVE Bound(r)'
  BY <1>16, <1>a DEF StartAppend
<1>17. ASSUME NEW c \in BagToSet(calls), c.kind = "RequestVote", GrantVote(c) PROVE Bound(r)'
  <2>1. /\ c.src \in Server /\ c.dst \in Server /\ c.term \in Nat
        /\ VoteReply(c, TRUE) \in Call
    BY <1>17, <1>c, CallFields, VoteReplyOK DEF Call
  <2>2. r \in BagToSet(calls) \/ r = VoteReply(c, TRUE)
    BY <1>17, <1>c, <2>1, AnswerOK DEF GrantVote
  <2>3. currentTerm'[c.dst] = c.term /\ votedFor'[c.dst] = c.src
    <3>1. currentTerm \in [Server -> Nat] /\ votedFor \in [Server -> Server \cup {Nil}]
      BY <1>c DEF TypeOK
    <3>2. /\ c.term >= currentTerm[c.dst]
          /\ currentTerm' = [currentTerm EXCEPT ![c.dst] = TermAfter(c.dst, c.term)]
          /\ votedFor' = [votedFor EXCEPT ![c.dst] = c.src]
      BY <1>17 DEF GrantVote, Granted
    <3>3. TermAfter(c.dst, c.term) = c.term
      BY <2>1, <3>1, <3>2 DEF TermAfter
    <3> QED BY <2>1, <3>1, <3>2, <3>3
  <2>4. ASSUME r = VoteReply(c, TRUE) PROVE Bound(r)'
    BY <2>3, <2>4 DEF Bound, VoteReply
  <2> QED BY <1>a, <2>2, <2>4
<1>18. ASSUME NEW c \in BagToSet(calls), c.kind = "RequestVote", RefuseVote(c) PROVE Bound(r)'
  <2>1. VoteReply(c, FALSE) \in Call
    BY <1>18, <1>c, VoteReplyOK DEF Call
  <2>2. r \in BagToSet(calls) \/ r = VoteReply(c, FALSE)
    BY <1>18, <1>c, <2>1, AnswerOK DEF RefuseVote
  <2>3. ~VoteReply(c, FALSE).voteGranted
    BY DEF VoteReply
  <2> QED BY <1>a, <1>b, <2>2, <2>3
<1>19. ASSUME NEW c \in BagToSet(calls), VoteReturned(c) PROVE Bound(r)'
  BY <1>19, <1>a, <1>c, DoneOK DEF VoteReturned
<1>20. ASSUME NEW c \in BagToSet(calls), c.kind = "AppendEntries", AppendFromOldTerm(c) PROVE Bound(r)'
  <2>1. PICK q \in AppendEntriesReply : Answer(c, q)
    BY <1>20, <1>c, AppendAnswered
  <2>2. q \in Call /\ q.kind = "AppendEntriesReply"
    BY DEF Call, AppendEntriesReply
  <2>3. r \in BagToSet(calls) \/ r = q
    BY <1>c, <2>1, <2>2, AnswerOK
  <2> QED BY <1>a, <1>b, <2>2, <2>3
<1>21. ASSUME NEW c \in BagToSet(calls), c.kind = "AppendEntries", AppendMismatch(c) PROVE Bound(r)'
  <2>1. PICK q \in AppendEntriesReply : Answer(c, q)
    BY <1>21, <1>c, AppendAnswered
  <2>2. q \in Call /\ q.kind = "AppendEntriesReply"
    BY DEF Call, AppendEntriesReply
  <2>3. r \in BagToSet(calls) \/ r = q
    BY <1>c, <2>1, <2>2, AnswerOK
  <2> QED BY <1>a, <1>b, <2>2, <2>3
<1>22. ASSUME NEW c \in BagToSet(calls), c.kind = "AppendEntries", AppendMatch(c) PROVE Bound(r)'
  <2>1. PICK q \in AppendEntriesReply : Answer(c, q)
    BY <1>22, <1>c, AppendAnswered
  <2>2. q \in Call /\ q.kind = "AppendEntriesReply"
    BY DEF Call, AppendEntriesReply
  <2>3. r \in BagToSet(calls) \/ r = q
    BY <1>c, <2>1, <2>2, AnswerOK
  <2> QED BY <1>a, <1>b, <2>2, <2>3
<1>23. ASSUME NEW c \in BagToSet(calls), AppendIgnored(c) PROVE Bound(r)'
  BY <1>23, <1>a, <1>c, DoneOK DEF AppendIgnored
<1>24. ASSUME NEW c \in BagToSet(calls), AppendReturned(c) PROVE Bound(r)'
  BY <1>24, <1>a, <1>c, DoneOK DEF AppendReturned
<1>25. ASSUME NEW c \in BagToSet(calls), CallFails(c) PROVE Bound(r)'
  BY <1>25, <1>a, <1>c, DoneOK DEF CallFails
<1>26. CASE UNCHANGED vars
  BY <1>26, <1>a DEF vars
<1> QED
  BY <1>1, <1>2, <1>3, <1>4, <1>5, <1>6, <1>7, <1>8, <1>9, <1>10, <1>11, <1>12,
     <1>13, <1>14, <1>15, <1>16, <1>17, <1>18, <1>19, <1>20, <1>21, <1>22, <1>23,
     <1>24, <1>25, <1>26
  DEF Next, stateLoop, RequestVote, AppendEntries, Return

(***************************************************************************)
(* A vote that is granted is kept across crashes and restarts until the    *)
(* voter has left the term, however late the candidate hears of it.        *)
(***************************************************************************)
THEOREM VotesAreDurable == Spec => []VoteDurable
<1>1. Init => VoteDurable
  BY DEF Init, VoteDurable, EmptyBag, SetToBag, BagToSet
<1> QED BY <1>1, BaseInvariant, VoteDurableNext, PTL DEF Spec

-----------------------------------------------------------------------------
(***************************************************************************)
(* Logs.  Two ways to make an ordered log longer, and one to cut it.       *)
(***************************************************************************)
UpTo(entries, t) == \A i \in DOMAIN entries : entries[i].term <= t

(***************************************************************************)
(* Appending an entry of the newest term keeps a log ordered.              *)
(***************************************************************************)
LEMMA AppendOrdered ==
  ASSUME NEW l \in Seq(Entry), l # <<>>, Ordered(l), NEW e \in Entry, UpTo(l, e.term)
  PROVE  LET n == Append(l, e)
         IN  n # <<>> /\ n[1] = l[1] /\ Ordered(n) /\ UpTo(n, e.term)
<1> DEFINE n == Append(l, e)
<1>1. /\ n \in Seq(Entry) /\ Len(n) = Len(l) + 1 /\ Len(l) \in Nat \ {0}
      /\ DOMAIN n = 1 .. Len(l) + 1 /\ DOMAIN l = 1 .. Len(l)
      /\ \A i \in 1 .. Len(l) : n[i] = l[i]
      /\ n[Len(l) + 1] = e
  BY AppendProperties, EmptySeq, LenProperties
<1>2. e.term \in Nat /\ \A i \in 1 .. Len(l) : l[i].term \in Nat
  BY EntryOK DEF Entry
<1>3. Ordered(n)
  BY <1>1, <1>2 DEF Ordered, UpTo
<1>4. UpTo(n, e.term)
  BY <1>1, <1>2 DEF UpTo
<1> QED BY <1>1, <1>3, <1>4

(***************************************************************************)
(* So does concatenating an ordered sequence of terms no older.            *)
(***************************************************************************)
LEMMA ConcatOrdered ==
  ASSUME NEW k \in Seq(Entry), k # <<>>, NEW e \in Seq(Entry), Ordered(k), Ordered(e),
         NEW t \in Nat, UpTo(k, t), UpTo(e, t),
         \A i \in DOMAIN e : k[Len(k)].term <= e[i].term
  PROVE  LET n == k \o e
         IN  n # <<>> /\ n[1] = k[1] /\ Ordered(n) /\ UpTo(n, t)
<1> DEFINE n == k \o e
<1>1. /\ n \in Seq(Entry) /\ Len(n) = Len(k) + Len(e)
      /\ Len(k) \in Nat \ {0} /\ Len(e) \in Nat
      /\ DOMAIN n = 1 .. Len(k) + Len(e) /\ DOMAIN k = 1 .. Len(k) /\ DOMAIN e = 1 .. Len(e)
      /\ \A i \in 1 .. Len(k) + Len(e) : n[i] = IF i <= Len(k) THEN k[i] ELSE e[i - Len(k)]
  BY ConcatProperties, EmptySeq, LenProperties
<1>2. /\ \A i \in 1 .. Len(k) : k[i].term \in Nat
      /\ \A i \in 1 .. Len(e) : e[i].term \in Nat
  BY EntryOK
<1>3. ASSUME NEW i \in 1 .. Len(n) PROVE n[i].term <= t
  <2>1. CASE i <= Len(k)
    BY <1>1, <2>1 DEF UpTo
  <2>2. CASE i > Len(k)
    <3>1. i - Len(k) \in 1 .. Len(e)
      BY <1>1, <2>2
    <3> QED BY <1>1, <2>2, <3>1 DEF UpTo
  <2> QED BY <1>1, <2>1, <2>2
<1>4. ASSUME NEW i \in 1 .. Len(n), NEW j \in 1 .. Len(n), i <= j
      PROVE  n[i].term <= n[j].term
  <2>1. CASE j <= Len(k)
    BY <1>1, <1>4, <2>1 DEF Ordered
  <2>2. CASE i > Len(k)
    <3>1. i - Len(k) \in 1 .. Len(e) /\ j - Len(k) \in 1 .. Len(e) /\ i - Len(k) <= j - Len(k)
      BY <1>1, <1>4, <2>2
    <3> QED BY <1>1, <1>4, <2>2, <3>1 DEF Ordered
  <2>3. CASE i <= Len(k) /\ j > Len(k)
    <3>1. i \in 1 .. Len(k) /\ Len(k) \in 1 .. Len(k) /\ j - Len(k) \in 1 .. Len(e)
      BY <1>1, <1>4, <2>3
    <3>2. k[i].term <= k[Len(k)].term /\ k[Len(k)].term <= e[j - Len(k)].term
      BY <1>1, <3>1 DEF Ordered
    <3> QED BY <1>1, <1>2, <2>3, <3>1, <3>2
  <2> QED BY <1>1, <2>1, <2>2, <2>3
<1> QED BY <1>1, <1>3, <1>4 DEF Ordered, UpTo

(***************************************************************************)
(* The entries behind an index are ordered, and all from the log.          *)
(***************************************************************************)
LEMMA EntriesFromOrdered ==
  ASSUME TypeOK, NEW s \in Server, Ordered(log[s]), NEW n \in 1 .. Len(log[s])
  PROVE  /\ Ordered(EntriesFrom(s, n))
         /\ \A i \in DOMAIN EntriesFrom(s, n) :
              \E j \in DOMAIN log[s] : n < j /\ EntriesFrom(s, n)[i] = log[s][j]
<1>1. log[s] \in Seq(Entry) /\ Len(log[s]) \in Nat /\ DOMAIN log[s] = 1 .. Len(log[s])
  BY LenProperties DEF TypeOK
<1>2. /\ EntriesFrom(s, n) \in Seq(Entry) /\ Len(EntriesFrom(s, n)) = Len(log[s]) - n
      /\ \A i \in 1 .. Len(log[s]) - n : EntriesFrom(s, n)[i] = log[s][n + i]
  BY <1>1, SubSeqProperties DEF EntriesFrom
<1>3. DOMAIN EntriesFrom(s, n) = 1 .. Len(log[s]) - n
  BY <1>2, LenProperties
<1>4. \A i \in DOMAIN EntriesFrom(s, n) :
        n < n + i /\ n + i \in DOMAIN log[s] /\ EntriesFrom(s, n)[i] = log[s][n + i]
  BY <1>1, <1>2, <1>3
<1>5. ASSUME NEW i \in DOMAIN EntriesFrom(s, n), NEW j \in DOMAIN EntriesFrom(s, n), i <= j
      PROVE  EntriesFrom(s, n)[i].term <= EntriesFrom(s, n)[j].term
  <2>1. n + i <= n + j
    BY <1>1, <1>3, <1>5
  <2> QED BY <1>4, <2>1 DEF Ordered
<1> QED BY <1>4, <1>5 DEF Ordered

LogOK(s) == log[s] # <<>> /\ log[s][1] = Dummy /\ Ordered(log[s]) /\ UpTo(log[s], currentTerm[s])

ArgsOK(r) ==
  r.kind = "AppendEntries" =>
    /\ Ordered(r.entries)
    /\ r.prevLogTerm <= r.term
    /\ \A i \in DOMAIN r.entries :
         r.prevLogTerm <= r.entries[i].term /\ r.entries[i].term <= r.term

(***************************************************************************)
(* LogTermsOrdered speaks of each log and of each request.                 *)
(***************************************************************************)
LEMMA LogTermsParts ==
  LogTermsOrdered <=> /\ \A s \in Server : LogOK(s)
                      /\ \A r \in BagToSet(calls) : ArgsOK(r)
BY DEF LogTermsOrdered, LogOK, ArgsOK, UpTo

(***************************************************************************)
(* A server's log stays ordered: only Start and AppendEntries change it.   *)
(***************************************************************************)
LEMMA LogNext ==
  ASSUME Base, LogTermsOrdered, [Next]_vars, NEW q \in Server
  PROVE  LogOK(q)'
<1>a. TypeOK /\ TypeOK' /\ LogOK(q) /\ PersistedIsCurrent
  BY BaseNext, LogTermsParts DEF Base
<1>b. log[q] \in Seq(Entry) /\ log'[q] \in Seq(Entry)
      /\ currentTerm[q] \in Nat /\ currentTerm'[q] \in Nat /\ currentTerm'[q] >= currentTerm[q]
  <2>1. log[q] \in Seq(Entry) /\ log'[q] \in Seq(Entry)
        /\ currentTerm[q] \in Nat /\ currentTerm'[q] \in Nat
    BY <1>a DEF TypeOK
  <2>2. currentTerm'[q] > currentTerm[q] \/ currentTerm'[q] = currentTerm[q]
    BY VoteKeptStep
  <2> QED BY <2>1, <2>2
<1>c. ASSUME UNCHANGED log[q] PROVE LogOK(q)'
  <2>1. \A i \in DOMAIN log[q] : log[q][i].term \in Nat
    BY <1>b, EntryOK, LenProperties
  <2> QED BY <1>a, <1>b, <1>c, <2>1 DEF LogOK, UpTo
<1> USE DEF persistent
<1>1. ASSUME NEW s \in Server, LoopAsFollower(s) PROVE LogOK(q)'
  BY <1>1, <1>c DEF LoopAsFollower
<1>2. ASSUME NEW s \in Server, LoopAsCandidate(s) PROVE LogOK(q)'
  BY <1>2, <1>c DEF LoopAsCandidate
<1>3. ASSUME NEW s \in Server, doAsLeader(s) PROVE LogOK(q)'
  BY <1>3, <1>c DEF doAsLeader
<1>4. ASSUME NEW s \in Server, FollowerTimeout(s) PROVE LogOK(q)'
  BY <1>4, <1>c DEF FollowerTimeout
<1>5. ASSUME NEW s \in Server, FollowerVoted(s) PROVE LogOK(q)'
  BY <1>5, <1>c DEF FollowerVoted
<1>6. ASSUME NEW s \in Server, FollowerHeard(s) PROVE LogOK(q)'
  BY <1>6, <1>c DEF FollowerHeard
<1>7. ASSUME NEW s \in Server, StartElection(s) PROVE LogOK(q)'
  BY <1>7, <1>c DEF StartElection
<1>8. ASSUME NEW s \in Server, becomeLeader(s) PROVE LogOK(q)'
  BY <1>8, <1>c DEF becomeLeader
<1>9. ASSUME NEW s \in Server, StepAside(s) PROVE LogOK(q)'
  BY <1>9, <1>c DEF StepAside
<1>10. ASSUME NEW s \in Server, ElectionTimeout(s) PROVE LogOK(q)'
  BY <1>10, <1>c DEF ElectionTimeout
<1>11. ASSUME NEW s \in Server, sendVoteRequests(s) PROVE LogOK(q)'
  BY <1>11, <1>c DEF sendVoteRequests
<1>12. ASSUME NEW s \in Server, StartCheck(s) PROVE LogOK(q)'
  BY <1>12, <1>c DEF StartCheck
<1>13. ASSUME NEW s \in Server, Restart(s) PROVE LogOK(q)'
  BY <1>13, <1>a, <1>c DEF Restart, PersistedIsCurrent, TypeOK
<1>14. ASSUME NEW s \in Server, NEW p \in Server, sendEntriesToPeer(s, p) PROVE LogOK(q)'
  BY <1>14, <1>c DEF sendEntriesToPeer
<1>15. ASSUME NEW s \in Server, NEW p \in Server, Panic(s, p) PROVE LogOK(q)'
  BY <1>15, <1>c DEF Panic
<1>16. ASSUME NEW s \in Server, NEW command \in Command, StartAppend(s, command) PROVE LogOK(q)'
  <2> DEFINE e == [term |-> currentTerm[s], command |-> command]
  <2>1. CASE q = s
    <3>1. e \in Entry /\ log'[q] = Append(log[q], e) /\ currentTerm' = currentTerm
      BY <1>16, <1>a, <1>b, <2>1 DEF StartAppend, Entry, TypeOK
    <3> QED BY <1>a, <1>b, <2>1, <3>1, AppendOrdered DEF LogOK
  <2>2. CASE q # s
    BY <1>16, <1>a, <1>c, <2>2 DEF StartAppend, TypeOK
  <2> QED BY <2>1, <2>2
<1>17. ASSUME NEW c \in BagToSet(calls), GrantVote(c) PROVE LogOK(q)'
  BY <1>17, <1>c DEF GrantVote
<1>18. ASSUME NEW c \in BagToSet(calls), RefuseVote(c) PROVE LogOK(q)'
  BY <1>18, <1>c DEF RefuseVote
<1>19. ASSUME NEW c \in BagToSet(calls), VoteReturned(c) PROVE LogOK(q)'
  BY <1>19, <1>c DEF VoteReturned
<1>20. ASSUME NEW c \in BagToSet(calls), AppendFromOldTerm(c) PROVE LogOK(q)'
  BY <1>20, <1>c DEF AppendFromOldTerm
<1>21. ASSUME NEW c \in BagToSet(calls), AppendMismatch(c) PROVE LogOK(q)'
  BY <1>21, <1>c DEF AppendMismatch
<1>22. ASSUME NEW c \in BagToSet(calls), c.kind = "AppendEntries", AppendMatch(c) PROVE LogOK(q)'
  <2>1. CASE q = c.dst
    <3> DEFINE k == Kept(q, c)
    <3>1. /\ c.term \in Nat /\ c.prevLogIndex \in Nat /\ c.prevLogTerm \in Nat
          /\ c.entries \in Seq(Entry) /\ ArgsOK(c) /\ Matches(q, c) /\ c.term >= currentTerm[q]
      BY <1>22, <1>a, <2>1, CallFields, LogTermsParts DEF AppendMatch, HearLeader
    <3>2. log' = [log EXCEPT ![q] = k \o c.entries]
          /\ currentTerm' = [currentTerm EXCEPT ![q] = TermAfter(q, c.term)]
      BY <1>22, <2>1 DEF AppendMatch, HearLeader
    <3>3. log'[q] = k \o c.entries /\ currentTerm'[q] = c.term
      <4>1. TermAfter(q, c.term) = c.term
        BY <1>b, <3>1 DEF TermAfter
      <4> QED BY <1>a, <3>2, <4>1 DEF TypeOK
    <3>4. /\ k \in Seq(Entry) /\ Len(k) = c.prevLogIndex + 1
          /\ \A i \in 1 .. c.prevLogIndex + 1 : k[i] = log[q][i]
      BY <1>22, <1>a, <3>1, NewLogOK DEF Base
    <3>5. /\ DOMAIN k = 1 .. c.prevLogIndex + 1 /\ Len(log[q]) \in Nat
          /\ DOMAIN log[q] = 1 .. Len(log[q]) /\ c.prevLogIndex + 1 <= Len(log[q])
      BY <1>b, <3>1, <3>4, LenProperties DEF Matches, GetLastEntryIndex
    <3>6. k # <<>> /\ k[1] = Dummy /\ k[Len(k)].term = c.prevLogTerm /\ Ordered(k)
      <4>1. k # <<>>
        BY <3>1, <3>4, EmptySeq
      <4>2. k[1] = Dummy /\ k[Len(k)].term = c.prevLogTerm
        BY <1>a, <3>1, <3>4 DEF LogOK, Matches
      <4>3. Ordered(k)
        <5> SUFFICES ASSUME NEW i \in DOMAIN k, NEW j \in DOMAIN k, i <= j
                     PROVE  k[i].term <= k[j].term
          BY DEF Ordered
        <5>1. /\ k[i] = log[q][i] /\ k[j] = log[q][j]
              /\ i \in DOMAIN log[q] /\ j \in DOMAIN log[q]
          BY <3>1, <3>4, <3>5
        <5>2. log[q][i].term <= log[q][j].term
          BY <1>a, <5>1 DEF LogOK, Ordered
        <5> QED BY <5>1, <5>2
      <4> QED BY <4>1, <4>2, <4>3
    <3>7. UpTo(k, c.term)
      <4>1. \A i \in DOMAIN k : k[i].term = log[q][i].term /\ log[q][i].term \in Nat
                                /\ log[q][i].term <= currentTerm[q]
        BY <1>a, <1>b, <3>1, <3>4, <3>5, EntryOK DEF LogOK, UpTo
      <4> QED BY <1>b, <3>1, <4>1 DEF UpTo
    <3>8. /\ Ordered(c.entries) /\ UpTo(c.entries, c.term)
          /\ \A i \in DOMAIN c.entries : k[Len(k)].term <= c.entries[i].term
      BY <1>22, <3>1, <3>6 DEF ArgsOK, UpTo
    <3>9. /\ k \o c.entries # <<>> /\ (k \o c.entries)[1] = k[1]
          /\ Ordered(k \o c.entries) /\ UpTo(k \o c.entries, c.term)
      BY <3>1, <3>4, <3>6, <3>7, <3>8, ConcatOrdered
    <3> QED BY <3>3, <3>6, <3>9 DEF LogOK
  <2>2. CASE q # c.dst
    BY <1>22, <1>a, <1>c, <2>2 DEF AppendMatch, TypeOK
  <2> QED BY <2>1, <2>2
<1>23. ASSUME NEW c \in BagToSet(calls), AppendIgnored(c) PROVE LogOK(q)'
  BY <1>23, <1>c DEF AppendIgnored
<1>24. ASSUME NEW c \in BagToSet(calls), AppendReturned(c) PROVE LogOK(q)'
  BY <1>24, <1>c DEF AppendReturned
<1>25. ASSUME NEW c \in BagToSet(calls), CallFails(c) PROVE LogOK(q)'
  BY <1>25, <1>c DEF CallFails
<1>26. CASE UNCHANGED vars
  BY <1>26, <1>c DEF vars
<1> QED
  BY <1>1, <1>2, <1>3, <1>4, <1>5, <1>6, <1>7, <1>8, <1>9, <1>10, <1>11, <1>12,
     <1>13, <1>14, <1>15, <1>16, <1>17, <1>18, <1>19, <1>20, <1>21, <1>22, <1>23,
     <1>24, <1>25, <1>26
  DEF Next, stateLoop, RequestVote, AppendEntries, Return

(***************************************************************************)
(* Requests stay ordered: only sendEntriesToPeer makes new ones.           *)
(***************************************************************************)
LEMMA ArgsNext ==
  ASSUME Base, LogTermsOrdered, [Next]_vars, NEW r \in BagToSet(calls)'
  PROVE  ArgsOK(r)
<1>a. TypeOK /\ CallsOK /\ NonEmptyLogs /\ NothingCommitted
  BY DEF Base, TypeOK, CallsOK
<1>b. ASSUME r \in BagToSet(calls) PROVE ArgsOK(r)
  BY <1>b, LogTermsParts
<1>c. ASSUME r.kind # "AppendEntries" PROVE ArgsOK(r)
  BY <1>c DEF ArgsOK
<1>1. ASSUME NEW s \in Server, LoopAsFollower(s) PROVE ArgsOK(r)
  BY <1>1, <1>b DEF LoopAsFollower
<1>2. ASSUME NEW s \in Server, LoopAsCandidate(s) PROVE ArgsOK(r)
  BY <1>2, <1>b DEF LoopAsCandidate
<1>3. ASSUME NEW s \in Server, doAsLeader(s) PROVE ArgsOK(r)
  BY <1>3, <1>b DEF doAsLeader
<1>4. ASSUME NEW s \in Server, FollowerTimeout(s) PROVE ArgsOK(r)
  BY <1>4, <1>b DEF FollowerTimeout
<1>5. ASSUME NEW s \in Server, FollowerVoted(s) PROVE ArgsOK(r)
  BY <1>5, <1>b DEF FollowerVoted
<1>6. ASSUME NEW s \in Server, FollowerHeard(s) PROVE ArgsOK(r)
  BY <1>6, <1>b DEF FollowerHeard
<1>7. ASSUME NEW s \in Server, StartElection(s) PROVE ArgsOK(r)
  BY <1>7, <1>b DEF StartElection
<1>8. ASSUME NEW s \in Server, becomeLeader(s) PROVE ArgsOK(r)
  BY <1>8, <1>b DEF becomeLeader
<1>9. ASSUME NEW s \in Server, StepAside(s) PROVE ArgsOK(r)
  BY <1>9, <1>b DEF StepAside
<1>10. ASSUME NEW s \in Server, ElectionTimeout(s) PROVE ArgsOK(r)
  BY <1>10, <1>b DEF ElectionTimeout
<1>11. ASSUME NEW s \in Server, StartCheck(s) PROVE ArgsOK(r)
  BY <1>11, <1>b DEF StartCheck
<1>12. ASSUME NEW s \in Server, Restart(s) PROVE ArgsOK(r)
  BY <1>12, <1>b DEF Restart
<1>13. ASSUME NEW s \in Server, sendVoteRequests(s) PROVE ArgsOK(r)
  <2>1. PICK R \in SUBSET RequestVoteArgs : Send(R)
    BY <1>13, <1>a, SentRequestsOK
  <2>2. R \in SUBSET Call /\ \A x \in R : x.kind = "RequestVote"
    BY DEF Call, RequestVoteArgs
  <2> QED BY <1>a, <1>b, <1>c, <2>1, <2>2, SendOK
<1>14. ASSUME NEW s \in Server, NEW p \in Server, sendEntriesToPeer(s, p) PROVE ArgsOK(r)
  <2> DEFINE next == nextIndex[s][p]
  <2>1. PICK x \in AppendEntriesArgs : Send({x}) /\ x.term = currentTerm[s]
          /\ x.prevLogTerm = log[s][next].term /\ x.entries = EntriesFrom(s, next)
    BY <1>14, <1>a, SentEntriesOK
  <2>2. {x} \in SUBSET Call /\ x.kind = "AppendEntries"
    BY DEF Call, AppendEntriesArgs
  <2>3. log[s] \in Seq(Entry) /\ next \in Nat \ {0} /\ LogOK(s) /\ currentTerm[s] \in Nat
    BY <1>a, LogTermsParts DEF TypeOK
  <2>4. next \in 1 .. Len(log[s]) /\ DOMAIN log[s] = 1 .. Len(log[s])
    BY <1>14, <2>3, LenProperties DEF sendEntriesToPeer
  <2>5. \A i \in DOMAIN log[s] : log[s][i].term \in Nat /\ log[s][i].term <= currentTerm[s]
    BY <2>3, <2>4, EntryOK DEF LogOK, UpTo
  <2>6. ArgsOK(x)
    <3>1. Ordered(x.entries) /\ x.prevLogTerm <= x.term
      BY <1>a, <2>1, <2>3, <2>4, <2>5, EntriesFromOrdered DEF LogOK
    <3>2. ASSUME NEW i \in DOMAIN x.entries
          PROVE  x.prevLogTerm <= x.entries[i].term /\ x.entries[i].term <= x.term
      <4>1. PICK j \in DOMAIN log[s] : next < j /\ x.entries[i] = log[s][j]
        BY <1>a, <2>1, <2>3, <2>4, EntriesFromOrdered DEF LogOK
      <4>2. log[s][next].term <= log[s][j].term
        BY <2>3, <2>4, <4>1 DEF LogOK, Ordered
      <4> QED BY <2>1, <2>5, <4>1, <4>2
    <3> QED BY <3>1, <3>2 DEF ArgsOK
  <2> QED BY <1>a, <1>b, <2>1, <2>2, <2>6, SendOK
<1>15. ASSUME NEW s \in Server, NEW p \in Server, Panic(s, p) PROVE ArgsOK(r)
  BY <1>15, <1>b DEF Panic
<1>16. ASSUME NEW s \in Server, NEW command \in Command, StartAppend(s, command) PROVE ArgsOK(r)
  BY <1>16, <1>b DEF StartAppend
<1>17. ASSUME NEW c \in BagToSet(calls), c.kind = "RequestVote", GrantVote(c) PROVE ArgsOK(r)
  BY <1>17, <1>a, <1>b, <1>c, VoteReplyOK, ReplyOK DEF GrantVote
<1>18. ASSUME NEW c \in BagToSet(calls), c.kind = "RequestVote", RefuseVote(c) PROVE ArgsOK(r)
  BY <1>18, <1>a, <1>b, <1>c, VoteReplyOK, ReplyOK DEF RefuseVote
<1>19. ASSUME NEW c \in BagToSet(calls), VoteReturned(c) PROVE ArgsOK(r)
  BY <1>19, <1>a, <1>b, DoneOK DEF VoteReturned
<1>20. ASSUME NEW c \in BagToSet(calls), c.kind = "AppendEntries", AppendFromOldTerm(c) PROVE ArgsOK(r)
  BY <1>20, <1>a, <1>b, <1>c, AppendAnswered, ReplyOK
<1>21. ASSUME NEW c \in BagToSet(calls), c.kind = "AppendEntries", AppendMismatch(c) PROVE ArgsOK(r)
  BY <1>21, <1>a, <1>b, <1>c, AppendAnswered, ReplyOK
<1>22. ASSUME NEW c \in BagToSet(calls), c.kind = "AppendEntries", AppendMatch(c) PROVE ArgsOK(r)
  BY <1>22, <1>a, <1>b, <1>c, AppendAnswered, ReplyOK
<1>23. ASSUME NEW c \in BagToSet(calls), AppendIgnored(c) PROVE ArgsOK(r)
  BY <1>23, <1>a, <1>b, DoneOK DEF AppendIgnored
<1>24. ASSUME NEW c \in BagToSet(calls), AppendReturned(c) PROVE ArgsOK(r)
  BY <1>24, <1>a, <1>b, DoneOK DEF AppendReturned
<1>25. ASSUME NEW c \in BagToSet(calls), CallFails(c) PROVE ArgsOK(r)
  BY <1>25, <1>a, <1>b, DoneOK DEF CallFails
<1>26. CASE UNCHANGED vars
  BY <1>26, <1>b DEF vars
<1> QED
  BY <1>1, <1>2, <1>3, <1>4, <1>5, <1>6, <1>7, <1>8, <1>9, <1>10, <1>11, <1>12,
     <1>13, <1>14, <1>15, <1>16, <1>17, <1>18, <1>19, <1>20, <1>21, <1>22, <1>23,
     <1>24, <1>25, <1>26
  DEF Next, stateLoop, RequestVote, AppendEntries, Return

(***************************************************************************)
(* However AppendEntries are lost, repeated by retries or reordered, the   *)
(* terms in a log never go down and never pass the server's own.           *)
(***************************************************************************)
THEOREM LogTermsStayOrdered == Spec => []LogTermsOrdered
<1>1. Init => LogTermsOrdered
  BY SavedAssumption DEF Init, LogTermsOrdered, EmptyBag, SetToBag, BagToSet
<1>2. Base /\ LogTermsOrdered /\ [Next]_vars => LogTermsOrdered'
  <2> SUFFICES ASSUME Base, LogTermsOrdered, [Next]_vars PROVE LogTermsOrdered'
    OBVIOUS
  <2>1. (\A s \in Server : LogOK(s)') /\ \A r \in BagToSet(calls)' : ArgsOK(r)
    BY LogNext, ArgsNext
  <2> QED BY <2>1, LogTermsParts DEF LogTermsOrdered, LogOK, ArgsOK, UpTo
<1> QED BY <1>1, <1>2, BaseInvariant, PTL DEF Spec

=============================================================================
