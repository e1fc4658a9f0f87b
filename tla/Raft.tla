-------------------------------- MODULE Raft --------------------------------
(***************************************************************************)
(* The Raft peer of trab2/raft/raft.go, a cluster of them, and the calls   *)
(* that labrpc carries between them.                                       *)
(*                                                                         *)
(* Every critical section of rf.mu is one action.  A goroutine that waits  *)
(* for rf.mu is a counter (asking, sending, starting); the goroutine that  *)
(* runs stateLoop is the program counter pc.  The buffered channels carry  *)
(* only "true", so each is the number of tokens in it.  A handler that     *)
(* would block on a full channel is not enabled here, as if its request    *)
(* were still on the way.                                                  *)
(*                                                                         *)
(* Indices into log are those of the code plus one: log[s][1] is the       *)
(* entry that Make puts at index 0.                                        *)
(***************************************************************************)
EXTENDS Integers, Sequences, FiniteSets, Bags, FiniteSetsExt

CONSTANTS
  Server,       \* the peers
  Command,      \* the commands given to Start
  Nil,          \* -1: no vote, and the command of the entry at index 0
  Saved,        \* what each server's persister holds when it is first made
  ChanCap,      \* DefaultChannelBufferSize
  MaxTerm,      \* bound: the last term that each server enters by a timeout
  MaxLog,       \* bound: no Start begins on a longer log (the dummy counted)
  MaxCalls,     \* bound: calls in flight
  MaxPending,   \* bound: goroutines of one kind that wait for rf.mu
  MaxRestarts   \* bound: restarts of each server

Follower  == "Follower"
Candidate == "Candidate"
Leader    == "Leader"

Entry == [term : Nat, command : Command \cup {Nil}]
Dummy == [term |-> 0, command |-> Nil]

(***************************************************************************)
(* The log that a server starts with: Make's own entry, then entries in    *)
(* the order of their terms.                                               *)
(***************************************************************************)
Ordered(entries) ==
  \A i, j \in DOMAIN entries : i <= j => entries[i].term <= entries[j].term

SavedState == [currentTerm : Nat, votedFor : Server \cup {Nil}, log : Seq(Entry)]

ASSUME ServersAssumption == IsFiniteSet(Server) /\ Nil \notin Server
ASSUME SavedAssumption ==
  /\ Saved \in [Server -> SavedState]
  /\ \A s \in Server :
       /\ Saved[s].log # <<>> /\ Saved[s].log[1] = Dummy
       /\ Ordered(Saved[s].log)
       /\ \A i \in DOMAIN Saved[s].log : Saved[s].log[i].term <= Saved[s].currentTerm
ASSUME BoundsAssumption ==
  /\ ChanCap \in Nat /\ MaxTerm \in [Server -> Nat] /\ MaxLog \in Nat
  /\ MaxCalls \in Nat /\ MaxPending \in Nat /\ MaxRestarts \in Nat

VARIABLES
  currentTerm, votedFor, log,                   \* the state that is persisted,
  disk,                                         \* and the persister's copy of it
  state, votes,                                 \* the rest of struct Raft
  commitIndex, lastApplied, nextIndex, matchIndex,
  requestVoteReplied, winner, appendEntriesRec, \* tokens in each channel
  pc,                                           \* where stateLoop is
  asking,       \* sendVoteRequests goroutines that have not locked rf.mu
  sending,      \* sendEntriesToPeer goroutines likewise, per peer
  starting,     \* Start calls that have read state and not locked rf.mu
  life,         \* which incarnation of the server this is
  calls         \* the bag of requests and replies in flight

persistent == <<currentTerm, votedFor, log, disk>>
replication == <<commitIndex, lastApplied, nextIndex, matchIndex>>
channels   == <<requestVoteReplied, winner, appendEntriesRec>>
goroutines == <<asking, sending, starting>>
vars == <<persistent, state, votes, replication, channels, pc, goroutines, life, calls>>

(***************************************************************************)
(* The calls.  src made the call, in incarnation life; dst serves it.  A   *)
(* reply remembers the arguments' term ("asked"): the closure that waits   *)
(* for it holds them.                                                      *)
(***************************************************************************)
RequestVoteArgs ==
  [kind : {"RequestVote"}, src : Server, dst : Server, life : Nat,
   term : Nat, lastLogIndex : Nat, lastLogTerm : Nat]
RequestVoteReply ==
  [kind : {"RequestVoteReply"}, src : Server, dst : Server, life : Nat,
   asked : Nat, term : Nat, voteGranted : BOOLEAN]
AppendEntriesArgs ==
  [kind : {"AppendEntries"}, src : Server, dst : Server, life : Nat,
   term : Nat, prevLogIndex : Nat, prevLogTerm : Nat, entries : Seq(Entry),
   leaderCommit : Nat]
AppendEntriesReply ==
  [kind : {"AppendEntriesReply"}, src : Server, dst : Server, life : Nat,
   term : Nat, success : BOOLEAN, conflictIndex : Nat, conflictTerm : Int]

Call == RequestVoteArgs \cup RequestVoteReply \cup AppendEntriesArgs
          \cup AppendEntriesReply

Alive(s) == pc[s] # "dead"
Returns(c) == Alive(c.src) /\ life[c.src] = c.life

Send(S)      == calls' = calls (+) SetToBag(S)
Answer(c, r) == calls' = (calls (-) SetToBag({c})) (+) SetToBag({r})
Done(c)      == calls' = calls (-) SetToBag({c})
Room(n)      == BagCardinality(calls) + n <= MaxCalls

Majority == Cardinality(Server) \div 2

GetLastEntryIndexOffByOne(s) == Len(log[s]) - 2      \* mutant
GetLastEntryIndex(s) == Len(log[s]) - 1
GetLastEntryTerm(s)  == log[s][Len(log[s])].term

(***************************************************************************)
(* rf.persist(), called with the new values in memory.                     *)
(***************************************************************************)
persistWithoutVote(s) ==                             \* mutant
  disk' = [disk EXCEPT ![s].currentTerm = currentTerm'[s], ![s].log = log'[s]]

persist(s) ==
  disk' = [disk EXCEPT ![s] = [currentTerm |-> currentTerm'[s],
                               votedFor    |-> votedFor'[s],
                               log         |-> log'[s]]]

(***************************************************************************)
(* Make on every server.  readPersist ends before stateLoop's first timer  *)
(* can fire, so the two are one step.                                      *)
(***************************************************************************)
Init ==
  /\ currentTerm = [s \in Server |-> Saved[s].currentTerm]
  /\ votedFor = [s \in Server |-> Saved[s].votedFor]
  /\ log = [s \in Server |-> Saved[s].log]
  /\ disk = Saved
  /\ state = [s \in Server |-> Follower]
  /\ votes = [s \in Server |-> 0]
  /\ commitIndex = [s \in Server |-> 0]
  /\ lastApplied = [s \in Server |-> 0]
  /\ nextIndex = [s \in Server |-> [p \in Server |-> 1]]
  /\ matchIndex = [s \in Server |-> [p \in Server |-> 0]]
  /\ requestVoteReplied = [s \in Server |-> 0]
  /\ winner = [s \in Server |-> 0]
  /\ appendEntriesRec = [s \in Server |-> 0]
  /\ pc = [s \in Server |-> "loop"]
  /\ asking = [s \in Server |-> 0]
  /\ sending = [s \in Server |-> [p \in Server |-> 0]]
  /\ starting = [s \in Server |-> 0]
  /\ life = [s \in Server |-> 0]
  /\ calls = EmptyBag

-----------------------------------------------------------------------------
(***************************************************************************)
(* stateLoop: the state is read under rf.mu and acted on afterwards.       *)
(***************************************************************************)
LoopAsFollower(s) ==
  /\ pc[s] = "loop" /\ state[s] = Follower
  /\ pc' = [pc EXCEPT ![s] = "Follower"]
  /\ UNCHANGED <<persistent, state, votes, replication, channels, goroutines, life, calls>>

LoopAsCandidate(s) ==
  /\ pc[s] = "loop" /\ state[s] = Candidate
  /\ pc' = [pc EXCEPT ![s] = "Candidate"]
  /\ UNCHANGED <<persistent, state, votes, replication, channels, goroutines, life, calls>>

(***************************************************************************)
(* doAsLeader starts one goroutine per peer and sleeps; then the loop      *)
(* reads the state again.                                                  *)
(***************************************************************************)
doAsLeader(s) ==
  /\ pc[s] = "loop" /\ state[s] = Leader
  /\ \A p \in Server \ {s} : sending[s][p] < MaxPending
  /\ sending' = [sending EXCEPT ![s] =
       [p \in Server |-> IF p = s THEN @[p] ELSE @[p] + 1]]
  /\ UNCHANGED <<persistent, state, votes, replication, channels, pc, asking, starting, life, calls>>

(***************************************************************************)
(* doAsFollower: the three cases of its select.                            *)
(***************************************************************************)
FollowerTimeout(s) ==
  /\ pc[s] = "Follower" /\ currentTerm[s] < MaxTerm[s]
  /\ state' = [state EXCEPT ![s] = Candidate]
  /\ pc' = [pc EXCEPT ![s] = "loop"]
  /\ UNCHANGED <<persistent, votes, replication, channels, goroutines, life, calls>>

FollowerVoted(s) ==
  /\ pc[s] = "Follower" /\ requestVoteReplied[s] > 0
  /\ requestVoteReplied' = [requestVoteReplied EXCEPT ![s] = @ - 1]
  /\ pc' = [pc EXCEPT ![s] = "loop"]
  /\ UNCHANGED <<persistent, state, votes, replication, winner, appendEntriesRec, goroutines, life, calls>>

FollowerHeard(s) ==
  /\ pc[s] = "Follower" /\ appendEntriesRec[s] > 0
  /\ appendEntriesRec' = [appendEntriesRec EXCEPT ![s] = @ - 1]
  /\ pc' = [pc EXCEPT ![s] = "loop"]
  /\ UNCHANGED <<persistent, state, votes, replication, requestVoteReplied, winner, goroutines, life, calls>>

(***************************************************************************)
(* doAsCandidate: the critical section that opens the election, whatever   *)
(* state has become since stateLoop read it, ...                           *)
(***************************************************************************)
StartElection(s) ==
  /\ pc[s] = "Candidate" /\ currentTerm[s] < MaxTerm[s] /\ asking[s] < MaxPending
  /\ currentTerm' = [currentTerm EXCEPT ![s] = @ + 1]
  /\ votedFor' = [votedFor EXCEPT ![s] = s]
  /\ votes' = [votes EXCEPT ![s] = 1]
  /\ UNCHANGED log
  /\ persist(s)
  /\ asking' = [asking EXCEPT ![s] = @ + 1]
  /\ pc' = [pc EXCEPT ![s] = "election"]
  /\ UNCHANGED <<state, replication, channels, sending, starting, life, calls>>

(***************************************************************************)
(* ... and the three cases of the select that waits for its outcome.  A    *)
(* token from winner leads to becomeLeader, which looks at nothing else;   *)
(* a token from appendEntriesRec sets the state outside rf.mu.             *)
(***************************************************************************)
becomeLeader(s) ==
  /\ pc[s] = "election" /\ winner[s] > 0
  /\ winner' = [winner EXCEPT ![s] = @ - 1]
  /\ state' = [state EXCEPT ![s] = Leader]
  /\ nextIndex' = [nextIndex EXCEPT ![s] = [p \in Server |-> GetLastEntryIndex(s) + 1]]
  /\ matchIndex' = [matchIndex EXCEPT ![s] = [p \in Server |-> 0]]
  /\ pc' = [pc EXCEPT ![s] = "loop"]
  /\ UNCHANGED <<persistent, votes, commitIndex, lastApplied, requestVoteReplied,
                 appendEntriesRec, goroutines, life, calls>>

StepAside(s) ==
  /\ pc[s] = "election" /\ appendEntriesRec[s] > 0
  /\ appendEntriesRec' = [appendEntriesRec EXCEPT ![s] = @ - 1]
  /\ state' = [state EXCEPT ![s] = Follower]
  /\ pc' = [pc EXCEPT ![s] = "loop"]
  /\ UNCHANGED <<persistent, votes, replication, requestVoteReplied, winner, goroutines, life, calls>>

ElectionTimeout(s) ==
  /\ pc[s] = "election"
  /\ pc' = [pc EXCEPT ![s] = "loop"]
  /\ UNCHANGED <<persistent, state, votes, replication, channels, goroutines, life, calls>>

-----------------------------------------------------------------------------
(***************************************************************************)
(* sendVoteRequests, in its own goroutine: the arguments are read when it  *)
(* gets rf.mu, not when the election started.                              *)
(***************************************************************************)
sendVoteRequests(s) ==
  /\ asking[s] > 0 /\ Room(Cardinality(Server) - 1)
  /\ asking' = [asking EXCEPT ![s] = @ - 1]
  /\ Send({[kind |-> "RequestVote", src |-> s, dst |-> p, life |-> life[s],
            term |-> currentTerm[s],
            lastLogIndex |-> GetLastEntryIndex(s),
            lastLogTerm |-> GetLastEntryTerm(s)] : p \in Server \ {s}})
  /\ UNCHANGED <<persistent, state, votes, replication, channels, pc, sending, starting, life>>

(***************************************************************************)
(* sendEntriesToPeer, likewise: neither the state nor the term is checked  *)
(* again.  A log cut below nextIndex in between is an index out of range.  *)
(***************************************************************************)
EntriesNone(s, next) == <<>>                         \* mutant
EntriesFrom(s, next) == SubSeq(log[s], next + 1, Len(log[s]))

sendEntriesToPeer(s, p) ==
  LET next == nextIndex[s][p]
  IN  /\ sending[s][p] > 0 /\ next <= Len(log[s]) /\ Room(1)
      /\ sending' = [sending EXCEPT ![s][p] = @ - 1]
      /\ Send({[kind |-> "AppendEntries", src |-> s, dst |-> p, life |-> life[s],
                term |-> currentTerm[s],
                prevLogIndex |-> next - 1,
                prevLogTerm |-> log[s][next].term,
                entries |-> EntriesFrom(s, next),
                leaderCommit |-> commitIndex[s]]})
      /\ UNCHANGED <<persistent, state, votes, replication, channels, pc, asking, starting, life>>

Panic(s, p) ==
  /\ sending[s][p] > 0 /\ nextIndex[s][p] > Len(log[s])
  /\ pc' = [pc EXCEPT ![s] = "dead"]
  /\ asking' = [asking EXCEPT ![s] = 0]
  /\ sending' = [sending EXCEPT ![s] = [q \in Server |-> 0]]
  /\ starting' = [starting EXCEPT ![s] = 0]
  /\ UNCHANGED <<persistent, state, votes, replication, channels, life, calls>>

(***************************************************************************)
(* Start reads the state without rf.mu, and appends under it.              *)
(***************************************************************************)
StartCheck(s) ==
  /\ Alive(s) /\ state[s] = Leader
  /\ starting[s] < MaxPending /\ Len(log[s]) <= MaxLog
  /\ starting' = [starting EXCEPT ![s] = @ + 1]
  /\ UNCHANGED <<persistent, state, votes, replication, channels, pc, asking, sending, life, calls>>

StartAppendUnsaved(s, command) ==                    \* mutant
  /\ starting[s] > 0
  /\ starting' = [starting EXCEPT ![s] = @ - 1]
  /\ log' = [log EXCEPT ![s] = Append(@, [term |-> currentTerm[s], command |-> command])]
  /\ UNCHANGED <<currentTerm, votedFor, disk, state, votes, replication, channels, pc,
                 asking, sending, life, calls>>

StartAppend(s, command) ==
  /\ starting[s] > 0
  /\ starting' = [starting EXCEPT ![s] = @ - 1]
  /\ log' = [log EXCEPT ![s] = Append(@, [term |-> currentTerm[s], command |-> command])]
  /\ UNCHANGED <<currentTerm, votedFor>>
  /\ persist(s)
  /\ UNCHANGED <<state, votes, replication, channels, pc, asking, sending, life, calls>>

-----------------------------------------------------------------------------
(***************************************************************************)
(* Adopting a term: a newer one makes the server a follower that has not   *)
(* voted, an equal or older one changes nothing.                           *)
(***************************************************************************)
TermAfterForgotten(s, t) == currentTerm[s]           \* mutant
TermAfter(s, t)  == IF t > currentTerm[s] THEN t ELSE currentTerm[s]
VoteAfterEqual(s, t) == IF t >= currentTerm[s] THEN Nil ELSE votedFor[s]   \* mutant
VoteAfter(s, t)  == IF t > currentTerm[s] THEN Nil ELSE votedFor[s]
StateAfter(s, t) == IF t > currentTerm[s] THEN Follower ELSE state[s]

UpToDate(s, c) ==
  \/ c.lastLogTerm > GetLastEntryTerm(s)
  \/ c.lastLogTerm = GetLastEntryTerm(s) /\ c.lastLogIndex >= GetLastEntryIndex(s)

Granted(s, c) ==
  /\ c.term >= currentTerm[s]
  /\ VoteAfter(s, c.term) \in {Nil, c.src}
  /\ UpToDate(s, c)

VoteReply(c, granted) ==
  [kind |-> "RequestVoteReply", src |-> c.src, dst |-> c.dst, life |-> c.life,
   asked |-> c.term, term |-> currentTerm[c.dst], voteGranted |-> granted]

(***************************************************************************)
(* The RequestVote handler: its two outcomes.  The reply's term is the one *)
(* the handler found.                                                      *)
(***************************************************************************)
GrantVote(c) ==
  LET s == c.dst
  IN  /\ Alive(s) /\ Granted(s, c) /\ requestVoteReplied[s] < ChanCap
      /\ currentTerm' = [currentTerm EXCEPT ![s] = TermAfter(s, c.term)]
      /\ state' = [state EXCEPT ![s] = StateAfter(s, c.term)]
      /\ votedFor' = [votedFor EXCEPT ![s] = c.src]
      /\ requestVoteReplied' = [requestVoteReplied EXCEPT ![s] = @ + 1]
      /\ UNCHANGED log
      /\ persist(s)
      /\ Answer(c, VoteReply(c, TRUE))
      /\ UNCHANGED <<votes, replication, winner, appendEntriesRec, pc, goroutines, life>>

RefuseVote(c) ==
  LET s == c.dst
  IN  /\ Alive(s) /\ ~Granted(s, c)
      /\ currentTerm' = [currentTerm EXCEPT ![s] = TermAfter(s, c.term)]
      /\ state' = [state EXCEPT ![s] = StateAfter(s, c.term)]
      /\ votedFor' = [votedFor EXCEPT ![s] = VoteAfter(s, c.term)]
      /\ UNCHANGED log
      /\ persist(s)
      /\ Answer(c, VoteReply(c, FALSE))
      /\ UNCHANGED <<votes, replication, channels, pc, goroutines, life>>

(***************************************************************************)
(* The rest of sendRequestVote, when the call has returned.  A grant is    *)
(* counted by any candidate, whichever of its elections asked for it, and  *)
(* every vote past the majority is one more token in winner.               *)
(***************************************************************************)
Counts(s, c) == StateAfter(s, c.term) = Candidate /\ c.voteGranted

VoteReturned(c) ==
  LET s == c.src
  IN  /\ Returns(c)
      /\ currentTerm' = [currentTerm EXCEPT ![s] = TermAfter(s, c.term)]
      /\ state' = [state EXCEPT ![s] = StateAfter(s, c.term)]
      /\ votedFor' = [votedFor EXCEPT ![s] = VoteAfter(s, c.term)]
      /\ UNCHANGED log
      /\ persist(s)
      /\ Done(c)
      /\ \/ /\ ~Counts(s, c)
            /\ UNCHANGED <<votes, winner>>
         \/ /\ Counts(s, c) /\ votes[s] + 1 <= Majority
            /\ votes' = [votes EXCEPT ![s] = @ + 1]
            /\ UNCHANGED winner
         \/ /\ Counts(s, c) /\ votes[s] + 1 > Majority /\ winner[s] < ChanCap
            /\ votes' = [votes EXCEPT ![s] = @ + 1]
            /\ winner' = [winner EXCEPT ![s] = @ + 1]
      /\ UNCHANGED <<replication, requestVoteReplied, appendEntriesRec, pc, goroutines, life>>

-----------------------------------------------------------------------------
(***************************************************************************)
(* The AppendEntries handler: an older term, ...                           *)
(***************************************************************************)
AppendReply(c, term, success, index, conflictTerm) ==
  [kind |-> "AppendEntriesReply", src |-> c.src, dst |-> c.dst, life |-> c.life,
   term |-> term, success |-> success, conflictIndex |-> index,
   conflictTerm |-> conflictTerm]

AppendFromOldTerm(c) ==
  LET s == c.dst
  IN  /\ Alive(s) /\ c.term < currentTerm[s]
      /\ UNCHANGED <<currentTerm, votedFor, log>>
      /\ persist(s)
      /\ Answer(c, AppendReply(c, currentTerm[s], FALSE, 0, 0))
      /\ UNCHANGED <<state, votes, replication, channels, pc, goroutines, life>>

(***************************************************************************)
(* ... and what it does for any other: a token, then the term.             *)
(***************************************************************************)
HearLeader(s, t) ==
  /\ Alive(s) /\ t >= currentTerm[s] /\ appendEntriesRec[s] < ChanCap
  /\ appendEntriesRec' = [appendEntriesRec EXCEPT ![s] = @ + 1]
  /\ currentTerm' = [currentTerm EXCEPT ![s] = TermAfter(s, t)]
  /\ state' = [state EXCEPT ![s] = StateAfter(s, t)]
  /\ votedFor' = [votedFor EXCEPT ![s] = VoteAfter(s, t)]

Matches(s, c) ==
  /\ GetLastEntryIndex(s) >= c.prevLogIndex
  /\ log[s][c.prevLogIndex + 1].term = c.prevLogTerm

AppendMismatch(c) ==
  LET s == c.dst
      index == Max({c.prevLogIndex, Len(log[s])})
      term == IF index < Len(log[s]) THEN log[s][index + 1].term ELSE -1
  IN  /\ HearLeader(s, c.term)
      /\ ~Matches(s, c)
      /\ UNCHANGED log
      /\ persist(s)
      /\ Answer(c, AppendReply(c, c.term, FALSE, index, term))
      /\ UNCHANGED <<votes, replication, requestVoteReplied, winner, pc, goroutines, life>>

(***************************************************************************)
(* The log becomes what the leader had, entries past it are cut even if    *)
(* the request is old or empty; then the follower commits and applies.     *)
(***************************************************************************)
Kept(s, c) == SubSeq(log[s], 1, c.prevLogIndex + 1)

AppendMatch(c) ==
  LET s == c.dst
      new == Kept(s, c) \o c.entries
      advances == c.leaderCommit > commitIndex[s]
      commit == IF advances THEN Min({c.leaderCommit, Len(new) - 1}) ELSE commitIndex[s]
  IN  /\ HearLeader(s, c.term)
      /\ Matches(s, c)
      /\ log' = [log EXCEPT ![s] = new]
      /\ commitIndex' = [commitIndex EXCEPT ![s] = commit]
      /\ lastApplied' = [lastApplied EXCEPT ![s] = IF advances THEN commit ELSE @]
      /\ persist(s)
      /\ Answer(c, AppendReply(c, c.term, TRUE, 0, 0))
      /\ UNCHANGED <<votes, nextIndex, matchIndex, requestVoteReplied, winner, pc, goroutines, life>>

-----------------------------------------------------------------------------
(***************************************************************************)
(* updateIndexesAndCommit: the leader commits the first entry of its own   *)
(* term, past commitIndex, that enough of matchIndex reaches (its own slot *)
(* of matchIndex is never set, so it counts itself apart).                 *)
(***************************************************************************)
Committable(s, match) ==
  {N \in commitIndex[s] + 1 .. GetLastEntryIndex(s) :
     /\ 1 + Cardinality({p \in Server : match[p] >= N}) > Majority
     /\ log[s][N + 1].term = currentTerm'[s]}

updateIndexesAndCommit(s, p) ==
  LET match == [matchIndex[s] EXCEPT ![p] = GetLastEntryIndex(s)]
      able == Committable(s, match)
  IN  /\ nextIndex' = [nextIndex EXCEPT ![s][p] = GetLastEntryIndex(s) + 1]
      /\ matchIndex' = [matchIndex EXCEPT ![s] = match]
      /\ commitIndex' = [commitIndex EXCEPT ![s] = IF able = {} THEN @ ELSE Min(able)]
      /\ lastApplied' = [lastApplied EXCEPT ![s] = commitIndex'[s]]

(***************************************************************************)
(* handleLogInconsistency: back to the reply's index, or past the last     *)
(* entry of the conflicting term.                                          *)
(***************************************************************************)
handleLogInconsistency(s, p, c) ==
  LET ofTerm == {i \in DOMAIN log[s] : log[s][i].term = c.conflictTerm}
      next == IF c.conflictTerm = -1 \/ ofTerm = {} THEN c.conflictIndex ELSE Max(ofTerm)
  IN  /\ nextIndex' = [nextIndex EXCEPT ![s][p] = next]
      /\ UNCHANGED <<commitIndex, lastApplied, matchIndex>>

(***************************************************************************)
(* The rest of sendAppendEntries, when the call has returned.  A reply of  *)
(* no newer term is dropped; any other makes the server a follower, and    *)
(* only then does the code ask whether it is still the leader.             *)
(***************************************************************************)
AppendIgnored(c) ==
  /\ Returns(c) /\ c.term <= currentTerm[c.src]
  /\ Done(c)
  /\ UNCHANGED <<persistent, state, votes, replication, channels, pc, goroutines, life>>

AppendReturnedToLeader(c) ==                         \* mutant
  /\ Returns(c) /\ state[c.src] = Leader /\ c.term = currentTerm[c.src]
  /\ UNCHANGED <<persistent, state>>
  /\ IF c.success THEN updateIndexesAndCommit(c.src, c.dst)
     ELSE handleLogInconsistency(c.src, c.dst, c)
  /\ Done(c)
  /\ UNCHANGED <<votes, channels, pc, goroutines, life>>

AppendReturned(c) ==
  LET s == c.src
  IN  /\ Returns(c) /\ c.term > currentTerm[s]
      /\ currentTerm' = [currentTerm EXCEPT ![s] = c.term]
      /\ state' = [state EXCEPT ![s] = Follower]
      /\ votedFor' = [votedFor EXCEPT ![s] = Nil]
      /\ UNCHANGED log
      /\ persist(s)
      /\ IF state'[s] # Leader THEN UNCHANGED replication
         ELSE IF c.success THEN updateIndexesAndCommit(s, c.dst)
         ELSE handleLogInconsistency(s, c.dst, c)
      /\ Done(c)
      /\ UNCHANGED <<votes, channels, pc, goroutines, life>>

-----------------------------------------------------------------------------
(***************************************************************************)
(* A request or a reply is lost, or its caller is gone.  Call returns      *)
(* false; a caller of RequestVote that is still there persists once more.  *)
(***************************************************************************)
CallFails(c) ==
  /\ UNCHANGED <<currentTerm, votedFor, log>>
  /\ IF Returns(c) /\ c.kind \in {"RequestVote", "RequestVoteReply"}
     THEN persist(c.src)
     ELSE UNCHANGED disk
  /\ Done(c)
  /\ UNCHANGED <<state, votes, replication, channels, pc, goroutines, life>>

(***************************************************************************)
(* A crash and the restart after it (start1 in config.go): the server is   *)
(* made again from its persister.  Calls of the dead incarnation are still *)
(* in flight; their answers reach nobody.                                  *)
(***************************************************************************)
Restart(s) ==
  /\ life[s] < MaxRestarts
  /\ life' = [life EXCEPT ![s] = @ + 1]
  /\ currentTerm' = [currentTerm EXCEPT ![s] = disk[s].currentTerm]
  /\ votedFor' = [votedFor EXCEPT ![s] = disk[s].votedFor]
  /\ log' = [log EXCEPT ![s] = disk[s].log]
  /\ state' = [state EXCEPT ![s] = Follower]
  /\ votes' = [votes EXCEPT ![s] = 0]
  /\ commitIndex' = [commitIndex EXCEPT ![s] = 0]
  /\ lastApplied' = [lastApplied EXCEPT ![s] = 0]
  /\ nextIndex' = [nextIndex EXCEPT ![s] = [p \in Server |-> 1]]
  /\ matchIndex' = [matchIndex EXCEPT ![s] = [p \in Server |-> 0]]
  /\ requestVoteReplied' = [requestVoteReplied EXCEPT ![s] = 0]
  /\ winner' = [winner EXCEPT ![s] = 0]
  /\ appendEntriesRec' = [appendEntriesRec EXCEPT ![s] = 0]
  /\ pc' = [pc EXCEPT ![s] = "loop"]
  /\ asking' = [asking EXCEPT ![s] = 0]
  /\ sending' = [sending EXCEPT ![s] = [p \in Server |-> 0]]
  /\ starting' = [starting EXCEPT ![s] = 0]
  /\ UNCHANGED <<disk, calls>>

-----------------------------------------------------------------------------
stateLoop(s) ==
  \/ LoopAsFollower(s) \/ LoopAsCandidate(s) \/ doAsLeader(s)
  \/ FollowerTimeout(s) \/ FollowerVoted(s) \/ FollowerHeard(s)
  \/ StartElection(s)
  \/ becomeLeader(s) \/ StepAside(s) \/ ElectionTimeout(s)

RequestVote(c)   == c.kind = "RequestVote" /\ (GrantVote(c) \/ RefuseVote(c))
AppendEntries(c) == c.kind = "AppendEntries"
                    /\ (AppendFromOldTerm(c) \/ AppendMismatch(c) \/ AppendMatch(c))
Return(c)        == \/ c.kind = "RequestVoteReply" /\ VoteReturned(c)
                    \/ c.kind = "AppendEntriesReply"
                       /\ (AppendIgnored(c) \/ AppendReturned(c))

Next ==
  \/ \E s \in Server : stateLoop(s)
  \/ \E s \in Server : sendVoteRequests(s)
  \/ \E s \in Server, p \in Server : sendEntriesToPeer(s, p) \/ Panic(s, p)
  \/ \E s \in Server : StartCheck(s)
  \/ \E s \in Server, command \in Command : StartAppend(s, command)
  \/ \E c \in BagToSet(calls) :
       RequestVote(c) \/ AppendEntries(c) \/ Return(c) \/ CallFails(c)
  \/ \E s \in Server : Restart(s)

Spec == Init /\ [][Next]_vars

(***************************************************************************)
(* Fairness.  The scheduler runs every goroutine, and a select with a      *)
(* ready case takes one; labrpc's Call is guaranteed to return, with or    *)
(* without a reply; and a network that loses some calls does not lose all  *)
(* those from one server to another.                                       *)
(***************************************************************************)
Ends == \E c \in BagToSet(calls) : Return(c) \/ CallFails(c)
Delivers(s, p) ==
  \E c \in BagToSet(calls) :
    c.src = s /\ c.dst = p /\ (RequestVote(c) \/ AppendEntries(c))

Fairness ==
  /\ \A s \in Server :
       /\ WF_vars(stateLoop(s))
       /\ WF_vars(sendVoteRequests(s))
       /\ WF_vars(\E command \in Command : StartAppend(s, command))
       /\ \A p \in Server : /\ WF_vars(sendEntriesToPeer(s, p))
                            /\ SF_vars(Delivers(s, p))
  /\ WF_vars(Ends)

FairSpec == Spec /\ Fairness

-----------------------------------------------------------------------------
(***************************************************************************)
(* Every variable has its type, and every call in flight is one of the     *)
(* four kinds.                                                             *)
(***************************************************************************)
TypeOK ==
  /\ currentTerm \in [Server -> Nat]
  /\ votedFor \in [Server -> Server \cup {Nil}]
  /\ log \in [Server -> Seq(Entry)]
  /\ disk \in [Server -> SavedState]
  /\ state \in [Server -> {Follower, Candidate, Leader}]
  /\ votes \in [Server -> Nat]
  /\ commitIndex \in [Server -> Nat]
  /\ lastApplied \in [Server -> Nat]
  /\ nextIndex \in [Server -> [Server -> Nat \ {0}]]
  /\ matchIndex \in [Server -> [Server -> Nat]]
  /\ requestVoteReplied \in [Server -> Nat]
  /\ winner \in [Server -> Nat]
  /\ appendEntriesRec \in [Server -> Nat]
  /\ pc \in [Server -> {"loop", "Follower", "Candidate", "election", "dead"}]
  /\ asking \in [Server -> Nat]
  /\ sending \in [Server -> [Server -> Nat]]
  /\ starting \in [Server -> Nat]
  /\ life \in [Server -> Nat]
  /\ IsABag(calls)
  /\ BagToSet(calls) \subseteq Call

=============================================================================
