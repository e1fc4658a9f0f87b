------------------------------- MODULE Labrpc -------------------------------
(***************************************************************************)
(* The calls that trab2/labrpc/labrpc.go carries to one server, while the  *)
(* tester of trab2/raft/config.go crashes and restarts it.                 *)
(*                                                                         *)
(* Each call runs in a goroutine of its own (ProcessReq), and its handler  *)
(* in another.  Each incarnation of the server has its own labrpc Server   *)
(* object and its own Persister; both carry the incarnation's number.      *)
(* A Persister holds the calls whose effect was saved in it.               *)
(***************************************************************************)
EXTENDS Naturals

CONSTANTS
  Call,     \* the calls made to the server
  End,      \* the ClientEnds connected to it
  EndOf,    \* the end each call is made on
  MaxMade   \* bound: incarnations of the server

ASSUME EndOfAssumption == EndOf \in [Call -> End]
ASSUME MaxMadeAssumption == MaxMade \in Nat \ {0}

VARIABLES
  enabled,  \* rn.enabled, per end
  server,   \* rn.servers: the incarnation that is on the network, 0 when none
  made,     \* the latest incarnation
  tester,   \* how far crash1 and start1 have come
  stored,   \* what each incarnation's Persister holds
  saved,    \* what the tester's copy of the Persister holds
  stage,    \* where each call is in ProcessReq
  target,   \* the server that ProcessReq read for the call, 0 before
  handler   \* where the call's handler is

network  == <<enabled, server>>
tests    == <<made, tester, saved>>
requests == <<stage, target, handler>>
vars     == <<network, tests, stored, requests>>

Incarnation == 1 .. MaxMade

TypeOK ==
  /\ enabled \in [End -> BOOLEAN]
  /\ server \in 0 .. MaxMade
  /\ made \in Incarnation
  /\ tester \in {"up", "deleted", "copied", "made"}
  /\ stored \in [Incarnation -> SUBSET Call]
  /\ saved \in SUBSET Call
  /\ stage \in [Call -> {"none", "queued", "accepted", "waiting", "replied", "answering",
                         "true", "false"}]
  /\ target \in [Call -> 0 .. MaxMade]
  /\ handler \in [Call -> {"none", "running", "hung", "saved"}]

(***************************************************************************)
(* make_config has started the server and connected everyone.              *)
(***************************************************************************)
Init ==
  /\ enabled = [e \in End |-> TRUE]
  /\ server = 1 /\ made = 1 /\ tester = "up"
  /\ stored = [k \in Incarnation |-> {}]
  /\ saved = {}
  /\ stage = [c \in Call |-> "none"]
  /\ target = [c \in Call |-> 0]
  /\ handler = [c \in Call |-> "none"]

At(c, where) == stage[c] = where
Goto(c, where) == stage' = [stage EXCEPT ![c] = where]

-----------------------------------------------------------------------------
(* ClientEnd.Call hands the request to the network's goroutine. *)
SendCall(c) ==
  /\ At(c, "none") /\ Goto(c, "queued")
  /\ UNCHANGED <<network, tests, stored, target, handler>>

(***************************************************************************)
(* ProcessReq looks up the end once.  Without a server, the call fails     *)
(* after a while.                                                          *)
(***************************************************************************)
ReadEndnameInfo(c) ==
  /\ At(c, "queued")
  /\ IF enabled[EndOf[c]] /\ server # 0
     THEN Goto(c, "accepted") /\ target' = [target EXCEPT ![c] = server]
     ELSE Goto(c, "false") /\ UNCHANGED target
  /\ UNCHANGED <<network, tests, stored, handler>>

(* On an unreliable network the request or, later, the reply is dropped. *)
Drop(c) ==
  /\ stage[c] \in {"accepted", "answering"} /\ Goto(c, "false")
  /\ UNCHANGED <<network, tests, stored, target, handler>>

(***************************************************************************)
(* The handler runs in its own goroutine, on the server object read        *)
(* before, whether or not that is still the one on the network.  Raft's    *)
(* handlers save before they return; a handler may also never return.      *)
(***************************************************************************)
Dispatch(c) ==
  /\ At(c, "accepted") /\ Goto(c, "waiting")
  /\ handler' = [handler EXCEPT ![c] = "running"]
  /\ UNCHANGED <<network, tests, stored, target>>

Handle(c) ==
  /\ handler[c] = "running"
  /\ handler' = [handler EXCEPT ![c] = "saved"]
  /\ stored' = [stored EXCEPT ![target[c]] = @ \cup {c}]
  /\ UNCHANGED <<network, tests, stage, target>>

Hang(c) ==
  /\ handler[c] = "running"
  /\ handler' = [handler EXCEPT ![c] = "hung"]
  /\ UNCHANGED <<network, tests, stored, stage, target>>

(***************************************************************************)
(* ProcessReq waits for the handler, or for a tick at which the server is  *)
(* dead ...                                                                *)
(***************************************************************************)
IsServerDeadByEnd(c) == ~enabled[EndOf[c]]           \* mutant
IsServerDead(c) == ~enabled[EndOf[c]] \/ server # target[c]

HandlerReturns(c) ==
  /\ At(c, "waiting") /\ handler[c] = "saved" /\ Goto(c, "replied")
  /\ UNCHANGED <<network, tests, stored, target, handler>>

GiveUp(c) ==
  /\ At(c, "waiting") /\ IsServerDead(c) /\ Goto(c, "false")
  /\ UNCHANGED <<network, tests, stored, target, handler>>

(***************************************************************************)
(* ... and looks once more before it passes the reply on, at once or up to *)
(* two seconds later.                                                      *)
(***************************************************************************)
CheckServerNever(c) ==                               \* mutant
  /\ At(c, "replied") /\ Goto(c, "answering")
  /\ UNCHANGED <<network, tests, stored, target, handler>>

CheckServer(c) ==
  /\ At(c, "replied")
  /\ Goto(c, IF IsServerDead(c) THEN "false" ELSE "answering")
  /\ UNCHANGED <<network, tests, stored, target, handler>>

Answer(c) ==
  /\ At(c, "answering") /\ Goto(c, "true")
  /\ UNCHANGED <<network, tests, stored, target, handler>>

-----------------------------------------------------------------------------
(***************************************************************************)
(* connect and disconnect, of the server or of a caller, end by end.       *)
(***************************************************************************)
Enable(e, b) ==
  /\ tester = "up" /\ enabled[e] # b
  /\ enabled' = [enabled EXCEPT ![e] = b]
  /\ UNCHANGED <<server, tests, stored, requests>>

(***************************************************************************)
(* crash1: when every end is disabled, the server is taken off the         *)
(* network, and only then is its Persister copied.  The second copy, and   *)
(* those of start1, are of an object that nobody else holds.               *)
(***************************************************************************)
DeleteServer ==
  /\ tester = "up" /\ made < MaxMade
  /\ \A e \in End : ~enabled[e]
  /\ server' = 0 /\ tester' = "deleted"
  /\ UNCHANGED <<enabled, made, saved, stored, requests>>

CopyNothing ==                                       \* mutant
  /\ tester = "deleted" /\ tester' = "copied"
  /\ saved' = {}
  /\ UNCHANGED <<network, made, stored, requests>>

Copy ==
  /\ tester = "deleted" /\ tester' = "copied"
  /\ saved' = stored[made]
  /\ UNCHANGED <<network, made, stored, requests>>

(***************************************************************************)
(* start1: Make on the copy, then back on the network.                     *)
(***************************************************************************)
MakeTwice ==                                         \* mutant
  /\ tester \in {"copied", "made"} /\ tester' = "made"
  /\ made' = made + 1
  /\ stored' = [stored EXCEPT ![made + 1] = saved]
  /\ UNCHANGED <<network, saved, requests>>

Make ==
  /\ tester = "copied" /\ tester' = "made"
  /\ made' = made + 1
  /\ stored' = [stored EXCEPT ![made + 1] = saved]
  /\ UNCHANGED <<network, saved, requests>>

AddServer ==
  /\ tester = "made" /\ tester' = "up"
  /\ server' = made
  /\ UNCHANGED <<enabled, made, saved, stored, requests>>

-----------------------------------------------------------------------------
ProcessReq(c) ==
  \/ ReadEndnameInfo(c) \/ Drop(c) \/ Dispatch(c)
  \/ HandlerReturns(c) \/ GiveUp(c) \/ CheckServer(c) \/ Answer(c)

Next ==
  \/ \E c \in Call : SendCall(c) \/ ProcessReq(c) \/ Handle(c) \/ Hang(c)
  \/ \E e \in End, b \in BOOLEAN : Enable(e, b)
  \/ DeleteServer \/ Copy \/ Make \/ AddServer

Spec == Init /\ [][Next]_vars

(***************************************************************************)
(* The scheduler runs every goroutine of the network and every handler.    *)
(* Callers and the tester do as they please.                               *)
(***************************************************************************)
FairSpec == Spec /\ \A c \in Call : WF_vars(ProcessReq(c)) /\ WF_vars(Handle(c) \/ Hang(c))

-----------------------------------------------------------------------------
(***************************************************************************)
(* What the server holds, or would resume from.                            *)
(***************************************************************************)
Durable == IF tester = "copied" THEN saved ELSE stored[made]

(***************************************************************************)
(* ProcessReq: "do not reply if DeleteServer() has been called", so that   *)
(* no client "gets a positive reply to an Append, but the server persisted *)
(* the update into the old Persister".  The effect of a call that returned *)
(* true is in what the server holds now, and every later incarnation.      *)
(***************************************************************************)
PositiveReplyDurable == \A c \in Call : At(c, "true") => c \in Durable

(***************************************************************************)
(* Every call behaves as Rpc says: one outcome, success only with a        *)
(* durable effect, and no durable effect is lost by a restart.             *)
(***************************************************************************)
Outcome(c) == IF stage[c] \in {"none", "true", "false"} THEN stage[c] ELSE "sent"
RPC == INSTANCE Rpc WITH outcome <- [c \in Call |-> Outcome(c)], effect <- Durable
RpcSpec == RPC!Spec

(***************************************************************************)
(* "Call() is guaranteed to return (perhaps after a delay) *except* if the *)
(* handler function on the server side does not return", and even then     *)
(* when the server it runs on has been replaced.                           *)
(***************************************************************************)
Returned(c) == stage[c] \in {"true", "false"}
CallReturns ==
  \A c \in Call :
    /\ At(c, "queued") ~> (Returned(c) \/ handler[c] = "hung")
    /\ (handler[c] = "hung" /\ server # target[c]) ~> Returned(c)

=============================================================================
