---------------------------- MODULE LabrpcProofs ----------------------------
(***************************************************************************)
(* Theorems about Labrpc, for every set of calls and ends and any number   *)
(* of incarnations.                                                        *)
(***************************************************************************)
EXTENDS Labrpc, TLAPS

(***************************************************************************)
(* The server on the network is the latest incarnation, and it is there    *)
(* only while the tester is neither crashing nor starting it; a server is  *)
(* crashed only if another incarnation may follow.                         *)
(***************************************************************************)
OnNetwork ==
  /\ server # 0 => server = made /\ tester = "up"
  /\ tester \in {"deleted", "copied"} => made < MaxMade

(***************************************************************************)
(* A call has a handler only after it was accepted; the handler runs on an *)
(* incarnation that exists, while the call waits or after it has failed;   *)
(* once it has saved, its effect is in that incarnation's Persister.       *)
(***************************************************************************)
HandlersOK ==
  \A c \in Call :
    /\ target[c] <= made
    /\ stage[c] \in {"accepted", "waiting", "replied"} => target[c] # 0
    /\ handler[c] # "none" => target[c] # 0
    /\ stage[c] \in {"none", "queued", "accepted"} => handler[c] = "none"
    /\ handler[c] = "running" => stage[c] \in {"waiting", "false"}
    /\ handler[c] = "saved" => c \in stored[target[c]]
    /\ stage[c] = "replied" => handler[c] = "saved"

(***************************************************************************)
(* A reply that passed the last check is of a call whose effect is         *)
(* durable.                                                                *)
(***************************************************************************)
RepliesOK == \A c \in Call : stage[c] \in {"answering", "true"} => c \in Durable

Inv == TypeOK /\ OnNetwork /\ HandlersOK /\ RepliesOK

(***************************************************************************)
(* start1 makes an incarnation only after crash1 ended another.            *)
(***************************************************************************)
LEMMA NextIncarnation ==
  ASSUME Inv, Make
  PROVE  made + 1 \in Incarnation
BY MaxMadeAssumption DEF Inv, TypeOK, OnNetwork, Make, Incarnation

(***************************************************************************)
(* Durable effects stay durable.                                           *)
(***************************************************************************)
LEMMA DurableGrows ==
  ASSUME Inv, [Next]_vars
  PROVE  Durable \subseteq Durable'
<1> USE EndOfAssumption, MaxMadeAssumption
<1> SUFFICES ASSUME Durable' # Durable PROVE Durable \subseteq Durable'
  OBVIOUS
<1>1. ASSUME NEW c \in Call, Handle(c) PROVE Durable \subseteq Durable'
  BY <1>1 DEF Inv, TypeOK, HandlersOK, Handle, Durable, tests, Incarnation
<1>2. CASE Copy
  BY <1>2 DEF Inv, TypeOK, Copy, Durable, network, requests
<1>3. CASE Make
  BY <1>3, NextIncarnation DEF Inv, TypeOK, Make, Durable
<1>4. CASE AddServer \/ DeleteServer
  BY <1>4 DEF AddServer, DeleteServer, Durable
<1>5. ASSUME NEW c \in Call, SendCall(c) \/ ProcessReq(c) \/ Hang(c)
      PROVE  UNCHANGED <<tests, stored>>
  BY <1>5 DEF SendCall, ProcessReq, Hang, ReadEndnameInfo, Drop, Dispatch, HandlerReturns,
              GiveUp, CheckServer, Answer, tests
<1>6. ASSUME NEW e \in End, NEW b \in BOOLEAN, Enable(e, b) PROVE UNCHANGED <<tests, stored>>
  BY <1>6 DEF Enable
<1>7. CASE UNCHANGED vars
  BY <1>7 DEF vars, tests, Durable
<1>8. UNCHANGED <<tests, stored>> => Durable' = Durable
  BY DEF tests, Durable
<1> QED
  BY <1>1, <1>2, <1>3, <1>4, <1>5, <1>6, <1>7, <1>8 DEF Next

(***************************************************************************)
(* The type invariant is inductive.                                        *)
(***************************************************************************)
LEMMA TypeNext ==
  ASSUME Inv, [Next]_vars
  PROVE  TypeOK'
<1> USE EndOfAssumption, MaxMadeAssumption DEF Inv, TypeOK, OnNetwork
<1>1. ASSUME NEW c \in Call, SendCall(c) PROVE TypeOK'
  BY <1>1 DEF SendCall, At, Goto, network, tests
<1>2. ASSUME NEW c \in Call, ReadEndnameInfo(c) PROVE TypeOK'
  BY <1>2 DEF ReadEndnameInfo, At, Goto, network, tests
<1>3. ASSUME NEW c \in Call, Drop(c) \/ HandlerReturns(c) \/ GiveUp(c) \/ CheckServer(c) \/ Answer(c)
      PROVE  TypeOK'
  BY <1>3 DEF Drop, HandlerReturns, GiveUp, CheckServer, Answer, Goto, network, tests
<1>4. ASSUME NEW c \in Call, Dispatch(c) PROVE TypeOK'
  BY <1>4 DEF Dispatch, Goto, network, tests
<1>5. ASSUME NEW c \in Call, Handle(c) PROVE TypeOK'
  BY <1>5 DEF Handle, network, tests
<1>6. ASSUME NEW c \in Call, Hang(c) PROVE TypeOK'
  BY <1>6 DEF Hang, network, tests
<1>7. ASSUME NEW e \in End, NEW b \in BOOLEAN, Enable(e, b) PROVE TypeOK'
  BY <1>7 DEF Enable, tests, requests
<1>8. CASE DeleteServer
  BY <1>8 DEF DeleteServer, requests
<1>9. CASE Copy
  BY <1>9 DEF Copy, network, requests
<1>10. CASE Make
  BY <1>10, NextIncarnation DEF Make, network, requests
<1>11. CASE AddServer
  BY <1>11 DEF AddServer, requests, Incarnation
<1>12. CASE UNCHANGED vars
  BY <1>12 DEF vars, network, tests, requests
<1> QED
  <2> HIDE DEF TypeOK, OnNetwork
  <2> QED
    BY <1>1, <1>2, <1>3, <1>4, <1>5, <1>6, <1>7, <1>8, <1>9, <1>10, <1>11, <1>12
    DEF Next, ProcessReq

(***************************************************************************)
(* Where the server is stays known: crash1 takes it off the network before *)
(* anything else, and start1 puts it back last.                            *)
(***************************************************************************)
LEMMA OnNetworkNext ==
  ASSUME Inv, [Next]_vars
  PROVE  OnNetwork'
<1> USE DEF Inv, TypeOK, OnNetwork
<1>1. CASE DeleteServer \/ Copy \/ Make \/ AddServer
  BY <1>1 DEF DeleteServer, Copy, Make, AddServer, network
<1>2. ASSUME UNCHANGED <<server, made, tester>> PROVE OnNetwork'
  BY <1>2
<1>3. ASSUME NEW c \in Call, SendCall(c) \/ ProcessReq(c) \/ Handle(c) \/ Hang(c)
      PROVE  UNCHANGED <<server, made, tester>>
  BY <1>3 DEF SendCall, ProcessReq, Handle, Hang, ReadEndnameInfo, Drop, Dispatch,
              HandlerReturns, GiveUp, CheckServer, Answer, network, tests
<1>4. ASSUME NEW e \in End, NEW b \in BOOLEAN, Enable(e, b)
      PROVE  UNCHANGED <<server, made, tester>>
  BY <1>4 DEF Enable, tests
<1>5. CASE UNCHANGED vars
  BY <1>5 DEF vars, network, tests
<1> QED
  BY <1>1, <1>2, <1>3, <1>4, <1>5 DEF Next

(***************************************************************************)
(* Handlers stay with the incarnation they started on: Make writes only to *)
(* the Persister of an incarnation that no call has reached.               *)
(***************************************************************************)
LEMMA HandlersNext ==
  ASSUME Inv, [Next]_vars
  PROVE  HandlersOK'
<1> USE EndOfAssumption, MaxMadeAssumption DEF Inv, TypeOK, OnNetwork, HandlersOK
<1>1. ASSUME NEW c \in Call, SendCall(c) \/ Drop(c) \/ HandlerReturns(c) \/ GiveUp(c)
                             \/ CheckServer(c) \/ Answer(c)
      PROVE  HandlersOK'
  BY <1>1 DEF SendCall, Drop, HandlerReturns, GiveUp, CheckServer, Answer, At, Goto,
              network, tests
<1>2. ASSUME NEW c \in Call, ReadEndnameInfo(c) PROVE HandlersOK'
  <2>1. CASE Goto(c, "accepted") /\ server # 0 /\ target' = [target EXCEPT ![c] = server]
    <3>1. server = made /\ made \in 0 .. MaxMade
      BY <2>1 DEF Incarnation
    <3>2. handler[c] # "running" /\ handler' = handler /\ stored' = stored /\ made' = made
      BY <1>2 DEF ReadEndnameInfo, At, tests
    <3>3. handler[c] = "none"
      BY <1>2 DEF ReadEndnameInfo, At
    <3> QED BY <2>1, <3>1, <3>2, <3>3 DEF Goto, Incarnation
  <2>2. CASE Goto(c, "false") /\ UNCHANGED target
    BY <1>2, <2>2 DEF ReadEndnameInfo, At, Goto, tests
  <2> QED BY <1>2, <2>1, <2>2 DEF ReadEndnameInfo
<1>3. ASSUME NEW c \in Call, Dispatch(c) PROVE HandlersOK'
  BY <1>3 DEF Dispatch, At, Goto, network, tests
<1>4. ASSUME NEW c \in Call, Handle(c) PROVE HandlersOK'
  BY <1>4 DEF Handle, network, tests, Incarnation
<1>5. ASSUME NEW c \in Call, Hang(c) PROVE HandlersOK'
  BY <1>5 DEF Hang, network, tests
<1>6. ASSUME NEW e \in End, NEW b \in BOOLEAN, Enable(e, b) PROVE HandlersOK'
  BY <1>6 DEF Enable, tests, requests
<1>7. CASE DeleteServer \/ Copy \/ AddServer
  BY <1>7 DEF DeleteServer, Copy, AddServer, network, requests
<1>8. CASE Make
  BY <1>8 DEF Make, network, requests, Incarnation
<1>9. CASE UNCHANGED vars
  BY <1>9 DEF vars, network, tests, requests
<1> QED
  <2> HIDE DEF HandlersOK, TypeOK, OnNetwork
  <2> QED
    BY <1>1, <1>2, <1>3, <1>4, <1>5, <1>6, <1>7, <1>8, <1>9 DEF Next, ProcessReq

(***************************************************************************)
(* A reply passes the last check only while its server is the latest       *)
(* incarnation and no copy of its Persister has been taken.                *)
(***************************************************************************)
LEMMA RepliesNext ==
  ASSUME Inv, [Next]_vars
  PROVE  RepliesOK'
<1>1. ASSUME NEW q \in Call, stage'[q] \in {"answering", "true"}
      PROVE  stage[q] \in {"answering", "true"} \/ (CheckServer(q) /\ ~IsServerDead(q))
  <2> USE DEF Inv, TypeOK
  <2>1. ASSUME NEW c \in Call, SendCall(c) \/ Drop(c) \/ HandlerReturns(c) \/ GiveUp(c)
                               \/ ReadEndnameInfo(c) \/ Dispatch(c)
        PROVE  stage'[q] = stage[q] \/ stage'[q] \in {"queued", "accepted", "waiting",
                                                      "replied", "false"}
    BY <2>1 DEF SendCall, Drop, HandlerReturns, GiveUp, ReadEndnameInfo, Dispatch, Goto
  <2>2. ASSUME NEW c \in Call, CheckServer(c)
        PROVE  stage'[q] = stage[q] \/ (CheckServer(q) /\ ~IsServerDead(q))
    BY <1>1, <2>2 DEF CheckServer, At, Goto
  <2>3. ASSUME NEW c \in Call, Answer(c)
        PROVE  stage[q] \in {"answering", "true"}
    BY <1>1, <2>3 DEF Answer, At, Goto
  <2>4. ASSUME NEW c \in Call, Handle(c) \/ Hang(c) PROVE stage' = stage
    BY <2>4 DEF Handle, Hang
  <2>5. ASSUME NEW e \in End, NEW b \in BOOLEAN, Enable(e, b) PROVE stage' = stage
    BY <2>5 DEF Enable, requests
  <2>6. CASE DeleteServer \/ Copy \/ Make \/ AddServer \/ UNCHANGED vars
    BY <1>1, <2>6 DEF DeleteServer, Copy, Make, AddServer, vars, requests
  <2> HIDE DEF Inv, TypeOK
  <2> QED
    BY <1>1, <2>1, <2>2, <2>3, <2>4, <2>5, <2>6 DEF Next, ProcessReq
<1>2. ASSUME NEW q \in Call, CheckServer(q), ~IsServerDead(q)
      PROVE  q \in Durable
  BY <1>2 DEF Inv, TypeOK, OnNetwork, HandlersOK, CheckServer, At, IsServerDead, Durable
<1> QED
  BY <1>1, <1>2, DurableGrows DEF Inv, RepliesOK

(***************************************************************************)
(* The invariant the other theorems rest on.                               *)
(***************************************************************************)
THEOREM Invariance == Spec => []Inv
<1>1. Init => Inv
  BY EndOfAssumption, MaxMadeAssumption
  DEF Init, Inv, TypeOK, OnNetwork, HandlersOK, RepliesOK, Incarnation
<1>2. Inv /\ [Next]_vars => Inv'
  <2> SUFFICES ASSUME Inv, [Next]_vars PROVE Inv'
    OBVIOUS
  <2>1. TypeOK' /\ OnNetwork' /\ HandlersOK' /\ RepliesOK'
    BY TypeNext, OnNetworkNext, HandlersNext, RepliesNext
  <2> QED BY <2>1 DEF Inv
<1> QED BY <1>1, <1>2, PTL DEF Spec

(***************************************************************************)
(* Every variable keeps its type.                                          *)
(***************************************************************************)
THEOREM TypeCorrect == Spec => []TypeOK
<1>1. Inv => TypeOK
  BY DEF Inv
<1> QED BY <1>1, Invariance, PTL

(***************************************************************************)
(* ProcessReq's two looks at the server, and crash1's order, are enough:   *)
(* what a successful call did is never lost, whatever crashes.             *)
(***************************************************************************)
THEOREM SuccessIsDurable == Spec => []PositiveReplyDurable
<1>1. Inv => PositiveReplyDurable
  BY DEF Inv, RepliesOK, PositiveReplyDurable, At
<1> QED BY <1>1, Invariance, PTL

(***************************************************************************)
(* Labrpc implements Rpc: a handler that saves is the call's taking        *)
(* effect, if its incarnation is the latest; of the other steps, one that  *)
(* ends a call is its return, and crash1 and start1 change nothing.        *)
(***************************************************************************)
THEOREM ImplementsRpc == Spec => RpcSpec
<1> DEFINE Out == [c \in Call |-> Outcome(c)]
<1>1. Init => RPC!Init
  BY MaxMadeAssumption DEF Init, RPC!Init, Outcome, Durable, Incarnation
<1>2. ASSUME Inv, [Next]_vars PROVE [RPC!Next]_(RPC!rpcVars)
  <2> SUFFICES ASSUME ~UNCHANGED <<Out, Durable>> PROVE RPC!Next
    BY DEF RPC!rpcVars
  <2> USE <1>2
  <2>0. ASSUME UNCHANGED <<tests, stored>> PROVE Durable' = Durable
    BY <2>0 DEF tests, Durable
  <2>1. ASSUME NEW c \in Call, SendCall(c) PROVE RPC!Send(c)
    <3>1. Out[c] = "none" /\ Out' = [Out EXCEPT ![c] = "sent"]
      BY <2>1 DEF Inv, TypeOK, SendCall, At, Goto, Outcome
    <3> QED BY <2>0, <2>1, <3>1 DEF SendCall, RPC!Send
  <2>2. ASSUME NEW c \in Call, ReadEndnameInfo(c) \/ Drop(c) \/ Dispatch(c) \/ HandlerReturns(c)
                               \/ GiveUp(c) \/ CheckServer(c)
        PROVE  RPC!ReturnFalse(c)
    <3>1. Durable' = Durable
      BY <2>0, <2>2 DEF ReadEndnameInfo, Drop, Dispatch, HandlerReturns, GiveUp, CheckServer
    <3>2. PICK v \in {"accepted", "waiting", "replied", "answering", "false"} : Goto(c, v)
      BY <2>2 DEF ReadEndnameInfo, Drop, Dispatch, HandlerReturns, GiveUp, CheckServer
    <3>3. Out[c] = "sent"
      BY <2>2 DEF ReadEndnameInfo, Drop, Dispatch, HandlerReturns, GiveUp, CheckServer, At,
                  Outcome
    <3>4. Out' = [Out EXCEPT ![c] = IF v = "false" THEN "false" ELSE "sent"]
      BY <3>2 DEF Inv, TypeOK, Goto, Outcome
    <3>5. Out' # Out
      BY <3>1
    <3>6. v = "false"
      BY <3>3, <3>4, <3>5
    <3> QED BY <3>1, <3>3, <3>4, <3>6 DEF RPC!ReturnFalse
  <2>3. ASSUME NEW c \in Call, Answer(c) PROVE RPC!ReturnTrue(c)
    <3>1. Out[c] = "sent" /\ Out' = [Out EXCEPT ![c] = "true"]
      BY <2>3 DEF Inv, TypeOK, Answer, At, Goto, Outcome
    <3>2. c \in Durable
      BY <2>3 DEF Inv, RepliesOK, Answer, At
    <3> QED BY <2>0, <2>3, <3>1, <3>2 DEF Answer, RPC!ReturnTrue
  <2>4. ASSUME NEW c \in Call, Handle(c) PROVE RPC!TakeEffect(c)
    <3>1. Out' = Out
      BY <2>4 DEF Handle, Outcome
    <3>2. Out[c] \in {"sent", "false"}
      BY <2>4 DEF Inv, HandlersOK, Handle, Outcome
    <3>3. Durable' = Durable \/ Durable' = Durable \cup {c}
      BY <2>4 DEF Inv, TypeOK, Handle, Durable, tests
    <3> QED BY <3>1, <3>2, <3>3 DEF RPC!TakeEffect
  <2>5. ASSUME NEW c \in Call, Hang(c) PROVE FALSE
    BY <2>0, <2>5 DEF Hang, Outcome
  <2>6. ASSUME NEW e \in End, NEW b \in BOOLEAN, Enable(e, b) PROVE FALSE
    BY <2>0, <2>6 DEF Enable, requests, Outcome
  <2>7. CASE DeleteServer \/ Copy \/ Make \/ AddServer
    <3>1. Out' = Out
      BY <2>7 DEF DeleteServer, Copy, Make, AddServer, requests, Outcome
    <3>2. CASE Make
      BY <3>1, <3>2, NextIncarnation DEF Inv, TypeOK, Make, Durable
    <3>3. CASE DeleteServer \/ Copy \/ AddServer
      BY <3>1, <3>3 DEF DeleteServer, Copy, AddServer, Durable, network
    <3> QED BY <2>7, <3>2, <3>3
  <2>8. CASE UNCHANGED vars
    BY <2>0, <2>8 DEF vars, requests, tests, Outcome
  <2> QED
    BY <2>1, <2>2, <2>3, <2>4, <2>5, <2>6, <2>7, <2>8 DEF Next, ProcessReq, RPC!Next
<1> QED
  BY <1>1, <1>2, Invariance, PTL DEF Spec, RpcSpec, RPC!Spec

=============================================================================
