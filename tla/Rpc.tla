-------------------------------- MODULE Rpc --------------------------------
(***************************************************************************)
(* What labrpc and the tester promise the peers about their calls to a     *)
(* server, through its crashes and restarts: a call has at most one        *)
(* outcome; it succeeds only when its effect is in what the server will    *)
(* resume from; no such effect is ever lost.  A call that fails may have   *)
(* had its effect, or have it yet.                                         *)
(***************************************************************************)
CONSTANT Call           \* the calls to the server

VARIABLES outcome,      \* what the caller knows of each
          effect        \* the calls whose effect is durable

rpcVars == <<outcome, effect>>

Init == outcome = [c \in Call |-> "none"] /\ effect = {}

Send(c) == /\ outcome[c] = "none"
           /\ outcome' = [outcome EXCEPT ![c] = "sent"]
           /\ UNCHANGED effect

TakeEffect(c) == /\ outcome[c] \in {"sent", "false"}
                 /\ effect' = effect \cup {c}
                 /\ UNCHANGED outcome

ReturnTrue(c) == /\ outcome[c] = "sent" /\ c \in effect
                 /\ outcome' = [outcome EXCEPT ![c] = "true"]
                 /\ UNCHANGED effect

ReturnFalse(c) == /\ outcome[c] = "sent"
                  /\ outcome' = [outcome EXCEPT ![c] = "false"]
                  /\ UNCHANGED effect

Next == \E c \in Call : Send(c) \/ TakeEffect(c) \/ ReturnTrue(c) \/ ReturnFalse(c)

Spec == Init /\ [][Next]_rpcVars

=============================================================================
