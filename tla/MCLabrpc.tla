------------------------------ MODULE MCLabrpc ------------------------------
(* Instances of Labrpc for TLC. *)
EXTENDS Labrpc, TLC

CONSTANTS c1, c2, c3, e1, e2

(* Two callers, one of which makes two calls at a time. *)
TwoCallers == (c1 :> e1) @@ (c2 :> e1) @@ (c3 :> e2)
=============================================================================
