------------------------------ MODULE Tabelas -------------------------------
(***************************************************************************)
(* What the wallet server promises to those who call it: which rows a      *)
(* request may write, and what an answer of success says about them.       *)
(* Carteira implements this, and Cliente relies on it.                     *)
(***************************************************************************)
EXTENDS Linhas

CONSTANTS
  Request,  \* names of requests
  Body,     \* what a request may ask for
  Stored    \* the rows at the start

VARIABLES
  rows,     \* of all tables
  used,     \* ids that some row has or had
  calls     \* by name, the requests received

tabelasVars == <<rows, used, calls>>

Init ==
  /\ rows = Stored
  /\ used = {d.id : d \in Stored}
  /\ calls = [r \in {} |-> 0]

Ask(r) == calls[r].body
Open(r) == r \in DOMAIN calls /\ calls[r].answer = "none"

(* deleteDespesa and deleteCategoria answer without waiting for the destroy. *)
Unawaited(b) == b.verb = "delete" /\ b.table # "Receita"

Receive(r, b) ==
  /\ r \notin DOMAIN calls
  /\ calls' = With(calls, r, [body |-> b, wrote |-> 0,
                             answer |-> IF Refused(b) THEN "error" ELSE "none"])
  /\ UNCHANGED <<rows, used>>

Wrote(r) == calls' = [calls EXCEPT ![r].wrote = @ + 1]

(* An expense is stored once an instalment, anything else once. *)
Insert(r) ==
  /\ Open(r) /\ Ask(r).verb = "create"
  /\ calls[r].wrote < IF Ask(r).table = "Despesa" THEN Ask(r).parcela ELSE 1
  /\ ForeignKeysHold(rows, Ask(r))
  /\ \E i \in Item \ used, share \in Shares(Ask(r)) :
       rows' = rows \cup {NewRow(Ask(r), i, share)} /\ used' = used \cup {i}
  /\ Wrote(r)

Update(r) ==
  /\ Open(r) /\ Ask(r).verb = "edit" /\ calls[r].wrote = 0
  /\ Editable(rows, Ask(r))
  /\ rows' = Edited(rows, Ask(r))
  /\ Wrote(r) /\ UNCHANGED used

Destroy(r) ==
  /\ r \in DOMAIN calls /\ Ask(r).verb = "delete" /\ calls[r].wrote = 0
  /\ Open(r) \/ (calls[r].answer = "ok" /\ Unawaited(Ask(r)))
  /\ rows' = Without(rows, Named(rows, Ask(r)))
  /\ Wrote(r) /\ UNCHANGED used

Write(r) == Insert(r) \/ Update(r) \/ Destroy(r)

(***************************************************************************)
(* Success means that the row was written, except that createDespesa       *)
(* answers it whatever went wrong, and that an unawaited destroy may come  *)
(* later, or never, for a row that was there.  Failure means nothing.      *)
(***************************************************************************)
Earned(r) ==
  \/ calls[r].wrote > 0
  \/ Ask(r).verb = "create" /\ Ask(r).table = "Despesa"
  \/ Unawaited(Ask(r)) /\ Ask(r).id \in used

Answer(r, a) ==
  /\ Open(r)
  /\ a = "error" \/ (a = "ok" /\ Earned(r))
  /\ calls' = [calls EXCEPT ![r].answer = a]
  /\ UNCHANGED <<rows, used>>

Next ==
  \E r \in Request :
    \/ \E b \in Body : Receive(r, b)
    \/ Write(r)
    \/ \E a \in {"ok", "error"} : Answer(r, a)

Spec == Init /\ [][Next]_tabelasVars
=============================================================================
