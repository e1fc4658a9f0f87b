------------------------------ MODULE Carteira ------------------------------
(***************************************************************************)
(* The wallet server, trab3/servidor/src: wallets (Carteira) with their    *)
(* incomes (Receita), expenses (Despesa) and categories (Categoria).       *)
(*                                                                         *)
(* A handler runs alone from one await to the next, and the requests, and  *)
(* the balance updates that they start and do not wait for, interleave     *)
(* there.  Amounts are in cents.                                           *)
(***************************************************************************)
EXTENDS Linhas, Sequences, Bags, BagsExt, FiniteSetsExt

CONSTANTS
  Request,      \* bound: each is the name of one request
  Body,         \* what a request may ask for
  Stored,       \* the rows at the start
  NaN,          \* what JavaScript makes of undefined
  MaxRestarts   \* bound on restarts

ASSUME StoredAssumption ==
  /\ Stored \subseteq Row /\ IsFiniteSet(Stored)
  /\ \A d, e \in Stored : d.id = e.id => d = e
ASSUME BodyAssumption ==
  Body \subseteq {b \in Asked : b.table = "Carteira" => b.verb = "create"}
ASSUME NullAssumption == Null \notin Item
ASSUME NaNAssumption == NaN \notin Int
ASSUME RestartsAssumption == MaxRestarts \in Nat

VARIABLES
  saldo,      \* the balance of each wallet that exists
  rows,       \* of all other tables
  used,       \* ids that some row has or had
  observers,  \* how many observers each service has
  requests,   \* by name, those received
  updates,    \* a bag of calls of CarteiraService.update, running
  restarts,
  excess      \* history: what was booked too much for each wallet, NaN after an accident

server == <<observers, requests, updates, restarts>>
vars == <<saldo, rows, used, server, excess>>

(***************************************************************************)
(* What each method of the services awaits, in order; "notify" is          *)
(* addObserver and notifyObservers, "answer" the controller's.  The last   *)
(* destroys are not awaited: they go on after the answer.                  *)
(***************************************************************************)
ReceitasUnawaited ==                                 \* mutant
  [create |-> <<"carteira", "insert", "notify", "answer">>,
   edit   |-> <<"find", "update", "carteira", "notify", "answer">>,
   delete |-> <<"carteira", "find", "notify", "answer", "destroy">>]

Receitas ==
  [create |-> <<"carteira", "insert", "notify", "answer">>,
   edit   |-> <<"find", "update", "carteira", "notify", "answer">>,
   delete |-> <<"carteira", "find", "destroy", "notify", "answer">>]

Despesas ==
  [create |-> <<"carteira", "categoria", "insert", "notify", "answer">>,
   edit   |-> <<"find", "update", "carteira", "notify", "answer">>,
   delete |-> <<"find", "notify", "answer", "destroy">>]

Categorias ==
  [create |-> <<"carteira", "insert", "answer">>,
   edit   |-> <<"update", "answer">>,
   delete |-> <<"find", "answer", "destroy">>]

Program == [Receita |-> Receitas, Despesa |-> Despesas, Categoria |-> Categorias,
            Carteira |-> [create |-> <<"insert", "answer">>]]

(* A sum over rows. *)
Total(R, table, w) == MapThenSumSet(LAMBDA d : d.valor, RowsOf(R, table, w))
Balance(R, w) == Total(R, "Receita", w) - Total(R, "Despesa", w)

(***************************************************************************)
(* sequelize.sync has made the tables, and the wallets of the stored rows  *)
(* have the balance that these add up to.                                  *)
(***************************************************************************)
Init ==
  /\ rows = Stored
  /\ used = {d.id : d \in Stored}
  /\ saldo = [w \in {d.carteira : d \in Stored} |-> Balance(Stored, w)]
  /\ observers = [table \in {"Receita", "Despesa"} |-> 0]
  /\ requests = [r \in {} |-> 0]
  /\ updates = EmptyBag
  /\ restarts = 0
  /\ excess = [w \in Wallet |-> 0]

-----------------------------------------------------------------------------
Received == DOMAIN requests
Ask(r) == requests[r].body
Code(r) == Program[Ask(r).table][Ask(r).verb]
Running(r) == requests[r].pc \in DOMAIN Code(r)
At(r, statement) == r \in Received /\ Running(r) /\ Code(r)[requests[r].pc] = statement

(* One more statement done, which writes a row. *)
Written(r) == requests' = [requests EXCEPT ![r].pc = @ + 1, ![r].made = @ + 1]
Advance(r) == requests' = [requests EXCEPT ![r].pc = @ + 1]

Plus(a, b) == IF NaN \in {a, b} THEN NaN ELSE a + b
Book(w, amount) == excess' = [excess EXCEPT ![w] = Plus(@, amount)]
Disturb(accident, w) == Book(w, IF accident THEN NaN ELSE 0)

-----------------------------------------------------------------------------
(* A route calls the handler; requests that fail its validation end there. *)
Receive(r, b) ==
  /\ r \notin Received
  /\ requests' = With(requests, r,
       [body |-> b, pc |-> IF Refused(b) THEN 0 ELSE 1, old |-> 0, made |-> 0,
        answer |-> IF Refused(b) THEN "error" ELSE "none"])
  /\ UNCHANGED <<saldo, rows, used, observers, updates, restarts, excess>>

FindCarteira(r) ==
  /\ At(r, "carteira") /\ Ask(r).carteira \in DOMAIN saldo
  /\ Advance(r)
  /\ UNCHANGED <<saldo, rows, used, observers, updates, restarts, excess>>

FindCategoria(r) ==
  /\ At(r, "categoria")
  /\ \E d \in RowsOf(rows, "Categoria", Ask(r).carteira) : d.id = Ask(r).categoria
  /\ Advance(r)
  /\ UNCHANGED <<saldo, rows, used, observers, updates, restarts, excess>>

(* An edit or a delete keeps the value it finds, to compute the difference. *)
Find(r) ==
  /\ At(r, "find")
  /\ \E d \in Named(rows, Ask(r)) : requests' = [requests EXCEPT ![r].pc = @ + 1, ![r].old = d.valor]
  /\ UNCHANGED <<saldo, rows, used, observers, updates, restarts, excess>>

(* The value of an expense is going to be debited whole with each instalment. *)
Insert(r) ==
  /\ At(r, "insert") /\ Ask(r).table # "Carteira"
  /\ ForeignKeysHold(rows, Ask(r))
  /\ \E i \in Item \ used, share \in Shares(Ask(r)) :
       /\ rows' = rows \cup {NewRow(Ask(r), i, share)}
       /\ used' = used \cup {i}
       /\ Book(Ask(r).carteira, IF Ask(r).table = "Despesa" THEN share - Ask(r).valor ELSE 0)
  /\ Written(r)
  /\ UNCHANGED <<saldo, observers, updates, restarts>>

CreateCarteira(r) ==
  /\ At(r, "insert") /\ Ask(r).table = "Carteira" /\ Ask(r).carteira \notin DOMAIN saldo
  /\ saldo' = With(saldo, Ask(r).carteira, 0)
  /\ Advance(r)
  /\ UNCHANGED <<rows, used, observers, updates, restarts, excess>>

(* The row is gone, or has another value by now than the request found. *)
Stale(r) ==
  /\ Ask(r).table # "Categoria"
  /\ \A d \in Named(rows, Ask(r)) : d.valor # requests[r].old

Update(r) ==
  /\ At(r, "update") /\ Editable(rows, Ask(r))
  /\ rows' = Edited(rows, Ask(r))
  /\ Written(r)
  /\ Disturb(Stale(r), Ask(r).carteira)
  /\ UNCHANGED <<saldo, used, observers, updates, restarts>>

(* To destroy a row that is gone is no error. *)
Destroy(r) ==
  /\ At(r, "destroy")
  /\ rows' = Without(rows, Named(rows, Ask(r)))
  /\ Written(r)
  /\ Disturb(Stale(r), Ask(r).carteira)
  /\ UNCHANGED <<saldo, used, observers, updates, restarts>>

(***************************************************************************)
(* What a request changes in the balance: addAmount and the sign.  The     *)
(* difference to a value that an edit does not have is not a number.       *)
(***************************************************************************)
WithoutValor(r) == Ask(r).verb = "edit" /\ ~Sets(Ask(r), "valor")

DeltaSwapped(r) ==                                   \* mutant
  IF WithoutValor(r) THEN NaN ELSE
  (IF Ask(r).table = "Receita" THEN 1 ELSE -1) *
  CASE Ask(r).verb = "create" -> Ask(r).valor
    [] Ask(r).verb = "edit"   -> requests[r].old - Ask(r).valor
    [] Ask(r).verb = "delete" -> -requests[r].old

Delta(r) ==
  IF WithoutValor(r) THEN NaN ELSE
  (IF Ask(r).table = "Receita" THEN 1 ELSE -1) *
  CASE Ask(r).verb = "create" -> Ask(r).valor
    [] Ask(r).verb = "edit"   -> Ask(r).valor - requests[r].old
    [] Ask(r).verb = "delete" -> -requests[r].old

(* createDespesa goes on with the next instalment, if there is one. *)
MoreParcelasByOne(r) ==                              \* mutant
  Code(r) = Despesas.create /\ requests[r].made <= Ask(r).parcela

MoreParcelas(r) == Code(r) = Despesas.create /\ requests[r].made < Ask(r).parcela

(***************************************************************************)
(* Each request adds an observer to its service, which stays, and every    *)
(* observer that is there updates the balance.                             *)
(***************************************************************************)
Notify(r) ==
  /\ At(r, "notify")
  /\ LET service == Ask(r).table
         n       == observers[service] + 1
         u       == [carteira |-> Ask(r).carteira, delta |-> Delta(r), at |-> "read", read |-> 0]
     IN  /\ observers' = [observers EXCEPT ![service] = n]
         /\ updates' = updates (+) [v \in {u} |-> n]
         /\ Book(Ask(r).carteira, IF Delta(r) = NaN THEN NaN ELSE (n - 1) * Delta(r))
  /\ requests' = [requests EXCEPT ![r].pc = IF MoreParcelas(r) THEN @ - 1 ELSE @ + 1]
  /\ UNCHANGED <<saldo, rows, used, restarts>>

Answer(r) ==
  /\ At(r, "answer")
  /\ requests' = [requests EXCEPT ![r].pc = @ + 1, ![r].answer = "ok"]
  /\ UNCHANGED <<saldo, rows, used, observers, updates, restarts, excess>>

(***************************************************************************)
(* An awaited statement finds nothing or is refused, which ends the        *)
(* request.  createDespesa returns its errors, and the controller takes    *)
(* what is returned for success; a destroy that nobody awaits is refused   *)
(* after the answer.                                                       *)
(***************************************************************************)
Reject(r) ==
  /\ r \in Received /\ Running(r)
  /\ ~At(r, "notify") /\ ~At(r, "answer")
  /\ requests' = [requests EXCEPT ![r].pc = 0,
                    ![r].answer = IF @ = "ok" \/ Code(r) = Despesas.create
                                  THEN "ok" ELSE "error"]
  /\ Disturb(\/ At(r, "carteira") /\ Ask(r).verb = "edit"
             \/ At(r, "destroy") /\ Ask(r).table = "Despesa", Ask(r).carteira)
  /\ UNCHANGED <<saldo, rows, used, observers, updates, restarts>>

-----------------------------------------------------------------------------
(***************************************************************************)
(* updateSaldoByAmount reads the balance, waits for it, and writes what it *)
(* makes of it.  update catches its errors.                                *)
(***************************************************************************)
ReadSaldo(u) ==
  /\ u.at = "read"
  /\ updates' = BagAdd(BagRemove(updates, u),
                       [u EXCEPT !.at = "write", !.read = saldo[u.carteira]])
  /\ UNCHANGED <<saldo, rows, used, observers, requests, restarts, excess>>

WriteSaldo(u) ==
  /\ u.at = "write"
  /\ saldo' = [saldo EXCEPT ![u.carteira] = Plus(u.read, u.delta)]
  /\ updates' = BagRemove(updates, u)
  /\ Disturb(saldo[u.carteira] # u.read, u.carteira)
  /\ UNCHANGED <<rows, used, observers, requests, restarts>>

UpdateFails(u) ==
  /\ updates' = BagRemove(updates, u)
  /\ Disturb(TRUE, u.carteira)
  /\ UNCHANGED <<saldo, rows, used, observers, requests, restarts>>

(* The process ends, and what runs ends with it; observers start anew. *)
Restart ==
  /\ restarts < MaxRestarts /\ restarts' = restarts + 1
  /\ LET lost == {u.carteira : u \in BagToSet(updates)}
                 \cup {Ask(r).carteira : r \in {q \in Received : Running(q)}}
     IN  excess' = [w \in Wallet |-> IF w \in lost THEN NaN ELSE excess[w]]
  /\ requests' = [r \in Received |-> [requests[r] EXCEPT !.pc = 0]]
  /\ observers' = [service \in DOMAIN observers |-> 0]
  /\ updates' = EmptyBag
  /\ UNCHANGED <<saldo, rows, used>>

-----------------------------------------------------------------------------
Handle(r) ==
  \/ FindCarteira(r) \/ FindCategoria(r) \/ Find(r)
  \/ Insert(r) \/ CreateCarteira(r) \/ Update(r) \/ Destroy(r)
  \/ Notify(r) \/ Answer(r) \/ Reject(r)

update(u) == ReadSaldo(u) \/ WriteSaldo(u) \/ UpdateFails(u)

Next ==
  \/ \E r \in Request, b \in Body : Receive(r, b)
  \/ \E r \in Request : Handle(r)
  \/ \E u \in BagToSet(updates) : update(u)
  \/ Restart

Spec == Init /\ [][Next]_vars

-----------------------------------------------------------------------------
(* Rows belong to wallets, and their ids are their own. *)
RowsOK ==
  /\ rows \subseteq Row /\ {d.id : d \in rows} \subseteq used /\ used \subseteq Item
  /\ \A d \in rows : d.carteira \in DOMAIN saldo
  /\ \A d, e \in rows : d.id = e.id => d = e

RequestOK(r) ==
  /\ r \in Request
  /\ requests[r] \in [body : Body, pc : Nat, old : Int, made : Nat,
                      answer : {"none", "ok", "error"}]
  /\ requests[r].pc <= Len(Code(r)) + 1
  /\ requests[r].made <= IF Code(r) = Despesas.create THEN Ask(r).parcela ELSE 1

UpdateOK(u) ==
  u \in [carteira : DOMAIN saldo, delta : Int \cup {NaN}, at : {"read", "write"},
         read : Int \cup {NaN}]

TypeOK ==
  /\ DOMAIN saldo \subseteq Wallet /\ saldo \in [DOMAIN saldo -> Int \cup {NaN}]
  /\ RowsOK
  /\ observers \in [{"Receita", "Despesa"} -> Nat]
  /\ \A r \in Received : RequestOK(r)
  /\ \A u \in BagToSet(updates) : UpdateOK(u)
  /\ restarts \in 0 .. MaxRestarts
  /\ excess \in [Wallet -> Int \cup {NaN}]

(***************************************************************************)
(* Seen from outside, the server writes rows and answers as Tabelas says:  *)
(* each row once, and nothing for success that was not earned, whatever    *)
(* runs at the same time.  Wallets, and all of this module's balances, are *)
(* below that.                                                             *)
(***************************************************************************)
Called == [r \in {q \in Received : Ask(q).table # "Carteira"} |->
             [body |-> Ask(r), wrote |-> requests[r].made, answer |-> requests[r].answer]]

Tabela == INSTANCE Tabelas WITH
            calls <- Called, Body <- {b \in Body : b.table # "Carteira"}

TabelasSpec == Tabela!Spec

(***************************************************************************)
(* The balance of a wallet at rest is what its incomes and expenses add up *)
(* to, but for two errors that add up themselves: observers beyond the     *)
(* first book each amount again, and an instalment is debited whole.  This *)
(* ends with the first accident that Disturb names: an edit without a      *)
(* value, a value or a balance that changed between its read and its use,  *)
(* a request or an update that failed half way, or the end of the process. *)
(* What happens to another wallet is no excuse.                            *)
(***************************************************************************)
Settled(w) ==
  /\ \A r \in Received : Ask(r).carteira = w => ~Running(r)
  /\ \A u \in BagToSet(updates) : u.carteira # w

Exact ==
  \A w \in DOMAIN saldo :
    (Settled(w) /\ excess[w] # NaN) => saldo[w] = Balance(rows, w) + excess[w]

(***************************************************************************)
(* deleteReceita awaits the destroy: an income whose deletion was answered *)
(* with success is gone, whatever else is done to it at the same time.     *)
(***************************************************************************)
ReceitaDeletada ==
  \A r \in Received :
    (Ask(r).verb = "delete" /\ Ask(r).table = "Receita" /\ requests[r].answer = "ok")
      => \A d \in rows : d.id # Ask(r).id
=============================================================================
