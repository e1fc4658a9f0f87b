------------------------------ MODULE Cliente -------------------------------
(***************************************************************************)
(* The page of one wallet, trab3/cliente/src: what it shows, what is typed *)
(* into it, and the calls that go on behind both.  The wallet server is    *)
(* what Tabelas says of it, and other pages write the same tables.         *)
(*                                                                         *)
(* The page never leaves its wallet: no link of it names another one.      *)
(***************************************************************************)
EXTENDS Linhas, Sequences, FiniteSetsExt

CONSTANTS
  walletId,    \* the wallet of this page
  Request,     \* bound: names of requests that write
  Stored,      \* the rows at the start
  Others,      \* what other pages ask for
  Amount,      \* bound: what a user types, each once
  MaxParcelas, \* bound: instalments that a user asks for
  Mounted,     \* the components of the page that are looked at
  Mounts       \* how often index.js runs the effects of a component

Component == {"WalletResume", "ActivityList", "CategoryButton", "RoscaCategoryChart"}

ASSUME MountedAssumption == Mounted \subseteq Component /\ Mounts \in {1, 2}
ASSUME AmountAssumption == Amount \subseteq Nat \ {0} /\ Null \notin Int /\ MaxParcelas \in Nat
ASSUME WalletAssumption == walletId \in Wallet
ASSUME NullAssumption == Null \notin Item
ASSUME OthersAssumption == Others \subseteq {b \in Asked : b.table \in Table}
ASSUME StoredAssumption ==
  Stored \subseteq Row /\ \A d \in Stored : d.categoria \in {c.id : c \in Stored} \cup {Null}

VARIABLES
  rows, used, calls,  \* of the server
  saldo,    \* the balance that it has for the wallet
  screen,   \* by view, what is shown, and the number of the fetch that brought it
  fetches,  \* the fetches under way
  newest,   \* by view, the number of its last fetch
  mine,     \* by name, what this page knows of its own requests
  modal,    \* the row that ActivityList asks about, and what for
  form,     \* what the forms hold
  typed,    \* history: amounts typed
  touched   \* history: views that the server would answer otherwise by now

server == <<rows, used, calls>>
page == <<screen, fetches, newest, mine, modal, form, typed>>
vars == <<server, saldo, page, touched>>

Servidor == INSTANCE Tabelas WITH Body <- Others

-----------------------------------------------------------------------------
(* The views of each component, which its effect fetches when it is mounted. *)
Effect == [WalletResume       |-> {"despesaCategoriaOpt", "despesaTotal", "receitaTotal", "saldo"},
           ActivityList       |-> {"expenses", "incomes"},
           CategoryButton     |-> {"categoryOptions"},
           RoscaCategoryChart |-> {"chart"}]

(* What a fetch asks the server for, one after the other. *)
AsksSwapped ==                                       \* mutant
  [despesaCategoriaOpt |-> <<"Categoria">>, categoryOptions |-> <<"Categoria">>,
   despesaTotal |-> <<"Despesa">>, receitaTotal |-> <<"Receita">>, saldo |-> <<"Carteira">>,
   expenses |-> <<"Despesa">>, incomes |-> <<"Receita">>, chart |-> <<"Categoria", "Despesa">>]

Asks ==
  [despesaCategoriaOpt |-> <<"Categoria">>, categoryOptions |-> <<"Categoria">>,
   despesaTotal |-> <<"Despesa">>, receitaTotal |-> <<"Receita">>, saldo |-> <<"Carteira">>,
   expenses |-> <<"Despesa">>, incomes |-> <<"Receita">>, chart |-> <<"Despesa", "Categoria">>]

Views == UNION {Effect[c] : c \in Mounted}

Served(table) == IF table = "Carteira" THEN {[saldo |-> saldo]} ELSE RowsOf(rows, table, walletId)

TotalOf(R) == MapThenSumSet(LAMBDA d : d.valor, R)

(* What a view makes of the answers; the chart drops expenses without a category. *)
Got(v, got, table) == got[CHOOSE k \in DOMAIN got : Asks[v][k] = table]

Shown(v, got) ==
  CASE v \in {"despesaTotal", "receitaTotal"} -> TotalOf(got[1])
    [] v = "chart" -> {d \in Got(v, got, "Despesa") :
                         \E c \in Got(v, got, "Categoria") : c.id = d.categoria}
    [] OTHER -> got[1]

Truth(v) == Shown(v, [k \in DOMAIN Asks[v] |-> Served(Asks[v][k])])

(* useState: totals are zero, and of all else there is nothing. *)
Blank(v) == IF v \in {"despesaTotal", "receitaTotal"} THEN 0 ELSE {}

Init ==
  /\ Servidor!Init
  /\ saldo = 0
  /\ screen = [v \in Views |-> [n |-> 0, data |-> Blank(v)]]
  /\ fetches = [view : Views, n : 1 .. Mounts, got : {<<>>}]
  /\ newest = [v \in Views |-> Mounts]
  /\ mine = [r \in {} |-> 0]
  /\ modal = Null
  /\ form = [Receita |-> Null, Despesa |-> Null, Categoria |-> Null, selected |-> Null, limite |-> Null]
  /\ typed = {}
  /\ touched = {}

-----------------------------------------------------------------------------
(* A fetch: the server answers, and the view is set, or there is an error. *)
Read(f) ==
  /\ Len(f.got) < Len(Asks[f.view])
  /\ fetches' = (fetches \ {f}) \cup {[f EXCEPT !.got = Append(@, Served(Asks[f.view][Len(@) + 1]))]}
  /\ UNCHANGED <<server, saldo, screen, newest, mine, modal, form, typed, touched>>

Deliver(f) ==
  /\ Len(f.got) = Len(Asks[f.view])
  /\ screen' = [screen EXCEPT ![f.view] = [n |-> f.n, data |-> Shown(f.view, f.got)]]
  /\ fetches' = fetches \ {f}
  /\ UNCHANGED <<server, saldo, newest, mine, modal, form, typed, touched>>

FetchFails(f) ==
  /\ fetches' = fetches \ {f}
  /\ UNCHANGED <<server, saldo, screen, newest, mine, modal, form, typed, touched>>

-----------------------------------------------------------------------------
Waiting == {r \in DOMAIN mine : mine[r].heard = "nothing"}

(* The edit of a category has its limit only; parseFloat makes null of an empty one. *)
Asking(verb, table, i, c, a, p) ==
  [verb |-> verb, table |-> table, carteira |-> walletId, id |-> i, categoria |-> c,
   valor |-> IF a = Null THEN 0 ELSE a, parcela |-> p, valido |-> a # Null,
   campos |-> IF verb = "edit" /\ table = "Categoria" THEN {"valor"} ELSE Colunas[table]]

(* cached: what the form goes back to when the request succeeds. *)
Send(b, cached) ==
  /\ \E r \in Request :
       /\ Servidor!Receive(r, b)
       /\ mine' = With(mine, r, [heard |-> "nothing", cached |-> cached,
                                again |-> \E q \in Waiting : calls[q].body = b])
  /\ UNCHANGED <<saldo, screen, fetches, newest, modal, form, typed, touched>>

(* Each form holds the amount, or the name, that was typed last, or nothing. *)
Type(field, a, value) ==
  /\ a \in Amount \ typed
  /\ form' = [form EXCEPT ![field] = value]
  /\ typed' = typed \cup {a}
  /\ UNCHANGED <<server, saldo, screen, fetches, newest, mine, modal, touched>>

TypeReceita(a) == "WalletResume" \in Mounted /\ Type("Receita", a, a)

TypeDespesa(a) ==
  /\ "WalletResume" \in Mounted
  /\ \E c \in screen["despesaCategoriaOpt"].data, p \in 1 .. MaxParcelas :
       Type("Despesa", a, [valor |-> a, categoria |-> c.id, parcela |-> p])

TypeNome(a) == "CategoryButton" \in Mounted /\ Type("Categoria", a, a)
TypeLimite(a) == "CategoryButton" \in Mounted /\ Type("limite", a, a)

handleSubmitReceitaForm ==
  /\ "WalletResume" \in Mounted
  /\ Send(Asking("create", "Receita", Null, Null, form.Receita, 1), Null)

handleSubmitDespesaForm ==
  /\ "WalletResume" \in Mounted
  /\ IF form.Despesa = Null
     THEN Send(Asking("create", "Despesa", Null, Null, Null, 1), Null)
     ELSE Send(Asking("create", "Despesa", Null, form.Despesa.categoria,
                      form.Despesa.valor, form.Despesa.parcela), Null)

handleCreateCategoria ==
  /\ "CategoryButton" \in Mounted
  /\ form.Categoria # Null
  /\ Send(Asking("create", "Categoria", Null, Null, form.Categoria, 1), Null)

(* The limit of a category, as it was when the options were fetched. *)
Cached(i) ==
  LET C == {c \in screen["categoryOptions"].data : c.id = i}
  IN  IF C = {} THEN Null ELSE (CHOOSE c \in C : TRUE).valor

handleCategoryChange(i) ==
  /\ "CategoryButton" \in Mounted
  /\ i = Null \/ \E c \in screen["categoryOptions"].data : c.id = i
  /\ form' = [form EXCEPT !.selected = i, !.limite = Cached(i)]
  /\ UNCHANGED <<server, saldo, screen, fetches, newest, mine, modal, typed, touched>>

handleSaveChanges ==
  /\ "CategoryButton" \in Mounted
  /\ Send(Asking("edit", "Categoria", form.selected, Null, form.limite, 1), Cached(form.selected))

-----------------------------------------------------------------------------
(* ActivityList asks about a row that it shows, as it shows it. *)
Open(verb, d) ==
  /\ modal = Null
  /\ modal' = [verb |-> verb, row |-> d]
  /\ UNCHANGED <<server, saldo, screen, fetches, newest, mine, form, typed, touched>>

OpenModal ==
  /\ "ActivityList" \in Mounted
  /\ \E d \in screen["expenses"].data \cup screen["incomes"].data, verb \in {"edit", "delete"} :
       Open(verb, d)

handleClose ==
  /\ modal # Null /\ modal' = Null
  /\ UNCHANGED <<server, saldo, screen, fetches, newest, mine, form, typed, touched>>

handleChange(a) ==
  /\ modal # Null /\ modal.verb = "edit"
  /\ a \in Amount \ typed
  /\ modal' = [modal EXCEPT !.row.valor = a]
  /\ typed' = typed \cup {a}
  /\ UNCHANGED <<server, saldo, screen, fetches, newest, mine, form, touched>>

(* handleEditClick and handleEditCreditClick send all of the row, typed or not. *)
handleEditClick ==
  /\ modal # Null /\ modal.verb = "edit"
  /\ Send(Asking("edit", modal.row.table, modal.row.id, modal.row.categoria, modal.row.valor, 1), Null)

(* handleDeleteClick and handleDeleteIncomeClick. *)
handleDeleteClick ==
  /\ modal # Null /\ modal.verb = "delete"
  /\ Send(Asking("delete", modal.row.table, modal.row.id, Null, modal.row.valor, 1), Null)

-----------------------------------------------------------------------------
(* The answer to a request of this page. *)
Heard(r, answer) == mine' = [mine EXCEPT ![r].heard = answer]
Body(r) == calls[r].body
Deletes(r, table) == Body(r).verb = "delete" /\ Body(r).table = table

(* The modal that closes is the one for such rows, whatever row it shows by now. *)
Close(r) ==
  modal' = IF modal # Null /\ modal.verb = Body(r).verb /\ modal.row.table = Body(r).table
           THEN Null ELSE modal

FetchNothing(V) ==                                   \* mutant
  UNCHANGED <<fetches, newest, touched>>

FetchUncounted(V) ==                                 \* mutant
  /\ fetches' = fetches \cup {[view |-> v, n |-> newest[v], got |-> <<>>] : v \in V}
  /\ touched' = touched \ V
  /\ UNCHANGED newest

Fetch(V) ==
  /\ newest' = [v \in Views |-> IF v \in V THEN newest[v] + 1 ELSE newest[v]]
  /\ fetches' = fetches \cup {[view |-> v, n |-> newest[v] + 1, got |-> <<>>] : v \in V}
  /\ touched' = touched \ V

ResetNothing(r) == UNCHANGED form                    \* mutant

Reset(r) == form' = [form EXCEPT ![Body(r).table] = Null]

Answered(r) ==
  /\ r \in Waiting /\ calls[r].answer = "ok"
  /\ Heard(r, "ok")
  /\ \/ /\ Body(r).verb = "create"
        /\ Reset(r)
        /\ UNCHANGED <<fetches, newest, modal, touched>>
     \/ /\ Body(r).verb = "edit" /\ Body(r).table = "Categoria"
        /\ form' = [form EXCEPT !.limite = mine[r].cached]
        /\ UNCHANGED <<fetches, newest, modal, touched>>
     \/ /\ Body(r).verb = "edit" /\ Body(r).table # "Categoria"
        /\ Close(r)
        /\ UNCHANGED <<fetches, newest, form, touched>>
     \/ /\ Body(r).verb = "delete"
        /\ Fetch(IF Body(r).table = "Receita" THEN {"incomes"} ELSE {"expenses"})
        /\ Close(r)
        /\ UNCHANGED form
  /\ UNCHANGED <<server, saldo, screen, typed>>

(* An error is logged, and whether the request was carried out is not known. *)
Failed(r) ==
  /\ r \in Waiting
  /\ \/ calls[r].answer = "error" /\ Heard(r, "error")
     \/ Heard(r, "lost")
  /\ touched' = IF Deletes(r, "Receita") THEN touched \cup {"incomes"} ELSE touched
  /\ UNCHANGED <<server, saldo, screen, fetches, newest, modal, form, typed>>

-----------------------------------------------------------------------------
(* The server, and the pages of other users. *)
ServerWrites(r) ==
  /\ Servidor!Write(r)
  /\ UNCHANGED <<saldo, page>>
  /\ touched' = touched \cup
       {v \in Views : /\ Truth(v)' # Truth(v)
                      /\ ~(v = "incomes" /\ r \in Waiting /\ Deletes(r, "Receita"))}

ServerAnswers(r) ==
  /\ \E a \in {"ok", "error"} : Servidor!Answer(r, a)
  /\ UNCHANGED <<saldo, page, touched>>

OthersAsk(r) ==
  /\ \E b \in Others : Servidor!Receive(r, b)
  /\ UNCHANGED <<saldo, page, touched>>

ServerSaldo ==
  /\ "saldo" \in Views
  /\ \E a \in Amount : a # saldo /\ saldo' = a
  /\ touched' = touched \cup {"saldo"}
  /\ UNCHANGED <<server, page>>

-----------------------------------------------------------------------------
FetchStep == \E f \in fetches : Read(f) \/ Deliver(f) \/ FetchFails(f)

Next ==
  \/ FetchStep
  \/ \E a \in Amount : \/ TypeReceita(a) \/ TypeDespesa(a) \/ TypeNome(a) \/ TypeLimite(a)
                       \/ handleChange(a)
  \/ handleSubmitReceitaForm \/ handleSubmitDespesaForm \/ handleCreateCategoria
  \/ handleSaveChanges \/ \E i \in Item \cup {Null} : handleCategoryChange(i)
  \/ OpenModal \/ handleClose \/ handleEditClick \/ handleDeleteClick
  \/ \E r \in Request : \/ Answered(r) \/ Failed(r)
                        \/ ServerWrites(r) \/ ServerAnswers(r) \/ OthersAsk(r)
  \/ ServerSaldo

Spec == Init /\ [][Next]_vars

(* A browser lets a fetch end, with an answer or with an error. *)
FairSpec == Spec /\ WF_vars(FetchStep)

-----------------------------------------------------------------------------
TypeOK ==
  /\ rows \subseteq Row /\ {d.id : d \in rows} \subseteq used /\ used \subseteq Item
  /\ DOMAIN mine \subseteq DOMAIN calls /\ DOMAIN calls \subseteq Request
  /\ \A r \in DOMAIN calls : Body(r) \in Asked /\ calls[r].answer \in {"none", "ok", "error"}
  /\ \A r \in DOMAIN mine : /\ mine[r].heard \in {"nothing", "lost", calls[r].answer}
                            /\ mine[r].cached \in Int \cup {Null}
  /\ DOMAIN newest = Views /\ DOMAIN screen = Views /\ touched \subseteq Views
  /\ \A v \in Views : screen[v].n \in 0 .. newest[v]
  /\ \A f \in fetches : f.view \in Views /\ f.n \in 1 .. newest[f.view] /\ f.n # screen[f.view].n
  /\ modal = Null \/ (modal.verb \in {"edit", "delete"} /\ modal.row \in Row)
  /\ form.Receita \in Amount \cup {Null} /\ form.Categoria \in Amount \cup {Null}
  /\ form.Despesa = Null \/ form.Despesa \in [valor : Amount, categoria : Item, parcela : 1 .. MaxParcelas]
  /\ form.selected \in Item \cup {Null} /\ form.limite \in Int \cup {Null}
  /\ typed \subseteq Amount

(***************************************************************************)
(* A view that shows what its last fetch brought shows what the server     *)
(* has, if nobody changed that since the fetch was sent.  The incomes that *)
(* this page deletes itself are no excuse: it fetches them anew.  There is *)
(* no such fetch after a create or an edit, and an older fetch that comes  *)
(* later wins: for those this says nothing.                                *)
(***************************************************************************)
Fresh ==
  \A v \in Views :
    (/\ screen[v].n = newest[v] /\ v \notin touched
     /\ v = "incomes" => ~\E r \in Waiting : Deletes(r, "Receita"))
      => screen[v].data = Truth(v)

(***************************************************************************)
(* What was typed into a form once is stored once: two requests that say   *)
(* the same were both carried out only if the second was sent before the   *)
(* first was answered, or the first seemed to fail.                        *)
(***************************************************************************)
OncePerFill ==
  \A q, r \in {p \in DOMAIN mine : Body(p).verb = "create"} :
    (q # r /\ Body(q) = Body(r) /\ calls[q].wrote > 0 /\ calls[r].wrote > 0)
      => \E p \in {q, r} : mine[p].again \/ mine[p].heard \in {"error", "lost"}

(***************************************************************************)
(* fetchExpensesAndCategories reads twice, with awaits between: an expense *)
(* that it read is missing from the chart only if it has no category that  *)
(* the wallet still has.                                                   *)
(***************************************************************************)
ChartComplete ==
  \A f \in fetches :
    (f.view = "chart" /\ Len(f.got) = 2) =>
      \A d \in Got("chart", f.got, "Despesa") :
        \/ d \in Shown("chart", f.got)
        \/ d.categoria = Null
        \/ \A c \in RowsOf(rows, "Categoria", walletId) : c.id # d.categoria

(***************************************************************************)
(* An income that was deleted with success leaves the list: in the end no  *)
(* fetch of it is under way, and the list is without it, or is not the     *)
(* one fetched last, which failed or came too early.                       *)
(***************************************************************************)
DeletedVanishes ==
  \A r \in Request, i \in Item :
    (r \in DOMAIN mine /\ mine[r].heard = "ok" /\ Deletes(r, "Receita") /\ Body(r).id = i) ~>
      /\ \A f \in fetches : f.view # "incomes"
      /\ screen["incomes"].n = newest["incomes"] => \A d \in screen["incomes"].data : d.id # i

(***************************************************************************)
(* "Limite da categoria alterado com sucesso.": the form shows the limit   *)
(* that the category has, when all was saved with success and nobody else  *)
(* edits it.                                                               *)
(***************************************************************************)
LimiteAlterado ==
  (/\ \E r \in DOMAIN mine : Body(r).verb = "edit"
   /\ \A r \in DOMAIN calls : /\ Body(r).verb = "edit" => r \in DOMAIN mine
                              /\ r \in DOMAIN mine => mine[r].heard = "ok"
   /\ \A a \in typed : \E r \in DOMAIN mine : Body(r).valor = a
   /\ form.selected # Null)
    => \A c \in rows : c.id = form.selected => c.valor = form.limite
=============================================================================
