--------------------------- MODULE ClientePromises --------------------------
(***************************************************************************)
(* What the page of a wallet promises: that a view shows what the server   *)
(* has as long as nobody changed that since its last fetch, and that a     *)
(* form that was filled once is stored once.                               *)
(***************************************************************************)
EXTENDS ClienteProofs

-----------------------------------------------------------------------------
(* No view's data has changed since it was asked for, as far as Fresh tells. *)
Calm(v) ==
  /\ v \notin touched
  /\ v = "incomes" => ~\E r \in Waiting : Deletes(r, "Receita")

(***************************************************************************)
(* A fetch that has all of its answers will show the truth.  The chart's   *)
(* has only the expenses for a while: with the categories that there are   *)
(* now, they would show it.                                                *)
(***************************************************************************)
Right(f) ==
  /\ Len(f.got) = Len(Asks[f.view]) => Shown(f.view, f.got) = Truth(f.view)
  /\ (f.view = "chart" /\ Len(f.got) = 1) =>
       Shown("chart", <<f.got[1], Categories>>) = Truth("chart")

FreshInv ==
  \A v \in Views : Calm(v) =>
    /\ screen[v].n = newest[v] => screen[v].data = Truth(v)
    /\ \A f \in fetches : (f.view = v /\ f.n = newest[v]) => Right(f)

-----------------------------------------------------------------------------
(* What is shown depends on the answers alone, whatever sequence they come in. *)
LEMMA ShownOne ==
  ASSUME NEW v \in AllViews \ {"chart"}, NEW g, NEW h, g[1] = h[1]
  PROVE  Shown(v, g) = Shown(v, h)
  BY DEF Shown, AllViews, Lists

LEMMA ShownTwo ==
  ASSUME NEW g, DOMAIN g = {1, 2}
  PROVE  Shown("chart", g) = {d \in g[1] : \E c \in g[2] : c.id = d.categoria}
<1>1. (CHOOSE k \in DOMAIN g : Asks["chart"][k] = "Despesa") = 1
  BY AsksAre
<1>2. (CHOOSE k \in DOMAIN g : Asks["chart"][k] = "Categoria") = 2
  BY AsksAre
<1>3. Got("chart", g, "Despesa") = g[1] /\ Got("chart", g, "Categoria") = g[2]
  BY <1>1, <1>2 DEF Got
<1> QED
  BY <1>3, ShownChart

LEMMA ShownPair ==
  ASSUME NEW x, NEW y
  PROVE  Shown("chart", <<x, y>>) = {d \in x : \E c \in y : c.id = d.categoria}
  BY GotChart, ShownChart

Expenses == RowsOf(rows, "Despesa", walletId)

LEMMA TruthOne ==
  ASSUME NEW v \in AllViews \ {"chart"}, NEW g, g[1] = Served(Asks[v][1])
  PROVE  Truth(v) = Shown(v, g)
<1> DEFINE h == [k \in DOMAIN Asks[v] |-> Served(Asks[v][k])]
<1>1. h[1] = Served(Asks[v][1])
  BY AsksAre
<1>2. Truth(v) = Shown(v, h)
  BY DEF Truth
<1> HIDE DEF h
<1> QED
  BY <1>1, <1>2, ShownOne

LEMMA TruthChart ==
  Truth("chart") = {d \in Expenses : \E c \in Categories : c.id = d.categoria}
<1> DEFINE h == [k \in DOMAIN Asks["chart"] |-> Served(Asks["chart"][k])]
<1>1. DOMAIN Asks["chart"] = {1, 2}
  BY DEF Asks
<1>2. DOMAIN h = {1, 2} /\ h[1] = Expenses /\ h[2] = Categories
  BY <1>1, AsksAre DEF Served, Expenses, Categories
<1>3. Truth("chart") = Shown("chart", h)
  BY DEF Truth
<1> HIDE DEF h
<1> QED
  BY <1>2, <1>3, ShownTwo

(* Only the view of the balance asks for it. *)
LEMMA TruthOfRows ==
  ASSUME UNCHANGED rows, NEW v \in Views, v # "saldo" \/ UNCHANGED saldo
  PROVE  Truth(v)' = Truth(v)
<1>1. UNCHANGED <<Expenses, Categories>>
  BY DEF Expenses, Categories
<1>2. v \in AllViews
  BY ViewsAre
<1>3. CASE v = "chart"
  <2>1. (Truth("chart") = {d \in Expenses : \E c \in Categories : c.id = d.categoria})'
    BY TruthChart, PTL
  <2> QED
    BY <1>1, <1>3, <2>1, TruthChart
<1>4. CASE v # "chart" /\ v # "saldo"
  <2>1. Asks[v][1] # "Carteira"
    BY <1>2, <1>4 DEF AllViews, Lists, Asks
  <2>2. Served(Asks[v][1])' = Served(Asks[v][1])
    BY <2>1 DEF Served
  <2> DEFINE h == [k \in DOMAIN Asks[v] |-> Served(Asks[v][k])]
  <2>3. h[1] = Served(Asks[v][1]) /\ h'[1] = Served(Asks[v][1])'
    BY <1>2, <1>4, AsksAre
  <2>4. Truth(v) = Shown(v, h) /\ Truth(v)' = Shown(v, h')
    BY DEF Truth
  <2> HIDE DEF h
  <2> QED
    BY <1>2, <1>4, <2>2, <2>3, <2>4, ShownOne
<1>5. CASE UNCHANGED saldo
  BY <1>5 DEF Truth, Served
<1> QED
  BY <1>3, <1>4, <1>5

-----------------------------------------------------------------------------
LEMMA InvFresh == FreshInv => Fresh
  BY DEF FreshInv, Fresh, Calm

LEMMA InitFresh == Init => FreshInv
<1> SUFFICES ASSUME Init PROVE FreshInv
  OBVIOUS
<1>1. \A v \in Views : screen[v].n # newest[v]
  BY MountedAssumption DEF Init
<1>2. \A f \in fetches : f.view \in Views /\ f.got = <<>>
  BY DEF Init
<1>3. \A v \in Views : Len(Asks[v]) # 0
  BY AsksAre, ViewsAre
<1> QED
  BY <1>1, <1>2, <1>3 DEF FreshInv, Right

(* A step that brings nothing and calms nothing. *)
LEMMA KeepFresh ==
  ASSUME FreshInv, UNCHANGED <<rows, saldo, screen, fetches, newest>>,
         \A v \in Views : Calm(v)' => Calm(v)
  PROVE  FreshInv'
<1>1. \A v \in Views : Truth(v)' = Truth(v)
  BY TruthOfRows
<1>2. UNCHANGED Categories
  BY DEF Categories
<1>3. ASSUME NEW f \in fetches, f.view \in Views PROVE Right(f) => Right(f)'
  BY <1>1, <1>2, <1>3 DEF Right
<1> QED
  BY <1>1, <1>3 DEF FreshInv

LEMMA SameCalm ==
  ASSUME UNCHANGED <<calls, mine, touched>>, NEW v
  PROVE  Calm(v)' = Calm(v)
  BY DEF Calm, Waiting, Deletes, Body

-----------------------------------------------------------------------------
LEMMA ReadFresh == ASSUME Inv, FreshInv, NEW f \in fetches, Read(f) PROVE FreshInv'
<1> DEFINE x == Served(Asks[f.view][Len(f.got) + 1])
<1> DEFINE g == [view |-> f.view, n |-> f.n, got |-> Append(f.got, x)]
<1>1. /\ f.view \in Views /\ f.view \in AllViews
      /\ f = [view |-> f.view, n |-> f.n, got |-> f.got] /\ GotOK(f.view, f.got)
  BY ViewsAre DEF Inv, PageInv, FetchOK
<1>2. /\ fetches' = (fetches \ {f}) \cup {g} /\ Len(f.got) < Len(Asks[f.view])
      /\ UNCHANGED <<server, saldo, screen, newest, mine, modal, form, typed, touched>>
  BY <1>1 DEF Read
<1>3. g.view = f.view /\ g.n = f.n /\ g.got = Append(f.got, x)
  OBVIOUS
<1>4. Right(f) => Right(g)
  <2>1. CASE f.got = <<>> /\ f.view # "chart"
    <3>1. g.got = <<x>> /\ x = Served(Asks[f.view][1])
      BY <2>1
    <3>2. Truth(f.view) = Shown(f.view, g.got)
      BY <1>1, <2>1, <3>1, TruthOne
    <3> QED
      BY <1>3, <2>1, <3>2 DEF Right
  <2>2. CASE f.got = <<>> /\ f.view = "chart"
    <3>1. g.got = <<x>> /\ x = Expenses
      BY <2>2, AsksAre DEF Served, Expenses
    <3>2. Len(g.got) = 1 /\ g.got[1] = Expenses
      BY <3>1
    <3>3. Shown("chart", <<g.got[1], Categories>>) = Truth("chart")
      BY <3>2, ShownPair, TruthChart
    <3> QED
      BY <1>3, <2>2, <3>2, <3>3, AsksAre DEF Right
  <2>3. CASE f.got = <<f.got[1]>>
    <3>1. Len(f.got) = 1 /\ g.got = <<f.got[1], x>>
      BY <2>3, AppendOne
    <3>2. f.view = "chart"
      BY <1>1, <1>2, <3>1, AsksAre
    <3>3. x = Categories
      BY <3>1, <3>2, ServedOK DEF Inv
    <3>4. Len(g.got) = 2
      BY <3>1
    <3>5. Right(f) => Shown("chart", g.got) = Truth("chart")
      BY <3>1, <3>2, <3>3 DEF Right
    <3> HIDE DEF g
    <3> QED
      BY <1>3, <3>2, <3>4, <3>5 DEF Right
  <2>4. CASE f.got = <<f.got[1], f.got[2]>> /\ f.view = "chart"
    BY <1>2, <2>4, AsksAre
  <2> QED
    BY <1>1, <2>1, <2>2, <2>3, <2>4 DEF GotOK
<1> HIDE DEF g
<1>5. \A v \in Views : Truth(v)' = Truth(v) /\ Calm(v)' = Calm(v)
  BY <1>2, TruthOfRows, SameCalm DEF server
<1>6. UNCHANGED Categories
  BY <1>2 DEF Categories, server
<1>7. ASSUME NEW h \in fetches', h.n = newest[h.view], h.view \in Views, Calm(h.view) PROVE Right(h)'
  <2>1. Right(h)
    BY <1>1, <1>2, <1>3, <1>4, <1>7 DEF FreshInv
  <2> QED
    BY <1>5, <1>6, <1>7, <2>1 DEF Right
<1> QED
  BY <1>2, <1>5, <1>7 DEF FreshInv

LEMMA DeliverFresh == ASSUME Inv, FreshInv, NEW f \in fetches, Deliver(f) PROVE FreshInv'
<1>1. f.view \in Views
  BY DEF Inv, PageInv, FetchOK
<1>2. /\ fetches' = fetches \ {f} /\ Len(f.got) = Len(Asks[f.view])
      /\ UNCHANGED <<server, saldo, newest, mine, modal, form, typed, touched>>
  BY DEF Deliver
<1>3. /\ screen'[f.view] = [n |-> f.n, data |-> Shown(f.view, f.got)]
      /\ \A v \in Views \ {f.view} : screen'[v] = screen[v]
  BY <1>1 DEF Deliver, Inv, PageInv
<1>4. \A v \in Views : Truth(v)' = Truth(v) /\ Calm(v)' = Calm(v)
  BY <1>2, TruthOfRows, SameCalm DEF server
<1>5. UNCHANGED Categories
  BY <1>2 DEF Categories, server
<1>6. ASSUME NEW v \in Views, Calm(v), screen'[v].n = newest[v] PROVE screen'[v].data = Truth(v)
  <2>1. CASE v = f.view
    <3>1. f.n = newest[v] /\ screen'[v].data = Shown(v, f.got)
      BY <1>3, <1>6, <2>1
    <3>2. Right(f)
      BY <1>6, <2>1, <3>1 DEF FreshInv
    <3> QED
      BY <1>2, <2>1, <3>1, <3>2 DEF Right
  <2>2. CASE v # f.view
    BY <1>3, <1>6, <2>2 DEF FreshInv
  <2> QED
    BY <2>1, <2>2
<1>7. ASSUME NEW h \in fetches, h.view \in Views, Right(h) PROVE Right(h)'
  BY <1>4, <1>5, <1>7 DEF Right
<1> QED
  BY <1>2, <1>4, <1>6, <1>7 DEF FreshInv

LEMMA FetchFailsFresh == ASSUME Inv, FreshInv, NEW f \in fetches, FetchFails(f) PROVE FreshInv'
<1>1. /\ fetches' = fetches \ {f}
      /\ UNCHANGED <<server, saldo, screen, newest, mine, modal, form, typed, touched>>
  BY DEF FetchFails
<1>2. \A v \in Views : Truth(v)' = Truth(v) /\ Calm(v)' = Calm(v)
  BY <1>1, TruthOfRows, SameCalm DEF server
<1>3. UNCHANGED Categories
  BY <1>1 DEF Categories, server
<1>4. ASSUME NEW h \in fetches, h.view \in Views, Right(h) PROVE Right(h)'
  BY <1>2, <1>3, <1>4 DEF Right
<1> QED
  BY <1>1, <1>2, <1>4 DEF FreshInv

-----------------------------------------------------------------------------
(* What is typed, chosen or opened changes no view. *)
LEMMA FormsFresh ==
  ASSUME FreshInv,
         \/ \E a \in Amount : \/ TypeReceita(a) \/ TypeDespesa(a) \/ TypeNome(a) \/ TypeLimite(a)
                              \/ handleChange(a)
         \/ \E i \in Item \cup {Null} : handleCategoryChange(i)
         \/ OpenModal \/ handleClose
  PROVE  FreshInv'
<1>1. UNCHANGED <<server, saldo, screen, fetches, newest, mine, touched>>
  <2>1. ASSUME NEW a, NEW field, NEW value, Type(field, a, value)
        PROVE  UNCHANGED <<server, saldo, screen, fetches, newest, mine, touched>>
    BY <2>1 DEF Type
  <2>2. ASSUME NEW a \in Amount, TypeReceita(a) \/ TypeDespesa(a) \/ TypeNome(a) \/ TypeLimite(a)
        PROVE  UNCHANGED <<server, saldo, screen, fetches, newest, mine, touched>>
    BY <2>1, <2>2 DEF TypeReceita, TypeDespesa, TypeNome, TypeLimite
  <2> QED
    BY <2>2 DEF handleChange, handleCategoryChange, OpenModal, Open, handleClose
<1> QED
  BY <1>1, KeepFresh, SameCalm DEF server

(* A request that was sent disturbs its view, or does nothing yet. *)
LEMMA SentFresh ==
  ASSUME Inv, FreshInv, NEW b, NEW cached, Send(b, cached)
  PROVE  FreshInv'
<1>1. PICK r \in Request :
        /\ Servidor!Receive(r, b)
        /\ mine' = With(mine, r, [heard |-> "nothing", cached |-> cached,
                                  again |-> \E q \in Waiting : calls[q].body = b])
  BY DEF Send
<1>2. UNCHANGED <<rows, saldo, screen, fetches, newest, touched>>
  BY <1>1 DEF Send, Servidor!Receive
<1>3. r \notin DOMAIN calls /\ \A q \in DOMAIN calls : q \in DOMAIN calls' /\ calls'[q] = calls[q]
  BY <1>1 DEF Servidor!Receive, Servidor!With
<1>4. \A q \in DOMAIN mine : q \in DOMAIN calls /\ q \in DOMAIN mine' /\ mine'[q] = mine[q]
  BY <1>1, <1>3 DEF With, Inv, CallsInv
<1>5. \A q \in Waiting : q \in Waiting' /\ Body(q)' = Body(q)
  BY <1>3, <1>4 DEF Waiting, Body
<1>6. \A v \in Views : Calm(v)' => Calm(v)
  BY <1>2, <1>5 DEF Calm, Deletes
<1> QED
  BY <1>2, <1>6, KeepFresh

LEMMA SendsFresh ==
  ASSUME Inv, FreshInv, handleSubmitReceitaForm \/ handleSubmitDespesaForm \/ handleCreateCategoria
                          \/ handleSaveChanges \/ handleEditClick \/ handleDeleteClick
  PROVE  FreshInv'
<1>1. \E b, cached : Send(b, cached)
  BY DEF handleSubmitReceitaForm, handleSubmitDespesaForm, handleCreateCategoria,
         handleSaveChanges, handleEditClick, handleDeleteClick
<1> QED
  BY <1>1, SentFresh

LEMMA FailedFresh == ASSUME Inv, FreshInv, NEW r \in Request, Failed(r) PROVE FreshInv'
<1>1. /\ r \in Waiting /\ r \in DOMAIN mine /\ \E a : a # "nothing" /\ Heard(r, a)
      /\ touched' = IF Deletes(r, "Receita") THEN touched \cup {"incomes"} ELSE touched
      /\ UNCHANGED <<rows, used, calls, saldo, screen, fetches, newest>>
  BY DEF Failed, Waiting, server
<1>2. Waiting \subseteq Waiting' \cup {r} /\ \A q, t : Deletes(q, t)' = Deletes(q, t)
  BY <1>1 DEF Heard, Waiting, Deletes, Body
<1>3. \A v \in Views : Calm(v)' => Calm(v)
  BY <1>1, <1>2 DEF Calm
<1> QED
  BY <1>1, <1>3, KeepFresh

LEMMA AnsweredFresh == ASSUME Inv, FreshInv, NEW r \in Request, Answered(r) PROVE FreshInv'
<1>1. /\ r \in Waiting /\ r \in DOMAIN mine /\ Heard(r, "ok")
      /\ UNCHANGED <<rows, used, calls, saldo, screen>>
  BY DEF Answered, Waiting, server
<1>2. Waiting \subseteq Waiting' \cup {r} /\ \A q, t : Deletes(q, t)' = Deletes(q, t)
  BY <1>1 DEF Heard, Waiting, Deletes, Body
<1>3. CASE UNCHANGED <<fetches, newest, touched>> /\ Body(r).verb # "delete"
  <2>1. \A v \in Views : Calm(v)' => Calm(v)
    BY <1>2, <1>3 DEF Calm, Deletes
  <2> QED
    BY <1>1, <1>3, <2>1, KeepFresh
<1>4. CASE /\ Body(r).verb = "delete"
           /\ Fetch(IF Body(r).table = "Receita" THEN {"incomes"} ELSE {"expenses"})
  <2> DEFINE V == IF Body(r).table = "Receita" THEN {"incomes"} ELSE {"expenses"}
  <2>1. /\ newest' = [v \in Views |-> IF v \in V THEN newest[v] + 1 ELSE newest[v]]
        /\ fetches' = fetches \cup {[view |-> v, n |-> newest[v] + 1, got |-> <<>>] : v \in V}
        /\ touched' = touched \ V
    BY <1>4 DEF Fetch
  <2>2. Deletes(r, "Receita") => "incomes" \in V
    BY DEF Deletes
  <2> HIDE DEF V
  <2>3. \A v \in Views \ V : Calm(v)' => Calm(v)
    BY <1>2, <2>1, <2>2 DEF Calm
  <2>4. \A v \in Views : Truth(v)' = Truth(v)
    BY <1>1, TruthOfRows
  <2>5. UNCHANGED Categories
    BY <1>1 DEF Categories
  <2>6. \A v \in Views : newest[v] \in Nat /\ screen[v].n \in 0 .. newest[v]
    BY DEF Inv, PageInv, ScreenOK
  <2>7. \A f \in fetches : f.view \in Views /\ f.n \in 1 .. newest[f.view]
    BY DEF Inv, PageInv, FetchOK
  <2>8. ASSUME NEW v \in V, v \in Views
        PROVE  /\ screen'[v].n # newest'[v]
               /\ \A f \in fetches' : (f.view = v /\ f.n = newest'[v]) => f.got = <<>>
    <3>1. newest'[v] = newest[v] + 1
      BY <2>1, <2>8
    <3>2. \A f \in fetches : f.view = v => f.n # newest'[v]
      BY <2>6, <2>7, <2>8, <3>1
    <3>3. screen'[v].n # newest'[v]
      BY <1>1, <2>6, <2>8, <3>1
    <3> QED
      BY <2>1, <3>2, <3>3
  <2>9. \A v \in Views : \A f : (f.view = v /\ f.got = <<>>) => Right(f)'
    <3>1. \A v \in Views : Len(Asks[v]) # 0
      BY AsksAre, ViewsAre
    <3> QED
      BY <3>1 DEF Right
  <2>10. ASSUME NEW v \in Views \ V
         PROVE  /\ newest'[v] = newest[v]
                /\ \A f \in fetches' : f.view = v => f \in fetches
    BY <2>1
  <2>11. ASSUME NEW f \in fetches, f.view \in Views, Right(f) PROVE Right(f)'
    BY <2>4, <2>5, <2>11 DEF Right
  <2>12. ASSUME NEW v \in Views, Calm(v)'
         PROVE  /\ screen'[v].n = newest'[v] => screen'[v].data = Truth(v)'
                /\ \A f \in fetches' : (f.view = v /\ f.n = newest'[v]) => Right(f)'
    <3>1. CASE v \in V
      BY <2>8, <2>9, <3>1
    <3>2. CASE v \notin V
      BY <1>1, <2>3, <2>4, <2>10, <2>11, <2>12, <3>2 DEF FreshInv
    <3> QED
      BY <3>1, <3>2
  <2> QED
    BY <2>12 DEF FreshInv
<1> QED
  BY <1>3, <1>4 DEF Answered

(* The chart's expenses without their categories lose none by a write, or show it. *)
LEMMA ServerWritesFresh == ASSUME Inv, FreshInv, NEW r \in Request, ServerWrites(r) PROVE FreshInv'
<1>1. /\ Servidor!Write(r) /\ UNCHANGED <<saldo, screen, fetches, newest, mine>>
      /\ touched' = touched \cup
           {v \in Views : /\ Truth(v)' # Truth(v)
                          /\ ~(v = "incomes" /\ r \in Waiting /\ Deletes(r, "Receita"))}
  BY DEF ServerWrites, page
<1>2. \A c \in Categories' : c.id \notin used \/ \E e \in Categories : e.id = c.id
  BY <1>1, WriteRows DEF Inv
<1>3. /\ DOMAIN calls' = DOMAIN calls
      /\ \A q \in DOMAIN calls : Body(q)' = Body(q)
  BY <1>1 DEF Servidor!Write, Servidor!Insert, Servidor!Update, Servidor!Destroy, Servidor!Wrote,
              Servidor!Open, Body, Inv, CallsInv, CallOK
<1>4. Waiting' = Waiting /\ \A q \in Waiting : \A t : Deletes(q, t)' = Deletes(q, t)
  BY <1>1, <1>3 DEF Waiting, Deletes, Inv, CallsInv
<1>5. ASSUME NEW v \in Views, Calm(v)' PROVE Calm(v) /\ Truth(v)' = Truth(v)
  BY <1>1, <1>4, <1>5 DEF Calm
<1>6. ASSUME NEW f \in fetches, f.view \in Views, Calm(f.view)', Right(f) PROVE Right(f)'
  <2>1. Truth(f.view)' = Truth(f.view)
    BY <1>5, <1>6
  <2>2. ASSUME f.view = "chart", Len(f.got) = 1
        PROVE  Shown("chart", <<f.got[1], Categories'>>) = Truth("chart")'
    <3> DEFINE x == f.got[1]
    <3>1. GotOK("chart", f.got)
      BY <2>2 DEF Inv, PageInv, FetchOK
    <3>2. FirstOK("chart", x)
      BY <2>2, <3>1 DEF GotOK
    <3> HIDE DEF x
    <3>3. \A d \in x : d.categoria \in used \cup {Null}
      BY <3>2 DEF FirstOK
    <3>4. Shown("chart", <<x, Categories>>) = Truth("chart")
      BY <1>6, <2>2 DEF Right, x
    <3>5. {d \in x : \E c \in Categories : c.id = d.categoria} = Truth("chart")'
      BY <2>1, <2>2, <3>4, ShownPair
    <3>6. (Truth("chart") = {d \in Expenses : \E c \in Categories : c.id = d.categoria})'
      BY TruthChart, PTL
    <3>7. RowsInv'
      BY <1>1, WriteRows DEF Inv
    <3>8. \A c \in Categories' : c.id # Null
      BY <3>7, NullAssumption DEF RowsInv, Categories, RowsOf, Row
    <3>9. {d \in x : \E c \in Categories' : c.id = d.categoria}
            = {d \in x : \E c \in Categories : c.id = d.categoria}
      <4>1. ASSUME NEW d \in x, NEW c \in Categories', c.id = d.categoria
            PROVE  \E e \in Categories : e.id = d.categoria
        BY <1>2, <3>3, <3>8, <4>1
      <4>2. ASSUME NEW d \in x, \E c \in Categories : c.id = d.categoria
            PROVE  \E c \in Categories' : c.id = d.categoria
        BY <3>5, <3>6, <4>2
      <4> QED
        BY <4>1, <4>2
    <3>10. \A y : Shown("chart", <<x, y>>) = {d \in x : \E c \in y : c.id = d.categoria}
      BY ShownPair
    <3>11. Shown("chart", <<x, Categories'>>) = {d \in x : \E c \in Categories' : c.id = d.categoria}
      BY <3>10
    <3>12. Shown("chart", <<x, Categories'>>) = Truth("chart")'
      BY <3>5, <3>9, <3>11
    <3> QED
      BY <3>12 DEF x
  <2> QED
    BY <1>6, <2>1, <2>2 DEF Right
<1> QED
  BY <1>1, <1>5, <1>6 DEF FreshInv

LEMMA OthersFresh ==
  ASSUME Inv, FreshInv, NEW r \in Request, ServerAnswers(r) \/ OthersAsk(r)
  PROVE  FreshInv'
<1>1. UNCHANGED <<rows, saldo, screen, fetches, newest, mine, touched>>
  BY DEF ServerAnswers, OthersAsk, page, Servidor!Answer, Servidor!Receive
<1>2. \A q \in DOMAIN calls : Body(q)' = Body(q)
  BY DEF ServerAnswers, OthersAsk, Servidor!Answer, Servidor!Receive, Servidor!With, Servidor!Open,
         Body, Inv, CallsInv, CallOK
<1>3. Waiting' = Waiting /\ \A q \in Waiting : \A t : Deletes(q, t)' = Deletes(q, t)
  BY <1>1, <1>2 DEF Waiting, Deletes, Inv, CallsInv
<1>4. \A v \in Views : Calm(v)' => Calm(v)
  BY <1>1, <1>3 DEF Calm
<1> QED
  BY <1>1, <1>4, KeepFresh

LEMMA SaldoFresh == ASSUME FreshInv, ServerSaldo PROVE FreshInv'
<1>1. /\ UNCHANGED <<rows, calls, mine, screen, fetches, newest>>
      /\ touched' = touched \cup {"saldo"}
  BY DEF ServerSaldo, server, page
<1>2. ASSUME NEW v \in Views, Calm(v)' PROVE Calm(v) /\ v # "saldo" /\ Truth(v)' = Truth(v)
  <2>1. v # "saldo" /\ Calm(v)
    BY <1>1, <1>2 DEF Calm, Waiting, Deletes, Body
  <2> QED
    BY <1>1, <2>1, TruthOfRows
<1>3. UNCHANGED Categories
  BY <1>1 DEF Categories
<1>4. ASSUME NEW f \in fetches, f.view \in Views, Calm(f.view)', Right(f) PROVE Right(f)'
  BY <1>2, <1>3, <1>4 DEF Right
<1> QED
  BY <1>1, <1>2, <1>4 DEF FreshInv

LEMMA NextFresh == Inv /\ FreshInv /\ [Next]_vars => FreshInv'
<1> SUFFICES ASSUME Inv, FreshInv, [Next]_vars PROVE FreshInv'
  OBVIOUS
<1>1. CASE FetchStep
  BY <1>1, ReadFresh, DeliverFresh, FetchFailsFresh DEF FetchStep
<1>2. ASSUME NEW r \in Request,
             Answered(r) \/ Failed(r) \/ ServerWrites(r) \/ ServerAnswers(r) \/ OthersAsk(r)
      PROVE  FreshInv'
  BY <1>2, AnsweredFresh, FailedFresh, ServerWritesFresh, OthersFresh
<1>3. CASE UNCHANGED vars
  <2>1. UNCHANGED <<server, saldo, screen, fetches, newest, mine, touched>>
    BY <1>3 DEF vars, page
  <2> QED
    BY <2>1, KeepFresh, SameCalm DEF server
<1> QED
  BY <1>1, <1>2, <1>3, FormsFresh, SendsFresh, SaldoFresh DEF Next

(***************************************************************************)
(* What a view shows since its last fetch is what the server has, as long  *)
(* as nobody else changed it and no deletion of an income waits for its    *)
(* answer: for any rows, any number of requests and fetches, in any order. *)
(***************************************************************************)
THEOREM FreshHolds == Spec => []Fresh
<1>1. Init => Inv /\ FreshInv
  BY InitInv, InitFresh
<1>2. Inv /\ FreshInv /\ [Next]_vars => (Inv /\ FreshInv)'
  BY NextInv, NextFresh
<1> QED
  BY <1>1, <1>2, InvFresh, PTL DEF Spec

-----------------------------------------------------------------------------
(* The amount that the form of a table holds. *)
Filled(table) ==
  IF table = "Despesa" THEN (IF form.Despesa = Null THEN Null ELSE form.Despesa.valor)
                       ELSE form[table]

(* The requests of this page that fill in a new row. *)
Creates == {r \in DOMAIN mine : Body(r).verb = "create" /\ Body(r).valido}

Excused(r) == mine[r].again \/ mine[r].heard \in {"error", "lost"}

(***************************************************************************)
(* An amount is typed once, so that a form that was reset, or filled anew, *)
(* since a request of it was answered holds another amount: only a form    *)
(* that was not reset sends the same request twice.                        *)
(***************************************************************************)
FillsInv ==
  /\ \A t \in Table : Filled(t) = Null \/ Filled(t) \in typed
  /\ \A r \in DOMAIN calls :
       (Body(r).verb = "create" /\ ~Body(r).valido)
         => calls[r].answer = "error" /\ calls[r].wrote = 0
  /\ \A r \in Creates : /\ Body(r).valor \in typed
                        /\ mine[r].heard = "ok" => Filled(Body(r).table) # Body(r).valor
  /\ \A q, r \in Creates : (q # r /\ Body(q) = Body(r)) => Excused(q) \/ Excused(r)

LEMMA InvOncePerFill == Inv /\ FillsInv => OncePerFill
<1> SUFFICES ASSUME Inv, FillsInv, NEW q \in DOMAIN mine, NEW r \in DOMAIN mine,
                    Body(q).verb = "create", Body(r).verb = "create", q # r, Body(q) = Body(r),
                    calls[q].wrote > 0, calls[r].wrote > 0
             PROVE  Excused(q) \/ Excused(r)
  BY DEF OncePerFill, Excused
<1>1. q \in DOMAIN calls /\ r \in DOMAIN calls
  BY DEF Inv, CallsInv
<1>2. q \in Creates /\ r \in Creates
  BY <1>1 DEF FillsInv, Creates, CallsInv, Inv
<1> QED
  BY <1>2 DEF FillsInv

LEMMA InitFills == Init => FillsInv
<1> SUFFICES ASSUME Init PROVE FillsInv
  OBVIOUS
<1>1. \A t \in Table : Filled(t) = Null
  BY DEF Init, Filled, Table
<1>2. DOMAIN mine = {} /\ DOMAIN calls = {}
  BY DEF Init, Servidor!Init
<1> QED
  BY <1>1, <1>2 DEF FillsInv, Creates

(* What the page hears, sends and types aside, its requests stay as they are. *)
LEMMA KeepFills ==
  ASSUME Inv, FillsInv, UNCHANGED mine, typed \subseteq typed',
         \A t \in Table : Filled(t)' \in {Filled(t), Null} \cup (typed' \ typed),
         \A r \in DOMAIN calls : r \in DOMAIN calls' /\ Body(r)' = Body(r),
         \A r \in DOMAIN calls' :
           (calls'[r].body.verb = "create" /\ ~calls'[r].body.valido)
             => calls'[r].answer = "error" /\ calls'[r].wrote = 0
  PROVE  FillsInv'
<1>0. \A r \in DOMAIN mine : r \in DOMAIN calls
  BY DEF Inv, CallsInv
<1>1. Creates' = Creates /\ Creates \subseteq DOMAIN calls
  BY <1>0 DEF Creates
<1>2. \A r \in Creates : Body(r)' = Body(r) /\ Body(r).table \in Table /\ Excused(r)' = Excused(r)
  BY <1>1 DEF Inv, CallsInv, CallOK, Body, OfRows, Excused
<1>3. \A t \in Table : Filled(t)' = Null \/ Filled(t)' \in typed'
  BY DEF FillsInv
<1>4. ASSUME NEW r \in Creates
      PROVE  (/\ Body(r).valor \in typed
              /\ mine[r].heard = "ok" => Filled(Body(r).table) # Body(r).valor)'
  <2>1. Body(r).valor \in typed /\ (mine[r].heard = "ok" => Filled(Body(r).table) # Body(r).valor)
    BY DEF FillsInv
  <2>2. Body(r).valor # Null
    BY <2>1, AmountAssumption DEF Inv, FormInv
  <2>3. PICK t \in Table : t = Body(r).table
    BY <1>2
  <2>4. Filled(t)' \in {Filled(t), Null} \cup (typed' \ typed)
    OBVIOUS
  <2>5. mine[r].heard = "ok" => Filled(t)' # Body(r).valor
    BY <2>1, <2>2, <2>3, <2>4
  <2> QED
    BY <1>2, <2>1, <2>3, <2>5
<1>5. (\A r \in Creates : /\ Body(r).valor \in typed
                          /\ mine[r].heard = "ok" => Filled(Body(r).table) # Body(r).valor)'
  BY <1>1, <1>4
<1>6. (\A q, r \in Creates : (q # r /\ Body(q) = Body(r)) => Excused(q) \/ Excused(r))'
  BY <1>1, <1>2 DEF FillsInv
<1>7. (\A r \in DOMAIN calls :
         (Body(r).verb = "create" /\ ~Body(r).valido)
           => calls[r].answer = "error" /\ calls[r].wrote = 0)'
  BY DEF Body
<1> QED
  BY <1>3, <1>5, <1>6, <1>7 DEF FillsInv

(* The page does not touch what the server has of the calls. *)
LEMMA SameCalls ==
  ASSUME FillsInv, UNCHANGED calls
  PROVE  /\ \A r \in DOMAIN calls : r \in DOMAIN calls' /\ Body(r)' = Body(r)
         /\ \A r \in DOMAIN calls' :
              (calls'[r].body.verb = "create" /\ ~calls'[r].body.valido)
                => calls'[r].answer = "error" /\ calls'[r].wrote = 0
  BY DEF FillsInv, Body

LEMMA TypeFills ==
  ASSUME Inv, FillsInv, NEW field \in {"Receita", "Despesa", "Categoria", "limite"}, NEW a, NEW value,
         Type(field, a, value),
         field \in {"Receita", "Categoria"} => value = a,
         field = "Despesa" => value.valor = a
  PROVE  FillsInv'
<1>1. /\ form' = [form EXCEPT ![field] = value] /\ typed' = typed \cup {a} /\ a \notin typed
      /\ UNCHANGED <<calls, mine>>
  BY DEF Type, server
<1>2. /\ DOMAIN form = {"Receita", "Despesa", "Categoria", "selected", "limite"}
      /\ form'[field] = value /\ \A k \in DOMAIN form \ {field} : form'[k] = form[k]
  BY <1>1 DEF Inv, FormInv
<1>3. \A t \in Table : Filled(t)' \in {Filled(t), Null} \cup (typed' \ typed)
  <2> SUFFICES ASSUME NEW t \in Table PROVE Filled(t)' \in {Filled(t), Null, a}
    BY <1>1
  <2>1. CASE t = field
    BY <1>2, <2>1 DEF Filled, Table
  <2>2. CASE t # field
    BY <1>2, <2>2 DEF Filled, Table
  <2> QED
    BY <2>1, <2>2
<1> QED
  BY <1>1, <1>3, KeepFills, SameCalls

LEMMA FormsFills ==
  ASSUME Inv, FillsInv,
         \/ \E a \in Amount : \/ TypeReceita(a) \/ TypeDespesa(a) \/ TypeNome(a) \/ TypeLimite(a)
                              \/ handleChange(a)
         \/ \E i \in Item \cup {Null} : handleCategoryChange(i)
         \/ OpenModal \/ handleClose
  PROVE  FillsInv'
<1>1. ASSUME NEW a \in Amount, TypeReceita(a) \/ TypeNome(a) \/ TypeLimite(a) PROVE FillsInv'
  BY <1>1, TypeFills DEF TypeReceita, TypeNome, TypeLimite
<1>2. ASSUME NEW a \in Amount, TypeDespesa(a) PROVE FillsInv'
  <2>1. PICK c \in screen["despesaCategoriaOpt"].data, p \in 1 .. MaxParcelas :
          Type("Despesa", a, [valor |-> a, categoria |-> c.id, parcela |-> p])
    BY <1>2 DEF TypeDespesa
  <2> DEFINE value == [valor |-> a, categoria |-> c.id, parcela |-> p]
  <2>2. value.valor = a
    OBVIOUS
  <2>3. Type("Despesa", a, value)
    BY <2>1
  <2> HIDE DEF value
  <2> QED
    BY <2>2, <2>3, TypeFills
<1>3. ASSUME UNCHANGED <<calls, mine>>, typed \subseteq typed',
             \A t \in Table : Filled(t)' = Filled(t)
      PROVE  FillsInv'
  BY <1>3, KeepFills, SameCalls
<1>4. ASSUME UNCHANGED form PROVE \A t \in Table : Filled(t)' = Filled(t)
  BY <1>4 DEF Filled
<1>5. ASSUME NEW a \in Amount, handleChange(a) PROVE FillsInv'
  BY <1>3, <1>4, <1>5 DEF handleChange, server
<1>6. CASE OpenModal \/ handleClose
  BY <1>3, <1>4, <1>6 DEF OpenModal, Open, handleClose, server
<1>7. ASSUME NEW i \in Item \cup {Null}, handleCategoryChange(i) PROVE FillsInv'
  <2> DEFINE g == [form EXCEPT !["selected"] = i]
  <2>1. form' = [g EXCEPT !["limite"] = Cached(i)] /\ UNCHANGED <<calls, mine, typed>>
    BY <1>7 DEF handleCategoryChange, server
  <2>2. form'["Receita"] = form["Receita"] /\ form'["Despesa"] = form["Despesa"]
        /\ form'["Categoria"] = form["Categoria"]
    BY <2>1 DEF Inv, FormInv
  <2>3. \A t \in Table : Filled(t)' = Filled(t)
    BY <2>2 DEF Filled, Table
  <2> QED
    BY <1>3, <2>1, <2>3
<1> QED
  BY <1>1, <1>2, <1>5, <1>6, <1>7

-----------------------------------------------------------------------------
LEMMA SentFills ==
  ASSUME Inv, FillsInv, NEW b \in OfRows, NEW cached, Send(b, cached),
         (b.verb = "create" /\ b.valido) => Filled(b.table) = b.valor /\ b.valor \in typed
  PROVE  FillsInv'
<1>1. PICK r \in Request :
        /\ Servidor!Receive(r, b)
        /\ mine' = With(mine, r, [heard |-> "nothing", cached |-> cached,
                                  again |-> \E q \in Waiting : calls[q].body = b])
  BY DEF Send
<1>2. UNCHANGED <<form, typed>>
  BY DEF Send
<1>3. /\ r \notin DOMAIN calls /\ DOMAIN calls' = DOMAIN calls \cup {r}
      /\ calls'[r] = [body |-> b, wrote |-> 0, answer |-> IF Servidor!Refused(b) THEN "error" ELSE "none"]
      /\ \A q \in DOMAIN calls : calls'[q] = calls[q]
  BY <1>1 DEF Servidor!Receive, Servidor!With
<1>4. /\ r \notin DOMAIN mine /\ DOMAIN mine' = DOMAIN mine \cup {r}
      /\ mine'[r].heard = "nothing" /\ mine'[r].again = (\E q \in Waiting : calls[q].body = b)
      /\ \A q \in DOMAIN mine : mine'[q] = mine[q] /\ q \in DOMAIN calls
  BY <1>1, <1>3 DEF With, Inv, CallsInv
<1>5. \A t : Filled(t)' = Filled(t)
  BY <1>2 DEF Filled
<1>6. /\ \A q \in DOMAIN calls : Body(q)' = Body(q)
      /\ Body(r)' = b
  BY <1>3 DEF Body
<1>7. /\ Creates' \subseteq Creates \cup {r}
      /\ r \in Creates' => b.verb = "create" /\ b.valido
      /\ \A q \in Creates : Body(q)' = Body(q) /\ mine'[q] = mine[q] /\ Excused(q)' = Excused(q)
  BY <1>4, <1>6 DEF Creates, Excused
<1>8. (\A t \in Table : Filled(t) = Null \/ Filled(t) \in typed)'
  BY <1>2, <1>5 DEF FillsInv
<1>9. (\A q \in DOMAIN calls :
         (Body(q).verb = "create" /\ ~Body(q).valido)
           => calls[q].answer = "error" /\ calls[q].wrote = 0)'
  <2>1. (b.verb = "create" /\ ~b.valido) => calls'[r].answer = "error" /\ calls'[r].wrote = 0
    BY <1>3 DEF Servidor!Refused
  <2> QED
    BY <1>3, <1>6, <2>1 DEF FillsInv
<1>10. (\A q \in Creates : /\ Body(q).valor \in typed
                           /\ mine[q].heard = "ok" => Filled(Body(q).table) # Body(q).valor)'
  <2>1. ASSUME NEW q \in Creates
        PROVE  (/\ Body(q).valor \in typed
                /\ mine[q].heard = "ok" => Filled(Body(q).table) # Body(q).valor)'
    BY <1>2, <1>5, <1>7 DEF FillsInv
  <2>2. r \in Creates' => (/\ Body(r).valor \in typed
                           /\ mine[r].heard = "ok" => Filled(Body(r).table) # Body(r).valor)'
    BY <1>2, <1>4, <1>6, <1>7
  <2> QED
    BY <1>7, <2>1, <2>2
<1>11. ASSUME NEW q \in Creates, Body(q) = b, r \in Creates' PROVE Excused(q) \/ Excused(r)'
  <2>1. mine[q].heard \in {"nothing", "lost", "ok", "error"} /\ q \in DOMAIN mine
    BY DEF Creates, Inv, CallsInv, MineOK
  <2>2. CASE mine[q].heard = "nothing"
    BY <1>4, <1>11, <2>1, <2>2 DEF Waiting, Excused, Body
  <2>3. CASE mine[q].heard = "ok"
    BY <1>7, <1>11, <2>3 DEF FillsInv
  <2> QED
    BY <2>1, <2>2, <2>3 DEF Excused
<1>12. (\A p, q \in Creates : (p # q /\ Body(p) = Body(q)) => Excused(p) \/ Excused(q))'
  <2> SUFFICES ASSUME NEW p \in Creates', NEW q \in Creates', p # q, (Body(p) = Body(q))'
               PROVE  Excused(p)' \/ Excused(q)'
    OBVIOUS
  <2>1. CASE p \in Creates /\ q \in Creates
    BY <1>7, <2>1 DEF FillsInv
  <2>2. CASE p \in Creates /\ q = r
    BY <1>6, <1>7, <1>11, <2>2
  <2>3. CASE p = r /\ q \in Creates
    BY <1>6, <1>7, <1>11, <2>3
  <2> QED
    BY <1>7, <2>1, <2>2, <2>3
<1> QED
  BY <1>8, <1>9, <1>10, <1>12 DEF FillsInv

(* Each form sends what it holds, and what it holds was typed. *)
LEMMA SendsFills ==
  ASSUME Inv, FillsInv, handleSubmitReceitaForm \/ handleSubmitDespesaForm \/ handleCreateCategoria
                          \/ handleSaveChanges \/ handleEditClick \/ handleDeleteClick
  PROVE  FillsInv'
<1>1. {"Receita", "Despesa", "Categoria"} = Table /\ 1 \in Nat \ {0}
  BY DEF Table
<1>2. \A t \in Table : Filled(t) \in Int \cup {Null}
  BY AmountAssumption DEF FillsInv, Inv, FormInv
<1>3. ASSUME NEW t \in Table, NEW c \in Item \cup {Null}, NEW p \in Nat \ {0},
             Send(Asking("create", t, Null, c, Filled(t), p), Null)
      PROVE  FillsInv'
  <2> DEFINE b == Asking("create", t, Null, c, Filled(t), p)
  <2>1. b \in OfRows
    BY <1>2, AskingOK
  <2>2. b.table = t /\ (b.valido => Filled(t) # Null /\ b.valor = Filled(t))
    BY DEF Asking
  <2>3. Send(b, Null)
    BY <1>3
  <2> HIDE DEF b
  <2> QED
    BY <2>1, <2>2, <2>3, SentFills DEF FillsInv
<1>4. ASSUME NEW b \in OfRows, NEW cached, b.verb # "create", Send(b, cached) PROVE FillsInv'
  BY <1>4, SentFills
<1>5. CASE handleSubmitReceitaForm
  BY <1>1, <1>3, <1>5 DEF handleSubmitReceitaForm, Filled
<1>6. CASE handleCreateCategoria
  BY <1>1, <1>3, <1>6 DEF handleCreateCategoria, Filled
<1>7. CASE handleSubmitDespesaForm
  <2>1. CASE form["Despesa"] = Null
    BY <1>1, <1>3, <1>7, <2>1 DEF handleSubmitDespesaForm, Filled
  <2>2. CASE form["Despesa"] # Null
    <3>1. form["Despesa"] \in [valor : Amount, categoria : Item, parcela : 1 .. MaxParcelas]
      BY <2>2 DEF Inv, FormInv
    <3>2. \A p \in 1 .. MaxParcelas : p \in Nat \ {0}
      BY AmountAssumption
    <3>3. /\ form["Despesa"].categoria \in Item /\ form["Despesa"].parcela \in Nat \ {0}
          /\ Filled("Despesa") = form["Despesa"].valor
      BY <2>2, <3>1, <3>2 DEF Filled
    <3> QED
      BY <1>1, <1>3, <1>7, <2>2, <3>3 DEF handleSubmitDespesaForm
  <2> QED
    BY <2>1, <2>2
<1>8. CASE handleSaveChanges
  <2>1. Asking("edit", "Categoria", form["selected"], Null, form["limite"], 1) \in OfRows
    BY <1>1, AskingOK DEF Inv, FormInv
  <2> QED
    BY <1>4, <1>8, <2>1, AskingVerb DEF handleSaveChanges
<1>9. CASE handleEditClick \/ handleDeleteClick
  <2>1. modal.row \in Row
    BY <1>9 DEF handleEditClick, handleDeleteClick, Inv, FormInv
  <2>2. /\ modal.row.table \in Table /\ modal.row.id \in Item \cup {Null}
        /\ modal.row.categoria \in Item \cup {Null} /\ modal.row.valor \in Int \cup {Null}
    BY <2>1 DEF Row
  <2>3. /\ Asking("edit", modal.row.table, modal.row.id, modal.row.categoria, modal.row.valor, 1) \in OfRows
        /\ Asking("delete", modal.row.table, modal.row.id, Null, modal.row.valor, 1) \in OfRows
    BY <1>1, <2>2, AskingOK
  <2> QED
    BY <1>4, <1>9, <2>3, AskingVerb DEF handleEditClick, handleDeleteClick
<1> QED
  BY <1>5, <1>6, <1>7, <1>8, <1>9

(* A request that was answered with success leaves its form empty. *)
LEMMA HeardFills ==
  ASSUME Inv, FillsInv, NEW r \in Waiting, NEW a \in {"ok", "error", "lost"}, Heard(r, a),
         UNCHANGED <<calls, typed>>,
         \A t \in Table : Filled(t)' \in {Filled(t), Null},
         (a = "ok" /\ Body(r).verb = "create") => \A t \in Table : t = Body(r).table => Filled(t)' = Null
  PROVE  FillsInv'
<1>1. r \in DOMAIN mine /\ mine[r].heard = "nothing"
  BY DEF Waiting
<1>2. /\ DOMAIN mine' = DOMAIN mine
      /\ \A q \in DOMAIN mine \ {r} : mine'[q] = mine[q]
      /\ mine'[r] = [mine[r] EXCEPT !.heard = a]
  BY <1>1 DEF Heard
<1>3. mine'[r].heard = a /\ mine'[r].again = mine[r].again
  BY <1>1, <1>2 DEF Inv, CallsInv, MineOK
<1>4. UNCHANGED Creates /\ \A q : Body(q)' = Body(q)
  BY <1>2 DEF Creates, Body
<1>5. \A q \in Creates : q \in DOMAIN mine /\ (Excused(q) => Excused(q)')
  BY <1>1, <1>2, <1>3 DEF Creates, Excused
<1>6. (\A t \in Table : Filled(t) = Null \/ Filled(t) \in typed)'
  BY DEF FillsInv
<1>7. ASSUME NEW q \in Creates
      PROVE  (/\ Body(q).valor \in typed
              /\ mine[q].heard = "ok" => Filled(Body(q).table) # Body(q).valor)'
  <2>1. /\ Body(q).valor \in typed
        /\ mine[q].heard = "ok" => Filled(Body(q).table) # Body(q).valor
    BY DEF FillsInv
  <2>2. Body(q).valor # Null
    BY <2>1, AmountAssumption DEF Inv, FormInv
  <2>3. PICK t \in Table : t = Body(q).table
    BY DEF Creates, Body, Inv, CallsInv, CallOK, OfRows
  <2>4. mine'[q].heard = "ok" => Filled(t)' # Body(q).valor
    <3>1. CASE q = r
      BY <1>3, <2>2, <2>3, <3>1 DEF Creates
    <3>2. CASE q # r
      BY <1>2, <1>5, <2>1, <2>2, <2>3, <3>2
    <3> QED
      BY <3>1, <3>2
  <2> QED
    BY <1>4, <2>1, <2>3, <2>4
<1>8. (\A p, q \in Creates : (p # q /\ Body(p) = Body(q)) => Excused(p) \/ Excused(q))'
  BY <1>4, <1>5 DEF FillsInv
<1>9. (\A q \in DOMAIN calls :
         (Body(q).verb = "create" /\ ~Body(q).valido)
           => calls[q].answer = "error" /\ calls[q].wrote = 0)'
  BY <1>4 DEF FillsInv
<1>10. (\A q \in Creates : /\ Body(q).valor \in typed
                           /\ mine[q].heard = "ok" => Filled(Body(q).table) # Body(q).valor)'
  BY <1>4, <1>7
<1> QED
  BY <1>6, <1>8, <1>9, <1>10 DEF FillsInv

LEMMA AnswersFills == ASSUME Inv, FillsInv, NEW r \in Request, Answered(r) \/ Failed(r) PROVE FillsInv'
<1>1. /\ r \in Waiting /\ UNCHANGED <<calls, typed>> /\ r \in DOMAIN calls
  BY DEF Answered, Failed, server, Waiting, Inv, CallsInv
<1>2. Body(r).table \in Table
  BY <1>1 DEF Body, Inv, CallsInv, CallOK, OfRows
<1>3. CASE Failed(r)
  <2>1. \A t \in Table : Filled(t)' = Filled(t)
    BY <1>3 DEF Failed, Filled
  <2>2. \E a \in {"error", "lost"} : Heard(r, a)
    BY <1>3 DEF Failed
  <2> QED
    BY <1>1, <2>1, <2>2, HeardFills
<1>4. CASE Answered(r) /\ Body(r).verb = "create"
  <2>1. Heard(r, "ok") /\ form' = [form EXCEPT ![Body(r).table] = Null]
    BY <1>4 DEF Answered, Reset
  <2>2. \A t \in Table : t \in DOMAIN form
    BY DEF Table, Inv, FormInv
  <2>3. \A t \in Table : Filled(t)' = IF t = Body(r).table THEN Null ELSE Filled(t)
    <3> SUFFICES ASSUME NEW t \in Table
                 PROVE  Filled(t)' = IF t = Body(r).table THEN Null ELSE Filled(t)
      OBVIOUS
    <3>1. form'[t] = IF t = Body(r).table THEN Null ELSE form[t]
      BY <2>1, <2>2
    <3> QED
      BY <3>1 DEF Filled
  <2> QED
    BY <1>1, <2>1, <2>3, HeardFills
<1>5. CASE Answered(r) /\ Body(r).verb # "create"
  <2>1. Heard(r, "ok") /\ (UNCHANGED form \/ form' = [form EXCEPT !["limite"] = mine[r].cached])
    BY <1>5 DEF Answered
  <2>2. \A t \in Table : form'[t] = form[t]
    BY <2>1 DEF Table, Inv, FormInv
  <2>3. \A t \in Table : Filled(t)' = Filled(t)
    BY <2>2 DEF Filled, Table
  <2> QED
    BY <1>1, <1>5, <2>1, <2>3, HeardFills
<1> QED
  BY <1>3, <1>4, <1>5

(* The server carries out no request that lacks a field. *)
LEMMA ServerFills ==
  ASSUME Inv, FillsInv, NEW r \in Request, ServerWrites(r) \/ ServerAnswers(r) \/ OthersAsk(r)
  PROVE  FillsInv'
<1>1. UNCHANGED <<form, mine, typed>>
  BY DEF ServerWrites, ServerAnswers, OthersAsk, page
<1>2. \A t \in Table : Filled(t)' = Filled(t)
  BY <1>1 DEF Filled
<1>3. ASSUME \A q \in DOMAIN calls : q \in DOMAIN calls' /\ Body(q)' = Body(q),
             \A q \in DOMAIN calls' :
               (calls'[q].body.verb = "create" /\ ~calls'[q].body.valido)
                 => calls'[q].answer = "error" /\ calls'[q].wrote = 0
      PROVE  FillsInv'
  BY <1>1, <1>2, <1>3, KeepFills
<1>4. ASSUME r \in DOMAIN calls, calls[r].body.verb = "create" => Servidor!Open(r),
             DOMAIN calls' = DOMAIN calls, calls'[r].body = calls[r].body,
             \A q \in DOMAIN calls \ {r} : calls'[q] = calls[q]
      PROVE  FillsInv'
  <2>1. ~(calls[r].body.verb = "create" /\ ~calls[r].body.valido)
    BY <1>4 DEF FillsInv, Body, Servidor!Open
  <2> QED
    BY <1>3, <1>4, <2>1 DEF FillsInv, Body
<1>5. CASE ServerWrites(r)
  <2>1. r \in DOMAIN calls /\ calls' = [calls EXCEPT ![r].wrote = @ + 1]
    BY <1>5 DEF ServerWrites, Servidor!Write, Servidor!Insert, Servidor!Update, Servidor!Destroy,
                Servidor!Open, Servidor!Wrote
  <2>2. calls[r].body.verb = "create" => Servidor!Open(r)
    BY <1>5 DEF ServerWrites, Servidor!Write, Servidor!Insert, Servidor!Update, Servidor!Destroy,
                Servidor!Ask
  <2>3. calls'[r].body = calls[r].body
    BY <2>1 DEF Inv, CallsInv, CallOK
  <2> QED
    BY <1>4, <2>1, <2>2, <2>3
<1>6. CASE ServerAnswers(r)
  <2>1. PICK a : Servidor!Answer(r, a)
    BY <1>6 DEF ServerAnswers
  <2>2. Servidor!Open(r) /\ r \in DOMAIN calls /\ calls' = [calls EXCEPT ![r].answer = a]
    BY <2>1 DEF Servidor!Answer, Servidor!Open
  <2>3. calls'[r].body = calls[r].body
    BY <2>2 DEF Inv, CallsInv, CallOK
  <2> QED
    BY <1>4, <2>2, <2>3
<1>7. CASE OthersAsk(r)
  <2>1. PICK b \in Others : Servidor!Receive(r, b)
    BY <1>7 DEF OthersAsk
  <2>2. /\ DOMAIN calls' = DOMAIN calls \cup {r} /\ r \notin DOMAIN calls
        /\ calls'[r] = [body |-> b, wrote |-> 0, answer |-> IF Servidor!Refused(b) THEN "error" ELSE "none"]
        /\ \A q \in DOMAIN calls : calls'[q] = calls[q]
    BY <2>1 DEF Servidor!Receive, Servidor!With
  <2>3. (b.verb = "create" /\ ~b.valido) => calls'[r].answer = "error" /\ calls'[r].wrote = 0
    BY <2>2 DEF Servidor!Refused
  <2>4. calls'[r].body = b
    BY <2>2
  <2> QED
    BY <1>3, <2>2, <2>3, <2>4 DEF FillsInv, Body
<1> QED
  BY <1>5, <1>6, <1>7

LEMMA NextFills == Inv /\ FillsInv /\ [Next]_vars => FillsInv'
<1> SUFFICES ASSUME Inv, FillsInv, [Next]_vars PROVE FillsInv'
  OBVIOUS
<1>1. ASSUME UNCHANGED <<calls, mine, form, typed>> PROVE FillsInv'
  <2>1. \A t \in Table : Filled(t)' = Filled(t)
    BY <1>1 DEF Filled
  <2> QED
    BY <1>1, <2>1, KeepFills, SameCalls
<1>2. CASE FetchStep \/ ServerSaldo \/ UNCHANGED vars
  BY <1>1, <1>2 DEF FetchStep, Read, Deliver, FetchFails, ServerSaldo, server, page, vars
<1>3. ASSUME NEW r \in Request,
             Answered(r) \/ Failed(r) \/ ServerWrites(r) \/ ServerAnswers(r) \/ OthersAsk(r)
      PROVE  FillsInv'
  BY <1>3, AnswersFills, ServerFills
<1> QED
  BY <1>2, <1>3, FormsFills, SendsFills DEF Next

(***************************************************************************)
(* Of two requests that store the same amount, one was sent while the      *)
(* other had no answer yet, or after one that seemed to fail: a form that  *)
(* was answered with success is reset before it can be sent again.         *)
(***************************************************************************)
THEOREM OncePerFillHolds == Spec => []OncePerFill
<1>1. Init => Inv /\ FillsInv
  BY InitInv, InitFills
<1>2. Inv /\ FillsInv /\ [Next]_vars => (Inv /\ FillsInv)'
  BY NextInv, NextFills
<1> QED
  BY <1>1, <1>2, InvOncePerFill, PTL DEF Spec
=============================================================================
