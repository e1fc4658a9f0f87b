--------------------------- MODULE ClienteProofs ----------------------------
(***************************************************************************)
(* What holds of the page of a wallet for any rows, users, other pages and *)
(* mounted components: the types, and that the chart drops no expense      *)
(* whose category is there.                                                *)
(***************************************************************************)
EXTENDS Cliente, SequenceTheorems, TLAPS

(* The views that show rows as they come. *)
Lists == {"despesaCategoriaOpt", "categoryOptions", "expenses", "incomes"}

AllViews == Lists \cup {"despesaTotal", "receitaTotal", "saldo", "chart"}

Categories == RowsOf(rows, "Categoria", walletId)

RowsInv ==
  /\ rows \subseteq Row /\ {d.id : d \in rows} \subseteq used /\ used \subseteq Item
  /\ \A d \in rows : d.categoria \in used \cup {Null}

(* No page makes a wallet. *)
OfRows == {b \in Asked : b.table \in Table}

CallOK(r) == calls[r] \in [body : OfRows, wrote : Nat, answer : {"none", "ok", "error"}]

MineOK(r) ==
  /\ mine[r] \in [heard : {"nothing", "lost", "ok", "error"}, cached : Int \cup {Null}, again : BOOLEAN]
  /\ mine[r].heard \in {"ok", "error"} => mine[r].heard = calls[r].answer
  /\ calls[r].body.verb = "delete" => "ActivityList" \in Mounted

CallsInv ==
  /\ DOMAIN mine \subseteq DOMAIN calls /\ DOMAIN calls \subseteq Request
  /\ \A r \in DOMAIN calls : CallOK(r)
  /\ \A r \in DOMAIN mine : MineOK(r)

(***************************************************************************)
(* What a fetch has got: the first answer, and, for the chart, categories  *)
(* among which is every one that an expense of the first answer names and  *)
(* the wallet has.  A category made later has an id that was not used.     *)
(***************************************************************************)
FirstOK(v, x) ==
  /\ v \in Lists => x \subseteq Row
  /\ v = "chart" => \A d \in x : d.categoria \in used \cup {Null}

Covers(x, y) ==
  \A d \in x, c \in Categories : (d.categoria # Null /\ c.id = d.categoria) =>
    \E e \in y : e.id = d.categoria

GotOK(v, got) ==
  \/ got = <<>>
  \/ got = <<got[1]>> /\ FirstOK(v, got[1])
  \/ got = <<got[1], got[2]>> /\ v = "chart" /\ FirstOK(v, got[1]) /\ Covers(got[1], got[2])

FetchOK(f) ==
  /\ f \in [view : Views, n : 1 .. newest[f.view], got : {f.got}]
  /\ f.n # screen[f.view].n
  /\ GotOK(f.view, f.got)

ScreenOK(v) ==
  /\ newest[v] \in Nat /\ screen[v].n \in 0 .. newest[v]
  /\ v \in Lists => screen[v].data \subseteq Row

PageInv ==
  /\ DOMAIN newest = Views /\ DOMAIN screen = Views
  /\ \A v \in Views : ScreenOK(v)
  /\ \A f \in fetches : FetchOK(f)
  /\ \A f, g \in fetches : f.view = g.view /\ f.n = g.n => f = g

FormInv ==
  /\ modal = Null \/ (modal \in [verb : {"edit", "delete"}, row : Row] /\ "ActivityList" \in Mounted)
  /\ DOMAIN form = {"Receita", "Despesa", "Categoria", "selected", "limite"}
  /\ form["Receita"] \in Amount \cup {Null} /\ form["Categoria"] \in Amount \cup {Null}
  /\ \/ form["Despesa"] = Null
     \/ form["Despesa"] \in [valor : Amount, categoria : Item, parcela : 1 .. MaxParcelas]
  /\ form["selected"] \in Item \cup {Null} /\ form["limite"] \in Int \cup {Null}
  /\ form = [k \in DOMAIN form |-> form[k]]
  /\ typed \subseteq Amount

Inv == RowsInv /\ CallsInv /\ PageInv /\ FormInv /\ touched \subseteq Views

-----------------------------------------------------------------------------
LEMMA ViewsAre ==
  /\ Views \subseteq AllViews
  /\ "WalletResume" \in Mounted => "despesaCategoriaOpt" \in Views
  /\ "CategoryButton" \in Mounted => "categoryOptions" \in Views
  /\ "ActivityList" \in Mounted => "expenses" \in Views /\ "incomes" \in Views
<1>1. \A c \in Component : Effect[c] \subseteq AllViews
  BY DEF Component, Effect, AllViews, Lists
<1>2. /\ "despesaCategoriaOpt" \in Effect["WalletResume"]
      /\ "categoryOptions" \in Effect["CategoryButton"]
      /\ "expenses" \in Effect["ActivityList"] /\ "incomes" \in Effect["ActivityList"]
  BY DEF Effect
<1> QED
  BY <1>1, <1>2, MountedAssumption DEF Views

LEMMA AsksAre ==
  /\ \A v \in AllViews \ {"chart"} : Len(Asks[v]) = 1 /\ DOMAIN Asks[v] = {1}
  /\ \A v \in Lists : Asks[v][1] \in Table
  /\ Len(Asks["chart"]) = 2 /\ Asks["chart"][1] = "Despesa" /\ Asks["chart"][2] = "Categoria"
<1>1. /\ Asks["despesaCategoriaOpt"] = <<"Categoria">> /\ Asks["categoryOptions"] = <<"Categoria">>
      /\ Asks["despesaTotal"] = <<"Despesa">> /\ Asks["receitaTotal"] = <<"Receita">>
      /\ Asks["saldo"] = <<"Carteira">> /\ Asks["expenses"] = <<"Despesa">>
      /\ Asks["incomes"] = <<"Receita">> /\ Asks["chart"] = <<"Despesa", "Categoria">>
  BY DEF Asks
<1> QED
  BY <1>1 DEF AllViews, Lists, Table

LEMMA ShownList == ASSUME NEW v \in Lists, NEW got PROVE Shown(v, got) = got[1]
  BY DEF Shown, Lists

LEMMA ShownChart ==
  ASSUME NEW got
  PROVE  Shown("chart", got) = {d \in Got("chart", got, "Despesa") :
                                  \E c \in Got("chart", got, "Categoria") : c.id = d.categoria}
  BY DEF Shown

LEMMA GotChart ==
  ASSUME NEW x, NEW y
  PROVE  /\ Got("chart", <<x, y>>, "Despesa") = x
         /\ Got("chart", <<x, y>>, "Categoria") = y
<1> DEFINE got == <<x, y>>
<1>1. DOMAIN got = {1, 2} /\ got[1] = x /\ got[2] = y /\ got = <<x, y>>
  OBVIOUS
<1> HIDE DEF got
<1>2. (CHOOSE k \in DOMAIN got : Asks["chart"][k] = "Despesa") = 1
  BY <1>1, AsksAre
<1>3. (CHOOSE k \in DOMAIN got : Asks["chart"][k] = "Categoria") = 2
  BY <1>1, AsksAre
<1>4. Got("chart", got, "Despesa") = x /\ Got("chart", got, "Categoria") = y
  BY <1>1, <1>2, <1>3 DEF Got
<1> QED
  BY <1>1, <1>4

LEMMA InvTypeOK == Inv => TypeOK
<1> SUFFICES ASSUME Inv PROVE TypeOK
  OBVIOUS
<1>1. \A r \in DOMAIN calls : Body(r) \in Asked /\ calls[r].answer \in {"none", "ok", "error"}
  BY DEF Inv, CallsInv, CallOK, Body, OfRows
<1>2. \A r \in DOMAIN mine : /\ mine[r].heard \in {"nothing", "lost", calls[r].answer}
                             /\ mine[r].cached \in Int \cup {Null}
  BY DEF Inv, CallsInv, MineOK
<1>3. /\ \A v \in Views : screen[v].n \in 0 .. newest[v]
      /\ \A f \in fetches : f.view \in Views /\ f.n \in 1 .. newest[f.view] /\ f.n # screen[f.view].n
      /\ DOMAIN newest = Views /\ DOMAIN screen = Views
  BY DEF Inv, PageInv, FetchOK, ScreenOK
<1>4. modal = Null \/ (modal.verb \in {"edit", "delete"} /\ modal.row \in Row)
  BY DEF Inv, FormInv
<1>5. /\ form.Receita \in Amount \cup {Null} /\ form.Categoria \in Amount \cup {Null}
      /\ form.Despesa = Null \/ form.Despesa \in [valor : Amount, categoria : Item, parcela : 1 .. MaxParcelas]
      /\ form.selected \in Item \cup {Null} /\ form.limite \in Int \cup {Null}
  BY DEF Inv, FormInv
<1> QED
  BY <1>1, <1>2, <1>3, <1>4, <1>5 DEF Inv, TypeOK, RowsInv, CallsInv, FormInv

LEMMA InvChartComplete == Inv => ChartComplete
<1> SUFFICES ASSUME Inv, NEW f \in fetches, f.view = "chart", Len(f.got) = 2,
                    NEW d \in Got("chart", f.got, "Despesa"), d.categoria # Null,
                    NEW c \in Categories, c.id = d.categoria
             PROVE  d \in Shown("chart", f.got)
  BY DEF ChartComplete, Categories
<1>1. f.got = <<f.got[1], f.got[2]>> /\ Covers(f.got[1], f.got[2])
  BY DEF Inv, PageInv, FetchOK, GotOK
<1>2. Got("chart", f.got, "Despesa") = f.got[1] /\ Got("chart", f.got, "Categoria") = f.got[2]
  BY <1>1, GotChart
<1>3. \E e \in f.got[2] : e.id = d.categoria
  BY <1>1, <1>2 DEF Covers
<1> QED
  BY <1>2, <1>3, ShownChart

-----------------------------------------------------------------------------
LEMMA InitInv == Init => Inv
<1> SUFFICES ASSUME Init PROVE Inv
  OBVIOUS
<1>1. rows = Stored /\ used = {d.id : d \in Stored} /\ calls = [r \in {} |-> 0]
  BY DEF Init, Servidor!Init
<1>2. RowsInv
  <2>1. \A d \in Stored : d.id \in Item
    BY StoredAssumption DEF Row
  <2>2. \A d \in Stored : d.categoria \in used \cup {Null}
    BY <1>1, StoredAssumption
  <2> QED
    BY <1>1, <2>1, <2>2, StoredAssumption DEF RowsInv
<1>3. CallsInv
  BY <1>1 DEF Init, CallsInv
<1>4. PageInv
  <2>1. \A v \in Views : ScreenOK(v)
    <3> SUFFICES ASSUME NEW v \in Views PROVE ScreenOK(v)
      OBVIOUS
    <3>1. newest[v] = Mounts /\ screen[v].n = 0 /\ screen[v].data = Blank(v)
      BY DEF Init
    <3>2. v \in Lists => Blank(v) = {}
      BY DEF Blank, Lists
    <3> QED
      BY <3>1, <3>2, MountedAssumption DEF ScreenOK
  <2>2. \A f \in fetches : FetchOK(f)
    <3> SUFFICES ASSUME NEW f \in fetches PROVE FetchOK(f)
      OBVIOUS
    <3>1. f \in [view : Views, n : 1 .. Mounts, got : {<<>>}]
      BY DEF Init
    <3>2. newest[f.view] = Mounts /\ screen[f.view].n = 0
      BY <3>1 DEF Init
    <3> QED
      BY <3>1, <3>2, MountedAssumption DEF FetchOK, GotOK
  <2>3. \A f, g \in fetches : f.view = g.view /\ f.n = g.n => f = g
    BY DEF Init
  <2> QED
    BY <2>1, <2>2, <2>3 DEF PageInv, Init
<1>5. FormInv
  BY DEF Init, FormInv
<1> QED
  BY <1>2, <1>3, <1>4, <1>5 DEF Inv, Init

-----------------------------------------------------------------------------
(* What a step does not touch keeps what it had. *)
LEMMA Keep ==
  /\ RowsInv /\ UNCHANGED server => RowsInv'
  /\ CallsInv /\ UNCHANGED <<calls, mine>> => CallsInv'
  /\ PageInv /\ UNCHANGED <<rows, used, screen, fetches, newest>> => PageInv'
  /\ FormInv /\ UNCHANGED <<modal, form, typed>> => FormInv'
<1>1. RowsInv /\ UNCHANGED server => RowsInv'
  BY DEF RowsInv, server
<1>2. CallsInv /\ UNCHANGED <<calls, mine>> => CallsInv'
  BY DEF CallsInv, CallOK, MineOK
<1>3. PageInv /\ UNCHANGED <<rows, used, screen, fetches, newest>> => PageInv'
  BY DEF PageInv, ScreenOK, FetchOK, GotOK, FirstOK, Covers, Categories
<1>4. FormInv /\ UNCHANGED <<modal, form, typed>> => FormInv'
  BY DEF FormInv
<1> QED
  BY <1>1, <1>2, <1>3, <1>4

LEMMA ServedOK ==
  ASSUME RowsInv
  PROVE  /\ \A v \in Lists : Served(Asks[v][1]) \subseteq Row
         /\ \A d \in Served(Asks["chart"][1]) : d.categoria \in used \cup {Null}
         /\ Served(Asks["chart"][2]) = Categories
<1>1. \A t \in Table : Served(t) = RowsOf(rows, t, walletId)
  BY DEF Served, Table
<1>2. \A t \in Table : RowsOf(rows, t, walletId) \subseteq rows
  BY DEF RowsOf
<1>3. {"Despesa", "Categoria"} \subseteq Table
  BY DEF Table
<1> QED
  BY <1>1, <1>2, <1>3, AsksAre DEF RowsInv, Categories

LEMMA AppendOne ==
  ASSUME NEW y, NEW x
  PROVE  Append(<<y>>, x) = <<y, x>> /\ Len(<<y>>) = 1
<1> DEFINE S == {x, y}
<1> DEFINE s == <<y>>
<1> DEFINE t == <<y, x>>
<1>1. s \in Seq(S) /\ Len(s) = 1 /\ s[1] = y
  OBVIOUS
<1>2. t \in Seq(S) /\ Len(t) = 2 /\ t[1] = y /\ t[2] = x
  OBVIOUS
<1>3. x \in S
  OBVIOUS
<1> HIDE DEF S, s, t
<1>4. /\ Append(s, x) \in Seq(S) /\ Len(Append(s, x)) = 2
      /\ Append(s, x)[1] = y /\ Append(s, x)[2] = x
  <2>1. /\ Append(s, x) \in Seq(S) /\ Len(Append(s, x)) = Len(s) + 1
        /\ \A i \in 1 .. Len(s) : Append(s, x)[i] = s[i]
        /\ Append(s, x)[Len(s) + 1] = x
    BY <1>1, <1>3, AppendProperties
  <2> QED
    BY <1>1, <2>1
<1>5. \A i \in 1 .. 2 : Append(s, x)[i] = t[i]
  BY <1>2, <1>4
<1>6. Append(s, x) = t
  BY <1>2, <1>4, <1>5, SeqEqual
<1> QED
  BY <1>1, <1>6 DEF s, t

LEMMA ReadInv == ASSUME Inv, NEW f \in fetches, Read(f) PROVE Inv'
<1> DEFINE x == Served(Asks[f.view][Len(f.got) + 1])
<1> DEFINE g == [f EXCEPT !.got = Append(@, x)]
<1>1. /\ f.view \in Views /\ f.n \in 1 .. newest[f.view] /\ f.n # screen[f.view].n
      /\ f = [view |-> f.view, n |-> f.n, got |-> f.got] /\ GotOK(f.view, f.got)
  BY DEF Inv, PageInv, FetchOK
<1>2. g = [view |-> f.view, n |-> f.n, got |-> Append(f.got, x)]
  BY <1>1
<1>3. fetches' = (fetches \ {f}) \cup {g}
  BY DEF Read
<1>4. GotOK(f.view, Append(f.got, x))
  <2>1. CASE f.got = <<>>
    <3>1. Append(f.got, x) = <<x>> /\ x = Served(Asks[f.view][1])
      BY <2>1
    <3>2. FirstOK(f.view, x)
      BY <3>1, ServedOK DEF Inv, FirstOK
    <3> QED
      BY <3>1, <3>2 DEF GotOK
  <2>2. CASE f.got = <<f.got[1]>> /\ FirstOK(f.view, f.got[1])
    <3>1. Len(f.got) = 1 /\ Append(f.got, x) = <<f.got[1], x>>
      BY <2>2, AppendOne
    <3>2. f.view = "chart"
      BY <1>1, <3>1, AsksAre, ViewsAre DEF Read
    <3>3. x = Categories
      BY <3>1, <3>2, ServedOK DEF Inv
    <3>4. Covers(f.got[1], x)
      BY <3>3 DEF Covers
    <3> QED
      BY <2>2, <3>1, <3>2, <3>4 DEF GotOK
  <2>3. CASE f.got = <<f.got[1], f.got[2]>> /\ f.view = "chart"
    <3>1. Len(f.got) = 2
      BY <2>3
    <3> QED
      BY <2>3, <3>1, AsksAre DEF Read
  <2> QED
    BY <1>1, <2>1, <2>2, <2>3 DEF GotOK
<1> HIDE DEF g, x
<1>5. UNCHANGED <<server, saldo, screen, newest, mine, modal, form, typed, touched>>
  BY DEF Read
<1>6. g.view = f.view /\ g.n = f.n /\ g.got = Append(f.got, x)
  BY <1>2
<1>7. FetchOK(g)
  BY <1>1, <1>2, <1>4, <1>6 DEF FetchOK
<1>8. \A h, k \in fetches' : h.view = k.view /\ h.n = k.n => h = k
  BY <1>3, <1>6 DEF Inv, PageInv
<1>9. \A h \in fetches' : FetchOK(h)'
  <2>1. \A h \in fetches' : FetchOK(h)
    BY <1>3, <1>7 DEF Inv, PageInv
  <2> QED
    BY <1>5, <2>1 DEF FetchOK, GotOK, FirstOK, Covers, Categories, server
<1>10. PageInv'
  BY <1>5, <1>8, <1>9 DEF Inv, PageInv, ScreenOK
<1> QED
  BY <1>5, <1>10, Keep DEF Inv, server

LEMMA DeliverInv == ASSUME Inv, NEW f \in fetches, Deliver(f) PROVE Inv'
<1>1. /\ f.view \in Views /\ f.n \in 1 .. newest[f.view] /\ GotOK(f.view, f.got)
      /\ newest[f.view] \in Nat
  BY DEF Inv, PageInv, FetchOK, ScreenOK
<1>2. /\ fetches' = fetches \ {f} /\ Len(f.got) = Len(Asks[f.view])
      /\ UNCHANGED <<server, saldo, newest, mine, modal, form, typed, touched>>
  BY DEF Deliver
<1>3. /\ DOMAIN screen' = Views /\ screen'[f.view] = [n |-> f.n, data |-> Shown(f.view, f.got)]
      /\ \A v \in Views \ {f.view} : screen'[v] = screen[v]
  BY <1>1 DEF Deliver, Inv, PageInv
<1>4. f.view \in Lists => Shown(f.view, f.got) \subseteq Row
  <2> SUFFICES ASSUME f.view \in Lists PROVE Shown(f.view, f.got) \subseteq Row
    OBVIOUS
  <2>1. Len(f.got) = 1 /\ f.view # "chart"
    BY <1>2, AsksAre DEF Lists, AllViews
  <2>2. FirstOK(f.view, f.got[1])
    BY <1>1, <2>1 DEF GotOK
  <2> QED
    BY <2>2, ShownList DEF FirstOK
<1>5. \A v \in Views : ScreenOK(v)'
  <2> SUFFICES ASSUME NEW v \in Views PROVE ScreenOK(v)'
    OBVIOUS
  <2>1. CASE v = f.view
    BY <1>1, <1>2, <1>3, <1>4, <2>1 DEF ScreenOK
  <2>2. CASE v # f.view
    BY <1>2, <1>3, <2>2 DEF Inv, PageInv, ScreenOK
  <2> QED
    BY <2>1, <2>2
<1>6. \A g \in fetches' : FetchOK(g)'
  <2> SUFFICES ASSUME NEW g \in fetches \ {f} PROVE FetchOK(g)'
    BY <1>2
  <2>1. FetchOK(g) /\ g.view \in Views
    BY DEF Inv, PageInv, FetchOK
  <2>2. g.n # screen'[g.view].n
    BY <1>3, <2>1 DEF Inv, PageInv, FetchOK
  <2>3. GotOK(g.view, g.got)'
    BY <1>2, <2>1 DEF FetchOK, GotOK, FirstOK, Covers, Categories, server
  <2> QED
    BY <1>2, <2>1, <2>2, <2>3 DEF FetchOK
<1>7. PageInv'
  BY <1>2, <1>3, <1>5, <1>6 DEF Inv, PageInv
<1> QED
  BY <1>2, <1>7, Keep DEF Inv, server

LEMMA FetchFailsInv == ASSUME Inv, NEW f \in fetches, FetchFails(f) PROVE Inv'
<1>1. /\ fetches' = fetches \ {f}
      /\ UNCHANGED <<server, saldo, screen, newest, mine, modal, form, typed, touched>>
  BY DEF FetchFails
<1>2. PageInv'
  BY <1>1 DEF Inv, PageInv, ScreenOK, FetchOK, GotOK, FirstOK, Covers, Categories, server
<1> QED
  BY <1>1, <1>2, Keep DEF Inv, server

-----------------------------------------------------------------------------
LEMMA TypeInv ==
  ASSUME Inv, NEW field \in {"Receita", "Despesa", "Categoria", "limite"}, NEW a \in Amount, NEW value,
         Type(field, a, value),
         field \in {"Receita", "Categoria"} => value \in Amount \cup {Null},
         field = "Despesa" => value \in [valor : Amount, categoria : Item, parcela : 1 .. MaxParcelas],
         field = "limite" => value \in Int \cup {Null}
  PROVE  Inv'
<1>1. /\ form' = [form EXCEPT ![field] = value] /\ typed' = typed \cup {a}
      /\ UNCHANGED <<server, saldo, screen, fetches, newest, mine, modal, touched>>
  BY DEF Type
<1>2. /\ DOMAIN form' = DOMAIN form /\ form'[field] = value
      /\ \A k \in DOMAIN form \ {field} : form'[k] = form[k]
      /\ form' = [k \in DOMAIN form' |-> form'[k]]
  BY <1>1 DEF Inv, FormInv
<1>3. FormInv'
  <2>1. modal' = Null \/ (modal' \in [verb : {"edit", "delete"}, row : Row] /\ "ActivityList" \in Mounted)
    BY <1>1 DEF Inv, FormInv
  <2>2. /\ form'["Receita"] \in Amount \cup {Null} /\ form'["Categoria"] \in Amount \cup {Null}
        /\ form'["selected"] \in Item \cup {Null} /\ form'["limite"] \in Int \cup {Null}
    BY <1>2 DEF Inv, FormInv
  <2>3. \/ form'["Despesa"] = Null
        \/ form'["Despesa"] \in [valor : Amount, categoria : Item, parcela : 1 .. MaxParcelas]
    BY <1>2 DEF Inv, FormInv
  <2> QED
    BY <1>1, <1>2, <2>1, <2>2, <2>3 DEF Inv, FormInv
<1> QED
  BY <1>1, <1>3, Keep DEF Inv, server

LEMMA CachedOK == ASSUME Inv, "CategoryButton" \in Mounted, NEW i PROVE Cached(i) \in Int \cup {Null}
<1> DEFINE C == {c \in screen["categoryOptions"].data : c.id = i}
<1>1. C \subseteq Row
  BY ViewsAre DEF Inv, PageInv, ScreenOK, Lists
<1>2. CASE C = {}
  BY <1>2 DEF Cached
<1>3. CASE C # {}
  <2>1. (CHOOSE c \in C : TRUE) \in C
    BY <1>3
  <2>2. (CHOOSE c \in C : TRUE).valor \in Int
    BY <1>1, <2>1 DEF Row
  <2> QED
    BY <1>3, <2>2 DEF Cached
<1> QED
  BY <1>2, <1>3

LEMMA CategoryChangeInv ==
  ASSUME Inv, NEW i \in Item \cup {Null}, handleCategoryChange(i)
  PROVE  Inv'
<1> DEFINE g == [form EXCEPT !["selected"] = i]
<1>1. Cached(i) \in Int \cup {Null}
  BY CachedOK DEF handleCategoryChange
<1>2. /\ form' = [g EXCEPT !["limite"] = Cached(i)]
      /\ UNCHANGED <<server, saldo, screen, fetches, newest, mine, modal, typed, touched>>
  BY DEF handleCategoryChange
<1>3. /\ DOMAIN g = DOMAIN form /\ g["selected"] = i
      /\ \A k \in DOMAIN form \ {"selected"} : g[k] = form[k]
  BY DEF Inv, FormInv
<1> HIDE DEF g
<1>4. /\ DOMAIN form' = DOMAIN form /\ form'["limite"] = Cached(i) /\ form'["selected"] = i
      /\ \A k \in {"Receita", "Despesa", "Categoria"} : form'[k] = form[k]
      /\ form' = [k \in DOMAIN form' |-> form'[k]]
  BY <1>2, <1>3 DEF Inv, FormInv
<1>5. FormInv'
  BY <1>1, <1>2, <1>4 DEF Inv, FormInv
<1> QED
  BY <1>2, <1>5, Keep DEF Inv, server

LEMMA TypingInv ==
  ASSUME Inv, NEW a \in Amount,
         TypeReceita(a) \/ TypeDespesa(a) \/ TypeNome(a) \/ TypeLimite(a) \/ handleChange(a)
  PROVE  Inv'
<1>1. CASE TypeReceita(a)
  BY <1>1, TypeInv DEF TypeReceita
<1>2. CASE TypeDespesa(a)
  <2>1. PICK c \in screen["despesaCategoriaOpt"].data, p \in 1 .. MaxParcelas :
          Type("Despesa", a, [valor |-> a, categoria |-> c.id, parcela |-> p])
    BY <1>2 DEF TypeDespesa
  <2>2. c.id \in Item
    BY <1>2, ViewsAre DEF TypeDespesa, Inv, PageInv, ScreenOK, Lists, Row
  <2>3. [valor |-> a, categoria |-> c.id, parcela |-> p]
          \in [valor : Amount, categoria : Item, parcela : 1 .. MaxParcelas]
    BY <2>2
  <2> QED
    BY <2>1, <2>3, TypeInv
<1>3. CASE TypeNome(a)
  BY <1>3, TypeInv DEF TypeNome
<1>4. CASE TypeLimite(a)
  <2>1. a \in Int
    BY AmountAssumption
  <2> QED
    BY <1>4, <2>1, TypeInv DEF TypeLimite
<1>5. CASE handleChange(a)
  <2>1. /\ "ActivityList" \in Mounted
        /\ modal \in [verb : {"edit", "delete"}, row : Row] /\ modal' = [modal EXCEPT !.row.valor = a]
        /\ typed' = typed \cup {a}
        /\ UNCHANGED <<server, saldo, screen, fetches, newest, mine, form, touched>>
    BY <1>5 DEF handleChange, Inv, FormInv
  <2>2. modal' = [verb |-> modal.verb, row |-> [modal.row EXCEPT !.valor = a]]
    BY <2>1
  <2>3. [modal.row EXCEPT !.valor = a] \in Row
    BY <2>1, AmountAssumption DEF Row
  <2>4. FormInv'
    BY <2>1, <2>2, <2>3 DEF Inv, FormInv
  <2> QED
    BY <2>1, <2>4, Keep DEF Inv, server
<1> QED
  BY <1>1, <1>2, <1>3, <1>4, <1>5

-----------------------------------------------------------------------------
(* A request that the server receives, of this page or of another one. *)
LEMMA ReceiveOK ==
  ASSUME CallsInv, NEW r \in Request, NEW b \in OfRows, Servidor!Receive(r, b)
  PROVE  /\ r \notin DOMAIN calls /\ UNCHANGED <<rows, used>>
         /\ DOMAIN calls' = DOMAIN calls \cup {r} /\ calls'[r].body = b
         /\ \A q \in DOMAIN calls : calls'[q] = calls[q]
         /\ \A q \in DOMAIN calls' : CallOK(q)'
<1> DEFINE c == [body |-> b, wrote |-> 0, answer |-> IF Servidor!Refused(b) THEN "error" ELSE "none"]
<1>1. c \in [body : OfRows, wrote : Nat, answer : {"none", "ok", "error"}] /\ c.body = b
  OBVIOUS
<1>2. r \notin DOMAIN calls /\ calls' = Servidor!With(calls, r, c) /\ UNCHANGED <<rows, used>>
  BY DEF Servidor!Receive
<1> HIDE DEF c
<1>3. /\ DOMAIN calls' = DOMAIN calls \cup {r} /\ calls'[r] = c
      /\ \A q \in DOMAIN calls : calls'[q] = calls[q]
  BY <1>2 DEF Servidor!With
<1>4. \A q \in DOMAIN calls' : CallOK(q)'
  BY <1>1, <1>3 DEF CallsInv, CallOK
<1> QED
  BY <1>1, <1>2, <1>3, <1>4

LEMMA SendInv ==
  ASSUME Inv, NEW b \in OfRows, NEW cached \in Int \cup {Null}, Send(b, cached),
         b.verb = "delete" => "ActivityList" \in Mounted
  PROVE  Inv'
<1>1. PICK r \in Request :
        /\ Servidor!Receive(r, b)
        /\ mine' = With(mine, r, [heard |-> "nothing", cached |-> cached,
                                  again |-> \E q \in Waiting : calls[q].body = b])
  BY DEF Send
<1>2. UNCHANGED <<saldo, screen, fetches, newest, modal, form, typed, touched>>
  BY DEF Send
<1> DEFINE again == \E q \in Waiting : calls[q].body = b
<1> DEFINE m == [heard |-> "nothing", cached |-> cached, again |-> again]
<1>3. m \in [heard : {"nothing", "lost", "ok", "error"}, cached : Int \cup {Null}, again : BOOLEAN]
  <2> HIDE DEF again
  <2>1. again \in BOOLEAN
    BY DEF again
  <2> QED
    BY <2>1
<1>4. m.heard = "nothing" /\ mine' = With(mine, r, m)
  BY <1>1
<1> HIDE DEF m
<1>5. /\ r \notin DOMAIN calls /\ UNCHANGED <<rows, used>>
      /\ DOMAIN calls' = DOMAIN calls \cup {r} /\ calls'[r].body = b
      /\ \A q \in DOMAIN calls : calls'[q] = calls[q]
      /\ \A q \in DOMAIN calls' : CallOK(q)'
  BY <1>1, ReceiveOK DEF Inv
<1>6. /\ DOMAIN mine' = DOMAIN mine \cup {r} /\ mine'[r] = m
      /\ \A q \in DOMAIN mine \ {r} : mine'[q] = mine[q]
  BY <1>4 DEF With
<1>7. \A q \in DOMAIN mine' : MineOK(q)'
  BY <1>3, <1>4, <1>5, <1>6 DEF Inv, CallsInv, MineOK
<1>8. CallsInv'
  BY <1>5, <1>6, <1>7 DEF Inv, CallsInv
<1>9. RowsInv'
  BY <1>5 DEF Inv, RowsInv
<1> QED
  BY <1>2, <1>5, <1>8, <1>9, Keep DEF Inv

LEMMA AskingOK ==
  ASSUME NEW verb \in {"create", "edit", "delete"}, NEW table \in Table, NEW i \in Item \cup {Null},
         NEW c \in Item \cup {Null}, NEW a \in Int \cup {Null}, NEW p \in Nat \ {0}
  PROVE  Asking(verb, table, i, c, a, p) \in OfRows
<1>1. (IF a = Null THEN 0 ELSE a) \in Int /\ (a # Null) \in BOOLEAN
  OBVIOUS
<1>2. \A t \in Table : Colunas[t] \in SUBSET {"valor", "categoria", "outras"}
  BY DEF Colunas, Table
<1> QED
  BY <1>1, <1>2, WalletAssumption DEF Asking, Asked, OfRows

LEMMA AskingVerb ==
  ASSUME NEW verb, NEW table, NEW i, NEW c, NEW a, NEW p
  PROVE  Asking(verb, table, i, c, a, p).verb = verb
  BY DEF Asking

(* The forms, whatever is in them, and the modal send requests that may be asked. *)
LEMMA SendsInv ==
  ASSUME Inv, handleSubmitReceitaForm \/ handleSubmitDespesaForm \/ handleCreateCategoria
                \/ handleSaveChanges \/ handleEditClick \/ handleDeleteClick
  PROVE  Inv'
<1>1. /\ form["Receita"] \in Int \cup {Null} /\ form["Categoria"] \in Int \cup {Null}
      /\ form["selected"] \in Item \cup {Null} /\ form["limite"] \in Int \cup {Null}
  BY AmountAssumption DEF Inv, FormInv
<1>2. {"Receita", "Despesa", "Categoria"} \subseteq Table /\ 1 \in Nat \ {0}
  BY DEF Table
<1>3. CASE handleSubmitReceitaForm
  <2> DEFINE b == Asking("create", "Receita", Null, Null, form["Receita"], 1)
  <2>1. b \in OfRows
    BY <1>1, <1>2, AskingOK
  <2>2. b.verb = "create"
    BY AskingVerb
  <2>3. Send(b, Null)
    BY <1>3 DEF handleSubmitReceitaForm
  <2> HIDE DEF b
  <2> QED
    BY <2>1, <2>2, <2>3, SendInv
<1>4. CASE handleSubmitDespesaForm
  <2>1. CASE form["Despesa"] = Null
    <3>1. Asking("create", "Despesa", Null, Null, Null, 1) \in OfRows
      BY <1>2, AskingOK
    <3> QED
      BY <1>4, <2>1, <3>1, AskingVerb, SendInv DEF handleSubmitDespesaForm
  <2>2. CASE form["Despesa"] # Null
    <3>1. form["Despesa"] \in [valor : Amount, categoria : Item, parcela : 1 .. MaxParcelas]
      BY <2>2 DEF Inv, FormInv
    <3>2. /\ form["Despesa"].valor \in Int \cup {Null} /\ form["Despesa"].categoria \in Item \cup {Null}
          /\ form["Despesa"].parcela \in Nat \ {0}
      <4>1. \A p \in 1 .. MaxParcelas : p \in Nat \ {0}
        BY AmountAssumption
      <4>2. \A a \in Amount : a \in Int
        BY AmountAssumption
      <4> QED
        BY <3>1, <4>1, <4>2
    <3>3. Asking("create", "Despesa", Null, form["Despesa"].categoria,
                 form["Despesa"].valor, form["Despesa"].parcela) \in OfRows
      BY <1>2, <3>2, AskingOK
    <3> QED
      BY <1>4, <2>2, <3>3, AskingVerb, SendInv DEF handleSubmitDespesaForm
  <2> QED
    BY <2>1, <2>2
<1>5. CASE handleCreateCategoria
  <2>1. Asking("create", "Categoria", Null, Null, form["Categoria"], 1) \in OfRows
    BY <1>1, <1>2, AskingOK
  <2> QED
    BY <1>5, <2>1, AskingVerb, SendInv DEF handleCreateCategoria
<1>6. CASE handleSaveChanges
  <2>1. Asking("edit", "Categoria", form["selected"], Null, form["limite"], 1) \in OfRows
    BY <1>1, <1>2, AskingOK
  <2>2. Cached(form["selected"]) \in Int \cup {Null}
    BY <1>6, CachedOK DEF handleSaveChanges
  <2> QED
    BY <1>6, <2>1, <2>2, AskingVerb, SendInv DEF handleSaveChanges
<1>7. modal # Null => modal.row \in Row /\ "ActivityList" \in Mounted
  BY DEF Inv, FormInv
<1>8. CASE handleEditClick
  <2>1. /\ modal.row.table \in Table /\ modal.row.id \in Item \cup {Null}
        /\ modal.row.categoria \in Item \cup {Null} /\ modal.row.valor \in Int \cup {Null}
    BY <1>7, <1>8 DEF handleEditClick, Row
  <2>2. Asking("edit", modal.row.table, modal.row.id, modal.row.categoria, modal.row.valor, 1) \in OfRows
    BY <1>2, <2>1, AskingOK
  <2> QED
    BY <1>8, <2>2, AskingVerb, SendInv DEF handleEditClick
<1>9. CASE handleDeleteClick
  <2>1. /\ modal.row.table \in Table /\ modal.row.id \in Item \cup {Null}
        /\ modal.row.valor \in Int \cup {Null}
    BY <1>7, <1>9 DEF handleDeleteClick, Row
  <2>2. Asking("delete", modal.row.table, modal.row.id, Null, modal.row.valor, 1) \in OfRows
    BY <1>2, <2>1, AskingOK
  <2> QED
    BY <1>7, <1>9, <2>2, AskingVerb, SendInv DEF handleDeleteClick
<1> QED
  BY <1>3, <1>4, <1>5, <1>6, <1>8, <1>9

LEMMA ModalInv == ASSUME Inv, OpenModal \/ handleClose PROVE Inv'
<1>1. UNCHANGED <<server, saldo, screen, fetches, newest, mine, form, typed, touched>>
  BY DEF OpenModal, Open, handleClose
<1>2. modal' = Null \/ (modal' \in [verb : {"edit", "delete"}, row : Row] /\ "ActivityList" \in Mounted)
  <2>1. CASE OpenModal
    <3>1. PICK d \in screen["expenses"].data \cup screen["incomes"].data, verb \in {"edit", "delete"} :
            Open(verb, d)
      BY <2>1 DEF OpenModal
    <3>2. screen["expenses"].data \subseteq Row /\ screen["incomes"].data \subseteq Row
      BY <2>1, ViewsAre DEF OpenModal, Inv, PageInv, ScreenOK, Lists
    <3> QED
      BY <2>1, <3>1, <3>2 DEF Open, OpenModal
  <2> QED
    BY <2>1 DEF handleClose
<1>3. FormInv'
  BY <1>1, <1>2 DEF Inv, FormInv
<1> QED
  BY <1>1, <1>3, Keep DEF Inv, server

-----------------------------------------------------------------------------
(* An answer: what is heard of a request is what the server said. *)
LEMMA HeardOK ==
  ASSUME CallsInv, NEW r \in Waiting, NEW a \in {"ok", "error", "lost"}, Heard(r, a), UNCHANGED calls,
         a # "lost" => calls[r].answer = a
  PROVE  CallsInv'
<1>1. r \in DOMAIN mine
  BY DEF Waiting
<1>2. /\ DOMAIN mine' = DOMAIN mine
      /\ \A q \in DOMAIN mine \ {r} : mine'[q] = mine[q]
      /\ mine'[r] = [mine[r] EXCEPT !.heard = a]
  BY <1>1 DEF Heard
<1>3. MineOK(r)'
  BY <1>1, <1>2 DEF CallsInv, MineOK
<1>4. \A q \in DOMAIN mine' : MineOK(q)'
  BY <1>2, <1>3 DEF CallsInv, MineOK
<1> QED
  BY <1>2, <1>4 DEF CallsInv, CallOK

LEMMA FetchInv ==
  ASSUME Inv, NEW V \in SUBSET Views, Fetch(V), UNCHANGED <<rows, used, screen>>
  PROVE  PageInv' /\ touched' \subseteq Views
<1> DEFINE new(v) == [view |-> v, n |-> newest[v] + 1, got |-> <<>>]
<1>1. /\ newest' = [v \in Views |-> IF v \in V THEN newest[v] + 1 ELSE newest[v]]
      /\ fetches' = fetches \cup {new(v) : v \in V} /\ touched' = touched \ V
  BY DEF Fetch
<1>2. \A v \in Views : newest[v] \in Nat /\ newest'[v] \in {newest[v], newest[v] + 1}
  BY <1>1 DEF Inv, PageInv, ScreenOK
<1>3. \A v \in Views : ScreenOK(v)'
  BY <1>2 DEF Inv, PageInv, ScreenOK
<1>4. \A f \in fetches' : FetchOK(f)'
  <2> SUFFICES ASSUME NEW f \in fetches' PROVE FetchOK(f)'
    OBVIOUS
  <2>1. CASE f \in fetches
    <3>1. FetchOK(f) /\ f.view \in Views
      BY <2>1 DEF Inv, PageInv, FetchOK
    <3>2. GotOK(f.view, f.got)'
      BY <3>1 DEF FetchOK, GotOK, FirstOK, Covers, Categories
    <3>3. f.n \in 1 .. newest'[f.view]
      BY <1>2, <3>1 DEF FetchOK
    <3> QED
      BY <3>1, <3>2, <3>3 DEF FetchOK
  <2>2. CASE f \notin fetches
    <3>1. PICK v \in V : f = new(v)
      BY <1>1, <2>2
    <3>2. newest'[v] = newest[v] + 1 /\ newest[v] \in Nat /\ screen[v].n \in 0 .. newest[v]
      BY <1>1 DEF Inv, PageInv, ScreenOK
    <3>3. f = [view |-> v, n |-> newest'[v], got |-> <<>>] /\ newest'[v] \in 1 .. newest'[v]
      BY <3>1, <3>2
    <3>4. f.n # screen'[v].n
      BY <3>2, <3>3
    <3> QED
      BY <3>3, <3>4 DEF FetchOK, GotOK
  <2> QED
    BY <2>1, <2>2
<1>5. \A f, g \in fetches' : f.view = g.view /\ f.n = g.n => f = g
  <2>1. \A f \in fetches, v \in V : f.view = v => f.n # newest[v] + 1
    BY <1>2 DEF Inv, PageInv, FetchOK
  <2>2. \A v \in V : new(v).view = v /\ new(v).n = newest[v] + 1
    OBVIOUS
  <2> QED
    BY <1>1, <2>1, <2>2 DEF Inv, PageInv
<1> QED
  BY <1>1, <1>3, <1>4, <1>5 DEF Inv, PageInv

LEMMA FailedInv == ASSUME Inv, NEW r \in Request, Failed(r) PROVE Inv'
<1>1. r \in Waiting /\ UNCHANGED <<server, saldo, screen, fetches, newest, modal, form, typed>>
  BY DEF Failed
<1>2. CallsInv'
  BY <1>1, HeardOK DEF Failed, Inv, server
<1>3. touched' \subseteq Views
  BY <1>1, ViewsAre DEF Failed, Deletes, Body, Waiting, Inv, CallsInv, MineOK
<1> QED
  BY <1>1, <1>2, <1>3, Keep DEF Inv, server

LEMMA AnsweredInv == ASSUME Inv, NEW r \in Request, Answered(r) PROVE Inv'
<1>1. /\ r \in Waiting /\ calls[r].answer = "ok" /\ Heard(r, "ok")
      /\ UNCHANGED <<server, saldo, screen, typed>>
  BY DEF Answered
<1>2. /\ r \in DOMAIN mine /\ r \in DOMAIN calls
      /\ mine[r].cached \in Int \cup {Null}
      /\ Body(r).verb = "delete" => "ActivityList" \in Mounted
  BY <1>1 DEF Waiting, Inv, CallsInv, MineOK, CallOK, Body
<1>3. CallsInv'
  BY <1>1, HeardOK DEF Inv, server
<1>4. RowsInv'
  BY <1>1, Keep DEF Inv
<1>5. CASE /\ Body(r).verb = "create" /\ Reset(r)
           /\ UNCHANGED <<fetches, newest, modal, touched>>
  <2>1. FormInv'
    <3>1. form' = [form EXCEPT ![Body(r).table] = Null]
      BY <1>5 DEF Reset
    <3>2. /\ DOMAIN form' = DOMAIN form
          /\ \A k \in DOMAIN form : form'[k] \in {form[k], Null}
          /\ form' = [k \in DOMAIN form' |-> form'[k]]
      BY <3>1 DEF Inv, FormInv
    <3> QED
      BY <1>1, <1>5, <3>2 DEF Inv, FormInv
  <2> QED
    BY <1>1, <1>3, <1>4, <1>5, <2>1, Keep DEF Inv, server
<1>6. CASE /\ form' = [form EXCEPT !.limite = mine[r].cached]
           /\ UNCHANGED <<fetches, newest, modal, touched>>
  <2>1. FormInv'
    <3>1. /\ DOMAIN form' = DOMAIN form /\ form'["limite"] = mine[r].cached
          /\ \A k \in DOMAIN form \ {"limite"} : form'[k] = form[k]
          /\ form' = [k \in DOMAIN form' |-> form'[k]]
      BY <1>6 DEF Inv, FormInv
    <3> QED
      BY <1>1, <1>2, <1>6, <3>1 DEF Inv, FormInv
  <2> QED
    BY <1>1, <1>3, <1>4, <1>6, <2>1, Keep DEF Inv, server
<1>7. Close(r) /\ UNCHANGED form => FormInv'
  BY <1>1 DEF Close, Inv, FormInv
<1>8. CASE Close(r) /\ UNCHANGED <<fetches, newest, form, touched>>
  BY <1>1, <1>3, <1>4, <1>7, <1>8, Keep DEF Inv, server
<1>9. CASE /\ Body(r).verb = "delete" /\ Close(r) /\ UNCHANGED form
           /\ Fetch(IF Body(r).table = "Receita" THEN {"incomes"} ELSE {"expenses"})
  <2>1. (IF Body(r).table = "Receita" THEN {"incomes"} ELSE {"expenses"}) \in SUBSET Views
    BY <1>2, <1>9, ViewsAre
  <2>2. PageInv' /\ touched' \subseteq Views
    BY <1>1, <1>9, <2>1, FetchInv DEF server
  <2> QED
    BY <1>3, <1>4, <1>7, <1>9, <2>2 DEF Inv
<1> QED
  BY <1>5, <1>6, <1>8, <1>9 DEF Answered

-----------------------------------------------------------------------------
(***************************************************************************)
(* A write keeps the rows well formed and gives no category an id that was *)
(* used for another row, or for one that is gone.                          *)
(***************************************************************************)
LEMMA WriteRows ==
  ASSUME RowsInv, CallsInv, NEW r, Servidor!Write(r)
  PROVE  /\ RowsInv' /\ used \subseteq used'
         /\ \A c \in Categories' : c.id \notin used \/ \E e \in Categories : e.id = c.id
<1> DEFINE b == calls[r].body
<1>1. r \in DOMAIN calls
  BY DEF Servidor!Write, Servidor!Insert, Servidor!Update, Servidor!Destroy, Servidor!Open
<1>2. b \in Asked /\ b.table \in Table /\ b = Servidor!Ask(r)
  BY <1>1 DEF CallsInv, CallOK, OfRows, Servidor!Ask
<1>3. /\ b.carteira \in Wallet /\ b.categoria \in Item \cup {Null} /\ b.valor \in Int
      /\ b.parcela \in Nat \ {0}
  BY <1>2 DEF Asked
<1> HIDE DEF b
<1>4. ASSUME Servidor!ForeignKeysHold(rows, b), b.table = "Despesa", Servidor!Sets(b, "categoria")
      PROVE  b.categoria \in (used \cup {Null}) \cap (Item \cup {Null})
  BY <1>3, <1>4 DEF RowsInv, Servidor!ForeignKeysHold
<1>5. ASSUME NEW i, NEW share PROVE Servidor!NewRow(b, i, share) =
        [table |-> b.table, id |-> i, carteira |-> b.carteira, valor |-> share,
         categoria |-> Servidor!CategoryIn(b)]
  BY DEF Servidor!NewRow
<1>6. CASE Servidor!Insert(r)
  <2>1. PICK i \in Item \ used, share \in Servidor!Shares(b) :
          rows' = rows \cup {Servidor!NewRow(b, i, share)} /\ used' = used \cup {i}
    BY <1>2, <1>6 DEF Servidor!Insert
  <2>2. share \in Int
    BY <1>2, <1>3, <2>1 DEF Servidor!Shares, Table
  <2> DEFINE n == Servidor!NewRow(b, i, share)
  <2>c. Servidor!CategoryIn(b) \in (used \cup {Null}) \cap (Item \cup {Null})
    BY <1>2, <1>4, <1>6 DEF Servidor!Insert, Servidor!Sets, Servidor!CategoryIn
  <2>3. n \in Row /\ n.id = i /\ n.categoria \in used \cup {Null}
    BY <1>2, <1>3, <1>5, <2>2, <2>c DEF Row
  <2> HIDE DEF n
  <2>4. RowsInv'
    BY <2>1, <2>3 DEF RowsInv, n
  <2> QED
    BY <2>1, <2>3, <2>4 DEF Categories, RowsOf, n
<1>7. CASE Servidor!Update(r)
  <2> DEFINE N == Servidor!Named(rows, b)
  <2> DEFINE n(d) == Servidor!EditedRow(d, b)
  <2>1. /\ rows' = (rows \ N) \cup {n(d) : d \in N}
        /\ used' = used /\ Servidor!ForeignKeysHold(rows, b)
    BY <1>2, <1>7 DEF Servidor!Update, Servidor!Editable, Servidor!Edited
  <2>2. \A d \in N : d \in rows /\ d.table = b.table /\ d.carteira = b.carteira
    BY DEF Servidor!Named, Servidor!RowsOf
  <2> HIDE DEF N
  <2>3. ASSUME NEW d \in N
        PROVE  /\ n(d) \in Row /\ n(d).id = d.id /\ n(d).categoria \in used \cup {Null}
               /\ n(d).table = d.table /\ n(d).carteira = d.carteira
    <3> DEFINE v == IF Servidor!Sets(b, "valor") THEN b.valor ELSE d.valor
               c == IF b.table = "Despesa" /\ Servidor!Sets(b, "categoria")
                      THEN b.categoria ELSE d.categoria
    <3>1. d \in Row /\ d.categoria \in used \cup {Null}
      BY <2>2 DEF RowsInv
    <3>2. v \in Int /\ c \in Item \cup {Null} /\ c \in used \cup {Null}
      BY <1>3, <1>4, <2>1, <3>1 DEF Row
    <3>3. n(d) = [[d EXCEPT !.valor = v] EXCEPT !.categoria = c]
      BY <3>1 DEF Servidor!EditedRow, Row
    <3> HIDE DEF v, c, n
    <3>4. /\ [d EXCEPT !.valor = v] \in Row /\ [d EXCEPT !.valor = v].id = d.id
          /\ [d EXCEPT !.valor = v].table = d.table /\ [d EXCEPT !.valor = v].carteira = d.carteira
      BY <3>1, <3>2 DEF Row
    <3>5. \A e \in Row : /\ [e EXCEPT !.categoria = c] \in Row
                         /\ [e EXCEPT !.categoria = c].categoria = c
                         /\ [e EXCEPT !.categoria = c].id = e.id
                         /\ [e EXCEPT !.categoria = c].table = e.table
                         /\ [e EXCEPT !.categoria = c].carteira = e.carteira
      BY <3>2 DEF Row
    <3> QED
      BY <3>2, <3>3, <3>4, <3>5
  <2> HIDE DEF n
  <2>4. RowsInv'
    BY <2>1, <2>2, <2>3 DEF RowsInv
  <2>5. \A c \in Categories' : \E e \in Categories : e.id = c.id
    BY <2>1, <2>2, <2>3 DEF Categories, RowsOf
  <2> QED
    BY <2>1, <2>4, <2>5
<1>8. CASE Servidor!Destroy(r)
  <2> DEFINE D == Servidor!Named(rows, b)
  <2> DEFINE gone(d) == \E c \in D : c.table = "Categoria" /\ c.id = d.categoria
  <2> DEFINE left(d) == [d EXCEPT !.categoria = IF gone(d) THEN Null ELSE d.categoria]
  <2>1. rows' = {left(d) : d \in rows \ D} /\ used' = used
    BY <1>2, <1>8 DEF Servidor!Destroy, Servidor!Without
  <2> HIDE DEF D, gone
  <2>2. \A d \in rows : /\ left(d) \in Row /\ left(d).id = d.id /\ left(d).table = d.table
                       /\ left(d).carteira = d.carteira /\ left(d).categoria \in {d.categoria, Null}
    BY DEF RowsInv, Row
  <2> HIDE DEF left
  <2>3. RowsInv'
    BY <2>1, <2>2 DEF RowsInv
  <2>4. \A c \in Categories' : \E e \in Categories : e.id = c.id
    BY <2>1, <2>2 DEF Categories, RowsOf
  <2> QED
    BY <2>1, <2>3, <2>4
<1> QED
  BY <1>6, <1>7, <1>8 DEF Servidor!Write

LEMMA WriteCalls == ASSUME CallsInv, NEW r, Servidor!Write(r), UNCHANGED mine PROVE CallsInv'
<1>1. r \in DOMAIN calls /\ calls' = [calls EXCEPT ![r].wrote = @ + 1]
  BY DEF Servidor!Write, Servidor!Insert, Servidor!Update, Servidor!Destroy, Servidor!Open, Servidor!Wrote
<1>2. /\ DOMAIN calls' = DOMAIN calls /\ \A q \in DOMAIN calls \ {r} : calls'[q] = calls[q]
      /\ calls'[r] = [calls[r] EXCEPT !.wrote = @ + 1]
  BY <1>1
<1>3. CallOK(r)' /\ calls'[r].answer = calls[r].answer /\ calls'[r].body = calls[r].body
  BY <1>1, <1>2 DEF CallsInv, CallOK
<1>4. \A q \in DOMAIN calls' : CallOK(q)'
  BY <1>2, <1>3 DEF CallsInv, CallOK
<1>5. \A q \in DOMAIN calls : calls'[q].answer = calls[q].answer /\ calls'[q].body = calls[q].body
  BY <1>2, <1>3
<1>6. \A q \in DOMAIN mine : MineOK(q)'
  BY <1>5 DEF CallsInv, MineOK
<1> QED
  BY <1>2, <1>4, <1>6 DEF CallsInv

LEMMA ServerWritesInv == ASSUME Inv, NEW r \in Request, ServerWrites(r) PROVE Inv'
<1>1. Servidor!Write(r) /\ UNCHANGED <<screen, fetches, newest, mine, modal, form, typed>>
  BY DEF ServerWrites, page
<1>2. /\ RowsInv' /\ used \subseteq used'
      /\ \A c \in Categories' : c.id \notin used \/ \E e \in Categories : e.id = c.id
  BY <1>1, WriteRows DEF Inv
<1>3. CallsInv'
  BY <1>1, WriteCalls DEF Inv
<1>4. \A f \in fetches : FetchOK(f)'
  <2> SUFFICES ASSUME NEW f \in fetches PROVE FetchOK(f)'
    OBVIOUS
  <2>1. FetchOK(f)
    BY DEF Inv, PageInv
  <2>2. ASSUME NEW x, FirstOK(f.view, x) PROVE FirstOK(f.view, x)'
    BY <1>2, <2>2 DEF FirstOK
  <2>3. ASSUME NEW x, NEW y, f.view = "chart", FirstOK(f.view, x), Covers(x, y) PROVE Covers(x, y)'
    <3> SUFFICES ASSUME NEW d \in x, NEW c \in Categories', d.categoria # Null, c.id = d.categoria
                 PROVE  \E e \in y : e.id = d.categoria
      BY DEF Covers
    <3>1. d.categoria \in used
      BY <2>3 DEF FirstOK
    <3>2. PICK k \in Categories : k.id = d.categoria
      BY <1>2, <3>1
    <3> QED
      BY <2>3, <3>2 DEF Covers
  <2>4. GotOK(f.view, f.got)'
    BY <2>1, <2>2, <2>3 DEF FetchOK, GotOK
  <2> QED
    BY <1>1, <2>1, <2>4 DEF FetchOK
<1>5. PageInv'
  BY <1>1, <1>4 DEF Inv, PageInv, ScreenOK
<1>6. touched' \subseteq Views
  BY DEF ServerWrites, Inv
<1> QED
  BY <1>1, <1>2, <1>3, <1>5, <1>6, Keep DEF Inv

LEMMA ServerAnswersInv == ASSUME Inv, NEW r \in Request, ServerAnswers(r) PROVE Inv'
<1>1. PICK a \in {"ok", "error"} : Servidor!Answer(r, a)
  BY DEF ServerAnswers
<1>2. UNCHANGED <<rows, used, screen, fetches, newest, mine, modal, form, typed, touched>>
  BY <1>1 DEF ServerAnswers, page, Servidor!Answer
<1>3. /\ r \in DOMAIN calls /\ calls[r].answer = "none" /\ calls' = [calls EXCEPT ![r].answer = a]
  BY <1>1 DEF Servidor!Answer, Servidor!Open
<1>4. /\ DOMAIN calls' = DOMAIN calls /\ \A q \in DOMAIN calls \ {r} : calls'[q] = calls[q]
      /\ calls'[r] = [calls[r] EXCEPT !.answer = a]
  BY <1>3
<1>5. CallOK(r)' /\ calls'[r].body = calls[r].body
  BY <1>3, <1>4 DEF Inv, CallsInv, CallOK
<1>6. \A q \in DOMAIN calls' : CallOK(q)'
  BY <1>4, <1>5 DEF Inv, CallsInv, CallOK
<1>7. \A q \in DOMAIN mine : MineOK(q)'
  <2> SUFFICES ASSUME NEW q \in DOMAIN mine PROVE MineOK(q)'
    OBVIOUS
  <2>1. MineOK(q) /\ q \in DOMAIN calls /\ mine'[q] = mine[q]
    BY <1>2 DEF Inv, CallsInv
  <2>2. CASE q = r
    BY <1>3, <1>5, <2>1, <2>2 DEF MineOK
  <2>3. CASE q # r
    BY <1>4, <2>1, <2>3 DEF MineOK
  <2> QED
    BY <2>2, <2>3
<1>8. CallsInv'
  BY <1>2, <1>4, <1>6, <1>7 DEF Inv, CallsInv
<1> QED
  BY <1>2, <1>8, Keep DEF Inv, server, RowsInv

LEMMA OthersAskInv == ASSUME Inv, NEW r \in Request, OthersAsk(r) PROVE Inv'
<1>1. PICK b \in Others : Servidor!Receive(r, b)
  BY DEF OthersAsk
<1>2. UNCHANGED <<screen, fetches, newest, mine, modal, form, typed, touched>>
  BY DEF OthersAsk, page
<1>3. /\ r \notin DOMAIN calls /\ UNCHANGED <<rows, used>>
      /\ DOMAIN calls' = DOMAIN calls \cup {r}
      /\ \A q \in DOMAIN calls : calls'[q] = calls[q]
      /\ \A q \in DOMAIN calls' : CallOK(q)'
  BY <1>1, ReceiveOK, OthersAssumption DEF Inv, OfRows
<1>4. CallsInv'
  BY <1>2, <1>3 DEF Inv, CallsInv, MineOK
<1> QED
  BY <1>2, <1>3, <1>4, Keep DEF Inv, RowsInv

-----------------------------------------------------------------------------
LEMMA NextInv == Inv /\ [Next]_vars => Inv'
<1> SUFFICES ASSUME Inv, [Next]_vars PROVE Inv'
  OBVIOUS
<1>1. CASE FetchStep
  BY <1>1, ReadInv, DeliverInv, FetchFailsInv DEF FetchStep
<1>2. ASSUME NEW a \in Amount,
             TypeReceita(a) \/ TypeDespesa(a) \/ TypeNome(a) \/ TypeLimite(a) \/ handleChange(a)
      PROVE  Inv'
  BY <1>2, TypingInv
<1>3. CASE handleSubmitReceitaForm \/ handleSubmitDespesaForm \/ handleCreateCategoria
             \/ handleSaveChanges \/ handleEditClick \/ handleDeleteClick
  BY <1>3, SendsInv
<1>4. ASSUME NEW i \in Item \cup {Null}, handleCategoryChange(i) PROVE Inv'
  BY <1>4, CategoryChangeInv
<1>5. CASE OpenModal \/ handleClose
  BY <1>5, ModalInv
<1>6. ASSUME NEW r \in Request,
             Answered(r) \/ Failed(r) \/ ServerWrites(r) \/ ServerAnswers(r) \/ OthersAsk(r)
      PROVE  Inv'
  BY <1>6, AnsweredInv, FailedInv, ServerWritesInv, ServerAnswersInv, OthersAskInv
<1>7. CASE ServerSaldo
  <2>1. UNCHANGED <<server, screen, fetches, newest, mine, modal, form, typed>> /\ touched' \subseteq Views
    BY <1>7 DEF ServerSaldo, page, Inv
  <2> QED
    BY <2>1, Keep DEF Inv, server
<1>8. CASE UNCHANGED vars
  <2>1. UNCHANGED <<server, screen, fetches, newest, mine, modal, form, typed, touched>>
    BY <1>8 DEF vars, page
  <2> QED
    BY <2>1, Keep DEF Inv, server
<1> QED
  BY <1>1, <1>2, <1>3, <1>4, <1>5, <1>6, <1>7, <1>8 DEF Next

LEMMA InvHolds == Spec => []Inv
  BY InitInv, NextInv, PTL DEF Spec

(***************************************************************************)
(* The page, its fetches and its requests are well formed, whatever is     *)
(* typed, answered, lost or overtaken, and whatever other pages do: a      *)
(* fetch that is under way brings a number its view does not show yet.     *)
(***************************************************************************)
THEOREM TypeCorrect == Spec => []TypeOK
  BY InvHolds, InvTypeOK, PTL

(***************************************************************************)
(* fetchExpensesAndCategories reads the expenses first: the categories     *)
(* that come later name every category that those expenses have and that   *)
(* the wallet still has, since an id is never used again.                  *)
(***************************************************************************)
THEOREM ChartCompleteHolds == Spec => []ChartComplete
  BY InvHolds, InvChartComplete, PTL
=============================================================================
