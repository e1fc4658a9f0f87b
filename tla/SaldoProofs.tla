----------------------------- MODULE SaldoProofs ----------------------------
(***************************************************************************)
(* The balance of a wallet, for any wallets, rows, requests and restarts:  *)
(* until the first accident that happens to it, it is at rest what the     *)
(* wallet's incomes and expenses add up to and what was booked too much.   *)
(***************************************************************************)
EXTENDS CarteiraProofs

Service == {"Receita", "Despesa"}

(***************************************************************************)
(* How far a request has come with the balance.  "found": it knows the     *)
(* value that it will replace.  "pending": it wrote its row and has not    *)
(* notified.  "late": it notified, and its row is to be destroyed yet.     *)
(***************************************************************************)
FoundOn ==
  [Receita |-> [create |-> {}, edit |-> {2}, delete |-> {3}],
   Despesa |-> [create |-> {}, edit |-> {2}, delete |-> {2}]]

PendingOn ==
  [Receita |-> [create |-> {3}, edit |-> {3, 4}, delete |-> {4}],
   Despesa |-> [create |-> {4}, edit |-> {3, 4}, delete |-> {}]]

LateOn ==
  [Receita |-> [create |-> {}, edit |-> {}, delete |-> {}],
   Despesa |-> [create |-> {}, edit |-> {}, delete |-> {3, 4}]]

Stage(b, pc) ==
  IF b.table \notin Service THEN "idle"
  ELSE IF pc \in FoundOn[b.table][b.verb] THEN "found"
  ELSE IF pc \in PendingOn[b.table][b.verb] THEN "pending"
  ELSE IF pc \in LateOn[b.table][b.verb] THEN "late"
  ELSE "idle"

StageOf(r) == Stage(Ask(r), requests[r].pc)

(* Of what is not a number, nothing is counted. *)
Amount(delta) == IF delta = NaN THEN 0 ELSE delta

(***************************************************************************)
(* What a request is going to add to the balance yet for the row that it   *)
(* wrote, or has added already for the row that it will destroy.           *)
(***************************************************************************)
DueAt(stage, delta) ==
  IF stage = "pending" THEN Amount(delta) ELSE IF stage = "late" THEN -Amount(delta) ELSE 0

Due(r) == DueAt(StageOf(r), Delta(r))

Clients(w) == {r \in Received : Ask(r).carteira = w}
Dues(w) == Soma([r \in Received |-> Due(r)], Clients(w))

(* What a bag of updates is going to add to a balance. *)
AmountsIn(B) == [u \in DOMAIN B |-> B[u] * Amount(u.delta)]
UpdatesFor(B, w) == {u \in DOMAIN B : u.carteira = w}
Way(B, w) == Soma(AmountsIn(B), UpdatesFor(B, w))

(* A wallet that does not exist yet has nothing. *)
Worth(w) == IF w \in DOMAIN saldo THEN saldo[w] ELSE 0

Numbers(w) == Worth(w) # NaN /\ \A u \in UpdatesFor(updates, w) : u.delta # NaN

Booked(w) == Worth(w) + Way(updates, w) + Dues(w) = Balance(rows, w) + excess[w]

CountsUp(B) ==
  IsFiniteSet(DOMAIN B) /\ \A u \in DOMAIN B : B[u] \in Nat \ {0} /\ u.delta \in Int \cup {NaN}

Finite == IsFiniteSet(rows) /\ IsFiniteSet(Received) /\ CountsUp(updates)

SaldoInv == Finite /\ \A w \in Wallet : excess[w] # NaN => Numbers(w) /\ Booked(w)

-----------------------------------------------------------------------------
LEMMA AmountTyped ==
  ASSUME NEW delta \in Int \cup {NaN}
  PROVE  Amount(delta) \in Int /\ (delta # NaN => Amount(delta) = delta)
  BY DEF Amount

(* What each statement does to the stage of its request. *)
Steps(b, k) ==
  LET before == Stage(b, k)
      after  == Stage(b, k + 1)
      c      == CodeOf(b)[k]
  IN  /\ c \in {"carteira", "categoria", "find", "insert", "update", "destroy", "notify", "answer"}
      /\ c = "carteira" => after = before /\ before \in {"idle", "pending"}
                           /\ (before = "pending" => b.verb = "edit")
      /\ c = "categoria" => before = "idle" /\ after = "idle"
      /\ c = "find" => before = "idle" /\ after = IF b.table \in Service THEN "found" ELSE "idle"
      /\ c = "insert" => before = "idle" /\ after = IF b.table \in Service THEN "pending" ELSE "idle"
      /\ c = "update" => IF b.table \in Service THEN before = "found" /\ after = "pending"
                                                ELSE before = "idle" /\ after = "idle"
      /\ c = "destroy" =>
           /\ b.table = "Receita" => before = "found" /\ after = "pending"
           /\ b.table = "Despesa" => before = "late" /\ after = "idle"
           /\ b.table \notin Service => before = "idle" /\ after = "idle"
      /\ c = "notify" =>
           /\ b.table \in Service
           /\ IF b.table = "Despesa" /\ b.verb = "delete"
                THEN before = "found" /\ after = "late"
                ELSE before = "pending" /\ after = "idle"
           /\ ByInstalments(b) => Stage(b, k - 1) = "idle"
      /\ c = "answer" => after = before /\ before \in {"idle", "late"}

Stages(b) ==
  /\ \A pc \in Nat : pc \notin 2 .. Len(CodeOf(b)) => Stage(b, pc) = "idle"
  /\ \A k \in 1 .. Len(CodeOf(b)) : Steps(b, k)

LEMMA StagesOf ==
  ASSUME NEW b \in Asked, b.table = "Carteira" => b.verb = "create"
  PROVE  Stages(b)
<1>0. b.table \in Table \cup {"Carteira"} /\ b.verb \in {"create", "edit", "delete"}
  BY DEF Asked
<1>1. CASE b.table = "Receita" /\ b.verb = "create"
  <2>1. CodeOf(b) = <<"carteira", "insert", "notify", "answer">>
    BY <1>1 DEF CodeOf, Program, Receitas
  <2>2. /\ b.table \in Service /\ ByInstalments(b) = FALSE
        /\ \A pc \in Nat : Stage(b, pc) = IF pc \in FoundOn.Receita.create THEN "found"
                                       ELSE IF pc \in PendingOn.Receita.create THEN "pending"
                                       ELSE IF pc \in LateOn.Receita.create THEN "late" ELSE "idle"
    BY <1>1 DEF Stage, Service, ByInstalments
  <2>3. \A pc \in Nat : pc \notin 2 .. 4 => Stage(b, pc) = "idle"
    BY <2>2 DEF FoundOn, PendingOn, LateOn
  <2>4. Steps(b, 1)
    BY <1>1, <2>1, <2>2 DEF Steps, FoundOn, PendingOn, LateOn
  <2>5. Steps(b, 2)
    BY <1>1, <2>1, <2>2 DEF Steps, FoundOn, PendingOn, LateOn
  <2>6. Steps(b, 3)
    BY <1>1, <2>1, <2>2 DEF Steps, FoundOn, PendingOn, LateOn
  <2>7. Steps(b, 4)
    BY <1>1, <2>1, <2>2 DEF Steps, FoundOn, PendingOn, LateOn
  <2> QED
    BY <2>1, <2>3, <2>4, <2>5, <2>6, <2>7 DEF Stages
<1>2. CASE b.table = "Receita" /\ b.verb = "edit"
  <2>1. CodeOf(b) = <<"find", "update", "carteira", "notify", "answer">>
    BY <1>2 DEF CodeOf, Program, Receitas
  <2>2. /\ b.table \in Service /\ ByInstalments(b) = FALSE
        /\ \A pc \in Nat : Stage(b, pc) = IF pc \in FoundOn.Receita.edit THEN "found"
                                       ELSE IF pc \in PendingOn.Receita.edit THEN "pending"
                                       ELSE IF pc \in LateOn.Receita.edit THEN "late" ELSE "idle"
    BY <1>2 DEF Stage, Service, ByInstalments
  <2>3. \A pc \in Nat : pc \notin 2 .. 5 => Stage(b, pc) = "idle"
    BY <2>2 DEF FoundOn, PendingOn, LateOn
  <2>4. Steps(b, 1)
    BY <1>2, <2>1, <2>2 DEF Steps, FoundOn, PendingOn, LateOn
  <2>5. Steps(b, 2)
    BY <1>2, <2>1, <2>2 DEF Steps, FoundOn, PendingOn, LateOn
  <2>6. Steps(b, 3)
    BY <1>2, <2>1, <2>2 DEF Steps, FoundOn, PendingOn, LateOn
  <2>7. Steps(b, 4)
    BY <1>2, <2>1, <2>2 DEF Steps, FoundOn, PendingOn, LateOn
  <2>8. Steps(b, 5)
    BY <1>2, <2>1, <2>2 DEF Steps, FoundOn, PendingOn, LateOn
  <2> QED
    BY <2>1, <2>3, <2>4, <2>5, <2>6, <2>7, <2>8 DEF Stages
<1>3. CASE b.table = "Receita" /\ b.verb = "delete"
  <2>1. CodeOf(b) = <<"carteira", "find", "destroy", "notify", "answer">>
    BY <1>3 DEF CodeOf, Program, Receitas
  <2>2. /\ b.table \in Service /\ ByInstalments(b) = FALSE
        /\ \A pc \in Nat : Stage(b, pc) = IF pc \in FoundOn.Receita.delete THEN "found"
                                       ELSE IF pc \in PendingOn.Receita.delete THEN "pending"
                                       ELSE IF pc \in LateOn.Receita.delete THEN "late" ELSE "idle"
    BY <1>3 DEF Stage, Service, ByInstalments
  <2>3. \A pc \in Nat : pc \notin 2 .. 5 => Stage(b, pc) = "idle"
    BY <2>2 DEF FoundOn, PendingOn, LateOn
  <2>4. Steps(b, 1)
    BY <1>3, <2>1, <2>2 DEF Steps, FoundOn, PendingOn, LateOn
  <2>5. Steps(b, 2)
    BY <1>3, <2>1, <2>2 DEF Steps, FoundOn, PendingOn, LateOn
  <2>6. Steps(b, 3)
    BY <1>3, <2>1, <2>2 DEF Steps, FoundOn, PendingOn, LateOn
  <2>7. Steps(b, 4)
    BY <1>3, <2>1, <2>2 DEF Steps, FoundOn, PendingOn, LateOn
  <2>8. Steps(b, 5)
    BY <1>3, <2>1, <2>2 DEF Steps, FoundOn, PendingOn, LateOn
  <2> QED
    BY <2>1, <2>3, <2>4, <2>5, <2>6, <2>7, <2>8 DEF Stages
<1>4. CASE b.table = "Despesa" /\ b.verb = "create"
  <2>1. CodeOf(b) = <<"carteira", "categoria", "insert", "notify", "answer">>
    BY <1>4 DEF CodeOf, Program, Despesas
  <2>2. /\ b.table \in Service /\ ByInstalments(b) = TRUE
        /\ \A pc \in Nat : Stage(b, pc) = IF pc \in FoundOn.Despesa.create THEN "found"
                                       ELSE IF pc \in PendingOn.Despesa.create THEN "pending"
                                       ELSE IF pc \in LateOn.Despesa.create THEN "late" ELSE "idle"
    BY <1>4 DEF Stage, Service, ByInstalments
  <2>3. \A pc \in Nat : pc \notin 2 .. 5 => Stage(b, pc) = "idle"
    BY <2>2 DEF FoundOn, PendingOn, LateOn
  <2>4. Steps(b, 1)
    BY <1>4, <2>1, <2>2 DEF Steps, FoundOn, PendingOn, LateOn
  <2>5. Steps(b, 2)
    BY <1>4, <2>1, <2>2 DEF Steps, FoundOn, PendingOn, LateOn
  <2>6. Steps(b, 3)
    BY <1>4, <2>1, <2>2 DEF Steps, FoundOn, PendingOn, LateOn
  <2>7. Steps(b, 4)
    BY <1>4, <2>1, <2>2 DEF Steps, FoundOn, PendingOn, LateOn
  <2>8. Steps(b, 5)
    BY <1>4, <2>1, <2>2 DEF Steps, FoundOn, PendingOn, LateOn
  <2> QED
    BY <2>1, <2>3, <2>4, <2>5, <2>6, <2>7, <2>8 DEF Stages
<1>5. CASE b.table = "Despesa" /\ b.verb = "edit"
  <2>1. CodeOf(b) = <<"find", "update", "carteira", "notify", "answer">>
    BY <1>5 DEF CodeOf, Program, Despesas
  <2>2. /\ b.table \in Service /\ ByInstalments(b) = FALSE
        /\ \A pc \in Nat : Stage(b, pc) = IF pc \in FoundOn.Despesa.edit THEN "found"
                                       ELSE IF pc \in PendingOn.Despesa.edit THEN "pending"
                                       ELSE IF pc \in LateOn.Despesa.edit THEN "late" ELSE "idle"
    BY <1>5 DEF Stage, Service, ByInstalments
  <2>3. \A pc \in Nat : pc \notin 2 .. 5 => Stage(b, pc) = "idle"
    BY <2>2 DEF FoundOn, PendingOn, LateOn
  <2>4. Steps(b, 1)
    BY <1>5, <2>1, <2>2 DEF Steps, FoundOn, PendingOn, LateOn
  <2>5. Steps(b, 2)
    BY <1>5, <2>1, <2>2 DEF Steps, FoundOn, PendingOn, LateOn
  <2>6. Steps(b, 3)
    BY <1>5, <2>1, <2>2 DEF Steps, FoundOn, PendingOn, LateOn
  <2>7. Steps(b, 4)
    BY <1>5, <2>1, <2>2 DEF Steps, FoundOn, PendingOn, LateOn
  <2>8. Steps(b, 5)
    BY <1>5, <2>1, <2>2 DEF Steps, FoundOn, PendingOn, LateOn
  <2> QED
    BY <2>1, <2>3, <2>4, <2>5, <2>6, <2>7, <2>8 DEF Stages
<1>6. CASE b.table = "Despesa" /\ b.verb = "delete"
  <2>1. CodeOf(b) = <<"find", "notify", "answer", "destroy">>
    BY <1>6 DEF CodeOf, Program, Despesas
  <2>2. /\ b.table \in Service /\ ByInstalments(b) = FALSE
        /\ \A pc \in Nat : Stage(b, pc) = IF pc \in FoundOn.Despesa.delete THEN "found"
                                       ELSE IF pc \in PendingOn.Despesa.delete THEN "pending"
                                       ELSE IF pc \in LateOn.Despesa.delete THEN "late" ELSE "idle"
    BY <1>6 DEF Stage, Service, ByInstalments
  <2>3. \A pc \in Nat : pc \notin 2 .. 4 => Stage(b, pc) = "idle"
    BY <2>2 DEF FoundOn, PendingOn, LateOn
  <2>4. Steps(b, 1)
    BY <1>6, <2>1, <2>2 DEF Steps, FoundOn, PendingOn, LateOn
  <2>5. Steps(b, 2)
    BY <1>6, <2>1, <2>2 DEF Steps, FoundOn, PendingOn, LateOn
  <2>6. Steps(b, 3)
    BY <1>6, <2>1, <2>2 DEF Steps, FoundOn, PendingOn, LateOn
  <2>7. Steps(b, 4)
    BY <1>6, <2>1, <2>2 DEF Steps, FoundOn, PendingOn, LateOn
  <2> QED
    BY <2>1, <2>3, <2>4, <2>5, <2>6, <2>7 DEF Stages
<1>7. CASE b.table \notin Service
  <2>1. \A pc \in Nat : Stage(b, pc) = "idle"
    BY <1>7 DEF Stage
  <2>2. /\ ~ByInstalments(b)
        /\ \A k \in 1 .. Len(CodeOf(b)) : CodeOf(b)[k] \in
             {"carteira", "find", "insert", "update", "destroy", "answer"}
    <3>1. CASE b.table = "Categoria"
      BY <1>0, <3>1 DEF CodeOf, Program, Categorias, ByInstalments
    <3>2. CASE b.table = "Carteira"
      BY <3>2 DEF CodeOf, Program, ByInstalments
    <3> QED
      BY <1>0, <1>7, <3>1, <3>2 DEF Table, Service
  <2>3. b.table # "Receita" /\ b.table # "Despesa" /\ Len(CodeOf(b)) \in Nat
    BY <1>7, Shapes DEF Service, Shape
  <2> QED
    BY <1>7, <2>1, <2>2, <2>3 DEF Stages, Steps
<1> QED
  BY <1>0, <1>1, <1>2, <1>3, <1>4, <1>5, <1>6, <1>7 DEF Table, Service

-----------------------------------------------------------------------------
(* C is the bag B with n more of the update u. *)
More(B, C, u, n) ==
  /\ DOMAIN C = DOMAIN B \cup {u}
  /\ \A v \in DOMAIN B \ {u} : C[v] = B[v]
  /\ C[u] = n + IF u \in DOMAIN B THEN B[u] ELSE 0

LEMMA WayTyped ==
  ASSUME NEW B, CountsUp(B), NEW w
  PROVE  /\ IsFiniteSet(UpdatesFor(B, w)) /\ Way(B, w) \in Int
         /\ \A u \in UpdatesFor(B, w) : AmountsIn(B)[u] = B[u] * Amount(u.delta) /\ AmountsIn(B)[u] \in Int
<1>1. UpdatesFor(B, w) \in SUBSET DOMAIN B
  BY DEF UpdatesFor
<1>2. IsFiniteSet(UpdatesFor(B, w))
  BY <1>1, FiniteSubset DEF CountsUp
<1>3. \A u \in UpdatesFor(B, w) : AmountsIn(B)[u] = B[u] * Amount(u.delta) /\ AmountsIn(B)[u] \in Int
  <2> SUFFICES ASSUME NEW u \in DOMAIN B
               PROVE  AmountsIn(B)[u] = B[u] * Amount(u.delta) /\ AmountsIn(B)[u] \in Int
    BY <1>1
  <2>1. Amount(u.delta) \in Int /\ B[u] \in Int
    <3>1. u.delta \in Int \cup {NaN} /\ B[u] \in Nat
      BY DEF CountsUp
    <3>2. Amount(u.delta) \in Int
      BY <3>1, AmountTyped
    <3> QED
      BY <3>1, <3>2
  <2>2. AmountsIn(B)[u] = B[u] * Amount(u.delta)
    BY DEF AmountsIn
  <2> QED
    BY <2>1, <2>2
<1> QED
  BY <1>2, <1>3, SomaInt DEF Way

LEMMA WayMore ==
  ASSUME NEW B, CountsUp(B), NEW C, CountsUp(C), NEW u, NEW n \in Nat, More(B, C, u, n), NEW w
  PROVE  Way(C, w) = Way(B, w) + IF u.carteira = w THEN n * Amount(u.delta) ELSE 0
<1> DEFINE f == AmountsIn(B)
           g == AmountsIn(C)
           T == UpdatesFor(B, w)
           V == UpdatesFor(C, w)
           Rest == T \ {u}
<1>1. /\ IsFiniteSet(T) /\ \A v \in T : f[v] = B[v] * Amount(v.delta) /\ f[v] \in Int
      /\ IsFiniteSet(V) /\ \A v \in V : g[v] = C[v] * Amount(v.delta) /\ g[v] \in Int
      /\ Way(B, w) = Soma(f, T) /\ Way(C, w) = Soma(g, V) /\ Way(B, w) \in Int
  BY WayTyped DEF Way
<1>2. /\ Rest = V \ {u} /\ \A v \in Rest : g[v] = f[v]
      /\ V = IF u.carteira = w THEN Rest \cup {u} ELSE T
      /\ u.carteira # w => Rest = T
  BY DEF More, UpdatesFor, AmountsIn
<1>3. IsFiniteSet(Rest) /\ \A v \in Rest : f[v] \in Int /\ g[v] \in Int
  <2>1. Rest \in SUBSET T
    OBVIOUS
  <2> QED
    BY <1>1, <1>2, <2>1, FiniteSubset
<1> HIDE DEF f, g, T, V, Rest
<1>4. Soma(g, Rest) = Soma(f, Rest) /\ Soma(f, Rest) \in Int
  BY <1>2, <1>3, SomaSame, SomaInt
<1>5. CASE u.carteira # w
  <2>1. V = Rest /\ T = Rest
    BY <1>2, <1>5
  <2>2. Way(C, w) = Way(B, w)
    BY <1>1, <1>4, <2>1
  <2> QED
    BY <1>1, <1>5, <2>2
<1>6. CASE u.carteira = w
  <2>a. PICK a : a = Amount(u.delta)
    OBVIOUS
  <2>1. u \in DOMAIN C /\ a \in Int /\ C[u] \in Nat /\ u \in V /\ g[u] = C[u] * a /\ g[u] \in Int
    BY <1>1, <1>2, <1>6, <2>a, AmountTyped DEF More, CountsUp
  <2>2. Soma(g, V) = g[u] + Soma(g, Rest)
    <3>1. u \notin Rest /\ V = Rest \cup {u}
      BY <1>2, <1>6 DEF Rest
    <3> QED
      BY <1>3, <2>1, <3>1, SomaPut
  <2>3. CASE u \notin DOMAIN B
    <3>1. Rest = T /\ g[u] = n * a
      BY <2>1, <2>3 DEF Rest, T, UpdatesFor, More
    <3> QED
      BY <1>1, <1>4, <1>6, <2>a, <2>1, <2>2, <3>1
  <2>4. CASE u \in DOMAIN B
    <3>1. u \in T /\ f[u] = B[u] * a /\ B[u] \in Nat /\ f[u] \in Int
      BY <1>1, <1>6, <2>4, <2>a DEF T, UpdatesFor, CountsUp
    <3>2. Soma(f, T) = f[u] + Soma(f, Rest)
      BY <1>1, <3>1, SomaTake DEF Rest
    <3>3. g[u] = (n + B[u]) * a
      BY <2>1, <2>4 DEF More
    <3>4. (n + B[u]) * a = n * a + B[u] * a
      BY <2>1, <3>1
    <3>5. n * a \in Int
      BY <2>1
    <3> QED
      BY <1>1, <1>4, <1>6, <2>a, <2>1, <2>2, <3>1, <3>2, <3>3, <3>4, <3>5
  <2> QED
    BY <2>3, <2>4
<1> QED
  BY <1>5, <1>6

(* The three ways in which the bag changes. *)
LEMMA AddedMore ==
  ASSUME NEW B, CountsUp(B), NEW u, u.delta \in Int \cup {NaN}
  PROVE  CountsUp(BagAdd(B, u)) /\ More(B, BagAdd(B, u), u, 1)
<1> DEFINE C == BagAdd(B, u)
<1>1. /\ DOMAIN C = DOMAIN B \cup {u} /\ \A v \in DOMAIN B \ {u} : C[v] = B[v]
      /\ C[u] = 1 + IF u \in DOMAIN B THEN B[u] ELSE 0
  BY DEF BagAdd, CountsUp
<1> HIDE DEF C
<1>2. IsFiniteSet(DOMAIN C)
  <2>1. IsFiniteSet(DOMAIN B)
    BY DEF CountsUp
  <2> QED
    BY <1>1, <2>1, FiniteMore
<1> QED
  BY <1>1, <1>2 DEF CountsUp, More, C

LEMMA RemovedMore ==
  ASSUME NEW B, CountsUp(B), NEW u \in DOMAIN B
  PROVE  CountsUp(BagRemove(B, u)) /\ More(BagRemove(B, u), B, u, 1)
<1> DEFINE C == BagRemove(B, u)
<1>1. /\ B[u] \in Nat \ {0} /\ u.delta \in Int \cup {NaN}
      /\ B[u] = 1 => DOMAIN C = DOMAIN B \ {u} /\ \A v \in DOMAIN C : C[v] = B[v]
      /\ B[u] # 1 => DOMAIN C = DOMAIN B /\ C[u] = B[u] - 1 /\ \A v \in DOMAIN B \ {u} : C[v] = B[v]
  BY DEF BagRemove, CountsUp
<1> HIDE DEF C
<1>2. IsFiniteSet(DOMAIN C)
  <2>1. DOMAIN C \in SUBSET DOMAIN B
    BY <1>1
  <2> QED
    BY <2>1, FiniteSubset DEF CountsUp
<1>3. CASE B[u] = 1
  BY <1>1, <1>2, <1>3 DEF CountsUp, More, C
<1>4. CASE B[u] # 1
  <2>1. B[u] - 1 \in Nat \ {0} /\ B[u] = 1 + (B[u] - 1)
    BY <1>1, <1>4
  <2> QED
    BY <1>1, <1>2, <1>4, <2>1 DEF CountsUp, More, C
<1> QED
  BY <1>3, <1>4

LEMMA NotifiedMore ==
  ASSUME NEW B, CountsUp(B), NEW u, u.delta \in Int \cup {NaN}, NEW n \in Nat \ {0}
  PROVE  CountsUp(B (+) [v \in {u} |-> n]) /\ More(B, B (+) [v \in {u} |-> n], u, n)
<1> DEFINE C == B (+) [v \in {u} |-> n]
<1>1. /\ DOMAIN C = DOMAIN B \cup {u} /\ \A v \in DOMAIN B \ {u} : C[v] = B[v] + 0
      /\ C[u] = (IF u \in DOMAIN B THEN B[u] ELSE 0) + n
  BY DEF (+)
<1> HIDE DEF C
<1>2. IsFiniteSet(DOMAIN C)
  <2>1. IsFiniteSet(DOMAIN B)
    BY DEF CountsUp
  <2>2. IsFiniteSet(DOMAIN B \cup {u})
    BY <2>1, FiniteMore
  <2> QED
    BY <1>1, <2>2
<1> QED
  BY <1>1, <1>2 DEF CountsUp, More, C

-----------------------------------------------------------------------------
(* A step that leaves a total as it is. *)
Keeps(t, w) == Total(rows', t, w) = Total(rows, t, w)

LEMMA SameRowsKept ==
  ASSUME NEW t, NEW w, RowsOf(rows', t, w) = RowsOf(rows, t, w)
  PROVE  Keeps(t, w)
  BY DEF Keeps, Total

LEMMA RowsTyped == Inv => rows \in SUBSET Row /\ \A d, e \in rows : d.id = e.id => d = e
  BY DEF Inv, TypeOK, RowsOK

LEMMA InsertEffect ==
  ASSUME Inv, Inv', IsFiniteSet(rows), NEW b, NEW i \in Item \ used, NEW share,
         rows' = rows \cup {NewRow(b, i, share)}
  PROVE  /\ IsFiniteSet(rows')
         /\ \A t, w : t # b.table \/ w # b.carteira => Keeps(t, w)
         /\ Total(rows', b.table, b.carteira) = Total(rows, b.table, b.carteira) + share
<1> DEFINE e == NewRow(b, i, share)
           T == RowsOf(rows, b.table, b.carteira)
<1>1. /\ e.id = i /\ e.table = b.table /\ e.carteira = b.carteira /\ e.valor = share
      /\ \A d \in rows : d.id # i
  BY DEF NewRow, Inv, TypeOK, RowsOK
<1> HIDE DEF e
<1>2. rows' = rows \cup {e} /\ e \notin rows
  BY <1>1 DEF e
<1>3. IsFiniteSet(rows')
  BY <1>2, FiniteMore
<1>4. \A t, w : t # b.table \/ w # b.carteira => Keeps(t, w)
  BY <1>1, <1>2, SameRowsKept DEF RowsOf
<1>5. RowsOf(rows', b.table, b.carteira) = T \cup {e} /\ e \notin T
  BY <1>1, <1>2 DEF RowsOf
<1>6. /\ Total(rows, b.table, b.carteira) = Soma(Valor, T) /\ Soma(Valor, T) \in Int /\ IsFiniteSet(T)
      /\ \A d \in T : Valor[d] \in Int
      /\ rows \in SUBSET Row
  BY RowsTyped, TotalIs
<1>7. Total(rows', b.table, b.carteira) = Soma(Valor, T \cup {e}) /\ Valor[e] = share /\ share \in Int
  <2>1. rows' \in SUBSET Row
    BY DEF Inv, TypeOK, RowsOK
  <2> QED
    BY <1>1, <1>2, <1>3, <1>5, <2>1, TotalIs
<1> HIDE DEF T
<1>8. Soma(Valor, T \cup {e}) = share + Soma(Valor, T)
  BY <1>5, <1>6, <1>7, SomaPut
<1> QED
  BY <1>3, <1>4, <1>6, <1>7, <1>8

LEMMA UpdateEffect ==
  ASSUME Inv, Inv', IsFiniteSet(rows), NEW b \in Asked, NEW d \in Named(rows, b),
         rows' = Edited(rows, b)
  PROVE  /\ IsFiniteSet(rows')
         /\ \A t, w : t # b.table \/ w # b.carteira => Keeps(t, w)
         /\ Total(rows', b.table, b.carteira) = Total(rows, b.table, b.carteira)
              + IF Sets(b, "valor") THEN b.valor - d.valor ELSE 0
         /\ d.valor \in Int /\ b.valor \in Int
<1> DEFINE e == EditedRow(d, b)
           v == IF Sets(b, "valor") THEN b.valor ELSE d.valor
           T == RowsOf(rows, b.table, b.carteira)
           Rest == T \ {d}
<1>d. /\ d \in T /\ d \in rows /\ d.table = b.table /\ d.carteira = b.carteira
      /\ Named(rows, b) = {d} /\ d \in Row
  BY RowsTyped DEF Named, RowsOf
<1>1. /\ e.id = d.id /\ e.table = b.table /\ e.carteira = b.carteira /\ e.valor = v
      /\ d \in T /\ d \in rows /\ d.table = b.table /\ d.carteira = b.carteira
      /\ Named(rows, b) = {d}
  BY <1>d, EditedRowIs
<1>2. rows' = (rows \ {d}) \cup {e}
  BY <1>1 DEF Edited
<1> HIDE DEF e
<1>3. IsFiniteSet(rows')
  <2>1. IsFiniteSet(rows \ {d})
    BY FiniteSubset
  <2> QED
    BY <1>2, <2>1, FiniteMore
<1>4. \A t, w : t # b.table \/ w # b.carteira => Keeps(t, w)
  BY <1>1, <1>2, SameRowsKept DEF RowsOf
<1>5. RowsOf(rows', b.table, b.carteira) = Rest \cup {e} /\ e \notin Rest
  BY <1>1, <1>2, RowsTyped DEF RowsOf
<1>6. /\ Total(rows, b.table, b.carteira) = Soma(Valor, T) /\ IsFiniteSet(T)
      /\ \A c \in T : Valor[c] \in Int
      /\ Valor[d] = d.valor /\ d.valor \in Int
  BY <1>1, RowsTyped, TotalIs
<1>7. Total(rows', b.table, b.carteira) = Soma(Valor, Rest \cup {e}) /\ Valor[e] = v /\ v \in Int
  <2>1. rows' \in SUBSET Row /\ e \in rows'
    BY <1>2 DEF Inv, TypeOK, RowsOK
  <2>2. Total(rows', b.table, b.carteira) = Soma(Valor, RowsOf(rows', b.table, b.carteira))
    BY <1>3, <2>1, TotalIs
  <2>3. Valor[e] = e.valor /\ e.valor \in Int
    BY <1>3, <2>1, TotalIs
  <2> QED
    BY <1>1, <1>5, <2>2, <2>3
<1> HIDE DEF T
<1>8. IsFiniteSet(Rest) /\ (\A c \in Rest : Valor[c] \in Int) /\ Soma(Valor, Rest) \in Int
  BY <1>6, FiniteSubset, SomaInt
<1>9. Soma(Valor, T) = d.valor + Soma(Valor, Rest)
  BY <1>1, <1>6, SomaTake
<1> HIDE DEF Rest, v
<1>10. Soma(Valor, Rest \cup {e}) = v + Soma(Valor, Rest)
  <2>1. e \notin Rest /\ Valor[e] = v /\ v \in Int
    BY <1>5, <1>7
  <2>2. IsFiniteSet(Rest) /\ \A c \in Rest : Valor[c] \in Int
    BY <1>8
  <2>3. Soma(Valor, Rest \cup {e}) = Valor[e] + Soma(Valor, Rest)
    BY ONLY <2>1, <2>2, SomaPut
  <2> QED
    BY <2>1, <2>3
<1>11. b.valor \in Int
  BY DEF Asked
<1> USE DEF v
<1> QED
  BY <1>3, <1>4, <1>6, <1>7, <1>8, <1>9, <1>10, <1>11

LEMMA DestroyEffect ==
  ASSUME Inv, Inv', IsFiniteSet(rows), NEW b, rows' = Without(rows, Named(rows, b))
  PROVE  /\ IsFiniteSet(rows')
         /\ \A t, w : t # b.table \/ w # b.carteira => Keeps(t, w)
         /\ \A d \in Named(rows, b) :
              d.valor \in Int /\
              Total(rows', b.table, b.carteira) = Total(rows, b.table, b.carteira) - d.valor
<1> DEFINE D == Named(rows, b)
           g == [d \in rows |-> [d EXCEPT !.categoria =
                   IF \E c \in D : c.table = "Categoria" /\ c.id = @ THEN Null ELSE @]]
<1>1. \A d \in rows : /\ g[d].id = d.id /\ g[d].table = d.table /\ g[d].carteira = d.carteira
                      /\ g[d].valor = d.valor /\ d.valor \in Int
                      /\ g[d] \in Row
  BY RowsTyped DEF Row
<1>2. rows' = {g[d] : d \in rows \ D}
  BY DEF Without
<1>3. D \subseteq RowsOf(rows, b.table, b.carteira) /\ D \subseteq rows /\ \A c, d \in D : c = d
  BY RowsTyped DEF Named, RowsOf
<1> HIDE DEF D, g
<1>4. IsFiniteSet(rows')
  <2>1. IsFiniteSet(rows \ D)
    BY FiniteSubset
  <2>2. IsFiniteSet({g[d] : d \in rows \ D})
    BY <2>1, FiniteImage
  <2> QED
    BY <1>2, <2>2
<1>5. \A t, w : RowsOf(rows', t, w) = {g[d] : d \in RowsOf(rows, t, w) \ D}
  BY <1>1, <1>2 DEF RowsOf
<1>6. ASSUME NEW t, NEW w
      PROVE  Total(rows', t, w) = Soma(Valor, RowsOf(rows, t, w) \ D)
  <2> DEFINE T == RowsOf(rows, t, w) \ D
  <2>1. T \subseteq rows
    BY DEF RowsOf
  <2>2. IsFiniteSet(T)
    BY <2>1, FiniteSubset
  <2>3. Total(rows', t, w) = Soma(Valor, {g[d] : d \in T})
    <3>1. rows' \in SUBSET Row
      BY DEF Inv, TypeOK, RowsOK
    <3>2. Total(rows', t, w) = Soma(Valor, RowsOf(rows', t, w))
      BY <1>4, <3>1, TotalIs
    <3> QED
      BY <1>5, <3>2
  <2>4. \A d \in T : Valor[d] \in Int /\ Valor[g[d]] = Valor[d]
    BY <1>1, <2>1, RowsTyped DEF Valor
  <2>5. \A c, d \in T : g[c] = g[d] => c = d
    BY <1>1, <2>1, RowsTyped
  <2> HIDE DEF T
  <2>6. Soma(Valor, {g[d] : d \in T}) = Soma(Valor, T)
    BY <2>2, <2>4, <2>5, SomaImage
  <2> QED
    BY <2>3, <2>6 DEF T
<1>7. ASSUME NEW t, NEW w, t # b.table \/ w # b.carteira
      PROVE  Keeps(t, w)
  <2>1. RowsOf(rows, t, w) \ D = RowsOf(rows, t, w)
    BY <1>3, <1>7 DEF RowsOf
  <2> QED
    BY <1>6, <2>1, RowsTyped, TotalIs DEF Keeps
<1>8. ASSUME NEW d \in D
      PROVE  /\ d.valor \in Int
             /\ Total(rows', b.table, b.carteira) = Total(rows, b.table, b.carteira) - d.valor
  <2> DEFINE T == RowsOf(rows, b.table, b.carteira)
  <2>1. D = {d} /\ d \in T
    BY <1>3
  <2>2. Total(rows', b.table, b.carteira) = Soma(Valor, T \ {d})
    BY <1>6, <2>1
  <2>3. /\ Total(rows, b.table, b.carteira) = Soma(Valor, T) /\ IsFiniteSet(T)
        /\ \A c \in T : Valor[c] \in Int
        /\ Valor[d] = d.valor /\ d.valor \in Int
    BY <2>1, RowsTyped, TotalIs
  <2> HIDE DEF T
  <2>4. Soma(Valor, T) = d.valor + Soma(Valor, T \ {d})
    BY <2>1, <2>3, SomaTake
  <2>5. Soma(Valor, T \ {d}) \in Int
    BY <2>3, FiniteSubset, SomaInt
  <2> QED
    BY <2>2, <2>3, <2>4, <2>5
<1> QED
  BY <1>4, <1>7, <1>8 DEF D

-----------------------------------------------------------------------------
(* What a step does to the dues: only what it does to its own request. *)
LEMMA DeltaNumber ==
  ASSUME Inv, NEW r \in Received
  PROVE  /\ Delta(r) \in Int \cup {NaN} /\ Amount(Delta(r)) \in Int /\ Due(r) \in Int
         /\ Delta(r) # NaN => Amount(Delta(r)) = Delta(r)
         /\ requests[r].old \in Int
<1>1. RequestOK(r)
  BY DEF Inv, TypeOK
<1>2. Delta(r) \in Int \cup {NaN} /\ requests[r].old \in Int
  BY <1>1, DeltaTyped DEF RequestOK
<1>3. Amount(Delta(r)) \in Int /\ (Delta(r) # NaN => Amount(Delta(r)) = Delta(r))
  BY <1>2, AmountTyped
<1> QED
  BY <1>2, <1>3 DEF Due, DueAt

LEMMA SameDue ==
  ASSUME NEW q, Ask(q)' = Ask(q), requests'[q].old = requests[q].old
  PROVE  Delta(q)' = Delta(q) /\ (StageOf(q)' = StageOf(q) => Due(q)' = Due(q))
<1>1. Delta(q)' = Delta(q)
  BY DEF Delta, WithoutValor
<1> QED
  BY <1>1 DEF Due

LEMMA OthersDue ==
  ASSUME NEW q, requests'[q] = requests[q]
  PROVE  Due(q)' = Due(q) /\ Ask(q)' = Ask(q)
<1>1. Ask(q)' = Ask(q) /\ StageOf(q)' = StageOf(q)
  BY DEF Ask, StageOf
<1> QED
  BY <1>1, SameDue

LEMMA DuesTyped ==
  ASSUME Inv, Finite, NEW w
  PROVE  /\ IsFiniteSet(Clients(w)) /\ Dues(w) \in Int
         /\ \A r \in Clients(w) : [q \in Received |-> Due(q)][r] = Due(r)
         /\ \A r \in Clients(w) : Due(r) \in Int
<1>1. Clients(w) \subseteq Received
  BY DEF Clients
<1>2. IsFiniteSet(Clients(w))
  BY <1>1, FiniteSubset DEF Finite
<1>3. \A r \in Clients(w) : Due(r) \in Int /\ [q \in Received |-> Due(q)][r] = Due(r)
  BY <1>1, DeltaNumber
<1> QED
  BY <1>2, <1>3, SomaInt DEF Dues

LEMMA DuesStep ==
  ASSUME Inv, Finite, NEW r \in Received, Received' = Received, Ask(r)' = Ask(r),
         \A q \in Received \ {r} : requests'[q] = requests[q], Due(r)' \in Int, NEW w
  PROVE  /\ Due(r) \in Int /\ Dues(w) \in Int
         /\ Dues(w)' = Dues(w) + IF Ask(r).carteira = w THEN Due(r)' - Due(r) ELSE 0
<1> DEFINE f == [q \in Received |-> Due(q)]
           g == [q \in Received |-> Due(q)']
           T == Clients(w)
           Rest == T \ {r}
<1>1. \A q \in Received : Ask(q)' = Ask(q)
  BY OthersDue
<1>2. Clients(w)' = T
  BY <1>1 DEF Clients
<1>3. Dues(w)' = Soma(g, T) /\ Dues(w) = Soma(f, T)
  BY <1>2 DEF Dues
<1>4. Due(r) \in Int /\ Dues(w) \in Int
  BY DeltaNumber, DuesTyped
<1>5. /\ IsFiniteSet(T) /\ T \subseteq Received
      /\ \A q \in T : f[q] = Due(q) /\ f[q] \in Int
      /\ \A q \in T \ {r} : g[q] = f[q]
      /\ r \in T => g[r] = Due(r)'
  BY DuesTyped, OthersDue DEF Clients
<1>6. r \in T <=> Ask(r).carteira = w
  BY DEF Clients
<1> HIDE DEF f, g, T
<1>7. IsFiniteSet(Rest) /\ \A q \in Rest : g[q] = f[q]
  <2>1. Rest \subseteq T
    OBVIOUS
  <2> QED
    BY <1>5, <2>1, FiniteSubset
<1>8. Soma(g, Rest) = Soma(f, Rest)
  BY <1>7, SomaSame
<1>9. CASE r \notin T
  <2>1. Rest = T
    BY <1>9
  <2>2. Soma(g, T) = Soma(f, T)
    BY <1>8, <2>1
  <2>3. Dues(w)' = Dues(w) /\ Ask(r).carteira # w
    BY <1>3, <1>6, <1>9, <2>2
  <2> QED
    BY <1>4, <2>3
<1>10. CASE r \in T
  <2>1. Soma(f, T) = f[r] + Soma(f, Rest)
    BY <1>5, <1>10, SomaTake
  <2>2. Soma(g, T) = g[r] + Soma(g, Rest)
    <3>1. \A q \in T : g[q] \in Int
      BY <1>4, <1>5
    <3> QED
      BY <1>5, <1>10, <3>1, SomaTake
  <2>3. f[r] = Due(r) /\ g[r] = Due(r)'
    BY <1>5, <1>10
  <2>4. Soma(f, Rest) \in Int
    <3>1. \A q \in Rest : f[q] \in Int
      BY <1>5
    <3> QED
      BY <1>7, <3>1, SomaInt
  <2> QED
    BY <1>3, <1>4, <1>6, <1>8, <1>10, <2>1, <2>2, <2>3, <2>4
<1> QED
  BY <1>4, <1>9, <1>10

LEMMA BagOf == \A B : BagToSet(B) = DOMAIN B
  BY DEF BagToSet

LEMMA AllTyped ==
  ASSUME Inv, Finite, NEW w \in Wallet
  PROVE  /\ Way(updates, w) \in Int /\ Dues(w) \in Int /\ Balance(rows, w) \in Int
         /\ excess[w] \in Int \cup {NaN}
         /\ Worth(w) # NaN => Worth(w) \in Int
         /\ \A t : Total(rows, t, w) \in Int
<1>1. Way(updates, w) \in Int
  BY WayTyped DEF Finite
<1>2. \A t : Total(rows, t, w) \in Int
  BY RowsTyped, TotalIs DEF Finite
<1>3. Balance(rows, w) \in Int
  BY <1>2 DEF Balance
<1>4. Worth(w) # NaN => Worth(w) \in Int
  BY DEF Worth, Inv, TypeOK
<1>5. excess[w] \in Int \cup {NaN}
  BY DEF Inv, TypeOK
<1> QED
  BY <1>1, <1>2, <1>3, <1>4, <1>5, DuesTyped

(***************************************************************************)
(* A step on one request keeps the books if what it changes for the wallet *)
(* of that request is balanced, and for every other wallet nothing.        *)
(***************************************************************************)
Balanced(r, w) ==
  Way(updates', w) + Due(r)' + Balance(rows, w) + excess[w]
    = Way(updates, w) + Due(r) + Balance(rows', w) + excess'[w]

NoNew(w) == \A u \in UpdatesFor(updates', w) : u \in UpdatesFor(updates, w) \/ u.delta # NaN

LEMMA RequestStep ==
  ASSUME Inv, Inv', SaldoInv, Finite', NEW r \in Received, Received' = Received, Ask(r)' = Ask(r),
         \A q \in Received \ {r} : requests'[q] = requests[q], Due(r)' \in Int,
         \A w \in Wallet : Worth(w)' = Worth(w),
         \A w \in Wallet : w # Ask(r).carteira =>
           /\ excess'[w] = excess[w] /\ Balance(rows', w) = Balance(rows, w)
           /\ Way(updates', w) = Way(updates, w) /\ NoNew(w),
         \A w \in Wallet : w = Ask(r).carteira /\ excess'[w] # NaN =>
           excess[w] # NaN /\ NoNew(w) /\ Balanced(r, w)
  PROVE  SaldoInv'
<1> SUFFICES ASSUME NEW w \in Wallet, excess'[w] # NaN PROVE Numbers(w)' /\ Booked(w)'
  BY DEF SaldoInv
<1>1. excess[w] # NaN /\ NoNew(w)
  OBVIOUS
<1>2. Numbers(w) /\ Booked(w) /\ Finite
  BY <1>1 DEF SaldoInv
<1>3. Numbers(w)'
  BY <1>1, <1>2 DEF Numbers, NoNew
<1>4. /\ Due(r) \in Int /\ Dues(w) \in Int
      /\ Dues(w)' = Dues(w) + IF Ask(r).carteira = w THEN Due(r)' - Due(r) ELSE 0
  BY <1>2, DuesStep
<1>5. /\ Way(updates, w) \in Int /\ Balance(rows, w) \in Int /\ excess[w] \in Int
      /\ Worth(w) \in Int /\ Worth(w)' = Worth(w)
  BY <1>1, <1>2, AllTyped DEF Numbers
<1>6. /\ Way(updates', w) \in Int /\ Balance(rows', w) \in Int /\ excess'[w] \in Int
  <2>1. Way(updates', w) \in Int
    BY WayTyped DEF Finite
  <2>2. rows' \in SUBSET Row /\ excess'[w] \in Int
    BY DEF Inv, TypeOK, RowsOK
  <2>3. Balance(rows', w) \in Int
    BY <2>2, BalanceTyped DEF Finite
  <2> QED
    BY <2>1, <2>2, <2>3
<1>7. Worth(w) + Way(updates, w) + Dues(w) = Balance(rows, w) + excess[w]
  BY <1>2 DEF Booked
<1>8. Worth(w) + Way(updates', w) + Dues(w)' = Balance(rows', w) + excess'[w]
  <2>1. CASE w # Ask(r).carteira
    BY <1>4, <1>7, <2>1
  <2>2. CASE w = Ask(r).carteira
    <3>1. Way(updates', w) + Due(r)' + Balance(rows, w) + excess[w]
            = Way(updates, w) + Due(r) + Balance(rows', w) + excess'[w]
      BY <2>2 DEF Balanced
    <3>2. Dues(w)' = Dues(w) + (Due(r)' - Due(r))
      BY <1>4, <2>2
    <3> QED
      BY <1>4, <1>5, <1>6, <1>7, <3>1, <3>2
  <2> QED
    BY <2>1, <2>2
<1>9. Booked(w)'
  BY <1>5, <1>8 DEF Booked
<1> QED
  BY <1>3, <1>9

-----------------------------------------------------------------------------
(* A step on one request, by the statement it is at. *)
LEMMA Typed ==
  ASSUME Inv, NEW r \in Received
  PROVE  /\ RequestOK(r) /\ Ask(r) \in Asked /\ Stages(Ask(r)) /\ requests[r].pc \in Nat
         /\ Code(r) = CodeOf(Ask(r))
         /\ Running(r) <=> requests[r].pc \in 1 .. Len(CodeOf(Ask(r)))
         /\ StageOf(r) # "idle" => Running(r)
         /\ Len(CodeOf(Ask(r))) \in 2 .. 5
<1>1. RequestOK(r)
  BY DEF Inv, TypeOK
<1>2. /\ Ask(r) \in Asked /\ Code(r) = CodeOf(Ask(r)) /\ Shape(Ask(r))
      /\ Ask(r).table = "Carteira" => Ask(r).verb = "create"
  BY <1>1, AskOK
<1>3. Stages(Ask(r)) /\ requests[r].pc \in Nat
  BY <1>1, <1>2, StagesOf DEF RequestOK
<1>4. /\ Running(r) <=> requests[r].pc \in 1 .. Len(CodeOf(Ask(r)))
      /\ Len(CodeOf(Ask(r))) \in 2 .. 5
  BY <1>2 DEF Running, Shape
<1>5. StageOf(r) # "idle" => Running(r)
  BY <1>3, <1>4 DEF Stages, StageOf
<1> QED
  BY <1>1, <1>2, <1>3, <1>4, <1>5

LEMMA StageAt ==
  ASSUME Inv, NEW r, NEW statement, At(r, statement)
  PROVE  /\ r \in Received /\ Ask(r) \in Asked
         /\ Steps(Ask(r), requests[r].pc) /\ CodeOf(Ask(r))[requests[r].pc] = statement
         /\ StageOf(r) = Stage(Ask(r), requests[r].pc)
  BY Typed DEF At, Stages, StageOf

(* A step that moves one request on by a statement. *)
MovesOn(r) ==
  /\ r \in Received /\ Received' = Received /\ \A q \in Received \ {r} : requests'[q] = requests[q]
  /\ requests'[r].body = requests[r].body /\ requests'[r].pc = requests[r].pc + 1

LEMMA StageMoves ==
  ASSUME NEW r, MovesOn(r)
  PROVE  /\ Ask(r)' = Ask(r) /\ StageOf(r)' = Stage(Ask(r), requests[r].pc + 1)
  BY DEF MovesOn, Ask, StageOf

LEMMA AdvanceMoves ==
  ASSUME Inv, NEW r \in Received, Advance(r)
  PROVE  MovesOn(r) /\ requests'[r].old = requests[r].old
  BY Typed, Advances DEF MovesOn

LEMMA WrittenMoves ==
  ASSUME Inv, NEW r \in Received, Written(r)
  PROVE  MovesOn(r) /\ requests'[r].old = requests[r].old
<1>1. requests[r] \in [body : Body, pc : Nat, old : Int, made : Nat,
                       answer : {"none", "ok", "error"}]
  BY DEF Inv, TypeOK, RequestOK
<1> DEFINE moved == [requests[r] EXCEPT !.pc = @ + 1]
<1>2. /\ moved.pc = requests[r].pc + 1 /\ moved.body = requests[r].body
      /\ moved.old = requests[r].old
      /\ moved \in [body : Body, pc : Nat, old : Int, made : Nat, answer : {"none", "ok", "error"}]
  BY <1>1
<1>3. requests'[r] = [moved EXCEPT !.made = @ + 1]
  BY DEF Written, Received
<1> HIDE DEF moved
<1>4. requests'[r].pc = moved.pc /\ requests'[r].body = moved.body /\ requests'[r].old = moved.old
  BY <1>2, <1>3
<1> QED
  BY <1>2, <1>4, WrittenFrame DEF MovesOn

-----------------------------------------------------------------------------
(* What is booked, and on whom. *)
LEMMA Booking ==
  ASSUME Inv, NEW w \in Wallet, NEW amount \in Int \cup {NaN}, Book(w, amount)
  PROVE  /\ \A v \in Wallet : v # w => excess'[v] = excess[v]
         /\ excess'[w] # NaN =>
              /\ excess[w] # NaN /\ excess[w] \in Int /\ amount \in Int /\ amount # NaN
              /\ excess'[w] = excess[w] + amount
<1>1. excess \in [Wallet -> Int \cup {NaN}] /\ excess[w] \in Int \cup {NaN}
  BY DEF Inv, TypeOK
<1>2. /\ excess'[w] = Plus(excess[w], amount)
      /\ \A v \in Wallet : v # w => excess'[v] = excess[v]
  BY <1>1 DEF Book
<1>3. ASSUME Plus(excess[w], amount) # NaN
      PROVE  excess[w] # NaN /\ amount # NaN /\ Plus(excess[w], amount) = excess[w] + amount
  BY <1>1, <1>3, PlusTyped
<1> QED
  BY <1>1, <1>2, <1>3

LEMMA Disturbing ==
  ASSUME Inv, NEW w \in Wallet, NEW accident \in BOOLEAN, Disturb(accident, w)
  PROVE  /\ \A v \in Wallet : v # w => excess'[v] = excess[v]
         /\ excess'[w] # NaN => ~accident /\ excess[w] # NaN /\ excess'[w] = excess[w]
<1> DEFINE amount == IF accident THEN NaN ELSE 0
<1>1. amount \in Int \cup {NaN} /\ (amount # NaN => ~accident /\ amount = 0)
  OBVIOUS
<1>2. Book(w, amount)
  BY DEF Disturb
<1> HIDE DEF amount
<1>3. /\ \A v \in Wallet : v # w => excess'[v] = excess[v]
      /\ excess'[w] # NaN =>
           /\ excess[w] # NaN /\ excess[w] \in Int /\ amount \in Int /\ amount # NaN
           /\ excess'[w] = excess[w] + amount
  BY <1>1, <1>2, Booking
<1> QED
  BY <1>1, <1>3

LEMMA SameWorth ==
  ASSUME UNCHANGED saldo
  PROVE  \A w : Worth(w)' = Worth(w)
  BY DEF Worth

(* Steps that leave the balances, the rows and the updates alone. *)
LEMMA QuietStep ==
  ASSUME Inv, Inv', SaldoInv, NEW r \in Received, Received' = Received, Ask(r)' = Ask(r),
         \A q \in Received \ {r} : requests'[q] = requests[q], Due(r)' \in Int,
         UNCHANGED <<saldo, rows, updates>>,
         \A w \in Wallet : w # Ask(r).carteira => excess'[w] = excess[w],
         \A w \in Wallet : w = Ask(r).carteira /\ excess'[w] # NaN =>
           excess[w] # NaN /\ excess'[w] = excess[w] /\ Due(r)' = Due(r)
  PROVE  SaldoInv'
<1>1. Finite'
  BY DEF SaldoInv, Finite
<1>2. \A w \in Wallet : /\ Worth(w)' = Worth(w) /\ NoNew(w)
                        /\ Balance(rows', w) = Balance(rows, w)
                        /\ Way(updates', w) = Way(updates, w)
  BY SameWorth DEF NoNew
<1>3. \A w \in Wallet : w = Ask(r).carteira /\ excess'[w] # NaN => Balanced(r, w)
  BY <1>2 DEF Balanced
<1> QED
  BY <1>1, <1>2, <1>3, RequestStep

LEMMA LookupSaldo ==
  ASSUME Inv, Inv', SaldoInv, NEW r \in Request, FindCarteira(r) \/ FindCategoria(r)
  PROVE  SaldoInv'
<1>1. PICK statement \in {"carteira", "categoria"} : At(r, statement)
  BY DEF FindCarteira, FindCategoria
<1>2. Advance(r) /\ UNCHANGED <<saldo, rows, updates, excess>> /\ r \in Received
  BY DEF FindCarteira, FindCategoria, At
<1>3. MovesOn(r) /\ requests'[r].old = requests[r].old
  BY <1>2, AdvanceMoves
<1>4. Ask(r)' = Ask(r) /\ StageOf(r)' = StageOf(r)
  BY <1>1, <1>3, StageAt, StageMoves DEF Steps
<1>5. Due(r)' = Due(r) /\ Due(r) \in Int
  BY <1>2, <1>3, <1>4, SameDue, DeltaNumber
<1> QED
  BY <1>2, <1>3, <1>4, <1>5, QuietStep DEF MovesOn

LEMMA AnswerSaldo ==
  ASSUME Inv, Inv', SaldoInv, NEW r \in Request, Answer(r)
  PROVE  SaldoInv'
<1>1. /\ At(r, "answer") /\ r \in Received
      /\ requests' = [requests EXCEPT ![r].pc = @ + 1, ![r].answer = "ok"]
      /\ UNCHANGED <<saldo, rows, updates, excess>>
  BY DEF Answer, At
<1>2. MovesOn(r) /\ requests'[r].old = requests[r].old
  <2>1. requests[r] \in [body : Body, pc : Nat, old : Int, made : Nat,
                         answer : {"none", "ok", "error"}]
    BY <1>1 DEF Inv, TypeOK, RequestOK
  <2> DEFINE moved == [requests[r] EXCEPT !.pc = @ + 1]
  <2>2. /\ moved.pc = requests[r].pc + 1 /\ moved.body = requests[r].body
        /\ moved.old = requests[r].old
        /\ moved \in [body : Body, pc : Nat, old : Int, made : Nat, answer : {"none", "ok", "error"}]
    BY <2>1
  <2>3. requests'[r] = [moved EXCEPT !.answer = "ok"]
    BY <1>1 DEF Received
  <2> HIDE DEF moved
  <2>4. requests'[r].pc = moved.pc /\ requests'[r].body = moved.body /\ requests'[r].old = moved.old
    BY <2>2, <2>3
  <2>5. Received' = Received /\ \A q \in Received \ {r} : requests'[q] = requests[q]
    BY <1>1 DEF Received
  <2> QED
    BY <1>1, <2>2, <2>4, <2>5 DEF MovesOn
<1>3. Ask(r)' = Ask(r) /\ StageOf(r)' = StageOf(r)
  BY <1>1, <1>2, StageAt, StageMoves DEF Steps
<1>4. Due(r)' = Due(r) /\ Due(r) \in Int
  BY <1>1, <1>2, <1>3, SameDue, DeltaNumber
<1> QED
  BY <1>1, <1>2, <1>3, <1>4, QuietStep DEF MovesOn

LEMMA FindSaldo ==
  ASSUME Inv, Inv', SaldoInv, NEW r \in Request, Find(r)
  PROVE  SaldoInv'
<1>1. At(r, "find") /\ r \in Received /\ UNCHANGED <<saldo, rows, updates, excess>>
  BY DEF Find, At
<1>2. PICK d \in Named(rows, Ask(r)) :
        requests' = [requests EXCEPT ![r].pc = @ + 1, ![r].old = d.valor]
  BY DEF Find
<1>3. MovesOn(r)
  <2>1. requests[r] \in [body : Body, pc : Nat, old : Int, made : Nat,
                         answer : {"none", "ok", "error"}]
    BY <1>1 DEF Inv, TypeOK, RequestOK
  <2> DEFINE moved == [requests[r] EXCEPT !.pc = @ + 1]
  <2>2. /\ moved.pc = requests[r].pc + 1 /\ moved.body = requests[r].body
        /\ moved \in [body : Body, pc : Nat, old : Int, made : Nat, answer : {"none", "ok", "error"}]
    BY <2>1
  <2>3. requests'[r] = [moved EXCEPT !.old = d.valor]
    BY <1>1, <1>2 DEF Received
  <2> HIDE DEF moved
  <2>4. requests'[r].pc = moved.pc /\ requests'[r].body = moved.body
    BY <2>2, <2>3
  <2>5. Received' = Received /\ \A q \in Received \ {r} : requests'[q] = requests[q]
    BY <1>2 DEF Received
  <2> QED
    BY <1>1, <2>2, <2>4, <2>5 DEF MovesOn
<1>4. Ask(r)' = Ask(r) /\ StageOf(r) = "idle" /\ StageOf(r)' \in {"idle", "found"}
  BY <1>1, <1>3, StageAt, StageMoves DEF Steps
<1>5. Due(r)' = 0 /\ Due(r) = 0
  BY <1>4 DEF Due, DueAt
<1> QED
  BY <1>1, <1>3, <1>4, <1>5, QuietStep DEF MovesOn

LEMMA RejectSaldo ==
  ASSUME Inv, Inv', SaldoInv, NEW r \in Request, Reject(r)
  PROVE  SaldoInv'
<1> DEFINE says == IF requests[r].answer = "ok" \/ Code(r) = Despesas.create THEN "ok" ELSE "error"
           accident == \/ At(r, "carteira") /\ Ask(r).verb = "edit"
                       \/ At(r, "destroy") /\ Ask(r).table = "Despesa"
<1>1. /\ r \in Received /\ Running(r) /\ ~At(r, "notify") /\ ~At(r, "answer")
      /\ requests' = [requests EXCEPT ![r].pc = 0, ![r].answer = says]
      /\ Disturb(accident, Ask(r).carteira)
      /\ UNCHANGED <<saldo, rows, updates>>
  BY DEF Reject
<1>2. /\ Received' = Received /\ (\A q \in Received \ {r} : requests'[q] = requests[q])
      /\ requests'[r].pc = 0 /\ requests'[r].body = requests[r].body
  <2>1. requests[r] \in [body : Body, pc : Nat, old : Int, made : Nat,
                         answer : {"none", "ok", "error"}]
    BY <1>1 DEF Inv, TypeOK, RequestOK
  <2> DEFINE moved == [requests[r] EXCEPT !.pc = 0]
  <2>2. /\ moved.pc = 0 /\ moved.body = requests[r].body
        /\ moved \in [body : Body, pc : Nat, old : Int, made : Nat, answer : {"none", "ok", "error"}]
    BY <2>1
  <2>3. requests'[r] = [moved EXCEPT !.answer = says]
    BY <1>1 DEF Received
  <2> HIDE DEF moved, says
  <2>4. requests'[r].pc = moved.pc /\ requests'[r].body = moved.body
    BY <2>2, <2>3
  <2>5. Received' = Received /\ \A q \in Received \ {r} : requests'[q] = requests[q]
    BY <1>1 DEF Received
  <2> QED
    BY <2>2, <2>4, <2>5
<1>3. Ask(r)' = Ask(r) /\ StageOf(r)' = "idle"
  <2>1. Ask(r)' = Ask(r)
    BY <1>2 DEF Ask
  <2>2. Stage(Ask(r), 0) = "idle"
    BY <1>1, Typed DEF Stages
  <2> QED
    BY <1>2, <2>1, <2>2 DEF StageOf
<1>4. Due(r)' = 0
  BY <1>3 DEF Due, DueAt
<1>5. ~accident => StageOf(r) \in {"idle", "found"}
  <2> SUFFICES ASSUME ~accident PROVE StageOf(r) \in {"idle", "found"}
    OBVIOUS
  <2>1. PICK statement : statement = Code(r)[requests[r].pc]
    OBVIOUS
  <2>2. At(r, statement) /\ statement # "notify" /\ statement # "answer"
    BY <1>1, <2>1 DEF At
  <2>3. /\ ~(statement = "carteira" /\ Ask(r).verb = "edit")
        /\ ~(statement = "destroy" /\ Ask(r).table = "Despesa")
    BY <2>2
  <2>4. Steps(Ask(r), requests[r].pc) /\ CodeOf(Ask(r))[requests[r].pc] = statement
        /\ StageOf(r) = Stage(Ask(r), requests[r].pc)
    BY <2>2, StageAt
  <2> QED
    BY <2>2, <2>3, <2>4 DEF Steps, Service
<1>6. ~accident => Due(r)' = Due(r)
  BY <1>4, <1>5 DEF Due, DueAt
<1>7. accident \in BOOLEAN /\ Ask(r).carteira \in Wallet
  BY <1>1, Typed, AskOK DEF At
<1> HIDE DEF accident
<1>8. /\ \A w \in Wallet : w # Ask(r).carteira => excess'[w] = excess[w]
      /\ \A w \in Wallet : w = Ask(r).carteira /\ excess'[w] # NaN =>
           excess[w] # NaN /\ excess'[w] = excess[w] /\ Due(r)' = Due(r)
  BY <1>1, <1>6, <1>7, Disturbing
<1>9. Due(r)' \in Int /\ r \in Received /\ UNCHANGED <<saldo, rows, updates>>
  BY <1>1, <1>4
<1> QED
  BY <1>2, <1>3, <1>8, <1>9, QuietStep

(* A new wallet has nothing, as before. *)
LEMMA CreateCarteiraSaldo ==
  ASSUME Inv, Inv', SaldoInv, NEW r \in Request, CreateCarteira(r)
  PROVE  SaldoInv'
<1>1. /\ At(r, "insert") /\ Ask(r).table = "Carteira" /\ Ask(r).carteira \notin DOMAIN saldo
      /\ saldo' = With(saldo, Ask(r).carteira, 0) /\ Advance(r)
      /\ UNCHANGED <<rows, updates, excess>> /\ r \in Received
  BY DEF CreateCarteira, At
<1>2. \A w \in Wallet : Worth(w)' = Worth(w)
  BY <1>1 DEF With, Worth
<1>3. MovesOn(r) /\ requests'[r].old = requests[r].old
  BY <1>1, AdvanceMoves
<1>4. Ask(r)' = Ask(r) /\ StageOf(r) = "idle" /\ StageOf(r)' = "idle"
  BY <1>1, <1>3, StageAt, StageMoves DEF Steps, Service
<1>5. Due(r)' = 0 /\ Due(r) = 0
  BY <1>4 DEF Due, DueAt
<1>6. Finite'
  BY <1>1, <1>3 DEF SaldoInv, Finite, MovesOn
<1>7. \A w \in Wallet : /\ Balance(rows', w) = Balance(rows, w) /\ NoNew(w) /\ Balanced(r, w)
                        /\ Way(updates', w) = Way(updates, w) /\ excess'[w] = excess[w]
  BY <1>1, <1>5 DEF NoNew, Balanced
<1> QED
  BY <1>1, <1>2, <1>3, <1>4, <1>5, <1>6, <1>7, RequestStep DEF MovesOn

LEMMA ReceiveSaldo ==
  ASSUME Inv, Inv', SaldoInv, NEW r \in Request, NEW b \in Body, Receive(r, b)
  PROVE  SaldoInv'
<1>1. r \notin Received /\ UNCHANGED <<saldo, rows, updates, excess>>
  BY DEF Receive
<1>2. /\ Received' = Received \cup {r} /\ \A q \in Received : requests'[q] = requests[q]
      /\ requests'[r].body = b /\ requests'[r].pc \in {0, 1}
  BY <1>1 DEF Receive, With, Received
<1>3. StageOf(r)' = "idle"
  <2>1. b \in Asked /\ (b.table = "Carteira" => b.verb = "create")
    BY BodyAssumption
  <2>2. Stage(b, 0) = "idle" /\ Stage(b, 1) = "idle"
    BY <2>1, StagesOf DEF Stages
  <2> QED
    BY <1>2, <2>2 DEF StageOf, Ask
<1>4. Due(r)' = 0
  BY <1>3 DEF Due, DueAt
<1>5. Finite'
  BY <1>1, <1>2, FiniteMore DEF SaldoInv, Finite
<1>6. ASSUME NEW w \in Wallet PROVE Dues(w)' = Dues(w)
  <2> DEFINE f == [q \in Received |-> Due(q)]
             g == [q \in Received \cup {r} |-> Due(q)']
             T == Clients(w)
  <2>1. Dues(w)' = Soma(g, Clients(w)') /\ Dues(w) = Soma(f, T)
    BY <1>2 DEF Dues
  <2>2. \A q \in Received : Ask(q)' = Ask(q) /\ Due(q)' = Due(q)
    BY <1>2, OthersDue
  <2>3. IsFiniteSet(T) /\ T \subseteq Received /\ (\A q \in T : f[q] = Due(q) /\ f[q] \in Int)
    BY DuesTyped DEF SaldoInv, Clients
  <2>4. (\A q \in T : g[q] = f[q]) /\ g[r] = 0 /\ r \notin T
    BY <1>1, <1>4, <2>2, <2>3
  <2>5. Clients(w)' = T \/ Clients(w)' = T \cup {r}
    BY <1>2, <2>2 DEF Clients
  <2> HIDE DEF f, g, T
  <2>6. Soma(g, T) = Soma(f, T) /\ Soma(f, T) \in Int
    BY <2>3, <2>4, SomaSame, SomaInt
  <2>7. Soma(g, T \cup {r}) = g[r] + Soma(g, T)
    <3>1. (\A q \in T : g[q] \in Int) /\ IsFiniteSet(T)
      BY <2>3, <2>4
    <3>2. r \notin T /\ g[r] \in Int
      BY <2>4
    <3> QED
      BY <3>1, <3>2, SomaPut
  <2>8. Soma(g, T \cup {r}) = Soma(f, T)
    BY <2>4, <2>6, <2>7
  <2>9. CASE Clients(w)' = T
    BY <2>1, <2>6, <2>9
  <2>10. CASE Clients(w)' = T \cup {r}
    BY <2>1, <2>8, <2>10
  <2> QED
    BY <2>5, <2>9, <2>10
<1>7. ASSUME NEW w \in Wallet, excess'[w] # NaN PROVE Numbers(w)' /\ Booked(w)'
  <2>1. Numbers(w) /\ Booked(w)
    BY <1>1, <1>7 DEF SaldoInv
  <2>2. Worth(w)' = Worth(w)
    BY <1>1, SameWorth
  <2> QED
    BY <1>1, <1>6, <2>1, <2>2 DEF Numbers, Booked
<1> QED
  BY <1>5, <1>7 DEF SaldoInv

-----------------------------------------------------------------------------
(* What a change of the total of a service changes in the balance. *)
LEMMA BalanceMoves ==
  ASSUME NEW s \in Service, NEW w, \A t \in Service \ {s} : Keeps(t, w), NEW change \in Int,
         \A t \in Service : Total(rows, t, w) \in Int,
         Total(rows', s, w) = Total(rows, s, w) + change
  PROVE  Balance(rows', w) = Balance(rows, w) + IF s = "Receita" THEN change ELSE -change
<1>1. CASE s = "Receita"
  <2>1. Total(rows', "Despesa", w) = Total(rows, "Despesa", w)
    BY <1>1 DEF Keeps, Service
  <2> QED
    BY <1>1, <2>1 DEF Balance, Service
<1>2. CASE s = "Despesa"
  <2>1. Total(rows', "Receita", w) = Total(rows, "Receita", w)
    BY <1>2 DEF Keeps, Service
  <2> QED
    BY <1>2, <2>1 DEF Balance, Service
<1> QED
  BY <1>1, <1>2 DEF Service

LEMMA DeltaIs ==
  ASSUME NEW r \in Received, RequestOK(r), ~WithoutValor(r)
  PROVE  Delta(r) = LET change == IF Ask(r).verb = "create" THEN Ask(r).valor
                                  ELSE IF Ask(r).verb = "edit" THEN Ask(r).valor - requests[r].old
                                  ELSE -requests[r].old
                    IN  IF Ask(r).table = "Receita" THEN change ELSE -change
<1>1. Ask(r).valor \in Int /\ requests[r].old \in Int /\ Ask(r).verb \in {"create", "edit", "delete"}
  BY AskOK DEF RequestOK
<1>2. CASE Ask(r).verb = "create"
  BY <1>1, <1>2 DEF Delta
<1>3. CASE Ask(r).verb = "edit"
  BY <1>1, <1>3 DEF Delta
<1>4. CASE Ask(r).verb = "delete"
  BY <1>1, <1>4 DEF Delta
<1> QED
  BY <1>1, <1>2, <1>3, <1>4

(* A step that writes a row: only the total that the row is in can change. *)
Grows(r, w, change) ==
  /\ Total(rows', Ask(r).table, w) = Total(rows, Ask(r).table, w) + change
  /\ Due(r)' + excess[w]
       = Due(r) + (IF Ask(r).table = "Receita" THEN change ELSE -change) + excess'[w]

LEMMA WriteStep ==
  ASSUME Inv, Inv', SaldoInv, IsFiniteSet(rows'), NEW r, MovesOn(r), Ask(r)' = Ask(r),
         UNCHANGED <<saldo, updates>>, Due(r) \in Int, Due(r)' \in Int,
         \A t, w : t # Ask(r).table \/ w # Ask(r).carteira => Keeps(t, w),
         \A w \in Wallet : w # Ask(r).carteira => excess'[w] = excess[w],
         \A w \in Wallet : w = Ask(r).carteira /\ excess'[w] # NaN =>
           /\ excess[w] # NaN
           /\ Ask(r).table \notin Service => excess'[w] = excess[w] /\ Due(r)' = Due(r)
           /\ Ask(r).table \in Service => \E change \in Int : Grows(r, w, change)
  PROVE  SaldoInv'
<1>1. /\ r \in Received /\ Received' = Received
      /\ \A q \in Received \ {r} : requests'[q] = requests[q]
  BY DEF MovesOn
<1>2. Finite /\ Finite'
  BY <1>1 DEF SaldoInv, Finite
<1>3. \A w \in Wallet : Worth(w)' = Worth(w) /\ NoNew(w) /\ Way(updates', w) = Way(updates, w)
  BY SameWorth DEF NoNew
<1>4. ASSUME NEW w, \A t \in Service : Keeps(t, w)
      PROVE  Balance(rows', w) = Balance(rows, w)
  BY <1>4 DEF Balance, Keeps, Service
<1>5. \A w \in Wallet : w # Ask(r).carteira => Balance(rows', w) = Balance(rows, w)
  BY <1>4
<1>6. ASSUME NEW w \in Wallet, w = Ask(r).carteira, excess'[w] # NaN
      PROVE  excess[w] # NaN /\ Balanced(r, w)
  <2>1. excess[w] \in Int /\ excess'[w] \in Int /\ Way(updates, w) \in Int /\ Balance(rows, w) \in Int
    <3>1. excess'[w] \in Int \cup {NaN} /\ excess[w] # NaN
      BY <1>6 DEF Inv, TypeOK
    <3> QED
      BY <1>2, <1>6, <3>1, AllTyped
  <2>2. CASE Ask(r).table \notin Service
    <3>1. Balance(rows', w) = Balance(rows, w)
      BY <1>4, <2>2
    <3> QED
      BY <1>3, <1>6, <2>2, <3>1 DEF Balanced
  <2>3. CASE Ask(r).table \in Service
    <3>1. PICK change \in Int : Grows(r, w, change)
      BY <1>6, <2>3
    <3>2. \A t \in Service \ {Ask(r).table} : Keeps(t, w)
      OBVIOUS
    <3>3. \A t \in Service : Total(rows, t, w) \in Int
      BY <1>2, AllTyped
    <3>4. Total(rows', Ask(r).table, w) = Total(rows, Ask(r).table, w) + change
      BY <3>1 DEF Grows
    <3>5. PICK gain \in Int : gain = IF Ask(r).table = "Receita" THEN change ELSE -change
      OBVIOUS
    <3>6. Balance(rows', w) = Balance(rows, w) + gain
      BY <2>3, <3>2, <3>3, <3>4, <3>5, BalanceMoves
    <3>7. Due(r)' + excess[w] = Due(r) + gain + excess'[w]
      BY <3>1, <3>5 DEF Grows
    <3>8. Way(updates', w) = Way(updates, w) /\ excess[w] # NaN
      BY <1>3, <1>6
    <3>9. Way(updates, w) + Due(r)' + Balance(rows, w) + excess[w]
            = Way(updates, w) + Due(r) + (Balance(rows, w) + gain) + excess'[w]
      <4>1. PICK d, e \in Int : d = Due(r) /\ e = Due(r)'
        OBVIOUS
      <4>2. e + excess[w] = d + gain + excess'[w]
        BY <3>7, <4>1
      <4>3. Way(updates, w) + e + Balance(rows, w) + excess[w]
              = Way(updates, w) + d + (Balance(rows, w) + gain) + excess'[w]
        BY <2>1, <3>5, <4>1, <4>2
      <4> QED
        BY <4>1, <4>3
    <3> QED
      BY <3>6, <3>8, <3>9 DEF Balanced
  <2> QED
    BY <2>2, <2>3
<1> QED
  BY <1>1, <1>2, <1>3, <1>5, <1>6, RequestStep

LEMMA WrittenAt ==
  ASSUME Inv, NEW r, NEW statement \in {"insert", "update", "destroy"}, At(r, statement),
         Ask(r).table # "Carteira", Written(r)
  PROVE  /\ r \in Received /\ RequestOK(r) /\ MovesOn(r) /\ requests'[r].old = requests[r].old
         /\ Ask(r)' = Ask(r) /\ Delta(r)' = Delta(r)
         /\ statement # "destroy" /\ Ask(r).table \in Service =>
              Due(r) = 0 /\ Due(r)' = Amount(Delta(r))
         /\ statement = "destroy" /\ Ask(r).table = "Receita" =>
              Due(r) = 0 /\ Due(r)' = Amount(Delta(r))
         /\ statement = "destroy" /\ Ask(r).table = "Despesa" =>
              Due(r) = -Amount(Delta(r)) /\ Due(r)' = 0
         /\ Ask(r).table \notin Service => Due(r)' = 0 /\ Due(r) = 0
         /\ Due(r) \in Int /\ Due(r)' \in Int
<1>1. r \in Received /\ RequestOK(r)
  BY Typed DEF At
<1>2. MovesOn(r) /\ requests'[r].old = requests[r].old
  BY <1>1, WrittenMoves
<1>3. Ask(r)' = Ask(r) /\ StageOf(r)' = Stage(Ask(r), requests[r].pc + 1)
  BY <1>2, StageMoves
<1>4. /\ Steps(Ask(r), requests[r].pc) /\ CodeOf(Ask(r))[requests[r].pc] = statement
      /\ StageOf(r) = Stage(Ask(r), requests[r].pc)
  BY StageAt
<1>5. Delta(r)' = Delta(r) /\ Amount(Delta(r)) \in Int
  BY <1>1, <1>2, <1>3, SameDue, DeltaNumber
<1>6. Due(r)' = DueAt(StageOf(r)', Delta(r)) /\ Due(r) = DueAt(StageOf(r), Delta(r))
  BY <1>5 DEF Due
<1>7. /\ statement # "destroy" /\ Ask(r).table \in Service =>
           StageOf(r) \in {"idle", "found"} /\ StageOf(r)' = "pending"
      /\ statement = "destroy" /\ Ask(r).table = "Receita" =>
           StageOf(r) = "found" /\ StageOf(r)' = "pending"
      /\ statement = "destroy" /\ Ask(r).table = "Despesa" =>
           StageOf(r) = "late" /\ StageOf(r)' = "idle"
      /\ Ask(r).table \notin Service => StageOf(r) = "idle" /\ StageOf(r)' = "idle"
  BY <1>3, <1>4 DEF Steps, Service
<1>8. /\ StageOf(r) \in {"idle", "found", "late"} /\ StageOf(r)' \in {"idle", "pending"}
  BY <1>3, <1>4, <1>7 DEF Steps, Service
<1> QED
  BY <1>1, <1>2, <1>3, <1>5, <1>6, <1>7, <1>8 DEF DueAt, Service

LEMMA InsertSaldo ==
  ASSUME Inv, Inv', SaldoInv, NEW r \in Request, Insert(r)
  PROVE  SaldoInv'
<1>b. PICK b : b = Ask(r)
  OBVIOUS
<1>1. /\ At(r, "insert") /\ b.table # "Carteira" /\ Written(r)
      /\ UNCHANGED <<saldo, updates>>
  BY <1>b DEF Insert
<1>2. PICK i \in Item \ used, share \in Shares(b) :
        /\ rows' = rows \cup {NewRow(b, i, share)}
        /\ Book(b.carteira, IF b.table = "Despesa" THEN share - b.valor ELSE 0)
  BY <1>b DEF Insert
<1>3. /\ r \in Received /\ RequestOK(r) /\ MovesOn(r) /\ Ask(r)' = Ask(r)
      /\ b.table \in Service => Due(r) = 0 /\ Due(r)' = Amount(Delta(r))
      /\ b.table \notin Service => Due(r)' = Due(r)
      /\ Due(r) \in Int /\ Due(r)' \in Int
      /\ b.verb = "create" /\ b.valor \in Int /\ b.carteira \in Wallet /\ b \in Asked
      /\ b.table \in Table
  BY <1>b, <1>1, WrittenAt, Writing, AtFacts, AskOK
<1>4. /\ IsFiniteSet(rows')
      /\ \A t, w : t # b.table \/ w # b.carteira => Keeps(t, w)
      /\ Total(rows', b.table, b.carteira) = Total(rows, b.table, b.carteira) + share
  BY <1>b, <1>2, InsertEffect DEF SaldoInv, Finite
<1>5. share \in Int /\ (b.table = "Receita" => share = b.valor)
  BY <1>2, <1>3, SharesTyped DEF Shares
<1>6. PICK amount \in Int : amount = IF b.table = "Despesa" THEN share - b.valor ELSE 0
  BY <1>3, <1>5
<1>7. /\ \A w \in Wallet : w # b.carteira => excess'[w] = excess[w]
      /\ excess'[b.carteira] # NaN =>
           /\ excess[b.carteira] # NaN /\ excess[b.carteira] \in Int
           /\ excess'[b.carteira] = excess[b.carteira] + amount
  BY <1>2, <1>3, <1>6, Booking
<1>8. ASSUME NEW w \in Wallet, w = b.carteira, excess'[w] # NaN
      PROVE  /\ excess[w] # NaN
             /\ b.table \notin Service => excess'[w] = excess[w] /\ Due(r)' = Due(r)
             /\ b.table \in Service => Grows(r, w, share)
  <2>1. CASE b.table \notin Service
    BY <1>3, <1>6, <1>7, <1>8, <2>1 DEF Service
  <2>2. CASE b.table \in Service
    <3>1. Delta(r) = IF b.table = "Receita" THEN b.valor ELSE -b.valor
      BY <1>b, <1>3, DeltaIs DEF WithoutValor
    <3>2. Amount(Delta(r)) = Delta(r)
      <4>1. Delta(r) # NaN
        BY <1>b, <1>3, DeltaTyped DEF WithoutValor
      <4> QED
        BY <1>3, <4>1, DeltaNumber
    <3>3. /\ Due(r) = 0 /\ Due(r)' = IF b.table = "Receita" THEN b.valor ELSE -b.valor
          /\ excess'[w] = excess[w] + amount /\ excess[w] \in Int
      BY <1>3, <1>7, <1>8, <2>2, <3>1, <3>2
    <3>4. Due(r)' + excess[w]
            = Due(r) + (IF b.table = "Receita" THEN share ELSE -share) + excess'[w]
      BY <1>3, <1>5, <1>6, <2>2, <3>3 DEF Service
    <3> QED
      BY <1>b, <1>4, <1>7, <1>8, <2>2, <3>4 DEF Grows
  <2> QED
    BY <2>1, <2>2
<1> QED
  BY <1>b, <1>1, <1>3, <1>4, <1>5, <1>7, <1>8, WriteStep

(* The row that a request is going to replace or to destroy, as it found it. *)
LEMMA NotStale ==
  ASSUME NEW r, Ask(r).table \in Service, ~Stale(r)
  PROVE  \E d \in Named(rows, Ask(r)) : d.valor = requests[r].old
  BY DEF Stale, Service

LEMMA UpdateSaldo ==
  ASSUME Inv, Inv', SaldoInv, NEW r \in Request, Update(r)
  PROVE  SaldoInv'
<1>b. PICK b : b = Ask(r)
  OBVIOUS
<1>1. /\ At(r, "update") /\ Written(r) /\ rows' = Edited(rows, b) /\ Named(rows, b) # {}
      /\ UNCHANGED <<saldo, updates>> /\ Disturb(Stale(r), b.carteira)
  BY <1>b DEF Update, Editable
<1>2. b.table # "Carteira"
  BY <1>b, <1>1, AtFacts, AskOK DEF Shape
<1>3. /\ r \in Received /\ RequestOK(r) /\ MovesOn(r) /\ Ask(r)' = Ask(r)
      /\ b.table \in Service => Due(r) = 0 /\ Due(r)' = Amount(Delta(r))
      /\ b.table \notin Service => Due(r)' = Due(r)
      /\ Due(r) \in Int /\ Due(r)' \in Int
      /\ b.verb = "edit" /\ b.valor \in Int /\ b.carteira \in Wallet /\ b \in Asked
  BY <1>b, <1>1, <1>2, WrittenAt, Writing, AtFacts, AskOK
<1>4. /\ IsFiniteSet(rows')
      /\ \A t, w : t # b.table \/ w # b.carteira => Keeps(t, w)
      /\ \A d \in Named(rows, b) :
           /\ Total(rows', b.table, b.carteira) = Total(rows, b.table, b.carteira)
                + IF Sets(b, "valor") THEN b.valor - d.valor ELSE 0
           /\ d.valor \in Int
  BY <1>b, <1>1, <1>3, UpdateEffect DEF SaldoInv, Finite
<1>5. /\ \A w \in Wallet : w # b.carteira => excess'[w] = excess[w]
      /\ excess'[b.carteira] # NaN =>
           ~Stale(r) /\ excess[b.carteira] # NaN /\ excess'[b.carteira] = excess[b.carteira]
  BY <1>1, <1>3, StaleTyped, Disturbing
<1>6. ASSUME b.table \in Service, NEW w \in Wallet, w = b.carteira, excess'[w] # NaN
      PROVE  \E change \in Int : Grows(r, w, change)
  <2>1. PICK d \in Named(rows, b) : d.valor = requests[r].old
    BY <1>b, <1>5, <1>6, NotStale
  <2>2. PICK change : change = IF Sets(b, "valor") THEN b.valor - d.valor ELSE 0
    OBVIOUS
  <2>3. change \in Int /\ Total(rows', b.table, w) = Total(rows, b.table, w) + change
    BY <1>3, <1>4, <1>6, <2>1, <2>2
  <2>4. Amount(Delta(r)) = IF b.table = "Receita" THEN change ELSE -change
    <3>1. CASE Sets(b, "valor")
      <4>1. ~WithoutValor(r)
        BY <1>b, <3>1 DEF WithoutValor
      <4>2. Delta(r) # NaN
        BY <1>3, <4>1, DeltaTyped
      <4>3. Amount(Delta(r)) = Delta(r)
        BY <1>3, <4>2, DeltaNumber
      <4>4. Delta(r) = IF b.table = "Receita" THEN b.valor - requests[r].old
                                             ELSE -(b.valor - requests[r].old)
        BY <1>b, <1>3, <4>1, DeltaIs
      <4> QED
        BY <2>1, <2>2, <3>1, <4>3, <4>4
    <3>2. CASE ~Sets(b, "valor")
      <4>1. WithoutValor(r)
        BY <1>b, <1>3, <3>2 DEF WithoutValor
      <4>2. Delta(r) = NaN
        BY <1>3, <4>1, DeltaTyped
      <4>3. Amount(Delta(r)) = 0
        BY <4>2 DEF Amount
      <4>4. change = 0
        BY <2>2, <3>2
      <4>5. PICK y \in Int : y = -change
        BY <2>3
      <4>6. y + change = 0
        BY <2>3, <4>5
      <4>7. y = 0
        BY <4>4, <4>6
      <4> QED
        BY <4>3, <4>4, <4>5, <4>7
    <3> QED
      BY <3>1, <3>2
  <2>5. excess'[w] = excess[w] /\ excess[w] \in Int
    BY <1>5, <1>6 DEF Inv, TypeOK
  <2>6. Due(r)' + excess[w]
          = Due(r) + (IF b.table = "Receita" THEN change ELSE -change) + excess'[w]
    BY <1>3, <1>6, <2>3, <2>4, <2>5
  <2> QED
    BY <1>b, <2>3, <2>6 DEF Grows
<1> QED
  BY <1>b, <1>1, <1>3, <1>4, <1>5, <1>6, WriteStep

LEMMA DestroySaldo ==
  ASSUME Inv, Inv', SaldoInv, NEW r \in Request, Destroy(r)
  PROVE  SaldoInv'
<1>b. PICK b : b = Ask(r)
  OBVIOUS
<1>1. /\ At(r, "destroy") /\ Written(r) /\ rows' = Without(rows, Named(rows, b))
      /\ UNCHANGED <<saldo, updates>> /\ Disturb(Stale(r), b.carteira)
  BY <1>b DEF Destroy
<1>2. b.table # "Carteira"
  BY <1>b, <1>1, AtFacts, AskOK DEF Shape
<1>3. /\ r \in Received /\ RequestOK(r) /\ MovesOn(r) /\ Ask(r)' = Ask(r)
      /\ b.table = "Receita" => Due(r) = 0 /\ Due(r)' = Amount(Delta(r))
      /\ b.table = "Despesa" => Due(r) = -Amount(Delta(r)) /\ Due(r)' = 0
      /\ b.table \notin Service => Due(r)' = Due(r)
      /\ Due(r) \in Int /\ Due(r)' \in Int
      /\ b.verb = "delete" /\ b.carteira \in Wallet
  BY <1>b, <1>1, <1>2, WrittenAt, Writing, AtFacts, AskOK
<1>4. /\ IsFiniteSet(rows')
      /\ \A t, w : t # b.table \/ w # b.carteira => Keeps(t, w)
      /\ \A d \in Named(rows, b) :
           d.valor \in Int /\
           Total(rows', b.table, b.carteira) = Total(rows, b.table, b.carteira) - d.valor
  BY <1>b, <1>1, DestroyEffect DEF SaldoInv, Finite
<1>5. /\ \A w \in Wallet : w # b.carteira => excess'[w] = excess[w]
      /\ excess'[b.carteira] # NaN =>
           ~Stale(r) /\ excess[b.carteira] # NaN /\ excess'[b.carteira] = excess[b.carteira]
  BY <1>1, <1>3, StaleTyped, Disturbing
<1>6. ASSUME b.table \in Service, NEW w \in Wallet, w = b.carteira, excess'[w] # NaN
      PROVE  \E change \in Int : Grows(r, w, change)
  <2>1. PICK old \in Int : old = requests[r].old
    BY <1>3, DeltaNumber
  <2>2. \E d \in Named(rows, b) : d.valor = old
    BY <1>b, <1>5, <1>6, <2>1, NotStale
  <2>3. Total(rows', b.table, w) = Total(rows, b.table, w) + (-old)
    <3>1. Total(rows, b.table, w) \in Int
      BY <1>6, AllTyped DEF SaldoInv
    <3> QED
      BY <1>4, <1>6, <2>1, <2>2, <3>1
  <2>4. Amount(Delta(r)) = IF b.table = "Receita" THEN -old ELSE old
    <3>1. ~WithoutValor(r)
      BY <1>b, <1>3 DEF WithoutValor
    <3>2. Amount(Delta(r)) = Delta(r)
      BY <1>3, <3>1, DeltaTyped, DeltaNumber
    <3>3. Delta(r) = IF b.table = "Receita" THEN -old ELSE -(-old)
      BY <1>b, <1>3, <2>1, <3>1, DeltaIs
    <3> QED
      BY <2>1, <3>2, <3>3
  <2>5. excess'[w] = excess[w] /\ excess[w] \in Int
    BY <1>5, <1>6 DEF Inv, TypeOK
  <2>6. Due(r)' + excess[w]
          = Due(r) + (IF b.table = "Receita" THEN -old ELSE -(-old)) + excess'[w]
    <3>1. CASE b.table = "Receita"
      BY <1>3, <2>1, <2>4, <2>5, <3>1
    <3>2. CASE b.table = "Despesa"
      BY <1>3, <2>1, <2>4, <2>5, <3>2
    <3> QED
      BY <1>6, <3>1, <3>2 DEF Service
  <2>7. -old \in Int
    BY <2>1
  <2> QED
    BY <1>b, <2>3, <2>6, <2>7 DEF Grows
<1> QED
  BY <1>b, <1>1, <1>3, <1>4, <1>5, <1>6, WriteStep


-----------------------------------------------------------------------------
(***************************************************************************)
(* A notification puts what was due on its way, once for each observer of  *)
(* the service, and books all but one of them as too much.                 *)
(***************************************************************************)
LEMMA NotifySaldo ==
  ASSUME Inv, Inv', SaldoInv, NEW r \in Request, Notify(r)
  PROVE  SaldoInv'
<1>b. PICK b, n, u : /\ b = Ask(r) /\ n = observers[b.table] + 1
                     /\ u = [carteira |-> b.carteira, delta |-> Delta(r), at |-> "read", read |-> 0]
  OBVIOUS
<1>1. /\ At(r, "notify") /\ updates' = updates (+) [v \in {u} |-> n]
      /\ Book(b.carteira, IF Delta(r) = NaN THEN NaN ELSE (n - 1) * Delta(r))
      /\ requests' = [requests EXCEPT ![r].pc = IF MoreParcelas(r) THEN @ - 1 ELSE @ + 1]
      /\ UNCHANGED <<saldo, rows>>
  BY <1>b DEF Notify
<1>2. /\ r \in Received /\ RequestOK(r) /\ b \in Asked /\ b.carteira \in Wallet
      /\ Steps(b, requests[r].pc) /\ CodeOf(b)[requests[r].pc] = "notify"
      /\ StageOf(r) = Stage(b, requests[r].pc) /\ Code(r) = CodeOf(b) /\ Shape(b)
  BY <1>b, <1>1, StageAt, Typed, AskOK
<1>3. /\ Received' = Received /\ (\A q \in Received \ {r} : requests'[q] = requests[q])
      /\ Ask(r)' = b /\ requests'[r].old = requests[r].old
      /\ requests'[r].pc = IF MoreParcelas(r) THEN requests[r].pc - 1 ELSE requests[r].pc + 1
  BY <1>b, <1>1, <1>2 DEF Received, Ask, RequestOK
<1>4. b.table \in Service /\ n \in Nat \ {0}
  <2>1. b.table \in Service /\ observers \in [Service -> Nat]
    BY <1>2 DEF Steps, Inv, TypeOK, Service
  <2> QED
    BY <1>b, <2>1
<1>5. \/ StageOf(r) = "pending" /\ StageOf(r)' = "idle"
      \/ StageOf(r) = "found" /\ StageOf(r)' = "late"
  <2>1. MoreParcelas(r) => ByInstalments(b)
    BY <1>2 DEF MoreParcelas, Shape
  <2> QED
    BY <1>2, <1>3, <2>1 DEF Steps, StageOf, ByInstalments
<1>6. PICK a \in Int : a = Amount(Delta(r))
  BY <1>2, DeltaNumber
<1>7. /\ Delta(r)' = Delta(r) /\ Due(r) \in Int /\ Due(r)' \in Int /\ Due(r)' = Due(r) - a
  <2>1. Delta(r)' = Delta(r)
    BY <1>b, <1>3, SameDue
  <2>2. Due(r)' = DueAt(StageOf(r)', Delta(r)) /\ Due(r) = DueAt(StageOf(r), Delta(r))
    BY <2>1 DEF Due
  <2>3. CASE StageOf(r) = "pending" /\ StageOf(r)' = "idle"
    BY <1>6, <2>1, <2>2, <2>3 DEF DueAt
  <2>4. CASE StageOf(r) = "found" /\ StageOf(r)' = "late"
    BY <1>6, <2>1, <2>2, <2>4 DEF DueAt
  <2> QED
    BY <1>5, <2>3, <2>4
<1>8. u.delta \in Int \cup {NaN} /\ u.delta = Delta(r) /\ u.carteira = b.carteira
  BY <1>b, <1>2, DeltaNumber
<1>9. CountsUp(updates') /\ More(updates, updates', u, n) /\ CountsUp(updates)
  <2>1. CountsUp(updates)
    BY DEF SaldoInv, Finite
  <2>2. LET C == updates (+) [v \in {u} |-> n] IN CountsUp(C) /\ More(updates, C, u, n)
    BY <1>4, <1>8, <2>1, NotifiedMore
  <2> QED
    BY <1>1, <2>1, <2>2
<1>10. Finite'
  BY <1>1, <1>3, <1>9 DEF SaldoInv, Finite
<1>11. ASSUME NEW w
       PROVE  Way(updates', w) = Way(updates, w) + IF b.carteira = w THEN n * a ELSE 0
  BY <1>4, <1>6, <1>8, <1>9, WayMore
<1>12. ASSUME NEW w, u.carteira # w \/ u.delta # NaN PROVE NoNew(w)
  BY <1>9, <1>12 DEF NoNew, UpdatesFor, More
<1>13. PICK amount \in Int \cup {NaN} : amount = IF Delta(r) = NaN THEN NaN ELSE (n - 1) * Delta(r)
  <2>1. CASE Delta(r) = NaN
    BY <2>1
  <2>2. CASE Delta(r) # NaN
    <3>1. PICK delta, more \in Int : delta = Delta(r) /\ more = n - 1
      BY <1>2, <1>4, <2>2, DeltaNumber
    <3>2. more * delta \in Int
      BY <3>1
    <3> QED
      BY <2>2, <3>1, <3>2
  <2> QED
    BY <2>1, <2>2
<1>14. /\ \A w \in Wallet : w # b.carteira => excess'[w] = excess[w]
       /\ excess'[b.carteira] # NaN =>
            /\ excess[b.carteira] # NaN /\ excess[b.carteira] \in Int
            /\ amount \in Int /\ amount # NaN /\ excess'[b.carteira] = excess[b.carteira] + amount
  BY <1>1, <1>2, <1>13, Booking
<1>15. ASSUME NEW w \in Wallet, w # b.carteira
       PROVE  Way(updates', w) = Way(updates, w) /\ NoNew(w)
  <2>1. Way(updates, w) \in Int
    BY <1>9, WayTyped
  <2> QED
    BY <1>8, <1>11, <1>12, <1>15, <2>1
<1>16. ASSUME NEW w \in Wallet, w = b.carteira, excess'[w] # NaN
       PROVE  excess[w] # NaN /\ NoNew(w) /\ Balanced(r, w)
  <2>1. Delta(r) # NaN /\ amount = (n - 1) * a
    BY <1>2, <1>6, <1>13, <1>14, <1>16, DeltaNumber
  <2>2. excess[w] # NaN /\ excess[w] \in Int /\ excess'[w] = excess[w] + (n - 1) * a
    BY <1>14, <1>16, <2>1
  <2>3. NoNew(w)
    BY <1>8, <1>12, <2>1
  <2>4. /\ Way(updates', w) = Way(updates, w) + n * a
        /\ Way(updates, w) \in Int /\ Balance(rows, w) \in Int
    BY <1>11, <1>16, AllTyped DEF SaldoInv
  <2>5. PICK m \in Int : m = n * a
    BY <1>4
  <2>6. (n - 1) * a = m - a
    BY <1>4, <2>5
  <2>7. PICK d \in Int : d = Due(r)
    BY <1>7
  <2>8. Way(updates, w) + m + (d - a) + Balance(rows, w) + excess[w]
          = Way(updates, w) + d + Balance(rows, w) + (excess[w] + (m - a))
    BY <2>2, <2>4, <2>5, <2>7
  <2>9. Balanced(r, w)
    BY <1>1, <1>7, <2>2, <2>4, <2>5, <2>6, <2>7, <2>8 DEF Balanced
  <2> QED
    BY <2>2, <2>3, <2>9
<1>17. \A w \in Wallet : Worth(w)' = Worth(w) /\ Balance(rows', w) = Balance(rows, w)
  BY <1>1, SameWorth
<1> QED
  BY <1>b, <1>2, <1>3, <1>7, <1>10, <1>14, <1>15, <1>16, <1>17, RequestStep

-----------------------------------------------------------------------------
(* Steps of the updates: what comes off the bag goes on the balance. *)
LEMMA SameDues ==
  ASSUME UNCHANGED requests, NEW w
  PROVE  Dues(w)' = Dues(w)
<1>1. Received' = Received /\ \A q \in Received : Due(q)' = Due(q) /\ Ask(q)' = Ask(q)
  BY OthersDue DEF Received
<1> QED
  BY <1>1 DEF Dues, Clients

LEMMA UpdateStep ==
  ASSUME SaldoInv, UNCHANGED <<rows, requests>>, CountsUp(updates'),
         \A w \in Wallet : excess'[w] # NaN => excess'[w] = excess[w],
         \A w \in Wallet : excess'[w] # NaN /\ Numbers(w) =>
           Numbers(w)' /\ Worth(w)' + Way(updates', w) = Worth(w) + Way(updates, w)
  PROVE  SaldoInv'
<1>1. Finite'
  BY DEF SaldoInv, Finite, Received
<1>2. ASSUME NEW w \in Wallet, excess'[w] # NaN PROVE Numbers(w)' /\ Booked(w)'
  <2>1. Numbers(w) /\ Booked(w) /\ excess'[w] = excess[w]
    BY <1>2 DEF SaldoInv
  <2>2. Numbers(w)' /\ Worth(w)' + Way(updates', w) = Worth(w) + Way(updates, w)
    BY <1>2, <2>1
  <2>3. Dues(w)' = Dues(w) /\ Balance(rows', w) = Balance(rows, w)
    BY SameDues
  <2> QED
    BY <2>1, <2>2, <2>3 DEF Booked
<1> QED
  BY <1>1, <1>2 DEF SaldoInv

LEMMA UpdateStepSaldo ==
  ASSUME Inv, SaldoInv, NEW u \in BagToSet(updates), update(u)
  PROVE  SaldoInv'
<1> DEFINE C == BagRemove(updates, u)
<1>1. u \in DOMAIN updates /\ CountsUp(updates)
  BY BagOf DEF SaldoInv, Finite
<1>2. CountsUp(C) /\ More(C, updates, u, 1) /\ DOMAIN C \subseteq DOMAIN updates
  <2>1. CountsUp(C) /\ More(C, updates, u, 1)
    BY <1>1, RemovedMore
  <2> QED
    BY <2>1 DEF More
<1>3. /\ UpdateOK(u) /\ u.delta \in Int \cup {NaN} /\ u.carteira \in DOMAIN saldo
      /\ u.carteira \in Wallet
  BY DEF Inv, TypeOK, UpdateOK
<1> HIDE DEF C
<1>4. PICK a \in Int : a = Amount(u.delta)
  BY <1>3, AmountTyped
<1>5. ASSUME NEW w
      PROVE  /\ Way(updates, w) = Way(C, w) + IF u.carteira = w THEN a ELSE 0
             /\ Way(C, w) \in Int /\ Way(updates, w) \in Int
  <2>1. Way(C, w) \in Int /\ Way(updates, w) \in Int
    BY <1>1, <1>2, WayTyped
  <2>2. Way(updates, w) = Way(C, w) + IF u.carteira = w THEN 1 * a ELSE 0
    BY <1>1, <1>2, <1>4, WayMore
  <2> QED
    BY <1>4, <2>1, <2>2
<1>6. \A w : UpdatesFor(C, w) \subseteq UpdatesFor(updates, w)
  BY <1>2 DEF UpdatesFor
<1>7. CASE ReadSaldo(u)
  <2>1. PICK v : v = [u EXCEPT !.at = "write", !.read = saldo[u.carteira]]
    OBVIOUS
  <2>2. v.delta = u.delta /\ v.carteira = u.carteira
    <3> DEFINE half == [u EXCEPT !.at = "write"]
    <3>1. half.delta = u.delta /\ half.carteira = u.carteira
          /\ half \in [carteira : DOMAIN saldo, delta : Int \cup {NaN}, at : {"read", "write"},
                       read : Int \cup {NaN}]
      BY <1>3 DEF UpdateOK
    <3>2. v = [half EXCEPT !.read = saldo[u.carteira]]
      BY <1>3, <2>1 DEF UpdateOK
    <3> HIDE DEF half
    <3> QED
      BY <3>1, <3>2
  <2>3. updates' = BagAdd(C, v) /\ UNCHANGED <<saldo, rows, requests, excess>>
    BY <1>7, <2>1 DEF ReadSaldo, C
  <2>4. CountsUp(updates') /\ More(C, updates', v, 1)
    BY <1>2, <1>3, <2>2, <2>3, AddedMore
  <2>5. ASSUME NEW w PROVE Way(updates', w) = Way(updates, w)
    <3>1. Way(updates', w) = Way(C, w) + IF v.carteira = w THEN 1 * Amount(v.delta) ELSE 0
      BY <1>2, <2>4, WayMore
    <3> QED
      BY <1>4, <1>5, <2>2, <3>1
  <2>6. ASSUME NEW w, Numbers(w) PROVE Numbers(w)' /\ Worth(w)' = Worth(w)
    <3>1. UpdatesFor(updates', w) \subseteq UpdatesFor(C, w) \cup {v}
      BY <2>4 DEF UpdatesFor, More
    <3>2. v \in UpdatesFor(updates', w) => v.delta # NaN
      BY <1>1, <2>2, <2>6 DEF UpdatesFor, Numbers
    <3>3. Worth(w)' = Worth(w)
      BY <2>3, SameWorth
    <3> QED
      BY <1>6, <2>6, <3>1, <3>2, <3>3 DEF Numbers
  <2> QED
    BY <2>3, <2>4, <2>5, <2>6, UpdateStep
<1>8. CASE WriteSaldo(u)
  <2>1. /\ saldo' = [saldo EXCEPT ![u.carteira] = Plus(u.read, u.delta)] /\ updates' = C
        /\ Disturb(saldo[u.carteira] # u.read, u.carteira) /\ UNCHANGED <<rows, requests>>
    BY <1>8 DEF WriteSaldo, C
  <2>2. /\ \A w \in Wallet : w # u.carteira => excess'[w] = excess[w]
        /\ excess'[u.carteira] # NaN =>
             saldo[u.carteira] = u.read /\ excess'[u.carteira] = excess[u.carteira]
    BY <1>3, <2>1, Disturbing
  <2>3. ASSUME NEW w \in Wallet, excess'[w] # NaN, Numbers(w)
        PROVE  Numbers(w)' /\ Worth(w)' + Way(updates', w) = Worth(w) + Way(updates, w)
    <3>1. \A v \in UpdatesFor(updates', w) : v.delta # NaN
      BY <1>6, <2>1, <2>3 DEF Numbers
    <3>2. Worth(w) \in Int
      BY <2>3 DEF Numbers, Worth, Inv, TypeOK
    <3>3. CASE w # u.carteira
      <4>1. Worth(w)' = Worth(w)
        BY <2>1, <3>3 DEF Worth
      <4> QED
        BY <1>5, <2>1, <2>3, <3>1, <3>3, <4>1 DEF Numbers
    <3>4. CASE w = u.carteira
      <4>1. u.delta # NaN /\ Worth(w) = saldo[w] /\ saldo[w] = u.read
        BY <1>1, <1>3, <2>2, <2>3, <3>4 DEF Numbers, UpdatesFor, Worth
      <4>2. u.delta = a
        BY <1>4, <4>1 DEF Amount
      <4>3. Plus(u.read, u.delta) = Worth(w) + a
        BY <3>2, <4>1, <4>2, NaNAssumption DEF Plus
      <4>4. Worth(w)' = Worth(w) + a
        BY <1>3, <2>1, <3>4, <4>3 DEF Worth
      <4>5. Worth(w)' # NaN
        BY <3>2, <4>4, NaNAssumption
      <4>6. Worth(w)' + Way(updates', w) = Worth(w) + Way(updates, w)
        BY <1>5, <2>1, <3>2, <3>4, <4>4
      <4> QED
        BY <3>1, <4>5, <4>6 DEF Numbers
    <3> QED
      BY <3>3, <3>4
  <2>4. \A w \in Wallet : excess'[w] # NaN => excess'[w] = excess[w]
    BY <2>2
  <2> QED
    BY <1>2, <2>1, <2>3, <2>4, UpdateStep
<1>9. CASE UpdateFails(u)
  <2>1. updates' = C /\ Disturb(TRUE, u.carteira) /\ UNCHANGED <<saldo, rows, requests>>
    BY <1>9 DEF UpdateFails, C
  <2>2. \A w \in Wallet : excess'[w] # NaN => w # u.carteira /\ excess'[w] = excess[w]
    BY <1>3, <2>1, Disturbing
  <2>3. ASSUME NEW w \in Wallet, excess'[w] # NaN, Numbers(w)
        PROVE  Numbers(w)' /\ Worth(w)' + Way(updates', w) = Worth(w) + Way(updates, w)
    <3>1. Worth(w)' = Worth(w) /\ Way(updates', w) = Way(updates, w)
      BY <1>5, <2>1, <2>2, <2>3, SameWorth
    <3> QED
      BY <1>6, <2>1, <2>3, <3>1 DEF Numbers
  <2> QED
    BY <1>2, <2>1, <2>2, <2>3, UpdateStep
<1> QED
  BY <1>7, <1>8, <1>9 DEF update

-----------------------------------------------------------------------------
LEMMA NoUpdates == ASSUME NEW B, NEW w, UpdatesFor(B, w) = {} PROVE Way(B, w) = 0
  BY SomaEmpty DEF Way

LEMMA NoDues ==
  ASSUME Inv, Finite, NEW w, \A q \in Clients(w) : StageOf(q) = "idle"
  PROVE  Dues(w) = 0
<1> DEFINE f == [q \in Received |-> Due(q)]
<1>1. IsFiniteSet(Clients(w)) /\ \A q \in Clients(w) : f[q] = Due(q)
  BY DuesTyped
<1>2. \A q \in Clients(w) : f[q] = 0
  BY <1>1 DEF Due, DueAt
<1> HIDE DEF f
<1>3. Soma(f, Clients(w)) = 0
  BY <1>1, <1>2, SomaZero
<1> QED
  BY <1>3 DEF Dues, f

(* A wallet for which nothing runs has nothing due and nothing on its way. *)
LEMMA RestingIs ==
  ASSUME Inv, SaldoInv, NEW w \in Wallet, excess[w] # NaN, Settled(w)
  PROVE  Worth(w) # NaN /\ Worth(w) = Balance(rows, w) + excess[w]
<1>1. \A q \in Clients(w) : StageOf(q) = "idle"
  BY Typed DEF Clients, Settled
<1>2. Dues(w) = 0
  BY <1>1, NoDues DEF SaldoInv
<1>3. Way(updates, w) = 0
  <2>1. UpdatesFor(updates, w) = {}
    BY BagOf DEF Settled, UpdatesFor
  <2> QED
    BY <2>1, NoUpdates
<1>4. Numbers(w) /\ Booked(w) /\ Finite
  BY DEF SaldoInv
<1>5. Worth(w) \in Int /\ Balance(rows, w) \in Int /\ excess[w] \in Int /\ Worth(w) # NaN
  BY <1>4, AllTyped DEF Numbers
<1>6. Worth(w) + 0 + 0 = Balance(rows, w) + excess[w]
  BY <1>2, <1>3, <1>4 DEF Booked
<1> QED
  BY <1>5, <1>6

(* Only wallets for which nothing runs come through a restart without an accident. *)
LEMMA RestartSaldo ==
  ASSUME Inv, Inv', SaldoInv, Restart
  PROVE  SaldoInv'
<1> DEFINE lost == {u.carteira : u \in BagToSet(updates)}
                     \cup {Ask(r).carteira : r \in {q \in Received : Running(q)}}
<1>1. /\ requests' = [r \in Received |-> [requests[r] EXCEPT !.pc = 0]]
      /\ updates' = EmptyBag /\ UNCHANGED <<saldo, rows>>
      /\ excess' = [w \in Wallet |-> IF w \in lost THEN NaN ELSE excess[w]]
  BY DEF Restart
<1>2. Received' = Received /\ \A q \in Received : requests'[q] = [requests[q] EXCEPT !.pc = 0]
  BY <1>1 DEF Received
<1>3. \A q \in Received : StageOf(q)' = "idle"
  <2> SUFFICES ASSUME NEW q \in Received PROVE StageOf(q)' = "idle"
    OBVIOUS
  <2>1. RequestOK(q) /\ Stages(Ask(q)) /\ Len(CodeOf(Ask(q))) \in 2 .. 5
    BY Typed
  <2>2. requests'[q].pc = 0 /\ Ask(q)' = Ask(q)
    BY <1>2, <2>1 DEF RequestOK, Ask
  <2> QED
    BY <2>1, <2>2 DEF Stages, StageOf
<1>4. DOMAIN updates' = {}
  BY <1>1 DEF EmptyBag, SetToBag
<1>5. Finite'
  BY <1>1, <1>2, <1>4, FiniteNone DEF SaldoInv, Finite, CountsUp
<1>6. ASSUME NEW w \in Wallet, excess'[w] # NaN PROVE Numbers(w)' /\ Booked(w)'
  <2>1. w \notin lost /\ excess'[w] = excess[w]
    BY <1>1, <1>6
  <2>2. Settled(w)
    BY <2>1 DEF Settled
  <2>3. Worth(w) # NaN /\ Worth(w) = Balance(rows, w) + excess[w] /\ Worth(w)' = Worth(w)
    BY <1>1, <1>6, <2>1, <2>2, RestingIs, SameWorth
  <2>4. Dues(w)' = 0
    <3> DEFINE f == [q \in Received |-> Due(q)']
    <3>1. Clients(w)' \subseteq Received /\ \A q \in Clients(w)' : f[q] = 0
      BY <1>2, <1>3 DEF Clients, Due, DueAt
    <3>2. IsFiniteSet(Clients(w)')
      BY <3>1, FiniteSubset DEF SaldoInv, Finite
    <3>3. Dues(w)' = Soma(f, Clients(w)')
      BY <1>2 DEF Dues
    <3> HIDE DEF f
    <3> QED
      BY <3>1, <3>2, <3>3, SomaZero
  <2>5. Way(updates', w) = 0 /\ UpdatesFor(updates', w) = {}
    BY <1>4, NoUpdates DEF UpdatesFor
  <2>6. Worth(w) \in Int
    BY <2>3 DEF Worth, Inv, TypeOK
  <2>7. Worth(w)' + Way(updates', w) + Dues(w)' = Worth(w)
    BY <2>3, <2>4, <2>5, <2>6
  <2> QED
    BY <1>1, <2>1, <2>3, <2>5, <2>7 DEF Numbers, Booked
<1> QED
  BY <1>5, <1>6 DEF SaldoInv

-----------------------------------------------------------------------------
LEMMA InitSaldo == Init => SaldoInv
<1> SUFFICES ASSUME Init PROVE SaldoInv
  OBVIOUS
<1>1. /\ rows = Stored /\ Received = {} /\ updates = EmptyBag
      /\ saldo = [w \in {d.carteira : d \in Stored} |-> Balance(Stored, w)]
      /\ excess = [w \in Wallet |-> 0]
  BY DEF Init, Received
<1>2. DOMAIN updates = {}
  BY <1>1 DEF EmptyBag, SetToBag
<1>3. Finite
  BY <1>1, <1>2, StoredAssumption, FiniteNone DEF Finite, CountsUp
<1>4. Inv
  BY InitInv
<1>5. ASSUME NEW w \in Wallet PROVE Numbers(w) /\ Booked(w)
  <2>1. Way(updates, w) = 0 /\ UpdatesFor(updates, w) = {}
    BY <1>2, NoUpdates DEF UpdatesFor
  <2>2. Dues(w) = 0
    BY <1>1, <1>3, <1>4, NoDues DEF Clients
  <2>3. Worth(w) = Balance(rows, w) /\ Worth(w) \in Int
    <3>1. CASE w \in DOMAIN saldo
      <4>1. Balance(Stored, w) \in Int
        BY <1>1, StoredAssumption, BalanceTyped
      <4> QED
        BY <1>1, <3>1, <4>1 DEF Worth
    <3>2. CASE w \notin DOMAIN saldo
      <4>1. \A t : RowsOf(rows, t, w) = {}
        BY <1>1, <3>2 DEF RowsOf
      <4>2. ASSUME NEW t PROVE Total(rows, t, w) = 0
        <5>1. Total(rows, t, w) = Soma(Valor, RowsOf(rows, t, w))
          BY <1>1, StoredAssumption, TotalIs
        <5> QED
          BY <4>1, <5>1, SomaEmpty
      <4>3. Balance(rows, w) = 0
        BY <4>2 DEF Balance
      <4> QED
        BY <3>2, <4>3 DEF Worth
    <3> QED
      BY <3>1, <3>2
  <2>4. Worth(w) # NaN /\ excess[w] = 0
    BY <1>1, <2>3, NaNAssumption
  <2> QED
    BY <2>1, <2>2, <2>3, <2>4 DEF Numbers, Booked
<1> QED
  BY <1>3, <1>5 DEF SaldoInv

LEMMA NextSaldo == Inv /\ Inv' /\ SaldoInv /\ [Next]_vars => SaldoInv'
<1> SUFFICES ASSUME Inv, Inv', SaldoInv, [Next]_vars PROVE SaldoInv'
  OBVIOUS
<1>1. CASE UNCHANGED vars
  <2>1. UNCHANGED <<rows, requests, saldo, updates, excess>>
    BY <1>1 DEF vars, server
  <2>2. CountsUp(updates') /\ \A w : Worth(w)' = Worth(w) /\ (Numbers(w) => Numbers(w)')
    BY <2>1, SameWorth DEF SaldoInv, Finite, Numbers
  <2> QED
    BY <2>1, <2>2, UpdateStep
<1>2. ASSUME NEW r \in Request, NEW b \in Body, Receive(r, b) PROVE SaldoInv'
  BY <1>2, ReceiveSaldo
<1>3. ASSUME NEW r \in Request, Handle(r) PROVE SaldoInv'
  BY <1>3, LookupSaldo, FindSaldo, InsertSaldo, CreateCarteiraSaldo, UpdateSaldo, DestroySaldo,
     NotifySaldo, AnswerSaldo, RejectSaldo DEF Handle
<1>4. ASSUME NEW u \in BagToSet(updates), update(u) PROVE SaldoInv'
  BY <1>4, UpdateStepSaldo
<1>5. CASE Restart
  BY <1>5, RestartSaldo
<1> QED
  BY <1>1, <1>2, <1>3, <1>4, <1>5 DEF Next

(***************************************************************************)
(* Whatever is asked of the server, and however its requests and balance   *)
(* updates interleave, the balance of a wallet for which nothing runs is   *)
(* what its incomes and expenses add up to, and what its observers and     *)
(* instalments booked too much, if none of the accidents that Disturb and  *)
(* Book make a NaN of ever happened to it.                                 *)
(***************************************************************************)
THEOREM ExactHolds == Spec => []Exact
<1>1. Init => SaldoInv
  BY InitSaldo
<1>2. Inv /\ Inv' /\ SaldoInv /\ [Next]_vars => SaldoInv'
  BY NextSaldo
<1>3. Inv /\ SaldoInv => Exact
  <2>1. Inv => DOMAIN saldo \subseteq Wallet
    BY DEF Inv, TypeOK
  <2> QED
    BY <2>1, RestingIs DEF Exact, Worth
<1> QED
  BY <1>1, <1>2, <1>3, Invariant, PTL DEF Spec
=============================================================================
