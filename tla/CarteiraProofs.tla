--------------------------- MODULE CarteiraProofs ---------------------------
(***************************************************************************)
(* What holds of the wallet server for any requests, rows, wallets and     *)
(* restarts: the types, what deleteReceita's success says, and that the    *)
(* server is the one Tabelas describes.                                    *)
(***************************************************************************)
EXTENDS Carteira, Somas, TLAPS

(***************************************************************************)
(* Where the programs write, where they answer, and the first statement    *)
(* after which the row that the request names is known to have been there. *)
(***************************************************************************)
WriteAt ==
  [Receita   |-> [create |-> 2, edit |-> 2, delete |-> 3],
   Despesa   |-> [create |-> 3, edit |-> 2, delete |-> 4],
   Categoria |-> [create |-> 2, edit |-> 1, delete |-> 3],
   Carteira  |-> [create |-> 1]]

AnswerAt ==
  [Receita   |-> [create |-> 4, edit |-> 5, delete |-> 5],
   Despesa   |-> [create |-> 5, edit |-> 5, delete |-> 3],
   Categoria |-> [create |-> 3, edit |-> 2, delete |-> 2],
   Carteira  |-> [create |-> 2]]

FoundAt ==
  [Receita   |-> [create |-> 9, edit |-> 1, delete |-> 2],
   Despesa   |-> [create |-> 9, edit |-> 1, delete |-> 1],
   Categoria |-> [create |-> 9, edit |-> 1, delete |-> 1],
   Carteira  |-> [create |-> 9]]

Length ==
  [Receita   |-> [create |-> 4, edit |-> 5, delete |-> 5],
   Despesa   |-> [create |-> 5, edit |-> 5, delete |-> 4],
   Categoria |-> [create |-> 3, edit |-> 2, delete |-> 3],
   Carteira  |-> [create |-> 2]]

Kind(b) == <<b.table, b.verb>>

ByInstalments(b) == b.table = "Despesa" /\ b.verb = "create"

(* A program, taken apart: its statements by position. *)
CodeOf(b) == Program[b.table][b.verb]

Shape(b) ==
  LET c == CodeOf(b)
  IN  /\ DOMAIN c = 1 .. Length[b.table][b.verb] /\ Len(c) = Length[b.table][b.verb]
      /\ Len(c) \in 2 .. 5
      /\ (c = Despesas.create) <=> ByInstalments(b)
      /\ WriteAt[b.table][b.verb] \in 1 .. Len(c)
      /\ AnswerAt[b.table][b.verb] \in 2 .. Len(c)
      /\ FoundAt[b.table][b.verb] \in Nat \ {0}
      /\ ByInstalments(b) => WriteAt[b.table][b.verb] = 3
      /\ b.verb = "create" => FoundAt[b.table][b.verb] > Len(c)
      /\ b.verb = "delete" => FoundAt[b.table][b.verb] < WriteAt[b.table][b.verb]
      /\ b.verb # "create" => FoundAt[b.table][b.verb] < AnswerAt[b.table][b.verb]
      /\ b.verb # "delete" \/ b.table = "Receita" =>
           WriteAt[b.table][b.verb] < AnswerAt[b.table][b.verb]
      /\ \A k \in 1 .. Len(c) :
           /\ c[k] \in {"insert", "update", "destroy"} <=> k = WriteAt[b.table][b.verb]
           /\ c[k] = "insert" => b.verb = "create"
           /\ c[k] = "update" => b.verb = "edit"
           /\ c[k] = "destroy" => b.verb = "delete"
           /\ c[k] = "answer" <=> k = AnswerAt[b.table][b.verb]
           /\ c[k] = "notify" => b.table \in {"Receita", "Despesa"} /\ k > 1
           /\ ByInstalments(b) => (c[k] = "notify" <=> k = 4)
           /\ k = FoundAt[b.table][b.verb] => c[k] = "find" \/ (c[k] = "update" /\ b.table = "Categoria")
           /\ c[k] = "find" => k = FoundAt[b.table][b.verb]
           /\ k = 1 => c[k] # "notify" /\ c[k] # "answer" /\ c[k] # "destroy" /\
                       (c[k] = "insert" => b.table = "Carteira")

LEMMA Shapes ==
  ASSUME NEW b \in Asked, b.table = "Carteira" => b.verb = "create"
  PROVE  Shape(b)
<1>0. b.table \in Table \cup {"Carteira"} /\ b.verb \in {"create", "edit", "delete"}
  BY DEF Asked
<1>1. CASE b.table = "Receita" /\ b.verb = "create"
  <2>1. CodeOf(b) = <<"carteira", "insert", "notify", "answer">>
    BY <1>1 DEF CodeOf, Program, Receitas
  <2>2. /\ WriteAt[b.table][b.verb] = 2 /\ AnswerAt[b.table][b.verb] = 4
        /\ FoundAt[b.table][b.verb] = 9 /\ Length[b.table][b.verb] = 4
    BY <1>1 DEF WriteAt, AnswerAt, FoundAt, Length
  <2>3. CodeOf(b) = Despesas.create <=> ByInstalments(b)
    BY <1>1, <2>1 DEF Despesas, ByInstalments
  <2>4. DOMAIN CodeOf(b) = 1 .. 4 /\ Len(CodeOf(b)) = 4
    BY <2>1
  <2> QED
    BY <1>1, <2>1, <2>2, <2>3, <2>4 DEF Shape, ByInstalments
<1>2. CASE b.table = "Receita" /\ b.verb = "edit"
  <2>1. CodeOf(b) = <<"find", "update", "carteira", "notify", "answer">>
    BY <1>2 DEF CodeOf, Program, Receitas
  <2>2. /\ WriteAt[b.table][b.verb] = 2 /\ AnswerAt[b.table][b.verb] = 5
        /\ FoundAt[b.table][b.verb] = 1 /\ Length[b.table][b.verb] = 5
    BY <1>2 DEF WriteAt, AnswerAt, FoundAt, Length
  <2>3. CodeOf(b) = Despesas.create <=> ByInstalments(b)
    BY <1>2, <2>1 DEF Despesas, ByInstalments
  <2>4. DOMAIN CodeOf(b) = 1 .. 5 /\ Len(CodeOf(b)) = 5
    BY <2>1
  <2> QED
    BY <1>2, <2>1, <2>2, <2>3, <2>4 DEF Shape, ByInstalments
<1>3. CASE b.table = "Receita" /\ b.verb = "delete"
  <2>1. CodeOf(b) = <<"carteira", "find", "destroy", "notify", "answer">>
    BY <1>3 DEF CodeOf, Program, Receitas
  <2>2. /\ WriteAt[b.table][b.verb] = 3 /\ AnswerAt[b.table][b.verb] = 5
        /\ FoundAt[b.table][b.verb] = 2 /\ Length[b.table][b.verb] = 5
    BY <1>3 DEF WriteAt, AnswerAt, FoundAt, Length
  <2>3. CodeOf(b) = Despesas.create <=> ByInstalments(b)
    BY <1>3, <2>1 DEF Despesas, ByInstalments
  <2>4. DOMAIN CodeOf(b) = 1 .. 5 /\ Len(CodeOf(b)) = 5
    BY <2>1
  <2> QED
    BY <1>3, <2>1, <2>2, <2>3, <2>4 DEF Shape, ByInstalments
<1>4. CASE b.table = "Despesa" /\ b.verb = "create"
  <2>1. CodeOf(b) = <<"carteira", "categoria", "insert", "notify", "answer">>
    BY <1>4 DEF CodeOf, Program, Despesas
  <2>2. /\ WriteAt[b.table][b.verb] = 3 /\ AnswerAt[b.table][b.verb] = 5
        /\ FoundAt[b.table][b.verb] = 9 /\ Length[b.table][b.verb] = 5
    BY <1>4 DEF WriteAt, AnswerAt, FoundAt, Length
  <2>3. CodeOf(b) = Despesas.create <=> ByInstalments(b)
    BY <1>4, <2>1 DEF Despesas, ByInstalments
  <2>4. DOMAIN CodeOf(b) = 1 .. 5 /\ Len(CodeOf(b)) = 5
    BY <2>1
  <2> QED
    BY <1>4, <2>1, <2>2, <2>3, <2>4 DEF Shape, ByInstalments
<1>5. CASE b.table = "Despesa" /\ b.verb = "edit"
  <2>1. CodeOf(b) = <<"find", "update", "carteira", "notify", "answer">>
    BY <1>5 DEF CodeOf, Program, Despesas
  <2>2. /\ WriteAt[b.table][b.verb] = 2 /\ AnswerAt[b.table][b.verb] = 5
        /\ FoundAt[b.table][b.verb] = 1 /\ Length[b.table][b.verb] = 5
    BY <1>5 DEF WriteAt, AnswerAt, FoundAt, Length
  <2>3. CodeOf(b) = Despesas.create <=> ByInstalments(b)
    BY <1>5, <2>1 DEF Despesas, ByInstalments
  <2>4. DOMAIN CodeOf(b) = 1 .. 5 /\ Len(CodeOf(b)) = 5
    BY <2>1
  <2> QED
    BY <1>5, <2>1, <2>2, <2>3, <2>4 DEF Shape, ByInstalments
<1>6. CASE b.table = "Despesa" /\ b.verb = "delete"
  <2>1. CodeOf(b) = <<"find", "notify", "answer", "destroy">>
    BY <1>6 DEF CodeOf, Program, Despesas
  <2>2. /\ WriteAt[b.table][b.verb] = 4 /\ AnswerAt[b.table][b.verb] = 3
        /\ FoundAt[b.table][b.verb] = 1 /\ Length[b.table][b.verb] = 4
    BY <1>6 DEF WriteAt, AnswerAt, FoundAt, Length
  <2>3. CodeOf(b) = Despesas.create <=> ByInstalments(b)
    BY <1>6, <2>1 DEF Despesas, ByInstalments
  <2>4. DOMAIN CodeOf(b) = 1 .. 4 /\ Len(CodeOf(b)) = 4
    BY <2>1
  <2> QED
    BY <1>6, <2>1, <2>2, <2>3, <2>4 DEF Shape, ByInstalments
<1>7. CASE b.table = "Categoria" /\ b.verb = "create"
  <2>1. CodeOf(b) = <<"carteira", "insert", "answer">>
    BY <1>7 DEF CodeOf, Program, Categorias
  <2>2. /\ WriteAt[b.table][b.verb] = 2 /\ AnswerAt[b.table][b.verb] = 3
        /\ FoundAt[b.table][b.verb] = 9 /\ Length[b.table][b.verb] = 3
    BY <1>7 DEF WriteAt, AnswerAt, FoundAt, Length
  <2>3. CodeOf(b) = Despesas.create <=> ByInstalments(b)
    BY <1>7, <2>1 DEF Despesas, ByInstalments
  <2>4. DOMAIN CodeOf(b) = 1 .. 3 /\ Len(CodeOf(b)) = 3
    BY <2>1
  <2> QED
    BY <1>7, <2>1, <2>2, <2>3, <2>4 DEF Shape, ByInstalments
<1>8. CASE b.table = "Categoria" /\ b.verb = "edit"
  <2>1. CodeOf(b) = <<"update", "answer">>
    BY <1>8 DEF CodeOf, Program, Categorias
  <2>2. /\ WriteAt[b.table][b.verb] = 1 /\ AnswerAt[b.table][b.verb] = 2
        /\ FoundAt[b.table][b.verb] = 1 /\ Length[b.table][b.verb] = 2
    BY <1>8 DEF WriteAt, AnswerAt, FoundAt, Length
  <2>3. CodeOf(b) = Despesas.create <=> ByInstalments(b)
    BY <1>8, <2>1 DEF Despesas, ByInstalments
  <2>4. DOMAIN CodeOf(b) = 1 .. 2 /\ Len(CodeOf(b)) = 2
    BY <2>1
  <2> QED
    BY <1>8, <2>1, <2>2, <2>3, <2>4 DEF Shape, ByInstalments
<1>9. CASE b.table = "Categoria" /\ b.verb = "delete"
  <2>1. CodeOf(b) = <<"find", "answer", "destroy">>
    BY <1>9 DEF CodeOf, Program, Categorias
  <2>2. /\ WriteAt[b.table][b.verb] = 3 /\ AnswerAt[b.table][b.verb] = 2
        /\ FoundAt[b.table][b.verb] = 1 /\ Length[b.table][b.verb] = 3
    BY <1>9 DEF WriteAt, AnswerAt, FoundAt, Length
  <2>3. CodeOf(b) = Despesas.create <=> ByInstalments(b)
    BY <1>9, <2>1 DEF Despesas, ByInstalments
  <2>4. DOMAIN CodeOf(b) = 1 .. 3 /\ Len(CodeOf(b)) = 3
    BY <2>1
  <2> QED
    BY <1>9, <2>1, <2>2, <2>3, <2>4 DEF Shape, ByInstalments
<1>10. CASE b.table = "Carteira" /\ b.verb = "create"
  <2>1. CodeOf(b) = <<"insert", "answer">>
    BY <1>10 DEF CodeOf, Program
  <2>2. /\ WriteAt[b.table][b.verb] = 1 /\ AnswerAt[b.table][b.verb] = 2
        /\ FoundAt[b.table][b.verb] = 9 /\ Length[b.table][b.verb] = 2
    BY <1>10 DEF WriteAt, AnswerAt, FoundAt, Length
  <2>3. CodeOf(b) = Despesas.create <=> ByInstalments(b)
    BY <1>10, <2>1 DEF Despesas, ByInstalments
  <2>4. DOMAIN CodeOf(b) = 1 .. 2 /\ Len(CodeOf(b)) = 2
    BY <2>1
  <2> QED
    BY <1>10, <2>1, <2>2, <2>3, <2>4 DEF Shape, ByInstalments
<1> QED
  BY <1>0, <1>1, <1>2, <1>3, <1>4, <1>5, <1>6, <1>7, <1>8, <1>9, <1>10 DEF Table

-----------------------------------------------------------------------------
(***************************************************************************)
(* What is known of a request from how far it has come: its wallet exists, *)
(* how often it has written, whether it has answered, that the row it      *)
(* names is of its table and wallet, and that a deleted income is gone.    *)
(***************************************************************************)
Past(r, Position) == requests[r].pc > Position[Ask(r).table][Ask(r).verb]

Placed(r) ==
  /\ Ask(r).id \in used
  /\ \A d \in rows : d.id = Ask(r).id => d.table = Ask(r).table /\ d.carteira = Ask(r).carteira

Gone(r) == Ask(r).id \in used /\ \A d \in rows : d.id # Ask(r).id

DeletesReceita(r) == Ask(r).verb = "delete" /\ Ask(r).table = "Receita"

Progress(r) ==
  /\ requests[r].pc > 1 => Ask(r).carteira \in DOMAIN saldo
  /\ (requests[r].pc > 0 /\ ~ByInstalments(Ask(r)) /\ Ask(r).table # "Carteira") =>
       requests[r].made = IF Past(r, WriteAt) THEN 1 ELSE 0
  /\ (ByInstalments(Ask(r)) /\ requests[r].pc \in 1 .. 3) => requests[r].made < Ask(r).parcela
  /\ requests[r].pc > 0 => requests[r].answer = IF Past(r, AnswerAt) THEN "ok" ELSE "none"
  /\ Past(r, FoundAt) => Placed(r)
  /\ DeletesReceita(r) /\ requests[r].made = 1 => Gone(r)
  /\ DeletesReceita(r) /\ requests[r].answer = "ok" => requests[r].made = 1

Inv == TypeOK /\ \A r \in Received : Progress(r)

(* Rows come with ids of their own, and stay where they are. *)
RowsFollow ==
  /\ used \subseteq used'
  /\ \A e \in rows' : e.id \in used =>
       \E d \in rows : d.id = e.id /\ d.table = e.table /\ d.carteira = e.carteira

LEMMA AskOK ==
  ASSUME NEW r \in Received, RequestOK(r)
  PROVE  /\ Ask(r) \in Asked /\ Ask(r) \in Body /\ Shape(Ask(r)) /\ Code(r) = CodeOf(Ask(r))
         /\ Ask(r).table \in Table \cup {"Carteira"} /\ Ask(r).verb \in {"create", "edit", "delete"}
         /\ Ask(r).table = "Carteira" => Ask(r).verb = "create"
         /\ Ask(r).carteira \in Wallet /\ Ask(r).valor \in Int /\ Ask(r).parcela \in Nat \ {0}
         /\ Ask(r).valido \in BOOLEAN /\ Ask(r).categoria \in Item \cup {Null}
<1>1. Ask(r) \in Body
  BY DEF RequestOK, Ask
<1>2. Ask(r) \in Asked /\ (Ask(r).table = "Carteira" => Ask(r).verb = "create")
  BY <1>1, BodyAssumption
<1> QED
  BY <1>1, <1>2, Shapes DEF Code, CodeOf, Asked

(* Requests that a step leaves alone lose nothing by it. *)
LEMMA Others ==
  ASSUME NEW q \in Received, RequestOK(q), Progress(q),
         q \in Received', requests'[q] = requests[q],
         DOMAIN saldo \subseteq DOMAIN saldo', RowsFollow
  PROVE  RequestOK(q)' /\ Progress(q)'
<1>1. Ask(q)' = Ask(q) /\ Code(q)' = Code(q)
  BY DEF Ask, Code
<1>2. RequestOK(q)'
  BY <1>1 DEF RequestOK
<1>3. Placed(q) => Placed(q)'
  BY <1>1 DEF Placed, RowsFollow
<1>4. Gone(q) => Gone(q)'
  BY <1>1 DEF Gone, RowsFollow
<1> QED
  BY <1>1, <1>2, <1>3, <1>4 DEF Progress, Past, DeletesReceita, ByInstalments

(* Steps that leave the rows alone. *)
LEMMA SameRows == UNCHANGED <<rows, used>> => RowsFollow
  BY DEF RowsFollow

-----------------------------------------------------------------------------
(* The request that a step works on, when the step only moves it on. *)
LEMMA Moves ==
  ASSUME Inv, NEW r \in Received, Running(r),
         r \in Received', requests'[r].body = requests[r].body,
         requests'[r].pc = requests[r].pc + 1,
         requests'[r].old \in Int,
         requests'[r].made = requests[r].made, requests'[r].answer = requests[r].answer,
         requests'[r] \in [body : Body, pc : Nat, old : Int, made : Nat,
                           answer : {"none", "ok", "error"}],
         Code(r)[requests[r].pc] \notin {"update", "destroy", "answer"},
         Code(r)[requests[r].pc] = "insert" => Ask(r).table = "Carteira",
         ByInstalments(Ask(r)) => requests[r].pc # 3,
         requests[r].pc = 1 => Ask(r).carteira \in DOMAIN saldo',
         requests[r].pc = FoundAt[Ask(r).table][Ask(r).verb] => Placed(r),
         DOMAIN saldo \subseteq DOMAIN saldo', RowsFollow
  PROVE  RequestOK(r)' /\ Progress(r)'
<1> DEFINE p == requests[r].pc
<1>1. RequestOK(r) /\ Progress(r) /\ p \in 1 .. Len(Code(r)) /\ Len(Code(r)) \in 2 .. 5
  BY AskOK DEF Inv, TypeOK, Running, Shape
<1>2. Ask(r)' = Ask(r) /\ Code(r)' = Code(r)
  BY DEF Ask, Code
<1>3. RequestOK(r)'
  BY <1>1, <1>2 DEF RequestOK
<1>4. Placed(r) => Placed(r)'
  BY <1>2 DEF Placed, RowsFollow
<1>5. Gone(r) => Gone(r)'
  BY <1>2 DEF Gone, RowsFollow
<1>6. p # AnswerAt[Ask(r).table][Ask(r).verb]
  BY <1>1, AskOK DEF Shape
<1>7. p # WriteAt[Ask(r).table][Ask(r).verb] \/ Ask(r).table = "Carteira"
  BY <1>1, AskOK DEF Shape
<1>8. /\ Past(r, AnswerAt)' <=> Past(r, AnswerAt)
      /\ Ask(r).table # "Carteira" => (Past(r, WriteAt)' <=> Past(r, WriteAt))
      /\ Past(r, FoundAt)' => (Past(r, FoundAt) \/ p = FoundAt[Ask(r).table][Ask(r).verb])
  BY <1>1, <1>2, <1>6, <1>7, AskOK DEF Past, Shape
<1>9. /\ requests'[r].pc > 1 => Ask(r)'.carteira \in DOMAIN saldo'
      /\ (ByInstalments(Ask(r)') /\ requests'[r].pc \in 1 .. 3) => requests'[r].made < Ask(r)'.parcela
  BY <1>1, <1>2 DEF Progress
<1> QED
  BY <1>1, <1>2, <1>3, <1>4, <1>5, <1>8, <1>9 DEF Progress, DeletesReceita

(* The request that a step works on, when the step writes its row. *)
LEMMA Writes ==
  ASSUME Inv, NEW r \in Received, Running(r), Ask(r).table # "Carteira",
         Written(r),
         Code(r)[requests[r].pc] \in {"insert", "update", "destroy"},
         Ask(r).carteira \in DOMAIN saldo,
         Ask(r).verb # "create" => Placed(r),
         Ask(r).verb = "delete" => \A d \in rows' : d.id # Ask(r).id,
         UNCHANGED saldo, RowsFollow
  PROVE  RequestOK(r)' /\ Progress(r)'
<1> DEFINE p == requests[r].pc
<1>1. RequestOK(r) /\ Progress(r) /\ p \in 1 .. Len(Code(r)) /\ Len(Code(r)) \in 2 .. 5
  BY AskOK DEF Inv, TypeOK, Running, Shape
<1> DEFINE Record == [body : Body, pc : Nat, old : Int, made : Nat, answer : {"none", "ok", "error"}]
<1> DEFINE moved == [requests[r] EXCEPT !.pc = @ + 1]
<1>m. /\ moved \in Record /\ moved.pc = p + 1 /\ moved.body = requests[r].body
      /\ moved.made = requests[r].made /\ moved.answer = requests[r].answer
      /\ moved.old = requests[r].old
  BY <1>1 DEF RequestOK
<1>2. r \in Received' /\ requests'[r] = [moved EXCEPT !.made = @ + 1]
  BY DEF Written, Received
<1> HIDE DEF moved
<1>3. /\ requests'[r].pc = p + 1 /\ requests'[r].made = requests[r].made + 1
      /\ requests'[r].answer = requests[r].answer /\ requests'[r].old = requests[r].old
      /\ Ask(r)' = Ask(r) /\ Code(r)' = Code(r)
      /\ requests'[r] \in Record
  BY <1>m, <1>2 DEF Ask, Code
<1>4. p = WriteAt[Ask(r).table][Ask(r).verb] /\ ~Past(r, WriteAt) /\ Past(r, WriteAt)'
  BY <1>1, <1>3, AskOK DEF Shape, Past
<1>5. /\ ~ByInstalments(Ask(r)) => requests[r].made = 0
      /\ ByInstalments(Ask(r)) => p = 3 /\ requests[r].made < Ask(r).parcela
  BY <1>1, <1>4, AskOK DEF Progress, Shape
<1>6. RequestOK(r)'
  BY <1>1, <1>3, <1>5, AskOK DEF RequestOK, Shape
<1>7. Past(r, AnswerAt)' <=> Past(r, AnswerAt)
  BY <1>1, <1>3, <1>4, AskOK DEF Past, Shape
<1>8. Placed(r) => Placed(r)'
  BY <1>3 DEF Placed, RowsFollow
<1>9. Past(r, FoundAt)' => Placed(r)'
  BY <1>1, <1>3, <1>8, AskOK DEF Past, Shape
<1>10. DeletesReceita(r) => Gone(r)'
  BY <1>3, <1>8 DEF DeletesReceita, Gone, Placed
<1>11. ~(DeletesReceita(r) /\ requests[r].answer = "ok")
  BY <1>1, <1>4, AskOK DEF Progress, Past, DeletesReceita, Shape
<1> QED
  BY <1>1, <1>3, <1>4, <1>5, <1>6, <1>7, <1>9, <1>10, <1>11, AskOK
  DEF Progress, DeletesReceita, Shape

(* All of the invariant, from what a step does to one request. *)
LEMMA StepOf ==
  ASSUME Inv, NEW r \in Received, Received' = Received,
         \A q \in Received \ {r} : requests'[q] = requests[q],
         RequestOK(r)', Progress(r)',
         DOMAIN saldo \subseteq DOMAIN saldo', DOMAIN saldo' \subseteq Wallet,
         saldo' \in [DOMAIN saldo' -> Int \cup {NaN}],
         RowsFollow, RowsOK', observers' \in [{"Receita", "Despesa"} -> Nat],
         \A u \in BagToSet(updates') : UpdateOK(u)', UNCHANGED restarts,
         excess' \in [Wallet -> Int \cup {NaN}]
  PROVE  Inv'
<1>1. \A q \in Received' : RequestOK(q)' /\ Progress(q)'
  BY Others DEF Inv, TypeOK
<1> QED
  BY <1>1 DEF Inv, TypeOK

LEMMA PlusTyped ==
  ASSUME NEW a \in Int \cup {NaN}, NEW b \in Int \cup {NaN}
  PROVE  /\ Plus(a, b) \in Int \cup {NaN}
         /\ a = NaN \/ b = NaN <=> Plus(a, b) = NaN
         /\ Plus(a, b) # NaN => Plus(a, b) = a + b
<1>1. CASE a = NaN \/ b = NaN
  BY <1>1 DEF Plus
<1>2. CASE a \in Int /\ b \in Int
  <2>1. a + b \in Int /\ a # NaN /\ b # NaN
    BY <1>2, NaNAssumption
  <2> QED
    BY <2>1, NaNAssumption DEF Plus
<1> QED
  BY <1>1, <1>2

LEMMA BookTyped ==
  ASSUME Inv, NEW w \in Wallet, NEW amount \in Int \cup {NaN}, Book(w, amount)
  PROVE  excess' \in [Wallet -> Int \cup {NaN}]
<1>1. excess \in [Wallet -> Int \cup {NaN}]
  BY DEF Inv, TypeOK
<1>2. Plus(excess[w], amount) \in Int \cup {NaN}
  BY <1>1, PlusTyped
<1> QED
  BY <1>1, <1>2 DEF Book

LEMMA DisturbTyped ==
  ASSUME Inv, NEW accident \in BOOLEAN, NEW w \in Wallet, Disturb(accident, w)
  PROVE  excess' \in [Wallet -> Int \cup {NaN}]
<1>1. (IF accident THEN NaN ELSE 0) \in Int \cup {NaN}
  OBVIOUS
<1> QED
  BY <1>1, BookTyped DEF Disturb

LEMMA UpdatesKept ==
  ASSUME Inv, UNCHANGED updates, DOMAIN saldo \subseteq DOMAIN saldo'
  PROVE  \A u \in BagToSet(updates') : UpdateOK(u)'
  BY DEF Inv, TypeOK, UpdateOK

(* A total is the sum of a function, which is a number. *)
Valor == [d \in Row |-> d.valor]

LEMMA TotalIs ==
  ASSUME NEW R \in SUBSET Row, IsFiniteSet(R), NEW t, NEW w
  PROVE  /\ Total(R, t, w) = Soma(Valor, RowsOf(R, t, w)) /\ Total(R, t, w) \in Int
         /\ RowsOf(R, t, w) \subseteq R /\ IsFiniteSet(RowsOf(R, t, w))
         /\ \A d \in R : Valor[d] = d.valor /\ d.valor \in Int
<1> DEFINE T == RowsOf(R, t, w)
<1>1. T \subseteq R
  BY DEF RowsOf
<1>2. Total(R, t, w) = SomaDosValores(T)
  BY DEF Total, SomaDosValores
<1> HIDE DEF T
<1>3. \A d \in R : Valor[d] = d.valor /\ d.valor \in Int
  BY DEF Valor, Row
<1>4. IsFiniteSet(T)
  BY <1>1, FiniteSubset
<1>5. SomaDosValores(T) = Soma(Valor, T) /\ Soma(Valor, T) \in Int
  BY <1>1, <1>3, <1>4, SomaDosValoresSums, SomaInt
<1> QED
  BY <1>1, <1>2, <1>3, <1>4, <1>5 DEF T

LEMMA BalanceTyped ==
  ASSUME NEW R \in SUBSET Row, IsFiniteSet(R), NEW w
  PROVE  Balance(R, w) \in Int
  BY TotalIs DEF Balance

LEMMA InitInv == Init => Inv
<1> SUFFICES ASSUME Init PROVE Inv
  OBVIOUS
<1>1. RowsOK
  BY StoredAssumption DEF Init, RowsOK, Row
<1>2. DOMAIN saldo \subseteq Wallet /\ saldo \in [DOMAIN saldo -> Int \cup {NaN}]
  BY StoredAssumption, BalanceTyped DEF Init, Row
<1>3. BagToSet(updates) = {}
  BY DEF Init, BagToSet, EmptyBag, SetToBag
<1> QED
  BY <1>1, <1>2, <1>3, RestartsAssumption DEF Init, Inv, TypeOK, Received

-----------------------------------------------------------------------------
LEMMA AtFacts ==
  ASSUME Inv, NEW r, NEW statement, At(r, statement)
  PROVE  /\ r \in Received /\ Running(r) /\ RequestOK(r) /\ Progress(r)
         /\ Code(r)[requests[r].pc] = statement
         /\ requests[r].pc \in 1 .. Len(Code(r)) /\ Len(Code(r)) \in 2 .. 5
         /\ ByInstalments(Ask(r)) => WriteAt[Ask(r).table][Ask(r).verb] = 3
<1>1. r \in Received /\ Running(r) /\ Code(r)[requests[r].pc] = statement
  BY DEF At
<1>2. RequestOK(r) /\ Progress(r)
  BY <1>1 DEF Inv, TypeOK
<1> QED
  BY <1>1, <1>2, AskOK DEF Running, Shape

LEMMA Advances ==
  ASSUME NEW r \in Received, RequestOK(r), Advance(r)
  PROVE  /\ Received' = Received /\ \A q \in Received \ {r} : requests'[q] = requests[q]
         /\ requests'[r].body = requests[r].body /\ requests'[r].pc = requests[r].pc + 1
         /\ requests'[r].old = requests[r].old
         /\ requests'[r].made = requests[r].made /\ requests'[r].answer = requests[r].answer
         /\ requests'[r] \in [body : Body, pc : Nat, old : Int, made : Nat,
                              answer : {"none", "ok", "error"}]
  BY DEF RequestOK, Advance, Received

(* Looking something up is no write and no answer. *)
LEMMA Lookup ==
  ASSUME Inv, NEW r, NEW statement \in {"carteira", "categoria", "find"}, At(r, statement)
  PROVE  /\ Code(r)[requests[r].pc] \notin {"insert", "update", "destroy", "answer"}
         /\ ByInstalments(Ask(r)) => requests[r].pc # 3
         /\ statement # "find" => requests[r].pc # FoundAt[Ask(r).table][Ask(r).verb]
  BY AtFacts, AskOK DEF Shape

LEMMA WrittenFrame ==
  ASSUME NEW r \in Received, Written(r)
  PROVE  Received' = Received /\ \A q \in Received \ {r} : requests'[q] = requests[q]
  BY DEF Written, Received

LEMMA FindCarteiraInv ==
  ASSUME Inv, NEW r \in Request, FindCarteira(r)
  PROVE  Inv'
<1>1. /\ At(r, "carteira") /\ Ask(r).carteira \in DOMAIN saldo /\ Advance(r)
      /\ UNCHANGED <<saldo, rows, used, observers, updates, restarts, excess>>
  BY DEF FindCarteira
<1>2. RequestOK(r)' /\ Progress(r)'
  <2>1. /\ r \in Received /\ Running(r) /\ RequestOK(r) /\ requests[r].old \in Int
        /\ Code(r)[requests[r].pc] \notin {"insert", "update", "destroy", "answer"}
        /\ ByInstalments(Ask(r)) => requests[r].pc # 3
        /\ requests[r].pc # FoundAt[Ask(r).table][Ask(r).verb]
    BY <1>1, AtFacts, Lookup DEF RequestOK
  <2> QED
    BY <1>1, <2>1, Advances, Moves, SameRows
<1>3. RowsOK'
  BY <1>1 DEF Inv, TypeOK, RowsOK
<1> QED
  BY <1>1, <1>2, <1>3, AtFacts, Advances, UpdatesKept, SameRows, StepOf DEF Inv, TypeOK

LEMMA FindCategoriaInv ==
  ASSUME Inv, NEW r \in Request, FindCategoria(r)
  PROVE  Inv'
<1>1. /\ At(r, "categoria") /\ Advance(r)
      /\ UNCHANGED <<saldo, rows, used, observers, updates, restarts, excess>>
  BY DEF FindCategoria
<1>2. Ask(r).carteira \in DOMAIN saldo
  BY DEF FindCategoria, RowsOf, Inv, TypeOK, RowsOK
<1>3. RequestOK(r)' /\ Progress(r)'
  <2>1. /\ r \in Received /\ Running(r) /\ RequestOK(r) /\ requests[r].old \in Int
        /\ Code(r)[requests[r].pc] \notin {"insert", "update", "destroy", "answer"}
        /\ ByInstalments(Ask(r)) => requests[r].pc # 3
        /\ requests[r].pc # FoundAt[Ask(r).table][Ask(r).verb]
    BY <1>1, AtFacts, Lookup DEF RequestOK
  <2> QED
    BY <1>1, <1>2, <2>1, Advances, Moves, SameRows
<1>4. RowsOK'
  BY <1>1 DEF Inv, TypeOK, RowsOK
<1> QED
  BY <1>1, <1>3, <1>4, AtFacts, Advances, UpdatesKept, SameRows, StepOf DEF Inv, TypeOK

(* A row found by id, table and wallet is the only one with that id. *)
LEMMA NamedPlaced ==
  ASSUME Inv, NEW r \in Received, NEW d \in Named(rows, Ask(r))
  PROVE  /\ d \in rows /\ d.id = Ask(r).id /\ d.valor \in Int
         /\ Ask(r).carteira \in DOMAIN saldo /\ Placed(r)
  BY DEF Named, RowsOf, Placed, Inv, TypeOK, RowsOK, Row

LEMMA FindInv ==
  ASSUME Inv, NEW r \in Request, Find(r)
  PROVE  Inv'
<1>1. PICK d \in Named(rows, Ask(r)) :
        requests' = [requests EXCEPT ![r].pc = @ + 1, ![r].old = d.valor]
  BY DEF Find
<1>2. At(r, "find") /\ UNCHANGED <<saldo, rows, used, observers, updates, restarts, excess>>
  BY DEF Find
<1>3. r \in Received /\ RequestOK(r)
  BY <1>2, AtFacts
<1> DEFINE Record == [body : Body, pc : Nat, old : Int, made : Nat, answer : {"none", "ok", "error"}]
<1> DEFINE moved == [requests[r] EXCEPT !.pc = @ + 1]
<1>m. /\ moved \in Record /\ moved.pc = requests[r].pc + 1 /\ moved.body = requests[r].body
      /\ moved.made = requests[r].made /\ moved.answer = requests[r].answer
  BY <1>3 DEF RequestOK
<1>4. /\ Received' = Received /\ \A q \in Received \ {r} : requests'[q] = requests[q]
      /\ requests'[r] = [moved EXCEPT !.old = d.valor]
  BY <1>1, <1>3 DEF Received
<1> HIDE DEF moved
<1>5. d.valor \in Int /\ Ask(r).carteira \in DOMAIN saldo /\ Placed(r)
  BY <1>3, NamedPlaced
<1>6. /\ requests'[r] \in Record /\ requests'[r].pc = requests[r].pc + 1
      /\ requests'[r].body = requests[r].body /\ requests'[r].old \in Int
      /\ requests'[r].made = requests[r].made /\ requests'[r].answer = requests[r].answer
  BY <1>m, <1>4, <1>5
<1>7. RequestOK(r)' /\ Progress(r)'
  <2>1. /\ Running(r)
        /\ Code(r)[requests[r].pc] \notin {"insert", "update", "destroy", "answer"}
        /\ ByInstalments(Ask(r)) => requests[r].pc # 3
    BY <1>2, AtFacts, Lookup
  <2> QED
    BY <1>2, <1>3, <1>4, <1>5, <1>6, <2>1, Moves, SameRows
<1>8. RowsOK'
  BY <1>2 DEF Inv, TypeOK, RowsOK
<1> QED
  BY <1>2, <1>3, <1>4, <1>7, <1>8, UpdatesKept, SameRows, StepOf DEF Inv, TypeOK

-----------------------------------------------------------------------------
(* What the operators of Linhas do to the rows. *)
LEMMA SharesTyped ==
  ASSUME NEW b \in Asked, b.table \in Table, NEW share \in Shares(b)
  PROVE  share \in Int
<1>1. b.valor \in Int /\ b.parcela \in Nat \ {0}
  BY DEF Asked
<1>2. CASE b.table = "Receita"
  BY <1>1, <1>2 DEF Shares
<1>3. CASE b.table = "Categoria"
  BY <1>1, <1>3 DEF Shares
<1>4. CASE b.table = "Despesa"
  <2>1. b.valor \div b.parcela \in Int
    BY <1>1
  <2>2. share \in {b.valor \div b.parcela, b.valor \div b.parcela + 1}
    BY <1>4 DEF Shares
  <2> QED
    BY <2>1, <2>2
<1> QED
  BY <1>2, <1>3, <1>4 DEF Table

LEMMA InsertRows ==
  ASSUME Inv, NEW b \in Asked, b.table \in Table, b.carteira \in DOMAIN saldo,
         NEW i \in Item \ used, NEW share \in Shares(b),
         rows' = rows \cup {NewRow(b, i, share)}, used' = used \cup {i}, UNCHANGED saldo
  PROVE  RowsOK' /\ RowsFollow
<1>1. share \in Int
  BY SharesTyped
<1>2. /\ NewRow(b, i, share) \in Row /\ NewRow(b, i, share).id = i
      /\ NewRow(b, i, share).carteira = b.carteira
  BY <1>1 DEF NewRow, CategoryIn, Row, Asked
<1>3. RowsOK
  BY DEF Inv, TypeOK
<1> QED
  BY <1>2, <1>3 DEF RowsOK, RowsFollow

LEMMA EditedRowIs ==
  ASSUME NEW b \in Asked, NEW d \in Row
  PROVE  /\ EditedRow(d, b) \in Row /\ EditedRow(d, b).id = d.id
         /\ EditedRow(d, b).table = d.table /\ EditedRow(d, b).carteira = d.carteira
         /\ EditedRow(d, b).valor = IF Sets(b, "valor") THEN b.valor ELSE d.valor
<1> DEFINE v == IF Sets(b, "valor") THEN b.valor ELSE d.valor
           c == IF b.table = "Despesa" /\ Sets(b, "categoria") THEN b.categoria ELSE d.categoria
<1>1. v \in Int /\ c \in Item \cup {Null}
  BY DEF Row, Asked
<1>2. EditedRow(d, b) = [[d EXCEPT !.valor = v] EXCEPT !.categoria = c]
  BY DEF EditedRow, Row
<1> HIDE DEF v, c
<1>3. /\ [d EXCEPT !.valor = v] \in Row /\ [d EXCEPT !.valor = v].valor = v
      /\ [d EXCEPT !.valor = v].id = d.id /\ [d EXCEPT !.valor = v].table = d.table
      /\ [d EXCEPT !.valor = v].carteira = d.carteira
  BY <1>1 DEF Row
<1>4. \A e \in Row : /\ [e EXCEPT !.categoria = c] \in Row /\ [e EXCEPT !.categoria = c].id = e.id
                     /\ [e EXCEPT !.categoria = c].table = e.table
                     /\ [e EXCEPT !.categoria = c].carteira = e.carteira
                     /\ [e EXCEPT !.categoria = c].valor = e.valor
  BY <1>1 DEF Row
<1>5. EditedRow(d, b).valor = v
  BY <1>2, <1>3, <1>4
<1> QED
  BY <1>2, <1>3, <1>4, <1>5 DEF v

LEMMA EditRows ==
  ASSUME Inv, NEW b \in Asked, rows' = Edited(rows, b), UNCHANGED <<used, saldo>>
  PROVE  RowsOK' /\ RowsFollow
<1>1. RowsOK
  BY DEF Inv, TypeOK
<1>2. Named(rows, b) \subseteq rows
  BY DEF Named, RowsOf
<1>3. \A d \in Named(rows, b) :
        /\ EditedRow(d, b) \in Row /\ EditedRow(d, b).id = d.id /\ EditedRow(d, b).table = d.table
        /\ EditedRow(d, b).carteira = d.carteira
  BY <1>1, <1>2, EditedRowIs DEF RowsOK
<1>4. rows' = (rows \ Named(rows, b)) \cup {EditedRow(d, b) : d \in Named(rows, b)}
  BY DEF Edited
<1> QED
  BY <1>1, <1>2, <1>3, <1>4 DEF RowsOK, RowsFollow

LEMMA DestroyRows ==
  ASSUME Inv, NEW D \in SUBSET rows, rows' = Without(rows, D), UNCHANGED <<used, saldo>>
  PROVE  /\ RowsOK' /\ RowsFollow
         /\ \A e \in rows' : \A d \in D : e.id # d.id
<1> DEFINE Orphan(d) ==
      [d EXCEPT !.categoria = IF \E c \in D : c.table = "Categoria" /\ c.id = @ THEN Null ELSE @]
<1>1. RowsOK
  BY DEF Inv, TypeOK
<1>2. \A d \in rows : /\ Orphan(d) \in Row /\ Orphan(d).id = d.id /\ Orphan(d).table = d.table
                      /\ Orphan(d).carteira = d.carteira
  BY <1>1 DEF RowsOK, Row
<1>3. rows' = {Orphan(d) : d \in rows \ D}
  BY DEF Without
<1> HIDE DEF Orphan
<1> QED
  BY <1>1, <1>2, <1>3 DEF RowsOK, RowsFollow

-----------------------------------------------------------------------------
(* A statement that writes stands where its program writes. *)
LEMMA Writing ==
  ASSUME Inv, NEW r, NEW statement \in {"insert", "update", "destroy"}, At(r, statement),
         Ask(r).table # "Carteira"
  PROVE  /\ Ask(r) \in Asked /\ Ask(r).table \in Table
         /\ requests[r].pc = WriteAt[Ask(r).table][Ask(r).verb]
         /\ statement = "insert" => Ask(r).verb = "create" /\ Ask(r).carteira \in DOMAIN saldo
         /\ statement = "update" => Ask(r).verb = "edit"
         /\ statement = "destroy" =>
              Ask(r).verb = "delete" /\ Ask(r).carteira \in DOMAIN saldo /\ Placed(r)
  BY AtFacts, AskOK DEF Shape, Progress, Past

LEMMA InsertInv ==
  ASSUME Inv, NEW r \in Request, Insert(r)
  PROVE  Inv'
<1>1. /\ At(r, "insert") /\ Ask(r).table # "Carteira" /\ Written(r)
      /\ UNCHANGED <<saldo, observers, updates, restarts>>
  BY DEF Insert
<1>2. PICK i \in Item \ used, share \in Shares(Ask(r)) :
        /\ rows' = rows \cup {NewRow(Ask(r), i, share)} /\ used' = used \cup {i}
        /\ Book(Ask(r).carteira, IF Ask(r).table = "Despesa" THEN share - Ask(r).valor ELSE 0)
  BY DEF Insert
<1>3. RowsOK' /\ RowsFollow
  BY <1>1, <1>2, Writing, InsertRows
<1>4. RequestOK(r)' /\ Progress(r)'
  BY <1>1, <1>3, AtFacts, Writing, Writes
<1>5. excess' \in [Wallet -> Int \cup {NaN}]
  <2>1. share \in Int /\ Ask(r).valor \in Int /\ Ask(r).carteira \in Wallet
    BY <1>1, <1>2, AtFacts, AskOK, Writing, SharesTyped
  <2>2. (IF Ask(r).table = "Despesa" THEN share - Ask(r).valor ELSE 0) \in Int
    BY <2>1
  <2> QED
    BY <1>2, <2>1, <2>2, BookTyped
<1> QED
  BY <1>1, <1>3, <1>4, <1>5, AtFacts, WrittenFrame, UpdatesKept, StepOf DEF Inv, TypeOK

LEMMA CreateCarteiraInv ==
  ASSUME Inv, NEW r \in Request, CreateCarteira(r)
  PROVE  Inv'
<1>1. /\ At(r, "insert") /\ Ask(r).table = "Carteira" /\ Ask(r).carteira \notin DOMAIN saldo
      /\ saldo' = With(saldo, Ask(r).carteira, 0) /\ Advance(r)
      /\ UNCHANGED <<rows, used, observers, updates, restarts, excess>>
  BY DEF CreateCarteira
<1>2. /\ r \in Received /\ Running(r) /\ RequestOK(r) /\ Ask(r).carteira \in Wallet
      /\ Code(r)[requests[r].pc] = "insert" /\ requests[r].old \in Int
      /\ ~ByInstalments(Ask(r))
      /\ requests[r].pc # FoundAt[Ask(r).table][Ask(r).verb]
  BY <1>1, AtFacts, AskOK DEF RequestOK, ByInstalments, Shape
<1>3. /\ DOMAIN saldo' = DOMAIN saldo \cup {Ask(r).carteira}
      /\ \A w \in DOMAIN saldo' : saldo'[w] = IF w \in DOMAIN saldo THEN saldo[w] ELSE 0
  BY <1>1, <1>2 DEF With
<1>4. RequestOK(r)' /\ Progress(r)'
  BY <1>1, <1>2, <1>3, Advances, Moves, SameRows
<1>5. RowsOK'
  BY <1>1, <1>3 DEF Inv, TypeOK, RowsOK
<1>6. DOMAIN saldo' \subseteq Wallet /\ saldo' \in [DOMAIN saldo' -> Int \cup {NaN}]
  <2>1. saldo' = [w \in DOMAIN saldo' |-> saldo'[w]]
    BY <1>1 DEF With
  <2>2. \A w \in DOMAIN saldo' : saldo'[w] \in Int \cup {NaN}
    BY <1>3 DEF Inv, TypeOK
  <2>3. DOMAIN saldo' \subseteq Wallet
    BY <1>2, <1>3 DEF Inv, TypeOK
  <2> QED
    BY <2>1, <2>2, <2>3
<1> QED
  BY <1>1, <1>2, <1>3, <1>4, <1>5, <1>6, Advances, UpdatesKept, SameRows, StepOf DEF Inv, TypeOK

LEMMA StaleTyped == \A r : Stale(r) \in BOOLEAN
  BY DEF Stale

LEMMA UpdateInv ==
  ASSUME Inv, NEW r \in Request, Update(r)
  PROVE  Inv'
<1>1. /\ At(r, "update") /\ Written(r) /\ rows' = Edited(rows, Ask(r)) /\ Named(rows, Ask(r)) # {}
      /\ UNCHANGED <<saldo, used, observers, updates, restarts>>
  BY DEF Update, Editable
<1>2. /\ r \in Received /\ Running(r) /\ Code(r)[requests[r].pc] = "update" /\ Ask(r) \in Asked
      /\ Ask(r).table # "Carteira" /\ Ask(r).verb = "edit"
  BY <1>1, AtFacts, AskOK DEF Shape
<1>3. RowsOK' /\ RowsFollow
  BY <1>1, <1>2, EditRows
<1>4. Ask(r).carteira \in DOMAIN saldo /\ Placed(r)
  BY <1>1, <1>2, NamedPlaced
<1>5. RequestOK(r)' /\ Progress(r)'
  BY <1>1, <1>2, <1>3, <1>4, Writes
<1>6. excess' \in [Wallet -> Int \cup {NaN}]
  BY <1>1, <1>2, AtFacts, AskOK, StaleTyped, DisturbTyped DEF Update
<1> QED
  BY <1>1, <1>2, <1>3, <1>5, <1>6, WrittenFrame, UpdatesKept, StepOf DEF Inv, TypeOK

LEMMA DestroyInv ==
  ASSUME Inv, NEW r \in Request, Destroy(r)
  PROVE  Inv'
<1>1. /\ At(r, "destroy") /\ Written(r) /\ rows' = Without(rows, Named(rows, Ask(r)))
      /\ UNCHANGED <<saldo, used, observers, updates, restarts>>
  BY DEF Destroy
<1>2. /\ r \in Received /\ Running(r) /\ Code(r)[requests[r].pc] = "destroy"
      /\ Ask(r).table # "Carteira"
  BY <1>1, AtFacts, AskOK DEF Shape
<1>3. Ask(r).verb = "delete" /\ Ask(r).carteira \in DOMAIN saldo /\ Placed(r)
  BY <1>1, <1>2, Writing
<1>4. Named(rows, Ask(r)) \subseteq rows
  BY DEF Named, RowsOf
<1>5. /\ RowsOK' /\ RowsFollow
      /\ \A e \in rows' : \A d \in Named(rows, Ask(r)) : e.id # d.id
  BY <1>1, <1>4, DestroyRows
<1>6. \A e \in rows' : e.id # Ask(r).id
  BY <1>3, <1>5 DEF Placed, RowsFollow, Named, RowsOf
<1>7. RequestOK(r)' /\ Progress(r)'
  BY <1>1, <1>2, <1>3, <1>5, <1>6, Writes
<1>8. excess' \in [Wallet -> Int \cup {NaN}]
  BY <1>1, <1>2, AtFacts, AskOK, StaleTyped, DisturbTyped DEF Destroy
<1> QED
  BY <1>1, <1>2, <1>5, <1>7, <1>8, WrittenFrame, UpdatesKept, StepOf DEF Inv, TypeOK

(* What the balance is told to change by is a number, if the request has one. *)
LEMMA DeltaTyped ==
  ASSUME NEW r \in Received, RequestOK(r)
  PROVE  /\ Delta(r) \in Int \cup {NaN}
         /\ Delta(r) = NaN <=> WithoutValor(r)
<1>1. Ask(r).valor \in Int /\ requests[r].old \in Int /\ Ask(r).verb \in {"create", "edit", "delete"}
  BY AskOK DEF RequestOK
<1> DEFINE change == CASE Ask(r).verb = "create" -> Ask(r).valor
                       [] Ask(r).verb = "edit"   -> Ask(r).valor - requests[r].old
                       [] Ask(r).verb = "delete" -> -requests[r].old
           sign == IF Ask(r).table = "Receita" THEN 1 ELSE -1
<1>2. change \in Int
  BY <1>1
<1>3. sign \in {1, -1}
  OBVIOUS
<1>4. Delta(r) = IF WithoutValor(r) THEN NaN ELSE sign * change
  BY DEF Delta
<1> HIDE DEF change, sign
<1>5. sign * change \in Int
  BY <1>2, <1>3
<1> QED
  BY <1>4, <1>5, NaNAssumption

LEMMA NotifyInv ==
  ASSUME Inv, NEW r \in Request, Notify(r)
  PROVE  Inv'
<1> DEFINE service == Ask(r).table
           n == observers[service] + 1
<1>u. PICK u : u = [carteira |-> Ask(r).carteira, delta |-> Delta(r), at |-> "read", read |-> 0]
  OBVIOUS
<1>1. /\ At(r, "notify") /\ observers' = [observers EXCEPT ![service] = n]
      /\ updates' = updates (+) [v \in {u} |-> n] /\ Book(Ask(r).carteira, IF Delta(r) = NaN THEN NaN ELSE (n - 1) * Delta(r))
      /\ requests' = [requests EXCEPT ![r].pc = IF MoreParcelas(r) THEN @ - 1 ELSE @ + 1]
      /\ UNCHANGED <<saldo, rows, used, restarts>>
  BY <1>u DEF Notify
<1>2. /\ r \in Received /\ Running(r) /\ RequestOK(r) /\ Progress(r)
      /\ Code(r)[requests[r].pc] = "notify"
      /\ requests[r].pc \in 1 .. Len(Code(r)) /\ Len(Code(r)) \in 2 .. 5
  BY <1>1, AtFacts
<1>3. /\ service \in {"Receita", "Despesa"} /\ requests[r].pc > 1
      /\ Ask(r).carteira \in DOMAIN saldo /\ Ask(r).carteira \in Wallet
      /\ ByInstalments(Ask(r)) => requests[r].pc = 4
      /\ Code(r) = Despesas.create <=> ByInstalments(Ask(r))
      /\ requests[r].pc # FoundAt[Ask(r).table][Ask(r).verb]
  BY <1>2, AskOK DEF Shape, Progress
<1>4. UpdateOK(u)'
  BY <1>u, <1>1, <1>2, <1>3, DeltaTyped DEF UpdateOK
<1>5. BagToSet(updates') = BagToSet(updates) \cup {u}
  BY <1>1 DEF BagToSet, (+)
<1>6. \A v \in BagToSet(updates') : UpdateOK(v)'
  BY <1>1, <1>4, <1>5 DEF Inv, TypeOK, UpdateOK
<1>7. observers' \in [{"Receita", "Despesa"} -> Nat]
  BY <1>1, <1>3 DEF Inv, TypeOK
<1>8. excess' \in [Wallet -> Int \cup {NaN}]
  <2>1. n \in Nat
    BY <1>3 DEF Inv, TypeOK
  <2> HIDE DEF n
  <2>2. Delta(r) \in Int \cup {NaN}
    BY <1>2, DeltaTyped
  <2>3. Delta(r) \in Int => (n - 1) * Delta(r) \in Int
    BY <2>1
  <2>4. (IF Delta(r) = NaN THEN NaN ELSE (n - 1) * Delta(r)) \in Int \cup {NaN}
    BY <2>2, <2>3
  <2> QED
    BY <1>1, <1>3, <2>4, BookTyped
<1>9. RequestOK(r)' /\ Progress(r)'
  <2>1. CASE ~MoreParcelas(r)
    <3>1. Advance(r)
      BY <1>1, <2>1 DEF Advance
    <3>2. requests[r].old \in Int
      BY <1>2 DEF RequestOK
    <3>3. /\ r \in Received' /\ requests'[r].body = requests[r].body
          /\ requests'[r].pc = requests[r].pc + 1 /\ requests'[r].old \in Int
          /\ requests'[r].made = requests[r].made /\ requests'[r].answer = requests[r].answer
          /\ requests'[r] \in [body : Body, pc : Nat, old : Int, made : Nat,
                               answer : {"none", "ok", "error"}]
      BY <1>2, <3>1, <3>2, Advances
    <3>4. /\ Code(r)[requests[r].pc] \notin {"insert", "update", "destroy", "answer"}
          /\ ByInstalments(Ask(r)) => requests[r].pc # 3
          /\ requests[r].pc # 1 /\ DOMAIN saldo \subseteq DOMAIN saldo' /\ RowsFollow
      BY <1>1, <1>2, <1>3, SameRows
    <3> QED
      BY <1>2, <1>3, <3>3, <3>4, Moves
  <2>2. CASE MoreParcelas(r)
    <3>1. /\ requests[r].pc = 4 /\ requests[r].made < Ask(r).parcela /\ ByInstalments(Ask(r))
          /\ requests' = [requests EXCEPT ![r].pc = @ - 1]
      BY <1>1, <1>2, <1>3, <2>2 DEF MoreParcelas
    <3>2. /\ r \in Received' /\ requests'[r].pc = 3 /\ requests'[r].body = requests[r].body
          /\ requests'[r].made = requests[r].made /\ requests'[r].answer = requests[r].answer
          /\ requests'[r] \in [body : Body, pc : Nat, old : Int, made : Nat,
                               answer : {"none", "ok", "error"}]
      BY <1>2, <3>1 DEF RequestOK, Received
    <3>3. Ask(r)' = Ask(r) /\ Code(r)' = Code(r)
      BY <3>2 DEF Ask, Code
    <3>4. RequestOK(r)'
      BY <1>2, <3>1, <3>2, <3>3 DEF RequestOK
    <3>5. /\ AnswerAt[Ask(r).table][Ask(r).verb] = 5 /\ FoundAt[Ask(r).table][Ask(r).verb] = 9
      BY <3>1 DEF ByInstalments, AnswerAt, FoundAt
    <3> QED
      BY <1>1, <1>2, <1>3, <3>1, <3>2, <3>3, <3>4, <3>5
      DEF Progress, Past, ByInstalments, DeletesReceita
  <2> QED
    BY <2>1, <2>2
<1>10. RowsOK'
  BY <1>1 DEF Inv, TypeOK, RowsOK
<1>11. Received' = Received /\ \A q \in Received \ {r} : requests'[q] = requests[q]
  BY <1>1 DEF Received
<1> QED
  BY <1>1, <1>2, <1>6, <1>7, <1>8, <1>9, <1>10, <1>11, SameRows, StepOf DEF Inv, TypeOK

LEMMA AnswerInv ==
  ASSUME Inv, NEW r \in Request, Answer(r)
  PROVE  Inv'
<1>1. /\ At(r, "answer") /\ requests' = [requests EXCEPT ![r].pc = @ + 1, ![r].answer = "ok"]
      /\ UNCHANGED <<saldo, rows, used, observers, updates, restarts, excess>>
  BY DEF Answer
<1>2. /\ r \in Received /\ RequestOK(r) /\ Progress(r) /\ Code(r)[requests[r].pc] = "answer"
      /\ requests[r].pc \in 1 .. Len(Code(r)) /\ Len(Code(r)) \in 2 .. 5
  BY <1>1, AtFacts
<1> DEFINE Record == [body : Body, pc : Nat, old : Int, made : Nat, answer : {"none", "ok", "error"}]
<1> DEFINE moved == [requests[r] EXCEPT !.pc = @ + 1]
<1>m. /\ moved \in Record /\ moved.pc = requests[r].pc + 1 /\ moved.body = requests[r].body
      /\ moved.made = requests[r].made
  BY <1>2 DEF RequestOK
<1>3. /\ Received' = Received /\ \A q \in Received \ {r} : requests'[q] = requests[q]
      /\ requests'[r] = [moved EXCEPT !.answer = "ok"]
  BY <1>1, <1>2 DEF Received
<1> HIDE DEF moved
<1>4. /\ requests'[r] \in Record /\ requests'[r].pc = requests[r].pc + 1
      /\ requests'[r].made = requests[r].made /\ requests'[r].answer = "ok"
      /\ Ask(r)' = Ask(r) /\ Code(r)' = Code(r)
  BY <1>m, <1>3 DEF Ask, Code
<1>5. RequestOK(r)'
  BY <1>2, <1>3, <1>4 DEF RequestOK
<1>6. /\ requests[r].pc = AnswerAt[Ask(r).table][Ask(r).verb] /\ requests[r].pc > 1
      /\ Ask(r).table # "Carteira" => requests[r].pc # WriteAt[Ask(r).table][Ask(r).verb]
      /\ WriteAt[Ask(r).table][Ask(r).verb] \in Nat
      /\ FoundAt[Ask(r).table][Ask(r).verb] \in Nat
      /\ requests[r].pc # FoundAt[Ask(r).table][Ask(r).verb]
      /\ ByInstalments(Ask(r)) => requests[r].pc = 5
      /\ DeletesReceita(r) => requests[r].pc > WriteAt[Ask(r).table][Ask(r).verb]
  BY <1>2, AskOK DEF Shape, DeletesReceita, ByInstalments, AnswerAt
<1>7. Placed(r)' <=> Placed(r)
  BY <1>1, <1>4 DEF Placed
<1>8. Gone(r)' <=> Gone(r)
  BY <1>1, <1>4 DEF Gone
<1>9. Progress(r)'
  <2>1. /\ Past(r, AnswerAt)' /\ ~Past(r, AnswerAt)
        /\ Ask(r).table # "Carteira" => (Past(r, WriteAt)' <=> Past(r, WriteAt))
        /\ Past(r, FoundAt)' <=> Past(r, FoundAt)
    BY <1>2, <1>4, <1>6 DEF Past
  <2>2. Ask(r)'.carteira \in DOMAIN saldo'
    BY <1>1, <1>2, <1>4, <1>6 DEF Progress
  <2>3. DeletesReceita(r) => requests[r].made = 1
    BY <1>2, <1>6, <2>1 DEF Progress, DeletesReceita, Past, ByInstalments
  <2>4. ~(ByInstalments(Ask(r)') /\ requests'[r].pc \in 1 .. 3)
    BY <1>4, <1>6
  <2> QED
    BY <1>2, <1>4, <1>6, <1>7, <1>8, <2>1, <2>2, <2>3, <2>4 DEF Progress, DeletesReceita
<1>10. RowsOK'
  BY <1>1 DEF Inv, TypeOK, RowsOK
<1> QED
  BY <1>1, <1>2, <1>3, <1>5, <1>9, <1>10, UpdatesKept, SameRows, StepOf DEF Inv, TypeOK

(* A request that ends early, with an error or with the process. *)
LEMMA Stops ==
  ASSUME NEW r \in Received, RequestOK(r), Progress(r), r \in Received',
         requests'[r] \in [body : Body, pc : Nat, old : Int, made : Nat,
                           answer : {"none", "ok", "error"}],
         requests'[r].pc = 0, requests'[r].body = requests[r].body,
         requests'[r].made = requests[r].made,
         requests'[r].answer = "ok" => requests[r].answer = "ok" \/ ~DeletesReceita(r),
         UNCHANGED <<rows, used>>
  PROVE  RequestOK(r)' /\ Progress(r)'
<1>1. Ask(r)' = Ask(r) /\ Code(r)' = Code(r)
  BY DEF Ask, Code
<1>2. Len(Code(r)) \in Nat /\ FoundAt[Ask(r).table][Ask(r).verb] \in Nat
  BY AskOK DEF Shape
<1>3. RequestOK(r)'
  BY <1>1, <1>2 DEF RequestOK
<1>4. Gone(r)' <=> Gone(r)
  BY <1>1 DEF Gone
<1> QED
  BY <1>1, <1>2, <1>3, <1>4 DEF Progress, Past, DeletesReceita, ByInstalments

LEMMA RejectInv ==
  ASSUME Inv, NEW r \in Request, Reject(r)
  PROVE  Inv'
<1> DEFINE spoilt == \/ At(r, "carteira") /\ Ask(r).verb = "edit"
                     \/ At(r, "destroy") /\ Ask(r).table = "Despesa"
           says == IF requests[r].answer = "ok" \/ Code(r) = Despesas.create THEN "ok" ELSE "error"
<1>1. /\ r \in Received /\ Running(r) /\ Disturb(spoilt, Ask(r).carteira)
      /\ requests' = [requests EXCEPT ![r].pc = 0, ![r].answer = says]
      /\ UNCHANGED <<saldo, rows, used, observers, updates, restarts>>
  BY DEF Reject
<1>2. /\ RequestOK(r) /\ Progress(r) /\ Ask(r).carteira \in Wallet /\ spoilt \in BOOLEAN
  BY <1>1, AskOK DEF Inv, TypeOK
<1> HIDE DEF spoilt
<1> DEFINE Record == [body : Body, pc : Nat, old : Int, made : Nat, answer : {"none", "ok", "error"}]
<1> DEFINE moved == [requests[r] EXCEPT !.pc = 0]
<1>m. /\ moved \in Record /\ moved.pc = 0 /\ moved.body = requests[r].body
      /\ moved.made = requests[r].made
  BY <1>2 DEF RequestOK
<1>3. /\ Received' = Received /\ \A q \in Received \ {r} : requests'[q] = requests[q]
      /\ requests'[r] = [moved EXCEPT !.answer = says]
  BY <1>1 DEF Received
<1>4. says \in {"ok", "error"} /\ (says = "ok" => requests[r].answer = "ok" \/ ~DeletesReceita(r))
  BY <1>1, <1>2, AskOK DEF Shape, ByInstalments, DeletesReceita
<1> HIDE DEF moved, says
<1>5. /\ requests'[r] \in Record /\ requests'[r].pc = 0 /\ requests'[r].body = requests[r].body
      /\ requests'[r].made = requests[r].made /\ requests'[r].answer = says
  BY <1>m, <1>3, <1>4
<1>6. RequestOK(r)' /\ Progress(r)'
  BY <1>1, <1>2, <1>3, <1>4, <1>5, Stops
<1>7. RowsOK'
  BY <1>1 DEF Inv, TypeOK, RowsOK
<1> QED
  BY <1>1, <1>2, <1>3, <1>6, <1>7, DisturbTyped, UpdatesKept, SameRows, StepOf DEF Inv, TypeOK

-----------------------------------------------------------------------------
LEMMA ReceiveInv ==
  ASSUME Inv, NEW r \in Request, NEW b \in Body, Receive(r, b)
  PROVE  Inv'
<1>1. /\ r \notin Received
      /\ UNCHANGED <<saldo, rows, used, observers, updates, restarts, excess>>
  BY DEF Receive
<1>2. /\ Received' = Received \cup {r} /\ \A q \in Received : requests'[q] = requests[q]
      /\ requests'[r] = [body |-> b, pc |-> IF Refused(b) THEN 0 ELSE 1, old |-> 0, made |-> 0,
                         answer |-> IF Refused(b) THEN "error" ELSE "none"]
  BY <1>1 DEF Receive, With, Received
<1>3. /\ requests'[r] \in [body : Body, pc : Nat, old : Int, made : Nat,
                           answer : {"none", "ok", "error"}]
      /\ requests'[r].made = 0 /\ requests'[r].answer # "ok" /\ Ask(r)' = b
      /\ requests'[r].pc = 0 \/ (requests'[r].pc = 1 /\ requests'[r].answer = "none")
      /\ Code(r)' = CodeOf(b)
  BY <1>2 DEF Ask, Code, CodeOf
<1>4. b \in Asked /\ Shape(b) /\ b.parcela \in Nat \ {0}
  BY BodyAssumption, Shapes DEF Asked
<1>5. RequestOK(r)'
  BY <1>3, <1>4 DEF RequestOK, Shape
<1>6. Progress(r)'
  BY <1>3, <1>4 DEF Progress, Past, Shape, DeletesReceita
<1>7. \A q \in Received : RequestOK(q)' /\ Progress(q)'
  BY <1>1, <1>2, Others, SameRows DEF Inv, TypeOK
<1>8. RowsOK'
  BY <1>1 DEF Inv, TypeOK, RowsOK
<1> QED
  BY <1>1, <1>2, <1>5, <1>6, <1>7, <1>8, UpdatesKept DEF Inv, TypeOK

(* Steps of the balance updates leave the rows and the requests alone. *)
LEMMA BalanceStep ==
  ASSUME Inv, UNCHANGED <<rows, used, observers, requests, restarts>>,
         DOMAIN saldo' = DOMAIN saldo, saldo' \in [DOMAIN saldo' -> Int \cup {NaN}],
         \A v \in BagToSet(updates') : v \in BagToSet(updates) \/ UpdateOK(v),
         excess' \in [Wallet -> Int \cup {NaN}]
  PROVE  Inv'
<1>1. \A q \in Received' : RequestOK(q)' /\ Progress(q)'
  BY Others, SameRows DEF Inv, TypeOK, Received
<1>2. \A v \in BagToSet(updates') : UpdateOK(v)'
  BY DEF Inv, TypeOK, UpdateOK
<1>3. RowsOK'
  BY DEF Inv, TypeOK, RowsOK
<1> QED
  BY <1>1, <1>2, <1>3 DEF Inv, TypeOK

LEMMA UpdateRemoved == \A u : BagToSet(BagRemove(updates, u)) \subseteq BagToSet(updates)
  BY DEF BagToSet, BagRemove

LEMMA UpdateAdded ==
  \A u, v : BagToSet(BagAdd(BagRemove(updates, u), v)) \subseteq BagToSet(updates) \cup {v}
  BY DEF BagToSet, BagAdd, BagRemove

LEMMA UpdateStepInv ==
  ASSUME Inv, NEW u \in BagToSet(updates), update(u)
  PROVE  Inv'
<1>1. /\ u \in [carteira : DOMAIN saldo, delta : Int \cup {NaN}, at : {"read", "write"},
          read : Int \cup {NaN}]
      /\ u.carteira \in DOMAIN saldo /\ u.carteira \in Wallet
      /\ saldo[u.carteira] \in Int \cup {NaN}
      /\ u.read \in Int \cup {NaN} /\ u.delta \in Int \cup {NaN}
  BY DEF Inv, TypeOK, UpdateOK
<1>2. CASE ReadSaldo(u)
  <2> DEFINE half == [u EXCEPT !.at = "write"]
  <2>1. half \in [carteira : DOMAIN saldo, delta : Int \cup {NaN}, at : {"read", "write"},
          read : Int \cup {NaN}]
    BY <1>1
  <2>2. [u EXCEPT !.at = "write", !.read = saldo[u.carteira]] = [half EXCEPT !.read = saldo[u.carteira]]
    BY <1>1
  <2> HIDE DEF half
  <2>3. [half EXCEPT !.read = saldo[u.carteira]] \in
          [carteira : DOMAIN saldo, delta : Int \cup {NaN}, at : {"read", "write"},
          read : Int \cup {NaN}]
    BY <1>1, <2>1
  <2>4. PICK v : v = [half EXCEPT !.read = saldo[u.carteira]]
    OBVIOUS
  <2>5. updates' = BagAdd(BagRemove(updates, u), v)
    BY <1>2, <2>2, <2>4 DEF ReadSaldo
  <2>6. UpdateOK(v)
    BY <2>3, <2>4 DEF UpdateOK
  <2> QED
    BY <1>2, <2>5, <2>6, UpdateAdded, BalanceStep DEF ReadSaldo, Inv, TypeOK
<1>3. CASE WriteSaldo(u)
  <2>1. DOMAIN saldo' = DOMAIN saldo /\ saldo' \in [DOMAIN saldo' -> Int \cup {NaN}]
    <3>1. Plus(u.read, u.delta) \in Int \cup {NaN}
      BY <1>1, PlusTyped
    <3> QED
      BY <1>1, <1>3, <3>1 DEF WriteSaldo, Inv, TypeOK
  <2>2. excess' \in [Wallet -> Int \cup {NaN}]
    <3>1. (saldo[u.carteira] # u.read) \in BOOLEAN
      OBVIOUS
    <3> QED
      BY <1>1, <1>3, <3>1, DisturbTyped DEF WriteSaldo
  <2> QED
    BY <1>3, <2>1, <2>2, UpdateRemoved, BalanceStep DEF WriteSaldo
<1>4. CASE UpdateFails(u)
  BY <1>1, <1>4, DisturbTyped, UpdateRemoved, BalanceStep DEF UpdateFails, Inv, TypeOK
<1> QED
  BY <1>2, <1>3, <1>4 DEF update

LEMMA RestartInv ==
  ASSUME Inv, Restart
  PROVE  Inv'
<1>1. /\ restarts < MaxRestarts /\ restarts' = restarts + 1
      /\ requests' = [r \in Received |-> [requests[r] EXCEPT !.pc = 0]]
      /\ observers' = [service \in DOMAIN observers |-> 0]
      /\ updates' = EmptyBag /\ UNCHANGED <<saldo, rows, used>>
  BY DEF Restart
<1>2. Received' = Received
  BY <1>1 DEF Received
<1>3. \A r \in Received' : RequestOK(r)' /\ Progress(r)'
  <2> SUFFICES ASSUME NEW r \in Received PROVE RequestOK(r)' /\ Progress(r)'
    BY <1>2
  <2>1. RequestOK(r) /\ Progress(r) /\ requests'[r] = [requests[r] EXCEPT !.pc = 0]
    BY <1>1 DEF Inv, TypeOK
  <2>2. /\ requests'[r] \in [body : Body, pc : Nat, old : Int, made : Nat,
                             answer : {"none", "ok", "error"}]
        /\ requests'[r].pc = 0 /\ requests'[r].body = requests[r].body
        /\ requests'[r].made = requests[r].made /\ requests'[r].answer = requests[r].answer
    BY <2>1 DEF RequestOK
  <2> QED
    BY <1>1, <1>2, <2>1, <2>2, Stops
<1>4. BagToSet(updates') = {}
  BY <1>1 DEF BagToSet, EmptyBag, SetToBag
<1>5. excess' \in [Wallet -> Int \cup {NaN}]
  <2>1. \A u \in BagToSet(updates) : u.carteira \in Wallet
    BY DEF Inv, TypeOK, UpdateOK
  <2>2. \A r \in Received : Ask(r).carteira \in Wallet
    BY AskOK DEF Inv, TypeOK
  <2> QED
    BY <2>1, <2>2 DEF Restart, Inv, TypeOK
<1>6. observers' \in [{"Receita", "Despesa"} -> Nat] /\ restarts' \in 0 .. MaxRestarts
  BY <1>1, RestartsAssumption DEF Inv, TypeOK
<1>7. RowsOK'
  BY <1>1 DEF Inv, TypeOK, RowsOK
<1> QED
  BY <1>1, <1>3, <1>4, <1>5, <1>6, <1>7 DEF Inv, TypeOK

LEMMA NextInv == Inv /\ [Next]_vars => Inv'
<1> SUFFICES ASSUME Inv, [Next]_vars PROVE Inv'
  OBVIOUS
<1>1. CASE UNCHANGED vars
  <2>1. /\ UNCHANGED <<rows, used, observers, requests, restarts>>
        /\ UNCHANGED <<saldo, updates, excess>>
    BY <1>1 DEF vars, server
  <2> QED
    BY <2>1, BalanceStep DEF Inv, TypeOK
<1>2. ASSUME NEW r \in Request, NEW b \in Body, Receive(r, b) PROVE Inv'
  BY <1>2, ReceiveInv
<1>3. ASSUME NEW r \in Request, Handle(r) PROVE Inv'
  BY <1>3, FindCarteiraInv, FindCategoriaInv, FindInv, InsertInv, CreateCarteiraInv, UpdateInv,
     DestroyInv, NotifyInv, AnswerInv, RejectInv DEF Handle
<1>4. ASSUME NEW u \in BagToSet(updates), update(u) PROVE Inv'
  BY <1>4, UpdateStepInv
<1>5. CASE Restart
  BY <1>5, RestartInv
<1> QED
  BY <1>1, <1>2, <1>3, <1>4, <1>5 DEF Next

LEMMA Invariant == Spec => []Inv
<1>1. Init => Inv
  BY InitInv
<1>2. Inv /\ [Next]_vars => Inv'
  BY NextInv
<1> QED
  BY <1>1, <1>2, PTL DEF Spec

(***************************************************************************)
(* Whatever is asked of the server, and in whatever order its handlers and *)
(* updates get on, rows keep wallets that exist and ids of their own, a    *)
(* request writes no more than it asked for, and the balances that run     *)
(* belong to wallets that exist.                                           *)
(***************************************************************************)
THEOREM TypeCorrect == Spec => []TypeOK
<1>1. Inv => TypeOK
  BY DEF Inv
<1> QED
  BY <1>1, Invariant, PTL

(***************************************************************************)
(* deleteReceita's success means that the income is gone and stays gone,   *)
(* for any requests that run beside it, and through restarts.              *)
(***************************************************************************)
THEOREM ReceitaDeletadaHolds == Spec => []ReceitaDeletada
<1>1. Inv => ReceitaDeletada
  BY DEF Inv, ReceitaDeletada, Progress, DeletesReceita, Gone
<1> QED
  BY <1>1, Invariant, PTL

-----------------------------------------------------------------------------
(***************************************************************************)
(* Carteira implements Tabelas: a handler that writes a row, answers or    *)
(* fails does what Tabelas describes, and everything else is a stutter.    *)
(***************************************************************************)
Seen(r) == [body |-> Ask(r), wrote |-> requests[r].made, answer |-> requests[r].answer]

(* The operators of Linhas mean in Tabelas what they mean here. *)
LEMMA SameLinhas ==
  /\ \A f, x, v : Tabela!With(f, x, v) = With(f, x, v)
  /\ \A b : Tabela!Refused(b) <=> Refused(b)
  /\ \A R, b : Tabela!Named(R, b) = Named(R, b)
  /\ \A R, b : Tabela!ForeignKeysHold(R, b) <=> ForeignKeysHold(R, b)
  /\ \A b : Tabela!Shares(b) = Shares(b)
  /\ \A b, i, x : Tabela!NewRow(b, i, x) = NewRow(b, i, x)
  /\ \A R, b : Tabela!Edited(R, b) = Edited(R, b)
  /\ \A R, b : Tabela!Editable(R, b) <=> Editable(R, b)
  /\ \A R, D : Tabela!Without(R, D) = Without(R, D)
<1>1. \A b : Tabela!CategoryIn(b) = CategoryIn(b)
  BY DEF CategoryIn, Tabela!CategoryIn
<1>2. \A R, b : Tabela!Named(R, b) = Named(R, b)
  BY DEF Named, RowsOf, Tabela!Named, Tabela!RowsOf
<1>3. /\ \A f, x, v : Tabela!With(f, x, v) = With(f, x, v)
      /\ \A b : Tabela!Refused(b) <=> Refused(b)
  BY DEF With, Tabela!With, Refused, Tabela!Refused
<1>s. \A b, c : Tabela!Sets(b, c) <=> Sets(b, c)
  BY DEF Sets, Tabela!Sets
<1>4. \A R, b : Tabela!ForeignKeysHold(R, b) <=> ForeignKeysHold(R, b)
  BY <1>s DEF ForeignKeysHold, Tabela!ForeignKeysHold
<1>5. \A b : Tabela!Shares(b) = Shares(b)
  BY DEF Shares, Tabela!Shares
<1>6. \A b, i, x : Tabela!NewRow(b, i, x) = NewRow(b, i, x)
  BY <1>1 DEF NewRow, Tabela!NewRow
<1>e. \A d, b : Tabela!EditedRow(d, b) = EditedRow(d, b)
  BY <1>s DEF EditedRow, Tabela!EditedRow
<1>7. \A R, b : Tabela!Edited(R, b) = Edited(R, b)
  BY <1>2, <1>e DEF Edited, Tabela!Edited
<1>c. Tabela!Colunas = Colunas
  BY DEF Colunas, Tabela!Colunas
<1>9. \A R, b : Tabela!Editable(R, b) <=> Editable(R, b)
  BY <1>2, <1>4, <1>s, <1>c DEF Editable, Tabela!Editable
<1>8. \A R, D : Tabela!Without(R, D) = Without(R, D)
  BY DEF Without, Tabela!Without
<1> QED
  BY <1>2, <1>3, <1>4, <1>5, <1>6, <1>7, <1>8, <1>9

LEMMA CalledIs ==
  /\ DOMAIN Called = {q \in Received : Ask(q).table # "Carteira"}
  /\ \A q \in DOMAIN Called : Called[q] = Seen(q)
  BY DEF Called, Seen

(* What is seen after a step, of the requests that are then known. *)
LEMMA CalledNext ==
  ASSUME NEW S, S = {q \in Received' : Ask(q)'.table # "Carteira"}
  PROVE  Called' = [r \in S |-> Seen(r)']
  BY DEF Called, Seen

LEMMA Unseen ==
  ASSUME Received' = Received, \A q \in Received : Seen(q)' = Seen(q)
  PROVE  Called' = Called
<1>1. \A q \in Received : Ask(q)' = Ask(q)
  BY DEF Seen
<1> QED
  BY <1>1 DEF Called, Seen

(* What is seen of a step that works on request r. *)
LEMMA SeenStep ==
  ASSUME NEW r \in Received, Ask(r).table # "Carteira", Ask(r)' = Ask(r), Received' = Received,
         \A q \in Received \ {r} : requests'[q] = requests[q]
  PROVE  Called' = [Called EXCEPT ![r] = Seen(r)']
<1>1. \A q \in Received \ {r} : Seen(q)' = Seen(q) /\ Ask(q)' = Ask(q)
  BY DEF Seen, Ask
<1>2. DOMAIN Called = {q \in Received : Ask(q).table # "Carteira"}
  BY CalledIs
<1>3. {q \in Received' : Ask(q)'.table # "Carteira"} = DOMAIN Called
  BY <1>1, <1>2
<1>4. Called' = [q \in DOMAIN Called |-> Seen(q)']
  BY <1>3, CalledNext
<1>5. Called = [q \in DOMAIN Called |-> Seen(q)]
  BY DEF Called, Seen
<1> QED
  BY <1>1, <1>2, <1>4, <1>5

LEMMA UnseenStep ==
  ASSUME NEW r \in Received, Received' = Received,
         \A q \in Received \ {r} : requests'[q] = requests[q],
         requests'[r].body = requests[r].body, requests'[r].made = requests[r].made,
         requests'[r].answer = requests[r].answer \/ Ask(r).table = "Carteira"
  PROVE  Called' = Called
<1>1. \A q \in Received \ {r} : Seen(q)' = Seen(q) /\ Ask(q)' = Ask(q)
  BY DEF Seen, Ask
<1>2. Ask(r)' = Ask(r) /\ (Ask(r).table # "Carteira" => Seen(r)' = Seen(r))
  BY DEF Seen, Ask
<1>3. {q \in Received' : Ask(q)'.table # "Carteira"} = DOMAIN Called
  BY <1>1, <1>2, CalledIs
<1>4. Called' = [q \in DOMAIN Called |-> Seen(q)']
  BY <1>3, CalledNext
<1>5. Called = [q \in DOMAIN Called |-> Seen(q)]
  BY DEF Called, Seen
<1>6. \A q \in DOMAIN Called : Seen(q)' = Seen(q)
  BY <1>1, <1>2, CalledIs
<1> QED
  BY <1>4, <1>5, <1>6

LEMMA AdvanceUnseen ==
  ASSUME Inv, NEW r \in Received, Advance(r)
  PROVE  Called' = Called
<1>1. RequestOK(r)
  BY DEF Inv, TypeOK
<1> QED
  BY <1>1, Advances, UnseenStep

LEMMA WrittenSeen ==
  ASSUME NEW r \in Received, RequestOK(r), Ask(r).table # "Carteira", Written(r)
  PROVE  r \in DOMAIN Called /\ Tabela!Wrote(r)
<1> DEFINE Record == [body : Body, pc : Nat, old : Int, made : Nat, answer : {"none", "ok", "error"}]
<1> DEFINE moved == [requests[r] EXCEPT !.pc = @ + 1]
<1>m. /\ moved \in Record /\ moved.body = requests[r].body
      /\ moved.made = requests[r].made /\ moved.answer = requests[r].answer
  BY DEF RequestOK
<1>1. requests'[r] = [moved EXCEPT !.made = @ + 1]
  BY DEF Written, Received
<1> HIDE DEF moved
<1>2. /\ requests'[r].made = requests[r].made + 1 /\ requests'[r].answer = requests[r].answer
      /\ Ask(r)' = Ask(r)
  BY <1>m, <1>1 DEF Ask
<1>3. Called' = [Called EXCEPT ![r] = Seen(r)']
  BY <1>2, WrittenFrame, SeenStep
<1>4. r \in DOMAIN Called /\ Called[r] = Seen(r)
  BY CalledIs
<1>5. Seen(r)' = [Called[r] EXCEPT !.wrote = @ + 1]
  BY <1>2, <1>4 DEF Seen
<1> QED
  BY <1>3, <1>4, <1>5 DEF Tabela!Wrote

LEMMA AnswerSeen ==
  ASSUME NEW r \in Received, RequestOK(r), Ask(r).table # "Carteira", Received' = Received,
         \A q \in Received \ {r} : requests'[q] = requests[q],
         requests'[r].body = requests[r].body, requests'[r].made = requests[r].made,
         NEW a \in {"ok", "error"}, requests'[r].answer = a, requests[r].answer = "none",
         a = "ok" => Tabela!Earned(r), UNCHANGED <<rows, used>>
  PROVE  Tabela!Answer(r, a)
<1>1. Called' = [Called EXCEPT ![r] = Seen(r)']
  BY SeenStep DEF Ask
<1>2. r \in DOMAIN Called /\ Called[r] = Seen(r)
  BY CalledIs
<1>3. Seen(r)' = [Called[r] EXCEPT !.answer = a]
  BY <1>2 DEF Seen, Ask
<1>4. Tabela!Open(r)
  BY <1>2 DEF Tabela!Open, Seen
<1> QED
  BY <1>1, <1>2, <1>3, <1>4 DEF Tabela!Answer

LEMMA AskSeen ==
  ASSUME NEW r \in Received, Ask(r).table # "Carteira"
  PROVE  /\ r \in DOMAIN Called /\ Tabela!Ask(r) = Ask(r)
         /\ Called[r].wrote = requests[r].made /\ Called[r].answer = requests[r].answer
<1>1. r \in DOMAIN Called /\ Called[r] = Seen(r)
  BY CalledIs
<1>2. Tabela!Ask(r) = Called[r].body
  BY DEF Tabela!Ask
<1> QED
  BY <1>1, <1>2 DEF Seen

LEMMA ReceiveRefines ==
  ASSUME Inv, NEW r \in Request, NEW b \in Body, Receive(r, b)
  PROVE  (Tabela!Receive(r, b) /\ b.table # "Carteira") \/ UNCHANGED <<rows, used, Called>>
<1>1. r \notin Received /\ UNCHANGED <<rows, used>>
  BY DEF Receive
<1>2. /\ Received' = Received \cup {r} /\ \A q \in Received : requests'[q] = requests[q]
      /\ requests'[r] = [body |-> b, pc |-> IF Refused(b) THEN 0 ELSE 1, old |-> 0, made |-> 0,
                         answer |-> IF Refused(b) THEN "error" ELSE "none"]
  BY <1>1 DEF Receive, With, Received
<1>3. /\ \A q \in Received : Ask(q)' = Ask(q) /\ Seen(q)' = Seen(q)
      /\ Ask(r)' = b
      /\ Seen(r)' = [body |-> b, wrote |-> 0, answer |-> IF Refused(b) THEN "error" ELSE "none"]
  BY <1>2 DEF Ask, Seen
<1>4. CASE b.table = "Carteira"
  <2>1. {q \in Received' : Ask(q)'.table # "Carteira"} = DOMAIN Called
    BY <1>2, <1>3, <1>4, CalledIs
  <2>2. Called' = [q \in DOMAIN Called |-> Seen(q)']
    BY <2>1, CalledNext
  <2>3. Called = [q \in DOMAIN Called |-> Seen(q)]
    BY DEF Called, Seen
  <2>4. \A q \in DOMAIN Called : Seen(q)' = Seen(q)
    BY <1>3, CalledIs
  <2> QED
    BY <1>1, <2>2, <2>3, <2>4
<1>5. CASE b.table # "Carteira"
  <2>1. {q \in Received' : Ask(q)'.table # "Carteira"} = DOMAIN Called \cup {r}
    BY <1>2, <1>3, <1>5, CalledIs
  <2>2. r \notin DOMAIN Called
    BY <1>1, CalledIs
  <2>3. Called' = With(Called, r, [body |-> b, wrote |-> 0,
                                   answer |-> IF Refused(b) THEN "error" ELSE "none"])
    <3>1. Called' = [q \in DOMAIN Called \cup {r} |-> Seen(q)']
      BY <2>1, CalledNext
    <3>2. \A q \in DOMAIN Called : Seen(q)' = Called[q]
      BY <1>3, CalledIs
    <3> QED
      BY <1>3, <2>2, <3>1, <3>2 DEF With
  <2> QED
    BY <1>1, <1>5, <2>2, <2>3, SameLinhas DEF Tabela!Receive
<1> QED
  BY <1>4, <1>5

LEMMA InsertRefines ==
  ASSUME Inv, NEW r \in Request, Insert(r)
  PROVE  Tabela!Insert(r)
<1>1. /\ At(r, "insert") /\ Ask(r).table # "Carteira" /\ Written(r)
      /\ ForeignKeysHold(rows, Ask(r))
      /\ \E i \in Item \ used, share \in Shares(Ask(r)) :
           rows' = rows \cup {NewRow(Ask(r), i, share)} /\ used' = used \cup {i}
  BY DEF Insert
<1>2. /\ r \in Received /\ RequestOK(r) /\ Progress(r) /\ Ask(r).verb = "create"
      /\ requests[r].pc = WriteAt[Ask(r).table][Ask(r).verb]
      /\ requests[r].pc \in 1 .. Len(Code(r))
  BY <1>1, AtFacts, Writing
<1>3. requests[r].answer = "none"
  BY <1>2, AskOK DEF Progress, Past, Shape
<1>4. requests[r].made < IF Ask(r).table = "Despesa" THEN Ask(r).parcela ELSE 1
  BY <1>1, <1>2, AskOK DEF Progress, Past, Shape, ByInstalments
<1> QED
  BY <1>1, <1>2, <1>3, <1>4, AskSeen, WrittenSeen, SameLinhas
  DEF Tabela!Insert, Tabela!Open

LEMMA UpdateRefines ==
  ASSUME Inv, NEW r \in Request, Update(r)
  PROVE  Tabela!Update(r)
<1>1. /\ At(r, "update") /\ Written(r) /\ Editable(rows, Ask(r))
      /\ rows' = Edited(rows, Ask(r)) /\ UNCHANGED used
  BY DEF Update
<1>2. /\ r \in Received /\ RequestOK(r) /\ Progress(r)
      /\ requests[r].pc \in 1 .. Len(Code(r)) /\ Code(r)[requests[r].pc] = "update"
  BY <1>1, AtFacts
<1>3. /\ Ask(r).verb = "edit" /\ Ask(r).table # "Carteira"
      /\ requests[r].pc = WriteAt[Ask(r).table][Ask(r).verb]
  BY <1>2, AskOK DEF Shape
<1>4. requests[r].answer = "none" /\ requests[r].made = 0
  BY <1>2, <1>3, AskOK DEF Progress, Past, Shape, ByInstalments
<1> QED
  BY <1>1, <1>2, <1>3, <1>4, AskSeen, WrittenSeen, SameLinhas
  DEF Tabela!Update, Tabela!Open

LEMMA DestroyRefines ==
  ASSUME Inv, NEW r \in Request, Destroy(r)
  PROVE  Tabela!Destroy(r)
<1>1. /\ At(r, "destroy") /\ Written(r)
      /\ rows' = Without(rows, Named(rows, Ask(r))) /\ UNCHANGED used
  BY DEF Destroy
<1>2. /\ r \in Received /\ RequestOK(r) /\ Progress(r)
      /\ requests[r].pc \in 1 .. Len(Code(r)) /\ Code(r)[requests[r].pc] = "destroy"
  BY <1>1, AtFacts
<1>3. /\ Ask(r).verb = "delete" /\ Ask(r).table # "Carteira"
      /\ requests[r].pc = WriteAt[Ask(r).table][Ask(r).verb]
  BY <1>2, AskOK DEF Shape
<1>4. requests[r].made = 0
  BY <1>2, <1>3, AskOK DEF Progress, Past, Shape, ByInstalments
<1>5. /\ requests[r].answer \in {"none", "ok"}
      /\ Ask(r).table = "Receita" => requests[r].answer = "none"
  BY <1>2, <1>3, AskOK DEF Progress, Past, Shape
<1> QED
  BY <1>1, <1>2, <1>3, <1>4, <1>5, AskSeen, WrittenSeen, SameLinhas
  DEF Tabela!Destroy, Tabela!Open, Tabela!Unawaited

LEMMA AnswerRefines ==
  ASSUME Inv, NEW r \in Request, Answer(r)
  PROVE  Tabela!Answer(r, "ok") \/ UNCHANGED <<rows, used, Called>>
<1>1. /\ At(r, "answer") /\ requests' = [requests EXCEPT ![r].pc = @ + 1, ![r].answer = "ok"]
      /\ UNCHANGED <<rows, used>>
  BY DEF Answer
<1>2. /\ r \in Received /\ RequestOK(r) /\ Progress(r) /\ Code(r)[requests[r].pc] = "answer"
      /\ requests[r].pc \in 1 .. Len(Code(r))
  BY <1>1, AtFacts
<1> DEFINE moved == [requests[r] EXCEPT !.pc = @ + 1]
<1>m. /\ moved.body = requests[r].body /\ moved.made = requests[r].made
      /\ moved \in [body : Body, pc : Nat, old : Int, made : Nat,
                    answer : {"none", "ok", "error"}]
  BY <1>2 DEF RequestOK
<1>3. /\ Received' = Received /\ \A q \in Received \ {r} : requests'[q] = requests[q]
      /\ requests'[r] = [moved EXCEPT !.answer = "ok"]
  BY <1>1, <1>2 DEF Received
<1> HIDE DEF moved
<1>4. /\ requests'[r].body = requests[r].body /\ requests'[r].made = requests[r].made
      /\ requests'[r].answer = "ok"
  BY <1>m, <1>3
<1>5. CASE Ask(r).table = "Carteira"
  BY <1>1, <1>2, <1>3, <1>4, <1>5, UnseenStep
<1>6. CASE Ask(r).table # "Carteira"
  <2>1. requests[r].pc = AnswerAt[Ask(r).table][Ask(r).verb]
    BY <1>2, AskOK DEF Shape
  <2>2. requests[r].answer = "none"
    BY <1>2, <2>1 DEF Progress, Past
  <2>3. Tabela!Earned(r)
    <3>0. /\ r \in DOMAIN Called /\ Tabela!Ask(r) = Ask(r)
          /\ Called[r].wrote = requests[r].made
      BY <1>2, <1>6, AskSeen
    <3>1. CASE ByInstalments(Ask(r))
      BY <3>0, <3>1 DEF Tabela!Earned, ByInstalments
    <3>2. CASE ~ByInstalments(Ask(r)) /\ (Ask(r).verb # "delete" \/ Ask(r).table = "Receita")
      <4>1. requests[r].made = 1
        BY <1>2, <1>6, <2>1, <3>2, AskOK DEF Progress, Past, Shape
      <4> QED
        BY <3>0, <4>1 DEF Tabela!Earned
    <3>3. CASE Ask(r).verb = "delete" /\ Ask(r).table # "Receita"
      <4>1. Ask(r).id \in used
        BY <1>2, <2>1, <3>3, AskOK DEF Progress, Past, Shape, Placed
      <4> QED
        BY <3>0, <3>3, <4>1 DEF Tabela!Earned, Tabela!Unawaited
    <3> QED
      BY <3>1, <3>2, <3>3 DEF ByInstalments
  <2> QED
    BY <1>1, <1>2, <1>3, <1>4, <1>6, <2>2, <2>3, AnswerSeen
<1> QED
  BY <1>5, <1>6

LEMMA RejectRefines ==
  ASSUME Inv, NEW r \in Request, Reject(r)
  PROVE  (\E a \in {"ok", "error"} : Tabela!Answer(r, a)) \/ UNCHANGED <<rows, used, Called>>
<1> DEFINE says == IF requests[r].answer = "ok" \/ Code(r) = Despesas.create THEN "ok" ELSE "error"
<1>1. /\ r \in Received /\ Running(r) /\ UNCHANGED <<rows, used>>
      /\ requests' = [requests EXCEPT ![r].pc = 0, ![r].answer = says]
  BY DEF Reject
<1>2. RequestOK(r) /\ Progress(r) /\ requests[r].pc \in 1 .. Len(Code(r))
  BY <1>1, AskOK DEF Inv, TypeOK, Running, Shape
<1> DEFINE moved == [requests[r] EXCEPT !.pc = 0]
<1>m. /\ moved.body = requests[r].body /\ moved.made = requests[r].made
      /\ moved \in [body : Body, pc : Nat, old : Int, made : Nat,
                    answer : {"none", "ok", "error"}]
  BY <1>2 DEF RequestOK
<1>3. /\ Received' = Received /\ \A q \in Received \ {r} : requests'[q] = requests[q]
      /\ requests'[r] = [moved EXCEPT !.answer = says]
  BY <1>1 DEF Received
<1>4. /\ says \in {"ok", "error"} /\ (requests[r].answer = "ok" => says = "ok")
      /\ says = "ok" /\ requests[r].answer # "ok" => ByInstalments(Ask(r))
  BY <1>1, <1>2, AskOK DEF Shape
<1> HIDE DEF moved, says
<1>5. /\ requests'[r].body = requests[r].body /\ requests'[r].made = requests[r].made
      /\ requests'[r].answer = says
  BY <1>m, <1>3, <1>4
<1>6. CASE Ask(r).table = "Carteira" \/ requests[r].answer = "ok"
  BY <1>1, <1>3, <1>4, <1>5, <1>6, UnseenStep
<1>7. CASE Ask(r).table # "Carteira" /\ requests[r].answer # "ok"
  <2>1. requests[r].answer = "none"
    BY <1>2, <1>7 DEF Progress
  <2>2. says = "ok" => Tabela!Earned(r)
    BY <1>1, <1>4, <1>7, AskSeen DEF Tabela!Earned, ByInstalments
  <2> QED
    BY <1>1, <1>2, <1>3, <1>4, <1>5, <1>7, <2>1, <2>2, AnswerSeen
<1> QED
  BY <1>6, <1>7

LEMMA HandleRefines ==
  ASSUME Inv, NEW r \in Request, Handle(r)
  PROVE  \/ Tabela!Write(r) \/ \E a \in {"ok", "error"} : Tabela!Answer(r, a)
         \/ UNCHANGED <<rows, used, Called>>
<1>1. CASE FindCarteira(r) \/ FindCategoria(r) \/ CreateCarteira(r)
  BY <1>1, AdvanceUnseen DEF FindCarteira, FindCategoria, CreateCarteira, At
<1>2. CASE Find(r)
  <2>1. /\ r \in Received /\ RequestOK(r) /\ UNCHANGED <<rows, used>>
    BY <1>2 DEF Find, At, Inv, TypeOK
  <2>2. PICK d \in Named(rows, Ask(r)) :
          requests' = [requests EXCEPT ![r].pc = @ + 1, ![r].old = d.valor]
    BY <1>2 DEF Find
  <2> DEFINE moved == [requests[r] EXCEPT !.pc = @ + 1]
  <2>3. /\ moved.body = requests[r].body /\ moved.made = requests[r].made
        /\ moved.answer = requests[r].answer
        /\ moved \in [body : Body, pc : Nat, old : Int, made : Nat,
                      answer : {"none", "ok", "error"}]
    BY <2>1 DEF RequestOK
  <2>4. /\ Received' = Received /\ \A q \in Received \ {r} : requests'[q] = requests[q]
        /\ requests'[r] = [moved EXCEPT !.old = d.valor]
    BY <2>1, <2>2 DEF Received
  <2> HIDE DEF moved
  <2>5. /\ requests'[r].body = requests[r].body /\ requests'[r].made = requests[r].made
        /\ requests'[r].answer = requests[r].answer
    BY <2>3, <2>4
  <2> QED
    BY <2>1, <2>4, <2>5, UnseenStep
<1>3. CASE Notify(r)
  <2>1. /\ r \in Received /\ RequestOK(r) /\ UNCHANGED <<rows, used>>
        /\ requests' = [requests EXCEPT ![r].pc = IF MoreParcelas(r) THEN @ - 1 ELSE @ + 1]
    BY <1>3 DEF Notify, At, Inv, TypeOK
  <2>2. /\ Received' = Received /\ \A q \in Received \ {r} : requests'[q] = requests[q]
        /\ requests'[r].body = requests[r].body /\ requests'[r].made = requests[r].made
        /\ requests'[r].answer = requests[r].answer
    BY <2>1 DEF Received, RequestOK
  <2> QED
    BY <2>1, <2>2, UnseenStep
<1>4. CASE Insert(r) \/ Update(r) \/ Destroy(r)
  BY <1>4, InsertRefines, UpdateRefines, DestroyRefines DEF Tabela!Write
<1>5. CASE Answer(r) \/ Reject(r)
  BY <1>5, AnswerRefines, RejectRefines
<1> QED
  BY <1>1, <1>2, <1>3, <1>4, <1>5 DEF Handle

LEMMA StepRefines == Inv /\ [Next]_vars => [Tabela!Next]_(Tabela!tabelasVars)
<1> SUFFICES ASSUME Inv, [Next]_vars PROVE Tabela!Next \/ UNCHANGED <<rows, used, Called>>
  BY DEF Tabela!tabelasVars
<1>1. CASE UNCHANGED vars
  BY <1>1 DEF vars, server, Called, Received, Ask
<1>2. ASSUME NEW r \in Request, NEW b \in Body, Receive(r, b)
      PROVE  Tabela!Next \/ UNCHANGED <<rows, used, Called>>
  BY <1>2, ReceiveRefines DEF Tabela!Next
<1>3. ASSUME NEW r \in Request, Handle(r)
      PROVE  Tabela!Next \/ UNCHANGED <<rows, used, Called>>
  BY <1>3, HandleRefines DEF Tabela!Next
<1>4. ASSUME NEW u \in BagToSet(updates), update(u)
      PROVE  UNCHANGED <<rows, used, Called>>
  BY <1>4 DEF update, ReadSaldo, WriteSaldo, UpdateFails, Called, Received, Ask
<1>5. CASE Restart
  <2>1. /\ UNCHANGED <<rows, used>> /\ Received' = Received
        /\ \A r \in Received : requests'[r] = [requests[r] EXCEPT !.pc = 0]
    BY <1>5 DEF Restart, Received
  <2>2. \A r \in Received : Seen(r)' = Seen(r)
    BY <2>1 DEF Seen, Ask, Inv, TypeOK, RequestOK
  <2> QED
    BY <2>1, <2>2, Unseen
<1> QED
  BY <1>1, <1>2, <1>3, <1>4, <1>5 DEF Next

(***************************************************************************)
(* Every row that the server writes, and every success it answers, is one  *)
(* that Tabelas allows: nothing is written twice, and only createDespesa   *)
(* and the two destroys that nobody awaits answer before they are done.    *)
(***************************************************************************)
THEOREM ImplementsTabelas == Spec => TabelasSpec
<1>1. Init => Tabela!Init
  BY DEF Init, Tabela!Init, Called, Received
<1>2. Inv /\ [Next]_vars => [Tabela!Next]_(Tabela!tabelasVars)
  BY StepRefines
<1> QED
  BY <1>1, <1>2, Invariant, PTL DEF Spec, TabelasSpec, Tabela!Spec
=============================================================================
