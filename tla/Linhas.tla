------------------------------- MODULE Linhas -------------------------------
(***************************************************************************)
(* The rows of the wallet server's tables, and what requests ask of them.  *)
(* Amounts are in cents; dates and texts are left out.  The amount of a    *)
(* category is its limit.                                                  *)
(***************************************************************************)
EXTENDS Integers

CONSTANTS
  Wallet,   \* ids that wallets may have
  Item,     \* bound: ids of rows
  Null      \* an expense has no category any more

(* A function with one more value. *)
With(f, x, v) == [y \in DOMAIN f \cup {x} |-> IF y = x THEN v ELSE f[y]]

Table == {"Receita", "Despesa", "Categoria"}

Row == [table : Table, id : Item, carteira : Wallet, valor : Int,
        categoria : Item \cup {Null}]

(* The columns that an edit may set; the dates and texts are "outras". *)
Colunas == [Receita   |-> {"valor", "outras"},
            Despesa   |-> {"valor", "categoria", "outras"},
            Categoria |-> {"valor", "outras"}]

(***************************************************************************)
(* campos: the columns that the body of an edit has; what it has not is    *)
(* undefined, which is not null.  valido: of a create, every field that    *)
(* the controller demands is there; of an edit, none that the table        *)
(* demands is null.                                                        *)
(***************************************************************************)
Asked == [verb : {"create", "edit", "delete"}, table : Table \cup {"Carteira"},
          carteira : Wallet, id : Item \cup {Null}, categoria : Item \cup {Null},
          valor : Int, parcela : Nat \ {0},
          campos : SUBSET {"valor", "categoria", "outras"}, valido : BOOLEAN]

Sets(b, coluna) == b.verb = "create" \/ coluna \in b.campos

(* What findAll returns, and the row that a request names, if the wallet has it. *)
RowsOf(R, table, w) == {d \in R : d.table = table /\ d.carteira = w}
Named(R, b) == {d \in RowsOf(R, b.table, b.carteira) : d.id = b.id}

(* Postgres refuses an expense whose category does not exist. *)
ForeignKeysHold(R, b) ==
  (b.table = "Despesa" /\ Sets(b, "categoria") /\ b.categoria # Null) =>
    \E d \in R : d.table = "Categoria" /\ d.id = b.categoria

(***************************************************************************)
(* A category starts with limit 0; an expense gets its share of the value, *)
(* rounded to cents.                                                       *)
(***************************************************************************)
Shares(b) ==
  CASE b.table = "Receita"   -> {b.valor}
    [] b.table = "Categoria" -> {0}
    [] b.table = "Despesa"   ->
         LET q == b.valor \div b.parcela
         IN  {x \in {q, q + 1} : 2 * (x * b.parcela - b.valor) \in -b.parcela .. b.parcela}

CategoryIn(b) == IF b.table = "Despesa" THEN b.categoria ELSE Null

NewRow(b, i, share) ==
  [table |-> b.table, id |-> i, carteira |-> b.carteira, valor |-> share,
   categoria |-> CategoryIn(b)]

(***************************************************************************)
(* Model.update refuses null where the table does, changes nothing when    *)
(* there is nothing to set, and leaves alone what is undefined.            *)
(***************************************************************************)
Editable(R, b) ==
  /\ b.valido /\ ForeignKeysHold(R, b)
  /\ \E coluna \in Colunas[b.table] : Sets(b, coluna)
  /\ Named(R, b) # {}

EditedRow(d, b) ==
  [d EXCEPT !.valor     = IF Sets(b, "valor") THEN b.valor ELSE @,
            !.categoria = IF b.table = "Despesa" /\ Sets(b, "categoria") THEN b.categoria ELSE @]

Edited(R, b) == (R \ Named(R, b)) \cup {EditedRow(d, b) : d \in Named(R, b)}

(* An expense outlives its category: the foreign key is set to null. *)
Without(R, D) ==
  {[d EXCEPT !.categoria = IF \E c \in D : c.table = "Categoria" /\ c.id = @ THEN Null ELSE @]
     : d \in R \ D}

(* createCategoria, createReceita and createDespesa answer 400 without their fields. *)
Refused(b) == b.verb = "create" /\ ~b.valido
=============================================================================
