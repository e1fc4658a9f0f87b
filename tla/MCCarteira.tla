----------------------------- MODULE MCCarteira -----------------------------
(* Instances of Carteira for TLC. *)
EXTENDS Carteira, TLC

CONSTANTS w1, w2, w3, receita, outra, despesa, categoria, i1, i2, r1, r2

(* One wallet with an income, an expense and a category, one with an income. *)
Bank ==
  {[table |-> "Receita", id |-> receita, carteira |-> w1, valor |-> 9, categoria |-> Null],
   [table |-> "Despesa", id |-> despesa, carteira |-> w1, valor |-> 4, categoria |-> categoria],
   [table |-> "Categoria", id |-> categoria, carteira |-> w1, valor |-> 0, categoria |-> Null],
   [table |-> "Receita", id |-> outra, carteira |-> w2, valor |-> 3, categoria |-> Null]}

Asking(verb, table, w, i, value, parts) ==
  [verb |-> verb, table |-> table, carteira |-> w, id |-> i, categoria |-> categoria,
   valor |-> value, parcela |-> parts, campos |-> Colunas[table], valido |-> value # 0]

(* An edit that has some columns only. *)
Part(table, i, value, campos) ==
  [Asking("edit", table, w1, i, value, 1) EXCEPT !.campos = campos]

Everything ==
  {Asking("create", "Receita", w, receita, 2, 1) : w \in {w1, w2, w3}} \cup
  {Asking("edit", "Receita", w, receita, 7, 1) : w \in {w1, w2}} \cup
  {Asking("create", "Receita", w1, receita, 0, 1),
   Asking("delete", "Receita", w1, receita, 1, 1),
   Asking("edit", "Receita", w2, outra, 5, 1),
   Asking("create", "Despesa", w1, despesa, 3, 1),
   Asking("create", "Despesa", w1, despesa, 3, 2),
   Asking("edit", "Despesa", w1, despesa, 6, 1),
   Asking("delete", "Despesa", w1, despesa, 1, 1),
   [Asking("create", "Receita", w3, Null, 1, 1) EXCEPT !.table = "Carteira"],
   Part("Receita", receita, 8, {"outras"}),
   Part("Despesa", despesa, 5, {"valor"}),
   Part("Categoria", categoria, 2, {"valor"})} \cup
  {Asking(verb, "Categoria", w1, categoria, 1, 1) : verb \in {"create", "delete"}}

(* Requests, and the ids that new rows get, are interchangeable. *)
Interchangeable == Permutations({r1, r2}) \cup Permutations({i1, i2})
=============================================================================
