----------------------------- MODULE MCCliente ------------------------------
(* Instances of Cliente for TLC: one wallet, with a row of each kind. *)
EXTENDS Cliente, TLC

CONSTANTS receita, despesa, categoria, i1, i2, r1, r2

Wallet1 ==
  {[table |-> "Receita", id |-> receita, carteira |-> walletId, valor |-> 9, categoria |-> Null],
   [table |-> "Despesa", id |-> despesa, carteira |-> walletId, valor |-> 4, categoria |-> categoria],
   [table |-> "Categoria", id |-> categoria, carteira |-> walletId, valor |-> 0, categoria |-> Null]}

Elsewhere(verb, table, i, c) ==
  [verb |-> verb, table |-> table, carteira |-> walletId, id |-> i, categoria |-> c,
   valor |-> 6, parcela |-> 1, campos |-> Colunas[table], valido |-> TRUE]

(* Other pages edit incomes, or work on categories. *)
OnIncomes == {Elsewhere("edit", "Receita", receita, Null)}

OnCategories == {Elsewhere("create", "Categoria", Null, Null),
                 Elsewhere("create", "Despesa", Null, i1),
                 Elsewhere("delete", "Categoria", categoria, Null)}
Nobody == {}

Interchangeable == Permutations({r1, r2})
=============================================================================
