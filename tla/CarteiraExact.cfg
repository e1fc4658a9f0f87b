SPECIFICATION Spec
CONSTANTS
  w1 = w1
  w2 = w2
  w3 = w3
  receita = receita
  outra = outra
  despesa = despesa
  categoria = categoria
  i1 = i1
  i2 = i2
  r1 = r1
  r2 = r2
  Null = Null
  NaN = NaN
  Wallet = {w1, w2, w3}
  Item = {receita, outra, despesa, categoria, i1, i2}
  Request = {r1, r2}
  Body <- Everything
  Stored <- Bank
  MaxRestarts = 1
SYMMETRY Interchangeable
INVARIANTS TypeOK Exact ReceitaDeletada
PROPERTY TabelasSpec
CHECK_DEADLOCK FALSE
