SPECIFICATION Spec
CONSTANTS
  receita = receita
  despesa = despesa
  categoria = categoria
  i1 = i1
  i2 = i2
  r1 = r1
  r2 = r2
  Null = Null
  walletId = walletId
  Wallet = {walletId}
  Item = {receita, despesa, categoria, i1, i2}
  Request = {r1, r2}
  Stored <- Wallet1
  Others <- OnCategories
  Amount = {1}
  MaxParcelas = 2
  Mounted = {"RoscaCategoryChart", "CategoryButton"}
  Mounts = 1
SYMMETRY Interchangeable
INVARIANTS ChartComplete
CHECK_DEADLOCK FALSE
