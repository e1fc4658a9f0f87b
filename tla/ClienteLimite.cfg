SPECIFICATION Spec
CONSTANTS
  receita = receita
  despesa = despesa
  categoria = categoria
  i1 = i1
  i2 = i2
  r1 = r1
  r2 = r2
  Null = Null
  walletId = walletId
  Wallet = {walletId}
  Item = {receita, despesa, categoria, i1, i2}
  Request = {r1, r2}
  Stored <- Wallet1
  Others <- Nobody
  Amount = {1}
  MaxParcelas = 2
  Mounted = {"CategoryButton"}
  Mounts = 2
SYMMETRY Interchangeable
INVARIANTS LimiteAlterado
CHECK_DEADLOCK FALSE
