SPECIFICATION PromiseSpec
CONSTANTS
  Client = {c1}
  Generation = {g1}
  Key = {k1}
  Look = {x}
  Nothing = Nothing
  Kinds <- Characters
  Cap <- OneOfEach
  MaxVersion = 2
  f1 = f1
  f2 = f2
  f3 = f3
  m1 = m1
  c1 = c1
  c2 = c2
  n1 = n1
  n2 = n2
  Root = Root
INVARIANTS
  SomePromiseKept
CHECK_DEADLOCK FALSE
