SPECIFICATION LiveSpec
CONSTANTS
  Worker = {w1, w2, w3}
  User = {u1}
  Session = {s1}
  Payment = {p1, p2}
  Movement = {m1, m2}
  Fee = {f1, f2}
  Key = {k1, k2}
  Mode = {"cashier"}
  Due <- OneFeeDue
  Alloc <- UnitAlloc
  Opening = {1}
  Flow <- OutOnly
  CountTotal = {1}
  NewDue = {1}
  MaxCounts = 1
  Null = Null
  MaxRequests = 4
CHECK_DEADLOCK FALSE
PROPERTIES RequestsEnd PaymentFits
