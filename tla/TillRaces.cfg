SPECIFICATION Spec
CONSTANTS
  Worker = {w1, w2, w3}
  User = {u1}
  Session = {s1}
  Payment = {p1, p2}
  Movement = {m1}
  Fee = {f1}
  Key = {k1, k2}
  Mode = {"cashier"}
  Due <- OneFeeDue
  Alloc <- PartAllocs
  Opening = {1}
  Flow <- OutOnly
  CountTotal = {1}
  NewDue = {}
  MaxCounts = 1
  Null = Null
SYMMETRY Symmetry
INVARIANTS DecisionsStand NoDeadlock FeesFollowPayments
PROPERTIES  ImplementsLedger
