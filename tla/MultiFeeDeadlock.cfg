SPECIFICATION Spec
CONSTANTS
  Worker = {w1, w2}
  User = {u1}
  Session = {}
  Payment = {p1, p2}
  Movement = {}
  Fee = {f1, f2}
  Key = {k1, k2}
  Mode = {"other"}
  Due <- OneFeeDue
  Alloc <- UnitAlloc
  Opening = {1}
  Flow <- Flows
  CountTotal = {}
  NewDue = {}
  MaxCounts = 0
  Null = Null
INVARIANTS NoDeadlock
