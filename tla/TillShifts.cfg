SPECIFICATION Spec
CONSTANTS
  Worker = {w1, w2}
  User = {u1}
  Session = {s1, s2}
  Payment = {p1, p2}
  Movement = {}
  Fee = {f1}
  Key = {k1}
  Mode = {"cash"}
  Due <- OneFeeDue
  Alloc <- UnitAlloc
  Opening = {1}
  Flow <- OutOnly
  CountTotal = {1, 2}
  NewDue = {2}
  MaxCounts = 2
  Null = Null
SYMMETRY Symmetry
INVARIANTS ClosedBooksFrozen 
