--------------------------- MODULE MCCashRegister ---------------------------
(***************************************************************************)
(* Small instances of CashRegister for TLC: the values of its constants    *)
(* that a .cfg cannot write, and the symmetry of its model values.         *)
(***************************************************************************)
EXTENDS CashRegister, TLC

\* One fee of 3, paid by 1 or 2 units: two payments of 2 do not both fit.
OneFeeDue == [f \in Fee |-> 3]
PartAllocs == {[f \in Fee |-> 1], [f \in Fee |-> 2]}
FullAlloc == {[f \in Fee |-> 3]}
UnitAlloc == {[f \in Fee |-> 1]}

Flows == {1, -1}
OutOnly == {-1}
Symmetry == Permutations(Worker) \cup Permutations(Session)
              \cup Permutations(Payment) \cup Permutations(Movement)
              \cup Permutations(Key) \cup Permutations(Fee) \cup Permutations(User)
=============================================================================
