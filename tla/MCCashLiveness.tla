--------------------------- MODULE MCCashLiveness ---------------------------
(***************************************************************************)
(* CashRegister under fairness, for a bounded number of requests: a lock   *)
(* that can be shared may starve a FOR UPDATE under endless new requests,  *)
(* and neither PostgreSQL nor the code prevents that.                      *)
(***************************************************************************)
EXTENDS MCCashRegister

CONSTANT MaxRequests
VARIABLE budget

LiveVars == <<vars, budget>>
LiveInit == Init /\ budget = MaxRequests
LiveNext ==
  \/ /\ budget > 0
     /\ \E w \in Worker : Arrive(w)
     /\ budget' = budget - 1
  \/ /\ \E w \in Worker : Step(w) \/ Abort(w)
     /\ UNCHANGED budget
LiveSpec == LiveInit /\ [][LiveNext]_LiveVars /\ FairSteps
=============================================================================
