------------------------------ MODULE CashLedger ------------------------------
(***************************************************************************)
(* What the cash register promises to the school's accountant, without     *)
(* transactions, locks or rows: each session is a till that takes money    *)
(* in, gives money out within its balance, and once sealed never moves.    *)
(***************************************************************************)
EXTENDS Integers

CONSTANTS User, Session, Null

VARIABLES
  status,   \* "NONE", "OPEN" or "CLOSED"
  holder,   \* the cashier of each session
  takings,  \* completed cash payments of each session
  float,    \* opening amount plus movements in, minus movements out
  sealed    \* the balance a session was closed with

vars == <<status, holder, takings, float, sealed>>

Balance(s) == takings[s] + float[s]

Init ==
  /\ status = [s \in Session |-> "NONE"]
  /\ holder = [s \in Session |-> Null]
  /\ takings = [s \in Session |-> 0]
  /\ float = [s \in Session |-> 0]
  /\ sealed = [s \in Session |-> 0]

\* One open session per cashier.
Open(s) == \E u \in User :
  /\ status[s] = "NONE"
  /\ \A t \in Session : ~ (status[t] = "OPEN" /\ holder[t] = u)
  /\ status' = [status EXCEPT ![s] = "OPEN"]
  /\ holder' = [holder EXCEPT ![s] = u]
  /\ float'[s] >= 0
  /\ float' = [float EXCEPT ![s] = float'[s]]
  /\ UNCHANGED <<takings, sealed>>

Receive(s) ==
  /\ status[s] = "OPEN"
  /\ takings'[s] > takings[s]
  /\ takings' = [takings EXCEPT ![s] = takings'[s]]
  /\ UNCHANGED <<status, holder, float, sealed>>

\* Only money that was received can be given back.
Refund(s) ==
  /\ status[s] = "OPEN"
  /\ takings'[s] \in 0 .. takings[s] - 1
  /\ takings' = [takings EXCEPT ![s] = takings'[s]]
  /\ UNCHANGED <<status, holder, float, sealed>>

PutIn(s) ==
  /\ status[s] = "OPEN"
  /\ float'[s] > float[s]
  /\ float' = [float EXCEPT ![s] = float'[s]]
  /\ UNCHANGED <<status, holder, takings, sealed>>

TakeOut(s) ==
  /\ status[s] = "OPEN"
  /\ float'[s] < float[s]
  /\ takings[s] + float'[s] >= 0
  /\ float' = [float EXCEPT ![s] = float'[s]]
  /\ UNCHANGED <<status, holder, takings, sealed>>

Seal(s) ==
  /\ status[s] = "OPEN"
  /\ status' = [status EXCEPT ![s] = "CLOSED"]
  /\ sealed' = [sealed EXCEPT ![s] = Balance(s)]
  /\ UNCHANGED <<holder, takings, float>>

Next == \E s \in Session :
  \/ Open(s) \/ Receive(s) \/ Refund(s) \/ PutIn(s) \/ TakeOut(s) \/ Seal(s)

Spec == Init /\ [][Next]_vars

=============================================================================
