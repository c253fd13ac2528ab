------------------------- MODULE CashRegisterProofs -------------------------
(***************************************************************************)
(* Theorems about CashRegister, for every number of workers, sessions,     *)
(* payments and amounts.                                                   *)
(***************************************************************************)
EXTENDS CashRegister, TLAPS

\* A worker inside a handler serves a request of that handler's kind.
ReqOK == \A w \in Worker :
  /\ pc[w] \in OpenPc => req[w] \in OpenReq
  /\ pc[w] \in PayPc => req[w] \in PayReq
  /\ pc[w] \in CancelPc => req[w] \in CancelReq
  /\ pc[w] \in MovePc => req[w] \in MoveReq
  /\ pc[w] \in CountPc => req[w] \in CountReq
  /\ pc[w] \in ClosePc => req[w] \in CloseReq
  /\ pc[w] = "adjust" => req[w] \in AdjustReq
  /\ pc[w] \in {"pay-share", "cancel-share"} => cash[w] \in Session

\* An accepted closing names an existing count.
CountOK == \A w \in Worker : pc[w] = "close-commit" =>
  req[w].count \in 1 .. Len(counts[req[w].session])

TypeInv == TypeOK /\ ReqOK /\ CountOK

\* The empty school is well typed.
LEMMA TypeInit == Init => TypeInv
BY NullAssumption, AmountAssumption
DEF Init, TypeInv, TypeOK, ReqOK, CountOK, NoSession, NoPayment, NoMovement, NoReq,
    SessionRow, PaymentRow, MovementRow, FeeRow, Pc, Resting, OpenPc, PayPc,
    CancelPc, MovePc, CountPc, ClosePc

\* The end of a request, answered, refused or rolled back, is well typed.
LEMMA FinishType ==
  ASSUME TypeInv, NEW w \in Worker, NEW o \in Resting, Finish(w, o)
  PROVE  /\ share' \in [Session -> SUBSET Worker]
         /\ excl' \in [Session -> SUBSET Worker]
         /\ payLock' \in [Payment -> SUBSET Worker]
         /\ feeLock' \in [Fee -> SUBSET Worker]
         /\ pc' \in [Worker -> Pc]
         /\ req' \in [Worker -> Request \cup {NoReq}]
         /\ cash' \in [Worker -> Session \cup {Null}]
         /\ pc' = [pc EXCEPT ![w] = o]
         /\ ReqOK'
BY DEF TypeInv, TypeOK, ReqOK, Finish, GoTo, Release, Pc, Resting, OpenPc, PayPc,
       CancelPc, MovePc, CountPc, ClosePc

\* A request that arrives is well typed: the ids and amounts it carries are
\* those the client was shown.
LEMMA ArriveType ==
  ASSUME TypeInv, NEW w \in Worker, Arrive(w)
  PROVE  TypeInv'
<1>1. PICK r : Ask(w, r)
  BY DEF Arrive, AskOpen, AskPay, AskCancel, AskMove, AskCount, AskClose, AskAdjust
<1>2. r \in Request
  BY <1>1 DEF Ask
<1>3. TypeOK'
  <2>1. FirstStep[r.op] \in Pc
    BY <1>2 DEF Request, OpenReq, PayReq, CancelReq, MoveReq, CountReq, CloseReq,
                AdjustReq, FirstStep, Pc, OpenPc, PayPc, CancelPc, MovePc, CountPc, ClosePc
  <2> QED BY <1>1, <1>2, <2>1 DEF TypeInv, TypeOK, Ask, GoTo, db, locks
<1>4. ReqOK'
  BY <1>1, <1>2
  DEF TypeInv, TypeOK, ReqOK, Ask, GoTo, Request, OpenReq, PayReq, CancelReq, MoveReq,
      CountReq, CloseReq, AdjustReq, FirstStep, OpenPc, PayPc, CancelPc, MovePc,
      CountPc, ClosePc
<1>5. CountOK'
  BY <1>1, <1>2
  DEF TypeInv, TypeOK, CountOK, Ask, GoTo, db, Request, OpenReq, PayReq, CancelReq,
      MoveReq, CountReq, CloseReq, AdjustReq, FirstStep, Resting
<1> QED BY <1>3, <1>4, <1>5 DEF TypeInv

\* A finished transaction that wrote nothing keeps the types.
LEMMA QuietType ==
  ASSUME TypeInv, NEW w \in Worker, NEW o \in Resting, Finish(w, o), UNCHANGED db
  PROVE  TypeInv'
<1>1. TypeOK'
  BY FinishType DEF TypeInv, TypeOK, db
<1>2. CountOK'
  BY DEF TypeInv, TypeOK, CountOK, Finish, GoTo, db, Resting
<1> QED BY <1>1, <1>2, FinishType DEF TypeInv

\* A statement that only moves its worker on, inside the same handler.
LEMMA MoveOnType ==
  ASSUME TypeInv, NEW w \in Worker, NEW l \in Pc,
         GoTo(w, l), UNCHANGED <<db, req>>,
         share' \in [Session -> SUBSET Worker],
         excl' \in [Session -> SUBSET Worker],
         payLock' \in [Payment -> SUBSET Worker],
         feeLock' \in [Fee -> SUBSET Worker],
         cash' \in [Worker -> Session \cup {Null}],
         \A v \in Worker : v # w => cash'[v] = cash[v],
         l \in {"pay-share", "cancel-share"} => cash'[w] \in Session,
         l \notin Resting,
         \/ pc[w] \in OpenPc /\ l \in OpenPc
         \/ pc[w] \in PayPc /\ l \in PayPc
         \/ pc[w] \in CancelPc /\ l \in CancelPc
         \/ pc[w] \in MovePc /\ l \in MovePc
         \/ pc[w] \in CountPc /\ l \in CountPc
         \/ pc[w] \in ClosePc /\ l \in ClosePc,
         l = "close-commit" => req[w].count \in 1 .. Len(counts[req[w].session])
  PROVE  TypeInv'
<1>1. TypeOK'
  BY DEF TypeInv, TypeOK, GoTo, db
<1>2. ReqOK'
  BY DEF TypeInv, TypeOK, ReqOK, GoTo, OpenPc, PayPc, CancelPc, MovePc, CountPc, ClosePc
<1>3. CountOK'
  BY DEF TypeInv, TypeOK, CountOK, GoTo, db
<1> QED BY <1>1, <1>2, <1>3 DEF TypeInv

\* A transaction that ends by writing rows: only the types of the rows are left.
LEMMA CommitType ==
  ASSUME TypeInv, NEW w \in Worker, Finish(w, "idle"),
         sessions' \in [Session -> SessionRow],
         payments' \in [Payment -> PaymentRow],
         movements' \in [Movement -> MovementRow],
         fees' \in [Fee -> FeeRow],
         counts' \in [Session -> Seq(Nat)],
         \A s \in Session : Len(counts[s]) <= Len(counts'[s])
  PROVE  TypeInv'
<1>1. TypeOK'
  BY FinishType DEF TypeInv, TypeOK, Resting
<1>2. CountOK'
  <2> SUFFICES ASSUME NEW v \in Worker, pc'[v] = "close-commit"
               PROVE  req'[v].count \in 1 .. Len(counts'[req'[v].session])
    BY DEF CountOK
  <2>1. pc[v] = "close-commit" /\ req'[v] = req[v]
    BY DEF TypeInv, TypeOK, Finish, GoTo
  <2>2. req[v] \in CloseReq /\ req[v].count \in 1 .. Len(counts[req[v].session])
    BY <2>1 DEF TypeInv, ReqOK, CountOK, ClosePc
  <2>3. /\ req[v].session \in Session
        /\ Len(counts[req[v].session]) \in Nat
        /\ Len(counts'[req[v].session]) \in Nat
    BY <2>2 DEF TypeInv, TypeOK, CloseReq
  <2> QED BY <2>1, <2>2, <2>3
<1> QED BY <1>1, <1>2, FinishType DEF TypeInv, Resting

\* _refresh_student_fee_status writes one of the three statuses of a fee.
LEMMA RefreshedType ==
  ASSUME TypeOK, NEW ps, NEW F
  PROVE  Refreshed(ps, F) \in [Fee -> FeeRow]
BY DEF TypeOK, Refreshed, FeeStatus, FeeRow

\* The statements of open_session are well typed.
LEMMA OpenType ==
  ASSUME TypeInv, NEW w \in Worker,
         OpenCheck(w) \/ OpenInsert(w) \/ OpenCommit(w)
  PROVE  TypeInv'
<1>1. CASE Reject(w)
  BY <1>1, QuietType DEF Reject, Resting
<1>2. CASE OpenCheck(w) /\ ~ Reject(w)
  BY <1>2, MoveOnType
  DEF OpenCheck, TypeInv, TypeOK, locks, Pc, OpenPc, Resting, CountPc, PayPc, CancelPc, MovePc, ClosePc
<1>3. CASE OpenInsert(w) /\ ~ Reject(w)
  BY <1>3, MoveOnType
  DEF OpenInsert, TypeInv, TypeOK, locks, Pc, OpenPc, Resting, CountPc, PayPc, CancelPc, MovePc, ClosePc
<1>4. CASE OpenCommit(w)
  <2>1. req[w] \in OpenReq
    BY <1>4 DEF TypeInv, ReqOK, OpenCommit, OpenPc
  <2>2. PICK s \in Session : sessions' = [sessions EXCEPT ![s] =
            [status |-> "OPEN", cashier |-> req[w].user,
             opening |-> req[w].opening, expected |-> 0, counted |-> 0]]
    BY <1>4 DEF OpenCommit
  <2>3. req[w].user \in User /\ req[w].opening \in Nat
    BY <2>1, AmountAssumption DEF OpenReq
  <2>4. [status |-> "OPEN", cashier |-> req[w].user, opening |-> req[w].opening,
         expected |-> 0, counted |-> 0] \in SessionRow
    BY <2>3 DEF SessionRow
  <2>5. sessions' \in [Session -> SessionRow]
    BY <2>2, <2>4 DEF TypeInv, TypeOK
  <2>6. /\ payments' \in [Payment -> PaymentRow]
        /\ movements' \in [Movement -> MovementRow]
        /\ fees' \in [Fee -> FeeRow]
        /\ counts' \in [Session -> Seq(Nat)]
        /\ \A t \in Session : Len(counts[t]) <= Len(counts'[t])
    BY <1>4 DEF OpenCommit, TypeInv, TypeOK
  <2> QED
    BY <1>4, <2>5, <2>6, CommitType DEF OpenCommit
<1> QED BY <1>1, <1>2, <1>3, <1>4

\* A recorder without an open session is refused, or goes on without one.
LEMMA WithoutSessionType ==
  ASSUME TypeInv, NEW w \in Worker, pc[w] \in {"pay-find", "pay-share"},
         PayWithoutSession(w)
  PROVE  TypeInv'
<1>1. CASE Reject(w)
  BY <1>1, QuietType DEF Reject, Resting
<1>2. CASE ~ Reject(w)
  BY <1>2, MoveOnType
  DEF PayWithoutSession, TypeInv, TypeOK, locks, Pc, OpenPc, Resting, CountPc, PayPc,
      CancelPc, MovePc, ClosePc
<1> QED BY <1>1, <1>2

\* The statements of record_payment before its commit are well typed.
LEMMA PayControlType ==
  ASSUME TypeInv, NEW w \in Worker,
         PayLookup(w) \/ PayFind(w) \/ PayShare(w) \/ PayCheck(w) \/ PayInsert(w)
  PROVE  TypeInv'
<1> USE DEF Pc, OpenPc, Resting, CountPc, PayPc, CancelPc, MovePc, ClosePc
<1>1. CASE Finish(w, "idle") /\ UNCHANGED db
  BY <1>1, QuietType
<1>2. CASE Reject(w)
  BY <1>2, QuietType DEF Reject
<1>3. CASE PayLookup(w) /\ ~ Finish(w, "idle")
  BY <1>3, MoveOnType DEF PayLookup, TypeInv, TypeOK, locks
<1>4. CASE PayFind(w)
  <2>1. CASE PayWithoutSession(w)
    BY <1>4, <2>1, WithoutSessionType DEF PayFind
  <2>2. CASE ~ PayWithoutSession(w)
    <3>1. PICK s \in OpenSessions(req[w].user) :
            /\ GoTo(w, "pay-share")
            /\ cash' = [cash EXCEPT ![w] = s]
            /\ UNCHANGED <<db, locks, req>>
      BY <1>4, <2>2 DEF PayFind
    <3>2. s \in Session /\ pc[w] = "pay-find"
      BY <1>4 DEF OpenSessions, PayFind
    <3> QED BY <3>1, <3>2, MoveOnType DEF TypeInv, TypeOK, locks
  <2> QED BY <2>1, <2>2
<1>5. CASE PayShare(w)
  <2>1. CASE PayWithoutSession(w)
    BY <1>5, <2>1, WithoutSessionType DEF PayShare
  <2>2. CASE ~ PayWithoutSession(w)
    <3>1. pc[w] = "pay-share" /\ cash[w] \in Session
      BY <1>5 DEF PayShare, TypeInv, ReqOK
    <3>2. /\ share' = [share EXCEPT ![cash[w]] = @ \cup {w}]
          /\ GoTo(w, "pay-fees")
          /\ UNCHANGED <<db, excl, payLock, feeLock, req, cash>>
      BY <1>5, <2>2 DEF PayShare
    <3> QED BY <3>1, <3>2, MoveOnType DEF TypeInv, TypeOK
  <2> QED BY <2>1, <2>2
<1>6. CASE PayCheck(w) /\ ~ Reject(w)
  BY <1>6, MoveOnType DEF PayCheck, TypeInv, TypeOK, locks
<1>7. CASE PayInsert(w) /\ ~ Finish(w, "idle")
  BY <1>7, MoveOnType DEF PayInsert, TypeInv, TypeOK, locks
<1> QED BY <1>1, <1>2, <1>3, <1>4, <1>5, <1>6, <1>7 DEF PayLookup, PayInsert

\* Locking one fee is well typed.
LEMMA LockFeeType ==
  ASSUME TypeInv, NEW w \in Worker, LockFee(w)
  PROVE  TypeInv'
<1>1. feeLock' \in [Fee -> SUBSET Worker]
  <2>1. PICK f \in FeesOf(w) : feeLock' = [feeLock EXCEPT ![f] = @ \cup {w}]
    BY DEF LockFee
  <2> QED BY <2>1 DEF TypeInv, TypeOK
<1>2. TypeOK'
  BY <1>1 DEF LockFee, TypeInv, TypeOK, db
<1>3. ReqOK' /\ CountOK'
  BY DEF LockFee, TypeInv, ReqOK, CountOK, db
<1> QED BY <1>2, <1>3 DEF TypeInv

\* The commit of record_payment is well typed.
LEMMA PayCommitType ==
  ASSUME TypeInv, NEW w \in Worker, PayCommit(w)
  PROVE  TypeInv'
<1>1. req[w] \in PayReq /\ cash[w] \in Session \cup {Null}
  BY DEF TypeInv, TypeOK, ReqOK, PayCommit, PayPc
<1>2. PICK p \in Payment : payments' = [payments EXCEPT ![p] =
            [status |-> "COMPLETED", key |-> req[w].key, session |-> cash[w],
             alloc |-> req[w].alloc]]
  BY DEF PayCommit
<1>3. req[w].key \in Key /\ req[w].alloc \in [Fee -> Nat]
  BY <1>1, AmountAssumption DEF PayReq
<1>4. [status |-> "COMPLETED", key |-> req[w].key, session |-> cash[w],
       alloc |-> req[w].alloc] \in PaymentRow
  BY <1>1, <1>3 DEF PaymentRow
<1>5. payments' \in [Payment -> PaymentRow]
  BY <1>2, <1>4 DEF TypeInv, TypeOK
<1>6. fees' \in [Fee -> FeeRow]
  BY RefreshedType DEF PayCommit, TypeInv
<1>7. /\ sessions' \in [Session -> SessionRow]
      /\ movements' \in [Movement -> MovementRow]
      /\ counts' \in [Session -> Seq(Nat)]
      /\ \A t \in Session : Len(counts[t]) <= Len(counts'[t])
  BY DEF PayCommit, TypeInv, TypeOK
<1> QED
  BY <1>5, <1>6, <1>7, CommitType DEF PayCommit

\* The statements of cancel_payment are well typed.
LEMMA CancelType ==
  ASSUME TypeInv, NEW w \in Worker,
         CancelLock(w) \/ CancelShare(w) \/ CancelCommit(w)
  PROVE  TypeInv'
<1> USE DEF Pc, OpenPc, Resting, CountPc, PayPc, CancelPc, MovePc, ClosePc
<1>0. req[w] \in CancelReq /\ req[w].payment \in Payment
  BY DEF TypeInv, ReqOK, CancelLock, CancelShare, CancelCommit, CancelReq
<1>1. CASE Reject(w)
  BY <1>1, QuietType DEF Reject
<1>2. CASE CancelLock(w) /\ ~ Reject(w)
  <2> DEFINE p == req[w].payment
  <2>1. payments[p].session \in Session \cup {Null}
    BY <1>0 DEF TypeInv, TypeOK, PaymentRow
  <2>2. /\ payLock' = [payLock EXCEPT ![p] = @ \cup {w}]
        /\ cash' = [cash EXCEPT ![w] = payments[p].session]
        /\ GoTo(w, IF payments[p].session = Null THEN "cancel-fees" ELSE "cancel-share")
        /\ UNCHANGED <<db, share, excl, feeLock, req>>
        /\ pc[w] = "cancel-lock"
    BY <1>2 DEF CancelLock
  <2>3. payLock' \in [Payment -> SUBSET Worker] /\ cash' \in [Worker -> Session \cup {Null}]
    BY <2>1, <2>2 DEF TypeInv, TypeOK
  <2>4. CASE payments[p].session = Null
    BY <2>2, <2>3, <2>4, MoveOnType DEF TypeInv, TypeOK
  <2>5. CASE payments[p].session # Null
    BY <2>1, <2>2, <2>3, <2>5, MoveOnType DEF TypeInv, TypeOK
  <2> QED BY <2>4, <2>5
<1>3. CASE CancelShare(w) /\ ~ Reject(w)
  <2>1. pc[w] = "cancel-share" /\ cash[w] \in Session
    BY <1>3 DEF CancelShare, TypeInv, ReqOK
  <2>2. /\ share' = [share EXCEPT ![cash[w]] = @ \cup {w}]
        /\ GoTo(w, "cancel-fees")
        /\ UNCHANGED <<db, excl, payLock, feeLock, req, cash>>
    BY <1>3 DEF CancelShare
  <2> QED BY <2>1, <2>2, MoveOnType DEF TypeInv, TypeOK
<1>4. CASE CancelCommit(w)
  <2>1. payments' \in [Payment -> PaymentRow]
    <3>1. payments' = [payments EXCEPT ![req[w].payment].status = "CANCELLED"]
      BY <1>4 DEF CancelCommit
    <3>2. payments[req[w].payment] \in PaymentRow
      BY <1>0 DEF TypeInv, TypeOK
    <3>3. [payments[req[w].payment] EXCEPT !.status = "CANCELLED"] \in PaymentRow
      BY <3>2 DEF PaymentRow
    <3> QED BY <1>0, <3>1, <3>3 DEF TypeInv, TypeOK
  <2>2. fees' \in [Fee -> FeeRow]
    BY <1>4, RefreshedType DEF CancelCommit, TypeInv
  <2>3. /\ sessions' \in [Session -> SessionRow]
        /\ movements' \in [Movement -> MovementRow]
        /\ counts' \in [Session -> Seq(Nat)]
        /\ \A t \in Session : Len(counts[t]) <= Len(counts'[t])
    BY <1>4 DEF CancelCommit, TypeInv, TypeOK
  <2> QED BY <1>4, <2>1, <2>2, <2>3, CommitType DEF CancelCommit
<1> QED BY <1>1, <1>2, <1>3, <1>4

\* lock_session is well typed.
LEMMA LockSessionType ==
  ASSUME TypeInv, NEW w \in Worker, LockSession(w)
  PROVE  TypeInv'
<1> USE DEF Pc, OpenPc, Resting, CountPc, PayPc, CancelPc, MovePc, ClosePc
<1>1. pc[w] \in {"move-lock", "count-lock", "close-lock"}
  BY DEF LockSession, AfterLock
<1>2. excl' \in [Session -> SUBSET Worker]
  BY DEF LockSession, TypeInv, TypeOK
<1>3. /\ GoTo(w, AfterLock[pc[w]])
      /\ UNCHANGED <<db, share, payLock, feeLock, req, cash>>
  BY DEF LockSession
<1>4. CASE pc[w] = "move-lock"
  BY <1>2, <1>3, <1>4, MoveOnType DEF TypeInv, TypeOK, AfterLock
<1>5. CASE pc[w] = "count-lock"
  BY <1>2, <1>3, <1>5, MoveOnType DEF TypeInv, TypeOK, AfterLock
<1>6. CASE pc[w] = "close-lock"
  BY <1>2, <1>3, <1>6, MoveOnType DEF TypeInv, TypeOK, AfterLock
<1> QED BY <1>1, <1>4, <1>5, <1>6

\* The statements of add_movement are well typed.
LEMMA MoveType ==
  ASSUME TypeInv, NEW w \in Worker, MoveCheck(w) \/ MoveCommit(w)
  PROVE  TypeInv'
<1> USE DEF Pc, OpenPc, Resting, CountPc, PayPc, CancelPc, MovePc, ClosePc
<1>1. CASE Finish(w, "idle") /\ UNCHANGED db
  BY <1>1, QuietType
<1>2. CASE Reject(w)
  BY <1>2, QuietType DEF Reject
<1>3. CASE MoveCheck(w) /\ ~ Finish(w, "idle") /\ ~ Reject(w)
  BY <1>3, MoveOnType DEF MoveCheck, TypeInv, TypeOK, locks
<1>4. CASE MoveCommit(w)
  <2>1. req[w].session \in Session /\ req[w].key \in Key /\ req[w].amount \in Int
    BY <1>4, AmountAssumption DEF MoveCommit, TypeInv, ReqOK, MoveReq
  <2>2. [session |-> req[w].session, key |-> req[w].key, amount |-> req[w].amount]
          \in MovementRow
    BY <2>1 DEF MovementRow
  <2>3. movements' \in [Movement -> MovementRow]
    BY <1>4, <2>2 DEF MoveCommit, TypeInv, TypeOK
  <2>4. /\ sessions' \in [Session -> SessionRow]
        /\ payments' \in [Payment -> PaymentRow]
        /\ fees' \in [Fee -> FeeRow]
        /\ counts' \in [Session -> Seq(Nat)]
        /\ \A t \in Session : Len(counts[t]) <= Len(counts'[t])
    BY <1>4 DEF MoveCommit, TypeInv, TypeOK
  <2> QED BY <1>4, <2>3, <2>4, CommitType DEF MoveCommit
<1> QED BY <1>1, <1>2, <1>3, <1>4 DEF MoveCheck

\* The commit of create_count is well typed.
LEMMA CountType ==
  ASSUME TypeInv, NEW w \in Worker, CountCommit(w)
  PROVE  TypeInv'
<1>1. CASE Reject(w)
  BY <1>1, QuietType DEF Reject, Resting
<1>2. CASE ~ Reject(w)
  <2>1. req[w].session \in Session /\ req[w].total \in Nat
    BY <1>2, AmountAssumption DEF CountCommit, TypeInv, ReqOK, CountReq, CountPc
  <2>2. /\ counts' = [counts EXCEPT ![req[w].session] = Append(@, req[w].total)]
        /\ Finish(w, "idle")
        /\ UNCHANGED <<sessions, payments, movements, fees>>
    BY <1>2 DEF CountCommit
  <2>3. counts[req[w].session] \in Seq(Nat)
    BY <2>1 DEF TypeInv, TypeOK
  <2>4. /\ Append(counts[req[w].session], req[w].total) \in Seq(Nat)
        /\ Len(Append(counts[req[w].session], req[w].total))
             = Len(counts[req[w].session]) + 1
        /\ Len(counts[req[w].session]) \in Nat
    BY <2>1, <2>3
  <2>5. counts' \in [Session -> Seq(Nat)]
    BY <2>2, <2>4 DEF TypeInv, TypeOK
  <2>6. ASSUME NEW t \in Session PROVE Len(counts[t]) <= Len(counts'[t])
    <3>1. Len(counts[t]) \in Nat
      BY DEF TypeInv, TypeOK
    <3>2. CASE t = req[w].session
      BY <2>1, <2>2, <2>4, <3>2 DEF TypeInv, TypeOK
    <3>3. CASE t # req[w].session
      BY <2>1, <2>2, <3>1, <3>3 DEF TypeInv, TypeOK
    <3> QED BY <3>2, <3>3
  <2>7. /\ sessions' \in [Session -> SessionRow]
        /\ payments' \in [Payment -> PaymentRow]
        /\ movements' \in [Movement -> MovementRow]
        /\ fees' \in [Fee -> FeeRow]
    BY <2>2 DEF TypeInv, TypeOK
  <2> QED BY <2>2, <2>5, <2>6, <2>7, CommitType
<1> QED BY <1>1, <1>2

\* The statements of close_session are well typed: the count the request names
\* is one of the counts of the session when it is read.
LEMMA CloseType ==
  ASSUME TypeInv, NEW w \in Worker, CloseCheck(w) \/ CloseCommit(w)
  PROVE  TypeInv'
<1> USE DEF Pc, OpenPc, Resting, CountPc, PayPc, CancelPc, MovePc, ClosePc
<1>0. /\ req[w] \in CloseReq
      /\ req[w].session \in Session /\ req[w].count \in Nat /\ req[w].expected \in Int
  BY DEF TypeInv, ReqOK, CloseCheck, CloseCommit, CloseReq
<1>1. CASE Reject(w)
  BY <1>1, QuietType DEF Reject
<1>2. CASE CloseCheck(w) /\ ~ Reject(w)
  <2>1. /\ pc[w] = "close-check"
        /\ GoTo(w, "close-commit")
        /\ UNCHANGED <<db, locks, req, cash>>
        /\ counts[req[w].session] # <<>>
        /\ req[w].count = Len(counts[req[w].session])
    BY <1>2 DEF CloseCheck
  <2>2. req[w].count \in 1 .. Len(counts[req[w].session])
    BY <1>0, <2>1 DEF TypeInv, TypeOK
  <2> QED BY <2>1, <2>2, MoveOnType DEF TypeInv, TypeOK, locks
<1>3. CASE CloseCommit(w)
  <2> DEFINE s == req[w].session
             row == [sessions[s] EXCEPT !.status = "CLOSED", !.expected = req[w].expected,
                                        !.counted = counts[s][req[w].count]]
  <2>1. sessions' = [sessions EXCEPT ![s] = row]
    BY <1>3 DEF CloseCommit
  <2>2. counts[s][req[w].count] \in Nat
    <3>1. req[w].count \in 1 .. Len(counts[s])
      BY <1>3 DEF CloseCommit, TypeInv, CountOK
    <3>2. counts[s] \in Seq(Nat)
      BY <1>0 DEF TypeInv, TypeOK
    <3> QED BY <3>1, <3>2
  <2>3. row \in SessionRow
    <3>1. sessions[s] \in SessionRow
      BY <1>0 DEF TypeInv, TypeOK
    <3> QED BY <1>0, <2>2, <3>1 DEF SessionRow
  <2>4. sessions' \in [Session -> SessionRow]
    BY <2>1, <2>3 DEF TypeInv, TypeOK
  <2>5. /\ movements' \in [Movement -> MovementRow]
        /\ payments' \in [Payment -> PaymentRow]
        /\ fees' \in [Fee -> FeeRow]
        /\ counts' \in [Session -> Seq(Nat)]
        /\ \A t \in Session : Len(counts[t]) <= Len(counts'[t])
    BY <1>3 DEF CloseCommit, TypeInv, TypeOK
  <2> QED BY <1>3, <2>4, <2>5, CommitType DEF CloseCommit
<1> QED BY <1>1, <1>2, <1>3

\* update_student_fee is well typed.
LEMMA AdjustType ==
  ASSUME TypeInv, NEW w \in Worker, Adjust(w)
  PROVE  TypeInv'
<1>1. req[w].fee \in Fee /\ req[w].due \in Nat \ {0}
  BY AmountAssumption DEF Adjust, TypeInv, ReqOK, AdjustReq
<1>2. fees' \in [Fee -> FeeRow]
  BY <1>1 DEF Adjust, TypeInv, TypeOK, FeeRow
<1>3. /\ sessions' \in [Session -> SessionRow]
      /\ payments' \in [Payment -> PaymentRow]
      /\ movements' \in [Movement -> MovementRow]
      /\ counts' \in [Session -> Seq(Nat)]
      /\ \A t \in Session : Len(counts[t]) <= Len(counts'[t])
  BY DEF Adjust, TypeInv, TypeOK
<1> QED BY <1>2, <1>3, CommitType DEF Adjust

\* Every step preserves the type invariant, one case per action.
LEMMA TypeStep == TypeInv /\ [Next]_vars => TypeInv'
<1> SUFFICES ASSUME TypeInv, [Next]_vars
             PROVE  TypeInv'
  OBVIOUS
<1>1. CASE UNCHANGED vars
  BY <1>1 DEF vars, TypeInv, TypeOK, ReqOK, CountOK
<1>2. ASSUME NEW w \in Worker, Arrive(w) \/ Step(w) \/ Abort(w)
      PROVE  TypeInv'
  <2>1. CASE Arrive(w)
    BY <2>1, ArriveType
  <2>2. CASE Step(w)
    BY <2>2, OpenType, PayControlType, PayCommitType, LockFeeType, CancelType,
       LockSessionType, MoveType, CountType, CloseType, AdjustType DEF Step
  <2>3. CASE Abort(w)
    BY <2>3, QuietType DEF Abort, Resting
  <2> QED BY <1>2, <2>1, <2>2, <2>3
<1> QED BY <1>1, <1>2 DEF Next

\* The rows, the locks and the requests keep their types, and every handler
\* works on a request of its own kind.
THEOREM TypeInvariant == Spec => []TypeInv
BY TypeInit, TypeStep, PTL DEF Spec

\* TypeOK of the runs, for every value of the constants.
THEOREM TypeCorrect == Spec => []TypeOK
<1>1. TypeInv => TypeOK
  BY DEF TypeInv
<1> QED BY <1>1, TypeInvariant, PTL

-----------------------------------------------------------------------------
(* Locks of sessions and payments                                          *)

Acts(w) == Arrive(w) \/ Step(w) \/ Abort(w)

Sharing(w) == /\ pc[w] \in {"pay-share", "cancel-share"}
              /\ FreeOf(excl, cash[w], w)
              /\ share' = [share EXCEPT ![cash[w]] = @ \cup {w}]
              /\ sessions[cash[w]].status = "OPEN"
              /\ UNCHANGED <<db, excl, payLock, feeLock, req, cash>>

\* The five things a step may do to the locks of sessions and payments.
LEMMA LockChanges ==
  ASSUME NEW w \in Worker, Acts(w)
  PROVE  \/ UNCHANGED <<share, excl, payLock>>
         \/ \E o \in Resting : Finish(w, o)
         \/ Sharing(w)
         \/ LockSession(w)
         \/ /\ pc[w] = "cancel-lock"
            /\ FreeOf(payLock, req[w].payment, w)
            /\ payLock' = [payLock EXCEPT ![req[w].payment] = @ \cup {w}]
            /\ UNCHANGED <<share, excl>>
<1>1. CASE Arrive(w)
  BY <1>1 DEF Arrive, AskOpen, AskPay, AskCancel, AskMove, AskCount, AskClose,
              AskAdjust, Ask, locks
<1>2. CASE Abort(w)
  BY <1>2 DEF Abort, Resting
<1>3. CASE OpenCheck(w) \/ OpenInsert(w) \/ OpenCommit(w)
  BY <1>3 DEF OpenCheck, OpenInsert, OpenCommit, Reject, Resting, locks
<1>4. CASE PayLookup(w) \/ PayFind(w) \/ PayCheck(w) \/ PayInsert(w) \/ PayCommit(w)
  BY <1>4 DEF PayLookup, PayFind, PayCheck, PayInsert, PayCommit, PayWithoutSession,
              Reject, Resting, locks
<1>5. CASE PayShare(w)
  BY <1>5 DEF PayShare, Sharing, PayWithoutSession, Reject, Resting, locks
<1>6. CASE LockFee(w)
  BY <1>6 DEF LockFee
<1>7. CASE CancelLock(w)
  BY <1>7 DEF CancelLock, Reject, Resting
<1>8. CASE CancelShare(w)
  BY <1>8 DEF CancelShare, Sharing, Reject, Resting
<1>9. CASE CancelCommit(w)
  BY <1>9 DEF CancelCommit, Resting
<1>10. CASE MoveCheck(w) \/ MoveCommit(w) \/ CountCommit(w) \/ CloseCheck(w)
              \/ CloseCommit(w) \/ Adjust(w)
  BY <1>10 DEF MoveCheck, MoveCommit, CountCommit, CloseCheck, CloseCommit, Adjust,
               Reject, Resting, locks
<1> QED
  BY <1>1, <1>2, <1>3, <1>4, <1>5, <1>6, <1>7, <1>8, <1>9, <1>10 DEF Acts, Step

\* No step lets two transactions hold the same row in incompatible modes.
LEMMA LocksExcludeStep ==
  ASSUME TypeInv, LocksExclude, NEW w \in Worker, Acts(w)
  PROVE  LocksExclude'
<1>1. CASE UNCHANGED <<share, excl, payLock>>
  BY <1>1 DEF LocksExclude
<1>2. ASSUME NEW o \in Resting, Finish(w, o) PROVE LocksExclude'
  BY <1>2 DEF LocksExclude, Finish, Release
<1>3. CASE Sharing(w)
  BY <1>3 DEF LocksExclude, Sharing, FreeOf, TypeInv, TypeOK
<1>4. CASE LockSession(w)
  <2>1. PICK t : /\ FreeOf(excl, t, w) /\ FreeOf(share, t, w)
                 /\ excl' = [excl EXCEPT ![t] = @ \cup {w}]
                 /\ UNCHANGED <<share, payLock>>
    BY <1>4 DEF LockSession
  <2> QED BY <2>1 DEF LocksExclude, FreeOf, TypeInv, TypeOK
<1>5. CASE /\ FreeOf(payLock, req[w].payment, w)
           /\ payLock' = [payLock EXCEPT ![req[w].payment] = @ \cup {w}]
           /\ UNCHANGED <<share, excl>>
  BY <1>5 DEF LocksExclude, FreeOf, TypeInv, TypeOK
<1> QED BY <1>1, <1>2, <1>3, <1>4, <1>5, LockChanges

\* A step leaves the other workers, and the locks they hold, alone.
LEMMA OthersKeep ==
  ASSUME TypeInv, NEW w \in Worker, Acts(w), NEW v \in Worker, v # w
  PROVE  /\ pc'[v] = pc[v] /\ req'[v] = req[v] /\ cash'[v] = cash[v]
         /\ \A s \in Session : v \in share[s] => v \in share'[s]
         /\ \A s \in Session : v \in excl[s] => v \in excl'[s]
         /\ \A p \in Payment : v \in payLock[p] => v \in payLock'[p]
<1>1. pc'[v] = pc[v] /\ req'[v] = req[v] /\ cash'[v] = cash[v]
  <2> USE DEF TypeInv, TypeOK, Finish, GoTo
  <2>1. CASE Arrive(w)
    <3>1. PICK r : Ask(w, r)
      BY <2>1 DEF Arrive, AskOpen, AskPay, AskCancel, AskMove, AskCount, AskClose, AskAdjust
    <3> QED
      BY <3>1 DEF Ask
  <2>2. CASE Abort(w)
    BY <2>2 DEF Abort
  <2>3. CASE OpenCheck(w) \/ OpenInsert(w) \/ OpenCommit(w)
    BY <2>3 DEF OpenCheck, OpenInsert, OpenCommit, Reject
  <2>4. CASE PayLookup(w) \/ PayCheck(w) \/ PayInsert(w) \/ PayCommit(w) \/ LockFee(w)
    BY <2>4 DEF PayLookup, PayCheck, PayInsert, PayCommit, LockFee, Reject
  <2>5. CASE PayFind(w) \/ PayShare(w)
    BY <2>5 DEF PayFind, PayShare, PayWithoutSession, Reject
  <2>6. CASE CancelLock(w) \/ CancelShare(w) \/ CancelCommit(w)
    BY <2>6 DEF CancelLock, CancelShare, CancelCommit, Reject
  <2>7. CASE LockSession(w) \/ MoveCheck(w) \/ MoveCommit(w) \/ CountCommit(w)
    BY <2>7 DEF LockSession, MoveCheck, MoveCommit, CountCommit, Reject
  <2>8. CASE CloseCheck(w) \/ CloseCommit(w) \/ Adjust(w)
    BY <2>8 DEF CloseCheck, CloseCommit, Adjust, Reject
  <2> QED BY <2>1, <2>2, <2>3, <2>4, <2>5, <2>6, <2>7, <2>8 DEF Acts, Step
<1>2. /\ \A s \in Session : v \in share[s] => v \in share'[s]
      /\ \A s \in Session : v \in excl[s] => v \in excl'[s]
      /\ \A p \in Payment : v \in payLock[p] => v \in payLock'[p]
  <2>1. ASSUME NEW o \in Resting, Finish(w, o) PROVE <1>2
    BY <2>1 DEF Finish, Release
  <2>2. CASE Sharing(w)
    BY <2>2 DEF Sharing, TypeInv, TypeOK
  <2>3. CASE LockSession(w)
    <3>1. PICK t : excl' = [excl EXCEPT ![t] = @ \cup {w}] /\ UNCHANGED <<share, payLock>>
      BY <2>3 DEF LockSession
    <3> QED BY <3>1 DEF TypeInv, TypeOK
  <2>4. CASE payLock' = [payLock EXCEPT ![req[w].payment] = @ \cup {w}]
             /\ UNCHANGED <<share, excl>>
    BY <2>4 DEF TypeInv, TypeOK
  <2>5. CASE UNCHANGED <<share, excl, payLock>>
    BY <2>5
  <2> QED BY <2>1, <2>2, <2>3, <2>4, <2>5, LockChanges
<1> QED BY <1>1, <1>2

\* No step moves a request past the locks it needs.
LEMMA LocksHeldStep ==
  ASSUME TypeInv, LocksHeld, NEW w \in Worker, Acts(w)
  PROVE  LocksHeld'
<1> USE DEF Resting
<1>1. ASSUME NEW v \in Worker, v # w
      PROVE  /\ pc'[v] \in Resting \cup {"pay-lookup"} => cash'[v] = Null
             /\ pc'[v] \in {"pay-fees", "pay-insert", "pay-commit", "cancel-fees"} =>
                  cash'[v] = Null \/ v \in share'[cash'[v]]
             /\ pc'[v] \in {"cancel-share", "cancel-fees"} => v \in payLock'[req'[v].payment]
             /\ pc'[v] \in {"move-check", "move-commit", "count-commit", "close-check",
                            "close-commit"} => v \in excl'[req'[v].session]
  <2>1. /\ cash[v] \in Session \cup {Null}
        /\ pc[v] \in {"cancel-share", "cancel-fees"} => req[v].payment \in Payment
        /\ pc[v] \in {"move-check", "move-commit", "count-commit", "close-check",
                      "close-commit"} => req[v].session \in Session
    BY DEF TypeInv, TypeOK, ReqOK, CancelPc, MovePc, CountPc, ClosePc, CancelReq, MoveReq,
           CountReq, CloseReq
  <2> QED BY <1>1, <2>1, OthersKeep DEF LocksHeld
<1>2. /\ pc'[w] \in Resting \cup {"pay-lookup"} => cash'[w] = Null
      /\ pc'[w] \in {"pay-fees", "pay-insert", "pay-commit", "cancel-fees"} =>
           cash'[w] = Null \/ w \in share'[cash'[w]]
      /\ pc'[w] \in {"cancel-share", "cancel-fees"} => w \in payLock'[req'[w].payment]
      /\ pc'[w] \in {"move-check", "move-commit", "count-commit", "close-check",
                     "close-commit"} => w \in excl'[req'[w].session]
  <2>0. /\ pc \in [Worker -> Pc] /\ cash \in [Worker -> Session \cup {Null}]
        /\ req \in [Worker -> Request \cup {NoReq}]
        /\ share \in [Session -> SUBSET Worker] /\ excl \in [Session -> SUBSET Worker]
        /\ payLock \in [Payment -> SUBSET Worker]
    BY DEF TypeInv, TypeOK
  <2>1. ASSUME NEW o \in Resting, Finish(w, o) PROVE <1>2
    BY <2>0, <2>1 DEF Finish, GoTo
  <2>2. CASE Arrive(w)
    <3>1. PICK r \in Request : Ask(w, r)
      BY <2>2 DEF Arrive, AskOpen, AskPay, AskCancel, AskMove, AskCount, AskClose,
                  AskAdjust, Ask
    <3>2. FirstStep[r.op] \notin {"pay-fees", "pay-insert", "pay-commit", "cancel-fees",
            "cancel-share", "move-check", "move-commit", "count-commit", "close-check",
            "close-commit"}
      BY <3>1 DEF FirstStep, Request, OpenReq, PayReq, CancelReq, MoveReq, CountReq,
                  CloseReq, AdjustReq
    <3> QED BY <2>0, <3>1, <3>2 DEF Ask, GoTo, LocksHeld
  <2>3. CASE OpenCheck(w) \/ OpenInsert(w) \/ OpenCommit(w)
    BY <2>0, <2>1, <2>3 DEF OpenCheck, OpenInsert, OpenCommit, Reject, GoTo
  <2>4. CASE PayLookup(w)
    BY <2>0, <2>1, <2>4 DEF PayLookup, GoTo, LocksHeld
  <2>5. CASE PayFind(w)
    BY <2>0, <2>1, <2>5 DEF PayFind, PayWithoutSession, Reject, GoTo
  <2>6. CASE PayShare(w)
    <3>1. cash[w] \in Session
      BY <2>6 DEF PayShare, TypeInv, ReqOK
    <3> QED BY <2>0, <2>1, <2>6, <3>1 DEF PayShare, PayWithoutSession, Reject, GoTo
  <2>7. CASE PayCheck(w) \/ PayInsert(w)
    BY <2>0, <2>1, <2>7 DEF PayCheck, PayInsert, Reject, GoTo, LocksHeld, locks
  <2>8. CASE LockFee(w)
    BY <2>0, <2>8 DEF LockFee, LocksHeld
  <2>9. CASE CancelLock(w)
    <3>1. req[w].payment \in Payment
      BY <2>9 DEF CancelLock, TypeInv, ReqOK, CancelPc, CancelReq
    <3> QED BY <2>0, <2>1, <2>9, <3>1 DEF CancelLock, Reject, GoTo
  <2>10. CASE CancelShare(w)
    <3>1. cash[w] \in Session
      BY <2>10 DEF CancelShare, TypeInv, ReqOK
    <3> QED BY <2>0, <2>1, <2>10, <3>1 DEF CancelShare, Reject, GoTo, LocksHeld
  <2>11. CASE LockSession(w)
    <3>1. /\ pc[w] \in {"move-lock", "count-lock", "close-lock"}
          /\ req[w].session \in Session
      BY <2>11 DEF LockSession, AfterLock, TypeInv, ReqOK, MovePc, CountPc, ClosePc,
                   MoveReq, CountReq, CloseReq
    <3>2. AfterLock[pc[w]] \in {"move-check", "count-commit", "close-check"}
      BY <3>1 DEF AfterLock
    <3> QED BY <2>0, <2>11, <3>1, <3>2 DEF LockSession, GoTo
  <2>12. CASE MoveCheck(w) \/ CloseCheck(w)
    BY <2>0, <2>1, <2>12 DEF MoveCheck, CloseCheck, Reject, GoTo, LocksHeld, locks
  <2>13. CASE PayCommit(w) \/ CancelCommit(w) \/ MoveCommit(w) \/ CountCommit(w)
                \/ CloseCommit(w) \/ Adjust(w) \/ Abort(w)
    BY <2>1, <2>13 DEF PayCommit, CancelCommit, MoveCommit, CountCommit, CloseCommit,
                       Adjust, Abort, Reject
  <2> QED BY <2>2, <2>3, <2>4, <2>5, <2>6, <2>7, <2>8, <2>9, <2>10, <2>11, <2>12, <2>13
          DEF Acts, Step
<1> QED BY <1>1, <1>2 DEF LocksHeld

-----------------------------------------------------------------------------
(* Who writes what, and from where                                         *)

\* Which statements write the rows of each table.
LEMMA Writers ==
  ASSUME NEW w \in Worker, Acts(w)
  PROVE  /\ UNCHANGED sessions \/ OpenCommit(w) \/ CloseCommit(w)
         /\ UNCHANGED counts \/ CountCommit(w)
         /\ UNCHANGED payments \/ PayCommit(w) \/ CancelCommit(w)
         /\ UNCHANGED movements \/ MoveCommit(w)
         /\ UNCHANGED fees \/ PayCommit(w) \/ CancelCommit(w) \/ Adjust(w)
<1>1. CASE Arrive(w) \/ Abort(w) \/ OpenCheck(w) \/ OpenInsert(w) \/ PayLookup(w)
             \/ PayFind(w) \/ PayShare(w) \/ LockFee(w) \/ PayCheck(w) \/ PayInsert(w)
  <2>1. UNCHANGED db
    BY <1>1 DEF Arrive, AskOpen, AskPay, AskCancel, AskMove, AskCount, AskClose, AskAdjust,
                Ask, Abort, OpenCheck, OpenInsert, PayLookup, PayFind, PayShare,
                PayWithoutSession, LockFee, PayCheck, PayInsert, Reject
  <2> QED BY <2>1 DEF db
<1>2. CASE CancelLock(w) \/ CancelShare(w) \/ LockSession(w) \/ MoveCheck(w) \/ CloseCheck(w)
  <2>1. UNCHANGED db
    BY <1>2 DEF CancelLock, CancelShare, LockSession, MoveCheck, CloseCheck, Reject
  <2> QED BY <2>1 DEF db
<1>3. CASE OpenCommit(w) \/ PayCommit(w) \/ CancelCommit(w) \/ MoveCommit(w)
             \/ CountCommit(w) \/ CloseCommit(w) \/ Adjust(w)
  BY <1>3 DEF OpenCommit, PayCommit, CancelCommit, MoveCommit, CountCommit, CloseCommit,
              Adjust, Reject, db
<1> QED BY <1>1, <1>2, <1>3 DEF Acts, Step

\* Which statement brings a request in front of its commit, or of its insert.
LEMMA Reaches ==
  ASSUME TypeInv, NEW w \in Worker, Acts(w)
  PROVE  /\ pc'[w] = "open-commit" => /\ OpenInsert(w) /\ UNCHANGED <<db, locks, req, cash>>
                                      /\ OpenSessions(req[w].user) = {}
         /\ pc'[w] = "pay-insert" =>
              /\ PayCheck(w) /\ UNCHANGED <<db, locks, req, cash>>
              /\ \A f \in FeesOf(w) :
                   Paid(payments, f) + req[w].alloc[f] <= fees[f].due
         /\ pc'[w] = "pay-commit" => /\ PayInsert(w) /\ UNCHANGED <<db, locks, req, cash>>
                                     /\ ~ KeyUsed(req[w].key)
         /\ pc'[w] = "move-commit" =>
              /\ MoveCheck(w) /\ UNCHANGED <<db, locks, req, cash>>
              /\ \A m \in Movement : movements[m].session = req[w].session =>
                   movements[m].key # req[w].key
<1> USE DEF Resting
<1>0. pc \in [Worker -> Pc]
  BY DEF TypeInv, TypeOK
<1>1. ASSUME NEW o \in Resting, Finish(w, o)
      PROVE  pc'[w] \notin {"open-commit", "pay-insert", "pay-commit", "move-commit"}
  BY <1>0, <1>1 DEF Finish, GoTo
<1>2. CASE Arrive(w)
  <2>1. PICK r \in Request : Ask(w, r)
    BY <1>2 DEF Arrive, AskOpen, AskPay, AskCancel, AskMove, AskCount, AskClose, AskAdjust,
                Ask
  <2>2. FirstStep[r.op] \notin {"open-commit", "pay-insert", "pay-commit", "move-commit"}
    BY <2>1 DEF FirstStep, Request, OpenReq, PayReq, CancelReq, MoveReq, CountReq, CloseReq,
                AdjustReq
  <2> QED BY <1>0, <2>1, <2>2 DEF Ask, GoTo
<1>3. CASE OpenCheck(w) \/ OpenInsert(w)
  BY <1>0, <1>1, <1>3 DEF OpenCheck, OpenInsert, Reject, GoTo
<1>4. CASE PayLookup(w) \/ PayFind(w) \/ PayShare(w)
  BY <1>0, <1>1, <1>4 DEF PayLookup, PayFind, PayShare, PayWithoutSession, Reject, GoTo
<1>5. CASE PayCheck(w) \/ PayInsert(w)
  BY <1>0, <1>1, <1>5 DEF PayCheck, PayInsert, Reject, GoTo
<1>6. CASE LockFee(w) \/ CancelLock(w) \/ CancelShare(w)
  BY <1>0, <1>1, <1>6 DEF LockFee, CancelLock, CancelShare, Reject, GoTo
<1>7. CASE LockSession(w)
  <2>1. AfterLock[pc[w]] \in {"move-check", "count-commit", "close-check"}
    BY <1>7 DEF LockSession, AfterLock
  <2> QED BY <1>0, <1>7, <2>1 DEF LockSession, GoTo
<1>8. CASE MoveCheck(w) \/ CloseCheck(w)
  BY <1>0, <1>1, <1>8 DEF MoveCheck, CloseCheck, Reject, GoTo
<1>9. CASE OpenCommit(w) \/ PayCommit(w) \/ CancelCommit(w) \/ MoveCommit(w)
             \/ CountCommit(w) \/ CloseCommit(w) \/ Adjust(w) \/ Abort(w)
  BY <1>1, <1>9 DEF OpenCommit, PayCommit, CancelCommit, MoveCommit, CountCommit,
                    CloseCommit, Adjust, Abort, Reject
<1> QED BY <1>2, <1>3, <1>4, <1>5, <1>6, <1>7, <1>8, <1>9 DEF Acts, Step
=============================================================================
