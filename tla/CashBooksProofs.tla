--------------------------- MODULE CashBooksProofs ---------------------------
(***************************************************************************)
(* The books of a closed session are frozen, for every number of requests  *)
(* racing with the close.  The argument: row locks exclude each other      *)
(* (LocksExclude), every statement holds the locks its request took        *)
(* (LocksHeld), so what it decided on cannot move before it writes         *)
(* (DecisionsStand), so no write reaches a closed session.                 *)
(***************************************************************************)
EXTENDS CashRegisterProofs, SumLemmas

\* Worker w is about to write a row that counts in the books of session s.
Writes(w, s) ==
  \/ pc[w] \in {"pay-commit", "cancel-fees"} /\ cash[w] = s
  \/ pc[w] \in {"move-commit", "close-commit"} /\ req[w].session = s
  \/ pc[w] = "count-commit" /\ req[w].session = s /\ sessions[s].status = "OPEN"

\* The balance of a session depends on its opening, its payments and its
\* movements only.
LEMMA BalanceKept ==
  ASSUME NEW s \in Session,
         sessions'[s].opening = sessions[s].opening,
         \A p \in Payment : CashOf(payments', s)[p] = CashOf(payments, s)[p],
         \A m \in Movement : FlowOf(movements', s)[m] = FlowOf(movements, s)[m]
  PROVE  LiveExpected(s)' = LiveExpected(s)
<1>1. CashOf(payments', s) = CashOf(payments, s)
  BY DEF CashOf
<1>2. FlowOf(movements', s) = FlowOf(movements, s)
  BY DEF FlowOf
<1> QED BY <1>1, <1>2 DEF LiveExpected

\* A step that does not write in the books of an existing session leaves them
\* as they are.
LEMMA BooksKept ==
  ASSUME TypeInv, DecisionsStand, NEW w \in Worker, Acts(w),
         NEW s \in Session, sessions[s].status # "NONE", ~ Writes(w, s)
  PROVE  /\ sessions'[s] = sessions[s] /\ counts'[s] = counts[s]
         /\ LiveExpected(s)' = LiveExpected(s)
<1>0. /\ sessions \in [Session -> SessionRow] /\ counts \in [Session -> Seq(Nat)]
      /\ payments \in [Payment -> PaymentRow] /\ movements \in [Movement -> MovementRow]
  BY DEF TypeInv, TypeOK
<1>1. CASE UNCHANGED db
  BY <1>1, BalanceKept DEF db
<1>2. CASE OpenCommit(w)
  <2>1. sessions'[s] = sessions[s] /\ UNCHANGED <<counts, payments, movements>>
    BY <1>0, <1>2 DEF OpenCommit
  <2> QED BY <2>1, BalanceKept
<1>3. CASE PayCommit(w)
  <2>1. PICK q \in Payment :
          /\ payments[q].status = "NONE"
          /\ payments' = [payments EXCEPT ![q] =
               [status |-> "COMPLETED", key |-> req[w].key, session |-> cash[w],
                alloc |-> req[w].alloc]]
    BY <1>3 DEF PayCommit
  <2>2. cash[w] # s
    BY <1>3 DEF PayCommit, Writes
  <2>3. ASSUME NEW p \in Payment PROVE CashOf(payments', s)[p] = CashOf(payments, s)[p]
    <3>1. CASE p = q
      BY <1>0, <2>1, <2>2, <3>1 DEF CashOf
    <3>2. CASE p # q
      BY <1>0, <2>1, <3>2 DEF CashOf
    <3> QED BY <3>1, <3>2
  <2>4. UNCHANGED <<sessions, counts, movements>>
    BY <1>3 DEF PayCommit
  <2> QED BY <2>3, <2>4, BalanceKept
<1>4. CASE CancelCommit(w)
  <2> DEFINE q == req[w].payment
  <2>1. q \in Payment
    BY <1>4 DEF CancelCommit, TypeInv, ReqOK, CancelPc, CancelReq
  <2>2. payments[q].session # s
    BY <1>4 DEF CancelCommit, DecisionsStand, Stands, Writes
  <2>3. payments' = [payments EXCEPT ![q] = [payments[q] EXCEPT !.status = "CANCELLED"]]
    BY <1>4 DEF CancelCommit
  <2>4. [payments[q] EXCEPT !.status = "CANCELLED"].session = payments[q].session
    BY <1>0, <2>1 DEF PaymentRow
  <2>5. ASSUME NEW p \in Payment PROVE CashOf(payments', s)[p] = CashOf(payments, s)[p]
    <3>1. CASE p = q
      <4>1. payments'[q].session # s
        BY <1>0, <2>1, <2>2, <2>3, <2>4
      <4> QED BY <2>2, <3>1, <4>1 DEF CashOf
    <3>2. CASE p # q
      BY <1>0, <2>3, <3>2 DEF CashOf
    <3> QED BY <3>1, <3>2
  <2>6. UNCHANGED <<sessions, counts, movements>>
    BY <1>4 DEF CancelCommit
  <2> QED BY <2>5, <2>6, BalanceKept
<1>5. CASE MoveCommit(w)
  <2>1. PICK n \in Movement :
          /\ movements[n].session = Null
          /\ movements' = [movements EXCEPT ![n] =
               [session |-> req[w].session, key |-> req[w].key, amount |-> req[w].amount]]
    BY <1>5 DEF MoveCommit
  <2>2. req[w].session # s /\ Null # s
    BY <1>5, NullAssumption DEF MoveCommit, Writes
  <2>3. ASSUME NEW m \in Movement PROVE FlowOf(movements', s)[m] = FlowOf(movements, s)[m]
    <3>1. CASE m = n
      BY <1>0, <2>1, <2>2, <3>1 DEF FlowOf
    <3>2. CASE m # n
      BY <1>0, <2>1, <3>2 DEF FlowOf
    <3> QED BY <3>1, <3>2
  <2>4. UNCHANGED <<sessions, counts, payments>>
    BY <1>5 DEF MoveCommit
  <2> QED BY <2>3, <2>4, BalanceKept
<1>6. CASE CountCommit(w) /\ ~ Reject(w)
  <2>1. /\ sessions[req[w].session].status = "OPEN"
        /\ counts' = [counts EXCEPT ![req[w].session] = Append(@, req[w].total)]
        /\ UNCHANGED <<sessions, payments, movements>>
    BY <1>6 DEF CountCommit
  <2>2. req[w].session # s
    BY <1>6, <2>1 DEF CountCommit, Writes
  <2>3. counts'[s] = counts[s]
    BY <1>0, <2>1, <2>2
  <2> QED BY <2>1, <2>3, BalanceKept
<1>7. CASE CloseCommit(w)
  <2>1. req[w].session # s
    BY <1>7 DEF CloseCommit, Writes
  <2>2. sessions'[s] = sessions[s] /\ UNCHANGED <<counts, payments, movements>>
    BY <1>0, <1>7, <2>1 DEF CloseCommit
  <2> QED BY <2>2, BalanceKept
<1>8. CASE Adjust(w)
  BY <1>8, BalanceKept DEF Adjust
<1>9. CASE Arrive(w) \/ Abort(w) \/ OpenCheck(w) \/ OpenInsert(w) \/ PayLookup(w)
             \/ PayFind(w) \/ PayShare(w) \/ LockFee(w) \/ PayCheck(w) \/ PayInsert(w)
  <2>1. UNCHANGED db
    BY <1>9 DEF Arrive, AskOpen, AskPay, AskCancel, AskMove, AskCount, AskClose, AskAdjust,
                Ask, Abort, OpenCheck, OpenInsert, PayLookup, PayFind, PayShare,
                PayWithoutSession, LockFee, PayCheck, PayInsert, Reject
  <2> QED BY <1>1, <2>1
<1>10. CASE Reject(w) \/ CancelLock(w) \/ CancelShare(w) \/ LockSession(w) \/ MoveCheck(w)
              \/ CloseCheck(w)
  <2>1. UNCHANGED db
    BY <1>10 DEF CancelLock, CancelShare, LockSession, MoveCheck, CloseCheck, Reject
  <2> QED BY <1>1, <2>1
<1> QED BY <1>2, <1>3, <1>4, <1>5, <1>6, <1>7, <1>8, <1>9, <1>10 DEF Acts, Step

\* Whoever writes in the books of a session holds it, open.
LEMMA WritersHold ==
  ASSUME LocksHeld, DecisionsStand, NEW w \in Worker, NEW s \in Session, Writes(w, s)
  PROVE  /\ sessions[s].status = "OPEN"
         /\ \/ w \in excl[s]
            \/ w \in share[s] /\ pc[w] \in {"pay-commit", "cancel-fees"}
BY NullAssumption DEF LocksHeld, DecisionsStand, Stands, Writes

\* Statements of payments and cancellations write no session.
LEMMA PaymentsKeepSessions ==
  ASSUME NEW w \in Worker, Acts(w), pc[w] \in {"pay-commit", "cancel-fees"}
  PROVE  UNCHANGED sessions
<1>1. CASE Arrive(w)
  BY <1>1 DEF Arrive, AskOpen, AskPay, AskCancel, AskMove, AskCount, AskClose, AskAdjust,
              Ask, db
<1>2. CASE Step(w)
  BY <1>2 DEF Step, OpenCheck, OpenInsert, OpenCommit, PayLookup, PayFind, PayShare, PayCheck,
              PayInsert, PayCommit, LockFee, CancelLock, CancelShare, CancelCommit,
              LockSession, AfterLock, MoveCheck, MoveCommit, CountCommit, CloseCheck,
              CloseCommit, Adjust, db
<1>3. CASE Abort(w)
  BY <1>3 DEF Abort, db
<1> QED BY <1>1, <1>2, <1>3 DEF Acts

\* A recorded payment only changes by its own cancellation.
LEMMA PaymentKept ==
  ASSUME TypeInv, NEW w \in Worker, Acts(w), NEW p \in Payment,
         payments[p].status # "NONE", ~ CancelCommit(w) \/ req[w].payment # p
  PROVE  payments'[p] = payments[p]
<1>0. payments \in [Payment -> PaymentRow]
  BY DEF TypeInv, TypeOK
<1>1. CASE PayCommit(w)
  BY <1>0, <1>1 DEF PayCommit
<1>2. CASE CancelCommit(w)
  BY <1>0, <1>2 DEF CancelCommit
<1>3. CASE UNCHANGED payments
  BY <1>3
<1>4. CASE Arrive(w) \/ Abort(w) \/ OpenCheck(w) \/ OpenInsert(w) \/ OpenCommit(w)
             \/ PayLookup(w) \/ PayFind(w) \/ PayShare(w) \/ LockFee(w) \/ PayCheck(w)
             \/ PayInsert(w) \/ CancelLock(w) \/ CancelShare(w)
  <2>1. UNCHANGED payments
    BY <1>4 DEF Arrive, AskOpen, AskPay, AskCancel, AskMove, AskCount, AskClose, AskAdjust,
                Ask, Abort, OpenCheck, OpenInsert, OpenCommit, PayLookup, PayFind, PayShare,
                PayWithoutSession, LockFee, PayCheck, PayInsert, CancelLock, CancelShare,
                Reject, db
  <2> QED BY <2>1
<1>5. CASE LockSession(w) \/ MoveCheck(w) \/ MoveCommit(w) \/ CountCommit(w)
             \/ CloseCheck(w) \/ CloseCommit(w) \/ Adjust(w)
  <2>1. UNCHANGED payments
    BY <1>5 DEF LockSession, MoveCheck, MoveCommit, CountCommit, CloseCheck, CloseCommit,
                Adjust, Reject, db
  <2> QED BY <2>1
<1> QED BY <1>1, <1>2, <1>4, <1>5 DEF Acts, Step

\* The decisions of the other workers survive a step.
LEMMA OthersStand ==
  ASSUME TypeInv, LocksExclude, LocksHeld, DecisionsStand,
         NEW w \in Worker, Acts(w), NEW v \in Worker, v # w
  PROVE  Stands(v)'
<1>0. pc'[v] = pc[v] /\ req'[v] = req[v] /\ cash'[v] = cash[v] /\ Stands(v)
  BY OthersKeep DEF DecisionsStand
<1>1. ASSUME NEW s \in Session, v \in share[s], sessions[s].status = "OPEN"
      PROVE  sessions'[s].status = "OPEN"
  <2>1. CASE Writes(w, s)
    <3>1. pc[w] \in {"pay-commit", "cancel-fees"}
      BY <1>1, <2>1, WritersHold DEF LocksExclude
    <3> QED BY <1>1, <3>1, PaymentsKeepSessions
  <2>2. CASE ~ Writes(w, s)
    BY <1>1, <2>2, BooksKept
  <2> QED BY <2>1, <2>2
<1>2. ASSUME NEW s \in Session, v \in excl[s], sessions[s].status = "OPEN"
      PROVE  /\ sessions'[s] = sessions[s] /\ counts'[s] = counts[s]
             /\ LiveExpected(s)' = LiveExpected(s)
  <2>1. ~ Writes(w, s)
    BY <1>2, WritersHold DEF LocksExclude
  <2> QED BY <1>2, <2>1, BooksKept
<1>3. ASSUME pc[v] \in {"pay-fees", "pay-insert", "pay-commit", "cancel-fees"},
             cash[v] # Null
      PROVE  sessions'[cash[v]].status = "OPEN"
  <2>1. /\ cash[v] \in Session /\ v \in share[cash[v]]
        /\ sessions[cash[v]].status = "OPEN"
    BY <1>0, <1>3 DEF TypeInv, TypeOK, LocksHeld, Stands
  <2> QED BY <1>1, <2>1
<1>4. ASSUME pc[v] \in {"cancel-share", "cancel-fees"}
      PROVE  payments'[req[v].payment] = payments[req[v].payment]
  <2> DEFINE p == req[v].payment
  <2>1. p \in Payment /\ v \in payLock[p] /\ payments[p].status = "COMPLETED"
    BY <1>0, <1>4 DEF TypeInv, ReqOK, CancelPc, CancelReq, LocksHeld, Stands
  <2>2. ~ CancelCommit(w) \/ req[w].payment # p
    BY <2>1 DEF CancelCommit, LocksHeld, LocksExclude
  <2> QED BY <2>1, <2>2, PaymentKept
<1>5. ASSUME pc[v] \in {"move-commit", "close-commit"},
             NEW s \in Session, s = req[v].session
      PROVE  /\ sessions'[s] = sessions[s] /\ counts'[s] = counts[s]
             /\ LiveExpected(s)' = LiveExpected(s)
  <2>1. v \in excl[s] /\ sessions[s].status = "OPEN"
    BY <1>0, <1>5 DEF LocksHeld, Stands
  <2> QED BY <1>2, <2>1
<1>6. pc[v] \in {"move-commit", "close-commit"} => req[v].session \in Session
  BY DEF TypeInv, ReqOK, MovePc, ClosePc, MoveReq, CloseReq
<1>7. CASE pc[v] \notin {"move-commit", "close-commit"}
  BY <1>0, <1>3, <1>4, <1>7 DEF Stands
<1>8. CASE pc[v] \in {"move-commit", "close-commit"}
  <2>1. PICK s \in Session : s = req[v].session
    BY <1>6, <1>8
  <2>2. LiveExpected(req[v].session) = LiveExpected(s)
    BY <2>1
  <2>3. LiveExpected(req[v].session)' = LiveExpected(s)'
    BY <1>0, <2>1 DEF LiveExpected
  <2> QED BY <1>0, <1>5, <1>8, <2>1, <2>2, <2>3 DEF Stands, Overdraws
<1> QED BY <1>7, <1>8

\* A request decides on what it reads under its locks.
LEMMA OwnStands ==
  ASSUME TypeInv, LocksHeld, DecisionsStand, NEW w \in Worker, Acts(w)
  PROVE  Stands(w)'
<1>0. /\ pc \in [Worker -> Pc] /\ cash \in [Worker -> Session \cup {Null}]
      /\ req \in [Worker -> Request \cup {NoReq}]
  BY DEF TypeInv, TypeOK
<1>a. pc'[w] \notin {"pay-fees", "pay-insert", "pay-commit", "cancel-fees",
                     "cancel-share", "move-commit", "close-commit"} => Stands(w)'
  BY DEF Stands
<1>1. ASSUME NEW o \in Resting, Finish(w, o) PROVE Stands(w)'
  BY <1>0, <1>1, <1>a DEF Finish, GoTo, Resting
<1>2. CASE Arrive(w)
  <2>1. PICK r \in Request : Ask(w, r)
    BY <1>2 DEF Arrive, AskOpen, AskPay, AskCancel, AskMove, AskCount, AskClose, AskAdjust,
                Ask
  <2>2. FirstStep[r.op] \notin {"pay-fees", "pay-insert", "pay-commit", "cancel-fees",
          "cancel-share", "move-commit", "close-commit"}
    BY <2>1 DEF FirstStep, Request, OpenReq, PayReq, CancelReq, MoveReq, CountReq, CloseReq,
                AdjustReq
  <2> QED BY <1>0, <1>a, <2>1, <2>2 DEF Ask, GoTo
<1>3. CASE OpenCheck(w) \/ OpenInsert(w) \/ OpenCommit(w)
  BY <1>0, <1>1, <1>3, <1>a DEF OpenCheck, OpenInsert, OpenCommit, Reject, Resting, GoTo
<1>4. CASE PayLookup(w)
  BY <1>0, <1>1, <1>4 DEF PayLookup, GoTo, LocksHeld, Resting, Stands
<1>5. CASE PayFind(w)
  BY <1>0, <1>1, <1>5 DEF PayFind, PayWithoutSession, Reject, Resting, GoTo, Stands
<1>6. CASE PayShare(w)
  BY <1>0, <1>1, <1>6 DEF PayShare, PayWithoutSession, Reject, Resting, GoTo, db, Stands
<1>7. CASE PayCheck(w) \/ PayInsert(w)
  BY <1>0, <1>1, <1>7
  DEF PayCheck, PayInsert, Reject, Resting, GoTo, DecisionsStand, Stands, db
<1>8. CASE LockFee(w)
  BY <1>0, <1>8 DEF LockFee, DecisionsStand, Stands, db
<1>9. CASE CancelLock(w)
  BY <1>0, <1>1, <1>9 DEF CancelLock, Reject, Resting, GoTo, db, Stands
<1>10. CASE CancelShare(w)
  BY <1>0, <1>1, <1>10 DEF CancelShare, Reject, Resting, GoTo, DecisionsStand, Stands, db
<1>11. CASE LockSession(w)
  <2>1. AfterLock[pc[w]] \in {"move-check", "count-commit", "close-check"}
    BY <1>11 DEF LockSession, AfterLock
  <2> QED BY <1>0, <1>11, <1>a, <2>1 DEF LockSession, GoTo
<1>12. CASE MoveCheck(w) \/ CloseCheck(w)
  <2>1. CASE Finish(w, "idle") \/ Finish(w, "rejected")
    BY <1>1, <2>1 DEF Resting
  <2>2. CASE ~ (Finish(w, "idle") \/ Finish(w, "rejected"))
    <3>1. UNCHANGED <<db, req, cash>>
      BY <1>12, <2>2 DEF MoveCheck, CloseCheck, Reject
    <3>2. LiveExpected(req[w].session)' = LiveExpected(req[w].session)
      BY <3>1 DEF LiveExpected, db
    <3>3. CASE MoveCheck(w)
      <4>1. /\ pc'[w] = "move-commit" /\ UNCHANGED <<sessions, req>>
            /\ sessions[req[w].session].status = "OPEN"
            /\ ~ Overdraws(req[w])
        BY <1>0, <2>2, <3>1, <3>3 DEF MoveCheck, Reject, GoTo, db
      <4>2. ~ Overdraws(req[w])'
        BY <3>2, <4>1 DEF Overdraws
      <4> QED BY <4>1, <4>2 DEF Stands
    <3>4. CASE CloseCheck(w)
      BY <1>0, <2>2, <3>1, <3>2, <3>4 DEF CloseCheck, Reject, GoTo, db, Stands
    <3> QED BY <1>12, <3>3, <3>4
  <2> QED BY <2>1, <2>2
<1>13. CASE PayCommit(w) \/ CancelCommit(w) \/ MoveCommit(w) \/ CountCommit(w)
              \/ CloseCommit(w) \/ Adjust(w) \/ Abort(w)
  BY <1>1, <1>13 DEF PayCommit, CancelCommit, MoveCommit, CountCommit, CloseCommit,
                     Adjust, Abort, Reject, Resting
<1> QED BY <1>2, <1>3, <1>4, <1>5, <1>6, <1>7, <1>8, <1>9, <1>10, <1>11, <1>12, <1>13
        DEF Acts, Step

\* No step, of the request itself or of another one, makes a decision stale.
LEMMA DecisionsStandStep ==
  ASSUME TypeInv, LocksExclude, LocksHeld, DecisionsStand, NEW w \in Worker, Acts(w)
  PROVE  DecisionsStand'
BY OwnStands, OthersStand DEF DecisionsStand

\* A closing freezes what its session holds, and nothing reaches it afterwards.
LEMMA ClosedBooksStep ==
  ASSUME TypeInv, LocksHeld, DecisionsStand, ClosedBooksFrozen,
         NEW w \in Worker, Acts(w)
  PROVE  ClosedBooksFrozen'
<1> SUFFICES ASSUME NEW s \in Session, sessions'[s].status = "CLOSED"
             PROVE  /\ sessions'[s].expected = LiveExpected(s)'
                    /\ counts'[s] # <<>>
                    /\ sessions'[s].counted = counts'[s][Len(counts'[s])]
  BY DEF ClosedBooksFrozen
<1>0. /\ sessions \in [Session -> SessionRow] /\ sessions[s] \in SessionRow
      /\ counts[s] \in Seq(Nat)
  BY DEF TypeInv, TypeOK
<1>1. CASE sessions[s].status = "CLOSED"
  <2>1. ~ Writes(w, s)
    BY <1>1, WritersHold
  <2>2. /\ sessions'[s] = sessions[s] /\ counts'[s] = counts[s]
        /\ LiveExpected(s)' = LiveExpected(s)
    BY <1>1, <2>1, BooksKept
  <2> QED BY <1>1, <2>2 DEF ClosedBooksFrozen
<1>2. CASE CloseCommit(w) /\ req[w].session = s
  <2>1. /\ req[w].expected = LiveExpected(s) /\ req[w].count = Len(counts[s])
    BY <1>2 DEF DecisionsStand, Stands, CloseCommit
  <2>2. /\ sessions' = [sessions EXCEPT ![s] =
             [sessions[s] EXCEPT !.status = "CLOSED", !.expected = req[w].expected,
                                 !.counted = counts[s][req[w].count]]]
        /\ UNCHANGED <<counts, payments, movements>>
    BY <1>2 DEF CloseCommit
  <2>3. sessions'[s] = [sessions[s] EXCEPT !.status = "CLOSED",
                          !.expected = req[w].expected,
                          !.counted = counts[s][req[w].count]]
    BY <1>0, <2>2
  <2>4. /\ sessions'[s].expected = req[w].expected
        /\ sessions'[s].counted = counts[s][req[w].count]
        /\ sessions'[s].opening = sessions[s].opening
    BY <1>0, <2>3 DEF SessionRow
  <2>5. LiveExpected(s)' = LiveExpected(s)
    BY <2>2, <2>4, BalanceKept
  <2>6. req[w].count \in 1 .. Len(counts[s])
    BY <1>2 DEF CloseCommit, TypeInv, CountOK
  <2>7. counts[s] # <<>>
    BY <1>0, <2>6
  <2> QED BY <2>1, <2>2, <2>4, <2>5, <2>7
<1>3. CASE sessions[s].status # "CLOSED" /\ ~ (CloseCommit(w) /\ req[w].session = s)
  <2>1. CASE OpenCommit(w)
    <3>1. PICK t \in Session : sessions' = [sessions EXCEPT ![t] =
            [status |-> "OPEN", cashier |-> req[w].user,
             opening |-> req[w].opening, expected |-> 0, counted |-> 0]]
      BY <2>1 DEF OpenCommit
    <3> QED BY <1>0, <1>3, <3>1
  <2>2. CASE CloseCommit(w)
    BY <1>0, <1>3, <2>2 DEF CloseCommit
  <2>3. CASE UNCHANGED sessions
    BY <1>3, <2>3
  <2>4. CASE Arrive(w) \/ Abort(w) \/ OpenCheck(w) \/ OpenInsert(w) \/ PayLookup(w)
               \/ PayFind(w) \/ PayShare(w) \/ LockFee(w) \/ PayCheck(w) \/ PayInsert(w)
               \/ PayCommit(w) \/ CancelLock(w)
    <3>1. UNCHANGED sessions
      BY <2>4 DEF Arrive, AskOpen, AskPay, AskCancel, AskMove, AskCount, AskClose,
                  AskAdjust, Ask, Abort, OpenCheck, OpenInsert, PayLookup, PayFind,
                  PayShare, PayWithoutSession, LockFee, PayCheck, PayInsert, PayCommit,
                  CancelLock, Reject, db
    <3> QED BY <2>3, <3>1
  <2>5. CASE CancelShare(w) \/ CancelCommit(w) \/ LockSession(w) \/ MoveCheck(w)
               \/ MoveCommit(w) \/ CountCommit(w) \/ CloseCheck(w) \/ Adjust(w)
    <3>1. UNCHANGED sessions
      BY <2>5 DEF CancelShare, CancelCommit, LockSession, MoveCheck, MoveCommit,
                  CountCommit, CloseCheck, Adjust, Reject, db
    <3> QED BY <2>3, <3>1
  <2> QED BY <2>1, <2>2, <2>4, <2>5 DEF Acts, Step
<1> QED BY <1>1, <1>2, <1>3

BooksInv == TypeInv /\ LocksExclude /\ LocksHeld /\ DecisionsStand /\ ClosedBooksFrozen

\* The empty school satisfies the inductive invariant.
LEMMA BooksInit == Init => BooksInv
<1> SUFFICES ASSUME Init PROVE BooksInv
  OBVIOUS
<1>1. LocksExclude /\ LocksHeld /\ DecisionsStand
  BY DEF Init, LocksExclude, LocksHeld, DecisionsStand, Stands, Resting
<1>2. ClosedBooksFrozen
  BY DEF Init, ClosedBooksFrozen, NoSession
<1> QED BY <1>1, <1>2, TypeInit DEF BooksInv

\* The inductive invariant is preserved by every step.
LEMMA BooksStep == BooksInv /\ [Next]_vars => BooksInv'
<1> SUFFICES ASSUME BooksInv, [Next]_vars PROVE BooksInv'
  OBVIOUS
<1>1. CASE UNCHANGED vars
  <2>1. LocksExclude' /\ LocksHeld'
    BY <1>1 DEF vars, BooksInv, LocksExclude, LocksHeld
  <2>2. ASSUME NEW w \in Worker PROVE Stands(w)'
    <3>1. Stands(w)
      BY DEF BooksInv, DecisionsStand
    <3> QED BY <1>1, <3>1 DEF vars, Stands, Overdraws, LiveExpected
  <2>3. ClosedBooksFrozen'
    BY <1>1 DEF vars, BooksInv, ClosedBooksFrozen, LiveExpected
  <2>4. TypeInv'
    BY TypeStep DEF BooksInv
  <2> QED BY <2>1, <2>2, <2>3, <2>4 DEF BooksInv, DecisionsStand
<1>2. ASSUME NEW w \in Worker, Acts(w) PROVE BooksInv'
  BY <1>2, TypeStep, LocksExcludeStep, LocksHeldStep, DecisionsStandStep, ClosedBooksStep
  DEF BooksInv
<1> QED BY <1>1, <1>2 DEF Next, Acts

\* The inductive invariant holds of every behaviour: types, lock discipline,
\* decisions and closed books together.
THEOREM BooksInvariant == Spec => []BooksInv
BY BooksInit, BooksStep, PTL DEF Spec

\* What a request decided on still holds when it writes, whatever the requests
\* it races with.
THEOREM DecisionsAlwaysStand == Spec => []DecisionsStand
<1>1. BooksInv => DecisionsStand
  BY DEF BooksInv
<1> QED BY <1>1, BooksInvariant, PTL

\* The amounts frozen when a session closed stay those its rows add up to, for
\* every number of concurrent requests.
THEOREM ClosedBooksStayFrozen == Spec => []ClosedBooksFrozen
<1>1. BooksInv => ClosedBooksFrozen
  BY DEF BooksInv
<1> QED BY <1>1, BooksInvariant, PTL

\* The step behind PaymentHistory: only cancel_payment changes a recorded
\* payment, and it holds the open session of that payment.
LEMMA HistoryStep ==
  ASSUME BooksInv, [Next]_vars, NEW p \in UsedPayments
  PROVE  \/ payments'[p] = payments[p]
         \/ /\ payments[p].status = "COMPLETED"
            /\ payments'[p] = [payments[p] EXCEPT !.status = "CANCELLED"]
            /\ payments[p].session # Null =>
                 sessions[payments[p].session].status = "OPEN"
<1>0. p \in Payment /\ payments[p].status # "NONE"
  BY DEF UsedPayments
<1>1. CASE UNCHANGED vars
  BY <1>1 DEF vars
<1>2. ASSUME NEW w \in Worker, Acts(w), CancelCommit(w), req[w].payment = p
      PROVE  /\ payments[p].status = "COMPLETED"
             /\ payments'[p] = [payments[p] EXCEPT !.status = "CANCELLED"]
             /\ payments[p].session # Null =>
                  sessions[payments[p].session].status = "OPEN"
  <2>1. Stands(w) /\ pc[w] = "cancel-fees"
    BY <1>2 DEF BooksInv, DecisionsStand, CancelCommit
  <2>2. payments' = [payments EXCEPT ![p] = [payments[p] EXCEPT !.status = "CANCELLED"]]
    BY <1>2 DEF CancelCommit
  <2>3. payments \in [Payment -> PaymentRow]
    BY DEF BooksInv, TypeInv, TypeOK
  <2> QED BY <1>0, <1>2, <2>1, <2>2, <2>3 DEF Stands
<1>3. ASSUME NEW w \in Worker, Acts(w), ~ CancelCommit(w) \/ req[w].payment # p
      PROVE  payments'[p] = payments[p]
  BY <1>0, <1>3, PaymentKept DEF BooksInv
<1> QED BY <1>1, <1>2, <1>3 DEF Next, Acts

\* A recorded payment only ever changes by being cancelled, and never once its
\* session is closed.
THEOREM PaymentsHaveHistory == Spec => PaymentHistory
<1>1. BooksInv /\ [Next]_vars =>
        [\A p \in UsedPayments :
           \/ payments'[p] = payments[p]
           \/ /\ payments[p].status = "COMPLETED"
              /\ payments'[p] = [payments[p] EXCEPT !.status = "CANCELLED"]
              /\ payments[p].session # Null =>
                   sessions[payments[p].session].status = "OPEN"]_vars
  BY HistoryStep
<1> QED BY <1>1, BooksInvariant, PTL DEF Spec, PaymentHistory

\* The step behind OutWithinBalance: a movement that is written had its balance
\* checked under the lock it still holds.
LEMMA OutStep ==
  ASSUME BooksInv, [Next]_vars, NEW m \in Movement,
         movements[m].session = Null, movements'[m].session # Null
  PROVE  ~ Overdraws(movements'[m])
<1>0. movements \in [Movement -> MovementRow]
  BY DEF BooksInv, TypeInv, TypeOK
<1>1. PICK w \in Worker : Acts(w)
  BY DEF vars, Next, Acts
<1>2. CASE MoveCommit(w)
  <2>1. PICK n \in Movement : movements' = [movements EXCEPT ![n] =
          [session |-> req[w].session, key |-> req[w].key, amount |-> req[w].amount]]
    BY <1>2 DEF MoveCommit
  <2>2. /\ movements'[m].session = req[w].session
        /\ movements'[m].amount = req[w].amount
    BY <1>0, <2>1
  <2>3. ~ Overdraws(req[w])
    BY <1>2 DEF BooksInv, DecisionsStand, Stands, MoveCommit
  <2> QED BY <2>2, <2>3 DEF Overdraws
<1>3. CASE Arrive(w) \/ Abort(w) \/ OpenCheck(w) \/ OpenInsert(w) \/ OpenCommit(w)
             \/ PayLookup(w) \/ PayFind(w) \/ PayShare(w) \/ LockFee(w) \/ PayCheck(w)
             \/ PayInsert(w) \/ PayCommit(w)
  <2>1. UNCHANGED movements
    BY <1>3 DEF Arrive, AskOpen, AskPay, AskCancel, AskMove, AskCount, AskClose,
                AskAdjust, Ask, Abort, OpenCheck, OpenInsert, OpenCommit, PayLookup,
                PayFind, PayShare, PayWithoutSession, LockFee, PayCheck, PayInsert,
                PayCommit, Reject, db
  <2> QED BY <2>1
<1>4. CASE CancelLock(w) \/ CancelShare(w) \/ CancelCommit(w) \/ LockSession(w)
             \/ MoveCheck(w) \/ CountCommit(w) \/ CloseCheck(w) \/ CloseCommit(w)
             \/ Adjust(w)
  <2>1. UNCHANGED movements
    BY <1>4 DEF CancelLock, CancelShare, CancelCommit, LockSession, MoveCheck,
                CountCommit, CloseCheck, CloseCommit, Adjust, Reject, db
  <2> QED BY <2>1
<1> QED BY <1>1, <1>2, <1>3, <1>4 DEF Acts, Step

\* An outgoing movement never takes more than the session holds when it is
\* committed.
THEOREM OutgoingStaysWithinBalance == Spec => OutWithinBalance
<1>1. BooksInv /\ [Next]_vars =>
        [\A m \in Movement :
           /\ movements[m].session = Null
           /\ movements'[m].session # Null
           => ~ Overdraws(movements'[m])]_vars
  BY OutStep
<1> QED BY <1>1, BooksInvariant, PTL DEF Spec, OutWithinBalance

\* Payments change only by lawful cancellations and no session pays out what
\* it does not hold (payments/service.py, cash/service.py).
THEOREM MovesAreAlwaysLawful == Spec => MovesAreLawful
  BY PaymentsHaveHistory, OutgoingStaysWithinBalance DEF MovesAreLawful

-----------------------------------------------------------------------------
(* Unique keys                                                             *)

\* What the unique indexes keep true between an insert and its commit: nobody
\* else has, or is about to have, the same cashier, payment key or movement key.
InsertsAlone == \A w \in Worker :
  /\ pc[w] = "open-commit" =>
       /\ OpenSessions(req[w].user) = {}
       /\ \A v \in Worker \ {w} : pc[v] = "open-commit" => req[v].user # req[w].user
  /\ pc[w] = "pay-commit" =>
       /\ ~ KeyUsed(req[w].key)
       /\ \A v \in Worker \ {w} : pc[v] = "pay-commit" => req[v].key # req[w].key
  /\ pc[w] = "move-commit" =>
       \A m \in Movement : movements[m].session = req[w].session =>
         movements[m].key # req[w].key

\* The empty school has nothing in flight.
LEMMA InsertsAloneInit == Init => InsertsAlone /\ UniqueKeysHold
BY DEF Init, InsertsAlone, UniqueKeysHold, OneOpenSession, NoDuplicateRecord, UsedPayments,
       UsedMovements, NoSession, NoPayment, NoMovement

\* Only open_session gives an account an open session.
LEMMA OpenSessionsShrink ==
  ASSUME BooksInv, NEW w \in Worker, Acts(w), NEW u, ~ OpenCommit(w) \/ req[w].user # u,
         NEW s \in Session, sessions'[s].status = "OPEN", sessions'[s].cashier = u
  PROVE  s \in OpenSessions(u)
<1>0. sessions \in [Session -> SessionRow]
  BY DEF BooksInv, TypeInv, TypeOK
<1>1. CASE UNCHANGED sessions
  BY <1>1 DEF OpenSessions
<1>2. CASE OpenCommit(w)
  <2>1. PICK t \in Session : sessions' = [sessions EXCEPT ![t] =
          [status |-> "OPEN", cashier |-> req[w].user,
           opening |-> req[w].opening, expected |-> 0, counted |-> 0]]
    BY <1>2 DEF OpenCommit
  <2>2. s # t
    BY <1>0, <1>2, <2>1
  <2> QED BY <1>0, <2>1, <2>2 DEF OpenSessions
<1>3. CASE CloseCommit(w)
  BY <1>0, <1>3 DEF CloseCommit, OpenSessions, SessionRow
<1> QED BY <1>1, <1>2, <1>3, Writers

\* Only record_payment records a key.
LEMMA KeysStay ==
  ASSUME BooksInv, NEW w \in Worker, Acts(w), NEW k, ~ PayCommit(w) \/ req[w].key # k,
         NEW p \in Payment, payments'[p].status # "NONE", payments'[p].key = k
  PROVE  payments[p].status # "NONE" /\ payments[p].key = k
<1>0. payments \in [Payment -> PaymentRow]
  BY DEF BooksInv, TypeInv, TypeOK
<1>1. CASE UNCHANGED payments
  BY <1>1
<1>2. CASE PayCommit(w)
  <2>1. PICK q \in Payment : payments' = [payments EXCEPT ![q] =
          [status |-> "COMPLETED", key |-> req[w].key, session |-> cash[w],
           alloc |-> req[w].alloc]]
    BY <1>2 DEF PayCommit
  <2>2. p # q
    BY <1>0, <1>2, <2>1
  <2> QED BY <1>0, <2>1, <2>2
<1>3. CASE CancelCommit(w)
  <2>1. payments[req[w].payment].status = "COMPLETED"
    BY <1>3 DEF BooksInv, DecisionsStand, Stands, CancelCommit
  <2> QED BY <1>0, <1>3, <2>1 DEF CancelCommit, PaymentRow
<1> QED BY <1>1, <1>2, <1>3, Writers

\* A worker that has the exclusive lock of a session is alone to move money there.
LEMMA MovementsStay ==
  ASSUME BooksInv, NEW w \in Worker, Acts(w), NEW s, ~ MoveCommit(w) \/ req[w].session # s,
         NEW m \in Movement, movements'[m].session = s
  PROVE  movements'[m] = movements[m]
<1>0. movements \in [Movement -> MovementRow]
  BY DEF BooksInv, TypeInv, TypeOK
<1>1. CASE UNCHANGED movements
  BY <1>1
<1>2. CASE MoveCommit(w)
  <2>1. PICK n \in Movement : movements' = [movements EXCEPT ![n] =
          [session |-> req[w].session, key |-> req[w].key, amount |-> req[w].amount]]
    BY <1>2 DEF MoveCommit
  <2> QED BY <1>0, <1>2, <2>1
<1> QED BY <1>1, <1>2, Writers

\* A request in front of its commit stays alone, whoever acts.
LEMMA InsertsAloneStep ==
  ASSUME BooksInv, InsertsAlone, NEW w \in Worker, Acts(w)
  PROVE  InsertsAlone'
<1>0. TypeInv
  BY DEF BooksInv
<1>1. \A v \in Worker \ {w} : pc'[v] = pc[v] /\ req'[v] = req[v]
  BY <1>0, OthersKeep
<1>2. ASSUME NEW v \in Worker, pc'[v] = "open-commit"
      PROVE  /\ OpenSessions(req[v].user)' = {}
             /\ \A x \in Worker \ {v} : pc'[x] = "open-commit" => req'[x].user # req'[v].user
  <2>1. CASE v = w
    <3>1. /\ OpenInsert(w) /\ UNCHANGED <<db, req>> /\ OpenSessions(req[w].user) = {}
      BY <1>0, <1>2, <2>1, Reaches
    <3>2. OpenSessions(req[v].user)' = {}
      BY <2>1, <3>1 DEF OpenSessions, db
    <3> QED BY <1>1, <2>1, <3>1, <3>2 DEF OpenInsert
  <2>2. CASE v # w
    <3>1. /\ pc[v] = "open-commit" /\ req'[v] = req[v]
          /\ OpenSessions(req[v].user) = {}
          /\ \A x \in Worker \ {v} : pc[x] = "open-commit" => req[x].user # req[v].user
      BY <1>1, <1>2, <2>2 DEF InsertsAlone
    <3>2. ~ OpenCommit(w) \/ req[w].user # req[v].user
      BY <2>2, <3>1 DEF OpenCommit
    <3>3. \A s \in Session : ~ (sessions'[s].status = "OPEN" /\ sessions'[s].cashier = req[v].user)
      BY <3>1, <3>2, OpenSessionsShrink
    <3>4. OpenSessions(req[v].user)' = {}
      BY <3>1, <3>3 DEF OpenSessions
    <3>5. ASSUME pc'[w] = "open-commit" PROVE req'[w].user # req'[v].user
      <4>1. OpenInsert(w) /\ UNCHANGED req
        BY <1>0, <3>5, Reaches
      <4> QED BY <3>1, <4>1 DEF OpenInsert
    <3> QED BY <1>1, <3>1, <3>4, <3>5
  <2> QED BY <2>1, <2>2
<1>3. ASSUME NEW v \in Worker, pc'[v] = "pay-commit"
      PROVE  /\ ~ KeyUsed(req[v].key)'
             /\ \A x \in Worker \ {v} : pc'[x] = "pay-commit" => req'[x].key # req'[v].key
  <2>1. CASE v = w
    <3>1. /\ PayInsert(w) /\ UNCHANGED <<db, req>> /\ ~ KeyUsed(req[w].key)
      BY <1>0, <1>3, <2>1, Reaches
    <3>2. ~ KeyUsed(req[v].key)'
      BY <2>1, <3>1 DEF KeyUsed, db
    <3> QED BY <1>1, <2>1, <3>1, <3>2 DEF PayInsert
  <2>2. CASE v # w
    <3>1. /\ pc[v] = "pay-commit" /\ req'[v] = req[v]
          /\ ~ KeyUsed(req[v].key)
          /\ \A x \in Worker \ {v} : pc[x] = "pay-commit" => req[x].key # req[v].key
      BY <1>1, <1>3, <2>2 DEF InsertsAlone
    <3>2. ~ PayCommit(w) \/ req[w].key # req[v].key
      BY <2>2, <3>1 DEF PayCommit
    <3>3. \A p \in Payment : ~ (payments'[p].status # "NONE" /\ payments'[p].key = req[v].key)
      BY <3>1, <3>2, KeysStay DEF KeyUsed
    <3>4. ~ KeyUsed(req[v].key)'
      BY <3>1, <3>3 DEF KeyUsed
    <3>5. ASSUME pc'[w] = "pay-commit" PROVE req'[w].key # req'[v].key
      <4>1. PayInsert(w) /\ UNCHANGED req
        BY <1>0, <3>5, Reaches
      <4> QED BY <3>1, <4>1 DEF PayInsert
    <3> QED BY <1>1, <3>1, <3>4, <3>5
  <2> QED BY <2>1, <2>2
<1>4. ASSUME NEW v \in Worker, pc'[v] = "move-commit",
             NEW m \in Movement, movements'[m].session = req'[v].session
      PROVE  movements'[m].key # req'[v].key
  <2>1. CASE v = w
    <3>1. /\ UNCHANGED <<db, req>>
          /\ \A n \in Movement : movements[n].session = req[w].session =>
               movements[n].key # req[w].key
      BY <1>0, <1>4, <2>1, Reaches
    <3> QED BY <1>4, <2>1, <3>1 DEF db
  <2>2. CASE v # w
    <3>1. /\ pc[v] = "move-commit" /\ req'[v] = req[v] /\ req[v].session \in Session
      BY <1>0, <1>1, <1>4, <2>2 DEF TypeInv, ReqOK, MovePc, MoveReq
    <3>2. ~ MoveCommit(w) \/ req[w].session # req[v].session
      BY <2>2, <3>1 DEF MoveCommit, BooksInv, LocksHeld, LocksExclude
    <3>3. movements'[m] = movements[m]
      BY <1>4, <3>1, <3>2, MovementsStay
    <3> QED BY <1>4, <3>1, <3>3 DEF InsertsAlone
  <2> QED BY <2>1, <2>2
<1> QED BY <1>2, <1>3, <1>4 DEF InsertsAlone

\* A commit that inserts a row adds no second one for its cashier or its key.
LEMMA UniqueKeysStep ==
  ASSUME BooksInv, InsertsAlone, UniqueKeysHold, NEW w \in Worker, Acts(w)
  PROVE  UniqueKeysHold'
<1>0. /\ sessions \in [Session -> SessionRow] /\ payments \in [Payment -> PaymentRow]
      /\ movements \in [Movement -> MovementRow]
  BY DEF BooksInv, TypeInv, TypeOK
<1>1. ASSUME NEW s \in Session, NEW t \in Session,
             sessions'[s].status = "OPEN", sessions'[t].status = "OPEN",
             sessions'[s].cashier = sessions'[t].cashier
      PROVE  s = t
  <2>1. CASE OpenCommit(w)
    <3>1. PICK x \in Session : sessions' = [sessions EXCEPT ![x] =
            [status |-> "OPEN", cashier |-> req[w].user,
             opening |-> req[w].opening, expected |-> 0, counted |-> 0]]
      BY <2>1 DEF OpenCommit
    <3>2. OpenSessions(req[w].user) = {}
      BY <2>1 DEF OpenCommit, InsertsAlone
    <3> QED BY <1>0, <1>1, <3>1, <3>2 DEF OpenSessions, UniqueKeysHold, OneOpenSession
  <2>2. CASE ~ OpenCommit(w)
    <3>1. s \in OpenSessions(sessions'[s].cashier) /\ t \in OpenSessions(sessions'[s].cashier)
      BY <1>1, <2>2, OpenSessionsShrink
    <3> QED BY <3>1 DEF OpenSessions, UniqueKeysHold, OneOpenSession
  <2> QED BY <2>1, <2>2
<1>2. ASSUME NEW p \in Payment, NEW q \in Payment,
             payments'[p].status # "NONE", payments'[q].status # "NONE",
             payments'[p].key = payments'[q].key
      PROVE  p = q
  <2>1. CASE PayCommit(w)
    <3>1. PICK x \in Payment : payments' = [payments EXCEPT ![x] =
            [status |-> "COMPLETED", key |-> req[w].key, session |-> cash[w],
             alloc |-> req[w].alloc]]
      BY <2>1 DEF PayCommit
    <3>2. ~ KeyUsed(req[w].key)
      BY <2>1 DEF PayCommit, InsertsAlone
    <3> QED BY <1>0, <1>2, <3>1, <3>2
            DEF KeyUsed, UniqueKeysHold, NoDuplicateRecord, UsedPayments
  <2>2. CASE ~ PayCommit(w)
    <3>1. /\ payments[p].status # "NONE" /\ payments[q].status # "NONE"
          /\ payments[p].key = payments'[p].key /\ payments[q].key = payments'[p].key
      BY <1>2, <2>2, KeysStay
    <3> QED BY <3>1 DEF UniqueKeysHold, NoDuplicateRecord, UsedPayments
  <2> QED BY <2>1, <2>2
<1>3. ASSUME NEW m \in Movement, NEW n \in Movement, movements'[m].session # Null,
             movements'[m].session = movements'[n].session,
             movements'[m].key = movements'[n].key
      PROVE  m = n
  <2>1. CASE MoveCommit(w)
    <3>1. PICK x \in Movement : movements' = [movements EXCEPT ![x] =
            [session |-> req[w].session, key |-> req[w].key, amount |-> req[w].amount]]
      BY <2>1 DEF MoveCommit
    <3>2. \A y \in Movement : movements[y].session = req[w].session =>
            movements[y].key # req[w].key
      BY <2>1 DEF MoveCommit, InsertsAlone
    <3> QED BY <1>0, <1>3, <3>1, <3>2 DEF UniqueKeysHold, NoDuplicateRecord, UsedMovements
  <2>2. CASE ~ MoveCommit(w)
    <3>1. UNCHANGED movements
      BY <2>2, Writers
    <3> QED BY <1>3, <3>1 DEF UniqueKeysHold, NoDuplicateRecord, UsedMovements
  <2> QED BY <2>1, <2>2
<1> QED BY <1>1, <1>2, <1>3
        DEF UniqueKeysHold, OneOpenSession, NoDuplicateRecord, UsedPayments, UsedMovements

KeysInv == BooksInv /\ InsertsAlone /\ UniqueKeysHold

\* Keys stay unique through every step.
LEMMA KeysStep == KeysInv /\ [Next]_vars => KeysInv'
<1> SUFFICES ASSUME KeysInv, [Next]_vars PROVE KeysInv'
  OBVIOUS
<1>1. BooksInv'
  BY BooksStep DEF KeysInv
<1>2. CASE UNCHANGED vars
  BY <1>1, <1>2 DEF vars, KeysInv, InsertsAlone, OpenSessions, KeyUsed, UniqueKeysHold,
                    OneOpenSession, NoDuplicateRecord, UsedPayments, UsedMovements
<1>3. ASSUME NEW w \in Worker, Acts(w) PROVE KeysInv'
  BY <1>1, <1>3, InsertsAloneStep, UniqueKeysStep DEF KeysInv
<1> QED BY <1>2, <1>3 DEF Next, Acts

\* The inductive invariant of the unique keys.
THEOREM KeysInvariant == Spec => []KeysInv
<1>1. Init => KeysInv
  BY BooksInit, InsertsAloneInit DEF KeysInv
<1> QED BY <1>1, KeysStep, PTL DEF Spec

\* A cashier has one open session, a payment key names one payment and a
\* movement key one movement of its session, for any interleaving of retries
\* (uq_cash_sessions_open_per_cashier, uq_payment_idempotency).
THEOREM KeysAreUnique == Spec => []UniqueKeysHold
<1>1. KeysInv => UniqueKeysHold
  BY DEF KeysInv
<1> QED BY <1>1, KeysInvariant, PTL

-----------------------------------------------------------------------------
(* Fees                                                                    *)

\* The active allocations of a fee move by what a payment or a cancellation
\* carries, and by nothing else.
LEMMA PaidChange ==
  ASSUME BooksInv, NEW w \in Worker, Acts(w), NEW f \in Fee
  PROVE  /\ Paid(payments, f) \in Nat /\ Paid(payments', f) \in Nat
         /\ PayCommit(w) =>
              /\ req[w].alloc \in [Fee -> Nat]
              /\ Paid(payments', f) = Paid(payments, f) + req[w].alloc[f]
         /\ CancelCommit(w) =>
              /\ payments[req[w].payment].alloc \in [Fee -> Nat]
              /\ Paid(payments', f) = Paid(payments, f) - payments[req[w].payment].alloc[f]
         /\ ~ PayCommit(w) /\ ~ CancelCommit(w) => Paid(payments', f) = Paid(payments, f)
<1>0. TypeInv /\ TypeInv'
  BY TypeStep DEF BooksInv, Next, Acts
<1>1. payments \in [Payment -> PaymentRow] /\ payments' \in [Payment -> PaymentRow]
  BY <1>0 DEF TypeInv, TypeOK
<1> DEFINE A == ActiveOf(payments, f)
           B == ActiveOf(payments', f)
<1>2. /\ A \in [Payment -> Nat] /\ B \in [Payment -> Nat]
      /\ A \in [Payment -> Int] /\ B \in [Payment -> Int]
  BY <1>1 DEF ActiveOf, PaymentRow
<1>3. Paid(payments, f) = SumFunction(A) /\ Paid(payments', f) = SumFunction(B)
  BY DEF Paid
<1>4. SumFunction(A) \in Nat /\ SumFunction(B) \in Nat
  <2> HIDE DEF A, B
  <2> QED BY <1>2, SumNat, FiniteAssumption
<1>5. ASSUME NEW p \in Payment, \A q \in Payment : q # p => payments'[q] = payments[q]
      PROVE  SumFunction(B) = SumFunction(A) + B[p] - A[p]
  <2>1. \A q \in Payment : q # p => B[q] = A[q]
    BY <1>5 DEF ActiveOf
  <2> HIDE DEF A, B
  <2> QED BY <1>2, <2>1, SumChange, FiniteAssumption
<1>6. CASE PayCommit(w)
  <2>1. PICK p \in Payment :
          /\ payments[p].status = "NONE"
          /\ payments' = [payments EXCEPT ![p] =
               [status |-> "COMPLETED", key |-> req[w].key, session |-> cash[w],
                alloc |-> req[w].alloc]]
    BY <1>6 DEF PayCommit
  <2>2. req[w].alloc \in [Fee -> Nat]
    BY <1>0, <1>6, AmountAssumption DEF PayCommit, TypeInv, ReqOK, PayPc, PayReq
  <2>3. /\ A[p] = 0 /\ B[p] = req[w].alloc[f]
        /\ \A q \in Payment : q # p => payments'[q] = payments[q]
    BY <1>1, <2>1 DEF ActiveOf
  <2>4. pc[w] # "cancel-fees"
    BY <1>6 DEF PayCommit
  <2> HIDE DEF A, B
  <2> QED BY <1>3, <1>4, <1>5, <1>6, <2>2, <2>3, <2>4 DEF CancelCommit
<1>7. CASE CancelCommit(w)
  <2> DEFINE p == req[w].payment
  <2>1. p \in Payment /\ payments[p].status = "COMPLETED" /\ pc[w] # "pay-commit"
    BY <1>0, <1>7 DEF BooksInv, DecisionsStand, Stands, CancelCommit, TypeInv, ReqOK,
                      CancelPc, CancelReq
  <2>2. payments' = [payments EXCEPT ![p].status = "CANCELLED"]
    BY <1>7 DEF CancelCommit
  <2>3. /\ A[p] = payments[p].alloc[f] /\ B[p] = 0 /\ payments[p].alloc \in [Fee -> Nat]
        /\ \A q \in Payment : q # p => payments'[q] = payments[q]
    BY <1>1, <2>1, <2>2 DEF ActiveOf, PaymentRow
  <2>4. payments[p].alloc[f] \in Nat
    BY <2>3
  <2> HIDE DEF A, B, p
  <2>5. SumFunction(B) = SumFunction(A) - payments[p].alloc[f]
    BY <1>4, <1>5, <2>1, <2>3, <2>4
  <2> QED BY <1>3, <1>4, <1>7, <2>1, <2>3, <2>5 DEF PayCommit, p
<1>8. CASE ~ PayCommit(w) /\ ~ CancelCommit(w)
  <2>1. UNCHANGED payments
    BY <1>8, Writers
  <2> QED BY <1>3, <1>4, <1>8, <2>1
<1> QED BY <1>6, <1>7, <1>8

\* FOR UPDATE on a fee excludes everyone else.
FeesExclude == \A f \in Fee, w \in Worker : w \in feeLock[f] => feeLock[f] = {w}

\* A payment that was checked holds its fees, and still fits in them.
PaymentsFit == \A w \in Worker : pc[w] \in {"pay-insert", "pay-commit"} =>
  \A f \in Targets(req[w].alloc) :
    /\ w \in feeLock[f]
    /\ Paid(payments, f) + req[w].alloc[f] <= fees[f].due

\* Fees are locked one by one and released together.
LEMMA FeeLockChanges ==
  ASSUME NEW w \in Worker, Acts(w)
  PROVE  \/ UNCHANGED feeLock
         \/ \E o \in Resting : Finish(w, o)
         \/ LockFee(w)
<1>1. CASE Arrive(w) \/ Abort(w) \/ OpenCheck(w) \/ OpenInsert(w) \/ OpenCommit(w)
  BY <1>1 DEF Arrive, AskOpen, AskPay, AskCancel, AskMove, AskCount, AskClose, AskAdjust,
              Ask, Abort, OpenCheck, OpenInsert, OpenCommit, Reject, Resting, locks
<1>2. CASE PayLookup(w) \/ PayFind(w) \/ PayShare(w) \/ PayCheck(w) \/ PayInsert(w)
             \/ PayCommit(w)
  BY <1>2 DEF PayLookup, PayFind, PayShare, PayCheck, PayInsert, PayCommit,
              PayWithoutSession, Reject, Resting, locks
<1>3. CASE CancelLock(w) \/ CancelShare(w) \/ CancelCommit(w) \/ LockSession(w)
  BY <1>3 DEF CancelLock, CancelShare, CancelCommit, LockSession, Reject, Resting
<1>4. CASE MoveCheck(w) \/ MoveCommit(w) \/ CountCommit(w) \/ CloseCheck(w)
             \/ CloseCommit(w) \/ Adjust(w)
  BY <1>4 DEF MoveCheck, MoveCommit, CountCommit, CloseCheck, CloseCommit, Adjust, Reject,
              Resting, locks
<1> QED BY <1>1, <1>2, <1>3, <1>4 DEF Acts, Step

\* No step lets two transactions hold a fee, or takes one from its holder.
LEMMA FeesExcludeStep ==
  ASSUME BooksInv, FeesExclude, NEW w \in Worker, Acts(w)
  PROVE  /\ FeesExclude'
         /\ \A f \in Fee, v \in Worker \ {w} : v \in feeLock[f] => v \in feeLock'[f]
<1>0. feeLock \in [Fee -> SUBSET Worker]
  BY DEF BooksInv, TypeInv, TypeOK
<1>1. CASE UNCHANGED feeLock
  BY <1>1 DEF FeesExclude
<1>2. ASSUME NEW o \in Resting, Finish(w, o)
      PROVE  /\ FeesExclude'
             /\ \A f \in Fee, v \in Worker \ {w} : v \in feeLock[f] => v \in feeLock'[f]
  BY <1>2 DEF Finish, Release, FeesExclude
<1>3. CASE LockFee(w)
  <2>1. PICK f \in FeesOf(w) : FreeOf(feeLock, f, w) /\ feeLock' = [feeLock EXCEPT ![f] = @ \cup {w}]
    BY <1>3 DEF LockFee
  <2> QED BY <1>0, <2>1 DEF FreeOf, FeesExclude
<1> QED BY <1>1, <1>2, <1>3, FeeLockChanges

\* The amount due of a fee moves by update_student_fee only.
LEMMA DueChange ==
  ASSUME BooksInv, NEW w \in Worker, Acts(w), NEW f \in Fee, ~ Adjust(w) \/ req[w].fee # f
  PROVE  fees'[f].due = fees[f].due
<1>0. fees \in [Fee -> FeeRow]
  BY DEF BooksInv, TypeInv, TypeOK
<1>1. CASE PayCommit(w) \/ CancelCommit(w)
  <2>1. \E F : fees' = Refreshed(payments', F)
    BY <1>1 DEF PayCommit, CancelCommit
  <2> QED BY <1>0, <2>1 DEF Refreshed, FeeRow
<1>2. CASE Adjust(w)
  BY <1>0, <1>2 DEF Adjust
<1>3. CASE UNCHANGED fees
  BY <1>3
<1> QED BY <1>1, <1>2, <1>3, Writers

\* A checked payment keeps fitting: what its fees owe and were paid is locked,
\* but for cancellations, which only make room.
LEMMA PaymentsFitStep ==
  ASSUME BooksInv, FeesExclude, PaymentsFit, NEW w \in Worker, Acts(w)
  PROVE  PaymentsFit'
<1>0. TypeInv
  BY DEF BooksInv
<1> SUFFICES ASSUME NEW v \in Worker, pc'[v] \in {"pay-insert", "pay-commit"},
                    NEW f \in Targets(req'[v].alloc)
             PROVE  /\ v \in feeLock'[f]
                    /\ Paid(payments', f) + req'[v].alloc[f] <= fees'[f].due
  BY DEF PaymentsFit, Paid, ActiveOf
<1>1. CASE v = w
  <2>1. CASE pc'[w] = "pay-insert"
    <3>1. /\ PayCheck(w) /\ UNCHANGED <<db, locks, req, cash>>
          /\ \A g \in FeesOf(w) : Paid(payments, g) + req[w].alloc[g] <= fees[g].due
      BY <1>0, <2>1, Reaches
    <3>2. FeesOf(w) = Targets(req[w].alloc) /\ f \in Targets(req[w].alloc)
      BY <1>1, <3>1 DEF PayCheck, FeesOf
    <3>3. w \in feeLock[f]
      BY <3>1, <3>2 DEF PayCheck, FeesLocked
    <3> QED BY <1>1, <3>1, <3>2, <3>3 DEF db, locks
  <2>2. CASE pc'[w] = "pay-commit"
    <3>1. PayInsert(w) /\ UNCHANGED <<db, locks, req, cash>>
      BY <1>0, <2>2, Reaches
    <3>2. pc[w] = "pay-insert"
      BY <3>1 DEF PayInsert
    <3> QED BY <1>1, <3>1, <3>2 DEF db, locks, PaymentsFit
  <2> QED BY <1>1, <2>1, <2>2
<1>2. CASE v # w
  <2>1. pc'[v] = pc[v] /\ req'[v] = req[v]
    BY <1>0, <1>2, OthersKeep
  <2>2. /\ f \in Fee /\ v \in feeLock[f] /\ v \in feeLock'[f] /\ feeLock[f] = {v}
        /\ Paid(payments, f) + req[v].alloc[f] <= fees[f].due
    BY <1>2, <2>1, FeesExcludeStep DEF PaymentsFit, FeesExclude, Targets
  <2>3. req[v].alloc \in [Fee -> Nat] /\ fees[f].due \in Nat
    BY <1>0, <2>1, <2>2, AmountAssumption DEF TypeInv, TypeOK, ReqOK, PayPc, PayReq, FeeRow
  <2>4. fees'[f].due = fees[f].due
    <3>1. ~ Adjust(w) \/ req[w].fee # f
      BY <1>2, <2>2 DEF Adjust, FreeOf
    <3> QED BY <2>2, <3>1, DueChange
  <2>5. Paid(payments', f) <= Paid(payments, f) /\ Paid(payments', f) \in Nat
        /\ Paid(payments, f) \in Nat
    <3>1. CASE PayCommit(w)
      <4>1. f \notin Targets(req[w].alloc)
        BY <1>2, <2>2, <3>1 DEF PayCommit, PaymentsFit
      <4>2. req[w].alloc \in [Fee -> Nat] /\ Paid(payments', f) = Paid(payments, f) + req[w].alloc[f]
        BY <2>2, <3>1, PaidChange
      <4>3. req[w].alloc[f] = 0
        BY <2>2, <4>1, <4>2 DEF Targets
      <4> QED BY <2>2, <4>2, <4>3, PaidChange
    <3>2. CASE CancelCommit(w)
      <4>1. /\ payments[req[w].payment].alloc[f] \in Nat
            /\ Paid(payments', f) = Paid(payments, f) - payments[req[w].payment].alloc[f]
        BY <2>2, <3>2, PaidChange
      <4> QED BY <2>2, <4>1, PaidChange
    <3>3. CASE ~ PayCommit(w) /\ ~ CancelCommit(w)
      BY <2>2, <3>3, PaidChange
    <3> QED BY <3>1, <3>2, <3>3
  <2>6. req[v].alloc[f] \in Nat
    BY <2>2, <2>3
  <2> QED BY <2>1, <2>2, <2>3, <2>4, <2>5, <2>6
<1> QED BY <1>1, <1>2

FeesInv == BooksInv /\ FeesExclude /\ PaymentsFit

\* Locked fees and checked payments, through every step.
LEMMA FeesStep == FeesInv /\ [Next]_vars => FeesInv'
<1> SUFFICES ASSUME FeesInv, [Next]_vars PROVE FeesInv'
  OBVIOUS
<1>1. BooksInv'
  BY BooksStep DEF FeesInv
<1>2. CASE UNCHANGED vars
  BY <1>1, <1>2 DEF vars, FeesInv, FeesExclude, PaymentsFit, Paid, ActiveOf
<1>3. ASSUME NEW w \in Worker, Acts(w) PROVE FeesInv'
  BY <1>1, <1>3, FeesExcludeStep, PaymentsFitStep DEF FeesInv
<1> QED BY <1>2, <1>3 DEF Next, Acts

\* The inductive invariant of the fees.
THEOREM FeesInvariant == Spec => []FeesInv
<1>1. Init => FeesInv
  <2> SUFFICES ASSUME Init PROVE FeesInv
    OBVIOUS
  <2>1. FeesExclude /\ PaymentsFit
    BY DEF Init, FeesExclude, PaymentsFit
  <2> QED BY <2>1, BooksInit DEF FeesInv
<1> QED BY <1>1, FeesStep, PTL DEF Spec

\* The step behind PaymentFits: what is paid of a fee only grows by a payment
\* that was checked under the lock it still holds.
LEMMA FitsStep ==
  ASSUME FeesInv, [Next]_vars, NEW f \in Fee, Paid(payments', f) > Paid(payments, f)
  PROVE  Paid(payments', f) <= fees[f].due
<1>0. BooksInv
  BY DEF FeesInv
<1>1. PICK w \in Worker : Acts(w)
  <2>1. CASE UNCHANGED vars
    <3>1. Paid(payments', f) = Paid(payments, f) /\ payments' = payments
      BY <2>1 DEF vars
    <3>2. Paid(payments, f) \in Int
      <4>1. ActiveOf(payments, f) \in [Payment -> Int]
        BY <1>0 DEF BooksInv, TypeInv, TypeOK, ActiveOf, PaymentRow
      <4> QED BY <4>1, SumType, FiniteAssumption DEF Paid
    <3> QED BY <3>1, <3>2
  <2> QED BY <2>1 DEF Next, Acts
<1>2. PayCommit(w)
  <2>1. CASE CancelCommit(w)
    <3>1. /\ payments[req[w].payment].alloc[f] \in Nat
          /\ Paid(payments', f) = Paid(payments, f) - payments[req[w].payment].alloc[f]
          /\ Paid(payments, f) \in Nat
      BY <1>0, <1>1, <2>1, PaidChange
    <3> QED BY <3>1
  <2>2. Paid(payments, f) \in Nat
    BY <1>0, <1>1, PaidChange
  <2> QED BY <1>0, <1>1, <2>1, <2>2, PaidChange
<1>3. /\ req[w].alloc \in [Fee -> Nat] /\ Paid(payments, f) \in Nat
      /\ Paid(payments', f) = Paid(payments, f) + req[w].alloc[f]
  BY <1>0, <1>1, <1>2, PaidChange
<1>4. f \in Targets(req[w].alloc)
  BY <1>3 DEF Targets
<1> QED BY <1>2, <1>3, <1>4 DEF FeesInv, PaymentsFit, PayCommit

\* A payment never takes a fee above the amount due at its commit, even when
\* that amount is being adjusted by another request (record_payment).
THEOREM PaymentsAlwaysFit == Spec => PaymentFits
<1>1. FeesInv /\ [Next]_vars =>
        [\A f \in Fee : Paid(payments', f) > Paid(payments, f) =>
           Paid(payments', f) <= fees[f].due]_vars
  BY FitsStep
<1> QED BY <1>1, FeesInvariant, PTL DEF Spec, PaymentFits

\* Without update_student_fee, no request adjusts an amount due.
LEMMA NoAdjust == ASSUME NewDue = {}, TypeInv, NEW w \in Worker PROVE ~ Adjust(w)
BY DEF TypeInv, ReqOK, AdjustReq, Adjust

\* A commit leaves every fee paid within its amount due and with the status its
\* payments give: those it touches are refreshed, the others do not move.
LEMMA FollowStep ==
  ASSUME NewDue = {}, FeesInv, FeesFollowPayments, NEW w \in Worker, Acts(w)
  PROVE  FeesFollowPayments'
<1>0. BooksInv /\ TypeInv /\ fees \in [Fee -> FeeRow]
  BY DEF FeesInv, BooksInv, TypeInv, TypeOK
<1> SUFFICES ASSUME NEW f \in Fee
             PROVE  /\ Paid(payments', f) <= fees'[f].due
                    /\ fees'[f].status = FeeStatus(Paid(payments', f), fees'[f].due)
  BY DEF FeesFollowPayments, FeeNeverOverpaid, FeeStatusDerived, Paid, ActiveOf
<1>1. /\ Paid(payments, f) <= fees[f].due
      /\ fees[f].status = FeeStatus(Paid(payments, f), fees[f].due)
      /\ fees'[f].due = fees[f].due /\ fees[f] \in FeeRow /\ fees[f].due \in Nat
  BY <1>0, NoAdjust, DueChange
  DEF FeesFollowPayments, FeeNeverOverpaid, FeeStatusDerived, FeeRow
<1>2. ASSUME NEW F, fees' = Refreshed(payments', F), f \in F,
             Paid(payments', f) <= fees[f].due
      PROVE  /\ Paid(payments', f) <= fees'[f].due
             /\ fees'[f].status = FeeStatus(Paid(payments', f), fees'[f].due)
  <2>1. fees'[f] = [fees[f] EXCEPT !.status = FeeStatus(Paid(payments', f), fees[f].due)]
    BY <1>2 DEF Refreshed
  <2>2. fees'[f].status = FeeStatus(Paid(payments', f), fees[f].due)
    BY <1>1, <2>1 DEF FeeRow
  <2> QED BY <1>1, <1>2, <2>2
<1>3. ASSUME NEW F, fees' = Refreshed(payments', F) \/ UNCHANGED fees, f \notin F,
             Paid(payments', f) = Paid(payments, f)
      PROVE  /\ Paid(payments', f) <= fees'[f].due
             /\ fees'[f].status = FeeStatus(Paid(payments', f), fees'[f].due)
  <2>1. fees'[f] = fees[f]
    BY <1>3 DEF Refreshed
  <2> QED BY <1>1, <1>3, <2>1
<1>4. CASE PayCommit(w)
  <2> DEFINE F == Targets(req[w].alloc)
  <2>1. /\ fees' = Refreshed(payments', F) /\ pc[w] = "pay-commit"
        /\ req[w].alloc \in [Fee -> Nat]
        /\ Paid(payments', f) = Paid(payments, f) + req[w].alloc[f]
        /\ Paid(payments, f) \in Nat
    BY <1>0, <1>4, PaidChange DEF PayCommit
  <2>2. CASE f \in F
    <3>1. Paid(payments, f) + req[w].alloc[f] <= fees[f].due
      BY <2>1, <2>2 DEF FeesInv, PaymentsFit
    <3> QED BY <1>2, <2>1, <2>2, <3>1
  <2>3. CASE f \notin F
    <3>1. req[w].alloc[f] = 0
      BY <2>1, <2>3 DEF Targets
    <3> QED BY <1>3, <2>1, <2>3, <3>1
  <2> QED BY <2>2, <2>3
<1>5. CASE CancelCommit(w)
  <2> DEFINE a == payments[req[w].payment].alloc
             F == Targets(a)
  <2>1. /\ a \in [Fee -> Nat] /\ Paid(payments', f) = Paid(payments, f) - a[f]
        /\ Paid(payments, f) \in Nat
    BY <1>0, <1>5, PaidChange
  <2>2. fees' = Refreshed(payments', F)
    BY <1>5 DEF CancelCommit, FeesOf
  <2>3. a[f] \in Nat /\ (f \notin F => a[f] = 0)
    BY <2>1 DEF Targets
  <2> HIDE DEF a, F
  <2>4. CASE f \in F
    BY <1>1, <1>2, <2>1, <2>2, <2>3, <2>4
  <2>5. CASE f \notin F
    BY <1>3, <2>1, <2>2, <2>3, <2>5
  <2> QED BY <2>4, <2>5
<1>6. CASE ~ PayCommit(w) /\ ~ CancelCommit(w)
  <2>1. UNCHANGED fees
    BY <1>0, <1>6, NoAdjust, Writers
  <2>2. Paid(payments', f) = Paid(payments, f)
    BY <1>0, <1>6, PaidChange
  <2> QED BY <1>1, <2>1, <2>2
<1> QED BY <1>4, <1>5, <1>6

\* A fee of the empty school is pending: nothing was paid of what is due.
LEMMA FollowInit == Init => FeesFollowPayments
<1> SUFFICES ASSUME Init, NEW f \in Fee
             PROVE  /\ Paid(payments, f) <= fees[f].due
                    /\ fees[f].status = FeeStatus(Paid(payments, f), fees[f].due)
  BY DEF FeesFollowPayments, FeeNeverOverpaid, FeeStatusDerived
<1>1. ActiveOf(payments, f) = [p \in Payment |-> 0]
  BY DEF Init, ActiveOf, NoPayment
<1>2. Paid(payments, f) = 0
  BY <1>1, SumZero, FiniteAssumption DEF Paid
<1>3. Due[f] \in Nat
  BY AmountAssumption
<1> QED BY <1>2, <1>3 DEF Init, FeeStatus

\* As long as no amount due is adjusted, no fee is paid beyond it and every fee
\* has the status its payments give, however payments and cancellations overlap
\* (PaymentAllocation, StudentFee, _refresh_student_fee_status).
THEOREM FeesAlwaysFollow == ASSUME NewDue = {} PROVE Spec => []FeesFollowPayments
<1>1. Init => FeesInv /\ FeesFollowPayments
  BY FollowInit, BooksInit DEF Init, FeesInv, FeesExclude, PaymentsFit
<1>2. FeesInv /\ FeesFollowPayments /\ [Next]_vars => (FeesInv /\ FeesFollowPayments)'
  <2> SUFFICES ASSUME FeesInv, FeesFollowPayments, [Next]_vars
               PROVE  FeesFollowPayments'
    BY FeesStep
  <2>1. CASE UNCHANGED vars
    BY <2>1 DEF vars, FeesFollowPayments, FeeNeverOverpaid, FeeStatusDerived, Paid, ActiveOf
  <2> QED BY <2>1, FollowStep DEF Next, Acts
<1> QED BY <1>1, <1>2, PTL DEF Spec

-----------------------------------------------------------------------------
(* The register implements the till                                        *)

\* A session that was never opened is a blank row no movement belongs to.
RowsOfSessions == \A s \in Session : sessions[s].status = "NONE" =>
  /\ sessions[s] = NoSession
  /\ \A m \in Movement : movements[m].session # s

Takings(ps, s) == SumFunction(CashOf(ps, s))
Flows(ms, s) == SumFunction(FlowOf(ms, s))

\* The takings of a session move by what a payment attached to it, or the
\* cancellation of such a payment, carries, and by nothing else.
LEMMA TakingsChange ==
  ASSUME BooksInv, NEW w \in Worker, Acts(w), NEW s \in Session
  PROVE  /\ Takings(payments, s) \in Nat /\ Takings(payments', s) \in Nat
         /\ PayCommit(w) =>
              /\ SumFunction(req[w].alloc) \in Nat
              /\ Takings(payments', s) = Takings(payments, s)
                   + (IF cash[w] = s THEN SumFunction(req[w].alloc) ELSE 0)
         /\ CancelCommit(w) =>
              /\ SumFunction(payments[req[w].payment].alloc) \in Nat
              /\ Takings(payments', s) = Takings(payments, s)
                   - (IF cash[w] = s THEN SumFunction(payments[req[w].payment].alloc) ELSE 0)
         /\ ~ PayCommit(w) /\ ~ CancelCommit(w) =>
              Takings(payments', s) = Takings(payments, s)
<1>0. TypeInv /\ TypeInv'
  BY TypeStep DEF BooksInv, Next, Acts
<1>1. payments \in [Payment -> PaymentRow] /\ payments' \in [Payment -> PaymentRow]
  BY <1>0 DEF TypeInv, TypeOK
<1>a. ASSUME NEW a \in [Fee -> Nat] PROVE SumFunction(a) \in Nat
  BY SumNat, FiniteAssumption
<1> DEFINE A == CashOf(payments, s)
           B == CashOf(payments', s)
<1>2. /\ A \in [Payment -> Nat] /\ B \in [Payment -> Nat]
      /\ A \in [Payment -> Int] /\ B \in [Payment -> Int]
  <2>1. ASSUME NEW p \in Payment
        PROVE  /\ SumFunction(payments[p].alloc) \in Nat
               /\ SumFunction(payments'[p].alloc) \in Nat
    <3>1. payments[p].alloc \in [Fee -> Nat] /\ payments'[p].alloc \in [Fee -> Nat]
      BY <1>1 DEF PaymentRow
    <3> QED BY <3>1, <1>a
  <2> QED BY <2>1 DEF CashOf
<1>3. Takings(payments, s) = SumFunction(A) /\ Takings(payments', s) = SumFunction(B)
  BY DEF Takings
<1>4. SumFunction(A) \in Nat /\ SumFunction(B) \in Nat
  <2> HIDE DEF A, B
  <2> QED BY <1>2, SumNat, FiniteAssumption
<1>5. ASSUME NEW p \in Payment, \A q \in Payment : q # p => payments'[q] = payments[q]
      PROVE  SumFunction(B) = SumFunction(A) + B[p] - A[p]
  <2>1. \A q \in Payment : q # p => B[q] = A[q]
    BY <1>5 DEF CashOf
  <2> HIDE DEF A, B
  <2> QED BY <1>2, <2>1, SumChange, FiniteAssumption
<1>6. CASE PayCommit(w)
  <2>1. PICK p \in Payment :
          /\ payments[p].status = "NONE"
          /\ payments' = [payments EXCEPT ![p] =
               [status |-> "COMPLETED", key |-> req[w].key, session |-> cash[w],
                alloc |-> req[w].alloc]]
    BY <1>6 DEF PayCommit
  <2>2. req[w].alloc \in [Fee -> Nat]
    BY <1>0, <1>6, AmountAssumption DEF PayCommit, TypeInv, ReqOK, PayPc, PayReq
  <2>3. SumFunction(req[w].alloc) \in Nat
    BY <1>a, <2>2
  <2>4. /\ A[p] = 0 /\ B[p] = (IF cash[w] = s THEN SumFunction(req[w].alloc) ELSE 0)
        /\ \A q \in Payment : q # p => payments'[q] = payments[q]
    BY <1>1, <2>1 DEF CashOf
  <2>5. pc[w] # "cancel-fees"
    BY <1>6 DEF PayCommit
  <2> HIDE DEF A, B
  <2> QED BY <1>3, <1>4, <1>5, <1>6, <2>3, <2>4, <2>5 DEF CancelCommit
<1>7. CASE CancelCommit(w)
  <2> DEFINE p == req[w].payment
  <2>1. /\ p \in Payment /\ payments[p].status = "COMPLETED" /\ payments[p].session = cash[w]
        /\ pc[w] # "pay-commit"
    BY <1>0, <1>7 DEF BooksInv, DecisionsStand, Stands, CancelCommit, TypeInv, ReqOK,
                      CancelPc, CancelReq
  <2>2. payments' = [payments EXCEPT ![p].status = "CANCELLED"]
    BY <1>7 DEF CancelCommit
  <2>3. /\ A[p] = (IF cash[w] = s THEN SumFunction(payments[p].alloc) ELSE 0) /\ B[p] = 0
        /\ payments[p].alloc \in [Fee -> Nat]
        /\ \A q \in Payment : q # p => payments'[q] = payments[q]
    BY <1>1, <2>1, <2>2 DEF CashOf, PaymentRow
  <2>4. SumFunction(payments[p].alloc) \in Nat
    BY <1>a, <2>3
  <2> HIDE DEF A, B, p
  <2>5. SumFunction(B) = SumFunction(A)
          - (IF cash[w] = s THEN SumFunction(payments[p].alloc) ELSE 0)
    BY <1>4, <1>5, <2>1, <2>3, <2>4
  <2> QED BY <1>3, <1>4, <1>7, <2>1, <2>4, <2>5 DEF PayCommit, p
<1>8. CASE ~ PayCommit(w) /\ ~ CancelCommit(w)
  <2>1. UNCHANGED payments
    BY <1>8, Writers
  <2> QED BY <1>3, <1>4, <1>8, <2>1
<1> QED BY <1>6, <1>7, <1>8

\* The flows of a session move by the amount of a movement recorded in it.
LEMMA FlowsChange ==
  ASSUME BooksInv, NEW w \in Worker, Acts(w), NEW s \in Session
  PROVE  /\ Flows(movements, s) \in Int /\ Flows(movements', s) \in Int
         /\ MoveCommit(w) => Flows(movements', s) = Flows(movements, s)
                               + (IF req[w].session = s THEN req[w].amount ELSE 0)
         /\ ~ MoveCommit(w) => Flows(movements', s) = Flows(movements, s)
<1>0. TypeInv /\ TypeInv'
  BY TypeStep DEF BooksInv, Next, Acts
<1>1. movements \in [Movement -> MovementRow] /\ movements' \in [Movement -> MovementRow]
  BY <1>0 DEF TypeInv, TypeOK
<1> DEFINE A == FlowOf(movements, s)
           B == FlowOf(movements', s)
<1>2. A \in [Movement -> Int] /\ B \in [Movement -> Int]
  BY <1>1 DEF FlowOf, MovementRow
<1>3. Flows(movements, s) = SumFunction(A) /\ Flows(movements', s) = SumFunction(B)
  BY DEF Flows
<1>4. SumFunction(A) \in Int /\ SumFunction(B) \in Int
  <2> HIDE DEF A, B
  <2> QED BY <1>2, SumType, FiniteAssumption
<1>5. CASE MoveCommit(w)
  <2>1. PICK m \in Movement :
          /\ movements[m].session = Null
          /\ movements' = [movements EXCEPT ![m] =
               [session |-> req[w].session, key |-> req[w].key, amount |-> req[w].amount]]
    BY <1>5 DEF MoveCommit
  <2>2. /\ A[m] = 0 /\ B[m] = (IF req[w].session = s THEN req[w].amount ELSE 0)
        /\ \A n \in Movement : n # m => B[n] = A[n]
    BY <1>1, <2>1, NullAssumption DEF FlowOf
  <2>3. req[w].amount \in Int
    BY <1>0, <1>5, AmountAssumption DEF MoveCommit, TypeInv, ReqOK, MovePc, MoveReq
  <2> HIDE DEF A, B
  <2>4. SumFunction(B) = SumFunction(A) + B[m] - A[m]
    BY <1>2, <2>2, SumChange, FiniteAssumption
  <2> QED BY <1>3, <1>4, <1>5, <2>2, <2>3, <2>4
<1>6. CASE ~ MoveCommit(w)
  <2>1. UNCHANGED movements
    BY <1>6, Writers
  <2> QED BY <1>3, <1>4, <1>6, <2>1
<1> QED BY <1>5, <1>6

\* Only an open session takes movements, and opening is the only way out of NONE.
LEMMA RowsOfSessionsStep ==
  ASSUME BooksInv, RowsOfSessions, NEW w \in Worker, Acts(w)
  PROVE  RowsOfSessions'
<1>0. TypeInv /\ sessions \in [Session -> SessionRow]
  BY DEF BooksInv, TypeInv, TypeOK
<1> SUFFICES ASSUME NEW s \in Session, sessions'[s].status = "NONE"
             PROVE  /\ sessions'[s] = NoSession
                    /\ \A m \in Movement : movements'[m].session # s
  BY DEF RowsOfSessions
<1>1. sessions'[s] = sessions[s]
  <2>1. CASE OpenCommit(w)
    BY <1>0, <2>1 DEF OpenCommit
  <2>2. CASE CloseCommit(w)
    BY <1>0, <2>2 DEF CloseCommit, SessionRow
  <2> QED BY <2>1, <2>2, Writers
<1>2. ~ MoveCommit(w) \/ req[w].session # s
  BY <1>1 DEF BooksInv, DecisionsStand, Stands, MoveCommit
<1>3. \A m \in Movement : movements'[m].session = s => movements'[m] = movements[m]
  BY <1>2, MovementsStay
<1> QED BY <1>1, <1>3 DEF RowsOfSessions

LedgerInv == KeysInv /\ RowsOfSessions

\* A function that changes at one place only.
LEMMA ChangedAt ==
  ASSUME NEW S, NEW f, NEW g, NEW x \in S, f = [t \in S |-> f[t]], g = [t \in S |-> g[t]],
         \A t \in S : t # x => g[t] = f[t]
  PROVE  g = [f EXCEPT ![x] = g[x]]
OBVIOUS

\* Every transaction that commits is a step of the till, or shows it nothing.
LEMMA LedgerMoves ==
  ASSUME LedgerInv, NEW w \in Worker, Acts(w)
  PROVE  Ledger!Next \/ UNCHANGED Ledger!vars
<1>0. /\ BooksInv /\ InsertsAlone /\ RowsOfSessions /\ TypeInv
      /\ sessions \in [Session -> SessionRow]
      /\ payments \in [Payment -> PaymentRow]
  BY DEF LedgerInv, KeysInv, BooksInv, TypeInv, TypeOK
<1> DEFINE st == [t \in Session |-> sessions[t].status]
           ho == [t \in Session |-> sessions[t].cashier]
           ta == [t \in Session |-> SumFunction(CashOf(payments, t))]
           fl == [t \in Session |-> sessions[t].opening + SumFunction(FlowOf(movements, t))]
           se == [t \in Session |-> sessions[t].expected]
<1>1. \A t \in Session :
        /\ ta[t] = Takings(payments, t) /\ ta'[t] = Takings(payments', t)
        /\ fl[t] = sessions[t].opening + Flows(movements, t)
        /\ fl'[t] = sessions'[t].opening + Flows(movements', t)
        /\ Takings(payments, t) \in Nat /\ Takings(payments', t) \in Nat
        /\ Flows(movements, t) \in Int /\ Flows(movements', t) \in Int
        /\ sessions[t].opening \in Nat
  BY <1>0, TakingsChange, FlowsChange DEF Takings, Flows, CashOf, FlowOf, SessionRow
<1>a. /\ st = [t \in Session |-> st[t]] /\ st' = [t \in Session |-> st'[t]]
      /\ ho = [t \in Session |-> ho[t]] /\ ho' = [t \in Session |-> ho'[t]]
      /\ ta = [t \in Session |-> ta[t]] /\ ta' = [t \in Session |-> ta'[t]]
      /\ fl = [t \in Session |-> fl[t]] /\ fl' = [t \in Session |-> fl'[t]]
      /\ se = [t \in Session |-> se[t]] /\ se' = [t \in Session |-> se'[t]]
  OBVIOUS
<1>b. \A t \in Session :
        /\ st[t] = sessions[t].status /\ st'[t] = sessions'[t].status
        /\ ho[t] = sessions[t].cashier /\ ho'[t] = sessions'[t].cashier
        /\ se[t] = sessions[t].expected /\ se'[t] = sessions'[t].expected
  OBVIOUS
<1>c. ASSUME UNCHANGED <<st, ho, ta, fl, se>> PROVE UNCHANGED Ledger!vars
  BY <1>c DEF Ledger!vars
<1>g. ASSUME NEW s \in Session,
             \/ Ledger!Open(s) \/ Ledger!Receive(s) \/ Ledger!Refund(s)
             \/ Ledger!PutIn(s) \/ Ledger!TakeOut(s) \/ Ledger!Seal(s)
      PROVE  Ledger!Next
  BY <1>g DEF Ledger!Next
<1>2. CASE OpenCommit(w)
  <2>1. PICK s \in Session :
          /\ sessions[s].status = "NONE"
          /\ sessions' = [sessions EXCEPT ![s] =
               [status |-> "OPEN", cashier |-> req[w].user,
                opening |-> req[w].opening, expected |-> 0, counted |-> 0]]
    BY <1>2 DEF OpenCommit
  <2>2. /\ req[w].user \in User /\ req[w].opening \in Nat
        /\ \A t \in Session : ~ (sessions[t].status = "OPEN" /\ sessions[t].cashier = req[w].user)
    BY <1>0, <1>2, AmountAssumption
    DEF OpenCommit, TypeInv, ReqOK, OpenPc, OpenReq, InsertsAlone, OpenSessions
  <2>3. ~ PayCommit(w) /\ ~ CancelCommit(w) /\ ~ MoveCommit(w)
    BY <1>2 DEF OpenCommit, PayCommit, CancelCommit, MoveCommit
  <2>4. st' = [st EXCEPT ![s] = "OPEN"] /\ ho' = [ho EXCEPT ![s] = req[w].user] /\ se' = se
    <3>1. \A t \in Session : t # s => sessions'[t] = sessions[t]
      BY <1>0, <2>1
    <3>2. sessions'[s] = [status |-> "OPEN", cashier |-> req[w].user,
                          opening |-> req[w].opening, expected |-> 0, counted |-> 0]
      BY <1>0, <2>1
    <3>3. sessions[s].expected = 0
      BY <1>0, <2>1 DEF RowsOfSessions, NoSession
    <3> HIDE DEF st, ho, se
    <3>4. st' = [st EXCEPT ![s] = "OPEN"]
      <4>1. st'[s] = "OPEN" /\ \A t \in Session : t # s => st'[t] = st[t]
        BY <1>b, <3>1, <3>2
      <4> QED BY <1>a, <4>1, ChangedAt
    <3>5. ho' = [ho EXCEPT ![s] = req[w].user]
      <4>1. ho'[s] = req[w].user /\ \A t \in Session : t # s => ho'[t] = ho[t]
        BY <1>b, <3>1, <3>2
      <4> QED BY <1>a, <4>1, ChangedAt
    <3>6. se' = se
      BY <1>a, <1>b, <3>1, <3>2, <3>3
    <3> QED BY <3>4, <3>5, <3>6
  <2>5. \A t \in Session : Takings(payments', t) = Takings(payments, t)
                            /\ Flows(movements', t) = Flows(movements, t)
    BY <1>0, <2>3, TakingsChange, FlowsChange
  <2>6. ta' = ta
    BY <1>1, <2>5
  <2>7. fl' = [fl EXCEPT ![s] = fl'[s]]
    <3>1. \A t \in Session : t # s => fl'[t] = fl[t]
      BY <1>0, <1>1, <2>1, <2>5
    <3> QED BY <3>1
  <2>8. fl'[s] >= 0
    <3>1. FlowOf(movements, s) = [m \in Movement |-> 0]
      BY <1>0, <2>1 DEF RowsOfSessions, FlowOf
    <3>2. Flows(movements, s) = 0
      BY <3>1, SumZero, FiniteAssumption DEF Flows
    <3> QED BY <1>0, <1>1, <2>1, <2>2, <2>5, <3>2
  <2>9. Ledger!Open(s)
    BY <2>1, <2>2, <2>4, <2>6, <2>7, <2>8 DEF Ledger!Open
  <2> QED BY <1>g, <2>9
<1>d. ASSUME UNCHANGED sessions PROVE st' = st /\ ho' = ho /\ se' = se
  BY <1>d
<1>e. ASSUME UNCHANGED sessions, ~ MoveCommit(w) PROVE fl' = fl
  <2>1. \A t \in Session : fl'[t] = fl[t]
    BY <1>0, <1>1, <1>e, FlowsChange
  <2> HIDE DEF fl
  <2> QED BY <1>a, <2>1
<1>f. ASSUME \A t \in Session : Takings(payments', t) = Takings(payments, t) PROVE ta' = ta
  BY <1>1, <1>f
<1>3. CASE CloseCommit(w)
  <2>0. PICK s \in Session : s = req[w].session
    BY <1>0, <1>3 DEF CloseCommit, TypeInv, ReqOK, ClosePc, CloseReq
  <2>1. /\ sessions[s].status = "OPEN" /\ req[w].expected = LiveExpected(s)
    BY <1>0, <1>3, <2>0 DEF CloseCommit, TypeInv, ReqOK, ClosePc, CloseReq, BooksInv, DecisionsStand,
                      Stands
  <2>2. sessions' = [sessions EXCEPT ![s] =
          [sessions[s] EXCEPT !.status = "CLOSED", !.expected = req[w].expected,
                              !.counted = counts[s][req[w].count]]]
    BY <1>3, <2>0 DEF CloseCommit
  <2>3. ~ PayCommit(w) /\ ~ CancelCommit(w) /\ ~ MoveCommit(w)
    BY <1>3 DEF CloseCommit, PayCommit, CancelCommit, MoveCommit
  <2>4. sessions[s] \in SessionRow /\ \A t \in Session : t # s => sessions'[t] = sessions[t]
    BY <1>0, <2>1, <2>2
  <2>5. /\ sessions'[s].status = "CLOSED" /\ sessions'[s].cashier = sessions[s].cashier
        /\ sessions'[s].opening = sessions[s].opening
        /\ sessions'[s].expected = req[w].expected
    BY <1>0, <2>1, <2>2, <2>4 DEF SessionRow
  <2>6. \A t \in Session : Takings(payments', t) = Takings(payments, t)
                            /\ Flows(movements', t) = Flows(movements, t)
    BY <1>0, <2>3, TakingsChange, FlowsChange
  <2>7. req[w].expected = ta[s] + fl[s]
    BY <1>1, <2>1 DEF LiveExpected, Takings, Flows
  <2>8. /\ st' = [st EXCEPT ![s] = "CLOSED"] /\ ho' = ho /\ ta' = ta /\ fl' = fl
        /\ se' = [se EXCEPT ![s] = ta[s] + fl[s]]
    <3> HIDE DEF st, ho, ta, fl, se
    <3>1. st' = [st EXCEPT ![s] = "CLOSED"]
      <4>1. st'[s] = "CLOSED" /\ \A t \in Session : t # s => st'[t] = st[t]
        BY <1>b, <2>1, <2>4, <2>5
      <4> QED BY <1>a, <2>1, <4>1, ChangedAt
    <3>2. ho' = ho
      BY <1>a, <1>b, <2>4, <2>5
    <3>3. ta' = ta
      BY <1>f, <2>6
    <3>4. fl' = fl
      BY <1>a, <1>1, <2>4, <2>5, <2>6
    <3>5. se' = [se EXCEPT ![s] = ta[s] + fl[s]]
      <4>1. se'[s] = ta[s] + fl[s] /\ \A t \in Session : t # s => se'[t] = se[t]
        BY <1>b, <2>1, <2>4, <2>5, <2>7
      <4> QED BY <1>a, <2>1, <4>1, ChangedAt
    <3> QED BY <3>1, <3>2, <3>3, <3>4, <3>5
  <2>9. Ledger!Seal(s)
    BY <2>1, <2>8 DEF Ledger!Seal, Ledger!Balance
  <2> QED BY <1>g, <2>1, <2>9
<1>4. CASE PayCommit(w)
  <2>1. UNCHANGED sessions /\ ~ MoveCommit(w) /\ ~ CancelCommit(w)
    BY <1>4 DEF PayCommit, MoveCommit, CancelCommit
  <2>2. st' = st /\ ho' = ho /\ se' = se /\ fl' = fl
    BY <1>d, <1>e, <2>1
  <2> DEFINE n == SumFunction(req[w].alloc)
  <2>3. /\ cash[w] \in Session => n \in Nat
        /\ \A t \in Session : Takings(payments', t) = Takings(payments, t)
                                  + (IF cash[w] = t THEN n ELSE 0)
    BY <1>0, <1>4, TakingsChange
  <2> HIDE DEF n
  <2>4. CASE cash[w] \notin Session \/ n = 0
    <3>1. \A t \in Session : Takings(payments', t) = Takings(payments, t)
      BY <1>1, <2>3, <2>4
    <3> QED BY <1>c, <1>f, <2>2, <3>1
  <2>5. CASE cash[w] \in Session /\ n # 0
    <3> DEFINE s == cash[w]
    <3>1. s \in Session /\ sessions[s].status = "OPEN"
      BY <1>0, <1>4, <2>5, NullAssumption DEF BooksInv, DecisionsStand, Stands, PayCommit
    <3> HIDE DEF s
    <3>2. ta'[s] > ta[s] /\ \A t \in Session : t # s => ta'[t] = ta[t]
      BY <1>1, <2>3, <2>5, <3>1 DEF s
    <3>3. ta' = [ta EXCEPT ![s] = ta'[s]]
      <4> HIDE DEF ta
      <4> QED BY <1>a, <3>1, <3>2, ChangedAt
    <3>4. Ledger!Receive(s)
      BY <2>2, <3>1, <3>2, <3>3 DEF Ledger!Receive
    <3> QED BY <1>g, <3>1, <3>4
  <2> QED BY <2>4, <2>5
<1>5. CASE CancelCommit(w)
  <2>1. UNCHANGED sessions /\ ~ MoveCommit(w)
    BY <1>5 DEF CancelCommit, MoveCommit
  <2>2. st' = st /\ ho' = ho /\ se' = se /\ fl' = fl
    BY <1>d, <1>e, <2>1
  <2> DEFINE n == SumFunction(payments[req[w].payment].alloc)
  <2>3. /\ cash[w] \in Session => n \in Nat
        /\ \A t \in Session : Takings(payments', t) = Takings(payments, t)
                                  - (IF cash[w] = t THEN n ELSE 0)
    BY <1>0, <1>5, TakingsChange
  <2> HIDE DEF n
  <2>4. CASE cash[w] \notin Session \/ n = 0
    <3>1. \A t \in Session : Takings(payments', t) = Takings(payments, t)
      BY <1>1, <2>3, <2>4
    <3> QED BY <1>c, <1>f, <2>2, <3>1
  <2>5. CASE cash[w] \in Session /\ n # 0
    <3> DEFINE s == cash[w]
    <3>1. s \in Session /\ sessions[s].status = "OPEN"
      BY <1>0, <1>5, <2>5, NullAssumption DEF BooksInv, DecisionsStand, Stands, CancelCommit
    <3> HIDE DEF s
    <3>2. ta'[s] \in 0 .. ta[s] - 1 /\ \A t \in Session : t # s => ta'[t] = ta[t]
      BY <1>1, <2>3, <2>5, <3>1 DEF s
    <3>3. ta' = [ta EXCEPT ![s] = ta'[s]]
      <4> HIDE DEF ta
      <4> QED BY <1>a, <3>1, <3>2, ChangedAt
    <3>4. Ledger!Refund(s)
      BY <2>2, <3>1, <3>2, <3>3 DEF Ledger!Refund
    <3> QED BY <1>g, <3>1, <3>4
  <2> QED BY <2>4, <2>5
<1>6. CASE MoveCommit(w)
  <2>0. PICK s \in Session : s = req[w].session
    BY <1>0, <1>6 DEF MoveCommit, TypeInv, ReqOK, MovePc, MoveReq
  <2> DEFINE n == req[w].amount
  <2>1. /\ n \in Int \ {0} /\ sessions[s].status = "OPEN"
        /\ ~ Overdraws(req[w])
    BY <1>0, <1>6, <2>0, AmountAssumption
    DEF MoveCommit, TypeInv, ReqOK, MovePc, MoveReq, BooksInv, DecisionsStand, Stands
  <2>2. UNCHANGED sessions /\ ~ PayCommit(w) /\ ~ CancelCommit(w)
    BY <1>6 DEF MoveCommit, PayCommit, CancelCommit
  <2>3. \A t \in Session : Takings(payments', t) = Takings(payments, t)
    BY <1>0, <2>2, TakingsChange
  <2>4. st' = st /\ ho' = ho /\ se' = se /\ ta' = ta
    BY <1>d, <1>f, <2>2, <2>3
  <2>5. \A t \in Session : Flows(movements', t) = Flows(movements, t) + (IF s = t THEN n ELSE 0)
    BY <1>0, <1>6, <2>0, FlowsChange
  <2>6. n < 0 => - n <= ta[s] + fl[s]
    BY <1>1, <2>0, <2>1 DEF Overdraws, LiveExpected, Takings, Flows
  <2> HIDE DEF n
  <2>7. /\ fl'[s] = fl[s] + n /\ fl[s] \in Int /\ ta[s] \in Int
        /\ \A t \in Session : t # s => fl'[t] = fl[t]
    BY <1>1, <2>1, <2>2, <2>5
  <2>8. fl' = [fl EXCEPT ![s] = fl'[s]]
    <3> HIDE DEF fl
    <3> QED BY <1>a, <2>1, <2>7, ChangedAt
  <2>9. CASE n > 0
    <3>1. fl'[s] > fl[s]
      BY <2>1, <2>7, <2>9
    <3>2. Ledger!PutIn(s)
      BY <2>1, <2>4, <2>8, <3>1 DEF Ledger!PutIn
    <3> QED BY <1>g, <2>1, <3>2
  <2>10. CASE n < 0
    <3>1. fl'[s] < fl[s] /\ ta[s] + fl'[s] >= 0
      <4> HIDE DEF fl, ta
      <4> QED BY <2>1, <2>6, <2>7, <2>10
    <3>2. Ledger!TakeOut(s)
      BY <2>1, <2>4, <2>8, <3>1 DEF Ledger!TakeOut
    <3> QED BY <1>g, <2>1, <3>2
  <2> QED BY <2>1, <2>9, <2>10
<1>7. CASE ~ (OpenCommit(w) \/ CloseCommit(w) \/ PayCommit(w) \/ CancelCommit(w) \/ MoveCommit(w))
  <2>1. UNCHANGED sessions
    BY <1>7, Writers
  <2>2. \A t \in Session : Takings(payments', t) = Takings(payments, t)
    BY <1>0, <1>7, TakingsChange
  <2> QED BY <1>7, <1>c, <1>d, <1>e, <1>f, <2>1, <2>2
<1> QED BY <1>2, <1>3, <1>4, <1>5, <1>6, <1>7

\* The till starts as the register does: closed, empty and without a cashier.
LEMMA LedgerInit == Init => LedgerInv /\ Ledger!Init
<1> SUFFICES ASSUME Init PROVE LedgerInv /\ Ledger!Init
  OBVIOUS
<1>1. RowsOfSessions
  BY NullAssumption DEF Init, RowsOfSessions, NoMovement
<1>2. KeysInv
  BY BooksInit, InsertsAloneInit DEF KeysInv
<1>3. ASSUME NEW s \in Session
      PROVE  SumFunction(CashOf(payments, s)) = 0 /\ SumFunction(FlowOf(movements, s)) = 0
  <2>1. CashOf(payments, s) = [p \in Payment |-> 0]
    BY DEF Init, CashOf, NoPayment
  <2>2. FlowOf(movements, s) = [m \in Movement |-> 0]
    BY NullAssumption DEF Init, FlowOf, NoMovement
  <2> QED BY <2>1, <2>2, SumZero, FiniteAssumption
<1>4. Ledger!Init
  <2>1. \A s \in Session : /\ sessions[s].status = "NONE" /\ sessions[s].cashier = Null
                            /\ sessions[s].opening = 0 /\ sessions[s].expected = 0
    BY DEF Init, NoSession
  <2> QED BY <1>3, <2>1 DEF Ledger!Init
<1> QED BY <1>1, <1>2, <1>4 DEF LedgerInv

\* Every step of the register maps to a step of the till or to a stutter.
LEMMA LedgerStep == LedgerInv /\ [Next]_vars => LedgerInv' /\ [Ledger!Next]_(Ledger!vars)
<1> SUFFICES ASSUME LedgerInv, [Next]_vars PROVE LedgerInv' /\ [Ledger!Next]_(Ledger!vars)
  OBVIOUS
<1>1. KeysInv'
  BY KeysStep DEF LedgerInv
<1>2. CASE UNCHANGED vars
  BY <1>1, <1>2 DEF vars, LedgerInv, RowsOfSessions, Ledger!vars
<1>3. ASSUME NEW w \in Worker, Acts(w) PROVE LedgerInv' /\ [Ledger!Next]_(Ledger!vars)
  BY <1>1, <1>3, RowsOfSessionsStep, LedgerMoves DEF LedgerInv, KeysInv
<1> QED BY <1>2, <1>3 DEF Next, Acts

\* The concurrent register implements the till its accountant relies on: every
\* transaction that commits is one atomic step of it, for every number of
\* requests, sessions and payments.
THEOREM RegisterImplementsLedger == Spec => ImplementsLedger
<1>1. Spec => Ledger!Init /\ [][Ledger!Next]_(Ledger!vars)
  BY LedgerInit, LedgerStep, PTL DEF Spec
<1> QED BY <1>1 DEF ImplementsLedger, Ledger!Spec

-----------------------------------------------------------------------------
(* Waiting                                                                 *)

\* The converse of LocksHeld: a lock belongs to a request that took it and has
\* not ended, and a fee is only locked for a payment that pays it.
OwnLocks(w) ==
  /\ \A s \in Session : w \in share[s] =>
       pc[w] \in {"pay-fees", "pay-insert", "pay-commit", "cancel-fees"}
  /\ \A s \in Session : w \in excl[s] =>
       pc[w] \in {"move-check", "move-commit", "count-commit", "close-check", "close-commit"}
  /\ \A p \in Payment : w \in payLock[p] => pc[w] \in {"cancel-share", "cancel-fees"}
  /\ \A f \in Fee : w \in feeLock[f] =>
       \/ /\ pc[w] \in {"pay-fees", "pay-insert", "pay-commit"}
          /\ f \in Targets(req[w].alloc)
       \/ /\ pc[w] = "cancel-fees"
          /\ f \in Targets(payments[req[w].payment].alloc)
LocksOwned == \A w \in Worker : OwnLocks(w)

\* A recorded payment carries one of the allocations payments may carry.
AllocsRecorded == \A p \in UsedPayments : payments[p].alloc \in Alloc

\* Allocations stay as they were recorded.
LEMMA AllocKept ==
  ASSUME BooksInv, NEW w \in Worker, Acts(w), NEW p \in Payment, payments[p].status # "NONE"
  PROVE  payments'[p].alloc = payments[p].alloc
<1>1. CASE CancelCommit(w) /\ req[w].payment = p
  <2>1. payments' = [payments EXCEPT ![p].status = "CANCELLED"]
    BY <1>1 DEF CancelCommit
  <2>2. payments \in [Payment -> PaymentRow]
    BY DEF BooksInv, TypeInv, TypeOK
  <2> QED BY <2>1, <2>2 DEF PaymentRow
<1>2. CASE ~ CancelCommit(w) \/ req[w].payment # p
  BY <1>2, PaymentKept DEF BooksInv
<1> QED BY <1>1, <1>2

\* A payment records the allocation of its request.
LEMMA AllocsRecordedStep ==
  ASSUME BooksInv, AllocsRecorded, NEW w \in Worker, Acts(w)
  PROVE  AllocsRecorded'
<1>0. TypeInv /\ payments \in [Payment -> PaymentRow]
  BY DEF BooksInv, TypeInv, TypeOK
<1> SUFFICES ASSUME NEW p \in Payment, payments'[p].status # "NONE"
             PROVE  payments'[p].alloc \in Alloc
  BY DEF AllocsRecorded, UsedPayments
<1>1. CASE payments[p].status # "NONE"
  BY <1>1, AllocKept DEF AllocsRecorded, UsedPayments
<1>2. CASE payments[p].status = "NONE"
  <2>1. ~ CancelCommit(w)
    <3>1. ASSUME CancelCommit(w) PROVE payments[req[w].payment].status = "COMPLETED"
      BY <3>1 DEF BooksInv, DecisionsStand, Stands, CancelCommit
    <3>2. ASSUME CancelCommit(w) PROVE payments'[p] = payments[p]
      BY <1>0, <1>2, <3>1, <3>2 DEF CancelCommit
    <3> QED BY <1>2, <3>2
  <2>2. PayCommit(w)
    BY <1>2, <2>1, Writers
  <2>3. req[w].alloc \in Alloc
    BY <1>0, <2>2 DEF TypeInv, ReqOK, PayPc, PayReq, PayCommit
  <2>4. PICK q \in Payment : payments' = [payments EXCEPT ![q] =
          [status |-> "COMPLETED", key |-> req[w].key, session |-> cash[w],
           alloc |-> req[w].alloc]]
    BY <2>2 DEF PayCommit
  <2> QED BY <1>0, <1>2, <2>3, <2>4
<1> QED BY <1>1, <1>2

\* A step takes no lock for somebody else.
LEMMA OthersGainNothing ==
  ASSUME TypeInv, NEW w \in Worker, Acts(w), NEW v \in Worker, v # w
  PROVE  /\ \A s \in Session : v \in share'[s] => v \in share[s]
         /\ \A s \in Session : v \in excl'[s] => v \in excl[s]
         /\ \A p \in Payment : v \in payLock'[p] => v \in payLock[p]
         /\ \A f \in Fee : v \in feeLock'[f] => v \in feeLock[f]
<1>0. /\ share \in [Session -> SUBSET Worker] /\ excl \in [Session -> SUBSET Worker]
      /\ payLock \in [Payment -> SUBSET Worker] /\ feeLock \in [Fee -> SUBSET Worker]
  BY DEF TypeInv, TypeOK
<1>1. CASE \E o \in Resting : Finish(w, o)
  BY <1>1 DEF Finish, Release
<1>2. \A f \in Fee : v \in feeLock'[f] => v \in feeLock[f]
  <2>1. CASE LockFee(w)
    <3>1. PICK f \in FeesOf(w) : feeLock' = [feeLock EXCEPT ![f] = @ \cup {w}]
      BY <2>1 DEF LockFee
    <3> QED BY <1>0, <3>1
  <2> QED BY <1>1, <2>1, FeeLockChanges
<1>3. CASE UNCHANGED <<share, excl, payLock>>
  BY <1>2, <1>3
<1>4. CASE Sharing(w)
  BY <1>0, <1>2, <1>4 DEF Sharing
<1>5. CASE LockSession(w)
  <2>1. PICK t : excl' = [excl EXCEPT ![t] = @ \cup {w}] /\ UNCHANGED <<share, payLock>>
    BY <1>5 DEF LockSession
  <2> QED BY <1>0, <1>2, <2>1
<1>6. CASE payLock' = [payLock EXCEPT ![req[w].payment] = @ \cup {w}] /\ UNCHANGED <<share, excl>>
  BY <1>0, <1>2, <1>6
<1> QED BY <1>1, <1>3, <1>4, <1>5, <1>6, LockChanges

\* The locks of the other requests stay theirs.
LEMMA OthersOwn ==
  ASSUME BooksInv, LocksOwned, NEW w \in Worker, Acts(w), NEW v \in Worker, v # w
  PROVE  OwnLocks(v)'
<1>0. TypeInv
  BY DEF BooksInv
<1>1. OwnLocks(v) /\ pc'[v] = pc[v] /\ req'[v] = req[v]
  BY <1>0, OthersKeep DEF LocksOwned
<1>2. pc[v] = "cancel-fees" => payments'[req[v].payment].alloc = payments[req[v].payment].alloc
  <2> SUFFICES ASSUME pc[v] = "cancel-fees"
               PROVE  payments'[req[v].payment].alloc = payments[req[v].payment].alloc
    OBVIOUS
  <2>1. req[v].payment \in Payment /\ payments[req[v].payment].status = "COMPLETED"
    BY <1>0 DEF BooksInv, DecisionsStand, Stands, TypeInv, ReqOK, CancelPc, CancelReq
  <2> QED BY <2>1, AllocKept
<1> QED BY <1>0, <1>1, <1>2, OthersGainNothing DEF OwnLocks, Targets

\* A request takes its locks where LocksOwned says it holds them.
LEMMA SelfOwns ==
  ASSUME BooksInv, LocksOwned, NEW w \in Worker, Acts(w)
  PROVE  OwnLocks(w)'
<1> USE DEF Resting
<1>0. /\ TypeInv /\ OwnLocks(w) /\ pc \in [Worker -> Pc]
      /\ share \in [Session -> SUBSET Worker] /\ excl \in [Session -> SUBSET Worker]
      /\ payLock \in [Payment -> SUBSET Worker] /\ feeLock \in [Fee -> SUBSET Worker]
  BY DEF BooksInv, TypeInv, TypeOK, LocksOwned
<1>1. ASSUME NEW o \in Resting, Finish(w, o) PROVE OwnLocks(w)'
  BY <1>1 DEF Finish, Release, OwnLocks
<1>2. ASSUME UNCHANGED locks,
             pc[w] \in Resting \cup OpenPc \cup {"pay-lookup", "pay-find", "pay-share"}
      PROVE  OwnLocks(w)'
  BY <1>0, <1>2 DEF locks, OwnLocks, OpenPc
<1>3. CASE Arrive(w)
  <2>1. pc[w] \in Resting /\ UNCHANGED locks
    BY <1>3 DEF Arrive, AskOpen, AskPay, AskCancel, AskMove, AskCount, AskClose, AskAdjust,
                Ask, locks
  <2> QED BY <1>2, <2>1
<1>4. CASE OpenCheck(w) \/ OpenInsert(w) \/ PayLookup(w) \/ PayFind(w)
  BY <1>1, <1>2, <1>4
  DEF OpenCheck, OpenInsert, PayLookup, PayFind, PayWithoutSession, Reject, OpenPc
<1>5. CASE PayShare(w)
  <2>1. CASE PayWithoutSession(w)
    BY <1>1, <1>2, <1>5, <2>1 DEF PayShare, PayWithoutSession, Reject
  <2>2. CASE ~ PayWithoutSession(w)
    BY <1>0, <1>5, <2>2 DEF PayShare, GoTo, OwnLocks
  <2> QED BY <2>1, <2>2
<1>6. CASE PayCheck(w) \/ PayInsert(w)
  BY <1>0, <1>1, <1>6 DEF PayCheck, PayInsert, Reject, GoTo, OwnLocks, locks
<1>7. CASE LockFee(w)
  <2>1. PICK f \in FeesOf(w) : feeLock' = [feeLock EXCEPT ![f] = @ \cup {w}]
    BY <1>7 DEF LockFee
  <2>2. /\ pc[w] \in {"pay-fees", "cancel-fees"}
        /\ UNCHANGED <<payments, share, excl, payLock, pc, req>>
    BY <1>7 DEF LockFee, db
  <2> QED BY <1>0, <2>1, <2>2 DEF OwnLocks, FeesOf, Targets
<1>8. CASE CancelLock(w)
  BY <1>0, <1>1, <1>8 DEF CancelLock, Reject, GoTo, OwnLocks
<1>9. CASE CancelShare(w)
  BY <1>0, <1>1, <1>9 DEF CancelShare, Reject, GoTo, OwnLocks
<1>10. CASE LockSession(w)
  <2>1. AfterLock[pc[w]] \in {"move-check", "count-commit", "close-check"}
    BY <1>10 DEF LockSession, AfterLock
  <2>2. pc[w] \in {"move-lock", "count-lock", "close-lock"}
    BY <1>10 DEF LockSession, AfterLock
  <2> QED BY <1>0, <1>10, <2>1, <2>2 DEF LockSession, GoTo, OwnLocks
<1>11. CASE MoveCheck(w) \/ CloseCheck(w)
  BY <1>0, <1>1, <1>11 DEF MoveCheck, CloseCheck, Reject, GoTo, OwnLocks, locks
<1>12. CASE OpenCommit(w) \/ PayCommit(w) \/ CancelCommit(w) \/ MoveCommit(w)
              \/ CountCommit(w) \/ CloseCommit(w) \/ Adjust(w) \/ Abort(w)
  BY <1>1, <1>12 DEF OpenCommit, PayCommit, CancelCommit, MoveCommit, CountCommit,
                     CloseCommit, Adjust, Abort, Reject
<1> QED BY <1>3, <1>4, <1>5, <1>6, <1>7, <1>8, <1>9, <1>10, <1>11, <1>12 DEF Acts, Step

WaitInv == BooksInv /\ LocksOwned /\ AllocsRecorded

\* Locks are owned by requests that will end, through every step.
LEMMA WaitStep == WaitInv /\ [Next]_vars => WaitInv'
<1> SUFFICES ASSUME WaitInv, [Next]_vars PROVE WaitInv'
  OBVIOUS
<1>1. BooksInv'
  BY BooksStep DEF WaitInv
<1>2. CASE UNCHANGED vars
  BY <1>1, <1>2 DEF vars, WaitInv, LocksOwned, OwnLocks, AllocsRecorded, UsedPayments
<1>3. ASSUME NEW w \in Worker, Acts(w) PROVE WaitInv'
  BY <1>1, <1>3, SelfOwns, OthersOwn, AllocsRecordedStep DEF WaitInv, LocksOwned
<1> QED BY <1>2, <1>3 DEF Next, Acts

\* The inductive invariant of the waits.
THEOREM WaitInvariant == Spec => []WaitInv
<1>1. Init => WaitInv
  BY BooksInit DEF Init, WaitInv, LocksOwned, OwnLocks, AllocsRecorded, UsedPayments, NoPayment
<1> QED BY <1>1, WaitStep, PTL DEF Spec

\* When each payment pays one fee, nobody waits in a circle: a request in front
\* of its commit waits for nobody; a request that locked its fee waits for such
\* requests only; sessions and payments are locked before fees.
LEMMA NoCircle ==
  ASSUME \A a \in Alloc : \A f, g \in Targets(a) : f = g, WaitInv,
         NEW S \in SUBSET Worker, \A w \in S : Blockers(w) # {} /\ Blockers(w) \subseteq S
  PROVE  S = {}
<1>0. BooksInv /\ TypeInv /\ LocksOwned /\ AllocsRecorded /\ pc \in [Worker -> Pc]
  BY DEF WaitInv, BooksInv, TypeInv, TypeOK
<1>1. \A w \in S : \E v \in S : v \in Blockers(w)
  OBVIOUS
<1>2. \A w \in S : pc[w] \in {"pay-share", "cancel-share", "move-lock", "count-lock",
        "close-lock", "cancel-lock", "adjust", "pay-fees", "cancel-fees", "pay-insert",
        "open-insert"}
  BY <1>1 DEF Blockers
<1>3. \A w \in S : pc[w] \notin {"pay-insert", "open-insert"}
  <2>1. ASSUME NEW w \in S, pc[w] = "pay-insert" PROVE FALSE
    BY <1>1, <1>2, <2>1 DEF Blockers
  <2>2. ASSUME NEW w \in S, pc[w] = "open-insert" PROVE FALSE
    BY <1>1, <1>2, <2>2 DEF Blockers
  <2> QED BY <2>1, <2>2
\* Whoever holds a fee is in front of its insert or its commit, or has all its fees.
<1>4. ASSUME NEW v \in S, NEW f \in Fee, v \in feeLock[f] PROVE FALSE
  <2>1. pc[v] \in {"pay-fees", "cancel-fees"} /\ f \in FeesOf(v)
    BY <1>0, <1>2, <1>3, <1>4 DEF LocksOwned, OwnLocks, FeesOf
  <2>2. \A g \in FeesOf(v) : g = f
    <3>1. CASE pc[v] = "pay-fees"
      <4>1. req[v].alloc \in Alloc
        BY <1>0, <3>1 DEF TypeInv, ReqOK, PayPc, PayReq
      <4> QED BY <2>1, <3>1, <4>1 DEF FeesOf
    <3>2. CASE pc[v] = "cancel-fees"
      <4>1. req[v].payment \in UsedPayments
        BY <1>0, <3>2 DEF BooksInv, DecisionsStand, Stands, TypeInv, ReqOK, CancelPc, CancelReq,
                          UsedPayments
      <4>2. payments[req[v].payment].alloc \in Alloc
        BY <1>0, <4>1 DEF AllocsRecorded
      <4> QED BY <2>1, <3>2, <4>2 DEF FeesOf
    <3> QED BY <2>1, <3>1, <3>2
  <2> DEFINE missing == {g \in FeesOf(v) : v \notin feeLock[g]}
  <2>3. missing = {}
    BY <1>4, <2>2
  <2>4. Blockers(v) = IF \E g \in missing : FreeOf(feeLock, g, v) THEN {}
                      ELSE UNION {feeLock[g] : g \in missing}
    BY <2>1 DEF Blockers
  <2>5. Blockers(v) = {}
    BY <2>3, <2>4
  <2> QED BY <1>1, <2>5
<1>5. \A w \in S : pc[w] \notin {"pay-fees", "cancel-fees"}
  <2> SUFFICES ASSUME NEW w \in S, pc[w] \in {"pay-fees", "cancel-fees"} PROVE FALSE
    OBVIOUS
  <2>1. PICK v \in S : v \in Blockers(w)
    BY <1>1
  <2> DEFINE missing == {g \in FeesOf(w) : w \notin feeLock[g]}
  <2>2. Blockers(w) = IF \E g \in missing : FreeOf(feeLock, g, w) THEN {}
                      ELSE UNION {feeLock[g] : g \in missing}
    BY DEF Blockers
  <2>3. PICK g \in missing : v \in feeLock[g]
    BY <2>1, <2>2
  <2>4. g \in Fee
    BY <2>3 DEF FeesOf, Targets
  <2> QED BY <1>4, <2>3, <2>4
<1>6. \A w \in S : pc[w] # "adjust"
  <2> SUFFICES ASSUME NEW w \in S, pc[w] = "adjust" PROVE FALSE
    OBVIOUS
  <2>1. req[w].fee \in Fee /\ Blockers(w) = feeLock[req[w].fee] \ {w}
    BY <1>0 DEF Blockers, TypeInv, ReqOK, AdjustReq
  <2> QED BY <1>1, <1>4, <2>1
\* Whoever holds a session for update waits for nobody.
<1>7. ASSUME NEW v \in S, NEW s \in Session, v \in excl[s] PROVE FALSE
  BY <1>0, <1>2, <1>7 DEF LocksOwned, OwnLocks
<1>8. \A w \in S : pc[w] \notin {"pay-share", "cancel-share"}
  <2> SUFFICES ASSUME NEW w \in S, pc[w] \in {"pay-share", "cancel-share"} PROVE FALSE
    OBVIOUS
  <2>1. cash[w] \in Session /\ Blockers(w) = excl[cash[w]] \ {w}
    BY <1>0 DEF Blockers, TypeInv, ReqOK
  <2> QED BY <1>1, <1>7, <2>1
<1>9. \A w \in S : pc[w] \notin {"move-lock", "count-lock", "close-lock"}
  <2> SUFFICES ASSUME NEW w \in S, pc[w] \in {"move-lock", "count-lock", "close-lock"}
               PROVE  FALSE
    OBVIOUS
  <2>1. /\ req[w].session \in Session
        /\ Blockers(w) = (excl[req[w].session] \cup share[req[w].session]) \ {w}
    BY <1>0 DEF Blockers, TypeInv, ReqOK, MovePc, CountPc, ClosePc, MoveReq, CountReq, CloseReq
  <2>2. PICK v \in S : v \in share[req[w].session]
    BY <1>1, <1>7, <2>1
  <2>3. pc[v] \in {"pay-fees", "pay-insert", "pay-commit", "cancel-fees"}
    BY <1>0, <2>1, <2>2 DEF LocksOwned, OwnLocks
  <2> QED BY <1>2, <1>3, <1>5, <2>3
<1>10. \A w \in S : pc[w] # "cancel-lock"
  <2> SUFFICES ASSUME NEW w \in S, pc[w] = "cancel-lock" PROVE FALSE
    OBVIOUS
  <2>1. req[w].payment \in Payment /\ Blockers(w) = payLock[req[w].payment] \ {w}
    BY <1>0 DEF Blockers, TypeInv, ReqOK, CancelPc, CancelReq
  <2>2. PICK v \in S : v \in payLock[req[w].payment]
    BY <1>1, <2>1
  <2>3. pc[v] \in {"cancel-share", "cancel-fees"}
    BY <1>0, <2>1, <2>2 DEF LocksOwned, OwnLocks
  <2> QED BY <1>5, <1>8, <2>3
<1> QED BY <1>2, <1>3, <1>5, <1>6, <1>8, <1>9, <1>10

\* Transactions never wait for each other in a circle as long as each payment
\* pays one fee: payments are locked before sessions, sessions before fees, fees
\* before keys.  A payment of two fees breaks it (SELECT ... FOR UPDATE without
\* ORDER BY in record_payment), which is why the hypothesis is there.
THEOREM NeverDeadlocked ==
  ASSUME \A a \in Alloc : \A f, g \in Targets(a) : f = g
  PROVE  Spec => []NoDeadlock
<1>1. WaitInv => NoDeadlock
  BY NoCircle DEF NoDeadlock, Deadlocked
<1> QED BY <1>1, WaitInvariant, PTL
=============================================================================
