---------------------------- MODULE CashRegister ----------------------------
(***************************************************************************)
(* The cash register and the payments of one school, at the level of the   *)
(* database transactions of the API (modules/cash, modules/fees).          *)
(*                                                                         *)
(* A worker is one HTTP request in progress: a READ COMMITTED transaction  *)
(* whose statements are the steps of this module.  Rows are the committed  *)
(* ones; what a transaction wrote becomes visible in its commit step, and  *)
(* row locks (FOR SHARE, FOR UPDATE) are held until it ends.  Amounts are  *)
(* whole units of the school's currency.                                   *)
(***************************************************************************)
EXTENDS Integers, Sequences, FiniteSets, Functions

CONSTANTS
  Worker,      \* requests that can be in progress at the same time
  User,        \* accounts that open sessions and record payments
  Session,     \* ids of cash_sessions rows
  Payment,     \* ids of payments rows
  Movement,    \* ids of cash_movements rows
  Fee,         \* ids of student_fees rows
  Key,         \* idempotency keys chosen by the clients
  Mode,        \* how payments are recorded, see PayReq
  Due,         \* amount_due of each fee when it is generated
  Alloc,       \* the allocations payments may carry, [Fee -> Nat]
  Opening,     \* opening amounts
  Flow,        \* amounts of movements: positive IN, negative OUT
  CountTotal,  \* totals a physical count may give
  NewDue,      \* amounts PATCH /student-fees may set
  MaxCounts,   \* bound on the counts of one session
  Null

ASSUME NullAssumption ==
  /\ Null \notin Session
  /\ Null \notin Key
  /\ Null \notin User
ASSUME AmountAssumption ==
  /\ Mode \subseteq {"cashier", "cash", "other"}
  /\ Due \in [Fee -> Nat \ {0}]
  /\ Alloc \subseteq [Fee -> Nat]
  /\ Opening \subseteq Nat
  /\ Flow \subseteq Int \ {0}
  /\ CountTotal \subseteq Nat
  /\ NewDue \subseteq Nat \ {0}
  /\ MaxCounts \in Nat
\* A database holds finitely many rows: their sums are defined.
ASSUME FiniteAssumption ==
  /\ IsFiniteSet(Payment)
  /\ IsFiniteSet(Movement)
  /\ IsFiniteSet(Fee)

VARIABLES
  sessions,   \* cash_sessions rows
  counts,     \* cash_counts totals of each session, in counted_at order
  payments,   \* payments rows with their allocations
  movements,  \* cash_movements rows
  fees,       \* student_fees rows
  share,      \* share[s]: workers holding session s FOR SHARE
  excl,       \* excl[s]: workers holding session s FOR UPDATE
  payLock,    \* payLock[p]: workers holding payment p FOR UPDATE
  feeLock,    \* feeLock[f]: workers holding fee f FOR UPDATE
  pc,         \* next statement of each worker
  req,        \* the request each worker serves
  cash        \* the session a payment or a cancellation works on

db == <<sessions, counts, payments, movements, fees>>
locks == <<share, excl, payLock, feeLock>>
vars == <<sessions, counts, payments, movements, fees,
          share, excl, payLock, feeLock, pc, req, cash>>

-----------------------------------------------------------------------------
(* Rows and requests                                                       *)

SessionRow == [status : {"NONE", "OPEN", "CLOSED"}, cashier : User \cup {Null},
               opening : Nat, expected : Int, counted : Nat]
PaymentRow == [status : {"NONE", "COMPLETED", "CANCELLED"},
               key : Key \cup {Null}, session : Session \cup {Null},
               alloc : [Fee -> Nat]]
MovementRow == [session : Session \cup {Null}, key : Key \cup {Null},
                amount : Int]
FeeRow == [due : Nat \ {0}, status : {"PENDING", "PARTIALLY_PAID", "PAID"}]

NoSession == [status |-> "NONE", cashier |-> Null, opening |-> 0,
              expected |-> 0, counted |-> 0]
NoPayment == [status |-> "NONE", key |-> Null, session |-> Null,
              alloc |-> [f \in Fee |-> 0]]
NoMovement == [session |-> Null, key |-> Null, amount |-> 0]

OpenReq == [op : {"open"}, user : User, opening : Opening]
\* "cashier": a CAISSIER, who must have an open session; "cash": another role
\* recording cash; "other": another payment method, never attached.
PayReq == [op : {"pay"}, user : User, key : Key, alloc : Alloc, mode : Mode]
CancelReq == [op : {"cancel"}, payment : Payment]
MoveReq == [op : {"move"}, session : Session, key : Key, amount : Flow]
CountReq == [op : {"count"}, session : Session, total : CountTotal]
\* justified: a variance reason and a note come with the request.
CloseReq == [op : {"close"}, session : Session, count : Nat, expected : Int,
             justified : BOOLEAN]
AdjustReq == [op : {"adjust"}, fee : Fee, due : NewDue]
NoReq == [op |-> "none"]

Request == OpenReq \cup PayReq \cup CancelReq \cup MoveReq \cup CountReq
             \cup CloseReq \cup AdjustReq

FirstStep == [open |-> "open-check", pay |-> "pay-lookup",
              cancel |-> "cancel-lock", move |-> "move-lock",
              count |-> "count-lock", close |-> "close-lock",
              adjust |-> "adjust"]
AfterLock == [l \in {"move-lock", "count-lock", "close-lock"} |->
  CASE l = "move-lock" -> "move-check"
    [] l = "count-lock" -> "count-commit"
    [] l = "close-lock" -> "close-check"]
Resting == {"idle", "rejected"}
OpenPc == {"open-check", "open-insert", "open-commit"}
PayPc == {"pay-lookup", "pay-find", "pay-share", "pay-fees", "pay-insert",
          "pay-commit"}
CancelPc == {"cancel-lock", "cancel-share", "cancel-fees"}
MovePc == {"move-lock", "move-check", "move-commit"}
CountPc == {"count-lock", "count-commit"}
ClosePc == {"close-lock", "close-check", "close-commit"}
Pc == Resting \cup OpenPc \cup PayPc \cup CancelPc \cup MovePc \cup CountPc
        \cup ClosePc \cup {"adjust"}

-----------------------------------------------------------------------------
(* Sums the code asks the database for                                     *)

\* The completed payments attached to s, as rows of ps.
CashOf(ps, s) == [p \in Payment |->
  IF ps[p].status = "COMPLETED" /\ ps[p].session = s
  THEN SumFunction(ps[p].alloc) ELSE 0]
FlowOf(ms, s) == [m \in Movement |-> IF ms[m].session = s THEN ms[m].amount ELSE 0]

\* RULE of the theoretical balance, always recomputed from the rows.
LiveExpected(s) ==
  sessions[s].opening + SumFunction(CashOf(payments, s))
    + SumFunction(FlowOf(movements, s))

\* An outgoing movement larger than the balance of its session.
Overdraws(m) == m.amount < 0 /\ - m.amount > LiveExpected(m.session)

\* The active allocations of fee f, as rows of ps.
ActiveOf(ps, f) == [p \in Payment |->
  IF ps[p].status = "COMPLETED" THEN ps[p].alloc[f] ELSE 0]
Paid(ps, f) == SumFunction(ActiveOf(ps, f))

\* Faulty variant: a fee that is no longer paid at all becomes cancelled.
FeeStatusVoided(paid, due) ==
  IF paid <= 0 THEN "CANCELLED" ELSE IF paid < due THEN "PARTIALLY_PAID" ELSE "PAID"

FeeStatus(paid, due) ==
  IF paid <= 0 THEN "PENDING" ELSE IF paid < due THEN "PARTIALLY_PAID" ELSE "PAID"

\* _refresh_student_fee_status on the fees of F, payments being ps.
Refreshed(ps, F) == [f \in Fee |->
  IF f \in F THEN [fees[f] EXCEPT !.status = FeeStatus(Paid(ps, f), fees[f].due)]
  ELSE fees[f]]

OpenSessions(u) ==
  {s \in Session : sessions[s].status = "OPEN" /\ sessions[s].cashier = u}
KeyUsed(k) == \E p \in Payment : payments[p].status # "NONE" /\ payments[p].key = k
Targets(alloc) == {f \in Fee : alloc[f] > 0}

\* The fees a payment or a cancellation must lock before it commits.
FeesOf(w) ==
  IF pc[w] = "pay-fees" THEN Targets(req[w].alloc)
  ELSE Targets(payments[req[w].payment].alloc)
FeesLocked(w) == \A f \in FeesOf(w) : w \in feeLock[f]
\* No other transaction holds row x in lock.
FreeOf(lock, x, w) == lock[x] \subseteq {w}

-----------------------------------------------------------------------------
Init ==
  /\ sessions = [s \in Session |-> NoSession]
  /\ counts = [s \in Session |-> <<>>]
  /\ payments = [p \in Payment |-> NoPayment]
  /\ movements = [m \in Movement |-> NoMovement]
  /\ fees = [f \in Fee |-> [due |-> Due[f], status |-> "PENDING"]]
  /\ share = [s \in Session |-> {}]
  /\ excl = [s \in Session |-> {}]
  /\ payLock = [p \in Payment |-> {}]
  /\ feeLock = [f \in Fee |-> {}]
  /\ pc = [w \in Worker |-> "idle"]
  /\ req = [w \in Worker |-> NoReq]
  /\ cash = [w \in Worker |-> Null]

GoTo(w, label) == pc' = [pc EXCEPT ![w] = label]

\* Faulty variant: the locks on fees outlive their transaction.
ReleaseKeepingFees(w) ==
  /\ share' = [s \in Session |-> share[s] \ {w}]
  /\ excl' = [s \in Session |-> excl[s] \ {w}]
  /\ payLock' = [p \in Payment |-> payLock[p] \ {w}]
  /\ UNCHANGED feeLock

\* The end of a transaction: every row lock is released.
Release(w) ==
  /\ share' = [s \in Session |-> share[s] \ {w}]
  /\ excl' = [s \in Session |-> excl[s] \ {w}]
  /\ payLock' = [p \in Payment |-> payLock[p] \ {w}]
  /\ feeLock' = [f \in Fee |-> feeLock[f] \ {w}]

Finish(w, outcome) ==
  /\ GoTo(w, outcome)
  /\ req' = [req EXCEPT ![w] = NoReq]
  /\ cash' = [cash EXCEPT ![w] = Null]
  /\ Release(w)

\* An HTTPException before anything was written: rollback and a 4xx answer.
Reject(w) == Finish(w, "rejected") /\ UNCHANGED db

\* A rollback that no rule of the code asked for: a failing upload, statement
\* or process.  The client gets no usable answer.
Abort(w) ==
  /\ pc[w] \notin Resting
  /\ Finish(w, "idle")
  /\ UNCHANGED db

-----------------------------------------------------------------------------
(* Requests arriving.  The bounds are the sizes of the id sets.            *)

Ask(w, r) ==
  /\ pc[w] \in Resting
  /\ r \in Request
  /\ GoTo(w, FirstStep[r.op])
  /\ req' = [req EXCEPT ![w] = r]
  /\ UNCHANGED <<db, locks, cash>>

InFlight(op) == {w \in Worker : req[w].op = op}
RoomFor(used, op, ids) == Cardinality(used) + Cardinality(InFlight(op)) < Cardinality(ids)

UsedSessions == {s \in Session : sessions[s].status # "NONE"}
UsedPayments == {p \in Payment : payments[p].status # "NONE"}
UsedMovements == {m \in Movement : movements[m].session # Null}

AskOpen(w) == \E u \in User, o \in Opening :
  /\ RoomFor(UsedSessions, "open", Session)
  /\ Ask(w, [op |-> "open", user |-> u, opening |-> o])
AskPay(w) == \E u \in User, k \in Key, a \in Alloc, m \in Mode :
  /\ KeyUsed(k) \/ RoomFor(UsedPayments, "pay", Payment)
  /\ Ask(w, [op |-> "pay", user |-> u, key |-> k, alloc |-> a, mode |-> m])
AskCancel(w) == \E p \in UsedPayments : Ask(w, [op |-> "cancel", payment |-> p])
AskMove(w) == \E s \in UsedSessions, k \in Key, a \in Flow :
  /\ RoomFor(UsedMovements, "move", Movement)
  /\ Ask(w, [op |-> "move", session |-> s, key |-> k, amount |-> a])
AskCount(w) == \E s \in UsedSessions, t \in CountTotal :
  /\ Len(counts[s]) + Cardinality(InFlight("count")) < MaxCounts
  /\ Ask(w, [op |-> "count", session |-> s, total |-> t])
\* The count and the balance are those the client was shown; the request is
\* served later, when both may have changed.
AskClose(w) == \E s \in UsedSessions, j \in BOOLEAN : \E c \in 1 .. Len(counts[s]) :
  Ask(w, [op |-> "close", session |-> s, count |-> c,
          expected |-> LiveExpected(s), justified |-> j])
AskAdjust(w) == \E f \in Fee, d \in NewDue :
  Ask(w, [op |-> "adjust", fee |-> f, due |-> d])

Arrive(w) == AskOpen(w) \/ AskPay(w) \/ AskCancel(w) \/ AskMove(w)
               \/ AskCount(w) \/ AskClose(w) \/ AskAdjust(w)

-----------------------------------------------------------------------------
(* Faulty variants of the statements below, each a plausible mistake that  *)
(* one of the properties must reveal.                                      *)

\* No partial unique index on open sessions.
OpenInsertUnchecked(w) ==
  /\ pc[w] = "open-insert"
  /\ GoTo(w, "open-commit")
  /\ UNCHANGED <<db, locks, req, cash>>

\* The session of a payment is read without FOR SHARE.
PayShareUnlocked(w) ==
  /\ pc[w] = "pay-share"
  /\ sessions[cash[w]].status = "OPEN"
  /\ GoTo(w, "pay-fees")
  /\ UNCHANGED <<db, locks, req, cash>>

\* Fees are locked FOR SHARE only.
LockFeeShared(w) ==
  /\ pc[w] \in {"pay-fees", "cancel-fees"}
  /\ \E f \in FeesOf(w) :
       /\ w \notin feeLock[f]
       /\ feeLock' = [feeLock EXCEPT ![f] = @ \cup {w}]
  /\ UNCHANGED <<db, share, excl, payLock, pc, req, cash>>

\* No unique constraint on the idempotency key.
PayInsertUnchecked(w) ==
  /\ pc[w] = "pay-insert"
  /\ GoTo(w, "pay-commit")
  /\ UNCHANGED <<db, locks, req, cash>>

\* The status of the session is not read again under the lock.
CancelShareAnyStatus(w) ==
  /\ pc[w] = "cancel-share"
  /\ FreeOf(excl, cash[w], w)
  /\ share' = [share EXCEPT ![cash[w]] = @ \cup {w}]
  /\ GoTo(w, "cancel-fees")
  /\ UNCHANGED <<db, excl, payLock, feeLock, req, cash>>

\* The fees of a cancelled payment keep their status.
CancelCommitNoRefresh(w) ==
  /\ pc[w] = "cancel-fees"
  /\ FeesLocked(w)
  /\ payments' = [payments EXCEPT ![req[w].payment].status = "CANCELLED"]
  /\ Finish(w, "idle")
  /\ UNCHANGED <<sessions, counts, movements, fees>>

\* Sessions are modified under FOR SHARE.
LockSessionShared(w) ==
  /\ pc[w] \in DOMAIN AfterLock
  /\ FreeOf(excl, req[w].session, w)
  /\ share' = [share EXCEPT ![req[w].session] = @ \cup {w}]
  /\ GoTo(w, AfterLock[pc[w]])
  /\ UNCHANGED <<db, excl, payLock, feeLock, req, cash>>

\* FOR SHARE first, then upgraded to FOR UPDATE.
LockSessionUpgraded(w) ==
  /\ pc[w] \in DOMAIN AfterLock
  /\ LET s == req[w].session
     IN /\ FreeOf(excl, s, w)
        /\ \/ /\ w \notin share[s]
              /\ share' = [share EXCEPT ![s] = @ \cup {w}]
              /\ UNCHANGED <<excl, pc>>
           \/ /\ share[s] = {w}
              /\ excl' = [excl EXCEPT ![s] = @ \cup {w}]
              /\ GoTo(w, AfterLock[pc[w]])
              /\ UNCHANGED share
  /\ UNCHANGED <<db, payLock, feeLock, req, cash>>

\* A movement is accepted whatever the status of its session.
MoveCheckAnyStatus(w) ==
  /\ pc[w] = "move-check"
  /\ ~ Overdraws(req[w])
  /\ \A m \in Movement : movements[m].session = req[w].session =>
       movements[m].key # req[w].key
  /\ GoTo(w, "move-commit")
  /\ UNCHANGED <<db, locks, req, cash>>

\* Any count of the session is good for closing it.
CloseCheckAnyCount(w) ==
  /\ pc[w] = "close-check"
  /\ sessions[req[w].session].status = "OPEN"
  /\ req[w].expected = LiveExpected(req[w].session)
  /\ GoTo(w, "close-commit")
  /\ UNCHANGED <<db, locks, req, cash>>

\* The update of a fee does not wait for its row.
AdjustUnlocked(w) ==
  /\ pc[w] = "adjust"
  /\ fees' = [fees EXCEPT ![req[w].fee].due = req[w].due]
  /\ Finish(w, "idle")
  /\ UNCHANGED <<sessions, counts, payments, movements>>

-----------------------------------------------------------------------------
(* open_session                                                            *)

OpenCheck(w) ==
  /\ pc[w] = "open-check"
  /\ \/ OpenSessions(req[w].user) # {} /\ Reject(w)
     \/ /\ OpenSessions(req[w].user) = {}
        /\ GoTo(w, "open-insert")
        /\ UNCHANGED <<db, locks, req, cash>>

\* uq_cash_sessions_open_per_cashier: the insert waits for a transaction that
\* inserted an OPEN row of the same cashier, or is closing one.
OpenInsert(w) ==
  /\ pc[w] = "open-insert"
  /\ \A v \in Worker : pc[v] = "open-commit" => req[v].user # req[w].user
  /\ \A v \in Worker :
       pc[v] = "close-commit" => req[v].session \notin OpenSessions(req[w].user)
  /\ \/ OpenSessions(req[w].user) # {} /\ Reject(w)
     \/ /\ OpenSessions(req[w].user) = {}
        /\ GoTo(w, "open-commit")
        /\ UNCHANGED <<db, locks, req, cash>>

OpenCommit(w) ==
  /\ pc[w] = "open-commit"
  /\ \E s \in Session :
       /\ sessions[s].status = "NONE"
       /\ sessions' = [sessions EXCEPT ![s] =
            [status |-> "OPEN", cashier |-> req[w].user,
             opening |-> req[w].opening, expected |-> 0, counted |-> 0]]
  /\ Finish(w, "idle")
  /\ UNCHANGED <<counts, payments, movements, fees>>

-----------------------------------------------------------------------------
(* record_payment                                                          *)

\* A key already recorded: the existing payment is returned, whatever the rest
\* of the request says.
PayLookup(w) ==
  /\ pc[w] = "pay-lookup"
  /\ \/ KeyUsed(req[w].key) /\ Finish(w, "idle") /\ UNCHANGED db
     \/ /\ ~ KeyUsed(req[w].key)
        /\ GoTo(w, IF req[w].mode = "other" THEN "pay-fees" ELSE "pay-find")
        /\ UNCHANGED <<db, locks, req, cash>>

\* No session of the recorder: a cashier is refused, the other roles go on
\* without one.
PayWithoutSession(w) ==
  \/ req[w].mode = "cashier" /\ Reject(w)
  \/ /\ req[w].mode # "cashier"
     /\ GoTo(w, "pay-fees")
     /\ cash' = [cash EXCEPT ![w] = Null]
     /\ UNCHANGED <<db, locks, req>>

\* SELECT ... FOR SHARE picks its row in the snapshot of the statement, ...
PayFind(w) ==
  /\ pc[w] = "pay-find"
  /\ \/ OpenSessions(req[w].user) = {} /\ PayWithoutSession(w)
     \/ \E s \in OpenSessions(req[w].user) :
          /\ GoTo(w, "pay-share")
          /\ cash' = [cash EXCEPT ![w] = s]
          /\ UNCHANGED <<db, locks, req>>

\* ... then waits for the row, and checks the row it gets once more.
PayShare(w) ==
  /\ pc[w] = "pay-share"
  /\ FreeOf(excl, cash[w], w)
  /\ \/ sessions[cash[w]].status # "OPEN" /\ PayWithoutSession(w)
     \/ /\ sessions[cash[w]].status = "OPEN"
        /\ share' = [share EXCEPT ![cash[w]] = @ \cup {w}]
        /\ GoTo(w, "pay-fees")
        /\ UNCHANGED <<db, excl, payLock, feeLock, req, cash>>

\* SELECT ... WHERE id IN (...) FOR UPDATE has no ORDER BY: the rows are locked
\* one after the other in the order in which the scan meets them.
LockFee(w) ==
  /\ pc[w] \in {"pay-fees", "cancel-fees"}
  /\ \E f \in FeesOf(w) :
       /\ w \notin feeLock[f]
       /\ FreeOf(feeLock, f, w)
       /\ feeLock' = [feeLock EXCEPT ![f] = @ \cup {w}]
  /\ UNCHANGED <<db, share, excl, payLock, pc, req, cash>>

PayCheck(w) ==
  /\ pc[w] = "pay-fees"
  /\ FeesLocked(w)
  /\ LET fits == \A f \in FeesOf(w) :
                   Paid(payments, f) + req[w].alloc[f] <= fees[f].due
     IN \/ ~ fits /\ Reject(w)
        \/ /\ fits
           /\ GoTo(w, "pay-insert")
           /\ UNCHANGED <<db, locks, req, cash>>

\* uq_payment_idempotency: the flush waits for a transaction that inserted the
\* same key; if that key is recorded, the transaction is rolled back and the
\* winner is returned.
PayInsert(w) ==
  /\ pc[w] = "pay-insert"
  /\ \A v \in Worker : pc[v] = "pay-commit" => req[v].key # req[w].key
  /\ \/ KeyUsed(req[w].key) /\ Finish(w, "idle") /\ UNCHANGED db
     \/ /\ ~ KeyUsed(req[w].key)
        /\ GoTo(w, "pay-commit")
        /\ UNCHANGED <<db, locks, req, cash>>

PayCommit(w) ==
  /\ pc[w] = "pay-commit"
  /\ \E p \in Payment :
       /\ payments[p].status = "NONE"
       /\ payments' = [payments EXCEPT ![p] =
            [status |-> "COMPLETED", key |-> req[w].key, session |-> cash[w],
             alloc |-> req[w].alloc]]
  /\ fees' = Refreshed(payments', Targets(req[w].alloc))
  /\ Finish(w, "idle")
  /\ UNCHANGED <<sessions, counts, movements>>

-----------------------------------------------------------------------------
(* cancel_payment                                                          *)

CancelLock(w) ==
  /\ pc[w] = "cancel-lock"
  /\ LET p == req[w].payment
     IN /\ FreeOf(payLock, p, w)
        /\ \/ payments[p].status # "COMPLETED" /\ Reject(w)
           \/ /\ payments[p].status = "COMPLETED"
              /\ payLock' = [payLock EXCEPT ![p] = @ \cup {w}]
              /\ cash' = [cash EXCEPT ![w] = payments[p].session]
              /\ GoTo(w, IF payments[p].session = Null THEN "cancel-fees"
                                                       ELSE "cancel-share")
              /\ UNCHANGED <<db, share, excl, feeLock, req>>

CancelShare(w) ==
  /\ pc[w] = "cancel-share"
  /\ FreeOf(excl, cash[w], w)
  /\ \/ sessions[cash[w]].status # "OPEN" /\ Reject(w)
     \/ /\ sessions[cash[w]].status = "OPEN"
        /\ share' = [share EXCEPT ![cash[w]] = @ \cup {w}]
        /\ GoTo(w, "cancel-fees")
        /\ UNCHANGED <<db, excl, payLock, feeLock, req, cash>>

CancelCommit(w) ==
  /\ pc[w] = "cancel-fees"
  /\ FeesLocked(w)
  /\ payments' = [payments EXCEPT ![req[w].payment].status = "CANCELLED"]
  /\ fees' = Refreshed(payments', FeesOf(w))
  /\ Finish(w, "idle")
  /\ UNCHANGED <<sessions, counts, movements>>

-----------------------------------------------------------------------------
(* add_movement, create_count, close_session                               *)

\* lock_session: FOR UPDATE, incompatible with every other lock of the row.
LockSession(w) ==
  /\ pc[w] \in DOMAIN AfterLock
  /\ LET s == req[w].session
     IN /\ FreeOf(excl, s, w)
        /\ FreeOf(share, s, w)
        /\ excl' = [excl EXCEPT ![s] = @ \cup {w}]
  /\ GoTo(w, AfterLock[pc[w]])
  /\ UNCHANGED <<db, share, payLock, feeLock, req, cash>>

\* The idempotent replay is looked up before the status of the session.
MoveCheck(w) ==
  /\ pc[w] = "move-check"
  /\ LET r == req[w]
         same == {m \in Movement :
                    movements[m].session = r.session /\ movements[m].key = r.key}
         refused == \/ sessions[r.session].status # "OPEN"
                    \/ Overdraws(r)
     IN \/ /\ same # {}
           /\ \/ /\ \E m \in same : movements[m].amount = r.amount
                 /\ Finish(w, "idle") /\ UNCHANGED db
              \/ (\A m \in same : movements[m].amount # r.amount) /\ Reject(w)
        \/ same = {} /\ refused /\ Reject(w)
        \/ /\ same = {} /\ ~ refused
           /\ GoTo(w, "move-commit")
           /\ UNCHANGED <<db, locks, req, cash>>

MoveCommit(w) ==
  /\ pc[w] = "move-commit"
  /\ \E m \in Movement :
       /\ movements[m].session = Null
       /\ movements' = [movements EXCEPT ![m] =
            [session |-> req[w].session, key |-> req[w].key,
             amount |-> req[w].amount]]
  /\ Finish(w, "idle")
  /\ UNCHANGED <<sessions, counts, payments, fees>>

CountCommit(w) ==
  /\ pc[w] = "count-commit"
  /\ LET s == req[w].session
     IN \/ sessions[s].status # "OPEN" /\ Reject(w)
        \/ /\ sessions[s].status = "OPEN"
           /\ counts' = [counts EXCEPT ![s] = Append(@, req[w].total)]
           /\ Finish(w, "idle")
           /\ UNCHANGED <<sessions, payments, movements, fees>>

CloseCheck(w) ==
  /\ pc[w] = "close-check"
  /\ LET r == req[w]
         accepted == /\ sessions[r.session].status = "OPEN"
                     /\ counts[r.session] # <<>>
                     /\ r.count = Len(counts[r.session])
                     /\ r.expected = LiveExpected(r.session)
                     /\ r.justified \/ counts[r.session][r.count] = r.expected
     IN \/ ~ accepted /\ Reject(w)
        \/ /\ accepted
           /\ GoTo(w, "close-commit")
           /\ UNCHANGED <<db, locks, req, cash>>

CloseCommit(w) ==
  /\ pc[w] = "close-commit"
  /\ sessions' = [sessions EXCEPT ![req[w].session] =
       [@ EXCEPT !.status = "CLOSED", !.expected = req[w].expected,
                 !.counted = counts[req[w].session][req[w].count]]]
  /\ Finish(w, "idle")
  /\ UNCHANGED <<counts, payments, movements, fees>>

-----------------------------------------------------------------------------
\* update_student_fee: the new amount is neither compared with what was paid
\* nor followed by a refresh of the status.
Adjust(w) ==
  /\ pc[w] = "adjust"
  /\ FreeOf(feeLock, req[w].fee, w)
  /\ fees' = [fees EXCEPT ![req[w].fee].due = req[w].due]
  /\ Finish(w, "idle")
  /\ UNCHANGED <<sessions, counts, payments, movements>>

Step(w) == \/ OpenCheck(w) \/ OpenInsert(w) \/ OpenCommit(w)
           \/ PayLookup(w) \/ PayFind(w) \/ PayShare(w) \/ PayCheck(w)
           \/ PayInsert(w) \/ PayCommit(w) \/ LockFee(w)
           \/ CancelLock(w) \/ CancelShare(w) \/ CancelCommit(w)
           \/ LockSession(w) \/ MoveCheck(w) \/ MoveCommit(w)
           \/ CountCommit(w) \/ CloseCheck(w) \/ CloseCommit(w)
           \/ Adjust(w)

Next == \E w \in Worker : Arrive(w) \/ Step(w) \/ Abort(w)
Spec == Init /\ [][Next]_vars

-----------------------------------------------------------------------------
(* Properties                                                              *)

\* Every row, lock and request has the shape the code gives it.
TypeOK ==
  /\ sessions \in [Session -> SessionRow]
  /\ counts \in [Session -> Seq(Nat)]
  /\ payments \in [Payment -> PaymentRow]
  /\ movements \in [Movement -> MovementRow]
  /\ fees \in [Fee -> FeeRow]
  /\ share \in [Session -> SUBSET Worker]
  /\ excl \in [Session -> SUBSET Worker]
  /\ payLock \in [Payment -> SUBSET Worker]
  /\ feeLock \in [Fee -> SUBSET Worker]
  /\ pc \in [Worker -> Pc]
  /\ req \in [Worker -> Request \cup {NoReq}]
  /\ cash \in [Worker -> Session \cup {Null}]

\* The amounts frozen when a session closed stay those its rows add up to, and
\* the counted amount is that of its last count: no payment, cancellation,
\* movement or count reaches a closed session, however it raced with the close.
ClosedBooksFrozen == \A s \in Session : sessions[s].status = "CLOSED" =>
  /\ sessions[s].expected = LiveExpected(s)
  /\ counts[s] # <<>>
  /\ sessions[s].counted = counts[s][Len(counts[s])]

\* Row locks exclude each other, and every statement holds those its request
\* took: the lock discipline that DecisionsStand rests on.
LocksExclude ==
  /\ \A s \in Session, w \in Worker : w \in excl[s] =>
       excl[s] = {w} /\ share[s] \subseteq {w}
  /\ \A p \in Payment, w \in Worker : w \in payLock[p] => payLock[p] = {w}
LocksHeld == \A w \in Worker :
  /\ pc[w] \in Resting \cup {"pay-lookup"} => cash[w] = Null
  /\ pc[w] \in {"pay-fees", "pay-insert", "pay-commit", "cancel-fees"} =>
       cash[w] = Null \/ w \in share[cash[w]]
  /\ pc[w] \in {"cancel-share", "cancel-fees"} => w \in payLock[req[w].payment]
  /\ pc[w] \in {"move-check", "move-commit", "count-commit", "close-check",
                "close-commit"} => w \in excl[req[w].session]

Stands(w) ==
  /\ pc[w] \in {"pay-fees", "pay-insert", "pay-commit", "cancel-fees"} =>
       cash[w] = Null \/ sessions[cash[w]].status = "OPEN"
  /\ pc[w] \in {"cancel-share", "cancel-fees"} =>
       /\ payments[req[w].payment].status = "COMPLETED"
       /\ payments[req[w].payment].session = cash[w]
  /\ pc[w] = "move-commit" =>
       /\ sessions[req[w].session].status = "OPEN"
       /\ ~ Overdraws(req[w])
  /\ pc[w] = "close-commit" =>
       /\ sessions[req[w].session].status = "OPEN"
       /\ req[w].expected = LiveExpected(req[w].session)
       /\ req[w].count = Len(counts[req[w].session])
\* What a request read and decided on is still true when it writes: the session
\* of a payment or a cancellation is open, the payment being cancelled is still
\* recorded, the balance and the count that were compared have not moved.
DecisionsStand == \A w \in Worker : Stands(w)

\* Two concurrent openings never leave a cashier with two open sessions.
OneOpenSession == \A s, t \in Session :
  /\ sessions[s].status = "OPEN" /\ sessions[t].status = "OPEN"
  /\ sessions[s].cashier = sessions[t].cashier
  => s = t

\* A payment key names one payment of the school and a movement key one
\* movement of its session, for any interleaving of retries.
NoDuplicateRecord ==
  /\ \A p, q \in UsedPayments : payments[p].key = payments[q].key => p = q
  /\ \A m, n \in UsedMovements :
       /\ movements[m].session = movements[n].session
       /\ movements[m].key = movements[n].key
       => m = n

\* What the partial unique indexes are for, in the races the lookups before
\* them cannot see: one open session for a cashier, one record for a key.
UniqueKeysHold == OneOpenSession /\ NoDuplicateRecord

\* The active allocations of a fee never exceed its amount due (docstring of
\* PaymentAllocation).  Holds as long as no amount due is adjusted.
FeeNeverOverpaid == \A f \in Fee : Paid(payments, f) <= fees[f].due

\* The stored status of a fee is the one its active allocations give (docstring
\* of StudentFee).  Holds as long as no amount due is adjusted.
FeeStatusDerived == \A f \in Fee :
  fees[f].status = FeeStatus(Paid(payments, f), fees[f].due)

\* The fees follow the payments, however payments and cancellations overlap:
\* no fee is paid beyond its amount due, and each has the status its active
\* allocations give.
FeesFollowPayments == FeeNeverOverpaid /\ FeeStatusDerived

\* A payment never takes the active allocations of a fee above the amount due
\* at the instant it is committed, even when that amount is being adjusted.
PaymentFits ==
  [][\A f \in Fee : Paid(payments', f) > Paid(payments, f) =>
       Paid(payments', f) <= fees[f].due]_vars

\* A recorded payment only ever changes by being cancelled, and it does so only
\* while its session, if it has one, is open.
PaymentHistory ==
  [][\A p \in UsedPayments :
       \/ payments'[p] = payments[p]
       \/ /\ payments[p].status = "COMPLETED"
          /\ payments'[p] = [payments[p] EXCEPT !.status = "CANCELLED"]
          /\ payments[p].session # Null =>
               sessions[payments[p].session].status = "OPEN"]_vars

\* An outgoing movement never takes more than the session holds at the instant
\* it is committed, whatever was cancelled or taken meanwhile.
OutWithinBalance ==
  [][\A m \in Movement :
       /\ movements[m].session = Null
       /\ movements'[m].session # Null
       => ~ Overdraws(movements'[m])]_vars

\* Money moves by the rules of the till at the very instant it is committed: a
\* payment changes only by the cancellation of an open session's payment, and
\* nothing leaves a session that does not hold it.
MovesAreLawful == PaymentHistory /\ OutWithinBalance

\* A second submission of a recorded payment is never answered by an error
\* (support runbook, record_payment).
ReplayNeverRejected ==
  [][\A w \in Worker : pc[w] \in PayPc /\ pc'[w] = "rejected" =>
       ~ KeyUsed(req[w].key)]_vars

\* The transactions a blocked worker waits for; {} when it can go on.
Blockers(w) ==
  CASE pc[w] \in {"pay-share", "cancel-share"} -> excl[cash[w]] \ {w}
    [] pc[w] \in {"move-lock", "count-lock", "close-lock"} ->
         (excl[req[w].session] \cup share[req[w].session]) \ {w}
    [] pc[w] = "cancel-lock" -> payLock[req[w].payment] \ {w}
    [] pc[w] = "adjust" -> feeLock[req[w].fee] \ {w}
    [] pc[w] \in {"pay-fees", "cancel-fees"} ->
         LET missing == {f \in FeesOf(w) : w \notin feeLock[f]}
         IN IF \E f \in missing : FreeOf(feeLock, f, w) THEN {}
            ELSE UNION {feeLock[f] : f \in missing}
    [] pc[w] = "pay-insert" ->
         {v \in Worker : pc[v] = "pay-commit" /\ req[v].key = req[w].key}
    [] pc[w] = "open-insert" ->
         {v \in Worker : \/ pc[v] = "open-commit" /\ req[v].user = req[w].user
                         \/ /\ pc[v] = "close-commit"
                            /\ req[v].session \in OpenSessions(req[w].user)}
    [] OTHER -> {}

\* The workers of a set in which everyone waits for someone of the set.
Deadlocked == UNION {S \in SUBSET Worker :
  \A w \in S : Blockers(w) # {} /\ Blockers(w) \subseteq S}

\* Transactions never wait for each other in a circle: payments are locked
\* before sessions, sessions before fees, fees before idempotency keys.
NoDeadlock == Deadlocked = {}

\* What the database and the server guarantee: a statement that can go on does,
\* and the deadlock detector aborts a victim.
FairSteps == \A w \in Worker :
  /\ WF_vars(Step(w))
  /\ WF_vars(w \in Deadlocked /\ Abort(w))

\* Every request is answered or aborted: no lock outlives its transaction.
RequestsEnd == \A w \in Worker : pc[w] \notin Resting ~> pc[w] \in Resting

-----------------------------------------------------------------------------
\* The register, seen as the till its accountant relies on.
Ledger == INSTANCE CashLedger WITH
  status <- [s \in Session |-> sessions[s].status],
  holder <- [s \in Session |-> sessions[s].cashier],
  takings <- [s \in Session |-> SumFunction(CashOf(payments, s))],
  float <- [s \in Session |-> sessions[s].opening + SumFunction(FlowOf(movements, s))],
  sealed <- [s \in Session |-> sessions[s].expected]

\* Every transaction that commits is one step of the till, and the others are
\* invisible to it: the locks make the concurrent register atomic.
ImplementsLedger == Ledger!Spec

=============================================================================
