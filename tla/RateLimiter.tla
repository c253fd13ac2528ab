---------------------------- MODULE RateLimiter ----------------------------
(***************************************************************************)
(* The Redis counters behind the rate limits of the API                    *)
(* (core/rate_limit.py).  One key is one subject of one endpoint: an email *)
(* for login and forgot-password, an account for refresh, payments and     *)
(* announcements, an address for reset-password and report verification.   *)
(*                                                                         *)
(* A worker is one HTTP request; each of its steps is one Redis command,   *)
(* and any command may meet a RedisError, which the code logs and ignores. *)
(* INCR and EXPIRE are two commands: what happens between them matters.    *)
(***************************************************************************)
EXTENDS Integers, FiniteSets

CONSTANTS
  Worker,       \* requests that can be in progress at the same time
  Key,          \* counters
  MaxAttempts,  \* the *_rate_limit_max_attempts setting of the key's endpoint
  MaxFaults     \* bound on Redis errors and on requests that die half way

ASSUME WorkerAssumption == IsFiniteSet(Worker) /\ Worker # {}
ASSUME LimitAssumption == MaxAttempts \in Nat \ {0} /\ MaxFaults \in Nat

VARIABLES
  use,          \* the endpoint each key belongs to
  count,        \* value of the counter, 0 when the key is absent
  timed,        \* the keys that have a time to live
  pc,           \* next step of each worker
  key,          \* the counter each worker works on
  blind,        \* requests let through because Redis did not answer the check
  interrupted,  \* keys whose EXPIRE was never sent or failed
  faults        \* faults so far

vars == <<use, count, timed, pc, key, blind, interrupted, faults>>

(* The order of ensure, register and the work itself, by endpoint.         *)
CountedFirst == {"refresh", "reset_password", "verify"}
CountedAfter == {"forgot_password", "payments", "announcements"}
Use == {"login"} \cup CountedFirst \cup CountedAfter

Step == {"idle", "work", "count", "expire", "reset"}

TypeOK ==
  /\ use \in [Key -> Use]
  /\ count \in [Key -> Nat]
  /\ timed \subseteq Key
  /\ pc \in [Worker -> Step]
  /\ key \in [Worker -> Key]
  /\ blind \in [Key -> Nat]
  /\ interrupted \subseteq Key
  /\ faults \in 0 .. MaxFaults

Init ==
  /\ use \in [Key -> Use]
  /\ count = [k \in Key |-> 0]
  /\ timed = {}
  /\ pc = [w \in Worker |-> "idle"]
  /\ key \in [Worker -> Key]
  /\ blind = [k \in Key |-> 0]
  /\ interrupted = {}
  /\ faults = 0

----------------------------------------------------------------------------
Goto(w, step) == pc' = [pc EXCEPT ![w] = step]
Fault == faults < MaxFaults /\ faults' = faults + 1

(* What follows the check, and what follows the counting.                  *)
Admitted(k) == IF use[k] \in CountedFirst THEN "count" ELSE "work"
\* Faulty variant: a counted request is left in a step that does not exist.
CountedDone(k) == IF use[k] \in CountedFirst THEN "work" ELSE "done"
Counted(k) == IF use[k] \in CountedFirst THEN "work" ELSE "idle"

(* GET, for each endpoint's own ensure function.                           *)
\* Faulty variant: one attempt too many is let through.
EnsureOffByOne(w, k) ==
  /\ pc[w] = "idle"
  /\ count[k] <= MaxAttempts
  /\ key' = [key EXCEPT ![w] = k]
  /\ Goto(w, Admitted(k))
  /\ UNCHANGED <<use, count, timed, blind, interrupted, faults>>

Ensure(w, k) ==
  /\ pc[w] = "idle"
  /\ count[k] < MaxAttempts
  /\ key' = [key EXCEPT ![w] = k]
  /\ Goto(w, Admitted(k))
  /\ UNCHANGED <<use, count, timed, blind, interrupted, faults>>

EnsureLogin(w, k) == use[k] = "login" /\ Ensure(w, k)
EnsureForgotPassword(w, k) == use[k] = "forgot_password" /\ Ensure(w, k)
EnsureRefresh(w, k) == use[k] = "refresh" /\ Ensure(w, k)
EnsureVerify(w, k) == use[k] = "verify" /\ Ensure(w, k)
EnsureResetPassword(w, k) == use[k] = "reset_password" /\ Ensure(w, k)
EnsurePayments(w, k) == use[k] = "payments" /\ Ensure(w, k)
EnsureAnnouncements(w, k) == use[k] = "announcements" /\ Ensure(w, k)

(* At the limit the request is answered 429 and leaves the counter alone.  *)
Refuse(w, k) == pc[w] = "idle" /\ count[k] >= MaxAttempts /\ UNCHANGED vars

(* A RedisError on the check: the request goes on unchecked.               *)
EnsureBlind(w, k) ==
  /\ pc[w] = "idle"
  /\ Fault
  /\ key' = [key EXCEPT ![w] = k]
  /\ Goto(w, Admitted(k))
  /\ blind' = [blind EXCEPT ![k] = @ + 1]
  /\ UNCHANGED <<use, count, timed, interrupted>>

(* The work of the endpoint; a login that succeeds forgets the attempts    *)
(* before it, one that fails with 401 is counted, and a login or counted-  *)
(* after request that fails otherwise ends without being counted.          *)
Work(w) ==
  /\ pc[w] = "work"
  /\ CASE use[key[w]] = "login" -> pc' \in {[pc EXCEPT ![w] = s] : s \in {"reset", "count", "idle"}}
       [] use[key[w]] \in CountedAfter -> pc' \in {[pc EXCEPT ![w] = s] : s \in {"count", "idle"}}
       [] OTHER -> Goto(w, "idle")
  /\ UNCHANGED <<use, count, timed, key, blind, interrupted, faults>>

(* INCR; the request that creates the counter sends EXPIRE next.           *)
\* Faulty variant: the attempt that reaches the limit arms the counter.
RegisterArmsAtLimit(w) ==
  /\ pc[w] = "count"
  /\ count' = [count EXCEPT ![key[w]] = @ + 1]
  /\ Goto(w, IF count[key[w]] + 1 = MaxAttempts THEN "expire" ELSE Counted(key[w]))
  /\ UNCHANGED <<use, timed, key, blind, interrupted, faults>>

Register(w) ==
  /\ pc[w] = "count"
  /\ count' = [count EXCEPT ![key[w]] = @ + 1]
  /\ Goto(w, IF count[key[w]] = 0 THEN "expire" ELSE Counted(key[w]))
  /\ UNCHANGED <<use, timed, key, blind, interrupted, faults>>

RegisterFailedLogin(w) == use[key[w]] = "login" /\ Register(w)
RegisterForgotPassword(w) == use[key[w]] = "forgot_password" /\ Register(w)
RegisterRefresh(w) == use[key[w]] = "refresh" /\ Register(w)
RegisterVerify(w) == use[key[w]] = "verify" /\ Register(w)
RegisterResetPassword(w) == use[key[w]] = "reset_password" /\ Register(w)
RegisterPayments(w) == use[key[w]] = "payments" /\ Register(w)
RegisterAnnouncements(w) == use[key[w]] = "announcements" /\ Register(w)

(* A RedisError on INCR: the attempt is not counted.                       *)
RegisterBlind(w) ==
  /\ pc[w] = "count"
  /\ Fault
  /\ Goto(w, Counted(key[w]))
  /\ UNCHANGED <<use, count, timed, key, blind, interrupted>>

(* EXPIRE, which does nothing to a key that is gone.                       *)
\* Faulty variant: only a counter nobody else has bumped yet gets its time.
ExpireIfStillOne(w) ==
  /\ pc[w] = "expire"
  /\ IF count[key[w]] = 1
     THEN timed' = timed \cup {key[w]} /\ interrupted' = interrupted \ {key[w]}
     ELSE UNCHANGED <<timed, interrupted>>
  /\ Goto(w, Counted(key[w]))
  /\ UNCHANGED <<use, count, key, blind, faults>>

Expire(w) ==
  /\ pc[w] = "expire"
  /\ IF count[key[w]] > 0
     THEN timed' = timed \cup {key[w]} /\ interrupted' = interrupted \ {key[w]}
     ELSE UNCHANGED <<timed, interrupted>>
  /\ Goto(w, Counted(key[w]))
  /\ UNCHANGED <<use, count, key, blind, faults>>

(* A RedisError on EXPIRE: the counter stays, without a time to live.      *)
ExpireBlind(w) ==
  /\ pc[w] = "expire"
  /\ Fault
  /\ interrupted' = interrupted \cup {key[w]}
  /\ Goto(w, Counted(key[w]))
  /\ UNCHANGED <<use, count, timed, key, blind>>

(* DEL after a successful login.                                           *)
ResetLoginAttempts(w) ==
  /\ pc[w] = "reset"
  /\ count' = [count EXCEPT ![key[w]] = 0]
  /\ timed' = timed \ {key[w]}
  /\ interrupted' = interrupted \ {key[w]}
  /\ Goto(w, "idle")
  /\ UNCHANGED <<use, key, blind, faults>>

ResetBlind(w) ==
  /\ pc[w] = "reset"
  /\ Fault
  /\ Goto(w, "idle")
  /\ UNCHANGED <<use, count, timed, key, blind, interrupted>>

(* The process serving the request dies before its next command.           *)
Die(w) ==
  /\ pc[w] # "idle"
  /\ Fault
  /\ interrupted' = interrupted \cup (IF pc[w] = "expire" THEN {key[w]} ELSE {})
  /\ Goto(w, "idle")
  /\ UNCHANGED <<use, count, timed, key, blind>>

(* The time to live of a key runs out: Redis deletes it.                   *)
Lapse(k) ==
  /\ k \in timed
  /\ count' = [count EXCEPT ![k] = 0]
  /\ timed' = timed \ {k}
  /\ UNCHANGED <<use, pc, key, blind, interrupted, faults>>

----------------------------------------------------------------------------
EnsureAny(w, k) ==
  \/ EnsureLogin(w, k) \/ EnsureForgotPassword(w, k) \/ EnsureRefresh(w, k)
  \/ EnsureVerify(w, k) \/ EnsureResetPassword(w, k) \/ EnsurePayments(w, k)
  \/ EnsureAnnouncements(w, k) \/ EnsureBlind(w, k) \/ Refuse(w, k)

RegisterAny(w) ==
  \/ RegisterFailedLogin(w) \/ RegisterForgotPassword(w) \/ RegisterRefresh(w)
  \/ RegisterVerify(w) \/ RegisterResetPassword(w) \/ RegisterPayments(w)
  \/ RegisterAnnouncements(w) \/ RegisterBlind(w)

Proceed(w) ==
  \/ Work(w) \/ RegisterAny(w) \/ Expire(w) \/ ExpireBlind(w)
  \/ ResetLoginAttempts(w) \/ ResetBlind(w) \/ Die(w)

Next ==
  \/ \E w \in Worker, k \in Key : EnsureAny(w, k)
  \/ \E w \in Worker : Proceed(w)
  \/ \E k \in Key : Lapse(k)

Spec == Init /\ [][Next]_vars

(* A request in progress goes on (or dies), and a time to live runs out.   *)
FairSpec ==
  /\ Spec
  /\ \A w \in Worker : WF_vars(Proceed(w))
  /\ \A k \in Key : WF_vars(Lapse(k))

----------------------------------------------------------------------------
(* Requests let through and not counted yet.                               *)
Uncounted(k) ==
  {w \in Worker : /\ key[w] = k
                  /\ \/ pc[w] = "count"
                     \/ pc[w] = "work" /\ use[k] \notin CountedFirst}

(* The check reads the counter long before the attempt is counted, so      *)
(* concurrent requests pass it together; but never more than the requests  *)
(* that can run at once: the counter and the attempts still to be counted  *)
(* stay below the limit plus the other workers, not counting the requests  *)
(* let through while Redis was down.                                       *)
AttemptsBounded ==
  \A k \in Key :
    count[k] + Cardinality(Uncounted(k))
      <= MaxAttempts + Cardinality(Worker) - 1 + blind[k]

(* INCR and EXPIRE are separate commands and DEL, expiry and other INCRs   *)
(* come between them; a counter without a time to live still always has a  *)
(* request about to arm it, unless that very request failed.               *)
CounterWillLapse ==
  \A k \in Key : count[k] > 0 /\ k \notin timed =>
    \/ k \in interrupted
    \/ \E w \in Worker : key[w] = k /\ pc[w] = "expire"

(* A subject that reached its limit is let in again: the lock ends by      *)
(* itself, whatever other requests do, unless the EXPIRE was lost.         *)
LockoutEnds ==
  \A k \in Key :
    (count[k] >= MaxAttempts) ~> (count[k] < MaxAttempts \/ k \in interrupted)

(* The limiter can be trusted with its counters, both ways: no subject     *)
(* gets more attempts than the limit and the requests in flight allow, and *)
(* no counter that reached the limit is left without a time to live.       *)
CountersAreSound == AttemptsBounded /\ CounterWillLapse
=============================================================================
