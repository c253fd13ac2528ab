-------------------------- MODULE RateLimiterProofs --------------------------
(***************************************************************************)
(* The rate limits, for any requests, counters, limit and faults.          *)
(*                                                                         *)
(* The request that creates a counter is the one that will arm it, and it  *)
(* is in no other step meanwhile; and each request that passed the check   *)
(* is counted once, so that what is in flight and what was counted add up. *)
(***************************************************************************)
EXTENDS RateLimiter, FiniteSetTheorems, TLAPS

\* The steps that follow the check and the counting are steps.
LEMMA NextSteps ==
  ASSUME TypeOK, NEW k \in Key
  PROVE  /\ use[k] \in CountedFirst => Admitted(k) = "count" /\ Counted(k) = "work"
         /\ use[k] \notin CountedFirst => Admitted(k) = "work" /\ Counted(k) = "idle"
  BY DEF Admitted, Counted


\* The endpoints together.
LEMMA EndpointSteps ==
  ASSUME TypeOK
  PROVE  /\ \A w \in Worker, k \in Key : EnsureAny(w, k) =>
               Ensure(w, k) \/ EnsureBlind(w, k) \/ Refuse(w, k)
         /\ \A w \in Worker : RegisterAny(w) => Register(w) \/ RegisterBlind(w)
  BY DEF EnsureAny, RegisterAny, EnsureLogin, EnsureForgotPassword, EnsureRefresh, EnsureVerify,
     EnsureResetPassword, EnsurePayments, EnsureAnnouncements, RegisterFailedLogin,
     RegisterForgotPassword, RegisterRefresh, RegisterVerify, RegisterResetPassword,
     RegisterPayments, RegisterAnnouncements

\* At first all counters are absent and nobody asks.
LEMMA InitTypes == Init => TypeOK /\ CounterWillLapse
<1> SUFFICES ASSUME Init PROVE TypeOK /\ CounterWillLapse
  OBVIOUS
<1>1. TypeOK
  BY LimitAssumption DEF Init, TypeOK, Step
<1>2. CounterWillLapse
  BY DEF Init, CounterWillLapse
<1> QED
  BY <1>1, <1>2

\* Every step keeps the types.
LEMMA StepTypes == TypeOK /\ [Next]_vars => TypeOK'
<1> SUFFICES ASSUME TypeOK, [Next]_vars PROVE TypeOK'
  OBVIOUS
<1>1. CASE UNCHANGED vars
  BY <1>1 DEF vars, TypeOK
<1>2. ASSUME NEW w \in Worker, NEW k \in Key, EnsureAny(w, k) PROVE TypeOK'
  <2>1. Admitted(k) \in Step
    BY NextSteps DEF Step
  <2>2. CASE Ensure(w, k)
    BY <2>1, <2>2 DEF Ensure, Goto, TypeOK
  <2>3. CASE EnsureBlind(w, k)
    BY <2>1, <2>3, LimitAssumption DEF EnsureBlind, Fault, Goto, TypeOK
  <2>4. CASE Refuse(w, k)
    BY <2>4 DEF Refuse, vars, TypeOK
  <2> QED
    BY <1>2, <2>2, <2>3, <2>4, EndpointSteps
<1>3. ASSUME NEW w \in Worker, Proceed(w) PROVE TypeOK'
  <2>1. key[w] \in Key /\ Counted(key[w]) \in Step /\ {"idle", "expire", "reset", "count", "work"} = Step
    BY NextSteps DEF TypeOK, Step
  <2>2. CASE Work(w)
    <3>1. PICK s \in Step : pc' = [pc EXCEPT ![w] = s]
      BY <2>1, <2>2 DEF Work, Goto
    <3> QED
      BY <2>2, <3>1 DEF Work, TypeOK
  <2>3. CASE Register(w)
    BY <2>1, <2>3 DEF Register, Goto, TypeOK
  <2>4. CASE RegisterBlind(w)
    BY <2>1, <2>4, LimitAssumption DEF RegisterBlind, Fault, Goto, TypeOK
  <2>5. CASE Expire(w)
    BY <2>1, <2>5 DEF Expire, Goto, TypeOK
  <2>6. CASE ExpireBlind(w)
    BY <2>1, <2>6, LimitAssumption DEF ExpireBlind, Fault, Goto, TypeOK
  <2>7. CASE ResetLoginAttempts(w)
    BY <2>1, <2>7 DEF ResetLoginAttempts, Goto, TypeOK
  <2>8. CASE ResetBlind(w)
    BY <2>1, <2>8, LimitAssumption DEF ResetBlind, Fault, Goto, TypeOK
  <2>9. CASE Die(w)
    BY <2>1, <2>9, LimitAssumption DEF Die, Fault, Goto, TypeOK
  <2> QED
    BY <1>3, <2>2, <2>3, <2>4, <2>5, <2>6, <2>7, <2>8, <2>9, EndpointSteps DEF Proceed
<1>4. ASSUME NEW k \in Key, Lapse(k) PROVE TypeOK'
  BY <1>4 DEF Lapse, TypeOK
<1> QED
  BY <1>1, <1>2, <1>3, <1>4 DEF Next

\* A step of a worker that is not the one to arm a counter keeps the one who
\* is; one that was either arms it, or leaves it interrupted or gone.
LEMMA StepLapse == TypeOK /\ CounterWillLapse /\ [Next]_vars => CounterWillLapse'
<1> SUFFICES ASSUME TypeOK, CounterWillLapse, [Next]_vars,
                    NEW k \in Key, count'[k] > 0, k \notin timed', k \notin interrupted'
             PROVE  \E w \in Worker : key'[w] = k /\ pc'[w] = "expire"
  BY DEF CounterWillLapse
<1>1. CASE UNCHANGED vars
  BY <1>1 DEF vars, CounterWillLapse
<1>2. ASSUME NEW w \in Worker, NEW h \in Key, EnsureAny(w, h)
      PROVE  \E v \in Worker : key'[v] = k /\ pc'[v] = "expire"
  <2>1. CASE Ensure(w, h) \/ EnsureBlind(w, h)
    <3>1. PICK v \in Worker : key[v] = k /\ pc[v] = "expire"
      BY <2>1 DEF Ensure, EnsureBlind, CounterWillLapse
    <3>2. v # w
      BY <2>1, <3>1 DEF Ensure, EnsureBlind
    <3> QED
      BY <2>1, <3>1, <3>2 DEF Ensure, EnsureBlind, Goto, TypeOK
  <2>2. CASE Refuse(w, h)
    BY <2>2 DEF Refuse, vars, CounterWillLapse
  <2> QED
    BY <1>2, <2>1, <2>2, EndpointSteps
<1>3. ASSUME NEW w \in Worker, Proceed(w)
      PROVE  \E v \in Worker : key'[v] = k /\ pc'[v] = "expire"
  <2>0. key[w] \in Key /\ count[key[w]] \in Nat
    BY DEF TypeOK
  <2>1. CASE Register(w)
    <3>1. CASE key[w] = k /\ count[k] = 0
      BY <2>1, <3>1 DEF Register, Goto, TypeOK
    <3>2. CASE ~(key[w] = k /\ count[k] = 0)
      <4>1. count[k] > 0
        BY <2>0, <2>1, <3>2 DEF Register, TypeOK
      <4>2. PICK v \in Worker : key[v] = k /\ pc[v] = "expire"
        BY <2>1, <4>1 DEF Register, CounterWillLapse
      <4>3. v # w
        BY <2>1, <4>2 DEF Register
      <4> QED
        BY <2>1, <4>2, <4>3 DEF Register, Goto, TypeOK
    <3> QED
      BY <3>1, <3>2
  <2>2. CASE Work(w) \/ RegisterBlind(w) \/ ResetBlind(w)
    <3>1. PICK v \in Worker : key[v] = k /\ pc[v] = "expire"
      BY <2>2 DEF Work, RegisterBlind, ResetBlind, CounterWillLapse
    <3>2. v # w /\ key' = key
      BY <2>2, <3>1 DEF Work, RegisterBlind, ResetBlind
    <3>3. \E s : pc' = [pc EXCEPT ![w] = s]
      BY <2>2 DEF Work, RegisterBlind, ResetBlind, Goto
    <3> QED
      BY <3>1, <3>2, <3>3 DEF TypeOK
  <2>3. CASE Expire(w)
    <3>1. count' = count /\ key' = key /\ timed \subseteq timed'
      BY <2>3 DEF Expire
    <3>2. key[w] # k
      BY <2>3, <3>1 DEF Expire
    <3>3. k \notin interrupted /\ k \notin timed
      BY <2>3, <3>2 DEF Expire
    <3>4. PICK v \in Worker : key[v] = k /\ pc[v] = "expire"
      BY <3>1, <3>3 DEF CounterWillLapse
    <3> QED
      BY <2>3, <3>1, <3>2, <3>4 DEF Expire, Goto, TypeOK
  <2>4. CASE ExpireBlind(w) \/ Die(w)
    <3>1. PICK v \in Worker : key[v] = k /\ pc[v] = "expire"
      BY <2>4 DEF ExpireBlind, Die, CounterWillLapse
    <3>2. v # w
      BY <2>4, <3>1 DEF ExpireBlind, Die
    <3> QED
      BY <2>4, <3>1, <3>2 DEF ExpireBlind, Die, Goto, TypeOK
  <2>5. CASE ResetLoginAttempts(w)
    <3>1. key[w] # k
      BY <2>0, <2>5 DEF ResetLoginAttempts, TypeOK
    <3>2. count[k] > 0 /\ k \notin timed /\ k \notin interrupted
      BY <2>0, <2>5, <3>1 DEF ResetLoginAttempts, TypeOK
    <3>3. PICK v \in Worker : key[v] = k /\ pc[v] = "expire"
      BY <3>2 DEF CounterWillLapse
    <3> QED
      BY <2>5, <3>1, <3>3 DEF ResetLoginAttempts, Goto, TypeOK
  <2> QED
    BY <1>3, <2>1, <2>2, <2>3, <2>4, <2>5, EndpointSteps DEF Proceed
<1>4. ASSUME NEW h \in Key, Lapse(h) PROVE \E v \in Worker : key'[v] = k /\ pc'[v] = "expire"
  <2>1. h # k
    BY <1>4 DEF Lapse, TypeOK
  <2>2. count[k] > 0 /\ k \notin timed /\ k \notin interrupted
    BY <1>4, <2>1 DEF Lapse, TypeOK
  <2> QED
    BY <1>4, <2>2 DEF Lapse, CounterWillLapse
<1> QED
  BY <1>1, <1>2, <1>3, <1>4 DEF Next

\* There are finitely many attempts to count, at most one for each worker.
LEMMA Attempts ==
  ASSUME NEW k \in Key
  PROVE  /\ IsFiniteSet(Uncounted(k)) /\ Cardinality(Uncounted(k)) \in Nat
         /\ Cardinality(Uncounted(k)) <= Cardinality(Worker)
         /\ IsFiniteSet(Uncounted(k)') /\ Cardinality(Uncounted(k)') \in Nat
         /\ Cardinality(Uncounted(k)') <= Cardinality(Worker)
         /\ Cardinality(Worker) \in Nat \ {0} /\ MaxAttempts \in Nat
<1>1. Uncounted(k) \subseteq Worker /\ Uncounted(k)' \subseteq Worker
  BY DEF Uncounted
<1>2. /\ IsFiniteSet(Uncounted(k)) /\ Cardinality(Uncounted(k)) <= Cardinality(Worker)
      /\ IsFiniteSet(Uncounted(k)') /\ Cardinality(Uncounted(k)') <= Cardinality(Worker)
  BY <1>1, WorkerAssumption, FS_Subset
<1>3. Cardinality(Worker) \in Nat \ {0}
  BY WorkerAssumption, FS_CardinalityType, FS_EmptySet
<1> QED
  BY <1>2, <1>3, FS_CardinalityType, LimitAssumption

\* A counter that no attempt was added to.
LEMMA NoNewAttempt ==
  ASSUME TypeOK, TypeOK', AttemptsBounded, NEW k \in Key,
         count'[k] <= count[k], blind[k] <= blind'[k], Uncounted(k)' \subseteq Uncounted(k)
  PROVE  count'[k] + Cardinality(Uncounted(k)')
           <= MaxAttempts + Cardinality(Worker) - 1 + blind'[k]
<1>1. Cardinality(Uncounted(k)') <= Cardinality(Uncounted(k))
  BY Attempts, FS_Subset
<1>2. count[k] \in Nat /\ count'[k] \in Nat /\ blind[k] \in Nat /\ blind'[k] \in Nat
  BY DEF TypeOK
<1> QED
  BY <1>1, <1>2, Attempts DEF AttemptsBounded

\* At first nothing is counted.
LEMMA InitAttempts == Init => AttemptsBounded
<1> SUFFICES ASSUME Init, NEW k \in Key
             PROVE  count[k] + Cardinality(Uncounted(k))
                      <= MaxAttempts + Cardinality(Worker) - 1 + blind[k]
  BY DEF AttemptsBounded
<1>1. Uncounted(k) = {}
  BY DEF Init, Uncounted
<1>2. Cardinality(Uncounted(k)) = 0
  BY <1>1, FS_EmptySet
<1>3. count[k] = 0 /\ blind[k] = 0
  BY DEF Init
<1> QED
  BY <1>2, <1>3, Attempts, LimitAssumption

\* A step of one worker: the attempts of the others are as they were.
LEMMA OtherAttempts ==
  ASSUME TypeOK, NEW w \in Worker, use' = use, NEW k \in Key,
         \A v \in Worker \ {w} : pc'[v] = pc[v] /\ key'[v] = key[v]
  PROVE  /\ Uncounted(k)' \subseteq Uncounted(k) \cup {w}
         /\ w \notin Uncounted(k)' => Uncounted(k)' \subseteq Uncounted(k) \ {w}
<1>1. \A v \in Worker \ {w} : v \in Uncounted(k)' <=> v \in Uncounted(k)
  BY DEF Uncounted
<1>2. Uncounted(k)' \subseteq Worker
  BY DEF Uncounted
<1> QED
  BY <1>1, <1>2

\* A worker that is not about to count has no attempt to be counted.
LEMMA NotUncounted ==
  ASSUME NEW w \in Worker, NEW k \in Key, use' = use,
         \/ key'[w] # k
         \/ pc'[w] # "count" /\ (pc'[w] = "work" => use[k] \in CountedFirst)
  PROVE  w \notin Uncounted(k)'
  BY DEF Uncounted

\* The check lets one more in below the limit, or blindly.
LEMMA EnsureKeepsBound ==
  ASSUME TypeOK, TypeOK', AttemptsBounded, NEW w \in Worker, NEW h \in Key,
         Ensure(w, h) \/ EnsureBlind(w, h), NEW k \in Key
  PROVE  count'[k] + Cardinality(Uncounted(k)')
           <= MaxAttempts + Cardinality(Worker) - 1 + blind'[k]
<1>0. /\ count[k] \in Nat /\ blind[k] \in Nat /\ count' = count /\ use' = use /\ pc[w] = "idle"
      /\ pc' = [pc EXCEPT ![w] = Admitted(h)] /\ key' = [key EXCEPT ![w] = h]
  BY DEF TypeOK, Ensure, EnsureBlind, Goto
<1>1. /\ \A v \in Worker \ {w} : pc'[v] = pc[v] /\ key'[v] = key[v]
      /\ key'[w] = h
  BY <1>0 DEF TypeOK
<1>2. CASE k # h
  <2>1. Uncounted(k)' \subseteq Uncounted(k)
    BY <1>0, <1>1, <1>2, OtherAttempts, NotUncounted
  <2>2. blind'[k] = blind[k]
    BY <1>2 DEF Ensure, EnsureBlind, TypeOK
  <2> QED
    BY <1>0, <2>1, <2>2, NoNewAttempt
<1>3. CASE k = h /\ Ensure(w, h)
  <2>1. count[k] < MaxAttempts /\ blind' = blind
    BY <1>3 DEF Ensure
  <2> QED
    BY <1>0, <2>1, Attempts
<1>4. CASE k = h /\ EnsureBlind(w, h)
  <2>1. blind'[k] = blind[k] + 1
    BY <1>4 DEF EnsureBlind, TypeOK
  <2>2. Uncounted(k)' \subseteq Uncounted(k) \cup {w}
    BY <1>0, <1>1, OtherAttempts
  <2>3. /\ IsFiniteSet(Uncounted(k) \cup {w})
        /\ Cardinality(Uncounted(k) \cup {w}) <= Cardinality(Uncounted(k)) + 1
        /\ Cardinality(Uncounted(k) \cup {w}) \in Nat
    <3>1. IsFiniteSet(Uncounted(k)) /\ Cardinality(Uncounted(k)) \in Nat
      BY Attempts
    <3>2. /\ IsFiniteSet(Uncounted(k) \cup {w})
          /\ Cardinality(Uncounted(k) \cup {w}) =
               IF w \in Uncounted(k) THEN Cardinality(Uncounted(k)) ELSE Cardinality(Uncounted(k)) + 1
      BY <3>1, FS_AddElement
    <3> QED
      BY <3>1, <3>2
  <2>4. Cardinality(Uncounted(k)') <= Cardinality(Uncounted(k) \cup {w})
    BY <2>2, <2>3, FS_Subset
  <2> QED
    BY <1>0, <2>1, <2>3, <2>4, Attempts DEF AttemptsBounded
<1> QED
  BY <1>2, <1>3, <1>4

\* An attempt that is counted is no longer one to be counted.
LEMMA ProceedKeepsBound ==
  ASSUME TypeOK, TypeOK', AttemptsBounded, NEW w \in Worker, Proceed(w), NEW k \in Key
  PROVE  count'[k] + Cardinality(Uncounted(k)')
           <= MaxAttempts + Cardinality(Worker) - 1 + blind'[k]
<1>0. count[k] \in Nat /\ blind[k] \in Nat /\ key[w] \in Key /\ count[key[w]] \in Nat
  BY DEF TypeOK
<1>1. use' = use /\ key' = key /\ \A v \in Worker \ {w} : pc'[v] = pc[v] /\ key'[v] = key[v]
  <2>1. use' = use /\ key' = key
    BY EndpointSteps DEF Proceed, Work, Register, RegisterBlind, Expire, ExpireBlind,
       ResetLoginAttempts, ResetBlind, Die
  <2>2. \E s : pc' = [pc EXCEPT ![w] = s]
    BY EndpointSteps DEF Proceed, Work, Register, RegisterBlind, Expire, ExpireBlind,
       ResetLoginAttempts, ResetBlind, Die, Goto
  <2> QED
    BY <2>1, <2>2 DEF TypeOK
<1>2. CASE Register(w)
  <2> DEFINE s == IF count[key[w]] = 0 THEN "expire" ELSE Counted(key[w])
  <2>1. pc'[w] = s /\ blind' = blind /\ pc[w] = "count"
    BY <1>2 DEF Register, Goto, TypeOK
  <2>2. s # "count" /\ (s = "work" => use[key[w]] \in CountedFirst)
    BY <1>0, NextSteps
  <2> HIDE DEF s
  <2>3. Uncounted(k)' \subseteq Uncounted(k) \ {w}
    <3>1. w \notin Uncounted(k)'
      <4>1. key[w] = k => pc'[w] # "count" /\ (pc'[w] = "work" => use[k] \in CountedFirst)
        BY <2>1, <2>2
      <4>2. key'[w] = key[w] /\ use' = use
        BY <1>1
      <4> QED
        BY <4>1, <4>2, NotUncounted
    <3> QED
      BY <1>1, <3>1, OtherAttempts
  <2>4. CASE k # key[w]
    <3>1. count'[k] = count[k]
      BY <1>2, <2>4 DEF Register, TypeOK
    <3> QED
      BY <1>0, <2>1, <2>3, <3>1, NoNewAttempt
  <2>5. CASE k = key[w]
    <3>1. count'[k] = count[k] + 1
      BY <1>2, <2>5 DEF Register, TypeOK
    <3>2. w \in Uncounted(k)
      BY <2>1, <2>5 DEF Uncounted
    <3>3. /\ IsFiniteSet(Uncounted(k) \ {w})
          /\ Cardinality(Uncounted(k) \ {w}) = Cardinality(Uncounted(k)) - 1
      BY <3>2, Attempts, FS_RemoveElement
    <3>4. Cardinality(Uncounted(k)') <= Cardinality(Uncounted(k) \ {w})
      BY <2>3, <3>3, FS_Subset
    <3> QED
      BY <1>0, <2>1, <3>1, <3>3, <3>4, Attempts DEF AttemptsBounded
  <2> QED
    BY <2>4, <2>5
<1>3. CASE Work(w)
  <2>1. pc[w] = "work" /\ count' = count /\ blind' = blind
    BY <1>3 DEF Work
  <2>2. pc'[w] # "work" /\ (pc'[w] = "count" => use[key[w]] \notin CountedFirst)
    BY <1>3 DEF Work, Goto, CountedFirst, CountedAfter, TypeOK
  <2>3. Uncounted(k)' \subseteq Uncounted(k)
    <3>1. w \in Uncounted(k)' => w \in Uncounted(k)
      BY <1>1, <2>1, <2>2 DEF Uncounted
    <3> QED
      BY <1>1, <3>1, OtherAttempts
  <2> QED
    BY <1>0, <2>1, <2>3, NoNewAttempt
<1>4. CASE RegisterBlind(w) \/ Expire(w) \/ ExpireBlind(w) \/ ResetBlind(w) \/ Die(w)
  <2>1. count' = count /\ blind' = blind
    BY <1>4 DEF RegisterBlind, Expire, ExpireBlind, ResetBlind, Die
  <2>2. pc'[w] \in {Counted(key[w]), "idle"}
    BY <1>4 DEF RegisterBlind, Expire, ExpireBlind, ResetBlind, Die, Goto, TypeOK
  <2>3. Counted(key[w]) # "count" /\ (Counted(key[w]) = "work" => use[key[w]] \in CountedFirst)
    BY <1>0, NextSteps
  <2>4. Uncounted(k)' \subseteq Uncounted(k)
    <3>1. w \notin Uncounted(k)'
      <4>1. key[w] = k => pc'[w] # "count" /\ (pc'[w] = "work" => use[k] \in CountedFirst)
        BY <2>2, <2>3
      <4>2. key'[w] = key[w] /\ use' = use
        BY <1>1
      <4> QED
        BY <4>1, <4>2, NotUncounted
    <3> QED
      BY <1>1, <3>1, OtherAttempts
  <2> QED
    BY <1>0, <2>1, <2>4, NoNewAttempt
<1>5. CASE ResetLoginAttempts(w)
  <2>1. blind' = blind /\ pc'[w] = "idle"
    BY <1>5 DEF ResetLoginAttempts, Goto, TypeOK
  <2>2. count'[k] <= count[k]
    BY <1>0, <1>5 DEF ResetLoginAttempts, TypeOK
  <2>3. Uncounted(k)' \subseteq Uncounted(k)
    BY <1>1, <2>1, OtherAttempts, NotUncounted
  <2> QED
    BY <1>0, <2>1, <2>2, <2>3, NoNewAttempt
<1> QED
  BY <1>2, <1>3, <1>4, <1>5, EndpointSteps DEF Proceed

\* Every step keeps the bound.
LEMMA StepAttempts == TypeOK /\ AttemptsBounded /\ [Next]_vars => AttemptsBounded'
<1> SUFFICES ASSUME TypeOK, AttemptsBounded, [Next]_vars, NEW k \in Key
             PROVE  count'[k] + Cardinality(Uncounted(k)')
                      <= MaxAttempts + Cardinality(Worker) - 1 + blind'[k]
  BY DEF AttemptsBounded
<1>0. TypeOK'
  BY StepTypes
<1>1. ASSUME UNCHANGED vars
      PROVE  count'[k] + Cardinality(Uncounted(k)')
               <= MaxAttempts + Cardinality(Worker) - 1 + blind'[k]
  <2>1. Uncounted(k)' = Uncounted(k) /\ count' = count /\ blind' = blind
    BY <1>1 DEF vars, Uncounted
  <2> QED
    BY <2>1 DEF AttemptsBounded
<1>2. ASSUME NEW w \in Worker, NEW h \in Key, EnsureAny(w, h)
      PROVE  count'[k] + Cardinality(Uncounted(k)')
               <= MaxAttempts + Cardinality(Worker) - 1 + blind'[k]
  BY <1>0, <1>1, <1>2, EnsureKeepsBound, EndpointSteps DEF Refuse
<1>3. ASSUME NEW w \in Worker, Proceed(w)
      PROVE  count'[k] + Cardinality(Uncounted(k)')
               <= MaxAttempts + Cardinality(Worker) - 1 + blind'[k]
  BY <1>0, <1>3, ProceedKeepsBound
<1>4. ASSUME NEW h \in Key, Lapse(h)
      PROVE  count'[k] + Cardinality(Uncounted(k)')
               <= MaxAttempts + Cardinality(Worker) - 1 + blind'[k]
  <2>1. Uncounted(k)' = Uncounted(k) /\ blind' = blind
    BY <1>4 DEF Lapse, Uncounted
  <2>2. count'[k] <= count[k] /\ blind[k] \in Nat
    BY <1>4 DEF Lapse, TypeOK
  <2> QED
    BY <1>0, <2>1, <2>2, NoNewAttempt
<1> QED
  BY <1>1, <1>2, <1>3, <1>4 DEF Next

\* Requests and counters are what they should be.
THEOREM LimiterTypeCorrect == Spec => []TypeOK
<1>1. Init => TypeOK
  BY InitTypes
<1> QED
  BY <1>1, StepTypes, PTL DEF Spec

\* A counter without a time to live has a request about to arm it, or its
\* EXPIRE was lost.
THEOREM CountersLapse == Spec => []CounterWillLapse
<1>1. Init => TypeOK /\ CounterWillLapse
  BY InitTypes
<1> QED
  BY <1>1, StepTypes, StepLapse, PTL DEF Spec

\* However requests interleave, at most one for each other worker gets past
\* the limit, and those that Redis did not answer.
THEOREM LimitHoldsUpToWorkers == Spec => []AttemptsBounded
<1>1. Init => TypeOK
  BY InitTypes
<1> QED
  BY <1>1, InitAttempts, StepTypes, StepAttempts, PTL DEF Spec

\* No subject gets beyond the limit by more than the requests in flight, and
\* no counter is left that never lapses (core/rate_limit.py).
THEOREM CountersAreAlwaysSound == Spec => []CountersAreSound
<1>1. AttemptsBounded /\ CounterWillLapse => CountersAreSound
  BY DEF CountersAreSound
<1> QED
  BY <1>1, CountersLapse, LimitHoldsUpToWorkers, PTL
=============================================================================
