------------------------- MODULE ActivityRetryProofs -------------------------
(* Proofs about module ActivityRetry.                                      *)
EXTENDS ActivityRetry, TLAPS

\* Induction over the numbers, proved there.
Numbers == INSTANCE ReplayProofs WITH Fn <- {}

-----------------------------------------------------------------------------
(* The attempts.                                                           *)

(***************************************************************************)
(* The limit alone is not inductive: FireRetry increments the attempt, so  *)
(* a waiting call must be strictly below the limit, and the stored event   *)
(* must not have been attempted.                                           *)
(***************************************************************************)
LimitInv ==
  /\ attempt \in Nat
  /\ phase = "stored" => attempt = 0
  /\ MaximumAttempts > 0 =>
       /\ attempt <= MaximumAttempts
       /\ phase = "waiting" => attempt < MaximumAttempts

\* Every step of the call keeps the strengthened limit.
LEMMA LimitStep == LimitInv /\ [Next]_vars => LimitInv'
<1> SUFFICES ASSUME LimitInv, [Next]_vars PROVE LimitInv'
  OBVIOUS
<1> USE RetryAssumption
<1>1. ASSUME NEW d \in Steps, PublishTask(d) PROVE LimitInv'
  BY <1>1 DEF LimitInv, PublishTask
<1>2. ASSUME NEW d \in Steps, Succeed(d) PROVE LimitInv'
  BY <1>2 DEF LimitInv, Succeed
<1>3. ASSUME NEW d \in Steps, NEW err \in {"transient", "fatal"}, Fail(d, err)
      PROVE  LimitInv'
  <2>1. UNCHANGED attempt /\ phase = "queued"
    BY <1>3 DEF Fail
  <2>2. PICK delay \in RetryDelay(attempt) :
          \/ MayRetry(attempt, err, now + d - scheduledAt, delay) /\ phase' = "waiting"
          \/ phase' = "failed"
    BY <1>3 DEF Fail
  <2>3. CASE MayRetry(attempt, err, now + d - scheduledAt, delay) /\ phase' = "waiting"
    <3>1. MaximumAttempts > 0 => attempt < MaximumAttempts
      BY <2>3 DEF MayRetry
    <3> QED BY <2>1, <2>3, <3>1 DEF LimitInv
  <2>4. CASE phase' = "failed"
    BY <2>1, <2>4 DEF LimitInv
  <2> QED BY <2>2, <2>3, <2>4
<1>4. CASE FireRetry
  BY <1>4 DEF LimitInv, FireRetry
<1>5. CASE UNCHANGED vars
  BY <1>5 DEF LimitInv, vars
<1> QED BY <1>1, <1>2, <1>3, <1>4, <1>5 DEF Next

(***************************************************************************)
(* For every policy, every timeout, every duration of the attempts and     *)
(* every result of an overflowing delay, evaluateRetryDecision keeps the   *)
(* number of attempts within MaximumAttempts.                              *)
(***************************************************************************)
THEOREM AttemptsAreLimited == Spec => []AttemptLimit
<1>1. Init => LimitInv
  BY RetryAssumption DEF Init, LimitInv
<1>2. LimitInv => AttemptLimit
  BY DEF LimitInv, AttemptLimit
<1> QED BY <1>1, <1>2, LimitStep, PTL DEF Spec

-----------------------------------------------------------------------------
(* The delays.                                                             *)

\* g agrees with the definition of Pow up to n.
IsPow(g, n) ==
  g = [i \in 0..n |-> IF i = 0 THEN 1 ELSE Coefficient * g[i - 1]]

\* The constants of calculateRetryDelay after its defaults.
LEMMA PolicyTypes ==
  /\ Interval \in Nat /\ Coefficient \in Nat \ {0} /\ Cap \in Nat
  BY RetryAssumption DEF Interval, Coefficient, Cap

\* There is a function that satisfies the equation of Pow.
LEMMA PowExists == \E g : g = [n \in Nat |-> IF n = 0 THEN 1 ELSE Coefficient * g[n - 1]]
<1> DEFINE S == {k \in Nat : \E g : IsPow(g, k)}
<1>1. 0 \in S
  <2> DEFINE g == [i \in 0..0 |-> 1]
  <2>1. IsPow(g, 0)
    BY DEF IsPow
  <2> HIDE DEF g
  <2> QED
    BY <2>1
<1>2. ASSUME NEW k \in Nat, k \in S PROVE k + 1 \in S
  <2>1. PICK g : IsPow(g, k)
    BY <1>2
  <2> DEFINE h == [i \in 0..(k + 1) |-> IF i <= k THEN g[i] ELSE Coefficient * g[k]]
  <2>2. ASSUME NEW i \in 0..(k + 1)
        PROVE  h[i] = IF i = 0 THEN 1 ELSE Coefficient * h[i - 1]
    <3>1. CASE i = 0
      BY <3>1, <2>1 DEF IsPow
    <3>2. CASE i # 0 /\ i <= k
      <4>1. h[i] = g[i] /\ h[i - 1] = g[i - 1]
        BY <3>2
      <4>2. g[i] = Coefficient * g[i - 1]
        BY <3>2, <2>1 DEF IsPow
      <4> QED
        BY <3>2, <4>1, <4>2
    <3>3. CASE i = k + 1
      <4>1. h[i] = Coefficient * g[k] /\ h[i - 1] = g[k]
        BY <3>3
      <4> QED
        BY <3>3, <4>1
    <3> QED
      BY <3>1, <3>2, <3>3
  <2>3. IsPow(h, k + 1)
    BY <2>2 DEF IsPow
  <2> HIDE DEF h
  <2> QED
    BY <2>3
<1>3. Nat \subseteq S
  <2> HIDE DEF S
  <2> QED
    BY <1>1, <1>2, Numbers!Induct
<1> DEFINE G(k) == CHOOSE g : IsPow(g, k)
<1>4. \A k \in Nat : IsPow(G(k), k)
  BY <1>3
<1> HIDE DEF G
<1>5. ASSUME NEW k \in Nat PROVE \A i \in 0..k : G(k)[i] = G(i)[i]
  <2> DEFINE T == {i \in Nat : i <= k => \A j \in i..k : G(j)[i] = G(i)[i]}
  <2>1. 0 \in T
    <3>1. \A j \in Nat : G(j)[0] = 1
      BY <1>4 DEF IsPow
    <3> QED
      BY <3>1
  <2>2. ASSUME NEW i \in Nat, i \in T PROVE i + 1 \in T
    <3>1. ASSUME i + 1 <= k, NEW j \in (i + 1)..k PROVE G(j)[i + 1] = G(i + 1)[i + 1]
      <4>1. G(j)[i] = G(i)[i] /\ G(i + 1)[i] = G(i)[i]
        BY <2>2, <3>1
      <4>2. /\ G(j)[i + 1] = Coefficient * G(j)[i]
            /\ G(i + 1)[i + 1] = Coefficient * G(i + 1)[i]
        BY <1>4, <3>1 DEF IsPow
      <4> QED
        BY <4>1, <4>2
    <3> QED
      BY <3>1
  <2>3. Nat \subseteq T
    <3> HIDE DEF T
    <3> QED
      BY <2>1, <2>2, Numbers!Induct
  <2> QED
    BY <2>3
<1> DEFINE f == [n \in Nat |-> G(n)[n]]
<1>6. ASSUME NEW n \in Nat PROVE f[n] = IF n = 0 THEN 1 ELSE Coefficient * f[n - 1]
  <2>1. f[n] = G(n)[n] /\ G(n)[n] = IF n = 0 THEN 1 ELSE Coefficient * G(n)[n - 1]
    BY <1>4 DEF IsPow
  <2>2. CASE n = 0
    BY <2>1, <2>2
  <2>3. CASE n # 0
    <3>1. n - 1 \in Nat /\ n - 1 \in 0..n
      BY <2>3
    <3>2. G(n)[n - 1] = G(n - 1)[n - 1] /\ f[n - 1] = G(n - 1)[n - 1]
      BY <1>5, <3>1
    <3> QED
      BY <2>1, <2>3, <3>2
  <2> QED
    BY <2>2, <2>3
<1>7. f = [n \in Nat |-> IF n = 0 THEN 1 ELSE Coefficient * f[n - 1]]
  BY <1>6
<1> HIDE DEF f
<1> QED
  BY <1>7

\* The equation of Pow.
LEMMA PowUnfolds ==
  /\ Pow[0] = 1
  /\ \A n \in Nat : Pow[n + 1] = Coefficient * Pow[n]
<1> DEFINE IsFull(g) == g = [n \in Nat |-> IF n = 0 THEN 1 ELSE Coefficient * g[n - 1]]
<1>1. Pow = CHOOSE g : IsFull(g)
  BY DEF Pow
<1>2. \E g : IsFull(g)
  BY PowExists
<1> HIDE DEF IsFull
<1>3. IsFull(Pow)
  BY <1>1, <1>2
<1> USE DEF IsFull
<1>4. \A n \in Nat : Pow[n] = IF n = 0 THEN 1 ELSE Coefficient * Pow[n - 1]
  BY <1>3
<1> QED
  BY <1>4

\* A product with a number that is not zero is no smaller.
LEMMA ProductGrows ==
  ASSUME NEW a \in Nat, NEW b \in Nat \ {0} PROVE a * b \in Nat /\ a <= a * b /\ b * a = a * b
<1>1. PICK c \in Nat : b = c + 1
  <2>1. b - 1 \in Nat /\ b = (b - 1) + 1
    OBVIOUS
  <2> QED
    BY <2>1
<1>2. a * c \in Nat /\ a * b = a * c + a
  BY <1>1
<1> QED
  BY <1>2

\* Factors keep an order.
LEMMA ProductMonotone ==
  ASSUME NEW a \in Nat, NEW x \in Nat, NEW y \in Nat, x <= y PROVE a * x <= a * y
<1>1. PICK d \in Nat : y = x + d
  <2>1. y - x \in Nat /\ y = x + (y - x)
    OBVIOUS
  <2> QED
    BY <2>1
<1>2. a * y = a * x + a * d /\ a * d \in Nat /\ a * x \in Nat
  BY <1>1
<1> QED
  BY <1>2

\* The powers are numbers.
LEMMA PowType == \A n \in Nat : Pow[n] \in Nat
<1> DEFINE S == {n \in Nat : Pow[n] \in Nat}
<1>1. 0 \in S
  BY PowUnfolds
<1>2. ASSUME NEW n \in Nat, n \in S PROVE n + 1 \in S
  <2>1. Pow[n + 1] = Coefficient * Pow[n] /\ Pow[n] \in Nat
    BY <1>2, PowUnfolds
  <2>2. Coefficient * Pow[n] \in Nat
    BY <2>1, PolicyTypes, ProductGrows
  <2> QED
    BY <2>1, <2>2
<1>3. Nat \subseteq S
  <2> HIDE DEF S
  <2> QED
    BY <1>1, <1>2, Numbers!Induct
<1> QED
  BY <1>3

\* The powers grow.
LEMMA PowGrows ==
  ASSUME NEW i \in Nat, NEW j \in Nat, i <= j PROVE Pow[i] <= Pow[j]
<1> DEFINE S == {d \in Nat : Pow[i] <= Pow[i + d]}
<1>1. 0 \in S
  BY PowType
<1>2. ASSUME NEW d \in Nat, d \in S PROVE d + 1 \in S
  <2>1. PICK k \in Nat : k = i + d
    OBVIOUS
  <2>2. Pow[k] \in Nat /\ Pow[k + 1] = Coefficient * Pow[k] /\ Pow[i] \in Nat
    BY PowType, PowUnfolds
  <2>3. Coefficient * Pow[k] \in Nat /\ Pow[k] <= Coefficient * Pow[k]
    BY <2>2, PolicyTypes, ProductGrows
  <2>4. Pow[i] <= Pow[k + 1] /\ i + (d + 1) = k + 1
    BY <1>2, <2>1, <2>2, <2>3
  <2> QED
    BY <2>4
<1>3. Nat \subseteq S
  <2> HIDE DEF S
  <2> QED
    BY <1>1, <1>2, Numbers!Induct
<1>4. j - i \in S /\ i + (j - i) = j
  BY <1>3
<1> QED
  BY <1>4

\* Where the call is and how many delays there have been, besides the types.
CallInv ==
  /\ TypeOK
  /\ attempt <= AttemptBound + 1
  /\ phase = "stored" => attempt = 0 /\ delays = <<>>
  /\ phase = "queued" => attempt = Len(delays) + 1
  /\ phase = "waiting" => attempt = Len(delays)

\* The delay that follows attempt n is an integer, at most the cap; without an
\* overflow it is the interval times the power, or the cap.
LEMMA DelayProperties ==
  ASSUME NEW n \in Nat \ {0}, NEW d \in RetryDelay(n)
  PROVE  /\ d \in Int /\ d <= Cap
         /\ Interval * Pow[n - 1] <= MaxDuration => d = AtMost(Interval * Pow[n - 1], Cap)
<1>1. PICK x : x = Interval * Pow[n - 1]
  OBVIOUS
<1>2. n - 1 \in Nat /\ Pow[n - 1] \in Nat
  BY PowType
<1>3. x \in Nat /\ Cap \in Nat /\ MaxDuration \in Nat
  BY <1>1, <1>2, PolicyTypes, RetryAssumption
<1>4. PICK y \in Converted(x) : d = AtMost(y, Cap)
  BY <1>1 DEF RetryDelay
<1>5. y \in Int /\ (x <= MaxDuration => y = x)
  BY <1>3, <1>4 DEF Converted
<1>6. d \in Int /\ d <= Cap
  BY <1>3, <1>4, <1>5 DEF AtMost
<1> QED
  BY <1>1, <1>4, <1>5, <1>6

\* What Fail does.
LEMMA FailCases ==
  ASSUME NEW d \in Steps, NEW err, Fail(d, err)
  PROVE  /\ phase = "queued" /\ now' = now + d /\ started' = Append(started, now)
         /\ UNCHANGED <<attempt, scheduledAt>>
         /\ \/ \E delay \in RetryDelay(attempt) :
                 /\ phase' = "waiting" /\ delays' = Append(delays, delay)
                 /\ wake' = now + d + (IF delay > 0 THEN delay ELSE 0)
            \/ phase' = "failed" /\ UNCHANGED <<delays, wake>>
  BY DEF Fail

\* Every step keeps the types and the number of delays.
LEMMA CallStep == CallInv /\ [Next]_vars => CallInv'
<1> SUFFICES ASSUME CallInv, [Next]_vars PROVE CallInv'
  OBVIOUS
<1> USE RetryAssumption
<1>1. ASSUME NEW d \in Steps, PublishTask(d) PROVE CallInv'
  <2>1. d \in Nat
    OBVIOUS
  <2> QED
    BY <1>1, <2>1 DEF CallInv, TypeOK, PublishTask
<1>2. ASSUME NEW d \in Steps, Succeed(d) PROVE CallInv'
  <2>1. d \in Nat
    OBVIOUS
  <2>2. started' \in Seq(Nat)
    BY <1>2 DEF CallInv, TypeOK, Succeed
  <2> QED
    BY <1>2, <2>1, <2>2 DEF CallInv, TypeOK, Succeed
<1>3. ASSUME NEW d \in Steps, NEW err \in {"transient", "fatal"}, Fail(d, err)
      PROVE  CallInv'
  <2>1. /\ phase = "queued" /\ now' = now + d /\ started' = Append(started, now)
        /\ UNCHANGED <<attempt, scheduledAt>>
        /\ \/ \E delay \in RetryDelay(attempt) :
                /\ phase' = "waiting" /\ delays' = Append(delays, delay)
                /\ wake' = now + d + (IF delay > 0 THEN delay ELSE 0)
           \/ phase' = "failed" /\ UNCHANGED <<delays, wake>>
    BY <1>3, FailCases
  <2>2. d \in Nat /\ now \in Nat /\ started \in Seq(Nat) /\ delays \in Seq(Int)
    BY DEF CallInv, TypeOK
  <2>3. started' \in Seq(Nat)
    BY <2>1, <2>2
  <2>4. CASE phase' = "failed" /\ UNCHANGED <<delays, wake>>
    BY <2>1, <2>2, <2>3, <2>4 DEF CallInv, TypeOK
  <2>5. CASE \E delay \in RetryDelay(attempt) :
               /\ phase' = "waiting" /\ delays' = Append(delays, delay)
               /\ wake' = now + d + (IF delay > 0 THEN delay ELSE 0)
    <3>1. PICK delay \in RetryDelay(attempt) :
               /\ phase' = "waiting" /\ delays' = Append(delays, delay)
               /\ wake' = now + d + (IF delay > 0 THEN delay ELSE 0)
      BY <2>5
    <3>2. attempt = Len(delays) + 1 /\ attempt \in Nat \ {0}
      BY <2>1, <2>2 DEF CallInv
    <3>3. delay \in Int
      BY <3>2, DelayProperties
    <3>4. delays' \in Seq(Int) /\ Len(delays') = Len(delays) + 1
      BY <2>2, <3>1, <3>3
    <3>5. wake' \in Nat
      BY <2>2, <3>1, <3>3
    <3> QED
      BY <2>1, <2>2, <2>3, <3>1, <3>2, <3>4, <3>5 DEF CallInv, TypeOK
  <2> QED
    BY <2>1, <2>4, <2>5
<1>4. CASE FireRetry
  <2>1. /\ phase = "waiting" /\ attempt < AttemptBound
        /\ phase' = "queued" /\ attempt' = attempt + 1
        /\ now' = wake /\ scheduledAt' = 0
        /\ wake' = wake /\ delays' = delays /\ started' = started
    BY <1>4 DEF FireRetry
  <2>2. attempt \in Nat /\ wake \in Nat /\ attempt = Len(delays)
    BY <2>1 DEF CallInv, TypeOK
  <2>3. delays' \in Seq(Int) /\ started' \in Seq(Nat)
    BY <2>1 DEF CallInv, TypeOK
  <2>4. attempt' \in Nat /\ attempt' <= AttemptBound + 1 /\ scheduledAt' \in 0..now'
    BY <2>1, <2>2
  <2>5. attempt' = Len(delays') + 1
    BY <2>1, <2>2
  <2>6. TypeOK'
    BY <2>1, <2>2, <2>3, <2>4 DEF TypeOK
  <2> QED
    BY <2>1, <2>4, <2>5, <2>6 DEF CallInv
<1>5. CASE UNCHANGED vars
  BY <1>5 DEF CallInv, TypeOK, vars
<1> QED
  BY <1>1, <1>2, <1>3, <1>4, <1>5 DEF Next

\* Nothing was attempted at first.
LEMMA CallInit == Init => CallInv
<1> SUFFICES ASSUME Init PROVE CallInv
  OBVIOUS
<1>1. <<>> \in Seq(Int) /\ <<>> \in Seq(Nat)
  OBVIOUS
<1> QED
  BY <1>1, RetryAssumption DEF Init, CallInv, TypeOK

(***************************************************************************)
(* Types of the call, whatever calculateRetryDelay makes of an overflow: a *)
(* retry never wakes up at a time that is not a time, and the stamp of a   *)
(* task is never later than its publication.                               *)
(***************************************************************************)
THEOREM TypeCorrect == Spec => []TypeOK
<1>1. CallInv => TypeOK
  BY DEF CallInv
<1> QED
  BY <1>1, CallInit, CallStep, PTL DEF Spec

\* The largest delay of the call fits a Duration.
NoOverflow == Interval * Pow[AttemptBound] <= MaxDuration

\* The delays are those of the policy, in order.
DelaysFollowPolicy ==
  \A i \in DOMAIN delays : delays[i] = AtMost(Interval * Pow[i - 1], Cap)

\* Every step keeps the delays those of the policy.
LEMMA DelaysStep ==
  ASSUME NoOverflow, CallInv, DelaysFollowPolicy, [Next]_vars
  PROVE  DelaysFollowPolicy'
<1>1. CASE UNCHANGED delays
  BY <1>1 DEF DelaysFollowPolicy
<1>2. ASSUME NEW d \in Steps, NEW err, Fail(d, err), ~ (UNCHANGED delays)
      PROVE  DelaysFollowPolicy'
  <2>1. PICK delay \in RetryDelay(attempt) : phase = "queued" /\ delays' = Append(delays, delay)
    BY <1>2, FailCases
  <2>2. PICK n \in Nat : /\ n = Len(delays) /\ DOMAIN delays = 1..n /\ delays \in Seq(Int)
                         /\ attempt = n + 1 /\ n <= AttemptBound
    <3>1. delays \in Seq(Int) /\ attempt = Len(delays) + 1 /\ attempt <= AttemptBound + 1
      BY <2>1 DEF CallInv, TypeOK
    <3>2. Len(delays) \in Nat /\ DOMAIN delays = 1..Len(delays)
      BY <3>1
    <3>3. PICK l : l = Len(delays)
      OBVIOUS
    <3>4. l \in Nat /\ DOMAIN delays = 1..l /\ attempt = l + 1
      BY <3>1, <3>2, <3>3
    <3>5. l <= AttemptBound
      <4>1. l + 1 <= AttemptBound + 1
        BY <3>1, <3>3
      <4> QED
        BY <3>4, <4>1, RetryAssumption
    <3> QED
      BY <3>1, <3>3, <3>4, <3>5
  <2>3. Interval * Pow[n] <= MaxDuration
    <3>1. Pow[n] \in Nat /\ Pow[AttemptBound] \in Nat /\ Pow[n] <= Pow[AttemptBound]
      BY <2>2, PowType, PowGrows, RetryAssumption
    <3>2. Interval * Pow[n] <= Interval * Pow[AttemptBound]
      BY <3>1, PolicyTypes, ProductMonotone
    <3>3. Interval * Pow[n] \in Nat /\ Interval * Pow[AttemptBound] \in Nat /\ MaxDuration \in Nat
      BY <3>1, PolicyTypes, RetryAssumption
    <3> QED
      BY <3>2, <3>3 DEF NoOverflow
  <2>4. delay \in Int /\ delay = AtMost(Interval * Pow[n], Cap)
    <3>1. n + 1 \in Nat \ {0} /\ (n + 1) - 1 = n
      OBVIOUS
    <3> QED
      BY <2>1, <2>2, <2>3, <3>1, DelayProperties
  <2>5. /\ DOMAIN delays' = 1..(n + 1)
        /\ \A i \in 1..n : delays'[i] = delays[i]
        /\ delays'[n + 1] = delay
    BY <2>1, <2>2, <2>4
  <2>6. ASSUME NEW i \in 1..(n + 1) PROVE delays'[i] = AtMost(Interval * Pow[i - 1], Cap)
    <3>1. CASE i \in 1..n
      BY <2>2, <2>5, <3>1 DEF DelaysFollowPolicy
    <3>2. CASE i = n + 1
      <4>1. i - 1 = n
        BY <3>2
      <4> QED
        BY <2>4, <2>5, <3>2, <4>1
    <3> QED
      BY <3>1, <3>2
  <2> QED
    BY <2>5, <2>6 DEF DelaysFollowPolicy
<1>3. CASE ~ (\E d \in Steps, err \in {"transient", "fatal"} : Fail(d, err))
  <2>1. UNCHANGED delays
    BY <1>3 DEF Next, vars, PublishTask, Succeed, FireRetry
  <2> QED
    BY <1>1, <2>1
<1> QED
  BY <1>1, <1>2, <1>3

\* Delays that follow the policy grow up to the cap.
LEMMA PolicyGrows ==
  ASSUME CallInv, DelaysFollowPolicy PROVE BackoffGrows
<1>1. PICK n \in Nat : DOMAIN delays = 1..n
  <2>1. delays \in Seq(Int)
    BY DEF CallInv, TypeOK
  <2> QED
    BY <2>1
<1>2. ASSUME NEW i \in 1..n
      PROVE  delays[i] <= Cap /\ (i > 1 => delays[i - 1] <= delays[i])
  <2>1. i - 1 \in Nat /\ Pow[i - 1] \in Nat
    BY PowType
  <2>2. PICK x : x = Interval * Pow[i - 1]
    OBVIOUS
  <2>3. x \in Nat /\ Cap \in Nat /\ delays[i] = AtMost(x, Cap)
    BY <1>1, <2>1, <2>2, PolicyTypes DEF DelaysFollowPolicy
  <2>4. ASSUME i > 1 PROVE delays[i - 1] <= delays[i]
    <3>1. i - 1 \in 1..n /\ i - 2 \in Nat /\ (i - 1) - 1 = i - 2
      BY <2>4
    <3>2. Pow[i - 2] \in Nat /\ Pow[i - 2] <= Pow[i - 1]
      BY <2>1, <3>1, PowType, PowGrows
    <3>3. PICK y : y = Interval * Pow[i - 2]
      OBVIOUS
    <3>4. y \in Nat /\ y <= x
      BY <2>1, <2>2, <3>2, <3>3, PolicyTypes, ProductMonotone
    <3>5. delays[i - 1] = AtMost(y, Cap)
      BY <1>1, <3>1, <3>3 DEF DelaysFollowPolicy
    <3> QED
      BY <2>3, <3>4, <3>5 DEF AtMost
  <2>5. delays[i] <= Cap
    BY <2>3 DEF AtMost
  <2> QED
    BY <2>4, <2>5
<1> QED
  BY <1>1, <1>2 DEF BackoffGrows

(***************************************************************************)
(* As long as the delays fit a Duration, calculateRetryDelay never makes   *)
(* the next delay shorter and never exceeds the maximum interval.  Without *)
(* the hypothesis this is false: a float that is too large is converted to *)
(* the smallest Duration on some processors, and the retry comes at once.  *)
(***************************************************************************)
THEOREM BackoffOnlyGrows == ASSUME NoOverflow PROVE Spec => []BackoffGrows
<1> DEFINE I == CallInv /\ DelaysFollowPolicy
<1>1. Init => I
  <2>1. Init => DelaysFollowPolicy
    BY DEF Init, DelaysFollowPolicy
  <2> QED
    BY <2>1, CallInit
<1>2. I /\ [Next]_vars => I'
  BY CallStep, DelaysStep
<1>3. I => BackoffGrows
  BY PolicyGrows
<1> QED
  BY <1>1, <1>2, <1>3, PTL DEF Spec
=============================================================================
