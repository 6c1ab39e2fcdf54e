---------------------------- MODULE ActivityRetry ----------------------------
(***************************************************************************)
(* One call of an activity in time: from its ActivityScheduled event over  *)
(* failing attempts and backoff delays to its outcome.                     *)
(*                                                                         *)
(* Times are milliseconds since the event was stored.  Options that are    *)
(* not set are 0, as in the Go structs; the policy reaches the worker in   *)
(* whole milliseconds.                                                     *)
(***************************************************************************)
EXTENDS Integers, Sequences

CONSTANTS
  InitialInterval, BackoffCoefficient, MaximumInterval, MaximumAttempts,
  ScheduleToClose,    \* ActivityOptions.ScheduleToCloseTimeout
  DefaultInterval,    \* one second
  UnixSeconds,        \* wall clock in seconds when the call was made
  MaxDuration,        \* largest time.Duration
  Steps,              \* how long a queue wait or an attempt may take
  AttemptBound        \* bound: attempts made

ASSUME RetryAssumption ==
  /\ InitialInterval \in Nat /\ BackoffCoefficient \in Nat
  /\ MaximumInterval \in Nat /\ MaximumAttempts \in Nat
  /\ ScheduleToClose \in Nat /\ UnixSeconds \in Nat
  /\ DefaultInterval \in Nat \ {0} /\ MaxDuration \in Nat
  /\ Steps \subseteq Nat /\ AttemptBound \in Nat

VARIABLES
  phase,         \* stored, queued, waiting, completed or failed
  attempt,       \* number carried by the current task
  now,           \* time
  scheduledAt,   \* ScheduledAtMs of the current task
  wake,          \* when the sleeping retry goroutine wakes up
  delays,        \* NextRetryDelay of every ActivityRetried so far
  started        \* when every attempt so far was started

vars == <<phase, attempt, now, scheduledAt, wake, delays, started>>

-----------------------------------------------------------------------------
(* calculateRetryDelay                                                     *)

Interval == IF InitialInterval = 0 THEN DefaultInterval ELSE InitialInterval
Coefficient == IF BackoffCoefficient = 0 THEN 2 ELSE BackoffCoefficient
Cap == IF MaximumInterval = 0 THEN 100 * Interval ELSE MaximumInterval

\* The power of the coefficient that calculateRetryDelay takes.
Pow[n \in Nat] == IF n = 0 THEN 1 ELSE Coefficient * Pow[n - 1]

\* A float too large for a Duration becomes the smallest or the largest one,
\* depending on the processor.
Converted(x) == IF x <= MaxDuration THEN {x} ELSE {MaxDuration, -MaxDuration - 1}

AtMost(d, limit) == IF d <= limit THEN d ELSE limit

\* Mutant: the maximum interval is not applied.
RetryDelayUncapped(n) == Converted(Interval * Pow[n - 1])

\* The delays that may follow the failure of attempt n.
RetryDelay(n) == {AtMost(d, Cap) : d \in Converted(Interval * Pow[n - 1])}

\* ScheduleToCloseTimeoutUnix as ExecuteActivity fills it in: the wall clock in
\* seconds plus the timeout in milliseconds.
Deadline == IF ScheduleToClose = 0 THEN 0 ELSE UnixSeconds + ScheduleToClose

\* Mutant: the limit is checked after the attempt it should have prevented.
MayRetryOneMore(n, err, elapsed, delay) ==
  /\ MaximumAttempts > 0 => n <= MaximumAttempts
  /\ err # "fatal"
  /\ Deadline > 0 => elapsed + delay <= Deadline

\* evaluateRetryDecision, for a task with a policy.
MayRetry(n, err, elapsed, delay) ==
  /\ MaximumAttempts > 0 => n < MaximumAttempts
  /\ err # "fatal"
  /\ Deadline > 0 => elapsed + delay <= Deadline

-----------------------------------------------------------------------------
Init ==
  /\ phase = "stored" /\ attempt = 0
  /\ now = 0 /\ scheduledAt = 0 /\ wake = 0
  /\ delays = <<>> /\ started = <<>>

\* Mutant: the task is stamped with the deadline of the call.
PublishTaskDeadline(d) ==
  /\ phase = "stored"
  /\ phase' = "queued" /\ attempt' = 1
  /\ now' = now + d /\ scheduledAt' = now + d + ScheduleToClose
  /\ UNCHANGED <<wake, delays, started>>

\* The ActivityTasks projector publishes the first task and stamps it.
PublishTask(d) ==
  /\ phase = "stored"
  /\ phase' = "queued" /\ attempt' = 1
  /\ now' = now + d /\ scheduledAt' = now + d
  /\ UNCHANGED <<wake, delays, started>>

\* A worker runs the activity for d ms and it succeeds.
Succeed(d) ==
  /\ phase = "queued"
  /\ phase' = "completed"
  /\ now' = now + d /\ started' = Append(started, now)
  /\ UNCHANGED <<attempt, scheduledAt, wake, delays>>

\* It fails: processActivityTask records ActivityRetried or ActivityFailed.
Fail(d, err) ==
  /\ phase = "queued"
  /\ now' = now + d /\ started' = Append(started, now)
  /\ \E delay \in RetryDelay(attempt) :
       \/ /\ MayRetry(attempt, err, now + d - scheduledAt, delay)
          /\ phase' = "waiting"
          /\ delays' = Append(delays, delay)
          /\ wake' = now + d + (IF delay > 0 THEN delay ELSE 0)
       \/ /\ ~MayRetry(attempt, err, now + d - scheduledAt, delay)
          /\ phase' = "failed"
          /\ UNCHANGED <<delays, wake>>
  /\ UNCHANGED <<attempt, scheduledAt>>

\* The retry goroutine wakes up; the new task is stamped with the time at which
\* the ActivityScheduled event was stored.
FireRetry ==
  /\ phase = "waiting"
  /\ attempt < AttemptBound
  /\ phase' = "queued" /\ attempt' = attempt + 1
  /\ now' = wake /\ scheduledAt' = 0
  /\ UNCHANGED <<wake, delays, started>>

Next ==
  \/ \E d \in Steps : PublishTask(d) \/ Succeed(d)
  \/ \E d \in Steps, err \in {"transient", "fatal"} : Fail(d, err)
  \/ FireRetry

Spec == Init /\ [][Next]_vars

-----------------------------------------------------------------------------
\* Types; a task is never older than its event.
TypeOK ==
  /\ phase \in {"stored", "queued", "waiting", "completed", "failed"}
  /\ attempt \in Nat /\ now \in Nat /\ wake \in Nat
  /\ scheduledAt \in 0..now
  /\ delays \in Seq(Int) /\ started \in Seq(Nat)

(***************************************************************************)
(* However the attempts end and however long they take, no attempt beyond  *)
(* the maximum is made.                                                    *)
(***************************************************************************)
AttemptLimit == MaximumAttempts > 0 => attempt <= MaximumAttempts

(***************************************************************************)
(* Backoff as the options describe it: the delays never shrink from one    *)
(* retry to the next, and the maximum interval caps them.                  *)
(***************************************************************************)
BackoffGrows ==
  \A i \in DOMAIN delays :
    /\ delays[i] <= Cap
    /\ i > 1 => delays[i - 1] <= delays[i]

(***************************************************************************)
(* ScheduleToCloseTimeout is the total time allowed for the activity       *)
(* including retries: no attempt is started after it.                      *)
(***************************************************************************)
WithinScheduleToClose ==
  ScheduleToClose > 0 =>
    \A i \in DOMAIN started : started[i] <= ScheduleToClose
=============================================================================
