----------------------------- MODULE Supervision -----------------------------
(***************************************************************************)
(* A supervisor over time: Supervisor.Handle, RestartTracker.Record and    *)
(* the delays of ExponentialBackoffStrategy (supervision/supervisor.go and *)
(* strategy.go), with the sleep of runActor before a restart.              *)
(*                                                                         *)
(* ActorSystem leaves open which failures are still in the window; here    *)
(* the clock decides it.  The clock is read once per failure and does not  *)
(* go back (time.Now is monotonic).  The strategies that have no Delay are *)
(* the case InitialDelay = 0.  Of the directives only Restart reaches the  *)
(* tracker: Handle returns before it on any other.                         *)
(***************************************************************************)
EXTENDS Integers, Sequences, FiniteSets

CONSTANTS
  Actors,
  MaxRestarts, Within,
  InitialDelay, Multiplier, MaxDelay,
  MaxDuration,   \* the largest time.Duration
  MaxTime        \* bound on the clock

ASSUME SupervisionAssumption ==
  /\ MaxRestarts \in Nat /\ Within \in Nat \ {0}
  /\ InitialDelay \in Nat /\ Multiplier \in Nat \ {0} /\ MaxDelay \in Nat
  /\ MaxDuration \in Nat /\ MaxDelay <= MaxDuration
  /\ MaxTime \in Nat

VARIABLES
  now,
  record,    \* record[a]: RestartTracker.records, <<>> when there is none
  wakes,     \* wakes[a]: when a has slept before its restart
  failures,  \* ghost: the times of all failures since the tracker's last Reset,
             \* up to the one that has caused the next
  escalated  \* ghost: has the last failure been escalated?

trackerVars == <<now, record, wakes, failures, escalated>>

TrackerInit ==
  /\ now = 0
  /\ record = [a \in Actors |-> <<>>]
  /\ wakes = [a \in Actors |-> 0]
  /\ failures = [a \in Actors |-> <<>>]
  /\ escalated = [a \in Actors |-> FALSE]

-----------------------------------------------------------------------------

\* Faulty: a failure exactly one window old still counts.
Younger_Inclusive(t) == t >= now - Within

\* timestamp.After(cutoff)
Younger(t) == t > now - Within

\* the record from the first entry on that is young enough, and now
Recorded(r) ==
  LET first == CHOOSE i \in 1..(Len(r) + 1) :
                 /\ i <= Len(r) => Younger(r[i])
                 /\ \A j \in 1..(i - 1) : ~Younger(r[j])
  IN Append(SubSeq(r, first, Len(r)), now)

\* math.Pow(multiplier, n)
pow[n \in Nat] == IF n = 0 THEN 1 ELSE Multiplier * pow[n - 1]

\* initialDelay * multiplier^(n-1)
Product(n) == InitialDelay * pow[n - 1]

\* Faulty: the multiplier is not used.
Delays_Constant(n) == {InitialDelay}

\* ExponentialBackoffStrategy.Delay of n >= 1 restarts.  Beyond the range of
\* Duration the conversion from float64 gives, by the processor, the smallest
\* value, which is below maxDelay and no reason to sleep, or the largest.
Delays(n) ==
  IF Product(n) > MaxDuration THEN {0, MaxDelay}
  ELSE {IF Product(n) > MaxDelay THEN MaxDelay ELSE Product(n)}

\* a fails, not before it has slept; Handle answers Restart or gives it up
Handle(a) ==
  LET r == Recorded(record[a]) IN
  /\ wakes[a] <= now
  /\ failures' = [failures EXCEPT ![a] = Append(IF escalated[a] THEN <<>> ELSE @, now)]
  /\ \/ /\ Len(r) > MaxRestarts
        /\ record' = [record EXCEPT ![a] = <<>>]
        /\ escalated' = [escalated EXCEPT ![a] = TRUE]
        /\ UNCHANGED wakes
     \/ /\ Len(r) <= MaxRestarts
        /\ record' = [record EXCEPT ![a] = r]
        /\ escalated' = [escalated EXCEPT ![a] = FALSE]
        /\ \E d \in Delays(Len(r)) : wakes' = [wakes EXCEPT ![a] = now + d]
  /\ UNCHANGED now

Clock ==
  /\ now < MaxTime
  /\ now' = now + 1
  /\ UNCHANGED <<record, wakes, failures, escalated>>

TrackerNext == Clock \/ \E a \in Actors : Handle(a)

TrackerSpec == TrackerInit /\ [][TrackerNext]_trackerVars

-----------------------------------------------------------------------------
(* Properties. *)

TrackerTypeOK ==
  /\ now \in 0..MaxTime
  /\ record \in [Actors -> Seq(0..MaxTime)]
  /\ wakes \in [Actors -> Nat]
  /\ failures \in [Actors -> Seq(0..MaxTime)]
  /\ escalated \in [Actors -> BOOLEAN]

\* how many of the failures before the i-th are in its window
Before(h, i) == Cardinality({j \in 1..(i - 1) : h[j] > h[i] - Within})

\* Although the tracker forgets what leaves the window, what it has kept decides
\* as the whole history would: a failure is escalated if and only if it follows
\* MaxRestarts others in its window, none of them before the last escalation.
EscalatesBeyondLimit ==
  \A a \in Actors : \A i \in 1..Len(failures[a]) :
    (escalated[a] /\ i = Len(failures[a])) <=> Before(failures[a], i) >= MaxRestarts

\* A restarted actor fails again only after the delay that its failures in the
\* window call for: the initial one, multiplied for each of them, up to
\* maxDelay, as long as the product is a Duration.
BackoffSpacesFailures ==
  \A a \in Actors : \A i \in 1..(Len(failures[a]) - 1) :
    LET n == Before(failures[a], i) + 1
        pause == failures[a][i + 1] - failures[a][i]
    IN Product(n) <= MaxDuration => pause >= Product(n) \/ pause >= MaxDelay
=============================================================================
