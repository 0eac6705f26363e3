------------------------------- MODULE Outbox -------------------------------
(***************************************************************************)
(* The transactional outbox of SCIMage: the webhook_deliveries table       *)
(* (internal/store/outbox.go) and the dispatchers that drain it            *)
(* (internal/webhook/dispatcher.go).                                       *)
(*                                                                         *)
(* A dispatcher claims a batch of due rows in one UPDATE, which counts the *)
(* attempt and pushes next_attempt_at past a lease, then POSTs the rows    *)
(* one after the other and records each outcome in a statement of its own. *)
(* Several dispatchers may share the table; each may stall, crash between  *)
(* any two steps, be shut down, or lose the answer of a statement.         *)
(*                                                                         *)
(* Time is kept as timers that count down, so that the model needs no      *)
(* absolute clock: due[i] is next_attempt_at - now, age[i] is              *)
(* now - delivered_at, by the database's now(). Two values come from a     *)
(* dispatcher's own clock, which may be off by ClockSkew either way: the   *)
(* time of a retry and the cutoff of the retention sweep.                  *)
(***************************************************************************)
EXTENDS Integers, FiniteSets

CONSTANTS
  Ids,          \* webhook_deliveries.id: numbers, because claims order by id
  Dispatchers,  \* dispatcher processes sharing the table
  NoId,         \* "no delivery in hand"
  Poll,         \* Config.Poll, in ticks
  Timeout,      \* Config.Timeout: the most one POST may take
  Batch,        \* Config.Batch
  MaxAttempts,  \* Config.MaxAttempts
  Backoff,      \* Dispatcher.backoff before jitter, as a function of attempts
  Retention,    \* Config.Retention; 0 switches the sweep off
  ClockSkew,    \* how far a dispatcher's clock may be behind or ahead of the database's
  MaxStall,     \* ticks a dispatcher may lose, per batch, outside its POSTs
  Poison,       \* deliveries whose POST may kill the dispatcher, any number of times
  AttemptCap,   \* bound: attempt counters saturate here
  MaxOverdue,   \* bound: due timers stop counting this far below zero
  MaxFaults,    \* bound: crashes, shutdowns and lost answers in a behaviour
  MaxReplays    \* bound: replays of one delivery

ASSUME IdsAssumption ==
  Ids \subseteq Nat /\ IsFiniteSet(Ids) /\ NoId \notin Ids /\ Poison \subseteq Ids

ASSUME ConfigAssumption ==
  /\ Poll \in Nat \ {0} /\ Timeout \in Nat \ {0} /\ Batch \in Nat \ {0}
  /\ MaxAttempts \in Nat \ {0} /\ Retention \in Nat /\ MaxStall \in Nat
  /\ ClockSkew \in Nat
  /\ Backoff \in [1 .. MaxAttempts -> Nat \ {0}]

ASSUME BoundsAssumption ==
  /\ AttemptCap \in Nat /\ AttemptCap > MaxAttempts
  /\ MaxOverdue \in Nat /\ MaxFaults \in Nat /\ MaxReplays \in Nat

VARIABLES
  \* the table, one function per column
  status, attempts, due, age, last_error,
  \* the admin_audit_log rows of action webhook.replay, counted per delivery
  replays,
  \* the dispatchers
  proc,      \* process: running, stopping (context cancelled) or down
  batch,     \* claimed, not yet sent
  claim,     \* Delivery.Attempts as the claim returned it
  cur,       \* the delivery being sent
  stage,     \* how far its attempt has got
  timer,     \* ticks left before the HTTP client times the POST out
  slack,     \* ticks this batch may still stall
  \* history
  received,  \* deliveries the receiver has accepted at least once
  tries,     \* since queueing or replay: POSTs begun plus claims lost unsent
  faults

table     == <<status, attempts, due, age, last_error, replays>>
processes == <<proc, batch, claim, cur, stage, timer, slack>>
history   == <<received, tries, faults>>
vars      == <<table, processes, history>>

Statuses == {"none", "pending", "delivered", "dead_letter", "purged"}
Causes   == {"none", "transient", "permanent"}
Outcomes == {"ok", "retry", "permanent"}
Stages   == {"idle", "sending", "landed"} \cup Outcomes

\* The columns and the dispatchers' variables hold values of their types; in
\* particular last_error is a cause, never a raw outcome (attempt).
TypeOK ==
  /\ status \in [Ids -> Statuses]
  /\ attempts \in [Ids -> Nat] /\ tries \in [Ids -> Nat]
  /\ due \in [Ids -> Int] /\ age \in [Ids -> Nat]
  /\ last_error \in [Ids -> Causes] /\ replays \in [Ids -> Nat]
  /\ proc \in [Dispatchers -> {"running", "stopping", "down"}]
  /\ batch \in [Dispatchers -> SUBSET Ids]
  /\ claim \in [Dispatchers -> [Ids -> Nat]]
  /\ cur \in [Dispatchers -> Ids \cup {NoId}]
  /\ stage \in [Dispatchers -> Stages]
  /\ timer \in [Dispatchers -> Nat] /\ slack \in [Dispatchers -> Nat]
  /\ received \subseteq Ids /\ faults \in Nat

Init ==
  /\ status = [i \in Ids |-> "none"]
  /\ attempts = [i \in Ids |-> 0]
  /\ due = [i \in Ids |-> 0]
  /\ age = [i \in Ids |-> 0]
  /\ last_error = [i \in Ids |-> "none"]
  /\ replays = [i \in Ids |-> 0]
  /\ proc = [d \in Dispatchers |-> "running"]
  /\ batch = [d \in Dispatchers |-> {}]
  /\ claim = [d \in Dispatchers |-> [i \in Ids |-> 0]]
  /\ cur = [d \in Dispatchers |-> NoId]
  /\ stage = [d \in Dispatchers |-> "idle"]
  /\ timer = [d \in Dispatchers |-> 0]
  /\ slack = [d \in Dispatchers |-> 0]
  /\ received = {}
  /\ tries = [i \in Ids |-> 0]
  /\ faults = 0

-----------------------------------------------------------------------------
(* What a dispatcher holds, and the arithmetic of one attempt. *)

Held(d)    == batch[d] \cup {i \in Ids : cur[d] = i}
Working(d) == stage[d] # "idle" \/ batch[d] # {}
Sending(d) == stage[d] \in {"sending", "landed"}

\* attempts = attempts + 1, saturating at the model's bound.
Charge(n) == IF n < AttemptCap THEN n + 1 ELSE n

\* d.now() less the database's now().
Offsets == (0 - ClockSkew) .. ClockSkew

\* The history of S's attempts that will never be sent.
ChargeTries(S) == tries' = [i \in Ids |-> IF i \in S THEN Charge(tries[i]) ELSE tries[i]]

\* Mutant: a lease sized to one delivery instead of to the whole batch.
LeaseForOneSend == Poll + Timeout

LeaseFor == Poll + Batch * Timeout

\* Mutant: rows whose budget is used up are no longer claimed.
DueWithinBudget ==
  {i \in Ids : status[i] = "pending" /\ due[i] <= 0 /\ attempts[i] < MaxAttempts}

DueRows == {i \in Ids : status[i] = "pending" /\ due[i] <= 0}

Before(i, j) == due[i] < due[j] \/ (due[i] = due[j] /\ i < j)

\* ORDER BY next_attempt_at, id LIMIT Batch
IsDueBatch(S) ==
  /\ S \subseteq DueRows /\ S # {} /\ Cardinality(S) <= Batch
  /\ \A i \in S, j \in DueRows \ S : Before(i, j)
  /\ DueRows # S => Cardinality(S) = Batch

\* Mutant: one attempt too few before the dead-letter queue.
FinalOneEarly(d) == stage[d] = "permanent" \/ claim[d][cur[d]] + 1 >= MaxAttempts

Final(d) == stage[d] = "permanent" \/ claim[d][cur[d]] >= MaxAttempts

\* Mutant: an outcome is written whatever the row has become.
AlwaysOpen(i) == status[i] # "purged"

\* WHERE id = $1 AND status = 'pending', the guard of the three outcomes.
Open(i) == status[i] = "pending"

\* Mutant: a POST that timed out is taken for a delivery.
NotRefused(d) == stage[d] \in {"ok", "retry"}

Succeeded(d) == stage[d] = "ok"

-----------------------------------------------------------------------------
(* The table changes from outside the dispatchers. *)

\* A committed user or group change queues its event: enqueue's INSERT takes
\* the column defaults status = 'pending', attempts = 0, next_attempt_at = now().
Enqueue(i) ==
  /\ status[i] = "none"
  /\ status' = [status EXCEPT ![i] = "pending"]
  /\ UNCHANGED <<attempts, due, age, last_error, replays, processes, history>>

\* Mutant: the attempts already spent are not forgiven.
KeepAttempts(i) == attempts

ResetAttempts(i) == [attempts EXCEPT ![i] = 0]

\* An operator returns a parked delivery to the queue; the admin audit row is
\* written by the same transaction.
ReplayDeadLetter(i) ==
  /\ status[i] = "dead_letter"
  /\ replays[i] < MaxReplays
  /\ status' = [status EXCEPT ![i] = "pending"]
  /\ attempts' = ResetAttempts(i)
  /\ due' = [due EXCEPT ![i] = 0]
  /\ last_error' = [last_error EXCEPT ![i] = "none"]
  /\ replays' = [replays EXCEPT ![i] = @ + 1]
  /\ tries' = [tries EXCEPT ![i] = 0]
  /\ UNCHANGED <<age, processes, received, faults>>

-----------------------------------------------------------------------------
(* One turn of Dispatcher.Run: claim a batch, send it, record each outcome. *)

\* The effect of the claiming UPDATE on the table.
ClaimRows(S) ==
  /\ attempts' = [i \in Ids |-> IF i \in S THEN Charge(attempts[i]) ELSE attempts[i]]
  /\ due' = [i \in Ids |-> IF i \in S THEN LeaseFor ELSE due[i]]
  /\ UNCHANGED <<status, age, last_error, replays>>

ClaimDueDeliveries(d) ==
  /\ proc[d] = "running" /\ ~Working(d)
  /\ \E S \in SUBSET Ids :
       /\ IsDueBatch(S)
       /\ ClaimRows(S)
       /\ batch' = [batch EXCEPT ![d] = S]
       /\ claim' = [claim EXCEPT ![d] =
                      [i \in Ids |-> IF i \in S THEN Charge(attempts[i]) ELSE 0]]
  /\ slack' = [slack EXCEPT ![d] = MaxStall]
  /\ UNCHANGED <<proc, cur, stage, timer, history>>

\* The UPDATE commits and its answer never arrives: drain returns the error
\* and the rows wait out a lease nobody holds.
ClaimAnswerLost(d) ==
  /\ proc[d] = "running" /\ ~Working(d) /\ faults < MaxFaults
  /\ \E S \in SUBSET Ids : IsDueBatch(S) /\ ClaimRows(S) /\ ChargeTries(S)
  /\ faults' = faults + 1
  /\ UNCHANGED <<processes, received>>

\* drain takes the next claimed row. RETURNING promises no order.
StartSend(d) ==
  /\ proc[d] = "running" /\ stage[d] = "idle"
  /\ \E i \in batch[d] :
       /\ batch' = [batch EXCEPT ![d] = @ \ {i}]
       /\ cur' = [cur EXCEPT ![d] = i]
       /\ ChargeTries({i})
  /\ stage' = [stage EXCEPT ![d] = "sending"]
  /\ timer' = [timer EXCEPT ![d] = Timeout]
  /\ UNCHANGED <<table, proc, claim, slack, received, faults>>

\* The receiver accepts the event while the POST is open.
ReceiverAccepts(d) ==
  /\ stage[d] = "sending"
  /\ stage' = [stage EXCEPT ![d] = "landed"]
  /\ received' = received \cup {cur[d]}
  /\ UNCHANGED <<table, proc, batch, claim, cur, timer, slack, tries, faults>>

\* send returns: 2xx; a retryable status, a transport error or a timeout, all
\* of which may hide an accepted event; or a refusal that retrying cannot fix.
SendReturns(d) ==
  /\ Sending(d)
  /\ \E r \in Outcomes :
       /\ r = "ok" => stage[d] = "landed"
       /\ r = "permanent" => stage[d] = "sending"
       /\ stage' = [stage EXCEPT ![d] = r]
  /\ timer' = [timer EXCEPT ![d] = 0]
  /\ UNCHANGED <<table, proc, batch, claim, cur, slack, history>>

\* attempt is over: the dispatcher lets go of the row.
Forget(d) ==
  /\ cur' = [cur EXCEPT ![d] = NoId]
  /\ stage' = [stage EXCEPT ![d] = "idle"]
  /\ claim' = [claim EXCEPT ![d][cur[d]] = 0]
  /\ UNCHANGED <<proc, batch, timer, slack>>

MarkDelivered(d) ==
  /\ proc[d] = "running" /\ stage[d] \in Outcomes /\ Succeeded(d)
  /\ IF Open(cur[d])
       THEN /\ status' = [status EXCEPT ![cur[d]] = "delivered"]
            /\ age' = [age EXCEPT ![cur[d]] = 0]
            /\ last_error' = [last_error EXCEPT ![cur[d]] = "none"]
       ELSE UNCHANGED <<status, age, last_error>>
  /\ Forget(d)
  /\ UNCHANGED <<attempts, due, replays, history>>

Cause(d) == IF stage[d] = "permanent" THEN "permanent" ELSE "transient"

DeadLetterDelivery(d) ==
  /\ proc[d] = "running" /\ stage[d] \in Outcomes /\ ~Succeeded(d) /\ Final(d)
  /\ IF Open(cur[d])
       THEN /\ status' = [status EXCEPT ![cur[d]] = "dead_letter"]
            /\ last_error' = [last_error EXCEPT ![cur[d]] = Cause(d)]
       ELSE UNCHANGED <<status, last_error>>
  /\ Forget(d)
  /\ UNCHANGED <<attempts, due, age, replays, history>>

\* next_attempt_at = d.now() + backoff, with a jitter of up to a fifth.
RescheduleDelivery(d) ==
  /\ proc[d] = "running" /\ stage[d] \in Outcomes /\ ~Succeeded(d) /\ ~Final(d)
  /\ IF Open(cur[d])
       THEN /\ \E jitter \in 0 .. Backoff[claim[d][cur[d]]] \div 5, offset \in Offsets :
                 due' = [due EXCEPT ![cur[d]] = Backoff[claim[d][cur[d]]] + jitter + offset]
            /\ last_error' = [last_error EXCEPT ![cur[d]] = Cause(d)]
       ELSE UNCHANGED <<due, last_error>>
  /\ Forget(d)
  /\ UNCHANGED <<status, attempts, age, replays, history>>

\* The outcome's statement fails and is only logged: the database is away, or
\* the dispatcher's context was cancelled before it ran.
OutcomeLost(d) ==
  /\ stage[d] \in Outcomes
  /\ \/ proc[d] = "running" /\ faults < MaxFaults /\ faults' = faults + 1
     \/ proc[d] = "stopping" /\ UNCHANGED faults
  /\ Forget(d)
  /\ UNCHANGED <<table, received, tries>>

\* Mutant: the sweep takes a row as soon as it is delivered.
ExpiredAtOnce(offset) == {i \in Ids : status[i] = "delivered"}

\* delivered_at < cutoff, where cutoff = d.now() - Retention
Expired(offset) == {i \in Ids : status[i] = "delivered" /\ age[i] + offset > Retention}

\* The retention ticker fires between two drains.
PurgeDelivered(d) ==
  /\ proc[d] = "running" /\ ~Working(d) /\ Retention > 0
  /\ \E offset \in Offsets :
       /\ Expired(offset) # {}
       /\ status' = [i \in Ids |-> IF i \in Expired(offset) THEN "purged" ELSE status[i]]
  /\ UNCHANGED <<attempts, due, age, last_error, replays, processes, history>>

-----------------------------------------------------------------------------
(* Shutdown, crash and restart of a dispatcher process. *)

\* Everything the process held is gone; its leases stay in the table.
LoseWork(d) ==
  /\ proc' = [proc EXCEPT ![d] = "down"]
  /\ batch' = [batch EXCEPT ![d] = {}]
  /\ claim' = [claim EXCEPT ![d] = [i \in Ids |-> 0]]
  /\ cur' = [cur EXCEPT ![d] = NoId]
  /\ stage' = [stage EXCEPT ![d] = "idle"]
  /\ timer' = [timer EXCEPT ![d] = 0]
  /\ slack' = [slack EXCEPT ![d] = 0]
  /\ ChargeTries(batch[d])
  /\ UNCHANGED <<table, received>>

\* main calls stopDispatch: the context every call uses is cancelled.
StopDispatch(d) ==
  /\ proc[d] = "running" /\ faults < MaxFaults
  /\ proc' = [proc EXCEPT ![d] = "stopping"]
  /\ faults' = faults + 1
  /\ UNCHANGED <<table, batch, claim, cur, stage, timer, slack, received, tries>>

\* drain sees the cancelled context between two rows and Run returns.
RunReturns(d) ==
  /\ proc[d] = "stopping" /\ stage[d] = "idle"
  /\ LoseWork(d)
  /\ UNCHANGED faults

Crash(d) ==
  /\ proc[d] # "down" /\ faults < MaxFaults
  /\ LoseWork(d)
  /\ faults' = faults + 1

\* A delivery that kills its dispatcher mid-flight.
PoisonCrash(d) ==
  /\ Sending(d) /\ cur[d] \in Poison
  /\ LoseWork(d)
  /\ UNCHANGED faults

Restart(d) ==
  /\ proc[d] = "down"
  /\ proc' = [proc EXCEPT ![d] = "running"]
  /\ UNCHANGED <<table, batch, claim, cur, stage, timer, slack, history>>

-----------------------------------------------------------------------------
(* Time. A POST lasts at most Timeout, because the HTTP client gives up; a *)
(* dispatcher with work in hand that is not inside a POST (the database    *)
(* statements around it, a pause of the process) may lose MaxStall ticks   *)
(* per batch.                                                              *)

InPost(d) == Sending(d) /\ timer[d] > 0

Tick ==
  /\ \A d \in Dispatchers : Working(d) => InPost(d) \/ slack[d] > 0
  /\ due' = [i \in Ids |-> IF status[i] = "pending" /\ due[i] > -MaxOverdue
                             THEN due[i] - 1 ELSE due[i]]
  /\ age' = [i \in Ids |-> IF status[i] = "delivered" /\ age[i] <= Retention + ClockSkew
                             THEN age[i] + 1 ELSE age[i]]
  /\ timer' = [d \in Dispatchers |-> IF InPost(d) THEN timer[d] - 1 ELSE timer[d]]
  /\ slack' = [d \in Dispatchers |-> IF Working(d) /\ ~InPost(d)
                                       THEN slack[d] - 1 ELSE slack[d]]
  /\ UNCHANGED <<status, attempts, last_error, replays,
                 proc, batch, claim, cur, stage, history>>

-----------------------------------------------------------------------------
\* What a dispatcher does of itself, without faults.
Progress(d) ==
  \/ ClaimDueDeliveries(d) \/ StartSend(d) \/ SendReturns(d)
  \/ MarkDelivered(d) \/ DeadLetterDelivery(d) \/ RescheduleDelivery(d)
  \/ (proc[d] = "stopping" /\ OutcomeLost(d)) \/ RunReturns(d)
  \/ PoisonCrash(d) \/ Restart(d)

Next ==
  \/ \E i \in Ids : Enqueue(i) \/ ReplayDeadLetter(i)
  \/ \E d \in Dispatchers :
       \/ ClaimDueDeliveries(d) \/ ClaimAnswerLost(d) \/ StartSend(d)
       \/ ReceiverAccepts(d) \/ SendReturns(d)
       \/ MarkDelivered(d) \/ DeadLetterDelivery(d) \/ RescheduleDelivery(d)
       \/ OutcomeLost(d) \/ PurgeDelivered(d)
       \/ StopDispatch(d) \/ RunReturns(d) \/ Crash(d) \/ PoisonCrash(d) \/ Restart(d)
  \/ Tick

Spec == Init /\ [][Next]_vars

\* Clocks advance, tickers fire, the HTTP client times out and the supervisor
\* restarts the process; nothing is assumed of the receiver or of the operator.
Fairness == WF_vars(Tick) /\ \A d \in Dispatchers : WF_vars(Progress(d))

FairSpec == Spec /\ Fairness

-----------------------------------------------------------------------------
(* Properties. *)

\* A lease outlasts the work it covers: no delivery is in the hands of two
\* dispatchers at once, and nobody else can finish or re-claim a row that a
\* dispatcher still holds (leaseFor; the "in-flight lease" of migration 000004).
ClaimsExclusive ==
  /\ \A d, e \in Dispatchers : d # e => Held(d) \cap Held(e) = {}
  /\ \A d \in Dispatchers : \A i \in Held(d) : status[i] = "pending" /\ due[i] > 0

\* Every attempt the table has counted since the row was queued or replayed was
\* a POST that began or a claim that a fault cost, and no POST goes uncounted:
\* the counter runs ahead of the sends only for rows claimed and not yet sent.
AttemptsAccounted ==
  \A i \in Ids :
    attempts[i] = IF \E d \in Dispatchers : i \in batch[d]
                    THEN Charge(tries[i]) ELSE tries[i]

\* A delivery parked because its attempts ran out really had MaxAttempts of
\* them since it was queued or last replayed (attempt, ReplayDeadLetter).
FullBudget ==
  \A i \in Ids :
    status[i] = "dead_letter" /\ last_error[i] = "transient" => tries[i] >= MaxAttempts

\* The table says delivered, or has dropped the row, only for an event that the
\* receiver accepted, whoever recorded it and however late.
DeliveredWasReceived ==
  \A i \in Ids : status[i] \in {"delivered", "purged"} => i \in received

\* delivered and dead_letter are terminal: a late outcome of a dispatcher whose
\* lease expired cannot change them. A delivered row is only ever purged, after
\* its retention less what the sweeper's clock is ahead, and a parked one only
\* replayed, with an audit row.
TerminalStays ==
  [][\A i \in Ids :
       /\ status[i] = "delivered" /\ status'[i] # "delivered"
            => status'[i] = "purged" /\ age[i] + ClockSkew > Retention
       /\ status[i] = "dead_letter" /\ status'[i] # "dead_letter"
            => status'[i] = "pending" /\ replays'[i] = replays[i] + 1
       /\ status[i] = "purged" => status'[i] = "purged"]_vars

\* Every queued or replayed delivery is eventually delivered or parked, as long
\* as faults stop: no crash, lost answer or expired lease strands a row.
EventuallySettled ==
  \A i \in Ids : status[i] = "pending" ~> status[i] \in {"delivered", "dead_letter"}

\* What outbox.go says of counting the attempt at claim time: a delivery that
\* kills the dispatcher mid-flight "still burns an attempt, so it eventually
\* dead-letters instead of taking the process down forever".
PoisonIsParked ==
  \A i \in Poison : status[i] = "pending" ~> status[i] \in {"delivered", "dead_letter"}

-----------------------------------------------------------------------------
(* The promise the outbox makes to the code that queues events. *)

Promise == INSTANCE DeliveryQueue
             WITH state <- status, accepted <- received, audited <- replays

\* The outbox implements the abstract queue of module DeliveryQueue, whatever
\* its dispatchers' stalls, crashes, shutdowns and lost answers.
ImplementsQueue == Promise!Spec
=============================================================================
