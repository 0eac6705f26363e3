---------------------------- MODULE OutboxProofs ----------------------------
(***************************************************************************)
(* Theorems about module Outbox, for every table size, number of           *)
(* dispatchers, configuration and bound allowed by its assumptions.        *)
(***************************************************************************)
EXTENDS Outbox, FiniteSetTheorems, TLAPS

USE DEF Statuses, Causes, Outcomes, Stages

(***************************************************************************)
(* What one dispatcher has in hand: a delivery exactly while an attempt is *)
(* under way, never one that is also still waiting in its batch, and an    *)
(* attempt number that the claim counted; a process that is down holds     *)
(* nothing; the POST timer runs only during a POST.                        *)
(***************************************************************************)
HandOK(d) ==
  /\ stage[d] = "idle" <=> cur[d] = NoId
  /\ cur[d] \notin batch[d]
  /\ \A i \in Held(d) : claim[d][i] >= 1
  /\ proc[d] = "down" => ~Working(d)
  /\ Sending(d) \/ timer[d] = 0

HandsOK == \A d \in Dispatchers : HandOK(d)

TypeInv == TypeOK /\ HandsOK

\* What attempt leaves alone, and what it forgets.
LEMMA ForgetHands ==
  ASSUME TypeInv, NEW d \in Dispatchers, stage[d] \in Outcomes, Forget(d)
  PROVE  /\ proc' \in [Dispatchers -> {"running", "stopping", "down"}]
         /\ batch' \in [Dispatchers -> SUBSET Ids]
         /\ claim' \in [Dispatchers -> [Ids -> Nat]]
         /\ cur' \in [Dispatchers -> Ids \cup {NoId}]
         /\ stage' \in [Dispatchers -> Stages]
         /\ timer' \in [Dispatchers -> Nat] /\ slack' \in [Dispatchers -> Nat]
         /\ HandsOK'
<1>1. cur[d] \in Ids /\ d \in DOMAIN claim /\ claim[d] \in [Ids -> Nat]
  BY DEF TypeInv, TypeOK, HandsOK, HandOK
<1>2. claim' \in [Dispatchers -> [Ids -> Nat]]
  <2>1. [claim[d] EXCEPT ![cur[d]] = 0] \in [Ids -> Nat]
    BY <1>1
  <2>2. claim' = [claim EXCEPT ![d] = [claim[d] EXCEPT ![cur[d]] = 0]]
    BY DEF Forget
  <2> QED
    BY <2>1, <2>2 DEF TypeInv, TypeOK
<1>3. HandsOK'
  <2> SUFFICES ASSUME NEW e \in Dispatchers PROVE HandOK(e)'
    BY DEF HandsOK
  <2>1. CASE e = d
    <3>1. cur'[d] = NoId /\ stage'[d] = "idle" /\ batch'[d] = batch[d] /\ timer'[d] = 0
      BY DEF Forget, TypeInv, TypeOK, HandsOK, HandOK, Sending
    <3>2. \A i \in batch[d] : claim'[d][i] = claim[d][i]
      BY DEF Forget, TypeInv, TypeOK, HandsOK, HandOK
    <3>3. proc'[d] = proc[d] /\ proc[d] # "down"
      BY DEF Forget, TypeInv, TypeOK, HandsOK, HandOK, Working
    <3> QED
      BY <2>1, <3>1, <3>2, <3>3, IdsAssumption
      DEF TypeInv, TypeOK, HandsOK, HandOK, Held, Working, Sending
  <2>2. CASE e # d
    <3>1. /\ cur'[e] = cur[e] /\ stage'[e] = stage[e] /\ batch'[e] = batch[e]
          /\ timer'[e] = timer[e] /\ claim'[e] = claim[e] /\ proc'[e] = proc[e]
      BY <2>2 DEF Forget, TypeInv, TypeOK
    <3> QED
      BY <3>1 DEF TypeInv, TypeOK, HandsOK, HandOK, Held, Working, Sending
  <2> QED
    BY <2>1, <2>2
<1> QED
  BY <1>2, <1>3, IdsAssumption DEF TypeInv, TypeOK, Forget

\* A step of d's process that leaves everybody else's hands alone.
Others(d) ==
  \A e \in Dispatchers \ {d} :
    /\ proc'[e] = proc[e] /\ batch'[e] = batch[e] /\ claim'[e] = claim[e]
    /\ cur'[e] = cur[e] /\ stage'[e] = stage[e] /\ timer'[e] = timer[e]

LEMMA OneHand ==
  ASSUME HandsOK, NEW d \in Dispatchers, Others(d), HandOK(d)'
  PROVE  HandsOK'
BY DEF Others, HandsOK, HandOK, Held, Working, Sending

LEMMA LoseWorkHands ==
  ASSUME TypeInv, NEW d \in Dispatchers, LoseWork(d), faults' \in Nat
  PROVE  TypeInv'
<1>1. TypeOK'
  BY DEF TypeInv, TypeOK, LoseWork, ChargeTries, Charge, table
<1>2. HandOK(d)'
  BY IdsAssumption DEF TypeInv, TypeOK, LoseWork, HandOK, Held, Working, Sending
<1>3. Others(d)
  BY DEF TypeInv, TypeOK, LoseWork, Others
<1> QED
  BY <1>1, <1>2, <1>3, OneHand DEF TypeInv

LEMMA LeaseType == LeaseFor \in Nat
<1>1. Batch * Timeout \in Nat
  BY ConfigAssumption
<1> QED
  BY <1>1, ConfigAssumption DEF LeaseFor

LEMMA TypeInvInit == Init => TypeInv
BY IdsAssumption DEF Init, TypeInv, TypeOK, HandsOK, HandOK, Held, Working, Sending

LEMMA TypeInvStep == TypeInv /\ [Next]_vars => TypeInv'
<1> SUFFICES ASSUME TypeInv, [Next]_vars PROVE TypeInv'
  OBVIOUS
<1> USE DEF TypeInv, TypeOK, table, processes, history
<1>1. ASSUME NEW i \in Ids, Enqueue(i) PROVE TypeInv'
  BY <1>1 DEF Enqueue, HandsOK, HandOK, Held, Working, Sending
<1>2. ASSUME NEW i \in Ids, ReplayDeadLetter(i) PROVE TypeInv'
  BY <1>2 DEF ReplayDeadLetter, ResetAttempts, HandsOK, HandOK, Held, Working, Sending
<1>3. ASSUME NEW d \in Dispatchers, ClaimDueDeliveries(d) PROVE TypeInv'
  <2>1. PICK S \in SUBSET Ids :
          /\ ClaimRows(S)
          /\ batch' = [batch EXCEPT ![d] = S]
          /\ claim' = [claim EXCEPT ![d] =
                         [i \in Ids |-> IF i \in S THEN Charge(attempts[i]) ELSE 0]]
    BY <1>3 DEF ClaimDueDeliveries
  <2>2. TypeOK'
    <3>1. [i \in Ids |-> IF i \in S THEN Charge(attempts[i]) ELSE 0] \in [Ids -> Nat]
      BY DEF Charge
    <3>2. attempts' \in [Ids -> Nat] /\ due' \in [Ids -> Int]
      BY <2>1, LeaseType DEF ClaimRows, Charge
    <3>3. claim' \in [Dispatchers -> [Ids -> Nat]] /\ batch' \in [Dispatchers -> SUBSET Ids]
      BY <2>1, <3>1
    <3> QED
      BY <1>3, <2>1, <3>2, <3>3, ConfigAssumption DEF ClaimDueDeliveries, ClaimRows
  <2>3. Others(d)
    BY <1>3, <2>1 DEF ClaimDueDeliveries, Others
  <2>4. HandOK(d)'
    <3>1. stage[d] = "idle" /\ cur[d] = NoId /\ timer[d] = 0
      BY <1>3 DEF ClaimDueDeliveries, Working, Sending, HandsOK, HandOK
    <3>2. \A i \in Ids : Charge(attempts[i]) >= 1
      BY BoundsAssumption, ConfigAssumption DEF Charge
    <3> QED
      BY <1>3, <2>1, <3>1, <3>2, IdsAssumption
      DEF ClaimDueDeliveries, HandsOK, HandOK, Held, Working, Sending
  <2> QED
    BY <2>2, <2>3, <2>4, OneHand
<1>4. ASSUME NEW d \in Dispatchers, ClaimAnswerLost(d) PROVE TypeInv'
  <2>1. PICK S \in SUBSET Ids : ClaimRows(S) /\ ChargeTries(S)
    BY <1>4 DEF ClaimAnswerLost
  <2>2. HandsOK'
    BY <1>4 DEF ClaimAnswerLost, HandsOK, HandOK, Held, Working, Sending
  <2> QED
    BY <1>4, <2>1, <2>2, LeaseType
    DEF ClaimAnswerLost, ClaimRows, ChargeTries, Charge
<1>5. ASSUME NEW d \in Dispatchers, StartSend(d) PROVE TypeInv'
  <2>1. PICK i \in batch[d] : /\ batch' = [batch EXCEPT ![d] = @ \ {i}]
                              /\ cur' = [cur EXCEPT ![d] = i]
                              /\ ChargeTries({i})
    BY <1>5 DEF StartSend
  <2>2. TypeOK'
    <3>1. i \in Ids /\ batch[d] \ {i} \in SUBSET Ids
      OBVIOUS
    <3>2. tries' \in [Ids -> Nat]
      BY <2>1 DEF ChargeTries, Charge
    <3>3. batch' \in [Dispatchers -> SUBSET Ids]
      BY <2>1, <3>1
    <3> QED
      BY <1>5, <2>1, <3>1, <3>2, <3>3, ConfigAssumption DEF StartSend
  <2>3. Others(d)
    BY <1>5, <2>1 DEF StartSend, Others
  <2>4. HandOK(d)'
    BY <1>5, <2>1, IdsAssumption DEF StartSend, HandsOK, HandOK, Held, Working, Sending
  <2> QED
    BY <2>2, <2>3, <2>4, OneHand
<1>6. ASSUME NEW d \in Dispatchers, ReceiverAccepts(d) PROVE TypeInv'
  <2>1. TypeOK'
    BY <1>6 DEF ReceiverAccepts, HandsOK, HandOK
  <2>2. Others(d)
    BY <1>6 DEF ReceiverAccepts, Others
  <2>3. HandOK(d)'
    BY <1>6 DEF ReceiverAccepts, HandsOK, HandOK, Held, Working, Sending
  <2> QED
    BY <2>1, <2>2, <2>3, OneHand
<1>7. ASSUME NEW d \in Dispatchers, SendReturns(d) PROVE TypeInv'
  <2>1. TypeOK'
    BY <1>7 DEF SendReturns
  <2>2. Others(d)
    BY <1>7 DEF SendReturns, Others
  <2>3. HandOK(d)'
    BY <1>7 DEF SendReturns, HandsOK, HandOK, Held, Working, Sending
  <2> QED
    BY <2>1, <2>2, <2>3, OneHand
<1>8. ASSUME NEW d \in Dispatchers, MarkDelivered(d) PROVE TypeInv'
  <2>1. /\ status' \in [Ids -> Statuses] /\ age' \in [Ids -> Nat]
        /\ last_error' \in [Ids -> Causes]
    <3>1. CASE Open(cur[d])
      <4>1. /\ status' = [status EXCEPT ![cur[d]] = "delivered"]
            /\ age' = [age EXCEPT ![cur[d]] = 0]
            /\ last_error' = [last_error EXCEPT ![cur[d]] = "none"]
        BY <1>8, <3>1 DEF MarkDelivered
      <4> QED
        BY <4>1
    <3>2. CASE ~Open(cur[d])
      BY <1>8, <3>2 DEF MarkDelivered
    <3> QED
      BY <3>1, <3>2
  <2> QED
    BY <1>8, <2>1, ForgetHands DEF MarkDelivered
<1>9. ASSUME NEW d \in Dispatchers, DeadLetterDelivery(d) PROVE TypeInv'
  <2>1. status' \in [Ids -> Statuses] /\ last_error' \in [Ids -> Causes]
    <3>1. CASE Open(cur[d])
      <4>1. /\ status' = [status EXCEPT ![cur[d]] = "dead_letter"]
            /\ last_error' = [last_error EXCEPT ![cur[d]] = Cause(d)]
        BY <1>9, <3>1 DEF DeadLetterDelivery
      <4> QED
        BY <4>1 DEF Cause
    <3>2. CASE ~Open(cur[d])
      BY <1>9, <3>2 DEF DeadLetterDelivery
    <3> QED
      BY <3>1, <3>2
  <2> QED
    BY <1>9, <2>1, ForgetHands DEF DeadLetterDelivery
<1>10. ASSUME NEW d \in Dispatchers, RescheduleDelivery(d) PROVE TypeInv'
  <2>1. cur[d] \in Ids /\ claim[d][cur[d]] \in 1 .. MaxAttempts
    BY <1>10, ConfigAssumption DEF RescheduleDelivery, Final, HandsOK, HandOK, Held
  <2>2. Backoff[claim[d][cur[d]]] \in Nat
    BY <2>1, ConfigAssumption
  <2>3. due' \in [Ids -> Int] /\ last_error' \in [Ids -> Causes]
    <3>1. CASE Open(cur[d])
      <4>1. PICK jitter \in 0 .. Backoff[claim[d][cur[d]]] \div 5, offset \in Offsets :
              due' = [due EXCEPT ![cur[d]] = Backoff[claim[d][cur[d]]] + jitter + offset]
        BY <1>10, <3>1 DEF RescheduleDelivery
      <4>2. Backoff[claim[d][cur[d]]] + jitter + offset \in Int
        <5>1. ClockSkew \in Nat
          BY ConfigAssumption
        <5>2. offset \in Int
          BY <5>1 DEF Offsets
        <5>3. jitter \in Int
          OBVIOUS
        <5> QED
          BY <2>2, <5>2, <5>3
      <4> QED
        BY <1>10, <3>1, <4>1, <4>2 DEF RescheduleDelivery, Cause
    <3>2. CASE ~Open(cur[d])
      BY <1>10, <3>2 DEF RescheduleDelivery
    <3> QED
      BY <3>1, <3>2
  <2> QED
    BY <1>10, <2>3, ForgetHands DEF RescheduleDelivery
<1>11. ASSUME NEW d \in Dispatchers, OutcomeLost(d) PROVE TypeInv'
  BY <1>11, ForgetHands DEF OutcomeLost
<1>12. ASSUME NEW d \in Dispatchers, PurgeDelivered(d) PROVE TypeInv'
  <2>1. PICK S \in SUBSET Ids : status' = [i \in Ids |-> IF i \in S THEN "purged" ELSE status[i]]
    BY <1>12 DEF PurgeDelivered, Expired
  <2>2. status' \in [Ids -> Statuses]
    BY <2>1 DEF Statuses
  <2> QED
    BY <1>12, <2>2 DEF PurgeDelivered, HandsOK, HandOK, Held, Working, Sending
<1>13. ASSUME NEW d \in Dispatchers, StopDispatch(d) PROVE TypeInv'
  BY <1>13 DEF StopDispatch, HandsOK, HandOK, Held, Working, Sending
<1>14. ASSUME NEW d \in Dispatchers, RunReturns(d) \/ Crash(d) \/ PoisonCrash(d)
       PROVE TypeInv'
  BY <1>14, LoseWorkHands DEF RunReturns, Crash, PoisonCrash
<1>15. ASSUME NEW d \in Dispatchers, Restart(d) PROVE TypeInv'
  BY <1>15 DEF Restart, HandsOK, HandOK, Held, Working, Sending
<1>16. CASE Tick
  <2>1. HandsOK'
    BY <1>16 DEF Tick, InPost, HandsOK, HandOK, Held, Working, Sending
  <2> QED
    BY <1>16, <2>1 DEF Tick, InPost
<1>17. CASE UNCHANGED vars
  BY <1>17 DEF vars, HandsOK, HandOK, Held, Working, Sending
<1> QED
  BY <1>1, <1>2, <1>3, <1>4, <1>5, <1>6, <1>7, <1>8, <1>9, <1>10, <1>11, <1>12,
     <1>13, <1>14, <1>15, <1>16, <1>17 DEF Next

\* Every column and every process variable keeps its type, and what a
\* dispatcher holds is consistent, whatever faults occur (TypeOK).
THEOREM TypeCorrect == Spec => []TypeOK
<1>1. TypeInv => TypeOK
  BY DEF TypeInv
<1> QED
  BY <1>1, TypeInvInit, TypeInvStep, PTL DEF Spec

-----------------------------------------------------------------------------
(***************************************************************************)
(* Delivered means received. The invariant follows the event from the      *)
(* POST to the table: a POST that landed, and the "ok" it returns, are for *)
(* an event the receiver has; and what a dispatcher holds is a row.        *)
(***************************************************************************)
HeldQueued     == \A d \in Dispatchers : \A i \in Held(d) : status[i] # "none"
LandedReceived == \A d \in Dispatchers : stage[d] \in {"landed", "ok"} => cur[d] \in received

ReceiptInv == TypeInv /\ DeliveredWasReceived /\ HeldQueued /\ LandedReceived

LEMMA ReceiptStep == ReceiptInv /\ [Next]_vars => ReceiptInv'
<1> SUFFICES ASSUME ReceiptInv, [Next]_vars PROVE ReceiptInv'
  OBVIOUS
<1>a. TypeInv /\ TypeInv'
  BY TypeInvStep DEF ReceiptInv
<1> SUFFICES DeliveredWasReceived' /\ HeldQueued' /\ LandedReceived'
  BY <1>a DEF ReceiptInv
<1>b. DeliveredWasReceived /\ HeldQueued /\ LandedReceived /\ TypeOK /\ HandsOK
  BY DEF ReceiptInv, TypeInv
<1> USE <1>b DEF table, processes, history
<1>1. ASSUME NEW i \in Ids, Enqueue(i) \/ ReplayDeadLetter(i)
      PROVE  DeliveredWasReceived' /\ HeldQueued' /\ LandedReceived'
  BY <1>1 DEF Enqueue, ReplayDeadLetter, DeliveredWasReceived, HeldQueued,
              LandedReceived, Held, TypeOK
<1>2. ASSUME NEW d \in Dispatchers, ClaimDueDeliveries(d)
      PROVE  DeliveredWasReceived' /\ HeldQueued' /\ LandedReceived'
  <2>1. PICK S \in SUBSET Ids : /\ IsDueBatch(S) /\ ClaimRows(S)
                                /\ batch' = [batch EXCEPT ![d] = S]
    BY <1>2 DEF ClaimDueDeliveries
  <2>2. \A i \in S : status[i] = "pending"
    BY <2>1 DEF IsDueBatch, DueRows
  <2> QED
    BY <1>2, <2>1, <2>2 DEF ClaimDueDeliveries, ClaimRows, DeliveredWasReceived,
       HeldQueued, LandedReceived, Held, TypeOK
<1>3. ASSUME NEW d \in Dispatchers, ClaimAnswerLost(d)
      PROVE  DeliveredWasReceived' /\ HeldQueued' /\ LandedReceived'
  BY <1>3 DEF ClaimAnswerLost, ClaimRows, DeliveredWasReceived, HeldQueued,
              LandedReceived, Held
<1>4. ASSUME NEW d \in Dispatchers, StartSend(d)
      PROVE  DeliveredWasReceived' /\ HeldQueued' /\ LandedReceived'
  BY <1>4 DEF StartSend, DeliveredWasReceived, HeldQueued, LandedReceived, Held, TypeOK
<1>5. ASSUME NEW d \in Dispatchers, ReceiverAccepts(d)
      PROVE  DeliveredWasReceived' /\ HeldQueued' /\ LandedReceived'
  BY <1>5 DEF ReceiverAccepts, DeliveredWasReceived, HeldQueued, LandedReceived, Held, TypeOK
<1>6. ASSUME NEW d \in Dispatchers, SendReturns(d)
      PROVE  DeliveredWasReceived' /\ HeldQueued' /\ LandedReceived'
  BY <1>6 DEF SendReturns, DeliveredWasReceived, HeldQueued, LandedReceived, Held, TypeOK
<1>7. ASSUME NEW d \in Dispatchers, Forget(d), UNCHANGED received,
             stage[d] \in Outcomes,
             \/ UNCHANGED status
             \/ /\ status[cur[d]] = "pending"
                /\ \/ status' = [status EXCEPT ![cur[d]] = "delivered"] /\ stage[d] = "ok"
                   \/ status' = [status EXCEPT ![cur[d]] = "dead_letter"]
      PROVE  DeliveredWasReceived' /\ HeldQueued' /\ LandedReceived'
  <2>1. cur[d] \in Ids
    BY <1>7 DEF TypeOK, HandsOK, HandOK
  <2>2. \A e \in Dispatchers : Held(e)' \subseteq Held(e)
    BY <1>7, <2>1, IdsAssumption DEF Forget, Held, TypeOK
  <2>3. HeldQueued'
    BY <1>7, <2>1, <2>2 DEF HeldQueued, TypeOK, Held
  <2>4. LandedReceived'
    BY <1>7 DEF LandedReceived, Forget, TypeOK
  <2>5. DeliveredWasReceived'
    BY <1>7, <2>1 DEF DeliveredWasReceived, LandedReceived, TypeOK
  <2> QED
    BY <2>3, <2>4, <2>5
<1>8. ASSUME NEW d \in Dispatchers, MarkDelivered(d)
      PROVE  DeliveredWasReceived' /\ HeldQueued' /\ LandedReceived'
  BY <1>7, <1>8 DEF MarkDelivered, Succeeded, Open
<1>9. ASSUME NEW d \in Dispatchers, DeadLetterDelivery(d)
      PROVE  DeliveredWasReceived' /\ HeldQueued' /\ LandedReceived'
  BY <1>7, <1>9 DEF DeadLetterDelivery, Open
<1>10. ASSUME NEW d \in Dispatchers, RescheduleDelivery(d) \/ OutcomeLost(d)
       PROVE  DeliveredWasReceived' /\ HeldQueued' /\ LandedReceived'
  BY <1>7, <1>10 DEF RescheduleDelivery, OutcomeLost
<1>11. ASSUME NEW d \in Dispatchers, PurgeDelivered(d)
       PROVE  DeliveredWasReceived' /\ HeldQueued' /\ LandedReceived'
  <2>1. PICK S \in SUBSET Ids :
          /\ \A i \in S : status[i] = "delivered"
          /\ status' = [i \in Ids |-> IF i \in S THEN "purged" ELSE status[i]]
    BY <1>11 DEF PurgeDelivered, Expired
  <2> QED
    BY <1>11, <2>1 DEF PurgeDelivered, DeliveredWasReceived, HeldQueued, LandedReceived, Held, TypeOK
<1>12. ASSUME NEW d \in Dispatchers, StopDispatch(d) \/ Restart(d)
       PROVE  DeliveredWasReceived' /\ HeldQueued' /\ LandedReceived'
  BY <1>12 DEF StopDispatch, Restart, DeliveredWasReceived, HeldQueued,
               LandedReceived, Held
<1>13. ASSUME NEW d \in Dispatchers, RunReturns(d) \/ Crash(d) \/ PoisonCrash(d)
       PROVE  DeliveredWasReceived' /\ HeldQueued' /\ LandedReceived'
  <2>1. LoseWork(d)
    BY <1>13 DEF RunReturns, Crash, PoisonCrash
  <2> QED
    BY <2>1, IdsAssumption DEF LoseWork, DeliveredWasReceived, HeldQueued,
       LandedReceived, Held, TypeOK
<1>14. CASE Tick
  BY <1>14 DEF Tick, DeliveredWasReceived, HeldQueued, LandedReceived, Held
<1>15. CASE UNCHANGED vars
  BY <1>15 DEF vars, DeliveredWasReceived, HeldQueued, LandedReceived, Held
<1> QED
  BY <1>1, <1>2, <1>3, <1>4, <1>5, <1>6, <1>8, <1>9, <1>10, <1>11, <1>12, <1>13,
     <1>14, <1>15 DEF Next

LEMMA ReceiptInitially == Init => ReceiptInv
BY TypeInvInit, IdsAssumption
DEF Init, ReceiptInv, DeliveredWasReceived, HeldQueued, LandedReceived, Held

\* A row is marked delivered, or dropped by the retention sweep, only if the
\* receiver accepted its event, whatever the dispatchers' faults and stalls.
THEOREM DeliveredIsReceived == Spec => []DeliveredWasReceived
<1>1. ReceiptInv => DeliveredWasReceived
  BY DEF ReceiptInv
<1> QED
  BY <1>1, ReceiptInitially, ReceiptStep, PTL DEF Spec

-----------------------------------------------------------------------------
(***************************************************************************)
(* Refinement. Every step of the table and of its dispatchers is one step  *)
(* of the abstract queue, or leaves its state alone.                       *)
(***************************************************************************)
LEMMA QueueStep == ReceiptInv /\ [Next]_vars => [Promise!Next]_(Promise!qvars)
<1> SUFFICES ASSUME ReceiptInv, [Next]_vars PROVE [Promise!Next]_(Promise!qvars)
  OBVIOUS
<1>a. TypeOK /\ HandsOK /\ HeldQueued /\ LandedReceived
  BY DEF ReceiptInv, TypeInv
<1> USE <1>a DEF table, processes, history
<1>1. ASSUME NEW i \in Ids, Enqueue(i) PROVE Promise!Next
  BY <1>1 DEF Enqueue, Promise!Next, Promise!Queue, Promise!Move
<1>2. ASSUME NEW i \in Ids, ReplayDeadLetter(i) PROVE Promise!Next
  BY <1>2 DEF ReplayDeadLetter, Promise!Next, Promise!Replay, Promise!Move
<1>3. ASSUME NEW d \in Dispatchers, ReceiverAccepts(d) PROVE Promise!Next
  <2>1. cur[d] \in Held(d) /\ cur[d] \in Ids
    BY <1>3 DEF ReceiverAccepts, HandsOK, HandOK, Held, TypeOK
  <2>2. Promise!Accept(cur[d])
    BY <1>3, <2>1 DEF ReceiverAccepts, HeldQueued, Promise!Accept
  <2> QED
    BY <2>1, <2>2 DEF Promise!Next
<1>4. ASSUME NEW d \in Dispatchers, MarkDelivered(d) PROVE [Promise!Next]_(Promise!qvars)
  <2>1. cur[d] \in Ids /\ cur[d] \in received
    BY <1>4 DEF MarkDelivered, Succeeded, LandedReceived, HandsOK, HandOK, TypeOK
  <2>2. Open(cur[d]) => Promise!Deliver(cur[d])
    BY <1>4, <2>1 DEF MarkDelivered, Open, Promise!Deliver, Promise!Move
  <2>3. ~Open(cur[d]) => UNCHANGED Promise!qvars
    BY <1>4 DEF MarkDelivered, Promise!qvars
  <2> QED
    BY <2>1, <2>2, <2>3 DEF Promise!Next
<1>5. ASSUME NEW d \in Dispatchers, DeadLetterDelivery(d)
      PROVE  [Promise!Next]_(Promise!qvars)
  <2>1. cur[d] \in Ids
    BY <1>5 DEF DeadLetterDelivery, HandsOK, HandOK, TypeOK
  <2>2. Open(cur[d]) => Promise!Park(cur[d])
    BY <1>5, <2>1 DEF DeadLetterDelivery, Open, Promise!Park, Promise!Move
  <2>3. ~Open(cur[d]) => UNCHANGED Promise!qvars
    BY <1>5 DEF DeadLetterDelivery, Promise!qvars
  <2> QED
    BY <2>1, <2>2, <2>3 DEF Promise!Next
<1>6. ASSUME NEW d \in Dispatchers, PurgeDelivered(d) PROVE Promise!Next
  <2>1. PICK S \in SUBSET Ids :
          /\ \A i \in S : status[i] = "delivered"
          /\ status' = [i \in Ids |-> IF i \in S THEN "purged" ELSE status[i]]
    BY <1>6 DEF PurgeDelivered, Expired
  <2>2. Promise!Drop(S)
    BY <1>6, <2>1 DEF PurgeDelivered, Promise!Drop
  <2> QED
    BY <2>1, <2>2 DEF Promise!Next
<1>7. ASSUME NEW d \in Dispatchers,
             \/ ClaimDueDeliveries(d) \/ ClaimAnswerLost(d) \/ StartSend(d)
             \/ SendReturns(d) \/ RescheduleDelivery(d) \/ OutcomeLost(d)
             \/ StopDispatch(d) \/ RunReturns(d) \/ Crash(d) \/ PoisonCrash(d) \/ Restart(d)
      PROVE  UNCHANGED Promise!qvars
  BY <1>7 DEF ClaimDueDeliveries, ClaimAnswerLost, ClaimRows, StartSend, SendReturns,
     RescheduleDelivery, OutcomeLost, StopDispatch, RunReturns, Crash, PoisonCrash,
     LoseWork, Restart, Promise!qvars
<1>8. CASE Tick \/ UNCHANGED vars
  BY <1>8 DEF Tick, vars, Promise!qvars
<1> QED
  BY <1>1, <1>2, <1>3, <1>4, <1>5, <1>6, <1>7, <1>8 DEF Next

\* The outbox with its dispatchers implements the abstract delivery queue.
THEOREM Refinement == Spec => ImplementsQueue
<1>1. Init => Promise!Init
  BY DEF Init, Promise!Init
<1> QED
  BY <1>1, ReceiptInitially, ReceiptStep, QueueStep, PTL
  DEF Spec, ImplementsQueue, Promise!Spec

\* delivered, dead_letter and purged are left only by the retention sweep, by an
\* audited replay and never: no late outcome changes a settled row.
THEOREM TerminalRowsStay == Spec => TerminalStays
<1> DEFINE Stays ==
      \A i \in Ids :
        /\ status[i] = "delivered" /\ status'[i] # "delivered"
             => status'[i] = "purged" /\ age[i] + ClockSkew > Retention
        /\ status[i] = "dead_letter" /\ status'[i] # "dead_letter"
             => status'[i] = "pending" /\ replays'[i] = replays[i] + 1
        /\ status[i] = "purged" => status'[i] = "purged"
<1>1. TypeInv /\ [Next]_vars => [Stays]_vars
  <2> SUFFICES ASSUME TypeInv, Next PROVE Stays
    OBVIOUS
  <2>a. TypeOK
    BY DEF TypeInv
  <2> USE <2>a DEF TypeOK, table, processes, history
  <2>1. ASSUME NEW i \in Ids, Enqueue(i) \/ ReplayDeadLetter(i) PROVE Stays
    BY <2>1 DEF Enqueue, ReplayDeadLetter
  <2>2. ASSUME NEW d \in Dispatchers, MarkDelivered(d) \/ DeadLetterDelivery(d) PROVE Stays
    BY <2>2 DEF MarkDelivered, DeadLetterDelivery, Open
  <2>3. ASSUME NEW d \in Dispatchers, PurgeDelivered(d) PROVE Stays
    <3>1. PICK offset \in Offsets :
            status' = [i \in Ids |-> IF i \in Expired(offset) THEN "purged" ELSE status[i]]
      BY <2>3 DEF PurgeDelivered
    <3>2. \A i \in Expired(offset) : status[i] = "delivered" /\ age[i] + offset > Retention
      BY DEF Expired
    <3>3. offset \in Int /\ offset <= ClockSkew /\ ClockSkew \in Nat /\ Retention \in Nat
      BY ConfigAssumption DEF Offsets
    <3>4. \A i \in Expired(offset) : i \in Ids /\ age[i] \in Nat
      BY DEF Expired
    <3>5. \A i \in Expired(offset) : age[i] + ClockSkew > Retention
      BY <3>2, <3>3, <3>4
    <3> QED
      BY <3>1, <3>2, <3>5
  <2>4. ASSUME NEW d \in Dispatchers,
               \/ ClaimDueDeliveries(d) \/ ClaimAnswerLost(d) \/ StartSend(d)
               \/ ReceiverAccepts(d) \/ SendReturns(d) \/ RescheduleDelivery(d)
               \/ OutcomeLost(d) \/ StopDispatch(d) \/ RunReturns(d) \/ Crash(d)
               \/ PoisonCrash(d) \/ Restart(d)
        PROVE  UNCHANGED status
    BY <2>4 DEF ClaimDueDeliveries, ClaimAnswerLost, ClaimRows, StartSend,
       ReceiverAccepts, SendReturns, RescheduleDelivery, OutcomeLost, StopDispatch,
       RunReturns, Crash, PoisonCrash, LoseWork, Restart
  <2>5. CASE Tick
    BY <2>5 DEF Tick
  <2> QED
    BY <2>1, <2>2, <2>3, <2>4, <2>5 DEF Next
<1> QED
  BY <1>1, TypeInvInit, TypeInvStep, PTL DEF Spec, TerminalStays

-----------------------------------------------------------------------------
(***************************************************************************)
(* Leases. Left(d) is the most time d's batch can still take: a Timeout    *)
(* for every row not yet sent, what is left of the POST under way, and     *)
(* what is left of its stalls. leaseFor is right because the lease of      *)
(* every row in hand is longer than that: it is when the batch is claimed, *)
(* and each tick takes one from both.                                      *)
(***************************************************************************)
Left(d) == Cardinality(batch[d]) * Timeout + timer[d] + slack[d]

LeaseCovers == \A d \in Dispatchers : \A i \in Held(d) : status[i] = "pending" /\ due[i] > Left(d)
Disjoint    == \A d, e \in Dispatchers : d # e => Held(d) \cap Held(e) = {}

LeaseInv == TypeInv /\ LeaseCovers /\ Disjoint

LEMMA BatchFinite ==
  ASSUME TypeOK, NEW d \in Dispatchers
  PROVE  IsFiniteSet(batch[d]) /\ Cardinality(batch[d]) \in Nat
BY IdsAssumption, FS_Subset, FS_CardinalityType DEF TypeOK

LEMMA TimesMonotone ==
  ASSUME NEW a \in Nat, NEW b \in Nat, NEW t \in Nat, a <= b
  PROVE  a * t \in Nat /\ a * t <= b * t
OBVIOUS

LEMMA TimesOneLess ==
  ASSUME NEW a \in Nat, NEW t \in Nat
  PROVE  a * t \in Nat /\ (a - 1) * t = a * t - t
OBVIOUS

LEMMA LeftType ==
  ASSUME TypeOK, NEW d \in Dispatchers
  PROVE  Left(d) \in Nat /\ Left(d) >= 0
<1>1. Cardinality(batch[d]) * Timeout \in Nat
  BY BatchFinite, TimesOneLess, ConfigAssumption
<1> QED
  BY <1>1 DEF Left, TypeOK

\* A step in which only d's hands change, and no row in other hands.
LEMMA LeaseFrame ==
  ASSUME LeaseInv, NEW d \in Dispatchers,
         \A e \in Dispatchers \ {d} : Held(e)' = Held(e) /\ Left(e)' = Left(e),
         \A e \in Dispatchers \ {d} : \A i \in Held(e) :
            i \notin Held(d)' /\ status'[i] = status[i] /\ due'[i] = due[i],
         \A i \in Held(d)' : status'[i] = "pending" /\ due'[i] > Left(d)'
  PROVE  LeaseCovers' /\ Disjoint'
<1>1. LeaseCovers'
  <2> SUFFICES ASSUME NEW e \in Dispatchers, NEW i \in Held(e)'
               PROVE  status'[i] = "pending" /\ due'[i] > Left(e)'
    BY DEF LeaseCovers
  <2>1. CASE e = d
    BY <2>1
  <2>2. CASE e # d
    BY <2>2 DEF LeaseInv, LeaseCovers
  <2> QED
    BY <2>1, <2>2
<1>2. Disjoint'
  <2> SUFFICES ASSUME NEW e \in Dispatchers, NEW f \in Dispatchers, e # f
               PROVE  Held(e)' \cap Held(f)' = {}
    BY DEF Disjoint
  <2>1. CASE e = d \/ f = d
    BY <2>1
  <2>2. CASE e # d /\ f # d
    BY <2>2 DEF LeaseInv, Disjoint
  <2> QED
    BY <2>1, <2>2
<1> QED
  BY <1>1, <1>2

LEMMA LeaseStep ==
  ASSUME MaxStall < Poll
  PROVE  LeaseInv /\ [Next]_vars => LeaseInv'
<1> SUFFICES ASSUME LeaseInv, [Next]_vars PROVE LeaseCovers' /\ Disjoint'
  BY TypeInvStep DEF LeaseInv
<1>a. TypeOK /\ HandsOK /\ TypeInv /\ LeaseCovers /\ Disjoint
  BY DEF LeaseInv, TypeInv
<1>b. TypeOK'
  BY <1>a, TypeInvStep DEF TypeInv
<1>c. \A d \in Dispatchers : \A i \in Held(d) : i \in Ids
  BY <1>a DEF Held, TypeOK
<1> USE <1>a, <1>b DEF table, processes, history
<1>1. ASSUME NEW i \in Ids, Enqueue(i) \/ ReplayDeadLetter(i)
      PROVE  LeaseCovers' /\ Disjoint'
  <2>1. \A d \in Dispatchers : Held(d)' = Held(d) /\ Left(d)' = Left(d)
    BY <1>1 DEF Enqueue, ReplayDeadLetter, Held, Left
  <2>2. \A d \in Dispatchers : \A j \in Held(d) :
          j # i /\ status'[j] = status[j] /\ due'[j] = due[j]
    BY <1>1, <1>c DEF Enqueue, ReplayDeadLetter, LeaseCovers, TypeOK
  <2> QED
    BY <2>1, <2>2 DEF LeaseCovers, Disjoint
<1>2. ASSUME NEW d \in Dispatchers, ClaimDueDeliveries(d)
      PROVE  LeaseCovers' /\ Disjoint'
  <2>1. PICK S \in SUBSET Ids : /\ IsDueBatch(S) /\ ClaimRows(S)
                                /\ batch' = [batch EXCEPT ![d] = S]
    BY <1>2 DEF ClaimDueDeliveries
  <2>2. Held(d)' = S
    BY <1>2, <2>1, IdsAssumption
    DEF ClaimDueDeliveries, Working, Held, HandsOK, HandOK, TypeOK
  <2>3. \A i \in S : status[i] = "pending" /\ due[i] <= 0 /\ i \in Ids
    BY <2>1 DEF IsDueBatch, DueRows
  <2>4. Left(d)' < LeaseFor
    <3>1. Cardinality(S) \in Nat /\ Cardinality(S) <= Batch
      BY <2>1, IdsAssumption, FS_Subset, FS_CardinalityType DEF IsDueBatch
    <3>2. Cardinality(S) * Timeout \in Nat /\ Cardinality(S) * Timeout <= Batch * Timeout
      BY <3>1, TimesMonotone, ConfigAssumption
    <3>3. timer[d] = 0
      BY <1>2 DEF ClaimDueDeliveries, Working, Sending, HandsOK, HandOK
    <3>4. Batch * Timeout \in Nat
      BY ConfigAssumption
    <3>5. Left(d)' = Cardinality(S) * Timeout + 0 + MaxStall
      BY <1>2, <2>1, <3>3 DEF ClaimDueDeliveries, Left, TypeOK
    <3> HIDE DEF Left
    <3> QED
      BY <3>2, <3>4, <3>5, ConfigAssumption DEF LeaseFor
  <2>5. \A e \in Dispatchers \ {d} : Held(e)' = Held(e) /\ Left(e)' = Left(e)
    BY <1>2, <2>1 DEF ClaimDueDeliveries, Held, Left, TypeOK
  <2>6. ASSUME NEW e \in Dispatchers \ {d}, NEW i \in Held(e)
        PROVE  i \notin S /\ status'[i] = status[i] /\ due'[i] = due[i]
    <3>1. due[i] > Left(e) /\ Left(e) \in Nat /\ i \in Ids /\ due[i] \in Int
      BY <1>c, LeftType DEF LeaseCovers, TypeOK
    <3>2. i \notin S
      BY <2>3, <3>1
    <3> QED
      BY <2>1, <3>1, <3>2 DEF ClaimRows
  <2>7. \A i \in S : status'[i] = "pending" /\ due'[i] = LeaseFor
    BY <2>1, <2>3 DEF ClaimRows
  <2> QED
    BY <2>2, <2>4, <2>5, <2>6, <2>7, LeaseFrame
<1>3. ASSUME NEW d \in Dispatchers, ClaimAnswerLost(d)
      PROVE  LeaseCovers' /\ Disjoint'
  <2>1. PICK S \in SUBSET Ids : IsDueBatch(S) /\ ClaimRows(S)
    BY <1>3 DEF ClaimAnswerLost
  <2>2. \A e \in Dispatchers : Held(e)' = Held(e) /\ Left(e)' = Left(e)
    BY <1>3 DEF ClaimAnswerLost, Held, Left
  <2>3. ASSUME NEW e \in Dispatchers, NEW i \in Held(e)
        PROVE  status'[i] = status[i] /\ due'[i] = due[i]
    <3>1. due[i] > Left(e) /\ Left(e) \in Nat /\ i \in Ids /\ due[i] \in Int
      BY <1>c, LeftType DEF LeaseCovers, TypeOK
    <3>2. i \notin S
      BY <2>1, <3>1 DEF IsDueBatch, DueRows
    <3> QED
      BY <2>1, <3>1, <3>2 DEF ClaimRows
  <2> QED
    BY <2>2, <2>3 DEF LeaseCovers, Disjoint
<1>4. ASSUME NEW d \in Dispatchers, StartSend(d)
      PROVE  LeaseCovers' /\ Disjoint'
  <2>1. PICK i \in batch[d] : /\ batch' = [batch EXCEPT ![d] = @ \ {i}]
                              /\ cur' = [cur EXCEPT ![d] = i]
    BY <1>4 DEF StartSend
  <2>2. Held(d)' = Held(d)
    BY <1>4, <2>1, IdsAssumption DEF StartSend, Held, HandsOK, HandOK, TypeOK
  <2>3. Left(d)' = Left(d)
    <3>1. Cardinality(batch[d] \ {i}) = Cardinality(batch[d]) - 1
      BY BatchFinite, FS_RemoveElement
    <3>2. Cardinality(batch[d] \ {i}) * Timeout = Cardinality(batch[d]) * Timeout - Timeout
      BY <3>1, BatchFinite, TimesOneLess, ConfigAssumption
    <3>3. Cardinality(batch[d]) * Timeout \in Nat
      BY BatchFinite, TimesOneLess, ConfigAssumption
    <3>4. timer[d] = 0 /\ timer'[d] = Timeout /\ slack'[d] = slack[d] /\ slack[d] \in Nat
      <4>1. stage[d] = "idle" /\ HandOK(d)
        BY <1>4 DEF StartSend, HandsOK
      <4>2. timer[d] = 0
        BY <4>1 DEF Sending, HandOK
      <4> QED
        BY <1>4, <4>2 DEF StartSend, TypeOK
    <3>5. batch'[d] = batch[d] \ {i}
      BY <2>1 DEF TypeOK
    <3>6. Left(d)' = Cardinality(batch[d] \ {i}) * Timeout + Timeout + slack[d]
      BY <3>4, <3>5 DEF Left
    <3>7. Left(d) = Cardinality(batch[d]) * Timeout + 0 + slack[d]
      BY <3>4 DEF Left
    <3> QED
      BY <3>2, <3>3, <3>4, <3>6, <3>7, ConfigAssumption
  <2>4. \A e \in Dispatchers \ {d} : Held(e)' = Held(e) /\ Left(e)' = Left(e)
    BY <1>4, <2>1 DEF StartSend, Held, Left, TypeOK
  <2>5. status' = status /\ due' = due
    BY <1>4 DEF StartSend
  <2> QED
    BY <2>2, <2>3, <2>4, <2>5 DEF LeaseCovers, Disjoint
<1>5. ASSUME NEW d \in Dispatchers, ReceiverAccepts(d)
      PROVE  LeaseCovers' /\ Disjoint'
  BY <1>5 DEF ReceiverAccepts, LeaseCovers, Disjoint, Held, Left
<1>6. ASSUME NEW d \in Dispatchers, SendReturns(d)
      PROVE  LeaseCovers' /\ Disjoint'
  <2>1. \A e \in Dispatchers : Held(e)' = Held(e)
    BY <1>6 DEF SendReturns, Held
  <2>2. ASSUME NEW e \in Dispatchers PROVE Left(e)' <= Left(e) /\ Left(e)' \in Nat
    <3>1. Cardinality(batch[e]) * Timeout \in Nat
      BY BatchFinite, TimesOneLess, ConfigAssumption
    <3>2. timer'[e] <= timer[e] /\ timer'[e] \in Nat /\ batch' = batch /\ slack' = slack
      BY <1>6 DEF SendReturns, TypeOK
    <3> QED
      BY <3>1, <3>2 DEF Left, TypeOK
  <2>3. status' = status /\ due' = due
    BY <1>6 DEF SendReturns
  <2>4. LeaseCovers'
    <3> SUFFICES ASSUME NEW e \in Dispatchers, NEW i \in Held(e)'
                 PROVE  status'[i] = "pending" /\ due'[i] > Left(e)'
      BY DEF LeaseCovers
    <3>1. status[i] = "pending" /\ due[i] > Left(e) /\ due[i] \in Int /\ Left(e) \in Nat
      BY <1>c, <2>1, LeftType DEF LeaseCovers, TypeOK
    <3> QED
      BY <2>2, <2>3, <3>1
  <2> QED
    BY <2>1, <2>4 DEF Disjoint
<1>7. ASSUME NEW d \in Dispatchers, stage[d] \in Outcomes, Forget(d),
             \A i \in Ids \ {cur[d]} : status'[i] = status[i] /\ due'[i] = due[i]
      PROVE  LeaseCovers' /\ Disjoint'
  <2>1. Held(d)' = batch[d] /\ cur[d] \notin batch[d] /\ cur[d] \in Held(d)
    BY <1>7, IdsAssumption DEF Forget, Held, HandsOK, HandOK, TypeOK
  <2>2. \A e \in Dispatchers : Left(e)' = Left(e)
    BY <1>7 DEF Forget, Left
  <2>3. \A e \in Dispatchers \ {d} : Held(e)' = Held(e) /\ cur[d] \notin Held(e)
    BY <1>7, <2>1 DEF Forget, Held, Disjoint, TypeOK
  <2>4. batch[d] \subseteq Held(d)
    BY DEF Held
  <2>5. \A e \in Dispatchers \ {d} : \A i \in Held(e) :
          i \notin Held(d)' /\ status'[i] = status[i] /\ due'[i] = due[i]
    BY <1>7, <1>c, <2>1, <2>3, <2>4 DEF Disjoint
  <2>6. \A i \in Held(d)' : status'[i] = "pending" /\ due'[i] > Left(d)'
    BY <1>7, <1>c, <2>1, <2>2, <2>4 DEF LeaseCovers
  <2> QED
    BY <2>2, <2>3, <2>5, <2>6, LeaseFrame
<1>8. ASSUME NEW d \in Dispatchers,
             \/ MarkDelivered(d) \/ DeadLetterDelivery(d)
             \/ RescheduleDelivery(d) \/ OutcomeLost(d)
      PROVE  LeaseCovers' /\ Disjoint'
  <2>1. stage[d] \in Outcomes /\ Forget(d)
    BY <1>8 DEF MarkDelivered, DeadLetterDelivery, RescheduleDelivery, OutcomeLost
  <2>2. \A i \in Ids \ {cur[d]} : status'[i] = status[i] /\ due'[i] = due[i]
    BY <1>8 DEF MarkDelivered, DeadLetterDelivery, RescheduleDelivery, OutcomeLost, TypeOK
  <2> QED
    BY <1>7, <2>1, <2>2
<1>9. ASSUME NEW d \in Dispatchers, PurgeDelivered(d) \/ StopDispatch(d) \/ Restart(d)
      PROVE  LeaseCovers' /\ Disjoint'
  <2>1. \A e \in Dispatchers : Held(e)' = Held(e) /\ Left(e)' = Left(e)
    BY <1>9 DEF PurgeDelivered, StopDispatch, Restart, Held, Left
  <2>2. \A e \in Dispatchers : \A i \in Held(e) : status'[i] = status[i] /\ due'[i] = due[i]
    <3>1. CASE PurgeDelivered(d)
      <4>1. PICK S \in SUBSET Ids :
              /\ \A i \in S : status[i] = "delivered"
              /\ status' = [i \in Ids |-> IF i \in S THEN "purged" ELSE status[i]]
        BY <3>1 DEF PurgeDelivered, Expired
      <4> QED
        BY <3>1, <4>1, <1>c DEF PurgeDelivered, LeaseCovers, TypeOK
    <3>2. CASE StopDispatch(d) \/ Restart(d)
      BY <3>2 DEF StopDispatch, Restart
    <3> QED
      BY <1>9, <3>1, <3>2
  <2> QED
    BY <2>1, <2>2 DEF LeaseCovers, Disjoint
<1>10. ASSUME NEW d \in Dispatchers, RunReturns(d) \/ Crash(d) \/ PoisonCrash(d)
       PROVE  LeaseCovers' /\ Disjoint'
  <2>1. LoseWork(d)
    BY <1>10 DEF RunReturns, Crash, PoisonCrash
  <2>2. Held(d)' = {}
    BY <2>1, IdsAssumption DEF LoseWork, Held, TypeOK
  <2>3. \A e \in Dispatchers \ {d} : Held(e)' = Held(e) /\ Left(e)' = Left(e)
    BY <2>1 DEF LoseWork, Held, Left, TypeOK
  <2>4. status' = status /\ due' = due
    BY <2>1 DEF LoseWork
  <2> QED
    BY <2>2, <2>3, <2>4, LeaseFrame
<1>11. CASE Tick
  <2>1. \A e \in Dispatchers : Held(e)' = Held(e)
    BY <1>11 DEF Tick, Held
  <2>2. ASSUME NEW e \in Dispatchers, NEW i \in Held(e)
        PROVE  status'[i] = "pending" /\ due'[i] > Left(e)'
    <3>1. Working(e)
      BY <1>c, <2>2, IdsAssumption DEF Held, Working, HandsOK, HandOK
    <3>2. Left(e)' = Left(e) - 1
      <4>1. Cardinality(batch[e]) * Timeout \in Nat /\ batch' = batch
        BY <1>11, BatchFinite, TimesOneLess, ConfigAssumption DEF Tick
      <4>2. \/ timer'[e] = timer[e] - 1 /\ slack'[e] = slack[e]
            \/ timer'[e] = timer[e] /\ slack'[e] = slack[e] - 1
        BY <1>11, <3>1 DEF Tick
      <4> QED
        BY <4>1, <4>2 DEF Left, TypeOK
    <3>3. status[i] = "pending" /\ due[i] > Left(e) /\ due[i] \in Int /\ Left(e) \in Nat
          /\ i \in Ids
      BY <1>c, LeftType DEF LeaseCovers, TypeOK
    <3>4. due'[i] = due[i] - 1 /\ status' = status
      BY <1>11, <3>3, BoundsAssumption DEF Tick
    <3> QED
      BY <3>2, <3>3, <3>4
  <2> QED
    BY <2>1, <2>2 DEF LeaseCovers, Disjoint
<1>12. CASE UNCHANGED vars
  BY <1>12 DEF vars, LeaseCovers, Disjoint, Held, Left
<1> QED
  BY <1>1, <1>2, <1>3, <1>4, <1>5, <1>6, <1>8, <1>9, <1>10, <1>11, <1>12 DEF Next

LEMMA LeaseInitially == Init => LeaseInv
BY TypeInvInit, IdsAssumption DEF Init, LeaseInv, LeaseCovers, Disjoint, Held

\* As long as a dispatcher stalls for less than Poll in one batch, leaseFor is
\* long enough for every batch size, timeout and number of dispatchers: no
\* delivery is ever in two hands, and none in hand is settled or due again.
THEOREM LeasesExclusive ==
  ASSUME MaxStall < Poll
  PROVE  Spec => []ClaimsExclusive
<1>1. LeaseInv => ClaimsExclusive
  <2> SUFFICES ASSUME LeaseInv PROVE ClaimsExclusive
    OBVIOUS
  <2>1. \A d \in Dispatchers : \A i \in Held(d) : due[i] > Left(d) /\ due[i] \in Int
    BY DEF LeaseInv, LeaseCovers, TypeInv, TypeOK, Held
  <2>2. \A d \in Dispatchers : Left(d) \in Nat
    BY LeftType DEF LeaseInv, TypeInv
  <2> QED
    BY <2>1, <2>2 DEF LeaseInv, LeaseCovers, Disjoint, ClaimsExclusive
<1> QED
  BY <1>1, LeaseInitially, LeaseStep, PTL DEF Spec

-----------------------------------------------------------------------------
(***************************************************************************)
(* The retry budget. While leases exclude each other, the attempt number   *)
(* a dispatcher works with is the one in the table, and the table's count  *)
(* is exactly the attempts made or lost since the row was queued or        *)
(* replayed; so a row parked for transient failures has had them all.      *)
(***************************************************************************)
ClaimCurrent == \A d \in Dispatchers : \A i \in Held(d) : claim[d][i] = attempts[i]

InBatch(i) == \E d \in Dispatchers : i \in batch[d]

BudgetInv == LeaseInv /\ ClaimCurrent /\ AttemptsAccounted /\ FullBudget

\* A step that counts attempts exactly for the rows it newly claims or loses.
LEMMA AccountingFrame ==
  ASSUME BudgetInv, NEW i \in Ids,
         \/ /\ attempts'[i] = attempts[i] /\ tries'[i] = tries[i]
            /\ InBatch(i)' <=> InBatch(i)
         \/ /\ attempts'[i] = attempts[i] /\ tries'[i] = Charge(tries[i])
            /\ InBatch(i) /\ ~InBatch(i)'
         \/ /\ attempts'[i] = Charge(attempts[i]) /\ tries'[i] = tries[i]
            /\ ~InBatch(i) /\ InBatch(i)'
         \/ /\ attempts'[i] = Charge(attempts[i]) /\ tries'[i] = Charge(tries[i])
            /\ ~InBatch(i) /\ ~InBatch(i)'
         \/ attempts'[i] = 0 /\ tries'[i] = 0 /\ ~InBatch(i)'
  PROVE  attempts'[i] = IF InBatch(i)' THEN Charge(tries'[i]) ELSE tries'[i]
<1>1. attempts[i] = IF InBatch(i) THEN Charge(tries[i]) ELSE tries[i]
  BY DEF BudgetInv, AttemptsAccounted, InBatch
<1> QED
  BY <1>1

\* A step that leaves the held rows' attempts and numbers alone.
LEMMA BudgetFrame ==
  ASSUME BudgetInv, LeaseInv',
         \A i \in Ids : attempts'[i] = IF InBatch(i)' THEN Charge(tries'[i]) ELSE tries'[i],
         \A d \in Dispatchers : \A i \in Held(d)' : claim'[d][i] = attempts'[i],
         \A i \in Ids : status'[i] = "dead_letter" /\ last_error'[i] = "transient"
                          => tries'[i] >= MaxAttempts
  PROVE  BudgetInv'
BY DEF BudgetInv, ClaimCurrent, AttemptsAccounted, FullBudget, InBatch

LEMMA ParkedNotHeld ==
  ASSUME LeaseInv, NEW i \in Ids, status[i] # "pending"
  PROVE  ~InBatch(i) /\ \A d \in Dispatchers : i \notin Held(d)
BY DEF LeaseInv, LeaseCovers, InBatch, Held

LEMMA BudgetStep ==
  ASSUME MaxStall < Poll
  PROVE  BudgetInv /\ [Next]_vars => BudgetInv'
<1> SUFFICES ASSUME BudgetInv, [Next]_vars PROVE BudgetInv'
  OBVIOUS
<1>a. LeaseInv /\ LeaseInv' /\ TypeInv /\ TypeOK /\ HandsOK /\ LeaseCovers /\ Disjoint
      /\ ClaimCurrent /\ AttemptsAccounted /\ FullBudget /\ TypeOK'
  BY LeaseStep DEF BudgetInv, LeaseInv, TypeInv
<1>c. \A d \in Dispatchers : \A i \in Held(d) : i \in Ids
  BY <1>a DEF Held, TypeOK
<1>d. \A n \in Nat : Charge(n) \in Nat /\ Charge(n) >= n
  BY BoundsAssumption DEF Charge
<1> USE <1>a DEF table, processes, history
<1> DEFINE Counts(i) == attempts'[i] = IF InBatch(i)' THEN Charge(tries'[i]) ELSE tries'[i]
           Paid(i)   == status'[i] = "dead_letter" /\ last_error'[i] = "transient"
                          => tries'[i] >= MaxAttempts
\* hands, counters and parked rows untouched
<1>e. ASSUME UNCHANGED <<attempts, tries, batch, claim, cur>>,
             \A i \in Ids : status'[i] = "dead_letter" /\ last_error'[i] = "transient"
                => tries[i] >= MaxAttempts
      PROVE  BudgetInv'
  <2>1. \A i \in Ids : Counts(i)
    BY <1>e, AccountingFrame DEF InBatch
  <2>2. \A d \in Dispatchers : \A i \in Held(d)' : claim'[d][i] = attempts'[i]
    BY <1>e DEF ClaimCurrent, Held
  <2> QED
    BY <1>e, <2>1, <2>2, BudgetFrame
<1>1. ASSUME NEW k \in Ids, Enqueue(k) PROVE BudgetInv'
  BY <1>1, <1>e DEF Enqueue, FullBudget, TypeOK
<1>2. ASSUME NEW k \in Ids, ReplayDeadLetter(k) PROVE BudgetInv'
  <2>1. /\ ~InBatch(k) /\ \A d \in Dispatchers : k \notin Held(d)
        /\ batch' = batch /\ cur' = cur /\ claim' = claim
        /\ attempts'[k] = 0 /\ tries'[k] = 0 /\ status'[k] = "pending"
        /\ \A i \in Ids \ {k} : /\ attempts'[i] = attempts[i] /\ tries'[i] = tries[i]
                                /\ status'[i] = status[i] /\ last_error'[i] = last_error[i]
    BY <1>2, ParkedNotHeld DEF ReplayDeadLetter, ResetAttempts, TypeOK
  <2>2. \A i \in Ids : Counts(i)
    BY <2>1, AccountingFrame DEF InBatch
  <2>3. \A d \in Dispatchers : \A i \in Held(d)' : claim'[d][i] = attempts'[i]
    BY <1>c, <2>1 DEF ClaimCurrent, Held
  <2>4. \A i \in Ids : Paid(i)
    BY <2>1 DEF FullBudget
  <2> QED
    BY <2>2, <2>3, <2>4, BudgetFrame
<1>3. ASSUME NEW d \in Dispatchers, ClaimDueDeliveries(d) PROVE BudgetInv'
  <2>1. PICK S \in SUBSET Ids :
          /\ IsDueBatch(S) /\ ClaimRows(S)
          /\ batch' = [batch EXCEPT ![d] = S]
          /\ claim' = [claim EXCEPT ![d] =
                         [i \in Ids |-> IF i \in S THEN Charge(attempts[i]) ELSE 0]]
    BY <1>3 DEF ClaimDueDeliveries
  <2>2. \A i \in S : i \in Ids /\ \A e \in Dispatchers : i \notin Held(e)
    <3> SUFFICES ASSUME NEW i \in S, NEW e \in Dispatchers, i \in Held(e) PROVE FALSE
      OBVIOUS
    <3>1. due[i] > Left(e) /\ Left(e) \in Nat /\ due[i] \in Int
      BY LeftType DEF LeaseCovers, TypeOK
    <3> QED
      BY <2>1, <3>1 DEF IsDueBatch, DueRows
  <2>3. batch[d] = {} /\ cur[d] = NoId
    BY <1>3 DEF ClaimDueDeliveries, Working, HandsOK, HandOK
  <2>4. \A i \in Ids : /\ InBatch(i)' <=> (i \in S \/ InBatch(i))
                       /\ i \in S => ~InBatch(i)
    BY <2>1, <2>2, <2>3 DEF InBatch, Held, TypeOK
  <2>5. \A i \in Ids : Counts(i)
    BY <1>3, <2>1, <2>4, AccountingFrame DEF ClaimDueDeliveries, ClaimRows
  <2>6. \A e \in Dispatchers : \A i \in Held(e)' : claim'[e][i] = attempts'[i]
    <3>1. ASSUME NEW i \in Held(d)' PROVE claim'[d][i] = attempts'[i]
      <4>1. i \in S
        BY <1>3, <2>1, <2>3, <3>1, IdsAssumption DEF ClaimDueDeliveries, Held, TypeOK
      <4> QED
        BY <2>1, <4>1 DEF ClaimRows, TypeOK
    <3>2. ASSUME NEW e \in Dispatchers \ {d}, NEW i \in Held(e)'
          PROVE  claim'[e][i] = attempts'[i]
      <4>1. i \in Held(e) /\ claim'[e] = claim[e]
        BY <1>3, <2>1, <3>2 DEF ClaimDueDeliveries, Held, TypeOK
      <4>2. i \notin S /\ i \in Ids
        BY <1>c, <2>2, <4>1
      <4> QED
        BY <2>1, <4>1, <4>2 DEF ClaimRows, ClaimCurrent
    <3> QED
      BY <3>1, <3>2
  <2>7. \A i \in Ids : Paid(i)
    BY <1>3, <2>1 DEF ClaimDueDeliveries, ClaimRows, FullBudget
  <2> QED
    BY <2>5, <2>6, <2>7, BudgetFrame
<1>4. ASSUME NEW d \in Dispatchers, ClaimAnswerLost(d) PROVE BudgetInv'
  <2>1. PICK S \in SUBSET Ids : IsDueBatch(S) /\ ClaimRows(S) /\ ChargeTries(S)
    BY <1>4 DEF ClaimAnswerLost
  <2>2. \A i \in S : i \in Ids /\ \A e \in Dispatchers : i \notin Held(e)
    <3> SUFFICES ASSUME NEW i \in S, NEW e \in Dispatchers, i \in Held(e) PROVE FALSE
      OBVIOUS
    <3>1. due[i] > Left(e) /\ Left(e) \in Nat /\ due[i] \in Int
      BY LeftType DEF LeaseCovers, TypeOK
    <3> QED
      BY <2>1, <3>1 DEF IsDueBatch, DueRows
  <2>3. batch' = batch /\ cur' = cur /\ claim' = claim
    BY <1>4 DEF ClaimAnswerLost
  <2>4. \A i \in Ids : (InBatch(i)' <=> InBatch(i)) /\ (i \in S => ~InBatch(i))
    BY <2>2, <2>3 DEF InBatch, Held
  <2>5. \A i \in Ids : Counts(i)
    BY <2>1, <2>4, AccountingFrame DEF ClaimRows, ChargeTries
  <2>6. \A e \in Dispatchers : \A i \in Held(e)' : claim'[e][i] = attempts'[i]
    BY <1>c, <2>1, <2>2, <2>3 DEF ClaimRows, ClaimCurrent, Held
  <2>7. \A i \in Ids : Paid(i)
    BY <2>1 DEF IsDueBatch, DueRows, ClaimRows, ChargeTries, FullBudget
  <2> QED
    BY <2>5, <2>6, <2>7, BudgetFrame
<1>5. ASSUME NEW d \in Dispatchers, StartSend(d) PROVE BudgetInv'
  <2>1. PICK k \in batch[d] : /\ batch' = [batch EXCEPT ![d] = @ \ {k}]
                              /\ cur' = [cur EXCEPT ![d] = k]
                              /\ ChargeTries({k})
    BY <1>5 DEF StartSend
  <2>2. k \in Ids /\ status[k] = "pending" /\ \A e \in Dispatchers \ {d} : k \notin batch[e]
    BY DEF LeaseCovers, Disjoint, Held, TypeOK
  <2>3. InBatch(k) /\ ~InBatch(k)' /\ \A i \in Ids \ {k} : InBatch(i)' <=> InBatch(i)
    BY <2>1, <2>2 DEF InBatch, TypeOK
  <2>4. \A i \in Ids : Counts(i)
    BY <1>5, <2>1, <2>2, <2>3, AccountingFrame DEF StartSend, ChargeTries
  <2>5. \A e \in Dispatchers : Held(e)' = Held(e)
    BY <1>5, <2>1, IdsAssumption DEF StartSend, Held, HandsOK, HandOK, TypeOK
  <2>6. \A e \in Dispatchers : \A i \in Held(e)' : claim'[e][i] = attempts'[i]
    BY <1>5, <2>5 DEF StartSend, ClaimCurrent
  <2>7. \A i \in Ids : Paid(i)
    BY <1>5, <2>1, <2>2 DEF StartSend, ChargeTries, FullBudget
  <2> QED
    BY <2>4, <2>6, <2>7, BudgetFrame
<1>6. ASSUME NEW d \in Dispatchers,
             ReceiverAccepts(d) \/ SendReturns(d) \/ StopDispatch(d) \/ Restart(d)
      PROVE  BudgetInv'
  BY <1>6, <1>e DEF ReceiverAccepts, SendReturns, StopDispatch, Restart, FullBudget
<1>7. ASSUME NEW d \in Dispatchers, stage[d] \in Outcomes, Forget(d),
             UNCHANGED <<attempts, tries>>, \A i \in Ids : Paid(i)
      PROVE  BudgetInv'
  <2>1. \A e \in Dispatchers : Held(e)' \subseteq Held(e)
    BY <1>7, IdsAssumption DEF Forget, Held, TypeOK
  <2>2. cur[d] \notin Held(d)'
    BY <1>7, IdsAssumption DEF Forget, Held, HandsOK, HandOK, TypeOK
  <2>3. \A i \in Ids : Counts(i)
    BY <1>7, AccountingFrame DEF Forget, InBatch
  <2>4. \A e \in Dispatchers : \A i \in Held(e)' : claim'[e][i] = claim[e][i]
    BY <1>7, <1>c, <2>1, <2>2 DEF Forget, TypeOK
  <2>5. \A e \in Dispatchers : \A i \in Held(e)' : claim'[e][i] = attempts'[i]
    BY <1>7, <2>1, <2>4 DEF ClaimCurrent
  <2> QED
    BY <1>7, <2>3, <2>5, BudgetFrame
<1>8. ASSUME NEW d \in Dispatchers, MarkDelivered(d) PROVE BudgetInv'
  BY <1>7, <1>8 DEF MarkDelivered, FullBudget, TypeOK
<1>9. ASSUME NEW d \in Dispatchers, DeadLetterDelivery(d) PROVE BudgetInv'
  <2>1. cur[d] \in Ids /\ cur[d] \in Held(d) /\ cur[d] \notin batch[d]
    BY <1>9 DEF DeadLetterDelivery, HandsOK, HandOK, Held, TypeOK
  <2>2. ~InBatch(cur[d])
    BY <2>1 DEF InBatch, Disjoint, Held
  <2>3. attempts[cur[d]] = tries[cur[d]] /\ claim[d][cur[d]] = attempts[cur[d]]
    BY <2>1, <2>2 DEF AttemptsAccounted, ClaimCurrent, InBatch
  <2>4. ASSUME NEW i \in Ids PROVE Paid(i)
    <3>1. CASE Open(cur[d]) /\ i = cur[d]
      BY <1>9, <2>1, <2>3, <3>1 DEF DeadLetterDelivery, Final, Cause, TypeOK
    <3>2. CASE ~(Open(cur[d]) /\ i = cur[d])
      BY <1>9, <3>2 DEF DeadLetterDelivery, FullBudget, TypeOK
    <3> QED
      BY <3>1, <3>2
  <2> QED
    BY <1>7, <1>9, <2>4 DEF DeadLetterDelivery
<1>10. ASSUME NEW d \in Dispatchers, RescheduleDelivery(d) PROVE BudgetInv'
  <2>1. ASSUME NEW i \in Ids PROVE Paid(i)
    <3>1. CASE Open(cur[d]) /\ i = cur[d]
      BY <1>10, <3>1 DEF RescheduleDelivery, Open
    <3>2. CASE ~(Open(cur[d]) /\ i = cur[d])
      BY <1>10, <3>2 DEF RescheduleDelivery, FullBudget, TypeOK
    <3> QED
      BY <3>1, <3>2
  <2> QED
    BY <1>7, <1>10, <2>1 DEF RescheduleDelivery
<1>11. ASSUME NEW d \in Dispatchers, OutcomeLost(d) PROVE BudgetInv'
  BY <1>7, <1>11 DEF OutcomeLost, FullBudget
<1>12. ASSUME NEW d \in Dispatchers, PurgeDelivered(d) PROVE BudgetInv'
  <2>1. PICK S \in SUBSET Ids : status' = [i \in Ids |-> IF i \in S THEN "purged" ELSE status[i]]
    BY <1>12 DEF PurgeDelivered, Expired
  <2> QED
    BY <1>12, <1>e, <2>1 DEF PurgeDelivered, FullBudget, TypeOK
<1>13. ASSUME NEW d \in Dispatchers, RunReturns(d) \/ Crash(d) \/ PoisonCrash(d)
       PROVE  BudgetInv'
  <2>1. LoseWork(d)
    BY <1>13 DEF RunReturns, Crash, PoisonCrash
  <2>2. \A i \in Ids : i \in batch[d] => InBatch(i) /\ ~InBatch(i)'
    BY <2>1 DEF LoseWork, InBatch, Disjoint, Held, TypeOK
  <2>3. \A i \in Ids : i \notin batch[d] => (InBatch(i)' <=> InBatch(i))
    BY <2>1 DEF LoseWork, InBatch, TypeOK
  <2>4. \A i \in Ids : Counts(i)
    BY <2>1, <2>2, <2>3, AccountingFrame DEF LoseWork, ChargeTries
  <2>5. Held(d)' = {} /\ \A e \in Dispatchers \ {d} : Held(e)' = Held(e) /\ claim'[e] = claim[e]
    BY <2>1, IdsAssumption DEF LoseWork, Held, TypeOK
  <2>6. \A e \in Dispatchers : \A i \in Held(e)' : claim'[e][i] = attempts'[i]
    BY <2>1, <2>5 DEF LoseWork, ClaimCurrent
  <2>7. ASSUME NEW i \in Ids PROVE Paid(i)
    <3>1. tries'[i] \in Nat /\ tries'[i] >= tries[i] /\ tries[i] \in Nat
      BY <1>d, <2>1 DEF LoseWork, ChargeTries, TypeOK
    <3> QED
      BY <2>1, <3>1, ConfigAssumption DEF LoseWork, FullBudget
  <2> QED
    BY <2>4, <2>6, <2>7, BudgetFrame
<1>14. CASE Tick \/ UNCHANGED vars
  BY <1>14, <1>e DEF Tick, vars, FullBudget
<1> QED
  BY <1>1, <1>2, <1>3, <1>4, <1>5, <1>6, <1>8, <1>9, <1>10, <1>11, <1>12, <1>13,
     <1>14 DEF Next

LEMMA BudgetInitially == Init => BudgetInv
BY LeaseInitially, IdsAssumption
DEF Init, BudgetInv, ClaimCurrent, AttemptsAccounted, FullBudget, Held

\* With stalls shorter than Poll, the table's attempt counter is exact: it is
\* the attempts made or lost since queueing or replay, plus the one a claim
\* has counted ahead.
THEOREM AttemptsAreAccounted ==
  ASSUME MaxStall < Poll
  PROVE  Spec => []AttemptsAccounted
<1>1. BudgetInv => AttemptsAccounted
  BY DEF BudgetInv
<1> QED
  BY <1>1, BudgetInitially, BudgetStep, PTL DEF Spec

\* With stalls shorter than Poll, no delivery is parked for transient failures
\* before its MaxAttempts tries, counted anew after every replay.
THEOREM BudgetIsFull ==
  ASSUME MaxStall < Poll
  PROVE  Spec => []FullBudget
<1>1. BudgetInv => FullBudget
  BY DEF BudgetInv
<1> QED
  BY <1>1, BudgetInitially, BudgetStep, PTL DEF Spec
=============================================================================
