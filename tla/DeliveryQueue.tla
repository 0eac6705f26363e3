---------------------------- MODULE DeliveryQueue ---------------------------
(***************************************************************************)
(* What the outbox promises, with no dispatcher, lease, attempt or clock   *)
(* in sight: an event is queued once, is reported delivered only if the    *)
(* receiver accepted it, is parked otherwise, comes back from the          *)
(* dead-letter queue only by an audited replay, and is dropped from the    *)
(* table only once delivered. The receiver may accept an event more than   *)
(* once, and even after the table has settled it: delivery is at least     *)
(* once.                                                                   *)
(***************************************************************************)
EXTENDS Naturals

CONSTANT Ids

VARIABLES state, accepted, audited

qvars == <<state, accepted, audited>>

Init ==
  /\ state = [i \in Ids |-> "none"]
  /\ accepted = {}
  /\ audited = [i \in Ids |-> 0]

Move(i, from, to) == state[i] = from /\ state' = [state EXCEPT ![i] = to]

Queue(i)   == Move(i, "none", "pending") /\ UNCHANGED <<accepted, audited>>
Accept(i)  == state[i] # "none" /\ accepted' = accepted \cup {i} /\ UNCHANGED <<state, audited>>
Deliver(i) == i \in accepted /\ Move(i, "pending", "delivered") /\ UNCHANGED <<accepted, audited>>
Park(i)    == Move(i, "pending", "dead_letter") /\ UNCHANGED <<accepted, audited>>
Replay(i)  == /\ Move(i, "dead_letter", "pending")
              /\ audited' = [audited EXCEPT ![i] = @ + 1]
              /\ UNCHANGED accepted

\* One sweep drops any number of delivered events.
Drop(S) ==
  /\ \A i \in S : state[i] = "delivered"
  /\ state' = [i \in Ids |-> IF i \in S THEN "purged" ELSE state[i]]
  /\ UNCHANGED <<accepted, audited>>

Next ==
  \/ \E i \in Ids : Queue(i) \/ Accept(i) \/ Deliver(i) \/ Park(i) \/ Replay(i)
  \/ \E S \in SUBSET Ids : Drop(S)

Spec == Init /\ [][Next]_qvars
=============================================================================
