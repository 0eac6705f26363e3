---------------------------- MODULE ServerProofs ----------------------------
(***************************************************************************)
(* Theorems about module Server, for any number of requests, connections   *)
(* and faults, and any deadline.                                           *)
(***************************************************************************)
EXTENDS Server, FiniteSetTheorems, TLAPS

\* Giving connections back leaves every other owner as it was.
LEMMA ReleaseType ==
  ASSUME TypeOK, NEW C, Release(C)
  PROVE  owner' \in [Conns -> Requests \cup {Dispatcher, None}]
BY DEF TypeOK, Release

\* The two ways in which a step of a handler ends.
LEMMA FinishType ==
  ASSUME TypeOK, NEW r \in Requests,
         NEW a \in {"none", "ok", "denied", "refused", "error"}, Finish(r, a)
  PROVE  /\ owner' \in [Conns -> Requests \cup {Dispatcher, None}]
         /\ phase' \in [Requests -> Phases] /\ age' \in [Requests -> Nat]
         /\ answer' \in [Requests -> {"none", "ok", "denied", "refused", "error"}]
BY ReleaseType DEF TypeOK, Finish, Phases

LEMMA GoOnType ==
  ASSUME TypeOK, NEW r \in Requests, NEW C, NEW p \in Phases, GoOn(r, C, p)
  PROVE  /\ owner' \in [Conns -> Requests \cup {Dispatcher, None}]
         /\ phase' \in [Requests -> Phases] /\ age' \in [Requests -> Nat]
         /\ answer' \in [Requests -> {"none", "ok", "denied", "refused", "error"}]
BY ReleaseType DEF TypeOK, GoOn

LEMMA StepFailsType ==
  ASSUME TypeOK, NEW r \in Requests, StepFails(r)
  PROVE  /\ owner' \in [Conns -> Requests \cup {Dispatcher, None}]
         /\ phase' \in [Requests -> Phases] /\ age' \in [Requests -> Nat]
         /\ answer' \in [Requests -> {"none", "ok", "denied", "refused", "error"}]
<1>1. CASE Finish(r, "denied")
  BY <1>1, FinishType
<1>2. CASE Finish(r, "error")
  BY <1>2, FinishType
<1>3. CASE \E p \in {"read", "begin"} : GoOn(r, Held(r), p)
  BY <1>3, GoOnType DEF Phases, Waiting
<1>4. CASE \E c \in Held(r) :
             /\ Release(IF phase[r] = "recording" THEN {c} ELSE {})
             /\ phase' = [phase EXCEPT ![r] = "rollback"]
             /\ answer' = [answer EXCEPT ![r] = IF r \in Scim THEN @ ELSE "error"]
             /\ UNCHANGED age
  BY <1>4, ReleaseType DEF TypeOK, Phases, Using
<1> QED
  BY <1>1, <1>2, <1>3, <1>4 DEF StepFails

LEMMA TypeInit == Init => TypeOK
BY ServerAssumption DEF Init, TypeOK, Listeners, Phases, Stages

LEMMA TypeStep == TypeOK /\ [Next]_vars => TypeOK'
<1> SUFFICES ASSUME TypeOK, [Next]_vars PROVE TypeOK'
  OBVIOUS
<1>1. CASE \E r \in Requests : Arrive(r) \/ Probe(r)
  BY <1>1 DEF TypeOK, Arrive, Probe, Serve, process, Phases, Waiting
<1>2. CASE \E r \in Requests : Acquire(r)
  <2> PICK r \in Requests : Acquire(r)
    BY <1>2
  <2>1. Granted[phase[r]] \in Phases
    BY DEF Acquire, Granted, Waiting, Phases, Using
  <2> QED
    BY <2>1 DEF TypeOK, Acquire, process, Free, Held
<1>3. CASE \E r \in Requests : Handler(r) \/ Fault(r) \/ ClientGoes(r)
  <2> PICK r \in Requests : Handler(r) \/ Fault(r) \/ ClientGoes(r)
    BY <1>3
  <2>1. CASE Authenticated(r)
    BY <2>1, FinishType, GoOnType DEF Authenticated, TypeOK, process, Phases, Waiting
  <2>2. CASE Touched(r)
    BY <2>2, FinishType, GoOnType DEF Touched, TypeOK, process, Phases, Waiting
  <2>3. CASE ReadDone(r)
    BY <2>3, FinishType, GoOnType DEF ReadDone, TypeOK, process, Phases, Waiting
  <2>4. CASE Commit(r) \/ Pinged(r)
    BY <2>4, FinishType DEF Commit, Pinged, TypeOK, process
  <2>5. CASE Refuse(r) \/ RevokesNothing(r)
    BY <2>5 DEF Refuse, RevokesNothing, AskSecond, TypeOK, process, Phases, Waiting
  <2>6. CASE Recorded(r)
    BY <2>6, GoOnType DEF Recorded, TypeOK, process, Phases, Using
  <2>7. CASE RolledBack(r)
    BY <2>7, FinishType DEF RolledBack, TypeOK, process
  <2>8. CASE PoolClosed(r)
    BY <2>8, StepFailsType DEF PoolClosed, TypeOK, process
  <2>9. CASE TimesOut(r)
    <3>1. AnswerAtEnd(r) \in {"none", "ok", "denied", "refused", "error"}
      BY DEF AnswerAtEnd, TypeOK
    <3> QED
      BY <2>9, <3>1, FinishType DEF TimesOut, TypeOK, process
  <2>10. CASE Fault(r)
    BY <2>10, StepFailsType DEF Fault, TypeOK, process
  <2>11. CASE ClientGoes(r)
    BY <2>11, ReleaseType DEF ClientGoes, TypeOK, process, Phases
  <2> QED
    BY <2>1, <2>2, <2>3, <2>4, <2>5, <2>6, <2>7, <2>8, <2>9, <2>10, <2>11 DEF Handler
<1>4. CASE Claim \/ Claimed \/ RunReturns
  <2>1. CASE Claim
    BY <2>1 DEF Claim, TypeOK, Free, Held
  <2>2. CASE Claimed \/ RunReturns
    <3>1. Release(Held(Dispatcher))
      BY <2>2 DEF Claimed, RunReturns
    <3> QED
      BY <2>2, <3>1, ReleaseType DEF Claimed, RunReturns, TypeOK
  <2> QED
    BY <1>4, <2>1, <2>2
<1>5. CASE \E l \in Listeners : Listen(l) \/ BindFails(l)
  BY <1>5 DEF Listen, BindFails, TypeOK, reqs
<1>6. CASE Signal
  BY <1>6 DEF Signal, TypeOK, reqs, Stages, Listeners
<1>7. CASE SelectErr \/ ScimDrained \/ ConsoleDrained \/ StopDispatch \/ WaitReturns
  BY <1>7 DEF SelectErr, ScimDrained, ConsoleDrained, StopDispatch, WaitReturns, TypeOK, reqs,
              Stages, Listeners
<1>8. CASE CloseReturns \/ SecondSignal
  <2>1. PICK why \in {"none", "signal", "bind", "kill"} : Exit(why)
    BY <1>8 DEF CloseReturns, SecondSignal, TypeOK
  <2>2. phase' \in [Requests -> Phases]
    BY <2>1 DEF Exit, TypeOK, Phases
  <2>3. answer' \in [Requests -> {"none", "ok", "denied", "refused", "error"}]
    BY <2>1 DEF Exit, TypeOK
  <2>4. owner' \in [Conns -> Requests \cup {Dispatcher, None}] /\ age' \in [Requests -> Nat]
    BY <2>1 DEF Exit, TypeOK
  <2> QED
    BY <2>1, <2>2, <2>3, <2>4 DEF Exit, TypeOK, Stages
<1>9. CASE Tick
  BY <1>9, ServerAssumption DEF Tick, TypeOK
<1>10. CASE UNCHANGED vars
  BY <1>10 DEF TypeOK, vars, process, reqs
<1> QED
  BY <1>1, <1>2, <1>3, <1>4, <1>5, <1>6, <1>7, <1>8, <1>9, <1>10 DEF Next, Main

\* The process, the pool and every request are in one of the states the model
\* names, whatever fails and whenever the process stops.
THEOREM TypeCorrect == Spec => []TypeOK
BY TypeInit, TypeStep, PTL DEF Spec

-----------------------------------------------------------------------------
(***************************************************************************)
(* Shutdown. A SCIM request in flight after the signal is at least as old  *)
(* as the grace period, and a request is never older than its deadline: if *)
(* that is the shorter one, nobody is left when the grace period is over.  *)
(***************************************************************************)

Draining ==
  cause = "signal" =>
    /\ main # "select" /\ listener["scim"] = "closed"
    /\ \A r \in Scim : InFlight(r) => main = "drain_scim" /\ age[r] >= grace

DrainInv ==
  /\ TypeOK
  /\ \A r \in Requests : age[r] < Grace
  /\ ~pool => dispatch = "stopped" /\ main \in {"closing", "exited"}
  /\ Draining

\* No step of a handler makes a request younger and keeps it in flight.
LEMMA HandlerAges ==
  ASSUME TypeOK, NEW r \in Requests, Acquire(r) \/ Handler(r) \/ Fault(r) \/ ClientGoes(r)
  PROVE  /\ UNCHANGED process
         /\ \A q \in Requests : /\ age'[q] \in {0, age[q]}
                                /\ InFlight(q)' => InFlight(q) /\ age'[q] = age[q]
<1> DEFINE Same == \A q \in Requests : /\ age'[q] \in {0, age[q]}
                                       /\ InFlight(q)' => InFlight(q) /\ age'[q] = age[q]
<1>1. ASSUME NEW a, Finish(r, a) PROVE Same
  BY <1>1 DEF Finish, InFlight, TypeOK
<1>2. ASSUME NEW C, NEW p, GoOn(r, C, p), InFlight(r) PROVE Same
  BY <1>2 DEF GoOn, InFlight, TypeOK
<1>3. ASSUME StepFails(r), InFlight(r) PROVE Same
  BY <1>1, <1>2, <1>3 DEF StepFails, InFlight, TypeOK
<1>4. CASE Acquire(r) \/ Refuse(r) \/ RevokesNothing(r)
  BY <1>4 DEF Acquire, Refuse, RevokesNothing, AskSecond, InFlight, TypeOK, Waiting
<1>5. CASE Authenticated(r) \/ Touched(r) \/ ReadDone(r)
  BY <1>1, <1>2, <1>5 DEF Authenticated, Touched, ReadDone, InFlight
<1>6. CASE Commit(r) \/ RolledBack(r) \/ TimesOut(r) \/ Pinged(r)
  BY <1>1, <1>6 DEF Commit, RolledBack, TimesOut, Pinged
<1>7. CASE Recorded(r)
  BY <1>2, <1>7 DEF Recorded, InFlight
<1>8. CASE PoolClosed(r)
  BY <1>3, <1>8 DEF PoolClosed, InFlight, Waiting
<1>9. CASE Fault(r)
  BY <1>3, <1>9 DEF Fault, InFlight, Using
<1>10. CASE ClientGoes(r)
  BY <1>10 DEF ClientGoes, InFlight, TypeOK
<1> QED
  BY <1>4, <1>5, <1>6, <1>7, <1>8, <1>9, <1>10 DEF Handler

LEMMA DrainInit == Deadline < Grace /\ Init => DrainInv
BY TypeInit, ServerAssumption DEF Init, DrainInv, Draining

LEMMA DrainStep ==
  ASSUME Deadline < Grace, ReadyTimeout < Grace, DrainInv, [Next]_vars
  PROVE  DrainInv'
<1>1. TypeOK /\ TypeOK'
  BY TypeStep DEF DrainInv
<1>2. CASE \E r \in Requests : Arrive(r) \/ Probe(r)
  <2> PICK r \in Requests, p \in {"auth", "ping"} : Serve(r, p)
    BY <1>2 DEF Arrive, Probe
  <2>1. UNCHANGED <<main, cause, listener, grace, pool, dispatch, age>>
    BY DEF Serve, process
  <2>2. r \in Scim => cause # "signal"
    BY DEF Serve, DrainInv, Draining, Site
  <2>3. \A q \in Scim : q # r => (InFlight(q)' <=> InFlight(q))
    BY <1>1 DEF Serve, InFlight, TypeOK, Requests
  <2> QED
    BY <1>1, <2>1, <2>2, <2>3 DEF DrainInv, Draining
<1>3. CASE \E r \in Requests : Acquire(r) \/ Handler(r) \/ Fault(r) \/ ClientGoes(r)
  <2>1. /\ UNCHANGED process
        /\ \A q \in Requests : /\ age'[q] \in {0, age[q]}
                               /\ InFlight(q)' => InFlight(q) /\ age'[q] = age[q]
    BY <1>1, <1>3, HandlerAges
  <2> QED
    BY <1>1, <2>1, ServerAssumption DEF DrainInv, Draining, process, Requests
<1>4. CASE Claim \/ Claimed \/ RunReturns
  BY <1>1, <1>4 DEF Claim, Claimed, RunReturns, DrainInv, Draining, InFlight
<1>5. CASE \E l \in Listeners : Listen(l) \/ BindFails(l)
  BY <1>1, <1>5 DEF Listen, BindFails, reqs, DrainInv, Draining, InFlight, TypeOK, Listeners
<1>6. CASE Signal
  BY <1>1, <1>6, ServerAssumption DEF Signal, reqs, DrainInv, Draining, InFlight, TypeOK, Listeners, Requests
<1>7. CASE ScimDrained
  <2>1. \A r \in Scim : ~InFlight(r) \/ cause # "signal"
    BY <1>1, <1>7, ServerAssumption DEF ScimDrained, Drained, DrainInv, Draining, TypeOK, Requests
  <2> QED
    BY <1>1, <1>7, <2>1 DEF ScimDrained, reqs, DrainInv, Draining, InFlight, TypeOK, Listeners
<1>8. CASE SelectErr \/ ConsoleDrained \/ StopDispatch \/ WaitReturns
  BY <1>1, <1>8 DEF SelectErr, ConsoleDrained, StopDispatch, WaitReturns, reqs, DrainInv, Draining, InFlight
<1>9. CASE CloseReturns \/ SecondSignal
  <2>1. PICK why : Exit(why) /\ why \in {cause, "kill"}
    BY <1>9 DEF CloseReturns, SecondSignal
  <2>2. \A r \in Requests : ~InFlight(r)' /\ age'[r] = 0
    BY <1>1, <2>1 DEF Exit, InFlight, TypeOK
  <2> QED
    BY <1>1, <2>1, <2>2, ServerAssumption DEF Exit, DrainInv, Draining, Requests
<1>10. CASE Tick
  <2>1. \A r \in Requests : age'[r] < Grace
    BY <1>1, <1>10, ServerAssumption DEF Tick, Limit, DrainInv, TypeOK
  <2>2. \A r \in Scim : InFlight(r)' => InFlight(r) /\ age'[r] = age[r] + 1
    BY <1>10 DEF Tick, InFlight, Requests
  <2>3. grace' <= grace + 1
    BY <1>1, <1>10 DEF Tick, TypeOK
  <2>4. Draining'
    BY <1>1, <1>10, <2>2, <2>3 DEF Tick, DrainInv, Draining, TypeOK, Requests
  <2> QED
    BY <1>1, <1>10, <2>1, <2>4 DEF Tick, DrainInv
<1>11. CASE UNCHANGED vars
  BY <1>1, <1>11 DEF vars, process, reqs, DrainInv, Draining, InFlight
<1> QED
  BY <1>2, <1>3, <1>4, <1>5, <1>6, <1>7, <1>8, <1>9, <1>10, <1>11 DEF Next, Main

\* If the deadlines of requests and probes are shorter than the grace period, the dispatcher has
\* returned when the pool is closed and, after a signal, so has every SCIM
\* handler: for any number of requests, however long their statements take.
THEOREM PoolIsClosedLast ==
  ASSUME Deadline < Grace, ReadyTimeout < Grace
  PROVE  Spec => []DrainedBeforeClose
<1>1. DrainInv => DrainedBeforeClose
  BY DEF DrainInv, Draining, DrainedBeforeClose
<1>2. DrainInv /\ [Next]_vars => DrainInv'
  BY DrainStep
<1> QED
  BY <1>1, <1>2, DrainInit, PTL DEF Spec

-----------------------------------------------------------------------------
(***************************************************************************)
(* Connections. NothingLeaks is inductive with TypeOK: each step gives or  *)
(* takes what the difference between two phases needs.                     *)
(***************************************************************************)

Owners == Requests \cup {Dispatcher}

LeakInv == TypeOK /\ NothingLeaks

LEMMA HeldFinite ==
  ASSUME NEW x
  PROVE  IsFiniteSet(Held(x)) /\ Cardinality(Held(x)) \in Nat
<1>1. Held(x) \in SUBSET Conns
  BY DEF Held
<1> QED
  BY <1>1, ServerAssumption, FS_Subset, FS_CardinalityType

\* A connection that is taken is one more for its owner and none less for others.
LEMMA Acquired ==
  ASSUME TypeOK, NEW x \in Owners, NEW c \in Free, owner' = [owner EXCEPT ![c] = x]
  PROVE  /\ Cardinality(Held(x)') = Cardinality(Held(x)) + 1
         /\ \A y \in Owners \ {x} : Held(y)' = Held(y)
<1>1. x # None /\ None \notin Owners
  BY ServerAssumption DEF Owners
<1>2. c \in Conns /\ owner[c] = None
  BY DEF Free, Held
<1>3. Held(x)' = Held(x) \cup {c} /\ c \notin Held(x)
  BY <1>1, <1>2 DEF Held, TypeOK
<1>4. \A y \in Owners \ {x} : Held(y)' = Held(y)
  BY <1>1, <1>2 DEF Held, TypeOK
<1> QED
  BY <1>3, <1>4, HeldFinite, FS_AddElement

\* What is given back is taken from its owner alone.
LEMMA Released ==
  ASSUME TypeOK, NEW x \in Owners, NEW C \in SUBSET Held(x), Release(C)
  PROVE  /\ Held(x)' = Held(x) \ C
         /\ \A y \in Owners \ {x} : Held(y)' = Held(y)
<1>1. None \notin Owners
  BY ServerAssumption DEF Owners
<1> QED
  BY <1>1 DEF Release, Held, TypeOK

LEMMA ReleasedAll ==
  ASSUME TypeOK, NEW x \in Owners, Release(Held(x))
  PROVE  /\ Cardinality(Held(x)') = 0
         /\ \A y \in Owners \ {x} : Held(y)' = Held(y)
BY Released, FS_EmptySet

LEMMA ReleasedOne ==
  ASSUME TypeOK, NEW x \in Owners, NEW c \in Held(x), Release({c})
  PROVE  /\ Cardinality(Held(x)') = Cardinality(Held(x)) - 1
         /\ \A y \in Owners \ {x} : Held(y)' = Held(y)
<1>1. Held(x)' = Held(x) \ {c} /\ \A y \in Owners \ {x} : Held(y)' = Held(y)
  BY Released
<1> QED
  BY <1>1, HeldFinite, FS_RemoveElement

\* Every step of a handler leaves it with what its next phase needs, and all
\* others with what they have.
LEMMA HandlerConns ==
  ASSUME LeakInv, NEW r \in Requests, Acquire(r) \/ Handler(r) \/ Fault(r) \/ ClientGoes(r)
  PROVE  /\ Cardinality(Held(r)') = Needs(phase'[r])
         /\ \A y \in Owners \ {r} : Held(y)' = Held(y)
         /\ \A q \in Requests \ {r} : phase'[q] = phase[q]
<1> DEFINE Fits == /\ Cardinality(Held(r)') = Needs(phase'[r])
                   /\ \A y \in Owners \ {r} : Held(y)' = Held(y)
                   /\ \A q \in Requests \ {r} : phase'[q] = phase[q]
<1>0. /\ TypeOK /\ r \in Owners /\ phase \in [Requests -> Phases]
      /\ Cardinality(Held(r)) = Needs(phase[r])
  BY DEF LeakInv, NothingLeaks, Owners, TypeOK
<1>1. ASSUME NEW a, Finish(r, a) PROVE Fits
  BY <1>0, <1>1, ReleasedAll DEF Finish, Needs, Using
<1>2. ASSUME NEW p \in Waiting \ {"second"}, GoOn(r, Held(r), p) PROVE Fits
  BY <1>0, <1>2, ReleasedAll DEF GoOn, Needs, Using, Waiting
<1>3. ASSUME NEW c \in Held(r), Release({c}), phase[r] = "recording",
             phase' = [phase EXCEPT ![r] = "rollback"]
      PROVE  Fits
  BY <1>0, <1>3, ReleasedOne DEF Needs, Using
<1>4. ASSUME StepFails(r) PROVE Fits
  <2>1. CASE phase[r] = "second" /\ Release({}) /\ phase' = [phase EXCEPT ![r] = "rollback"]
    <3>1. Held(r)' = Held(r) /\ \A y \in Owners \ {r} : Held(y)' = Held(y)
      BY <1>0, <2>1, Released
    <3> QED
      BY <1>0, <2>1, <3>1 DEF Needs, Using
  <2> QED
    BY <1>1, <1>2, <1>3, <1>4, <2>1 DEF StepFails, Waiting
<1>5. CASE Acquire(r)
  <2>1. PICK c \in Free : owner' = [owner EXCEPT ![c] = r]
    BY <1>5 DEF Acquire
  <2>2. Needs(Granted[phase[r]]) = Needs(phase[r]) + 1
    BY <1>5 DEF Acquire, Needs, Granted, Waiting, Using
  <2> QED
    BY <1>0, <1>5, <2>1, <2>2, Acquired DEF Acquire
<1>6. CASE Authenticated(r) \/ Touched(r) \/ ReadDone(r)
  BY <1>1, <1>2, <1>6 DEF Authenticated, Touched, ReadDone, Waiting
<1>7. CASE Commit(r) \/ RolledBack(r) \/ TimesOut(r) \/ Pinged(r)
  BY <1>1, <1>7 DEF Commit, RolledBack, TimesOut, Pinged
<1>8. CASE Refuse(r) \/ RevokesNothing(r)
  BY <1>0, <1>8 DEF Refuse, RevokesNothing, AskSecond, Held, Needs, Using
<1>9. CASE Recorded(r)
  BY <1>3, <1>9 DEF Recorded, GoOn
<1>10. CASE PoolClosed(r) \/ Fault(r)
  BY <1>4, <1>10 DEF PoolClosed, Fault
<1>11. CASE ClientGoes(r)
  BY <1>0, <1>11, ReleasedAll DEF ClientGoes, Needs, Using
<1> QED
  BY <1>5, <1>6, <1>7, <1>8, <1>9, <1>10, <1>11 DEF Handler

LEMMA LeakInit == Init => LeakInv
<1> SUFFICES ASSUME Init PROVE NothingLeaks
  BY TypeInit DEF LeakInv
<1>1. \A x \in Owners : Held(x) = {}
  BY ServerAssumption DEF Init, Held, Owners
<1> QED
  BY <1>1, FS_EmptySet DEF Init, NothingLeaks, Owners, Needs, Using

LEMMA LeakStep ==
  ASSUME LeakInv, [Next]_vars
  PROVE  LeakInv'
<1>1. TypeOK /\ TypeOK'
  BY TypeStep DEF LeakInv
<1>2. Dispatcher \notin Requests /\ None \notin Requests /\ Dispatcher # None
  BY ServerAssumption
<1>3. CASE \E r \in Requests : Arrive(r) \/ Probe(r)
  <2>1. PICK r \in Requests, p \in {"auth", "ping"} : Serve(r, p)
    BY <1>3 DEF Arrive, Probe
  <2>2. /\ phase[r] = "new" /\ owner' = owner /\ dispatch' = dispatch
        /\ phase' = [phase EXCEPT ![r] = p]
    BY <2>1 DEF Serve, process
  <2>3. Needs(p) = 0 /\ Needs("new") = 0
    BY DEF Needs, Using
  <2>4. \A x : Held(x)' = Held(x)
    BY <2>2 DEF Held
  <2>5. \A q \in Requests : Needs(phase'[q]) = Needs(phase[q])
    BY <1>1, <2>2, <2>3 DEF TypeOK
  <2> QED
    BY <1>1, <2>2, <2>4, <2>5 DEF LeakInv, NothingLeaks
<1>4. CASE \E r \in Requests : Acquire(r) \/ Handler(r) \/ Fault(r) \/ ClientGoes(r)
  <2> PICK r \in Requests : Acquire(r) \/ Handler(r) \/ Fault(r) \/ ClientGoes(r)
    BY <1>4
  <2>1. /\ Cardinality(Held(r)') = Needs(phase'[r])
        /\ \A y \in Owners \ {r} : Held(y)' = Held(y)
        /\ \A q \in Requests \ {r} : phase'[q] = phase[q]
    BY HandlerConns
  <2>2. dispatch' = dispatch
    BY <1>1, HandlerAges DEF process
  <2> QED
    BY <1>1, <1>2, <2>1, <2>2 DEF LeakInv, NothingLeaks, Owners
<1>5. CASE Claim
  <2>1. PICK c \in Free : owner' = [owner EXCEPT ![c] = Dispatcher]
    BY <1>5 DEF Claim
  <2>2. /\ Cardinality(Held(Dispatcher)') = Cardinality(Held(Dispatcher)) + 1
        /\ \A y \in Requests : Held(y)' = Held(y)
    BY <1>1, <1>2, <2>1, Acquired DEF Owners
  <2> QED
    BY <1>1, <1>5, <2>2 DEF Claim, LeakInv, NothingLeaks
<1>6. CASE Claimed \/ RunReturns
  <2>1. /\ Cardinality(Held(Dispatcher)') = 0
        /\ \A y \in Requests : Held(y)' = Held(y)
    BY <1>1, <1>2, <1>6, ReleasedAll DEF Owners, Claimed, RunReturns
  <2> QED
    BY <1>1, <1>6, <2>1 DEF Claimed, RunReturns, LeakInv, NothingLeaks
<1>7. CASE CloseReturns \/ SecondSignal
  <2>1. PICK why : Exit(why)
    BY <1>7 DEF CloseReturns, SecondSignal
  <2>2. \A x \in Owners : Held(x)' = {}
    BY <1>2, <2>1 DEF Exit, Held, Owners
  <2>3. \A r \in Requests : Needs(phase'[r]) = 0
    BY <1>1, <2>1 DEF Exit, InFlight, TypeOK, Needs, Using
  <2> QED
    BY <1>1, <2>1, <2>2, <2>3, FS_EmptySet DEF Exit, LeakInv, NothingLeaks, Owners
<1>8. CASE UNCHANGED <<owner, phase, dispatch>>
  BY <1>1, <1>8 DEF LeakInv, NothingLeaks, Held
<1> QED
  BY <1>3, <1>4, <1>5, <1>6, <1>7, <1>8
  DEF Next, Main, vars, process, reqs, Listen, BindFails, Signal, SelectErr, ScimDrained, ConsoleDrained,
      StopDispatch, WaitReturns, Tick

\* However many requests compete for however many connections, every one has
\* exactly what its next step needs, on every path through its handler.
THEOREM ConnectionsNeverLeak == Spec => []NothingLeaks
<1>1. LeakInv /\ [Next]_vars => LeakInv'
  BY LeakStep
<1> QED
  BY <1>1, LeakInit, PTL DEF Spec, LeakInv
=============================================================================
