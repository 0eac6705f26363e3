------------------------------- MODULE Server -------------------------------
(***************************************************************************)
(* The server process: run() of cmd/server/main.go with its two listeners, *)
(* the pool of internal/store/store.go, the requests that take connections *)
(* from it, the webhook dispatcher beside them, and the shutdown.          *)
(*                                                                         *)
(* A request is followed from connection to connection: the token lookup,  *)
(* TouchToken, a plain read, the transaction of a mutation, and the second *)
(* connection that a mutation takes while its transaction is still open -  *)
(* auditRefusal for a refused SCIM mutation, the lookup after a revocation *)
(* that changed no row for the console. A readiness probe takes one for    *)
(* its ping. What the statements do is in the other modules.               *)
(***************************************************************************)
EXTENDS Integers, FiniteSets

CONSTANTS
  Scim,       \* requests to the SCIM listener
  Console,    \* requests to the console listener
  Conns,      \* the slots of the pool, DATABASE_MAX_CONNS
  Dispatcher, \* the dispatcher as an owner of connections
  None,       \* nobody
  Deadline,   \* SCIM_REQUEST_TIMEOUT, in ticks
  ReadyTimeout, \* readyTimeout, in ticks
  Grace,      \* shutdownGrace, in ticks
  Prompt,     \* TRUE: time passes only while nobody can go on
  MaxFaults   \* bound: failed statements and failed binds in a behaviour

Requests  == Scim \cup Console
Listeners == {"scim", "console"}

ASSUME ServerAssumption ==
  /\ Scim \cap Console = {}
  /\ None \notin Requests \cup {Dispatcher} /\ Dispatcher \notin Requests
  /\ IsFiniteSet(Conns) /\ Conns # {}
  /\ Deadline \in Nat \ {0} /\ ReadyTimeout \in Nat \ {0} /\ Grace \in Nat /\ MaxFaults \in Nat
  /\ Prompt \in BOOLEAN

VARIABLES
  main,      \* where run() is
  cause,     \* why it left its select
  listener,  \* the two http.Servers
  grace,     \* time since shutdownCtx was made
  pool,      \* FALSE once s.Close() has been called
  dispatch,  \* the dispatcher's goroutine
  owner,     \* who has a connection
  phase,     \* where a request is
  age,       \* time since withTimeout, or the probe, made its context
  answer,    \* the answer a handler has decided on
  audited,   \* refusals that auditRefusal has recorded
  faults

process == <<main, cause, listener, grace, pool, dispatch>>
reqs    == <<owner, phase, age, answer, audited>>
vars    == <<process, reqs, faults>>

\* A request waits for a connection in one of these phases ...
Waiting == {"auth", "touch", "read", "begin", "second", "ping"}
\* ... and in the phase it goes to, it has it.
Granted == [auth |-> "authing", touch |-> "touching", read |-> "reading",
            begin |-> "tx", second |-> "recording", ping |-> "pinging"]
Using   == {"authing", "touching", "reading", "tx", "recording", "rollback", "pinging"}
Phases  == {"new", "done", "lost"} \cup Waiting \cup Using
Stages  == {"select", "drain_scim", "drain_console", "stop", "waiting", "closing", "exited"}

\* What the process, the pool and the requests hold; only SCIM requests have
\* refusals that are recorded.
TypeOK ==
  /\ main \in Stages /\ cause \in {"none", "signal", "bind", "kill"}
  /\ listener \in [Listeners -> {"starting", "up", "closed", "failed"}]
  /\ grace \in Nat /\ pool \in BOOLEAN /\ dispatch \in {"idle", "using", "stopped"}
  /\ owner \in [Conns -> Requests \cup {Dispatcher, None}]
  /\ phase \in [Requests -> Phases]
  /\ age \in [Requests -> Nat]
  /\ answer \in [Requests -> {"none", "ok", "denied", "refused", "error"}]
  /\ audited \in SUBSET Scim /\ faults \in Nat

Held(r)     == {c \in Conns : owner[c] = r}
Free        == Held(None)
InFlight(r) == phase[r] \notin {"new", "done", "lost"}
Site(r)     == IF r \in Scim THEN "scim" ELSE "console"

\* How long the context of a request lives.
Limit(r) == IF phase[r] \in {"ping", "pinging"} THEN ReadyTimeout ELSE Deadline

Init ==
  /\ main = "select" /\ cause = "none" /\ grace = 0 /\ pool = TRUE /\ dispatch = "idle"
  /\ listener = [l \in Listeners |-> "starting"]
  /\ owner = [c \in Conns |-> None]
  /\ phase = [r \in Requests |-> "new"]
  /\ age = [r \in Requests |-> 0]
  /\ answer = [r \in Requests |-> "none"]
  /\ audited = {} /\ faults = 0

-----------------------------------------------------------------------------
(* Requests and the connections they take. *)

Release(C) == owner' = [c \in Conns |-> IF c \in C THEN None ELSE owner[c]]

\* The handler returns: its deferred Rollback gives back what it still has.
Finish(r, a) ==
  /\ Release(Held(r))
  /\ phase' = [phase EXCEPT ![r] = "done"]
  /\ answer' = [answer EXCEPT ![r] = a]
  /\ age' = [age EXCEPT ![r] = 0]

\* The handler gives back C and goes on to phase p.
GoOn(r, C, p) ==
  /\ Release(C)
  /\ phase' = [phase EXCEPT ![r] = p]
  /\ UNCHANGED <<age, answer>>

\* A listener hands a request to the handler that begins in phase p.
Serve(r, p) ==
  /\ phase[r] = "new" /\ main # "exited" /\ listener[Site(r)] = "up"
  /\ phase' = [phase EXCEPT ![r] = p]
  /\ UNCHANGED <<process, owner, age, answer, audited, faults>>

Arrive(r) == Serve(r, "auth")

\* GET /readyz on the SCIM listener, past authentication and deadline.
Probe(r) == r \in Scim /\ Serve(r, "ping")

\* pool.Acquire: a slot is there at once or after a wait.
Acquire(r) ==
  /\ phase[r] \in Waiting /\ pool
  /\ \E c \in Free : owner' = [owner EXCEPT ![c] = r]
  /\ phase' = [phase EXCEPT ![r] = Granted[phase[r]]]
  /\ UNCHANGED <<process, age, answer, audited, faults>>

\* requireToken and requireConsoleToken: the credential is good, or it is a 401.
Authenticated(r) ==
  /\ phase[r] = "authing"
  /\ GoOn(r, Held(r), "touch") \/ Finish(r, "denied")
  /\ UNCHANGED <<process, audited, faults>>

\* TouchToken has run; throttle or checkCSRF may refuse, and the handler begins.
Touched(r) ==
  /\ phase[r] = "touching"
  /\ (\E p \in {"read", "begin"} : GoOn(r, Held(r), p)) \/ Finish(r, "denied")
  /\ UNCHANGED <<process, audited, faults>>

\* ReadinessHandler: the ping came back.
Pinged(r) ==
  /\ phase[r] = "pinging"
  /\ Finish(r, "ok")
  /\ UNCHANGED <<process, audited, faults>>

\* A read answers a GET or a missing resource, or is followed by the next one (a
\* PATCH reads the row and the registry, a list its rows and their members), or
\* by the write.
ReadDone(r) ==
  /\ phase[r] = "reading"
  /\ (\E p \in {"read", "begin"} : GoOn(r, Held(r), p)) \/ Finish(r, "ok")
  /\ UNCHANGED <<process, audited, faults>>

\* The transaction commits.
Commit(r) ==
  /\ phase[r] = "tx"
  /\ Finish(r, "ok")
  /\ UNCHANGED <<process, audited, faults>>

\* The transaction stays open while the next statement asks the pool for a
\* connection; the answer is decided.
AskSecond(r, a) ==
  /\ phase[r] = "tx"
  /\ phase' = [phase EXCEPT ![r] = "second"]
  /\ answer' = [answer EXCEPT ![r] = a]
  /\ UNCHANGED <<process, owner, age, audited, faults>>

\* A SCIM mutation is refused: auditRefusal is next.
Refuse(r) == r \in Scim /\ AskSecond(r, "refused")

\* A revocation of the console changes no row: the lookup is next.
RevokesNothing(r) == r \in Console /\ AskSecond(r, "ok")

\* The statement on the second connection has run; Rollback is next.
Recorded(r) ==
  /\ phase[r] = "recording"
  /\ \E c \in Held(r) : GoOn(r, {c}, "rollback")
  /\ audited' = audited \cup ({r} \cap Scim)
  /\ UNCHANGED <<process, faults>>

RolledBack(r) ==
  /\ phase[r] = "rollback"
  /\ Finish(r, answer[r])
  /\ UNCHANGED <<process, audited, faults>>

\* Mutant: a failed statement leaves its connection with the handler.
FailAndKeep(r) ==
  \/ phase[r] \in {"auth", "authing"} /\ Finish(r, "denied")
  \/ phase[r] \in {"touch", "touching"} /\ \E p \in {"read", "begin"} : GoOn(r, {}, p)
  \/ phase[r] \in {"read", "reading", "begin", "tx", "ping", "pinging"} /\ Finish(r, "error")
  \/ /\ phase[r] \in {"second", "recording"}
     /\ \E c \in Held(r) :
          /\ Release(IF phase[r] = "recording" THEN {c} ELSE {})
          /\ phase' = [phase EXCEPT ![r] = "rollback"]
          /\ answer' = [answer EXCEPT ![r] = IF r \in Scim THEN @ ELSE "error"]
          /\ UNCHANGED age

\* What a handler does about an error: a failed lookup is a 401, a failed touch
\* is only logged, a failed read or transaction is a 500; auditRefusal swallows
\* its own, the console's lookup does not.
StepFails(r) ==
  \/ phase[r] \in {"auth", "authing"} /\ Finish(r, "denied")
  \/ phase[r] \in {"touch", "touching"} /\ \E p \in {"read", "begin"} : GoOn(r, Held(r), p)
  \/ phase[r] \in {"read", "reading", "begin", "tx", "ping", "pinging"} /\ Finish(r, "error")
  \/ /\ phase[r] \in {"second", "recording"}
     /\ \E c \in Held(r) :
          /\ Release(IF phase[r] = "recording" THEN {c} ELSE {})
          /\ phase' = [phase EXCEPT ![r] = "rollback"]
          /\ answer' = [answer EXCEPT ![r] = IF r \in Scim THEN @ ELSE "error"]
          /\ UNCHANGED age

\* A statement fails.
Fault(r) ==
  /\ faults < MaxFaults /\ phase[r] \in Using \ {"rollback"}
  /\ StepFails(r)
  /\ faults' = faults + 1
  /\ UNCHANGED <<process, audited>>

\* pool.Acquire on a closed pool: it looks only once it has a slot.
PoolClosed(r) ==
  /\ phase[r] \in Waiting /\ ~pool /\ Free # {}
  /\ StepFails(r)
  /\ UNCHANGED <<process, audited, faults>>

\* The answer of a handler whose context has ended: every later call fails at
\* once, so it runs to its end without a wait.
AnswerAtEnd(r) ==
  CASE phase[r] \in {"auth", "authing"} -> "denied"
    [] phase[r] = "rollback" -> answer[r]
    [] phase[r] \in {"second", "recording"} /\ r \in Scim -> "refused"
    [] OTHER -> "error"

\* Mutant: there is no deadline.
NoTimeout(r) == FALSE /\ UNCHANGED vars

\* withTimeout: the context of a SCIM request or of a probe ends. Console requests
\* have no deadline.
TimesOut(r) ==
  /\ r \in Scim /\ InFlight(r) /\ age[r] = Limit(r)
  /\ Finish(r, AnswerAtEnd(r))
  /\ UNCHANGED <<process, audited, faults>>

\* The client closes its connection, which ends the request's context; nobody
\* reads the answer.
ClientGoes(r) ==
  /\ InFlight(r)
  /\ Release(Held(r))
  /\ phase' = [phase EXCEPT ![r] = "lost"]
  /\ age' = [age EXCEPT ![r] = 0]
  /\ answer' = [answer EXCEPT ![r] = "none"]
  /\ UNCHANGED <<process, audited, faults>>

-----------------------------------------------------------------------------
(* The dispatcher: one statement at a time, and no deadline. *)

Claim ==
  /\ dispatch = "idle" /\ pool
  /\ \E c \in Free : owner' = [owner EXCEPT ![c] = Dispatcher]
  /\ dispatch' = "using"
  /\ UNCHANGED <<main, cause, listener, grace, pool, phase, age, answer, audited, faults>>

Claimed ==
  /\ dispatch = "using"
  /\ Release(Held(Dispatcher))
  /\ dispatch' = "idle"
  /\ UNCHANGED <<main, cause, listener, grace, pool, phase, age, answer, audited, faults>>

\* Mutant: the dispatcher runs under a context that nothing ends.
RunsOn == FALSE /\ UNCHANGED vars

\* Run returns once dispatchCtx is cancelled, whatever it was waiting for.
RunReturns ==
  /\ main \in {"waiting", "closing"} /\ dispatch # "stopped"
  /\ Release(Held(Dispatcher))
  /\ dispatch' = "stopped"
  /\ UNCHANGED <<main, cause, listener, grace, pool, phase, age, answer, audited, faults>>

-----------------------------------------------------------------------------
(* run(): start, shutdown and exit. *)

Listen(l) ==
  /\ main # "exited" /\ listener[l] = "starting"
  /\ listener' = [listener EXCEPT ![l] = "up"]
  /\ UNCHANGED <<main, cause, grace, pool, dispatch, reqs, faults>>

\* ListenAndServe returns at once: the port is taken.
BindFails(l) ==
  /\ main # "exited" /\ listener[l] = "starting" /\ faults < MaxFaults
  /\ listener' = [listener EXCEPT ![l] = "failed"]
  /\ faults' = faults + 1
  /\ UNCHANGED <<main, cause, grace, pool, dispatch, reqs>>

\* case serveErr = <-errs: straight to the end, without Shutdown.
SelectErr ==
  /\ main = "select" /\ \E l \in Listeners : listener[l] = "failed"
  /\ main' = "stop" /\ cause' = "bind"
  /\ UNCHANGED <<listener, grace, pool, dispatch, reqs, faults>>

\* case <-ctx.Done(): the grace period begins and the first Shutdown closes its
\* listener.
Signal ==
  /\ main = "select"
  /\ main' = "drain_scim" /\ cause' = "signal" /\ grace' = 0
  /\ listener' = [listener EXCEPT !["scim"] = "closed"]
  /\ UNCHANGED <<pool, dispatch, reqs, faults>>

\* Mutant: Shutdown closes the listener and does not wait.
DrainedAtOnce(S) == TRUE

\* Shutdown returns when no request of its server is left or the grace period,
\* which the two share, is over.
Drained(S) == grace >= Grace \/ \A r \in S : ~InFlight(r)

ScimDrained ==
  /\ main = "drain_scim" /\ Drained(Scim)
  /\ main' = "drain_console"
  /\ listener' = [listener EXCEPT !["console"] = "closed"]
  /\ UNCHANGED <<cause, grace, pool, dispatch, reqs, faults>>

ConsoleDrained ==
  /\ main = "drain_console" /\ Drained(Console)
  /\ main' = "stop"
  /\ UNCHANGED <<cause, listener, grace, pool, dispatch, reqs, faults>>

StopDispatch ==
  /\ main = "stop"
  /\ main' = "waiting"
  /\ UNCHANGED <<cause, listener, grace, pool, dispatch, reqs, faults>>

\* wg.Wait() returns; the deferred s.Close() is called.
WaitReturns ==
  /\ main = "waiting" /\ dispatch = "stopped"
  /\ main' = "closing" /\ pool' = FALSE
  /\ UNCHANGED <<cause, listener, grace, dispatch, reqs, faults>>

\* The process is gone, and with it whatever was still running.
Exit(why) ==
  /\ main' = "exited" /\ cause' = why /\ pool' = FALSE /\ dispatch' = "stopped"
  /\ owner' = [c \in Conns |-> None]
  /\ phase' = [r \in Requests |-> IF InFlight(r) THEN "lost" ELSE phase[r]]
  /\ age' = [r \in Requests |-> 0]
  /\ answer' = [r \in Requests |-> IF InFlight(r) THEN "none" ELSE answer[r]]
  /\ UNCHANGED <<listener, grace, audited, faults>>

\* pool.Close() returns when every connection has come back, and run() with it.
CloseReturns ==
  /\ main = "closing" /\ \A c \in Conns : owner[c] = None
  /\ Exit(cause)

\* stop() has restored the default: a second signal kills the process.
SecondSignal ==
  /\ main \in Stages \ {"select", "exited"} /\ cause = "signal"
  /\ Exit("kill")

-----------------------------------------------------------------------------

\* The request has something to do that does not take long.
CanMove(r) == phase[r] \in Using \/ (phase[r] \in Waiting /\ Free # {})

\* Time passes. A context ends when its deadline comes, not later.
Tick ==
  /\ main # "exited"
  /\ \A r \in Scim : InFlight(r) => age[r] < Limit(r)
  /\ Prompt => dispatch # "using" /\ \A r \in Requests : ~CanMove(r)
  /\ age' = [r \in Requests |-> IF r \in Scim /\ InFlight(r) THEN age[r] + 1 ELSE age[r]]
  /\ grace' = IF main \in {"drain_scim", "drain_console"} /\ grace < Grace
                THEN grace + 1 ELSE grace
  /\ UNCHANGED <<main, cause, listener, pool, dispatch, owner, phase, answer, audited, faults>>

Handler(r) ==
  \/ Pinged(r) \/ Authenticated(r) \/ Touched(r) \/ ReadDone(r)
  \/ Commit(r) \/ Refuse(r) \/ RevokesNothing(r) \/ Recorded(r)
  \/ RolledBack(r) \/ PoolClosed(r) \/ TimesOut(r)

Main == SelectErr \/ ScimDrained \/ ConsoleDrained \/ StopDispatch \/ WaitReturns \/ CloseReturns

Next ==
  \/ \E r \in Requests : \/ Arrive(r) \/ Probe(r) \/ Acquire(r) \/ Handler(r)
                        \/ Fault(r) \/ ClientGoes(r)
  \/ Claim \/ Claimed \/ RunReturns
  \/ \E l \in Listeners : Listen(l) \/ BindFails(l)
  \/ Signal \/ SecondSignal \/ Main
  \/ Tick

Spec == Init /\ [][Next]_vars

\* Clocks advance, a context whose deadline has come ends, Run and run() take
\* their next step, and nobody waits for a console page for ever. No statement
\* need end, the pool need serve nobody, and no request or signal need come.
FairSpec ==
  /\ Spec
  /\ WF_vars(\E r \in Scim : TimesOut(r)) /\ WF_vars(\E r \in Console : ClientGoes(r))
  /\ WF_vars(RunReturns \/ Main) /\ WF_vars(Tick)
-----------------------------------------------------------------------------
(* Properties. *)

\* The connections a request must have in a phase.
Needs(p) == IF p = "recording" THEN 2 ELSE IF p \in Using \cup {"second"} THEN 1 ELSE 0

\* On every path through a handler - answers, refusals, failed statements, a
\* closed pool, deadlines, clients that go away - the connections it has are the
\* ones its next step needs, and a request that has ended has none. In
\* particular one that waits for its second connection (audit.go:109,
\* token.go:172) has exactly one.
NothingLeaks ==
  /\ \A r \in Requests : Cardinality(Held(r)) = Needs(phase[r])
  /\ Cardinality(Held(Dispatcher)) = IF dispatch = "using" THEN 1 ELSE 0

\* Who uses the pool is gone when it is closed. The dispatcher "can't ... query
\* a closed pool on the way out" (main.go:190), on both exits; and after a signal
\* no SCIM request is still running, although both Shutdowns share one grace
\* period and console requests may use it up: the deadline of a request is the
\* shorter one.
DrainedBeforeClose ==
  ~pool => /\ dispatch = "stopped"
           /\ cause = "signal" => \A r \in Scim : ~InFlight(r)

\* Refused mutations that wait for each other's connections do get an answer:
\* whatever the pool does, a SCIM request and a probe end, so that again and again
\* none is left. (A request of the model is served once: this says the same as
\* InFlight(r) ~> ~InFlight(r) for each, in one formula.)
EventuallyAnswered == []<>(\A r \in Scim : ~InFlight(r))

\* A signal or a failed listener ends the process.
EventuallyExits == main # "select" ~> main = "exited"

\* "Refusals are recorded too" (docs/ARCHITECTURE.md:154): a mutation that was
\* answered with a refusal is in the audit log.
RefusalsRecorded ==
  \A r \in Scim : phase[r] = "done" /\ answer[r] = "refused" => r \in audited
=============================================================================
