----------------------------- MODULE UserStore ------------------------------
(***************************************************************************)
(* The SCIM user mutations of one tenant: the handlers of                  *)
(* internal/scim/handler.go (create, replace, patch, deactivate) and the   *)
(* transactions of internal/store/user.go behind them, with the audit      *)
(* entry and the outbox event each one commits.                            *)
(*                                                                         *)
(* Requests run concurrently. Postgres is used at READ COMMITTED: a        *)
(* statement reads the rows committed when it starts, an UPDATE that finds *)
(* its row locked waits and then works on the newest committed version,    *)
(* and a unique index makes a writer wait for another transaction that     *)
(* holds the same key. now() is the start of the transaction. The audit    *)
(* entry and the event are private to the transaction until it commits, so *)
(* their statements are part of the commit step.                           *)
(***************************************************************************)
EXTENDS Integers, Sequences, FiniteSets

CONSTANTS
  Requests,   \* HTTP requests, each handled once
  UserIds,    \* ids the table may ever hold
  JunkId,     \* a path id that is not a uuid
  Names,      \* userNames, up to case
  Seeds,      \* rows already there: a sequence of [id, name, active] records
  Absent,     \* no row, no image
  None,       \* nobody
  MaxFaults   \* bound: failed or timed-out statements in a behaviour

\* A users row, with the columns the properties tell apart: userName, active
\* and updated_at. An image in an audit entry or an event is a row.
Row == [name : Names, active : BOOLEAN, at : Nat]

ASSUME SeedsAssumption ==
  /\ Absent \notin Row
  /\ Seeds \in Seq([id : UserIds, name : Names, active : BOOLEAN])
  /\ \A m, n \in DOMAIN Seeds : m # n => Seeds[m].id # Seeds[n].id

\* What a request asks for: a full resource, the attributes a patch names, or
\* no body at all.
Job ==
  [op : {"create"}, id : UserIds, name : Names, active : BOOLEAN]
    \cup [op : {"replace"}, id : UserIds \cup {JunkId}, name : Names, active : BOOLEAN]
    \cup [op : {"patch_active"}, id : UserIds \cup {JunkId}, active : BOOLEAN]
    \cup [op : {"patch_name"}, id : UserIds \cup {JunkId}, name : Names]
    \cup [op : {"deactivate"}, id : UserIds \cup {JunkId}]

ASSUME SetsAssumption ==
  /\ JunkId \notin UserIds /\ Absent \notin UserIds /\ None \notin Requests /\ None \notin Job
  /\ MaxFaults \in Nat

VARIABLES
  users,    \* the users table: a row or Absent
  audit,    \* audit_log, in commit order
  events,   \* webhook_deliveries of user events, in commit order
  clock,    \* the database clock; each transaction starts at its own time
  holder,   \* the transaction holding a row's lock
  phase, job,
  image,    \* what patch read before it folded its operations
  started,  \* the transaction's now()
  before,   \* the before-image of the CTE b
  answer,   \* the HTTP answer
  read,     \* history: how much of the trail was there when patch read the row,
  began,    \* ... and when the transaction began
  faults

db   == <<users, audit, events, clock, holder>>
hist == <<read, began>>
reqs == <<phase, job, image, started, before, answer, hist>>
vars == <<db, reqs, faults>>

Phases  == {"new", "reading", "ready", "begun", "waiting", "locked", "written", "done"}
Answers == {"none", "ok", "bad_request", "not_found", "conflict", "error"}
Types   == {"user.created", "user.replaced", "user.deactivated"}

\* at is audit_log.at; began is history, how much of the trail was there when
\* the transaction that wrote the entry began.
Entry == [req : Requests \cup {None}, action : {"create", "replace", "deactivate"},
          result : {"success", "denied"}, id : UserIds \cup {Absent},
          before : Row \cup {Absent}, after : Row \cup {Absent}, at : Nat, began : Nat]
Event == [req : Requests \cup {None}, type : Types, id : UserIds,
          before : Row \cup {Absent}, after : Row]

\* The columns hold what the schema and the handlers put there: an audit entry
\* has one of the three user actions and a real id, or none.
TypeOK ==
  /\ users \in [UserIds -> Row \cup {Absent}]
  /\ audit \in Seq(Entry) /\ events \in Seq(Event)
  /\ clock \in Nat /\ faults \in Nat
  /\ holder \in [UserIds -> Requests \cup {None}]
  /\ phase \in [Requests -> Phases] /\ job \in [Requests -> Job \cup {None}]
  /\ image \in [Requests -> Row \cup {Absent}]
  /\ started \in [Requests -> Nat]
  /\ before \in [Requests -> Row \cup {Absent}]
  /\ answer \in [Requests -> Answers]
  /\ read \in [Requests -> Nat] /\ began \in [Requests -> Nat]

Seed(n) == [name |-> Seeds[n].name, active |-> Seeds[n].active, at |-> 0]

\* The tables as the creates of the seeds left them.
Init ==
  /\ users = [u \in UserIds |->
                IF \E n \in DOMAIN Seeds : Seeds[n].id = u
                  THEN Seed(CHOOSE n \in DOMAIN Seeds : Seeds[n].id = u) ELSE Absent]
  /\ audit = [n \in DOMAIN Seeds |->
                [req |-> None, action |-> "create", result |-> "success",
                 id |-> Seeds[n].id, before |-> Absent, after |-> Seed(n),
                 at |-> 0, began |-> 0]]
  /\ events = [n \in DOMAIN Seeds |->
                [req |-> None, type |-> "user.created", id |-> Seeds[n].id,
                 before |-> Absent, after |-> Seed(n)]]
  /\ clock = 0 /\ faults = 0
  /\ holder = [u \in UserIds |-> None]
  /\ phase = [r \in Requests |-> "new"]
  /\ job = [r \in Requests |-> None]
  /\ image = [r \in Requests |-> Absent]
  /\ started = [r \in Requests |-> 0]
  /\ before = [r \in Requests |-> Absent]
  /\ answer = [r \in Requests |-> "none"]
  /\ read = [r \in Requests |-> 0] /\ began = [r \in Requests |-> 0]

-----------------------------------------------------------------------------
(* The handlers, up to the call into the store. *)

Id(r)     == job[r].id
Op(r)     == job[r].op
Exists(u) == u \in UserIds /\ users[u] # Absent
Active(r) == phase[r] \notin {"new", "done"}

\* The handler answers and its locals are gone.
Reply(r, a) ==
  /\ phase' = [phase EXCEPT ![r] = "done"]
  /\ answer' = [answer EXCEPT ![r] = a]
  /\ job' = [job EXCEPT ![r] = None]
  /\ image' = [image EXCEPT ![r] = Absent]
  /\ started' = [started EXCEPT ![r] = 0]
  /\ before' = [before EXCEPT ![r] = Absent]
  /\ read' = [read EXCEPT ![r] = 0] /\ began' = [began EXCEPT ![r] = 0]

\* A well-formed request reaches its handler. The database gives a create an
\* id nobody has, gen_random_uuid().
Arrive(r) ==
  /\ phase[r] = "new"
  /\ \E j \in Job :
       /\ j.op = "create" => /\ users[j.id] = Absent
                             /\ \A q \in Requests : Active(q) => Id(q) # j.id
       /\ job' = [job EXCEPT ![r] = j]
       /\ phase' = [phase EXCEPT ![r] =
                      IF j.op \in {"patch_active", "patch_name"} THEN "reading" ELSE "ready"]
  /\ UNCHANGED <<db, image, started, before, answer, hist, faults>>

\* decodeUser, validate and applyPatch refuse before anything is stored.
BadRequest(r) ==
  /\ phase[r] = "new" \/ (phase[r] = "ready" /\ image[r] # Absent)
  /\ Reply(r, "bad_request")
  /\ UNCHANGED <<db, faults>>

\* patch reads the row with GetUser; a missing one is a 404 at once.
GetUserForPatch(r) ==
  /\ phase[r] = "reading"
  /\ \/ /\ Exists(Id(r))
        /\ image' = [image EXCEPT ![r] = users[Id(r)]]
        /\ read' = [read EXCEPT ![r] = Len(audit)]
        /\ phase' = [phase EXCEPT ![r] = "ready"]
        /\ UNCHANGED <<job, started, before, answer, began>>
     \/ ~Exists(Id(r)) /\ Reply(r, "not_found")
  /\ UNCHANGED <<db, faults>>

\* Mutant: the patch is folded onto an empty resource.
FoldOntoNothing(r) ==
  [name |-> IF Op(r) = "patch_name" THEN job[r].name ELSE image[r].name,
   active |-> Op(r) # "patch_active" \/ job[r].active, at |-> 0]

\* applyPatch: the attributes named by the patch, over what was read.
Folded(r) ==
  IF Op(r) = "patch_active" THEN [image[r] EXCEPT !.active = job[r].active]
                            ELSE [image[r] EXCEPT !.name = job[r].name]

-----------------------------------------------------------------------------
(* The store's transactions. *)

\* pool.Begin: now() is fixed here.
Begin(r) ==
  /\ phase[r] = "ready"
  /\ clock' = clock + 1
  /\ started' = [started EXCEPT ![r] = clock + 1]
  /\ began' = [began EXCEPT ![r] = Len(audit)]
  /\ phase' = [phase EXCEPT ![r] = "begun"]
  /\ UNCHANGED <<users, audit, events, holder, job, image, before, answer, read, faults>>

\* Mutant: updated_at keeps its old value.
AfterUntouched(r) ==
  CASE Op(r) = "deactivate" -> [users[Id(r)] EXCEPT !.active = FALSE]
    [] Op(r) = "create" -> [name |-> job[r].name, active |-> job[r].active, at |-> started[r]]
    [] Op(r) = "replace" -> [name |-> job[r].name, active |-> job[r].active, at |-> users[Id(r)].at]
    [] OTHER -> Folded(r)

\* The row as the transaction leaves it. A deactivate changes the newest
\* committed version; an update sets every column from the request.
After(r) ==
  CASE Op(r) = "deactivate" -> [users[Id(r)] EXCEPT !.active = FALSE, !.at = started[r]]
    [] Op(r) \in {"create", "replace"} ->
         [name |-> job[r].name, active |-> job[r].active, at |-> started[r]]
    [] OTHER -> [Folded(r) EXCEPT !.at = started[r]]

\* A patch goes through UpdateUser and is recorded as a replace.
AuditAction(r) == IF Op(r) \in {"create", "deactivate"} THEN Op(r) ELSE "replace"

\* Mutant: every replace is announced as a replace.
TypeByMethod(b, a) == "user.replaced"

changeEventType(b, a) ==
  IF b # Absent /\ b.active /\ ~a.active THEN "user.deactivated" ELSE "user.replaced"

EventType(r) ==
  CASE Op(r) = "create" -> "user.created"
    [] Op(r) = "deactivate" -> "user.deactivated"
    [] OTHER -> changeEventType(before[r], After(r))

Release(r) == holder' = [u \in UserIds |-> IF holder[u] = r THEN None ELSE holder[u]]

\* Mutant: the refused transaction is never rolled back.
KeepLocks(r) == UNCHANGED holder

\* defer tx.Rollback
Rollback(r) == Release(r)

\* auditRefusal, outside the transaction; then the deferred rollback. The
\* insert is a transaction of its own, dated by its own now(). The entry is lost when its insert fails, as it must for a target that is not a
\* uuid. A create's refusal names no target.
Refuse(r, a) ==
  /\ Reply(r, a)
  /\ \/ /\ Id(r) # JunkId
        /\ audit' = Append(audit, [req |-> r, action |-> AuditAction(r), result |-> "denied",
                                   id |-> IF Op(r) = "create" THEN Absent ELSE Id(r),
                                   before |-> Absent, after |-> Absent,
                                   at |-> clock + 1, began |-> Len(audit)])
        /\ clock' = clock + 1 /\ UNCHANGED faults
     \/ Id(r) = JunkId /\ UNCHANGED <<audit, clock, faults>>
     \/ /\ Id(r) # JunkId /\ faults < MaxFaults
        /\ faults' = faults + 1 /\ UNCHANGED <<audit, clock>>
  /\ Rollback(r)
  /\ UNCHANGED <<users, events>>

\* The INSERT of CreateUser puts its row in the heap.
InsertRow(r) ==
  /\ phase[r] = "begun" /\ Op(r) = "create"
  /\ holder' = [holder EXCEPT ![Id(r)] = r]
  /\ phase' = [phase EXCEPT ![r] = "locked"]
  /\ UNCHANGED <<users, audit, events, clock, job, image, started, before, answer, hist, faults>>

\* The statement of UpdateUser and DeactivateUser takes its snapshot: b is the
\* row committed now. No row, or an id that is no uuid, is ErrNotFound.
TakeSnapshot(r) ==
  /\ phase[r] = "begun" /\ Op(r) # "create"
  /\ \/ /\ Exists(Id(r))
        /\ before' = [before EXCEPT ![r] = users[Id(r)]]
        /\ phase' = [phase EXCEPT ![r] = "waiting"]
        /\ UNCHANGED <<db, job, image, started, answer, hist, faults>>
     \/ ~Exists(Id(r)) /\ Refuse(r, "not_found")

\* The UPDATE of the same statement gets its row.
LockRow(r) ==
  /\ phase[r] = "waiting" /\ holder[Id(r)] = None
  /\ holder' = [holder EXCEPT ![Id(r)] = r]
  /\ phase' = [phase EXCEPT ![r] = "locked"]
  /\ UNCHANGED <<users, audit, events, clock, job, image, started, before, answer, hist, faults>>

\* Index idx_users_tenant_username: a writer that takes a name waits for every
\* open transaction that is giving up that name or has just taken it.
TakesName(r) == users[Id(r)] # Absent => users[Id(r)].name # After(r).name

Blockers(r) ==
  IF phase[r] # "locked" \/ ~TakesName(r) THEN {} ELSE
  {q \in Requests \ {r} :
     \/ /\ phase[q] \in {"locked", "written"} /\ users[Id(q)] # Absent
        /\ users[Id(q)].name = After(r).name
     \/ phase[q] = "written" /\ After(q).name = After(r).name}

NameTaken(r) ==
  \E u \in UserIds \ {Id(r)} : users[u] # Absent /\ users[u].name = After(r).name

CheckName(r) ==
  /\ phase[r] = "locked" /\ Blockers(r) = {}
  /\ \/ TakesName(r) /\ NameTaken(r) /\ Refuse(r, "conflict")
     \/ /\ ~(TakesName(r) /\ NameTaken(r))
        /\ phase' = [phase EXCEPT ![r] = "written"]
        /\ UNCHANGED <<db, job, image, started, before, answer, hist, faults>>

\* Mutant: the after-image is worked out from the snapshot, not returned by the UPDATE.
EntryFromSnapshot(r) ==
  [req |-> r, action |-> AuditAction(r), result |-> "success", id |-> Id(r),
   before |-> before[r],
   after |-> IF Op(r) = "deactivate" THEN [before[r] EXCEPT !.active = FALSE, !.at = started[r]]
                                     ELSE After(r),
   at |-> started[r], began |-> began[r]]

\* Mutant: the before-image is read after the write.
EntryReadLate(r) ==
  [req |-> r, action |-> AuditAction(r), result |-> "success", id |-> Id(r),
   before |-> IF Op(r) = "create" THEN Absent ELSE After(r), after |-> After(r),
   at |-> started[r], began |-> began[r]]

\* insertAudit in the transaction, whose now() dates the entry.
SuccessEntry(r) ==
  [req |-> r, action |-> AuditAction(r), result |-> "success", id |-> Id(r),
   before |-> before[r], after |-> After(r), at |-> started[r], began |-> began[r]]

\* Mutant: a change that changes nothing is not announced.
EventsIfChanged(r) ==
  IF before[r] # Absent /\ before[r].name = After(r).name /\ before[r].active = After(r).active
    THEN events
    ELSE Append(events, [req |-> r, type |-> EventType(r), id |-> Id(r),
                         before |-> before[r], after |-> After(r)])

enqueueChange(r) ==
  Append(events, [req |-> r, type |-> EventType(r), id |-> Id(r),
                  before |-> before[r], after |-> After(r)])

\* The row, its entry and its event become visible together.
Publish(r) ==
  /\ users' = [users EXCEPT ![Id(r)] = After(r)]
  /\ audit' = Append(audit, SuccessEntry(r))
  /\ events' = enqueueChange(r)
  /\ Release(r)
  /\ UNCHANGED clock

Commit(r) ==
  /\ phase[r] = "written"
  /\ Publish(r) /\ Reply(r, "ok")
  /\ UNCHANGED faults

\* The commit is done but its answer does not arrive in time.
CommitAnswerLost(r) ==
  /\ phase[r] = "written" /\ faults < MaxFaults
  /\ Publish(r) /\ Reply(r, "error")
  /\ faults' = faults + 1

\* A statement fails, the client is gone, or the request's deadline passes.
Fail(r) ==
  /\ Active(r) /\ faults < MaxFaults
  /\ Reply(r, "error") /\ Rollback(r)
  /\ faults' = faults + 1
  /\ UNCHANGED <<users, audit, events, clock>>

\* Postgres breaks a cycle of transactions waiting for each other's names by
\* aborting one of them; the store has no case for that error.
DeadlockAbort(r) ==
  /\ \E S \in SUBSET Requests : r \in S /\ \A q \in S : Blockers(q) \cap S # {}
  /\ Reply(r, "error") /\ Rollback(r)
  /\ UNCHANGED <<users, audit, events, clock, faults>>

\* The other unique index, on external_id, which the model leaves out: its
\* violation is not ErrDuplicateUserName but an error like any other.
ExternalIdClash(r) ==
  /\ phase[r] = "locked" /\ Op(r) # "deactivate"
  /\ Reply(r, "error") /\ Rollback(r)
  /\ UNCHANGED <<users, audit, events, clock, faults>>

-----------------------------------------------------------------------------

Step(r) ==
  \/ GetUserForPatch(r) \/ Begin(r) \/ InsertRow(r) \/ TakeSnapshot(r)
  \/ LockRow(r) \/ CheckName(r) \/ Commit(r) \/ DeadlockAbort(r)

Next ==
  \E r \in Requests :
    \/ Arrive(r) \/ BadRequest(r) \/ Step(r)
    \/ ExternalIdClash(r) \/ CommitAnswerLost(r) \/ Fail(r)

Spec == Init /\ [][Next]_vars

\* A handler that can go on does, and Postgres serves whoever it can.
FairSpec == Spec /\ \A r \in Requests : WF_vars(Step(r))
-----------------------------------------------------------------------------
(* What is promised however requests interleave. *)

Success(n, u)  == audit[n].result = "success" /\ audit[n].id = u
Applied(r)     == {n \in DOMAIN audit : audit[n].req = r /\ audit[n].result = "success"}
Announced(r)   == {n \in DOMAIN events : events[n].req = r}

\* The trail ends where the table stands: the newest successful entry for a
\* user holds exactly the row that is stored, so history and state never part
\* (docs/ARCHITECTURE.md, "a mutation and its entry commit together").
TrailMatchesRows ==
  \A u \in UserIds :
    \/ users[u] = Absent /\ \A n \in DOMAIN audit : ~Success(n, u)
    \/ \E n \in DOMAIN audit :
         /\ Success(n, u) /\ audit[n].after = users[u]
         /\ \A m \in DOMAIN audit : Success(m, u) => m <= n

\* A before-image, stale as it may be, is a version the user really had: it is
\* the after-image of an earlier entry for that user.
BeforeWasCommitted ==
  \A n \in DOMAIN audit :
    audit[n].before # Absent =>
      \E m \in 1..(n - 1) : Success(m, audit[n].id) /\ audit[m].after = audit[n].before

\* A request takes effect at most once, in the row, the trail and the events
\* alike: a success answer has exactly one entry, a refusal has none, an
\* error leaves it open, and every entry has one event with the same images
\* (enqueueChange's "suppressing its event would make the outbound stream
\* disagree with the audit trail").
OnceOrNever ==
  \A r \in Requests :
    /\ answer[r] = "ok" => Applied(r) # {}
    /\ Applied(r) # {} => answer[r] \in {"ok", "error"}
    /\ \A m, n \in Applied(r) : m = n
    /\ \A m, n \in Announced(r) : m = n
    /\ \A n \in Applied(r) : \E m \in Announced(r) :
         /\ events[m].id = audit[n].id
         /\ events[m].before = audit[n].before /\ events[m].after = audit[n].after
    /\ Announced(r) # {} => Applied(r) # {}

\* Every request that reached its handler is answered: row locks and waits for
\* names never leave one hanging.
EventuallyAnswered == \A r \in Requests : Active(r) ~> phase[r] = "done"

-----------------------------------------------------------------------------
(* What the documents promise without a word on overlapping requests. Each
   property says exactly which overlap can break the promise: a change of the
   same user that was committed after the request had read it, or after its
   transaction had begun. *)

\* A change of user u entered the trail behind its first k entries.
ChangedSince(k, u) == \E n \in DOMAIN audit : n > k /\ Success(n, u)

\* No gap in the trail: each before-image is the after-image of the entry
\* before it (user.go, "no read-then-write gap where a concurrent update could
\* slip between the two halves of an audit entry"), unless that entry was
\* committed while this one's transaction was open.
TrailIsAChain ==
  \A n \in DOMAIN audit : \A m \in 1..(n - 1) :
    (/\ audit[n].result = "success" /\ Success(m, audit[n].id)
     /\ \A k \in (m + 1)..(n - 1) : ~Success(k, audit[n].id))
      => audit[n].before = audit[m].after \/ audit[n].began < m

\* When the change in entry m was committed, a later one of the same user had
\* already begun, and so carries the older date or may do so.
Overtaken(m) == \E n \in DOMAIN audit :
                  n > m /\ Success(n, audit[m].id) /\ audit[n].began < m

\* Dates tell the present. The change a reviewer finds first in the trail of a
\* user (ListAuditEntries, ORDER BY at DESC), and the one a receiver keeps that
\* prefers the newest occurredAt (docs/ARCHITECTURE.md), is the stored row,
\* unless that change was overtaken.
NewestIsCurrent ==
  /\ \A m \in DOMAIN audit :
       (/\ audit[m].result = "success"
        /\ \A n \in DOMAIN audit : Success(n, audit[m].id) => audit[n].at <= audit[m].at)
         => audit[m].after = users[audit[m].id] \/ Overtaken(m)
  /\ \A i \in DOMAIN events :
       (\A j \in DOMAIN events :
          events[j].id = events[i].id => events[j].after.at <= events[i].after.at)
         => \/ events[i].after = users[events[i].id]
            \/ \E m \in DOMAIN audit :
                 Success(m, events[i].id) /\ audit[m].after = events[i].after /\ Overtaken(m)

\* Each time a stored user goes from active to inactive a user.deactivated
\* event is queued with it (docs/ARCHITECTURE.md, "see every real
\* deprovisioning"), unless another change of that user was committed while
\* the transaction was open.
DeactivationAnnounced ==
  [][\A u \in UserIds :
       (users[u] # Absent /\ users[u].active /\ ~users'[u].active) =>
         \/ \E n \in DOMAIN events' :
              n \notin DOMAIN events /\ events'[n].id = u /\ events'[n].type = "user.deactivated"
         \/ \E r \in Requests :
              phase[r] = "written" /\ phase'[r] = "done" /\ ChangedSince(began[r], u)]_vars

\* A patch leaves what it does not name as it stands in the table: its
\* read-fold-write undoes nothing, unless it was stored after patch had read
\* the row.
PatchKeepsOthers ==
  [][\A r \in Requests :
       (phase[r] = "written" /\ users' # users /\ phase'[r] = "done") =>
         \/ /\ Op(r) = "patch_active" => users'[Id(r)].name = users[Id(r)].name
            /\ Op(r) = "patch_name" => users'[Id(r)].active = users[Id(r)].active
         \/ ChangedSince(read[r], Id(r))]_vars
=============================================================================
