----------------------------- MODULE GroupStore -----------------------------
(***************************************************************************)
(* The SCIM group mutations of one tenant: the handlers of                 *)
(* internal/scim/handler.go (createGroup, replaceGroup, patchGroup,        *)
(* deleteGroup) and the transactions of internal/store/group.go behind     *)
(* them, with the audit entry and the outbox event each one commits.       *)
(*                                                                         *)
(* Postgres is used at READ COMMITTED as in module UserStore. A group is   *)
(* read in two statements, its row and then its member rows, both by       *)
(* GetGroup for a patch and by getGroupTx for the before-image, and the    *)
(* two see different snapshots. Whoever writes a group locks its row       *)
(* first, so its members change under that lock and with that commit.      *)
(***************************************************************************)
EXTENDS Integers, Sequences, FiniteSets

CONSTANTS
  Requests,   \* HTTP requests, each handled once
  GroupIds,   \* ids the table may ever hold
  JunkId,     \* a path id that is not a uuid
  Names,      \* displayNames, up to case
  Users,      \* the tenant's users
  Stranger,   \* a member id that is no user of the tenant
  Seeds,      \* groups already there: a sequence of [id, name, members] records
  Ops,        \* the operations requests may ask for
  Absent,     \* no row, no image
  None,       \* nobody
  Skew,       \* how far the process clock may be behind or ahead of the database clock
  MaxFaults   \* bound: failed or timed-out statements in a behaviour

\* A group with its members: what an image in an audit entry or an event holds.
Group == [name : Names, members : SUBSET Users, at : Nat]

PatchOps == {"add", "remove", "set", "rename"}
AllOps   == {"create", "replace", "delete"} \cup PatchOps

ASSUME SeedsAssumption ==
  /\ Absent \notin Group
  /\ Seeds \in Seq([id : GroupIds, name : Names, members : SUBSET Users])
  /\ \A m, n \in DOMAIN Seeds : m # n => Seeds[m].id # Seeds[n].id

\* What a request asks for: a whole group, what a patch changes, or no body.
Job ==
  [op : {"create"}, id : GroupIds, name : Names, members : SUBSET (Users \cup {Stranger})]
    \cup [op : {"replace"}, id : GroupIds \cup {JunkId}, name : Names,
          members : SUBSET (Users \cup {Stranger})]
    \cup [op : {"set"}, id : GroupIds \cup {JunkId}, members : SUBSET (Users \cup {Stranger})]
    \cup [op : {"add", "remove"}, id : GroupIds \cup {JunkId}, member : Users \cup {Stranger}]
    \cup [op : {"rename"}, id : GroupIds \cup {JunkId}, name : Names]
    \cup [op : {"delete"}, id : GroupIds \cup {JunkId}]

ASSUME SetsAssumption ==
  /\ JunkId \notin GroupIds /\ Absent \notin GroupIds /\ Stranger \notin Users
  /\ None \notin Requests /\ None \notin Job /\ IsFiniteSet(Users) /\ Ops \subseteq AllOps
  /\ Skew \in Nat /\ MaxFaults \in Nat

VARIABLES
  groups,   \* groups with their group_members: a group or Absent
  audit,    \* audit_log, in commit order
  events,   \* webhook_deliveries of group events, in commit order
  clock,    \* the database clock
  holder,   \* the transaction holding a group row's lock
  phase, job,
  image,    \* what patchGroup has read
  started,  \* the transaction's now()
  before,   \* the before-image getGroupTx has read
  answer,   \* the HTTP answer
  read,     \* history: how much of the trail was there when patchGroup read the row,
  began,    \* ... and when the transaction began
  faults

db   == <<groups, audit, events, clock, holder>>
hist == <<read, began>>
reqs == <<phase, job, image, started, before, answer, hist>>
vars == <<db, reqs, faults>>

Phases == {"new", "reading", "reading_members", "ready",
           "begun", "begun_members", "waiting", "locked", "written", "done"}
Answers == {"none", "ok", "bad_request", "bad_member", "not_found", "conflict", "error"}

\* began is history: how much of the trail was there when the transaction that
\* wrote the entry began. audit_log.at, the same now() as after.at, is left out.
Entry == [req : Requests \cup {None}, action : {"create", "replace", "delete"},
          result : {"success", "denied"}, id : GroupIds \cup {Absent},
          before : Group \cup {Absent}, after : Group \cup {Absent}, began : Nat]
Event == [req : Requests \cup {None},
          type : {"group.created", "group.replaced", "group.deleted"}, id : GroupIds,
          before : Group \cup {Absent}, after : Group \cup {Absent}, occurred : Int]

\* The tables hold what the schema allows: in particular every stored or
\* recorded member is a user of the tenant, never a stranger.
TypeOK ==
  /\ groups \in [GroupIds -> Group \cup {Absent}]
  /\ audit \in Seq(Entry) /\ events \in Seq(Event)
  /\ clock \in Nat /\ faults \in Nat
  /\ holder \in [GroupIds -> Requests \cup {None}]
  /\ phase \in [Requests -> Phases] /\ job \in [Requests -> Job \cup {None}]
  /\ image \in [Requests -> Group \cup {Absent}]
  /\ started \in [Requests -> Nat]
  /\ before \in [Requests -> Group \cup {Absent}]
  /\ answer \in [Requests -> Answers]
  /\ read \in [Requests -> Nat] /\ began \in [Requests -> Nat]

Seed(n) == [name |-> Seeds[n].name, members |-> Seeds[n].members, at |-> 0]

\* The tables as the creates of the seeds left them.
Init ==
  /\ groups = [g \in GroupIds |->
                 IF \E n \in DOMAIN Seeds : Seeds[n].id = g
                   THEN Seed(CHOOSE n \in DOMAIN Seeds : Seeds[n].id = g) ELSE Absent]
  /\ audit = [n \in DOMAIN Seeds |->
                [req |-> None, action |-> "create", result |-> "success",
                 id |-> Seeds[n].id, before |-> Absent, after |-> Seed(n),
                 began |-> 0]]
  /\ events = [n \in DOMAIN Seeds |->
                [req |-> None, type |-> "group.created", id |-> Seeds[n].id,
                 before |-> Absent, after |-> Seed(n), occurred |-> 0]]
  /\ clock = 0 /\ faults = 0
  /\ holder = [g \in GroupIds |-> None]
  /\ phase = [r \in Requests |-> "new"]
  /\ job = [r \in Requests |-> None]
  /\ image = [r \in Requests |-> Absent]
  /\ started = [r \in Requests |-> 0]
  /\ before = [r \in Requests |-> Absent]
  /\ answer = [r \in Requests |-> "none"]
  /\ read = [r \in Requests |-> 0] /\ began = [r \in Requests |-> 0]

-----------------------------------------------------------------------------
(* The handlers, up to the call into the store. *)

Id(r)     == job[r].id
Op(r)     == job[r].op
Exists(g) == g \in GroupIds /\ groups[g] # Absent
Active(r) == phase[r] \notin {"new", "done"}

\* The handler answers and its locals are gone.
Reply(r, a) ==
  /\ phase' = [phase EXCEPT ![r] = "done"]
  /\ answer' = [answer EXCEPT ![r] = a]
  /\ job' = [job EXCEPT ![r] = None]
  /\ image' = [image EXCEPT ![r] = Absent]
  /\ started' = [started EXCEPT ![r] = 0]
  /\ before' = [before EXCEPT ![r] = Absent]
  /\ read' = [read EXCEPT ![r] = 0] /\ began' = [began EXCEPT ![r] = 0]

\* A well-formed request reaches its handler; a create's id is new.
Arrive(r) ==
  /\ phase[r] = "new"
  /\ \E j \in Job :
       /\ j.op \in Ops
       /\ j.op = "create" => /\ \A n \in DOMAIN audit : audit[n].id # j.id
                             /\ \A q \in Requests : Active(q) => Id(q) # j.id
       /\ job' = [job EXCEPT ![r] = j]
       /\ phase' = [phase EXCEPT ![r] = IF j.op \in PatchOps THEN "reading" ELSE "ready"]
  /\ UNCHANGED <<db, image, started, before, answer, hist, faults>>

\* decodeGroup, applyGroupPatch and validateGroup refuse before anything is stored.
BadRequest(r) ==
  /\ phase[r] = "new" \/ (phase[r] = "ready" /\ image[r] # Absent)
  /\ Reply(r, "bad_request")
  /\ UNCHANGED <<db, faults>>

\* The two statements by which a group is read: its row, and its members then.
RowOf(g)                == [groups[g] EXCEPT !.members = {}]
WithMembers(partial, g) ==
  [partial EXCEPT !.members = IF groups[g] = Absent THEN {} ELSE groups[g].members]

\* GetGroup for patchGroup: a missing row is a 404 at once.
GetGroupRow(r) ==
  /\ phase[r] = "reading"
  /\ \/ /\ Exists(Id(r))
        /\ image' = [image EXCEPT ![r] = RowOf(Id(r))]
        /\ read' = [read EXCEPT ![r] = Len(audit)]
        /\ phase' = [phase EXCEPT ![r] = "reading_members"]
        /\ UNCHANGED <<job, started, before, answer, began>>
     \/ ~Exists(Id(r)) /\ Reply(r, "not_found")
  /\ UNCHANGED <<db, faults>>

GetGroupMembers(r) ==
  /\ phase[r] = "reading_members"
  /\ image' = [image EXCEPT ![r] = WithMembers(image[r], Id(r))]
  /\ phase' = [phase EXCEPT ![r] = "ready"]
  /\ UNCHANGED <<db, job, started, before, answer, hist, faults>>

\* Mutant: add overwrites the members, as it does for single-valued attributes.
AddOverwrites(r) ==
  CASE Op(r) = "add" -> {job[r].member}
    [] Op(r) = "remove" -> image[r].members \ {job[r].member}
    [] Op(r) = "rename" -> image[r].members
    [] OTHER -> job[r].members

\* The member list handed to the store: setMembers and removeMember over what
\* patchGroup read, or the request's own.
WantedMembers(r) ==
  CASE Op(r) = "add" -> image[r].members \cup {job[r].member}
    [] Op(r) = "remove" -> image[r].members \ {job[r].member}
    [] Op(r) = "rename" -> image[r].members
    [] OTHER -> job[r].members

WantedName(r) == IF Op(r) \in {"add", "remove", "set"} THEN image[r].name ELSE job[r].name

-----------------------------------------------------------------------------
(* The store's transactions. *)

\* pool.Begin: now() is fixed here.
Begin(r) ==
  /\ phase[r] = "ready"
  /\ clock' = clock + 1
  /\ started' = [started EXCEPT ![r] = clock + 1]
  /\ began' = [began EXCEPT ![r] = Len(audit)]
  /\ phase' = [phase EXCEPT ![r] = "begun"]
  /\ UNCHANGED <<groups, audit, events, holder, job, image, before, answer, read, faults>>

\* replaceMembers inserts the ids that are users of the tenant, and fails when
\* they are fewer than the ids it was given.
Inserted(r) == WantedMembers(r) \cap Users

InvalidMember(r) == Cardinality(Inserted(r)) # Cardinality(WantedMembers(r))

\* Mutant: a delete leaves the row, as a user's does.
AfterSoftDelete(r) ==
  IF Op(r) = "delete" THEN groups[Id(r)]
  ELSE [name |-> WantedName(r), members |-> Inserted(r), at |-> started[r]]

\* The group as the transaction leaves it.
After(r) ==
  IF Op(r) = "delete" THEN Absent
  ELSE [name |-> WantedName(r), members |-> Inserted(r), at |-> started[r]]

\* A patch goes through UpdateGroup and is recorded as a replace.
AuditAction(r) == IF Op(r) \in {"create", "delete"} THEN Op(r) ELSE "replace"

EventType(r) ==
  CASE Op(r) = "create" -> "group.created"
    [] Op(r) = "delete" -> "group.deleted"
    [] OTHER -> "group.replaced"

Release(r) == holder' = [g \in GroupIds |-> IF holder[g] = r THEN None ELSE holder[g]]

\* Mutant: the refused transaction is never rolled back.
KeepLocks(r) == UNCHANGED holder

\* defer tx.Rollback
Rollback(r) == Release(r)

\* auditRefusal, outside the transaction; then the deferred rollback. The
\* entry is lost when its insert fails, as it must for a target that is not a
\* uuid. A create's refusal names no target.
Refuse(r, a) ==
  /\ Reply(r, a)
  /\ \/ /\ Id(r) # JunkId
        /\ audit' = Append(audit, [req |-> r, action |-> AuditAction(r), result |-> "denied",
                                   id |-> IF Op(r) = "create" THEN Absent ELSE Id(r),
                                   before |-> Absent, after |-> Absent,
                                   began |-> Len(audit)])
        /\ UNCHANGED faults
     \/ Id(r) = JunkId /\ UNCHANGED <<audit, faults>>
     \/ Id(r) # JunkId /\ faults < MaxFaults /\ faults' = faults + 1 /\ UNCHANGED audit
  /\ Rollback(r)
  /\ UNCHANGED <<groups, events, clock>>

\* The INSERT of CreateGroup puts its row in the heap.
InsertRow(r) ==
  /\ phase[r] = "begun" /\ Op(r) = "create"
  /\ holder' = [holder EXCEPT ![Id(r)] = r]
  /\ phase' = [phase EXCEPT ![r] = "locked"]
  /\ UNCHANGED <<groups, audit, events, clock, job, image, started, before, answer, hist, faults>>

\* getGroupTx, first statement. No row, or an id that is no uuid, is
\* ErrGroupNotFound.
ReadBeforeRow(r) ==
  /\ phase[r] = "begun" /\ Op(r) # "create"
  /\ \/ /\ Exists(Id(r))
        /\ before' = [before EXCEPT ![r] = RowOf(Id(r))]
        /\ phase' = [phase EXCEPT ![r] = "begun_members"]
        /\ UNCHANGED <<db, job, image, started, answer, hist, faults>>
     \/ ~Exists(Id(r)) /\ Refuse(r, "not_found")

\* getGroupTx, second statement.
ReadBeforeMembers(r) ==
  /\ phase[r] = "begun_members"
  /\ before' = [before EXCEPT ![r] = WithMembers(before[r], Id(r))]
  /\ phase' = [phase EXCEPT ![r] = "waiting"]
  /\ UNCHANGED <<db, job, image, started, answer, hist, faults>>

\* Mutant: the UPDATE of a row that is gone goes on as if it had found it.
LockRowBlind(r) ==
  /\ phase[r] = "waiting" /\ holder[Id(r)] = None
  /\ holder' = [holder EXCEPT ![Id(r)] = r]
  /\ phase' = [phase EXCEPT ![r] = IF Op(r) = "delete" THEN "written" ELSE "locked"]
  /\ UNCHANGED <<groups, audit, events, clock, job, image, started, before, answer, hist, faults>>

\* The UPDATE or DELETE gets its row, perhaps after waiting.
LockRow(r) ==
  /\ phase[r] = "waiting" /\ holder[Id(r)] = None /\ Exists(Id(r))
  /\ holder' = [holder EXCEPT ![Id(r)] = r]
  /\ phase' = [phase EXCEPT ![r] = IF Op(r) = "delete" THEN "written" ELSE "locked"]
  /\ UNCHANGED <<groups, audit, events, clock, job, image, started, before, answer, hist, faults>>

\* The row was deleted since it was read. UPDATE ... RETURNING finds none and
\* the store has no case for that; DELETE affects none and nobody looks.
RowGone(r) ==
  /\ phase[r] = "waiting" /\ holder[Id(r)] = None /\ ~Exists(Id(r))
  /\ \/ Op(r) # "delete" /\ Reply(r, "error") /\ Rollback(r)
     \/ /\ Op(r) = "delete"
        /\ phase' = [phase EXCEPT ![r] = "written"]
        /\ UNCHANGED <<holder, job, image, started, before, answer, hist>>
  /\ UNCHANGED <<groups, audit, events, clock, faults>>

\* Index idx_groups_tenant_displayname: a writer that takes a name waits for
\* every open transaction that is giving up that name or has just taken it.
TakesName(r) == groups[Id(r)] # Absent => groups[Id(r)].name # After(r).name

Blockers(r) ==
  IF phase[r] # "locked" \/ ~TakesName(r) THEN {} ELSE
  {q \in Requests \ {r} :
     \/ /\ phase[q] \in {"locked", "written"} /\ groups[Id(q)] # Absent
        /\ holder[Id(q)] = q /\ groups[Id(q)].name = After(r).name
     \/ phase[q] = "written" /\ After(q) # Absent /\ After(q).name = After(r).name}

NameTaken(r) ==
  \E g \in GroupIds \ {Id(r)} : groups[g] # Absent /\ groups[g].name = After(r).name

CheckName(r) ==
  /\ phase[r] = "locked" /\ Blockers(r) = {}
  /\ \/ TakesName(r) /\ NameTaken(r) /\ Refuse(r, "conflict")
     \/ /\ ~(TakesName(r) /\ NameTaken(r))
        /\ phase' = [phase EXCEPT ![r] = "written"]
        /\ UNCHANGED <<db, job, image, started, before, answer, hist, faults>>

\* replaceMembers returns ErrInvalidMember.
RefuseMembers(r) ==
  /\ phase[r] = "written" /\ Op(r) # "delete" /\ InvalidMember(r)
  /\ Refuse(r, "bad_member")

\* Mutant: a patch is recorded with the members it found.
EntryWithOldMembers(r) ==
  [req |-> r, action |-> AuditAction(r), result |-> "success", id |-> Id(r),
   before |-> before[r],
   after |-> IF Op(r) \in PatchOps THEN [After(r) EXCEPT !.members = before[r].members]
                                   ELSE After(r),
   began |-> began[r]]

\* Mutant: the before-image is not kept.
EntryWithoutBefore(r) ==
  [req |-> r, action |-> AuditAction(r), result |-> "success", id |-> Id(r),
   before |-> Absent, after |-> After(r), began |-> began[r]]

\* insertAudit in the transaction.
SuccessEntry(r) ==
  [req |-> r, action |-> AuditAction(r), result |-> "success", id |-> Id(r),
   before |-> before[r], after |-> After(r), began |-> began[r]]

\* Mutant: a delete's event is dated by the row it removed.
OccurredLastUpdate(r, lag) == IF After(r) = Absent THEN before[r].at ELSE After(r).at

\* The row's updated_at, or for a delete the process clock, which is lag behind the database's.
Occurred(r, lag) == IF After(r) = Absent THEN clock + 1 - lag ELSE After(r).at

\* Mutant: a membership change that changes nothing is not announced.
EventsIfChanged(r, lag) ==
  IF before[r] # Absent /\ After(r) # Absent /\ before[r].members = After(r).members
     /\ before[r].name = After(r).name
    THEN events
    ELSE Append(events, [req |-> r, type |-> EventType(r), id |-> Id(r), before |-> before[r],
                         after |-> After(r), occurred |-> Occurred(r, lag)])

enqueueGroupChange(r, lag) ==
  Append(events, [req |-> r, type |-> EventType(r), id |-> Id(r), before |-> before[r],
                  after |-> After(r), occurred |-> Occurred(r, lag)])

\* The group, its entry and its event become visible together. A delete's
\* event was dated in between, so its moment is one of the clock's; a process
\* clock shows it lag too late or too early.
Publish(r) ==
  /\ phase[r] = "written" /\ (Op(r) # "delete" => ~InvalidMember(r))
  /\ groups' = [groups EXCEPT ![Id(r)] = After(r)]
  /\ audit' = Append(audit, SuccessEntry(r))
  /\ \E lag \in IF Op(r) = "delete" THEN (0 - Skew)..Skew ELSE {0} :
       events' = enqueueGroupChange(r, lag)
  /\ clock' = IF Op(r) = "delete" THEN clock + 1 ELSE clock
  /\ Release(r)

Commit(r) == Publish(r) /\ Reply(r, "ok") /\ UNCHANGED faults

\* The commit is done but its answer does not arrive in time.
CommitAnswerLost(r) ==
  /\ faults < MaxFaults /\ faults' = faults + 1
  /\ Publish(r) /\ Reply(r, "error")

\* A statement fails, the client is gone, or the request's deadline passes.
Fail(r) ==
  /\ Active(r) /\ faults < MaxFaults
  /\ Reply(r, "error") /\ Rollback(r)
  /\ faults' = faults + 1
  /\ UNCHANGED <<groups, audit, events, clock>>

\* Postgres breaks a cycle of transactions waiting for each other's names.
DeadlockAbort(r) ==
  /\ \E S \in SUBSET Requests : r \in S /\ \A q \in S : Blockers(q) \cap S # {}
  /\ Reply(r, "error") /\ Rollback(r)
  /\ UNCHANGED <<groups, audit, events, clock, faults>>

\* The other unique index, on external_id, which the model leaves out: its
\* violation is not ErrDuplicateGroupName but an error like any other.
ExternalIdClash(r) ==
  /\ phase[r] = "locked"
  /\ Reply(r, "error") /\ Rollback(r)
  /\ UNCHANGED <<groups, audit, events, clock, faults>>

-----------------------------------------------------------------------------

Step(r) ==
  \/ GetGroupRow(r) \/ GetGroupMembers(r) \/ Begin(r) \/ InsertRow(r)
  \/ ReadBeforeRow(r) \/ ReadBeforeMembers(r) \/ LockRow(r) \/ RowGone(r)
  \/ CheckName(r) \/ RefuseMembers(r) \/ Commit(r) \/ DeadlockAbort(r)

Next ==
  \E r \in Requests :
    \/ Arrive(r) \/ BadRequest(r) \/ Step(r)
    \/ ExternalIdClash(r) \/ CommitAnswerLost(r) \/ Fail(r)

Spec == Init /\ [][Next]_vars

\* A handler that can go on does, and Postgres serves whoever it can.
FairSpec == Spec /\ \A r \in Requests : WF_vars(Step(r))
-----------------------------------------------------------------------------
(* What is promised however requests interleave. *)

Success(n, g) == audit[n].result = "success" /\ audit[n].id = g
Applied(r)    == {n \in DOMAIN audit : audit[n].req = r /\ audit[n].result = "success"}
Announced(r)  == {n \in DOMAIN events : events[n].req = r}

\* The trail ends where the tables stand: the newest successful entry of a
\* group holds its stored name and members, or none for a group that is gone,
\* whatever updates and deletes waited for each other (docs/ARCHITECTURE.md,
\* "They commit together").
TrailMatchesGroups ==
  \A g \in GroupIds :
    \/ groups[g] = Absent /\ \A n \in DOMAIN audit : ~Success(n, g)
    \/ \E n \in DOMAIN audit :
         /\ Success(n, g) /\ audit[n].after = groups[g]
         /\ \A m \in DOMAIN audit : Success(m, g) => m <= n

\* A request takes effect at most once, as its answer says, and every entry of
\* the trail has one event with the same images (enqueueGroupChange).
OnceOrNever ==
  \A r \in Requests :
    /\ answer[r] = "ok" => Applied(r) # {}
    /\ Applied(r) # {} => answer[r] \in {"ok", "error"}
    /\ \A m, n \in Applied(r) : m = n
    /\ \A m, n \in Announced(r) : m = n
    /\ \A n \in Applied(r) : \E m \in Announced(r) :
         /\ events[m].id = audit[n].id
         /\ events[m].before = audit[n].before /\ events[m].after = audit[n].after
    /\ Announced(r) # {} => Applied(r) # {}

\* A deleted group is gone for good: no update that read it before the delete
\* and waited for its row writes it back (UpdateGroup, DeleteGroup).
DeletedForGood ==
  \A n \in DOMAIN audit :
    audit[n].action = "delete" /\ audit[n].result = "success" => groups[audit[n].id] = Absent

\* No event that still shows a deleted group is dated Skew or more after the
\* group's delete. A receiver that prefers the newest occurredAt
\* (docs/ARCHITECTURE.md, "occurredAt carries the database clock") keeps it
\* deleted if it allows for that much; without allowance it does so only where
\* the process clock, which dates the delete, does not lag (outbox.go).
DeletedStaysDeleted ==
  \A i, d \in DOMAIN events :
    (/\ events[d].id = events[i].id
     /\ events[d].type = "group.deleted" /\ events[i].type # "group.deleted")
      => events[i].occurred < events[d].occurred + Skew

\* Every request that reached its handler is answered: row locks and waits for
\* names never leave one hanging.
EventuallyAnswered == \A r \in Requests : Active(r) ~> phase[r] = "done"

-----------------------------------------------------------------------------
(* What the documents promise without a word on overlapping requests. Each
   property says exactly which overlap can break the promise: a change of the
   same group that was committed after the request had read it, or after its
   transaction had begun. *)

\* A change of group g entered the trail behind its first k entries.
ChangedSince(k, g) == \E n \in DOMAIN audit : n > k /\ Success(n, g)

\* No gap in the trail: each before-image is the after-image of the entry
\* before it, members included, although it is read in two statements; unless
\* that entry was committed while this one's transaction was open.
TrailIsAChain ==
  \A n \in DOMAIN audit : \A m \in 1..(n - 1) :
    (/\ audit[n].result = "success" /\ Success(m, audit[n].id)
     /\ \A k \in (m + 1)..(n - 1) : ~Success(k, audit[n].id))
      => audit[n].before = audit[m].after \/ audit[n].began < m

\* A second delete finds the group gone ("a second delete of the same id is
\* ErrGroupNotFound, because there is no longer a row to re-delete",
\* group.go), unless its transaction had begun before the first was committed.
DeletedOnce ==
  \A m, n \in DOMAIN audit :
    (/\ audit[m].action = "delete" /\ audit[m].result = "success"
     /\ audit[n].action = "delete" /\ audit[n].result = "success"
     /\ audit[m].id = audit[n].id /\ m < n) => audit[n].began < m

\* A patch changes what it names in the group as it stands: members that other
\* requests added or removed are neither dropped nor brought back by
\* patchGroup's read, fold and full replace, unless that happened after
\* patchGroup had begun to read.
PatchKeepsOthers ==
  [][\A r \in Requests :
       (phase[r] = "written" /\ phase'[r] = "done" /\ groups' # groups) =>
         LET old == groups[Id(r)]
             new == groups'[Id(r)]
         IN \/ /\ Op(r) = "add" => new.members = old.members \cup {job[r].member}
               /\ Op(r) = "remove" => new.members = old.members \ {job[r].member}
               /\ Op(r) = "rename" => new.members = old.members
               /\ Op(r) \in {"add", "remove", "set"} => new.name = old.name
            \/ ChangedSince(read[r], Id(r))]_vars
=============================================================================
