-------------------------- MODULE GroupStoreProofs --------------------------
(***************************************************************************)
(* Theorems about module GroupStore, for every set of requests, groups,    *)
(* names and users, every number of faults, and requests that overlap in   *)
(* any way.                                                                *)
(***************************************************************************)
EXTENDS GroupStore, FiniteSetTheorems, TLAPS

IsPatch(r) == Op(r) \in PatchOps
Reading(r) == phase[r] \in {"begun_members", "waiting", "locked", "written"}

(***************************************************************************)
(* What a handler has in hand: a request, what a patch has read, and from  *)
(* the first statement of getGroupTx on a before-image.                    *)
(***************************************************************************)
HandOK(r) ==
  /\ phase[r] = "new" => before[r] = Absent
  /\ Active(r) => job[r] \in Job
  /\ phase[r] \in {"reading", "reading_members"} => IsPatch(r)
  /\ Active(r) /\ phase[r] # "reading" /\ IsPatch(r) => image[r] \in Group
  /\ phase[r] = "reading_members" => Id(r) \in GroupIds
  /\ Reading(r) => Id(r) \in GroupIds /\ (Op(r) # "create" => before[r] \in Group)
  /\ phase[r] \in {"begun_members", "waiting"} => Op(r) # "create"
  /\ phase[r] = "locked" => Op(r) # "delete"
  /\ Active(r) /\ Op(r) = "create" => before[r] = Absent

TypeInv == TypeOK /\ \A r \in Requests : HandOK(r)

LEMMA JobFields ==
  ASSUME NEW j \in Job
  PROVE  /\ j.op \in AllOps
         /\ j.id \in GroupIds \cup {JunkId}
         /\ j.op = "create" => j.id \in GroupIds
         /\ j.op \in {"create", "replace", "rename"} => j.name \in Names
BY DEF Job, AllOps, PatchOps

\* What a transaction writes is a group, or nothing when it deletes.
LEMMA AfterGroup ==
  ASSUME TypeInv, NEW r \in Requests, phase[r] \in {"locked", "written"}
  PROVE  /\ Op(r) = "delete" => After(r) = Absent
         /\ Op(r) # "delete" => /\ After(r) \in Group /\ After(r) # Absent
                                /\ After(r).at = started[r]
<1>1. job[r] \in Job /\ started[r] \in Nat
  BY DEF TypeInv, TypeOK, HandOK, Active
<1>2. CASE Op(r) = "delete"
  BY <1>2 DEF After
<1>3. CASE Op(r) # "delete"
  <2>1. After(r) = [name |-> WantedName(r), members |-> Inserted(r), at |-> started[r]]
    BY <1>3 DEF After
  <2>2. Inserted(r) \in SUBSET Users
    BY DEF Inserted
  <2>3. WantedName(r) \in Names
    <3>1. CASE Op(r) \in {"add", "remove", "set"}
      <4>1. image[r] \in Group
        BY <3>1 DEF TypeInv, HandOK, Active, IsPatch, PatchOps
      <4> QED
        BY <3>1, <4>1 DEF WantedName, Group
    <3>2. CASE Op(r) \notin {"add", "remove", "set"}
      <4>1. Op(r) \in {"create", "replace", "rename"}
        BY <1>1, <1>3, <3>2, JobFields DEF Op, AllOps, PatchOps
      <4> QED
        BY <1>1, <3>2, <4>1, JobFields DEF WantedName, Op
    <3> QED
      BY <3>1, <3>2
  <2>4. After(r) \in Group /\ After(r).at = started[r]
    BY <1>1, <2>1, <2>2, <2>3 DEF Group
  <2> QED
    BY <1>3, <2>4, SeedsAssumption
<1> QED
  BY <1>2, <1>3

LEMMA PartialGroup ==
  ASSUME TypeInv, NEW g \in GroupIds
  PROVE  /\ groups[g] # Absent => RowOf(g) \in Group
         /\ \A p \in Group : WithMembers(p, g) \in Group
<1>1. groups[g] # Absent => groups[g] \in Group
  BY DEF TypeInv, TypeOK
<1>2. groups[g] # Absent => RowOf(g) \in Group
  BY <1>1 DEF RowOf, Group
<1>3. ASSUME NEW p \in Group PROVE WithMembers(p, g) \in Group
  <2>1. CASE groups[g] = Absent
    BY <2>1 DEF WithMembers, Group
  <2>2. CASE groups[g] # Absent
    <3>1. groups[g].members \in SUBSET Users
      BY <1>1, <2>2 DEF Group
    <3> QED
      BY <2>2, <3>1 DEF WithMembers, Group
  <2> QED
    BY <2>1, <2>2
<1> QED
  BY <1>2, <1>3

\* What a request that is being answered leaves in its hands.
LEMMA ReplyHands ==
  ASSUME TypeInv, NEW r \in Requests, NEW a \in Answers, Reply(r, a)
  PROVE  /\ phase' \in [Requests -> Phases] /\ job' \in [Requests -> Job \cup {None}]
         /\ image' \in [Requests -> Group \cup {Absent}]
         /\ started' \in [Requests -> Nat]
         /\ before' \in [Requests -> Group \cup {Absent}]
         /\ answer' \in [Requests -> Answers]
         /\ read' \in [Requests -> Nat] /\ began' \in [Requests -> Nat]
         /\ phase'[r] = "done" /\ started'[r] = 0
         /\ \A q \in Requests \ {r} :
              /\ phase'[q] = phase[q] /\ job'[q] = job[q] /\ image'[q] = image[q]
              /\ before'[q] = before[q] /\ started'[q] = started[q]
<1> USE DEF TypeInv, TypeOK, Reply
<1>1. phase' \in [Requests -> Phases] /\ phase'[r] = "done"
  BY DEF Phases
<1>2. job' \in [Requests -> Job \cup {None}]
  OBVIOUS
<1>3. /\ image' \in [Requests -> Group \cup {Absent}]
      /\ before' \in [Requests -> Group \cup {Absent}]
  OBVIOUS
<1>4. started' \in [Requests -> Nat] /\ answer' \in [Requests -> Answers] /\ started'[r] = 0
  OBVIOUS
<1>5. read' \in [Requests -> Nat] /\ began' \in [Requests -> Nat]
  OBVIOUS
<1>6. \A q \in Requests \ {r} :
        /\ phase'[q] = phase[q] /\ job'[q] = job[q] /\ image'[q] = image[q]
        /\ before'[q] = before[q] /\ started'[q] = started[q]
  OBVIOUS
<1> QED
  BY <1>1, <1>2, <1>3, <1>4, <1>5, <1>6

\* The hands of everybody else survive a step of r.
LEMMA OtherHands ==
  ASSUME TypeInv, NEW r \in Requests,
         \A q \in Requests \ {r} :
           /\ phase'[q] = phase[q] /\ job'[q] = job[q] /\ image'[q] = image[q]
           /\ before'[q] = before[q],
         HandOK(r)'
  PROVE  \A q \in Requests : HandOK(q)'
<1> SUFFICES ASSUME NEW q \in Requests, q # r PROVE HandOK(q)'
  OBVIOUS
<1>1. HandOK(q)
  BY DEF TypeInv
<1>2. phase'[q] = phase[q] /\ job'[q] = job[q] /\ image'[q] = image[q] /\ before'[q] = before[q]
  OBVIOUS
<1> QED
  BY <1>1, <1>2 DEF HandOK, Active, Reading, IsPatch, Op, Id

LEMMA AppendEntry ==
  ASSUME NEW S, NEW s \in Seq(S), NEW e \in S
  PROVE  /\ Append(s, e) \in Seq(S)
         /\ DOMAIN Append(s, e) = 1..(Len(s) + 1) /\ DOMAIN s = 1..Len(s) /\ Len(s) \in Nat
         /\ Append(s, e)[Len(s) + 1] = e
         /\ \A n \in DOMAIN s : Append(s, e)[n] = s[n]
OBVIOUS

-----------------------------------------------------------------------------
(* The kinds of steps, told apart by what they do to the tables and locks. *)

Others(r) ==
  \A q \in Requests \ {r} :
    phase'[q] = phase[q] /\ job'[q] = job[q] /\ started'[q] = started[q]

\* Request r is answered, nothing is stored, at most a refusal is recorded.
Dropped(r) ==
  /\ phase'[r] = "done" /\ started'[r] = 0 /\ Others(r)
  /\ UNCHANGED <<groups, events, clock>>
  /\ \/ audit' = audit
     \/ \E e \in Entry : e.result = "denied" /\ audit' = Append(audit, e)
  /\ holder' = holder \/ Release(r)

\* Request r's transaction becomes visible.
NewEvent(r, lag) ==
  [req |-> r, type |-> EventType(r), id |-> Id(r), before |-> before[r],
   after |-> After(r), occurred |-> Occurred(r, lag)]

\* Its event is dated by a clock that is at most Skew behind or ahead.
Announces(r) ==
  \E lag \in (0 - Skew)..Skew :
    NewEvent(r, lag) \in Event /\ events' = Append(events, NewEvent(r, lag))

Published(r) ==
  /\ phase[r] = "written" /\ phase'[r] = "done" /\ started'[r] = 0 /\ Others(r)
  /\ Id(r) \in GroupIds
  /\ SuccessEntry(r) \in Entry
  /\ groups' = [groups EXCEPT ![Id(r)] = After(r)]
  /\ audit' = Append(audit, SuccessEntry(r))
  /\ Announces(r)
  /\ clock' = IF Op(r) = "delete" THEN clock + 1 ELSE clock
  /\ Release(r)

\* Request r goes on towards its commit.
Advances(r) ==
  /\ Others(r) /\ job'[r] = job[r] /\ UNCHANGED <<groups, audit, events>>
  /\ \/ /\ phase[r] \in {"reading", "reading_members"}
        /\ phase'[r] \in {"reading_members", "ready"}
        /\ UNCHANGED <<holder, clock>> /\ started'[r] = started[r]
     \/ /\ phase[r] = "ready" /\ phase'[r] = "begun"
        /\ clock' = clock + 1 /\ started'[r] = clock + 1 /\ UNCHANGED holder
     \/ /\ phase[r] = "begun" /\ phase'[r] = "begun_members"
        /\ Id(r) \in GroupIds /\ groups[Id(r)] # Absent
        /\ UNCHANGED <<holder, clock>> /\ started'[r] = started[r]
     \/ /\ phase[r] = "begun_members" /\ phase'[r] = "waiting"
        /\ UNCHANGED <<holder, clock>> /\ started'[r] = started[r]
     \/ /\ phase[r] = "begun" /\ phase'[r] = "locked" /\ Op(r) = "create"
        /\ holder' = [holder EXCEPT ![Id(r)] = r] /\ UNCHANGED clock /\ started'[r] = started[r]
     \/ /\ phase[r] = "waiting" /\ groups[Id(r)] # Absent /\ holder[Id(r)] = None
        /\ phase'[r] = IF Op(r) = "delete" THEN "written" ELSE "locked"
        /\ holder' = [holder EXCEPT ![Id(r)] = r] /\ UNCHANGED clock /\ started'[r] = started[r]
     \/ /\ phase[r] = "waiting" /\ groups[Id(r)] = Absent /\ Op(r) = "delete"
        /\ phase'[r] = "written" /\ UNCHANGED <<holder, clock>> /\ started'[r] = started[r]
     \/ /\ phase[r] = "locked" /\ phase'[r] = "written"
        /\ UNCHANGED <<holder, clock>> /\ started'[r] = started[r]

LEMMA ReleaseType ==
  ASSUME TypeInv, NEW r \in Requests, Release(r)
  PROVE  holder' \in [GroupIds -> Requests \cup {None}]
BY DEF TypeInv, TypeOK, Release

LEMMA RefuseStep ==
  ASSUME TypeInv, NEW r \in Requests, NEW a \in Answers, Active(r), Refuse(r, a)
  PROVE  TypeInv' /\ Dropped(r)
<1>1. job[r] \in Job
  BY DEF TypeInv, HandOK
<1>2. Id(r) # JunkId => Id(r) \in GroupIds
  BY <1>1, JobFields DEF Id
<1>3. AuditAction(r) \in {"create", "replace", "delete"}
  BY DEF AuditAction
<1> DEFINE e == [req |-> r, action |-> AuditAction(r), result |-> "denied",
                 id |-> IF Op(r) = "create" THEN Absent ELSE Id(r),
                 before |-> Absent, after |-> Absent, began |-> Len(audit)]
<1>4. Id(r) # JunkId => e \in Entry
  <2>1. Len(audit) \in Nat
    BY DEF TypeInv, TypeOK
  <2> QED
    BY <1>2, <1>3, <2>1 DEF Entry
<1>5. audit' = audit \/ (e \in Entry /\ e.result = "denied" /\ audit' = Append(audit, e))
  BY <1>4 DEF Refuse
<1>6. audit' \in Seq(Entry)
  <2> HIDE DEF e
  <2>1. audit \in Seq(Entry)
    BY DEF TypeInv, TypeOK
  <2> QED
    BY <1>5, <2>1, AppendEntry
<1>7. Reply(r, a) /\ UNCHANGED <<groups, events, clock>> /\ Release(r)
  BY DEF Refuse, Rollback
<1>8. TypeOK'
  <2>1. faults' \in Nat
    BY DEF Refuse, TypeInv, TypeOK
  <2> QED
    BY <1>6, <1>7, <2>1, ReleaseType, ReplyHands DEF TypeInv, TypeOK
<1>9. HandOK(r)'
  BY <1>7, ReplyHands DEF HandOK, Active, Reading
<1>10. \A q \in Requests : HandOK(q)'
  BY <1>7, <1>9, ReplyHands, OtherHands
<1>11. Dropped(r)
  <2> HIDE DEF e
  <2> QED
    BY <1>5, <1>7, ReplyHands DEF Dropped, Others
<1> QED
  BY <1>8, <1>10, <1>11 DEF TypeInv

\* An answer that stores nothing and records nothing.
LEMMA PlainReply ==
  ASSUME TypeInv, NEW r \in Requests, NEW a \in Answers, Reply(r, a),
         UNCHANGED <<groups, audit, events, clock>>, faults' \in Nat,
         holder' = holder \/ Release(r)
  PROVE  TypeInv' /\ Dropped(r)
<1>1. holder' \in [GroupIds -> Requests \cup {None}]
  BY ReleaseType DEF TypeInv, TypeOK
<1>2. TypeOK'
  BY <1>1, ReplyHands DEF TypeInv, TypeOK
<1>3. HandOK(r)'
  BY ReplyHands DEF HandOK, Active, Reading
<1>4. \A q \in Requests : HandOK(q)'
  BY <1>3, ReplyHands, OtherHands
<1> QED
  BY <1>2, <1>4, ReplyHands DEF TypeInv, Dropped, Others

LEMMA PublishStep ==
  ASSUME TypeInv, NEW r \in Requests, NEW a \in Answers, Publish(r), Reply(r, a), faults' \in Nat
  PROVE  TypeInv' /\ Published(r)
<1>1. Id(r) \in GroupIds /\ phase[r] = "written"
  BY DEF Publish, TypeInv, HandOK, Reading
<1>2. After(r) \in Group \cup {Absent}
  BY <1>1, AfterGroup
<1>3. before[r] \in Group \cup {Absent} /\ clock \in Nat /\ began[r] \in Nat
  BY DEF TypeInv, TypeOK
<1>4. SuccessEntry(r) \in Entry
  <2>1. AuditAction(r) \in {"create", "replace", "delete"}
    BY DEF AuditAction
  <2> QED
    BY <1>1, <1>2, <1>3, <2>1 DEF SuccessEntry, Entry
<1>5. Announces(r)
  <2>1. PICK lag \in (0 - Skew)..Skew : events' = Append(events, NewEvent(r, lag))
    <3>1. 0 \in (0 - Skew)..Skew
      BY SetsAssumption
    <3> QED
      BY <3>1 DEF Publish, enqueueGroupChange, NewEvent
  <2>2. EventType(r) \in {"group.created", "group.replaced", "group.deleted"}
    BY DEF EventType
  <2>3. lag \in Int
    BY SetsAssumption
  <2>4. Occurred(r, lag) \in Int
    <3>1. CASE After(r) = Absent
      BY <1>3, <2>3, <3>1 DEF Occurred
    <3>2. CASE After(r) # Absent
      BY <1>2, <3>2 DEF Occurred, Group
    <3> QED
      BY <3>1, <3>2
  <2>5. NewEvent(r, lag) \in Event
    BY <1>1, <1>2, <1>3, <2>2, <2>4 DEF NewEvent, Event
  <2> QED
    BY <2>1, <2>5 DEF Announces
<1>6. /\ audit' = Append(audit, SuccessEntry(r))
      /\ groups' = [groups EXCEPT ![Id(r)] = After(r)] /\ Release(r)
      /\ clock' = IF Op(r) = "delete" THEN clock + 1 ELSE clock
  BY DEF Publish
<1>7. audit' \in Seq(Entry) /\ events' \in Seq(Event)
  <2>1. audit' \in Seq(Entry)
    BY <1>4, <1>6, AppendEntry DEF TypeInv, TypeOK
  <2>2. PICK e \in Event : events' = Append(events, e)
    BY <1>5 DEF Announces
  <2> QED
    BY <2>1, <2>2, AppendEntry DEF TypeInv, TypeOK
<1>8. groups' \in [GroupIds -> Group \cup {Absent}]
  BY <1>1, <1>2, <1>6 DEF TypeInv, TypeOK
<1>9. clock' \in Nat
  BY <1>3, <1>6
<1>10. TypeOK'
  BY <1>6, <1>7, <1>8, <1>9, ReleaseType, ReplyHands DEF TypeOK
<1>11. HandOK(r)'
  BY ReplyHands DEF HandOK, Active, Reading
<1>12. \A q \in Requests : HandOK(q)'
  BY <1>11, ReplyHands, OtherHands
<1>13. Published(r)
  BY <1>1, <1>4, <1>5, <1>6, ReplyHands DEF Published, Others
<1> QED
  BY <1>10, <1>12, <1>13 DEF TypeInv

-----------------------------------------------------------------------------
(* Type correctness. *)

LEMMA ElementOf ==
  ASSUME NEW S, NEW s \in Seq(S), NEW n \in DOMAIN s
  PROVE  s[n] \in S
OBVIOUS

LEMMA SeedGroup == \A n \in DOMAIN Seeds : Seed(n) \in Group /\ Seeds[n].id \in GroupIds
<1> SUFFICES ASSUME NEW n \in DOMAIN Seeds
             PROVE  Seed(n) \in Group /\ Seeds[n].id \in GroupIds
  OBVIOUS
<1>1. Seeds[n] \in [id : GroupIds, name : Names, members : SUBSET Users]
  BY SeedsAssumption, ElementOf
<1>2. Seeds[n].id \in GroupIds /\ Seeds[n].name \in Names /\ Seeds[n].members \in SUBSET Users
  BY <1>1
<1> QED
  BY <1>2 DEF Seed, Group

LEMMA TypeInvInit == Init => TypeInv
<1> SUFFICES ASSUME Init PROVE TypeInv
  OBVIOUS
<1>1. groups \in [GroupIds -> Group \cup {Absent}]
  <2> SUFFICES ASSUME NEW g \in GroupIds, \E n \in DOMAIN Seeds : Seeds[n].id = g
               PROVE  Seed(CHOOSE n \in DOMAIN Seeds : Seeds[n].id = g) \in Group
    BY DEF Init
  <2> QED
    BY SeedGroup
<1>2. DOMAIN Seeds = 1..Len(Seeds) /\ Len(Seeds) \in Nat
  BY SeedsAssumption
<1>3. audit \in Seq(Entry)
  <2>1. \A n \in DOMAIN Seeds :
          [req |-> None, action |-> "create", result |-> "success", id |-> Seeds[n].id,
           before |-> Absent, after |-> Seed(n), began |-> 0] \in Entry
    BY SeedGroup DEF Entry
  <2> QED
    BY <1>2, <2>1 DEF Init
<1>4. events \in Seq(Event)
  <2>1. \A n \in DOMAIN Seeds :
          [req |-> None, type |-> "group.created", id |-> Seeds[n].id,
           before |-> Absent, after |-> Seed(n), occurred |-> 0] \in Event
    BY SeedGroup DEF Event
  <2> QED
    BY <1>2, <2>1 DEF Init
<1>5. TypeOK
  BY <1>1, <1>3, <1>4 DEF Init, TypeOK, Phases, Answers
<1>6. \A r \in Requests : HandOK(r)
  BY DEF Init, HandOK, Active, Reading
<1> QED
  BY <1>5, <1>6 DEF TypeInv

\* Every step is one request's arrival, advance, answer without effect, or commit.
Kind == \/ UNCHANGED vars
        \/ \E r \in Requests : Arrive(r) \/ Dropped(r) \/ Advances(r) \/ Published(r)

LEMMA StepKinds == TypeInv /\ [Next]_vars => TypeInv' /\ Kind
<1> SUFFICES ASSUME TypeInv, [Next]_vars PROVE TypeInv' /\ Kind
  OBVIOUS
<1> USE DEF db, reqs, hist
<1>1. ASSUME NEW r \in Requests, Arrive(r) PROVE TypeInv'
  <2>1. PICK j \in Job :
          /\ job' = [job EXCEPT ![r] = j]
          /\ phase' = [phase EXCEPT ![r] = IF j.op \in PatchOps THEN "reading" ELSE "ready"]
    BY <1>1 DEF Arrive
  <2>2. phase[r] = "new" /\ UNCHANGED <<db, image, started, before, answer, hist, faults>>
    BY <1>1 DEF Arrive
  <2>3. TypeOK'
    BY <2>1, <2>2 DEF TypeInv, TypeOK, Phases
  <2>4. job'[r] = j /\ phase'[r] = (IF j.op \in PatchOps THEN "reading" ELSE "ready")
    BY <2>1 DEF TypeInv, TypeOK
  <2>5. before[r] = Absent
    BY <2>2 DEF TypeInv, HandOK
  <2>6. HandOK(r)'
    BY <2>2, <2>4, <2>5 DEF HandOK, Active, Reading, IsPatch, Op
  <2>7. \A q \in Requests : HandOK(q)'
    BY <2>1, <2>2, <2>6, OtherHands DEF TypeInv, TypeOK
  <2> QED
    BY <2>3, <2>7 DEF TypeInv
<1>2. ASSUME NEW r \in Requests, BadRequest(r) PROVE TypeInv' /\ Dropped(r)
  BY <1>2, PlainReply DEF BadRequest, Answers, TypeInv, TypeOK
<1>3. ASSUME NEW r \in Requests, GetGroupRow(r) PROVE TypeInv' /\ (Dropped(r) \/ Advances(r))
  <2>1. CASE ~Exists(Id(r))
    BY <1>3, <2>1, PlainReply DEF GetGroupRow, Answers, TypeInv, TypeOK
  <2>2. CASE Exists(Id(r))
    <3>1. RowOf(Id(r)) \in Group /\ Id(r) \in GroupIds
      BY <2>2, PartialGroup DEF Exists
    <3>2. /\ phase[r] = "reading" /\ UNCHANGED <<db, job, started, before, answer, began, faults>>
          /\ read' = [read EXCEPT ![r] = Len(audit)]
          /\ image' = [image EXCEPT ![r] = RowOf(Id(r))]
          /\ phase' = [phase EXCEPT ![r] = "reading_members"]
      BY <1>3, <2>2 DEF GetGroupRow
    <3>3. TypeOK'
      BY <3>1, <3>2 DEF TypeInv, TypeOK, Phases
    <3>4. image'[r] \in Group /\ phase'[r] = "reading_members"
      BY <3>1, <3>2 DEF TypeInv, TypeOK
    <3>5. HandOK(r)'
      BY <3>1, <3>2, <3>4 DEF TypeInv, HandOK, Active, Reading, IsPatch, Op, Id
    <3>6. \A q \in Requests : HandOK(q)'
      BY <3>2, <3>5, OtherHands DEF TypeInv, TypeOK
    <3>7. Advances(r)
      BY <3>2, <3>4 DEF Advances, Others, TypeInv, TypeOK
    <3> QED
      BY <3>3, <3>6, <3>7 DEF TypeInv
  <2> QED
    BY <2>1, <2>2
<1>4. ASSUME NEW r \in Requests, GetGroupMembers(r) PROVE TypeInv' /\ Advances(r)
  <2>1. /\ phase[r] = "reading_members"
        /\ UNCHANGED <<db, job, started, before, answer, hist, faults>>
        /\ image' = [image EXCEPT ![r] = WithMembers(image[r], Id(r))]
        /\ phase' = [phase EXCEPT ![r] = "ready"]
    BY <1>4 DEF GetGroupMembers
  <2>2. image[r] \in Group /\ Id(r) \in GroupIds
    BY <2>1 DEF TypeInv, HandOK, Active
  <2>3. WithMembers(image[r], Id(r)) \in Group
    BY <2>2, PartialGroup
  <2>4. TypeOK'
    BY <2>1, <2>3 DEF TypeInv, TypeOK, Phases
  <2>5. image'[r] \in Group /\ phase'[r] = "ready"
    BY <2>1, <2>3 DEF TypeInv, TypeOK
  <2>6. HandOK(r)'
    BY <2>1, <2>5 DEF TypeInv, HandOK, Active, Reading, IsPatch, Op, Id
  <2>7. \A q \in Requests : HandOK(q)'
    BY <2>1, <2>6, OtherHands DEF TypeInv, TypeOK
  <2>8. Advances(r)
    BY <2>1, <2>5 DEF Advances, Others, TypeInv, TypeOK
  <2> QED
    BY <2>4, <2>7, <2>8 DEF TypeInv
<1>5. ASSUME NEW r \in Requests, Begin(r) PROVE TypeInv' /\ Advances(r)
  <2>1. TypeOK'
    BY <1>5 DEF Begin, TypeInv, TypeOK, Phases
  <2>2. /\ phase[r] = "ready" /\ phase'[r] = "begun" /\ UNCHANGED <<groups, job, image, before>>
        /\ started'[r] = clock + 1
    BY <1>5 DEF Begin, TypeInv, TypeOK
  <2>3. HandOK(r)'
    BY <2>2 DEF TypeInv, HandOK, Active, Reading, IsPatch, Op
  <2>4. \A q \in Requests : HandOK(q)'
    BY <1>5, <2>2, <2>3, OtherHands DEF Begin, TypeInv, TypeOK
  <2>5. Advances(r)
    BY <1>5, <2>2 DEF Begin, Advances, Others, TypeInv, TypeOK
  <2> QED
    BY <2>1, <2>4, <2>5 DEF TypeInv
<1>6. ASSUME NEW r \in Requests, InsertRow(r) PROVE TypeInv' /\ Advances(r)
  <2>1. job[r] \in Job /\ Id(r) \in GroupIds /\ Op(r) = "create"
    BY <1>6, JobFields DEF InsertRow, Active, TypeInv, HandOK, Op, Id
  <2>2. TypeOK'
    BY <1>6, <2>1 DEF InsertRow, TypeInv, TypeOK, Phases
  <2>3. phase[r] = "begun" /\ phase'[r] = "locked" /\ UNCHANGED <<groups, job, image, before>>
    BY <1>6 DEF InsertRow, TypeInv, TypeOK
  <2>4. HandOK(r)'
    BY <2>1, <2>3 DEF TypeInv, HandOK, Active, Reading, IsPatch, Op, Id
  <2>5. \A q \in Requests : HandOK(q)'
    BY <1>6, <2>3, <2>4, OtherHands DEF InsertRow, TypeInv, TypeOK
  <2>6. Advances(r)
    BY <1>6, <2>3 DEF InsertRow, Advances, Others, TypeInv, TypeOK
  <2> QED
    BY <2>2, <2>5, <2>6 DEF TypeInv
<1>7. ASSUME NEW r \in Requests, ReadBeforeRow(r) PROVE TypeInv' /\ (Dropped(r) \/ Advances(r))
  <2>1. CASE ~Exists(Id(r))
    BY <1>7, <2>1, RefuseStep DEF ReadBeforeRow, Answers, Active
  <2>2. CASE Exists(Id(r))
    <3>1. RowOf(Id(r)) \in Group /\ Id(r) \in GroupIds /\ groups[Id(r)] # Absent
      BY <2>2, PartialGroup DEF Exists
    <3>2. /\ phase[r] = "begun" /\ UNCHANGED <<db, job, image, started, answer, hist, faults>>
          /\ before' = [before EXCEPT ![r] = RowOf(Id(r))]
          /\ phase' = [phase EXCEPT ![r] = "begun_members"] /\ Op(r) # "create"
      BY <1>7, <2>2 DEF ReadBeforeRow
    <3>3. TypeOK'
      BY <3>1, <3>2 DEF TypeInv, TypeOK, Phases
    <3>4. before'[r] \in Group /\ phase'[r] = "begun_members"
      BY <3>1, <3>2 DEF TypeInv, TypeOK
    <3>5. HandOK(r)'
      BY <3>1, <3>2, <3>4 DEF TypeInv, HandOK, Active, Reading, IsPatch, Op, Id
    <3>6. \A q \in Requests : HandOK(q)'
      BY <3>2, <3>5, OtherHands DEF TypeInv, TypeOK
    <3>7. Advances(r)
      BY <3>1, <3>2, <3>4 DEF Advances, Others, TypeInv, TypeOK
    <3> QED
      BY <3>3, <3>6, <3>7 DEF TypeInv
  <2> QED
    BY <2>1, <2>2
<1>8. ASSUME NEW r \in Requests, ReadBeforeMembers(r) PROVE TypeInv' /\ Advances(r)
  <2>1. /\ phase[r] = "begun_members" /\ UNCHANGED <<db, job, image, started, answer, hist, faults>>
        /\ before' = [before EXCEPT ![r] = WithMembers(before[r], Id(r))]
        /\ phase' = [phase EXCEPT ![r] = "waiting"]
    BY <1>8 DEF ReadBeforeMembers
  <2>2. before[r] \in Group /\ Id(r) \in GroupIds /\ Op(r) # "create"
    BY <2>1 DEF TypeInv, HandOK, Reading
  <2>3. WithMembers(before[r], Id(r)) \in Group
    BY <2>2, PartialGroup
  <2>4. TypeOK'
    BY <2>1, <2>3 DEF TypeInv, TypeOK, Phases
  <2>5. before'[r] \in Group /\ phase'[r] = "waiting"
    BY <2>1, <2>3 DEF TypeInv, TypeOK
  <2>6. HandOK(r)'
    BY <2>1, <2>2, <2>5 DEF TypeInv, HandOK, Active, Reading, IsPatch, Op, Id
  <2>7. \A q \in Requests : HandOK(q)'
    BY <2>1, <2>6, OtherHands DEF TypeInv, TypeOK
  <2>8. Advances(r)
    BY <2>1, <2>5 DEF Advances, Others, TypeInv, TypeOK
  <2> QED
    BY <2>4, <2>7, <2>8 DEF TypeInv
<1>9. ASSUME NEW r \in Requests, LockRow(r) PROVE TypeInv' /\ Advances(r)
  <2>1. Id(r) \in GroupIds /\ phase[r] = "waiting" /\ groups[Id(r)] # Absent
    BY <1>9 DEF LockRow, Exists
  <2>2. TypeOK'
    BY <1>9, <2>1 DEF LockRow, TypeInv, TypeOK, Phases
  <2>3. /\ phase'[r] = (IF Op(r) = "delete" THEN "written" ELSE "locked")
        /\ UNCHANGED <<groups, job, image, before>>
    BY <1>9 DEF LockRow, TypeInv, TypeOK
  <2>4. HandOK(r)'
    BY <2>1, <2>3 DEF TypeInv, HandOK, Active, Reading, IsPatch, Op, Id
  <2>5. \A q \in Requests : HandOK(q)'
    BY <1>9, <2>3, <2>4, OtherHands DEF LockRow, TypeInv, TypeOK
  <2>6. Advances(r)
    BY <1>9, <2>1, <2>3 DEF LockRow, Advances, Others, TypeInv, TypeOK
  <2> QED
    BY <2>2, <2>5, <2>6 DEF TypeInv
<1>10. ASSUME NEW r \in Requests, RowGone(r) PROVE TypeInv' /\ (Dropped(r) \/ Advances(r))
  <2>1. CASE Op(r) # "delete"
    BY <1>10, <2>1, PlainReply DEF RowGone, Rollback, Answers, TypeInv, TypeOK
  <2>2. CASE Op(r) = "delete"
    <3>1. /\ phase[r] = "waiting" /\ ~Exists(Id(r))
          /\ UNCHANGED <<db, job, image, started, before, answer, hist, faults>>
          /\ phase' = [phase EXCEPT ![r] = "written"]
      BY <1>10, <2>2 DEF RowGone
    <3>2. groups[Id(r)] = Absent
      BY <3>1 DEF Exists, TypeInv, HandOK, Reading
    <3>3. TypeOK'
      BY <3>1 DEF TypeInv, TypeOK, Phases
    <3>4. phase'[r] = "written"
      BY <3>1 DEF TypeInv, TypeOK
    <3>5. HandOK(r)'
      BY <3>1, <3>4 DEF TypeInv, HandOK, Active, Reading, IsPatch, Op, Id
    <3>6. \A q \in Requests : HandOK(q)'
      BY <3>1, <3>5, OtherHands DEF TypeInv, TypeOK
    <3>7. Advances(r)
      BY <2>2, <3>1, <3>2, <3>4 DEF Advances, Others, TypeInv, TypeOK
    <3> QED
      BY <3>3, <3>6, <3>7 DEF TypeInv
  <2> QED
    BY <2>1, <2>2
<1>11. ASSUME NEW r \in Requests, CheckName(r) PROVE TypeInv' /\ (Dropped(r) \/ Advances(r))
  <2>1. CASE TakesName(r) /\ NameTaken(r)
    BY <1>11, <2>1, RefuseStep DEF CheckName, Answers, Active
  <2>2. CASE ~(TakesName(r) /\ NameTaken(r))
    <3>1. /\ phase[r] = "locked" /\ UNCHANGED <<db, job, image, started, before, answer, hist, faults>>
          /\ phase' = [phase EXCEPT ![r] = "written"]
      BY <1>11, <2>2 DEF CheckName
    <3>2. TypeOK'
      BY <3>1 DEF TypeInv, TypeOK, Phases
    <3>3. phase'[r] = "written"
      BY <3>1 DEF TypeInv, TypeOK
    <3>4. HandOK(r)'
      BY <3>1, <3>3 DEF TypeInv, HandOK, Active, Reading, IsPatch, Op, Id
    <3>5. \A q \in Requests : HandOK(q)'
      BY <3>1, <3>4, OtherHands DEF TypeInv, TypeOK
    <3>6. Advances(r)
      BY <3>1, <3>3 DEF Advances, Others, TypeInv, TypeOK
    <3> QED
      BY <3>2, <3>5, <3>6 DEF TypeInv
  <2> QED
    BY <2>1, <2>2
<1>12. ASSUME NEW r \in Requests, RefuseMembers(r) PROVE TypeInv' /\ Dropped(r)
  BY <1>12, RefuseStep DEF RefuseMembers, Answers, Active
<1>13. ASSUME NEW r \in Requests, Commit(r) \/ CommitAnswerLost(r) PROVE TypeInv' /\ Published(r)
  <2>1. Publish(r) /\ faults' \in Nat /\ \E a \in Answers : Reply(r, a)
    BY <1>13 DEF Commit, CommitAnswerLost, Answers, TypeInv, TypeOK
  <2> QED
    BY <2>1, PublishStep
<1>14. ASSUME NEW r \in Requests, Fail(r) PROVE TypeInv' /\ Dropped(r)
  <2>1. faults' \in Nat
    BY <1>14 DEF Fail, TypeInv, TypeOK
  <2> QED
    BY <1>14, <2>1, PlainReply DEF Fail, Rollback, Answers
<1>15. ASSUME NEW r \in Requests, DeadlockAbort(r) \/ ExternalIdClash(r) PROVE TypeInv' /\ Dropped(r)
  BY <1>15, PlainReply DEF DeadlockAbort, ExternalIdClash, Rollback, Answers, TypeInv, TypeOK
<1>16. CASE UNCHANGED vars
  <2>1. TypeOK'
    BY <1>16 DEF vars, TypeInv, TypeOK
  <2>2. \A q \in Requests : HandOK(q)'
    BY <1>16 DEF vars, TypeInv, HandOK, Active, Reading, IsPatch, Op, Id
  <2> QED
    BY <1>16, <2>1, <2>2 DEF TypeInv, Kind
<1> QED
  BY <1>1, <1>2, <1>3, <1>4, <1>5, <1>6, <1>7, <1>8, <1>9, <1>10, <1>11, <1>12, <1>13, <1>14,
     <1>15, <1>16 DEF Next, Step, Kind

\* Type correctness: requests that interleave and fail in any order put only
\* well-formed groups, entries and events in the tables, and no member that is
\* not a user of the tenant.
THEOREM TypeCorrect == Spec => []TypeOK
<1>1. TypeInv => TypeOK
  BY DEF TypeInv
<1> QED
  BY <1>1, TypeInvInit, StepKinds, PTL DEF Spec

-----------------------------------------------------------------------------
(* The trail and the tables. *)

\* What the trail says of group g: nothing ever stored, or its newest
\* successful entry holds what is stored.
Agrees(g) ==
  \/ groups[g] = Absent /\ \A n \in DOMAIN audit : ~Success(n, g)
  \/ \E n \in DOMAIN audit :
       /\ Success(n, g) /\ audit[n].after = groups[g]
       /\ \A m \in DOMAIN audit : Success(m, g) => m <= n

LEMMA TrailInit == Init => TrailMatchesGroups
<1> SUFFICES ASSUME Init, NEW g \in GroupIds PROVE Agrees(g)
  BY DEF TrailMatchesGroups, Agrees
<1>1. DOMAIN audit = DOMAIN Seeds /\ DOMAIN Seeds = 1..Len(Seeds) /\ Len(Seeds) \in Nat
  BY SeedsAssumption DEF Init
<1>2. \A n \in DOMAIN Seeds :
        /\ audit[n].result = "success" /\ audit[n].id = Seeds[n].id /\ audit[n].after = Seed(n)
  BY DEF Init
<1>3. CASE \E n \in DOMAIN Seeds : Seeds[n].id = g
  <2> DEFINE k == CHOOSE n \in DOMAIN Seeds : Seeds[n].id = g
  <2>1. k \in DOMAIN Seeds /\ Seeds[k].id = g
    BY <1>3
  <2>2. groups[g] = Seed(k)
    BY <1>3 DEF Init
  <2> HIDE DEF k
  <2>3. Success(k, g) /\ audit[k].after = groups[g]
    BY <1>2, <2>1, <2>2 DEF Success
  <2>4. \A m \in DOMAIN audit : Success(m, g) => m = k
    BY <1>1, <1>2, <2>1, SeedsAssumption DEF Success
  <2> QED
    BY <1>1, <2>1, <2>3, <2>4 DEF Agrees
<1>4. CASE ~\E n \in DOMAIN Seeds : Seeds[n].id = g
  BY <1>1, <1>2, <1>4 DEF Init, Success, Agrees
<1> QED
  BY <1>3, <1>4

\* What an appended entry does to the entries there are.
LEMMA AppendedTrail ==
  ASSUME TypeInv, NEW e \in Entry, audit' = Append(audit, e)
  PROVE  /\ Len(audit) \in Nat /\ DOMAIN audit = 1..Len(audit)
         /\ DOMAIN audit' = 1..(Len(audit) + 1)
         /\ audit'[Len(audit) + 1] = e
         /\ \A n \in DOMAIN audit : audit'[n] = audit[n]
BY AppendEntry DEF TypeInv, TypeOK

\* An entry about something else leaves what the trail says of a group.
LEMMA AgreesStill ==
  ASSUME TypeInv, NEW g \in GroupIds, Agrees(g), groups'[g] = groups[g],
         \/ audit' = audit
         \/ \E e \in Entry : audit' = Append(audit, e) /\ (e.result = "denied" \/ e.id # g)
  PROVE  Agrees(g)'
<1>1. CASE audit' = audit
  BY <1>1 DEF Agrees, Success
<1>2. CASE audit' # audit
  <2>1. PICK e \in Entry : audit' = Append(audit, e) /\ (e.result = "denied" \/ e.id # g)
    BY <1>2
  <2>2. ~(audit'[Len(audit) + 1].result = "success" /\ audit'[Len(audit) + 1].id = g)
    BY <2>1, AppendedTrail
  <2>3. CASE groups[g] = Absent /\ \A n \in DOMAIN audit : ~Success(n, g)
    BY <2>1, <2>2, <2>3, AppendedTrail DEF Success, Agrees
  <2>4. CASE \E n \in DOMAIN audit :
               /\ Success(n, g) /\ audit[n].after = groups[g]
               /\ \A m \in DOMAIN audit : Success(m, g) => m <= n
    BY <2>1, <2>2, <2>4, AppendedTrail DEF Success, Agrees
  <2> QED
    BY <2>3, <2>4 DEF Agrees
<1> QED
  BY <1>1, <1>2

LEMMA TrailStep ==
  ASSUME TypeInv, TrailMatchesGroups, Kind
  PROVE  TrailMatchesGroups'
<1> SUFFICES ASSUME NEW g \in GroupIds PROVE Agrees(g)'
  BY DEF TrailMatchesGroups, Agrees
<1>1. Agrees(g)
  BY DEF TrailMatchesGroups, Agrees
<1>2. CASE UNCHANGED vars
  BY <1>1, <1>2, AgreesStill DEF vars, db
<1>3. ASSUME NEW r \in Requests, Arrive(r) \/ Dropped(r) \/ Advances(r) PROVE Agrees(g)'
  BY <1>1, <1>3, AgreesStill DEF Arrive, Dropped, Advances, db
<1>4. ASSUME NEW r \in Requests, Published(r) PROVE Agrees(g)'
  <2>1. /\ Id(r) \in GroupIds /\ SuccessEntry(r) \in Entry
        /\ audit' = Append(audit, SuccessEntry(r))
        /\ groups' = [groups EXCEPT ![Id(r)] = After(r)]
    BY <1>4 DEF Published
  <2>2. /\ SuccessEntry(r).result = "success" /\ SuccessEntry(r).id = Id(r)
        /\ SuccessEntry(r).after = After(r)
    BY DEF SuccessEntry
  <2>3. CASE g = Id(r)
    <3>1. groups'[g] = After(r)
      BY <2>1, <2>3 DEF TypeInv, TypeOK
    <3>2. audit'[Len(audit) + 1] = SuccessEntry(r)
      BY <2>1, AppendedTrail
    <3> QED
      BY <2>1, <2>2, <2>3, <3>1, <3>2, AppendedTrail DEF Success, Agrees
  <2>4. CASE g # Id(r)
    BY <1>1, <2>1, <2>2, <2>4, AgreesStill DEF TypeInv, TypeOK
  <2> QED
    BY <2>3, <2>4
<1> QED
  BY <1>2, <1>3, <1>4 DEF Kind

\* The newest successful audit entry of a group always holds the name and the
\* members that are stored, or none for a deleted group, whatever requests
\* overlap, fail or lose their answer.
THEOREM TrailNeverParts == Spec => []TrailMatchesGroups
<1>1. TypeInv /\ TrailMatchesGroups /\ [Next]_vars => (TypeInv /\ TrailMatchesGroups)'
  BY StepKinds, TrailStep
<1> QED
  BY <1>1, TypeInvInit, TrailInit, PTL DEF Spec

-----------------------------------------------------------------------------
(* Row locks: why a group that was deleted does not come back. *)

Known(g) == \E n \in DOMAIN audit : Success(n, g)

\* The id of a create in progress has never been stored, and is its own; who
\* updates or deletes a group has seen it; who updates it holds its row, which
\* is there; who deletes it holds its row unless it is gone already.
Fresh(r)   == Active(r) /\ Op(r) = "create" => ~Known(Id(r))
Apart(q, r) ==
  q # r /\ Active(q) /\ Active(r) /\ Op(q) = "create" /\ Op(r) = "create" => Id(q) # Id(r)
Seen(r)    == Reading(r) /\ Op(r) # "create" => Known(Id(r))
Holds(r)   ==
  phase[r] \in {"locked", "written"} /\ Op(r) \notin {"create", "delete"} =>
    holder[Id(r)] = r /\ groups[Id(r)] # Absent
Removes(r) ==
  phase[r] = "written" /\ Op(r) = "delete" => holder[Id(r)] = r \/ groups[Id(r)] = Absent

Guarded ==
  /\ \A r \in Requests : Fresh(r) /\ Seen(r) /\ Holds(r) /\ Removes(r)
  /\ \A q, r \in Requests : Apart(q, r)

LEMMA KnownStep ==
  ASSUME TypeInv, NEW g,
         \/ audit' = audit
         \/ \E e \in Entry : audit' = Append(audit, e)
  PROVE  /\ Known(g) => Known(g)'
         /\ (\/ audit' = audit
             \/ \E e \in Entry :
                  audit' = Append(audit, e) /\ (e.result = "denied" \/ e.id # g))
              => (Known(g)' => Known(g))
<1>1. CASE audit' = audit
  BY <1>1 DEF Known, Success
<1>2. ASSUME NEW e \in Entry, audit' = Append(audit, e) PROVE Known(g) => Known(g)'
  BY <1>2, AppendedTrail DEF Known, Success
<1>3. ASSUME NEW e \in Entry, audit' = Append(audit, e), e.result = "denied" \/ e.id # g
      PROVE  Known(g)' => Known(g)
  <2>1. audit'[Len(audit) + 1] = e
    BY <1>3, AppendedTrail
  <2> QED
    BY <1>3, <2>1, AppendedTrail DEF Known, Success
<1> QED
  BY <1>1, <1>2, <1>3

LEMMA GuardedInit == Init => Guarded
BY DEF Init, Guarded, Fresh, Apart, Seen, Holds, Removes, Active, Reading

LEMMA GuardedArrive ==
  ASSUME TypeInv, Guarded, NEW r \in Requests, Arrive(r)
  PROVE  Guarded'
<1> USE DEF db
<1>1. PICK j \in Job :
        /\ j.op = "create" => /\ \A n \in DOMAIN audit : audit[n].id # j.id
                              /\ \A q \in Requests : Active(q) => Id(q) # j.id
        /\ job' = [job EXCEPT ![r] = j]
        /\ phase' = [phase EXCEPT ![r] = IF j.op \in PatchOps THEN "reading" ELSE "ready"]
  BY DEF Arrive
<1>2. job'[r] = j /\ phase'[r] \in {"reading", "ready"} /\ UNCHANGED <<groups, audit, holder>>
  BY <1>1 DEF Arrive, TypeInv, TypeOK
<1>3. \A q \in Requests \ {r} : phase'[q] = phase[q] /\ job'[q] = job[q]
  BY <1>1 DEF TypeInv, TypeOK
<1>4. ASSUME NEW q \in Requests PROVE Fresh(q)' /\ Seen(q)' /\ Holds(q)' /\ Removes(q)'
  <2>1. CASE q = r
    BY <1>1, <1>2, <2>1
       DEF Fresh, Seen, Holds, Removes, Active, Reading, Known, Success, Op, Id
  <2>2. CASE q # r
    BY <1>2, <1>3, <2>2
       DEF Guarded, Fresh, Seen, Holds, Removes, Active, Reading, Known, Success, Op, Id
  <2> QED
    BY <2>1, <2>2
<1>5. ASSUME NEW p \in Requests, NEW q \in Requests PROVE Apart(p, q)'
  BY <1>1, <1>2, <1>3 DEF Guarded, Apart, Active, Op, Id
<1> QED
  BY <1>4, <1>5 DEF Guarded

LEMMA GuardedDropped ==
  ASSUME TypeInv, Guarded, NEW r \in Requests, Dropped(r)
  PROVE  Guarded'
<1>1. phase'[r] = "done" /\ UNCHANGED groups
  BY DEF Dropped
<1>2. \A q \in Requests \ {r} : phase'[q] = phase[q] /\ job'[q] = job[q]
  BY DEF Dropped, Others
<1>3. \A g : Known(g)' <=> Known(g)
  BY KnownStep DEF Dropped
<1>4. \A g \in GroupIds : holder[g] # r => holder'[g] = holder[g]
  BY DEF Dropped, Release
<1>5. ASSUME NEW q \in Requests PROVE Fresh(q)' /\ Seen(q)' /\ Holds(q)' /\ Removes(q)'
  <2>1. CASE q = r
    BY <1>1, <2>1 DEF Fresh, Seen, Holds, Removes, Active, Reading
  <2>2. CASE q # r
    <3>1. phase'[q] = phase[q] /\ job'[q] = job[q]
      BY <1>2, <2>2
    <3>2. Fresh(q)' /\ Seen(q)'
      BY <1>3, <3>1 DEF Guarded, Fresh, Seen, Active, Reading, Op, Id
    <3>3. Reading(q) => Id(q) \in GroupIds
      BY DEF TypeInv, HandOK
    <3> QED
      BY <1>1, <1>4, <2>2, <3>1, <3>2, <3>3 DEF Guarded, Holds, Removes, Reading, Op, Id
  <2> QED
    BY <2>1, <2>2
<1>6. ASSUME NEW p \in Requests, NEW q \in Requests PROVE Apart(p, q)'
  BY <1>1, <1>2 DEF Guarded, Apart, Active, Op, Id
<1> QED
  BY <1>5, <1>6 DEF Guarded

LEMMA GuardedAdvances ==
  ASSUME TypeInv, TrailMatchesGroups, Guarded, NEW r \in Requests, Advances(r)
  PROVE  Guarded'
<1>1. UNCHANGED <<groups, audit>> /\ job'[r] = job[r]
  BY DEF Advances
<1>2. \A q \in Requests \ {r} : phase'[q] = phase[q] /\ job'[q] = job[q]
  BY DEF Advances, Others
<1>3. \A g : Known(g)' <=> Known(g)
  BY <1>1 DEF Known, Success
<1>4. Active(r) /\ Active(r)'
  BY DEF Advances, Active
<1>5. job[r] \in Job /\ (Reading(r) => Id(r) \in GroupIds) /\ (Op(r) = "create" => Id(r) \in GroupIds)
  BY <1>4, JobFields DEF TypeInv, HandOK, Op, Id
<1>6. Fresh(r)' /\ Seen(r)'
  <2>1. Fresh(r)'
    BY <1>1, <1>3, <1>4 DEF Guarded, Fresh, Op, Id
  <2>2. CASE Reading(r)
    BY <1>1, <1>3, <2>1, <2>2 DEF Guarded, Seen, Op, Id, Reading
  <2>3. CASE phase[r] = "begun" /\ phase'[r] = "begun_members"
    <3>1. Id(r) \in GroupIds /\ groups[Id(r)] # Absent
      BY <2>3 DEF Advances
    <3>2. Known(Id(r))
      BY <3>1 DEF TrailMatchesGroups, Known
    <3> QED
      BY <1>1, <1>3, <2>1, <3>2 DEF Seen, Op, Id, Reading
  <2>4. CASE ~Reading(r)' \/ Op(r) = "create"
    BY <1>1, <2>1, <2>4 DEF Seen, Op, Id, Reading
  <2> QED
    BY <2>1, <2>2, <2>3, <2>4 DEF Advances, Reading
<1>7. \A q \in Requests \ {r} : Fresh(q)' /\ Seen(q)'
  BY <1>2, <1>3 DEF Guarded, Fresh, Seen, Active, Reading, Op, Id
<1>8. \A p, q \in Requests : Apart(p, q)'
  BY <1>1, <1>2, <1>4 DEF Guarded, Apart, Active, Op, Id
<1>9. Holds(r)' /\ Removes(r)'
  <2>1. CASE phase[r] = "locked"
    BY <1>1, <2>1 DEF Advances, TypeInv, HandOK, Guarded, Holds, Removes, Op, Id
  <2>2. CASE phase[r] = "waiting"
    <3>1. Id(r) \in GroupIds
      BY <1>5, <2>2 DEF Reading
    <3>2. CASE groups[Id(r)] # Absent
      <4>1. holder'[Id(r)] = r
        BY <2>2, <3>1, <3>2 DEF Advances, TypeInv, TypeOK
      <4> QED
        BY <1>1, <3>2, <4>1 DEF Holds, Removes, Op, Id
    <3>3. CASE groups[Id(r)] = Absent
      BY <1>1, <2>2, <3>3 DEF Advances, Holds, Removes, Op, Id
    <3> QED
      BY <3>2, <3>3
  <2>3. CASE phase'[r] = "locked" /\ Op(r) = "create"
    BY <1>1, <2>3 DEF Holds, Removes, Op
  <2>4. CASE phase'[r] \notin {"locked", "written"}
    BY <2>4 DEF Holds, Removes
  <2> QED
    BY <2>1, <2>2, <2>3, <2>4 DEF Advances
<1>10. ASSUME NEW q \in Requests, q # r PROVE Holds(q)' /\ Removes(q)'
  <2>1. phase'[q] = phase[q] /\ job'[q] = job[q] /\ (Reading(q) => Id(q) \in GroupIds)
    BY <1>2, <1>10 DEF TypeInv, HandOK
  <2>2. CASE holder' = holder
    BY <1>1, <2>1, <2>2 DEF Guarded, Holds, Removes, Op, Id
  <2>3. CASE phase[r] = "begun" /\ Op(r) = "create" /\ holder' = [holder EXCEPT ![Id(r)] = r]
    <3>1. ~Known(Id(r))
      BY <1>4, <2>3 DEF Guarded, Fresh
    <3>2. Reading(q) /\ Op(q) # "create" => Id(q) # Id(r)
      BY <3>1 DEF Guarded, Seen
    <3>3. Reading(q) /\ Op(q) # "create" => holder'[Id(q)] = holder[Id(q)]
      BY <2>1, <2>3, <3>2 DEF TypeInv, TypeOK
    <3> QED
      BY <1>1, <2>1, <3>3 DEF Guarded, Holds, Removes, Reading, Op, Id
  <2>4. CASE holder[Id(r)] = None /\ groups[Id(r)] # Absent /\ holder' = [holder EXCEPT ![Id(r)] = r]
    <3>1. q # None
      BY SetsAssumption
    <3>2. CASE Reading(q) /\ Id(q) = Id(r)
      BY <1>1, <2>1, <2>4, <3>1, <3>2 DEF Guarded, Holds, Removes, Op, Id
    <3>3. CASE Reading(q) /\ Id(q) # Id(r)
      <4>1. holder'[Id(q)] = holder[Id(q)]
        BY <2>1, <2>4, <3>3 DEF TypeInv, TypeOK
      <4> QED
        BY <1>1, <2>1, <4>1 DEF Guarded, Holds, Removes, Op, Id
    <3>4. CASE ~Reading(q)
      BY <2>1, <3>4 DEF Reading, Holds, Removes
    <3> QED
      BY <3>2, <3>3, <3>4
  <2> QED
    BY <2>2, <2>3, <2>4 DEF Advances
<1> QED
  BY <1>6, <1>7, <1>8, <1>9, <1>10 DEF Guarded

LEMMA GuardedPublished ==
  ASSUME TypeInv, Guarded, NEW r \in Requests, Published(r)
  PROVE  Guarded'
<1>1. /\ phase[r] = "written" /\ phase'[r] = "done" /\ Id(r) \in GroupIds
      /\ SuccessEntry(r) \in Entry /\ audit' = Append(audit, SuccessEntry(r))
      /\ groups' = [groups EXCEPT ![Id(r)] = After(r)] /\ Release(r)
  BY DEF Published
<1>2. \A q \in Requests \ {r} : phase'[q] = phase[q] /\ job'[q] = job[q]
  BY DEF Published, Others
<1>3. \A g : (Known(g) => Known(g)') /\ (Known(g)' => Known(g) \/ g = Id(r))
  <2>1. SuccessEntry(r).id = Id(r)
    BY DEF SuccessEntry
  <2> QED
    BY <1>1, <2>1, KnownStep
<1>4. Active(r) /\ Reading(r)
  BY <1>1 DEF Active, Reading
<1>5. \A q \in Requests \ {r} : Active(q) /\ Op(q) = "create" => Id(q) # Id(r)
  <2>1. CASE Op(r) = "create"
    BY <1>4, <2>1 DEF Guarded, Apart
  <2>2. CASE Op(r) # "create"
    BY <1>4, <2>2 DEF Guarded, Seen, Fresh
  <2> QED
    BY <2>1, <2>2
<1>6. ASSUME NEW q \in Requests, q # r PROVE Fresh(q)' /\ Seen(q)' /\ Holds(q)' /\ Removes(q)'
  <2>1. phase'[q] = phase[q] /\ job'[q] = job[q] /\ (Reading(q) => Id(q) \in GroupIds)
    BY <1>2, <1>6 DEF TypeInv, HandOK
  <2>2. Fresh(q)' /\ Seen(q)'
    BY <1>3, <1>5, <1>6, <2>1 DEF Guarded, Fresh, Seen, Active, Reading, Op, Id
  <2>3. Reading(q) /\ holder[Id(q)] = q => holder'[Id(q)] = q
    BY <1>1, <1>6, <2>1 DEF Release
  <2>4. CASE ~Reading(q) \/ Op(q) = "create"
    BY <2>1, <2>2, <2>4 DEF Reading, Holds, Removes, Op, Id
  <2>5. CASE Reading(q) /\ Op(q) # "create" /\ Id(q) # Id(r)
    <3>1. groups'[Id(q)] = groups[Id(q)]
      BY <1>1, <2>1, <2>5 DEF TypeInv, TypeOK
    <3> QED
      BY <2>1, <2>2, <2>3, <2>5, <3>1 DEF Guarded, Holds, Removes, Op, Id, Reading
  <2>6. CASE Reading(q) /\ Op(q) # "create" /\ Id(q) = Id(r)
    <3>1. groups'[Id(q)] = After(r)
      BY <1>1, <2>6 DEF TypeInv, TypeOK
    <3>2. Op(r) # "create"
      BY <1>4, <2>6 DEF Guarded, Fresh, Seen
    <3>3. CASE Op(r) = "delete"
      <4>1. After(r) = Absent
        BY <1>1, <3>3, AfterGroup
      <4>2. holder[Id(r)] = r \/ groups[Id(r)] = Absent
        BY <1>1, <3>3 DEF Guarded, Removes
      <4> QED
        BY <1>6, <2>1, <2>2, <2>6, <3>1, <4>1, <4>2 DEF Guarded, Holds, Removes, Op, Id, Reading
    <3>4. CASE Op(r) # "delete"
      <4>1. holder[Id(r)] = r /\ groups[Id(r)] # Absent
        BY <1>1, <3>2, <3>4 DEF Guarded, Holds
      <4> QED
        BY <1>6, <2>1, <2>2, <2>6, <4>1 DEF Guarded, Holds, Removes, Op, Id, Reading
    <3> QED
      BY <3>3, <3>4
  <2> QED
    BY <2>2, <2>4, <2>5, <2>6
<1>7. Fresh(r)' /\ Seen(r)' /\ Holds(r)' /\ Removes(r)'
  BY <1>1 DEF Fresh, Seen, Holds, Removes, Active, Reading
<1>8. ASSUME NEW p \in Requests, NEW q \in Requests PROVE Apart(p, q)'
  BY <1>1, <1>2 DEF Guarded, Apart, Active, Op, Id
<1> QED
  BY <1>6, <1>7, <1>8 DEF Guarded

LEMMA GuardedStep ==
  ASSUME TypeInv, TrailMatchesGroups, Guarded, Kind
  PROVE  Guarded'
<1>1. CASE UNCHANGED vars
  BY <1>1 DEF vars, db, reqs, hist, Guarded, Fresh, Apart, Seen, Holds, Removes,
              Known, Success, Active, Reading, Op, Id
<1> QED
  BY <1>1, GuardedArrive, GuardedDropped, GuardedAdvances, GuardedPublished DEF Kind

\* Only a refusal may be about nothing.
Targets == \A n \in DOMAIN audit : audit[n].result = "success" => audit[n].id \in GroupIds

LEMMA TargetsStep ==
  ASSUME TypeInv, Targets, Kind
  PROVE  Targets'
<1> USE DEF db
<1>1. CASE audit' = audit
  BY <1>1 DEF Targets
<1>2. ASSUME NEW e \in Entry, audit' = Append(audit, e),
             e.result = "denied" \/ e.id \in GroupIds
      PROVE  Targets'
  <2>1. audit'[Len(audit) + 1] = e
    BY <1>2, AppendedTrail
  <2> QED
    BY <1>2, <2>1, AppendedTrail DEF Targets
<1>3. ASSUME NEW r \in Requests, Dropped(r) \/ Published(r) PROVE Targets'
  <2>1. SuccessEntry(r).id = Id(r)
    BY DEF SuccessEntry
  <2> QED
    BY <1>1, <1>2, <1>3, <2>1 DEF Dropped, Published
<1> QED
  BY <1>1, <1>3 DEF Kind, Arrive, Advances, vars

LEMMA DeletedStep ==
  ASSUME TypeInv, Targets, Guarded, DeletedForGood, Kind
  PROVE  DeletedForGood'
<1> USE DEF db
<1>1. CASE UNCHANGED <<groups, audit>>
  BY <1>1 DEF DeletedForGood
<1>2. ASSUME NEW r \in Requests, Dropped(r) PROVE DeletedForGood'
  <2>1. CASE audit' = audit
    BY <1>2, <2>1 DEF Dropped, DeletedForGood
  <2>2. CASE audit' # audit
    <3>1. PICK e \in Entry : e.result = "denied" /\ audit' = Append(audit, e)
      BY <1>2, <2>2 DEF Dropped
    <3>2. audit'[Len(audit) + 1].result = "denied" /\ groups' = groups
      BY <1>2, <3>1, AppendedTrail DEF Dropped
    <3> QED
      BY <3>1, <3>2, AppendedTrail DEF DeletedForGood
  <2> QED
    BY <2>1, <2>2
<1>3. ASSUME NEW r \in Requests, Published(r) PROVE DeletedForGood'
  <2>1. /\ phase[r] = "written" /\ Id(r) \in GroupIds
        /\ SuccessEntry(r) \in Entry /\ audit' = Append(audit, SuccessEntry(r))
        /\ groups' = [groups EXCEPT ![Id(r)] = After(r)]
    BY <1>3 DEF Published
  <2>2. /\ SuccessEntry(r).id = Id(r) /\ SuccessEntry(r).action = AuditAction(r)
        /\ audit'[Len(audit) + 1] = SuccessEntry(r)
    BY <2>1, AppendedTrail DEF SuccessEntry
  <2> SUFFICES ASSUME NEW n \in DOMAIN audit',
                      audit'[n].action = "delete", audit'[n].result = "success"
               PROVE  groups'[audit'[n].id] = Absent
    BY DEF DeletedForGood
  <2>3. CASE n = Len(audit) + 1
    <3>1. Op(r) = "delete" /\ audit'[n].id = Id(r)
      BY <2>2, <2>3 DEF AuditAction
    <3> QED
      BY <2>1, <3>1, AfterGroup DEF TypeInv, TypeOK
  <2>4. CASE n # Len(audit) + 1
    <3>1. n \in DOMAIN audit /\ audit'[n] = audit[n]
      BY <2>1, <2>4, AppendedTrail
    <3>2. groups[audit[n].id] = Absent /\ Known(audit[n].id)
      BY <3>1 DEF DeletedForGood, Known, Success
    <3>3. CASE audit[n].id = Id(r)
      <4>1. Op(r) # "create"
        BY <2>1, <3>2, <3>3 DEF Guarded, Fresh, Active
      <4>2. Op(r) = "delete"
        BY <2>1, <3>2, <3>3, <4>1 DEF Guarded, Holds
      <4> QED
        BY <2>1, <3>1, <3>3, <4>2, AfterGroup DEF TypeInv, TypeOK
    <3>4. CASE audit[n].id # Id(r)
      <4>1. audit[n].id \in GroupIds
        BY <3>1 DEF Targets
      <4> QED
        BY <2>1, <3>1, <3>2, <3>4, <4>1 DEF TypeInv, TypeOK
    <3> QED
      BY <3>3, <3>4
  <2> QED
    BY <2>3, <2>4
<1> QED
  BY <1>1, <1>2, <1>3 DEF Kind, Arrive, Advances, vars

\* A deleted group never comes back: an UPDATE that waited for the row of a
\* group somebody else deleted meanwhile finds no row, in every interleaving.
THEOREM DeletedIsForGood == Spec => []DeletedForGood
<1> DEFINE Inv == TypeInv /\ TrailMatchesGroups /\ Targets /\ Guarded /\ DeletedForGood
<1>1. Init => Targets /\ DeletedForGood
  <2> SUFFICES ASSUME Init PROVE Targets /\ DeletedForGood
    OBVIOUS
  <2>1. \A n \in DOMAIN audit : audit[n].action = "create" /\ audit[n].id \in GroupIds
    BY SeedGroup DEF Init
  <2> QED
    BY <2>1 DEF Targets, DeletedForGood
<1>2. Init => Inv
  BY <1>1, TypeInvInit, TrailInit, GuardedInit
<1>3. Inv /\ [Next]_vars => Inv'
  BY StepKinds, TrailStep, TargetsStep, GuardedStep, DeletedStep
<1>4. Inv => DeletedForGood
  OBVIOUS
<1> QED
  BY <1>2, <1>3, <1>4, PTL DEF Spec

-----------------------------------------------------------------------------
(* When events are dated. *)

LEMMA AppendedEvents ==
  ASSUME TypeInv, NEW e \in Event, events' = Append(events, e)
  PROVE  /\ Len(events) \in Nat /\ DOMAIN events = 1..Len(events)
         /\ DOMAIN events' = 1..(Len(events) + 1)
         /\ events'[Len(events) + 1] = e
         /\ \A n \in DOMAIN events : events'[n] = events[n]
BY AppendEntry DEF TypeInv, TypeOK

LEMMA EventFields ==
  ASSUME TypeInv, NEW i \in DOMAIN events
  PROVE  events[i].id \in GroupIds /\ events[i].occurred \in Int
<1>1. events[i] \in Event
  BY ElementOf DEF TypeInv, TypeOK
<1> QED
  BY <1>1 DEF Event

\* Nothing but a delete is dated after the database clock, and a group that a
\* delete was announced of is gone.
Past == /\ \A i \in DOMAIN events : events[i].type # "group.deleted" => events[i].occurred <= clock
        /\ \A r \in Requests : started[r] <= clock

Gone == \A d \in DOMAIN events :
          events[d].type = "group.deleted" => Known(events[d].id) /\ groups[events[d].id] = Absent

DatedInv ==
  /\ TypeInv /\ TrailMatchesGroups /\ Guarded
  /\ Past /\ Gone /\ DeletedStaysDeleted

LEMMA DatedInit == Init => DatedInv
<1> SUFFICES ASSUME Init PROVE DatedInv
  OBVIOUS
<1>1. \A i \in DOMAIN events : events[i].type = "group.created" /\ events[i].occurred = 0
  BY DEF Init
<1>2. clock = 0 /\ \A r \in Requests : started[r] = 0
  BY DEF Init
<1>3. Past /\ Gone /\ DeletedStaysDeleted
  BY <1>1, <1>2 DEF Past, Gone, DeletedStaysDeleted
<1> QED
  BY <1>3, TypeInvInit, TrailInit, GuardedInit DEF DatedInv

\* A commit that is no delete is of a group no delete was announced of.
LEMMA NoneAfterDelete ==
  ASSUME DatedInv, NEW r \in Requests, Published(r), Op(r) # "delete",
         NEW d \in DOMAIN events, events[d].type = "group.deleted"
  PROVE  events[d].id # Id(r)
<1>1. Known(events[d].id) /\ groups[events[d].id] = Absent
  BY DEF DatedInv, Gone
<1>2. phase[r] = "written" /\ Active(r)
  BY DEF Published, Active
<1>3. Op(r) = "create" => ~Known(Id(r))
  BY <1>2 DEF DatedInv, Guarded, Fresh
<1>4. Op(r) # "create" => groups[Id(r)] # Absent
  BY <1>2 DEF DatedInv, Guarded, Holds
<1> QED
  BY <1>1, <1>3, <1>4

LEMMA DatedPublished ==
  ASSUME DatedInv, NEW r \in Requests, Published(r)
  PROVE  Past' /\ Gone' /\ DeletedStaysDeleted'
<1>1. /\ Id(r) \in GroupIds /\ phase[r] = "written" /\ SuccessEntry(r) \in Entry
      /\ audit' = Append(audit, SuccessEntry(r))
      /\ groups' = [groups EXCEPT ![Id(r)] = After(r)]
      /\ clock' = IF Op(r) = "delete" THEN clock + 1 ELSE clock
      /\ started'[r] = 0 /\ \A q \in Requests \ {r} : started'[q] = started[q]
  BY DEF Published, Others
<1>2. PICK lag \in (0 - Skew)..Skew :
        NewEvent(r, lag) \in Event /\ events' = Append(events, NewEvent(r, lag))
  BY DEF Published, Announces
<1>3. TypeInv /\ clock \in Nat /\ started[r] \in Nat /\ Skew \in Nat /\ lag \in Int
      /\ groups \in [GroupIds -> Group \cup {Absent}]
      /\ \A q \in Requests : started[q] \in Nat
  BY SetsAssumption DEF DatedInv, TypeInv, TypeOK
<1> DEFINE k == Len(events) + 1
           e == NewEvent(r, lag)
<1>4. /\ e.id = Id(r) /\ e.occurred = Occurred(r, lag)
      /\ e.type = "group.deleted" <=> Op(r) = "delete"
  BY DEF NewEvent, EventType
<1>5. /\ Op(r) = "delete" => After(r) = Absent /\ Occurred(r, lag) = clock + 1 - lag
      /\ Op(r) # "delete" => After(r) # Absent /\ Occurred(r, lag) = started[r]
  BY <1>1, <1>3, AfterGroup DEF Occurred
<1>6. /\ k \in DOMAIN events' /\ events'[k] = e
      /\ \A i \in DOMAIN events' : i # k => i \in DOMAIN events /\ events'[i] = events[i]
  BY <1>2, <1>3, AppendedEvents
<1>7. clock' \in Nat /\ clock <= clock' /\ started[r] <= clock
  BY <1>1, <1>3 DEF DatedInv, Past
<1>8. \A i \in DOMAIN events :
        events[i].occurred \in Int /\ (events[i].type # "group.deleted" => events[i].occurred <= clock)
  BY <1>3, EventFields DEF DatedInv, Past
<1> HIDE DEF k, e
<1>9. Past'
  <2>1. \A q \in Requests : started'[q] <= clock'
    <3>1. \A q \in Requests : started[q] <= clock
      BY DEF DatedInv, Past
    <3> QED
      BY <1>1, <1>3, <1>7, <3>1
  <2>2. ASSUME NEW i \in DOMAIN events', events'[i].type # "group.deleted"
        PROVE  events'[i].occurred <= clock'
    <3>1. CASE i = k
      BY <1>4, <1>5, <1>6, <1>7, <1>3, <2>2, <3>1
    <3>2. CASE i # k
      BY <1>3, <1>6, <1>7, <1>8, <2>2, <3>2
    <3> QED
      BY <3>1, <3>2
  <2> QED
    BY <2>1, <2>2 DEF Past
<1>10. Gone'
  <2>1. \A g : (Known(g) => Known(g)') /\ (g = Id(r) => Known(g)')
    <3>1. \A g : Known(g) => Known(g)'
      BY <1>1, <1>3, KnownStep
    <3>2. /\ audit'[Len(audit) + 1] = SuccessEntry(r) /\ Len(audit) + 1 \in DOMAIN audit'
      BY <1>1, <1>3, AppendedTrail
    <3>3. SuccessEntry(r).result = "success" /\ SuccessEntry(r).id = Id(r)
      BY DEF SuccessEntry
    <3> QED
      BY <3>1, <3>2, <3>3 DEF Known, Success
  <2> SUFFICES ASSUME NEW d \in DOMAIN events', events'[d].type = "group.deleted"
               PROVE  Known(events[d].id)' /\ groups'[events'[d].id] = Absent
    BY DEF Gone
  <2>2. CASE d = k
    <3>1. events'[d].id = Id(r) /\ Op(r) = "delete"
      BY <1>4, <1>6, <2>2
    <3>2. groups'[Id(r)] = Absent
      BY <1>1, <1>3, <1>5, <3>1
    <3> QED
      BY <2>1, <3>1, <3>2 DEF Known, Success
  <2>3. CASE d # k
    <3>1. d \in DOMAIN events /\ events'[d] = events[d]
      BY <1>6, <2>3
    <3>2. Known(events[d].id) /\ groups[events[d].id] = Absent /\ events[d].id \in GroupIds
      BY <1>3, <3>1, EventFields DEF DatedInv, Gone
    <3>3. Known(events[d].id)'
      BY <2>1, <3>1, <3>2 DEF Known, Success
    <3>4. groups'[events[d].id] = Absent
      <4>1. CASE events[d].id = Id(r)
        <5>1. Op(r) = "delete"
          BY <3>1, <4>1, NoneAfterDelete
        <5> QED
          BY <1>1, <1>3, <1>5, <4>1, <5>1
      <4>2. CASE events[d].id # Id(r)
        BY <1>1, <1>3, <3>2, <4>2
      <4> QED
        BY <4>1, <4>2
    <3> QED
      BY <3>1, <3>3, <3>4
  <2> QED
    BY <2>2, <2>3
<1>11. DeletedStaysDeleted'
  <2> SUFFICES ASSUME NEW i \in DOMAIN events', NEW d \in DOMAIN events',
                      events'[d].id = events'[i].id,
                      events'[d].type = "group.deleted", events'[i].type # "group.deleted"
               PROVE  events'[i].occurred < events'[d].occurred + Skew
    BY DEF DeletedStaysDeleted
  <2>1. CASE i # k /\ d # k
    BY <1>6, <2>1 DEF DatedInv, DeletedStaysDeleted
  <2>2. CASE d = k
    <3>1. i \in DOMAIN events /\ events'[i] = events[i]
      BY <1>6, <2>2
    <3>2. events[i].occurred \in Int /\ events[i].occurred <= clock
      BY <1>8, <3>1
    <3>3. events'[d].occurred = clock + 1 - lag
      BY <1>4, <1>5, <1>6, <2>2
    <3>4. lag <= Skew
      BY <1>3
    <3> QED
      BY <1>3, <3>1, <3>2, <3>3, <3>4
  <2>3. CASE i = k
    <3>1. d \in DOMAIN events /\ events'[d] = events[d] /\ Op(r) # "delete"
      BY <1>4, <1>6, <2>3
    <3>2. events[d].id # Id(r)
      BY <3>1, NoneAfterDelete
    <3> QED
      BY <1>4, <1>6, <2>3, <3>1, <3>2
  <2> QED
    BY <2>1, <2>2, <2>3
<1> QED
  BY <1>9, <1>10, <1>11

LEMMA DatedStep ==
  ASSUME DatedInv, [Next]_vars
  PROVE  DatedInv'
<1>1. /\ TypeInv /\ TypeInv' /\ Kind /\ TrailMatchesGroups' /\ Guarded'
  BY StepKinds, TrailStep, GuardedStep DEF DatedInv
<1>2. clock \in Nat /\ \A q \in Requests : started[q] \in Nat
  BY <1>1 DEF TypeInv, TypeOK
<1>3. ASSUME UNCHANGED <<groups, events>>, clock' \in {clock, clock + 1},
             \A q \in Requests :
               started'[q] \in {0, started[q]} \/ (started'[q] = clock + 1 /\ clock' = clock + 1),
             \A g : Known(g) => Known(g)'
      PROVE  Past' /\ Gone' /\ DeletedStaysDeleted'
  <2>1. \A q \in Requests : started'[q] <= clock'
    BY <1>2, <1>3 DEF DatedInv, Past
  <2>2. \A i \in DOMAIN events :
          events[i].type # "group.deleted" => events[i].occurred <= clock'
    BY <1>1, <1>2, <1>3, EventFields DEF DatedInv, Past
  <2>3. Past'
    BY <1>3, <2>1, <2>2 DEF Past
  <2>4. Gone'
    BY <1>3 DEF DatedInv, Gone, Known, Success
  <2>5. DeletedStaysDeleted'
    BY <1>3 DEF DatedInv, DeletedStaysDeleted
  <2> QED
    BY <2>3, <2>4, <2>5
<1>4. CASE UNCHANGED vars
  <2>1. \A g : Known(g) => Known(g)'
    BY <1>4 DEF vars, db, Known, Success
  <2>2. UNCHANGED <<groups, events>> /\ clock' = clock /\ started' = started
    BY <1>4 DEF vars, db, reqs
  <2>3. clock' \in {clock, clock + 1} /\ \A q \in Requests : started'[q] \in {0, started[q]}
    BY <2>2
  <2> QED
    BY <1>1, <1>3, <2>1, <2>2, <2>3 DEF DatedInv
<1>5. ASSUME NEW r \in Requests, Arrive(r) PROVE Past' /\ Gone' /\ DeletedStaysDeleted'
  <2>1. \A g : Known(g) => Known(g)'
    BY <1>5 DEF Arrive, db, Known, Success
  <2> QED
    BY <1>3, <1>5, <2>1 DEF Arrive, db
<1>6. ASSUME NEW r \in Requests, Dropped(r) \/ Advances(r)
      PROVE  Past' /\ Gone' /\ DeletedStaysDeleted'
  <2>1. \A g : Known(g) => Known(g)'
    BY <1>1, <1>6, KnownStep DEF Dropped, Advances
  <2>2. UNCHANGED <<groups, events>> /\ clock' \in {clock, clock + 1}
    BY <1>6 DEF Dropped, Advances
  <2>3. started'[r] \in {0, started[r]} \/ (started'[r] = clock + 1 /\ clock' = clock + 1)
    BY <1>6 DEF Dropped, Advances
  <2>4. \A q \in Requests \ {r} : started'[q] = started[q]
    BY <1>6 DEF Dropped, Advances, Others
  <2> QED
    BY <1>3, <2>1, <2>2, <2>3, <2>4
<1>7. ASSUME NEW r \in Requests, Published(r) PROVE Past' /\ Gone' /\ DeletedStaysDeleted'
  BY <1>7, DatedPublished
<1> QED
  BY <1>1, <1>4, <1>5, <1>6, <1>7 DEF Kind, DatedInv

\* However far the process clock that dates a delete may be from the database
\* clock that dates the rest, a delete is never announced with a date that is
\* Skew or more older than what was announced of the group before.
THEOREM DeletesOutdateWithinSkew == Spec => []DeletedStaysDeleted
<1>1. DatedInv => DeletedStaysDeleted
  BY DEF DatedInv
<1>2. DatedInv /\ [Next]_vars => DatedInv'
  BY DatedStep
<1> QED
  BY <1>1, <1>2, DatedInit, PTL DEF Spec

-----------------------------------------------------------------------------
(* Once or never: a request, its entry, its event and its answer. *)

\* A request that has not been answered has left nothing on the trail.
NotYet(r) == phase[r] # "done" => Applied(r) = {} /\ Announced(r) = {} /\ answer[r] = "none"

\* The trail, the events and the answer of a request tell the same story.
Once(r) ==
  /\ answer[r] = "ok" => Applied(r) # {}
  /\ Applied(r) # {} => answer[r] \in {"ok", "error"}
  /\ \A m, n \in Applied(r) : m = n
  /\ \A m, n \in Announced(r) : m = n
  /\ \A n \in Applied(r) : \E m \in Announced(r) :
       /\ events[m].id = audit[n].id
       /\ events[m].before = audit[n].before /\ events[m].after = audit[n].after
  /\ Announced(r) # {} => Applied(r) # {}

OnceInv == \A r \in Requests : NotYet(r) /\ Once(r)

Bystanders(r) == \A q \in Requests \ {r} : phase'[q] = phase[q] /\ answer'[q] = answer[q]

\* Request r, not yet answered, takes a step that leaves nothing but perhaps a
\* refusal, and is answered with anything but success if it is answered.
Traceless(r) ==
  /\ phase[r] # "done" /\ Bystanders(r) /\ events' = events
  /\ \/ audit' = audit
     \/ \E e \in Entry : e.result = "denied" /\ audit' = Append(audit, e)
  /\ \/ phase'[r] # "done" /\ answer'[r] = answer[r]
     \/ phase'[r] = "done" /\ answer'[r] # "ok"

\* Request r, not yet answered, commits and is answered.
Effective(r) ==
  /\ phase[r] # "done" /\ Bystanders(r)
  /\ phase'[r] = "done" /\ answer'[r] \in {"ok", "error"}
  /\ SuccessEntry(r) \in Entry /\ audit' = Append(audit, SuccessEntry(r))
  /\ Announces(r)

LEMMA AnswerSteps ==
  ASSUME TypeInv, [Next]_vars
  PROVE  UNCHANGED vars \/ \E r \in Requests : Traceless(r) \/ Effective(r)
<1> USE DEF db, reqs, hist
<1>1. ASSUME NEW r \in Requests, NEW a \in Answers \ {"ok"}, Reply(r, a), phase[r] # "done",
             UNCHANGED <<audit, events>>
      PROVE  Traceless(r)
  BY <1>1 DEF Reply, Traceless, Bystanders, TypeInv, TypeOK
<1>2. ASSUME NEW r \in Requests, NEW a \in Answers \ {"ok"}, Active(r), Refuse(r, a)
      PROVE  Traceless(r)
  <2>1. Dropped(r)
    BY <1>2, RefuseStep
  <2>2. Reply(r, a) /\ phase[r] # "done"
    BY <1>2 DEF Refuse, Active
  <2>3. phase'[r] = "done" /\ answer'[r] # "ok" /\ Bystanders(r)
    BY <2>2 DEF Reply, Bystanders, TypeInv, TypeOK
  <2> QED
    BY <2>1, <2>2, <2>3 DEF Dropped, Traceless
<1>3. ASSUME NEW r \in Requests, NEW p \in Phases, phase' = [phase EXCEPT ![r] = p],
             phase[r] # "done", p # "done", UNCHANGED <<audit, events, answer>>
      PROVE  Traceless(r)
  BY <1>3 DEF Traceless, Bystanders, TypeInv, TypeOK
<1>4. ASSUME NEW r \in Requests, Arrive(r) PROVE Traceless(r)
  <2>1. PICK j \in Job :
          phase' = [phase EXCEPT ![r] = IF j.op \in PatchOps THEN "reading" ELSE "ready"]
    BY <1>4 DEF Arrive
  <2> QED
    BY <1>3, <1>4, <2>1 DEF Arrive, Phases
<1>5. ASSUME NEW r \in Requests, BadRequest(r) PROVE Traceless(r)
  BY <1>1, <1>5 DEF BadRequest, Answers
<1>6. ASSUME NEW r \in Requests, GetGroupRow(r) \/ GetGroupMembers(r) PROVE Traceless(r)
  BY <1>1, <1>3, <1>6 DEF GetGroupRow, GetGroupMembers, Answers, Phases
<1>7. ASSUME NEW r \in Requests, Begin(r) \/ InsertRow(r) \/ ReadBeforeMembers(r) PROVE Traceless(r)
  BY <1>3, <1>7 DEF Begin, InsertRow, ReadBeforeMembers, Phases
<1>8. ASSUME NEW r \in Requests, ReadBeforeRow(r) PROVE Traceless(r)
  BY <1>2, <1>3, <1>8 DEF ReadBeforeRow, Active, Answers, Phases
<1>9. ASSUME NEW r \in Requests, LockRow(r) PROVE Traceless(r)
  BY <1>3, <1>9 DEF LockRow, Phases
<1>10. ASSUME NEW r \in Requests, RowGone(r) PROVE Traceless(r)
  BY <1>1, <1>3, <1>10 DEF RowGone, Answers, Phases
<1>11. ASSUME NEW r \in Requests, CheckName(r) \/ RefuseMembers(r) PROVE Traceless(r)
  BY <1>2, <1>3, <1>11 DEF CheckName, RefuseMembers, Active, Answers, Phases
<1>12. ASSUME NEW r \in Requests, Commit(r) \/ CommitAnswerLost(r) PROVE Effective(r)
  <2>1. Published(r)
    <3>1. Publish(r) /\ faults' \in Nat /\ \E a \in Answers : Reply(r, a)
      BY <1>12 DEF Commit, CommitAnswerLost, Answers, TypeInv, TypeOK
    <3> QED
      BY <3>1, PublishStep
  <2>2. answer'[r] \in {"ok", "error"} /\ Bystanders(r)
    BY <1>12 DEF Commit, CommitAnswerLost, Reply, Bystanders, TypeInv, TypeOK
  <2> QED
    BY <2>1, <2>2 DEF Published, Effective
<1>13. ASSUME NEW r \in Requests, Fail(r) \/ ExternalIdClash(r) PROVE Traceless(r)
  BY <1>1, <1>13 DEF Fail, ExternalIdClash, Active, Answers
<1>14. ASSUME NEW r \in Requests, DeadlockAbort(r) PROVE Traceless(r)
  <2>1. Blockers(r) # {}
    BY <1>14 DEF DeadlockAbort
  <2>2. phase[r] = "locked"
    BY <2>1 DEF Blockers
  <2> QED
    BY <1>1, <1>14, <2>2 DEF DeadlockAbort, Answers
<1> QED
  BY <1>4, <1>5, <1>6, <1>7, <1>8, <1>9, <1>10, <1>11, <1>12, <1>13, <1>14 DEF Next, Step

LEMMA OnceInit == Init => OnceInv
<1> SUFFICES ASSUME Init, NEW r \in Requests PROVE NotYet(r) /\ Once(r)
  BY DEF OnceInv
<1>1. r # None
  BY SetsAssumption
<1>2. Applied(r) = {} /\ Announced(r) = {}
  BY <1>1 DEF Init, Applied, Announced
<1> QED
  BY <1>2 DEF Init, NotYet, Once

\* What a request has on the trail and among the events stays as it is.
Untouched(r) ==
  /\ Applied(r)' = Applied(r) /\ \A n \in Applied(r) : audit'[n] = audit[n]
  /\ Announced(r)' = Announced(r) /\ \A n \in Announced(r) : events'[n] = events[n]

LEMMA TracelessLeaves ==
  ASSUME TypeInv, NEW r \in Requests, Traceless(r), NEW q \in Requests
  PROVE  Untouched(q)
<1>1. Announced(q)' = Announced(q) /\ \A n \in Announced(q) : events'[n] = events[n]
  BY DEF Traceless, Announced
<1>2. CASE audit' = audit
  BY <1>1, <1>2 DEF Untouched, Applied
<1>3. ASSUME NEW e \in Entry, e.result = "denied", audit' = Append(audit, e)
      PROVE  Untouched(q)
  <2>1. audit'[Len(audit) + 1].result # "success"
    BY <1>3, AppendedTrail
  <2> QED
    BY <1>1, <1>3, <2>1, AppendedTrail DEF Untouched, Applied
<1> QED
  BY <1>2, <1>3 DEF Traceless

LEMMA EffectiveAdds ==
  ASSUME TypeInv, NEW r \in Requests, Effective(r)
  PROVE  /\ \A q \in Requests \ {r} : Untouched(q)
         /\ Applied(r)' = Applied(r) \cup {Len(audit) + 1}
         /\ Announced(r)' = Announced(r) \cup {Len(events) + 1}
         /\ audit'[Len(audit) + 1] = SuccessEntry(r)
         /\ \E lag \in (0 - Skew)..Skew : events'[Len(events) + 1] = NewEvent(r, lag)
<1>1. SuccessEntry(r) \in Entry /\ audit' = Append(audit, SuccessEntry(r))
  BY DEF Effective
<1>2. PICK lag \in (0 - Skew)..Skew :
        NewEvent(r, lag) \in Event /\ events' = Append(events, NewEvent(r, lag))
  BY DEF Effective, Announces
<1>3. SuccessEntry(r).req = r /\ SuccessEntry(r).result = "success" /\ NewEvent(r, lag).req = r
  BY DEF SuccessEntry, NewEvent
<1>4. audit'[Len(audit) + 1] = SuccessEntry(r) /\ events'[Len(events) + 1] = NewEvent(r, lag)
  BY <1>1, <1>2, AppendedTrail, AppendedEvents
<1>5. ASSUME NEW q \in Requests, q # r PROVE Untouched(q)
  <2>1. Applied(q)' = Applied(q) /\ \A n \in Applied(q) : audit'[n] = audit[n]
    BY <1>1, <1>3, <1>4, <1>5, AppendedTrail DEF Applied
  <2>2. Announced(q)' = Announced(q) /\ \A n \in Announced(q) : events'[n] = events[n]
    BY <1>2, <1>3, <1>4, <1>5, AppendedEvents DEF Announced
  <2> QED
    BY <2>1, <2>2 DEF Untouched
<1>6. Applied(r)' = Applied(r) \cup {Len(audit) + 1}
  BY <1>1, <1>3, <1>4, AppendedTrail DEF Applied
<1>7. Announced(r)' = Announced(r) \cup {Len(events) + 1}
  BY <1>2, <1>3, <1>4, AppendedEvents DEF Announced
<1> QED
  BY <1>4, <1>5, <1>6, <1>7

LEMMA OnceStep ==
  ASSUME TypeInv, OnceInv, [Next]_vars
  PROVE  OnceInv'
<1>1. ASSUME NEW q \in Requests, Untouched(q), phase'[q] = phase[q], answer'[q] = answer[q]
      PROVE  NotYet(q)' /\ Once(q)'
  BY <1>1 DEF OnceInv, NotYet, Once, Untouched
<1>2. CASE UNCHANGED vars
  BY <1>2 DEF vars, db, reqs, hist, OnceInv, NotYet, Once, Applied, Announced
<1>3. ASSUME NEW r \in Requests, Traceless(r), NEW q \in Requests PROVE NotYet(q)' /\ Once(q)'
  <2>1. Untouched(q)
    BY <1>3, TracelessLeaves
  <2>2. CASE q # r
    BY <1>1, <1>3, <2>1, <2>2 DEF Traceless, Bystanders
  <2>3. CASE q = r
    <3>1. Applied(q) = {} /\ Announced(q) = {} /\ answer[q] = "none"
      BY <1>3, <2>3 DEF Traceless, OnceInv, NotYet
    <3> QED
      BY <1>3, <2>1, <2>3, <3>1 DEF Traceless, NotYet, Once, Untouched
  <2> QED
    BY <2>2, <2>3
<1>4. ASSUME NEW r \in Requests, Effective(r), NEW q \in Requests PROVE NotYet(q)' /\ Once(q)'
  <2>1. CASE q # r
    <3>1. Untouched(q)
      BY <1>4, <2>1, EffectiveAdds
    <3> QED
      BY <1>1, <1>4, <2>1, <3>1 DEF Effective, Bystanders
  <2>2. CASE q = r
    <3>1. Applied(q) = {} /\ Announced(q) = {}
      BY <1>4, <2>2 DEF Effective, OnceInv, NotYet
    <3>2. Applied(q)' = {Len(audit) + 1} /\ Announced(q)' = {Len(events) + 1}
      BY <1>4, <2>2, <3>1, EffectiveAdds
    <3>3. /\ events'[Len(events) + 1].id = audit'[Len(audit) + 1].id
          /\ events'[Len(events) + 1].before = audit'[Len(audit) + 1].before
          /\ events'[Len(events) + 1].after = audit'[Len(audit) + 1].after
      <4>1. PICK lag \in (0 - Skew)..Skew :
              /\ audit'[Len(audit) + 1] = SuccessEntry(r)
              /\ events'[Len(events) + 1] = NewEvent(r, lag)
        BY <1>4, EffectiveAdds
      <4>2. /\ SuccessEntry(r).id = Id(r) /\ NewEvent(r, lag).id = Id(r)
            /\ SuccessEntry(r).before = before[r] /\ NewEvent(r, lag).before = before[r]
            /\ SuccessEntry(r).after = After(r) /\ NewEvent(r, lag).after = After(r)
        BY DEF SuccessEntry, NewEvent
      <4> QED
        BY <4>1, <4>2
    <3>4. phase'[q] = "done" /\ answer'[q] \in {"ok", "error"}
      BY <1>4, <2>2 DEF Effective
    <3> QED
      BY <3>2, <3>3, <3>4 DEF NotYet, Once
  <2> QED
    BY <2>1, <2>2
<1> QED
  BY <1>2, <1>3, <1>4, AnswerSteps DEF OnceInv

\* A group request takes effect once, in tables, trail and events alike, or
\* never, and its answer does not deny it: through overlap, refusals, failed
\* statements and commits whose answer is lost.
THEOREM TakesEffectOnce == Spec => []OnceOrNever
<1>1. TypeInv /\ OnceInv /\ [Next]_vars => (TypeInv /\ OnceInv)'
  BY StepKinds, OnceStep
<1>2. OnceInv => OnceOrNever
  BY DEF OnceInv, Once, OnceOrNever
<1> QED
  BY <1>1, <1>2, TypeInvInit, OnceInit, PTL DEF Spec

-----------------------------------------------------------------------------
(* Overlap: what a request has read, in two statements, still stands when it
   writes, unless the trail says otherwise. *)

\* What a step does to a request: nothing, its answer, its arrival, or an
\* advance that changes no table.
Still(q) ==
  /\ phase'[q] = phase[q] /\ job'[q] = job[q] /\ image'[q] = image[q]
  /\ before'[q] = before[q] /\ read'[q] = read[q] /\ began'[q] = began[q]

Ends(q) == phase'[q] = "done" /\ read'[q] = 0 /\ began'[q] = 0

Proceeds(q) ==
  /\ groups' = groups /\ audit' = audit /\ job'[q] = job[q]
  /\ read'[q] = IF phase[q] = "reading" THEN Len(audit) ELSE read[q]
  /\ began'[q] = IF phase[q] = "ready" THEN Len(audit) ELSE began[q]
  /\ \/ /\ phase[q] = "reading" /\ phase'[q] = "reading_members" /\ Exists(Id(q))
        /\ image'[q] = RowOf(Id(q)) /\ before'[q] = before[q]
     \/ /\ phase[q] = "reading_members" /\ phase'[q] = "ready"
        /\ image'[q] = WithMembers(image[q], Id(q)) /\ before'[q] = before[q]
     \/ /\ phase[q] = "begun" /\ phase'[q] = "begun_members" /\ Exists(Id(q))
        /\ before'[q] = RowOf(Id(q)) /\ image'[q] = image[q]
     \/ /\ phase[q] = "begun_members" /\ phase'[q] = "waiting"
        /\ before'[q] = WithMembers(before[q], Id(q)) /\ image'[q] = image[q]
     \/ /\ \/ phase[q] = "ready" /\ phase'[q] = "begun"
           \/ phase[q] = "begun" /\ phase'[q] = "locked" /\ Op(q) = "create"
           \/ phase[q] = "waiting" /\ phase'[q] \in {"locked", "written"}
           \/ phase[q] = "locked" /\ phase'[q] = "written"
        /\ image'[q] = image[q] /\ before'[q] = before[q]

Moves(q) == Still(q) \/ Ends(q) \/ Arrive(q) \/ Proceeds(q)

LEMMA EveryoneMoves ==
  ASSUME TypeInv, [Next]_vars, NEW q \in Requests
  PROVE  Moves(q)
<1> USE DEF db, reqs, hist
<1>1. CASE UNCHANGED vars
  BY <1>1 DEF vars, Moves, Still
<1>2. ASSUME NEW r \in Requests, NEW a, Reply(r, a) PROVE Moves(q)
  BY <1>2 DEF Reply, Moves, Still, Ends, TypeInv, TypeOK
<1>3. ASSUME NEW r \in Requests, Arrive(r) PROVE Moves(q)
  <2>1. r # q => Still(q)
    BY <1>3 DEF Arrive, Still, TypeInv, TypeOK
  <2> QED
    BY <1>3, <2>1 DEF Moves
<1>4. ASSUME NEW r \in Requests, GetGroupRow(r) PROVE Moves(q)
  <2>1. CASE ~Exists(Id(r))
    BY <1>2, <1>4, <2>1 DEF GetGroupRow
  <2>2. CASE Exists(Id(r))
    <3>1. r # q => Still(q)
      BY <1>4, <2>2 DEF GetGroupRow, Still, TypeInv, TypeOK
    <3>2. r = q => Proceeds(q)
      BY <1>4, <2>2 DEF GetGroupRow, Proceeds, TypeInv, TypeOK
    <3> QED
      BY <3>1, <3>2 DEF Moves
  <2> QED
    BY <2>1, <2>2
<1>5. ASSUME NEW r \in Requests, GetGroupMembers(r) PROVE Moves(q)
  BY <1>5 DEF GetGroupMembers, Moves, Still, Proceeds, TypeInv, TypeOK
<1>6. ASSUME NEW r \in Requests, Begin(r) PROVE Moves(q)
  BY <1>6 DEF Begin, Moves, Still, Proceeds, TypeInv, TypeOK
<1>7. ASSUME NEW r \in Requests, InsertRow(r) PROVE Moves(q)
  BY <1>7 DEF InsertRow, Moves, Still, Proceeds, TypeInv, TypeOK
<1>8. ASSUME NEW r \in Requests, ReadBeforeRow(r) PROVE Moves(q)
  <2>1. CASE ~Exists(Id(r))
    BY <1>2, <1>8, <2>1 DEF ReadBeforeRow, Refuse
  <2>2. CASE Exists(Id(r))
    <3>1. r # q => Still(q)
      BY <1>8, <2>2 DEF ReadBeforeRow, Still, TypeInv, TypeOK
    <3>2. r = q => Proceeds(q)
      BY <1>8, <2>2 DEF ReadBeforeRow, Proceeds, TypeInv, TypeOK
    <3> QED
      BY <3>1, <3>2 DEF Moves
  <2> QED
    BY <2>1, <2>2
<1>9. ASSUME NEW r \in Requests, ReadBeforeMembers(r) PROVE Moves(q)
  BY <1>9 DEF ReadBeforeMembers, Moves, Still, Proceeds, TypeInv, TypeOK
<1>10. ASSUME NEW r \in Requests, LockRow(r) PROVE Moves(q)
  BY <1>10 DEF LockRow, Moves, Still, Proceeds, TypeInv, TypeOK
<1>11. ASSUME NEW r \in Requests, RowGone(r) PROVE Moves(q)
  <2>1. CASE Op(r) # "delete"
    BY <1>2, <1>11, <2>1 DEF RowGone
  <2>2. CASE Op(r) = "delete"
    BY <1>11, <2>2 DEF RowGone, Moves, Still, Proceeds, TypeInv, TypeOK
  <2> QED
    BY <2>1, <2>2
<1>12. ASSUME NEW r \in Requests, CheckName(r) PROVE Moves(q)
  <2>1. CASE TakesName(r) /\ NameTaken(r)
    BY <1>2, <1>12, <2>1 DEF CheckName, Refuse
  <2>2. CASE ~(TakesName(r) /\ NameTaken(r))
    BY <1>12, <2>2 DEF CheckName, Moves, Still, Proceeds, TypeInv, TypeOK
  <2> QED
    BY <2>1, <2>2
<1>13. ASSUME NEW r \in Requests,
              \/ BadRequest(r) \/ RefuseMembers(r) \/ Commit(r) \/ CommitAnswerLost(r)
              \/ Fail(r) \/ DeadlockAbort(r) \/ ExternalIdClash(r)
       PROVE  Moves(q)
  BY <1>2, <1>13
     DEF BadRequest, RefuseMembers, Refuse, Commit, CommitAnswerLost, Fail, DeadlockAbort,
         ExternalIdClash
<1> QED
  BY <1>1, <1>3, <1>4, <1>5, <1>6, <1>7, <1>8, <1>9, <1>10, <1>11, <1>12, <1>13 DEF Next, Step

\* Row and members read one after the other make the group, if it is the same.
LEMMA ReadInTwo ==
  ASSUME TypeInv, NEW g \in GroupIds, groups[g] # Absent
  PROVE  WithMembers(RowOf(g), g) = groups[g]
<1>1. groups[g] \in Group
  BY DEF TypeInv, TypeOK
<1> QED
  BY <1>1 DEF WithMembers, RowOf, Group

\* A request that is reading, or has read, the group as it stands, unless a
\* change of it is on the trail that was not there when it began to read.
Current(r) ==
  /\ read[r] <= Len(audit) /\ began[r] <= Len(audit)
  /\ phase[r] = "reading_members" =>
       (Exists(Id(r)) /\ image[r] = RowOf(Id(r))) \/ ChangedSince(read[r], Id(r))
  /\ Active(r) /\ IsPatch(r) /\ phase[r] \notin {"reading", "reading_members"} =>
       Id(r) \in GroupIds /\ (image[r] = groups[Id(r)] \/ ChangedSince(read[r], Id(r)))
  /\ phase[r] = "begun_members" =>
       (Exists(Id(r)) /\ before[r] = RowOf(Id(r))) \/ ChangedSince(began[r], Id(r))
  /\ phase[r] \in {"waiting", "locked", "written"} =>
       before[r] = groups[Id(r)] \/ ChangedSince(began[r], Id(r))

OverlapInv == TypeInv /\ TrailMatchesGroups /\ Guarded /\ \A r \in Requests : Current(r)

LEMMA OverlapInit == Init => OverlapInv
<1>1. ASSUME Init, NEW r \in Requests PROVE Current(r)
  <2>1. read[r] = 0 /\ began[r] = 0 /\ phase[r] = "new"
    BY <1>1 DEF Init
  <2>2. audit \in Seq(Entry)
    BY <1>1, TypeInvInit DEF TypeInv, TypeOK
  <2>3. 0 <= Len(audit)
    BY <2>2
  <2> QED
    BY <2>1, <2>3 DEF Current, Active
<1> QED
  BY <1>1, TypeInvInit, TrailInit, GuardedInit DEF OverlapInv

\* After the step, a change of g is on the trail behind its first k entries.
ChangedAfter(k, g) ==
  \E n \in DOMAIN audit' : n > k /\ audit'[n].result = "success" /\ audit'[n].id = g

\* The trail only grows, and a group changes only with a new entry.
LEMMA Witnessed ==
  ASSUME TypeInv, Kind, NEW k \in Nat, k <= Len(audit)
  PROVE  /\ k <= Len(audit')
         /\ \A g : ChangedSince(k, g) => ChangedAfter(k, g)
         /\ \A g \in GroupIds : groups'[g] = groups[g] \/ ChangedAfter(k, g)
<1>0. audit \in Seq(Entry) /\ Len(audit) \in Nat
  BY DEF TypeInv, TypeOK
<1>1. CASE audit' = audit /\ groups' = groups
  BY <1>1 DEF ChangedSince, ChangedAfter, Success
<1>2. ASSUME NEW e \in Entry, audit' = Append(audit, e),
             \A g \in GroupIds : groups'[g] = groups[g] \/ (e.result = "success" /\ e.id = g)
      PROVE  /\ k <= Len(audit')
             /\ \A g : ChangedSince(k, g) => ChangedAfter(k, g)
             /\ \A g \in GroupIds : groups'[g] = groups[g] \/ ChangedAfter(k, g)
  <2>1. /\ DOMAIN audit = 1..Len(audit) /\ DOMAIN audit' = 1..(Len(audit) + 1)
        /\ audit'[Len(audit) + 1] = e /\ \A n \in DOMAIN audit : audit'[n] = audit[n]
    BY <1>2, AppendedTrail
  <2>2. Len(audit') = Len(audit) + 1
    BY <1>0, <1>2
  <2>3. \A g : ChangedSince(k, g) => ChangedAfter(k, g)
    BY <1>0, <2>1 DEF ChangedSince, ChangedAfter, Success
  <2>4. ASSUME NEW g \in GroupIds, e.result = "success", e.id = g PROVE ChangedAfter(k, g)
    <3>1. Len(audit) + 1 > k /\ Len(audit) + 1 \in DOMAIN audit'
      BY <1>0, <2>1
    <3> QED
      BY <2>1, <2>4, <3>1 DEF ChangedAfter
  <2>5. k <= Len(audit')
    BY <1>0, <2>2
  <2> QED
    BY <1>2, <2>3, <2>4, <2>5
<1>3. ASSUME NEW r \in Requests, Dropped(r)
      PROVE  /\ k <= Len(audit')
             /\ \A g : ChangedSince(k, g) => ChangedAfter(k, g)
             /\ \A g \in GroupIds : groups'[g] = groups[g] \/ ChangedAfter(k, g)
  <2>1. groups' = groups
    BY <1>3 DEF Dropped
  <2>2. CASE audit' = audit
    BY <1>1, <2>1, <2>2
  <2>3. CASE audit' # audit
    <3>1. PICK e \in Entry : audit' = Append(audit, e)
      BY <1>3, <2>3 DEF Dropped
    <3> QED
      BY <1>2, <2>1, <3>1
  <2> QED
    BY <2>2, <2>3
<1>4. ASSUME NEW r \in Requests, Published(r)
      PROVE  /\ k <= Len(audit')
             /\ \A g : ChangedSince(k, g) => ChangedAfter(k, g)
             /\ \A g \in GroupIds : groups'[g] = groups[g] \/ ChangedAfter(k, g)
  <2>1. /\ SuccessEntry(r) \in Entry /\ audit' = Append(audit, SuccessEntry(r))
        /\ groups' = [groups EXCEPT ![Id(r)] = After(r)]
    BY <1>4 DEF Published
  <2>2. SuccessEntry(r).result = "success" /\ SuccessEntry(r).id = Id(r)
    BY DEF SuccessEntry
  <2>3. \A g \in GroupIds : groups'[g] = groups[g] \/ Id(r) = g
    BY <2>1 DEF TypeInv, TypeOK
  <2> QED
    BY <1>2, <2>1, <2>2, <2>3
<1> QED
  BY <1>1, <1>3, <1>4 DEF Kind, vars, db, Arrive, Advances

LEMMA StillCurrent ==
  ASSUME TypeInv, Kind, NEW q \in Requests, Current(q), Still(q)
  PROVE  Current(q)'
<1>1. /\ phase'[q] = phase[q] /\ job'[q] = job[q] /\ image'[q] = image[q]
      /\ before'[q] = before[q] /\ read'[q] = read[q] /\ began'[q] = began[q]
      /\ Id(q)' = Id(q) /\ Op(q)' = Op(q)
  BY DEF Still, Id, Op
<1>2. /\ read[q] \in Nat /\ began[q] \in Nat /\ HandOK(q)
      /\ read[q] <= Len(audit) /\ began[q] <= Len(audit)
  BY DEF TypeInv, TypeOK, Current
<1>3. /\ read[q] <= Len(audit')
      /\ \A g : ChangedSince(read[q], g) => ChangedAfter(read[q], g)
      /\ \A g \in GroupIds : groups'[g] = groups[g] \/ ChangedAfter(read[q], g)
  BY <1>2, Witnessed
<1>4. /\ began[q] <= Len(audit')
      /\ \A g : ChangedSince(began[q], g) => ChangedAfter(began[q], g)
      /\ \A g \in GroupIds : groups'[g] = groups[g] \/ ChangedAfter(began[q], g)
  BY <1>2, Witnessed
<1>5. /\ ChangedAfter(read[q], Id(q)) => ChangedSince(read[q], Id(q))'
      /\ ChangedAfter(began[q], Id(q)) => ChangedSince(began[q], Id(q))'
  BY <1>1 DEF ChangedSince, ChangedAfter, Success
<1>6. groups'[Id(q)] = groups[Id(q)] => (Exists(Id(q))' <=> Exists(Id(q))) /\ RowOf(Id(q))' = RowOf(Id(q))
  BY <1>1 DEF Exists, RowOf
<1>7. read'[q] <= Len(audit') /\ began'[q] <= Len(audit')
  BY <1>1, <1>3, <1>4
<1>8. (phase[q] = "reading_members" =>
         (Exists(Id(q)) /\ image[q] = RowOf(Id(q))) \/ ChangedSince(read[q], Id(q)))'
  <2> SUFFICES ASSUME phase'[q] = "reading_members"
               PROVE  (Exists(Id(q))' /\ image'[q] = RowOf(Id(q))') \/ ChangedSince(read[q], Id(q))'
    OBVIOUS
  <2>1. Id(q) \in GroupIds
    BY <1>1, <1>2 DEF HandOK
  <2>2. (Exists(Id(q)) /\ image[q] = RowOf(Id(q))) \/ ChangedSince(read[q], Id(q))
    BY <1>1 DEF Current
  <2> QED
    BY <1>1, <1>3, <1>5, <1>6, <2>1, <2>2
<1>9. (Active(q) /\ IsPatch(q) /\ phase[q] \notin {"reading", "reading_members"} =>
         Id(q) \in GroupIds /\ (image[q] = groups[Id(q)] \/ ChangedSince(read[q], Id(q))))'
  <2> SUFFICES ASSUME Active(q)', IsPatch(q)', phase'[q] \notin {"reading", "reading_members"}
               PROVE  /\ Id(q)' \in GroupIds
                      /\ image'[q] = groups'[Id(q)'] \/ ChangedSince(read[q], Id(q))'
    BY DEF Id
  <2>1. Id(q) \in GroupIds /\ (image[q] = groups[Id(q)] \/ ChangedSince(read[q], Id(q)))
    BY <1>1 DEF Current, Active, IsPatch, Op
  <2> QED
    BY <1>1, <1>3, <1>5, <2>1
<1>10. (phase[q] = "begun_members" =>
          (Exists(Id(q)) /\ before[q] = RowOf(Id(q))) \/ ChangedSince(began[q], Id(q)))'
  <2> SUFFICES ASSUME phase'[q] = "begun_members"
               PROVE  (Exists(Id(q))' /\ before'[q] = RowOf(Id(q))') \/ ChangedSince(began[q], Id(q))'
    OBVIOUS
  <2>1. Id(q) \in GroupIds
    BY <1>1, <1>2 DEF HandOK, Reading
  <2>2. (Exists(Id(q)) /\ before[q] = RowOf(Id(q))) \/ ChangedSince(began[q], Id(q))
    BY <1>1 DEF Current
  <2> QED
    BY <1>1, <1>4, <1>5, <1>6, <2>1, <2>2
<1>11. (phase[q] \in {"waiting", "locked", "written"} =>
          before[q] = groups[Id(q)] \/ ChangedSince(began[q], Id(q)))'
  <2> SUFFICES ASSUME phase'[q] \in {"waiting", "locked", "written"}
               PROVE  before'[q] = groups'[Id(q)'] \/ ChangedSince(began[q], Id(q))'
    BY DEF Id
  <2>1. Id(q) \in GroupIds
    BY <1>1, <1>2 DEF HandOK, Reading
  <2>2. before[q] = groups[Id(q)] \/ ChangedSince(began[q], Id(q))
    BY <1>1 DEF Current
  <2> QED
    BY <1>1, <1>4, <1>5, <2>1, <2>2
<1> QED
  BY <1>7, <1>8, <1>9, <1>10, <1>11 DEF Current

\* Reading the members of a group whose row was read makes the group.
LEMMA MembersOfSame ==
  ASSUME TypeInv, NEW g, NEW x, NEW k, (Exists(g) /\ x = RowOf(g)) \/ ChangedSince(k, g)
  PROVE  WithMembers(x, g) = groups[g] \/ ChangedSince(k, g)
BY ReadInTwo DEF Exists

LEMMA ProceedsCurrent ==
  ASSUME OverlapInv, NEW q \in Requests, Proceeds(q)
  PROVE  Current(q)'
<1>1. /\ groups' = groups /\ audit' = audit /\ Id(q)' = Id(q) /\ Op(q)' = Op(q)
      /\ read'[q] = IF phase[q] = "reading" THEN Len(audit) ELSE read[q]
      /\ began'[q] = IF phase[q] = "ready" THEN Len(audit) ELSE began[q]
  BY DEF Proceeds, Id, Op
<1>2. /\ TypeInv /\ HandOK(q) /\ Current(q) /\ Len(audit) \in Nat
      /\ read[q] <= Len(audit) /\ began[q] <= Len(audit)
  BY DEF OverlapInv, TypeInv, TypeOK, Current
<1>3. \A g : (Exists(g)' <=> Exists(g)) /\ RowOf(g)' = RowOf(g)
  BY <1>1 DEF Exists, RowOf
<1>4. /\ phase[q] # "reading" => (ChangedSince(read[q], Id(q)) <=> ChangedSince(read[q], Id(q))')
      /\ phase[q] # "ready" => (ChangedSince(began[q], Id(q)) <=> ChangedSince(began[q], Id(q))')
  BY <1>1 DEF ChangedSince, Success
<1>5. read'[q] <= Len(audit') /\ began'[q] <= Len(audit')
  BY <1>1, <1>2
<1>6. (phase[q] = "reading_members" =>
         (Exists(Id(q)) /\ image[q] = RowOf(Id(q))) \/ ChangedSince(read[q], Id(q)))'
  BY <1>1, <1>3 DEF Proceeds
<1>7. (Active(q) /\ IsPatch(q) /\ phase[q] \notin {"reading", "reading_members"} =>
         Id(q) \in GroupIds /\ (image[q] = groups[Id(q)] \/ ChangedSince(read[q], Id(q))))'
  <2> SUFFICES ASSUME IsPatch(q), phase'[q] \notin {"reading", "reading_members"}
               PROVE  /\ Id(q) \in GroupIds
                      /\ image'[q] = groups[Id(q)] \/ ChangedSince(read[q], Id(q))'
    BY <1>1 DEF IsPatch, Id, Op
  <2>1. CASE phase[q] = "reading_members"
    <3>1. image'[q] = WithMembers(image[q], Id(q)) /\ Id(q) \in GroupIds
      BY <1>2, <2>1 DEF Proceeds, HandOK
    <3>2. (Exists(Id(q)) /\ image[q] = RowOf(Id(q))) \/ ChangedSince(read[q], Id(q))
      BY <1>2, <2>1 DEF Current
    <3>3. WithMembers(image[q], Id(q)) = groups[Id(q)] \/ ChangedSince(read[q], Id(q))
      BY <1>2, <3>2, MembersOfSame
    <3> QED
      BY <1>4, <2>1, <3>1, <3>3
  <2>2. CASE phase[q] # "reading_members"
    <3>1. phase[q] # "reading" /\ image'[q] = image[q] /\ Active(q)
      BY <2>2 DEF Proceeds, Active
    <3>2. Id(q) \in GroupIds /\ (image[q] = groups[Id(q)] \/ ChangedSince(read[q], Id(q)))
      BY <1>2, <2>2, <3>1 DEF Current
    <3> QED
      BY <1>4, <3>1, <3>2
  <2> QED
    BY <2>1, <2>2
<1>8. (phase[q] = "begun_members" =>
         (Exists(Id(q)) /\ before[q] = RowOf(Id(q))) \/ ChangedSince(began[q], Id(q)))'
  BY <1>1, <1>3 DEF Proceeds
<1>9. (phase[q] \in {"waiting", "locked", "written"} =>
         before[q] = groups[Id(q)] \/ ChangedSince(began[q], Id(q)))'
  <2> SUFFICES ASSUME phase'[q] \in {"waiting", "locked", "written"}
               PROVE  before'[q] = groups[Id(q)] \/ ChangedSince(began[q], Id(q))'
    BY <1>1 DEF Id
  <2>1. CASE phase[q] = "begun_members"
    <3>1. before'[q] = WithMembers(before[q], Id(q))
      BY <2>1 DEF Proceeds
    <3>2. (Exists(Id(q)) /\ before[q] = RowOf(Id(q))) \/ ChangedSince(began[q], Id(q))
      BY <1>2, <2>1 DEF Current
    <3>3. WithMembers(before[q], Id(q)) = groups[Id(q)] \/ ChangedSince(began[q], Id(q))
      BY <1>2, <3>2, MembersOfSame
    <3> QED
      BY <1>4, <2>1, <3>1, <3>3
  <2>2. CASE phase[q] = "begun"
    <3>1. Op(q) = "create" /\ before'[q] = before[q] /\ Active(q)
      BY <2>2 DEF Proceeds, Active
    <3>2. before[q] = Absent /\ job[q] \in Job
      BY <1>2, <3>1 DEF HandOK
    <3>3. Id(q) \in GroupIds /\ ~Known(Id(q))
      BY <3>1, <3>2, JobFields DEF OverlapInv, Guarded, Fresh, Op, Id
    <3>4. groups[Id(q)] = Absent
      BY <3>3 DEF OverlapInv, TrailMatchesGroups, Known
    <3> QED
      BY <3>1, <3>2, <3>4
  <2>3. CASE phase[q] \notin {"begun", "begun_members"}
    <3>1. phase[q] \in {"waiting", "locked", "written"} /\ before'[q] = before[q]
      BY <2>3 DEF Proceeds
    <3>2. before[q] = groups[Id(q)] \/ ChangedSince(began[q], Id(q))
      BY <1>2, <3>1 DEF Current
    <3> QED
      BY <1>4, <3>1, <3>2
  <2> QED
    BY <2>1, <2>2, <2>3
<1> QED
  BY <1>5, <1>6, <1>7, <1>8, <1>9 DEF Current

LEMMA OverlapStep ==
  ASSUME OverlapInv, [Next]_vars
  PROVE  OverlapInv'
<1>1. TypeInv /\ TypeInv' /\ Kind /\ TrailMatchesGroups' /\ Guarded'
  BY StepKinds, TrailStep, GuardedStep DEF OverlapInv
<1>2. ASSUME NEW q \in Requests PROVE Current(q)'
  <2>1. Moves(q) /\ Current(q)
    BY <1>1, EveryoneMoves DEF OverlapInv
  <2>2. CASE Ends(q)
    <3>1. Len(audit') \in Nat
      BY <1>1 DEF TypeInv, TypeOK
    <3> QED
      BY <2>2, <3>1 DEF Ends, Current, Active
  <2>3. CASE Arrive(q)
    <3>1. /\ phase'[q] \in {"reading", "ready"} /\ UNCHANGED <<audit, read, began>>
          /\ phase'[q] = "ready" => ~IsPatch(q)'
      <4>1. PICK j \in Job :
              /\ job' = [job EXCEPT ![q] = j]
              /\ phase' = [phase EXCEPT ![q] = IF j.op \in PatchOps THEN "reading" ELSE "ready"]
        BY <2>3 DEF Arrive
      <4>2. job'[q] = j /\ phase'[q] = IF j.op \in PatchOps THEN "reading" ELSE "ready"
        BY <1>1, <4>1 DEF TypeInv, TypeOK
      <4> QED
        BY <2>3, <4>2 DEF Arrive, db, hist, IsPatch, Op
    <3> QED
      BY <2>1, <3>1 DEF Current, Active
  <2>4. CASE Still(q)
    BY <1>1, <2>1, <2>4, StillCurrent
  <2>5. CASE Proceeds(q)
    BY <2>5, ProceedsCurrent
  <2> QED
    BY <2>1, <2>2, <2>3, <2>4, <2>5 DEF Moves
<1> QED
  BY <1>1, <1>2 DEF OverlapInv

LEMMA ChainInit == Init => TrailIsAChain
<1> SUFFICES ASSUME Init, NEW n \in DOMAIN audit, NEW m \in 1..(n - 1), Success(m, audit[n].id)
             PROVE  FALSE
  BY DEF TrailIsAChain
<1>1. DOMAIN audit = DOMAIN Seeds /\ DOMAIN Seeds = 1..Len(Seeds) /\ Len(Seeds) \in Nat
  BY SeedsAssumption DEF Init
<1>2. m \in DOMAIN Seeds /\ n \in DOMAIN Seeds /\ m # n
  BY <1>1
<1>3. audit[n].id = Seeds[n].id /\ audit[m].id = Seeds[m].id
  BY <1>2 DEF Init
<1> QED
  BY <1>2, <1>3, SeedsAssumption DEF Success

LEMMA ChainStep ==
  ASSUME OverlapInv, TrailIsAChain, Kind
  PROVE  TrailIsAChain'
<1>1. TypeInv /\ TrailMatchesGroups /\ Len(audit) \in Nat /\ DOMAIN audit = 1..Len(audit)
  BY DEF OverlapInv, TypeInv, TypeOK
<1>2. ASSUME NEW e \in Entry, audit' = Append(audit, e),
             e.result = "success" =>
               \A m \in DOMAIN audit :
                 (/\ Success(m, e.id)
                  /\ \A k \in (m + 1)..Len(audit) : ~Success(k, e.id))
                   => e.before = audit[m].after \/ e.began < m
      PROVE  TrailIsAChain'
  <2>1. /\ DOMAIN audit' = 1..(Len(audit) + 1)
        /\ audit'[Len(audit) + 1] = e
        /\ \A n \in DOMAIN audit : audit'[n] = audit[n]
    BY <1>1, <1>2, AppendedTrail
  <2> SUFFICES ASSUME NEW n \in 1..(Len(audit) + 1), NEW m \in 1..(n - 1),
                      audit'[n].result = "success", audit'[m].result = "success",
                      audit'[m].id = audit'[n].id,
                      \A k \in (m + 1)..(n - 1) :
                        ~(audit'[k].result = "success" /\ audit'[k].id = audit'[n].id)
               PROVE  audit'[n].before = audit'[m].after \/ audit'[n].began < m
    BY <2>1 DEF TrailIsAChain, Success
  <2>2. m \in DOMAIN audit /\ audit'[m] = audit[m]
    BY <1>1, <2>1
  <2>3. \A k \in (m + 1)..(n - 1) : audit'[k] = audit[k]
    BY <1>1, <2>1
  <2>4. CASE n \in DOMAIN audit
    <3>1. audit'[n] = audit[n]
      BY <2>1, <2>4
    <3> QED
      BY <2>2, <2>3, <2>4, <3>1 DEF TrailIsAChain, Success
  <2>5. CASE n = Len(audit) + 1
    <3>1. audit'[n] = e /\ n - 1 = Len(audit)
      BY <1>1, <2>1, <2>5
    <3> QED
      BY <1>2, <2>2, <2>3, <3>1 DEF Success
  <2> QED
    BY <1>1, <2>4, <2>5
<1>3. CASE audit' = audit
  BY <1>3 DEF TrailIsAChain, Success
<1>4. ASSUME NEW r \in Requests, Dropped(r) PROVE TrailIsAChain'
  BY <1>2, <1>3, <1>4 DEF Dropped
<1>5. ASSUME NEW r \in Requests, Published(r) PROVE TrailIsAChain'
  <2>1. /\ Id(r) \in GroupIds /\ began[r] \in Nat
        /\ before[r] = groups[Id(r)] \/ ChangedSince(began[r], Id(r))
    BY <1>5 DEF Published, OverlapInv, Current, TypeInv, TypeOK
  <2>2. /\ SuccessEntry(r).id = Id(r) /\ SuccessEntry(r).before = before[r]
        /\ SuccessEntry(r).began = began[r]
    BY DEF SuccessEntry
  <2>3. ASSUME NEW m \in DOMAIN audit, Success(m, Id(r)),
               \A k \in (m + 1)..Len(audit) : ~Success(k, Id(r))
        PROVE  before[r] = audit[m].after \/ began[r] < m
    <3>1. PICK n \in DOMAIN audit :
            /\ Success(n, Id(r)) /\ audit[n].after = groups[Id(r)]
            /\ \A k \in DOMAIN audit : Success(k, Id(r)) => k <= n
      BY <1>1, <2>1, <2>3 DEF TrailMatchesGroups
    <3>2. m = n
      BY <1>1, <2>3, <3>1
    <3>3. CASE before[r] = groups[Id(r)]
      BY <3>1, <3>2, <3>3
    <3>4. CASE ChangedSince(began[r], Id(r))
      <4>1. PICK k \in DOMAIN audit : k > began[r] /\ Success(k, Id(r))
        BY <3>4 DEF ChangedSince
      <4> QED
        BY <1>1, <2>1, <3>1, <3>2, <4>1
    <3> QED
      BY <2>1, <3>3, <3>4
  <2> QED
    BY <1>2, <1>5, <2>2, <2>3 DEF Published
<1> QED
  BY <1>3, <1>4, <1>5 DEF Kind, Arrive, Advances, vars, db

\* The audit trail of every group is unbroken but for the one overlap that can
\* break it: where a before-image is not the after-image of the entry before,
\* that entry was committed while the transaction was open.
THEOREM GapsNeedAnOverlap == Spec => []TrailIsAChain
<1>1. OverlapInv /\ TrailIsAChain /\ [Next]_vars => (OverlapInv /\ TrailIsAChain)'
  BY OverlapStep, ChainStep, StepKinds DEF OverlapInv
<1> QED
  BY <1>1, OverlapInit, ChainInit, PTL DEF Spec

\* A transaction that has found the row began after no delete of it.
Deletion(n, g) ==
  audit[n].action = "delete" /\ audit[n].result = "success" /\ audit[n].id = g

SawRow(r) ==
  Reading(r) /\ Op(r) # "create" => \A m \in DOMAIN audit : Deletion(m, Id(r)) => began[r] < m

DeleteInv ==
  /\ OverlapInv /\ Targets /\ DeletedForGood /\ DeletedOnce
  /\ \A r \in Requests : SawRow(r)

LEMMA SawRowStep ==
  ASSUME DeleteInv, [Next]_vars, NEW q \in Requests
  PROVE  SawRow(q)'
<1>1. TypeInv /\ TypeInv' /\ Kind /\ Moves(q) /\ Current(q)
  BY StepKinds, EveryoneMoves DEF DeleteInv, OverlapInv
<1>2. CASE Ends(q) \/ Arrive(q)
  <2>1. ~Reading(q)'
    <3>1. Arrive(q) => phase'[q] \in {"reading", "ready"}
      BY <1>1 DEF Arrive, TypeInv, TypeOK
    <3> QED
      BY <1>2, <3>1 DEF Ends, Reading
  <2> QED
    BY <2>1 DEF SawRow
<1>3. CASE Still(q) \/ (Proceeds(q) /\ Reading(q))
  <2>1. Id(q)' = Id(q) /\ Op(q)' = Op(q) /\ began'[q] = began[q] /\ (Reading(q)' => Reading(q))
    BY <1>3 DEF Still, Proceeds, Reading, Id, Op
  <2>2. \/ audit' = audit
        \/ \E e \in Entry : audit' = Append(audit, e)
    BY <1>1 DEF Kind, vars, db, Arrive, Advances, Dropped, Published
  <2>3. began[q] \in Nat /\ Len(audit) \in Nat /\ began[q] <= Len(audit) /\ SawRow(q)
    BY <1>1 DEF TypeInv, TypeOK, Current, DeleteInv
  <2>4. CASE audit' = audit
    BY <2>1, <2>3, <2>4 DEF SawRow, Deletion
  <2>5. ASSUME NEW e \in Entry, audit' = Append(audit, e) PROVE SawRow(q)'
    <3> SUFFICES ASSUME Reading(q)', Op(q)' # "create", NEW m \in DOMAIN audit',
                        Deletion(m, Id(q))'
                 PROVE  began'[q] < m
      BY DEF SawRow
    <3>1. CASE m \in DOMAIN audit
      <4>1. audit'[m] = audit[m]
        BY <1>1, <2>5, <3>1, AppendedTrail
      <4>2. Deletion(m, Id(q))
        BY <2>1, <4>1 DEF Deletion
      <4> QED
        BY <2>1, <2>3, <3>1, <4>2 DEF SawRow
    <3>2. CASE m \notin DOMAIN audit
      <4>1. m = Len(audit) + 1
        BY <1>1, <2>5, <3>2, AppendedTrail
      <4> QED
        BY <2>1, <2>3, <4>1
    <3> QED
      BY <3>1, <3>2
  <2> QED
    BY <2>2, <2>4, <2>5
<1>4. CASE Proceeds(q) /\ ~Reading(q)
  <2>1. audit' = audit /\ Id(q)' = Id(q) /\ Op(q)' = Op(q)
    BY <1>4 DEF Proceeds, Id, Op
  <2>2. Reading(q)' /\ Op(q) # "create" => Exists(Id(q))
    BY <1>4 DEF Proceeds, Reading
  <2>3. Exists(Id(q)) => \A m \in DOMAIN audit : ~Deletion(m, Id(q))
    BY DEF DeleteInv, DeletedForGood, Exists, Deletion
  <2> QED
    BY <2>1, <2>2, <2>3 DEF SawRow, Deletion
<1> QED
  BY <1>1, <1>2, <1>3, <1>4 DEF Moves

LEMMA OnceDeletedStep ==
  ASSUME DeleteInv, Kind
  PROVE  DeletedOnce'
<1>1. CASE audit' = audit
  BY <1>1 DEF DeleteInv, DeletedOnce
<1>2. ASSUME NEW e \in Entry, audit' = Append(audit, e),
             e.action = "delete" /\ e.result = "success" =>
               \A m \in DOMAIN audit : Deletion(m, e.id) => e.began < m
      PROVE  DeletedOnce'
  <2>1. /\ DOMAIN audit' = 1..(Len(audit) + 1) /\ DOMAIN audit = 1..Len(audit)
        /\ Len(audit) \in Nat /\ audit'[Len(audit) + 1] = e
        /\ \A n \in DOMAIN audit : audit'[n] = audit[n]
    BY <1>2, AppendedTrail DEF DeleteInv, OverlapInv
  <2> SUFFICES ASSUME NEW m \in 1..(Len(audit) + 1), NEW n \in 1..(Len(audit) + 1), m < n,
                      audit'[m].action = "delete", audit'[m].result = "success",
                      audit'[n].action = "delete", audit'[n].result = "success",
                      audit'[m].id = audit'[n].id
               PROVE  audit'[n].began < m
    BY <2>1 DEF DeletedOnce
  <2>2. m \in DOMAIN audit /\ audit'[m] = audit[m]
    BY <2>1
  <2>3. CASE n \in DOMAIN audit
    BY <2>1, <2>2, <2>3 DEF DeleteInv, DeletedOnce
  <2>4. CASE n \notin DOMAIN audit
    <3>1. audit'[n] = e
      BY <2>1, <2>4
    <3>2. Deletion(m, e.id)
      BY <2>2, <3>1 DEF Deletion
    <3> QED
      BY <1>2, <2>2, <3>1, <3>2
  <2> QED
    BY <2>3, <2>4
<1>3. ASSUME NEW r \in Requests, Dropped(r) PROVE DeletedOnce'
  BY <1>1, <1>2, <1>3 DEF Dropped
<1>4. ASSUME NEW r \in Requests, Published(r) PROVE DeletedOnce'
  <2>1. phase[r] = "written" /\ SuccessEntry(r) \in Entry /\ audit' = Append(audit, SuccessEntry(r))
    BY <1>4 DEF Published
  <2>2. /\ SuccessEntry(r).id = Id(r) /\ SuccessEntry(r).action = AuditAction(r)
        /\ SuccessEntry(r).began = began[r]
    BY DEF SuccessEntry
  <2>3. AuditAction(r) = "delete" => Op(r) # "create"
    BY DEF AuditAction
  <2>4. Op(r) # "create" => \A m \in DOMAIN audit : Deletion(m, Id(r)) => began[r] < m
    BY <2>1 DEF DeleteInv, SawRow, Reading
  <2> QED
    BY <1>2, <2>1, <2>2, <2>3, <2>4
<1> QED
  BY <1>1, <1>3, <1>4 DEF Kind, Arrive, Advances, vars, db

\* A group has a second delete on its trail only if that transaction had begun
\* before the first was committed: any later DELETE finds no row in getGroupTx
\* and is refused.
THEOREM SecondDeleteNeedsAnOverlap == Spec => []DeletedOnce
<1>1. Init => DeleteInv
  <2> SUFFICES ASSUME Init PROVE DeleteInv
    OBVIOUS
  <2>1. \A n \in DOMAIN audit : audit[n].action = "create" /\ audit[n].id \in GroupIds
    BY SeedGroup DEF Init
  <2>2. \A r \in Requests : ~Reading(r)
    BY DEF Init, Reading
  <2> QED
    BY <2>1, <2>2, OverlapInit DEF DeleteInv, Targets, DeletedForGood, DeletedOnce, SawRow
<1>2. DeleteInv /\ [Next]_vars => DeleteInv'
  <2> SUFFICES ASSUME DeleteInv, [Next]_vars PROVE DeleteInv'
    OBVIOUS
  <2>1. TypeInv /\ Kind /\ Targets /\ Guarded /\ DeletedForGood
    BY StepKinds DEF DeleteInv, OverlapInv
  <2>2. OverlapInv' /\ Targets' /\ DeletedForGood' /\ DeletedOnce'
    BY <2>1, OverlapStep, TargetsStep, DeletedStep, OnceDeletedStep DEF DeleteInv
  <2>3. \A r \in Requests : SawRow(r)'
    BY SawRowStep
  <2> QED
    BY <2>2, <2>3 DEF DeleteInv
<1>3. DeleteInv => DeletedOnce
  BY DEF DeleteInv
<1> QED
  BY <1>1, <1>2, <1>3, PTL DEF Spec

\* Only a commit changes the groups.
LEMMA WhoWrites ==
  ASSUME TypeInv, [Next]_vars, groups' # groups
  PROVE  \E q \in Requests : Published(q) /\ (Op(q) # "delete" => ~InvalidMember(q))
<1>1. ASSUME NEW r \in Requests, ~(Commit(r) \/ CommitAnswerLost(r)),
             \/ Arrive(r) \/ BadRequest(r) \/ Step(r)
             \/ ExternalIdClash(r) \/ CommitAnswerLost(r) \/ Fail(r)
      PROVE  FALSE
  BY <1>1 DEF Arrive, BadRequest, Step, ExternalIdClash, Fail, GetGroupRow, GetGroupMembers,
              Begin, InsertRow, ReadBeforeRow, ReadBeforeMembers, LockRow, RowGone, CheckName,
              RefuseMembers, Refuse, DeadlockAbort, db
<1>2. PICK r \in Requests : Commit(r) \/ CommitAnswerLost(r)
  BY <1>1 DEF Next, vars, db
<1>3. Published(r)
  <2>1. Publish(r) /\ faults' \in Nat /\ \E a \in Answers : Reply(r, a)
    BY <1>2 DEF Commit, CommitAnswerLost, Answers, TypeInv, TypeOK
  <2> QED
    BY <2>1, PublishStep
<1>4. Op(r) # "delete" => ~InvalidMember(r)
  BY <1>2 DEF Commit, CommitAnswerLost, Publish
<1> QED
  BY <1>3, <1>4

\* When replaceMembers does not complain, it has inserted every member it was given.
LEMMA AllInserted ==
  ASSUME NEW r \in Requests, ~InvalidMember(r), IsFiniteSet(WantedMembers(r))
  PROVE  Inserted(r) = WantedMembers(r)
<1>1. Inserted(r) \in SUBSET WantedMembers(r)
  BY DEF Inserted
<1> QED
  BY <1>1, FS_Subset DEF InvalidMember

\* A patch that adds or removes a member, sets the members or renames the group
\* leaves all else as stored, although it writes back the whole group it read,
\* unless the group was changed after patchGroup had begun to read it.
THEOREM PatchUndoesOnlyUnread == Spec => PatchKeepsOthers
<1> DEFINE Kept(r) ==
      LET old == groups[Id(r)]
          new == groups'[Id(r)]
      IN /\ Op(r) = "add" => new.members = old.members \cup {job[r].member}
         /\ Op(r) = "remove" => new.members = old.members \ {job[r].member}
         /\ Op(r) = "rename" => new.members = old.members
         /\ Op(r) \in {"add", "remove", "set"} => new.name = old.name
<1>1. ASSUME OverlapInv, [Next]_vars, NEW r \in Requests,
             phase[r] = "written", phase'[r] = "done", groups' # groups,
             ~ChangedSince(read[r], Id(r))
      PROVE  Kept(r)
  <2>1. PICK q \in Requests : Published(q) /\ (Op(q) # "delete" => ~InvalidMember(q))
    BY <1>1, WhoWrites DEF OverlapInv
  <2>2. q = r
    BY <1>1, <2>1 DEF Published, Others
  <2>3. Active(r) /\ groups \in [GroupIds -> Group \cup {Absent}] /\ Id(r) \in GroupIds
    BY <1>1, <2>1, <2>2 DEF Active, OverlapInv, TypeInv, TypeOK, Published
  <2>4. groups'[Id(r)] = After(r)
    BY <2>1, <2>2, <2>3 DEF Published
  <2>5. SUFFICES ASSUME IsPatch(r) PROVE Kept(r)
    BY DEF IsPatch, PatchOps
  <2>6. image[r] = groups[Id(r)] /\ image[r] \in Group
    BY <1>1, <2>3, <2>5 DEF OverlapInv, Current, TypeInv, HandOK
  <2>7. After(r) = [name |-> WantedName(r), members |-> Inserted(r), at |-> started[r]]
    BY <2>5 DEF After, IsPatch, PatchOps
  <2>8. After(r).name = WantedName(r) /\ After(r).members = Inserted(r)
    BY <2>7
  <2>9. image[r].members \subseteq Users /\ IsFiniteSet(image[r].members)
    <3>1. image[r].members \in SUBSET Users
      BY <2>6 DEF Group
    <3> QED
      BY <3>1, SetsAssumption, FS_Subset
  <2>10. CASE Op(r) = "add"
    <3>1. WantedMembers(r) = image[r].members \cup {job[r].member}
      BY <2>10 DEF WantedMembers
    <3>2. IsFiniteSet(WantedMembers(r))
      <4>1. IsFiniteSet(image[r].members \cup {job[r].member})
        BY <2>9, FS_AddElement
      <4> QED
        BY <3>1, <4>1
    <3>3. Inserted(r) = WantedMembers(r)
      BY <2>1, <2>2, <2>10, <3>2, AllInserted
    <3>4. WantedName(r) = image[r].name
      BY <2>10 DEF WantedName
    <3> QED
      BY <2>4, <2>6, <2>8, <2>10, <3>1, <3>3, <3>4
  <2>11. CASE Op(r) = "remove"
    <3>1. Inserted(r) = image[r].members \ {job[r].member}
      BY <2>9, <2>11 DEF WantedMembers, Inserted
    <3>2. WantedName(r) = image[r].name
      BY <2>11 DEF WantedName
    <3> QED
      BY <2>4, <2>6, <2>8, <2>11, <3>1, <3>2
  <2>12. CASE Op(r) = "rename"
    <3>1. Inserted(r) = image[r].members
      BY <2>9, <2>12 DEF WantedMembers, Inserted
    <3> QED
      BY <2>4, <2>6, <2>8, <2>12, <3>1
  <2>13. CASE Op(r) = "set"
    <3>1. WantedName(r) = image[r].name
      BY <2>13 DEF WantedName
    <3> QED
      BY <2>4, <2>6, <2>8, <2>13, <3>1
  <2> QED
    BY <2>5, <2>10, <2>11, <2>12, <2>13 DEF IsPatch, PatchOps
<1>2. OverlapInv /\ [Next]_vars => OverlapInv'
  BY OverlapStep
<1>3. OverlapInv /\ [Next]_vars =>
        [\A r \in Requests :
           (phase[r] = "written" /\ phase'[r] = "done" /\ groups' # groups) =>
             LET old == groups[Id(r)]
                 new == groups'[Id(r)]
             IN \/ /\ Op(r) = "add" => new.members = old.members \cup {job[r].member}
                   /\ Op(r) = "remove" => new.members = old.members \ {job[r].member}
                   /\ Op(r) = "rename" => new.members = old.members
                   /\ Op(r) \in {"add", "remove", "set"} => new.name = old.name
                \/ ChangedSince(read[r], Id(r))]_vars
  BY <1>1
<1> QED
  BY <1>2, <1>3, OverlapInit, PTL DEF Spec, PatchKeepsOthers
=============================================================================
