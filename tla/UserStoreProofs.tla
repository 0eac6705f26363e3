-------------------------- MODULE UserStoreProofs ---------------------------
(***************************************************************************)
(* Theorems about module UserStore, for every set of requests, users and   *)
(* names and every number of faults, however the requests overlap.         *)
(***************************************************************************)
EXTENDS UserStore, TLAPS

InTable(r) == phase[r] \in {"waiting", "locked", "written"}
IsPatch(r) == Op(r) \in {"patch_active", "patch_name"}

(***************************************************************************)
(* What a handler has in hand: a request, the row a patch read, and from   *)
(* the snapshot on a stored row with its before-image.                     *)
(***************************************************************************)
HandOK(r) ==
  /\ phase[r] = "new" => before[r] = Absent
  /\ Active(r) => job[r] \in Job
  /\ Active(r) /\ phase[r] # "reading" /\ IsPatch(r) => image[r] \in Row
  /\ phase[r] = "reading" => IsPatch(r)
  /\ InTable(r) => /\ Id(r) \in UserIds
                   /\ Op(r) # "create" => before[r] \in Row /\ users[Id(r)] \in Row
  /\ Active(r) /\ Op(r) = "create" => before[r] = Absent

TypeInv == TypeOK /\ \A r \in Requests : HandOK(r)

LEMMA JobFields ==
  ASSUME NEW j \in Job
  PROVE  /\ j.op \in {"create", "replace", "patch_active", "patch_name", "deactivate"}
         /\ j.id \in UserIds \cup {JunkId}
         /\ j.op = "create" => j.id \in UserIds
         /\ j.op \in {"create", "replace", "patch_name"} => j.name \in Names
         /\ j.op \in {"create", "replace", "patch_active"} => j.active \in BOOLEAN
BY DEF Job

\* The row a transaction writes is a row.
LEMMA AfterRow ==
  ASSUME TypeInv, NEW r \in Requests, InTable(r)
  PROVE  After(r) \in Row /\ After(r) # Absent
<1>1. job[r] \in Job /\ started[r] \in Nat
  BY DEF TypeInv, TypeOK, HandOK, InTable, Active
<1>2. CASE Op(r) = "deactivate"
  <2>1. users[Id(r)] \in Row
    BY <1>2 DEF TypeInv, HandOK
  <2>2. After(r) = [users[Id(r)] EXCEPT !.active = FALSE, !.at = started[r]]
    BY <1>2 DEF After
  <2> QED
    BY <1>1, <2>1, <2>2, SeedsAssumption DEF Row
<1>3. CASE Op(r) \in {"create", "replace"}
  <2>1. After(r) = [name |-> job[r].name, active |-> job[r].active, at |-> started[r]]
    BY <1>3 DEF After
  <2>2. job[r].name \in Names /\ job[r].active \in BOOLEAN
    BY <1>1, <1>3, JobFields DEF Op
  <2> QED
    BY <1>1, <2>1, <2>2, SeedsAssumption DEF Row
<1>4. CASE IsPatch(r)
  <2>1. image[r] \in Row
    BY <1>4 DEF TypeInv, HandOK, InTable, Active
  <2>2. After(r) = [Folded(r) EXCEPT !.at = started[r]]
    BY <1>4 DEF After, IsPatch
  <2>3. Folded(r) \in Row
    <3>1. CASE Op(r) = "patch_active"
      <4>1. job[r].active \in BOOLEAN
        BY <1>1, <3>1, JobFields DEF Op
      <4> QED
        BY <2>1, <3>1, <4>1 DEF Folded, Row
    <3>2. CASE Op(r) = "patch_name"
      <4>1. job[r].name \in Names
        BY <1>1, <3>2, JobFields DEF Op
      <4> QED
        BY <2>1, <3>2, <4>1 DEF Folded, Row
    <3> QED
      BY <1>4, <3>1, <3>2 DEF IsPatch
  <2> QED
    BY <1>1, <2>2, <2>3, SeedsAssumption DEF Row
<1> QED
  BY <1>1, <1>2, <1>3, <1>4, JobFields DEF Op, IsPatch

\* What a request that is being answered leaves in its hands.
LEMMA ReplyHands ==
  ASSUME TypeInv, NEW r \in Requests, NEW a \in Answers, Reply(r, a)
  PROVE  /\ phase' \in [Requests -> Phases] /\ job' \in [Requests -> Job \cup {None}]
         /\ image' \in [Requests -> Row \cup {Absent}]
         /\ started' \in [Requests -> Nat]
         /\ before' \in [Requests -> Row \cup {Absent}]
         /\ answer' \in [Requests -> Answers]
         /\ read' \in [Requests -> Nat] /\ began' \in [Requests -> Nat]
         /\ phase'[r] = "done"
         /\ \A q \in Requests \ {r} :
              /\ phase'[q] = phase[q] /\ job'[q] = job[q] /\ image'[q] = image[q]
              /\ before'[q] = before[q]
<1> USE DEF TypeInv, TypeOK, Reply
<1>1. phase' \in [Requests -> Phases] /\ phase'[r] = "done"
  BY DEF Phases
<1>2. job' \in [Requests -> Job \cup {None}]
  OBVIOUS
<1>3. /\ image' \in [Requests -> Row \cup {Absent}]
      /\ before' \in [Requests -> Row \cup {Absent}]
  OBVIOUS
<1>4. started' \in [Requests -> Nat] /\ answer' \in [Requests -> Answers]
  OBVIOUS
<1>5. \A q \in Requests \ {r} :
        /\ phase'[q] = phase[q] /\ job'[q] = job[q] /\ image'[q] = image[q]
        /\ before'[q] = before[q]
  OBVIOUS
<1>6. read' \in [Requests -> Nat] /\ began' \in [Requests -> Nat]
  OBVIOUS
<1> QED
  BY <1>1, <1>2, <1>3, <1>4, <1>5, <1>6

\* The hands of everybody else survive a step of r that keeps rows rows.
LEMMA OtherHands ==
  ASSUME TypeInv, NEW r \in Requests,
         \A u \in UserIds : users[u] \in Row => users'[u] \in Row,
         \A q \in Requests \ {r} :
           /\ phase'[q] = phase[q] /\ job'[q] = job[q] /\ image'[q] = image[q]
           /\ before'[q] = before[q],
         HandOK(r)'
  PROVE  \A q \in Requests : HandOK(q)'
<1> SUFFICES ASSUME NEW q \in Requests, q # r PROVE HandOK(q)'
  OBVIOUS
<1>1. HandOK(q)
  BY DEF TypeInv
<1>2. phase'[q] = phase[q] /\ job'[q] = job[q] /\ image'[q] = image[q] /\ before'[q] = before[q]
  OBVIOUS
<1> QED
  BY <1>1, <1>2 DEF HandOK, Active, InTable, IsPatch, Op, Id

LEMMA AppendEntry ==
  ASSUME NEW S, NEW s \in Seq(S), NEW e \in S
  PROVE  /\ Append(s, e) \in Seq(S)
         /\ DOMAIN Append(s, e) = 1..(Len(s) + 1) /\ DOMAIN s = 1..Len(s) /\ Len(s) \in Nat
         /\ Append(s, e)[Len(s) + 1] = e
         /\ \A n \in DOMAIN s : Append(s, e)[n] = s[n]
OBVIOUS

-----------------------------------------------------------------------------
(* The kinds of steps, told apart by what they do to the tables. *)

\* Nothing is stored; at most a refusal is put on record.
Quiet ==
  /\ users' = users /\ events' = events
  /\ \/ audit' = audit
     \/ \E e \in Entry : /\ e.result = "denied" /\ e.before = Absent /\ audit' = Append(audit, e)
                        /\ e.at = clock + 1 /\ e.began = Len(audit) /\ clock' = clock + 1

\* Request r's transaction becomes visible.
Published(r) ==
  /\ phase[r] = "written" /\ phase'[r] = "done" /\ InTable(r)
  /\ \A q \in Requests \ {r} : phase'[q] = phase[q]
  /\ After(r) \in Row /\ SuccessEntry(r) \in Entry
  /\ users' = [users EXCEPT ![Id(r)] = After(r)]
  /\ audit' = Append(audit, SuccessEntry(r))
  /\ events' = enqueueChange(r)

LEMMA ReleaseType ==
  ASSUME TypeInv, NEW r \in Requests, Release(r)
  PROVE  holder' \in [UserIds -> Requests \cup {None}]
BY DEF TypeInv, TypeOK, Release

LEMMA RefuseStep ==
  ASSUME TypeInv, NEW r \in Requests, NEW a \in Answers, Active(r), Refuse(r, a)
  PROVE  TypeInv' /\ Quiet
<1>1. job[r] \in Job /\ r \in Requests
  BY DEF TypeInv, HandOK
<1>2. Id(r) # JunkId => Id(r) \in UserIds
  BY <1>1, JobFields DEF Id
<1>3. AuditAction(r) \in {"create", "replace", "deactivate"}
  BY <1>1, JobFields DEF AuditAction, Op
<1> DEFINE e == [req |-> r, action |-> AuditAction(r), result |-> "denied",
                 id |-> IF Op(r) = "create" THEN Absent ELSE Id(r),
                 before |-> Absent, after |-> Absent, at |-> clock + 1, began |-> Len(audit)]
<1>a. clock \in Nat /\ Len(audit) \in Nat
  BY DEF TypeInv, TypeOK
<1>4. Id(r) # JunkId => e \in Entry
  BY <1>2, <1>3, <1>a DEF Entry
<1>5. \/ audit' = audit
      \/ e \in Entry /\ audit' = Append(audit, e) /\ clock' = clock + 1
  BY <1>4 DEF Refuse
<1>6. audit' \in Seq(Entry)
  <2> HIDE DEF e
  <2>1. audit \in Seq(Entry)
    BY DEF TypeInv, TypeOK
  <2> QED
    BY <1>5, <2>1, AppendEntry
<1>7. Quiet
  BY <1>5 DEF Quiet, Refuse
<1>8. TypeOK'
  <2>1. faults' \in Nat /\ clock' \in Nat
    BY <1>a DEF Refuse, TypeInv, TypeOK
  <2>2. holder' \in [UserIds -> Requests \cup {None}]
    BY ReleaseType DEF Refuse, Rollback
  <2>3. Reply(r, a) /\ UNCHANGED <<users, events>>
    BY DEF Refuse
  <2> QED
    BY <1>6, <2>1, <2>2, <2>3, ReplyHands DEF TypeInv, TypeOK
<1>9. \A q \in Requests : HandOK(q)'
  <2>1. Reply(r, a) /\ UNCHANGED users
    BY DEF Refuse
  <2>2. HandOK(r)'
    BY <2>1, ReplyHands DEF HandOK, Active, InTable
  <2> QED
    BY <2>1, <2>2, ReplyHands, OtherHands
<1> QED
  BY <1>7, <1>8, <1>9 DEF TypeInv

\* An answer that stores nothing and records nothing.
LEMMA PlainReply ==
  ASSUME TypeInv, NEW r \in Requests, NEW a \in Answers, Reply(r, a),
         UNCHANGED <<users, audit, events, clock>>, faults' \in Nat,
         holder' \in [UserIds -> Requests \cup {None}]
  PROVE  TypeInv' /\ Quiet
<1>1. TypeOK'
  BY ReplyHands DEF TypeInv, TypeOK
<1>2. HandOK(r)'
  BY ReplyHands DEF HandOK, Active, InTable
<1>3. \A q \in Requests : HandOK(q)'
  BY <1>2, ReplyHands, OtherHands
<1> QED
  BY <1>1, <1>3 DEF TypeInv, Quiet

LEMMA PublishStep ==
  ASSUME TypeInv, NEW r \in Requests, NEW a \in Answers, phase[r] = "written",
         Publish(r), Reply(r, a), faults' \in Nat
  PROVE  TypeInv' /\ Published(r)
<1>1. InTable(r) /\ Active(r) /\ job[r] \in Job /\ Id(r) \in UserIds
  BY DEF InTable, Active, TypeInv, HandOK
<1>2. After(r) \in Row
  BY <1>1, AfterRow
<1>3. before[r] \in Row \cup {Absent}
  BY DEF TypeInv, TypeOK
<1>4. SuccessEntry(r) \in Entry
  <2>1. AuditAction(r) \in {"create", "replace", "deactivate"}
    BY <1>1, JobFields DEF AuditAction, Op
  <2>2. started[r] \in Nat /\ began[r] \in Nat
    BY DEF TypeInv, TypeOK
  <2> QED
    BY <1>1, <1>2, <1>3, <2>1, <2>2 DEF SuccessEntry, Entry
<1> DEFINE v == [req |-> r, type |-> EventType(r), id |-> Id(r),
                 before |-> before[r], after |-> After(r)]
<1>5. v \in Event
  <2>1. EventType(r) \in Types
    BY DEF EventType, changeEventType, Types
  <2> QED
    BY <1>1, <1>2, <1>3, <2>1 DEF Event
<1>6. audit' = Append(audit, SuccessEntry(r)) /\ events' = Append(events, v)
  BY DEF Publish, enqueueChange
<1>7. audit' \in Seq(Entry) /\ events' \in Seq(Event)
  BY <1>4, <1>5, <1>6, AppendEntry DEF TypeInv, TypeOK
<1>8. users' = [users EXCEPT ![Id(r)] = After(r)] /\ clock' = clock
  BY DEF Publish
<1>9. holder' \in [UserIds -> Requests \cup {None}]
  BY ReleaseType DEF Publish
<1>10. TypeOK'
  <2>1. users' \in [UserIds -> Row \cup {Absent}]
    BY <1>1, <1>2, <1>8 DEF TypeInv, TypeOK
  <2>2. clock' \in Nat
    BY <1>8 DEF TypeInv, TypeOK
  <2> QED
    BY <1>7, <1>9, <2>1, <2>2, ReplyHands DEF TypeOK
<1>11. \A u \in UserIds : users[u] \in Row => users'[u] \in Row
  BY <1>1, <1>2, <1>8 DEF TypeInv, TypeOK
<1>12. HandOK(r)'
  BY ReplyHands DEF HandOK, Active, InTable
<1>13. \A q \in Requests : HandOK(q)'
  BY <1>11, <1>12, ReplyHands, OtherHands
<1>14. Published(r)
  BY <1>1, <1>2, <1>4, <1>6, <1>8, ReplyHands DEF Published, Publish
<1> QED
  BY <1>10, <1>13, <1>14 DEF TypeInv

-----------------------------------------------------------------------------
(* Type correctness. *)

LEMMA ElementOf ==
  ASSUME NEW S, NEW s \in Seq(S), NEW n \in DOMAIN s
  PROVE  s[n] \in S
OBVIOUS

LEMMA SeedRow == \A n \in DOMAIN Seeds : Seed(n) \in Row /\ Seeds[n].id \in UserIds
<1> SUFFICES ASSUME NEW n \in DOMAIN Seeds
             PROVE  Seed(n) \in Row /\ Seeds[n].id \in UserIds
  OBVIOUS
<1>1. Seeds[n] \in [id : UserIds, name : Names, active : BOOLEAN]
  BY SeedsAssumption, ElementOf
<1>2. Seeds[n].id \in UserIds /\ Seeds[n].name \in Names /\ Seeds[n].active \in BOOLEAN
  BY <1>1
<1> QED
  BY <1>2 DEF Seed, Row

LEMMA TypeInvInit == Init => TypeInv
<1> SUFFICES ASSUME Init PROVE TypeInv
  OBVIOUS
<1>1. users \in [UserIds -> Row \cup {Absent}]
  <2> SUFFICES ASSUME NEW u \in UserIds, \E n \in DOMAIN Seeds : Seeds[n].id = u
               PROVE  Seed(CHOOSE n \in DOMAIN Seeds : Seeds[n].id = u) \in Row
    BY DEF Init
  <2> QED
    BY SeedRow
<1>2. audit \in Seq(Entry)
  <2>2. DOMAIN Seeds = 1..Len(Seeds) /\ Len(Seeds) \in Nat
    BY SeedsAssumption
  <2>1. \A n \in DOMAIN Seeds :
          [req |-> None, action |-> "create", result |-> "success", id |-> Seeds[n].id,
           before |-> Absent, after |-> Seed(n), at |-> 0, began |-> 0] \in Entry
    BY SeedRow DEF Entry
  <2> QED
    BY <2>1, <2>2 DEF Init
<1>3. events \in Seq(Event)
  <2>1. \A n \in DOMAIN Seeds :
          [req |-> None, type |-> "user.created", id |-> Seeds[n].id,
           before |-> Absent, after |-> Seed(n)] \in Event
    BY SeedRow DEF Event, Types
  <2>2. DOMAIN Seeds = 1..Len(Seeds) /\ Len(Seeds) \in Nat
    BY SeedsAssumption
  <2> QED
    BY <2>1, <2>2 DEF Init
<1>4. TypeOK
  BY <1>1, <1>2, <1>3 DEF Init, TypeOK, Phases, Answers
<1>5. \A r \in Requests : HandOK(r)
  BY DEF Init, HandOK, Active, InTable
<1> QED
  BY <1>4, <1>5 DEF TypeInv

LEMMA StepKinds ==
  TypeInv /\ [Next]_vars => TypeInv' /\ (Quiet \/ \E r \in Requests : Published(r))
<1> SUFFICES ASSUME TypeInv, [Next]_vars
             PROVE  TypeInv' /\ (Quiet \/ \E r \in Requests : Published(r))
  OBVIOUS
<1> USE DEF db, reqs, hist
<1>1. ASSUME NEW r \in Requests, Arrive(r) PROVE TypeInv' /\ Quiet
  <2>1. PICK j \in Job :
          /\ job' = [job EXCEPT ![r] = j]
          /\ phase' = [phase EXCEPT ![r] =
                         IF j.op \in {"patch_active", "patch_name"} THEN "reading" ELSE "ready"]
    BY <1>1 DEF Arrive
  <2>2. phase[r] = "new" /\ UNCHANGED <<db, image, started, before, answer, hist, faults>>
    BY <1>1 DEF Arrive
  <2>3. TypeOK'
    BY <2>1, <2>2 DEF TypeInv, TypeOK, Phases
  <2>4. job'[r] = j /\ phase'[r] = (IF j.op \in {"patch_active", "patch_name"} THEN "reading" ELSE "ready")
    BY <2>1 DEF TypeInv, TypeOK
  <2>5. before[r] = Absent
    BY <2>2 DEF TypeInv, HandOK
  <2>6. HandOK(r)'
    BY <2>2, <2>4, <2>5 DEF HandOK, Active, InTable, IsPatch, Op
  <2>7. \A q \in Requests : HandOK(q)'
    BY <2>1, <2>2, <2>6, OtherHands DEF TypeInv, TypeOK
  <2> QED
    BY <2>2, <2>3, <2>7 DEF TypeInv, Quiet
<1>2. ASSUME NEW r \in Requests, BadRequest(r) PROVE TypeInv' /\ Quiet
  BY <1>2, PlainReply DEF BadRequest, Answers, TypeInv, TypeOK
<1>3. ASSUME NEW r \in Requests, GetUserForPatch(r) PROVE TypeInv' /\ Quiet
  <2>1. CASE ~Exists(Id(r))
    BY <1>3, <2>1, PlainReply DEF GetUserForPatch, Answers, TypeInv, TypeOK
  <2>2. CASE Exists(Id(r))
    <3>1. users[Id(r)] \in Row
      BY <2>2 DEF Exists, TypeInv, TypeOK
    <3>2. /\ phase[r] = "reading" /\ UNCHANGED <<db, job, started, before, answer, began, faults>>
          /\ image' = [image EXCEPT ![r] = users[Id(r)]]
          /\ phase' = [phase EXCEPT ![r] = "ready"]
          /\ read' = [read EXCEPT ![r] = Len(audit)]
      BY <1>3, <2>2 DEF GetUserForPatch
    <3>3. TypeOK'
      <4>1. Len(audit) \in Nat
        BY DEF TypeInv, TypeOK
      <4> QED
        BY <3>1, <3>2, <4>1 DEF TypeInv, TypeOK, Phases
    <3>4. image'[r] \in Row /\ phase'[r] = "ready"
      BY <3>1, <3>2 DEF TypeInv, TypeOK
    <3>5. HandOK(r)'
      BY <3>2, <3>4 DEF TypeInv, HandOK, Active, InTable, IsPatch, Op
    <3>6. \A q \in Requests : HandOK(q)'
      BY <3>2, <3>5, OtherHands DEF TypeInv, TypeOK
    <3> QED
      BY <3>2, <3>3, <3>6 DEF TypeInv, Quiet
  <2> QED
    BY <2>1, <2>2
<1>4. ASSUME NEW r \in Requests, Begin(r) PROVE TypeInv' /\ Quiet
  <2>1. TypeOK'
    <3>1. Len(audit) \in Nat
      BY DEF TypeInv, TypeOK
    <3> QED
      BY <1>4, <3>1 DEF Begin, TypeInv, TypeOK, Phases
  <2>2. phase[r] = "ready" /\ phase'[r] = "begun" /\ UNCHANGED <<users, job, image, before>>
    BY <1>4 DEF Begin, TypeInv, TypeOK
  <2>3. HandOK(r)'
    BY <2>2 DEF TypeInv, HandOK, Active, InTable, IsPatch, Op
  <2>4. \A q \in Requests : HandOK(q)'
    BY <1>4, <2>2, <2>3, OtherHands DEF Begin, TypeInv, TypeOK
  <2> QED
    BY <1>4, <2>1, <2>4 DEF Begin, TypeInv, Quiet
<1>5. ASSUME NEW r \in Requests, InsertRow(r) PROVE TypeInv' /\ Quiet
  <2>1. Active(r) /\ job[r] \in Job /\ Id(r) \in UserIds
    BY <1>5, JobFields DEF InsertRow, Active, TypeInv, HandOK, Op, Id
  <2>2. TypeOK'
    BY <1>5, <2>1 DEF InsertRow, TypeInv, TypeOK, Phases
  <2>3. phase[r] = "begun" /\ phase'[r] = "locked" /\ UNCHANGED <<users, job, image, before>>
    BY <1>5 DEF InsertRow, TypeInv, TypeOK
  <2>4. HandOK(r)'
    BY <1>5, <2>1, <2>3 DEF InsertRow, TypeInv, HandOK, Active, InTable, IsPatch, Op, Id
  <2>5. \A q \in Requests : HandOK(q)'
    BY <1>5, <2>3, <2>4, OtherHands DEF InsertRow, TypeInv, TypeOK
  <2> QED
    BY <1>5, <2>2, <2>5 DEF InsertRow, TypeInv, Quiet
<1>6. ASSUME NEW r \in Requests, TakeSnapshot(r) PROVE TypeInv' /\ Quiet
  <2>1. CASE ~Exists(Id(r))
    BY <1>6, <2>1, RefuseStep DEF TakeSnapshot, Answers, Active
  <2>2. CASE Exists(Id(r))
    <3>1. users[Id(r)] \in Row /\ Id(r) \in UserIds
      BY <2>2 DEF Exists, TypeInv, TypeOK
    <3>2. /\ phase[r] = "begun" /\ UNCHANGED <<db, job, image, started, answer, hist, faults>>
          /\ before' = [before EXCEPT ![r] = users[Id(r)]]
          /\ phase' = [phase EXCEPT ![r] = "waiting"] /\ Op(r) # "create"
      BY <1>6, <2>2 DEF TakeSnapshot
    <3>3. TypeOK'
      BY <3>1, <3>2 DEF TypeInv, TypeOK, Phases
    <3>4. before'[r] \in Row /\ phase'[r] = "waiting"
      BY <3>1, <3>2 DEF TypeInv, TypeOK
    <3>5. HandOK(r)'
      BY <3>1, <3>2, <3>4 DEF TypeInv, HandOK, Active, InTable, IsPatch, Op, Id
    <3>6. \A q \in Requests : HandOK(q)'
      BY <3>2, <3>5, OtherHands DEF TypeInv, TypeOK
    <3> QED
      BY <3>2, <3>3, <3>6 DEF TypeInv, Quiet
  <2> QED
    BY <2>1, <2>2
<1>7. ASSUME NEW r \in Requests, LockRow(r) PROVE TypeInv' /\ Quiet
  <2>1. Id(r) \in UserIds /\ phase[r] = "waiting"
    BY <1>7 DEF LockRow, TypeInv, HandOK, InTable
  <2>2. TypeOK'
    BY <1>7, <2>1 DEF LockRow, TypeInv, TypeOK, Phases
  <2>3. phase'[r] = "locked" /\ UNCHANGED <<users, job, image, before>>
    BY <1>7 DEF LockRow, TypeInv, TypeOK
  <2>4. HandOK(r)'
    BY <2>1, <2>3 DEF TypeInv, HandOK, Active, InTable, IsPatch, Op, Id
  <2>5. \A q \in Requests : HandOK(q)'
    BY <1>7, <2>3, <2>4, OtherHands DEF LockRow, TypeInv, TypeOK
  <2> QED
    BY <1>7, <2>2, <2>5 DEF LockRow, TypeInv, Quiet
<1>8. ASSUME NEW r \in Requests, CheckName(r) PROVE TypeInv' /\ Quiet
  <2>1. CASE TakesName(r) /\ NameTaken(r)
    BY <1>8, <2>1, RefuseStep DEF CheckName, Answers, Active
  <2>2. CASE ~(TakesName(r) /\ NameTaken(r))
    <3>1. /\ phase[r] = "locked" /\ UNCHANGED <<db, job, image, started, before, answer, hist, faults>>
          /\ phase' = [phase EXCEPT ![r] = "written"]
      BY <1>8, <2>2 DEF CheckName
    <3>2. TypeOK'
      BY <3>1 DEF TypeInv, TypeOK, Phases
    <3>3. phase'[r] = "written"
      BY <3>1 DEF TypeInv, TypeOK
    <3>4. HandOK(r)'
      BY <3>1, <3>3 DEF TypeInv, HandOK, Active, InTable, IsPatch, Op, Id
    <3>5. \A q \in Requests : HandOK(q)'
      BY <3>1, <3>4, OtherHands DEF TypeInv, TypeOK
    <3> QED
      BY <3>1, <3>2, <3>5 DEF TypeInv, Quiet
  <2> QED
    BY <2>1, <2>2
<1>9. ASSUME NEW r \in Requests, Commit(r) \/ CommitAnswerLost(r) PROVE TypeInv' /\ Published(r)
  <2>1. faults' \in Nat /\ phase[r] = "written" /\ Publish(r)
    BY <1>9 DEF Commit, CommitAnswerLost, TypeInv, TypeOK
  <2>2. \E a \in Answers : Reply(r, a)
    BY <1>9 DEF Commit, CommitAnswerLost, Answers
  <2> QED
    BY <2>1, <2>2, PublishStep
<1>10. ASSUME NEW r \in Requests, Fail(r) PROVE TypeInv' /\ Quiet
  <2>1. faults' \in Nat /\ Reply(r, "error") /\ UNCHANGED <<users, audit, events, clock>>
    BY <1>10 DEF Fail, TypeInv, TypeOK
  <2>2. holder' \in [UserIds -> Requests \cup {None}]
    BY <1>10, ReleaseType DEF Fail, Rollback
  <2> QED
    BY <2>1, <2>2, PlainReply DEF Answers
<1>11. ASSUME NEW r \in Requests, DeadlockAbort(r) \/ ExternalIdClash(r) PROVE TypeInv' /\ Quiet
  BY <1>11, PlainReply, ReleaseType DEF DeadlockAbort, ExternalIdClash, Rollback, Answers, TypeInv, TypeOK
<1>12. CASE UNCHANGED vars
  BY <1>12 DEF vars, TypeInv, TypeOK, Quiet, HandOK, Active, InTable, IsPatch, Op, Id
<1> QED
  BY <1>1, <1>2, <1>3, <1>4, <1>5, <1>6, <1>7, <1>8, <1>9, <1>10, <1>11, <1>12 DEF Next, Step

\* Type correctness: requests that interleave and fail in any order put only
\* well-formed rows, audit entries and events in the tables.
THEOREM TypeCorrect == Spec => []TypeOK
<1>1. TypeInv => TypeOK
  BY DEF TypeInv
<1> QED
  BY <1>1, TypeInvInit, StepKinds, PTL DEF Spec

-----------------------------------------------------------------------------
(* The trail and the table. *)

LEMMA TrailInit == Init => TrailMatchesRows
<1> SUFFICES ASSUME Init, NEW u \in UserIds
             PROVE  \/ users[u] = Absent /\ \A n \in DOMAIN audit : ~Success(n, u)
                    \/ \E n \in DOMAIN audit :
                         /\ Success(n, u) /\ audit[n].after = users[u]
                         /\ \A m \in DOMAIN audit : Success(m, u) => m <= n
  BY DEF TrailMatchesRows
<1>1. DOMAIN audit = DOMAIN Seeds /\ DOMAIN Seeds = 1..Len(Seeds) /\ Len(Seeds) \in Nat
  BY SeedsAssumption DEF Init
<1>2. \A n \in DOMAIN Seeds :
        /\ audit[n].result = "success" /\ audit[n].id = Seeds[n].id /\ audit[n].after = Seed(n)
  BY DEF Init
<1>3. CASE \E n \in DOMAIN Seeds : Seeds[n].id = u
  <2> DEFINE k == CHOOSE n \in DOMAIN Seeds : Seeds[n].id = u
  <2>1. k \in DOMAIN Seeds /\ Seeds[k].id = u
    BY <1>3
  <2>2. users[u] = Seed(k)
    BY <1>3 DEF Init
  <2> HIDE DEF k
  <2>3. Success(k, u) /\ audit[k].after = users[u]
    BY <1>2, <2>1, <2>2 DEF Success
  <2>4. \A m \in DOMAIN audit : Success(m, u) => m = k
    BY <1>1, <1>2, <2>1, SeedsAssumption DEF Success
  <2> QED
    BY <1>1, <2>1, <2>3, <2>4
<1>4. CASE ~\E n \in DOMAIN Seeds : Seeds[n].id = u
  BY <1>1, <1>2, <1>4 DEF Init, Success
<1> QED
  BY <1>3, <1>4

\* What an appended entry does to the entries there are.
LEMMA AppendedTrail ==
  ASSUME TypeInv, NEW e \in Entry, audit' = Append(audit, e)
  PROVE  /\ Len(audit) \in Nat /\ DOMAIN audit = 1..Len(audit)
         /\ DOMAIN audit' = 1..(Len(audit) + 1)
         /\ audit'[Len(audit) + 1] = e
         /\ \A n \in DOMAIN audit : audit'[n] = audit[n]
BY AppendEntry DEF TypeInv, TypeOK

LEMMA TrailStep ==
  ASSUME TypeInv, TrailMatchesRows, Quiet \/ \E r \in Requests : Published(r)
  PROVE  TrailMatchesRows'
<1>1. CASE Quiet /\ audit' = audit
  BY <1>1 DEF Quiet, TrailMatchesRows, Success
<1>2. CASE Quiet /\ audit' # audit
  <2>1. PICK e \in Entry : e.result = "denied" /\ audit' = Append(audit, e)
    BY <1>2 DEF Quiet
  <2>2. users' = users /\ audit'[Len(audit) + 1].result = "denied"
    BY <1>2, <2>1, AppendedTrail DEF Quiet
  <2> SUFFICES ASSUME NEW u \in UserIds
               PROVE  (\/ users[u] = Absent /\ \A n \in DOMAIN audit : ~Success(n, u)
                       \/ \E n \in DOMAIN audit :
                            /\ Success(n, u) /\ audit[n].after = users[u]
                            /\ \A m \in DOMAIN audit : Success(m, u) => m <= n)'
    BY DEF TrailMatchesRows
  <2>3. CASE users[u] = Absent /\ \A n \in DOMAIN audit : ~Success(n, u)
    BY <2>1, <2>2, <2>3, AppendedTrail DEF Success
  <2>4. CASE \E n \in DOMAIN audit :
               /\ Success(n, u) /\ audit[n].after = users[u]
               /\ \A m \in DOMAIN audit : Success(m, u) => m <= n
    BY <2>1, <2>2, <2>4, AppendedTrail DEF Success
  <2> QED
    BY <2>3, <2>4 DEF TrailMatchesRows
<1>3. ASSUME NEW r \in Requests, Published(r) PROVE TrailMatchesRows'
  <2>1. /\ Id(r) \in UserIds /\ SuccessEntry(r) \in Entry
        /\ audit' = Append(audit, SuccessEntry(r))
        /\ users' = [users EXCEPT ![Id(r)] = After(r)]
    BY <1>3 DEF Published, TypeInv, HandOK
  <2>2. audit'[Len(audit) + 1] = SuccessEntry(r)
    BY <2>1, AppendedTrail
  <2>3. /\ audit'[Len(audit) + 1].result = "success"
        /\ audit'[Len(audit) + 1].id = Id(r)
        /\ audit'[Len(audit) + 1].after = After(r)
    BY <2>2 DEF SuccessEntry
  <2> SUFFICES ASSUME NEW u \in UserIds
               PROVE  (\/ users[u] = Absent /\ \A n \in DOMAIN audit : ~Success(n, u)
                       \/ \E n \in DOMAIN audit :
                            /\ Success(n, u) /\ audit[n].after = users[u]
                            /\ \A m \in DOMAIN audit : Success(m, u) => m <= n)'
    BY DEF TrailMatchesRows
  <2>4. CASE u = Id(r)
    <3>1. users'[u] = After(r)
      BY <2>1, <2>4 DEF TypeInv, TypeOK
    <3> QED
      BY <2>1, <2>3, <2>4, <3>1, AppendedTrail DEF Success
  <2>5. CASE u # Id(r)
    <3>1. users'[u] = users[u] /\ audit'[Len(audit) + 1].id # u
      BY <2>1, <2>3, <2>5 DEF TypeInv, TypeOK
    <3>2. CASE users[u] = Absent /\ \A n \in DOMAIN audit : ~Success(n, u)
      BY <2>1, <3>1, <3>2, AppendedTrail DEF Success
    <3>3. CASE \E n \in DOMAIN audit :
                 /\ Success(n, u) /\ audit[n].after = users[u]
                 /\ \A m \in DOMAIN audit : Success(m, u) => m <= n
      BY <2>1, <3>1, <3>3, AppendedTrail DEF Success
    <3> QED
      BY <3>2, <3>3 DEF TrailMatchesRows
  <2> QED
    BY <2>4, <2>5
<1> QED
  BY <1>1, <1>2, <1>3

\* The newest successful audit entry of a user always holds the row that is
\* stored, whatever requests overlap, fail or lose their answer: the trail is
\* never behind the table nor ahead of it.
THEOREM TrailNeverParts == Spec => []TrailMatchesRows
<1>1. TypeInv /\ TrailMatchesRows /\ [Next]_vars => (TypeInv /\ TrailMatchesRows)'
  BY StepKinds, TrailStep
<1> QED
  BY <1>1, TypeInvInit, TrailInit, PTL DEF Spec

-----------------------------------------------------------------------------
(* How one request moves, whichever request takes the step. *)

Still(q) ==
  /\ phase'[q] = phase[q] /\ job'[q] = job[q] /\ image'[q] = image[q]
  /\ started'[q] = started[q] /\ before'[q] = before[q]
  /\ read'[q] = read[q] /\ began'[q] = began[q]

Advances(q) ==
  /\ UNCHANGED <<users, events, audit>> /\ job'[q] = job[q]
  /\ \/ /\ phase[q] = "reading" /\ phase'[q] = "ready" /\ Exists(Id(q))
        /\ image'[q] = users[Id(q)] /\ before'[q] = before[q] /\ started'[q] = started[q]
        /\ read'[q] = Len(audit) /\ began'[q] = began[q]
     \/ /\ phase[q] = "ready" /\ phase'[q] = "begun"
        /\ started'[q] = clock + 1 /\ clock' = clock + 1
        /\ image'[q] = image[q] /\ before'[q] = before[q]
        /\ read'[q] = read[q] /\ began'[q] = Len(audit)
     \/ /\ phase[q] = "begun" /\ phase'[q] = "waiting" /\ Exists(Id(q)) /\ Op(q) # "create"
        /\ before'[q] = users[Id(q)] /\ image'[q] = image[q] /\ started'[q] = started[q]
        /\ read'[q] = read[q] /\ began'[q] = began[q]
     \/ /\ \/ phase[q] = "begun" /\ phase'[q] = "locked" /\ Op(q) = "create"
           \/ phase[q] = "waiting" /\ phase'[q] = "locked"
           \/ phase[q] = "locked" /\ phase'[q] = "written"
        /\ before'[q] = before[q] /\ image'[q] = image[q] /\ started'[q] = started[q]
        /\ read'[q] = read[q] /\ began'[q] = began[q]

Ends(q) == phase'[q] = "done" /\ read'[q] = 0 /\ began'[q] = 0

Moves(q) == Still(q) \/ Ends(q) \/ Arrive(q) \/ Advances(q)

LEMMA EveryoneMoves ==
  ASSUME TypeInv, [Next]_vars
  PROVE  (\A q \in Requests : Moves(q)) /\ clock' \in {clock, clock + 1}
<1> USE DEF db, reqs, hist
<1>1. ASSUME NEW r \in Requests, NEW a, Reply(r, a)
      PROVE  \A q \in Requests : Moves(q)
  BY <1>1 DEF Reply, Moves, Still, Ends, TypeInv, TypeOK
<1>2. ASSUME NEW r \in Requests, Arrive(r)
      PROVE  (\A q \in Requests : Moves(q)) /\ clock' = clock
  BY <1>2 DEF Arrive, Moves, Still, TypeInv, TypeOK
<1>3. ASSUME NEW r \in Requests, BadRequest(r)
      PROVE  (\A q \in Requests : Moves(q)) /\ clock' = clock
  BY <1>1, <1>3 DEF BadRequest
<1>4. ASSUME NEW r \in Requests, GetUserForPatch(r)
      PROVE  (\A q \in Requests : Moves(q)) /\ clock' = clock
  <2>1. CASE ~Exists(Id(r))
    BY <1>1, <1>4, <2>1 DEF GetUserForPatch
  <2>2. CASE Exists(Id(r))
    BY <1>4, <2>2 DEF GetUserForPatch, Moves, Still, Advances, TypeInv, TypeOK
  <2> QED
    BY <2>1, <2>2
<1>5. ASSUME NEW r \in Requests, Begin(r)
      PROVE  (\A q \in Requests : Moves(q)) /\ clock' = clock + 1
  BY <1>5 DEF Begin, Moves, Still, Advances, TypeInv, TypeOK
<1>6. ASSUME NEW r \in Requests, InsertRow(r)
      PROVE  (\A q \in Requests : Moves(q)) /\ clock' = clock
  BY <1>6 DEF InsertRow, Moves, Still, Advances, TypeInv, TypeOK
<1>7. ASSUME NEW r \in Requests, TakeSnapshot(r)
      PROVE  (\A q \in Requests : Moves(q)) /\ clock' \in {clock, clock + 1}
  <2>1. CASE ~Exists(Id(r))
    BY <1>1, <1>7, <2>1 DEF TakeSnapshot, Refuse
  <2>2. CASE Exists(Id(r))
    BY <1>7, <2>2 DEF TakeSnapshot, Moves, Still, Advances, TypeInv, TypeOK
  <2> QED
    BY <2>1, <2>2
<1>8. ASSUME NEW r \in Requests, LockRow(r)
      PROVE  (\A q \in Requests : Moves(q)) /\ clock' = clock
  BY <1>8 DEF LockRow, Moves, Still, Advances, TypeInv, TypeOK
<1>9. ASSUME NEW r \in Requests, CheckName(r)
      PROVE  (\A q \in Requests : Moves(q)) /\ clock' \in {clock, clock + 1}
  <2>1. CASE TakesName(r) /\ NameTaken(r)
    BY <1>1, <1>9, <2>1 DEF CheckName, Refuse
  <2>2. CASE ~(TakesName(r) /\ NameTaken(r))
    BY <1>9, <2>2 DEF CheckName, Moves, Still, Advances, TypeInv, TypeOK
  <2> QED
    BY <2>1, <2>2
<1>10. ASSUME NEW r \in Requests, Commit(r) \/ CommitAnswerLost(r)
       PROVE  (\A q \in Requests : Moves(q)) /\ clock' = clock
  BY <1>1, <1>10 DEF Commit, CommitAnswerLost, Publish
<1>11. ASSUME NEW r \in Requests, Fail(r) \/ DeadlockAbort(r) \/ ExternalIdClash(r)
       PROVE  (\A q \in Requests : Moves(q)) /\ clock' = clock
  BY <1>1, <1>11 DEF Fail, DeadlockAbort, ExternalIdClash
<1>12. CASE UNCHANGED vars
  BY <1>12 DEF vars, Moves, Still
<1> QED
  BY <1>2, <1>3, <1>4, <1>5, <1>6, <1>7, <1>8, <1>9, <1>10, <1>11, <1>12 DEF Next, Step

LEMMA ArriveFields ==
  ASSUME TypeInv, NEW q \in Requests, Arrive(q)
  PROVE  /\ phase[q] = "new" /\ phase'[q] \in {"reading", "ready"}
         /\ phase'[q] = "ready" => job'[q].op \notin {"patch_active", "patch_name"}
         /\ UNCHANGED <<users, audit, events, clock, image, started, before>>
BY DEF Arrive, TypeInv, TypeOK, db

-----------------------------------------------------------------------------
(* Before-images are versions the user really had. *)

\* A version of user u that the trail holds.
OnTrail(u, row) == \E m \in DOMAIN audit : Success(m, u) /\ audit[m].after = row

BeforeInv ==
  /\ TypeInv /\ TrailMatchesRows /\ BeforeWasCommitted
  /\ \A r \in Requests : InTable(r) /\ before[r] # Absent => OnTrail(Id(r), before[r])

LEMMA TrailGrows ==
  ASSUME TypeInv, Quiet \/ \E r \in Requests : Published(r), NEW u, NEW row, OnTrail(u, row)
  PROVE  \E m \in DOMAIN audit' :
           /\ audit'[m].result = "success" /\ audit'[m].id = u /\ audit'[m].after = row
<1>1. \/ audit' = audit
      \/ \E e \in Entry : audit' = Append(audit, e)
  BY DEF Quiet, Published
<1> QED
  BY <1>1, AppendedTrail DEF OnTrail, Success

LEMMA BeforeInit == Init => BeforeInv
<1> SUFFICES ASSUME Init PROVE BeforeInv
  OBVIOUS
<1>1. \A n \in DOMAIN audit : audit[n].before = Absent
  BY DEF Init
<1>2. \A r \in Requests : ~InTable(r)
  BY DEF Init, InTable
<1> QED
  BY <1>1, <1>2, TypeInvInit, TrailInit DEF BeforeInv, BeforeWasCommitted

LEMMA BeforeStep == BeforeInv /\ [Next]_vars => BeforeInv'
<1> SUFFICES ASSUME BeforeInv, [Next]_vars PROVE BeforeInv'
  OBVIOUS
<1>1. /\ TypeInv /\ TypeInv' /\ TrailMatchesRows'
      /\ Quiet \/ \E r \in Requests : Published(r)
  BY StepKinds, TrailStep DEF BeforeInv
<1>2. ASSUME NEW q \in Requests, InTable(q)', before'[q] # Absent
      PROVE  OnTrail(Id(q), before[q])'
  <2>1. Moves(q)
    BY EveryoneMoves, <1>1
  <2>2. /\ job'[q] = job[q]
        /\ \/ InTable(q) /\ before'[q] = before[q]
           \/ Exists(Id(q)) /\ before'[q] = users[Id(q)]
           \/ before'[q] = before[q] /\ phase[q] = "begun" /\ Op(q) = "create"
    BY <1>1, <1>2, <2>1, ArriveFields DEF Moves, Still, Ends, Advances, InTable
  <2>3. phase[q] = "begun" /\ Op(q) = "create" => before[q] = Absent
    BY DEF BeforeInv, TypeInv, HandOK, Active
  <2>4. OnTrail(Id(q), before'[q])
    BY <1>2, <2>2, <2>3 DEF BeforeInv, TrailMatchesRows, OnTrail, Exists
  <2>5. Id(q)' = Id(q)
    BY <2>2 DEF Id
  <2> QED
    BY <1>1, <2>4, <2>5, TrailGrows DEF OnTrail, Success
<1>3. BeforeWasCommitted'
  <2>1. CASE audit' = audit
    BY <2>1 DEF BeforeInv, BeforeWasCommitted, Success
  <2>2. ASSUME NEW e \in Entry, audit' = Append(audit, e),
               e.before # Absent => OnTrail(e.id, e.before)
        PROVE  BeforeWasCommitted'
    <3> SUFFICES ASSUME NEW n \in DOMAIN audit', audit'[n].before # Absent
                 PROVE  \E m \in 1..(n - 1) :
                          /\ audit'[m].result = "success" /\ audit'[m].id = audit'[n].id
                          /\ audit'[m].after = audit'[n].before
      BY DEF BeforeWasCommitted, Success
    <3>1. CASE n \in DOMAIN audit
      <4>1. audit'[n] = audit[n] /\ n \in 1..Len(audit)
        BY <1>1, <2>2, <3>1, AppendedTrail
      <4>2. PICK m \in 1..(n - 1) : Success(m, audit[n].id) /\ audit[m].after = audit[n].before
        BY <3>1, <4>1 DEF BeforeInv, BeforeWasCommitted
      <4>3. audit'[m] = audit[m]
        BY <1>1, <2>2, <4>1, AppendedTrail
      <4> QED
        BY <4>1, <4>2, <4>3 DEF Success
    <3>2. CASE n \notin DOMAIN audit
      <4>1. n = Len(audit) + 1 /\ audit'[n] = e /\ Len(audit) \in Nat
        BY <1>1, <2>2, <3>2, AppendedTrail
      <4>2. PICK m \in DOMAIN audit : Success(m, e.id) /\ audit[m].after = e.before
        BY <2>2, <4>1 DEF OnTrail
      <4>3. m \in 1..(n - 1) /\ audit'[m] = audit[m]
        BY <1>1, <2>2, <4>1, AppendedTrail
      <4> QED
        BY <4>1, <4>2, <4>3 DEF Success
    <3> QED
      BY <3>1, <3>2
  <2>3. ASSUME NEW e \in Entry, e.before = Absent, audit' = Append(audit, e)
        PROVE  BeforeWasCommitted'
    BY <2>2, <2>3
  <2>4. ASSUME NEW r \in Requests, Published(r) PROVE BeforeWasCommitted'
    <3>1. before[r] # Absent => OnTrail(Id(r), before[r])
      BY <2>4 DEF Published, BeforeInv
    <3>2. SuccessEntry(r).id = Id(r) /\ SuccessEntry(r).before = before[r]
      BY DEF SuccessEntry
    <3> QED
      BY <2>2, <2>4, <3>1, <3>2 DEF Published
  <2> QED
    BY <1>1, <2>1, <2>3, <2>4 DEF Quiet
<1> QED
  BY <1>1, <1>2, <1>3 DEF BeforeInv

\* A before-image is always the after-image of an earlier entry of the same
\* user: an overlapping request can make it stale, never make it up.
THEOREM BeforeImagesAreReal == Spec => []BeforeWasCommitted
<1>1. BeforeInv => BeforeWasCommitted
  BY DEF BeforeInv
<1> QED
  BY <1>1, BeforeInit, BeforeStep, PTL DEF Spec

-----------------------------------------------------------------------------
(* What a request has read still stands, unless the trail says otherwise. *)

Agree(r) ==
  /\ read[r] <= Len(audit) /\ began[r] <= Len(audit)
  /\ Active(r) /\ Op(r) = "create" => Id(r) \in UserIds /\ users[Id(r)] = Absent
  /\ Active(r) /\ phase[r] # "reading" /\ IsPatch(r) =>
       Id(r) \in UserIds /\ (image[r] = users[Id(r)] \/ ChangedSince(read[r], Id(r)))
  /\ InTable(r) =>
       Id(r) \in UserIds /\ (before[r] = users[Id(r)] \/ ChangedSince(began[r], Id(r)))

\* No two creates in flight have one id.
Apart ==
  \A r, q \in Requests :
    (r # q /\ Active(r) /\ Active(q) /\ Op(r) = "create" /\ Op(q) = "create") => Id(r) # Id(q)

OverlapInv == TypeInv /\ TrailMatchesRows /\ Apart /\ \A r \in Requests : Agree(r)

LEMMA OverlapInit == Init => OverlapInv
<1>1. Init => Apart
  BY DEF Init, Apart, Active
<1>2. ASSUME Init, NEW r \in Requests PROVE Agree(r)
  <2>1. read[r] = 0 /\ began[r] = 0 /\ ~Active(r) /\ ~InTable(r)
    BY <1>2 DEF Init, Active, InTable
  <2>2. audit \in Seq(Entry)
    BY <1>2, TypeInvInit DEF TypeInv, TypeOK
  <2>3. 0 <= Len(audit)
    BY <2>2
  <2> QED
    BY <2>1, <2>3 DEF Agree
<1> QED
  BY <1>1, <1>2, TypeInvInit, TrailInit DEF OverlapInv

\* After the step, a change of u is on the trail behind its first k entries.
ChangedAfter(k, u) ==
  \E n \in DOMAIN audit' : n > k /\ audit'[n].result = "success" /\ audit'[n].id = u

\* The trail only grows, and a stored row changes only with a new entry.
LEMMA Witnessed ==
  ASSUME TypeInv, Quiet \/ \E r \in Requests : Published(r), NEW k \in Nat, k <= Len(audit)
  PROVE  /\ k <= Len(audit')
         /\ \A u \in UserIds :
              /\ ChangedSince(k, u) => ChangedAfter(k, u)
              /\ users'[u] = users[u] \/ ChangedAfter(k, u)
<1>0. audit \in Seq(Entry) /\ Len(audit) \in Nat
  BY DEF TypeInv, TypeOK
<1>1. CASE audit' = audit /\ users' = users
  BY <1>1 DEF ChangedSince, ChangedAfter, Success
<1>2. ASSUME NEW e \in Entry, audit' = Append(audit, e), NEW u \in UserIds,
             users'[u] = users[u] \/ (e.result = "success" /\ e.id = u)
      PROVE  /\ k <= Len(audit')
             /\ ChangedSince(k, u) => ChangedAfter(k, u)
             /\ users'[u] = users[u] \/ ChangedAfter(k, u)
  <2>1. /\ DOMAIN audit = 1..Len(audit) /\ DOMAIN audit' = 1..(Len(audit) + 1)
        /\ audit'[Len(audit) + 1] = e /\ \A n \in DOMAIN audit : audit'[n] = audit[n]
    BY <1>2, AppendedTrail
  <2>2. Len(audit') = Len(audit) + 1
    BY <1>0, <1>2
  <2>3. ChangedSince(k, u) => ChangedAfter(k, u)
    BY <1>0, <2>1 DEF ChangedSince, ChangedAfter, Success
  <2>4. (e.result = "success" /\ e.id = u) => ChangedAfter(k, u)
    <3>1. Len(audit) + 1 > k /\ Len(audit) + 1 \in DOMAIN audit'
      BY <1>0, <2>1
    <3> QED
      BY <2>1, <3>1 DEF ChangedSince, ChangedAfter, Success
  <2> QED
    BY <1>0, <1>2, <2>2, <2>3, <2>4
<1>3. CASE Quiet /\ audit' # audit
  <2>1. PICK e \in Entry : audit' = Append(audit, e)
    BY <1>3 DEF Quiet
  <2>2. users' = users
    BY <1>3 DEF Quiet
  <2>3. k <= Len(audit')
    BY <1>0, <2>1
  <2> QED
    BY <1>2, <2>1, <2>2, <2>3
<1>4. ASSUME NEW r \in Requests, Published(r)
      PROVE  /\ k <= Len(audit')
             /\ \A u \in UserIds :
                  /\ ChangedSince(k, u) => ChangedAfter(k, u)
                  /\ users'[u] = users[u] \/ ChangedAfter(k, u)
  <2>1. /\ SuccessEntry(r) \in Entry /\ audit' = Append(audit, SuccessEntry(r))
        /\ users' = [users EXCEPT ![Id(r)] = After(r)]
    BY <1>4 DEF Published
  <2>2. SuccessEntry(r).result = "success" /\ SuccessEntry(r).id = Id(r)
    BY DEF SuccessEntry
  <2>3. \A u \in UserIds : users'[u] = users[u] \/ Id(r) = u
    BY <2>1 DEF TypeInv, TypeOK
  <2>4. k <= Len(audit')
    BY <1>0, <2>1
  <2> QED
    BY <1>2, <2>1, <2>2, <2>3, <2>4
<1> QED
  BY <1>1, <1>3, <1>4 DEF Quiet

LEMMA OverlapStep ==
  ASSUME OverlapInv, [Next]_vars
  PROVE  OverlapInv'
<1>1. /\ TypeInv /\ TypeInv' /\ TrailMatchesRows'
      /\ Quiet \/ \E r \in Requests : Published(r)
  BY StepKinds, TrailStep DEF OverlapInv
<1>2. ASSUME NEW q \in Requests, Active(q)'
      PROVE  \/ Arrive(q)
             \/ Active(q) /\ job'[q] = job[q]
  <2>1. Moves(q)
    BY EveryoneMoves, <1>1
  <2> QED
    BY <1>2, <2>1 DEF Moves, Still, Ends, Advances, Active
<1>3. ASSUME NEW q \in Requests, Arrive(q)
      PROVE  /\ job'[q].op = "create" =>
                  /\ \A p \in Requests : Active(p) => job[p].id # job'[q].id
                  /\ job'[q].id \in UserIds /\ users[job'[q].id] = Absent
             /\ \A p \in Requests \ {q} : phase'[p] = phase[p]
  <2>1. PICK j \in Job :
          /\ j.op = "create" => /\ users[j.id] = Absent
                                /\ \A p \in Requests : Active(p) => Id(p) # j.id
          /\ job' = [job EXCEPT ![q] = j]
          /\ phase' = [phase EXCEPT ![q] =
                         IF j.op \in {"patch_active", "patch_name"} THEN "reading" ELSE "ready"]
    BY <1>3 DEF Arrive
  <2>2. job'[q] = j /\ \A p \in Requests \ {q} : phase'[p] = phase[p]
    BY <1>1, <2>1 DEF TypeInv, TypeOK
  <2> QED
    BY <2>1, <2>2, JobFields DEF Id
<1>4. Apart'
  <2> SUFFICES ASSUME NEW r \in Requests, NEW q \in Requests, r # q, Active(r)', Active(q)',
                      job'[r].op = "create", job'[q].op = "create"
               PROVE  job'[r].id # job'[q].id
    BY DEF Apart, Id, Op
  <2>1. CASE Arrive(q)
    <3>1. ~Arrive(r)
      BY <1>1, <1>3, <2>1, ArriveFields
    <3> QED
      BY <1>2, <1>3, <2>1, <3>1
  <2>2. CASE Arrive(r)
    <3>1. ~Arrive(q)
      BY <1>1, <1>3, <2>2, ArriveFields
    <3> QED
      BY <1>2, <1>3, <2>2, <3>1
  <2>3. CASE ~Arrive(r) /\ ~Arrive(q)
    BY <1>2, <2>3 DEF OverlapInv, Apart, Id, Op
  <2> QED
    BY <2>1, <2>2, <2>3
<1>5. ASSUME NEW q \in Requests, Active(q), Active(q)', Op(q) = "create"
      PROVE  users'[Id(q)] = users[Id(q)]
  <2>0. Id(q) \in UserIds /\ users[Id(q)] = Absent
    BY <1>5 DEF OverlapInv, Agree
  <2>1. CASE Quiet
    BY <2>1 DEF Quiet
  <2>2. ASSUME NEW r \in Requests, Published(r) PROVE users'[Id(q)] = users[Id(q)]
    <3>1. Active(r) /\ r # q /\ InTable(r)
      BY <1>5, <2>2 DEF Published, Active
    <3>2. Op(r) # "create" => users[Id(r)] \in Row
      BY <1>1, <3>1 DEF TypeInv, HandOK
    <3>3. Id(r) # Id(q)
      BY <1>5, <2>0, <3>1, <3>2, SeedsAssumption DEF OverlapInv, Apart
    <3> QED
      BY <2>0, <2>2, <3>3 DEF Published, OverlapInv, TypeInv, TypeOK
  <2> QED
    BY <1>1, <2>1, <2>2
<1>6. ASSUME NEW q \in Requests PROVE Agree(q)'
  <2>1. Agree(q) /\ HandOK(q) /\ Moves(q)
    BY <1>1, EveryoneMoves DEF OverlapInv, TypeInv
  <2>0. /\ Agree(q) /\ HandOK(q) /\ Moves(q)
        /\ read[q] \in Nat /\ began[q] \in Nat /\ read'[q] \in Nat /\ began'[q] \in Nat
        /\ Len(audit) \in Nat /\ Len(audit') \in Nat
    BY <1>1, <2>1 DEF TypeInv, TypeOK
  <2>a. /\ read[q] <= Len(audit') /\ began[q] <= Len(audit')
        /\ \A u \in UserIds :
             /\ ChangedSince(read[q], u) => ChangedAfter(read[q], u)
             /\ ChangedSince(began[q], u) => ChangedAfter(began[q], u)
             /\ users'[u] = users[u] \/ ChangedAfter(read[q], u)
             /\ users'[u] = users[u] \/ ChangedAfter(began[q], u)
    <3>1. read[q] <= Len(audit) /\ began[q] <= Len(audit)
      BY <2>0 DEF Agree
    <3> QED
      BY <1>1, <2>0, <3>1, Witnessed
  <2>2. CASE Ends(q)
    BY <2>0, <2>2 DEF Ends, Agree, Active, InTable
  <2>3. CASE Arrive(q)
    <3>1. /\ phase'[q] \in {"reading", "ready"} /\ UNCHANGED <<users, audit, read, began>>
          /\ phase'[q] = "ready" => job'[q].op \notin {"patch_active", "patch_name"}
      BY <1>1, <2>3, ArriveFields DEF Arrive, hist
    <3> QED
      BY <1>3, <2>0, <2>3, <3>1 DEF Agree, Active, InTable, IsPatch, Op, Id
  <2>4. CASE Still(q)
    <3>1. /\ phase'[q] = phase[q] /\ job'[q] = job[q] /\ image'[q] = image[q]
          /\ before'[q] = before[q] /\ read'[q] = read[q] /\ began'[q] = began[q]
      BY <2>4 DEF Still
    <3>2. read'[q] <= Len(audit') /\ began'[q] <= Len(audit')
      BY <2>a, <3>1
    <3>3. (Active(q) /\ Op(q) = "create" => Id(q) \in UserIds /\ users[Id(q)] = Absent)'
      BY <1>5, <2>0, <3>1 DEF Agree, Active, Op, Id
    <3>4. (Active(q) /\ phase[q] # "reading" /\ IsPatch(q) =>
             Id(q) \in UserIds /\ (image[q] = users[Id(q)] \/ ChangedSince(read[q], Id(q))))'
      <4> SUFFICES ASSUME Active(q)', phase'[q] # "reading", IsPatch(q)'
                   PROVE  /\ Id(q)' \in UserIds
                          /\ image'[q] = users'[Id(q)'] \/ ChangedSince(read[q], Id(q))'
        BY DEF Id
      <4>1. /\ Id(q)' = Id(q) /\ Id(q) \in UserIds
            /\ image[q] = users[Id(q)] \/ ChangedSince(read[q], Id(q))
        BY <2>0, <3>1 DEF Agree, Active, IsPatch, Op, Id
      <4>2. ChangedAfter(read[q], Id(q)) => ChangedSince(read[q], Id(q))'
        BY <3>1, <4>1 DEF ChangedSince, ChangedAfter, Success
      <4> QED
        BY <2>a, <3>1, <4>1, <4>2
    <3>5. (InTable(q) =>
             Id(q) \in UserIds /\ (before[q] = users[Id(q)] \/ ChangedSince(began[q], Id(q))))'
      <4> SUFFICES ASSUME InTable(q)'
                   PROVE  /\ Id(q)' \in UserIds
                          /\ before'[q] = users'[Id(q)'] \/ ChangedSince(began[q], Id(q))'
        BY DEF Id
      <4>1. /\ Id(q)' = Id(q) /\ Id(q) \in UserIds
            /\ before[q] = users[Id(q)] \/ ChangedSince(began[q], Id(q))
        BY <2>0, <3>1 DEF Agree, InTable, Id
      <4>2. ChangedAfter(began[q], Id(q)) => ChangedSince(began[q], Id(q))'
        BY <3>1, <4>1 DEF ChangedSince, ChangedAfter, Success
      <4> QED
        BY <2>a, <3>1, <4>1, <4>2
    <3> QED
      BY <3>2, <3>3, <3>4, <3>5 DEF Agree
  <2>5. CASE Advances(q)
    <3>1. UNCHANGED <<users, audit>> /\ job'[q] = job[q]
      BY <2>5 DEF Advances
    <3>2. read'[q] <= Len(audit') /\ began'[q] <= Len(audit')
      BY <2>0, <2>5, <3>1 DEF Advances, Agree
    <3>3. (Active(q) /\ Op(q) = "create" => Id(q) \in UserIds /\ users[Id(q)] = Absent)'
      BY <2>0, <2>5, <3>1 DEF Advances, Agree, Active, Op, Id
    <3>4. (Active(q) /\ phase[q] # "reading" /\ IsPatch(q) =>
             Id(q) \in UserIds /\ (image[q] = users[Id(q)] \/ ChangedSince(read[q], Id(q))))'
      <4>1. CASE phase[q] = "reading"
        BY <2>5, <3>1, <4>1 DEF Advances, Exists, Id
      <4>2. CASE phase[q] # "reading"
        <5>1. image'[q] = image[q] /\ read'[q] = read[q] /\ Active(q)
          BY <2>5, <4>2 DEF Advances, Active
        <5> QED
          BY <2>0, <3>1, <4>2, <5>1 DEF Agree, IsPatch, Op, Id, ChangedSince, Success
      <4> QED
        BY <4>1, <4>2
    <3>5. (InTable(q) =>
             Id(q) \in UserIds /\ (before[q] = users[Id(q)] \/ ChangedSince(began[q], Id(q))))'
      <4>1. CASE InTable(q)
        <5>1. before'[q] = before[q] /\ began'[q] = began[q]
          BY <2>5, <4>1 DEF Advances, InTable
        <5> QED
          BY <2>0, <3>1, <4>1, <5>1 DEF Agree, InTable, Id, ChangedSince, Success
      <4>2. CASE ~InTable(q) /\ InTable(q)' /\ Op(q) # "create"
        BY <2>5, <3>1, <4>2 DEF Advances, InTable, Exists, Id
      <4>3. CASE ~InTable(q) /\ InTable(q)' /\ Op(q) = "create"
        <5>1. before'[q] = before[q] /\ Active(q)
          BY <2>5, <4>3 DEF Advances, InTable, Active
        <5>2. before[q] = Absent /\ Id(q) \in UserIds /\ users[Id(q)] = Absent
          BY <2>0, <4>3, <5>1 DEF HandOK, Agree
        <5> QED
          BY <3>1, <5>1, <5>2 DEF Id
      <4> QED
        BY <4>1, <4>2, <4>3
    <3> QED
      BY <3>2, <3>3, <3>4, <3>5 DEF Agree
  <2> QED
    BY <2>0, <2>2, <2>3, <2>4, <2>5 DEF Moves
<1> QED
  BY <1>1, <1>4, <1>6 DEF OverlapInv

LEMMA ChainInit == Init => TrailIsAChain
<1> SUFFICES ASSUME Init, NEW n \in DOMAIN audit, NEW m \in 1..(n - 1), Success(m, audit[n].id)
             PROVE  FALSE
  BY DEF TrailIsAChain
<1>1. DOMAIN audit = DOMAIN Seeds /\ DOMAIN Seeds = 1..Len(Seeds) /\ Len(Seeds) \in Nat
  BY SeedsAssumption DEF Init
<1>2. m \in DOMAIN Seeds /\ n \in DOMAIN Seeds /\ m # n
  BY <1>1
<1>3. audit[n].id = Seeds[n].id /\ audit[m].id = Seeds[m].id
  BY <1>2 DEF Init
<1> QED
  BY <1>2, <1>3, SeedsAssumption DEF Success

LEMMA ChainStep ==
  ASSUME OverlapInv, TrailIsAChain, Quiet \/ \E r \in Requests : Published(r)
  PROVE  TrailIsAChain'
<1>1. TypeInv /\ TrailMatchesRows /\ Len(audit) \in Nat /\ DOMAIN audit = 1..Len(audit)
  BY DEF OverlapInv, TypeInv, TypeOK
<1>2. ASSUME NEW e \in Entry, audit' = Append(audit, e),
             e.result = "success" =>
               \A m \in DOMAIN audit :
                 (/\ Success(m, e.id)
                  /\ \A k \in (m + 1)..Len(audit) : ~Success(k, e.id))
                   => e.before = audit[m].after \/ e.began < m
      PROVE  TrailIsAChain'
  <2>1. /\ DOMAIN audit' = 1..(Len(audit) + 1)
        /\ audit'[Len(audit) + 1] = e
        /\ \A n \in DOMAIN audit : audit'[n] = audit[n]
    BY <1>1, <1>2, AppendedTrail
  <2> SUFFICES ASSUME NEW n \in 1..(Len(audit) + 1), NEW m \in 1..(n - 1),
                      audit'[n].result = "success", audit'[m].result = "success",
                      audit'[m].id = audit'[n].id,
                      \A k \in (m + 1)..(n - 1) :
                        ~(audit'[k].result = "success" /\ audit'[k].id = audit'[n].id)
               PROVE  audit'[n].before = audit'[m].after \/ audit'[n].began < m
    BY <2>1 DEF TrailIsAChain, Success
  <2>2. m \in DOMAIN audit /\ audit'[m] = audit[m]
    BY <1>1, <2>1
  <2>3. \A k \in (m + 1)..(n - 1) : audit'[k] = audit[k]
    BY <1>1, <2>1
  <2>4. CASE n \in DOMAIN audit
    <3>1. audit'[n] = audit[n]
      BY <2>1, <2>4
    <3> QED
      BY <2>2, <2>3, <2>4, <3>1 DEF TrailIsAChain, Success
  <2>5. CASE n = Len(audit) + 1
    <3>1. audit'[n] = e /\ n - 1 = Len(audit)
      BY <1>1, <2>1, <2>5
    <3> QED
      BY <1>2, <2>2, <2>3, <3>1 DEF Success
  <2> QED
    BY <1>1, <2>4, <2>5
<1>3. CASE Quiet /\ audit' = audit
  BY <1>3 DEF TrailIsAChain, Success
<1>4. CASE Quiet /\ audit' # audit
  BY <1>2, <1>4 DEF Quiet
<1>5. ASSUME NEW r \in Requests, Published(r) PROVE TrailIsAChain'
  <2>1. /\ Id(r) \in UserIds /\ began[r] \in Nat
        /\ before[r] = users[Id(r)] \/ ChangedSince(began[r], Id(r))
    BY <1>5 DEF Published, OverlapInv, Agree, TypeInv, TypeOK
  <2>2. /\ SuccessEntry(r).id = Id(r) /\ SuccessEntry(r).before = before[r]
        /\ SuccessEntry(r).began = began[r]
    BY DEF SuccessEntry
  <2>3. ASSUME NEW m \in DOMAIN audit, Success(m, Id(r)),
               \A k \in (m + 1)..Len(audit) : ~Success(k, Id(r))
        PROVE  before[r] = audit[m].after \/ began[r] < m
    <3>1. PICK n \in DOMAIN audit :
            /\ Success(n, Id(r)) /\ audit[n].after = users[Id(r)]
            /\ \A k \in DOMAIN audit : Success(k, Id(r)) => k <= n
      BY <1>1, <2>1, <2>3 DEF TrailMatchesRows
    <3>2. m = n
      BY <1>1, <2>3, <3>1
    <3>3. CASE before[r] = users[Id(r)]
      BY <3>1, <3>2, <3>3
    <3>4. CASE ChangedSince(began[r], Id(r))
      <4>1. PICK k \in DOMAIN audit : k > began[r] /\ Success(k, Id(r))
        BY <3>4 DEF ChangedSince
      <4> QED
        BY <1>1, <2>1, <3>1, <3>2, <4>1
    <3> QED
      BY <2>1, <3>3, <3>4
  <2> QED
    BY <1>2, <1>5, <2>2, <2>3 DEF Published
<1> QED
  BY <1>3, <1>4, <1>5

\* The audit trail of every user is unbroken but for the one overlap that can
\* break it: where a before-image is not the after-image of the entry before,
\* that entry was committed while the transaction was open.
THEOREM GapsNeedAnOverlap == Spec => []TrailIsAChain
<1>1. OverlapInv /\ TrailIsAChain /\ [Next]_vars => (OverlapInv /\ TrailIsAChain)'
  BY OverlapStep, ChainStep, StepKinds DEF OverlapInv
<1> QED
  BY <1>1, OverlapInit, ChainInit, PTL DEF Spec

\* No user goes from active to inactive, by PUT, PATCH or DELETE, without a
\* user.deactivated event in the same commit, unless another change of that
\* user was committed while the transaction was open.
THEOREM DeactivationsAreAnnounced == Spec => DeactivationAnnounced
<1>1. ASSUME OverlapInv, [Next]_vars, NEW u \in UserIds,
             users[u] # Absent, users[u].active, ~users'[u].active
      PROVE  \/ \E n \in DOMAIN events' :
                  n \notin DOMAIN events /\ events'[n].id = u
                    /\ events'[n].type = "user.deactivated"
             \/ \E r \in Requests :
                  phase[r] = "written" /\ phase'[r] = "done" /\ ChangedSince(began[r], u)
  <2>1. PICK r \in Requests : Published(r)
    BY <1>1, StepKinds DEF OverlapInv, Quiet
  <2>2. /\ Id(r) \in UserIds
        /\ before[r] = users[Id(r)] \/ ChangedSince(began[r], Id(r))
        /\ users \in [UserIds -> Row \cup {Absent}] /\ events \in Seq(Event)
    BY <1>1, <2>1 DEF Published, OverlapInv, Agree, TypeInv, TypeOK
  <2>3. Id(r) = u /\ users'[u] = After(r)
    BY <1>1, <2>1, <2>2 DEF Published
  <2>4. Op(r) # "create"
    BY <1>1, <2>1, <2>3 DEF Published, InTable, Active, OverlapInv, Agree
  <2>5. CASE ChangedSince(began[r], Id(r))
    BY <2>1, <2>3, <2>5 DEF Published
  <2>6. CASE before[r] = users[Id(r)]
    <3>1. EventType(r) = "user.deactivated"
      <4>1. CASE Op(r) = "deactivate"
        BY <4>1 DEF EventType
      <4>2. CASE Op(r) # "deactivate"
        <5>1. EventType(r) = changeEventType(before[r], After(r))
          BY <2>4, <4>2 DEF EventType
        <5> QED
          BY <1>1, <2>3, <2>6, <5>1 DEF changeEventType
      <4> QED
        BY <4>1, <4>2
    <3> DEFINE v == [req |-> r, type |-> EventType(r), id |-> Id(r),
                     before |-> before[r], after |-> After(r)]
    <3>2. v.id = u /\ v.type = "user.deactivated" /\ events' = Append(events, v)
      BY <2>1, <2>3, <3>1 DEF Published, enqueueChange
    <3> HIDE DEF v
    <3>3. Len(events) + 1 \in DOMAIN events' /\ Len(events) + 1 \notin DOMAIN events
      BY <2>2, <3>2
    <3>4. events'[Len(events) + 1] = v
      BY <2>2, <3>2
    <3> QED
      BY <3>2, <3>3, <3>4
  <2> QED
    BY <2>2, <2>5, <2>6
<1>2. OverlapInv /\ [Next]_vars => OverlapInv'
  BY OverlapStep
<1>3. OverlapInv /\ [Next]_vars =>
        [\A u \in UserIds :
           (users[u] # Absent /\ users[u].active /\ ~users'[u].active) =>
             \/ \E n \in DOMAIN events' :
                  n \notin DOMAIN events /\ events'[n].id = u
                    /\ events'[n].type = "user.deactivated"
             \/ \E r \in Requests :
                  phase[r] = "written" /\ phase'[r] = "done" /\ ChangedSince(began[r], u)]_vars
  BY <1>1
<1> QED
  BY <1>2, <1>3, OverlapInit, PTL DEF Spec, DeactivationAnnounced

\* A patch, although it writes back the whole resource it read, undoes an
\* attribute it does not name only if another change of the user was committed
\* after that read.
THEOREM PatchUndoesOnlyUnread == Spec => PatchKeepsOthers
<1>1. ASSUME OverlapInv, [Next]_vars, NEW r \in Requests,
             phase[r] = "written", users' # users, phase'[r] = "done"
      PROVE  \/ /\ Op(r) = "patch_active" => users'[Id(r)].name = users[Id(r)].name
                /\ Op(r) = "patch_name" => users'[Id(r)].active = users[Id(r)].active
             \/ ChangedSince(read[r], Id(r))
  <2>1. PICK q \in Requests : Published(q)
    BY <1>1, StepKinds DEF OverlapInv, Quiet
  <2>2. q = r
    BY <1>1, <2>1 DEF Published
  <2>3. Active(r) /\ users \in [UserIds -> Row \cup {Absent}] /\ Id(r) \in UserIds
    BY <1>1 DEF Active, OverlapInv, TypeInv, TypeOK, Agree, InTable
  <2>4. users'[Id(r)] = After(r)
    BY <2>1, <2>2, <2>3 DEF Published
  <2>5. SUFFICES ASSUME IsPatch(r), ~ChangedSince(read[r], Id(r))
                 PROVE  /\ Op(r) = "patch_active" => After(r).name = users[Id(r)].name
                        /\ Op(r) = "patch_name" => After(r).active = users[Id(r)].active
    BY <2>4 DEF IsPatch
  <2>6. image[r] = users[Id(r)] /\ image[r] \in Row
    BY <1>1, <2>3, <2>5 DEF OverlapInv, Agree, TypeInv, HandOK
  <2>7. After(r) = [Folded(r) EXCEPT !.at = started[r]]
    BY <2>5 DEF After, IsPatch
  <2> QED
    BY <2>6, <2>7 DEF Folded, Row
<1>2. OverlapInv /\ [Next]_vars => OverlapInv'
  BY OverlapStep
<1>3. OverlapInv /\ [Next]_vars =>
        [\A r \in Requests :
           (phase[r] = "written" /\ users' # users /\ phase'[r] = "done") =>
             \/ /\ Op(r) = "patch_active" => users'[Id(r)].name = users[Id(r)].name
                /\ Op(r) = "patch_name" => users'[Id(r)].active = users[Id(r)].active
             \/ ChangedSince(read[r], Id(r))]_vars
  BY <1>1
<1> QED
  BY <1>2, <1>3, OverlapInit, PTL DEF Spec, PatchKeepsOthers

-----------------------------------------------------------------------------
(* Dates: what was on the trail when a transaction began is older than it. *)

Begun(r) == phase[r] \in {"begun", "waiting", "locked", "written"}

Dated ==
  /\ \A n \in DOMAIN audit : audit[n].at <= clock /\ audit[n].began <= Len(audit)
  /\ \A m, n \in DOMAIN audit : m <= audit[n].began => audit[m].at < audit[n].at
  /\ \A r \in Requests :
       Begun(r) => /\ started[r] <= clock
                   /\ \A m \in DOMAIN audit : m <= began[r] => audit[m].at < started[r]

\* A change has its date in its row, and entries and events are of one another.
Paired ==
  /\ \A n \in DOMAIN audit :
       audit[n].result = "success" =>
         /\ audit[n].after \in Row /\ audit[n].after.at = audit[n].at
         /\ \E j \in DOMAIN events :
              events[j].id = audit[n].id /\ events[j].after = audit[n].after
  /\ \A i \in DOMAIN events :
       \E m \in DOMAIN audit : Success(m, events[i].id) /\ audit[m].after = events[i].after

DateInv == OverlapInv /\ Dated /\ Paired

LEMMA DateInit == Init => DateInv
<1> SUFFICES ASSUME Init PROVE Dated /\ Paired
  BY OverlapInit DEF DateInv
<1>1. /\ DOMAIN audit = DOMAIN Seeds /\ DOMAIN Seeds = 1..Len(Seeds) /\ Len(Seeds) \in Nat
      /\ DOMAIN events = DOMAIN Seeds
  BY SeedsAssumption DEF Init
<1>2. \A n \in DOMAIN Seeds :
        /\ audit[n].result = "success" /\ audit[n].id = Seeds[n].id /\ audit[n].after = Seed(n)
        /\ audit[n].at = 0 /\ audit[n].began = 0
        /\ events[n].id = Seeds[n].id /\ events[n].after = Seed(n)
  BY DEF Init
<1>3. \A n \in DOMAIN Seeds : Seed(n).at = 0 /\ Seed(n) \in Row
  BY SeedRow DEF Seed
<1>4. clock = 0 /\ \A r \in Requests : ~Begun(r)
  BY DEF Init, Begun
<1>5. Dated
  BY <1>1, <1>2, <1>4 DEF Dated
<1>6. Paired
  BY <1>1, <1>2, <1>3 DEF Paired, Success
<1> QED
  BY <1>5, <1>6

LEMMA AfterAt ==
  ASSUME TypeInv, NEW r \in Requests, InTable(r)
  PROVE  After(r).at = started[r]
<1>1. job[r] \in Job
  BY DEF TypeInv, HandOK, InTable, Active
<1>2. CASE Op(r) = "deactivate"
  <2>1. users[Id(r)] \in Row
    BY <1>2 DEF TypeInv, HandOK
  <2> QED
    BY <1>2, <2>1 DEF After, Row
<1>3. CASE Op(r) \in {"create", "replace"}
  BY <1>3 DEF After
<1>4. CASE IsPatch(r)
  <2>1. image[r] \in Row
    BY <1>4 DEF TypeInv, HandOK, InTable, Active
  <2>2. After(r) = [Folded(r) EXCEPT !.at = started[r]]
    BY <1>4 DEF After, IsPatch
  <2> QED
    BY <2>1, <2>2 DEF Folded, Row
<1> QED
  BY <1>1, <1>2, <1>3, <1>4, JobFields DEF Op, IsPatch

\* What a published event does to the events there are.
LEMMA PublishedEvent ==
  ASSUME TypeInv, NEW r \in Requests, Published(r)
  PROVE  /\ Len(events) \in Nat /\ DOMAIN events = 1..Len(events)
         /\ DOMAIN events' = 1..(Len(events) + 1)
         /\ events'[Len(events) + 1].id = Id(r)
         /\ events'[Len(events) + 1].after = After(r)
         /\ \A i \in DOMAIN events : events'[i] = events[i]
<1> DEFINE v == [req |-> r, type |-> EventType(r), id |-> Id(r),
                 before |-> before[r], after |-> After(r)]
<1>1. v.id = Id(r) /\ v.after = After(r) /\ events' = Append(events, v)
  BY DEF Published, enqueueChange
<1>2. events \in Seq(Event)
  BY DEF TypeInv, TypeOK
<1> HIDE DEF v
<1> QED
  BY <1>1, <1>2

\* An appended entry that is younger than all it could see keeps the dates.
LEMMA DatesAppend ==
  ASSUME TypeInv, Dated, NEW e \in Entry, audit' = Append(audit, e),
         e.at <= clock', clock <= clock', clock' \in Nat, e.began <= Len(audit),
         \A m \in DOMAIN audit : m <= e.began => audit[m].at < e.at
  PROVE  /\ \A n \in DOMAIN audit' : audit'[n].at <= clock'
         /\ \A n \in DOMAIN audit' : audit'[n].began <= Len(audit')
         /\ \A m, n \in DOMAIN audit' : m <= audit'[n].began => audit'[m].at < audit'[n].at
<1>1. /\ DOMAIN audit = 1..Len(audit) /\ Len(audit) \in Nat
      /\ DOMAIN audit' = 1..(Len(audit) + 1)
      /\ audit'[Len(audit) + 1] = e /\ \A n \in DOMAIN audit : audit'[n] = audit[n]
  BY AppendedTrail
<1>2. \A n \in DOMAIN audit : audit[n].at \in Nat /\ audit[n].began \in Nat
  <2>1. \A n \in DOMAIN audit : audit[n] \in Entry
    BY ElementOf DEF TypeInv, TypeOK
  <2> QED
    BY <2>1 DEF Entry
<1>3. e.at \in Nat /\ e.began \in Nat /\ clock \in Nat
  BY DEF Entry, TypeInv, TypeOK
<1>4. ASSUME NEW n \in DOMAIN audit' PROVE audit'[n].at <= clock'
  BY <1>1, <1>2, <1>3, <1>4 DEF Dated
<1>6. ASSUME NEW n \in DOMAIN audit' PROVE audit'[n].began <= Len(audit')
  <2>1. Len(audit') = Len(audit) + 1
    BY DEF TypeInv, TypeOK
  <2> QED
    BY <1>1, <1>2, <1>3, <1>6, <2>1 DEF Dated
<1>5. ASSUME NEW m \in DOMAIN audit', NEW n \in DOMAIN audit', m <= audit'[n].began
      PROVE  audit'[m].at < audit'[n].at
  <2>1. CASE n \in DOMAIN audit
    <3>1. audit'[n] = audit[n] /\ audit[n].began \in Nat
      BY <1>1, <1>2, <2>1
    <3>2. CASE m \in DOMAIN audit
      BY <1>1, <1>5, <2>1, <3>1, <3>2 DEF Dated
    <3>3. CASE m = Len(audit) + 1
      BY <1>1, <1>5, <2>1, <3>1, <3>3, <1>2 DEF Dated
    <3> QED
      BY <1>1, <3>2, <3>3
  <2>2. CASE n = Len(audit) + 1
    <3>1. m \in DOMAIN audit
      BY <1>1, <1>3, <1>5, <2>2
    <3> QED
      BY <1>1, <1>5, <2>2, <3>1
  <2> QED
    BY <1>1, <2>1, <2>2
<1> QED
  BY <1>4, <1>5, <1>6

LEMMA DateStep ==
  ASSUME DateInv, [Next]_vars
  PROVE  DateInv'
<1>1. /\ OverlapInv /\ OverlapInv' /\ TypeInv /\ TypeInv'
      /\ Quiet \/ \E r \in Requests : Published(r)
  BY OverlapStep, StepKinds DEF DateInv, OverlapInv
<1>2. clock \in Nat /\ clock' \in Nat /\ clock' \in {clock, clock + 1} /\ clock <= clock'
  BY <1>1, EveryoneMoves DEF TypeInv, TypeOK
<1>3. \A n \in DOMAIN audit : audit[n].at \in Nat /\ audit[n].began \in Nat
  <2>1. \A n \in DOMAIN audit : audit[n] \in Entry
    BY <1>1, ElementOf DEF TypeInv, TypeOK
  <2> QED
    BY <2>1 DEF Entry
<1>4. Len(audit) \in Nat /\ DOMAIN audit = 1..Len(audit) /\ Dated /\ Paired
  BY <1>1 DEF DateInv, TypeInv, TypeOK
<1>5. \/ audit' = audit
      \/ \E e \in Entry :
           /\ audit' = Append(audit, e) /\ e.at <= clock' /\ e.began <= Len(audit)
           /\ \A m \in DOMAIN audit : m <= e.began => audit[m].at < e.at
  <2>1. CASE Quiet
    <3>1. SUFFICES ASSUME audit' # audit
                   PROVE  \E e \in Entry :
                            /\ audit' = Append(audit, e) /\ e.at <= clock' /\ e.began <= Len(audit)
                            /\ \A m \in DOMAIN audit : m <= e.began => audit[m].at < e.at
      OBVIOUS
    <3>2. PICK e \in Entry :
            /\ audit' = Append(audit, e)
            /\ e.at = clock + 1 /\ e.began = Len(audit) /\ clock' = clock + 1
      BY <2>1, <3>1 DEF Quiet
    <3>3. \A m \in DOMAIN audit : audit[m].at <= clock /\ audit[m].at \in Nat
      BY <1>3, <1>4 DEF Dated
    <3>4. e.at <= clock' /\ e.began <= Len(audit)
      BY <1>2, <1>4, <3>2
    <3>5. \A m \in DOMAIN audit : audit[m].at < e.at
      BY <1>2, <3>2, <3>3
    <3> QED
      BY <3>2, <3>4, <3>5
  <2>2. ASSUME NEW r \in Requests, Published(r)
        PROVE  \E e \in Entry :
                 /\ audit' = Append(audit, e) /\ e.at <= clock' /\ e.began <= Len(audit)
                 /\ \A m \in DOMAIN audit : m <= e.began => audit[m].at < e.at
    <3>1. /\ SuccessEntry(r) \in Entry /\ audit' = Append(audit, SuccessEntry(r))
          /\ SuccessEntry(r).at = started[r] /\ SuccessEntry(r).began = began[r]
      BY <2>2 DEF Published, SuccessEntry
    <3>2. Begun(r) /\ started[r] \in Nat /\ began[r] <= Len(audit)
      BY <1>1, <2>2 DEF Published, Begun, OverlapInv, Agree, TypeInv, TypeOK
    <3>3. started[r] <= clock /\ \A m \in DOMAIN audit : m <= began[r] => audit[m].at < started[r]
      BY <1>4, <3>2 DEF Dated
    <3>4. started[r] <= clock'
      BY <1>2, <3>2, <3>3
    <3> QED
      BY <3>1, <3>2, <3>3, <3>4
  <2> QED
    BY <1>1, <2>1, <2>2
<1>6. /\ \A n \in DOMAIN audit' : audit'[n].at <= clock' /\ audit'[n].began <= Len(audit')
      /\ \A m, n \in DOMAIN audit' : m <= audit'[n].began => audit'[m].at < audit'[n].at
  <2>1. CASE audit' = audit
    BY <1>2, <1>3, <1>4, <2>1 DEF Dated
  <2>2. CASE audit' # audit
    BY <1>1, <1>2, <1>4, <1>5, <2>2, DatesAppend
  <2> QED
    BY <2>1, <2>2
<1>7. /\ \A n \in DOMAIN audit : n \in DOMAIN audit' /\ audit'[n] = audit[n]
      /\ \A n \in DOMAIN audit' : n \in DOMAIN audit \/ n = Len(audit) + 1
  <2>1. CASE audit' = audit
    BY <2>1
  <2>2. ASSUME NEW e \in Entry, audit' = Append(audit, e)
        PROVE  /\ \A n \in DOMAIN audit : n \in DOMAIN audit' /\ audit'[n] = audit[n]
               /\ \A n \in DOMAIN audit' : n \in DOMAIN audit \/ n = Len(audit) + 1
    BY <1>1, <2>2, AppendedTrail
  <2> QED
    BY <1>5, <2>1, <2>2
<1>8. ASSUME NEW q \in Requests, Begun(q)'
      PROVE  /\ started'[q] <= clock'
             /\ \A m \in DOMAIN audit' : m <= began'[q] => audit'[m].at < started'[q]
  <2>1. Moves(q) /\ started[q] \in Nat /\ began[q] \in Nat /\ began[q] <= Len(audit)
    BY <1>1, EveryoneMoves DEF OverlapInv, Agree, TypeInv, TypeOK
  <2>2. \/ Begun(q) /\ started'[q] = started[q] /\ began'[q] = began[q]
        \/ started'[q] = clock + 1 /\ clock' = clock + 1 /\ audit' = audit
    BY <1>1, <1>8, <2>1, ArriveFields DEF Moves, Still, Ends, Advances, Begun
  <2>3. CASE started'[q] = clock + 1 /\ clock' = clock + 1 /\ audit' = audit
    <3>1. \A m \in DOMAIN audit : audit[m].at < clock + 1
      BY <1>2, <1>3, <1>4 DEF Dated
    <3> QED
      BY <1>2, <2>3, <3>1
  <2>4. CASE Begun(q) /\ started'[q] = started[q] /\ began'[q] = began[q]
    <3>1. started[q] <= clock /\ \A m \in DOMAIN audit : m <= began[q] => audit[m].at < started[q]
      BY <1>4, <2>4 DEF Dated
    <3>2. started'[q] <= clock'
      BY <1>2, <2>1, <2>4, <3>1
    <3>3. \A m \in DOMAIN audit' : m <= began[q] => m \in DOMAIN audit
      BY <1>4, <1>7, <2>1
    <3> QED
      BY <1>7, <2>4, <3>1, <3>2, <3>3
  <2> QED
    BY <2>2, <2>3, <2>4
<1>9. Paired'
  <2>1. CASE Quiet
    <3>1. \A n \in DOMAIN audit' : audit'[n].result = "success" => n \in DOMAIN audit
      <4>1. CASE audit' = audit
        BY <4>1
      <4>2. CASE audit' # audit
        <5>1. PICK e \in Entry : e.result = "denied" /\ audit' = Append(audit, e)
          BY <2>1, <4>2 DEF Quiet
        <5>2. audit'[Len(audit) + 1].result = "denied"
          BY <1>1, <5>1, AppendedTrail
        <5> QED
          BY <1>7, <5>2
      <4> QED
        BY <4>1, <4>2
    <3>2. events' = events
      BY <2>1 DEF Quiet
    <3> QED
      BY <1>4, <1>7, <3>1, <3>2 DEF Paired, Success
  <2>2. ASSUME NEW r \in Requests, Published(r) PROVE Paired'
    <3>1. /\ SuccessEntry(r) \in Entry /\ audit' = Append(audit, SuccessEntry(r))
          /\ After(r) \in Row /\ InTable(r)
      BY <2>2 DEF Published
    <3>2. /\ DOMAIN audit' = 1..(Len(audit) + 1)
          /\ audit'[Len(audit) + 1] = SuccessEntry(r)
      BY <1>1, <3>1, AppendedTrail
    <3>3. /\ audit'[Len(audit) + 1].result = "success" /\ audit'[Len(audit) + 1].id = Id(r)
          /\ audit'[Len(audit) + 1].after = After(r) /\ audit'[Len(audit) + 1].at = started[r]
      BY <3>2 DEF SuccessEntry
    <3>4. /\ DOMAIN events' = 1..(Len(events) + 1) /\ DOMAIN events = 1..Len(events)
          /\ Len(events) \in Nat
          /\ events'[Len(events) + 1].id = Id(r) /\ events'[Len(events) + 1].after = After(r)
          /\ \A i \in DOMAIN events : events'[i] = events[i]
      BY <1>1, <2>2, PublishedEvent
    <3>5. After(r).at = started[r]
      BY <1>1, <3>1, AfterAt
    <3>6. ASSUME NEW n \in DOMAIN audit', audit'[n].result = "success"
          PROVE  /\ audit'[n].after \in Row /\ audit'[n].after.at = audit'[n].at
                 /\ \E j \in DOMAIN events' :
                      events'[j].id = audit'[n].id /\ events'[j].after = audit'[n].after
      <4>1. CASE n = Len(audit) + 1
        BY <3>1, <3>3, <3>4, <3>5, <4>1
      <4>2. CASE n \in DOMAIN audit
        <5>1. audit'[n] = audit[n]
          BY <1>7, <4>2
        <5>2. /\ audit[n].after \in Row /\ audit[n].after.at = audit[n].at
              /\ \E j \in DOMAIN events :
                   events[j].id = audit[n].id /\ events[j].after = audit[n].after
          BY <1>4, <3>6, <4>2, <5>1 DEF Paired
        <5> QED
          BY <3>4, <5>1, <5>2
      <4> QED
        BY <1>7, <4>1, <4>2
    <3>7. ASSUME NEW i \in DOMAIN events'
          PROVE  \E m \in DOMAIN audit' :
                   /\ audit'[m].result = "success" /\ audit'[m].id = events'[i].id
                   /\ audit'[m].after = events'[i].after
      <4>1. CASE i = Len(events) + 1
        <5>1. Len(audit) + 1 \in DOMAIN audit'
          BY <1>4, <3>2
        <5> QED
          BY <3>3, <3>4, <4>1, <5>1
      <4>2. CASE i \in DOMAIN events
        <5>1. PICK m \in DOMAIN audit : Success(m, events[i].id) /\ audit[m].after = events[i].after
          BY <1>4, <4>2 DEF Paired
        <5> QED
          BY <1>7, <3>4, <4>2, <5>1 DEF Success
      <4> QED
        BY <3>4, <4>1, <4>2
    <3> QED
      BY <3>6, <3>7 DEF Paired, Success
  <2> QED
    BY <1>1, <2>1, <2>2
<1> QED
  BY <1>1, <1>6, <1>8, <1>9 DEF DateInv, Dated

\* Whoever goes by the dates, of the audit entries or of the events, sees the
\* row that is stored, unless the change dated last had been overtaken: a
\* change committed after it was already under way when it was committed.
THEOREM NewestIsTheRow == Spec => []NewestIsCurrent
<1>1. ASSUME DateInv, NEW m \in DOMAIN audit, audit[m].result = "success",
             audit[m].after # users[audit[m].id],
             \A n \in DOMAIN audit :
               Success(n, audit[m].id) /\ audit[n].after = users[audit[m].id]
                 => audit[n].at <= audit[m].at
      PROVE  Overtaken(m)
  <2>1. /\ TypeInv /\ TrailMatchesRows /\ Dated /\ DOMAIN audit = 1..Len(audit)
        /\ \A n \in DOMAIN audit : audit[n] \in Entry
    BY <1>1, ElementOf DEF DateInv, OverlapInv, TypeInv, TypeOK
  <2>2. audit[m].at \in Nat /\ audit[m].began \in Nat /\ audit[m].id \in UserIds \cup {Absent}
    BY <2>1 DEF Entry
  <2>3. audit[m].id \in UserIds
    <3>1. PICK j \in DOMAIN events : events[j].id = audit[m].id
      BY <1>1 DEF DateInv, Paired
    <3>2. events[j] \in Event
      BY <2>1, ElementOf DEF TypeInv, TypeOK
    <3> QED
      BY <3>1, <3>2 DEF Event
  <2>4. PICK n \in DOMAIN audit :
          /\ Success(n, audit[m].id) /\ audit[n].after = users[audit[m].id]
          /\ \A k \in DOMAIN audit : Success(k, audit[m].id) => k <= n
    BY <1>1, <2>1, <2>3 DEF TrailMatchesRows, Success
  <2>5. audit[n].at <= audit[m].at /\ audit[n].at \in Nat /\ audit[n].began \in Nat
    BY <1>1, <2>1, <2>4 DEF Entry
  <2>6. m < n
    BY <1>1, <2>1, <2>4 DEF Success
  <2>7. audit[n].began < m
    BY <2>1, <2>2, <2>5 DEF Dated
  <2> QED
    BY <2>4, <2>6, <2>7 DEF Overtaken
<1>2. ASSUME DateInv, NEW m \in DOMAIN audit, audit[m].result = "success",
             \A n \in DOMAIN audit : Success(n, audit[m].id) => audit[n].at <= audit[m].at
      PROVE  audit[m].after = users[audit[m].id] \/ Overtaken(m)
  BY <1>1, <1>2
<1>3. ASSUME DateInv, NEW i \in DOMAIN events,
             \A j \in DOMAIN events :
               events[j].id = events[i].id => events[j].after.at <= events[i].after.at
      PROVE  \/ events[i].after = users[events[i].id]
             \/ \E m \in DOMAIN audit :
                  Success(m, events[i].id) /\ audit[m].after = events[i].after /\ Overtaken(m)
  <2>1. PICK m \in DOMAIN audit : Success(m, events[i].id) /\ audit[m].after = events[i].after
    BY <1>3 DEF DateInv, Paired
  <2>2. \A n \in DOMAIN audit :
          Success(n, audit[m].id) => audit[n].at <= audit[m].at
    BY <1>3, <2>1 DEF DateInv, Paired, Success
  <2> QED
    BY <1>1, <1>3, <2>1, <2>2 DEF Success
<1>4. DateInv => NewestIsCurrent
  BY <1>2, <1>3 DEF NewestIsCurrent
<1>5. DateInv /\ [Next]_vars => DateInv'
  BY DateStep
<1> QED
  BY <1>4, <1>5, DateInit, PTL DEF Spec
-----------------------------------------------------------------------------
(* Once or never: a request, its entry, its event and its answer. *)

\* A request that has not been answered has left nothing on the trail.
NotYet(r) == phase[r] # "done" => Applied(r) = {} /\ Announced(r) = {} /\ answer[r] = "none"

\* The trail, the events and the answer of a request tell the same story.
Once(r) ==
  /\ answer[r] = "ok" => Applied(r) # {}
  /\ Applied(r) # {} => answer[r] \in {"ok", "error"}
  /\ \A m, n \in Applied(r) : m = n
  /\ \A m, n \in Announced(r) : m = n
  /\ \A n \in Applied(r) : \E m \in Announced(r) :
       /\ events[m].id = audit[n].id
       /\ events[m].before = audit[n].before /\ events[m].after = audit[n].after
  /\ Announced(r) # {} => Applied(r) # {}

OnceInv == \A r \in Requests : NotYet(r) /\ Once(r)

Bystanders(r) == \A q \in Requests \ {r} : phase'[q] = phase[q] /\ answer'[q] = answer[q]

\* Request r, not yet answered, takes a step that leaves nothing but perhaps a
\* refusal, and is answered with anything but success if it is answered.
Traceless(r) ==
  /\ phase[r] # "done" /\ Bystanders(r) /\ events' = events
  /\ \/ audit' = audit
     \/ \E e \in Entry : e.result = "denied" /\ audit' = Append(audit, e)
  /\ \/ phase'[r] # "done" /\ answer'[r] = answer[r]
     \/ phase'[r] = "done" /\ answer'[r] # "ok"

NewEvent(r) ==
  [req |-> r, type |-> EventType(r), id |-> Id(r), before |-> before[r], after |-> After(r)]

LEMMA AppendedEvents ==
  ASSUME TypeInv, NEW e, events' = Append(events, e)
  PROVE  /\ Len(events) \in Nat /\ DOMAIN events = 1..Len(events)
         /\ DOMAIN events' = 1..(Len(events) + 1)
         /\ events'[Len(events) + 1] = e
         /\ \A n \in DOMAIN events : events'[n] = events[n]
<1>1. events \in Seq(Event)
  BY DEF TypeInv, TypeOK
<1> QED
  BY <1>1

\* Request r, not yet answered, commits and is answered.
Effective(r) ==
  /\ phase[r] # "done" /\ Bystanders(r)
  /\ phase'[r] = "done" /\ answer'[r] \in {"ok", "error"}
  /\ SuccessEntry(r) \in Entry /\ audit' = Append(audit, SuccessEntry(r))
  /\ events' = Append(events, NewEvent(r))

LEMMA AnswerSteps ==
  ASSUME TypeInv, [Next]_vars
  PROVE  UNCHANGED vars \/ \E r \in Requests : Traceless(r) \/ Effective(r)
<1> USE DEF db, reqs, hist
<1>1. ASSUME NEW r \in Requests, NEW a \in Answers \ {"ok"}, Reply(r, a), phase[r] # "done",
             UNCHANGED <<audit, events>>
      PROVE  Traceless(r)
  BY <1>1 DEF Reply, Traceless, Bystanders, TypeInv, TypeOK
<1>2. ASSUME NEW r \in Requests, NEW a \in Answers \ {"ok"}, Active(r), Refuse(r, a)
      PROVE  Traceless(r)
  <2>1. Quiet
    BY <1>2, RefuseStep
  <2>2. Reply(r, a) /\ phase[r] # "done"
    BY <1>2 DEF Refuse, Active
  <2>3. phase'[r] = "done" /\ answer'[r] # "ok" /\ Bystanders(r)
    BY <2>2 DEF Reply, Bystanders, TypeInv, TypeOK
  <2> QED
    BY <2>1, <2>2, <2>3 DEF Quiet, Traceless
<1>3. ASSUME NEW r \in Requests, NEW p \in Phases, phase' = [phase EXCEPT ![r] = p],
             phase[r] # "done", p # "done", UNCHANGED <<audit, events, answer>>
      PROVE  Traceless(r)
  BY <1>3 DEF Traceless, Bystanders, TypeInv, TypeOK
<1>4. ASSUME NEW r \in Requests, Arrive(r) PROVE Traceless(r)
  <2>1. PICK j \in Job :
          phase' = [phase EXCEPT ![r] = IF j.op \in {"patch_active", "patch_name"} THEN "reading" ELSE "ready"]
    BY <1>4 DEF Arrive
  <2> QED
    BY <1>3, <1>4, <2>1 DEF Arrive, Phases
<1>5. ASSUME NEW r \in Requests, BadRequest(r) PROVE Traceless(r)
  BY <1>1, <1>5 DEF BadRequest, Answers
<1>6. ASSUME NEW r \in Requests, GetUserForPatch(r) PROVE Traceless(r)
  BY <1>1, <1>3, <1>6 DEF GetUserForPatch, Answers, Phases
<1>7. ASSUME NEW r \in Requests, Begin(r) \/ InsertRow(r) \/ LockRow(r) PROVE Traceless(r)
  BY <1>3, <1>7 DEF Begin, InsertRow, LockRow, Phases
<1>8. ASSUME NEW r \in Requests, TakeSnapshot(r) \/ CheckName(r) PROVE Traceless(r)
  BY <1>2, <1>3, <1>8 DEF TakeSnapshot, CheckName, Active, Answers, Phases
<1>9. ASSUME NEW r \in Requests, Commit(r) \/ CommitAnswerLost(r) PROVE Effective(r)
  <2>1. Published(r)
    <3>1. faults' \in Nat /\ phase[r] = "written" /\ Publish(r)
      BY <1>9 DEF Commit, CommitAnswerLost, TypeInv, TypeOK
    <3>2. \E a \in Answers : Reply(r, a)
      BY <1>9 DEF Commit, CommitAnswerLost, Answers
    <3> QED
      BY <3>1, <3>2, PublishStep
  <2>2. answer'[r] \in {"ok", "error"} /\ Bystanders(r)
    BY <1>9 DEF Commit, CommitAnswerLost, Reply, Bystanders, TypeInv, TypeOK
  <2> QED
    BY <2>1, <2>2 DEF Published, Effective, enqueueChange, NewEvent
<1>10. ASSUME NEW r \in Requests, Fail(r) \/ ExternalIdClash(r) PROVE Traceless(r)
  BY <1>1, <1>10 DEF Fail, ExternalIdClash, Active, Answers
<1>11. ASSUME NEW r \in Requests, DeadlockAbort(r) PROVE Traceless(r)
  <2>1. Blockers(r) # {}
    BY <1>11 DEF DeadlockAbort
  <2>2. phase[r] = "locked"
    BY <2>1 DEF Blockers
  <2> QED
    BY <1>1, <1>11, <2>2 DEF DeadlockAbort, Answers
<1> QED
  BY <1>4, <1>5, <1>6, <1>7, <1>8, <1>9, <1>10, <1>11 DEF Next, Step

LEMMA OnceInit == Init => OnceInv
<1> SUFFICES ASSUME Init, NEW r \in Requests PROVE NotYet(r) /\ Once(r)
  BY DEF OnceInv
<1>1. r # None
  BY SetsAssumption
<1>2. Applied(r) = {} /\ Announced(r) = {}
  BY <1>1 DEF Init, Applied, Announced
<1> QED
  BY <1>2 DEF Init, NotYet, Once

\* What a request has on the trail and among the events stays as it is.
Untouched(r) ==
  /\ Applied(r)' = Applied(r) /\ \A n \in Applied(r) : audit'[n] = audit[n]
  /\ Announced(r)' = Announced(r) /\ \A n \in Announced(r) : events'[n] = events[n]

LEMMA TracelessLeaves ==
  ASSUME TypeInv, NEW r \in Requests, Traceless(r), NEW q \in Requests
  PROVE  Untouched(q)
<1>1. Announced(q)' = Announced(q) /\ \A n \in Announced(q) : events'[n] = events[n]
  BY DEF Traceless, Announced
<1>2. CASE audit' = audit
  BY <1>1, <1>2 DEF Untouched, Applied
<1>3. ASSUME NEW e \in Entry, e.result = "denied", audit' = Append(audit, e)
      PROVE  Untouched(q)
  <2>1. audit'[Len(audit) + 1].result # "success"
    BY <1>3, AppendedTrail
  <2> QED
    BY <1>1, <1>3, <2>1, AppendedTrail DEF Untouched, Applied
<1> QED
  BY <1>2, <1>3 DEF Traceless

LEMMA EffectiveAdds ==
  ASSUME TypeInv, NEW r \in Requests, Effective(r)
  PROVE  /\ \A q \in Requests \ {r} : Untouched(q)
         /\ Applied(r)' = Applied(r) \cup {Len(audit) + 1}
         /\ Announced(r)' = Announced(r) \cup {Len(events) + 1}
         /\ audit'[Len(audit) + 1] = SuccessEntry(r) /\ events'[Len(events) + 1] = NewEvent(r)
<1>1. /\ SuccessEntry(r) \in Entry /\ audit' = Append(audit, SuccessEntry(r))
      /\ events' = Append(events, NewEvent(r))
  BY DEF Effective
<1>2. SuccessEntry(r).req = r /\ SuccessEntry(r).result = "success" /\ NewEvent(r).req = r
  BY DEF SuccessEntry, NewEvent
<1>3. audit'[Len(audit) + 1] = SuccessEntry(r) /\ events'[Len(events) + 1] = NewEvent(r)
  BY <1>1, AppendedTrail, AppendedEvents
<1>4. ASSUME NEW q \in Requests, q # r PROVE Untouched(q)
  <2>1. Applied(q)' = Applied(q) /\ \A n \in Applied(q) : audit'[n] = audit[n]
    BY <1>1, <1>2, <1>3, <1>4, AppendedTrail DEF Applied
  <2>2. Announced(q)' = Announced(q) /\ \A n \in Announced(q) : events'[n] = events[n]
    BY <1>1, <1>2, <1>3, <1>4, AppendedEvents DEF Announced
  <2> QED
    BY <2>1, <2>2 DEF Untouched
<1>5. Applied(r)' = Applied(r) \cup {Len(audit) + 1}
  BY <1>1, <1>2, <1>3, AppendedTrail DEF Applied
<1>6. Announced(r)' = Announced(r) \cup {Len(events) + 1}
  BY <1>1, <1>2, <1>3, AppendedEvents DEF Announced
<1> QED
  BY <1>3, <1>4, <1>5, <1>6

LEMMA OnceStep ==
  ASSUME TypeInv, OnceInv, [Next]_vars
  PROVE  OnceInv'
<1>1. ASSUME NEW q \in Requests, Untouched(q), phase'[q] = phase[q], answer'[q] = answer[q]
      PROVE  NotYet(q)' /\ Once(q)'
  BY <1>1 DEF OnceInv, NotYet, Once, Untouched
<1>2. CASE UNCHANGED vars
  BY <1>2 DEF vars, db, reqs, hist, OnceInv, NotYet, Once, Applied, Announced
<1>3. ASSUME NEW r \in Requests, Traceless(r), NEW q \in Requests PROVE NotYet(q)' /\ Once(q)'
  <2>1. Untouched(q)
    BY <1>3, TracelessLeaves
  <2>2. CASE q # r
    BY <1>1, <1>3, <2>1, <2>2 DEF Traceless, Bystanders
  <2>3. CASE q = r
    <3>1. Applied(q) = {} /\ Announced(q) = {} /\ answer[q] = "none"
      BY <1>3, <2>3 DEF Traceless, OnceInv, NotYet
    <3> QED
      BY <1>3, <2>1, <2>3, <3>1 DEF Traceless, NotYet, Once, Untouched
  <2> QED
    BY <2>2, <2>3
<1>4. ASSUME NEW r \in Requests, Effective(r), NEW q \in Requests PROVE NotYet(q)' /\ Once(q)'
  <2>1. CASE q # r
    <3>1. Untouched(q)
      BY <1>4, <2>1, EffectiveAdds
    <3> QED
      BY <1>1, <1>4, <2>1, <3>1 DEF Effective, Bystanders
  <2>2. CASE q = r
    <3>1. Applied(q) = {} /\ Announced(q) = {}
      BY <1>4, <2>2 DEF Effective, OnceInv, NotYet
    <3>2. Applied(q)' = {Len(audit) + 1} /\ Announced(q)' = {Len(events) + 1}
      BY <1>4, <2>2, <3>1, EffectiveAdds
    <3>3. /\ events'[Len(events) + 1].id = audit'[Len(audit) + 1].id
          /\ events'[Len(events) + 1].before = audit'[Len(audit) + 1].before
          /\ events'[Len(events) + 1].after = audit'[Len(audit) + 1].after
      <4>1. audit'[Len(audit) + 1] = SuccessEntry(r) /\ events'[Len(events) + 1] = NewEvent(r)
        BY <1>4, EffectiveAdds
      <4>2. /\ SuccessEntry(r).id = Id(r) /\ NewEvent(r).id = Id(r)
            /\ SuccessEntry(r).before = before[r] /\ NewEvent(r).before = before[r]
            /\ SuccessEntry(r).after = After(r) /\ NewEvent(r).after = After(r)
        BY DEF SuccessEntry, NewEvent
      <4> QED
        BY <4>1, <4>2
    <3>4. phase'[q] = "done" /\ answer'[q] \in {"ok", "error"}
      BY <1>4, <2>2 DEF Effective
    <3> QED
      BY <3>2, <3>3, <3>4 DEF NotYet, Once
  <2> QED
    BY <2>1, <2>2
<1> QED
  BY <1>2, <1>3, <1>4, AnswerSteps DEF OnceInv

\* A user request takes effect once, in tables, trail and events alike, or
\* never, and its answer does not deny it: through overlap, refusals, failed
\* statements and commits whose answer is lost.
THEOREM TakesEffectOnce == Spec => []OnceOrNever
<1>1. TypeInv /\ OnceInv /\ [Next]_vars => (TypeInv /\ OnceInv)'
  BY StepKinds, OnceStep
<1>2. OnceInv => OnceOrNever
  BY DEF OnceInv, Once, OnceOrNever
<1> QED
  BY <1>1, <1>2, TypeInvInit, OnceInit, PTL DEF Spec
=============================================================================
