---------------------------- MODULE AccessProofs ----------------------------
(***************************************************************************)
(* Theorems about module Access, for any tokens, tenants, requests, rates  *)
(* and bounds.                                                             *)
(***************************************************************************)
EXTENDS Access, TLAPS

Http(r) == job[r].via \in {"scim", "console"}

\* The row a request has in hand, if it has got that far, was read from the table
\* of its listener, and that row has since changed in revoked and used at most.
HasRow(r) ==
  /\ job[r].key \in Table(r) /\ tokens[job[r].key] \in Token /\ row[r] \in Token
  /\ row[r].tenant = tokens[job[r].key].tenant

(***************************************************************************)
(* What a request has in hand at each of its phases.                       *)
(***************************************************************************)
HandOK(r) ==
  /\ phase[r] # "new" => job[r] \in Job
  /\ phase[r] \in {"lookup", "check", "touch", "throttle"} => Http(r)
  /\ phase[r] \in {"check", "touch", "throttle", "ready", "locked", "missed"} /\ Http(r) => HasRow(r)
  /\ phase[r] = "throttle" => job[r].via = "scim"
  /\ phase[r] \in {"touch", "throttle", "ready"} /\ job[r].via = "scim" => row[r].tenant = job[r].path
  /\ phase[r] \in {"locked", "missed"} => job[r].via # "scim" /\ Task_(r).do = "revoke"
  /\ phase[r] = "locked" => tokens[Task_(r).key] \in Token

TypeInv ==
  /\ TypeOK
  /\ \A r \in Requests : HandOK(r)
  /\ \A k \in ScimKeys : bucket[k] # Absent => bucket[k].at <= now

LEMMA JobFields ==
  ASSUME NEW j \in Job
  PROVE  /\ j.via \in {"scim", "console", "cli"}
         /\ j.via \in {"scim", "console"} => j.key \in Keys /\ j.good \in BOOLEAN
         /\ j.via = "scim" => j.path \in TenantIds
         /\ j.via \in {"console", "cli"} => j.task \in Task
BY DEF Job

LEMMA TaskFields ==
  ASSUME NEW t \in Task
  PROVE  /\ t.do \in {"tenant", "issue", "revoke"}
         /\ t.do = "tenant" => t.name \in Names
         /\ t.do = "issue" => t.tenant \in TenantIds \cup {System} /\ t.expires \in Times
         /\ t.do = "revoke" => t.key \in Keys
BY DEF Task

\* A bucket never holds more than a burst, and never less than nothing.
LEMMA LevelType ==
  ASSUME TypeInv, NEW k \in ScimKeys
  PROVE  Level(k) \in 0..Burst
<1>1. CASE bucket[k] = Absent
  BY <1>1, AccessAssumption DEF Level
<1>2. CASE bucket[k] # Absent
  <2>1. bucket[k].level \in 0..Burst /\ bucket[k].at \in Nat /\ bucket[k].at <= now /\ now \in Nat
    BY <1>2, AccessAssumption DEF TypeInv, TypeOK
  <2>2. Rate * (now - bucket[k].at) \in Nat
    <3>1. now - bucket[k].at \in Nat
      BY <2>1
    <3>2. \A a, b \in Nat : a * b \in Nat
      OBVIOUS
    <3> QED
      BY <3>1, <3>2, AccessAssumption
  <2> QED
    BY <1>2, <2>1, <2>2, AccessAssumption DEF Level
<1> QED
  BY <1>1, <1>2

LEMMA TypeInit == Init => TypeInv
<1> SUFFICES ASSUME Init PROVE TypeInv
  OBVIOUS
<1>1. TypeOK
  BY AccessAssumption DEF Init, TypeOK, Phases, Answers
<1> QED
  BY <1>1 DEF Init, TypeInv, HandOK

\* Rows of the token tables stay, keep their tenant and expiry, and are not
\* unrevoked.
TokensGrow ==
  \A k \in Keys : tokens[k] \in Token =>
    /\ tokens'[k] \in Token
    /\ tokens'[k].tenant = tokens[k].tenant /\ tokens'[k].expires = tokens[k].expires
    /\ tokens[k].revoked => tokens'[k].revoked

LEMMA TokensUnchanged == UNCHANGED tokens => TokensGrow
BY DEF TokensGrow

\* A request that takes no step keeps what it has in hand.
LEMMA HandKept ==
  ASSUME TypeInv, TokensGrow, NEW q \in Requests,
         phase'[q] = phase[q], job'[q] = job[q], row'[q] = row[q]
  PROVE  HandOK(q)'
<1>1. HandOK(q)
  BY DEF TypeInv
<1>2. phase[q] # "new" => job[q] \in Job
  BY <1>1 DEF HandOK
<1>3. HasRow(q) => HasRow(q)'
  BY DEF HasRow, TokensGrow, Table, Keys
<1>4. phase[q] = "locked" => Task_(q).key \in Keys
  BY <1>1, <1>2, JobFields, TaskFields DEF HandOK, Task_
<1> QED
  BY <1>1, <1>2, <1>3, <1>4 DEF HandOK, Http, Task_, TokensGrow

\* A step of r that leaves buckets and clock alone keeps TypeInv if it is well
\* typed, tokens grow, and r has in hand what its new phase asks for.
LEMMA StepKept ==
  ASSUME TypeInv, TypeOK', TokensGrow, UNCHANGED <<now, bucket>>, NEW r \in Requests, HandOK(r)',
         \A q \in Requests \ {r} : phase'[q] = phase[q] /\ job'[q] = job[q] /\ row'[q] = row[q]
  PROVE  TypeInv'
BY HandKept DEF TypeInv

LEMMA ReplyType ==
  ASSUME TypeInv, NEW r \in Requests, NEW a \in Answers, Reply(r, a)
  PROVE  /\ phase' \in [Requests -> Phases] /\ answer' \in [Requests -> Answers]
         /\ phase'[r] = "done" /\ \A q \in Requests \ {r} : phase'[q] = phase[q]
BY DEF Reply, TypeInv, TypeOK, Phases

LEMMA GotoType ==
  ASSUME TypeInv, NEW r \in Requests, NEW p \in Phases, Goto(r, p)
  PROVE  /\ phase' \in [Requests -> Phases] /\ answer' \in [Requests -> Answers]
         /\ phase'[r] = p /\ \A q \in Requests \ {r} : phase'[q] = phase[q]
BY DEF Goto, TypeInv, TypeOK

LEMMA CommittedType ==
  ASSUME TypeInv, NEW r \in Requests, Committed(r)
  PROVE  /\ phase' \in [Requests -> Phases] /\ answer' \in [Requests -> Answers]
         /\ phase'[r] = "done" /\ \A q \in Requests \ {r} : phase'[q] = phase[q]
         /\ faults' \in Nat
BY ReplyType DEF Committed, Answers, TypeInv, TypeOK

LEMMA ArriveType ==
  ASSUME TypeInv, NEW r \in Requests, Arrive(r)
  PROVE  TypeInv'
<1>1. PICK j \in Jobs : /\ job' = [job EXCEPT ![r] = j]
                        /\ Goto(r, IF j.via = "cli" THEN "ready" ELSE "lookup")
  BY DEF Arrive
<1>2. j \in Job
  BY AccessAssumption
<1>3. /\ phase' \in [Requests -> Phases] /\ answer' \in [Requests -> Answers]
      /\ phase'[r] = IF j.via = "cli" THEN "ready" ELSE "lookup"
      /\ \A q \in Requests \ {r} : phase'[q] = phase[q]
  BY <1>1, GotoType DEF Phases
<1>4. TypeOK'
  BY <1>1, <1>3 DEF Arrive, tables, TypeInv, TypeOK
<1>5. job'[r] = j /\ \A q \in Requests \ {r} : job'[q] = job[q]
  BY <1>1 DEF TypeInv, TypeOK
<1>6. HandOK(r)'
  BY <1>2, <1>3, <1>5, JobFields DEF HandOK, Http
<1> QED
  BY <1>3, <1>4, <1>5, <1>6, StepKept, TokensUnchanged DEF Arrive, tables

LEMMA GetTokenType ==
  ASSUME TypeInv, NEW r \in Requests, GetTokenByKeyID(r)
  PROVE  TypeInv'
<1>1. HandOK(r) /\ phase[r] = "lookup" /\ UNCHANGED <<tables, now, bucket, job, history, faults>>
  BY DEF TypeInv, GetTokenByKeyID
<1>2. CASE /\ job[r].key \in Table(r) /\ tokens[job[r].key] # Absent
           /\ row' = [row EXCEPT ![r] = tokens[job[r].key]] /\ Goto(r, "check")
  <2>1. job[r].key \in Keys /\ tokens[job[r].key] \in Token
    BY <1>2 DEF Table, Keys, TypeInv, TypeOK
  <2>2. /\ phase' \in [Requests -> Phases] /\ answer' \in [Requests -> Answers]
        /\ phase'[r] = "check" /\ \A q \in Requests \ {r} : phase'[q] = phase[q]
    BY <1>2, GotoType DEF Phases
  <2>3. row'[r] = tokens[job[r].key] /\ \A q \in Requests \ {r} : row'[q] = row[q]
    BY <1>2 DEF TypeInv, TypeOK
  <2>4. TypeOK'
    BY <1>1, <1>2, <2>1, <2>2 DEF tables, history, TypeInv, TypeOK
  <2>5. HandOK(r)'
    BY <1>1, <1>2, <2>1, <2>2, <2>3 DEF HandOK, HasRow, Http, Table, tables
  <2> QED
    BY <1>1, <2>2, <2>3, <2>4, <2>5, StepKept, TokensUnchanged DEF tables
<1>3. CASE Reply(r, "denied") /\ UNCHANGED row
  <2>1. /\ phase' \in [Requests -> Phases] /\ answer' \in [Requests -> Answers]
        /\ phase'[r] = "done" /\ \A q \in Requests \ {r} : phase'[q] = phase[q]
    BY <1>3, ReplyType DEF Answers
  <2>2. TypeOK'
    BY <1>1, <1>3, <2>1 DEF tables, history, TypeInv, TypeOK
  <2>3. HandOK(r)'
    BY <1>1, <2>1 DEF HandOK, tables
  <2> QED
    BY <1>1, <1>3, <2>1, <2>2, <2>3, StepKept, TokensUnchanged DEF tables
<1> QED
  BY <1>2, <1>3 DEF GetTokenByKeyID

LEMMA AuthenticateType ==
  ASSUME TypeInv, NEW r \in Requests, Authenticate(r)
  PROVE  TypeInv'
<1>1. HandOK(r) /\ phase[r] = "check" /\ UNCHANGED <<tables, now, bucket, job, row, history, faults>>
  BY DEF TypeInv, Authenticate
<1>2. /\ phase' \in [Requests -> Phases] /\ answer' \in [Requests -> Answers]
      /\ phase'[r] \in {"touch", "done"} /\ \A q \in Requests \ {r} : phase'[q] = phase[q]
      /\ phase'[r] = "touch" => Accepts(r)
  BY GotoType, ReplyType DEF Authenticate, Phases, Answers
<1>3. TypeOK'
  BY <1>1, <1>2 DEF tables, history, TypeInv, TypeOK
<1>4. HandOK(r)'
  BY <1>1, <1>2 DEF HandOK, HasRow, Http, Table, tables, Accepts
<1> QED
  BY <1>1, <1>2, <1>3, <1>4, StepKept, TokensUnchanged DEF tables

LEMMA TouchType ==
  ASSUME TypeInv, NEW r \in Requests, TouchToken(r)
  PROVE  TypeInv' /\ TokensGrow
<1>1. /\ HandOK(r) /\ phase[r] = "touch" /\ HasRow(r) /\ Http(r)
      /\ UNCHANGED <<tenants, admin, holder, now, bucket, job, row, history, faults>>
  BY DEF TypeInv, TouchToken, HandOK
<1>2. /\ phase' \in [Requests -> Phases] /\ answer' \in [Requests -> Answers]
      /\ phase'[r] = IF job[r].via = "scim" THEN "throttle" ELSE "ready"
      /\ \A q \in Requests \ {r} : phase'[q] = phase[q]
  BY GotoType DEF TouchToken, Touched, Phases
<1>3. job[r].key \in Keys /\ tokens[job[r].key] \in Token
  BY <1>1 DEF HasRow, Table, Keys
<1>4. [tokens[job[r].key] EXCEPT !.used = TRUE] \in Token
  BY <1>3 DEF Token
<1>5. TokensGrow /\ tokens' \in [Keys -> Token \cup {Absent}]
  BY <1>3, <1>4 DEF TouchToken, TokensGrow, TypeInv, TypeOK, Token
<1>6. TypeOK'
  BY <1>1, <1>2, <1>5 DEF history, TypeInv, TypeOK
<1>7. HasRow(r)'
  BY <1>1, <1>3, <1>5 DEF HasRow, TokensGrow, Table
<1>8. HandOK(r)'
  BY <1>1, <1>2, <1>7 DEF HandOK, Http
<1> QED
  BY <1>1, <1>2, <1>5, <1>6, <1>8, StepKept

LEMMA ThrottleType ==
  ASSUME TypeInv, NEW r \in Requests, Throttle(r)
  PROVE  TypeInv'
<1> DEFINE k == job[r].key
<1>1. /\ HandOK(r) /\ phase[r] = "throttle" /\ HasRow(r) /\ Http(r) /\ job[r].via = "scim"
      /\ UNCHANGED <<tables, now, job, row, effects, dead, faults>>
  BY DEF TypeInv, Throttle, HandOK
<1>2. k \in ScimKeys /\ now \in 0..MaxTime
  BY <1>1 DEF HasRow, Table, TypeInv, TypeOK
<1>3. Level(k) \in 0..Burst
  BY <1>2, LevelType
<1>4. \/ bucket' = bucket
      \/ \E l \in 0..Burst : bucket' = [bucket EXCEPT ![k] = [level |-> l, at |-> now]]
  <2>1. Level(k) - 0 = Level(k) /\ (~Unlimited /\ Allows(k) => Level(k) - 1 \in 0..Burst)
    BY <1>3, AccessAssumption DEF Allows
  <2>2. bucket' = bucket \/ bucket' = [bucket EXCEPT ![k] = [level |-> Level(k) - 0, at |-> now]]
          \/ (~Unlimited /\ Allows(k) /\ bucket' = [bucket EXCEPT ![k] = [level |-> Level(k) - 1, at |-> now]])
    BY DEF Throttle, Drawn
  <2> QED
    BY <1>3, <2>1, <2>2
<1>5. /\ bucket' \in [ScimKeys -> [level : 0..Burst, at : 0..MaxTime] \cup {Absent}]
      /\ \A h \in ScimKeys : bucket'[h] # Absent => bucket'[h].at <= now
  <2>1. CASE bucket' = bucket
    BY <2>1 DEF TypeInv, TypeOK
  <2>2. ASSUME NEW l \in 0..Burst, bucket' = [bucket EXCEPT ![k] = [level |-> l, at |-> now]]
        PROVE  <1>5!:
    BY <1>2, <2>2, AccessAssumption DEF TypeInv, TypeOK
  <2> QED
    BY <1>4, <2>1, <2>2
<1>6. passed' \in [ScimKeys -> [0..MaxTime -> Nat]]
  <2> DEFINE more == [s \in 0..MaxTime |-> IF s <= now THEN passed[k][s] + 1 ELSE passed[k][s]]
  <2>1. passed \in [ScimKeys -> [0..MaxTime -> Nat]]
    BY DEF TypeInv, TypeOK
  <2>2. passed' = passed \/ passed' = [passed EXCEPT ![k] = more]
    BY DEF Throttle
  <2>3. more \in [0..MaxTime -> Nat]
    <3>1. \A s \in 0..MaxTime : passed[k][s] \in Nat
      BY <1>2, <2>1
    <3>2. \A s \in 0..MaxTime : (IF s <= now THEN passed[k][s] + 1 ELSE passed[k][s]) \in Nat
      BY <3>1
    <3> QED
      BY <3>2, Zenon
  <2> QED
    BY <2>1, <2>2, <2>3
<1>7. /\ phase' \in [Requests -> Phases] /\ answer' \in [Requests -> Answers]
      /\ phase'[r] \in {"ready", "done"} /\ \A q \in Requests \ {r} : phase'[q] = phase[q]
  BY GotoType, ReplyType DEF Throttle, Phases, Answers
<1>8. TypeOK'
  BY <1>1, <1>5, <1>6, <1>7 DEF tables, TypeInv, TypeOK
<1>9. HandOK(r)'
  BY <1>1, <1>7 DEF HandOK, HasRow, Http, Table, tables
<1>10. \A q \in Requests \ {r} : HandOK(q)'
  BY <1>1, <1>7, HandKept, TokensUnchanged DEF tables
<1> QED
  BY <1>1, <1>5, <1>8, <1>9, <1>10 DEF TypeInv

\* A step that ends r with an answer.
LEMMA DoneKept ==
  ASSUME TypeInv, TypeOK', TokensGrow, UNCHANGED <<now, bucket, job, row>>, NEW r \in Requests,
         phase[r] # "new", phase'[r] = "done", \A q \in Requests \ {r} : phase'[q] = phase[q]
  PROVE  TypeInv'
<1>1. HandOK(r)'
  BY DEF HandOK, TypeInv
<1> QED
  BY <1>1, StepKept

LEMMA MutateType ==
  ASSUME TypeInv, NEW r \in Requests, Mutate(r)
  PROVE  TypeInv'
<1>1. /\ HandOK(r) /\ phase[r] = "ready" /\ job[r].via = "scim" /\ job[r] \in Job
      /\ UNCHANGED <<tables, now, bucket, job, row, dead, passed, faults>>
  BY DEF TypeInv, Mutate, HandOK
<1>2. job[r].path \in TenantIds /\ row[r].tenant = job[r].path
  BY <1>1, JobFields DEF HandOK
<1>3. /\ phase' \in [Requests -> Phases] /\ answer' \in [Requests -> Answers]
      /\ phase'[r] = "done" /\ \A q \in Requests \ {r} : phase'[q] = phase[q]
  BY ReplyType DEF Mutate, Answers
<1>4. TypeOK'
  BY <1>1, <1>2, <1>3 DEF Mutate, tables, TypeInv, TypeOK
<1> QED
  BY <1>1, <1>3, <1>4, DoneKept, TokensUnchanged DEF tables

\* What an administrative change is, and who makes it.
LEMMA AdminTask ==
  ASSUME TypeInv, NEW r \in Requests, phase[r] \in {"ready", "locked"}, job[r].via # "scim"
  PROVE  Task_(r) \in Task /\ By(r) \in Actors
<1>1. HandOK(r) /\ job[r] \in Job
  BY DEF TypeInv, HandOK
<1>2. job[r].via = "console" => job[r].key \in ConsoleKeys
  BY <1>1 DEF HandOK, Http, HasRow, Table
<1> QED
  BY <1>1, <1>2, JobFields DEF Task_, By, Actors

LEMMA EntryType ==
  ASSUME TypeInv, NEW a \in {"tenant", "issue", "revoke"}, NEW t \in TenantIds \cup Keys,
         NEW b \in Actors
  PROVE  Append(admin, Entry(a, t, b)) \in
           Seq([action : {"tenant", "issue", "revoke"}, target : TenantIds \cup Keys,
                by : Actors \cup {None}])
<1>1. Entry(a, t, b) \in [action : {"tenant", "issue", "revoke"}, target : TenantIds \cup Keys,
                          by : Actors \cup {None}]
  BY DEF Entry
<1> QED
  BY <1>1 DEF TypeInv, TypeOK

LEMMA CreateTenantType ==
  ASSUME TypeInv, NEW r \in Requests, CreateTenant(r)
  PROVE  TypeInv'
<1>1. /\ phase[r] = "ready" /\ job[r].via # "scim" /\ Task_(r).do = "tenant"
      /\ UNCHANGED <<tokens, holder, now, bucket, job, row, history>>
  BY DEF CreateTenant, Admin
<1>2. Task_(r) \in Task /\ By(r) \in Actors /\ Task_(r).name \in Names
  BY <1>1, AdminTask, TaskFields
<1>3. CASE Reply(r, "conflict") /\ UNCHANGED <<tenants, admin, faults>>
  <2>1. /\ phase' \in [Requests -> Phases] /\ answer' \in [Requests -> Answers]
        /\ phase'[r] = "done" /\ \A q \in Requests \ {r} : phase'[q] = phase[q]
    BY <1>3, ReplyType DEF Answers
  <2>2. TypeOK'
    BY <1>1, <1>3, <2>1 DEF history, TypeInv, TypeOK
  <2> QED
    BY <1>1, <2>1, <2>2, DoneKept, TokensUnchanged
<1>4. CASE \E t \in TenantIds :
             /\ tenants' = [tenants EXCEPT ![t] = Task_(r).name]
             /\ admin' = Append(admin, Entry("tenant", t, By(r)))
             /\ Committed(r)
  <2>1. PICK t \in TenantIds :
             /\ tenants' = [tenants EXCEPT ![t] = Task_(r).name]
             /\ admin' = Append(admin, Entry("tenant", t, By(r)))
             /\ Committed(r)
    BY <1>4
  <2>2. /\ phase' \in [Requests -> Phases] /\ answer' \in [Requests -> Answers]
        /\ phase'[r] = "done" /\ (\A q \in Requests \ {r} : phase'[q] = phase[q]) /\ faults' \in Nat
    BY <2>1, CommittedType
  <2>3. admin' \in Seq([action : {"tenant", "issue", "revoke"}, target : TenantIds \cup Keys,
                        by : Actors \cup {None}])
    BY <1>2, <2>1, EntryType
  <2>4. TypeOK'
    BY <1>1, <1>2, <2>1, <2>2, <2>3 DEF history, TypeInv, TypeOK
  <2> QED
    BY <1>1, <2>2, <2>4, DoneKept, TokensUnchanged
<1> QED
  BY <1>3, <1>4 DEF CreateTenant

LEMMA IssueTokenType ==
  ASSUME TypeInv, NEW r \in Requests, IssueToken(r)
  PROVE  TypeInv' /\ TokensGrow
<1>1. /\ phase[r] = "ready" /\ job[r].via # "scim" /\ Task_(r).do = "issue"
      /\ UNCHANGED <<tenants, holder, now, bucket, job, row, history>>
  BY DEF IssueToken, Admin
<1>2. /\ Task_(r) \in Task /\ By(r) \in Actors
      /\ Task_(r).tenant \in TenantIds \cup {System} /\ Task_(r).expires \in Times
  BY <1>1, AdminTask, TaskFields
<1>3. CASE Reply(r, "error") /\ UNCHANGED <<tokens, admin, faults>>
  <2>1. /\ phase' \in [Requests -> Phases] /\ answer' \in [Requests -> Answers]
        /\ phase'[r] = "done" /\ \A q \in Requests \ {r} : phase'[q] = phase[q]
    BY <1>3, ReplyType DEF Answers
  <2>2. TypeOK'
    BY <1>1, <1>3, <2>1 DEF history, TypeInv, TypeOK
  <2> QED
    BY <1>1, <1>3, <2>1, <2>2, DoneKept, TokensUnchanged
<1>4. CASE ~(Reply(r, "error") /\ UNCHANGED <<tokens, admin, faults>>)
  <2> DEFINE new == [tenant |-> Task_(r).tenant, expires |-> Task_(r).expires,
                     revoked |-> FALSE, used |-> FALSE]
  <2>1. PICK k \in Keys : /\ tokens[k] = Absent
                          /\ tokens' = [tokens EXCEPT ![k] = new]
                          /\ admin' = Append(admin, Entry("issue", k, By(r)))
                          /\ Committed(r)
    BY <1>4 DEF IssueToken, Keys
  <2>2. /\ phase' \in [Requests -> Phases] /\ answer' \in [Requests -> Answers]
        /\ phase'[r] = "done" /\ (\A q \in Requests \ {r} : phase'[q] = phase[q]) /\ faults' \in Nat
    BY <2>1, CommittedType
  <2>3. admin' \in Seq([action : {"tenant", "issue", "revoke"}, target : TenantIds \cup Keys,
                        by : Actors \cup {None}])
    BY <1>2, <2>1, EntryType
  <2>4. new \in Token
    BY <1>2 DEF Token
  <2>5. tokens' \in [Keys -> Token \cup {Absent}] /\ TokensGrow
    BY <2>1, <2>4, AccessAssumption DEF TypeInv, TypeOK, TokensGrow
  <2>6. TypeOK'
    BY <1>1, <2>2, <2>3, <2>5 DEF history, TypeInv, TypeOK
  <2> QED
    BY <1>1, <2>2, <2>5, <2>6, DoneKept
<1> QED
  BY <1>3, <1>4

LEMMA RevokeUpdateType ==
  ASSUME TypeInv, NEW r \in Requests, RevokeUpdate(r)
  PROVE  TypeInv'
<1> DEFINE k == Task_(r).key
<1>1. /\ phase[r] = "ready" /\ job[r].via # "scim" /\ Task_(r).do = "revoke" /\ HandOK(r)
      /\ UNCHANGED <<tenants, tokens, admin, now, bucket, job, row, history, faults>>
  BY DEF RevokeUpdate, Admin, TypeInv
<1>2. k \in Keys
  BY <1>1, AdminTask, TaskFields
<1>3. CASE Revocable(k)
  <2>1. holder' = [holder EXCEPT ![k] = r] /\ Goto(r, "locked")
    BY <1>3 DEF RevokeUpdate
  <2>2. /\ phase' \in [Requests -> Phases] /\ answer' \in [Requests -> Answers]
        /\ phase'[r] = "locked" /\ \A q \in Requests \ {r} : phase'[q] = phase[q]
    BY <2>1, GotoType DEF Phases
  <2>3. TypeOK'
    BY <1>1, <2>1, <2>2 DEF history, TypeInv, TypeOK
  <2>4. tokens[k] \in Token
    BY <1>2, <1>3 DEF Revocable, TypeInv, TypeOK
  <2>5. HandOK(r)'
    BY <1>1, <2>2, <2>4 DEF HandOK, HasRow, Http, Table, Task_
  <2> QED
    BY <1>1, <2>2, <2>3, <2>5, StepKept, TokensUnchanged
<1>4. CASE ~Revocable(k)
  <2>1. UNCHANGED holder /\ Goto(r, "missed")
    BY <1>4 DEF RevokeUpdate
  <2>2. /\ phase' \in [Requests -> Phases] /\ answer' \in [Requests -> Answers]
        /\ phase'[r] = "missed" /\ \A q \in Requests \ {r} : phase'[q] = phase[q]
    BY <2>1, GotoType DEF Phases
  <2>3. TypeOK'
    BY <1>1, <2>1, <2>2 DEF history, TypeInv, TypeOK
  <2>4. HandOK(r)'
    BY <1>1, <2>2 DEF HandOK, HasRow, Http, Table, Task_
  <2> QED
    BY <1>1, <2>2, <2>3, <2>4, StepKept, TokensUnchanged
<1> QED
  BY <1>3, <1>4

LEMMA RevokeLookupType ==
  ASSUME TypeInv, NEW r \in Requests, RevokeLookup(r)
  PROVE  TypeInv'
<1>1. phase[r] = "missed" /\ UNCHANGED <<tables, now, bucket, job, row, history, faults>>
  BY DEF RevokeLookup
<1>2. PICK a \in {"not_found", "ok"} : Reply(r, a)
  BY DEF RevokeLookup
<1>3. /\ phase' \in [Requests -> Phases] /\ answer' \in [Requests -> Answers]
      /\ phase'[r] = "done" /\ \A q \in Requests \ {r} : phase'[q] = phase[q]
  BY <1>2, ReplyType DEF Answers
<1>4. TypeOK'
  BY <1>1, <1>3 DEF tables, history, TypeInv, TypeOK
<1> QED
  BY <1>1, <1>3, <1>4, DoneKept, TokensUnchanged DEF tables

LEMMA RevokeCommitType ==
  ASSUME TypeInv, NEW r \in Requests, RevokeCommit(r)
  PROVE  TypeInv' /\ TokensGrow
<1> DEFINE k == Task_(r).key
<1>1. /\ phase[r] = "locked" /\ job[r].via # "scim" /\ Task_(r).do = "revoke"
      /\ tokens[k] \in Token
      /\ UNCHANGED <<tenants, now, bucket, job, row, history>>
  BY DEF RevokeCommit, TypeInv, HandOK
<1>2. k \in Keys /\ By(r) \in Actors
  BY <1>1, AdminTask, TaskFields
<1>3. /\ tokens' = [tokens EXCEPT ![k].revoked = TRUE]
      /\ admin' = Append(admin, Entry("revoke", k, By(r)))
      /\ holder' = [holder EXCEPT ![k] = None]
      /\ Committed(r)
  BY DEF RevokeCommit
<1>4. /\ phase' \in [Requests -> Phases] /\ answer' \in [Requests -> Answers]
      /\ phase'[r] = "done" /\ (\A q \in Requests \ {r} : phase'[q] = phase[q]) /\ faults' \in Nat
  BY <1>3, CommittedType
<1>5. admin' \in Seq([action : {"tenant", "issue", "revoke"}, target : TenantIds \cup Keys,
                      by : Actors \cup {None}])
  BY <1>2, <1>3, EntryType
<1>6. [tokens[k] EXCEPT !.revoked = TRUE] \in Token
  BY <1>1 DEF Token
<1>7. tokens' \in [Keys -> Token \cup {Absent}] /\ TokensGrow
  BY <1>1, <1>2, <1>3, <1>6 DEF TypeInv, TypeOK, TokensGrow, Token
<1>8. TypeOK'
  BY <1>1, <1>3, <1>4, <1>5, <1>7 DEF history, TypeInv, TypeOK
<1> QED
  BY <1>1, <1>4, <1>7, <1>8, DoneKept

LEMMA FailType ==
  ASSUME TypeInv, NEW r \in Requests, Fail(r)
  PROVE  TypeInv'
<1>1. /\ HandOK(r) /\ faults' \in Nat /\ holder' \in [Keys -> Requests \cup {None}]
      /\ UNCHANGED <<tenants, tokens, admin, now, bucket, job, row, history>>
  BY DEF Fail, TypeInv, TypeOK
<1>2. CASE phase[r] = "touch" /\ Touched(r)
  <2>1. /\ phase' \in [Requests -> Phases] /\ answer' \in [Requests -> Answers]
        /\ phase'[r] = IF job[r].via = "scim" THEN "throttle" ELSE "ready"
        /\ \A q \in Requests \ {r} : phase'[q] = phase[q]
    BY <1>2, GotoType DEF Touched, Phases
  <2>2. TypeOK'
    BY <1>1, <2>1 DEF history, TypeInv, TypeOK
  <2>3. HandOK(r)'
    BY <1>1, <1>2, <2>1 DEF HandOK, HasRow, Http, Table
  <2> QED
    BY <1>1, <2>1, <2>2, <2>3, StepKept, TokensUnchanged
<1>3. CASE phase[r] \in {"lookup", "ready", "locked", "missed"} /\ (Reply(r, "denied") \/ Reply(r, "error"))
  <2>1. /\ phase' \in [Requests -> Phases] /\ answer' \in [Requests -> Answers]
        /\ phase'[r] = "done" /\ \A q \in Requests \ {r} : phase'[q] = phase[q]
    BY <1>3, ReplyType DEF Answers
  <2>2. TypeOK'
    BY <1>1, <2>1 DEF history, TypeInv, TypeOK
  <2> QED
    BY <1>1, <1>3, <2>1, <2>2, DoneKept, TokensUnchanged
<1> QED
  BY <1>2, <1>3 DEF Fail

LEMMA TickType ==
  ASSUME TypeInv, Tick
  PROVE  TypeInv'
<1>1. UNCHANGED <<tables, bucket, phase, job, row, answer, history, faults>> /\ now' = now + 1
  BY DEF Tick
<1>2. TypeOK'
  BY <1>1, AccessAssumption DEF Tick, TypeInv, TypeOK, tables, history
<1>3. \A q \in Requests : HandOK(q)'
  BY <1>1, HandKept, TokensUnchanged DEF tables
<1>4. \A k \in ScimKeys : bucket'[k] # Absent => bucket'[k].at <= now'
  BY <1>1, AccessAssumption DEF TypeInv, TypeOK
<1> QED
  BY <1>2, <1>3, <1>4 DEF TypeInv

LEMMA StutterType ==
  ASSUME TypeInv, UNCHANGED vars
  PROVE  TypeInv'
<1>1. \A q \in Requests : HandOK(q)'
  BY HandKept, TokensUnchanged DEF vars, tables
<1> QED
  BY <1>1 DEF TypeInv, TypeOK, vars, tables, history

LEMMA TypeStep == TypeInv /\ [Next]_vars => TypeInv'
BY ArriveType, GetTokenType, AuthenticateType, TouchType, ThrottleType, MutateType,
   CreateTenantType, IssueTokenType, RevokeUpdateType, RevokeLookupType, RevokeCommitType, FailType, TickType,
   StutterType
DEF Next, Step

\* No step takes a row out of a token table, moves it to another tenant, changes
\* its expiry or takes a revocation back.
LEMMA GrowStep == TypeInv /\ [Next]_vars => TokensGrow
<1> SUFFICES ASSUME TypeInv, [Next]_vars PROVE TokensGrow
  OBVIOUS
<1>1. ASSUME NEW r \in Requests, TouchToken(r) \/ IssueToken(r) \/ RevokeCommit(r) PROVE TokensGrow
  BY <1>1, TouchType, IssueTokenType, RevokeCommitType
<1>2. CASE UNCHANGED tokens
  BY <1>2, TokensUnchanged
<1> QED
  BY <1>1, <1>2
  DEF Next, Step, vars, tables, Tick, Arrive, GetTokenByKeyID, Authenticate, Throttle, Mutate,
      CreateTenant, RevokeUpdate, RevokeLookup, Fail

\* The tables, the buckets and every request are what the model says, for any
\* number of requests: in particular no bucket is overdrawn, and no actor but an
\* operator of the console or the CLI is in the administrative log.
THEOREM TypeCorrect == Spec => []TypeOK
<1>1. TypeInv => TypeOK
  BY DEF TypeInv
<1> QED
  BY <1>1, TypeInit, TypeStep, PTL DEF Spec

-----------------------------------------------------------------------------
(***************************************************************************)
(* The rate limit. What a window has let through and what is still in the  *)
(* bucket together never exceed what the window allows: RateBound alone    *)
(* does not say how much a bucket still holds.                             *)
(***************************************************************************)

Window(k, s) ==
  /\ s > now => passed[k][s] = 0
  /\ s <= now => passed[k][s] + Level(k) <= Burst + Rate * (now - s)

RateInv == TypeInv /\ (Rate > 0 => \A k \in ScimKeys : \A s \in 0..MaxTime : Window(k, s))

LEMMA RateInit == Init => RateInv
<1> SUFFICES ASSUME Init, NEW k \in ScimKeys, NEW s \in 0..MaxTime PROVE Window(k, s)
  BY TypeInit DEF RateInv
<1>1. now = 0 /\ passed[k][s] = 0 /\ Level(k) = Burst
  BY DEF Init, Level
<1>2. s <= 0 => now - s = 0
  BY <1>1
<1>3. Rate * 0 = 0
  BY AccessAssumption
<1> QED
  BY <1>1, <1>2, <1>3, AccessAssumption DEF Window

\* The bucket of a key after one of its requests.
LEMMA RateThrottle ==
  ASSUME RateInv, Rate > 0, NEW r \in Requests, Throttle(r), NEW k \in ScimKeys, NEW s \in 0..MaxTime
  PROVE  Window(k, s)'
<1>0. TypeInv /\ Window(k, s)
  BY DEF RateInv
<1>1. /\ TypeInv /\ Window(k, s) /\ now' = now /\ now \in Nat /\ passed[k][s] \in Nat
      /\ Rate * (now - s) \in Int
  <2>1. now' = now
    BY DEF Throttle
  <2>2. now \in Nat /\ passed[k][s] \in Nat
    BY <1>0, AccessAssumption DEF TypeInv, TypeOK
  <2> QED
    BY <1>0, <2>1, <2>2, AccessAssumption
<1>2. PICK h \in ScimKeys : h = job[r].key
  BY <1>1 DEF TypeInv, HandOK, HasRow, Table, Throttle, Http
<1>3. Level(h) \in 0..Burst /\ ~Unlimited
  BY <1>1, <1>2, LevelType DEF Unlimited
<1>4. CASE k # h
  <2>1. bucket'[k] = bucket[k] /\ passed'[k] = passed[k]
    BY <1>1, <1>2, <1>4 DEF Throttle, Drawn, TypeInv, TypeOK
  <2>2. Level(k)' = Level(k)
    BY <1>1, <2>1 DEF Level
  <2> QED
    BY <1>1, <2>1, <2>2 DEF Window
<1>5. CASE k = h
  <2>1. ASSUME NEW l \in Nat, l <= Burst, bucket' = [bucket EXCEPT ![h] = [level |-> l, at |-> now]]
        PROVE  Level(h)' = l
    <3>1. bucket'[h] = [level |-> l, at |-> now]
      BY <1>1, <1>2, <2>1 DEF TypeInv, TypeOK
    <3>2. bucket'[h] # Absent
      BY <1>1, <3>1, AccessAssumption
    <3>3. Rate * (now' - now) = 0
      BY <1>1, AccessAssumption
    <3> QED
      BY <1>1, <2>1, <3>1, <3>2, <3>3, AccessAssumption DEF Level
  <2>2. CASE Allows(h)
    <3>1. Level(h)' = Level(h) - 1
      BY <1>2, <1>3, <2>1, <2>2, AccessAssumption DEF Throttle, Drawn, Allows
    <3>2. passed'[h][s] = IF s <= now THEN passed[h][s] + 1 ELSE passed[h][s]
      <4> DEFINE more == [t \in 0..MaxTime |-> IF t <= now THEN passed[h][t] + 1 ELSE passed[h][t]]
      <4>1. passed' = [passed EXCEPT ![h] = more]
        BY <1>2, <2>2 DEF Throttle
      <4>2. passed'[h] = more
        BY <1>1, <1>2, <4>1 DEF TypeInv, TypeOK
      <4> QED
        BY <4>2
    <3> QED
      BY <1>1, <1>3, <1>5, <3>1, <3>2, AccessAssumption DEF Window
  <2>3. CASE ~Allows(h)
    <3>1. Level(h)' = Level(h) /\ passed' = passed
      BY <1>2, <1>3, <2>1, <2>3, AccessAssumption DEF Throttle, Drawn
    <3> QED
      BY <1>1, <1>5, <3>1 DEF Window
  <2> QED
    BY <2>2, <2>3
<1> QED
  BY <1>4, <1>5

\* In a tick a bucket gains at most the rate, and so does every window.
LEMMA RateTick ==
  ASSUME RateInv, Rate > 0, Tick, NEW k \in ScimKeys, NEW s \in 0..MaxTime
  PROVE  Window(k, s)'
<1>0. TypeInv /\ Window(k, s)
  BY DEF RateInv
<1>1. /\ TypeInv /\ Window(k, s) /\ now' = now + 1 /\ now \in Nat /\ passed[k][s] \in Nat
      /\ passed' = passed /\ bucket' = bucket
  <2>1. now' = now + 1 /\ passed' = passed /\ bucket' = bucket
    BY DEF Tick, history
  <2>2. now \in Nat /\ passed[k][s] \in Nat
    BY <1>0, AccessAssumption DEF TypeInv, TypeOK
  <2> QED
    BY <1>0, <2>1, <2>2
<1>2. Level(k) \in 0..Burst /\ Level(k)' \in Int /\ Level(k)' <= Burst
  <2>1. bucket[k] # Absent =>
          bucket[k].level \in Int /\ Rate * (now' - bucket[k].at) \in Int
    <3>1. bucket[k] # Absent => bucket[k].level \in Nat /\ bucket[k].at \in Nat
      BY <1>1, AccessAssumption DEF TypeInv, TypeOK
    <3> QED
      BY <1>1, <3>1, AccessAssumption
  <2>2. Level(k)' \in Int /\ Level(k)' <= Burst
    BY <1>1, <2>1, AccessAssumption DEF Level
  <2> QED
    BY <1>1, <2>2, LevelType
<1>3. \A d \in Int : Rate * (d + 1) = Rate * d + Rate
  BY AccessAssumption
<1>4. Level(k)' <= Level(k) + Rate
  <2>1. CASE bucket[k] = Absent
    BY <1>1, <2>1, AccessAssumption DEF Level
  <2>2. CASE bucket[k] # Absent
    <3>1. bucket[k].level \in Nat /\ bucket[k].at \in Nat
      BY <1>1, <2>2, AccessAssumption DEF TypeInv, TypeOK
    <3> DEFINE d == now - bucket[k].at
    <3>2. now' - bucket[k].at = d + 1 /\ d \in Int /\ Rate * d \in Int
      BY <1>1, <3>1, AccessAssumption
    <3>3. Rate * (now' - bucket[k].at) = Rate * d + Rate
      BY <1>3, <3>2
    <3> QED
      BY <1>1, <2>2, <3>1, <3>2, <3>3, AccessAssumption DEF Level
  <2> QED
    BY <2>1, <2>2
<1>5. CASE s <= now
  <2>1. now' - s = (now - s) + 1 /\ now - s \in Int /\ Rate * (now - s) \in Int
    BY <1>1, AccessAssumption
  <2>2. Rate * (now' - s) = Rate * (now - s) + Rate
    BY <1>3, <2>1
  <2> QED
    BY <1>1, <1>2, <1>4, <1>5, <2>1, <2>2, AccessAssumption DEF Window
<1>6. CASE s > now
  <2>1. s <= now' => now' - s = 0
    BY <1>1, <1>6
  <2>2. Rate * 0 = 0
    BY AccessAssumption
  <2> QED
    BY <1>1, <1>2, <1>6, <2>1, <2>2, AccessAssumption DEF Window
<1> QED
  BY <1>1, <1>5, <1>6

LEMMA RateStep ==
  ASSUME RateInv, [Next]_vars
  PROVE  RateInv'
<1>1. TypeInv'
  BY TypeStep DEF RateInv
<1>2. CASE UNCHANGED <<now, bucket, passed>>
  <2>1. \A k \in ScimKeys : Level(k)' = Level(k)
    BY <1>2 DEF Level
  <2> QED
    BY <1>1, <1>2, <2>1 DEF RateInv, Window
<1>3. CASE Tick \/ \E r \in Requests : Throttle(r)
  BY <1>1, <1>3, RateTick, RateThrottle DEF RateInv
<1> QED
  BY <1>2, <1>3
  DEF Next, Step, vars, tables, history, Arrive, GetTokenByKeyID, Authenticate, TouchToken, Mutate,
      CreateTenant, IssueToken, RevokeUpdate, RevokeLookup, RevokeCommit, Fail

\* Whatever the rate, unless it is 0 and switches the limiter off, and the burst,
\* and however many requests carry a key and interleave, no window of time sees more of them pass than the burst and the
\* rate times its length.
THEOREM RateIsBounded == Spec => []RateBound
<1>1. ASSUME RateInv PROVE RateBound
  <2> SUFFICES ASSUME Rate > 0, NEW k \in ScimKeys, NEW s \in 0..now
               PROVE  passed[k][s] <= Burst + Rate * (now - s)
    BY DEF RateBound
  <2>1. now \in 0..MaxTime /\ s \in 0..MaxTime /\ s <= now /\ passed[k][s] \in Nat
    BY <1>1, AccessAssumption DEF RateInv, TypeInv, TypeOK
  <2>2. Level(k) \in 0..Burst
    BY <1>1, LevelType DEF RateInv
  <2>3. passed[k][s] + Level(k) <= Burst + Rate * (now - s)
    BY <1>1, <2>1 DEF RateInv, Window
  <2>4. Rate * (now - s) \in Int
    BY <2>1, AccessAssumption
  <2> QED
    BY <2>1, <2>2, <2>3, <2>4, AccessAssumption
<1>2. RateInv /\ [Next]_vars => RateInv'
  BY RateStep
<1> QED
  BY <1>1, <1>2, RateInit, PTL DEF Spec

-----------------------------------------------------------------------------
(***************************************************************************)
(* Tenants. A mutation was made by a request that has been answered, whose *)
(* token is still in the table; TypeInv has the rest: past authentication  *)
(* the row in hand names the tenant of the path.                           *)
(***************************************************************************)

EffectOK(e) ==
  /\ e.req \in Requests /\ phase[e.req] = "done"
  /\ e.row = e.audit /\ job[e.req].key \in ScimKeys
  /\ tokens[job[e.req].key] \in Token /\ tokens[job[e.req].key].tenant = e.row

TenantInv == TypeInv /\ \A e \in effects : EffectOK(e)

LEMMA TenantStep ==
  ASSUME TenantInv, [Next]_vars
  PROVE  TenantInv'
<1>1. TypeInv /\ TypeInv' /\ TokensGrow
  BY TypeStep, GrowStep DEF TenantInv
<1>2. \A q \in Requests : phase[q] = "done" => phase'[q] = "done" /\ job'[q] = job[q]
  <2>1. ASSUME NEW r \in Requests, NEW p, Goto(r, p) \/ Reply(r, p), phase[r] # "done"
        PROVE  \A q \in Requests : phase[q] = "done" => phase'[q] = "done"
    BY <1>1, <2>1 DEF Goto, Reply, TypeInv, TypeOK
  <2>2. CASE Tick \/ UNCHANGED vars
    BY <2>2 DEF Tick, vars
  <2>3. CASE \E r \in Requests : Arrive(r)
    BY <1>1, <2>1, <2>3 DEF Arrive, TypeInv, TypeOK
  <2>4. CASE \E r \in Requests : \/ GetTokenByKeyID(r) \/ Authenticate(r) \/ TouchToken(r)
                                 \/ Throttle(r) \/ Mutate(r) \/ RevokeUpdate(r)
                                 \/ RevokeLookup(r) \/ Fail(r)
    BY <2>1, <2>4 DEF GetTokenByKeyID, Authenticate, TouchToken, Touched, Throttle, Mutate,
                      RevokeUpdate, RevokeLookup, Admin, Fail
  <2>5. CASE \E r \in Requests : CreateTenant(r) \/ IssueToken(r) \/ RevokeCommit(r)
    BY <2>1, <2>5 DEF CreateTenant, IssueToken, RevokeCommit, Committed, Admin
  <2> QED
    BY <2>2, <2>3, <2>4, <2>5 DEF Next, Step
<1>3. ASSUME NEW e \in effects PROVE EffectOK(e)'
  <2>1. EffectOK(e) /\ job[e.req].key \in Keys
    BY DEF TenantInv, EffectOK, Keys
  <2> QED
    BY <1>1, <1>2, <2>1 DEF EffectOK, TokensGrow
<1>4. ASSUME NEW r \in Requests, Mutate(r),
             NEW e \in {[req |-> r, row |-> job[r].path, audit |-> row[r].tenant]}
      PROVE  EffectOK(e)'
  <2>1. phase[r] = "ready" /\ job[r].via = "scim" /\ UNCHANGED <<job, tokens>> /\ phase'[r] = "done"
    BY <1>1, <1>4 DEF Mutate, Reply, TypeInv, TypeOK, tables
  <2>2. /\ row[r].tenant = job[r].path /\ job[r].key \in ScimKeys
        /\ tokens[job[r].key] \in Token /\ row[r].tenant = tokens[job[r].key].tenant
    BY <1>1, <2>1 DEF TypeInv, HandOK, HasRow, Http, Table
  <2> QED
    BY <1>4, <2>1, <2>2 DEF EffectOK
<1>5. CASE effects' = effects
  BY <1>1, <1>3, <1>5 DEF TenantInv
<1>6. CASE \E r \in Requests : Mutate(r)
  BY <1>1, <1>3, <1>4, <1>6 DEF TenantInv, Mutate
<1> QED
  BY <1>5, <1>6
  DEF Next, Step, vars, history, Tick, Arrive, GetTokenByKeyID, Authenticate, TouchToken, Throttle,
      CreateTenant, IssueToken, RevokeUpdate, RevokeLookup, RevokeCommit, Fail

\* Row and audit entry of every mutation belong to the tenant that its token was
\* and is issued for, whatever is issued, revoked or created meanwhile.
THEOREM TenantsNeverMix == Spec => []TenantsStayApart
<1>1. TenantInv => TenantsStayApart
  BY DEF TenantInv, EffectOK, TenantsStayApart
<1>2. Init => TenantInv
  BY TypeInit DEF Init, TenantInv
<1>3. TenantInv /\ [Next]_vars => TenantInv'
  BY TenantStep
<1> QED
  BY <1>1, <1>2, <1>3, PTL DEF Spec

-----------------------------------------------------------------------------
(***************************************************************************)
(* Revocation. What was dead when a request arrived is dead for good, so   *)
(* it is dead in the row that the request reads and when that is checked.  *)
(***************************************************************************)

DeadOK(r) ==
  /\ \A k \in dead[r] : tokens[k] \in Token /\ IsDead(tokens[k], now)
  /\ phase[r] = "check" /\ job[r].key \in dead[r] => IsDead(row[r], now)
  /\ LetIn(r) /\ job[r].via # "cli" => job[r].key \notin dead[r]

DeadInv == TypeInv /\ \A r \in Requests : DeadOK(r)

\* Dead tokens stay dead, in the table and in hand.
LEMMA StillDead ==
  ASSUME TypeInv, TokensGrow, now' \in {now, now + 1}
  PROVE  /\ \A k \in Keys : tokens[k] \in Token /\ IsDead(tokens[k], now) =>
              tokens'[k] \in Token /\ IsDead(tokens'[k], now')
         /\ \A t \in Token : IsDead(t, now) => IsDead(t, now')
<1>1. now \in Nat /\ \A t \in Token : t.expires \in Nat
  BY AccessAssumption DEF TypeInv, TypeOK, Token, Times, Never
<1>2. \A t \in Token : IsDead(t, now) => IsDead(t, now')
  BY <1>1 DEF IsDead
<1>3. ASSUME NEW k \in Keys, tokens[k] \in Token, IsDead(tokens[k], now)
      PROVE  tokens'[k] \in Token /\ IsDead(tokens'[k], now')
  <2>1. IsDead(tokens[k], now')
    BY <1>2, <1>3
  <2> QED
    BY <1>3, <2>1 DEF TokensGrow, IsDead
<1> QED
  BY <1>2, <1>3

\* A request that takes no step.
LEMMA DeadKept ==
  ASSUME DeadInv, TokensGrow, now' \in {now, now + 1}, NEW q \in Requests,
         phase'[q] = phase[q], answer'[q] = answer[q], job'[q] = job[q], row'[q] = row[q],
         dead'[q] = dead[q]
  PROVE  DeadOK(q)'
<1>1. TypeInv /\ DeadOK(q) /\ dead[q] \subseteq Keys
  BY DEF DeadInv, TypeInv, TypeOK
<1>2. \A k \in dead[q] : tokens'[k] \in Token /\ IsDead(tokens'[k], now')
  BY <1>1, StillDead DEF DeadOK
<1>3. phase[q] = "check" => row[q] \in Token
  BY <1>1 DEF TypeInv, HandOK, HasRow
<1>4. phase[q] = "check" /\ job[q].key \in dead[q] => IsDead(row[q], now')
  BY <1>1, <1>3, StillDead DEF DeadOK
<1>5. LetIn(q)' = LetIn(q)
  BY DEF LetIn
<1> QED
  BY <1>1, <1>2, <1>4, <1>5 DEF DeadOK

\* A request that was let in, that needs no token, or that is turned away.
LEMMA DeadMoved ==
  ASSUME DeadInv, TokensGrow, now' = now, NEW r \in Requests,
         job'[r] = job[r], dead'[r] = dead[r], phase'[r] # "check",
         \/ job[r].via = "cli"
         \/ job[r].key \notin dead[r]
         \/ phase'[r] = "done" /\ answer'[r] \in {"denied", "error"}
  PROVE  DeadOK(r)'
<1>1. TypeInv /\ DeadOK(r) /\ dead[r] \subseteq Keys
  BY DEF DeadInv, TypeInv, TypeOK
<1>2. \A k \in dead[r] : tokens'[k] \in Token /\ IsDead(tokens'[k], now')
  BY <1>1, StillDead DEF DeadOK
<1>3. phase'[r] = "done" /\ answer'[r] \in {"denied", "error"} => ~LetIn(r)'
  BY DEF LetIn
<1> QED
  BY <1>2, <1>3 DEF DeadOK

\* The requests other than the one that moves.
Others(r) ==
  \A q \in Requests \ {r} :
    /\ phase'[q] = phase[q] /\ answer'[q] = answer[q] /\ job'[q] = job[q] /\ row'[q] = row[q]
    /\ dead'[q] = dead[q]

LEMMA MovedOthers ==
  ASSUME TypeInv, NEW r \in Requests, NEW x, Goto(r, x) \/ Reply(r, x), UNCHANGED <<job, row, dead>>
  PROVE  Others(r) /\ (Reply(r, x) => phase'[r] = "done" /\ answer'[r] = x)
                   /\ (Goto(r, x) => phase'[r] = x)
BY DEF Goto, Reply, Others, TypeInv, TypeOK

LEMMA DeadStep ==
  ASSUME DeadInv, [Next]_vars
  PROVE  DeadInv'
<1>1. TypeInv /\ TypeInv' /\ TokensGrow
  BY TypeStep, GrowStep DEF DeadInv
<1>2. CASE Tick \/ UNCHANGED vars
  <2>1. now' \in {now, now + 1} /\ UNCHANGED <<phase, answer, job, row, dead>>
    BY <1>2 DEF Tick, vars, history
  <2> QED
    BY <1>1, <2>1, DeadKept DEF DeadInv
<1>3. ASSUME NEW r \in Requests, Step(r)
      PROVE  now' = now /\ Others(r) /\ DeadOK(r)'
  <2>1. DeadOK(r) /\ HandOK(r)
    BY <1>1 DEF DeadInv, TypeInv
  <2>2. CASE Arrive(r)
    <3>1. PICK j \in Jobs : /\ job' = [job EXCEPT ![r] = j]
                            /\ Goto(r, IF j.via = "cli" THEN "ready" ELSE "lookup")
      BY <2>2 DEF Arrive
    <3>2. /\ UNCHANGED <<tokens, now, row>>
          /\ dead'[r] = {k \in Keys : tokens[k] # Absent /\ IsDead(tokens[k], now)}
          /\ \A q \in Requests \ {r} : dead'[q] = dead[q]
      BY <1>1, <2>2 DEF Arrive, TypeInv, TypeOK, tables
    <3>3. /\ job'[r] = j /\ phase'[r] = IF j.via = "cli" THEN "ready" ELSE "lookup"
          /\ Others(r)
      BY <1>1, <3>1, <3>2 DEF Goto, Others, TypeInv, TypeOK
    <3>4. \A k \in dead'[r] : tokens'[k] \in Token /\ IsDead(tokens'[k], now')
      BY <1>1, <3>2 DEF TypeInv, TypeOK
    <3> QED
      BY <3>2, <3>3, <3>4 DEF DeadOK, LetIn
  <2>3. CASE GetTokenByKeyID(r)
    <3>1. UNCHANGED <<tokens, now, job, dead>> /\ phase[r] = "lookup"
      BY <2>3 DEF GetTokenByKeyID, tables, history
    <3>2. CASE /\ row' = [row EXCEPT ![r] = tokens[job[r].key]]
               /\ Goto(r, "check")
      <4>1. Others(r) /\ row'[r] = tokens[job[r].key] /\ phase'[r] = "check"
        BY <1>1, <3>1, <3>2 DEF Goto, Others, TypeInv, TypeOK
      <4> QED
        BY <2>1, <3>1, <4>1 DEF DeadOK, LetIn
    <3>3. CASE Reply(r, "denied") /\ UNCHANGED row
      <4>1. Others(r) /\ phase'[r] = "done" /\ answer'[r] = "denied"
        BY <1>1, <3>1, <3>3, MovedOthers
      <4> QED
        BY <1>1, <3>1, <4>1, DeadMoved
    <3> QED
      BY <2>3, <3>2, <3>3 DEF GetTokenByKeyID
  <2>4. CASE Authenticate(r)
    <3>1. UNCHANGED <<tokens, now, job, row, dead>> /\ phase[r] = "check"
      BY <2>4 DEF Authenticate, tables, history
    <3>2. CASE Accepts(r) /\ Goto(r, "touch")
      <4>1. Others(r) /\ phase'[r] = "touch"
        BY <1>1, <3>1, <3>2, MovedOthers
      <4>2. job[r].key \notin dead[r]
        BY <2>1, <3>1, <3>2 DEF DeadOK, Accepts
      <4> QED
        BY <1>1, <3>1, <4>1, <4>2, DeadMoved
    <3>3. CASE Reply(r, "denied")
      <4>1. Others(r) /\ phase'[r] = "done" /\ answer'[r] = "denied"
        BY <1>1, <3>1, <3>3, MovedOthers
      <4> QED
        BY <1>1, <3>1, <4>1, DeadMoved
    <3> QED
      BY <2>4, <3>2, <3>3 DEF Authenticate
  <2>5. ASSUME phase[r] \in {"touch", "throttle", "ready", "locked", "missed"},
               UNCHANGED <<now, job, row, dead>>,
               NEW x \in {"throttle", "ready", "locked", "missed", "ok", "limited", "not_found", "conflict",
                          "error"},
               Goto(r, x) \/ Reply(r, x)
        PROVE  now' = now /\ Others(r) /\ DeadOK(r)'
    <3>1. Others(r) /\ phase'[r] # "check"
      BY <1>1, <2>5, MovedOthers
    <3>2. job[r].via = "cli" \/ job[r].key \notin dead[r]
      BY <2>1, <2>5 DEF DeadOK, LetIn
    <3> QED
      BY <1>1, <2>5, <3>1, <3>2, DeadMoved
  <2>6. CASE TouchToken(r)
    BY <2>5, <2>6 DEF TouchToken, Touched, history
  <2>7. CASE Throttle(r)
    BY <2>5, <2>7 DEF Throttle
  <2>8. CASE Mutate(r)
    BY <2>5, <2>8 DEF Mutate
  <2>9. CASE CreateTenant(r)
    BY <2>5, <2>9 DEF CreateTenant, Admin, Committed, history
  <2>10. CASE IssueToken(r)
    BY <2>5, <2>10 DEF IssueToken, Admin, Committed, history
  <2>11. CASE RevokeUpdate(r)
    BY <2>5, <2>11 DEF RevokeUpdate, Admin, history
  <2>12. CASE RevokeCommit(r)
    BY <2>5, <2>12 DEF RevokeCommit, Committed, history
  <2>14. CASE RevokeLookup(r)
    BY <2>5, <2>14 DEF RevokeLookup, history
  <2>13. CASE Fail(r)
    <3>1. UNCHANGED <<now, job, row, dead>>
      BY <2>13 DEF Fail, history
    <3>2. CASE phase[r] = "lookup" /\ Reply(r, "denied")
      <4>1. Others(r) /\ phase'[r] = "done" /\ answer'[r] = "denied"
        BY <1>1, <3>1, <3>2, MovedOthers
      <4> QED
        BY <1>1, <3>1, <4>1, DeadMoved
    <3> QED
      BY <2>5, <2>13, <3>1, <3>2 DEF Fail, Touched
  <2> QED
    BY <1>3, <2>2, <2>3, <2>4, <2>6, <2>7, <2>8, <2>9, <2>10, <2>11, <2>12, <2>13, <2>14
    DEF Step
<1>4. CASE \E r \in Requests : Step(r)
  <2> PICK r \in Requests : Step(r)
    BY <1>4
  <2>1. now' = now /\ Others(r) /\ DeadOK(r)'
    BY <1>3
  <2>2. \A q \in Requests \ {r} : DeadOK(q)'
    BY <1>1, <2>1, DeadKept DEF Others
  <2> QED
    BY <1>1, <2>1, <2>2 DEF DeadInv
<1> QED
  BY <1>2, <1>4 DEF Next

\* A token that was revoked or had expired when a request arrived does not let it
\* in, whatever the request's statements interleave with.
THEOREM RevocationHolds == Spec => []DeadTokensOpenNothing
<1>1. DeadInv => DeadTokensOpenNothing
  BY DEF DeadInv, DeadOK, DeadTokensOpenNothing
<1>2. Init => DeadInv
  BY TypeInit DEF Init, DeadInv, DeadOK, LetIn
<1>3. DeadInv /\ [Next]_vars => DeadInv'
  BY DeadStep
<1> QED
  BY <1>1, <1>2, <1>3, PTL DEF Spec

-----------------------------------------------------------------------------
(***************************************************************************)
(* The administrative log. Between its UPDATE and its commit a revocation  *)
(* holds the row's lock, and the token is not revoked: so whoever commits  *)
(* an entry is the first to. What was there at the start stays.            *)
(***************************************************************************)

Locked(r) == phase[r] = "locked" => holder[Task_(r).key] = r /\ ~tokens[Task_(r).key].revoked

Founded ==
  /\ \A k \in Keys : tokens[k] = Absent => Tokens0[k] = Absent
  /\ \A t \in TenantIds : tenants[t] = Absent => Tenants0[t] = Absent

LogInv == TypeInv /\ AdminLogIsExact /\ Founded /\ \A r \in Requests : Locked(r)

\* What an appended entry does to the entries there are.
LEMMA Logged ==
  ASSUME TypeInv, NEW a, NEW x, NEW b, admin' = Append(admin, Entry(a, x, b))
  PROVE  /\ Len(admin) \in Nat /\ DOMAIN admin' = 1..(Len(admin) + 1)
         /\ admin'[Len(admin) + 1] = Entry(a, x, b)
         /\ \A n \in DOMAIN admin : admin'[n] = admin[n]
         /\ Records(a, x)' = Records(a, x) \cup {Len(admin) + 1}
         /\ \A c, y : c # a \/ y # x => Records(c, y)' = Records(c, y)
         /\ \A c, y : \A n \in Records(c, y) : n \in 1..Len(admin)
<1>1. /\ Len(admin) \in Nat /\ DOMAIN admin = 1..Len(admin) /\ DOMAIN admin' = 1..(Len(admin) + 1)
      /\ admin'[Len(admin) + 1] = Entry(a, x, b)
      /\ \A n \in DOMAIN admin : admin'[n] = admin[n]
  BY DEF TypeInv, TypeOK
<1>2. Entry(a, x, b).action = a /\ Entry(a, x, b).target = x
  BY DEF Entry
<1>3. Records(a, x)' = Records(a, x) \cup {Len(admin) + 1}
  BY <1>1, <1>2 DEF Records
<1>4. ASSUME NEW c, NEW y, c # a \/ y # x PROVE Records(c, y)' = Records(c, y)
  BY <1>1, <1>2, <1>4 DEF Records
<1>5. \A c, y : \A n \in Records(c, y) : n \in 1..Len(admin)
  BY <1>1 DEF Records
<1> QED
  BY <1>1, <1>3, <1>4, <1>5

\* A step that writes no entry and changes of the tokens at most when they were used.
LEMMA LogKept ==
  ASSUME AdminLogIsExact, Founded, UNCHANGED <<admin, tenants>>,
         \A k \in Keys : /\ tokens'[k] = Absent <=> tokens[k] = Absent
                         /\ tokens[k] # Absent => tokens'[k].revoked = tokens[k].revoked
  PROVE  AdminLogIsExact' /\ Founded'
<1>1. \A a, x : Records(a, x)' = Records(a, x)
  BY DEF Records
<1> QED
  BY <1>1 DEF AdminLogIsExact, OneIff, Founded

LEMMA LogTenant ==
  ASSUME LogInv, NEW t \in TenantIds, NEW n \in Names, NEW b, tenants[t] = Absent,
         tenants' = [tenants EXCEPT ![t] = n], tokens' = tokens,
         admin' = Append(admin, Entry("tenant", t, b))
  PROVE  AdminLogIsExact' /\ Founded'
<1>1. TypeInv /\ AdminLogIsExact /\ Founded /\ Tenants0[t] = Absent /\ n # Absent
  BY AccessAssumption DEF LogInv, Founded
<1>2. tenants'[t] = n /\ \A s \in TenantIds \ {t} : tenants'[s] = tenants[s]
  BY <1>1 DEF TypeInv, TypeOK
<1>3. Founded'
  BY <1>1, <1>2 DEF Founded
<1>4. Records("tenant", t) = {}
  BY <1>1 DEF AdminLogIsExact, OneIff
<1>5. /\ Records("tenant", t)' = {Len(admin) + 1}
      /\ \A s \in TenantIds \ {t} : Records("tenant", s)' = Records("tenant", s)
      /\ \A k \in Keys : /\ Records("issue", k)' = Records("issue", k)
                         /\ Records("revoke", k)' = Records("revoke", k)
  BY <1>1, <1>4, Logged
<1>6. ASSUME NEW s \in TenantIds PROVE OneIff("tenant", s, tenants[s] # Tenants0[s])'
  <2>1. CASE s = t
    BY <1>1, <1>2, <1>5, <2>1 DEF OneIff
  <2>2. CASE s # t
    BY <1>1, <1>2, <1>5, <2>2 DEF AdminLogIsExact, OneIff
  <2> QED
    BY <2>1, <2>2
<1>7. ASSUME NEW k \in Keys
      PROVE  /\ OneIff("issue", k, tokens[k] # Absent /\ Tokens0[k] = Absent)'
             /\ OneIff("revoke", k, tokens[k] # Absent /\ tokens[k].revoked)'
             /\ \A i \in Records("issue", k)', j \in Records("revoke", k)' : i < j
  BY <1>1, <1>5 DEF AdminLogIsExact, OneIff
<1>8. \A i \in DOMAIN admin' :
        admin'[i].target \in IF admin'[i].action = "tenant" THEN TenantIds ELSE Keys
  <2>1. /\ DOMAIN admin = 1..Len(admin) /\ Len(admin) \in Nat
        /\ DOMAIN admin' = 1..(Len(admin) + 1) /\ \A i \in DOMAIN admin : admin'[i] = admin[i]
        /\ admin'[Len(admin) + 1].target = t /\ admin'[Len(admin) + 1].action = "tenant"
    BY <1>1, Logged DEF TypeInv, TypeOK, Entry
  <2> QED
    BY <1>1, <2>1 DEF AdminLogIsExact
<1> QED
  BY <1>3, <1>6, <1>7, <1>8 DEF AdminLogIsExact

LEMMA LogToken ==
  ASSUME LogInv, NEW a \in {"issue", "revoke"}, NEW k \in Keys, NEW new \in Token, NEW b,
         a = "issue" => tokens[k] = Absent /\ ~new.revoked,
         a = "revoke" => tokens[k] # Absent /\ ~tokens[k].revoked /\ new.revoked,
         tokens' = [tokens EXCEPT ![k] = new], tenants' = tenants,
         admin' = Append(admin, Entry(a, k, b))
  PROVE  AdminLogIsExact' /\ Founded'
<1>1. TypeInv /\ AdminLogIsExact /\ Founded /\ new # Absent
  BY AccessAssumption DEF LogInv
<1>2. tokens'[k] = new /\ \A h \in Keys \ {k} : tokens'[h] = tokens[h]
  BY <1>1 DEF TypeInv, TypeOK
<1>3. Founded'
  BY <1>1, <1>2 DEF Founded
<1>4. /\ Records(a, k)' = Records(a, k) \cup {Len(admin) + 1}
      /\ \A c \in {"issue", "revoke"}, h \in Keys :
           c # a \/ h # k => Records(c, h)' = Records(c, h)
      /\ \A t \in TenantIds : Records("tenant", t)' = Records("tenant", t)
      /\ \A c \in {"issue", "revoke"}, h \in Keys : \A n \in Records(c, h) : n \in 1..Len(admin)
      /\ Len(admin) \in Nat
  BY <1>1, Logged
<1>5. /\ a = "issue" => Records("issue", k) = {} /\ Records("revoke", k) = {} /\ Tokens0[k] = Absent
      /\ a = "revoke" => Records("revoke", k) = {}
  BY <1>1 DEF AdminLogIsExact, OneIff, Founded
<1>6. ASSUME NEW h \in Keys
      PROVE  /\ OneIff("issue", h, tokens[h] # Absent /\ Tokens0[h] = Absent)'
             /\ OneIff("revoke", h, tokens[h] # Absent /\ tokens[h].revoked)'
             /\ \A i \in Records("issue", h)', j \in Records("revoke", h)' : i < j
  <2>1. CASE h # k
    BY <1>1, <1>2, <1>4, <2>1 DEF AdminLogIsExact, OneIff
  <2>2. CASE h = k /\ a = "issue"
    <3>1. Records("issue", h)' = {Len(admin) + 1} /\ Records("revoke", h)' = {}
      BY <1>4, <1>5, <2>2
    <3> QED
      BY <1>1, <1>2, <1>5, <2>2, <3>1 DEF OneIff
  <2>3. CASE h = k /\ a = "revoke"
    <3>1. Records("issue", h)' = Records("issue", h) /\ Records("revoke", h)' = {Len(admin) + 1}
      BY <1>4, <1>5, <2>3
    <3>2. \A i \in Records("issue", h) : i \in 1..Len(admin) /\ i < Len(admin) + 1
      BY <1>4
    <3>3. OneIff("issue", h, tokens[h] # Absent /\ Tokens0[h] = Absent)'
      BY <1>1, <1>2, <2>3, <3>1 DEF AdminLogIsExact, OneIff
    <3>4. OneIff("revoke", h, tokens[h] # Absent /\ tokens[h].revoked)'
      BY <1>1, <1>2, <2>3, <3>1 DEF OneIff
    <3> QED
      BY <3>1, <3>2, <3>3, <3>4
  <2> QED
    BY <2>1, <2>2, <2>3
<1>7. \A t \in TenantIds : OneIff("tenant", t, tenants[t] # Tenants0[t])'
  BY <1>1, <1>4 DEF AdminLogIsExact, OneIff
<1>8. \A i \in DOMAIN admin' :
        admin'[i].target \in IF admin'[i].action = "tenant" THEN TenantIds ELSE Keys
  <2>1. /\ DOMAIN admin = 1..Len(admin) /\ Len(admin) \in Nat
        /\ DOMAIN admin' = 1..(Len(admin) + 1) /\ \A i \in DOMAIN admin : admin'[i] = admin[i]
        /\ admin'[Len(admin) + 1].target = k /\ admin'[Len(admin) + 1].action = a
    BY <1>1, Logged DEF TypeInv, TypeOK, Entry
  <2> QED
    BY <1>1, <2>1 DEF AdminLogIsExact
<1> QED
  BY <1>3, <1>6, <1>7, <1>8 DEF AdminLogIsExact

\* A revocation that is under way is not disturbed by what happens to other rows.
LEMMA LockKept ==
  ASSUME NEW q \in Requests, Locked(q), phase'[q] = phase[q], job'[q] = job[q],
         phase[q] = "locked" => LET k == Task_(q).key
                                IN  /\ holder'[k] = holder[k]
                                    /\ tokens'[k].revoked = tokens[k].revoked
  PROVE  Locked(q)'
BY DEF Locked, Task_

LEMMA LogStep ==
  ASSUME LogInv, [Next]_vars
  PROVE  LogInv'
<1>1. TypeInv /\ TypeInv' /\ AdminLogIsExact /\ Founded /\ \A q \in Requests : Locked(q)
  BY TypeStep DEF LogInv
<1>2. \A q \in Requests : phase[q] = "locked" =>
        /\ holder[Task_(q).key] = q /\ Task_(q).key \in Keys
        /\ tokens[Task_(q).key] \in Token /\ ~tokens[Task_(q).key].revoked
  <2> SUFFICES ASSUME NEW q \in Requests, phase[q] = "locked"
               PROVE  /\ holder[Task_(q).key] = q /\ Task_(q).key \in Keys
                      /\ tokens[Task_(q).key] \in Token /\ ~tokens[Task_(q).key].revoked
    OBVIOUS
  <2>1. HandOK(q)
    BY <1>1 DEF TypeInv
  <2>2. Task_(q) \in Task
    BY <1>1, <2>1, AdminTask DEF HandOK
  <2> QED
    BY <1>1, <2>1, <2>2, TaskFields DEF HandOK, Locked
<1>3. CASE UNCHANGED <<tenants, tokens, admin, holder>> /\ UNCHANGED <<phase, job>>
  <2>1. AdminLogIsExact' /\ Founded'
    BY <1>1, <1>3, LogKept
  <2> QED
    BY <1>1, <1>3, <2>1, LockKept DEF LogInv
<1>4. ASSUME NEW r \in Requests, UNCHANGED <<tenants, tokens, admin, holder>>,
             phase'[r] # "locked",
             \A q \in Requests \ {r} : phase'[q] = phase[q] /\ job'[q] = job[q]
      PROVE  LogInv'
  <2>1. AdminLogIsExact' /\ Founded'
    BY <1>1, <1>4, LogKept
  <2>2. Locked(r)'
    BY <1>4 DEF Locked
  <2> QED
    BY <1>1, <1>4, <2>1, <2>2, LockKept DEF LogInv
<1>5. ASSUME NEW r \in Requests, Arrive(r) PROVE LogInv'
  <2>1. PICK j \in Jobs : /\ job' = [job EXCEPT ![r] = j]
                          /\ Goto(r, IF j.via = "cli" THEN "ready" ELSE "lookup")
    BY <1>5 DEF Arrive
  <2>2. phase'[r] # "locked" /\ \A q \in Requests \ {r} : phase'[q] = phase[q] /\ job'[q] = job[q]
    BY <1>1, <2>1 DEF Goto, TypeInv, TypeOK
  <2> QED
    BY <1>4, <1>5, <2>2 DEF Arrive, tables
<1>6. ASSUME NEW r \in Requests,
             GetTokenByKeyID(r) \/ Authenticate(r) \/ Throttle(r) \/ Mutate(r) \/ RevokeLookup(r)
      PROVE  LogInv'
  <2>1. PICK x \in {"check", "touch", "ready", "denied", "limited", "ok", "not_found"} :
          Goto(r, x) \/ Reply(r, x)
    BY <1>6 DEF GetTokenByKeyID, Authenticate, Throttle, Mutate, RevokeLookup
  <2>2. phase'[r] # "locked" /\ \A q \in Requests \ {r} : phase'[q] = phase[q]
    BY <1>1, <2>1 DEF Goto, Reply, TypeInv, TypeOK
  <2>3. UNCHANGED <<tenants, tokens, admin, holder, job>>
    BY <1>6 DEF GetTokenByKeyID, Authenticate, Throttle, Mutate, RevokeLookup, tables
  <2> QED
    BY <1>4, <2>2, <2>3
<1>7. ASSUME NEW r \in Requests, TouchToken(r) PROVE LogInv'
  <2> DEFINE k == job[r].key
  <2>1. /\ UNCHANGED <<tenants, admin, holder, job>>
        /\ tokens' = [tokens EXCEPT ![k].used = TRUE]
        /\ phase[r] = "touch"
    BY <1>7 DEF TouchToken
  <2>2. phase'[r] # "locked" /\ \A q \in Requests \ {r} : phase'[q] = phase[q]
    BY <1>1, <1>7 DEF TouchToken, Touched, Goto, TypeInv, TypeOK
  <2>3. k \in Keys /\ tokens[k] \in Token
    BY <1>1, <2>1 DEF TypeInv, HandOK, HasRow, Table, Keys
  <2>4. /\ tokens'[k] = [tokens[k] EXCEPT !.used = TRUE]
        /\ \A h \in Keys \ {k} : tokens'[h] = tokens[h]
    BY <1>1, <2>1, <2>3 DEF TypeInv, TypeOK
  <2>5. tokens'[k].revoked = tokens[k].revoked /\ tokens'[k] \in Token
    BY <2>3, <2>4 DEF Token
  <2>6. \A h \in Keys : /\ tokens'[h] = Absent <=> tokens[h] = Absent
                        /\ tokens'[h].revoked = tokens[h].revoked
    BY <2>3, <2>4, <2>5, AccessAssumption
  <2>7. AdminLogIsExact' /\ Founded'
    BY <1>1, <2>1, <2>6, LogKept
  <2>8. \A q \in Requests : Locked(q)'
    BY <1>1, <1>2, <2>1, <2>2, <2>6, LockKept DEF Locked
  <2> QED
    BY <1>1, <2>7, <2>8 DEF LogInv
<1>8. ASSUME NEW r \in Requests, Committed(r) \/ (\E a : Reply(r, a))
      PROVE  phase'[r] = "done" /\ \A q \in Requests \ {r} : phase'[q] = phase[q]
  BY <1>1, <1>8 DEF Committed, Reply, TypeInv, TypeOK
<1>9. ASSUME NEW r \in Requests, CreateTenant(r) PROVE LogInv'
  <2>1. UNCHANGED <<tokens, holder, job>> /\ Task_(r).name \in Names
    BY <1>1, <1>9, AdminTask, TaskFields DEF CreateTenant, Admin
  <2>2. CASE Taken(Task_(r).name)
    BY <1>4, <1>8, <1>9, <2>1, <2>2 DEF CreateTenant
  <2>3. CASE ~Taken(Task_(r).name)
    <3>1. PICK t \in TenantIds :
            /\ tenants[t] = Absent /\ tenants' = [tenants EXCEPT ![t] = Task_(r).name]
            /\ admin' = Append(admin, Entry("tenant", t, By(r))) /\ Committed(r)
      BY <1>9, <2>3 DEF CreateTenant
    <3>2. AdminLogIsExact' /\ Founded'
      BY <2>1, <3>1, LogTenant
    <3>3. phase'[r] = "done" /\ \A q \in Requests \ {r} : phase'[q] = phase[q]
      BY <1>8, <3>1
    <3>4. \A q \in Requests : Locked(q)'
      BY <1>1, <2>1, <3>3, LockKept DEF Locked
    <3> QED
      BY <1>1, <3>2, <3>4 DEF LogInv
  <2> QED
    BY <2>2, <2>3
<1>10. ASSUME NEW r \in Requests, IssueToken(r) PROVE LogInv'
  <2>1. UNCHANGED <<tenants, holder, job>>
    BY <1>10 DEF IssueToken
  <2>2. CASE Reply(r, "error") /\ UNCHANGED <<tokens, admin, faults>>
    BY <1>4, <1>8, <2>1, <2>2
  <2>3. CASE ~(Reply(r, "error") /\ UNCHANGED <<tokens, admin, faults>>)
    <3> DEFINE new == [tenant |-> Task_(r).tenant, expires |-> Task_(r).expires,
                       revoked |-> FALSE, used |-> FALSE]
    <3>1. PICK k \in Keys : /\ tokens[k] = Absent
                            /\ tokens' = [tokens EXCEPT ![k] = new]
                            /\ admin' = Append(admin, Entry("issue", k, By(r)))
                            /\ Committed(r)
      BY <1>10, <2>3 DEF IssueToken, Keys
    <3>2. new \in Token /\ ~new.revoked
      <4>1. Task_(r) \in Task /\ Task_(r).do = "issue"
        BY <1>1, <1>10, AdminTask DEF IssueToken, Admin
      <4>2. Task_(r).tenant \in TenantIds \cup {System} /\ Task_(r).expires \in Times
        BY <4>1, TaskFields
      <4> QED
        BY <4>2 DEF Token
    <3> HIDE DEF new
    <3>3. AdminLogIsExact' /\ Founded'
      BY <2>1, <3>1, <3>2, LogToken
    <3>4. phase'[r] = "done" /\ \A q \in Requests \ {r} : phase'[q] = phase[q]
      BY <1>8, <3>1
    <3>5. ASSUME NEW q \in Requests \ {r} PROVE Locked(q)'
      <4>1. phase[q] = "locked" => Task_(q).key \in Keys \ {k}
        BY <1>2, <3>1, AccessAssumption
      <4>2. phase[q] = "locked" => tokens'[Task_(q).key] = tokens[Task_(q).key]
        BY <1>1, <3>1, <4>1 DEF TypeInv, TypeOK
      <4> QED
        BY <1>1, <2>1, <3>4, <4>2, LockKept
    <3> QED
      BY <1>1, <3>3, <3>4, <3>5 DEF LogInv, Locked
  <2> QED
    BY <2>2, <2>3
<1>11. ASSUME NEW r \in Requests, RevokeUpdate(r) PROVE LogInv'
  <2> DEFINE k == Task_(r).key
  <2>1. /\ UNCHANGED <<tenants, tokens, admin, job>> /\ holder[k] = None
        /\ phase[r] = "ready" /\ job[r].via # "scim" /\ Task_(r).do = "revoke"
    BY <1>11 DEF RevokeUpdate, Admin
  <2>2. k \in Keys
    BY <1>1, <2>1, AdminTask, TaskFields
  <2>3. CASE ~Revocable(k)
    <3>1. Goto(r, "missed") /\ UNCHANGED holder
      BY <1>11, <2>3 DEF RevokeUpdate
    <3>2. phase'[r] # "locked" /\ \A q \in Requests \ {r} : phase'[q] = phase[q]
      BY <1>1, <3>1 DEF Goto, TypeInv, TypeOK
    <3> QED
      BY <1>4, <2>1, <3>1, <3>2
  <2>4. CASE Revocable(k)
    <3>1. holder' = [holder EXCEPT ![k] = r] /\ Goto(r, "locked")
      BY <1>11, <2>4 DEF RevokeUpdate
    <3>2. /\ \A q \in Requests \ {r} : phase'[q] = phase[q]
          /\ holder'[k] = r /\ \A h \in Keys \ {k} : holder'[h] = holder[h]
      BY <1>1, <2>2, <3>1 DEF Goto, TypeInv, TypeOK
    <3>3. AdminLogIsExact' /\ Founded'
      BY <1>1, <2>1, LogKept
    <3>4. Locked(r)'
      BY <2>1, <2>4, <3>2 DEF Locked, Revocable, Task_
    <3>5. ASSUME NEW q \in Requests \ {r} PROVE Locked(q)'
      <4>1. phase[q] = "locked" => Task_(q).key \in Keys \ {k}
        BY <1>2, <2>1, AccessAssumption
      <4> QED
        BY <1>1, <2>1, <3>2, <4>1, LockKept
    <3> QED
      BY <1>1, <3>3, <3>4, <3>5 DEF LogInv
  <2> QED
    BY <2>3, <2>4
<1>12. ASSUME NEW r \in Requests, RevokeCommit(r) PROVE LogInv'
  <2> DEFINE k == Task_(r).key
             new == [tokens[k] EXCEPT !.revoked = TRUE]
  <2>1. /\ phase[r] = "locked" /\ UNCHANGED <<tenants, job>>
        /\ tokens' = [tokens EXCEPT ![k].revoked = TRUE]
        /\ admin' = Append(admin, Entry("revoke", k, By(r)))
        /\ holder' = [holder EXCEPT ![k] = None]
        /\ Committed(r)
    BY <1>12 DEF RevokeCommit
  <2>2. k \in Keys /\ holder[k] = r /\ tokens[k] \in Token /\ ~tokens[k].revoked
    BY <1>2, <2>1
  <2>3. tokens' = [tokens EXCEPT ![k] = new] /\ new \in Token /\ new.revoked /\ tokens[k] # Absent
    <3>1. new \in Token /\ new.revoked
      BY <2>2 DEF Token
    <3>2. tokens[k] # Absent
      BY <2>2, AccessAssumption
    <3>3. tokens' = [tokens EXCEPT ![k] = new]
      BY <2>1
    <3> QED
      BY <3>1, <3>2, <3>3
  <2> HIDE DEF new
  <2>4. AdminLogIsExact' /\ Founded'
    BY <2>1, <2>2, <2>3, LogToken
  <2>5. phase'[r] = "done" /\ \A q \in Requests \ {r} : phase'[q] = phase[q]
    BY <1>8, <2>1
  <2>6. ASSUME NEW q \in Requests \ {r} PROVE Locked(q)'
    <3>1. phase[q] = "locked" => Task_(q).key \in Keys \ {k}
      BY <1>2, <2>2
    <3>2. phase[q] = "locked" => /\ tokens'[Task_(q).key] = tokens[Task_(q).key]
                                 /\ holder'[Task_(q).key] = holder[Task_(q).key]
      BY <1>1, <2>1, <2>3, <3>1 DEF TypeInv, TypeOK
    <3> QED
      BY <1>1, <2>1, <2>5, <3>2, LockKept
  <2> QED
    BY <1>1, <2>4, <2>5, <2>6 DEF LogInv, Locked
<1>13. ASSUME NEW r \in Requests, Fail(r) PROVE LogInv'
  <2>1. /\ UNCHANGED <<tenants, tokens, admin, job>>
        /\ holder' = [k \in Keys |-> IF holder[k] = r THEN None ELSE holder[k]]
        /\ (\E a : Reply(r, a)) \/ Touched(r)
    BY <1>13 DEF Fail
  <2>2. phase'[r] # "locked" /\ \A q \in Requests \ {r} : phase'[q] = phase[q]
    BY <1>1, <1>8, <2>1 DEF Touched, Goto, TypeInv, TypeOK
  <2>3. AdminLogIsExact' /\ Founded'
    BY <1>1, <2>1, LogKept
  <2>4. ASSUME NEW q \in Requests \ {r} PROVE Locked(q)'
    <3>1. phase[q] = "locked" => holder'[Task_(q).key] = holder[Task_(q).key]
      BY <1>2, <2>1
    <3> QED
      BY <1>1, <2>1, <2>2, <3>1, LockKept
  <2> QED
    BY <1>1, <2>2, <2>3, <2>4 DEF LogInv, Locked
<1> QED
  BY <1>3, <1>5, <1>6, <1>7, <1>9, <1>10, <1>11, <1>12, <1>13
  DEF Next, Step, Tick, vars, tables

\* The administrative log says what happened and nothing else, whoever revokes
\* the same token at once, loses an answer and tries again.
THEOREM LogIsExact == Spec => []AdminLogIsExact
<1>1. Init => LogInv
  <2> SUFFICES ASSUME Init PROVE LogInv
    OBVIOUS
  <2>1. \A a, x : Records(a, x) = {}
    BY DEF Init, Records
  <2>2. AdminLogIsExact
    BY <2>1, AccessAssumption DEF Init, AdminLogIsExact, OneIff
  <2> QED
    BY <2>2, TypeInit DEF Init, LogInv, Founded, Locked
<1>2. LogInv /\ [Next]_vars => LogInv'
  BY LogStep
<1>3. LogInv => AdminLogIsExact
  BY DEF LogInv
<1> QED
  BY <1>1, <1>2, <1>3, PTL DEF Spec
=============================================================================
