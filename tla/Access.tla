------------------------------- MODULE Access -------------------------------
(***************************************************************************)
(* Who may do what: tenants, SCIM tokens and console tokens                *)
(* (internal/store/tenant.go, token.go, consoletoken.go, adminaudit.go),   *)
(* the two authentications (internal/scim/auth.go,                         *)
(* internal/console/auth.go), the token buckets of                         *)
(* internal/scim/ratelimit.go, and the administrative changes that the     *)
(* console and the CLI make with them.                                     *)
(*                                                                         *)
(* A request reads its token in one statement and acts on it in later      *)
(* ones, while others issue and revoke. The two token tables have the same *)
(* columns but for the tenant and the same code; they are one variable     *)
(* here, with System in the place of the tenant of a console token. An     *)
(* INSERT is private to its transaction until the commit, so insert, audit *)
(* entry and commit are one step; a revocation holds its row's lock from   *)
(* the UPDATE to the commit.                                               *)
(***************************************************************************)
EXTENDS Integers, Sequences, FiniteSets

CONSTANTS
  Requests,    \* HTTP requests and CLI commands, each handled once
  TenantIds, Names,
  ScimKeys,    \* key ids that scim_tokens may ever hold
  ConsoleKeys, \* and console_tokens
  System,      \* no tenant
  Jobs,        \* what the requests of a run ask for
  Tenants0, Tokens0, \* the tables at the start: functions on ids that exist
  Absent, None,
  Rate, Burst, \* SCIM_RATE_LIMIT per tick, 0: no limit; SCIM_RATE_BURST
  MaxTime,     \* bound: the clock
  MaxFaults    \* bound: failed statements and lost answers in a behaviour

Keys  == ScimKeys \cup ConsoleKeys
Never == MaxTime + 1
Times == 0..Never

\* A row: whose it is, expires_at, and whether revoked_at and last_used_at are
\* set.
Token == [tenant : TenantIds \cup {System}, expires : Times, revoked : BOOLEAN, used : BOOLEAN]

\* An administrative change.
Task ==
  [do : {"tenant"}, name : Names]
    \cup [do : {"issue"}, tenant : TenantIds \cup {System}, expires : Times]
    \cup [do : {"revoke"}, key : Keys]

\* A SCIM request carries a key, the right secret or a wrong one, and a tenant
\* in its path; a console request a key, a secret and a change that concerns no
\* console token; a CLI command is a change.
Job ==
  [via : {"scim"}, key : Keys, good : BOOLEAN, path : TenantIds]
    \cup [via : {"console"}, key : Keys, good : BOOLEAN,
          task : {t \in Task : /\ t.do = "issue" => t.tenant # System
                               /\ t.do = "revoke" => t.key \in ScimKeys}]
    \cup [via : {"cli"}, task : Task]

ASSUME AccessAssumption ==
  /\ ScimKeys \cap ConsoleKeys = {} /\ System \notin TenantIds
  /\ Absent \notin Token \cup Names \cup [level : Nat, at : Nat]
  /\ None \notin Requests /\ None \notin Jobs
  /\ Rate \in Nat /\ Burst \in Nat /\ MaxTime \in Nat /\ MaxFaults \in Nat
  /\ Jobs \subseteq Job
  /\ Tenants0 \in [TenantIds -> Names \cup {Absent}]
  /\ Tokens0 \in [Keys -> Token \cup {Absent}]
  /\ \A k \in Keys : Tokens0[k] # Absent =>
       /\ ~Tokens0[k].revoked
       /\ IF k \in ScimKeys THEN Tokens0[k].tenant \in TenantIds ELSE Tokens0[k].tenant = System

VARIABLES
  tenants, tokens, \* the tables
  admin,           \* admin_audit_log, in commit order
  holder,          \* the transaction holding a token row's lock
  now,
  bucket,          \* limiter.buckets: what a bucket held when it was last used
  phase, job, row, answer,
  effects,         \* the mutations the SCIM handlers have made
  dead,            \* the keys that were dead when a request arrived
  passed,          \* passed[k][s]: requests of k let through since time s
  faults

tables  == <<tenants, tokens, admin, holder>>
history == <<effects, dead, passed>>
vars    == <<tables, now, bucket, phase, job, row, answer, history, faults>>

Phases  == {"new", "lookup", "check", "touch", "throttle", "ready", "locked", "missed", "done"}
Answers == {"none", "ok", "denied", "limited", "not_found", "conflict", "error"}
Actors  == ConsoleKeys \cup {"cli"}

\* What the tables and the handlers hold.
TypeOK ==
  /\ tenants \in [TenantIds -> Names \cup {Absent}]
  /\ tokens \in [Keys -> Token \cup {Absent}]
  /\ admin \in Seq([action : {"tenant", "issue", "revoke"}, target : TenantIds \cup Keys,
                    by : Actors \cup {None}])
  /\ holder \in [Keys -> Requests \cup {None}]
  /\ now \in 0..MaxTime
  /\ bucket \in [ScimKeys -> [level : 0..Burst, at : 0..MaxTime] \cup {Absent}]
  /\ phase \in [Requests -> Phases] /\ job \in [Requests -> Jobs \cup {None}]
  /\ row \in [Requests -> Token \cup {Absent}] /\ answer \in [Requests -> Answers]
  /\ effects \subseteq [req : Requests, row : TenantIds, audit : TenantIds]
  /\ dead \in [Requests -> SUBSET Keys]
  /\ passed \in [ScimKeys -> [0..MaxTime -> Nat]] /\ faults \in Nat

Entry(a, t, b) == [action |-> a, target |-> t, by |-> b]

Init ==
  /\ tenants = Tenants0 /\ tokens = Tokens0
  /\ admin = <<>> /\ holder = [k \in Keys |-> None]
  /\ now = 0 /\ bucket = [k \in ScimKeys |-> Absent]
  /\ phase = [r \in Requests |-> "new"] /\ job = [r \in Requests |-> None]
  /\ row = [r \in Requests |-> Absent] /\ answer = [r \in Requests |-> "none"]
  /\ effects = {} /\ dead = [r \in Requests |-> {}]
  /\ passed = [k \in ScimKeys |-> [s \in 0..MaxTime |-> 0]] /\ faults = 0

\* A row that is revoked, or whose time is not after t.
IsDead(tok, t) == tok.revoked \/ tok.expires <= t

Goto(r, p) == phase' = [phase EXCEPT ![r] = p] /\ UNCHANGED answer

Reply(r, a) ==
  /\ phase' = [phase EXCEPT ![r] = "done"]
  /\ answer' = [answer EXCEPT ![r] = a]

-----------------------------------------------------------------------------
(* Authentication and throttling. *)

\* A request reaches its listener; the CLI needs no token.
Arrive(r) ==
  /\ phase[r] = "new"
  /\ \E j \in Jobs :
       /\ job' = [job EXCEPT ![r] = j]
       /\ Goto(r, IF j.via = "cli" THEN "ready" ELSE "lookup")
  /\ dead' = [dead EXCEPT ![r] = {k \in Keys : tokens[k] # Absent /\ IsDead(tokens[k], now)}]
  /\ UNCHANGED <<tables, now, bucket, row, effects, passed, faults>>

\* The table a listener looks in.
Table(r) == IF job[r].via = "scim" THEN ScimKeys ELSE ConsoleKeys

\* GetTokenByKeyID, GetConsoleTokenByKeyID; a missing row is a 401.
GetTokenByKeyID(r) ==
  /\ phase[r] = "lookup"
  /\ \/ /\ job[r].key \in Table(r) /\ tokens[job[r].key] # Absent
        /\ row' = [row EXCEPT ![r] = tokens[job[r].key]]
        /\ Goto(r, "check")
     \/ /\ job[r].key \notin Table(r) \/ tokens[job[r].key] = Absent
        /\ Reply(r, "denied") /\ UNCHANGED row
  /\ UNCHANGED <<tables, now, bucket, job, history, faults>>

\* Mutant: a token is good at the instant it expires, and for ever after.
AcceptsExpired(r) ==
  /\ ~row[r].revoked /\ job[r].good
  /\ job[r].via = "scim" => row[r].tenant = job[r].path

\* Mutant: the tenant of the path is not compared.
AcceptsAnyTenant(r) == ~IsDead(row[r], now) /\ job[r].good

\* The checks on the row, by the clock of the process.
Accepts(r) ==
  /\ ~IsDead(row[r], now) /\ job[r].good
  /\ job[r].via = "scim" => row[r].tenant = job[r].path

Authenticate(r) ==
  /\ phase[r] = "check"
  /\ IF Accepts(r) THEN Goto(r, "touch") ELSE Reply(r, "denied")
  /\ UNCHANGED <<tables, now, bucket, job, row, history, faults>>

Touched(r) == Goto(r, IF job[r].via = "scim" THEN "throttle" ELSE "ready")

\* TouchToken: an UPDATE, which waits for a revocation of the same row.
TouchToken(r) ==
  /\ phase[r] = "touch" /\ holder[job[r].key] = None
  /\ tokens' = [tokens EXCEPT ![job[r].key].used = TRUE]
  /\ Touched(r)
  /\ UNCHANGED <<tenants, admin, holder, now, bucket, job, row, history, faults>>

\* Mutant: the bucket fills without a limit while it is not used.
LevelUncapped(k) ==
  IF bucket[k] = Absent THEN Burst ELSE bucket[k].level + Rate * (now - bucket[k].at)

\* What a bucket holds now: a new one is full, an old one has been filling up to
\* its burst. (rate.Limiter)
Level(k) ==
  IF bucket[k] = Absent THEN Burst
  ELSE LET l == bucket[k].level + Rate * (now - bucket[k].at)
       IN  IF l > Burst THEN Burst ELSE l

\* A limit of 0, or below, makes no limiter.
Unlimited == Rate = 0

Allows(k) == Unlimited \/ Level(k) >= 1

\* The bucket of k after n tokens were taken out of it, if there are buckets.
Drawn(k, n) ==
  IF Unlimited THEN bucket ELSE [bucket EXCEPT ![k] = [level |-> Level(k) - n, at |-> now]]

\* throttle and limiter.allow. The bucket is found or made under the mutex and
\* shared by all requests of the key.
Throttle(r) ==
  /\ phase[r] = "throttle"
  /\ LET k == job[r].key IN
       IF Allows(k)
         THEN /\ bucket' = Drawn(k, 1)
              /\ passed' = [passed EXCEPT ![k] =
                              [s \in 0..MaxTime |-> IF s <= now THEN @[s] + 1 ELSE @[s]]]
              /\ Goto(r, "ready")
         ELSE /\ bucket' = Drawn(k, 0)
              /\ Reply(r, "limited") /\ UNCHANGED passed
  /\ UNCHANGED <<tables, now, job, row, effects, dead, faults>>

-----------------------------------------------------------------------------
(* What an authenticated request does. *)

Task_(r) == job[r].task
By(r)    == IF job[r].via = "console" THEN job[r].key ELSE "cli"

\* A SCIM handler commits its mutation: the row is the path's tenant's, the
\* audit entry the identity's.
Mutate(r) ==
  /\ phase[r] = "ready" /\ job[r].via = "scim"
  /\ effects' = effects \cup {[req |-> r, row |-> job[r].path, audit |-> row[r].tenant]}
  /\ Reply(r, "ok")
  /\ UNCHANGED <<tables, now, bucket, job, row, dead, passed, faults>>

Admin(r, do) == phase[r] = "ready" /\ job[r].via # "scim" /\ Task_(r).do = do

\* The commit succeeds; its answer may not arrive.
Committed(r) ==
  \/ Reply(r, "ok") /\ UNCHANGED faults
  \/ /\ faults < MaxFaults
     /\ Reply(r, "error") /\ faults' = faults + 1

Taken(n) == \E t \in TenantIds : tenants[t] = n

\* CreateTenant: a new id, a name nobody has, up to case, and the audit entry.
CreateTenant(r) ==
  /\ Admin(r, "tenant")
  /\ IF Taken(Task_(r).name)
       THEN Reply(r, "conflict") /\ UNCHANGED <<tenants, admin, faults>>
       ELSE \E t \in TenantIds :
              /\ tenants[t] = Absent
              /\ tenants' = [tenants EXCEPT ![t] = Task_(r).name]
              /\ admin' = Append(admin, Entry("tenant", t, By(r)))
              /\ Committed(r)
  /\ UNCHANGED <<tokens, holder, now, bucket, job, row, history>>

\* IssueToken, IssueConsoleToken: a new key, its row and the audit entry. The
\* foreign key refuses an unknown tenant.
IssueToken(r) ==
  /\ Admin(r, "issue")
  /\ LET t == Task_(r).tenant IN
       IF t \in TenantIds /\ tenants[t] = Absent
         THEN Reply(r, "error") /\ UNCHANGED <<tokens, admin, faults>>
         ELSE \E k \in IF t = System THEN ConsoleKeys ELSE ScimKeys :
                /\ tokens[k] = Absent
                /\ tokens' = [tokens EXCEPT ![k] =
                     [tenant |-> t, expires |-> Task_(r).expires, revoked |-> FALSE, used |-> FALSE]]
                /\ admin' = Append(admin, Entry("issue", k, By(r)))
                /\ Committed(r)
  /\ UNCHANGED <<tenants, holder, now, bucket, job, row, history>>

\* Mutant: the UPDATE has no "AND revoked_at IS NULL".
RevocableAnyway(k) == tokens[k] # Absent

Revocable(k) == tokens[k] # Absent /\ ~tokens[k].revoked

\* RevokeToken, RevokeConsoleToken: the UPDATE waits for the row's lock and looks
\* at the newest committed row.
RevokeUpdate(r) ==
  /\ Admin(r, "revoke") /\ holder[Task_(r).key] = None
  /\ LET k == Task_(r).key IN
       IF Revocable(k)
         THEN holder' = [holder EXCEPT ![k] = r] /\ Goto(r, "locked")
         ELSE Goto(r, "missed") /\ UNCHANGED holder
  /\ UNCHANGED <<tenants, tokens, admin, now, bucket, job, row, history, faults>>

\* No row changed. A second lookup, outside the transaction, finds out why: an
\* unknown key is an error, a token that was revoked already is none. It sees what
\* was committed since the UPDATE too.
RevokeLookup(r) ==
  /\ phase[r] = "missed"
  /\ Reply(r, IF tokens[Task_(r).key] = Absent THEN "not_found" ELSE "ok")
  /\ UNCHANGED <<tables, now, bucket, job, row, history, faults>>

\* The audit entry and the commit.
RevokeCommit(r) ==
  /\ phase[r] = "locked"
  /\ LET k == Task_(r).key IN
       /\ tokens' = [tokens EXCEPT ![k].revoked = TRUE]
       /\ admin' = Append(admin, Entry("revoke", k, By(r)))
       /\ holder' = [holder EXCEPT ![k] = None]
  /\ Committed(r)
  /\ UNCHANGED <<tenants, now, bucket, job, row, history>>

\* A statement fails or runs into the deadline: a failed lookup is a 401, a
\* failed touch is only logged, everything else is rolled back and a 500.
Fail(r) ==
  /\ faults < MaxFaults /\ faults' = faults + 1
  /\ \/ phase[r] = "lookup" /\ Reply(r, "denied")
     \/ phase[r] = "touch" /\ Touched(r)
     \/ phase[r] \in {"ready", "locked", "missed"} /\ Reply(r, "error")
  /\ holder' = [k \in Keys |-> IF holder[k] = r THEN None ELSE holder[k]]
  /\ UNCHANGED <<tenants, tokens, admin, now, bucket, job, row, history>>

Tick ==
  /\ now < MaxTime
  /\ now' = now + 1
  /\ UNCHANGED <<tables, bucket, phase, job, row, answer, history, faults>>

Step(r) ==
  \/ Arrive(r) \/ GetTokenByKeyID(r) \/ Authenticate(r) \/ TouchToken(r) \/ Throttle(r)
  \/ Mutate(r) \/ CreateTenant(r) \/ IssueToken(r) \/ RevokeUpdate(r) \/ RevokeLookup(r)
  \/ RevokeCommit(r) \/ Fail(r)

Next == Tick \/ \E r \in Requests : Step(r)

Spec == Init /\ [][Next]_vars
-----------------------------------------------------------------------------
(* Properties. *)

\* The request got past authentication.
LetIn(r) == phase[r] \in {"touch", "throttle", "ready", "locked", "missed"}
              \/ (phase[r] = "done" /\ answer[r] \in {"ok", "limited", "not_found", "conflict"})

\* A revoked or expired token opens nothing to a request that comes after the
\* revocation was committed or the time had come: what a request read before it
\* acts (auth.go:73) is stale by at most the request's own lifetime. Holds for
\* SCIM and console tokens, and for what the console does to tokens in turn.
DeadTokensOpenNothing ==
  \A r \in Requests : LetIn(r) /\ job[r].via # "cli" => job[r].key \notin dead[r]

\* A mutation touches the tenant its token was issued for, and its audit entry
\* says so: the path names the row's tenant (handler.go), the token the entry's
\* (auditRecord), and the two never differ.
TenantsStayApart ==
  \A e \in effects : /\ e.row = e.audit
                     /\ job[e.req].key \in ScimKeys
                     /\ tokens[job[e.req].key].tenant = e.row

\* The entries of one action on one target, and that there is one if c holds and
\* none if it does not.
Records(a, x)   == {n \in DOMAIN admin : admin[n].action = a /\ admin[n].target = x}
OneIff(a, x, c) == (Records(a, x) # {} <=> c) /\ \A m, n \in Records(a, x) : m = n

\* "a tenant or token cannot be created, issued or revoked without a record"
\* (adminaudit.go:37), and no record without the change: the log of a tenant or
\* key is its history, with one entry per change however many operators revoke
\* the same token at once and retry after a lost answer.
AdminLogIsExact ==
  /\ \A k \in Keys :
       /\ OneIff("issue", k, tokens[k] # Absent /\ Tokens0[k] = Absent)
       /\ OneIff("revoke", k, tokens[k] # Absent /\ tokens[k].revoked)
       /\ \A m \in Records("issue", k), n \in Records("revoke", k) : m < n
  /\ \A t \in TenantIds : OneIff("tenant", t, tenants[t] # Tenants0[t])
  /\ \A n \in DOMAIN admin :
       admin[n].target \in IF admin[n].action = "tenant" THEN TenantIds ELSE Keys

\* However its requests arrive, a key gets at most a burst and the sustained
\* rate of every window through: between time s and now, Burst + Rate * (now - s).
\* A limit of 0 is "an explicit opt-out" (ratelimit.go:39) and bounds nothing.
RateBound ==
  Rate > 0 => \A k \in ScimKeys : \A s \in 0..now : passed[k][s] <= Burst + Rate * (now - s)
=============================================================================
