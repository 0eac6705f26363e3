----------------------------- MODULE Attributes -----------------------------
(***************************************************************************)
(* Extensible attributes: the registry of a tenant                         *)
(* (internal/store/attribute.go), and how create, replace and patch of     *)
(* internal/scim/handler.go capture registered attributes into             *)
(* users.extended_attributes and shape them back into responses            *)
(* (internal/scim/extended.go).                                            *)
(*                                                                         *)
(* One tenant and one user. A name is one spelling; Lower maps spellings   *)
(* of one attribute to their lower-case form. Of the attributes the server *)
(* models, one stands for all: CoreKey, as responses spell it, with one    *)
(* value; SubPaths are the other paths by which a PATCH reaches it, as     *)
(* name.givenName reaches name. A request reads the row, the registry and  *)
(* writes in separate statements, while operators change the registry.     *)
(* Registering and unregistering are single transactions on one row and    *)
(* are one step each.                                                      *)
(***************************************************************************)
EXTENDS Integers, Sequences

CONSTANTS
  Requests, \* HTTP requests and CLI commands, each handled once
  Order,    \* the spellings that occur, as ORDER BY name lists them
  Lower,    \* strings.ToLower
  CoreKey, SubPaths,
  Values,
  Refused,  \* what validate refuses of the core attribute
  Jobs,     \* what the requests of a run ask for
  Rows0,    \* the user at the start, one of these: its blob may hold values of
            \* names that were registered once
  Absent, Unset, None,
  MaxFaults \* bound: failed statements in a behaviour

Names == {Order[n] : n \in 1..Len(Order)}

\* An object of attributes: a partial function on spellings.
Attrs == UNION {[N -> Values] : N \in SUBSET Names}

\* One spelling of each attribute.
OneEach(b) == \A j, k \in DOMAIN b : Lower[j] = Lower[k] => j = k

\* A JSON object as a handler reads it, or the attribute that a path names.
Body == {b \in Attrs : OneEach(b)}

\* A PATCH operation with attributes of A. "set" stands for add and replace, which
\* do not differ for a single value, and "other" for an op that does not exist.
OperationOn(A) == [op : {"set", "remove", "other"}, pathless : BOOLEAN, attrs : A]

JobOn(A) ==
  [do : {"create", "put"}, body : A]
    \cup [do : {"patch"}, ops : Seq(OperationOn(A))]
    \cup [do : {"register", "unregister"}, name : Names]

Operation == OperationOn(Body)
Job       == JobOn(Body)

Row == [core : Values \cup {Unset}, ext : Attrs]

IsCore(k) == Lower[k] = Lower[CoreKey]

\* setPath and clearPath know the name.
CorePaths     == {Lower[k] : k \in SubPaths \cup {CoreKey}}
IsCorePath(k) == Lower[k] \in CorePaths

\* A path names one attribute. Without one, add and replace carry any object, the
\* empty one included, but not one that reaches the core attribute by two paths
\* (they would set different parts of it); what another op carries then is not
\* looked at.
ASSUME AttributesAssumption ==
  /\ Order \in Seq(Names) /\ CoreKey \in Names /\ SubPaths \subseteq Names /\ MaxFaults \in Nat
  /\ Lower \in [Names -> Names] /\ \A n \in Names : Lower[Lower[n]] = Lower[n]
  /\ Unset \notin Values /\ Absent \notin Values \cup {Unset} \cup Row
  /\ Refused \subseteq Values \cup {Unset}
  /\ Rows0 \subseteq [core : (Values \cup {Unset}) \ Refused,
                      ext  : {b \in Attrs : \A k \in DOMAIN b : ~IsCore(k)}] \cup {Absent}
  /\ Jobs \subseteq JobOn(Attrs)
  /\ \A j \in Jobs : j.do = "patch" => \A n \in 1..Len(j.ops) :
       LET K == DOMAIN j.ops[n].attrs IN
         /\ j.ops[n].op # "set" => K # {}
         /\ ~j.ops[n].pathless => \E k \in Names : K = {k}
         /\ \A k, l \in K : IsCorePath(k) /\ IsCorePath(l) => Lower[k] = Lower[l]

VARIABLES
  registry, \* tenant_attributes
  log,      \* the registry's entries in admin_audit_log
  row,      \* the user: its core attribute and its blob
  phase, job, answer,
  read,     \* the row GetUser returned to a PATCH
  reg,      \* the lookup registeredAttributes made for a request
  seen,     \* the names that were registered at some time during a request
  captured, \* the names that writes have added to the blob
  faults

tables   == <<registry, log, row>>
requests == <<phase, job, answer, read, reg>>
vars     == <<tables, requests, seen, captured, faults>>

Phases  == {"new", "read", "list", "write", "admin", "done"}
Answers == {"none", "ok", "invalid", "reserved", "duplicate", "not_found", "error"}
Lookups == UNION {[N -> Names] : N \in SUBSET Names}

\* What the tables and the handlers hold: in particular a blob has values only,
\* never the trace of one that was removed.
TypeOK ==
  /\ registry \subseteq Names
  /\ log \in Seq([action : {"register", "unregister"}, name : Names])
  /\ row \in Row \cup {Absent}
  /\ phase \in [Requests -> Phases] /\ job \in [Requests -> Job \cup {None}]
  /\ answer \in [Requests -> Answers]
  /\ read \in [Requests -> Row \cup {Absent}]
  /\ reg \in [Requests -> Lookups] /\ seen \in [Requests -> SUBSET Names]
  /\ captured \subseteq [req : Requests, name : Names] /\ faults \in Nat

Init ==
  /\ registry = {} /\ log = <<>> /\ row \in Rows0
  /\ phase = [r \in Requests |-> "new"] /\ job = [r \in Requests |-> None]
  /\ answer = [r \in Requests |-> "none"] /\ read = [r \in Requests |-> Absent]
  /\ reg = [r \in Requests |-> <<>>] /\ seen = [r \in Requests |-> {}]
  /\ captured = {} /\ faults = 0

-----------------------------------------------------------------------------
(* The functions of extended.go. *)

\* g on its domain, f elsewhere.
Over(f, g) == [k \in DOMAIN f \cup DOMAIN g |-> IF k \in DOMAIN g THEN g[k] ELSE f[k]]

Keep(f, D) == [k \in DOMAIN f \cap D |-> f[k]]

\* The one of these names that the list has last.
Latest(N) ==
  Order[CHOOSE i \in 1..Len(Order) :
          Order[i] \in N /\ \A j \in (i + 1)..Len(Order) : Order[j] \notin N]

\* registeredAttributes: from lower-case to registered spelling. Of two
\* spellings the later of the list remains.
Lookup(R) == [l \in {Lower[n] : n \in R} |-> Latest({n \in R : Lower[n] = l})]

Registered(lookup, k) == Lower[k] \in DOMAIN lookup

\* The registered attributes of an object, under their registered names ...
Canonical(attrs, lookup) ==
  LET K == {k \in DOMAIN attrs : Registered(lookup, k)}
  IN  [c \in {lookup[Lower[k]] : k \in K} |-> attrs[CHOOSE k \in K : lookup[Lower[k]] = c]]

\* ... and the rest of it.
Rest(attrs, lookup) == Keep(attrs, {k \in DOMAIN attrs : ~Registered(lookup, k)})

\* An object may have two spellings of one attribute. Decoding leaves both, the
\* handlers go through them in the order of a Go map, which differs from run to
\* run, and the later one counts: as if the other were not there. (The typed decode
\* of a core attribute keeps the later one of the document: also one of the two.)
OneSpelling(b) ==
  {c \in {Keep(b, N) : N \in SUBSET DOMAIN b} :
     OneEach(c) /\ {Lower[k] : k \in DOMAIN c} = {Lower[k] : k \in DOMAIN b}}

\* The operations that a handler may read ops as, and the jobs it may read j as.
ReadOps(ops) ==
  LET Read(n) == {[ops[n] EXCEPT !.attrs = b] : b \in OneSpelling(ops[n].attrs)}
      N       == 1..Len(ops)
  IN  {o \in [N -> UNION {Read(n) : n \in N}] : \A n \in N : o[n] \in Read(n)}

Readings(j) ==
  CASE j.do \in {"create", "put"} -> {[j EXCEPT !.body = b] : b \in OneSpelling(j.body)}
    [] j.do = "patch"             -> {[j EXCEPT !.ops = o] : o \in ReadOps(j.ops)}
    [] OTHER                      -> {j}

ReadJobs == UNION {Readings(j) : j \in Jobs}

captureExtended(body, lookup) == Canonical(body, lookup)

\* Mutant: the object of a pathless operation is not split but goes to one side.
CoreOpsUnsplit(ops, lookup) ==
  [n \in 1..Len(ops) |->
     [ops[n] EXCEPT !.attrs = IF ops[n].pathless THEN @ ELSE Rest(@, lookup)]]

\* splitExtendedOps: the operations for the typed schema ...
CoreOps(ops, lookup) ==
  [n \in 1..Len(ops) |->
     [ops[n] EXCEPT !.attrs = IF ops[n].pathless /\ ops[n].op # "set" THEN @ ELSE Rest(@, lookup)]]

\* ... and those for the blob. An operation with nothing for one of the two
\* keeps its place there and is void; the lists of the code leave it out.
ExtendedOps(ops, lookup) ==
  [n \in 1..Len(ops) |->
     [op    |-> ops[n].op,
      attrs |-> IF ops[n].pathless /\ ops[n].op # "set" THEN <<>>
                ELSE Canonical(ops[n].attrs, lookup)]]

Void(o) == DOMAIN o.attrs = {}

AllVoid(ops) == \A n \in 1..Len(ops) : Void(ops[n])

\* No operation is left for the typed schema. With nothing registered they are all
\* left, also one with an empty object.
NoneLeft(ops, lookup) ==
  IF DOMAIN lookup = {} THEN ops = <<>> ELSE AllVoid(CoreOps(ops, lookup))

\* Mutant: a removed attribute is set to null.
ApplyExtendedNull(blob, o) ==
  CASE o.op = "set"    -> Over(blob, o.attrs)
    [] o.op = "remove" -> Over(blob, [k \in DOMAIN o.attrs |-> Unset])
    [] OTHER           -> blob

\* Mutant: every operation starts from an empty blob.
ApplyExtendedAfresh(blob, o) ==
  CASE o.op = "set"    -> o.attrs
    [] o.op = "remove" -> Keep(blob, DOMAIN blob \ DOMAIN o.attrs)
    [] OTHER           -> blob

\* One operation on the blob. An op that does not exist changes nothing here.
ApplyExtended(blob, o) ==
  CASE o.op = "set"    -> Over(blob, o.attrs)
    [] o.op = "remove" -> Keep(blob, DOMAIN blob \ DOMAIN o.attrs)
    [] OTHER           -> blob

\* The blob after each number of operations.
Blobs(blob, ops) ==
  LET after[n \in 0..Len(ops)] == IF n = 0 THEN blob ELSE ApplyExtended(after[n - 1], ops[n])
  IN  after

applyExtendedOps(blob, ops) == Blobs(blob, ops)[Len(ops)]

PathValue(attrs) == attrs[CHOOSE k \in DOMAIN attrs : IsCorePath(k)]

\* One operation on the typed schema (applyPatch, setPath, clearPath): every
\* attribute of it must be known, remove needs a path and the op must exist.
ApplyCore(core, o) ==
  IF core = Absent \/ Void(o) THEN core
  ELSE IF o.op = "other" \/ (o.op = "remove" /\ o.pathless) \/ \E k \in DOMAIN o.attrs : ~IsCorePath(k)
         THEN Absent
         ELSE IF o.op = "remove" THEN Unset ELSE PathValue(o.attrs)

\* The core attribute after each number of operations.
Cores(core, ops) ==
  LET after[n \in 0..Len(ops)] == IF n = 0 THEN core ELSE ApplyCore(after[n - 1], ops[n])
  IN  after

applyPatch(core, ops, none) == IF none THEN Absent ELSE Cores(core, ops)[Len(ops)]

\* The row patch() writes, or Absent for a 400.
Patched(old, ops, lookup) ==
  LET coreOps == CoreOps(ops, lookup)
      extOps  == ExtendedOps(ops, lookup)
      none    == NoneLeft(ops, lookup)
      core    == IF ~none \/ AllVoid(extOps) THEN applyPatch(old.core, coreOps, none)
                 ELSE old.core
  IN  IF core = Absent THEN Absent
      ELSE [core |-> core, ext |-> applyExtendedOps(old.ext, extOps)]

\* decodeUser: the core attribute of an object, in whatever spelling.
DecodedCore(body) ==
  IF \E k \in DOMAIN body : IsCore(k) THEN body[CHOOSE k \in DOMAIN body : IsCore(k)] ELSE Unset

\* The row create and replace write.
Decoded(body, lookup) == [core |-> DecodedCore(body), ext |-> captureExtended(body, lookup)]

\* shapeUser: a core attribute that has a value wins over the same key.
shapeUser(u) == Over(u.ext, IF u.core = Unset THEN <<>> ELSE [k \in {CoreKey} |-> u.core])

-----------------------------------------------------------------------------
(* Requests. *)

Goto(r, p) == phase' = [phase EXCEPT ![r] = p] /\ UNCHANGED answer

Reply(r, a) ==
  /\ phase' = [phase EXCEPT ![r] = "done"]
  /\ answer' = [answer EXCEPT ![r] = a]

\* A commit succeeds; its answer may not arrive.
Committed(r) ==
  \/ Reply(r, "ok") /\ UNCHANGED faults
  \/ /\ faults < MaxFaults
     /\ Reply(r, "error") /\ faults' = faults + 1

\* decodeUser validates the body of create and replace before anything is read.
BadBody(j) == j.do \in {"create", "put"} /\ DecodedCore(j.body) \in Refused

Begin(r, j) ==
  IF BadBody(j) THEN Reply(r, "invalid")
  ELSE Goto(r, CASE j.do = "patch" -> "read"
                 [] j.do \in {"create", "put"} -> "list"
                 [] j.do \in {"register", "unregister"} -> "admin")

Arrive(r) ==
  /\ phase[r] = "new"
  /\ \E j \in ReadJobs : job' = [job EXCEPT ![r] = j] /\ Begin(r, j)
  /\ seen' = [seen EXCEPT ![r] = registry]
  /\ UNCHANGED <<tables, read, reg, captured, faults>>

\* patch() reads the row first.
GetUser(r) ==
  /\ phase[r] = "read"
  /\ read' = [read EXCEPT ![r] = row]
  /\ IF row = Absent THEN Reply(r, "not_found") ELSE Goto(r, "list")
  /\ UNCHANGED <<tables, job, reg, seen, captured, faults>>

\* Mutant: the registry is looked up in a cache that only grows.
ListCached == {log[n].name : n \in 1..Len(log)}

ListAttributes == registry

LookUp(r) ==
  /\ phase[r] = "list"
  /\ reg' = [reg EXCEPT ![r] = Lookup(ListAttributes)]
  /\ Goto(r, "write")
  /\ UNCHANGED <<tables, job, read, seen, captured, faults>>

\* The row becomes u; the blob's new keys are remembered. before is what the
\* request knew of the blob.
Store(r, u, before) ==
  /\ row' = u
  /\ captured' = captured \cup {[req |-> r, name |-> k] : k \in DOMAIN u.ext \ before}
  /\ Committed(r)

\* CreateUser: the userName is the user's, so a second create is refused.
Create(r) ==
  /\ phase[r] = "write" /\ job[r].do = "create"
  /\ IF row # Absent
       THEN Reply(r, "duplicate") /\ UNCHANGED <<row, captured, faults>>
       ELSE Store(r, Decoded(job[r].body, reg[r]), {})
  /\ UNCHANGED <<registry, log, job, read, reg, seen>>

\* UpdateUser of a replace: the whole row, the blob included.
Replace(r) ==
  /\ phase[r] = "write" /\ job[r].do = "put"
  /\ IF row = Absent
       THEN Reply(r, "not_found") /\ UNCHANGED <<row, captured, faults>>
       ELSE Store(r, Decoded(job[r].body, reg[r]), {})
  /\ UNCHANGED <<registry, log, job, read, reg, seen>>

\* UpdateUser of a PATCH: the whole row as it was read, with the operations. What
\* they leave of the core attribute is validated.
Patch(r) ==
  /\ phase[r] = "write" /\ job[r].do = "patch"
  /\ LET u == Patched(read[r], job[r].ops, reg[r]) IN
       IF u = Absent \/ u.core \in Refused
         THEN Reply(r, "invalid") /\ UNCHANGED <<row, captured, faults>>
         ELSE Store(r, u, DOMAIN read[r].ext)
  /\ UNCHANGED <<registry, log, job, read, reg, seen>>

-----------------------------------------------------------------------------
(* The registry. *)

Record(a, n) == log' = Append(log, [action |-> a, name |-> n])

\* Mutant: names are compared with the reserved ones as they are spelt.
IsReservedExact(n) == n = Lower[CoreKey]

\* reservedAttributes, looked up in lower case: the attributes themselves, not the
\* other paths of a PATCH. Once name.givenName is registered, a PATCH of it goes to
\* the blob.
IsReserved(n) == Lower[n] = Lower[CoreKey]

\* RegisterAttribute: the primary key refuses the same spelling only.
RegisterAttribute(r) ==
  /\ phase[r] = "admin" /\ job[r].do = "register"
  /\ LET n == job[r].name IN
       IF IsReserved(n) \/ n \in registry
         THEN /\ Reply(r, IF IsReserved(n) THEN "reserved" ELSE "duplicate")
              /\ UNCHANGED <<registry, log, seen, faults>>
         ELSE /\ registry' = registry \cup {n} /\ Record("register", n)
              /\ seen' = [q \in Requests |-> IF phase[q] = "new" THEN seen[q] ELSE seen[q] \cup {n}]
              /\ Committed(r)
  /\ UNCHANGED <<row, job, read, reg, captured>>

Deletes(n) == n \in registry

\* UnregisterAttribute: stored values stay.
UnregisterAttribute(r) ==
  /\ phase[r] = "admin" /\ job[r].do = "unregister"
  /\ LET n == job[r].name IN
       IF Deletes(n)
         THEN /\ registry' = registry \ {n} /\ Record("unregister", n)
              /\ Committed(r)
         ELSE Reply(r, "not_found") /\ UNCHANGED <<registry, log, faults>>
  /\ UNCHANGED <<row, job, read, reg, seen, captured>>

\* A statement fails: a 500, and nothing is changed.
Fail(r) ==
  /\ faults < MaxFaults /\ phase[r] \in {"read", "list", "write", "admin"}
  /\ Reply(r, "error")
  /\ faults' = faults + 1
  /\ UNCHANGED <<tables, job, read, reg, seen, captured>>

Step(r) ==
  \/ Arrive(r) \/ GetUser(r) \/ LookUp(r) \/ Create(r) \/ Replace(r) \/ Patch(r)
  \/ RegisterAttribute(r) \/ UnregisterAttribute(r) \/ Fail(r)

Next == \E r \in Requests : Step(r)

Spec == Init /\ [][Next]_vars
-----------------------------------------------------------------------------
(* Properties. *)

\* "an extended value can never shadow id/userName/meta" (extended.go:70): in
\* every response the core attribute has one spelling and its stored value, even
\* when the core attribute is empty and would be left out. What keeps it so is
\* the check at registration, long before (attribute.go:41).
CoreNeverShadowed ==
  row # Absent => \A k \in DOMAIN shapeUser(row) :
                    IsCore(k) => k = CoreKey /\ shapeUser(row)[k] = row.core

\* "the server stops capturing it" (attribute.go:76): a name that was registered
\* at no time during a request is not added to a blob by it, whatever operators
\* did between its statements and before it.
CapturedWhileRegistered == \A c \in captured : c.name \in seen[c.req]

\* One operation on the whole resource.
InOrder(u, o, lookup) ==
  LET plain == o.pathless /\ o.op # "set"
      core  == ApplyCore(u.core, [o EXCEPT !.attrs = IF plain THEN @ ELSE Rest(@, lookup)])
  IN  IF u = Absent \/ core = Absent THEN Absent
      ELSE [core |-> core,
            ext  |-> IF plain THEN u.ext
                     ELSE ApplyExtended(u.ext, [op |-> o.op, attrs |-> Canonical(o.attrs, lookup)])]

\* The resource after each number of operations.
Resources(u, ops, lookup) ==
  LET after[n \in 0..Len(ops)] == IF n = 0 THEN u ELSE InOrder(after[n - 1], ops[n], lookup)
  IN  after

\* Splitting the operations into two lists (extended.go:140) and applying each
\* gives what applying them in their order to the whole resource gives, and
\* refuses the same ones: a PATCH with one bad operation changes nothing, in the
\* blob either. It is said of a PATCH that names some attribute: one that names
\* none is accepted or refused depending on whether anything is registered.
PatchIsSequential ==
  \A r \in Requests :
    phase[r] = "write" /\ job[r].do = "patch" /\ ~AllVoid(job[r].ops) =>
      Patched(read[r], job[r].ops, reg[r]) =
        Resources(read[r], job[r].ops, reg[r])[Len(job[r].ops)]

\* The attributes a PATCH names, in lower case.
NamedBy(ops) == {Lower[k] : k \in UNION {DOMAIN ops[n].attrs : n \in 1..Len(ops)}}

\* "a core-only PATCH preserves a user's extended attributes" (extended.go:200),
\* and so does any PATCH those it does not name, with the ones that are no longer
\* registered among them - provided nobody wrote since it read (the handler's own
\* caveat, handler.go:221).
UnnamedSurvive ==
  [][\A r \in Requests :
       Patch(r) /\ row = read[r] /\ row' # row =>
         /\ \A k \in Names : Lower[k] \notin NamedBy(job[r].ops) =>
              /\ k \in DOMAIN row'.ext <=> k \in DOMAIN row.ext
              /\ k \in DOMAIN row.ext => row'.ext[k] = row.ext[k]
         /\ NamedBy(job[r].ops) \cap CorePaths = {} => row'.core = row.core]_vars
=============================================================================
