-------------------------- MODULE AttributesProofs --------------------------
(***************************************************************************)
(* The properties of Attributes for every set of names, values, requests   *)
(* and jobs. The loops over the operations of a PATCH are recursive        *)
(* functions, and what holds of them is proved by induction on the number  *)
(* of operations (Recursion). What holds of the tables needs a registry    *)
(* without core names, lookups that are images of the registry at some     *)
(* time during the request, and blobs that hold nothing else.              *)
(***************************************************************************)
EXTENDS Attributes, Recursion, TLAPS

\* A lookup leads from a lower-case form to a spelling of it, never to a core name.
GoodLookup(m) == \A l \in DOMAIN m : Lower[m[l]] = l /\ ~IsCore(m[l])

\* No blob holds a core name.
CleanRow(u) == u \in Row => \A k \in DOMAIN u.ext : ~IsCore(k)

\* What is known of a request.
Handled(r) ==
  /\ phase[r] = "new" => DOMAIN reg[r] = {}
  /\ phase[r] # "new" => job[r] \in Job /\ registry \subseteq seen[r]
  /\ phase[r] \in {"list", "write"} /\ job[r].do = "patch" => read[r] \in Row
  /\ CleanRow(read[r])
  /\ GoodLookup(reg[r]) /\ \A l \in DOMAIN reg[r] : reg[r][l] \in seen[r]

AttributesInv ==
  /\ TypeOK
  /\ \A n \in registry : ~IsCore(n)
  /\ CleanRow(row)
  /\ \A r \in Requests : Handled(r)
  /\ \A c \in captured : phase[c.req] # "new" /\ c.name \in seen[c.req]
-----------------------------------------------------------------------------
(* Objects of attributes. *)

LEMMA AttrsDef ==
  \A f : f \in Attrs <=> \E N \in SUBSET Names : f \in [N -> Values]
  BY DEF Attrs

LEMMA InAttrs ==
  ASSUME NEW N \in SUBSET Names, NEW f \in [N -> Values]
  PROVE  f \in Attrs
  BY AttrsDef

LEMMA AttrsType ==
  ASSUME NEW f \in Attrs
  PROVE  /\ DOMAIN f \in SUBSET Names /\ f \in [DOMAIN f -> Values]
         /\ \A k \in DOMAIN f : f[k] \in Values
  BY AttrsDef

LEMMA NoAttrs == <<>> \in Attrs /\ DOMAIN <<>> = {}
  <1>1. DOMAIN <<>> = {}
    OBVIOUS
  <1>2. <<>> \in [{} -> Values]
    OBVIOUS
  <1> QED
    BY <1>1, <1>2, InAttrs

LEMMA OverType ==
  ASSUME NEW f \in Attrs, NEW g \in Attrs
  PROVE  /\ Over(f, g) \in Attrs /\ DOMAIN Over(f, g) = DOMAIN f \cup DOMAIN g
         /\ \A k \in DOMAIN f : k \notin DOMAIN g => Over(f, g)[k] = f[k]
         /\ \A k \in DOMAIN g : Over(f, g)[k] = g[k]
  <1> DEFINE h == Over(f, g)
             D == DOMAIN f \cup DOMAIN g
  <1>1. /\ DOMAIN f \in SUBSET Names /\ \A k \in DOMAIN f : f[k] \in Values
        /\ DOMAIN g \in SUBSET Names /\ \A k \in DOMAIN g : g[k] \in Values
    BY AttrsType
  <1>2. h \in [D -> Values]
    BY <1>1 DEF Over
  <1>3. h \in Attrs
    BY <1>1, <1>2, InAttrs
  <1> QED
    BY <1>3 DEF Over

LEMMA KeepType ==
  ASSUME NEW f \in Attrs, NEW D
  PROVE  /\ Keep(f, D) \in Attrs /\ DOMAIN Keep(f, D) = DOMAIN f \cap D
         /\ \A k \in DOMAIN f \cap D : Keep(f, D)[k] = f[k]
  <1>1. DOMAIN f \in SUBSET Names /\ \A k \in DOMAIN f : f[k] \in Values
    BY AttrsType
  <1>2. Keep(f, D) \in [DOMAIN f \cap D -> Values]
    BY <1>1 DEF Keep
  <1>3. Keep(f, D) \in Attrs
    BY <1>1, <1>2, InAttrs
  <1> QED
    BY <1>3 DEF Keep

LEMMA LookupsType ==
  ASSUME NEW m \in Lookups
  PROVE  DOMAIN m \in SUBSET Names /\ \A l \in DOMAIN m : m[l] \in Names
  BY DEF Lookups

\* The names that Canonical puts in place of those of an object are registered
\* ones, and spellings of them if the lookup is good.
LEMMA CanonicalType ==
  ASSUME NEW a \in Attrs, NEW m \in Lookups
  PROVE  /\ Canonical(a, m) \in Attrs
         /\ \A c \in DOMAIN Canonical(a, m) :
              \E k \in DOMAIN a : Lower[k] \in DOMAIN m /\ c = m[Lower[k]]
  <1> DEFINE K == {k \in DOMAIN a : Registered(m, k)}
             C == {m[Lower[k]] : k \in K}
             pick(c) == CHOOSE k \in K : m[Lower[k]] = c
  <1>1. DOMAIN a \in SUBSET Names /\ \A k \in DOMAIN a : a[k] \in Values
    BY AttrsType
  <1>2. DOMAIN m \in SUBSET Names /\ \A l \in DOMAIN m : m[l] \in Names
    BY LookupsType
  <1>3. C \in SUBSET Names
    BY <1>2 DEF Registered
  <1>4. ASSUME NEW c \in C PROVE a[pick(c)] \in Values
    <2>1. \E k \in K : m[Lower[k]] = c
      OBVIOUS
    <2>2. pick(c) \in K
      BY <2>1
    <2> QED
      BY <2>2, <1>1
  <1>5. Canonical(a, m) = [c \in C |-> a[pick(c)]]
    BY DEF Canonical
  <1> HIDE DEF pick
  <1>6. Canonical(a, m) \in [C -> Values] /\ DOMAIN Canonical(a, m) = C
    BY <1>4, <1>5
  <1>7. Canonical(a, m) \in Attrs
    BY <1>3, <1>6, InAttrs
  <1>8. \A c \in C : \E k \in DOMAIN a : Lower[k] \in DOMAIN m /\ c = m[Lower[k]]
    BY DEF Registered
  <1> QED
    BY <1>6, <1>7, <1>8

LEMMA RestType ==
  ASSUME NEW a \in Attrs, NEW m
  PROVE  Rest(a, m) \in Attrs /\ DOMAIN Rest(a, m) \subseteq DOMAIN a
  BY KeepType DEF Rest

\* Of a nonempty set of names one is the latest.
LEMMA LatestIn ==
  ASSUME NEW N \in SUBSET Names, N # {}
  PROVE  Latest(N) \in N
  <1> DEFINE L == Len(Order)
             Last(i) == Order[i] \in N /\ \A j \in (i + 1)..L : Order[j] \notin N
             U == {d \in 0..L : L - d \in 1..L /\ Order[L - d] \in N}
  <1>1. L \in Nat
    BY AttributesAssumption
  <1>2. PICK n \in N : TRUE
    OBVIOUS
  <1>3. PICK i \in 1..L : Order[i] = n
    BY <1>2 DEF Names
  <1>4. U # {} /\ U \in SUBSET Nat
    <2>1. L - i \in 0..L /\ L - (L - i) = i
      BY <1>1, <1>3
    <2>2. L - i \in U
      BY <2>1, <1>2, <1>3
    <2>3. 0..L \subseteq Nat /\ U \subseteq 0..L
      BY <1>1
    <2> HIDE DEF U
    <2> QED
      BY <2>2, <2>3
  <1>5. PICK d \in U : \A e \in U : d <= e
    BY <1>4, LeastOf
  <1>6. d \in 0..L /\ L - d \in 1..L /\ Order[L - d] \in N
    BY <1>5
  <1>7. ASSUME NEW j \in ((L - d) + 1)..L PROVE Order[j] \notin N
    <2>1. L - j \in 0..L /\ L - (L - j) = j /\ j \in 1..L /\ ~(d <= L - j)
      BY <1>1, <1>6
    <2>2. L - j \notin U
      BY <2>1, <1>5
    <2> QED
      BY <2>1, <2>2
  <1>8. \E k \in 1..L : Last(k)
    BY <1>6, <1>7
  <1>9. Latest(N) = Order[CHOOSE k \in 1..L : Last(k)]
    BY DEF Latest
  <1> DEFINE k == CHOOSE x \in 1..L : Last(x)
  <1>10. Last(k)
    <2> HIDE DEF Last
    <2> QED
      BY <1>8
  <1> QED
    BY <1>9, <1>10

\* A lookup made from a registry without core names leads to registered
\* spellings of what is looked up.
LEMMA LookupGood ==
  ASSUME NEW R \in SUBSET Names, \A n \in R : ~IsCore(n)
  PROVE  /\ Lookup(R) \in Lookups /\ GoodLookup(Lookup(R))
         /\ \A l \in DOMAIN Lookup(R) : Lookup(R)[l] \in R
  <1> DEFINE D == {Lower[n] : n \in R}
             m == Lookup(R)
  <1>1. D \in SUBSET Names
    BY AttributesAssumption
  <1>2. m = [l \in D |-> Latest({n \in R : Lower[n] = l})]
    BY DEF Lookup
  <1>3. ASSUME NEW l \in D PROVE m[l] \in R /\ Lower[m[l]] = l
    <2> DEFINE N == {n \in R : Lower[n] = l}
    <2>1. N \in SUBSET Names /\ N # {}
      OBVIOUS
    <2>2. Latest(N) \in N
      <3> HIDE DEF N
      <3> QED
        BY <2>1, LatestIn
    <2>3. m[l] = Latest(N)
      BY <1>2
    <2> QED
      BY <2>2, <2>3
  <1>4. DOMAIN m = D
    BY <1>2
  <1>5. m \in [D -> Names]
    <2>1. m = [l \in D |-> m[l]]
      BY <1>2
    <2> HIDE DEF m, D
    <2> QED
      BY <2>1, <1>3
  <1> HIDE DEF m, D
  <1>6. m \in Lookups
    BY <1>1, <1>5 DEF Lookups
  <1>7. GoodLookup(m)
    BY <1>3, <1>4 DEF GoodLookup
  <1> QED
    BY <1>3, <1>4, <1>6, <1>7 DEF m
-----------------------------------------------------------------------------
(* The loops over the operations of a PATCH. *)

LEMMA ApplyExtendedType ==
  ASSUME NEW b \in Attrs, NEW o, o.attrs \in Attrs
  PROVE  LET c == ApplyExtended(b, o)
         IN  /\ c \in Attrs /\ DOMAIN c \subseteq DOMAIN b \cup DOMAIN o.attrs
             /\ \A k : k \notin DOMAIN o.attrs =>
                  (k \in DOMAIN c <=> k \in DOMAIN b) /\ (k \in DOMAIN b => c[k] = b[k])
             /\ Void(o) => c = b
  <1> DEFINE c == ApplyExtended(b, o)
  <1>1. CASE o.op = "set"
    <2>1. c = Over(b, o.attrs)
      BY <1>1 DEF ApplyExtended
    <2>2. /\ c \in Attrs /\ DOMAIN c = DOMAIN b \cup DOMAIN o.attrs
          /\ \A k \in DOMAIN b : k \notin DOMAIN o.attrs => c[k] = b[k]
      <3> DEFINE a == o.attrs
      <3>1. a \in Attrs
        OBVIOUS
      <3> HIDE DEF a
      <3>2. /\ Over(b, a) \in Attrs /\ DOMAIN Over(b, a) = DOMAIN b \cup DOMAIN a
            /\ \A k \in DOMAIN b : k \notin DOMAIN a => Over(b, a)[k] = b[k]
        BY <3>1, OverType
      <3> QED
        BY <2>1, <3>2 DEF a
    <2>3. Void(o) => c = b
      <3>1. b = [k \in DOMAIN b |-> b[k]]
        BY AttrsType
      <3> QED
        BY <2>1, <3>1 DEF Void, Over
    <2> QED
      BY <2>2, <2>3
  <1>2. CASE o.op = "remove"
    <2>1. c = Keep(b, DOMAIN b \ DOMAIN o.attrs)
      BY <1>2 DEF ApplyExtended
    <2>2. /\ c \in Attrs /\ DOMAIN c = DOMAIN b \cap (DOMAIN b \ DOMAIN o.attrs)
          /\ \A k \in DOMAIN b \cap (DOMAIN b \ DOMAIN o.attrs) : c[k] = b[k]
      BY <2>1, KeepType
    <2>3. Void(o) => c = b
      <3>1. b = [k \in DOMAIN b |-> b[k]]
        BY AttrsType
      <3>2. DOMAIN o.attrs = {} => DOMAIN b \cap (DOMAIN b \ DOMAIN o.attrs) = DOMAIN b
        OBVIOUS
      <3> QED
        BY <2>1, <3>1, <3>2 DEF Void, Keep
    <2> QED
      BY <2>2, <2>3
  <1>3. CASE o.op # "set" /\ o.op # "remove"
    <2>1. c = b
      BY <1>3 DEF ApplyExtended
    <2> QED
      BY <2>1
  <1> QED
    BY <1>1, <1>2, <1>3

\* The blobs are what their definition says, and objects of attributes.
LEMMA BlobsDef ==
  ASSUME NEW b \in Attrs, NEW ops, Len(ops) \in Nat,
         \A n \in 1..Len(ops) : ops[n].attrs \in Attrs
  PROVE  LET f == Blobs(b, ops)
         IN  /\ f[0] = b
             /\ \A n \in 1..Len(ops) : f[n] = ApplyExtended(f[n - 1], ops[n])
             /\ \A n \in 0..Len(ops) : f[n] \in Attrs
  <1> DEFINE N == Len(ops)
             F == [n \in 1..N |-> [x \in Attrs |-> ApplyExtended(x, ops[n])]]
             Rec(g) == [n \in 0..N |-> IF n = 0 THEN b ELSE ApplyExtended(g[n - 1], ops[n])]
             f == Blobs(b, ops)
  <1>1. \A n \in 1..N : \A x \in Attrs : ApplyExtended(x, ops[n]) \in Attrs
    BY ApplyExtendedType
  <1>2. \A n \in 1..N : F[n] \in [Attrs -> Attrs]
    BY <1>1
  <1>3. PICK g : IsRecursionUpTo(g, N, Attrs, b, F)
    <2> HIDE DEF F, N
    <2>1. N \in Nat
      BY DEF N
    <2> QED
      BY <1>2, <2>1, RecursionUpTo, Zenon
  <1>4. ASSUME NEW n \in 0..N, n # 0 PROVE F[n][g[n - 1]] = ApplyExtended(g[n - 1], ops[n])
    <2>1. n \in 1..N /\ n - 1 \in 0..N
      BY <1>4
    <2>2. g[n - 1] \in Attrs
      BY <2>1, <1>3 DEF IsRecursionUpTo
    <2> QED
      BY <2>1, <2>2
  <1> HIDE DEF F
  <1>5. g = Rec(g)
    BY <1>3, <1>4 DEF IsRecursionUpTo
  <1>6. f = Rec(f)
    BY <1>5 DEF Blobs
  <1> HIDE DEF f
  <1>7. f[0] = b /\ \A n \in 1..N : f[n] = ApplyExtended(f[n - 1], ops[n])
    BY <1>6
  <1> DEFINE T == {n \in 0..N : f[n] \in Attrs}
  <1>8. 0 \in T
    BY <1>7
  <1>9. ASSUME NEW n \in 0..(N - 1), n \in T PROVE n + 1 \in T
    <2>1. n + 1 \in 1..N /\ n + 1 \in 0..N /\ (n + 1) - 1 = n
      OBVIOUS
    <2>2. f[n + 1] = ApplyExtended(f[n], ops[n + 1])
      BY <2>1, <1>7
    <2>3. f[n] \in Attrs
      BY <1>9
    <2> QED
      BY <2>1, <2>2, <2>3, <1>1
  <1> HIDE DEF T
  <1>10. \A n \in 0..N : n \in T
    BY <1>8, <1>9, InductionUpTo
  <1> QED
    BY <1>7, <1>10 DEF T, f

\* Attributes that no operation names stay as they are, and no others come in.
LEMMA BlobsKeep ==
  ASSUME NEW b \in Attrs, NEW ops, Len(ops) \in Nat, NEW M,
         \A n \in 1..Len(ops) : ops[n].attrs \in Attrs /\ DOMAIN ops[n].attrs \subseteq M
  PROVE  LET c == applyExtendedOps(b, ops)
         IN  /\ c \in Attrs /\ DOMAIN c \subseteq DOMAIN b \cup M
             /\ \A k : k \notin M =>
                  (k \in DOMAIN c <=> k \in DOMAIN b) /\ (k \in DOMAIN b => c[k] = b[k])
  <1> DEFINE N == Len(ops)
             f == Blobs(b, ops)
             Kept(c) == /\ DOMAIN c \subseteq DOMAIN b \cup M
                        /\ \A k : k \notin M =>
                             (k \in DOMAIN c <=> k \in DOMAIN b) /\ (k \in DOMAIN b => c[k] = b[k])
             T == {n \in 0..N : Kept(f[n])}
  <1>1. /\ f[0] = b /\ \A n \in 1..N : f[n] = ApplyExtended(f[n - 1], ops[n])
        /\ \A n \in 0..N : f[n] \in Attrs
    BY BlobsDef
  <1> HIDE DEF f
  <1>2. 0 \in T
    BY <1>1
  <1>3. ASSUME NEW n \in 0..(N - 1), n \in T PROVE n + 1 \in T
    <2>1. n + 1 \in 1..N /\ n + 1 \in 0..N /\ (n + 1) - 1 = n /\ n \in 0..N
      OBVIOUS
    <2> DEFINE o == ops[n + 1]
               c == f[n]
               d == f[n + 1]
    <2>2. d = ApplyExtended(c, o) /\ c \in Attrs
      BY <2>1, <1>1
    <2>3. o.attrs \in Attrs /\ DOMAIN o.attrs \subseteq M
      BY <2>1
    <2>4. Kept(c)
      BY <1>3
    <2> HIDE DEF o, c, d
    <2>5. /\ DOMAIN d \subseteq DOMAIN c \cup DOMAIN o.attrs
          /\ \A k : k \notin DOMAIN o.attrs =>
               (k \in DOMAIN d <=> k \in DOMAIN c) /\ (k \in DOMAIN c => d[k] = c[k])
      BY <2>2, <2>3, ApplyExtendedType
    <2>6. Kept(d)
      BY <2>3, <2>4, <2>5
    <2> QED
      BY <2>1, <2>6 DEF d
  <1> HIDE DEF T
  <1>4. \A n \in 0..N : n \in T
    BY <1>2, <1>3, InductionUpTo
  <1>5. N \in 0..N
    OBVIOUS
  <1>6. Kept(f[N]) /\ f[N] \in Attrs
    BY <1>1, <1>4, <1>5 DEF T
  <1> QED
    BY <1>6 DEF applyExtendedOps, f

\* What the core attribute may be in the course of a PATCH.
CoreStates == Values \cup {Unset, Absent}

LEMMA ApplyCoreType ==
  ASSUME NEW x \in CoreStates, NEW o, o.attrs \in Attrs
  PROVE  /\ ApplyCore(x, o) \in CoreStates
         /\ x = Absent => ApplyCore(x, o) = Absent
         /\ Void(o) => ApplyCore(x, o) = x
         /\ (\A k \in DOMAIN o.attrs : ~IsCorePath(k)) => ApplyCore(x, o) \in {x, Absent}
  <1>1. x = Absent \/ Void(o) => ApplyCore(x, o) = x
    BY DEF ApplyCore
  <1>2. ASSUME ~Void(o), \A k \in DOMAIN o.attrs : IsCorePath(k) PROVE PathValue(o.attrs) \in Values
    <2>1. \E k \in DOMAIN o.attrs : IsCorePath(k)
      BY <1>2 DEF Void
    <2>2. (CHOOSE k \in DOMAIN o.attrs : IsCorePath(k)) \in DOMAIN o.attrs
      BY <2>1
    <2> QED
      BY <2>2, AttrsType DEF PathValue
  <1>3. ~(x = Absent \/ Void(o)) =>
          \/ ApplyCore(x, o) = Absent
          \/ (\A k \in DOMAIN o.attrs : IsCorePath(k)) /\ ApplyCore(x, o) \in {Unset, PathValue(o.attrs)}
    BY DEF ApplyCore
  <1>4. ~Void(o) => \E k \in DOMAIN o.attrs : TRUE
    BY DEF Void
  <1> QED
    BY <1>1, <1>2, <1>3, <1>4 DEF CoreStates

LEMMA CoresDef ==
  ASSUME NEW x \in CoreStates, NEW ops, Len(ops) \in Nat,
         \A n \in 1..Len(ops) : ops[n].attrs \in Attrs
  PROVE  LET f == Cores(x, ops)
         IN  /\ f[0] = x
             /\ \A n \in 1..Len(ops) : f[n] = ApplyCore(f[n - 1], ops[n])
             /\ \A n \in 0..Len(ops) : f[n] \in CoreStates
  <1> DEFINE N == Len(ops)
             F == [n \in 1..N |-> [y \in CoreStates |-> ApplyCore(y, ops[n])]]
             Rec(g) == [n \in 0..N |-> IF n = 0 THEN x ELSE ApplyCore(g[n - 1], ops[n])]
             f == Cores(x, ops)
  <1>1. \A n \in 1..N : \A y \in CoreStates : ApplyCore(y, ops[n]) \in CoreStates
    BY ApplyCoreType
  <1>2. \A n \in 1..N : F[n] \in [CoreStates -> CoreStates]
    BY <1>1
  <1>3. PICK g : IsRecursionUpTo(g, N, CoreStates, x, F)
    <2> HIDE DEF F, N
    <2>1. N \in Nat
      BY DEF N
    <2> QED
      BY <1>2, <2>1, RecursionUpTo, Zenon
  <1>4. ASSUME NEW n \in 0..N, n # 0 PROVE F[n][g[n - 1]] = ApplyCore(g[n - 1], ops[n])
    <2>1. n \in 1..N /\ n - 1 \in 0..N
      BY <1>4
    <2>2. g[n - 1] \in CoreStates
      BY <2>1, <1>3 DEF IsRecursionUpTo
    <2> QED
      BY <2>1, <2>2
  <1> HIDE DEF F
  <1>5. g = Rec(g)
    BY <1>3, <1>4 DEF IsRecursionUpTo
  <1>6. f = Rec(f)
    BY <1>5 DEF Cores
  <1> HIDE DEF f
  <1>7. f[0] = x /\ \A n \in 1..N : f[n] = ApplyCore(f[n - 1], ops[n])
    BY <1>6
  <1> DEFINE T == {n \in 0..N : f[n] \in CoreStates}
  <1>8. 0 \in T
    BY <1>7
  <1>9. ASSUME NEW n \in 0..(N - 1), n \in T PROVE n + 1 \in T
    <2>1. n + 1 \in 1..N /\ n + 1 \in 0..N /\ (n + 1) - 1 = n
      OBVIOUS
    <2>2. f[n + 1] = ApplyCore(f[n], ops[n + 1])
      BY <2>1, <1>7
    <2>3. f[n] \in CoreStates
      BY <1>9
    <2> QED
      BY <2>1, <2>2, <2>3, <1>1
  <1> HIDE DEF T
  <1>10. \A n \in 0..N : n \in T
    BY <1>8, <1>9, InductionUpTo
  <1> QED
    BY <1>7, <1>10 DEF T, f

\* Operations that name no core attribute leave it or are refused, and void ones
\* leave it.
LEMMA CoresKeep ==
  ASSUME NEW x \in CoreStates, NEW ops, Len(ops) \in Nat,
         \A n \in 1..Len(ops) :
           ops[n].attrs \in Attrs /\ \A k \in DOMAIN ops[n].attrs : ~IsCorePath(k)
  PROVE  /\ Cores(x, ops)[Len(ops)] \in {x, Absent}
         /\ AllVoid(ops) => Cores(x, ops)[Len(ops)] = x
  <1> DEFINE N == Len(ops)
             f == Cores(x, ops)
             T == {n \in 0..N : f[n] \in {x, Absent} /\ (AllVoid(ops) => f[n] = x)}
  <1>1. /\ f[0] = x /\ \A n \in 1..N : f[n] = ApplyCore(f[n - 1], ops[n])
        /\ \A n \in 0..N : f[n] \in CoreStates
    BY CoresDef
  <1> HIDE DEF f
  <1>2. 0 \in T
    BY <1>1
  <1>3. ASSUME NEW n \in 0..(N - 1), n \in T PROVE n + 1 \in T
    <2>1. n + 1 \in 1..N /\ n + 1 \in 0..N /\ (n + 1) - 1 = n /\ n \in 0..N
      OBVIOUS
    <2>2. f[n + 1] = ApplyCore(f[n], ops[n + 1]) /\ f[n] \in CoreStates
      BY <2>1, <1>1
    <2>3. ops[n + 1].attrs \in Attrs /\ \A k \in DOMAIN ops[n + 1].attrs : ~IsCorePath(k)
      BY <2>1
    <2>4. /\ f[n + 1] \in {f[n], Absent}
          /\ Void(ops[n + 1]) => f[n + 1] = f[n]
      BY <2>2, <2>3, ApplyCoreType
    <2>5. f[n] \in {x, Absent} /\ (AllVoid(ops) => f[n] = x)
      BY <1>3
    <2>6. AllVoid(ops) => Void(ops[n + 1])
      BY <2>1 DEF AllVoid
    <2> QED
      BY <2>1, <2>4, <2>5, <2>6
  <1> HIDE DEF T
  <1>4. \A n \in 0..N : n \in T
    BY <1>2, <1>3, InductionUpTo
  <1>5. N \in 0..N
    OBVIOUS
  <1> QED
    BY <1>4, <1>5 DEF T, f

\* The two lists of operations have one for each.
LEMMA SplitLen ==
  ASSUME NEW ops \in Seq(Operation), NEW m
  PROVE  /\ Len(ops) \in Nat
         /\ Len(CoreOps(ops, m)) = Len(ops) /\ Len(ExtendedOps(ops, m)) = Len(ops)
  BY DEF CoreOps, ExtendedOps

\* It has a path, or is an add or a replace, and is split by names.
Divided(o) == ~(o.pathless /\ o.op # "set")

LEMMA CoreSide ==
  ASSUME NEW ops \in Seq(Operation), NEW m, NEW n \in 1..Len(ops)
  PROVE  /\ ops[n] \in Operation /\ ops[n].attrs \in Attrs
         /\ CoreOps(ops, m)[n].attrs = IF Divided(ops[n]) THEN Rest(ops[n].attrs, m) ELSE ops[n].attrs
         /\ CoreOps(ops, m)[n].attrs \in Attrs
         /\ DOMAIN CoreOps(ops, m)[n].attrs \subseteq DOMAIN ops[n].attrs
  <1> DEFINE o == ops[n]
             c == CoreOps(ops, m)[n]
  <1>1. o \in Operation
    OBVIOUS
  <1>2. o.attrs \in Attrs
    BY <1>1 DEF Operation, OperationOn, Body
  <1>3. c = [o EXCEPT !.attrs = IF o.pathless /\ o.op # "set" THEN @ ELSE Rest(@, m)]
    BY DEF CoreOps
  <1>4. c.attrs = IF Divided(o) THEN Rest(o.attrs, m) ELSE o.attrs
    BY <1>1, <1>3 DEF Operation, OperationOn, Divided
  <1>5. c.attrs \in Attrs /\ DOMAIN c.attrs \subseteq DOMAIN o.attrs
    BY <1>2, <1>4, RestType
  <1> QED
    BY <1>1, <1>2, <1>4, <1>5

LEMMA ExtendedSide ==
  ASSUME NEW ops \in Seq(Operation), NEW m \in Lookups, NEW n \in 1..Len(ops)
  PROVE  /\ ExtendedOps(ops, m)[n].op = ops[n].op
         /\ ExtendedOps(ops, m)[n] = [op |-> ops[n].op, attrs |-> ExtendedOps(ops, m)[n].attrs]
         /\ ExtendedOps(ops, m)[n].attrs =
              IF Divided(ops[n]) THEN Canonical(ops[n].attrs, m) ELSE <<>>
         /\ ExtendedOps(ops, m)[n].attrs \in Attrs
         /\ \A c \in DOMAIN ExtendedOps(ops, m)[n].attrs :
              \E k \in DOMAIN ops[n].attrs : Lower[k] \in DOMAIN m /\ c = m[Lower[k]]
  <1> DEFINE o == ops[n]
             e == ExtendedOps(ops, m)[n]
  <1>1. o.attrs \in Attrs
    BY CoreSide
  <1>2. e = [op |-> o.op, attrs |-> IF Divided(o) THEN Canonical(o.attrs, m) ELSE <<>>]
    BY DEF ExtendedOps, Divided
  <1>3. /\ e.op = o.op /\ e = [op |-> o.op, attrs |-> e.attrs]
        /\ e.attrs = IF Divided(o) THEN Canonical(o.attrs, m) ELSE <<>>
    BY <1>2
  <1>4. CASE ~Divided(o)
    <2>1. e.attrs \in Attrs /\ DOMAIN e.attrs = {}
      BY <1>3, <1>4, NoAttrs
    <2> QED
      BY <2>1, <1>3
  <1>5. CASE Divided(o)
    <2>1. /\ e.attrs \in Attrs
          /\ \A c \in DOMAIN e.attrs :
               \E k \in DOMAIN o.attrs : Lower[k] \in DOMAIN m /\ c = m[Lower[k]]
      BY <1>1, <1>3, <1>5, CanonicalType
    <2> QED
      BY <2>1, <1>3
  <1> QED
    BY <1>4, <1>5

LEMMA RowType ==
  ASSUME NEW u \in Row
  PROVE  /\ u.core \in Values \cup {Unset} /\ u.core \in CoreStates /\ u.ext \in Attrs
         /\ u = [core |-> u.core, ext |-> u.ext] /\ u # Absent /\ u.core # Absent
  <1>1. u.core \in Values \cup {Unset} /\ u.ext \in Attrs /\ u = [core |-> u.core, ext |-> u.ext]
    BY DEF Row
  <1>2. Absent \notin Values \cup {Unset} \cup Row
    BY AttributesAssumption
  <1> QED
    BY <1>1, <1>2 DEF CoreStates

\* What a PATCH writes is a row. Its blob has the attributes of the old one that
\* no operation names, and new ones only under names of the lookup.
LEMMA PatchedType ==
  ASSUME NEW u \in Row, NEW ops \in Seq(Operation), NEW m \in Lookups, Patched(u, ops, m) # Absent
  PROVE  LET p == Patched(u, ops, m)
         IN  /\ p \in Row
             /\ \A k \in DOMAIN p.ext : k \in DOMAIN u.ext \/ \E l \in DOMAIN m : k = m[l]
             /\ GoodLookup(m) => \A k : Lower[k] \notin NamedBy(ops) =>
                  (k \in DOMAIN p.ext <=> k \in DOMAIN u.ext) /\ (k \in DOMAIN u.ext => p.ext[k] = u.ext[k])
             /\ NamedBy(ops) \cap CorePaths = {} => p.core = u.core
  <1> DEFINE N == Len(ops)
             C == CoreOps(ops, m)
             E == ExtendedOps(ops, m)
             p == Patched(u, ops, m)
             none == NoneLeft(ops, m)
             core == IF ~none \/ AllVoid(E) THEN applyPatch(u.core, C, none) ELSE u.core
             M == UNION {DOMAIN E[n].attrs : n \in 1..N}
             ext == applyExtendedOps(u.ext, E)
  <1>1. /\ N \in Nat /\ Len(C) = N /\ Len(E) = N
        /\ \A n \in 1..N :
             /\ ops[n].attrs \in Attrs
             /\ C[n].attrs \in Attrs /\ DOMAIN C[n].attrs \subseteq DOMAIN ops[n].attrs
             /\ E[n].attrs \in Attrs
             /\ \A c \in DOMAIN E[n].attrs :
                  \E k \in DOMAIN ops[n].attrs : Lower[k] \in DOMAIN m /\ c = m[Lower[k]]
    <2>1. N \in Nat /\ Len(C) = N /\ Len(E) = N
      BY SplitLen
    <2>2. ASSUME NEW n \in 1..N
          PROVE  /\ ops[n].attrs \in Attrs
                 /\ C[n].attrs \in Attrs /\ DOMAIN C[n].attrs \subseteq DOMAIN ops[n].attrs
      BY CoreSide
    <2>3. ASSUME NEW n \in 1..N
          PROVE  /\ E[n].attrs \in Attrs
                 /\ \A c \in DOMAIN E[n].attrs :
                      \E k \in DOMAIN ops[n].attrs : Lower[k] \in DOMAIN m /\ c = m[Lower[k]]
      BY ExtendedSide
    <2> HIDE DEF C, E
    <2> QED
      BY <2>1, <2>2, <2>3
  <1>2. u.core \in CoreStates /\ u.ext \in Attrs
    BY RowType
  <1>3. p = [core |-> core, ext |-> ext] /\ core # Absent
    BY DEF Patched
  <1> HIDE DEF C, E, p, none
  <1>4. applyPatch(u.core, C, none) \in CoreStates
    <2>1. /\ \A n \in 0..N : Cores(u.core, C)[n] \in CoreStates
      BY <1>1, <1>2, CoresDef
    <2>2. N \in 0..N
      BY <1>1
    <2> QED
      BY <2>1, <2>2, <1>1 DEF applyPatch, CoreStates
  <1>5. core \in Values \cup {Unset}
    BY <1>2, <1>3, <1>4 DEF CoreStates
  <1>6. /\ ext \in Attrs /\ DOMAIN ext \subseteq DOMAIN u.ext \cup M
        /\ \A k : k \notin M =>
             (k \in DOMAIN ext <=> k \in DOMAIN u.ext) /\ (k \in DOMAIN u.ext => ext[k] = u.ext[k])
    <2>1. \A n \in 1..Len(E) : E[n].attrs \in Attrs /\ DOMAIN E[n].attrs \subseteq M
      BY <1>1
    <2>2. Len(E) \in Nat
      BY <1>1
    <2> DEFINE b == u.ext
    <2>3. b \in Attrs
      BY <1>2
    <2> HIDE DEF M, b
    <2>4. LET c == applyExtendedOps(b, E)
          IN  /\ c \in Attrs /\ DOMAIN c \subseteq DOMAIN b \cup M
              /\ \A k : k \notin M =>
                   (k \in DOMAIN c <=> k \in DOMAIN b) /\ (k \in DOMAIN b => c[k] = b[k])
      BY <2>1, <2>2, <2>3, BlobsKeep, Zenon
    <2> QED
      BY <2>4 DEF b
  <1> HIDE DEF core, ext
  <1>7. p \in Row /\ p.core = core /\ p.ext = ext
    BY <1>3, <1>5, <1>6 DEF Row
  <1>8. \A k \in M : \E l \in DOMAIN m : k = m[l]
    BY <1>1
  <1>9. ASSUME GoodLookup(m), NEW k, Lower[k] \notin NamedBy(ops) PROVE k \notin M
    <2> SUFFICES ASSUME k \in M PROVE FALSE
      OBVIOUS
    <2>1. PICK n \in 1..N : k \in DOMAIN E[n].attrs
      OBVIOUS
    <2>2. PICK j \in DOMAIN ops[n].attrs : Lower[j] \in DOMAIN m /\ k = m[Lower[j]]
      BY <2>1, <1>1
    <2>3. Lower[k] = Lower[j]
      BY <2>2, <1>9 DEF GoodLookup
    <2>4. Lower[j] \in NamedBy(ops)
      BY <2>1, <2>2 DEF NamedBy
    <2> QED
      BY <2>3, <2>4, <1>9
  <1>10. ASSUME NamedBy(ops) \cap CorePaths = {} PROVE core = u.core
    <2>1. \A n \in 1..N : \A k \in DOMAIN ops[n].attrs : ~IsCorePath(k)
      BY <1>10 DEF NamedBy, IsCorePath
    <2>2. \A n \in 1..Len(C) : C[n].attrs \in Attrs /\ \A k \in DOMAIN C[n].attrs : ~IsCorePath(k)
      BY <2>1, <1>1
    <2>3. Cores(u.core, C)[Len(C)] \in {u.core, Absent}
      BY <2>2, <1>1, <1>2, CoresKeep
    <2>4. applyPatch(u.core, C, none) \in {u.core, Absent}
      BY <2>3 DEF applyPatch
    <2> QED
      BY <2>4, <1>3 DEF core
  <1> HIDE DEF M
  <1>11. \A k \in DOMAIN p.ext : k \in DOMAIN u.ext \/ \E l \in DOMAIN m : k = m[l]
    BY <1>6, <1>7, <1>8
  <1>12. GoodLookup(m) => \A k : Lower[k] \notin NamedBy(ops) =>
           (k \in DOMAIN p.ext <=> k \in DOMAIN u.ext) /\ (k \in DOMAIN u.ext => p.ext[k] = u.ext[k])
    BY <1>6, <1>7, <1>9
  <1>13. NamedBy(ops) \cap CorePaths = {} => p.core = u.core
    BY <1>7, <1>10
  <1> QED
    BY <1>7, <1>11, <1>12, <1>13 DEF p

\* What create and replace write is a row, with names of the lookup only.
LEMMA DecodedType ==
  ASSUME NEW b \in Body, NEW m \in Lookups
  PROVE  LET p == Decoded(b, m)
         IN  /\ p \in Row
             /\ \A k \in DOMAIN p.ext : \E l \in DOMAIN m : k = m[l]
  <1> DEFINE p == Decoded(b, m)
             core == DecodedCore(b)
             ext == Canonical(b, m)
  <1>1. b \in Attrs
    BY DEF Body
  <1>2. /\ ext \in Attrs
        /\ \A c \in DOMAIN ext : \E k \in DOMAIN b : Lower[k] \in DOMAIN m /\ c = m[Lower[k]]
    BY <1>1, CanonicalType
  <1>3. core \in Values \cup {Unset}
    <2>1. CASE \E k \in DOMAIN b : IsCore(k)
      <3>1. (CHOOSE k \in DOMAIN b : IsCore(k)) \in DOMAIN b
        BY <2>1
      <3> QED
        BY <3>1, <2>1, <1>1, AttrsType DEF DecodedCore
    <2>2. CASE ~\E k \in DOMAIN b : IsCore(k)
      BY <2>2 DEF DecodedCore
    <2> QED
      BY <2>1, <2>2
  <1>4. p = [core |-> core, ext |-> ext]
    BY DEF Decoded, captureExtended
  <1> HIDE DEF core, ext, p
  <1>5. p \in Row /\ p.ext = ext
    BY <1>2, <1>3, <1>4 DEF Row
  <1> QED
    BY <1>2, <1>5 DEF p
-----------------------------------------------------------------------------
(* Splitting a PATCH. *)

LEMMA InOrderType ==
  ASSUME NEW u \in Row \cup {Absent}, NEW o \in Operation, NEW m \in Lookups
  PROVE  InOrder(u, o, m) \in Row \cup {Absent}
  <1> DEFINE plain == o.pathless /\ o.op # "set"
             rest == [o EXCEPT !.attrs = IF plain THEN @ ELSE Rest(@, m)]
             core == ApplyCore(u.core, rest)
             e == [op |-> o.op, attrs |-> Canonical(o.attrs, m)]
             ext == IF plain THEN u.ext ELSE ApplyExtended(u.ext, e)
  <1>1. InOrder(u, o, m) = IF u = Absent \/ core = Absent THEN Absent
                           ELSE [core |-> core, ext |-> ext]
    BY DEF InOrder
  <1>2. ASSUME u # Absent, core # Absent PROVE [core |-> core, ext |-> ext] \in Row
    <2>1. u.core \in CoreStates /\ u.ext \in Attrs
      BY <1>2, RowType
    <2>2. o.attrs \in Attrs
      BY DEF Operation, OperationOn, Body
    <2>3. rest.attrs \in Attrs
      <3>1. rest.attrs = IF plain THEN o.attrs ELSE Rest(o.attrs, m)
        BY DEF Operation, OperationOn
      <3> QED
        BY <3>1, <2>2, RestType
    <2>4. core \in CoreStates
      <3> HIDE DEF rest
      <3> QED
        BY <2>1, <2>3, ApplyCoreType
    <2>5. e.attrs \in Attrs
      BY <2>2, CanonicalType
    <2>6. ApplyExtended(u.ext, e) \in Attrs
      <3> HIDE DEF e
      <3> QED
        BY <2>1, <2>5, ApplyExtendedType
    <2>7. ext \in Attrs
      BY <2>1, <2>6
    <2> HIDE DEF core, ext
    <2> QED
      BY <2>4, <2>7, <1>2 DEF Row, CoreStates
  <1> HIDE DEF core, ext
  <1> QED
    BY <1>1, <1>2

LEMMA ResourcesDef ==
  ASSUME NEW u \in Row, NEW ops \in Seq(Operation), NEW m \in Lookups
  PROVE  LET f == Resources(u, ops, m)
         IN  /\ f[0] = u
             /\ \A n \in 1..Len(ops) : f[n] = InOrder(f[n - 1], ops[n], m)
  <1> DEFINE N == Len(ops)
             S == Row \cup {Absent}
             F == [n \in 1..N |-> [x \in S |-> InOrder(x, ops[n], m)]]
             Rec(g) == [n \in 0..N |-> IF n = 0 THEN u ELSE InOrder(g[n - 1], ops[n], m)]
             f == Resources(u, ops, m)
  <1>1. \A n \in 1..N : \A x \in S : InOrder(x, ops[n], m) \in S
    <2>1. \A n \in 1..N : ops[n] \in Operation
      OBVIOUS
    <2> QED
      BY <2>1, InOrderType
  <1>2. \A n \in 1..N : F[n] \in [S -> S]
    BY <1>1
  <1>3. PICK g : IsRecursionUpTo(g, N, S, u, F)
    <2>1. N \in Nat /\ u \in S
      OBVIOUS
    <2> HIDE DEF F, N, S
    <2> QED
      BY <1>2, <2>1, RecursionUpTo, Zenon
  <1> HIDE DEF S
  <1>4. ASSUME NEW n \in 0..N, n # 0 PROVE F[n][g[n - 1]] = InOrder(g[n - 1], ops[n], m)
    <2>1. n \in 1..N /\ n - 1 \in 0..N
      BY <1>4
    <2>2. g[n - 1] \in S
      BY <2>1, <1>3 DEF IsRecursionUpTo
    <2> QED
      BY <2>1, <2>2
  <1> HIDE DEF F
  <1>5. g = Rec(g)
    BY <1>3, <1>4 DEF IsRecursionUpTo
  <1>6. f = Rec(f)
    BY <1>5 DEF Resources
  <1> HIDE DEF f
  <1>7. f[0] = u /\ \A n \in 1..N : f[n] = InOrder(f[n - 1], ops[n], m)
    BY <1>6
  <1> QED
    BY <1>7 DEF f

\* After each number of operations the whole resource is what the two lists give
\* by then.
LEMMA SideBySide ==
  ASSUME NEW u \in Row, NEW ops \in Seq(Operation), NEW m \in Lookups
  PROVE  LET x == Cores(u.core, CoreOps(ops, m))[Len(ops)]
             b == Blobs(u.ext, ExtendedOps(ops, m))[Len(ops)]
         IN  Resources(u, ops, m)[Len(ops)] =
               IF x = Absent THEN Absent ELSE [core |-> x, ext |-> b]
  <1> DEFINE N == Len(ops)
             C == CoreOps(ops, m)
             E == ExtendedOps(ops, m)
             X == Cores(u.core, C)
             B == Blobs(u.ext, E)
             R == Resources(u, ops, m)
             T == {n \in 0..N : R[n] = IF X[n] = Absent THEN Absent ELSE [core |-> X[n], ext |-> B[n]]}
  <1>1. N \in Nat /\ Len(C) = N /\ Len(E) = N
    BY SplitLen
  <1>2. u.core \in CoreStates /\ u.ext \in Attrs /\ u = [core |-> u.core, ext |-> u.ext] /\ u.core # Absent
    BY RowType
  <1>3. /\ \A n \in 1..N : C[n].attrs \in Attrs
        /\ \A n \in 1..N : E[n].attrs \in Attrs
    <2>1. \A n \in 1..N : C[n].attrs \in Attrs
      BY CoreSide
    <2>2. \A n \in 1..N : E[n].attrs \in Attrs
      BY ExtendedSide
    <2> QED
      BY <2>1, <2>2
  <1>4. /\ R[0] = u /\ \A n \in 1..N : R[n] = InOrder(R[n - 1], ops[n], m)
    BY ResourcesDef
  <1> HIDE DEF C, E, R
  <1>5. /\ X[0] = u.core /\ \A n \in 1..N : X[n] = ApplyCore(X[n - 1], C[n])
        /\ \A n \in 0..N : X[n] \in CoreStates
    <2> DEFINE y == u.core
    <2>1. y \in CoreStates
      BY <1>2
    <2> HIDE DEF y
    <2>2. LET f == Cores(y, C)
          IN  /\ f[0] = y
              /\ \A n \in 1..Len(C) : f[n] = ApplyCore(f[n - 1], C[n])
              /\ \A n \in 0..Len(C) : f[n] \in CoreStates
      BY <2>1, <1>1, <1>3, CoresDef
    <2> QED
      BY <2>2, <1>1 DEF y
  <1>6. /\ B[0] = u.ext /\ \A n \in 1..N : B[n] = ApplyExtended(B[n - 1], E[n])
        /\ \A n \in 0..N : B[n] \in Attrs
    <2> DEFINE y == u.ext
    <2>1. y \in Attrs
      BY <1>2
    <2> HIDE DEF y
    <2>2. LET f == Blobs(y, E)
          IN  /\ f[0] = y
              /\ \A n \in 1..Len(E) : f[n] = ApplyExtended(f[n - 1], E[n])
              /\ \A n \in 0..Len(E) : f[n] \in Attrs
      BY <2>1, <1>1, <1>3, BlobsDef
    <2> QED
      BY <2>2, <1>1 DEF y
  <1> HIDE DEF X, B
  <1>7. 0 \in T
    BY <1>1, <1>2, <1>4, <1>5, <1>6
  <1>8. ASSUME NEW n \in 0..(N - 1), n \in T PROVE n + 1 \in T
    <2>1. n + 1 \in 1..N /\ n + 1 \in 0..N /\ (n + 1) - 1 = n /\ n \in 0..N
      BY <1>1
    <2> DEFINE o == ops[n + 1]
               plain == o.pathless /\ o.op # "set"
    <2>2. /\ R[n + 1] = InOrder(R[n], o, m)
          /\ X[n + 1] = ApplyCore(X[n], C[n + 1]) /\ X[n] \in CoreStates
          /\ B[n + 1] = ApplyExtended(B[n], E[n + 1]) /\ B[n] \in Attrs
      BY <2>1, <1>4, <1>5, <1>6
    <2>3. R[n] = IF X[n] = Absent THEN Absent ELSE [core |-> X[n], ext |-> B[n]]
      BY <1>8
    <2>4. /\ C[n + 1] = [o EXCEPT !.attrs = IF plain THEN @ ELSE Rest(@, m)]
          /\ C[n + 1].attrs \in Attrs
      <3>1. C[n + 1] = [o EXCEPT !.attrs = IF plain THEN @ ELSE Rest(@, m)]
        BY <2>1 DEF C, CoreOps
      <3> QED
        BY <3>1, <2>1, <1>3
    <2>5. /\ E[n + 1] = [op |-> o.op, attrs |-> E[n + 1].attrs]
          /\ E[n + 1].attrs = IF plain THEN <<>> ELSE Canonical(o.attrs, m)
          /\ E[n + 1].attrs \in Attrs
      BY <2>1, ExtendedSide DEF E, Divided
    <2>6. CASE X[n] = Absent
      <3>1. X[n + 1] = Absent
        BY <2>2, <2>4, <2>6, ApplyCoreType
      <3>2. R[n] = Absent
        BY <2>3, <2>6
      <3>3. R[n + 1] = Absent
        BY <2>2, <3>2 DEF InOrder
      <3> QED
        BY <3>1, <3>3, <2>1
    <2>7. CASE X[n] # Absent
      <3> DEFINE v == [core |-> X[n], ext |-> B[n]]
      <3>1. v.core = X[n] /\ v.ext = B[n] /\ R[n] = v
        BY <2>3, <2>7
      <3>2. v \in Row
        BY <2>2, <2>7 DEF Row, CoreStates
      <3>3. v # Absent
        BY <3>2, RowType
      <3> HIDE DEF v
      <3>4. ApplyCore(v.core, [o EXCEPT !.attrs = IF plain THEN @ ELSE Rest(@, m)]) = X[n + 1]
        BY <3>1, <2>2, <2>4
      <3>5. (IF plain THEN v.ext ELSE ApplyExtended(v.ext, [op |-> o.op, attrs |-> Canonical(o.attrs, m)]))
              = B[n + 1]
        <4>1. CASE plain
          <5>1. Void(E[n + 1])
            BY <4>1, <2>5, NoAttrs DEF Void
          <5>2. B[n + 1] = B[n]
            BY <5>1, <2>2, <2>5, ApplyExtendedType
          <5> QED
            BY <4>1, <5>2, <3>1
        <4>2. CASE ~plain
          <5>1. E[n + 1] = [op |-> o.op, attrs |-> Canonical(o.attrs, m)]
            BY <4>2, <2>5
          <5> QED
            BY <4>2, <5>1, <3>1, <2>2
        <4> QED
          BY <4>1, <4>2
      <3>6. InOrder(v, o, m) = IF X[n + 1] = Absent THEN Absent
                               ELSE [core |-> X[n + 1], ext |-> B[n + 1]]
        <4>1. InOrder(v, o, m) =
                LET core == ApplyCore(v.core, [o EXCEPT !.attrs = IF plain THEN @ ELSE Rest(@, m)])
                IN  IF v = Absent \/ core = Absent THEN Absent
                    ELSE [core |-> core,
                          ext  |-> IF plain THEN v.ext
                                   ELSE ApplyExtended(v.ext, [op |-> o.op, attrs |-> Canonical(o.attrs, m)])]
          BY DEF InOrder
        <4> HIDE DEF plain, o
        <4> QED
          BY <4>1, <3>3, <3>4, <3>5, Zenon
      <3> QED
        BY <3>1, <3>6, <2>1, <2>2
    <2> QED
      BY <2>6, <2>7
  <1> HIDE DEF T
  <1>9. \A n \in 0..N : n \in T
    BY <1>1, <1>7, <1>8, InductionUpTo
  <1>10. N \in T
    BY <1>1, <1>9
  <1> QED
    BY <1>10 DEF T, X, B, R, C, E

\* Splitting the operations changes nothing.
LEMMA SplitHarmless ==
  ASSUME NEW u \in Row, NEW ops \in Seq(Operation), NEW m \in Lookups, ~AllVoid(ops)
  PROVE  Patched(u, ops, m) = Resources(u, ops, m)[Len(ops)]
  <1> DEFINE N == Len(ops)
             C == CoreOps(ops, m)
             E == ExtendedOps(ops, m)
             x == Cores(u.core, C)[N]
             none == NoneLeft(ops, m)
             core == IF ~none \/ AllVoid(E) THEN applyPatch(u.core, C, none) ELSE u.core
  <1>1. N \in Nat /\ Len(C) = N /\ Len(E) = N
    BY SplitLen
  <1>2. Patched(u, ops, m) = IF core = Absent THEN Absent
                             ELSE [core |-> core, ext |-> Blobs(u.ext, E)[N]]
    BY <1>1 DEF Patched, applyExtendedOps
  <1>3. Resources(u, ops, m)[N] = IF x = Absent THEN Absent
                                  ELSE [core |-> x, ext |-> Blobs(u.ext, E)[N]]
    BY SideBySide
  <1>4. ~AllVoid(C) \/ ~AllVoid(E)
    <2>1. PICK n \in 1..N : DOMAIN ops[n].attrs # {}
      BY DEF AllVoid, Void
    <2> DEFINE o == ops[n]
    <2>2. C[n].attrs = IF Divided(o) THEN Rest(o.attrs, m) ELSE o.attrs
      BY <2>1, CoreSide
    <2>3. E[n].attrs = IF Divided(o) THEN Canonical(o.attrs, m) ELSE <<>>
      BY <2>1, ExtendedSide
    <2>4. o.attrs \in Attrs
      BY <2>1, CoreSide
    <2>5. PICK k \in DOMAIN o.attrs : TRUE
      BY <2>1
    <2> HIDE DEF o, C, E
    <2>6. CASE ~Divided(o)
      <3>1. k \in DOMAIN C[n].attrs
        BY <2>2, <2>5, <2>6
      <3> QED
        BY <3>1, <2>1, <1>1 DEF AllVoid, Void
    <2>7. CASE Divided(o) /\ Registered(m, k)
      <3>1. m[Lower[k]] \in DOMAIN Canonical(o.attrs, m)
        BY <2>5, <2>7 DEF Canonical
      <3>2. DOMAIN E[n].attrs # {}
        BY <3>1, <2>3, <2>7
      <3> QED
        BY <3>2, <2>1, <1>1 DEF AllVoid, Void
    <2>8. CASE Divided(o) /\ ~Registered(m, k)
      <3>1. k \in DOMAIN Rest(o.attrs, m)
        BY <2>5, <2>8 DEF Rest, Keep
      <3>2. DOMAIN C[n].attrs # {}
        BY <3>1, <2>2, <2>8
      <3> QED
        BY <3>2, <2>1, <1>1 DEF AllVoid, Void
    <2> QED
      BY <2>6, <2>7, <2>8
  <1>5. AllVoid(C) => x = u.core
    <2>1. u.core \in CoreStates
      BY RowType
    <2>2. \A n \in 1..N : C[n].attrs \in Attrs
      BY CoreSide
    <2> DEFINE y == u.core
    <2> HIDE DEF C, y
    <2>3. AllVoid(C) => \A n \in 1..Len(C) :
             C[n].attrs \in Attrs /\ \A k \in DOMAIN C[n].attrs : ~IsCorePath(k)
      BY <2>2, <1>1 DEF AllVoid, Void
    <2>4. y \in CoreStates /\ Len(C) \in Nat
      BY <2>1, <1>1 DEF y
    <2>5. AllVoid(C) => Cores(y, C)[Len(C)] = y
      BY <2>3, <2>4, CoresKeep
    <2> QED
      BY <2>5, <1>1 DEF y
  <1>6. /\ ~none => applyPatch(u.core, C, none) = x
        /\ none => AllVoid(C)
    <2>1. ops # <<>>
      BY DEF AllVoid
    <2> QED
      BY <2>1, <1>1 DEF applyPatch, NoneLeft
  <1>7. core = x
    <2> HIDE DEF C, E, x, none
    <2> QED
      BY <1>4, <1>5, <1>6
  <1> HIDE DEF core, x
  <1> QED
    BY <1>2, <1>3, <1>7
-----------------------------------------------------------------------------
(* The steps of the system. *)

LEMMA AttributesInit == Init => AttributesInv
  <1> SUFFICES ASSUME Init PROVE AttributesInv
    OBVIOUS
  <1>1. /\ registry = {} /\ log = <<>> /\ row \in Rows0
        /\ phase = [r \in Requests |-> "new"] /\ job = [r \in Requests |-> None]
        /\ answer = [r \in Requests |-> "none"] /\ read = [r \in Requests |-> Absent]
        /\ reg = [r \in Requests |-> <<>>] /\ seen = [r \in Requests |-> {}]
        /\ captured = {} /\ faults = 0
    BY DEF Init
  <1>2. row \in Row \cup {Absent} /\ CleanRow(row)
    <2> DEFINE Clean == {b \in Attrs : \A k \in DOMAIN b : ~IsCore(k)}
               Rows  == [core : (Values \cup {Unset}) \ Refused, ext : Clean]
    <2>1. row \in Rows \cup {Absent}
      BY <1>1, AttributesAssumption
    <2>2. CASE row \in Rows
      <3>1. row.ext \in Attrs /\ \A k \in DOMAIN row.ext : ~IsCore(k)
        BY <2>2
      <3>2. row \in Row
        BY <2>2, <3>1 DEF Row
      <3> QED
        BY <3>1, <3>2 DEF CleanRow
    <2>3. CASE row = Absent
      BY <2>3, RowType DEF CleanRow
    <2> QED
      BY <2>1, <2>2, <2>3
  <1>3. <<>> \in Lookups /\ DOMAIN <<>> = {}
    <2>1. DOMAIN <<>> = {} /\ <<>> \in [{} -> Names]
      OBVIOUS
    <2> QED
      BY <2>1 DEF Lookups
  <1>4. TypeOK
    <2>1. log \in Seq([action : {"register", "unregister"}, name : Names])
      BY <1>1
    <2>2. reg \in [Requests -> Lookups]
      BY <1>1, <1>3
    <2>3. /\ phase \in [Requests -> Phases] /\ job \in [Requests -> Job \cup {None}]
          /\ answer \in [Requests -> Answers] /\ read \in [Requests -> Row \cup {Absent}]
          /\ seen \in [Requests -> SUBSET Names]
      BY <1>1 DEF Phases, Answers
    <2>4. registry \subseteq Names /\ captured \subseteq [req : Requests, name : Names] /\ faults \in Nat
      BY <1>1
    <2> QED
      BY <2>1, <2>2, <2>3, <2>4, <1>2 DEF TypeOK
  <1>5. CleanRow(row) /\ CleanRow(Absent)
    BY <1>2, RowType DEF CleanRow
  <1>6. ASSUME NEW r \in Requests PROVE Handled(r)
    <2>1. phase[r] = "new" /\ read[r] = Absent /\ reg[r] = <<>>
      BY <1>1
    <2>2. DOMAIN reg[r] = {}
      BY <2>1, <1>3
    <2> QED
      BY <2>1, <2>2, <1>5 DEF Handled, GoodLookup
  <1> QED
    BY <1>1, <1>4, <1>5, <1>6 DEF AttributesInv

\* What is known of a request stays known while its own state does and nothing
\* is registered that it has not seen.
LEMMA OthersHandled ==
  ASSUME NEW q, Handled(q),
         phase'[q] = phase[q], job'[q] = job[q], read'[q] = read[q], reg'[q] = reg[q],
         seen[q] \subseteq seen'[q],
         phase[q] # "new" => registry' \subseteq registry \cup seen'[q]
  PROVE  Handled(q)'
  BY DEF Handled, GoodLookup, CleanRow, IsCore

LEMMA JobType ==
  ASSUME NEW j \in Job
  PROVE  /\ j.do \in {"create", "put", "patch", "register", "unregister"}
         /\ j.do \in {"create", "put"} => j.body \in Body
         /\ j.do = "patch" => j.ops \in Seq(Operation)
         /\ j.do \in {"register", "unregister"} => j.name \in Names
  BY DEF Job, JobOn, Operation

\* An object read with one spelling of each attribute.
LEMMA OneSpellingType ==
  ASSUME NEW b \in Attrs
  PROVE  OneSpelling(b) \subseteq Body
  <1> SUFFICES ASSUME NEW c \in OneSpelling(b) PROVE c \in Body
    OBVIOUS
  <1>1. PICK N \in SUBSET DOMAIN b : c = Keep(b, N)
    BY DEF OneSpelling
  <1>2. c \in Attrs
    BY <1>1, KeepType
  <1>3. OneEach(c)
    BY DEF OneSpelling
  <1> QED
    BY <1>2, <1>3 DEF Body

LEMMA ReadOpsType ==
  ASSUME NEW ops \in Seq(OperationOn(Attrs))
  PROVE  ReadOps(ops) \subseteq Seq(Operation)
  <1> DEFINE N == 1..Len(ops)
             Read(n) == {[ops[n] EXCEPT !.attrs = b] : b \in OneSpelling(ops[n].attrs)}
  <1> SUFFICES ASSUME NEW o \in ReadOps(ops) PROVE o \in Seq(Operation)
    OBVIOUS
  <1>1. /\ o \in [N -> UNION {Read(n) : n \in N}]
        /\ \A n \in N : o[n] \in Read(n)
    BY DEF ReadOps
  <1>2. ASSUME NEW n \in N PROVE o[n] \in Operation
    <2>1. ops[n] \in OperationOn(Attrs)
      OBVIOUS
    <2>2. PICK b \in OneSpelling(ops[n].attrs) : o[n] = [ops[n] EXCEPT !.attrs = b]
      BY <1>1
    <2>3. ops[n].attrs \in Attrs
      BY <2>1 DEF OperationOn
    <2>4. b \in Body
      BY <2>2, <2>3, OneSpellingType
    <2> QED
      BY <2>1, <2>2, <2>4 DEF Operation, OperationOn
  <1> HIDE DEF Read
  <1>3. o \in [N -> Operation]
    BY <1>1, <1>2
  <1>4. Len(ops) \in Nat
    OBVIOUS
  <1> QED
    BY <1>3, <1>4

\* What the handlers work with has one spelling of each attribute.
LEMMA ReadJobsType == ReadJobs \subseteq Job
  <1> SUFFICES ASSUME NEW j \in Jobs, NEW i \in Readings(j) PROVE i \in Job
    BY DEF ReadJobs
  <1>1. j \in JobOn(Attrs)
    BY AttributesAssumption
  <1>2. CASE j \in [do : {"create", "put"}, body : Attrs]
    <2>1. PICK b \in OneSpelling(j.body) : i = [j EXCEPT !.body = b]
      BY <1>2 DEF Readings
    <2>2. j.body \in Attrs
      BY <1>2
    <2>3. b \in Body
      BY <2>1, <2>2, OneSpellingType
    <2> QED
      BY <1>2, <2>1, <2>3 DEF Job, JobOn
  <1>3. CASE j \in [do : {"patch"}, ops : Seq(OperationOn(Attrs))]
    <2>1. PICK o \in ReadOps(j.ops) : i = [j EXCEPT !.ops = o]
      BY <1>3 DEF Readings
    <2>2. j.ops \in Seq(OperationOn(Attrs))
      BY <1>3
    <2>3. o \in Seq(Operation)
      BY <2>1, <2>2, ReadOpsType
    <2> QED
      BY <1>3, <2>1, <2>3 DEF Job, JobOn, Operation
  <1>4. CASE j \in [do : {"register", "unregister"}, name : Names]
    <2>1. i = j
      BY <1>4 DEF Readings
    <2> QED
      BY <1>4, <2>1 DEF Job, JobOn
  <1> QED
    BY <1>1, <1>2, <1>3, <1>4 DEF JobOn

LEMMA ArriveKeeps ==
  ASSUME AttributesInv, NEW r \in Requests, Arrive(r)
  PROVE  AttributesInv'
  <1>1. PICK j \in Job : job' = [job EXCEPT ![r] = j] /\ Begin(r, j)
    BY ReadJobsType DEF Arrive
  <1>2. /\ phase[r] = "new" /\ seen' = [seen EXCEPT ![r] = registry]
        /\ UNCHANGED <<registry, log, row, read, reg, captured, faults>>
    BY DEF Arrive, tables
  <1>3. TypeOK
    BY DEF AttributesInv
  <1>4. PICK p \in {"read", "list", "admin", "done"} :
          /\ phase' = [phase EXCEPT ![r] = p] /\ answer' \in [Requests -> Answers]
          /\ p = "list" => j.do # "patch"
    <2>1. j.do \in {"create", "put", "patch", "register", "unregister"}
      BY JobType
    <2>2. answer \in [Requests -> Answers]
      BY <1>3 DEF TypeOK
    <2>3. CASE BadBody(j)
      <3>1. phase' = [phase EXCEPT ![r] = "done"] /\ answer' = [answer EXCEPT ![r] = "invalid"]
        BY <2>3, <1>1 DEF Begin, Reply
      <3> QED
        BY <3>1, <2>2 DEF Answers
    <2>4. CASE ~BadBody(j)
      <3>1. Goto(r, CASE j.do = "patch" -> "read"
                      [] j.do \in {"create", "put"} -> "list"
                      [] j.do \in {"register", "unregister"} -> "admin")
        BY <2>4, <1>1 DEF Begin
      <3>2. CASE j.do = "patch"
        BY <3>1, <3>2, <2>2 DEF Goto
      <3>3. CASE j.do \in {"create", "put"}
        BY <3>1, <3>3, <2>2 DEF Goto
      <3>4. CASE j.do \in {"register", "unregister"}
        BY <3>1, <3>4, <2>2 DEF Goto
      <3> QED
        BY <2>1, <3>2, <3>3, <3>4
    <2> QED
      BY <2>3, <2>4
  <1>5. /\ phase'[r] = p /\ job'[r] = j /\ seen'[r] = registry
        /\ \A q \in Requests \ {r} : phase'[q] = phase[q] /\ job'[q] = job[q] /\ seen'[q] = seen[q]
    BY <1>1, <1>2, <1>3, <1>4 DEF TypeOK
  <1>6. TypeOK'
    <2>1. phase' \in [Requests -> Phases]
      BY <1>3, <1>4 DEF TypeOK, Phases
    <2>2. job' \in [Requests -> Job \cup {None}]
      BY <1>1, <1>3 DEF TypeOK
    <2>3. seen' \in [Requests -> SUBSET Names]
      BY <1>2, <1>3 DEF TypeOK
    <2> QED
      BY <2>1, <2>2, <2>3, <1>2, <1>3, <1>4 DEF TypeOK
  <1>7. ASSUME NEW q \in Requests PROVE Handled(q)'
    <2>1. Handled(q) /\ Handled(r)
      BY DEF AttributesInv
    <2>2. CASE q # r
      BY <2>1, <2>2, <1>2, <1>5, OthersHandled
    <2>3. CASE q = r
      <3>1. DOMAIN reg[r] = {} /\ CleanRow(read[r])
        BY <2>1, <1>2 DEF Handled
      <3>2. reg'[r] = reg[r] /\ read'[r] = read[r] /\ registry' = registry
        BY <1>2
      <3>3. CleanRow(read[r])'
        BY <3>1, <3>2 DEF CleanRow, IsCore
      <3> QED
        BY <2>3, <3>1, <3>2, <3>3, <1>4, <1>5 DEF Handled, GoodLookup
    <2> QED
      BY <2>2, <2>3
  <1>8. \A c \in captured' : phase'[c.req] # "new" /\ c.name \in seen'[c.req]
    <2>1. \A c \in captured : c.req \in Requests /\ phase[c.req] # "new" /\ c.name \in seen[c.req]
      BY <1>3 DEF AttributesInv, TypeOK
    <2> QED
      BY <2>1, <1>2, <1>5
  <1>9. (\A n \in registry : ~IsCore(n))' /\ CleanRow(row)'
    BY <1>2 DEF AttributesInv, CleanRow, IsCore
  <1> QED
    BY <1>6, <1>7, <1>8, <1>9 DEF AttributesInv

\* A step of a request that has arrived and changes nothing but its phase and
\* answer: its replies without effect.
LEMMA ReplyKeeps ==
  ASSUME AttributesInv, NEW r \in Requests, phase[r] # "new", NEW a \in Answers, Reply(r, a),
         UNCHANGED <<registry, log, row, job, read, reg, seen, captured>>, faults' \in Nat
  PROVE  AttributesInv'
  <1>1. TypeOK
    BY DEF AttributesInv
  <1>2. phase' = [phase EXCEPT ![r] = "done"] /\ answer' = [answer EXCEPT ![r] = a]
    BY DEF Reply
  <1>3. TypeOK'
    <2>1. phase' \in [Requests -> Phases] /\ answer' \in [Requests -> Answers]
      BY <1>1, <1>2 DEF TypeOK, Phases
    <2> QED
      BY <2>1, <1>1 DEF TypeOK
  <1>4. phase'[r] = "done" /\ \A q \in Requests \ {r} : phase'[q] = phase[q]
    BY <1>1, <1>2 DEF TypeOK
  <1>5. ASSUME NEW q \in Requests PROVE Handled(q)'
    <2>1. Handled(q)
      BY DEF AttributesInv
    <2>2. CASE q # r
      BY <2>1, <2>2, <1>4, OthersHandled
    <2>3. CASE q = r
      BY <2>1, <2>3, <1>4 DEF Handled, GoodLookup, CleanRow, IsCore
    <2> QED
      BY <2>2, <2>3
  <1>6. \A c \in captured' : phase'[c.req] # "new" /\ c.name \in seen'[c.req]
    <2>1. \A c \in captured : c.req \in Requests /\ phase[c.req] # "new" /\ c.name \in seen[c.req]
      BY <1>1 DEF AttributesInv, TypeOK
    <2> QED
      BY <2>1, <1>4
  <1>7. (\A n \in registry : ~IsCore(n))' /\ CleanRow(row)'
    BY DEF AttributesInv, CleanRow, IsCore
  <1> QED
    BY <1>3, <1>5, <1>6, <1>7 DEF AttributesInv

LEMMA GetUserKeeps ==
  ASSUME AttributesInv, NEW r \in Requests, GetUser(r)
  PROVE  AttributesInv'
  <1>1. /\ phase[r] = "read" /\ read' = [read EXCEPT ![r] = row]
        /\ UNCHANGED <<registry, log, row, job, reg, seen, captured, faults>>
    BY DEF GetUser, tables
  <1>2. TypeOK /\ Handled(r) /\ CleanRow(row)
    BY DEF AttributesInv
  <1>3. PICK p \in {"done", "list"} :
          /\ phase' = [phase EXCEPT ![r] = p] /\ answer' \in [Requests -> Answers]
          /\ p = "list" => row # Absent
    <2>1. CASE row = Absent
      <3>1. phase' = [phase EXCEPT ![r] = "done"] /\ answer' = [answer EXCEPT ![r] = "not_found"]
        BY <2>1 DEF GetUser, Reply
      <3>2. answer' \in [Requests -> Answers]
        BY <3>1, <1>2 DEF TypeOK, Answers
      <3> QED
        BY <3>1, <3>2
    <2>2. CASE row # Absent
      BY <2>2, <1>2 DEF GetUser, Goto, TypeOK
    <2> QED
      BY <2>1, <2>2
  <1>4. /\ phase'[r] = p /\ read'[r] = row
        /\ \A q \in Requests \ {r} : phase'[q] = phase[q] /\ read'[q] = read[q]
    BY <1>1, <1>2, <1>3 DEF TypeOK
  <1>5. row \in Row \cup {Absent}
    BY <1>2 DEF TypeOK
  <1>6. TypeOK'
    <2>1. phase' \in [Requests -> Phases] /\ read' \in [Requests -> Row \cup {Absent}]
      BY <1>1, <1>2, <1>3, <1>5 DEF TypeOK, Phases
    <2> QED
      BY <2>1, <1>1, <1>2, <1>3 DEF TypeOK
  <1>7. ASSUME NEW q \in Requests PROVE Handled(q)'
    <2>1. Handled(q)
      BY DEF AttributesInv
    <2>2. CASE q # r
      BY <2>1, <2>2, <1>1, <1>4, OthersHandled
    <2>3. CASE q = r
      <3>1. CleanRow(read[r])'
        BY <1>2, <1>4 DEF CleanRow, IsCore
      <3>2. p = "list" => read'[r] \in Row
        BY <1>3, <1>4, <1>5
      <3> QED
        BY <2>3, <3>1, <3>2, <1>1, <1>2, <1>3, <1>4 DEF Handled, GoodLookup, IsCore
    <2> QED
      BY <2>2, <2>3
  <1>8. \A c \in captured' : phase'[c.req] # "new" /\ c.name \in seen'[c.req]
    <2>1. \A c \in captured : c.req \in Requests /\ phase[c.req] # "new" /\ c.name \in seen[c.req]
      BY <1>2 DEF AttributesInv, TypeOK
    <2> QED
      BY <2>1, <1>1, <1>3, <1>4
  <1>9. (\A n \in registry : ~IsCore(n))' /\ CleanRow(row)'
    BY <1>1 DEF AttributesInv, CleanRow, IsCore
  <1> QED
    BY <1>6, <1>7, <1>8, <1>9 DEF AttributesInv

\* The lookup is made of names that are registered now, hence seen.
LEMMA LookUpKeeps ==
  ASSUME AttributesInv, NEW r \in Requests, LookUp(r)
  PROVE  AttributesInv'
  <1> DEFINE m == Lookup(registry)
  <1>1. /\ phase[r] = "list" /\ reg' = [reg EXCEPT ![r] = m]
        /\ phase' = [phase EXCEPT ![r] = "write"]
        /\ UNCHANGED <<registry, log, row, job, answer, read, seen, captured, faults>>
    BY DEF LookUp, ListAttributes, Goto, tables
  <1>2. TypeOK /\ Handled(r)
    BY DEF AttributesInv
  <1>3. /\ m \in Lookups /\ GoodLookup(m) /\ \A l \in DOMAIN m : m[l] \in registry
    <2>1. registry \in SUBSET Names /\ \A n \in registry : ~IsCore(n)
      BY DEF AttributesInv, TypeOK
    <2> QED
      BY <2>1, LookupGood
  <1> HIDE DEF m
  <1>4. /\ phase'[r] = "write" /\ reg'[r] = m
        /\ \A q \in Requests \ {r} : phase'[q] = phase[q] /\ reg'[q] = reg[q]
    BY <1>1, <1>2 DEF TypeOK
  <1>5. TypeOK'
    <2>1. phase' \in [Requests -> Phases]
      BY <1>1, <1>2 DEF TypeOK, Phases
    <2>2. reg' \in [Requests -> Lookups]
      BY <1>1, <1>2, <1>3 DEF TypeOK
    <2> QED
      BY <2>1, <2>2, <1>1, <1>2 DEF TypeOK
  <1>6. ASSUME NEW q \in Requests PROVE Handled(q)'
    <2>1. Handled(q)
      BY DEF AttributesInv
    <2>2. CASE q # r
      BY <2>1, <2>2, <1>1, <1>4, OthersHandled
    <2>3. CASE q = r
      <3>1. registry \subseteq seen[r] /\ job[r] \in Job
        BY <1>1, <1>2 DEF Handled
      <3>2. GoodLookup(reg[r])'
        BY <1>3, <1>4 DEF GoodLookup, IsCore
      <3>3. CleanRow(read[r])'
        BY <1>1, <1>2 DEF Handled, CleanRow, IsCore
      <3>4. \A l \in DOMAIN reg'[r] : reg'[r][l] \in seen'[r]
        BY <3>1, <1>1, <1>3, <1>4
      <3>5. job[r].do = "patch" => read[r] \in Row
        BY <1>1, <1>2 DEF Handled
      <3> QED
        BY <2>3, <3>1, <3>2, <3>3, <3>4, <3>5, <1>1, <1>4 DEF Handled
    <2> QED
      BY <2>2, <2>3
  <1>7. \A c \in captured' : phase'[c.req] # "new" /\ c.name \in seen'[c.req]
    <2>1. \A c \in captured : c.req \in Requests /\ phase[c.req] # "new" /\ c.name \in seen[c.req]
      BY <1>2 DEF AttributesInv, TypeOK
    <2> QED
      BY <2>1, <1>1, <1>4
  <1>8. (\A n \in registry : ~IsCore(n))' /\ CleanRow(row)'
    BY <1>1 DEF AttributesInv, CleanRow, IsCore
  <1> QED
    BY <1>5, <1>6, <1>7, <1>8 DEF AttributesInv

\* A commit, whether its answer arrives or not.
LEMMA CommittedType ==
  ASSUME TypeOK, NEW r \in Requests, Committed(r)
  PROVE  /\ phase' = [phase EXCEPT ![r] = "done"]
         /\ answer' \in [Requests -> Answers] /\ faults' \in Nat
  <1>1. answer \in [Requests -> Answers] /\ faults \in Nat
    BY DEF TypeOK
  <1>2. CASE Reply(r, "ok") /\ UNCHANGED faults
    BY <1>1, <1>2 DEF Reply, Answers
  <1>3. CASE Reply(r, "error") /\ faults' = faults + 1
    BY <1>1, <1>3 DEF Reply, Answers
  <1> QED
    BY <1>2, <1>3 DEF Committed

\* A write of a row that is clean, whose new names are those of the lookup.
LEMMA StoreKeeps ==
  ASSUME AttributesInv, NEW r \in Requests, phase[r] # "new", NEW u \in Row, NEW before,
         Store(r, u, before), CleanRow(u),
         \A k \in DOMAIN u.ext \ before : \E l \in DOMAIN reg[r] : k = reg[r][l],
         UNCHANGED <<registry, log, job, read, reg, seen>>
  PROVE  AttributesInv'
  <1> DEFINE new == {[req |-> r, name |-> k] : k \in DOMAIN u.ext \ before}
  <1>1. TypeOK /\ Handled(r)
    BY DEF AttributesInv
  <1>2. /\ row' = u /\ captured' = captured \cup new
        /\ phase' = [phase EXCEPT ![r] = "done"]
        /\ answer' \in [Requests -> Answers] /\ faults' \in Nat
    BY <1>1, CommittedType DEF Store
  <1>3. phase'[r] = "done" /\ \A q \in Requests \ {r} : phase'[q] = phase[q]
    BY <1>2, <1>1 DEF TypeOK
  <1>4. ASSUME NEW k \in DOMAIN u.ext \ before PROVE k \in Names /\ k \in seen[r]
    <2>1. PICK l \in DOMAIN reg[r] : k = reg[r][l]
      OBVIOUS
    <2>2. reg[r] \in Lookups
      BY <1>1 DEF TypeOK
    <2>3. reg[r][l] \in Names
      BY <2>2, LookupsType
    <2> QED
      BY <2>1, <2>3, <1>1 DEF Handled
  <1>5. new \subseteq [req : Requests, name : Names] /\ \A c \in new : c.req = r /\ c.name \in seen[r]
    BY <1>4
  <1> HIDE DEF new
  <1>6. TypeOK'
    <2>1. phase' \in [Requests -> Phases] /\ answer' \in [Requests -> Answers]
      BY <1>2, <1>1 DEF TypeOK, Phases
    <2>2. captured' \subseteq [req : Requests, name : Names] /\ row' \in Row
      BY <1>2, <1>1, <1>5 DEF TypeOK
    <2> QED
      BY <2>1, <2>2, <1>2, <1>1 DEF TypeOK
  <1>7. ASSUME NEW q \in Requests PROVE Handled(q)'
    <2>1. Handled(q)
      BY DEF AttributesInv
    <2>2. CASE q # r
      BY <2>1, <2>2, <1>3, OthersHandled
    <2>3. CASE q = r
      BY <2>1, <2>3, <1>3 DEF Handled, GoodLookup, CleanRow, IsCore
    <2> QED
      BY <2>2, <2>3
  <1>8. \A c \in captured' : phase'[c.req] # "new" /\ c.name \in seen'[c.req]
    <2>1. \A c \in captured : c.req \in Requests /\ phase[c.req] # "new" /\ c.name \in seen[c.req]
      BY <1>1 DEF AttributesInv, TypeOK
    <2> QED
      BY <2>1, <1>2, <1>3, <1>5
  <1>9. (\A n \in registry : ~IsCore(n))' /\ CleanRow(row)'
    BY <1>2 DEF AttributesInv, CleanRow, IsCore
  <1> QED
    BY <1>6, <1>7, <1>8, <1>9 DEF AttributesInv

\* What create and replace write: a clean row, with names of the lookup.
LEMMA DecodedClean ==
  ASSUME AttributesInv, NEW r \in Requests, phase[r] # "new", job[r].do \in {"create", "put"}
  PROVE  LET u == Decoded(job[r].body, reg[r])
         IN  /\ u \in Row /\ CleanRow(u)
             /\ \A k \in DOMAIN u.ext : \E l \in DOMAIN reg[r] : k = reg[r][l]
  <1> DEFINE b == job[r].body
             m == reg[r]
             u == Decoded(b, m)
  <1>1. job[r] \in Job /\ GoodLookup(m)
    BY DEF AttributesInv, Handled
  <1>2. b \in Body
    <2> DEFINE j == job[r]
    <2>1. j \in Job /\ j.do \in {"create", "put"}
      BY <1>1
    <2> HIDE DEF j
    <2>2. j.body \in Body
      BY <2>1, JobType
    <2> QED
      BY <2>2 DEF j
  <1>3. m \in Lookups
    BY DEF AttributesInv, TypeOK
  <1> HIDE DEF b, m
  <1>4. u \in Row /\ \A k \in DOMAIN u.ext : \E l \in DOMAIN m : k = m[l]
    BY <1>2, <1>3, DecodedType
  <1> HIDE DEF u
  <1>5. CleanRow(u)
    BY <1>1, <1>4 DEF CleanRow, GoodLookup
  <1> QED
    BY <1>4, <1>5 DEF u, b, m

LEMMA CreateKeeps ==
  ASSUME AttributesInv, NEW r \in Requests, Create(r)
  PROVE  AttributesInv'
  <1> DEFINE u == Decoded(job[r].body, reg[r])
  <1>1. /\ phase[r] = "write" /\ job[r].do = "create"
        /\ UNCHANGED <<registry, log, job, read, reg, seen>>
        /\ (Reply(r, "duplicate") /\ UNCHANGED <<row, captured, faults>>) \/ Store(r, u, {})
    BY DEF Create
  <1>2. u \in Row /\ CleanRow(u) /\ \A k \in DOMAIN u.ext : \E l \in DOMAIN reg[r] : k = reg[r][l]
    BY <1>1, DecodedClean
  <1>3. faults \in Nat
    BY DEF AttributesInv, TypeOK
  <1>4. CASE Reply(r, "duplicate") /\ UNCHANGED <<row, captured, faults>>
    <2>1. "duplicate" \in Answers
      BY DEF Answers
    <2> QED
      BY <1>1, <1>3, <1>4, <2>1, ReplyKeeps
  <1> HIDE DEF u
  <1>5. CASE Store(r, u, {})
    BY <1>1, <1>2, <1>5, StoreKeeps
  <1> QED
    BY <1>1, <1>4, <1>5

LEMMA ReplaceKeeps ==
  ASSUME AttributesInv, NEW r \in Requests, Replace(r)
  PROVE  AttributesInv'
  <1> DEFINE u == Decoded(job[r].body, reg[r])
  <1>1. /\ phase[r] = "write" /\ job[r].do = "put"
        /\ UNCHANGED <<registry, log, job, read, reg, seen>>
        /\ (Reply(r, "not_found") /\ UNCHANGED <<row, captured, faults>>) \/ Store(r, u, {})
    BY DEF Replace
  <1>2. u \in Row /\ CleanRow(u) /\ \A k \in DOMAIN u.ext : \E l \in DOMAIN reg[r] : k = reg[r][l]
    BY <1>1, DecodedClean
  <1>3. faults \in Nat
    BY DEF AttributesInv, TypeOK
  <1>4. CASE Reply(r, "not_found") /\ UNCHANGED <<row, captured, faults>>
    <2>1. "not_found" \in Answers
      BY DEF Answers
    <2> QED
      BY <1>1, <1>3, <1>4, <2>1, ReplyKeeps
  <1> HIDE DEF u
  <1>5. CASE Store(r, u, {})
    BY <1>1, <1>2, <1>5, StoreKeeps
  <1> QED
    BY <1>1, <1>4, <1>5

\* What the write of a PATCH has to work with.
LEMMA PatchInputs ==
  ASSUME AttributesInv, NEW r \in Requests, phase[r] = "write", job[r].do = "patch"
  PROVE  /\ job[r] \in Job /\ job[r].ops \in Seq(Operation)
         /\ read[r] \in Row /\ CleanRow(read[r]) /\ reg[r] \in Lookups /\ GoodLookup(reg[r])
  <1>1. /\ job[r] \in Job /\ read[r] \in Row /\ CleanRow(read[r]) /\ GoodLookup(reg[r])
    BY DEF AttributesInv, Handled
  <1>2. reg[r] \in Lookups
    BY DEF AttributesInv, TypeOK
  <1>3. job[r].ops \in Seq(Operation)
    <2> DEFINE j == job[r]
    <2>1. j \in Job /\ j.do = "patch"
      BY <1>1
    <2> HIDE DEF j
    <2>2. j.ops \in Seq(Operation)
      BY <2>1, JobType
    <2> QED
      BY <2>2 DEF j
  <1> QED
    BY <1>1, <1>2, <1>3

LEMMA PatchKeeps ==
  ASSUME AttributesInv, NEW r \in Requests, Patch(r)
  PROVE  AttributesInv'
  <1> DEFINE o == job[r].ops
             m == reg[r]
             v == read[r]
             u == Patched(v, o, m)
  <1>1. /\ phase[r] = "write" /\ job[r].do = "patch"
        /\ UNCHANGED <<registry, log, job, read, reg, seen>>
        /\ \/ Reply(r, "invalid") /\ UNCHANGED <<row, captured, faults>>
           \/ u # Absent /\ Store(r, u, DOMAIN v.ext)
    BY DEF Patch
  <1>2. o \in Seq(Operation) /\ v \in Row /\ CleanRow(v) /\ m \in Lookups /\ GoodLookup(m)
    BY <1>1, PatchInputs
  <1>3. faults \in Nat
    BY DEF AttributesInv, TypeOK
  <1>4. CASE Reply(r, "invalid") /\ UNCHANGED <<row, captured, faults>>
    <2>1. "invalid" \in Answers
      BY DEF Answers
    <2> QED
      BY <1>1, <1>3, <1>4, <2>1, ReplyKeeps
  <1>5. CASE u # Absent /\ Store(r, u, DOMAIN v.ext)
    <2>1. u \in Row /\ \A k \in DOMAIN u.ext : k \in DOMAIN v.ext \/ \E l \in DOMAIN m : k = m[l]
      <3> HIDE DEF o, m, v
      <3> QED
        BY <1>2, <1>5, PatchedType
    <2> HIDE DEF u
    <2>2. CleanRow(u)
      BY <2>1, <1>2 DEF CleanRow, GoodLookup
    <2>3. \A k \in DOMAIN u.ext \ DOMAIN v.ext : \E l \in DOMAIN reg[r] : k = reg[r][l]
      BY <2>1
    <2> QED
      BY <2>1, <2>2, <2>3, <1>1, <1>5, StoreKeeps
  <1> QED
    BY <1>1, <1>4, <1>5

\* A command that changes the registry to R, adding names that are no core names
\* and that every request under way then has seen.
LEMMA RegistryKeeps ==
  ASSUME AttributesInv, NEW r \in Requests, phase[r] # "new", Committed(r),
         registry' \subseteq Names, \A n \in registry' : ~IsCore(n),
         log' \in Seq([action : {"register", "unregister"}, name : Names]),
         seen' \in [Requests -> SUBSET Names],
         \A q \in Requests :
           seen[q] \subseteq seen'[q] /\ (phase[q] # "new" => registry' \subseteq registry \cup seen'[q]),
         UNCHANGED <<row, job, read, reg, captured>>
  PROVE  AttributesInv'
  <1>1. TypeOK
    BY DEF AttributesInv
  <1>2. phase' = [phase EXCEPT ![r] = "done"] /\ answer' \in [Requests -> Answers] /\ faults' \in Nat
    BY <1>1, CommittedType
  <1>3. TypeOK'
    <2>1. phase' \in [Requests -> Phases] /\ answer' \in [Requests -> Answers]
      BY <1>1, <1>2 DEF TypeOK, Phases
    <2> QED
      BY <2>1, <1>1, <1>2 DEF TypeOK
  <1>4. phase'[r] = "done" /\ \A q \in Requests \ {r} : phase'[q] = phase[q]
    BY <1>1, <1>2 DEF TypeOK
  <1>5. ASSUME NEW q \in Requests PROVE Handled(q)'
    <2>1. Handled(q)
      BY DEF AttributesInv
    <2>2. CASE q # r
      BY <2>1, <2>2, <1>4, OthersHandled
    <2>3. CASE q = r
      <3>1. registry' \subseteq seen'[r] /\ job[r] \in Job
        BY <2>1, <2>3 DEF Handled
      <3>2. \A l \in DOMAIN reg[r] : reg[r][l] \in seen'[r]
        BY <2>1, <2>3 DEF Handled
      <3>3. CleanRow(read[r])' /\ GoodLookup(reg[r])'
        BY <2>1, <2>3 DEF Handled, GoodLookup, CleanRow, IsCore
      <3> QED
        BY <2>3, <3>1, <3>2, <3>3, <1>4 DEF Handled
    <2> QED
      BY <2>2, <2>3
  <1>6. \A c \in captured' : phase'[c.req] # "new" /\ c.name \in seen'[c.req]
    <2>1. \A c \in captured : c.req \in Requests /\ phase[c.req] # "new" /\ c.name \in seen[c.req]
      BY <1>1 DEF AttributesInv, TypeOK
    <2> QED
      BY <2>1, <1>4
  <1>7. (\A n \in registry : ~IsCore(n))' /\ CleanRow(row)'
    BY DEF AttributesInv, CleanRow, IsCore
  <1> QED
    BY <1>3, <1>5, <1>6, <1>7 DEF AttributesInv

\* The name of a registry command, and the log with its entry.
LEMMA CommandType ==
  ASSUME AttributesInv, NEW r \in Requests, phase[r] = "admin",
         NEW a \in {"register", "unregister"}, job[r].do = a
  PROVE  /\ job[r].name \in Names
         /\ Append(log, [action |-> a, name |-> job[r].name])
              \in Seq([action : {"register", "unregister"}, name : Names])
  <1> DEFINE j == job[r]
             n == j.name
             e == [action |-> a, name |-> n]
  <1>1. j \in Job /\ j.do \in {"register", "unregister"}
    BY DEF AttributesInv, Handled
  <1>2. n \in Names
    <2> HIDE DEF j
    <2> QED
      BY <1>1, JobType
  <1>3. log \in Seq([action : {"register", "unregister"}, name : Names])
    BY DEF AttributesInv, TypeOK
  <1> HIDE DEF n
  <1>4. e \in [action : {"register", "unregister"}, name : Names]
    BY <1>2
  <1> HIDE DEF e
  <1>5. Append(log, e) \in Seq([action : {"register", "unregister"}, name : Names])
    BY <1>3, <1>4
  <1> QED
    BY <1>2, <1>5 DEF e, n

LEMMA RegisterKeeps ==
  ASSUME AttributesInv, NEW r \in Requests, RegisterAttribute(r)
  PROVE  AttributesInv'
  <1> DEFINE n == job[r].name
             a == IF IsReserved(n) THEN "reserved" ELSE "duplicate"
  <1>1. /\ phase[r] = "admin" /\ job[r].do = "register"
        /\ UNCHANGED <<row, job, read, reg, captured>>
        /\ \/ Reply(r, a) /\ UNCHANGED <<registry, log, seen, faults>>
           \/ /\ ~IsReserved(n) /\ registry' = registry \cup {n} /\ Record("register", n)
              /\ seen' = [q \in Requests |-> IF phase[q] = "new" THEN seen[q] ELSE seen[q] \cup {n}]
              /\ Committed(r)
    BY DEF RegisterAttribute
  <1>2. TypeOK
    BY DEF AttributesInv
  <1>3. /\ n \in Names
        /\ Append(log, [action |-> "register", name |-> n])
             \in Seq([action : {"register", "unregister"}, name : Names])
    BY <1>1, CommandType
  <1>4. CASE Reply(r, a) /\ UNCHANGED <<registry, log, seen, faults>>
    <2>1. a \in Answers
      BY DEF Answers
    <2>2. faults' \in Nat
      BY <1>2, <1>4 DEF TypeOK
    <2> HIDE DEF a
    <2> QED
      BY <2>1, <2>2, <1>1, <1>4, ReplyKeeps
  <1> HIDE DEF n
  <1>5. CASE /\ ~IsReserved(n) /\ registry' = registry \cup {n} /\ Record("register", n)
             /\ seen' = [q \in Requests |-> IF phase[q] = "new" THEN seen[q] ELSE seen[q] \cup {n}]
             /\ Committed(r)
    <2>1. registry' \subseteq Names /\ \A x \in registry' : ~IsCore(x)
      BY <1>2, <1>3, <1>5 DEF AttributesInv, TypeOK, IsReserved, IsCore
    <2>2. log' \in Seq([action : {"register", "unregister"}, name : Names])
      BY <1>3, <1>5 DEF Record
    <2>3. seen' \in [Requests -> SUBSET Names]
      BY <1>2, <1>3, <1>5 DEF TypeOK
    <2>4. \A q \in Requests :
            seen[q] \subseteq seen'[q] /\ (phase[q] # "new" => registry' \subseteq registry \cup seen'[q])
      BY <1>5
    <2> QED
      BY <2>1, <2>2, <2>3, <2>4, <1>1, <1>5, RegistryKeeps
  <1> QED
    BY <1>1, <1>4, <1>5

LEMMA UnregisterKeeps ==
  ASSUME AttributesInv, NEW r \in Requests, UnregisterAttribute(r)
  PROVE  AttributesInv'
  <1> DEFINE n == job[r].name
  <1>1. /\ phase[r] = "admin" /\ job[r].do = "unregister"
        /\ UNCHANGED <<row, job, read, reg, seen, captured>>
        /\ \/ Reply(r, "not_found") /\ UNCHANGED <<registry, log, faults>>
           \/ registry' = registry \ {n} /\ Record("unregister", n) /\ Committed(r)
    BY DEF UnregisterAttribute
  <1>2. TypeOK
    BY DEF AttributesInv
  <1>3. /\ n \in Names
        /\ Append(log, [action |-> "unregister", name |-> n])
             \in Seq([action : {"register", "unregister"}, name : Names])
    BY <1>1, CommandType
  <1> HIDE DEF n
  <1>4. CASE Reply(r, "not_found") /\ UNCHANGED <<registry, log, faults>>
    <2>1. "not_found" \in Answers /\ faults' \in Nat
      BY <1>2, <1>4 DEF TypeOK, Answers
    <2> QED
      BY <2>1, <1>1, <1>4, ReplyKeeps
  <1>5. CASE registry' = registry \ {n} /\ Record("unregister", n) /\ Committed(r)
    <2>1. registry' \subseteq Names /\ \A x \in registry' : ~IsCore(x)
      BY <1>2, <1>5 DEF AttributesInv, TypeOK
    <2>2. log' \in Seq([action : {"register", "unregister"}, name : Names])
      BY <1>3, <1>5 DEF Record
    <2>3. seen' \in [Requests -> SUBSET Names]
      BY <1>1, <1>2 DEF TypeOK
    <2>4. \A q \in Requests :
            seen[q] \subseteq seen'[q] /\ (phase[q] # "new" => registry' \subseteq registry \cup seen'[q])
      BY <1>1, <1>5
    <2> QED
      BY <2>1, <2>2, <2>3, <2>4, <1>1, <1>5, RegistryKeeps
  <1> QED
    BY <1>1, <1>4, <1>5

LEMMA FailKeeps ==
  ASSUME AttributesInv, NEW r \in Requests, Fail(r)
  PROVE  AttributesInv'
  <1>1. /\ phase[r] # "new" /\ Reply(r, "error") /\ faults' = faults + 1
        /\ UNCHANGED <<registry, log, row, job, read, reg, seen, captured>>
    BY DEF Fail, tables
  <1>2. "error" \in Answers /\ faults' \in Nat
    BY <1>1 DEF Answers, AttributesInv, TypeOK
  <1> QED
    BY <1>1, <1>2, ReplyKeeps

LEMMA StutterKeeps ==
  ASSUME AttributesInv, UNCHANGED vars
  PROVE  AttributesInv'
  <1>1. UNCHANGED <<registry, log, row, phase, job, answer, read, reg, seen, captured, faults>>
    BY DEF vars, tables, requests
  <1>2. TypeOK'
    BY <1>1 DEF AttributesInv, TypeOK
  <1>3. ASSUME NEW q \in Requests PROVE Handled(q)'
    BY <1>1, OthersHandled DEF AttributesInv
  <1>4. (\A n \in registry : ~IsCore(n))' /\ CleanRow(row)'
    BY <1>1 DEF AttributesInv, CleanRow, IsCore
  <1>5. (\A c \in captured : phase[c.req] # "new" /\ c.name \in seen[c.req])'
    BY <1>1 DEF AttributesInv
  <1> QED
    BY <1>2, <1>3, <1>4, <1>5 DEF AttributesInv

LEMMA AttributesStep == AttributesInv /\ [Next]_vars => AttributesInv'
  <1> SUFFICES ASSUME AttributesInv, [Next]_vars PROVE AttributesInv'
    OBVIOUS
  <1>1. CASE UNCHANGED vars
    BY <1>1, StutterKeeps
  <1>2. ASSUME NEW r \in Requests, Step(r) PROVE AttributesInv'
    <2>1. CASE Arrive(r)
      BY <2>1, ArriveKeeps
    <2>2. CASE GetUser(r)
      BY <2>2, GetUserKeeps
    <2>3. CASE LookUp(r)
      BY <2>3, LookUpKeeps
    <2>4. CASE Create(r)
      BY <2>4, CreateKeeps
    <2>5. CASE Replace(r)
      BY <2>5, ReplaceKeeps
    <2>6. CASE Patch(r)
      BY <2>6, PatchKeeps
    <2>7. CASE RegisterAttribute(r)
      BY <2>7, RegisterKeeps
    <2>8. CASE UnregisterAttribute(r)
      BY <2>8, UnregisterKeeps
    <2>9. CASE Fail(r)
      BY <2>9, FailKeeps
    <2> QED
      BY <1>2, <2>1, <2>2, <2>3, <2>4, <2>5, <2>6, <2>7, <2>8, <2>9 DEF Step
  <1> QED
    BY <1>1, <1>2 DEF Next

LEMMA AttributesInvariant == Spec => []AttributesInv
  BY AttributesInit, AttributesStep, PTL DEF Spec
-----------------------------------------------------------------------------
(* The theorems. *)

\* The registry, its log, the row and what the handlers hold of them have their
\* types throughout; in particular splitExtendedOps, applyExtendedOps and
\* applyPatch (extended.go, patch.go) write a blob of values only.
THEOREM TypeCorrect == Spec => []TypeOK
  <1>1. AttributesInv => TypeOK
    BY DEF AttributesInv
  <1> QED
    BY <1>1, AttributesInvariant, PTL

LEMMA ShapeNeverShadows ==
  ASSUME NEW u \in Row, CleanRow(u)
  PROVE  \A k \in DOMAIN shapeUser(u) : IsCore(k) => k = CoreKey /\ shapeUser(u)[k] = u.core
  <1> DEFINE f == u.ext
             g == IF u.core = Unset THEN <<>> ELSE [k \in {CoreKey} |-> u.core]
  <1>1. u.core \in Values \cup {Unset} /\ f \in Attrs
    BY RowType
  <1>2. g \in Attrs /\ DOMAIN g \subseteq {CoreKey} /\ \A k \in DOMAIN g : g[k] = u.core
    <2>1. CASE u.core = Unset
      BY <2>1, NoAttrs
    <2>2. CASE u.core # Unset
      <3> DEFINE h == [k \in {CoreKey} |-> u.core]
      <3>1. h \in [{CoreKey} -> Values] /\ {CoreKey} \in SUBSET Names
        BY <1>1, <2>2, AttributesAssumption
      <3>2. h \in Attrs
        BY <3>1, InAttrs
      <3>3. g = h
        BY <2>2
      <3> QED
        BY <3>2, <3>3
    <2> QED
      BY <2>1, <2>2
  <1>3. shapeUser(u) = Over(f, g)
    BY DEF shapeUser
  <1>4. \A k \in DOMAIN f : ~IsCore(k)
    BY DEF CleanRow
  <1> HIDE DEF f, g
  <1>5. DOMAIN Over(f, g) = DOMAIN f \cup DOMAIN g /\ \A k \in DOMAIN g : Over(f, g)[k] = g[k]
    BY <1>1, <1>2, OverType
  <1> QED
    BY <1>2, <1>3, <1>4, <1>5

\* An extended attribute never shadows one the server models in what shapeUser
\* (extended.go) answers: no registration in whatever spelling, no request that
\* still works with an older lookup, and no later removal of the core value
\* brings a core name into a blob.
THEOREM NoShadow == Spec => []CoreNeverShadowed
  <1>1. AttributesInv => CoreNeverShadowed
    <2> SUFFICES ASSUME AttributesInv, row # Absent
                 PROVE  \A k \in DOMAIN shapeUser(row) :
                          IsCore(k) => k = CoreKey /\ shapeUser(row)[k] = row.core
      BY DEF CoreNeverShadowed
    <2>1. row \in Row /\ CleanRow(row)
      BY DEF AttributesInv, TypeOK
    <2> QED
      BY <2>1, ShapeNeverShadows
  <1> QED
    BY <1>1, AttributesInvariant, PTL

\* A create, replace or patch (handler.go) adds to a blob only names that were
\* registered at some time between its arrival and its write.
THEOREM CaptureIsCurrent == Spec => []CapturedWhileRegistered
  <1>1. AttributesInv => CapturedWhileRegistered
    BY DEF AttributesInv, CapturedWhileRegistered
  <1> QED
    BY <1>1, AttributesInvariant, PTL

\* For every list of operations, of any length, the two lists of
\* splitExtendedOps (extended.go) applied one after the other give the row that
\* the operations give when each is applied in turn to the whole resource, and a
\* refusal in the same cases.
THEOREM SplitIsSequential == Spec => []PatchIsSequential
  <1>1. AttributesInv => PatchIsSequential
    <2> SUFFICES ASSUME AttributesInv, NEW r \in Requests,
                        phase[r] = "write", job[r].do = "patch", ~AllVoid(job[r].ops)
                 PROVE  Patched(read[r], job[r].ops, reg[r]) =
                          Resources(read[r], job[r].ops, reg[r])[Len(job[r].ops)]
      BY DEF PatchIsSequential
    <2> DEFINE o == job[r].ops
               u == read[r]
               m == reg[r]
    <2>1. job[r] \in Job /\ o \in Seq(Operation) /\ u \in Row /\ m \in Lookups
      BY PatchInputs
    <2>2. ~AllVoid(o)
      OBVIOUS
    <2> HIDE DEF o, u, m
    <2>3. Patched(u, o, m) = Resources(u, o, m)[Len(o)]
      BY <2>1, <2>2, SplitHarmless
    <2> QED
      BY <2>3 DEF o, u, m
  <1> QED
    BY <1>1, AttributesInvariant, PTL

\* A PATCH that no other write overtakes (the UpdateUser of patch() in
\* handler.go) leaves every attribute that it does not name as it was, whether it
\* is still registered or no longer.
THEOREM PatchIsLocal == Spec => UnnamedSurvive
  <1> DEFINE Safe == \A r \in Requests :
       Patch(r) /\ row = read[r] /\ row' # row =>
         /\ \A k \in Names : Lower[k] \notin NamedBy(job[r].ops) =>
              /\ k \in DOMAIN row'.ext <=> k \in DOMAIN row.ext
              /\ k \in DOMAIN row.ext => row'.ext[k] = row.ext[k]
         /\ NamedBy(job[r].ops) \cap CorePaths = {} => row'.core = row.core
  <1>1. AttributesInv /\ [Next]_vars => [Safe]_vars
    <2> SUFFICES ASSUME AttributesInv, NEW r \in Requests, Patch(r), row = read[r], row' # row
                 PROVE  /\ \A k \in Names : Lower[k] \notin NamedBy(job[r].ops) =>
                             /\ k \in DOMAIN row'.ext <=> k \in DOMAIN row.ext
                             /\ k \in DOMAIN row.ext => row'.ext[k] = row.ext[k]
                        /\ NamedBy(job[r].ops) \cap CorePaths = {} => row'.core = row.core
      OBVIOUS
    <2> DEFINE o == job[r].ops
               m == reg[r]
               u == Patched(row, o, m)
    <2>1. phase[r] = "write" /\ job[r].do = "patch" /\ u # Absent /\ row' = u
      BY DEF Patch, Store
    <2>2. o \in Seq(Operation) /\ row \in Row /\ m \in Lookups /\ GoodLookup(m)
      BY <2>1, PatchInputs
    <2> HIDE DEF o, m
    <2>3. /\ \A k : Lower[k] \notin NamedBy(o) =>
               (k \in DOMAIN u.ext <=> k \in DOMAIN row.ext) /\ (k \in DOMAIN row.ext => u.ext[k] = row.ext[k])
          /\ NamedBy(o) \cap CorePaths = {} => u.core = row.core
      BY <2>1, <2>2, PatchedType
    <2> HIDE DEF u
    <2> QED
      BY <2>1, <2>3 DEF o
  <1> HIDE DEF Safe
  <1>2. Spec => [][Safe]_vars
    BY <1>1, AttributesInvariant, PTL DEF Spec
  <1> QED
    BY <1>2 DEF Safe, UnnamedSurvive
=============================================================================
