----------------------------- MODULE Algorithms -----------------------------
(***************************************************************************)
(* Pure functions of the program, each next to what it should compute:     *)
(* backoff of internal/webhook/dispatcher.go, and maxCluster and Detect of *)
(* internal/aria/aria.go. The state is the input of one call.              *)
(***************************************************************************)
EXTENDS Integers, Sequences, FiniteSets, Functions

CONSTANTS
  Width,     \* bits of a time.Duration
  Bases, Caps, MaxAttempt,      \* inputs of backoff
  Actors, Times, MaxEntries,    \* inputs of Detect: audit logs up to this length
  BulkWindow, BulkCount, DenialCount, VolumeCount,
  Day, DayStart, DayEnd, Zone   \* the length of a day, its working hours, and an offset

\* 2^n, as a recursive function.
Pow2[n \in Nat] == IF n = 0 THEN 1 ELSE 2 * Pow2[n - 1]

\* The caps are those that leave room for one more doubling and for the jitter.
ASSUME AlgorithmsAssumption ==
  /\ Width \in Nat \ {0} /\ MaxAttempt \in Nat
  /\ \A b \in Bases : b \in 1..(Pow2[Width - 1] - 1)
  /\ \A c \in Caps : c \in Nat \ {0} /\ 2 * c <= Pow2[Width - 1]
  /\ BulkCount \in Nat \ {0} /\ DenialCount \in Nat \ {0} /\ VolumeCount \in Nat \ {0}
  /\ Actors \subseteq Int /\ Times \subseteq Int /\ MaxEntries \in Nat /\ BulkWindow \in Nat
  /\ Day \in Nat \ {0} /\ Zone \in 0..(Day - 1)

VARIABLE input

Entry == [actor : Actors, at : Times, action : {"update", "deactivate"}, denied : BOOLEAN]

Calls ==
  [fn : {"backoff"}, base : Bases, cap : Caps, attempts : 1..MaxAttempt]
    \cup [fn : {"detect"}, log : UNION {[1..n -> Entry] : n \in 0..MaxEntries}]

AlgorithmsInit == input = [fn |-> "none"]

Call == input.fn = "none" /\ input' \in Calls

AlgorithmsSpec == AlgorithmsInit /\ [][Call]_input

-----------------------------------------------------------------------------
(* dispatcher.go *)

\* Two's complement in Width bits.
Wrap(x) == ((x + Pow2[Width - 1]) % Pow2[Width]) - Pow2[Width - 1]

Smaller(a, b) == IF a <= b THEN a ELSE b

\* Mutant: shift by the number of attempts, then clamp.
ShiftAndClamp(base, cap, attempts) == Smaller(Wrap(base * Pow2[attempts - 1]), cap)

\* The loop: what is waited after n rounds, each of which doubles it unless it has
\* reached the cap.
Doublings(base, cap, n) ==
  LET wait[i \in 0..n] == IF i = 0 THEN base
                          ELSE IF wait[i - 1] < cap THEN Wrap(2 * wait[i - 1]) ELSE wait[i - 1]
  IN  wait

\* The wait before the jitter.
Wait(base, cap, attempts) == Smaller(Doublings(base, cap, attempts - 1)[attempts - 1], cap)

\* rand.N(wait/5 + 1): what backoff may return.
backoff(base, cap, attempts) ==
  LET wait == Wait(base, cap, attempts) IN {Wrap(wait + j) : j \in 0..(wait \div 5)}

\* "doubles from BaseBackoff and caps at MaxBackoff, with up to 20% jitter"
\* (dispatcher.go:372), for every base however large and every number of
\* attempts: no wait is negative, which would be a retry in the past.
BackoffIsCappedDoubling ==
  input.fn = "backoff" =>
    LET exact == Smaller(input.base * Pow2[input.attempts - 1], input.cap)
    IN  /\ backoff(input.base, input.cap, input.attempts) # {}
        /\ \A d \in backoff(input.base, input.cap, input.attempts) :
             exact <= d /\ 5 * d <= 6 * exact

-----------------------------------------------------------------------------
(* aria.go *)

\* sort.Slice: the elements of S in the order R, a set of pairs. An element has
\* the place that counts how many come no later.
Arranged(S, R) ==
  [i \in 1..Cardinality(S) |-> CHOOSE x \in S : Cardinality({y \in S : <<y, x>> \in R}) = i]

\* Mutant: the times are taken in the order they come.
AsGiven(times) == {p \in (DOMAIN times) \X (DOMAIN times) : p[1] <= p[2]}

\* sorted[i].Before(sorted[j]). Equal times cannot be told apart once they are
\* sorted, so it does not matter which comes first.
Precedes(times) ==
  {p \in (DOMAIN times) \X (DOMAIN times) :
     times[p[1]] < times[p[2]] \/ (times[p[1]] = times[p[2]] /\ p[1] <= p[2])}

Sorted(times) ==
  [i \in 1..Cardinality(DOMAIN times) |-> times[Arranged(DOMAIN times, Precedes(times))[i]]]

\* Mutant: the window excludes its last instant.
SpanShort(s, i, j) == s[i] - s[j] >= BulkWindow

\* sorted[i].Sub(sorted[j]) > window
Span(s, i, j) == s[i] - s[j] > BulkWindow

\* The inner loop: j moves up to the first time that is not too far from the i-th.
First(s, i, j) == CHOOSE k \in j..i : ~Span(s, i, k) /\ \A l \in j..(k - 1) : Span(s, i, l)

\* One round of the outer loop: the run that ends at i is kept if it is longer.
Longer(s, i, run) ==
  LET j == First(s, i, run.j)
  IN  IF i - j + 1 > run.best
        THEN [j |-> j, best |-> i - j + 1, from |-> s[j], to |-> s[i]]
        ELSE [j |-> j, best |-> run.best, from |-> run.from, to |-> run.to]

NoRun == [j |-> 1, best |-> 0, from |-> 0, to |-> 0]

\* The first n rounds of the outer loop.
Runs(s, n) == LET run[i \in 0..n] == IF i = 0 THEN NoRun ELSE Longer(s, i, run[i - 1]) IN run

Run(s) == Runs(s, Len(s))[Len(s)]

\* A number without a window.
Just(n) == [count |-> n, from |-> 0, to |-> 0]

\* times is a function from any finite set of numbers to times.
maxCluster(times) ==
  LET run == Run(Sorted(times))
  IN  IF Cardinality(DOMAIN times) < BulkCount \/ run.best < BulkCount THEN Just(0)
      ELSE [count |-> run.best, from |-> run.from, to |-> run.to]

\* A day is a working day unless it is the sixth or seventh of its week.
isOffHours(t) ==
  LET d == ((t + Zone) \div Day) % 7
      h == (t + Zone) % Day
  IN  d \in {5, 6} \/ h < DayStart \/ h >= DayEnd

\* The tally of a caller: its entries, by their numbers in the log.
Mine(log, a)    == {n \in DOMAIN log : log[n].actor = a}
Denials(log, a) == {n \in Mine(log, a) : log[n].denied}
Bulk(log, a)    == [n \in {m \in Mine(log, a) : log[m].action = "deactivate"} |-> log[n].at]
OffHours(log)   == {n \in DOMAIN log : isOffHours(log[n].at)}

Callers(log) == {log[n].actor : n \in DOMAIN log}

\* The order of the callers: busiest first, then by name.
BusierThan(log) ==
  {p \in Actors \X Actors :
     LET m == Cardinality(Mine(log, p[1]))
         n == Cardinality(Mine(log, p[2]))
     IN  m > n \/ (m = n /\ p[1] <= p[2])}

\* One flag for each caller that reaches the threshold, in the order of the callers.
FlagEach(log, kind, found, threshold) ==
  LET C == {a \in Callers(log) : found[a].count >= threshold}
  IN  [k \in 1..Cardinality(C) |->
         LET a == Arranged(C, BusierThan(log))[k] IN [kind |-> kind, actor |-> a, found |-> found[a]]]

\* Detect: the flags, most severe kind first, without the examples they carry.
Detect(log) ==
  FlagEach(log, "bulk", [a \in Actors |-> maxCluster(Bulk(log, a))], BulkCount)
    \o FlagEach(log, "denials", [a \in Actors |-> Just(Cardinality(Denials(log, a)))], DenialCount)
    \o (IF OffHours(log) # {}
          THEN <<[kind |-> "off_hours", actor |-> 0, found |-> Just(Cardinality(OffHours(log)))]>>
          ELSE <<>>)
    \o FlagEach(log, "volume", [a \in Actors |-> Just(Cardinality(Mine(log, a)))], VolumeCount)

\* The number of times from one instant to another.
Between(times, from, to) == Cardinality({n \in DOMAIN times : from <= times[n] /\ times[n] <= to})

\* "the densest run of times within window" (aria.go:198): for every caller, no
\* window of this length holds more of its deactivations than the cluster that
\* is reported, none holds enough of them if no cluster is, and the reported
\* bounds are no further apart than the window and around exactly that many,
\* entries at the same instant and exactly a window apart included, in whatever
\* order they come.
ClusterIsDensest ==
  input.fn = "detect" => \A a \in Actors :
    LET times == Bulk(input.log, a)
        c     == maxCluster(times)
    IN  /\ \A t \in Times : LET n == Between(times, t, t + BulkWindow)
                            IN  n <= c.count \/ (c.count = 0 /\ n < BulkCount)
        /\ c.count > 0 => /\ c.count >= BulkCount /\ c.to - c.from <= BulkWindow
                          /\ c.count = Between(times, c.from, c.to)

\* "entries may be in any order" (aria.go:94): however the entries of a log are
\* rearranged, the same callers are flagged in the same order, with the same
\* figures and windows.
OrderIsIrrelevant ==
  input.fn = "detect" =>
    LET flags == Detect(input.log)
    IN  \A p \in Bijection(DOMAIN input.log, DOMAIN input.log) :
          Detect([n \in DOMAIN input.log |-> input.log[p[n]]]) = flags
=============================================================================
