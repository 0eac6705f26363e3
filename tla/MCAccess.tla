------------------------------ MODULE MCAccess ------------------------------
(* An instance of Access for TLC. *)
EXTENDS Access, TLC

CONSTANTS t1, t2, n1, n2, k1, k2, c1, c2

Row0(t, e) == [tenant |-> t, expires |-> e, revoked |-> FALSE, used |-> FALSE]

MCTenants == t1 :> n1 @@ t2 :> Absent
MCTokens  == k1 :> Row0(t1, 1) @@ k2 :> Absent @@ c1 :> Row0(System, Never) @@ c2 :> Absent

Calls(k, g, p) == [via |-> "scim", key |-> k, good |-> g, path |-> p]

MCTasks == {[do |-> "tenant", name |-> n2], [do |-> "issue", tenant |-> t1, expires |-> Never],
            [do |-> "revoke", key |-> k1]}

\* Good and bad calls of one token, calls with the other listener's token, and
\* the administrative changes that concern it.
MCJobs ==
  {Calls(k1, TRUE, t1), Calls(k1, FALSE, t1), Calls(k1, TRUE, t2), Calls(k2, TRUE, t1),
   Calls(c1, TRUE, t1)}
    \cup [via : {"console"}, key : {c1}, good : {TRUE}, task : MCTasks]
    \cup [via : {"console"}, key : {k1}, good : {TRUE}, task : {[do |-> "revoke", key |-> k1]}]
    \cup [via : {"cli"}, task : {[do |-> "issue", tenant |-> t2, expires |-> Never],
                                 [do |-> "issue", tenant |-> System, expires |-> 1],
                                 [do |-> "revoke", key |-> k1], [do |-> "revoke", key |-> k2],
                                 [do |-> "revoke", key |-> c1],
                                 [do |-> "tenant", name |-> n1]}]

Symmetry == Permutations(Requests)
=============================================================================
