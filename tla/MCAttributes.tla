---------------------------- MODULE MCAttributes ----------------------------
(* An instance of Attributes for TLC: an attribute in two spellings, and a   *)
(* core attribute in two spellings with a path into it.                      *)
EXTENDS Attributes, TLC

MCOrder == <<"Name", "Title", "name", "name.givenname", "title">>
MCLower == [n \in {MCOrder[i] : i \in 1..Len(MCOrder)} |->
              CASE n = "Title" -> "title" [] n = "Name" -> "name" [] OTHER -> n]

One(k, v)     == [n \in {k} |-> v]
Two(j, k, v)  == [n \in {j, k} |-> v]
Path(op, k)   == [op |-> op, pathless |-> FALSE, attrs |-> One(k, "w")]
Object(op, b) == [op |-> op, pathless |-> TRUE, attrs |-> b]

\* The user that has a blob has it from an attribute since unregistered.
MCRows == {Absent} \cup [core : {"v"}, ext : {<<>>, One("title", "v")}]

\* Operations on one side, on both, in either order, in another spelling, by a path
\* into the core attribute, bad ones after good ones, with a value that validate
\* refuses, and one without attributes before another.
MCPatches ==
  {<<Object("set", One("name.givenname", "v")), Path("remove", "Name")>>,
   <<Object("set", Two("title", "name", "v")), Path("remove", "Title")>>,
   <<Path("set", "title"), Path("set", "name")>>,
   <<Path("set", "title"), Object("remove", One("title", "v"))>>,
   <<Object("set", <<>>), Path("other", "title")>>}

\* Bodies with one spelling or two, and one that validate refuses.
MCJobs ==
  [do : {"create"}, body : {Two("title", "Name", "v"), Two("title", "name", "w")}]
    \cup [do : {"put"}, body : {[n \in {"Title", "title"} |-> IF n = "Title" THEN "w" ELSE "v"]}]
    \cup [do : {"patch"}, ops : MCPatches]
    \cup [do : {"register"}, name : {"title", "Title", "Name", "name.givenname"}]
    \cup [do : {"unregister"}, name : {"title"}]

Symmetry == Permutations(Requests)
=============================================================================
