------------------------------ MODULE MCReads ------------------------------
(* Listing and the calls of Algorithms, side by side: neither knows of the   *)
(* other, and a behaviour is about one of them.                              *)
EXTENDS Listing, Algorithms

MCCounts == {Missing, -1, 1, 3}
MCFirsts == {Missing, -1, 1}

Init == ListingInit /\ AlgorithmsInit

Next ==
  \/ ListingNext /\ input.fn = "none" /\ UNCHANGED input
  \/ Call /\ listing = <<0, {}, {}, "idle", 1, 0, <<>>, {}>> /\ UNCHANGED listing

Spec == Init /\ [][Next]_<<listing, input>>
=============================================================================
