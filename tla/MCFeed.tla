-------------------------------- MODULE MCFeed --------------------------------
(* Instances of Feed for TLC.                                              *)
EXTENDS Feed

OneSource == {FeedItems}
EveryItem == {FeedItems \cup AppendItems}

PollerSymmetry == Permutations(Pollers)
ConsumerSymmetry == Permutations(Consumers)
=============================================================================
