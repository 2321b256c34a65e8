--------------------------- MODULE MCTopicManager ---------------------------
(* Instances of TopicManager for TLC.                                      *)
EXTENDS TopicManager, TLC

\* Goroutines are interchangeable, and so are topics and handles.
Symmetry == Permutations(Goroutines) \cup Permutations(Topics)

=============================================================================
