----------------------------- MODULE MCEventLoop -----------------------------
(***************************************************************************)
(* Instances of EventLoop for TLC.                                         *)
(***************************************************************************)
EXTENDS EventLoop, TLC

LoopSymmetry == Permutations(Consumers) \cup Permutations(TopicPartitions)

=============================================================================
