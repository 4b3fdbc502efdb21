------------------------------- MODULE MCChatTask -------------------------------
(* Instances of ChatTask for TLC.                                          *)
EXTENDS ChatTask, TLC

MCSymmetry == Permutations(Requests) \union Permutations(Threads)
==============================================================================
