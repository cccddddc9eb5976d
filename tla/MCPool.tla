------------------------------- MODULE MCPool -------------------------------
(* Instances of Pool for TLC: pages of 64 bytes hold two blocks of the     *)
(* smaller class or one of the larger.                                     *)
EXTENDS Pool, TLC

TwoClasses == <<32, 64>>

(* Threads are interchangeable. *)
ThreadSymmetry == Permutations(Thread)

=============================================================================
