---------------------------- MODULE MCJobManager ----------------------------
(* TLC's instances of JobManager. *)
EXTENDS JobManager, TLC

\* No property distinguishes two jobs that are both polled, or both not polled.
JobSymmetry == Permutations(Polled) \cup Permutations(Jobs \ Polled)
=============================================================================
