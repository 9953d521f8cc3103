----------------------------- MODULE MCManager ------------------------------
(* Manager on a small instance: see the .cfg files for the sets.           *)
EXTENDS Manager, TLC

\* Requests are interchangeable, and so are users.
Symmetry == Permutations(Requests) \cup Permutations(Mxids)
=============================================================================
