----------------------------- MODULE MCFrameRun -----------------------------
(* Instances of FrameRun for TLC. *)
EXTENDS FrameRun, TLC

\* Bookings and hosts are interchangeable (safety runs only).
Sym == Permutations(Procs) \cup Permutations(Hosts)
=============================================================================
