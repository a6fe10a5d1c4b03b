--------------------------- MODULE MCMaestroCommit ---------------------------
(* Instances of MaestroCommit for TLC. *)
EXTENDS MaestroCommit, TLC

Sym ==
    Permutations(Cuebots) \cup Permutations(Hosts)
        \cup Permutations(Frames \ Rejected)
=============================================================================
