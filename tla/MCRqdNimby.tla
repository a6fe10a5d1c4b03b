----------------------------- MODULE MCRqdNimby -----------------------------
(* One launch on a small desktop for TLC. *)
EXTENDS RqdNimby, TLC

CONSTANTS r1, f1

PlainFrame ==
    [r \in Runs |-> [frame |-> f1, cores |-> 2, threadable |-> FALSE,
                     gpus |-> 1, ignoreNimby |-> FALSE]]
=============================================================================
