----------------------------- MODULE MCRqdHost ------------------------------
(* Launches of a small host for TLC.  Cores are told apart by name only. *)
EXTENDS RqdHost, TLC

CONSTANTS r1, r2, r3, f1, f2

Ask(f, cores, threadable, gpus) ==
    [frame |-> f, cores |-> cores, threadable |-> threadable, gpus |-> gpus,
     ignoreNimby |-> FALSE]

SymCores == Permutations(Physical)

AskedOf(farm) == [r \in Runs |-> farm[r]]

\* A pinned frame, a plain one with a GPU, and the first frame once more.
SmallFarm == AskedOf(
    (r1 :> Ask(f1, 2, TRUE, 0)) @@ (r2 :> Ask(f2, 2, FALSE, 1))
      @@ (r3 :> Ask(f1, 1, FALSE, 1)))

\* A pinned frame, a plain one, and a frame pinned to every core.
PinnedFarm == AskedOf(
    (r1 :> Ask(f1, 2, TRUE, 0)) @@ (r2 :> Ask(f2, 2, FALSE, 0))
      @@ (r3 :> Ask(f2, 4, TRUE, 0)))
=============================================================================
