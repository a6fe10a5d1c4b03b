----------------------------- MODULE MCDepends ------------------------------
(* Instances of Depends for TLC. *)
EXTENDS Depends

CONSTANTS a1, a2, b1, aOnB, anyA, late

LayerA == {a1, a2}
FarmLayers == {LayerA, {b1}}

\* A job spec makes b wait for the whole of layer A, or for any frame of it,
\* or a2 for a1; users may add what it left out.
FarmRow ==
    [d \in Deps |->
       CASE d = aOnB -> [type |-> "LAYER_ON_LAYER", any |-> FALSE,
                         er |-> {b1}, on |-> LayerA]
         [] d = anyA -> [type |-> "LAYER_ON_LAYER", any |-> TRUE,
                         er |-> {b1}, on |-> LayerA]
         [] d = late -> [type |-> "FRAME_ON_FRAME", any |-> FALSE,
                         er |-> {a2}, on |-> {a1}]]

\* The run of b1 outlasts every behaviour.
FarmOutcomes ==
    [f \in Frames |-> CASE f = a1 -> {"SUCCEEDED"}
                        [] f = a2 -> {"SUCCEEDED", "DEAD"}
                        [] f = b1 -> {}]
=============================================================================
