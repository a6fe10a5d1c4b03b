---- MODULE MCTreeRefresh ----
EXTENDS TreeRefresh
CONSTANTS p, g, g2, o
ByKind == [t \in Trees |-> IF t \in Plain THEN p ELSE g]
====
