---- MODULE Whiteboard ----
(***************************************************************************)
(* NestedWhiteboardDaoJdbc.getJobWhiteboard: the job whiteboard of a show, *)
(* which Cuebot caches for ten seconds.  One caller at a time queries, the *)
(* others wait for the show's lock.  A caller that asks for a fresh answer *)
(* takes a cached one only if its query began after the caller asked.  The *)
(* query is one SELECT: it answers with the farm as it was at its start,   *)
(* however much is committed before the entry is put in the cache.         *)
(* The farm's state is the number of changes committed so far.             *)
(***************************************************************************)
EXTENDS Naturals

CONSTANTS Callers     \* who may have a request for the show's whiteboard open

VARIABLES version,    \* changes the farm has committed
          board,      \* jobCache: the entry's version (0: none) and the callers
                      \*   whose open fresh request is older than its query
          serving,    \* the same callers, of the query that is running
          call        \* the open requests; got is the version a query under
                      \*   way has seen, or the answer's (0: none)

boardVars == <<board, serving, call>>

NoCall == [at |-> "none", fresh |-> FALSE, got |-> 0]

BoardInit ==
    /\ version = 1
    /\ board = [version |-> 0, serves |-> {}]
    /\ serving = {}
    /\ call = [c \in Callers |-> NoCall]

Reading == {c \in Callers : call[c].at = "reading"}    \* who holds the lock

\* The request reaches Cuebot: requestNanos is later than any query so far.
Arrive(c, fresh) ==
    /\ call' = [call EXCEPT ![c] = [at |-> "waiting", fresh |-> fresh, got |-> 0]]
    /\ UNCHANGED <<version, board, serving>>

\* isUsable.  Whether an entry is younger than ten seconds is left open.
Usable(c) ==
    /\ board.version # 0
    /\ call[c].fresh => c \in board.serves

\* The cached answer: on arrival, or once the lock is free again.
Hit(c) ==
    /\ call[c].at = "waiting"
    /\ Usable(c)
    /\ call[c].fresh => Reading = {}
    /\ call' = [call EXCEPT ![c].at = "answered", ![c].got = board.version]
    /\ UNCHANGED <<version, board, serving>>

\* With the lock, and no usable entry, the caller starts the query, which sees
\* the farm as it is now, and serves who has asked by now.
StartQuery(c) ==
    /\ call[c].at = "waiting"
    /\ Reading = {}
    /\ call[c].fresh => ~ Usable(c)
    /\ call' = [call EXCEPT ![c].at = "reading", ![c].got = version]
    /\ serving' = {d \in Callers \ {c} : call[d].at = "waiting" /\ call[d].fresh}
    /\ UNCHANGED <<version, board>>

\* Mutant: queryStartNanos is taken when the query is over.
FinishQueryLate(c) ==
    /\ call[c].at = "reading"
    /\ board' = [version |-> call[c].got,
                 serves |-> {d \in Callers : call[d].at = "waiting" /\ call[d].fresh}]
    /\ call' = [call EXCEPT ![c].at = "answered"]
    /\ UNCHANGED <<version, serving>>

\* The query is over: what it saw replaces the entry before.
FinishQuery(c) ==
    /\ call[c].at = "reading"
    /\ board' = [version |-> call[c].got, serves |-> serving]
    /\ call' = [call EXCEPT ![c].at = "answered"]
    /\ UNCHANGED <<version, serving>>

\* The call breaks; a query it was running gives the lock back.
Breaks(c) ==
    /\ call[c].at \in {"waiting", "reading"}
    /\ call' = [call EXCEPT ![c].at = "answered", ![c].got = 0]
    /\ UNCHANGED <<version, board, serving>>

\* The caller has read the answer: its request is open no longer.
Close(c) ==
    /\ call[c].at = "answered"
    /\ call' = [call EXCEPT ![c] = NoCall]
    /\ board' = [board EXCEPT !.serves = @ \ {c}]
    /\ serving' = serving \ {c}

Serve(c) == Hit(c) \/ StartQuery(c) \/ FinishQuery(c)
====
