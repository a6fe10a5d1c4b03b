---- MODULE WorkPool ----
(***************************************************************************)
(* cuegui/ThreadPool.py: the pool of worker threads that CueGUI's tables   *)
(* fetch their data with.  The GUI thread queues tasks, a worker takes the *)
(* oldest one, runs it and hands it over in `done`, and the GUI thread     *)
(* runs the callbacks in that order.  The workers are interchangeable, so  *)
(* the model keeps the set of the tasks being run and not who runs them.   *)
(***************************************************************************)
EXTENDS Naturals, Sequences, FiniteSets

CONSTANTS Workers,    \* how many worker threads the pool has (Main.py: 3)
          MaxQueue,   \* __max_queue: a longer queue refuses tasks
          Failed      \* what work that raised has for a result

VARIABLES queue,      \* _q_queue
          running,    \* jobs between the pop and the append to _done
          done        \* _done: finished jobs the GUI thread has not collected

poolVars == <<queue, running, done>>

PoolInit == queue = <<>> /\ running = {} /\ done = <<>>

\* Offer without the skip of what is queued already.
OfferTwice(q, task) ==
    IF Len(q) <= MaxQueue THEN Append(q, task) ELSE q

\* queue(): the queue after a task is offered.  A task is refused when the
\* queue is over its length, and skipped when its comment is queued already;
\* the caller is told neither.
Offer(q, task) ==
    IF Len(q) <= MaxQueue /\ \A i \in DOMAIN q : q[i].comment # task.comment
    THEN Append(q, task) ELSE q

\* WorkerThread.run: an idle worker pops the oldest task.
Pop ==
    /\ queue # <<>>
    /\ Cardinality(running) < Workers
    /\ running' = running \cup {[task |-> Head(queue), at |-> "start", got |-> 0]}
    /\ queue' = Tail(queue)
    /\ UNCHANGED done

\* A job goes from one point of its work to the next.
Moves(job, at, got) ==
    running' = (running \ {job}) \cup {[job EXCEPT !.at = at, !.got = got]}

\* The worker appends the finished job to _done and is idle again.
HandOver(job) ==
    /\ job.at = "end"
    /\ running' = running \ {job}
    /\ done' = Append(done, job)
    /\ UNCHANGED queue
====
