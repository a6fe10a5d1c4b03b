---- MODULE TreeRefresh ----
(***************************************************************************)
(* CueGUI's tables: how they fetch what they show, and how what the user   *)
(* does to the farm reaches them.  A plain table (AbstractTreeWidget.py)   *)
(* numbers its fetches and drops an answer older than the one it shows.  A *)
(* guarded one (CueJobMonitorTree.py) has one fetch in flight at a time    *)
(* and puts a forced one off until that has landed; it asks Cuebot for the *)
(* job whiteboard, which Cuebot caches.  Both fetch on the WorkPool, and   *)
(* the user's actions run on the ActionRunner (MenuActions._runAction).    *)
(***************************************************************************)
EXTENDS WorkPool, ActionRunner, Whiteboard

CONSTANTS Plain, Guarded,     \* the open tables
          ClassOf,            \* the class of each, which names its fetches
          Elsewhere,          \* other CueGUIs that ask for the same whiteboard
          MaxActions, MaxTicks, MaxTurns

Trees == Plain \cup Guarded

ASSUME TablesAssumption ==
    /\ Plain \cap Guarded = {} /\ Trees \cap Elsewhere = {}
    /\ Callers = Guarded \cup Elsewhere
    /\ Workers \in Nat \ {0} /\ MaxQueue \in Nat
    /\ {MaxActions, MaxTicks, MaxTurns} \subseteq Nat

VARIABLES tree,       \* the state of each table
          left,       \* what the environment may still do
          wanted,     \* history: the farm's state after the table's last action
          excused     \* history: a fetch of the table failed since

treeVars == <<queue, running, done, pending, acting, acted, gui, submitted, ran,
              timedOut, version, board, serving, call, tree, left, wanted, excused>>

Spend(what) == left[what] > 0 /\ left' = [left EXCEPT ![what] = @ - 1]

Task(t, seq, fresh) == [of |-> t, comment |-> ClassOf[t], seq |-> seq, fresh |-> fresh]

NewTree == [seq |-> 0, applied |-> 0, inFlight |-> FALSE, forced |-> FALSE,
            fresh |-> FALSE, timers |-> 0, shown |-> 0]

TreeInit ==
    /\ PoolInit /\ RunnerInit /\ BoardInit
    /\ tree = [t \in Trees |-> NewTree]
    /\ left = [actions |-> MaxActions, ticks |-> MaxTicks, turns |-> MaxTurns]
    /\ wanted = [t \in Trees |-> 0]
    /\ excused = [t \in Trees |-> FALSE]
----
(* The fetch a table asks for: its next state and the queue's.             *)

Asked(t, s, q, fresh) ==
    IF t \in Plain
    THEN <<[s EXCEPT !.seq = @ + 1], Offer(q, Task(t, s.seq + 1, FALSE))>>
    ELSE IF s.inFlight THEN <<s, q>>
    ELSE <<[s EXCEPT !.inFlight = TRUE], Offer(q, Task(t, 0, fresh))>>

\* forceUpdate: a guarded table remembers it while a fetch is in flight.
Forced(t, s, q, fresh) ==
    IF t \in Guarded /\ s.inFlight
    THEN <<[s EXCEPT !.forced = TRUE, !.fresh = @ \/ fresh], q>>
    ELSE Asked(t, s, q, fresh)

\* Landed without the None of a failed fetch: its callback does not run.
LandedIfGot(t, s, q, job) ==
    IF job.got = Failed \/ (t \in Plain /\ job.task.seq < s.applied) THEN <<s, q>>
    ELSE IF t \in Plain
    THEN <<[s EXCEPT !.applied = job.task.seq, !.shown = job.got], q>>
    ELSE LET shows == [s EXCEPT !.shown = job.got, !.inFlight = FALSE,
                                !.forced = FALSE, !.fresh = FALSE]
         IN  IF s.forced THEN Forced(t, shows, q, s.fresh) ELSE <<shows, q>>

\* The callback of a finished job.  A plain table gets none when the work
\* raised; a guarded one's work returns None instead.
Landed(t, s, q, job) ==
    IF t \in Plain
    THEN IF job.got = Failed \/ job.task.seq < s.applied THEN <<s, q>>
         ELSE <<[s EXCEPT !.applied = job.task.seq, !.shown = job.got], q>>
    ELSE LET shows == [s EXCEPT !.shown = IF job.got = Failed THEN @ ELSE job.got,
                                !.inFlight = FALSE, !.forced = FALSE, !.fresh = FALSE]
         IN  IF s.forced THEN Forced(t, shows, q, s.fresh) ELSE <<shows, q>>

Becomes(t, new) ==
    /\ tree' = [tree EXCEPT ![t] = new[1]]
    /\ queue' = new[2]
----
(* The GUI thread.                                                         *)

GuiOnly == UNCHANGED <<running, acting, gui, ran, timedOut, version, board,
                       serving, call, wanted, excused>>

\* The periodic timer, or the broadcast refresh.
Tick(t) ==
    /\ gui = "up" /\ Spend("ticks")
    /\ Becomes(t, Asked(t, tree[t], queue, FALSE))
    /\ GuiOnly /\ UNCHANGED <<done, pending, acted, submitted>>

\* The user changes the shows a guarded table monitors.
PickShows(t) ==
    /\ t \in Guarded
    /\ gui = "up" /\ Spend("ticks")
    /\ Becomes(t, Forced(t, tree[t], queue, FALSE))
    /\ GuiOnly /\ UNCHANGED <<done, pending, acted, submitted>>

\* The user picks an action in the table's menu.
Choose(t) ==
    /\ Spend("actions")
    /\ Submit(t)
    /\ UNCHANGED <<queue, running, done, version, board, serving, call, tree, wanted, excused>>

\* _runAction's done(): the table is to be updated soon.
Acted ==
    /\ gui = "up"
    /\ acted # <<>>
    /\ acted' = Tail(acted)
    /\ tree' = [tree EXCEPT ![Head(acted).of].timers = @ + 1]
    /\ GuiOnly /\ UNCHANGED <<queue, done, pending, submitted, left>>

\* updateSoon's timer has run down: forceUpdate, fresh as it is by default.
TimerFires(t) ==
    /\ gui = "up"
    /\ tree[t].timers > 0
    /\ Becomes(t, Forced(t, [tree[t] EXCEPT !.timers = @ - 1], queue, TRUE))
    /\ GuiOnly /\ UNCHANGED <<done, pending, acted, submitted, left>>

\* ThreadPool.__deliver: the callback of the job finished first.
Deliver ==
    /\ gui = "up"
    /\ done # <<>>
    /\ done' = Tail(done)
    /\ LET job == Head(done)
       IN  Becomes(job.task.of, Landed(job.task.of, tree[job.task.of], queue, job))
    /\ GuiOnly /\ UNCHANGED <<pending, acted, submitted, left>>

\* The user closes the application.
Quit == Shutdown /\ UNCHANGED <<poolVars, version, boardVars, tree, left, wanted, excused>>
Leave == Exit /\ UNCHANGED <<poolVars, version, boardVars, tree, left, wanted, excused>>
----
(* The worker threads of the pool.  Once the application closes nobody     *)
(* collects what they fetch, so the model lets them rest, and Cuebot too.  *)

PoolOnly ==
    /\ gui = "up"
    /\ UNCHANGED <<pending, acting, acted, gui, submitted, ran, timedOut, tree, wanted>>

PopTask ==
    /\ Pop
    /\ PoolOnly /\ UNCHANGED <<version, boardVars, left, excused>>

\* A plain table's _getUpdate: one call to Cuebot.
Fetch(job) ==
    /\ job.task.of \in Plain /\ job.at = "start"
    /\ Moves(job, "end", version)
    /\ PoolOnly /\ UNCHANGED <<queue, done, version, boardVars, left, excused>>

\* It fails: it raises, or answers with an empty list (0).
FetchFails(job) ==
    /\ job.task.of \in Plain /\ job.at = "start"
    /\ Spend("turns")
    /\ \E got \in {Failed, 0} : Moves(job, "end", got)
    /\ excused' = [excused EXCEPT ![job.task.of] = TRUE]
    /\ PoolOnly /\ UNCHANGED <<queue, done, version, boardVars>>

\* A guarded table's _getUpdate: getJobWhiteboard is sent, and answered.
AskBoard(job) ==
    /\ job.task.of \in Guarded /\ job.at = "start"
    /\ call[job.task.of].at = "none"
    /\ Arrive(job.task.of, job.task.fresh)
    /\ Moves(job, "asked", 0)
    /\ PoolOnly /\ UNCHANGED <<queue, done, left, excused>>

GetBoard(job) ==
    /\ job.task.of \in Guarded /\ job.at = "asked"
    /\ Close(job.task.of)
    /\ Moves(job, "end", IF call[job.task.of].got = 0 THEN Failed
                         ELSE call[job.task.of].got)
    /\ PoolOnly /\ UNCHANGED <<queue, done, version, left, excused>>

Finish(job) ==
    /\ HandOver(job)
    /\ PoolOnly /\ UNCHANGED <<version, boardVars, left, excused>>

Works(t) ==
    \E job \in {j \in running : j.task.of = t} :
        Fetch(job) \/ AskBoard(job) \/ GetBoard(job) \/ Finish(job)
----
(* The action runner, Cuebot and the farm.                                 *)

Others == gui # "gone" /\ UNCHANGED <<poolVars, boardVars, tree>>

TakeAction == Take /\ Others /\ UNCHANGED <<version, left, wanted, excused>>
TakeExit == TakePoison /\ Others /\ UNCHANGED <<version, left, wanted, excused>>

\* The action's calls have changed the farm.
Act ==
    /\ Report
    /\ version' = version + 1
    /\ wanted' = [wanted EXCEPT ![acting.of] = version']
    /\ excused' = [excused EXCEPT ![acting.of] = FALSE]
    /\ Others /\ UNCHANGED left

\* They failed: the callback runs all the same.
ActFails ==
    /\ Spend("turns")
    /\ Report
    /\ Others /\ UNCHANGED <<version, wanted, excused>>

RunnerOnly ==
    /\ gui = "up"
    /\ UNCHANGED <<poolVars, runnerVars, gui, submitted, ran, timedOut, tree, wanted>>

\* Cuebot answers a whiteboard request, of a table or of another CueGUI.
Answer(c) == Serve(c) /\ RunnerOnly /\ UNCHANGED <<left, excused>>

AnswerBreaks(c) ==
    /\ Spend("turns")
    /\ Breaks(c)
    /\ excused' = [t \in Trees |-> excused[t] \/ t = c]
    /\ RunnerOnly

\* Another CueGUI polls the board.
Poll(o) ==
    /\ call[o].at = "none"
    /\ Spend("turns")
    /\ Arrive(o, FALSE)
    /\ RunnerOnly /\ UNCHANGED excused

Polled(o) == Close(o) /\ RunnerOnly /\ UNCHANGED <<version, left, excused>>

\* The farm changes by itself.
FarmChanges ==
    /\ Spend("turns")
    /\ version' = version + 1
    /\ RunnerOnly /\ UNCHANGED <<boardVars, excused>>

TreeNext ==
    \/ \E t \in Trees : \/ Tick(t) \/ PickShows(t) \/ Choose(t) \/ TimerFires(t) \/ Works(t)
    \/ Acted \/ Deliver \/ Quit \/ Leave
    \/ PopTask \/ \E job \in running : FetchFails(job)
    \/ TakeAction \/ TakeExit \/ Act \/ ActFails
    \/ \E c \in Callers : Answer(c) \/ AnswerBreaks(c)
    \/ \E o \in Elsewhere : Poll(o) \/ Polled(o)
    \/ FarmChanges

TreeSpec == TreeInit /\ [][TreeNext]_treeVars

\* Threads and timers run; the user, the other CueGUIs and the farm need not.
FairTreeSpec ==
    /\ TreeSpec
    /\ WF_treeVars(PopTask) /\ WF_treeVars(Acted) /\ WF_treeVars(Deliver)
    /\ WF_treeVars(TakeAction \/ TakeExit \/ Act)
    /\ \A t \in Trees : WF_treeVars(TimerFires(t)) /\ WF_treeVars(Works(t))
    /\ \A c \in Callers : WF_treeVars(Answer(c))
----
(* Properties.                                                             *)

Seqs == 0..(MaxActions + MaxTicks)
Versions == 0..(1 + MaxActions + MaxTurns)
Jobs == [task : [of : Trees, comment : {ClassOf[t] : t \in Trees}, seq : Seqs,
                 fresh : BOOLEAN],
         at : {"start", "asked", "end"}, got : Versions \cup {Failed}]

\* Types: the queue holds one task per comment at most, and every job and
\* request is of a table that is open.
TreeTypeOK ==
    /\ \A i, j \in DOMAIN queue : queue[i].comment = queue[j].comment => i = j
    /\ running \subseteq Jobs /\ Cardinality(running) <= Workers
    /\ \A i \in DOMAIN done : done[i] \in Jobs
    /\ call \in [Callers -> [at : {"none", "waiting", "reading", "answered"},
                            fresh : BOOLEAN, got : Versions]]
    /\ Cardinality(Reading) <= 1
    /\ tree \in [Trees -> [seq : Seqs, applied : Seqs, inFlight : BOOLEAN,
                          forced : BOOLEAN, fresh : BOOLEAN,
                          timers : 0..MaxActions, shown : Versions]]

\* The user's actions reach the farm in the order they were submitted, none
\* left out and none twice (ActionRunner.py: a pause followed by a resume
\* must not run in the other order, and a kill must not be dropped).
ActionsInOrder == \A i \in DOMAIN ran : ran[i] = i

\* An exit that did not time out has run every action submitted before it.
QuitRunsAll == gui = "gone" /\ ~ timedOut => Len(ran) = submitted

\* What an action of a table changed is shown in it in the end, whatever fetches
\* were queued, running or cached at the time, an answer of Cuebot that is older
\* than the action among them, unless a fetch of the table fails after the
\* action or the user quits.  It holds while no other table of the class is
\* open: with two of them one table's forced fetch is skipped behind the queued
\* one of the other, and the table waits for its next periodic refresh.
ActionShown ==
    \A t \in Trees :
        tree[t].shown < wanted[t] ~>
            tree[t].shown >= wanted[t] \/ excused[t] \/ gui # "up"

\* A guarded table's fetch in flight lands, so that its refreshes go on.
InFlightEnds ==
    \A t \in Guarded : tree[t].inFlight ~> ~ tree[t].inFlight \/ gui # "up"

\* A plain table never goes back to an older state of the farm.
NeverGoesBack ==
    [][\A t \in Plain : tree'[t].shown = 0 \/ tree'[t].shown >= tree[t].shown]_treeVars
====
