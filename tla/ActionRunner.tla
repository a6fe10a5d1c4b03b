---- MODULE ActionRunner ----
(***************************************************************************)
(* cuegui/ActionRunner.py: what the user does to the farm runs on one      *)
(* thread, in the order it was submitted, and the GUI thread then runs the *)
(* callback.  On exit the GUI thread waits a while for the work submitted  *)
(* so far.  An action carries its number in the order of submission.       *)
(***************************************************************************)
EXTENDS Naturals, Sequences

VARIABLES pending,    \* __pending: actions, and the None of shutdown
          acting,     \* the action in the runner's hands, NoAction or Ended
          acted,      \* __done: actions whose callback is to run
          gui,        \* the application: up, closing (in join) or gone
          submitted,  \* how many actions were submitted
          ran,        \* the numbers of the actions, in the order they ran
          timedOut    \* the exit did not wait for the work to end

runnerVars == <<pending, acting, acted>>

NoAction == [id |-> 0, of |-> "none"]
Ended == [id |-> 0, of |-> "ended"]
Poison == [id |-> 0, of |-> "exit"]       \* the None that ends the thread

RunnerInit ==
    /\ pending = <<>> /\ acting = NoAction /\ acted = <<>>
    /\ gui = "up" /\ submitted = 0 /\ ran = <<>> /\ timedOut = FALSE

\* submit(): refused once shutdown has begun.
Submit(t) ==
    /\ gui = "up"
    /\ pending' = Append(pending, [id |-> submitted + 1, of |-> t])
    /\ submitted' = submitted + 1
    /\ UNCHANGED <<acting, acted, gui, ran, timedOut>>

\* Take of the newest action.
TakeNewest ==
    /\ acting = NoAction
    /\ pending # <<>> /\ pending[Len(pending)] # Poison
    /\ acting' = pending[Len(pending)]
    /\ pending' = SubSeq(pending, 1, Len(pending) - 1)
    /\ ran' = Append(ran, acting'.id)
    /\ UNCHANGED <<acted, gui, submitted, timedOut>>

\* __run: the thread takes the next action and makes its calls to Cuebot.
Take ==
    /\ acting = NoAction
    /\ pending # <<>> /\ Head(pending) # Poison
    /\ acting' = Head(pending)
    /\ pending' = Tail(pending)
    /\ ran' = Append(ran, Head(pending).id)
    /\ UNCHANGED <<acted, gui, submitted, timedOut>>

\* The calls are over, whether they failed or not: the callback is handed over.
Report ==
    /\ acting \notin {NoAction, Ended}
    /\ acted' = Append(acted, acting)
    /\ acting' = NoAction
    /\ UNCHANGED <<pending, gui, submitted, ran, timedOut>>

TakePoison ==
    /\ acting = NoAction
    /\ pending # <<>> /\ Head(pending) = Poison
    /\ acting' = Ended
    /\ pending' = Tail(pending)
    /\ UNCHANGED <<acted, gui, submitted, ran, timedOut>>

\* Shutdown with the None put ahead of the work queued so far.
ShutdownFirst ==
    /\ gui = "up"
    /\ gui' = "closing"
    /\ pending' = <<Poison>> \o pending
    /\ UNCHANGED <<acting, acted, submitted, ran, timedOut>>

\* closingTime -> shutdown(): no callback and no submission from here on.
Shutdown ==
    /\ gui = "up"
    /\ gui' = "closing"
    /\ pending' = Append(pending, Poison)
    /\ UNCHANGED <<acting, acted, submitted, ran, timedOut>>

\* join(timeout) returns, the application exits and takes its threads along.
Exit ==
    /\ gui = "closing"
    /\ gui' = "gone"
    /\ timedOut' = (acting # Ended)
    /\ UNCHANGED <<pending, acting, acted, submitted, ran>>
====
