---- MODULE TreeRefresh_proofs ----
(***************************************************************************)
(* What the user does to the farm reaches it in the order it was submitted *)
(* and an exit that waits it out leaves none of it behind, for every set   *)
(* of tables, every pool and any number of actions.                        *)
(*                                                                         *)
(* Then the types of the tables, the pool and the whiteboard: how often a  *)
(* table asks follows from what the user has done to the farm.             *)
(***************************************************************************)
EXTENDS TreeRefresh, FiniteSetTheorems, TLAPS

Action == [id : Nat, of : Trees \cup {"none", "ended", "exit"}]

RunnerTypes ==
    /\ pending \in Seq(Action)
    /\ acting \in Action
    /\ ran \in Seq(Nat)
    /\ submitted \in Nat
    /\ gui \in {"up", "closing", "gone"}
    /\ timedOut \in BOOLEAN

\* The None of shutdown is behind every action, and only there once the
\* GUI thread has begun to shut down.
PoisonIsLast ==
    \A i \in DOMAIN pending : pending[i] = Poison => i = Len(pending) /\ gui # "up"

\* What waits carries the numbers that follow those of what ran.
WaitsInOrder ==
    \A i \in DOMAIN pending : pending[i] # Poison => pending[i].id = Len(ran) + i

\* Nothing submitted is missing: it ran, or it waits.
NoneMissing ==
    IF acting = Ended THEN pending = <<>> /\ Len(ran) = submitted /\ gui # "up"
    ELSE IF gui = "up" THEN Len(ran) + Len(pending) = submitted
    ELSE Len(ran) + Len(pending) = submitted + 1 /\ pending[Len(pending)] = Poison
            /\ pending # <<>>

GoneWaited == gui = "gone" /\ ~ timedOut => acting = Ended

RunnerInv == RunnerTypes /\ ActionsInOrder /\ PoisonIsLast /\ WaitsInOrder
                /\ NoneMissing /\ GoneWaited

\* The steps that touch what RunnerInv is about.
RunnerRest == UNCHANGED <<pending, acting, ran, submitted, gui, timedOut>>
RunnerStep ==
    \/ RunnerRest
    \/ \E t \in Trees : Submit(t)
    \/ gui # "gone" /\ (Take \/ TakePoison \/ Report)
    \/ Shutdown \/ Exit

\* Every step of the tables, the pool, Cuebot and the farm is one of them.
LEMMA StepIsRunnerStep == [TreeNext]_treeVars => RunnerStep
<1> SUFFICES ASSUME [TreeNext]_treeVars PROVE RunnerStep
  OBVIOUS
<1>1. CASE UNCHANGED treeVars
  BY <1>1 DEF treeVars, RunnerStep, RunnerRest
<1>2. CASE \E t \in Trees : Tick(t) \/ PickShows(t) \/ TimerFires(t)
  BY <1>2 DEF Tick, PickShows, TimerFires, GuiOnly, RunnerStep, RunnerRest
<1>3. CASE \E t \in Trees : Choose(t)
  BY <1>3 DEF Choose, RunnerStep
<1>4. CASE \E t \in Trees : Works(t)
  BY <1>4 DEF Works, Fetch, AskBoard, GetBoard, Finish, PoolOnly, RunnerStep, RunnerRest
<1>5. CASE Acted \/ Deliver
  BY <1>5 DEF Acted, Deliver, GuiOnly, RunnerStep, RunnerRest
<1>6. CASE Quit \/ Leave
  BY <1>6 DEF Quit, Leave, RunnerStep
<1>7. CASE PopTask \/ \E job \in running : FetchFails(job)
  BY <1>7 DEF PopTask, FetchFails, PoolOnly, RunnerStep, RunnerRest
<1>8. CASE TakeAction \/ TakeExit \/ Act \/ ActFails
  BY <1>8 DEF TakeAction, TakeExit, Act, ActFails, Others, RunnerStep
<1>9. CASE \E c \in Callers : Answer(c) \/ AnswerBreaks(c)
  BY <1>9 DEF Answer, AnswerBreaks, RunnerOnly, runnerVars, RunnerStep, RunnerRest
<1>10. CASE \E o \in Elsewhere : Poll(o) \/ Polled(o)
  BY <1>10 DEF Poll, Polled, RunnerOnly, runnerVars, RunnerStep, RunnerRest
<1>11. CASE FarmChanges
  BY <1>11 DEF FarmChanges, RunnerOnly, runnerVars, RunnerStep, RunnerRest
<1> QED
  BY <1>1, <1>2, <1>3, <1>4, <1>5, <1>6, <1>7, <1>8, <1>9, <1>10, <1>11 DEF TreeNext

LEMMA RunnerInvInit == TreeInit => RunnerInv
<1> SUFFICES ASSUME TreeInit PROVE RunnerInv
  OBVIOUS
<1>1. /\ pending = <<>> /\ acting = NoAction /\ gui = "up" /\ submitted = 0
      /\ ran = <<>> /\ timedOut = FALSE
  BY DEF TreeInit, RunnerInit
<1>2. NoAction \in Action /\ NoAction # Ended
  BY DEF NoAction, Action, Ended
<1>3. RunnerTypes
  <2>1. pending \in Seq(Action) /\ ran \in Seq(Nat)
    BY <1>1
  <2>2. submitted \in Nat /\ acting \in Action
    BY <1>1, <1>2
  <2> QED
    BY <1>1, <2>1, <2>2 DEF RunnerTypes
<1>4. ActionsInOrder /\ PoisonIsLast /\ WaitsInOrder
  BY <1>1 DEF ActionsInOrder, PoisonIsLast, WaitsInOrder
<1>5. NoneMissing /\ GoneWaited
  BY <1>1, <1>2 DEF NoneMissing, GoneWaited
<1> QED
  BY <1>3, <1>4, <1>5 DEF RunnerInv

LEMMA SubmitKeeps ==
    ASSUME RunnerInv, NEW t \in Trees, Submit(t) PROVE RunnerInv'
<1> DEFINE new == [id |-> submitted + 1, of |-> t]
<1> USE DEF RunnerInv, RunnerTypes
<1>1. /\ pending' = Append(pending, new) /\ submitted' = submitted + 1
      /\ gui = "up" /\ UNCHANGED <<acting, gui, ran, timedOut>>
  BY DEF Submit
<1>2. new \in Action /\ new # Poison
  BY DEF Action, Poison
<1>3. /\ Len(pending') = Len(pending) + 1
      /\ \A i \in DOMAIN pending' : pending'[i] = IF i <= Len(pending) THEN pending[i] ELSE new
      /\ \A i \in DOMAIN pending' : i <= Len(pending) => i \in DOMAIN pending
  BY <1>1, <1>2
<1>4. RunnerTypes'
  BY <1>1, <1>2
<1>5. ActionsInOrder' /\ GoneWaited'
  BY <1>1 DEF ActionsInOrder, GoneWaited
<1>6. acting # Ended /\ Len(ran) + Len(pending) = submitted
  BY <1>1 DEF NoneMissing
<1>7. PoisonIsLast'
  BY <1>1, <1>2, <1>3 DEF PoisonIsLast
<1>8. WaitsInOrder'
  <2> SUFFICES ASSUME NEW i \in DOMAIN pending', pending'[i] # Poison
               PROVE pending'[i].id = Len(ran) + i
    BY <1>1 DEF WaitsInOrder
  <2>1. CASE i <= Len(pending)
    BY <2>1, <1>3 DEF WaitsInOrder
  <2>2. CASE i = Len(pending) + 1
    BY <2>2, <1>3, <1>6
  <2> QED
    BY <2>1, <2>2, <1>3, <1>4
<1>9. NoneMissing'
  BY <1>1, <1>3, <1>6 DEF NoneMissing
<1> QED
  BY <1>4, <1>5, <1>7, <1>8, <1>9

\* What a step that takes the head of the queue leaves waiting.
LEMMA AfterHead ==
    ASSUME RunnerInv, pending # <<>>, pending' = Tail(pending)
    PROVE /\ Len(pending') = Len(pending) - 1
          /\ pending' \in Seq(Action)
          /\ \A i \in DOMAIN pending' : i + 1 \in DOMAIN pending /\ pending'[i] = pending[i + 1]
  BY DEF RunnerInv, RunnerTypes

LEMMA TakeKeeps ==
    ASSUME RunnerInv, gui # "gone", Take PROVE RunnerInv'
<1> USE DEF RunnerInv, RunnerTypes
<1>1. /\ acting = NoAction /\ pending # <<>> /\ pending[1] # Poison
      /\ acting' = pending[1] /\ pending' = Tail(pending)
      /\ ran' = Append(ran, pending[1].id)
      /\ UNCHANGED <<gui, submitted, timedOut>>
  BY DEF Take
<1>2. /\ Len(pending') = Len(pending) - 1
      /\ pending' \in Seq(Action)
      /\ \A i \in DOMAIN pending' : i + 1 \in DOMAIN pending /\ pending'[i] = pending[i + 1]
  BY <1>1, AfterHead
<1>3. pending[1] \in Action /\ pending[1].id = Len(ran) + 1 /\ 1 \in DOMAIN pending
  BY <1>1 DEF WaitsInOrder
<1>4. Len(ran') = Len(ran) + 1 /\ ran' \in Seq(Nat)
  BY <1>1, <1>3 DEF Action
<1>5. RunnerTypes'
  BY <1>1, <1>2, <1>3, <1>4
<1>6. ActionsInOrder'
  BY <1>1, <1>3, <1>4 DEF ActionsInOrder
<1>7. PoisonIsLast'
  BY <1>1, <1>2 DEF PoisonIsLast
<1>8. WaitsInOrder'
  BY <1>1, <1>2, <1>4 DEF WaitsInOrder
<1>9. acting # Ended /\ acting' # Ended
  BY <1>1, <1>3 DEF NoAction, Ended
<1>a. Len(ran) \in Nat /\ Len(pending) \in Nat /\ submitted' = submitted
  BY <1>1
<1>10. NoneMissing'
  <2>1. CASE gui = "up"
    <3>1. Len(ran) + Len(pending) = submitted
      BY <2>1, <1>9 DEF NoneMissing
    <3>2. Len(ran') + Len(pending') = submitted'
      BY ONLY <3>1, <1>2, <1>4, <1>a
    <3> QED
      BY <2>1, <3>2, <1>1, <1>9 DEF NoneMissing
  <2>2. CASE gui # "up"
    <3>1. Len(ran) + Len(pending) = submitted + 1 /\ pending[Len(pending)] = Poison
      BY <2>2, <1>9 DEF NoneMissing
    <3>2. Len(pending) # 1
      BY <3>1, <1>1
    <3>3. Len(pending') \in DOMAIN pending' /\ pending' # <<>>
      BY <3>2, <1>2, <1>3
    <3>4. pending'[Len(pending')] = Poison
      BY <3>1, <3>3, <1>2
    <3>5. Len(ran') + Len(pending') = submitted' + 1
      BY ONLY <3>1, <1>2, <1>4, <1>a
    <3> QED
      BY <2>2, <3>3, <3>4, <3>5, <1>1, <1>9 DEF NoneMissing
  <2> QED
    BY <2>1, <2>2
<1>11. GoneWaited'
  BY <1>1 DEF GoneWaited
<1> QED
  BY <1>5, <1>6, <1>7, <1>8, <1>10, <1>11

LEMMA TakePoisonKeeps ==
    ASSUME RunnerInv, gui # "gone", TakePoison PROVE RunnerInv'
<1> USE DEF RunnerInv, RunnerTypes
<1>1. /\ acting = NoAction /\ pending # <<>> /\ pending[1] = Poison
      /\ acting' = Ended /\ pending' = Tail(pending)
      /\ UNCHANGED <<gui, submitted, ran, timedOut>>
  BY DEF TakePoison
<1>2. /\ Len(pending') = Len(pending) - 1
      /\ pending' \in Seq(Action)
  BY <1>1, AfterHead
<1>3. Len(pending) = 1 /\ gui # "up"
  <2>1. 1 \in DOMAIN pending
    BY <1>1
  <2> QED
    BY <1>1, <2>1 DEF PoisonIsLast
<1>4. pending' = <<>>
  BY <1>2, <1>3
<1>5. acting # Ended
  BY <1>1 DEF NoAction, Ended
<1>6. NoneMissing'
  BY <1>1, <1>3, <1>4, <1>5 DEF NoneMissing
<1>7. RunnerTypes'
  BY <1>1, <1>2 DEF Ended, Action
<1>8. ActionsInOrder' /\ PoisonIsLast' /\ WaitsInOrder' /\ GoneWaited'
  BY <1>1, <1>4 DEF ActionsInOrder, PoisonIsLast, WaitsInOrder, GoneWaited
<1> QED
  BY <1>6, <1>7, <1>8

LEMMA ReportKeeps ==
    ASSUME RunnerInv, gui # "gone", Report PROVE RunnerInv'
  BY DEF RunnerInv, RunnerTypes, Report, NoAction, Ended, Action, ActionsInOrder,
         PoisonIsLast, WaitsInOrder, NoneMissing, GoneWaited

LEMMA ShutdownKeeps ==
    ASSUME RunnerInv, Shutdown PROVE RunnerInv'
<1> USE DEF RunnerInv, RunnerTypes
<1>1. /\ pending' = Append(pending, Poison) /\ gui = "up" /\ gui' = "closing"
      /\ UNCHANGED <<acting, submitted, ran, timedOut>>
  BY DEF Shutdown
<1>2. Poison \in Action
  BY DEF Poison, Action
<1>3. /\ Len(pending') = Len(pending) + 1 /\ pending' \in Seq(Action)
      /\ \A i \in DOMAIN pending' : pending'[i] = IF i <= Len(pending) THEN pending[i] ELSE Poison
      /\ \A i \in DOMAIN pending' : i <= Len(pending) => i \in DOMAIN pending
      /\ \A i \in DOMAIN pending' : i > Len(pending) => i = Len(pending')
      /\ Len(pending') \in DOMAIN pending'
  BY <1>1, <1>2
<1>4. acting # Ended /\ Len(ran) + Len(pending) = submitted
  BY <1>1 DEF NoneMissing
<1>5. PoisonIsLast'
  BY <1>1, <1>3 DEF PoisonIsLast
<1>6. WaitsInOrder'
  BY <1>1, <1>3 DEF WaitsInOrder
<1>7. NoneMissing'
  BY <1>1, <1>3, <1>4 DEF NoneMissing
<1>8. RunnerTypes' /\ ActionsInOrder' /\ GoneWaited'
  BY <1>1, <1>3 DEF ActionsInOrder, GoneWaited
<1> QED
  BY <1>5, <1>6, <1>7, <1>8

LEMMA ExitKeeps ==
    ASSUME RunnerInv, Exit PROVE RunnerInv'
  BY DEF RunnerInv, RunnerTypes, Exit, ActionsInOrder, PoisonIsLast, WaitsInOrder,
         NoneMissing, GoneWaited

LEMMA RunnerInvNext == RunnerInv /\ [TreeNext]_treeVars => RunnerInv'
<1> SUFFICES ASSUME RunnerInv, [TreeNext]_treeVars PROVE RunnerInv'
  OBVIOUS
<1>1. RunnerStep
  BY StepIsRunnerStep
<1>2. CASE RunnerRest
  BY <1>2 DEF RunnerRest, RunnerInv, RunnerTypes, ActionsInOrder, PoisonIsLast,
              WaitsInOrder, NoneMissing, GoneWaited
<1> QED
  BY <1>1, <1>2, SubmitKeeps, TakeKeeps, TakePoisonKeeps, ReportKeeps, ShutdownKeeps,
     ExitKeeps DEF RunnerStep

LEMMA RunnerInvAlways == TreeSpec => []RunnerInv
  BY RunnerInvInit, RunnerInvNext, PTL DEF TreeSpec

\* The user's actions reach the farm in the order they were submitted.
THEOREM ActionsInOrderCorrect == TreeSpec => []ActionsInOrder
<1>1. RunnerInv => ActionsInOrder
  BY DEF RunnerInv
<1> QED
  BY <1>1, RunnerInvAlways, PTL

\* An exit that did not time out has run every action submitted before it.
THEOREM QuitRunsAllCorrect == TreeSpec => []QuitRunsAll
<1>1. RunnerInv => QuitRunsAll
  BY DEF RunnerInv, RunnerTypes, GoneWaited, NoneMissing, QuitRunsAll
<1> QED
  BY <1>1, RunnerInvAlways, PTL

----
(* Types.  How far the numbers of fetches and the farm's versions go        *)
(* follows from what was submitted, ran and is still to be called back.     *)

Tasks == [of : Trees, comment : {ClassOf[t] : t \in Trees}, seq : Seqs,
          fresh : BOOLEAN]

Queues == {q \in Seq(Tasks) :
             \A i, j \in DOMAIN q : q[i].comment = q[j].comment => i = j}

States == [seq : Nat, applied : Seqs, inFlight : BOOLEAN, forced : BOOLEAN,
           fresh : BOOLEAN, timers : Nat, shown : Versions]

PoolTypes ==
    /\ queue \in Queues
    /\ running \subseteq Jobs /\ IsFiniteSet(running)
    /\ Cardinality(running) <= Workers
    /\ done \in Seq(Jobs)

BoardTypes ==
    /\ board.version \in Versions
    /\ call \in [Callers -> [at : {"none", "waiting", "reading", "answered"},
                            fresh : BOOLEAN, got : Versions]]
    /\ \A c, d \in Reading : c = d

TreeTypes ==
    /\ tree \in [Trees -> States]
    /\ left \in [actions : Nat, ticks : Nat, turns : Nat]
    /\ acted \in Seq(Action)
    /\ version \in Nat

Busy == IF acting \in {NoAction, Ended} THEN 0 ELSE 1

\* What a table has asked for or will, and what may still make it ask.
Fetches(t) == tree[t].seq + tree[t].timers
Claims == Len(acted) + Busy

\* A fetch of a plain table is of a tick or of an action that was called back,
\* and a change of the farm is an action that is over, or its own.
Account ==
    /\ submitted + left.actions = MaxActions
    /\ version + Busy + left.turns <= 1 + MaxTurns + Len(ran)
    /\ \A t \in Trees : /\ Fetches(t) + Claims + left.ticks <= MaxTicks + Len(ran)
                        /\ tree[t].timers + Claims <= Len(ran)

TreeInv == PoolTypes /\ BoardTypes /\ TreeTypes /\ Account

\* What the bounds and the pool are.
LEMMA BoundsType ==
  /\ MaxActions \in Nat /\ MaxTicks \in Nat /\ MaxTurns \in Nat
  /\ Seqs \subseteq Nat /\ Versions \subseteq Nat
  /\ Workers \in Nat
  BY TablesAssumption DEF Seqs, Versions

\* No more actions ran than were submitted.
LEMMA RanBound ==
  ASSUME RunnerInv, TreeInv
  PROVE  /\ Len(ran) \in Nat /\ Len(ran) <= MaxActions
         /\ Len(acted) \in Nat /\ Busy \in Nat /\ Claims \in Nat
         /\ version \in Versions
<1>1. Len(ran) \in Nat /\ Len(acted) \in Nat /\ Len(pending) \in Nat
  BY DEF RunnerInv, RunnerTypes, TreeInv, TreeTypes
<1>2. Len(ran) <= submitted
  <2>1. pending # <<>> => Len(pending) >= 1
    BY DEF RunnerInv, RunnerTypes
  <2>. QED  BY <1>1, <2>1 DEF RunnerInv, RunnerTypes, NoneMissing
<1>3. submitted \in Nat /\ left.actions \in Nat /\ left.turns \in Nat
  BY DEF RunnerInv, RunnerTypes, TreeInv, TreeTypes
<1>4. Busy \in Nat
  BY DEF Busy
<1>5. Len(ran) <= MaxActions
  BY <1>1, <1>2, <1>3, BoundsType DEF TreeInv, Account
<1>6. version \in Versions
  BY <1>1, <1>3, <1>4, <1>5, BoundsType DEF TreeInv, Account, TreeTypes, Versions
<1>7. Claims \in Nat
  BY <1>1, <1>4 DEF Claims
<1>. QED  BY <1>1, <1>4, <1>5, <1>6, <1>7

\* A table's numbers.
LEMMA FetchesType ==
  ASSUME TreeInv, NEW t \in Trees
  PROVE  /\ tree[t] \in States
         /\ tree[t].seq \in Nat /\ tree[t].timers \in Nat
         /\ Fetches(t) \in Nat
         /\ left.ticks \in Nat
  BY DEF TreeInv, TreeTypes, States, Fetches

----
(* What a table asks for. *)

\* A queue to which a task is offered still holds one task per comment.
LEMMA OfferType ==
  ASSUME NEW q \in Queues, NEW task \in Tasks
  PROVE  Offer(q, task) \in Queues
<1>1. CASE Len(q) <= MaxQueue /\ \A i \in DOMAIN q : q[i].comment # task.comment
  <2>. DEFINE p == Append(q, task)
  <2>1. p \in Seq(Tasks) /\ Len(p) = Len(q) + 1 /\ p[Len(q) + 1] = task
        /\ \A i \in 1..Len(q) : p[i] = q[i]
    BY DEF Queues
  <2>2. \A i, j \in DOMAIN p : p[i].comment = p[j].comment => i = j
    <3>1. DOMAIN p = 1..(Len(q) + 1) /\ DOMAIN q = 1..Len(q) /\ Len(q) \in Nat
      BY <2>1 DEF Queues
    <3>. HIDE DEF p
    <3>2. \A i \in 1..(Len(q) + 1) : i \in 1..Len(q) \/ i = Len(q) + 1
      BY <3>1
    <3>. QED  BY <1>1, <2>1, <3>1, <3>2 DEF Queues
  <2>. QED  BY <1>1, <2>1, <2>2 DEF Offer, Queues
<1>2. CASE ~(Len(q) <= MaxQueue /\ \A i \in DOMAIN q : q[i].comment # task.comment)
  BY <1>2 DEF Offer
<1>. QED  BY <1>1, <1>2

\* A table's new state and the queue's, when it asks for n fetches more.
Fits(new, s, n) ==
    /\ new[1] \in States /\ new[2] \in Queues
    /\ new[1].seq = s.seq + n
    /\ new[1].timers = s.timers

\* A state that differs neither in its number nor in its timers.
LEMMA FitsKept ==
  ASSUME NEW s \in States, NEW q \in Queues, NEW u \in States,
         u.seq = s.seq, u.timers = s.timers
  PROVE  Fits(<<u, q>>, s, 0)
<1>1. s.seq \in Nat
  BY DEF States
<1>2. u.seq = s.seq + 0
  BY <1>1
<1>. QED  BY <1>2 DEF Fits

\* A plain table asks for one fetch more, a guarded one for the one in flight.
LEMMA AskedType ==
  ASSUME NEW t \in Trees, NEW s \in States, NEW q \in Queues,
         NEW fresh \in BOOLEAN, t \in Plain => s.seq + 1 \in Seqs
  PROVE  Fits(Asked(t, s, q, fresh), s, IF t \in Plain THEN 1 ELSE 0)
<1>1. \A n \in Seqs : \A f \in BOOLEAN : Task(t, n, f) \in Tasks
  BY DEF Task, Tasks
<1>2. 0 \in Seqs
  BY BoundsType DEF Seqs
<1>3. CASE t \in Plain
  <2>. DEFINE more == [s EXCEPT !.seq = s.seq + 1]
              p == Offer(q, Task(t, s.seq + 1, FALSE))
  <2>1. p \in Queues
    BY <1>1, <1>3, OfferType
  <2>2. s.seq \in Nat /\ s.seq + 1 \in Nat
    BY DEF States
  <2>3. more \in States /\ more.seq = s.seq + 1 /\ more.timers = s.timers
    BY <2>2 DEF States
  <2>4. Asked(t, s, q, fresh) = <<more, p>>
    BY <1>3 DEF Asked
  <2>. HIDE DEF more, p
  <2>. QED  BY <1>3, <2>1, <2>3, <2>4 DEF Fits
<1>4. CASE t \notin Plain
  <2>1. Offer(q, Task(t, 0, fresh)) \in Queues
    BY <1>1, <1>2, OfferType
  <2>2. CASE s.inFlight
    <3>1. Asked(t, s, q, fresh) = <<s, q>>
      BY <1>4, <2>2 DEF Asked
    <3>. QED  BY <1>4, <3>1, FitsKept
  <2>3. CASE ~ s.inFlight
    <3>. DEFINE asks == [s EXCEPT !.inFlight = TRUE]
                p == Offer(q, Task(t, 0, fresh))
    <3>1. asks \in States /\ asks.seq = s.seq /\ asks.timers = s.timers
      BY DEF States
    <3>2. Asked(t, s, q, fresh) = <<asks, p>> /\ p \in Queues
      BY <1>4, <2>1, <2>3 DEF Asked
    <3>. HIDE DEF asks, p
    <3>. QED  BY <1>4, <3>1, <3>2, FitsKept
  <2>. QED  BY <2>2, <2>3
<1>. QED  BY <1>3, <1>4

\* So does forceUpdate, or it is put off.
LEMMA ForcedType ==
  ASSUME NEW t \in Trees, NEW s \in States, NEW q \in Queues,
         NEW fresh \in BOOLEAN, t \in Plain => s.seq + 1 \in Seqs
  PROVE  Fits(Forced(t, s, q, fresh), s, IF t \in Plain THEN 1 ELSE 0)
<1>1. CASE t \in Guarded /\ s.inFlight
  <2>. DEFINE later == [s EXCEPT !.forced = TRUE, !.fresh = @ \/ fresh]
  <2>1. later \in States /\ later.seq = s.seq /\ later.timers = s.timers
    BY DEF States
  <2>2. Forced(t, s, q, fresh) = <<later, q>>
    BY <1>1 DEF Forced
  <2>3. t \notin Plain
    BY <1>1, TablesAssumption
  <2>. HIDE DEF later
  <2>. QED  BY <2>1, <2>2, <2>3, FitsKept
<1>2. CASE ~(t \in Guarded /\ s.inFlight)
  BY <1>2, AskedType DEF Forced
<1>. QED  BY <1>1, <1>2

\* A callback asks for no fetch of a plain table.
LEMMA LandedType ==
  ASSUME NEW t \in Trees, NEW s \in States, NEW q \in Queues, NEW job \in Jobs
  PROVE  Fits(Landed(t, s, q, job), s, 0)
<1>1. job.task.seq \in Seqs /\ (job.got # Failed => job.got \in Versions)
  BY DEF Jobs
<1>2. CASE t \in Plain
  <2>1. CASE job.got = Failed \/ job.task.seq < s.applied
    <3>1. Landed(t, s, q, job) = <<s, q>>
      BY <1>2, <2>1 DEF Landed
    <3>. QED  BY <3>1, FitsKept
  <2>2. CASE ~(job.got = Failed \/ job.task.seq < s.applied)
    <3>. DEFINE shows == [s EXCEPT !.applied = job.task.seq, !.shown = job.got]
    <3>1. shows \in States /\ shows.seq = s.seq /\ shows.timers = s.timers
      BY <1>1, <2>2 DEF States
    <3>2. Landed(t, s, q, job) = <<shows, q>>
      BY <1>2, <2>2 DEF Landed
    <3>. HIDE DEF shows
    <3>. QED  BY <3>1, <3>2, FitsKept
  <2>. QED  BY <2>1, <2>2
<1>3. CASE t \notin Plain
  <2>. DEFINE shows == [s EXCEPT !.shown = IF job.got = Failed THEN @ ELSE job.got,
                                 !.inFlight = FALSE, !.forced = FALSE, !.fresh = FALSE]
  <2>1. shows \in States /\ shows.seq = s.seq /\ shows.timers = s.timers
        /\ s.fresh \in BOOLEAN
    BY <1>1 DEF States
  <2>2. Landed(t, s, q, job)
          = IF s.forced THEN Forced(t, shows, q, s.fresh) ELSE <<shows, q>>
    BY <1>3 DEF Landed
  <2>. HIDE DEF shows
  <2>3. Fits(Forced(t, shows, q, s.fresh), shows, 0)
    BY <1>3, <2>1, ForcedType
  <2>4. Fits(<<shows, q>>, shows, 0)
    BY <2>1, FitsKept
  <2>. QED  BY <2>1, <2>2, <2>3, <2>4 DEF Fits
<1>. QED  BY <1>2, <1>3

----
(* The GUI thread. *)

\* A table's state and the queue change, the rest of the pool, the requests,
\* the runner and the farm do not.
LEMMA TableKeeps ==
  ASSUME RunnerInv, TreeInv, NEW t \in Trees, NEW new,
         Becomes(t, new), GuiOnly, UNCHANGED <<acted, submitted>>,
         NEW s \in States, NEW n \in {0, 1}, Fits(new, s, n),
         done' \in Seq(Jobs),
         left' \in [actions : Nat, ticks : Nat, turns : Nat],
         left'.actions = left.actions, left'.turns = left.turns,
         left'.ticks <= left.ticks,
         s.seq = tree[t].seq, s.timers <= tree[t].timers,
         s.timers + n + left'.ticks <= tree[t].timers + left.ticks
  PROVE  TreeInv'
<1>1. PoolTypes'
  BY DEF TreeInv, PoolTypes, Becomes, GuiOnly, Fits
<1>2. BoardTypes'
  BY DEF TreeInv, BoardTypes, GuiOnly, Reading
<1>3. tree' \in [Trees -> States] /\ tree'[t] = new[1]
      /\ \A u \in Trees \ {t} : tree'[u] = tree[u]
  BY DEF TreeInv, TreeTypes, Becomes, Fits
<1>4. TreeTypes'
  BY <1>3 DEF TreeInv, TreeTypes, GuiOnly
<1>5. Account'
  <2>1. UNCHANGED <<acting, ran, acted, submitted, version>>
        /\ Busy' = Busy /\ Claims' = Claims
    BY DEF GuiOnly, Busy, Claims
  <2>2. ASSUME NEW u \in Trees
        PROVE  /\ Fetches(u)' + Claims + left'.ticks <= MaxTicks + Len(ran)
               /\ tree'[u].timers + Claims <= Len(ran)
    <3>1. /\ Claims \in Nat /\ Len(ran) \in Nat /\ MaxTicks \in Nat
          /\ left.ticks \in Nat /\ left'.ticks \in Nat
          /\ Fetches(u) \in Nat
      BY RanBound, BoundsType, FetchesType
    <3>2. Fetches(u)' \in Nat
      BY <1>3 DEF Fetches, States
    <3>3. Fetches(u) + Claims + left.ticks <= MaxTicks + Len(ran)
      BY DEF TreeInv, Account
    <3>4. Fetches(u)' + left'.ticks <= Fetches(u) + left.ticks
      <4>1. CASE u = t
        <5>. DEFINE seq == tree[t].seq
                    old == tree[t].timers
                    timers == s.timers
                    ticks == left.ticks
                    now == left'.ticks
        <5>1. /\ seq \in Nat /\ old \in Nat /\ timers \in Nat /\ n \in Nat
              /\ ticks \in Nat /\ now \in Nat
              /\ timers + n + now <= old + ticks
          BY <3>1, FetchesType DEF States
        <5>2. /\ Fetches(t) = seq + old
              /\ Fetches(t)' = (seq + n) + timers
          BY <1>3 DEF Fetches, Fits
        <5>3. ((seq + n) + timers) + now <= (seq + old) + ticks
          <6>. HIDE DEF seq, old, timers, ticks, now
          <6>. QED  BY <5>1
        <5>. QED  BY <4>1, <5>2, <5>3
      <4>2. CASE u # t
        <5>1. Fetches(u)' = Fetches(u)
          BY <1>3, <4>2 DEF Fetches
        <5>. QED  BY <3>1, <5>1
      <4>. QED  BY <4>1, <4>2
    <3>5. tree'[u].timers + Claims <= Len(ran)
      <4>. DEFINE old == tree[u].timers
                  m == tree'[u].timers
                  r == Len(ran)
      <4>1. old \in Nat /\ m \in Nat /\ m <= old /\ r \in Nat
        <5>1. old \in Nat /\ m \in Nat /\ r \in Nat
          BY <1>3, <3>1, FetchesType DEF States
        <5>2. CASE u = t
          BY <1>3, <5>1, <5>2 DEF Fits
        <5>3. CASE u # t
          BY <1>3, <5>1, <5>3
        <5>. QED  BY <5>1, <5>2, <5>3
      <4>2. old + Claims <= r
        BY DEF TreeInv, Account
      <4>3. m + Claims <= r
        <5>. HIDE DEF old, m, r
        <5>. QED  BY <3>1, <4>1, <4>2
      <4>. QED  BY <4>3
    <3>. QED  BY <3>1, <3>2, <3>3, <3>4, <3>5, SMTT(30)
  <2>. QED  BY <2>1, <2>2 DEF TreeInv, Account
<1>. QED  BY <1>1, <1>2, <1>4, <1>5 DEF TreeInv

\* What is left after a tick.
LEMMA SpendType ==
  ASSUME TreeInv
  PROVE  /\ Spend("ticks") => /\ left.ticks > 0
                              /\ left' = [left EXCEPT !.ticks = @ - 1]
                              /\ left' \in [actions : Nat, ticks : Nat, turns : Nat]
                              /\ left'.ticks = left.ticks - 1
                              /\ left'.actions = left.actions
                              /\ left'.turns = left.turns
         /\ Spend("turns") => /\ left.turns > 0
                              /\ left' \in [actions : Nat, ticks : Nat, turns : Nat]
                              /\ left'.turns = left.turns - 1
                              /\ left'.actions = left.actions
                              /\ left'.ticks = left.ticks
         /\ Spend("actions") => /\ left.actions > 0
                                /\ left' \in [actions : Nat, ticks : Nat, turns : Nat]
                                /\ left'.actions = left.actions - 1
                                /\ left'.turns = left.turns
                                /\ left'.ticks = left.ticks
         /\ left.actions \in Nat /\ left.ticks \in Nat /\ left.turns \in Nat
  BY DEF Spend, TreeInv, TreeTypes

\* There is room for the number of one more fetch.
LEMMA NextSeq ==
  ASSUME RunnerInv, TreeInv, NEW t \in Trees,
         left.ticks > 0 \/ tree[t].timers > 0
  PROVE  tree[t].seq + 1 \in Seqs
<1>. DEFINE seq == tree[t].seq
            timers == tree[t].timers
            ticks == left.ticks
            r == Len(ran)
<1>1. /\ seq \in Nat /\ timers \in Nat /\ ticks \in Nat /\ Claims \in Nat
      /\ r \in Nat /\ r <= MaxActions
      /\ MaxTicks \in Nat /\ MaxActions \in Nat
      /\ ticks > 0 \/ timers > 0
  BY RanBound, BoundsType, FetchesType
<1>2. seq + timers + Claims + ticks <= MaxTicks + r
  BY DEF TreeInv, Account, Fetches
<1>3. seq + 1 \in 0..(MaxActions + MaxTicks)
  <2>. HIDE DEF seq, timers, ticks, r
  <2>. QED  BY <1>1, <1>2
<1>. QED  BY <1>3 DEF Seqs

\* The timer of a table, and the choice of shows.
LEMMA TickKeeps ==
  ASSUME RunnerInv, TreeInv, NEW t \in Trees, Tick(t) \/ PickShows(t)
  PROVE  TreeInv'
<1>. DEFINE n == IF t \in Plain THEN 1 ELSE 0
<1>1. tree[t] \in States /\ queue \in Queues /\ done \in Seq(Jobs)
  BY DEF TreeInv, TreeTypes, PoolTypes
<1>2. Spend("ticks")
  BY DEF Tick, PickShows
<1>3. /\ left.ticks > 0 /\ left.ticks \in Nat
      /\ left' \in [actions : Nat, ticks : Nat, turns : Nat]
      /\ left'.ticks = left.ticks - 1
      /\ left'.actions = left.actions /\ left'.turns = left.turns
  BY <1>2, SpendType
<1>4. tree[t].seq + 1 \in Seqs
  BY <1>3, NextSeq
<1>5. PICK new : /\ Becomes(t, new) /\ Fits(new, tree[t], n)
                 /\ GuiOnly /\ UNCHANGED <<acted, submitted>>
                 /\ done' = done
  <2>1. CASE Tick(t)
    BY <1>1, <1>4, <2>1, AskedType DEF Tick
  <2>2. CASE PickShows(t)
    BY <1>1, <1>4, <2>2, ForcedType DEF PickShows
  <2>. QED  BY <2>1, <2>2
<1>6. n \in {0, 1} /\ tree[t].timers + n + left'.ticks <= tree[t].timers + left.ticks
  <2>. DEFINE timers == tree[t].timers
              ticks == left.ticks
              now == left'.ticks
  <2>1. timers \in Nat /\ ticks \in Nat /\ now = ticks - 1 /\ n \in {0, 1}
    BY <1>3, FetchesType
  <2>2. timers + n + now <= timers + ticks
    <3>. HIDE DEF timers, ticks, now, n
    <3>. QED  BY <2>1
  <2>. QED  BY <2>1, <2>2
<1>7. left'.ticks <= left.ticks /\ tree[t].timers <= tree[t].timers
  BY <1>3, FetchesType
<1>. HIDE DEF n
<1>. QED  BY <1>1, <1>3, <1>5, <1>6, <1>7, TableKeeps

\* updateSoon's timer.
LEMMA TimerKeeps ==
  ASSUME RunnerInv, TreeInv, NEW t \in Trees, TimerFires(t)
  PROVE  TreeInv'
<1>. DEFINE n == IF t \in Plain THEN 1 ELSE 0
            s == [tree[t] EXCEPT !.timers = @ - 1]
<1>1. /\ tree[t] \in States /\ queue \in Queues /\ done \in Seq(Jobs)
      /\ tree[t].timers \in Nat /\ tree[t].timers > 0
      /\ left \in [actions : Nat, ticks : Nat, turns : Nat] /\ left.ticks \in Nat
  BY DEF TreeInv, TreeTypes, PoolTypes, States, TimerFires
<1>2. tree[t].seq + 1 \in Seqs
  BY <1>1, NextSeq
<1>3. s \in States /\ s.seq = tree[t].seq /\ s.timers = tree[t].timers - 1
  BY <1>1 DEF States
<1>4. /\ Becomes(t, Forced(t, s, queue, TRUE))
      /\ GuiOnly /\ UNCHANGED <<acted, submitted, left>> /\ done' = done
  BY DEF TimerFires
<1>. HIDE DEF s
<1>5. Fits(Forced(t, s, queue, TRUE), s, n)
  BY <1>1, <1>2, <1>3, ForcedType
<1>6. n \in {0, 1} /\ s.timers + n + left.ticks <= tree[t].timers + left.ticks
  <2>. DEFINE timers == tree[t].timers
              ticks == left.ticks
  <2>1. timers \in Nat /\ timers > 0 /\ ticks \in Nat /\ s.timers = timers - 1
        /\ n \in {0, 1}
    BY <1>1, <1>3
  <2>2. (timers - 1) + n + ticks <= timers + ticks
    <3>. HIDE DEF timers, ticks, n
    <3>. QED  BY <2>1
  <2>. QED  BY <2>1, <2>2
<1>7. left'.ticks <= left.ticks /\ left' = left /\ s.timers <= tree[t].timers
  BY <1>1, <1>3, <1>4
<1>. HIDE DEF n
<1>. QED  BY <1>1, <1>3, <1>4, <1>5, <1>6, <1>7, TableKeeps

\* The callback of a finished job.
LEMMA DeliverKeeps ==
  ASSUME RunnerInv, TreeInv, Deliver
  PROVE  TreeInv'
<1>. DEFINE job == Head(done)
            t == job.task.of
<1>1. /\ done \in Seq(Jobs) /\ done # <<>> /\ queue \in Queues
      /\ left \in [actions : Nat, ticks : Nat, turns : Nat] /\ left.ticks \in Nat
  BY DEF TreeInv, PoolTypes, TreeTypes, Deliver
<1>2. job \in Jobs /\ Tail(done) \in Seq(Jobs)
  BY <1>1
<1>3. t \in Trees
  BY <1>2 DEF Jobs
<1>4. tree[t] \in States /\ tree[t].timers \in Nat
  BY <1>3, FetchesType
<1>5. Fits(Landed(t, tree[t], queue, job), tree[t], 0)
  BY <1>1, <1>2, <1>3, <1>4, LandedType
<1>6. /\ Becomes(t, Landed(t, tree[t], queue, job))
      /\ GuiOnly /\ UNCHANGED <<acted, submitted, left>>
      /\ done' = Tail(done)
  BY DEF Deliver
<1>. HIDE DEF t, job
<1>7. /\ left' = left /\ left'.ticks <= left.ticks
      /\ tree[t].timers <= tree[t].timers
      /\ tree[t].timers + 0 + left'.ticks <= tree[t].timers + left.ticks
  BY <1>1, <1>4, <1>6
<1>. QED  BY <1>1, <1>2, <1>3, <1>4, <1>5, <1>6, <1>7, TableKeeps

\* What the account is made of.
LEMMA AccountTypes ==
  ASSUME RunnerInv, TreeInv
  PROVE  /\ acted \in Seq(Action) /\ version \in Nat /\ ran \in Seq(Nat)
         /\ submitted \in Nat /\ submitted + left.actions = MaxActions
<1>1. acted \in Seq(Action) /\ version \in Nat
  BY DEF TreeInv, TreeTypes
<1>2. ran \in Seq(Nat) /\ submitted \in Nat
  BY DEF RunnerInv, RunnerTypes
<1>3. submitted + left.actions = MaxActions
  BY DEF TreeInv, Account
<1>. QED  BY <1>1, <1>2, <1>3

\* The account of a step that leaves the tables alone.
LEMMA AccountKeeps ==
  ASSUME RunnerInv, TreeInv, tree' = tree,
         left' \in [actions : Nat, ticks : Nat, turns : Nat],
         acted' \in Seq(Action), version' \in Nat, ran' \in Seq(Nat),
         submitted' + left'.actions = MaxActions,
         left'.ticks <= left.ticks,
         (version' + Busy' + left'.turns) + Len(ran)
             <= (version + Busy + left.turns) + Len(ran'),
         Claims' + Len(ran) <= Claims + Len(ran')
  PROVE  TreeTypes' /\ Account'
<1>1. TreeTypes'
  BY DEF TreeInv, TreeTypes
<1>2. /\ Claims \in Nat /\ Len(ran) \in Nat /\ Busy \in Nat
      /\ left.ticks \in Nat /\ left.turns \in Nat /\ version \in Nat
      /\ Len(ran') \in Nat /\ left'.ticks \in Nat /\ left'.turns \in Nat
      /\ MaxTurns \in Nat /\ MaxTicks \in Nat
  BY RanBound, BoundsType DEF TreeInv, TreeTypes
<1>3. Busy' \in Nat /\ Claims' \in Nat
  BY DEF Busy, Claims
<1>4. version' + Busy' + left'.turns <= 1 + MaxTurns + Len(ran')
  <2>. DEFINE a == version + Busy + left.turns
              b == version' + Busy' + left'.turns
              r == Len(ran)
              n == Len(ran')
  <2>1. a \in Nat /\ b \in Nat /\ r \in Nat /\ n \in Nat
    <3>1. \A i, j, k \in Nat : i + j + k \in Nat
      OBVIOUS
    <3>2. a \in Nat /\ b \in Nat
      BY <1>2, <1>3, <3>1
    <3>. QED  BY <1>2, <3>2
  <2>3. a <= 1 + MaxTurns + r
    BY DEF TreeInv, Account
  <2>4. b + r <= a + n
    OBVIOUS
  <2>2. b <= 1 + MaxTurns + n
    <3>. HIDE DEF a, b, r, n
    <3>. QED  BY <1>2, <2>1, <2>3, <2>4
  <2>. QED  BY <2>2
<1>5. ASSUME NEW t \in Trees
      PROVE  /\ Fetches(t)' + Claims' + left'.ticks <= MaxTicks + Len(ran')
             /\ tree'[t].timers + Claims' <= Len(ran')
  <2>. DEFINE f == Fetches(t)
              c == Claims
              d == Claims'
              k == left.ticks
              l == left'.ticks
              r == Len(ran)
              n == Len(ran')
              m == tree[t].timers
  <2>1. /\ m \in Nat /\ m + c <= r
    BY FetchesType DEF TreeInv, Account
  <2>4. /\ f \in Nat /\ c \in Nat /\ d \in Nat /\ k \in Nat /\ l \in Nat
        /\ r \in Nat /\ n \in Nat
        /\ f + c + k <= MaxTicks + r /\ l <= k /\ d + r <= c + n
    BY <1>2, <1>3, FetchesType DEF TreeInv, Account
  <2>2. f + d + l <= MaxTicks + n
    <3>. HIDE DEF f, c, d, k, l, r, n
    <3>. QED  BY <1>2, <2>4
  <2>5. m + d <= n
    <3>. HIDE DEF f, c, d, k, l, r, n, m
    <3>. QED  BY <2>1, <2>4
  <2>3. Fetches(t)' = f
    BY DEF Fetches
  <2>. QED  BY <2>2, <2>3, <2>5
<1>. QED  BY <1>1, <1>4, <1>5 DEF Account

\* A step that leaves the runner, the farm and the tables alone, and spends a
\* turn at most.
LEMMA AccountSame ==
  ASSUME RunnerInv, TreeInv, UNCHANGED <<acting, acted, ran, submitted, tree, version>>,
         left' = left \/ Spend("turns")
  PROVE  TreeTypes' /\ Account'
<1>1. /\ left' \in [actions : Nat, ticks : Nat, turns : Nat]
      /\ left'.actions = left.actions /\ left'.ticks = left.ticks
      /\ left.turns \in Nat /\ left'.turns \in Nat /\ left'.turns <= left.turns
      /\ left.ticks \in Nat
  <2>1. CASE left' = left
    BY <2>1 DEF TreeInv, TreeTypes
  <2>2. CASE Spend("turns")
    BY <2>2, SpendType
  <2>. QED  BY <2>1, <2>2
<1>2. Busy' = Busy /\ Claims' = Claims
  BY DEF Busy, Claims
<1>3. /\ acted \in Seq(Action) /\ version \in Nat /\ ran \in Seq(Nat)
      /\ submitted + left.actions = MaxActions
      /\ Busy \in Nat /\ Claims \in Nat /\ Len(ran) \in Nat
  BY RanBound, AccountTypes
<1>4. version + Busy + left'.turns + Len(ran) <= version + Busy + left.turns + Len(ran)
  <2>. DEFINE a == version + Busy
              k == left.turns
              l == left'.turns
              r == Len(ran)
  <2>1. a \in Nat /\ k \in Nat /\ l \in Nat /\ r \in Nat /\ l <= k
    BY <1>1, <1>3
  <2>2. a + l + r <= a + k + r
    <3>. HIDE DEF a, k, l, r
    <3>. QED  BY <2>1
  <2>. QED  BY <2>2
<1>5. left'.ticks <= left.ticks /\ Claims + Len(ran) <= Claims + Len(ran)
  BY <1>1, <1>3
<1>. QED  BY <1>1, <1>2, <1>3, <1>4, <1>5, AccountKeeps

\* An action is submitted.
LEMMA ChooseKeeps ==
  ASSUME RunnerInv, TreeInv, NEW t \in Trees, Choose(t)
  PROVE  TreeInv'
<1>1. PoolTypes' /\ BoardTypes'
  BY DEF Choose, TreeInv, PoolTypes, BoardTypes, Reading
<1>2. /\ left' \in [actions : Nat, ticks : Nat, turns : Nat]
      /\ left.actions \in Nat /\ left.actions > 0
      /\ left'.actions = left.actions - 1 /\ left'.turns = left.turns
      /\ left'.ticks = left.ticks /\ left.ticks \in Nat /\ left.turns \in Nat
  BY SpendType DEF Choose
<1>3. UNCHANGED <<acting, acted, ran, tree, version>> /\ submitted' = submitted + 1
  BY DEF Choose, Submit
<1>4. Busy' = Busy /\ Claims' = Claims
  BY <1>3 DEF Busy, Claims
<1>5. /\ acted \in Seq(Action) /\ version \in Nat /\ ran \in Seq(Nat)
      /\ submitted \in Nat /\ submitted + left.actions = MaxActions
      /\ Busy \in Nat /\ Claims \in Nat /\ Len(ran) \in Nat
  BY RanBound, AccountTypes
<1>6. submitted' + left'.actions = MaxActions
  <2>. DEFINE k == left.actions
              l == left'.actions
  <2>1. k \in Nat /\ l = k - 1 /\ submitted + k = MaxActions
    BY <1>2, <1>5
  <2>2. (submitted + 1) + l = MaxActions
    <3>. HIDE DEF k, l
    <3>. QED  BY <1>5, <2>1
  <2>. QED  BY <1>3, <2>2
<1>7. /\ (version + Busy + left.turns) + Len(ran)
           <= (version + Busy + left.turns) + Len(ran)
      /\ Claims + Len(ran) <= Claims + Len(ran)
      /\ left'.ticks <= left.ticks
  BY <1>2, <1>5
<1>8. TreeTypes' /\ Account'
  BY <1>2, <1>3, <1>4, <1>5, <1>6, <1>7, AccountKeeps
<1>. QED  BY <1>1, <1>8 DEF TreeInv

\* The callback of an action: one timer more, one callback less.
LEMMA ActedKeeps ==
  ASSUME RunnerInv, TreeInv, Acted
  PROVE  TreeInv'
<1>. DEFINE u == Head(acted).of
<1>1. PoolTypes' /\ BoardTypes'
  BY DEF Acted, GuiOnly, TreeInv, PoolTypes, BoardTypes, Reading
<1>2. /\ acted \in Seq(Action) /\ acted # <<>> /\ acted' = Tail(acted)
      /\ tree \in [Trees -> States]
      /\ tree' = [tree EXCEPT ![u].timers = @ + 1]
      /\ UNCHANGED <<acting, ran, version, submitted, left>>
  BY DEF Acted, GuiOnly, TreeInv, TreeTypes
<1>3. /\ acted' \in Seq(Action)
      /\ Len(acted) \in Nat /\ Len(acted') = Len(acted) - 1 /\ Len(acted) > 0
  BY <1>2
<1>. HIDE DEF u
<1>4. ASSUME NEW t \in Trees
      PROVE  /\ tree'[t] \in States /\ tree'[t].seq = tree[t].seq
             /\ tree'[t].timers \in Nat /\ tree'[t].timers <= tree[t].timers + 1
  <2>1. tree[t] \in States /\ tree[t].timers \in Nat
    BY FetchesType
  <2>2. CASE u = t
    <3>1. tree'[t] = [tree[t] EXCEPT !.timers = @ + 1]
      BY <1>2, <2>2
    <3>. QED  BY <2>1, <3>1 DEF States
  <2>3. CASE u # t
    <3>1. tree'[t] = tree[t]
      BY <1>2, <2>3
    <3>. QED  BY <2>1, <3>1
  <2>. QED  BY <2>2, <2>3
<1>5. tree' \in [Trees -> States]
  BY <1>2, <1>4
<1>6. TreeTypes'
  BY <1>2, <1>3, <1>5 DEF TreeInv, TreeTypes
<1>7. Busy' = Busy /\ Busy \in Nat /\ Claims \in Nat
  BY <1>2, RanBound DEF Busy
<1>8. ASSUME NEW t \in Trees
      PROVE  /\ Fetches(t)' + Claims' + left.ticks <= MaxTicks + Len(ran)
             /\ tree'[t].timers + Claims' <= Len(ran)
  <2>. DEFINE seq == tree[t].seq
              old == tree[t].timers
              new == tree'[t].timers
              a == Len(acted)
              k == left.ticks
              r == Len(ran)
  <2>1. /\ seq \in Nat /\ old \in Nat /\ new \in Nat /\ new <= old + 1
        /\ a \in Nat /\ k \in Nat /\ r \in Nat /\ a > 0
        /\ Busy \in Nat /\ MaxTicks \in Nat
    BY <1>3, <1>4, <1>7, FetchesType, RanBound, BoundsType
  <2>2. (seq + old) + (a + Busy) + k <= MaxTicks + r
    BY DEF TreeInv, Account, Fetches, Claims
  <2>5. old + (a + Busy) <= r
    BY DEF TreeInv, Account, Claims
  <2>6. new + ((a - 1) + Busy) <= r
    <3>. HIDE DEF seq, old, new, a, k, r
    <3>. QED  BY <2>1, <2>5
  <2>3. (seq + new) + ((a - 1) + Busy) + k <= MaxTicks + r
    <3>. HIDE DEF seq, old, new, a, k, r
    <3>. QED  BY <2>1, <2>2
  <2>4. Fetches(t)' = seq + new /\ Claims' = (a - 1) + Busy
    BY <1>3, <1>4, <1>7 DEF Fetches, Claims
  <2>. QED  BY <2>3, <2>4, <2>6
<1>9. Account'
  <2>1. (submitted + left.actions = MaxActions)'
    BY <1>2 DEF TreeInv, Account
  <2>2. (version + Busy + left.turns <= 1 + MaxTurns + Len(ran))'
    BY <1>2, <1>7 DEF TreeInv, Account
  <2>3. (\A t \in Trees : /\ Fetches(t) + Claims + left.ticks <= MaxTicks + Len(ran)
                          /\ tree[t].timers + Claims <= Len(ran))'
    BY <1>2, <1>8
  <2>. QED  BY <2>1, <2>2, <2>3 DEF Account
<1>. QED  BY <1>1, <1>6, <1>9 DEF TreeInv

\* The application closes and exits.
LEMMA QuitKeeps ==
  ASSUME RunnerInv, TreeInv, Quit \/ Leave
  PROVE  TreeInv'
<1>1. UNCHANGED <<poolVars, version, boardVars, tree, left, acting, acted, ran, submitted>>
  BY DEF Quit, Leave, Shutdown, Exit
<1>2. PoolTypes' /\ BoardTypes'
  BY <1>1 DEF TreeInv, poolVars, boardVars, PoolTypes, BoardTypes, Reading
<1>3. TreeTypes' /\ Account'
  BY <1>1, AccountSame
<1>. QED  BY <1>2, <1>3 DEF TreeInv

----
(* The workers of the pool. *)

RunningTypes ==
    running \subseteq Jobs /\ IsFiniteSet(running) /\ Cardinality(running) <= Workers

\* A worker that goes on: as many jobs as before, or two have become the same.
LEMMA MovesType ==
  ASSUME RunningTypes, NEW job \in running, NEW at \in {"start", "asked", "end"},
         NEW got \in Versions \cup {Failed}, Moves(job, at, got)
  PROVE  RunningTypes'
<1>. DEFINE next == [job EXCEPT !.at = at, !.got = got]
            rest == running \ {job}
<1>1. next \in Jobs
  BY DEF RunningTypes, Jobs
<1>2. running' = rest \cup {next}
  BY DEF Moves
<1>3. /\ IsFiniteSet(rest) /\ Cardinality(rest) = Cardinality(running) - 1
      /\ Cardinality(running) \in Nat
  BY FS_RemoveElement, FS_CardinalityType DEF RunningTypes
<1>. HIDE DEF next
<1>4. /\ IsFiniteSet(rest \cup {next})
      /\ Cardinality(rest \cup {next})
           = IF next \in rest THEN Cardinality(rest) ELSE Cardinality(rest) + 1
  BY <1>3, FS_AddElement
<1>5. rest \cup {next} \subseteq Jobs
  BY <1>1 DEF RunningTypes
<1>. HIDE DEF rest
<1>6. Cardinality(rest \cup {next}) <= Workers
  BY <1>3, <1>4, BoundsType DEF RunningTypes
<1>. QED  BY <1>2, <1>4, <1>5, <1>6 DEF RunningTypes

\* The oldest task leaves the queue for an idle worker.
LEMMA PopType ==
  ASSUME PoolTypes, Pop
  PROVE  PoolTypes'
<1>. DEFINE job == [task |-> Head(queue), at |-> "start", got |-> 0]
<1>1. queue \in Seq(Tasks) /\ queue # <<>>
  BY DEF PoolTypes, Queues, Pop
<1>2. job \in Jobs
  <2>1. Head(queue) \in Tasks /\ 0 \in Versions
    BY <1>1, BoundsType DEF Versions
  <2>. QED  BY <2>1 DEF Jobs, Tasks
<1>3. queue' \in Queues
  <2>1. /\ queue' \in Seq(Tasks) /\ Len(queue') = Len(queue) - 1
        /\ \A i \in 1..Len(queue') : queue'[i] = queue[i + 1]
    BY <1>1 DEF Pop
  <2>2. /\ DOMAIN queue = 1..Len(queue) /\ DOMAIN queue' = 1..Len(queue')
        /\ Len(queue) \in Nat
    BY <1>1, <2>1
  <2>3. ASSUME NEW i \in DOMAIN queue', NEW j \in DOMAIN queue',
               queue'[i].comment = queue'[j].comment
        PROVE  i = j
    <3>1. i \in Int /\ j \in Int /\ i + 1 \in DOMAIN queue /\ j + 1 \in DOMAIN queue
      BY <2>1, <2>2
    <3>2. queue[i + 1].comment = queue[j + 1].comment
      BY <2>1, <2>2, <2>3
    <3>3. i + 1 = j + 1
      BY <3>1, <3>2 DEF PoolTypes, Queues
    <3>. QED  BY <3>1, <3>3
  <2>. QED  BY <2>1, <2>3 DEF Queues
<1>4. RunningTypes'
  <2>1. /\ running' = running \cup {job} /\ Cardinality(running) < Workers
        /\ IsFiniteSet(running) /\ running \subseteq Jobs
    BY DEF Pop, PoolTypes
  <2>. HIDE DEF job
  <2>2. /\ IsFiniteSet(running \cup {job})
        /\ Cardinality(running \cup {job})
             = IF job \in running THEN Cardinality(running) ELSE Cardinality(running) + 1
        /\ Cardinality(running) \in Nat
    BY <2>1, FS_AddElement, FS_CardinalityType
  <2>3. Cardinality(running \cup {job}) <= Workers
    BY <2>1, <2>2, BoundsType
  <2>. QED  BY <1>2, <2>1, <2>2, <2>3 DEF RunningTypes
<1>. QED  BY <1>3, <1>4 DEF PoolTypes, RunningTypes, Pop

\* A finished job leaves the running ones.
LEMMA HandOverType ==
  ASSUME PoolTypes, NEW job \in running, HandOver(job)
  PROVE  PoolTypes'
<1>1. job \in Jobs /\ done' \in Seq(Jobs)
  BY DEF PoolTypes, HandOver
<1>2. /\ IsFiniteSet(running \ {job})
      /\ Cardinality(running \ {job}) = Cardinality(running) - 1
      /\ Cardinality(running) \in Nat
  BY FS_RemoveElement, FS_CardinalityType DEF PoolTypes
<1>3. Cardinality(running \ {job}) <= Workers
  BY <1>2, BoundsType DEF PoolTypes
<1>. QED  BY <1>1, <1>2, <1>3 DEF PoolTypes, HandOver

----
(* Requests for the whiteboard. *)

\* A request reaches Cuebot.
LEMMA ArriveType ==
  ASSUME BoardTypes, NEW c \in Callers, NEW fresh \in BOOLEAN,
         call[c].at = "none", Arrive(c, fresh)
  PROVE  BoardTypes'
<1>1. 0 \in Versions
  BY BoundsType DEF Versions
<1>2. \A d \in Callers : call'[d].at = "reading" => call[d].at = "reading"
  BY DEF Arrive, BoardTypes
<1>. QED  BY <1>1, <1>2 DEF Arrive, BoardTypes, Reading

\* A request is answered and read.
LEMMA CloseType ==
  ASSUME BoardTypes, NEW c \in Callers, Close(c)
  PROVE  BoardTypes' /\ call[c].got \in Versions
<1>1. 0 \in Versions
  BY BoundsType DEF Versions
<1>2. \A d \in Callers : call'[d].at = "reading" => call[d].at = "reading"
  BY DEF Close, BoardTypes, NoCall
<1>3. board'.version = board.version
  BY DEF Close
<1>. QED  BY <1>1, <1>2, <1>3 DEF Close, BoardTypes, Reading, NoCall

\* One caller at a time queries.
LEMMA ServeType ==
  ASSUME BoardTypes, version \in Versions, NEW c \in Callers, Serve(c) \/ Breaks(c)
  PROVE  BoardTypes'
<1>1. 0 \in Versions
  BY BoundsType DEF Versions
<1>2. CASE Hit(c)
  <2>1. \A d \in Callers : call'[d].at = "reading" => call[d].at = "reading"
    BY <1>2 DEF Hit, BoardTypes
  <2>. QED  BY <1>2, <2>1, ZenonT(60) DEF Hit, BoardTypes, Reading
<1>3. CASE StartQuery(c)
  <2>1. \A d \in Callers : call'[d].at = "reading" => d = c
    BY <1>3 DEF StartQuery, BoardTypes, Reading
  <2>. QED  BY <1>3, <2>1 DEF StartQuery, BoardTypes, Reading
<1>4. CASE FinishQuery(c)
  <2>1. \A d \in Callers : call'[d].at = "reading" => call[d].at = "reading"
    BY <1>4 DEF FinishQuery, BoardTypes
  <2>. QED  BY <1>4, <2>1 DEF FinishQuery, BoardTypes, Reading
<1>5. CASE Breaks(c)
  <2>1. \A d \in Callers : call'[d].at = "reading" => call[d].at = "reading"
    BY <1>5 DEF Breaks, BoardTypes
  <2>. QED  BY <1>1, <1>5, <2>1, ZenonT(60) DEF Breaks, BoardTypes, Reading
<1>. QED  BY <1>2, <1>3, <1>4, <1>5 DEF Serve

----
(* The steps of the workers, the runner, Cuebot and the farm. *)

\* A task is taken.
LEMMA PopKeeps ==
  ASSUME RunnerInv, TreeInv, PopTask
  PROVE  TreeInv'
<1>1. PoolTypes'
  BY PopType DEF PopTask, TreeInv
<1>2. BoardTypes'
  BY DEF PopTask, TreeInv, boardVars, BoardTypes, Reading
<1>3. TreeTypes' /\ Account'
  BY AccountSame DEF PopTask, PoolOnly
<1>. QED  BY <1>1, <1>2, <1>3 DEF TreeInv

\* A job is worked on.
LEMMA WorkerKeeps ==
  ASSUME RunnerInv, TreeInv, NEW job \in running,
         Fetch(job) \/ FetchFails(job) \/ AskBoard(job) \/ GetBoard(job)
           \/ Finish(job)
  PROVE  TreeInv'
<1>0. /\ PoolTypes /\ BoardTypes /\ RunningTypes /\ version \in Versions
      /\ 0 \in Versions /\ job \in Jobs
  BY RanBound, BoundsType DEF TreeInv, PoolTypes, RunningTypes, Versions
<1>1. UNCHANGED <<acting, acted, ran, submitted, tree, version>>
  BY DEF Fetch, FetchFails, AskBoard, GetBoard, Finish, PoolOnly, Arrive, Close
<1>2. left' = left \/ Spend("turns")
  BY DEF Fetch, FetchFails, AskBoard, GetBoard, Finish
<1>3. TreeTypes' /\ Account'
  BY <1>1, <1>2, AccountSame
<1>5. CASE Fetch(job) \/ FetchFails(job)
  <2>1. PICK got \in Versions \cup {Failed} : Moves(job, "end", got)
    BY <1>0, <1>5 DEF Fetch, FetchFails
  <2>2. RunningTypes'
    BY <1>0, <2>1, MovesType
  <2>3. UNCHANGED <<queue, done, boardVars>>
    BY <1>5 DEF Fetch, FetchFails
  <2>4. PoolTypes'
    BY <1>0, <2>2, <2>3 DEF PoolTypes, RunningTypes
  <2>5. BoardTypes'
    BY <1>0, <2>3 DEF boardVars, BoardTypes, Reading
  <2>. QED  BY <1>3, <2>4, <2>5 DEF TreeInv
<1>6. CASE AskBoard(job)
  <2>1. RunningTypes'
    BY <1>0, <1>6, MovesType DEF AskBoard
  <2>2. PoolTypes'
    BY <1>0, <1>6, <2>1 DEF AskBoard, PoolTypes, RunningTypes
  <2>3. job.task.of \in Callers /\ job.task.fresh \in BOOLEAN
    BY <1>0, <1>6, TablesAssumption DEF AskBoard, Jobs
  <2>4. BoardTypes'
    BY <1>0, <1>6, <2>3, ArriveType DEF AskBoard
  <2>. QED  BY <1>3, <2>2, <2>4 DEF TreeInv
<1>7. CASE GetBoard(job)
  <2>1. job.task.of \in Callers
    BY <1>0, <1>7, TablesAssumption DEF GetBoard
  <2>2. BoardTypes' /\ call[job.task.of].got \in Versions
    BY <1>0, <1>7, <2>1, CloseType DEF GetBoard
  <2>3. PICK got \in Versions \cup {Failed} : Moves(job, "end", got)
    BY <1>7, <2>2 DEF GetBoard
  <2>4. RunningTypes'
    BY <1>0, <2>3, MovesType
  <2>5. PoolTypes'
    BY <1>0, <1>7, <2>4 DEF GetBoard, PoolTypes, RunningTypes
  <2>. QED  BY <1>3, <2>2, <2>5 DEF TreeInv
<1>8. CASE Finish(job)
  <2>1. PoolTypes'
    BY <1>0, <1>8, HandOverType DEF Finish
  <2>2. BoardTypes'
    BY <1>0, <1>8 DEF Finish, boardVars, BoardTypes, Reading
  <2>. QED  BY <1>3, <2>1, <2>2 DEF TreeInv
<1>. QED  BY <1>5, <1>6, <1>7, <1>8

\* The runner: what it has taken has run, what it reports is called back.
LEMMA ActionKeeps ==
  ASSUME RunnerInv, RunnerInv', TreeInv, TakeAction \/ TakeExit \/ Act \/ ActFails
  PROVE  TreeInv'
<1>0. UNCHANGED <<poolVars, boardVars, tree, submitted>>
  BY DEF TakeAction, TakeExit, Act, ActFails, Others, Take, TakePoison, Report
<1>1. PoolTypes' /\ BoardTypes'
  BY <1>0 DEF TreeInv, poolVars, boardVars, PoolTypes, BoardTypes, Reading
<1>2. /\ acted \in Seq(Action) /\ version \in Nat /\ ran \in Seq(Nat)
      /\ submitted + left.actions = MaxActions
      /\ left \in [actions : Nat, ticks : Nat, turns : Nat]
      /\ left.turns \in Nat /\ left.ticks \in Nat
  BY AccountTypes, SpendType DEF TreeInv, TreeTypes
<1>3. ran' \in Seq(Nat) /\ Len(ran) \in Nat /\ Len(acted) \in Nat
      /\ acting \in Action
  BY <1>2 DEF RunnerInv, RunnerTypes
<1>. DEFINE k == left.turns
            l == left'.turns
            r == Len(ran)
            n == Len(ran')
            a == Len(acted)
            b == Len(acted')
<1>4. CASE TakeAction
  <2>1. /\ UNCHANGED <<acted, version, left>> /\ acting = NoAction
        /\ ran' = Append(ran, Head(pending).id)
    BY <1>4 DEF TakeAction, Take
  <2>2. n = r + 1
    BY <1>2, <1>3, <2>1
  <2>3. Busy = 0 /\ Busy' \in {0, 1}
    BY <2>1 DEF Busy
  <2>4. Claims = a + 0 /\ Claims' = a + Busy'
    BY <2>1, <2>3 DEF Claims
  <2>5. /\ version + Busy' + k + r <= version + Busy + k + n
        /\ (a + Busy') + r <= (a + 0) + n
    <3>1. k \in Nat /\ r \in Nat /\ a \in Nat /\ version \in Nat
          /\ Busy' \in Nat /\ Busy' <= 1
      BY <1>2, <1>3, <2>3
    <3>2. \A v, x, i, j \in Nat : x <= 1 => v + x + i + j <= v + 0 + i + (j + 1)
      OBVIOUS
    <3>3. \A x, i, j \in Nat : x <= 1 => (i + x) + j <= (i + 0) + (j + 1)
      OBVIOUS
    <3>4. version + Busy' + k + r <= version + 0 + k + (r + 1)
      BY <3>1, <3>2
    <3>5. (a + Busy') + r <= (a + 0) + (r + 1)
      BY <3>1, <3>3
    <3>. QED  BY <2>2, <2>3, <3>4, <3>5
  <2>6. left'.ticks <= left.ticks
    BY <1>2, <2>1
  <2>7. TreeTypes' /\ Account'
    BY <1>0, <1>2, <1>3, <2>1, <2>4, <2>5, <2>6, AccountKeeps
  <2>. QED  BY <1>1, <2>7 DEF TreeInv
<1>5. CASE TakeExit
  <2>1. /\ UNCHANGED <<acted, version, left, ran>> /\ acting = NoAction
        /\ acting' = Ended
    BY <1>5 DEF TakeExit, TakePoison
  <2>2. Busy = 0 /\ Busy' = 0 /\ Claims' = Claims
    BY <2>1 DEF Busy, Claims
  <2>3. Claims \in Nat
    BY RanBound
  <2>4. /\ version + 0 + k + r <= version + 0 + k + r
        /\ Claims + r <= Claims + r
        /\ left'.ticks <= left.ticks
    BY <1>2, <1>3, <2>1, <2>3
  <2>5. TreeTypes' /\ Account'
    BY <1>0, <1>2, <1>3, <2>1, <2>2, <2>4, AccountKeeps
  <2>. QED  BY <1>1, <2>5 DEF TreeInv
<1>6. CASE Act \/ ActFails
  <2>1. /\ acting \notin {NoAction, Ended} /\ acting' = NoAction
        /\ acted' = Append(acted, acting) /\ ran' = ran
    BY <1>6 DEF Act, ActFails, Report
  <2>2. Busy = 1 /\ Busy' = 0
    BY <2>1 DEF Busy
  <2>3. acted' \in Seq(Action) /\ b = a + 1 /\ a \in Nat
    BY <1>2, <1>3, <2>1
  <2>4. Claims = a + 1 /\ Claims' = b + 0
    BY <2>2 DEF Claims
  <2>5. /\ left' \in [actions : Nat, ticks : Nat, turns : Nat]
        /\ left'.actions = left.actions /\ left'.ticks = left.ticks
        /\ l \in Nat /\ l <= k /\ version' \in Nat /\ version' <= version + 1
    <3>1. CASE Act
      BY <1>2, <3>1 DEF Act
    <3>2. CASE ActFails
      BY <1>2, <3>2, SpendType DEF ActFails
    <3>. QED  BY <1>6, <3>1, <3>2
  <2>6. /\ version' + 0 + l + r <= version + 1 + k + r
        /\ (b + 0) + r <= (a + 1) + r
    <3>1. /\ k \in Nat /\ l \in Nat /\ l <= k /\ r \in Nat /\ a \in Nat
          /\ b = a + 1 /\ version \in Nat /\ version' \in Nat
          /\ version' <= version + 1
      BY <1>2, <1>3, <2>3, <2>5
    <3>2. \A v, w, i, j, m \in Nat : v <= w + 1 /\ i <= j
                                       => v + 0 + i + m <= w + 1 + j + m
      OBVIOUS
    <3>3. \A i, j \in Nat : ((i + 1) + 0) + j <= (i + 1) + j
      OBVIOUS
    <3>4. version' + 0 + l + r <= version + 1 + k + r
      BY <3>1, <3>2
    <3>5. (b + 0) + r <= (a + 1) + r
      BY <3>1, <3>3
    <3>. QED  BY <3>4, <3>5
  <2>7. left'.ticks <= left.ticks
    BY <1>2, <2>5
  <2>8. submitted' + left'.actions = MaxActions
    BY <1>0, <1>2, <2>5
  <2>9. TreeTypes' /\ Account'
    BY <1>0, <1>2, <1>3, <2>1, <2>2, <2>3, <2>4, <2>5, <2>6, <2>7, <2>8, AccountKeeps
  <2>. QED  BY <1>1, <2>9 DEF TreeInv
<1>. QED  BY <1>4, <1>5, <1>6

\* Cuebot answers, the other CueGUIs ask, the farm changes.
LEMMA FarmKeeps ==
  ASSUME RunnerInv, TreeInv,
         \/ \E c \in Callers : Answer(c) \/ AnswerBreaks(c)
         \/ \E o \in Elsewhere : Poll(o) \/ Polled(o)
         \/ FarmChanges
  PROVE  TreeInv'
<1>0. PoolTypes /\ BoardTypes /\ version \in Versions /\ Elsewhere \subseteq Callers
  BY RanBound, TablesAssumption DEF TreeInv
<1>1. UNCHANGED <<poolVars, runnerVars, submitted, ran, tree>>
  BY DEF Answer, AnswerBreaks, Poll, Polled, FarmChanges, RunnerOnly
<1>2. PoolTypes'
  BY <1>0, <1>1 DEF PoolTypes, poolVars
<1>3. BoardTypes'
  <2>1. CASE \E c \in Callers : Answer(c) \/ AnswerBreaks(c)
    BY <1>0, <2>1, ServeType DEF Answer, AnswerBreaks
  <2>2. CASE \E o \in Elsewhere : Poll(o) \/ Polled(o)
    BY <1>0, <2>2, ArriveType, CloseType DEF Poll, Polled
  <2>3. CASE FarmChanges
    BY <1>0, <2>3 DEF FarmChanges, boardVars, BoardTypes, Reading
  <2>. QED  BY <2>1, <2>2, <2>3
<1>4. CASE version' = version
  <2>1. left' = left \/ Spend("turns")
    BY <1>4, BoundsType DEF Answer, AnswerBreaks, Poll, Polled, FarmChanges
  <2>. QED  BY <1>1, <1>2, <1>3, <1>4, <2>1, AccountSame DEF runnerVars, TreeInv
<1>5. CASE FarmChanges
  <2>1. Spend("turns") /\ version' = version + 1
    BY <1>5 DEF FarmChanges
  <2>2. /\ left' \in [actions : Nat, ticks : Nat, turns : Nat]
        /\ left.turns \in Nat /\ left'.turns = left.turns - 1 /\ left.turns > 0
        /\ left'.actions = left.actions
        /\ left'.ticks = left.ticks /\ left.ticks \in Nat
    BY <2>1, SpendType
  <2>3. /\ acted \in Seq(Action) /\ version \in Nat /\ ran \in Seq(Nat)
        /\ submitted + left.actions = MaxActions
        /\ Busy \in Nat /\ Claims \in Nat /\ Len(ran) \in Nat
    BY RanBound, AccountTypes
  <2>4. Busy' = Busy /\ Claims' = Claims
    BY <1>1 DEF runnerVars, Busy, Claims
  <2>5. (version + 1) + Busy + left'.turns + Len(ran)
          <= version + Busy + left.turns + Len(ran)
    <3>. DEFINE k == left.turns
                l == left'.turns
                r == Len(ran)
    <3>1. k \in Nat /\ l = k - 1 /\ r \in Nat
      BY <2>2, <2>3
    <3>2. (version + 1) + Busy + l + r <= version + Busy + k + r
      <4>. HIDE DEF k, l, r
      <4>. QED  BY <2>3, <3>1
    <3>. QED  BY <3>2
  <2>6. left'.ticks <= left.ticks /\ Claims + Len(ran) <= Claims + Len(ran)
    BY <2>2, <2>3
  <2>7. TreeTypes' /\ Account'
    BY <1>1, <2>1, <2>2, <2>3, <2>4, <2>5, <2>6, AccountKeeps DEF runnerVars
  <2>. QED  BY <1>2, <1>3, <2>7 DEF TreeInv
<1>. QED  BY <1>4, <1>5
          DEF Answer, AnswerBreaks, Poll, Polled, Serve, Hit, StartQuery,
              FinishQuery, Breaks, Arrive, Close

----
(* The theorem. *)

\* The application has just started.
LEMMA TreeStart == TreeInit => TreeInv
<1>. SUFFICES ASSUME TreeInit PROVE TreeInv
  OBVIOUS
<1>1. 0 \in Versions /\ 0 \in Seqs /\ 1 \in Nat
  BY BoundsType DEF Versions, Seqs
<1>2. PoolTypes
  <2>1. queue = <<>> /\ running = {} /\ done = <<>>
    BY DEF TreeInit, PoolInit
  <2>2. IsFiniteSet({}) /\ Cardinality({}) = 0
    BY FS_EmptySet
  <2>3. queue \in Queues
    BY <2>1 DEF Queues
  <2>. QED  BY <2>1, <2>2, <2>3, BoundsType DEF PoolTypes
<1>3. BoardTypes
  BY <1>1 DEF TreeInit, BoardInit, BoardTypes, NoCall, Reading
<1>4. TreeTypes
  BY <1>1, BoundsType
     DEF TreeInit, BoardInit, RunnerInit, TreeTypes, NewTree, States
<1>5. Account
  <2>1. /\ acting = NoAction /\ acted = <<>> /\ ran = <<>> /\ submitted = 0
        /\ version = 1
        /\ left = [actions |-> MaxActions, ticks |-> MaxTicks, turns |-> MaxTurns]
        /\ tree = [t \in Trees |-> NewTree]
    BY DEF TreeInit, BoardInit, RunnerInit
  <2>2. /\ Busy = 0 /\ Claims = 0 /\ Len(ran) = 0
        /\ \A t \in Trees : Fetches(t) = 0 /\ tree[t].timers = 0
    BY <2>1 DEF Busy, Claims, Fetches, NewTree
  <2>. QED  BY <2>1, <2>2, BoundsType DEF Account
<1>. QED  BY <1>2, <1>3, <1>4, <1>5 DEF TreeInv

\* A step that changes nothing.
LEMMA TreeSame ==
  ASSUME RunnerInv, TreeInv, UNCHANGED treeVars
  PROVE  TreeInv'
<1>1. PoolTypes' /\ BoardTypes'
  BY DEF TreeInv, treeVars, PoolTypes, BoardTypes, Reading
<1>2. TreeTypes' /\ Account'
  BY AccountSame DEF treeVars
<1>. QED  BY <1>1, <1>2 DEF TreeInv

\* Every step keeps the invariant.
LEMMA TreeStep ==
  RunnerInv /\ RunnerInv' /\ TreeInv /\ [TreeNext]_treeVars => TreeInv'
<1>. SUFFICES ASSUME RunnerInv, RunnerInv', TreeInv, [TreeNext]_treeVars
              PROVE  TreeInv'
  OBVIOUS
<1>1. CASE UNCHANGED treeVars
  BY <1>1, TreeSame
<1>2. ASSUME NEW t \in Trees,
             Tick(t) \/ PickShows(t) \/ Choose(t) \/ TimerFires(t) \/ Works(t)
      PROVE  TreeInv'
  BY <1>2, TickKeeps, ChooseKeeps, TimerKeeps, WorkerKeeps DEF Works
<1>3. CASE Acted \/ Deliver \/ Quit \/ Leave
  BY <1>3, ActedKeeps, DeliverKeeps, QuitKeeps
<1>4. CASE PopTask
  BY <1>4, PopKeeps
<1>5. CASE \E job \in running : FetchFails(job)
  BY <1>5, WorkerKeeps
<1>6. CASE TakeAction \/ TakeExit \/ Act \/ ActFails
  BY <1>6, ActionKeeps
<1>7. CASE \/ \E c \in Callers : Answer(c) \/ AnswerBreaks(c)
           \/ \E o \in Elsewhere : Poll(o) \/ Polled(o)
           \/ FarmChanges
  BY <1>7, FarmKeeps
<1>. QED  BY <1>1, <1>2, <1>3, <1>4, <1>5, <1>6, <1>7 DEF TreeNext

\* The invariant gives the types: no table numbers more fetches than it had
\* ticks and actions, and what is shown is a state the farm was in.
LEMMA TreeInvTypes == RunnerInv /\ TreeInv => TreeTypeOK
<1>. SUFFICES ASSUME RunnerInv, TreeInv PROVE TreeTypeOK
  OBVIOUS
<1>1. /\ \A i, j \in DOMAIN queue : queue[i].comment = queue[j].comment => i = j
      /\ running \subseteq Jobs /\ Cardinality(running) <= Workers
      /\ \A i \in DOMAIN done : done[i] \in Jobs
  BY DEF TreeInv, PoolTypes, Queues
<1>2. /\ call \in [Callers -> [at : {"none", "waiting", "reading", "answered"},
                               fresh : BOOLEAN, got : Versions]]
  BY DEF TreeInv, BoardTypes
<1>3. Cardinality(Reading) <= 1
  <2>1. CASE Reading = {}
    BY <2>1, FS_EmptySet
  <2>2. CASE Reading # {}
    <3>1. PICK c : c \in Reading
      BY <2>2
    <3>2. Reading = {c}
      BY <3>1 DEF TreeInv, BoardTypes
    <3>3. Cardinality({c}) = 1
      BY FS_Singleton
    <3>. QED  BY <3>2, <3>3
  <2>. QED  BY <2>1, <2>2
<1>4. ASSUME NEW t \in Trees
      PROVE  tree[t].seq \in Seqs /\ tree[t].timers \in 0..MaxActions
  <2>. DEFINE seq == tree[t].seq
              m == tree[t].timers
              k == left.ticks
              r == Len(ran)
  <2>1. /\ seq \in Nat /\ m \in Nat /\ k \in Nat /\ r \in Nat /\ r <= MaxActions
        /\ Claims \in Nat /\ MaxTicks \in Nat /\ MaxActions \in Nat
    BY FetchesType, RanBound, BoundsType
  <2>2. (seq + m) + Claims + k <= MaxTicks + r /\ m + Claims <= r
    BY DEF TreeInv, Account, Fetches
  <2>3. seq \in 0..(MaxActions + MaxTicks) /\ m \in 0..MaxActions
    <3>. HIDE DEF seq, m, k, r
    <3>. QED  BY <2>1, <2>2
  <2>. QED  BY <2>3 DEF Seqs
<1>5. tree \in [Trees -> [seq : Seqs, applied : Seqs, inFlight : BOOLEAN,
                          forced : BOOLEAN, fresh : BOOLEAN,
                          timers : 0..MaxActions, shown : Versions]]
  BY <1>4 DEF TreeInv, TreeTypes, States
<1>. QED  BY <1>1, <1>2, <1>3, <1>5 DEF TreeTypeOK

\* The queue holds one task per comment at most, a query is run by one caller
\* at a time, and every number keeps its bounds.
THEOREM TreeTypeCorrect == TreeSpec => []TreeTypeOK
  BY RunnerInvInit, RunnerInvNext, TreeStart, TreeStep, TreeInvTypes, PTL DEF TreeSpec
====
