------------------------------ MODULE Depends -------------------------------
(***************************************************************************)
(* Dependencies: what happens after a frame ended until the frames that    *)
(* wait for it may run.                                                    *)
(*                                                                         *)
(* A frame has a count of the active depends that hold it, kept beside the *)
(* depend rows; triggers move it between DEPEND and WAITING with that      *)
(* count.  DependManagerService takes part in a transaction only when its  *)
(* caller has one, and none of the callers here has: each statement of a   *)
(* satisfaction, a creation or a reactivation commits alone, so each is an *)
(* action of its own.  Depends of a launch are created inside its          *)
(* transaction and are there from the start.                               *)
(***************************************************************************)
EXTENDS Integers, Sequences, FiniteSets

CONSTANTS
    Frames,
    Layers,      \* sets of frames
    Deps,        \* depend rows (b_composite = false)
    Nothing,     \* no frame, no depend
    Row,         \* [Deps -> DependRow], the columns that never change
    Launches,    \* the rows a job spec may bring; users create others
    Outcomes,    \* bound: how the runs of each frame may end
    Requests,    \* what users may do: subset of Request
    MaxRequests, \* bound: user requests per behaviour
    Faults,      \* what may go wrong: subset of Fault
    MaxFaults,   \* bound: faults per behaviour
    MaxTrouble,  \* bound: requests and faults together
    Retried,     \* bound: frames that users retry
    DependTries  \* DEPEND_MAX_RETRIES

Outcome == {"SUCCEEDED", "EATEN", "DEAD"}
Request == {"create", "retry", "eat", "drop", "unsatisfy", "mark"}
Fault == {"satisfy", "check", "stop", "stall"}

\* The statements of one satisfaction are milliseconds apart and the sweep
\* runs every ten minutes: its second phase does not fall between them, unless
\* a thread stalls there.
Stall == "stall" \in Faults

OnFrame == {"FRAME_ON_FRAME", "LAYER_ON_FRAME"}
OnLayer == {"FRAME_ON_LAYER", "LAYER_ON_LAYER"}

\* er waits for on; a layer is the set of its frames, a frame a singleton.
\* any: satisfied by the first frame of the layer that succeeds.
DependRow == [type : OnFrame \cup OnLayer, any : BOOLEAN,
              er : SUBSET Frames, on : SUBSET Frames]

ASSUME DependsAssumption ==
    /\ IsFiniteSet(Frames)
    /\ Layers \subseteq SUBSET Frames
    /\ \A f \in Frames : \E l \in Layers : f \in l
    /\ IsFiniteSet(Deps)
    /\ Nothing \notin Frames \cup Deps
    /\ Row \in [Deps -> DependRow]
    /\ Launches \subseteq SUBSET Deps /\ Launches # {}
    /\ Outcomes \in [Frames -> SUBSET Outcome]
    /\ Requests \subseteq Request
    /\ MaxRequests \in Nat
    /\ Faults \subseteq Fault
    /\ MaxFaults \in Nat
    /\ MaxTrouble \in Nat
    /\ Retried \subseteq Frames
    /\ DependTries \in Nat \ {0}

\* A frame is of one layer; a depend is on a frame or on a layer; only a depend
\* of a layer on a layer may be satisfied by any frame of it (createDepend of a
\* BuildableDependency).
ASSUME RowAssumption ==
    /\ {} \notin Layers
    /\ \A l, m \in Layers : l = m \/ l \cap m = {}
    /\ \A d \in Deps :
         /\ Row[d].type \in OnFrame => \E f \in Frames : Row[d].on = {f}
         /\ Row[d].type \in OnLayer => Row[d].on \in Layers
         /\ Row[d].any => Row[d].type = "LAYER_ON_LAYER"

VARIABLES
    frame,        \* frame rows: state and int_depend_count
    depend,       \* b_active of the depend rows that exist
    queue,        \* postCompleteQueue
    arming,       \* a completion was offered, scheduleScoop not reached
    scheduled,    \* scoopScheduled
    submitted,    \* a task waits in postCompleteExecutor
    post,         \* the task its one thread runs
    sat,          \* satisfyDepend in progress, by who called it
    sweep,        \* recoverStuckDependencies: "idle" or "satisfy"
    user,         \* a request that creates or reactivates depends
    requestsLeft, faultsLeft,
    excused       \* history: frames a user has overridden or left uncharged

bounds == <<requestsLeft, faultsLeft>>
scoopVars == <<queue, arming, scheduled, submitted, post>>
vars == <<frame, depend, scoopVars, sat, sweep, user, bounds, excused>>

FrameState == {"DEPEND", "WAITING", "RUNNING", "SUCCEEDED", "DEAD", "EATEN"}
Satisfier == {"post", "sweep", "user"}

Completion == [frame : Frames, result : Outcome]

FrameRow == [state : FrameState, count : Nat]

\* A task of the worker: the completions it has yet to file, the layers it has
\* yet to check, and the frame or layer whose depends it is satisfying.
PostTask ==
    [pc : {"off", "file", "layer", "lower", "recheck"},
     scoop : Seq(Completion), layers : SUBSET Layers,
     item : Frames \cup {Nothing}, tries : 0..DependTries]

\* A satisfaction: the depends still to satisfy, the one in hand and the frames
\* whose count is still to go down for it.
Satisfaction ==
    [pc : {"next", "read", "count"}, todo : SUBSET Deps,
     cur : Deps \cup {Nothing}, left : SUBSET Frames]

UserTask ==
    [pc : {"idle", "insert", "charge", "read", "onFrame", "onLayer", "mark"},
     frame : Frames \cup {Nothing}, cur : Deps \cup {Nothing},
     row : {"active", "inactive"},
     todo : SUBSET Deps, left : SUBSET Frames]

TypeOK ==
    /\ frame \in [Frames -> FrameRow]
    /\ depend \in [Deps -> {"absent", "active", "inactive"}]
    /\ queue \in Seq(Completion)
    /\ arming \in BOOLEAN
    /\ scheduled \in BOOLEAN
    /\ submitted \in BOOLEAN
    /\ post \in PostTask
    /\ sat \in [Satisfier -> Satisfaction]
    /\ sweep \in {"idle", "satisfy"}
    /\ user \in UserTask
    /\ requestsLeft \in 0..MaxRequests
    /\ faultsLeft \in 0..MaxFaults
    /\ excused \subseteq Frames

LayerOf(f) == CHOOSE l \in Layers : f \in l

\* The active depends that hold a frame.
Holding(f) == {d \in Deps : depend[d] = "active" /\ f \in Row[d].er}

NoSat == [pc |-> "next", todo |-> {}, cur |-> Nothing, left |-> {}]
PostOff == [pc |-> "off", scoop |-> <<>>, layers |-> {}, item |-> Nothing,
            tries |-> 0]
UserIdle == [pc |-> "idle", frame |-> Nothing, cur |-> Nothing,
             row |-> "active", todo |-> {}, left |-> {}]

Idle(a) == sat[a].pc = "next" /\ sat[a].todo = {}

Init ==
    /\ \E launch \in Launches :
           depend = [d \in Deps |-> IF d \in launch THEN "active" ELSE "absent"]
    /\ frame = [f \in Frames |->
                  LET n == Cardinality(Holding(f)) IN
                  [state |-> IF n > 0 THEN "DEPEND" ELSE "WAITING",
                   count |-> n]]
    /\ queue = <<>>
    /\ arming = FALSE
    /\ scheduled = FALSE
    /\ submitted = FALSE
    /\ post = PostOff
    /\ sat = [a \in Satisfier |-> NoSat]
    /\ sweep = "idle"
    /\ user = UserIdle
    /\ requestsLeft = MaxRequests
    /\ faultsLeft = MaxFaults
    /\ excused = {}

Trouble == MaxRequests - requestsLeft + MaxFaults - faultsLeft

Spend(fault) ==
    /\ fault \in Faults
    /\ faultsLeft > 0 /\ Trouble < MaxTrouble
    /\ faultsLeft' = faultsLeft - 1
    /\ UNCHANGED requestsLeft

Asked(request) ==
    /\ request \in Requests
    /\ requestsLeft > 0 /\ Trouble < MaxTrouble
    /\ requestsLeft' = requestsLeft - 1
    /\ UNCHANGED faultsLeft

-----------------------------------------------------------------------------
(* Frame rows.                                                             *)

\* What the triggers make of an update of row old into row new.
Triggered(old, new) ==
    IF old.state = "DEPEND" /\ old.count > 0 /\ new.count = 0
    THEN [new EXCEPT !.state = "WAITING"]
    ELSE IF new.count > 0 /\ new.state \in {"DEAD", "SUCCEEDED", "WAITING"}
    THEN [new EXCEPT !.state = "DEPEND"]
    ELSE IF new.state = "EATEN" /\ old.state = "SUCCEEDED"
    THEN [new EXCEPT !.state = "SUCCEEDED"]
    ELSE new

SetFrame(f, new) ==
    frame' = [frame EXCEPT ![f] = Triggered(frame[f], new)]

SetState(f, s) == SetFrame(f, [frame[f] EXCEPT !.state = s])
IncrementDependCount(f) == SetFrame(f, [frame[f] EXCEPT !.count = @ + 1])

\* Mutant: the decrement without its fence int_depend_count > 0.
DecrementUnfenced(f) == SetFrame(f, [frame[f] EXCEPT !.count = @ - 1])

DecrementDependCount(f) ==
    IF frame[f].count > 0
    THEN SetFrame(f, [frame[f] EXCEPT !.count = @ - 1])
    ELSE UNCHANGED frame

Complete(f) == frame[f].state \in {"SUCCEEDED", "EATEN"}

\* Mutant: a layer is complete when nothing of it is to be dispatched.
NothingToDispatch(l) ==
    \A f \in l : frame[f].state \notin {"WAITING", "RUNNING", "DEPEND"}

IsLayerComplete(l) == \A f \in l : Complete(f)

\* getWhatDependsOn, of a frame and of a layer, by b_active.
WhatDependsOnFrame(f, active) ==
    {d \in Deps : /\ depend[d] = active
                  /\ f \in Row[d].on
                  /\ \/ Row[d].type \in OnFrame
                     \/ Row[d].type = "LAYER_ON_LAYER" /\ Row[d].any}
WhatDependsOnLayer(l, active) ==
    {d \in Deps : depend[d] = active /\ Row[d].type \in OnLayer
                                     /\ Row[d].on = l}

-----------------------------------------------------------------------------
(* Runs of frames: FrameRun has how they start and end.                    *)

Start(f) ==
    /\ frame[f].state = "WAITING"
    /\ SetState(f, "RUNNING")
    /\ UNCHANGED <<depend, scoopVars, sat, sweep, user, bounds, excused>>

\* The drain stopped the frame and offers the completion to the worker.
Finish(f, result) ==
    /\ frame[f].state = "RUNNING"
    /\ ~arming
    /\ SetState(f, result)
    /\ queue' = Append(queue, [frame |-> f, result |-> result])
    /\ arming' = TRUE
    /\ UNCHANGED <<depend, scheduled, submitted, post, sat, sweep, user, bounds,
                   excused>>

\* compareAndSet(false, true), and the submission if it succeeded.
ScheduleScoop ==
    /\ scheduled' = TRUE
    /\ submitted' = (submitted \/ ~scheduled)

QueuePostOps ==
    /\ arming
    /\ arming' = FALSE
    /\ ScheduleScoop
    /\ UNCHANGED <<frame, depend, queue, post, sat, sweep, user, bounds, excused>>

-----------------------------------------------------------------------------
(* satisfyDepend, one statement at a time.                                 *)

Satisfying(a, new) == sat' = [sat EXCEPT ![a] = new]

\* Mutant: setInactive without its fence on b_active.
SetInactiveUnfenced(a, d) ==
    /\ sat[a].pc = "next"
    /\ d \in sat[a].todo
    /\ depend' = [depend EXCEPT ![d] = "inactive"]
    /\ Satisfying(a, [sat[a] EXCEPT !.pc = "read", !.cur = d,
                                    !.todo = @ \ {d}])
    /\ UNCHANGED <<frame, scoopVars, sweep, user, bounds, excused>>

\* setInactive, fenced by b_active; a depend that is not active any more is
\* passed over.
SetInactive(a, d) ==
    /\ sat[a].pc = "next"
    /\ d \in sat[a].todo
    /\ IF depend[d] = "active"
       THEN /\ depend' = [depend EXCEPT ![d] = "inactive"]
            /\ Satisfying(a, [sat[a] EXCEPT !.pc = "read", !.cur = d,
                                            !.todo = @ \ {d}])
       ELSE /\ Satisfying(a, [sat[a] EXCEPT !.todo = @ \ {d}])
            /\ UNCHANGED depend
    /\ UNCHANGED <<frame, scoopVars, sweep, user, bounds, excused>>

NextDepend(s) == [s EXCEPT !.pc = "next", !.cur = Nothing, !.left = {}]

\* getDependentFrames: those with a count.
GetDependentFrames(a) ==
    /\ sat[a].pc = "read"
    /\ LET fs == {f \in Row[sat[a].cur].er : frame[f].count > 0} IN
       Satisfying(a, IF fs = {} THEN NextDepend(sat[a])
                     ELSE [sat[a] EXCEPT !.pc = "count", !.left = fs])
    /\ UNCHANGED <<frame, depend, scoopVars, sweep, user, bounds, excused>>

Decrement(a, f) ==
    /\ sat[a].pc = "count"
    /\ f \in sat[a].left
    /\ DecrementDependCount(f)
    /\ Satisfying(a, IF sat[a].left = {f} THEN NextDepend(sat[a])
                     ELSE [sat[a] EXCEPT !.left = @ \ {f}])
    /\ UNCHANGED <<depend, scoopVars, sweep, user, bounds, excused>>

SatStep(a) ==
    \/ \E d \in Deps : SetInactive(a, d)
    \/ GetDependentFrames(a)
    \/ \E f \in Frames : Decrement(a, f)

-----------------------------------------------------------------------------
(* The post-complete worker: submitScoop and batchPostOps.  Usage counters *)
(* and job completion, filed between and after these, touch no depend.     *)

PostUnchanged == UNCHANGED <<frame, depend, arming, sweep, user, bounds, excused>>

\* The task begins, or has filed a scoop: drainTo takes the next one, all that
\* is queued (POST_COMPLETE_SCOOP_MAX is beyond any bound here), or the loop
\* ends.
ScoopFiled ==
    post.pc \in {"file", "layer"} /\ post.scoop = <<>> /\ post.layers = {}

DrainTo ==
    /\ Idle("post")
    /\ \/ post.pc = "off" /\ submitted /\ submitted' = FALSE
       \/ ScoopFiled /\ UNCHANGED submitted
    /\ IF queue = <<>>
       THEN post' = [PostOff EXCEPT !.pc = "lower"] /\ UNCHANGED queue
       ELSE /\ post' = [PostOff EXCEPT !.pc = "file", !.scoop = queue]
            /\ queue' = <<>>
    /\ UNCHANGED <<scheduled, sat>>
    /\ PostUnchanged

\* Mutant: only a frame with depends of its own puts its layer up.
FileFrameWithDepends ==
    /\ post.pc = "file"
    /\ Idle("post")
    /\ post.scoop # <<>>
    /\ LET c == Head(post.scoop)
           ds == WhatDependsOnFrame(c.frame, "active") IN
       IF c.result = "SUCCEEDED" /\ ds # {}
       THEN /\ post' = [post EXCEPT !.scoop = Tail(@), !.item = c.frame,
                                    !.layers = @ \cup {LayerOf(c.frame)},
                                    !.tries = 1]
            /\ Satisfying("post", [NoSat EXCEPT !.todo = ds])
       ELSE post' = [post EXCEPT !.scoop = Tail(@)] /\ UNCHANGED sat
    /\ UNCHANGED <<queue, scheduled, submitted>>
    /\ PostUnchanged

\* Phase one, fileFrame: a succeeded frame's depends, and its layer put up
\* for the check (depend.satisfy_only_on_frame_success = true).
FileFrame ==
    /\ post.pc = "file"
    /\ Idle("post")
    /\ post.scoop # <<>>
    /\ LET c == Head(post.scoop) IN
       IF c.result = "SUCCEEDED"
       THEN /\ post' = [post EXCEPT !.scoop = Tail(@), !.item = c.frame,
                                    !.layers = @ \cup {LayerOf(c.frame)},
                                    !.tries = 1]
            /\ Satisfying("post", [NoSat EXCEPT
                   !.todo = WhatDependsOnFrame(c.frame, "active")])
       ELSE post' = [post EXCEPT !.scoop = Tail(@)] /\ UNCHANGED sat
    /\ UNCHANGED <<queue, scheduled, submitted>>
    /\ PostUnchanged

\* Phase three, fileLayer, once per distinct layer.
CheckNext(l) ==
    /\ post.pc \in {"file", "layer"}
    /\ Idle("post")
    /\ post.scoop = <<>>
    /\ l \in post.layers

FileLayer(l) ==
    /\ CheckNext(l)
    /\ post' = [post EXCEPT !.pc = "layer", !.layers = @ \ {l}, !.tries = 1,
                             !.item = CHOOSE f \in Frames : LayerOf(f) = l]
    /\ IF IsLayerComplete(l)
       THEN Satisfying("post", [NoSat EXCEPT
                                  !.todo = WhatDependsOnLayer(l, "active")])
       ELSE UNCHANGED sat
    /\ UNCHANGED <<queue, scheduled, submitted>>
    /\ PostUnchanged

\* The finally block: the flag goes down, then the queue is looked at again.
LowerFlag ==
    /\ post.pc = "lower"
    /\ scheduled' = FALSE
    /\ post' = [post EXCEPT !.pc = "recheck"]
    /\ UNCHANGED <<queue, submitted, sat>>
    /\ PostUnchanged

\* Mutant: the queue is not looked at again.
RecheckNothing ==
    /\ post.pc = "recheck"
    /\ post' = PostOff
    /\ UNCHANGED <<queue, sat, scheduled, submitted>>
    /\ PostUnchanged

Recheck ==
    /\ post.pc = "recheck"
    /\ post' = PostOff
    /\ IF queue = <<>> THEN UNCHANGED <<scheduled, submitted>> ELSE ScheduleScoop
    /\ UNCHANGED <<queue, sat>>
    /\ PostUnchanged

PostStep ==
    \/ DrainTo
    \/ FileFrame
    \/ \E l \in Layers : FileLayer(l)
    \/ LowerFlag
    \/ Recheck

-----------------------------------------------------------------------------
(* recoverStuckDependencies.                                               *)

\* findStaleDependIds: active, and all they wait for succeeded.
StaleDepends ==
    {d \in Deps : /\ depend[d] = "active"
                  /\ \A f \in Row[d].on : frame[f].state = "SUCCEEDED"}

SweepFind ==
    /\ sweep = "idle"
    /\ sweep' = "satisfy"
    /\ Satisfying("sweep", [NoSat EXCEPT !.todo = StaleDepends])
    /\ UNCHANGED <<frame, depend, scoopVars, user, bounds, excused>>

\* fixStuckDependCounts, one statement.
\* Mutant: only a frame without any depend row is stuck.
StuckWithoutRows(f) ==
    /\ frame[f].state = "DEPEND"
    /\ frame[f].count > 0
    /\ \A d \in Deps : f \in Row[d].er => depend[d] = "absent"

StuckCount(f) ==
    /\ frame[f].state = "DEPEND"
    /\ frame[f].count > 0
    /\ Holding(f) = {}

SweepFix ==
    /\ sweep = "satisfy"
    /\ Idle("sweep")
    /\ Stall \/ \A a \in Satisfier : sat[a].pc = "next"
    /\ sweep' = "idle"
    /\ frame' = [f \in Frames |->
                   IF StuckCount(f)
                   THEN Triggered(frame[f], [frame[f] EXCEPT !.count = 0])
                   ELSE frame[f]]
    /\ UNCHANGED <<depend, scoopVars, sat, user, bounds, excused>>

-----------------------------------------------------------------------------
(* Users.                                                                  *)

UserUnchanged == UNCHANGED <<scoopVars, sat, sweep, excused>>

\* A request with nothing left to do is over.
OrDone(u) ==
    IF u.pc \in {"charge", "onLayer"} /\ u.todo = {} /\ u.left = {}
    THEN UserIdle
    ELSE u

\* createDepend: look whether it is complete already, insert, then charge the
\* waiting frames one by one.
CreateCheck(d) ==
    /\ user.pc = "idle"
    /\ depend[d] = "absent"
    /\ Asked("create")
    /\ user' = [UserIdle EXCEPT
                  !.pc = "insert", !.cur = d,
                  !.row = IF \A f \in Row[d].on : Complete(f)
                          THEN "inactive" ELSE "active"]
    /\ UNCHANGED <<frame, depend>>
    /\ UserUnchanged

CreateInsert ==
    /\ user.pc = "insert"
    /\ depend' = [depend EXCEPT ![user.cur] = user.row]
    /\ user' = IF user.row = "active"
               THEN OrDone([user EXCEPT !.pc = "charge", !.left = Row[user.cur].er])
               ELSE UserIdle
    /\ UNCHANGED <<frame, bounds>>
    /\ UserUnchanged

\* retryFrame of one frame: a running render is confirmed dead first, and the
\* statement may miss a frame that changed since it was read (FrameRun has both).
\* Then the depends on it, and on its layer, are made active again all the same.
RetryForce(f) ==
    /\ user.pc = "idle"
    /\ f \in Retried
    /\ Asked("retry")
    /\ SetState(f, "WAITING") \/ UNCHANGED frame
    /\ user' = [UserIdle EXCEPT !.pc = "read", !.frame = f]
    /\ UNCHANGED depend
    /\ UserUnchanged

RetryReadFrame ==
    /\ user.pc = "read"
    /\ user' = [user EXCEPT !.pc = "onFrame",
                            !.todo = WhatDependsOnFrame(user.frame, "inactive")]
    /\ UNCHANGED <<frame, depend, bounds>>
    /\ UserUnchanged

RetryReadLayer ==
    /\ user.pc = "onFrame" /\ user.todo = {} /\ user.left = {}
    /\ user' = OrDone([user EXCEPT
                  !.pc = "onLayer",
                  !.todo = WhatDependsOnLayer(LayerOf(user.frame), "inactive")])
    /\ UNCHANGED <<frame, depend, bounds>>
    /\ UserUnchanged

\* ManageDepend.unsatisfy: the same, of one depend.
UnsatisfyRequest(d) ==
    /\ user.pc = "idle"
    /\ depend[d] # "absent"
    /\ Asked("unsatisfy")
    /\ user' = [UserIdle EXCEPT !.pc = "onLayer", !.todo = {d}]
    /\ UNCHANGED <<frame, depend>>
    /\ UserUnchanged

\* unsatisfyDepend: setActive, for the two types it handles, and the list of
\* the frames to charge.
SetActive(d) ==
    /\ user.pc \in {"onFrame", "onLayer"}
    /\ user.left = {}
    /\ d \in user.todo
    /\ IF /\ depend[d] = "inactive"
          /\ Row[d].type \in {"FRAME_ON_FRAME", "LAYER_ON_LAYER"}
       THEN /\ depend' = [depend EXCEPT ![d] = "active"]
            /\ user' = OrDone([user EXCEPT !.todo = @ \ {d}, !.left = Row[d].er])
       ELSE /\ user' = OrDone([user EXCEPT !.todo = @ \ {d}])
            /\ UNCHANGED depend
    /\ UNCHANGED <<frame, bounds>>
    /\ UserUnchanged

Charge(f) ==
    /\ f \in user.left
    /\ IncrementDependCount(f)
    /\ user' = OrDone([user EXCEPT !.left = @ \ {f}])
    /\ UNCHANGED <<depend, bounds>>
    /\ UserUnchanged

\* eatFrame; a running render is killed and its report comes too late.
EatFrame(f) ==
    /\ Asked("eat")
    /\ SetState(f, "EATEN")
    /\ UNCHANGED <<depend, scoopVars, sat, sweep, user, excused>>

\* ManageDepend.satisfy of one depend, dropDepends of a frame's.
DropDepends(ds) ==
    /\ Idle("user")
    /\ ds # {}
    /\ Asked("drop")
    /\ Satisfying("user", [NoSat EXCEPT !.todo = ds])
    /\ UNCHANGED <<frame, depend, scoopVars, sweep, user, excused>>

WhatThisDependsOn(f) ==
    {d \in Holding(f) : Row[d].type \in {"FRAME_ON_FRAME", "FRAME_ON_LAYER"}}

\* markFrameAsWaiting: "no matter how many active depends".
MarkAsWaiting(f) ==
    /\ Asked("mark")
    /\ frame[f].state = "DEPEND"
    /\ frame' = [frame EXCEPT ![f] = [state |-> "WAITING", count |-> 0]]
    /\ excused' = excused \cup {f}
    /\ UNCHANGED <<depend, scoopVars, sat, sweep, user>>

\* GET_FRAME_DEPEND_COUNT asks for pk_layer_depend_er or pk_frame_depend_er,
\* and a depend of a frame has its layer's key too.
FrameDepends(f) ==
    {d \in Deps : depend[d] = "active" /\ Row[d].er \cap LayerOf(f) # {}}

\* markFrameAsDepend: they are counted, then the frame updated, if it is still
\* as it was found.
MarkAsDepend(f) ==
    /\ user.pc = "idle"
    /\ Asked("mark")
    /\ frame[f].state = "WAITING"
    /\ FrameDepends(f) # {}
    /\ user' = [UserIdle EXCEPT !.pc = "mark", !.frame = f,
                                !.todo = FrameDepends(f)]
    /\ UNCHANGED <<frame, depend>>
    /\ UserUnchanged

MarkUpdate ==
    /\ user.pc = "mark"
    /\ IF frame[user.frame].state = "WAITING"
       THEN /\ frame' = [frame EXCEPT ![user.frame] =
                            [state |-> "DEPEND", count |-> Cardinality(user.todo)]]
            /\ excused' = excused \cup {user.frame}
       ELSE UNCHANGED <<frame, excused>>
    /\ user' = UserIdle
    /\ UNCHANGED <<depend, scoopVars, sat, sweep, bounds>>

-----------------------------------------------------------------------------
(* Failures.                                                               *)

\* The depends the worker's retried operation reads again.
Reread ==
    IF post.pc = "file" THEN WhatDependsOnFrame(post.item, "active")
                        ELSE WhatDependsOnLayer(LayerOf(post.item), "active")

\* A statement throws.  The worker runs the whole operation again, up to
\* DEPEND_MAX_RETRIES times; the sweep goes on with its next depend; a user's
\* drop is over.
SatFails(a) ==
    /\ ~Idle(a)
    /\ Spend("satisfy")
    /\ IF a = "post" /\ post.tries < DependTries
       THEN /\ Satisfying(a, [NoSat EXCEPT !.todo = Reread])
            /\ post' = [post EXCEPT !.tries = @ + 1]
       ELSE /\ Satisfying(a, IF a = "sweep" THEN NextDepend(sat[a]) ELSE NoSat)
            /\ UNCHANGED post
    /\ UNCHANGED <<frame, depend, queue, arming, scheduled, submitted, sweep,
                   user, excused>>

\* isLayerComplete throws: that check is skipped.
CheckFails(l) ==
    /\ CheckNext(l)
    /\ Spend("check")
    /\ post' = [post EXCEPT !.pc = "layer", !.layers = @ \ {l}]
    /\ UNCHANGED <<frame, depend, queue, arming, scheduled, submitted, sat,
                   sweep, user, excused>>

\* A Cuebot stops: the one with the queue and its worker, the one that sweeps,
\* the one a request is in, or one that had all of these.
CuebotStops(lost) ==
    /\ Spend("stop")
    /\ IF "post" \in lost
       THEN /\ queue' = <<>>
            /\ arming' = FALSE
            /\ scheduled' = FALSE
            /\ submitted' = FALSE
            /\ post' = PostOff
       ELSE UNCHANGED scoopVars
    /\ sat' = [a \in Satisfier |-> IF a \in lost THEN NoSat ELSE sat[a]]
    /\ sweep' = IF "sweep" \in lost THEN "idle" ELSE sweep
    /\ IF "user" \in lost
       THEN user' = UserIdle /\ excused' = excused \cup user.left
       ELSE UNCHANGED <<user, excused>>
    /\ UNCHANGED <<frame, depend>>

-----------------------------------------------------------------------------
UserStep ==
    \/ CreateInsert
    \/ RetryReadFrame
    \/ RetryReadLayer
    \/ \E d \in Deps : SetActive(d)
    \/ \E f \in Frames : Charge(f)
    \/ MarkUpdate

UserRequest ==
    \/ \E d \in Deps : CreateCheck(d)
    \/ \E d \in Deps : UnsatisfyRequest(d)
    \/ \E ds \in {{d} : d \in {e \in Deps : depend[e] # "absent"}}
                 \cup {WhatThisDependsOn(f) : f \in Frames} : DropDepends(ds)
    \/ \E f \in Frames : RetryForce(f)
    \/ \E f \in Frames : EatFrame(f)
    \/ \E f \in Frames : MarkAsWaiting(f)
    \/ \E f \in Frames : MarkAsDepend(f)

Failure ==
    \/ \E a \in Satisfier : SatFails(a)
    \/ \E l \in Layers : CheckFails(l)
    \/ \E lost \in {{a} : a \in Satisfier} \cup {Satisfier} : CuebotStops(lost)

Next ==
    \/ \E f \in Frames : Start(f)
    \/ \E f \in Frames : \E r \in Outcomes[f] : Finish(f, r)
    \/ QueuePostOps
    \/ PostStep
    \/ \E a \in Satisfier : SatStep(a)
    \/ SweepFind
    \/ SweepFix
    \/ UserStep
    \/ UserRequest
    \/ Failure

Spec == Init /\ [][Next]_vars

(***************************************************************************)
(* Fairness: a satisfaction that has begun goes on, and the sweep comes    *)
(* again.  Nothing is asked of the worker, of frames, users or failures.   *)
(***************************************************************************)
Fairness ==
    /\ \A a \in Satisfier : WF_vars(SatStep(a))
    /\ WF_vars(SweepFind)
    /\ WF_vars(SweepFix)

FairSpec == Spec /\ Fairness

-----------------------------------------------------------------------------
(* Safety.                                                                 *)

\* The count never falls short of the active depends that hold the frame: no
\* depend is dropped from it twice, whoever satisfies, creates or reactivates
\* depends of the frame at once.  Excepted are frames whose count a user has
\* overridden, and those a request has yet to charge (createDepend inserts the
\* row first) or never charged because it died.
HeldBack ==
    \A f \in Frames \ (excused \cup user.left) :
        Cardinality(Holding(f)) =< frame[f].count

\* Nothing failed, nobody intervened and the worker has nothing left: every
\* depend whose frames have succeeded was satisfied and every count is exact,
\* with no help of the sweep.  Completions are filed one scoop after another,
\* a layer's last frame in any of them.
Undisturbed == requestsLeft = MaxRequests /\ faultsLeft = MaxFaults
Quiescent ==
    /\ queue = <<>> /\ ~arming /\ ~submitted /\ post.pc = "off"
    /\ \A a \in Satisfier : Idle(a)
FollowedUp ==
    Undisturbed /\ Quiescent =>
        /\ StaleDepends = {}
        /\ \A d \in Deps :
               depend[d] = "active" /\ Row[d].any =>
                   \A f \in Row[d].on : frame[f].state # "SUCCEEDED"
        /\ \A f \in Frames : frame[f].count = Cardinality(Holding(f))

\* A completion in the queue is never left without a task that will look at
\* the queue again: no offer falls between the worker's last look and its flag,
\* and the flag is never up without a task.
CompletionHasTask ==
    /\ queue # <<>> /\ ~arming => scheduled \/ post.pc = "recheck"
    /\ scheduled <=> submitted \/ post.pc \in {"file", "layer", "lower"}

\* A frame starts only after what it depends on, whatever fails, as long as no
\* user intervenes: the frame it waits for has succeeded, no frame of the layer
\* it waits for is to be run any more, or one has succeeded if any is enough.
Fulfilled(d) ==
    IF Row[d].type \in OnFrame
    THEN \A f \in Row[d].on : frame[f].state = "SUCCEEDED"
    ELSE \/ \A f \in Row[d].on : Complete(f)
         \/ Row[d].any /\ \E f \in Row[d].on : frame[f].state = "SUCCEEDED"
StartsAfterDepends ==
    [][requestsLeft = MaxRequests =>
         \A f \in Frames :
             frame[f].state # "RUNNING" /\ frame'[f].state = "RUNNING" =>
                 \A d \in Deps : depend[d] # "absent" /\ f \in Row[d].er =>
                     Fulfilled(d)]_vars

\* A frame goes into DEPEND because of a depend that holds it.
\* JobManager.markFrameAsDepend: "If the frame has no active depends this call
\* should have no effect".
DependHasDepend ==
    [][\A f \in Frames :
         frame[f].state = "WAITING" /\ frame'[f].state = "DEPEND" =>
             Holding(f)' # {}]_vars

(* Liveness, under FairSpec. *)

\* A frame whose depends all wait for succeeded frames leaves DEPEND, whatever
\* was lost between their success and its count: the sweep finds depends that
\* are still active, and counts that no depend accounts for.
Stranded(f) ==
    /\ frame[f].state = "DEPEND"
    /\ \A d \in Deps : depend[d] # "absent" /\ f \in Row[d].er =>
           \A g \in Row[d].on : frame[g].state = "SUCCEEDED"
NoneStranded == \A f \in Frames : []<>~Stranded(f)
=============================================================================
