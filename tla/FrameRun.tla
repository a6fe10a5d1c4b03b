------------------------------ MODULE FrameRun ------------------------------
(***************************************************************************)
(* The run of a frame under Maestro, from the batch commit that books it   *)
(* to the report, the maintenance pass or the user that ends it.           *)
(*                                                                         *)
(* A Cuebot thread reads a row, talks to a host, reads again and writes,   *)
(* and every other thread runs in between.  Such a thread is a member of   *)
(* tasks: pc is its next step and the other fields are what it has read so *)
(* far.  One action is one transaction, one read or one RPC of one thread; *)
(* a Cuebot that stops loses its tasks and nothing else.                   *)
(***************************************************************************)
EXTENDS RqdRuns

CONSTANTS
    Actors,     \* which optional threads run: subset of Actor
    Faults,     \* what may go wrong: subset of Fault
    MaxFaults,  \* bound: faults per behaviour
    MaxRequests,\* bound: user requests per behaviour
    MaxTrouble  \* bound: faults and requests together

Actor == {"lostProc", "sweep", "retry", "eat", "verify"}
Fault == {"unknown", "refuse", "cut", "die", "resend", "stop", "stall"}

\* Two reads a thread makes back to back are one step unless threads stall:
\* then any number of other steps may come between them.
Stall == "stall" \in Faults

ASSUME BoundsAssumption ==
    /\ Actors \subseteq Actor
    /\ Faults \subseteq Fault
    /\ MaxFaults \in Nat
    /\ MaxRequests \in Nat
    /\ MaxTrouble \in Nat

VARIABLES tasks, faultsLeft, requestsLeft

bounds == <<faultsLeft, requestsLeft>>
vars == <<tables, rqdVars, tasks, bounds>>

LaunchPc  == {"launch", "poll1", "poll2", "unbook", "clear", "kill"}
ReportPc  == {"resolve", "drain", "final", "final2", "final3",
              "stale", "stale2"}
LostPc    == {"lostKill", "lostDecide", "lostUnbook", "lostRead", "lostStop",
              "lostDetail", "lostHostDown"}
SweepPc   == {"orphanCheck", "orphanKill", "orphanPoll", "orphanReset"}
UserPc    == {"retryKill", "retryPoll", "retryStop", "retryRead", "retryForce",
              "eatStop", "eatKill", "eatForce"}

Pc == LaunchPc \cup ReportPc \cup LostPc \cup SweepPc \cup UserPc

(***************************************************************************)
(* ver is the int_version the thread has read.  arg is what else it knows: *)
(* a pending launch's age, the result a report carries, the state it will  *)
(* stop the frame into.  why is lostProc's exit status.                    *)
(***************************************************************************)
Arg == {"-", "fresh", "expired", "sent", "unsent", "ok", "fail"}
         \cup FrameState

Task ==
    [pc : Pc, proc : Procs \cup {NoProc}, frame : Frames \cup {NoFrame},
     ver : Nat, arg : Arg, why : {"-", "orphan", "down", "failedKill"}]

TypeOK ==
    /\ TablesTypeOK
    /\ RqdTypeOK
    /\ tasks \subseteq Task
    /\ faultsLeft \in Nat
    /\ requestsLeft \in Nat

Init ==
    /\ TablesInit
    /\ RqdInit
    /\ tasks = {}
    /\ faultsLeft = MaxFaults
    /\ requestsLeft = MaxRequests

NewTask(pc, p, f, v, arg, why) ==
    [pc |-> pc, proc |-> p, frame |-> f, ver |-> v, arg |-> arg, why |-> why]

Goes(t, pc) == tasks' = (tasks \ {t}) \cup {[t EXCEPT !.pc = pc]}
GoesWith(t, pc, arg) ==
    tasks' = (tasks \ {t}) \cup {[t EXCEPT !.pc = pc, !.arg = arg]}
GoesAt(t, pc, v, arg) ==
    tasks' = (tasks \ {t})
               \cup {[t EXCEPT !.pc = pc, !.ver = v, !.arg = arg]}
Done(t) == tasks' = tasks \ {t}

HostOf(t) == proc[t.proc].host

NobodyAsked == requestsLeft = MaxRequests

TroubleLeft ==
    (MaxFaults - faultsLeft) + (MaxRequests - requestsLeft) < MaxTrouble

Spend(fault) ==
    /\ fault \in Faults
    /\ faultsLeft > 0 /\ TroubleLeft
    /\ faultsLeft' = faultsLeft - 1
    /\ UNCHANGED requestsLeft

-----------------------------------------------------------------------------
(* Booking: one winner of startFramesAndProcsBatch.  The version read by    *)
(* the plan is the current one here: a booking that lost its race changes   *)
(* no row.  Evicted procs get a kill, except on the host being booked.      *)

\* Mutant: the proc row is inserted even when the frame update matched nothing.
BookLoser(f, p, h) ==
    /\ proc[p].row = "unused"
    /\ hw[h] = "UP"
    /\ frame' = IF StartMatches(f, frame[f].ver) THEN Started(f, p, h) ELSE frame
    /\ proc' = EvictedAndInserted(f, p, h)
    /\ UNCHANGED <<rqdVars, tasks, bounds>>

Book(f, p, h) ==
    /\ StartMatches(f, frame[f].ver)
    /\ proc[p].row = "unused"
    /\ hw[h] = "UP"
    /\ frame' = Started(f, p, h)
    /\ proc' = EvictedAndInserted(f, p, h)
    /\ tasks' = tasks
         \cup {NewTask("launch", p, f, frame[f].ver + 1, "fresh", "-")}
         \cup {NewTask("kill", q, f, 0, "-", "-") :
                 q \in {c \in ProcsOn(f) : proc[c].host # h}}
    /\ UNCHANGED <<rqdVars, bounds>>

(* launchOne, on a launch-pool thread. *)

LaunchUnsent(t) ==
    /\ t.pc = "launch"
    /\ \/ t.arg = "expired" /\ UNCHANGED bounds
       \/ t.arg = "fresh" /\ Spend("unknown")        \* launch breaker open
    /\ GoesWith(t, "unbook", "unsent")
    /\ UNCHANGED <<tables, rqdVars>>

LaunchAccepted(t) ==
    /\ t.pc = "launch"
    /\ t.arg = "fresh"
    /\ PollNotFound(HostOf(t), t.frame)
    /\ render' = render \cup {Attendant(t.proc, t.frame, HostOf(t))}
    /\ Done(t)
    /\ UNCHANGED <<tables, wire, report, net, hw, rebooted, bounds>>

\* Either the frame is in RQD's cache, or RQD has no room or is locked.
LaunchRefused(t) ==
    /\ t.pc = "launch"
    /\ t.arg = "fresh"
    /\ Reach(HostOf(t))
    /\ \/ PollRunning(HostOf(t), t.frame) /\ UNCHANGED bounds
       \/ PollNotFound(HostOf(t), t.frame) /\ Spend("refuse")
    /\ GoesWith(t, "unbook", "sent")
    /\ UNCHANGED <<tables, rqdVars>>

\* RqdLaunchUnknownOutcomeException: the request may still be delivered.
LaunchUnknown(t) ==
    /\ t.pc = "launch"
    /\ t.arg = "fresh"
    /\ IF Reach(HostOf(t)) THEN Spend("unknown") ELSE UNCHANGED bounds
    /\ \/ UNCHANGED wire
       \/ /\ net[HostOf(t)] # "dead"
          /\ wire' = wire \cup {[proc |-> t.proc, frame |-> t.frame,
                                 host |-> HostOf(t)]}
    /\ Goes(t, "poll1")
    /\ UNCHANGED <<tables, render, report, net, hw, rebooted>>

(* resolveUnknownLaunchOutcome: two polls, then release.  The second poll   *)
(* waits poll_interval_ms, by which time a request that reached the host    *)
(* has been processed and its attendant is past setup().                    *)

Underway(p) ==
    \/ \E m \in wire : m.proc = p
    \/ \E r \in render : r.proc = p /\ r.stage = "setup"

\* Mutant: the first poll that finds nothing releases the booking.
ConfirmPollOnce(t) ==
    /\ t.pc = "poll1"
    /\ IF PollNotFound(HostOf(t), t.frame)
         THEN GoesWith(t, "unbook", "unsent") ELSE Done(t)
    /\ UNCHANGED <<tables, rqdVars, bounds>>

ConfirmPoll(t) ==
    /\ t.pc \in {"poll1", "poll2"}
    /\ t.pc = "poll2" => ~Underway(t.proc)
    /\ IF PollNotFound(HostOf(t), t.frame)
         THEN IF t.pc = "poll1" THEN Goes(t, "poll2")
                                ELSE GoesWith(t, "unbook", "unsent")
         ELSE Done(t)
    /\ UNCHANGED <<tables, rqdVars, bounds>>

(* rollbackLaunch and the end of resolveUnknownLaunchOutcome: two           *)
(* transactions, and a kill when the launch was sent and the clear matched. *)

RollbackUnbook(t) ==
    /\ t.pc = "unbook"
    /\ proc' = DeletedIfThere(t.proc)
    /\ Goes(t, "clear")
    /\ UNCHANGED <<frame, rqdVars, bounds>>

RollbackClear(t) ==
    /\ t.pc = "clear"
    /\ IF ClearMatches(t.frame, t.ver)
         THEN /\ frame' = Cleared(t.frame)
              /\ IF t.arg = "sent" THEN Goes(t, "kill") ELSE Done(t)
         ELSE UNCHANGED frame /\ Done(t)
    /\ UNCHANGED <<proc, rqdVars, bounds>>

\* A kill whose result nobody looks at.
BestEffortKill(t) ==
    /\ t.pc = "kill"
    /\ render' = KilledRenders(HostOf(t), t.frame)
    /\ Done(t)
    /\ UNCHANGED <<tables, wire, report, net, hw, rebooted, bounds>>

LaunchStep(t) ==
    \/ LaunchUnsent(t) \/ LaunchAccepted(t) \/ LaunchRefused(t)
    \/ LaunchUnknown(t) \/ ConfirmPoll(t) \/ RollbackUnbook(t)
    \/ RollbackClear(t) \/ BestEffortKill(t)

-----------------------------------------------------------------------------
(* Completion reports.  The gRPC thread resolves a report (reads only) and  *)
(* queues it; the tick drains the queue in one transaction per completion.  *)

States(result) == IF result = "ok" THEN {"SUCCEEDED"} ELSE {"WAITING", "DEAD"}

\* The proc is read first, and decides which of the three paths is taken.
\* RQD re-sends a report whose acknowledgement it did not get.
ReportArrives(m) ==
    /\ Reach(proc[m.proc].host)
    /\ \/ report' = report \ {m} /\ UNCHANGED bounds
       \/ UNCHANGED report /\ Spend("resend")
    /\ LET result == IF m.ok THEN "ok" ELSE "fail"
           pc == IF proc[m.proc].row # "live" THEN "final"
                 ELSE IF proc[m.proc].frame = m.frame THEN "resolve"
                 ELSE "stale"
           ver == frame[m.frame].ver
       IN  IF pc = "resolve" /\ ~Stall
             THEN \E s \in States(result) : tasks' = tasks
                    \cup {NewTask("drain", m.proc, m.frame, ver, s, "-")}
             ELSE tasks' = tasks
                    \cup {NewTask(pc, m.proc, m.frame, 0, result, "-")}
    /\ UNCHANGED <<tables, render, wire, net, hw, rebooted>>

\* resolveForDrain reads the frame after the proc, and decides its state.
ResolveFrame(t) ==
    /\ t.pc = "resolve"
    /\ \E s \in States(t.arg) : GoesAt(t, "drain", frame[t.frame].ver, s)
    /\ UNCHANGED <<tables, rqdVars, bounds>>

\* stopFramesBatch for one completion; a loser is handed to the stale path.
DrainStop(t) ==
    /\ t.pc = "drain"
    /\ IF StopMatches(t.frame, t.ver)
         THEN /\ frame' = Stopped(t.frame, t.arg, "reported")
              /\ proc' = DeletedIfThere(t.proc)
              /\ Done(t)
         ELSE UNCHANGED tables /\ Goes(t, "stale")
    /\ UNCHANGED <<rqdVars, bounds>>

\* releaseStaleProc reads the proc again, and deletes it without a fence.
StaleRead(t) ==
    /\ t.pc = "stale"
    /\ IF proc[t.proc].row = "live" /\ proc[t.proc].frame = NoFrame
         THEN Goes(t, "stale2") ELSE Done(t)
    /\ UNCHANGED <<tables, rqdVars, bounds>>

StaleRelease(t) ==
    /\ t.pc = "stale2"
    /\ proc' = DeletedIfThere(t.proc)
    /\ Done(t)
    /\ UNCHANGED <<frame, rqdVars, bounds>>

\* finalizeOrphanedFrameComplete: read the frame, look for a proc, stop.
FinalRead(t) ==
    /\ t.pc = "final"
    /\ IF frame[t.frame].state = "RUNNING"
         THEN \E s \in States(t.arg) :
                GoesAt(t, "final2", frame[t.frame].ver, s)
         ELSE Done(t)
    /\ UNCHANGED <<tables, rqdVars, bounds>>

\* Mutant: no look at who holds the frame.
FinalAnyProc(t) ==
    /\ t.pc = "final2"
    /\ Goes(t, "final3")
    /\ UNCHANGED <<tables, rqdVars, bounds>>

FinalNoProc(t) ==
    /\ t.pc = "final2"
    /\ IF ProcsOn(t.frame) = {} THEN Goes(t, "final3") ELSE Done(t)
    /\ UNCHANGED <<tables, rqdVars, bounds>>

FinalStop(t) ==
    /\ t.pc = "final3"
    /\ IF StopMatches(t.frame, t.ver)
         THEN /\ frame' = Stopped(t.frame, t.arg, "reported")
              /\ proc' = Unassigned(t.frame)
         ELSE UNCHANGED tables
    /\ Done(t)
    /\ UNCHANGED <<rqdVars, bounds>>

ReportStep(t) ==
    \/ ResolveFrame(t) \/ DrainStop(t) \/ StaleRead(t) \/ StaleRelease(t)
    \/ FinalRead(t) \/ FinalNoProc(t) \/ FinalStop(t)

-----------------------------------------------------------------------------
(* lostProc, which is not a transaction: each statement commits by itself.  *)
(* checkHardwareState holds its task lock and takes one proc at a time.     *)

LostRunning == \E t \in tasks : t.pc \in LostPc /\ t.why # "failedKill"

LostStart(p, why) ==
    /\ "lostProc" \in Actors
    /\ ~LostRunning
    /\ proc[p].row = "live"
    /\ \/ why = "orphan" /\ p \in OrphanedProcs
       \/ why = "down" /\ hw[proc[p].host] = "DOWN"
    /\ LET pc == IF proc[p].frame = NoFrame THEN "lostUnbook" ELSE "lostKill"
       IN  tasks' = tasks
             \cup {NewTask(pc, p, proc[p].frame, 0, "WAITING", why)}
    /\ UNCHANGED <<tables, rqdVars, bounds>>

LostKill(t) ==
    /\ t.pc = "lostKill"
    /\ render' = KilledRenders(HostOf(t), t.frame)
    /\ IF Reach(HostOf(t)) THEN Goes(t, "lostUnbook") ELSE Goes(t, "lostDecide")
    /\ UNCHANGED <<tables, wire, report, net, hw, rebooted, bounds>>

\* The kill is not confirmed: release if the host is known dead, defer, or
\* after lost_proc_max_defer_ms without a ping release into DEAD.
\* Mutant: a host that does not answer is taken for dead.
SilentIsDead(t) == TRUE

HostConfirmedDead(t) ==
    \/ t.why = "down"
    \/ hw[HostOf(t)] # "UP"
    \/ proc[t.proc].row = "live" /\ t.proc \in rebooted

\* Mutant: the deferral has no end.
LostDecideDefers(t) ==
    /\ t.pc = "lostDecide"
    /\ Done(t)
    /\ UNCHANGED <<tables, rqdVars, bounds>>

LostDecide(t) ==
    /\ t.pc = "lostDecide"
    /\ \/ HostConfirmedDead(t) /\ Goes(t, "lostUnbook")
       \/ ~HostConfirmedDead(t) /\ Done(t)
       \/ /\ ~HostConfirmedDead(t)
          /\ t.proc \in OrphanedProcs
          /\ GoesWith(t, "lostUnbook", "DEAD")
    /\ UNCHANGED <<tables, rqdVars, bounds>>

\* Mutant: goes on whether or not it deleted the row.
LostUnbookUnfenced(t) ==
    /\ t.pc = "lostUnbook"
    /\ proc' = DeletedIfThere(t.proc)
    /\ IF t.frame # NoFrame
         THEN GoesAt(t, "lostStop", frame[t.frame].ver, t.arg) ELSE Done(t)
    /\ UNCHANGED <<frame, rqdVars, bounds>>

\* The ownership fence: whoever deletes the row goes on, nobody else.
LostUnbook(t) ==
    /\ t.pc = "lostUnbook"
    /\ proc' = DeletedIfThere(t.proc)
    /\ IF DeleteMatches(t.proc) /\ t.frame # NoFrame
         THEN IF Stall THEN Goes(t, "lostRead")
              ELSE GoesAt(t, "lostStop", frame[t.frame].ver, t.arg)
         ELSE Done(t)
    /\ UNCHANGED <<frame, rqdVars, bounds>>

LostRead(t) ==
    /\ t.pc = "lostRead"
    /\ GoesAt(t, "lostStop", frame[t.frame].ver, t.arg)
    /\ UNCHANGED <<tables, rqdVars, bounds>>

\* updateFrameStopped, without clearing an assignment.
LostStop(t) ==
    /\ t.pc = "lostStop"
    /\ IF StopMatches(t.frame, t.ver)
         THEN frame' = Stopped(t.frame, t.arg, "lost") /\ Done(t)
         ELSE UNCHANGED frame /\ Goes(t, "lostDetail")
    /\ UNCHANGED <<proc, rqdVars, bounds>>

\* Mutant: resets the frame of a host that is down whatever became of it.
LostDetailAnyState(t) ==
    /\ t.pc = "lostDetail"
    /\ IF t.why = "down" THEN Goes(t, "lostHostDown") ELSE Done(t)
    /\ UNCHANGED <<tables, rqdVars, bounds>>

LostDetail(t) ==
    /\ t.pc = "lostDetail"
    /\ IF frame[t.frame].state = "DEAD" /\ t.why = "down"
         THEN Goes(t, "lostHostDown") ELSE Done(t)
    /\ UNCHANGED <<tables, rqdVars, bounds>>

LostHostDown(t) ==
    /\ t.pc = "lostHostDown"
    /\ frame' = IF HostDownMatches(t.frame) THEN HostDowned(t.frame) ELSE frame
    /\ Done(t)
    /\ UNCHANGED <<proc, rqdVars, bounds>>

LostStep(t) ==
    \/ LostKill(t) \/ LostDecide(t) \/ LostUnbook(t) \/ LostRead(t)
    \/ LostStop(t) \/ LostDetail(t) \/ LostHostDown(t)

-----------------------------------------------------------------------------
(* clearOrphanedFrames: RUNNING frames no proc holds, one at a time under   *)
(* its own task lock.  The row read at the start gives the version and, as  *)
(* str_host, the host of the run that was latest then.                      *)

SweepRunning == \E t \in tasks : t.pc \in SweepPc

OrphanFound(f) ==
    /\ "sweep" \in Actors
    /\ ~SweepRunning
    /\ IsOrphan(f)
    /\ tasks' = tasks \cup
         {NewTask("orphanCheck", frame[f].by, f, frame[f].ver, "-", "-")}
    /\ UNCHANGED <<tables, rqdVars, bounds>>

OrphanCheck(t) ==
    /\ t.pc = "orphanCheck"
    /\ IF IsOrphan(t.frame) THEN Goes(t, "orphanKill") ELSE Done(t)
    /\ UNCHANGED <<tables, rqdVars, bounds>>

OrphanKill(t) ==
    /\ t.pc = "orphanKill"
    /\ render' = KilledRenders(HostOf(t), t.frame)
    /\ Goes(t, "orphanPoll")
    /\ UNCHANGED <<tables, wire, report, net, hw, rebooted, bounds>>

\* Mutant: an unreachable host is polled again by the next pass, for ever.
OrphanPollPatient(t) ==
    /\ t.pc = "orphanPoll"
    /\ IF PollNotFound(HostOf(t), t.frame)
         THEN GoesWith(t, "orphanReset", "WAITING") ELSE Done(t)
    /\ UNCHANGED <<tables, rqdVars, bounds>>

\* Confirmed dead: retry.  Unreachable: DEAD.  Still running, or no budget
\* left to poll: next pass, or DEAD after orphaned_frame_max_defer_ms.
OrphanPoll(t) ==
    /\ t.pc = "orphanPoll"
    /\ \/ /\ PollNotFound(HostOf(t), t.frame)
          /\ GoesWith(t, "orphanReset", "WAITING")
       \/ /\ ~PollNotFound(HostOf(t), t.frame)
          /\ GoesWith(t, "orphanReset", "DEAD")
       \/ PollRunning(HostOf(t), t.frame) /\ Done(t)
    /\ UNCHANGED <<tables, rqdVars, bounds>>

OrphanReset(t) ==
    /\ t.pc = "orphanReset"
    /\ frame' = IF StopMatches(t.frame, t.ver)
                  THEN Stopped(t.frame, t.arg, "lost") ELSE frame
    /\ Done(t)
    /\ UNCHANGED <<proc, rqdVars, bounds>>

SweepStep(t) ==
    \/ OrphanCheck(t) \/ OrphanKill(t) \/ OrphanPoll(t) \/ OrphanReset(t)

-----------------------------------------------------------------------------
(* retryFrame and eatFrame.  The request reads the frame's version, then    *)
(* the proc holding it, if there is one.                                    *)

Holder(f) == IF ProcsOn(f) = {} THEN NoProc ELSE CHOOSE p \in ProcsOn(f) : TRUE

UserRequest(f, actor, pc) ==
    /\ actor \in Actors
    /\ requestsLeft > 0 /\ TroubleLeft
    /\ requestsLeft' = requestsLeft - 1
    /\ frame[f].by # NoProc                 \* bound: only frames that ran
    /\ tasks' = tasks \cup
         {NewTask(pc, Holder(f), f, frame[f].ver, "-", "-")}
    /\ UNCHANGED <<tables, rqdVars, faultsLeft>>

RetryRequest(f) ==
    UserRequest(f, "retry",
                IF Holder(f) = NoProc THEN "retryStop" ELSE "retryKill")

EatRequest(f) == UserRequest(f, "eat", "eatStop")

RetryKill(t) ==
    /\ t.pc = "retryKill"
    /\ render' = KilledRenders(HostOf(t), t.frame)
    /\ Goes(t, "retryPoll")
    /\ UNCHANGED <<tables, wire, report, net, hw, rebooted, bounds>>

\* One poll that finds nothing is the confirmation; otherwise the retry is
\* given up and the frame left RUNNING.
RetryPoll(t) ==
    /\ t.pc = "retryPoll"
    /\ IF PollNotFound(HostOf(t), t.frame) THEN Goes(t, "retryStop") ELSE Done(t)
    /\ UNCHANGED <<tables, rqdVars, bounds>>

\* manualStopFrame: a stop and the clearing of the assignment.
ManualStop(t, s, next, otherwise) ==
    /\ IF StopMatches(t.frame, t.ver)
         THEN /\ frame' = Stopped(t.frame, s, "manual")
              /\ proc' = Unassigned(t.frame)
              /\ next
         ELSE UNCHANGED tables /\ otherwise
    /\ UNCHANGED <<rqdVars, bounds>>

RetryStop(t) ==
    /\ t.pc = "retryStop"
    /\ ManualStop(t, "WAITING", Done(t), Goes(t, "retryRead"))

RetryRead(t) ==
    /\ t.pc = "retryRead"
    /\ IF frame[t.frame].state # "RUNNING"
         THEN GoesAt(t, "retryForce", frame[t.frame].ver, t.arg) ELSE Done(t)
    /\ UNCHANGED <<tables, rqdVars, bounds>>

ForceState(t, s) ==
    /\ frame' = IF ForceMatches(t.frame, t.ver) THEN Forced(t.frame, s) ELSE frame
    /\ Done(t)
    /\ UNCHANGED <<proc, rqdVars, bounds>>

RetryForce(t) == t.pc = "retryForce" /\ ForceState(t, "WAITING")

EatStop(t) ==
    /\ t.pc = "eatStop"
    /\ ManualStop(t, "EATEN",
                  IF t.proc = NoProc THEN Done(t) ELSE Goes(t, "eatKill"),
                  Goes(t, "eatForce"))

\* JobManagerSupport.kill: an exception is a lost proc, already known unkilled.
EatKill(t) ==
    /\ t.pc = "eatKill"
    /\ render' = KilledRenders(HostOf(t), t.frame)
    /\ IF Reach(HostOf(t)) THEN Done(t)
         ELSE tasks' = (tasks \ {t})
                \cup {NewTask("lostDecide", t.proc, t.frame, 0, "WAITING",
                              "failedKill")}
    /\ UNCHANGED <<tables, wire, report, net, hw, rebooted, bounds>>

EatForce(t) == t.pc = "eatForce" /\ ForceState(t, "EATEN")

UserStep(t) ==
    \/ RetryKill(t) \/ RetryPoll(t) \/ RetryStop(t) \/ RetryRead(t)
    \/ RetryForce(t) \/ EatStop(t) \/ EatKill(t) \/ EatForce(t)

-----------------------------------------------------------------------------
(* Host reports: pings, and the verification of what a host says it runs.   *)

\* The proc's ts_ping and the frame's ts_updated advance.
Pinged(p) ==
    \E r \in render : /\ r.proc = p /\ r.cached /\ Reach(r.host)
                      /\ proc[p].row = "live" /\ proc[p].frame = r.frame

Ping(p) ==
    /\ Pinged(p)
    /\ proc[p].old \/ frame[proc[p].frame].old
    /\ proc' = [proc EXCEPT ![p].old = FALSE]
    /\ frame' = [frame EXCEPT ![proc[p].frame].old = FALSE]
    /\ UNCHANGED <<rqdVars, tasks, bounds>>

\* killUnverifiedRunningFrame: the proc is gone or holds something else, and
\* the frame is RUNNING, under whichever proc.
VerifyKill(r) ==
    /\ "verify" \in Actors
    /\ r.cached /\ Reach(r.host) /\ r.stage = "live"
    /\ ~(proc[r.proc].row = "live" /\ proc[r.proc].frame = r.frame)
    /\ frame[r.frame].state = "RUNNING"
    /\ render' = KilledRenders(r.host, r.frame)
    /\ UNCHANGED <<tables, wire, report, net, hw, rebooted, tasks, bounds>>

(* Time.  A launch waits in the queue at most half the orphan age; a request *)
(* on the wire, an attendant in setup(), a report to a Cuebot that can be    *)
(* reached and, unless threads stall, its handling take seconds.  None of    *)
(* them is still under way, or still willing to send, when a row has become  *)
(* old or a host has been silent for so long that it is marked DOWN.         *)

Quiet(p) ==
    /\ ~Pinged(p)
    /\ ~Underway(p)
    /\ \A m \in report : m.proc = p => ~Reach(proc[p].host)
    /\ Stall \/ \A t \in tasks : t.pc \notin ReportPc

ExpireLaunches(P) ==
    tasks' = {IF t.pc = "launch" /\ t.proc \in P
                THEN [t EXCEPT !.arg = "expired"] ELSE t : t \in tasks}

AgeProc(p) ==
    /\ "lostProc" \in Actors               \* old is read by nobody else
    /\ proc[p].row = "live" /\ ~proc[p].old
    /\ Quiet(p)
    /\ proc' = [proc EXCEPT ![p].old = TRUE]
    /\ ExpireLaunches({p})
    /\ UNCHANGED <<frame, rqdVars, bounds>>

AgeFrame(f) ==
    /\ "sweep" \in Actors                  \* old is read by nobody else
    /\ frame[f].state = "RUNNING" /\ ~frame[f].old
    /\ Quiet(frame[f].by)
    /\ frame' = [frame EXCEPT ![f].old = TRUE]
    /\ ExpireLaunches({frame[f].by})
    /\ UNCHANGED <<proc, rqdVars, bounds>>

-----------------------------------------------------------------------------
(* A Cuebot stops: its threads, its launch pool and its drain queue go.     *)

CuebotStops ==
    /\ tasks # {}
    /\ Spend("stop")
    /\ tasks' \in SUBSET tasks
    /\ tasks' # tasks
    /\ UNCHANGED <<tables, rqdVars>>

TaskStep(t) ==
    \/ LaunchStep(t) \/ ReportStep(t) \/ LostStep(t) \/ SweepStep(t)
    \/ UserStep(t)

CuebotNext ==
    \/ \E f \in Frames, p \in Procs, h \in Hosts : Book(f, p, h)
    \/ \E t \in tasks : TaskStep(t)
    \/ \E m \in report : ReportArrives(m)
    \/ \E p \in Procs, why \in {"orphan", "down"} : LostStart(p, why)
    \/ \E f \in Frames : OrphanFound(f)
    \/ \E f \in Frames : RetryRequest(f)
    \/ \E f \in Frames : EatRequest(f)
    \/ \E p \in Procs : Ping(p)
    \/ \E r \in render : VerifyKill(r)
    \/ \E p \in Procs : AgeProc(p)
    \/ \E f \in Frames : AgeFrame(f)
    \/ CuebotStops

BookedOn(h) == {p \in Procs : proc[p].row = "live" /\ proc[p].host = h}

HostStep(h) ==
    \/ Cut(h) /\ Spend("cut") /\ UNCHANGED tasks
    \/ HostDies(h) /\ Spend("die") /\ UNCHANGED tasks
    \/ Heal(h) /\ UNCHANGED <<tasks, bounds>>
    \/ HostBoots(h, {}) /\ UNCHANGED <<tasks, bounds>>
    \/ /\ HostBoots(h, BookedOn(h))
       /\ ExpireLaunches(BookedOn(h))
       /\ UNCHANGED bounds
    \/ /\ MarkDown(h)
       /\ IF Stall THEN UNCHANGED tasks
            ELSE ExpireLaunches(BookedOn(h))
       /\ UNCHANGED bounds

\* storeFrame raises when the frame is cached; setup() failing is a fault.
RqdStep(r) ==
    \/ StoreFrame(r) /\ UNCHANGED bounds
    \/ /\ LaunchFails(r)
       /\ IF InCache(r.host, r.frame) THEN UNCHANGED bounds ELSE Spend("refuse")
    \/ \E ok \in BOOLEAN : RenderEnds(r, ok) /\ UNCHANGED bounds

RqdNext ==
    /\ \/ \E r \in render : RqdStep(r) /\ UNCHANGED tasks
       \/ \E m \in wire : LateLaunch(m) /\ UNCHANGED <<tasks, bounds>>
       \/ \E m \in report : ReportLost(m) /\ UNCHANGED <<tasks, bounds>>
       \/ \E h \in Hosts : HostStep(h)
    /\ UNCHANGED tables

Next == CuebotNext \/ RqdNext

Spec == Init /\ [][Next]_vars

(***************************************************************************)
(* Fairness, for the liveness properties.  Pools and schedules keep         *)
(* running, one per line; RQD takes its requests, renders end and reports   *)
(* are re-sent; time passes; a network cut ends.  Faults, user requests,    *)
(* bookings and a dead machine's return are never required.                 *)
(***************************************************************************)
Fairness ==
    /\ WF_vars(\E t \in tasks : LaunchStep(t))
    /\ WF_vars(\E t \in tasks : ReportStep(t))
    /\ WF_vars(\E t \in tasks : LostStep(t))
    /\ WF_vars(\E t \in tasks : SweepStep(t))
    /\ WF_vars(\E t \in tasks : UserStep(t))
    /\ WF_vars(\E m \in report : ReportArrives(m))
    /\ WF_vars(\E p \in Procs, why \in {"orphan", "down"} : LostStart(p, why))
    /\ WF_vars(\E f \in Frames : OrphanFound(f))
    /\ WF_vars(\E p \in Procs : AgeProc(p))
    /\ WF_vars(\E f \in Frames : AgeFrame(f))
    /\ WF_vars(RqdNext /\ \E r \in render : RqdStep(r))
    /\ WF_vars(RqdNext /\ \E m \in wire : LateLaunch(m))
    /\ \A h \in Hosts : /\ WF_vars(RqdNext /\ Heal(h))
                        /\ WF_vars(RqdNext /\ MarkDown(h))

FairSpec == Spec /\ Fairness

-----------------------------------------------------------------------------
(* Properties. *)

\* A proc that holds a frame is the proc the frame's latest run was booked on:
\* no booking leaves an older proc row attached, whoever released the frame
\* before and however far that release had got (startFramesAndProcsBatch).
HolderStartedRun ==
    \A p \in Procs :
        proc[p].row = "live" /\ proc[p].frame # NoFrame
            => frame[proc[p].frame].by = p

\* The only proc rows that hold a frame which is not RUNNING (the corpses that
\* would wedge the batch commit) are those under a frame whose run was taken
\* away as lost: every other release frees the assignment with the frame.
CorpseOnlyFromLost ==
    \A p \in Procs :
        proc[p].row = "live" /\ proc[p].frame # NoFrame
            => \/ frame[proc[p].frame].state = "RUNNING"
               \/ frame[proc[p].frame].exit = "lost"

\* A drained completion stops the run it reports, and no later one: the proc
\* and the version it was resolved against, two reads of two tables, are of one
\* run ("the delayed report cannot be misapplied to the new run", the ownership
\* fence of processReportNow and resolveForDrain).
DrainStopsOwnRun ==
    \A t \in tasks :
        t.pc = "drain" /\ StopMatches(t.frame, t.ver)
            => frame[t.frame].by = t.proc

\* Nor does the rollback of a launch: "the reset is fenced on the frame still
\* being this run" (resolveUnknownLaunchOutcome, rollbackLaunch).
RollbackStopsOwnRun ==
    \A t \in tasks :
        t.pc = "clear" /\ ClearMatches(t.frame, t.ver)
            => frame[t.frame].by = t.proc

\* A report whose proc row is gone does not free a frame that another booking
\* is rendering: "the 'no proc assigned' check ensures we never stop a frame a
\* newer proc has since picked up" (finalizeOrphanedFrameComplete).
FinalizeFreesNoOtherRender ==
    \A t \in tasks :
        t.pc = "final3" /\ StopMatches(t.frame, t.ver)
            => \A r \in render :
                 r.frame = t.frame /\ r.stage # "dying" => r.proc = t.proc

\* lostProc stops the run whose proc row it deleted, and no later one (the
\* ownership fence of lostProc), as long as no user retries or eats the frame.
LostStopsOwnRun ==
    NobodyAsked =>
    \A t \in tasks :
        t.pc = "lostStop" /\ StopMatches(t.frame, t.ver)
            => frame[t.frame].by = t.proc

\* lostProc gives a frame back to the dispatcher only when nothing of the booking
\* it took it from is rendering any more: a host that is alive and silent sends
\* the frame to DEAD instead (lostProc: "so an unconfirmable render can neither
\* linger RUNNING forever nor be auto-rebooked").
LostReleasesNoRender ==
    NobodyAsked =>
    \A t \in tasks :
        t.pc = "lostStop" /\ t.arg = "WAITING" /\ StopMatches(t.frame, t.ver)
            => \A r \in render : r.proc = t.proc => r.stage = "dying"

\* A frame is never rendered twice at once: of the attendants on all hosts, at
\* most one that nobody has signalled belongs to the frame.  A user's retry is
\* one exception, see RetryKilledTheRender; a live host that stays silent until
\* lostProc gives its booking up is the other, if a report of an earlier run is
\* still on its way.
RenderExclusive ==
    NobodyAsked =>
    \A f \in Frames : \A r, s \in render :
        /\ r.frame = f /\ s.frame = f
        /\ r.stage # "dying" /\ s.stage # "dying"
        => r = s

\* A frame that has SUCCEEDED keeps its state, whatever passes were already
\* under way over its row, unless a user asks for it (the host-down reset of
\* lostProc is the one statement that would take it back).
SucceededStays ==
    [][\A f \in Frames :
         NobodyAsked /\ frame[f].state = "SUCCEEDED"
             => frame'[f].state = "SUCCEEDED"]_vars

\* retryFrame: "When the frame is running, the render is killed and confirmed
\* dead before the frame is released back to the dispatcher."
RetryKilledTheRender ==
    \A t \in tasks :
        t.pc = "retryStop" /\ t.proc # NoProc /\ StopMatches(t.frame, t.ver)
            => \A r \in render : r.proc = t.proc => r.stage = "dying"

-----------------------------------------------------------------------------
(* Liveness, under FairSpec. *)

\* Whatever is lost on the way - the launch, the render, its report, the host,
\* the Cuebot that was releasing it - the run of a frame ends: no frame stays
\* RUNNING for a booking for ever.
RunEnds ==
    \A f \in Frames, p \in Procs :
        (frame[f].state = "RUNNING" /\ frame[f].by = p)
            ~> ~(frame[f].state = "RUNNING" /\ frame[f].by = p)

\* And its proc row, with the cores and memory it reserves, is deleted.
BookingReleased ==
    \A p \in Procs : proc[p].row = "live" ~> proc[p].row = "gone"
=============================================================================
