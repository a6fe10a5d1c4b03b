------------------------------ MODULE RqdHost -------------------------------
(***************************************************************************)
(* One Python RQD process: frames from LaunchFrame to the completion       *)
(* report, the cache of running frames, the status report that looks for   *)
(* completions nobody reported, and the commands that lock, unlock, shut   *)
(* down and reboot the host.  The process is connected to Cuebot and runs  *)
(* on Linux without docker.                                                *)
(*                                                                         *)
(* Threads: one FrameAttendantThread a launch, gRPC workers for the        *)
(* commands, the interval timer, and whoever sends a status report.        *)
(***************************************************************************)
EXTENDS RqdCores

CONSTANTS
    NoRun,
    Commands,       \* the commands an administrator may send
    MaxCommands,    \* bound: commands in a behaviour
    MaxFaults,      \* bound: reports that do not reach Cuebot
    LockSizes,      \* how many units lock and unlock ask for
    UserLoggedIn    \* what isUserLoggedIn may answer

ASSUME HostAssumption ==
    /\ NoRun \notin Runs
    /\ MaxCommands \in Nat
    /\ MaxFaults \in Nat
    /\ LockSizes \subseteq Nat
    /\ UserLoggedIn \in SUBSET BOOLEAN

VARIABLES
    process,        \* "up", "exited" or "crashed"
    stage,          \* where the attendant of a launch stands
    cache,          \* RqCore.__cache
    sent,           \* completeReportSent
    told,           \* by whom Cuebot was told that the frame is complete
    killed,         \* renders that were signalled
    noPid,          \* stored launches whose RunFrame.pid is still 0
    doubled,        \* history: frames launched while an earlier launch was in hand
    whenIdle, reboot, hwState, nimbyLocked,
    pc,             \* what the command workers and the timer are doing
    status,         \* the frame a status report is reporting complete
    commandsLeft, faultsLeft

frameVars == <<stage, cache, sent, told, killed, noPid, doubled, status>>
cmdVars == <<whenIdle, reboot, hwState, pc, commandsLeft>>
hostVars == <<process, frameVars, cmdVars, nimbyLocked, faultsLeft>>
vars == <<coreVars, hostVars>>

Workers == {"grpc", "timer"}

Stages == {"none", "checked", "refused", "setup", "stored", "live", "over",
           "released", "uncached", "sending", "done", "lost"}

Senders == {"attendant", "status"}

Steps == {"idle", "mark", "markReboot", "check", "checkReboot", "now", "kill",
          "exit", "exiting", "unlock", "unlockAll"}

HostTypeOK ==
    /\ CoresTypeOK
    /\ process \in {"up", "exited", "crashed"}
    /\ stage \in [Runs -> Stages]
    /\ cache \in [FrameIds -> Runs \cup {NoRun}]
    /\ sent \in [Runs -> BOOLEAN]
    /\ told \in [Runs -> SUBSET Senders]
    /\ killed \subseteq Runs /\ noPid \subseteq Runs /\ doubled \subseteq FrameIds
    /\ whenIdle \in BOOLEAN /\ reboot \in BOOLEAN /\ nimbyLocked \in BOOLEAN
    /\ hwState \in {"UP", "DOWN"}
    /\ pc \in [Workers -> Steps]
    /\ status \in [run : Runs \cup {NoRun}, delivered : BOOLEAN]
    /\ commandsLeft \in Nat
    /\ faultsLeft \in Nat

NoStatus == [run |-> NoRun, delivered |-> FALSE]

HostInit ==
    /\ CoresInit
    /\ process = "up"
    /\ stage = [r \in Runs |-> "none"]
    /\ cache = [f \in FrameIds |-> NoRun]
    /\ sent = [r \in Runs |-> FALSE]
    /\ told = [r \in Runs |-> {}]
    /\ killed = {}
    /\ noPid = {}
    /\ doubled = {}
    /\ whenIdle = FALSE
    /\ reboot = FALSE
    /\ hwState = "UP"
    /\ nimbyLocked = FALSE
    /\ pc = [w \in Workers |-> "idle"]
    /\ status = NoStatus
    /\ commandsLeft = MaxCommands
    /\ faultsLeft = MaxFaults

frame(r) == Want[r].frame

Cached == {cache[f] : f \in FrameIds} \ {NoRun}
CacheEmpty == Cached = {}

\* exitStatus is not None.
HasExitStatus(r) ==
    stage[r] \in {"over", "released", "uncached", "sending", "done", "lost"}

\* Launches whose attendant has taken its cores and not given them back.
Holding == {r \in Runs : stage[r] \in {"setup", "stored", "live", "over"}}

Move(r, from, to) ==
    /\ stage[r] = from
    /\ stage' = [stage EXCEPT ![r] = to]

\* A report either reaches Cuebot or, as a fault, raises in its sender.
Reaches == faultsLeft' = faultsLeft
Raises == faultsLeft > 0 /\ faultsLeft' = faultsLeft - 1

-----------------------------------------------------------------------------
(* launchFrame: the checks, then the cores under the lock. *)

Launchable(r) ==
    /\ hwState = "UP"
    /\ ~whenIdle
    /\ nimbyLocked => Want[r].ignoreNimby
    /\ cache[frame(r)] = NoRun

\* A launch that has still to store or to drop an entry of its frame, its
\* attendant or a status report.
InHand(r) ==
    \/ stage[r] \in {"checked", "setup", "stored", "live", "over", "released"}
    \/ status.run = r

LaunchFrame(r) ==
    /\ Move(r, "none", IF Launchable(r) THEN "checked" ELSE "refused")
    /\ doubled' = IF ~Launchable(r) THEN doubled
                  ELSE IF \E d \in Runs : frame(d) = frame(r) /\ InHand(d)
                         THEN doubled \cup {frame(r)} ELSE doubled \ {frame(r)}
    /\ UNCHANGED <<coreVars, process, cache, sent, told, killed, noPid, status,
                   cmdVars, nimbyLocked, faultsLeft>>

Reserve(r) ==
    /\ \/ TakeCores(r) /\ Move(r, "checked", "setup")
       \/ TakeRefused(r) /\ Move(r, "checked", "refused")
    /\ UNCHANGED <<process, cache, sent, told, killed, noPid, doubled, status,
                   cmdVars, nimbyLocked, faultsLeft>>

-----------------------------------------------------------------------------
(* FrameAttendantThread. *)

AttendantStep(r, from, to) ==
    /\ Move(r, from, to)
    /\ UNCHANGED <<process, killed, doubled, status, cmdVars, nimbyLocked>>

\* Mutant: a frame that cannot be stored is abandoned without its post actions.
StoreFrameOrDrop(r) ==
    /\ \/ /\ cache[frame(r)] = NoRun
          /\ AttendantStep(r, "setup", "stored")
          /\ cache' = [cache EXCEPT ![frame(r)] = r]
          /\ noPid' = noPid \cup {r}
       \/ /\ cache[frame(r)] # NoRun
          /\ AttendantStep(r, "setup", "done")
          /\ UNCHANGED <<cache, noPid>>
    /\ UNCHANGED <<coreVars, sent, told, faultsLeft>>

\* setup() is over: storeFrame raises when the frame id is cached already.
StoreFrame(r) ==
    /\ \/ /\ cache[frame(r)] = NoRun
          /\ AttendantStep(r, "setup", "stored")
          /\ cache' = [cache EXCEPT ![frame(r)] = r]
          /\ noPid' = noPid \cup {r}
       \/ /\ cache[frame(r)] # NoRun
          /\ AttendantStep(r, "setup", "over")
          /\ UNCHANGED <<cache, noPid>>
    /\ UNCHANGED <<coreVars, sent, told, faultsLeft>>

Fork(r) ==
    /\ AttendantStep(r, "stored", "live")
    /\ noPid' = noPid \ {r}
    /\ UNCHANGED <<coreVars, cache, sent, told, faultsLeft>>

\* The render exits, or anything before it raises (EXITSTATUS_FOR_FAILED_LAUNCH
\* and ten seconds of sleep before postFrameAction).
AttendantEnds(r) ==
    /\ \E from \in {"setup", "stored", "live"} : AttendantStep(r, from, "over")
    /\ UNCHANGED <<coreVars, cache, sent, told, noPid, faultsLeft>>

\* postFrameAction, first step.
ReleaseCores(r) ==
    /\ AttendantStep(r, "over", "released")
    /\ GiveBack(r)
    /\ UNCHANGED <<cache, sent, told, noPid, faultsLeft>>

\* deleteFrame: by frame id.  The last entry to go takes every reserved core
\* with it, those of launches still in setup() too.
DeleteFrame(f) ==
    /\ cache' = [cache EXCEPT ![f] = NoRun]
    /\ reserved' = IF cache[f] # NoRun /\ Cached = {cache[f]}
                     THEN {} ELSE reserved
    /\ UNCHANGED <<idle, booked, locked, freeGpus, cpuList, gpuList>>

Uncache(r) ==
    /\ AttendantStep(r, "released", "uncached")
    /\ DeleteFrame(frame(r))
    /\ noPid' = noPid \ {r}
    /\ UNCHANGED <<sent, told, faultsLeft>>

\* Mutant: only a frame that is still cached is reported.
StartReportOfCached(r) ==
    /\ AttendantStep(r, "uncached",
                     IF sent[r] \/ cache[frame(r)] # r THEN "done"
                                                       ELSE "sending")
    /\ UNCHANGED <<coreVars, cache, sent, told, noPid, faultsLeft>>

\* sendFrameCompleteReport looks at completeReportSent, then calls Cuebot.
StartReport(r) ==
    /\ AttendantStep(r, "uncached", IF sent[r] THEN "done" ELSE "sending")
    /\ UNCHANGED <<coreVars, cache, sent, told, noPid, faultsLeft>>

Tell(r, who) ==
    /\ told' = [told EXCEPT ![r] = @ \cup {who}]
    /\ sent' = [sent EXCEPT ![r] = TRUE]

\* Mutant: the entry is dropped once more when the report is through.
EndReportAndDrop(r) ==
    /\ \/ AttendantStep(r, "sending", "done") /\ Reaches /\ Tell(r, "attendant")
       \/ AttendantStep(r, "sending", "lost") /\ Raises /\ UNCHANGED <<told, sent>>
    /\ DeleteFrame(frame(r))
    /\ UNCHANGED noPid

\* A report that raises ends the attendant's thread.
EndReport(r) ==
    /\ \/ AttendantStep(r, "sending", "done") /\ Reaches /\ Tell(r, "attendant")
       \/ AttendantStep(r, "sending", "lost") /\ Raises /\ UNCHANGED <<told, sent>>
    /\ UNCHANGED <<coreVars, cache, noPid>>

-----------------------------------------------------------------------------
(* sanitizeFrames, part of every status report: report what is complete and *)
(* still cached, then drop its entry.                                       *)

StatusStep ==
    UNCHANGED <<process, stage, killed, noPid, doubled, cmdVars, nimbyLocked>>

StatusFinds(r) ==
    /\ status = NoStatus
    /\ r \in Cached
    /\ HasExitStatus(r)
    /\ ~sent[r]
    /\ status' = [run |-> r, delivered |-> FALSE]
    /\ StatusStep
    /\ UNCHANGED <<coreVars, cache, sent, told, faultsLeft>>

StatusTells ==
    /\ status.run # NoRun
    /\ ~status.delivered
    /\ \/ /\ Reaches
          /\ Tell(status.run, "status")
          /\ status' = [run |-> status.run, delivered |-> TRUE]
       \/ /\ Raises
          /\ status' = NoStatus
          /\ UNCHANGED <<told, sent>>
    /\ StatusStep
    /\ UNCHANGED <<coreVars, cache>>

StatusDrops ==
    /\ status.run # NoRun
    /\ status.delivered
    /\ DeleteFrame(frame(status.run))
    /\ status' = NoStatus
    /\ StatusStep
    /\ UNCHANGED <<sent, told, faultsLeft>>

-----------------------------------------------------------------------------
(* kill() *)

\* A render that has its pid is signalled.  One that was stored and is not
\* forked yet, or failed to fork and sleeps before postFrameAction, has the 0 of
\* an unset RunFrame.pid, never None, and killpg(0) signals RQD's own process
\* group.  (An attendant that has ended has dropped its entry: the branch that
\* drops it again is not reached.)
KillRenders(S) ==
    /\ killed' = killed \cup {r \in S : stage[r] = "live"}
    /\ process' = IF S \cap noPid = {} THEN "up" ELSE "crashed"

KillRunningFrame(f) ==
    /\ "kill" \in Commands
    /\ commandsLeft > 0
    /\ commandsLeft' = commandsLeft - 1
    /\ KillRenders({cache[f]} \ {NoRun})
    /\ UNCHANGED <<coreVars, stage, cache, sent, told, noPid, doubled, status,
                   whenIdle, reboot, hwState, pc, nimbyLocked, faultsLeft>>

-----------------------------------------------------------------------------
(* Commands. *)

At(w, where) == pc[w] = where
Goto(w, where) == pc' = [pc EXCEPT ![w] = where]

Receive(c) ==
    /\ c \in Commands
    /\ At("grpc", "idle")
    /\ commandsLeft > 0
    /\ commandsLeft' = commandsLeft - 1

CmdStep == UNCHANGED <<process, frameVars, nimbyLocked>>

Lock(n) ==
    /\ Receive("lock")
    /\ LockUnits(n)
    /\ CmdStep
    /\ UNCHANGED <<whenIdle, reboot, hwState, pc, faultsLeft>>

LockAll ==
    /\ Receive("lockAll")
    /\ LockEverything
    /\ CmdStep
    /\ UNCHANGED <<whenIdle, reboot, hwState, pc, faultsLeft>>

\* unlock and unlockAll withdraw the requests first, then take the lock.
StartUnlock(c) ==
    /\ c \in {"unlock", "unlockAll"}
    /\ Receive(c)
    /\ whenIdle' = FALSE
    /\ reboot' = FALSE
    /\ hwState' = "UP"
    /\ Goto("grpc", c)
    /\ CmdStep
    /\ UNCHANGED <<coreVars, faultsLeft>>

EndUnlock(n) ==
    /\ \/ At("grpc", "unlock") /\ UnlockUnits(n)
       \/ At("grpc", "unlockAll") /\ UnlockEverything(nimbyLocked)
    /\ Goto("grpc", "idle")
    /\ CmdStep
    /\ UNCHANGED <<whenIdle, reboot, hwState, commandsLeft, faultsLeft>>

\* The status report of lockAll: sent when the lock changed anything.
ReportLock(w, next, raised) ==
    \/ Reaches /\ Goto(w, next)
    \/ locked < Total /\ Raises /\ Goto(w, raised)

ShutdownIdle(c) ==
    /\ c \in {"shutdownIdle", "rebootIdle"}
    /\ Receive(c)
    /\ LockEverything
    /\ ReportLock("grpc", IF c = "rebootIdle" THEN "markReboot" ELSE "mark",
                  "idle")
    /\ CmdStep
    /\ UNCHANGED <<whenIdle, reboot, hwState>>

MarkIdle ==
    /\ At("grpc", "mark") \/ At("grpc", "markReboot")
    /\ whenIdle' = TRUE
    /\ reboot' = (reboot \/ At("grpc", "markReboot"))
    /\ \/ Reaches /\ Goto("grpc", IF At("grpc", "mark") THEN "check"
                                                       ELSE "checkReboot")
       \/ Raises /\ Goto("grpc", "idle")
    /\ CmdStep
    /\ UNCHANGED <<coreVars, hwState, commandsLeft>>

\* rebootIdle spares a user who is logged in, shutdownIdle does not ask.
CheckIdle ==
    /\ At("grpc", "check") \/ At("grpc", "checkReboot")
    /\ \E loggedIn \in UserLoggedIn :
          Goto("grpc", IF CacheEmpty /\ (loggedIn => At("grpc", "check"))
                         THEN "now" ELSE "idle")
    /\ CmdStep
    /\ UNCHANGED <<coreVars, whenIdle, reboot, hwState, commandsLeft,
                   faultsLeft>>

ShutdownNow(c) ==
    /\ c \in {"shutdownNow", "rebootNow"}
    /\ Receive(c)
    /\ c = "rebootNow" => FALSE \in UserLoggedIn
    /\ reboot' = (reboot \/ c = "rebootNow")
    /\ Goto("grpc", "now")
    /\ CmdStep
    /\ UNCHANGED <<coreVars, whenIdle, hwState, faultsLeft>>

\* Mutant: only a reboot is waited for.
OnIntervalReboot ==
    /\ At("timer", "idle")
    /\ whenIdle /\ reboot
    /\ CacheEmpty
    /\ FALSE \in UserLoggedIn
    /\ Goto("timer", "now")
    /\ CmdStep
    /\ UNCHANGED <<coreVars, whenIdle, reboot, hwState, commandsLeft,
                   faultsLeft>>

\* onInterval, when an idle shutdown was asked for.
OnInterval ==
    /\ At("timer", "idle")
    /\ whenIdle
    /\ CacheEmpty
    /\ FALSE \in UserLoggedIn
    /\ Goto("timer", "now")
    /\ CmdStep
    /\ UNCHANGED <<coreVars, whenIdle, reboot, hwState, commandsLeft,
                   faultsLeft>>

\* shutdownRqdNow.  A report that raises in lockAll skips the kill.
ShutdownLocks(w) ==
    /\ At(w, "now")
    /\ hwState' = "DOWN"
    /\ LockEverything
    /\ ReportLock(w, "kill", "exit")
    /\ CmdStep
    /\ UNCHANGED <<whenIdle, reboot, commandsLeft>>

\* killAllFrame, once a second for as long as there are frames.
ShutdownKills(w) ==
    /\ At(w, "kill")
    /\ \/ /\ CacheEmpty
          /\ Goto(w, "exit")
          /\ UNCHANGED <<killed, process>>
       \/ /\ ~CacheEmpty
          /\ KillRenders(Cached)
          /\ UNCHANGED pc
    /\ UNCHANGED <<coreVars, stage, cache, sent, told, noPid, doubled, status,
                   whenIdle, reboot, hwState, commandsLeft, nimbyLocked, faultsLeft>>

ShutdownChecks(w) ==
    /\ At(w, "exit")
    /\ Goto(w, IF CacheEmpty THEN "exiting" ELSE "idle")
    /\ CmdStep
    /\ UNCHANGED <<coreVars, whenIdle, reboot, hwState, commandsLeft,
                   faultsLeft>>

\* shutdown(): the timers were started, so the branch that reboots the
\* machine is not reached whatever reboot says.
Exit(w) ==
    /\ At(w, "exiting")
    /\ process' = "exited"
    /\ UNCHANGED <<coreVars, frameVars, cmdVars, nimbyLocked, faultsLeft>>

-----------------------------------------------------------------------------

Attendant(r) ==
    \/ Reserve(r) \/ StoreFrame(r) \/ Fork(r) \/ ReleaseCores(r)
    \/ Uncache(r) \/ StartReport(r) \/ EndReport(r)

Status == (\E r \in Runs : StatusFinds(r)) \/ StatusTells \/ StatusDrops

Shutdown(w) ==
    ShutdownLocks(w) \/ ShutdownKills(w) \/ ShutdownChecks(w) \/ Exit(w)

Finishing ==
    \/ \E n \in LockSizes : EndUnlock(n)
    \/ MarkIdle \/ CheckIdle \/ \E w \in Workers : Shutdown(w)

Asked ==
    \/ \E n \in LockSizes : Lock(n)
    \/ LockAll
    \/ \E c \in Commands : StartUnlock(c) \/ ShutdownIdle(c) \/ ShutdownNow(c)
    \/ \E f \in FrameIds : KillRunningFrame(f)

HostNext ==
    \/ \E r \in Runs : LaunchFrame(r) \/ Attendant(r) \/ AttendantEnds(r)
    \/ Status
    \/ Finishing
    \/ OnInterval
    \/ Asked

Next == process = "up" /\ HostNext

Spec == HostInit /\ [][Next]_vars

\* What the process does of itself.  A frame, a report and a shutdown all come
\* to an end, so fairness of the whole is fairness of each of its threads.
Threads ==
    \/ \E r \in Runs : Attendant(r) \/ AttendantEnds(r)
    \/ Status
    \/ Finishing
    \/ OnInterval

\* Threads run, timers fire, renders end.
FairSpec == Spec /\ WF_vars(process = "up" /\ Threads)

-----------------------------------------------------------------------------
(* Properties. *)

\* booked_cores is what the launches that were accepted and are not released
\* yet ask for: no path of an attendant releases twice, or not at all.
CoresAccounted == booked = Cardinality(UnitsOf(Holding))

\* What a launch was given stays its own until it is released.
GpuPool == INSTANCE ExclusivePool
    WITH Items <- Gpus, Users <- Runs,
         owners <- [g \in Gpus |-> {r \in Holding : g \in gpuList[r]}]

CpuPool == INSTANCE ExclusivePool
    WITH Items <- Physical, Users <- Runs,
         owners <- [c \in Physical |-> {r \in Holding : c \in cpuList[r]}]

GpusExclusive == GpuPool!PoolSpec
PinsExclusive == CpuPool!PoolSpec

\* A render can be found by its frame id, so that a kill reaches it and the
\* host report names it, although entries are dropped by frame id: a launch that
\* comes when the earlier ones of its frame have dropped theirs, and no status
\* report is about to, is not lost to their reports that are still under way.
LiveIsCached ==
    \A r \in Runs :
        stage[r] \in {"stored", "live"} => cache[frame(r)] = r \/ frame(r) \in doubled

\* "Not launching, frame is already running on this proc": a frame that renders
\* is found, however it was launched again.  It does not hold: the check is long
\* before storeFrame, and a failed launch or a status report drops the entry of
\* the launch that succeeded.
EveryLiveIsCached ==
    \A r \in Runs : stage[r] \in {"stored", "live"} => cache[frame(r)] = r

\* A frame that is complete and was never reported is still in the cache,
\* where sanitizeFrames looks for it.
UnreportedIsKept ==
    \A r \in Runs :
        stage[r] \in {"done", "lost"} /\ told[r] = {} => cache[frame(r)] = r

\* A kill ends the render it names and nothing else.
KillSparesRqd == process # "crashed"

\* Every launch RQD accepts is answered with a completion report, unless its
\* attendant's report is the one that was lost or the process ends.
LaunchAnswered ==
    \A r \in Runs :
        stage[r] = "setup" ~> \/ told[r] # {}
                              \/ stage[r] = "lost"
                              \/ process # "up"

\* A host that is to shut down when idle does, or is unlocked again.
IdleShutdownExits == whenIdle ~> (process # "up" \/ ~whenIdle)
=============================================================================
