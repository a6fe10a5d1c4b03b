# A TLA+ model of OpenCue's frame dispatch

OpenCue renders frames on a farm. Cuebot, a Java server, keeps every job, layer,
frame, host and proc in PostgreSQL. Its Maestro scheduler books WAITING frames on
hosts in batches, and a daemon on each host, RQD, runs them. Several Cuebots share
one database, and users watch and steer the farm from CueGUI. No piece of that knows at any
moment who renders what: a row says it, a host does it, a table shows it, and every thread
acts on what it read a while ago. This project models four parts of that:

- the *run of a frame*, from the batch commit that books it to the report, the maintenance
  pass or the user that ends it, and the release of the frames that waited for it (Cuebot);
- *one render host*: the process that launches, pins, kills and reports, hands out cores and
  GPUs, is locked, shut down or taken over by the person who sits at it (Python RQD);
- *one tick of the scheduler*, with its ledgers;
- *what the user sees and does*: tables, their workers, the action runner (CueGUI), and the
  job whiteboard that Cuebot caches for them.

It checks them with TLC on small instances, and proves with TLAPS what matters most about
them for instances of any size.

Files named without a directory are in `src/cuebot/src/main/java/com/imageworks/spcue/`
(`dispatcher/`, `service/`, `dao/postgres/`, `rqd/`), in `src/rqd/rqd/` or in `src/cuegui/cuegui/`.

## 1. The system

| Component | State it keeps | Operations | Talks to | Hard because |
|---|---|---|---|---|
| Frame table (`FrameDaoJdbc`) | state, `int_version`, host, exit status, `ts_updated` | start, stop, clear, host-down reset, forced state, each one statement with its own WHERE | everybody, through SQL | four of the five ways out of RUNNING are fenced, each differently |
| Proc table (`ProcDaoJdbc`) | which frame on which host, `ts_ping` | insert, delete, unassign, evict | as above | a delete does not look at the assignment; one live row per frame is a unique key |
| Maestro commit (`Maestro`, `startFramesAndProcsBatch`) | leader lock, snapshot, plan, buffered deltas | plan, chunk, commit, split, drop, demote | frame, proc, host and mirror tables | snapshot-then-commit, a lock whose session may die unseen, retries of failed transactions |
| Maestro launch (`launchOne`, `resolveUnknownLaunchOutcome`) | a bounded launch queue | send, poll, roll back, kill | RQD, frame and proc tables | a timed-out request may still arrive |
| Completion (`FrameCompleteHandler`) | a drain queue | resolve, drain, release a stale proc, finalize an orphan | RQD's reports, tables | reports are late, sent twice, or of another run |
| Maintenance (`MaintenanceManagerSupport`, `lostProc`) | task locks | orphaned procs, down hosts, orphaned frames | RQD, tables | statements that each commit by themselves; hosts that do not answer |
| Users (`JobManagerSupport`) | nothing | retry, eat, kill | RQD, tables | kill, poll and stop are three steps |
| Host reports (`HostReportHandler`) | nothing | ping, verify, memory kills | RQD, tables | what a host says it runs is compared with rows that moved on |
| RQD process (`rqcore.py`, `rqdservicers.py`) | a cache of running frames, one attendant thread each; what an administrator asked for | launch, setup, cache, kill, report, lock, shut down, reboot | Cuebot | the cache is by frame id, and a render in `setup()` is not in it yet; attendants, gRPC workers, a timer and status reports share it |
| Cores, GPUs and locks (`rqcore.py`, `rqmachine.py`) | idle, booked, locked; reserved cores; free GPUs | take, give back, lock, unlock | attendants, administrators | four counters that are each computed from the others, locked while they are booked |
| Nimby (`rqnimby.py`) | is somebody active, is the host locked | notice, kill, lock, unlock, stop, start again | listeners, checker, timer | flags without a mutex; a report that raises ends the thread that sends it |
| Tables (`AbstractTreeWidget.py`, `CueJobMonitorTree.py`) | what is shown; a fetch in flight, one put off | tick, force, land | worker pool, action runner | fetches overlap, are skipped, fail, land in any order |
| Worker pool (`ThreadPool.py`) | a bounded queue, results to hand over | queue, skip, refuse, run | tables | what is skipped is not told to its caller |
| Action runner (`ActionRunner.py`) | a queue, one thread | submit, run, call back, shut down | tables, Cuebot | an exit with work pending |
| Job whiteboard (`NestedWhiteboardDaoJdbc`) | one cached answer and one lock per show | answer, query | CueGUIs | a forced refresh must not get an answer older than itself |
| Mirrors (folder, job, layer, point, subscription) | core counts | deltas at commit, decrement at release | proc table | counters kept beside the rows they count |
| Post-complete worker (`FrameCompleteHandler`) | a completion queue, a flag, one thread | offer, scoop, file frames, check layers | `DependManagerService` | one task for any number of completions; retries of operations that half succeeded |
| Depends (`DependManagerService`, `DependDaoJdbc`, triggers) | depend rows, a count per frame | satisfy, create, reactivate, drop, mark, recover | worker, sweep, users | the count is kept beside the rows it counts, and each statement commits by itself |
| Legacy dispatcher, redirects, limits, job lifecycle, memory accounting, reservations, queues, completion forwarding, local bookings, Rust RQD | see `PROJECT.json` | | | planned or left out, section 8 |

`PROJECT.json` lists every component with its status and the hazards of the code at the
line where they bite.

What makes the core correct:

- a thread that stops a run stops the run it has read about, and no later one;
- no frame is rendered twice at once, and no render that is alive is given up;
- what is taken for a booking (cores, memory, folder usage) is given back once;
- a frame never stays RUNNING with nobody to end it, and a booking is always released,
  whatever message, host or Cuebot is lost on the way;
- a transaction that fails costs its own bookings, not the tick;
- a frame runs after what it depends on, and does not wait for ever once that has succeeded;
- a host hands nothing out twice and forgets nothing it had, and every launch is answered;
- somebody who sits down at a rendering desktop gets it, and it renders again afterwards;
- what a user does happens in the order of the clicks and is shown in the end.

## 2. The modules

`RunTables`: the two tables. Each SQL statement is a guard (its WHERE clause:
`StartMatches`, `StopMatches`, `ClearMatches`, ...) and a new table (its SET clause:
`Started`, `Stopped`, `Cleared`, ...). `frame[f].by` is no column: it remembers
which booking started the latest run, so that properties can tell runs apart.
A Maestro booking always inserts a fresh `pk_proc`, so a member of `Procs` *is* a booking.

`RqdRuns` extends it with the hosts: attendants (`render`: in setup, live, or signalled;
cached or not), launch requests that outlive their sender (`wire`), undelivered reports,
network and machines, the host's state in the database.

`FrameRun` extends that with Cuebot. A thread is a record in `tasks`: `pc` is its next
step and the other fields are what it has read. One action is one transaction, one read or
one RPC of one thread; all others run in between. Nothing says which Cuebot a thread is
of: Cuebots share nothing but the tables, and one that stops loses some set of threads.

| Actions | Code |
|---|---|
| `Book` | one winner of `startFramesAndProcsBatch`, with the eviction of corpses and their kills |
| `LaunchUnsent`, `LaunchAccepted`, `LaunchRefused`, `LaunchUnknown` | `launchOne` and the outcomes of `RqdClientGrpc.launchFrame` |
| `ConfirmPoll`, `RollbackUnbook`, `RollbackClear`, `BestEffortKill` | `resolveUnknownLaunchOutcome`, `rollbackLaunch` |
| `ReportArrives`, `ResolveFrame`, `DrainStop`, `StaleRead`, `StaleRelease` | `resolveForDrain`, `stopFramesBatch`, `releaseStaleProc` |
| `FinalRead`, `FinalNoProc`, `FinalStop` | `finalizeOrphanedFrameComplete` |
| `LostStart` ... `LostHostDown` | `lostProc` from `clearOrphanedProcs`, `clearDownProcs` and a failed kill |
| `OrphanFound` ... `OrphanReset` | `clearOrphanedFrames` |
| `RetryRequest` ... `RetryForce`, `EatRequest` ... `EatForce` | `retryFrame`, `eatFrame`, `manualStopFrame` |
| `Ping`, `VerifyKill` | `HostReportHandler` |
| `AgeProc`, `AgeFrame` | time: `ts_ping` or `ts_updated` is 300 seconds old |
| `StoreFrame`, `LaunchFails`, `RenderEnds`, `LateLaunch`, `ReportLost` | `FrameAttendantThread` and RQD's report retries |
| `Cut`, `Heal`, `HostDies`, `MarkDown`, `HostBoots`, `CuebotStops` | the environment, and `setUpHostsToDown` |

`MaestroCommit` stands beside it: one tick of the planning leader. `bot[c]` is the memory
of a Cuebot's tick thread (its plan, the chunk in hand and its pieces, the buffered deltas,
the misses of its lock probe); the rows and the advisory lock are shared. Its actions follow `commitInChunks`,
`commitContained`, `startFramesAndProcsBatch`, `leaderAlive`, `demote`, `onShutdown`,
and everybody else's writes to the same rows. The plan is *any* plan that
fits the snapshot, because what the scores choose does not matter to what is checked.

`Depends` takes over where `FrameRun` stops: a drained completion is offered to the
post-complete worker, which satisfies the depends on the frame and, once its layer is complete, on the layer.
`depend` holds which rows are active, `frame[f].count` is `int_depend_count`, and `Triggered`
is what the row triggers make of every update of a frame. `satisfyDepend` is three actions (`SetInactive`,
`GetDependentFrames`, `Decrement`) because `DependManagerService` is
`Propagation.SUPPORTS` and the worker, the sweep and the servants call it outside a transaction.
Runs themselves are short here (`Start`, `Finish`).

| Actions | Code |
|---|---|
| `QueuePostOps`, `DrainTo`, `LowerFlag`, `Recheck` | `queuePostOps`, `scheduleScoop`, `submitScoop` |
| `FileFrame`, `FileLayer`, `SatFails`, `CheckFails` | `batchPostOps`, `fileFrame`, `fileLayer`, `satisfyDependsWithRetry` |
| `SweepFind`, `SweepFix` | `recoverStuckDependencies` |
| `CreateCheck`, `CreateInsert`, `Charge` | `createDepend` |
| `RetryForce`, `RetryReadFrame`, `RetryReadLayer`, `UnsatisfyRequest`, `SetActive` | `retryFrame`, `unsatisfyDepend` |
| `EatFrame`, `DropDepends`, `MarkAsWaiting`, `MarkAsDepend`, `MarkUpdate` | `eatFrame`, `ManageDepend.satisfy`, `DispatchDropDepends`, `markFrameAsWaiting`, `markFrameAsDepend` |

`RqdHost` is one RQD process, with the insides that `RqdRuns` shows Cuebot only from afar. It extends
`RqdCores`, the counters and sets that `launchFrame` and `releaseCores` change under one lock. `stage[r]` is where the
attendant of launch `r` stands, `cache` is by frame id as in the code, `pc[w]` what a gRPC
worker or the timer is doing; a report that does not reach Cuebot raises in whoever sends it, which
is the fault that matters here. `RqdNimby` extends it with the person at the machine, the input
listeners and the checker.

| Actions | Code |
|---|---|
| `LaunchFrame`, `Reserve` (`TakeCores`, `TakeRefused`) | `launchFrame` before and under `__threadLock`, `canReserveHT`, `reserveHT`, `reserveGpus` |
| `StoreFrame`, `Fork`, `AttendantEnds` | `FrameAttendantThread.run`, `runLinux` |
| `ReleaseCores`, `Uncache`, `StartReport`, `EndReport` | `postFrameAction`, `releaseCores`, `deleteFrame`, `sendFrameCompleteReport` |
| `StatusFinds`, `StatusTells`, `StatusDrops` | `sanitizeFrames` |
| `KillRunningFrame`, `KillRenders` | `RunningFrame.kill` |
| `Lock`, `LockAll`, `StartUnlock`, `EndUnlock` | `lock`, `lockAll`, `unlock`, `unlockAll` |
| `ShutdownIdle` ... `CheckIdle`, `ShutdownNow`, `OnInterval`, `ShutdownLocks` ... `Exit` | `shutdownRqdIdle`, `rebootIdle`, `shutdownRqdNow`, `onInterval`, `shutdown` |
| `Interacts` ... `Notes`; `ChecksActivity` ... `NimbyUnlocks` | `__on_interaction`, `__lock_host_for_rendering`; `__check_state`, `__unlock_host_for_rendering` |
| `NimbyOff`, `ThreadEnds`, `RetryNimby` | `nimbyOff`, the end of `Nimby.run`, `retryNimby` |

`ExclusivePool` is what a host promises of anything it hands out by name, in nine lines: who takes an item is
its only owner until it gives the item back. `GpuPool` and `CpuPool` instantiate it with
owners read off the launches that hold cores; that `RqdHost` implements it for its GPUs is
`GpusExclusive`, and that it does not for the cores it pins frames to is `RqdHost_pins`.

`TreeRefresh` composes three modules that know nothing of each other: `WorkPool` (tasks are queued, skipped when a task of
the same comment waits, refused over a length, run by interchangeable workers, handed over in order), `ActionRunner`
and `Whiteboard`. The state of the farm is the number of changes made to it (`version`), so that what a
table shows is a number as well, and older is smaller. Plain tables number their fetches and drop an answer older
than the one they show; guarded ones have one fetch in flight and remember a forced one.

| Actions | Code |
|---|---|
| `Tick`, `PickShows`, `TimerFires`; `Asked`, `Forced`, `Landed` | `_update`, `_processUpdate`, `updateRequest`, `forceUpdate`, `updateSoon` of the two kinds of table |
| `PopTask`, `Fetch`, `AskBoard`, `GetBoard`, `Finish`, `Deliver` | `WorkerThread.run`, `_getUpdate`, `ThreadPool.__deliver` |
| `Choose`, `TakeAction`, `Act`, `Acted`, `Quit`, `TakeExit`, `Leave` | `_runAction`, `ActionRunner.submit`, `__run`, `shutdown`, `join` |
| `Answer` (`Hit`, `StartQuery`, `FinishQuery`), `Poll` | `getJobWhiteboard` |

`MCFrameRun` and `MCMaestroCommit` hold the symmetry sets of the runs, `MCDepends` a farm
of two layers, `MCRqdHost` and `MCRqdNimby` the launches of a small host, `MCTreeRefresh` the windows; the modules whose
name ends in `_proofs` hold the proofs.

Operators under a comment that begins with *Mutant* are not part of any specification. Each is
a plausible bug in the definition that follows it, and `PROJECT.json` names the property that
notices when the one is put in place of the other.

## 3. What the runs check

| Run | What may happen | Checked |
|---|---|---|
| `FrameRun_lost` | links cut, hosts die, `lostProc`, verification of host reports, a retry or an eat | `TypeOK`, `HolderStartedRun`, `CorpseOnlyFromLost`, `DrainStopsOwnRun`, `LostStopsOwnRun`, `LostReleasesNoRender`, `SucceededStays` |
| `FrameRun_launch` | launches unknown, refused, late; reports sent twice; a Cuebot stops; orphan sweep | `RollbackStopsOwnRun`, `RenderExclusive`, `FinalizeFreesNoOtherRender` |
| `FrameRun_live` | losses, stops and stalls, `lostProc` and the sweep, no users; fairness | `RunEnds`, `BookingReleased` |
| `MaestroCommit_tick` | two Cuebots; sessions lost, crashes, shutdowns, aborted transactions, rejected bookings, corpses, failed runs, eaten frames | `TypeOK`, `HostLedger`, `FolderLedger`, `OneProcPerRun`, `FolderCapHeld`, `TickContained` |
| `Depends_farm` | one request and one fault, or two faults: failing statements and checks, a Cuebot that stops; fairness | `TypeOK`, `HeldBack`, `FollowedUp`, `CompletionHasTask`, `StartsAfterDepends`, `NoneStranded` |
| `RqdHost_frames` | three launches, one frame among them twice; locks and unlocks between any two steps | `HostTypeOK`, `CoresAccounted`, `LockedNotIdle`, `NoCoreLost`, `LiveIsCached`, `GpusExclusive` |
| `RqdHost_shutdown` | one launch, kills, locks, idle and immediate shutdowns and reboots, a report that raises; fairness | `LaunchAnswered`, `IdleShutdownExits` |
| `RqdNimby_desktop` | one launch, a visitor, `nimbyOff`, `lockAll`, `unlockAll`, a report that raises; fairness | `InteractionLocks`, `LeftIsUnlocked`, `LostByNimbyUnlockOnly` |
| `TreeRefresh_actions` | two actions, a tick, a fetch that fails or a farm that changes, another CueGUI, an exit; fairness | `TreeTypeOK`, `ActionsInOrder`, `QuitRunsAll`, `ActionShown`, `InFlightEnds` |

Three further runs each find one disagreement between the code and what is written
about it (`"expect": "violation"`; section 5). Each takes less than five minutes with two workers; the largest
reach about two million states.

### Bounds, and why they are enough

- One frame. Threads meet on a frame's row; two frames share only RQD's
  cache, which is by frame id, and the ledgers, which `MaestroCommit` has four frames for.
- Two bookings of it (`Procs`). Every safety property of the passing runs is about a thread of one run meeting
  a later run. That two are enough to see it go wrong is no matter of course: `FrameRun_rebooked` (section 5) needs a
  third. TLAPS removes this bound for all safety properties of `FrameRun`, under the assumptions of section 6.
- Two hosts where a property needs renders in two places, one elsewhere.
- Two or three faults (`MaxFaults`) and one user request: a cut and a death, or an
  unknown outcome, a late delivery and a stopped Cuebot, in every order.
- The liveness run has one booking: its properties are about each booking by
  itself, and a second one multiplies the graph on which liveness is decided.
- `MaestroCommit`: four frames on two hosts of two cores, a folder cap of three and chunks of two. A plan may want all
  four, so that the cap trims it; what is left are two chunks, of one host or of two, and one of two hosts splits when it
  fails. Versions up to 2 let a frame end and be planned again within a tick; a run that ends in
  WAITING counts as the one fault. 1.1 million states.
- `Depends`: a layer of two frames, so that one is filed while the other runs, and a frame that waits for
  it. A job spec brings one depend (the whole layer, any frame of it, or frame on frame within it) and users may add a
  second one to the same frame. `Outcomes` and `Retried` bound which runs end, how, and which frame is retried; the run of the waiting
  frame outlasts the behaviour, since nothing waits for it. Two attempts (`DependTries`) stand for three.
- `FrameRun_launch` has the sweep, and neither `lostProc` nor users. `RenderExclusive` and `FinalizeFreesNoOtherRender`
  are proved for both together (section 6); with a live host that stays silent they fail (`FrameRun_rebooked`).
- `RqdHost`: three launches on two cores of two units and one GPU. One is pinned to a core, one asks for as many
  units unpinned and the GPU, and the third is the first frame again with the GPU: the second and third compete for it, the
  first and third for the cache entry. Locks of three of the four units are more than is idle, so that a
  lock reaches into what is booked. TLAPS removes these bounds for all properties of `RqdHost_frames`. Three
  commands, of eight, are an idle shutdown, an unlock that withdraws it and another shutdown, in every order.
- `RqdNimby`: one listener. The two differ in nothing but the device, and what two callbacks in
  a row do, two listeners do. One visit, which may last and may be noticed any number of times; two commands turn nimby off and lock
  and unlock the host while it is off.
- `TreeRefresh`: one table of each kind, two workers and a queue that refuses at length 2: two actions fill the queue
  while both workers are busy. A queue of length 2 holds the comments of both tables, so that
  a fetch that is refused would have been skipped as well. `MaxTurns` is what may go wrong or change outside, once. Two tables of one class are
  the run `TreeRefresh_windows`, where `InFlightEnds` fails, and `TreeRefresh_twins`, where `ActionShown` does (section 5).
- What is only model-checked, and so rests on these bounds, are the liveness properties: section 6 lists them.
- Symmetry (`Sym`, `SymCores`) permutes bookings and hosts; Cuebots, hosts and frames but the rejected one; and the
  physical cores of a host. It is used in safety runs only.
- `CHECK_DEADLOCK FALSE` everywhere: when all bookings of a behaviour are used up, or all versions, nothing is left to do.

## 4. What is assumed

Time is abstracted to what the code compares. The assumptions are in the guards:

- *Two reads back to back are one step*, unless `"stall"` is among the faults. Between the two reads
  of `resolveForDrain`, and between `lostProc`'s delete and its read of the frame, lie
  milliseconds. `FrameRun_live` and `FrameRun_fence` drop the assumption.
- *Quiet*: a row is old only 300 seconds after its last ping, and a host is DOWN after as long
  a silence. A launch is sent within half of that (`launchMaxAgeMs`), and a request on the wire, an attendant's
  `setup()`, a report to a reachable Cuebot and its handling take seconds. None of them is still under way then.
- *Only a dead machine is silent for 300 seconds.* `lostProc` says so itself ("a genuinely
  dead host leaves no live RQD"). A cut that outlasts it is outside the model, except that `lostProc` and the
  sweep may at any time give up an unreachable host's frame as DEAD, as they do after their deferral limits.
- The second poll of `resolveUnknownLaunchOutcome` comes `poll_interval_ms` after
  the first: a request that had reached the host has been processed by then.
- A host that rebooted proves it only of bookings older than its boot by 300 seconds.
- The maintenance passes hold their task locks: one `lostProc` pass and one sweep at a time.
- Users retry and eat frames that ran at least once (a bound).

Fairness, in `FrameRun_live`: each pool or schedule (launch pool, drain, maintenance,
sweep, user requests, report handling) takes a step if it stays able to; RQD processes what it received, renders end
and reports are re-sent; a cut link heals, so that `lostProc`
never defers for ever; a silent host is marked DOWN; time passes. Never assumed: that a fault, a booking or a
request happens, that a dead machine returns, or that any one thread among several of a pool is preferred. Weak
fairness is what thread pools and periodic schedules give. In `Depends_farm`: a satisfaction in progress goes on, and the
sweep comes again. The worker itself is not asked to be fair: `NoneStranded` needs the sweep alone.

On a render host (`FairSpec`, `FairDesktopSpec`): attendants, the status report, a command under way and the interval
timer go on; a render ends, by itself or after the kill. One fairness condition for all of them is enough, because each of them
comes to an end. Nobody stays logged in for ever (`UserLoggedIn` may answer no, which is all `onInterval` asks). On a
desktop the clock goes on, listeners and checker run, and memory and swap are found sufficient again and again, which is
strong fairness of one branch of the checker: `isNimbySafeToRunJobs` is asked anew every time and need not say yes. In
`FairTreeSpec` the GUI thread collects what was handed over, timers run down, an idle worker takes a task, the action runner
works, and Cuebot answers. Never assumed: that a user acts, a table ticks, another CueGUI asks, or an administrator sends a command.

*A process is up and connected.* `RqdHost` starts with an RQD that has found its Cuebot; a fault is a report that raises once. What
`UserLoggedIn` and the load of the machine answer is left open at every call.

*The sweep's last statement does not fall between two statements of a satisfaction*, again unless `"stall"` is among the
faults: they are milliseconds apart and the sweep runs every ten minutes. `fixStuckDependCounts` has no age threshold, and with `"stall"`
`HeldBack` fails: a count is reset, a retry charges it again, and the decrement that was under way takes the charge off.
The guard makes the sweep wait for quiet; no run is long enough to keep it from finding any.

*A depend is on a frame or on a layer, and only a depend of a layer on a layer may be satisfied by any frame of it*
(`RowAssumption`). `createDepend(BuildableDependency)`, which builds the depends of a job spec, is the only place that
sets `anyFrame`, for that type alone; users create the other rows.

## 5. Where the code and its words differ

Three of these are runs that TLC refutes; `PROJECT.json` "findings" quotes the lines.

- `FrameRun_retry`. One poll that finds nothing is no proof that a render is dead when it is in `setup()`.
- `RqdHost_kill`. A frame whose process has not been forked has pid 0, not `None`: a kill between `storeFrame` and the
  fork signals process group 0, which is RQD's own.
- `TreeRefresh_windows`. The pool skips a fetch whose comment is queued already, and the comment names the class of the
  table: with two job monitors open, one waits for ever for a callback that does not come.

The others are configurations beside them, to be run by hand (`tlc -config <name>.cfg <module>`). Each checks one property and
violates it:

- `FrameRun_fence` (`DrainStopsOwnRun`). The ownership fence of `resolveForDrain` reads the proc, then
  the frame. A retry and a new booking in between give the old run's report the new run's version.
- `FrameRun_rebooked` (`RenderExclusive`). `finalizeOrphanedFrameComplete` looks for a proc, not for the report's run; its comment says
  that "the 'no proc assigned' check ensures we're handling a genuine orphan". `lostProc` gives up a live host that stays silent past
  `lost_proc_max_defer_ms`, deletes the proc row, and parks the frame DEAD in a later statement, "so an unconfirmable
  render can neither linger RUNNING forever nor be auto-rebooked". Between the two a late report of an *earlier* run finds the frame RUNNING with no proc
  and stops it to WAITING: a third booking renders it beside the second.
- `Depends_mark` (`DependHasDepend`). `markFrameAsDepend` counts the depends of the other frames of the layer, so a frame that waits
  for nothing goes into DEPEND until the sweep notices.
- `MaestroCommit_flush` (`FailureContained`). When a piece fails its halves are retried, so that of a failing chunk
  one host's bookings are dropped and "every other booking lands this tick. Retrying is safe because a failed transaction rolled back
  whole and the retry passes the same frame-version guard" (`Maestro.java`, the comment of `commitContained`). `version++` in memory
  outlives the rollback, and whatever may reject a booking (the triggers of the proc insert, `c_proc_uk`, the triggers of the
  delta flush) comes after it: the halves carry versions that no row has and win nothing. One more tick plans them again.
  What the passing run checks instead is what the split does keep, `TickContained`: the pieces and chunks after the failed one lose nothing.
- `MaestroCommit_strikes` (`LostLeaderStops`). `leaderAlive` forgets its strikes when it reports the loss; when the split of a failing piece
  used that answer up, one more chunk is committed without the lock.
- `RqdHost_report` (`UnreportedIsKept`). `sanitizeFrames` is to find "frames that might have completed but never reported back", but
  `postFrameAction` drops the cache entry before it reports: a report that raises is never repeated, and it is left
  to Cuebot's sweep to notice.
- `RqdHost_relaunch` (`EveryLiveIsCached`). `launchFrame` refuses a frame that is in the cache "already running on this proc", long before
  `storeFrame` puts it there. Of two launches of one frame the second fails in `storeFrame`, and its `postFrameAction` drops the
  first one's entry, by frame id: no kill and no host report finds the render any more. A `sanitizeFrames` that has reported the end of an earlier
  launch does the same to one that came meanwhile. `LiveIsCached`, which the passing run checks, exempts launches that meet like this.
- `RqdHost_pins` (`PinsExclusive`). The last entry to leave the cache clears every reserved core, those of a launch that is
  still in `setup()` included: two frames are pinned to one core. Only speed is lost.
- `RqdNimby_active` (`ActiveUserLocked`). The checker may decide that nobody is active, and take the lock off, while a listener that has
  just seen somebody finishes what it does for an unlocked host.
- `TreeRefresh_twins` (`ActionShown`). Two plain tables of one class: the fetch forced by one's action is skipped while the fetch of the other waits
  in the queue, and what the action changed is shown only when the table next refreshes by itself.
- `TreeRefresh_stale` (`NeverGoesBack`). Fetches are numbered when they are queued and not when they read: the
  older of two that overlap may carry the newer state, and lands first.

## 6. What is proved

Every safety invariant and every safety action property of the passing runs is a theorem, for all values of the
constants that satisfy the assumptions named here. Liveness is not.

| Module | Theorems | Argument |
|---|---|---|
| `FrameRun_proofs` | types, whose run is stopped, whose proc a frame has | a version once superseded never comes back |
| `FrameRun_renders_proofs` | who renders a frame, what `lostProc` and late reports release | a booking passes once through pool, wire, host and report |
| `MaestroCommit_proofs` | types, the three ledgers, the folder cap, a failure that costs its piece | a plan names a frame once, however it is cut, and can afford what is left of it |
| `Depends_proofs` | types, no completion without a task | one task and one flag keep each other |
| `Depends_counts_proofs` | no frame is let go early, none starts early, nothing is left over | the books balance after every statement |
| `RqdHost_proofs` | types, units, GPUs (a refinement), the cache | every step is one of four on the ledger |
| `RqdNimby_proofs` | the same for a desktop, and what nimby may lose | nimby's own steps are aside of the ledger |
| `TreeRefresh_proofs` | types, the order of actions, an exit that waits | what waits carries the numbers that follow |

`FrameRun_proofs` proves, for every number of frames, hosts and bookings and any bounds:

- `TypeCorrect`. `TypeInv` adds to `TypeOK` what a thread's next step needs of what
  it has read (`Fits`) and that an inserted booking has a host.
- `RunCorrect`. `RunInv` is inductive. `HolderStartedRun` does not follow from itself: a thread may stop a frame at
  a version it read long ago. The strengthening, `Good`, says of
  every thread between such a read and the write it fences: the version it knows is not ahead of the
  row, and while it is the row's, the frame's latest run is the one the thread is about. Every
  statement that changes a run bumps the version, so a version once superseded never comes back.
- `HolderCorrect`, `RollbackCorrect`: consequences, with every fault, stalls included.
- `DrainCorrect`, `CorpseCorrect`: under `~Stall`, that the two reads of `resolveForDrain` are one
  step. The assumption is necessary: `FrameRun_fence` is the behaviour without it.

The proofs rest on `NullAssumption` and `BoundsAssumption` alone, which say that the null values are
none of the rows and that the bounds are numbers. One lemma per group of actions shows that types are
kept, one that runs are kept; a booking, the only step that starts a run, has its own (`BookRun`).

`FrameRun_renders_proofs` proves, on top of that, what happens on the hosts:

- `LostStopsCorrect`, `LostReleaseCorrect`, under `~Stall`. The invariant (`ExclInv`) follows a booking along its way: a launch in the pool, a
  request on the wire, an attendant in `setup()`, a render, a report. It has at most one of these at a time and
  never goes back, so what a thread has seen of a booking says how far it must have got: a row that is
  old has nothing under way, an unreachable host that is confirmed dead renders nothing. A live host that is silent may render on,
  and the theorem says that then the frame is not given back.
- `RenderCorrect`, under `~Stall` and `Heard`: `lostProc` is not at work, or links are not cut, so that it never meets a live
  host that does not answer. Then whatever still renders a frame, or may begin to, owns it (`Claims`, `Owns`). `Heard` is
  necessary: `FrameRun_rebooked` is the behaviour without it.
- `FinalizeCorrect`, under the same assumptions and without users: a corollary of the same invariant.
- `SucceededCorrect` assumes nothing. The host-down reset of `lostProc`, which is fenced on neither state nor version, meets
  only the frame it has read as DEAD, because one `lostProc` runs at a time and nothing else takes a frame out of DEAD unasked (`Unasked`).

That nobody has retried or eaten a frame so far is a hypothesis of the properties themselves (`NobodyAsked`), but for
`FinalizeFreesNoOtherRender`; what a retry can do to a render is `FrameRun_retry`.

`Depends_proofs` proves, for every farm, every set of depends and any number of requests and faults:

- `TypeCorrect`. A count stays a natural number whatever order the decrements of several satisfactions
  come in. Its invariant adds that a layer put up for its check is some frame's (`Registered`, or `FileLayer` would
  choose an item that is no frame) and that a satisfaction that reads has a depend in hand (`Working`).
- `TaskCorrect`. `CompletionHasTask` is not inductive: a task that waited in the executor while another
  filed would be left behind when the first one's flag comes down. `OneTask` excludes that, and the
  two keep each other: the flag is up while either exists, so the compare-and-set submits no second one.

They rest on `DependsAssumption`: finitely many frames and depends, every frame in a layer, depends between
frames and sets of frames.

`Depends_counts_proofs` goes on from there:

- `HeldBackCorrect`, under `~Stall`. A depend row and the counts it stands for are written one statement after the other. With what
  satisfactions have yet to take off (`Pending`) and what a request has yet to charge (`Owed`) the books balance after every
  statement: `Holding + Pending <= count + Owed` for each frame. `~Stall` is used in one place, the sweep's reset of a
  count; without it the reset falls between two statements of a satisfaction and `HeldBack` fails (section 4).
- `StartsCorrect`, with stalls, failing statements and stopped Cuebots. Until a user asks for something every depend that
  was given up is one that had been earned (`Earned`), and every completion counted is one that happened (`Current`, `Accounted`).
- `FollowedUpCorrect`. Where nothing failed and nobody intervened, counts are exact up to what a satisfaction in
  progress holds in its hand, and what has succeeded and was not followed up yet is in the queue, filed, or put up for a
  check (`FramesDue`, `LayersDue`): when the worker has nothing left, nothing is due. This one rests on `RowAssumption` too.

`MaestroCommit_proofs` proves, for every number of Cuebots, frames and hosts, every chunk size, cap, split and strike
budget, and every mixture of faults:

- `HostLedgerCorrect`, `FolderLedgerCorrect`, `OneProcPerRunCorrect`, `TypeCorrect`. The ledgers are not inductive: they say
  nothing of a piece that waits for its commit, and a piece that named a frame twice would book two procs for it. `Work`
  adds that the pieces and the rest of a plan name every frame once (`Apart`), which planning, trimming, chunking,
  splitting and the version bump of a failed flush keep, and that no deltas are buffered between two actions.
  A commit is then an exchange (`Exchanged`): corpses for as many procs as were won.
- `FolderCapCorrect`. While only the holder of the lock commits, the folder and what the holder has left to
  commit fit in the cap together (`Capped`): the trim makes it so, a run that ends makes room, a commit moves
  from one side to the other, and a Cuebot without the lock that wins something has set `unlocked`.
- `TickContainedCorrect`, wherever in its transaction a piece fails, and with every fault. While the holder of the lock alone commits, its tick can
  afford all it has left (`Contained`): what is left fits the idle cores host by host, the versions it planned are not ahead of the
  rows, and every booking it planned is still left, overtaken (won by it, or its row moved on), or in a piece that failed. A piece
  that commits takes from the idle cores what it takes from the rest; a piece that fails takes nothing, and what
  it bumps in memory is the version of bookings that are in a failed piece by then. That the retries of that piece land as well does
  not hold: `MaestroCommit_flush`.

They rest on `CommitAssumption`: finitely many frames, numbers that are numbers, and no Cuebot that is none. The least element
that the chunk's end and the nearest boundary are chosen by is a lemma of its own.

`RqdHost_proofs` proves, for every set of launches and whatever they ask for, of one host:

- `HostTypeCorrect`, `CoresAccountedCorrect`, `LockedNotIdleCorrect`, `NoCoreLostCorrect`. Every step leaves the ledger alone, takes for
  a launch, gives back what one has, or locks (`Quiet`, `Takes`, `Gives`, `Locks`), and the four are shown to keep
  `LedgerInv`: what is booked is the sum of what the holders asked for. That sum is the cardinality of a set with
  one element for each unit, because a recursive sum is beyond the prover.
- `GpusExclusiveCorrect`. `RqdHost` implements `ExclusivePool` for its GPUs: initial states map to initial
  states, a take is a `Take` of free items, a release a `Give`, every other step a stutter. The invariant behind it says that free
  GPUs are nobody's and that no two holders share one.
- `LiveIsCachedCorrect`. A render is in the cache unless its frame was launched while an earlier launch of it was in hand: its attendant
  had not dropped its entry yet, or a status report was about to (`InHand`, `doubled`). Entries are dropped by frame id, so the
  invariant (`LiveInv`) says whose an entry can be: a launch of that frame which has stored it and not dropped it (`EntriesEntered`). A status report drops what
  is over (`StatusIsOver`), and two launches of one frame are in hand at once only if the later one doubled it (`OneInHand`). A re-launch
  after a launch that is done, refused or lost is not exempt, and `RqdHost_relaunch` is what happens to one that is.

They rest on `CoresAssumption` and `HostAssumption`. The invariant has two parts: `HostInv`, which holds with nimby too, and
`PlainInv`, which adds `NoCoreLost` and holds of hosts without.

`RqdNimby_proofs` proves the same of a desktop (`DesktopSpec`), for any listeners, visits and commands: what nimby does of
its own accord touches neither ledger, cache nor launches (`Aside`), and the host's steps keep `HostInv` whatever nimby has locked.
`LostByNimbyCorrect` says what nimby does change: the one step that loses units is an administrator's `unlockAll`
while nimby has the host locked. It rests on `NimbyAssumption` as well.

`TreeRefresh_proofs` proves `ActionsInOrder` and `QuitRunsAll` for any tables, workers and number of actions. What ran is
an unbroken row of numbers, what waits continues it (`WaitsInOrder`), the `None` of `shutdown` is behind all of it
(`PoisonIsLast`), and what was submitted is one or the other (`NoneMissing`). `TreeTypeCorrect` needs an account of what the user
did (`Account`): changes of the farm, fetches and timers are paid for by actions that ran, ticks and turns, so that no number passes its bound.

Model-checked only: liveness, which is out of the prover's reach. It is `RunEnds`, `BookingReleased`, `NoneStranded`, `LaunchAnswered`,
`IdleShutdownExits`, `InteractionLocks`, `LeftIsUnlocked`, `ActionShown` and `InFlightEnds`.

## 7. What is simplified

- `Depends` has no depends of or on whole jobs and no composite ones (frame by frame, previous frame), one Cuebot's worker, and
  `depend.satisfy_only_on_frame_success` at its default. A scoop and the sweep's batch are never full. A depend with
  `b_any` that was lost is found by the sweep only once the whole layer has succeeded, as in the code, and so is one on a layer with an
  EATEN frame never: `NoneStranded` promises no more.
- DEPEND, SETUP and CHECKPOINT frames are not in the run of a frame (`FrameRun`).
  What `determineFrameState` chooses for a failed run is WAITING or DEAD, freely.
- `releaseStaleProc` has only its unbook branch: a proc is never redirected here.
- Reports of a frame whose proc is evicted, and kills of its render, are in `FrameRun`, not in `MaestroCommit`, whose procs render nothing.
- `MaestroCommit`: one core per booking and one folder, which stands for the five mirrors that are kept the same way. No
  limits, OOM bumps or local dispatches. A session that is lost is lost for good for its connection.
- `RqdHost` and `RqdNimby` follow the Python RQD on Linux, without docker and without the recovery of its cache from a
  file. Which socket a core is taken from is left open, and so are loads, memory and the figures of a report. A
  machine without `pynput`, where nimby never locks, is not modelled.
- An attendant whose fork failed stays in the cache with pid 0 for the ten seconds before its post actions, and a kill in that
  time signals group 0 too; `KillRenders` has that (`noPid`).
- `RetryNimby` starts a new nimby when the callbacks of the old one have ended. The code does not wait for them; they take a moment and
  the retry comes with every fifth heartbeat. `InteractionLocks` promises the lock alone: that the renders go is what a kill
  does, and a kill that meets a render without a pid does not (`RqdHost_kill`).
- A core is worth `CoreUnits` units, 2 for the 100 of the code: a frame asks for whole cores or for part of one.
- `Whiteboard`: whether an entry is younger than ten seconds is left open, one show, one Cuebot. The start of a query
  (`queryStartNanos`) and the snapshot its SELECT reads are one step; what is committed until it ends is not in its answer.
- `TreeRefresh` knows a table by what it shows, not by its items and columns. The frame monitor's incremental updates, the
  tables that tick once a second and the progress dialogs are left out.
- `excused` and `wanted`, `told`, `ran` and `submitted` are history there.
- `by`, `planned`, `told`, `failed`, `unlocked` and `doubled` are history: nothing but properties and the choice of whom the orphan
  sweep's row belongs to reads them.

## 8. The plan

Done: `RunTables`, `RqdRuns`, `FrameRun`, `MaestroCommit`, `Depends`, `RqdHost` with `RqdCores`, `RqdNimby` and
`ExclusivePool`, `TreeRefresh` with `WorkPool`, `ActionRunner` and `Whiteboard`, and the proofs of section 6. Next, in this order:

1. `Depends`, continued: job-level and composite depends, job completion and
   the archiving of a job against a retry. Abstract specification: a frame that ended is followed up exactly once.
2. `ExitDecision`: `determineFrameState` as a function of exit status, signal, retries and layer, against its
   documented table, with the exit status a start does not reset and the retry count taken from it.
3. `LockOrder`: the row locks of batch stop, booking commit, single-frame triggers and memory
   bumps, in the order each transaction takes them. No deadlock.
4. `ProcMemory`: reservation, balancing and the host's idle memory; the ledger never goes below zero.
5. `LegacyBooking`: a proc rebooked by its own completion, and redirects: the assumption of `RunTables`
   that a row is one booking falls there.
6. `Limits`: the gate of `UPDATE_FRAME_STARTED` against the plan's budgets.
7. `FrameMonitor`: full and incremental updates that share one comment, and the progress dialogs on the same pool.
8. Queues and load shedding, the launch breaker, the Rust RQD against `ExclusivePool` and `RqdHost`'s properties, completion forwarding.

Abstract specifications worth stating: a *run ledger* (booked, rendering, ended; each
run ends once), implemented by `FrameRun` through a refinement mapping that reads the current run
off `frame`; and `RqdRuns`' view of a host, implemented by `RqdHost`.

Theorems to prove: that `FrameRun` implements the run ledger, step by
step, and `RqdHost` what `RqdRuns` shows of it. Not modelled and not planned: the other clients and widgets,
filters, departments, whiteboard queries but the job whiteboard, monitoring, which change nothing a run depends on or change one row at a time.
