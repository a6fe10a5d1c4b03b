--------------------------- MODULE FrameRun_proofs ---------------------------
(***************************************************************************)
(* Proofs about FrameRun, for every set of frames, hosts and bookings and   *)
(* any bounds.                                                              *)
(***************************************************************************)
EXTENDS FrameRun, TLAPS

-----------------------------------------------------------------------------
(* What the statements on the tables return. *)

\* A row of the frame table is a frame row.
LEMMA FrameRowType ==
  ASSUME TablesTypeOK, NEW f \in Frames
  PROVE  frame[f] \in FrameRow /\ frame[f].ver + 1 \in Nat
  BY DEF TablesTypeOK, FrameRow

\* A start changes the frame it names, and that frame's run.
LEMMA StartedFrame ==
  ASSUME TablesTypeOK, NEW f \in Frames, NEW p \in Procs, NEW h \in Hosts
  PROVE  /\ Started(f, p, h) \in [Frames -> FrameRow]
         /\ \A g \in Frames : g # f => Started(f, p, h)[g] = frame[g]
         /\ Started(f, p, h)[f].state = "RUNNING"
         /\ Started(f, p, h)[f].ver = frame[f].ver + 1
         /\ Started(f, p, h)[f].exit = frame[f].exit
         /\ Started(f, p, h)[f].by = p
  BY FrameRowType DEF TablesTypeOK, FrameRow, Started, FrameState

\* A stop changes the frame it names, bumps its version and keeps its run.
LEMMA StoppedFrame ==
  ASSUME TablesTypeOK, NEW f \in Frames, NEW s \in FrameState, NEW x \in Exit
  PROVE  /\ Stopped(f, s, x) \in [Frames -> FrameRow]
         /\ \A g \in Frames : g # f => Stopped(f, s, x)[g] = frame[g]
         /\ Stopped(f, s, x)[f].state = s
         /\ Stopped(f, s, x)[f].ver = frame[f].ver + 1
         /\ Stopped(f, s, x)[f].exit = x
         /\ Stopped(f, s, x)[f].by = frame[f].by
  BY FrameRowType DEF TablesTypeOK, FrameRow, Stopped

\* A forced state is a stop that keeps the exit status.
LEMMA ForcedFrame ==
  ASSUME TablesTypeOK, NEW f \in Frames, NEW s \in FrameState
  PROVE  /\ Forced(f, s) \in [Frames -> FrameRow]
         /\ \A g \in Frames : g # f => Forced(f, s)[g] = frame[g]
         /\ Forced(f, s)[f].state = s
         /\ Forced(f, s)[f].ver = frame[f].ver + 1
         /\ Forced(f, s)[f].exit = frame[f].exit
         /\ Forced(f, s)[f].by = frame[f].by
  BY FrameRowType DEF TablesTypeOK, FrameRow, Forced

\* The proc table after each statement: rows stay rows, and a row that was
\* inserted keeps its host.
ProcsKept(new) ==
    /\ new \in [Procs -> ProcRow]
    /\ \A p \in Procs : proc[p].row # "unused"
          => new[p].row # "unused" /\ new[p].host = proc[p].host

\* A delete by pk_proc touches one row, and that row is not live after it.
LEMMA DeletedProcs ==
  ASSUME TablesTypeOK, NEW p \in Procs
  PROVE  /\ ProcsKept(DeletedIfThere(p))
         /\ \A q \in Procs : q # p => DeletedIfThere(p)[q] = proc[q]
         /\ DeletedIfThere(p)[p].row # "live"
  BY DEF TablesTypeOK, ProcRow, ProcsKept, DeletedIfThere, DeleteMatches,
         Deleted, Gone

\* Clearing an assignment by frame takes the frame from its holder, and no row away.
LEMMA UnassignedProcs ==
  ASSUME TablesTypeOK, NEW f \in Frames
  PROVE  /\ ProcsKept(Unassigned(f))
         /\ \A q \in Procs : /\ Unassigned(f)[q].frame \in {proc[q].frame, NoFrame}
                             /\ Unassigned(f)[q].row = proc[q].row
                             /\ proc[q].row = "live" => Unassigned(f)[q].frame # f
  BY NullAssumption DEF TablesTypeOK, ProcRow, ProcsKept, Unassigned, ProcsOn

\* The insert of the batch commit adds one row that holds the frame and removes
\* those that held it; every other row stays.
LEMMA InsertedProcs ==
  ASSUME TablesTypeOK, NEW f \in Frames, NEW p \in Procs, NEW h \in Hosts,
         proc[p].row = "unused"
  PROVE  /\ ProcsKept(EvictedAndInserted(f, p, h))
         /\ EvictedAndInserted(f, p, h)[p].row = "live"
         /\ EvictedAndInserted(f, p, h)[p].frame = f
         /\ EvictedAndInserted(f, p, h)[p].host = h
         /\ \A q \in Procs : q # p =>
              \/ EvictedAndInserted(f, p, h)[q].row = "gone"
              \/ /\ EvictedAndInserted(f, p, h)[q] = proc[q]
                 /\ ~(proc[q].row = "live" /\ proc[q].frame = f)
  BY DEF TablesTypeOK, ProcRow, ProcsKept, EvictedAndInserted, ProcsOn, Gone

-----------------------------------------------------------------------------
(* Type correctness.  What a thread has read is of the kind its next step    *)
(* needs: a launch knows an inserted booking and its frame, a stop knows the *)
(* state it stops into.                                                      *)

Fits(pc, p, f, arg) ==
    /\ pc \in LaunchPc => p \in Procs /\ proc[p].row # "unused"
    /\ pc \in ReportPc \cup LostPc \cup {"eatKill"} => p \in Procs
    /\ pc # "lostUnbook" => f \in Frames
    /\ pc \in {"drain", "final2", "final3", "orphanReset"} \cup LostPc
          => arg \in FrameState

TaskOK(t) == t \in Task /\ Fits(t.pc, t.proc, t.frame, t.arg)

HostsKnown == \A p \in Procs : proc[p].row # "unused" => proc[p].host \in Hosts

TasksFit == \A u \in tasks' : u \in tasks \/ TaskOK(u)

TypeInv ==
    /\ TypeOK
    /\ HostsKnown
    /\ \A t \in tasks : TaskOK(t)

\* What an action has to show: the tables keep their rows, the other variables
\* their types, and the threads it adds or moves are well formed.
LEMMA TypeStepAny ==
  ASSUME TypeInv,
         frame' \in [Frames -> FrameRow], ProcsKept(proc'), HostsKnown',
         RqdTypeOK', faultsLeft' \in Nat, requestsLeft' \in Nat,
         \A u \in tasks' : u \in tasks \/ TaskOK(u) \/ TaskOK(u)'
  PROVE  TypeInv'
<1>1. \A u : TaskOK(u) => TaskOK(u)'
  BY DEF TaskOK, Fits, ProcsKept, Task
<1>2. \A t \in tasks' : TaskOK(t)'
  BY <1>1 DEF TypeInv
<1>3. TypeOK'
  BY <1>2 DEF TypeOK, TablesTypeOK, ProcsKept, TaskOK
<1>. QED  BY <1>2, <1>3 DEF TypeInv

\* The same, when every thread that is new or moved is well formed (TasksFit).
LEMMA TypeStep ==
  ASSUME TypeInv,
         frame' \in [Frames -> FrameRow], ProcsKept(proc'), HostsKnown',
         RqdTypeOK', faultsLeft' \in Nat, requestsLeft' \in Nat, TasksFit
  PROVE  TypeInv'
  BY TypeStepAny DEF TasksFit

\* The same for the actions that leave the tables, the hosts or the bounds alone.
LEMMA SameProcs ==
  ASSUME TypeInv, UNCHANGED proc
  PROVE  ProcsKept(proc') /\ HostsKnown'
  BY DEF TypeInv, TypeOK, TablesTypeOK, ProcsKept, HostsKnown

\* No statement, no change of types: neither frames nor procs.
LEMMA SameTables ==
  ASSUME TypeInv, UNCHANGED tables
  PROVE  frame' \in [Frames -> FrameRow] /\ ProcsKept(proc') /\ HostsKnown'
  BY SameProcs DEF TypeInv, TypeOK, TablesTypeOK, tables

\* An action of Cuebot alone leaves what is on the hosts well formed.
LEMMA SameRqd ==
  ASSUME TypeInv, UNCHANGED rqdVars
  PROVE  RqdTypeOK'
  BY DEF TypeInv, TypeOK, RqdTypeOK, rqdVars

\* An action that spends nothing leaves the bounds what they are.
LEMMA SameBounds ==
  ASSUME TypeInv, UNCHANGED bounds
  PROVE  faultsLeft' \in Nat /\ requestsLeft' \in Nat
  BY DEF TypeInv, TypeOK, bounds

\* A fault is only spent while one is left.
LEMMA SpendType ==
  ASSUME TypeInv, NEW x, Spend(x)
  PROVE  faultsLeft' \in Nat /\ requestsLeft' \in Nat
  BY DEF TypeInv, TypeOK, Spend

\* A proc statement that inserts no row.
LEMMA KeptHosts ==
  ASSUME TypeInv, ProcsKept(proc'),
         \A p \in Procs : proc'[p].row = "unused" \/ proc[p].row # "unused"
  PROVE  HostsKnown'
  BY DEF TypeInv, HostsKnown, ProcsKept

\* A delete keeps the proc table's type and every booking's host.
LEMMA DeleteType ==
  ASSUME TypeInv, NEW p \in Procs, proc' = DeletedIfThere(p)
  PROVE  ProcsKept(proc') /\ HostsKnown'
<1>1. ProcsKept(proc')
  BY DeletedProcs DEF TypeInv, TypeOK
<1>2. \A q \in Procs : proc'[q].row = "unused" \/ proc[q].row # "unused"
  BY DeletedProcs DEF TypeInv, TypeOK, DeletedIfThere, DeleteMatches
<1>. QED  BY <1>1, <1>2, KeptHosts

\* So does clearing an assignment.
LEMMA UnassignType ==
  ASSUME TypeInv, NEW f \in Frames, proc' = Unassigned(f)
  PROVE  ProcsKept(proc') /\ HostsKnown'
<1>1. ProcsKept(proc') /\ \A q \in Procs : proc'[q].row = proc[q].row
  BY UnassignedProcs DEF TypeInv, TypeOK
<1>. QED  BY <1>1, KeptHosts

\* A kill signals attendants and changes nothing else on the hosts.
LEMMA KillType ==
  ASSUME TypeInv, NEW h, NEW f, render' = KilledRenders(h, f),
         UNCHANGED <<wire, report, net, hw, rebooted>>
  PROVE  RqdTypeOK'
<1>1. \A r \in Render : [r EXCEPT !.stage = "dying"] \in Render
  BY DEF Render
<1>. QED  BY <1>1 DEF TypeInv, TypeOK, RqdTypeOK, KilledRenders

-----------------------------------------------------------------------------
(* A thread that moves on is well formed if its next step fits what it knows. *)

\* It moves to another step and keeps what it knows.
LEMMA GoesFit ==
  ASSUME NEW t, TaskOK(t), NEW pc \in Pc, Fits(pc, t.proc, t.frame, t.arg),
         Goes(t, pc)
  PROVE  TasksFit
<1>1. TaskOK([t EXCEPT !.pc = pc])
  BY DEF TaskOK, Task
<1>. QED  BY <1>1 DEF TasksFit, Goes

\* It moves and changes what it knows.
LEMMA GoesWithFit ==
  ASSUME NEW t, TaskOK(t), NEW pc \in Pc, NEW a \in Arg,
         Fits(pc, t.proc, t.frame, a), GoesWith(t, pc, a)
  PROVE  TasksFit
<1>1. TaskOK([t EXCEPT !.pc = pc, !.arg = a])
  BY DEF TaskOK, Task
<1>. QED  BY <1>1 DEF TasksFit, GoesWith

\* It moves and has read a version.
LEMMA GoesAtFit ==
  ASSUME NEW t, TaskOK(t), NEW pc \in Pc, NEW v \in Nat, NEW a \in Arg,
         Fits(pc, t.proc, t.frame, a), GoesAt(t, pc, v, a)
  PROVE  TasksFit
<1>1. TaskOK([t EXCEPT !.pc = pc, !.ver = v, !.arg = a])
  BY DEF TaskOK, Task
<1>. QED  BY <1>1 DEF TasksFit, GoesAt

\* It ends.
LEMMA DoneFit ==
  ASSUME NEW t, Done(t)
  PROVE  TasksFit
  BY DEF TasksFit, Done

-----------------------------------------------------------------------------
\* RQD's attendant of a launch is one of a booking that has a host.
LEMMA AttendantType ==
  ASSUME TypeInv, NEW t, t.proc \in Procs, proc[t.proc].row # "unused",
         t.frame \in Frames
  PROVE  Attendant(t.proc, t.frame, HostOf(t)) \in Render
<1>1. HostOf(t) \in Hosts
  BY DEF TypeInv, HostsKnown, HostOf
<1>. QED  BY <1>1 DEF Attendant, Render

\* int_version is a number.
LEMMA FrameVer ==
  ASSUME TypeInv, NEW f \in Frames
  PROVE  frame[f].ver \in Nat
  BY DEF TypeInv, TypeOK, TablesTypeOK, FrameRow

\* A completion stops a frame into a frame state.
LEMMA StatesType ==
  ASSUME NEW result, NEW s \in States(result)
  PROVE  s \in FrameState
  BY DEF States, FrameState

(* One action at a time: a launch. *)
LEMMA LaunchType ==
  ASSUME TypeInv, NEW t \in tasks, LaunchStep(t)
  PROVE  TypeInv'
<1>0. TypeInv /\ TypeOK /\ TablesTypeOK /\ RqdTypeOK /\ HostsKnown /\ TaskOK(t)
  BY DEF TypeInv, TypeOK
<1>1. CASE LaunchUnsent(t)
  <2>1. frame' \in [Frames -> FrameRow] /\ ProcsKept(proc') /\ HostsKnown'
    BY <1>0, <1>1, SameTables DEF LaunchUnsent
  <2>2. RqdTypeOK'
    BY <1>0, <1>1, SameRqd DEF LaunchUnsent
  <2>3. faultsLeft' \in Nat /\ requestsLeft' \in Nat
    BY <1>0, <1>1, SameBounds, SpendType DEF LaunchUnsent
  <2>4. TasksFit
    BY <1>0, <1>1, GoesWithFit DEF LaunchUnsent, TaskOK, Task, Fits, Arg,
         FrameState, Pc, LaunchPc, ReportPc, LostPc, SweepPc, UserPc
  <2>. QED  BY <1>0, <2>1, <2>2, <2>3, <2>4, TypeStep
<1>2. CASE LaunchAccepted(t)
  <2>1. frame' \in [Frames -> FrameRow] /\ ProcsKept(proc') /\ HostsKnown'
    BY <1>0, <1>2, SameTables DEF LaunchAccepted
  <2>2. RqdTypeOK'
    BY <1>0, <1>2, AttendantType DEF LaunchAccepted, RqdTypeOK, TaskOK,
         Fits, LaunchPc
  <2>3. faultsLeft' \in Nat /\ requestsLeft' \in Nat
    BY <1>0, <1>2, SameBounds DEF LaunchAccepted
  <2>4. TasksFit
    BY <1>0, <1>2, DoneFit DEF LaunchAccepted, TaskOK, Task, Fits, Pc,
         LaunchPc, ReportPc, LostPc, SweepPc, UserPc
  <2>. QED  BY <1>0, <2>1, <2>2, <2>3, <2>4, TypeStep
<1>3. CASE LaunchRefused(t)
  <2>1. frame' \in [Frames -> FrameRow] /\ ProcsKept(proc') /\ HostsKnown'
    BY <1>0, <1>3, SameTables DEF LaunchRefused
  <2>2. RqdTypeOK'
    BY <1>0, <1>3, SameRqd DEF LaunchRefused
  <2>3. faultsLeft' \in Nat /\ requestsLeft' \in Nat
    BY <1>0, <1>3, SameBounds, SpendType DEF LaunchRefused
  <2>4. TasksFit
    BY <1>0, <1>3, GoesWithFit DEF LaunchRefused, TaskOK, Task, Fits, Arg,
         FrameState, Pc, LaunchPc, ReportPc, LostPc, SweepPc, UserPc
  <2>. QED  BY <1>0, <2>1, <2>2, <2>3, <2>4, TypeStep
<1>4. CASE LaunchUnknown(t)
  <2>1. frame' \in [Frames -> FrameRow] /\ ProcsKept(proc') /\ HostsKnown'
    BY <1>0, <1>4, SameTables DEF LaunchUnknown
  <2>2. RqdTypeOK'
    BY <1>0, <1>4 DEF LaunchUnknown, HostsKnown, RqdTypeOK, Launch, HostOf,
         TaskOK, Fits, LaunchPc
  <2>3. faultsLeft' \in Nat /\ requestsLeft' \in Nat
    BY <1>0, <1>4, SameBounds, SpendType DEF LaunchUnknown
  <2>4. TasksFit
    BY <1>0, <1>4, GoesFit DEF LaunchUnknown, TaskOK, Task, Fits, Pc,
         LaunchPc, ReportPc, LostPc, SweepPc, UserPc
  <2>. QED  BY <1>0, <2>1, <2>2, <2>3, <2>4, TypeStep
<1>5. CASE ConfirmPoll(t)
  <2>1. frame' \in [Frames -> FrameRow] /\ ProcsKept(proc') /\ HostsKnown'
    BY <1>0, <1>5, SameTables DEF ConfirmPoll
  <2>2. RqdTypeOK'
    BY <1>0, <1>5, SameRqd DEF ConfirmPoll
  <2>3. faultsLeft' \in Nat /\ requestsLeft' \in Nat
    BY <1>0, <1>5, SameBounds DEF ConfirmPoll
  <2>4. TasksFit
    BY <1>0, <1>5, GoesFit, GoesWithFit, DoneFit DEF ConfirmPoll, TaskOK,
         Task, Fits, Arg, FrameState, Pc, LaunchPc, ReportPc, LostPc,
         SweepPc, UserPc
  <2>. QED  BY <1>0, <2>1, <2>2, <2>3, <2>4, TypeStep
<1>6. CASE RollbackUnbook(t)
  <2>1. frame' \in [Frames -> FrameRow] /\ ProcsKept(proc') /\ HostsKnown'
    BY <1>0, <1>6, DeleteType DEF RollbackUnbook, TablesTypeOK, TaskOK,
         Fits, LaunchPc
  <2>2. RqdTypeOK'
    BY <1>0, <1>6, SameRqd DEF RollbackUnbook
  <2>3. faultsLeft' \in Nat /\ requestsLeft' \in Nat
    BY <1>0, <1>6, SameBounds DEF RollbackUnbook
  <2>4. TasksFit
    BY <1>0, <1>6, GoesFit DEF RollbackUnbook, TaskOK, Task, Fits, Pc,
         LaunchPc, ReportPc, LostPc, SweepPc, UserPc
  <2>. QED  BY <1>0, <2>1, <2>2, <2>3, <2>4, TypeStep
<1>7. CASE RollbackClear(t)
  <2>1. frame' \in [Frames -> FrameRow] /\ ProcsKept(proc') /\ HostsKnown'
    BY <1>0, <1>7, SameProcs, StoppedFrame DEF RollbackClear, Cleared,
         TablesTypeOK, TaskOK, Fits, FrameState, Exit
  <2>2. RqdTypeOK'
    BY <1>0, <1>7, SameRqd DEF RollbackClear
  <2>3. faultsLeft' \in Nat /\ requestsLeft' \in Nat
    BY <1>0, <1>7, SameBounds DEF RollbackClear
  <2>4. TasksFit
    BY <1>0, <1>7, GoesFit, DoneFit DEF RollbackClear, TaskOK, Task, Fits,
         Pc, LaunchPc, ReportPc, LostPc, SweepPc, UserPc
  <2>. QED  BY <1>0, <2>1, <2>2, <2>3, <2>4, TypeStep
<1>8. CASE BestEffortKill(t)
  <2>1. frame' \in [Frames -> FrameRow] /\ ProcsKept(proc') /\ HostsKnown'
    BY <1>0, <1>8, SameTables DEF BestEffortKill, tables
  <2>2. RqdTypeOK'
    BY <1>0, <1>8, KillType DEF BestEffortKill
  <2>3. faultsLeft' \in Nat /\ requestsLeft' \in Nat
    BY <1>0, <1>8, SameBounds DEF BestEffortKill
  <2>4. TasksFit
    BY <1>0, <1>8, DoneFit DEF BestEffortKill, TaskOK, Task, Fits, Pc,
         LaunchPc, ReportPc, LostPc, SweepPc, UserPc
  <2>. QED  BY <1>0, <2>1, <2>2, <2>3, <2>4, TypeStep
<1>. QED
  BY <1>1, <1>2, <1>3, <1>4, <1>5, <1>6, <1>7, <1>8 DEF LaunchStep

(* A completion report. *)
LEMMA ReportType ==
  ASSUME TypeInv, NEW t \in tasks, ReportStep(t)
  PROVE  TypeInv'
<1>0. TypeInv /\ TypeOK /\ TablesTypeOK /\ RqdTypeOK /\ HostsKnown /\ TaskOK(t)
  BY DEF TypeInv, TypeOK
<1>1. CASE ResolveFrame(t)
  <2>1. frame' \in [Frames -> FrameRow] /\ ProcsKept(proc') /\ HostsKnown'
    BY <1>0, <1>1, SameTables DEF ResolveFrame
  <2>2. RqdTypeOK'
    BY <1>0, <1>1, SameRqd DEF ResolveFrame
  <2>3. faultsLeft' \in Nat /\ requestsLeft' \in Nat
    BY <1>0, <1>1, SameBounds DEF ResolveFrame
  <2>4. TasksFit
    BY <1>0, <1>1, GoesAtFit, FrameVer, StatesType DEF ResolveFrame,
         TaskOK, Task, Fits, Arg, Pc, LaunchPc, ReportPc, LostPc, SweepPc,
         UserPc
  <2>. QED  BY <1>0, <2>1, <2>2, <2>3, <2>4, TypeStep
<1>2. CASE DrainStop(t)
  <2>1. frame' \in [Frames -> FrameRow] /\ ProcsKept(proc') /\ HostsKnown'
    BY <1>0, <1>2, SameTables, StoppedFrame, DeleteType DEF DrainStop,
         TaskOK, Fits, ReportPc, Exit, LostPc
  <2>2. RqdTypeOK'
    BY <1>0, <1>2, SameRqd DEF DrainStop
  <2>3. faultsLeft' \in Nat /\ requestsLeft' \in Nat
    BY <1>0, <1>2, SameBounds DEF DrainStop
  <2>4. TasksFit
    BY <1>0, <1>2, DoneFit, GoesFit DEF DrainStop, TaskOK, Task, Fits, Pc,
         LaunchPc, ReportPc, LostPc, SweepPc, UserPc
  <2>. QED  BY <1>0, <2>1, <2>2, <2>3, <2>4, TypeStep
<1>3. CASE StaleRead(t)
  <2>1. frame' \in [Frames -> FrameRow] /\ ProcsKept(proc') /\ HostsKnown'
    BY <1>0, <1>3, SameTables DEF StaleRead
  <2>2. RqdTypeOK'
    BY <1>0, <1>3, SameRqd DEF StaleRead
  <2>3. faultsLeft' \in Nat /\ requestsLeft' \in Nat
    BY <1>0, <1>3, SameBounds DEF StaleRead
  <2>4. TasksFit
    BY <1>0, <1>3, DoneFit, GoesFit DEF StaleRead, TaskOK, Task, Fits, Pc,
         LaunchPc, ReportPc, LostPc, SweepPc, UserPc
  <2>. QED  BY <1>0, <2>1, <2>2, <2>3, <2>4, TypeStep
<1>4. CASE StaleRelease(t)
  <2>1. frame' \in [Frames -> FrameRow] /\ ProcsKept(proc') /\ HostsKnown'
    BY <1>0, <1>4, DeleteType DEF StaleRelease, TablesTypeOK, TaskOK, Fits,
         ReportPc
  <2>2. RqdTypeOK'
    BY <1>0, <1>4, SameRqd DEF StaleRelease
  <2>3. faultsLeft' \in Nat /\ requestsLeft' \in Nat
    BY <1>0, <1>4, SameBounds DEF StaleRelease
  <2>4. TasksFit
    BY <1>0, <1>4, DoneFit DEF StaleRelease, TaskOK, Task, Fits, Pc,
         LaunchPc, ReportPc, LostPc, SweepPc, UserPc
  <2>. QED  BY <1>0, <2>1, <2>2, <2>3, <2>4, TypeStep
<1>5. CASE FinalRead(t)
  <2>1. frame' \in [Frames -> FrameRow] /\ ProcsKept(proc') /\ HostsKnown'
    BY <1>0, <1>5, SameTables DEF FinalRead
  <2>2. RqdTypeOK'
    BY <1>0, <1>5, SameRqd DEF FinalRead
  <2>3. faultsLeft' \in Nat /\ requestsLeft' \in Nat
    BY <1>0, <1>5, SameBounds DEF FinalRead
  <2>4. TasksFit
    BY <1>0, <1>5, GoesAtFit, DoneFit, FrameVer, StatesType DEF FinalRead,
         TaskOK, Task, Fits, Arg, Pc, LaunchPc, ReportPc, LostPc, SweepPc,
         UserPc
  <2>. QED  BY <1>0, <2>1, <2>2, <2>3, <2>4, TypeStep
<1>6. CASE FinalNoProc(t)
  <2>1. frame' \in [Frames -> FrameRow] /\ ProcsKept(proc') /\ HostsKnown'
    BY <1>0, <1>6, SameTables DEF FinalNoProc
  <2>2. RqdTypeOK'
    BY <1>0, <1>6, SameRqd DEF FinalNoProc
  <2>3. faultsLeft' \in Nat /\ requestsLeft' \in Nat
    BY <1>0, <1>6, SameBounds DEF FinalNoProc
  <2>4. TasksFit
    BY <1>0, <1>6, DoneFit, GoesFit DEF FinalNoProc, TaskOK, Task, Fits,
         Pc, LaunchPc, ReportPc, LostPc, SweepPc, UserPc
  <2>. QED  BY <1>0, <2>1, <2>2, <2>3, <2>4, TypeStep
<1>7. CASE FinalStop(t)
  <2>1. frame' \in [Frames -> FrameRow] /\ ProcsKept(proc') /\ HostsKnown'
    BY <1>0, <1>7, SameTables, StoppedFrame, UnassignType DEF FinalStop,
         TaskOK, Fits, Exit
  <2>2. RqdTypeOK'
    BY <1>0, <1>7, SameRqd DEF FinalStop
  <2>3. faultsLeft' \in Nat /\ requestsLeft' \in Nat
    BY <1>0, <1>7, SameBounds DEF FinalStop
  <2>4. TasksFit
    BY <1>0, <1>7, DoneFit DEF FinalStop, TaskOK, Task, Fits, Pc, LaunchPc,
         ReportPc, LostPc, SweepPc, UserPc
  <2>. QED  BY <1>0, <2>1, <2>2, <2>3, <2>4, TypeStep
<1>. QED
  BY <1>1, <1>2, <1>3, <1>4, <1>5, <1>6, <1>7 DEF ReportStep

(* lostProc. *)
LEMMA LostType ==
  ASSUME TypeInv, NEW t \in tasks, LostStep(t)
  PROVE  TypeInv'
<1>0. TypeInv /\ TypeOK /\ TablesTypeOK /\ RqdTypeOK /\ HostsKnown /\ TaskOK(t)
  BY DEF TypeInv, TypeOK
<1>1. CASE LostKill(t)
  <2>1. frame' \in [Frames -> FrameRow] /\ ProcsKept(proc') /\ HostsKnown'
    BY <1>0, <1>1, SameTables DEF LostKill, tables
  <2>2. RqdTypeOK'
    BY <1>0, <1>1, KillType DEF LostKill
  <2>3. faultsLeft' \in Nat /\ requestsLeft' \in Nat
    BY <1>0, <1>1, SameBounds DEF LostKill
  <2>4. TasksFit
    BY <1>0, <1>1, GoesFit DEF LostKill, TaskOK, Task, Fits, Pc, LaunchPc,
         ReportPc, LostPc, SweepPc, UserPc
  <2>. QED  BY <1>0, <2>1, <2>2, <2>3, <2>4, TypeStep
<1>2. CASE LostDecide(t)
  <2>1. frame' \in [Frames -> FrameRow] /\ ProcsKept(proc') /\ HostsKnown'
    BY <1>0, <1>2, SameTables DEF LostDecide
  <2>2. RqdTypeOK'
    BY <1>0, <1>2, SameRqd DEF LostDecide
  <2>3. faultsLeft' \in Nat /\ requestsLeft' \in Nat
    BY <1>0, <1>2, SameBounds DEF LostDecide
  <2>4. TasksFit
    BY <1>0, <1>2, GoesFit, GoesWithFit, DoneFit DEF LostDecide, TaskOK,
         Task, Fits, Arg, FrameState, Pc, LaunchPc, ReportPc, LostPc,
         SweepPc, UserPc
  <2>. QED  BY <1>0, <2>1, <2>2, <2>3, <2>4, TypeStep
<1>3. CASE LostUnbook(t)
  <2>1. frame' \in [Frames -> FrameRow] /\ ProcsKept(proc') /\ HostsKnown'
    BY <1>0, <1>3, DeleteType DEF LostUnbook, TablesTypeOK, TaskOK, Fits,
         LostPc
  <2>2. RqdTypeOK'
    BY <1>0, <1>3, SameRqd DEF LostUnbook
  <2>3. faultsLeft' \in Nat /\ requestsLeft' \in Nat
    BY <1>0, <1>3, SameBounds DEF LostUnbook
  <2>4. TasksFit
    BY <1>0, <1>3, GoesFit, GoesAtFit, DoneFit, FrameVer DEF LostUnbook,
         TaskOK, Task, Fits, Pc, LaunchPc, ReportPc, LostPc, SweepPc,
         UserPc
  <2>. QED  BY <1>0, <2>1, <2>2, <2>3, <2>4, TypeStep
<1>4. CASE LostRead(t)
  <2>1. frame' \in [Frames -> FrameRow] /\ ProcsKept(proc') /\ HostsKnown'
    BY <1>0, <1>4, SameTables DEF LostRead
  <2>2. RqdTypeOK'
    BY <1>0, <1>4, SameRqd DEF LostRead
  <2>3. faultsLeft' \in Nat /\ requestsLeft' \in Nat
    BY <1>0, <1>4, SameBounds DEF LostRead
  <2>4. TasksFit
    BY <1>0, <1>4, GoesAtFit, FrameVer DEF LostRead, TaskOK, Task, Fits,
         Pc, LaunchPc, ReportPc, LostPc, SweepPc, UserPc
  <2>. QED  BY <1>0, <2>1, <2>2, <2>3, <2>4, TypeStep
<1>5. CASE LostStop(t)
  <2>1. frame' \in [Frames -> FrameRow] /\ ProcsKept(proc') /\ HostsKnown'
    BY <1>0, <1>5, SameProcs, StoppedFrame DEF LostStop, TablesTypeOK,
         TaskOK, Fits, LostPc, Exit
  <2>2. RqdTypeOK'
    BY <1>0, <1>5, SameRqd DEF LostStop
  <2>3. faultsLeft' \in Nat /\ requestsLeft' \in Nat
    BY <1>0, <1>5, SameBounds DEF LostStop
  <2>4. TasksFit
    BY <1>0, <1>5, GoesFit, DoneFit DEF LostStop, TaskOK, Task, Fits, Pc,
         LaunchPc, ReportPc, LostPc, SweepPc, UserPc
  <2>. QED  BY <1>0, <2>1, <2>2, <2>3, <2>4, TypeStep
<1>6. CASE LostDetail(t)
  <2>1. frame' \in [Frames -> FrameRow] /\ ProcsKept(proc') /\ HostsKnown'
    BY <1>0, <1>6, SameTables DEF LostDetail
  <2>2. RqdTypeOK'
    BY <1>0, <1>6, SameRqd DEF LostDetail
  <2>3. faultsLeft' \in Nat /\ requestsLeft' \in Nat
    BY <1>0, <1>6, SameBounds DEF LostDetail
  <2>4. TasksFit
    BY <1>0, <1>6, GoesFit, DoneFit DEF LostDetail, TaskOK, Task, Fits, Pc,
         LaunchPc, ReportPc, LostPc, SweepPc, UserPc
  <2>. QED  BY <1>0, <2>1, <2>2, <2>3, <2>4, TypeStep
<1>7. CASE LostHostDown(t)
  <2>1. frame' \in [Frames -> FrameRow] /\ ProcsKept(proc') /\ HostsKnown'
    BY <1>0, <1>7, SameProcs, StoppedFrame DEF LostHostDown, HostDowned,
         TablesTypeOK, TaskOK, Fits, FrameState, Exit
  <2>2. RqdTypeOK'
    BY <1>0, <1>7, SameRqd DEF LostHostDown
  <2>3. faultsLeft' \in Nat /\ requestsLeft' \in Nat
    BY <1>0, <1>7, SameBounds DEF LostHostDown
  <2>4. TasksFit
    BY <1>0, <1>7, DoneFit DEF LostHostDown, TaskOK, Task, Fits, Pc,
         LaunchPc, ReportPc, LostPc, SweepPc, UserPc
  <2>. QED  BY <1>0, <2>1, <2>2, <2>3, <2>4, TypeStep
<1>. QED
  BY <1>1, <1>2, <1>3, <1>4, <1>5, <1>6, <1>7 DEF LostStep

(* The orphan sweep. *)
LEMMA SweepType ==
  ASSUME TypeInv, NEW t \in tasks, SweepStep(t)
  PROVE  TypeInv'
<1>0. TypeInv /\ TypeOK /\ TablesTypeOK /\ RqdTypeOK /\ HostsKnown /\ TaskOK(t)
  BY DEF TypeInv, TypeOK
<1>1. CASE OrphanCheck(t)
  <2>1. frame' \in [Frames -> FrameRow] /\ ProcsKept(proc') /\ HostsKnown'
    BY <1>0, <1>1, SameTables DEF OrphanCheck
  <2>2. RqdTypeOK'
    BY <1>0, <1>1, SameRqd DEF OrphanCheck
  <2>3. faultsLeft' \in Nat /\ requestsLeft' \in Nat
    BY <1>0, <1>1, SameBounds DEF OrphanCheck
  <2>4. TasksFit
    BY <1>0, <1>1, GoesFit, DoneFit DEF OrphanCheck, TaskOK, Task, Fits,
         Pc, LaunchPc, ReportPc, LostPc, SweepPc, UserPc
  <2>. QED  BY <1>0, <2>1, <2>2, <2>3, <2>4, TypeStep
<1>2. CASE OrphanKill(t)
  <2>1. frame' \in [Frames -> FrameRow] /\ ProcsKept(proc') /\ HostsKnown'
    BY <1>0, <1>2, SameTables DEF OrphanKill, tables
  <2>2. RqdTypeOK'
    BY <1>0, <1>2, KillType DEF OrphanKill
  <2>3. faultsLeft' \in Nat /\ requestsLeft' \in Nat
    BY <1>0, <1>2, SameBounds DEF OrphanKill
  <2>4. TasksFit
    BY <1>0, <1>2, GoesFit DEF OrphanKill, TaskOK, Task, Fits, Pc,
         LaunchPc, ReportPc, LostPc, SweepPc, UserPc
  <2>. QED  BY <1>0, <2>1, <2>2, <2>3, <2>4, TypeStep
<1>3. CASE OrphanPoll(t)
  <2>1. frame' \in [Frames -> FrameRow] /\ ProcsKept(proc') /\ HostsKnown'
    BY <1>0, <1>3, SameTables DEF OrphanPoll
  <2>2. RqdTypeOK'
    BY <1>0, <1>3, SameRqd DEF OrphanPoll
  <2>3. faultsLeft' \in Nat /\ requestsLeft' \in Nat
    BY <1>0, <1>3, SameBounds DEF OrphanPoll
  <2>4. TasksFit
    BY <1>0, <1>3, GoesWithFit, DoneFit DEF OrphanPoll, TaskOK, Task, Fits,
         Arg, FrameState, Pc, LaunchPc, ReportPc, LostPc, SweepPc, UserPc
  <2>. QED  BY <1>0, <2>1, <2>2, <2>3, <2>4, TypeStep
<1>4. CASE OrphanReset(t)
  <2>1. frame' \in [Frames -> FrameRow] /\ ProcsKept(proc') /\ HostsKnown'
    BY <1>0, <1>4, SameProcs, StoppedFrame DEF OrphanReset, TablesTypeOK,
         TaskOK, Fits, Exit
  <2>2. RqdTypeOK'
    BY <1>0, <1>4, SameRqd DEF OrphanReset
  <2>3. faultsLeft' \in Nat /\ requestsLeft' \in Nat
    BY <1>0, <1>4, SameBounds DEF OrphanReset
  <2>4. TasksFit
    BY <1>0, <1>4, DoneFit DEF OrphanReset, TaskOK, Task, Fits, Pc,
         LaunchPc, ReportPc, LostPc, SweepPc, UserPc
  <2>. QED  BY <1>0, <2>1, <2>2, <2>3, <2>4, TypeStep
<1>. QED
  BY <1>1, <1>2, <1>3, <1>4 DEF SweepStep

(* A retry or an eat. *)
LEMMA UserType ==
  ASSUME TypeInv, NEW t \in tasks, UserStep(t)
  PROVE  TypeInv'
<1>0. TypeInv /\ TypeOK /\ TablesTypeOK /\ RqdTypeOK /\ HostsKnown /\ TaskOK(t)
  BY DEF TypeInv, TypeOK
<1>1. CASE RetryKill(t)
  <2>1. frame' \in [Frames -> FrameRow] /\ ProcsKept(proc') /\ HostsKnown'
    BY <1>0, <1>1, SameTables DEF RetryKill, tables
  <2>2. RqdTypeOK'
    BY <1>0, <1>1, KillType DEF RetryKill
  <2>3. faultsLeft' \in Nat /\ requestsLeft' \in Nat
    BY <1>0, <1>1, SameBounds DEF RetryKill
  <2>4. TasksFit
    BY <1>0, <1>1, GoesFit DEF RetryKill, TaskOK, Task, Fits, Pc, LaunchPc,
         ReportPc, LostPc, SweepPc, UserPc
  <2>. QED  BY <1>0, <2>1, <2>2, <2>3, <2>4, TypeStep
<1>2. CASE RetryPoll(t)
  <2>1. frame' \in [Frames -> FrameRow] /\ ProcsKept(proc') /\ HostsKnown'
    BY <1>0, <1>2, SameTables DEF RetryPoll
  <2>2. RqdTypeOK'
    BY <1>0, <1>2, SameRqd DEF RetryPoll
  <2>3. faultsLeft' \in Nat /\ requestsLeft' \in Nat
    BY <1>0, <1>2, SameBounds DEF RetryPoll
  <2>4. TasksFit
    BY <1>0, <1>2, GoesFit, DoneFit DEF RetryPoll, TaskOK, Task, Fits, Pc,
         LaunchPc, ReportPc, LostPc, SweepPc, UserPc
  <2>. QED  BY <1>0, <2>1, <2>2, <2>3, <2>4, TypeStep
<1>3. CASE RetryStop(t)
  <2>1. frame' \in [Frames -> FrameRow] /\ ProcsKept(proc') /\ HostsKnown'
    BY <1>0, <1>3, SameTables, StoppedFrame, UnassignType DEF RetryStop,
         ManualStop, TaskOK, Fits, FrameState, Exit
  <2>2. RqdTypeOK'
    BY <1>0, <1>3, SameRqd DEF RetryStop, ManualStop
  <2>3. faultsLeft' \in Nat /\ requestsLeft' \in Nat
    BY <1>0, <1>3, SameBounds DEF RetryStop, ManualStop
  <2>4. TasksFit
    BY <1>0, <1>3, GoesFit, DoneFit DEF RetryStop, ManualStop, TaskOK,
         Task, Fits, Pc, LaunchPc, ReportPc, LostPc, SweepPc, UserPc
  <2>. QED  BY <1>0, <2>1, <2>2, <2>3, <2>4, TypeStep
<1>4. CASE RetryRead(t)
  <2>1. frame' \in [Frames -> FrameRow] /\ ProcsKept(proc') /\ HostsKnown'
    BY <1>0, <1>4, SameTables DEF RetryRead
  <2>2. RqdTypeOK'
    BY <1>0, <1>4, SameRqd DEF RetryRead
  <2>3. faultsLeft' \in Nat /\ requestsLeft' \in Nat
    BY <1>0, <1>4, SameBounds DEF RetryRead
  <2>4. TasksFit
    BY <1>0, <1>4, GoesAtFit, DoneFit, FrameVer DEF RetryRead, TaskOK,
         Task, Fits, Pc, LaunchPc, ReportPc, LostPc, SweepPc, UserPc
  <2>. QED  BY <1>0, <2>1, <2>2, <2>3, <2>4, TypeStep
<1>5. CASE RetryForce(t)
  <2>1. frame' \in [Frames -> FrameRow] /\ ProcsKept(proc') /\ HostsKnown'
    BY <1>0, <1>5, SameProcs, ForcedFrame DEF RetryForce, ForceState,
         TablesTypeOK, TaskOK, Fits, FrameState
  <2>2. RqdTypeOK'
    BY <1>0, <1>5, SameRqd DEF RetryForce, ForceState
  <2>3. faultsLeft' \in Nat /\ requestsLeft' \in Nat
    BY <1>0, <1>5, SameBounds DEF RetryForce, ForceState
  <2>4. TasksFit
    BY <1>0, <1>5, DoneFit DEF RetryForce, ForceState
  <2>. QED  BY <1>0, <2>1, <2>2, <2>3, <2>4, TypeStep
<1>6. CASE EatStop(t)
  <2>1. frame' \in [Frames -> FrameRow] /\ ProcsKept(proc') /\ HostsKnown'
    BY <1>0, <1>6, SameTables, StoppedFrame, UnassignType DEF EatStop,
         ManualStop, TaskOK, Fits, FrameState, Exit
  <2>2. RqdTypeOK'
    BY <1>0, <1>6, SameRqd DEF EatStop, ManualStop
  <2>3. faultsLeft' \in Nat /\ requestsLeft' \in Nat
    BY <1>0, <1>6, SameBounds DEF EatStop, ManualStop
  <2>4. TasksFit
    BY <1>0, <1>6, GoesFit, DoneFit DEF EatStop, ManualStop, TaskOK, Task,
         Fits, Pc, LaunchPc, ReportPc, LostPc, SweepPc, UserPc
  <2>. QED  BY <1>0, <2>1, <2>2, <2>3, <2>4, TypeStep
<1>7. CASE EatKill(t)
  <2>1. frame' \in [Frames -> FrameRow] /\ ProcsKept(proc') /\ HostsKnown'
    BY <1>0, <1>7, SameTables DEF EatKill, tables
  <2>2. RqdTypeOK'
    BY <1>0, <1>7, KillType DEF EatKill
  <2>3. faultsLeft' \in Nat /\ requestsLeft' \in Nat
    BY <1>0, <1>7, SameBounds DEF EatKill
  <2>4. TasksFit
    BY <1>0, <1>7, DoneFit DEF EatKill, NewTask, TasksFit, TaskOK, Task,
         Fits, Arg, FrameState, Pc, LaunchPc, ReportPc, LostPc, SweepPc,
         UserPc
  <2>. QED  BY <1>0, <2>1, <2>2, <2>3, <2>4, TypeStep
<1>8. CASE EatForce(t)
  <2>1. frame' \in [Frames -> FrameRow] /\ ProcsKept(proc') /\ HostsKnown'
    BY <1>0, <1>8, SameProcs, ForcedFrame DEF EatForce, ForceState,
         TablesTypeOK, TaskOK, Fits, FrameState
  <2>2. RqdTypeOK'
    BY <1>0, <1>8, SameRqd DEF EatForce, ForceState
  <2>3. faultsLeft' \in Nat /\ requestsLeft' \in Nat
    BY <1>0, <1>8, SameBounds DEF EatForce, ForceState
  <2>4. TasksFit
    BY <1>0, <1>8, DoneFit DEF EatForce, ForceState
  <2>. QED  BY <1>0, <2>1, <2>2, <2>3, <2>4, TypeStep
<1>. QED
  BY <1>1, <1>2, <1>3, <1>4, <1>5, <1>6, <1>7, <1>8 DEF UserStep

\* A launch whose age grows is still a launch.
LEMMA ExpireFit ==
  ASSUME TypeInv, NEW P, ExpireLaunches(P)
  PROVE  TasksFit
<1>1. \A t \in tasks : t.pc = "launch" => TaskOK([t EXCEPT !.arg = "expired"])
  BY DEF TypeInv, TaskOK, Task, Fits, Arg, Pc, LaunchPc, ReportPc, LostPc
<1>. QED  BY <1>1 DEF TypeInv, TasksFit, ExpireLaunches

\* Ageing and pings touch nothing but the age of a row.
LEMMA AgedProc ==
  ASSUME TypeInv, NEW p \in Procs, NEW b \in BOOLEAN,
         proc' = [proc EXCEPT ![p].old = b]
  PROVE  /\ ProcsKept(proc') /\ HostsKnown'
         /\ \A q \in Procs : proc'[q].row = proc[q].row
                              /\ proc'[q].frame = proc[q].frame
  BY DEF TypeInv, TypeOK, TablesTypeOK, HostsKnown, ProcsKept, ProcRow

\* So it is with a frame's row.
LEMMA AgedFrame ==
  ASSUME TypeInv, NEW f \in Frames, NEW b \in BOOLEAN,
         frame' = [frame EXCEPT ![f].old = b]
  PROVE  /\ frame' \in [Frames -> FrameRow]
         /\ \A g \in Frames : /\ frame'[g].state = frame[g].state
                              /\ frame'[g].ver = frame[g].ver
                              /\ frame'[g].exit = frame[g].exit
                              /\ frame'[g].by = frame[g].by
  BY DEF TypeInv, TypeOK, TablesTypeOK, FrameRow

\* A booking, with the kills of the procs it evicted.
LEMMA BookType ==
  ASSUME TypeInv, NEW f \in Frames, NEW p \in Procs, NEW h \in Hosts,
         Book(f, p, h)
  PROVE  TypeInv'
<1>0. TypeInv /\ TypeOK /\ TablesTypeOK /\ HostsKnown
  BY DEF TypeInv, TypeOK
<1>1. frame' \in [Frames -> FrameRow]
  BY <1>0, StartedFrame DEF Book
<1>2. ProcsKept(proc') /\ proc'[p].row = "live" /\ proc'[p].host = h
  BY <1>0, InsertedProcs DEF Book
<1>3. HostsKnown'
  <2>1. \A q \in Procs : q # p =>
          \/ proc'[q].row = "gone" /\ proc[q].row # "unused"
          \/ proc'[q] = proc[q]
    BY <1>0 DEF Book, EvictedAndInserted, ProcsOn, TablesTypeOK, ProcRow, Gone
  <2>. QED  BY <1>0, <1>2, <2>1 DEF HostsKnown, ProcsKept
<1>4. RqdTypeOK' /\ faultsLeft' \in Nat /\ requestsLeft' \in Nat
  BY <1>0, SameRqd, SameBounds DEF Book
<1>5. \A v \in Nat : TaskOK(NewTask("launch", p, f, v, "fresh", "-"))'
  BY <1>0, <1>2
     DEF NewTask, TaskOK, Task, Fits, Arg, Pc, LaunchPc, ReportPc, LostPc
<1>6. \A q \in Procs : proc[q].row # "unused"
        => TaskOK(NewTask("kill", q, f, 0, "-", "-"))
  BY DEF NewTask, TaskOK, Task, Fits, Arg, Pc, LaunchPc, ReportPc, LostPc
<1>7. \A u \in tasks' : u \in tasks \/ TaskOK(u) \/ TaskOK(u)'
  BY <1>0, <1>5, <1>6, FrameRowType DEF Book, ProcsOn
<1>. QED  BY <1>0, <1>1, <1>2, <1>3, <1>4, <1>7, TypeStepAny

\* A report reaches a Cuebot, on each of its three paths.
LEMMA ReportArrivesType ==
  ASSUME TypeInv, NEW m \in report, ReportArrives(m)
  PROVE  TypeInv'
<1>0. TypeInv /\ TypeOK /\ RqdTypeOK /\ m.proc \in Procs /\ m.frame \in Frames
  BY DEF TypeInv, TypeOK, RqdTypeOK, Report
<1>1. frame' \in [Frames -> FrameRow] /\ ProcsKept(proc') /\ HostsKnown'
  BY <1>0, SameTables DEF ReportArrives
<1>2. RqdTypeOK'
  BY <1>0 DEF ReportArrives, RqdTypeOK
<1>3. faultsLeft' \in Nat /\ requestsLeft' \in Nat
  BY <1>0, SameBounds, SpendType DEF ReportArrives
<1>4. \A v \in Nat, s \in FrameState :
        TaskOK(NewTask("drain", m.proc, m.frame, v, s, "-"))
  BY <1>0 DEF NewTask, TaskOK, Task, Fits, Arg, Pc, LaunchPc, ReportPc, LostPc
<1>5. \A pc \in {"final", "resolve", "stale"}, a \in {"ok", "fail"} :
        TaskOK(NewTask(pc, m.proc, m.frame, 0, a, "-"))
  BY <1>0 DEF NewTask, TaskOK, Task, Fits, Arg, Pc, LaunchPc, ReportPc, LostPc
<1>6. TasksFit
  BY <1>0, <1>4, <1>5, FrameVer, StatesType DEF ReportArrives, TasksFit
<1>. QED  BY <1>0, <1>1, <1>2, <1>3, <1>6, TypeStep

\* A maintenance pass picks a proc for lostProc.
LEMMA LostStartType ==
  ASSUME TypeInv, NEW p \in Procs, NEW why \in {"orphan", "down"},
         LostStart(p, why)
  PROVE  TypeInv'
<1>1. proc[p].frame \in Frames \cup {NoFrame}
  BY DEF TypeInv, TypeOK, TablesTypeOK, ProcRow
<1>2. TasksFit
  BY <1>1 DEF LostStart, NewTask, TasksFit, TaskOK, Task, Fits, Arg, FrameState,
              Pc, LaunchPc, ReportPc, LostPc
<1>. QED  BY <1>2, SameTables, SameRqd, SameBounds, TypeStep DEF LostStart

\* The sweep picks a frame.
LEMMA OrphanFoundType ==
  ASSUME TypeInv, NEW f \in Frames, OrphanFound(f)
  PROVE  TypeInv'
<1>1. frame[f].by \in Procs \cup {NoProc} /\ frame[f].ver \in Nat
  BY DEF TypeInv, TypeOK, TablesTypeOK, FrameRow
<1>2. TasksFit
  BY <1>1 DEF OrphanFound, NewTask, TasksFit, TaskOK, Task, Fits, Arg,
              Pc, LaunchPc, ReportPc, LostPc, SweepPc
<1>. QED  BY <1>2, SameTables, SameRqd, SameBounds, TypeStep DEF OrphanFound

\* A user asks for a retry or an eat.
LEMMA UserRequestType ==
  ASSUME TypeInv, NEW f \in Frames, NEW actor,
         NEW pc \in {"retryStop", "retryKill", "eatStop"},
         UserRequest(f, actor, pc)
  PROVE  TypeInv'
<1>1. Holder(f) \in Procs \cup {NoProc}
  BY DEF Holder, ProcsOn
<1>2. TasksFit
  BY <1>1, FrameVer
     DEF UserRequest, NewTask, TasksFit, TaskOK, Task, Fits, Arg,
         Pc, LaunchPc, ReportPc, LostPc, UserPc
<1>3. faultsLeft' \in Nat /\ requestsLeft' \in Nat
  BY DEF TypeInv, TypeOK, UserRequest
<1>. QED  BY <1>2, <1>3, SameTables, SameRqd, TypeStep DEF UserRequest

\* A host report refreshes a proc and its frame.
LEMMA PingType ==
  ASSUME TypeInv, NEW p \in Procs, Ping(p)
  PROVE  TypeInv'
<1>1. proc[p].frame \in Frames
  BY DEF Ping, Pinged, TypeInv, TypeOK, RqdTypeOK, Render
<1>2. frame' \in [Frames -> FrameRow]
  BY <1>1, AgedFrame DEF Ping
<1>3. ProcsKept(proc') /\ HostsKnown'
  BY AgedProc DEF Ping
<1>4. TasksFit
  BY DEF Ping, TasksFit
<1>. QED  BY <1>2, <1>3, <1>4, SameRqd, SameBounds, TypeStep DEF Ping

\* The verification of a host report kills a render.
LEMMA VerifyKillType ==
  ASSUME TypeInv, NEW r \in render, VerifyKill(r)
  PROVE  TypeInv'
<1>1. TasksFit
  BY DEF VerifyKill, TasksFit
<1>2. RqdTypeOK'
  BY KillType DEF VerifyKill
<1>. QED  BY <1>1, <1>2, SameTables, SameBounds, TypeStep DEF VerifyKill

\* A row grows old.
LEMMA AgeType ==
  ASSUME TypeInv,
         \/ \E p \in Procs : AgeProc(p)
         \/ \E f \in Frames : AgeFrame(f)
  PROVE  TypeInv'
<1>1. CASE \E p \in Procs : AgeProc(p)
  <2>1. PICK p \in Procs : AgeProc(p)
    BY <1>1
  <2>2. ProcsKept(proc') /\ HostsKnown' /\ TasksFit
    BY <2>1, AgedProc, ExpireFit DEF AgeProc
  <2>3. frame' \in [Frames -> FrameRow]
    BY <2>1 DEF AgeProc, TypeInv, TypeOK, TablesTypeOK
  <2>. QED  BY <2>1, <2>2, <2>3, SameRqd, SameBounds, TypeStep DEF AgeProc
<1>2. CASE \E f \in Frames : AgeFrame(f)
  <2>1. PICK f \in Frames : AgeFrame(f)
    BY <1>2
  <2>2. frame' \in [Frames -> FrameRow] /\ TasksFit
    BY <2>1, AgedFrame, ExpireFit DEF AgeFrame
  <2>. QED  BY <2>1, <2>2, SameProcs, SameRqd, SameBounds, TypeStep DEF AgeFrame
<1>. QED  BY <1>1, <1>2

\* A Cuebot stops.
LEMMA CuebotStopsType ==
  ASSUME TypeInv, CuebotStops
  PROVE  TypeInv'
<1>1. TasksFit
  BY DEF CuebotStops, TasksFit
<1>. QED  BY <1>1, SameTables, SameRqd, SpendType, TypeStep DEF CuebotStops

\* All of Cuebot's actions keep the types.
LEMMA CuebotType ==
  ASSUME TypeInv, CuebotNext
  PROVE  TypeInv'
<1>1. ASSUME NEW t \in tasks, TaskStep(t) PROVE TypeInv'
  BY <1>1, LaunchType, ReportType, LostType, SweepType, UserType DEF TaskStep
<1>2. ASSUME NEW f \in Frames, RetryRequest(f) \/ EatRequest(f) PROVE TypeInv'
  BY <1>2, UserRequestType DEF RetryRequest, EatRequest
<1>. QED
  BY <1>1, <1>2, BookType, ReportArrivesType, LostStartType, OrphanFoundType,
     PingType, VerifyKillType, AgeType, CuebotStopsType DEF CuebotNext

-----------------------------------------------------------------------------
(* The hosts' steps leave the tables alone. *)

\* An attendant that ends leaves a report.
LEMMA EndsType ==
  ASSUME RqdTypeOK, NEW r \in render, NEW ok \in BOOLEAN, Ends(r, ok)
  PROVE  render' \subseteq Render /\ report' \subseteq Report
<1>1. \A x \in Render : [x EXCEPT !.cached = FALSE] \in Render
  BY DEF Render
<1>2. render' \subseteq Render
  BY <1>1 DEF RqdTypeOK, Ends, Uncached
<1>3. [proc |-> r.proc, frame |-> r.frame, ok |-> ok] \in Report
  BY DEF RqdTypeOK, Render, Report
<1>. QED  BY <1>2, <1>3 DEF RqdTypeOK, Ends

\* What an attendant does by itself.
LEMMA RqdStepType ==
  ASSUME TypeInv, NEW r \in render, RqdStep(r)
  PROVE  RqdTypeOK' /\ faultsLeft' \in Nat /\ requestsLeft' \in Nat
<1>0. RqdTypeOK /\ r \in Render
  BY DEF TypeInv, TypeOK, RqdTypeOK
<1>1. CASE StoreFrame(r) /\ UNCHANGED bounds
  <2>1. [r EXCEPT !.stage = "live", !.cached = TRUE] \in Render
    BY <1>0 DEF Render
  <2>2. RqdTypeOK'
    BY <1>0, <1>1, <2>1 DEF StoreFrame, RqdTypeOK
  <2>. QED  BY <1>1, <2>2, SameBounds
<1>2. CASE LaunchFails(r) /\ (UNCHANGED bounds \/ Spend("refuse"))
  <2>1. RqdTypeOK'
    BY <1>0, <1>2, EndsType DEF LaunchFails, RqdTypeOK
  <2>. QED  BY <1>2, <2>1, SameBounds, SpendType
<1>3. ASSUME NEW ok \in BOOLEAN, RenderEnds(r, ok), UNCHANGED bounds
      PROVE  RqdTypeOK' /\ faultsLeft' \in Nat /\ requestsLeft' \in Nat
  <2>1. RqdTypeOK'
    BY <1>0, <1>3, EndsType DEF RenderEnds, RqdTypeOK
  <2>. QED  BY <1>3, <2>1, SameBounds
<1>. QED  BY <1>1, <1>2, <1>3 DEF RqdStep

\* What becomes of a network link or a machine.
LEMMA HostStepType ==
  ASSUME TypeInv, NEW h \in Hosts, HostStep(h)
  PROVE  RqdTypeOK' /\ TasksFit /\ faultsLeft' \in Nat /\ requestsLeft' \in Nat
<1>0. RqdTypeOK
  BY DEF TypeInv, TypeOK
<1>1. RqdTypeOK'
  BY <1>0 DEF HostStep, Cut, Heal, HostDies, MarkDown, HostBoots, BookedOn,
              RqdTypeOK
<1>2. TasksFit
  BY ExpireFit DEF HostStep, TasksFit
<1>3. faultsLeft' \in Nat /\ requestsLeft' \in Nat
  BY SameBounds, SpendType DEF HostStep
<1>. QED  BY <1>1, <1>2, <1>3

\* All of the hosts' actions keep the types.
LEMMA RqdType ==
  ASSUME TypeInv, RqdNext
  PROVE  TypeInv'
<1>1. RqdTypeOK' /\ TasksFit /\ faultsLeft' \in Nat /\ requestsLeft' \in Nat
  <2>1. CASE \E r \in render : RqdStep(r) /\ UNCHANGED tasks
    BY <2>1, RqdStepType DEF TasksFit
  <2>2. CASE \E m \in wire : LateLaunch(m) /\ UNCHANGED <<tasks, bounds>>
    <3>1. PICK m \in wire : LateLaunch(m) /\ UNCHANGED <<tasks, bounds>>
      BY <2>2
    <3>2. Attendant(m.proc, m.frame, m.host) \in Render
      BY DEF TypeInv, TypeOK, RqdTypeOK, Launch, Attendant, Render
    <3>3. RqdTypeOK'
      BY <3>1, <3>2 DEF TypeInv, TypeOK, LateLaunch, RqdTypeOK
    <3>. QED  BY <3>1, <3>3, SameBounds DEF TasksFit
  <2>3. CASE \E m \in report : ReportLost(m) /\ UNCHANGED <<tasks, bounds>>
    BY <2>3, SameBounds DEF TypeInv, TypeOK, RqdTypeOK, ReportLost, TasksFit
  <2>4. CASE \E h \in Hosts : HostStep(h)
    BY <2>4, HostStepType
  <2>. QED  BY <2>1, <2>2, <2>3, <2>4 DEF RqdNext
<1>. QED  BY <1>1, SameTables, TypeStep DEF RqdNext

-----------------------------------------------------------------------------
\* The types hold at the start.
LEMMA TypeInit == Init => TypeInv
<1> SUFFICES ASSUME Init PROVE TypeInv
  OBVIOUS
<1>1. TablesTypeOK
  BY DEF Init, TablesInit, TablesTypeOK, FrameRow, FrameState, Exit, ProcRow
<1>2. RqdTypeOK
  BY DEF Init, RqdInit, RqdTypeOK
<1>3. HostsKnown
  BY DEF Init, TablesInit, HostsKnown
<1>. QED
  BY <1>1, <1>2, <1>3, BoundsAssumption DEF Init, TypeInv, TypeOK

\* They survive a step that changes nothing.
LEMMA TypeStuttering == TypeInv /\ UNCHANGED vars => TypeInv'
<1> SUFFICES ASSUME TypeInv, UNCHANGED vars PROVE TypeInv'
  OBVIOUS
<1>1. TasksFit
  BY DEF vars, TasksFit
<1>. QED  BY <1>1, SameTables, SameRqd, SameBounds, TypeStep DEF vars

\* And every step: TypeInv is inductive.
LEMMA TypeNext == TypeInv /\ [Next]_vars => TypeInv'
  BY CuebotType, RqdType, TypeStuttering DEF Next

\* Every row, request, report and thread is what its column or its next step
\* needs, in every behaviour.
THEOREM TypeCorrect == Spec => []TypeOK
<1>1. TypeInv => TypeOK
  BY DEF TypeInv
<1>. QED  BY <1>1, TypeInit, TypeNext, PTL DEF Spec

-----------------------------------------------------------------------------
(***************************************************************************)
(* Which run a thread is about.                                             *)
(*                                                                         *)
(* HolderStartedRun is not inductive by what a booking inserts alone: it    *)
(* needs that no other action gives a proc a frame or a frame another run.  *)
(* RollbackStopsOwnRun and DrainStopsOwnRun need, for every thread between  *)
(* the read of a version and the stop it fences, that the version is still  *)
(* of the run the thread is about (Good): a version, once superseded, never *)
(* comes back.                                                              *)
(***************************************************************************)

OwnPc ==
    {"launch", "poll1", "poll2", "unbook", "clear"}
      \cup (IF Stall THEN {} ELSE {"drain"})

ForcePc == {"retryForce", "eatForce"}

About(pc, p, f, v) ==
    /\ ~Stall => pc # "resolve"
    /\ f \in Frames =>
         /\ v <= frame[f].ver
         /\ v = frame[f].ver =>
              /\ pc \in OwnPc => frame[f].by = p
              /\ pc \in ForcePc => frame[f].state # "RUNNING"

Good(t) == About(t.pc, t.proc, t.frame, t.ver)

RunInv == TypeInv /\ HolderStartedRun /\ \A t \in tasks : Good(t)

\* The rows after a step that books nothing.
FramesKept ==
    \A g \in Frames :
        /\ frame'[g].by = frame[g].by
        /\ \/ /\ frame'[g].state = frame[g].state
              /\ frame'[g].ver = frame[g].ver
           \/ frame'[g].ver = frame[g].ver + 1

HoldsKept ==
    \A q \in Procs :
        proc'[q].row = "live"
            => /\ proc[q].row = "live"
               /\ proc'[q].frame \in {proc[q].frame, NoFrame}

\* The threads after it.
TasksGood == \A u \in tasks' : u \in tasks \/ Good(u)

\* What a thread has read of a run stays true of it through a step that books
\* nothing: a version that was superseded never comes back.
LEMMA GoodKept ==
  ASSUME TypeInv, TypeInv', NEW t \in tasks', Good(t), FramesKept
  PROVE  Good(t)'
<1>1. t \in Task /\ t.ver \in Nat
  BY DEF TypeInv, TaskOK, Task
<1>2. \A f \in Frames : frame[f].ver \in Nat
  BY FrameVer
<1>. QED  BY <1>1, <1>2 DEF Good, About, FramesKept, OwnPc, ForcePc

\* Hence a step that books nothing and leaves good threads keeps the invariant.
LEMMA RunStep ==
  ASSUME RunInv, TypeInv', FramesKept, HoldsKept, TasksGood
  PROVE  RunInv'
<1>1. HolderStartedRun'
  <2>1. \A q \in Procs : proc[q].frame \in Frames \cup {NoFrame}
    BY DEF RunInv, TypeInv, TypeOK, TablesTypeOK, ProcRow
  <2>. QED  BY <2>1, NullAssumption DEF RunInv, HolderStartedRun, FramesKept, HoldsKept
<1>2. \A t \in tasks' : Good(t)'
  BY GoodKept DEF RunInv, TasksGood
<1>. QED  BY <1>1, <1>2 DEF RunInv

\* A thread that moves on without reading keeps its version.
LEMMA GoesGood ==
  ASSUME NEW t \in Task, NEW pc, About(pc, t.proc, t.frame, t.ver), Goes(t, pc)
  PROVE  TasksGood
<1>1. Good([t EXCEPT !.pc = pc])
  BY DEF Good, Task
<1>. QED  BY <1>1 DEF TasksGood, Goes

\* Nor does it read when what it carries changes.
LEMMA GoesWithGood ==
  ASSUME NEW t \in Task, NEW pc, NEW a, About(pc, t.proc, t.frame, t.ver),
         GoesWith(t, pc, a)
  PROVE  TasksGood
<1>1. Good([t EXCEPT !.pc = pc, !.arg = a])
  BY DEF Good, Task
<1>. QED  BY <1>1 DEF TasksGood, GoesWith

\* A thread that reads a version must be about that version's run.
LEMMA GoesAtGood ==
  ASSUME NEW t \in Task, NEW pc, NEW v, NEW a, About(pc, t.proc, t.frame, v),
         GoesAt(t, pc, v, a)
  PROVE  TasksGood
<1>1. Good([t EXCEPT !.pc = pc, !.ver = v, !.arg = a])
  BY DEF Good, Task
<1>. QED  BY <1>1 DEF TasksGood, GoesAt

\* A thread that ends owes nothing.
LEMMA DoneGood ==
  ASSUME NEW t, Done(t)
  PROVE  TasksGood
  BY DEF TasksGood, Done

\* Without a statement no run changes.
LEMMA SameRows ==
  ASSUME UNCHANGED tables
  PROVE  FramesKept /\ HoldsKept
  BY DEF tables, FramesKept, HoldsKept

\* Without a statement on frames, none of theirs.
LEMMA SameFrames ==
  ASSUME UNCHANGED frame
  PROVE  FramesKept
  BY DEF FramesKept

\* Without one on procs, no assignment.
LEMMA SameHolds ==
  ASSUME UNCHANGED proc
  PROVE  HoldsKept
  BY DEF HoldsKept

\* A stop supersedes the version and keeps the run.
LEMMA StopRows ==
  ASSUME TypeInv, NEW f \in Frames, NEW s \in FrameState, NEW x \in Exit,
         frame' = Stopped(f, s, x)
  PROVE  FramesKept
  BY StoppedFrame DEF TypeInv, TypeOK, FramesKept

\* So does a forced state.
LEMMA ForceRows ==
  ASSUME TypeInv, NEW f \in Frames, NEW s \in FrameState, frame' = Forced(f, s)
  PROVE  FramesKept
  BY ForcedFrame DEF TypeInv, TypeOK, FramesKept

\* A delete assigns nothing.
LEMMA DeleteRows ==
  ASSUME TypeInv, NEW p \in Procs, proc' = DeletedIfThere(p)
  PROVE  HoldsKept
  BY DeletedProcs DEF TypeInv, TypeOK, HoldsKept

\* Nor does clearing an assignment.
LEMMA UnassignRows ==
  ASSUME TypeInv, NEW f \in Frames, proc' = Unassigned(f)
  PROVE  HoldsKept
  BY UnassignedProcs DEF TypeInv, TypeOK, HoldsKept

(* A launch. *)
LEMMA LaunchRun ==
  ASSUME RunInv, NEW t \in tasks, LaunchStep(t)
  PROVE  FramesKept /\ HoldsKept /\ TasksGood
<1>0. TypeInv /\ TaskOK(t) /\ Good(t) /\ t \in Task /\ t.ver \in Nat
  BY DEF RunInv, TypeInv, TaskOK, Task
<1>1. CASE LaunchUnsent(t)
  <2>1. FramesKept /\ HoldsKept
    BY <1>1, SameRows DEF LaunchUnsent
  <2>2. TasksGood
    BY <1>0, <1>1, GoesWithGood DEF LaunchUnsent, Good, About, OwnPc,
         ForcePc
  <2>. QED  BY <2>1, <2>2
<1>2. CASE LaunchAccepted(t)
  <2>1. FramesKept /\ HoldsKept
    BY <1>2, SameRows DEF LaunchAccepted
  <2>2. TasksGood
    BY <1>0, <1>2, DoneGood DEF LaunchAccepted, Good, About, OwnPc, ForcePc
  <2>. QED  BY <2>1, <2>2
<1>3. CASE LaunchRefused(t)
  <2>1. FramesKept /\ HoldsKept
    BY <1>3, SameRows DEF LaunchRefused
  <2>2. TasksGood
    BY <1>0, <1>3, GoesWithGood DEF LaunchRefused, Good, About, OwnPc,
         ForcePc
  <2>. QED  BY <2>1, <2>2
<1>4. CASE LaunchUnknown(t)
  <2>1. FramesKept /\ HoldsKept
    BY <1>4, SameRows DEF LaunchUnknown
  <2>2. TasksGood
    BY <1>0, <1>4, GoesGood DEF LaunchUnknown, Good, About, OwnPc, ForcePc
  <2>. QED  BY <2>1, <2>2
<1>5. CASE ConfirmPoll(t)
  <2>1. FramesKept /\ HoldsKept
    BY <1>5, SameRows DEF ConfirmPoll
  <2>2. TasksGood
    BY <1>0, <1>5, GoesGood, GoesWithGood, DoneGood DEF ConfirmPoll, Good,
         About, OwnPc, ForcePc
  <2>. QED  BY <2>1, <2>2
<1>6. CASE RollbackUnbook(t)
  <2>1. FramesKept /\ HoldsKept
    BY <1>0, <1>6, SameFrames, DeleteRows DEF RollbackUnbook, TaskOK, Fits,
         LaunchPc
  <2>2. TasksGood
    BY <1>0, <1>6, GoesGood DEF RollbackUnbook, Good, About, OwnPc, ForcePc
  <2>. QED  BY <2>1, <2>2
<1>7. CASE RollbackClear(t)
  <2>1. FramesKept /\ HoldsKept
    BY <1>0, <1>7, SameFrames, SameHolds, StopRows DEF RollbackClear,
         Cleared, TaskOK, Fits, FrameState, Exit
  <2>2. TasksGood
    BY <1>0, <1>7, GoesGood, DoneGood DEF RollbackClear, Good, About,
         OwnPc, ForcePc
  <2>. QED  BY <2>1, <2>2
<1>8. CASE BestEffortKill(t)
  <2>1. FramesKept /\ HoldsKept
    BY <1>8, SameRows DEF BestEffortKill, tables
  <2>2. TasksGood
    BY <1>0, <1>8, DoneGood DEF BestEffortKill, tables, Good, About, OwnPc,
         ForcePc
  <2>. QED  BY <2>1, <2>2
<1>. QED
  BY <1>1, <1>2, <1>3, <1>4, <1>5, <1>6, <1>7, <1>8 DEF LaunchStep

(* A completion report. *)
LEMMA ReportRun ==
  ASSUME RunInv, NEW t \in tasks, ReportStep(t)
  PROVE  FramesKept /\ HoldsKept /\ TasksGood
<1>0. TypeInv /\ TaskOK(t) /\ Good(t) /\ t \in Task /\ t.ver \in Nat
  BY DEF RunInv, TypeInv, TaskOK, Task
<1>1. CASE ResolveFrame(t)
  <2>1. FramesKept /\ HoldsKept
    BY <1>1, SameRows DEF ResolveFrame
  <2>2. TasksGood
    BY <1>0, <1>1, GoesAtGood, FrameVer DEF ResolveFrame, Good, About,
         OwnPc, ForcePc
  <2>. QED  BY <2>1, <2>2
<1>2. CASE DrainStop(t)
  <2>1. FramesKept /\ HoldsKept
    BY <1>0, <1>2, SameRows, StopRows, DeleteRows DEF DrainStop, TaskOK,
         Fits, ReportPc, LostPc, Exit
  <2>2. TasksGood
    BY <1>0, <1>2, DoneGood, GoesGood DEF DrainStop, Good, About, OwnPc,
         ForcePc
  <2>. QED  BY <2>1, <2>2
<1>3. CASE StaleRead(t)
  <2>1. FramesKept /\ HoldsKept
    BY <1>3, SameRows DEF StaleRead
  <2>2. TasksGood
    BY <1>0, <1>3, DoneGood, GoesGood DEF StaleRead, Good, About, OwnPc,
         ForcePc
  <2>. QED  BY <2>1, <2>2
<1>4. CASE StaleRelease(t)
  <2>1. FramesKept /\ HoldsKept
    BY <1>0, <1>4, SameFrames, DeleteRows DEF StaleRelease, TaskOK, Fits,
         ReportPc
  <2>2. TasksGood
    BY <1>0, <1>4, DoneGood DEF StaleRelease, Good, About, OwnPc, ForcePc
  <2>. QED  BY <2>1, <2>2
<1>5. CASE FinalRead(t)
  <2>1. FramesKept /\ HoldsKept
    BY <1>5, SameRows DEF FinalRead
  <2>2. TasksGood
    BY <1>0, <1>5, GoesAtGood, DoneGood, FrameVer DEF FinalRead, Good,
         About, OwnPc, ForcePc
  <2>. QED  BY <2>1, <2>2
<1>6. CASE FinalNoProc(t)
  <2>1. FramesKept /\ HoldsKept
    BY <1>6, SameRows DEF FinalNoProc
  <2>2. TasksGood
    BY <1>0, <1>6, DoneGood, GoesGood DEF FinalNoProc, Good, About, OwnPc,
         ForcePc
  <2>. QED  BY <2>1, <2>2
<1>7. CASE FinalStop(t)
  <2>1. FramesKept /\ HoldsKept
    BY <1>0, <1>7, SameRows, StopRows, UnassignRows DEF FinalStop, TaskOK,
         Fits, Exit
  <2>2. TasksGood
    BY <1>0, <1>7, DoneGood DEF FinalStop, Good, About, OwnPc, ForcePc
  <2>. QED  BY <2>1, <2>2
<1>. QED
  BY <1>1, <1>2, <1>3, <1>4, <1>5, <1>6, <1>7 DEF ReportStep

(* lostProc. *)
LEMMA LostRun ==
  ASSUME RunInv, NEW t \in tasks, LostStep(t)
  PROVE  FramesKept /\ HoldsKept /\ TasksGood
<1>0. TypeInv /\ TaskOK(t) /\ Good(t) /\ t \in Task /\ t.ver \in Nat
  BY DEF RunInv, TypeInv, TaskOK, Task
<1>1. CASE LostKill(t)
  <2>1. FramesKept /\ HoldsKept
    BY <1>1, SameRows DEF LostKill, tables
  <2>2. TasksGood
    BY <1>0, <1>1, GoesGood DEF LostKill, tables, Good, About, OwnPc,
         ForcePc
  <2>. QED  BY <2>1, <2>2
<1>2. CASE LostDecide(t)
  <2>1. FramesKept /\ HoldsKept
    BY <1>2, SameRows DEF LostDecide
  <2>2. TasksGood
    BY <1>0, <1>2, GoesGood, GoesWithGood, DoneGood DEF LostDecide, Good,
         About, OwnPc, ForcePc
  <2>. QED  BY <2>1, <2>2
<1>3. CASE LostUnbook(t)
  <2>1. FramesKept /\ HoldsKept
    BY <1>0, <1>3, SameFrames, DeleteRows DEF LostUnbook, TaskOK, Fits,
         LostPc
  <2>2. TasksGood
    BY <1>0, <1>3, GoesGood, GoesAtGood, DoneGood, FrameVer DEF LostUnbook,
         Good, About, OwnPc, ForcePc
  <2>. QED  BY <2>1, <2>2
<1>4. CASE LostRead(t)
  <2>1. FramesKept /\ HoldsKept
    BY <1>4, SameRows DEF LostRead
  <2>2. TasksGood
    BY <1>0, <1>4, GoesAtGood, FrameVer DEF LostRead, Good, About, OwnPc,
         ForcePc
  <2>. QED  BY <2>1, <2>2
<1>5. CASE LostStop(t)
  <2>1. FramesKept /\ HoldsKept
    BY <1>0, <1>5, SameFrames, SameHolds, StopRows DEF LostStop, TaskOK,
         Fits, LostPc, Exit
  <2>2. TasksGood
    BY <1>0, <1>5, GoesGood, DoneGood DEF LostStop, Good, About, OwnPc,
         ForcePc
  <2>. QED  BY <2>1, <2>2
<1>6. CASE LostDetail(t)
  <2>1. FramesKept /\ HoldsKept
    BY <1>6, SameRows DEF LostDetail
  <2>2. TasksGood
    BY <1>0, <1>6, GoesGood, DoneGood DEF LostDetail, Good, About, OwnPc,
         ForcePc
  <2>. QED  BY <2>1, <2>2
<1>7. CASE LostHostDown(t)
  <2>1. FramesKept /\ HoldsKept
    BY <1>0, <1>7, SameFrames, SameHolds, StopRows DEF LostHostDown,
         HostDowned, TaskOK, Fits, FrameState, Exit
  <2>2. TasksGood
    BY <1>0, <1>7, DoneGood DEF LostHostDown, Good, About, OwnPc, ForcePc
  <2>. QED  BY <2>1, <2>2
<1>. QED
  BY <1>1, <1>2, <1>3, <1>4, <1>5, <1>6, <1>7 DEF LostStep

(* The orphan sweep. *)
LEMMA SweepRun ==
  ASSUME RunInv, NEW t \in tasks, SweepStep(t)
  PROVE  FramesKept /\ HoldsKept /\ TasksGood
<1>0. TypeInv /\ TaskOK(t) /\ Good(t) /\ t \in Task /\ t.ver \in Nat
  BY DEF RunInv, TypeInv, TaskOK, Task
<1>1. CASE OrphanCheck(t)
  <2>1. FramesKept /\ HoldsKept
    BY <1>1, SameRows DEF OrphanCheck
  <2>2. TasksGood
    BY <1>0, <1>1, GoesGood, DoneGood DEF OrphanCheck, Good, About, OwnPc,
         ForcePc
  <2>. QED  BY <2>1, <2>2
<1>2. CASE OrphanKill(t)
  <2>1. FramesKept /\ HoldsKept
    BY <1>2, SameRows DEF OrphanKill, tables
  <2>2. TasksGood
    BY <1>0, <1>2, GoesGood DEF OrphanKill, tables, Good, About, OwnPc,
         ForcePc
  <2>. QED  BY <2>1, <2>2
<1>3. CASE OrphanPoll(t)
  <2>1. FramesKept /\ HoldsKept
    BY <1>3, SameRows DEF OrphanPoll
  <2>2. TasksGood
    BY <1>0, <1>3, GoesWithGood, DoneGood DEF OrphanPoll, Good, About,
         OwnPc, ForcePc
  <2>. QED  BY <2>1, <2>2
<1>4. CASE OrphanReset(t)
  <2>1. FramesKept /\ HoldsKept
    BY <1>0, <1>4, SameFrames, SameHolds, StopRows DEF OrphanReset, TaskOK,
         Fits, Exit
  <2>2. TasksGood
    BY <1>0, <1>4, DoneGood DEF OrphanReset, Good, About, OwnPc, ForcePc
  <2>. QED  BY <2>1, <2>2
<1>. QED
  BY <1>1, <1>2, <1>3, <1>4 DEF SweepStep

(* A retry or an eat. *)
LEMMA UserRun ==
  ASSUME RunInv, NEW t \in tasks, UserStep(t)
  PROVE  FramesKept /\ HoldsKept /\ TasksGood
<1>0. TypeInv /\ TaskOK(t) /\ Good(t) /\ t \in Task /\ t.ver \in Nat
  BY DEF RunInv, TypeInv, TaskOK, Task
<1>1. CASE RetryKill(t)
  <2>1. FramesKept /\ HoldsKept
    BY <1>1, SameRows DEF RetryKill, tables
  <2>2. TasksGood
    BY <1>0, <1>1, GoesGood DEF RetryKill, tables, Good, About, OwnPc,
         ForcePc
  <2>. QED  BY <2>1, <2>2
<1>2. CASE RetryPoll(t)
  <2>1. FramesKept /\ HoldsKept
    BY <1>2, SameRows DEF RetryPoll
  <2>2. TasksGood
    BY <1>0, <1>2, GoesGood, DoneGood DEF RetryPoll, Good, About, OwnPc,
         ForcePc
  <2>. QED  BY <2>1, <2>2
<1>3. CASE RetryStop(t)
  <2>1. FramesKept /\ HoldsKept
    BY <1>0, <1>3, SameRows, StopRows, UnassignRows DEF RetryStop,
         ManualStop, TaskOK, Fits, FrameState, Exit
  <2>2. TasksGood
    BY <1>0, <1>3, GoesGood, DoneGood DEF RetryStop, ManualStop, Good,
         About, OwnPc, ForcePc
  <2>. QED  BY <2>1, <2>2
<1>4. CASE RetryRead(t)
  <2>1. FramesKept /\ HoldsKept
    BY <1>4, SameRows DEF RetryRead
  <2>2. TasksGood
    BY <1>0, <1>4, GoesAtGood, DoneGood, FrameVer DEF RetryRead, Good,
         About, OwnPc, ForcePc
  <2>. QED  BY <2>1, <2>2
<1>5. CASE RetryForce(t)
  <2>1. FramesKept /\ HoldsKept
    BY <1>0, <1>5, SameFrames, SameHolds, ForceRows DEF RetryForce,
         ForceState, TaskOK, Fits, FrameState
  <2>2. TasksGood
    BY <1>0, <1>5, DoneGood DEF RetryForce, ForceState, Good, About, OwnPc,
         ForcePc
  <2>. QED  BY <2>1, <2>2
<1>6. CASE EatStop(t)
  <2>1. FramesKept /\ HoldsKept
    BY <1>0, <1>6, SameRows, StopRows, UnassignRows DEF EatStop,
         ManualStop, TaskOK, Fits, FrameState, Exit
  <2>2. TasksGood
    BY <1>0, <1>6, GoesGood, DoneGood DEF EatStop, ManualStop, StopMatches,
         Good, About, OwnPc, ForcePc
  <2>. QED  BY <2>1, <2>2
<1>7. CASE EatKill(t)
  <2>1. FramesKept /\ HoldsKept
    BY <1>7, SameRows DEF EatKill, tables
  <2>2. TasksGood
    BY <1>0, <1>7, DoneGood, FrameVer DEF EatKill, tables, NewTask,
         TasksGood, Good, About, OwnPc, ForcePc
  <2>. QED  BY <2>1, <2>2
<1>8. CASE EatForce(t)
  <2>1. FramesKept /\ HoldsKept
    BY <1>0, <1>8, SameFrames, SameHolds, ForceRows DEF EatForce,
         ForceState, TaskOK, Fits, FrameState
  <2>2. TasksGood
    BY <1>0, <1>8, DoneGood DEF EatForce, ForceState, Good, About, OwnPc,
         ForcePc
  <2>. QED  BY <2>1, <2>2
<1>. QED
  BY <1>1, <1>2, <1>3, <1>4, <1>5, <1>6, <1>7, <1>8 DEF UserStep

(* The actions that are no thread's step. *)

\* A launch that expires is about the same run.
LEMMA ExpireGood ==
  ASSUME RunInv, NEW P, ExpireLaunches(P)
  PROVE  TasksGood
<1>1. \A t \in tasks : Good([t EXCEPT !.arg = "expired"])
  BY DEF RunInv, TypeInv, TaskOK, Task, Good
<1>. QED  BY <1>1 DEF TasksGood, ExpireLaunches

\* A report: what is read back to back (~Stall) is of the holder's run, since the
\* proc that holds a frame started its latest run.
LEMMA ReportArrivesRun ==
  ASSUME RunInv, NEW m \in report, ReportArrives(m)
  PROVE  FramesKept /\ HoldsKept /\ TasksGood
<1>0. /\ TypeInv /\ HolderStartedRun
      /\ m.proc \in Procs /\ m.frame \in Frames /\ frame[m.frame].ver \in Nat
  BY FrameVer DEF RunInv, TypeInv, TypeOK, RqdTypeOK, Report
<1>1. FramesKept /\ HoldsKept
  BY SameRows DEF ReportArrives
<1>2. ~Stall /\ proc[m.proc].row = "live" /\ proc[m.proc].frame = m.frame
        => \A s : Good(NewTask("drain", m.proc, m.frame, frame[m.frame].ver, s, "-"))
  BY <1>0, NullAssumption DEF HolderStartedRun, NewTask, Good, About, ForcePc
<1>3. \A pc \in {"final", "stale"} : \A a :
        Good(NewTask(pc, m.proc, m.frame, 0, a, "-"))
  BY <1>0 DEF NewTask, Good, About, OwnPc, ForcePc
<1>4. Stall => \A a : Good(NewTask("resolve", m.proc, m.frame, 0, a, "-"))
  BY <1>0 DEF NewTask, Good, About, OwnPc, ForcePc
<1>5. TasksGood
  BY <1>2, <1>3, <1>4 DEF ReportArrives, TasksGood
<1>. QED  BY <1>1, <1>5

\* The threads that passes and users start are about nobody's run yet.
LEMMA RequestsRun ==
  ASSUME RunInv,
         \/ \E p \in Procs, why \in {"orphan", "down"} : LostStart(p, why)
         \/ \E f \in Frames : OrphanFound(f)
         \/ \E f \in Frames : RetryRequest(f) \/ EatRequest(f)
  PROVE  FramesKept /\ HoldsKept /\ TasksGood
<1>0. TypeInv /\ \A f \in Frames : frame[f].ver \in Nat
  BY FrameVer DEF RunInv
<1>1. ASSUME NEW p \in Procs, NEW why \in {"orphan", "down"}, LostStart(p, why)
      PROVE  FramesKept /\ HoldsKept /\ TasksGood
  BY <1>0, <1>1, SameRows
     DEF LostStart, NewTask, TasksGood, Good, About, OwnPc, ForcePc
<1>2. ASSUME NEW f \in Frames, OrphanFound(f)
      PROVE  FramesKept /\ HoldsKept /\ TasksGood
  BY <1>0, <1>2, SameRows
     DEF OrphanFound, NewTask, TasksGood, Good, About, OwnPc, ForcePc
<1>3. ASSUME NEW f \in Frames, RetryRequest(f) \/ EatRequest(f)
      PROVE  FramesKept /\ HoldsKept /\ TasksGood
  BY <1>0, <1>3, SameRows
     DEF RetryRequest, EatRequest, UserRequest, NewTask, TasksGood, Good, About,
         OwnPc, ForcePc
<1>. QED  BY <1>1, <1>2, <1>3

\* Pings and ageing.
LEMMA AgeRun ==
  ASSUME RunInv,
         \/ \E p \in Procs : Ping(p)
         \/ \E p \in Procs : AgeProc(p)
         \/ \E f \in Frames : AgeFrame(f)
  PROVE  FramesKept /\ HoldsKept /\ TasksGood
<1>0. TypeInv
  BY DEF RunInv
<1>1. ASSUME NEW p \in Procs, Ping(p)
      PROVE  FramesKept /\ HoldsKept /\ TasksGood
  <2>1. proc[p].frame \in Frames
    BY <1>0, <1>1 DEF Ping, Pinged, TypeInv, TypeOK, RqdTypeOK, Render
  <2>. QED  BY <1>0, <1>1, <2>1, AgedProc, AgedFrame
            DEF Ping, FramesKept, HoldsKept, TasksGood
<1>2. ASSUME NEW p \in Procs, AgeProc(p)
      PROVE  FramesKept /\ HoldsKept /\ TasksGood
  BY <1>0, <1>2, AgedProc, SameFrames, ExpireGood DEF AgeProc, HoldsKept
<1>3. ASSUME NEW f \in Frames, AgeFrame(f)
      PROVE  FramesKept /\ HoldsKept /\ TasksGood
  BY <1>0, <1>3, AgedFrame, SameHolds, ExpireGood DEF AgeFrame, FramesKept
<1>. QED  BY <1>1, <1>2, <1>3

\* Steps that touch no row.
LEMMA OtherRun ==
  ASSUME RunInv, CuebotStops \/ RqdNext \/ (\E r \in render : VerifyKill(r))
                   \/ UNCHANGED vars
  PROVE  FramesKept /\ HoldsKept /\ TasksGood
<1>1. UNCHANGED tables
  BY DEF CuebotStops, RqdNext, VerifyKill, vars, tables
<1>2. TasksGood
  BY ExpireGood DEF CuebotStops, RqdNext, HostStep, VerifyKill, vars, TasksGood
<1>. QED  BY <1>1, <1>2, SameRows

Booking == \E f \in Frames, p \in Procs, h \in Hosts : Book(f, p, h)

\* Every step but a booking keeps the runs.
LEMMA RunKept ==
  ASSUME RunInv, [Next]_vars, ~Booking
  PROVE  FramesKept /\ HoldsKept /\ TasksGood
<1>1. ASSUME NEW t \in tasks, TaskStep(t)
      PROVE  FramesKept /\ HoldsKept /\ TasksGood
  BY <1>1, LaunchRun, ReportRun, LostRun, SweepRun, UserRun DEF TaskStep
<1>2. CASE CuebotNext
  BY <1>1, <1>2, ReportArrivesRun, RequestsRun, AgeRun, OtherRun
     DEF CuebotNext, Booking
<1>. QED  BY <1>2, OtherRun DEF Next

\* A booking starts a run of its own: every version read before it is superseded.
LEMMA BookRun ==
  ASSUME RunInv, TypeInv', Booking
  PROVE  RunInv'
<1>1. PICK f \in Frames, p \in Procs, h \in Hosts : Book(f, p, h)
  BY DEF Booking
<1>0. TypeInv /\ TablesTypeOK /\ \A g \in Frames : frame[g].ver \in Nat
  BY FrameVer DEF RunInv, TypeInv, TypeOK
<1>2. /\ frame'[f].by = p /\ frame'[f].ver = frame[f].ver + 1
      /\ \A g \in Frames : g # f => frame'[g] = frame[g]
  BY <1>0, <1>1, StartedFrame DEF Book
<1>3. \A q \in Procs : q # p =>
        \/ proc'[q].row = "gone"
        \/ proc'[q] = proc[q] /\ ~(proc[q].row = "live" /\ proc[q].frame = f)
  BY <1>0, <1>1, InsertedProcs DEF Book
<1>4. HolderStartedRun'
  <2>1. proc'[p].frame = f
    BY <1>0, <1>1, InsertedProcs DEF Book
  <2>2. \A q \in Procs : proc[q].frame \in Frames \cup {NoFrame}
    BY <1>0 DEF TablesTypeOK, ProcRow
  <2>. QED  BY <1>2, <1>3, <2>1, <2>2 DEF RunInv, HolderStartedRun
<1>5. ASSUME NEW t \in tasks' PROVE Good(t)'
  <2>1. CASE t \in tasks
    <3>1. Good(t) /\ t.ver \in Nat
      BY <2>1 DEF RunInv, TypeInv, TaskOK, Task
    <3>. QED  BY <1>0, <1>2, <3>1 DEF Good, About, OwnPc, ForcePc
  <2>2. CASE t = NewTask("launch", p, f, frame[f].ver + 1, "fresh", "-")
    BY <1>0, <1>2, <2>2 DEF NewTask, Good, About, ForcePc
  <2>3. CASE \E q \in Procs : t = NewTask("kill", q, f, 0, "-", "-")
    BY <1>0, <1>2, <2>3 DEF NewTask, Good, About, OwnPc, ForcePc
  <2>. QED  BY <1>1, <2>1, <2>2, <2>3 DEF Book, ProcsOn
<1>. QED  BY <1>4, <1>5 DEF RunInv

\* The invariant holds at the start.
LEMMA RunInit == Init => RunInv
<1> SUFFICES ASSUME Init PROVE RunInv
  OBVIOUS
<1>1. HolderStartedRun
  BY DEF Init, TablesInit, HolderStartedRun
<1>. QED  BY <1>1, TypeInit DEF Init, RunInv

\* And after every step: RunInv is inductive.
LEMMA RunNext == RunInv /\ [Next]_vars => RunInv'
<1> SUFFICES ASSUME RunInv, [Next]_vars PROVE RunInv'
  OBVIOUS
<1>1. TypeInv'
  BY TypeNext DEF RunInv
<1>. QED  BY <1>1, BookRun, RunKept, RunStep

\* The inductive invariant: what a thread has read of a run of a frame stays true
\* of it for as long as its version does, whatever all the others do meanwhile.
THEOREM RunCorrect == Spec => []RunInv
  BY RunInit, RunNext, PTL DEF Spec

\* A proc that holds a frame is the one the frame's latest run was booked on,
\* whatever releases were under way when it was booked.
THEOREM HolderCorrect == Spec => []HolderStartedRun
<1>1. RunInv => HolderStartedRun
  BY DEF RunInv
<1>. QED  BY <1>1, RunCorrect, PTL

\* A launch that is rolled back stops its own run of the frame or none.
THEOREM RollbackCorrect == Spec => []RollbackStopsOwnRun
<1>1. RunInv => RollbackStopsOwnRun
  BY DEF RunInv, TypeInv, TaskOK, Fits, RollbackStopsOwnRun, ClearMatches,
         StopMatches, Good, About, OwnPc
<1>. QED  BY <1>1, RunCorrect, PTL

\* A drained completion stops the run it reports or none, provided that no
\* other action comes between the two reads it was resolved with.
THEOREM DrainCorrect ==
  ASSUME ~Stall
  PROVE  Spec => []DrainStopsOwnRun
<1>1. RunInv => DrainStopsOwnRun
  BY DEF RunInv, TypeInv, TaskOK, Fits, DrainStopsOwnRun, StopMatches, Good,
         About, OwnPc
<1>. QED  BY <1>1, RunCorrect, PTL

-----------------------------------------------------------------------------
(***************************************************************************)
(* CorpseOnlyFromLost.  A frame whose state changes keeps no holder, or is  *)
(* lost, or was not RUNNING before; the drain needs DrainStopsOwnRun for    *)
(* it, a forced state the version it was read at.                           *)
(***************************************************************************)

CorpseKept ==
    \A g \in Frames :
        \/ frame'[g].exit = "lost"
        \/ \A q \in Procs : ~(proc'[q].row = "live" /\ proc'[q].frame = g)
        \/ /\ frame'[g].exit = frame[g].exit
           /\ frame'[g].state = frame[g].state \/ frame[g].state # "RUNNING"

\* A step that touches no frame makes no corpse.
LEMMA SameCorpses ==
  ASSUME UNCHANGED frame
  PROVE  CorpseKept
  BY DEF CorpseKept

\* Nor does a stop that is lost, or leaves the frame without a holder.
LEMMA StopCorpses ==
  ASSUME TypeInv, NEW f \in Frames, NEW s \in FrameState, NEW x \in Exit,
         frame' = Stopped(f, s, x),
         x = "lost" \/ \A q \in Procs : ~(proc'[q].row = "live" /\ proc'[q].frame = f)
  PROVE  CorpseKept
  BY StoppedFrame DEF TypeInv, TypeOK, CorpseKept

\* Nor one whose transaction also clears the assignment.
LEMMA UnassignCorpses ==
  ASSUME TypeInv, NEW f \in Frames, NEW s \in FrameState, NEW x \in Exit,
         frame' = Stopped(f, s, x), proc' = Unassigned(f)
  PROVE  CorpseKept
<1>1. \A q \in Procs : ~(proc'[q].row = "live" /\ proc'[q].frame = f)
  BY UnassignedProcs DEF TypeInv, TypeOK
<1>. QED  BY <1>1, StopCorpses

\* Nor a forced state, since it is decided when the frame is not RUNNING.
LEMMA ForceCorpses ==
  ASSUME RunInv, NEW t \in tasks, t.pc \in ForcePc, NEW s \in FrameState,
         ForceState(t, s)
  PROVE  CorpseKept
<1>1. TablesTypeOK /\ TypeInv /\ Good(t) /\ t.frame \in Frames
  BY DEF RunInv, TypeInv, TypeOK, TaskOK, Fits, ForcePc
<1>2. CASE ForceMatches(t.frame, t.ver)
  <2>1. frame[t.frame].state # "RUNNING"
    BY <1>1, <1>2 DEF Good, About, ForceMatches
  <2>. QED  BY <1>1, <1>2, <2>1, ForcedFrame DEF ForceState, CorpseKept
<1>3. CASE ~ForceMatches(t.frame, t.ver)
  BY <1>3, SameCorpses DEF ForceState
<1>. QED  BY <1>2, <1>3

\* Nor any step of a thread: the drain deletes the proc of the very run it stops.
LEMMA TaskCorpses ==
  ASSUME ~Stall, RunInv, NEW t \in tasks, TaskStep(t)
  PROVE  CorpseKept
<1>0. TypeInv /\ TaskOK(t) /\ Good(t) /\ TablesTypeOK
  BY DEF RunInv, TypeInv, TypeOK
<1>1. CASE LaunchStep(t)
  <2>1. CASE RollbackClear(t)
    BY <1>0, <2>1, SameCorpses, StopCorpses
       DEF RollbackClear, ClearMatches, Cleared, ProcsOn, TaskOK, Fits,
           FrameState, Exit
  <2>. QED
    BY <1>1, <2>1, SameCorpses
       DEF LaunchStep, LaunchUnsent, LaunchAccepted, LaunchRefused,
           LaunchUnknown, ConfirmPoll, RollbackUnbook, BestEffortKill, tables
<1>2. CASE ReportStep(t)
  <2>1. CASE DrainStop(t) /\ StopMatches(t.frame, t.ver)
    <3>1. t.frame \in Frames /\ t.proc \in Procs /\ t.arg \in FrameState
      BY <1>0, <2>1 DEF DrainStop, TaskOK, Fits, ReportPc
    <3>2. frame[t.frame].by = t.proc
      BY <1>0, <2>1, <3>1 DEF DrainStop, StopMatches, Good, About, OwnPc
    <3>3. proc' = DeletedIfThere(t.proc)
      BY <2>1 DEF DrainStop
    <3>4. \A q \in Procs : q # t.proc
            => ~(proc[q].row = "live" /\ proc[q].frame = t.frame)
      BY <3>1, <3>2, NullAssumption DEF RunInv, HolderStartedRun
    <3>5. \A q \in Procs : ~(proc'[q].row = "live" /\ proc'[q].frame = t.frame)
      BY <1>0, <3>1, <3>3, <3>4, DeletedProcs
    <3>. QED  BY <1>0, <2>1, <3>1, <3>5, StopCorpses DEF DrainStop, Exit
  <2>2. CASE DrainStop(t) /\ ~StopMatches(t.frame, t.ver)
    BY <2>2, SameCorpses DEF DrainStop, tables
  <2>3. CASE FinalStop(t)
    BY <1>0, <2>3, SameCorpses, UnassignCorpses
       DEF FinalStop, TaskOK, Fits, Exit, tables
  <2>. QED
    BY <1>2, <2>1, <2>2, <2>3, SameCorpses
       DEF ReportStep, ResolveFrame, StaleRead, StaleRelease, FinalRead,
           FinalNoProc, tables
<1>3. CASE LostStep(t)
  <2>1. CASE LostStop(t)
    BY <1>0, <2>1, SameCorpses, StopCorpses
       DEF LostStop, TaskOK, Fits, LostPc, Exit
  <2>2. CASE LostHostDown(t)
    BY <1>0, <2>2, SameCorpses, StopCorpses
       DEF LostHostDown, HostDowned, TaskOK, Fits, FrameState, Exit
  <2>. QED
    BY <1>3, <2>1, <2>2, SameCorpses
       DEF LostStep, LostKill, LostDecide, LostUnbook, LostRead, LostDetail, tables
<1>4. CASE SweepStep(t)
  <2>1. CASE OrphanReset(t)
    BY <1>0, <2>1, SameCorpses, StopCorpses DEF OrphanReset, TaskOK, Fits, Exit
  <2>. QED
    BY <1>4, <2>1, SameCorpses
       DEF SweepStep, OrphanCheck, OrphanKill, OrphanPoll, tables
<1>5. CASE UserStep(t)
  <2>1. CASE RetryStop(t) \/ EatStop(t)
    BY <1>0, <2>1, SameCorpses, UnassignCorpses
       DEF RetryStop, EatStop, ManualStop, TaskOK, Fits, FrameState, Exit, tables
  <2>2. CASE RetryForce(t) \/ EatForce(t)
    BY <2>2, ForceCorpses DEF RetryForce, EatForce, ForcePc, FrameState
  <2>. QED
    BY <1>5, <2>1, <2>2, SameCorpses
       DEF UserStep, RetryKill, RetryPoll, RetryRead, EatKill, tables
<1>. QED  BY <1>1, <1>2, <1>3, <1>4, <1>5 DEF TaskStep

\* Nor what no thread does.
LEMMA OtherCorpses ==
  ASSUME RunInv, [Next]_vars, ~Booking, ~\E t \in tasks : TaskStep(t)
  PROVE  CorpseKept
<1>0. TypeInv
  BY DEF RunInv
<1>1. CASE \E f \in Frames : AgeFrame(f)
  BY <1>0, <1>1, AgedFrame DEF AgeFrame, CorpseKept
<1>2. CASE \E p \in Procs : Ping(p)
  <2>1. PICK p \in Procs : Ping(p)
    BY <1>2
  <2>2. proc[p].frame \in Frames
    BY <1>0, <2>1 DEF Ping, Pinged, TypeInv, TypeOK, RqdTypeOK, Render
  <2>. QED  BY <1>0, <2>1, <2>2, AgedFrame DEF Ping, CorpseKept
<1>3. CASE RqdNext \/ UNCHANGED vars
  BY <1>3, SameCorpses DEF RqdNext, vars, tables
<1>4. CASE CuebotNext
  BY <1>1, <1>2, <1>4, SameCorpses
     DEF CuebotNext, Booking, ReportArrives, LostStart, OrphanFound,
         RetryRequest, EatRequest, UserRequest, VerifyKill, AgeProc, CuebotStops,
         tables
<1>. QED  BY <1>3, <1>4 DEF Next

\* And a booking evicts the corpse of the frame it starts.
LEMMA CorpseStep ==
  ASSUME ~Stall, RunInv, CorpseOnlyFromLost, [Next]_vars
  PROVE  CorpseOnlyFromLost'
<1>0. /\ TablesTypeOK
      /\ \A q \in Procs : proc[q].frame \in Frames \cup {NoFrame}
  BY DEF RunInv, TypeInv, TypeOK, TablesTypeOK, ProcRow
<1>1. CASE Booking
  <2>1. PICK f \in Frames, p \in Procs, h \in Hosts : Book(f, p, h)
    BY <1>1 DEF Booking
  <2>2. /\ frame'[f].state = "RUNNING"
        /\ \A g \in Frames : g # f => frame'[g] = frame[g]
    BY <1>0, <2>1, StartedFrame DEF Book
  <2>3. /\ proc'[p].frame = f
        /\ \A q \in Procs : q # p => proc'[q].row = "gone" \/ proc'[q] = proc[q]
    BY <1>0, <2>1, InsertedProcs DEF Book
  <2>. QED  BY <1>0, <2>2, <2>3 DEF CorpseOnlyFromLost
<1>2. CASE ~Booking
  <2>1. CorpseKept
    BY <1>2, TaskCorpses, OtherCorpses
  <2>2. HoldsKept
    BY <1>2, RunKept
  <2>. QED  BY <1>0, <2>1, <2>2, NullAssumption
            DEF CorpseKept, HoldsKept, CorpseOnlyFromLost
<1>. QED  BY <1>1, <1>2

\* The only corpse rows are those of lost frames: every other release frees the
\* proc with the frame, in the one transaction.
THEOREM CorpseCorrect ==
  ASSUME ~Stall
  PROVE  Spec => []CorpseOnlyFromLost
<1>1. Init => RunInv /\ CorpseOnlyFromLost
  BY RunInit DEF Init, TablesInit, CorpseOnlyFromLost
<1>2. (RunInv /\ CorpseOnlyFromLost) /\ [Next]_vars
        => (RunInv /\ CorpseOnlyFromLost)'
  BY RunNext, CorpseStep
<1>. QED  BY <1>1, <1>2, PTL DEF Spec
=============================================================================
