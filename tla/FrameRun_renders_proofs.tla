------------------- MODULE FrameRun_renders_proofs ----------------------
(***************************************************************************)
(* Who renders a frame: proofs about the attendants on the hosts, for every *)
(* set of frames, hosts and bookings, as long as no user retries or eats   *)
(* a frame and no thread is stalled between two reads.                     *)
(*                                                                         *)
(* A booking has at most one attendant, and passes through it once: a      *)
(* launch in the pool, a request on the wire, an attendant in setup(), a   *)
(* render, a report.  The invariant follows a booking along that way; what *)
(* each thread has seen of it says how far it must have got.               *)
(*                                                                         *)
(* The last section is about a frame that has SUCCEEDED, and assumes       *)
(* nothing of the threads.                                                 *)
(***************************************************************************)
EXTENDS FrameRun_proofs

-----------------------------------------------------------------------------
(* Where a booking is. *)

\* Its launch waits in the pool and will be sent.
Fresh(p) ==
    \E t \in tasks : t.pc = "launch" /\ t.arg = "fresh" /\ t.proc = p

OnWire(p) == \E m \in wire : m.proc = p

Rendered(p) == \E r \in render : r.proc = p

\* It may still begin to render.
Starting(p) == Fresh(p) \/ Underway(p)

\* It may still be rendering.
Present(p) == Starting(p) \/ Rendered(p)

\* It has rendered: what is left of it is the news that it ended.
Reported(p) ==
    \/ \E m \in report : m.proc = p
    \/ \E t \in tasks : t.pc \in ReportPc /\ t.proc = p

\* Whatever it renders has been signalled.
Doomed(p) == \A r \in render : r.proc = p => r.stage = "dying"

\* What is left of it on the hosts is about frame f.
OfFrame(p, f) ==
    /\ \A m \in wire : m.proc = p => m.frame = f
    /\ \A r \in render : r.proc = p => r.frame = f

\* The rows say that f is being run by p.
Owns(p, f) ==
    /\ frame[f].state = "RUNNING" /\ frame[f].by = p
    /\ proc[p].row = "live" /\ proc[p].frame = f

\* lostProc never meets a live host that does not answer.
Heard == "lostProc" \notin Actors \/ "cut" \notin Faults

\* The bookings whose frame nobody else may be given.
Claims(p) == Starting(p) \/ (Heard /\ ~Doomed(p))

-----------------------------------------------------------------------------
(* The invariant. *)

HostsInv ==
    \A h \in Hosts :
        /\ hw[h] = "DOWN" => net[h] = "dead"
        /\ "cut" \notin Faults => net[h] # "cut"

ProcInv(p) ==
    /\ proc[p].row = "unused" => ~Present(p) /\ ~Reported(p)
    /\ proc[p].row = "live" => proc[p].frame # NoFrame
    /\ proc[p].row = "live" /\ proc[p].old => ~Starting(p)
    /\ proc[p].row = "live" /\ hw[proc[p].host] = "DOWN" => ~Fresh(p)
    /\ p \in rebooted => proc[p].row # "unused" /\ ~Present(p)
    /\ Reported(p) => ~Present(p)

ProcsInv == \A p \in Procs : ProcInv(p)

WireInv ==
    \A m \in wire :
        /\ m.host = proc[m.proc].host
        /\ net[m.host] # "dead"
        /\ Owns(m.proc, m.frame)
        /\ ~Rendered(m.proc)
        /\ \A n \in wire : n.proc = m.proc => n = m

RenderOK(r) ==
    /\ r.host = proc[r.proc].host
    /\ net[r.host] # "dead"
    /\ r.cached <=> r.stage # "setup"
    /\ r.stage = "setup" \/ (Heard /\ r.stage # "dying")
         => Owns(r.proc, r.frame)
    /\ proc[r.proc].row = "live" => proc[r.proc].frame = r.frame

\* One attendant for a booking, and one for a frame on a host.
RendersOnce ==
    \A r, s \in render :
        s.proc = r.proc \/ (s.host = r.host /\ s.frame = r.frame) => s = r

RendersInv == RendersOnce /\ \A r \in render : RenderOK(r)

LaunchOnce ==
    \A t, u \in tasks :
        /\ t.pc = "launch" /\ u.pc = "launch"
        /\ t.proc = u.proc /\ t.arg = "fresh"
        => t = u

OffHosts(p) == ~Underway(p) /\ ~Rendered(p)

AtLaunch(pc, p, f, a) ==
    /\ pc = "launch" => /\ OffHosts(p)
                        /\ a = "fresh" => Owns(p, f)
                        /\ a # "fresh" => ~Fresh(p)
    /\ pc \in {"poll1", "poll2"} => ~Fresh(p) /\ OfFrame(p, f)
    /\ pc \in {"unbook", "clear"} => ~Present(p)

AtStop(pc, f, v) ==
    pc \in {"final3"} \cup SweepPc /\ StopMatches(f, v) => ProcsOn(f) = {}

AtLost(pc, p, f, v, a, why) ==
    pc \in LostPc =>
        /\ "lostProc" \in Actors
        /\ pc # "lostRead"
        /\ f \in Frames
        /\ proc[p].row # "unused"
        /\ ~Starting(p)
        /\ OfFrame(p, f)
        /\ proc[p].row = "live" => proc[p].frame = f
        /\ why = "down" => ~Present(p)
        /\ pc = "lostStop" /\ v = frame[f].ver => frame[f].by = p
        /\ pc \notin {"lostKill", "lostDecide"} /\ a = "WAITING" => Doomed(p)
        /\ pc # "lostKill" /\ Heard => Doomed(p)

Sound(pc, p, f, v, a, why) ==
    /\ pc \notin UserPc /\ why # "failedKill"
    /\ AtLaunch(pc, p, f, a)
    /\ AtStop(pc, f, v)
    /\ AtLost(pc, p, f, v, a, why)

TaskInv(t) == Sound(t.pc, t.proc, t.frame, t.ver, t.arg, t.why)

TasksInv == \A t \in tasks : TaskInv(t)

Undisturbed ==
    /\ HostsInv /\ ProcsInv /\ WireInv /\ RendersInv /\ LaunchOnce /\ TasksInv

-----------------------------------------------------------------------------
(* What a step may do to the bookings that were there before it. *)

RowsKept ==
    \A p \in Procs :
        /\ proc'[p].host = proc[p].host
        /\ proc'[p].row = "unused" <=> proc[p].row = "unused"
        /\ proc'[p].row = "live" => /\ proc[p].row = "live"
                                    /\ proc'[p].frame = proc[p].frame

RunsKept ==
    \A p \in Procs, f \in Frames : Claims(p) /\ Owns(p, f) => Owns(p, f)'

Moves ==
    \A p \in Procs :
        /\ Fresh(p)' => Fresh(p)
        /\ Starting(p)' => Starting(p)
        /\ Present(p)' => Present(p)
        /\ Reported(p)' => Reported(p) \/ (Present(p) /\ ~Present(p)')
        /\ Doomed(p) /\ ~Starting(p) => Doomed(p)'
        /\ ~Fresh(p) => \A f \in Frames : OfFrame(p, f) => OfFrame(p, f)'

\* What the types say of the requests, attendants, reports and threads there are.
LEMMA Kinds ==
  ASSUME TypeInv
  PROVE  /\ \A m \in wire : m.proc \in Procs /\ m.frame \in Frames /\ m.host \in Hosts
         /\ \A r \in render : r \in Render /\ r.proc \in Procs /\ r.frame \in Frames
                                /\ r.host \in Hosts
         /\ \A m \in report : m.proc \in Procs /\ m.frame \in Frames
         /\ \A t \in tasks : t \in Task /\ TaskOK(t) /\ t.ver \in Nat
         /\ \A f \in Frames : frame[f].ver \in Nat
  BY FrameVer DEF TypeInv, TypeOK, RqdTypeOK, Launch, Render, Report, TaskOK, Task

\* What a thread has seen stays true of a booking that was there before the step.
LEMMA SoundKept ==
  ASSUME RunInv, TypeInv', FramesKept, RowsKept, Moves, ~Stall,
         NEW u \in tasks', Good(u), TaskInv(u),
         u.pc = "launch" => OffHosts(u.proc)',
         u.pc = "launch" /\ u.arg = "fresh" => Owns(u.proc, u.frame)'
  PROVE  TaskInv(u)'
<1>0. /\ u \in Task /\ u.ver \in Nat /\ u.pc \in Pc
      /\ Fits(u.pc, u.proc, u.frame, u.arg)'
      /\ TypeInv
      /\ \A f \in Frames : frame[f].ver \in Nat
  BY FrameVer DEF RunInv, TypeInv, TaskOK, Task
<1>1. AtLaunch(u.pc, u.proc, u.frame, u.arg)'
  <2>1. u.pc \in LaunchPc => u.proc \in Procs /\ u.frame \in Frames
    BY <1>0 DEF Fits, LaunchPc
  <2>. QED  BY <2>1 DEF TaskInv, Sound, AtLaunch, Moves, LaunchPc
<1>2. AtStop(u.pc, u.frame, u.ver)'
  <2>1. SUFFICES ASSUME u.pc \in {"final3"} \cup SweepPc,
                        StopMatches(u.frame, u.ver)'
                 PROVE  ProcsOn(u.frame)' = {}
    BY DEF AtStop
  <2>2. u.frame \in Frames
    BY <1>0, <2>1 DEF Fits, SweepPc
  <2>3. StopMatches(u.frame, u.ver)
    BY <1>0, <2>1, <2>2 DEF StopMatches, FramesKept, Good, About
  <2>4. ProcsOn(u.frame) = {}
    BY <2>1, <2>3 DEF TaskInv, Sound, AtStop
  <2>. QED  BY <2>4 DEF ProcsOn, RowsKept
<1>3. AtLost(u.pc, u.proc, u.frame, u.ver, u.arg, u.why)'
  <2>1. SUFFICES ASSUME u.pc \in LostPc
                 PROVE  AtLost(u.pc, u.proc, u.frame, u.ver, u.arg, u.why)'
    BY DEF AtLost
  <2>2. u.proc \in Procs
    BY <1>0, <2>1 DEF Fits
  <2>3. u.frame \in Frames /\ ~Starting(u.proc) /\ proc[u.proc].row # "unused"
    BY <2>1 DEF TaskInv, Sound, AtLost
  <2>4. u.ver = frame'[u.frame].ver
          => u.ver = frame[u.frame].ver /\ frame'[u.frame].by = frame[u.frame].by
    BY <1>0, <2>3 DEF FramesKept, Good, About
  <2>5. OfFrame(u.proc, u.frame) => OfFrame(u.proc, u.frame)'
    BY <2>2, <2>3 DEF Moves, Starting
  <2>6. /\ Starting(u.proc)' => Starting(u.proc)
        /\ Present(u.proc)' => Present(u.proc)
        /\ Doomed(u.proc) => Doomed(u.proc)'
    BY <2>2, <2>3 DEF Moves
  <2>7. /\ proc'[u.proc].row # "unused"
        /\ proc'[u.proc].row = "live" =>
             proc[u.proc].row = "live" /\ proc'[u.proc].frame = proc[u.proc].frame
    BY <2>2, <2>3 DEF RowsKept
  <2>. QED  BY <2>1, <2>3, <2>4, <2>5, <2>6, <2>7 DEF TaskInv, Sound, AtLost, Heard
<1>. QED  BY <1>1, <1>2, <1>3 DEF TaskInv, Sound

\* The rows of bookings, when none of them goes back on its way.
LEMMA ProcsStep ==
  ASSUME ProcsInv, RowsKept, Moves,
         \A p \in Procs :
            /\ proc'[p].old => proc[p].old \/ ~Starting(p)'
            /\ p \in rebooted' =>
                 p \in rebooted \/ (proc'[p].row # "unused" /\ ~Present(p)')
            /\ proc'[p].row = "live" /\ hw'[proc[p].host] = "DOWN" =>
                 hw[proc[p].host] = "DOWN" \/ ~Fresh(p)'
  PROVE  ProcsInv'
<1> SUFFICES ASSUME NEW p \in Procs PROVE ProcInv(p)'
  BY DEF ProcsInv
<1>1. ProcInv(p)
  BY DEF ProcsInv
<1>. QED  BY <1>1 DEF ProcInv, RowsKept, Moves

-----------------------------------------------------------------------------
(* Steps of Cuebot that neither book, launch, expire a launch nor receive a  *)
(* report: on the hosts they do no more than signal attendants.             *)

RendersKept ==
    \/ UNCHANGED render
    \/ \E h, f : render' = KilledRenders(h, f)

ComesFrom(r, s) ==
    /\ r.proc = s.proc /\ r.frame = s.frame /\ r.host = s.host
    /\ r.cached = s.cached
    /\ r.stage = s.stage \/ (r.stage = "dying" /\ s.cached)

\* A kill takes no attendant away and makes no two of one.
LEMMA Signalled ==
  ASSUME TypeInv, RendersKept
  PROVE  /\ \A r \in render' : \E s \in render : ComesFrom(r, s)
         /\ RendersOnce => RendersOnce'
<1>0. \A s \in render : s \in Render
  BY Kinds
<1>1. CASE UNCHANGED render
  BY <1>1 DEF ComesFrom, RendersOnce
<1>2. CASE \E h, f : render' = KilledRenders(h, f)
  <2>1. PICK h, f : render' = KilledRenders(h, f)
    BY <1>2
  <2>. DEFINE K(s) == IF Reach(h) /\ s.host = h /\ s.frame = f /\ s.cached
                        THEN [s EXCEPT !.stage = "dying"] ELSE s
  <2>2. render' = {K(s) : s \in render}
    BY <2>1 DEF KilledRenders
  <2>3. \A s \in render : /\ ComesFrom(K(s), s)
                          /\ K(s).proc = s.proc /\ K(s).host = s.host
                          /\ K(s).frame = s.frame
    BY <1>0 DEF ComesFrom, Render
  <2>. HIDE DEF K
  <2>4. \A r \in render' : \E s \in render : ComesFrom(r, s)
    BY <2>2, <2>3
  <2>5. ASSUME RendersOnce PROVE RendersOnce'
    <3>1. SUFFICES ASSUME NEW r \in render', NEW q \in render',
                          q.proc = r.proc \/ (q.host = r.host /\ q.frame = r.frame)
                   PROVE  q = r
      BY DEF RendersOnce
    <3>2. PICK s \in render : r = K(s)
      BY <2>2
    <3>3. PICK v \in render : q = K(v)
      BY <2>2
    <3>4. v = s
      BY <2>3, <2>5, <3>1, <3>2, <3>3 DEF RendersOnce
    <3>. QED  BY <3>2, <3>3, <3>4
  <2>. QED  BY <2>4, <2>5
<1>. QED  BY <1>1, <1>2 DEF RendersKept

TasksMove ==
    \A u \in tasks' :
        \/ u \in tasks
        \/ /\ u.pc # "launch"
           /\ u.pc \in ReportPc => Reported(u.proc)
           /\ TaskInv(u) \/ TaskInv(u)'

\* Such a step brings no booking back on its way.
LEMMA MildMoves ==
  ASSUME TypeInv, Undisturbed, RendersKept, TasksMove,
         UNCHANGED <<wire, net, hw, rebooted>>, report' \subseteq report
  PROVE  /\ Moves
         /\ \A p \in Procs : OffHosts(p) => OffHosts(p)'
<1>0. \A r \in render' : \E s \in render : ComesFrom(r, s)
  BY Signalled
<1>1. \A s \in render : s.cached <=> s.stage # "setup"
  BY DEF Undisturbed, RendersInv, RenderOK
<1> SUFFICES ASSUME NEW p \in Procs
             PROVE  /\ Fresh(p)' => Fresh(p)
                    /\ Starting(p)' => Starting(p)
                    /\ Present(p)' => Present(p)
                    /\ Reported(p)' => Reported(p)
                    /\ Doomed(p) => Doomed(p)'
                    /\ \A f \in Frames : OfFrame(p, f) => OfFrame(p, f)'
                    /\ OffHosts(p) => OffHosts(p)'
  BY DEF Moves
<1>2. Fresh(p)' => Fresh(p)
  BY DEF Fresh, TasksMove
<1>3. Underway(p)' => Underway(p)
  BY <1>0 DEF Underway, ComesFrom
<1>4. Rendered(p)' => Rendered(p)
  BY <1>0 DEF Rendered, ComesFrom
<1>5. Reported(p)' => Reported(p)
  BY DEF Reported, TasksMove
<1>6. Doomed(p) => Doomed(p)'
  BY <1>0 DEF Doomed, ComesFrom
<1>7. \A f \in Frames : OfFrame(p, f) => OfFrame(p, f)'
  BY <1>0 DEF OfFrame, ComesFrom
<1>. QED  BY <1>2, <1>3, <1>4, <1>5, <1>6, <1>7 DEF Starting, Present, OffHosts

\* The attendants, if the step respects the runs that are claimed.
LEMMA MildRenders ==
  ASSUME TypeInv, TypeInv', Undisturbed, RendersKept, RowsKept, RunsKept,
         UNCHANGED <<wire, net, hw, rebooted>>
  PROVE  RendersInv'
<1>1. RendersOnce'
  BY Signalled DEF Undisturbed, RendersInv
<1>2. ASSUME NEW r \in render' PROVE RenderOK(r)'
  <2>1. PICK s \in render : ComesFrom(r, s)
    BY Signalled
  <2>2. RenderOK(s) /\ s.proc \in Procs /\ s.frame \in Frames
    BY Kinds DEF Undisturbed, RendersInv
  <2>3. r.stage = "setup" \/ (Heard /\ r.stage # "dying")
          => Claims(s.proc) /\ Owns(s.proc, s.frame)
    BY <2>1, <2>2 DEF ComesFrom, RenderOK, Claims, Starting, Underway, Doomed
  <2>4. r.stage = "setup" \/ (Heard' /\ r.stage # "dying")
          => Owns(r.proc, r.frame)'
    BY <2>1, <2>2, <2>3 DEF RunsKept, ComesFrom, Owns, Heard
  <2>. QED  BY <2>1, <2>2, <2>4 DEF RenderOK, ComesFrom, RowsKept
<1>. QED  BY <1>1, <1>2 DEF RendersInv

\* Hence the invariant survives it.
LEMMA MildStep ==
  ASSUME ~Stall, RunInv, RunInv', Undisturbed, FramesKept, TasksGood,
         RowsKept, RunsKept, RendersKept, TasksMove,
         \A p \in Procs : proc'[p].old => proc[p].old,
         UNCHANGED <<wire, net, hw, rebooted>>, report' \subseteq report
  PROVE  Undisturbed'
<1>0. TypeInv /\ TypeInv'
  BY DEF RunInv
<1>1. Moves /\ \A p \in Procs : OffHosts(p) => OffHosts(p)'
  BY <1>0, MildMoves
<1>2. HostsInv'
  BY DEF Undisturbed, HostsInv
<1>3. ProcsInv'
  BY <1>1, ProcsStep DEF Undisturbed
<1>4. WireInv'
  <2>1. ASSUME NEW m \in wire
        PROVE  Owns(m.proc, m.frame)' /\ ~Rendered(m.proc)' /\ m.host = proc'[m.proc].host
    <3>1. m.proc \in Procs /\ m.frame \in Frames
      BY <1>0, Kinds
    <3>2. Claims(m.proc)
      BY DEF Claims, Starting, Underway
    <3>3. ~Rendered(m.proc)'
      BY <1>0, Signalled DEF Undisturbed, WireInv, Rendered, ComesFrom
    <3>. QED  BY <3>1, <3>2, <3>3 DEF Undisturbed, WireInv, RunsKept, RowsKept
  <2>. QED  BY <2>1 DEF Undisturbed, WireInv
<1>5. RendersInv'
  BY <1>0, MildRenders
<1>6. LaunchOnce'
  BY DEF Undisturbed, LaunchOnce, TasksMove
<1>7. TasksInv'
  <2>1. ASSUME NEW u \in tasks' PROVE TaskInv(u)'
    <3>1. u \in Task /\ TaskOK(u)' /\ Good(u)
      BY <1>0 DEF TypeInv, TaskOK, TasksGood, RunInv
    <3>2. CASE u \in tasks
      <4>1. TaskInv(u) /\ TaskOK(u)
        BY <1>0, <3>2 DEF Undisturbed, TasksInv, TypeInv
      <4>2. u.pc = "launch" => OffHosts(u.proc)'
        BY <1>1, <4>1 DEF TaskOK, Fits, LaunchPc, TaskInv, Sound, AtLaunch
      <4>3. u.pc = "launch" /\ u.arg = "fresh" => Owns(u.proc, u.frame)'
        BY <3>2, <4>1 DEF TaskOK, Fits, LaunchPc, TaskInv, Sound, AtLaunch,
                          RunsKept, Claims, Starting, Fresh
      <4>. QED  BY <1>0, <1>1, <3>1, <4>1, <4>2, <4>3, SoundKept
    <3>3. CASE u \notin tasks
      <4>1. u.pc # "launch" /\ (TaskInv(u) \/ TaskInv(u)')
        BY <3>3 DEF TasksMove
      <4>. QED  BY <1>0, <1>1, <3>1, <4>1, SoundKept
    <3>. QED  BY <3>2, <3>3
  <2>. QED  BY <2>1 DEF TasksInv
<1>. QED  BY <1>2, <1>3, <1>4, <1>5, <1>6, <1>7 DEF Undisturbed

-----------------------------------------------------------------------------
(* What the statements of such a step do to the runs that are claimed. *)

NoneOlder == \A p \in Procs : proc'[p].old => proc[p].old

\* Nobody who may be rendering f is the one the rows name.
Unclaimed(f) == \A p \in Procs : Claims(p) => ~Owns(p, f)

\* No statement.
LEMMA SameRuns ==
  ASSUME UNCHANGED tables
  PROVE  RowsKept /\ RunsKept /\ NoneOlder
  BY DEF tables, RowsKept, RunsKept, NoneOlder, Owns

\* A delete leaves the rows of the other bookings, and the host of this one.
LEMMA DeletedRow ==
  ASSUME TypeInv, NEW q \in Procs, proc' = DeletedIfThere(q)
  PROVE  RowsKept /\ NoneOlder
<1>1. proc \in [Procs -> ProcRow]
  BY DEF TypeInv, TypeOK, TablesTypeOK
<1>2. CASE DeleteMatches(q)
  <2>1. /\ \A p \in Procs : p # q => proc'[p] = proc[p]
        /\ proc'[q] = [proc[q] EXCEPT !.row = "gone", !.frame = NoFrame, !.old = FALSE]
    BY <1>1, <1>2 DEF DeletedIfThere, Deleted, Gone
  <2>2. /\ proc'[q].row = "gone" /\ proc'[q].host = proc[q].host
        /\ proc'[q].old = FALSE
    BY <1>1, <2>1 DEF ProcRow
  <2>. QED  BY <1>2, <2>1, <2>2 DEF RowsKept, NoneOlder, DeleteMatches
<1>3. CASE ~DeleteMatches(q)
  BY <1>3 DEF DeletedIfThere, RowsKept, NoneOlder
<1>. QED  BY <1>2, <1>3

\* The delete of a booking that is past its render.
LEMMA DeleteRuns ==
  ASSUME TypeInv, NEW q \in Procs, ~Claims(q),
         UNCHANGED frame, proc' = DeletedIfThere(q)
  PROVE  RowsKept /\ RunsKept /\ NoneOlder
<1>1. \A p \in Procs : p # q => proc'[p] = proc[p]
  BY DeletedProcs DEF TypeInv, TypeOK
<1>2. RowsKept /\ NoneOlder
  BY DeletedRow
<1>3. RunsKept
  BY <1>1 DEF RunsKept, Owns
<1>. QED  BY <1>2, <1>3

\* A stop of a frame nobody claims.
LEMMA StopRuns ==
  ASSUME TypeInv, NEW f \in Frames, NEW s \in FrameState, NEW x \in Exit,
         Unclaimed(f), UNCHANGED proc, frame' = Stopped(f, s, x)
  PROVE  RowsKept /\ RunsKept /\ NoneOlder
<1>1. \A g \in Frames : g # f => frame'[g] = frame[g]
  BY StoppedFrame DEF TypeInv, TypeOK
<1>2. RunsKept
  BY <1>1 DEF RunsKept, Owns, Unclaimed
<1>. QED  BY <1>2 DEF RowsKept, NoneOlder

\* Both in one transaction.
LEMMA StopDeleteRuns ==
  ASSUME TypeInv, NEW f \in Frames, NEW s \in FrameState, NEW x \in Exit,
         NEW q \in Procs, ~Claims(q), Unclaimed(f),
         frame' = Stopped(f, s, x), proc' = DeletedIfThere(q)
  PROVE  RowsKept /\ RunsKept /\ NoneOlder
<1>1. \A p \in Procs : p # q => proc'[p] = proc[p]
  BY DeletedProcs DEF TypeInv, TypeOK
<1>2. RowsKept /\ NoneOlder
  BY DeletedRow
<1>3. \A g \in Frames : g # f => frame'[g] = frame[g]
  BY StoppedFrame DEF TypeInv, TypeOK
<1>4. RunsKept
  BY <1>1, <1>3 DEF RunsKept, Owns, Unclaimed
<1>. QED  BY <1>2, <1>4

\* A frame no proc holds is nobody's, and so is one whose booking is past its render.
LEMMA NobodyOn ==
  ASSUME NEW f \in Frames, ProcsOn(f) = {}
  PROVE  Unclaimed(f)
  BY DEF Unclaimed, Owns, ProcsOn

\* Nor does one whose latest booking has given up its claim.
LEMMA PastOwner ==
  ASSUME NEW f \in Frames, ~Claims(frame[f].by)
  PROVE  Unclaimed(f)
  BY DEF Unclaimed, Owns

\* A booking that is not on the hosts and will not be claims nothing.
LEMMA AbsentClaims ==
  ASSUME NEW p, ~Present(p)
  PROVE  ~Claims(p) /\ Doomed(p)
  BY DEF Present, Claims, Doomed, Rendered

-----------------------------------------------------------------------------
(* A thread that moves on in such a step. *)

\* It goes on to its next step,
LEMMA GoesMoves ==
  ASSUME NEW t \in Task, NEW pc, pc # "launch", Goes(t, pc),
         pc \in ReportPc => Reported(t.proc),
         \/ Sound(pc, t.proc, t.frame, t.ver, t.arg, t.why)
         \/ Sound(pc, t.proc, t.frame, t.ver, t.arg, t.why)'
  PROVE  TasksMove
<1>. DEFINE u == [t EXCEPT !.pc = pc]
<1>1. /\ u.pc = pc /\ u.proc = t.proc /\ u.frame = t.frame
      /\ u.ver = t.ver /\ u.arg = t.arg /\ u.why = t.why
  BY DEF Task
<1>2. tasks' = (tasks \ {t}) \cup {u}
  BY DEF Goes
<1>. HIDE DEF u
<1>3. TaskInv(u) \/ TaskInv(u)'
  BY <1>1 DEF TaskInv
<1>. QED  BY <1>1, <1>2, <1>3 DEF TasksMove

\* with something it has learnt,
LEMMA GoesWithMoves ==
  ASSUME NEW t \in Task, NEW pc, NEW a, pc # "launch", GoesWith(t, pc, a),
         pc \in ReportPc => Reported(t.proc),
         \/ Sound(pc, t.proc, t.frame, t.ver, a, t.why)
         \/ Sound(pc, t.proc, t.frame, t.ver, a, t.why)'
  PROVE  TasksMove
<1>. DEFINE u == [t EXCEPT !.pc = pc, !.arg = a]
<1>1. /\ u.pc = pc /\ u.proc = t.proc /\ u.frame = t.frame
      /\ u.ver = t.ver /\ u.arg = a /\ u.why = t.why
  BY DEF Task
<1>2. tasks' = (tasks \ {t}) \cup {u}
  BY DEF GoesWith
<1>. HIDE DEF u
<1>3. TaskInv(u) \/ TaskInv(u)'
  BY <1>1 DEF TaskInv
<1>. QED  BY <1>1, <1>2, <1>3 DEF TasksMove

\* or with a version it has read.
LEMMA GoesAtMoves ==
  ASSUME NEW t \in Task, NEW pc, NEW v, NEW a, pc # "launch", GoesAt(t, pc, v, a),
         pc \in ReportPc => Reported(t.proc),
         Sound(pc, t.proc, t.frame, v, a, t.why)
  PROVE  TasksMove
<1>. DEFINE u == [t EXCEPT !.pc = pc, !.ver = v, !.arg = a]
<1>1. /\ u.pc = pc /\ u.proc = t.proc /\ u.frame = t.frame
      /\ u.ver = v /\ u.arg = a /\ u.why = t.why
  BY DEF Task
<1>2. tasks' = (tasks \ {t}) \cup {u}
  BY DEF GoesAt
<1>. HIDE DEF u
<1>3. TaskInv(u)
  BY <1>1 DEF TaskInv
<1>. QED  BY <1>1, <1>2, <1>3 DEF TasksMove

\* A thread that ends, or threads that a stopping Cuebot takes with it.
LEMMA FewerMoves ==
  ASSUME tasks' \subseteq tasks
  PROVE  TasksMove
  BY DEF TasksMove

Mild ==
    /\ RowsKept /\ RunsKept /\ NoneOlder /\ RendersKept /\ TasksMove
    /\ UNCHANGED <<wire, net, hw, rebooted>> /\ report' \subseteq report

\* Of a launch: all that follows the attempt to send it.
LEMMA LaunchMild ==
  ASSUME RunInv, Undisturbed, NEW t \in tasks, LaunchStep(t),
         ~LaunchAccepted(t), ~LaunchUnknown(t)
  PROVE  Mild
<1>0. /\ TypeInv /\ t \in Task /\ TaskOK(t)
      /\ TaskInv(t) /\ t.pc \notin UserPc /\ t.why # "failedKill"
      /\ AtLaunch(t.pc, t.proc, t.frame, t.arg)
  BY Kinds DEF RunInv, Undisturbed, TasksInv, TaskInv, Sound
<1>1. \A pc \in {"poll2", "unbook", "clear", "kill"} : \A a :
        AtLaunch(pc, t.proc, t.frame, a) =>
          Sound(pc, t.proc, t.frame, t.ver, a, t.why)
  BY <1>0 DEF Sound, AtStop, AtLost, SweepPc, LostPc, UserPc
<1>2. CASE LaunchUnsent(t) \/ LaunchRefused(t)
  <2>1. ~Present(t.proc)'
    <3>0. t.pc = "launch"
      BY <1>2 DEF LaunchUnsent, LaunchRefused
    <3>1. \A a : [t EXCEPT !.pc = "unbook", !.arg = a].pc = "unbook"
      BY <1>0 DEF Task
    <3>2. \A v \in tasks' : v.pc = "launch" => v \in tasks /\ v # t
      BY <1>2, <3>1 DEF LaunchUnsent, LaunchRefused, GoesWith
    <3>3. ~Fresh(t.proc)'
      BY <1>0, <3>0, <3>2 DEF Fresh, Undisturbed, LaunchOnce, AtLaunch
    <3>4. OffHosts(t.proc)'
      BY <1>0, <1>2 DEF LaunchUnsent, LaunchRefused, AtLaunch, OffHosts, Underway,
                        Rendered, rqdVars
    <3>. QED  BY <3>3, <3>4 DEF OffHosts, Present, Starting
  <2>2. \A a : Sound("unbook", t.proc, t.frame, t.ver, a, t.why)'
    BY <1>0, <2>1 DEF Sound, AtLaunch, AtStop, AtLost, SweepPc, LostPc, UserPc
  <2>3. TasksMove
    BY <1>0, <1>2, <2>2, GoesWithMoves DEF LaunchUnsent, LaunchRefused, ReportPc
  <2>. QED  BY <1>2, <2>3, SameRuns
            DEF Mild, LaunchUnsent, LaunchRefused, RendersKept, rqdVars
<1>3. CASE ConfirmPoll(t)
  <2>1. AtLaunch("poll2", t.proc, t.frame, t.arg) /\ ~Fresh(t.proc)
    BY <1>0, <1>3 DEF ConfirmPoll, AtLaunch
  <2>2. ASSUME t.pc = "poll2", PollNotFound(HostOf(t), t.frame)
        PROVE  ~Present(t.proc)
    <3>1. ASSUME NEW r \in render, r.proc = t.proc PROVE FALSE
      <4>1. RenderOK(r) /\ r.frame = t.frame
        BY <2>1, <3>1 DEF Undisturbed, RendersInv, AtLaunch, OfFrame
      <4>2. r.stage # "setup"
        BY <1>3, <2>2, <3>1 DEF ConfirmPoll, Underway
      <4>. QED  BY <2>2, <3>1, <4>1, <4>2
                DEF RenderOK, PollNotFound, InCache, HostOf
    <3>. QED  BY <1>3, <2>1, <2>2, <3>1 DEF ConfirmPoll, Present, Starting, Rendered
  <2>3. TasksMove
    <3>1. CASE t.pc = "poll1" /\ Goes(t, "poll2")
      BY <1>0, <1>1, <2>1, <3>1, GoesMoves DEF ReportPc
    <3>2. CASE t.pc = "poll2" /\ PollNotFound(HostOf(t), t.frame)
                 /\ GoesWith(t, "unbook", "unsent")
      <4>1. AtLaunch("unbook", t.proc, t.frame, "unsent")
        BY <2>2, <3>2 DEF AtLaunch
      <4>. QED  BY <1>0, <1>1, <3>2, <4>1, GoesWithMoves DEF ReportPc
    <3>3. CASE Done(t)
      BY <3>3, FewerMoves DEF Done
    <3>. QED  BY <1>3, <3>1, <3>2, <3>3 DEF ConfirmPoll
  <2>. QED  BY <1>3, <2>3, SameRuns DEF Mild, ConfirmPoll, RendersKept, rqdVars
<1>4. CASE RollbackUnbook(t)
  <2>1. ~Present(t.proc) /\ t.proc \in Procs
    BY <1>0, <1>4 DEF RollbackUnbook, AtLaunch, TaskOK, Fits, LaunchPc
  <2>2. AtLaunch("clear", t.proc, t.frame, t.arg)
    BY <2>1 DEF AtLaunch
  <2>3. TasksMove
    BY <1>0, <1>1, <1>4, <2>2, GoesMoves DEF RollbackUnbook, ReportPc
  <2>. QED  BY <1>0, <1>4, <2>1, <2>3, AbsentClaims, DeleteRuns
            DEF Mild, RollbackUnbook, RendersKept, rqdVars
<1>5. CASE RollbackClear(t)
  <2>1. t.frame \in Frames
    BY <1>0, <1>5 DEF RollbackClear, TaskOK, Fits
  <2>2. RowsKept /\ RunsKept /\ NoneOlder
    <3>1. CASE ClearMatches(t.frame, t.ver)
      BY <1>0, <1>5, <2>1, <3>1, NobodyOn, StopRuns
         DEF RollbackClear, ClearMatches, Cleared, FrameState, Exit
    <3>2. CASE ~ClearMatches(t.frame, t.ver)
      BY <1>5, <3>2, SameRuns DEF RollbackClear, tables
    <3>. QED  BY <3>1, <3>2
  <2>3. TasksMove
    <3>1. AtLaunch("kill", t.proc, t.frame, t.arg)
      BY DEF AtLaunch
    <3>. QED  BY <1>0, <1>1, <1>5, <3>1, GoesMoves, FewerMoves
              DEF RollbackClear, ReportPc, Done
  <2>. QED  BY <1>5, <2>2, <2>3 DEF Mild, RollbackClear, RendersKept, rqdVars
<1>6. CASE BestEffortKill(t)
  BY <1>6, SameRuns, FewerMoves DEF Mild, BestEffortKill, RendersKept, Done, tables
<1>. QED  BY <1>2, <1>3, <1>4, <1>5, <1>6 DEF LaunchStep

\* Of a report: the booking it is about has rendered.
LEMMA ReportMild ==
  ASSUME ~Stall, RunInv, Undisturbed, NEW t \in tasks, ReportStep(t)
  PROVE  Mild
<1>0. /\ TypeInv /\ t \in Task /\ TaskOK(t) /\ Good(t)
      /\ t.pc \notin UserPc /\ t.why # "failedKill"
      /\ AtStop(t.pc, t.frame, t.ver)
      /\ t.pc \in ReportPc /\ t.proc \in Procs /\ t.frame \in Frames
  BY Kinds DEF RunInv, Undisturbed, TasksInv, TaskInv, Sound, ReportStep,
     ResolveFrame, DrainStop, StaleRead, StaleRelease, FinalRead, FinalNoProc,
     FinalStop, ReportPc, TaskOK, Fits
<1>1. Reported(t.proc) /\ ~Claims(t.proc)
  <2>1. Reported(t.proc)
    BY <1>0 DEF Reported
  <2>. QED  BY <1>0, <2>1, AbsentClaims DEF Undisturbed, ProcsInv, ProcInv
<1>2. \A pc \in {"drain", "stale", "stale2", "final2"} : \A v, a :
        Sound(pc, t.proc, t.frame, v, a, t.why)
  BY <1>0 DEF Sound, AtLaunch, AtStop, AtLost, SweepPc, LostPc, UserPc
<1>3. CASE ResolveFrame(t)
  BY <1>0, <1>3 DEF ResolveFrame, Good, About
<1>4. CASE DrainStop(t)
  <2>1. CASE StopMatches(t.frame, t.ver)
    <3>1. frame[t.frame].by = t.proc
      BY <1>0, <1>4, <2>1 DEF DrainStop, StopMatches, Good, About, OwnPc
    <3>2. RowsKept /\ RunsKept /\ NoneOlder
      BY <1>0, <1>1, <1>4, <2>1, <3>1, PastOwner, StopDeleteRuns
         DEF DrainStop, TaskOK, Fits, Exit
    <3>. QED  BY <1>4, <2>1, <3>2, FewerMoves
              DEF Mild, DrainStop, Done, RendersKept, rqdVars
  <2>2. CASE ~StopMatches(t.frame, t.ver)
    BY <1>0, <1>1, <1>2, <1>4, <2>2, SameRuns, GoesMoves
       DEF Mild, DrainStop, RendersKept, rqdVars
  <2>. QED  BY <2>1, <2>2
<1>5. CASE StaleRead(t)
  BY <1>0, <1>1, <1>2, <1>5, SameRuns, GoesMoves, FewerMoves
     DEF Mild, StaleRead, Done, RendersKept, rqdVars
<1>6. CASE StaleRelease(t)
  BY <1>0, <1>1, <1>6, DeleteRuns, FewerMoves
     DEF Mild, StaleRelease, Done, RendersKept, rqdVars
<1>7. CASE FinalRead(t)
  BY <1>0, <1>1, <1>2, <1>7, SameRuns, GoesAtMoves, FewerMoves
     DEF Mild, FinalRead, Done, RendersKept, rqdVars
<1>8. CASE FinalNoProc(t)
  <2>1. ProcsOn(t.frame) = {} =>
          Sound("final3", t.proc, t.frame, t.ver, t.arg, t.why)
    BY <1>0 DEF Sound, AtLaunch, AtStop, AtLost, LostPc, UserPc
  <2>. QED  BY <1>0, <1>1, <1>8, <2>1, SameRuns, GoesMoves, FewerMoves
            DEF Mild, FinalNoProc, Done, RendersKept, rqdVars
<1>9. CASE FinalStop(t)
  <2>1. CASE StopMatches(t.frame, t.ver)
    <3>1. ProcsOn(t.frame) = {}
      BY <1>0, <1>9, <2>1 DEF FinalStop, AtStop
    <3>2. proc' = [p \in Procs |-> proc[p]]
      BY <1>9, <2>1, <3>1 DEF FinalStop, Unassigned
    <3>3. proc' = proc
      BY <1>0, <3>2 DEF TypeInv, TypeOK, TablesTypeOK
    <3>4. RowsKept /\ RunsKept /\ NoneOlder
      BY <1>0, <1>9, <2>1, <3>1, <3>3, NobodyOn, StopRuns
         DEF FinalStop, TaskOK, Fits, Exit
    <3>. QED  BY <1>9, <3>4, FewerMoves
              DEF Mild, FinalStop, Done, RendersKept, rqdVars
  <2>2. CASE ~StopMatches(t.frame, t.ver)
    BY <1>9, <2>2, SameRuns, FewerMoves
       DEF Mild, FinalStop, Done, RendersKept, rqdVars
  <2>. QED  BY <2>1, <2>2
<1>. QED  BY <1>3, <1>4, <1>5, <1>6, <1>7, <1>8, <1>9 DEF ReportStep

\* A kill that lostProc sends to a host that answers dooms what the booking
\* renders there; one that cannot be sent does, when only a dead host is silent.
LEMMA LostKillDooms ==
  ASSUME RunInv, Undisturbed, NEW t \in tasks, LostKill(t),
         Reach(HostOf(t)) \/ Heard
  PROVE  Doomed(t.proc)'
<1>0. /\ TypeInv /\ TaskOK(t) /\ t.proc \in Procs
      /\ AtLost(t.pc, t.proc, t.frame, t.ver, t.arg, t.why) /\ t.pc = "lostKill"
  BY Kinds DEF RunInv, Undisturbed, TasksInv, TaskInv, Sound, LostKill, TaskOK, Fits,
               LostPc
<1>1. /\ "lostProc" \in Actors /\ OfFrame(t.proc, t.frame) /\ ~Starting(t.proc)
      /\ proc[t.proc].row # "unused"
  BY <1>0 DEF AtLost, LostPc
<1>2. ASSUME NEW r \in render', r.proc = t.proc PROVE r.stage = "dying"
  <2>1. PICK s \in render : ComesFrom(r, s)
    BY <1>0, Signalled DEF LostKill, RendersKept
  <2>2. RenderOK(s) /\ s.proc = t.proc /\ s \in Render /\ r \in render'
    BY <1>0, <1>2, <2>1, Kinds DEF Undisturbed, RendersInv, ComesFrom
  <2>3. s.stage # "setup" /\ s.frame = t.frame /\ s.host = HostOf(t) /\ s.cached
    BY <1>1, <2>2 DEF Starting, Underway, OfFrame, RenderOK, HostOf
  <2>4. CASE Reach(HostOf(t))
    <3>1. PICK z \in render :
            r = IF Reach(HostOf(t)) /\ z.host = HostOf(t) /\ z.frame = t.frame
                     /\ z.cached
                  THEN [z EXCEPT !.stage = "dying"] ELSE z
      BY <1>2 DEF LostKill, KilledRenders
    <3>2. z \in Render /\ z.proc = t.proc
      BY <1>0, <1>2, <3>1, Kinds DEF Render
    <3>3. z = s
      BY <2>2, <3>2 DEF Undisturbed, RendersInv, RendersOnce
    <3>. QED  BY <2>3, <2>4, <3>1, <3>2, <3>3 DEF Render
  <2>5. CASE ~Reach(HostOf(t)) /\ Heard
    <3>1. HostOf(t) \in Hosts /\ net[HostOf(t)] # "dead" /\ net[HostOf(t)] # "cut"
      BY <1>0, <1>1, <2>2, <2>3, <2>5
         DEF RenderOK, Undisturbed, HostsInv, Heard, HostOf, Render
    <3>. QED  BY <1>0, <2>5, <3>1 DEF Reach, TypeInv, TypeOK, RqdTypeOK
  <2>. QED  BY <2>4, <2>5
<1>. QED  BY <1>2 DEF Doomed

\* Of lostProc: the booking it is about will not start, and is doomed once the
\* kill is confirmed.
LEMMA LostMild ==
  ASSUME ~Stall, RunInv, Undisturbed, NEW t \in tasks, LostStep(t)
  PROVE  Mild
<1>0. /\ TypeInv /\ t \in Task /\ TaskOK(t) /\ Good(t) /\ HolderStartedRun
      /\ t.pc \notin UserPc /\ t.why # "failedKill"
      /\ AtLost(t.pc, t.proc, t.frame, t.ver, t.arg, t.why)
      /\ t.pc \in LostPc /\ t.proc \in Procs /\ t.frame \in Frames
  BY Kinds DEF RunInv, Undisturbed, TasksInv, TaskInv, Sound, LostStep,
     LostKill, LostDecide, LostUnbook, LostRead, LostStop, LostDetail,
     LostHostDown, LostPc, TaskOK, Fits, AtLost
<1>1. /\ "lostProc" \in Actors /\ OfFrame(t.proc, t.frame) /\ ~Starting(t.proc)
      /\ proc[t.proc].row # "unused" /\ t.pc # "lostRead"
      /\ proc[t.proc].row = "live" => proc[t.proc].frame = t.frame
      /\ t.why = "down" => ~Present(t.proc)
  BY <1>0 DEF AtLost
<1>2. \A pc \in LostPc : \A v, a :
        AtLost(pc, t.proc, t.frame, v, a, t.why) =>
          Sound(pc, t.proc, t.frame, v, a, t.why)
  BY <1>0 DEF Sound, AtLaunch, AtStop, SweepPc, LostPc, UserPc
<1>3. CASE LostKill(t)
  <2>1. RendersKept /\ UNCHANGED wire /\ UNCHANGED tables
    BY <1>3 DEF LostKill, RendersKept
  <2>2. \A r \in render' : \E s \in render : ComesFrom(r, s)
    BY <1>0, <2>1, Signalled
  <2>3. OfFrame(t.proc, t.frame)' /\ ~Underway(t.proc)'
    BY <1>1, <2>1, <2>2 DEF OfFrame, Underway, Starting, ComesFrom
  <2>4. t.why = "down" => ~Rendered(t.proc)'
    BY <1>1, <2>2 DEF Present, Rendered, ComesFrom
  <2>5. ASSUME NEW pc \in {"lostUnbook", "lostDecide"}, Goes(t, pc),
               pc = "lostUnbook" => Reach(HostOf(t))
        PROVE  TasksMove
    <3>1. [t EXCEPT !.pc = pc].pc = pc
      BY <1>0 DEF Task
    <3>2. ~Fresh(t.proc)'
      BY <1>1, <2>5, <3>1 DEF Fresh, Starting, Goes
    <3>3. pc = "lostUnbook" \/ Heard => Doomed(t.proc)'
      BY <1>3, <2>5, LostKillDooms
    <3>4. AtLost(pc, t.proc, t.frame, t.ver, t.arg, t.why)'
      BY <1>0, <1>1, <2>1, <2>3, <2>4, <2>5, <3>2, <3>3
         DEF AtLost, Starting, Present, Heard, tables
    <3>5. Sound(pc, t.proc, t.frame, t.ver, t.arg, t.why)'
      BY <1>0, <3>4 DEF Sound, AtLaunch, AtStop, SweepPc, LostPc, UserPc
    <3>. QED  BY <1>0, <2>5, <3>5, GoesMoves DEF ReportPc
  <2>6. TasksMove
    BY <1>3, <2>5 DEF LostKill
  <2>. QED  BY <1>3, <2>1, <2>6, SameRuns DEF Mild, LostKill
<1>4. CASE LostDecide(t)
  <2>1. Heard => Doomed(t.proc)
    BY <1>0, <1>4 DEF LostDecide, AtLost
  <2>2. HostConfirmedDead(t) => Doomed(t.proc)
    <3>1. t.why = "down" \/ t.proc \in rebooted => ~Present(t.proc)
      BY <1>0, <1>1 DEF Undisturbed, ProcsInv, ProcInv
    <3>2. ASSUME hw[HostOf(t)] # "UP" PROVE Doomed(t.proc)
      <4>1. HostOf(t) \in Hosts
        BY <1>0, <1>1 DEF HostOf, TypeInv, HostsKnown
      <4>2. net[HostOf(t)] = "dead"
        BY <1>0, <3>2, <4>1 DEF Undisturbed, HostsInv, TypeInv, TypeOK, RqdTypeOK
      <4>. QED  BY <4>2 DEF Doomed, Undisturbed, RendersInv, RenderOK, HostOf
    <3>. QED  BY <3>1, <3>2, AbsentClaims DEF HostConfirmedDead
  <2>3. Doomed(t.proc) => Sound("lostUnbook", t.proc, t.frame, t.ver, t.arg, t.why)
    BY <1>0, <1>1, <1>2 DEF AtLost, LostPc
  <2>4. Sound("lostUnbook", t.proc, t.frame, t.ver, "DEAD", t.why)
    BY <1>0, <1>1, <1>2, <2>1 DEF AtLost, LostPc
  <2>5. TasksMove
    BY <1>0, <1>4, <2>2, <2>3, <2>4, GoesMoves, GoesWithMoves, FewerMoves
       DEF LostDecide, Done, ReportPc
  <2>. QED  BY <1>4, <2>5, SameRuns DEF Mild, LostDecide, RendersKept, rqdVars
<1>5. CASE LostUnbook(t)
  <2>0. Heard => Doomed(t.proc)
    BY <1>0, <1>5 DEF LostUnbook, AtLost
  <2>1. ~Claims(t.proc)
    BY <1>1, <2>0 DEF Claims
  <2>2. RowsKept /\ RunsKept /\ NoneOlder
    BY <1>0, <1>5, <2>1, DeleteRuns DEF LostUnbook
  <2>3. TasksMove
    <3>1. CASE DeleteMatches(t.proc)
      <4>1. frame[t.frame].by = t.proc
        BY <1>0, <1>1, <3>1, NullAssumption DEF DeleteMatches, HolderStartedRun
      <4>2. Sound("lostStop", t.proc, t.frame, frame[t.frame].ver, t.arg, t.why)
        BY <1>0, <1>2, <1>5, <4>1 DEF LostUnbook, AtLost, LostPc
      <4>. QED  BY <1>0, <1>5, <3>1, <4>2, NullAssumption, GoesAtMoves
                DEF LostUnbook, ReportPc
    <3>2. CASE ~DeleteMatches(t.proc)
      BY <1>5, <3>2, FewerMoves DEF LostUnbook, Done
    <3>. QED  BY <3>1, <3>2
  <2>. QED  BY <1>5, <2>2, <2>3 DEF Mild, LostUnbook, RendersKept, rqdVars
<1>6. CASE LostRead(t)
  BY <1>1, <1>6 DEF LostRead
<1>7. CASE LostStop(t)
  <2>1. RowsKept /\ RunsKept /\ NoneOlder
    <3>1. CASE StopMatches(t.frame, t.ver)
      <4>1. frame[t.frame].by = t.proc /\ (Heard => Doomed(t.proc))
        BY <1>0, <1>7, <3>1 DEF LostStop, AtLost, StopMatches
      <4>2. ~Claims(frame[t.frame].by)
        BY <1>1, <4>1 DEF Claims
      <4>. QED  BY <1>0, <1>7, <3>1, <4>2, PastOwner, StopRuns
                DEF LostStop, TaskOK, Fits, Exit
    <3>2. CASE ~StopMatches(t.frame, t.ver)
      BY <1>7, <3>2, SameRuns DEF LostStop, tables
    <3>. QED  BY <3>1, <3>2
  <2>2. Sound("lostDetail", t.proc, t.frame, t.ver, t.arg, t.why)
    BY <1>0, <1>2, <1>7 DEF LostStop, AtLost, LostPc
  <2>3. TasksMove
    BY <1>0, <1>7, <2>2, GoesMoves, FewerMoves DEF LostStop, Done, ReportPc
  <2>. QED  BY <1>7, <2>1, <2>3 DEF Mild, LostStop, RendersKept, rqdVars
<1>8. CASE LostDetail(t)
  <2>1. Sound("lostHostDown", t.proc, t.frame, t.ver, t.arg, t.why)
    BY <1>0, <1>2, <1>8 DEF LostDetail, AtLost, LostPc
  <2>2. TasksMove
    BY <1>0, <1>8, <2>1, GoesMoves, FewerMoves DEF LostDetail, Done, ReportPc
  <2>. QED  BY <1>8, <2>2, SameRuns DEF Mild, LostDetail, RendersKept, rqdVars
<1>9. CASE LostHostDown(t)
  <2>1. RowsKept /\ RunsKept /\ NoneOlder
    <3>1. CASE HostDownMatches(t.frame)
      BY <1>0, <1>9, <3>1, NobodyOn, StopRuns
         DEF LostHostDown, HostDownMatches, HostDowned, FrameState, Exit
    <3>2. CASE ~HostDownMatches(t.frame)
      BY <1>9, <3>2, SameRuns DEF LostHostDown, tables
    <3>. QED  BY <3>1, <3>2
  <2>. QED  BY <1>9, <2>1, FewerMoves
            DEF Mild, LostHostDown, Done, RendersKept, rqdVars
<1>. QED  BY <1>3, <1>4, <1>5, <1>6, <1>7, <1>8, <1>9 DEF LostStep

\* Of the sweep: no proc holds the frame at the version it has read.
LEMMA SweepMild ==
  ASSUME RunInv, Undisturbed, NEW t \in tasks, SweepStep(t)
  PROVE  Mild
<1>0. /\ TypeInv /\ t \in Task /\ TaskOK(t)
      /\ t.pc \notin UserPc /\ t.why # "failedKill"
      /\ AtStop(t.pc, t.frame, t.ver)
      /\ t.pc \in SweepPc /\ t.frame \in Frames
  BY Kinds DEF RunInv, Undisturbed, TasksInv, TaskInv, Sound, SweepStep,
     OrphanCheck, OrphanKill, OrphanPoll, OrphanReset, SweepPc, TaskOK, Fits
<1>1. \A pc \in SweepPc : \A a : Sound(pc, t.proc, t.frame, t.ver, a, t.why)
  BY <1>0 DEF Sound, AtLaunch, AtStop, AtLost, SweepPc, LostPc, UserPc
<1>2. CASE OrphanCheck(t) \/ OrphanPoll(t)
  <2>1. TasksMove
    BY <1>0, <1>1, <1>2, GoesMoves, GoesWithMoves, FewerMoves
       DEF OrphanCheck, OrphanPoll, Done, SweepPc, ReportPc
  <2>. QED  BY <1>2, <2>1, SameRuns
            DEF Mild, OrphanCheck, OrphanPoll, RendersKept, rqdVars
<1>3. CASE OrphanKill(t)
  <2>1. TasksMove
    BY <1>0, <1>1, <1>3, GoesMoves DEF OrphanKill, SweepPc, ReportPc
  <2>. QED  BY <1>3, <2>1, SameRuns DEF Mild, OrphanKill, RendersKept
<1>4. CASE OrphanReset(t)
  <2>1. RowsKept /\ RunsKept /\ NoneOlder
    <3>1. CASE StopMatches(t.frame, t.ver)
      BY <1>0, <1>4, <3>1, NobodyOn, StopRuns
         DEF OrphanReset, AtStop, TaskOK, Fits, Exit
    <3>2. CASE ~StopMatches(t.frame, t.ver)
      BY <1>4, <3>2, SameRuns DEF OrphanReset, tables
    <3>. QED  BY <3>1, <3>2
  <2>. QED  BY <1>4, <2>1, FewerMoves
            DEF Mild, OrphanReset, Done, RendersKept, rqdVars
<1>. QED  BY <1>2, <1>3, <1>4 DEF SweepStep

\* Of what no thread does, or what starts one.
LEMMA LostStartMild ==
  ASSUME RunInv, Undisturbed, NEW p \in Procs, NEW why \in {"orphan", "down"},
         LostStart(p, why)
  PROVE  Mild
<1>0. /\ TypeInv /\ ProcInv(p) /\ HostsInv /\ proc[p].row = "live"
      /\ proc[p].frame \in Frames \cup {NoFrame} /\ proc[p].host \in Hosts
  BY DEF RunInv, TypeInv, TypeOK, TablesTypeOK, ProcRow, HostsKnown, Undisturbed,
         ProcsInv, LostStart
<1>1. proc[p].frame \in Frames
  BY <1>0 DEF ProcInv
<1>2. why = "down" => ~Present(p)
  <2>1. SUFFICES ASSUME why = "down" PROVE ~Present(p)
    OBVIOUS
  <2>2. net[proc[p].host] = "dead" /\ ~Fresh(p)
    BY <1>0, <2>1 DEF LostStart, HostsInv, ProcInv
  <2>. QED  BY <2>2 DEF Present, Starting, Underway, Rendered, Undisturbed, WireInv,
                        RendersInv, RenderOK
<1>3. why = "orphan" => ~Starting(p)
  BY <1>0 DEF LostStart, OrphanedProcs, ProcInv
<1>4. OfFrame(p, proc[p].frame)
  BY <1>0 DEF OfFrame, Undisturbed, WireInv, Owns, RendersInv, RenderOK
<1>5. Sound("lostKill", p, proc[p].frame, 0, "WAITING", why)
  BY <1>0, <1>1, <1>2, <1>3, <1>4
     DEF Sound, AtLaunch, AtStop, AtLost, LostStart, Present, SweepPc, UserPc
<1>6. TasksMove
  BY <1>1, <1>5, NullAssumption DEF LostStart, NewTask, TasksMove, TaskInv, ReportPc
<1>. QED  BY <1>6, SameRuns DEF Mild, LostStart, RendersKept, rqdVars

\* Steps of no thread that was running before.
LEMMA OtherMild ==
  ASSUME RunInv, Undisturbed,
         \/ \E f \in Frames : OrphanFound(f)
         \/ \E p \in Procs : Ping(p)
         \/ \E r \in render : VerifyKill(r)
         \/ \E m \in report : ReportLost(m) /\ UNCHANGED <<tables, tasks>>
         \/ CuebotStops
         \/ UNCHANGED vars
  PROVE  Mild
<1>0. TypeInv
  BY DEF RunInv
<1>1. ASSUME NEW f \in Frames, OrphanFound(f) PROVE Mild
  <2>1. Sound("orphanCheck", frame[f].by, f, frame[f].ver, "-", "-")
    BY <1>1 DEF Sound, AtLaunch, AtStop, AtLost, OrphanFound, IsOrphan, LostPc, UserPc
  <2>2. TasksMove
    BY <1>1, <2>1 DEF OrphanFound, NewTask, TasksMove, TaskInv, ReportPc
  <2>. QED  BY <1>1, <2>2, SameRuns DEF Mild, OrphanFound, RendersKept, rqdVars
<1>2. ASSUME NEW p \in Procs, Ping(p) PROVE Mild
  <2>1. proc[p].frame \in Frames
    BY <1>0, <1>2 DEF Ping, Pinged, TypeInv, TypeOK, RqdTypeOK, Render
  <2>2. /\ \A q \in Procs : /\ proc'[q].row = proc[q].row
                            /\ proc'[q].frame = proc[q].frame
                            /\ proc'[q].host = proc[q].host
        /\ \A q \in Procs : q # p => proc'[q] = proc[q]
        /\ proc'[p].old = FALSE
    BY <1>0, <1>2 DEF Ping, TypeInv, TypeOK, TablesTypeOK, ProcRow
  <2>3. \A g \in Frames : frame'[g].state = frame[g].state /\ frame'[g].by = frame[g].by
    BY <1>0, <1>2, <2>1, AgedFrame DEF Ping
  <2>. QED  BY <1>2, <2>2, <2>3, FewerMoves
            DEF Mild, Ping, RowsKept, RunsKept, NoneOlder, Owns, RendersKept, rqdVars
<1>3. ASSUME NEW r \in render, VerifyKill(r) PROVE Mild
  BY <1>3, SameRuns, FewerMoves DEF Mild, VerifyKill, RendersKept
<1>4. ASSUME NEW m \in report, ReportLost(m), UNCHANGED <<tables, tasks>> PROVE Mild
  BY <1>4, SameRuns, FewerMoves DEF Mild, ReportLost, RendersKept
<1>5. CASE CuebotStops
  BY <1>5, SameRuns, FewerMoves DEF Mild, CuebotStops, RendersKept, rqdVars
<1>6. CASE UNCHANGED vars
  BY <1>6, SameRuns, FewerMoves DEF Mild, vars, RendersKept, rqdVars
<1>. QED  BY <1>1, <1>2, <1>3, <1>4, <1>5, <1>6

\* A report that arrives is from a booking that has rendered.
LEMMA ReportArrivesMild ==
  ASSUME ~Stall, RunInv, Undisturbed, NEW m \in report, ReportArrives(m)
  PROVE  Mild
<1>1. Reported(m.proc)
  BY DEF Reported
<1>2. \A pc \in {"drain", "final", "stale"} : \A v, a :
        Sound(pc, m.proc, m.frame, v, a, "-")
  BY DEF Sound, AtLaunch, AtStop, AtLost, SweepPc, LostPc, UserPc
<1>3. \A pc \in {"drain", "final", "stale"} : \A v, a :
        /\ TaskInv(NewTask(pc, m.proc, m.frame, v, a, "-"))
        /\ NewTask(pc, m.proc, m.frame, v, a, "-").pc = pc
        /\ NewTask(pc, m.proc, m.frame, v, a, "-").proc = m.proc
  BY <1>2 DEF NewTask, TaskInv
<1>4. TasksMove
  BY <1>1, <1>3 DEF ReportArrives, TasksMove
<1>. QED  BY <1>4, SameRuns DEF Mild, ReportArrives, RendersKept

-----------------------------------------------------------------------------
(* The steps that take a booking further, one by one.  The parts of the      *)
(* invariant about rows and threads follow from Moves.                      *)

\* The threads, when the step leaves each where it was.
LEMMA TasksStay ==
  ASSUME ~Stall, RunInv, RunInv', Undisturbed, Moves, FramesKept, RowsKept, RunsKept,
         tasks' \subseteq tasks,
         \A t \in tasks' : t.pc = "launch" => OffHosts(t.proc)'
  PROVE  TasksInv' /\ LaunchOnce'
<1>1. ASSUME NEW u \in tasks' PROVE TaskInv(u)'
  <2>1. u \in tasks /\ TaskInv(u) /\ Good(u) /\ TaskOK(u) /\ TypeInv'
    BY DEF Undisturbed, TasksInv, RunInv, TypeInv
  <2>2. u.pc = "launch" /\ u.arg = "fresh" => Owns(u.proc, u.frame)'
    BY <2>1 DEF TaskOK, Fits, LaunchPc, TaskInv, Sound, AtLaunch, RunsKept, Claims,
                Starting, Fresh
  <2>. QED  BY <2>1, <2>2, SoundKept
<1>. QED  BY <1>1 DEF TasksInv, Undisturbed, LaunchOnce

\* The rows, when no statement is made and no host changes.
LEMMA ProcsStay ==
  ASSUME Undisturbed, Moves, UNCHANGED <<proc, hw, rebooted>>
  PROVE  ProcsInv'
  BY ProcsStep DEF Undisturbed, RowsKept

\* A frame has one booking that may start on it.
LEMMA OneOwner ==
  ASSUME NEW p, NEW q, NEW f, Owns(p, f), Owns(q, f)
  PROVE  p = q
  BY DEF Owns

\* An attendant that is let in is the only one of its booking and, since a frame
\* in the cache is refused, of its frame on its host.
LEMMA Admitted ==
  ASSUME TypeInv, Undisturbed, NEW p \in Procs, NEW f \in Frames, NEW h,
         h = proc[p].host, net[h] # "dead", ~InCache(h, f), ~Rendered(p), Owns(p, f),
         UNCHANGED <<tables, net>>,
         render' = render \cup {Attendant(p, f, h)}
  PROVE  RendersInv'
<1>. DEFINE a == Attendant(p, f, h)
<1>1. a.proc = p /\ a.frame = f /\ a.host = h /\ a.stage = "setup" /\ a.cached = FALSE
  BY DEF Attendant
<1>2. render' = render \cup {a}
  OBVIOUS
<1>. HIDE DEF a
<1>3. ASSUME NEW s \in render, s.proc = p \/ (s.host = h /\ s.frame = f) PROVE FALSE
  <2>1. RenderOK(s) /\ s.proc # p
    BY <1>3 DEF Undisturbed, RendersInv, Rendered
  <2>2. s.stage = "setup"
    BY <1>3, <2>1 DEF RenderOK, InCache
  <2>. QED  BY <1>3, <2>1, <2>2, OneOwner DEF RenderOK
<1>4. RendersOnce'
  BY <1>1, <1>2, <1>3 DEF Undisturbed, RendersInv, RendersOnce
<1>5. \A r \in render : RenderOK(r)'
  BY DEF Undisturbed, RendersInv, RenderOK, Owns, tables, Heard
<1>6. RenderOK(a)'
  BY <1>1 DEF RenderOK, Owns, tables
<1>. QED  BY <1>2, <1>4, <1>5, <1>6 DEF RendersInv

\* RQD takes a launch.
LEMMA LaunchAcceptedStep ==
  ASSUME ~Stall, RunInv, RunInv', Undisturbed, NEW t \in tasks, LaunchAccepted(t)
  PROVE  Undisturbed'
<1>0. /\ TypeInv /\ t.proc \in Procs /\ t.frame \in Frames
      /\ OffHosts(t.proc) /\ Owns(t.proc, t.frame)
      /\ t.pc = "launch" /\ t.arg = "fresh"
  BY Kinds DEF RunInv, Undisturbed, TasksInv, TaskInv, Sound, AtLaunch, LaunchAccepted,
               TaskOK, Fits, LaunchPc
<1>. DEFINE a == Attendant(t.proc, t.frame, HostOf(t))
<1>1. /\ a.proc = t.proc /\ a.frame = t.frame /\ a.stage = "setup"
      /\ render' = render \cup {a} /\ tasks' = tasks \ {t}
      /\ UNCHANGED <<tables, wire, report, net, hw, rebooted>>
  BY DEF LaunchAccepted, Attendant, Done
<1>. HIDE DEF a
<1>2. FramesKept /\ RowsKept /\ RunsKept
  BY <1>1, SameRows, SameRuns
<1>3. \A u \in tasks' : u.pc = "launch" => u.proc # t.proc
  BY <1>0, <1>1 DEF Undisturbed, LaunchOnce
<1>4. Fresh(t.proc) /\ ~Fresh(t.proc)'
  BY <1>0, <1>3 DEF Fresh
<1>5. Moves
  <2>1. ASSUME NEW p \in Procs, p # t.proc
        PROVE  /\ Fresh(p)' => Fresh(p)
               /\ Underway(p)' <=> Underway(p)
               /\ Rendered(p)' <=> Rendered(p)
               /\ Reported(p)' => Reported(p)
               /\ Doomed(p) => Doomed(p)'
               /\ \A f \in Frames : OfFrame(p, f) => OfFrame(p, f)'
    BY <1>1, <2>1 DEF Fresh, Underway, Rendered, Reported, Doomed, OfFrame
  <2>2. Reported(t.proc)' => Reported(t.proc)
    BY <1>1 DEF Reported
  <2>. QED  BY <1>4, <2>1, <2>2 DEF Moves, Starting, Present
<1>6. \A u \in tasks' : u.pc = "launch" => OffHosts(u.proc)'
  <2>1. ASSUME NEW u \in tasks', u.pc = "launch" PROVE OffHosts(u.proc)'
    <3>1. u.proc # t.proc /\ OffHosts(u.proc)
      BY <1>1, <1>3, <2>1 DEF Undisturbed, TasksInv, TaskInv, Sound, AtLaunch
    <3>. QED  BY <1>1, <3>1 DEF OffHosts, Underway, Rendered
  <2>. QED  BY <2>1
<1>7. TasksInv' /\ LaunchOnce'
  BY <1>1, <1>2, <1>5, <1>6, TasksStay
<1>8. ProcsInv' /\ HostsInv'
  BY <1>1, <1>5, ProcsStay DEF tables, Undisturbed, HostsInv
<1>9. RendersInv'
  <2>1. net[HostOf(t)] # "dead" /\ ~InCache(HostOf(t), t.frame)
    BY DEF LaunchAccepted, PollNotFound, Reach
  <2>. QED  BY <1>0, <1>1, <2>1, Admitted DEF HostOf, OffHosts, a
<1>10. WireInv'
  <2>1. \A m \in wire : m.proc # t.proc
    BY <1>0 DEF OffHosts, Underway
  <2>2. \A m \in wire : Rendered(m.proc)' => Rendered(m.proc)
    BY <1>1, <2>1 DEF Rendered
  <2>. QED  BY <1>1, <2>2 DEF Undisturbed, WireInv, Owns, tables
<1>. QED  BY <1>7, <1>8, <1>9, <1>10 DEF Undisturbed

\* A request that arrives after its sender has given up.
LEMMA LateLaunchStep ==
  ASSUME ~Stall, RunInv, RunInv', Undisturbed, NEW m \in wire, LateLaunch(m),
         UNCHANGED <<tables, tasks>>
  PROVE  Undisturbed'
<1>0. /\ TypeInv /\ m.proc \in Procs /\ m.frame \in Frames
      /\ Owns(m.proc, m.frame) /\ ~Rendered(m.proc) /\ net[m.host] # "dead"
      /\ m.host = proc[m.proc].host
      /\ \A n \in wire : n.proc = m.proc => n = m
      /\ UNCHANGED <<tables, report, net, hw, rebooted>>
  BY Kinds DEF RunInv, Undisturbed, WireInv, LateLaunch
<1>1. FramesKept /\ RowsKept /\ RunsKept
  BY SameRows, SameRuns
<1>2. wire' = wire \ {m} /\ Underway(m.proc)
  BY DEF LateLaunch, Underway
<1>3. \A r \in render' : r \in render \/ (r.proc = m.proc /\ r.frame = m.frame)
  BY DEF LateLaunch, Attendant
<1>4. render \subseteq render'
  BY DEF LateLaunch
<1>5. Moves
  <2>1. ASSUME NEW p \in Procs, p # m.proc
        PROVE  /\ Fresh(p)' <=> Fresh(p)
               /\ Underway(p)' => Underway(p)
               /\ Rendered(p)' => Rendered(p)
               /\ Reported(p)' => Reported(p)
               /\ Doomed(p) => Doomed(p)'
               /\ \A f \in Frames : OfFrame(p, f) => OfFrame(p, f)'
    BY <1>0, <1>2, <1>3, <2>1
       DEF Fresh, Underway, Rendered, Reported, Doomed, OfFrame
  <2>2. Reported(m.proc)' => Reported(m.proc)
    BY <1>0 DEF Reported
  <2>3. Fresh(m.proc)' <=> Fresh(m.proc)
    BY DEF Fresh
  <2>4. \A f \in Frames : OfFrame(m.proc, f) => OfFrame(m.proc, f)'
    BY <1>2, <1>3 DEF OfFrame
  <2>. QED  BY <1>2, <2>1, <2>2, <2>3, <2>4 DEF Moves, Starting, Present
<1>6. \A u \in tasks' : u.pc = "launch" => OffHosts(u.proc)'
  <2>1. ASSUME NEW u \in tasks', u.pc = "launch" PROVE OffHosts(u.proc)'
    <3>1. OffHosts(u.proc)
      BY <2>1 DEF Undisturbed, TasksInv, TaskInv, Sound, AtLaunch
    <3>2. u.proc # m.proc
      BY <1>2, <3>1 DEF OffHosts
    <3>. QED  BY <1>2, <1>3, <3>1, <3>2 DEF OffHosts, Underway, Rendered
  <2>. QED  BY <2>1
<1>7. TasksInv' /\ LaunchOnce'
  BY <1>1, <1>5, <1>6, TasksStay
<1>8. ProcsInv' /\ HostsInv'
  BY <1>0, <1>5, ProcsStay DEF tables, Undisturbed, HostsInv
<1>9. RendersInv'
  <2>1. CASE InCache(m.host, m.frame)
    BY <1>0, <2>1 DEF LateLaunch, Undisturbed, RendersInv, RendersOnce, RenderOK, Owns,
                      tables, Heard
  <2>2. CASE ~InCache(m.host, m.frame)
    BY <1>0, <2>2, Admitted DEF LateLaunch
  <2>. QED  BY <2>1, <2>2
<1>10. WireInv'
  <2>1. \A n \in wire' : n \in wire /\ n.proc # m.proc
    BY <1>0, <1>2
  <2>2. \A n \in wire' : Rendered(n.proc)' => Rendered(n.proc)
    BY <1>3, <2>1 DEF Rendered
  <2>. QED  BY <1>0, <2>1, <2>2 DEF Undisturbed, WireInv, Owns, tables
<1>. QED  BY <1>7, <1>8, <1>9, <1>10 DEF Undisturbed

\* A launch whose outcome its sender does not learn: what was sent is on its way.
LEMMA LaunchUnknownStep ==
  ASSUME ~Stall, RunInv, RunInv', Undisturbed, NEW t \in tasks, LaunchUnknown(t),
         TasksGood
  PROVE  Undisturbed'
<1>0. /\ TypeInv /\ TypeInv' /\ t \in Task /\ t.proc \in Procs /\ t.frame \in Frames
      /\ OffHosts(t.proc) /\ Owns(t.proc, t.frame)
      /\ t.pc = "launch" /\ t.arg = "fresh"
      /\ t.pc \notin UserPc /\ t.why # "failedKill"
      /\ UNCHANGED <<tables, render, report, net, hw, rebooted>>
  BY Kinds DEF RunInv, Undisturbed, TasksInv, TaskInv, Sound, AtLaunch, LaunchUnknown,
               TaskOK, Fits, LaunchPc
<1>. DEFINE u == [t EXCEPT !.pc = "poll1"]
<1>1. /\ u.pc = "poll1" /\ u.proc = t.proc /\ u.frame = t.frame
      /\ u.ver = t.ver /\ u.arg = t.arg /\ u.why = t.why
      /\ tasks' = (tasks \ {t}) \cup {u}
  BY <1>0 DEF Task, LaunchUnknown, Goes
<1>. HIDE DEF u
<1>2. FramesKept /\ RowsKept /\ RunsKept
  BY <1>0, SameRows, SameRuns
<1>3. \A m \in wire' : \/ m \in wire
                       \/ /\ m.proc = t.proc /\ m.frame = t.frame
                          /\ m.host = HostOf(t) /\ net[HostOf(t)] # "dead"
                          /\ wire' = wire \cup {m}
  BY DEF LaunchUnknown
<1>4. wire \subseteq wire' /\ \A m \in wire : m.proc # t.proc
  BY <1>0 DEF LaunchUnknown, OffHosts, Underway
<1>5. \A v \in tasks' : v.pc = "launch" => v \in tasks /\ v.proc # t.proc
  BY <1>0, <1>1 DEF Undisturbed, LaunchOnce
<1>6. Fresh(t.proc) /\ ~Fresh(t.proc)'
  BY <1>0, <1>5 DEF Fresh
<1>7. Moves
  <2>1. ASSUME NEW p \in Procs, p # t.proc
        PROVE  /\ Fresh(p)' => Fresh(p)
               /\ Underway(p)' => Underway(p)
               /\ Rendered(p)' <=> Rendered(p)
               /\ Reported(p)' => Reported(p)
               /\ Doomed(p) => Doomed(p)'
               /\ \A f \in Frames : OfFrame(p, f) => OfFrame(p, f)'
    BY <1>0, <1>1, <1>3, <1>5, <2>1
       DEF Fresh, Underway, Rendered, Reported, Doomed, OfFrame, ReportPc
  <2>2. Reported(t.proc)' => Reported(t.proc)
    BY <1>0, <1>1 DEF Reported, ReportPc
  <2>. QED  BY <1>0, <1>6, <2>1, <2>2 DEF Moves, Starting, Present, Doomed
<1>8. TasksInv'
  <2>1. ASSUME NEW v \in tasks', v \in tasks, v # t PROVE TaskInv(v)'
    <3>1. TaskInv(v) /\ Good(v) /\ TaskOK(v)
      BY <2>1 DEF Undisturbed, TasksInv, RunInv, TypeInv
    <3>2. v.pc = "launch" => OffHosts(v.proc)'
      BY <1>0, <1>3, <1>5, <3>1
         DEF TaskInv, Sound, AtLaunch, OffHosts, Underway, Rendered
    <3>3. v.pc = "launch" /\ v.arg = "fresh" => Owns(v.proc, v.frame)'
      BY <2>1, <3>1, <1>2 DEF TaskOK, Fits, LaunchPc, TaskInv, Sound, AtLaunch, RunsKept,
                              Claims, Starting, Fresh
    <3>. QED  BY <1>0, <1>2, <1>7, <3>1, <3>2, <3>3, SoundKept
  <2>2. TaskInv(u)'
    <3>1. OfFrame(t.proc, t.frame)'
      BY <1>0, <1>3, <1>4 DEF OfFrame, OffHosts, Rendered
    <3>2. AtLaunch("poll1", t.proc, t.frame, t.arg)'
      BY <1>6, <3>1 DEF AtLaunch
    <3>3. Sound("poll1", t.proc, t.frame, t.ver, t.arg, t.why)'
      BY <1>0, <3>2 DEF Sound, AtStop, AtLost, SweepPc, LostPc, UserPc
    <3>. QED  BY <1>1, <3>3 DEF TaskInv
  <2>. QED  BY <1>1, <2>1, <2>2 DEF TasksInv
<1>9. LaunchOnce'
  BY <1>1, <1>5 DEF Undisturbed, LaunchOnce
<1>10. ProcsInv' /\ HostsInv'
  BY <1>0, <1>7, ProcsStay DEF tables, Undisturbed, HostsInv
<1>11. RendersInv'
  BY <1>0 DEF Undisturbed, RendersInv, RendersOnce, RenderOK, Owns, tables, Heard
<1>12. WireInv'
  <2>1. \A m \in wire' : /\ m.host = proc[m.proc].host /\ net[m.host] # "dead"
                         /\ Owns(m.proc, m.frame) /\ ~Rendered(m.proc)
    BY <1>0, <1>3 DEF Undisturbed, WireInv, OffHosts, HostOf
  <2>2. \A m, n \in wire' : n.proc = m.proc => n = m
    BY <1>3, <1>4 DEF Undisturbed, WireInv
  <2>. QED  BY <1>0, <2>1, <2>2 DEF WireInv, Owns, Rendered, tables
<1>. QED  BY <1>8, <1>9, <1>10, <1>11, <1>12 DEF Undisturbed

-----------------------------------------------------------------------------
(* What an attendant does by itself. *)

\* It is through with setup() and puts the frame in the cache.
LEMMA StoreFrameStep ==
  ASSUME ~Stall, RunInv, RunInv', Undisturbed, NEW r \in render, StoreFrame(r),
         UNCHANGED <<tables, tasks>>
  PROVE  Undisturbed'
<1>. DEFINE a == [r EXCEPT !.stage = "live", !.cached = TRUE]
<1>0. /\ TypeInv /\ r \in Render /\ r.proc \in Procs /\ r.frame \in Frames
      /\ RenderOK(r) /\ r.stage = "setup"
      /\ UNCHANGED <<tables, wire, report, net, hw, rebooted>>
  BY Kinds DEF RunInv, Undisturbed, RendersInv, StoreFrame
<1>1. /\ a.proc = r.proc /\ a.frame = r.frame /\ a.host = r.host
      /\ a.stage = "live" /\ a.cached = TRUE
      /\ render' = (render \ {r}) \cup {a}
  BY <1>0 DEF Render, StoreFrame
<1>. HIDE DEF a
<1>2. FramesKept /\ RowsKept /\ RunsKept
  BY <1>0, SameRows, SameRuns
<1>3. Starting(r.proc) /\ Underway(r.proc)
  BY <1>0 DEF Starting, Underway
<1>4. \A p \in Procs : /\ Fresh(p)' <=> Fresh(p)
                       /\ Underway(p)' => Underway(p)
                       /\ Rendered(p)' => Rendered(p)
                       /\ Reported(p)' => Reported(p)
                       /\ \A f \in Frames : OfFrame(p, f) => OfFrame(p, f)'
  BY <1>0, <1>1 DEF Fresh, Underway, Rendered, Reported, OfFrame
<1>5. \A p \in Procs : p # r.proc /\ Doomed(p) => Doomed(p)'
  BY <1>1 DEF Doomed
<1>6. Moves
  BY <1>3, <1>4, <1>5 DEF Moves, Starting, Present
<1>7. \A u \in tasks' : u.pc = "launch" => OffHosts(u.proc)'
  <2>1. ASSUME NEW u \in tasks', u.pc = "launch" PROVE OffHosts(u.proc)'
    <3>1. OffHosts(u.proc) /\ u.proc \in Procs
      BY <1>0, <2>1, Kinds DEF Undisturbed, TasksInv, TaskInv, Sound, AtLaunch,
                                TaskOK, Fits, LaunchPc
    <3>. QED  BY <1>4, <3>1 DEF OffHosts
  <2>. QED  BY <2>1
<1>8. TasksInv' /\ LaunchOnce'
  BY <1>2, <1>6, <1>7, TasksStay
<1>9. ProcsInv' /\ HostsInv'
  BY <1>0, <1>6, ProcsStay DEF tables, Undisturbed, HostsInv
<1>10. RendersInv'
  <2>1. RendersOnce'
    BY <1>1 DEF Undisturbed, RendersInv, RendersOnce
  <2>2. \A s \in render : RenderOK(s)'
    BY <1>0 DEF Undisturbed, RendersInv, RenderOK, Owns, tables, Heard
  <2>3. RenderOK(a)'
    BY <1>0, <1>1 DEF RenderOK, Owns, tables
  <2>. QED  BY <1>1, <2>1, <2>2, <2>3 DEF RendersInv
<1>11. WireInv'
  BY <1>0, <1>4, Kinds DEF Undisturbed, WireInv, Owns, tables
<1>. QED  BY <1>8, <1>9, <1>10, <1>11 DEF Undisturbed

\* It ends, and its booking is off the hosts: the cache entry it drops is its own.
LEMMA EndsStep ==
  ASSUME ~Stall, RunInv, RunInv', Undisturbed, NEW r \in render, NEW ok, Ends(r, ok),
         UNCHANGED <<tables, tasks, wire, net, hw, rebooted>>
  PROVE  Undisturbed'
<1>0. TypeInv /\ r.proc \in Procs /\ RendersOnce
  BY Kinds DEF RunInv, Undisturbed, RendersInv
<1>1. render' = render \ {r}
  <2>1. \A s \in render \ {r} : ~(s.host = r.host /\ s.frame = r.frame)
    BY <1>0 DEF RendersOnce
  <2>. QED  BY <2>1 DEF Ends, Uncached
<1>2. FramesKept /\ RowsKept /\ RunsKept
  BY SameRows, SameRuns
<1>3. ~Present(r.proc)' /\ Present(r.proc)
  <2>1. Rendered(r.proc)
    BY DEF Rendered
  <2>2. ~OnWire(r.proc)
    BY <2>1 DEF OnWire, Undisturbed, WireInv
  <2>3. ~Fresh(r.proc)
    BY <2>1 DEF Fresh, Undisturbed, TasksInv, TaskInv, Sound, AtLaunch, OffHosts
  <2>4. ~Rendered(r.proc)'
    BY <1>0, <1>1 DEF Rendered, RendersOnce
  <2>. QED  BY <2>1, <2>2, <2>3, <2>4
            DEF Present, Starting, Underway, Fresh, OnWire, Rendered
<1>4. \A p \in Procs : /\ Fresh(p)' <=> Fresh(p)
                       /\ Underway(p)' => Underway(p)
                       /\ Rendered(p)' => Rendered(p)
                       /\ Reported(p)' => Reported(p) \/ p = r.proc
                       /\ Doomed(p) => Doomed(p)'
                       /\ \A f \in Frames : OfFrame(p, f) => OfFrame(p, f)'
  <2>1. /\ report' = report \cup {[proc |-> r.proc, frame |-> r.frame, ok |-> ok]}
        /\ UNCHANGED <<tasks, wire>>
    BY DEF Ends
  <2>2. \A m \in report' : m \in report \/ m.proc = r.proc
    BY <2>1
  <2>3. \A p \in Procs : Reported(p)' => Reported(p) \/ p = r.proc
    BY <2>1, <2>2 DEF Reported
  <2>4. render' \subseteq render
    BY <1>1
  <2>. QED  BY <2>1, <2>3, <2>4 DEF Fresh, Underway, Rendered, Doomed, OfFrame
<1>5. Moves
  BY <1>3, <1>4 DEF Moves, Starting, Present
<1>6. \A u \in tasks' : u.pc = "launch" => OffHosts(u.proc)'
  <2>1. ASSUME NEW u \in tasks', u.pc = "launch" PROVE OffHosts(u.proc)'
    <3>1. OffHosts(u.proc) /\ u.proc \in Procs
      BY <1>0, <2>1, Kinds DEF Undisturbed, TasksInv, TaskInv, Sound, AtLaunch,
                                TaskOK, Fits, LaunchPc
    <3>. QED  BY <1>4, <3>1 DEF OffHosts
  <2>. QED  BY <2>1
<1>7. TasksInv' /\ LaunchOnce'
  BY <1>2, <1>5, <1>6, TasksStay
<1>8. ProcsInv' /\ HostsInv'
  BY <1>5, ProcsStay DEF tables, Undisturbed, HostsInv
<1>9. RendersInv'
  BY <1>1 DEF Undisturbed, RendersInv, RendersOnce, RenderOK, Owns, tables, Heard
<1>10. WireInv'
  BY <1>0, <1>4, Kinds DEF Undisturbed, WireInv, Owns, tables
<1>. QED  BY <1>7, <1>8, <1>9, <1>10 DEF Undisturbed

-----------------------------------------------------------------------------
(* Hosts, and time. *)

\* A machine dies: bookings are only lost by it.
LEMMA HostDiesStep ==
  ASSUME ~Stall, RunInv, RunInv', Undisturbed, NEW h \in Hosts, HostDies(h),
         UNCHANGED <<tables, tasks>>
  PROVE  Undisturbed'
<1>0. TypeInv /\ UNCHANGED <<tables, hw, rebooted>>
  BY DEF RunInv, HostDies
<1>1. /\ render' \subseteq render /\ wire' \subseteq wire /\ report' \subseteq report
      /\ \A r \in render' : r.host # h
      /\ \A m \in wire' : m.host # h
  BY DEF HostDies
<1>2. /\ \A g \in Hosts : g # h => net'[g] = net[g]
      /\ net'[h] = "dead"
  BY <1>0 DEF HostDies, TypeInv, TypeOK, RqdTypeOK
<1>3. FramesKept /\ RowsKept /\ RunsKept
  BY <1>0, SameRows, SameRuns
<1>4. \A p : /\ Fresh(p)' <=> Fresh(p)
             /\ Underway(p)' => Underway(p)
             /\ Rendered(p)' => Rendered(p)
             /\ Reported(p)' => Reported(p)
             /\ Doomed(p) => Doomed(p)'
             /\ \A f \in Frames : OfFrame(p, f) => OfFrame(p, f)'
  BY <1>1 DEF Fresh, Underway, Rendered, Reported, Doomed, OfFrame
<1>5. Moves
  BY <1>4 DEF Moves, Starting, Present
<1>6. \A u \in tasks' : u.pc = "launch" => OffHosts(u.proc)'
  BY <1>4 DEF OffHosts, Undisturbed, TasksInv, TaskInv, Sound, AtLaunch
<1>7. TasksInv' /\ LaunchOnce'
  BY <1>3, <1>5, <1>6, TasksStay
<1>8. ProcsInv'
  BY <1>0, <1>5, ProcsStay DEF tables
<1>9. HostsInv'
  BY <1>0, <1>2 DEF Undisturbed, HostsInv
<1>10. RendersInv'
  BY <1>0, <1>1, <1>2, Kinds
     DEF Undisturbed, RendersInv, RendersOnce, RenderOK, Owns, tables, Heard
<1>11. WireInv'
  BY <1>0, <1>1, <1>2, <1>4, Kinds DEF Undisturbed, WireInv, Owns, tables
<1>. QED  BY <1>7, <1>8, <1>9, <1>10, <1>11 DEF Undisturbed

\* When nothing on the hosts changes but what can be reached, what is on them
\* stays as it was.
LEMMA HostsStay ==
  ASSUME TypeInv, Undisturbed, RowsKept, RunsKept, UNCHANGED <<render, wire>>,
         \A h \in Hosts : net[h] # "dead" => net'[h] # "dead"
  PROVE  WireInv' /\ RendersInv'
<1>1. ASSUME NEW r \in render PROVE RenderOK(r)'
  <2>1. RenderOK(r) /\ r.proc \in Procs /\ r.frame \in Frames /\ r.host \in Hosts
    BY Kinds DEF Undisturbed, RendersInv
  <2>2. r.stage = "setup" \/ (Heard /\ r.stage # "dying") => Claims(r.proc)
    BY DEF Claims, Starting, Underway, Doomed
  <2>3. r.stage = "setup" \/ (Heard /\ r.stage # "dying") => Owns(r.proc, r.frame)'
    BY <2>1, <2>2 DEF RenderOK, RunsKept
  <2>. QED  BY <2>1, <2>3 DEF RenderOK, RowsKept, Heard
<1>2. ASSUME NEW m \in wire
      PROVE  Owns(m.proc, m.frame)' /\ m.host = proc'[m.proc].host /\ net'[m.host] # "dead"
  <2>1. m.proc \in Procs /\ m.frame \in Frames /\ m.host \in Hosts
    BY Kinds
  <2>. QED  BY <2>1 DEF Claims, Starting, Underway, Undisturbed, WireInv, RunsKept, RowsKept
<1>. QED  BY <1>1, <1>2 DEF Undisturbed, RendersInv, RendersOnce, WireInv, Rendered

\* A network link is cut or comes back.
LEMMA LinkStep ==
  ASSUME ~Stall, RunInv, RunInv', Undisturbed, NEW h \in Hosts,
         \/ Cut(h) /\ "cut" \in Faults
         \/ Heal(h)
         \/ HostBoots(h, {}),
         UNCHANGED <<tables, tasks>>
  PROVE  Undisturbed'
<1>0. TypeInv /\ UNCHANGED <<tables, tasks, render, wire, report, rebooted>>
  BY DEF RunInv, Cut, Heal, HostBoots
<1>1. FramesKept /\ RowsKept /\ RunsKept
  BY <1>0, SameRows, SameRuns
<1>2. \A p : /\ Fresh(p)' <=> Fresh(p)
             /\ Underway(p)' <=> Underway(p)
             /\ Rendered(p)' <=> Rendered(p)
             /\ Reported(p)' <=> Reported(p)
             /\ Doomed(p) <=> Doomed(p)'
             /\ \A f \in Frames : OfFrame(p, f) => OfFrame(p, f)'
  BY <1>0 DEF Fresh, Underway, Rendered, Reported, Doomed, OfFrame
<1>3. Moves
  BY <1>2 DEF Moves, Starting, Present
<1>4. \A u \in tasks' : u.pc = "launch" => OffHosts(u.proc)'
  BY <1>2 DEF OffHosts, Undisturbed, TasksInv, TaskInv, Sound, AtLaunch
<1>5. TasksInv' /\ LaunchOnce'
  BY <1>1, <1>3, <1>4, TasksStay
<1>6. /\ \A g \in Hosts : g # h => net'[g] = net[g] /\ hw'[g] = hw[g]
      /\ net'[h] # "dead" /\ hw'[h] # "DOWN"
      /\ net'[h] = "cut" => "cut" \in Faults
  BY <1>0 DEF Cut, Heal, HostBoots, TypeInv, TypeOK, RqdTypeOK, Undisturbed, HostsInv
<1>7. HostsInv'
  BY <1>6 DEF Undisturbed, HostsInv
<1>8. ProcsInv'
  <2>1. \A p \in Procs : proc[p].row = "live" => proc[p].host \in Hosts
    BY <1>0 DEF TypeInv, HostsKnown
  <2>2. \A p \in Procs : proc'[p].row = "live" /\ hw'[proc[p].host] = "DOWN"
                           => hw[proc[p].host] = "DOWN"
    BY <1>0, <1>6, <2>1 DEF tables
  <2>. QED  BY <1>0, <1>1, <1>3, <2>2, ProcsStep DEF Undisturbed, tables
<1>9. WireInv' /\ RendersInv'
  BY <1>0, <1>1, <1>6, HostsStay
<1>. QED  BY <1>5, <1>7, <1>8, <1>9 DEF Undisturbed

\* A launch that has waited for so long will not be sent.
LEMMA Expired ==
  ASSUME TypeInv, Undisturbed, NEW P, ExpireLaunches(P), UNCHANGED <<render, wire, report>>
  PROVE  /\ \A u \in tasks' :
              \/ u \in tasks /\ ~(u.pc = "launch" /\ u.proc \in P)
              \/ u.pc = "launch" /\ u.arg = "expired" /\ u.proc \in P /\ OffHosts(u.proc)
                   /\ u.why # "failedKill"
         /\ \A p : Fresh(p)' => Fresh(p) /\ p \notin P
         /\ \A p : /\ Underway(p)' <=> Underway(p)
                   /\ Rendered(p)' <=> Rendered(p)
                   /\ Reported(p)' => Reported(p)
                   /\ Doomed(p)' <=> Doomed(p)
                   /\ \A f \in Frames : OfFrame(p, f) => OfFrame(p, f)'
         /\ LaunchOnce'
<1>1. ASSUME NEW u \in tasks'
      PROVE  \/ u \in tasks /\ ~(u.pc = "launch" /\ u.proc \in P)
             \/ u.pc = "launch" /\ u.arg = "expired" /\ u.proc \in P /\ OffHosts(u.proc)
                  /\ u.why # "failedKill"
  <2>1. PICK t \in tasks : u = IF t.pc = "launch" /\ t.proc \in P
                                 THEN [t EXCEPT !.arg = "expired"] ELSE t
    BY DEF ExpireLaunches
  <2>2. t \in Task /\ TaskInv(t)
    BY Kinds DEF Undisturbed, TasksInv
  <2>3. t.pc = "launch" => OffHosts(t.proc) /\ t.why # "failedKill"
    BY <2>2 DEF TaskInv, Sound, AtLaunch
  <2>. QED  BY <2>1, <2>2, <2>3 DEF Task
<1>2. \A p : Fresh(p)' => Fresh(p) /\ p \notin P
  BY <1>1 DEF Fresh
<1>3. \A p : /\ Underway(p)' <=> Underway(p)
             /\ Rendered(p)' <=> Rendered(p)
             /\ Doomed(p)' <=> Doomed(p)
             /\ \A f \in Frames : OfFrame(p, f) => OfFrame(p, f)'
  BY DEF Underway, Rendered, Doomed, OfFrame
<1>4. \A p : Reported(p)' => Reported(p)
  BY <1>1 DEF Reported, ReportPc
<1>5. LaunchOnce'
  <2>1. \A t, u \in tasks' : t.pc = "launch" /\ u.pc = "launch" /\ t.proc = u.proc
                               /\ t.arg = "fresh" => t \in tasks /\ u \in tasks
    BY <1>1
  <2>. QED  BY <2>1 DEF LaunchOnce, Undisturbed
<1>. QED  BY <1>1, <1>2, <1>3, <1>4, <1>5

\* Time passes for the bookings P: their rows age, or their host is found silent.
LEMMA TimeStep ==
  ASSUME ~Stall, RunInv, RunInv', Undisturbed, NEW P, ExpireLaunches(P),
         FramesKept, RowsKept, RunsKept, UNCHANGED <<render, wire, report>>, HostsInv',
         \A h \in Hosts : net[h] # "dead" => net'[h] # "dead",
         \A p \in Procs :
            /\ proc'[p].old => proc[p].old \/ (p \in P /\ ~Underway(p))
            /\ p \in rebooted' =>
                 p \in rebooted \/ (p \in P /\ proc[p].row # "unused" /\ OffHosts(p))
            /\ proc'[p].row = "live" /\ hw'[proc[p].host] = "DOWN" =>
                 hw[proc[p].host] = "DOWN" \/ p \in P
  PROVE  Undisturbed'
<1>0. TypeInv /\ TypeInv'
  BY DEF RunInv
<1>1. /\ \A u \in tasks' :
           \/ u \in tasks /\ ~(u.pc = "launch" /\ u.proc \in P)
           \/ u.pc = "launch" /\ u.arg = "expired" /\ u.proc \in P /\ OffHosts(u.proc)
                /\ u.why # "failedKill"
      /\ \A p : Fresh(p)' => Fresh(p) /\ p \notin P
      /\ \A p : /\ Underway(p)' <=> Underway(p)
                /\ Rendered(p)' <=> Rendered(p)
                /\ Reported(p)' => Reported(p)
                /\ Doomed(p)' <=> Doomed(p)
                /\ \A f \in Frames : OfFrame(p, f) => OfFrame(p, f)'
      /\ LaunchOnce'
  BY <1>0, Expired
<1>2. Moves
  BY <1>1 DEF Moves, Starting, Present
<1>3. ProcsInv'
  <2>1. \A p \in Procs :
            /\ proc'[p].old => proc[p].old \/ ~Starting(p)'
            /\ p \in rebooted' =>
                 p \in rebooted \/ (proc'[p].row # "unused" /\ ~Present(p)')
            /\ proc'[p].row = "live" /\ hw'[proc[p].host] = "DOWN" =>
                 hw[proc[p].host] = "DOWN" \/ ~Fresh(p)'
    BY <1>1 DEF Starting, Present, OffHosts, RowsKept
  <2>. QED  BY <1>2, <2>1, ProcsStep DEF Undisturbed
<1>4. WireInv' /\ RendersInv'
  BY <1>0, HostsStay
<1>5. TasksInv'
  <2>1. SUFFICES ASSUME NEW u \in tasks' PROVE TaskInv(u)'
    BY DEF TasksInv
  <2>2. CASE u \in tasks /\ ~(u.pc = "launch" /\ u.proc \in P)
    <3>1. TaskInv(u) /\ Good(u) /\ TaskOK(u)
      BY <2>2, <1>0 DEF Undisturbed, TasksInv, RunInv, TypeInv
    <3>2. u.pc = "launch" => OffHosts(u.proc)'
      BY <1>1, <3>1 DEF TaskInv, Sound, AtLaunch, OffHosts
    <3>3. u.pc = "launch" /\ u.arg = "fresh" => Owns(u.proc, u.frame)'
      BY <2>2, <3>1 DEF TaskOK, Fits, LaunchPc, TaskInv, Sound, AtLaunch, RunsKept,
                        Claims, Starting, Fresh
    <3>. QED  BY <1>0, <1>2, <3>1, <3>2, <3>3, SoundKept
  <2>3. CASE u.pc = "launch" /\ u.arg = "expired" /\ u.proc \in P /\ OffHosts(u.proc)
                /\ u.why # "failedKill"
    <3>1. ~Fresh(u.proc)' /\ OffHosts(u.proc)'
      BY <1>1, <2>3 DEF OffHosts
    <3>2. AtLaunch(u.pc, u.proc, u.frame, u.arg)'
      BY <2>3, <3>1 DEF AtLaunch
    <3>. QED  BY <2>3, <3>2 DEF TaskInv, Sound, AtStop, AtLost, SweepPc, LostPc, UserPc
  <2>. QED  BY <1>1, <2>2, <2>3
<1>. QED  BY <1>1, <1>3, <1>4, <1>5 DEF Undisturbed

\* A row ages.
LEMMA AgeStep ==
  ASSUME ~Stall, RunInv, RunInv', Undisturbed, FramesKept,
         (\E p \in Procs : AgeProc(p)) \/ (\E f \in Frames : AgeFrame(f))
  PROVE  Undisturbed'
<1>0. TypeInv /\ UNCHANGED <<render, wire, report, net, hw, rebooted>> /\ HostsInv'
  BY DEF RunInv, AgeProc, AgeFrame, rqdVars, Undisturbed, HostsInv
<1>1. ASSUME NEW p \in Procs, AgeProc(p) PROVE Undisturbed'
  <2>1. /\ \A q \in Procs : /\ proc'[q].row = proc[q].row
                            /\ proc'[q].frame = proc[q].frame
                            /\ proc'[q].host = proc[q].host
        /\ \A q \in Procs : q # p => proc'[q] = proc[q]
    BY <1>0, <1>1 DEF AgeProc, TypeInv, TypeOK, TablesTypeOK, ProcRow
  <2>2. RowsKept /\ RunsKept
    BY <1>1, <2>1 DEF AgeProc, RowsKept, RunsKept, Owns
  <2>3. \A q \in Procs : proc'[q].old => proc[q].old \/ (q \in {p} /\ ~Underway(q))
    BY <1>1, <2>1 DEF AgeProc, Quiet
  <2>4. ExpireLaunches({p})
    BY <1>1 DEF AgeProc
  <2>. QED  BY <1>0, <2>2, <2>3, <2>4, TimeStep
<1>2. ASSUME NEW f \in Frames, AgeFrame(f) PROVE Undisturbed'
  <2>1. \A g \in Frames : frame'[g].state = frame[g].state /\ frame'[g].by = frame[g].by
    BY <1>0, <1>2, AgedFrame DEF AgeFrame
  <2>2. RowsKept /\ RunsKept
    BY <1>2, <2>1 DEF AgeFrame, RowsKept, RunsKept, Owns
  <2>3. ExpireLaunches({frame[f].by}) /\ UNCHANGED proc
    BY <1>2 DEF AgeFrame
  <2>. QED  BY <1>0, <2>2, <2>3, TimeStep
<1>. QED  BY <1>1, <1>2

\* A dead machine is marked DOWN, or comes back with a boot that is later than
\* the bookings on it: none of these can have anything on it.
LEMMA BootStep ==
  ASSUME ~Stall, RunInv, RunInv', Undisturbed, NEW h \in Hosts,
         MarkDown(h) \/ HostBoots(h, BookedOn(h)),
         ExpireLaunches(BookedOn(h)), UNCHANGED tables
  PROVE  Undisturbed'
<1>0. TypeInv /\ UNCHANGED <<render, wire, report>> /\ net[h] = "dead"
  BY DEF RunInv, MarkDown, HostBoots
<1>1. FramesKept /\ RowsKept /\ RunsKept
  BY SameRows, SameRuns
<1>2. /\ \A g \in Hosts : g # h => net'[g] = net[g] /\ hw'[g] = hw[g]
      /\ net'[h] = "dead" \/ (net'[h] = "up" /\ hw'[h] = "UP")
  BY <1>0 DEF MarkDown, HostBoots, TypeInv, TypeOK, RqdTypeOK
<1>3. HostsInv' /\ \A g \in Hosts : net[g] # "dead" => net'[g] # "dead"
  BY <1>0, <1>2 DEF Undisturbed, HostsInv
<1>4. \A p \in BookedOn(h) : proc[p].row # "unused" /\ OffHosts(p)
  BY <1>0 DEF BookedOn, OffHosts, Underway, Rendered, Undisturbed, WireInv, RendersInv,
              RenderOK
<1>5. \A p \in Procs : p \in rebooted' => p \in rebooted \/ p \in BookedOn(h)
  BY DEF MarkDown, HostBoots
<1>6. \A p \in Procs : proc'[p].row = "live" /\ hw'[proc[p].host] = "DOWN" =>
                         hw[proc[p].host] = "DOWN" \/ p \in BookedOn(h)
  BY <1>0, <1>2 DEF tables, BookedOn, TypeInv, HostsKnown
<1>7. \A p \in Procs : proc'[p].old => proc[p].old
  BY DEF tables
<1>. QED  BY <1>0, <1>1, <1>3, <1>4, <1>5, <1>6, <1>7, TimeStep

-----------------------------------------------------------------------------
(* A booking is new to the hosts, and evicts nobody who may still render. *)

\* The rows of a batch commit, for the bookings that were there before it.
LEMMA BookRows ==
  ASSUME RunInv, NEW f \in Frames, NEW p \in Procs, NEW h \in Hosts, Book(f, p, h)
  PROVE  /\ frame'[f].by = p /\ frame'[f].ver = frame[f].ver + 1
         /\ \A g \in Frames : g # f => frame'[g] = frame[g]
         /\ \A q \in Procs : q # p =>
              /\ proc'[q].host = proc[q].host
              /\ proc'[q].row = "unused" <=> proc[q].row = "unused"
              /\ proc'[q].old => proc[q].old
              /\ proc'[q].row = "live" => /\ proc[q].row = "live"
                                          /\ proc'[q].frame = proc[q].frame
         /\ proc'[p].old = FALSE /\ proc'[p].host = h
         /\ Owns(p, f)'
         /\ \A q \in Procs, g \in Frames : Owns(q, g) => q # p /\ g # f /\ Owns(q, g)'
<1>0. TablesTypeOK /\ TypeInv
  BY DEF RunInv, TypeInv, TypeOK
<1>1. /\ frame'[f].by = p /\ frame'[f].ver = frame[f].ver + 1 /\ frame'[f].state = "RUNNING"
      /\ \A g \in Frames : g # f => frame'[g] = frame[g]
  BY <1>0, StartedFrame DEF Book
<1>2. /\ proc'[p] = [row |-> "live", frame |-> f, host |-> h, old |-> FALSE]
      /\ \A q \in Procs : q # p =>
           proc'[q] = IF q \in ProcsOn(f) THEN Gone(q) ELSE proc[q]
  BY DEF Book, EvictedAndInserted
<1>3. \A q \in ProcsOn(f) : /\ Gone(q).host = proc[q].host /\ Gone(q).row = "gone"
                            /\ Gone(q).old = FALSE /\ proc[q].row = "live"
  BY <1>0 DEF Gone, ProcsOn, TablesTypeOK, ProcRow
<1>4. ASSUME NEW q \in Procs, q # p
      PROVE  /\ proc'[q].host = proc[q].host
             /\ proc'[q].row = "unused" <=> proc[q].row = "unused"
             /\ proc'[q].old => proc[q].old
             /\ proc'[q].row = "live" => /\ proc[q].row = "live"
                                         /\ proc'[q].frame = proc[q].frame
  <2>1. CASE q \in ProcsOn(f)
    BY <1>2, <1>3, <1>4, <2>1
  <2>2. CASE q \notin ProcsOn(f)
    BY <1>2, <1>4, <2>2
  <2>. QED  BY <2>1, <2>2
<1>5. proc'[p].old = FALSE /\ proc'[p].host = h /\ Owns(p, f)'
  BY <1>1, <1>2 DEF Owns
<1>6. ASSUME NEW q \in Procs, NEW g \in Frames, Owns(q, g)
      PROVE  q # p /\ g # f /\ Owns(q, g)'
  <2>1. q # p /\ g # f
    BY <1>6 DEF Book, StartMatches, Owns
  <2>2. q \notin ProcsOn(f)
    BY <1>6, <2>1 DEF ProcsOn, Owns
  <2>. QED  BY <1>1, <1>2, <1>6, <2>1, <2>2 DEF Owns
<1>. QED  BY <1>1, <1>4, <1>5, <1>6

\* A booking puts one new booking at the start of its way and every other one
\* where it was.
LEMMA BookStep ==
  ASSUME ~Stall, RunInv, RunInv', Undisturbed,
         NEW f \in Frames, NEW p \in Procs, NEW h \in Hosts, Book(f, p, h)
  PROVE  Undisturbed'
<1>. PICK n : n = NewTask("launch", p, f, frame[f].ver + 1, "fresh", "-")
  OBVIOUS
<1>0. /\ TypeInv /\ UNCHANGED rqdVars /\ proc[p].row = "unused" /\ hw[h] = "UP"
      /\ ProcInv(p) /\ ~Present(p) /\ ~Reported(p) /\ p \notin rebooted
      /\ \A g \in Frames : frame[g].ver \in Nat
  BY FrameVer DEF RunInv, Book, Undisturbed, ProcsInv, ProcInv
<1>1. /\ n.pc = "launch" /\ n.proc = p /\ n.frame = f /\ n.arg = "fresh" /\ n.why = "-"
      /\ \A u \in tasks' : u \in tasks \/ u = n \/ (u.pc = "kill" /\ u.why = "-")
      /\ tasks \subseteq tasks' /\ n \in tasks'
  BY DEF NewTask, Book
<1>2. /\ frame'[f].by = p /\ frame'[f].ver = frame[f].ver + 1
      /\ \A g \in Frames : g # f => frame'[g] = frame[g]
      /\ \A q \in Procs : q # p =>
           /\ proc'[q].host = proc[q].host
           /\ proc'[q].row = "unused" <=> proc[q].row = "unused"
           /\ proc'[q].old => proc[q].old
           /\ proc'[q].row = "live" => /\ proc[q].row = "live"
                                       /\ proc'[q].frame = proc[q].frame
      /\ proc'[p].old = FALSE /\ proc'[p].host = h
      /\ Owns(p, f)'
      /\ \A q \in Procs, g \in Frames : Owns(q, g) => q # p /\ g # f /\ Owns(q, g)'
  BY BookRows
<1>3. \A q : /\ Underway(q)' <=> Underway(q)
             /\ Rendered(q)' <=> Rendered(q)
             /\ Doomed(q)' <=> Doomed(q)
             /\ \A g : OfFrame(q, g)' <=> OfFrame(q, g)
  BY <1>0 DEF rqdVars, Underway, Rendered, Doomed, OfFrame
<1>4. \A q : q # p => (Fresh(q)' <=> Fresh(q))
  BY <1>1 DEF Fresh
<1>5. \A q : Reported(q)' => Reported(q)
  BY <1>0, <1>1 DEF Reported, ReportPc, rqdVars
<1>6. OffHosts(p) /\ OffHosts(p)'
  BY <1>0, <1>3 DEF Present, Starting, OffHosts
<1>7. HostsInv'
  BY <1>0 DEF Undisturbed, HostsInv, rqdVars
<1>8. ProcsInv'
  <2>1. ASSUME NEW q \in Procs, q # p PROVE ProcInv(q)'
    <3>1. ProcInv(q)
      BY DEF Undisturbed, ProcsInv
    <3>2. /\ Starting(q)' <=> Starting(q)
          /\ Present(q)' <=> Present(q)
      BY <1>3, <1>4, <2>1 DEF Starting, Present
    <3>. QED  BY <1>0, <1>2, <1>4, <1>5, <2>1, <3>1, <3>2 DEF ProcInv, rqdVars
  <2>2. ProcInv(p)'
    BY <1>0, <1>2, <1>5, NullAssumption DEF ProcInv, Owns, rqdVars
  <2>. QED  BY <2>1, <2>2 DEF ProcsInv
<1>9. WireInv'
  <2>1. ASSUME NEW m \in wire
        PROVE  m.host = proc'[m.proc].host /\ Owns(m.proc, m.frame)'
    <3>1. m.proc \in Procs /\ m.frame \in Frames /\ Owns(m.proc, m.frame)
      BY <1>0, Kinds DEF Undisturbed, WireInv
    <3>. QED  BY <1>2, <3>1 DEF Undisturbed, WireInv
  <2>. QED  BY <1>0, <1>3, <2>1 DEF Undisturbed, WireInv, rqdVars
<1>10. RendersInv'
  <2>1. ASSUME NEW r \in render PROVE RenderOK(r)'
    <3>1. r.proc \in Procs /\ r.frame \in Frames /\ RenderOK(r)
      BY <1>0, Kinds DEF Undisturbed, RendersInv
    <3>2. r.proc # p
      BY <1>6 DEF OffHosts, Rendered
    <3>. QED  BY <1>0, <1>2, <3>1, <3>2 DEF RenderOK, Heard, rqdVars
  <2>. QED  BY <1>0, <2>1 DEF Undisturbed, RendersInv, RendersOnce, rqdVars
<1>11. \A u \in tasks : u.pc \in LaunchPc => u.proc \in Procs /\ u.frame \in Frames
                                               /\ u.proc # p
  BY <1>0, Kinds DEF TaskOK, Fits, LaunchPc
<1>12. LaunchOnce'
  BY <1>1, <1>11 DEF Undisturbed, LaunchOnce, LaunchPc
<1>13. ASSUME NEW u \in tasks PROVE TaskInv(u)'
  <2>0. TaskInv(u) /\ Good(u) /\ TaskOK(u) /\ u \in Task /\ u.ver \in Nat
    BY <1>0, Kinds DEF Undisturbed, TasksInv, RunInv
  <2>1. AtLaunch(u.pc, u.proc, u.frame, u.arg)'
    BY <1>2, <1>3, <1>4, <1>11, <2>0
       DEF TaskInv, Sound, AtLaunch, LaunchPc, OffHosts, Present, Starting
  <2>2. u.frame \in Frames /\ u.ver = frame'[u.frame].ver
          => u.frame # f /\ frame'[u.frame] = frame[u.frame]
    BY <1>0, <1>2, <2>0 DEF Good, About
  <2>3. AtStop(u.pc, u.frame, u.ver)'
    <3>1. SUFFICES ASSUME u.pc \in {"final3"} \cup SweepPc,
                          StopMatches(u.frame, u.ver)'
                   PROVE  ProcsOn(u.frame)' = {}
      BY DEF AtStop
    <3>2. u.frame \in Frames
      BY <2>0, <3>1 DEF TaskOK, Fits, SweepPc
    <3>3. u.frame # f /\ StopMatches(u.frame, u.ver)
      BY <2>2, <3>1, <3>2 DEF StopMatches
    <3>4. ProcsOn(u.frame) = {}
      BY <2>0, <3>1, <3>3 DEF TaskInv, Sound, AtStop
    <3>. QED  BY <1>2, <3>3, <3>4 DEF ProcsOn, Owns
  <2>4. AtLost(u.pc, u.proc, u.frame, u.ver, u.arg, u.why)'
    <3>1. SUFFICES ASSUME u.pc \in LostPc
                   PROVE  AtLost(u.pc, u.proc, u.frame, u.ver, u.arg, u.why)'
      BY DEF AtLost
    <3>2. /\ u.proc \in Procs /\ u.frame \in Frames /\ u.proc # p
          /\ AtLost(u.pc, u.proc, u.frame, u.ver, u.arg, u.why)
      BY <1>0, <2>0, <3>1 DEF TaskOK, Fits, TaskInv, Sound, AtLost
    <3>3. /\ Starting(u.proc)' <=> Starting(u.proc)
          /\ Present(u.proc)' <=> Present(u.proc)
      BY <1>3, <1>4, <3>2 DEF Starting, Present
    <3>. QED  BY <1>2, <1>3, <2>2, <3>1, <3>2, <3>3 DEF AtLost, Heard
  <2>. QED  BY <2>0, <2>1, <2>3, <2>4 DEF TaskInv, Sound
<1>14. TaskInv(n)'
  BY <1>1, <1>2, <1>6
     DEF TaskInv, Sound, AtLaunch, AtStop, AtLost, SweepPc, LostPc, UserPc
<1>15. \A u \in tasks' : u.pc = "kill" /\ u.why = "-" => TaskInv(u)'
  BY DEF TaskInv, Sound, AtLaunch, AtStop, AtLost, SweepPc, LostPc, UserPc
<1>16. TasksInv'
  BY <1>1, <1>13, <1>14, <1>15 DEF TasksInv
<1>. QED  BY <1>7, <1>8, <1>9, <1>10, <1>12, <1>16 DEF Undisturbed

-----------------------------------------------------------------------------
(* The invariant holds as long as no user has asked for anything. *)

UserAsks == \E f \in Frames : RetryRequest(f) \/ EatRequest(f)

\* Nobody else uses up a request.
LEMMA OnlyUsersAsk ==
  ASSUME [Next]_vars, ~UserAsks
  PROVE  UNCHANGED requestsLeft
<1>1. ASSUME NEW t \in tasks, TaskStep(t) PROVE UNCHANGED requestsLeft
  <2>1. LaunchStep(t) => UNCHANGED requestsLeft
    BY DEF LaunchStep, LaunchUnsent, LaunchAccepted, LaunchRefused, LaunchUnknown,
           ConfirmPoll, RollbackUnbook, RollbackClear, BestEffortKill, Spend, bounds
  <2>2. ReportStep(t) => UNCHANGED requestsLeft
    BY DEF ReportStep, ResolveFrame, DrainStop, StaleRead, StaleRelease, FinalRead,
           FinalNoProc, FinalStop, bounds
  <2>3. LostStep(t) => UNCHANGED requestsLeft
    BY DEF LostStep, LostKill, LostDecide, LostUnbook, LostRead, LostStop, LostDetail,
           LostHostDown, bounds
  <2>4. SweepStep(t) => UNCHANGED requestsLeft
    BY DEF SweepStep, OrphanCheck, OrphanKill, OrphanPoll, OrphanReset, bounds
  <2>5. UserStep(t) => UNCHANGED requestsLeft
    BY DEF UserStep, RetryKill, RetryPoll, RetryStop, RetryRead, RetryForce, EatStop,
           EatKill, EatForce, ManualStop, ForceState, bounds
  <2>. QED  BY <1>1, <2>1, <2>2, <2>3, <2>4, <2>5 DEF TaskStep
<1>2. CASE CuebotNext
  BY <1>1, <1>2
     DEF CuebotNext, Book, ReportArrives, LostStart, OrphanFound, UserAsks, Ping,
         VerifyKill, AgeProc, AgeFrame, CuebotStops, Spend, bounds
<1>3. CASE RqdNext
  BY <1>3 DEF RqdNext, RqdStep, HostStep, Spend, bounds
<1>. QED  BY <1>2, <1>3 DEF Next, vars, bounds

\* A request that was made is never forgotten.
LEMMA StillNobody ==
  ASSUME TypeInv, requestsLeft <= MaxRequests, [Next]_vars
  PROVE  /\ requestsLeft' <= MaxRequests
         /\ NobodyAsked' => NobodyAsked /\ ~UserAsks
<1>0. requestsLeft \in Nat /\ MaxRequests \in Nat
  BY BoundsAssumption DEF TypeInv, TypeOK
<1>1. CASE UserAsks
  BY <1>0, <1>1 DEF UserAsks, RetryRequest, EatRequest, UserRequest, NobodyAsked
<1>2. CASE ~UserAsks
  BY <1>2, OnlyUsersAsk DEF NobodyAsked
<1>. QED  BY <1>1, <1>2

\* The inductive invariant.
ExclInv ==
    /\ RunInv
    /\ requestsLeft <= MaxRequests
    /\ NobodyAsked => Undisturbed

\* It holds at the start.
LEMMA ExclInit == Init => ExclInv
<1> SUFFICES ASSUME Init PROVE ExclInv
  OBVIOUS
<1>1. /\ render = {} /\ wire = {} /\ report = {} /\ tasks = {} /\ rebooted = {}
      /\ \A p \in Procs : proc[p].row = "unused"
      /\ \A h \in Hosts : hw[h] = "UP" /\ net[h] = "up"
  BY DEF Init, TablesInit, RqdInit
<1>2. Undisturbed
  BY <1>1 DEF Undisturbed, HostsInv, ProcsInv, ProcInv, WireInv, RendersInv,
     RendersOnce, LaunchOnce, TasksInv, Present, Starting, Fresh, Underway, Rendered,
     Reported
<1>3. requestsLeft <= MaxRequests
  BY BoundsAssumption DEF Init
<1>. QED  BY <1>2, <1>3, RunInit DEF ExclInv

\* A step that books nothing.
LEMMA UndisturbedStep ==
  ASSUME ~Stall, RunInv, RunInv', Undisturbed, [Next]_vars, ~Booking, ~UserAsks
  PROVE  Undisturbed'
<1>1. FramesKept /\ TasksGood
  BY RunKept
<1>2. Mild => Undisturbed'
  BY <1>1, MildStep DEF Mild, NoneOlder
<1>3. ASSUME NEW t \in tasks, TaskStep(t) PROVE Undisturbed'
  <2>1. ~UserStep(t)
    <3>1. t.pc \notin UserPc
      BY DEF Undisturbed, TasksInv, TaskInv, Sound
    <3>. QED  BY <3>1 DEF UserStep, RetryKill, RetryPoll, RetryStop, RetryRead, RetryForce,
                          EatStop, EatKill, EatForce, UserPc
  <2>2. CASE LaunchStep(t)
    BY <1>1, <1>2, <2>2, LaunchMild, LaunchAcceptedStep, LaunchUnknownStep DEF LaunchStep
  <2>. QED  BY <1>2, <1>3, <2>1, <2>2, ReportMild, LostMild, SweepMild DEF TaskStep
<1>4. ASSUME NEW m \in report, ReportArrives(m) PROVE Undisturbed'
  BY <1>2, <1>4, ReportArrivesMild
<1>5. ASSUME NEW p \in Procs, NEW why \in {"orphan", "down"}, LostStart(p, why)
      PROVE  Undisturbed'
  BY <1>2, <1>5, LostStartMild
<1>6. CASE \/ \E f \in Frames : OrphanFound(f)
           \/ \E p \in Procs : Ping(p)
           \/ \E r \in render : VerifyKill(r)
           \/ \E m \in report : ReportLost(m) /\ UNCHANGED <<tables, tasks>>
           \/ CuebotStops
           \/ UNCHANGED vars
  BY <1>2, <1>6, OtherMild
<1>7. CASE (\E p \in Procs : AgeProc(p)) \/ (\E f \in Frames : AgeFrame(f))
  BY <1>1, <1>7, AgeStep
<1>8. ASSUME NEW r \in render, RqdStep(r), UNCHANGED <<tables, tasks>> PROVE Undisturbed'
  <2>1. CASE StoreFrame(r)
    BY <1>8, <2>1, StoreFrameStep
  <2>2. ASSUME NEW ok, Ends(r, ok), UNCHANGED <<wire, net, hw, rebooted>> PROVE Undisturbed'
    BY <1>8, <2>2, EndsStep
  <2>. QED  BY <1>8, <2>1, <2>2 DEF RqdStep, LaunchFails, RenderEnds
<1>9. ASSUME NEW m \in wire, LateLaunch(m), UNCHANGED <<tables, tasks>> PROVE Undisturbed'
  BY <1>9, LateLaunchStep
<1>10. ASSUME NEW h \in Hosts, HostStep(h), UNCHANGED tables PROVE Undisturbed'
  <2>1. Cut(h) /\ Spend("cut") /\ UNCHANGED tasks => Undisturbed'
    BY <1>10, LinkStep DEF Spend
  <2>2. HostDies(h) /\ UNCHANGED tasks => Undisturbed'
    BY <1>10, HostDiesStep
  <2>3. (Heal(h) \/ HostBoots(h, {})) /\ UNCHANGED tasks => Undisturbed'
    BY <1>10, LinkStep
  <2>4. MarkDown(h) \/ HostBoots(h, BookedOn(h))
          => (ExpireLaunches(BookedOn(h)) => Undisturbed')
    BY <1>10, BootStep
  <2>. QED  BY <1>10, <2>1, <2>2, <2>3, <2>4 DEF HostStep
<1>11. CASE CuebotNext
  BY <1>3, <1>4, <1>5, <1>6, <1>7, <1>11 DEF CuebotNext, Booking, UserAsks
<1>12. CASE RqdNext
  BY <1>6, <1>8, <1>9, <1>10, <1>12 DEF RqdNext
<1>. QED  BY <1>6, <1>11, <1>12 DEF Next

\* And after every step.
LEMMA ExclNext ==
  ASSUME ~Stall, ExclInv, [Next]_vars
  PROVE  ExclInv'
<1>1. RunInv'
  BY RunNext DEF ExclInv
<1>2. requestsLeft' <= MaxRequests /\ (NobodyAsked' => NobodyAsked /\ ~UserAsks)
  BY StillNobody DEF ExclInv, RunInv
<1>3. Booking /\ NobodyAsked => Undisturbed'
  BY <1>1, BookStep DEF ExclInv, Booking
<1>. QED  BY <1>1, <1>2, <1>3, UndisturbedStep DEF ExclInv

-----------------------------------------------------------------------------
(* What follows from it. *)

\* lostProc, whose statements commit one by one, stops no run but the one whose
\* row it has deleted.
THEOREM LostStopsCorrect ==
  ASSUME ~Stall
  PROVE  Spec => []LostStopsOwnRun
<1>1. ExclInv => LostStopsOwnRun
  BY DEF ExclInv, Undisturbed, TasksInv, TaskInv, Sound, AtLost, LostPc, LostStopsOwnRun,
         StopMatches
<1>. QED  BY <1>1, ExclInit, ExclNext, PTL DEF Spec

\* And it gives the frame back only when what it took it from is doomed, whatever
\* hosts are cut off.
THEOREM LostReleaseCorrect ==
  ASSUME ~Stall
  PROVE  Spec => []LostReleasesNoRender
<1>1. ExclInv => LostReleasesNoRender
  BY DEF ExclInv, Undisturbed, TasksInv, TaskInv, Sound, AtLost, LostPc,
         LostReleasesNoRender, Doomed
<1>. QED  BY <1>1, ExclInit, ExclNext, PTL DEF Spec

\* No frame is rendered twice at once, however many bookings it has had, unless
\* lostProc gives up live hosts.
THEOREM RenderCorrect ==
  ASSUME ~Stall, Heard
  PROVE  Spec => []RenderExclusive
<1>1. ExclInv => RenderExclusive
  <2>1. SUFFICES ASSUME Undisturbed, NEW f \in Frames, NEW r \in render, NEW s \in render,
                        r.frame = f, s.frame = f, r.stage # "dying", s.stage # "dying"
                 PROVE  r = s
    BY DEF ExclInv, RenderExclusive
  <2>2. Owns(r.proc, f) /\ Owns(s.proc, f)
    BY <2>1 DEF Undisturbed, RendersInv, RenderOK
  <2>3. s.proc = r.proc
    BY <2>2, OneOwner
  <2>. QED  BY <2>1, <2>3 DEF Undisturbed, RendersInv, RendersOnce
<1>. QED  BY <1>1, ExclInit, ExclNext, PTL DEF Spec

\* A request is made by an actor there is.
LEMMA NobodyThere ==
  ASSUME "retry" \notin Actors, "eat" \notin Actors
  PROVE  ~UserAsks
  BY DEF UserAsks, RetryRequest, EatRequest, UserRequest

\* And so the report of a run that is over frees no frame that is being rendered.
THEOREM FinalizeCorrect ==
  ASSUME ~Stall, Heard, "retry" \notin Actors, "eat" \notin Actors
  PROVE  Spec => []FinalizeFreesNoOtherRender
<1>. DEFINE Inv == ExclInv /\ NobodyAsked
<1>1. Init => Inv
  BY ExclInit DEF Init, NobodyAsked
<1>2. Inv /\ [Next]_vars => Inv'
  <2>1. SUFFICES ASSUME Inv, [Next]_vars PROVE Inv'
    OBVIOUS
  <2>2. ExclInv'
    BY <2>1, ExclNext
  <2>3. UNCHANGED requestsLeft
    BY <2>1, NobodyThere, OnlyUsersAsk DEF ExclInv, RunInv
  <2>. QED  BY <2>1, <2>2, <2>3 DEF NobodyAsked
<1>3. Inv => FinalizeFreesNoOtherRender
  <2>1. SUFFICES ASSUME Undisturbed, TypeInv, NEW t \in tasks, t.pc = "final3",
                        StopMatches(t.frame, t.ver), NEW r \in render,
                        r.frame = t.frame, r.stage # "dying"
                 PROVE  FALSE
    BY DEF ExclInv, RunInv, FinalizeFreesNoOtherRender
  <2>2. ProcsOn(t.frame) = {}
    BY <2>1 DEF Undisturbed, TasksInv, TaskInv, Sound, AtStop
  <2>3. Owns(r.proc, t.frame) /\ r.proc \in Procs
    BY <2>1, Kinds DEF Undisturbed, RendersInv, RenderOK
  <2>. QED  BY <2>2, <2>3 DEF Owns, ProcsOn
<1>. QED  BY <1>1, <1>2, <1>3, PTL DEF Spec

-----------------------------------------------------------------------------
(* A frame that has SUCCEEDED.  One statement looks at neither state nor     *)
(* version, lostProc's host-down reset: it is reached for a DEAD frame only, *)
(* and while its thread is alone nobody else moves a DEAD frame.             *)

\* lostProc takes one proc at a time.
LostAlone == \A t, u \in tasks : t.pc \in LostPc /\ u.pc \in LostPc => t = u

\* What nobody's asking leaves to be true of the threads.
Unasked ==
    /\ LostAlone
    /\ \A t \in tasks :
         /\ t.pc \notin UserPc /\ t.why # "failedKill"
         /\ t.pc = "lostHostDown" => frame[t.frame].state = "DEAD"

\* What has come to an end stays as it is.
Settled ==
    \A g \in Frames :
        frame[g].state \notin {"WAITING", "RUNNING"} => frame'[g].state = frame[g].state

\* No thread enters or goes on in lostProc or in a user's request.
NoneLost ==
    \A u \in tasks' :
        u \in tasks \/ (u.pc \notin LostPc \cup UserPc /\ u.why # "failedKill")

\* A thread that goes on with something else than lostProc.
LEMMA GoesNotLost ==
  ASSUME TypeInv, Unasked, NEW t \in tasks, NEW pc, pc \notin LostPc \cup UserPc,
         \/ Goes(t, pc)
         \/ \E a : GoesWith(t, pc, a)
         \/ \E v, a : GoesAt(t, pc, v, a)
  PROVE  NoneLost
<1>0. t \in Task /\ t.why # "failedKill"
  BY Kinds DEF Unasked
<1>1. CASE Goes(t, pc)
  <2>1. [t EXCEPT !.pc = pc].pc = pc /\ [t EXCEPT !.pc = pc].why = t.why
    BY <1>0 DEF Task
  <2>. QED  BY <1>0, <1>1, <2>1 DEF Goes, NoneLost
<1>2. ASSUME NEW a, GoesWith(t, pc, a) PROVE NoneLost
  <2>1. /\ [t EXCEPT !.pc = pc, !.arg = a].pc = pc
        /\ [t EXCEPT !.pc = pc, !.arg = a].why = t.why
    BY <1>0 DEF Task
  <2>. QED  BY <1>0, <1>2, <2>1 DEF GoesWith, NoneLost
<1>3. ASSUME NEW v, NEW a, GoesAt(t, pc, v, a) PROVE NoneLost
  <2>1. /\ [t EXCEPT !.pc = pc, !.ver = v, !.arg = a].pc = pc
        /\ [t EXCEPT !.pc = pc, !.ver = v, !.arg = a].why = t.why
    BY <1>0 DEF Task
  <2>. QED  BY <1>0, <1>3, <2>1 DEF GoesAt, NoneLost
<1>. QED  BY <1>1, <1>2, <1>3

\* One that ends.
LEMMA DoneNotLost ==
  ASSUME tasks' \subseteq tasks
  PROVE  NoneLost
  BY DEF NoneLost

\* A statement with the guard of a stop moves a RUNNING frame only.
LEMMA StopSettled ==
  ASSUME TypeInv, NEW f \in Frames, NEW s \in FrameState, NEW x \in Exit, NEW v,
         \/ UNCHANGED frame
         \/ StopMatches(f, v) /\ frame' = Stopped(f, s, x)
  PROVE  Settled
  BY StoppedFrame DEF TypeInv, TypeOK, StopMatches, Settled

\* Threads of all kinds but lostProc's and the users'.
LEMMA ThreadSettled ==
  ASSUME TypeInv, Unasked, NEW t \in tasks,
         LaunchStep(t) \/ ReportStep(t) \/ SweepStep(t)
  PROVE  Settled /\ NoneLost
<1>0. t \in Task /\ TaskOK(t) /\ (t.frame \in Frames => frame[t.frame].state \in FrameState)
  BY Kinds DEF TypeInv, TypeOK, TablesTypeOK, FrameRow
<1>. DEFINE Others == LaunchPc \cup ReportPc \cup SweepPc
<1>a. \A pc \in Others : Goes(t, pc) => NoneLost
  BY GoesNotLost DEF LaunchPc, ReportPc, SweepPc, LostPc, UserPc
<1>b. \A pc \in Others : \A a : GoesWith(t, pc, a) => NoneLost
  BY GoesNotLost DEF LaunchPc, ReportPc, SweepPc, LostPc, UserPc
<1>c. \A pc \in Others : \A v, a : GoesAt(t, pc, v, a) => NoneLost
  BY GoesNotLost DEF LaunchPc, ReportPc, SweepPc, LostPc, UserPc
<1>1. UNCHANGED frame => Settled
  BY DEF Settled
<1>2. CASE LaunchStep(t)
  <2>1. NoneLost
    <3>1. LaunchUnsent(t) => NoneLost
      BY <1>a, <1>b, DoneNotLost DEF LaunchUnsent, LaunchPc, Done
    <3>2. LaunchAccepted(t) => NoneLost
      BY <1>a, <1>b, DoneNotLost DEF LaunchAccepted, LaunchPc, Done
    <3>3. LaunchRefused(t) => NoneLost
      BY <1>a, <1>b, DoneNotLost DEF LaunchRefused, LaunchPc, Done
    <3>4. LaunchUnknown(t) => NoneLost
      BY <1>a, <1>b, DoneNotLost DEF LaunchUnknown, LaunchPc, Done
    <3>5. ConfirmPoll(t) => NoneLost
      BY <1>a, <1>b, DoneNotLost DEF ConfirmPoll, LaunchPc, Done
    <3>6. RollbackUnbook(t) => NoneLost
      BY <1>a, <1>b, DoneNotLost DEF RollbackUnbook, LaunchPc, Done
    <3>7. RollbackClear(t) => NoneLost
      BY <1>a, <1>b, DoneNotLost DEF RollbackClear, LaunchPc, Done
    <3>8. BestEffortKill(t) => NoneLost
      BY <1>a, <1>b, DoneNotLost DEF BestEffortKill, LaunchPc, Done
    <3>. QED  BY <1>2, <3>1, <3>2, <3>3, <3>4, <3>5, <3>6, <3>7, <3>8 DEF LaunchStep
  <2>2. CASE RollbackClear(t)
    <3>1. t.frame \in Frames /\ "WAITING" \in FrameState /\ "cleared" \in Exit
      BY <1>0, <2>2 DEF RollbackClear, TaskOK, Fits, FrameState, Exit
    <3>2. \/ UNCHANGED frame
          \/ StopMatches(t.frame, t.ver) /\ frame' = Stopped(t.frame, "WAITING", "cleared")
      BY <2>2 DEF RollbackClear, ClearMatches, Cleared
    <3>. QED  BY <2>1, <3>1, <3>2, StopSettled
  <2>3. UNCHANGED frame \/ RollbackClear(t)
    BY <1>2 DEF LaunchStep, LaunchUnsent, LaunchAccepted, LaunchRefused, LaunchUnknown,
                ConfirmPoll, RollbackUnbook, BestEffortKill, tables
  <2>. QED  BY <1>1, <2>1, <2>2, <2>3
<1>3. CASE ReportStep(t)
  <2>1. NoneLost
    <3>1. ResolveFrame(t) => NoneLost
      BY <1>a, <1>c, DoneNotLost DEF ResolveFrame, ReportPc, Done
    <3>2. DrainStop(t) => NoneLost
      BY <1>a, <1>c, DoneNotLost DEF DrainStop, ReportPc, Done
    <3>3. StaleRead(t) => NoneLost
      BY <1>a, <1>c, DoneNotLost DEF StaleRead, ReportPc, Done
    <3>4. StaleRelease(t) => NoneLost
      BY <1>a, <1>c, DoneNotLost DEF StaleRelease, ReportPc, Done
    <3>5. FinalRead(t) => NoneLost
      BY <1>a, <1>c, DoneNotLost DEF FinalRead, ReportPc, Done
    <3>6. FinalNoProc(t) => NoneLost
      BY <1>a, <1>c, DoneNotLost DEF FinalNoProc, ReportPc, Done
    <3>7. FinalStop(t) => NoneLost
      BY <1>a, <1>c, DoneNotLost DEF FinalStop, ReportPc, Done
    <3>. QED  BY <1>3, <3>1, <3>2, <3>3, <3>4, <3>5, <3>6, <3>7 DEF ReportStep
  <2>2. CASE DrainStop(t) \/ FinalStop(t)
    <3>1. t.frame \in Frames /\ t.arg \in FrameState /\ "reported" \in Exit
      BY <1>0, <2>2 DEF DrainStop, FinalStop, TaskOK, Fits, Exit
    <3>2. \/ UNCHANGED frame
          \/ StopMatches(t.frame, t.ver) /\ frame' = Stopped(t.frame, t.arg, "reported")
      BY <2>2 DEF DrainStop, FinalStop, tables
    <3>. QED  BY <2>1, <3>1, <3>2, StopSettled
  <2>3. UNCHANGED frame \/ DrainStop(t) \/ FinalStop(t)
    BY <1>3 DEF ReportStep, ResolveFrame, StaleRead, StaleRelease, FinalRead,
                FinalNoProc, tables
  <2>. QED  BY <1>1, <2>1, <2>2, <2>3
<1>4. CASE SweepStep(t)
  <2>1. NoneLost
    <3>1. OrphanCheck(t) => NoneLost
      BY <1>a, <1>b, DoneNotLost DEF OrphanCheck, SweepPc, Done
    <3>2. OrphanKill(t) => NoneLost
      BY <1>a, <1>b, DoneNotLost DEF OrphanKill, SweepPc, Done
    <3>3. OrphanPoll(t) => NoneLost
      BY <1>a, <1>b, DoneNotLost DEF OrphanPoll, SweepPc, Done
    <3>4. OrphanReset(t) => NoneLost
      BY <1>a, <1>b, DoneNotLost DEF OrphanReset, SweepPc, Done
    <3>. QED  BY <1>4, <3>1, <3>2, <3>3, <3>4 DEF SweepStep
  <2>2. CASE OrphanReset(t)
    <3>1. t.frame \in Frames /\ t.arg \in FrameState /\ "lost" \in Exit
      BY <1>0, <2>2 DEF OrphanReset, TaskOK, Fits, Exit
    <3>2. \/ UNCHANGED frame
          \/ StopMatches(t.frame, t.ver) /\ frame' = Stopped(t.frame, t.arg, "lost")
      BY <2>2 DEF OrphanReset
    <3>. QED  BY <2>1, <3>1, <3>2, StopSettled
  <2>3. UNCHANGED frame \/ OrphanReset(t)
    BY <1>4 DEF SweepStep, OrphanCheck, OrphanKill, OrphanPoll, tables
  <2>. QED  BY <1>1, <2>1, <2>2, <2>3
<1>. QED  BY <1>2, <1>3, <1>4

\* lostProc's own thread: it moves a DEAD frame at its last step, and no other
\* that has come to an end.
LEMMA LostSettled ==
  ASSUME TypeInv, Unasked, NEW t \in tasks, LostStep(t)
  PROVE  /\ \A g \in Frames : frame[g].state \in {"SUCCEEDED", "EATEN"}
                                => frame'[g].state = frame[g].state
         /\ Unasked'
<1>0. /\ t \in Task /\ TaskOK(t) /\ t.pc \in LostPc /\ t.why # "failedKill"
      /\ t.pc = "lostHostDown" => frame[t.frame].state = "DEAD"
      /\ \A u \in tasks : u.pc \in LostPc => u = t
  BY Kinds DEF Unasked, LostAlone, LostStep, LostKill, LostDecide, LostUnbook, LostRead,
               LostStop, LostDetail, LostHostDown, LostPc
<1>1. \/ Done(t)
      \/ \E pc \in LostPc : \E v, a : GoesAt(t, pc, v, a) /\ pc # "lostHostDown"
      \/ Goes(t, "lostHostDown") /\ frame[t.frame].state = "DEAD" /\ UNCHANGED frame
  <2>1. \A pc : Goes(t, pc) => GoesAt(t, pc, t.ver, t.arg)
    BY <1>0 DEF Task, Goes, GoesAt
  <2>2. \A pc, a : GoesWith(t, pc, a) => GoesAt(t, pc, t.ver, a)
    BY <1>0 DEF Task, GoesWith, GoesAt
  <2>3. \A pc \in LostPc : pc # "lostHostDown" =>
          \A v, a : GoesAt(t, pc, v, a) =>
            \E q \in LostPc : \E w, b : GoesAt(t, q, w, b) /\ q # "lostHostDown"
    OBVIOUS
  <2>4. LostKill(t) => \E v, a : GoesAt(t, "lostUnbook", v, a)
                                   \/ GoesAt(t, "lostDecide", v, a)
    BY <2>1 DEF LostKill
  <2>5. LostDecide(t) => Done(t) \/ \E v, a : GoesAt(t, "lostUnbook", v, a)
    BY <2>1, <2>2 DEF LostDecide
  <2>6. LostUnbook(t) => Done(t) \/ \E v, a : GoesAt(t, "lostRead", v, a)
                                                \/ GoesAt(t, "lostStop", v, a)
    BY <2>1 DEF LostUnbook
  <2>7. LostRead(t) => \E v, a : GoesAt(t, "lostStop", v, a)
    BY DEF LostRead
  <2>8. LostStop(t) => Done(t) \/ \E v, a : GoesAt(t, "lostDetail", v, a)
    BY <2>1 DEF LostStop
  <2>9. LostDetail(t) => \/ Done(t)
                         \/ Goes(t, "lostHostDown") /\ frame[t.frame].state = "DEAD"
                              /\ UNCHANGED frame
    BY DEF LostDetail, tables
  <2>10. LostHostDown(t) => Done(t)
    BY DEF LostHostDown
  <2>. QED  BY <2>3, <2>4, <2>5, <2>6, <2>7, <2>8, <2>9, <2>10 DEF LostStep, LostPc
<1>2. Unasked'
  <2>1. CASE Done(t)
    <3>1. tasks' \subseteq tasks /\ \A u \in tasks' : u.pc \notin LostPc
      BY <1>0, <2>1 DEF Done
    <3>. QED  BY <3>1 DEF Unasked, LostAlone, LostPc
  <2>2. ASSUME NEW pc \in LostPc, NEW v, NEW a, GoesAt(t, pc, v, a), pc # "lostHostDown"
        PROVE  Unasked'
    <3>. DEFINE u == [t EXCEPT !.pc = pc, !.ver = v, !.arg = a]
    <3>1. tasks' = (tasks \ {t}) \cup {u} /\ u.pc = pc /\ u.why = t.why
      BY <1>0, <2>2 DEF GoesAt, Task
    <3>. HIDE DEF u
    <3>2. \A w \in tasks' : w = u \/ (w \in tasks /\ w.pc \notin LostPc)
      BY <1>0, <3>1
    <3>. QED  BY <1>0, <2>2, <3>1, <3>2 DEF Unasked, LostAlone, LostPc, UserPc
  <2>3. CASE Goes(t, "lostHostDown") /\ frame[t.frame].state = "DEAD" /\ UNCHANGED frame
    <3>. DEFINE u == [t EXCEPT !.pc = "lostHostDown"]
    <3>1. /\ tasks' = (tasks \ {t}) \cup {u}
          /\ u.pc = "lostHostDown" /\ u.why = t.why /\ u.frame = t.frame
      BY <1>0, <2>3 DEF Goes, Task
    <3>. HIDE DEF u
    <3>2. \A w \in tasks' : w = u \/ (w \in tasks /\ w.pc \notin LostPc)
      BY <1>0, <3>1
    <3>. QED  BY <1>0, <2>3, <3>1, <3>2 DEF Unasked, LostAlone, LostPc, UserPc
  <2>. QED  BY <1>1, <2>1, <2>2, <2>3
<1>3. \A g \in Frames : frame[g].state \in {"SUCCEEDED", "EATEN"}
                          => frame'[g].state = frame[g].state
  <2>1. CASE LostStop(t)
    <3>1. t.frame \in Frames /\ t.arg \in FrameState /\ "lost" \in Exit
      BY <1>0, <2>1 DEF LostStop, TaskOK, Fits, Exit
    <3>2. Settled
      BY <2>1, <3>1, StopSettled DEF LostStop
    <3>. QED  BY <3>2 DEF Settled
  <2>2. CASE LostHostDown(t)
    <3>1. t.frame \in Frames /\ "WAITING" \in FrameState /\ "lost" \in Exit
          /\ frame[t.frame].state = "DEAD"
      BY <1>0, <2>2 DEF LostHostDown, TaskOK, Fits, FrameState, Exit
    <3>. QED  BY <2>2, <3>1, StoppedFrame
              DEF LostHostDown, HostDowned, TypeInv, TypeOK
  <2>3. UNCHANGED frame \/ LostStop(t) \/ LostHostDown(t)
    BY DEF LostStep, LostKill, LostDecide, LostUnbook, LostRead, LostDetail, tables
  <2>. QED  BY <2>1, <2>2, <2>3
<1>. QED  BY <1>2, <1>3

\* A step that starts neither a lostProc nor a user's thread keeps the rule.
LEMMA PlainUnasked ==
  ASSUME TypeInv, Unasked, NoneLost, Settled
  PROVE  Unasked'
<1>1. \A u \in tasks : TaskOK(u)
  BY Kinds
<1>2. LostAlone'
  BY DEF Unasked, LostAlone, NoneLost
<1>3. \A u \in tasks : u.pc = "lostHostDown" => u.frame \in Frames
  BY <1>1 DEF TaskOK, Fits
<1>4. \A u \in tasks : u.pc = "lostHostDown" => frame'[u.frame].state = "DEAD"
  BY <1>3 DEF Unasked, Settled
<1>. QED  BY <1>2, <1>4 DEF Unasked, NoneLost, LostPc, UserPc

\* Of the other steps only a booking moves a frame, and only a lostProc that is
\* alone starts.
LEMMA OtherSettled ==
  ASSUME TypeInv, Unasked, [Next]_vars, ~UserAsks, ~ \E t \in tasks : TaskStep(t)
  PROVE  Settled /\ Unasked'
<1>0. \A g \in Frames : frame[g].state \in FrameState
  BY DEF TypeInv, TypeOK, TablesTypeOK, FrameRow
<1>. DEFINE Plain == NoneLost /\ Settled
<1>1. ASSUME Plain PROVE Settled /\ Unasked'
  BY <1>1, PlainUnasked
<1>2. ASSUME NEW f \in Frames, NEW p \in Procs, NEW h \in Hosts, Book(f, p, h) PROVE Plain
  <2>1. \A g \in Frames : g # f => frame'[g] = frame[g]
    BY <1>2, StartedFrame DEF Book, TypeInv, TypeOK
  <2>2. Settled
    BY <1>2, <2>1 DEF Book, StartMatches, Settled
  <2>. QED  BY <1>2, <2>2 DEF Book, NewTask, NoneLost, LostPc, UserPc
<1>3. UNCHANGED frame => Settled
  BY DEF Settled
<1>4. ASSUME NEW m \in report, ReportArrives(m) PROVE Plain
  <2>1. \A pc \in {"drain", "final", "resolve", "stale"} : \A v, a :
          /\ NewTask(pc, m.proc, m.frame, v, a, "-").pc = pc
          /\ NewTask(pc, m.proc, m.frame, v, a, "-").why = "-"
    BY DEF NewTask
  <2>2. NoneLost
    BY <1>4, <2>1 DEF ReportArrives, NoneLost, LostPc, UserPc
  <2>. QED  BY <1>3, <1>4, <2>2 DEF ReportArrives, tables
<1>5. ASSUME NEW p \in Procs, NEW why \in {"orphan", "down"}, LostStart(p, why)
      PROVE  Settled /\ Unasked'
  <2>. DEFINE pc == IF proc[p].frame = NoFrame THEN "lostUnbook" ELSE "lostKill"
              v == NewTask(pc, p, proc[p].frame, 0, "WAITING", why)
  <2>0. v.why = why /\ v.pc \in {"lostUnbook", "lostKill"}
    BY DEF NewTask
  <2>1. PICK u : /\ tasks' = tasks \cup {u} /\ u.why # "failedKill"
                 /\ u.pc \in {"lostUnbook", "lostKill"}
    <3>1. tasks' = tasks \cup {v}
      BY <1>5 DEF LostStart
    <3>. HIDE DEF v
    <3>. QED  BY <2>0, <3>1
  <2>2. \A t \in tasks : t.pc \notin LostPc
    BY <1>5 DEF LostStart, LostRunning, Unasked
  <2>3. UNCHANGED frame
    BY <1>5 DEF LostStart, tables
  <2>. QED  BY <1>3, <2>1, <2>2, <2>3 DEF Unasked, LostAlone, LostPc, UserPc
<1>6. ASSUME NEW f \in Frames, OrphanFound(f) PROVE Plain
  BY <1>3, <1>6 DEF OrphanFound, NewTask, NoneLost, LostPc, UserPc, tables
<1>7. ASSUME NEW p \in Procs, Ping(p) PROVE Plain
  <2>1. proc[p].frame \in Frames
    BY <1>7 DEF Ping, Pinged, TypeInv, TypeOK, RqdTypeOK, Render
  <2>. QED  BY <1>7, <2>1, AgedFrame, DoneNotLost DEF Ping, Settled
<1>8. ASSUME NEW P, ExpireLaunches(P) PROVE NoneLost
  <2>. SUFFICES ASSUME NEW u \in tasks', u \notin tasks
                PROVE  u.pc \notin LostPc \cup UserPc /\ u.why # "failedKill"
    BY DEF NoneLost
  <2>1. PICK t \in tasks : u = IF t.pc = "launch" /\ t.proc \in P
                                THEN [t EXCEPT !.arg = "expired"] ELSE t
    BY <1>8 DEF ExpireLaunches
  <2>2. t.pc = "launch" /\ u = [t EXCEPT !.arg = "expired"]
    BY <2>1
  <2>3. u.pc = "launch" /\ u.why = t.why
    BY <2>2, Kinds DEF Task
  <2>. QED  BY <2>3 DEF Unasked, LostPc, UserPc
<1>9. ASSUME NEW p \in Procs, AgeProc(p) PROVE Plain
  BY <1>3, <1>8, <1>9 DEF AgeProc
<1>10. ASSUME NEW f \in Frames, AgeFrame(f) PROVE Plain
  BY <1>8, <1>10, AgedFrame DEF AgeFrame, Settled
<1>11. CASE CuebotStops \/ (\E r \in render : VerifyKill(r)) \/ UNCHANGED vars
  BY <1>1, <1>3, <1>11, DoneNotLost DEF CuebotStops, VerifyKill, vars, tables
<1>12. ASSUME RqdNext PROVE Plain
  <2>1. NoneLost
    BY <1>8, <1>12, DoneNotLost DEF RqdNext, HostStep
  <2>. QED  BY <1>3, <1>12, <2>1 DEF RqdNext, tables
<1>13. CASE CuebotNext
  BY <1>1, <1>2, <1>4, <1>5, <1>6, <1>7, <1>9, <1>10, <1>11, <1>13
     DEF CuebotNext, UserAsks
<1>. QED  BY <1>1, <1>11, <1>12, <1>13 DEF Next

\* The inductive invariant.
SuccInv == TypeInv /\ requestsLeft <= MaxRequests /\ (NobodyAsked => Unasked)

\* At the start nobody has asked and nothing is under way.
LEMMA SuccInit == Init => SuccInv
<1>1. Init => requestsLeft <= MaxRequests /\ tasks = {}
  BY BoundsAssumption DEF Init
<1>. QED  BY <1>1, TypeInit DEF SuccInv, Unasked, LostAlone

\* As long as nobody asks, no step takes a frame out of an end state.
LEMMA UnaskedStep ==
  ASSUME TypeInv, Unasked, [Next]_vars, ~UserAsks
  PROVE  /\ \A g \in Frames : frame[g].state \in {"SUCCEEDED", "EATEN"}
                                => frame'[g].state = frame[g].state
         /\ Unasked'
<1>1. Settled => \A g \in Frames : frame[g].state \in {"SUCCEEDED", "EATEN"}
                                     => frame'[g].state = frame[g].state
  BY DEF Settled
<1>2. ASSUME NEW t \in tasks, LaunchStep(t) \/ ReportStep(t) \/ SweepStep(t)
      PROVE  Settled /\ Unasked'
  BY <1>2, ThreadSettled, PlainUnasked
<1>3. ASSUME NEW t \in tasks PROVE ~UserStep(t)
  BY DEF Unasked, UserStep, UserPc, RetryKill, RetryPoll, RetryStop, RetryRead,
         RetryForce, EatStop, EatKill, EatForce
<1>4. CASE \E t \in tasks : TaskStep(t)
  BY <1>1, <1>2, <1>3, <1>4, LostSettled DEF TaskStep
<1>. QED  BY <1>1, <1>4, OtherSettled

\* A request reads, and writes nothing.
LEMMA AskingSettled == UserAsks => Settled
  BY DEF UserAsks, RetryRequest, EatRequest, UserRequest, Settled, tables

\* And it stays so.
LEMMA SuccNext == SuccInv /\ [Next]_vars => SuccInv'
<1>1. SUFFICES ASSUME SuccInv, [Next]_vars PROVE SuccInv'
  OBVIOUS
<1>2. TypeInv'
  BY <1>1, TypeNext DEF SuccInv
<1>3. requestsLeft' <= MaxRequests /\ (NobodyAsked' => NobodyAsked /\ ~UserAsks)
  BY <1>1, StillNobody DEF SuccInv
<1>. QED  BY <1>1, <1>2, <1>3, UnaskedStep DEF SuccInv

\* A frame that has SUCCEEDED keeps its state until a user asks for it, whatever
\* faults and however threads are stalled: the last statement of lostProc, which
\* would take it back, only ever meets the DEAD frame it has read.
THEOREM SucceededCorrect == Spec => SucceededStays
<1>1. SuccInv /\ [Next]_vars =>
        [\A f \in Frames : NobodyAsked /\ frame[f].state = "SUCCEEDED"
                             => frame'[f].state = "SUCCEEDED"]_vars
  <2>1. SUFFICES ASSUME SuccInv, [Next]_vars, NobodyAsked, NEW f \in Frames,
                        frame[f].state = "SUCCEEDED"
                 PROVE  frame'[f].state = "SUCCEEDED"
    OBVIOUS
  <2>2. CASE UserAsks
    BY <2>1, <2>2, AskingSettled DEF Settled
  <2>3. CASE ~UserAsks
    BY <2>1, <2>3, UnaskedStep DEF SuccInv
  <2>. QED  BY <2>2, <2>3
<1>. QED  BY <1>1, SuccInit, SuccNext, PTL DEF Spec, SucceededStays
=============================================================================
