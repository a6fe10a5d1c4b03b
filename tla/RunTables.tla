------------------------------ MODULE RunTables ------------------------------
(***************************************************************************)
(* The two database tables that say who renders what: frame and proc.      *)
(*                                                                         *)
(* Every Cuebot instance, every thread of it and every maintenance pass    *)
(* meets the others only through these rows, so each SQL statement of      *)
(* FrameDaoJdbc and ProcDaoJdbc is one operator here: a guard (the WHERE   *)
(* clause) and the new table (the SET clause).  The actions that issue     *)
(* them, and the order they are issued in, are in FrameRun.                *)
(*                                                                         *)
(* A proc row is never updated into another booking by the Maestro path:   *)
(* each booking inserts a fresh pk_proc, so a member of Procs is one       *)
(* booking and the size of Procs bounds how many bookings a behaviour has. *)
(***************************************************************************)
EXTENDS Naturals

CONSTANTS
    Frames,     \* frame rows
    Hosts,      \* render hosts
    Procs,      \* proc ids a behaviour may insert, one per booking
    NoFrame,    \* proc.pk_frame IS NULL
    NoHost,     \* frame.str_host IS NULL: the frame never ran
    NoProc      \* no booking

ASSUME NullAssumption ==
    /\ NoFrame \notin Frames
    /\ NoHost \notin Hosts
    /\ NoProc \notin Procs

VARIABLES frame, proc

tables == <<frame, proc>>

(***************************************************************************)
(* DEPEND, SETUP and CHECKPOINT are outside the run of a frame.            *)
(***************************************************************************)
FrameState == {"WAITING", "RUNNING", "SUCCEEDED", "EATEN", "DEAD"}

(***************************************************************************)
(* What int_exit_status is used for here: "lost" stands for the three      *)
(* statuses a frame gets when its run was taken away rather than reported  *)
(* (EXIT_STATUS_FRAME_ORPHAN, DOWN_HOST and FAILED_KILL).                  *)
(***************************************************************************)
Exit == {"none", "reported", "cleared", "manual", "lost"}

(***************************************************************************)
(* ver is int_version; old is "ts_updated is more than 300 seconds ago".   *)
(* by is not a column: it remembers which booking started the latest run,  *)
(* so that properties can tell one run of a frame from the next.           *)
(***************************************************************************)
FrameRow ==
    [state : FrameState, ver : Nat, host : Hosts \cup {NoHost},
     exit : Exit, old : BOOLEAN, by : Procs \cup {NoProc}]

(***************************************************************************)
(* row: not inserted yet, present, or deleted.  old is "ts_ping is older   *)
(* than the orphan age".                                                   *)
(***************************************************************************)
ProcRow ==
    [row : {"unused", "live", "gone"}, frame : Frames \cup {NoFrame},
     host : Hosts \cup {NoHost}, old : BOOLEAN]

TablesTypeOK ==
    /\ frame \in [Frames -> FrameRow]
    /\ proc \in [Procs -> ProcRow]

TablesInit ==
    /\ frame = [f \in Frames |->
                  [state |-> "WAITING", ver |-> 0, host |-> NoHost,
                   exit |-> "none", old |-> FALSE, by |-> NoProc]]
    /\ proc = [p \in Procs |->
                  [row |-> "unused", frame |-> NoFrame, host |-> NoHost,
                   old |-> FALSE]]

-----------------------------------------------------------------------------
(* Reads. *)

\* The proc rows whose pk_frame is f; c_proc_uk makes it at most one.
ProcsOn(f) == {p \in Procs : proc[p].row = "live" /\ proc[p].frame = f}

\* IS_ORPHAN: RUNNING, no proc, and not updated for 300 seconds.
IsOrphan(f) ==
    /\ frame[f].state = "RUNNING"
    /\ frame[f].old
    /\ ProcsOn(f) = {}

\* GET_ORPHANED_PROC_LIST: no ping for the orphan age, with a frame or without.
OrphanedProcs == {p \in Procs : proc[p].row = "live" /\ proc[p].old}

-----------------------------------------------------------------------------
(* Statements on the frame table: guard, then new table. *)

StartMatches(f, v) == frame[f].state = "WAITING" /\ frame[f].ver = v

\* int_exit_status is left as the previous run wrote it.
Started(f, p, h) ==
    [frame EXCEPT ![f] =
        [frame[f] EXCEPT !.state = "RUNNING", !.ver = frame[f].ver + 1,
                         !.host = h, !.old = FALSE, !.by = p]]

\* Mutant: the stop is not fenced on the version it was decided at.
StopMatchesAnyVersion(f, v) == frame[f].state = "RUNNING"

StopMatches(f, v) == frame[f].state = "RUNNING" /\ frame[f].ver = v

\* Mutant: the two parameters are bound in the wrong order.
StoppedSwapped(f, s, x) ==
    [frame EXCEPT ![f] =
        [frame[f] EXCEPT !.state = x, !.ver = frame[f].ver + 1,
                         !.exit = s, !.old = FALSE]]

Stopped(f, s, x) ==
    [frame EXCEPT ![f] =
        [frame[f] EXCEPT !.state = s, !.ver = frame[f].ver + 1,
                         !.exit = x, !.old = FALSE]]

\* UPDATE_FRAME_CLEARED_IF_RUNNING: as a stop, and no proc may hold the frame.
ClearMatches(f, v) == StopMatches(f, v) /\ ProcsOn(f) = {}

Cleared(f) == Stopped(f, "WAITING", "cleared")

\* UPDATE_FRAME_REASON fences neither on the state nor on the version.
HostDownMatches(f) == ProcsOn(f) = {}

HostDowned(f) == Stopped(f, "WAITING", "lost")

\* UPDATE_FRAME_STATE fences on the version only.
ForceMatches(f, v) == frame[f].ver = v

Forced(f, s) ==
    [frame EXCEPT ![f] =
        [frame[f] EXCEPT !.state = s, !.ver = frame[f].ver + 1, !.old = FALSE]]

-----------------------------------------------------------------------------
(* Statements on the proc table. *)

\* The delete is by pk_proc: it does not look at the assignment.
DeleteMatches(p) == proc[p].row = "live"

Gone(p) == [proc[p] EXCEPT !.row = "gone", !.frame = NoFrame, !.old = FALSE]

Deleted(p) == [proc EXCEPT ![p] = Gone(p)]

DeletedIfThere(p) == IF DeleteMatches(p) THEN Deleted(p) ELSE proc

\* Mutant: a stop that leaves the assignment behind.
UnassignedNothing(f) == proc

\* CLEAR_VIRTUAL_PROC_ASSIGN_BY_FRAME.
Unassigned(f) ==
    [p \in Procs |-> IF p \in ProcsOn(f)
                       THEN [proc[p] EXCEPT !.frame = NoFrame]
                       ELSE proc[p]]

\* The insert of the batch commit, after the eviction of the rows on f.
EvictedAndInserted(f, p, h) ==
    [q \in Procs |->
        IF q = p THEN [row |-> "live", frame |-> f, host |-> h, old |-> FALSE]
        ELSE IF q \in ProcsOn(f) THEN Gone(q) ELSE proc[q]]
=============================================================================
