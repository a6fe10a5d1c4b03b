------------------------------ MODULE RqdNimby ------------------------------
(***************************************************************************)
(* A desktop that renders while nobody uses it: the Nimby thread, its      *)
(* input listeners and the RQD process they lock.                          *)
(*                                                                         *)
(* A listener that notices somebody kills the frames, reports the host and *)
(* then sets the lock; the checker takes the lock off when nobody was seen *)
(* for a while.  They share is_user_active and locked without a mutex, and *)
(* a report that raises ends the thread that sends it.                     *)
(***************************************************************************)
EXTENDS RqdHost

CONSTANTS
    Listeners,      \* the mouse listener, the keyboard listener
    MaxVisits       \* bound: how often somebody comes back

ASSUME NimbyAssumption == MaxVisits \in Nat

VARIABLES
    present,        \* somebody is at the machine
    seenLately,     \* last_activity_time is within idle_threshold
    userActive,     \* __is_user_active
    isReady,        \* is_ready
    interrupt,      \* __interrupt
    listener,       \* where each listener's __on_interaction stands
    checker,        \* where __check_state stands
    visitsLeft

nimbyVars == <<present, seenLately, userActive, isReady, interrupt, listener,
               checker, visitsLeft>>
desktopVars == <<vars, nimbyVars>>

\* The machine was started and the listeners with it.
NimbyInit ==
    /\ HostInit
    /\ present = FALSE
    /\ seenLately = TRUE
    /\ userActive = FALSE
    /\ isReady = TRUE
    /\ interrupt = FALSE
    /\ listener = [l \in Listeners |-> "wait"]
    /\ checker = "sleep"
    /\ visitsLeft = MaxVisits

HostStep == HostNext /\ UNCHANGED nimbyVars

-----------------------------------------------------------------------------
(* Somebody comes, and goes. *)

Arrives ==
    /\ ~present
    /\ visitsLeft > 0
    /\ visitsLeft' = visitsLeft - 1
    /\ present' = TRUE
    /\ UNCHANGED <<vars, seenLately, userActive, isReady, interrupt, listener,
                   checker>>

Leaves ==
    /\ present
    /\ present' = FALSE
    /\ UNCHANGED <<vars, seenLately, userActive, isReady, interrupt, listener,
                   checker, visitsLeft>>

\* idle_threshold seconds without an interaction.
TimePasses ==
    /\ ~present
    /\ seenLately
    /\ seenLately' = FALSE
    /\ UNCHANGED <<vars, present, userActive, isReady, interrupt, listener,
                   checker, visitsLeft>>

-----------------------------------------------------------------------------
(* A listener: __on_interaction and __lock_host_for_rendering. *)

Listen(l, from, to) ==
    /\ listener[l] = from
    /\ listener' = [listener EXCEPT ![l] = to]
    /\ UNCHANGED <<present, isReady, interrupt, checker, visitsLeft>>

Interacts(l) ==
    /\ present
    /\ Listen(l, "wait", IF userActive THEN "seen" ELSE "kill")
    /\ UNCHANGED <<vars, seenLately, userActive>>

\* killAllFrame("NIMBY Triggered"): frames that ignore nimby stay.
Killable == {r \in Cached : ~Want[r].ignoreNimby}

\* Mutant: nothing to kill, nothing to lock.
NimbyKillsOnly(l) ==
    /\ IF Killable = {}
         THEN Listen(l, "kill", "seen") /\ UNCHANGED <<killed, process>>
         ELSE Listen(l, "kill", "kill") /\ KillRenders(Killable)
    /\ UNCHANGED <<coreVars, stage, cache, sent, told, noPid, doubled, status,
                   cmdVars, nimbyLocked, faultsLeft, seenLately, userActive>>

NimbyKills(l) ==
    /\ IF Killable = {}
         THEN Listen(l, "kill", "report") /\ UNCHANGED <<killed, process>>
         ELSE Listen(l, "kill", "kill") /\ KillRenders(Killable)
    /\ UNCHANGED <<coreVars, stage, cache, sent, told, noPid, doubled, status,
                   cmdVars, nimbyLocked, faultsLeft, seenLately, userActive>>

NimbyReports(l) ==
    /\ \/ Reaches /\ Listen(l, "report", "lock")
       \/ Raises /\ Listen(l, "report", "dead")
    /\ UNCHANGED <<coreVars, process, frameVars, cmdVars, nimbyLocked,
                   seenLately, userActive>>

NimbyLocks(l) ==
    /\ Listen(l, "lock", "seen")
    /\ nimbyLocked' = TRUE
    /\ UNCHANGED <<coreVars, process, frameVars, cmdVars, faultsLeft,
                   seenLately, userActive>>

Notes(l) ==
    /\ Listen(l, "seen", "wait")
    /\ seenLately' = TRUE
    /\ userActive' = TRUE
    /\ UNCHANGED vars

-----------------------------------------------------------------------------
(* The checker: __check_state and __unlock_host_for_rendering. *)

Check(from, to) ==
    /\ checker = from
    /\ checker' = to
    /\ UNCHANGED <<present, seenLately, isReady, interrupt, listener,
                   visitsLeft>>

\* Mutant: a user once active stays active.
ChecksNothing ==
    /\ ~interrupt
    /\ Check("sleep", "test")
    /\ UNCHANGED <<vars, userActive>>

ChecksActivity ==
    /\ ~interrupt
    /\ Check("sleep", "test")
    /\ userActive' = (userActive /\ seenLately)
    /\ UNCHANGED vars

\* isNimbySafeToRunJobs: enough memory and swap, or not.
ChecksLock(safe) ==
    /\ Check("test", IF nimbyLocked /\ ~userActive /\ safe THEN "unlock"
                                                          ELSE "sleep")
    /\ UNCHANGED <<vars, userActive>>

\* The report of onNimbyUnlock.  Raising it ends the thread, and the listeners
\* are stopped.
NimbyReportsUnlock ==
    /\ \/ Reaches /\ Check("unlock", "open")
       \/ /\ Raises
          /\ checker = "unlock"
          /\ checker' = "dead"
          /\ isReady' = FALSE
          /\ listener' = [l \in Listeners |->
                            IF listener[l] = "wait" THEN "dead"
                                                    ELSE listener[l]]
          /\ UNCHANGED <<present, seenLately, interrupt, visitsLeft>>
    /\ UNCHANGED <<coreVars, process, frameVars, cmdVars, nimbyLocked,
                   userActive>>

NimbyUnlocks ==
    /\ Check("open", "sleep")
    /\ nimbyLocked' = FALSE
    /\ UNCHANGED <<coreVars, process, frameVars, cmdVars, faultsLeft,
                   userActive>>

-----------------------------------------------------------------------------
(* nimbyOff, and the interval timer that starts nimby again. *)

NimbyOff ==
    /\ Receive("nimbyOff")
    /\ interrupt' = TRUE
    /\ UNCHANGED <<coreVars, process, frameVars, whenIdle, reboot, hwState, pc,
                   nimbyLocked, faultsLeft, present, seenLately, userActive,
                   isReady, listener, checker, visitsLeft>>

ThreadEnds ==
    /\ interrupt
    /\ checker = "sleep"
    /\ checker' = "dead"
    /\ isReady' = FALSE
    /\ listener' = [l \in Listeners |-> IF listener[l] = "wait" THEN "dead"
                                                              ELSE listener[l]]
    /\ UNCHANGED <<vars, present, seenLately, userActive, interrupt,
                   visitsLeft>>

\* retryNimby: a new Nimby, unlocked, whatever the old one had locked.  Assumed:
\* every fifth heartbeat is late enough for the callbacks of the old listeners to
\* be over; the code does not wait for them.
RetryNimby ==
    /\ ~isReady
    /\ \A l \in Listeners : listener[l] \in {"wait", "dead"}
    /\ isReady' = TRUE
    /\ nimbyLocked' = FALSE
    /\ userActive' = FALSE
    /\ seenLately' = TRUE
    /\ interrupt' = FALSE
    /\ listener' = [l \in Listeners |-> "wait"]
    /\ checker' = "sleep"
    /\ UNCHANGED <<coreVars, process, frameVars, cmdVars, faultsLeft, present,
                   visitsLeft>>

-----------------------------------------------------------------------------

ListenerSteps(l) ==
    NimbyKills(l) \/ NimbyReports(l) \/ NimbyLocks(l) \/ Notes(l)

CheckerSteps ==
    \/ ChecksActivity
    \/ \E safe \in BOOLEAN : ChecksLock(safe)
    \/ NimbyReportsUnlock
    \/ NimbyUnlocks
    \/ ThreadEnds

DesktopNext ==
    /\ process = "up"
    /\ \/ HostStep
       \/ Arrives \/ Leaves \/ TimePasses
       \/ \E l \in Listeners : Interacts(l) \/ ListenerSteps(l)
       \/ CheckerSteps
       \/ NimbyOff
       \/ RetryNimby

DesktopSpec == NimbyInit /\ [][DesktopNext]_desktopVars

Up(A) == process = "up" /\ A

\* Threads run, renders end, the clock goes on, and memory comes free again and
\* again.
FairDesktopSpec ==
    /\ DesktopSpec
    /\ WF_desktopVars(Up(Threads /\ UNCHANGED nimbyVars))
    /\ WF_desktopVars(Up(TimePasses \/ RetryNimby))
    /\ \A l \in Listeners : WF_desktopVars(Up(ListenerSteps(l)))
    /\ WF_desktopVars(Up(CheckerSteps))
    /\ SF_desktopVars(Up(ChecksLock(TRUE) /\ checker' = "unlock"))

-----------------------------------------------------------------------------
(* Properties. *)

\* A listener that has begun to kill for somebody at the machine locks the host,
\* whatever the checker, nimbyOff and the retry do meanwhile, unless the report
\* of it could not be sent.  (A frame launched before the lock may go on.)
InteractionLocks ==
    \A l \in Listeners :
        listener[l] = "kill" ~> (nimbyLocked \/ listener[l] = "dead"
                                   \/ process # "up")

\* A machine everybody has left renders again.
LeftIsUnlocked == []<>(present \/ ~nimbyLocked \/ process # "up")

\* While somebody works at the machine, and nimby has finished what it was
\* doing, the host is locked.
ActiveUserLocked ==
    /\ userActive
    /\ isReady
    /\ checker = "sleep"
    /\ \A l \in Listeners : listener[l] = "wait"
    => nimbyLocked

\* Units are lost in one way only: unlockAll on a host nimby has locked.
LostByNimbyUnlockOnly ==
    [][NoCoreLost /\ ~NoCoreLost' =>
         nimbyLocked /\ At("grpc", "unlockAll")]_desktopVars
=============================================================================
