--------------------------- MODULE RqdNimby_proofs ---------------------------
(***************************************************************************)
(* Proofs about RqdNimby, for any desktop, listeners and bounds.           *)
(*                                                                         *)
(* What nimby does beside the host's own steps touches neither the ledger  *)
(* nor the cache: it signals renders, reports, and turns nimbyLocked.  So  *)
(* the host's invariant holds on a desktop too, but for the units that     *)
(* unlockAll forgets on a host that nimby has locked.                      *)
(***************************************************************************)
EXTENDS RqdNimby, RqdHost_proofs

\* A step of nimby: the ledger, the launches and the cache stay.
Aside == UNCHANGED <<coreVars, stage, cache, status, doubled>>

\* Somebody comes or goes, time passes, a listener or the checker takes a step
\* that leaves the host alone.
LEMMA WatchAside ==
  ASSUME HostTypeOK,
         \/ Arrives \/ Leaves \/ TimePasses
         \/ \E l \in Listeners : Interacts(l) \/ Notes(l)
         \/ ChecksActivity
         \/ \E safe \in BOOLEAN : ChecksLock(safe)
         \/ ThreadEnds
  PROVE  UNCHANGED vars
  BY DEF Arrives, Leaves, TimePasses, Interacts, Notes, ChecksActivity,
         ChecksLock, ThreadEnds

\* The types after a step that leaves the frames and the commands alone.
LEMMA AsideType ==
  ASSUME HostTypeOK, UNCHANGED <<coreVars, process, frameVars, cmdVars>>,
         nimbyLocked' \in BOOLEAN, faultsLeft' \in Nat
  PROVE  HostTypeOK' /\ Aside
  BY CoresSame DEF HostTypeOK, Aside, frameVars, cmdVars

\* A listener kills: the renders that may be killed are signalled.
LEMMA NimbyKillsAside ==
  ASSUME HostTypeOK, NEW l \in Listeners, NimbyKills(l)
  PROVE  HostTypeOK' /\ Aside
<1>1. Killable \in SUBSET Runs
  BY CachedType DEF Killable
<1>2. killed' \subseteq Runs /\ process' \in {"up", "exited", "crashed"}
  BY <1>1, KillType DEF NimbyKills, HostTypeOK
<1>3. CoresTypeOK'
  BY CoresSame DEF NimbyKills, HostTypeOK
<1>4. UNCHANGED <<coreVars, stage, cache, sent, told, noPid, doubled, status,
                  cmdVars, nimbyLocked, faultsLeft>>
  BY DEF NimbyKills
<1>. QED  BY <1>2, <1>3, <1>4 DEF HostTypeOK, Aside, cmdVars

\* Reports, the lock and its release, nimbyOff and a new Nimby.
LEMMA NimbyTurns ==
  ASSUME HostTypeOK,
         \/ \E l \in Listeners : NimbyReports(l) \/ NimbyLocks(l)
         \/ NimbyReportsUnlock \/ NimbyUnlocks
         \/ RetryNimby
  PROVE  HostTypeOK' /\ Aside
<1>1. nimbyLocked' \in BOOLEAN
  BY DEF HostTypeOK, NimbyReports, NimbyLocks, NimbyReportsUnlock, NimbyUnlocks,
         RetryNimby
<1>2. faultsLeft' \in Nat
  <2>1. faultsLeft' = faultsLeft \/ Reaches \/ Raises
    BY DEF NimbyReports, NimbyLocks, NimbyReportsUnlock, NimbyUnlocks, RetryNimby
  <2>. QED  BY <2>1, ReachType DEF HostTypeOK
<1>3. UNCHANGED <<coreVars, process, frameVars, cmdVars>>
  BY DEF NimbyReports, NimbyLocks, NimbyReportsUnlock, NimbyUnlocks, RetryNimby
<1>. QED  BY <1>1, <1>2, <1>3, AsideType

\* nimbyOff asks the Nimby thread to end, and counts as a command.
LEMMA NimbyOffAside ==
  ASSUME HostTypeOK, NimbyOff
  PROVE  HostTypeOK' /\ Aside
<1>1. commandsLeft' \in Nat
  BY DEF NimbyOff, Receive, HostTypeOK
<1>2. CoresTypeOK'
  BY CoresSame DEF NimbyOff, HostTypeOK
<1>. QED  BY <1>1, <1>2 DEF NimbyOff, HostTypeOK, Aside, frameVars

\* A step of a desktop is one of the host or beside it.
LEMMA NimbySteps ==
  ASSUME HostTypeOK, DesktopNext
  PROVE  HostNext \/ UNCHANGED vars \/ (HostTypeOK' /\ Aside)
<1>1. CASE HostStep
  BY <1>1 DEF HostStep
<1>2. ASSUME NEW l \in Listeners, Interacts(l) \/ ListenerSteps(l)
      PROVE  UNCHANGED vars \/ (HostTypeOK' /\ Aside)
  BY <1>2, WatchAside, NimbyKillsAside, NimbyTurns DEF ListenerSteps
<1>3. CASE Arrives \/ Leaves \/ TimePasses
  BY <1>3, WatchAside
<1>4. CASE CheckerSteps
  BY <1>4, WatchAside, NimbyTurns DEF CheckerSteps
<1>5. CASE NimbyOff \/ RetryNimby
  BY <1>5, NimbyOffAside, NimbyTurns
<1>. QED  BY <1>1, <1>2, <1>3, <1>4, <1>5 DEF DesktopNext

-----------------------------------------------------------------------------
(* The ledger of a desktop. *)

\* A step beside the host leaves the ledger as it was.
LEMMA AsideQuiet ==
  ASSUME Aside
  PROVE  Quiet
  BY HoldingSame DEF Aside, Quiet, coreVars

\* The host's invariant is kept by every step of a desktop.
LEMMA DesktopStep ==
  ASSUME HostInv, [DesktopNext]_desktopVars
  PROVE  /\ HostInv'
         /\ Balanced \/ Forgets
         /\ Ledger \/ UNCHANGED vars
<1>1. CASE DesktopNext
  <2>1. CASE HostNext
    BY <2>1, HostInvStep
  <2>2. CASE UNCHANGED vars
    BY <2>2, HostSame
  <2>3. CASE HostTypeOK' /\ Aside
    BY <2>3, AsideQuiet, QuietLedger DEF HostInv, Ledger
  <2>. QED  BY <1>1, <2>1, <2>2, <2>3, NimbySteps DEF HostInv
<1>2. CASE UNCHANGED desktopVars
  BY <1>2, HostSame DEF desktopVars
<1>. QED  BY <1>1, <1>2

\* It holds when the machine is started.
LEMMA DesktopStart == NimbyInit => HostInv
  BY HostStart DEF NimbyInit

\* The host's invariant holds on a desktop.
LEMMA DesktopInvHolds == DesktopSpec => []HostInv
<1>1. HostInv /\ [DesktopNext]_desktopVars => HostInv'
  BY DesktopStep
<1>. QED  BY <1>1, DesktopStart, PTL DEF DesktopSpec

\* The host's variables keep their types, whoever sits at the machine.
THEOREM DesktopTypeCorrect == DesktopSpec => []HostTypeOK
<1>1. HostInv => HostTypeOK
  BY DEF HostInv
<1>. QED  BY <1>1, DesktopInvHolds, PTL

\* Nimby's kills and locks release nothing twice: the booked units are those
\* of the launches that hold cores.
THEOREM DesktopAccountedCorrect == DesktopSpec => []CoresAccounted
<1>1. HostInv => CoresAccounted
  BY DEF HostInv, LedgerInv, UnitsCounted
<1>. QED  BY <1>1, DesktopInvHolds, PTL

\* A locked unit of a desktop is not idle, nimby or not.
THEOREM DesktopLockedCorrect == DesktopSpec => []LockedNotIdle
<1>1. HostInv => LockedNotIdle
  BY DEF HostInv, LedgerInv
<1>. QED  BY <1>1, DesktopInvHolds, PTL

\* No listener, checker, launch, release or command forgets a unit, but for
\* unlockAll on a host that nimby has locked (unlock_all gives locked cores
\* back to the idle ones only while nimby is not locked).
THEOREM LostByNimbyCorrect == DesktopSpec => LostByNimbyUnlockOnly
<1>1. HostInv /\ [DesktopNext]_desktopVars
        => [NoCoreLost /\ ~NoCoreLost' =>
              nimbyLocked /\ At("grpc", "unlockAll")]_desktopVars
  BY DesktopStep DEF Balanced, Forgets
<1>. QED  BY <1>1, DesktopInvHolds, PTL DEF DesktopSpec, LostByNimbyUnlockOnly

-----------------------------------------------------------------------------
(* Its GPUs and its cache. *)

\* The GPUs of a desktop are an exclusive pool: a render that nimby killed keeps
\* its own until its attendant gives them back.
THEOREM DesktopGpusCorrect == DesktopSpec => GpusExclusive
<1>1. HostInv /\ [DesktopNext]_desktopVars => [GpuPool!PoolNext]_gpuOwners
  BY DesktopStep, PoolStep
<1>2. NimbyInit => GpuPool!PoolInit
  BY PoolStart DEF NimbyInit
<1>. QED  BY <1>1, <1>2, DesktopInvHolds, PTL
          DEF DesktopSpec, GpusExclusive, GpuPool!PoolSpec, gpuOwners

\* What renders on a desktop is in the cache, where nimby finds what it has to
\* kill, unless its frame was launched while an earlier launch of it was still in
\* hand: a frame that nimby killed and that is launched again is found, however
\* late the report of the first launch is.
THEOREM DesktopCachedCorrect == DesktopSpec => []LiveIsCached
<1>1. NimbyInit => LiveInv
  BY LiveStart DEF NimbyInit
<1>2. HostInv /\ LiveInv /\ [DesktopNext]_desktopVars => LiveInv'
  <2>. SUFFICES ASSUME HostInv, LiveInv, [DesktopNext]_desktopVars
                PROVE  LiveInv'
    OBVIOUS
  <2>1. HostNext \/ UNCHANGED vars \/ Aside
    BY NimbySteps DEF HostInv, desktopVars
  <2>2. CASE HostNext
    BY <2>2, LiveAttendant, LiveStatus, LiveCommands DEF HostNext, HostInv
  <2>3. CASE UNCHANGED vars \/ Aside
    BY <2>3, LiveSame DEF vars, hostVars, frameVars, Aside
  <2>. QED  BY <2>1, <2>2, <2>3
<1>3. LiveInv => LiveIsCached
  BY DEF LiveInv
<1>. QED  BY <1>1, <1>2, <1>3, DesktopInvHolds, PTL DEF DesktopSpec
=============================================================================
