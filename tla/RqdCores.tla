------------------------------ MODULE RqdCores ------------------------------
(***************************************************************************)
(* What a render host of the Python RQD hands out: core units, the         *)
(* hyper-threaded cores a frame is pinned to, and GPUs.  RqCore keeps the  *)
(* units in CoreDetail (idle, booked, locked), Machine keeps the reserved  *)
(* cores and the free GPUs; every operation below runs under __threadLock. *)
(*                                                                         *)
(* Which socket a core is taken from is left open (reserveHT prefers the   *)
(* one with most idle cores).  A unit is 1 of the 100 a core is worth.     *)
(***************************************************************************)
EXTENDS Integers, FiniteSets

CONSTANTS
    Runs,       \* the launches Cuebot sends to this host
    Want,       \* what each asks for, see Asks
    Physical,   \* physical cores
    CoreUnits,  \* units in a core (100 in the code)
    Gpus,
    FrameIds

Asks == [frame : FrameIds, cores : Nat, threadable : BOOLEAN, gpus : Nat,
         ignoreNimby : BOOLEAN]

ASSUME CoresAssumption ==
    /\ IsFiniteSet(Runs)
    /\ IsFiniteSet(Physical)
    /\ CoreUnits \in Nat \ {0}
    /\ IsFiniteSet(Gpus)
    /\ Want \in [Runs -> Asks]

VARIABLES
    idle, booked, locked,   \* CoreDetail, total_cores is Total
    reserved,               \* reserved_cores: cores no other frame may pin
    freeGpus,               \* Machine.__gpusets
    cpuList, gpuList        \* RunFrame.attributes CPU_LIST and GPU_LIST

coreVars == <<idle, booked, locked, reserved, freeGpus, cpuList, gpuList>>

Total == CoreUnits * Cardinality(Physical)

CoresTypeOK ==
    /\ idle \in Int
    /\ booked \in Int
    /\ locked \in 0..Total
    /\ reserved \subseteq Physical
    /\ freeGpus \subseteq Gpus
    /\ cpuList \in [Runs -> SUBSET Physical]
    /\ gpuList \in [Runs -> SUBSET Gpus]

\* The counters of a machine that was just started.
CoresInit ==
    /\ idle = Total
    /\ booked = 0
    /\ locked = 0
    /\ reserved = {}
    /\ freeGpus = Gpus
    /\ cpuList = [r \in Runs |-> {}]
    /\ gpuList = [r \in Runs |-> {}]

Smaller(a, b) == IF a < b THEN a ELSE b

-----------------------------------------------------------------------------
(* Taking: the locked part of launchFrame. *)

\* canReserveHT: whole cores only, and enough of them not reserved.
CanReserveHT(r) ==
    /\ Want[r].cores % CoreUnits = 0
    /\ CoreUnits * Cardinality(Physical \ reserved) >= Want[r].cores

\* A threadable frame is admitted by the cores, any other by the units.
EnoughCores(r) ==
    IF Want[r].threadable THEN CanReserveHT(r) ELSE idle >= Want[r].cores

\* reserveHT: the cores r may be pinned to.
ThreadSets(r) ==
    IF Want[r].threadable
      THEN {S \in SUBSET (Physical \ reserved) :
              CoreUnits * Cardinality(S) = Want[r].cores}
      ELSE {{}}

\* Mutant: the sets are chosen among all GPUs of the host.
GpuSetsOfHost(r) == {G \in SUBSET Gpus : Cardinality(G) = Want[r].gpus}

\* reserveGpus
GpuSets(r) == {G \in SUBSET freeGpus : Cardinality(G) = Want[r].gpus}

TakeCores(r) ==
    /\ EnoughCores(r)
    /\ \E S \in ThreadSets(r), G \in GpuSets(r) :
        /\ reserved' = reserved \cup S
        /\ cpuList' = [cpuList EXCEPT ![r] = S]
        /\ freeGpus' = freeGpus \ G
        /\ gpuList' = [gpuList EXCEPT ![r] = G]
    /\ idle' = idle - Want[r].cores
    /\ booked' = booked + Want[r].cores
    /\ UNCHANGED locked

\* Refused.  When it is the GPUs that are short the cores have been reserved
\* and nothing gives them back.
TakeRefused(r) ==
    /\ IF EnoughCores(r)
         THEN /\ Cardinality(freeGpus) < Want[r].gpus
              /\ \E S \in ThreadSets(r) : reserved' = reserved \cup S
         ELSE UNCHANGED reserved
    /\ UNCHANGED <<idle, booked, locked, freeGpus, cpuList, gpuList>>

-----------------------------------------------------------------------------
(* Giving back, and the locks an administrator puts on a host. *)

\* Mutant: the room for idle cores is computed before the frame's are let go.
GiveBackUncounted(r) ==
    LET room == Total - locked - idle - booked
    IN /\ booked' = booked - Want[r].cores
       /\ idle' = IF room > 0 THEN idle + Smaller(room, Want[r].cores)
                              ELSE idle
       /\ reserved' = reserved \ cpuList[r]
       /\ freeGpus' = freeGpus \cup gpuList[r]
       /\ UNCHANGED <<locked, cpuList, gpuList>>

\* Mutant: a released frame's cores are idle whatever was locked meanwhile.
GiveBackAll(r) ==
    /\ booked' = booked - Want[r].cores
    /\ idle' = idle + Want[r].cores
    /\ reserved' = reserved \ cpuList[r]
    /\ freeGpus' = freeGpus \cup gpuList[r]
    /\ UNCHANGED <<locked, cpuList, gpuList>>

\* releaseCores: locked cores stay locked, and what is already idle, locked
\* or booked otherwise is not counted twice.
GiveBack(r) ==
    LET left == booked - Want[r].cores
        room == Total - locked - idle - left
    IN /\ booked' = left
       /\ idle' = IF room > 0 THEN idle + Smaller(room, Want[r].cores)
                              ELSE idle
       /\ reserved' = reserved \ cpuList[r]
       /\ freeGpus' = freeGpus \cup gpuList[r]
       /\ UNCHANGED <<locked, cpuList, gpuList>>

\* Mutant: as many units as were asked for.
LockUnitsUncapped(n) ==
    /\ locked' = locked + n
    /\ idle' = idle - Smaller(n, idle)
    /\ UNCHANGED <<booked, reserved, freeGpus, cpuList, gpuList>>

LockUnits(n) ==
    LET more == Smaller(Total - locked, n)
    IN /\ locked' = locked + more
       /\ idle' = IF more > 0 THEN idle - Smaller(more, idle) ELSE idle
       /\ UNCHANGED <<booked, reserved, freeGpus, cpuList, gpuList>>

LockEverything ==
    /\ locked' = Total
    /\ idle' = IF locked < Total THEN 0 ELSE idle
    /\ UNCHANGED <<booked, reserved, freeGpus, cpuList, gpuList>>

UnlockUnits(n) ==
    /\ locked' = locked - Smaller(locked, n)
    /\ idle' = idle + Smaller(locked, n)
    /\ UNCHANGED <<booked, reserved, freeGpus, cpuList, gpuList>>

\* A host that nimby has locked gets its cores unlocked and none of them idle.
UnlockEverything(nimbyLocked) ==
    /\ locked' = 0
    /\ idle' = IF nimbyLocked THEN idle ELSE idle + locked
    /\ UNCHANGED <<booked, reserved, freeGpus, cpuList, gpuList>>

-----------------------------------------------------------------------------

\* The units the launches H were given, one element for each.
UnitsOf(H) == UNION {{r} \X (1..Want[r].cores) : r \in H}

\* A locked unit is not idle: on a host locked as a whole no frame that is
\* admitted by its units can start, however its locks and releases came.
LockedNotIdle == idle + locked <= Total

\* No unit is forgotten: what is not booked or locked is idle.
NoCoreLost == idle + booked + locked >= Total
=============================================================================
