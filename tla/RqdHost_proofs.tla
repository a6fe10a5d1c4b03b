--------------------------- MODULE RqdHost_proofs ----------------------------
(***************************************************************************)
(* Proofs about RqdHost, for any launches, cores, GPUs and bounds.         *)
(*                                                                         *)
(* Every step of the host is, for its ledger, one of four: nothing, a      *)
(* launch that takes, an attendant that gives back, or a lock (Ledger).    *)
(* The lemmas leave open whether nimby has locked the host, so that        *)
(* RqdNimby_proofs uses them too.                                          *)
(***************************************************************************)
EXTENDS RqdHost, FiniteSetTheorems, TLAPS

-----------------------------------------------------------------------------
(* Arithmetic of the constants. *)

\* total_cores is a number,
LEMMA TotalType == Total \in Nat
<1>1. Cardinality(Physical) \in Nat
  BY CoresAssumption, FS_CardinalityType
<1>2. \A a, b \in Nat : a * b \in Nat
  OBVIOUS
<1>. QED  BY <1>1, <1>2, CoresAssumption DEF Total

\* and stays the same.
LEMMA TotalFixed == Total' = Total
  BY DEF Total

\* What a launch asks for.
LEMMA WantType ==
  ASSUME NEW r \in Runs
  PROVE  /\ Want[r].cores \in Nat
         /\ Want[r].gpus \in Nat
         /\ frame(r) \in FrameIds
  BY CoresAssumption DEF Asks, frame

-----------------------------------------------------------------------------
(* Units of a set of launches. *)

\* The units of one launch.
LEMMA UnitsOfOne ==
  ASSUME NEW r \in Runs
  PROVE  /\ IsFiniteSet({r} \X (1..Want[r].cores))
         /\ Cardinality({r} \X (1..Want[r].cores)) = Want[r].cores
<1>1. Want[r].cores \in Nat
  BY WantType
<1>2. /\ IsFiniteSet(1..Want[r].cores)
      /\ Cardinality(1..Want[r].cores) = Want[r].cores
  <2>1. \A n \in Nat : /\ IsFiniteSet(1..n)
                       /\ Cardinality(1..n) = IF 1 > n THEN 0 ELSE n - 1 + 1
    BY FS_Interval
  <2>. QED  BY <1>1, <2>1
<1>3. IsFiniteSet({r}) /\ Cardinality({r}) = 1
  BY FS_Singleton
<1>4. /\ IsFiniteSet({r} \X (1..Want[r].cores))
      /\ Cardinality({r} \X (1..Want[r].cores))
           = Cardinality({r}) * Cardinality(1..Want[r].cores)
  BY <1>2, <1>3, FS_Product
<1>. QED  BY <1>1, <1>2, <1>3, <1>4

\* A launch more.
LEMMA UnitsOfMore ==
  ASSUME NEW H \in SUBSET Runs, NEW r \in Runs \ H, IsFiniteSet(UnitsOf(H))
  PROVE  /\ IsFiniteSet(UnitsOf(H \cup {r}))
         /\ Cardinality(UnitsOf(H \cup {r}))
              = Cardinality(UnitsOf(H)) + Want[r].cores
<1>. DEFINE U == {r} \X (1..Want[r].cores)
<1>1. UnitsOf(H \cup {r}) = UnitsOf(H) \cup U
  BY DEF UnitsOf
<1>2. UnitsOf(H) \cap U = {}
  BY DEF UnitsOf
<1>3. Cardinality({}) = 0
  BY FS_EmptySet
<1>4. IsFiniteSet(U) /\ Cardinality(U) = Want[r].cores
  BY UnitsOfOne
<1>5. /\ Cardinality(UnitsOf(H)) \in Nat
      /\ Want[r].cores \in Nat
  BY FS_CardinalityType, WantType
<1>. HIDE DEF U
<1>6. /\ IsFiniteSet(UnitsOf(H) \cup U)
      /\ Cardinality(UnitsOf(H) \cup U)
           = Cardinality(UnitsOf(H)) + Cardinality(U)
               - Cardinality(UnitsOf(H) \cap U)
  BY <1>4, FS_Union
<1>7. Cardinality(UnitsOf(H) \cap U) = 0
  BY <1>2, <1>3, Zenon
<1>8. Cardinality(UnitsOf(H) \cup U)
        = Cardinality(UnitsOf(H)) + Want[r].cores
  BY <1>4, <1>5, <1>6, <1>7
<1>. QED  BY <1>1, <1>6, <1>8, Zenon

\* A launch less.
LEMMA UnitsOfLess ==
  ASSUME NEW H \in SUBSET Runs, NEW r \in H, IsFiniteSet(UnitsOf(H))
  PROVE  /\ IsFiniteSet(UnitsOf(H \ {r}))
         /\ Cardinality(UnitsOf(H \ {r}))
              = Cardinality(UnitsOf(H)) - Want[r].cores
         /\ Cardinality(UnitsOf(H \ {r})) \in Nat
<1>. DEFINE G == H \ {r}
<1>1. UnitsOf(G) \subseteq UnitsOf(H)
  BY DEF UnitsOf
<1>2. IsFiniteSet(UnitsOf(G))
  BY <1>1, FS_Subset
<1>3. G \in SUBSET Runs /\ r \in Runs \ G /\ G \cup {r} = H
  OBVIOUS
<1>. HIDE DEF G
<1>4. Cardinality(UnitsOf(G \cup {r}))
        = Cardinality(UnitsOf(G)) + Want[r].cores
  BY <1>2, <1>3, UnitsOfMore
<1>5. Cardinality(UnitsOf(G)) \in Nat /\ Want[r].cores \in Nat
  BY <1>2, <1>3, FS_CardinalityType, WantType
<1>6. Cardinality(UnitsOf(H)) = Cardinality(UnitsOf(G)) + Want[r].cores
  BY <1>3, <1>4, Zenon
<1>7. Cardinality(UnitsOf(G)) = Cardinality(UnitsOf(H)) - Want[r].cores
  BY <1>5, <1>6
<1>. QED  BY <1>2, <1>5, <1>7 DEF G

-----------------------------------------------------------------------------
(* The ledger. *)

UnitsCounted ==
    /\ IsFiniteSet(UnitsOf(Holding))
    /\ CoresAccounted

\* GPUs: those of a launch are not free and not those of another one.
GpusApart ==
    /\ \A r \in Holding : gpuList[r] \cap freeGpus = {}
    /\ \A r, s \in Holding : r # s => gpuList[r] \cap gpuList[s] = {}

LedgerInv ==
    /\ UnitsCounted
    /\ LockedNotIdle
    /\ GpusApart

\* A step that forgets no unit.
Balanced == NoCoreLost => NoCoreLost'

\* The four kinds of step.
Quiet ==
    /\ UNCHANGED <<idle, booked, locked, freeGpus, gpuList>>
    /\ Holding' = Holding

Takes(r) ==
    /\ TakeCores(r)
    /\ r \notin Holding
    /\ Holding' = Holding \cup {r}

Gives(r) ==
    /\ GiveBack(r)
    /\ r \in Holding
    /\ Holding' = Holding \ {r}

LockMoves ==
    \/ \E n \in Nat : LockUnits(n) \/ UnlockUnits(n)
    \/ LockEverything
    \/ At("grpc", "unlockAll") /\ UnlockEverything(nimbyLocked)

Locks ==
    /\ LockMoves
    /\ Holding' = Holding

\* Where units may be forgotten: unlockAll on a host that nimby has locked.
Forgets == nimbyLocked /\ At("grpc", "unlockAll")

Ledger == Quiet \/ Locks \/ \E r \in Runs : Takes(r) \/ Gives(r)

\* Only launches hold cores.
LEMMA HoldingType == Holding \in SUBSET Runs
  BY DEF Holding

\* Nobody touches the ledger.
LEMMA QuietLedger ==
  ASSUME LedgerInv, Quiet
  PROVE  LedgerInv' /\ Balanced
  BY DEF LedgerInv, Quiet, UnitsCounted, CoresAccounted, LockedNotIdle,
         NoCoreLost, Balanced, GpusApart, UnitsOf

\* A launch takes units that were idle, or borrows against idle ones.
LEMMA TakesLedger ==
  ASSUME CoresTypeOK, LedgerInv, NEW r \in Runs, Takes(r)
  PROVE  LedgerInv' /\ Balanced
<1>1. Want[r].cores \in Nat /\ Total \in Nat
  BY WantType, TotalType
<1>2. UnitsCounted'
  <2>1. /\ IsFiniteSet(UnitsOf(Holding \cup {r}))
        /\ Cardinality(UnitsOf(Holding \cup {r}))
             = Cardinality(UnitsOf(Holding)) + Want[r].cores
    BY HoldingType, UnitsOfMore DEF Takes, LedgerInv, UnitsCounted
  <2>2. UnitsOf(Holding)' = UnitsOf(Holding \cup {r})
    BY DEF Takes, UnitsOf
  <2>3. booked' = booked + Want[r].cores
    BY DEF Takes, TakeCores
  <2>. QED  BY <2>1, <2>2, <2>3 DEF LedgerInv, UnitsCounted, CoresAccounted
<1>3. /\ idle' = idle - Want[r].cores
      /\ booked' = booked + Want[r].cores
      /\ locked' = locked
  BY DEF Takes, TakeCores
<1>4. LockedNotIdle' /\ Balanced
  BY <1>1, <1>3, TotalFixed
     DEF LedgerInv, LockedNotIdle, NoCoreLost, Balanced, CoresTypeOK
<1>5. GpusApart'
  <2>1. PICK G \in GpuSets(r) :
          /\ freeGpus' = freeGpus \ G
          /\ gpuList' = [gpuList EXCEPT ![r] = G]
    BY DEF Takes, TakeCores
  <2>2. /\ G \subseteq freeGpus
        /\ gpuList'[r] = G
        /\ \A s \in Runs : s # r => gpuList'[s] = gpuList[s]
    BY <2>1 DEF GpuSets, CoresTypeOK
  <2>. QED  BY <2>1, <2>2, HoldingType DEF GpusApart, LedgerInv, Takes
<1>. QED  BY <1>2, <1>4, <1>5 DEF LedgerInv

\* An attendant gives back what is neither locked nor idle already.
LEMMA GivesLedger ==
  ASSUME CoresTypeOK, LedgerInv, NEW r \in Runs, Gives(r)
  PROVE  LedgerInv' /\ Balanced
<1>. DEFINE left == booked - Want[r].cores
            room == Total - locked - idle - left
<1>1. Want[r].cores \in Nat /\ Total \in Nat
  BY WantType, TotalType
<1>2. UnitsCounted' /\ left \in Nat
  <2>1. /\ IsFiniteSet(UnitsOf(Holding \ {r}))
        /\ Cardinality(UnitsOf(Holding \ {r}))
             = Cardinality(UnitsOf(Holding)) - Want[r].cores
        /\ Cardinality(UnitsOf(Holding \ {r})) \in Nat
    BY HoldingType, UnitsOfLess DEF Gives, LedgerInv, UnitsCounted
  <2>2. UnitsOf(Holding)' = UnitsOf(Holding \ {r})
    BY DEF Gives, UnitsOf
  <2>3. booked' = booked - Want[r].cores
    BY DEF Gives, GiveBack
  <2>. QED  BY <2>1, <2>2, <2>3 DEF LedgerInv, UnitsCounted, CoresAccounted
<1>3. /\ idle' = IF room > 0 THEN idle + Smaller(room, Want[r].cores) ELSE idle
      /\ booked' = left
      /\ locked' = locked
  BY DEF Gives, GiveBack
<1>4. /\ idle \in Int /\ booked \in Int /\ locked \in Int /\ room \in Int
      /\ idle + locked <= Total
  BY <1>1, TotalType DEF CoresTypeOK, LedgerInv, LockedNotIdle
<1>5. LockedNotIdle' /\ Balanced
  <2>1. CASE room > 0
    BY <2>1, <1>1, <1>2, <1>3, <1>4, TotalFixed
       DEF LockedNotIdle, NoCoreLost, Balanced, Smaller
  <2>2. CASE ~(room > 0)
    BY <2>2, <1>1, <1>2, <1>3, <1>4, TotalFixed
       DEF LockedNotIdle, NoCoreLost, Balanced
  <2>. QED  BY <2>1, <2>2
<1>6. GpusApart'
  BY HoldingType DEF Gives, GiveBack, LedgerInv, GpusApart
<1>. QED  BY <1>2, <1>5, <1>6 DEF LedgerInv

\* Locks move units between idle and locked.
LEMMA LocksLedger ==
  ASSUME CoresTypeOK, LedgerInv, Locks
  PROVE  /\ LedgerInv' /\ (Balanced \/ Forgets)
         /\ locked' \in 0..Total /\ idle' \in Int
<1>. DEFINE Moved == /\ locked' \in 0..Total /\ idle' \in Int
                     /\ idle' + locked' <= Total
                     /\ \/ /\ idle + booked + locked >= Total
                            => idle' + booked + locked' >= Total
                        \/ Forgets
<1>0. Total \in Nat
  BY TotalType
<1>1. UNCHANGED <<booked, freeGpus, gpuList>> /\ Holding' = Holding
  BY DEF Locks, LockMoves, LockUnits, UnlockUnits, LockEverything,
         UnlockEverything
<1>2. UnitsCounted' /\ GpusApart'
  BY <1>1 DEF LedgerInv, UnitsCounted, CoresAccounted, GpusApart, UnitsOf
<1>3. /\ idle \in Int /\ booked \in Nat /\ locked \in 0..Total
      /\ idle + locked <= Total
  <2>1. booked \in Nat
    BY FS_CardinalityType DEF LedgerInv, UnitsCounted, CoresAccounted
  <2>. QED  BY <2>1 DEF CoresTypeOK, LedgerInv, LockedNotIdle
<1>4. Moved
  <2>1. ASSUME NEW n \in Nat, LockUnits(n)
        PROVE  Moved
    <3>. DEFINE more == Smaller(Total - locked, n)
    <3>1. more \in Nat /\ more <= Total - locked
      BY <1>0, <1>3 DEF Smaller
    <3>2. /\ locked' = locked + more
          /\ idle' = IF more > 0 THEN idle - Smaller(more, idle) ELSE idle
      BY <2>1 DEF LockUnits
    <3>. HIDE DEF more
    <3>. QED  BY <1>0, <1>3, <3>1, <3>2 DEF Smaller
  <2>2. ASSUME NEW n \in Nat, UnlockUnits(n)
        PROVE  Moved
    <3>1. Smaller(locked, n) \in Nat /\ Smaller(locked, n) <= locked
      BY <1>3 DEF Smaller
    <3>. QED  BY <1>0, <1>3, <2>2, <3>1 DEF UnlockUnits
  <2>3. CASE LockEverything
    BY <1>0, <1>3, <2>3 DEF LockEverything
  <2>4. CASE At("grpc", "unlockAll") /\ UnlockEverything(nimbyLocked)
    BY <1>0, <1>3, <2>4 DEF UnlockEverything, Forgets
  <2>. QED  BY <2>1, <2>2, <2>3, <2>4 DEF Locks, LockMoves
<1>. QED  BY <1>1, <1>2, <1>4, TotalFixed
          DEF LedgerInv, LockedNotIdle, NoCoreLost, Balanced

\* Every step but unlockAll under nimby keeps the whole ledger.
LEMMA LedgerStep ==
  ASSUME CoresTypeOK, LedgerInv, Ledger
  PROVE  LedgerInv' /\ (Balanced \/ Forgets)
  BY QuietLedger, TakesLedger, GivesLedger, LocksLedger DEF Ledger

-----------------------------------------------------------------------------
(* Types. *)

\* The types, when no counter changes,
LEMMA CoresSame ==
  ASSUME CoresTypeOK, UNCHANGED coreVars
  PROVE  CoresTypeOK'
  BY TotalFixed DEF CoresTypeOK, coreVars

\* after a launch has taken its cores or was refused,
LEMMA TakeType ==
  ASSUME CoresTypeOK, NEW r \in Runs, TakeCores(r) \/ TakeRefused(r)
  PROVE  CoresTypeOK'
<1>1. Want[r].cores \in Nat
  BY WantType
<1>2. CASE TakeCores(r)
  <2>1. PICK S \in ThreadSets(r), G \in GpuSets(r) :
          /\ reserved' = reserved \cup S
          /\ cpuList' = [cpuList EXCEPT ![r] = S]
          /\ freeGpus' = freeGpus \ G
          /\ gpuList' = [gpuList EXCEPT ![r] = G]
    BY <1>2 DEF TakeCores
  <2>2. S \subseteq Physical /\ G \subseteq freeGpus
    BY DEF ThreadSets, GpuSets
  <2>. QED  BY <1>1, <1>2, <2>1, <2>2, TotalFixed DEF TakeCores, CoresTypeOK
<1>3. CASE TakeRefused(r)
  <2>1. reserved' \subseteq Physical
    <3>1. CASE EnoughCores(r)
      <4>1. PICK S \in ThreadSets(r) : reserved' = reserved \cup S
        BY <1>3, <3>1 DEF TakeRefused
      <4>. QED  BY <4>1 DEF ThreadSets, CoresTypeOK
    <3>2. CASE ~EnoughCores(r)
      BY <1>3, <3>2 DEF TakeRefused, CoresTypeOK
    <3>. QED  BY <3>1, <3>2
  <2>. QED  BY <1>3, <2>1, TotalFixed DEF TakeRefused, CoresTypeOK
<1>. QED  BY <1>2, <1>3

\* after a release,
LEMMA GiveType ==
  ASSUME CoresTypeOK, NEW r \in Runs, GiveBack(r)
  PROVE  CoresTypeOK'
<1>1. Want[r].cores \in Nat /\ Total \in Nat
  BY WantType, TotalType
<1>2. idle' \in Int /\ booked' \in Int
  BY <1>1 DEF GiveBack, CoresTypeOK, Smaller
<1>3. /\ reserved' \subseteq Physical
      /\ freeGpus' \subseteq Gpus
      /\ UNCHANGED <<locked, cpuList, gpuList>>
  BY DEF GiveBack, CoresTypeOK
<1>. QED  BY <1>2, <1>3, TotalFixed DEF CoresTypeOK

\* after a lock or an unlock,
LEMMA LocksType ==
  ASSUME CoresTypeOK, LedgerInv, Locks
  PROVE  CoresTypeOK'
<1>1. locked' \in 0..Total /\ idle' \in Int
  BY LocksLedger
<1>2. UNCHANGED <<booked, reserved, freeGpus, cpuList, gpuList>>
  BY DEF Locks, LockMoves, LockUnits, UnlockUnits, LockEverything,
         UnlockEverything
<1>. QED  BY <1>1, <1>2, TotalFixed DEF CoresTypeOK

\* and after deleteFrame, which may clear the reserved cores.
LEMMA DeleteType ==
  ASSUME CoresTypeOK, cache \in [FrameIds -> Runs \cup {NoRun}],
         NEW f \in FrameIds, DeleteFrame(f)
  PROVE  /\ CoresTypeOK'
         /\ cache' \in [FrameIds -> Runs \cup {NoRun}]
         /\ UNCHANGED <<idle, booked, locked, freeGpus, gpuList>>
<1>1. reserved' \subseteq Physical
  BY DEF DeleteFrame, CoresTypeOK
<1>. QED  BY <1>1, TotalFixed DEF DeleteFrame, CoresTypeOK

-----------------------------------------------------------------------------
(* How an attendant's moves change who holds cores. *)

Holds == {"setup", "stored", "live", "over"}

\* A move across setup or release changes Holding, no other one does.
LEMMA HoldingMoves ==
  ASSUME stage \in [Runs -> Stages], NEW r \in Runs,
         NEW from, NEW to \in Stages, Move(r, from, to)
  PROVE  /\ stage' \in [Runs -> Stages]
         /\ stage'[r] = to
         /\ \A s \in Runs \ {r} : stage'[s] = stage[s]
         /\ (from \in Holds <=> to \in Holds) => Holding' = Holding
         /\ from \notin Holds /\ to \in Holds
              => r \notin Holding /\ Holding' = Holding \cup {r}
         /\ from \in Holds /\ to \notin Holds
              => r \in Holding /\ Holding' = Holding \ {r}
<1>1. /\ stage[r] = from
      /\ stage' \in [Runs -> Stages]
      /\ stage'[r] = to
      /\ \A s \in Runs \ {r} : stage'[s] = stage[s]
  BY DEF Move
<1>2. Holding = {s \in Runs : stage[s] \in Holds}
  BY DEF Holding, Holds
<1>3. Holding' = {s \in Runs : stage'[s] \in Holds}
  BY DEF Holding, Holds
<1>. QED  BY <1>1, <1>2, <1>3

\* Who holds cores depends on the stages alone.
LEMMA HoldingSame ==
  ASSUME UNCHANGED stage
  PROVE  Holding' = Holding
  BY DEF Holding

-----------------------------------------------------------------------------
(* The steps of the attendants. *)

Kept == HostTypeOK' /\ UNCHANGED nimbyLocked /\ Ledger

\* launchFrame's checks.
LEMMA LaunchKept ==
  ASSUME HostTypeOK, NEW r \in Runs, LaunchFrame(r)
  PROVE  Kept
<1>1. CoresTypeOK' /\ UNCHANGED <<idle, booked, locked, freeGpus, gpuList>>
  BY CoresSame DEF HostTypeOK, LaunchFrame, coreVars
<1>2. PICK to \in {"checked", "refused"} : Move(r, "none", to)
  BY DEF LaunchFrame
<1>3. stage' \in [Runs -> Stages] /\ Holding' = Holding
  BY <1>2, HoldingMoves DEF HostTypeOK, Stages, Holds
<1>4. doubled' \subseteq FrameIds
  <2>1. frame(r) \in FrameIds
    BY WantType
  <2>2. doubled' \in {doubled, doubled \cup {frame(r)}, doubled \ {frame(r)}}
    BY DEF LaunchFrame
  <2>. QED  BY <2>1, <2>2 DEF HostTypeOK
<1>. QED  BY <1>1, <1>3, <1>4
          DEF Kept, Ledger, Quiet, HostTypeOK, LaunchFrame, cmdVars

\* Taking the cores, or being refused.
LEMMA ReserveKept ==
  ASSUME HostTypeOK, NEW r \in Runs, Reserve(r)
  PROVE  Kept
<1>1. CoresTypeOK'
  BY TakeType DEF HostTypeOK, Reserve
<1>2. CASE TakeCores(r) /\ Move(r, "checked", "setup")
  <2>1. stage' \in [Runs -> Stages] /\ Takes(r)
    BY <1>2, HoldingMoves DEF HostTypeOK, Stages, Holds, Takes
  <2>. QED  BY <1>1, <2>1
            DEF Kept, Ledger, HostTypeOK, Reserve, cmdVars
<1>3. CASE TakeRefused(r) /\ Move(r, "checked", "refused")
  <2>1. stage' \in [Runs -> Stages] /\ Holding' = Holding
    BY <1>3, HoldingMoves DEF HostTypeOK, Stages, Holds
  <2>2. UNCHANGED <<idle, booked, locked, freeGpus, gpuList>>
    BY <1>3 DEF TakeRefused
  <2>. QED  BY <1>1, <2>1, <2>2
            DEF Kept, Ledger, Quiet, HostTypeOK, Reserve, cmdVars
<1>. QED  BY <1>2, <1>3 DEF Reserve

\* An attendant that stays on one side keeps the ledger, when its step leaves
\* the counters alone.
LEMMA AttendantQuiet ==
  ASSUME HostTypeOK, NEW r \in Runs, NEW from, NEW to \in Stages,
         AttendantStep(r, from, to), from \in Holds <=> to \in Holds,
         CoresTypeOK', UNCHANGED <<idle, booked, locked, freeGpus, gpuList>>,
         cache' \in [FrameIds -> Runs \cup {NoRun}],
         sent' \in [Runs -> BOOLEAN],
         told' \in [Runs -> SUBSET Senders],
         noPid' \subseteq Runs,
         faultsLeft' \in Nat
  PROVE  Kept
<1>1. stage' \in [Runs -> Stages] /\ Holding' = Holding
  BY HoldingMoves DEF AttendantStep, HostTypeOK
<1>. QED  BY <1>1 DEF AttendantStep, Kept, Ledger, Quiet, HostTypeOK,
                      cmdVars

\* storeFrame, also when it raises.
LEMMA StoreKept ==
  ASSUME HostTypeOK, NEW r \in Runs, StoreFrame(r)
  PROVE  Kept
<1>1. /\ CoresTypeOK' /\ UNCHANGED <<idle, booked, locked, freeGpus, gpuList>>
      /\ sent' \in [Runs -> BOOLEAN]
      /\ told' \in [Runs -> SUBSET Senders]
      /\ noPid' \subseteq Runs
      /\ faultsLeft' \in Nat
  BY CoresSame DEF HostTypeOK, StoreFrame, coreVars
<1>2. frame(r) \in FrameIds
  BY WantType
<1>3. CASE /\ AttendantStep(r, "setup", "stored")
           /\ cache' = [cache EXCEPT ![frame(r)] = r]
  BY <1>1, <1>2, <1>3, AttendantQuiet DEF HostTypeOK, Stages, Holds
<1>4. CASE AttendantStep(r, "setup", "over") /\ UNCHANGED cache
  BY <1>1, <1>4, AttendantQuiet DEF HostTypeOK, Stages, Holds
<1>. QED  BY <1>3, <1>4 DEF StoreFrame

\* Forking, ending and asking whether to report change the stage alone.
LEMMA StageKept ==
  ASSUME HostTypeOK, NEW r \in Runs,
         Fork(r) \/ AttendantEnds(r) \/ StartReport(r)
  PROVE  Kept
<1>1. /\ CoresTypeOK' /\ UNCHANGED <<idle, booked, locked, freeGpus, gpuList>>
      /\ cache' \in [FrameIds -> Runs \cup {NoRun}]
      /\ sent' \in [Runs -> BOOLEAN]
      /\ told' \in [Runs -> SUBSET Senders]
      /\ noPid' \subseteq Runs
      /\ faultsLeft' \in Nat
  BY CoresSame
     DEF HostTypeOK, Fork, AttendantEnds, StartReport, coreVars
<1>2. CASE Fork(r)
  BY <1>1, <1>2, AttendantQuiet DEF Fork, Stages, Holds
<1>3. CASE AttendantEnds(r)
  <2>1. PICK from \in {"setup", "stored", "live"} :
          AttendantStep(r, from, "over")
    BY <1>3 DEF AttendantEnds
  <2>. QED  BY <1>1, <2>1, AttendantQuiet DEF Stages, Holds
<1>4. CASE StartReport(r)
  <2>1. PICK to \in {"done", "sending"} : AttendantStep(r, "uncached", to)
    BY <1>4 DEF StartReport
  <2>. QED  BY <1>1, <2>1, AttendantQuiet DEF Stages, Holds
<1>. QED  BY <1>2, <1>3, <1>4

\* releaseCores.
LEMMA ReleaseKept ==
  ASSUME HostTypeOK, NEW r \in Runs, ReleaseCores(r)
  PROVE  Kept
<1>1. GiveBack(r) /\ CoresTypeOK'
  BY GiveType DEF ReleaseCores, HostTypeOK
<1>2. Move(r, "over", "released")
  BY DEF ReleaseCores, AttendantStep
<1>3. stage' \in [Runs -> Stages] /\ Gives(r)
  BY <1>1, <1>2, HoldingMoves DEF HostTypeOK, Stages, Holds, Gives
<1>. QED  BY <1>1, <1>3 DEF ReleaseCores, AttendantStep, Kept, Ledger, HostTypeOK, cmdVars

\* deleteFrame of an attendant.
LEMMA UncacheKept ==
  ASSUME HostTypeOK, NEW r \in Runs, Uncache(r)
  PROVE  Kept
<1>1. frame(r) \in FrameIds
  BY WantType
<1>2. /\ CoresTypeOK' /\ UNCHANGED <<idle, booked, locked, freeGpus, gpuList>>
      /\ cache' \in [FrameIds -> Runs \cup {NoRun}]
  BY <1>1, DeleteType DEF Uncache, HostTypeOK
<1>3. AttendantStep(r, "released", "uncached")
  BY DEF Uncache
<1>. QED  BY <1>2, <1>3, AttendantQuiet
          DEF Uncache, HostTypeOK, Stages, Holds

\* Who was told what, after a report
LEMMA TellType ==
  ASSUME HostTypeOK, NEW r \in Runs, NEW who \in Senders, Tell(r, who)
  PROVE  sent' \in [Runs -> BOOLEAN] /\ told' \in [Runs -> SUBSET Senders]
  BY DEF HostTypeOK, Tell

\* that may have raised.
LEMMA ReachType ==
  ASSUME HostTypeOK, Reaches \/ Raises
  PROVE  faultsLeft' \in Nat
  BY DEF HostTypeOK, Reaches, Raises

\* The attendant's completion report.
LEMMA EndReportKept ==
  ASSUME HostTypeOK, NEW r \in Runs, EndReport(r)
  PROVE  Kept
<1>1. /\ CoresTypeOK' /\ UNCHANGED <<idle, booked, locked, freeGpus, gpuList>>
      /\ cache' \in [FrameIds -> Runs \cup {NoRun}]
  BY CoresSame DEF HostTypeOK, EndReport, coreVars
<1>2. sent' \in [Runs -> BOOLEAN] /\ told' \in [Runs -> SUBSET Senders]
  BY TellType DEF EndReport, Senders, HostTypeOK
<1>3. faultsLeft' \in Nat
  BY ReachType DEF EndReport
<1>4. PICK to \in {"done", "lost"} : AttendantStep(r, "sending", to)
  BY DEF EndReport
<1>5. noPid' \subseteq Runs
  BY DEF EndReport, HostTypeOK
<1>. QED  BY <1>1, <1>2, <1>3, <1>4, <1>5, AttendantQuiet DEF Stages, Holds

-----------------------------------------------------------------------------
(* Status reports, commands and shutdowns. *)

\* The three steps of a status report.
LEMMA StatusKept ==
  ASSUME HostTypeOK, Status
  PROVE  Kept
<1>1. Holding' = Holding
  BY HoldingSame
     DEF Status, StatusFinds, StatusTells, StatusDrops, StatusStep
<1>2. CASE \E r \in Runs : StatusFinds(r)
  <2>1. CoresTypeOK'
    BY <1>2, CoresSame DEF StatusFinds, HostTypeOK
  <2>. QED  BY <1>1, <1>2, <2>1
            DEF StatusFinds, StatusStep, Kept, Ledger, Quiet, coreVars,
                HostTypeOK, cmdVars
<1>3. CASE StatusTells
  <2>1. CoresTypeOK'
    BY <1>3, CoresSame DEF StatusTells, HostTypeOK
  <2>2. status.run \in Runs
    BY <1>3 DEF StatusTells, HostTypeOK
  <2>3. sent' \in [Runs -> BOOLEAN] /\ told' \in [Runs -> SUBSET Senders]
    BY <1>3, <2>2, TellType DEF StatusTells, Senders, HostTypeOK
  <2>4. faultsLeft' \in Nat
    BY <1>3, ReachType DEF StatusTells
  <2>5. status' \in [run : Runs \cup {NoRun}, delivered : BOOLEAN]
    <3>1. \/ status' = [run |-> status.run, delivered |-> TRUE]
          \/ status' = [run |-> NoRun, delivered |-> FALSE]
      BY <1>3 DEF StatusTells, NoStatus
    <3>2. CASE status' = [run |-> status.run, delivered |-> TRUE]
      BY <2>2, <3>2
    <3>3. CASE status' = [run |-> NoRun, delivered |-> FALSE]
      BY <3>3
    <3>. QED  BY <3>1, <3>2, <3>3
  <2>. QED  BY <1>1, <1>3, <2>1, <2>3, <2>4, <2>5
            DEF StatusTells, StatusStep, Kept, Ledger, Quiet, coreVars,
                HostTypeOK, cmdVars
<1>4. CASE StatusDrops
  <2>1. status.run \in Runs
    BY <1>4 DEF StatusDrops, HostTypeOK
  <2>2. frame(status.run) \in FrameIds
    BY <2>1, WantType
  <2>3. /\ CoresTypeOK'
        /\ cache' \in [FrameIds -> Runs \cup {NoRun}]
        /\ UNCHANGED <<idle, booked, locked, freeGpus, gpuList>>
    BY <1>4, <2>2, DeleteType DEF StatusDrops, HostTypeOK
  <2>. QED  BY <1>1, <1>4, <2>3
            DEF StatusDrops, StatusStep, NoStatus, Kept, Ledger, Quiet,
                HostTypeOK, cmdVars
<1>. QED  BY <1>2, <1>3, <1>4 DEF Status

\* What a kill signals are launches.
LEMMA KillType ==
  ASSUME HostTypeOK, NEW S \in SUBSET Runs, KillRenders(S)
  PROVE  killed' \subseteq Runs /\ process' \in {"up", "exited", "crashed"}
  BY DEF KillRenders, HostTypeOK

\* The cache holds launches.
LEMMA CachedType ==
  ASSUME HostTypeOK
  PROVE  Cached \in SUBSET Runs
  BY DEF Cached, HostTypeOK

\* killRunningFrame.
LEMMA KillKept ==
  ASSUME HostTypeOK, NEW f \in FrameIds, KillRunningFrame(f)
  PROVE  Kept
<1>1. {cache[f]} \ {NoRun} \in SUBSET Runs
  BY DEF HostTypeOK
<1>2. killed' \subseteq Runs /\ process' \in {"up", "exited", "crashed"}
  BY <1>1, KillType DEF KillRunningFrame
<1>3. CoresTypeOK' /\ Holding' = Holding
  BY CoresSame, HoldingSame DEF KillRunningFrame, HostTypeOK
<1>. QED  BY <1>2, <1>3
          DEF KillRunningFrame, Kept, Ledger, Quiet, coreVars, HostTypeOK

\* A command that locks and unlocks nothing.
LEMMA CommandQuiet ==
  ASSUME HostTypeOK, CmdStep, UNCHANGED coreVars,
         whenIdle' \in BOOLEAN, reboot' \in BOOLEAN,
         hwState' \in {"UP", "DOWN"}, pc' \in [Workers -> Steps],
         commandsLeft' \in Nat, faultsLeft' \in Nat
  PROVE  Kept
<1>1. CoresTypeOK' /\ Holding' = Holding
  BY CoresSame, HoldingSame DEF HostTypeOK, CmdStep, frameVars
<1>. QED  BY <1>1 DEF CmdStep, frameVars, Kept, Ledger, Quiet, coreVars,
                      HostTypeOK

\* One that does.
LEMMA CommandLocks ==
  ASSUME HostTypeOK, LedgerInv, CmdStep,
         LockMoves,
         whenIdle' \in BOOLEAN, reboot' \in BOOLEAN,
         hwState' \in {"UP", "DOWN"}, pc' \in [Workers -> Steps],
         commandsLeft' \in Nat, faultsLeft' \in Nat
  PROVE  Kept
<1>1. Holding' = Holding
  BY HoldingSame DEF CmdStep, frameVars
<1>2. Locks
  BY <1>1 DEF Locks
<1>3. CoresTypeOK'
  BY <1>2, LocksType DEF HostTypeOK
<1>. QED  BY <1>2, <1>3 DEF CmdStep, frameVars, Kept, Ledger, HostTypeOK

\* A worker that goes on.
LEMMA GotoType ==
  ASSUME HostTypeOK, NEW w \in Workers, NEW where \in Steps, Goto(w, where)
  PROVE  pc' \in [Workers -> Steps]
  BY DEF HostTypeOK, Goto

\* The administrator's requests.
LEMMA AskedKept ==
  ASSUME HostTypeOK, LedgerInv, Asked
  PROVE  Kept
<1>0. /\ "grpc" \in Workers /\ commandsLeft \in Nat /\ faultsLeft \in Nat
      /\ pc \in [Workers -> Steps] /\ whenIdle \in BOOLEAN
      /\ reboot \in BOOLEAN /\ hwState \in {"UP", "DOWN"}
  BY DEF Workers, HostTypeOK
<1>1. CASE \E n \in LockSizes : Lock(n)
  <2>1. PICK n \in Nat : Lock(n)
    BY <1>1, HostAssumption
  <2>2. LockUnits(n) /\ CmdStep /\ commandsLeft' \in Nat
        /\ UNCHANGED <<whenIdle, reboot, hwState, pc, faultsLeft>>
    BY <1>0, <2>1 DEF Lock, Receive
  <2>. QED  BY <1>0, <2>2, CommandLocks DEF LockMoves
<1>2. CASE LockAll
  <2>1. LockEverything /\ CmdStep /\ commandsLeft' \in Nat
        /\ UNCHANGED <<whenIdle, reboot, hwState, pc, faultsLeft>>
    BY <1>0, <1>2 DEF LockAll, Receive
  <2>. QED  BY <1>0, <2>1, CommandLocks DEF LockMoves
<1>3. CASE \E c \in Commands : StartUnlock(c)
  <2>1. PICK c \in {"unlock", "unlockAll"} : StartUnlock(c)
    BY <1>3 DEF StartUnlock
  <2>2. commandsLeft' \in Nat /\ pc' \in [Workers -> Steps]
    BY <1>0, <2>1, GotoType DEF StartUnlock, Receive, Steps
  <2>. QED  BY <1>0, <2>1, <2>2, CommandQuiet DEF StartUnlock
<1>4. CASE \E c \in Commands : ShutdownIdle(c)
  <2>1. PICK c \in Commands : ShutdownIdle(c)
    BY <1>4
  <2>2. PICK s \in {"mark", "markReboot"} : ReportLock("grpc", s, "idle")
    BY <2>1 DEF ShutdownIdle
  <2>3. pc' \in [Workers -> Steps] /\ faultsLeft' \in Nat
    BY <1>0, <2>2, GotoType, ReachType DEF ReportLock, Steps
  <2>4. commandsLeft' \in Nat
    BY <1>0, <2>1 DEF ShutdownIdle, Receive
  <2>. QED  BY <1>0, <2>1, <2>3, <2>4, CommandLocks DEF LockMoves, ShutdownIdle
<1>5. CASE \E c \in Commands : ShutdownNow(c)
  <2>1. PICK c \in Commands : ShutdownNow(c)
    BY <1>5
  <2>2. commandsLeft' \in Nat /\ pc' \in [Workers -> Steps]
        /\ reboot' \in BOOLEAN
    BY <1>0, <2>1, GotoType DEF ShutdownNow, Receive, Steps
  <2>. QED  BY <1>0, <2>1, <2>2, CommandQuiet DEF ShutdownNow
<1>. QED  BY <1>1, <1>2, <1>3, <1>4, <1>5, KillKept DEF Asked

\* What commands and the interval timer do later.
LEMMA FinishingKept ==
  ASSUME HostTypeOK, LedgerInv, Finishing \/ OnInterval
  PROVE  Kept
<1>0. /\ "grpc" \in Workers /\ "timer" \in Workers
      /\ commandsLeft \in Nat /\ faultsLeft \in Nat
      /\ pc \in [Workers -> Steps] /\ whenIdle \in BOOLEAN
      /\ reboot \in BOOLEAN /\ hwState \in {"UP", "DOWN"}
  BY DEF Workers, HostTypeOK
<1>1. CASE \E n \in LockSizes : EndUnlock(n)
  <2>1. PICK n \in Nat : EndUnlock(n)
    BY <1>1, HostAssumption
  <2>2. pc' \in [Workers -> Steps]
    BY <1>0, <2>1, GotoType DEF EndUnlock, Steps
  <2>3. /\ LockMoves
        /\ CmdStep
        /\ UNCHANGED <<whenIdle, reboot, hwState, commandsLeft, faultsLeft>>
    BY <2>1 DEF EndUnlock, LockMoves
  <2>. QED  BY <1>0, <2>2, <2>3, CommandLocks
<1>2. CASE MarkIdle
  <2>1. pc' \in [Workers -> Steps] /\ faultsLeft' \in Nat
    BY <1>0, <1>2, GotoType, ReachType DEF MarkIdle, Steps
  <2>. QED  BY <1>0, <1>2, <2>1, CommandQuiet DEF MarkIdle
<1>3. CASE CheckIdle
  <2>1. pc' \in [Workers -> Steps]
    BY <1>0, <1>3, GotoType DEF CheckIdle, Steps
  <2>. QED  BY <1>0, <1>3, <2>1, CommandQuiet DEF CheckIdle
<1>4. CASE OnInterval
  <2>1. pc' \in [Workers -> Steps]
    BY <1>0, <1>4, GotoType DEF OnInterval, Steps
  <2>. QED  BY <1>0, <1>4, <2>1, CommandQuiet DEF OnInterval
<1>5. ASSUME NEW w \in Workers, Shutdown(w)
      PROVE  Kept
  <2>1. CASE ShutdownLocks(w)
    <3>1. pc' \in [Workers -> Steps] /\ faultsLeft' \in Nat
      BY <1>0, <2>1, GotoType, ReachType DEF ShutdownLocks, ReportLock, Steps
    <3>. QED  BY <1>0, <2>1, <3>1, CommandLocks DEF LockMoves, ShutdownLocks
  <2>2. CASE ShutdownKills(w)
    <3>1. pc' \in [Workers -> Steps]
      BY <1>0, <2>2, GotoType DEF ShutdownKills, Steps
    <3>2. killed' \subseteq Runs /\ process' \in {"up", "exited", "crashed"}
      BY <2>2, KillType, CachedType DEF ShutdownKills, HostTypeOK
    <3>3. CoresTypeOK' /\ Holding' = Holding
      BY <2>2, CoresSame, HoldingSame DEF ShutdownKills, HostTypeOK
    <3>. QED  BY <2>2, <3>1, <3>2, <3>3
              DEF ShutdownKills, Kept, Ledger, Quiet, coreVars, HostTypeOK
  <2>3. CASE ShutdownChecks(w)
    <3>1. pc' \in [Workers -> Steps]
      BY <1>0, <2>3, GotoType DEF ShutdownChecks, Steps
    <3>. QED  BY <1>0, <2>3, <3>1, CommandQuiet DEF ShutdownChecks
  <2>4. CASE Exit(w)
    <3>1. CoresTypeOK' /\ Holding' = Holding
      BY <2>4, CoresSame, HoldingSame DEF Exit, HostTypeOK, frameVars
    <3>. QED  BY <2>4, <3>1
              DEF Exit, frameVars, cmdVars, Kept, Ledger, Quiet, coreVars,
                  HostTypeOK
  <2>. QED  BY <1>5, <2>1, <2>2, <2>3, <2>4 DEF Shutdown
<1>. QED  BY <1>1, <1>2, <1>3, <1>4, <1>5 DEF Finishing

\* Every step keeps the types and is one of the four for the ledger.
LEMMA StepKept ==
  ASSUME HostTypeOK, LedgerInv, HostNext
  PROVE  Kept
<1>1. ASSUME NEW r \in Runs, LaunchFrame(r) \/ Attendant(r) \/ AttendantEnds(r)
      PROVE  Kept
  BY <1>1, LaunchKept, ReserveKept, StoreKept, StageKept, ReleaseKept,
     UncacheKept, EndReportKept DEF Attendant
<1>. QED  BY <1>1, StatusKept, FinishingKept, AskedKept DEF HostNext

-----------------------------------------------------------------------------
(* The theorems. *)

HostInv ==
    /\ HostTypeOK
    /\ LedgerInv

\* A host without nimby.
PlainInv ==
    /\ nimbyLocked = FALSE
    /\ NoCoreLost

\* A machine that was just started.
LEMMA HostStart == HostInit => HostInv /\ PlainInv
<1>. SUFFICES ASSUME HostInit PROVE HostInv /\ PlainInv
  OBVIOUS
<1>1. CoresTypeOK
  BY TotalType DEF HostInit, CoresInit, CoresTypeOK
<1>2. HostTypeOK
  BY <1>1, HostAssumption
     DEF HostInit, HostTypeOK, Stages, Steps, Workers, NoStatus, Senders
<1>3. Holding = {}
  BY DEF HostInit, Holding
<1>4. UnitsCounted
  <2>1. UnitsOf(Holding) = {}
    BY <1>3 DEF UnitsOf
  <2>2. IsFiniteSet({}) /\ Cardinality({}) = 0
    BY FS_EmptySet
  <2>3. IsFiniteSet(UnitsOf(Holding)) /\ Cardinality(UnitsOf(Holding)) = 0
    BY <2>1, <2>2, Zenon
  <2>. QED  BY <2>3 DEF UnitsCounted, CoresAccounted, HostInit, CoresInit
<1>5. LockedNotIdle /\ NoCoreLost
  BY TotalType DEF LockedNotIdle, NoCoreLost, HostInit, CoresInit
<1>6. nimbyLocked = FALSE
  BY DEF HostInit
<1>. QED  BY <1>2, <1>3, <1>4, <1>5, <1>6
          DEF HostInv, PlainInv, LedgerInv, GpusApart

\* A step that changes nothing.
LEMMA HostSame ==
  ASSUME HostInv, UNCHANGED vars
  PROVE  HostInv' /\ UNCHANGED nimbyLocked /\ Balanced
<1>1. Quiet
  BY HoldingSame DEF vars, coreVars, hostVars, frameVars, Quiet
<1>2. LedgerInv' /\ Balanced
  BY <1>1, QuietLedger DEF HostInv
<1>3. HostTypeOK'
  BY CoresSame
     DEF HostInv, vars, hostVars, frameVars, cmdVars, HostTypeOK
<1>. QED  BY <1>2, <1>3 DEF HostInv, vars, hostVars

\* Whatever the process does, nimby or not.
LEMMA HostInvStep ==
  ASSUME HostInv, HostNext
  PROVE  HostInv' /\ UNCHANGED nimbyLocked /\ Ledger /\ (Balanced \/ Forgets)
<1>1. HostTypeOK' /\ UNCHANGED nimbyLocked /\ Ledger
  BY StepKept DEF HostInv, Kept
<1>2. CoresTypeOK
  BY DEF HostInv, HostTypeOK
<1>. QED  BY <1>1, <1>2, LedgerStep DEF HostInv

\* Without nimby no step forgets a unit.
LEMMA PlainStep ==
  HostInv /\ PlainInv /\ [Next]_vars
    => (HostInv /\ PlainInv)' /\ (Ledger \/ UNCHANGED vars)
<1>. SUFFICES ASSUME HostInv, PlainInv, [Next]_vars
              PROVE  (HostInv /\ PlainInv)' /\ (Ledger \/ UNCHANGED vars)
  OBVIOUS
<1>1. CASE Next
  <2>1. HostInv' /\ UNCHANGED nimbyLocked /\ Ledger /\ (Balanced \/ Forgets)
    BY <1>1, HostInvStep DEF Next
  <2>. QED  BY <2>1 DEF PlainInv, Forgets, Balanced
<1>2. CASE UNCHANGED vars
  BY <1>2, HostSame DEF PlainInv, Balanced
<1>. QED  BY <1>1, <1>2

\* The invariant of a host without nimby.
LEMMA HostInvHolds == Spec => [](HostInv /\ PlainInv)
  BY HostStart, PlainStep, PTL DEF Spec

\* Every variable keeps its type.
THEOREM HostTypeCorrect == Spec => []HostTypeOK
<1>1. HostInv => HostTypeOK
  BY DEF HostInv
<1>. QED  BY <1>1, HostInvHolds, PTL

\* booked_cores is what the accepted launches ask for, however launches,
\* failures, releases and locks came.
THEOREM CoresAccountedCorrect == Spec => []CoresAccounted
<1>1. HostInv => CoresAccounted
  BY DEF HostInv, LedgerInv, UnitsCounted
<1>. QED  BY <1>1, HostInvHolds, PTL

\* What is locked is not idle, though a launch may have taken a core after it
\* was locked.
THEOREM LockedNotIdleCorrect == Spec => []LockedNotIdle
<1>1. HostInv => LockedNotIdle
  BY DEF HostInv, LedgerInv
<1>. QED  BY <1>1, HostInvHolds, PTL

\* And no unit is forgotten by releases and unlocks, on a host without nimby.
THEOREM NoCoreLostCorrect == Spec => []NoCoreLost
<1>1. PlainInv => NoCoreLost
  BY DEF PlainInv
<1>. QED  BY <1>1, HostInvHolds, PTL

-----------------------------------------------------------------------------
(* The GPUs of the host are an exclusive pool. *)

gpuOwners == [g \in Gpus |-> {r \in Holding : g \in gpuList[r]}]

\* No GPU has an owner at first.
LEMMA PoolStart == HostInit => GpuPool!PoolInit
<1>. SUFFICES ASSUME HostInit PROVE gpuOwners = [i \in Gpus |-> {}]
  BY DEF GpuPool!PoolInit, gpuOwners
<1>. QED  BY DEF HostInit, Holding, gpuOwners

\* A step of the ledger takes GPUs nobody has, gives back own ones, or
\* touches none.
LEMMA PoolStep ==
  ASSUME HostInv, Ledger \/ UNCHANGED vars
  PROVE  GpuPool!PoolNext \/ gpuOwners' = gpuOwners
<1>1. CASE Quiet \/ Locks \/ UNCHANGED vars
  <2>1. gpuList' = gpuList /\ Holding' = Holding
    BY <1>1, HoldingSame
       DEF Quiet, Locks, LockMoves, LockUnits, UnlockUnits, LockEverything,
           UnlockEverything, vars, coreVars, hostVars, frameVars
  <2>. QED  BY <2>1 DEF gpuOwners
<1>2. ASSUME NEW r \in Runs, Takes(r)
      PROVE  GpuPool!PoolNext
  <2>1. PICK G \in GpuSets(r) : gpuList' = [gpuList EXCEPT ![r] = G]
    BY <1>2 DEF Takes, TakeCores
  <2>2. /\ G \subseteq freeGpus /\ freeGpus \subseteq Gpus
        /\ gpuList'[r] = G
        /\ \A s \in Runs : s # r => gpuList'[s] = gpuList[s]
    BY <2>1 DEF GpuSets, HostInv, HostTypeOK, CoresTypeOK
  <2>3. Holding' = Holding \cup {r} /\ r \notin Holding
    BY <1>2 DEF Takes
  <2>4. \A g \in G : \A s \in Holding : g \notin gpuList[s]
    BY <2>2 DEF HostInv, LedgerInv, GpusApart
  <2>5. \A g \in G : gpuOwners[g] = {}
    BY <2>2, <2>4 DEF gpuOwners
  <2>6. gpuOwners' = [g \in Gpus |-> IF g \in G THEN {r} ELSE gpuOwners[g]]
    <3>1. ASSUME NEW g \in Gpus
          PROVE  {s \in Holding' : g \in gpuList'[s]}
                   = IF g \in G THEN {r} ELSE {s \in Holding : g \in gpuList[s]}
      BY <2>2, <2>3, <2>4, HoldingType
    <3>. QED  BY <3>1 DEF gpuOwners
  <2>7. GpuPool!Take(r, G)
    BY <2>5, <2>6 DEF GpuPool!Take, gpuOwners
  <2>. QED  BY <2>2, <2>7 DEF GpuPool!PoolNext
<1>3. ASSUME NEW r \in Runs, Gives(r)
      PROVE  GpuPool!PoolNext
  <2>1. gpuList' = gpuList /\ Holding' = Holding \ {r}
    BY <1>3 DEF Gives, GiveBack
  <2>2. gpuOwners' = [g \in Gpus |-> gpuOwners[g] \ {r}]
    <3>1. ASSUME NEW g \in Gpus
          PROVE  {s \in Holding' : g \in gpuList'[s]}
                   = {s \in Holding : g \in gpuList[s]} \ {r}
      BY <2>1
    <3>. QED  BY <3>1 DEF gpuOwners
  <2>3. GpuPool!Give(r)
    BY <2>2 DEF GpuPool!Give, gpuOwners
  <2>. QED  BY <2>3 DEF GpuPool!PoolNext
<1>. QED  BY <1>1, <1>2, <1>3 DEF Ledger

\* The host's handling of GPUs implements the abstract pool: whoever has a GPU
\* is its only owner until the attendant gives it back.
THEOREM GpusExclusiveCorrect == Spec => GpusExclusive
<1>1. HostInv /\ PlainInv /\ [Next]_vars => [GpuPool!PoolNext]_gpuOwners
  BY PlainStep, PoolStep
<1>. QED  BY <1>1, PoolStart, HostInvHolds, PTL
          DEF Spec, GpusExclusive, GpuPool!PoolSpec, gpuOwners

-----------------------------------------------------------------------------
(* Live renders are in the cache. *)

Over == {"over", "released", "uncached", "sending", "done", "lost"}
Entered == {"stored", "live", "over", "released"}
AtHand == {"checked", "setup", "stored", "live", "over", "released"}

\* A status report reports what is over; an entry is that of a launch of its
\* frame which has stored it and not dropped it yet; and two launches of a
\* frame are in hand at once only where the later one doubled the frame.
StatusIsOver == status.run # NoRun => HasExitStatus(status.run)

EntriesEntered ==
    \A f \in FrameIds :
        cache[f] # NoRun => frame(cache[f]) = f /\ stage[cache[f]] \in Entered

OneInHand ==
    \A r, d \in Runs :
        /\ r # d
        /\ frame(r) = frame(d)
        /\ InHand(r)
        /\ InHand(d)
        => frame(r) \in doubled

LiveInv == StatusIsOver /\ EntriesEntered /\ OneInHand /\ LiveIsCached

\* Being in hand, by the stage.
LEMMA InHandByStage ==
  ASSUME NEW r
  PROVE  /\ InHand(r) <=> stage[r] \in AtHand \/ status.run = r
         /\ InHand(r)' <=> stage'[r] \in AtHand \/ status'.run = r
         /\ HasExitStatus(r) <=> stage[r] \in Over
         /\ HasExitStatus(r)' <=> stage'[r] \in Over
  BY DEF InHand, HasExitStatus, AtHand, Over

\* A step that leaves stages, cache and status report alone.
LEMMA LiveSame ==
  ASSUME LiveInv, UNCHANGED <<stage, cache, status, doubled>>
  PROVE  LiveInv'
<1>1. StatusIsOver'
  BY DEF LiveInv, StatusIsOver, HasExitStatus
<1>2. EntriesEntered'
  BY DEF LiveInv, EntriesEntered, frame
<1>3. OneInHand'
  BY DEF LiveInv, OneInHand, InHand, frame
<1>4. LiveIsCached'
  BY DEF LiveInv, LiveIsCached, frame
<1>. QED  BY <1>1, <1>2, <1>3, <1>4 DEF LiveInv

\* An attendant that is not past its entry moves on: it touches no entry but its
\* own frame's, and that only while it is in hand, so that another launch of
\* the frame that renders meanwhile has doubled it.
LEMMA LiveMove ==
  ASSUME HostTypeOK, LiveInv, NEW r \in Runs, NEW from, NEW to \in Stages,
         Move(r, from, to), status' = status, doubled' = doubled,
         from \in Over => to \in Over,
         to \in AtHand => from \in AtHand,
         \A f \in FrameIds : f # frame(r) => cache'[f] = cache[f],
         \/ cache'[frame(r)] = cache[frame(r)]
         \/ cache'[frame(r)] \in {r, NoRun} /\ from \in AtHand,
         cache'[frame(r)] = r => to \in Entered,
         to \in {"stored", "live"} => cache'[frame(r)] = r \/ frame(r) \in doubled
  PROVE  LiveInv'
<1>1. /\ stage[r] = from /\ stage'[r] = to
      /\ \A s \in Runs : s # r => stage'[s] = stage[s]
  BY DEF Move, HostTypeOK
<1>2. /\ \A s \in Runs : frame(s) \in FrameIds
      /\ NoRun \notin Runs
      /\ \A f \in FrameIds : cache[f] \in Runs \/ cache[f] = NoRun
      /\ status.run \in Runs \/ status.run = NoRun
  BY WantType, HostAssumption DEF HostTypeOK
<1>3. StatusIsOver'
  BY <1>1, <1>2, InHandByStage DEF LiveInv, StatusIsOver
<1>4. EntriesEntered'
  <2>1. ASSUME NEW f \in FrameIds, cache'[f] # NoRun
        PROVE  frame(cache'[f]) = f /\ stage'[cache'[f]] \in Entered
    <3>1. CASE cache'[f] = r /\ f = frame(r)
      BY <1>1, <3>1
    <3>2. CASE cache'[f] = cache[f]
      <4>1. /\ cache[f] \in Runs
            /\ frame(cache[f]) = f /\ stage[cache[f]] \in Entered
        BY <1>2, <2>1, <3>2 DEF LiveInv, EntriesEntered
      <4>2. CASE cache[f] = r
        BY <1>1, <3>2, <4>1, <4>2
      <4>3. CASE cache[f] # r
        BY <1>1, <3>2, <4>1, <4>3
      <4>. QED  BY <4>2, <4>3
    <3>. QED  BY <2>1, <3>1, <3>2
  <2>. QED  BY <2>1 DEF EntriesEntered, frame
<1>5. \A s \in Runs : InHand(s)' => InHand(s)
  BY <1>1, InHandByStage
<1>6. OneInHand'
  BY <1>5 DEF LiveInv, OneInHand, frame
<1>7. ASSUME NEW s \in Runs, stage'[s] \in {"stored", "live"}
      PROVE  cache'[frame(s)] = s \/ frame(s) \in doubled
  <2>1. CASE s = r
    BY <1>1, <1>7, <2>1
  <2>2. CASE s # r
    <3>1. stage[s] \in {"stored", "live"}
      BY <1>1, <1>7, <2>2
    <3>2. cache[frame(s)] = s \/ frame(s) \in doubled
      BY <3>1 DEF LiveInv, LiveIsCached
    <3>3. CASE cache'[frame(s)] = cache[frame(s)]
      BY <3>2, <3>3
    <3>4. CASE frame(s) = frame(r) /\ from \in AtHand
      <4>1. InHand(s) /\ InHand(r)
        BY <1>1, <3>1, <3>4, InHandByStage DEF AtHand
      <4>. QED  BY <2>2, <3>4, <4>1 DEF LiveInv, OneInHand
    <3>. QED  BY <1>2, <3>3, <3>4
  <2>. QED  BY <2>1, <2>2
<1>8. LiveIsCached'
  BY <1>7 DEF LiveIsCached, frame
<1>. QED  BY <1>3, <1>4, <1>6, <1>8 DEF LiveInv

\* A launch: the frame is doubled when an earlier launch of it is in hand, and
\* when none is, no launch of the frame renders.
LEMMA LiveLaunch ==
  ASSUME HostTypeOK, LiveInv, NEW r \in Runs, LaunchFrame(r)
  PROVE  LiveInv'
<1>1. /\ status' = status /\ cache' = cache
      /\ stage[r] = "none" /\ stage'[r] \in {"checked", "refused"}
      /\ \A s \in Runs : s # r => stage'[s] = stage[s]
  BY DEF LaunchFrame, Move, HostTypeOK
<1>2. /\ \A s \in Runs : frame(s) \in FrameIds
      /\ NoRun \notin Runs
      /\ \A f \in FrameIds : cache[f] \in Runs \/ cache[f] = NoRun
      /\ status.run \in Runs \/ status.run = NoRun
  BY WantType, HostAssumption DEF HostTypeOK
<1>3. status.run # r
  BY <1>1, <1>2, InHandByStage DEF LiveInv, StatusIsOver, Over
<1>4. StatusIsOver'
  BY <1>1, <1>2, <1>3, InHandByStage DEF LiveInv, StatusIsOver
<1>5. EntriesEntered'
  <2>1. ASSUME NEW f \in FrameIds, cache[f] # NoRun
        PROVE  frame(cache[f]) = f /\ stage'[cache[f]] \in Entered
    <3>1. /\ cache[f] \in Runs
          /\ frame(cache[f]) = f /\ stage[cache[f]] \in Entered
      BY <1>2, <2>1 DEF LiveInv, EntriesEntered
    <3>2. cache[f] # r
      BY <1>1, <3>1 DEF Entered
    <3>. QED  BY <1>1, <3>1, <3>2
  <2>. QED  BY <1>1, <2>1 DEF EntriesEntered, frame
<1>6. \A s \in Runs : s # r => (InHand(s)' <=> InHand(s))
  BY <1>1, InHandByStage
<1>7. \A f \in FrameIds : f # frame(r) => (f \in doubled' <=> f \in doubled)
  BY DEF LaunchFrame
<1>8. InHand(r)' => Launchable(r)
  <2>1. CASE Launchable(r)
    BY <2>1
  <2>2. CASE ~Launchable(r)
    <3>1. stage'[r] = "refused"
      BY <1>1, <2>2 DEF LaunchFrame, Move, HostTypeOK
    <3>. QED  BY <1>1, <1>3, <3>1, InHandByStage DEF AtHand
  <2>. QED  BY <2>1, <2>2
<1>9. ASSUME NEW d \in Runs, frame(d) = frame(r), InHand(d)
      PROVE  /\ Launchable(r) => frame(r) \in doubled'
             /\ frame(r) \in doubled => frame(r) \in doubled'
  BY <1>9 DEF LaunchFrame
<1>10. OneInHand'
  <2>1. ASSUME NEW s \in Runs, NEW d \in Runs, s # d, frame(s) = frame(d),
               InHand(s)', InHand(d)'
        PROVE  frame(s) \in doubled'
    <3>1. CASE s = r
      BY <1>6, <1>8, <1>9, <2>1, <3>1
    <3>2. CASE d = r
      BY <1>6, <1>8, <1>9, <2>1, <3>2
    <3>3. CASE s # r /\ d # r
      <4>1. InHand(s) /\ InHand(d)
        BY <1>6, <2>1, <3>3
      <4>2. frame(s) \in doubled
        BY <2>1, <4>1 DEF LiveInv, OneInHand
      <4>. QED  BY <1>2, <1>7, <1>9, <4>1, <4>2
    <3>. QED  BY <3>1, <3>2, <3>3
  <2>. QED  BY <2>1 DEF OneInHand, frame
<1>11. ASSUME NEW s \in Runs, stage'[s] \in {"stored", "live"}
       PROVE  cache[frame(s)] = s \/ frame(s) \in doubled'
  <2>1. s # r /\ stage[s] \in {"stored", "live"}
    BY <1>1, <1>11
  <2>2. cache[frame(s)] = s \/ frame(s) \in doubled
    BY <2>1 DEF LiveInv, LiveIsCached
  <2>3. InHand(s)
    BY <2>1, InHandByStage DEF AtHand
  <2>. QED  BY <1>2, <1>7, <1>9, <2>2, <2>3
<1>12. LiveIsCached'
  BY <1>1, <1>11 DEF LiveIsCached, frame
<1>. QED  BY <1>4, <1>5, <1>10, <1>12 DEF LiveInv

\* Launches and attendants.
LEMMA LiveAttendant ==
  ASSUME HostTypeOK, LiveInv, NEW r \in Runs,
         LaunchFrame(r) \/ Attendant(r) \/ AttendantEnds(r)
  PROVE  LiveInv'
<1>1. /\ cache \in [FrameIds -> Runs \cup {NoRun}]
      /\ frame(r) \in FrameIds
      /\ NoRun \notin Runs
  BY WantType, HostAssumption DEF HostTypeOK
<1>2. cache[frame(r)] = r => stage[r] \in Entered
  BY <1>1 DEF LiveInv, EntriesEntered
<1>3. CASE LaunchFrame(r)
  BY <1>3, LiveLaunch
<1>4. CASE Reserve(r)
  <2>1. PICK to \in {"setup", "refused"} : Move(r, "checked", to)
    BY <1>4 DEF Reserve
  <2>2. cache[frame(r)] # r
    BY <1>2, <2>1 DEF Move, Entered
  <2>. QED  BY <1>1, <1>4, <2>1, <2>2, LiveMove
            DEF Reserve, Stages, Over, AtHand
<1>5. CASE StoreFrame(r)
  BY <1>1, <1>2, <1>5, LiveMove
     DEF StoreFrame, AttendantStep, Stages, Over, AtHand, Entered
<1>6. CASE Fork(r)
  <2>1. cache[frame(r)] = r \/ frame(r) \in doubled
    BY <1>6 DEF Fork, AttendantStep, Move, LiveInv, LiveIsCached
  <2>. QED  BY <1>1, <1>6, <2>1, LiveMove
            DEF Fork, AttendantStep, Stages, Over, AtHand, Entered
<1>7. CASE ReleaseCores(r)
  BY <1>1, <1>7, LiveMove
     DEF ReleaseCores, AttendantStep, Stages, Over, AtHand, Entered
<1>8. CASE Uncache(r)
  <2>1. /\ cache'[frame(r)] = NoRun
        /\ \A f \in FrameIds : f # frame(r) => cache'[f] = cache[f]
    BY <1>1, <1>8 DEF Uncache, DeleteFrame
  <2>. QED  BY <1>1, <1>8, <2>1, LiveMove
            DEF Uncache, AttendantStep, Stages, Over, AtHand
<1>9. CASE StartReport(r) \/ EndReport(r)
  <2>1. PICK from \in {"uncached", "sending"}, to \in {"sending", "done", "lost"} :
          AttendantStep(r, from, to)
    BY <1>9 DEF StartReport, EndReport
  <2>2. cache[frame(r)] # r /\ cache' = cache
    BY <1>2, <1>9, <2>1
       DEF StartReport, EndReport, AttendantStep, Move, Entered
  <2>. QED  BY <1>1, <2>1, <2>2, LiveMove
            DEF AttendantStep, Stages, Over, AtHand
<1>10. CASE AttendantEnds(r)
  <2>1. PICK from \in {"setup", "stored", "live"} : AttendantStep(r, from, "over")
    BY <1>10 DEF AttendantEnds
  <2>2. cache' = cache
    BY <1>10 DEF AttendantEnds
  <2>. QED  BY <1>1, <2>1, <2>2, LiveMove
            DEF AttendantStep, Stages, Over, AtHand, Entered
<1>. QED  BY <1>3, <1>4, <1>5, <1>6, <1>7, <1>8, <1>9, <1>10
          DEF Attendant

\* A status report finds what is in hand, and drops an entry of its frame while
\* the launch it found is: what renders under that id meanwhile doubled it.
LEMMA LiveStatus ==
  ASSUME HostTypeOK, LiveInv, Status
  PROVE  LiveInv'
<1>1. /\ \A s \in Runs : frame(s) \in FrameIds
      /\ NoRun \notin Runs
      /\ \A f \in FrameIds : cache[f] \in Runs \/ cache[f] = NoRun
      /\ status.run \in Runs \/ status.run = NoRun
  BY WantType, HostAssumption DEF HostTypeOK
<1>2. stage' = stage /\ doubled' = doubled
  BY DEF Status, StatusFinds, StatusTells, StatusDrops, StatusStep
<1>3. /\ \A s \in Runs : status'.run = s => InHand(s)
      /\ StatusIsOver'
  <2>1. ASSUME NEW r \in Runs, StatusFinds(r)
        PROVE  /\ status'.run = r /\ HasExitStatus(r) /\ InHand(r)
    <3>1. stage[r] \in Entered
      BY <1>1, <2>1 DEF StatusFinds, Cached, LiveInv, EntriesEntered
    <3>2. InHand(r)
      BY <3>1, InHandByStage DEF Entered, AtHand
    <3>. QED  BY <2>1, <3>2 DEF StatusFinds
  <2>2. CASE StatusTells \/ StatusDrops
    <3>1. status'.run \in {status.run, NoRun}
      BY <2>2 DEF StatusTells, StatusDrops, NoStatus
    <3>. QED  BY <1>1, <1>2, <3>1, InHandByStage DEF LiveInv, StatusIsOver
  <2>3. CASE \E r \in Runs : StatusFinds(r)
    <3>1. PICK r \in Runs : StatusFinds(r)
      BY <2>3
    <3>2. status'.run = r /\ HasExitStatus(r) /\ InHand(r)
      BY <2>1, <3>1
    <3>. QED  BY <1>2, <3>2, InHandByStage DEF StatusIsOver
  <2>. QED  BY <2>2, <2>3 DEF Status
<1>4. \A s \in Runs : InHand(s)' => InHand(s)
  BY <1>2, <1>3, InHandByStage
<1>5. OneInHand'
  BY <1>2, <1>4 DEF LiveInv, OneInHand, frame
<1>6. CASE cache' = cache
  <2>1. EntriesEntered' /\ LiveIsCached'
    BY <1>2, <1>6 DEF LiveInv, EntriesEntered, LiveIsCached, frame
  <2>. QED  BY <1>3, <1>5, <2>1 DEF LiveInv
<1>7. CASE StatusDrops
  <2>1. status.run \in Runs /\ status.run # NoRun
    BY <1>7 DEF StatusDrops, HostTypeOK
  <2>2. stage[status.run] \in Over /\ InHand(status.run)
    BY <2>1, InHandByStage DEF LiveInv, StatusIsOver
  <2>3. /\ cache'[frame(status.run)] = NoRun
        /\ \A f \in FrameIds : f # frame(status.run) => cache'[f] = cache[f]
    BY <1>1, <1>7, <2>1 DEF StatusDrops, DeleteFrame, HostTypeOK
  <2>4. EntriesEntered'
    BY <1>2, <2>3 DEF LiveInv, EntriesEntered, frame
  <2>5. ASSUME NEW s \in Runs, stage[s] \in {"stored", "live"}
        PROVE  cache'[frame(s)] = s \/ frame(s) \in doubled
    <3>1. CASE frame(s) = frame(status.run)
      <4>1. s # status.run /\ InHand(s)
        BY <2>2, <2>5, InHandByStage DEF Over, AtHand
      <4>. QED  BY <2>1, <2>2, <3>1, <4>1 DEF LiveInv, OneInHand
    <3>2. CASE frame(s) # frame(status.run)
      <4>1. cache'[frame(s)] = cache[frame(s)]
        BY <1>1, <2>3, <3>2
      <4>. QED  BY <2>5, <4>1 DEF LiveInv, LiveIsCached
    <3>. QED  BY <3>1, <3>2
  <2>6. LiveIsCached'
    BY <1>2, <2>5 DEF LiveIsCached, frame
  <2>. QED  BY <1>3, <1>5, <2>4, <2>6 DEF LiveInv
<1>. QED  BY <1>6, <1>7 DEF Status, StatusFinds, StatusTells

\* Commands and shutdowns touch no entry.
LEMMA LiveCommands ==
  ASSUME LiveInv, Finishing \/ OnInterval \/ Asked
  PROVE  LiveInv'
<1>1. UNCHANGED <<stage, cache, status, doubled>>
  BY DEF Finishing, OnInterval, Asked, EndUnlock, MarkIdle, CheckIdle, Shutdown,
         ShutdownLocks, ShutdownKills, ShutdownChecks, Exit, Lock, LockAll,
         StartUnlock, ShutdownIdle, ShutdownNow, KillRunningFrame, CmdStep,
         frameVars
<1>. QED  BY <1>1, LiveSame

\* It holds when the process starts.
LEMMA LiveStart == HostInit => LiveInv
<1>. SUFFICES ASSUME HostInit PROVE LiveInv
  OBVIOUS
<1>1. \A r \in Runs : ~InHand(r) /\ stage[r] = "none"
  BY HostAssumption DEF HostInit, InHand, NoStatus
<1>2. StatusIsOver /\ EntriesEntered
  BY DEF HostInit, StatusIsOver, EntriesEntered, NoStatus
<1>. QED  BY <1>1, <1>2 DEF LiveInv, OneInHand, LiveIsCached

\* A render that is stored or runs is found by its frame id, whatever launches,
\* failures and status reports run beside it, unless its frame was launched
\* while an earlier launch of it was still in hand: entries are dropped by
\* frame id, but only while the launch that drops them is in hand.
THEOREM LiveIsCachedCorrect == Spec => []LiveIsCached
<1>1. HostInv /\ LiveInv /\ [Next]_vars => LiveInv'
  <2>. SUFFICES ASSUME HostInv, LiveInv, [Next]_vars PROVE LiveInv'
    OBVIOUS
  <2>1. CASE Next
    BY <2>1, LiveAttendant, LiveStatus, LiveCommands
       DEF Next, HostNext, HostInv
  <2>2. CASE UNCHANGED vars
    BY <2>2, LiveSame DEF vars, hostVars, frameVars
  <2>. QED  BY <2>1, <2>2
<1>2. LiveInv => LiveIsCached
  BY DEF LiveInv
<1>. QED  BY <1>1, <1>2, LiveStart, HostInvHolds, PTL DEF Spec
=============================================================================
