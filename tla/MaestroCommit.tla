---------------------------- MODULE MaestroCommit ----------------------------
(***************************************************************************)
(* One tick of the planning leader, from its plan to the last chunk: what   *)
(* it read, what it commits chunk by chunk while everybody else writes the  *)
(* same rows, how it contains a chunk that fails, and how it finds out that *)
(* it is not the leader any more.  The launch of what was committed, and    *)
(* all that follows, is FrameRun.                                           *)
(*                                                                         *)
(* Every booking is one core of one capped folder, so a host's idle cores   *)
(* and the folder's usage count bookings.                                   *)
(***************************************************************************)
EXTENDS Naturals, Sequences, FiniteSets, SequencesExt

CONSTANTS
    Cuebots,
    NoCuebot,       \* nobody holds the planning lock
    Frames,
    Hosts,
    Cores,          \* cores of a host
    FolderMax,      \* folder_resource.int_max_cores
    ChunkFrames,    \* maestro.commit_chunk_frames
    SplitMaxTx,     \* maestro.commit_split_max_tx
    ProbeStrikes,   \* maestro.leader_probe_strikes
    Rejected,       \* frames a gate in the database may reject
    Events,         \* what else happens: subset of Event
    MaxFaults,      \* bound: faults per behaviour
    MaxVersion      \* bound: frame versions

Event == {"lost", "crash", "shutdown", "abort", "corpse", "eat", "fail"}

ASSUME CommitAssumption ==
    /\ NoCuebot \notin Cuebots
    /\ Cores \in Nat /\ FolderMax \in Nat /\ SplitMaxTx \in Nat
    /\ ChunkFrames \in Nat \ {0} /\ ProbeStrikes \in Nat \ {0}
    /\ IsFiniteSet(Frames) /\ Rejected \subseteq Frames
    /\ Events \subseteq Event
    /\ MaxFaults \in Nat /\ MaxVersion \in Nat

VARIABLES
    frame,      \* frame rows: state and int_version
    procs,      \* proc rows: which frame, on which host
    idle,       \* host.int_cores_idle
    folder,     \* folder_resource.int_cores, the mirror of procs
    lock,       \* the Cuebot whose database session holds the advisory lock
    bot,        \* the memory of each Cuebot's tick thread
    unlocked,   \* history: something was committed without the lock
    faultsLeft

rows == <<frame, procs, idle, folder>>
vars == <<rows, lock, bot, unlocked, faultsLeft>>

\* ver is FrameBooking.frame.version, which the commit changes in memory.
Booking == [frame : Frames, host : Hosts, ver : Nat]

(***************************************************************************)
(* conn: leaderConn is not null.  seed: the folder usage the trim counts    *)
(* from.  rest: planned and not in a chunk yet; pieces: what is left of the *)
(* chunk, the piece to commit first.  History, of this tick: planned (as    *)
(* read), told (leaderAlive has said no), failed (the frames of the pieces  *)
(* whose transaction failed).                                               *)
(***************************************************************************)
Bot ==
    [pc : {"idle", "plan", "chunk", "commit", "split"},
     conn : BOOLEAN, stopping : BOOLEAN, misses : 0..(ProbeStrikes - 1),
     seed : Nat, rest : Seq(Booking), pieces : Seq(Seq(Booking)),
     splits : Nat, deltas : Nat, planned : SUBSET Booking, told : BOOLEAN,
     failed : SUBSET Frames]

TypeOK ==
    /\ frame \in [Frames -> [state : {"WAITING", "RUNNING", "ENDED"}, ver : Nat]]
    /\ procs \subseteq [frame : Frames, host : Hosts]
    /\ idle \in [Hosts -> Nat]
    /\ folder \in Nat
    /\ lock \in Cuebots \cup {NoCuebot}
    /\ bot \in [Cuebots -> Bot]
    /\ unlocked \in BOOLEAN
    /\ faultsLeft \in Nat

Fresh ==
    [pc |-> "idle", conn |-> FALSE, stopping |-> FALSE, misses |-> 0, seed |-> 0,
     rest |-> <<>>, pieces |-> <<>>, splits |-> 0, deltas |-> 0, planned |-> {},
     told |-> FALSE, failed |-> {}]

Init ==
    /\ frame = [f \in Frames |-> [state |-> "WAITING", ver |-> 0]]
    /\ procs = {}
    /\ idle = [h \in Hosts |-> Cores]
    /\ folder = 0
    /\ lock = NoCuebot
    /\ bot = [c \in Cuebots |-> Fresh]
    /\ unlocked = FALSE
    /\ faultsLeft = MaxFaults

Spend(event) ==
    /\ event \in Events
    /\ faultsLeft > 0
    /\ faultsLeft' = faultsLeft - 1

OnFrames(F) == {p \in procs : p.frame \in F}
OnHost(h, S) == {x \in S : x.host = h}
Bookings(s) == ToSet(s)
FramesIn(s) == {b.frame : b \in Bookings(s)}

-----------------------------------------------------------------------------
(* Host-aligned pieces of a plan, in which a host's bookings are contiguous. *)

SameHost(s, i) == s[i].host = s[i + 1].host

\* chunkEnd: ChunkFrames bookings, and the rest of the host they end on.
ChunkEnd(s) ==
    CHOOSE e \in 0..Len(s) :
        /\ e = Len(s) \/ (e >= ChunkFrames /\ ~SameHost(s, e))
        /\ \A i \in ChunkFrames..(e - 1) : SameHost(s, i)

Distance(i, j) == IF i < j THEN j - i ELSE i - j

\* hostAlignedMid: the boundary nearest the middle, the first of two; 0 if none.
HostAlignedMid(s) ==
    LET cuts == {i \in 1..(Len(s) - 1) : ~SameHost(s, i)}
        Nearer(i, j) == LET m == Len(s) \div 2
                        IN  \/ Distance(i, m) < Distance(j, m)
                            \/ Distance(i, m) = Distance(j, m) /\ i <= j
    IN  IF cuts = {} THEN 0 ELSE CHOOSE i \in cuts : \A j \in cuts : Nearer(i, j)

-----------------------------------------------------------------------------
(* The leader lock. *)

\* Mutant: one strike too many.
MissedOnceMore(c) ==
    IF bot[c].misses < ProbeStrikes
      THEN [alive |-> TRUE, misses |-> bot[c].misses + 1]
      ELSE [alive |-> FALSE, misses |-> 0]

\* A probe that timed out: only ProbeStrikes of them in a row are a loss.
Missed(c) ==
    IF bot[c].misses + 1 < ProbeStrikes
      THEN [alive |-> TRUE, misses |-> bot[c].misses + 1]
      ELSE [alive |-> FALSE, misses |-> 0]

\* What leaderAlive may answer, and the misses it leaves.  A live session may
\* miss a probe; a dead one does, or its connection is seen to be closed.
LeaderAlive(c) ==
    IF bot[c].stopping \/ ~bot[c].conn
      THEN {[alive |-> FALSE, misses |-> bot[c].misses]}
      ELSE {Missed(c), [alive |-> lock = c, misses |-> 0]}

Released(c) == IF lock = c THEN NoCuebot ELSE lock

\* ensureLeadership says no: a standby, or a leader whose probe failed.
Standby(c) ==
    /\ bot[c].pc = "idle"
    /\ ~bot[c].stopping
    /\ bot[c].conn
    /\ bot' = [bot EXCEPT ![c].conn = FALSE]
    /\ lock' = Released(c)
    /\ UNCHANGED <<rows, unlocked, faultsLeft>>

\* ensureLeadership says yes, and the snapshot and the candidates are read.
TickStart(c) ==
    /\ bot[c].pc = "idle"
    /\ ~bot[c].stopping
    /\ IF bot[c].conn THEN lock = c ELSE lock = NoCuebot
    /\ lock' = c
    /\ bot' = [bot EXCEPT ![c] =
                 [Fresh EXCEPT !.pc = "plan", !.conn = TRUE, !.seed = folder,
                               !.misses = bot[c].misses, !.splits = SplitMaxTx]]
    /\ UNCHANGED <<rows, unlocked, faultsLeft>>

-----------------------------------------------------------------------------
(* The plan: WAITING frames on idle cores, whichever the scores chose, each *)
(* host's bookings contiguous.                                              *)

Waiting == {f \in Frames : frame[f].state = "WAITING"}

Contiguous(hosts) ==
    \A i, k \in DOMAIN hosts :
        hosts[i] = hosts[k] => \A j \in i..k : hosts[j] = hosts[i]

Fit(hosts) ==
    \A h \in Hosts : Cardinality({i \in DOMAIN hosts : hosts[i] = h}) <= idle[h]

Placements(n) == {hosts \in [1..n -> Hosts] : Contiguous(hosts) /\ Fit(hosts)}

Plans ==
    UNION {{[i \in 1..Len(order) |->
               [frame |-> order[i], host |-> hosts[i], ver |-> frame[order[i]].ver]] :
              hosts \in Placements(Len(order))} :
             order \in SetToAllKPermutations(Waiting)}

\* Mutant: the cap is taken for this tick's own budget.
TrimmedFromZero(s, seed) == SubSeq(s, 1, IF Len(s) < FolderMax THEN Len(s) ELSE FolderMax)

\* trimOverFolderCeiling: in plan order, from the usage at tick start.
Trimmed(s, seed) ==
    LET room == IF seed < FolderMax THEN FolderMax - seed ELSE 0
    IN  SubSeq(s, 1, IF Len(s) < room THEN Len(s) ELSE room)

Plan(c) ==
    /\ bot[c].pc = "plan"
    /\ \E s \in Plans :
         LET plan == Trimmed(s, bot[c].seed)
         IN  bot' = [bot EXCEPT ![c].pc = "chunk", ![c].rest = plan,
                                ![c].seed = 0, ![c].planned = Bookings(plan)]
    /\ UNCHANGED <<rows, lock, unlocked, faultsLeft>>

-----------------------------------------------------------------------------
(* commitInChunks and commitContained. *)

NextChunk(c) ==
    /\ bot[c].pc = "chunk"
    /\ bot[c].rest # <<>>
    /\ \E o \in LeaderAlive(c) :
         /\ o.alive
         /\ LET n == ChunkEnd(bot[c].rest)
            IN  bot' = [bot EXCEPT ![c].pc = "commit", ![c].misses = o.misses,
                          ![c].pieces = <<SubSeq(bot[c].rest, 1, n)>>,
                          ![c].rest = SubSeq(@, n + 1, Len(@))]
    /\ UNCHANGED <<rows, lock, unlocked, faultsLeft>>

Ended(c, misses, conn) ==
    [bot EXCEPT ![c] = [Fresh EXCEPT !.stopping = bot[c].stopping,
                                     !.misses = misses, !.conn = conn]]

\* demote: the lock goes, and what was not committed stays WAITING.
Demoted(c) ==
    /\ bot[c].pc = "chunk"
    /\ bot[c].rest # <<>>
    /\ \E o \in LeaderAlive(c) :
         /\ ~o.alive
         /\ bot' = Ended(c, o.misses, FALSE)
    /\ lock' = Released(c)
    /\ UNCHANGED <<rows, unlocked, faultsLeft>>

TickEnds(c) ==
    /\ bot[c].pc = "chunk"
    /\ bot[c].rest = <<>>
    /\ bot' = Ended(c, bot[c].misses, bot[c].conn)
    /\ UNCHANGED <<rows, lock, unlocked, faultsLeft>>

\* The capacity gate is per host: all of its bookings in the piece, or none.
Affordable(piece) ==
    {b \in Bookings(piece) :
        Cardinality(OnHost(b.host, Bookings(piece))) <= idle[b.host]}

Won(piece) ==
    {b \in Affordable(piece) :
        frame[b.frame].state = "WAITING" /\ frame[b.frame].ver = b.ver}

\* Mutant: what was reserved for a lost frame is not given back.
IdleWithoutRefund(piece, won, stale) ==
    [h \in Hosts |-> idle[h] - Cardinality(OnHost(h, Affordable(piece)))
                             + Cardinality(OnHost(h, stale))]

\* Reserved for the affordable, refunded for race losers and evicted procs.
IdleAfter(piece, won, stale) ==
    [h \in Hosts |-> idle[h] - Cardinality(OnHost(h, won))
                             + Cardinality(OnHost(h, stale))]

\* Mutant: nothing is evicted.
NothingStale(won) == {}

\* deleteStaleProcsByFrames: the corpses on the frames just won.
Stale(won) == OnFrames({b.frame : b \in won})

Next_(pieces) == IF pieces = <<>> THEN "chunk" ELSE "commit"

\* One piece in one transaction: its rows, and the buffered deltas with them.
CommitPiece(c) ==
    LET piece == Head(bot[c].pieces)
        won == Won(piece)
        stale == Stale(won)
    IN  /\ bot[c].pc = "commit"
        /\ frame' = [f \in Frames |->
                       IF \E b \in won : b.frame = f
                         THEN [state |-> "RUNNING", ver |-> frame[f].ver + 1]
                         ELSE frame[f]]
        /\ procs' = (procs \ stale)
                      \cup {[frame |-> b.frame, host |-> b.host] : b \in won}
        /\ idle' = IdleAfter(piece, won, stale)
        /\ folder' = (folder + bot[c].deltas + Cardinality(won))
                       - Cardinality(stale)
        /\ bot' = [bot EXCEPT ![c].pieces = Tail(@), ![c].deltas = 0,
                              ![c].pc = Next_(Tail(bot[c].pieces))]
        /\ unlocked' = (unlocked \/ (won # {} /\ lock # c))
        /\ UNCHANGED <<lock, faultsLeft>>

\* Mutant: the deltas a failed flush left behind reach the next piece.
Kept(deltas) == deltas

\* discardResourceDeltas.
Discarded(deltas) == 0

\* A gate of the database rejects a booking (before_insert_proc or c_proc_uk
\* when its proc is inserted, verify_subscription or verify_job_resources when
\* the deltas are flushed), after the won frames' version++ in memory; or the
\* database aborts, at any statement.
Fails(won, where) ==
    \/ /\ \E b \in won : b.frame \in Rejected
       /\ where = "after"
       /\ UNCHANGED faultsLeft
    \/ Spend("abort")

\* The transaction rolls back; the bookings in memory do not.
PieceFails(c) ==
    LET piece == Head(bot[c].pieces)
        won == Won(piece)
    IN  /\ bot[c].pc = "commit"
        /\ won # {}
        /\ \E where \in {"before", "after"} :
             /\ Fails(won, where)
             /\ bot' = [bot EXCEPT
                  ![c].pc = "split",
                  ![c].failed = @ \cup FramesIn(piece),
                  ![c].deltas =
                    Discarded(IF where = "after" THEN @ + Cardinality(won) ELSE @),
                  ![c].pieces[1] =
                    [i \in 1..Len(piece) |->
                       IF where = "after" /\ piece[i] \in won
                         THEN [piece[i] EXCEPT !.ver = piece[i].ver + 1]
                         ELSE piece[i]]]
        /\ UNCHANGED <<rows, lock, unlocked>>

\* Mutant: a piece that is given up takes the rest of the tick with it.
DropTick(c) ==
    /\ bot[c].pc = "split"
    /\ LET mid == HostAlignedMid(Head(bot[c].pieces))
       IN  mid = 0 \/ \E o \in LeaderAlive(c) : ~o.alive \/ bot[c].splits < 2
    /\ bot' = [bot EXCEPT ![c].pieces = <<>>, ![c].rest = <<>>, ![c].pc = "chunk"]
    /\ UNCHANGED <<rows, lock, unlocked, faultsLeft>>

\* One host, leadership lost, or the budget is spent: the piece is dropped.
DropPiece(c) ==
    /\ bot[c].pc = "split"
    /\ LET mid == HostAlignedMid(Head(bot[c].pieces))
           left == Tail(bot[c].pieces)
           Drops(misses, told) ==
             bot' = [bot EXCEPT ![c].pieces = left, ![c].pc = Next_(left),
                                ![c].misses = misses, ![c].told = told]
       IN  IF mid = 0 THEN Drops(bot[c].misses, bot[c].told)
           ELSE \E o \in LeaderAlive(c) :
                  /\ ~o.alive \/ bot[c].splits < 2
                  /\ Drops(o.misses, bot[c].told \/ ~o.alive)
    /\ UNCHANGED <<rows, lock, unlocked, faultsLeft>>

SplitPiece(c) ==
    /\ bot[c].pc = "split"
    /\ LET piece == Head(bot[c].pieces)
           mid == HostAlignedMid(piece)
       IN  /\ mid # 0
           /\ bot[c].splits >= 2
           /\ \E o \in LeaderAlive(c) :
                /\ o.alive
                /\ bot' = [bot EXCEPT
                     ![c].pc = "commit", ![c].misses = o.misses,
                     ![c].splits = @ - 2,
                     ![c].pieces = <<SubSeq(piece, 1, mid),
                                     SubSeq(piece, mid + 1, Len(piece))>>
                                     \o Tail(@)]
    /\ UNCHANGED <<rows, lock, unlocked, faultsLeft>>

-----------------------------------------------------------------------------
(* Everybody else: drains of either Cuebot, lost procs, users. *)

Freed(p) ==
    /\ procs' = procs \ {p}
    /\ idle' = [idle EXCEPT ![p.host] = @ + 1]
    /\ folder' = folder - 1

FrameGoes(f, state) ==
    /\ frame[f].ver < MaxVersion
    /\ frame' = [frame EXCEPT ![f] = [state |-> state, ver |-> @.ver + 1]]

\* stopFramesBatch: the frame stops and its proc is released with it.  A render
\* that fails, and whose frame waits again, counts as a fault.
Completes(p) ==
    /\ frame[p.frame].state = "RUNNING"
    /\ \/ FrameGoes(p.frame, "ENDED") /\ UNCHANGED faultsLeft
       \/ FrameGoes(p.frame, "WAITING") /\ Spend("fail")
    /\ Freed(p)
    /\ UNCHANGED <<lock, bot, unlocked>>

\* A lost run whose frame is released before its proc (see FrameRun).
LeavesCorpse(p) ==
    /\ frame[p.frame].state = "RUNNING"
    /\ Spend("corpse")
    /\ FrameGoes(p.frame, "WAITING")
    /\ UNCHANGED <<procs, idle, folder, lock, bot, unlocked>>

CorpseReleased(p) ==
    /\ frame[p.frame].state # "RUNNING"
    /\ Freed(p)
    /\ UNCHANGED <<frame, lock, bot, unlocked, faultsLeft>>

\* A user eats a frame that waits, planned or not.
Eaten(f) ==
    /\ frame[f].state = "WAITING"
    /\ Spend("eat")
    /\ FrameGoes(f, "ENDED")
    /\ UNCHANGED <<procs, idle, folder, lock, bot, unlocked>>

-----------------------------------------------------------------------------
(* The lock's session, the Cuebot, and its shutdown. *)

\* The server ends the session of the lock's connection; its holder cannot know.
SessionLost(c) ==
    /\ lock = c
    /\ Spend("lost")
    /\ lock' = NoCuebot
    /\ UNCHANGED <<rows, bot, unlocked>>

Crash(c) ==
    /\ bot[c] # Fresh
    /\ Spend("crash")
    /\ bot' = [bot EXCEPT ![c] = Fresh]
    /\ lock' = Released(c)
    /\ UNCHANGED <<rows, unlocked>>

\* onShutdown marks itself, then releases the lock, whatever the tick is doing.
ShutdownMarked(c) ==
    /\ ~bot[c].stopping
    /\ Spend("shutdown")
    /\ bot' = [bot EXCEPT ![c].stopping = TRUE]
    /\ UNCHANGED <<rows, lock, unlocked>>

ShutdownReleases(c) ==
    /\ bot[c].stopping /\ bot[c].conn
    /\ bot' = [bot EXCEPT ![c].conn = FALSE]
    /\ lock' = Released(c)
    /\ UNCHANGED <<rows, unlocked, faultsLeft>>

TickStep(c) ==
    \/ Standby(c) \/ TickStart(c) \/ Plan(c) \/ NextChunk(c) \/ Demoted(c)
    \/ TickEnds(c) \/ CommitPiece(c) \/ PieceFails(c) \/ DropPiece(c)
    \/ SplitPiece(c)

Next ==
    \/ \E c \in Cuebots : TickStep(c)
    \/ \E p \in procs : Completes(p) \/ LeavesCorpse(p) \/ CorpseReleased(p)
    \/ \E f \in Frames : Eaten(f)
    \/ \E c \in Cuebots : SessionLost(c) \/ Crash(c)
    \/ \E c \in Cuebots : ShutdownMarked(c) \/ ShutdownReleases(c)

Spec == Init /\ [][Next]_vars

-----------------------------------------------------------------------------
(* Properties. *)

\* A host's idle cores are its cores less those of the procs on it, whatever
\* mixture of won, lost, failed, retried and evicted bookings the chunks had and
\* however many Cuebots commit at once (the capacity gate and its refunds).
HostLedger ==
    \A h \in Hosts : idle[h] + Cardinality(OnHost(h, procs)) = Cores

\* The folder's usage mirrors the procs that exist: "procs and their mirrors land
\* together or not at all", and a retry credits only its own procs.
FolderLedger == folder = Cardinality(procs)

\* A RUNNING frame has one proc, whoever else planned it and whatever corpse the
\* frame had: two would break c_proc_uk and with it every later commit.
OneProcPerRun ==
    \A f \in Frames :
        frame[f].state = "RUNNING" => Cardinality(OnFrames({f})) = 1

\* While only the holder of the planning lock commits, a capped folder stays
\* within its cap: no database gate backs the trim up.
FolderCapHeld == ~unlocked => folder <= FolderMax

\* What a failing transaction costs is its own bookings, never the tick: when the
\* holder of the lock ends a tick, and nobody has committed without the lock, every
\* booking it planned was in a piece that failed, or is not left WAITING as planned
\* (the next piece is committed with the cores and versions it was planned with).
TickContained ==
    \A c \in Cuebots :
        bot[c].pc = "chunk" /\ bot[c].rest = <<>> /\ lock = c /\ ~unlocked
        => \A b \in bot[c].planned :
             \/ b.frame \in bot[c].failed
             \/ frame[b.frame].state # "WAITING"
             \/ frame[b.frame].ver # b.ver

\* "A failing chunk costs only the bookings of the host that causes it": where
\* nothing else went wrong, a tick that ends with split budget has no booking
\* left WAITING as planned, unless a frame planned on the same host is rejected.
\* It does not hold: the retries of a split carry the versions that the failed
\* attempt has bumped in memory.
FailureContained ==
    \A c \in Cuebots :
        /\ bot[c].pc = "chunk" /\ bot[c].rest = <<>>
        /\ bot[c].splits >= 2 /\ ~bot[c].told /\ faultsLeft = MaxFaults
        => \A b \in bot[c].planned :
             \/ \E r \in bot[c].planned : r.host = b.host /\ r.frame \in Rejected
             \/ frame[b.frame].state # "WAITING"
             \/ frame[b.frame].ver # b.ver

\* "A leader that loses the planning lock stops before its next chunk": no chunk
\* is begun without the lock once leaderAlive has said that it is lost.
LostLeaderStops ==
    [][\A c \in Cuebots :
         bot[c].pc = "chunk" /\ bot'[c].pc = "commit" /\ lock # c
            => ~bot[c].told]_vars
=============================================================================
