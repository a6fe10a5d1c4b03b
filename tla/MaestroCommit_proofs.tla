---- MODULE MaestroCommit_proofs ----
(***************************************************************************)
(* The ledgers of MaestroCommit hold for every number of Cuebots, frames   *)
(* and hosts, every chunk size and every budget.  The argument: a plan     *)
(* names a frame once, and cutting it into chunks and pieces keeps the     *)
(* pieces apart (Work); so what one piece wins is one proc for each frame, *)
(* and the idle cores, the folder and the procs move together (Rows).      *)
(*                                                                         *)
(* The cap needs more: while only the holder of the lock commits, the      *)
(* folder and what that holder has left to commit fit in the cap together  *)
(* (Capped), from the trim on.                                             *)
(*                                                                         *)
(* That a failing transaction costs only its own bookings needs another    *)
(* invariant (Steady): while the holder of the lock alone commits, its     *)
(* tick can afford all it has left, as planned, and what is behind it was  *)
(* won, overtaken, or in a piece that failed.                              *)
(***************************************************************************)
EXTENDS MaestroCommit, FiniteSetTheorems, SequenceTheorems, TLAPS

(* A set of naturals has a least element.                                  *)
LEMMA LeastOfNaturals ==
    ASSUME NEW T, T \subseteq Nat, T # {}
    PROVE  \E x \in T : \A y \in T : x <= y
<1> DEFINE Below == {1..n : n \in T}
<1>1. IsWellFoundedOn(StrictSubsetOrdering(Nat), FiniteSubsetsOf(Nat))
  BY FS_StrictSubsetOrderingWellFounded
<1>2. Below \subseteq FiniteSubsetsOf(Nat) /\ Below # {}
  <2>1. \A n \in Nat : IsFiniteSet(1..n) /\ 1..n \subseteq Nat
    BY FS_Interval
  <2> QED
    BY <2>1 DEF FiniteSubsetsOf
<1> HIDE DEF Below
<1>3. \E x \in Below : \A y \in Below : ~ (<<y, x>> \in StrictSubsetOrdering(Nat))
  BY <1>1, <1>2, WFMin
<1>4. \E x \in T : \A y \in T : ~ (<<1..y, 1..x>> \in StrictSubsetOrdering(Nat))
  BY <1>3 DEF Below
<1>5. ASSUME NEW x \in T, NEW y \in T, y < x
      PROVE <<1..y, 1..x>> \in StrictSubsetOrdering(Nat)
  <2>1. 1..y \subseteq 1..x
    BY <1>5
  <2>2. x \in 1..x /\ x \notin 1..y
    BY <1>5
  <2>3. 1..y \subseteq Nat /\ 1..x \subseteq Nat
    BY <1>5
  <2> QED
    BY <2>1, <2>2, <2>3 DEF StrictSubsetOrdering
<1>6. \A x, y \in T : y < x \/ x <= y
  OBVIOUS
<1> QED
  BY <1>4, <1>5, <1>6

(* chunkEnd returns a place in the plan: the first one that qualifies.     *)
LEMMA ChunkEndType ==
    ASSUME NEW s \in Seq(Booking) PROVE ChunkEnd(s) \in 0..Len(s)
<1> DEFINE Ends == {e \in 0..Len(s) : e = Len(s) \/ (e >= ChunkFrames /\ ~SameHost(s, e))}
<1>1. Len(s) \in Ends /\ Ends \subseteq Nat
  OBVIOUS
<1>2. PICK e \in Ends : \A d \in Ends : e <= d
  <2> HIDE DEF Ends
  <2> QED BY <1>1, LeastOfNaturals
<1>3. ASSUME NEW i \in ChunkFrames..(e - 1) PROVE SameHost(s, i)
  <2>1. i \in 0..Len(s) /\ i < e /\ i >= ChunkFrames
    BY <1>2, <1>3, CommitAssumption
  <2> QED
    BY <2>1, <1>2
<1>4. e \in 0..Len(s) /\ (e = Len(s) \/ (e >= ChunkFrames /\ ~SameHost(s, e)))
  BY <1>2
<1> QED
  BY <1>3, <1>4 DEF ChunkEnd

(* hostAlignedMid returns a cut that leaves bookings on both sides, or 0 if  *)
(* there is none.                                                          *)
LEMMA MidType ==
    ASSUME NEW s \in Seq(Booking)
    PROVE  \/ HostAlignedMid(s) = 0 /\ \A i \in 1..(Len(s) - 1) : SameHost(s, i)
           \/ HostAlignedMid(s) \in 1..(Len(s) - 1)
<1> DEFINE cuts == {i \in 1..(Len(s) - 1) : ~SameHost(s, i)}
           m == Len(s) \div 2
           Nearer(i, j) == \/ Distance(i, m) < Distance(j, m)
                           \/ Distance(i, m) = Distance(j, m) /\ i <= j
           away == {Distance(i, m) : i \in cuts}
<1> SUFFICES ASSUME cuts # {} PROVE HostAlignedMid(s) \in 1..(Len(s) - 1)
  BY DEF HostAlignedMid
<1>1. m \in Nat /\ cuts \subseteq Nat
  OBVIOUS
<1>2. \A i \in Nat : Distance(i, m) \in Nat
  BY <1>1 DEF Distance
<1>3. PICK d \in away : \A x \in away : d <= x
  <2>1. away \subseteq Nat /\ away # {}
    BY <1>1, <1>2
  <2> HIDE DEF away
  <2> QED
    BY <2>1, LeastOfNaturals
<1> DEFINE near == {i \in cuts : Distance(i, m) = d}
<1>4. PICK i \in near : \A j \in near : i <= j
  <2>1. near \subseteq Nat /\ near # {}
    BY <1>1, <1>3
  <2> HIDE DEF near
  <2> QED
    BY <2>1, LeastOfNaturals
<1>5. i \in cuts /\ \A j \in cuts : Nearer(i, j)
  <2> SUFFICES ASSUME NEW j \in cuts PROVE Nearer(i, j)
    BY <1>4
  <2>1. Distance(i, m) = d /\ Distance(j, m) \in away
    BY <1>4
  <2>2. d <= Distance(j, m) /\ d \in Nat /\ Distance(j, m) \in Nat
    BY <2>1, <1>1, <1>2, <1>3
  <2>3. CASE Distance(j, m) = d
    BY <2>1, <2>3, <1>4
  <2> QED
    BY <2>1, <2>2, <2>3
<1>6. HostAlignedMid(s) = CHOOSE k \in cuts : \A j \in cuts : Nearer(k, j)
  BY DEF HostAlignedMid
<1> HIDE DEF Nearer
<1>7. HostAlignedMid(s) \in cuts
  BY <1>5, <1>6
<1> QED
  BY <1>7
(***************************************************************************)
(* What is left of a plan, and that it names every frame once.             *)
(***************************************************************************)

FramesOf(s) == {s[i].frame : i \in 1..Len(s)}

Distinct(s) == \A i, j \in 1..Len(s) : s[i].frame = s[j].frame => i = j

Apart(rest, pieces) ==
    /\ Distinct(rest)
    /\ \A i \in 1..Len(pieces) :
         /\ Distinct(pieces[i])
         /\ FramesOf(pieces[i]) \cap FramesOf(rest) = {}
         /\ \A j \in 1..Len(pieces) :
              i # j => FramesOf(pieces[i]) \cap FramesOf(pieces[j]) = {}

Left(rest, pieces) ==
    FramesOf(rest) \cup UNION {FramesOf(pieces[i]) : i \in 1..Len(pieces)}

\* Cutting a piece in two keeps its frames, each in one of the halves.
LEMMA Halves ==
    ASSUME NEW s \in Seq(Booking), Distinct(s), NEW n \in 0..Len(s)
    PROVE  LET l == SubSeq(s, 1, n)
               r == SubSeq(s, n + 1, Len(s))
           IN  /\ l \in Seq(Booking) /\ Distinct(l) /\ Len(l) = n
               /\ r \in Seq(Booking) /\ Distinct(r)
               /\ FramesOf(l) \cap FramesOf(r) = {}
               /\ FramesOf(l) \cup FramesOf(r) = FramesOf(s)
<1> DEFINE l == SubSeq(s, 1, n)
           r == SubSeq(s, n + 1, Len(s))
<1>1. l \in Seq(Booking) /\ Len(l) = n /\ \A i \in 1..n : l[i] = s[i]
  OBVIOUS
<1>2. r \in Seq(Booking) /\ Len(r) = Len(s) - n /\ \A i \in 1..(Len(s) - n) : r[i] = s[n + i]
  OBVIOUS
<1> HIDE DEF l, r
<1>3. Distinct(l) /\ Distinct(r)
  <2>1. \A i \in 1..n : i \in 1..Len(s)
    OBVIOUS
  <2>2. \A i \in 1..(Len(s) - n) : n + i \in 1..Len(s)
    OBVIOUS
  <2>3. \A i, j \in 1..(Len(s) - n) : n + i = n + j => i = j
    OBVIOUS
  <2>4. Distinct(l)
    BY <1>1, <2>1 DEF Distinct
  <2>5. ASSUME NEW i \in 1..Len(r), NEW j \in 1..Len(r), r[i].frame = r[j].frame
        PROVE  i = j
    <3>1. s[n + i].frame = s[n + j].frame
      BY <1>2, <2>5
    <3>2. n + i = n + j
      BY <1>2, <2>2, <3>1 DEF Distinct
    <3> QED
      BY <1>2, <2>3, <3>2
  <2> QED
    BY <2>4, <2>5 DEF Distinct
<1>4. ASSUME NEW i \in 1..Len(l), NEW j \in 1..Len(r), l[i].frame = r[j].frame
      PROVE  FALSE
  <2>1. i \in 1..Len(s) /\ n + j \in 1..Len(s) /\ i # n + j
    BY <1>1, <1>2
  <2>2. s[i].frame = s[n + j].frame
    BY <1>1, <1>2, <1>4
  <2> QED
    BY <2>1, <2>2 DEF Distinct
<1>5. FramesOf(l) \cap FramesOf(r) = {}
  BY <1>4 DEF FramesOf
<1>6. FramesOf(l) \subseteq FramesOf(s) /\ FramesOf(r) \subseteq FramesOf(s)
  <2>1. \A i \in 1..Len(l) : i \in 1..Len(s) /\ l[i] = s[i]
    BY <1>1
  <2>2. \A i \in 1..Len(r) : n + i \in 1..Len(s) /\ r[i] = s[n + i]
    BY <1>2
  <2>3. FramesOf(l) \subseteq FramesOf(s)
    BY <2>1 DEF FramesOf
  <2>4. FramesOf(r) \subseteq FramesOf(s)
    BY <2>2 DEF FramesOf
  <2> QED
    BY <2>3, <2>4
<1>7. ASSUME NEW i \in 1..Len(s)
      PROVE  s[i].frame \in FramesOf(l) \cup FramesOf(r)
  <2>1. CASE i <= n
    BY <1>1, <2>1 DEF FramesOf
  <2>2. CASE i > n
    <3>1. i - n \in 1..Len(r) /\ r[i - n] = s[i]
      BY <1>2, <2>2
    <3> QED
      BY <3>1 DEF FramesOf
  <2> QED
    BY <2>1, <2>2
<1>8. FramesOf(s) \subseteq FramesOf(l) \cup FramesOf(r)
  BY <1>7 DEF FramesOf
<1> QED
  BY <1>1, <1>2, <1>3, <1>5, <1>6, <1>8 DEF l, r

\* A piece that leaves takes its frames with it.
LEMMA ApartTail ==
    ASSUME NEW rest \in Seq(Booking), NEW pieces \in Seq(Seq(Booking)),
           pieces # <<>>, Apart(rest, pieces)
    PROVE  /\ Head(pieces) \in Seq(Booking) /\ Distinct(Head(pieces))
           /\ Tail(pieces) \in Seq(Seq(Booking))
           /\ Apart(rest, Tail(pieces))
           /\ FramesOf(Head(pieces)) \cap Left(rest, Tail(pieces)) = {}
           /\ Left(rest, pieces) = FramesOf(Head(pieces)) \cup Left(rest, Tail(pieces))
<1> DEFINE t == Tail(pieces)
<1>1. /\ 1 \in 1..Len(pieces) /\ Head(pieces) = pieces[1] /\ pieces[1] \in Seq(Booking)
      /\ t \in Seq(Seq(Booking)) /\ Len(t) = Len(pieces) - 1
      /\ \A i \in 1..Len(t) : t[i] = pieces[i + 1] /\ i + 1 \in 1..Len(pieces) /\ i + 1 # 1
  OBVIOUS
<1> HIDE DEF t
<1>2. Distinct(pieces[1]) /\ Apart(rest, t)
  <2>1. \A i, j \in 1..Len(t) : i # j => i + 1 # j + 1
    OBVIOUS
  <2> QED
    BY <1>1, <2>1 DEF Apart
<1>3. FramesOf(pieces[1]) \cap Left(rest, t) = {}
  <2>1. FramesOf(pieces[1]) \cap FramesOf(rest) = {}
    BY <1>1 DEF Apart
  <2>2. \A i \in 1..Len(t) : FramesOf(pieces[1]) \cap FramesOf(t[i]) = {}
    BY <1>1 DEF Apart
  <2> QED
    BY <2>1, <2>2 DEF Left
<1>4. Left(rest, pieces) \subseteq FramesOf(pieces[1]) \cup Left(rest, t)
  <2> SUFFICES ASSUME NEW i \in 1..Len(pieces), i # 1
               PROVE  FramesOf(pieces[i]) \subseteq Left(rest, t)
    BY DEF Left
  <2>1. i - 1 \in 1..Len(t) /\ t[i - 1] = pieces[i]
    BY <1>1
  <2> QED
    BY <2>1 DEF Left
<1>5. FramesOf(pieces[1]) \cup Left(rest, t) \subseteq Left(rest, pieces)
  <2>1. \A i \in 1..Len(t) : FramesOf(t[i]) \subseteq Left(rest, pieces)
    BY <1>1 DEF Left
  <2>2. FramesOf(pieces[1]) \subseteq Left(rest, pieces)
        /\ FramesOf(rest) \subseteq Left(rest, pieces)
    BY <1>1 DEF Left
  <2>3. Left(rest, t) \subseteq Left(rest, pieces)
    BY <2>1, <2>2 DEF Left
  <2> QED
    BY <2>2, <2>3
<1> QED
  BY <1>1, <1>2, <1>3, <1>4, <1>5 DEF t

\* A piece that is split leaves the same frames, still apart.
LEMMA ApartSplit ==
    ASSUME NEW rest \in Seq(Booking), NEW pieces \in Seq(Seq(Booking)),
           pieces # <<>>, Apart(rest, pieces), NEW n \in 0..Len(Head(pieces))
    PROVE  LET new == <<SubSeq(Head(pieces), 1, n),
                        SubSeq(Head(pieces), n + 1, Len(Head(pieces)))>>
                      \o Tail(pieces)
           IN  /\ new \in Seq(Seq(Booking)) /\ new # <<>>
               /\ Apart(rest, new)
               /\ Left(rest, new) = Left(rest, pieces)
<1> DEFINE h == Head(pieces)
           t == Tail(pieces)
           l == SubSeq(h, 1, n)
           r == SubSeq(h, n + 1, Len(h))
           new == <<l, r>> \o t
<1>1. /\ h \in Seq(Booking) /\ Distinct(h) /\ t \in Seq(Seq(Booking)) /\ Apart(rest, t)
      /\ FramesOf(h) \cap Left(rest, t) = {}
      /\ Left(rest, pieces) = FramesOf(h) \cup Left(rest, t)
  BY ApartTail
<1> n \in 0..Len(h)
  OBVIOUS
<1> HIDE DEF h, t
<1>2. /\ l \in Seq(Booking) /\ Distinct(l) /\ r \in Seq(Booking) /\ Distinct(r)
      /\ FramesOf(l) \cap FramesOf(r) = {}
      /\ FramesOf(l) \cup FramesOf(r) = FramesOf(h)
  BY <1>1, Halves
<1> HIDE DEF l, r
<1>3. /\ new \in Seq(Seq(Booking)) /\ Len(new) = Len(t) + 2
      /\ new[1] = l /\ new[2] = r
      /\ \A i \in 3..Len(new) : new[i] = t[i - 2] /\ i - 2 \in 1..Len(t)
      /\ \A i \in 1..Len(t) : new[i + 2] = t[i]
  <2>1. <<l, r>> \in Seq(Seq(Booking))
    BY <1>2
  <2> QED
    BY <1>1, <2>1
<1> HIDE DEF new
<1>4. /\ FramesOf(rest) \subseteq Left(rest, t)
      /\ \A i \in 1..Len(t) : FramesOf(t[i]) \subseteq Left(rest, t)
  BY DEF Left
<1>5. ASSUME NEW i \in 1..Len(new)
      PROVE  /\ Distinct(new[i])
             /\ FramesOf(new[i]) \cap FramesOf(rest) = {}
             /\ \A j \in 1..Len(new) :
                  i # j => FramesOf(new[i]) \cap FramesOf(new[j]) = {}
  <2>1. CASE i = 1
    <3>1. \A j \in 1..Len(new) : j # 1 => j = 2 \/ j \in 3..Len(new)
      BY <1>1, <1>3
    <3> QED
      BY <1>1, <1>2, <1>3, <1>4, <2>1, <3>1
  <2>2. CASE i = 2
    <3>1. \A j \in 1..Len(new) : j # 2 => j = 1 \/ j \in 3..Len(new)
      BY <1>1, <1>3
    <3> QED
      BY <1>1, <1>2, <1>3, <1>4, <2>2, <3>1, ZenonT(60)
  <2>3. CASE i \in 3..Len(new)
    <3>1. \A j \in 1..Len(new) : j = 1 \/ j = 2 \/ j \in 3..Len(new)
      BY <1>1, <1>3
    <3>2. \A j \in 3..Len(new) : i # j => i - 2 # j - 2
      BY <2>3
    <3>3. Distinct(t[i - 2]) /\ FramesOf(t[i - 2]) \cap FramesOf(rest) = {}
      BY <1>1, <1>3, <2>3 DEF Apart
    <3>4. \A j \in 3..Len(new) : i # j => FramesOf(t[i - 2]) \cap FramesOf(t[j - 2]) = {}
      BY <1>1, <1>3, <2>3, <3>2 DEF Apart
    <3>5. FramesOf(t[i - 2]) \cap FramesOf(h) = {}
      BY <1>1, <1>3, <1>4, <2>3
    <3> QED
      BY <1>2, <1>3, <2>3, <3>1, <3>3, <3>4, <3>5
  <2> QED
    BY <1>1, <1>3, <2>1, <2>2, <2>3, SMTT(20)
<1>6. Apart(rest, new)
  BY <1>1, <1>5 DEF Apart
<1>7. Left(rest, new) = FramesOf(h) \cup Left(rest, t)
  <2>1. ASSUME NEW i \in 1..Len(new)
        PROVE  FramesOf(new[i]) \subseteq FramesOf(h) \cup Left(rest, t)
    <3>1. i = 1 \/ i = 2 \/ i \in 3..Len(new)
      BY <1>1, <1>3
    <3> QED
      BY <1>2, <1>3, <1>4, <3>1
  <2>2. Left(rest, new) \subseteq FramesOf(h) \cup Left(rest, t)
    BY <1>4, <2>1 DEF Left
  <2>3. 1 \in 1..Len(new) /\ 2 \in 1..Len(new)
        /\ \A i \in 1..Len(t) : i + 2 \in 1..Len(new)
    BY <1>1, <1>3
  <2>4. FramesOf(l) \subseteq Left(rest, new) /\ FramesOf(r) \subseteq Left(rest, new)
    BY <1>3, <2>3 DEF Left
  <2>5. \A i \in 1..Len(t) : FramesOf(t[i]) \subseteq Left(rest, new)
    BY <1>3, <2>3 DEF Left
  <2>6. Left(rest, t) \subseteq Left(rest, new)
    BY <2>5 DEF Left
  <2> QED
    BY <1>2, <2>2, <2>4, <2>6
<1>8. new # <<>>
  BY <1>1, <1>3
<1> QED
  BY <1>1, <1>3, <1>6, <1>7, <1>8 DEF new, l, r, h, t

\* A piece that fails keeps its frames; only the versions in memory move.
LEMMA ApartSame ==
    ASSUME NEW rest \in Seq(Booking), NEW pieces \in Seq(Seq(Booking)),
           pieces # <<>>, Apart(rest, pieces),
           NEW q \in Seq(Booking), Len(q) = Len(pieces[1]),
           \A i \in 1..Len(q) : q[i].frame = pieces[1][i].frame
    PROVE  LET new == [pieces EXCEPT ![1] = q]
           IN  /\ new \in Seq(Seq(Booking)) /\ new # <<>>
               /\ Apart(rest, new)
               /\ Left(rest, new) = Left(rest, pieces)
<1> DEFINE new == [pieces EXCEPT ![1] = q]
<1>1. /\ new \in Seq(Seq(Booking)) /\ Len(new) = Len(pieces) /\ new # <<>>
      /\ 1 \in 1..Len(pieces) /\ new[1] = q
      /\ \A i \in 1..Len(pieces) : i # 1 => new[i] = pieces[i]
  OBVIOUS
<1> HIDE DEF new
<1>2. FramesOf(q) = FramesOf(pieces[1]) /\ (Distinct(pieces[1]) => Distinct(q))
  BY DEF FramesOf, Distinct
<1>3. \A i \in 1..Len(pieces) : FramesOf(new[i]) = FramesOf(pieces[i])
  BY <1>1, <1>2
<1>4. \A i \in 1..Len(pieces) : Distinct(new[i])
  BY <1>1, <1>2 DEF Apart
<1>5. Apart(rest, new)
  BY <1>1, <1>3, <1>4 DEF Apart
<1>6. Left(rest, new) = Left(rest, pieces)
  BY <1>1, <1>3 DEF Left
<1> QED
  BY <1>1, <1>5, <1>6 DEF new

\* A chunk is cut from the front of what is left.
LEMMA ApartChunk ==
    ASSUME NEW s \in Seq(Booking), Distinct(s), NEW n \in 0..Len(s)
    PROVE  LET rest == SubSeq(s, n + 1, Len(s))
               pieces == <<SubSeq(s, 1, n)>>
           IN  /\ rest \in Seq(Booking) /\ pieces \in Seq(Seq(Booking)) /\ pieces # <<>>
               /\ Apart(rest, pieces)
               /\ Left(rest, pieces) = FramesOf(s)
<1> DEFINE l == SubSeq(s, 1, n)
           r == SubSeq(s, n + 1, Len(s))
<1>1. /\ l \in Seq(Booking) /\ Distinct(l) /\ r \in Seq(Booking) /\ Distinct(r)
      /\ FramesOf(l) \cap FramesOf(r) = {}
      /\ FramesOf(l) \cup FramesOf(r) = FramesOf(s)
  BY Halves
<1> HIDE DEF l, r
<1>2. /\ <<l>> \in Seq(Seq(Booking)) /\ <<l>> # <<>> /\ Len(<<l>>) = 1 /\ <<l>>[1] = l
      /\ 1..Len(<<l>>) = {1}
  BY <1>1
<1>3. Apart(r, <<l>>)
  BY <1>1, <1>2 DEF Apart
<1>4. Left(r, <<l>>) = FramesOf(r) \cup FramesOf(l)
  BY <1>2 DEF Left
<1> QED
  BY <1>1, <1>2, <1>3, <1>4 DEF l, r

(***************************************************************************)
(* What a piece wins: one proc for each booking.                           *)
(***************************************************************************)

AsProcs(W) == {[frame |-> b.frame, host |-> b.host] : b \in W}

\* Each frame is won once.
Once(W) == \A a, b \in W : a.frame = b.frame => a = b

\* The bookings of a piece are finitely many and name a frame once.
LEMMA PieceBookings ==
    ASSUME NEW s \in Seq(Booking), Distinct(s)
    PROVE  /\ IsFiniteSet(Bookings(s)) /\ Bookings(s) \subseteq Booking
           /\ Once(Bookings(s))
           /\ \A b \in Bookings(s) : b.frame \in FramesOf(s)
<1>1. DOMAIN s = 1..Len(s) /\ s \in [1..Len(s) -> Booking] /\ Len(s) \in Nat
  OBVIOUS
<1>2. Bookings(s) = {s[i] : i \in 1..Len(s)}
  BY <1>1 DEF Bookings, ToSet
<1>3. s \in Surjection(1..Len(s), Bookings(s))
  BY <1>1, <1>2 DEF Surjection
<1>4. IsFiniteSet(1..Len(s))
  BY <1>1, FS_Interval
<1>5. IsFiniteSet(Bookings(s))
  BY <1>3, <1>4, FS_Surjection
<1>6. Bookings(s) \subseteq Booking
  BY <1>1, <1>2
<1>7. Once(Bookings(s)) /\ \A b \in Bookings(s) : b.frame \in FramesOf(s)
  BY <1>2 DEF Once, Distinct, FramesOf
<1> QED
  BY <1>5, <1>6, <1>7

\* As many procs, and as many frames, as bookings.
LEMMA AsManyProcs ==
    ASSUME NEW W, W \subseteq Booking, IsFiniteSet(W), Once(W)
    PROVE  /\ IsFiniteSet(AsProcs(W)) /\ Cardinality(AsProcs(W)) = Cardinality(W)
           /\ IsFiniteSet({b.frame : b \in W})
           /\ Cardinality({b.frame : b \in W}) = Cardinality(W)
<1> DEFINE f == [b \in W |-> [frame |-> b.frame, host |-> b.host]]
           g == [b \in W |-> b.frame]
           F == {b.frame : b \in W}
<1>1. f \in Surjection(W, AsProcs(W)) /\ g \in Surjection(W, F)
  BY DEF Surjection, AsProcs
<1>2. f \in Injection(W, AsProcs(W)) /\ g \in Injection(W, F)
  <2>1. f \in [W -> AsProcs(W)] /\ g \in [W -> F]
    BY DEF AsProcs
  <2>2. \A a, b \in W : f[a] = f[b] => a = b
    BY DEF Once
  <2>3. \A a, b \in W : g[a] = g[b] => a = b
    BY DEF Once
  <2> QED
    BY <2>1, <2>2, <2>3 DEF Injection, IsInjective
<1> HIDE DEF f, g, F
<1>3. /\ IsFiniteSet(AsProcs(W)) /\ Cardinality(AsProcs(W)) = Cardinality(W)
  BY <1>1, <1>2, FS_Surjection
<1>4. IsFiniteSet(F) /\ Cardinality(F) = Cardinality(W)
  BY <1>1, <1>2, FS_Surjection
<1> QED
  BY <1>3, <1>4 DEF F

\* On each host too.
LEMMA AsManyProcsOn ==
    ASSUME NEW W, W \subseteq Booking, IsFiniteSet(W), Once(W), NEW h
    PROVE  /\ IsFiniteSet(OnHost(h, W)) /\ Cardinality(OnHost(h, W)) \in Nat
           /\ IsFiniteSet(OnHost(h, AsProcs(W)))
           /\ Cardinality(OnHost(h, AsProcs(W))) = Cardinality(OnHost(h, W))
<1>1. OnHost(h, W) \subseteq W
  BY DEF OnHost
<1>2. OnHost(h, AsProcs(W)) = AsProcs(OnHost(h, W))
  BY DEF OnHost, AsProcs
<1>3. IsFiniteSet(OnHost(h, W)) /\ Once(OnHost(h, W)) /\ OnHost(h, W) \subseteq Booking
  BY <1>1, FS_Subset DEF Once
<1> QED
  BY <1>2, <1>3, AsManyProcs, FS_CardinalityType

\* A procs table that loses Old and gains New counts accordingly.
LEMMA Exchanged ==
    ASSUME NEW P, IsFiniteSet(P), NEW Old, Old \subseteq P,
           NEW New, IsFiniteSet(New), New \cap (P \ Old) = {}
    PROVE  /\ IsFiniteSet((P \ Old) \cup New)
           /\ Cardinality((P \ Old) \cup New)
                = (Cardinality(P) - Cardinality(Old)) + Cardinality(New)
           /\ Cardinality(P) \in Nat /\ Cardinality(Old) \in Nat
           /\ Cardinality(New) \in Nat /\ Cardinality(Old) <= Cardinality(P)
<1>1. P \cap Old = Old /\ IsFiniteSet(Old) /\ Cardinality(Old) <= Cardinality(P)
  BY FS_Subset
<1>2. IsFiniteSet(P \ Old) /\ Cardinality(P \ Old) = Cardinality(P) - Cardinality(Old)
  <2>1. /\ IsFiniteSet(P \ Old)
        /\ Cardinality(P \ Old) = Cardinality(P) - Cardinality(P \cap Old)
    BY <1>1, FS_Difference, ZenonT(60)
  <2> QED
    BY <1>1, <2>1
<1>3. (P \ Old) \cap New = {} /\ Cardinality({}) = 0
  BY FS_EmptySet
<1>4. /\ IsFiniteSet((P \ Old) \cup New)
      /\ Cardinality((P \ Old) \cup New)
           = Cardinality(P \ Old) + Cardinality(New) - Cardinality({})
  BY <1>2, <1>3, FS_Union
<1>5. Cardinality(P) \in Nat /\ Cardinality(Old) \in Nat /\ Cardinality(New) \in Nat
  BY <1>1, FS_CardinalityType
<1> QED
  BY <1>1, <1>2, <1>3, <1>4, <1>5

(***************************************************************************)
(* The invariant.                                                          *)
(***************************************************************************)

\* What a Cuebot's tick still has to commit.
Work ==
    \A c \in Cuebots :
        /\ bot[c].deltas = 0
        /\ bot[c].pieces # <<>> <=> bot[c].pc \in {"commit", "split"}
        /\ Apart(bot[c].rest, bot[c].pieces)

\* The ledgers, over a finite procs table.
Rows ==
    /\ IsFiniteSet(procs)
    /\ HostLedger
    /\ FolderLedger
    /\ OneProcPerRun

CommitInv == TypeOK /\ Work /\ Rows

\* The procs of one host or of some frames are finitely many.
LEMMA ProcsFinite ==
    ASSUME IsFiniteSet(procs)
    PROVE  /\ Cardinality(procs) \in Nat
           /\ \A h : IsFiniteSet(OnHost(h, procs)) /\ Cardinality(OnHost(h, procs)) \in Nat
<1>1. \A h : OnHost(h, procs) \subseteq procs
  BY DEF OnHost
<1>2. \A h : IsFiniteSet(OnHost(h, procs))
  BY <1>1, FS_Subset
<1> QED
  BY <1>2, FS_CardinalityType

\* What leaderAlive answers.
LEMMA LeaderAliveType ==
    ASSUME TypeOK, NEW c \in Cuebots, NEW o \in LeaderAlive(c)
    PROVE  o.alive \in BOOLEAN /\ o.misses \in 0..(ProbeStrikes - 1)
<1>1. bot[c] \in Bot /\ ProbeStrikes \in Nat \ {0}
  BY CommitAssumption DEF TypeOK
<1>2. bot[c].misses \in 0..(ProbeStrikes - 1)
  BY <1>1 DEF Bot
<1>3. Missed(c).alive \in BOOLEAN /\ Missed(c).misses \in 0..(ProbeStrikes - 1)
  <2>1. CASE bot[c].misses + 1 < ProbeStrikes
    BY <1>1, <1>2, <2>1 DEF Missed
  <2>2. CASE ~ (bot[c].misses + 1 < ProbeStrikes)
    BY <1>1, <1>2, <2>2 DEF Missed
  <2> QED
    BY <2>1, <2>2
<1>4. \/ o = [alive |-> FALSE, misses |-> bot[c].misses]
      \/ o = Missed(c)
      \/ o = [alive |-> lock = c, misses |-> 0]
  BY DEF LeaderAlive
<1>5. CASE o = [alive |-> lock = c, misses |-> 0]
  <2>1. (lock = c) \in BOOLEAN /\ 0 \in 0..(ProbeStrikes - 1)
    BY <1>1
  <2>2. o.alive = (lock = c) /\ o.misses = 0
    BY <1>5
  <2> QED
    BY <2>1, <2>2
<1>6. CASE o = Missed(c)
  BY <1>3, <1>6
<1>7. CASE o = [alive |-> FALSE, misses |-> bot[c].misses]
  <2>1. o.alive = FALSE /\ o.misses = bot[c].misses
    BY <1>7
  <2> QED
    BY <1>2, <2>1
<1> QED
  BY <1>4, <1>5, <1>6, <1>7

\* A plan is a sequence of bookings that names a frame once, as the rows are
\* and as many on a host as it has idle cores.
LEMMA PlansType ==
    ASSUME TypeOK, NEW s \in Plans
    PROVE  /\ s \in Seq(Booking) /\ Distinct(s)
           /\ \A i \in 1..Len(s) : s[i].ver = frame[s[i].frame].ver
           /\ \A h \in Hosts : Cardinality({i \in 1..Len(s) : s[i].host = h}) <= idle[h]
<1>1. PICK order \in SetToAllKPermutations(Waiting) :
        \E hosts \in Placements(Len(order)) :
          s = [i \in 1..Len(order) |->
                 [frame |-> order[i], host |-> hosts[i], ver |-> frame[order[i]].ver]]
  BY DEF Plans
<1>2. PICK S \in SUBSET Waiting : order \in SetToSeqs(S)
  BY <1>1 DEF SetToAllKPermutations
<1>3. Cardinality(S) \in Nat
  <2>1. S \subseteq Frames /\ IsFiniteSet(Frames)
    BY <1>2, CommitAssumption DEF Waiting
  <2>2. IsFiniteSet(S)
    BY <2>1, FS_Subset
  <2> QED
    BY <2>2, FS_CardinalityType
<1>4. /\ order \in [1..Cardinality(S) -> S]
      /\ \A i, j \in 1..Cardinality(S) : i # j => order[i] # order[j]
  BY <1>2 DEF SetToSeqs
<1>5. Len(order) = Cardinality(S)
  BY <1>3, <1>4
<1>6. PICK hosts \in [1..Cardinality(S) -> Hosts] :
        /\ Fit(hosts)
        /\ s = [i \in 1..Cardinality(S) |->
                  [frame |-> order[i], host |-> hosts[i], ver |-> frame[order[i]].ver]]
  BY <1>1, <1>5 DEF Placements
<1>7. \A i \in 1..Cardinality(S) : order[i] \in Frames /\ frame[order[i]].ver \in Nat
  BY <1>2, <1>4 DEF Waiting, TypeOK
<1>8. s \in [1..Cardinality(S) -> Booking]
  BY <1>6, <1>7 DEF Booking
<1>9. s \in Seq(Booking) /\ Len(s) = Cardinality(S)
  BY <1>3, <1>8
<1>10. Distinct(s)
  BY <1>4, <1>6, <1>9 DEF Distinct
<1>11. \A i \in 1..Len(s) : s[i].ver = frame[s[i].frame].ver /\ s[i].host = hosts[i]
  BY <1>6, <1>9
<1>12. ASSUME NEW h \in Hosts
       PROVE  Cardinality({i \in 1..Len(s) : s[i].host = h}) <= idle[h]
  <2>1. {i \in 1..Len(s) : s[i].host = h} = {i \in DOMAIN hosts : hosts[i] = h}
    BY <1>6, <1>9, <1>11
  <2> QED
    BY <1>6, <2>1 DEF Fit
<1> QED
  BY <1>9, <1>10, <1>11, <1>12

\* Trimming keeps a front of the plan, no longer than the room there is.
LEMMA TrimmedType ==
    ASSUME NEW s \in Seq(Booking), Distinct(s), NEW seed \in Nat
    PROVE  /\ Trimmed(s, seed) \in Seq(Booking) /\ Distinct(Trimmed(s, seed))
           /\ Len(Trimmed(s, seed)) <= (IF seed < FolderMax THEN FolderMax - seed ELSE 0)
<1> DEFINE room == IF seed < FolderMax THEN FolderMax - seed ELSE 0
           n == IF Len(s) < room THEN Len(s) ELSE room
<1>1. room \in Nat /\ n \in 0..Len(s) /\ n <= room
  BY CommitAssumption
<1>2. Trimmed(s, seed) = SubSeq(s, 1, n)
  BY DEF Trimmed
<1> HIDE DEF n
<1>3. /\ SubSeq(s, 1, n) \in Seq(Booking) /\ Distinct(SubSeq(s, 1, n))
      /\ Len(SubSeq(s, 1, n)) = n
  BY <1>1, Halves
<1> QED
  BY <1>1, <1>2, <1>3

(***************************************************************************)
(* A tick's own steps, apart from the commit.                              *)
(***************************************************************************)

\* A Cuebot's tick moves; the others keep their work.
LEMMA WorkStep ==
    ASSUME Work, NEW c \in Cuebots,
           \A d \in Cuebots : d # c => bot'[d] = bot[d],
           bot'[c].deltas = 0,
           bot'[c].pieces # <<>> <=> bot'[c].pc \in {"commit", "split"},
           Apart(bot'[c].rest, bot'[c].pieces)
    PROVE  Work'
BY DEF Work

\* Rows that nobody writes keep their ledgers.
LEMMA RowsKept ==
    ASSUME Rows, UNCHANGED rows
    PROVE  Rows'
BY DEF Rows, HostLedger, FolderLedger, OneProcPerRun, OnHost, OnFrames, rows

\* Nothing planned, nothing left.
LEMMA NothingLeft ==
    /\ Apart(<<>>, <<>>) /\ Left(<<>>, <<>>) = {}
    /\ \A s : Distinct(s) => Apart(s, <<>>)
    /\ \A s : Left(s, <<>>) = FramesOf(s)
BY DEF Apart, Left, FramesOf, Distinct

\* The memory of a Cuebot between ticks.
LEMMA FreshType ==
    /\ Fresh \in Bot /\ Fresh.deltas = 0 /\ Fresh.pieces = <<>> /\ Fresh.rest = <<>>
    /\ Fresh.pc = "idle" /\ Fresh.stopping = FALSE
<1>1. 0 \in 0..(ProbeStrikes - 1) /\ 0 \in Nat
  BY CommitAssumption
<1>2. /\ <<>> \in Seq(Booking) /\ <<>> \in Seq(Seq(Booking))
      /\ {} \in SUBSET Booking /\ {} \in SUBSET Frames
  OBVIOUS
<1> QED
  BY <1>1, <1>2 DEF Fresh, Bot

\* The parts of TypeOK that a step of one Cuebot's tick can disturb.
LEMMA TickTypes ==
    ASSUME TypeOK, NEW c \in Cuebots, NEW b \in Bot,
           bot' = [bot EXCEPT ![c] = b], UNCHANGED rows,
           lock' \in Cuebots \cup {NoCuebot}, UNCHANGED unlocked, faultsLeft' \in Nat
    PROVE  TypeOK'
BY DEF TypeOK, rows

\* A Cuebot whose connection or whose end is all that changes,
LEMMA BotStandsBy ==
    ASSUME NEW w \in Bot, NEW x \in BOOLEAN
    PROVE  /\ [w EXCEPT !.conn = x] \in Bot
           /\ [w EXCEPT !.stopping = x] \in Bot
  BY ZenonT(60) DEF Bot

\* and one that turns to the pieces of a batch that failed.
LEMMA BotSplits ==
    ASSUME NEW w \in Bot, NEW F \in SUBSET Frames, NEW n \in Seq(Seq(Booking))
    PROVE  [w EXCEPT !.pc = "split", !.failed = F, !.deltas = 0, !.pieces = n] \in Bot
  BY ZenonT(60) DEF Bot

\* A Cuebot that steps back, or that is told to stop, keeps its work.
LEMMA StandbyInv ==
    ASSUME CommitInv, NEW c \in Cuebots, Standby(c) \/ ShutdownReleases(c) \/ ShutdownMarked(c)
    PROVE  CommitInv'
<1>1. bot \in [Cuebots -> Bot] /\ lock \in Cuebots \cup {NoCuebot} /\ faultsLeft \in Nat
  BY DEF CommitInv, TypeOK
<1>2. PICK b \in Bot :
        /\ bot' = [bot EXCEPT ![c] = b]
        /\ b.deltas = bot[c].deltas /\ b.pieces = bot[c].pieces
        /\ b.rest = bot[c].rest /\ b.pc = bot[c].pc
  <2>1. CASE bot' = [bot EXCEPT ![c].conn = FALSE]
    <3> DEFINE b == [bot[c] EXCEPT !.conn = FALSE]
    <3>1. b \in Bot /\ bot' = [bot EXCEPT ![c] = b]
      BY <1>1, <2>1, BotStandsBy
    <3> QED
      BY <1>1, <3>1 DEF Bot
  <2>2. CASE bot' = [bot EXCEPT ![c].stopping = TRUE]
    <3> DEFINE b == [bot[c] EXCEPT !.stopping = TRUE]
    <3>1. b \in Bot /\ bot' = [bot EXCEPT ![c] = b]
      BY <1>1, <2>2, BotStandsBy
    <3> QED
      BY <1>1, <3>1 DEF Bot
  <2> QED
    BY <2>1, <2>2 DEF Standby, ShutdownReleases, ShutdownMarked
<1>3. /\ UNCHANGED rows /\ UNCHANGED unlocked /\ faultsLeft' \in Nat
      /\ lock' \in Cuebots \cup {NoCuebot}
  BY <1>1 DEF Standby, ShutdownReleases, ShutdownMarked, Released, Spend
<1>4. TypeOK'
  BY <1>2, <1>3, TickTypes DEF CommitInv
<1>5. Work'
  BY <1>1, <1>2, WorkStep DEF CommitInv, Work
<1> QED
  BY <1>3, <1>4, <1>5, RowsKept DEF CommitInv

\* A tick begins with nothing in hand.
LEMMA TickStartInv ==
    ASSUME CommitInv, NEW c \in Cuebots, TickStart(c)
    PROVE  CommitInv'
<1> DEFINE b == [Fresh EXCEPT !.pc = "plan", !.conn = TRUE, !.seed = folder,
                              !.misses = bot[c].misses, !.splits = SplitMaxTx]
<1>1. bot \in [Cuebots -> Bot] /\ faultsLeft \in Nat /\ folder \in Nat /\ SplitMaxTx \in Nat
  BY CommitAssumption DEF CommitInv, TypeOK
<1>2. bot' = [bot EXCEPT ![c] = b] /\ UNCHANGED rows /\ lock' = c
      /\ UNCHANGED <<unlocked, faultsLeft>>
  BY DEF TickStart
<1>3. b \in Bot /\ b.deltas = 0 /\ b.pieces = <<>> /\ b.rest = <<>> /\ b.pc = "plan"
  BY <1>1, FreshType DEF Bot
<1> HIDE DEF b
<1>4. TypeOK'
  BY <1>1, <1>2, <1>3, TickTypes DEF CommitInv
<1>5. Work'
  BY <1>1, <1>2, <1>3, WorkStep, NothingLeft DEF CommitInv
<1> QED
  BY <1>2, <1>4, <1>5, RowsKept DEF CommitInv

\* The plan becomes the rest of the tick.
LEMMA PlanInv ==
    ASSUME CommitInv, NEW c \in Cuebots, Plan(c)
    PROVE  CommitInv'
<1>1. bot \in [Cuebots -> Bot] /\ faultsLeft \in Nat /\ bot[c].seed \in Nat
      /\ lock \in Cuebots \cup {NoCuebot} /\ bot[c].pc = "plan"
  BY DEF CommitInv, TypeOK, Bot, Plan
<1>2. PICK s \in Plans :
        LET plan == Trimmed(s, bot[c].seed)
        IN  bot' = [bot EXCEPT ![c].pc = "chunk", ![c].rest = plan,
                               ![c].seed = 0, ![c].planned = Bookings(plan)]
  BY DEF Plan
<1> DEFINE plan == Trimmed(s, bot[c].seed)
           b == [bot[c] EXCEPT !.pc = "chunk", !.rest = plan,
                               !.seed = 0, !.planned = Bookings(plan)]
<1>3. plan \in Seq(Booking) /\ Distinct(plan)
  BY <1>1, PlansType, TrimmedType DEF CommitInv
<1>4. Bookings(plan) \subseteq Booking
  BY <1>3, PieceBookings
<1> HIDE DEF plan
<1>5. bot' = [bot EXCEPT ![c] = b]
  BY <1>1, <1>2 DEF plan
<1>6. b \in Bot /\ b.deltas = bot[c].deltas /\ b.pieces = bot[c].pieces
      /\ b.rest = plan /\ b.pc = "chunk"
  BY <1>1, <1>3, <1>4, ZenonT(60) DEF Bot
<1> HIDE DEF b
<1>7. UNCHANGED <<rows, lock, unlocked, faultsLeft>>
  BY DEF Plan
<1>8. TypeOK'
  BY <1>1, <1>5, <1>6, <1>7, TickTypes DEF CommitInv
<1>9. bot[c].pieces = <<>> /\ bot[c].deltas = 0
  BY <1>1 DEF CommitInv, Work
<1>10. Work'
  BY <1>1, <1>3, <1>5, <1>6, <1>9, WorkStep, NothingLeft DEF CommitInv
<1> QED
  BY <1>7, <1>8, <1>10, RowsKept DEF CommitInv

\* A step inside a tick adds nothing to what the tick has left to commit.
Less(c) ==
    /\ Left(bot'[c].rest, bot'[c].pieces) \subseteq Left(bot[c].rest, bot[c].pieces)
    /\ bot'[c].pc \in {"chunk", "commit", "split"}
    /\ \A d \in Cuebots : d # c => bot'[d] = bot[d]

\* A chunk is cut from the rest.
LEMMA NextChunkInv ==
    ASSUME CommitInv, NEW c \in Cuebots, NextChunk(c)
    PROVE  CommitInv' /\ Less(c)
<1>1. bot \in [Cuebots -> Bot] /\ faultsLeft \in Nat /\ bot[c].rest \in Seq(Booking)
      /\ lock \in Cuebots \cup {NoCuebot} /\ bot[c].pc = "chunk" /\ Distinct(bot[c].rest)
      /\ bot[c].deltas = 0 /\ bot[c].pieces = <<>>
  BY DEF CommitInv, TypeOK, Bot, NextChunk, Work, Apart
<1> DEFINE n == ChunkEnd(bot[c].rest)
           chunk == SubSeq(bot[c].rest, 1, n)
           rest == SubSeq(bot[c].rest, n + 1, Len(bot[c].rest))
<1>2. PICK o \in LeaderAlive(c) :
        bot' = [bot EXCEPT ![c].pc = "commit", ![c].misses = o.misses,
                           ![c].pieces = <<chunk>>,
                           ![c].rest = SubSeq(@, n + 1, Len(@))]
  BY DEF NextChunk
<1> DEFINE b == [bot[c] EXCEPT !.pc = "commit", !.misses = o.misses,
                               !.pieces = <<chunk>>, !.rest = rest]
<1>3. /\ rest \in Seq(Booking) /\ <<chunk>> \in Seq(Seq(Booking)) /\ <<chunk>> # <<>>
      /\ Apart(rest, <<chunk>>) /\ Left(rest, <<chunk>>) = FramesOf(bot[c].rest)
  <2>1. n \in 0..Len(bot[c].rest)
    BY <1>1, ChunkEndType
  <2> HIDE DEF n
  <2> QED
    BY <1>1, <2>1, ApartChunk
<1>4. o.misses \in 0..(ProbeStrikes - 1)
  BY LeaderAliveType DEF CommitInv
<1>5. bot' = [bot EXCEPT ![c] = b]
  BY <1>1, <1>2
<1> HIDE DEF n, chunk, rest
<1>6. b \in Bot /\ b.deltas = bot[c].deltas /\ b.pieces = <<chunk>>
      /\ b.rest = rest /\ b.pc = "commit"
  BY <1>1, <1>3, <1>4, ZenonT(60) DEF Bot
<1> HIDE DEF b
<1>7. UNCHANGED <<rows, lock, unlocked, faultsLeft>>
  BY DEF NextChunk
<1>8. TypeOK'
  BY <1>1, <1>5, <1>6, <1>7, TickTypes DEF CommitInv
<1>9. Work'
  BY <1>1, <1>3, <1>5, <1>6, WorkStep DEF CommitInv
<1>10. Less(c)
  BY <1>1, <1>3, <1>5, <1>6, NothingLeft DEF Less
<1> QED
  BY <1>7, <1>8, <1>9, <1>10, RowsKept DEF CommitInv

\* A tick that ends leaves nothing in hand.
LEMMA EndedInv ==
    ASSUME CommitInv, NEW c \in Cuebots, Demoted(c) \/ TickEnds(c)
    PROVE  CommitInv'
<1>1. bot \in [Cuebots -> Bot] /\ faultsLeft \in Nat /\ lock \in Cuebots \cup {NoCuebot}
      /\ bot[c].misses \in 0..(ProbeStrikes - 1) /\ bot[c].conn \in BOOLEAN
      /\ bot[c].stopping \in BOOLEAN
  BY DEF CommitInv, TypeOK, Bot
<1>2. PICK misses \in 0..(ProbeStrikes - 1), conn \in BOOLEAN : bot' = Ended(c, misses, conn)
  BY <1>1, LeaderAliveType DEF Demoted, TickEnds, CommitInv
<1> DEFINE b == [Fresh EXCEPT !.stopping = bot[c].stopping, !.misses = misses, !.conn = conn]
<1>3. bot' = [bot EXCEPT ![c] = b]
  BY <1>1, <1>2 DEF Ended
<1>4. b \in Bot /\ b.deltas = 0 /\ b.pieces = <<>> /\ b.rest = <<>> /\ b.pc = "idle"
  BY <1>1, FreshType DEF Bot
<1> HIDE DEF b
<1>5. UNCHANGED <<rows, unlocked, faultsLeft>> /\ lock' \in Cuebots \cup {NoCuebot}
  BY <1>1 DEF Demoted, TickEnds, Released
<1>6. TypeOK'
  BY <1>1, <1>3, <1>4, <1>5, TickTypes DEF CommitInv
<1>7. Work'
  BY <1>1, <1>3, <1>4, WorkStep, NothingLeft DEF CommitInv
<1> QED
  BY <1>5, <1>6, <1>7, RowsKept DEF CommitInv

\* A session or a Cuebot that is lost takes no rows with it.
LEMMA CrashInv ==
    ASSUME CommitInv, NEW c \in Cuebots, SessionLost(c) \/ Crash(c)
    PROVE  CommitInv'
<1>1. bot \in [Cuebots -> Bot] /\ faultsLeft \in Nat /\ lock \in Cuebots \cup {NoCuebot}
  BY DEF CommitInv, TypeOK
<1>2. /\ UNCHANGED <<rows, unlocked>> /\ lock' \in Cuebots \cup {NoCuebot}
      /\ faultsLeft' \in Nat
  BY <1>1 DEF SessionLost, Crash, Released, Spend
<1>3. CASE SessionLost(c)
  <2>1. UNCHANGED bot
    BY <1>3 DEF SessionLost
  <2>2. TypeOK'
    BY <1>2, <2>1 DEF CommitInv, TypeOK, rows
  <2>3. Work'
    BY <2>1 DEF CommitInv, Work
  <2> QED
    BY <1>2, <2>2, <2>3, RowsKept DEF CommitInv
<1>4. CASE Crash(c)
  <2>1. bot' = [bot EXCEPT ![c] = Fresh]
    BY <1>4 DEF Crash
  <2>2. TypeOK'
    BY <1>2, <2>1, FreshType, TickTypes DEF CommitInv
  <2>3. Work'
    BY <1>1, <2>1, FreshType, WorkStep, NothingLeft DEF CommitInv
  <2> QED
    BY <1>2, <2>2, <2>3, RowsKept DEF CommitInv
<1> QED
  BY <1>3, <1>4

\* A piece is dropped.
LEMMA DropPieceInv ==
    ASSUME CommitInv, NEW c \in Cuebots, DropPiece(c)
    PROVE  CommitInv' /\ Less(c)
<1> DEFINE left == Tail(bot[c].pieces)
<1>1. bot \in [Cuebots -> Bot] /\ faultsLeft \in Nat /\ bot[c].rest \in Seq(Booking)
      /\ lock \in Cuebots \cup {NoCuebot} /\ bot[c].pc = "split"
      /\ bot[c].deltas = 0 /\ bot[c].pieces # <<>>
      /\ bot[c].pieces \in Seq(Seq(Booking)) /\ Apart(bot[c].rest, bot[c].pieces)
      /\ bot[c].misses \in 0..(ProbeStrikes - 1) /\ bot[c].told \in BOOLEAN
  BY DEF CommitInv, TypeOK, Bot, DropPiece, Work
<1>2. PICK misses \in 0..(ProbeStrikes - 1), told \in BOOLEAN :
        bot' = [bot EXCEPT ![c].pieces = left, ![c].pc = Next_(left),
                           ![c].misses = misses, ![c].told = told]
  <2>1. \A o \in LeaderAlive(c) :
          o.misses \in 0..(ProbeStrikes - 1) /\ (bot[c].told \/ ~o.alive) \in BOOLEAN
    BY <1>1, LeaderAliveType DEF CommitInv
  <2> QED
    BY <1>1, <2>1 DEF DropPiece
<1> DEFINE b == [bot[c] EXCEPT !.pieces = left, !.pc = Next_(left),
                               !.misses = misses, !.told = told]
<1>3. /\ left \in Seq(Seq(Booking)) /\ Apart(bot[c].rest, left)
      /\ Left(bot[c].rest, left) \subseteq Left(bot[c].rest, bot[c].pieces)
  BY <1>1, ApartTail
<1> HIDE DEF left
<1>4. Next_(left) \in {"chunk", "commit"} /\ (left # <<>> <=> Next_(left) = "commit")
  BY DEF Next_
<1>5. bot' = [bot EXCEPT ![c] = b]
  BY <1>1, <1>2
<1>6. b \in Bot /\ b.deltas = 0 /\ b.pieces = left /\ b.rest = bot[c].rest /\ b.pc = Next_(left)
  <2>1. bot[c] \in Bot /\ bot[c].deltas = 0 /\ left \in Seq(Seq(Booking))
        /\ Next_(left) \in {"chunk", "commit"}
    BY <1>1, <1>3, <1>4
  <2> QED
    BY <2>1 DEF Bot
<1> HIDE DEF b
<1>7. UNCHANGED <<rows, lock, unlocked, faultsLeft>>
  BY DEF DropPiece
<1>8. TypeOK'
  BY <1>1, <1>5, <1>6, <1>7, TickTypes DEF CommitInv
<1>9. Work'
  BY <1>1, <1>3, <1>4, <1>5, <1>6, WorkStep DEF CommitInv
<1>10. Less(c)
  BY <1>1, <1>3, <1>4, <1>5, <1>6 DEF Less
<1> QED
  BY <1>7, <1>8, <1>9, <1>10, RowsKept DEF CommitInv

\* A piece is split in two.
LEMMA SplitPieceInv ==
    ASSUME CommitInv, NEW c \in Cuebots, SplitPiece(c)
    PROVE  CommitInv' /\ Less(c)
<1> DEFINE piece == Head(bot[c].pieces)
           mid == HostAlignedMid(piece)
           new == <<SubSeq(piece, 1, mid), SubSeq(piece, mid + 1, Len(piece))>>
                     \o Tail(bot[c].pieces)
<1>1. bot \in [Cuebots -> Bot] /\ faultsLeft \in Nat /\ bot[c].rest \in Seq(Booking)
      /\ lock \in Cuebots \cup {NoCuebot} /\ bot[c].pc = "split"
      /\ bot[c].deltas = 0 /\ bot[c].pieces # <<>>
      /\ bot[c].pieces \in Seq(Seq(Booking)) /\ Apart(bot[c].rest, bot[c].pieces)
      /\ bot[c].splits \in Nat /\ bot[c].splits >= 2
  BY DEF CommitInv, TypeOK, Bot, SplitPiece, Work
<1>2. PICK misses \in 0..(ProbeStrikes - 1) :
        bot' = [bot EXCEPT ![c].pc = "commit", ![c].misses = misses,
                  ![c].splits = @ - 2,
                  ![c].pieces = <<SubSeq(piece, 1, mid),
                                  SubSeq(piece, mid + 1, Len(piece))>> \o Tail(@)]
  BY LeaderAliveType DEF CommitInv, SplitPiece
<1> DEFINE b == [bot[c] EXCEPT !.pc = "commit", !.misses = misses,
                               !.splits = bot[c].splits - 2, !.pieces = new]
<1>3. /\ new \in Seq(Seq(Booking)) /\ new # <<>> /\ Apart(bot[c].rest, new)
      /\ Left(bot[c].rest, new) = Left(bot[c].rest, bot[c].pieces)
  <2>1. piece \in Seq(Booking)
    BY <1>1, ApartTail
  <2>2. mid \in 0..Len(piece)
    <3> HIDE DEF piece
    <3>1. Len(piece) \in Nat /\ (mid = 0 \/ mid \in 1..(Len(piece) - 1))
      BY <2>1, MidType
    <3> QED
      BY <3>1
  <2> HIDE DEF mid
  <2> QED
    BY <1>1, <2>1, <2>2, ApartSplit, ZenonT(60)
<1>4. bot' = [bot EXCEPT ![c] = b]
  BY <1>1, <1>2
<1> HIDE DEF new
<1>5. b \in Bot /\ b.deltas = 0 /\ b.pieces = new /\ b.rest = bot[c].rest /\ b.pc = "commit"
  <2>1. bot[c] \in Bot /\ bot[c].splits - 2 \in Nat
    BY <1>1
  <2> QED
    BY <1>1, <1>3, <2>1 DEF Bot
<1> HIDE DEF b
<1>6. UNCHANGED <<rows, lock, unlocked, faultsLeft>>
  BY DEF SplitPiece
<1>7. TypeOK'
  BY <1>1, <1>4, <1>5, <1>6, TickTypes DEF CommitInv
<1>8. Work'
  BY <1>1, <1>3, <1>4, <1>5, WorkStep DEF CommitInv
<1>9. Less(c)
  BY <1>1, <1>3, <1>4, <1>5 DEF Less
<1> QED
  BY <1>6, <1>7, <1>8, <1>9, RowsKept DEF CommitInv

\* A piece that fails: the same frames, other versions.
LEMMA PieceFailsInv ==
    ASSUME CommitInv, NEW c \in Cuebots, PieceFails(c)
    PROVE  CommitInv' /\ Less(c)
<1> DEFINE piece == Head(bot[c].pieces)
           won == Won(piece)
           Bumped(where) == [i \in 1..Len(piece) |->
                               IF where = "after" /\ piece[i] \in won
                                 THEN [piece[i] EXCEPT !.ver = piece[i].ver + 1]
                                 ELSE piece[i]]
<1>1. bot \in [Cuebots -> Bot] /\ faultsLeft \in Nat /\ bot[c].rest \in Seq(Booking)
      /\ lock \in Cuebots \cup {NoCuebot} /\ bot[c].pc = "commit"
      /\ bot[c].deltas = 0 /\ bot[c].pieces # <<>>
      /\ bot[c].pieces \in Seq(Seq(Booking)) /\ Apart(bot[c].rest, bot[c].pieces)
  BY DEF CommitInv, TypeOK, Bot, PieceFails, Work
<1>2. PICK where \in {"before", "after"} :
        /\ Fails(won, where)
        /\ bot' = [bot EXCEPT ![c].pc = "split",
                     ![c].failed = @ \cup FramesIn(piece),
                     ![c].deltas =
                       Discarded(IF where = "after" THEN @ + Cardinality(won) ELSE @),
                     ![c].pieces[1] = Bumped(where)]
  BY DEF PieceFails
<1> DEFINE q == Bumped(where)
           new == [bot[c].pieces EXCEPT ![1] = q]
           failed == bot[c].failed \cup FramesIn(piece)
           b == [bot[c] EXCEPT !.pc = "split", !.failed = failed, !.deltas = 0,
                               !.pieces = new]
<1>3. /\ piece \in Seq(Booking) /\ piece = bot[c].pieces[1]
      /\ failed \in SUBSET Frames
  <2>1. piece \in Seq(Booking) /\ piece = bot[c].pieces[1]
    BY <1>1
  <2>2. Bookings(piece) \subseteq Booking
    BY <2>1 DEF Bookings, ToSet
  <2>3. FramesIn(piece) \subseteq Frames
    BY <2>2 DEF FramesIn, Booking
  <2>4. bot[c].failed \subseteq Frames
    BY <1>1 DEF Bot
  <2> QED
    BY <2>1, <2>3, <2>4
<1>4. q \in Seq(Booking) /\ Len(q) = Len(piece)
      /\ \A i \in 1..Len(q) : q[i].frame = piece[i].frame
  <2> HIDE DEF piece, won
  <2>1. \A i \in 1..Len(piece) : q[i] \in Booking /\ q[i].frame = piece[i].frame
    <3> TAKE i \in 1..Len(piece)
    <3>1. piece[i] \in Booking
      BY <1>3
    <3>2. piece[i].ver + 1 \in Nat
      BY <3>1 DEF Booking
    <3> QED
      BY <3>1, <3>2 DEF Booking
  <2>2. q = [i \in 1..Len(piece) |-> q[i]]
    OBVIOUS
  <2>3. q \in Seq(Booking) /\ Len(q) = Len(piece)
    <3> HIDE DEF q
    <3>1. Len(piece) \in Nat
      BY <1>3
    <3> QED
      BY <2>1, <2>2, <3>1
  <2> QED
    BY <2>1, <2>3
<1> HIDE DEF q, failed
<1>5. /\ new \in Seq(Seq(Booking)) /\ new # <<>> /\ Apart(bot[c].rest, new)
      /\ Left(bot[c].rest, new) = Left(bot[c].rest, bot[c].pieces)
  <2> HIDE DEF piece
  <2>1. /\ Len(q) = Len(bot[c].pieces[1])
        /\ \A i \in 1..Len(q) : q[i].frame = bot[c].pieces[1][i].frame
    BY <1>3, <1>4
  <2> DEFINE P == bot[c].pieces
             R == bot[c].rest
  <2>2. /\ R \in Seq(Booking) /\ P \in Seq(Seq(Booking)) /\ P # <<>> /\ Apart(R, P)
        /\ q \in Seq(Booking) /\ Len(q) = Len(P[1])
        /\ \A i \in 1..Len(q) : q[i].frame = P[1][i].frame
    BY <1>1, <1>4, <2>1
  <2> HIDE DEF P, R
  <2>3. /\ [P EXCEPT ![1] = q] \in Seq(Seq(Booking)) /\ [P EXCEPT ![1] = q] # <<>>
        /\ Apart(R, [P EXCEPT ![1] = q])
        /\ Left(R, [P EXCEPT ![1] = q]) = Left(R, P)
    BY <2>2, ApartSame
  <2> QED
    BY <2>3 DEF P, R
<1>6. bot' = [bot EXCEPT ![c] = b]
  BY <1>1, <1>2, ZenonT(60) DEF Discarded, q, failed
<1> HIDE DEF new
<1>7. b \in Bot /\ b.deltas = 0 /\ b.pieces = new /\ b.rest = bot[c].rest /\ b.pc = "split"
  <2>1. b \in Bot
    BY <1>1, <1>3, <1>5, BotSplits
  <2> QED
    BY <1>1, <2>1 DEF Bot
<1> HIDE DEF b
<1>8. UNCHANGED <<rows, lock, unlocked>>
  BY DEF PieceFails
<1>9. faultsLeft' \in Nat
  BY <1>1, <1>2 DEF Fails, Spend
<1>10. TypeOK'
  BY <1>1, <1>6, <1>7, <1>8, <1>9, TickTypes DEF CommitInv
<1>11. Work'
  BY <1>1, <1>5, <1>6, <1>7, WorkStep DEF CommitInv
<1>12. Less(c)
  BY <1>1, <1>5, <1>6, <1>7 DEF Less
<1> QED
  BY <1>8, <1>10, <1>11, <1>12, RowsKept DEF CommitInv

(***************************************************************************)
(* The rest of the farm.                                                   *)
(***************************************************************************)

\* One proc leaves: its core, its host's and its folder's go with it.
LEMMA FreedRows ==
    ASSUME TypeOK, Rows, NEW p \in procs, Freed(p)
    PROVE  /\ procs' \subseteq [frame : Frames, host : Hosts]
           /\ idle' \in [Hosts -> Nat] /\ folder' \in Nat /\ folder = folder' + 1
           /\ IsFiniteSet(procs') /\ HostLedger' /\ FolderLedger'
           /\ \A f \in Frames : f # p.frame => OnFrames({f})' = OnFrames({f})
<1>1. procs \subseteq [frame : Frames, host : Hosts] /\ idle \in [Hosts -> Nat]
      /\ folder \in Nat /\ p.host \in Hosts /\ IsFiniteSet(procs)
      /\ folder = Cardinality(procs)
      /\ \A h \in Hosts : idle[h] + Cardinality(OnHost(h, procs)) = Cores
  BY DEF TypeOK, Rows, HostLedger, FolderLedger
<1>2. /\ procs' = procs \ {p}
      /\ idle' = [idle EXCEPT ![p.host] = @ + 1]
      /\ folder' = folder - 1
  BY DEF Freed
<1>3. IsFiniteSet(procs') /\ Cardinality(procs') = Cardinality(procs) - 1
  BY <1>1, <1>2, FS_RemoveElement
<1>4. Cardinality(procs') \in Nat /\ Cardinality(procs) \in Nat
  BY <1>1, <1>3, FS_CardinalityType
<1>5. idle' \in [Hosts -> Nat] /\ folder' \in Nat /\ folder = folder' + 1
  BY <1>1, <1>2, <1>3, <1>4
<1>6. ASSUME NEW h \in Hosts
      PROVE  idle'[h] + Cardinality(OnHost(h, procs')) = Cores
  <2>1. CASE h = p.host
    <3>1. OnHost(h, procs') = OnHost(h, procs) \ {p} /\ p \in OnHost(h, procs)
      BY <1>2, <2>1 DEF OnHost
    <3>2. IsFiniteSet(OnHost(h, procs)) /\ Cardinality(OnHost(h, procs)) \in Nat
      BY <1>1, ProcsFinite
    <3>3. Cardinality(OnHost(h, procs')) = Cardinality(OnHost(h, procs)) - 1
      BY <3>1, <3>2, FS_RemoveElement, ZenonT(60)
    <3>4. idle'[h] = idle[h] + 1
      BY <1>1, <1>2, <2>1
    <3> QED
      BY <1>1, <3>2, <3>3, <3>4
  <2>2. CASE h # p.host
    <3>1. OnHost(h, procs') = OnHost(h, procs) /\ idle'[h] = idle[h]
      BY <1>1, <1>2, <2>2 DEF OnHost
    <3> QED
      BY <1>1, <3>1
  <2> QED
    BY <2>1, <2>2
<1>7. HostLedger'
  BY <1>6 DEF HostLedger, OnHost
<1>8. FolderLedger'
  BY <1>1, <1>2, <1>3 DEF FolderLedger
<1>9. \A f \in Frames : f # p.frame => OnFrames({f})' = OnFrames({f})
  BY <1>2 DEF OnFrames
<1> QED
  BY <1>1, <1>2, <1>3, <1>5, <1>7, <1>8, <1>9

\* A frame that stops running.
LEMMA FrameGoesType ==
    ASSUME TypeOK, NEW f \in Frames, NEW state \in {"WAITING", "ENDED"}, FrameGoes(f, state)
    PROVE  /\ frame' \in [Frames -> [state : {"WAITING", "RUNNING", "ENDED"}, ver : Nat]]
           /\ \A g \in Frames : frame'[g].state = "RUNNING" => g # f /\ frame[g].state = "RUNNING"
<1>1. frame \in [Frames -> [state : {"WAITING", "RUNNING", "ENDED"}, ver : Nat]]
  BY DEF TypeOK
<1>2. frame' = [frame EXCEPT ![f] = [state |-> state, ver |-> frame[f].ver + 1]]
  BY DEF FrameGoes
<1>3. [state |-> state, ver |-> frame[f].ver + 1]
        \in [state : {"WAITING", "RUNNING", "ENDED"}, ver : Nat]
  BY <1>1
<1>4. frame' \in [Frames -> [state : {"WAITING", "RUNNING", "ENDED"}, ver : Nat]]
  BY <1>1, <1>2, <1>3
<1>5. frame'[f].state = state
  BY <1>1, <1>2
<1>6. \A g \in Frames : g # f => frame'[g] = frame[g]
  BY <1>1, <1>2
<1> QED
  BY <1>4, <1>5, <1>6

\* Runs end, leave corpses or are eaten: the ledgers follow.
LEMMA EnvironmentInv ==
    ASSUME CommitInv,
           \/ \E p \in procs : Completes(p) \/ LeavesCorpse(p) \/ CorpseReleased(p)
           \/ \E f \in Frames : Eaten(f)
    PROVE  CommitInv'
<1>1. /\ \A p \in procs : p.frame \in Frames /\ p.host \in Hosts
      /\ faultsLeft \in Nat
      /\ \A f \in Frames : frame[f].state = "RUNNING" => Cardinality(OnFrames({f})) = 1
  BY DEF CommitInv, TypeOK, Rows, OneProcPerRun
<1>2. UNCHANGED <<lock, bot, unlocked>> /\ faultsLeft' \in Nat
  BY <1>1 DEF Completes, LeavesCorpse, CorpseReleased, Eaten, Spend
<1>3. Work'
  BY <1>2 DEF CommitInv, Work
<1>4. ASSUME NEW p \in procs, Completes(p)
      PROVE  CommitInv'
  <2>1. PICK state \in {"WAITING", "ENDED"} : FrameGoes(p.frame, state)
    BY <1>4 DEF Completes
  <2>2. /\ frame' \in [Frames -> [state : {"WAITING", "RUNNING", "ENDED"}, ver : Nat]]
        /\ \A g \in Frames :
             frame'[g].state = "RUNNING" => g # p.frame /\ frame[g].state = "RUNNING"
    BY <1>1, <2>1, FrameGoesType DEF CommitInv
  <2>3. Freed(p)
    BY <1>4 DEF Completes
  <2>4. /\ procs' \subseteq [frame : Frames, host : Hosts]
        /\ idle' \in [Hosts -> Nat] /\ folder' \in Nat
        /\ IsFiniteSet(procs') /\ HostLedger' /\ FolderLedger'
        /\ \A f \in Frames : f # p.frame => OnFrames({f})' = OnFrames({f})
    BY <2>3, FreedRows DEF CommitInv
  <2>5. OneProcPerRun'
    BY <1>1, <2>2, <2>4 DEF OneProcPerRun
  <2>6. TypeOK'
    BY <1>2, <2>2, <2>4 DEF CommitInv, TypeOK
  <2> QED
    BY <1>3, <2>4, <2>5, <2>6 DEF CommitInv, Rows
<1>5. ASSUME NEW f \in Frames, NEW state \in {"WAITING", "ENDED"}, FrameGoes(f, state),
             UNCHANGED <<procs, idle, folder>>
      PROVE  CommitInv'
  <2>1. /\ frame' \in [Frames -> [state : {"WAITING", "RUNNING", "ENDED"}, ver : Nat]]
        /\ \A g \in Frames :
             frame'[g].state = "RUNNING" => g # f /\ frame[g].state = "RUNNING"
    BY <1>5, FrameGoesType DEF CommitInv
  <2>2. OneProcPerRun'
    BY <1>1, <1>5, <2>1 DEF OneProcPerRun, OnFrames
  <2>3. IsFiniteSet(procs') /\ HostLedger' /\ FolderLedger'
    BY <1>5 DEF CommitInv, Rows, HostLedger, FolderLedger, OnHost
  <2>4. TypeOK'
    BY <1>2, <1>5, <2>1 DEF CommitInv, TypeOK
  <2> QED
    BY <1>3, <2>2, <2>3, <2>4 DEF CommitInv, Rows
<1>6. ASSUME NEW p \in procs, CorpseReleased(p)
      PROVE  CommitInv'
  <2>1. Freed(p) /\ UNCHANGED frame /\ frame[p.frame].state # "RUNNING"
    BY <1>6 DEF CorpseReleased
  <2>2. /\ procs' \subseteq [frame : Frames, host : Hosts]
        /\ idle' \in [Hosts -> Nat] /\ folder' \in Nat
        /\ IsFiniteSet(procs') /\ HostLedger' /\ FolderLedger'
        /\ \A f \in Frames : f # p.frame => OnFrames({f})' = OnFrames({f})
    BY <2>1, FreedRows DEF CommitInv
  <2>3. OneProcPerRun'
    BY <1>1, <2>1, <2>2 DEF OneProcPerRun
  <2>4. TypeOK'
    BY <1>2, <2>1, <2>2 DEF CommitInv, TypeOK
  <2> QED
    BY <1>3, <2>2, <2>3, <2>4 DEF CommitInv, Rows
<1>7. ASSUME NEW p \in procs, LeavesCorpse(p) PROVE CommitInv'
  BY <1>1, <1>5, <1>7 DEF LeavesCorpse
<1>8. ASSUME NEW f \in Frames, Eaten(f) PROVE CommitInv'
  BY <1>5, <1>8 DEF Eaten
<1> QED
  BY <1>4, <1>6, <1>7, <1>8

(***************************************************************************)
(* The commit of a piece.                                                  *)
(***************************************************************************)

\* What a piece wins, and the corpses it evicts.
LEMMA WonType ==
    ASSUME CommitInv, NEW piece \in Seq(Booking), Distinct(piece)
    PROVE  LET won == Won(piece)
           IN  /\ won \subseteq Booking /\ IsFiniteSet(won) /\ Once(won)
               /\ Cardinality(won) \in Nat
               /\ \A b \in won : b.frame \in FramesOf(piece) /\ frame[b.frame].state = "WAITING"
               /\ \A h \in Hosts : Cardinality(OnHost(h, won)) <= idle[h]
               /\ Stale(won) \subseteq procs
               /\ AsProcs(won) \subseteq [frame : Frames, host : Hosts]
               /\ AsProcs(won) \cap (procs \ Stale(won)) = {}
<1> DEFINE won == Won(piece)
           B == Bookings(piece)
<1>1. /\ IsFiniteSet(B) /\ B \subseteq Booking /\ Once(B)
      /\ \A b \in B : b.frame \in FramesOf(piece)
  BY PieceBookings
<1>2. won \subseteq Affordable(piece) /\ Affordable(piece) \subseteq B
      /\ \A b \in won : frame[b.frame].state = "WAITING"
  BY DEF Won, Affordable
<1>3. won \subseteq Booking /\ IsFiniteSet(won) /\ Once(won) /\ Cardinality(won) \in Nat
  <2>1. IsFiniteSet(won)
    BY <1>1, <1>2, FS_Subset
  <2> QED
    BY <1>1, <1>2, <2>1, FS_CardinalityType DEF Once
<1>4. ASSUME NEW h \in Hosts PROVE Cardinality(OnHost(h, won)) <= idle[h]
  <2>1. idle[h] \in Nat
    BY DEF CommitInv, TypeOK
  <2>2. CASE OnHost(h, won) = {}
    BY <2>1, <2>2, FS_EmptySet
  <2>3. CASE OnHost(h, won) # {}
    <3>1. PICK b \in won : b.host = h
      BY <2>3 DEF OnHost
    <3>2. Cardinality(OnHost(h, B)) <= idle[h]
      BY <1>2, <3>1 DEF Affordable
    <3>3. IsFiniteSet(OnHost(h, B)) /\ Cardinality(OnHost(h, B)) \in Nat
      BY <1>1, AsManyProcsOn
    <3>4. OnHost(h, won) \subseteq OnHost(h, B)
      BY <1>2 DEF OnHost
    <3>5. /\ Cardinality(OnHost(h, won)) <= Cardinality(OnHost(h, B))
          /\ Cardinality(OnHost(h, won)) \in Nat
      BY <3>3, <3>4, FS_Subset, FS_CardinalityType
    <3> QED
      BY <2>1, <3>2, <3>3, <3>5
  <2> QED
    BY <2>2, <2>3
<1>5. Stale(won) = {p \in procs : \E b \in won : p.frame = b.frame}
  BY DEF Stale, OnFrames
<1>6. AsProcs(won) \subseteq [frame : Frames, host : Hosts]
  BY <1>3 DEF AsProcs, Booking
<1>7. AsProcs(won) \cap (procs \ Stale(won)) = {}
  BY <1>5 DEF AsProcs
<1>8. Stale(won) \subseteq procs
  BY <1>5
<1>9. \A b \in won : b.frame \in FramesOf(piece)
  BY <1>1, <1>2
<1> QED
  BY <1>2, <1>3, <1>4, <1>6, <1>7, <1>8, <1>9

\* The rows after a commit, whatever the piece won.
LEMMA CommitRows ==
    ASSUME CommitInv, NEW c \in Cuebots, CommitPiece(c)
    PROVE  /\ frame' \in [Frames -> [state : {"WAITING", "RUNNING", "ENDED"}, ver : Nat]]
           /\ procs' \subseteq [frame : Frames, host : Hosts]
           /\ idle' \in [Hosts -> Nat]
           /\ folder' \in Nat /\ folder' <= folder + Cardinality(Won(Head(bot[c].pieces)))
           /\ Rows'
<1> DEFINE piece == Head(bot[c].pieces)
           won == Won(piece)
           stale == Stale(won)
           new == AsProcs(won)
<1>1. /\ frame \in [Frames -> [state : {"WAITING", "RUNNING", "ENDED"}, ver : Nat]]
      /\ procs \subseteq [frame : Frames, host : Hosts]
      /\ idle \in [Hosts -> Nat] /\ folder \in Nat
      /\ IsFiniteSet(procs) /\ folder = Cardinality(procs)
      /\ \A h \in Hosts : idle[h] + Cardinality(OnHost(h, procs)) = Cores
      /\ \A f \in Frames : frame[f].state = "RUNNING" => Cardinality(OnFrames({f})) = 1
      /\ Cores \in Nat
  BY CommitAssumption DEF CommitInv, TypeOK, Rows, HostLedger, FolderLedger, OneProcPerRun
<1>2. piece \in Seq(Booking) /\ Distinct(piece) /\ bot[c].deltas = 0
  <2>1. /\ bot[c].rest \in Seq(Booking) /\ bot[c].pieces \in Seq(Seq(Booking))
        /\ bot[c].pieces # <<>> /\ Apart(bot[c].rest, bot[c].pieces) /\ bot[c].deltas = 0
    BY DEF CommitInv, TypeOK, Bot, Work, CommitPiece
  <2> QED
    BY <2>1, ApartTail
<1>3. /\ frame' = [f \in Frames |->
                     IF \E b \in won : b.frame = f
                       THEN [state |-> "RUNNING", ver |-> frame[f].ver + 1]
                       ELSE frame[f]]
      /\ procs' = (procs \ stale) \cup new
      /\ idle' = [h \in Hosts |-> idle[h] - Cardinality(OnHost(h, won))
                                          + Cardinality(OnHost(h, stale))]
      /\ folder' = (folder + 0 + Cardinality(won)) - Cardinality(stale)
  BY <1>2 DEF CommitPiece, IdleAfter, AsProcs
<1> HIDE DEF piece
<1>4. /\ won \subseteq Booking /\ IsFiniteSet(won) /\ Once(won)
      /\ Cardinality(won) \in Nat
      /\ \A h \in Hosts : Cardinality(OnHost(h, won)) <= idle[h]
      /\ stale \subseteq procs
      /\ new \subseteq [frame : Frames, host : Hosts]
      /\ new \cap (procs \ stale) = {}
  BY <1>2, WonType
<1>5. stale = {p \in procs : \E b \in won : p.frame = b.frame}
  BY DEF Stale, OnFrames
<1> HIDE DEF won, stale
<1>6. IsFiniteSet(new) /\ Cardinality(new) = Cardinality(won)
  BY <1>4, AsManyProcs
<1> HIDE DEF new
<1>7. /\ IsFiniteSet(procs')
      /\ Cardinality(procs') = (Cardinality(procs) - Cardinality(stale)) + Cardinality(won)
      /\ Cardinality(procs) \in Nat /\ Cardinality(stale) \in Nat
      /\ Cardinality(stale) <= Cardinality(procs)
  BY <1>1, <1>3, <1>4, <1>6, Exchanged, SMTT(20)
<1>8. FolderLedger' /\ folder' \in Nat /\ folder' <= folder + Cardinality(won)
  <2>1. folder' = Cardinality(procs')
    BY <1>1, <1>3, <1>4, <1>7
  <2>2. folder' <= folder + Cardinality(won) /\ folder' \in Nat
    BY <1>1, <1>3, <1>4, <1>7
  <2> QED
    BY <2>1, <2>2 DEF FolderLedger
<1>9. ASSUME NEW h \in Hosts
      PROVE  idle'[h] \in Nat /\ idle'[h] + Cardinality(OnHost(h, procs')) = Cores
  <2> DEFINE P == OnHost(h, procs)
             S == OnHost(h, stale)
             N == OnHost(h, new)
             W == OnHost(h, won)
  <2>1. OnHost(h, procs') = (P \ S) \cup N /\ S \subseteq P /\ N \cap (P \ S) = {}
    BY <1>3, <1>4 DEF OnHost
  <2>2. IsFiniteSet(P)
    BY <1>1, ProcsFinite
  <2>3. IsFiniteSet(N) /\ Cardinality(N) = Cardinality(W) /\ Cardinality(W) \in Nat
    BY <1>4, AsManyProcsOn DEF new
  <2>4. idle'[h] = idle[h] - Cardinality(W) + Cardinality(S) /\ idle[h] \in Nat
        /\ Cardinality(W) <= idle[h] /\ idle[h] + Cardinality(P) = Cores
    BY <1>1, <1>3, <1>4
  <2> HIDE DEF P, S, N, W
  <2>5. /\ Cardinality(OnHost(h, procs')) = (Cardinality(P) - Cardinality(S)) + Cardinality(N)
        /\ Cardinality(P) \in Nat /\ Cardinality(S) \in Nat
    BY <2>1, <2>2, <2>3, Exchanged
  <2> QED
    BY <1>1, <2>3, <2>4, <2>5
<1>10. HostLedger' /\ idle' \in [Hosts -> Nat]
  <2>1. idle' = [h \in Hosts |-> idle'[h]]
    BY <1>3
  <2> QED
    BY <1>9, <2>1 DEF HostLedger, OnHost
<1>11. frame' \in [Frames -> [state : {"WAITING", "RUNNING", "ENDED"}, ver : Nat]]
  <2>1. ASSUME NEW f \in Frames
        PROVE  frame'[f] \in [state : {"WAITING", "RUNNING", "ENDED"}, ver : Nat]
    <3>1. [state |-> "RUNNING", ver |-> frame[f].ver + 1]
            \in [state : {"WAITING", "RUNNING", "ENDED"}, ver : Nat]
      BY <1>1
    <3> QED
      BY <1>1, <1>3, <3>1
  <2>2. frame' = [f \in Frames |-> frame'[f]]
    BY <1>3
  <2> QED
    BY <2>1, <2>2
<1>12. procs' \subseteq [frame : Frames, host : Hosts]
  BY <1>1, <1>3, <1>4
<1>13. OneProcPerRun'
  <2> SUFFICES ASSUME NEW f \in Frames, frame'[f].state = "RUNNING"
               PROVE  Cardinality({p \in procs' : p.frame \in {f}}) = 1
    BY DEF OneProcPerRun, OnFrames
  <2>1. CASE \E b \in won : b.frame = f
    <3>1. PICK b \in won : b.frame = f
      BY <2>1
    <3> DEFINE q == [frame |-> b.frame, host |-> b.host]
    <3>2. {p \in procs' : p.frame \in {f}} = {q}
      <4>1. \A p \in procs \ stale : p.frame # f
        BY <1>5, <3>1
      <4>2. \A p \in new : p.frame = f => p = q
        BY <1>4, <3>1 DEF new, AsProcs, Once
      <4>3. q \in new /\ q.frame = f
        BY <3>1 DEF new, AsProcs
      <4> HIDE DEF q
      <4> QED
        BY <1>3, <4>1, <4>2, <4>3
    <3> QED
      BY <3>2, FS_Singleton
  <2>2. CASE ~ \E b \in won : b.frame = f
    <3>1. frame'[f] = frame[f]
      BY <1>3, <2>2
    <3>2. {p \in procs' : p.frame \in {f}} = OnFrames({f})
      <4>1. \A p \in new : p.frame # f
        BY <2>2 DEF new, AsProcs
      <4>2. \A p \in stale : p.frame # f
        BY <1>5, <2>2
      <4> QED
        BY <1>3, <1>4, <4>1, <4>2 DEF OnFrames
    <3> QED
      BY <1>1, <3>1, <3>2
  <2> QED
    BY <2>1, <2>2
<1> QED
  BY <1>7, <1>8, <1>10, <1>11, <1>12, <1>13 DEF Rows, won, piece

\* A piece is committed: the ledgers and what is left of the plan.
LEMMA CommitPieceInv ==
    ASSUME CommitInv, NEW c \in Cuebots, CommitPiece(c)
    PROVE  /\ CommitInv' /\ Less(c)
           /\ FramesOf(Head(bot[c].pieces)) \subseteq Left(bot[c].rest, bot[c].pieces)
           /\ FramesOf(Head(bot[c].pieces)) \cap Left(bot'[c].rest, bot'[c].pieces) = {}
<1> DEFINE left == Tail(bot[c].pieces)
           b == [bot[c] EXCEPT !.pieces = left, !.deltas = 0, !.pc = Next_(left)]
<1>1. bot \in [Cuebots -> Bot] /\ faultsLeft \in Nat /\ bot[c].rest \in Seq(Booking)
      /\ lock \in Cuebots \cup {NoCuebot} /\ bot[c].pieces # <<>>
      /\ bot[c].pieces \in Seq(Seq(Booking)) /\ Apart(bot[c].rest, bot[c].pieces)
      /\ unlocked \in BOOLEAN
  BY DEF CommitInv, TypeOK, Bot, Work, CommitPiece
<1>2. bot' = [bot EXCEPT ![c] = b] /\ UNCHANGED <<lock, faultsLeft>>
  BY <1>1 DEF CommitPiece
<1>3. unlocked' \in BOOLEAN
  BY <1>1 DEF CommitPiece
<1> DEFINE F == FramesOf(Head(bot[c].pieces))
<1>4. /\ left \in Seq(Seq(Booking)) /\ Apart(bot[c].rest, left)
      /\ F \cap Left(bot[c].rest, left) = {}
      /\ Left(bot[c].rest, bot[c].pieces) = F \cup Left(bot[c].rest, left)
  BY <1>1, ApartTail
<1> HIDE DEF F
<1> HIDE DEF left
<1>5. Next_(left) \in {"chunk", "commit"} /\ (left # <<>> <=> Next_(left) = "commit")
  BY DEF Next_
<1>6. b \in Bot /\ b.deltas = 0 /\ b.pieces = left /\ b.rest = bot[c].rest /\ b.pc = Next_(left)
  BY <1>1, <1>4, <1>5, ZenonT(60) DEF Bot
<1> HIDE DEF b
<1>7. Work'
  BY <1>1, <1>2, <1>4, <1>5, <1>6, WorkStep DEF CommitInv
<1>8. bot' \in [Cuebots -> Bot]
  BY <1>1, <1>2, <1>6
<1>9. TypeOK'
  BY <1>1, <1>2, <1>3, <1>8, CommitRows DEF TypeOK
<1>10. /\ bot'[c].rest = bot[c].rest /\ bot'[c].pieces = left
       /\ bot'[c].pc \in {"chunk", "commit"}
       /\ \A d \in Cuebots : d # c => bot'[d] = bot[d]
  BY <1>1, <1>2, <1>5, <1>6
<1>11. /\ Less(c) /\ F \subseteq Left(bot[c].rest, bot[c].pieces)
       /\ F \cap Left(bot'[c].rest, bot'[c].pieces) = {}
  BY <1>4, <1>10 DEF Less
<1> QED
  BY <1>7, <1>9, <1>11, CommitRows DEF CommitInv, F

(***************************************************************************)
(* The theorems.                                                           *)
(***************************************************************************)

\* The invariant holds at first.
LEMMA CommitInit == Init => CommitInv
<1> SUFFICES ASSUME Init PROVE CommitInv
  OBVIOUS
<1>1. Fresh \in Bot /\ Fresh.deltas = 0 /\ Fresh.pieces = <<>> /\ Fresh.rest = <<>>
      /\ Fresh.pc = "idle"
  BY FreshType
<1>2. TypeOK
  BY <1>1, CommitAssumption DEF Init, TypeOK
<1>3. Work
  BY <1>1, NothingLeft DEF Init, Work
<1>4. \A h : OnHost(h, {}) = {}
  BY DEF OnHost
<1>5. Rows
  BY <1>4, FS_EmptySet, CommitAssumption DEF Init, Rows, HostLedger, FolderLedger, OneProcPerRun
<1> QED
  BY <1>2, <1>3, <1>5 DEF CommitInv

\* Every step keeps the invariant.
LEMMA CommitStep == CommitInv /\ [Next]_vars => CommitInv'
<1> SUFFICES ASSUME CommitInv, [Next]_vars PROVE CommitInv'
  OBVIOUS
<1>1. ASSUME UNCHANGED vars PROVE CommitInv'
  <2>1. UNCHANGED <<rows, lock, bot, unlocked, faultsLeft>>
    BY <1>1 DEF vars
  <2>2. TypeOK' /\ Work'
    BY <2>1 DEF CommitInv, TypeOK, Work, rows
  <2> QED
    BY <2>1, <2>2, RowsKept DEF CommitInv
<1>2. ASSUME NEW c \in Cuebots, TickStep(c) PROVE CommitInv'
  BY <1>2, StandbyInv, TickStartInv, PlanInv, NextChunkInv, EndedInv, CommitPieceInv,
     PieceFailsInv, DropPieceInv, SplitPieceInv DEF TickStep
<1>3. ASSUME NEW c \in Cuebots,
             SessionLost(c) \/ Crash(c) \/ ShutdownMarked(c) \/ ShutdownReleases(c)
      PROVE  CommitInv'
  BY <1>3, CrashInv, StandbyInv
<1> QED
  BY <1>1, <1>2, <1>3, EnvironmentInv DEF Next

\* CommitInv is an invariant of the specification.
THEOREM CommitInvCorrect == Spec => []CommitInv
<1> QED
  BY CommitInit, CommitStep, PTL DEF Spec

\* The rows and the memory of the ticks have their types.
THEOREM TypeCorrect == Spec => []TypeOK
<1>1. CommitInv => TypeOK
  BY DEF CommitInv
<1> QED
  BY <1>1, CommitInvCorrect, PTL

\* A host's idle cores are its cores less its procs, for every number of Cuebots
\* that commit, fail, split, retry and evict, and of runs that end meanwhile.
THEOREM HostLedgerCorrect == Spec => []HostLedger
<1>1. CommitInv => HostLedger
  BY DEF CommitInv, Rows
<1> QED
  BY <1>1, CommitInvCorrect, PTL

\* The folder's usage is the number of its procs: a failed piece leaves no
\* deltas behind for the next one.
THEOREM FolderLedgerCorrect == Spec => []FolderLedger
<1>1. CommitInv => FolderLedger
  BY DEF CommitInv, Rows
<1> QED
  BY <1>1, CommitInvCorrect, PTL

\* A RUNNING frame has one proc, however many Cuebots planned it.
THEOREM OneProcPerRunCorrect == Spec => []OneProcPerRun
<1>1. CommitInv => OneProcPerRun
  BY DEF CommitInv, Rows
<1> QED
  BY <1>1, CommitInvCorrect, PTL

(***************************************************************************)
(* The cap.  What the folder has, and what the holder of the lock may      *)
(* still add to it, fit: no piece adds a frame that the trim did not count. *)
(***************************************************************************)

\* What the tick of c counts on.
Counted(c) ==
    /\ bot[c].pc = "plan" => folder <= bot[c].seed
    /\ bot[c].pc \in {"chunk", "commit", "split"} =>
         folder + Cardinality(Left(bot[c].rest, bot[c].pieces)) <= FolderMax

Capped ==
    ~unlocked => /\ folder <= FolderMax
                 /\ \A c \in Cuebots : lock = c => Counted(c)

CapInv == CommitInv /\ Capped

\* What is left is finitely many frames.
LEMMA LeftFinite ==
    ASSUME TypeOK, NEW c \in Cuebots
    PROVE  /\ IsFiniteSet(Left(bot[c].rest, bot[c].pieces))
           /\ Cardinality(Left(bot[c].rest, bot[c].pieces)) \in Nat
<1>1. bot[c].rest \in Seq(Booking) /\ bot[c].pieces \in Seq(Seq(Booking))
  BY DEF TypeOK, Bot
<1>2. \A s \in Seq(Booking) : FramesOf(s) \subseteq Frames
  <2>1. \A s \in Seq(Booking) : \A i \in 1..Len(s) : s[i] \in Booking
    OBVIOUS
  <2>2. \A b \in Booking : b.frame \in Frames
    BY DEF Booking
  <2> QED
    BY <2>1, <2>2 DEF FramesOf
<1>3. \A i \in 1..Len(bot[c].pieces) : bot[c].pieces[i] \in Seq(Booking)
  BY <1>1
<1>4. Left(bot[c].rest, bot[c].pieces) \subseteq Frames
  BY <1>1, <1>2, <1>3 DEF Left
<1>5. IsFiniteSet(Left(bot[c].rest, bot[c].pieces))
  BY <1>4, CommitAssumption, FS_Subset
<1> QED
  BY <1>5, FS_CardinalityType

\* A sequence has at most as many frames as places.
LEMMA FramesOfLength ==
    ASSUME NEW s \in Seq(Booking)
    PROVE  Cardinality(FramesOf(s)) <= Len(s) /\ Cardinality(FramesOf(s)) \in Nat
<1> DEFINE f == [i \in 1..Len(s) |-> s[i].frame]
<1>1. f \in Surjection(1..Len(s), FramesOf(s))
  BY DEF Surjection, FramesOf
<1>2. Len(s) \in Nat /\ IsFiniteSet(1..Len(s))
  BY FS_Interval
<1> HIDE DEF f
<1>3. IsFiniteSet(FramesOf(s))
  BY <1>1, <1>2, FS_Surjection
<1> QED
  BY <1>1, <1>2, <1>3, FS_SurjCardinalityBound, FS_CardinalityType DEF ExistsSurjection

\* A step of one tick that adds nothing to the folder keeps the cap, if what the
\* tick counts on still holds when it has the lock.
LEMMA CapStep ==
    ASSUME CapInv, CommitInv', NEW c \in Cuebots,
           \A d \in Cuebots : d # c => bot'[d] = bot[d],
           folder' <= folder, unlocked' = unlocked,
           lock' \in {lock, NoCuebot, c},
           ~unlocked /\ lock' = c => Counted(c)'
    PROVE  CapInv'
<1> SUFFICES ASSUME ~unlocked PROVE Capped'
  BY DEF CapInv, Capped
<1>1. folder \in Nat /\ folder' \in Nat /\ FolderMax \in Nat /\ folder <= FolderMax
      /\ NoCuebot \notin Cuebots
  BY CommitAssumption DEF CapInv, CommitInv, TypeOK, Capped
<1>2. ASSUME NEW d \in Cuebots, lock' = d, d # c PROVE Counted(d)'
  <2>1. lock = d /\ bot'[d] = bot[d]
    BY <1>1, <1>2
  <2>2. Counted(d)
    BY <2>1 DEF CapInv, Capped
  <2>3. Cardinality(Left(bot[d].rest, bot[d].pieces)) \in Nat /\ bot[d].seed \in Nat
    BY LeftFinite DEF CapInv, CommitInv, TypeOK, Bot
  <2> QED
    BY <1>1, <2>1, <2>2, <2>3 DEF Counted
<1>3. folder' <= FolderMax
  BY <1>1
<1> QED
  BY <1>2, <1>3 DEF Capped

\* A step inside a tick that leaves no more to commit.
LEMMA CapLess ==
    ASSUME CapInv, CommitInv', NEW c \in Cuebots, Less(c),
           UNCHANGED <<folder, unlocked, lock>>,
           bot[c].pc \in {"chunk", "commit", "split"}
    PROVE  CapInv'
<1> DEFINE L == Left(bot[c].rest, bot[c].pieces)
           M == Left(bot'[c].rest, bot'[c].pieces)
<1>1. IsFiniteSet(L) /\ Cardinality(L) \in Nat /\ folder \in Nat /\ FolderMax \in Nat
  BY LeftFinite, CommitAssumption DEF CapInv, CommitInv, TypeOK
<1>2. M \subseteq L
  BY DEF Less
<1> HIDE DEF L, M
<1>3. Cardinality(M) <= Cardinality(L) /\ Cardinality(M) \in Nat
  BY <1>1, <1>2, FS_Subset, FS_CardinalityType
<1>4. ASSUME ~unlocked, lock = c PROVE Counted(c)'
  <2>1. folder + Cardinality(L) <= FolderMax
    BY <1>4 DEF CapInv, Capped, Counted, L
  <2>2. folder + Cardinality(M) <= FolderMax
    BY <1>1, <1>3, <2>1
  <2>3. bot'[c].pc # "plan" /\ folder' = folder
    BY DEF Less
  <2> QED
    BY <2>2, <2>3 DEF Counted, M
<1>5. \A d \in Cuebots : d # c => bot'[d] = bot[d]
  BY DEF Less
<1> QED
  BY <1>1, <1>4, <1>5, CapStep

\* A commit moves frames from what is left to the folder.
LEMMA CommitPieceCap ==
    ASSUME CapInv, NEW c \in Cuebots, CommitPiece(c)
    PROVE  CapInv'
<1> DEFINE piece == Head(bot[c].pieces)
           won == Won(piece)
           W == {b.frame : b \in won}
           L == Left(bot[c].rest, bot[c].pieces)
           M == Left(bot'[c].rest, bot'[c].pieces)
<1>1. /\ CommitInv' /\ M \subseteq L
      /\ FramesOf(piece) \subseteq L /\ FramesOf(piece) \cap M = {}
  BY CommitPieceInv DEF CapInv, Less
<1>2. /\ bot \in [Cuebots -> Bot] /\ folder \in Nat /\ folder' \in Nat /\ FolderMax \in Nat
      /\ bot[c].pc = "commit"
      /\ folder' <= folder + Cardinality(won)
  BY <1>1, CommitRows, CommitAssumption DEF CapInv, CommitInv, TypeOK, CommitPiece
<1>3. /\ \A d \in Cuebots : d # c => bot'[d] = bot[d]
      /\ lock' = lock
      /\ unlocked' = (unlocked \/ (won # {} /\ lock # c))
      /\ bot'[c].pc \in {"chunk", "commit"}
  BY <1>2 DEF CommitPiece, Next_
<1>4. /\ won \subseteq Booking /\ IsFiniteSet(won) /\ Once(won) /\ Cardinality(won) \in Nat
      /\ \A b \in won : b.frame \in FramesOf(piece)
  <2>1. piece \in Seq(Booking) /\ Distinct(piece)
    <3>1. /\ bot[c].rest \in Seq(Booking) /\ bot[c].pieces \in Seq(Seq(Booking))
          /\ bot[c].pieces # <<>> /\ Apart(bot[c].rest, bot[c].pieces)
      BY <1>2 DEF CapInv, CommitInv, TypeOK, Bot, Work
    <3> QED
      BY <3>1, ApartTail
  <2> QED
    BY <2>1, WonType DEF CapInv
<1>5. IsFiniteSet(L) /\ Cardinality(L) \in Nat
  BY LeftFinite DEF CapInv, CommitInv
<1> HIDE DEF piece, won, L, M
<1>6. CASE unlocked'
  BY <1>1, <1>6 DEF CapInv, Capped
<1>7. CASE ~unlocked' /\ lock # c
  <2>1. won = {} /\ Cardinality(won) = 0
    BY <1>3, <1>7, FS_EmptySet
  <2>2. folder' <= folder
    BY <1>2, <2>1
  <2>3. unlocked' = unlocked
    <3>1. unlocked \in BOOLEAN /\ unlocked' \in BOOLEAN
      BY <1>1 DEF CapInv, CommitInv, TypeOK
    <3> QED
      BY <1>3, <1>7, <3>1, Zenon
  <2> QED
    BY <1>1, <1>3, <1>7, <2>2, <2>3, CapStep
<1>8. CASE ~unlocked' /\ lock = c
  <2>1. folder + Cardinality(L) <= FolderMax
    BY <1>2, <1>3, <1>8 DEF CapInv, Capped, Counted, L
  <2>2. IsFiniteSet(W) /\ Cardinality(W) = Cardinality(won) /\ W \subseteq FramesOf(piece)
    BY <1>4, AsManyProcs
  <2> HIDE DEF W
  <2>3. IsFiniteSet(M) /\ Cardinality(M) \in Nat
    BY <1>1, <1>5, FS_Subset, FS_CardinalityType
  <2>4. W \cap M = {} /\ W \cup M \subseteq L
    BY <1>1, <2>2
  <2>5. Cardinality(W \cup M) = Cardinality(W) + Cardinality(M)
    <3>1. Cardinality(W \cap M) = 0
      BY <2>4, FS_EmptySet
    <3>2. Cardinality(W \cup M) = Cardinality(W) + Cardinality(M) - Cardinality(W \cap M)
      BY <2>2, <2>3, FS_Union
    <3> QED
      BY <1>4, <2>2, <2>3, <3>1, <3>2
  <2>6. Cardinality(W \cup M) <= Cardinality(L)
    BY <1>5, <2>4, FS_Subset
  <2>7. folder' + Cardinality(M) <= FolderMax /\ folder' <= FolderMax
    BY <1>2, <1>4, <1>5, <2>1, <2>2, <2>3, <2>5, <2>6
  <2>8. Counted(c)'
    BY <1>3, <2>7 DEF Counted, M
  <2> QED
    BY <1>1, <1>3, <1>8, <2>7, <2>8 DEF CapInv, Capped
<1> QED
  BY <1>6, <1>7, <1>8

\* The trim leaves the plan as much room as the folder had at the start.
LEMMA PlanCap ==
    ASSUME CapInv, NEW c \in Cuebots, Plan(c)
    PROVE  CapInv'
<1>1. CommitInv'
  BY PlanInv DEF CapInv
<1>2. /\ bot \in [Cuebots -> Bot] /\ folder \in Nat /\ FolderMax \in Nat
      /\ bot[c].seed \in Nat /\ bot[c].pc = "plan" /\ bot[c].pieces = <<>>
  BY CommitAssumption DEF CapInv, CommitInv, TypeOK, Bot, Work, Plan
<1>3. PICK s \in Plans :
        LET plan == Trimmed(s, bot[c].seed)
        IN  bot' = [bot EXCEPT ![c].pc = "chunk", ![c].rest = plan,
                               ![c].seed = 0, ![c].planned = Bookings(plan)]
  BY DEF Plan
<1> DEFINE plan == Trimmed(s, bot[c].seed)
<1>4. /\ plan \in Seq(Booking)
      /\ Len(plan) <= (IF bot[c].seed < FolderMax THEN FolderMax - bot[c].seed ELSE 0)
  BY <1>2, PlansType, TrimmedType DEF CapInv, CommitInv
<1> HIDE DEF plan
<1>5. /\ bot'[c].rest = plan /\ bot'[c].pieces = <<>> /\ bot'[c].pc = "chunk"
      /\ \A d \in Cuebots : d # c => bot'[d] = bot[d]
  BY <1>2, <1>3 DEF plan, Bot
<1>6. UNCHANGED <<folder, lock, unlocked>>
  BY DEF Plan, rows
<1>7. ASSUME ~unlocked, lock = c PROVE Counted(c)'
  <2>1. folder <= bot[c].seed /\ folder <= FolderMax
    BY <1>2, <1>7 DEF CapInv, Capped, Counted
  <2>2. Left(plan, <<>>) = FramesOf(plan) /\ Cardinality(FramesOf(plan)) <= Len(plan)
    BY <1>4, NothingLeft, FramesOfLength
  <2>3. Cardinality(FramesOf(plan)) \in Nat /\ Len(plan) \in Nat
    BY <1>4, FramesOfLength
  <2>4. folder + Cardinality(FramesOf(plan)) <= FolderMax
    BY <1>2, <1>4, <2>1, <2>2, <2>3
  <2> QED
    BY <1>5, <1>6, <2>2, <2>4 DEF Counted
<1> QED
  BY <1>1, <1>2, <1>5, <1>6, <1>7, CapStep

\* A tick begins: it counts from the usage it has read.
LEMMA TickStartCap ==
    ASSUME CapInv, NEW c \in Cuebots, TickStart(c)
    PROVE  CapInv'
<1>1. CommitInv'
  BY TickStartInv DEF CapInv
<1>2. bot \in [Cuebots -> Bot] /\ folder \in Nat
  BY DEF CapInv, CommitInv, TypeOK
<1>3. /\ bot'[c].pc = "plan" /\ bot'[c].seed = folder
      /\ \A d \in Cuebots : d # c => bot'[d] = bot[d]
      /\ UNCHANGED <<folder, unlocked>> /\ lock' = c
  BY <1>2 DEF TickStart, Fresh, rows
<1>4. Counted(c)'
  BY <1>2, <1>3 DEF Counted
<1> QED
  BY <1>1, <1>2, <1>3, <1>4, CapStep

\* The steps of a tick or a Cuebot that end its use of the lock, or wait for it.
LEMMA IdleCap ==
    ASSUME CapInv, NEW c \in Cuebots,
           \/ Standby(c) \/ Demoted(c) \/ TickEnds(c)
           \/ SessionLost(c) \/ Crash(c) \/ ShutdownReleases(c)
    PROVE  CapInv'
<1>1. CommitInv'
  BY StandbyInv, EndedInv, CrashInv DEF CapInv
<1>2. bot \in [Cuebots -> Bot] /\ folder \in Nat /\ NoCuebot \notin Cuebots
  BY CommitAssumption DEF CapInv, CommitInv, TypeOK
<1>3. UNCHANGED <<folder, unlocked>> /\ \A d \in Cuebots : d # c => bot'[d] = bot[d]
  BY <1>2 DEF Standby, Demoted, TickEnds, Ended, SessionLost, Crash, ShutdownReleases, rows
<1>4. CASE TickEnds(c)
  <2>1. lock' = lock /\ bot'[c].pc = "idle"
    BY <1>2, <1>4, FreshType DEF TickEnds, Ended, Fresh
  <2>2. Counted(c)'
    BY <2>1 DEF Counted
  <2> QED
    BY <1>1, <1>2, <1>3, <2>1, <2>2, CapStep
<1>5. CASE \/ Standby(c) \/ Demoted(c) \/ SessionLost(c) \/ Crash(c) \/ ShutdownReleases(c)
  <2>1. lock' \in {lock, NoCuebot} /\ lock' # c
    BY <1>2, <1>5 DEF Standby, Demoted, SessionLost, Crash, ShutdownReleases, Released
  <2> QED
    BY <1>1, <1>2, <1>3, <2>1, CapStep
<1> QED
  BY <1>4, <1>5

\* A mark changes nothing that is counted.
LEMMA ShutdownMarkedCap ==
    ASSUME CapInv, NEW c \in Cuebots, ShutdownMarked(c)
    PROVE  CapInv'
<1>1. CommitInv'
  BY StandbyInv DEF CapInv
<1>2. bot \in [Cuebots -> Bot] /\ folder \in Nat
  BY DEF CapInv, CommitInv, TypeOK
<1>3. /\ bot'[c].pc = bot[c].pc /\ bot'[c].seed = bot[c].seed
      /\ bot'[c].rest = bot[c].rest /\ bot'[c].pieces = bot[c].pieces
      /\ \A d \in Cuebots : d # c => bot'[d] = bot[d]
      /\ UNCHANGED <<folder, unlocked, lock>>
  BY <1>2 DEF ShutdownMarked, Bot, rows
<1>4. Counted(c) => Counted(c)'
  BY <1>3 DEF Counted
<1> QED
  BY <1>1, <1>2, <1>3, <1>4, CapStep DEF CapInv, Capped

\* What others do takes nothing from the room there is.
LEMMA EnvironmentCap ==
    ASSUME CapInv,
           \/ \E p \in procs : Completes(p) \/ LeavesCorpse(p) \/ CorpseReleased(p)
           \/ \E f \in Frames : Eaten(f)
    PROVE  CapInv'
<1>1. CommitInv'
  BY EnvironmentInv DEF CapInv
<1>2. folder \in Nat /\ folder' \in Nat /\ FolderMax \in Nat
  BY <1>1, CommitAssumption DEF CapInv, CommitInv, TypeOK
<1>3. UNCHANGED <<lock, bot, unlocked>> /\ folder' <= folder
  BY <1>2 DEF Completes, LeavesCorpse, CorpseReleased, Eaten, Freed
<1>4. ASSUME NEW c \in Cuebots, Counted(c) PROVE Counted(c)'
  <2>1. Cardinality(Left(bot[c].rest, bot[c].pieces)) \in Nat /\ bot[c].seed \in Nat
    BY LeftFinite DEF CapInv, CommitInv, TypeOK, Bot
  <2> QED
    BY <1>2, <1>3, <1>4, <2>1 DEF Counted
<1>5. Capped'
  BY <1>2, <1>3, <1>4 DEF CapInv, Capped
<1> QED
  BY <1>1, <1>5 DEF CapInv

\* The steps of a chunk that fails, is split or is dropped.
LEMMA LessCap ==
    ASSUME CapInv, NEW c \in Cuebots,
           NextChunk(c) \/ DropPiece(c) \/ SplitPiece(c) \/ PieceFails(c)
    PROVE  CapInv'
<1>1. CommitInv' /\ Less(c)
  BY NextChunkInv, DropPieceInv, SplitPieceInv, PieceFailsInv DEF CapInv
<1>2. UNCHANGED <<folder, unlocked, lock>>
  BY DEF NextChunk, DropPiece, SplitPiece, PieceFails, rows
<1>3. bot[c].pc \in {"chunk", "commit", "split"}
  BY DEF NextChunk, DropPiece, SplitPiece, PieceFails
<1> QED
  BY <1>1, <1>2, <1>3, CapLess

\* While only the holder of the planning lock commits, the folder keeps within
\* its cap, whatever the chunks, the splits and the runs that end meanwhile.
THEOREM FolderCapCorrect == Spec => []FolderCapHeld
<1>1. Init => CapInv
  <2> SUFFICES ASSUME Init PROVE CapInv
    OBVIOUS
  <2>1. folder = 0 /\ FolderMax \in Nat /\ NoCuebot \notin Cuebots /\ lock = NoCuebot
    BY CommitAssumption DEF Init
  <2> QED
    BY <2>1, CommitInit DEF CapInv, Capped
<1>2. CapInv /\ [Next]_vars => CapInv'
  <2> SUFFICES ASSUME CapInv, [Next]_vars PROVE CapInv'
    OBVIOUS
  <2>1. ASSUME UNCHANGED vars PROVE CapInv'
    <3>1. CommitInv'
      BY CommitStep DEF CapInv
    <3>2. UNCHANGED <<folder, lock, bot, unlocked>>
      BY <2>1 DEF vars, rows
    <3> QED
      BY <3>1, <3>2 DEF CapInv, Capped, Counted
  <2>2. ASSUME NEW c \in Cuebots, TickStep(c) PROVE CapInv'
    BY <2>2, IdleCap, TickStartCap, PlanCap, LessCap, CommitPieceCap DEF TickStep
  <2>3. ASSUME NEW c \in Cuebots,
               SessionLost(c) \/ Crash(c) \/ ShutdownMarked(c) \/ ShutdownReleases(c)
        PROVE  CapInv'
    BY <2>3, IdleCap, ShutdownMarkedCap
  <2> QED
    BY <2>1, <2>2, <2>3, EnvironmentCap DEF Next
<1>3. CapInv => FolderCapHeld
  BY DEF CapInv, Capped, FolderCapHeld
<1> QED
  BY <1>1, <1>2, <1>3, PTL DEF Spec
(***************************************************************************)
(* A failing piece costs the others nothing.  While the holder of the lock *)
(* alone commits, nobody takes the cores its plan counts on: a piece wins  *)
(* whatever the rows have not overtaken.  A piece that fails keeps as many *)
(* bookings as it had, with other versions; what is dropped was in one.    *)
(***************************************************************************)

BookingsLeft(rest, pieces) ==
    Bookings(rest) \cup UNION {Bookings(pieces[i]) : i \in 1..Len(pieces)}

LeftOf(c) == BookingsLeft(bot[c].rest, bot[c].pieces)

\* The row of a booking has moved on since it was planned.
Overtaken(b) == frame[b.frame].ver # b.ver \/ frame[b.frame].state # "WAITING"

\* A tick can afford what is before it, and has all it planned before it, behind
\* it, or in a piece that failed.
Contained(c) ==
    /\ IsFiniteSet(LeftOf(c))
    /\ \A h \in Hosts : Cardinality(OnHost(h, LeftOf(c))) <= idle[h]
    /\ \A b \in bot[c].planned :
         /\ b.ver <= frame[b.frame].ver
         /\ b \in LeftOf(c) \/ Overtaken(b) \/ b.frame \in bot[c].failed
    /\ bot[c].pc = "split" => FramesIn(Head(bot[c].pieces)) \subseteq bot[c].failed

\* The tick of the holder of the lock, after its plan, and nobody else commits.
Holds(c) == lock = c /\ ~unlocked /\ bot[c].pc \in {"chunk", "commit", "split"}

Steady == \A c \in Cuebots : Holds(c) => Contained(c)

SteadyInv == CommitInv /\ Steady

\* The bookings of a sequence are its elements.
LEMMA BookingsOf ==
    ASSUME NEW s \in Seq(Booking)
    PROVE  Bookings(s) = {s[i] : i \in 1..Len(s)}
<1>1. DOMAIN s = 1..Len(s)
  OBVIOUS
<1> QED
  BY <1>1 DEF Bookings, ToSet

\* What is left is in the rest or in a piece.
LEMMA InLeft ==
    ASSUME NEW rest, NEW pieces, NEW b
    PROVE  b \in BookingsLeft(rest, pieces)
             <=> \/ b \in Bookings(rest)
                 \/ \E i \in 1..Len(pieces) : b \in Bookings(pieces[i])
BY DEF BookingsLeft

\* The bookings of a sequence are those of its two halves.
LEMMA BookingsHalves ==
    ASSUME NEW s \in Seq(Booking), NEW n \in 0..Len(s)
    PROVE  Bookings(s) = Bookings(SubSeq(s, 1, n)) \cup Bookings(SubSeq(s, n + 1, Len(s)))
<1> DEFINE l == SubSeq(s, 1, n)
           r == SubSeq(s, n + 1, Len(s))
<1>1. l \in Seq(Booking) /\ Len(l) = n /\ \A i \in 1..n : l[i] = s[i]
  OBVIOUS
<1>2. r \in Seq(Booking) /\ Len(r) = Len(s) - n /\ \A i \in 1..(Len(s) - n) : r[i] = s[n + i]
  OBVIOUS
<1> HIDE DEF l, r
<1>3. /\ Bookings(s) = {s[i] : i \in 1..Len(s)}
      /\ Bookings(l) = {l[i] : i \in 1..Len(l)}
      /\ Bookings(r) = {r[i] : i \in 1..Len(r)}
  BY <1>1, <1>2, BookingsOf
<1>4. Bookings(l) \subseteq Bookings(s)
  BY <1>1, <1>3
<1>5. Bookings(r) \subseteq Bookings(s)
  <2>1. \A i \in 1..Len(r) : n + i \in 1..Len(s) /\ r[i] = s[n + i]
    BY <1>2
  <2> QED
    BY <1>3, <2>1
<1>6. ASSUME NEW i \in 1..Len(s) PROVE s[i] \in Bookings(l) \cup Bookings(r)
  <2>1. CASE i <= n
    BY <1>1, <1>3, <2>1
  <2>2. CASE i > n
    <3>1. i - n \in 1..Len(r) /\ r[i - n] = s[i]
      BY <1>2, <2>2
    <3> QED
      BY <1>3, <3>1
  <2> QED
    BY <2>1, <2>2
<1> QED
  BY <1>3, <1>4, <1>5, <1>6 DEF l, r

\* What is left, and what its first piece takes with it.
LEMMA BookingsTail ==
    ASSUME NEW rest \in Seq(Booking), NEW pieces \in Seq(Seq(Booking)),
           pieces # <<>>, Apart(rest, pieces)
    PROVE  /\ BookingsLeft(rest, pieces)
                = Bookings(Head(pieces)) \cup BookingsLeft(rest, Tail(pieces))
           /\ Bookings(Head(pieces)) \cap BookingsLeft(rest, Tail(pieces)) = {}
<1> DEFINE t == Tail(pieces)
<1>1. /\ 1 \in 1..Len(pieces) /\ Head(pieces) = pieces[1]
      /\ t \in Seq(Seq(Booking)) /\ Len(t) = Len(pieces) - 1
      /\ \A i \in 1..Len(t) : t[i] = pieces[i + 1] /\ i + 1 \in 1..Len(pieces)
      /\ \A i \in 1..Len(pieces) : i # 1 => i - 1 \in 1..Len(t) /\ pieces[i] = t[i - 1]
  OBVIOUS
<1> HIDE DEF t
<1>2. ASSUME NEW b, b \in BookingsLeft(rest, pieces)
      PROVE  b \in Bookings(pieces[1]) \cup BookingsLeft(rest, t)
  <2>1. CASE b \in Bookings(rest)
    BY <2>1, InLeft
  <2>2. ASSUME NEW i \in 1..Len(pieces), b \in Bookings(pieces[i]), i # 1
        PROVE  b \in BookingsLeft(rest, t)
    <3>1. i - 1 \in 1..Len(t) /\ b \in Bookings(t[i - 1])
      BY <1>1, <2>2
    <3> QED
      BY <3>1, InLeft
  <2> QED
    BY <1>2, <2>1, <2>2, InLeft
<1>3. ASSUME NEW b, b \in Bookings(pieces[1]) \cup BookingsLeft(rest, t)
      PROVE  b \in BookingsLeft(rest, pieces)
  <2>1. CASE b \in Bookings(pieces[1]) \/ b \in Bookings(rest)
    BY <1>1, <2>1, InLeft
  <2>2. ASSUME NEW i \in 1..Len(t), b \in Bookings(t[i])
        PROVE  b \in BookingsLeft(rest, pieces)
    <3>1. i + 1 \in 1..Len(pieces) /\ b \in Bookings(pieces[i + 1])
      BY <1>1, <2>2
    <3> QED
      BY <3>1, InLeft
  <2> QED
    BY <1>3, <2>1, <2>2, InLeft
<1>4. ASSUME NEW b \in Bookings(pieces[1]), b \in BookingsLeft(rest, t) PROVE FALSE
  <2>1. \A s \in Seq(Booking) : \A x \in Bookings(s) : x.frame \in FramesOf(s)
    BY DEF Bookings, ToSet, FramesOf
  <2>2. pieces[1] \in Seq(Booking) /\ \A i \in 1..Len(t) : t[i] \in Seq(Booking)
    BY <1>1
  <2>3. b.frame \in FramesOf(pieces[1])
    BY <2>1, <2>2
  <2>4. b.frame \in Left(rest, t)
    BY <1>4, <2>1, <2>2 DEF BookingsLeft, Left
  <2> QED
    BY <1>1, <2>3, <2>4, ApartTail DEF t
<1> QED
  BY <1>1, <1>2, <1>3, <1>4 DEF t

\* Two elements put before a sequence move its own by two places.
LEMMA PairAhead ==
    ASSUME NEW S, NEW l \in S, NEW r \in S, NEW t \in Seq(S)
    PROVE  LET new == <<l, r>> \o t
           IN  /\ Len(new) = Len(t) + 2 /\ new[1] = l /\ new[2] = r
               /\ \A i \in 1..Len(t) : i + 2 \in 1..Len(new) /\ new[i + 2] = t[i]
               /\ \A i \in 1..Len(new) :
                    i # 1 /\ i # 2 => i - 2 \in 1..Len(t) /\ new[i] = t[i - 2]
<1> DEFINE two == <<l, r>>
           new == two \o t
<1>1. two \in Seq(S) /\ Len(two) = 2 /\ two[1] = l /\ two[2] = r
  OBVIOUS
<1> HIDE DEF two
<1>2. Len(t) \in Nat
  OBVIOUS
<1>3. /\ Len(new) = Len(t) + 2
      /\ \A i \in 1..(Len(t) + 2) :
           new[i] = IF i <= 2 THEN two[i] ELSE t[i - 2]
  <2>1. /\ Len(two \o t) = Len(two) + Len(t)
        /\ \A i \in 1..(Len(two) + Len(t)) :
             (two \o t)[i] = IF i <= Len(two) THEN two[i] ELSE t[i - Len(two)]
    BY <1>1, ConcatProperties, Zenon
  <2> HIDE DEF new
  <2>2. Len(two) + Len(t) = Len(t) + 2
    BY <1>1, <1>2
  <2>3. /\ Len(new) = Len(t) + 2
        /\ \A i \in 1..(Len(t) + 2) :
             new[i] = IF i <= Len(two) THEN two[i] ELSE t[i - Len(two)]
    BY <2>1, <2>2, Zenon DEF new
  <2> QED
    BY <1>1, <2>3, Zenon
<1> HIDE DEF new
<1>4. new[1] = l /\ new[2] = r
  <2>1. 1 \in 1..(Len(t) + 2) /\ 2 \in 1..(Len(t) + 2)
    BY <1>2
  <2> QED
    BY <1>1, <1>3, <2>1
<1>5. ASSUME NEW i \in 1..Len(t)
      PROVE  i + 2 \in 1..Len(new) /\ new[i + 2] = t[i]
  <2>1. i + 2 \in 1..(Len(t) + 2) /\ ~(i + 2 <= 2) /\ (i + 2) - 2 = i
    BY <1>2
  <2> QED
    BY <1>3, <2>1
<1>6. ASSUME NEW i \in 1..Len(new), i # 1, i # 2
      PROVE  i - 2 \in 1..Len(t) /\ new[i] = t[i - 2]
  <2>1. i \in 1..(Len(t) + 2)
    BY <1>3
  <2>2. ~(i <= 2) /\ i - 2 \in 1..Len(t)
    BY <1>2, <1>6, <2>1
  <2> QED
    BY <1>3, <2>1, <2>2
<1> QED
  BY <1>3, <1>4, <1>5, <1>6 DEF new, two

\* Splitting the first piece leaves the same bookings.
LEMMA BookingsSplit ==
    ASSUME NEW rest \in Seq(Booking), NEW pieces \in Seq(Seq(Booking)),
           pieces # <<>>, Apart(rest, pieces), NEW n \in 0..Len(Head(pieces))
    PROVE  LET new == <<SubSeq(Head(pieces), 1, n),
                        SubSeq(Head(pieces), n + 1, Len(Head(pieces)))>>
                      \o Tail(pieces)
           IN  BookingsLeft(rest, new) = BookingsLeft(rest, pieces)
<1> DEFINE h == Head(pieces)
           l == SubSeq(h, 1, n)
           r == SubSeq(h, n + 1, Len(h))
           t == Tail(pieces)
           new == <<l, r>> \o t
<1>1. h \in Seq(Booking) /\ t \in Seq(Seq(Booking))
  OBVIOUS
<1>2. l \in Seq(Booking) /\ r \in Seq(Booking)
  BY <1>1
<1>3. Bookings(h) = Bookings(l) \cup Bookings(r)
  BY <1>1, BookingsHalves
<1> HIDE DEF h, l, r, t
<1>4. /\ Len(new) = Len(t) + 2 /\ new[1] = l /\ new[2] = r
      /\ \A i \in 1..Len(t) : i + 2 \in 1..Len(new) /\ new[i + 2] = t[i]
      /\ \A i \in 1..Len(new) :
           i # 1 /\ i # 2 => i - 2 \in 1..Len(t) /\ new[i] = t[i - 2]
  BY <1>1, <1>2, PairAhead
<1> HIDE DEF new
<1>5. 1 \in 1..Len(new) /\ 2 \in 1..Len(new)
  BY <1>1, <1>4
<1>6. ASSUME NEW b, b \in BookingsLeft(rest, new)
      PROVE  b \in Bookings(l) \cup Bookings(r) \cup BookingsLeft(rest, t)
  <2>1. CASE b \in Bookings(rest)
    BY <2>1, InLeft
  <2>2. ASSUME NEW i \in 1..Len(new), b \in Bookings(new[i]), i # 1, i # 2
        PROVE  b \in BookingsLeft(rest, t)
    <3>1. i - 2 \in 1..Len(t) /\ b \in Bookings(t[i - 2])
      BY <1>4, <2>2
    <3> QED
      BY <3>1, InLeft
  <2> QED
    BY <1>4, <1>6, <2>1, <2>2, InLeft
<1>7. ASSUME NEW b, b \in Bookings(l) \cup Bookings(r) \cup BookingsLeft(rest, t)
      PROVE  b \in BookingsLeft(rest, new)
  <2>1. CASE b \in Bookings(l) \/ b \in Bookings(r) \/ b \in Bookings(rest)
    BY <1>4, <1>5, <2>1, InLeft
  <2>2. ASSUME NEW i \in 1..Len(t), b \in Bookings(t[i])
        PROVE  b \in BookingsLeft(rest, new)
    <3>1. i + 2 \in 1..Len(new) /\ b \in Bookings(new[i + 2])
      BY <1>4, <2>2
    <3> QED
      BY <3>1, InLeft
  <2> QED
    BY <1>7, <2>1, <2>2, InLeft
<1>8. BookingsLeft(rest, pieces) = Bookings(h) \cup BookingsLeft(rest, t)
  BY BookingsTail DEF h, t
<1> QED
  BY <1>3, <1>6, <1>7, <1>8 DEF new, l, r, h, t

\* What is left on a host is finitely many bookings.
LEMMA LeftCounted ==
    ASSUME NEW c \in Cuebots, IsFiniteSet(LeftOf(c)), NEW h, NEW S, S \subseteq LeftOf(c)
    PROVE  /\ IsFiniteSet(OnHost(h, S)) /\ Cardinality(OnHost(h, S)) \in Nat
           /\ Cardinality(OnHost(h, S)) <= Cardinality(OnHost(h, LeftOf(c)))
           /\ Cardinality(OnHost(h, LeftOf(c))) \in Nat
<1>1. OnHost(h, S) \subseteq OnHost(h, LeftOf(c)) /\ OnHost(h, LeftOf(c)) \subseteq LeftOf(c)
  BY DEF OnHost
<1>2. IsFiniteSet(OnHost(h, LeftOf(c)))
  BY <1>1, FS_Subset
<1> QED
  BY <1>1, <1>2, FS_Subset, FS_CardinalityType

\* A row only moves on.
MovesOn == \A f \in Frames : frame'[f] = frame[f] \/ frame'[f].ver > frame[f].ver

\* What has overtaken a booking stays ahead of it.
LEMMA OvertakenStays ==
    ASSUME TypeOK, TypeOK', MovesOn, NEW b \in Booking, b.ver <= frame[b.frame].ver
    PROVE  /\ b.ver <= frame'[b.frame].ver
           /\ Overtaken(b) => Overtaken(b)'
<1>1. /\ b.frame \in Frames /\ b.ver \in Nat
      /\ frame[b.frame].ver \in Nat /\ frame'[b.frame].ver \in Nat
  BY DEF TypeOK, Booking
<1>2. CASE frame'[b.frame] = frame[b.frame]
  BY <1>2 DEF Overtaken
<1>3. CASE frame'[b.frame].ver > frame[b.frame].ver
  <2>1. b.ver < frame'[b.frame].ver
    BY <1>1, <1>3
  <2> QED
    BY <1>1, <2>1 DEF Overtaken
<1> QED
  BY <1>1, <1>2, <1>3 DEF MovesOn

\* A step that takes no idle cores, and gives up only what has failed.
LEMMA ContainedStep ==
    ASSUME TypeOK, TypeOK', NEW c \in Cuebots, Contained(c), MovesOn,
           \A h \in Hosts : idle[h] <= idle'[h],
           IsFiniteSet(LeftOf(c)'),
           \A h \in Hosts :
             Cardinality(OnHost(h, LeftOf(c)')) <= Cardinality(OnHost(h, LeftOf(c))),
           bot'[c].planned = bot[c].planned, bot[c].failed \subseteq bot'[c].failed,
           \A b \in LeftOf(c) : b \in LeftOf(c)' \/ b.frame \in bot'[c].failed,
           bot'[c].pc = "split" =>
             FramesIn(Head(bot'[c].pieces)) \subseteq bot'[c].failed
    PROVE  Contained(c)'
<1>1. ASSUME NEW h \in Hosts PROVE Cardinality(OnHost(h, LeftOf(c)')) <= idle'[h]
  <2>1. /\ Cardinality(OnHost(h, LeftOf(c))) <= idle[h]
        /\ idle[h] \in Nat /\ idle'[h] \in Nat
    BY DEF Contained, TypeOK
  <2>2. OnHost(h, LeftOf(c)) \subseteq LeftOf(c) /\ OnHost(h, LeftOf(c)') \subseteq LeftOf(c)'
    BY DEF OnHost
  <2>3. /\ Cardinality(OnHost(h, LeftOf(c))) \in Nat
        /\ Cardinality(OnHost(h, LeftOf(c)')) \in Nat
    BY <2>2, FS_Subset, FS_CardinalityType DEF Contained
  <2>4. Cardinality(OnHost(h, LeftOf(c)')) <= Cardinality(OnHost(h, LeftOf(c)))
    OBVIOUS
  <2> QED
    BY <2>1, <2>3, <2>4
<1>2. ASSUME NEW b \in bot'[c].planned
      PROVE  /\ b.ver <= frame'[b.frame].ver
             /\ b \in LeftOf(c)' \/ Overtaken(b)' \/ b.frame \in bot'[c].failed
  <2>1. b \in Booking /\ b \in bot[c].planned
    BY DEF TypeOK, Bot
  <2>2. /\ b.ver <= frame[b.frame].ver
        /\ b \in LeftOf(c) \/ Overtaken(b) \/ b.frame \in bot[c].failed
    BY <2>1 DEF Contained
  <2> QED
    BY <2>1, <2>2, OvertakenStays
<1>3. \A h \in Hosts : Cardinality(OnHost(h, LeftOf(c))') <= idle'[h]
  BY <1>1 DEF OnHost
<1>4. bot'[c].pc = "split" => FramesIn(Head(bot[c].pieces))' \subseteq bot'[c].failed
  BY DEF FramesIn, Bookings
<1> QED
  BY <1>2, <1>3, <1>4 DEF Contained

\* Rows that nobody writes have moved on, and keep their idle cores.
LEMMA RowsStay ==
    ASSUME TypeOK, UNCHANGED <<frame, idle>>
    PROVE  MovesOn /\ \A h \in Hosts : idle[h] <= idle'[h]
BY DEF MovesOn, TypeOK

\* What a Cuebot has in hand stays contained when others move on and give back.
LEMMA OthersContained ==
    ASSUME TypeOK, TypeOK', NEW c \in Cuebots, Contained(c), MovesOn,
           \A h \in Hosts : idle[h] <= idle'[h],
           /\ bot'[c].rest = bot[c].rest /\ bot'[c].pieces = bot[c].pieces
           /\ bot'[c].pc = bot[c].pc /\ bot'[c].planned = bot[c].planned
           /\ bot'[c].failed = bot[c].failed
    PROVE  Contained(c)'
<1>1. LeftOf(c)' = LeftOf(c)
  BY DEF LeftOf
<1>2. \A h \in Hosts : Cardinality(OnHost(h, LeftOf(c))) \in Nat
  BY LeftCounted DEF Contained
<1>3. \A h \in Hosts :
        Cardinality(OnHost(h, LeftOf(c)')) <= Cardinality(OnHost(h, LeftOf(c)))
  BY <1>1, <1>2
<1>4. bot'[c].pc = "split" => FramesIn(Head(bot'[c].pieces)) \subseteq bot'[c].failed
  BY DEF Contained
<1>5. IsFiniteSet(LeftOf(c)')
  BY <1>1 DEF Contained
<1> QED
  BY <1>1, <1>3, <1>4, <1>5, ContainedStep

\* A step of one Cuebot that writes no rows and gives nobody else the lock.
LEMMA SteadyStep ==
    ASSUME SteadyInv, CommitInv', NEW c \in Cuebots, UNCHANGED <<rows, unlocked>>,
           \A d \in Cuebots : d # c => bot'[d] = bot[d],
           lock' \in {lock, c, NoCuebot},
           Holds(c)' => Contained(c)'
    PROVE  SteadyInv'
<1> SUFFICES ASSUME NEW d \in Cuebots, d # c, Holds(d)' PROVE Contained(d)'
  BY DEF SteadyInv, Steady
<1>1. bot'[d] = bot[d] /\ UNCHANGED <<frame, idle>>
  BY DEF rows
<1>2. lock = d
  BY CommitAssumption DEF Holds
<1>3. Contained(d)
  BY <1>1, <1>2 DEF SteadyInv, Steady, Holds
<1>4. TypeOK /\ TypeOK'
  BY DEF SteadyInv, CommitInv
<1> QED
  BY <1>1, <1>3, <1>4, RowsStay, OthersContained

\* Between ticks nothing is in hand, and a lock that goes protects nobody.
LEMMA IdleSteady ==
    ASSUME SteadyInv, CommitInv', NEW c \in Cuebots,
           \/ Standby(c) \/ TickStart(c) \/ Demoted(c) \/ TickEnds(c)
           \/ SessionLost(c) \/ Crash(c) \/ ShutdownReleases(c)
    PROVE  SteadyInv'
<1>1. bot \in [Cuebots -> Bot] /\ NoCuebot \notin Cuebots
  BY CommitAssumption DEF SteadyInv, CommitInv, TypeOK
<1>2. UNCHANGED <<rows, unlocked>>
  BY DEF Standby, TickStart, Demoted, TickEnds, SessionLost, Crash, ShutdownReleases
<1>3. \A d \in Cuebots : d # c => bot'[d] = bot[d]
  BY <1>1 DEF Standby, TickStart, Demoted, TickEnds, Ended, SessionLost, Crash,
              ShutdownReleases
<1>4. CASE Standby(c) \/ Demoted(c) \/ SessionLost(c) \/ Crash(c) \/ ShutdownReleases(c)
  <2>1. lock' \in {lock, NoCuebot} /\ lock' # c
    BY <1>1, <1>4 DEF Standby, Demoted, SessionLost, Crash, ShutdownReleases, Released
  <2> QED
    BY <1>2, <1>3, <2>1, SteadyStep DEF Holds
<1>5. CASE TickEnds(c)
  <2>1. lock' = lock /\ bot'[c].pc = "idle"
    BY <1>1, <1>5, FreshType DEF TickEnds, Ended, Fresh
  <2> QED
    BY <1>2, <1>3, <2>1, SteadyStep DEF Holds
<1>6. CASE TickStart(c)
  <2>1. lock' = c /\ bot'[c].pc = "plan"
    <3> DEFINE b == [Fresh EXCEPT !.pc = "plan", !.conn = TRUE, !.seed = folder,
                                  !.misses = bot[c].misses, !.splits = SplitMaxTx]
    <3>1. bot' = [bot EXCEPT ![c] = b] /\ lock' = c
      BY <1>6 DEF TickStart
    <3>2. b.pc = "plan"
      BY FreshType DEF Bot
    <3> HIDE DEF b
    <3> QED
      BY <1>1, <3>1, <3>2
  <2> QED
    BY <1>2, <1>3, <2>1, SteadyStep DEF Holds
<1> QED
  BY <1>4, <1>5, <1>6

\* A mark changes nothing that a tick has in hand.
LEMMA ShutdownMarkedSteady ==
    ASSUME SteadyInv, CommitInv', NEW c \in Cuebots, ShutdownMarked(c)
    PROVE  SteadyInv'
<1>1. TypeOK /\ TypeOK' /\ bot \in [Cuebots -> Bot]
  BY DEF SteadyInv, CommitInv, TypeOK
<1>2. /\ bot'[c].rest = bot[c].rest /\ bot'[c].pieces = bot[c].pieces
      /\ bot'[c].pc = bot[c].pc /\ bot'[c].planned = bot[c].planned
      /\ bot'[c].failed = bot[c].failed
      /\ \A d \in Cuebots : d # c => bot'[d] = bot[d]
      /\ UNCHANGED <<rows, unlocked, lock, frame, idle>>
  BY <1>1 DEF ShutdownMarked, Bot, rows
<1>3. Holds(c)' => Contained(c)'
  <2>1. Holds(c)' => Contained(c)
    BY <1>2 DEF Holds, SteadyInv, Steady
  <2>2. Contained(c) => Contained(c)'
    BY <1>1, <1>2, RowsStay, OthersContained
  <2> QED
    BY <2>1, <2>2
<1> QED
  BY <1>2, <1>3, SteadyStep

\* The plan fits the idle cores it was made from.
LEMMA PlanSteady ==
    ASSUME SteadyInv, CommitInv', NEW c \in Cuebots, Plan(c)
    PROVE  SteadyInv'
<1>1. /\ bot \in [Cuebots -> Bot] /\ bot[c].seed \in Nat /\ bot[c].pc = "plan"
      /\ bot[c].pieces = <<>> /\ TypeOK /\ idle \in [Hosts -> Nat]
      /\ frame \in [Frames -> [state : {"WAITING", "RUNNING", "ENDED"}, ver : Nat]]
  BY DEF SteadyInv, CommitInv, TypeOK, Bot, Plan, Work
<1>2. UNCHANGED <<rows, lock, unlocked>>
  BY DEF Plan
<1>3. PICK s \in Plans :
        LET plan == Trimmed(s, bot[c].seed)
        IN  bot' = [bot EXCEPT ![c].pc = "chunk", ![c].rest = plan,
                               ![c].seed = 0, ![c].planned = Bookings(plan)]
  BY DEF Plan
<1>4. /\ s \in Seq(Booking) /\ Distinct(s)
      /\ \A i \in 1..Len(s) : s[i].ver = frame[s[i].frame].ver
      /\ \A h \in Hosts : Cardinality({i \in 1..Len(s) : s[i].host = h}) <= idle[h]
  BY <1>1, PlansType
<1> DEFINE plan == Trimmed(s, bot[c].seed)
           n == Len(plan)
<1>5. /\ plan \in Seq(Booking) /\ n \in Nat /\ n <= Len(s)
      /\ \A i \in 1..n : i \in 1..Len(s) /\ plan[i] = s[i]
  <2> DEFINE room == IF bot[c].seed < FolderMax THEN FolderMax - bot[c].seed ELSE 0
             m == IF Len(s) < room THEN Len(s) ELSE room
  <2>1. room \in Nat
    BY <1>1, CommitAssumption
  <2>2. m \in 0..Len(s)
    BY <1>4, <2>1
  <2>3. plan = SubSeq(s, 1, m)
    BY DEF Trimmed
  <2> HIDE DEF m
  <2> QED
    BY <1>4, <2>2, <2>3
<1> HIDE DEF plan
<1>6. Bookings(plan) = {plan[i] : i \in 1..n} /\ IsFiniteSet(Bookings(plan))
  <2>1. Distinct(plan)
    BY <1>4, <1>5 DEF Distinct
  <2> QED
    BY <1>5, <2>1, BookingsOf, PieceBookings
<1>7. /\ bot'[c].pc = "chunk" /\ bot'[c].rest = plan /\ bot'[c].pieces = <<>>
      /\ bot'[c].planned = Bookings(plan)
      /\ \A d \in Cuebots : d # c => bot'[d] = bot[d]
  BY <1>1, <1>3 DEF plan, Bot
<1>8. LeftOf(c)' = Bookings(plan)
  <2>1. LeftOf(c)' = BookingsLeft(plan, <<>>)
    BY <1>7 DEF LeftOf
  <2> QED
    BY <2>1 DEF BookingsLeft
<1>9. ASSUME NEW h \in Hosts PROVE Cardinality(OnHost(h, Bookings(plan))) <= idle[h]
  <2> DEFINE S == {i \in 1..Len(s) : s[i].host = h}
             T == {i \in 1..n : plan[i].host = h}
             f == [i \in T |-> plan[i]]
  <2>1. f \in Surjection(T, OnHost(h, Bookings(plan)))
    BY <1>6 DEF Surjection, OnHost
  <2>2. T \subseteq S
    BY <1>5
  <2>3. IsFiniteSet(S)
    <3>1. IsFiniteSet(1..Len(s)) /\ S \subseteq 1..Len(s)
      BY <1>4, FS_Interval
    <3> QED
      BY <3>1, FS_Subset
  <2>4. Cardinality(S) <= idle[h] /\ idle[h] \in Nat
    BY <1>1, <1>4
  <2> HIDE DEF S, T, f
  <2>5. /\ IsFiniteSet(T) /\ Cardinality(T) <= Cardinality(S)
        /\ Cardinality(T) \in Nat /\ Cardinality(S) \in Nat
    BY <2>2, <2>3, FS_Subset, FS_CardinalityType
  <2>6. /\ Cardinality(OnHost(h, Bookings(plan))) <= Cardinality(T)
        /\ Cardinality(OnHost(h, Bookings(plan))) \in Nat
    BY <2>1, <2>5, FS_Surjection, FS_CardinalityType
  <2> QED
    BY <2>4, <2>5, <2>6
<1>10. ASSUME NEW b \in Bookings(plan) PROVE b.ver <= frame[b.frame].ver
  <2>1. PICK i \in 1..n : b = plan[i]
    BY <1>6
  <2>2. b = s[i] /\ i \in 1..Len(s) /\ b \in Booking
    BY <1>4, <1>5, <2>1
  <2>3. b.ver = frame[b.frame].ver /\ b.ver \in Nat
    BY <1>4, <2>2 DEF Booking
  <2> QED
    BY <2>3
<1>11. Contained(c)'
  <2>1. UNCHANGED <<frame, idle>>
    BY <1>2 DEF rows
  <2>2. \A h \in Hosts : Cardinality(OnHost(h, LeftOf(c))') <= idle'[h]
    BY <1>8, <1>9, <2>1 DEF OnHost
  <2> QED
    BY <1>6, <1>7, <1>8, <1>10, <2>1, <2>2 DEF Contained
<1> QED
  BY <1>2, <1>7, <1>11, SteadyStep

\* A step of a tick that writes no rows, and gives up only what has failed.
LEMMA InTickSteady ==
    ASSUME SteadyInv, CommitInv', NEW c \in Cuebots, UNCHANGED <<rows, lock, unlocked>>,
           \A d \in Cuebots : d # c => bot'[d] = bot[d],
           bot[c].pc \in {"chunk", "commit", "split"},
           bot'[c].planned = bot[c].planned, bot[c].failed \subseteq bot'[c].failed,
           Contained(c) =>
             /\ IsFiniteSet(LeftOf(c)')
             /\ \A h \in Hosts :
                  Cardinality(OnHost(h, LeftOf(c)')) <= Cardinality(OnHost(h, LeftOf(c)))
             /\ \A b \in LeftOf(c) : b \in LeftOf(c)' \/ b.frame \in bot'[c].failed,
           bot'[c].pc = "split" =>
             FramesIn(Head(bot'[c].pieces)) \subseteq bot'[c].failed
    PROVE  SteadyInv'
<1>1. TypeOK /\ TypeOK' /\ UNCHANGED <<frame, idle>>
  BY DEF SteadyInv, CommitInv, rows
<1>2. Holds(c)' => Contained(c)
  BY DEF SteadyInv, Steady, Holds
<1>3. Contained(c) => Contained(c)'
  BY <1>1, RowsStay, ContainedStep
<1> QED
  BY <1>2, <1>3, SteadyStep

\* What is left, when no more is left than before.
LEMMA LeftShrinks ==
    ASSUME NEW c \in Cuebots, Contained(c), NEW S, S \subseteq LeftOf(c)
    PROVE  /\ IsFiniteSet(S)
           /\ \A h \in Hosts :
                Cardinality(OnHost(h, S)) <= Cardinality(OnHost(h, LeftOf(c)))
<1>1. IsFiniteSet(LeftOf(c))
  BY DEF Contained
<1> QED
  BY <1>1, LeftCounted, FS_Subset

\* A chunk begins: what is left is the same.
LEMMA NextChunkSteady ==
    ASSUME SteadyInv, CommitInv', NEW c \in Cuebots, NextChunk(c)
    PROVE  SteadyInv'
<1>1. /\ bot \in [Cuebots -> Bot] /\ bot[c].rest \in Seq(Booking) /\ bot[c].pc = "chunk"
      /\ bot[c].pieces = <<>>
  BY DEF SteadyInv, CommitInv, TypeOK, Bot, NextChunk, Work
<1>2. UNCHANGED <<rows, lock, unlocked>>
  BY DEF NextChunk
<1> DEFINE n == ChunkEnd(bot[c].rest)
           chunk == SubSeq(bot[c].rest, 1, n)
           rest == SubSeq(bot[c].rest, n + 1, Len(bot[c].rest))
<1>3. PICK misses :
        bot' = [bot EXCEPT ![c].pc = "commit", ![c].misses = misses,
                           ![c].pieces = <<chunk>>,
                           ![c].rest = SubSeq(@, n + 1, Len(@))]
  BY DEF NextChunk
<1>4. Bookings(bot[c].rest) = Bookings(chunk) \cup Bookings(rest)
  <2>1. n \in 0..Len(bot[c].rest)
    BY <1>1, ChunkEndType
  <2> HIDE DEF n
  <2> QED
    BY <1>1, <2>1, BookingsHalves
<1> HIDE DEF n, chunk
<1>5. /\ bot'[c].pc = "commit" /\ bot'[c].rest = rest /\ bot'[c].pieces = <<chunk>>
      /\ bot'[c].planned = bot[c].planned /\ bot'[c].failed = bot[c].failed
      /\ \A d \in Cuebots : d # c => bot'[d] = bot[d]
  BY <1>1, <1>3, ZenonT(60) DEF Bot
<1> HIDE DEF rest
<1>6. LeftOf(c) = Bookings(bot[c].rest)
  <2>1. LeftOf(c) = BookingsLeft(bot[c].rest, <<>>)
    BY <1>1 DEF LeftOf
  <2> QED
    BY <2>1 DEF BookingsLeft
<1>7. LeftOf(c)' = Bookings(rest) \cup Bookings(chunk)
  <2>1. LeftOf(c)' = BookingsLeft(rest, <<chunk>>)
    BY <1>5 DEF LeftOf
  <2>2. 1..Len(<<chunk>>) = {1} /\ <<chunk>>[1] = chunk
    OBVIOUS
  <2> QED
    BY <2>1, <2>2 DEF BookingsLeft
<1>8. LeftOf(c)' = LeftOf(c)
  BY <1>4, <1>6, <1>7
<1> QED
  BY <1>1, <1>2, <1>5, <1>8, LeftShrinks, InTickSteady

\* A piece is dropped: it has failed.
LEMMA DropPieceSteady ==
    ASSUME SteadyInv, CommitInv', NEW c \in Cuebots, DropPiece(c)
    PROVE  SteadyInv'
<1> DEFINE piece == Head(bot[c].pieces)
           left == Tail(bot[c].pieces)
<1>1. /\ bot \in [Cuebots -> Bot] /\ bot[c].rest \in Seq(Booking) /\ bot[c].pc = "split"
      /\ bot[c].pieces # <<>> /\ bot[c].pieces \in Seq(Seq(Booking))
      /\ Apart(bot[c].rest, bot[c].pieces)
  BY DEF SteadyInv, CommitInv, TypeOK, Bot, DropPiece, Work
<1>2. UNCHANGED <<rows, lock, unlocked>>
  BY DEF DropPiece
<1>3. LeftOf(c) = Bookings(piece) \cup BookingsLeft(bot[c].rest, left)
  BY <1>1, BookingsTail DEF LeftOf
<1>4. PICK misses, told :
        bot' = [bot EXCEPT ![c].pieces = left, ![c].pc = Next_(left),
                           ![c].misses = misses, ![c].told = told]
  BY DEF DropPiece
<1> HIDE DEF left
<1>5. /\ bot'[c].pc = Next_(left) /\ bot'[c].rest = bot[c].rest /\ bot'[c].pieces = left
      /\ bot'[c].planned = bot[c].planned /\ bot'[c].failed = bot[c].failed
      /\ \A d \in Cuebots : d # c => bot'[d] = bot[d]
  BY <1>1, <1>4 DEF Bot
<1>6. LeftOf(c)' = BookingsLeft(bot[c].rest, left)
  BY <1>5 DEF LeftOf
<1>7. ASSUME Contained(c), NEW b \in LeftOf(c)
      PROVE  b \in LeftOf(c)' \/ b.frame \in bot'[c].failed
  <2>1. FramesIn(piece) \subseteq bot[c].failed
    BY <1>1, <1>7 DEF Contained
  <2>2. b \in Bookings(piece) => b.frame \in FramesIn(piece)
    BY DEF FramesIn
  <2> QED
    BY <1>3, <1>5, <1>6, <2>1, <2>2
<1>8. bot'[c].pc # "split"
  BY <1>5 DEF Next_
<1>9. LeftOf(c)' \subseteq LeftOf(c)
  BY <1>3, <1>6
<1> QED
  BY <1>1, <1>2, <1>5, <1>7, <1>8, <1>9, LeftShrinks, InTickSteady

\* A piece is split: what is left is the same.
LEMMA SplitPieceSteady ==
    ASSUME SteadyInv, CommitInv', NEW c \in Cuebots, SplitPiece(c)
    PROVE  SteadyInv'
<1> DEFINE piece == Head(bot[c].pieces)
           mid == HostAlignedMid(piece)
           new == <<SubSeq(piece, 1, mid), SubSeq(piece, mid + 1, Len(piece))>>
                     \o Tail(bot[c].pieces)
<1>1. /\ bot \in [Cuebots -> Bot] /\ bot[c].rest \in Seq(Booking) /\ bot[c].pc = "split"
      /\ bot[c].pieces # <<>> /\ bot[c].pieces \in Seq(Seq(Booking))
      /\ Apart(bot[c].rest, bot[c].pieces)
  BY DEF SteadyInv, CommitInv, TypeOK, Bot, SplitPiece, Work
<1>2. UNCHANGED <<rows, lock, unlocked>>
  BY DEF SplitPiece
<1>3. PICK misses :
        bot' = [bot EXCEPT ![c].pc = "commit", ![c].misses = misses,
                  ![c].splits = @ - 2,
                  ![c].pieces = <<SubSeq(piece, 1, mid),
                                  SubSeq(piece, mid + 1, Len(piece))>> \o Tail(@)]
  BY DEF SplitPiece
<1>4. BookingsLeft(bot[c].rest, new) = LeftOf(c)
  <2>1. piece \in Seq(Booking)
    BY <1>1
  <2>2. mid \in 0..Len(piece)
    <3> HIDE DEF piece
    <3>1. Len(piece) \in Nat /\ (mid = 0 \/ mid \in 1..(Len(piece) - 1))
      BY <2>1, MidType
    <3> QED
      BY <3>1
  <2> HIDE DEF mid
  <2> QED
    BY <1>1, <2>1, <2>2, BookingsSplit DEF LeftOf
<1>5. bot'[c].pieces = new
  BY <1>1, <1>3 DEF Bot
<1> HIDE DEF new
<1>6. /\ bot'[c].pc = "commit" /\ bot'[c].rest = bot[c].rest
      /\ bot'[c].planned = bot[c].planned /\ bot'[c].failed = bot[c].failed
      /\ \A d \in Cuebots : d # c => bot'[d] = bot[d]
  BY <1>1, <1>3 DEF Bot
<1>7. LeftOf(c)' = LeftOf(c)
  BY <1>4, <1>5, <1>6 DEF LeftOf
<1> QED
  BY <1>1, <1>2, <1>6, <1>7, LeftShrinks, InTickSteady

\* A piece fails: its bookings may have other versions, and their frames are known.
LEMMA PieceFailsSteady ==
    ASSUME SteadyInv, CommitInv', NEW c \in Cuebots, PieceFails(c)
    PROVE  SteadyInv'
<1> DEFINE P == bot[c].pieces
           R == bot[c].rest
           piece == Head(P)
           won == Won(piece)
           Bumped(where, b) == IF where = "after" /\ b \in won
                                 THEN [b EXCEPT !.ver = b.ver + 1] ELSE b
<1>1. /\ bot \in [Cuebots -> Bot] /\ R \in Seq(Booking) /\ bot[c].pc = "commit"
      /\ P # <<>> /\ P \in Seq(Seq(Booking)) /\ Apart(R, P)
  BY DEF SteadyInv, CommitInv, TypeOK, Bot, PieceFails, Work
<1>2. UNCHANGED <<rows, lock, unlocked>>
  BY DEF PieceFails
<1>3. PICK where \in {"before", "after"} :
        bot' = [bot EXCEPT ![c].pc = "split",
                  ![c].failed = @ \cup FramesIn(piece),
                  ![c].deltas =
                    Discarded(IF where = "after" THEN @ + Cardinality(won) ELSE @),
                  ![c].pieces[1] = [i \in 1..Len(piece) |-> Bumped(where, piece[i])]]
  BY DEF PieceFails
<1> DEFINE q == [i \in 1..Len(piece) |-> Bumped(where, piece[i])]
           new == [P EXCEPT ![1] = q]
<1>4. /\ bot'[c].pieces = new /\ bot'[c].pc = "split" /\ bot'[c].rest = R
      /\ bot'[c].planned = bot[c].planned
      /\ bot'[c].failed = bot[c].failed \cup FramesIn(piece)
      /\ \A d \in Cuebots : d # c => bot'[d] = bot[d]
  <2> HIDE DEF q, piece, won
  <2> QED
    BY <1>1, <1>3, ZenonT(60) DEF Bot, q
<1>5. won \subseteq Bookings(piece) /\ piece \in Seq(Booking) /\ piece = P[1]
  BY <1>1 DEF Won, Affordable
<1>6. /\ LeftOf(c) = Bookings(piece) \cup BookingsLeft(R, Tail(P))
      /\ Bookings(piece) \cap BookingsLeft(R, Tail(P)) = {}
  BY <1>1, BookingsTail DEF LeftOf
<1> HIDE DEF won
<1>7. /\ q \in Seq(Booking) /\ Len(q) = Len(piece)
      /\ \A i \in 1..Len(q) : q[i] = Bumped(where, piece[i])
  <2> HIDE DEF piece
  <2>1. \A i \in 1..Len(piece) : q[i] \in Booking /\ q[i] = Bumped(where, piece[i])
    <3> TAKE i \in 1..Len(piece)
    <3>1. piece[i] \in Booking
      BY <1>5
    <3>2. piece[i].ver + 1 \in Nat
      BY <3>1 DEF Booking
    <3> QED
      BY <3>1, <3>2 DEF Booking
  <2>2. q = [i \in 1..Len(piece) |-> q[i]]
    OBVIOUS
  <2> HIDE DEF q, Bumped
  <2>3. Len(piece) \in Nat
    BY <1>5
  <2> QED
    BY <2>1, <2>2, <2>3
<1>8. Bookings(q) = {Bumped(where, b) : b \in Bookings(piece)}
  <2> HIDE DEF q, Bumped, piece
  <2>1. /\ Bookings(q) = {q[i] : i \in 1..Len(q)}
        /\ Bookings(piece) = {piece[i] : i \in 1..Len(piece)}
    BY <1>5, <1>7, BookingsOf
  <2> QED
    BY <1>7, <2>1
<1> HIDE DEF q, piece
<1>9. /\ Len(new) = Len(P) /\ Head(new) = q /\ Tail(new) = Tail(P) /\ new # <<>>
      /\ new \in Seq(Seq(Booking))
  <2> HIDE DEF P
  <2>1. Len(P) \in Nat \ {0} /\ P = [i \in 1..Len(P) |-> P[i]]
    BY <1>1
  <2>2. new \in Seq(Seq(Booking)) /\ Len(new) = Len(P) /\ new[1] = q
        /\ \A i \in 2..Len(P) : new[i] = P[i]
    BY <1>1, <1>7, <2>1
  <2>3. new # <<>> /\ Head(new) = q
    BY <2>1, <2>2
  <2>4. /\ Len(Tail(new)) = Len(P) - 1 /\ Len(Tail(P)) = Len(P) - 1
        /\ \A i \in 1..(Len(P) - 1) : Tail(new)[i] = new[i + 1] /\ Tail(P)[i] = P[i + 1]
        /\ Tail(new) \in Seq(Seq(Booking)) /\ Tail(P) \in Seq(Seq(Booking))
    <3> HIDE DEF new
    <3> QED
      BY <1>1, <2>1, <2>2, <2>3
  <2> HIDE DEF new
  <2>5. \A i \in 1..(Len(P) - 1) : Tail(new)[i] = Tail(P)[i]
    <3> TAKE i \in 1..(Len(P) - 1)
    <3>1. i + 1 \in 2..Len(P)
      BY <2>1
    <3> QED
      BY <2>2, <2>4, <3>1
  <2>6. Tail(new) = Tail(P)
    <3> DEFINE A == Tail(new)
               B == Tail(P)
    <3>1. /\ A \in Seq(Seq(Booking)) /\ B \in Seq(Seq(Booking)) /\ Len(A) = Len(B)
          /\ \A i \in 1..Len(A) : A[i] = B[i]
      BY <2>4, <2>5
    <3> HIDE DEF A, B
    <3>2. A = B
      BY <3>1, SeqEqual
    <3> QED
      BY <3>2 DEF A, B
  <2> QED
    BY <2>2, <2>3, <2>6
<1> HIDE DEF new
<1>10. LeftOf(c)' = Bookings(q) \cup BookingsLeft(R, Tail(P))
  <2>1. Apart(R, new)
    BY <1>4 DEF CommitInv, Work
  <2> QED
    <3>1. BookingsLeft(R, new) = Bookings(Head(new)) \cup BookingsLeft(R, Tail(new))
      BY <1>1, <1>9, <2>1, BookingsTail
    <3>2. LeftOf(c)' = BookingsLeft(R, new)
      BY <1>4 DEF LeftOf
    <3> QED
      BY <1>9, <3>1, <3>2
<1>11. \A b \in BookingsLeft(R, Tail(P)) : Bumped(where, b) = b
  BY <1>5, <1>6
<1>12. LeftOf(c)' = {Bumped(where, b) : b \in LeftOf(c)}
  <2> HIDE DEF Bumped
  <2> QED
    BY <1>6, <1>8, <1>10, <1>11
<1>13. LeftOf(c) \subseteq Booking
  <2>1. \A s \in Seq(Booking) : Bookings(s) \subseteq Booking
    BY DEF Bookings, ToSet
  <2> QED
    BY <1>1, <2>1 DEF LeftOf, BookingsLeft
<1>14. \A b \in Booking : Bumped(where, b).host = b.host /\ Bumped(where, b).frame = b.frame
  BY DEF Booking
<1> HIDE DEF Bumped
<1>15. ASSUME Contained(c), NEW S, S \subseteq LeftOf(c)
       PROVE  /\ IsFiniteSet({Bumped(where, b) : b \in S})
              /\ Cardinality({Bumped(where, b) : b \in S}) <= Cardinality(S)
  <2> DEFINE T == {Bumped(where, b) : b \in S}
             g == [b \in S |-> Bumped(where, b)]
  <2>1. IsFiniteSet(S)
    BY <1>15, LeftShrinks
  <2>2. g \in Surjection(S, T)
    BY DEF Surjection
  <2> HIDE DEF g, T
  <2>3. IsFiniteSet(T) /\ Cardinality(T) <= Cardinality(S)
    BY <2>1, <2>2, FS_Surjection
  <2> QED
    BY <2>3 DEF T
<1>16. ASSUME Contained(c), NEW h \in Hosts
       PROVE  Cardinality(OnHost(h, LeftOf(c)')) <= Cardinality(OnHost(h, LeftOf(c)))
  <2>1. OnHost(h, LeftOf(c)') = {Bumped(where, b) : b \in OnHost(h, LeftOf(c))}
    BY <1>12, <1>13, <1>14 DEF OnHost
  <2>2. OnHost(h, LeftOf(c)) \subseteq LeftOf(c)
    BY DEF OnHost
  <2> QED
    BY <1>15, <1>16, <2>1, <2>2
<1>17. ASSUME NEW b \in LeftOf(c) PROVE b \in LeftOf(c)' \/ b.frame \in bot'[c].failed
  <2>1. b \in Bookings(piece) => b.frame \in FramesIn(piece)
    BY DEF FramesIn
  <2> QED
    BY <1>4, <1>6, <1>10, <2>1
<1>18. FramesIn(Head(bot'[c].pieces)) \subseteq bot'[c].failed
  <2>1. \A b \in Bookings(piece) : Bumped(where, b).frame = b.frame
    BY <1>6, <1>13, <1>14
  <2>2. FramesIn(q) \subseteq FramesIn(piece)
    BY <1>8, <2>1 DEF FramesIn
  <2> QED
    BY <1>4, <1>9, <2>2
<1>19. Contained(c) => IsFiniteSet(LeftOf(c)')
  BY <1>12, <1>15
<1> QED
  BY <1>1, <1>2, <1>4, <1>16, <1>17, <1>18, <1>19, InTickSteady

\* A frame that goes has moved on.
LEMMA FrameGoesOn ==
    ASSUME TypeOK, NEW f \in Frames, NEW state, FrameGoes(f, state)
    PROVE  MovesOn
<1>1. /\ frame' = [frame EXCEPT ![f] = [state |-> state, ver |-> @.ver + 1]]
      /\ frame \in [Frames -> [state : {"WAITING", "RUNNING", "ENDED"}, ver : Nat]]
  BY DEF FrameGoes, TypeOK
<1>2. frame'[f].ver = frame[f].ver + 1 /\ frame[f].ver \in Nat
  BY <1>1
<1>3. frame'[f].ver > frame[f].ver
  BY <1>2
<1>4. \A g \in Frames : g # f => frame'[g] = frame[g]
  BY <1>1
<1> QED
  BY <1>3, <1>4 DEF MovesOn

\* Runs end and corpses go: rows move on and cores come back.
LEMMA EnvironmentSteady ==
    ASSUME SteadyInv, CommitInv',
           \/ \E p \in procs : Completes(p) \/ LeavesCorpse(p) \/ CorpseReleased(p)
           \/ \E f \in Frames : Eaten(f)
    PROVE  SteadyInv'
<1>1. /\ TypeOK /\ TypeOK' /\ idle \in [Hosts -> Nat]
      /\ \A p \in procs : p.frame \in Frames /\ p.host \in Hosts
  BY DEF SteadyInv, CommitInv, TypeOK
<1>2. UNCHANGED <<lock, bot, unlocked>>
  BY DEF Completes, LeavesCorpse, CorpseReleased, Eaten
<1>3. MovesOn
  <2>1. ASSUME NEW p \in procs, Completes(p) \/ LeavesCorpse(p) PROVE MovesOn
    BY <1>1, <2>1, FrameGoesOn DEF Completes, LeavesCorpse
  <2>2. ASSUME NEW p \in procs, CorpseReleased(p) PROVE MovesOn
    BY <2>2 DEF CorpseReleased, MovesOn
  <2>3. ASSUME NEW f \in Frames, Eaten(f) PROVE MovesOn
    BY <1>1, <2>3, FrameGoesOn DEF Eaten
  <2> QED
    BY <2>1, <2>2, <2>3
<1>4. \A h \in Hosts : idle[h] <= idle'[h]
  <2>1. (\E p \in procs : Freed(p)) \/ UNCHANGED idle
    BY DEF Completes, LeavesCorpse, CorpseReleased, Eaten
  <2>2. ASSUME NEW p \in procs, Freed(p) PROVE \A h \in Hosts : idle[h] <= idle'[h]
    BY <1>1, <2>2 DEF Freed
  <2>3. UNCHANGED idle => \A h \in Hosts : idle[h] <= idle'[h]
    BY <1>1
  <2> QED
    BY <2>1, <2>2, <2>3
<1>5. ASSUME NEW c \in Cuebots, Holds(c)' PROVE Contained(c)'
  <2>1. Contained(c)
    BY <1>2, <1>5 DEF Holds, SteadyInv, Steady
  <2> QED
    BY <1>1, <1>2, <1>3, <1>4, <2>1, OthersContained
<1> QED
  BY <1>5 DEF SteadyInv, Steady

\* A piece is committed: it can afford all of it, so it wins what the rows have
\* not overtaken, and leaves the cores that the rest counts on.
LEMMA CommitPieceContained ==
    ASSUME CommitInv, CommitInv', NEW c \in Cuebots, CommitPiece(c), Contained(c)
    PROVE  Contained(c)'
<1> DEFINE piece == Head(bot[c].pieces)
           left == Tail(bot[c].pieces)
           won == Won(piece)
           stale == Stale(won)
<1>1. /\ TypeOK /\ TypeOK' /\ bot \in [Cuebots -> Bot] /\ idle \in [Hosts -> Nat]
      /\ frame \in [Frames -> [state : {"WAITING", "RUNNING", "ENDED"}, ver : Nat]]
      /\ bot[c].rest \in Seq(Booking) /\ bot[c].pieces \in Seq(Seq(Booking))
      /\ bot[c].pieces # <<>> /\ Apart(bot[c].rest, bot[c].pieces)
      /\ IsFiniteSet(procs) /\ bot[c].planned \subseteq Booking
  BY DEF CommitInv, TypeOK, Bot, Work, Rows, CommitPiece
<1>2. /\ frame' = [f \in Frames |->
                     IF \E b \in won : b.frame = f
                       THEN [state |-> "RUNNING", ver |-> frame[f].ver + 1]
                       ELSE frame[f]]
      /\ idle' = IdleAfter(piece, won, stale)
      /\ bot' = [bot EXCEPT ![c].pieces = left, ![c].deltas = 0, ![c].pc = Next_(left)]
  BY DEF CommitPiece
<1>3. /\ piece \in Seq(Booking) /\ Distinct(piece)
      /\ LeftOf(c) = Bookings(piece) \cup BookingsLeft(bot[c].rest, left)
      /\ Bookings(piece) \cap BookingsLeft(bot[c].rest, left) = {}
  BY <1>1, ApartTail, BookingsTail DEF LeftOf
<1>4. won \subseteq Bookings(piece) /\ stale \subseteq procs
  BY DEF Won, Affordable, Stale, OnFrames
<1> HIDE DEF left
<1>5. /\ bot'[c].pc = Next_(left) /\ bot'[c].rest = bot[c].rest /\ bot'[c].pieces = left
      /\ bot'[c].planned = bot[c].planned /\ bot'[c].failed = bot[c].failed
  BY <1>1, <1>2 DEF Bot
<1>6. LeftOf(c)' = BookingsLeft(bot[c].rest, left)
  BY <1>5 DEF LeftOf
<1>7. MovesOn
  <2> SUFFICES ASSUME NEW f \in Frames
               PROVE  frame'[f] = frame[f] \/ frame'[f].ver > frame[f].ver
    BY DEF MovesOn
  <2>1. frame[f].ver \in Nat /\ frame[f].ver + 1 > frame[f].ver
    BY <1>1
  <2> HIDE DEF won
  <2>2. CASE \E b \in won : b.frame = f
    <3>1. frame'[f].ver = frame[f].ver + 1
      BY <1>2, <2>2
    <3> QED
      BY <2>1, <3>1
  <2>3. CASE ~ \E b \in won : b.frame = f
    BY <1>2, <2>3
  <2> QED
    BY <2>2, <2>3
<1>8. ASSUME NEW b \in bot[c].planned
      PROVE  b.ver <= frame'[b.frame].ver /\ (Overtaken(b) => Overtaken(b)')
  <2>1. b \in Booking /\ b.ver <= frame[b.frame].ver
    BY <1>1 DEF Contained
  <2> QED
    BY <1>1, <1>7, <2>1, OvertakenStays
<1>9. ASSUME NEW b \in Bookings(piece), b \in bot[c].planned PROVE Overtaken(b)'
  <2>1. b \in bot[c].planned /\ b.frame \in Frames /\ b.host \in Hosts
    BY <1>1, <1>9 DEF Booking
  <2>2. Cardinality(OnHost(b.host, Bookings(piece))) <= idle[b.host]
    <3>1. /\ Cardinality(OnHost(b.host, Bookings(piece)))
               <= Cardinality(OnHost(b.host, LeftOf(c)))
          /\ Cardinality(OnHost(b.host, LeftOf(c))) \in Nat
          /\ Cardinality(OnHost(b.host, Bookings(piece))) \in Nat
      BY <1>3, LeftCounted DEF Contained
    <3>2. Cardinality(OnHost(b.host, LeftOf(c))) <= idle[b.host] /\ idle[b.host] \in Nat
      BY <1>1, <2>1 DEF Contained
    <3> QED
      BY <3>1, <3>2
  <2>3. b \in won \/ Overtaken(b)
    BY <2>2 DEF Won, Affordable, Overtaken
  <2>4. CASE b \in won
    <3> HIDE DEF won
    <3>1. frame'[b.frame].state = "RUNNING"
      BY <1>2, <2>1, <2>4
    <3> QED
      BY <3>1 DEF Overtaken
  <2> QED
    BY <1>8, <2>1, <2>3, <2>4
<1>10. ASSUME NEW h \in Hosts PROVE Cardinality(OnHost(h, LeftOf(c))') <= idle'[h]
  <2> DEFINE L == OnHost(h, LeftOf(c))
             W == OnHost(h, won)
             M == OnHost(h, BookingsLeft(bot[c].rest, left))
             T == OnHost(h, stale)
  <2>1. idle'[h] = idle[h] - Cardinality(W) + Cardinality(T)
    BY <1>2 DEF IdleAfter
  <2>2. OnHost(h, LeftOf(c))' = M
    BY <1>6 DEF OnHost
  <2>3. W \cup M \subseteq L /\ W \cap M = {}
    BY <1>3, <1>4 DEF OnHost
  <2>4. Cardinality(L) <= idle[h] /\ idle[h] \in Nat
    BY <1>1 DEF Contained
  <2>5. /\ IsFiniteSet(W) /\ IsFiniteSet(M) /\ IsFiniteSet(L)
        /\ Cardinality(W) \in Nat /\ Cardinality(M) \in Nat /\ Cardinality(L) \in Nat
    <3>1. won \subseteq LeftOf(c) /\ BookingsLeft(bot[c].rest, left) \subseteq LeftOf(c)
      BY <1>3, <1>4
    <3>2. IsFiniteSet(LeftOf(c))
      BY DEF Contained
    <3> HIDE DEF won
    <3> QED
      BY <3>1, <3>2, LeftCounted
  <2>6. Cardinality(T) \in Nat
    <3>1. T \subseteq procs
      BY <1>4 DEF OnHost
    <3> QED
      BY <1>1, <3>1, FS_Subset, FS_CardinalityType
  <2> HIDE DEF L, W, M, T
  <2>7. Cardinality(W \cup M) = Cardinality(W) + Cardinality(M)
    <3>1. Cardinality(W \cap M) = 0
      BY <2>3, FS_EmptySet
    <3>2. Cardinality(W \cup M) = Cardinality(W) + Cardinality(M) - Cardinality(W \cap M)
      BY <2>5, FS_Union
    <3> QED
      BY <2>5, <3>1, <3>2
  <2>8. Cardinality(W \cup M) <= Cardinality(L)
    BY <2>3, <2>5, FS_Subset
  <2> QED
    BY <2>1, <2>2, <2>4, <2>5, <2>6, <2>7, <2>8
<1>11. ASSUME NEW b \in bot'[c].planned
       PROVE  b \in LeftOf(c)' \/ Overtaken(b)' \/ b.frame \in bot'[c].failed
  <2>1. b \in LeftOf(c) \/ Overtaken(b) \/ b.frame \in bot[c].failed
    BY <1>5, <1>11 DEF Contained
  <2> QED
    BY <1>3, <1>5, <1>6, <1>8, <1>9, <1>11, <2>1
<1>12. IsFiniteSet(LeftOf(c)')
  BY <1>3, <1>6, FS_Subset DEF Contained
<1>13. bot'[c].pc # "split"
  BY <1>5 DEF Next_
<1> QED
  BY <1>5, <1>8, <1>10, <1>11, <1>12, <1>13 DEF Contained

\* Who commits without the lock wins nothing, or the promise is off.
LEMMA CommitPieceSteady ==
    ASSUME SteadyInv, CommitInv', NEW c \in Cuebots, CommitPiece(c)
    PROVE  SteadyInv'
<1> DEFINE piece == Head(bot[c].pieces)
           won == Won(piece)
<1>1. /\ TypeOK /\ TypeOK' /\ bot \in [Cuebots -> Bot] /\ idle \in [Hosts -> Nat]
  BY DEF SteadyInv, CommitInv, TypeOK
<1>2. /\ bot[c].pc = "commit" /\ UNCHANGED lock
      /\ unlocked' = (unlocked \/ (won # {} /\ lock # c))
      /\ frame' = [f \in Frames |->
                     IF \E b \in won : b.frame = f
                       THEN [state |-> "RUNNING", ver |-> frame[f].ver + 1]
                       ELSE frame[f]]
      /\ idle' = IdleAfter(piece, won, Stale(won))
      /\ bot' = [bot EXCEPT ![c].pieces = Tail(@), ![c].deltas = 0,
                            ![c].pc = Next_(Tail(bot[c].pieces))]
  BY DEF CommitPiece
<1> SUFFICES ASSUME NEW d \in Cuebots, Holds(d)' PROVE Contained(d)'
  BY DEF SteadyInv, Steady
<1>3. lock = d /\ ~unlocked /\ (won = {} \/ d = c)
  BY <1>2 DEF Holds
<1>4. CASE d = c
  <2>1. Contained(c)
    BY <1>2, <1>3, <1>4 DEF Holds, SteadyInv, Steady
  <2> QED
    BY <1>4, <2>1, CommitPieceContained DEF SteadyInv
<1>5. CASE d # c
  <2>1. bot'[d] = bot[d]
    BY <1>1, <1>2, <1>5
  <2>2. Contained(d)
    BY <1>3, <2>1 DEF Holds, SteadyInv, Steady
  <2>3. won = {}
    BY <1>3, <1>5
  <2>4. MovesOn
    <3> HIDE DEF won
    <3> QED
      BY <1>2, <2>3 DEF MovesOn
  <2>5. ASSUME NEW h \in Hosts PROVE idle[h] <= idle'[h]
    <3>1. Stale({}) = {} /\ OnHost(h, {}) = {}
      BY DEF Stale, OnFrames, OnHost
    <3>2. idle'[h] = idle[h] - Cardinality(OnHost(h, won))
                             + Cardinality(OnHost(h, Stale(won)))
      BY <1>2 DEF IdleAfter
    <3>3. Cardinality(OnHost(h, won)) = 0 /\ Cardinality(OnHost(h, Stale(won))) = 0
      BY <2>3, <3>1, FS_EmptySet
    <3> QED
      BY <1>1, <3>2, <3>3
  <2> QED
    BY <1>1, <2>1, <2>2, <2>4, <2>5, OthersContained
<1> QED
  BY <1>4, <1>5

\* Nobody is in a tick at first.
LEMMA SteadyInit == Init => SteadyInv
<1> SUFFICES ASSUME Init PROVE SteadyInv
  OBVIOUS
<1>1. \A c \in Cuebots : bot[c].pc = "idle"
  BY FreshType DEF Init
<1> QED
  BY <1>1, CommitInit DEF SteadyInv, Steady, Holds

\* Every step keeps what is contained.
LEMMA SteadyNext ==
    ASSUME SteadyInv, [Next]_vars
    PROVE  SteadyInv'
<1>1. CommitInv'
  BY CommitStep DEF SteadyInv
<1>2. CASE UNCHANGED vars
  <2>1. TypeOK /\ TypeOK' /\ UNCHANGED <<frame, idle, lock, bot, unlocked>>
    BY <1>1, <1>2 DEF SteadyInv, CommitInv, vars, rows
  <2>2. ASSUME NEW c \in Cuebots, Holds(c)' PROVE Contained(c)'
    <3>1. Contained(c)
      BY <2>1, <2>2 DEF SteadyInv, Steady, Holds
    <3> QED
      BY <2>1, <3>1, RowsStay, OthersContained
  <2> QED
    BY <1>1, <2>2 DEF SteadyInv, Steady
<1>3. ASSUME NEW c \in Cuebots, TickStep(c) PROVE SteadyInv'
  BY <1>1, <1>3, IdleSteady, PlanSteady, NextChunkSteady, CommitPieceSteady,
     PieceFailsSteady, DropPieceSteady, SplitPieceSteady DEF TickStep
<1>4. ASSUME NEW c \in Cuebots,
             SessionLost(c) \/ Crash(c) \/ ShutdownMarked(c) \/ ShutdownReleases(c)
      PROVE  SteadyInv'
  BY <1>1, <1>4, IdleSteady, ShutdownMarkedSteady
<1> QED
  BY <1>1, <1>2, <1>3, <1>4, EnvironmentSteady DEF Next

\* What a failing transaction costs is its own bookings, wherever it fails and
\* whatever else fails with it, for every number of Cuebots, frames and hosts,
\* every chunk size and every budget.
THEOREM TickContainedCorrect == Spec => []TickContained
<1>1. SteadyInv /\ [Next]_vars => SteadyInv'
  BY SteadyNext
<1>2. SteadyInv => TickContained
  <2> SUFFICES ASSUME SteadyInv, NEW c \in Cuebots,
                      bot[c].pc = "chunk", bot[c].rest = <<>>, lock = c, ~unlocked,
                      NEW b \in bot[c].planned
               PROVE  b.frame \in bot[c].failed \/ Overtaken(b)
    BY DEF TickContained, Overtaken
  <2>1. bot[c].pieces = <<>>
    BY DEF SteadyInv, CommitInv, Work
  <2>2. LeftOf(c) = {}
    <3>1. LeftOf(c) = BookingsLeft(<<>>, <<>>)
      BY <2>1 DEF LeftOf
    <3>2. Bookings(<<>>) = {}
      BY DEF Bookings, ToSet
    <3> QED
      BY <3>1, <3>2 DEF BookingsLeft
  <2>3. Contained(c)
    BY DEF SteadyInv, Steady, Holds
  <2> QED
    BY <2>2, <2>3 DEF Contained
<1> QED
  BY <1>1, <1>2, SteadyInit, PTL DEF Spec
====
