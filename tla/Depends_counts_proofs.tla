------------------------ MODULE Depends_counts_proofs -------------------------
(***************************************************************************)
(* Proofs about what the counts of Depends are worth: a frame is held back *)
(* by every active depend, it starts only after what it depends on, and    *)
(* where nothing fails the post-complete worker alone satisfies everything.*)
(*                                                                         *)
(* A depend row and the counts it stands for are written one statement     *)
(* after the other.  Whoever has written the row and not yet a count is    *)
(* Pending on the frame, or has it in user.left: with these the books      *)
(* balance after every statement.                                          *)
(***************************************************************************)
EXTENDS Depends_proofs

-----------------------------------------------------------------------------
(* The balance of a frame. *)

\* Satisfactions that have yet to take a depend off the frame's count.
Pending(f) ==
    {a \in Satisfier :
        \/ sat[a].pc = "count" /\ f \in sat[a].left
        \/ sat[a].pc = "read" /\ f \in Row[sat[a].cur].er}

\* What a request has yet to charge.
Owed(f) == IF f \in user.left THEN 1 ELSE 0

Debt(f) == Cardinality(Holding(f)) + Cardinality(Pending(f))

Covered(f) == Debt(f) <= frame[f].count + Owed(f)

\* The sets are finite, in every state.
LEMMA Finite ==
    /\ \A f : IsFiniteSet(Holding(f)) /\ IsFiniteSet(Holding(f)')
    /\ \A f : IsFiniteSet(Pending(f)) /\ IsFiniteSet(Pending(f)')
    /\ \A f : /\ Cardinality(Holding(f)) \in Nat /\ Cardinality(Holding(f)') \in Nat
              /\ Cardinality(Pending(f)) \in Nat /\ Cardinality(Pending(f)') \in Nat
<1>1. IsFiniteSet(Deps)
    BY DependsAssumption
<1>2. IsFiniteSet(Satisfier)
    <2>1. IsFiniteSet({}) /\ Satisfier = (({} \cup {"post"}) \cup {"sweep"}) \cup {"user"}
        BY FS_EmptySet DEF Satisfier
    <2> QED
        BY <2>1, FS_AddElement
<1>3. \A f : /\ Holding(f) \subseteq Deps /\ Holding(f)' \subseteq Deps
             /\ Pending(f) \subseteq Satisfier /\ Pending(f)' \subseteq Satisfier
    BY DEF Holding, Pending
<1> QED
    BY <1>1, <1>2, <1>3, FS_Subset, FS_CardinalityType

\* One more element is at most one more.
LEMMA OneMore ==
    ASSUME NEW S, IsFiniteSet(S), NEW x
    PROVE  Cardinality(S \cup {x}) <= Cardinality(S) + 1
<1>1. Cardinality(S) \in Nat
    BY FS_CardinalityType
<1>2. Cardinality(S \cup {x}) = IF x \in S THEN Cardinality(S) ELSE Cardinality(S) + 1
    BY FS_AddElement, Zenon
<1> QED
    BY <1>1, <1>2

\* Rows, satisfactions and counts that do not get worse.
LEMMA Eased ==
    ASSUME NEW f, Covered(f), frame[f].count \in Nat, frame'[f].count \in Nat,
           Holding(f)' \subseteq Holding(f), Pending(f)' \subseteq Pending(f),
           frame'[f].count >= frame[f].count, Owed(f)' >= Owed(f)
    PROVE  Covered(f)'
<1>1. /\ Cardinality(Holding(f)') <= Cardinality(Holding(f))
      /\ Cardinality(Pending(f)') <= Cardinality(Pending(f))
    BY Finite, FS_Subset
<1> QED
    BY <1>1, Finite DEF Covered, Debt, Owed

\* The triggers look at the count and leave it alone.
LEMMA TriggeredCount ==
    ASSUME NEW old, NEW new \in FrameRow
    PROVE  Triggered(old, new).count = new.count
BY DEF Triggered, FrameRow

\* An update of a row gives it the count of the new row.
LEMMA SetFrameCount ==
    ASSUME frame \in [Frames -> FrameRow], NEW f \in Frames, NEW new \in FrameRow,
           SetFrame(f, new)
    PROVE  /\ frame'[f].count = new.count
           /\ \A g \in Frames : g # f => frame'[g] = frame[g]
BY TriggeredCount DEF SetFrame

\* A new state of a frame is no new count.
LEMMA SetStateCount ==
    ASSUME frame \in [Frames -> FrameRow], NEW f \in Frames, NEW s \in FrameState,
           SetState(f, s)
    PROVE  \A g \in Frames : frame'[g].count = frame[g].count
<1>1. [frame[f] EXCEPT !.state = s] \in FrameRow
    BY DEF FrameRow
<1>2. [frame[f] EXCEPT !.state = s].count = frame[f].count
    BY DEF FrameRow
<1> QED
    BY <1>1, <1>2, SetFrameCount DEF SetState

-----------------------------------------------------------------------------
(* Satisfactions. *)

\* What a statement of a's may do to the books of a frame: nothing, take a depend
\* from it that it then has to charge off, or charge it off.
Kept(f) ==
    /\ Holding(f)' = Holding(f) /\ Pending(f)' = Pending(f)
    /\ frame'[f].count = frame[f].count

Taken(a, f) ==
    \E d \in Holding(f) :
        /\ a \notin Pending(f)
        /\ Holding(f)' = Holding(f) \ {d}
        /\ Pending(f)' = Pending(f) \cup {a}
        /\ frame'[f].count = frame[f].count

Charged(a, f) ==
    /\ a \in Pending(f)
    /\ Holding(f)' = Holding(f)
    /\ Pending(f)' = Pending(f) \ {a}
    /\ IF frame[f].count > 0 THEN frame'[f].count = frame[f].count - 1
                             ELSE frame'[f].count = frame[f].count

\* A statement of a satisfaction does one of these to the books of every frame.
LEMMA SatBooks ==
    ASSUME TypeInv, NEW a \in Satisfier, SatStep(a), NEW f \in Frames
    PROVE  Kept(f) \/ Taken(a, f) \/ Charged(a, f)
<1>0. /\ sat \in [Satisfier -> Satisfaction] /\ sat[a] \in Satisfaction
      /\ frame \in [Frames -> FrameRow]
      /\ depend \in [Deps -> {"absent", "active", "inactive"}]
      /\ frame[f].count \in Nat
    BY DEF TypeInv, TypeOK, FrameRow
<1>n. NextDepend(sat[a]).pc = "next"
    BY <1>0 DEF NextDepend, Satisfaction
<1>1. ASSUME NEW d \in Deps, SetInactive(a, d)
      PROVE  Kept(f) \/ Taken(a, f)
    <2> DEFINE read == [sat[a] EXCEPT !.pc = "read", !.cur = d, !.todo = @ \ {d}]
               over == [sat[a] EXCEPT !.todo = @ \ {d}]
    <2>1. read.pc = "read" /\ read.cur = d /\ over.pc = "next"
        BY <1>0, <1>1 DEF SetInactive, Satisfaction
    <2>2. UNCHANGED frame /\ sat[a].pc = "next"
        BY <1>1 DEF SetInactive
    <2>3. CASE depend[d] = "active"
        <3>1. sat' = [sat EXCEPT ![a] = read] /\ depend' = [depend EXCEPT ![d] = "inactive"]
            BY <1>1, <2>3 DEF SetInactive, Satisfying
        <3> HIDE DEF read
        <3>2. Holding(f)' = Holding(f) \ {d}
            BY <1>0, <3>1 DEF Holding
        <3>3. Pending(f)' = IF f \in Row[d].er THEN Pending(f) \cup {a} ELSE Pending(f)
            BY <1>0, <2>1, <2>2, <3>1 DEF Pending
        <3>4. a \notin Pending(f)
            BY <2>2 DEF Pending
        <3>5. d \in Holding(f) <=> f \in Row[d].er
            BY <2>3 DEF Holding
        <3> QED
            BY <2>2, <3>2, <3>3, <3>4, <3>5 DEF Kept, Taken
    <2>4. CASE depend[d] # "active"
        <3>1. sat' = [sat EXCEPT ![a] = over] /\ UNCHANGED depend
            BY <1>1, <2>4 DEF SetInactive, Satisfying
        <3> HIDE DEF over
        <3>2. Pending(f)' = Pending(f)
            BY <1>0, <2>1, <2>2, <3>1 DEF Pending
        <3> QED
            BY <2>2, <3>1, <3>2 DEF Kept, Holding
    <2> QED
        BY <2>3, <2>4
<1>2. ASSUME GetDependentFrames(a)
      PROVE  Kept(f) \/ Charged(a, f)
    <2> DEFINE fs == {g \in Row[sat[a].cur].er : frame[g].count > 0}
               count == [sat[a] EXCEPT !.pc = "count", !.left = fs]
    <2>1. count.pc = "count" /\ count.left = fs
        BY <1>0 DEF Satisfaction
    <2>2. UNCHANGED <<frame, depend>> /\ sat[a].pc = "read"
        BY <1>2 DEF GetDependentFrames
    <2>3. \/ fs = {} /\ sat' = [sat EXCEPT ![a] = NextDepend(sat[a])]
          \/ sat' = [sat EXCEPT ![a] = count]
        BY <1>2 DEF GetDependentFrames, Satisfying
    <2>4. a \in Pending(f) <=> f \in Row[sat[a].cur].er
        BY <2>2 DEF Pending
    <2>5. f \in fs <=> f \in Row[sat[a].cur].er /\ frame[f].count > 0
        OBVIOUS
    <2> HIDE DEF count, fs
    <2>6. Pending(f)' = IF f \in fs THEN Pending(f) ELSE Pending(f) \ {a}
        BY <1>0, <1>n, <2>1, <2>2, <2>3, <2>4, <2>5 DEF Pending
    <2> QED
        BY <2>2, <2>4, <2>5, <2>6 DEF Kept, Charged, Holding
<1>3. ASSUME NEW g \in Frames, Decrement(a, g)
      PROVE  Kept(f) \/ Charged(a, f)
    <2> DEFINE rest == [sat[a] EXCEPT !.left = @ \ {g}]
    <2>1. rest.pc = "count" /\ rest.left = sat[a].left \ {g}
        BY <1>0, <1>3 DEF Satisfaction, Decrement
    <2>2. UNCHANGED depend /\ sat[a].pc = "count" /\ g \in sat[a].left
        BY <1>3 DEF Decrement
    <2>3. \/ sat[a].left = {g} /\ sat' = [sat EXCEPT ![a] = NextDepend(sat[a])]
          \/ sat' = [sat EXCEPT ![a] = rest]
        BY <1>3 DEF Decrement, Satisfying
    <2> HIDE DEF rest
    <2>4. Pending(f)' = IF f = g THEN Pending(f) \ {a} ELSE Pending(f)
        BY <1>0, <1>n, <2>1, <2>2, <2>3 DEF Pending
    <2>5. g \in Frames /\ [frame[g] EXCEPT !.count = @ - 1].count = frame[g].count - 1
        BY <1>0 DEF FrameRow
    <2>6. frame[g].count > 0 => [frame[g] EXCEPT !.count = @ - 1] \in FrameRow
        BY <1>0 DEF FrameRow
    <2>7. /\ IF frame[g].count > 0 THEN frame'[g].count = frame[g].count - 1
                                   ELSE frame'[g].count = frame[g].count
          /\ \A h \in Frames : h # g => frame'[h] = frame[h]
        BY <1>0, <1>3, <2>5, <2>6, SetFrameCount DEF Decrement, DecrementDependCount
    <2>8. g = f => a \in Pending(f)
        BY <2>2 DEF Pending
    <2> QED
        BY <2>2, <2>4, <2>7, <2>8 DEF Kept, Charged, Holding
<1> QED
    BY <1>1, <1>2, <1>3 DEF SatStep

\* Each of these keeps the balance.
LEMMA BooksCover ==
    ASSUME TypeInv, TypeInv', NEW a \in Satisfier, NEW f \in Frames, Covered(f),
           Kept(f) \/ Taken(a, f) \/ Charged(a, f), UNCHANGED user
    PROVE  Covered(f)'
<1>0. /\ frame[f].count \in Nat /\ frame'[f].count \in Nat
      /\ Owed(f)' = Owed(f) /\ Owed(f) \in 0..1
    BY DEF TypeInv, TypeOK, FrameRow, Owed
<1>1. CASE Kept(f)
    BY <1>0, <1>1, Finite, Eased DEF Kept
<1>2. CASE Taken(a, f)
    <2>1. PICK d \in Holding(f) : /\ a \notin Pending(f)
                                  /\ Holding(f)' = Holding(f) \ {d}
                                  /\ Pending(f)' = Pending(f) \cup {a}
                                  /\ frame'[f].count = frame[f].count
        BY <1>2 DEF Taken
    <2>2. Cardinality(Holding(f)') = Cardinality(Holding(f)) - 1
        BY <2>1, Finite, FS_RemoveElement
    <2>3. Cardinality(Pending(f)') = Cardinality(Pending(f)) + 1
        BY <2>1, Finite, FS_AddElement
    <2> QED
        BY <1>0, <2>1, <2>2, <2>3, Finite DEF Covered, Debt
<1>3. CASE Charged(a, f)
    <2>1. Cardinality(Pending(f)') = Cardinality(Pending(f)) - 1
        BY <1>3, Finite, FS_RemoveElement DEF Charged
    <2>2. CASE frame[f].count > 0
        BY <1>0, <1>3, <2>1, <2>2, Finite DEF Covered, Debt, Charged
    <2>3. CASE ~(frame[f].count > 0)
        BY <1>0, <1>3, <2>1, <2>3, Finite DEF Covered, Debt, Charged
    <2> QED
        BY <2>2, <2>3
<1> QED
    BY <1>1, <1>2, <1>3
-----------------------------------------------------------------------------
(* Everybody else.                                                         *)

\* A satisfaction begins anew, is over or is lost: it charges nothing any more.
Relieved ==
    \A b \in Satisfier : sat'[b] = sat[b] \/ sat'[b].pc = "next"

\* Nobody becomes pending on a frame by beginning anew.
LEMMA RelievedPending ==
    ASSUME Relieved
    PROVE  \A f : Pending(f)' \subseteq Pending(f)
BY DEF Relieved, Pending

\* One satisfaction that begins anew.
LEMMA BegunRelieved ==
    ASSUME TypeInv, NEW a \in Satisfier, NEW s, s.pc = "next", Satisfying(a, s)
    PROVE  Relieved
BY DEF Relieved, Satisfying, TypeInv, TypeOK

\* The worker and the sweep's reading do no more than that.
LEMMA OthersRelieved ==
    ASSUME TypeInv,
           \/ PostStep
           \/ SweepFind
           \/ \E a \in Satisfier : SatFails(a)
           \/ \E l \in Layers : CheckFails(l)
           \/ \E ds : DropDepends(ds)
    PROVE  Relieved /\ UNCHANGED <<frame, depend, user, excused>>
<1>0. \A ds : [NoSat EXCEPT !.todo = ds].pc = "next"
    BY DEF NoSat
<1>1. NoSat.pc = "next" /\ \A a \in Satisfier : NextDepend(sat[a]).pc = "next"
    BY DEF NoSat, NextDepend, TypeInv, TypeOK, Satisfaction
<1>2. UNCHANGED sat => Relieved
    BY DEF Relieved
<1>3. \A ds : /\ Satisfying("post", [NoSat EXCEPT !.todo = ds]) => Relieved
              /\ Satisfying("sweep", [NoSat EXCEPT !.todo = ds]) => Relieved
              /\ Satisfying("user", [NoSat EXCEPT !.todo = ds]) => Relieved
    BY <1>0, BegunRelieved DEF Satisfier
<1>4. CASE PostStep
    <2>1. DrainTo \/ LowerFlag \/ Recheck => UNCHANGED sat
        BY DEF DrainTo, LowerFlag, Recheck
    <2>2. FileFrame => Relieved
        BY <1>2, <1>3 DEF FileFrame
    <2>3. \A l \in Layers : FileLayer(l) => Relieved
        BY <1>2, <1>3 DEF FileLayer
    <2>4. UNCHANGED <<frame, depend, user, excused>>
        BY <1>4 DEF PostStep, DrainTo, FileFrame, FileLayer, LowerFlag, Recheck,
                    PostUnchanged
    <2> QED
        BY <1>2, <1>4, <2>1, <2>2, <2>3, <2>4 DEF PostStep
<1>5. CASE SweepFind
    BY <1>3, <1>5 DEF SweepFind
<1>6. ASSUME NEW a \in Satisfier, SatFails(a)
      PROVE  Relieved /\ UNCHANGED <<frame, depend, user, excused>>
    <2>1. PICK s : Satisfying(a, s) /\ s.pc = "next"
        BY <1>0, <1>1, <1>6 DEF SatFails
    <2>2. Relieved
        BY <2>1, BegunRelieved
    <2> QED
        BY <1>6, <2>2 DEF SatFails
<1>7. ASSUME NEW l \in Layers, CheckFails(l)
      PROVE  Relieved /\ UNCHANGED <<frame, depend, user, excused>>
    BY <1>2, <1>7 DEF CheckFails
<1>8. ASSUME NEW ds, DropDepends(ds)
      PROVE  Relieved /\ UNCHANGED <<frame, depend, user, excused>>
    BY <1>3, <1>8 DEF DropDepends
<1> QED
    BY <1>4, <1>5, <1>6, <1>7, <1>8

\* A request charges frames in some of its steps only.
UserLeft == user.pc \in {"idle", "insert", "read", "mark"} => user.left = {}

\* A request that is over has nothing left to charge.
LEMMA OrDoneSame ==
    ASSUME NEW u \in UserTask
    PROVE  /\ OrDone(u).left = u.left
           /\ OrDone(u) = u \/ OrDone(u) = UserIdle
BY DEF OrDone, UserIdle

\* The steps of a request keep what it says of user.left.
LEMMA UserLeftStays ==
    ASSUME TypeInv, UserLeft, UserStep
    PROVE  UserLeft'
<1>0. user \in UserTask
    BY DEF TypeInv, TypeOK
<1>1. ASSUME NEW u \in UserTask, user' = OrDone(u),
             u.pc \in {"charge", "onFrame", "onLayer"}
      PROVE  UserLeft'
    BY <1>1, OrDoneSame DEF UserLeft, UserIdle
<1>2. user' = UserIdle => UserLeft'
    BY DEF UserLeft, UserIdle
<1>3. CASE CreateInsert
    <2> DEFINE u == [user EXCEPT !.pc = "charge", !.left = Row[user.cur].er]
    <2>1. user.cur \in Deps
        BY <1>3 DEF CreateInsert, TypeInv, Working
    <2>2. u \in UserTask /\ u.pc = "charge"
        BY <1>0, <2>1, RowTypes DEF UserTask
    <2>3. user' = OrDone(u) \/ user' = UserIdle
        BY <1>3 DEF CreateInsert
    <2> HIDE DEF u
    <2> QED
        BY <1>1, <1>2, <2>2, <2>3
<1>4. CASE RetryReadFrame
    BY <1>0, <1>4 DEF RetryReadFrame, UserTask, UserLeft
<1>5. CASE RetryReadLayer
    <2> DEFINE u == [user EXCEPT !.pc = "onLayer",
                !.todo = WhatDependsOnLayer(LayerOf(user.frame), "inactive")]
    <2>1. u \in UserTask /\ u.pc = "onLayer"
        BY <1>0, WhatDependsTypes DEF UserTask
    <2>2. user' = OrDone(u)
        BY <1>5 DEF RetryReadLayer
    <2> HIDE DEF u
    <2> QED
        BY <1>1, <2>1, <2>2
<1>6. ASSUME NEW d \in Deps, SetActive(d)
      PROVE  UserLeft'
    <2> DEFINE u == [user EXCEPT !.todo = @ \ {d}, !.left = Row[d].er]
               v == [user EXCEPT !.todo = @ \ {d}]
    <2>1. user.pc \in {"onFrame", "onLayer"}
        BY <1>6 DEF SetActive
    <2>2. u \in UserTask /\ u.pc = user.pc /\ v \in UserTask /\ v.pc = user.pc
        BY <1>0, RowTypes DEF UserTask
    <2>3. user' = OrDone(u) \/ user' = OrDone(v)
        BY <1>6 DEF SetActive
    <2> HIDE DEF u, v
    <2> QED
        BY <1>1, <2>1, <2>2, <2>3
<1>7. ASSUME NEW g \in Frames, Charge(g)
      PROVE  UserLeft'
    <2> DEFINE u == [user EXCEPT !.left = @ \ {g}]
    <2>1. user.pc \in {"charge", "onFrame", "onLayer"}
        BY <1>0, <1>7 DEF Charge, UserLeft, UserTask
    <2>2. u \in UserTask /\ u.pc = user.pc
        BY <1>0 DEF UserTask
    <2>3. user' = OrDone(u)
        BY <1>7 DEF Charge
    <2> HIDE DEF u
    <2> QED
        BY <1>1, <2>1, <2>2, <2>3
<1>8. CASE MarkUpdate
    BY <1>2, <1>8 DEF MarkUpdate
<1> QED
    BY <1>3, <1>4, <1>5, <1>6, <1>7, <1>8 DEF UserStep

\* The steps of a request.
LEMMA UserCovers ==
    ASSUME TypeInv, TypeInv', UserLeft, UserStep, NEW f \in Frames, f \notin excused',
           Covered(f)
    PROVE  Covered(f)'
<1>0. /\ user \in UserTask /\ frame \in [Frames -> FrameRow]
      /\ depend \in [Deps -> {"absent", "active", "inactive"}]
      /\ frame[f].count \in Nat /\ frame'[f].count \in Nat
    BY DEF TypeInv, TypeOK, FrameRow
<1>p. UNCHANGED sat => Pending(f)' = Pending(f)
    BY DEF Pending
<1>h. UNCHANGED depend => Holding(f)' = Holding(f)
    BY DEF Holding
<1>c. ASSUME NEW d \in Deps, depend' = [depend EXCEPT ![d] = "active"],
             UNCHANGED <<frame, sat>>, user.left = {}, user'.left = Row[d].er
      PROVE  Covered(f)'
    <2>1. Holding(f)' = IF f \in Row[d].er THEN Holding(f) \cup {d} ELSE Holding(f)
        BY <1>0, <1>c DEF Holding
    <2>2. Owed(f) = 0 /\ Owed(f)' = IF f \in Row[d].er THEN 1 ELSE 0
        BY <1>c DEF Owed
    <2>3. Cardinality(Holding(f) \cup {d}) <= Cardinality(Holding(f)) + 1
        BY Finite, OneMore
    <2>4. Cardinality(Holding(f)') <= Cardinality(Holding(f)) + Owed(f)'
        BY <2>1, <2>2, <2>3, Finite
    <2> QED
        BY <1>0, <1>c, <1>p, <2>2, <2>4, Finite DEF Covered, Debt
<1>1. ASSUME CreateInsert
      PROVE  Covered(f)'
    <2>1. user.pc = "insert" /\ user.left = {} /\ user.cur \in Deps
        BY <1>1 DEF CreateInsert, UserLeft, TypeInv, Working
    <2> DEFINE u == [user EXCEPT !.pc = "charge", !.left = Row[user.cur].er]
    <2>2. u \in UserTask /\ u.pc = "charge" /\ u.left = Row[user.cur].er
        BY <1>0, <2>1, RowTypes DEF UserTask
    <2>3. UNCHANGED <<frame, sat>> /\ depend' = [depend EXCEPT ![user.cur] = user.row]
        BY <1>1 DEF CreateInsert, UserUnchanged
    <2>4. CASE user.row = "active"
        <3>1. user' = OrDone(u)
            BY <1>1, <2>4 DEF CreateInsert
        <3> HIDE DEF u
        <3>2. user'.left = Row[user.cur].er
            BY <2>2, <3>1, OrDoneSame
        <3> QED
            BY <1>c, <2>1, <2>3, <2>4, <3>2
    <2>5. CASE user.row # "active"
        <3>1. user' = UserIdle
            BY <1>1, <2>5 DEF CreateInsert
        <3>2. Holding(f)' \subseteq Holding(f)
            BY <1>0, <2>3, <2>5 DEF Holding
        <3>3. Owed(f)' = Owed(f) /\ Owed(f) = 0
            BY <2>1, <3>1 DEF UserIdle, Owed
        <3> QED
            BY <1>0, <1>p, <2>3, <3>2, <3>3, Eased
    <2> QED
        BY <2>4, <2>5
<1>2. ASSUME RetryReadFrame \/ RetryReadLayer
      PROVE  Covered(f)'
    <2>1. UNCHANGED <<frame, depend, sat>> /\ user.left = {}
        BY <1>2 DEF RetryReadFrame, RetryReadLayer, UserUnchanged, UserLeft
    <2>2. user'.left = {}
        <3>1. CASE RetryReadFrame
            BY <1>0, <2>1, <3>1 DEF RetryReadFrame, UserTask
        <3>2. CASE RetryReadLayer
            <4> DEFINE u == [user EXCEPT !.pc = "onLayer",
                        !.todo = WhatDependsOnLayer(LayerOf(user.frame), "inactive")]
            <4>1. u \in UserTask /\ u.left = {}
                BY <1>0, <2>1, WhatDependsTypes DEF UserTask
            <4>2. user' = OrDone(u)
                BY <3>2 DEF RetryReadLayer
            <4> QED
                BY <4>1, <4>2, OrDoneSame
        <3> QED
            BY <1>2, <3>1, <3>2
    <2>3. Owed(f)' = Owed(f) /\ Owed(f) \in 0..1
        BY <2>1, <2>2 DEF Owed
    <2> QED
        BY <1>0, <1>p, <1>h, <2>1, <2>2, <2>3, Eased DEF UserLeft
<1>3. ASSUME NEW d \in Deps, SetActive(d)
      PROVE  Covered(f)'
    <2> DEFINE u == [user EXCEPT !.todo = @ \ {d}, !.left = Row[d].er]
               v == [user EXCEPT !.todo = @ \ {d}]
    <2>1. user.pc \in {"onFrame", "onLayer"} /\ user.left = {} /\ UNCHANGED <<frame, sat>>
        BY <1>3 DEF SetActive, UserUnchanged
    <2>2. /\ u \in UserTask /\ u.left = Row[d].er /\ u.pc = user.pc
          /\ v \in UserTask /\ v.left = {} /\ v.pc = user.pc
        BY <1>0, <2>1, RowTypes DEF UserTask
    <2>3. \/ depend' = [depend EXCEPT ![d] = "active"] /\ user' = OrDone(u)
          \/ UNCHANGED depend /\ user' = OrDone(v)
        BY <1>3 DEF SetActive
    <2> HIDE DEF u, v
    <2>5. CASE depend' = [depend EXCEPT ![d] = "active"] /\ user' = OrDone(u)
        BY <1>c, <2>1, <2>2, <2>5, OrDoneSame
    <2>6. CASE UNCHANGED depend /\ user' = OrDone(v)
        <3>1. Owed(f)' = Owed(f) /\ Owed(f) = 0
            BY <2>1, <2>2, <2>6, OrDoneSame DEF Owed
        <3> QED
            BY <1>0, <1>p, <1>h, <2>1, <2>6, <3>1, Eased
    <2> QED
        BY <2>3, <2>5, <2>6
<1>4. ASSUME NEW g \in Frames, Charge(g)
      PROVE  Covered(f)'
    <2> DEFINE u == [user EXCEPT !.left = @ \ {g}]
    <2>1. /\ g \in user.left /\ UNCHANGED <<depend, sat>> /\ IncrementDependCount(g)
          /\ user' = OrDone(u)
        BY <1>4 DEF Charge, UserUnchanged
    <2>2. u \in UserTask /\ u.left = user.left \ {g} /\ u.pc = user.pc
        BY <1>0 DEF UserTask
    <2> HIDE DEF u
    <2>3. user'.left = user.left \ {g}
        BY <2>1, <2>2, OrDoneSame
    <2>4. [frame[g] EXCEPT !.count = @ + 1] \in FrameRow
          /\ [frame[g] EXCEPT !.count = @ + 1].count = frame[g].count + 1
        BY <1>0 DEF FrameRow
    <2>5. /\ frame'[g].count = frame[g].count + 1
          /\ \A k \in Frames : k # g => frame'[k] = frame[k]
        BY <1>0, <2>1, <2>4, SetFrameCount DEF IncrementDependCount
    <2>6. /\ f = g => Owed(f) = 1 /\ Owed(f)' = 0
          /\ f # g => Owed(f)' = Owed(f) /\ Owed(f) \in 0..1
        BY <2>1, <2>3 DEF Owed
    <2> QED
        BY <1>0, <1>p, <1>h, <2>1, <2>3, <2>5, <2>6, Finite DEF Covered, Debt
<1>5. ASSUME MarkUpdate
      PROVE  Covered(f)'
    <2>1. /\ user.pc = "mark" /\ user.left = {} /\ user' = UserIdle
          /\ UNCHANGED <<depend, sat>>
        BY <1>5 DEF MarkUpdate, UserLeft
    <2>2. frame'[f] = frame[f]
        <3>1. user.frame \in Frames
            BY <2>1 DEF TypeInv, Working
        <3> QED
            BY <1>0, <1>5, <3>1 DEF MarkUpdate
    <2>3. Owed(f)' = Owed(f) /\ Owed(f) = 0
        BY <2>1 DEF UserIdle, Owed
    <2> QED
        BY <1>0, <1>p, <1>h, <2>1, <2>2, <2>3, Eased
<1> QED
    BY <1>1, <1>2, <1>3, <1>4, <1>5 DEF UserStep

-----------------------------------------------------------------------------
(* HeldBack.                                                               *)

HeldInv ==
    /\ TypeInv
    /\ UserLeft
    /\ \A f \in Frames \ excused : Covered(f)

\* Initially every count is the number of depends that hold the frame.
LEMMA InitHeld == Init => HeldInv
<1> SUFFICES ASSUME Init PROVE HeldInv
    OBVIOUS
<1>1. TypeInv
    BY InitTypes
<1>2. UserLeft
    BY DEF Init, UserLeft, UserIdle
<1>3. \A f \in Frames : Pending(f) = {} /\ Owed(f) = 0
                        /\ frame[f].count = Cardinality(Holding(f))
    BY DEF Init, Pending, NoSat, Owed, UserIdle
<1>4. Cardinality({}) = 0
    BY FS_EmptySet
<1>5. \A f \in Frames : Covered(f)
    <2> SUFFICES ASSUME NEW f \in Frames PROVE Covered(f)
        OBVIOUS
    <2>1. Debt(f) = frame[f].count + 0
        BY <1>3, <1>4, Finite DEF Debt
    <2>2. frame[f].count + 0 \in Nat
        BY <1>3, Finite
    <2> QED
        BY <1>3, <2>1, <2>2 DEF Covered
<1> QED
    BY <1>1, <1>2, <1>5 DEF HeldInv

\* A frame whose count, rows and charges are as before.
LEMMA CoveredAlone ==
    ASSUME TypeInv, TypeInv', NEW f \in Frames, Covered(f),
           UNCHANGED <<depend, user>>, Relieved, frame'[f].count = frame[f].count
    PROVE  Covered(f)'
<1>1. Holding(f)' = Holding(f) /\ Owed(f)' = Owed(f) /\ Owed(f) \in 0..1
    BY DEF Holding, Owed
<1>2. Pending(f)' \subseteq Pending(f)
    BY RelievedPending
<1>3. frame[f].count \in Nat /\ frame'[f].count \in Nat
    BY DEF TypeInv, TypeOK, FrameRow
<1> QED
    BY <1>1, <1>2, <1>3, Eased

\* Requests: what has yet to be charged is nothing before them and after them.
LEMMA RequestsHeld ==
    ASSUME HeldInv, TypeInv', UserRequest
    PROVE  HeldInv'
<1>0. frame \in [Frames -> FrameRow]
    BY DEF HeldInv, TypeInv, TypeOK
<1>1. ASSUME UNCHANGED <<depend, sat>>, user.left = {}, user'.left = {}, UserLeft',
             \A f \in Frames \ excused' :
                 f \in Frames \ excused /\ frame'[f].count = frame[f].count
      PROVE  HeldInv'
    <2>1. ASSUME NEW f \in Frames \ excused'
          PROVE  Covered(f)'
        <3>1. /\ Holding(f)' = Holding(f) /\ Pending(f)' = Pending(f)
              /\ Owed(f)' = Owed(f) /\ Owed(f) = 0
            BY <1>1 DEF Holding, Pending, Owed
        <3>2. frame[f].count \in Nat /\ frame'[f].count = frame[f].count
            BY <1>0, <1>1 DEF FrameRow
        <3> QED
            BY <1>1, <3>1, <3>2, Eased DEF HeldInv
    <2> QED
        BY <1>1, <2>1 DEF HeldInv
<1>2. ASSUME NEW f \in Frames, NEW s \in FrameState, SetState(f, s)
      PROVE  \A g \in Frames : frame'[g].count = frame[g].count
    BY <1>0, <1>2, SetStateCount
<1>3. ASSUME NEW d \in Deps, CreateCheck(d)
      PROVE  HeldInv'
    <2>1. user.left = {} /\ user'.left = {} /\ UserLeft'
        BY <1>3 DEF CreateCheck, HeldInv, UserLeft, UserIdle
    <2> QED
        BY <1>1, <1>3, <2>1 DEF CreateCheck, UserUnchanged
<1>4. ASSUME NEW d \in Deps, UnsatisfyRequest(d)
      PROVE  HeldInv'
    <2>1. user.left = {} /\ user'.left = {} /\ UserLeft'
        BY <1>4 DEF UnsatisfyRequest, HeldInv, UserLeft, UserIdle
    <2> QED
        BY <1>1, <1>4, <2>1 DEF UnsatisfyRequest, UserUnchanged
<1>5. ASSUME NEW f \in Frames, RetryForce(f)
      PROVE  HeldInv'
    <2>1. user.left = {} /\ user'.left = {} /\ UserLeft'
        BY <1>5 DEF RetryForce, HeldInv, UserLeft, UserIdle
    <2>2. \A g \in Frames : frame'[g].count = frame[g].count
        BY <1>2, <1>5 DEF RetryForce, FrameState
    <2> QED
        BY <1>1, <1>5, <2>1, <2>2 DEF RetryForce, UserUnchanged
<1>6. ASSUME NEW f \in Frames, EatFrame(f)
      PROVE  HeldInv'
    <2>1. \A g \in Frames : frame'[g].count = frame[g].count
        BY <1>2, <1>6 DEF EatFrame, FrameState
    <2>2. UNCHANGED <<depend, sat, user, excused>> /\ Relieved
        BY <1>6 DEF EatFrame, Relieved
    <2> QED
        BY <2>1, <2>2, CoveredAlone DEF HeldInv, UserLeft
<1>7. ASSUME NEW f \in Frames, MarkAsWaiting(f)
      PROVE  HeldInv'
    <2>1. \A g \in Frames \ excused' : g \notin excused /\ frame'[g] = frame[g]
        BY <1>0, <1>7 DEF MarkAsWaiting
    <2>2. UNCHANGED <<depend, sat, user>> /\ Relieved
        BY <1>7 DEF MarkAsWaiting, Relieved
    <2> QED
        BY <2>1, <2>2, CoveredAlone DEF HeldInv, UserLeft
<1>8. ASSUME NEW f \in Frames, MarkAsDepend(f)
      PROVE  HeldInv'
    <2>1. user.left = {} /\ user'.left = {} /\ UserLeft'
        BY <1>8 DEF MarkAsDepend, HeldInv, UserLeft, UserIdle
    <2> QED
        BY <1>1, <1>8, <2>1 DEF MarkAsDepend, UserUnchanged
<1>9. ASSUME NEW ds, DropDepends(ds)
      PROVE  HeldInv'
    <2>1. Relieved /\ UNCHANGED <<frame, depend, user, excused>>
        BY <1>9, OthersRelieved DEF HeldInv
    <2> QED
        BY <2>1, CoveredAlone DEF HeldInv, UserLeft
<1> QED
    BY <1>3, <1>4, <1>5, <1>6, <1>7, <1>8, <1>9 DEF UserRequest

\* Failures, and a Cuebot that stops: who was charging, charges no more.
LEMMA FailuresHeld ==
    ASSUME HeldInv, TypeInv', Failure
    PROVE  HeldInv'
<1>1. ASSUME \/ \E a \in Satisfier : SatFails(a)
             \/ \E l \in Layers : CheckFails(l)
      PROVE  HeldInv'
    <2>1. Relieved /\ UNCHANGED <<frame, depend, user, excused>>
        BY <1>1, OthersRelieved DEF HeldInv
    <2> QED
        BY <2>1, CoveredAlone DEF HeldInv, UserLeft
<1>2. ASSUME NEW lost, CuebotStops(lost)
      PROVE  HeldInv'
    <2>1. UNCHANGED <<frame, depend>>
        BY <1>2 DEF CuebotStops
    <2>2. Relieved
        BY <1>2 DEF CuebotStops, Relieved, NoSat
    <2>3. UserLeft' /\ \A f \in Frames \ excused' : f \in Frames \ excused
                                                /\ Owed(f)' = Owed(f)
        BY <1>2 DEF CuebotStops, HeldInv, UserLeft, UserIdle, Owed
    <2>4. ASSUME NEW f \in Frames \ excused'
          PROVE  Covered(f)'
        <3>1. Holding(f)' = Holding(f) /\ Pending(f)' \subseteq Pending(f)
            BY <2>1, <2>2, RelievedPending DEF Holding
        <3>2. frame[f].count \in Nat /\ frame'[f].count = frame[f].count
            BY <2>1 DEF HeldInv, TypeInv, TypeOK, FrameRow
        <3>3. Owed(f)' = Owed(f) /\ Owed(f) \in 0..1
            BY <2>3 DEF Owed
        <3> QED
            BY <2>3, <3>1, <3>2, <3>3, Eased DEF HeldInv
    <2> QED
        BY <2>3, <2>4 DEF HeldInv
<1> QED
    BY <1>1, <1>2 DEF Failure

\* The sweep resets a count that no depend holds and nobody has yet to charge
\* off: no satisfaction is between its statements then, unless a thread stalls.
LEMMA FixHeld ==
    ASSUME HeldInv, TypeInv', SweepFix, ~Stall
    PROVE  HeldInv'
<1>0. UNCHANGED <<depend, sat, user, excused>> /\ \A f : Pending(f) = {}
    BY DEF SweepFix, Pending
<1>1. ASSUME NEW f \in Frames \ excused
      PROVE  Covered(f)'
    <2>1. CASE StuckCount(f)
        <3>1. Holding(f)' = {} /\ Pending(f)' = {} /\ Cardinality({}) = 0
            BY <1>0, <2>1, FS_EmptySet DEF StuckCount, Holding, Pending
        <3>2. frame'[f].count \in Nat /\ Owed(f)' \in 0..1
            BY DEF TypeInv, TypeOK, FrameRow, Owed
        <3> QED
            BY <3>1, <3>2 DEF Covered, Debt
    <2>2. CASE ~StuckCount(f)
        <3>1. frame'[f] = frame[f] /\ Relieved
            BY <1>0, <2>2 DEF SweepFix, Relieved
        <3> QED
            BY <1>0, <3>1, CoveredAlone DEF HeldInv
    <2> QED
        BY <2>1, <2>2
<1> QED
    BY <1>0, <1>1 DEF HeldInv, UserLeft

\* Every step keeps the balance of the frames that are not excused.
LEMMA NextHeld ==
    ASSUME HeldInv, [Next]_vars, ~Stall
    PROVE  HeldInv'
<1>0. TypeInv' /\ frame \in [Frames -> FrameRow]
    BY NextTypes, StutterTypes DEF HeldInv, TypeInv, TypeOK
<1>a. ASSUME UNCHANGED <<depend, user, excused>>, Relieved,
             \A f \in Frames : frame'[f].count = frame[f].count
      PROVE  HeldInv'
    BY <1>0, <1>a, CoveredAlone DEF HeldInv, UserLeft
<1>1. ASSUME NEW f \in Frames, Start(f)
      PROVE  HeldInv'
    <2>1. \A g \in Frames : frame'[g].count = frame[g].count
        BY <1>0, <1>1, SetStateCount DEF Start, FrameState
    <2> QED
        BY <1>a, <1>1, <2>1 DEF Start, Relieved
<1>2. ASSUME NEW f \in Frames, NEW r \in Outcomes[f], Finish(f, r)
      PROVE  HeldInv'
    <2>1. r \in FrameState
        BY DependsAssumption DEF FrameState, Outcome
    <2>2. \A g \in Frames : frame'[g].count = frame[g].count
        BY <1>0, <1>2, <2>1, SetStateCount DEF Finish
    <2> QED
        BY <1>a, <1>2, <2>2 DEF Finish, Relieved
<1>3. CASE QueuePostOps
    BY <1>a, <1>3 DEF QueuePostOps, Relieved
<1>4. CASE PostStep \/ SweepFind
    <2>1. Relieved /\ UNCHANGED <<frame, depend, user, excused>>
        BY <1>4, OthersRelieved DEF HeldInv
    <2> QED
        BY <1>a, <2>1
<1>5. ASSUME NEW a \in Satisfier, SatStep(a)
      PROVE  HeldInv'
    <2>1. UNCHANGED <<user, excused>>
        BY <1>5 DEF SatStep, SetInactive, GetDependentFrames, Decrement
    <2>2. \A f \in Frames \ excused : Covered(f)'
        BY <1>0, <1>5, <2>1, SatBooks, BooksCover DEF HeldInv
    <2> QED
        BY <1>0, <2>1, <2>2 DEF HeldInv, UserLeft
<1>6. CASE SweepFix
    BY <1>0, <1>6, FixHeld
<1>7. CASE UserStep
    <2>1. excused \subseteq excused'
        <3>1. MarkUpdate => excused \subseteq excused'
            BY DEF MarkUpdate
        <3>2. UserStep /\ ~MarkUpdate => UNCHANGED excused
            BY DEF UserStep, CreateInsert, RetryReadFrame, RetryReadLayer,
                   SetActive, Charge, UserUnchanged
        <3> QED
            BY <1>7, <3>1, <3>2
    <2>2. \A f \in Frames \ excused' : Covered(f)'
        BY <1>0, <1>7, <2>1, UserCovers DEF HeldInv
    <2>3. UserLeft'
        BY <1>0, <1>7, UserLeftStays DEF HeldInv
    <2> QED
        BY <1>0, <2>2, <2>3 DEF HeldInv
<1>8. CASE UserRequest
    BY <1>0, <1>8, RequestsHeld
<1>9. CASE Failure
    BY <1>0, <1>9, FailuresHeld
<1>10. CASE UNCHANGED vars
    BY <1>a, <1>10 DEF vars, Relieved
<1> QED
    BY <1>1, <1>2, <1>3, <1>4, <1>5, <1>6, <1>7, <1>8, <1>9, <1>10 DEF Next

\* HeldBack: no depend is dropped from a count twice.  The sweep alone could
\* reset a count between the statements of a satisfaction, and it does not find
\* one there unless a thread stalls for minutes (~Stall).
THEOREM HeldBackCorrect ==
    ASSUME ~Stall
    PROVE  Spec => []HeldBack
<1>1. Init => HeldInv
    BY InitHeld
<1>2. HeldInv /\ [Next]_vars => HeldInv'
    BY NextHeld
<1>3. HeldInv => HeldBack
    <2> SUFFICES ASSUME HeldInv, NEW f \in Frames \ (excused \cup user.left)
                 PROVE  Cardinality(Holding(f)) =< frame[f].count
        BY DEF HeldBack
    <2>1. Owed(f) = 0 /\ frame[f].count \in Nat
        BY DEF Owed, HeldInv, TypeInv, TypeOK, FrameRow
    <2> QED
        BY <2>1, Finite DEF HeldInv, Covered, Debt
<1> QED
    BY <1>1, <1>2, <1>3, PTL DEF Spec

-----------------------------------------------------------------------------
(* As long as no user intervenes.                                          *)

InSeq(c, s) == \E i \in 1..Len(s) : s[i] = c

\* A completion the worker has yet to file.
Unfiled(c) == InSeq(c, queue) \/ InSeq(c, post.scoop)

Succeeded(g) == [frame |-> g, result |-> "SUCCEEDED"]

\* Only a frame in DEPEND has a count.
Counted == \A f \in Frames : frame[f].count > 0 => frame[f].state = "DEPEND"

\* What was satisfied, or is about to be, is what had come to pass.
Earned ==
    /\ \A d \in Deps : depend[d] = "inactive" => Fulfilled(d)
    /\ \A a \in Satisfier : \A d \in sat[a].todo : Fulfilled(d)

\* The worker's completions are of frames that still are as they ended, and so
\* is what it reads again after a failure.
Current ==
    /\ \A g \in Frames : Unfiled(Succeeded(g)) => frame[g].state = "SUCCEEDED"
    /\ Idle("post") \/ post.pc \in {"file", "layer"}
    /\ post.pc = "file" /\ ~Idle("post") =>
           post.item \in Frames /\ frame[post.item].state = "SUCCEEDED"
    /\ post.pc = "layer" /\ ~Idle("post") =>
           post.item \in Frames /\ IsLayerComplete(LayerOf(post.item))

\* A count that was reset has no depend left to account for.
Accounted == \A f \in Frames : Holding(f) = {} \/ Covered(f)

Calm ==
    /\ user = UserIdle /\ excused = {} /\ Idle("user")
    /\ Counted
    /\ Earned
    /\ Current
    /\ Accounted

CalmInv == TypeInv /\ (requestsLeft = MaxRequests => Calm)

\* The steps nobody asked for.
Unasked ==
    \/ \E f \in Frames : Start(f)
    \/ \E f \in Frames : \E r \in Outcomes[f] : Finish(f, r)
    \/ QueuePostOps
    \/ PostStep
    \/ \E a \in Satisfier : SatStep(a)
    \/ SweepFind
    \/ SweepFix
    \/ Failure

\* As long as no request is made, only the steps nobody asked for are taken.
LEMMA OnlyUnasked ==
    ASSUME CalmInv, Next, requestsLeft' = MaxRequests
    PROVE  requestsLeft = MaxRequests /\ Unasked
<1>1. requestsLeft \in 0..MaxRequests /\ MaxRequests \in Nat
    BY DependsAssumption DEF CalmInv, TypeInv, TypeOK
<1>2. ~UserRequest
    <2>1. \A request : ~Asked(request)
        BY <1>1 DEF Asked
    <2> QED
        BY <2>1 DEF UserRequest, CreateCheck, UnsatisfyRequest, DropDepends, RetryForce,
                    EatFrame, MarkAsWaiting, MarkAsDepend
<1>3. requestsLeft = MaxRequests
    <2>1. (\E f \in Frames : Start(f) \/ \E r \in Outcomes[f] : Finish(f, r))
             => UNCHANGED requestsLeft
        BY DEF Start, Finish, bounds
    <2>2. QueuePostOps \/ SweepFind \/ SweepFix => UNCHANGED requestsLeft
        BY DEF QueuePostOps, SweepFind, SweepFix, bounds
    <2>3. PostStep => UNCHANGED requestsLeft
        BY DEF PostStep, DrainTo, FileFrame, FileLayer, LowerFlag, Recheck,
               PostUnchanged, bounds
    <2>4. (\E a \in Satisfier : SatStep(a)) => UNCHANGED requestsLeft
        BY DEF SatStep, SetInactive, GetDependentFrames, Decrement, bounds
    <2>5. UserStep => UNCHANGED requestsLeft
        BY DEF UserStep, CreateInsert, RetryReadFrame, RetryReadLayer, SetActive,
               Charge, MarkUpdate, bounds
    <2>6. Failure => UNCHANGED requestsLeft
        BY DEF Failure, SatFails, CheckFails, CuebotStops, Spend
    <2> QED
        BY <1>2, <2>1, <2>2, <2>3, <2>4, <2>5, <2>6 DEF Next
<1>4. user.pc = "idle" /\ user.left = {}
    BY <1>3 DEF CalmInv, Calm, UserIdle
<1>5. ~UserStep
    BY <1>4 DEF UserStep, CreateInsert, RetryReadFrame, RetryReadLayer, SetActive,
                Charge, MarkUpdate
<1> QED
    BY <1>2, <1>3, <1>5 DEF Next, Unasked

\* Membership in the sequences of completions.
LEMMA InSeqAppend ==
    ASSUME NEW s \in Seq(Completion), NEW c \in Completion, NEW e
    PROVE  InSeq(e, Append(s, c)) <=> InSeq(e, s) \/ e = c
<1>1. /\ Len(Append(s, c)) = Len(s) + 1 /\ Len(s) \in Nat
      /\ \A i \in 1..Len(s) : Append(s, c)[i] = s[i]
      /\ Append(s, c)[Len(s) + 1] = c
    OBVIOUS
<1> QED
    BY <1>1 DEF InSeq

\* A completion is taken off the front.
LEMMA InSeqTail ==
    ASSUME NEW s \in Seq(Completion), s # <<>>, NEW e
    PROVE  InSeq(e, s) <=> InSeq(e, Tail(s)) \/ e = Head(s)
<1>1. /\ Len(s) \in Nat \ {0} /\ Len(Tail(s)) = Len(s) - 1 /\ Head(s) = s[1]
      /\ \A i \in 1..(Len(s) - 1) : Tail(s)[i] = s[i + 1]
    OBVIOUS
<1>2. ASSUME InSeq(e, s)
      PROVE  InSeq(e, Tail(s)) \/ e = Head(s)
    <2>1. PICK i \in 1..Len(s) : s[i] = e
        BY <1>2 DEF InSeq
    <2>2. CASE i = 1
        BY <1>1, <2>1, <2>2
    <2>3. CASE i # 1
        <3>1. i - 1 \in 1..(Len(s) - 1) /\ (i - 1) + 1 = i
            BY <1>1, <2>3
        <3>2. Tail(s)[i - 1] = e
            BY <1>1, <2>1, <3>1
        <3> QED
            BY <1>1, <3>1, <3>2 DEF InSeq
    <2> QED
        BY <2>2, <2>3
<1>3. ASSUME InSeq(e, Tail(s)) \/ e = Head(s)
      PROVE  InSeq(e, s)
    <2>1. CASE InSeq(e, Tail(s))
        <3>1. PICK i \in 1..(Len(s) - 1) : Tail(s)[i] = e
            BY <1>1, <2>1 DEF InSeq
        <3>2. i + 1 \in 1..Len(s) /\ s[i + 1] = e
            BY <1>1, <3>1
        <3> QED
            BY <3>2 DEF InSeq
    <2>2. CASE e = Head(s)
        BY <1>1, <2>2 DEF InSeq
    <2> QED
        BY <1>3, <2>1, <2>2
<1> QED
    BY <1>2, <1>3

\* Nothing is in the empty sequence.
LEMMA InSeqEmpty == \A e : ~InSeq(e, <<>>)
BY DEF InSeq

\* A satisfaction that begins anew.
LEMMA Begun ==
    ASSUME TypeInv, NEW a \in Satisfier, NEW ds, Satisfying(a, [NoSat EXCEPT !.todo = ds])
    PROVE  /\ sat'[a].pc = "next" /\ sat'[a].todo = ds
           /\ \A b \in Satisfier : b # a => sat'[b] = sat[b]
<1> DEFINE new == [NoSat EXCEPT !.todo = ds]
<1>1. new.pc = "next" /\ new.todo = ds
    BY DEF NoSat
<1>2. sat' = [sat EXCEPT ![a] = new]
    BY DEF Satisfying
<1> HIDE DEF new
<1> QED
    BY <1>1, <1>2 DEF TypeInv, TypeOK

\* A statement of a satisfaction: a depend it strikes off is active no more, and
\* no other row is touched.
LEMMA SatRows ==
    ASSUME TypeInv, NEW a \in Satisfier, SatStep(a)
    PROVE  /\ ~Idle(a)
           /\ \A b \in Satisfier : b # a => sat'[b] = sat[b]
           /\ sat'[a].todo \subseteq sat[a].todo
           /\ \A d \in sat[a].todo : d \in sat'[a].todo \/ depend'[d] # "active"
           /\ \A d \in Deps : depend'[d] = depend[d]
                              \/ (d \in sat[a].todo /\ depend'[d] = "inactive")
<1>0. /\ sat \in [Satisfier -> Satisfaction] /\ sat[a] \in Satisfaction
      /\ depend \in [Deps -> {"absent", "active", "inactive"}]
    BY DEF TypeInv, TypeOK
<1>n. NextDepend(sat[a]).todo = sat[a].todo
    BY <1>0 DEF NextDepend, Satisfaction
<1>1. ASSUME NEW d \in Deps, SetInactive(a, d)
      PROVE  /\ ~Idle(a)
             /\ \A b \in Satisfier : b # a => sat'[b] = sat[b]
             /\ sat'[a].todo = sat[a].todo \ {d} /\ d \in sat[a].todo
             /\ depend'[d] # "active"
             /\ \A e \in Deps : depend'[e] = depend[e] \/ (e = d /\ depend'[e] = "inactive")
    <2> DEFINE read == [sat[a] EXCEPT !.pc = "read", !.cur = d, !.todo = @ \ {d}]
               over == [sat[a] EXCEPT !.todo = @ \ {d}]
    <2>1. read.todo = sat[a].todo \ {d} /\ over.todo = sat[a].todo \ {d}
        BY <1>0 DEF Satisfaction
    <2>2. \/ depend' = [depend EXCEPT ![d] = "inactive"] /\ sat' = [sat EXCEPT ![a] = read]
          \/ depend[d] # "active" /\ UNCHANGED depend /\ sat' = [sat EXCEPT ![a] = over]
        BY <1>1 DEF SetInactive, Satisfying
    <2>3. d \in sat[a].todo
        BY <1>1 DEF SetInactive
    <2> HIDE DEF read, over
    <2>4. ~Idle(a)
        BY <2>3 DEF Idle
    <2>5. depend'[d] # "active"
        BY <1>0, <2>2
    <2>6. \A e \in Deps : depend'[e] = depend[e] \/ (e = d /\ depend'[e] = "inactive")
        BY <1>0, <2>2
    <2>7. /\ \A b \in Satisfier : b # a => sat'[b] = sat[b]
          /\ sat'[a].todo = sat[a].todo \ {d}
        BY <1>0, <2>1, <2>2
    <2> QED
        BY <2>3, <2>4, <2>5, <2>6, <2>7
<1>2. ASSUME UNCHANGED depend, sat[a].pc # "next", NEW s, s.todo = sat[a].todo,
             sat' = [sat EXCEPT ![a] = s]
      PROVE  /\ ~Idle(a)
             /\ \A b \in Satisfier : b # a => sat'[b] = sat[b]
             /\ sat'[a].todo = sat[a].todo
             /\ \A e \in Deps : depend'[e] = depend[e]
    BY <1>0, <1>2 DEF Idle
<1>3. ASSUME GetDependentFrames(a)
      PROVE  \E s : /\ UNCHANGED depend /\ sat[a].pc # "next" /\ s.todo = sat[a].todo
                    /\ sat' = [sat EXCEPT ![a] = s]
    <2> DEFINE fs == {g \in Row[sat[a].cur].er : frame[g].count > 0}
               count == [sat[a] EXCEPT !.pc = "count", !.left = fs]
    <2>1. count.todo = sat[a].todo
        BY <1>0 DEF Satisfaction
    <2>2. \/ sat' = [sat EXCEPT ![a] = NextDepend(sat[a])]
          \/ sat' = [sat EXCEPT ![a] = count]
        BY <1>3 DEF GetDependentFrames, Satisfying
    <2>3. UNCHANGED depend /\ sat[a].pc # "next"
        BY <1>3 DEF GetDependentFrames
    <2> HIDE DEF count
    <2> QED
        BY <1>n, <2>1, <2>2, <2>3
<1>4. ASSUME NEW g \in Frames, Decrement(a, g)
      PROVE  \E s : /\ UNCHANGED depend /\ sat[a].pc # "next" /\ s.todo = sat[a].todo
                    /\ sat' = [sat EXCEPT ![a] = s]
    <2> DEFINE rest == [sat[a] EXCEPT !.left = @ \ {g}]
    <2>1. rest.todo = sat[a].todo
        BY <1>0 DEF Satisfaction
    <2>2. \/ sat' = [sat EXCEPT ![a] = NextDepend(sat[a])]
          \/ sat' = [sat EXCEPT ![a] = rest]
        BY <1>4 DEF Decrement, Satisfying
    <2>3. UNCHANGED depend /\ sat[a].pc # "next"
        BY <1>4 DEF Decrement
    <2> HIDE DEF rest
    <2> QED
        BY <1>n, <2>1, <2>2, <2>3
<1>5. CASE \E d \in Deps : SetInactive(a, d)
    <2>1. PICK d \in Deps : SetInactive(a, d)
        BY <1>5
    <2>2. /\ ~Idle(a)
          /\ \A b \in Satisfier : b # a => sat'[b] = sat[b]
          /\ sat'[a].todo = sat[a].todo \ {d} /\ d \in sat[a].todo
          /\ depend'[d] # "active"
          /\ \A e \in Deps : depend'[e] = depend[e] \/ (e = d /\ depend'[e] = "inactive")
        BY <1>1, <2>1
    <2> QED
        BY <2>2
<1>6. CASE GetDependentFrames(a) \/ \E g \in Frames : Decrement(a, g)
    BY <1>2, <1>3, <1>4, <1>6
<1> QED
    BY <1>5, <1>6 DEF SatStep

-----------------------------------------------------------------------------
(* Frame states.                                                           *)

\* What has succeeded or was eaten stays so.
Settled == \A f \in Frames : Complete(f) => frame'[f].state = frame[f].state

\* Nothing else becomes so than what this step says.
NoneSucceeds ==
    \A f \in Frames : frame'[f].state = "SUCCEEDED" => frame[f].state = "SUCCEEDED"

\* What the triggers make of the states that the steps nobody asked for write.
LEMMA TriggeredState ==
    ASSUME NEW old \in FrameRow, NEW new \in FrameRow,
           old.count > 0 => old.state = "DEPEND"
    PROVE  /\ old.count = 0 /\ new.count = 0 /\ old.state = "RUNNING" =>
                  Triggered(old, new) = new
           /\ old.state = "DEPEND" /\ new.state = "DEPEND" =>
                  /\ Triggered(old, new).state \in {"DEPEND", "WAITING"}
                  /\ Triggered(old, new).count > 0 => Triggered(old, new).state = "DEPEND"
<1>1. [new EXCEPT !.state = "WAITING"].state = "WAITING"
      /\ [new EXCEPT !.state = "WAITING"].count = new.count
      /\ [new EXCEPT !.state = "DEPEND"].state = "DEPEND"
    BY DEF FrameRow
<1> QED
    BY <1>1 DEF Triggered, FrameRow

\* A frame that starts.
LEMMA StartState ==
    ASSUME TypeInv, Counted, NEW f \in Frames, Start(f)
    PROVE  Counted' /\ Settled /\ NoneSucceeds
<1> DEFINE new == [frame[f] EXCEPT !.state = "RUNNING"]
<1>1. frame \in [Frames -> FrameRow] /\ frame[f].state = "WAITING" /\ frame[f].count = 0
    BY DEF TypeInv, TypeOK, Start, Counted, FrameRow
<1>2. new \in FrameRow /\ new.state = "RUNNING" /\ new.count = 0
    BY <1>1 DEF FrameRow, FrameState
<1>3. frame' = [frame EXCEPT ![f] = Triggered(frame[f], new)]
    BY DEF Start, SetState, SetFrame
<1> HIDE DEF new
<1>4. Triggered(frame[f], new) = new
    BY <1>1, <1>2 DEF Triggered
<1> QED
    BY <1>1, <1>2, <1>3, <1>4 DEF Counted, Settled, NoneSucceeds, Complete

\* A frame that ends is as it ended: it has no count that would put it in DEPEND.
LEMMA FinishState ==
    ASSUME TypeInv, Counted, NEW f \in Frames, NEW r \in Outcomes[f], Finish(f, r)
    PROVE  /\ Counted' /\ Settled
           /\ frame'[f].state = r /\ \A g \in Frames : g # f => frame'[g] = frame[g]
<1> DEFINE new == [frame[f] EXCEPT !.state = r]
<1>0. r \in Outcome
    BY DependsAssumption
<1>1. frame \in [Frames -> FrameRow] /\ frame[f].state = "RUNNING" /\ frame[f].count = 0
    BY DEF TypeInv, TypeOK, Finish, Counted, FrameRow
<1>2. new \in FrameRow /\ new.state = r /\ new.count = 0
    BY <1>0, <1>1 DEF FrameRow, FrameState, Outcome
<1>3. frame' = [frame EXCEPT ![f] = Triggered(frame[f], new)]
    BY DEF Finish, SetState, SetFrame
<1> HIDE DEF new
<1>4. Triggered(frame[f], new) = new
    BY <1>1, <1>2 DEF Triggered
<1> QED
    BY <1>1, <1>2, <1>3, <1>4 DEF Counted, Settled, Complete

\* A count that goes down releases the frame, or leaves it in DEPEND.
LEMMA SatState ==
    ASSUME TypeInv, Counted, NEW a \in Satisfier, SatStep(a)
    PROVE  Counted' /\ Settled /\ NoneSucceeds
<1>0. frame \in [Frames -> FrameRow]
    BY DEF TypeInv, TypeOK
<1>1. CASE UNCHANGED frame
    BY <1>1 DEF Counted, Settled, NoneSucceeds
<1>2. ASSUME NEW f \in Frames, frame[f].count > 0,
             SetFrame(f, [frame[f] EXCEPT !.count = @ - 1])
      PROVE  Counted' /\ Settled /\ NoneSucceeds
    <2> DEFINE new == [frame[f] EXCEPT !.count = @ - 1]
    <2>1. frame[f].state = "DEPEND" /\ frame[f] \in FrameRow
        BY <1>0, <1>2 DEF Counted
    <2>2. new \in FrameRow /\ new.state = "DEPEND"
        BY <1>2, <2>1 DEF FrameRow
    <2>3. frame' = [frame EXCEPT ![f] = Triggered(frame[f], new)]
        BY <1>2 DEF SetFrame
    <2> HIDE DEF new
    <2>4. /\ Triggered(frame[f], new).state \in {"DEPEND", "WAITING"}
          /\ Triggered(frame[f], new).count > 0 =>
                 Triggered(frame[f], new).state = "DEPEND"
        BY <2>1, <2>2, TriggeredState
    <2> QED
        BY <1>0, <2>1, <2>3, <2>4 DEF Counted, Settled, NoneSucceeds, Complete
<1>3. \/ UNCHANGED frame
      \/ \E f \in Frames : frame[f].count > 0
                           /\ SetFrame(f, [frame[f] EXCEPT !.count = @ - 1])
    BY DEF SatStep, SetInactive, GetDependentFrames, Decrement, DecrementDependCount
<1> QED
    BY <1>1, <1>2, <1>3

\* So does a count that is reset.
LEMMA FixState ==
    ASSUME TypeInv, Counted, SweepFix
    PROVE  Counted' /\ Settled /\ NoneSucceeds
<1>0. frame \in [Frames -> FrameRow]
    BY DEF TypeInv, TypeOK
<1> SUFFICES ASSUME NEW f \in Frames
             PROVE  /\ frame'[f].count > 0 => frame'[f].state = "DEPEND"
                    /\ Complete(f) => frame'[f].state = frame[f].state
                    /\ frame'[f].state = "SUCCEEDED" => frame[f].state = "SUCCEEDED"
    BY DEF Counted, Settled, NoneSucceeds
<1>1. CASE StuckCount(f)
    <2> DEFINE new == [frame[f] EXCEPT !.count = 0]
    <2>1. frame[f].state = "DEPEND" /\ frame[f] \in FrameRow
        BY <1>0, <1>1 DEF StuckCount
    <2>2. new \in FrameRow /\ new.state = "DEPEND"
        BY <2>1 DEF FrameRow
    <2>3. frame'[f] = Triggered(frame[f], new)
        BY <1>1 DEF SweepFix
    <2> HIDE DEF new
    <2> QED
        BY <2>1, <2>2, <2>3, TriggeredState DEF Complete
<1>2. CASE ~StuckCount(f)
    <2>1. frame'[f] = frame[f]
        BY <1>2 DEF SweepFix
    <2> QED
        BY <2>1 DEF Counted
<1> QED
    BY <1>1, <1>2

\* The states of frames through the steps nobody asked for.
LEMMA UnaskedState ==
    ASSUME TypeInv, Counted, Unasked \/ UNCHANGED vars
    PROVE  /\ Counted' /\ Settled
           /\ (\E f \in Frames : \E r \in Outcomes[f] : Finish(f, r)) \/ NoneSucceeds
<1>1. CASE UNCHANGED frame
    BY <1>1 DEF Counted, Settled, NoneSucceeds
<1>2. QueuePostOps \/ SweepFind \/ Failure \/ UNCHANGED vars => UNCHANGED frame
    BY DEF QueuePostOps, SweepFind, Failure, SatFails, CheckFails, CuebotStops, vars
<1>3. PostStep => UNCHANGED frame
    BY DEF PostStep, DrainTo, FileFrame, FileLayer, LowerFlag, Recheck, PostUnchanged
<1> QED
    BY <1>1, <1>2, <1>3, StartState, FinishState, SatState, FixState DEF Unasked

\* A condition that came to pass stays so.
LEMMA FulfilledStays ==
    ASSUME Settled
    PROVE  /\ \A d \in Deps : Fulfilled(d) => Fulfilled(d)'
           /\ \A f \in Frames :
                  frame[f].state = "SUCCEEDED" => frame'[f].state = "SUCCEEDED"
           /\ \A l \in Layers : IsLayerComplete(l) => IsLayerComplete(l)'
<1>1. \A f \in Frames : /\ Complete(f) => Complete(f)'
                        /\ frame[f].state = "SUCCEEDED" => frame'[f].state = "SUCCEEDED"
    BY DEF Settled, Complete
<1>2. \A d \in Deps : Row[d].on \subseteq Frames
    BY DependsAssumption DEF DependRow
<1>3. \A l \in Layers : l \subseteq Frames
    BY DependsAssumption
<1> QED
    BY <1>1, <1>2, <1>3 DEF Fulfilled, IsLayerComplete

-----------------------------------------------------------------------------
(* Calm, step by step.                                                     *)

\* What is looked up to be satisfied has come to pass.
LEMMA FoundFulfilled ==
    /\ \A g \in Frames : frame[g].state = "SUCCEEDED" =>
           \A active : \A d \in WhatDependsOnFrame(g, active) : Fulfilled(d)
    /\ \A l \in Layers : IsLayerComplete(l) =>
           \A active : \A d \in WhatDependsOnLayer(l, active) : Fulfilled(d)
    /\ \A d \in StaleDepends : Fulfilled(d)
<1>1. ASSUME NEW g \in Frames, frame[g].state = "SUCCEEDED", NEW active,
             NEW d \in WhatDependsOnFrame(g, active)
      PROVE  Fulfilled(d)
    <2>1. d \in Deps /\ g \in Row[d].on
        BY DEF WhatDependsOnFrame
    <2>2. CASE Row[d].type \in OnFrame
        <3>1. Row[d].on = {g}
            BY <2>1, <2>2, RowAssumption
        <3> QED
            BY <1>1, <2>2, <3>1 DEF Fulfilled
    <2>3. CASE Row[d].type \notin OnFrame
        BY <1>1, <2>1, <2>3 DEF Fulfilled, WhatDependsOnFrame
    <2> QED
        BY <2>2, <2>3
<1>2. ASSUME NEW l \in Layers, IsLayerComplete(l), NEW active,
             NEW d \in WhatDependsOnLayer(l, active)
      PROVE  Fulfilled(d)
    BY <1>2 DEF WhatDependsOnLayer, Fulfilled, IsLayerComplete, OnLayer, OnFrame
<1>3. ASSUME NEW d \in StaleDepends
      PROVE  Fulfilled(d)
    BY DEF StaleDepends, Fulfilled, Complete
<1> QED
    BY <1>1, <1>2, <1>3

\* What is left to satisfy after a failure.
LEMMA FailedTodo ==
    ASSUME TypeInv, NEW a \in Satisfier, SatFails(a)
    PROVE  /\ ~Idle(a)
           /\ \A b \in Satisfier : b # a => sat'[b] = sat[b]
           /\ \/ sat'[a].todo \subseteq sat[a].todo
              \/ a = "post" /\ sat'[a].todo = Reread
<1>0. sat \in [Satisfier -> Satisfaction] /\ sat[a] \in Satisfaction
    BY DEF TypeInv, TypeOK
<1>1. ~Idle(a)
    BY DEF SatFails
<1>2. CASE a = "post" /\ post.tries < DependTries
    <2>1. Satisfying(a, [NoSat EXCEPT !.todo = Reread])
        BY <1>2 DEF SatFails
    <2> QED
        BY <1>1, <1>2, <2>1, Begun
<1>3. CASE ~(a = "post" /\ post.tries < DependTries)
    <2> DEFINE new == IF a = "sweep" THEN NextDepend(sat[a]) ELSE NoSat
    <2>1. new.todo \subseteq sat[a].todo
        BY <1>0 DEF NextDepend, NoSat, Satisfaction
    <2>2. sat' = [sat EXCEPT ![a] = new]
        BY <1>3 DEF SatFails, Satisfying
    <2> HIDE DEF new
    <2> QED
        BY <1>0, <1>1, <2>1, <2>2
<1> QED
    BY <1>2, <1>3

\* What the worker satisfies.
LEMMA FiledTodo ==
    ASSUME TypeInv, Current, PostStep
    PROVE  /\ \A b \in Satisfier : b # "post" => sat'[b] = sat[b]
           /\ UNCHANGED sat \/ \A d \in sat'["post"].todo : Fulfilled(d)
<1>0. "post" \in Satisfier
    BY DEF Satisfier
<1>1. CASE DrainTo \/ LowerFlag \/ Recheck
    BY <1>1 DEF DrainTo, LowerFlag, Recheck
<1>2. CASE FileFrame
    <2> DEFINE c == Head(post.scoop)
    <2>1. c \in Completion /\ post.scoop \in Seq(Completion) /\ post.scoop # <<>>
        BY <1>2, ScoopTypes DEF FileFrame, TypeInv, TypeOK, PostTask
    <2>2. CASE c.result = "SUCCEEDED"
        <3>1. Satisfying("post", [NoSat EXCEPT
                                  !.todo = WhatDependsOnFrame(c.frame, "active")])
            BY <1>2, <2>2 DEF FileFrame
        <3>2. c.frame \in Frames /\ c = Succeeded(c.frame)
            BY <2>1, <2>2 DEF Completion, Succeeded
        <3>3. InSeq(c, post.scoop)
            BY <2>1, InSeqTail
        <3> HIDE DEF c
        <3>4. frame[c.frame].state = "SUCCEEDED"
            BY <3>2, <3>3 DEF Current, Unfiled
        <3> QED
            BY <1>0, <3>1, <3>2, <3>4, FoundFulfilled, Begun
    <2>3. CASE c.result # "SUCCEEDED"
        BY <1>2, <2>3 DEF FileFrame
    <2> QED
        BY <2>2, <2>3
<1>3. ASSUME NEW l \in Layers, FileLayer(l)
      PROVE  /\ \A b \in Satisfier : b # "post" => sat'[b] = sat[b]
             /\ UNCHANGED sat \/ \A d \in sat'["post"].todo : Fulfilled(d)
    <2>1. CASE IsLayerComplete(l)
        <3>1. Satisfying("post", [NoSat EXCEPT !.todo = WhatDependsOnLayer(l, "active")])
            BY <1>3, <2>1 DEF FileLayer
        <3> QED
            BY <1>0, <2>1, <3>1, FoundFulfilled, Begun
    <2>2. CASE ~IsLayerComplete(l)
        BY <1>3, <2>2 DEF FileLayer
    <2> QED
        BY <2>1, <2>2
<1> QED
    BY <1>1, <1>2, <1>3 DEF PostStep

\* What is read again has come to pass still.
LEMMA RereadFulfilled ==
    ASSUME TypeInv, Current, ~Idle("post")
    PROVE  \A d \in Reread : Fulfilled(d)
<1>1. post.pc \in {"file", "layer"} /\ post.item \in Frames
    BY DEF Current
<1>2. LayerOf(post.item) \in Layers
    BY <1>1, LayerOfType
<1>3. CASE post.pc = "file"
    BY <1>1, <1>3, FoundFulfilled DEF Current, Reread
<1>4. CASE post.pc = "layer"
    BY <1>1, <1>2, <1>4, FoundFulfilled DEF Current, Reread
<1> QED
    BY <1>1, <1>3, <1>4

\* A depend is inactive, or about to be, only by what came to pass.
LEMMA NextEarned ==
    ASSUME TypeInv, TypeInv', Calm, Unasked \/ UNCHANGED vars
    PROVE  Earned'
<1>0. \A d \in Deps : Fulfilled(d) => Fulfilled(d)'
    BY UnaskedState, FulfilledStays DEF Calm
<1>t. \A a \in Satisfier : sat'[a].todo \subseteq Deps
    BY DEF TypeInv, TypeOK, Satisfaction
<1>e. \A a \in Satisfier : \A d \in sat[a].todo : Fulfilled(d)
    BY DEF Calm, Earned
<1>k. ASSUME UNCHANGED depend, \A a \in Satisfier : \A d \in sat'[a].todo : Fulfilled(d)
      PROVE  Earned'
    BY <1>0, <1>t, <1>k DEF Calm, Earned
<1>1. CASE UNCHANGED <<depend, sat>>
    BY <1>k, <1>e, <1>1
<1>2. ASSUME NEW a \in Satisfier, SatStep(a)
      PROVE  Earned'
    <2>1. \A b \in Satisfier : sat'[b].todo \subseteq sat[b].todo
        BY <1>2, SatRows
    <2>2. \A d \in Deps : depend'[d] = "inactive" => Fulfilled(d)
        BY <1>2, <1>e, SatRows DEF Calm, Earned
    <2> QED
        BY <1>0, <1>t, <1>e, <2>1, <2>2 DEF Earned
<1>3. CASE SweepFind
    <2>1. Satisfying("sweep", [NoSat EXCEPT !.todo = StaleDepends]) /\ UNCHANGED depend
        BY <1>3 DEF SweepFind
    <2> QED
        BY <1>k, <1>e, <2>1, FoundFulfilled, Begun DEF Satisfier
<1>4. CASE PostStep
    <2>1. UNCHANGED depend
        BY <1>4 DEF PostStep, DrainTo, FileFrame, FileLayer, LowerFlag, Recheck,
                    PostUnchanged
    <2> QED
        BY <1>k, <1>e, <1>4, <2>1, FiledTodo DEF Calm
<1>5. ASSUME NEW a \in Satisfier, SatFails(a)
      PROVE  Earned'
    <2>1. UNCHANGED depend
        BY <1>5 DEF SatFails
    <2>2. \A d \in sat'[a].todo : Fulfilled(d)
        BY <1>5, <1>e, FailedTodo, RereadFulfilled DEF Calm
    <2> QED
        BY <1>k, <1>e, <1>5, <2>1, <2>2, FailedTodo
<1>6. ASSUME NEW lost, CuebotStops(lost)
      PROVE  Earned'
    <2>1. UNCHANGED depend /\ \A a \in Satisfier : sat'[a].todo \subseteq sat[a].todo
        BY <1>6 DEF CuebotStops, NoSat
    <2> QED
        BY <1>k, <1>e, <2>1
<1>7. QueuePostOps \/ SweepFix \/ UNCHANGED vars => UNCHANGED <<depend, sat>>
    BY DEF QueuePostOps, SweepFix, vars
<1>8. \A f \in Frames : /\ Start(f) => UNCHANGED <<depend, sat>>
                        /\ \A r : Finish(f, r) => UNCHANGED <<depend, sat>>
    BY DEF Start, Finish
<1>9. \A l \in Layers : CheckFails(l) => UNCHANGED <<depend, sat>>
    BY DEF CheckFails
<1>10. CASE Failure
    BY <1>1, <1>5, <1>6, <1>9, <1>10 DEF Failure
<1> QED
    BY <1>1, <1>2, <1>3, <1>4, <1>7, <1>8, <1>10 DEF Unasked

\* What the worker has in hand is of frames that have succeeded.
LEMMA NextCurrent ==
    ASSUME TypeInv, Calm, Unasked \/ UNCHANGED vars
    PROVE  Current'
<1>0. /\ \A f \in Frames : frame[f].state = "SUCCEEDED" => frame'[f].state = "SUCCEEDED"
      /\ \A l \in Layers : IsLayerComplete(l) => IsLayerComplete(l)'
    BY UnaskedState, FulfilledStays DEF Calm
<1>l. \A f \in Frames : LayerOf(f) \in Layers
    BY LayerOfType
<1>p. post \in PostTask /\ "post" \in Satisfier
    BY DEF TypeInv, TypeOK, Satisfier
<1>k. ASSUME UNCHANGED <<queue, post>>, Idle("post")' \/ ~Idle("post")
      PROVE  Current'
    BY <1>0, <1>l, <1>k DEF Calm, Current, Unfiled
<1>1. CASE UNCHANGED <<queue, post, sat>>
    BY <1>k, <1>1 DEF Idle
<1>2. ASSUME NEW f \in Frames, NEW r \in Outcomes[f], Finish(f, r)
      PROVE  Current'
    <2> DEFINE c == [frame |-> f, result |-> r]
    <2>1. queue' = Append(queue, c) /\ UNCHANGED <<post, sat>>
        BY <1>2 DEF Finish
    <2>2. c \in Completion /\ queue \in Seq(Completion)
        BY DependsAssumption DEF Completion, TypeInv, TypeOK
    <2>3. frame'[f].state = r
        BY <1>2, FinishState DEF Calm
    <2>4. ASSUME NEW g \in Frames, Unfiled(Succeeded(g))'
          PROVE  frame'[g].state = "SUCCEEDED"
        <3>1. Unfiled(Succeeded(g)) \/ Succeeded(g) = c
            BY <2>1, <2>2, <2>4, InSeqAppend DEF Unfiled
        <3>2. Succeeded(g) = c => g = f /\ r = "SUCCEEDED"
            BY DEF Succeeded
        <3> QED
            BY <1>0, <2>3, <3>1, <3>2 DEF Calm, Current
    <2> QED
        BY <1>0, <1>l, <2>1, <2>4 DEF Calm, Current, Idle
<1>3. ASSUME NEW a \in Satisfier, SatStep(a)
      PROVE  Current'
    <2>1. UNCHANGED <<queue, post>>
        BY <1>3 DEF SatStep, SetInactive, GetDependentFrames, Decrement, scoopVars
    <2>2. Idle("post")' \/ ~Idle("post")
        BY <1>3, <1>p, SatRows DEF Idle
    <2> QED
        BY <1>k, <2>1, <2>2
<1>4. CASE SweepFind
    <2>1. Satisfying("sweep", [NoSat EXCEPT !.todo = StaleDepends])
          /\ UNCHANGED <<queue, post>>
        BY <1>4 DEF SweepFind, scoopVars
    <2>2. sat'["post"] = sat["post"]
        BY <2>1, <1>p, Begun DEF Satisfier
    <2> QED
        BY <1>k, <2>1, <2>2 DEF Idle
<1>f. ASSUME \A c : Unfiled(c)' => Unfiled(c), UNCHANGED frame,
             \/ Idle("post")'
             \/ post'.pc = "file" /\ post'.item \in Frames
                                  /\ frame[post'.item].state = "SUCCEEDED"
             \/ post'.pc = "layer" /\ post'.item \in Frames
                                   /\ IsLayerComplete(LayerOf(post'.item))
      PROVE  Current'
    <2>1. \A g \in Frames : Unfiled(Succeeded(g))' => frame'[g].state = "SUCCEEDED"
        BY <1>f DEF Calm, Current
    <2>2. UNCHANGED frame => \A l \in Layers : IsLayerComplete(l)' <=> IsLayerComplete(l)
        BY DEF IsLayerComplete, Complete
    <2> QED
        BY <1>f, <1>l, <2>1, <2>2 DEF Current
<1>5. CASE DrainTo
    <2>1. UNCHANGED <<frame, sat>> /\ Idle("post")
        BY <1>5 DEF DrainTo, PostUnchanged
    <2>2. \/ queue' = queue /\ post'.scoop = <<>>
          \/ queue' = <<>> /\ post'.scoop = queue
        BY <1>5 DEF DrainTo, PostOff
    <2> QED
        BY <1>f, <2>1, <2>2, InSeqEmpty DEF Unfiled, Idle
<1>6. CASE FileFrame
    <2> DEFINE c == Head(post.scoop)
               begun == [post EXCEPT !.scoop = Tail(@), !.item = c.frame,
                                     !.layers = @ \cup {LayerOf(c.frame)},
                                     !.tries = 1]
               passed == [post EXCEPT !.scoop = Tail(@)]
    <2>1. /\ post.pc = "file" /\ Idle("post") /\ post.scoop # <<>>
          /\ post.scoop \in Seq(Completion) /\ c \in Completion
          /\ UNCHANGED <<frame, queue>>
        BY <1>6, <1>p, ScoopTypes DEF FileFrame, PostUnchanged, PostTask
    <2>2. /\ begun.scoop = Tail(post.scoop) /\ begun.pc = "file" /\ begun.item = c.frame
          /\ passed.scoop = Tail(post.scoop)
        BY <1>p, <2>1 DEF PostTask
    <2>3. \/ c.result = "SUCCEEDED" /\ post' = begun
          \/ post' = passed /\ UNCHANGED sat
        BY <1>6 DEF FileFrame
    <2>4. c.result = "SUCCEEDED" =>
              c.frame \in Frames /\ c = Succeeded(c.frame) /\ InSeq(c, post.scoop)
        BY <2>1, InSeqTail DEF Completion, Succeeded
    <2> HIDE DEF begun, passed, c
    <2>5. c.result = "SUCCEEDED" => c.frame \in Frames /\ frame[c.frame].state = "SUCCEEDED"
        BY <2>4 DEF Calm, Current, Unfiled
    <2>6. \A e : Unfiled(e)' => Unfiled(e)
        BY <2>1, <2>2, <2>3, InSeqTail DEF Unfiled
    <2> QED
        BY <1>f, <2>1, <2>2, <2>3, <2>5, <2>6 DEF Idle
<1>7. ASSUME NEW l \in Layers, FileLayer(l)
      PROVE  Current'
    <2> DEFINE f == CHOOSE x \in Frames : LayerOf(x) = l
               begun == [post EXCEPT !.pc = "layer", !.layers = @ \ {l},
                                     !.tries = 1, !.item = f]
    <2>1. /\ l \in post.layers /\ Idle("post") /\ UNCHANGED <<frame, queue>>
          /\ post' = begun
        BY <1>7 DEF FileLayer, CheckNext, PostUnchanged
    <2>2. f \in Frames /\ LayerOf(f) = l
        BY <2>1 DEF TypeInv, Registered
    <2> HIDE DEF f
    <2>3. begun.pc = "layer" /\ begun.item = f /\ begun.scoop = post.scoop
        BY <1>p DEF PostTask
    <2> HIDE DEF begun
    <2>4. IsLayerComplete(l) \/ UNCHANGED sat
        BY <1>7 DEF FileLayer
    <2> QED
        BY <1>f, <2>1, <2>2, <2>3, <2>4 DEF Idle, Unfiled
<1>8. CASE LowerFlag \/ Recheck
    <2>1. UNCHANGED <<frame, queue, sat>> /\ post.pc \in {"lower", "recheck"}
        BY <1>8 DEF LowerFlag, Recheck, PostUnchanged
    <2>2. post'.scoop = post.scoop \/ post'.scoop = <<>>
        BY <1>8, <1>p DEF LowerFlag, Recheck, PostOff, PostTask
    <2>3. Idle("post")
        BY <2>1 DEF Calm, Current
    <2> QED
        BY <1>f, <2>1, <2>2, <2>3, InSeqEmpty DEF Idle, Unfiled
<1>9. ASSUME NEW a \in Satisfier, SatFails(a)
      PROVE  Current'
    <2>1. /\ UNCHANGED <<frame, queue>> /\ ~Idle(a)
          /\ post' = [post EXCEPT !.tries = @ + 1] \/ UNCHANGED post
        BY <1>9 DEF SatFails
    <2>2. post'.scoop = post.scoop /\ post'.pc = post.pc /\ post'.item = post.item
        BY <1>p, <2>1 DEF PostTask
    <2>3. Idle("post")' \/ ~Idle("post")
        BY <1>9, <1>p, FailedTodo DEF Idle
    <2>4. \A c : Unfiled(c)' => Unfiled(c)
        BY <2>1, <2>2 DEF Unfiled
    <2> QED
        BY <1>f, <2>1, <2>2, <2>3, <2>4 DEF Calm, Current
<1>10. ASSUME NEW l \in Layers, CheckFails(l)
       PROVE  Current'
    <2>1. /\ UNCHANGED <<frame, queue, sat>> /\ Idle("post")
          /\ post' = [post EXCEPT !.pc = "layer", !.layers = @ \ {l}]
        BY <1>10 DEF CheckFails, CheckNext
    <2>2. post'.scoop = post.scoop
        BY <1>p, <2>1 DEF PostTask
    <2> QED
        BY <1>f, <2>1, <2>2 DEF Idle, Unfiled
<1>11. ASSUME NEW lost, CuebotStops(lost)
       PROVE  Current'
    <2>1. CASE "post" \in lost
        <3>1. /\ queue' = <<>> /\ post' = PostOff /\ sat'["post"] = NoSat
              /\ UNCHANGED frame
            BY <1>11, <1>p, <2>1 DEF CuebotStops
        <3> QED
            BY <1>f, <3>1, InSeqEmpty DEF Unfiled, PostOff, Idle, NoSat
    <2>2. CASE "post" \notin lost
        BY <1>k, <1>11, <1>p, <2>2 DEF CuebotStops, scoopVars, Idle
    <2> QED
        BY <2>1, <2>2
<1>12. QueuePostOps \/ SweepFix \/ UNCHANGED vars => UNCHANGED <<queue, post, sat>>
    BY DEF QueuePostOps, SweepFix, scoopVars, vars
<1>13. \A f \in Frames : Start(f) => UNCHANGED <<queue, post, sat>>
    BY DEF Start, scoopVars
<1>14. CASE PostStep
    BY <1>5, <1>6, <1>7, <1>8, <1>14 DEF PostStep
<1>15. CASE Failure
    BY <1>9, <1>10, <1>11, <1>15 DEF Failure
<1> QED
    BY <1>1, <1>2, <1>3, <1>4, <1>12, <1>13, <1>14, <1>15 DEF Unasked

\* The rows and counts of these steps.
LEMMA NextAccounted ==
    ASSUME TypeInv, TypeInv', Calm, Unasked \/ UNCHANGED vars, UNCHANGED user
    PROVE  Accounted'
<1> SUFFICES ASSUME NEW f \in Frames
             PROVE  Holding(f)' = {} \/ Covered(f)'
    BY DEF Accounted
<1>0. (Holding(f) = {} \/ Covered(f)) /\ frame \in [Frames -> FrameRow]
    BY DEF Calm, Accounted, TypeInv, TypeOK
<1>k. ASSUME UNCHANGED depend, Relieved, frame'[f].count = frame[f].count
      PROVE  Holding(f)' = {} \/ Covered(f)'
    <2>1. Holding(f)' = Holding(f)
        BY <1>k DEF Holding
    <2> QED
        BY <1>0, <1>k, <2>1, CoveredAlone
<1>1. ASSUME NEW g \in Frames, Start(g)
      PROVE  Holding(f)' = {} \/ Covered(f)'
    BY <1>0, <1>1, <1>k, SetStateCount DEF Start, FrameState, Relieved
<1>2. ASSUME NEW g \in Frames, NEW r \in Outcomes[g], Finish(g, r)
      PROVE  Holding(f)' = {} \/ Covered(f)'
    <2>1. r \in FrameState
        BY DependsAssumption DEF FrameState, Outcome
    <2> QED
        BY <1>0, <1>2, <1>k, <2>1, SetStateCount DEF Finish, Relieved
<1>3. ASSUME NEW a \in Satisfier, SatStep(a)
      PROVE  Holding(f)' = {} \/ Covered(f)'
    <2>1. Kept(f) \/ Taken(a, f) \/ Charged(a, f)
        BY <1>3, SatBooks
    <2>2. Holding(f)' \subseteq Holding(f)
        BY <2>1 DEF Kept, Taken, Charged
    <2> QED
        BY <1>0, <2>1, <2>2, BooksCover
<1>4. CASE SweepFix
    <2>1. UNCHANGED <<depend, sat>>
        BY <1>4 DEF SweepFix
    <2>2. CASE StuckCount(f)
        BY <2>1, <2>2 DEF StuckCount, Holding
    <2>3. CASE ~StuckCount(f)
        BY <1>4, <1>k, <2>1, <2>3 DEF SweepFix, Relieved
    <2> QED
        BY <2>2, <2>3
<1>5. ASSUME NEW lost, CuebotStops(lost)
      PROVE  Holding(f)' = {} \/ Covered(f)'
    BY <1>5, <1>k DEF CuebotStops, Relieved, NoSat
<1>6. CASE \/ PostStep \/ SweepFind
           \/ \E a \in Satisfier : SatFails(a)
           \/ \E l \in Layers : CheckFails(l)
    BY <1>6, <1>k, OthersRelieved
<1>7. CASE QueuePostOps \/ UNCHANGED vars
    BY <1>7, <1>k DEF QueuePostOps, vars, Relieved
<1>8. CASE Failure
    BY <1>5, <1>6, <1>8 DEF Failure
<1> QED
    BY <1>1, <1>2, <1>3, <1>4, <1>6, <1>7, <1>8 DEF Unasked

\* Without a request there is nobody who satisfies, creates or reactivates for a user.
LEMMA CalmUser ==
    ASSUME TypeInv, user = UserIdle, excused = {}, Idle("user"), Unasked \/ UNCHANGED vars
    PROVE  user' = UserIdle /\ excused' = {} /\ Idle("user")'
<1>2. PostStep => sat'["user"] = sat["user"] /\ UNCHANGED <<user, excused>>
    <2>1. \A ds : Satisfying("post", [NoSat EXCEPT !.todo = ds]) =>
                      sat'["user"] = sat["user"]
        BY Begun DEF Satisfier
    <2> QED
        BY <2>1 DEF PostStep, DrainTo, FileFrame, FileLayer, LowerFlag, Recheck,
                    PostUnchanged
<1>3. SweepFind => sat'["user"] = sat["user"] /\ UNCHANGED <<user, excused>>
    BY Begun DEF SweepFind, Satisfier
<1>4. ASSUME NEW a \in Satisfier, SatStep(a)
      PROVE  sat'["user"] = sat["user"] /\ UNCHANGED <<user, excused>>
    <2>1. ~Idle(a) /\ \A b \in Satisfier : b # a => sat'[b] = sat[b]
        BY <1>4, SatRows
    <2>2. UNCHANGED <<user, excused>>
        BY <1>4 DEF SatStep, SetInactive, GetDependentFrames, Decrement
    <2> QED
        BY <2>1, <2>2 DEF Satisfier
<1>5. ASSUME NEW a \in Satisfier, SatFails(a)
      PROVE  sat'["user"] = sat["user"] /\ UNCHANGED <<user, excused>>
    <2>1. ~Idle(a) /\ \A b \in Satisfier : b # a => sat'[b] = sat[b]
        BY <1>5, FailedTodo
    <2>2. UNCHANGED <<user, excused>>
        BY <1>5 DEF SatFails
    <2> QED
        BY <2>1, <2>2 DEF Satisfier
<1>6. ASSUME NEW lost, CuebotStops(lost)
      PROVE  user' = UserIdle /\ excused' = {} /\ Idle("user")'
    BY <1>6 DEF CuebotStops, UserIdle, Idle, NoSat, Satisfier
<1>7. QueuePostOps \/ SweepFix \/ UNCHANGED vars => UNCHANGED <<sat, user, excused>>
    BY DEF QueuePostOps, SweepFix, vars
<1>8. \A f \in Frames : /\ Start(f) => UNCHANGED <<sat, user, excused>>
                        /\ \A r : Finish(f, r) => UNCHANGED <<sat, user, excused>>
    BY DEF Start, Finish
<1>9. \A l \in Layers : CheckFails(l) => UNCHANGED <<sat, user, excused>>
    BY DEF CheckFails
<1>10. CASE Failure
    BY <1>5, <1>6, <1>9, <1>10 DEF Failure, Idle
<1> QED
    BY <1>2, <1>3, <1>4, <1>7, <1>8, <1>10 DEF Unasked, Idle

\* Initially no depend is satisfied.
LEMMA InitCalm == Init => CalmInv
<1> SUFFICES ASSUME Init PROVE CalmInv
    OBVIOUS
<1>1. HeldInv
    BY InitHeld
<1>2. user = UserIdle /\ excused = {} /\ Idle("user") /\ Idle("post")
    BY DEF Init, Idle, NoSat, Satisfier
<1>3. Counted
    BY DEF Init, Counted
<1>4. Earned
    BY DEF Init, Earned, NoSat
<1>5. Current
    BY <1>2, InSeqEmpty DEF Init, Current, Unfiled, PostOff
<1>6. Accounted
    BY <1>1, <1>2 DEF HeldInv, Accounted
<1> QED
    BY <1>1, <1>2, <1>3, <1>4, <1>5, <1>6 DEF CalmInv, Calm, HeldInv

\* The inductive step.
LEMMA NextCalm ==
    ASSUME CalmInv, [Next]_vars
    PROVE  CalmInv'
<1>1. TypeInv /\ TypeInv'
    BY NextTypes DEF CalmInv
<1> SUFFICES ASSUME requestsLeft' = MaxRequests PROVE Calm'
    BY <1>1 DEF CalmInv
<1>2. Calm /\ (Unasked \/ UNCHANGED vars)
    BY OnlyUnasked DEF CalmInv, vars, bounds
<1>3. Counted'
    BY <1>1, <1>2, UnaskedState DEF Calm
<1>4. user' = UserIdle /\ excused' = {} /\ Idle("user")'
    BY <1>1, <1>2, CalmUser DEF Calm
<1>5. UNCHANGED user
    BY <1>2, <1>4 DEF Calm
<1>6. Earned' /\ Current' /\ Accounted'
    BY <1>1, <1>2, <1>5, NextEarned, NextCurrent, NextAccounted
<1> QED
    BY <1>3, <1>4, <1>6 DEF Calm

\* A trigger starts no frame.
LEMMA SetFrameStarts ==
    ASSUME frame \in [Frames -> FrameRow], NEW f \in Frames, NEW new \in FrameRow,
           SetFrame(f, new), new.state # "RUNNING" \/ new.state = frame[f].state
    PROVE  \A g \in Frames : frame[g].state # "RUNNING" => frame'[g].state # "RUNNING"
<1>1. frame' = [frame EXCEPT ![f] = Triggered(frame[f], new)]
    BY DEF SetFrame
<1>2. Triggered(frame[f], new).state # "RUNNING" \/ new.state = "RUNNING"
    BY DEF Triggered, FrameRow
<1> QED
    BY <1>1, <1>2

\* Only Start starts a frame.
LEMMA OnlyStart ==
    ASSUME TypeInv, [Next]_vars, NEW g \in Frames,
           frame[g].state # "RUNNING", frame'[g].state = "RUNNING"
    PROVE  frame[g].state = "WAITING"
<1>0. frame \in [Frames -> FrameRow]
    BY DEF TypeInv, TypeOK
<1>1. ~(UNCHANGED frame)
    OBVIOUS
<1>s. ASSUME NEW f \in Frames, NEW s \in FrameState \ {"RUNNING"}, SetState(f, s)
      PROVE  FALSE
    <2>1. [frame[f] EXCEPT !.state = s] \in FrameRow
          /\ [frame[f] EXCEPT !.state = s].state = s
        BY <1>0 DEF FrameRow
    <2> QED
        BY <1>0, <1>s, <2>1, SetFrameStarts DEF SetState
<1>c. ASSUME NEW f \in Frames, NEW n \in Nat, SetFrame(f, [frame[f] EXCEPT !.count = n])
      PROVE  FALSE
    <2>1. [frame[f] EXCEPT !.count = n] \in FrameRow
          /\ [frame[f] EXCEPT !.count = n].state = frame[f].state
        BY <1>0 DEF FrameRow
    <2> QED
        BY <1>0, <1>c, <2>1, SetFrameStarts
<1>2. ASSUME NEW f \in Frames, Start(f)
      PROVE  frame[g].state = "WAITING"
    <2>1. f = g
        BY <1>0, <1>2 DEF Start, SetState, SetFrame
    <2> QED
        BY <1>2, <2>1 DEF Start
<1>3. ~\E f \in Frames : \E r \in Outcomes[f] : Finish(f, r)
    <2> SUFFICES ASSUME NEW f \in Frames, NEW r \in Outcomes[f], Finish(f, r) PROVE FALSE
        OBVIOUS
    <2>1. r \in FrameState \ {"RUNNING"}
        BY DependsAssumption DEF FrameState, Outcome
    <2> QED
        BY <1>s, <2>1 DEF Finish
<1>4. ~(QueuePostOps \/ SweepFind \/ Failure \/ UNCHANGED vars)
    BY <1>1 DEF QueuePostOps, SweepFind, Failure, SatFails, CheckFails, CuebotStops, vars
<1>5. ~PostStep
    BY <1>1 DEF PostStep, DrainTo, FileFrame, FileLayer, LowerFlag, Recheck, PostUnchanged
<1>6. ~\E a \in Satisfier : SatStep(a)
    <2> SUFFICES ASSUME NEW a \in Satisfier, SatStep(a) PROVE FALSE
        OBVIOUS
    <2>1. PICK f \in Frames : frame[f].count > 0
                              /\ SetFrame(f, [frame[f] EXCEPT !.count = @ - 1])
        BY <1>1 DEF SatStep, SetInactive, GetDependentFrames, Decrement,
                    DecrementDependCount
    <2>2. frame[f].count - 1 \in Nat
        BY <1>0, <2>1 DEF FrameRow
    <2> QED
        BY <1>c, <2>1, <2>2
<1>7. ~SweepFix
    <2> SUFFICES ASSUME SweepFix PROVE FALSE
        OBVIOUS
    <2> DEFINE new == [frame[g] EXCEPT !.count = 0]
    <2>1. frame'[g] = Triggered(frame[g], new) /\ frame[g] \in FrameRow
        BY <1>0 DEF SweepFix
    <2>2. new \in FrameRow /\ new.state = frame[g].state
        BY <2>1 DEF FrameRow
    <2> HIDE DEF new
    <2> QED
        BY <2>1, <2>2 DEF Triggered, FrameRow
<1>8. ~UserStep
    <2> SUFFICES ASSUME UserStep PROVE FALSE
        OBVIOUS
    <2>1. ASSUME NEW f \in Frames, Charge(f)
          PROVE  FALSE
        BY <1>0, <1>c, <2>1 DEF Charge, IncrementDependCount, FrameRow
    <2>2. ~MarkUpdate
        BY <1>0, <1>1 DEF MarkUpdate
    <2> QED
        BY <1>1, <2>1, <2>2 DEF UserStep, CreateInsert, RetryReadFrame, RetryReadLayer,
                                SetActive
<1>9. ~UserRequest
    <2> SUFFICES ASSUME UserRequest PROVE FALSE
        OBVIOUS
    <2>1. ASSUME NEW f \in Frames, RetryForce(f) \/ EatFrame(f)
          PROVE  FALSE
        BY <1>1, <1>s, <2>1 DEF RetryForce, EatFrame, FrameState
    <2>2. ASSUME NEW f \in Frames, MarkAsWaiting(f)
          PROVE  FALSE
        BY <1>0, <2>2 DEF MarkAsWaiting
    <2> QED
        BY <1>1, <2>1, <2>2 DEF UserRequest, CreateCheck, UnsatisfyRequest, DropDepends,
                                MarkAsDepend
<1> QED
    BY <1>2, <1>3, <1>4, <1>5, <1>6, <1>7, <1>8, <1>9 DEF Next

\* StartsAfterDepends: whatever fails, a frame that starts had every depend of
\* it come to pass.  It waits with a count of zero, so no active depend holds it
\* and what is inactive was earned.
THEOREM StartsCorrect == Spec => StartsAfterDepends
<1> DEFINE Starts ==
        requestsLeft = MaxRequests =>
            \A f \in Frames :
                frame[f].state # "RUNNING" /\ frame'[f].state = "RUNNING" =>
                    \A d \in Deps : depend[d] # "absent" /\ f \in Row[d].er =>
                        Fulfilled(d)
<1>1. CalmInv /\ [Next]_vars => Starts
    <2> SUFFICES ASSUME CalmInv, [Next]_vars, requestsLeft = MaxRequests,
                        NEW f \in Frames,
                        frame[f].state # "RUNNING", frame'[f].state = "RUNNING",
                        NEW d \in Deps, depend[d] # "absent", f \in Row[d].er
                 PROVE  Fulfilled(d)
        OBVIOUS
    <2>1. Calm /\ frame[f].state = "WAITING"
        BY OnlyStart DEF CalmInv
    <2>2. frame[f].count = 0
        BY <2>1 DEF Calm, Counted, CalmInv, TypeInv, TypeOK, FrameRow
    <2>3. Holding(f) = {}
        <3>1. CASE Covered(f)
            <4>1. Owed(f) = 0
                BY <2>1 DEF Calm, Owed, UserIdle
            <4>2. Cardinality(Holding(f)) = 0
                BY <2>2, <3>1, <4>1, Finite DEF Covered, Debt
            <4> QED
                BY <4>2, Finite, FS_EmptySet
        <3> QED
            BY <2>1, <3>1 DEF Calm, Accounted
    <2>4. depend[d] = "inactive"
        BY <2>3 DEF Holding, CalmInv, TypeInv, TypeOK
    <2> QED
        BY <2>1, <2>4 DEF Calm, Earned
<1>2. CalmInv /\ [Next]_vars => CalmInv'
    BY NextCalm
<1>3. CalmInv /\ [Next]_vars => [Starts]_vars
    BY <1>1
<1> HIDE DEF Starts
<1>4. Spec => [][Starts]_vars
    BY <1>2, <1>3, InitCalm, PTL DEF Spec
<1> QED
    BY <1>4 DEF StartsAfterDepends, Starts

-----------------------------------------------------------------------------
(* As long as nothing fails either.                                        *)

\* The counts are exact, but for one that the sweep reset while it was still
\* being charged off.
Exact(f) ==
    \/ frame[f].count = Debt(f)
    \/ Holding(f) = {} /\ frame[f].count = 0

\* A frame's success that the worker has yet to file, or is filing, accounts for
\* every depend on it that is active still.
FramesDue ==
    \A d \in Deps :
        depend[d] = "active" /\ (Row[d].type \in OnFrame \/ Row[d].any) =>
            \A g \in Row[d].on : frame[g].state = "SUCCEEDED" =>
                Unfiled(Succeeded(g)) \/ d \in sat["post"].todo

\* The same of a layer, which is put up for its check in between.
LayersDue ==
    \A d \in Deps :
        /\ depend[d] = "active" /\ Row[d].type \in OnLayer
        /\ \A g \in Row[d].on : frame[g].state = "SUCCEEDED"
        => \/ \E g \in Row[d].on : Unfiled(Succeeded(g))
           \/ Row[d].on \in post.layers
           \/ d \in sat["post"].todo

Tidy ==
    /\ post.pc # "file" => post.scoop = <<>>
    /\ post.pc \notin {"file", "layer"} => post.layers = {}
    /\ sweep = "idle" => Idle("sweep")

Due == (\A f \in Frames : Exact(f)) /\ FramesDue /\ LayersDue /\ Tidy

DueInv == CalmInv /\ (Undisturbed => Due)

Smooth ==
    \/ \E f \in Frames : Start(f)
    \/ \E f \in Frames : \E r \in Outcomes[f] : Finish(f, r)
    \/ QueuePostOps
    \/ PostStep
    \/ \E a \in Satisfier : SatStep(a)
    \/ SweepFind
    \/ SweepFix
    \/ UNCHANGED vars

\* As long as no fault is spent, only the steps of the system itself are taken.
LEMMA OnlySmooth ==
    ASSUME CalmInv, [Next]_vars, Undisturbed'
    PROVE  Undisturbed /\ Smooth
<1>0. faultsLeft \in 0..MaxFaults /\ MaxFaults \in Nat
    BY DependsAssumption DEF CalmInv, TypeInv, TypeOK
<1>1. requestsLeft = MaxRequests /\ (Unasked \/ UNCHANGED vars)
    BY OnlyUnasked DEF Undisturbed, vars, bounds
<1>2. ~Failure
    <2>1. \A fault : ~Spend(fault)
        BY <1>0 DEF Spend, Undisturbed
    <2> QED
        BY <2>1 DEF Failure, SatFails, CheckFails, CuebotStops
<1>3. Smooth
    BY <1>1, <1>2 DEF Unasked, Smooth
<1>4. UNCHANGED faultsLeft
    <2>1. (\E f \in Frames : Start(f) \/ \E r \in Outcomes[f] : Finish(f, r))
             => UNCHANGED faultsLeft
        BY DEF Start, Finish, bounds
    <2>2. QueuePostOps \/ SweepFind \/ SweepFix \/ UNCHANGED vars => UNCHANGED faultsLeft
        BY DEF QueuePostOps, SweepFind, SweepFix, bounds, vars
    <2>3. PostStep => UNCHANGED faultsLeft
        BY DEF PostStep, DrainTo, FileFrame, FileLayer, LowerFlag, Recheck,
               PostUnchanged, bounds
    <2>4. (\E a \in Satisfier : SatStep(a)) => UNCHANGED faultsLeft
        BY DEF SatStep, SetInactive, GetDependentFrames, Decrement, bounds
    <2> QED
        BY <1>3, <2>1, <2>2, <2>3, <2>4 DEF Smooth
<1> QED
    BY <1>1, <1>3, <1>4 DEF Undisturbed

\* Initially no frame has succeeded.
LEMMA InitDue == Init => DueInv
<1> SUFFICES ASSUME Init PROVE DueInv
    OBVIOUS
<1>1. \A f \in Frames : Exact(f)
    <2>1. \A f \in Frames : Pending(f) = {} /\ frame[f].count = Cardinality(Holding(f))
        BY DEF Init, Pending, NoSat
    <2>2. \A f \in Frames : Debt(f) = frame[f].count
        BY <2>1, Finite, FS_EmptySet DEF Debt
    <2> QED
        BY <2>2 DEF Exact
<1>2. \A f \in Frames : frame[f].state # "SUCCEEDED"
    BY DEF Init
<1>3. \A d \in Deps : Row[d].on \subseteq Frames
                      /\ (Row[d].type \in OnLayer => Row[d].on # {})
    <2>1. \A d \in Deps : Row[d].on \subseteq Frames
        BY DependsAssumption DEF DependRow
    <2>2. ASSUME NEW d \in Deps, Row[d].type \in OnLayer
          PROVE  Row[d].on # {}
        <3>1. Row[d].on \in Layers
            BY <2>2, RowAssumption
        <3>2. {} \notin Layers
            BY RowAssumption
        <3> QED
            BY <3>1, <3>2, Zenon
    <2> QED
        BY <2>1, <2>2
<1>4. FramesDue /\ LayersDue
    BY <1>2, <1>3 DEF FramesDue, LayersDue
<1>5. Tidy
    BY DEF Init, Tidy, PostOff, Idle, NoSat, Satisfier
<1> QED
    BY <1>1, <1>4, <1>5, InitCalm DEF DueInv, Due

\* A satisfaction that is between its depends before and after a step.
LEMMA Resumed ==
    ASSUME NEW a \in Satisfier, sat[a].pc = "next", sat'[a].pc = "next",
           \A b \in Satisfier : b # a => sat'[b] = sat[b]
    PROVE  \A f : Pending(f)' = Pending(f)
BY DEF Pending

\* Every step keeps the counts exact.
LEMMA SmoothExact ==
    ASSUME TypeInv, Calm, Due, Smooth, NEW f \in Frames
    PROVE  Exact(f)'
<1>0. /\ Exact(f) /\ frame \in [Frames -> FrameRow] /\ frame[f].count \in Nat
      /\ "post" \in Satisfier /\ "sweep" \in Satisfier
    BY DEF Due, TypeInv, TypeOK, FrameRow, Satisfier
<1>k. ASSUME UNCHANGED depend, Pending(f)' = Pending(f), frame'[f].count = frame[f].count
      PROVE  Exact(f)'
    <2>1. Holding(f)' = Holding(f)
        BY <1>k DEF Holding
    <2> QED
        BY <1>0, <1>k, <2>1 DEF Exact, Debt
<1>p. UNCHANGED sat => Pending(f)' = Pending(f)
    BY DEF Pending
<1>1. ASSUME NEW g \in Frames, Start(g)
      PROVE  Exact(f)'
    BY <1>0, <1>1, <1>k, <1>p, SetStateCount DEF Start, FrameState
<1>2. ASSUME NEW g \in Frames, NEW r \in Outcomes[g], Finish(g, r)
      PROVE  Exact(f)'
    <2>1. r \in FrameState
        BY DependsAssumption DEF FrameState, Outcome
    <2> QED
        BY <1>0, <1>2, <1>k, <1>p, <2>1, SetStateCount DEF Finish
<1>3. CASE QueuePostOps \/ UNCHANGED vars
    BY <1>3, <1>k, <1>p DEF QueuePostOps, vars
<1>4. CASE PostStep
    <2>1. UNCHANGED <<frame, depend>>
        BY <1>4, OthersRelieved
    <2>2. UNCHANGED sat \/ Idle("post")
        BY <1>4 DEF PostStep, DrainTo, FileFrame, FileLayer, CheckNext, LowerFlag, Recheck
    <2>3. Relieved /\ \A b \in Satisfier : b # "post" => sat'[b] = sat[b]
        BY <1>4, OthersRelieved, FiledTodo DEF Calm
    <2>4. Idle("post") => sat["post"].pc = "next" /\ sat'["post"].pc = "next"
        BY <1>0, <2>3 DEF Idle, Relieved
    <2>5. Pending(f)' = Pending(f)
        BY <1>0, <1>p, <2>2, <2>3, <2>4, Resumed
    <2> QED
        BY <1>k, <2>1, <2>5
<1>5. CASE SweepFind
    <2>1. sat["sweep"].pc = "next" /\ UNCHANGED <<frame, depend>>
        BY <1>5 DEF SweepFind, Due, Tidy, Idle
    <2>2. sat'["sweep"].pc = "next" /\ \A b \in Satisfier : b # "sweep" => sat'[b] = sat[b]
        BY <1>0, <1>5, Begun DEF SweepFind
    <2>3. Pending(f)' = Pending(f)
        BY <1>0, <2>1, <2>2, Resumed
    <2> QED
        BY <1>k, <2>1, <2>3
<1>6. ASSUME NEW a \in Satisfier, SatStep(a)
      PROVE  Exact(f)'
    <2>1. Kept(f) \/ Taken(a, f) \/ Charged(a, f)
        BY <1>6, SatBooks
    <2>2. CASE Kept(f)
        BY <1>0, <2>2 DEF Kept, Exact, Debt
    <2>3. CASE Taken(a, f)
        <3>1. PICK d \in Holding(f) : /\ a \notin Pending(f)
                                      /\ Holding(f)' = Holding(f) \ {d}
                                      /\ Pending(f)' = Pending(f) \cup {a}
                                      /\ frame'[f].count = frame[f].count
            BY <2>3 DEF Taken
        <3>2. Cardinality(Holding(f)') = Cardinality(Holding(f)) - 1
            BY <3>1, Finite, FS_RemoveElement
        <3>3. Cardinality(Pending(f)') = Cardinality(Pending(f)) + 1
            BY <3>1, Finite, FS_AddElement
        <3>4. frame[f].count = Debt(f)
            BY <1>0, <3>1 DEF Exact
        <3> QED
            BY <3>1, <3>2, <3>3, <3>4, Finite DEF Exact, Debt
    <2>4. CASE Charged(a, f)
        <3>1. Cardinality(Pending(f)') = Cardinality(Pending(f)) - 1
            BY <2>4, Finite, FS_RemoveElement DEF Charged
        <3>2. Cardinality(Pending(f)) > 0
            <4>1. Cardinality(Pending(f)) # 0
                BY <2>4, Finite, FS_EmptySet DEF Charged
            <4> QED
                BY <4>1, Finite
        <3>3. CASE frame[f].count = Debt(f)
            <4>1. frame[f].count > 0
                BY <3>2, <3>3, Finite DEF Debt
            <4>2. frame'[f].count = frame[f].count - 1 /\ Holding(f)' = Holding(f)
                BY <2>4, <4>1 DEF Charged
            <4>3. frame'[f].count = Debt(f)'
                BY <3>1, <3>3, <4>2, Finite DEF Debt
            <4> QED
                BY <4>3 DEF Exact
        <3>4. CASE Holding(f) = {} /\ frame[f].count = 0
            BY <2>4, <3>4 DEF Charged, Exact
        <3> QED
            BY <1>0, <3>3, <3>4 DEF Exact
    <2> QED
        BY <2>1, <2>2, <2>3, <2>4
<1>7. CASE SweepFix
    <2>1. UNCHANGED <<depend, sat>>
        BY <1>7 DEF SweepFix
    <2>2. CASE StuckCount(f)
        <3> DEFINE new == [frame[f] EXCEPT !.count = 0]
        <3>1. new \in FrameRow /\ new.count = 0
            BY <1>0 DEF FrameRow
        <3>2. frame'[f] = Triggered(frame[f], new)
            BY <1>7, <2>2 DEF SweepFix
        <3> HIDE DEF new
        <3>3. frame'[f].count = 0
            BY <3>1, <3>2, TriggeredCount
        <3>4. Holding(f)' = {}
            BY <2>1, <2>2 DEF StuckCount, Holding
        <3> QED
            BY <3>3, <3>4 DEF Exact
    <2>3. CASE ~StuckCount(f)
        BY <1>7, <1>k, <1>p, <2>1, <2>3 DEF SweepFix
    <2> QED
        BY <2>2, <2>3
<1> QED
    BY <1>1, <1>2, <1>3, <1>4, <1>5, <1>6, <1>7 DEF Smooth

\* The layer of a frame of a layer.
LEMMA LayerOfMember ==
    ASSUME NEW l \in Layers, NEW g \in l
    PROVE  LayerOf(g) = l
<1>1. g \in Frames
    BY DependsAssumption
<1>2. \E m \in Layers : g \in m
    BY DependsAssumption
<1>3. LayerOf(g) \in Layers /\ g \in LayerOf(g)
    BY <1>2 DEF LayerOf
<1> QED
    BY <1>3, RowAssumption

\* Steps that file nothing and after which nothing more has succeeded.
LEMMA DueKept ==
    ASSUME TypeInv, FramesDue, LayersDue, NoneSucceeds,
           \A d \in Deps : depend'[d] = "active" => depend[d] = "active",
           \A c : Unfiled(c) => Unfiled(c)',
           post.layers \subseteq post'.layers,
           \A d \in Deps : d \in sat["post"].todo =>
               d \in sat'["post"].todo \/ depend'[d] # "active"
    PROVE  FramesDue' /\ LayersDue'
<1>1. \A d \in Deps : Row[d].on \subseteq Frames
    BY DependsAssumption DEF DependRow
<1>2. FramesDue'
    BY <1>1 DEF FramesDue, NoneSucceeds
<1>3. LayersDue'
    <2> SUFFICES ASSUME NEW d \in Deps, depend'[d] = "active", Row[d].type \in OnLayer,
                        \A g \in Row[d].on : frame'[g].state = "SUCCEEDED"
                 PROVE  \/ \E g \in Row[d].on : Unfiled(Succeeded(g))'
                        \/ Row[d].on \in post'.layers
                        \/ d \in sat'["post"].todo
        BY DEF LayersDue
    <2>1. depend[d] = "active" /\ \A g \in Row[d].on : frame[g].state = "SUCCEEDED"
        BY <1>1 DEF NoneSucceeds
    <2>2. \/ \E g \in Row[d].on : Unfiled(Succeeded(g))
          \/ Row[d].on \in post.layers
          \/ d \in sat["post"].todo
        BY <2>1 DEF LayersDue
    <2> QED
        BY <2>2
<1> QED
    BY <1>2, <1>3

\* A completion that is filed leaves its frame's depends, and its layer, in hand.
LEMMA FileFrameDue ==
    ASSUME TypeInv, FramesDue, LayersDue, FileFrame
    PROVE  FramesDue' /\ LayersDue'
<1> DEFINE c == Head(post.scoop)
           begun == [post EXCEPT !.scoop = Tail(@), !.item = c.frame,
                                 !.layers = @ \cup {LayerOf(c.frame)},
                                 !.tries = 1]
           passed == [post EXCEPT !.scoop = Tail(@)]
<1>0. /\ post.scoop \in Seq(Completion) /\ post.scoop # <<>> /\ c \in Completion
      /\ Idle("post") /\ UNCHANGED <<frame, depend, queue>> /\ "post" \in Satisfier
    BY ScoopTypes DEF FileFrame, PostUnchanged, TypeInv, TypeOK, PostTask, Satisfier
<1>1. /\ begun.scoop = Tail(post.scoop)
      /\ begun.layers = post.layers \cup {LayerOf(c.frame)}
      /\ passed.scoop = Tail(post.scoop) /\ passed.layers = post.layers
    BY DEF TypeInv, TypeOK, PostTask
<1>2. \/ /\ c.result = "SUCCEEDED" /\ post' = begun
         /\ Satisfying("post", [NoSat EXCEPT
                                   !.todo = WhatDependsOnFrame(c.frame, "active")])
      \/ c.result # "SUCCEEDED" /\ post' = passed /\ UNCHANGED sat
    BY DEF FileFrame
<1>3. \A g : Succeeded(g).frame = g /\ Succeeded(g).result = "SUCCEEDED"
    BY DEF Succeeded
<1> HIDE DEF c, begun, passed
<1>4. \A e : InSeq(e, post.scoop) => InSeq(e, Tail(post.scoop)) \/ e = c
    BY <1>0, InSeqTail DEF c
<1>5. \A e : Unfiled(e) => Unfiled(e)' \/ e = c
    BY <1>0, <1>1, <1>2, <1>4 DEF Unfiled
<1>6. NoneSucceeds
    BY <1>0 DEF NoneSucceeds
<1>7. CASE c.result # "SUCCEEDED"
    <2>1. \A d \in Deps : depend[d] = "active" /\ (Row[d].type \in OnFrame \/ Row[d].any) =>
            \A g \in Row[d].on : frame[g].state = "SUCCEEDED" =>
                Unfiled(Succeeded(g))' \/ d \in sat["post"].todo
        BY <1>3, <1>5, <1>7 DEF FramesDue
    <2>2. FramesDue'
        BY <1>0, <1>2, <1>7, <2>1 DEF FramesDue
    <2>3. LayersDue'
        BY <1>0, <1>1, <1>2, <1>3, <1>5, <1>7 DEF LayersDue
    <2> QED
        BY <2>2, <2>3
<1>8. CASE c.result = "SUCCEEDED"
    <2>1. sat'["post"].todo = WhatDependsOnFrame(c.frame, "active")
        BY <1>0, <1>2, <1>8, Begun
    <2>2. post'.layers = post.layers \cup {LayerOf(c.frame)}
        BY <1>1, <1>2, <1>8
    <2>3. \A d : d \notin sat["post"].todo
        BY <1>0 DEF Idle
    <2>4. FramesDue'
        <3> SUFFICES ASSUME NEW d \in Deps, depend'[d] = "active",
                            Row[d].type \in OnFrame \/ Row[d].any, NEW g \in Row[d].on,
                            frame'[g].state = "SUCCEEDED"
                     PROVE  Unfiled(Succeeded(g))' \/ d \in sat'["post"].todo
            BY DEF FramesDue
        <3>1. Unfiled(Succeeded(g))
            BY <1>0, <2>3 DEF FramesDue
        <3>2. CASE Succeeded(g) = c
            <4>1. c.frame = g
                BY <1>3, <3>2
            <4>2. Row[d].any => Row[d].type = "LAYER_ON_LAYER"
                BY RowAssumption
            <4> QED
                BY <1>0, <2>1, <4>1, <4>2 DEF WhatDependsOnFrame
        <3> QED
            BY <1>5, <3>1, <3>2
    <2>5. LayersDue'
        <3> SUFFICES ASSUME NEW d \in Deps, depend'[d] = "active", Row[d].type \in OnLayer,
                            \A g \in Row[d].on : frame'[g].state = "SUCCEEDED"
                     PROVE  \/ \E g \in Row[d].on : Unfiled(Succeeded(g))'
                            \/ Row[d].on \in post'.layers
            BY DEF LayersDue
        <3>1. \/ \E g \in Row[d].on : Unfiled(Succeeded(g))
              \/ Row[d].on \in post.layers
            BY <1>0, <2>3 DEF LayersDue
        <3>2. ASSUME NEW g \in Row[d].on, Succeeded(g) = c
              PROVE  Row[d].on \in post'.layers
            <4>1. c.frame = g /\ Row[d].on \in Layers
                BY <1>3, <3>2, RowAssumption
            <4> QED
                BY <2>2, <4>1, LayerOfMember
        <3> QED
            BY <1>5, <2>2, <3>1, <3>2
    <2> QED
        BY <2>4, <2>5
<1> QED
    BY <1>7, <1>8

\* A layer that is checked is complete if all of it has succeeded.
LEMMA FileLayerDue ==
    ASSUME TypeInv, FramesDue, LayersDue, NEW l \in Layers, FileLayer(l)
    PROVE  FramesDue' /\ LayersDue'
<1> DEFINE begun == [post EXCEPT !.pc = "layer", !.layers = @ \ {l}, !.tries = 1,
                                 !.item = CHOOSE f \in Frames : LayerOf(f) = l]
<1>0. /\ Idle("post") /\ UNCHANGED <<frame, depend, queue>> /\ post' = begun
      /\ "post" \in Satisfier
    BY DEF FileLayer, CheckNext, PostUnchanged, Satisfier
<1>1. begun.scoop = post.scoop /\ begun.layers = post.layers \ {l}
    BY DEF TypeInv, TypeOK, PostTask
<1> HIDE DEF begun
<1>2. \A e : Unfiled(e) => Unfiled(e)'
    BY <1>0, <1>1 DEF Unfiled
<1>3. \A d : d \notin sat["post"].todo
    BY <1>0 DEF Idle
<1>4. FramesDue'
    BY <1>0, <1>2, <1>3 DEF FramesDue
<1>5. LayersDue'
    <2> SUFFICES ASSUME NEW d \in Deps, depend'[d] = "active", Row[d].type \in OnLayer,
                        \A g \in Row[d].on : frame'[g].state = "SUCCEEDED"
                 PROVE  \/ \E g \in Row[d].on : Unfiled(Succeeded(g))'
                        \/ Row[d].on \in post'.layers
                        \/ d \in sat'["post"].todo
        BY DEF LayersDue
    <2>1. \/ \E g \in Row[d].on : Unfiled(Succeeded(g))
          \/ Row[d].on \in post.layers
        BY <1>0, <1>3 DEF LayersDue
    <2>2. CASE Row[d].on = l
        <3>1. IsLayerComplete(l)
            BY <1>0, <2>2 DEF IsLayerComplete, Complete
        <3>2. Satisfying("post", [NoSat EXCEPT !.todo = WhatDependsOnLayer(l, "active")])
            BY <3>1 DEF FileLayer
        <3>3. sat'["post"].todo = WhatDependsOnLayer(l, "active")
            BY <1>0, <3>2, Begun
        <3> QED
            BY <1>0, <2>2, <3>3 DEF WhatDependsOnLayer
    <2>3. CASE Row[d].on # l
        BY <1>0, <1>1, <1>2, <2>1, <2>3
    <2> QED
        BY <2>2, <2>3
<1> QED
    BY <1>4, <1>5

\* A frame that succeeds is queued.
LEMMA FinishDue ==
    ASSUME TypeInv, Counted, FramesDue, LayersDue,
           NEW f \in Frames, NEW r \in Outcomes[f], Finish(f, r)
    PROVE  FramesDue' /\ LayersDue'
<1> DEFINE c == [frame |-> f, result |-> r]
<1>0. /\ queue' = Append(queue, c) /\ UNCHANGED <<depend, post, sat>>
      /\ queue \in Seq(Completion) /\ c \in Completion
    BY DependsAssumption DEF Finish, Completion, TypeInv, TypeOK
<1>1. frame'[f].state = r /\ \A g \in Frames : g # f => frame'[g] = frame[g]
    BY FinishState
<1>2. r = "SUCCEEDED" => c = Succeeded(f)
    BY DEF Succeeded
<1> HIDE DEF c
<1>3. \A e : InSeq(e, queue') <=> InSeq(e, queue) \/ e = c
    BY <1>0, InSeqAppend
<1>4. \A e : Unfiled(e) => Unfiled(e)'
    BY <1>0, <1>3 DEF Unfiled
<1>5. r = "SUCCEEDED" => Unfiled(Succeeded(f))'
    BY <1>2, <1>3 DEF Unfiled
<1>6. \A d \in Deps : Row[d].on \subseteq Frames
    BY DependsAssumption DEF DependRow
<1>7. FramesDue'
    <2> SUFFICES ASSUME NEW d \in Deps, depend'[d] = "active",
                        Row[d].type \in OnFrame \/ Row[d].any, NEW g \in Row[d].on,
                        frame'[g].state = "SUCCEEDED"
                 PROVE  Unfiled(Succeeded(g))' \/ d \in sat'["post"].todo
        BY DEF FramesDue
    <2>1. CASE g = f
        BY <1>1, <1>5, <2>1
    <2>2. CASE g # f
        <3>1. frame[g].state = "SUCCEEDED"
            BY <1>1, <1>6, <2>2
        <3> QED
            BY <1>0, <1>4, <3>1 DEF FramesDue
    <2> QED
        BY <2>1, <2>2
<1>8. LayersDue'
    <2> SUFFICES ASSUME NEW d \in Deps, depend'[d] = "active", Row[d].type \in OnLayer,
                        \A g \in Row[d].on : frame'[g].state = "SUCCEEDED"
                 PROVE  \/ \E g \in Row[d].on : Unfiled(Succeeded(g))'
                        \/ Row[d].on \in post'.layers
                        \/ d \in sat'["post"].todo
        BY DEF LayersDue
    <2>1. CASE f \in Row[d].on
        BY <1>1, <1>5, <2>1
    <2>2. CASE f \notin Row[d].on
        <3>1. \A g \in Row[d].on : frame[g].state = "SUCCEEDED"
            BY <1>1, <1>6, <2>2
        <3>2. \/ \E g \in Row[d].on : Unfiled(Succeeded(g))
              \/ Row[d].on \in post.layers
              \/ d \in sat["post"].todo
            BY <1>0, <3>1 DEF LayersDue
        <3> QED
            BY <1>0, <1>4, <3>2
    <2> QED
        BY <2>1, <2>2
<1> QED
    BY <1>7, <1>8

\* Every step keeps what is due.
LEMMA SmoothDue ==
    ASSUME TypeInv, Calm, Due, Smooth
    PROVE  FramesDue' /\ LayersDue'
<1>0. /\ FramesDue /\ LayersDue /\ Counted /\ "post" \in Satisfier
      /\ depend \in [Deps -> {"absent", "active", "inactive"}]
    BY DEF Due, Calm, Satisfier, TypeInv, TypeOK
<1>k. ASSUME NoneSucceeds, UNCHANGED depend, \A c : Unfiled(c) => Unfiled(c)',
             post.layers \subseteq post'.layers, sat'["post"] = sat["post"]
      PROVE  FramesDue' /\ LayersDue'
    BY <1>0, <1>k, DueKept
<1>u. UNCHANGED frame => NoneSucceeds
    BY DEF NoneSucceeds
<1>1. ASSUME NEW f \in Frames, Start(f)
      PROVE  FramesDue' /\ LayersDue'
    <2>1. NoneSucceeds /\ UNCHANGED <<depend, queue, post, sat>>
        BY <1>0, <1>1, StartState DEF Start, scoopVars
    <2> QED
        BY <1>k, <2>1 DEF Unfiled
<1>2. CASE \E f \in Frames : \E r \in Outcomes[f] : Finish(f, r)
    BY <1>0, <1>2, FinishDue
<1>3. CASE QueuePostOps \/ UNCHANGED vars
    <2>1. UNCHANGED <<frame, depend, queue, post, sat>>
        BY <1>3 DEF QueuePostOps, vars, scoopVars
    <2> QED
        BY <1>k, <1>u, <2>1 DEF Unfiled
<1>4. CASE DrainTo
    <2>1. UNCHANGED <<frame, depend, sat>>
        BY <1>4 DEF DrainTo, PostUnchanged
    <2>2. post.scoop = <<>> /\ post.layers = {}
        BY <1>4 DEF DrainTo, ScoopFiled, Due, Tidy
    <2>3. queue' = queue \/ post'.scoop = queue
        BY <1>4 DEF DrainTo, PostOff
    <2>4. \A c : Unfiled(c) => Unfiled(c)'
        BY <2>2, <2>3, InSeqEmpty DEF Unfiled
    <2> QED
        BY <1>k, <1>u, <2>1, <2>2, <2>4
<1>5. CASE FileFrame
    BY <1>0, <1>5, FileFrameDue
<1>6. ASSUME NEW l \in Layers, FileLayer(l)
      PROVE  FramesDue' /\ LayersDue'
    BY <1>0, <1>6, FileLayerDue
<1>7. CASE LowerFlag \/ Recheck
    <2>1. UNCHANGED <<frame, depend, queue, sat>> /\ post.pc \in {"lower", "recheck"}
        BY <1>7 DEF LowerFlag, Recheck, PostUnchanged
    <2>2. post.scoop = <<>> /\ post.layers = {}
        BY <2>1 DEF Due, Tidy
    <2>3. \A c : Unfiled(c) => Unfiled(c)'
        BY <2>1, <2>2, InSeqEmpty DEF Unfiled
    <2> QED
        BY <1>k, <1>u, <2>1, <2>2, <2>3
<1>8. ASSUME NEW a \in Satisfier, SatStep(a)
      PROVE  FramesDue' /\ LayersDue'
    <2>1. UNCHANGED <<queue, post>>
        BY <1>8 DEF SatStep, SetInactive, GetDependentFrames, Decrement, scoopVars
    <2>2. NoneSucceeds
        BY <1>0, <1>8, SatState
    <2>3. \A d \in Deps : depend'[d] = "active" => depend[d] = "active"
        BY <1>8, SatRows
    <2>4. \A d \in Deps : d \in sat["post"].todo =>
               d \in sat'["post"].todo \/ depend'[d] # "active"
        BY <1>0, <1>8, SatRows
    <2>5. \A c : Unfiled(c) => Unfiled(c)'
        BY <2>1 DEF Unfiled
    <2> QED
        BY <1>0, <2>1, <2>2, <2>3, <2>4, <2>5, DueKept
<1>9. CASE SweepFind
    <2>1. UNCHANGED <<frame, depend, queue, post>>
        BY <1>9 DEF SweepFind, scoopVars
    <2>2. sat'["post"] = sat["post"]
        BY <1>9, Begun DEF SweepFind, Satisfier
    <2> QED
        BY <1>k, <1>u, <2>1, <2>2 DEF Unfiled
<1>10. CASE SweepFix
    <2>1. NoneSucceeds /\ UNCHANGED <<depend, queue, post, sat>>
        BY <1>0, <1>10, FixState DEF SweepFix, scoopVars
    <2> QED
        BY <1>k, <2>1 DEF Unfiled
<1>11. CASE PostStep
    BY <1>4, <1>5, <1>6, <1>7, <1>11 DEF PostStep
<1> QED
    BY <1>1, <1>2, <1>3, <1>8, <1>9, <1>10, <1>11 DEF Smooth

\* The worker's task is empty when it is off, and the sweep's satisfaction is.
LEMMA SmoothTidy ==
    ASSUME TypeInv, Calm, Tidy, Smooth
    PROVE  Tidy'
<1>0. post \in PostTask /\ "sweep" \in Satisfier
    BY DEF TypeInv, TypeOK, Satisfier
<1>k. ASSUME UNCHANGED <<post, sweep>>, Idle("sweep") => Idle("sweep")'
      PROVE  Tidy'
    BY <1>k DEF Tidy
<1>p. ASSUME UNCHANGED sweep, Idle("sweep") => Idle("sweep")',
             post'.pc # "file" => post'.scoop = <<>>,
             post'.pc \notin {"file", "layer"} => post'.layers = {}
      PROVE  Tidy'
    BY <1>p DEF Tidy
<1>1. CASE \/ \E f \in Frames : Start(f)
           \/ \E f \in Frames : \E r \in Outcomes[f] : Finish(f, r)
           \/ QueuePostOps
           \/ UNCHANGED vars
    <2>1. UNCHANGED <<post, sweep, sat>>
        BY <1>1 DEF Start, Finish, QueuePostOps, scoopVars, vars
    <2> QED
        BY <1>k, <2>1 DEF Idle
<1>2. CASE PostStep
    <2>1. UNCHANGED sweep
        BY <1>2 DEF PostStep, DrainTo, FileFrame, FileLayer, LowerFlag, Recheck,
                    PostUnchanged
    <2>2. Idle("sweep") => Idle("sweep")'
        BY <1>0, <1>2, FiledTodo DEF Calm, Idle
    <2>3. CASE DrainTo
        <3>1. \/ post'.pc = "lower" /\ post'.scoop = <<>> /\ post'.layers = {}
              \/ post'.pc = "file"
            BY <2>3 DEF DrainTo, PostOff
        <3> QED
            BY <1>p, <2>1, <2>2, <3>1
    <2>4. CASE FileFrame
        <3>1. post.pc = "file" /\ post' \in PostTask
            BY <2>4, <1>2, PostTypes DEF FileFrame, TypeInv, TypeOK
        <3>2. post'.pc = "file"
            BY <1>0, <2>4, <3>1 DEF FileFrame, PostTask
        <3> QED
            BY <1>p, <2>1, <2>2, <3>2
    <2>5. ASSUME NEW l \in Layers, FileLayer(l)
          PROVE  Tidy'
        <3>1. post'.pc = "layer" /\ post'.scoop = post.scoop /\ post.scoop = <<>>
            BY <1>0, <2>5 DEF FileLayer, CheckNext, PostTask
        <3> QED
            BY <1>p, <2>1, <2>2, <3>1
    <2>6. CASE LowerFlag
        <3>1. post'.pc = "recheck" /\ post'.scoop = post.scoop /\ post'.layers = post.layers
              /\ post.pc = "lower"
            BY <1>0, <2>6 DEF LowerFlag, PostTask
        <3> QED
            BY <1>p, <2>1, <2>2, <3>1 DEF Tidy
    <2>7. CASE Recheck
        BY <1>p, <2>1, <2>2, <2>7 DEF Recheck, PostOff
    <2> QED
        BY <1>2, <2>3, <2>4, <2>5, <2>6, <2>7 DEF PostStep
<1>3. ASSUME NEW a \in Satisfier, SatStep(a)
      PROVE  Tidy'
    <2>1. UNCHANGED <<post, sweep>>
        BY <1>3 DEF SatStep, SetInactive, GetDependentFrames, Decrement, scoopVars
    <2>2. Idle("sweep") => Idle("sweep")'
        BY <1>0, <1>3, SatRows DEF Idle
    <2> QED
        BY <1>k, <2>1, <2>2
<1>4. CASE SweepFind
    BY <1>4 DEF SweepFind, scoopVars, Tidy
<1>5. CASE SweepFix
    BY <1>5 DEF SweepFix, scoopVars, Tidy, Idle
<1> QED
    BY <1>1, <1>2, <1>3, <1>4, <1>5 DEF Smooth

\* FollowedUp: with no failure and no request the worker alone satisfies every
\* depend whose frames succeeded, and every count ends exact.
THEOREM FollowedUpCorrect == Spec => []FollowedUp
<1>1. Init => DueInv
    BY InitDue
<1>2. DueInv /\ [Next]_vars => DueInv'
    <2> SUFFICES ASSUME DueInv, [Next]_vars PROVE DueInv'
        OBVIOUS
    <2>1. CalmInv'
        BY NextCalm DEF DueInv
    <2>2. ASSUME Undisturbed'
          PROVE  Due'
        <3>1. Undisturbed /\ Smooth
            BY <2>2, OnlySmooth DEF DueInv
        <3>2. TypeInv /\ Calm /\ Due
            BY <3>1 DEF DueInv, CalmInv, Undisturbed
        <3>3. \A f \in Frames : Exact(f)'
            BY <3>1, <3>2, SmoothExact
        <3>4. FramesDue' /\ LayersDue' /\ Tidy'
            BY <3>1, <3>2, SmoothDue, SmoothTidy DEF Due
        <3> QED
            BY <3>3, <3>4 DEF Due
    <2> QED
        BY <2>1, <2>2 DEF DueInv
<1>3. DueInv => FollowedUp
    <2> SUFFICES ASSUME DueInv, Undisturbed, Quiescent
                 PROVE  /\ StaleDepends = {}
                        /\ \A d \in Deps :
                               depend[d] = "active" /\ Row[d].any =>
                                   \A f \in Row[d].on : frame[f].state # "SUCCEEDED"
                        /\ \A f \in Frames : frame[f].count = Cardinality(Holding(f))
        BY DEF FollowedUp
    <2>1. /\ post.scoop = <<>> /\ post.layers = {} /\ queue = <<>>
          /\ \A a \in Satisfier : sat[a].pc = "next" /\ sat[a].todo = {}
        BY DEF DueInv, Due, Tidy, Quiescent, Idle
    <2>2. (\A c : ~Unfiled(c)) /\ \A d : d \notin sat["post"].todo
        BY <2>1, InSeqEmpty DEF Unfiled, Satisfier
    <2>3. \A d \in Deps : depend[d] = "active" /\ (Row[d].type \in OnFrame \/ Row[d].any) =>
              \A g \in Row[d].on : frame[g].state # "SUCCEEDED"
        BY <2>2 DEF DueInv, Due, FramesDue
    <2>4. ASSUME NEW d \in StaleDepends
          PROVE  FALSE
        <3>1. d \in Deps /\ depend[d] = "active"
              /\ \A g \in Row[d].on : frame[g].state = "SUCCEEDED"
            BY DEF StaleDepends
        <3>2. Row[d].type \in OnFrame \cup OnLayer
            BY <3>1, DependsAssumption DEF DependRow
        <3>3. CASE Row[d].type \in OnFrame
            <4>1. \E g \in Row[d].on : TRUE
                BY <3>1, <3>3, RowAssumption
            <4> QED
                BY <2>3, <3>1, <3>3, <4>1
        <3>4. CASE Row[d].type \in OnLayer
            BY <2>1, <2>2, <3>1, <3>4 DEF DueInv, Due, LayersDue
        <3> QED
            BY <3>2, <3>3, <3>4
    <2>5. ASSUME NEW f \in Frames
          PROVE  frame[f].count = Cardinality(Holding(f))
        <3>1. Pending(f) = {}
            BY <2>1 DEF Pending
        <3>2. Debt(f) = Cardinality(Holding(f))
            BY <3>1, Finite, FS_EmptySet DEF Debt
        <3>3. Exact(f)
            BY DEF DueInv, Due
        <3> QED
            BY <3>2, <3>3, FS_EmptySet DEF Exact
    <2> QED
        BY <2>3, <2>4, <2>5
<1> QED
    BY <1>1, <1>2, <1>3, PTL DEF Spec
=============================================================================
