--------------------------- MODULE Depends_proofs ---------------------------
(***************************************************************************)
(* Proofs about Depends: the types of its variables, and that no           *)
(* completion is left in the queue without a task, for every farm, every   *)
(* set of depends and any number of requests and faults.                   *)
(***************************************************************************)
EXTENDS Depends, FiniteSetTheorems, TLAPS

-----------------------------------------------------------------------------
(* The operators the actions are built from.                               *)

LEMMA LayerOfType == \A f \in Frames : LayerOf(f) \in Layers
BY DependsAssumption DEF LayerOf

LEMMA RowTypes == \A d \in Deps : Row[d].er \in SUBSET Frames
BY DependsAssumption DEF DependRow

LEMMA DependsCounted ==
    ASSUME NEW S, S \subseteq Deps
    PROVE  Cardinality(S) \in Nat
BY DependsAssumption, FS_Subset, FS_CardinalityType

\* The triggers make a frame row of a frame row.
LEMMA TriggeredType ==
    ASSUME NEW old \in FrameRow, NEW new \in FrameRow
    PROVE  Triggered(old, new) \in FrameRow
BY DEF Triggered, FrameRow, FrameState

LEMMA SetFrameType ==
    ASSUME frame \in [Frames -> FrameRow], NEW f \in Frames,
           NEW new \in FrameRow, SetFrame(f, new)
    PROVE  frame' \in [Frames -> FrameRow]
<1>1. Triggered(frame[f], new) \in FrameRow
    BY TriggeredType
<1> QED
    BY <1>1 DEF SetFrame

LEMMA SetStateType ==
    ASSUME frame \in [Frames -> FrameRow], NEW f \in Frames,
           NEW s \in FrameState, SetState(f, s)
    PROVE  frame' \in [Frames -> FrameRow]
<1>1. [frame[f] EXCEPT !.state = s] \in FrameRow
    BY DEF FrameRow
<1> QED
    BY <1>1, SetFrameType DEF SetState

LEMMA IncrementType ==
    ASSUME frame \in [Frames -> FrameRow], NEW f \in Frames,
           IncrementDependCount(f)
    PROVE  frame' \in [Frames -> FrameRow]
<1>1. [frame[f] EXCEPT !.count = @ + 1] \in FrameRow
    BY DEF FrameRow
<1> QED
    BY <1>1, SetFrameType DEF IncrementDependCount

LEMMA DecrementType ==
    ASSUME frame \in [Frames -> FrameRow], NEW f \in Frames,
           DecrementDependCount(f)
    PROVE  frame' \in [Frames -> FrameRow]
<1>1. CASE frame[f].count > 0
    <2>1. [frame[f] EXCEPT !.count = @ - 1] \in FrameRow
        BY <1>1 DEF FrameRow
    <2> QED
        BY <1>1, <2>1, SetFrameType DEF DecrementDependCount
<1>2. CASE ~(frame[f].count > 0)
    BY <1>2 DEF DecrementDependCount
<1> QED
    BY <1>1, <1>2

LEMMA OrDoneType == \A u \in UserTask : OrDone(u) \in UserTask
BY DEF OrDone, UserTask, UserIdle

LEMMA Constants ==
    /\ NoSat \in Satisfaction
    /\ PostOff \in PostTask
    /\ UserIdle \in UserTask
<1>1. DependTries \in Nat \ {0}
    BY DependsAssumption
<1>2. NoSat \in Satisfaction
    BY DEF NoSat, Satisfaction
<1>3. PostOff \in PostTask
    BY <1>1 DEF PostOff, PostTask
<1>4. UserIdle \in UserTask
    BY DEF UserIdle, UserTask
<1> QED
    BY <1>2, <1>3, <1>4

-----------------------------------------------------------------------------
(* The types.  A layer that is put up for its check is the layer of a frame, *)
(* which the task's item is then taken from; a satisfaction that reads and a *)
(* request that writes know what they are about.                             *)

Registered == post.layers \subseteq {LayerOf(f) : f \in Frames}
Working ==
    /\ \A a \in Satisfier : sat[a].pc = "read" => sat[a].cur \in Deps
    /\ user.pc = "insert" => user.cur \in Deps
    /\ user.pc = "mark" => user.frame \in Frames

TypeInv == TypeOK /\ Registered /\ Working

LEMMA InitTypes == Init => TypeInv
<1> SUFFICES ASSUME Init PROVE TypeInv
    OBVIOUS
<1>1. depend \in [Deps -> {"absent", "active", "inactive"}]
    BY DEF Init
<1>2. frame \in [Frames -> FrameRow]
    <2>1. \A f \in Frames : Cardinality(Holding(f)) \in Nat
        BY DependsCounted DEF Holding
    <2> QED
        BY <2>1 DEF Init, FrameRow, FrameState
<1>3. requestsLeft \in 0..MaxRequests /\ faultsLeft \in 0..MaxFaults
    BY DependsAssumption DEF Init
<1>4. post \in PostTask /\ user \in UserTask /\ sat \in [Satisfier -> Satisfaction]
    BY Constants DEF Init
<1>5. queue \in Seq(Completion)
    BY DEF Init
<1>6. Registered /\ Working
    BY DEF Init, Registered, Working, PostOff, NoSat, UserIdle
<1> QED
    BY <1>1, <1>2, <1>3, <1>4, <1>5, <1>6 DEF TypeInv, TypeOK, Init

LEMMA AskedTypes ==
    ASSUME TypeOK, NEW request, Asked(request)
    PROVE  requestsLeft' \in 0..MaxRequests /\ faultsLeft' \in 0..MaxFaults
BY DependsAssumption DEF TypeOK, Asked

LEMMA SpendTypes ==
    ASSUME TypeOK, NEW fault, Spend(fault)
    PROVE  requestsLeft' \in 0..MaxRequests /\ faultsLeft' \in 0..MaxFaults
BY DependsAssumption DEF TypeOK, Spend

LEMMA StutterTypes == TypeInv /\ UNCHANGED vars => TypeInv'
BY DEF TypeInv, TypeOK, Registered, Working, vars, scoopVars, bounds

\* Frames that start and end, and the offer of a completion.
LEMMA RunTypes ==
    ASSUME TypeInv,
           \/ \E f \in Frames : Start(f)
           \/ \E f \in Frames : \E r \in Outcomes[f] : Finish(f, r)
           \/ QueuePostOps
    PROVE  TypeInv'
<1>1. ASSUME NEW f \in Frames, Start(f)
      PROVE  TypeInv'
    <2>1. frame' \in [Frames -> FrameRow]
        BY <1>1, SetStateType DEF Start, FrameState, TypeInv, TypeOK
    <2> QED
        BY <1>1, <2>1
        DEF Start, scoopVars, bounds, TypeInv, TypeOK, Registered, Working
<1>2. ASSUME NEW f \in Frames, NEW r \in Outcomes[f], Finish(f, r)
      PROVE  TypeInv'
    <2>1. r \in Outcome
        BY DependsAssumption
    <2>2. frame' \in [Frames -> FrameRow]
        BY <1>2, <2>1, SetStateType
        DEF Finish, FrameState, Outcome, TypeInv, TypeOK
    <2>3. [frame |-> f, result |-> r] \in Completion
        BY <2>1 DEF Completion
    <2>4. queue' \in Seq(Completion)
        BY <1>2, <2>3 DEF Finish, TypeInv, TypeOK
    <2> QED
        BY <1>2, <2>2, <2>4
        DEF Finish, bounds, TypeInv, TypeOK, Registered, Working
<1>3. ASSUME QueuePostOps
      PROVE  TypeInv'
    BY <1>3
    DEF QueuePostOps, ScheduleScoop, bounds, TypeInv, TypeOK, Registered, Working
<1> QED
    BY <1>1, <1>2, <1>3

\* One statement of a satisfaction.
LEMMA SatTypes ==
    ASSUME TypeInv, NEW a \in Satisfier, SatStep(a)
    PROVE  TypeInv'
<1>0. sat[a] \in Satisfaction
    BY DEF TypeInv, TypeOK
<1>0a. NextDepend(sat[a]) \in Satisfaction /\ NextDepend(sat[a]).pc = "next"
    BY <1>0 DEF Satisfaction, NextDepend
<1>1. ASSUME NEW d \in Deps, SetInactive(a, d)
      PROVE  TypeInv'
    <2>1. depend' \in [Deps -> {"absent", "active", "inactive"}]
        BY <1>1 DEF SetInactive, TypeInv, TypeOK
    <2> DEFINE read == [sat[a] EXCEPT !.pc = "read", !.cur = d, !.todo = @ \ {d}]
               over == [sat[a] EXCEPT !.todo = @ \ {d}]
    <2>2. read \in Satisfaction /\ over \in Satisfaction
        BY <1>0 DEF Satisfaction
    <2>3. read.cur \in Deps /\ over.pc = sat[a].pc
        BY <1>0 DEF Satisfaction
    <2>4. sat' = [sat EXCEPT ![a] = read] \/ sat' = [sat EXCEPT ![a] = over]
        BY <1>1 DEF SetInactive, Satisfying
    <2>5. sat[a].pc = "next"
        BY <1>1 DEF SetInactive
    <2> HIDE DEF read, over
    <2>6. sat' \in [Satisfier -> Satisfaction]
        BY <2>2, <2>4 DEF TypeInv, TypeOK
    <2>7. \A b \in Satisfier : sat'[b].pc = "read" => sat'[b].cur \in Deps
        BY <2>3, <2>4, <2>5 DEF TypeInv, TypeOK, Working
    <2> QED
        BY <1>1, <2>1, <2>6, <2>7
        DEF SetInactive, scoopVars, bounds, TypeInv, TypeOK, Registered, Working
<1>2. ASSUME GetDependentFrames(a)
      PROVE  TypeInv'
    <2> DEFINE fs == {f \in Row[sat[a].cur].er : frame[f].count > 0}
               count == [sat[a] EXCEPT !.pc = "count", !.left = fs]
    <2>1. sat[a].cur \in Deps
        BY <1>2 DEF GetDependentFrames, TypeInv, Working
    <2>2. fs \subseteq Frames
        BY <2>1, RowTypes
    <2> HIDE DEF fs
    <2>3. count \in Satisfaction /\ count.pc = "count"
        BY <1>0, <2>2 DEF Satisfaction
    <2>4. \/ sat' = [sat EXCEPT ![a] = NextDepend(sat[a])]
          \/ sat' = [sat EXCEPT ![a] = count]
        BY <1>2 DEF GetDependentFrames, Satisfying, fs
    <2> HIDE DEF count
    <2>5. sat' \in [Satisfier -> Satisfaction]
        BY <1>0a, <2>3, <2>4 DEF TypeInv, TypeOK
    <2>6. \A b \in Satisfier : sat'[b].pc = "read" => sat'[b].cur \in Deps
        BY <1>0a, <2>3, <2>4 DEF TypeInv, TypeOK, Working
    <2> QED
        BY <1>2, <2>5, <2>6
        DEF GetDependentFrames, scoopVars, bounds, TypeInv, TypeOK, Registered,
            Working
<1>3. ASSUME NEW f \in Frames, Decrement(a, f)
      PROVE  TypeInv'
    <2>1. frame' \in [Frames -> FrameRow]
        BY <1>3, DecrementType DEF Decrement, TypeInv, TypeOK
    <2> DEFINE rest == [sat[a] EXCEPT !.left = @ \ {f}]
    <2>2. rest \in Satisfaction /\ rest.pc = sat[a].pc
        BY <1>0 DEF Satisfaction
    <2>3. sat[a].pc = "count"
        BY <1>3 DEF Decrement
    <2>4. \/ sat' = [sat EXCEPT ![a] = NextDepend(sat[a])]
          \/ sat' = [sat EXCEPT ![a] = rest]
        BY <1>3 DEF Decrement, Satisfying
    <2> HIDE DEF rest
    <2>5. sat' \in [Satisfier -> Satisfaction]
        BY <1>0a, <2>2, <2>4 DEF TypeInv, TypeOK
    <2>6. \A b \in Satisfier : sat'[b].pc = "read" => sat'[b].cur \in Deps
        BY <1>0a, <2>2, <2>3, <2>4 DEF TypeInv, TypeOK, Working
    <2> QED
        BY <1>3, <2>1, <2>5, <2>6
        DEF Decrement, scoopVars, bounds, TypeInv, TypeOK, Registered, Working
<1> QED
    BY <1>1, <1>2, <1>3 DEF SatStep

\* Whoever begins a satisfaction anew begins with depends to satisfy.
LEMMA BeginTypes ==
    ASSUME TypeInv, NEW a \in Satisfier, NEW ds \in SUBSET Deps,
           Satisfying(a, [NoSat EXCEPT !.todo = ds])
    PROVE  /\ sat' \in [Satisfier -> Satisfaction]
           /\ \A b \in Satisfier : sat'[b].pc = "read" => sat'[b].cur \in Deps
<1> DEFINE new == [NoSat EXCEPT !.todo = ds]
<1>1. new \in Satisfaction /\ new.pc = "next"
    BY Constants DEF NoSat, Satisfaction
<1>2. sat' = [sat EXCEPT ![a] = new]
    BY DEF Satisfying
<1> HIDE DEF new
<1> QED
    BY <1>1, <1>2 DEF TypeInv, TypeOK, Working

LEMMA WhatDependsTypes ==
    /\ \A f, active : WhatDependsOnFrame(f, active) \subseteq Deps
    /\ \A l, active : WhatDependsOnLayer(l, active) \subseteq Deps
BY DEF WhatDependsOnFrame, WhatDependsOnLayer

\* The scoop of a task keeps its type when its first completion is taken off.
LEMMA ScoopTypes ==
    ASSUME TypeInv, post.scoop # <<>>
    PROVE  Head(post.scoop) \in Completion /\ Tail(post.scoop) \in Seq(Completion)
BY DEF TypeInv, TypeOK, PostTask

\* The post-complete worker.
LEMMA PostTypes ==
    ASSUME TypeInv, PostStep
    PROVE  TypeInv'
<1>0. post \in PostTask /\ "post" \in Satisfier
    BY DEF TypeInv, TypeOK, Satisfier
<1>t. 1 \in 0..DependTries
    BY DependsAssumption
<1>1. ASSUME DrainTo
      PROVE  TypeInv'
    <2>1. [PostOff EXCEPT !.pc = "lower"] \in PostTask
        BY Constants DEF PostOff, PostTask
    <2>2. [PostOff EXCEPT !.pc = "file", !.scoop = queue] \in PostTask
        BY Constants DEF PostOff, PostTask, TypeInv, TypeOK
    <2>3. post' \in PostTask /\ queue' \in Seq(Completion)
        <3>1. CASE queue = <<>>
            BY <1>1, <2>1, <3>1 DEF DrainTo, TypeInv, TypeOK
        <3>2. CASE queue # <<>>
            <4>1. post' = [PostOff EXCEPT !.pc = "file", !.scoop = queue]
                BY <1>1, <3>2 DEF DrainTo
            <4>2. queue' = <<>>
                BY <1>1, <3>2 DEF DrainTo
            <4> QED
                BY <4>1, <4>2, <2>2
        <3> QED
            BY <3>1, <3>2
    <2>4. post'.layers = {}
        BY <1>1 DEF DrainTo, PostOff
    <2>5. submitted' \in BOOLEAN
        BY <1>1 DEF DrainTo, TypeInv, TypeOK
    <2> QED
        BY <1>1, <2>3, <2>4, <2>5
        DEF DrainTo, PostUnchanged, bounds, TypeInv, TypeOK, Registered, Working
<1>2. ASSUME FileFrame
      PROVE  TypeInv'
    <2> DEFINE c == Head(post.scoop)
               begun == [post EXCEPT !.scoop = Tail(@), !.item = c.frame,
                                     !.layers = @ \cup {LayerOf(c.frame)},
                                     !.tries = 1]
               passed == [post EXCEPT !.scoop = Tail(@)]
    <2>1. c \in Completion /\ Tail(post.scoop) \in Seq(Completion)
        BY <1>2, ScoopTypes DEF FileFrame
    <2>2. c.frame \in Frames
        BY <2>1 DEF Completion
    <2>3. LayerOf(c.frame) \in Layers
        BY <2>2, LayerOfType
    <2>4. CASE c.result = "SUCCEEDED"
        <3>1. /\ post' = begun
              /\ Satisfying("post", [NoSat EXCEPT
                     !.todo = WhatDependsOnFrame(c.frame, "active")])
            BY <1>2, <2>4 DEF FileFrame
        <3>2. /\ sat' \in [Satisfier -> Satisfaction]
              /\ \A b \in Satisfier : sat'[b].pc = "read" => sat'[b].cur \in Deps
            BY <3>1, <1>0, BeginTypes, WhatDependsTypes
        <3> HIDE DEF c
        <3>3. begun \in PostTask
            BY <1>0, <1>t, <2>1, <2>2, <2>3 DEF PostTask
        <3>4. begun.layers \subseteq {LayerOf(f) : f \in Frames}
            BY <1>0, <2>2 DEF PostTask, TypeInv, Registered
        <3> HIDE DEF begun
        <3> QED
            BY <1>2, <3>1, <3>2, <3>3, <3>4
            DEF FileFrame, PostUnchanged, bounds, TypeInv, TypeOK, Registered,
                Working
    <2>5. CASE c.result # "SUCCEEDED"
        <3>1. post' = passed /\ UNCHANGED sat
            BY <1>2, <2>5 DEF FileFrame
        <3>2. passed \in PostTask /\ passed.layers = post.layers
            BY <1>0, <2>1 DEF PostTask
        <3> HIDE DEF passed
        <3> QED
            BY <1>2, <3>1, <3>2
            DEF FileFrame, PostUnchanged, bounds, TypeInv, TypeOK, Registered,
                Working
    <2> QED
        BY <2>4, <2>5
<1>3. ASSUME NEW l \in Layers, FileLayer(l)
      PROVE  TypeInv'
    <2> DEFINE f == CHOOSE x \in Frames : LayerOf(x) = l
               begun == [post EXCEPT !.pc = "layer", !.layers = @ \ {l},
                                     !.tries = 1, !.item = f]
    <2>1. l \in post.layers
        BY <1>3 DEF FileLayer, CheckNext
    <2>2. \E x \in Frames : LayerOf(x) = l
        BY <2>1 DEF TypeInv, Registered
    <2>3. f \in Frames
        BY <2>2
    <2>4. post' = begun
        BY <1>3 DEF FileLayer
    <2> HIDE DEF f
    <2>5. begun \in PostTask /\ begun.layers \subseteq post.layers
        BY <1>0, <1>t, <2>3 DEF PostTask
    <2> HIDE DEF begun
    <2>6. /\ sat' \in [Satisfier -> Satisfaction]
          /\ \A b \in Satisfier : sat'[b].pc = "read" => sat'[b].cur \in Deps
        <3>1. CASE IsLayerComplete(l)
            <4>1. Satisfying("post", [NoSat EXCEPT
                                  !.todo = WhatDependsOnLayer(l, "active")])
                BY <1>3, <3>1 DEF FileLayer
            <4> QED
                BY <4>1, <1>0, BeginTypes, WhatDependsTypes
        <3>2. CASE ~IsLayerComplete(l)
            BY <1>3, <3>2 DEF FileLayer, TypeInv, TypeOK, Working
        <3> QED
            BY <3>1, <3>2
    <2> QED
        BY <1>3, <2>4, <2>5, <2>6
        DEF FileLayer, PostUnchanged, bounds, TypeInv, TypeOK, Registered, Working
<1>4. ASSUME LowerFlag
      PROVE  TypeInv'
    <2>1. post' \in PostTask /\ post'.layers = post.layers
        BY <1>0, <1>4 DEF LowerFlag, PostTask
    <2> QED
        BY <1>4, <2>1
        DEF LowerFlag, PostUnchanged, bounds, TypeInv, TypeOK, Registered, Working
<1>5. ASSUME Recheck
      PROVE  TypeInv'
    <2>1. post' \in PostTask /\ post'.layers = {}
        BY <1>5, Constants DEF Recheck, PostOff
    <2>2. scheduled' \in BOOLEAN /\ submitted' \in BOOLEAN
        BY <1>5 DEF Recheck, ScheduleScoop, TypeInv, TypeOK
    <2> QED
        BY <1>5, <2>1, <2>2
        DEF Recheck, PostUnchanged, bounds, TypeInv, TypeOK, Registered, Working
<1> QED
    BY <1>1, <1>2, <1>3, <1>4, <1>5 DEF PostStep

\* The sweep.
LEMMA SweepTypes ==
    ASSUME TypeInv, SweepFind \/ SweepFix
    PROVE  TypeInv'
<1>1. ASSUME SweepFind
      PROVE  TypeInv'
    <2>1. StaleDepends \in SUBSET Deps /\ "sweep" \in Satisfier
        BY DEF StaleDepends, Satisfier
    <2>2. /\ sat' \in [Satisfier -> Satisfaction]
          /\ \A b \in Satisfier : sat'[b].pc = "read" => sat'[b].cur \in Deps
        BY <1>1, <2>1, BeginTypes DEF SweepFind
    <2> QED
        BY <1>1, <2>2
        DEF SweepFind, scoopVars, bounds, TypeInv, TypeOK, Registered, Working
<1>2. ASSUME SweepFix
      PROVE  TypeInv'
    <2>1. ASSUME NEW f \in Frames
          PROVE  Triggered(frame[f], [frame[f] EXCEPT !.count = 0]) \in FrameRow
        <3>1. frame[f] \in FrameRow
            BY DEF TypeInv, TypeOK
        <3>2. [frame[f] EXCEPT !.count = 0] \in FrameRow
            BY <3>1 DEF FrameRow
        <3> QED
            BY <3>1, <3>2, TriggeredType
    <2>2. frame' \in [Frames -> FrameRow]
        BY <1>2, <2>1 DEF SweepFix, TypeInv, TypeOK
    <2> QED
        BY <1>2, <2>2
        DEF SweepFix, scoopVars, bounds, TypeInv, TypeOK, Registered, Working
<1> QED
    BY <1>1, <1>2

\* What a request still has to do.
LEMMA UserStepTypes ==
    ASSUME TypeInv, UserStep
    PROVE  TypeInv'
<1>0. user \in UserTask
    BY DEF TypeInv, TypeOK
<1>1. ASSUME CreateInsert
      PROVE  TypeInv'
    <2>1. user.cur \in Deps /\ user.row \in {"active", "inactive"}
        BY <1>0, <1>1 DEF CreateInsert, TypeInv, Working, UserTask
    <2>2. depend' \in [Deps -> {"absent", "active", "inactive"}]
        BY <1>1, <2>1 DEF CreateInsert, TypeInv, TypeOK
    <2> DEFINE new == [user EXCEPT !.pc = "charge", !.left = Row[user.cur].er]
    <2>3. new \in UserTask /\ new.pc = "charge"
        BY <1>0, <2>1, RowTypes DEF UserTask
    <2>4. user' = OrDone(new) \/ user' = UserIdle
        BY <1>1 DEF CreateInsert
    <2> HIDE DEF new
    <2>5. user' \in UserTask /\ user'.pc \notin {"insert", "mark"}
        BY <2>3, <2>4, OrDoneType, Constants DEF OrDone, UserIdle
    <2> QED
        BY <1>1, <2>2, <2>5
        DEF CreateInsert, UserUnchanged, scoopVars, bounds, TypeInv, TypeOK,
            Registered, Working
<1>2. ASSUME RetryReadFrame
      PROVE  TypeInv'
    <2> DEFINE ds == WhatDependsOnFrame(user.frame, "inactive")
    <2>1. ds \subseteq Deps
        BY WhatDependsTypes
    <2>2. user' = [user EXCEPT !.pc = "onFrame", !.todo = ds]
        BY <1>2 DEF RetryReadFrame
    <2> HIDE DEF ds
    <2>3. user' \in UserTask /\ user'.pc = "onFrame"
        BY <1>0, <2>1, <2>2 DEF UserTask
    <2> QED
        BY <1>2, <2>3
        DEF RetryReadFrame, UserUnchanged, scoopVars, bounds, TypeInv, TypeOK,
            Registered, Working
<1>3. ASSUME RetryReadLayer
      PROVE  TypeInv'
    <2> DEFINE ds == WhatDependsOnLayer(LayerOf(user.frame), "inactive")
               new == [user EXCEPT !.pc = "onLayer", !.todo = ds]
    <2>1. ds \subseteq Deps
        BY WhatDependsTypes
    <2>2. user' = OrDone(new)
        BY <1>3 DEF RetryReadLayer
    <2> HIDE DEF ds
    <2>3. new \in UserTask /\ new.pc = "onLayer"
        BY <1>0, <2>1 DEF UserTask
    <2> HIDE DEF new
    <2>4. user' \in UserTask /\ user'.pc \notin {"insert", "mark"}
        BY <2>2, <2>3, OrDoneType DEF OrDone, UserIdle
    <2> QED
        BY <1>3, <2>4
        DEF RetryReadLayer, UserUnchanged, scoopVars, bounds, TypeInv, TypeOK,
            Registered, Working
<1>4. ASSUME NEW d \in Deps, SetActive(d)
      PROVE  TypeInv'
    <2> DEFINE charge == [user EXCEPT !.todo = @ \ {d}, !.left = Row[d].er]
               pass == [user EXCEPT !.todo = @ \ {d}]
    <2>1. /\ charge \in UserTask /\ charge.pc = user.pc
          /\ pass \in UserTask /\ pass.pc = user.pc
        BY <1>0, RowTypes DEF UserTask
    <2>2. user' = OrDone(charge) \/ user' = OrDone(pass)
        BY <1>4 DEF SetActive
    <2>3. user.pc \in {"onFrame", "onLayer"}
        BY <1>4 DEF SetActive
    <2> HIDE DEF charge, pass
    <2>4. user' \in UserTask /\ user'.pc \notin {"insert", "mark"}
        BY <2>1, <2>2, <2>3, OrDoneType DEF OrDone, UserIdle
    <2>5. depend' \in [Deps -> {"absent", "active", "inactive"}]
        BY <1>4 DEF SetActive, TypeInv, TypeOK
    <2> QED
        BY <1>4, <2>4, <2>5
        DEF SetActive, UserUnchanged, scoopVars, bounds, TypeInv, TypeOK,
            Registered, Working
<1>5. ASSUME NEW f \in Frames, Charge(f)
      PROVE  TypeInv'
    <2>1. frame' \in [Frames -> FrameRow]
        BY <1>5, IncrementType DEF Charge, TypeInv, TypeOK
    <2> DEFINE new == [user EXCEPT !.left = @ \ {f}]
    <2>2. new \in UserTask /\ new.pc = user.pc /\ new.cur = user.cur
          /\ new.frame = user.frame
        BY <1>0 DEF UserTask
    <2>3. user' = OrDone(new)
        BY <1>5 DEF Charge
    <2> HIDE DEF new
    <2>4. user' \in UserTask
        BY <2>2, <2>3, OrDoneType
    <2>5. user' = new \/ user' = UserIdle
        BY <2>3 DEF OrDone
    <2>6. /\ user'.pc = "insert" => user'.cur \in Deps
          /\ user'.pc = "mark" => user'.frame \in Frames
        BY <2>2, <2>5 DEF UserIdle, TypeInv, Working
    <2> QED
        BY <1>5, <2>1, <2>4, <2>6
        DEF Charge, UserUnchanged, scoopVars, bounds, TypeInv, TypeOK,
            Registered, Working
<1>6. ASSUME MarkUpdate
      PROVE  TypeInv'
    <2>1. user.frame \in Frames
        BY <1>6 DEF MarkUpdate, TypeInv, Working
    <2>2. Cardinality(user.todo) \in Nat
        BY <1>0, DependsCounted DEF UserTask
    <2>3. [state |-> "DEPEND", count |-> Cardinality(user.todo)] \in FrameRow
        BY <2>2 DEF FrameRow, FrameState
    <2>4. frame' \in [Frames -> FrameRow] /\ excused' \subseteq Frames
        BY <1>6, <2>1, <2>3 DEF MarkUpdate, TypeInv, TypeOK
    <2>5. user' = UserIdle
        BY <1>6 DEF MarkUpdate
    <2>6. user' \in UserTask /\ user'.pc = "idle"
        BY <2>5, Constants DEF UserIdle
    <2> QED
        BY <1>6, <2>4, <2>6
        DEF MarkUpdate, scoopVars, bounds, TypeInv, TypeOK, Registered, Working
<1> QED
    BY <1>1, <1>2, <1>3, <1>4, <1>5, <1>6 DEF UserStep

\* A new request.
LEMMA UserRequestTypes ==
    ASSUME TypeInv, UserRequest
    PROVE  TypeInv'
<1>1. ASSUME NEW d \in Deps, CreateCheck(d)
      PROVE  TypeInv'
    <2>1. requestsLeft' \in 0..MaxRequests /\ faultsLeft' \in 0..MaxFaults
        BY <1>1, AskedTypes DEF CreateCheck, TypeInv
    <2>2. user' \in UserTask /\ user'.pc = "insert" /\ user'.cur = d
        BY <1>1, Constants DEF CreateCheck, UserIdle, UserTask
    <2> QED
        BY <1>1, <2>1, <2>2
        DEF CreateCheck, UserUnchanged, scoopVars, TypeInv, TypeOK, Registered,
            Working
<1>2. ASSUME NEW d \in Deps, UnsatisfyRequest(d)
      PROVE  TypeInv'
    <2>1. requestsLeft' \in 0..MaxRequests /\ faultsLeft' \in 0..MaxFaults
        BY <1>2, AskedTypes DEF UnsatisfyRequest, TypeInv
    <2>2. user' \in UserTask /\ user'.pc = "onLayer"
        BY <1>2, Constants DEF UnsatisfyRequest, UserIdle, UserTask
    <2> QED
        BY <1>2, <2>1, <2>2
        DEF UnsatisfyRequest, UserUnchanged, scoopVars, TypeInv, TypeOK,
            Registered, Working
<1>3. ASSUME NEW ds \in SUBSET Deps, DropDepends(ds)
      PROVE  TypeInv'
    <2>1. requestsLeft' \in 0..MaxRequests /\ faultsLeft' \in 0..MaxFaults
        BY <1>3, AskedTypes DEF DropDepends, TypeInv
    <2>2. /\ sat' \in [Satisfier -> Satisfaction]
          /\ \A b \in Satisfier : sat'[b].pc = "read" => sat'[b].cur \in Deps
        BY <1>3, BeginTypes DEF DropDepends, Satisfier
    <2> QED
        BY <1>3, <2>1, <2>2
        DEF DropDepends, scoopVars, TypeInv, TypeOK, Registered, Working
<1>4. ASSUME NEW f \in Frames, RetryForce(f)
      PROVE  TypeInv'
    <2>1. requestsLeft' \in 0..MaxRequests /\ faultsLeft' \in 0..MaxFaults
        BY <1>4, AskedTypes DEF RetryForce, TypeInv
    <2>2. user' \in UserTask /\ user'.pc = "read"
        BY <1>4, Constants DEF RetryForce, UserIdle, UserTask
    <2>3. frame' \in [Frames -> FrameRow]
        BY <1>4, SetStateType DEF RetryForce, FrameState, TypeInv, TypeOK
    <2> QED
        BY <1>4, <2>1, <2>2, <2>3
        DEF RetryForce, UserUnchanged, scoopVars, TypeInv, TypeOK, Registered,
            Working
<1>5. ASSUME NEW f \in Frames, EatFrame(f)
      PROVE  TypeInv'
    <2>1. requestsLeft' \in 0..MaxRequests /\ faultsLeft' \in 0..MaxFaults
        BY <1>5, AskedTypes DEF EatFrame, TypeInv
    <2>2. frame' \in [Frames -> FrameRow]
        BY <1>5, SetStateType DEF EatFrame, FrameState, TypeInv, TypeOK
    <2> QED
        BY <1>5, <2>1, <2>2
        DEF EatFrame, scoopVars, TypeInv, TypeOK, Registered, Working
<1>6. ASSUME NEW f \in Frames, MarkAsWaiting(f)
      PROVE  TypeInv'
    <2>1. requestsLeft' \in 0..MaxRequests /\ faultsLeft' \in 0..MaxFaults
        BY <1>6, AskedTypes DEF MarkAsWaiting, TypeInv
    <2>2. frame' \in [Frames -> FrameRow] /\ excused' \subseteq Frames
        BY <1>6 DEF MarkAsWaiting, FrameRow, FrameState, TypeInv, TypeOK
    <2> QED
        BY <1>6, <2>1, <2>2
        DEF MarkAsWaiting, scoopVars, TypeInv, TypeOK, Registered, Working
<1>7. ASSUME NEW f \in Frames, MarkAsDepend(f)
      PROVE  TypeInv'
    <2>1. requestsLeft' \in 0..MaxRequests /\ faultsLeft' \in 0..MaxFaults
        BY <1>7, AskedTypes DEF MarkAsDepend, TypeInv
    <2>2. FrameDepends(f) \subseteq Deps
        BY DEF FrameDepends
    <2>3. user' \in UserTask /\ user'.pc = "mark" /\ user'.frame = f
        BY <1>7, <2>2, Constants DEF MarkAsDepend, UserIdle, UserTask
    <2> QED
        BY <1>7, <2>1, <2>3
        DEF MarkAsDepend, UserUnchanged, scoopVars, TypeInv, TypeOK, Registered,
            Working
<1>8. \A f \in Frames : WhatThisDependsOn(f) \subseteq Deps
    BY DEF WhatThisDependsOn, Holding
<1> QED
    BY <1>1, <1>2, <1>3, <1>4, <1>5, <1>6, <1>7, <1>8 DEF UserRequest

\* What goes wrong.
LEMMA FailureTypes ==
    ASSUME TypeInv, Failure
    PROVE  TypeInv'
<1>0. post \in PostTask
    BY DEF TypeInv, TypeOK
<1>1. ASSUME NEW a \in Satisfier, SatFails(a)
      PROVE  TypeInv'
    <2>1. requestsLeft' \in 0..MaxRequests /\ faultsLeft' \in 0..MaxFaults
        BY <1>1, SpendTypes DEF SatFails, TypeInv
    <2>2. sat[a] \in Satisfaction
        BY DEF TypeInv, TypeOK
    <2>3. CASE a = "post" /\ post.tries < DependTries
        <3>1. Reread \in SUBSET Deps
            BY WhatDependsTypes DEF Reread
        <3>2. Satisfying(a, [NoSat EXCEPT !.todo = Reread])
            BY <1>1, <2>3 DEF SatFails
        <3>3. post' = [post EXCEPT !.tries = @ + 1]
            BY <1>1, <2>3 DEF SatFails
        <3>4. post' \in PostTask /\ post'.layers = post.layers
            <4>1. post.tries \in 0..DependTries /\ DependTries \in Nat
                BY <1>0, DependsAssumption DEF PostTask
            <4>2. post.tries + 1 \in 0..DependTries
                BY <2>3, <4>1
            <4> QED
                BY <1>0, <3>3, <4>2 DEF PostTask
        <3>5. /\ sat' \in [Satisfier -> Satisfaction]
              /\ \A b \in Satisfier : sat'[b].pc = "read" => sat'[b].cur \in Deps
            BY <3>1, <3>2, BeginTypes
        <3> QED
            BY <1>1, <2>1, <3>4, <3>5
            DEF SatFails, TypeInv, TypeOK, Registered, Working
    <2>4. CASE ~(a = "post" /\ post.tries < DependTries)
        <3> DEFINE new == IF a = "sweep" THEN NextDepend(sat[a]) ELSE NoSat
        <3>1. new \in Satisfaction /\ new.pc = "next"
            BY <2>2, Constants DEF NextDepend, NoSat, Satisfaction
        <3>2. sat' = [sat EXCEPT ![a] = new] /\ UNCHANGED post
            BY <1>1, <2>4 DEF SatFails, Satisfying
        <3> HIDE DEF new
        <3>3. /\ sat' \in [Satisfier -> Satisfaction]
              /\ \A b \in Satisfier : sat'[b].pc = "read" => sat'[b].cur \in Deps
            BY <3>1, <3>2 DEF TypeInv, TypeOK, Working
        <3> QED
            BY <1>1, <2>1, <3>2, <3>3
            DEF SatFails, TypeInv, TypeOK, Registered, Working
    <2> QED
        BY <2>3, <2>4
<1>2. ASSUME NEW l \in Layers, CheckFails(l)
      PROVE  TypeInv'
    <2>1. requestsLeft' \in 0..MaxRequests /\ faultsLeft' \in 0..MaxFaults
        BY <1>2, SpendTypes DEF CheckFails, TypeInv
    <2>2. post' = [post EXCEPT !.pc = "layer", !.layers = @ \ {l}]
        BY <1>2 DEF CheckFails
    <2>3. post' \in PostTask /\ post'.layers \subseteq post.layers
        BY <1>0, <2>2 DEF PostTask
    <2> QED
        BY <1>2, <2>1, <2>3 DEF CheckFails, TypeInv, TypeOK, Registered, Working
<1>3. ASSUME NEW lost \in SUBSET Satisfier, CuebotStops(lost)
      PROVE  TypeInv'
    <2>1. requestsLeft' \in 0..MaxRequests /\ faultsLeft' \in 0..MaxFaults
        BY <1>3, SpendTypes DEF CuebotStops, TypeInv
    <2>2. /\ queue' \in Seq(Completion) /\ arming' \in BOOLEAN
          /\ scheduled' \in BOOLEAN /\ submitted' \in BOOLEAN
        <3>1. CASE "post" \in lost
            <4>1. <<>> \in Seq(Completion)
                OBVIOUS
            <4> QED
                BY <1>3, <3>1, <4>1 DEF CuebotStops
        <3>2. CASE "post" \notin lost
            BY <1>3, <3>2 DEF CuebotStops, scoopVars, TypeInv, TypeOK
        <3> QED
            BY <3>1, <3>2
    <2>3. post' = PostOff \/ post' = post
        BY <1>3 DEF CuebotStops, scoopVars
    <2>4. post' \in PostTask /\ Registered'
        <3>1. CASE post' = PostOff
            <4>1. PostOff.layers = {}
                BY DEF PostOff
            <4> QED
                BY <3>1, <4>1, Constants DEF Registered
        <3>2. CASE post' = post
            BY <1>0, <3>2 DEF Registered, TypeInv
        <3> QED
            BY <2>3, <3>1, <3>2
    <2>5. sat' = [a \in Satisfier |-> IF a \in lost THEN NoSat ELSE sat[a]]
        BY <1>3 DEF CuebotStops
    <2>6. /\ sat' \in [Satisfier -> Satisfaction]
          /\ \A b \in Satisfier : sat'[b].pc = "read" => sat'[b].cur \in Deps
        <3>1. NoSat \in Satisfaction /\ NoSat.pc = "next"
            BY Constants DEF NoSat
        <3>2. \A b \in Satisfier : sat'[b] = NoSat \/ sat'[b] = sat[b]
            BY <2>5
        <3>3. \A b \in Satisfier : sat[b] \in Satisfaction
            BY DEF TypeInv, TypeOK
        <3>4. \A b \in Satisfier : sat'[b] \in Satisfaction
            BY <3>1, <3>2, <3>3
        <3>5. sat' \in [Satisfier -> Satisfaction]
            BY <2>5, <3>4
        <3>6. ASSUME NEW b \in Satisfier, sat'[b].pc = "read"
              PROVE  sat'[b].cur \in Deps
            BY <3>1, <3>2, <3>6 DEF TypeInv, Working
        <3> QED
            BY <3>5, <3>6
    <2>7. user' = UserIdle \/ user' = user
        BY <1>3 DEF CuebotStops
    <2>8. /\ user' \in UserTask
          /\ user'.pc = "insert" => user'.cur \in Deps
          /\ user'.pc = "mark" => user'.frame \in Frames
        <3>1. UserIdle.pc = "idle"
            BY DEF UserIdle
        <3>2. CASE user' = UserIdle
            BY <3>1, <3>2, Constants
        <3>3. CASE user' = user
            BY <3>3 DEF TypeInv, TypeOK, Working
        <3> QED
            BY <2>7, <3>2, <3>3
    <2>9. excused' \subseteq Frames
        BY <1>3 DEF CuebotStops, TypeInv, TypeOK, UserTask
    <2>10. sweep' \in {"idle", "satisfy"}
        BY <1>3 DEF CuebotStops, TypeInv, TypeOK
    <2> QED
        BY <1>3, <2>1, <2>2, <2>4, <2>6, <2>8, <2>9, <2>10
        DEF CuebotStops, TypeInv, TypeOK, Working
<1> QED
    BY <1>1, <1>2, <1>3 DEF Failure

LEMMA NextTypes == TypeInv /\ [Next]_vars => TypeInv'
BY RunTypes, SatTypes, PostTypes, SweepTypes, UserStepTypes, UserRequestTypes,
   FailureTypes, StutterTypes DEF Next

\* The variables keep their types, for every farm, every set of depends and any
\* number of requests and faults.
THEOREM TypeCorrect == Spec => []TypeOK
<1>1. TypeInv => TypeOK
    BY DEF TypeInv
<1> QED
    BY <1>1, InitTypes, NextTypes, PTL DEF Spec

-----------------------------------------------------------------------------
(* The worker's task.  A task that waits in the executor and a task that is  *)
(* filing never exist together: the flag comes down only when none waits.    *)

Filing == post.pc \in {"file", "layer", "lower"}
OneTask == ~(submitted /\ Filing)
TaskInv == TypeInv /\ CompletionHasTask /\ OneTask

LEMMA InitTask == Init => TaskInv
<1> SUFFICES ASSUME Init PROVE TaskInv
    OBVIOUS
<1>1. post.pc = "off"
    BY DEF Init, PostOff
<1> QED
    BY <1>1, InitTypes DEF Init, TaskInv, CompletionHasTask, OneTask, Filing

\* Whatever leaves the worker's five variables alone.
LEMMA ScoopUnchanged ==
    ASSUME CompletionHasTask, OneTask, UNCHANGED scoopVars
    PROVE  CompletionHasTask' /\ OneTask'
BY DEF scoopVars, CompletionHasTask, OneTask, Filing

\* Whatever moves the worker within its task: it files, fails or retries.
LEMMA StillFiling ==
    ASSUME CompletionHasTask, OneTask, Filing, Filing',
           UNCHANGED <<queue, arming, scheduled, submitted>>
    PROVE  CompletionHasTask' /\ OneTask'
BY DEF CompletionHasTask, OneTask, Filing

LEMMA PostTasks ==
    ASSUME TypeInv, CompletionHasTask, OneTask, PostStep
    PROVE  CompletionHasTask' /\ OneTask'
<1>0. post \in PostTask /\ scheduled \in BOOLEAN /\ submitted \in BOOLEAN
    BY DEF TypeInv, TypeOK
<1>1. CASE DrainTo
    <2>1. Filing'
        BY <1>1 DEF DrainTo, PostOff, Filing
    <2>2. ~submitted' /\ scheduled' = scheduled /\ scheduled
        BY <1>1, <1>0
        DEF DrainTo, ScoopFiled, CompletionHasTask, OneTask, Filing
    <2> QED
        BY <2>1, <2>2 DEF CompletionHasTask, OneTask, Filing
<1>2. CASE FileFrame
    <2>1. post.pc = "file" /\ post'.pc = "file"
        BY <1>2, <1>0 DEF FileFrame, PostTask
    <2> QED
        BY <1>2, <2>1, StillFiling DEF FileFrame, PostUnchanged, Filing
<1>3. ASSUME NEW l \in Layers, FileLayer(l)
      PROVE  CompletionHasTask' /\ OneTask'
    <2>1. post.pc \in {"file", "layer"} /\ post'.pc = "layer"
        BY <1>3, <1>0 DEF FileLayer, CheckNext, PostTask
    <2> QED
        BY <1>3, <2>1, StillFiling DEF FileLayer, PostUnchanged, Filing
<1>4. CASE LowerFlag
    <2>1. post.pc = "lower" /\ post'.pc = "recheck"
        BY <1>4, <1>0 DEF LowerFlag, PostTask
    <2> QED
        BY <1>4, <2>1
        DEF LowerFlag, PostUnchanged, CompletionHasTask, OneTask, Filing
<1>5. CASE Recheck
    <2>1. post.pc = "recheck" /\ post'.pc = "off"
        BY <1>5 DEF Recheck, PostOff
    <2>2. UNCHANGED <<queue, arming>>
        BY <1>5 DEF Recheck, PostUnchanged
    <2>3. CASE queue = <<>>
        BY <1>5, <2>1, <2>2, <2>3
        DEF Recheck, CompletionHasTask, OneTask, Filing
    <2>4. CASE queue # <<>>
        BY <1>0, <1>5, <2>1, <2>2, <2>4
        DEF Recheck, ScheduleScoop, CompletionHasTask, OneTask, Filing
    <2> QED
        BY <2>3, <2>4
<1> QED
    BY <1>1, <1>2, <1>3, <1>4, <1>5 DEF PostStep

LEMMA FailureTasks ==
    ASSUME TypeInv, CompletionHasTask, OneTask, Failure
    PROVE  CompletionHasTask' /\ OneTask'
<1>0. post \in PostTask
    BY DEF TypeInv, TypeOK
<1>1. ASSUME NEW a \in Satisfier, SatFails(a)
      PROVE  CompletionHasTask' /\ OneTask'
    <2>1. UNCHANGED <<queue, arming, scheduled, submitted>>
        BY <1>1 DEF SatFails
    <2>2. post' = post \/ post' = [post EXCEPT !.tries = @ + 1]
        BY <1>1 DEF SatFails
    <2>3. post'.pc = post.pc
        BY <1>0, <2>2 DEF PostTask
    <2> QED
        BY <2>1, <2>3 DEF CompletionHasTask, OneTask, Filing
<1>2. ASSUME NEW l \in Layers, CheckFails(l)
      PROVE  CompletionHasTask' /\ OneTask'
    <2>1. post.pc \in {"file", "layer"} /\ post'.pc = "layer"
        BY <1>2, <1>0 DEF CheckFails, CheckNext, PostTask
    <2> QED
        BY <1>2, <2>1, StillFiling DEF CheckFails, Filing
<1>3. ASSUME NEW lost \in SUBSET Satisfier, CuebotStops(lost)
      PROVE  CompletionHasTask' /\ OneTask'
    <2>1. CASE "post" \in lost
        <3>1. post'.pc = "off"
            BY <1>3, <2>1 DEF CuebotStops, PostOff
        <3>2. queue' = <<>> /\ ~scheduled' /\ ~submitted'
            BY <1>3, <2>1 DEF CuebotStops
        <3> QED
            BY <3>1, <3>2 DEF CompletionHasTask, OneTask, Filing
    <2>2. CASE "post" \notin lost
        BY <1>3, <2>2, ScoopUnchanged DEF CuebotStops
    <2> QED
        BY <2>1, <2>2
<1> QED
    BY <1>1, <1>2, <1>3 DEF Failure

LEMMA NextTask == TaskInv /\ [Next]_vars => TaskInv'
<1> SUFFICES ASSUME TaskInv, [Next]_vars
             PROVE  CompletionHasTask' /\ OneTask'
    BY NextTypes DEF TaskInv
<1> USE DEF TaskInv
<1>0. scheduled \in BOOLEAN /\ submitted \in BOOLEAN
    BY DEF TypeInv, TypeOK
<1>1. ASSUME NEW f \in Frames, Start(f)
      PROVE  CompletionHasTask' /\ OneTask'
    BY <1>1, ScoopUnchanged DEF Start
<1>2. ASSUME NEW f \in Frames, NEW r \in Outcomes[f], Finish(f, r)
      PROVE  CompletionHasTask' /\ OneTask'
    BY <1>2 DEF Finish, CompletionHasTask, OneTask, Filing
<1>3. CASE QueuePostOps
    <2>1. /\ UNCHANGED <<queue, post>> /\ scheduled' = TRUE
          /\ submitted' = (submitted \/ ~scheduled)
        BY <1>3 DEF QueuePostOps, ScheduleScoop
    <2> QED
        BY <1>0, <2>1 DEF CompletionHasTask, OneTask, Filing
<1>4. CASE PostStep
    BY <1>4, PostTasks
<1>5. ASSUME NEW a \in Satisfier, SatStep(a)
      PROVE  CompletionHasTask' /\ OneTask'
    BY <1>5, ScoopUnchanged
    DEF SatStep, SetInactive, GetDependentFrames, Decrement
<1>6. CASE SweepFind \/ SweepFix
    BY <1>6, ScoopUnchanged DEF SweepFind, SweepFix
<1>7. CASE UserStep
    BY <1>7, ScoopUnchanged
    DEF UserStep, CreateInsert, RetryReadFrame, RetryReadLayer, SetActive,
        Charge, MarkUpdate, UserUnchanged
<1>8. CASE UserRequest
    BY <1>8, ScoopUnchanged
    DEF UserRequest, CreateCheck, UnsatisfyRequest, DropDepends, RetryForce,
        EatFrame, MarkAsWaiting, MarkAsDepend, UserUnchanged
<1>9. CASE Failure
    BY <1>9, FailureTasks
<1>10. CASE UNCHANGED vars
    BY <1>10, ScoopUnchanged DEF vars
<1> QED
    BY <1>1, <1>2, <1>3, <1>4, <1>5, <1>6, <1>7, <1>8, <1>9, <1>10 DEF Next

\* No completion is left in the queue without a task that will look at it, and
\* the flag is never up without a task, at any point between an offer, its
\* compare-and-set, the drain, the lowered flag and the second look, and after
\* a failed statement or a stopped Cuebot.
THEOREM TaskCorrect == Spec => []CompletionHasTask
<1>1. TaskInv => CompletionHasTask
    BY DEF TaskInv
<1> QED
    BY <1>1, InitTask, NextTask, PTL DEF Spec

=============================================================================
