------------------------------ MODULE FSMProofs ------------------------------
(***************************************************************************)
(* Safety of the engine for every definition that compiles, every history  *)
(* capacity, every set of goroutines and every number of transitions.      *)
(* The machine part and the lock part of the invariant are kept by lemmas  *)
(* of their own; Safety puts them together.                                *)
(***************************************************************************)
EXTENDS FSM, SequenceTheorems, TLAPS

(* The steps of the machine itself, whoever takes them. *)
MachineNext == (\E e \in Events : Begin(e)) \/ Step

(* The machine's part of the invariant. *)
MInv == MachineType /\ SendInv /\ HistoryInv

-----------------------------------------------------------------------------
(* The index: a lookup that succeeds returns a registered transition        *)
(* (FSM.go:656-661). *)
LEMMA LookupFound ==
    ASSUME NEW s \in States, NEW e \in Events, CanTransition(Transitions, s, e)
    PROVE  /\ Lookup(Transitions, s, e) \in Transitions
           /\ Lookup(Transitions, s, e)[1] = s
           /\ Lookup(Transitions, s, e)[2] = e
BY DEF CanTransition, Lookup

(* A transition joins declared states and never leaves a terminal one       *)
(* (Compile, FSM.go:391-426). *)
LEMMA TransitionShape ==
    ASSUME NEW t \in Transitions
    PROVE  /\ t = <<t[1], t[2], t[3]>>
           /\ t[1] \in States /\ t[2] \in Events /\ t[3] \in States
           /\ t[1] \notin Terminal
BY DefinitionAssumption DEF Compile, NonSinks

(* Appending to the bounded history (FSM.go:769-781): the new record comes  *)
(* last, the others keep their order, at most the oldest is gone, and the   *)
(* capacity is respected. *)
LEMMA AppendHistoryShape ==
    ASSUME NEW h \in Seq(Record), NEW r \in Record,
           HistoryCapacity # 0 => Len(h) <= HistoryCapacity
    PROVE  LET g == AppendHistory(h, r) IN
           /\ g \in Seq(Record)
           /\ Len(g) \in Nat \ {0}
           /\ g[Len(g)] = r
           /\ HistoryCapacity # 0 => Len(g) <= HistoryCapacity
           /\ \E k \in {0, 1} :
                /\ Len(g) = Len(h) + 1 - k
                /\ \A i \in 1..(Len(g) - 1) : i + k \in 1..Len(h) /\ g[i] = h[i + k]
<1>1. CASE HistoryCapacity # 0 /\ Len(h) >= HistoryCapacity
  <2>1. Len(h) \in Nat /\ Len(h) >= 1 /\ h # << >>
    BY <1>1, BoundsAssumption
  <2>2. /\ Tail(h) \in Seq(Record) /\ Len(Tail(h)) = Len(h) - 1
        /\ \A i \in 1..(Len(h) - 1) : Tail(h)[i] = h[i + 1]
    BY <2>1
  <2>3. AppendHistory(h, r) = Append(Tail(h), r)
    BY <1>1 DEF AppendHistory
  <2>4. /\ Append(Tail(h), r) \in Seq(Record)
        /\ Len(Append(Tail(h), r)) = Len(h)
        /\ Append(Tail(h), r)[Len(h)] = r
        /\ \A i \in 1..(Len(h) - 1) : Append(Tail(h), r)[i] = h[i + 1]
    BY <2>1, <2>2
  <2>. DEFINE g == AppendHistory(h, r)
  <2>5. g \in Seq(Record) /\ Len(g) = Len(h) /\ g[Len(g)] = r
    BY <2>3, <2>4
  <2>6. \A i \in 1..(Len(g) - 1) : i + 1 \in 1..Len(h) /\ g[i] = h[i + 1]
    BY <2>1, <2>3, <2>4, <2>5
  <2>7. HistoryCapacity # 0 => Len(g) <= HistoryCapacity
    BY <2>5
  <2>. HIDE DEF g
  <2>8. Len(g) \in Nat \ {0} /\ Len(g) = Len(h) + 1 - 1
    BY <2>1, <2>5
  <2>. QED  BY <2>5, <2>6, <2>7, <2>8 DEF g
<1>2. CASE ~(HistoryCapacity # 0 /\ Len(h) >= HistoryCapacity)
  <2>1. AppendHistory(h, r) = Append(h, r)
    BY <1>2 DEF AppendHistory
  <2>2. /\ Append(h, r) \in Seq(Record)
        /\ Len(Append(h, r)) = Len(h) + 1 /\ Len(h) \in Nat
        /\ Append(h, r)[Len(h) + 1] = r
        /\ \A i \in 1..Len(h) : Append(h, r)[i] = h[i]
    OBVIOUS
  <2>. QED  BY <1>2, <2>1, <2>2, BoundsAssumption
<1>. QED  BY <1>1, <1>2
-----------------------------------------------------------------------------
(* The machine part. *)

(* A call stack of at most one Send: pushing onto the empty one, replacing  *)
(* its only element and returning from it. *)
LEMMA StackOfOne ==
    ASSUME NEW s \in Seq(Frame), Len(s) <= 1
    PROVE  /\ s # << >> => Len(s) = 1 /\ s[1] \in Frame
           /\ s # << >> => SubSeq(s, 1, Len(s) - 1) = << >>
           /\ \A f \in Frame : s = << >> =>
                /\ Append(s, f) \in Seq(Frame)
                /\ Len(Append(s, f)) = 1 /\ Append(s, f)[1] = f
           /\ \A f \in Frame : s # << >> =>
                /\ [s EXCEPT ![Len(s)] = f] \in Seq(Frame)
                /\ Len([s EXCEPT ![Len(s)] = f]) = 1
                /\ [s EXCEPT ![Len(s)] = f][1] = f
<1>1. s # << >> => Len(s) = 1 /\ s[1] \in Frame
  <2>1. s # << >> => Len(s) = 1
    BY EmptySeq, SMTT(30)
  <2>. QED  BY <2>1, ElementOfSeq
<1>2. s # << >> => SubSeq(s, 1, Len(s) - 1) = << >>
  BY <1>1
<1>3. ASSUME NEW f \in Frame, s = << >>
      PROVE  /\ Append(s, f) \in Seq(Frame)
             /\ Len(Append(s, f)) = 1 /\ Append(s, f)[1] = f
  BY <1>3
<1>4. ASSUME NEW f \in Frame, s # << >>
      PROVE  /\ [s EXCEPT ![Len(s)] = f] \in Seq(Frame)
             /\ Len([s EXCEPT ![Len(s)] = f]) = 1
             /\ [s EXCEPT ![Len(s)] = f][1] = f
  BY <1>1, <1>4
<1>. QED  BY <1>1, <1>2, <1>3, <1>4

(* Writing the fields of a frame. *)
LEMMA FrameFields ==
    ASSUME NEW f \in Frame, NEW p, NEW r
    PROVE  /\ [f EXCEPT !.phase = p] = [phase |-> p, t |-> f.t, rec |-> f.rec]
           /\ [f EXCEPT !.phase = p, !.rec = r] = [phase |-> p, t |-> f.t, rec |-> r]
<1>1. f = [phase |-> f.phase, t |-> f.t, rec |-> f.rec]
  BY DEF Frame
<1>2. [f EXCEPT !.phase = p] = [phase |-> p, t |-> f.t, rec |-> f.rec]
  BY <1>1
<1>3. [f EXCEPT !.phase = p, !.rec = r] = [[f EXCEPT !.phase = p] EXCEPT !.rec = r]
  OBVIOUS
<1>4. [[phase |-> p, t |-> f.t, rec |-> f.rec] EXCEPT !.rec = r] = [phase |-> p, t |-> f.t, rec |-> r]
  OBVIOUS
<1>. QED  BY <1>2, <1>3, <1>4

(* New starts a machine with an empty history. *)
LEMMA MachineInit == ASSUME New PROVE MInv
<1>1. MachineType
  BY DefinitionAssumption, EmptySeq DEF New, MachineType
<1>2. SendInv
  BY DEF New, SendInv, Running
<1>3. HistoryInv
  BY BoundsAssumption DEF New, HistoryInv, HistoryFaithful, Running
<1>. QED  BY <1>1, <1>2, <1>3 DEF MInv

(* The only frame of a machine in the middle of a Send. *)
LEMMA OneFrame ==
    ASSUME MachineType, SendInv
    PROVE  /\ stack = << >> <=> Len(stack) = 0
           /\ stack # << >> => Len(stack) = 1 /\ stack[1] \in Frame /\ Top = stack[1]
BY StackOfOne DEF MachineType, SendInv, Top

(* Every step of the machine keeps its part of the invariant. *)
LEMMA MachineStep == ASSUME MInv, MachineNext PROVE MInv'
<1>. USE DEF MInv, MachineType, SendInv, Running, Top
<1>0. stack # << >> => Len(stack) = 1 /\ stack[1] \in Frame /\ Top = stack[1]
  BY OneFrame DEF Top
<1>1. ASSUME NEW e \in Events, Begin(e) PROVE MInv'
  <2>. DEFINE f == [phase |-> "guard", t |-> Lookup(Transitions, current, e), rec |-> NoRecord]
  <2>1. f \in Frame
    BY <1>1, LookupFound, DefinitionAssumption DEF Begin, Frame, Phases, NoRecord, Record
  <2>2. stack = << >> /\ stack' \in Seq(Frame) /\ Len(stack') = 1 /\ stack'[1] = f
    BY <1>1, <2>1, StackOfOne DEF Begin
  <2>3. f.t[1] = current /\ f.phase = "guard"
    BY <1>1, LookupFound DEF Begin
  <2>. HIDE DEF f
  <2>4. MachineType' /\ SendInv'
    BY <1>1, <2>1, <2>2, <2>3 DEF Begin
  <2>5. HistoryInv'
    BY <1>1, <2>2, <2>3 DEF Begin, HistoryInv, HistoryFaithful
  <2>. QED  BY <2>4, <2>5
<1>2. CASE GuardsPass
  <2>. DEFINE f == [Top EXCEPT !.phase = "before",
                               !.rec = [num |-> seq + 1, from |-> current,
                                        event |-> Top.t[2], to |-> Top.t[3]]]
  <2>1. stack # << >> /\ Top \in Frame /\ Top.t \in Transitions
    BY <1>0, <1>2 DEF GuardsPass, Frame
  <2>2. f = [phase |-> "before", t |-> Top.t,
             rec |-> [num |-> seq + 1, from |-> current,
                      event |-> Top.t[2], to |-> Top.t[3]]]
    BY <2>1, FrameFields
  <2>3. f \in Frame
    BY <2>1, <2>2, TransitionShape DEF Frame, Phases, Record
  <2>4. stack' \in Seq(Frame) /\ Len(stack') = 1 /\ stack'[1] = f
    BY <1>2, <2>1, <2>3, StackOfOne DEF GuardsPass, SetTop
  <2>5. Top.t[1] = current
    BY <1>2 DEF GuardsPass
  <2>6. /\ f.phase = "before" /\ f.t[1] = current
        /\ f.rec = [num |-> seq + 1, from |-> current, event |-> f.t[2], to |-> f.t[3]]
    BY <2>2, <2>5
  <2>. HIDE DEF f
  <2>7. MachineType' /\ SendInv'
    BY <1>2, <2>1, <2>4, <2>6 DEF GuardsPass
  <2>8. HistoryInv'
    BY <1>2, <2>4, <2>6 DEF GuardsPass, HistoryInv, HistoryFaithful
  <2>. QED  BY <2>7, <2>8
<1>3. CASE HooksPass
  <2>. DEFINE f == [Top EXCEPT !.phase = "effect"]
  <2>1. stack # << >> /\ Top \in Frame
    BY <1>0, <1>3 DEF HooksPass
  <2>2. f = [phase |-> "effect", t |-> Top.t, rec |-> Top.rec]
    BY <2>1 DEF Frame
  <2>3. f \in Frame
    BY <2>1, <2>2 DEF Frame, Phases
  <2>4. stack' \in Seq(Frame) /\ Len(stack') = 1 /\ stack'[1] = f
    BY <1>3, <2>1, <2>3, StackOfOne DEF HooksPass, SetTop
  <2>5. /\ f.phase = "effect" /\ f.t[1] = current
        /\ f.rec = [num |-> seq + 1, from |-> current, event |-> f.t[2], to |-> f.t[3]]
    BY <1>3, <2>2 DEF HooksPass
  <2>. HIDE DEF f
  <2>6. MachineType' /\ SendInv'
    BY <1>3, <2>1, <2>4, <2>5 DEF HooksPass
  <2>7. HistoryInv'
    BY <1>3, <2>4, <2>5 DEF HooksPass, HistoryInv, HistoryFaithful
  <2>. QED  BY <2>6, <2>7
<1>4. CASE Abort \/ Finish
  <2>1. stack' = << >> /\ UNCHANGED <<current, history, seq, lost>> /\ inFlight' = FALSE
    BY <1>0, <1>4, StackOfOne DEF Abort, Finish, Return
  <2>2. MachineType' /\ SendInv'
    <3>1. << >> \in Seq(Frame) /\ Len(<< >>) = 0
      BY EmptySeq
    <3>2. MachineType'
      BY <2>1, <3>1
    <3>3. ~Running({"guard", "before", "effect"})' /\ ~Running({"before", "effect"})'
          /\ ~Running({"post"})'
      BY <2>1
    <3>4. SendInv'
      BY <2>1, <3>1, <3>3
    <3>. QED  BY <3>2, <3>4
  <2>3. HistoryFaithful'
    BY <2>1 DEF HistoryInv, HistoryFaithful
  <2>. QED  BY <2>1, <2>2, <2>3 DEF HistoryInv
<1>5. CASE Commit
  <2>. DEFINE f == [Top EXCEPT !.phase = "post"]
  <2>1. stack # << >> /\ Top \in Frame /\ Top.t \in Transitions /\ Top.phase = "effect"
    BY <1>0, <1>5 DEF Commit, Frame
  <2>2. f = [phase |-> "post", t |-> Top.t, rec |-> Top.rec]
    BY <2>1 DEF Frame
  <2>3. f \in Frame
    BY <2>1, <2>2 DEF Frame, Phases
  <2>4. stack' \in Seq(Frame) /\ Len(stack') = 1 /\ stack'[1] = f
    BY <1>5, <2>1, <2>3, StackOfOne DEF Commit, SetTop
  <2>5. /\ f.phase = "post" /\ f.rec.num = seq + 1 /\ seq + 1 > 0 /\ f.rec.from = current
        /\ f.rec.to = Top.t[3] /\ <<f.rec.from, f.rec.event, f.rec.to>> \in Transitions
    BY <2>1, <2>2, TransitionShape, SMTT(30)
  <2>6. current' = Top.t[3] /\ current' \in States /\ seq' = seq + 1 /\ history' = history
    BY <1>5, <2>1, TransitionShape DEF Commit
  <2>. HIDE DEF f
  <2>7. MachineType' /\ SendInv'
    BY <1>5, <2>1, <2>4, <2>5, <2>6 DEF Commit
  <2>8. HistoryFaithful'
    BY <2>6 DEF HistoryInv, HistoryFaithful
  <2>9. history # << >> => history[Len(history)].num \in 1..seq
    <3>1. history # << >> => Len(history) \in 1..Len(history)
      BY EmptySeq
    <3>. QED  BY <3>1 DEF HistoryInv, HistoryFaithful
  <2>10. HistoryInv'
    BY <2>4, <2>5, <2>6, <2>8, <2>9 DEF HistoryInv
  <2>. QED  BY <2>7, <2>10
<1>6. CASE StoreRecord
  <2>. DEFINE f == [Top EXCEPT !.phase = "observe"]
              r == Top.rec
              g == AppendHistory(history, r)
  <2>1. stack # << >> /\ Top \in Frame /\ Top.phase = "post" /\ r \in Record
    BY <1>0, <1>6 DEF StoreRecord, Frame
  <2>2. f = [phase |-> "observe", t |-> Top.t, rec |-> Top.rec] /\ f \in Frame
    BY <2>1, FrameFields DEF Frame, Phases
  <2>3. stack' \in Seq(Frame) /\ Len(stack') = 1 /\ stack'[1] = f
    BY <1>6, <2>1, <2>2, StackOfOne DEF StoreRecord, SetTop
  <2>4. f.phase = "observe"
    BY <2>2
  <2>5. r.num = seq /\ seq > 0 /\ r.to = current /\ <<r.from, r.event, r.to>> \in Transitions
    BY <2>1
  <2>6. UNCHANGED <<current, seq, inFlight, lost>> /\ history' = g
    BY <1>6 DEF StoreRecord
  <2>7. HistoryCapacity # 0 => Len(history) <= HistoryCapacity
    BY DEF HistoryInv, HistoryFaithful
  <2>8. /\ g \in Seq(Record) /\ Len(g) \in Nat \ {0} /\ g[Len(g)] = r
        /\ HistoryCapacity # 0 => Len(g) <= HistoryCapacity
    BY <2>1, <2>7, AppendHistoryShape
  <2>9. PICK k \in {0, 1} :
          /\ Len(g) = Len(history) + 1 - k
          /\ \A i \in 1..(Len(g) - 1) : i + k \in 1..Len(history) /\ g[i] = history[i + k]
    BY <2>1, <2>7, AppendHistoryShape
  <2>10. history # << >> =>
           /\ Len(history) \in 1..Len(history)
           /\ history[Len(history)].num < seq
           /\ history[Len(history)].num = seq - 1 => history[Len(history)].to = r.from
    BY <2>1, EmptySeq DEF HistoryInv
  <2>. HIDE DEF f, g, r
  <2>11. MachineType' /\ SendInv'
    BY <2>1, <2>3, <2>4, <2>6, <2>8
  <2>12. \A i \in 1..Len(g) :
           /\ <<g[i].from, g[i].event, g[i].to>> \in Transitions
           /\ g[i].num \in 1..seq
    <3>1. SUFFICES ASSUME NEW i \in 1..Len(g)
                   PROVE  /\ <<g[i].from, g[i].event, g[i].to>> \in Transitions
                          /\ g[i].num \in 1..seq
      OBVIOUS
    <3>2. CASE i # Len(g)
      <4>1. Len(g) \in Nat \ {0}
        BY <2>8
      <4>2. i \in 1..(Len(g) - 1)
        BY <3>2, <4>1
      <4>3. i + k \in 1..Len(history) /\ g[i] = history[i + k]
        BY <2>9, <4>2
      <4>. QED  BY <4>3 DEF HistoryInv, HistoryFaithful
    <3>3. CASE i = Len(g)
      <4>1. seq \in 1..seq
        BY <2>1
      <4>2. g[i] = r
        BY <2>8, <3>3
      <4>. QED  BY <2>5, <4>1, <4>2
    <3>. QED  BY <3>2, <3>3
  <2>13. \A i \in 1..(Len(g) - 1) :
           /\ g[i].num < g[i+1].num
           /\ g[i+1].num = g[i].num + 1 => g[i].to = g[i+1].from
    <3>1. TAKE i \in 1..(Len(g) - 1)
    <3>2. CASE i < Len(g) - 1
      <4>1. /\ i \in Int /\ k \in Int /\ Len(g) \in Int /\ Len(history) \in Int
            /\ 1 <= i /\ i < Len(g) - 1
        BY <2>8, <2>9, <3>2
      <4>2. i + 1 \in 1..(Len(g) - 1) /\ i + 1 + k = i + k + 1
        BY <4>1
      <4>3. /\ i + k \in 1..Len(history) /\ g[i] = history[i + k]
        BY <2>9
      <4>4. i + k + 1 \in 1..Len(history) /\ g[i + 1] = history[i + k + 1]
        BY <2>9, <4>2
      <4>5. i + k \in 1..(Len(history) - 1)
        BY <4>1, <4>3, <4>4, SMTT(30)
      <4>. QED  BY <4>3, <4>4, <4>5, SMTT(30) DEF HistoryInv, HistoryFaithful
    <3>3. CASE i = Len(g) - 1
      <4>1. Len(g) \in Nat /\ Len(history) \in Nat /\ i \in Nat /\ k \in Nat
        BY <2>8, <2>9
      <4>2. i + k = Len(history) /\ i + 1 = Len(g)
        BY <2>9, <3>3, <4>1
      <4>3. i + k \in 1..Len(history) /\ g[i] = history[i + k]
        BY <2>9
      <4>4. i + k = Len(history) /\ g[i] = history[Len(history)] /\ g[i+1] = r
            /\ history # << >>
        BY <2>8, <4>2, <4>3, EmptySeq, SMTT(30)
      <4>5. history[Len(history)] \in Record
        BY <2>10, <4>4
      <4>. QED  BY <2>5, <2>10, <4>4, <4>5, SMTT(30) DEF Record
    <3>4. Len(g) \in Nat \ {0}
      BY <2>8
    <3>5. i < Len(g) - 1 \/ i = Len(g) - 1
      BY <3>4
    <3>. QED  BY <3>2, <3>3, <3>5
  <2>14. HistoryFaithful'
    BY <2>6, <2>8, <2>12, <2>13 DEF HistoryFaithful
  <2>15. HistoryInv'
    BY <2>3, <2>4, <2>5, <2>6, <2>8, <2>14 DEF HistoryInv
  <2>. QED  BY <2>11, <2>15
<1>7. CASE Panic
  <2>1. stack' = << >> /\ UNCHANGED <<current, history, seq>> /\ inFlight' = FALSE
        /\ lost' \in BOOLEAN
    BY <1>7 DEF Panic
  <2>2. MachineType' /\ SendInv'
    <3>1. << >> \in Seq(Frame) /\ Len(<< >>) = 0
      BY EmptySeq
    <3>2. MachineType'
      BY <2>1, <3>1
    <3>3. ~Running({"guard", "before", "effect"})' /\ ~Running({"before", "effect"})'
          /\ ~Running({"post"})'
      BY <2>1
    <3>4. SendInv'
      BY <2>1, <3>1, <3>3
    <3>. QED  BY <3>2, <3>4
  <2>3. HistoryFaithful'
    BY <2>1 DEF HistoryInv, HistoryFaithful
  <2>. QED  BY <2>1, <2>2, <2>3 DEF HistoryInv
<1>. QED  BY <1>1, <1>2, <1>3, <1>4, <1>5, <1>6, <1>7 DEF MachineNext, Step
(* How many records have reached the history changes only when one is       *)
(* stored, unless a panic loses one (FSM.go:740-759). *)
LEMMA StoredStep ==
    ASSUME MInv, MachineNext
    PROVE  \/ StoreRecord /\ Stored' = Stored + 1 /\ Stored = seq - 1 /\ lost' = lost
           \/ history' = history /\ Stored' = Stored /\ lost' = lost
           \/ history' = history /\ lost'
<1>. USE DEF MInv, MachineType, Stored
<1>0. stack # << >> => Len(stack) = 1 /\ stack[1] \in Frame /\ Top = stack[1]
  BY OneFrame
<1>1. ASSUME NEW f \in Frame, NEW ph, f.phase = ph, stack # << >>, SetTop(f)
      PROVE  stack' # << >> /\ Top' = f
  <2>1. Len(stack') = 1 /\ stack'[1] = f /\ stack' \in Seq(Frame)
    BY <1>1, StackOfOne DEF SetTop, SendInv
  <2>. QED  BY <2>1 DEF Top
<1>2. CASE \E e \in Events : Begin(e)
  <2>1. PICK e \in Events : Begin(e)
    BY <1>2
  <2>. DEFINE f == [phase |-> "guard", t |-> Lookup(Transitions, current, e), rec |-> NoRecord]
  <2>2. f \in Frame /\ f.phase = "guard"
    BY <2>1, LookupFound, DefinitionAssumption DEF Begin, Frame, Phases, NoRecord, Record
  <2>3. stack = << >> /\ Len(stack') = 1 /\ stack'[1] = f
    BY <2>1, <2>2, StackOfOne DEF Begin, SendInv
  <2>4. Top'.phase = "guard" /\ Stored = seq
    BY <2>2, <2>3 DEF Top
  <2>5. Stored' = seq'
    BY <2>4
  <2>. QED  BY <2>1, <2>4, <2>5 DEF Begin
<1>3. CASE GuardsPass
  <2>. DEFINE r == [num |-> seq + 1, from |-> current, event |-> Top.t[2], to |-> Top.t[3]]
              f == [Top EXCEPT !.phase = "before", !.rec = r]
  <2>1. f = [phase |-> "before", t |-> Top.t, rec |-> r] /\ Top \in Frame
    BY <1>0, <1>3, FrameFields DEF GuardsPass
  <2>2. r \in Record /\ f \in Frame /\ f.phase = "before"
    BY <2>1, TransitionShape DEF Frame, Record, Phases
  <2>3. Top' = f
    BY <1>1, <1>3, <2>2 DEF GuardsPass
  <2>. QED  BY <1>3, <2>2, <2>3 DEF GuardsPass
<1>4. CASE HooksPass
  <2>1. [Top EXCEPT !.phase = "effect"] \in Frame /\ [Top EXCEPT !.phase = "effect"].phase = "effect"
    BY <1>0, <1>4, FrameFields DEF HooksPass, Frame, Phases
  <2>2. Top'.phase = "effect"
    BY <1>1, <1>4, <2>1 DEF HooksPass
  <2>. QED  BY <1>4, <2>2 DEF HooksPass
<1>5. CASE Abort \/ Finish
  <2>1. stack' = << >>
    BY <1>0, <1>5, StackOfOne DEF Abort, Finish, Return, SendInv
  <2>. QED  BY <1>5, <2>1 DEF Abort, Finish
<1>6. CASE Commit
  <2>1. [Top EXCEPT !.phase = "post"] \in Frame /\ [Top EXCEPT !.phase = "post"].phase = "post"
    BY <1>0, <1>6, FrameFields DEF Commit, Frame, Phases
  <2>2. stack' # << >> /\ Top'.phase = "post"
    BY <1>1, <1>6, <2>1 DEF Commit
  <2>3. Stored = seq /\ Stored' = seq' - 1 /\ seq' = seq + 1
    BY <1>6, <2>2 DEF Commit
  <2>. QED  BY <1>6, <2>3 DEF Commit
<1>7. CASE StoreRecord
  <2>1. /\ [Top EXCEPT !.phase = "observe"] \in Frame
        /\ [Top EXCEPT !.phase = "observe"].phase = "observe"
    BY <1>0, <1>7, FrameFields DEF StoreRecord, Frame, Phases
  <2>2. Top'.phase = "observe"
    BY <1>1, <1>7, <2>1 DEF StoreRecord
  <2>3. Stored = seq - 1 /\ Stored' = seq' /\ seq' = seq
    BY <1>7, <2>2 DEF StoreRecord
  <2>. QED  BY <1>7, <2>3 DEF StoreRecord
<1>8. CASE Panic
  <2>1. CASE Top.phase = "post"
    <3>1. 1 \in 1..Len(stack) /\ stack[1].phase = "post"
      BY <1>0, <1>8, <2>1 DEF Panic
    <3>. QED  BY <1>8, <3>1 DEF Panic
  <2>2. CASE Top.phase # "post"
    <3>1. Stored' = Stored /\ history' = history
      BY <1>8, <2>2 DEF Panic
    <3>2. CASE lost'
      BY <3>1, <3>2
    <3>3. CASE ~lost'
      BY <1>8, <3>1, <3>3 DEF Panic
    <3>. QED  BY <3>2, <3>3
  <2>. QED  BY <2>1, <2>2
<1>. QED  BY <1>2, <1>3, <1>4, <1>5, <1>6, <1>7, <1>8 DEF MachineNext, Step

(* Storing a record keeps exactly the last min(stored, capacity) of them:   *)
(* eviction takes the oldest and only the oldest (FSM.go:769-781). *)
LEMMA CompleteStep ==
    ASSUME MInv, MInv', HistoryComplete, MachineNext
    PROVE  HistoryComplete'
<1>1. (history # << >> /\ history[Len(history)].num = seq
         => history[Len(history)].to = current)'
  BY DEF MInv, HistoryInv
<1>2. ASSUME lost' = FALSE
      PROVE  /\ Len(history') = IF HistoryCapacity # 0 /\ Stored' > HistoryCapacity
                                THEN HistoryCapacity ELSE Stored'
             /\ \A i \in 1..Len(history') : history'[i].num = Stored' - Len(history') + i
  <2>1. CASE history' = history /\ Stored' = Stored /\ lost' = lost
    BY <1>2, <2>1 DEF HistoryComplete
  <2>2. CASE StoreRecord /\ Stored' = Stored + 1 /\ Stored = seq - 1 /\ lost' = lost
    <3>. DEFINE g == AppendHistory(history, Top.rec)
                n == Stored
                c == HistoryCapacity
    <3>1. /\ history \in Seq(Record) /\ Len(history) \in Nat
          /\ c # 0 => Len(history) <= c
      BY DEF MInv, MachineType, HistoryInv, HistoryFaithful
    <3>2. /\ Top.rec \in Record /\ Top.rec.num = seq /\ seq \in Nat /\ seq > 0
          /\ history' = g
      BY <2>2, OneFrame DEF StoreRecord, MInv, MachineType, SendInv, Running, Frame
    <3>3. /\ Len(history) = IF c # 0 /\ n > c THEN c ELSE n
          /\ \A i \in 1..Len(history) : history[i].num = n - Len(history) + i
      BY <1>2, <2>2 DEF HistoryComplete
    <3>4. /\ Len(g) \in Nat \ {0} /\ g[Len(g)] = Top.rec
      BY <3>1, <3>2, AppendHistoryShape
    <3>5. PICK k \in {0, 1} :
            /\ Len(g) = Len(history) + 1 - k
            /\ \A i \in 1..(Len(g) - 1) : i + k \in 1..Len(history) /\ g[i] = history[i + k]
      BY <3>1, <3>2, AppendHistoryShape
    <3>6. Len(g) = IF c # 0 /\ Len(history) >= c THEN Len(history) ELSE Len(history) + 1
      <4>1. CASE c # 0 /\ Len(history) >= c
        <5>1. Len(history) >= 1 /\ history # << >>
          BY <3>1, <4>1, BoundsAssumption
        <5>2. Tail(history) \in Seq(Record) /\ Len(Tail(history)) = Len(history) - 1
          BY <3>1, <5>1
        <5>. QED  BY <3>1, <3>2, <4>1, <5>2 DEF AppendHistory
      <4>2. CASE ~(c # 0 /\ Len(history) >= c)
        BY <3>1, <3>2, <4>2 DEF AppendHistory
      <4>. QED  BY <4>1, <4>2
    <3>7. n \in Nat /\ c \in Nat /\ n + 1 = seq /\ Stored' = n + 1
      BY <2>2, <3>2, BoundsAssumption
    <3>. HIDE DEF g, n, c
    <3>8. Len(g) = IF c # 0 /\ n + 1 > c THEN c ELSE n + 1
      BY <3>1, <3>3, <3>6, <3>7
    <3>9. ASSUME NEW i \in 1..Len(g) PROVE g[i].num = n + 1 - Len(g) + i
      <4>1. CASE i = Len(g)
        BY <3>2, <3>4, <3>7, <4>1
      <4>2. CASE i # Len(g)
        <5>1. i \in 1..(Len(g) - 1) /\ i \in Int
          BY <3>4, <4>2
        <5>2. i + k \in 1..Len(history) /\ g[i] = history[i + k]
          BY <3>5, <5>1
        <5>3. g[i].num = n - Len(history) + (i + k)
          BY <3>3, <5>2
        <5>. QED  BY <3>1, <3>4, <3>5, <3>7, <5>1, <5>3
      <4>. QED  BY <4>1, <4>2
    <3>. QED  BY <3>2, <3>7, <3>8, <3>9 DEF c
  <2>. QED  BY <1>2, <2>1, <2>2, StoredStep
<1>. QED  BY <1>1, <1>2 DEF HistoryComplete, MInv, MachineType
-----------------------------------------------------------------------------
(* The lock part. *)

(* Whatever a goroutine does, the machine takes a step of its own or none. *)
LEMMA NextMachine == ASSUME Next PROVE MachineNext \/ UNCHANGED machine
BY DEF Next, MachineNext, CallSend, Lock, SendRejected, SendBegin, SendBounded,
       Reenter, SendStep, RLock, RUnlock, Rejected

(* A step of the machine starts or ends a Send only where SendBegin and     *)
(* SendStep say so: a nested call finds inFlight set. *)
LEMMA NestedRejected ==
    ASSUME MachineType, SendInv, stack # << >>, NEW e \in Events
    PROVE  ~Begin(e)
BY DEF SendInv, Begin

(* Every step of a goroutine keeps the lock part of the invariant. *)
LEMMA LockStep == ASSUME IInv, Next PROVE LockType' /\ LockInv'
<1>. USE DEF IInv, LockType, LockInv
<1>0. PICK t \in Threads :
        \/ CallSend(t) \/ Lock(t) \/ SendRejected(t) \/ SendBegin(t)
        \/ SendBounded(t) \/ Reenter(t) \/ SendStep(t)
        \/ RLock(t) \/ RUnlock(t)
  BY DEF Next
<1>a. NoThread \notin Threads
  BY BoundsAssumption
<1>b. stack # << >> => Len(stack) = 1 /\ stack[1] \in Frame
  BY OneFrame
<1>1. CASE CallSend(t)
  BY <1>1 DEF CallSend, machine
<1>2. CASE Lock(t)
  BY <1>2, <1>a DEF Lock, machine
<1>3. CASE SendRejected(t) \/ SendBounded(t)
  BY <1>3, <1>a DEF SendRejected, SendBounded, Unlock, Blocked, machine
<1>4. CASE SendBegin(t)
  <2>1. stack' # << >>
    <3>1. PICK e \in Events : Begin(e)
      BY <1>4 DEF SendBegin
    <3>. QED  BY <3>1, <1>4, StackOfOne DEF SendBegin, Begin, MachineType
  <2>. QED  BY <1>4, <1>a, <2>1 DEF SendBegin
<1>5. CASE Reenter(t)
  <2>1. UNCHANGED <<machine, holder, readers, pc>>
    BY <1>5, NestedRejected DEF Reenter
  <2>. QED  BY <2>1 DEF machine
<1>6. CASE SendStep(t)
  <2>1. CASE stack' = << >>
    BY <1>6, <1>a, <2>1 DEF SendStep, Unlock, Blocked
  <2>2. CASE stack' # << >>
    BY <1>6, <1>a, <2>2 DEF SendStep
  <2>. QED  BY <2>1, <2>2
<1>7. CASE RLock(t)
  BY <1>7, <1>a DEF RLock, machine
<1>8. CASE RUnlock(t)
  BY <1>8 DEF RUnlock, machine
<1>. QED  BY <1>0, <1>1, <1>2, <1>3, <1>4, <1>5, <1>6, <1>7, <1>8

-----------------------------------------------------------------------------
(* The theorems. *)

(* Stuttering keeps every state predicate. *)
LEMMA Stutter == ASSUME IInv, UNCHANGED vars PROVE IInv'
BY DEF IInv, MachineType, LockType, SendInv, HistoryInv, HistoryFaithful, LockInv,
       Running, Top, vars, machine

(* The invariant is inductive. *)
THEOREM Invariance == Spec => []IInv
<1>1. Init => IInv
  <2>. SUFFICES ASSUME Init PROVE IInv
    OBVIOUS
  <2>1. MInv
    BY MachineInit DEF Init
  <2>2. LockType /\ LockInv
    BY BoundsAssumption DEF Init, New, LockType, LockInv
  <2>. QED  BY <2>1, <2>2 DEF MInv, IInv
<1>2. IInv /\ [Next]_vars => IInv'
  <2>. SUFFICES ASSUME IInv, [Next]_vars PROVE IInv'
    OBVIOUS
  <2>1. CASE Next
    <3>1. MInv'
      <4>1. CASE MachineNext
        BY <4>1, MachineStep DEF IInv, MInv
      <4>2. CASE UNCHANGED machine
        BY <4>2 DEF IInv, MInv, MachineType, SendInv, HistoryInv, HistoryFaithful,
                    Running, Top, machine
      <4>. QED  BY <2>1, <4>1, <4>2, NextMachine
    <3>2. LockType' /\ LockInv'
      BY <2>1, LockStep
    <3>. QED  BY <3>1, <3>2 DEF MInv, IInv
  <2>2. CASE UNCHANGED vars
    BY <2>2, Stutter
  <2>. QED  BY <2>1, <2>2
<1>. QED  BY <1>1, <1>2, PTL DEF Spec

(* Type correctness of the machine, its lock and its goroutines. *)
THEOREM TypeCorrect == Spec => []TypeOK
<1>1. IInv => TypeOK
  BY DEF IInv, TypeOK
<1>. QED  BY <1>1, Invariance, PTL

(* Send is never active twice on one machine, however its callbacks call    *)
(* back into it, and inFlight says whether it is (FSM.go:644-648). *)
THEOREM SendIsExclusive == Spec => []OneSendAtATime
<1>1. IInv => OneSendAtATime
  BY DEF IInv, SendInv, LockInv, OneSendAtATime
<1>. QED  BY <1>1, Invariance, PTL

(* State, IsTerminal, Can and History never overlap a Send                  *)
(* (FSM.go:800-828). *)
THEOREM ReadersSeeNoSend == Spec => []ReadersExcludeSend
<1>1. IInv => ReadersExcludeSend
  BY DEF IInv, LockInv, ReadersExcludeSend
<1>. QED  BY <1>1, Invariance, PTL

(* The history that History() returns is bounded, ordered, made of          *)
(* registered transitions, and consecutive records chain                    *)
(* (FSM.go:582-586, 769-781). *)
THEOREM HistoryIsFaithful == Spec => []HistoryFaithful
<1>1. IInv => HistoryFaithful
  BY DEF IInv, HistoryInv
<1>. QED  BY <1>1, Invariance, PTL

(* Unless a callback panicked after a commit, History() is exactly the last *)
(* min(transitions, capacity) records, numbered without a gap, and the      *)
(* newest one leads to the current state (FSM.go:740-781). *)
THEOREM HistoryIsComplete == Spec => []HistoryComplete
<1>1. Init => HistoryComplete
  BY BoundsAssumption DEF Init, New, HistoryComplete, Stored
<1>2. IInv /\ IInv' /\ HistoryComplete /\ [Next]_vars => HistoryComplete'
  <2>. SUFFICES ASSUME IInv, IInv', HistoryComplete, [Next]_vars PROVE HistoryComplete'
    OBVIOUS
  <2>1. CASE UNCHANGED machine
    BY <2>1 DEF HistoryComplete, Stored, Top, machine
  <2>2. CASE MachineNext
    BY <2>2, CompleteStep DEF IInv, MInv
  <2>3. MachineNext \/ UNCHANGED machine
    BY NextMachine DEF vars
  <2>. QED  BY <2>1, <2>2, <2>3
<1>. QED  BY <1>1, <1>2, Invariance, PTL DEF Spec

(* The state moves only along registered transitions, one sequence number   *)
(* at a time, and a terminal state is never left (FSM.go:279-280, 734-737). *)
THEOREM StateMovesAlongTransitions == Spec => MovesAlongTransitions
<1>. DEFINE Moves ==
       /\ current' # current => \E e \in Events : <<current, e, current'>> \in Transitions
       /\ seq' # seq => seq' = seq + 1
       /\ IsTerminal(current) => current' = current /\ seq' = seq
<1>1. ASSUME IInv, Next PROVE Moves
  <2>1. CASE Commit
    <3>1. stack # << >> /\ Top \in Frame /\ Top.t \in Transitions /\ Top.t[1] = current
      BY <1>1, <2>1, OneFrame DEF IInv, Commit, SendInv, Running, Frame
    <3>2. Top.t = <<current, Top.t[2], Top.t[3]>> /\ Top.t[2] \in Events
          /\ current \notin Terminal
      BY <3>1, TransitionShape
    <3>. QED  BY <2>1, <3>1, <3>2 DEF Commit, IsTerminal
  <2>2. CASE ~Commit
    <3>1. UNCHANGED <<current, seq>>
      BY <1>1, <2>2, NextMachine
         DEF MachineNext, Step, Begin, GuardsPass, HooksPass, Abort, StoreRecord,
             Finish, Panic, machine
    <3>. QED  BY <3>1
  <2>. QED  BY <2>1, <2>2
<1>2. ASSUME UNCHANGED vars PROVE Moves
  BY <1>2 DEF vars, machine
<1>3. IInv /\ [Next]_vars => [Moves]_vars
  BY <1>1, <1>2
<1>. QED  BY <1>3, Invariance, PTL DEF Spec, MovesAlongTransitions
=============================================================================
