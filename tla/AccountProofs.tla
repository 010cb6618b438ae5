---------------------------- MODULE AccountProofs ---------------------------
(***************************************************************************)
(* What one bar does to the venue's account, for every configuration: its  *)
(* fills share the bar's volume, a reduce-only fill takes the position     *)
(* toward flat, a fill's price honours the kind of its order, a position   *)
(* beyond the threshold is liquidated with the orders that could reopen    *)
(* it, the legs of an OCO group share the budget of its largest leg, and   *)
(* the cash guard covers what the resting buys may cost.                   *)
(*                                                                         *)
(* Each is about fills decided on the walk and applied after it, one by    *)
(* one.  The invariants therefore follow the walk's running totals, the    *)
(* cap, the net position and the claims, from what has been applied to     *)
(* what has been decided.                                                  *)
(***************************************************************************)
EXTENDS SimulatedExchangeProofs

-----------------------------------------------------------------------------
(* The steps that matter to the fills of a bar *)

\* A step that neither observes, nor stages, nor emits.
Quiet ==
  /\ UNCHANGED <<bar, cap, netAfter, toFill, shadow>>
  /\ \A n \in DOMAIN toFill : orders'[toFill[n].id].order = orders[toFill[n].id].order

\* All but four kinds of step are quiet.
LEMMA StepKinds ==
  ASSUME TypeOK, BookInv, OrderInv, [Next]_vars
  PROVE  \/ Quiet
         \/ \E b \in Bars : BeginObserve(b)
         \/ \E id \in Ids : StageFill(id)
         \/ EmitFill \/ FinishObserve
<1>1. ASSUME NEW id \in Ids, NEW o \in Requests, Submit(id, o) PROVE Quiet
  <2>1. UNCHANGED <<bar, cap, netAfter, toFill, shadow>> /\ Idle
    BY <1>1 DEF Submit, observing
  <2> QED
    BY <2>1 DEF Quiet, BookInv
<1>2. ASSUME NEW id \in Ids, Cancel(id) PROVE Quiet
  BY <1>2 DEF Cancel, observing, Quiet
<1>3. ASSUME NEW id \in Ids, SkipOtherInstrument(id) PROVE Quiet
  BY <1>3 DEF SkipOtherInstrument, Leave, NothingStaged, Quiet
<1>4. ASSUME NEW id \in Ids, AwaitLatency(id) PROVE Quiet
  <2>1. /\ UNCHANGED <<bar, cap, netAfter, toFill, shadow>>
        /\ orders' = [orders EXCEPT ![id].activateIn = @ - 1]
    BY <1>4 DEF AwaitLatency, Leave, NothingStaged
  <2>2. \A other \in Ids : orders'[other].order = orders[other].order
    BY <2>1 DEF TypeOK, OrderState
  <2> QED
    BY <2>1, <2>2, StagedTypes DEF Quiet
<1>5. ASSUME NEW id \in Ids, LeavesUnfilled(id) PROVE Quiet
  <2>1. PICK r, stage, rests : Turn(id, r, stage, rests)
    BY <1>5, UnfilledTurn
  <2>2. UNCHANGED <<cap, netAfter, toFill>>
    BY <1>5, UnfilledTurn DEF NothingStaged
  <2>3. /\ UNCHANGED <<bar, shadow>> /\ orders'[id].order = orders[id].order
        /\ \A other \in Ids \ {id} : orders'[other] = orders[other]
    BY <2>1, TurnEffects DEF Turn
  <2> QED
    BY <2>2, <2>3, StagedTypes DEF Quiet
<1>6. ASSUME ResolveOco PROVE Quiet
  BY <1>6 DEF ResolveOco, Quiet
<1>7. ASSUME TakeEvents \/ UNCHANGED vars PROVE Quiet
  BY <1>7 DEF TakeEvents, vars, observing, Quiet
<1> QED
  BY <1>1, <1>2, <1>3, <1>4, <1>5, <1>6, <1>7
     DEF Next, Calls, Observing, Match, LeavesUnfilled

\* What a staged fill changes of the bar's totals.
LEMMA StageFillTotals ==
  ASSUME TypeOK, BookInv, OrderInv, NEW id \in Ids, StageFill(id)
  PROVE  /\ UNCHANGED <<bar, shadow>> /\ bar # None
         /\ orders[id].order.instrument = bar.instrument
         /\ \A other \in Ids : orders'[other].order = orders[other].order
         /\ netAfter' = netAfter + orders[id].order.side * Want(id)
         /\ cap' = IF cap = None THEN None ELSE cap - Want(id)
         /\ Want(id) \in Int /\ Want(id) > 0
         /\ \E f \in StagedFill : StagedFillOf(id, f)
<1>1. PICK r, stage, rests : Turn(id, r, stage, rests)
  BY StageFillTurn
<1>2. /\ UNCHANGED <<bar, shadow>> /\ orders'[id].order = orders[id].order
      /\ bar # None /\ orders[id].order.instrument = bar.instrument
      /\ \A other \in Ids \ {id} : orders'[other] = orders[other]
  BY <1>1, TurnEffects DEF Turn
<1>3. /\ netAfter' = netAfter + orders[id].order.side * Want(id)
      /\ cap' = IF cap = None THEN None ELSE cap - Want(id)
  BY DEF StageFill
<1> QED
  BY <1>2, <1>3, WantType, StageFillTurn

-----------------------------------------------------------------------------
(* The volume cap *)

\* What a sequence of fills takes of the bar's volume.
Taken(s) == SumFunction([n \in DOMAIN s |-> s[n].qty])

\* Fill by fill.
LEMMA TakenFacts ==
  ASSUME NEW s \in Seq(StagedFill)
  PROVE  /\ Taken(s) \in Int
         /\ s = << >> => Taken(s) = 0
         /\ \A f \in StagedFill : Taken(Append(s, f)) = Taken(s) + f.qty
         /\ s # << >> => Taken(s) = s[1].qty + Taken(Tail(s))
<1> DEFINE Of(t) == [n \in DOMAIN t |-> t[n].qty]
<1>1. \A t : Taken(t) = SumFunctionOnSet(Of(t), DOMAIN t)
  BY DEF Taken, SumFunction
<1>2. \A t \in Seq(StagedFill) :
        /\ DOMAIN t = 1..Len(t) /\ Len(t) \in Nat
        /\ \A n \in 1..Len(t) : Of(t)[n] = t[n].qty /\ t[n].qty \in Int
  <2> SUFFICES ASSUME NEW t \in Seq(StagedFill)
               PROVE  /\ DOMAIN t = 1..Len(t) /\ Len(t) \in Nat
                      /\ \A n \in 1..Len(t) : Of(t)[n] = t[n].qty /\ t[n].qty \in Int
    OBVIOUS
  <2>1. \A n \in 1..Len(t) : t[n] \in StagedFill
    OBVIOUS
  <2> QED
    BY <2>1 DEF StagedFill
<1> HIDE DEF Of
<1>3. ASSUME s = << >> PROVE Taken(s) = 0
  <2>1. DOMAIN s = {} /\ IsFiniteSet({})
    BY <1>3, FS_EmptySet
  <2> QED
    BY <1>1, <2>1, SumZero
<1>4. Taken(s) \in Int
  <2>1. Len(s) \in Nat /\ \A n \in 1..Len(s) : Of(s)[n] \in Int
    BY <1>2
  <2>2. IsFiniteSet(1..Len(s))
    BY <2>1, FS_Interval
  <2>3. SumFunctionOnSet(Of(s), 1..Len(s)) \in Int
    BY <2>1, <2>2, SumType
  <2> QED
    BY <1>1, <1>2, <2>3
<1>5. ASSUME NEW f \in StagedFill PROVE Taken(Append(s, f)) = Taken(s) + f.qty
  <2> DEFINE t == Append(s, f)
  <2>1. /\ t \in Seq(StagedFill) /\ Len(t) = Len(s) + 1 /\ t[Len(s) + 1] = f
        /\ Len(s) \in Nat /\ \A n \in 1..Len(s) : t[n] = s[n]
    OBVIOUS
  <2> HIDE DEF t
  <2>2. /\ \A n \in 1..Len(s) + 1 : Of(t)[n] \in Int
        /\ \A n \in 1..Len(s) : Of(s)[n] = Of(t)[n]
        /\ Of(t)[Len(s) + 1] = f.qty
    BY <1>2, <2>1
  <2>3. SumFunctionOnSet(Of(t), 1..Len(s) + 1)
          = SumFunctionOnSet(Of(s), 1..Len(s)) + Of(t)[Len(s) + 1]
    BY <2>1, <2>2, SumAppend
  <2> QED
    BY <1>1, <1>2, <2>1, <2>2, <2>3 DEF t
<1>6. ASSUME s # << >> PROVE Taken(s) = s[1].qty + Taken(Tail(s))
  <2> DEFINE t == Tail(s)
             k == Len(s) - 1
  <2>1. /\ t \in Seq(StagedFill) /\ Len(t) = k /\ k \in Nat /\ Len(s) = k + 1
        /\ \A n \in 1..k : t[n] = s[n + 1]
    BY <1>6
  <2> HIDE DEF t, k
  <2>2. /\ \A n \in 1..k + 1 : Of(s)[n] \in Int
        /\ \A n \in 1..k : Of(t)[n] = Of(s)[n + 1]
        /\ Of(s)[1] = s[1].qty
    <3>1. 1 \in 1..k + 1 /\ \A n \in 1..k : n + 1 \in 1..k + 1
      BY <2>1
    <3>2. /\ \A n \in 1..k + 1 : Of(s)[n] = s[n].qty /\ s[n].qty \in Int
          /\ \A n \in 1..k : Of(t)[n] = t[n].qty
      BY <1>2, <2>1
    <3> QED
      BY <2>1, <3>1, <3>2
  <2>3. SumFunctionOnSet(Of(s), 1..k + 1) = Of(s)[1] + SumFunctionOnSet(Of(t), 1..k)
    BY <2>1, <2>2, SumShift
  <2> QED
    BY <1>1, <1>2, <2>1, <2>2, <2>3 DEF t
<1> QED
  BY <1>3, <1>4, <1>5, <1>6

\* What the cap has left and what is staged are within what the bar allows.
CapInv ==
  bar # None /\ ParticipationBps # None =>
    /\ cap # None
    /\ Greater(cap, 0) + Taken(toFill) <= Greater(MulBps(bar.volume, ParticipationBps), 0)

\* Every step keeps the bar's fills within its cap.
LEMMA NextCap ==
  ASSUME TypeOK, BookInv, OrderInv, CapInv, [Next]_vars
  PROVE  CapInv'
<1>1. CASE Quiet
  BY <1>1 DEF Quiet, CapInv
<1>2. ASSUME NEW b \in Bars, BeginObserve(b) PROVE CapInv'
  <2>1. /\ bar' = b /\ toFill' = << >>
        /\ ParticipationBps # None => cap' = MulBps(b.volume, ParticipationBps)
    BY <1>2 DEF BeginObserve, BookInv
  <2>2. ParticipationBps # None => MulBps(b.volume, ParticipationBps) \in Int
    BY ConstantsAssumption, MulBpsType DEF Bar
  <2>3. Taken(toFill') = 0
    <3>1. << >> \in Seq(StagedFill)
      OBVIOUS
    <3> QED
      BY <2>1, <3>1, TakenFacts
  <2> QED
    BY <2>1, <2>2, <2>3, ConstantsAssumption DEF CapInv, Greater
<1>3. ASSUME NEW id \in Ids, StageFill(id) PROVE CapInv'
  <2> SUFFICES ASSUME ParticipationBps # None PROVE CapInv'
    BY DEF CapInv
  <2>1. PICK f \in StagedFill : StagedFillOf(id, f)
    BY <1>3, StageFillTotals
  <2>2. /\ UNCHANGED bar /\ bar # None /\ Want(id) \in Int /\ Want(id) > 0
        /\ cap' = IF cap = None THEN None ELSE cap - Want(id)
    BY <1>3, StageFillTotals
  <2>3. /\ cap # None /\ cap \in Int
        /\ Greater(cap, 0) + Taken(toFill) <= Greater(MulBps(bar.volume, ParticipationBps), 0)
    BY <2>2 DEF CapInv, TypeOK
  <2>4. toFill \in Seq(StagedFill) /\ f.qty = Want(id) /\ toFill' = Append(toFill, f)
    BY <2>1 DEF TypeOK, StagedFillOf
  <2>5. Taken(toFill') = Taken(toFill) + Want(id) /\ Taken(toFill) \in Int
    BY <2>4, TakenFacts
  <2>6. Want(id) <= Greater(cap, 0)
    <3>1. Remaining(id) \in Int
      <4>1. orders[id].order \in HeldRequest /\ orders[id].filled \in Int
        BY DEF TypeOK, OrderState, HeldRequest
      <4> QED
        BY <4>1, HeldRequestType DEF Remaining
    <3>2. Greater(cap, 0) \in Int
      BY <2>3 DEF Greater
    <3>3. Room(id) \in Int /\ Room(id) <= Greater(cap, 0)
      <4>1. Room(id) = Lesser(Remaining(id), Greater(cap, 0))
        BY <2>3 DEF Room
      <4> QED
        BY <3>1, <3>2, <4>1 DEF Lesser
    <3>4. Reducible(id) \in Int
      BY AbsType DEF Reducible, TypeOK
    <3>5. Want(id) <= Room(id)
      BY <3>3, <3>4 DEF Want, ExhaustsReduction
    <3> QED
      BY <2>2, <3>2, <3>3, <3>5
  <2>7. cap - Want(id) \in Int /\ cap - Want(id) # None
    BY <2>2, <2>3, ConstantsAssumption
  <2>8. Greater(cap - Want(id), 0) = Greater(cap, 0) - Want(id)
    BY <2>2, <2>3, <2>6 DEF Greater
  <2>9. Greater(cap, 0) \in Int
    BY <2>3 DEF Greater
  <2> QED
    BY <2>2, <2>3, <2>5, <2>7, <2>8, <2>9 DEF CapInv
<1>4. ASSUME EmitFill PROVE CapInv'
  <2> SUFFICES ASSUME ParticipationBps # None PROVE CapInv'
    BY DEF CapInv
  <2>1. /\ UNCHANGED <<bar, cap>> /\ bar # None /\ 1 \in DOMAIN toFill
    BY <1>4, EmitEffects
  <2>2. toFill \in Seq(StagedFill) /\ toFill # << >> /\ toFill' = Tail(toFill)
    BY <1>4 DEF EmitFill, TypeOK
  <2>3. Taken(toFill) = toFill[1].qty + Taken(toFill') /\ Taken(toFill') \in Int
    <3>1. Tail(toFill) \in Seq(StagedFill)
      BY <2>2
    <3> QED
      BY <2>2, <3>1, TakenFacts
  <2>4. toFill[1].qty \in Int /\ toFill[1].qty > 0
    BY <2>1, StagedTypes DEF OrderInv, StagedSoundly
  <2>5. /\ cap # None /\ cap \in Int
        /\ Greater(cap, 0) + Taken(toFill) <= Greater(MulBps(bar.volume, ParticipationBps), 0)
    BY <2>1 DEF CapInv, TypeOK
  <2>6. /\ Greater(cap, 0) \in Int
        /\ Greater(MulBps(bar.volume, ParticipationBps), 0) \in Int
    <3>1. bar.volume \in Int /\ ParticipationBps \in Int
      BY <2>1, ObservedBarType, ConstantsAssumption
    <3>2. MulBps(bar.volume, ParticipationBps) \in Int
      BY <3>1, MulBpsType
    <3> QED
      BY <2>5, <3>2 DEF Greater
  <2> QED
    BY <2>1, <2>3, <2>4, <2>5, <2>6 DEF CapInv
<1>5. ASSUME FinishObserve PROVE CapInv'
  BY <1>5 DEF FinishObserve, CapInv
<1> QED
  BY <1>1, <1>2, <1>3, <1>4, <1>5, StepKinds

\* The fills of one bar share its volume cap, however many orders it fills.
THEOREM CapShared == Spec => []SharedVolumeCap
<1>1. Init => CapInv
  BY DEF Init, CapInv
<1>2. TypeOK /\ BookInv /\ OrderInv /\ CapInv /\ [Next]_vars => CapInv'
  BY NextCap
<1>3. TypeOK /\ CapInv => SharedVolumeCap
  <2> SUFFICES ASSUME TypeOK, CapInv, bar # None, ParticipationBps # None
               PROVE  Taken(toFill) <= Greater(MulBps(bar.volume, ParticipationBps), 0)
    BY DEF SharedVolumeCap, Taken
  <2>1. Taken(toFill) \in Int /\ cap \in Int
    BY TakenFacts DEF TypeOK, CapInv
  <2>2. Greater(cap, 0) \in Int /\ Greater(cap, 0) >= 0
    BY <2>1 DEF Greater
  <2>3. Greater(MulBps(bar.volume, ParticipationBps), 0) \in Int
    <3>1. bar.volume \in Int /\ ParticipationBps \in Int
      BY ObservedBarType, ConstantsAssumption
    <3>2. MulBps(bar.volume, ParticipationBps) \in Int
      BY <3>1, MulBpsType
    <3> QED
      BY <3>2 DEF Greater
  <2> QED
    BY <2>1, <2>2, <2>3 DEF CapInv
<1> QED
  BY <1>1, <1>2, <1>3, OrdersSound, PTL DEF Spec

-----------------------------------------------------------------------------
(* Reduce-only fills *)

\* `run` follows the position through the fills staged on this bar, from what
\* the account holds to netAfter.  A reduce-only fill finds a position to
\* reduce, and no smaller than itself.
Follows(run) ==
  /\ run[0] = shadow[bar.instrument].net /\ run[Len(toFill)] = netAfter
  /\ \A n \in 1..Len(toFill) :
       LET o == orders[toFill[n].id].order
       IN  /\ run[n] = run[n - 1] + o.side * toFill[n].qty
           /\ o.reduceOnly => /\ Sign(run[n - 1]) = -o.side
                              /\ toFill[n].qty <= Abs(run[n - 1])

RunInv == bar # None => \E run \in [0..Len(toFill) -> Int] : Follows(run)

\* A quiet step leaves the run as it is.
LEMMA QuietRun ==
  ASSUME TypeOK, RunInv, Quiet
  PROVE  RunInv'
<1> SUFFICES ASSUME bar' # None PROVE RunInv'
  BY DEF RunInv
<1>1. /\ UNCHANGED <<bar, netAfter, toFill, shadow>> /\ bar # None
      /\ \A n \in DOMAIN toFill : orders'[toFill[n].id].order = orders[toFill[n].id].order
  BY DEF Quiet
<1>2. PICK run \in [0..Len(toFill) -> Int] : Follows(run)
  BY <1>1 DEF RunInv
<1>3. DOMAIN toFill = 1..Len(toFill)
  BY DEF TypeOK
<1>4. Follows(run)'
  BY <1>1, <1>2, <1>3 DEF Follows
<1> QED
  BY <1>1, <1>4 DEF RunInv

\* A bar's run starts at the position.
LEMMA BeginObserveRun ==
  ASSUME TypeOK, BookInv, NEW b \in Bars, BeginObserve(b)
  PROVE  RunInv'
<1>1. /\ bar' = b /\ toFill' = << >> /\ netAfter' = shadow[b.instrument].net
      /\ shadow' = [shadow EXCEPT ![b.instrument].mark = b.close]
  BY DEF BeginObserve, BookInv
<1>2. b.instrument \in Instruments
  BY ConstantsAssumption DEF Bar
<1>3. shadow'[b.instrument].net = netAfter' /\ netAfter' \in Int
  BY <1>1, <1>2 DEF TypeOK, ShadowState
<1> DEFINE run == [n \in 0..0 |-> netAfter']
<1>4. run \in [0..0 -> Int] /\ run[0] = netAfter'
  BY <1>3
<1> HIDE DEF run
<1>5. Len(toFill') = 0
  BY <1>1
<1>6. /\ run[0] = shadow'[bar'.instrument].net /\ run[Len(toFill')] = netAfter'
      /\ 1..Len(toFill') = {}
  BY <1>1, <1>3, <1>4, <1>5
<1> QED
  BY <1>4, <1>5, <1>6 DEF RunInv, Follows

\* A staged fill takes the run one step further, to the new netAfter.
LEMMA StageFillRun ==
  ASSUME TypeOK, BookInv, OrderInv, RunInv, NEW id \in Ids, StageFill(id)
  PROVE  RunInv'
<1>1. /\ UNCHANGED <<bar, shadow>> /\ bar # None
      /\ \A other \in Ids : orders'[other].order = orders[other].order
      /\ netAfter' = netAfter + orders[id].order.side * Want(id)
      /\ Want(id) \in Int /\ Want(id) > 0
  BY StageFillTotals
<1>2. PICK f \in StagedFill : StagedFillOf(id, f)
  BY StageFillTotals
<1>3. f.id = id /\ f.qty = Want(id) /\ toFill' = Append(toFill, f)
  BY <1>2 DEF StagedFillOf
<1>4. PICK run \in [0..Len(toFill) -> Int] : Follows(run)
  BY <1>1 DEF RunInv
<1>5. /\ DOMAIN toFill = 1..Len(toFill) /\ Len(toFill) \in Nat
      /\ DOMAIN toFill' = 1..Len(toFill) + 1 /\ Len(toFill') = Len(toFill) + 1
      /\ \A n \in 1..Len(toFill) : toFill'[n] = toFill[n]
      /\ toFill'[Len(toFill) + 1] = f
  <2>1. toFill \in Seq(StagedFill)
    BY DEF TypeOK
  <2> QED
    BY <1>3, <2>1
<1>6. PICK k \in Nat : k = Len(toFill)
  BY <1>5
<1>7. netAfter \in Int /\ netAfter' \in Int /\ orders[id].order.side \in {Buy, Sell}
  <2>1. orders[id].order \in HeldRequest
    BY DEF TypeOK, OrderState, HeldRequest
  <2>2. TypeOK'
    BY StageFillType
  <2> QED
    BY <2>1, <2>2, HeldRequestType DEF TypeOK
<1>8. PICK next \in [0..k + 1 -> Int] :
        /\ next[0] = run[0] /\ next[k + 1] = netAfter' /\ next[k] = netAfter
        /\ \A n \in 1..k : next[n] = run[n] /\ next[n - 1] = run[n - 1]
  <2> DEFINE longer == [n \in 0..k + 1 |-> IF n <= k THEN run[n] ELSE netAfter']
  <2>1. run \in [0..k -> Int] /\ run[k] = netAfter
    BY <1>4, <1>6 DEF Follows
  <2>2. /\ longer \in [0..k + 1 -> Int]
        /\ longer[0] = run[0] /\ longer[k + 1] = netAfter' /\ longer[k] = netAfter
        /\ \A n \in 1..k : longer[n] = run[n] /\ longer[n - 1] = run[n - 1]
    BY <1>6, <1>7, <2>1
  <2> HIDE DEF longer
  <2> QED
    BY <2>2
<1>9. ASSUME orders[id].order.reduceOnly
      PROVE  Sign(netAfter) = -orders[id].order.side /\ Want(id) <= Abs(netAfter)
  <2>1. Room(id) \in Int /\ Abs(netAfter) \in Nat
    <3>1. orders[id].order \in HeldRequest /\ orders[id].filled \in Int
      BY DEF TypeOK, OrderState, HeldRequest
    <3>2. Remaining(id) \in Int
      BY <3>1, HeldRequestType DEF Remaining
    <3>3. cap # None => Greater(cap, 0) \in Int
      BY DEF TypeOK, Greater
    <3> QED
      BY <1>7, <3>2, <3>3, AbsType DEF Room, Lesser
  <2>2. Reducible(id) \in Nat
    BY <2>1 DEF Reducible
  <2>3. Want(id) <= Reducible(id)
    BY <1>9, <2>1, <2>2 DEF Want, ExhaustsReduction
  <2>4. Reducible(id) > 0
    BY <1>1, <2>2, <2>3
  <2> QED
    BY <2>1, <2>3, <2>4 DEF Reducible
<1>10. /\ run[0] = shadow[bar.instrument].net
       /\ \A n \in 1..k :
            LET o == orders[toFill[n].id].order
            IN  /\ run[n] = run[n - 1] + o.side * toFill[n].qty
                /\ o.reduceOnly => /\ Sign(run[n - 1]) = -o.side
                                   /\ toFill[n].qty <= Abs(run[n - 1])
  BY <1>4, <1>6 DEF Follows
<1>11. ASSUME NEW n \in 1..k
       PROVE  LET o == orders'[toFill'[n].id].order
              IN  /\ next[n] = next[n - 1] + o.side * toFill'[n].qty
                  /\ o.reduceOnly => /\ Sign(next[n - 1]) = -o.side
                                     /\ toFill'[n].qty <= Abs(next[n - 1])
  <2>1. n \in DOMAIN toFill /\ toFill'[n] = toFill[n]
    BY <1>5, <1>6
  <2>2. orders'[toFill'[n].id].order = orders[toFill[n].id].order
    BY <1>1, <2>1, StagedTypes
  <2> QED
    BY <1>8, <1>10, <2>1, <2>2
<1>12. LET o == orders'[toFill'[k + 1].id].order
       IN  /\ next[k + 1] = next[k] + o.side * toFill'[k + 1].qty
           /\ o.reduceOnly => /\ Sign(next[k]) = -o.side
                              /\ toFill'[k + 1].qty <= Abs(next[k])
  BY <1>1, <1>3, <1>5, <1>6, <1>8, <1>9
<1>13. /\ next[0] = shadow'[bar'.instrument].net /\ next[Len(toFill')] = netAfter'
       /\ next \in [0..Len(toFill') -> Int]
  BY <1>1, <1>5, <1>6, <1>8, <1>10
<1>14. \A n \in 1..k + 1 : n \in 1..k \/ (n = k + 1 /\ n - 1 = k)
  BY <1>6
<1>15. Follows(next)'
  BY <1>5, <1>6, <1>11, <1>12, <1>13, <1>14 DEF Follows
<1> QED
  BY <1>13, <1>15 DEF RunInv

\* An emitted fill takes the first step of the run.
LEMMA EmitFillRun ==
  ASSUME TypeOK, BookInv, OrderInv, RunInv, EmitFill
  PROVE  /\ RunInv'
         /\ \E run \in [0..Len(toFill) -> Int] :
              /\ Follows(run) /\ shadow'[bar.instrument].net = run[1]
              /\ \A i \in Instruments \ {bar.instrument} : shadow'[i] = shadow[i]
<1>1. /\ bar # None /\ Len(toFill) \in Nat /\ Len(toFill) > 0
      /\ DOMAIN toFill = 1..Len(toFill) /\ 1 \in DOMAIN toFill /\ Head(toFill) = toFill[1]
      /\ DOMAIN toFill' = 1..Len(toFill) - 1
      /\ \A n \in DOMAIN toFill' : n + 1 \in DOMAIN toFill /\ toFill'[n] = toFill[n + 1]
      /\ UNCHANGED <<orders, bar, netAfter>>
  BY EmitEffects
<1>2. PICK run \in [0..Len(toFill) -> Int] : Follows(run)
  BY <1>1 DEF RunInv
<1>3. Len(toFill') = Len(toFill) - 1
  <2>1. toFill \in Seq(StagedFill) /\ toFill # << >> /\ toFill' = Tail(toFill)
    BY DEF TypeOK, EmitFill
  <2> QED
    BY <2>1
<1> DEFINE f == toFill[1]
           i == bar.instrument
<1>4. orders[f.id].order.instrument = i /\ i \in Instruments
  <2>1. StagedSoundly(1)
    BY <1>1 DEF OrderInv
  <2> QED
    BY <1>1, <2>1, ObservedBarType DEF StagedSoundly
<1>5. /\ shadow'[i].net = shadow[i].net + orders[f.id].order.side * f.qty
      /\ \A j \in Instruments \ {i} : shadow'[j] = shadow[j]
  <2>1. PICK avg :
          shadow' = [shadow EXCEPT
             ![i].net = @ + orders[f.id].order.side * f.qty,
             ![i].avg = avg]
    BY <1>1, <1>4 DEF EmitFill
  <2>2. shadow \in [Instruments -> ShadowState]
    BY DEF TypeOK
  <2> QED
    BY <1>4, <2>1, <2>2 DEF ShadowState
<1>6. /\ run[0] = shadow[i].net /\ run[Len(toFill)] = netAfter
      /\ \A n \in 1..Len(toFill) :
           LET o == orders[toFill[n].id].order
           IN  /\ run[n] = run[n - 1] + o.side * toFill[n].qty
               /\ o.reduceOnly => /\ Sign(run[n - 1]) = -o.side
                                  /\ toFill[n].qty <= Abs(run[n - 1])
  BY <1>2 DEF Follows
<1>7. shadow'[i].net = run[1]
  <2>1. run[1] = run[1 - 1] + orders[f.id].order.side * f.qty
    BY <1>1, <1>6
  <2> QED
    BY <1>5, <1>6, <2>1
<1>8. PICK k \in Nat : Len(toFill) = k + 1
  <2>1. Len(toFill) - 1 \in Nat /\ Len(toFill) = Len(toFill) - 1 + 1
    BY <1>1
  <2> QED
    BY <2>1
<1>9. PICK rest \in [0..k -> Int] : \A n \in 0..k : rest[n] = run[n + 1]
  <2> DEFINE shorter == [n \in 0..k |-> run[n + 1]]
  <2>1. shorter \in [0..k -> Int] /\ \A n \in 0..k : shorter[n] = run[n + 1]
    BY <1>8
  <2> HIDE DEF shorter
  <2> QED
    BY <2>1
<1>10. /\ rest[0] = shadow'[bar'.instrument].net /\ Len(toFill') = k
       /\ rest[Len(toFill')] = netAfter'
  BY <1>1, <1>3, <1>6, <1>7, <1>8, <1>9
<1>11. ASSUME NEW n \in 1..k
       PROVE  LET o == orders'[toFill'[n].id].order
              IN  /\ rest[n] = rest[n - 1] + o.side * toFill'[n].qty
                  /\ o.reduceOnly => /\ Sign(rest[n - 1]) = -o.side
                                     /\ toFill'[n].qty <= Abs(rest[n - 1])
  <2>1. /\ n + 1 \in 1..Len(toFill) /\ n \in DOMAIN toFill' /\ n + 1 - 1 = n
        /\ rest[n] = run[n + 1] /\ rest[n - 1] = run[n]
    BY <1>1, <1>8, <1>9
  <2>2. LET o == orders[toFill[n + 1].id].order
        IN  /\ run[n + 1] = run[n] + o.side * toFill[n + 1].qty
            /\ o.reduceOnly => /\ Sign(run[n]) = -o.side
                               /\ toFill[n + 1].qty <= Abs(run[n])
    BY <1>6, <2>1
  <2>3. toFill'[n] = toFill[n + 1] /\ orders' = orders
    BY <1>1, <2>1
  <2> QED
    BY <2>1, <2>2, <2>3
<1>12. Follows(rest)'
  BY <1>10, <1>11 DEF Follows
<1>13. RunInv'
  BY <1>10, <1>12 DEF RunInv
<1> QED
  BY <1>2, <1>5, <1>7, <1>13

\* Every step keeps a run.
LEMMA NextRun ==
  ASSUME TypeOK, BookInv, OrderInv, RunInv, [Next]_vars
  PROVE  RunInv'
<1>1. FinishObserve => RunInv'
  BY DEF FinishObserve, RunInv
<1> QED
  BY <1>1, QuietRun, BeginObserveRun, StageFillRun, EmitFillRun, StepKinds

\* The first step of the run is the fill's, and shrinks the position.
LEMMA EmitShrinks ==
  ASSUME TypeOK, BookInv, OrderInv, RunInv, EmitFill,
         orders[Head(toFill).id].order.reduceOnly
  PROVE  LET i      == orders[Head(toFill).id].order.instrument
             before == shadow[i].net
             after  == shadow'[i].net
         IN  Abs(after) < Abs(before) /\ Sign(after) \in {0, Sign(before)}
<1> DEFINE f == toFill[1]
           o == orders[f.id].order
<1>1. /\ Head(toFill) = f /\ 1 \in DOMAIN toFill /\ 1 \in 1..Len(toFill) /\ bar # None
      /\ Len(toFill) \in Nat /\ Len(toFill) > 0
  BY EmitEffects
<1>2. o.instrument = bar.instrument /\ f.qty > 0 /\ f.qty \in Int
  <2>1. StagedSoundly(1)
    BY <1>1 DEF OrderInv
  <2> QED
    BY <1>1, <2>1, StagedTypes DEF StagedSoundly
<1>3. PICK run \in [0..Len(toFill) -> Int] :
        Follows(run) /\ shadow'[bar.instrument].net = run[1]
  BY EmitFillRun
<1>4. /\ run[0] = shadow[bar.instrument].net /\ run[0] \in Int
      /\ run[1] = run[0] + o.side * f.qty
      /\ Sign(run[0]) = -o.side /\ f.qty <= Abs(run[0])
  <2>1. /\ run[1] = run[1 - 1] + o.side * f.qty
        /\ o.reduceOnly => Sign(run[1 - 1]) = -o.side /\ f.qty <= Abs(run[1 - 1])
    BY <1>1, <1>3 DEF Follows
  <2>2. run[0] = shadow[bar.instrument].net /\ run[0] \in Int
    BY <1>1, <1>3 DEF Follows
  <2> QED
    BY <1>1, <2>1, <2>2
<1>5. o.side = 1 \/ o.side = -1
  <2>1. f.id \in Ids
    BY <1>1, StagedTypes
  <2>2. o \in HeldRequest
    BY <2>1 DEF TypeOK, OrderState, HeldRequest
  <2> QED
    BY <2>2, HeldRequestType DEF Buy, Sell
<1> HIDE DEF f, o
<1>6. run[1] = run[0] + f.qty \/ run[1] = run[0] - f.qty
  BY <1>2, <1>4, <1>5
<1>7. Abs(run[1]) < Abs(run[0]) /\ Sign(run[1]) \in {0, Sign(run[0])}
  <2>1. CASE o.side = 1
    BY <1>2, <1>4, <2>1 DEF Sign, Abs
  <2>2. CASE o.side = -1
    BY <1>2, <1>4, <2>2 DEF Sign, Abs
  <2> QED
    BY <1>5, <2>1, <2>2
<1> QED
  BY <1>1, <1>2, <1>3, <1>4, <1>7 DEF o

\* A reduce-only fill takes the position toward flat and not past it, also when
\* several fills of one bar, decided against what the position will be, are
\* applied one by one later.
THEOREM ReduceOnlyReduces == Spec => ReduceOnlyShrinks
<1>1. Init => RunInv
  BY DEF Init, RunInv
<1>2. TypeOK /\ BookInv /\ OrderInv /\ RunInv /\ [Next]_vars => RunInv'
  BY NextRun
<1> DEFINE Shrinks ==
      LET f == Head(toFill)
          o == orders[f.id].order
      IN  EmitFill /\ o.reduceOnly =>
            LET before == shadow[o.instrument].net
                after  == shadow'[o.instrument].net
            IN  Abs(after) < Abs(before) /\ Sign(after) \in {0, Sign(before)}
<1>3. TypeOK /\ BookInv /\ OrderInv /\ RunInv /\ [Next]_vars => [Shrinks]_vars
  BY EmitShrinks
<1> QED
  BY <1>1, <1>2, <1>3, OrdersSound, PTL DEF Spec, ReduceOnlyShrinks

-----------------------------------------------------------------------------
(* Liquidation *)

\* The position is within the liquidation threshold at its mark.
WithinThreshold(pos) ==
  LET adverse == Sign(pos.net) * (pos.avg - pos.mark)
  IN  pos.net # 0 /\ pos.avg # 0 /\ adverse > 0 =>
        TruncDiv(adverse * 10000, Greater(Abs(pos.avg), 1)) < LiquidationBps

\* While a bar is observed its instrument is marked at its close, and only
\* that instrument's position may be beyond the threshold.
MarkInv ==
  /\ bar # None => shadow[bar.instrument].mark = bar.close
  /\ LiquidationBps # None =>
       \A i \in Instruments :
         (bar # None /\ i = bar.instrument) \/ WithinThreshold(shadow[i])

\* A position that is not liquidated is within the threshold at its mark.
LEMMA UnliquidatedWithin ==
  ASSUME TypeOK, bar # None, ~IsLiquidated, LiquidationBps # None,
         NEW pos \in ShadowState, pos.net = shadow[Here].net,
         pos.avg = shadow[Here].avg, pos.mark = bar.close
  PROVE  WithinThreshold(pos)
<1> DEFINE adverse == Sign(pos.net) * (pos.avg - pos.mark)
<1> SUFFICES ASSUME pos.net # 0, pos.avg # 0, adverse > 0
             PROVE  TruncDiv(adverse * 10000, Greater(Abs(pos.avg), 1)) < LiquidationBps
  BY DEF WithinThreshold
<1>1. adverse \in Int
  <2>1. Sign(pos.net) \in {-1, 0, 1} /\ pos.avg - pos.mark \in Int
    BY SignType DEF ShadowState
  <2> QED
    BY <2>1
<1>2. Greater(adverse, 0) = adverse
  BY <1>1 DEF Greater
<1>3. LossBps = TruncDiv(adverse * 10000, Greater(Abs(pos.avg), 1))
  <2>1. adverse = Sign(shadow[Here].net) * (shadow[Here].avg - bar.close)
    OBVIOUS
  <2> HIDE DEF adverse
  <2> QED
    BY <1>2, <2>1 DEF LossBps
<1>4. LossBps \in Int
  <2>1. adverse * 10000 \in Int
    BY <1>1
  <2>2. Greater(Abs(pos.avg), 1) \in Nat \ {0}
    <3>1. Abs(pos.avg) \in Nat
      BY AbsType DEF ShadowState
    <3> QED
      BY <3>1 DEF Greater
  <2> QED
    BY <1>3, <2>1, <2>2, TruncDivType
<1>5. ~(LossBps >= LiquidationBps) /\ LiquidationBps \in Int
  BY ConstantsAssumption DEF IsLiquidated
<1> QED
  BY <1>3, <1>4, <1>5

\* What the end of the call does to the positions.
LEMMA FinishPositions ==
  ASSUME TypeOK, FinishObserve
  PROVE  /\ bar # None /\ bar' = None /\ Here \in Instruments /\ orders' = orders
         /\ \A i \in Instruments \ {Here} : shadow'[i] = shadow[i]
         /\ shadow'[Here] \in ShadowState /\ shadow'[Here].mark = shadow[Here].mark
         /\ IsLiquidated =>
              /\ shadow'[Here].net = 0
              /\ resting' = Keep(resting, Ids \ {id \in Ids : orders[id].order.instrument = Here})
         /\ ~IsLiquidated => /\ shadow'[Here].net = shadow[Here].net
                             /\ shadow'[Here].avg = shadow[Here].avg
<1>1. bar # None /\ bar' = None /\ orders' = orders
  BY DEF FinishObserve, Walked
<1>2. Here \in Instruments /\ shadow \in [Instruments -> ShadowState]
  BY <1>1, ObservedBarType DEF Here, TypeOK
<1>3. shadow'[Here] \in ShadowState
  BY <1>2, FinishObserveType DEF TypeOK
<1>4. CASE IsLiquidated
  <2>1. PICK avg :
          /\ shadow' = [shadow EXCEPT
               ![Here].net = @ + (-Sign(shadow[Here].net)) * Abs(shadow[Here].net),
               ![Here].avg = avg, ![Here].bars = FundingClock]
          /\ resting' = Keep(resting, Ids \ {id \in Ids : orders[id].order.instrument = Here})
    BY <1>4 DEF FinishObserve, Liquidate
  <2>2. shadow[Here] \in ShadowState
    BY <1>2
  <2>3. shadow[Here].net \in Int
    BY <2>2 DEF ShadowState
  <2>4. /\ shadow'[Here].net =
             shadow[Here].net + (-Sign(shadow[Here].net)) * Abs(shadow[Here].net)
        /\ shadow'[Here].mark = shadow[Here].mark
        /\ \A i \in Instruments \ {Here} : shadow'[i] = shadow[i]
    BY <1>2, <2>1, <2>2 DEF ShadowState
  <2>5. shadow[Here].net + (-Sign(shadow[Here].net)) * Abs(shadow[Here].net) = 0
    BY <2>3 DEF Sign, Abs
  <2> QED
    BY <1>1, <1>2, <1>3, <1>4, <2>1, <2>4, <2>5
<1>5. CASE ~IsLiquidated
  <2>1. shadow' = [shadow EXCEPT ![Here].bars = FundingClock]
    BY <1>5 DEF FinishObserve
  <2>2. /\ shadow'[Here].net = shadow[Here].net /\ shadow'[Here].avg = shadow[Here].avg
        /\ shadow'[Here].mark = shadow[Here].mark
        /\ \A i \in Instruments \ {Here} : shadow'[i] = shadow[i]
    BY <1>2, <2>1 DEF ShadowState
  <2> QED
    BY <1>1, <1>2, <1>3, <1>5, <2>2
<1> QED
  BY <1>4, <1>5

\* Every step keeps it.
LEMMA NextMark ==
  ASSUME TypeOK, BookInv, OrderInv, MarkInv, [Next]_vars
  PROVE  MarkInv'
<1>1. CASE Quiet
  BY <1>1 DEF Quiet, MarkInv, WithinThreshold
<1>2. ASSUME NEW b \in Bars, BeginObserve(b) PROVE MarkInv'
  <2>1. /\ bar = None /\ bar' = b
        /\ shadow' = [shadow EXCEPT ![b.instrument].mark = b.close]
    BY <1>2 DEF BeginObserve, Idle
  <2>2. b.instrument \in Instruments /\ b # None
    BY ConstantsAssumption DEF Bar
  <2>3. /\ shadow'[b.instrument].mark = b.close
        /\ \A i \in Instruments \ {b.instrument} : shadow'[i] = shadow[i]
    BY <2>1, <2>2 DEF TypeOK, ShadowState
  <2>4. LiquidationBps # None =>
          \A i \in Instruments \ {b.instrument} : WithinThreshold(shadow'[i])
    BY <2>1, <2>3 DEF MarkInv
  <2> QED
    BY <2>1, <2>2, <2>3, <2>4 DEF MarkInv, WithinThreshold
<1>3. ASSUME NEW id \in Ids, StageFill(id) PROVE MarkInv'
  <2>1. UNCHANGED <<bar, shadow>>
    BY <1>3, StageFillTotals
  <2> QED
    BY <2>1 DEF MarkInv, WithinThreshold
<1>4. ASSUME EmitFill PROVE MarkInv'
  <2> DEFINE f == toFill[1]
             i == bar.instrument
  <2>1. /\ bar # None /\ 1 \in DOMAIN toFill /\ Head(toFill) = f /\ UNCHANGED bar
    BY <1>4, EmitEffects
  <2>2. orders[f.id].order.instrument = i /\ i \in Instruments
    <3>1. StagedSoundly(1)
      BY <2>1 DEF OrderInv
    <3> QED
      BY <2>1, <3>1, ObservedBarType DEF StagedSoundly
  <2>3. PICK avg :
          shadow' = [shadow EXCEPT
             ![i].net = @ + orders[f.id].order.side * f.qty,
             ![i].avg = avg]
    BY <1>4, <2>1, <2>2 DEF EmitFill
  <2>4. /\ shadow'[i].mark = shadow[i].mark
        /\ \A j \in Instruments \ {i} : shadow'[j] = shadow[j]
    BY <2>2, <2>3 DEF TypeOK, ShadowState
  <2>5. LiquidationBps # None =>
          \A j \in Instruments \ {i} : WithinThreshold(shadow'[j])
    BY <2>1, <2>4 DEF MarkInv
  <2> QED
    BY <2>1, <2>4, <2>5 DEF MarkInv, WithinThreshold
<1>5. ASSUME FinishObserve PROVE MarkInv'
  <2>1. /\ bar # None /\ bar' = None /\ Here \in Instruments
        /\ \A i \in Instruments \ {Here} : shadow'[i] = shadow[i]
        /\ shadow'[Here] \in ShadowState /\ shadow'[Here].mark = shadow[Here].mark
        /\ IsLiquidated => shadow'[Here].net = 0
        /\ ~IsLiquidated => /\ shadow'[Here].net = shadow[Here].net
                            /\ shadow'[Here].avg = shadow[Here].avg
    BY <1>5, FinishPositions
  <2>2. LiquidationBps # None => \A i \in Instruments \ {Here} : WithinThreshold(shadow'[i])
    BY <2>1 DEF MarkInv, Here
  <2>3. shadow'[Here].mark = bar.close
    BY <2>1 DEF MarkInv, Here
  <2>4. LiquidationBps # None => WithinThreshold(shadow'[Here])
    <3>1. CASE IsLiquidated
      BY <2>1, <3>1 DEF WithinThreshold
    <3>2. CASE ~IsLiquidated
      BY <2>1, <2>3, <3>2, UnliquidatedWithin
    <3> QED
      BY <3>1, <3>2
  <2> QED
    BY <2>1, <2>2, <2>4 DEF MarkInv, WithinThreshold
<1> QED
  BY <1>1, <1>2, <1>3, <1>4, <1>5, StepKinds

\* Between calls no position is beyond the liquidation threshold at its mark.
THEOREM UnderwaterLiquidated == Spec => []NoUnderwaterPosition
<1>1. Init => MarkInv
  BY DEF Init, MarkInv, WithinThreshold
<1>2. TypeOK /\ BookInv /\ OrderInv /\ MarkInv /\ [Next]_vars => MarkInv'
  BY NextMark
<1>3. MarkInv => NoUnderwaterPosition
  BY DEF MarkInv, WithinThreshold, NoUnderwaterPosition, Idle
<1> QED
  BY <1>1, <1>2, <1>3, OrdersSound, PTL DEF Spec

\* What a step that ends a call and closes a position leaves on the book.
LEMMA LiquidationLeaves ==
  ASSUME TypeOK, BookInv, OrderInv, [Next]_vars, NEW i \in Instruments,
         shadow[i].net # 0, shadow'[i].net = 0, bar' = None,
         NEW n \in DOMAIN resting'
  PROVE  orders[resting'[n]].order.instrument # i
<1>1. FinishObserve
  <2>1. ~Quiet
    BY DEF Quiet
  <2>2. \A b \in Bars : ~BeginObserve(b)
    BY ConstantsAssumption DEF BeginObserve
  <2>3. \A id \in Ids : ~StageFill(id)
    BY StageFillTotals
  <2>4. ~EmitFill
    BY EmitEffects
  <2> QED
    BY <2>1, <2>2, <2>3, <2>4, StepKinds
<1> DEFINE here == {id \in Ids : orders[id].order.instrument = Here}
<1>2. i = Here /\ IsLiquidated /\ resting' = Keep(resting, Ids \ here)
  BY <1>1, FinishPositions
<1>3. Elements(resting') \subseteq Ids \ here
  BY <1>2, KeepFacts DEF TypeOK
<1>4. resting'[n] \in Elements(resting')
  BY DEF Elements
<1> QED
  BY <1>2, <1>3, <1>4

\* A liquidation leaves no order on the book that could reopen the position.
THEOREM LiquidationClears == Spec => LiquidationClearsBook
<1>1. TypeOK /\ BookInv /\ OrderInv /\ [Next]_vars =>
        [\A i \in Instruments :
           shadow[i].net # 0 /\ shadow'[i].net = 0 /\ bar' = None =>
             \A n \in DOMAIN resting' : orders[resting'[n]].order.instrument # i]_vars
  BY LiquidationLeaves
<1> QED
  BY <1>1, OrdersSound, PTL DEF Spec, LiquidationClearsBook

-----------------------------------------------------------------------------
(* Fill prices *)

\* Costs are costs: slippage and impact go against the taker, slippage takes
\* no more than the whole price, and the prices of the feed and of the stop
\* triggers are not negative.  The code accepts any configuration; with a
\* negative slippage a stop does fill better than its trigger.
CostsAreAdverse ==
  /\ SlippageBps \in 0..10000 /\ ImpactBps >= 0
  /\ \A b \in Bars : b.open >= 0
  /\ \A o \in Requests : o.kind = "Stop" => o.trigger >= 0

\* Truncating division keeps the sign, and a share of no more than the whole
\* is no more than the amount.
LEMMA ShareBounds ==
  ASSUME NEW n \in Nat, NEW k \in Nat
  PROVE  /\ TruncDiv(n * k, 10000) \in Nat
         /\ k <= 10000 => TruncDiv(n * k, 10000) <= n
<1> DEFINE m == n * k
<1>1. m \in Nat
  OBVIOUS
<1>2. k <= 10000 => m <= n * 10000
  <2>1. ASSUME k <= 10000 PROVE n * k + n * (10000 - k) = n * 10000 /\ n * (10000 - k) \in Nat
    BY <2>1
  <2> QED
    BY <1>1, <2>1
<1> HIDE DEF m
<1>3. m \div 10000 \in Nat /\ (m <= n * 10000 => m \div 10000 <= n)
  BY <1>1
<1> QED
  BY <1>1, <1>2, <1>3 DEF TruncDiv, m

\* A taker pays no less, and a seller receives no more, than the base price.
LEMMA TakerPriceAdverse ==
  ASSUME CostsAreAdverse, NEW base \in Nat, NEW side \in {Buy, Sell},
         NEW qty \in Nat, NEW volume \in Int
  PROVE  side * TakerPrice(base, side, qty, volume) >= side * base
<1> DEFINE slip    == MulBps(base, SlippageBps)
           slipped == Slipped(base, side)
           share   == Lesser((qty * 10000) \div volume, 10000)
           impact  == TruncDiv(MulBps(slipped, ImpactBps) * share, 10000)
<1>1. slip \in Nat /\ slip <= base
  <2>1. SlippageBps \in Nat /\ SlippageBps <= 10000
    BY DEF CostsAreAdverse
  <2>2. TruncDiv(base * SlippageBps, 10000) \in Nat /\ TruncDiv(base * SlippageBps, 10000) <= base
    BY <2>1, ShareBounds
  <2> QED
    BY <2>2 DEF MulBps
<1>2. slipped \in Nat /\ side * slipped >= side * base
  <2>1. slipped = base + side * slip
    BY DEF Slipped
  <2> HIDE DEF slip
  <2> QED
    BY <1>1, <2>1 DEF Buy, Sell
<1>3. CASE ImpactBps = 0 \/ volume <= 0 \/ qty <= 0
  <2>1. TakerPrice(base, side, qty, volume) = slipped
    BY <1>3 DEF TakerPrice
  <2> QED
    BY <1>2, <2>1
<1>4. CASE ~(ImpactBps = 0 \/ volume <= 0 \/ qty <= 0)
  <2>1. share \in Nat
    <3>1. (qty * 10000) \div volume \in Nat
      <4>1. qty * 10000 \in Nat /\ volume \in Nat \ {0}
        BY <1>4
      <4> QED
        BY <4>1
    <3> QED
      BY <3>1 DEF Lesser
  <2>2. MulBps(slipped, ImpactBps) \in Nat
    <3>1. ImpactBps \in Nat
      BY ConstantsAssumption DEF CostsAreAdverse
    <3> HIDE DEF slipped
    <3> QED
      BY <1>2, <3>1, ShareBounds DEF MulBps
  <2>3. impact \in Nat
    <3> DEFINE cost == MulBps(slipped, ImpactBps)
    <3> HIDE DEF cost, share
    <3>1. TruncDiv(cost * share, 10000) \in Nat
      BY <2>1, <2>2, ShareBounds DEF cost
    <3> QED
      BY <3>1 DEF cost
  <2>4. TakerPrice(base, side, qty, volume) = slipped + side * impact
    BY <1>4 DEF TakerPrice
  <2> HIDE DEF slipped, impact
  <2> QED
    BY <1>2, <2>3, <2>4 DEF Buy, Sell
<1> QED
  BY <1>3, <1>4

\* What a fill of the order's kind may be priced at.
PricedSoundly(n) ==
  LET f == toFill[n]
      o == orders[f.id].order
  IN  /\ o.kind \in PassiveKinds => o.side * f.price <= o.side * o.limit
      /\ o.kind = "Stop" => /\ o.side * f.price >= o.side * o.trigger
                            /\ o.side * f.price >= o.side * bar.open

\* The better of two prices is no worse than either, the worse no better.
LEMMA BetterWorse ==
  ASSUME NEW side \in {Buy, Sell}, NEW a \in Int, NEW b \in Int
  PROVE  /\ BetterOf(side, a, b) \in {a, b} /\ WorseOf(side, a, b) \in {a, b}
         /\ side * BetterOf(side, a, b) <= side * b
         /\ side * WorseOf(side, a, b) >= side * a
         /\ side * WorseOf(side, a, b) >= side * b
  BY DEF BetterOf, WorseOf, Buy, Sell

\* A working limit fills at its limit or better.
LEMMA WorkLimitPrice ==
  ASSUME NEW r \in OrderState, NEW b \in Bar, NEW ref \in Int,
         WorkLimit(r, b, ref).outcome = "fill"
  PROVE  r.order.side * WorkLimit(r, b, ref).price <= r.order.side * r.order.limit
<1>1. r.order.side \in {Buy, Sell} /\ r.order.limit \in Int
  <2>1. r.order \in HeldRequest
    BY DEF OrderState, HeldRequest
  <2> QED
    BY <2>1, HeldRequestType
<1>2. WorkLimit(r, b, ref).price = BetterOf(r.order.side, ref, r.order.limit)
  BY DEF WorkLimit, Fills, Cancels, Rests
<1> QED
  BY <1>1, <1>2, BetterWorse

\* The verdict's price honours the kind, before the costs of taking.
LEMMA EvaluatePrice ==
  ASSUME NEW r \in OrderState, NEW b \in Bar, Evaluate(r, b).outcome = "fill"
  PROVE  LET o == r.order
             p == Evaluate(r, b).price
         IN  /\ o.kind \in PassiveKinds => o.side * p <= o.side * o.limit
             /\ o.kind = "Stop" => /\ p \in {o.trigger, b.open}
                                   /\ o.side * p >= o.side * o.trigger
                                   /\ o.side * p >= o.side * b.open
<1> DEFINE o == r.order
<1>1. /\ o.side \in {Buy, Sell} /\ o.trigger \in Int /\ o.limit \in Int /\ b.open \in Int
  <2>1. o \in HeldRequest
    BY DEF OrderState, HeldRequest
  <2> QED
    BY <2>1, HeldRequestType DEF Bar
<1>2. ASSUME o.kind = "Limit" PROVE o.side * Evaluate(r, b).price <= o.side * o.limit
  <2>1. Evaluate(r, b) = WorkLimit(r, b, b.open)
    BY <1>2 DEF Evaluate
  <2> QED
    BY <1>1, <2>1, WorkLimitPrice
<1>3. ASSUME o.kind = "StopLimit" PROVE o.side * Evaluate(r, b).price <= o.side * o.limit
  <2> DEFINE a == [r EXCEPT !.armed = TRUE]
  <2>1. a \in OrderState /\ a.order = o
    BY DEF OrderState
  <2>2. Evaluate(r, b) = WorkStopLimit(r, b)
    BY <1>3 DEF Evaluate
  <2>3. \/ Evaluate(r, b) = WorkLimit(a, b, o.trigger)
        \/ Evaluate(r, b) = WorkLimit(r, b, b.open)
        \/ Evaluate(r, b) = Rests(r)
    BY <2>2 DEF WorkStopLimit
  <2>4. Evaluate(r, b) # Rests(r)
    BY DEF Rests
  <2> HIDE DEF a
  <2> QED
    BY <1>1, <2>1, <2>3, <2>4, WorkLimitPrice
<1>4. ASSUME o.kind = "Stop"
      PROVE  Evaluate(r, b).price = WorseOf(o.side, o.trigger, b.open)
  BY <1>4 DEF Evaluate, Fills, Rests
<1>5. o.kind \in PassiveKinds => o.kind = "Limit" \/ o.kind = "StopLimit"
  BY DEF PassiveKinds
<1> QED
  BY <1>1, <1>2, <1>3, <1>4, <1>5, BetterWorse

\* The fill a step stages is priced by the verdict and the costs.
LEMMA StageFillPrice ==
  ASSUME CostsAreAdverse, TypeOK, BookInv, OrderInv, NEW id \in Ids, StageFill(id)
  PROVE  LET o == orders[id].order
             p == toFill'[Len(toFill) + 1].price
         IN  /\ o.kind \in PassiveKinds => o.side * p <= o.side * o.limit
             /\ o.kind = "Stop" => /\ o.side * p >= o.side * o.trigger
                                   /\ o.side * p >= o.side * bar.open
<1> DEFINE o    == orders[id].order
           base == Verdict(id).price
           p    == ExecutionPrice(o, base, Want(id))
<1>1. /\ Working(id) /\ Verdict(id).outcome = "fill" /\ Want(id) > 0
      /\ toFill' = Append(toFill, [id |-> id, price |-> p, qty |-> Want(id),
                                   complete |-> Completes(id)])
  BY DEF StageFill, Clears
<1>2. toFill'[Len(toFill) + 1].price = p
  <2>1. toFill \in Seq(StagedFill)
    BY DEF TypeOK
  <2> QED
    BY <1>1, <2>1
<1>3. bar \in Bars /\ bar \in Bar /\ bar.open \in Int /\ bar.volume \in Int
      /\ orders[id] \in OrderState
  BY <1>1, ObservedBarType DEF Working, Reached, TypeOK, Bar
<1>4. /\ o.side \in {Buy, Sell} /\ o.trigger \in Int /\ o.limit \in Int
  <2>1. o \in HeldRequest
    BY <1>3 DEF OrderState, HeldRequest
  <2> QED
    BY <2>1, HeldRequestType
<1>5. o \in Requests
  <2>1. \E r, stage, rests : Turn(id, r, stage, rests)
    BY StageFillTurn
  <2>2. ledger[id].stage = "open"
    BY <2>1, TurnEffects
  <2> QED
    BY <2>2 DEF OrderInv, Placed
<1>6. Want(id) \in Nat
  BY <1>1, WantType
<1>7. base \in Int
  BY <1>1, VerdictType
<1>8. /\ o.kind \in PassiveKinds => o.side * base <= o.side * o.limit
      /\ o.kind = "Stop" => /\ base \in {o.trigger, bar.open}
                            /\ o.side * base >= o.side * o.trigger
                            /\ o.side * base >= o.side * bar.open
  BY <1>1, <1>3, EvaluatePrice DEF Verdict
<1>9. o.kind \in PassiveKinds => p = base
  BY DEF ExecutionPrice
<1>10. ASSUME o.kind = "Stop" PROVE o.side * p >= o.side * base /\ p \in Int
  <2>1. base \in Nat
    BY <1>3, <1>4, <1>5, <1>8, <1>10 DEF CostsAreAdverse
  <2>2. p = TakerPrice(base, o.side, Want(id), bar.volume)
    BY <1>10 DEF ExecutionPrice, PassiveKinds
  <2>3. p \in Int
    <3>1. base \in Int /\ o.side \in Int /\ Want(id) \in Int
      BY <1>4, <1>6, <2>1 DEF Buy, Sell
    <3> HIDE DEF p, base, o
    <3> QED
      BY <1>3, <2>2, <3>1, TakerPriceType
  <2> QED
    BY <1>3, <1>4, <1>6, <2>1, <2>2, <2>3, TakerPriceAdverse
<1>11. \A side \in {Buy, Sell} : \A x, y, z \in Int :
         side * x >= side * y /\ side * y >= side * z => side * x >= side * z
  BY DEF Buy, Sell
<1> HIDE DEF p, base, o
<1>12. /\ o.kind \in PassiveKinds => o.side * p <= o.side * o.limit
       /\ o.kind = "Stop" => /\ o.side * p >= o.side * o.trigger
                             /\ o.side * p >= o.side * bar.open
  BY <1>3, <1>4, <1>7, <1>8, <1>9, <1>10, <1>11
<1> QED
  BY <1>2, <1>12 DEF o

\* Every step keeps the fills staged priced as their orders' kinds allow.
LEMMA NextPrices ==
  ASSUME CostsAreAdverse, TypeOK, BookInv, OrderInv, FillPriceHonoursKind, [Next]_vars
  PROVE  FillPriceHonoursKind'
<1>1. FillPriceHonoursKind <=> \A n \in DOMAIN toFill : PricedSoundly(n)
  BY DEF FillPriceHonoursKind, PricedSoundly
<1>2. FillPriceHonoursKind' <=> \A n \in DOMAIN toFill' : PricedSoundly(n)'
  BY DEF FillPriceHonoursKind, PricedSoundly
<1>3. CASE Quiet
  BY <1>1, <1>2, <1>3 DEF Quiet, PricedSoundly
<1>4. ASSUME NEW b \in Bars, BeginObserve(b) PROVE FillPriceHonoursKind'
  <2>1. toFill' = << >>
    BY <1>4 DEF BeginObserve, BookInv
  <2> QED
    BY <1>2, <2>1
<1>5. ASSUME NEW id \in Ids, StageFill(id) PROVE FillPriceHonoursKind'
  <2>1. /\ UNCHANGED bar
        /\ \A other \in Ids : orders'[other].order = orders[other].order
    BY <1>5, StageFillTotals
  <2>2. PICK f \in StagedFill : StagedFillOf(id, f)
    BY <1>5, StageFillTotals
  <2>3. /\ DOMAIN toFill' = DOMAIN toFill \cup {Len(toFill) + 1}
        /\ \A n \in DOMAIN toFill : toFill'[n] = toFill[n]
        /\ toFill'[Len(toFill) + 1] = f
    <3>1. toFill \in Seq(StagedFill)
      BY DEF TypeOK
    <3> QED
      BY <2>2, <3>1 DEF StagedFillOf
  <2>4. ASSUME NEW n \in DOMAIN toFill PROVE PricedSoundly(n)'
    <3>1. toFill'[n] = toFill[n] /\ orders'[toFill[n].id].order = orders[toFill[n].id].order
      BY <2>1, <2>3, StagedTypes
    <3> QED
      BY <1>1, <2>1, <3>1 DEF PricedSoundly
  <2>5. PICK last : last = Len(toFill) + 1
    OBVIOUS
  <2>6. PricedSoundly(last)'
    <3>1. f.id = id /\ toFill'[last].id = id /\ orders'[id].order = orders[id].order
      BY <2>1, <2>2, <2>3, <2>5 DEF StagedFillOf
    <3> QED
      BY <1>5, <2>1, <2>5, <3>1, StageFillPrice DEF PricedSoundly
  <2> QED
    BY <1>2, <2>3, <2>4, <2>5, <2>6
<1>6. ASSUME EmitFill PROVE FillPriceHonoursKind'
  <2>1. /\ \A n \in DOMAIN toFill' : n + 1 \in DOMAIN toFill /\ toFill'[n] = toFill[n + 1]
        /\ UNCHANGED <<orders, bar>>
    BY <1>6, EmitEffects
  <2> QED
    BY <1>1, <1>2, <2>1 DEF PricedSoundly
<1>7. ASSUME FinishObserve PROVE FillPriceHonoursKind'
  <2>1. toFill' = << >>
    BY <1>7 DEF FinishObserve
  <2> QED
    BY <1>2, <2>1
<1> QED
  BY <1>3, <1>4, <1>5, <1>6, <1>7, StepKinds

\* A passive fill is never worse than its limit, nor a stop's better than its
\* trigger or the open that gapped past it, wherever costs are costs.
THEOREM FillsHonourKind == CostsAreAdverse => (Spec => []FillPriceHonoursKind)
<1> SUFFICES ASSUME CostsAreAdverse PROVE Spec => []FillPriceHonoursKind
  OBVIOUS
<1>1. Init => FillPriceHonoursKind
  BY DEF Init, FillPriceHonoursKind
<1>2. TypeOK /\ BookInv /\ OrderInv /\ FillPriceHonoursKind /\ [Next]_vars
        => FillPriceHonoursKind'
  BY NextPrices
<1> QED
  BY <1>1, <1>2, OrdersSound, PTL DEF Spec

-----------------------------------------------------------------------------
(* One cancels other *)

\* What has been executed of an order, or decided and not yet emitted.
Committed == [id \in Ids |-> ledger[id].executed + Owed(id)]

GroupSum(g) == SumFunctionOnSet(Committed, Members(g))

IsClaimed(g) == \E n \in DOMAIN claimed : claimed[n].group = g

\* A group is claimed once, by a leg the walk has dealt with, for what that
\* leg has filled.
ClaimsSound ==
  /\ \A m, n \in DOMAIN claimed : claimed[m].group = claimed[n].group => m = n
  /\ \A n \in DOMAIN claimed :
       LET c == claimed[n]
       IN  /\ c.group # 0 /\ orders[c.keeper].order.oco = c.group
           /\ c.keeper \notin Elements(pending)
           /\ orders[c.keeper].filled = c.filled
  /\ Idle => claimed = << >>

\* What a group has taken of its budget is written down in `filled` of every
\* leg that may still take more: of the legs still held until one of them
\* claims the group, and in the claim from then on.
Budgeted(g) ==
  /\ \E m \in Members(g) : GroupSum(g) <= orders[m].filled
  /\ \A h \in Elements(Held) :
       orders[h].order.oco = g => GroupSum(g) <= orders[h].filled \/ IsClaimed(g)
  /\ \A n \in DOMAIN claimed :
       claimed[n].group = g => GroupSum(g) <= claimed[n].filled

Timely(g) == Members(g) # {} /\ \A id \in Members(g) : ~ledger[id].late

OcoInv == ClaimsSound /\ \A g \in Nat \ {0} : Timely(g) => Budgeted(g)

\* What is committed of a placed order is a number, and a group's sum one too.
LEMMA GroupSumType ==
  ASSUME TypeOK, OrderInv
  PROVE  /\ IsFiniteSet(Ids) /\ Committed \in [Ids -> Int]
         /\ \A g : IsFiniteSet(Members(g)) /\ Members(g) \subseteq Ids /\ GroupSum(g) \in Int
<1>1. IsFiniteSet(Ids)
  BY ConstantsAssumption
<1>2. \A id \in Ids : Owed(id) \in Int
  <2>1. \A n \in DOMAIN toFill : toFill[n].qty \in Int
    BY StagedTypes
  <2> QED
    BY <2>1, OwedNow DEF IsStaged
<1>3. \A id \in Ids : ledger[id].executed \in Int
  BY DEF TypeOK, Ledger
<1>4. Committed \in [Ids -> Int]
  BY <1>2, <1>3 DEF Committed
<1>5. ASSUME NEW g PROVE IsFiniteSet(Members(g)) /\ Members(g) \subseteq Ids
  <2>1. Members(g) \subseteq Ids
    BY DEF Members
  <2> QED
    BY <1>1, <2>1, FS_Subset
<1>6. ASSUME NEW g PROVE GroupSum(g) \in Int
  BY <1>4, <1>5, SumType DEF GroupSum
<1> QED
  BY <1>1, <1>4, <1>5, <1>6

\* A leg is a member of its group from its acceptance on.
LEMMA HeldMember ==
  ASSUME TypeOK, BookInv, OrderInv, NEW id \in Elements(Held)
  PROVE  id \in Members(orders[id].order.oco)
  BY HeldOrder DEF Members

\* A claim's fields have their types.
LEMMA ClaimTypes ==
  ASSUME TypeOK, NEW n \in DOMAIN claimed
  PROVE  claimed[n].keeper \in Ids /\ claimed[n].group \in Nat /\ claimed[n].filled \in Int
<1>1. claimed \in Seq(Claim)
  BY DEF TypeOK
<1>2. claimed[n] \in Claim
  BY <1>1
<1> QED
  BY <1>2 DEF Claim

\* A step that places no order, fills none and claims no group.
OcoCalm ==
  /\ \A id \in Ids :
       /\ orders'[id].order = orders[id].order /\ orders'[id].filled = orders[id].filled
       /\ ledger'[id].late = ledger[id].late
       /\ ledger'[id].stage \in {"unused", "rejected"} <=> ledger[id].stage \in {"unused", "rejected"}
       /\ ledger'[id].executed + Owed(id)' = ledger[id].executed + Owed(id)
  /\ Elements(Held') \subseteq Elements(Held)
  /\ claimed' = claimed
  /\ claimed = << >> \/ (Elements(pending') \subseteq Elements(pending) /\ ~(Idle'))

\* It keeps the budget of every group.
LEMMA CalmOco ==
  ASSUME TypeOK, BookInv, OrderInv, OcoInv, OcoCalm
  PROVE  OcoInv'
<1>1. Committed' = Committed
  BY DEF OcoCalm, Committed
<1>2. \A g : Members(g)' = Members(g)
  BY DEF OcoCalm, Members
<1>3. \A g : GroupSum(g)' = GroupSum(g)
  BY <1>1, <1>2 DEF GroupSum
<1>4. \A n \in DOMAIN claimed : claimed[n].keeper \in Ids
  BY ClaimTypes
<1>5. ClaimsSound'
  BY <1>4 DEF OcoInv, ClaimsSound, OcoCalm
<1>6. ASSUME NEW g \in Nat \ {0}, Timely(g)' PROVE Budgeted(g)'
  <2>1. Timely(g)
    BY <1>2, <1>6 DEF Timely, OcoCalm, Members
  <2>2. Budgeted(g)
    BY <2>1 DEF OcoInv
  <2>3. \A m \in Members(g) : m \in Ids
    BY DEF Members
  <2>4. \A h \in Elements(Held') : h \in Elements(Held) /\ h \in Ids
    BY DEF OcoCalm, BookInv, OpenIds
  <2>5. \E m \in Members(g)' : GroupSum(g)' <= orders'[m].filled
    BY <1>2, <1>3, <2>2, <2>3 DEF Budgeted, OcoCalm
  <2>6. \A h \in Elements(Held') :
          orders'[h].order.oco = g => GroupSum(g)' <= orders'[h].filled \/ IsClaimed(g)'
    BY <1>3, <2>2, <2>4 DEF Budgeted, OcoCalm, IsClaimed
  <2>7. \A n \in DOMAIN claimed' : claimed'[n].group = g => GroupSum(g)' <= claimed'[n].filled
    BY <1>3, <2>2 DEF Budgeted, OcoCalm
  <2> QED
    BY <2>5, <2>6, <2>7 DEF Budgeted
<1> QED
  BY <1>5, <1>6 DEF OcoInv

\* The steps before the walk and on it that stage nothing are calm.
LEMMA WalkCalm ==
  ASSUME TypeOK, BookInv, OrderInv, OcoInv
  PROVE  /\ \A id \in Ids : Cancel(id) => OcoCalm
         /\ \A b \in Bars : BeginObserve(b) => OcoCalm
         /\ \A id \in Ids : SkipOtherInstrument(id) => OcoCalm
         /\ \A id \in Ids : AwaitLatency(id) => OcoCalm
         /\ \A id \in Ids : LeavesUnfilled(id) => OcoCalm
<1>1. ASSUME NEW id \in Ids, Cancel(id) PROVE OcoCalm
  <2>1. Idle /\ UNCHANGED <<bar, pending, toFill, orders, claimed>>
    BY <1>1 DEF Cancel, observing
  <2>2. pending = << >> /\ claimed = << >>
    BY <2>1 DEF BookInv, OcoInv, ClaimsSound
  <2>3. \A other : Owed(other)' = Owed(other)
    BY <2>1 DEF Owed
  <2>4. \A other \in Ids : /\ ledger'[other].late = ledger[other].late
                           /\ ledger'[other].executed = ledger[other].executed
                           /\ ledger'[other].stage \in {"unused", "rejected"}
                                <=> ledger[other].stage \in {"unused", "rejected"}
        /\ Elements(Held') \subseteq Elements(Held)
    <3>1. CASE id \in OnBook
      <4>1. /\ resting' = Keep(resting, Ids \ {id})
            /\ ledger' = [ledger EXCEPT ![id].stage = "closed"]
        BY <1>1, <3>1 DEF Cancel
      <4>2. Held = resting /\ Held' = resting' /\ Elements(resting') \subseteq Elements(resting)
        BY <2>1, <2>2, <4>1, KeptHeld DEF Held
      <4>3. ledger[id].stage = "open"
        BY <3>1, <4>2 DEF BookInv, OpenIds, OnBook, Elements
      <4> QED
        BY <4>1, <4>2, <4>3 DEF TypeOK, Ledger
    <3>2. CASE id \notin OnBook
      <4>1. UNCHANGED <<resting, ledger>>
        BY <1>1, <3>2 DEF Cancel
      <4> QED
        BY <2>1, <4>1 DEF Held
    <3> QED
      BY <3>1, <3>2
  <2> QED
    BY <2>1, <2>2, <2>3, <2>4 DEF OcoCalm
<1>2. ASSUME NEW b \in Bars, BeginObserve(b) PROVE OcoCalm
  <2>1. /\ Idle /\ pending' = resting /\ resting' = << >>
        /\ UNCHANGED <<orders, toFill, ledger, claimed>>
    BY <1>2 DEF BeginObserve
  <2>2. pending = << >> /\ claimed = << >> /\ resting \in Seq(Ids)
    BY <2>1 DEF BookInv, OcoInv, ClaimsSound, TypeOK
  <2>3. Held' = Held
    BY <2>1, <2>2 DEF Held
  <2>4. \A other : Owed(other)' = Owed(other)
    BY <2>1 DEF Owed
  <2> QED
    BY <2>1, <2>2, <2>3, <2>4 DEF OcoCalm
<1>3. ASSUME NEW id \in Ids, Reached(id), Leave(id, TRUE), UNCHANGED <<toFill, claimed, ledger>>,
             \A other \in Ids : /\ orders'[other].order = orders[other].order
                                /\ orders'[other].filled = orders[other].filled
      PROVE  OcoCalm
  <2>1. pending' = Tail(pending) /\ bar # None /\ bar' = bar
    BY <1>3 DEF Reached, Leave
  <2>2. Held' = Held /\ Elements(pending') \subseteq Elements(pending)
    BY <1>3, <2>1, LeaveHeld, ReachedPending
  <2>3. \A other : Owed(other)' = Owed(other)
    BY <1>3 DEF Owed
  <2> QED
    BY <1>3, <2>1, <2>2, <2>3 DEF OcoCalm, Idle
<1>4. ASSUME NEW id \in Ids, SkipOtherInstrument(id) PROVE OcoCalm
  BY <1>3, <1>4 DEF SkipOtherInstrument, NothingStaged
<1>5. ASSUME NEW id \in Ids, AwaitLatency(id) PROVE OcoCalm
  <2>1. /\ Reached(id) /\ Leave(id, TRUE) /\ UNCHANGED <<toFill, claimed, ledger>>
        /\ orders' = [orders EXCEPT ![id].activateIn = @ - 1]
    BY <1>5 DEF AwaitLatency, NothingStaged
  <2>2. \A other \in Ids : /\ orders'[other].order = orders[other].order
                           /\ orders'[other].filled = orders[other].filled
    BY <2>1 DEF TypeOK, OrderState
  <2> QED
    BY <1>3, <2>1, <2>2
<1>6. ASSUME NEW id \in Ids, LeavesUnfilled(id) PROVE OcoCalm
  <2>1. PICK r, stage, rests : Turn(id, r, stage, rests) /\ r.filled = orders[id].filled
    BY <1>6, UnfilledTurn
  <2>2. UNCHANGED <<toFill, claimed>>
    BY <1>6, UnfilledTurn DEF NothingStaged
  <2>3. /\ bar # None /\ bar' = bar /\ orders'[id] = r /\ r.order = orders[id].order
        /\ stage \in {"open", "closed"} /\ ledger[id].stage = "open"
        /\ ledger'[id].stage = stage /\ ledger'[id].executed = ledger[id].executed
        /\ ledger'[id].late = ledger[id].late
        /\ Elements(pending') \subseteq Elements(pending)
        /\ Elements(Held') \subseteq Elements(Held)
        /\ \A other \in Ids \ {id} : ledger'[other] = ledger[other]
                                     /\ orders'[other] = orders[other]
    BY <2>1, TurnEffects DEF Turn
  <2>4. \A other : Owed(other)' = Owed(other)
    BY <2>2 DEF Owed
  <2> QED
    BY <2>1, <2>2, <2>3, <2>4 DEF OcoCalm, Idle
<1> QED
  BY <1>1, <1>2, <1>4, <1>5, <1>6

\* Closing an order changes nothing else the ledger says of it.
LEMMA ClosedKeeps ==
  ASSUME TypeOK, NEW id \in Ids,
         \/ ledger'[id] = ledger[id]
         \/ /\ ledger[id].stage = "open"
            /\ ledger'[id] = [ledger[id] EXCEPT !.stage = "closed"]
  PROVE  /\ ledger'[id].late = ledger[id].late
         /\ ledger'[id].executed = ledger[id].executed
         /\ ledger'[id].stage \in {"unused", "rejected"}
              <=> ledger[id].stage \in {"unused", "rejected"}
<1>1. PICK now \in Ledger : now = ledger[id]
  BY DEF TypeOK
<1>2. CASE ledger'[id] = now
  BY <1>1, <1>2
<1>3. CASE now.stage = "open" /\ ledger'[id] = [now EXCEPT !.stage = "closed"]
  <2>1. /\ ledger'[id].late = now.late /\ ledger'[id].executed = now.executed
        /\ ledger'[id].stage = "closed"
    BY <1>3 DEF Ledger
  <2> QED
    BY <1>1, <1>3, <2>1
<1> QED
  BY <1>1, <1>2, <1>3

\* So are the steps after the walk but for the resolution of a claim.
LEMMA AfterwardsCalm ==
  ASSUME TypeOK, BookInv, OrderInv, TypeOK', OrderInv', OcoInv
  PROVE  /\ EmitFill => OcoCalm
         /\ FinishObserve => OcoCalm
         /\ TakeEvents \/ UNCHANGED vars => OcoCalm
<1>1. ASSUME EmitFill PROVE OcoCalm
  <2>1. PICK id \in Ids :
          /\ id = toFill[1].id /\ Owed(id) = toFill[1].qty /\ Owed(id)' = 0
          /\ \A other \in Ids \ {id} : Owed(other)' = Owed(other)
    BY <1>1, EmitFillOwed
  <2>2. /\ bar # None /\ 1 \in DOMAIN toFill
        /\ ledger'[id].executed = ledger[id].executed + toFill[1].qty
        /\ ledger'[id].stage = IF toFill[1].complete THEN "closed" ELSE ledger[id].stage
        /\ ledger'[id].late = ledger[id].late
        /\ \A other \in Ids \ {id} : ledger'[other] = ledger[other]
        /\ UNCHANGED <<resting, orders, bar, pending, claimed>>
    BY <1>1, <2>1, EmitEffects
  <2>3. ledger[id].stage \in {"open", "closed"} /\ toFill[1].qty \in Int
    BY <2>1, <2>2, StagedTypes DEF OrderInv, StagedSoundly
  <2>4. ledger[id].executed \in Int
    BY DEF TypeOK, Ledger
  <2>5. ledger'[id].executed + Owed(id)' = ledger[id].executed + Owed(id)
    BY <2>1, <2>2, <2>3, <2>4
  <2>6. Held' = Held
    BY <2>2 DEF Held
  <2> QED
    BY <2>1, <2>2, <2>3, <2>5, <2>6 DEF OcoCalm, Idle
<1>2. ASSUME FinishObserve PROVE OcoCalm
  <2>1. /\ pending = << >> /\ claimed = << >>
        /\ UNCHANGED <<pending, toFill, orders, claimed>>
    BY <1>2 DEF FinishObserve, Walked
  <2>2. \A other : Owed(other)' = Owed(other)
    BY <2>1 DEF Owed
  <2>3. \/ UNCHANGED <<resting, ledger>>
        \/ \E here : /\ resting' = Keep(resting, Ids \ here)
                     /\ ledger' = CloseAll(Keep(resting, here))
    BY <1>2 DEF FinishObserve, Liquidate
  <2>4. CASE UNCHANGED <<resting, ledger>>
    <3>1. Held' = Held
      BY <2>1, <2>4 DEF Held
    <3> QED
      BY <2>1, <2>2, <2>4, <3>1 DEF OcoCalm
  <2>5. ASSUME NEW here, resting' = Keep(resting, Ids \ here),
               ledger' = CloseAll(Keep(resting, here))
        PROVE  OcoCalm
    <3>1. Elements(Held') \subseteq Elements(Held)
      BY <2>1, <2>5, KeptHeld DEF Held
    <3>2. \A id \in Ids : \/ ledger'[id] = ledger[id]
                          \/ /\ ledger[id].stage = "open"
                             /\ ledger'[id] = [ledger[id] EXCEPT !.stage = "closed"]
      BY <2>1, <2>5, KeptHeld, CloseAllEffects
    <3>3. \A id \in Ids : /\ ledger'[id].late = ledger[id].late
                          /\ ledger'[id].executed = ledger[id].executed
                          /\ ledger'[id].stage \in {"unused", "rejected"}
                               <=> ledger[id].stage \in {"unused", "rejected"}
      BY <3>2, ClosedKeeps
    <3> QED
      BY <2>1, <2>2, <3>1, <3>3 DEF OcoCalm
  <2> QED
    BY <2>3, <2>4, <2>5
<1>3. ASSUME TakeEvents \/ UNCHANGED vars PROVE OcoCalm
  <2>1. UNCHANGED <<resting, pending, orders, ledger, toFill, bar, claimed>>
    BY <1>3 DEF TakeEvents, vars, observing
  <2>2. Held' = Held /\ \A other : Owed(other)' = Owed(other)
    BY <2>1 DEF Held, Owed
  <2>3. claimed = << >> \/ ~(Idle')
    BY <2>1 DEF OcoInv, ClaimsSound, Idle
  <2> QED
    BY <2>1, <2>2, <2>3 DEF OcoCalm
<1> QED
  BY <1>1, <1>2, <1>3

\* A staged fill takes no more than is left to its group, and claims it.
LEMMA StageFillOco ==
  ASSUME TypeOK, BookInv, OrderInv, TypeOK', OrderInv', OcoInv, NEW id \in Ids, StageFill(id)
  PROVE  OcoInv'
<1>1. PICK r, stage, rests :
        Turn(id, r, stage, rests) /\ r.filled = orders[id].filled + Want(id)
  BY StageFillTurn
<1>2. Clears(id) /\ Want(id) > 0 /\ Want(id) \in Int /\ orders[id].filled \in Int
  BY StageFillTurn, WantType
<1>3. /\ bar # None /\ bar' = bar /\ orders'[id] = r /\ r.order = orders[id].order
      /\ id \in Elements(pending) /\ id \in Elements(Held)
      /\ stage \in {"open", "closed"} /\ ledger[id].stage = "open"
      /\ ledger'[id].stage = stage /\ ledger'[id].executed = ledger[id].executed
      /\ ledger'[id].late = ledger[id].late
      /\ Elements(pending') = Elements(pending) \ {id}
      /\ Elements(Held') \subseteq Elements(Held)
      /\ \A other \in Ids \ {id} : ledger'[other] = ledger[other]
                                   /\ orders'[other] = orders[other]
  BY <1>1, TurnEffects DEF Turn
<1>4. /\ Owed(id) = 0 /\ Owed(id)' = Want(id)
      /\ \A other \in Ids \ {id} : Owed(other)' = Owed(other)
  BY StageFillOwed
<1>5. ledger[id].executed \in Int
  BY DEF TypeOK, Ledger
<1>6. /\ Committed'[id] = Committed[id] + Want(id)
      /\ \A other \in Ids \ {id} : Committed'[other] = Committed[other]
  BY <1>2, <1>3, <1>4, <1>5 DEF Committed
<1>7. \A g : Members(g)' = Members(g)
  BY <1>3 DEF Members
<1> DEFINE group == orders[id].order.oco
<1>8. group # 0 => ~IsClaimed(group)
  BY <1>2, <1>3 DEF Clears, IsClaimedByOther, IsClaimed, OcoInv, ClaimsSound
<1>9. \/ claimed' = claimed /\ group = 0
      \/ \E c \in Claim : /\ claimed' = Append(claimed, c) /\ group # 0
                          /\ c.group = group /\ c.keeper = id /\ c.filled = r.filled
  <2>1. claimed' = ClaimAfter(id)
    BY DEF StageFill
  <2>2. CASE group = 0
    BY <2>1, <2>2 DEF ClaimAfter
  <2>3. CASE group # 0
    <3> DEFINE c == [group |-> group, keeper |-> id,
                     filled |-> orders[id].filled + Want(id), complete |-> Completes(id)]
    <3>1. claimed' = Append(claimed, c)
      BY <1>8, <2>1, <2>3 DEF ClaimAfter, IsClaimed
    <3>2. claimed \in Seq(Claim) /\ claimed' \in Seq(Claim)
      BY DEF TypeOK
    <3>3. c.group = group /\ c.keeper = id /\ c.filled = r.filled
      BY <1>1
    <3>4. c \in Claim
      <4>1. claimed'[Len(claimed) + 1] = c /\ Len(claimed') = Len(claimed) + 1
        BY <3>1, <3>2
      <4> HIDE DEF c
      <4> QED
        BY <3>2, <4>1
    <3> HIDE DEF c
    <3> QED
      BY <2>3, <3>1, <3>3, <3>4
  <2> QED
    BY <2>2, <2>3
<1> HIDE DEF group
<1>10. PICK g0 : g0 = group
  OBVIOUS
<1>11. \A n \in DOMAIN claimed : n \in DOMAIN claimed' /\ claimed'[n] = claimed[n]
  <2>1. claimed \in Seq(Claim)
    BY DEF TypeOK
  <2> QED
    BY <1>9, <2>1
<1>12. \A n \in DOMAIN claimed' :
         \/ n \in DOMAIN claimed
         \/ /\ g0 # 0 /\ n = Len(claimed) + 1
            /\ claimed'[n].group = g0 /\ claimed'[n].keeper = id
            /\ claimed'[n].filled = r.filled
  <2>1. claimed \in Seq(Claim)
    BY DEF TypeOK
  <2> QED
    BY <1>9, <1>10, <2>1
<1>13. g0 # 0 => IsClaimed(g0)'
  <2>1. claimed \in Seq(Claim)
    BY DEF TypeOK
  <2>2. ASSUME g0 # 0
        PROVE  Len(claimed) + 1 \in DOMAIN claimed' /\ claimed'[Len(claimed) + 1].group = g0
    BY <1>9, <1>10, <2>1, <2>2
  <2> QED
    BY <2>2 DEF IsClaimed
<1>14. g0 # 0 => \A n \in DOMAIN claimed : claimed[n].group # g0
  BY <1>8, <1>10 DEF IsClaimed
<1>15. ClaimsSound'
  <2>1. \A m, n \in DOMAIN claimed' : claimed'[m].group = claimed'[n].group => m = n
    BY <1>11, <1>12, <1>14 DEF OcoInv, ClaimsSound
  <2>2. ASSUME NEW n \in DOMAIN claimed'
        PROVE  LET c == claimed'[n]
               IN  /\ c.group # 0 /\ orders'[c.keeper].order.oco = c.group
                   /\ c.keeper \notin Elements(pending')
                   /\ orders'[c.keeper].filled = c.filled
    <3>1. CASE n \in DOMAIN claimed
      <4>1. /\ claimed[n].group # 0 /\ claimed[n].keeper \in Ids
            /\ orders[claimed[n].keeper].order.oco = claimed[n].group
            /\ claimed[n].keeper \notin Elements(pending)
            /\ orders[claimed[n].keeper].filled = claimed[n].filled
        BY <3>1, ClaimTypes DEF OcoInv, ClaimsSound
      <4>2. claimed[n].keeper # id
        BY <1>3, <4>1
      <4> QED
        BY <1>3, <1>11, <3>1, <4>1, <4>2
    <3>2. CASE n \notin DOMAIN claimed
      BY <1>3, <1>10, <1>12, <3>2 DEF group
    <3> QED
      BY <3>1, <3>2
  <2>3. ~(Idle')
    BY <1>3 DEF Idle
  <2> QED
    BY <2>1, <2>2, <2>3 DEF ClaimsSound
<1>16. \A g : /\ IsFiniteSet(Members(g)) /\ Members(g) \subseteq Ids
              /\ GroupSum(g) \in Int /\ GroupSum(g)' \in Int
              /\ \A m \in Members(g) : Committed[m] \in Int /\ Committed'[m] \in Int
  <2>1. Committed \in [Ids -> Int]
    BY GroupSumType
  <2>2. \A m \in Ids : Committed[m] \in Int /\ Committed'[m] \in Int
    BY <1>2, <1>6, <2>1
  <2>3. \A g : IsFiniteSet(Members(g)) /\ Members(g) \subseteq Ids /\ GroupSum(g) \in Int
    BY GroupSumType
  <2>4. ASSUME NEW g PROVE GroupSum(g)' \in Int
    <3>1. GroupSum(g)' = SumFunctionOnSet(Committed', Members(g))
      BY <1>7 DEF GroupSum
    <3> QED
      BY <2>2, <2>3, <3>1, SumType
  <2> QED
    BY <2>2, <2>3, <2>4
<1>17. ASSUME NEW g \in Nat \ {0}, Timely(g)' PROVE Budgeted(g)'
  <2>1. Timely(g) /\ Budgeted(g)
    BY <1>3, <1>7, <1>17 DEF Timely, Members, OcoInv
  <2>2. \A h \in Elements(Held') : h \in Elements(Held) /\ h \in Ids
    BY <1>3 DEF BookInv, OpenIds
  <2>3. CASE g # g0
    <3>1. id \notin Members(g)
      BY <1>10, <2>3 DEF Members, group
    <3>2. GroupSum(g)' = GroupSum(g)
      <4>1. \A m \in Members(g) : Committed'[m] = Committed[m]
        BY <1>6, <1>16, <3>1
      <4> QED
        BY <1>7, <1>16, <4>1, SumSame DEF GroupSum
    <3>3. PICK m \in Members(g) : GroupSum(g) <= orders[m].filled
      BY <2>1 DEF Budgeted
    <3>4. m \in Members(g)' /\ GroupSum(g)' <= orders'[m].filled
      BY <1>3, <1>7, <1>16, <3>1, <3>2, <3>3
    <3>5. ASSUME NEW h \in Elements(Held'), orders'[h].order.oco = g
          PROVE  GroupSum(g)' <= orders'[h].filled \/ IsClaimed(g)'
      <4>1. h # id
        BY <1>3, <1>10, <2>3, <3>5 DEF group
      <4>2. GroupSum(g) <= orders[h].filled \/ IsClaimed(g)
        BY <1>3, <2>1, <2>2, <3>5, <4>1 DEF Budgeted
      <4>3. IsClaimed(g) => IsClaimed(g)'
        BY <1>11 DEF IsClaimed
      <4> QED
        BY <1>3, <2>2, <3>2, <4>1, <4>2, <4>3
    <3>6. \A n \in DOMAIN claimed' : claimed'[n].group = g => GroupSum(g)' <= claimed'[n].filled
      BY <1>11, <1>12, <2>1, <2>3, <3>2 DEF Budgeted
    <3> QED
      BY <3>4, <3>5, <3>6 DEF Budgeted
  <2>4. CASE g = g0
    <3>1. id \in Members(g)
      BY <1>3, <1>10, <2>4 DEF Members, group
    <3>2. GroupSum(g)' = GroupSum(g) + Want(id)
      <4>1. \A m \in Members(g) \ {id} : Committed'[m] = Committed[m]
        BY <1>6, <1>16
      <4>2. GroupSum(g)' = SumFunctionOnSet(Committed', Members(g))
        BY <1>7 DEF GroupSum
      <4>3. GroupSum(g)' = GroupSum(g) - Committed[id] + Committed'[id]
        BY <1>16, <3>1, <4>1, <4>2, SumChange DEF GroupSum
      <4>4. Committed[id] \in Int
        BY <1>16, <3>1
      <4> QED
        BY <1>2, <1>6, <1>16, <4>3, <4>4
    <3>3. GroupSum(g) <= orders[id].filled
      BY <1>3, <1>10, <1>14, <2>1, <2>4 DEF Budgeted, IsClaimed, group
    <3>4. GroupSum(g)' <= r.filled
      BY <1>1, <1>2, <1>16, <3>2, <3>3
    <3>5. id \in Members(g)' /\ GroupSum(g)' <= orders'[id].filled
      BY <1>3, <1>7, <3>1, <3>4
    <3>6. \A h \in Elements(Held') :
            orders'[h].order.oco = g => GroupSum(g)' <= orders'[h].filled \/ IsClaimed(g)'
      BY <1>13, <2>4
    <3>7. \A n \in DOMAIN claimed' : claimed'[n].group = g => GroupSum(g)' <= claimed'[n].filled
      BY <1>11, <1>12, <1>14, <2>4, <3>4
    <3> QED
      BY <3>5, <3>6, <3>7 DEF Budgeted
  <2> QED
    BY <2>3, <2>4
<1> QED
  BY <1>15, <1>17 DEF OcoInv

\* An order placed before its group has executed starts with the whole of the
\* budget; one placed after is not timely.
LEMMA SubmitOco ==
  ASSUME TypeOK, BookInv, OrderInv, TypeOK', OrderInv', OcoInv,
         NEW id \in Ids, NEW o \in Requests, Submit(id, o)
  PROVE  OcoInv'
<1>1. /\ Idle /\ ledger[id].stage = "unused"
      /\ UNCHANGED <<bar, pending, toFill, claimed>>
  BY DEF Submit, NextId, observing
<1>2. toFill = << >> /\ claimed = << >> /\ pending = << >> /\ resting \in Seq(Ids)
  BY <1>1 DEF BookInv, OcoInv, ClaimsSound, TypeOK
<1>3. orders[id] = NoOrderState /\ ledger[id].executed = 0
  BY <1>1 DEF OrderInv, Placed
<1>4. \A other \in Ids : Owed(other)' = Owed(other) /\ Owed(other) = 0
  <2>1. \A other : ~IsStaged(other)
    BY <1>2 DEF IsStaged
  <2> QED
    BY <1>1, <2>1, OwedNow DEF Owed
<1>5. CASE Refuses(o)
  <2>1. /\ ledger' = [ledger EXCEPT ![id].stage = "rejected"] /\ UNCHANGED <<resting, orders>>
    BY <1>5 DEF Submit
  <2>2. \A other \in Ids : /\ ledger'[other].late = ledger[other].late
                           /\ ledger'[other].executed = ledger[other].executed
                           /\ ledger'[other].stage \in {"unused", "rejected"}
                                <=> ledger[other].stage \in {"unused", "rejected"}
    BY <1>1, <2>1 DEF TypeOK, Ledger
  <2>3. Held' = Held
    BY <1>1, <2>1 DEF Held
  <2>4. OcoCalm
    BY <1>1, <1>2, <1>4, <2>1, <2>2, <2>3 DEF OcoCalm
  <2> QED
    BY <2>4, CalmOco
<1>6. CASE ~Refuses(o)
  <2> DEFINE new == [NoOrderState EXCEPT !.order = o, !.activateIn = LatencyBars]
  <2>1. /\ resting' = Append(resting, id)
        /\ orders' = [orders EXCEPT ![id] = new]
        /\ ledger' = [ledger EXCEPT ![id].stage = "open",
                                    ![id].placedAt = seen[o.instrument],
                                    ![id].late = GroupHasExecuted(o.oco)]
    BY <1>6 DEF Submit
  <2>2. new.order = o /\ new.filled = 0
    BY DEF NoOrderState
  <2> HIDE DEF new
  <2>3. /\ ledger'[id].stage = "open" /\ ledger'[id].executed = 0
        /\ ledger'[id].late = GroupHasExecuted(o.oco)
        /\ \A other \in Ids \ {id} : ledger'[other] = ledger[other]
    <3>1. ledger[id] \in Ledger /\ ledger \in [Ids -> Ledger]
      BY DEF TypeOK
    <3>2. /\ ledger'[id] = [ledger[id] EXCEPT !.stage = "open",
                                              !.placedAt = seen[o.instrument],
                                              !.late = GroupHasExecuted(o.oco)]
          /\ \A other \in Ids \ {id} : ledger'[other] = ledger[other]
      BY <2>1, <3>1
    <3> QED
      BY <1>3, <3>1, <3>2 DEF Ledger
  <2>4. /\ orders'[id].order = o /\ orders'[id].filled = 0
        /\ \A other \in Ids \ {id} : orders'[other] = orders[other]
    BY <2>1, <2>2 DEF TypeOK
  <2>5. Elements(Held') = Elements(Held) \cup {id}
    <3>1. Held = resting /\ Held' = Append(resting, id)
      BY <1>1, <1>2, <2>1 DEF Held
    <3> QED
      BY <1>2, <3>1, AppendElements
  <2>6. ClaimsSound'
    BY <1>1, <1>2 DEF ClaimsSound
  <2>7. Committed' = Committed
    BY <1>3, <1>4, <2>3 DEF Committed
  <2>8. ASSUME NEW g \in Nat \ {0}, Timely(g)' PROVE Budgeted(g)'
    <3>1. CASE g # o.oco
      <4>1. Members(g)' = Members(g) /\ id \notin Members(g)
        BY <1>1, <2>3, <2>4, <3>1 DEF Members
      <4>2. Timely(g)
        BY <2>3, <2>8, <4>1 DEF Timely, Members
      <4>3. Budgeted(g)
        BY <4>2 DEF OcoInv
      <4>4. GroupSum(g)' = GroupSum(g)
        BY <2>7, <4>1 DEF GroupSum
      <4>5. \E m \in Members(g)' : GroupSum(g)' <= orders'[m].filled
        <5>1. PICK m \in Members(g) : GroupSum(g) <= orders[m].filled
          BY <4>3 DEF Budgeted
        <5>2. m \in Ids \ {id}
          BY <4>1 DEF Members
        <5> QED
          BY <2>4, <4>1, <4>4, <5>1, <5>2
      <4>6. ASSUME NEW h \in Elements(Held'), orders'[h].order.oco = g
            PROVE  GroupSum(g)' <= orders'[h].filled \/ IsClaimed(g)'
        <5>1. h # id
          BY <2>4, <3>1, <4>6
        <5>2. h \in Elements(Held) /\ h \in Ids
          BY <2>5, <5>1 DEF BookInv, OpenIds
        <5> QED
          BY <1>1, <2>4, <4>3, <4>4, <4>6, <5>1, <5>2 DEF Budgeted, IsClaimed
      <4> QED
        BY <1>1, <1>2, <4>5, <4>6 DEF Budgeted
    <3>2. CASE g = o.oco
      <4>1. id \in Members(g)'
        BY <2>3, <2>4, <3>2 DEF Members
      <4>2. ~GroupHasExecuted(g)
        BY <2>3, <2>8, <3>2, <4>1 DEF Timely
      <4>3. \A m \in Members(g)' : Committed'[m] = 0
        <5> SUFFICES ASSUME NEW m \in Ids, m \in Members(g)' PROVE Committed[m] = 0
          BY <2>7 DEF Members
        <5>1. m = id \/ orders[m].order.oco = g
          BY <2>4 DEF Members
        <5>2. ledger[m].executed \in Int /\ Bounded(m)
          BY DEF TypeOK, Ledger, OrderInv
        <5>3. ledger[m].executed = 0
          BY <1>3, <4>2, <5>1, <5>2 DEF GroupHasExecuted, Bounded
        <5> QED
          BY <1>4, <5>3 DEF Committed
      <4>4. IsFiniteSet(Members(g)')
        <5>1. Members(g)' \subseteq Ids
          BY DEF Members
        <5> QED
          BY <5>1, ConstantsAssumption, FS_Subset
      <4>5. GroupSum(g)' = 0
        BY <4>3, <4>4, SumZero DEF GroupSum
      <4>6. \A h \in Elements(Held') : 0 <= orders'[h].filled
        <5> SUFFICES ASSUME NEW h \in Elements(Held') PROVE 0 <= orders'[h].filled
          OBVIOUS
        <5>1. h \in Ids
          BY <2>5 DEF BookInv, OpenIds
        <5>2. Bounded(h)' /\ ledger'[h].executed \in Int /\ orders'[h].filled \in Int
          BY <5>1 DEF OrderInv, TypeOK, Ledger, OrderState
        <5> QED
          BY <5>2 DEF Bounded
      <4>7. GroupSum(g)' <= orders'[id].filled
        BY <2>4, <4>5
      <4> QED
        BY <1>1, <1>2, <4>1, <4>5, <4>6, <4>7 DEF Budgeted
    <3> QED
      BY <3>1, <3>2
  <2> QED
    BY <2>6, <2>8 DEF OcoInv
<1> QED
  BY <1>5, <1>6

\* A claim resolved reduces the legs still held to what it has taken.
LEMMA ResolveOcoOco ==
  ASSUME TypeOK, BookInv, OrderInv, OcoInv, ResolveOco
  PROVE  OcoInv'
<1> DEFINE c        == Head(claimed)
           siblings == {id \in Ids \ {c.keeper} : orders[id].order.oco = c.group}
           losers   == {id \in siblings : c.complete \/ orders[id].order.qty <= c.filled}
<1>1. /\ bar # None /\ pending = << >> /\ toFill = << >> /\ claimed # << >>
      /\ resting' = Keep(resting, Ids \ losers)
      /\ orders' = [id \in Ids |->
              IF id \in OnBook \cap (siblings \ losers)
              THEN [orders[id] EXCEPT !.filled = Greater(orders[id].filled, c.filled)]
              ELSE orders[id]]
      /\ ledger' = CloseAll(Keep(resting, losers))
      /\ claimed' = Tail(claimed)
      /\ UNCHANGED <<bar, pending, toFill>>
  BY DEF ResolveOco, Walked
<1>2. /\ 1 \in DOMAIN claimed /\ c = claimed[1] /\ c.filled \in Int /\ c.keeper \in Ids
      /\ \A n \in DOMAIN claimed' : n + 1 \in DOMAIN claimed /\ n + 1 # 1
                                    /\ claimed'[n] = claimed[n + 1]
      /\ \A n \in DOMAIN claimed : n = 1 \/ (n - 1 \in DOMAIN claimed' /\ n - 1 + 1 = n)
      /\ DOMAIN claimed \subseteq Nat /\ DOMAIN claimed' \subseteq Nat
  <2>1. claimed \in Seq(Claim) /\ claimed # << >> /\ claimed' = Tail(claimed)
    BY <1>1 DEF TypeOK
  <2>2. /\ 1 \in DOMAIN claimed /\ c = claimed[1]
        /\ \A n \in DOMAIN claimed' : n + 1 \in DOMAIN claimed /\ n + 1 # 1
                                      /\ claimed'[n] = claimed[n + 1]
        /\ \A n \in DOMAIN claimed : n = 1 \/ (n - 1 \in DOMAIN claimed' /\ n - 1 + 1 = n)
        /\ DOMAIN claimed \subseteq Nat /\ DOMAIN claimed' \subseteq Nat
    BY <2>1
  <2> QED
    BY <2>2, ClaimTypes
<1>3. \A id \in Ids :
        /\ orders'[id].order = orders[id].order
        /\ orders[id].filled \in Int /\ orders'[id].filled \in Int
        /\ orders[id].filled <= orders'[id].filled
        /\ id \in OnBook \cap (siblings \ losers) => c.filled <= orders'[id].filled
        /\ orders[id].order.oco # c.group \/ id = c.keeper => orders'[id].filled = orders[id].filled
  <2> SUFFICES ASSUME NEW id \in Ids
               PROVE  /\ orders'[id].order = orders[id].order
                      /\ orders[id].filled \in Int /\ orders'[id].filled \in Int
                      /\ orders[id].filled <= orders'[id].filled
                      /\ id \in OnBook \cap (siblings \ losers) => c.filled <= orders'[id].filled
                      /\ orders[id].order.oco # c.group \/ id = c.keeper
                           => orders'[id].filled = orders[id].filled
    OBVIOUS
  <2>1. orders[id] \in OrderState /\ orders[id].filled \in Int
    BY DEF TypeOK, OrderState
  <2>2. CASE id \in OnBook \cap (siblings \ losers)
    <3>1. PICK most \in Int : /\ most = Greater(orders[id].filled, c.filled)
                              /\ orders[id].filled <= most /\ c.filled <= most
      BY <1>2, <2>1 DEF Greater
    <3>2. orders'[id] = [orders[id] EXCEPT !.filled = most]
      BY <1>1, <2>2, <3>1
    <3>3. orders'[id].order = orders[id].order /\ orders'[id].filled = most
      BY <2>1, <3>2 DEF OrderState
    <3> QED
      BY <2>1, <2>2, <3>1, <3>3
  <2>3. CASE id \notin OnBook \cap (siblings \ losers)
    <3>1. orders'[id] = orders[id]
      BY <1>1, <2>3
    <3> QED
      BY <2>1, <2>3, <3>1
  <2> QED
    BY <2>2, <2>3
<1>4. /\ Elements(Held') = Elements(Held) \cap (Ids \ losers)
      /\ \A h \in Elements(Held') : h \in OnBook /\ h \in Ids
      /\ \A id \in Ids : \/ ledger'[id] = ledger[id]
                         \/ /\ ledger[id].stage = "open"
                            /\ ledger'[id] = [ledger[id] EXCEPT !.stage = "closed"]
  <2>1. Held = resting /\ Elements(Held') = Elements(resting) \cap (Ids \ losers)
    BY <1>1, KeptHeld DEF Held
  <2>2. \A id \in Ids : \/ ledger'[id] = ledger[id]
                        \/ /\ ledger[id].stage = "open"
                           /\ ledger'[id] = [ledger[id] EXCEPT !.stage = "closed"]
    BY <1>1, KeptHeld, CloseAllEffects
  <2> QED
    BY <2>1, <2>2 DEF OnBook, Elements
<1>5. PICK taken : taken = c
  OBVIOUS
<1>6. \A h \in Elements(Held') :
        orders[h].order.oco = taken.group =>
          h = taken.keeper \/ taken.filled <= orders'[h].filled
  BY <1>3, <1>4, <1>5
<1>7. \A id \in Ids :
        orders[id].order.oco # taken.group \/ id = taken.keeper => orders'[id].filled = orders[id].filled
  BY <1>3, <1>5
<1>8. taken = claimed[1] /\ taken.filled \in Int /\ taken.keeper \in Ids
  BY <1>2, <1>5
<1> HIDE DEF c, siblings, losers
<1>9. \A id \in Ids : /\ ledger'[id].late = ledger[id].late
                      /\ ledger'[id].executed = ledger[id].executed
                      /\ ledger'[id].stage \in {"unused", "rejected"}
                           <=> ledger[id].stage \in {"unused", "rejected"}
  BY <1>4, ClosedKeeps
<1>10. \A g : Members(g)' = Members(g)
  BY <1>3, <1>9 DEF Members
<1>11. \A g : GroupSum(g)' = GroupSum(g)
  <2>1. \A other : Owed(other)' = Owed(other)
    BY <1>1 DEF Owed
  <2>2. Committed' = Committed
    BY <1>9, <2>1 DEF Committed
  <2> QED
    BY <1>10, <2>2 DEF GroupSum
<1>12. \A n \in DOMAIN claimed' : claimed'[n].group # taken.group
  BY <1>2, <1>8 DEF OcoInv, ClaimsSound
<1>13. ClaimsSound'
  <2>1. \A m, n \in DOMAIN claimed' : claimed'[m].group = claimed'[n].group => m = n
    <3> SUFFICES ASSUME NEW m \in DOMAIN claimed', NEW n \in DOMAIN claimed',
                        claimed'[m].group = claimed'[n].group
                 PROVE  m = n
      OBVIOUS
    <3>1. m + 1 = n + 1
      BY <1>2 DEF OcoInv, ClaimsSound
    <3> QED
      BY <1>2, <3>1
  <2>2. ASSUME NEW n \in DOMAIN claimed'
        PROVE  LET d == claimed'[n]
               IN  /\ d.group # 0 /\ orders'[d.keeper].order.oco = d.group
                   /\ d.keeper \notin Elements(pending')
                   /\ orders'[d.keeper].filled = d.filled
    <3>1. PICK d : d = claimed'[n]
      OBVIOUS
    <3>2. /\ d.group # 0 /\ d.keeper \in Ids
          /\ orders[d.keeper].order.oco = d.group
          /\ d.keeper \notin Elements(pending)
          /\ orders[d.keeper].filled = d.filled
      BY <1>2, <3>1, ClaimTypes DEF OcoInv, ClaimsSound
    <3>3. d.group # taken.group
      BY <1>12, <3>1
    <3> QED
      BY <1>1, <1>3, <1>7, <3>1, <3>2, <3>3
  <2>3. ~(Idle')
    BY <1>1 DEF Idle
  <2> QED
    BY <2>1, <2>2, <2>3 DEF ClaimsSound
<1>14. ASSUME NEW g \in Nat \ {0}, Timely(g)' PROVE Budgeted(g)'
  <2>1. Timely(g)
    <3>1. Members(g) # {} /\ \A id \in Members(g) : ~ledger'[id].late
      BY <1>10, <1>14 DEF Timely
    <3>2. Members(g) \subseteq Ids
      BY DEF Members
    <3> QED
      BY <1>9, <3>1, <3>2 DEF Timely
  <2>2. Budgeted(g) /\ GroupSum(g) \in Int
    BY <2>1, GroupSumType DEF OcoInv
  <2>3. \E m \in Members(g)' : GroupSum(g)' <= orders'[m].filled
    <3>1. PICK m \in Members(g) : GroupSum(g) <= orders[m].filled
      BY <2>2 DEF Budgeted
    <3>2. m \in Ids
      BY DEF Members
    <3>3. orders[m].filled \in Int /\ orders'[m].filled \in Int
          /\ orders[m].filled <= orders'[m].filled
      BY <1>3, <3>2
    <3>4. GroupSum(g) <= orders'[m].filled
      BY <2>2, <3>1, <3>3
    <3> QED
      BY <1>10, <1>11, <3>4
  <2>4. ASSUME NEW h \in Elements(Held'), orders'[h].order.oco = g
        PROVE  GroupSum(g)' <= orders'[h].filled \/ IsClaimed(g)'
    <3>1. h \in Ids /\ h \in Elements(Held) /\ orders[h].order.oco = g
      BY <1>3, <1>4, <2>4
    <3>2. orders[h].filled \in Int /\ orders'[h].filled \in Int
          /\ orders[h].filled <= orders'[h].filled
      BY <1>3, <3>1
    <3>3. CASE g = taken.group
      <4>1. GroupSum(g) <= taken.filled
        BY <1>2, <1>8, <2>2, <3>3 DEF Budgeted
      <4>2. h = taken.keeper => orders[h].filled = taken.filled
        BY <1>2, <1>8 DEF OcoInv, ClaimsSound
      <4>3. taken.filled <= orders'[h].filled
        BY <1>6, <1>7, <1>8, <2>4, <3>1, <3>2, <3>3, <4>2
      <4> QED
        BY <1>8, <1>11, <2>2, <3>2, <4>1, <4>3
    <3>4. CASE g # taken.group
      <4>1. GroupSum(g) <= orders[h].filled \/ IsClaimed(g)
        BY <2>2, <3>1 DEF Budgeted
      <4>2. IsClaimed(g) => IsClaimed(g)'
        <5> SUFFICES ASSUME NEW n \in DOMAIN claimed, claimed[n].group = g
                     PROVE  IsClaimed(g)'
          BY DEF IsClaimed
        <5>1. n # 1
          BY <1>8, <3>4
        <5>2. n - 1 \in DOMAIN claimed' /\ claimed'[n - 1] = claimed[n]
          BY <1>2, <5>1
        <5> QED
          BY <5>2 DEF IsClaimed
      <4>3. GroupSum(g) <= orders[h].filled => GroupSum(g) <= orders'[h].filled
        BY <2>2, <3>2
      <4> QED
        BY <1>11, <4>1, <4>2, <4>3
    <3> QED
      BY <3>3, <3>4
  <2>5. \A n \in DOMAIN claimed' : claimed'[n].group = g => GroupSum(g)' <= claimed'[n].filled
    BY <1>2, <1>11, <2>2 DEF Budgeted
  <2> QED
    BY <2>3, <2>4, <2>5 DEF Budgeted
<1> QED
  BY <1>13, <1>14 DEF OcoInv

\* Every step keeps the groups within their budgets.
LEMMA NextOco ==
  ASSUME TypeOK, BookInv, OrderInv, OcoInv, TypeOK', OrderInv', [Next]_vars
  PROVE  OcoInv'
<1>1. CASE sink = << >> /\ Calls
  BY <1>1, SubmitOco, WalkCalm, CalmOco DEF Calls
<1>2. ASSUME NEW id \in Ids, Match(id) PROVE OcoInv'
  BY <1>2, WalkCalm, CalmOco, StageFillOco DEF Match, LeavesUnfilled
<1>3. CASE EmitFill \/ FinishObserve \/ TakeEvents \/ UNCHANGED vars
  BY <1>3, AfterwardsCalm, CalmOco
<1>4. CASE ResolveOco
  BY <1>4, ResolveOcoOco
<1> QED
  BY <1>1, <1>2, <1>3, <1>4 DEF Next, Observing

\* Every group stays within its budget.
LEMMA OcoSound == Spec => []OcoInv
<1>1. Init => OcoInv
  <2> SUFFICES ASSUME Init PROVE OcoInv
    OBVIOUS
  <2>1. claimed = << >>
    BY DEF Init
  <2>2. \A g : Members(g) = {}
    BY DEF Init, Members
  <2> QED
    BY <2>1, <2>2 DEF OcoInv, ClaimsSound, Timely
<1>2. TypeOK /\ BookInv /\ OrderInv /\ OcoInv /\ TypeOK' /\ OrderInv' /\ [Next]_vars => OcoInv'
  BY NextOco
<1> QED
  BY <1>1, <1>2, OrdersSound, PTL DEF Spec

\* One cancels other: the legs of a group placed before any of them executed
\* never execute more between them than the largest leg.
THEOREM OcoWithinBudget == Spec => []OcoBudget
<1>1. TypeOK /\ BookInv /\ OrderInv /\ OcoInv => OcoBudget
  <2> SUFFICES ASSUME TypeOK, BookInv, OrderInv, OcoInv,
                      NEW g \in {orders[id].order.oco : id \in Ids} \ {0},
                      \A id \in Members(g) : ~ledger[id].late
               PROVE  \E largest \in Members(g) :
                        SumFunctionOnSet([id \in Ids |-> ledger[id].executed], Members(g))
                          <= orders[largest].order.qty
    BY DEF OcoBudget
  <2> DEFINE executed == [id \in Ids |-> ledger[id].executed]
  <2>1. PICK leg \in Ids : orders[leg].order.oco = g
    OBVIOUS
  <2>2. leg \in Members(g)
    <3>1. NoOrderState.order.oco = 0
      BY DEF NoOrderState, NoOrder
    <3>2. orders[leg] # NoOrderState
      BY <2>1, <3>1
    <3> QED
      BY <2>1, <3>2 DEF Members, OrderInv, Placed
  <2>3. g \in Nat \ {0}
    <3>1. orders[leg].order \in HeldRequest
      BY DEF TypeOK, OrderState, HeldRequest
    <3> QED
      BY <2>1, <3>1, HeldRequestType
  <2>4. PICK m \in Members(g) : GroupSum(g) <= orders[m].filled
    BY <2>2, <2>3 DEF Timely, OcoInv, Budgeted
  <2>5. /\ IsFiniteSet(Members(g)) /\ Members(g) \subseteq Ids /\ GroupSum(g) \in Int
        /\ Committed \in [Ids -> Int]
    BY GroupSumType
  <2>6. \A id \in Ids : executed[id] \in Int /\ executed[id] <= Committed[id]
    <3> SUFFICES ASSUME NEW id \in Ids
                 PROVE  ledger[id].executed \in Int /\ ledger[id].executed <= Committed[id]
      OBVIOUS
    <3>1. ledger[id].executed \in Int
      BY DEF TypeOK, Ledger
    <3>2. Owed(id) \in Int /\ Owed(id) >= 0
      BY OwedNow, StagedTypes DEF IsStaged, OrderInv, StagedSoundly
    <3> QED
      BY <3>1, <3>2 DEF Committed
  <2> HIDE DEF executed
  <2>7. SumFunctionOnSet(executed, Members(g)) <= GroupSum(g)
    BY <2>5, <2>6, SumMonotone DEF GroupSum
  <2>8. SumFunctionOnSet(executed, Members(g)) \in Int
    BY <2>5, <2>6, SumType
  <2>9. m \in Ids /\ orders[m].filled \in Int /\ orders[m].order.qty \in Int
        /\ orders[m].filled <= orders[m].order.qty
    <3>1. m \in Ids /\ ledger[m].stage \in {"open", "closed"}
      BY DEF Members, TypeOK, Ledger
    <3>2. orders[m].order \in HeldRequest /\ orders[m].filled \in Int
      BY <3>1 DEF TypeOK, OrderState, HeldRequest
    <3>3. orders[m].order.qty \in Int /\ orders[m].order.qty > 0 /\ Bounded(m)
      BY <3>1, <3>2, HeldRequestType DEF OrderInv, Placed
    <3> QED
      BY <3>1, <3>2, <3>3 DEF Bounded, Greater
  <2> QED
    BY <2>4, <2>5, <2>7, <2>8, <2>9 DEF executed
<1> QED
  BY <1>1, OrdersSound, OcoSound, PTL DEF Spec

-----------------------------------------------------------------------------
(* The cash guard *)

\* Where the guard can keep its promise: nothing but fills moves the cash (no
\* funding, no liquidation), costs take no more than the whole of a sale,
\* prices are not negative, and what a buy may cost is known when it is
\* placed, because it rests at a limit.  A taker is charged what its bar
\* asks, which the reserve at an earlier mark does not bound.
PassiveBuys ==
  /\ Perps = {} /\ LiquidationBps = None
  /\ FeeBps \in 0..10000 /\ SlippageBps \in 0..10000 /\ ImpactBps \in 0..10000
  /\ StartingCash # None => StartingCash >= 0
  /\ \A b \in Bars : b.low >= 0
  /\ \A o \in Requests : /\ o.limit >= 0 /\ o.trigger >= 0
                         /\ o.side = Buy => o.kind \in PassiveKinds

\* What a buy of `qty` at `price` costs, fee included.
CostAt(price, qty) == Notional(price, qty) + Fee(price, qty)

\* The product of two natural numbers is one.
LEMMA NatTimes == \A n, m \in Nat : n * m \in Nat
  OBVIOUS

\* Truncation favours one fill over two: charged together, parts of a whole
\* are charged no less than one by one.
LEMMA FeeParts ==
  ASSUME PassiveBuys, NEW a \in Nat, NEW b \in Nat, NEW c \in Nat, a + b <= c
  PROVE  /\ MulBps(a, FeeBps) \in Nat /\ MulBps(b, FeeBps) \in Nat /\ MulBps(c, FeeBps) \in Nat
         /\ MulBps(a, FeeBps) + MulBps(b, FeeBps) <= MulBps(c, FeeBps)
         /\ MulBps(a, FeeBps) <= a
<1>1. PICK f : f = FeeBps
  OBVIOUS
<1>2. f \in Nat /\ f <= 10000
  BY <1>1 DEF PassiveBuys
<1>3. a * f \in Nat /\ b * f \in Nat /\ c * f \in Nat
  BY <1>2, NatTimes
<1>4. a * f + b * f <= c * f
  <2> DEFINE d == c - (a + b)
  <2>1. d \in Nat /\ c = a + b + d
    OBVIOUS
  <2> HIDE DEF d
  <2>2. d * f \in Nat
    BY <1>2, <2>1, NatTimes
  <2>3. c * f = a * f + b * f + d * f
    BY <1>2, <2>1
  <2> QED
    BY <1>3, <2>2, <2>3
<1>5. /\ MulBps(a, FeeBps) = (a * f) \div 10000
      /\ MulBps(b, FeeBps) = (b * f) \div 10000
      /\ MulBps(c, FeeBps) = (c * f) \div 10000
  BY <1>1, <1>3 DEF MulBps, TruncDiv
<1>6. MulBps(a, FeeBps) <= a
  <2>1. TruncDiv(a * f, 10000) <= a
    BY <1>2, ShareBounds
  <2> QED
    BY <1>1, <2>1 DEF MulBps
<1>7. \A x, y, z \in Nat : x + y <= z => /\ x \div 10000 \in Nat /\ y \div 10000 \in Nat
                                         /\ z \div 10000 \in Nat
                                         /\ x \div 10000 + y \div 10000 <= z \div 10000
  OBVIOUS
<1>8. PICK x, y, z \in Nat : x = a * f /\ y = b * f /\ z = c * f
  BY <1>3
<1>9. x + y <= z
  BY <1>4, <1>8
<1> QED
  BY <1>5, <1>6, <1>7, <1>8, <1>9

\* A part filled at the limit or better costs no more than what it takes off
\* the reserve.
LEMMA CostFalls ==
  ASSUME PassiveBuys, NEW limit \in Nat, NEW price \in Nat, price <= limit,
         NEW qty \in Nat, NEW left \in Nat
  PROVE  /\ CostAt(price, qty) \in Nat /\ CostAt(limit, left) \in Nat
         /\ CostAt(limit, qty + left) \in Nat
         /\ CostAt(price, qty) + CostAt(limit, left) <= CostAt(limit, qty + left)
         /\ Fee(price, qty) <= Notional(price, qty) /\ Notional(price, qty) \in Nat
<1> DEFINE a == price * qty
           b == limit * left
           c == limit * (qty + left)
<1>1. a \in Nat /\ b \in Nat /\ c \in Nat
  BY NatTimes
<1>2. a + b <= c
  <2>1. (limit - price) * qty \in Nat
    <3>1. limit - price \in Nat
      OBVIOUS
    <3> QED
      BY <3>1, NatTimes
  <2>2. limit * qty = price * qty + (limit - price) * qty
    OBVIOUS
  <2>3. limit * (qty + left) = limit * qty + limit * left
    OBVIOUS
  <2>4. limit * qty \in Nat
    BY NatTimes
  <2> QED
    BY <1>1, <2>1, <2>2, <2>3, <2>4
<1>3. /\ Notional(price, qty) = a /\ Notional(limit, left) = b
      /\ Notional(limit, qty + left) = c
  BY DEF Notional
<1> HIDE DEF a, b, c
<1>4. /\ MulBps(a, FeeBps) \in Nat /\ MulBps(b, FeeBps) \in Nat /\ MulBps(c, FeeBps) \in Nat
      /\ MulBps(a, FeeBps) + MulBps(b, FeeBps) <= MulBps(c, FeeBps)
      /\ MulBps(a, FeeBps) <= a
  BY <1>1, <1>2, FeeParts
<1> QED
  BY <1>1, <1>2, <1>3, <1>4 DEF CostAt, Fee

\* A seller at the market receives a price that is not negative.
LEMMA SalePrice ==
  ASSUME PassiveBuys, NEW base \in Nat, NEW qty \in Nat, NEW volume \in Int
  PROVE  TakerPrice(base, Sell, qty, volume) \in Nat
<1> DEFINE slip    == MulBps(base, SlippageBps)
           slipped == Slipped(base, Sell)
           share   == Lesser((qty * 10000) \div volume, 10000)
           taken   == MulBps(slipped, ImpactBps)
           impact  == TruncDiv(taken * share, 10000)
<1>1. SlippageBps \in Nat /\ SlippageBps <= 10000 /\ ImpactBps \in Nat /\ ImpactBps <= 10000
  BY DEF PassiveBuys
<1>2. slip \in Nat /\ slip <= base
  BY <1>1, ShareBounds DEF MulBps
<1>3. slipped \in Nat
  <2>1. slipped = base + Sell * slip
    BY DEF Slipped
  <2> HIDE DEF slip
  <2> QED
    BY <1>2, <2>1 DEF Sell
<1>4. CASE ImpactBps = 0 \/ volume <= 0 \/ qty <= 0
  <2>1. TakerPrice(base, Sell, qty, volume) = slipped
    BY <1>4 DEF TakerPrice
  <2> QED
    BY <1>3, <2>1
<1>5. CASE ~(ImpactBps = 0 \/ volume <= 0 \/ qty <= 0)
  <2>1. share \in Nat /\ share <= 10000
    <3>1. (qty * 10000) \div volume \in Nat
      <4>1. qty * 10000 \in Nat /\ volume \in Nat \ {0}
        BY <1>5
      <4> QED
        BY <4>1
    <3> QED
      BY <3>1 DEF Lesser
  <2>2. TakerPrice(base, Sell, qty, volume) = slipped + Sell * impact
    BY <1>5 DEF TakerPrice
  <2> HIDE DEF slipped, share
  <2>3. taken \in Nat /\ taken <= slipped
    BY <1>1, <1>3, ShareBounds DEF MulBps
  <2>4. impact \in Nat /\ impact <= taken
    <3>1. PICK t, k \in Nat : t = taken /\ k = share /\ k <= 10000
      BY <2>1, <2>3
    <3>2. impact = TruncDiv(t * k, 10000)
      BY <3>1
    <3> HIDE DEF impact
    <3> QED
      BY <3>1, <3>2, ShareBounds
  <2> HIDE DEF taken
  <2> HIDE DEF impact
  <2> QED
    BY <1>3, <2>2, <2>3, <2>4 DEF Sell
<1> QED
  BY <1>4, <1>5

\* What fills under those conditions trades at a price that is not negative.
LEMMA VerdictNonNegative ==
  ASSUME PassiveBuys, NEW r \in OrderState, r.order \in Requests, NEW b \in Bars,
         Evaluate(r, b).outcome = "fill"
  PROVE  Evaluate(r, b).price \in Nat
<1> DEFINE o == r.order
<1>1. /\ o.side \in {Buy, Sell} /\ o.trigger \in Nat /\ o.limit \in Nat
      /\ o.kind \in OrderKinds
  <2>1. o \in HeldRequest
    BY ConstantsAssumption DEF HeldRequest
  <2>2. o.trigger >= 0 /\ o.limit >= 0
    BY DEF PassiveBuys
  <2> HIDE DEF o
  <2> QED
    BY <2>1, <2>2, HeldRequestType
<1>2. b \in Bar /\ b.open \in Nat /\ b.low \in Nat
  BY ConstantsAssumption DEF PassiveBuys, Bar
<1>3. Evaluate(r, b).price \in Int
  BY <1>2, EvaluateType DEF Judgement
<1>4. \A ref \in Nat : \A s \in OrderState :
        s.order = o /\ WorkLimit(s, b, ref).outcome = "fill" => WorkLimit(s, b, ref).price \in Nat
  <2> SUFFICES ASSUME NEW ref \in Nat, NEW s \in OrderState, s.order = o,
                      WorkLimit(s, b, ref).outcome = "fill"
               PROVE  WorkLimit(s, b, ref).price \in Nat
    OBVIOUS
  <2>1. WorkLimit(s, b, ref).price = BetterOf(o.side, ref, o.limit)
    BY DEF WorkLimit, Fills, Cancels, Rests
  <2> QED
    BY <1>1, <2>1 DEF BetterOf
<1>5. CASE o.kind = "Market"
  BY <1>2, <1>5 DEF Evaluate, Fills
<1>6. CASE o.kind = "Limit"
  <2>1. Evaluate(r, b) = WorkLimit(r, b, b.open)
    BY <1>6 DEF Evaluate
  <2> QED
    BY <1>2, <1>4, <2>1
<1>7. CASE o.kind = "Stop"
  <2>1. Evaluate(r, b).price = WorseOf(o.side, o.trigger, b.open)
    BY <1>7 DEF Evaluate, Fills, Rests
  <2> QED
    BY <1>1, <1>2, <2>1 DEF WorseOf
<1>8. CASE o.kind = "StopLimit"
  <2> DEFINE a == [r EXCEPT !.armed = TRUE]
  <2>1. a \in OrderState /\ a.order = o
    BY DEF OrderState
  <2>2. Evaluate(r, b) = WorkStopLimit(r, b)
    BY <1>8 DEF Evaluate
  <2>3. \/ Evaluate(r, b) = WorkLimit(a, b, o.trigger)
        \/ Evaluate(r, b) = WorkLimit(r, b, b.open)
        \/ Evaluate(r, b) = Rests(r)
    BY <2>2 DEF WorkStopLimit
  <2>4. Evaluate(r, b) # Rests(r)
    BY DEF Rests
  <2> HIDE DEF a
  <2> QED
    BY <1>1, <1>2, <1>4, <2>1, <2>3, <2>4
<1>9. CASE o.kind = "MarketIfTouched"
  <2>1. Evaluate(r, b).price = o.trigger
    BY <1>9 DEF Evaluate, Fills, Rests
  <2> QED
    BY <1>1, <2>1
<1>10. CASE o.kind = "TrailingStop"
  <2>1. o.side = Sell
    BY <1>1, <1>10 DEF PassiveBuys, PassiveKinds
  <2>2. Evaluate(r, b) = WorkTrailing(r, b)
    BY <1>10 DEF Evaluate
  <2>3. PICK trigger : trigger = TrailTrigger(o.side, o.trail, BestSeen(o.side, r.trailRef, b))
    OBVIOUS
  <2>4. StopTriggered(o.side, trigger, b) /\ Evaluate(r, b).price = trigger
    BY <2>2, <2>3 DEF WorkTrailing, Fills, Rests
  <2>5. b.low <= trigger
    BY <2>1, <2>4 DEF StopTriggered, Buy, Sell
  <2> QED
    BY <1>2, <1>3, <2>4, <2>5
<1> QED
  BY <1>1, <1>5, <1>6, <1>7, <1>8, <1>9, <1>10 DEF OrderKinds, PassiveKinds, ConditionalKinds

\* So the fill a step stages has a price that is not negative, at most the
\* limit for a buy.
LEMMA StagedPrice ==
  ASSUME PassiveBuys, TypeOK, BookInv, OrderInv, NEW id \in Ids, StageFill(id)
  PROVE  LET o == orders[id].order
             p == toFill'[Len(toFill) + 1].price
         IN  /\ o \in Requests /\ o.side \in {Buy, Sell} /\ o.limit \in Nat
             /\ p \in Nat /\ (o.side = Buy => p <= o.limit)
<1> DEFINE o    == orders[id].order
           base == Verdict(id).price
           p    == ExecutionPrice(o, base, Want(id))
<1>1. /\ Working(id) /\ Verdict(id).outcome = "fill" /\ Want(id) > 0
      /\ toFill' = Append(toFill, [id |-> id, price |-> p, qty |-> Want(id),
                                   complete |-> Completes(id)])
  BY DEF StageFill, Clears
<1>2. toFill'[Len(toFill) + 1].price = p
  <2>1. toFill \in Seq(StagedFill)
    BY DEF TypeOK
  <2> QED
    BY <1>1, <2>1
<1>3. bar \in Bars /\ bar \in Bar /\ bar.volume \in Int /\ orders[id] \in OrderState
  BY <1>1, ObservedBarType DEF Working, Reached, TypeOK
<1>4. o \in Requests
  <2>1. \E r, stage, rests : Turn(id, r, stage, rests)
    BY StageFillTurn
  <2>2. ledger[id].stage = "open"
    BY <2>1, TurnEffects
  <2> QED
    BY <2>2 DEF OrderInv, Placed
<1>5. o.side \in {Buy, Sell} /\ o.limit \in Nat
  <2>1. o \in HeldRequest
    BY <1>4, ConstantsAssumption DEF HeldRequest
  <2>2. o.limit >= 0
    BY <1>4 DEF PassiveBuys
  <2> HIDE DEF o
  <2> QED
    BY <2>1, <2>2, HeldRequestType
<1>6. base \in Nat
  BY <1>1, <1>3, <1>4, VerdictNonNegative DEF Verdict
<1>7. Want(id) \in Nat
  BY <1>1, WantType
<1>8. o.kind \in PassiveKinds => o.side * base <= o.side * o.limit /\ p = base
  BY <1>1, <1>3, EvaluatePrice DEF Verdict, ExecutionPrice
<1>9. o.kind \notin PassiveKinds => o.side = Sell /\ p \in Nat
  <2> SUFFICES ASSUME o.kind \notin PassiveKinds PROVE o.side = Sell /\ p \in Nat
    OBVIOUS
  <2>1. o.side = Sell
    BY <1>4, <1>5 DEF PassiveBuys
  <2>2. p = TakerPrice(base, Sell, Want(id), bar.volume)
    BY <2>1 DEF ExecutionPrice
  <2> HIDE DEF p, base, o
  <2> QED
    BY <1>3, <1>6, <1>7, <2>1, <2>2, SalePrice
<1>10. p \in Nat /\ (o.side = Buy => p <= o.limit)
  <2> HIDE DEF p, base, o
  <2>1. CASE o.kind \in PassiveKinds
    BY <1>5, <1>6, <1>8, <2>1 DEF Buy
  <2>2. CASE o.kind \notin PassiveKinds
    BY <1>9, <2>2 DEF Buy, Sell
  <2> QED
    BY <2>1, <2>2
<1> QED
  BY <1>2, <1>4, <1>5, <1>10

\* What a resting order sets aside: the cost of what is left of a buy.
SetAsideFor(r) ==
  IF r.order.side = Buy THEN CostAt(r.order.limit, r.order.qty - r.filled) ELSE 0

\* What the orders held set aside, and what the fills staged will cost.
SetAside == [id \in Ids |-> IF id \in Elements(Held) THEN SetAsideFor(orders[id]) ELSE 0]
DueFor(f) == IF orders[f.id].order.side = Buy THEN CostAt(f.price, f.qty) ELSE 0
DueNext  == [n \in 1..Len(toFill) |-> DueFor(toFill[n])]
Spoken   == SumFunctionOnSet(SetAside, Ids) + SumFunctionOnSet(DueNext, 1..Len(toFill))

\* The cash covers both, so no order of the steps of a bar overdraws it.
CashInv ==
  /\ cash # None => Spoken <= cash
  /\ \A n \in DOMAIN toFill : toFill[n].price \in Nat

\* What an order sets aside is a number that falls as it fills.
LEMMA SetAsideFalls ==
  ASSUME PassiveBuys, NEW r, NEW s, r.order \in Requests, s.order = r.order,
         r.filled \in Nat, s.filled \in Nat, r.filled <= s.filled, s.filled <= r.order.qty
  PROVE  SetAsideFor(r) \in Nat /\ SetAsideFor(s) \in Nat /\ SetAsideFor(s) <= SetAsideFor(r)
<1> DEFINE limit == r.order.limit
           qty   == s.filled - r.filled
           left  == r.order.qty - s.filled
<1>1. limit \in Nat /\ r.order.qty \in Int
  <2>1. r.order \in HeldRequest
    BY ConstantsAssumption DEF HeldRequest
  <2>2. r.order.limit >= 0
    BY DEF PassiveBuys
  <2> QED
    BY <2>1, <2>2, HeldRequestType
<1>2. qty \in Nat /\ left \in Nat /\ r.order.qty - r.filled = qty + left
  BY <1>1
<1> HIDE DEF limit, qty, left
<1>3. /\ CostAt(limit, qty) \in Nat /\ CostAt(limit, left) \in Nat
      /\ CostAt(limit, qty + left) \in Nat
      /\ CostAt(limit, qty) + CostAt(limit, left) <= CostAt(limit, qty + left)
  <2>1. limit <= limit
    BY <1>1
  <2> QED
    BY <1>1, <1>2, <2>1, CostFalls
<1>4. CostAt(limit, left) <= CostAt(limit, qty + left)
  BY <1>3
<1>5. /\ SetAsideFor(r) = IF r.order.side = Buy THEN CostAt(limit, qty + left) ELSE 0
      /\ SetAsideFor(s) = IF r.order.side = Buy THEN CostAt(limit, left) ELSE 0
  BY <1>2 DEF SetAsideFor, limit, left
<1> QED
  BY <1>3, <1>4, <1>5

\* The filled quantity of an order placed is between nothing and all of it.
LEMMA PlacedFilled ==
  ASSUME TypeOK, OrderInv, NEW id \in Ids, ledger[id].stage \in {"open", "closed"}
  PROVE  /\ orders[id].order \in Requests /\ orders[id].filled \in Nat
         /\ orders[id].order.qty \in Int /\ orders[id].filled <= orders[id].order.qty
<1>1. /\ orders[id].order \in Requests /\ orders[id].order.qty > 0
      /\ 0 <= ledger[id].executed /\ ledger[id].executed <= orders[id].filled
      /\ orders[id].filled <= Greater(orders[id].order.qty, 0)
  BY DEF OrderInv, Placed, Bounded
<1>2. orders[id].filled \in Int /\ ledger[id].executed \in Int /\ orders[id].order \in HeldRequest
  BY DEF TypeOK, OrderState, Ledger, HeldRequest
<1>3. orders[id].order.qty \in Int
  BY <1>2, HeldRequestType
<1> QED
  BY <1>1, <1>2, <1>3 DEF Greater

\* What a staged fill is due is a number, and so is the sum of all.
LEMMA DueTypes ==
  ASSUME PassiveBuys, TypeOK, OrderInv, \A n \in DOMAIN toFill : toFill[n].price \in Nat
  PROVE  /\ \A n \in 1..Len(toFill) : DueNext[n] \in Nat
         /\ SumFunctionOnSet(DueNext, 1..Len(toFill)) \in Int
<1>1. DOMAIN toFill = 1..Len(toFill) /\ Len(toFill) \in Nat
  BY DEF TypeOK
<1>2. ASSUME NEW n \in 1..Len(toFill) PROVE DueNext[n] \in Nat
  <2>1. toFill[n].qty \in Nat /\ toFill[n].price \in Nat
    BY <1>1, StagedTypes DEF OrderInv, StagedSoundly
  <2>2. CostAt(toFill[n].price, toFill[n].qty) \in Nat
    <3>1. PICK price \in Nat : price = toFill[n].price /\ price <= price
      BY <2>1
    <3>2. 0 \in Nat
      OBVIOUS
    <3> QED
      BY <2>1, <3>1, <3>2, CostFalls
  <2> QED
    BY <2>2 DEF DueNext, DueFor
<1>3. IsFiniteSet(1..Len(toFill))
  BY <1>1, FS_Interval
<1> QED
  BY <1>2, <1>3, SumType

\* A step that places no order and moves neither cash nor the fills staged
\* frees cash or leaves it as it was.
LEMMA CashKept ==
  ASSUME PassiveBuys, TypeOK, BookInv, OrderInv, CashInv, TypeOK', OrderInv',
         UNCHANGED <<cash, toFill>>,
         \A id \in Ids : orders'[id].order = orders[id].order,
         Elements(Held') \subseteq Elements(Held),
         \A id \in Elements(Held') : orders[id].filled <= orders'[id].filled
  PROVE  CashInv'
<1>1. Elements(Held) \subseteq Ids /\ \A id \in Elements(Held) : ledger[id].stage = "open"
  BY DEF BookInv, OpenIds
<1>2. ASSUME NEW id \in Elements(Held)
      PROVE  /\ id \in Ids /\ orders[id].order \in Requests /\ orders[id].filled \in Nat
             /\ orders[id].order.qty \in Int /\ orders[id].order.qty > 0
             /\ orders[id].filled <= orders[id].order.qty
  BY <1>1, PlacedFilled DEF OrderInv, Placed
<1>3. ASSUME NEW id \in Elements(Held')
      PROVE  /\ SetAsideFor(orders[id]) \in Nat /\ SetAsideFor(orders'[id]) \in Nat
             /\ SetAsideFor(orders'[id]) <= SetAsideFor(orders[id])
  <2>1. id \in Ids /\ orders'[id].order = orders[id].order
    BY <1>2
  <2>2. orders'[id].filled \in Int
    BY <2>1 DEF TypeOK, OrderState
  <2>3. orders'[id].filled <= Greater(orders[id].order.qty, 0)
    BY <2>1 DEF OrderInv, Bounded
  <2>4. orders'[id].filled \in Nat /\ orders'[id].filled <= orders[id].order.qty
    BY <1>2, <2>2, <2>3 DEF Greater
  <2> QED
    BY <1>2, <2>1, <2>4, SetAsideFalls
<1>4. ASSUME NEW id \in Elements(Held) PROVE SetAsideFor(orders[id]) \in Nat
  <2>1. orders[id].filled <= orders[id].filled
    BY <1>2
  <2> QED
    BY <1>2, <2>1, SetAsideFalls
<1>5. \A id \in Ids : /\ SetAside[id] \in Int /\ (SetAside')[id] \in Int
                      /\ (SetAside')[id] <= SetAside[id]
  BY <1>3, <1>4 DEF SetAside
<1>6. /\ SumFunctionOnSet(SetAside', Ids) \in Int /\ SumFunctionOnSet(SetAside, Ids) \in Int
      /\ SumFunctionOnSet(SetAside', Ids) <= SumFunctionOnSet(SetAside, Ids)
  BY <1>5, ConstantsAssumption, SumType, SumMonotone
<1>7. \A n \in 1..Len(toFill) : toFill[n].id \in Ids
  <2>1. DOMAIN toFill = 1..Len(toFill)
    BY DEF TypeOK
  <2> QED
    BY <2>1, StagedTypes
<1>8. DueNext' = DueNext
  BY <1>7 DEF DueNext, DueFor
<1>9. SumFunctionOnSet(DueNext, 1..Len(toFill)) \in Int
  BY DueTypes DEF CashInv
<1> QED
  BY <1>6, <1>8, <1>9 DEF CashInv, Spoken, TypeOK

\* The steps on which nothing is placed, staged, emitted or reduced.
LEMMA CalmCash ==
  ASSUME PassiveBuys, TypeOK, BookInv, OrderInv, OcoInv, CashInv, TypeOK', OrderInv',
         \/ \E id \in Ids : Cancel(id)
         \/ \E b \in Bars : BeginObserve(b)
         \/ \E id \in Ids : \/ SkipOtherInstrument(id) \/ AwaitLatency(id)
                            \/ LeavesUnfilled(id)
         \/ FinishObserve \/ TakeEvents \/ UNCHANGED vars
  PROVE  CashInv'
<1>1. OcoCalm
  BY WalkCalm, AfterwardsCalm
<1>2. UNCHANGED <<cash, toFill>>
  <2>1. ASSUME NEW id \in Ids, Cancel(id) PROVE UNCHANGED <<cash, toFill>>
    BY <2>1 DEF Cancel, observing
  <2>2. ASSUME NEW b \in Bars, BeginObserve(b) PROVE UNCHANGED <<cash, toFill>>
    BY <2>2 DEF BeginObserve
  <2>3. ASSUME NEW id \in Ids, SkipOtherInstrument(id) \/ AwaitLatency(id)
        PROVE  UNCHANGED <<cash, toFill>>
    BY <2>3 DEF SkipOtherInstrument, AwaitLatency, Leave, NothingStaged
  <2>4. ASSUME NEW id \in Ids, LeavesUnfilled(id) PROVE UNCHANGED <<cash, toFill>>
    <3>1. PICK r, stage, rests : Turn(id, r, stage, rests)
      BY <2>4, UnfilledTurn
    <3> QED
      BY <2>4, <3>1, UnfilledTurn DEF Turn, Leave, NothingStaged
  <2>5. ASSUME FinishObserve PROVE UNCHANGED <<cash, toFill>>
    <3>1. ~FundingIsDue /\ ~IsLiquidated
      BY DEF PassiveBuys, FundingIsDue, IsLiquidated
    <3>2. cash' = IF cash = None THEN None ELSE cash - 0
      BY <2>5, <3>1 DEF FinishObserve
    <3> QED
      BY <2>5, <3>2 DEF FinishObserve, TypeOK
  <2>6. ASSUME TakeEvents \/ UNCHANGED vars PROVE UNCHANGED <<cash, toFill>>
    BY <2>6 DEF TakeEvents, vars, observing
  <2> QED
    BY <2>1, <2>2, <2>3, <2>4, <2>5, <2>6
<1>3. \A id \in Ids : orders'[id].order = orders[id].order /\ orders'[id].filled = orders[id].filled
  BY <1>1 DEF OcoCalm
<1>4. Elements(Held') \subseteq Elements(Held) /\ Elements(Held) \subseteq Ids
  BY <1>1 DEF OcoCalm, BookInv, OpenIds
<1>5. \A id \in Ids : orders[id].filled \in Int
  BY DEF TypeOK, OrderState
<1>6. \A id \in Elements(Held') : orders[id].filled <= orders'[id].filled
  BY <1>3, <1>4, <1>5
<1> QED
  BY <1>2, <1>3, <1>4, <1>6, CashKept

\* The legs of a claimed group set less aside once they are reduced.
LEMMA ResolveCash ==
  ASSUME PassiveBuys, TypeOK, BookInv, OrderInv, CashInv, TypeOK', OrderInv', ResolveOco
  PROVE  CashInv'
<1> DEFINE c        == Head(claimed)
           siblings == {id \in Ids \ {c.keeper} : orders[id].order.oco = c.group}
           losers   == {id \in siblings : c.complete \/ orders[id].order.qty <= c.filled}
<1>1. /\ pending = << >> /\ claimed # << >>
      /\ resting' = Keep(resting, Ids \ losers)
      /\ orders' = [id \in Ids |->
              IF id \in OnBook \cap (siblings \ losers)
              THEN [orders[id] EXCEPT !.filled = Greater(orders[id].filled, c.filled)]
              ELSE orders[id]]
      /\ UNCHANGED <<pending, toFill, cash>>
  BY DEF ResolveOco, Walked
<1>2. c.filled \in Int
  <2>1. claimed \in Seq(Claim) /\ claimed # << >>
    BY <1>1 DEF TypeOK
  <2>2. c \in Claim
    BY <2>1
  <2> QED
    BY <2>2 DEF Claim
<1>3. ASSUME NEW id \in Ids
      PROVE  /\ orders'[id].order = orders[id].order
             /\ orders[id].filled <= orders'[id].filled
  <2>1. orders[id] \in OrderState /\ orders[id].filled \in Int
    BY DEF TypeOK, OrderState
  <2>2. \/ orders'[id] = orders[id]
        \/ orders'[id] = [orders[id] EXCEPT !.filled = Greater(orders[id].filled, c.filled)]
    BY <1>1
  <2>3. orders[id].filled <= Greater(orders[id].filled, c.filled)
    BY <1>2, <2>1, LesserGreaterType
  <2> HIDE DEF c
  <2> QED
    BY <2>1, <2>2, <2>3 DEF OrderState
<1> HIDE DEF c, siblings, losers
<1>4. Elements(Held') \subseteq Elements(Held) /\ Elements(Held) \subseteq Ids
  <2>1. Held = resting /\ Held' = resting' /\ Elements(resting') \subseteq Elements(resting)
    BY <1>1, KeptHeld DEF Held
  <2> QED
    BY <2>1 DEF BookInv, OpenIds
<1> QED
  BY <1>1, <1>3, <1>4, CashKept

\* Between calls the reserve the guard checks against is what is set aside.
LEMMA ReserveIsSetAside ==
  ASSUME PassiveBuys, TypeOK, BookInv, OrderInv, CashInv, Idle
  PROVE  /\ Reserved \in Nat /\ Spoken = Reserved
         /\ SumFunctionOnSet(SetAside, Ids) = Reserved
         /\ SumFunctionOnSet(DueNext, 1..Len(toFill)) = 0
         /\ \A id \in Ids : SetAside[id] \in Nat
<1> DEFINE Counted == [id \in Ids |-> ReservedFor(id)]
           None0 == [id \in Ids |-> 0]
<1>1. /\ pending = << >> /\ toFill = << >> /\ resting \in Seq(Ids)
      /\ \A id \in Elements(Held) : id \in Ids /\ ledger[id].stage = "open"
  BY DEF BookInv, OpenIds, TypeOK
<1>2. Held = resting /\ OnBook = Elements(Held) /\ OnBook \subseteq Ids
  BY <1>1 DEF Held, OnBook, Elements
<1>3. ASSUME NEW id \in Elements(Held)
      PROVE  Counted[id] = SetAside[id] /\ SetAside[id] \in Nat
  <2>1. id \in Ids /\ orders[id].order \in Requests
    BY <1>1, PlacedFilled
  <2>2. SetAsideFor(orders[id]) \in Nat
    <3>1. /\ orders[id].filled \in Nat /\ orders[id].filled <= orders[id].order.qty
          /\ orders[id].filled <= orders[id].filled
      BY <1>1, PlacedFilled
    <3> QED
      BY <2>1, <3>1, SetAsideFalls
  <2>3. ReservedFor(id) = SetAsideFor(orders[id])
    <3>1. orders[id].order.side = Buy => orders[id].order.kind \in PassiveKinds
      BY <2>1 DEF PassiveBuys
    <3> QED
      BY <3>1 DEF ReservedFor, IsReserved, BuyCost, SetAsideFor, CostAt
  <2> QED
    BY <2>1, <2>2, <2>3 DEF SetAside
<1>4. \A id \in Ids \ OnBook : SetAside[id] = 0
  BY <1>2 DEF SetAside
<1>5. \A id \in Ids : SetAside[id] \in Nat
  <2>1. \A id \in OnBook : SetAside[id] \in Nat
    BY <1>2, <1>3
  <2> QED
    BY <1>4, <2>1
<1>6. IsFiniteSet(Ids) /\ IsFiniteSet(OnBook)
  BY <1>2, ConstantsAssumption, FS_Subset
<1>7. SumFunctionOnSet(SetAside, Ids) = SumFunctionOnSet(SetAside, OnBook)
  BY <1>2, <1>4, <1>5, <1>6, SumSubset
<1>8. Reserved = SumFunctionOnSet(SetAside, OnBook)
  <2>1. \A id \in OnBook : SetAside[id] \in Int /\ Counted[id] = SetAside[id]
    BY <1>2, <1>3
  <2>2. SumFunctionOnSet(Counted, OnBook) = SumFunctionOnSet(SetAside, OnBook)
    <3> HIDE DEF Counted
    <3> QED
      BY <1>6, <2>1, SumSame
  <2> QED
    BY <2>2 DEF Reserved
<1>9. SumFunctionOnSet(SetAside, Ids) \in Nat
  <2>1. SumFunctionOnSet(None0, Ids) = 0
    <3>1. \A id \in Ids : None0[id] = 0
      OBVIOUS
    <3> HIDE DEF None0
    <3> QED
      BY <1>6, <3>1, SumZero
  <2>2. \A id \in Ids : None0[id] \in Int /\ SetAside[id] \in Int /\ None0[id] <= SetAside[id]
    BY <1>5
  <2>3. SumFunctionOnSet(None0, Ids) <= SumFunctionOnSet(SetAside, Ids)
    <3> HIDE DEF None0
    <3> QED
      BY <1>6, <2>2, SumMonotone
  <2>4. SumFunctionOnSet(SetAside, Ids) \in Int
    BY <1>6, <2>2, SumType
  <2> QED
    BY <2>1, <2>3, <2>4
<1>10. SumFunctionOnSet(DueNext, 1..Len(toFill)) = 0
  <2>1. 1..Len(toFill) = {}
    BY <1>1
  <2> QED
    BY <2>1, SumStep, FS_EmptySet
<1> QED
  BY <1>5, <1>7, <1>8, <1>9, <1>10 DEF Spoken

\* What the orders held set aside is a number.
LEMMA SetAsideType ==
  ASSUME PassiveBuys, TypeOK, BookInv, OrderInv
  PROVE  /\ \A id \in Ids : SetAside[id] \in Nat
         /\ SumFunctionOnSet(SetAside, Ids) \in Int
<1>1. ASSUME NEW id \in Elements(Held) PROVE SetAsideFor(orders[id]) \in Nat
  <2>1. id \in Ids /\ ledger[id].stage = "open"
    BY DEF BookInv, OpenIds
  <2>2. /\ orders[id].order \in Requests /\ orders[id].filled \in Nat
        /\ orders[id].filled <= orders[id].order.qty /\ orders[id].filled <= orders[id].filled
    BY <2>1, PlacedFilled
  <2> QED
    BY <2>2, SetAsideFalls
<1>2. \A id \in Ids : SetAside[id] \in Nat
  BY <1>1 DEF SetAside
<1>3. IsFiniteSet(Ids) /\ \A id \in Ids : SetAside[id] \in Int
  BY <1>2, ConstantsAssumption
<1> QED
  BY <1>2, <1>3, SumType

\* An order is accepted only if the cash the others leave covers it.
LEMMA SubmitCash ==
  ASSUME PassiveBuys, TypeOK, BookInv, OrderInv, CashInv, TypeOK', BookInv', OrderInv',
         NEW id \in Ids, NEW o \in Requests, Submit(id, o)
  PROVE  CashInv'
<1>1. Idle /\ ledger[id].stage = "unused" /\ UNCHANGED <<bar, pending, toFill, cash>>
  BY DEF Submit, NextId, observing
<1>2. CASE Refuses(o)
  <2>1. UNCHANGED <<resting, orders>>
    BY <1>2 DEF Submit
  <2>2. Held' = Held
    BY <1>1, <2>1 DEF Held
  <2>3. \A other \in Ids : orders[other].filled \in Int
    BY DEF TypeOK, OrderState
  <2>4. Elements(Held) \subseteq Ids
    BY DEF BookInv, OpenIds
  <2> QED
    BY <1>1, <2>1, <2>2, <2>3, <2>4, CashKept
<1>3. CASE ~Refuses(o)
  <2>1. /\ resting' = Append(resting, id)
        /\ orders' = [orders EXCEPT ![id] =
             [NoOrderState EXCEPT !.order = o, !.activateIn = LatencyBars]]
    BY <1>3 DEF Submit
  <2>2. /\ pending = << >> /\ toFill = << >> /\ resting \in Seq(Ids)
        /\ id \notin Elements(Held)
    BY <1>1 DEF BookInv, OpenIds, TypeOK
  <2>3. Elements(Held') = Elements(Held) \cup {id}
    <3>1. Held = resting /\ Held' = Append(resting, id)
      BY <1>1, <2>1, <2>2 DEF Held
    <3> QED
      BY <2>2, <3>1, AppendElements
  <2>4. orders'[id].order = o /\ orders'[id].filled = 0
    BY <2>1 DEF TypeOK, NoOrderState
  <2>5. \A other \in Ids \ {id} : orders'[other] = orders[other]
    BY <2>1 DEF TypeOK
  <2>6. /\ SetAside[id] = 0 /\ (SetAside')[id] = SetAsideFor(orders'[id])
        /\ \A other \in Ids \ {id} : (SetAside')[other] = SetAside[other]
    BY <2>2, <2>3, <2>5 DEF SetAside
  <2>7. o.side \in {Buy, Sell} /\ o.qty \in Int
    <3>1. o \in HeldRequest
      BY ConstantsAssumption DEF HeldRequest
    <3> QED
      BY <3>1, HeldRequestType
  <2>8. SetAsideFor(orders'[id]) = IF o.side = Buy THEN BuyCost(o, o.qty) ELSE 0
    <3>1. o.side = Buy => o.kind \in PassiveKinds
      BY DEF PassiveBuys
    <3>2. o.qty - 0 = o.qty
      BY <2>7
    <3> QED
      BY <2>4, <3>1, <3>2 DEF SetAsideFor, BuyCost, CostAt
  <2>9. /\ Reserved \in Nat /\ SumFunctionOnSet(SetAside, Ids) = Reserved
        /\ Spoken = Reserved /\ \A other \in Ids : SetAside[other] \in Nat
    BY <1>1, ReserveIsSetAside
  <2>10. SetAsideFor(orders'[id]) \in Int
    <3>1. o.side = Buy => BuyCost(o, o.qty) \in Int
      <4> SUFFICES ASSUME o.side = Buy PROVE BuyCost(o, o.qty) \in Int
        OBVIOUS
      <4>1. o.limit \in Int /\ o.kind \in PassiveKinds
        <5>1. o \in HeldRequest
          BY ConstantsAssumption DEF HeldRequest
        <5>2. o.kind \in PassiveKinds
          BY DEF PassiveBuys
        <5> QED
          BY <5>1, <5>2, HeldRequestType
      <4>2. o.kind \in PassiveKinds => BuyCost(o, o.qty) = Notional(o.limit, o.qty) + Fee(o.limit, o.qty)
        BY DEF BuyCost
      <4>3. Notional(o.limit, o.qty) \in Int /\ Fee(o.limit, o.qty) \in Int
        BY <2>7, <4>1, NotionalType, FeeType
      <4> QED
        BY <2>7, <4>1, <4>2, <4>3
    <3> QED
      BY <2>8, <3>1
  <2>11. SumFunctionOnSet(SetAside', Ids) = Reserved + SetAsideFor(orders'[id])
    <3>1. \A other \in Ids : SetAside[other] \in Int
      BY <2>9
    <3>2. SumFunctionOnSet(SetAside', Ids)
            = SumFunctionOnSet(SetAside, Ids) - SetAside[id] + (SetAside')[id]
      <4>1. PICK F, G : F = SetAside /\ G = SetAside'
        OBVIOUS
      <4>2. /\ IsFiniteSet(Ids) /\ G[id] \in Int /\ \A other \in Ids : F[other] \in Int
            /\ \A other \in Ids \ {id} : G[other] = F[other]
        BY <2>6, <2>10, <3>1, <4>1, ConstantsAssumption
      <4>3. SumFunctionOnSet(G, Ids) = SumFunctionOnSet(F, Ids) - F[id] + G[id]
        BY <4>2, SumChange
      <4> QED
        BY <4>1, <4>3
    <3> QED
      BY <2>6, <2>9, <2>10, <3>2
  <2>12. DueNext' = DueNext /\ 1..Len(toFill) = {}
    BY <1>1, <2>2 DEF DueNext
  <2>13. SumFunctionOnSet(DueNext', 1..Len(toFill')) = 0
    BY <1>1, <2>12, SumStep, FS_EmptySet
  <2>14. cash # None => Reserved + SetAsideFor(orders'[id]) <= cash
    <3> SUFFICES ASSUME cash # None PROVE Reserved + SetAsideFor(orders'[id]) <= cash
      OBVIOUS
    <3>1. cash \in Int /\ Reserved <= cash
      BY <2>9 DEF CashInv, TypeOK
    <3>2. CASE o.side = Buy
      <4>1. IsReserved(o) /\ ~InsufficientFunds(o)
        BY <1>3, <3>2 DEF IsReserved, Refuses, PassiveBuys
      <4>2. ~(cash - Reserved < BuyCost(o, o.qty))
        BY <4>1 DEF InsufficientFunds
      <4> QED
        BY <2>8, <2>9, <2>10, <3>1, <3>2, <4>2
    <3>3. CASE o.side # Buy
      BY <2>8, <2>9, <3>1, <3>3
    <3> QED
      BY <3>2, <3>3
  <2>15. Spoken' = Reserved + SetAsideFor(orders'[id])
    BY <2>9, <2>10, <2>11, <2>13 DEF Spoken
  <2> QED
    BY <1>1, <2>2, <2>14, <2>15 DEF CashInv
<1> QED
  BY <1>2, <1>3

\* A fill staged costs no more than what its order stops setting aside.
LEMMA StageFillCash ==
  ASSUME PassiveBuys, TypeOK, BookInv, OrderInv, CashInv, TypeOK', NEW id \in Ids, StageFill(id)
  PROVE  CashInv'
<1>1. PICK r, stage, rests :
        Turn(id, r, stage, rests) /\ r.filled = orders[id].filled + Want(id)
  BY StageFillTurn
<1>2. Want(id) \in Nat /\ Want(id) <= orders[id].order.qty - orders[id].filled
  BY StageFillTurn, WantType, WantBound
<1>3. /\ id \in Elements(Held) /\ ledger[id].stage = "open" /\ cash' = cash
      /\ Elements(Held') = IF rests THEN Elements(Held) ELSE Elements(Held) \ {id}
      /\ orders'[id] = r /\ \A other \in Ids \ {id} : orders'[other] = orders[other]
      /\ r.order = orders[id].order /\ rests \in BOOLEAN
  BY <1>1, TurnEffects DEF Turn
<1>4. PICK f \in StagedFill : StagedFillOf(id, f)
  BY StageFillTurn
<1>5. toFill' = Append(toFill, f) /\ f.id = id /\ f.qty = Want(id)
  BY <1>4 DEF StagedFillOf
<1>6. /\ DOMAIN toFill = 1..Len(toFill) /\ Len(toFill) \in Nat
      /\ DOMAIN toFill' = 1..Len(toFill) + 1
      /\ \A n \in 1..Len(toFill) : toFill'[n] = toFill[n]
      /\ toFill'[Len(toFill) + 1] = f
  BY <1>5, AppendStaged
<1>7. Len(toFill') = Len(toFill) + 1
  <2>1. toFill \in Seq(StagedFill)
    BY DEF TypeOK
  <2> QED
    BY <1>5, <2>1
<1>8. PICK o : o = orders[id].order
  OBVIOUS
<1>9. /\ o \in Requests /\ o.side \in {Buy, Sell} /\ o.limit \in Nat
      /\ f.price \in Nat /\ (o.side = Buy => f.price <= o.limit)
  BY <1>6, <1>8, StagedPrice
<1>10. PICK due : due = IF o.side = Buy THEN CostAt(f.price, f.qty) ELSE 0
  OBVIOUS
<1>11. /\ due \in Nat /\ SetAsideFor(r) \in Nat /\ SetAsideFor(orders[id]) \in Nat
       /\ due + SetAsideFor(r) <= SetAsideFor(orders[id])
  <2>1. orders[id].filled \in Nat /\ o.qty \in Int /\ orders[id].filled <= o.qty
    BY <1>3, <1>8, PlacedFilled
  <2>2. PICK left \in Nat : left = o.qty - r.filled
    BY <1>1, <1>2, <1>8, <2>1
  <2>3. o.qty - orders[id].filled = f.qty + left /\ f.qty \in Nat
    BY <1>1, <1>2, <1>5, <2>1, <2>2
  <2>4. o.side = Buy =>
          /\ CostAt(f.price, f.qty) \in Nat /\ CostAt(o.limit, left) \in Nat
          /\ CostAt(o.limit, f.qty + left) \in Nat
          /\ CostAt(f.price, f.qty) + CostAt(o.limit, left) <= CostAt(o.limit, f.qty + left)
    BY <1>9, <2>2, <2>3, CostFalls
  <2>5. /\ SetAsideFor(r) = IF o.side = Buy THEN CostAt(o.limit, left) ELSE 0
        /\ SetAsideFor(orders[id]) = IF o.side = Buy THEN CostAt(o.limit, f.qty + left) ELSE 0
    BY <1>3, <1>8, <2>2, <2>3 DEF SetAsideFor
  <2> QED
    BY <1>10, <2>4, <2>5
<1>12. /\ SetAside[id] = SetAsideFor(orders[id])
       /\ (SetAside')[id] = IF rests THEN SetAsideFor(r) ELSE 0
       /\ \A other \in Ids \ {id} : (SetAside')[other] = SetAside[other]
  BY <1>3 DEF SetAside
<1>13. (SetAside')[id] \in Nat /\ due + (SetAside')[id] <= SetAside[id]
  BY <1>11, <1>12
<1>14. /\ \A other \in Ids : SetAside[other] \in Int
       /\ SumFunctionOnSet(SetAside, Ids) \in Int
  BY SetAsideType
<1>15. SumFunctionOnSet(SetAside', Ids)
         = SumFunctionOnSet(SetAside, Ids) - SetAside[id] + (SetAside')[id]
  <2>1. PICK F, G : F = SetAside /\ G = SetAside'
    OBVIOUS
  <2>2. /\ IsFiniteSet(Ids) /\ G[id] \in Int /\ \A other \in Ids : F[other] \in Int
        /\ \A other \in Ids \ {id} : G[other] = F[other]
    BY <1>12, <1>13, <1>14, <2>1, ConstantsAssumption
  <2>3. SumFunctionOnSet(G, Ids) = SumFunctionOnSet(F, Ids) - F[id] + G[id]
    BY <2>2, SumChange
  <2> QED
    BY <2>1, <2>3
<1>16. /\ \A n \in 1..Len(toFill) : DueNext[n] \in Nat
       /\ SumFunctionOnSet(DueNext, 1..Len(toFill)) \in Int
  BY DueTypes DEF CashInv
<1>17. \A n \in 1..Len(toFill) : toFill[n].id \in Ids
  BY <1>6, StagedTypes
<1>18. \A other \in Ids : orders'[other].order = orders[other].order
  BY <1>3
<1>19. /\ (DueNext')[Len(toFill) + 1] = due
       /\ \A n \in 1..Len(toFill) : (DueNext')[n] = DueNext[n]
  <2>1. \A n \in 1..Len(toFill) + 1 : (DueNext')[n] =
          IF orders'[toFill'[n].id].order.side = Buy
          THEN CostAt(toFill'[n].price, toFill'[n].qty) ELSE 0
    BY <1>7 DEF DueNext, DueFor
  <2>2. \A n \in 1..Len(toFill) : DueNext[n] =
          IF orders[toFill[n].id].order.side = Buy
          THEN CostAt(toFill[n].price, toFill[n].qty) ELSE 0
    BY DEF DueNext, DueFor
  <2>3. Len(toFill) + 1 \in 1..Len(toFill) + 1
        /\ \A n \in 1..Len(toFill) : n \in 1..Len(toFill) + 1
    BY <1>6
  <2> QED
    BY <1>5, <1>6, <1>8, <1>10, <1>17, <1>18, <2>1, <2>2, <2>3
<1>20. SumFunctionOnSet(DueNext', 1..Len(toFill'))
         = SumFunctionOnSet(DueNext, 1..Len(toFill)) + due
  <2>1. \A n \in 1..Len(toFill) + 1 : (DueNext')[n] \in Int
    <3>1. \A n \in 1..Len(toFill) + 1 : n \in 1..Len(toFill) \/ n = Len(toFill) + 1
      BY <1>6
    <3> QED
      BY <1>11, <1>16, <1>19, <3>1
  <2>2. \A n \in 1..Len(toFill) : DueNext[n] = (DueNext')[n]
    BY <1>19
  <2> QED
    BY <1>6, <1>7, <1>19, <2>1, <2>2, SumAppend
<1>21. Spoken' <= Spoken /\ Spoken \in Int /\ Spoken' \in Int
  <2>1. PICK s \in Int, t \in Int, d \in Int, p \in Int, q \in Int, paid \in Int :
          /\ s = SumFunctionOnSet(SetAside, Ids) /\ t = SumFunctionOnSet(SetAside', Ids)
          /\ d = SumFunctionOnSet(DueNext, 1..Len(toFill))
          /\ p = SetAside[id] /\ q = (SetAside')[id] /\ paid = due
    <3>1. SumFunctionOnSet(SetAside, Ids) \in Int /\ SetAside[id] \in Int
      BY <1>14
    <3>2. (SetAside')[id] \in Int /\ due \in Int
      BY <1>11, <1>13
    <3>3. SumFunctionOnSet(SetAside', Ids) \in Int
      BY <1>15, <3>1, <3>2
    <3> QED
      BY <1>16, <3>1, <3>2, <3>3
  <2>2. t = s - p + q /\ paid + q <= p
    BY <1>13, <1>15, <2>1
  <2>3. s + d \in Int /\ t + (d + paid) \in Int /\ t + (d + paid) <= s + d
    BY <2>2
  <2>4. Spoken = s + d /\ Spoken' = t + (d + paid)
    BY <1>20, <2>1 DEF Spoken
  <2> QED
    BY <2>3, <2>4
<1>22. \A n \in DOMAIN toFill' : toFill'[n].price \in Nat
  <2>1. \A n \in 1..Len(toFill) + 1 : n \in 1..Len(toFill) \/ n = Len(toFill) + 1
    BY <1>6
  <2> QED
    BY <1>6, <1>9, <2>1 DEF CashInv
<1> QED
  BY <1>3, <1>21, <1>22 DEF CashInv, TypeOK

\* A fill emitted moves the cash by what was due for it, or a sale adds some.
LEMMA EmitFillCash ==
  ASSUME PassiveBuys, TypeOK, BookInv, OrderInv, CashInv, TypeOK', EmitFill
  PROVE  CashInv'
<1>1. /\ Len(toFill) \in Nat /\ Len(toFill) > 0
      /\ DOMAIN toFill = 1..Len(toFill) /\ 1 \in DOMAIN toFill /\ Head(toFill) = toFill[1]
      /\ DOMAIN toFill' = 1..Len(toFill) - 1
      /\ \A n \in DOMAIN toFill' : n + 1 \in DOMAIN toFill /\ toFill'[n] = toFill[n + 1]
      /\ UNCHANGED <<resting, orders, pending>>
  BY EmitEffects
<1>2. PICK last \in Nat : last = Len(toFill) - 1 /\ Len(toFill) = last + 1
  <2>1. Len(toFill) - 1 \in Nat /\ Len(toFill) = Len(toFill) - 1 + 1
    BY <1>1
  <2> QED
    BY <2>1
<1>3. Len(toFill') = last
  <2>1. toFill' \in Seq(StagedFill)
    BY DEF TypeOK
  <2>2. DOMAIN toFill' = 1..Len(toFill') /\ Len(toFill') \in Nat
    BY <2>1
  <2>3. \A m, n \in Nat : 1..m = 1..n => m = n
    <3> SUFFICES ASSUME NEW m \in Nat, NEW n \in Nat, 1..m = 1..n PROVE m = n
      OBVIOUS
    <3>1. \A k \in Nat : (k \in 1..m) <=> (k \in 1..n)
      OBVIOUS
    <3>2. m > 0 => m \in 1..n
      BY <3>1
    <3>3. n > 0 => n \in 1..m
      BY <3>1
    <3> QED
      BY <3>2, <3>3
  <2> QED
    BY <1>1, <1>2, <2>2, <2>3
<1>4. PICK f : f = toFill[1]
  OBVIOUS
<1>5. PICK o : o = orders[f.id].order
  OBVIOUS
<1>6. /\ f.id \in Ids /\ f.qty \in Nat /\ f.price \in Nat
      /\ o.side \in {Buy, Sell}
  <2>1. f.id \in Ids /\ f.qty \in Nat /\ f.price \in Nat
    BY <1>1, <1>4, StagedTypes DEF OrderInv, StagedSoundly, CashInv
  <2>2. orders[f.id].order \in HeldRequest
    BY <2>1 DEF TypeOK, OrderState, HeldRequest
  <2> QED
    BY <1>5, <2>1, <2>2, HeldRequestType
<1>7. /\ CostAt(f.price, f.qty) \in Nat
      /\ Fee(f.price, f.qty) <= Notional(f.price, f.qty) /\ Notional(f.price, f.qty) \in Nat
  <2>1. f.price <= f.price /\ 0 \in Nat
    BY <1>6
  <2> QED
    BY <1>6, <2>1, CostFalls
<1>8. PICK due : due = IF o.side = Buy THEN CostAt(f.price, f.qty) ELSE 0
  OBVIOUS
<1>9. cash' = Settled(cash, o.side, f.price, f.qty, Fee(f.price, f.qty))
  BY <1>1, <1>4, <1>5 DEF EmitFill
<1>10. cash # None => cash' \in Int /\ cash - due <= cash'
  <2> SUFFICES ASSUME cash # None PROVE cash' \in Int /\ cash - due <= cash'
    OBVIOUS
  <2>1. PICK paid, fee, c \in Int :
          paid = Notional(f.price, f.qty) /\ fee = Fee(f.price, f.qty) /\ c = cash
    <3>1. cash \in Int
      BY DEF TypeOK
    <3>2. Fee(f.price, f.qty) \in Int
      <4>1. f.price \in Int /\ f.qty \in Int
        BY <1>6
      <4> QED
        BY <4>1, FeeType
    <3> QED
      BY <1>7, <3>1, <3>2
  <2>2. cash' = c - o.side * paid - fee
    BY <1>9, <2>1 DEF Settled
  <2>3. due = IF o.side = Buy THEN paid + fee ELSE 0
    BY <1>8, <2>1 DEF CostAt
  <2>4. fee <= paid
    BY <1>7, <2>1
  <2>5. CASE o.side = 1
    BY <2>1, <2>2, <2>3, <2>5 DEF Buy
  <2>6. CASE o.side = -1
    BY <2>1, <2>2, <2>3, <2>4, <2>6 DEF Buy
  <2> QED
    BY <1>6, <2>5, <2>6 DEF Buy, Sell
<1>11. cash = None => cash' = None
  BY <1>9 DEF Settled
<1>12. SetAside' = SetAside
  BY <1>1 DEF SetAside, Held
<1>13. SumFunctionOnSet(SetAside, Ids) \in Int
  BY SetAsideType
<1>14. /\ \A n \in 1..last + 1 : DueNext[n] \in Nat
       /\ SumFunctionOnSet(DueNext, 1..last + 1) \in Int
  BY <1>2, DueTypes DEF CashInv
<1>15. DueNext[1] = due
  BY <1>1, <1>4, <1>5, <1>8 DEF DueNext, DueFor
<1>16. \A n \in 1..last : (DueNext')[n] = DueNext[n + 1]
  <2>1. \A n \in 1..last : /\ n + 1 \in 1..Len(toFill) /\ toFill'[n] = toFill[n + 1]
                           /\ n \in 1..Len(toFill')
    BY <1>1, <1>2, <1>3
  <2> QED
    BY <1>1, <2>1 DEF DueNext, DueFor
<1>17. SumFunctionOnSet(DueNext, 1..last + 1) = due + SumFunctionOnSet(DueNext', 1..last)
  <2>1. \A n \in 1..last + 1 : DueNext[n] \in Int
    BY <1>14
  <2> QED
    BY <1>15, <1>16, <2>1, SumShift
<1>18. SumFunctionOnSet(DueNext', 1..last) \in Int
  <2>1. \A n \in 1..last : n + 1 \in 1..last + 1
    OBVIOUS
  <2>2. \A n \in 1..last : (DueNext')[n] \in Int
    BY <1>14, <1>16, <2>1
  <2>3. IsFiniteSet(1..last)
    BY FS_Interval
  <2> QED
    BY <2>2, <2>3, SumType
<1>19. due \in Int
  BY <1>7, <1>8
<1>20. Spoken = Spoken' + due /\ Spoken' \in Int /\ Spoken \in Int
  BY <1>2, <1>3, <1>12, <1>13, <1>17, <1>18, <1>19 DEF Spoken
<1>21. cash # None => Spoken' <= cash'
  <2>1. cash # None => cash \in Int /\ Spoken <= cash
    BY DEF CashInv, TypeOK
  <2> QED
    BY <1>10, <1>19, <1>20, <2>1
<1>22. \A n \in DOMAIN toFill' : toFill'[n].price \in Nat
  BY <1>1 DEF CashInv
<1> QED
  BY <1>11, <1>21, <1>22 DEF CashInv

\* Every step keeps the reserve covered.
LEMMA NextCash ==
  ASSUME PassiveBuys, TypeOK, BookInv, OrderInv, OcoInv, CashInv,
         TypeOK', BookInv', OrderInv', [Next]_vars
  PROVE  CashInv'
<1>1. CASE sink = << >> /\ Calls
  BY <1>1, SubmitCash, CalmCash DEF Calls
<1>2. ASSUME NEW id \in Ids, Match(id) PROVE CashInv'
  BY <1>2, CalmCash, StageFillCash DEF Match, LeavesUnfilled
<1>3. CASE FinishObserve \/ TakeEvents \/ UNCHANGED vars
  BY <1>3, CalmCash
<1>4. CASE EmitFill \/ ResolveOco
  BY <1>4, EmitFillCash, ResolveCash
<1> QED
  BY <1>1, <1>2, <1>3, <1>4 DEF Next, Observing

\* No sequence of partial fills, cancellations, OCO reductions and new orders
\* spends cash the account does not have, or makes the reserve go negative.
THEOREM ReserveIsCovered == PassiveBuys => (Spec => []CashCoversReserve)
<1> SUFFICES ASSUME PassiveBuys PROVE Spec => []CashCoversReserve
  OBVIOUS
<1>1. Init => CashInv
  <2> SUFFICES ASSUME Init PROVE CashInv
    OBVIOUS
  <2>1. toFill = << >> /\ Held = << >> /\ cash = StartingCash
    BY DEF Init, Held
  <2>2. \A id \in Ids : SetAside[id] = 0
    BY <2>1 DEF SetAside, Elements
  <2>3. SumFunctionOnSet(SetAside, Ids) = 0
    BY <2>2, ConstantsAssumption, SumZero
  <2>4. 1..Len(toFill) = {}
    BY <2>1
  <2>5. SumFunctionOnSet(DueNext, 1..Len(toFill)) = 0
    BY <2>4, SumStep, FS_EmptySet
  <2> QED
    BY <2>1, <2>3, <2>5 DEF CashInv, Spoken, PassiveBuys
<1>2. TypeOK /\ BookInv /\ OrderInv /\ OcoInv /\ CashInv /\ TypeOK' /\ BookInv' /\ OrderInv'
        /\ [Next]_vars => CashInv'
  BY NextCash
<1>3. TypeOK /\ BookInv /\ OrderInv /\ CashInv => CashCoversReserve
  <2> SUFFICES ASSUME TypeOK, BookInv, OrderInv, CashInv, Idle, cash # None
               PROVE  cash >= Reserved /\ Reserved >= 0
    BY DEF CashCoversReserve
  <2>1. Reserved \in Nat /\ Spoken = Reserved
    BY ReserveIsSetAside
  <2> QED
    BY <2>1 DEF CashInv, TypeOK
<1> QED
  BY <1>1, <1>2, <1>3, OrdersSound, OcoSound, PTL DEF Spec

=============================================================================
