-------------------------- MODULE ComponentProofs --------------------------
(***************************************************************************)
(* Theorems about Component: the numbering of the interfaces and all that  *)
(* is laid out by it stay in step, for any component and any sequence of   *)
(* joins, pushes, updates and returns.                                     *)
(***************************************************************************)
EXTENDS Component, FiniteSetTheorems, SequenceTheorems, TLAPS

Entries == [of : PI, cut : BOOLEAN]

(* The types of what the proofs look into, from the first numbering on.    *)
Types ==
    /\ boundary \in Seq(PI) /\ conns \in Seq(Connection)
    /\ doing \in [step : {"start", "idle", "reconstruct", "answer"}, i : Nat]
    /\ doing.step = "reconstruct" => doing.i > 0
    /\ facs \in [state : {"null", "live", "freed"}, order : {<<>>} \cup [Index -> PI], size : Nat]
    /\ Permuted => /\ at \in [Index -> PI] /\ num \in [PI -> Index]
                   /\ inj \in [Index -> Entries]
    /\ monitor \in [row : Int, of : SUBSET PI] /\ raced \in BOOLEAN

(* What the monitor has read is the interface of the row it is about to    *)
(* write, as long as they were not renumbered in between.                  *)
MonitorCurrent ==
    \A p \in monitor.of : Permuted /\ monitor.row \in Index /\ (raced \/ at[monitor.row] = p)

(* Before the first numbering there is no boundary and there are no        *)
(* matrices.                                                               *)
StartsEmpty == doing.step = "start" => boundary = <<>> /\ facs.state = "null"

(* The matrices of the last join stay of the present numbering until the   *)
(* next join begins to renumber.                                           *)
FactorsCurrent ==
    doing.step \in {"idle", "answer"} /\ facs.state = "live" => facs.order = at /\ facs.size = k

Inv == Types /\ StartsEmpty /\ NumberingSound /\ FactorsCurrent /\ MonitorCurrent

-----------------------------------------------------------------------------
(* A numbering is one-to-one: an interface does not come before itself.    *)
LEMMA BeforeIrreflexive ==
    ASSUME NEW p \in PI
    PROVE  ~ Before(p, p)
  BY ComponentAssumption DEF Before, Earlier

LEMMA NumberingOneToOne ==
    ASSUME NEW g \in [Index -> PI], Numbering(g), NEW i \in Index, NEW j \in Index, g[i] = g[j]
    PROVE  i = j
  <1>1. ~ (i < j) /\ ~ (j < i)
    BY BeforeIrreflexive DEF Numbering
  <1>2. QED
    BY <1>1, ComponentAssumption DEF Index

(* Its inverse is what Numbers makes of it.                                *)
LEMMA NumbersInverse ==
    ASSUME NEW g \in [Index -> PI], Numbering(g)
    PROVE  /\ Numbers(g) \in [PI -> Index]
           /\ \A p \in PI : g[Numbers(g)[p]] = p
           /\ \A i \in Index : Numbers(g)[g[i]] = i
  <1>1. \A p \in PI : Numbers(g)[p] \in Index /\ g[Numbers(g)[p]] = p
    BY DEF Numbers, Numbering
  <1>2. \A i \in Index : Numbers(g)[g[i]] = i
    BY <1>1, NumberingOneToOne
  <1>3. Numbers(g) \in [PI -> Index]
    BY <1>1 DEF Numbers
  <1>4. QED
    BY <1>1, <1>2, <1>3

(* Setting I from the loads leaves every entry with its interface.         *)
LEMMA InjectedLayout ==
    ASSUME at \in [Index -> PI], inj \in [Index -> Entries]
    PROVE  Injected \in [Index -> Entries] /\ (Of(inj) = at => Of(Injected) = at)
  <1>1. Injected \in [Index -> Entries]
    BY DEF Injected, Entries
  <1>2. Of(inj) = at => \A i \in Index : Injected[i].of = at[i]
    BY DEF Injected, Of, Entries
  <1>3. QED
    BY <1>1, <1>2 DEF Of

(* A place the boundary has left is there for an interface outside it.     *)
LEMMA PlaceLeft ==
    ASSUME Types, Permuted, NumberingSound, NEW p \in PI, ~ InBoundary(p)
    PROVE  /\ k \in Nat /\ num[p] \in Index
           /\ SwitchPi - k - 1 \in Index
           /\ num[p] <= SwitchPi - k - 1
  <1>1. k \in Nat /\ k <= SwitchPi /\ num[p] \in Index
    BY DEF Types, NumberingSound, BoundaryLast, k
  <1>2. ASSUME num[p] > SwitchPi - k - 1
        PROVE  FALSE
    <2> DEFINE i == num[p] - (SwitchPi - k - 1)
    <2>1. i \in 1 .. k /\ SwitchPi - k - 1 + i = num[p]
      BY <1>1, <1>2, ComponentAssumption DEF Index
    <2>2. boundary[i] = at[num[p]]
      BY <2>1 DEF NumberingSound, BoundaryLast
    <2>3. QED
      BY <2>1, <2>2 DEF NumberingSound, MapsInverse, InBoundary
  <1>3. QED
    BY <1>1, <1>2, ComponentAssumption DEF Index

(* The heart of DynamicReconstruct: all that is laid out by the numbering  *)
(* changes alike.                                                          *)
LEMMA SwapSound ==
    ASSUME Types, Permuted, Permuted', NumberingSound, NEW p \in PI, ~ InBoundary(p),
           SwapPlaces(p, num[p], SwitchPi - k - 1), raced => raced'
    PROVE  /\ NumberingSound'
           /\ boundary' \in Seq(PI)
           /\ at' \in [Index -> PI] /\ num' \in [PI -> Index] /\ inj' \in [Index -> Entries]
  <1> DEFINE i == num[p]
             j == SwitchPi - k - 1
  <1>1. i \in Index /\ j \in Index /\ i <= j /\ k \in Nat
    BY PlaceLeft
  <1>2. /\ at \in [Index -> PI] /\ num \in [PI -> Index] /\ inj \in [Index -> Entries]
        /\ boundary \in Seq(PI)
    BY DEF Types
  <1>3. \A q \in PI : at[num[q]] = q
    BY DEF NumberingSound, MapsInverse
  <1>4. \A x \in Index : num[at[x]] = x
    BY DEF NumberingSound, MapsInverse
  <1>5. at' = [at EXCEPT ![i] = at[j], ![j] = at[i]]
    BY DEF SwapPlaces, Swap
  <1>6. num' = [num EXCEPT ![p] = j, ![at[j]] = i]
    BY DEF SwapPlaces
  <1>7. at' \in [Index -> PI] /\ num' \in [PI -> Index]
    BY <1>1, <1>2, <1>5, <1>6
  <1>8. at'[j] = p /\ at'[i] = at[j] /\ \A x \in Index \ {i, j} : at'[x] = at[x]
    BY <1>1, <1>2, <1>3, <1>5
  <1>9. num'[p] = j /\ num'[at[j]] = i /\ \A q \in PI \ {p, at[j]} : num'[q] = num[q]
    BY <1>1, <1>2, <1>4, <1>6
  <1>10. MapsInverse'
    <2>1. \A q \in PI : at'[num'[q]] = q
      <3>1. ASSUME NEW q \in PI \ {p, at[j]}
            PROVE  at'[num'[q]] = q
        <4>1. num'[q] = num[q] /\ num[q] \in Index /\ num[q] # i /\ num[q] # j
          BY <1>2, <1>3, <1>9
        <4>2. QED
          BY <4>1, <1>3, <1>8
      <3>2. QED
        BY <3>1, <1>8, <1>9
    <2>2. \A x \in Index : num'[at'[x]] = x
      <3>1. ASSUME NEW x \in Index \ {i, j}
            PROVE  num'[at'[x]] = x
        <4>1. at'[x] = at[x] /\ at[x] \in PI /\ at[x] # p /\ at[x] # at[j]
          BY <1>1, <1>2, <1>4, <1>8
        <4>2. QED
          BY <4>1, <1>4, <1>9
      <3>2. QED
        BY <3>1, <1>8, <1>9
    <2>3. QED
      BY <2>1, <2>2 DEF MapsInverse
  <1>11. inj' \in [Index -> Entries] /\ (Of(inj) = at => Of(inj)' = at')
    <2>1. inj' = [inj EXCEPT ![i] = inj[j], ![j] = inj[i]]
      BY DEF SwapPlaces, Swap
    <2>2. inj' \in [Index -> Entries]
      BY <2>1, <1>1, <1>2
    <2>3. Of(inj) = at => \A x \in Index : inj[x].of = at[x]
      BY <1>2 DEF Of
    <2>4. Of(inj) = at => \A x \in Index : inj'[x].of = at'[x]
      BY <2>1, <2>3, <1>1, <1>2, <1>5
    <2>5. QED
      BY <2>2, <2>4, <1>7 DEF Of
  <1>12. rowA' = at' /\ colA' = at' /\ colB' = at'
    BY DEF SwapPlaces, NumberingSound, LaidOutAlike
  <1>13. boundary' = <<p>> \o boundary /\ boundary' \in Seq(PI) /\ k' = k + 1
    BY <1>2 DEF SwapPlaces, k
  <1>14. BoundaryLast'
    <2>1. ASSUME NEW m \in 1 .. k + 1
          PROVE  at'[SwitchPi - (k + 1) - 1 + m] = boundary'[m]
      <3>1. CASE m = 1
        BY <3>1, <1>1, <1>2, <1>8, <1>13, ComponentAssumption DEF Index
      <3>2. CASE m # 1
        <4>1. m - 1 \in 1 .. k /\ boundary'[m] = boundary[m - 1]
          BY <3>2, <1>1, <1>2, <1>13 DEF k
        <4>2. boundary[m - 1] = at[SwitchPi - k - 1 + (m - 1)]
          BY <4>1 DEF NumberingSound, BoundaryLast
        <4>3. SwitchPi - (k + 1) - 1 + m = SwitchPi - k - 1 + (m - 1)
          BY <1>1, ComponentAssumption
        <4>4. j + (m - 1) \in Index \ {i, j}
          BY <4>1, <1>1, ComponentAssumption DEF Index
        <4>5. QED
          BY <4>1, <4>2, <4>3, <4>4, <1>8
      <3>3. QED
        BY <3>1, <3>2
    <2>2. k + 1 <= SwitchPi
      BY <1>1, ComponentAssumption DEF Index
    <2>3. QED
      BY <2>1, <2>2, <1>13 DEF BoundaryLast
  <1>15. QED
    BY <1>7, <1>10, <1>11, <1>12, <1>13, <1>14 DEF NumberingSound, LaidOutAlike

-----------------------------------------------------------------------------
LEMMA InitInv == Init => Inv
  <1> SUFFICES ASSUME Init PROVE Inv
    OBVIOUS
  <1>1. monitor.of = {} /\ monitor \in [row : Int, of : SUBSET PI] /\ raced \in BOOLEAN
    <2>1. monitor = [row |-> -1, of |-> {}] /\ raced = FALSE
      BY DEF Init, MonitorOff
    <2>2. -1 \in Int /\ {} \in SUBSET PI
      OBVIOUS
    <2>3. QED
      BY <2>1, <2>2
  <1>2. QED
    BY <1>1 DEF Init, Inv, Types, StartsEmpty, NumberingSound, MapsInverse, LaidOutAlike, BoundaryLast,
                FactorsCurrent, MonitorCurrent, Permuted, NoFacs, Index

\* steps that only set entries of I, and may cut them
LEMMA LayoutKept ==
    ASSUME Inv, UNCHANGED layout, UNCHANGED links, facs' = facs, Permuted,
           inj' \in [Index -> Entries], raced \/ Of(inj)' = at, UNCHANGED unlocked,
           doing' \in [step : {"idle", "answer"}, i : Nat],
           doing.step \in {"idle", "answer"} \/ facs.state # "live"
    PROVE  Inv'
  BY DEF Inv, Types, StartsEmpty, NumberingSound, MapsInverse, LaidOutAlike, BoundaryLast,
         FactorsCurrent, MonitorCurrent, Permuted, layout, links, unlocked, k

(* The monitor's steps change I, the lines and the monitor alone.          *)
LEMMA MonitorKeeps ==
    ASSUME MonitorUpdate
    PROVE  /\ Permuted
           /\ UNCHANGED <<place, blocks, layout, ainv, facs, links, doing, sent,
                          status, restored, joined, raced>>
           /\ lines' = lines \/ \E order : Solved("monitor", order, inj)
  BY DEF MonitorUpdate, MonitorBegin, MonitorRead, MonitorWrite, MonitorSolve, MonitorRuns, Permuted,
         LocalUpdate, DistributedUpdate

LEMMA MonitorInv ==
    ASSUME Inv, MonitorUpdate
    PROVE  /\ inj' \in [Index -> Entries] /\ (raced \/ Of(inj)' = at)
           /\ monitor' \in [row : Int, of : SUBSET PI] /\ MonitorCurrent'
  <1>1. /\ Permuted /\ UNCHANGED <<layout, doing, raced>>
        /\ at \in [Index -> PI] /\ inj \in [Index -> Entries] /\ (raced \/ Of(inj) = at)
        /\ monitor \in [row : Int, of : SUBSET PI]
    BY MonitorKeeps DEF Inv, Types, NumberingSound, LaidOutAlike
  <1>2. Permuted' /\ at' = at /\ raced' = raced
    BY <1>1 DEF Permuted, layout
  <1>3. CASE inj' = inj /\ monitor'.of = {} /\ monitor' \in [row : Int, of : SUBSET PI]
    BY <1>1, <1>3 DEF MonitorCurrent, Of
  <1>4. CASE MonitorBegin \/ MonitorSolve
    BY <1>3, <1>4, ComponentAssumption DEF MonitorBegin, MonitorSolve, MonitorOff
  <1>5. CASE MonitorRead
    <2>1. /\ monitor.row \in Index /\ monitor' = [row |-> monitor.row, of |-> {at[monitor.row]}]
          /\ inj' = inj
      BY <1>1, <1>5 DEF MonitorRead
    <2>2. QED
      BY <1>1, <1>2, <2>1 DEF MonitorCurrent, Of
  <1>6. CASE MonitorWrite
    <2>1. PICK p \in monitor.of :
             inj' = IF p \in Fed THEN [inj EXCEPT ![monitor.row] = [of |-> p, cut |-> FALSE]]
                    ELSE inj
      BY <1>6 DEF MonitorWrite
    <2>2. p \in PI /\ monitor.row \in Index /\ (raced \/ at[monitor.row] = p)
      BY <1>1, <2>1 DEF Inv, MonitorCurrent
    <2>3. monitor' = [row |-> monitor.row + 1, of |-> {}] /\ monitor.row + 1 \in Int
      BY <1>1, <1>6 DEF MonitorWrite
    <2>4. inj' \in [Index -> Entries]
      BY <1>1, <2>1, <2>2 DEF Entries
    <2>5. ASSUME Of(inj) = at, at[monitor.row] = p
          PROVE  Of(inj)' = at
      <3>1. \A i \in Index : inj[i].of = at[i]
        BY <1>1, <2>5 DEF Of
      <3>2. \A i \in Index : inj'[i].of = at[i]
        BY <1>1, <2>1, <2>2, <2>5, <3>1
      <3>3. QED
        BY <1>1, <3>2 DEF Of
    <2>6. QED
      BY <1>1, <2>2, <2>3, <2>4, <2>5 DEF MonitorCurrent
  <1>7. QED
    BY <1>4, <1>5, <1>6 DEF MonitorUpdate

LEMMA NextInv == Inv /\ [Next \/ Restore]_vars => Inv'
  <1> SUFFICES ASSUME Inv, [Next \/ Restore]_vars
               PROVE  Inv'
    OBVIOUS
  <1> USE DEF Inv
  <1>1. doing.step # "start" =>
           Injected \in [Index -> Entries] /\ (raced \/ Of(Injected) = at)
    BY InjectedLayout DEF Types, Permuted, NumberingSound, LaidOutAlike
  <1>2. CASE Simulate
    <2>1. PICK g \in [Index -> PI] :
             /\ Numbering(g)
             /\ at' = g /\ num' = Numbers(g)
             /\ rowA' = g /\ colA' = g /\ colB' = g
             /\ inj' = [i \in Index |-> [of |-> g[i], cut |-> FALSE]]
      BY <1>2 DEF Simulate
    <2>2. /\ boundary = <<>> /\ facs.state = "null" /\ doing' = [step |-> "idle", i |-> 0]
          /\ UNCHANGED <<facs, boundary, conns, unlocked>> /\ monitor.of = {}
      BY <1>2 DEF Simulate, StartsEmpty, MonitorCurrent, Permuted, links
    <2>3. /\ num' \in [PI -> Index]
          /\ \A p \in PI : at'[num'[p]] = p
          /\ \A i \in Index : num'[at'[i]] = i
      BY <2>1, NumbersInverse
    <2>4. inj' \in [Index -> Entries] /\ Of(inj)' = at'
      BY <2>1 DEF Entries, Of
    <2>5. k' = 0
      BY <2>2 DEF k
    <2>6. Types'
      BY <2>1, <2>2, <2>3, <2>4 DEF Types, unlocked
    <2>7. NumberingSound'
      BY <2>1, <2>3, <2>4, <2>5, ComponentAssumption
         DEF NumberingSound, MapsInverse, LaidOutAlike, BoundaryLast
    <2>8. QED
      BY <2>2, <2>6, <2>7 DEF StartsEmpty, FactorsCurrent, MonitorCurrent, unlocked
  <1>3. CASE Update
    <2>1. doing.step # "start" /\ inj' = Injected /\ UNCHANGED <<layout, facs, links, doing, unlocked>>
      BY <1>3 DEF Update, Idle
    <2>2. Injected \in [Index -> Entries] /\ (raced \/ Of(inj)' = at)
      BY <1>1, <2>1 DEF Of
    <2>3. QED
      BY <2>1, <2>2 DEF Types, StartsEmpty, NumberingSound, MapsInverse, LaidOutAlike, BoundaryLast,
                        FactorsCurrent, MonitorCurrent, Permuted, layout, links, unlocked, k
  <1>4. ASSUME NEW m \in Messages, DynamicSimulate(m)
        PROVE  Inv'
    <2>1. /\ doing.step = "idle" /\ inj' = Injected /\ UNCHANGED <<layout, facs, boundary, unlocked>>
          /\ doing' = [step |-> "reconstruct", i |-> 1]
          /\ conns' = Reversed(m) \o conns
      BY <1>4 DEF DynamicSimulate, Idle
    <2>2. Injected \in [Index -> Entries] /\ (raced \/ Of(inj)' = at)
      BY <1>1, <2>1 DEF Of
    <2>3. conns' \in Seq(Connection)
      <3>1. m \in Seq(Connection)
        BY ComponentAssumption
      <3>2. Reversed(m) \in Seq(Connection)
        BY <3>1 DEF Reversed
      <3>3. QED
        BY <2>1, <3>2 DEF Types
    <2>4. QED
      BY <2>1, <2>2, <2>3 DEF Types, StartsEmpty, NumberingSound, MapsInverse, LaidOutAlike, BoundaryLast,
                              FactorsCurrent, MonitorCurrent, Permuted, layout, unlocked, k
  <1>5. CASE DynamicReconstruct
    <2>1. /\ doing.step = "reconstruct" /\ doing.i \in 1 .. Len(conns)
          /\ doing' = [doing EXCEPT !.i = @ + 1] /\ UNCHANGED <<facs, conns>>
      BY <1>5 DEF DynamicReconstruct, Types
    <2>2. doing' \in [step : {"reconstruct"}, i : Nat \ {0}]
      BY <2>1 DEF Types
    <2>3. Permuted /\ Permuted'
      BY <2>1, <2>2 DEF Permuted
    <2>4. CASE UNCHANGED <<layout, inj, boundary, unlocked>>
      BY <2>1, <2>2, <2>3, <2>4 DEF Types, StartsEmpty, NumberingSound, MapsInverse, LaidOutAlike, BoundaryLast,
                              FactorsCurrent, MonitorCurrent, layout, unlocked, k, Of
    <2>5. ASSUME NEW p \in PI, ~ InBoundary(p), SwapPlaces(p, num[p], SwitchPi - k - 1),
                 raced' = (raced \/ monitor.of # {}), monitor' = monitor
          PROVE  Inv'
      <3>1. /\ NumberingSound' /\ boundary' \in Seq(PI)
            /\ at' \in [Index -> PI] /\ num' \in [PI -> Index] /\ inj' \in [Index -> Entries]
        BY <2>3, <2>5, SwapSound
      <3>2. MonitorCurrent' /\ raced' \in BOOLEAN
        BY <2>3, <2>5 DEF MonitorCurrent, Types
      <3>3. QED
        BY <2>1, <2>2, <2>5, <3>1, <3>2 DEF Types, StartsEmpty, FactorsCurrent
    <2>6. Local[conns[doing.i]] \in PI
      BY <2>1, ComponentAssumption DEF Types
    <2>7. QED
      BY <1>5, <2>4, <2>5, <2>6 DEF DynamicReconstruct, unlocked
  <1>6. CASE SendInfo
    <2>1. doing.step = "reconstruct" /\ UNCHANGED <<layout, inj, links, unlocked>>
      BY <1>6 DEF SendInfo
    <2>2. CASE Factors /\ doing' = [step |-> "answer", i |-> 0]
      <3>1. rowA = at
        BY <2>1 DEF NumberingSound, LaidOutAlike, Permuted
      <3>2. facs'.order = at' /\ facs'.size = k'
        BY <2>1, <2>2, <3>1 DEF Factors, layout, links, unlocked, k
      <3>3. facs' \in [state : {"null", "live", "freed"}, order : {<<>>} \cup [Index -> PI], size : Nat]
        BY <2>1, <2>2, <3>1 DEF Factors, Types, Permuted, k
      <3>4. Types' /\ StartsEmpty' /\ NumberingSound' /\ MonitorCurrent'
        BY <2>1, <2>2, <3>3 DEF Types, StartsEmpty, NumberingSound, MapsInverse, LaidOutAlike, BoundaryLast,
                          MonitorCurrent, Permuted, layout, links, unlocked, k, Of
      <3>5. QED
        BY <3>2, <3>4 DEF FactorsCurrent
    <2>3. CASE UNCHANGED <<facs, doing>>
      BY <2>1, <2>3 DEF Types, StartsEmpty, NumberingSound, MapsInverse, LaidOutAlike, BoundaryLast,
                        FactorsCurrent, MonitorCurrent, Permuted, layout, links, unlocked, k, Of
    <2>4. QED
      BY <1>6, <2>2, <2>3 DEF SendInfo
  <1>7. CASE ReceiveVoltages
    <2>1. /\ doing.step = "answer" /\ UNCHANGED <<layout, facs, links, unlocked>>
          /\ doing' = [step |-> "idle", i |-> 0]
          /\ inj' = [i \in Index |-> IF Touched(i) THEN [inj[i] EXCEPT !.cut = TRUE] ELSE inj[i]]
      BY <1>7 DEF ReceiveVoltages
    <2>2. inj \in [Index -> Entries] /\ (raced \/ Of(inj) = at)
      BY <2>1 DEF Types, Permuted, NumberingSound, LaidOutAlike
    <2>3. inj' \in [Index -> Entries] /\ \A i \in Index : inj'[i].of = inj[i].of
      <3>1. \A e \in Entries : [e EXCEPT !.cut = TRUE] \in Entries /\ [e EXCEPT !.cut = TRUE].of = e.of
        BY DEF Entries
      <3>2. \A i \in Index : inj[i] \in Entries
        BY <2>2
      <3>3. \A i \in Index : inj'[i] = IF Touched(i) THEN [inj[i] EXCEPT !.cut = TRUE] ELSE inj[i]
        BY <2>1
      <3>4. \A i \in Index : inj'[i] \in Entries /\ inj'[i].of = inj[i].of
        BY <3>1, <3>2, <3>3
      <3>5. QED
        BY <2>1, <3>4
    <2>4. Of(inj) = at => Of(inj)' = at
      <3>1. at \in [Index -> PI] /\ (Of(inj) = at => \A i \in Index : inj[i].of = at[i])
        BY <2>1, <2>2 DEF Types, Permuted, Of
      <3>2. QED
        BY <2>3, <3>1 DEF Of
    <2>5. QED
      BY <2>1, <2>2, <2>3, <2>4, LayoutKept DEF Permuted
  <1>8. CASE DynamicUpdate \/ DynamicCoordinatedLoadUpdate
    <2>1. doing.step = "idle" /\ inj' = Injected /\ UNCHANGED <<layout, facs, links, doing, unlocked>>
      BY <1>8 DEF DynamicUpdate, DynamicCoordinatedLoadUpdate, SendUpdate, Idle
    <2>2. Injected \in [Index -> Entries] /\ (raced \/ Of(inj)' = at)
      BY <1>1, <2>1 DEF Of
    <2>3. QED
      BY <2>1, <2>2 DEF Types, StartsEmpty, NumberingSound, MapsInverse, LaidOutAlike, BoundaryLast,
                        FactorsCurrent, MonitorCurrent, Permuted, layout, links, unlocked, k
  <1>9. CASE DynamicCoordinatedBoundaryUpdate
    BY <1>9 DEF DynamicCoordinatedBoundaryUpdate, Types, StartsEmpty, NumberingSound, MapsInverse,
                LaidOutAlike, BoundaryLast, FactorsCurrent, MonitorCurrent, Permuted, layout, links, unlocked, k, Of
  <1>10. CASE Restore
    <2>1. /\ doing.step = "idle" /\ inj' = Injected /\ UNCHANGED <<layout, doing, unlocked>>
          /\ boundary' = <<>> /\ conns' = <<>> /\ facs'.state # "live"
          /\ facs' \in [state : {"null", "live", "freed"}, order : {<<>>} \cup [Index -> PI], size : Nat]
      BY <1>10 DEF Restore, ReturnSimulate, Idle, Types
    <2>2. Injected \in [Index -> Entries] /\ (raced \/ Of(inj)' = at)
      BY <1>1, <2>1 DEF Of
    <2>3. k' = 0
      BY <2>1 DEF k
    <2>4. Types' /\ StartsEmpty' /\ FactorsCurrent' /\ MonitorCurrent'
      BY <2>1, <2>2 DEF Types, StartsEmpty, FactorsCurrent, MonitorCurrent, Permuted, layout, unlocked
    <2>5. NumberingSound'
      BY <2>1, <2>2, <2>3, ComponentAssumption
         DEF NumberingSound, MapsInverse, LaidOutAlike, BoundaryLast, Permuted, layout, unlocked
    <2>6. QED
      BY <2>4, <2>5
  <1>11. CASE UNCHANGED vars
    BY <1>11 DEF vars, Types, StartsEmpty, NumberingSound, MapsInverse, LaidOutAlike, BoundaryLast,
                 FactorsCurrent, MonitorCurrent, Permuted, layout, links, unlocked, k, Of
  <1>12. CASE MonitorUpdate
    BY <1>12, MonitorKeeps, MonitorInv
       DEF Types, StartsEmpty, NumberingSound, MapsInverse, LaidOutAlike, BoundaryLast,
           FactorsCurrent, Permuted, layout, links, k
  <1>13. QED
    BY <1>2, <1>3, <1>4, <1>5, <1>6, <1>7, <1>8, <1>9, <1>10, <1>11, <1>12 DEF Next

(* Whatever joins, pushes, updates, monitor calls and returns come: the    *)
(* two maps stay inverse to each other, A, B and I are laid out by them,   *)
(* and the boundary has the last numbers in its order (DynamicReconstruct, *)
(* connected_component.cpp:1486-1537).                                     *)
THEOREM NumberingCorrect == FullSpec => []NumberingSound
  <1>1. Inv => NumberingSound
    BY DEF Inv
  <1>2. QED
    BY <1>1, InitInv, NextInv, PTL DEF FullSpec

(* When a push or an update may use the matrices of the last join, they    *)
(* are of the present numbering and boundary.                              *)
THEOREM FactorsCorrect == FullSpec => []FactorsFit
  <1>1. Inv => FactorsFit
    BY DEF Inv, FactorsCurrent, FactorsFit, Idle
  <1>2. QED
    BY <1>1, InitInv, NextInv, PTL DEF FullSpec

-----------------------------------------------------------------------------
(* The numberings that the inverse and the slaves' blocks were made for.   *)
(* A component that is not joined has the inverse of its present           *)
(* numbering, and until its first return also blocks of it; an answer is   *)
(* worked up with the matrices that were made for it.                      *)
SolversFit ==
    /\ doing.step = "start" => ~ dynamic /\ ~ restored
    /\ doing.step = "idle" /\ ~ dynamic => ainv = at /\ (~ restored => blocks = at)
    /\ doing.step \in {"reconstruct", "answer"} => dynamic
    /\ doing.step = "answer" => facs.state = "live"

LEMMA SolversInit == Init => SolversFit
  BY DEF Init, SolversFit

LEMMA SolversStep == Inv /\ SolversFit /\ [Next \/ Restore]_vars => SolversFit'
  <1> SUFFICES ASSUME Inv, SolversFit, [Next \/ Restore]_vars
               PROVE  SolversFit'
    OBVIOUS
  <1> USE DEF SolversFit
  <1>1. CASE Simulate
    BY <1>1 DEF Simulate, links
  <1>2. CASE Update \/ MonitorUpdate
    BY <1>2, MonitorKeeps DEF Update, layout, links
  <1>3. ASSUME NEW m \in Messages, DynamicSimulate(m)
        PROVE  SolversFit'
    BY <1>3 DEF DynamicSimulate
  <1>4. CASE DynamicReconstruct
    <2>1. doing.step = "reconstruct" /\ doing' = [doing EXCEPT !.i = @ + 1] /\ dynamic' = dynamic
      BY <1>4 DEF DynamicReconstruct
    <2>2. doing'.step = "reconstruct"
      BY <2>1 DEF Inv, Types
    <2>3. QED
      BY <2>1, <2>2
  <1>5. CASE SendInfo
    BY <1>5 DEF SendInfo, Factors, links
  <1>6. CASE ReceiveVoltages
    BY <1>6 DEF ReceiveVoltages, links
  <1>7. CASE DynamicUpdate \/ DynamicCoordinatedLoadUpdate
    BY <1>7 DEF DynamicUpdate, DynamicCoordinatedLoadUpdate, SendUpdate, layout, links
  <1>8. CASE DynamicCoordinatedBoundaryUpdate
    BY <1>8 DEF DynamicCoordinatedBoundaryUpdate, layout, links
  <1>9. CASE Restore
    <2>1. doing.step = "idle" /\ doing' = doing /\ ainv' = rowA /\ at' = at /\ restored' = TRUE
      BY <1>9 DEF Restore, ReturnSimulate, Idle, layout
    <2>2. rowA = at
      BY <2>1 DEF Inv, NumberingSound, LaidOutAlike, Permuted
    <2>3. QED
      BY <2>1, <2>2
  <1>10. CASE UNCHANGED vars
    BY <1>10 DEF vars, layout, links
  <1>11. QED
    BY <1>1, <1>2, <1>3, <1>4, <1>5, <1>6, <1>7, <1>8, <1>9, <1>10 DEF Next

LEMMA LinesStep == Inv /\ SolversFit /\ LinesFit /\ [Next \/ Restore]_vars => LinesFit'
  <1> SUFFICES ASSUME Inv, SolversFit, LinesFit, [Next \/ Restore]_vars
               PROVE  LinesFit'
    OBVIOUS
  <1>0. Permuted => /\ raced \/ (Of(Injected) = at /\ Of(inj) = at)
                    /\ colB = at /\ rowA = at
    BY InjectedLayout DEF Inv, Types, NumberingSound, LaidOutAlike
  <1>1. ASSUME UNCHANGED lines, UNCHANGED place, restored => restored', raced => raced'
        PROVE  LinesFit'
    BY <1>1 DEF LinesFit, IsDistributed
  <1>2. ASSUME NEW by, NEW order, Solved(by, order, Injected), Permuted, order = at,
               UNCHANGED <<place, raced>>, restored => restored'
        PROVE  LinesFit'
    <2>1. raced \/ Fits(order, Injected)
      BY <1>0, <1>2 DEF Fits
    <2>2. raced \/ lines' = IF Lines = {} THEN lines ELSE [by |-> by, fits |-> TRUE]
      BY <1>2, <2>1 DEF Solved
    <2>3. QED
      BY <1>1, <1>2, <2>2 DEF LinesFit
  <1>3. CASE Simulate
    BY <1>1, <1>3 DEF Simulate, LinesFit, unlocked
  <1>4. CASE Update
    <2>1. /\ doing.step = "idle" /\ ~ dynamic /\ Permuted
          /\ UNCHANGED <<place, restored, raced>>
          /\ LocalUpdate("update", Injected) \/ DistributedUpdate("update", Injected)
      BY <1>4 DEF Update, Idle, Permuted, unlocked
    <2>2. CASE LocalUpdate("update", Injected)
      BY <1>2, <2>1, <2>2 DEF LocalUpdate, SolversFit
    <2>3. CASE DistributedUpdate("update", Injected) /\ ~ restored
      BY <1>2, <2>1, <2>3 DEF DistributedUpdate, SolversFit
    <2>4. CASE DistributedUpdate("update", Injected) /\ restored
      <3>1. IsDistributed' /\ Lines # {}
        BY <2>1, <2>4 DEF DistributedUpdate, IsDistributed
      <3>2. lines'.by = "update"
        BY <2>4, <3>1 DEF DistributedUpdate, Solved
      <3>3. QED
        BY <2>1, <2>4, <3>1, <3>2 DEF LinesFit
    <2>5. QED
      BY <2>1, <2>2, <2>3, <2>4
  <1>5. CASE MonitorUpdate
    <2>1. /\ UNCHANGED <<place, restored, raced>>
          /\ lines' = lines \/ \E order : Solved("monitor", order, inj)
      BY <1>5, MonitorKeeps
    <2>2. lines' = lines \/ lines'.by = "monitor"
      BY <2>1 DEF Solved
    <2>3. QED
      BY <1>1, <2>1, <2>2 DEF LinesFit
  <1>6. ASSUME NEW m \in Messages, DynamicSimulate(m)
        PROVE  LinesFit'
    BY <1>1, <1>6 DEF DynamicSimulate, unlocked
  <1>7. CASE DynamicReconstruct
    <2>1. raced => raced'
      BY <1>7 DEF DynamicReconstruct
    <2>2. QED
      BY <1>1, <1>7, <2>1 DEF DynamicReconstruct
  <1>8. CASE SendInfo
    BY <1>1, <1>8 DEF SendInfo, unlocked
  <1>9. CASE ReceiveVoltages
    <2>1. doing.step = "answer" /\ Permuted /\ raced' = raced
      BY <1>9 DEF ReceiveVoltages, Permuted, unlocked
    <2>2. facs.order = at
      BY <2>1 DEF SolversFit, Inv, FactorsCurrent
    <2>3. raced \/ lines' = [by |-> "join", fits |-> TRUE]
      BY <1>0, <1>9, <2>1, <2>2 DEF ReceiveVoltages, Fits
    <2>4. QED
      BY <2>1, <2>3 DEF LinesFit
  <1>10. CASE DynamicUpdate \/ DynamicCoordinatedLoadUpdate
    BY <1>1, <1>10 DEF DynamicUpdate, DynamicCoordinatedLoadUpdate, SendUpdate, unlocked
  <1>11. CASE DynamicCoordinatedBoundaryUpdate
    <2>1. doing.step = "idle" /\ Permuted /\ UNCHANGED <<place, restored, raced>>
      BY <1>11 DEF DynamicCoordinatedBoundaryUpdate, Idle, Permuted, unlocked
    <2>2. CASE lines' = lines
      BY <1>1, <2>1, <2>2
    <2>3. CASE facs.state = "live" /\ lines' = [by |-> "push", fits |-> Fits(facs.order, inj)]
      <3>1. facs.order = at
        BY <2>1, <2>3 DEF Inv, FactorsCurrent
      <3>2. raced \/ Fits(facs.order, inj)
        BY <1>0, <2>1, <3>1 DEF Fits
      <3>3. QED
        BY <2>1, <2>3, <3>2 DEF LinesFit
    <2>4. QED
      BY <1>11, <2>2, <2>3 DEF DynamicCoordinatedBoundaryUpdate
  <1>12. CASE Restore
    BY <1>0, <1>2, <1>12 DEF Restore, ReturnSimulate, Idle, Permuted, unlocked
  <1>13. CASE UNCHANGED vars
    BY <1>1, <1>13 DEF vars, unlocked
  <1>14. QED
    BY <1>3, <1>4, <1>5, <1>6, <1>7, <1>8, <1>9, <1>10, <1>11, <1>12, <1>13 DEF Next

(* The currents of the lines are computed from matrices and a vector of    *)
(* one numbering by the first calculation, every update, join, push and    *)
(* return, but for the two places where the code uses what was made before *)
(* the join: the storage monitor's update, and the slaves' blocks after a  *)
(* return.                                                                 *)
THEOREM LinesCorrect == FullSpec => []LinesFit
  <1>1. Init => LinesFit
    BY DEF Init, LinesFit
  <1>2. QED
    BY <1>1, InitInv, NextInv, SolversInit, SolversStep, LinesStep, PTL DEF FullSpec

-----------------------------------------------------------------------------
(* A component that joins and is more than its boundary: it has a line,    *)
(* and an interface that no dynamic connection is of.                      *)
HasInterior == Lines # {} /\ \E p \in PI : \A c \in Connection : Local[c] # p

(* The boundary is made of interfaces of dynamic connections.              *)
BoundaryLocal == \A i \in 1 .. k : \E c \in Connection : boundary[i] = Local[c]

(* Before the first return the matrices of the last join are there         *)
(* whenever a handler uses them, and the boundary is not empty.            *)
StopInv ==
    /\ BoundaryLocal
    /\ ~ restored =>
         /\ status = "running" \/ ~ dynamic
         /\ facs.state # "freed"
         /\ doing.step = "reconstruct" => Len(conns) > 0 /\ (doing.i > 1 => k > 0)
         /\ doing.step \in {"idle", "answer"} /\ dynamic => facs.state = "live" /\ k > 0

LEMMA StopInit == Init => StopInv
  BY DEF Init, StopInv, BoundaryLocal, NoFacs, k

(* The boundary does not take in all the places.                           *)
LEMMA InteriorLeft ==
    ASSUME HasInterior, Inv, BoundaryLocal, Permuted
    PROVE  k < SwitchPi
  <1>1. k \in Nat /\ k <= SwitchPi
    BY DEF Inv, Types, NumberingSound, BoundaryLast, k
  <1>2. PICK p \in PI : \A c \in Connection : Local[c] # p
    BY DEF HasInterior
  <1>3. num[p] \in Index /\ at[num[p]] = p
    BY DEF Inv, Types, NumberingSound, MapsInverse
  <1>4. ASSUME k = SwitchPi
        PROVE  FALSE
    <2>1. num[p] + 1 \in 1 .. k /\ SwitchPi - k - 1 + (num[p] + 1) = num[p]
      BY <1>3, <1>4, ComponentAssumption DEF Index
    <2>2. at[num[p]] = boundary[num[p] + 1]
      BY <2>1 DEF Inv, NumberingSound, BoundaryLast
    <2>3. QED
      BY <1>2, <1>3, <2>1, <2>2 DEF BoundaryLocal
  <1>5. QED
    BY <1>1, <1>4, ComponentAssumption

LEMMA StopStep ==
    ASSUME HasInterior
    PROVE  Inv /\ SolversFit /\ StopInv /\ [Next \/ Restore]_vars => StopInv'
  <1> SUFFICES ASSUME Inv, SolversFit, StopInv, [Next \/ Restore]_vars
               PROVE  StopInv'
    OBVIOUS
  <1>0. ASSUME UNCHANGED <<boundary, conns, dynamic, facs, doing, status, restored>>
        PROVE  StopInv'
    BY <1>0 DEF StopInv, BoundaryLocal, k
  <1>1. CASE Simulate
    BY <1>1 DEF Simulate, StopInv, BoundaryLocal, k, links, Inv, StartsEmpty, SolversFit
  <1>2. CASE Update \/ MonitorUpdate
    BY <1>0, <1>2, MonitorKeeps DEF Update, links
  <1>3. ASSUME NEW m \in Messages, DynamicSimulate(m)
        PROVE  StopInv'
    <2>1. /\ m # <<>> /\ conns' = Reversed(m) \o conns
          /\ doing' = [step |-> "reconstruct", i |-> 1]
          /\ UNCHANGED <<facs, boundary, status, restored>> /\ status = "running"
      BY <1>3 DEF DynamicSimulate, Idle
    <2>2. m \in Seq(Connection) /\ conns \in Seq(Connection)
      BY ComponentAssumption DEF Inv, Types
    <2>3. Reversed(m) \in Seq(Connection) /\ Len(Reversed(m)) = Len(m) /\ Len(m) > 0
      BY <2>1, <2>2 DEF Reversed
    <2>4. Len(conns') > 0
      BY <2>1, <2>2, <2>3
    <2>5. QED
      BY <2>1, <2>4 DEF StopInv, BoundaryLocal, k
  <1>4. CASE DynamicReconstruct
    <2>1. /\ doing.step = "reconstruct" /\ doing.i \in 1 .. Len(conns)
          /\ doing' = [doing EXCEPT !.i = @ + 1]
          /\ UNCHANGED <<facs, conns, dynamic, restored>>
      BY <1>4 DEF DynamicReconstruct, Inv, Types
    <2>2. doing'.step = "reconstruct" /\ k \in Nat
      BY <2>1 DEF Inv, Types, k
    <2> DEFINE p == Local[conns[doing.i]]
    <2>3. conns[doing.i] \in Connection /\ p \in PI
      BY <2>1, ComponentAssumption DEF Inv, Types
    <2> HIDE DEF p
    <2>4. CASE InBoundary(p) /\ UNCHANGED <<boundary, status>>
      <3>1. k > 0 /\ k' = k
        BY <2>2, <2>4 DEF InBoundary, k
      <3>2. QED
        BY <2>1, <2>2, <2>4, <3>1 DEF StopInv, BoundaryLocal
    <2>5. CASE SwapPlaces(p, num[p], SwitchPi - k - 1) /\ status' = status
      <3>1. boundary' = <<p>> \o boundary /\ boundary \in Seq(PI)
        BY <2>5 DEF SwapPlaces, Inv, Types
      <3>2. k' = k + 1 /\ boundary'[1] = p /\ \A i \in 2 .. k + 1 : boundary'[i] = boundary[i - 1]
        BY <2>3, <3>1 DEF k
      <3>3. BoundaryLocal'
        <4>1. \E c \in Connection : boundary'[1] = Local[c]
          BY <2>3, <3>2 DEF p
        <4>2. ASSUME NEW i \in 2 .. k + 1
              PROVE  \E c \in Connection : boundary'[i] = Local[c]
          <5>1. i - 1 \in 1 .. k
            BY <2>2
          <5>2. QED
            BY <3>2, <5>1 DEF StopInv, BoundaryLocal
        <4>3. \A i \in 1 .. k + 1 : i = 1 \/ i \in 2 .. k + 1
          BY <2>2
        <4>4. QED
          BY <3>2, <4>1, <4>2, <4>3 DEF BoundaryLocal
      <3>4. QED
        BY <2>1, <2>2, <2>5, <3>2, <3>3 DEF StopInv
    <2>6. QED
      BY <1>4, <2>4, <2>5 DEF DynamicReconstruct, HasInterior, p
  <1>5. CASE SendInfo
    <2>1. doing.step = "reconstruct" /\ doing.i > Len(conns) /\ UNCHANGED <<links, restored>>
      BY <1>5 DEF SendInfo
    <2>2. k < SwitchPi /\ k \in Nat
      BY <2>1, InteriorLeft DEF StopInv, Permuted, Inv, Types, k
    <2>3. ~ (k >= SwitchPi)
      BY <2>2, ComponentAssumption
    <2>4. ~ restored => k > 0
      <3> SUFFICES ASSUME ~ restored PROVE k > 0
        OBVIOUS
      <3>1. Len(conns) > 0 /\ Len(conns) \in Nat /\ doing.i \in Nat
        BY <2>1 DEF StopInv, Inv, Types
      <3>2. doing.i > 1
        BY <2>1, <3>1
      <3>3. QED
        BY <2>1, <3>2 DEF StopInv
    <2>5. k' = k /\ (BoundaryLocal => BoundaryLocal')
      BY <2>1 DEF links, k, BoundaryLocal
    <2>6. CASE Factors /\ doing' = [step |-> "answer", i |-> 0] /\ status' = status
      BY <2>1, <2>4, <2>5, <2>6 DEF StopInv, Factors, links
    <2>7. CASE facs.state = "freed"
      BY <2>1, <2>5, <2>7 DEF StopInv
    <2>8. QED
      BY <1>5, <2>3, <2>6, <2>7 DEF SendInfo
  <1>6. CASE ReceiveVoltages
    BY <1>6 DEF ReceiveVoltages, StopInv, SolversFit, BoundaryLocal, links, k
  <1>7. CASE DynamicUpdate \/ DynamicCoordinatedLoadUpdate
    <2>1. /\ doing.step = "idle" /\ SendUpdate
          /\ UNCHANGED <<boundary, conns, dynamic, facs, doing, restored>>
      BY <1>7 DEF DynamicUpdate, DynamicCoordinatedLoadUpdate, SendUpdate, Idle, links
    <2>2. ~ restored /\ dynamic => status' = status
      BY <2>1 DEF StopInv, SendUpdate, Inv, FactorsCurrent
    <2>3. QED
      BY <2>1, <2>2 DEF StopInv, BoundaryLocal, k
  <1>8. CASE DynamicCoordinatedBoundaryUpdate
    <2>1. /\ doing.step = "idle"
          /\ UNCHANGED <<boundary, conns, dynamic, facs, doing, restored>>
      BY <1>8 DEF DynamicCoordinatedBoundaryUpdate, Idle, links
    <2>2. ~ restored /\ dynamic => facs.state = "live" /\ facs.size = k
      BY <2>1 DEF StopInv, Inv, FactorsCurrent
    <2>3. ~ restored /\ dynamic => status' = status
      BY <1>8, <2>2 DEF DynamicCoordinatedBoundaryUpdate
    <2>4. QED
      BY <2>1, <2>3 DEF StopInv, BoundaryLocal, k
  <1>9. CASE Restore
    BY <1>9 DEF Restore, StopInv, BoundaryLocal, k
  <1>10. CASE UNCHANGED vars
    BY <1>0, <1>10 DEF vars, links
  <1>11. QED
    BY <1>1, <1>2, <1>3, <1>4, <1>5, <1>6, <1>7, <1>8, <1>9, <1>10 DEF Next

(* A component with a line and an interface that no connection is of never *)
(* stops the simulator while it is joined, before its first return: no     *)
(* sequence of joins, pushes of shares and of voltages, and updates uses a *)
(* matrix that is not there, has another size or is freed.                 *)
THEOREM JoinedRunsUntilReturn ==
    ASSUME HasInterior
    PROVE  FullSpec => []JoinedNeverStops
  <1>1. StopInv => JoinedNeverStops
    BY DEF StopInv, JoinedNeverStops
  <1>2. Inv /\ SolversFit /\ StopInv /\ [Next \/ Restore]_vars => StopInv'
    BY StopStep
  <1>3. QED
    BY <1>1, <1>2, InitInv, NextInv, SolversInit, SolversStep, StopInit, PTL DEF FullSpec

-----------------------------------------------------------------------------
(* "one to one connection. one target only" (coordinator.cpp:215): every   *)
(* connection has an interface of its own, and a message names it once.    *)
OneToOneConnections ==
    /\ \A c, d \in Connection : Local[c] = Local[d] => c = d
    /\ \A m \in Messages : \A i, j \in 1 .. Len(m) : m[i] = m[j] => i = j

(* Since the last return only the message m has come.  In front of the     *)
(* connections there is m, back to front, and then only more of the same;  *)
(* boundary_set is those connections' interfaces, back to front, as far as *)
(* the loop has got, and all of them when it is over.                      *)
OneMessage(m) ==
    /\ Len(m) <= Len(conns)
    /\ \A i \in 1 .. Len(m) : conns[i] = m[Len(m) + 1 - i]
    /\ \A i \in 1 .. Len(conns) : \E j \in 1 .. Len(m) : conns[i] = m[j]
    /\ k <= Len(m)
    /\ \A i \in 1 .. k : boundary[i] = Local[conns[k + 1 - i]]
    /\ doing.step \in {"idle", "answer"} => k = Len(m)
    /\ status = "running" /\ doing.step = "reconstruct" =>
          \A j \in 1 .. Len(m) : j < doing.i => j <= k

PairInv ==
    /\ joined \subseteq Messages /\ IsFiniteSet(joined)
    /\ doing.step = "start" => joined = {}
    /\ joined = {} => conns = <<>> /\ boundary = <<>>
    /\ \A m \in Messages : joined = {m} => OneMessage(m)
    /\ MessagePaired

LEMMA PairInit == Init => PairInv
  <1> SUFFICES ASSUME Init PROVE PairInv
    OBVIOUS
  <1>1. joined = {} /\ conns = <<>> /\ boundary = <<>> /\ doing.step = "start"
    BY DEF Init
  <1>2. IsFiniteSet(joined) /\ Cardinality(joined) = 0
    BY <1>1, FS_EmptySet
  <1>3. QED
    BY <1>1, <1>2 DEF PairInv, MessagePaired

\* a step that leaves the connections, the boundary and the loop alone
LEMMA PairKept ==
    ASSUME PairInv, UNCHANGED <<conns, boundary, joined, sent>>,
           doing'.step = "answer" => doing.step = "answer",
           doing'.step \in {"idle", "answer"} => doing.step \in {"idle", "answer"},
           doing'.step = "reconstruct" /\ status' = "running" => doing' = doing /\ status' = status,
           doing'.step = "start" => doing.step = "start"
    PROVE  PairInv'
  <1>1. MessagePaired'
    BY DEF PairInv, MessagePaired
  <1>2. ASSUME NEW m \in Messages, joined' = {m}
        PROVE  OneMessage(m)'
    BY <1>2 DEF PairInv, OneMessage, k
  <1>3. QED
    BY <1>1, <1>2 DEF PairInv

(* A message in front of what is there.                                    *)
LEMMA PairJoin ==
    ASSUME Inv, PairInv, NEW n \in Messages, DynamicSimulate(n)
    PROVE  PairInv'
  <1>1. /\ doing.step = "idle" /\ conns' = Reversed(n) \o conns
        /\ doing' = [step |-> "reconstruct", i |-> 1]
        /\ joined' = joined \cup {n} /\ boundary' = boundary
    BY DEF DynamicSimulate, Idle
  <1>2. n \in Seq(Connection) /\ conns \in Seq(Connection) /\ boundary \in Seq(PI)
    BY ComponentAssumption DEF Inv, Types
  <1>3. /\ Reversed(n) \in Seq(Connection) /\ Len(Reversed(n)) = Len(n)
        /\ \A i \in 1 .. Len(n) : Reversed(n)[i] = n[Len(n) + 1 - i]
    BY <1>2 DEF Reversed
  <1>4. /\ Len(conns') = Len(n) + Len(conns)
        /\ \A i \in 1 .. Len(n) : conns'[i] = n[Len(n) + 1 - i]
        /\ \A i \in 1 .. Len(n) + Len(conns) : i > Len(n) => conns'[i] = conns[i - Len(n)]
    <2> DEFINE r == Reversed(n)
    <2>1. r \in Seq(Connection) /\ Len(r) = Len(n) /\ conns' = r \o conns
      BY <1>1, <1>3
    <2>2. \A i \in 1 .. Len(n) : r[i] = n[Len(n) + 1 - i]
      BY <1>3
    <2> HIDE DEF r
    <2>3. /\ Len(r \o conns) = Len(r) + Len(conns)
          /\ \A i \in 1 .. Len(r) + Len(conns) :
                (r \o conns)[i] = IF i <= Len(r) THEN r[i] ELSE conns[i - Len(r)]
      BY <1>2, <2>1, ConcatProperties
    <2> DEFINE c == r \o conns
    <2>4. conns' = c
      BY <2>1
    <2>5. Len(c) = Len(n) + Len(conns) /\ Len(n) \in Nat /\ Len(conns) \in Nat
      BY <1>2, <2>1, <2>3
    <2>6. \A i \in 1 .. Len(n) + Len(conns) : c[i] = IF i <= Len(n) THEN r[i] ELSE conns[i - Len(n)]
      BY <2>1, <2>3
    <2> HIDE DEF c
    <2>7. QED
      BY <2>2, <2>4, <2>5, <2>6
  <1>5. ASSUME NEW m \in Messages, joined' = {m}
        PROVE  OneMessage(m)'
    <2>1. m = n /\ (joined = {} \/ joined = {m})
      BY <1>1, <1>5
    <2>2. Len(m) \in Nat /\ Len(conns) \in Nat /\ k \in Nat /\ k' = k
      BY <1>1, <1>2, <2>1 DEF k
    <2>3. \A i \in 1 .. Len(m) : Len(m) + 1 - i \in 1 .. Len(m)
      BY <2>2
    <2>4. ASSUME NEW i \in 1 .. Len(conns')
          PROVE  \E j \in 1 .. Len(m) : conns'[i] = m[j]
      <3>1. CASE i <= Len(m)
        BY <1>4, <2>1, <2>2, <2>3, <3>1
      <3>2. CASE i > Len(m)
        <4>1. i - Len(m) \in 1 .. Len(conns) /\ conns'[i] = conns[i - Len(m)]
          BY <1>4, <2>1, <2>2, <3>2
        <4>2. joined = {m}
          <5>1. joined # {}
            BY <2>2, <4>1 DEF PairInv
          <5>2. QED
            BY <2>1, <5>1
        <4>3. QED
          BY <4>1, <4>2 DEF PairInv, OneMessage
      <3>3. QED
        BY <1>4, <2>1, <2>2, <3>1, <3>2
    <2>5. k <= Len(m) /\ \A i \in 1 .. k : boundary[i] = Local[conns'[k + 1 - i]]
      <3>1. CASE joined = {}
        BY <2>2, <3>1 DEF PairInv, k
      <3>2. CASE joined = {m}
        <4>1. /\ k = Len(m) /\ Len(m) <= Len(conns)
              /\ \A i \in 1 .. k : boundary[i] = Local[conns[k + 1 - i]]
              /\ \A i \in 1 .. Len(m) : conns[i] = m[Len(m) + 1 - i]
          BY <1>1, <3>2 DEF PairInv, OneMessage
        <4>2. \A i \in 1 .. Len(m) : conns'[i] = conns[i]
          BY <1>4, <2>1, <4>1
        <4>3. QED
          BY <2>2, <4>1, <4>2
      <3>3. QED
        BY <2>1, <3>1, <3>2
    <2>6. Len(m) <= Len(conns')
      BY <1>4, <2>1, <2>2
    <2>7. \A i \in 1 .. Len(m) : conns'[i] = m[Len(m) + 1 - i]
      BY <1>4, <2>1
    <2>8. doing'.step = "reconstruct" /\ doing'.i = 1
      BY <1>1
    <2>9. k' <= Len(m) /\ \A i \in 1 .. k' : boundary'[i] = Local[conns'[k' + 1 - i]]
      BY <1>1, <2>2, <2>5
    <2>10. \A j \in 1 .. Len(m) : ~ j < doing'.i
      BY <2>2, <2>8
    <2>11. doing'.step \notin {"idle", "answer"}
      BY <2>8
    <2>12. QED
      BY <2>4, <2>6, <2>7, <2>9, <2>10, <2>11 DEF OneMessage
  <1>6. joined' \subseteq Messages /\ IsFiniteSet(joined') /\ joined' # {}
    BY <1>1, FS_AddElement DEF PairInv
  <1>7. MessagePaired'
    BY <1>1 DEF MessagePaired
  <1>8. QED
    BY <1>1, <1>5, <1>6, <1>7 DEF PairInv
(* One turn of the loop: a connection whose interface is in the boundary   *)
(* is one that has been there; any other is the next of the message.       *)
LEMMA PairTurn ==
    ASSUME OneToOneConnections, Inv, PairInv, DynamicReconstruct
    PROVE  PairInv'
  <1>1. /\ doing.step = "reconstruct" /\ status = "running"
        /\ doing.i \in 1 .. Len(conns)
        /\ doing' = [doing EXCEPT !.i = @ + 1]
        /\ UNCHANGED <<conns, joined, sent>>
    BY DEF DynamicReconstruct, Inv, Types
  <1>2. /\ conns \in Seq(Connection) /\ boundary \in Seq(PI)
        /\ k \in Nat /\ Len(conns) \in Nat /\ doing.i \in Nat
    BY DEF Inv, Types, k
  <1>3. doing'.step = "reconstruct" /\ doing'.i = doing.i + 1
    BY <1>1 DEF Inv, Types
  <1> DEFINE x == doing.i
             p == Local[conns[x]]
  <1>4. x \in 1 .. Len(conns) /\ conns[x] \in Connection /\ p \in PI
    BY <1>1, <1>2, ComponentAssumption
  <1>5. \/ InBoundary(p) /\ UNCHANGED <<boundary, status>>
        \/ ~ InBoundary(p) /\ boundary' = <<p>> \o boundary /\ status' = status
        \/ status' = "gslError" /\ UNCHANGED boundary
    BY DEF DynamicReconstruct, SwapPlaces
  <1>6. ASSUME NEW m \in Messages, joined' = {m}
        PROVE  OneMessage(m)'
    <2>1. OneMessage(m)
      BY <1>1, <1>6 DEF PairInv
    <2>2. m \in Seq(Connection) /\ Len(m) \in Nat /\ \A j \in 1 .. Len(m) : m[j] \in Connection
      BY ComponentAssumption, ElementOfSeq
    <2>3. \A j \in 1 .. Len(m) : j < x => j <= k
      BY <1>1, <2>1 DEF OneMessage
    <2>4. ASSUME NEW i \in 1 .. Len(m), NEW j \in 1 .. Len(m), Local[conns[i]] = Local[conns[j]]
          PROVE  i = j
      <3>1. /\ Len(m) + 1 - i \in 1 .. Len(m) /\ conns[i] = m[Len(m) + 1 - i]
            /\ Len(m) + 1 - j \in 1 .. Len(m) /\ conns[j] = m[Len(m) + 1 - j]
        <4>1. Len(m) + 1 - i \in 1 .. Len(m) /\ Len(m) + 1 - j \in 1 .. Len(m)
          BY <2>2
        <4>2. conns[i] = m[Len(m) + 1 - i] /\ conns[j] = m[Len(m) + 1 - j]
          BY <2>1 DEF OneMessage
        <4>3. QED
          BY <4>1, <4>2
      <3>2. m[Len(m) + 1 - i] = m[Len(m) + 1 - j]
        BY <2>2, <2>4, <3>1 DEF OneToOneConnections
      <3>3. Len(m) + 1 - i = Len(m) + 1 - j
        BY <3>1, <3>2 DEF OneToOneConnections
      <3>4. QED
        BY <2>2, <3>3
    <2>5. ASSUME NEW i \in 1 .. k
          PROVE  k + 1 - i \in 1 .. k /\ k + 1 - i <= Len(m) /\ boundary[i] = Local[conns[k + 1 - i]]
      BY <1>2, <2>1, <2>2 DEF OneMessage
    <2>6. CASE InBoundary(p) /\ UNCHANGED <<boundary, status>>
      <3>1. PICK i \in 1 .. k : boundary[i] = p
        BY <2>6 DEF InBoundary
      <3>2. x <= Len(m) => x <= k
        <4> SUFFICES ASSUME x <= Len(m) PROVE x <= k
          OBVIOUS
        <4>1. Local[conns[x]] = Local[conns[k + 1 - i]] /\ k + 1 - i \in 1 .. k /\ k + 1 - i <= Len(m)
          BY <2>5, <3>1
        <4>2. x \in 1 .. Len(m) /\ k + 1 - i \in 1 .. Len(m)
          BY <1>2, <1>4, <2>2, <4>1
        <4>3. x = k + 1 - i
          BY <2>4, <4>1, <4>2
        <4>4. QED
          BY <1>2, <4>1, <4>3
      <3> HIDE DEF p
      <3>3. \A j \in 1 .. Len(m) : j < x + 1 => j <= k
        BY <1>2, <1>4, <2>2, <2>3, <3>2
      <3>4. k' = k
        BY <2>6 DEF k
      <3>5. QED
        BY <1>1, <1>3, <2>1, <2>6, <3>3, <3>4 DEF OneMessage
    <2>7. CASE ~ InBoundary(p) /\ boundary' = <<p>> \o boundary /\ status' = status
      <3>1. \A i \in 1 .. k : boundary[i] # p
        BY <2>7 DEF InBoundary
      <3>2. \A l \in 1 .. k : Local[conns[l]] # p
        <4> TAKE l \in 1 .. k
        <4>1. k + 1 - l \in 1 .. k /\ k + 1 - (k + 1 - l) = l
          BY <1>2
        <4>2. boundary[k + 1 - l] = Local[conns[k + 1 - (k + 1 - l)]]
          BY <2>5, <4>1
        <4>3. QED
          BY <3>1, <4>1, <4>2
      <3>3. x <= Len(m)
        <4> SUFFICES ASSUME x > Len(m) PROVE FALSE
          BY <1>2, <1>4, <2>2
        <4>1. PICK j \in 1 .. Len(m) : conns[x] = m[j]
          BY <1>4, <2>1 DEF OneMessage
        <4>2. Len(m) + 1 - j \in 1 .. Len(m) /\ Len(m) + 1 - (Len(m) + 1 - j) = j
          BY <2>2
        <4>3. conns[Len(m) + 1 - j] = m[Len(m) + 1 - (Len(m) + 1 - j)]
          BY <2>1, <4>2 DEF OneMessage
        <4>4. conns[Len(m) + 1 - j] = conns[x]
          BY <4>1, <4>2, <4>3
        <4>5. Len(m) + 1 - j < x
          BY <1>2, <1>4, <2>2, <4>2
        <4>6. Len(m) + 1 - j \in 1 .. k
          BY <1>2, <2>3, <4>2, <4>5
        <4>7. QED
          BY <3>2, <4>4, <4>6
      <3>4. ~ x <= k
        BY <1>2, <1>4, <3>2
      <3>5. k = x - 1
        <4>1. x - 1 = 0 \/ (x - 1 \in 1 .. Len(m) /\ x - 1 < x)
          BY <1>2, <1>4, <2>2, <3>3
        <4>2. x - 1 <= k
          BY <1>2, <2>3, <4>1
        <4>3. QED
          BY <1>2, <1>4, <3>4, <4>2
      <3> HIDE DEF p
      <3>6. k' = k + 1 /\ boundary'[1] = p /\ \A i \in 2 .. k + 1 : boundary'[i] = boundary[i - 1]
        BY <1>2, <1>4, <2>7 DEF k
      <3>7. ASSUME NEW i \in 1 .. k + 1
            PROVE  boundary'[i] = Local[conns[k + 1 + 1 - i]]
        <4>1. CASE i = 1
          BY <1>2, <3>5, <3>6, <4>1 DEF p
        <4>2. CASE i # 1
          <5>1. i - 1 \in 1 .. k /\ k + 1 - (i - 1) = k + 1 + 1 - i /\ i \in 2 .. k + 1
            BY <1>2, <4>2
          <5>2. boundary[i - 1] = Local[conns[k + 1 - (i - 1)]]
            BY <2>5, <5>1
          <5>3. QED
            BY <3>6, <5>1, <5>2
        <4>3. QED
          BY <4>1, <4>2
      <3>8. k + 1 <= Len(m) /\ \A j \in 1 .. Len(m) : j < x + 1 => j <= k + 1
        BY <1>2, <1>4, <2>2, <3>3, <3>5
      <3>9. \A i \in 1 .. k' : boundary'[i] = Local[conns'[k' + 1 - i]]
        BY <1>1, <3>6, <3>7
      <3>10. k' <= Len(m) /\ \A j \in 1 .. Len(m) : j < doing'.i => j <= k'
        BY <1>3, <3>6, <3>8
      <3>11. QED
        BY <1>1, <1>3, <2>1, <3>9, <3>10 DEF OneMessage
    <2>8. CASE status' = "gslError" /\ UNCHANGED boundary
      <3>1. k' = k
        BY <2>8 DEF k
      <3>2. QED
        BY <1>1, <1>3, <2>1, <2>8, <3>1 DEF OneMessage
    <2>9. QED
      BY <1>5, <2>6, <2>7, <2>8
  <1>7. MessagePaired'
    BY <1>3 DEF MessagePaired
  <1>8. joined # {}
    <2>1. Len(<<>>) = 0 /\ Len(conns) # 0
      BY <1>1, <1>2
    <2>2. QED
      BY <2>1 DEF PairInv
  <1>9. QED
    BY <1>1, <1>3, <1>6, <1>7, <1>8 DEF PairInv

(* When the loop is over the boundary is that of the whole message, so     *)
(* each interface stands in it where its connection is looked for.         *)
LEMMA PairSend ==
    ASSUME Inv, PairInv, SendInfo
    PROVE  PairInv'
  <1>1. CASE UNCHANGED <<doing, sent>>
    BY <1>1 DEF SendInfo, links, PairInv, OneMessage, MessagePaired, k
  <1>2. CASE doing' = [step |-> "answer", i |-> 0]
             /\ sent' = [kind |-> "info", pairs |-> Pairs, cut |-> CutOf(inj)]
    <2>1. /\ doing.step = "reconstruct" /\ status = "running" /\ doing.i > Len(conns)
          /\ UNCHANGED <<boundary, conns, joined>>
      BY DEF SendInfo, links
    <2>2. k \in Nat /\ k' = k /\ Len(conns) \in Nat /\ doing.i \in Nat
      BY <2>1 DEF Inv, Types, k
    <2>3. ASSUME NEW m \in Messages, joined = {m}
          PROVE  /\ OneMessage(m)'
                 /\ \A i \in DOMAIN Pairs : Local[Pairs[i][2]] = Pairs[i][1]
      <3>1. OneMessage(m)
        BY <2>3 DEF PairInv
      <3>2. Len(m) \in Nat /\ Len(m) <= Len(conns) /\ k <= Len(m)
        BY <3>1, ComponentAssumption, LenProperties DEF OneMessage
      <3>3. Len(m) \in 1 .. Len(m) => Len(m) <= k
        <4>1. Len(m) < doing.i
          BY <2>1, <2>2, <3>2
        <4>2. QED
          BY <2>1, <3>1, <4>1 DEF OneMessage
      <3>4. k = Len(m)
        BY <2>2, <3>2, <3>3
      <3>5. \A i \in 1 .. k : boundary[i] = Local[conns[k + 1 - i]]
        BY <3>1 DEF OneMessage
      <3>6. \A i \in DOMAIN Pairs : Local[Pairs[i][2]] = Pairs[i][1]
        BY <3>5 DEF Pairs
      <3>7. OneMessage(m)'
        BY <1>2, <2>1, <2>2, <3>1, <3>4 DEF OneMessage
      <3>8. QED
        BY <3>6, <3>7
    <2>4. MessagePaired'
      <3> SUFFICES ASSUME Cardinality(joined) = 1
                   PROVE  \A i \in DOMAIN Pairs : Local[Pairs[i][2]] = Pairs[i][1]
        BY <1>2, <2>1 DEF MessagePaired
      <3>1. PICK m : joined = {m}
        BY FS_Singleton DEF PairInv
      <3>2. m \in Messages
        BY <3>1 DEF PairInv
      <3>3. QED
        BY <2>3, <3>1, <3>2
    <2>5. QED
      BY <1>2, <2>1, <2>3, <2>4 DEF PairInv
  <1>3. QED
    BY <1>1, <1>2 DEF SendInfo

LEMMA PairStep ==
    ASSUME OneToOneConnections
    PROVE  Inv /\ PairInv /\ [Next \/ Restore]_vars => PairInv'
  <1> SUFFICES ASSUME Inv, PairInv, [Next \/ Restore]_vars
               PROVE  PairInv'
    OBVIOUS
  <1>0. ASSUME UNCHANGED <<conns, boundary, joined, sent, doing, status>>
        PROVE  PairInv'
    BY <1>0, PairKept
  <1>1. CASE Simulate
    <2>1. /\ doing.step = "start" /\ doing' = [step |-> "idle", i |-> 0]
          /\ UNCHANGED <<conns, boundary, joined>>
      BY <1>1 DEF Simulate, links
    <2>2. joined = {}
      BY <2>1 DEF PairInv
    <2>3. \A m : joined' # {m}
      BY <2>1, <2>2
    <2>4. MessagePaired'
      BY <2>1 DEF MessagePaired
    <2>5. QED
      BY <2>1, <2>2, <2>3, <2>4 DEF PairInv
  <1>2. CASE Update \/ MonitorUpdate
    BY <1>0, <1>2, MonitorKeeps DEF Update, links
  <1>3. ASSUME NEW m \in Messages, DynamicSimulate(m)
        PROVE  PairInv'
    BY <1>3, PairJoin
  <1>4. CASE DynamicReconstruct
    BY <1>4, PairTurn
  <1>5. CASE SendInfo
    BY <1>5, PairSend
  <1>6. CASE ReceiveVoltages
    <2>1. /\ doing.step = "answer" /\ doing' = [step |-> "idle", i |-> 0]
          /\ UNCHANGED <<conns, boundary, joined, sent>>
      BY <1>6 DEF ReceiveVoltages, links
    <2>2. QED
      BY <2>1, PairKept
  <1>7. CASE DynamicUpdate \/ DynamicCoordinatedLoadUpdate
    <2>1. /\ doing.step = "idle" /\ UNCHANGED <<conns, boundary, joined, doing>>
      BY <1>7 DEF DynamicUpdate, DynamicCoordinatedLoadUpdate, SendUpdate, Idle, links
    <2>2. MessagePaired'
      BY <2>1 DEF MessagePaired
    <2>3. ASSUME NEW m \in Messages, joined' = {m}
          PROVE  OneMessage(m)'
      BY <2>1, <2>3 DEF PairInv, OneMessage, k
    <2>4. QED
      BY <2>1, <2>2, <2>3 DEF PairInv
  <1>8. CASE DynamicCoordinatedBoundaryUpdate
    <2>1. /\ doing.step = "idle" /\ UNCHANGED <<conns, boundary, joined, doing, sent>>
      BY <1>8 DEF DynamicCoordinatedBoundaryUpdate, Idle, links
    <2>2. QED
      BY <2>1, PairKept
  <1>9. CASE Restore
    <2>1. /\ doing.step = "idle" /\ doing' = doing /\ joined' = {}
          /\ conns' = <<>> /\ boundary' = <<>>
      BY <1>9 DEF Restore, Idle
    <2>2. IsFiniteSet(joined') /\ \A m : joined' # {m}
      BY <2>1, FS_EmptySet
    <2>3. QED
      BY <2>1, <2>2 DEF PairInv, MessagePaired
  <1>10. CASE UNCHANGED vars
    BY <1>0, <1>10 DEF vars, links
  <1>11. QED
    BY <1>1, <1>2, <1>3, <1>4, <1>5, <1>6, <1>7, <1>8, <1>9, <1>10 DEF Next

(* As long as every join since the last return brings the same connections *)
(* and each has an interface of its own, the coordinator is told the right *)
(* remote end of every boundary interface, although the message pairs two  *)
(* containers by positions counted from opposite ends                      *)
(* (connected_component.cpp:989-997).                                    *)
THEOREM MessageCorrect ==
    ASSUME OneToOneConnections
    PROVE  FullSpec => []MessagePaired
  <1>1. PairInv => MessagePaired
    BY DEF PairInv
  <1>2. Inv /\ PairInv /\ [Next \/ Restore]_vars => PairInv'
    BY PairStep
  <1>3. QED
    BY <1>1, <1>2, InitInv, NextInv, PairInit, PTL DEF FullSpec
=============================================================================
