----------------------------- MODULE GridProofs -----------------------------
(***************************************************************************)
(* Theorems about Grid for every set of appliances and switches, every     *)
(* wiring with a power line, any loads and capacity: the search finds the  *)
(* components, Cs stays in step with them, what is supplied is what is     *)
(* used, and a storage stays within its capacity.                          *)
(***************************************************************************)
EXTENDS Grid, FiniteSetTheorems, SequenceTheorems, WellFoundedInduction, TLAPS

(* Sums, without an order: what g gives for the parts of S adds up one     *)
(* element at a time, whichever is taken.  V is Nat or Int.                *)
Additive(g, f, S, V) ==
    /\ g \in [SUBSET S -> V] /\ g[{}] = 0
    /\ \A s \in SUBSET S : \A x \in s : g[s] = f[x] + g[s \ {x}]

LEMMA AdditiveOneMore ==
    ASSUME NEW V \in {Nat, Int}, NEW f, NEW S, NEW x \in S, \A y \in S : f[y] \in V,
           NEW g, Additive(g, f, S \ {x}, V)
    PROVE  \E k : Additive(k, f, S, V)
<1> DEFINE R == S \ {x}
           k == [s \in SUBSET S |-> IF x \in s THEN f[x] + g[s \ {x}] ELSE g[s]]
<1>1. /\ g \in [SUBSET R -> V] /\ g[{}] = 0
      /\ \A s \in SUBSET R : \A y \in s : g[s] = f[y] + g[s \ {y}]
  BY DEF Additive
<1>2. \A s \in SUBSET S : s \ {x} \in SUBSET R /\ (x \notin s => s \in SUBSET R)
  OBVIOUS
<1>3. k \in [SUBSET S -> V]
  <2>1. \A a, b \in V : a + b \in V
    OBVIOUS
  <2>2. f[x] \in V /\ \A s \in SUBSET R : g[s] \in V
    BY <1>1
  <2>3. \A s \in SUBSET S : f[x] + g[s \ {x}] \in V /\ (x \notin s => g[s] \in V)
    BY <1>2, <2>1, <2>2
  <2> QED
    BY <2>3
<1>4. ASSUME NEW s \in SUBSET S, NEW y \in s
      PROVE  k[s] = f[y] + k[s \ {y}]
  <2>1. CASE y = x
    <3>1. k[s] = f[x] + g[s \ {x}] /\ k[s \ {y}] = g[s \ {x}]
      BY <2>1
    <3> QED
      BY <2>1, <3>1
  <2>2. CASE y # x /\ x \in s
    <3>1. k[s] = f[x] + g[s \ {x}] /\ k[s \ {y}] = f[x] + g[(s \ {y}) \ {x}]
      BY <2>2
    <3>2. (s \ {y}) \ {x} = (s \ {x}) \ {y} /\ y \in s \ {x}
      BY <2>2
    <3>3. g[s \ {x}] = f[y] + g[(s \ {x}) \ {y}]
      BY <1>1, <1>2, <3>2
    <3>4. PICK a \in Int, b \in Int, c \in Int : a = f[y] /\ b = g[(s \ {x}) \ {y}] /\ c = f[x]
      BY <1>1, <1>2, <2>2
    <3>5. k[s] = c + (a + b) /\ k[s \ {y}] = c + b
      BY <3>1, <3>2, <3>3, <3>4
    <3> HIDE DEF k
    <3> QED
      BY <3>4, <3>5
  <2>3. CASE x \notin s
    <3>1. k[s] = g[s] /\ k[s \ {y}] = g[s \ {y}]
      BY <2>3
    <3>2. g[s] = f[y] + g[s \ {y}]
      BY <1>1, <1>2, <2>3
    <3> QED
      BY <3>1, <3>2
  <2> QED
    BY <2>1, <2>2, <2>3
<1>5. k[{}] = 0
  BY <1>1
<1> HIDE DEF k
<1>6. QED
  BY <1>3, <1>4, <1>5 DEF Additive

LEMMA AdditiveExists ==
    ASSUME NEW V \in {Nat, Int}, NEW S, IsFiniteSet(S), NEW f, \A x \in S : f[x] \in V
    PROVE  \E g : Additive(g, f, S, V)
<1> DEFINE T == {s \in SUBSET S : ~ \E g : Additive(g, f, s, V)}
<1>1. SUFFICES ASSUME T # {} PROVE FALSE
  OBVIOUS
<1>2. FiniteSubsetsOf(S) = SUBSET S
  BY FS_FiniteSubsetsOfFinite
<1>3. IsWellFoundedOn(StrictSubsetOrdering(S), SUBSET S)
  BY <1>2, FS_StrictSubsetOrderingWellFounded
<1>4. T \subseteq SUBSET S
  OBVIOUS
<1> HIDE DEF T
<1>5. PICK s \in T : \A r \in T : ~ (<<r, s>> \in StrictSubsetOrdering(S))
  BY <1>1, <1>3, <1>4, WFMin
<1> USE DEF T
<1>6. s \in SUBSET S /\ ~ \E g : Additive(g, f, s, V)
  OBVIOUS
<1>7. s # {}
  <2>1. Additive([r \in SUBSET {} |-> 0], f, {}, V)
    BY DEF Additive
  <2>2. QED
    BY <1>6, <2>1
<1>8. PICK x \in s : TRUE
  BY <1>7
<1>9. <<s \ {x}, s>> \in StrictSubsetOrdering(S)
  BY <1>6, <1>8 DEF StrictSubsetOrdering
<1>10. PICK g : Additive(g, f, s \ {x}, V)
  BY <1>5, <1>6, <1>9
<1>11. \E k : Additive(k, f, s, V)
  BY <1>6, <1>10, AdditiveOneMore
<1>12. QED
  BY <1>6, <1>11

(* Total takes the elements in the order of a CHOOSE; the result is the    *)
(* same.                                                                   *)
LEMMA TotalIs ==
    ASSUME NEW S, IsFiniteSet(S), NEW f, NEW g, NEW V, Additive(g, f, S, V)
    PROVE  Total(S, f) = g[S]
<1> DEFINE any(s) == CHOOSE x \in s : TRUE
           step(i, s) == IF s = {} THEN 0 ELSE f[any(s)] + i[s \ {any(s)}]
           iter == CHOOSE i : i = [s \in SUBSET S |-> step(i, s)]
<1>2. Total(S, f) = iter[S]
  BY DEF Total, SumFunctionOnSet, FoldFunctionOnSet, MapThenFoldSet
<1>3. \A s \in SUBSET S : s # {} => any(s) \in s /\ s \ {any(s)} \in SUBSET S
  OBVIOUS
<1>4. g = [s \in SUBSET S |-> step(g, s)]
  <2>1. \A s \in SUBSET S : g[s] = step(g, s)
    <3> HIDE DEF any
    <3> QED
      BY <1>3 DEF Additive
  <2>2. g = [s \in SUBSET S |-> g[s]]
    BY DEF Additive
  <2> HIDE DEF step
  <2> QED
    BY <2>1, <2>2
<1>5. iter = [s \in SUBSET S |-> step(iter, s)]
  <2> HIDE DEF step
  <2> QED
    BY <1>4
<1>6. \A s \in SUBSET S : iter[s] = g[s]
  <2> DEFINE T == {s \in SUBSET S : iter[s] # g[s]}
  <2>1. SUFFICES ASSUME T # {} PROVE FALSE
    OBVIOUS
  <2>2. FiniteSubsetsOf(S) = SUBSET S
    BY FS_FiniteSubsetsOfFinite
  <2>3. IsWellFoundedOn(StrictSubsetOrdering(S), SUBSET S)
    BY <2>2, FS_StrictSubsetOrderingWellFounded
  <2>4. T \subseteq SUBSET S
    OBVIOUS
  <2> HIDE DEF T
  <2>5. PICK s \in T : \A r \in T : ~ (<<r, s>> \in StrictSubsetOrdering(S))
    BY <2>1, <2>3, <2>4, WFMin
  <2> USE DEF T
  <2>6. s \in SUBSET S /\ iter[s] # g[s]
    OBVIOUS
  <2>7. iter[s] = step(iter, s)
    <3> HIDE DEF step, iter
    <3> QED
      BY <1>5, <2>6
  <2>8. s # {}
    <3>1. s = {} => iter[s] = 0 /\ g[s] = 0
      BY <2>7 DEF Additive
    <3> QED
      BY <2>6, <3>1
  <2>9. s \ {any(s)} \notin T
    <3>1. any(s) \in s
      BY <1>3, <2>6, <2>8
    <3> HIDE DEF any, T
    <3>2. <<s \ {any(s)}, s>> \in StrictSubsetOrdering(S)
      BY <2>6, <3>1 DEF StrictSubsetOrdering
    <3> QED
      BY <2>5, <3>2
  <2>10. iter[s \ {any(s)}] = g[s \ {any(s)}]
    BY <1>3, <2>6, <2>8, <2>9
  <2>11. g[s] = f[any(s)] + g[s \ {any(s)}]
    BY <1>3, <2>6, <2>8 DEF Additive
  <2> HIDE DEF any, iter, T
  <2> QED
    BY <2>6, <2>7, <2>8, <2>10, <2>11
<1> HIDE DEF iter
<1>7. QED
  BY <1>2, <1>6

(* What is the same multiple of each has that multiple for its total.      *)
LEMMA TotalScaled ==
    ASSUME NEW V \in {Nat, Int}, NEW S, IsFiniteSet(S), NEW f, \A x \in S : f[x] \in V,
           NEW c \in Int, NEW e, \A x \in S : e[x] = f[x] * c
    PROVE  Total(S, f) \in V /\ Total(S, e) = Total(S, f) * c
<1>1. PICK g : Additive(g, f, S, V)
  BY AdditiveExists
<1> DEFINE k == [s \in SUBSET S |-> g[s] * c]
<1>2. /\ g \in [SUBSET S -> V] /\ g[{}] = 0
      /\ \A s \in SUBSET S : \A y \in s : g[s] = f[y] + g[s \ {y}]
  BY <1>1 DEF Additive
<1>3. k \in [SUBSET S -> Int] /\ k[{}] = 0 /\ k[S] = g[S] * c
  <2>1. \A a \in V : a * c \in Int
    OBVIOUS
  <2> QED
    BY <1>2, <2>1
<1>4. ASSUME NEW s \in SUBSET S, NEW y \in s
      PROVE  k[s] = e[y] + k[s \ {y}]
  <2>1. PICK a \in Int, b \in Int : a = f[y] /\ b = g[s \ {y}]
    BY <1>2
  <2>2. (a + b) * c = a * c + b * c
    OBVIOUS
  <2>3. k[s] = (a + b) * c /\ e[y] = a * c /\ k[s \ {y}] = b * c
    BY <1>2, <2>1
  <2> QED
    BY <2>2, <2>3
<1> HIDE DEF k
<1>5. Additive(k, e, S, Int)
  BY <1>3, <1>4 DEF Additive
<1>6. Total(S, f) = g[S] /\ Total(S, e) = k[S]
  BY <1>1, <1>5, TotalIs
<1>7. QED
  BY <1>2, <1>3, <1>6

LEMMA TotalSame ==
    ASSUME NEW V \in {Nat, Int}, NEW S, IsFiniteSet(S), NEW f, NEW e,
           \A x \in S : f[x] \in V /\ e[x] = f[x]
    PROVE  Total(S, e) = Total(S, f) /\ Total(S, f) \in V
<1>1. \A x \in S : e[x] = f[x] * 1
  OBVIOUS
<1>2. Total(S, f) \in V /\ Total(S, e) = Total(S, f) * 1
  BY <1>1, TotalScaled
<1>3. QED
  BY <1>2

-----------------------------------------------------------------------------
(* Numbers: integers, infinities and what is not a number.                 *)
LEMMA SignIs ==
    ASSUME NEW x \in Amounts
    PROVE  /\ Sign(x) \in {-1, 0, 1}
           /\ x \in Int => (Sign(x) = 1 <=> x > 0) /\ (Sign(x) = -1 <=> x < 0)
           /\ x = NaN => Sign(x) = 0
           /\ x = Infinity => Sign(x) = 1
           /\ x = MinusInfinity => Sign(x) = -1
<1>0. NumberAssumption
  BY NumberAssumption
<1>1. CASE x \in Int
  <2>1. x # Infinity /\ x # NaN /\ x # MinusInfinity
    BY <1>0, <1>1 DEF NumberAssumption
  <2>2. CASE x > 0
    BY <1>1, <2>1, <2>2 DEF Sign
  <2>3. CASE x = 0
    BY <1>1, <2>1, <2>3 DEF Sign
  <2>4. CASE x < 0
    BY <1>1, <2>1, <2>4 DEF Sign
  <2>5. QED
    BY <1>1, <2>1, <2>2, <2>3, <2>4
<1>2. CASE x \notin Int
  <2>1. x # 0 /\ x \in {NaN, Infinity, MinusInfinity}
    BY <1>2 DEF Amounts
  <2>2. QED
    BY <1>0, <1>2, <2>1 DEF Sign, NumberAssumption
<1>3. QED
  BY <1>1, <1>2

LEMMA InfiniteIs ==
    ASSUME NEW k \in Int
    PROVE  /\ Infinite(k) \in Amounts
           /\ k >= 0 => Infinite(k) \in {NaN, Infinity}
  BY DEF Infinite, Amounts

LEMMA PlusIs ==
    ASSUME NEW x \in Amounts, NEW y \in Amounts
    PROVE  Plus(x, y) \in Amounts
<1>1. CASE x \in Int /\ y \in Int
  BY <1>1 DEF Plus, Amounts
<1>2. CASE ~ (x \in Int /\ y \in Int)
  <2>1. PICK k \in Int : k = (IF x \in Int THEN 0 ELSE Sign(x)) + (IF y \in Int THEN 0 ELSE Sign(y))
    <3>1. Sign(x) \in Int /\ Sign(y) \in Int
      BY SignIs
    <3>2. QED
      BY <3>1
  <2>2. Infinite(k) \in Amounts
    BY InfiniteIs
  <2>3. QED
    BY <1>2, <2>1, <2>2 DEF Plus, Amounts
<1>3. QED
  BY <1>1, <1>2

LEMMA NegatedIs ==
    ASSUME NEW x \in Amounts
    PROVE  Negated(x) \in Amounts
<1>1. CASE x \in Int
  BY <1>1 DEF Negated, Amounts
<1>2. CASE x \notin Int
  <2>1. PICK k \in Int : k = - Sign(x)
    BY SignIs
  <2>2. QED
    BY <1>2, <2>1, InfiniteIs DEF Negated
<1>3. QED
  BY <1>1, <1>2

\* what is not negative
Counts == Nat \cup {NaN, Infinity}

LEMMA CountsAre ==
    ASSUME NEW x \in Amounts
    PROVE  Sign(x) >= 0 <=> x \in Counts
<1>1. CASE x \in Int
  <2>1. x \in Counts <=> x \in Nat
    BY <1>1, NumberAssumption DEF Counts
  <2>2. QED
    BY <1>1, <2>1, SignIs
<1>2. CASE x \notin Int
  BY <1>2, SignIs, NumberAssumption DEF Counts, Amounts
<1>3. QED
  BY <1>1, <1>2

LEMMA QuotientIs ==
    ASSUME NEW w \in Int, w # 0
    PROVE  Quotient(w) \in Int /\ (w > 0 => Quotient(w) \in Nat)
<1>0. Scale \in Nat
  BY ScaleAssumption
<1>1. CASE w > 0
  <2>1. Scale \div w \in Nat
    BY <1>0, <1>1
  <2>2. QED
    BY <1>1, <2>1 DEF Quotient
<1>2. CASE w < 0
  <2>1. PICK v \in Nat : v = - w /\ v > 0
    BY <1>2
  <2>2. PICK q \in Nat : q = Scale \div v
    BY <1>0, <2>1
  <2>3. QED
    BY <1>2, <2>1, <2>2 DEF Quotient
<1>3. QED
  BY <1>1, <1>2

LEMMA ScaledType ==
    ASSUME NEW x \in Int, NEW part \in Amounts, NEW whole \in Int
    PROVE  /\ Scaled(x, part, whole) \in Amounts
           /\ x >= 0 /\ part \in Counts /\ whole >= 0 => Scaled(x, part, whole) \in Counts
<1>0. NaN \in Amounts /\ NaN \in Counts /\ {NaN, Infinity} \subseteq Counts
      /\ Int \subseteq Amounts /\ Nat \subseteq Counts
  BY DEF Amounts, Counts
<1>1. PICK a \in Int, b \in Int, c \in Int :
         /\ a = Sign(x) /\ b = Sign(part) /\ c = Sign(whole)
         /\ x >= 0 => a \in {0, 1}
         /\ part \in Counts => b \in {0, 1}
         /\ whole >= 0 => c \in {0, 1}
  <2>1. /\ Sign(x) \in {-1, 0, 1} /\ (x >= 0 => Sign(x) \in {0, 1})
        /\ Sign(whole) \in {-1, 0, 1} /\ (whole >= 0 => Sign(whole) \in {0, 1})
    <3>1. x \in Amounts /\ whole \in Amounts
      BY <1>0
    <3>2. QED
      BY <3>1, SignIs
  <2>2. Sign(part) \in {-1, 0, 1} /\ (part \in Counts => Sign(part) \in {0, 1})
    <3>1. Sign(part) \in {-1, 0, 1}
      BY SignIs
    <3>2. part \in Counts => Sign(part) >= 0
      BY CountsAre
    <3>3. QED
      BY <3>1, <3>2
  <2>3. QED
    BY <2>1, <2>2
<1>2. CASE part = NaN
  BY <1>0, <1>2 DEF Scaled
<1>3. CASE part # NaN /\ whole = 0
  <2>1. PICK k \in Int : k = a * b /\ (x >= 0 /\ part \in Counts => k >= 0)
    BY <1>1
  <2>2. Scaled(x, part, whole) = Infinite(k)
    BY <1>1, <1>3, <2>1 DEF Scaled
  <2>3. QED
    BY <1>0, <2>1, <2>2, InfiniteIs
<1>4. CASE part # NaN /\ whole # 0 /\ part \notin Int
  <2>1. PICK k \in Int : k = a * b * c /\ (x >= 0 /\ part \in Counts /\ whole >= 0 => k >= 0)
    BY <1>1
  <2>2. Scaled(x, part, whole) = Infinite(k)
    BY <1>1, <1>4, <2>1 DEF Scaled
  <2>3. QED
    BY <1>0, <2>1, <2>2, InfiniteIs
<1>5. CASE part # NaN /\ whole # 0 /\ part \in Int
  <2>1. PICK q \in Int : q = Quotient(whole) /\ (whole >= 0 => q \in Nat)
    BY <1>5, QuotientIs
  <2>2. part \in Counts => part \in Nat
    BY <1>5, NumberAssumption DEF Counts
  <2>3. PICK n \in Int : n = x * (part * q) /\ (x >= 0 /\ part \in Nat /\ q \in Nat => n \in Nat)
    <3>1. ASSUME x \in Nat, part \in Nat, q \in Nat PROVE x * (part * q) \in Nat
      BY <3>1
    <3>2. x * (part * q) \in Int
      BY <1>5
    <3>3. QED
      BY <3>1, <3>2
  <2>4. Scaled(x, part, whole) = n
    BY <1>5, <2>1, <2>3 DEF Scaled
  <2>5. QED
    BY <1>0, <2>1, <2>2, <2>3, <2>4
<1>6. QED
  BY <1>2, <1>3, <1>4, <1>5

-----------------------------------------------------------------------------
(* Types.                                                                  *)
Part == [told : BOOLEAN, enough : BOOLEAN, part : Amounts]
Object ==
    [of : SUBSET PowerInterfaces, dynamic : BOOLEAN, share : Part, supplies : Int, demands : Int,
     stale : BOOLEAN]
HandlerSteps ==
    {"idle", "rebuild", "search", "simulate", "append", "total", "ask", "assign"}

Work ==
    [step : HandlerSteps, i : Int, of : SUBSET PowerInterfaces, green : SUBSET PowerInterfaces,
     enough : BOOLEAN, part : Amounts, supplies : Int, demands : Int, share : Part]

Monitor ==
    [step : {"unborn", "asleep", "read", "total", "assign"}, b : Storage \cup {0}, mode : Modes,
     e : Amounts, by : Amounts, of : SUBSET PowerInterfaces, i : Int, totals : Work, lost : BOOLEAN]

Ends == {"running", "badAccess", "noInterface", "notJoined"}

Types ==
    /\ flag \in [Switch -> Flags] /\ adj \subseteq PowerInterfaces \X PowerInterfaces
    /\ comps \in Seq(SUBSET PowerInterfaces) /\ cs \in Seq(Object)
    /\ desired \in Desires /\ mode \in [Storage -> Modes]
    /\ cur \in [Appliance -> Amounts] /\ stored \in [Storage -> Amounts]
    /\ h \in Work /\ m \in Monitor
    /\ h.step \in {"simulate", "append"} => h.i > 0
    /\ status \in Ends /\ raced \in BOOLEAN /\ lawful \in BOOLEAN

\* the totals of a balancing
Totals == [enough : BOOLEAN, part : Amounts, supplies : Int, demands : Int]

LEMMA DesiresAreInt == \A f \in Desires : \A a \in Appliance : f[a] \in Int
  BY GridAssumption DEF Desires

LEMMA SetDesire ==
    ASSUME NEW f \in Desires, NEW a \in Appliance, NEW v \in Values[a]
    PROVE  [f EXCEPT ![a] = v] \in Desires
  BY DEF Desires

LEMMA IdleType ==
    /\ NoShare \in Part
    /\ Idle \in Work /\ Idle.step = "idle"
    /\ \A s \in HandlerSteps, i \in Int, c \in SUBSET PowerInterfaces :
          LET w == At(s, i, c)
          IN w \in Work /\ w.step = s /\ w.i = i /\ w.of = c /\ w.green = {}
<1>1. NoShare \in Part
  BY DEF NoShare, Part, Amounts
<1>2. Idle \in Work /\ Idle.step = "idle" /\ Idle.of = {} /\ Idle.green = {}
  BY <1>1 DEF Idle, Work, HandlerSteps, Amounts
<1>3. ASSUME NEW s \in HandlerSteps, NEW i \in Int, NEW c \in SUBSET PowerInterfaces
      PROVE  LET w == At(s, i, c)
             IN w \in Work /\ w.step = s /\ w.i = i /\ w.of = c /\ w.green = {}
  BY <1>2 DEF At, Work
<1>4. QED
  BY <1>1, <1>2, <1>3

(* The steps at which a handler starts, or goes on without a component.    *)
LEMMA StartType ==
    /\ At("rebuild", 0, {}) \in Work /\ At("rebuild", 0, {}).step = "rebuild"
    /\ At("search", 0, {}) \in Work /\ At("search", 0, {}).step = "search"
    /\ \A i \in Int : LET w == At("simulate", i, {})
                      IN w \in Work /\ w.step = "simulate" /\ w.i = i
<1>1. {"rebuild", "search", "simulate"} \subseteq HandlerSteps
  BY DEF HandlerSteps
<1>2. QED
  BY <1>1, IdleType

LEMMA AsleepType ==
    /\ Asleep \in Monitor
    /\ \A b \in Storage, md \in Modes, e \in Amounts, by \in Amounts :
          [Asleep EXCEPT !.step = "read", !.b = b, !.mode = md, !.e = e, !.by = by] \in Monitor
<1>1. Asleep \in Monitor
  <2>1. Idle \in Work
    BY IdleType
  <2>2. "standing" \in Modes
    BY DEF Modes
  <2> QED
    BY <2>1, <2>2 DEF Asleep, Monitor, Amounts
<1>2. QED
  BY <1>1 DEF Monitor

LEMMA OnIsFinite ==
    ASSUME NEW c, NEW side, NEW which
    PROVE  /\ IsFiniteSet(On(AppliancesIn(c), side, which))
           /\ On(AppliancesIn(c), side, which) \subseteq Appliance
<1>1. On(AppliancesIn(c), side, which) \subseteq Appliance
  BY DEF On, AppliancesIn
<1>2. QED
  BY <1>1, GridAssumption, FS_Subset

LEMMA TotalsType ==
    ASSUME Types, NEW c
    PROVE  /\ DesiredSupplies(c) \in Int /\ DesiredDemands(c) \in Int
           /\ LocalTotals(c) \in Totals
<1>1. (\A a \in Appliance : desired[a] \in Int) /\ Int \in {Nat, Int}
  BY DesiresAreInt DEF Types
<1>2. DesiredSupplies(c) \in Int
  BY <1>1, OnIsFinite, TotalSame DEF DesiredSupplies
<1>3. DesiredDemands(c) \in Int
  BY <1>1, OnIsFinite, TotalSame DEF DesiredDemands
<1>4. QED
  BY <1>2, <1>3 DEF LocalTotals, Totals, Amounts

LEMMA BalancingType ==
    ASSUME NEW c \in SUBSET PowerInterfaces, NEW i \in Int, NEW step \in HandlerSteps,
           NEW share \in Part, NEW t \in Totals
    PROVE  /\ Balancing(c, t, i, step, share) \in Work
           /\ Balancing(c, t, i, step, share).step = step
           /\ Balancing(c, t, i, step, share).i = i
           /\ Balancing(c, t, i, step, share).of = c
           /\ Balancing(c, t, i, step, share).share = share
           /\ Balancing(c, t, i, step, share).enough = t.enough
           /\ Balancing(c, t, i, step, share).part = t.part
           /\ Balancing(c, t, i, step, share).supplies = t.supplies
           /\ Balancing(c, t, i, step, share).demands = t.demands
  BY DEF Balancing, Work, Totals

LEMMA LocalBalancingType ==
    ASSUME Types, NEW c \in SUBSET PowerInterfaces, NEW i \in Int, NEW step \in HandlerSteps
    PROVE  LET w == Balancing(c, LocalTotals(c), i, step, NoShare)
           IN /\ w \in Work /\ w.step = step /\ w.i = i /\ w.of = c /\ w.share = NoShare
              /\ w.enough = LocalTotals(c).enough /\ w.part = LocalTotals(c).part
              /\ w.supplies = LocalTotals(c).supplies /\ w.demands = LocalTotals(c).demands
  BY TotalsType, BalancingType, IdleType

LEMMA SideIs == \A a \in Appliance : SideOf[a] \in {"supply", "demand", "none"}
  BY DEF SideOf, Side

LEMMA AssignType ==
    ASSUME Types, NEW c, NEW t, t.part \in Amounts, t.supplies \in Int, t.demands \in Int
    PROVE  /\ Assign(c, t) \in [Appliance -> Amounts]
           /\ /\ \A a \in Appliance : desired[a] >= 0 /\ cur[a] \in Counts
              /\ t.part \in Counts /\ t.supplies >= 0 /\ t.demands >= 0
              => \A a \in Appliance : Assign(c, t)[a] \in Counts
<1> DEFINE new(a) == Assigned(a, SideOf, desired, t.enough, t.part, t.supplies, t.demands)
<1>1. ASSUME NEW a \in Appliance
      PROVE  /\ new(a) \in Amounts
             /\ desired[a] >= 0 /\ t.part \in Counts /\ t.supplies >= 0 /\ t.demands >= 0
                => new(a) \in Counts
  <2>0. Int \subseteq Amounts /\ Nat \subseteq Counts /\ Scale \in Nat
    BY ScaleAssumption DEF Amounts, Counts
  <2>1. desired[a] \in Int /\ SideOf[a] \in {"supply", "demand", "none"}
    BY <1>1, DesiresAreInt, SideIs DEF Types
  <2>2. PICK n \in Int : n = desired[a] * Scale /\ (desired[a] >= 0 => n \in Nat)
    BY <2>0, <2>1
  <2>3. /\ Scaled(desired[a], t.part, t.supplies) \in Amounts
        /\ Scaled(desired[a], t.part, t.demands) \in Amounts
        /\ desired[a] >= 0 /\ t.part \in Counts /\ t.supplies >= 0
              => Scaled(desired[a], t.part, t.supplies) \in Counts
        /\ desired[a] >= 0 /\ t.part \in Counts /\ t.demands >= 0
              => Scaled(desired[a], t.part, t.demands) \in Counts
    BY <2>1, ScaledType
  <2>4. CASE SideOf[a] = "none"
    <3>1. new(a) = 0
      BY <2>4 DEF Assigned
    <3>2. QED
      BY <2>0, <3>1
  <2>5. CASE SideOf[a] = "supply"
    <3>1. new(a) = IF t.enough THEN Scaled(desired[a], t.part, t.supplies) ELSE n
      BY <2>2, <2>5 DEF Assigned
    <3>2. QED
      BY <2>0, <2>2, <2>3, <3>1
  <2>6. CASE SideOf[a] = "demand"
    <3>1. new(a) = IF t.enough THEN n ELSE Scaled(desired[a], t.part, t.demands)
      BY <2>2, <2>6 DEF Assigned
    <3>2. QED
      BY <2>0, <2>2, <2>3, <3>1
  <2>7. QED
    BY <2>1, <2>4, <2>5, <2>6
<1>2. \A a \in Appliance : cur[a] \in Amounts
  BY DEF Types
<1>3. \A a \in Appliance : Assign(c, t)[a] = IF a \in AppliancesIn(c) THEN new(a) ELSE cur[a]
  BY DEF Assign
<1>4. Assign(c, t) = [a \in Appliance |-> Assign(c, t)[a]]
  BY DEF Assign
<1> HIDE DEF new
<1>5. \A a \in Appliance : Assign(c, t)[a] \in Amounts
  BY <1>1, <1>2, <1>3
<1>6. Assign(c, t) \in [Appliance -> Amounts]
  BY <1>4, <1>5
<1>7. QED
  BY <1>1, <1>3, <1>6

(* What the balancing that a thread is at work on assigns.                 *)
LEMMA WorkAssigns ==
    ASSUME Types, NEW c, NEW w \in Work
    PROVE  Assign(c, w) \in [Appliance -> Amounts]
<1>1. w.part \in Amounts /\ w.supplies \in Int /\ w.demands \in Int
  BY DEF Work
<1>2. QED
  BY <1>1, AssignType

(* The first component that has the interface, or none has.                *)
LEMMA FindIs ==
    ASSUME Types, NEW p
    PROVE  \/ /\ FindComponent(p) = -1
              /\ \A i \in DOMAIN comps : p \notin comps[i]
           \/ /\ FindComponent(p) \in DOMAIN comps /\ FindComponent(p) \in Nat
              /\ p \in comps[FindComponent(p)] /\ comps[FindComponent(p)] \in SUBSET PowerInterfaces
<1> DEFINE found == {i \in DOMAIN comps : p \in comps[i]}
<1>1. DOMAIN comps \subseteq Nat /\ \A i \in DOMAIN comps : comps[i] \in SUBSET PowerInterfaces
  BY DEF Types
<1>2. CASE found = {}
  BY <1>2 DEF FindComponent
<1>3. CASE found # {}
  <2>1. IsWellFoundedOn(OpToRel(<, Nat), Nat)
    BY NatLessThanWellFounded
  <2>2. found \subseteq Nat
    BY <1>1
  <2> HIDE DEF found
  <2>3. PICK i \in found : \A j \in found : ~ (<<j, i>> \in OpToRel(<, Nat))
    BY <1>3, <2>1, <2>2, WFMin
  <2>4. \A j \in found : ~ j < i
    BY <2>2, <2>3 DEF OpToRel
  <2>8. \A j \in found : i <= j
    BY <2>2, <2>4
  <2> USE DEF found
  <2>5. FindComponent(p) = CHOOSE k \in found : \A j \in found : k <= j
    BY <1>3 DEF FindComponent
  <2>6. FindComponent(p) \in found
    BY <2>5, <2>8
  <2>7. QED
    BY <1>1, <2>6
<1>4. QED
  BY <1>2, <1>3
-----------------------------------------------------------------------------
LEMMA TypesInit == Init => Types
<1> SUFFICES ASSUME Init PROVE Types
  OBVIOUS
<1>1. cur \in [Appliance -> Amounts] /\ stored \in [Storage -> Amounts]
  BY GridAssumption DEF Init, Amounts
<1>2. h \in Work /\ h.step = "rebuild"
  BY StartType DEF Init
<1>3. m \in Monitor
  <2>1. Asleep \in Monitor
    BY AsleepType
  <2>2. [Asleep EXCEPT !.step = "unborn"] \in Monitor
    BY <2>1 DEF Monitor
  <2> QED
    BY <2>2 DEF Init
<1>4. comps \in Seq(SUBSET PowerInterfaces) /\ cs \in Seq(Object)
  BY DEF Init
<1>5. QED
  BY <1>1, <1>2, <1>3, <1>4 DEF Init, Types, Ends

(* A sequence of which one element, or every one, is replaced.             *)
LEMMA SameLength ==
    ASSUME NEW S, NEW s \in Seq(S), NEW t \in [DOMAIN s -> S]
    PROVE  t \in Seq(S) /\ Len(t) = Len(s)
<1>1. Len(s) \in Nat /\ DOMAIN s = 1 .. Len(s)
  BY LenProperties
<1>2. t \in [1 .. Len(s) -> S]
  BY <1>1
<1>3. t \in Seq(S)
  BY <1>1, <1>2, SeqDef
<1>4. QED
  BY <1>1, <1>2, <1>3, LenProperties

\* what an object keeps, but for its share
SameTotals(old, new) ==
    /\ new.of = old.of /\ new.dynamic = old.dynamic /\ new.stale = old.stale
    /\ new.supplies = old.supplies /\ new.demands = old.demands

(* One object of Cs gets a share, keeps new totals, joins or has old ones. *)
LEMMA Replaced ==
    ASSUME cs \in Seq(Object), NEW i, NEW o, i \in DOMAIN cs => o \in Object,
           NEW new, new = [cs EXCEPT ![i] = o]
    PROVE  /\ new \in Seq(Object) /\ Len(new) = Len(cs) /\ DOMAIN new = DOMAIN cs
           /\ \A j \in DOMAIN cs : cs[j] \in Object /\ new[j] = IF j = i THEN o ELSE cs[j]
<1>1. cs \in [DOMAIN cs -> Object]
  BY LenProperties
<1>2. new \in [DOMAIN cs -> Object] /\ \A j \in DOMAIN cs : new[j] = IF j = i THEN o ELSE cs[j]
  BY <1>1
<1>3. new \in Seq(Object) /\ Len(new) = Len(cs) /\ DOMAIN new = DOMAIN cs
  BY <1>2, SameLength
<1>4. QED
  BY <1>1, <1>2, <1>3

LEMMA ShareSet ==
    ASSUME cs \in Seq(Object), NEW i, NEW share \in Part,
           NEW new, new = [cs EXCEPT ![i].share = share]
    PROVE  /\ new \in Seq(Object) /\ Len(new) = Len(cs) /\ DOMAIN new = DOMAIN cs
           /\ \A j \in DOMAIN cs :
                 /\ SameTotals(cs[j], new[j])
                 /\ new[j].share = IF j = i THEN share ELSE cs[j].share
                 /\ j # i => new[j] = cs[j]
<1>1. PICK o : o = [cs[i] EXCEPT !.share = share]
  OBVIOUS
<1>2. cs[i] \in Object => o \in Object
  BY <1>1 DEF Object
<1>3. i \in DOMAIN cs => o \in Object
  BY <1>2, LenProperties
<1>4. new = [cs EXCEPT ![i] = o]
  BY <1>1
<1>5. /\ new \in Seq(Object) /\ Len(new) = Len(cs) /\ DOMAIN new = DOMAIN cs
      /\ \A j \in DOMAIN cs : cs[j] \in Object /\ new[j] = IF j = i THEN o ELSE cs[j]
  BY <1>3, <1>4, Replaced
<1>6. QED
  BY <1>1, <1>5 DEF Object, SameTotals

LEMMA DynamicSet ==
    ASSUME cs \in Seq(Object), NEW i,
           NEW new, new = [cs EXCEPT ![i].dynamic = TRUE]
    PROVE  /\ new \in Seq(Object) /\ Len(new) = Len(cs) /\ DOMAIN new = DOMAIN cs
           /\ \A j \in DOMAIN cs :
                 /\ new[j].of = cs[j].of /\ new[j].share = cs[j].share
                 /\ new[j].supplies = cs[j].supplies /\ new[j].demands = cs[j].demands
                 /\ new[j].stale = cs[j].stale
                 /\ j # i => new[j] = cs[j]
<1>1. PICK o : o = [cs[i] EXCEPT !.dynamic = TRUE]
  OBVIOUS
<1>2. cs[i] \in Object => o \in Object
  BY <1>1 DEF Object
<1>3. i \in DOMAIN cs => o \in Object
  BY <1>2, LenProperties
<1>4. new = [cs EXCEPT ![i] = o]
  BY <1>1
<1>5. /\ new \in Seq(Object) /\ Len(new) = Len(cs) /\ DOMAIN new = DOMAIN cs
      /\ \A j \in DOMAIN cs : cs[j] \in Object /\ new[j] = IF j = i THEN o ELSE cs[j]
  BY <1>3, <1>4, Replaced
<1>6. QED
  BY <1>1, <1>5 DEF Object, SameTotals

LEMMA StaleSet ==
    ASSUME cs \in Seq(Object), NEW i,
           NEW new, new = [cs EXCEPT ![i].stale = TRUE]
    PROVE  /\ new \in Seq(Object) /\ Len(new) = Len(cs) /\ DOMAIN new = DOMAIN cs
           /\ \A j \in DOMAIN cs :
                 /\ new[j].of = cs[j].of /\ new[j].share = cs[j].share
                 /\ new[j].supplies = cs[j].supplies /\ new[j].demands = cs[j].demands
                 /\ new[j].dynamic = cs[j].dynamic
                 /\ j # i => new[j] = cs[j]
                 /\ j = i => new[j].stale = TRUE
<1>1. PICK o : o = [cs[i] EXCEPT !.stale = TRUE]
  OBVIOUS
<1>2. cs[i] \in Object => o \in Object
  BY <1>1 DEF Object
<1>3. i \in DOMAIN cs => o \in Object
  BY <1>2, LenProperties
<1>4. new = [cs EXCEPT ![i] = o]
  BY <1>1
<1>5. /\ new \in Seq(Object) /\ Len(new) = Len(cs) /\ DOMAIN new = DOMAIN cs
      /\ \A j \in DOMAIN cs : cs[j] \in Object /\ new[j] = IF j = i THEN o ELSE cs[j]
  BY <1>3, <1>4, Replaced
<1>6. QED
  BY <1>1, <1>5 DEF Object, SameTotals

(* A new object at the end of Cs.                                          *)
LEMMA Pushed ==
    ASSUME Types, NEW c \in SUBSET PowerInterfaces, PushBack(c)
    PROVE  /\ cs' \in Seq(Object) /\ Len(cs') = Len(cs) + 1
           /\ cs'[Len(cs) + 1] = ConnectedComponent(c)
           /\ \A j \in 1 .. Len(cs) :
                 /\ SameTotals(cs[j], cs'[j])
                 /\ cs[j].of # c => cs'[j] = cs[j]
                 /\ cs'[j].share = IF cs[j].of = c THEN NoShare ELSE cs[j].share
<1> DEFINE new == ConnectedComponent(c)
           forget(o) == IF o.of = c THEN [o EXCEPT !.share = NoShare] ELSE o
           told == [j \in DOMAIN cs |-> forget(cs[j])]
<1>1. new \in Object
  BY IdleType DEF Object, ConnectedComponent
<1>2. cs \in Seq(Object) /\ DOMAIN cs = 1 .. Len(cs) /\ Len(cs) \in Nat /\ cs \in [DOMAIN cs -> Object]
  BY LenProperties DEF Types
<1>3. \A o \in Object : /\ forget(o) \in Object /\ SameTotals(o, forget(o))
                       /\ forget(o).share = IF o.of = c THEN NoShare ELSE o.share
  BY IdleType DEF Object, SameTotals
<1>a. \A o \in Object : o.of # c => forget(o) = o
  OBVIOUS
<1> HIDE DEF forget
<1>4. told \in Seq(Object) /\ Len(told) = Len(cs)
  <2>1. told \in [DOMAIN cs -> Object]
    BY <1>2, <1>3
  <2> HIDE DEF told
  <2>2. QED
    BY <1>2, <2>1, SameLength
<1>5. cs' = Append(told, new)
  BY DEF PushBack, forget
<1>6. \A j \in 1 .. Len(cs) : told[j] = forget(cs[j]) /\ cs[j] \in Object
  BY <1>2
<1> HIDE DEF told, new
<1>7. /\ cs' \in Seq(Object) /\ Len(cs') = Len(cs) + 1
      /\ \A j \in 1 .. Len(cs) : cs'[j] = told[j]
      /\ cs'[Len(cs) + 1] = new
  BY <1>1, <1>4, <1>5, AppendProperties
<1>8. \A j \in 1 .. Len(cs) : cs[j].of # c => cs'[j] = cs[j]
  BY <1>a, <1>6, <1>7
<1>9. QED
  BY <1>3, <1>6, <1>7, <1>8 DEF new

LEMMA Found ==
    ASSUME Types, NEW p, FindComponent(p) \in DOMAIN cs
    PROVE  /\ FindComponent(p) \in Nat /\ FindComponent(p) \in DOMAIN comps
           /\ p \in comps[FindComponent(p)] /\ comps[FindComponent(p)] \in SUBSET PowerInterfaces
<1>1. DOMAIN cs \subseteq Nat
  BY DEF Types
<1>2. FindComponent(p) # -1
  BY <1>1
<1>3. QED
  BY <1>2, FindIs

LEMMA ObjectAt ==
    ASSUME Types, NEW i \in DOMAIN cs
    PROVE  cs[i] \in Object /\ cs[i].of \in SUBSET PowerInterfaces
<1>1. cs \in [DOMAIN cs -> Object]
  BY LenProperties DEF Types
<1>2. QED
  BY <1>1 DEF Object

LEMMA UpdateOfType ==
    ASSUME Types, NEW a, UpdateOf(a)
    PROVE  \/ /\ FindComponent(<<a, 0>>) \in DOMAIN cs
              /\ LET i == FindComponent(<<a, 0>>)
                 IN \E s \in {"ask", "total"} : h' = At(s, i, cs[i].of) /\ h' \in Work
              /\ status' = status
           \/ /\ FindComponent(<<a, 0>>) \notin DOMAIN cs
              /\ h' = h /\ status' = "badAccess"
<1>1. CASE FindComponent(<<a, 0>>) \in DOMAIN cs
  <2>1. PICK i : i = FindComponent(<<a, 0>>)
    OBVIOUS
  <2>2. PICK s \in {"ask", "total"} : h' = At(s, i, cs[i].of) /\ status' = status
    BY <1>1, <2>1 DEF UpdateOf
  <2>3. s \in HandlerSteps /\ i \in Int /\ cs[i].of \in SUBSET PowerInterfaces
    BY <1>1, <2>1, Found, ObjectAt DEF HandlerSteps
  <2>4. h' \in Work
    BY <2>2, <2>3, IdleType
  <2>5. QED
    BY <1>1, <2>1, <2>2, <2>4
<1>2. CASE FindComponent(<<a, 0>>) \notin DOMAIN cs
  BY <1>2 DEF UpdateOf, Types
<1>3. QED
  BY <1>1, <1>2

LEMMA UpdateOfAsks ==
    ASSUME NEW a, NEW i, UpdateOf(a), i = FindComponent(<<a, 0>>), i \in DOMAIN cs,
           h'.step = "total", cs[i].dynamic, Types
    PROVE  FALSE
<1>1. h' = At("ask", i, cs[i].of)
  BY DEF UpdateOf
<1>2. h'.step = "ask"
  BY <1>1 DEF At, Idle
<1>3. QED
  BY <1>2

(* The handler of a node's update, typed.                                  *)
LEMMA UpdateOfTypes ==
    ASSUME Types, NEW a, UpdateOf(a)
    PROVE  /\ h' \in Work /\ status' \in Ends
           /\ h'.step \in {"simulate", "append"} => h'.i > 0
<1>1. CASE FindComponent(<<a, 0>>) \in DOMAIN cs
  <2>0. PICK i : i = FindComponent(<<a, 0>>)
    OBVIOUS
  <2>1. PICK s \in {"ask", "total"} : h' = At(s, i, cs[i].of) /\ h' \in Work
    BY <1>1, <2>0, UpdateOfType
  <2>2. s \in HandlerSteps /\ i \in Int /\ cs[i].of \in SUBSET PowerInterfaces
    BY <1>1, <2>0, Found, ObjectAt DEF HandlerSteps
  <2>3. h'.step \in {"ask", "total"}
    BY <2>1, <2>2, IdleType
  <2>4. QED
    BY <1>1, <2>1, <2>3, UpdateOfType DEF Types
<1>2. CASE FindComponent(<<a, 0>>) \notin DOMAIN cs
  BY <1>2, UpdateOfType DEF Types, Ends
<1>3. QED
  BY <1>1, <1>2

LEMMA AskType ==
    ASSUME Types, NEW enough \in BOOLEAN, NEW part \in Parts, AskCoordinator(enough, part)
    PROVE  /\ h' \in Work /\ h'.step = "assign" /\ h'.i = h.i /\ h'.of = h.of
           /\ h'.share = Share(enough, part) /\ h'.enough = enough /\ h'.part = part
           /\ h'.supplies = DesiredSupplies(h.of) /\ h'.demands = DesiredDemands(h.of)
           /\ Share(enough, part) \in Part /\ part \in Amounts
<1> DEFINE t == [enough |-> enough, part |-> part, supplies |-> DesiredSupplies(h.of),
                 demands |-> DesiredDemands(h.of)]
<1>1. part \in Amounts
  BY GridAssumption
<1>2. t \in Totals
  BY <1>1, TotalsType DEF Totals
<1>3. Share(enough, part) \in Part
  BY <1>1 DEF Part, Share
<1>4. h.of \in SUBSET PowerInterfaces /\ h.i \in Int
  BY DEF Types, Work
<1>5. h' = Balancing(h.of, t, h.i, "assign", Share(enough, part))
  BY DEF AskCoordinator
<1>0. /\ t.enough = enough /\ t.part = part
      /\ t.supplies = DesiredSupplies(h.of) /\ t.demands = DesiredDemands(h.of)
  OBVIOUS
<1> HIDE DEF t
<1>6. QED
  <2>1. "assign" \in HandlerSteps
    BY DEF HandlerSteps
  <2>2. PICK u, share : u = t /\ share = Share(enough, part)
    OBVIOUS
  <2>3. h' = Balancing(h.of, u, h.i, "assign", share)
    BY <1>5, <2>2
  <2>4. u \in Totals /\ share \in Part
    BY <1>2, <1>3, <2>2
  <2> QED
    BY <1>0, <1>1, <1>3, <1>4, <2>1, <2>2, <2>3, <2>4, BalancingType

LEMMA AskSets ==
    ASSUME Types, NEW enough \in BOOLEAN, NEW part \in Parts, AskCoordinator(enough, part)
    PROVE  /\ cs' \in Seq(Object) /\ Len(cs') = Len(cs) /\ DOMAIN cs' = DOMAIN cs
           /\ \A j \in DOMAIN cs :
                 /\ cs'[j].of = cs[j].of /\ cs'[j].dynamic = cs[j].dynamic
                 /\ cs'[j].share = cs[j].share
                 /\ j # h.i => cs'[j] = cs[j]
                 /\ j = h.i => /\ cs'[j].supplies = DesiredSupplies(h.of)
                               /\ cs'[j].demands = DesiredDemands(h.of) /\ cs'[j].stale = FALSE
<1>0. cs \in Seq(Object)
  BY DEF Types
<1>1. PICK s \in Int, d \in Int : s = DesiredSupplies(h.of) /\ d = DesiredDemands(h.of)
  BY TotalsType
<1>2. PICK o : o = [cs[h.i] EXCEPT !.supplies = s, !.demands = d, !.stale = FALSE]
  OBVIOUS
<1>3. cs' = [cs EXCEPT ![h.i] = o]
  BY <1>1, <1>2 DEF AskCoordinator
<1>4. cs[h.i] \in Object => /\ o \in Object /\ o.of = cs[h.i].of /\ o.dynamic = cs[h.i].dynamic
                            /\ o.share = cs[h.i].share
                            /\ o.supplies = s /\ o.demands = d /\ o.stale = FALSE
  BY <1>2 DEF Object
<1>5. h.i \in DOMAIN cs => o \in Object
  BY <1>4, ObjectAt
<1>6. PICK i : i = h.i
  OBVIOUS
<1>7. cs' = [cs EXCEPT ![i] = o] /\ (i \in DOMAIN cs => o \in Object)
  BY <1>3, <1>5, <1>6
<1>8. /\ cs' \in Seq(Object) /\ Len(cs') = Len(cs) /\ DOMAIN cs' = DOMAIN cs
      /\ \A j \in DOMAIN cs : cs[j] \in Object /\ cs'[j] = IF j = i THEN o ELSE cs[j]
  BY <1>0, <1>7, Replaced
<1>9. QED
  BY <1>1, <1>4, <1>6, <1>8

(* A push, when there is an object for it.                                 *)
LEMMA PushType ==
    ASSUME Types, NEW enough \in BOOLEAN, NEW part \in Parts, cs # <<>>,
           DynamicCoordinatedLoadUpdate(enough, part)
    PROVE  /\ 1 \in DOMAIN cs /\ cs[1] \in Object /\ part \in Amounts
           /\ Share(enough, part) \in Part
           /\ cur' \in [Appliance -> Amounts] /\ cs' \in Seq(Object)
<1>1. cs \in Seq(Object) /\ Len(cs) \in Nat /\ DOMAIN cs = 1 .. Len(cs) /\ Len(cs) # 0
  BY LenProperties, EmptySeq DEF Types
<1>2. 1 \in DOMAIN cs
  BY <1>1
<1>3. cs[1] \in Object /\ part \in Amounts
  BY <1>2, ObjectAt, GridAssumption
<1>4. Share(enough, part) \in Part
  BY <1>3 DEF Part, Share
<1>5. cs' \in Seq(Object)
  <2>1. PICK share \in Part : share = Share(enough, part)
    BY <1>4
  <2>2. cs' = [cs EXCEPT ![1].share = share]
    BY <2>1 DEF DynamicCoordinatedLoadUpdate
  <2>3. QED
    BY <1>1, <2>2, ShareSet
<1>6. PICK t : t = [enough |-> enough, part |-> part, supplies |-> cs[1].supplies, demands |-> cs[1].demands]
  OBVIOUS
<1>7. t.part \in Amounts /\ t.supplies \in Int /\ t.demands \in Int
  BY <1>3, <1>6 DEF Object
<1>8. cur' = Assign(cs[1].of, t)
  BY <1>6 DEF DynamicCoordinatedLoadUpdate
<1>9. QED
  BY <1>2, <1>3, <1>4, <1>5, <1>7, <1>8, AssignType

(* What the monitor read becomes an amount again.                          *)
LEMMA AfterIs == ASSUME Types PROVE After \in Amounts
<1>1. m.e \in Amounts /\ m.by \in Amounts
  BY DEF Types, Monitor
<1>2. PICK by \in Amounts : by = IF m.by \in Int THEN Sign(m.by) ELSE m.by
  <2>1. Sign(m.by) \in {-1, 0, 1}
    BY <1>1, SignIs
  <2>2. {-1, 0, 1} \subseteq Amounts
    BY DEF Amounts
  <2>3. QED
    BY <1>1, <2>1, <2>2
<1>3. QED
  BY <1>1, <1>2, PlusIs, NegatedIs DEF After

LEMMA TypesStep == Types /\ [Next]_vars => Types'
<1> SUFFICES ASSUME Types, [Next]_vars PROVE Types'
  OBVIOUS
<1>0. h \in Work /\ m \in Monitor /\ cs \in Seq(Object) /\ comps \in Seq(SUBSET PowerInterfaces)
  BY DEF Types
<1>r. /\ MonitorOverlaps \/ UNCHANGED <<raced, lawful>> => raced' \in BOOLEAN /\ lawful' \in BOOLEAN
      /\ \A ok : Receives(ok) => raced' \in BOOLEAN /\ lawful' \in BOOLEAN
      /\ Overlaps => raced' \in BOOLEAN /\ lawful' \in BOOLEAN
  BY DEF Types, Overlaps, Receives, MonitorOverlaps
<1>1. CASE AncillaryThreadsStart
  BY <1>1, <1>r, AsleepType DEF AncillaryThreadsStart, Types
<1>2. ASSUME NEW b \in Storage, MonitorRead(b)
      PROVE  Types'
  <2>1. mode[b] \in Modes /\ stored[b] \in Amounts /\ cur[b] \in Amounts
    <3>1. b \in Appliance
      BY DEF Storage
    <3> QED
      BY <3>1 DEF Types
  <2>2. m' \in Monitor
    BY <1>2, <2>1, AsleepType DEF MonitorRead
  <2> QED
    BY <1>2, <1>r, <2>2 DEF MonitorRead, Types
<1>3. CASE MonitorWrite
  <2>1. After \in Amounts /\ Capacity \in Amounts /\ 0 \in Amounts
    BY AfterIs, GridAssumption DEF Amounts
  <2>2. stored' \in [Storage -> Amounts] /\ mode' \in [Storage -> Modes]
    <3>1. PICK e \in Amounts : stored' = [stored EXCEPT ![m.b] = e]
      BY <1>3, <2>1 DEF MonitorWrite
    <3>2. "standing" \in Modes
      BY DEF Modes
    <3>3. mode' = mode \/ mode' = [mode EXCEPT ![m.b] = "standing"]
      BY <1>3 DEF MonitorWrite
    <3> QED
      BY <3>1, <3>2, <3>3 DEF Types
  <2>3. m' \in Monitor /\ status' \in Ends /\ cs' \in Seq(Object)
    <3>1. CASE m' = Asleep /\ UNCHANGED <<status, cs>>
      BY <3>1, AsleepType DEF Types
    <3>2. CASE UNCHANGED <<m, cs>> /\ status' = "badAccess"
      BY <1>0, <3>2 DEF Ends
    <3>3. ASSUME NEW i \in DOMAIN cs, i = FindComponent(<<m.b, 0>>), UNCHANGED status,
                 m' = [m EXCEPT !.step = "total", !.of = cs[i].of, !.i = i],
                 cs' = [cs EXCEPT ![i].stale = TRUE]
          PROVE  m' \in Monitor /\ status' \in Ends /\ cs' \in Seq(Object)
      <4>1. cs[i].of \in SUBSET PowerInterfaces /\ i \in Int
        BY <3>3, Found, ObjectAt
      <4>2. m' \in Monitor
        BY <1>0, <3>3, <4>1 DEF Monitor
      <4>3. cs' \in Seq(Object)
        BY <1>0, <3>3, StaleSet
      <4> QED
        BY <3>3, <4>2, <4>3 DEF Types
    <3>4. \/ m' = Asleep /\ UNCHANGED <<status, cs>>
          \/ UNCHANGED <<m, cs>> /\ status' = "badAccess"
          \/ LET i == FindComponent(<<m.b, 0>>)
             IN /\ i \in DOMAIN cs /\ UNCHANGED status
                /\ m' = [m EXCEPT !.step = "total", !.of = cs[i].of, !.i = i]
                /\ cs' = [cs EXCEPT ![i].stale = TRUE]
      BY <1>3 DEF MonitorWrite
    <3> QED
      BY <3>1, <3>2, <3>3, <3>4
  <2> QED
    BY <1>3, <1>r, <2>2, <2>3 DEF MonitorWrite, Types
<1>4. CASE MonitorTotals
  <2>1. Balancing(m.of, LocalTotals(m.of), m.i, "assign", NoShare) \in Work
    BY <1>0, LocalBalancingType DEF Monitor, HandlerSteps
  <2>2. m' \in Monitor /\ status' \in Ends
    BY <1>0, <1>4, <2>1 DEF MonitorTotals, Monitor, Types, Ends
  <2> QED
    BY <1>4, <1>r, <2>2 DEF MonitorTotals, Types
<1>5. CASE MonitorCurrents
  <2>1. Assign(m.of, m.totals) \in [Appliance -> Amounts]
    BY <1>0, WorkAssigns DEF Monitor
  <2>2. [cs EXCEPT ![m.i].share = NoShare] \in Seq(Object)
    BY <1>0, ShareSet, IdleType
  <2>3. cur' \in [Appliance -> Amounts] /\ cs' \in Seq(Object) /\ m' \in Monitor
        /\ status' \in Ends
    BY <1>0, <1>5, <2>1, <2>2, AsleepType DEF MonitorCurrents, Types, Ends
  <2> QED
    BY <1>5, <1>r, <2>3 DEF MonitorCurrents, Types
<1>6. ASSUME NEW a \in Appliance, NEW v \in Values[a], UpdateAppliance(a, v)
      PROVE  Types'
  <2>1. desired' \in Desires
    BY <1>6, SetDesire DEF UpdateAppliance, Types
  <2>2. /\ h' \in Work /\ status' \in Ends
        /\ h'.step \in {"simulate", "append"} => h'.i > 0
    BY <1>6, UpdateOfTypes DEF UpdateAppliance
  <2> QED
    BY <1>6, <1>r, <2>1, <2>2 DEF UpdateAppliance, Types
<1>7. ASSUME NEW a \in Storage, NEW md \in Modes, UpdateStorage(a, md)
      PROVE  Types'
  <2>1. mode' \in [Storage -> Modes]
    BY <1>7 DEF UpdateStorage, Types
  <2>2. /\ h' \in Work /\ status' \in Ends
        /\ h'.step \in {"simulate", "append"} => h'.i > 0
    BY <1>7, UpdateOfTypes DEF UpdateStorage
  <2> QED
    BY <1>7, <1>r, <2>1, <2>2 DEF UpdateStorage, Types
<1>8. ASSUME NEW s \in Switch, NEW f \in Flags, UpdateSwitch(s, f)
      PROVE  Types'
  <2>1. h' \in Work /\ (h'.step \in {"simulate", "append"} => h'.i > 0)
    <3>1. h' = At("rebuild", 0, {}) \/ h' = At("simulate", 1, {})
      BY <1>8 DEF UpdateSwitch
    <3>2. CASE h' = At("rebuild", 0, {})
      BY <3>2, StartType
    <3>3. CASE h' = At("simulate", 1, {})
      BY <3>3, StartType
    <3> QED
      BY <3>1, <3>2, <3>3
  <2>2. m' \in Monitor
    <3>1. m' = m \/ m' = [m EXCEPT !.lost = m.step \in {"total", "assign"}]
      BY <1>8 DEF UpdateSwitch
    <3>2. (m.step \in {"total", "assign"}) \in BOOLEAN
      OBVIOUS
    <3> QED
      BY <1>0, <3>1, <3>2 DEF Monitor
  <2>3. flag' \in [Switch -> Flags] /\ adj' \subseteq PowerInterfaces \X PowerInterfaces
        /\ comps' \in Seq(SUBSET PowerInterfaces) /\ cs' \in Seq(Object)
    <3>1. <<>> \in Seq(SUBSET PowerInterfaces) /\ <<>> \in Seq(Object)
      BY EmptySeq
    <3>2. CASE Clear(s, f)
      BY <3>1, <3>2 DEF Clear, Types
    <3>3. CASE UNCHANGED <<flag, adj, comps, cs>>
      BY <3>3 DEF Types
    <3> QED
      BY <1>8, <3>2, <3>3 DEF UpdateSwitch
  <2> QED
    BY <1>8, <1>r, <2>1, <2>2, <2>3 DEF UpdateSwitch, Types
<1>9. ASSUME NEW p \in LocalPis, DynamicConnectedSimulation(p)
      PROVE  Types'
  <2>1. CASE FindComponent(p) \notin DOMAIN cs
    BY <1>9, <1>r, <2>1 DEF DynamicConnectedSimulation, Types, Ends
  <2>2. CASE FindComponent(p) \in DOMAIN cs
    <3>1. PICK i : i = FindComponent(p)
      OBVIOUS
    <3>2. i \in Int /\ cs[i].of \in SUBSET PowerInterfaces
      BY <1>0, <2>2, <3>1, Found, ObjectAt
    <3>3. cs' \in Seq(Object)
      BY <1>0, <1>9, <2>2, <3>1, DynamicSet DEF DynamicConnectedSimulation
    <3>4. h' \in Work /\ h'.step = "ask" /\ status' = status
      <4>1. h' = At("ask", i, cs[i].of) /\ status' = status
        BY <1>9, <2>2, <3>1 DEF DynamicConnectedSimulation
      <4>2. "ask" \in HandlerSteps
        BY DEF HandlerSteps
      <4> QED
        BY <3>2, <4>1, <4>2, IdleType
    <3> QED
      BY <1>9, <1>r, <3>3, <3>4 DEF DynamicConnectedSimulation, Types
  <2> QED
    BY <2>1, <2>2
<1>10. CASE Rebuild
  <2>1. adj' \subseteq PowerInterfaces \X PowerInterfaces
    BY <1>10 DEF Rebuild, CreateAdjList, Edges, Types
  <2>2. h' \in Work /\ (h'.step \in {"simulate", "append"} => h'.i > 0)
    BY <1>10, StartType DEF Rebuild
  <2> QED
    BY <1>10, <1>r, <2>1, <2>2 DEF Rebuild, Types
<1>11. CASE DfsVisit
  <2>1. ToVisit \subseteq PowerInterfaces
    BY DEF ToVisit, White
  <2>2. h' \in Work /\ (h'.step \in {"simulate", "append"} => h'.i > 0)
    BY <1>0, <1>11, <2>1 DEF DfsVisit, Work
  <2> QED
    BY <1>11, <1>r, <2>2 DEF DfsVisit, Types
<1>12. CASE FindConnectedComponents
  <2>1. comps' \in Seq(SUBSET PowerInterfaces)
    BY <1>0, <1>12, AppendProperties DEF FindConnectedComponents, Work
  <2>2. h' \in Work /\ (h'.step \in {"simulate", "append"} => h'.i > 0)
    <3>1. CASE White = {}
      <4>1. h' = At("simulate", 1, {})
        BY <1>12, <3>1 DEF FindConnectedComponents
      <4> QED
        BY <4>1, StartType
    <3>2. CASE White # {}
      BY <1>0, <1>12, <3>2 DEF FindConnectedComponents, Work
    <3> QED
      BY <3>1, <3>2
  <2> QED
    BY <1>12, <1>r, <2>1, <2>2 DEF FindConnectedComponents, Types
<1>13. CASE Simulate
  <2>1. h' \in Work /\ (h'.step \in {"simulate", "append"} => h'.i > 0)
    <3>1. CASE h.i > Len(comps)
      BY <1>13, <3>1, IdleType DEF Simulate
    <3>2. CASE ~ h.i > Len(comps)
      <4>1. h' = Balancing(comps[h.i], LocalTotals(comps[h.i]), h.i, "append", NoShare)
        BY <1>13, <3>2 DEF Simulate
      <4>2. h.i \in Int /\ comps[h.i] \in SUBSET PowerInterfaces
        <5>1. h.i \in Int /\ h.i > 0 /\ Len(comps) \in Nat
          BY <1>0, <1>13, LenProperties DEF Simulate, Types, Work
        <5> QED
          BY <1>0, <3>2, <5>1, ElementOfSeq
      <4>3. "append" \in HandlerSteps
        BY DEF HandlerSteps
      <4> QED
        BY <1>13, <4>1, <4>2, <4>3, LocalBalancingType DEF Simulate, Types
    <3> QED
      BY <3>1, <3>2
  <2> QED
    BY <1>13, <1>r, <2>1 DEF Simulate, Types
<1>14. CASE SimulateAppend
  <2>1. cur' \in [Appliance -> Amounts]
    BY <1>0, <1>14, WorkAssigns DEF SimulateAppend
  <2>2. cs' \in Seq(Object)
    BY <1>0, <1>14, Pushed DEF SimulateAppend, Work
  <2>3. h' \in Work /\ (h'.step \in {"simulate", "append"} => h'.i > 0)
    <3>1. h' = At("simulate", h.i + 1, {})
      BY <1>14 DEF SimulateAppend
    <3>2. h.i \in Int /\ h.i > 0
      BY <1>14 DEF SimulateAppend, Types, Work
    <3> QED
      BY <3>1, <3>2, StartType
  <2> QED
    BY <1>14, <1>r, <2>1, <2>2, <2>3 DEF SimulateAppend, Types
<1>15. CASE UpdateTotals
  <2>1. h' \in Work /\ (h'.step \in {"simulate", "append"} => h'.i > 0)
    <3>1. h.of \in SUBSET PowerInterfaces /\ h.i \in Int /\ "assign" \in HandlerSteps
      BY <1>0 DEF Work, HandlerSteps
    <3>2. h' = Balancing(h.of, LocalTotals(h.of), h.i, "assign", NoShare)
      BY <1>15 DEF UpdateTotals
    <3> QED
      BY <3>1, <3>2, LocalBalancingType
  <2> QED
    BY <1>15, <1>r, <2>1 DEF UpdateTotals, Types
<1>16. CASE UpdateCurrents
  <2>1. cur' \in [Appliance -> Amounts]
    BY <1>0, <1>16, WorkAssigns DEF UpdateCurrents
  <2>2. cs' \in Seq(Object)
    BY <1>0, <1>16, ShareSet DEF UpdateCurrents, Work
  <2> QED
    BY <1>16, <1>r, <2>1, <2>2, IdleType DEF UpdateCurrents, Types
<1>17. ASSUME NEW enough \in BOOLEAN, NEW part \in Parts, AskCoordinator(enough, part)
       PROVE  Types'
  <2>1. h' \in Work /\ (h'.step \in {"simulate", "append"} => h'.i > 0)
    BY <1>17, AskType
  <2>3. cs' \in Seq(Object)
    BY <1>17, AskSets
  <2> QED
    BY <1>17, <1>r, <2>1, <2>3 DEF AskCoordinator, Types
<1>18. ASSUME NEW enough \in BOOLEAN, NEW part \in Parts, DynamicCoordinatedLoadUpdate(enough, part)
       PROVE  Types'
  <2>1. CASE cs = <<>>
    BY <1>18, <1>r, <2>1 DEF DynamicCoordinatedLoadUpdate, Types, Ends
  <2>2. CASE cs # <<>>
    <3>1. cur' \in [Appliance -> Amounts] /\ cs' \in Seq(Object)
      BY <1>18, <2>2, PushType
    <3>2. status' \in Ends
      BY <1>18, <2>2 DEF DynamicCoordinatedLoadUpdate, Types, Ends
    <3> QED
      BY <1>18, <1>r, <2>2, <3>1, <3>2 DEF DynamicCoordinatedLoadUpdate, Types
  <2> QED
    BY <2>1, <2>2
<1>19. CASE UNCHANGED vars
  BY <1>19 DEF vars, Types
<1>20. QED
  BY <1>1, <1>2, <1>3, <1>4, <1>5, <1>6, <1>7, <1>8, <1>9, <1>10, <1>11, <1>12, <1>13, <1>14,
     <1>15, <1>16, <1>17, <1>18, <1>19 DEF Next, MonitorNext

(* Every variable has its type in every execution.                         *)
THEOREM TypesInvariant == Spec => []Types
<1>1. QED
  BY TypesInit, TypesStep, PTL DEF Spec

THEOREM TypeCorrect == Spec => []TypeOK
<1>1. Types => TypeOK
  <2> SUFFICES ASSUME Types PROVE TypeOK
    OBVIOUS
  <2>1. \A i \in DOMAIN comps : comps[i] \subseteq PowerInterfaces
    <3>1. \A i \in DOMAIN comps : comps[i] \in SUBSET PowerInterfaces
      BY DEF Types
    <3>2. QED
      BY <3>1
  <2>2. \A i \in DOMAIN cs : cs[i].of \subseteq PowerInterfaces /\ cs[i].dynamic \in BOOLEAN
    <3>1. \A i \in DOMAIN cs : cs[i] \in Object
      BY DEF Types
    <3>2. QED
      BY <3>1 DEF Object
  <2>3. QED
    BY <2>1, <2>2 DEF Types, TypeOK, Ends
<1>2. QED
  BY <1>1, TypesInvariant, PTL

-----------------------------------------------------------------------------
(* Energy.  As long as nothing negative came in, no current and no total   *)
(* is negative, what the monitor read is in range too, and one interval    *)
(* past either end is seen.                                                *)
InRange(e) == e = NaN \/ e \in 0 .. Capacity

NotNegative(w) == w.part \in Counts /\ w.supplies >= 0 /\ w.demands >= 0

LawfulLoads == \A a \in Appliance : desired[a] >= 0
LawfulCurrents == \A a \in Appliance : cur[a] \in Counts
LawfulObjects == \A j \in DOMAIN cs : cs[j].supplies >= 0 /\ cs[j].demands >= 0
LawfulMonitor == /\ NotNegative(m.totals)
                 /\ m.step = "read" => m.by \in Counts /\ InRange(m.e)
LawfulEnergies == \A b \in Storage : InRange(stored[b])

Lawful == /\ LawfulLoads /\ LawfulCurrents /\ LawfulObjects
          /\ LawfulMonitor /\ LawfulEnergies /\ NotNegative(h)

EnergyRead == m.step = "read" => m.b \in Storage

EnergyInv == EnergyRead /\ (lawful => Lawful)

LEMMA NothingNegative ==
    /\ NotNegative(Idle)
    /\ \A s, i, c : NotNegative(At(s, i, c))
    /\ m' = Asleep => LawfulMonitor'
<1>1. 0 \in Counts
  BY DEF Counts
<1>2. NotNegative(Idle) /\ \A s, i, c : NotNegative(At(s, i, c))
  BY <1>1 DEF NotNegative, Idle, At
<1>3. Asleep.totals = Idle /\ Asleep.step = "asleep"
  BY DEF Asleep
<1>4. QED
  BY <1>2, <1>3 DEF LawfulMonitor

(* The totals of desires that are not negative are not either.             *)
LEMMA TotalsCount ==
    ASSUME Types, LawfulLoads, NEW c
    PROVE  /\ DesiredSupplies(c) >= 0 /\ DesiredDemands(c) >= 0
           /\ \A i, step, share : NotNegative(Balancing(c, LocalTotals(c), i, step, share))
<1>1. (\A a \in Appliance : desired[a] \in Nat) /\ Nat \in {Nat, Int}
  BY DesiresAreInt DEF Types, LawfulLoads
<1>2. DesiredSupplies(c) \in Nat
  BY <1>1, OnIsFinite, TotalSame DEF DesiredSupplies
<1>3. DesiredDemands(c) \in Nat
  BY <1>1, OnIsFinite, TotalSame DEF DesiredDemands
<1>4. QED
  BY <1>2, <1>3 DEF LocalTotals, NotNegative, Balancing, Counts

(* A balancing of them assigns no negative current.                        *)
LEMMA AssignsCounts ==
    ASSUME Types, LawfulLoads, LawfulCurrents, NEW c, NEW w, NotNegative(w),
           w.part \in Amounts, w.supplies \in Int, w.demands \in Int, cur' = Assign(c, w)
    PROVE  LawfulCurrents'
  BY AssignType DEF LawfulLoads, LawfulCurrents, NotNegative

(* What one interval leaves in range, and what it does not.                *)
LEMMA AfterInRange ==
    ASSUME Types, m.by \in Counts, InRange(m.e), ~ IsPast
    PROVE  InRange(After)
<1> DEFINE by == IF m.by \in Int THEN Sign(m.by) ELSE m.by
           y == IF m.mode = "charging" THEN by ELSE Negated(by)
<1>0. After = Plus(m.e, y) /\ NumberAssumption /\ Capacity \in Nat
  BY NumberAssumption, GridAssumption DEF After
<1>1. NaN \notin Int /\ Infinity \notin Int /\ MinusInfinity \notin Int
      /\ NaN # Infinity /\ NaN # MinusInfinity /\ Infinity # MinusInfinity
  BY <1>0 DEF NumberAssumption
<1>2. /\ Sign(NaN) = 0 /\ Sign(Infinity) = 1 /\ Sign(MinusInfinity) = -1
      /\ Negated(NaN) = NaN /\ Negated(Infinity) = MinusInfinity /\ Negated(MinusInfinity) = Infinity
  <2>1. Sign(NaN) = 0 /\ Sign(Infinity) = 1 /\ Sign(MinusInfinity) = -1
    BY SignIs DEF Amounts
  <2>2. Infinite(0) = NaN /\ Infinite(1) = Infinity /\ Infinite(-1) = MinusInfinity
    BY DEF Infinite
  <2>3. Negated(NaN) = Infinite(- Sign(NaN))
    BY <1>1 DEF Negated
  <2>4. Negated(Infinity) = Infinite(- Sign(Infinity))
    BY <1>1 DEF Negated
  <2>5. Negated(MinusInfinity) = Infinite(- Sign(MinusInfinity))
    BY <1>1 DEF Negated
  <2>6. QED
    BY <2>1, <2>2, <2>3, <2>4, <2>5
<1>3. by \in {0, 1} \/ by = NaN \/ by = Infinity
  <2>1. m.by \in Amounts
    BY DEF Types, Monitor
  <2>2. CASE m.by \in Int
    BY <2>1, <2>2, SignIs, CountsAre
  <2>3. CASE m.by \notin Int
    BY <2>3 DEF Counts
  <2>4. QED
    BY <2>2, <2>3
<1> HIDE DEF by
<1>4. CASE m.e = NaN
  <2>1. Plus(m.e, y) = NaN
    BY <1>1, <1>4 DEF Plus
  <2>2. QED
    BY <1>0, <2>1 DEF InRange
<1>5. CASE m.e \in 0 .. Capacity /\ by = NaN
  <2>1. y = NaN
    BY <1>2, <1>5
  <2>2. Plus(m.e, y) = NaN
    BY <1>1, <2>1 DEF Plus
  <2>3. QED
    BY <1>0, <2>2 DEF InRange
<1>6. CASE m.e \in 0 .. Capacity /\ by = Infinity
  <2>1. m.e \in Int
    BY <1>6
  <2>2. CASE m.mode = "charging"
    <3>1. y = Infinity /\ Plus(m.e, y) = Infinite(1)
      BY <1>1, <1>2, <1>6, <2>1, <2>2 DEF Plus
    <3>2. After = Infinity
      BY <1>0, <3>1 DEF Infinite
    <3>3. QED
      BY <2>2, <3>2 DEF IsPast, Above
  <2>3. CASE m.mode # "charging"
    <3>1. y = MinusInfinity /\ Plus(m.e, y) = Infinite(-1)
      BY <1>1, <1>2, <1>6, <2>1, <2>3 DEF Plus
    <3>2. After = MinusInfinity
      BY <1>0, <3>1 DEF Infinite
    <3>3. QED
      BY <1>2, <2>3, <3>2 DEF IsPast, Above
  <2>4. QED
    BY <2>2, <2>3
<1>7. CASE m.e \in 0 .. Capacity /\ by \in {0, 1}
  <2>1. PICK e \in Int : e = m.e /\ 0 <= e /\ e <= Capacity
    BY <1>7
  <2>2. PICK d \in {0, 1} : d = by
    BY <1>7
  <2>3. CASE m.mode = "charging"
    <3>1. y = d /\ Plus(m.e, y) = e + d
      BY <2>1, <2>2, <2>3 DEF Plus
    <3>2. ~ e + d > Capacity
      <4>1. ~ Above(After, Capacity)
        BY <2>3 DEF IsPast
      <4>2. QED
        BY <1>0, <3>1, <4>1 DEF Above
    <3>3. QED
      BY <1>0, <2>1, <3>1, <3>2 DEF InRange
  <2>4. CASE m.mode # "charging"
    <3>1. y = - d
      BY <2>2, <2>4 DEF Negated
    <3>2. Plus(m.e, y) = e - d
      BY <2>1, <2>2, <3>1 DEF Plus
    <3>3. ~ - (e - d) > 0
      <4>1. ~ Above(Negated(After), 0)
        BY <2>4 DEF IsPast
      <4>2. Negated(After) = - (e - d)
        BY <1>0, <3>2 DEF Negated
      <4>3. QED
        BY <4>1, <4>2 DEF Above
    <3>4. QED
      BY <1>0, <2>1, <3>2, <3>3 DEF InRange
  <2>5. QED
    BY <2>3, <2>4
<1>8. QED
  BY <1>3, <1>4, <1>5, <1>6, <1>7 DEF InRange

(* What MonitorWrite leaves.                                               *)
LEMMA WriteIs ==
    ASSUME Types, MonitorWrite
    PROVE  /\ m.step = "read"
           /\ stored' = [stored EXCEPT ![m.b] = IF ~ IsPast THEN After
                                                ELSE IF m.mode = "charging" THEN Capacity ELSE 0]
           /\ \/ m' = Asleep /\ cs' = cs /\ status' = status
              \/ /\ m'.step = "total" /\ m'.totals = m.totals /\ m'.lost = m.lost
                 /\ status' = status
                 /\ cs' = [cs EXCEPT ![m'.i].stale = TRUE] /\ m'.of = cs[m'.i].of
              \/ m' = m /\ cs' = cs /\ status' = "badAccess"
<1>1. \/ m' = Asleep /\ cs' = cs /\ status' = status
      \/ m' = m /\ cs' = cs /\ status' = "badAccess"
      \/ LET i == FindComponent(<<m.b, 0>>)
         IN /\ m' = [m EXCEPT !.step = "total", !.of = cs[i].of, !.i = i]
            /\ cs' = [cs EXCEPT ![i].stale = TRUE] /\ status' = status
  BY DEF MonitorWrite
<1>2. m \in Monitor
  BY DEF Types
<1>3. ASSUME NEW i, m' = [m EXCEPT !.step = "total", !.of = cs[i].of, !.i = i]
      PROVE  m'.step = "total" /\ m'.totals = m.totals /\ m'.lost = m.lost /\ m'.i = i
             /\ m'.of = cs[i].of
  BY <1>2, <1>3 DEF Monitor
<1>4. stored' = [stored EXCEPT ![m.b] = IF ~ IsPast THEN After
                                       ELSE IF m.mode = "charging" THEN Capacity ELSE 0]
  <2>1. CASE IsPast
    BY <2>1 DEF MonitorWrite
  <2>2. CASE ~ IsPast
    BY <2>2 DEF MonitorWrite
  <2>3. QED
    BY <2>1, <2>2
<1>5. QED
  BY <1>1, <1>3, <1>4 DEF MonitorWrite

LEMMA ReadStep == Types /\ EnergyRead /\ [Next]_vars => EnergyRead'
<1> SUFFICES ASSUME Types, EnergyRead, [Next]_vars PROVE EnergyRead'
  OBVIOUS
<1>0. m \in Monitor
  BY DEF Types
<1>1. CASE m' = m
  BY <1>1 DEF EnergyRead
<1>2. CASE m'.step # "read"
  BY <1>2 DEF EnergyRead
<1>3. ASSUME m' = Asleep PROVE m'.step # "read"
  BY <1>3 DEF Asleep
<1>4. ASSUME NEW b \in Storage, MonitorRead(b) PROVE EnergyRead'
  <2>1. m'.b = b
    BY <1>4 DEF MonitorRead, Asleep
  <2>2. QED
    BY <2>1 DEF EnergyRead
<1>5. CASE MonitorWrite
  BY <1>1, <1>2, <1>3, <1>5, WriteIs
<1>6. CASE MonitorTotals
  <2>1. ASSUME NEW t, m' = [m EXCEPT !.step = "assign", !.totals = t]
        PROVE  m'.step = "assign"
    BY <1>0, <2>1 DEF Monitor
  <2>2. QED
    BY <1>1, <1>2, <1>6, <2>1 DEF MonitorTotals
<1>7. CASE AncillaryThreadsStart \/ MonitorCurrents
  BY <1>1, <1>2, <1>3, <1>7 DEF AncillaryThreadsStart, MonitorCurrents
<1>8. ASSUME NEW s \in Switch, NEW f \in Flags, UpdateSwitch(s, f) PROVE EnergyRead'
  <2>1. CASE m' = [m EXCEPT !.lost = m.step \in {"total", "assign"}]
    <3>1. m'.step = m.step /\ m'.b = m.b
      BY <1>0, <2>1 DEF Monitor
    <3>2. QED
      BY <3>1 DEF EnergyRead
  <2>2. QED
    BY <1>1, <1>8, <2>1 DEF UpdateSwitch
<1>9. CASE \/ \E a \in Appliance : \E v \in Values[a] : UpdateAppliance(a, v)
           \/ \E a \in Storage, md \in Modes : UpdateStorage(a, md)
           \/ \E p \in LocalPis : DynamicConnectedSimulation(p)
           \/ \E enough \in BOOLEAN, part \in Parts : DynamicCoordinatedLoadUpdate(enough, part)
           \/ \E enough \in BOOLEAN, part \in Parts : AskCoordinator(enough, part)
  BY <1>1, <1>9 DEF UpdateAppliance, UpdateStorage, DynamicConnectedSimulation,
     DynamicCoordinatedLoadUpdate, AskCoordinator
<1>10. CASE \/ Rebuild \/ DfsVisit \/ FindConnectedComponents \/ Simulate \/ SimulateAppend
            \/ UpdateTotals \/ UpdateCurrents \/ UNCHANGED vars
  BY <1>1, <1>10 DEF Rebuild, DfsVisit, FindConnectedComponents, Simulate, SimulateAppend,
     UpdateTotals, UpdateCurrents, vars
<1>11. QED
  BY <1>4, <1>5, <1>6, <1>7, <1>8, <1>9, <1>10 DEF Next, MonitorNext

(* Every step keeps what is not negative so, unless something negative     *)
(* comes in.                                                               *)
LEMMA LawfulStep ==
    ASSUME Types, EnergyRead, Lawful, [Next]_vars, lawful'
    PROVE  Lawful'
<1>0. /\ h \in Work /\ m \in Monitor /\ cs \in Seq(Object) /\ m.totals \in Work
      /\ stored \in [Storage -> Amounts]
      /\ LawfulLoads /\ LawfulCurrents /\ LawfulObjects /\ LawfulMonitor /\ LawfulEnergies
      /\ NotNegative(h) /\ NotNegative(m.totals)
  BY DEF Types, Lawful, LawfulMonitor, Monitor
<1>a. /\ desired' = desired => LawfulLoads'
      /\ cur' = cur => LawfulCurrents'
      /\ cs' = cs => LawfulObjects'
      /\ m' = m \/ m' = Asleep => LawfulMonitor'
      /\ stored' = stored => LawfulEnergies'
      /\ h' = h => NotNegative(h')
  BY <1>0, NothingNegative
     DEF LawfulLoads, LawfulCurrents, LawfulObjects, LawfulMonitor, LawfulEnergies, NotNegative
\* objects of which the totals are the same
<1>b. ASSUME DOMAIN cs' = DOMAIN cs,
             \A j \in DOMAIN cs : cs'[j].supplies = cs[j].supplies /\ cs'[j].demands = cs[j].demands
      PROVE  LawfulObjects'
  BY <1>0, <1>b DEF LawfulObjects
\* what a thread assigns
<1>c. \A w \in Work : w.part \in Amounts /\ w.supplies \in Int /\ w.demands \in Int
  BY DEF Work
<1>1. CASE AncillaryThreadsStart
  BY <1>1, <1>0, <1>a DEF AncillaryThreadsStart, Lawful
<1>2. ASSUME NEW b \in Storage, MonitorRead(b)
      PROVE  Lawful'
  <2>1. m'.by = cur[b] /\ m'.e = stored[b] /\ m'.totals = Idle
    BY <1>2 DEF MonitorRead, Asleep
  <2>2. b \in Appliance
    BY DEF Storage
  <2>3. LawfulMonitor'
    BY <1>0, <2>1, <2>2, NothingNegative DEF LawfulMonitor, LawfulCurrents, LawfulEnergies
  <2>4. QED
    BY <1>2, <1>0, <1>a, <2>3 DEF MonitorRead, Lawful
<1>3. CASE MonitorWrite
  <2>1. m.step = "read" /\ m.b \in Storage /\ m.by \in Counts /\ InRange(m.e)
    BY <1>0, <1>3, WriteIs DEF EnergyRead, LawfulMonitor
  <2>2. PICK e : e = (IF ~ IsPast THEN After ELSE IF m.mode = "charging" THEN Capacity ELSE 0)
    OBVIOUS
  <2>3. InRange(e)
    <3>1. Capacity \in Nat
      BY GridAssumption
    <3>2. CASE ~ IsPast
      BY <2>1, <2>2, <3>2, AfterInRange
    <3>3. CASE IsPast
      <4>1. e \in 0 .. Capacity
        BY <2>2, <3>1, <3>3
      <4>2. QED
        BY <4>1 DEF InRange
    <3>4. QED
      BY <3>2, <3>3
  <2>4. LawfulEnergies'
    <3>1. stored' = [stored EXCEPT ![m.b] = e]
      BY <1>3, <2>2, WriteIs
    <3>2. QED
      BY <1>0, <2>3, <3>1 DEF LawfulEnergies
  <2>5. LawfulMonitor'
    <3>1. CASE m'.step = "total" /\ m'.totals = m.totals
      BY <1>0, <3>1 DEF LawfulMonitor
    <3>2. QED
      BY <1>3, <1>a, <3>1, WriteIs
  <2>6. LawfulObjects'
    <3>1. ASSUME NEW i, cs' = [cs EXCEPT ![i].stale = TRUE]
          PROVE  LawfulObjects'
      BY <1>0, <1>b, <3>1, StaleSet
    <3>2. QED
      BY <1>3, <1>a, <3>1, WriteIs
  <2>7. QED
    BY <1>3, <1>0, <1>a, <2>4, <2>5, <2>6 DEF MonitorWrite, Lawful
<1>4. CASE MonitorTotals
  <2>1. PICK t : t = Balancing(m.of, LocalTotals(m.of), m.i, "assign", NoShare)
    OBVIOUS
  <2>2. NotNegative(t)
    BY <1>0, <2>1, TotalsCount
  <2>3. LawfulMonitor'
    <3>1. CASE m' = [m EXCEPT !.step = "assign", !.totals = t]
      <4>1. m'.step = "assign" /\ m'.totals = t
        BY <1>0, <3>1 DEF Monitor
      <4>2. QED
        BY <2>2, <4>1 DEF LawfulMonitor
    <3>2. m' = m \/ m' = [m EXCEPT !.step = "assign", !.totals = t]
      BY <1>4, <2>1 DEF MonitorTotals
    <3>3. QED
      BY <1>a, <3>1, <3>2
  <2>4. QED
    BY <1>4, <1>0, <1>a, <2>3 DEF MonitorTotals, Lawful
<1>5. CASE MonitorCurrents
  <2>1. LawfulCurrents'
    <3>1. cur' = cur \/ cur' = Assign(m.of, m.totals)
      BY <1>5 DEF MonitorCurrents
    <3>2. QED
      BY <1>0, <1>a, <1>c, <3>1, AssignsCounts
  <2>2. LawfulObjects'
    <3>1. CASE cs' = [cs EXCEPT ![m.i].share = NoShare]
      BY <1>0, <1>b, <3>1, ShareSet, IdleType DEF SameTotals
    <3>2. QED
      BY <1>5, <1>a, <3>1 DEF MonitorCurrents
  <2>3. QED
    BY <1>5, <1>0, <1>a, <2>1, <2>2 DEF MonitorCurrents, Lawful
\* the handler of a node's update
<1>6. ASSUME NEW a, UpdateOf(a)
      PROVE  NotNegative(h')
  BY <1>0, <1>6, UpdateOfType, NothingNegative
<1>7. ASSUME NEW a \in Appliance, NEW v \in Values[a], UpdateAppliance(a, v)
      PROVE  Lawful'
  <2>1. desired' = [desired EXCEPT ![a] = v] /\ v >= 0 /\ desired \in Desires
    BY <1>7 DEF UpdateAppliance, Receives, Types
  <2>2. LawfulLoads'
    BY <1>0, <2>1 DEF LawfulLoads, Desires
  <2>3. QED
    BY <1>7, <1>0, <1>a, <1>6, <2>2 DEF UpdateAppliance, Lawful
<1>8. ASSUME NEW a \in Storage, NEW md \in Modes, UpdateStorage(a, md)
      PROVE  Lawful'
  BY <1>8, <1>0, <1>a, <1>6 DEF UpdateStorage, Lawful
<1>9. ASSUME NEW s \in Switch, NEW f \in Flags, UpdateSwitch(s, f)
      PROVE  Lawful'
  <2>1. NotNegative(h')
    BY <1>9, NothingNegative DEF UpdateSwitch
  <2>2. LawfulObjects'
    <3>1. CASE cs' = <<>>
      BY <3>1 DEF LawfulObjects
    <3>2. QED
      BY <1>9, <1>a, <3>1 DEF UpdateSwitch, Clear
  <2>3. LawfulMonitor'
    <3>1. CASE m' = [m EXCEPT !.lost = m.step \in {"total", "assign"}]
      <4>1. m'.step = m.step /\ m'.by = m.by /\ m'.e = m.e /\ m'.totals = m.totals
        BY <1>0, <3>1 DEF Monitor
      <4>2. QED
        BY <1>0, <4>1 DEF LawfulMonitor
    <3>2. QED
      BY <1>9, <1>a, <3>1 DEF UpdateSwitch
  <2>4. QED
    BY <1>9, <1>0, <1>a, <2>1, <2>2, <2>3 DEF UpdateSwitch, Lawful
<1>10. ASSUME NEW p \in LocalPis, DynamicConnectedSimulation(p)
       PROVE  Lawful'
  <2>1. NotNegative(h')
    BY <1>0, <1>10, NothingNegative DEF DynamicConnectedSimulation
  <2>2. LawfulObjects'
    <3>1. ASSUME NEW i, cs' = [cs EXCEPT ![i].dynamic = TRUE]
          PROVE  LawfulObjects'
      BY <1>0, <1>b, <3>1, DynamicSet
    <3>2. QED
      BY <1>10, <1>a, <3>1 DEF DynamicConnectedSimulation
  <2>3. QED
    BY <1>10, <1>0, <1>a, <2>1, <2>2 DEF DynamicConnectedSimulation, Lawful
<1>11. CASE Rebuild \/ DfsVisit \/ FindConnectedComponents
  <2>1. ASSUME NEW c, h' = [h EXCEPT !.of = c] PROVE NotNegative(h')
    <3>1. h'.part = h.part /\ h'.supplies = h.supplies /\ h'.demands = h.demands
      BY <1>0, <2>1 DEF Work
    <3>2. QED
      BY <1>0, <3>1 DEF NotNegative
  <2>2. ASSUME NEW c, NEW g, h' = [h EXCEPT !.of = c, !.green = g] PROVE NotNegative(h')
    <3>1. h'.part = h.part /\ h'.supplies = h.supplies /\ h'.demands = h.demands
      BY <1>0, <2>2 DEF Work
    <3>2. QED
      BY <1>0, <3>1 DEF NotNegative
  <2>3. \/ \E s, i, c : h' = At(s, i, c)
        \/ \E c : h' = [h EXCEPT !.of = c]
        \/ \E c, g : h' = [h EXCEPT !.of = c, !.green = g]
    BY <1>11 DEF Rebuild, DfsVisit, FindConnectedComponents
  <2>a. ASSUME NEW s, NEW i, NEW c, h' = At(s, i, c) PROVE NotNegative(h')
    <3>1. PICK w : w = At(s, i, c)
      OBVIOUS
    <3>2. NotNegative(w)
      BY <3>1, NothingNegative
    <3>3. QED
      BY <2>a, <3>1, <3>2
  <2>4. NotNegative(h')
    BY <2>1, <2>2, <2>3, <2>a
  <2>5. UNCHANGED <<desired, cur, cs, m, stored>>
    BY <1>11 DEF Rebuild, DfsVisit, FindConnectedComponents
  <2>6. QED
    BY <1>a, <2>4, <2>5 DEF Lawful
<1>12. CASE Simulate \/ UpdateTotals
  <2>1. NotNegative(h')
    <3>1. ASSUME NEW c, NEW i, NEW step, h' = Balancing(c, LocalTotals(c), i, step, NoShare)
          PROVE  NotNegative(h')
      <4>1. PICK t : t = Balancing(c, LocalTotals(c), i, step, NoShare)
        OBVIOUS
      <4>2. NotNegative(t)
        BY <1>0, <4>1, TotalsCount
      <4>3. QED
        BY <3>1, <4>1, <4>2
    <3>2. h' = Idle \/ \E c, i, step : h' = Balancing(c, LocalTotals(c), i, step, NoShare)
      BY <1>12 DEF Simulate, UpdateTotals
    <3>3. QED
      BY <3>1, <3>2, NothingNegative
  <2>2. UNCHANGED <<desired, cur, cs, m, stored>>
    BY <1>12 DEF Simulate, UpdateTotals
  <2>3. QED
    BY <1>a, <2>1, <2>2 DEF Lawful
<1>13. CASE SimulateAppend
  <2>1. LawfulCurrents'
    BY <1>0, <1>13, <1>c, AssignsCounts DEF SimulateAppend
  <2>2. h.of \in SUBSET PowerInterfaces /\ PushBack(h.of)
    BY <1>0, <1>13 DEF SimulateAppend, Work
  <2>3. LawfulObjects'
    <3>0. /\ cs' \in Seq(Object) /\ Len(cs') = Len(cs) + 1
          /\ cs'[Len(cs) + 1] = ConnectedComponent(h.of)
          /\ \A j \in 1 .. Len(cs) : SameTotals(cs[j], cs'[j])
      BY <2>2, Pushed
    <3>1. cs'[Len(cs) + 1].supplies = 0 /\ cs'[Len(cs) + 1].demands = 0
      BY <3>0 DEF ConnectedComponent
    <3>2. /\ DOMAIN cs' = 1 .. Len(cs) + 1 /\ Len(cs) \in Nat /\ DOMAIN cs = 1 .. Len(cs)
      BY <1>0, <3>0, LenProperties
    <3>3. QED
      BY <1>0, <3>0, <3>1, <3>2 DEF LawfulObjects, SameTotals
  <2>4. NotNegative(h')
    BY <1>13, NothingNegative DEF SimulateAppend
  <2>5. QED
    BY <1>13, <1>a, <1>0, <2>1, <2>3, <2>4 DEF SimulateAppend, Lawful
<1>14. CASE UpdateCurrents
  <2>1. LawfulCurrents'
    BY <1>0, <1>14, <1>c, AssignsCounts DEF UpdateCurrents
  <2>2. h.share \in Part /\ cs' = [cs EXCEPT ![h.i].share = h.share]
    BY <1>0, <1>14 DEF UpdateCurrents, Work
  <2>3. LawfulObjects'
    BY <1>0, <1>b, <2>2, ShareSet DEF SameTotals
  <2>4. QED
    BY <1>14, <1>a, <1>0, <2>1, <2>3, NothingNegative DEF UpdateCurrents, Lawful
<1>15. ASSUME NEW enough \in BOOLEAN, NEW part \in Parts, AskCoordinator(enough, part)
       PROVE  Lawful'
  <2>1. part \in Counts
    <3>1. Sign(part) >= 0
      BY <1>15 DEF AskCoordinator, Receives
    <3>2. QED
      BY <1>15, <3>1, AskType, CountsAre
  <2>2. PICK s \in Int, d \in Int : /\ s = DesiredSupplies(h.of) /\ d = DesiredDemands(h.of)
                                    /\ s >= 0 /\ d >= 0
    BY <1>0, TotalsType, TotalsCount
  <2>3. NotNegative(h')
    BY <1>15, <2>1, <2>2, AskType DEF NotNegative
  <2>4. LawfulObjects'
    <3>2. DOMAIN cs' = DOMAIN cs
          /\ \A j \in DOMAIN cs : /\ j # h.i => cs'[j] = cs[j]
                                  /\ j = h.i => cs'[j].supplies = s /\ cs'[j].demands = d
      BY <1>15, <2>2, AskSets
    <3>3. QED
      BY <1>0, <2>2, <3>2 DEF LawfulObjects
  <2>5. QED
    BY <1>15, <1>a, <1>0, <2>3, <2>4 DEF AskCoordinator, Lawful
<1>16. ASSUME NEW enough \in BOOLEAN, NEW part \in Parts, DynamicCoordinatedLoadUpdate(enough, part)
       PROVE  Lawful'
  <2>1. CASE cs = <<>>
    BY <1>16, <1>a, <1>0, <2>1 DEF DynamicCoordinatedLoadUpdate, Lawful
  <2>2. CASE cs # <<>>
    <3>1. 1 \in DOMAIN cs /\ cs[1] \in Object /\ part \in Amounts /\ Share(enough, part) \in Part
      BY <1>16, <2>2, PushType
    <3>2. part \in Counts
      <4>1. Sign(part) >= 0
        BY <1>16 DEF DynamicCoordinatedLoadUpdate, Receives
      <4>2. QED
        BY <3>1, <4>1, CountsAre
    <3>3. PICK w : w = [enough |-> enough, part |-> part,
                        supplies |-> cs[1].supplies, demands |-> cs[1].demands]
      OBVIOUS
    <3>4. NotNegative(w) /\ w.part \in Amounts /\ w.supplies \in Int /\ w.demands \in Int
      BY <1>0, <3>1, <3>2, <3>3 DEF LawfulObjects, NotNegative, Object
    <3>5. cur' = Assign(cs[1].of, w)
      BY <1>16, <2>2, <3>3 DEF DynamicCoordinatedLoadUpdate
    <3>6. LawfulCurrents'
      BY <1>0, <3>4, <3>5, AssignsCounts
    <3>7. PICK share \in Part : share = Share(enough, part)
      BY <3>1
    <3>8. cs' = [cs EXCEPT ![1].share = share]
      BY <1>16, <2>2, <3>7 DEF DynamicCoordinatedLoadUpdate
    <3>9. LawfulObjects'
      BY <1>0, <1>b, <3>8, ShareSet DEF SameTotals
    <3>10. QED
      BY <1>16, <1>a, <1>0, <3>6, <3>9 DEF DynamicCoordinatedLoadUpdate, Lawful
  <2>3. QED
    BY <2>1, <2>2
<1>17. CASE UNCHANGED vars
  BY <1>17, <1>a, <1>0 DEF vars, Lawful
<1>18. QED
  BY <1>1, <1>2, <1>3, <1>4, <1>5, <1>7, <1>8, <1>9, <1>10, <1>11, <1>12, <1>13, <1>14, <1>15,
     <1>16, <1>17 DEF Next, MonitorNext

LEMMA EnergyStep == Types /\ EnergyInv /\ [Next]_vars => EnergyInv'
<1>1. ASSUME [Next]_vars, lawful' PROVE lawful
  BY <1>1 DEF Next, MonitorNext, AncillaryThreadsStart, MonitorRead, MonitorWrite, MonitorTotals,
     MonitorCurrents, UpdateAppliance, UpdateStorage, UpdateSwitch, DynamicConnectedSimulation,
     DynamicCoordinatedLoadUpdate, Rebuild, DfsVisit, FindConnectedComponents, Simulate,
     SimulateAppend, UpdateTotals, UpdateCurrents, AskCoordinator, MonitorOverlaps, Overlaps,
     Receives, vars
<1>2. QED
  BY <1>1, ReadStep, LawfulStep DEF EnergyInv

LEMMA EnergyInit == Init => EnergyInv
<1> SUFFICES ASSUME Init PROVE EnergyInv
  OBVIOUS
<1>1. m.step = "unborn" /\ m.totals = Idle
  BY DEF Init, Asleep
<1>2. LawfulMonitor /\ NotNegative(h)
  BY <1>1, NothingNegative DEF Init, LawfulMonitor
<1>3. LawfulCurrents /\ LawfulObjects
  BY DEF Init, LawfulCurrents, LawfulObjects, Counts
<1>4. lawful => LawfulLoads /\ LawfulEnergies
  BY DEF Init, LawfulLoads, LawfulEnergies, InRange
<1>5. QED
  BY <1>1, <1>2, <1>3, <1>4 DEF EnergyInv, EnergyRead, Lawful

(* A storage never holds less than nothing or more than its capacity,      *)
(* whatever the monitor reads and writes between the steps of a handler,   *)
(* when it starts within them and no desire or share is negative.          *)
THEOREM EnergyStaysInRange == Spec => []EnergyInRange
<1>1. EnergyInv => EnergyInRange
  BY DEF EnergyInv, Lawful, LawfulEnergies, EnergyInRange, InRange
<1>2. QED
  BY <1>1, TypesInvariant, EnergyInit, EnergyStep, PTL DEF Spec

-----------------------------------------------------------------------------
(* The search.  With a power line there always is an edge, so that the     *)
(* search takes place.                                                     *)
HasLines == PowerLines # {}

InSome(p) == \E i \in DOMAIN comps : p \in comps[i]

\* what has been found are components, each once
SomeFound ==
    /\ \A i \in DOMAIN comps : comps[i] \in Components[flag]
    /\ \A i, j \in DOMAIN comps : comps[i] = comps[j] => i = j

\* no closed set divides what the present search has reached
Undivided ==
    \A S \in SUBSET PowerInterfaces : Closed(S, flag) => h.of \subseteq S \/ h.of \cap S = {}

Searching ==
    /\ Len(cs) = 0 /\ adj = Edges(flag) /\ SomeFound
    /\ \A p \in PowerInterfaces : p \in h.green <=> InSome(p)
    /\ h.of \cap h.green = {} /\ Undivided

SearchInv ==
    /\ h.step = "rebuild" => comps = <<>> /\ Len(cs) = 0 /\ adj = {}
    /\ h.step = "search" => Searching
    /\ h.step \notin {"rebuild", "search"} => SomeFound /\ \A p \in PowerInterfaces : InSome(p)

LEMMA EdgesGoBothWays ==
    ASSUME NEW f, NEW p, NEW q, <<p, q>> \in Edges(f)
    PROVE  <<q, p>> \in Edges(f)
<1>1. p \in PowerInterfaces /\ q \in PowerInterfaces /\ q \in PiNeighbors(f, p) \cup OtherPeer(p)
  BY DEF Edges
<1>2. CASE q \in OtherPeer(p)
  BY <1>1, <1>2 DEF Edges, OtherPeer
<1>3. CASE q \in PiNeighbors(f, p)
  <2>1. /\ p[1] \in Switch /\ q[1] = p[1] /\ q # p
        /\ IsConnected(f[p[1]], p[2], q[2])
    BY <1>3 DEF PiNeighbors
  <2>2. IsConnected(f[q[1]], q[2], p[2])
    BY <2>1 DEF IsConnected
  <2>3. QED
    BY <1>1, <2>1, <2>2 DEF Edges, PiNeighbors
<1>4. QED
  BY <1>1, <1>2, <1>3

LEMMA SomeEdge == ASSUME HasLines, NEW f PROVE Edges(f) # {}
<1>1. PICK p, q : <<p, q>> \in PowerLines /\ p \in PowerInterfaces /\ q \in PowerInterfaces
  BY GridAssumption DEF HasLines
<1>2. <<p, q>> \in Edges(f)
  BY <1>1 DEF Edges, OtherPeer
<1>3. QED
  BY <1>2

(* Components, spelled out.                                                *)
LEMMA ComponentIs ==
    ASSUME NEW f \in [Switch -> Flags], NEW C
    PROVE  C \in Components[f] <=>
              /\ C \in SUBSET PowerInterfaces /\ C # {} /\ Closed(C, f)
              /\ \A D \in SUBSET PowerInterfaces :
                    D # {} /\ Closed(D, f) /\ D \subseteq C => D = C
  BY DEF Components

LEMMA ReachedIsComponent ==
    ASSUME NEW f \in [Switch -> Flags], NEW C \in SUBSET PowerInterfaces, C # {}, Closed(C, f),
           \A S \in SUBSET PowerInterfaces : Closed(S, f) => C \subseteq S \/ C \cap S = {}
    PROVE  C \in Components[f]
<1>1. ASSUME NEW D \in SUBSET PowerInterfaces, D # {}, Closed(D, f), D \subseteq C
      PROVE  D = C
  BY <1>1
<1>2. QED
  BY <1>1, ComponentIs

LEMMA ComponentsAreApart ==
    ASSUME NEW f \in [Switch -> Flags], NEW C \in Components[f], NEW D \in Components[f],
           NEW p \in C, p \in D
    PROVE  C = D
<1>1. /\ C \in SUBSET PowerInterfaces /\ Closed(C, f) /\ D \in SUBSET PowerInterfaces /\ Closed(D, f)
      /\ \A E \in SUBSET PowerInterfaces : E # {} /\ Closed(E, f) /\ E \subseteq C => E = C
      /\ \A E \in SUBSET PowerInterfaces : E # {} /\ Closed(E, f) /\ E \subseteq D => E = D
  BY ComponentIs
<1>2. Closed(C \cap D, f) /\ C \cap D # {} /\ C \cap D \in SUBSET PowerInterfaces
  BY <1>1 DEF Closed
<1>3. QED
  BY <1>1, <1>2

LEMMA WholeIsPartition ==
    ASSUME Types, SomeFound, \A p \in PowerInterfaces : InSome(p)
    PROVE  ToSet(comps) = Components[flag] /\ IsInjective(comps)
<1>0. flag \in [Switch -> Flags]
  BY DEF Types
<1>1. ASSUME NEW C \in Components[flag]
      PROVE  C \in ToSet(comps)
  <2>1. PICK p \in C : p \in PowerInterfaces
    BY <1>0, ComponentIs
  <2>2. PICK i \in DOMAIN comps : p \in comps[i]
    BY <2>1 DEF InSome
  <2>3. comps[i] = C
    BY <1>0, <2>2, ComponentsAreApart DEF SomeFound
  <2>4. QED
    BY <2>2, <2>3 DEF ToSet
<1>2. ToSet(comps) \subseteq Components[flag]
  BY DEF ToSet, SomeFound
<1>3. IsInjective(comps)
  BY DEF IsInjective, SomeFound
<1>4. QED
  BY <1>1, <1>2, <1>3

(* dfs_visit goes along an edge: a closed set that has its end has its     *)
(* beginning.                                                              *)
LEMMA StaysUndivided ==
    ASSUME Searching, NEW p \in ToVisit, NEW S \in SUBSET PowerInterfaces, Closed(S, flag)
    PROVE  h.of \cup {p} \subseteq S \/ (h.of \cup {p}) \cap S = {}
<1>1. CASE h.of = {}
  BY <1>1
<1>2. CASE h.of # {}
  <2>1. PICK q \in h.of : <<q, p>> \in Edges(flag) /\ <<p, q>> \in Edges(flag)
    BY <1>2, EdgesGoBothWays DEF ToVisit, Searching
  <2>2. (q \in S => p \in S) /\ (p \in S => q \in S)
    BY <2>1 DEF Closed
  <2>3. h.of \subseteq S \/ h.of \cap S = {}
    BY DEF Searching, Undivided
  <2>4. QED
    BY <2>1, <2>2, <2>3
<1>3. QED
  BY <1>1, <1>2

(* When nothing is left to visit, what has been reached is a component.    *)
LEMMA ReachedIsClosed ==
    ASSUME Types, Searching, ToVisit = {}
    PROVE  (h.of = {} /\ White = {}) \/ (h.of # {} /\ h.of \in Components[flag])
<1>0. flag \in [Switch -> Flags] /\ h.of \in SUBSET PowerInterfaces
  BY DEF Types, Work
<1>1. CASE h.of = {}
  BY <1>1 DEF ToVisit
<1>2. CASE h.of # {}
  <2>1. ASSUME NEW e \in Edges(flag), e[1] \in h.of, e[2] \notin h.of
        PROVE  FALSE
    <3>1. PICK p \in PowerInterfaces, q \in PowerInterfaces : e = <<p, q>> /\ e[1] = p /\ e[2] = q
      BY DEF Edges
    <3>2. q \notin White
      BY <1>2, <2>1, <3>1 DEF ToVisit, Searching
    <3>3. q \in h.green
      BY <2>1, <3>1, <3>2 DEF White
    <3>4. PICK i \in DOMAIN comps : q \in comps[i]
      BY <3>1, <3>3 DEF Searching, InSome
    <3>5. Closed(comps[i], flag)
      BY <1>0, ComponentIs DEF Searching, SomeFound
    <3>6. <<q, p>> \in Edges(flag)
      BY <2>1, <3>1, EdgesGoBothWays
    <3>7. p \in comps[i]
      BY <3>4, <3>5, <3>6 DEF Closed
    <3>8. p \in h.green
      BY <3>1, <3>7 DEF Searching, InSome
    <3>9. QED
      BY <2>1, <3>1, <3>8 DEF Searching
  <2>2. Closed(h.of, flag)
    BY <2>1 DEF Closed
  <2>3. QED
    BY <1>0, <1>2, <2>2, ReachedIsComponent DEF Searching, Undivided
<1>3. QED
  BY <1>1, <1>2
LEMMA OneMoreFound ==
    ASSUME Types, Searching, h.of # {}, h.of \in Components[flag],
           comps' = Append(comps, h.of), flag' = flag
    PROVE  /\ SomeFound'
           /\ \A p \in PowerInterfaces : InSome(p)' <=> p \in h.green \cup h.of
<1>1. /\ comps \in Seq(SUBSET PowerInterfaces) /\ h.of \in SUBSET PowerInterfaces
      /\ Len(comps) \in Nat /\ DOMAIN comps = 1 .. Len(comps)
  BY LenProperties DEF Types, Work
<1>2. /\ DOMAIN comps' = 1 .. Len(comps) + 1
      /\ \A i \in DOMAIN comps : comps'[i] = comps[i]
      /\ comps'[Len(comps) + 1] = h.of
  BY <1>1, AppendProperties, LenProperties
<1>3. \A i \in DOMAIN comps' : i \in DOMAIN comps \/ i = Len(comps) + 1
  BY <1>1, <1>2
<1>4. \A i \in DOMAIN comps : comps[i] # h.of
  <2>1. ASSUME NEW i \in DOMAIN comps, comps[i] = h.of PROVE FALSE
    <3>1. PICK p \in h.of : p \in PowerInterfaces
      BY <1>1
    <3>2. p \in h.green
      BY <2>1, <3>1 DEF Searching, InSome
    <3>3. QED
      BY <3>1, <3>2 DEF Searching
  <2>2. QED
    BY <2>1
<1>5. SomeFound'
  <2>1. \A i \in DOMAIN comps' : comps'[i] \in Components[flag']
    BY <1>2, <1>3 DEF Searching, SomeFound
  <2>2. ASSUME NEW i \in DOMAIN comps', NEW j \in DOMAIN comps', comps'[i] = comps'[j]
        PROVE  i = j
    <3>1. CASE i \in DOMAIN comps /\ j \in DOMAIN comps
      BY <1>2, <2>2, <3>1 DEF Searching, SomeFound
    <3>2. CASE i \notin DOMAIN comps \/ j \notin DOMAIN comps
      BY <1>2, <1>3, <1>4, <2>2, <3>2
    <3>3. QED
      BY <3>1, <3>2
  <2>3. QED
    BY <2>1, <2>2 DEF SomeFound
<1>6. ASSUME NEW p \in PowerInterfaces
      PROVE  InSome(p)' <=> p \in h.green \cup h.of
  <2>1. p \in h.green <=> \E i \in DOMAIN comps : p \in comps[i]
    BY DEF Searching, InSome
  <2>2. DOMAIN comps \subseteq DOMAIN comps' /\ Len(comps) + 1 \in DOMAIN comps'
    BY <1>1, <1>2
  <2>3. InSome(p)' <=> \E i \in DOMAIN comps' : p \in comps'[i]
    BY DEF InSome
  <2>4. QED
    BY <1>2, <1>3, <2>1, <2>2, <2>3
<1>7. QED
  BY <1>5, <1>6

(* Nothing that the search is about changes.                               *)
LEMMA SearchUntouched ==
    ASSUME SearchInv, UNCHANGED <<flag, adj, comps>>, Len(cs') = Len(cs), h' = h
    PROVE  SearchInv'
  BY DEF SearchInv, Searching, SomeFound, InSome, Undivided

LEMMA SearchIsOver ==
    ASSUME SearchInv, UNCHANGED <<flag, comps>>, h.step \notin {"rebuild", "search"},
           h'.step \notin {"rebuild", "search"}
    PROVE  SearchInv'
  BY DEF SearchInv, SomeFound, InSome

LEMMA SearchInit == Init => SearchInv
<1> SUFFICES ASSUME Init PROVE SearchInv
  OBVIOUS
<1>1. h.step = "rebuild"
  BY StartType DEF Init
<1>2. comps = <<>> /\ Len(cs) = 0 /\ adj = {}
  BY DEF Init
<1>3. QED
  BY <1>1, <1>2 DEF SearchInv

LEMMA RebuildSearches ==
    ASSUME HasLines, Types, SearchInv, Rebuild
    PROVE  SearchInv' /\ h' = At("search", 0, {})
<1>1. comps = <<>> /\ Len(cs) = 0 /\ adj = {}
  BY DEF SearchInv, Rebuild
<1>2. adj' = Edges(flag) /\ adj' # {}
  BY <1>1, SomeEdge DEF Rebuild, CreateAdjList
<1>3. h' = At("search", 0, {})
  BY <1>2 DEF Rebuild
<1>4. h'.step = "search" /\ h'.of = {} /\ h'.green = {}
  BY <1>3, IdleType DEF HandlerSteps
<1>5. comps' = <<>> /\ Len(cs') = 0 /\ flag' = flag
  BY <1>1 DEF Rebuild
<1>6. SomeFound' /\ \A p : ~ InSome(p)'
  BY <1>5 DEF SomeFound, InSome
<1>7. Undivided'
  BY <1>4 DEF Undivided
<1>8. Searching'
  BY <1>2, <1>4, <1>5, <1>6, <1>7 DEF Searching
<1>9. QED
  BY <1>3, <1>4, <1>8 DEF SearchInv

LEMMA DfsVisitSearches ==
    ASSUME Types, SearchInv, DfsVisit
    PROVE  SearchInv' /\ h'.step = "search"
<1>1. h.step = "search" /\ Searching /\ h \in Work
  BY DEF DfsVisit, SearchInv, Types
<1>2. PICK p \in ToVisit : h' = [h EXCEPT !.of = @ \cup {p}]
  BY DEF DfsVisit
<1>3. h'.of = h.of \cup {p} /\ h'.green = h.green /\ h'.step = "search"
  BY <1>1, <1>2 DEF Work
<1>4. p \notin h.green
  BY <1>2 DEF ToVisit, White
<1>5. UNCHANGED <<flag, adj, comps, cs>>
  BY DEF DfsVisit
<1>6. Undivided'
  BY <1>1, <1>2, <1>3, <1>5, StaysUndivided DEF Undivided
<1>7. SomeFound' /\ \A q : InSome(q)' <=> InSome(q)
  BY <1>1, <1>5 DEF Searching, SomeFound, InSome
<1>8. h'.of \cap h'.green = {}
  BY <1>1, <1>3, <1>4 DEF Searching
<1>9. Searching'
  BY <1>1, <1>3, <1>5, <1>6, <1>7, <1>8 DEF Searching
<1>10. QED
  BY <1>3, <1>9 DEF SearchInv

LEMMA FindSearches ==
    ASSUME Types, SearchInv, FindConnectedComponents
    PROVE  /\ SearchInv'
           /\ h'.step = "search" \/ (h' = At("simulate", 1, {}) /\ h'.step = "simulate" /\ h'.i = 1)
<1>1. /\ h.step = "search" /\ Searching /\ h \in Work /\ ToVisit = {}
      /\ UNCHANGED <<flag, adj, cs>>
  BY DEF FindConnectedComponents, SearchInv, Types
<1>2. CASE h.of = {}
  <2>1. White = {} /\ comps' = comps /\ h' = At("simulate", 1, {})
    BY <1>1, <1>2, ReachedIsClosed DEF FindConnectedComponents
  <2>2. h'.step = "simulate" /\ h'.i = 1
    BY <2>1, StartType
  <2>3. \A p \in PowerInterfaces : p \in h.green
    BY <1>2, <2>1 DEF White
  <2>4. SomeFound' /\ \A p \in PowerInterfaces : InSome(p)'
    BY <1>1, <2>1, <2>3 DEF Searching, SomeFound, InSome
  <2>5. QED
    BY <2>1, <2>2, <2>4 DEF SearchInv
<1>3. CASE h.of # {}
  <2>1. h.of \in Components[flag] /\ comps' = Append(comps, h.of)
    BY <1>1, <1>3, ReachedIsClosed DEF FindConnectedComponents
  <2>2. SomeFound' /\ \A p \in PowerInterfaces : InSome(p)' <=> p \in h.green \cup h.of
    BY <1>1, <1>3, <2>1, OneMoreFound
  <2>3. CASE White = {}
    <3>1. h' = At("simulate", 1, {})
      BY <2>3 DEF FindConnectedComponents
    <3>2. h'.step = "simulate" /\ h'.i = 1
      BY <3>1, StartType
    <3>3. \A p \in PowerInterfaces : p \in h.green \cup h.of
      BY <2>3 DEF White
    <3>4. QED
      BY <2>2, <3>1, <3>2, <3>3 DEF SearchInv
  <2>4. CASE White # {}
    <3>1. h' = [h EXCEPT !.of = {}, !.green = @ \cup h.of]
      BY <2>4 DEF FindConnectedComponents
    <3>2. h'.step = "search" /\ h'.of = {} /\ h'.green = h.green \cup h.of
      BY <1>1, <3>1 DEF Work
    <3>3. Undivided'
      BY <3>2 DEF Undivided
    <3>4. Searching'
      BY <1>1, <2>2, <3>2, <3>3 DEF Searching
    <3>5. QED
      BY <3>2, <3>4 DEF SearchInv
  <2>5. QED
    BY <2>3, <2>4
<1>4. QED
  BY <1>2, <1>3
-----------------------------------------------------------------------------
(* Cs in step: as long as objects are being appended it has one for every  *)
(* component before the present one, or for all.                           *)
Aligned ==
    /\ \A j \in DOMAIN comps : j \in DOMAIN cs => cs[j].of = comps[j]
    /\ Len(cs) >= Len(comps) \/ (h.step \in {"simulate", "append"} /\ Len(cs) = h.i - 1)

AtComponent ==
    h.step \in {"append", "total", "ask", "assign"} => h.i \in DOMAIN comps /\ h.of = comps[h.i]

StepInv ==
    /\ h.step \notin {"rebuild", "search"} => Aligned
    /\ AtComponent
    /\ m.lost \/ status = "badAccess" => raced
GridInv == Types /\ EnergyInv /\ SearchInv /\ StepInv

\* Cs and its objects' components as they are
SameObjects ==
    /\ Len(cs') = Len(cs) /\ DOMAIN cs' = DOMAIN cs
    /\ \A j \in DOMAIN cs : cs'[j].of = cs[j].of

LEMMA StaysAligned ==
    ASSUME Aligned, comps' = comps, SameObjects,
           Len(cs) >= Len(comps) \/ (h'.step = h.step /\ h'.i = h.i)
    PROVE  Aligned'
  BY DEF Aligned, SameObjects

LEMMA SetsShare ==
    ASSUME Types, NEW i, NEW share \in Part, cs' = [cs EXCEPT ![i].share = share]
    PROVE  SameObjects
  BY ShareSet DEF Types, SameObjects, SameTotals

LEMMA SetsDynamic ==
    ASSUME Types, NEW i, cs' = [cs EXCEPT ![i].dynamic = TRUE]
    PROVE  SameObjects
  BY DynamicSet DEF Types, SameObjects

LEMMA SetsStale ==
    ASSUME Types, NEW i, cs' = [cs EXCEPT ![i].stale = TRUE]
    PROVE  SameObjects
  BY StaleSet DEF Types, SameObjects

(* No handler at work: every interface's component has its object.         *)
LEMMA IdleFinds ==
    ASSUME Types, SearchInv, StepInv, h.step = "idle", NEW p \in PowerInterfaces
    PROVE  /\ FindComponent(p) \in DOMAIN cs /\ FindComponent(p) \in DOMAIN comps
           /\ Len(cs) >= Len(comps) /\ Aligned
<1>1. Aligned /\ Len(cs) >= Len(comps) /\ InSome(p)
  BY DEF SearchInv, StepInv, Aligned
<1>2. /\ Len(cs) \in Nat /\ DOMAIN cs = 1 .. Len(cs)
      /\ Len(comps) \in Nat /\ DOMAIN comps = 1 .. Len(comps)
  BY LenProperties DEF Types
<1>3. FindComponent(p) \in DOMAIN comps
  BY <1>1, FindIs DEF InSome
<1>4. QED
  BY <1>1, <1>2, <1>3

(* With a power line there is an object for a push.                        *)
LEMMA IdleObjects ==
    ASSUME HasLines, Types, SearchInv, StepInv, h.step = "idle"
    PROVE  cs # <<>> /\ Aligned /\ Len(cs) >= Len(comps)
<1>1. PICK p \in PowerInterfaces : TRUE
  BY GridAssumption DEF HasLines
<1>2. FindComponent(p) \in DOMAIN cs /\ Len(cs) >= Len(comps) /\ Aligned
  BY <1>1, IdleFinds
<1>3. QED
  BY <1>2

LEMMA ApplianceInterface == \A a \in Appliance : <<a, 0>> \in PowerInterfaces
  BY DEF PowerInterfaces

(* A handler begins with a component, at one of its steps.                 *)
LEMMA BeginsAt ==
    ASSUME Types, SearchInv, StepInv, h.step = "idle", NEW p \in PowerInterfaces,
           NEW s \in {"ask", "total"}, h' = At(s, FindComponent(p), cs[FindComponent(p)].of),
           comps' = comps, SameObjects
    PROVE  Aligned' /\ AtComponent' /\ h'.step = s
<1>1. PICK i : i = FindComponent(p)
  OBVIOUS
<1>2. i \in DOMAIN comps /\ i \in DOMAIN cs /\ Len(cs) >= Len(comps) /\ Aligned
  BY <1>1, IdleFinds
<1>6. cs[i].of = comps[i]
  BY <1>2 DEF Aligned
<1>3. s \in HandlerSteps /\ i \in Int /\ comps[i] \in SUBSET PowerInterfaces
  BY <1>1, <1>2, Found DEF HandlerSteps
<1>4. h'.step = s /\ h'.i = i /\ h'.of = comps[i]
  BY <1>1, <1>3, <1>6, IdleType
<1>5. QED
  BY <1>2, <1>4, StaysAligned DEF AtComponent
(* What was lost or misused, was so in a race.                             *)
Excused == m.lost \/ status = "badAccess" => raced

LEMMA ExcusedStep ==
    ASSUME HasLines, GridInv, [Next]_vars
    PROVE  Excused'
<1>0. Excused /\ m \in Monitor /\ h \in Work /\ Types /\ SearchInv /\ StepInv /\ raced \in BOOLEAN
  BY DEF GridInv, StepInv, Excused, Types
<1>a. /\ Overlaps \/ MonitorOverlaps \/ UNCHANGED raced => (raced => raced')
      /\ \A ok : Receives(ok) => (raced => raced')
  BY DEF Overlaps, MonitorOverlaps, Receives
<1>1. ASSUME m' = m \/ ~ m'.lost, status' = status, raced => raced'
      PROVE  Excused'
  BY <1>0, <1>1 DEF Excused
<1>b. ~ Asleep.lost
  BY DEF Asleep
<1>2. CASE AncillaryThreadsStart
  BY <1>1, <1>2, <1>b DEF AncillaryThreadsStart
<1>3. ASSUME NEW b \in Storage, MonitorRead(b)
      PROVE  Excused'
  <2>1. ~ m'.lost
    BY <1>3 DEF MonitorRead, Asleep
  <2>2. QED
    BY <1>1, <1>3, <1>a, <2>1 DEF MonitorRead
<1>4. CASE MonitorWrite
  <2>1. CASE h.step = "idle"
    <3>1. m.b \in Appliance
      BY <1>4 DEF GridInv, EnergyInv, EnergyRead, MonitorWrite, Storage
    <3>2. FindComponent(<<m.b, 0>>) \in DOMAIN cs
      BY <1>0, <2>1, <3>1, ApplianceInterface, IdleFinds
    <3>3. status' = status
      BY <1>4, <3>2 DEF MonitorWrite
    <3>4. m'.lost => m.lost
      <4>1. m' = Asleep \/ m'.lost = m.lost \/ m' = m
        BY <1>0, <1>4, WriteIs
      <4>2. CASE m' = Asleep
        BY <1>b, <4>2
      <4>3. QED
        BY <4>1, <4>2
    <3>5. raced => raced'
      BY <1>4, <1>a DEF MonitorWrite
    <3>6. QED
      BY <1>0, <3>3, <3>4, <3>5 DEF Excused
  <2>2. CASE h.step # "idle"
    BY <1>4, <2>2 DEF MonitorWrite, MonitorOverlaps, Excused
  <2>3. QED
    BY <2>1, <2>2
<1>5. CASE MonitorTotals
  <2>1. CASE m.lost
    BY <1>0, <1>5, <1>a, <2>1 DEF MonitorTotals, Excused
  <2>2. CASE ~ m.lost
    <3>1. PICK t : m' = [m EXCEPT !.step = "assign", !.totals = t]
      BY <1>5, <2>2 DEF MonitorTotals
    <3>2. m'.lost = m.lost
      BY <1>0, <3>1 DEF Monitor
    <3>3. QED
      BY <1>1, <1>5, <1>a, <2>2, <3>2 DEF MonitorTotals
  <2>3. QED
    BY <2>1, <2>2
<1>6. CASE MonitorCurrents
  <2>1. CASE m.lost
    BY <1>0, <1>6, <1>a, <2>1 DEF MonitorCurrents, Excused
  <2>2. CASE ~ m.lost
    BY <1>1, <1>6, <1>a, <1>b, <2>2 DEF MonitorCurrents
  <2>3. QED
    BY <2>1, <2>2
<1>7. ASSUME NEW a \in Appliance, h.step = "idle", UpdateOf(a), m' = m, raced => raced'
      PROVE  Excused'
  <2>1. FindComponent(<<a, 0>>) \in DOMAIN cs
    BY <1>0, <1>7, ApplianceInterface, IdleFinds
  <2>2. status' = status
    BY <2>1, <1>7 DEF UpdateOf
  <2>3. QED
    BY <1>1, <1>7, <2>2
<1>8. ASSUME NEW a \in Appliance, NEW v \in Values[a], UpdateAppliance(a, v)
      PROVE  Excused'
  BY <1>7, <1>8, <1>a DEF UpdateAppliance, HandlerFree
<1>9. ASSUME NEW a \in Storage, NEW md \in Modes, UpdateStorage(a, md)
      PROVE  Excused'
  BY <1>7, <1>9, <1>a DEF UpdateStorage, HandlerFree, Storage
<1>10. ASSUME NEW s \in Switch, NEW f \in Flags, UpdateSwitch(s, f)
       PROVE  Excused'
  <2>1. CASE m' = m
    BY <1>1, <1>10, <1>a, <2>1 DEF UpdateSwitch
  <2>2. CASE m' = [m EXCEPT !.lost = m.step \in {"total", "assign"}]
    <3>1. m'.lost = (m.step \in {"total", "assign"})
      BY <1>0, <2>2 DEF Monitor
    <3>2. m'.lost => raced'
      BY <1>10, <3>1 DEF UpdateSwitch, Overlaps, Receives
    <3>3. QED
      BY <1>0, <1>10, <1>a, <3>2 DEF UpdateSwitch, Excused
  <2>3. QED
    BY <1>10, <2>1, <2>2 DEF UpdateSwitch
<1>11. ASSUME NEW p \in LocalPis, DynamicConnectedSimulation(p)
       PROVE  Excused'
  <2>1. CASE p \in PowerInterfaces
    <3>1. FindComponent(p) \in DOMAIN cs
      BY <1>0, <1>11, <2>1, IdleFinds DEF DynamicConnectedSimulation, HandlerFree
    <3>2. QED
      BY <1>1, <1>11, <1>a, <3>1 DEF DynamicConnectedSimulation
  <2>2. CASE p \notin PowerInterfaces
    <3>1. m' = m /\ (status' = status \/ status' = "noInterface")
      BY <1>11, <2>2 DEF DynamicConnectedSimulation
    <3>2. QED
      BY <1>0, <1>11, <1>a, <3>1 DEF DynamicConnectedSimulation, Excused
  <2>3. QED
    BY <2>1, <2>2
<1>12. CASE \/ Rebuild \/ DfsVisit \/ FindConnectedComponents \/ Simulate \/ SimulateAppend
            \/ UpdateTotals \/ UpdateCurrents
            \/ \E enough \in BOOLEAN, part \in Parts : AskCoordinator(enough, part)
  BY <1>1, <1>12, <1>a DEF Rebuild, DfsVisit, FindConnectedComponents, Simulate, SimulateAppend,
     UpdateTotals, UpdateCurrents, AskCoordinator
<1>13. CASE UNCHANGED vars
  BY <1>1, <1>13 DEF vars
<1>15. ASSUME NEW enough \in BOOLEAN, NEW part \in Parts, DynamicCoordinatedLoadUpdate(enough, part)
       PROVE  Excused'
  <2>1. cs # <<>>
    BY <1>0, <1>15, IdleObjects DEF DynamicCoordinatedLoadUpdate, HandlerFree
  <2>2. m' = m /\ (status' = status \/ status' = "notJoined")
    BY <1>15, <2>1 DEF DynamicCoordinatedLoadUpdate
  <2>3. QED
    BY <1>0, <1>15, <1>a, <2>2 DEF DynamicCoordinatedLoadUpdate, Excused
<1>14. QED
  BY <1>2, <1>3, <1>4, <1>5, <1>6, <1>8, <1>9, <1>10, <1>11, <1>12, <1>13, <1>15
     DEF Next, MonitorNext

LEMMA GridStep ==
    ASSUME HasLines, GridInv, [Next]_vars
    PROVE  SearchInv' /\ StepInv'
<1>0. /\ Types /\ SearchInv /\ StepInv /\ AtComponent
      /\ h.step \notin {"rebuild", "search"} => Aligned
      /\ h \in Work /\ m \in Monitor
  BY DEF GridInv, StepInv, Types
<1>a. Excused'
  BY ExcusedStep
<1>b. /\ Len(cs) \in Nat /\ DOMAIN cs = 1 .. Len(cs)
      /\ Len(comps) \in Nat /\ DOMAIN comps = 1 .. Len(comps)
  BY LenProperties DEF GridInv, Types
\* the monitor, or nobody
<1>1. ASSUME UNCHANGED <<flag, adj, comps, h>>, SameObjects
      PROVE  SearchInv' /\ StepInv'
  <2>1. SearchInv'
    BY <1>0, <1>1, SearchUntouched DEF SameObjects
  <2>2. h.step \notin {"rebuild", "search"} => Aligned'
    BY <1>0, <1>1, StaysAligned
  <2>3. AtComponent'
    BY <1>0, <1>1 DEF AtComponent
  <2>4. QED
    BY <1>a, <1>1, <2>1, <2>2, <2>3 DEF StepInv, Excused
\* a handler that leaves the components
<1>2. ASSUME UNCHANGED <<flag, comps>>, h.step \notin {"rebuild", "search"},
             h'.step \notin {"rebuild", "search"}, Aligned', AtComponent'
      PROVE  SearchInv' /\ StepInv'
  BY <1>0, <1>2, <1>a, SearchIsOver DEF StepInv, Excused
<1>c. cs' = cs => SameObjects
  BY DEF SameObjects
<1>3. CASE \/ AncillaryThreadsStart \/ MonitorTotals
           \/ (\E b \in Storage : MonitorRead(b)) \/ UNCHANGED vars
  BY <1>1, <1>3, <1>c DEF AncillaryThreadsStart, MonitorTotals, MonitorRead, vars
<1>d. CASE MonitorWrite
  <2>1. SameObjects
    BY <1>0, <1>c, <1>d, WriteIs, SetsStale
  <2>2. QED
    BY <1>1, <1>d, <2>1 DEF MonitorWrite
<1>4. CASE MonitorCurrents
  <2>1. SameObjects
    <3>1. cs' = cs \/ cs' = [cs EXCEPT ![m.i].share = NoShare]
      BY <1>4 DEF MonitorCurrents
    <3>2. QED
      BY <1>0, <1>c, <3>1, SetsShare, IdleType
  <2>2. QED
    BY <1>1, <1>4, <2>1 DEF MonitorCurrents
<1>5. ASSUME NEW a \in Appliance, h.step = "idle", UpdateOf(a), UNCHANGED <<flag, adj, comps, cs>>
      PROVE  SearchInv' /\ StepInv'
  <2>1. <<a, 0>> \in PowerInterfaces
    BY ApplianceInterface
  <2>2. FindComponent(<<a, 0>>) \in DOMAIN cs
    BY <1>0, <1>5, <2>1, IdleFinds
  <2>3. PICK s \in {"ask", "total"} :
           h' = At(s, FindComponent(<<a, 0>>), cs[FindComponent(<<a, 0>>)].of)
    BY <1>0, <1>5, <2>2, UpdateOfType
  <2>4. Aligned' /\ AtComponent' /\ h'.step = s
    BY <1>0, <1>5, <1>c, <2>1, <2>3, BeginsAt
  <2>5. QED
    BY <1>2, <1>5, <2>4
<1>6. ASSUME NEW a \in Appliance, NEW v \in Values[a], UpdateAppliance(a, v)
      PROVE  SearchInv' /\ StepInv'
  BY <1>5, <1>6 DEF UpdateAppliance, HandlerFree
<1>7. ASSUME NEW a \in Storage, NEW md \in Modes, UpdateStorage(a, md)
      PROVE  SearchInv' /\ StepInv'
  BY <1>5, <1>7 DEF UpdateStorage, HandlerFree, Storage
<1>8. ASSUME NEW s \in Switch, NEW f \in Flags, UpdateSwitch(s, f)
      PROVE  SearchInv' /\ StepInv'
  <2>1. h.step = "idle"
    BY <1>8 DEF UpdateSwitch, HandlerFree
  <2>2. CASE Clear(s, f) /\ h' = At("rebuild", 0, {})
    <3>1. comps' = <<>> /\ Len(cs') = 0 /\ adj' = {} /\ h'.step = "rebuild"
      BY <2>2, StartType DEF Clear
    <3>2. QED
      BY <1>a, <3>1 DEF SearchInv, StepInv, AtComponent, Excused
  <2>3. CASE UNCHANGED <<flag, adj, comps, cs>> /\ h' = At("simulate", 1, {})
    <3>1. h'.step = "simulate"
      BY <2>3, StartType
    <3>2. Aligned /\ Len(cs) >= Len(comps)
      BY <1>0, <2>1 DEF Aligned
    <3>3. Aligned'
      BY <1>c, <2>3, <3>2, StaysAligned
    <3>4. QED
      BY <1>2, <2>1, <2>3, <3>1, <3>3 DEF AtComponent
  <2>4. QED
    BY <1>8, <2>2, <2>3 DEF UpdateSwitch
<1>9. ASSUME NEW p \in LocalPis, DynamicConnectedSimulation(p)
      PROVE  SearchInv' /\ StepInv'
  <2>1. h.step = "idle" /\ UNCHANGED <<flag, adj, comps>>
    BY <1>9 DEF DynamicConnectedSimulation, HandlerFree
  <2>7. CASE FindComponent(p) \notin DOMAIN cs
    BY <1>1, <1>9, <1>c, <2>1, <2>7 DEF DynamicConnectedSimulation
  <2>2. SUFFICES ASSUME FindComponent(p) \in DOMAIN cs PROVE SearchInv' /\ StepInv'
    BY <2>7
  <2>8. p \in PowerInterfaces
    BY <1>0, <2>2, Found
  <2>3. /\ cs' = [cs EXCEPT ![FindComponent(p)].dynamic = TRUE]
        /\ h' = At("ask", FindComponent(p), cs[FindComponent(p)].of)
    BY <1>9, <2>2 DEF DynamicConnectedSimulation
  <2>4. SameObjects
    BY <1>0, <2>3, SetsDynamic
  <2>5. Aligned' /\ AtComponent' /\ h'.step = "ask"
    BY <1>0, <2>1, <2>3, <2>4, <2>8, BeginsAt
  <2>6. QED
    BY <1>2, <2>1, <2>5
<1>10. CASE Rebuild
  <2>1. SearchInv' /\ h' = At("search", 0, {})
    BY <1>0, <1>10, RebuildSearches
  <2>2. h'.step = "search"
    BY <2>1, StartType
  <2>3. QED
    BY <1>a, <2>1, <2>2 DEF StepInv, AtComponent, Excused
<1>11. CASE DfsVisit
  <2>1. SearchInv' /\ h'.step = "search"
    BY <1>0, <1>11, DfsVisitSearches
  <2>2. QED
    BY <1>a, <2>1 DEF StepInv, AtComponent, Excused
<1>12. CASE FindConnectedComponents
  <2>1. SearchInv' /\ (h'.step = "search" \/ (h'.step = "simulate" /\ h'.i = 1))
    BY <1>0, <1>12, FindSearches
  <2>2. AtComponent'
    BY <2>1 DEF AtComponent
  <2>3. CASE h'.step = "search"
    BY <1>a, <2>1, <2>2, <2>3 DEF StepInv, Excused
  <2>4. CASE h'.step = "simulate" /\ h'.i = 1
    <3>1. Len(cs) = 0 /\ cs' = cs
      BY <1>0, <1>12 DEF FindConnectedComponents, SearchInv, Searching
    <3>2. Len(cs') = h'.i - 1 /\ \A j : j \notin DOMAIN cs'
      BY <1>b, <2>4, <3>1
    <3>3. Aligned'
      BY <2>4, <3>2 DEF Aligned
    <3>4. QED
      BY <1>a, <2>1, <2>2, <3>3 DEF StepInv, Excused
  <2>5. QED
    BY <2>1, <2>3, <2>4
<1>13. CASE Simulate
  <2>1. h.step = "simulate" /\ h.i \in Int /\ h.i > 0 /\ Aligned /\ UNCHANGED <<flag, comps, cs>>
    BY <1>0, <1>13 DEF Simulate, Types, Work
  <2>2. CASE h.i > Len(comps)
    <3>1. h' = Idle /\ h'.step = "idle"
      BY <1>13, <2>2, IdleType DEF Simulate
    <3>2. Len(cs) >= Len(comps)
      BY <1>b, <2>1, <2>2 DEF Aligned
    <3>3. Aligned'
      BY <1>c, <2>1, <3>2, StaysAligned
    <3>4. QED
      BY <1>2, <2>1, <3>1, <3>3 DEF AtComponent
  <2>3. CASE ~ h.i > Len(comps)
    <3>1. h.i \in DOMAIN comps /\ comps[h.i] \in SUBSET PowerInterfaces /\ "append" \in HandlerSteps
      BY <1>0, <1>b, <2>1, <2>3, ElementOfSeq DEF Types, HandlerSteps
    <3>2. h' = Balancing(comps[h.i], LocalTotals(comps[h.i]), h.i, "append", NoShare)
      BY <1>13, <2>3 DEF Simulate
    <3>3. h'.step = "append" /\ h'.i = h.i /\ h'.of = comps[h.i]
      BY <1>0, <2>1, <3>1, <3>2, LocalBalancingType
    <3>4. Aligned'
      BY <2>1, <3>3 DEF Aligned
    <3>5. QED
      BY <1>2, <2>1, <3>1, <3>3, <3>4 DEF AtComponent
  <2>4. QED
    BY <2>2, <2>3
<1>14. CASE SimulateAppend
  <2>1. /\ h.step = "append" /\ h.i \in DOMAIN comps /\ h.of = comps[h.i] /\ Aligned
        /\ UNCHANGED <<flag, comps>> /\ h.of \in SUBSET PowerInterfaces /\ h.i \in Int
    BY <1>0, <1>14 DEF SimulateAppend, AtComponent, Work
  <2>2. h' = At("simulate", h.i + 1, {})
    BY <1>14 DEF SimulateAppend
  <2>3. h'.step = "simulate" /\ h'.i = h.i + 1
    BY <2>1, <2>2, StartType
  <2>4. PushBack(h.of)
    BY <1>14 DEF SimulateAppend
  <2>5. /\ cs' \in Seq(Object) /\ Len(cs') = Len(cs) + 1
        /\ \A j \in 1 .. Len(cs) : cs'[j].of = cs[j].of
        /\ cs'[Len(cs) + 1] = ConnectedComponent(h.of)
    BY <1>0, <2>1, <2>4, Pushed DEF SameTotals
  <2>6. DOMAIN cs' = 1 .. Len(cs) + 1 /\ cs'[Len(cs) + 1].of = h.of
    BY <2>5, LenProperties DEF ConnectedComponent
  <2>7. Len(cs') >= Len(comps) \/ Len(cs') = h'.i - 1
    BY <1>b, <2>1, <2>3, <2>5 DEF Aligned
  <2>8. ASSUME NEW j \in DOMAIN comps, j \in DOMAIN cs'
        PROVE  cs'[j].of = comps[j]
    <3>1. CASE j \in DOMAIN cs
      BY <1>b, <2>1, <2>5, <3>1 DEF Aligned
    <3>2. CASE j \notin DOMAIN cs
      <4>1. j = Len(cs) + 1
        BY <1>b, <2>6, <2>8, <3>2
      <4>2. j = h.i
        BY <1>b, <2>1, <2>8, <4>1 DEF Aligned
      <4>3. QED
        BY <2>1, <2>6, <4>1, <4>2
    <3>3. QED
      BY <3>1, <3>2
  <2>9. Aligned'
    BY <2>1, <2>3, <2>7, <2>8 DEF Aligned
  <2>10. QED
    BY <1>2, <2>1, <2>3, <2>9 DEF AtComponent
<1>15. ASSUME h.step \in {"total", "ask"}, UNCHANGED <<flag, comps>>, SameObjects,
              h'.step = "assign", h'.i = h.i, h'.of = h.of
       PROVE  SearchInv' /\ StepInv'
  <2>1. Aligned /\ Len(cs) >= Len(comps)
    BY <1>0, <1>15 DEF Aligned
  <2>2. Aligned'
    BY <1>15, <2>1, StaysAligned
  <2>3. AtComponent'
    BY <1>0, <1>15 DEF AtComponent
  <2>4. QED
    BY <1>2, <1>15, <2>2, <2>3
<1>16. CASE UpdateTotals
  <2>1. h.of \in SUBSET PowerInterfaces /\ h.i \in Int /\ "assign" \in HandlerSteps
    BY <1>0 DEF Work, HandlerSteps
  <2>2. h' = Balancing(h.of, LocalTotals(h.of), h.i, "assign", NoShare)
    BY <1>16 DEF UpdateTotals
  <2>3. h'.step = "assign" /\ h'.i = h.i /\ h'.of = h.of
    BY <1>0, <2>1, <2>2, LocalBalancingType
  <2>4. QED
    BY <1>15, <1>16, <1>c, <2>3 DEF UpdateTotals
<1>17. ASSUME NEW enough \in BOOLEAN, NEW part \in Parts, AskCoordinator(enough, part)
       PROVE  SearchInv' /\ StepInv'
  <2>1. h'.step = "assign" /\ h'.i = h.i /\ h'.of = h.of
    BY <1>0, <1>17, AskType
  <2>2. SameObjects
    BY <1>0, <1>17, AskSets DEF SameObjects
  <2>3. QED
    BY <1>15, <1>17, <2>1, <2>2 DEF AskCoordinator
<1>18. CASE UpdateCurrents
  <2>1. h.step = "assign" /\ Aligned /\ h.share \in Part /\ UNCHANGED <<flag, comps>>
    BY <1>0, <1>18 DEF UpdateCurrents, Work
  <2>2. Len(cs) >= Len(comps) /\ SameObjects
    BY <1>0, <1>18, <2>1, SetsShare DEF UpdateCurrents, Aligned
  <2>3. h' = Idle /\ h'.step = "idle"
    BY <1>18, IdleType DEF UpdateCurrents
  <2>4. Aligned'
    BY <2>1, <2>2, StaysAligned
  <2>5. QED
    BY <1>2, <2>1, <2>3, <2>4 DEF AtComponent
<1>e. ASSUME NEW enough \in BOOLEAN, NEW part \in Parts, DynamicCoordinatedLoadUpdate(enough, part)
      PROVE  SearchInv' /\ StepInv'
  <2>1. cs # <<>>
    BY <1>0, <1>e, IdleObjects DEF DynamicCoordinatedLoadUpdate, HandlerFree
  <2>2. PICK share \in Part : share = Share(enough, part)
    BY <1>0, <1>e, <2>1, PushType
  <2>3. cs' = [cs EXCEPT ![1].share = share]
    BY <1>e, <2>1, <2>2 DEF DynamicCoordinatedLoadUpdate
  <2>4. QED
    BY <1>0, <1>1, <1>e, <2>3, SetsShare DEF DynamicCoordinatedLoadUpdate
<1>19. QED
  BY <1>3, <1>d, <1>4, <1>6, <1>7, <1>8, <1>9, <1>10, <1>11, <1>12, <1>13, <1>14, <1>16, <1>17,
     <1>18, <1>e
     DEF Next, MonitorNext

LEMMA GridInvariant == ASSUME HasLines PROVE Spec => []GridInv
<1>1. Init => GridInv
  <2>1. ASSUME Init PROVE StepInv
    <3>1. h.step = "rebuild"
      BY <2>1, StartType DEF Init
    <3>2. ~ m.lost /\ status = "running"
      BY <2>1 DEF Init, Asleep
    <3>3. QED
      BY <3>1, <3>2 DEF StepInv, AtComponent
  <2>2. QED
    BY <2>1, TypesInit, SearchInit, EnergyInit DEF GridInv
<1>2. GridInv /\ [Next]_vars => GridInv'
  <2>1. ASSUME GridInv, [Next]_vars PROVE GridInv'
    BY <2>1, GridStep, TypesStep, EnergyStep DEF GridInv
  <2>2. QED
    BY <2>1
<1>3. QED
  BY <1>1, <1>2, PTL DEF Spec

(* Between updates connected_components are the components of the          *)
(* topology, each of them once, through every sequence of switch updates.  *)
THEOREM SearchIsRight == ASSUME HasLines PROVE Spec => []ComponentsArePartition
<1>1. GridInv => ComponentsArePartition
  <2>1. ASSUME GridInv, AtRest PROVE ToSet(comps) = Components[flag] /\ IsInjective(comps)
    <3>1. SomeFound /\ \A p \in PowerInterfaces : InSome(p)
      BY <2>1 DEF GridInv, SearchInv, AtRest, HandlerFree
    <3>2. QED
      BY <2>1, <3>1, WholeIsPartition DEF GridInv
  <2>2. QED
    BY <2>1 DEF ComponentsArePartition
<1>2. QED
  BY <1>1, GridInvariant, PTL

(* Cs never gets out of step, and no component is used that is not there   *)
(* unless the monitor is at work during the update of a switch.            *)
THEOREM ObjectsStayInStep == ASSUME HasLines PROVE Spec => []CsInStep
<1>1. GridInv => CsInStep
  <2> SUFFICES ASSUME GridInv PROVE CsInStep
    OBVIOUS
  <2>1. /\ Len(cs) \in Nat /\ DOMAIN cs = 1 .. Len(cs)
        /\ Len(comps) \in Nat /\ DOMAIN comps = 1 .. Len(comps)
    BY LenProperties DEF GridInv, Types
  <2>2. ASSUME AtRest
        PROVE  Len(cs) >= Len(comps) /\ \A i \in DOMAIN comps : cs[i].of = comps[i]
    <3>1. Aligned /\ Len(cs) >= Len(comps)
      BY <2>2 DEF GridInv, StepInv, Aligned, AtRest, HandlerFree
    <3>2. QED
      BY <2>1, <3>1 DEF Aligned
  <2>3. status = "badAccess" => raced
    BY DEF GridInv, StepInv
  <2>4. QED
    BY <2>2, <2>3 DEF CsInStep
<1>2. QED
  BY <1>1, GridInvariant, PTL
-----------------------------------------------------------------------------
(* Balance.  As long as the monitor and the handlers were never at work    *)
(* together, every component is balanced but the one that is at work.      *)
AtWork(j) ==
    \/ h.step \in {"total", "ask", "assign"} /\ j = h.i
    \/ m.step \in {"total", "assign"} /\ j = m.i

IsBalanced(j) ==
    ~ (cs[j].stale /\ cs[j].share.told) => BalancedAt(comps[j], cs[j].share)

AllBalanced == \A j \in DOMAIN comps : j \in DOMAIN cs /\ ~ AtWork(j) => IsBalanced(j)

\* the totals that an object keeps, of when it last asked, are what they would be now
Asked(j) == h.step = "ask" /\ j = h.i

KeptTotals(j) ==
    cs[j].dynamic /\ ~ cs[j].stale =>
        /\ cs[j].supplies = DesiredSupplies(comps[j])
        /\ cs[j].demands = DesiredDemands(comps[j])

AllKept == \A j \in DOMAIN comps : j \in DOMAIN cs /\ ~ Asked(j) => KeptTotals(j)

\* the totals t are those of component c, with the part that share gives it
TotalsFor(t, c, share) ==
    /\ t.supplies = DesiredSupplies(c) /\ t.demands = DesiredDemands(c)
    /\ IF ~ share.told
       THEN t.enough = LocalTotals(c).enough /\ t.part = LocalTotals(c).part
       ELSE t.enough = share.enough /\ t.part = share.part

TotalsHold ==
    /\ h.step = "append" => TotalsFor(h, h.of, NoShare)
    /\ h.step = "assign" => TotalsFor(h, h.of, h.share)
    /\ m.step = "assign" => TotalsFor(m.totals, m.of, NoShare)

Quiet == m.step \in {"unborn", "asleep"}

BalanceParts ==
    /\ h.step = "idle" \/ Quiet
    /\ m.step \in {"total", "assign"} => m.i \in DOMAIN comps /\ m.of = comps[m.i]
    /\ AllBalanced /\ AllKept /\ TotalsHold

BalanceInv == ~ raced /\ status = "running" => BalanceParts

LEMMA ScaledExactly ==
    ASSUME NEW part \in Int, NEW w \in Int, w # 0,
           w > 0 => Scale % w = 0, w < 0 => Scale % (- w) = 0
    PROVE  \E n \in Int : /\ n * w = Scale * part
                          /\ \A x \in Int : Scaled(x, part, w) = x * n
<1>0. Scale \in Nat /\ NaN \notin Int
  BY ScaleAssumption, NumberAssumption
<1>1. PICK q \in Int : q = Quotient(w) /\ q * w = Scale
  <2>1. CASE w > 0
    <3>4. w \in Nat
      BY <2>1
    <3>1. Scale \div w \in Int /\ Scale = (Scale \div w) * w + (Scale % w)
      BY <1>0, <2>1
    <3>2. Scale = (Scale \div w) * w
      BY <2>1, <3>1, <1>0
    <3>5. PICK k \in Int : k = Scale \div w /\ Scale = k * w
      BY <3>1, <3>2
    <3>6. Quotient(w) = k
      BY <2>1, <3>5 DEF Quotient
    <3>3. QED
      BY <3>5, <3>6
  <2>2. CASE w < 0
    <3>1. PICK v \in Nat : v = - w /\ v > 0
      BY <2>2
    <3>2. Scale \div v \in Int /\ Scale = (Scale \div v) * v + (Scale % v)
      BY <1>0, <3>1
    <3>3. PICK k \in Int : k = Scale \div v /\ Scale = k * v
      BY <1>0, <2>2, <3>1, <3>2
    <3>4. PICK q \in Int : q = - k
      OBVIOUS
    <3>5. q * w = k * v
      <4>1. w = - v
        BY <3>1
      <4>2. q * w = (- k) * (- v)
        BY <3>4, <4>1
      <4>3. QED
        BY <4>2
    <3>6. Quotient(w) = q
      BY <2>2, <3>1, <3>3, <3>4 DEF Quotient
    <3>7. QED
      BY <3>3, <3>5, <3>6
  <2>3. QED
    BY <2>1, <2>2
<1>2. PICK n \in Int : n = part * q
  OBVIOUS
<1>3. n * w = Scale * part
  <2>1. (part * q) * w = (q * w) * part
    OBVIOUS
  <2>2. QED
    BY <1>1, <1>2, <2>1
<1>4. ASSUME NEW x \in Int
      PROVE  Scaled(x, part, w) = x * n
  BY <1>0, <1>1, <1>2 DEF Scaled
<1>5. QED
  BY <1>3, <1>4

(* The scale is a multiple of every total that can occur.                  *)
LEMMA TotalsDivide ==
    ASSUME Types, NEW c, NEW which \in {"supply", "demand"}, NEW w,
           w = Total(On(AppliancesIn(c), SideOf, which), desired)
    PROVE  (w > 0 => Scale % w = 0) /\ (w < 0 => Scale % (- w) = 0)
<1> DEFINE may == {a \in Appliance : \E md \in Modes : Side(Role[a], md) = which}
           S == On(AppliancesIn(c), SideOf, which)
<1>1. S \subseteq may
  <2>1. ASSUME NEW a \in S PROVE a \in may
    <3>1. a \in Appliance /\ SideOf[a] = which
      BY <2>1 DEF On, AppliancesIn
    <3>2. PICK md : md = IF a \in Storage THEN mode[a] ELSE "standing"
      OBVIOUS
    <3>3. md \in Modes
      BY <3>2 DEF Types, Modes
    <3>4. Side(Role[a], md) = which
      BY <3>1, <3>2 DEF SideOf
    <3>5. QED
      BY <3>1, <3>3, <3>4
  <2>2. QED
    BY <2>1
<1>2. S \in SUBSET may /\ desired \in Desires
  BY <1>1 DEF Types
<1> HIDE DEF S
<1>3. /\ Total(S, desired) > 0 => Scale % Total(S, desired) = 0
      /\ Total(S, desired) < 0 => Scale % (- Total(S, desired)) = 0
  BY <1>2, ScaleAssumption
<1>4. QED
  BY <1>3 DEF S

(* What a side's currents add up to after the second loop.                 *)
LEMMA SideScaled ==
    ASSUME Types, NEW c, NEW which \in {"supply", "demand"}, NEW k, NEW w, NEW part \in Int,
           w = Total(On(AppliancesIn(c), SideOf, which), desired), w # 0,
           \A a \in On(AppliancesIn(c), SideOf, which) : k[a] = Scaled(desired[a], part, w)
    PROVE  /\ \A a \in On(AppliancesIn(c), SideOf, which) : k[a] \in Int
           /\ Total(On(AppliancesIn(c), SideOf, which), k) = Scale * part
<1> DEFINE S == On(AppliancesIn(c), SideOf, which)
<1>1. IsFiniteSet(S) /\ S \subseteq Appliance /\ \A a \in S : desired[a] \in Int
  BY OnIsFinite, DesiresAreInt DEF Types
<1>2. (w > 0 => Scale % w = 0) /\ (w < 0 => Scale % (- w) = 0)
  BY TotalsDivide
<1> HIDE DEF S
<1>3. w = Total(S, desired) /\ w \in Int
  BY <1>1, TotalSame DEF S
<1>5. PICK n \in Int : n * w = Scale * part /\ \A x \in Int : Scaled(x, part, w) = x * n
  BY <1>2, <1>3, ScaledExactly
<1>6. \A a \in S : k[a] = desired[a] * n /\ k[a] \in Int
  BY <1>1, <1>5 DEF S
<1>7. Total(S, k) = Total(S, desired) * n
  BY <1>1, <1>5, <1>6, TotalScaled
<1>8. Total(S, k) = n * w
  BY <1>3, <1>5, <1>7
<1>9. QED
  BY <1>5, <1>6, <1>8 DEF S

LEMMA SideWhole ==
    ASSUME Types, NEW c, NEW which \in {"supply", "demand"}, NEW k,
           \A a \in On(AppliancesIn(c), SideOf, which) : k[a] = desired[a] * Scale
    PROVE  /\ \A a \in On(AppliancesIn(c), SideOf, which) : k[a] \in Int
           /\ Total(On(AppliancesIn(c), SideOf, which), k)
                 = Scale * Total(On(AppliancesIn(c), SideOf, which), desired)
<1> DEFINE S == On(AppliancesIn(c), SideOf, which)
<1>1. IsFiniteSet(S) /\ S \subseteq Appliance /\ \A a \in S : desired[a] \in Int
  BY OnIsFinite, DesiresAreInt DEF Types
<1>2. Scale \in Int
  BY ScaleAssumption
<1>3. \A a \in S : k[a] = desired[a] * Scale /\ k[a] \in Int
  BY <1>1, <1>2
<1> HIDE DEF S
<1>4. PICK n \in Int : n = Total(S, desired) /\ Total(S, k) = n * Scale
  BY <1>1, <1>2, <1>3, TotalScaled
<1>5. Total(S, k) = Scale * n
  BY <1>2, <1>4
<1>6. QED
  BY <1>3, <1>4, <1>5 DEF S

(* The second loop makes what is supplied and what is used what the totals *)
(* say, for the component itself or for its share.                         *)
LEMMA AssignBalances ==
    ASSUME Types, NEW c, NEW t, t.part \in Amounts, t.enough \in BOOLEAN, NEW share \in Part,
           TotalsFor(t, c, share), cur' = Assign(c, t), UNCHANGED <<desired, mode>>
    PROVE  BalancedAt(c, share)'
<1> DEFINE S(which) == On(AppliancesIn(c), SideOf, which)
           k == Assign(c, t)
           Carries(which, amount) == /\ \A a \in S(which) : k[a] \in Int
                                     /\ Total(S(which), k) = Scale * amount
<1>1. \A a \in S("supply") :
         k[a] = IF t.enough THEN Scaled(desired[a], t.part, t.supplies) ELSE desired[a] * Scale
  BY DEF On, AppliancesIn, Assign, Assigned
<1>2. \A a \in S("demand") :
         k[a] = IF t.enough THEN desired[a] * Scale ELSE Scaled(desired[a], t.part, t.demands)
  BY DEF On, AppliancesIn, Assign, Assigned
<1>3. /\ t.supplies = Total(S("supply"), desired) /\ t.demands = Total(S("demand"), desired)
      /\ t.supplies \in Int /\ t.demands \in Int
  BY TotalsType DEF TotalsFor, DesiredSupplies, DesiredDemands
<1> HIDE DEF k
<1>d. /\ DesiredSupplies(c)' = t.supplies /\ DesiredDemands(c)' = t.demands
      /\ \A amount : /\ Carry(c, "supply", amount)' <=> Carries("supply", amount)
                     /\ Carry(c, "demand", amount)' <=> Carries("demand", amount)
  <2>1. SideOf' = SideOf /\ cur' = k /\ desired' = desired
    BY DEF SideOf, k
  <2>2. QED
    BY <1>3, <2>1 DEF DesiredSupplies, DesiredDemands, Carry
<1>4. /\ t.enough => /\ t.supplies # 0 /\ t.part \in Int => Carries("supply", t.part)
                     /\ Carries("demand", t.demands)
      /\ ~ t.enough => /\ t.demands # 0 /\ t.part \in Int => Carries("demand", t.part)
                       /\ Carries("supply", t.supplies)
  <2>1. ASSUME t.enough
        PROVE  /\ t.supplies # 0 /\ t.part \in Int => Carries("supply", t.part)
               /\ Carries("demand", t.demands)
    <3>1. t.supplies # 0 /\ t.part \in Int => Carries("supply", t.part)
      BY <1>1, <1>3, <2>1, SideScaled
    <3>2. Carries("demand", t.demands)
      BY <1>2, <1>3, <2>1, SideWhole
    <3>3. QED
      BY <3>1, <3>2
  <2>2. ASSUME ~ t.enough
        PROVE  /\ t.demands # 0 /\ t.part \in Int => Carries("demand", t.part)
               /\ Carries("supply", t.supplies)
    <3>1. t.demands # 0 /\ t.part \in Int => Carries("demand", t.part)
      BY <1>2, <1>3, <2>2, SideScaled
    <3>2. Carries("supply", t.supplies)
      BY <1>1, <1>3, <2>2, SideWhole
    <3>3. QED
      BY <3>1, <3>2
  <2>3. QED
    BY <2>1, <2>2
<1> HIDE DEF Carries, S
<1>5. CASE ~ share.told
  <2>1. PICK s \in Int, d \in Int : s = t.supplies /\ d = t.demands
    BY <1>3
  <2>2. (t.enough <=> s >= d) /\ t.part = IF s >= d THEN d ELSE s
    <3>1. LocalTotals(c).enough = (s >= d) /\ LocalTotals(c).part = IF s >= d THEN d ELSE s
      BY <1>5, <2>1 DEF TotalsFor, LocalTotals
    <3>2. t.enough = (s >= d) /\ t.part = IF s >= d THEN d ELSE s
      BY <1>5, <3>1 DEF TotalsFor
    <3>3. QED
      BY <3>2
  <2>3. PICK scarce \in Int, ample \in Int :
           scarce = (IF s >= d THEN d ELSE s) /\ ample = (IF s >= d THEN s ELSE d)
    BY <2>1
  <2>4. ample # 0 => Carries("supply", scarce) /\ Carries("demand", scarce)
    <3>1. CASE s >= d
      <4>1. scarce = d /\ ample = s /\ t.part = d /\ t.enough
        BY <2>2, <2>3, <3>1
      <4>2. QED
        BY <1>4, <2>1, <4>1
    <3>2. CASE ~ s >= d
      <4>1. scarce = s /\ ample = d /\ t.part = s /\ ~ t.enough
        BY <2>2, <2>3, <3>2
      <4>2. QED
        BY <1>4, <2>1, <4>1
    <3>3. QED
      BY <3>1, <3>2
  <2>5. ample # 0 => Carry(c, "supply", scarce)' /\ Carry(c, "demand", scarce)'
    BY <1>d, <2>4
  <2>6. DesiredSupplies(c)' = s /\ DesiredDemands(c)' = d
    BY <1>d, <2>1
  <2>7. QED
    BY <1>5, <2>3, <2>5, <2>6 DEF BalancedAt
<1>6. CASE share.told
  <2>1. t.enough = share.enough /\ t.part = share.part
    BY <1>6 DEF TotalsFor
  <2>2. share.part \in Int =>
           IF share.enough THEN t.supplies # 0 => Carry(c, "supply", share.part)'
                           ELSE t.demands # 0 => Carry(c, "demand", share.part)'
    BY <1>4, <1>d, <2>1
  <2>3. QED
    BY <1>6, <1>d, <2>2 DEF BalancedAt
<1>7. QED
  BY <1>5, <1>6

(* What happens to other appliances leaves a component as balanced as it   *)
(* was.                                                                    *)
LEMMA SideElsewhere ==
    ASSUME NEW c,
           \A a \in AppliancesIn(c) : desired'[a] = desired[a] /\ SideOf'[a] = SideOf[a],
           Types
    PROVE  /\ \A which : On(AppliancesIn(c), SideOf', which) = On(AppliancesIn(c), SideOf, which)
           /\ DesiredSupplies(c)' = DesiredSupplies(c) /\ DesiredDemands(c)' = DesiredDemands(c)
<1>1. AppliancesIn(c) \subseteq Appliance
  BY DEF AppliancesIn
<1>2. \A a \in Appliance : desired[a] \in Int
  BY DesiresAreInt DEF Types
<1>3. ASSUME NEW which
      PROVE  /\ On(AppliancesIn(c), SideOf', which) = On(AppliancesIn(c), SideOf, which)
             /\ Total(On(AppliancesIn(c), SideOf', which), desired')
                   = Total(On(AppliancesIn(c), SideOf, which), desired)
  <2>1. On(AppliancesIn(c), SideOf', which) = On(AppliancesIn(c), SideOf, which)
    BY DEF On
  <2>2. PICK S : S = On(AppliancesIn(c), SideOf, which)
    OBVIOUS
  <2>3. IsFiniteSet(S) /\ Int \in {Nat, Int}
    BY <2>2, OnIsFinite
  <2>4. S \subseteq AppliancesIn(c)
    BY <2>2 DEF On
  <2>5. Total(S, desired') = Total(S, desired)
    BY <1>1, <1>2, <2>3, <2>4, TotalSame
  <2>6. QED
    BY <2>1, <2>2, <2>5
<1>4. QED
  BY <1>3 DEF DesiredSupplies, DesiredDemands

LEMMA CarryElsewhere ==
    ASSUME NEW c, NEW which, NEW amount, Carry(c, which, amount),
           On(AppliancesIn(c), SideOf', which) = On(AppliancesIn(c), SideOf, which),
           \A a \in AppliancesIn(c) : cur'[a] = cur[a]
    PROVE  Carry(c, which, amount)'
<1>1. PICK S : S = On(AppliancesIn(c), SideOf, which)
  OBVIOUS
<1>2. S \subseteq AppliancesIn(c)
  BY <1>1 DEF On
<1>3. IsFiniteSet(S) /\ Int \in {Nat, Int}
  BY <1>1, OnIsFinite
<1>4. (\A a \in S : cur[a] \in Int) /\ Total(S, cur) = Scale * amount
  BY <1>1 DEF Carry
<1>5. Total(S, cur') = Total(S, cur) /\ \A a \in S : cur'[a] \in Int
  BY <1>2, <1>3, <1>4, TotalSame
<1>6. QED
  BY <1>1, <1>4, <1>5 DEF Carry

LEMMA BalancedElsewhere ==
    ASSUME Types, NEW c, NEW share, BalancedAt(c, share),
           \A a \in AppliancesIn(c) :
              desired'[a] = desired[a] /\ SideOf'[a] = SideOf[a] /\ cur'[a] = cur[a]
    PROVE  BalancedAt(c, share)'
<1>1. /\ \A which : On(AppliancesIn(c), SideOf', which) = On(AppliancesIn(c), SideOf, which)
      /\ DesiredSupplies(c)' = DesiredSupplies(c) /\ DesiredDemands(c)' = DesiredDemands(c)
  BY SideElsewhere
<1>2. \A which, amount : Carry(c, which, amount) => Carry(c, which, amount)'
  BY <1>1, CarryElsewhere
<1>3. QED
  BY <1>1, <1>2 DEF BalancedAt

LEMMA KeptElsewhere ==
    ASSUME Types, NEW j, KeptTotals(j), comps'[j] = comps[j], cs'[j] = cs[j],
           \A a \in AppliancesIn(comps[j]) : desired'[a] = desired[a] /\ SideOf'[a] = SideOf[a]
    PROVE  KeptTotals(j)'
<1>1. PICK c : c = comps[j]
  OBVIOUS
<1>2. DesiredSupplies(c)' = DesiredSupplies(c) /\ DesiredDemands(c)' = DesiredDemands(c)
  BY <1>1, SideElsewhere
<1>3. DesiredSupplies(comps[j])' = DesiredSupplies(c)' /\ DesiredDemands(comps[j])' = DesiredDemands(c)'
  BY <1>1 DEF DesiredSupplies, DesiredDemands
<1>4. QED
  BY <1>1, <1>2, <1>3 DEF KeptTotals

LEMMA BalancedObject ==
    ASSUME NEW j, NEW c, NEW share, comps'[j] = c, cs'[j].share = share,
           ~ (cs'[j].stale /\ share.told) => BalancedAt(c, share)'
    PROVE  IsBalanced(j)'
  BY DEF IsBalanced, BalancedAt, Carry, DesiredSupplies, DesiredDemands

(* Only the component at i and its appliances change.                      *)
LEMMA OthersStayBalanced ==
    ASSUME GridInv, SomeFound, AllBalanced, AllKept, comps' = comps, NEW i \in DOMAIN comps,
           \A a \in Appliance : <<a, 0>> \notin comps[i] =>
              desired'[a] = desired[a] /\ SideOf'[a] = SideOf[a] /\ cur'[a] = cur[a],
           \A j \in DOMAIN comps : j \in DOMAIN cs' /\ j # i =>
              j \in DOMAIN cs /\ ~ AtWork(j) /\ ~ Asked(j) /\ cs'[j] = cs[j]
    PROVE  \A j \in DOMAIN comps : j \in DOMAIN cs' /\ j # i => IsBalanced(j)' /\ KeptTotals(j)'
<1> SUFFICES ASSUME NEW j \in DOMAIN comps, j \in DOMAIN cs', j # i
             PROVE  IsBalanced(j)' /\ KeptTotals(j)'
  OBVIOUS
<1>0. Types /\ flag \in [Switch -> Flags]
  BY DEF GridInv, Types
<1>1. PICK c, share : c = comps[j] /\ share = cs[j].share
  OBVIOUS
<1>2. (~ (cs[j].stale /\ share.told) => BalancedAt(c, share)) /\ KeptTotals(j)
  BY <1>1 DEF AllBalanced, IsBalanced, AllKept
<1>3. ASSUME NEW a \in AppliancesIn(c)
      PROVE  desired'[a] = desired[a] /\ SideOf'[a] = SideOf[a] /\ cur'[a] = cur[a]
  <2>1. a \in Appliance /\ <<a, 0>> \in comps[j]
    BY <1>1, <1>3 DEF AppliancesIn
  <2>2. comps[i] # comps[j]
    BY DEF SomeFound
  <2>3. <<a, 0>> \notin comps[i]
    BY <1>0, <2>1, <2>2, ComponentsAreApart DEF SomeFound
  <2>4. QED
    BY <2>1, <2>3
<1>4. BalancedAt(c, share) => BalancedAt(c, share)'
  BY <1>0, <1>3, BalancedElsewhere
<1>5. comps'[j] = c /\ cs'[j].share = share /\ cs'[j].stale = cs[j].stale
  BY <1>1
<1>6. IsBalanced(j)'
  BY <1>2, <1>4, <1>5, BalancedObject
<1>7. KeptTotals(j)'
  BY <1>0, <1>1, <1>2, <1>3, KeptElsewhere
<1>8. QED
  BY <1>6, <1>7

(* No load, mode or current changes.                                       *)
LEMMA StayBalanced ==
    ASSUME Types, AllBalanced, UNCHANGED <<comps, desired, mode, cur>>,
           \A j \in DOMAIN comps : j \in DOMAIN cs' /\ ~ AtWork(j)' =>
              /\ j \in DOMAIN cs /\ ~ AtWork(j) /\ cs'[j].share = cs[j].share
              /\ cs'[j].stale = cs[j].stale
    PROVE  AllBalanced'
<1>1. SideOf' = SideOf
  BY DEF SideOf
<1>2. ASSUME NEW j \in DOMAIN comps, j \in DOMAIN cs', ~ AtWork(j)'
      PROVE  IsBalanced(j)'
  <2>1. PICK c, share : c = comps[j] /\ share = cs[j].share
    OBVIOUS
  <2>2. ~ (cs[j].stale /\ share.told) => BalancedAt(c, share)
    BY <1>2, <2>1 DEF AllBalanced, IsBalanced
  <2>3. BalancedAt(c, share) => BalancedAt(c, share)'
    BY <1>1, BalancedElsewhere
  <2>4. comps'[j] = c /\ cs'[j].share = share /\ cs'[j].stale = cs[j].stale
    BY <1>2, <2>1
  <2>5. QED
    BY <2>2, <2>3, <2>4, BalancedObject
<1>3. QED
  BY <1>2 DEF AllBalanced

(* No load or mode changes, and none of the totals that an object keeps.   *)
LEMMA ObjectKept ==
    ASSUME NEW j, KeptTotals(j), SameTotals(cs[j], cs'[j]), comps'[j] = comps[j],
           UNCHANGED <<desired, mode>>
    PROVE  KeptTotals(j)'
<1>1. PICK c : c = comps[j]
  OBVIOUS
<1>2. SideOf' = SideOf
  BY DEF SideOf
<1>3. DesiredSupplies(c)' = DesiredSupplies(c) /\ DesiredDemands(c)' = DesiredDemands(c)
  BY <1>2 DEF DesiredSupplies, DesiredDemands
<1>4. DesiredSupplies(comps[j])' = DesiredSupplies(c)' /\ DesiredDemands(comps[j])' = DesiredDemands(c)'
  BY <1>1 DEF DesiredSupplies, DesiredDemands
<1>5. QED
  BY <1>1, <1>3, <1>4 DEF KeptTotals, SameTotals

LEMMA StayKept ==
    ASSUME AllKept, UNCHANGED <<comps, desired, mode>>,
           \A j \in DOMAIN comps : j \in DOMAIN cs' /\ ~ Asked(j)' =>
              j \in DOMAIN cs /\ ~ Asked(j) /\ SameTotals(cs[j], cs'[j])
    PROVE  AllKept'
<1>1. ASSUME NEW j \in DOMAIN comps, j \in DOMAIN cs', ~ Asked(j)'
      PROVE  KeptTotals(j)'
  <2>1. KeptTotals(j) /\ SameTotals(cs[j], cs'[j]) /\ comps'[j] = comps[j]
    BY <1>1 DEF AllKept
  <2>2. QED
    BY <2>1, ObjectKept
<1>2. QED
  BY <1>1 DEF AllKept

HandlerTotalsHold ==
    /\ h.step = "append" => TotalsFor(h, h.of, NoShare)
    /\ h.step = "assign" => TotalsFor(h, h.of, h.share)

LEMMA QuietParts ==
    ASSUME BalanceParts, Quiet
    PROVE  AllBalanced /\ AllKept /\ HandlerTotalsHold
           /\ \A j : AtWork(j) <=> h.step \in {"total", "ask", "assign"} /\ j = h.i
  BY DEF Quiet, BalanceParts, HandlerTotalsHold, TotalsHold, AtWork

LEMMA IdleParts ==
    ASSUME BalanceParts, h.step = "idle"
    PROVE  AllBalanced /\ AllKept /\ \A j : AtWork(j) <=> m.step \in {"total", "assign"} /\ j = m.i
  BY DEF BalanceParts, AtWork

\* the same of the next state
LEMMA QuietNext ==
    ASSUME m'.step \in {"unborn", "asleep"}
    PROVE  /\ AllBalanced' /\ AllKept' /\ HandlerTotalsHold' => BalanceParts'
           /\ \A j : AtWork(j)' <=> h'.step \in {"total", "ask", "assign"} /\ j = h'.i
  BY DEF Quiet, BalanceParts, HandlerTotalsHold, TotalsHold, AtWork

LEMMA IdleNext ==
    ASSUME h'.step = "idle"
    PROVE  /\ /\ AllBalanced' /\ AllKept'
              /\ m'.step \in {"total", "assign"} => m'.i \in DOMAIN comps' /\ m'.of = comps'[m'.i]
              /\ (m.step = "assign" => TotalsFor(m.totals, m.of, NoShare))'
              => BalanceParts'
           /\ \A j : AtWork(j)' <=> m'.step \in {"total", "assign"} /\ j = m'.i
  BY DEF BalanceParts, TotalsHold, AtWork

(* The totals of the first loop, when nothing they are made of changes.    *)
LEMMA TotalsStay ==
    ASSUME UNCHANGED <<desired, mode>>, NEW c, NEW t, NEW share
    PROVE  TotalsFor(t, c, share)' <=> TotalsFor(t, c, share)
<1>1. SideOf' = SideOf
  BY DEF SideOf
<1>2. DesiredSupplies(c)' = DesiredSupplies(c) /\ DesiredDemands(c)' = DesiredDemands(c)
  BY <1>1 DEF DesiredSupplies, DesiredDemands
<1>3. LocalTotals(c)' = LocalTotals(c)
  BY <1>2 DEF LocalTotals
<1>4. QED
  BY <1>2, <1>3 DEF TotalsFor

LEMMA LocalTotalsFor ==
    ASSUME Types, NEW c \in SUBSET PowerInterfaces, NEW i \in Int, NEW step \in HandlerSteps
    PROVE  TotalsFor(Balancing(c, LocalTotals(c), i, step, NoShare), c, NoShare)
<1>1. LocalTotals(c).supplies = DesiredSupplies(c) /\ LocalTotals(c).demands = DesiredDemands(c)
  BY DEF LocalTotals
<1>2. NoShare.told = FALSE
  BY DEF NoShare
<1>3. QED
  BY <1>1, <1>2, LocalBalancingType DEF TotalsFor

(* A handler's step, while the monitor sleeps.                             *)
LEMMA HandlerBalances ==
    ASSUME HasLines, GridInv, GridInv', BalanceParts, Quiet, m'.step \in {"unborn", "asleep"},
           status' = "running",
           \/ \E a \in Appliance : \E v \in Values[a] : UpdateAppliance(a, v)
           \/ \E a \in Storage, md \in Modes : UpdateStorage(a, md)
           \/ \E s \in Switch, f \in Flags : UpdateSwitch(s, f)
           \/ \E p \in LocalPis : DynamicConnectedSimulation(p)
           \/ \E enough \in BOOLEAN, part \in Parts : DynamicCoordinatedLoadUpdate(enough, part)
           \/ Rebuild \/ DfsVisit \/ FindConnectedComponents \/ Simulate \/ SimulateAppend
           \/ UpdateTotals \/ UpdateCurrents
           \/ \E enough \in BOOLEAN, part \in Parts : AskCoordinator(enough, part)
    PROVE  BalanceParts'
<1>0. /\ Types /\ Types' /\ SearchInv /\ StepInv /\ AtComponent /\ h \in Work
      /\ h.step \notin {"rebuild", "search"} => Aligned /\ SomeFound
  BY DEF GridInv, StepInv, SearchInv, Types
<1>a. /\ AllBalanced /\ AllKept /\ HandlerTotalsHold
      /\ \A j : AtWork(j) <=> h.step \in {"total", "ask", "assign"} /\ j = h.i
  BY QuietParts
<1>b. /\ AllBalanced' /\ AllKept' /\ HandlerTotalsHold' => BalanceParts'
      /\ \A j : AtWork(j)' <=> h'.step \in {"total", "ask", "assign"} /\ j = h'.i
  BY QuietNext
<1>c. /\ Len(cs) \in Nat /\ DOMAIN cs = 1 .. Len(cs) /\ Len(cs') \in Nat /\ DOMAIN cs' = 1 .. Len(cs')
      /\ Len(comps) \in Nat /\ DOMAIN comps = 1 .. Len(comps) /\ cs \in Seq(Object)
  BY LenProperties, <1>0 DEF Types
\* an appliance's update
<1>1. ASSUME NEW a \in Appliance, h.step = "idle", UpdateOf(a), UNCHANGED <<comps, cs, cur>>,
             \A b \in Appliance : b # a => desired'[b] = desired[b] /\ SideOf'[b] = SideOf[b]
      PROVE  BalanceParts'
  <2>1. PICK i : i = FindComponent(<<a, 0>>)
    OBVIOUS
  <2>2. i \in DOMAIN cs /\ i \in DOMAIN comps /\ cs[i].of = comps[i]
    BY <1>0, <1>1, <2>1, ApplianceInterface, IdleFinds DEF Aligned
  <2>3. <<a, 0>> \in comps[i] /\ i \in Int /\ comps[i] \in SUBSET PowerInterfaces
    BY <1>0, <2>1, <2>2, Found
  <2>4. PICK s \in {"ask", "total"} : h' = At(s, i, comps[i])
    BY <1>0, <1>1, <2>1, <2>2, UpdateOfType
  <2>5. h'.step = s /\ h'.i = i
    BY <2>3, <2>4, IdleType DEF HandlerSteps
  <2>6. \A b \in Appliance : <<b, 0>> \notin comps[i] =>
              desired'[b] = desired[b] /\ SideOf'[b] = SideOf[b] /\ cur'[b] = cur[b]
    BY <1>1, <2>3
  <2>7. \A j \in DOMAIN comps : j \in DOMAIN cs' /\ j # i =>
              j \in DOMAIN cs /\ ~ AtWork(j) /\ ~ Asked(j) /\ cs'[j] = cs[j]
    BY <1>1, <1>a DEF Asked
  <2>8. \A j \in DOMAIN comps : j \in DOMAIN cs' /\ j # i => IsBalanced(j)' /\ KeptTotals(j)'
    BY <1>0, <1>1, <1>a, <2>2, <2>6, <2>7, OthersStayBalanced
  <2>9. AllBalanced'
    BY <1>1, <1>b, <2>5, <2>8 DEF AllBalanced
  <2>10. s = "total" => KeptTotals(i)'
    <3>1. s = "total" => ~ cs[i].dynamic
      BY <1>0, <1>1, <2>1, <2>2, <2>5, UpdateOfAsks
    <3>2. QED
      BY <1>1, <3>1 DEF KeptTotals
  <2>11. AllKept'
    BY <1>1, <2>5, <2>8, <2>10 DEF AllKept, Asked
  <2>12. QED
    BY <1>b, <2>5, <2>9, <2>11 DEF HandlerTotalsHold
<1>2. ASSUME NEW a \in Appliance, NEW v \in Values[a], UpdateAppliance(a, v)
      PROVE  BalanceParts'
  <2>1. desired' = [desired EXCEPT ![a] = v] /\ SideOf' = SideOf
    BY <1>2 DEF UpdateAppliance, SideOf
  <2>2. \A b \in Appliance : b # a => desired'[b] = desired[b]
    BY <1>0, <2>1 DEF Types, Desires
  <2>3. QED
    BY <1>1, <1>2, <2>1, <2>2 DEF UpdateAppliance, HandlerFree
<1>3. ASSUME NEW a \in Storage, NEW md \in Modes, UpdateStorage(a, md)
      PROVE  BalanceParts'
  <2>1. mode' = [mode EXCEPT ![a] = md] /\ desired' = desired
    BY <1>3 DEF UpdateStorage
  <2>2. \A b \in Appliance : b # a => SideOf'[b] = SideOf[b]
    BY <1>0, <2>1 DEF Types, SideOf
  <2>3. QED
    BY <1>1, <1>3, <2>1, <2>2 DEF UpdateStorage, HandlerFree, Storage
\* nothing that balance is about changes
<1>4. ASSUME UNCHANGED <<comps, cs, desired, mode, cur>>, HandlerTotalsHold', h.step # "ask",
             \A j : AtWork(j)' <=> AtWork(j)
      PROVE  BalanceParts'
  <2>1. AllBalanced'
    BY <1>0, <1>4, <1>a, StayBalanced
  <2>2. AllKept'
    BY <1>4, <1>a, StayKept DEF Asked, SameTotals
  <2>3. QED
    BY <1>4, <1>b, <2>1, <2>2
<1>5. ASSUME NEW s \in Switch, NEW f \in Flags, UpdateSwitch(s, f)
      PROVE  BalanceParts'
  <2>1. CASE comps' = <<>> /\ h' = At("rebuild", 0, {})
    <3>1. h'.step = "rebuild"
      BY <2>1, StartType
    <3>2. AllBalanced' /\ AllKept'
      BY <2>1 DEF AllBalanced, AllKept
    <3>3. QED
      BY <1>b, <3>1, <3>2 DEF HandlerTotalsHold
  <2>2. CASE UNCHANGED <<comps, cs>> /\ h' = At("simulate", 1, {})
    <3>1. h'.step = "simulate" /\ h.step = "idle"
      BY <1>5, <2>2, StartType DEF UpdateSwitch, HandlerFree
    <3>2. QED
      BY <1>4, <1>5, <1>a, <1>b, <2>2, <3>1 DEF UpdateSwitch, HandlerTotalsHold
  <2>3. QED
    BY <1>5, <2>1, <2>2 DEF UpdateSwitch, Clear
<1>6. ASSUME NEW p \in LocalPis, DynamicConnectedSimulation(p)
      PROVE  BalanceParts'
  <2>1. h.step = "idle" /\ UNCHANGED <<comps, desired, mode, cur>>
    BY <1>6 DEF DynamicConnectedSimulation, HandlerFree
  <2>2. PICK i : i = FindComponent(p)
    OBVIOUS
  <2>3. i \in DOMAIN cs /\ cs' = [cs EXCEPT ![i].dynamic = TRUE] /\ h' = At("ask", i, cs[i].of)
    BY <1>6, <2>2 DEF DynamicConnectedSimulation
  <2>4. i \in Int /\ cs[i].of \in SUBSET PowerInterfaces
    BY <1>0, <2>2, <2>3, Found, ObjectAt
  <2>5. DOMAIN cs' = DOMAIN cs
        /\ \A j \in DOMAIN cs : /\ cs'[j].share = cs[j].share /\ cs'[j].stale = cs[j].stale
                                /\ j # i => cs'[j] = cs[j]
    BY <1>c, <2>3, DynamicSet
  <2>6. h'.step = "ask" /\ h'.i = i
    BY <2>3, <2>4, IdleType DEF HandlerSteps
  <2>7. \A j \in DOMAIN comps : j \in DOMAIN cs' /\ ~ AtWork(j)' =>
              /\ j \in DOMAIN cs /\ ~ AtWork(j) /\ cs'[j].share = cs[j].share
              /\ cs'[j].stale = cs[j].stale
    BY <1>a, <2>1, <2>5
  <2>8. AllBalanced'
    BY <1>0, <1>a, <2>1, <2>7, StayBalanced
  <2>9. \A j \in DOMAIN comps : j \in DOMAIN cs' /\ ~ Asked(j)' =>
              j \in DOMAIN cs /\ ~ Asked(j) /\ SameTotals(cs[j], cs'[j])
    BY <2>1, <2>5, <2>6 DEF Asked, SameTotals
  <2>10. AllKept'
    BY <1>a, <2>1, <2>9, StayKept
  <2>11. QED
    BY <1>b, <2>6, <2>8, <2>10 DEF HandlerTotalsHold
<1>7. CASE Rebuild \/ DfsVisit \/ FindConnectedComponents
  <2>1. Len(cs) = 0 /\ cs' = cs
    BY <1>0, <1>7 DEF Rebuild, DfsVisit, FindConnectedComponents, SearchInv, Searching
  <2>2. AllBalanced' /\ AllKept'
    BY <1>c, <2>1 DEF AllBalanced, AllKept
  <2>3. h'.step \in {"search", "simulate"}
    <3>1. CASE Rebuild
      BY <1>0, <3>1, RebuildSearches, StartType
    <3>2. CASE DfsVisit
      BY <1>0, <3>2, DfsVisitSearches
    <3>3. CASE FindConnectedComponents
      BY <1>0, <3>3, FindSearches
    <3>4. QED
      BY <1>7, <3>1, <3>2, <3>3
  <2>4. QED
    BY <1>b, <2>2, <2>3 DEF HandlerTotalsHold
<1>8. CASE Simulate
  <2>1. h.step = "simulate" /\ h.i \in Int /\ h.i > 0 /\ UNCHANGED <<comps, cs, desired, mode, cur>>
    BY <1>0, <1>8 DEF Simulate, Types, Work
  <2>2. CASE h.i > Len(comps)
    <3>1. h'.step = "idle"
      BY <1>8, <2>2, IdleType DEF Simulate
    <3>2. QED
      BY <1>4, <1>a, <1>b, <2>1, <3>1 DEF HandlerTotalsHold
  <2>3. CASE ~ h.i > Len(comps)
    <3>1. comps[h.i] \in SUBSET PowerInterfaces /\ "append" \in HandlerSteps
      BY <1>0, <1>c, <2>1, <2>3, ElementOfSeq DEF Types, HandlerSteps
    <3>2. PICK c, i : c = comps[h.i] /\ i = h.i
      OBVIOUS
    <3>3. h' = Balancing(c, LocalTotals(c), i, "append", NoShare)
      BY <1>8, <2>3, <3>2 DEF Simulate
    <3>4. h'.step = "append" /\ h'.of = c
      BY <1>0, <2>1, <3>1, <3>2, <3>3, LocalBalancingType
    <3>5. PICK t : t = h'
      OBVIOUS
    <3>6. TotalsFor(t, c, NoShare)
      BY <1>0, <2>1, <3>1, <3>2, <3>3, <3>5, LocalTotalsFor
    <3>7. TotalsFor(t, c, NoShare)'
      BY <2>1, <3>6, TotalsStay
    <3>8. HandlerTotalsHold'
      BY <3>4, <3>5, <3>7 DEF HandlerTotalsHold, TotalsFor, LocalTotals, DesiredSupplies, DesiredDemands
    <3>9. QED
      BY <1>4, <1>a, <1>b, <2>1, <3>4, <3>8
  <2>4. QED
    BY <2>2, <2>3
<1>9. CASE SimulateAppend
  <2>1. PICK c, i : c = h.of /\ i = h.i
    OBVIOUS
  <2>2. /\ h.step = "append" /\ i \in DOMAIN comps /\ i \in Int /\ c = comps[i] /\ c \in SUBSET PowerInterfaces
        /\ UNCHANGED <<comps, desired, mode>> /\ cur' = Assign(c, h)
        /\ TotalsFor(h, c, NoShare) /\ Aligned /\ PushBack(c)
    BY <1>0, <1>9, <1>a, <2>1 DEF SimulateAppend, AtComponent, Work, HandlerTotalsHold
  <2>3. h'.step = "simulate"
    BY <1>9, <2>1, <2>2, StartType DEF SimulateAppend
  <2>4. /\ Len(cs') = Len(cs) + 1
        /\ cs'[Len(cs) + 1].share = NoShare /\ cs'[Len(cs) + 1].dynamic = FALSE
        /\ \A j \in 1 .. Len(cs) :
                 /\ SameTotals(cs[j], cs'[j])
                 /\ cs[j].of # c => cs'[j] = cs[j]
                 /\ cs'[j].share = IF cs[j].of = c THEN NoShare ELSE cs[j].share
    <3>1. /\ Len(cs') = Len(cs) + 1 /\ cs'[Len(cs) + 1] = ConnectedComponent(c)
          /\ \A j \in 1 .. Len(cs) :
                 /\ SameTotals(cs[j], cs'[j])
                 /\ cs[j].of # c => cs'[j] = cs[j]
                 /\ cs'[j].share = IF cs[j].of = c THEN NoShare ELSE cs[j].share
      BY <1>0, <2>2, Pushed
    <3>2. ConnectedComponent(c).share = NoShare /\ ConnectedComponent(c).dynamic = FALSE
      BY DEF ConnectedComponent
    <3>3. QED
      BY <3>1, <3>2
  <2>5. \A j \in DOMAIN comps : j \in DOMAIN cs' => j \in DOMAIN cs \/ (j = Len(cs) + 1 /\ j = i)
    BY <1>c, <2>1, <2>2, <2>4 DEF Aligned
  <2>6. i \in DOMAIN cs' => cs'[i].share = NoShare
    <3>1. CASE i \in DOMAIN cs
      BY <1>c, <2>2, <2>4, <3>1 DEF Aligned
    <3>2. CASE i \notin DOMAIN cs
      BY <2>2, <2>4, <2>5, <3>2
    <3>3. QED
      BY <3>1, <3>2
  <2>7. i \in DOMAIN cs' => KeptTotals(i)'
    <3>1. CASE i \in DOMAIN cs
      <4>1. KeptTotals(i) /\ SameTotals(cs[i], cs'[i])
        BY <1>a, <1>c, <2>2, <2>4, <3>1 DEF AllKept, Asked
      <4>2. QED
        BY <2>2, <4>1, ObjectKept
    <3>2. CASE i \notin DOMAIN cs
      BY <2>2, <2>4, <2>5, <3>2 DEF KeptTotals
    <3>3. QED
      BY <3>1, <3>2
  <2>8. SideOf' = SideOf
    BY <2>2 DEF SideOf
  <2>9. \A a \in Appliance : <<a, 0>> \notin comps[i] =>
              desired'[a] = desired[a] /\ SideOf'[a] = SideOf[a] /\ cur'[a] = cur[a]
    BY <2>2, <2>8 DEF Assign, AppliancesIn
  <2>10. \A j \in DOMAIN comps : j \in DOMAIN cs' /\ j # i =>
              j \in DOMAIN cs /\ ~ AtWork(j) /\ ~ Asked(j) /\ cs'[j] = cs[j]
    <3>1. ASSUME NEW j \in DOMAIN comps, j \in DOMAIN cs, j # i PROVE cs[j].of # c
      BY <1>0, <2>2, <3>1 DEF Aligned, SomeFound
    <3>2. QED
      BY <1>a, <1>c, <2>2, <2>4, <2>5, <3>1 DEF Asked
  <2>11. \A j \in DOMAIN comps : j \in DOMAIN cs' /\ j # i => IsBalanced(j)' /\ KeptTotals(j)'
    BY <1>0, <1>a, <2>2, <2>9, <2>10, OthersStayBalanced
  <2>12. BalancedAt(c, NoShare)'
    BY <1>0, <2>2, IdleType, AssignBalances DEF Work
  <2>13. i \in DOMAIN cs' => IsBalanced(i)'
    BY <2>2, <2>6, <2>12, BalancedObject
  <2>14. AllBalanced' /\ AllKept'
    BY <2>2, <2>7, <2>11, <2>13 DEF AllBalanced, AllKept
  <2>15. QED
    BY <1>b, <2>3, <2>14 DEF HandlerTotalsHold
<1>11. CASE UpdateTotals
  <2>1. PICK c, i : c = h.of /\ i = h.i
    OBVIOUS
  <2>2. c \in SUBSET PowerInterfaces /\ i \in Int /\ "assign" \in HandlerSteps
    BY <1>0, <2>1 DEF Work, HandlerSteps
  <2>3. /\ h' = Balancing(c, LocalTotals(c), i, "assign", NoShare)
        /\ h.step = "total" /\ UNCHANGED <<comps, cs, desired, mode, cur>>
    BY <1>11, <2>1 DEF UpdateTotals
  <2>4. h'.step = "assign" /\ h'.i = i /\ h'.of = c /\ h'.share = NoShare
    BY <1>0, <2>2, <2>3, LocalBalancingType
  <2>5. PICK t : t = h'
    OBVIOUS
  <2>6. TotalsFor(t, c, NoShare)
    BY <1>0, <2>2, <2>3, <2>5, LocalTotalsFor
  <2>7. TotalsFor(t, c, NoShare)'
    BY <2>3, <2>6, TotalsStay
  <2>8. HandlerTotalsHold'
    BY <2>4, <2>5, <2>7 DEF HandlerTotalsHold, TotalsFor, LocalTotals, DesiredSupplies, DesiredDemands
  <2>9. QED
    BY <1>4, <1>a, <1>b, <2>1, <2>3, <2>4, <2>8
<1>12. ASSUME NEW enough \in BOOLEAN, NEW part \in Parts, AskCoordinator(enough, part)
       PROVE  BalanceParts'
  <2>1. PICK c, t, share, i : c = h.of /\ t = h' /\ share = Share(enough, part) /\ i = h.i
    OBVIOUS
  <2>2. /\ h'.step = "assign" /\ h'.i = i /\ h'.of = c /\ h'.share = share
        /\ t.enough = enough /\ t.part = part
        /\ t.supplies = DesiredSupplies(c) /\ t.demands = DesiredDemands(c)
    BY <1>0, <1>12, <2>1, AskType
  <2>3. share.told = TRUE /\ share.enough = enough /\ share.part = part
    BY <2>1 DEF Share
  <2>4. /\ h.step = "ask" /\ UNCHANGED <<comps, desired, mode, cur>>
        /\ TotalsFor(t, c, share)
    BY <1>12, <2>2, <2>3 DEF TotalsFor, AskCoordinator
  <2>5. TotalsFor(t, c, share)'
    BY <2>4, TotalsStay
  <2>6. HandlerTotalsHold'
    BY <2>1, <2>2, <2>5 DEF HandlerTotalsHold, TotalsFor, LocalTotals, DesiredSupplies, DesiredDemands
  <2>7. /\ DOMAIN cs' = DOMAIN cs
        /\ \A j \in DOMAIN cs :
              /\ j # i => cs'[j] = cs[j]
              /\ j = i => cs'[j].supplies = DesiredSupplies(c) /\ cs'[j].demands = DesiredDemands(c)
    BY <1>0, <1>12, <2>1, AskSets
  <2>8. AllBalanced'
    <3>1. \A j \in DOMAIN comps : j \in DOMAIN cs' /\ ~ AtWork(j)' =>
              /\ j \in DOMAIN cs /\ ~ AtWork(j) /\ cs'[j].share = cs[j].share
              /\ cs'[j].stale = cs[j].stale
      BY <1>a, <1>b, <2>1, <2>2, <2>4, <2>7
    <3>2. QED
      BY <1>0, <1>a, <2>4, <3>1, StayBalanced
  <2>9. AllKept'
    <3>1. SideOf' = SideOf
      BY <2>4 DEF SideOf
    <3>2. /\ DesiredSupplies(c)' = DesiredSupplies(c) /\ DesiredDemands(c)' = DesiredDemands(c)
          /\ comps'[i] = c
      BY <1>0, <2>1, <2>4, <3>1 DEF AtComponent, DesiredSupplies, DesiredDemands
    <3>3. i \in DOMAIN cs' => KeptTotals(i)'
      <4>1. DesiredSupplies(comps[i])' = DesiredSupplies(c)' /\ DesiredDemands(comps[i])' = DesiredDemands(c)'
        BY <3>2 DEF DesiredSupplies, DesiredDemands
      <4>2. QED
        BY <2>7, <3>2, <4>1 DEF KeptTotals
    <3>4. ASSUME NEW j \in DOMAIN comps, j \in DOMAIN cs', j # i PROVE KeptTotals(j)'
      <4>1. KeptTotals(j) /\ SameTotals(cs[j], cs'[j]) /\ comps'[j] = comps[j]
        BY <1>a, <2>1, <2>4, <2>7, <3>4 DEF AllKept, Asked, SameTotals
      <4>2. QED
        BY <2>4, <4>1, ObjectKept
    <3>5. QED
      BY <2>4, <3>3, <3>4 DEF AllKept
  <2>10. QED
    BY <1>b, <2>6, <2>8, <2>9
\* the currents of one component are assigned, by an update or by a push
<1>13. ASSUME NEW i \in DOMAIN comps, NEW t, NEW share \in Part, h'.step = "idle",
              h.step \in {"idle", "assign"}, h.step = "assign" => h.i = i,
              t.part \in Amounts, t.enough \in BOOLEAN,
              UNCHANGED <<comps, desired, mode>>, cur' = Assign(comps[i], t),
              cs' = [cs EXCEPT ![i].share = share],
              i \in DOMAIN cs /\ ~ (cs[i].stale /\ share.told) => TotalsFor(t, comps[i], share)
       PROVE  BalanceParts'
  <2>1. PICK c : c = comps[i]
    OBVIOUS
  <2>2. DOMAIN cs' = DOMAIN cs /\ \A j \in DOMAIN cs :
              /\ SameTotals(cs[j], cs'[j])
              /\ cs'[j].share = IF j = i THEN share ELSE cs[j].share
              /\ j # i => cs'[j] = cs[j]
    <3>1. PICK new : new = [cs EXCEPT ![i].share = share]
      OBVIOUS
    <3>2. DOMAIN new = DOMAIN cs /\ \A j \in DOMAIN cs :
              /\ SameTotals(cs[j], new[j])
              /\ new[j].share = IF j = i THEN share ELSE cs[j].share
              /\ j # i => new[j] = cs[j]
      BY <1>c, <3>1, ShareSet
    <3>3. cs' = new
      BY <1>13, <3>1
    <3>4. QED
      BY <3>2, <3>3
  <2>3. SideOf' = SideOf
    BY <1>13 DEF SideOf
  <2>4. \A a \in Appliance : <<a, 0>> \notin comps[i] =>
              desired'[a] = desired[a] /\ SideOf'[a] = SideOf[a] /\ cur'[a] = cur[a]
    BY <1>13, <2>3 DEF Assign, AppliancesIn
  <2>5. \A j \in DOMAIN comps : j \in DOMAIN cs' /\ j # i =>
              j \in DOMAIN cs /\ ~ AtWork(j) /\ ~ Asked(j) /\ cs'[j] = cs[j]
    BY <1>13, <1>a, <2>2 DEF Asked
  <2>6. \A j \in DOMAIN comps : j \in DOMAIN cs' /\ j # i => IsBalanced(j)'
    BY <1>0, <1>13, <1>a, <2>4, <2>5, OthersStayBalanced
  <2>7. i \in DOMAIN cs => IsBalanced(i)'
    <3>1. ASSUME i \in DOMAIN cs, ~ (cs[i].stale /\ share.told) PROVE BalancedAt(c, share)'
      BY <1>0, <1>13, <2>1, <3>1, AssignBalances
    <3>2. i \in DOMAIN cs => cs'[i].share = share /\ cs'[i].stale = cs[i].stale
      BY <2>2 DEF SameTotals
    <3>3. QED
      BY <1>13, <2>1, <3>1, <3>2, BalancedObject
  <2>8. AllBalanced'
    BY <1>13, <2>2, <2>6, <2>7 DEF AllBalanced
  <2>9. AllKept'
    BY <1>13, <1>a, <2>2, StayKept DEF Asked
  <2>10. QED
    BY <1>13, <1>b, <2>8, <2>9 DEF HandlerTotalsHold
<1>14. CASE UpdateCurrents
  <2>1. PICK i, t, share : i = h.i /\ t = h /\ share = h.share
    OBVIOUS
  <2>2. /\ h.step = "assign" /\ i \in DOMAIN comps /\ h.of = comps[i] /\ share \in Part
        /\ t.part \in Amounts /\ t.enough \in BOOLEAN
        /\ UNCHANGED <<comps, desired, mode>> /\ cur' = Assign(comps[i], t)
        /\ TotalsFor(t, comps[i], share) /\ cs' = [cs EXCEPT ![i].share = share]
    BY <1>0, <1>14, <1>a, <2>1 DEF UpdateCurrents, AtComponent, Work, HandlerTotalsHold
  <2>3. h'.step = "idle"
    BY <1>14, IdleType DEF UpdateCurrents
  <2>4. QED
    BY <1>13, <2>1, <2>2, <2>3
\* a push: the first object has joined and, unless they are old, keeps its totals
<1>15. ASSUME NEW enough \in BOOLEAN, NEW part \in Parts, DynamicCoordinatedLoadUpdate(enough, part)
       PROVE  BalanceParts'
  <2>1. h.step = "idle" /\ h' = h /\ UNCHANGED <<comps, desired, mode>>
    BY <1>15 DEF DynamicCoordinatedLoadUpdate, HandlerFree
  <2>2. cs # <<>> /\ Aligned /\ Len(cs) >= Len(comps)
    BY <1>0, <2>1, IdleObjects
  <2>3. PICK t, share : /\ share = Share(enough, part)
                        /\ t = [enough |-> enough, part |-> part,
                                supplies |-> cs[1].supplies, demands |-> cs[1].demands]
    OBVIOUS
  <2>4. /\ t.enough = enough /\ t.part = part /\ t.supplies = cs[1].supplies
        /\ t.demands = cs[1].demands /\ share \in Part /\ part \in Amounts
        /\ share.told = TRUE /\ share.enough = enough /\ share.part = part
    BY <2>3, GridAssumption DEF Share, Part
  <2>5. cur' = Assign(cs[1].of, t) /\ cs' = [cs EXCEPT ![1].share = share] /\ cs[1].dynamic
    BY <1>15, <2>2, <2>3 DEF DynamicCoordinatedLoadUpdate
  <2>6. 1 \in DOMAIN comps /\ 1 \in DOMAIN cs /\ cs[1].of = comps[1]
    <3>1. \E p \in PowerInterfaces : InSome(p)
      <4>1. PICK p : p \in PowerInterfaces
        BY GridAssumption DEF HasLines
      <4>2. QED
        BY <1>0, <2>1, <4>1 DEF SearchInv
    <3>2. DOMAIN comps # {}
      BY <3>1 DEF InSome
    <3>3. Len(comps) > 0
      BY <1>c, <3>2
    <3>4. QED
      BY <1>c, <2>2, <3>3 DEF Aligned
  <2>7. ~ (cs[1].stale /\ share.told) => TotalsFor(t, comps[1], share)
    <3>1. KeptTotals(1)
      BY <1>a, <2>1, <2>6 DEF AllKept, Asked
    <3>2. QED
      BY <2>4, <2>5, <3>1 DEF KeptTotals, TotalsFor
  <2>8. PICK i : i = 1
    OBVIOUS
  <2>9. /\ i \in DOMAIN comps /\ cur' = Assign(comps[i], t) /\ cs' = [cs EXCEPT ![i].share = share]
        /\ ~ (cs[i].stale /\ share.told) => TotalsFor(t, comps[i], share)
    BY <2>5, <2>6, <2>7, <2>8
  <2>10. QED
    BY <1>13, <2>1, <2>4, <2>9
<1>16. QED
  BY <1>2, <1>3, <1>5, <1>6, <1>7, <1>8, <1>9, <1>11, <1>12, <1>14, <1>15

(* A step of the monitor, while no handler is at work.                     *)
LEMMA MonitorBalances ==
    ASSUME GridInv, GridInv', BalanceParts, h.step = "idle", h' = h, ~ m.lost, MonitorNext,
           status' = "running"
    PROVE  BalanceParts'
<1>0. /\ Types /\ Types' /\ SearchInv /\ StepInv /\ SomeFound /\ h \in Work /\ m \in Monitor
      /\ Len(cs) >= Len(comps) /\ cs \in Seq(Object) /\ Aligned
  BY DEF GridInv, SearchInv, StepInv, Aligned, Types
<1>a. AllBalanced /\ AllKept /\ \A j : AtWork(j) <=> m.step \in {"total", "assign"} /\ j = m.i
  BY IdleParts
<1>b. /\ /\ AllBalanced' /\ AllKept'
         /\ m'.step \in {"total", "assign"} => m'.i \in DOMAIN comps' /\ m'.of = comps'[m'.i]
         /\ (m.step = "assign" => TotalsFor(m.totals, m.of, NoShare))'
         => BalanceParts'
      /\ \A j : AtWork(j)' <=> m'.step \in {"total", "assign"} /\ j = m'.i
  BY IdleNext
<1>c. Asleep.step = "asleep"
  BY DEF Asleep
\* a step before the component is taken, or none
<1>1. ASSUME m.step \notin {"total", "assign"}, m'.step \notin {"total", "assign"},
             UNCHANGED <<comps, cs, desired, mode, cur>>
      PROVE  BalanceParts'
  <2>1. AllBalanced'
    BY <1>0, <1>1, <1>a, StayBalanced
  <2>2. AllKept'
    BY <1>1, <1>a, StayKept DEF Asked, SameTotals
  <2>3. QED
    BY <1>1, <1>b, <2>1, <2>2
<1>2. ASSUME NEW b \in Storage, MonitorRead(b)
      PROVE  BalanceParts'
  <2>1. m'.step = "read"
    BY <1>2 DEF MonitorRead, Asleep
  <2>2. QED
    BY <1>1, <1>2, <2>1 DEF MonitorRead
<1>3. CASE MonitorWrite
  <2>1. m.step = "read" /\ m.b \in Storage /\ m.b \in Appliance /\ UNCHANGED <<comps, desired, cur>>
    BY <1>3 DEF MonitorWrite, GridInv, EnergyInv, EnergyRead, Storage
  <2>2. CASE ~ IsPast
    BY <1>1, <1>3, <1>c, <2>1, <2>2 DEF MonitorWrite
  <2>3. CASE IsPast
    <3>1. PICK i : i = FindComponent(<<m.b, 0>>)
      OBVIOUS
    <3>2. i \in DOMAIN cs /\ i \in DOMAIN comps /\ cs[i].of = comps[i]
      BY <1>0, <2>1, <3>1, ApplianceInterface, IdleFinds DEF Aligned
    <3>3. <<m.b, 0>> \in comps[i]
      BY <1>0, <3>1, <3>2, Found
    <3>4. /\ m' = [m EXCEPT !.step = "total", !.of = comps[i], !.i = i]
          /\ mode' = [mode EXCEPT ![m.b] = "standing"]
          /\ cs' = [cs EXCEPT ![i].stale = TRUE]
      BY <1>3, <2>3, <3>1, <3>2 DEF MonitorWrite
    <3>5. m'.step = "total" /\ m'.of = comps[i] /\ m'.i = i
      BY <1>0, <3>4 DEF Monitor
    <3>6. \A a \in Appliance : a # m.b => SideOf'[a] = SideOf[a]
      BY <1>0, <3>4 DEF Types, SideOf
    <3>7. \A a \in Appliance : <<a, 0>> \notin comps[i] =>
              desired'[a] = desired[a] /\ SideOf'[a] = SideOf[a] /\ cur'[a] = cur[a]
      BY <2>1, <3>3, <3>6
    <3>8. DOMAIN cs' = DOMAIN cs /\ \A j \in DOMAIN cs :
              /\ j # i => cs'[j] = cs[j]
              /\ j = i => cs'[j].stale = TRUE
      <4>1. PICK new : new = [cs EXCEPT ![i].stale = TRUE]
        OBVIOUS
      <4>2. DOMAIN new = DOMAIN cs /\ \A j \in DOMAIN cs :
                /\ j # i => new[j] = cs[j]
                /\ j = i => new[j].stale = TRUE
        BY <1>0, <4>1, StaleSet
      <4>3. cs' = new
        BY <3>4, <4>1
      <4>4. QED
        BY <4>2, <4>3
    <3>9. \A j \in DOMAIN comps : j \in DOMAIN cs' /\ j # i =>
              j \in DOMAIN cs /\ ~ AtWork(j) /\ ~ Asked(j) /\ cs'[j] = cs[j]
      BY <1>a, <2>1, <3>8 DEF Asked
    <3>10. \A j \in DOMAIN comps : j \in DOMAIN cs' /\ j # i => IsBalanced(j)' /\ KeptTotals(j)'
      BY <1>0, <1>a, <2>1, <3>2, <3>7, <3>9, OthersStayBalanced
    <3>11. AllBalanced'
      BY <1>b, <2>1, <3>5, <3>10 DEF AllBalanced
    <3>12. KeptTotals(i)'
      BY <3>2, <3>8 DEF KeptTotals
    <3>13. AllKept'
      BY <2>1, <3>10, <3>12 DEF AllKept
    <3>14. QED
      BY <1>b, <2>1, <3>2, <3>5, <3>11, <3>13
  <2>4. QED
    BY <2>2, <2>3
<1>4. CASE MonitorTotals
  <2>1. PICK c, i, t : c = m.of /\ i = m.i /\ t = Balancing(c, LocalTotals(c), i, "assign", NoShare)
    OBVIOUS
  <2>2. c \in SUBSET PowerInterfaces /\ i \in Int /\ "assign" \in HandlerSteps
    BY <1>0, <2>1 DEF Monitor, HandlerSteps
  <2>3. /\ m.step = "total" /\ UNCHANGED <<comps, cs, desired, mode, cur>>
        /\ m' = [m EXCEPT !.step = "assign", !.totals = t]
    BY <1>4, <2>1 DEF MonitorTotals
  <2>4. m'.step = "assign" /\ m'.of = c /\ m'.i = i /\ m'.totals = t
    BY <1>0, <2>1, <2>3 DEF Monitor
  <2>5. TotalsFor(t, c, NoShare)
    BY <1>0, <2>1, <2>2, LocalTotalsFor
  <2>6. TotalsFor(t, c, NoShare)'
    BY <2>3, <2>5, TotalsStay
  <2>7. TotalsFor(m.totals, m.of, NoShare)'
    BY <2>4, <2>6 DEF TotalsFor, LocalTotals, DesiredSupplies, DesiredDemands
  <2>8. AllBalanced'
    BY <1>0, <1>a, <1>b, <2>1, <2>3, <2>4, StayBalanced
  <2>9. AllKept'
    BY <1>a, <2>3, StayKept DEF Asked, SameTotals
  <2>10. i \in DOMAIN comps /\ c = comps[i]
    BY <2>1, <2>3 DEF BalanceParts
  <2>11. QED
    BY <1>b, <2>3, <2>4, <2>7, <2>8, <2>9, <2>10
<1>5. CASE MonitorCurrents
  <2>1. PICK c, i, t : c = m.of /\ i = m.i /\ t = m.totals
    OBVIOUS
  <2>2. /\ m.step = "assign" /\ i \in DOMAIN comps /\ c = comps[i] /\ t \in Work
        /\ UNCHANGED <<comps, desired, mode>> /\ cur' = Assign(c, t) /\ m' = Asleep
        /\ TotalsFor(t, c, NoShare) /\ cs' = [cs EXCEPT ![i].share = NoShare]
    BY <1>0, <1>5, <2>1 DEF MonitorCurrents, BalanceParts, TotalsHold, Monitor
  <2>3. DOMAIN cs' = DOMAIN cs /\ \A j \in DOMAIN cs :
              /\ SameTotals(cs[j], cs'[j])
              /\ cs'[j].share = IF j = i THEN NoShare ELSE cs[j].share
              /\ j # i => cs'[j] = cs[j]
    <3>1. PICK new : new = [cs EXCEPT ![i].share = NoShare]
      OBVIOUS
    <3>2. DOMAIN new = DOMAIN cs /\ \A j \in DOMAIN cs :
              /\ SameTotals(cs[j], new[j])
              /\ new[j].share = IF j = i THEN NoShare ELSE cs[j].share
              /\ j # i => new[j] = cs[j]
      BY <1>0, <3>1, ShareSet, IdleType
    <3>3. cs' = new
      BY <2>2, <3>1
    <3>4. QED
      BY <3>2, <3>3
  <2>4. SideOf' = SideOf
    BY <2>2 DEF SideOf
  <2>5. \A a \in Appliance : <<a, 0>> \notin comps[i] =>
              desired'[a] = desired[a] /\ SideOf'[a] = SideOf[a] /\ cur'[a] = cur[a]
    BY <2>2, <2>4 DEF Assign, AppliancesIn
  <2>6. \A j \in DOMAIN comps : j \in DOMAIN cs' /\ j # i =>
              j \in DOMAIN cs /\ ~ AtWork(j) /\ ~ Asked(j) /\ cs'[j] = cs[j]
    BY <1>a, <2>1, <2>3 DEF Asked
  <2>7. \A j \in DOMAIN comps : j \in DOMAIN cs' /\ j # i => IsBalanced(j)'
    BY <1>0, <1>a, <2>2, <2>5, <2>6, OthersStayBalanced
  <2>8. BalancedAt(c, NoShare)'
    BY <1>0, <2>2, IdleType, AssignBalances DEF Work
  <2>9. i \in DOMAIN cs' => IsBalanced(i)'
    BY <2>2, <2>3, <2>8, BalancedObject
  <2>10. AllBalanced'
    BY <2>2, <2>7, <2>9 DEF AllBalanced
  <2>11. AllKept'
    BY <1>a, <2>2, <2>3, StayKept DEF Asked
  <2>12. QED
    BY <1>b, <1>c, <2>2, <2>10, <2>11
<1>6. QED
  BY <1>2, <1>3, <1>4, <1>5 DEF MonitorNext

LEMMA BalanceStep ==
    ASSUME HasLines, GridInv, GridInv', BalanceInv, [Next]_vars
    PROVE  BalanceInv'
<1> SUFFICES ASSUME ~ raced', status' = "running" PROVE BalanceParts'
  BY DEF BalanceInv
<1>0. m \in Monitor /\ Types
  BY DEF GridInv, Types
<1>1. CASE UNCHANGED vars
  <2>1. BalanceParts
    BY <1>1 DEF BalanceInv, vars
  <2>2. UNCHANGED <<comps, cs, desired, mode, cur, h, m>>
    BY <1>1 DEF vars
  <2>3. SideOf' = SideOf
    BY <2>2 DEF SideOf
  <2>4. QED
    BY <2>1, <2>2, <2>3 DEF BalanceParts, Quiet, AllBalanced, IsBalanced, AllKept, KeptTotals, Asked,
       AtWork, TotalsHold, TotalsFor, BalancedAt, Carry, LocalTotals, DesiredSupplies, DesiredDemands
<1>2. CASE AncillaryThreadsStart
  <2>1. /\ BalanceParts /\ h.step = "idle" /\ m.step = "unborn" /\ m'.step = "asleep" /\ h' = h
        /\ UNCHANGED <<comps, cs, desired, mode, cur>>
    BY <1>2 DEF AncillaryThreadsStart, HandlerFree, Asleep, BalanceInv
  <2>2. AllBalanced'
    BY <1>0, <2>1, IdleParts, IdleNext, StayBalanced DEF GridInv
  <2>3. AllKept'
    BY <2>1, IdleParts, StayKept DEF Asked, SameTotals
  <2>4. QED
    BY <2>1, <2>2, <2>3, IdleNext
<1>3. CASE MonitorNext
  <2>1. MonitorOverlaps /\ h' = h /\ status = "running"
    BY <1>3 DEF MonitorNext, MonitorRead, MonitorWrite, MonitorTotals, MonitorCurrents
  <2>2. ~ raced /\ h.step = "idle"
    BY <2>1 DEF MonitorOverlaps
  <2>3. BalanceParts /\ ~ m.lost
    BY <2>1, <2>2 DEF BalanceInv, GridInv, StepInv
  <2>4. QED
    BY <1>3, <2>1, <2>2, <2>3, MonitorBalances
<1>4. CASE \/ \E a \in Appliance : \E v \in Values[a] : UpdateAppliance(a, v)
           \/ \E a \in Storage, md \in Modes : UpdateStorage(a, md)
           \/ \E s \in Switch, f \in Flags : UpdateSwitch(s, f)
           \/ \E p \in LocalPis : DynamicConnectedSimulation(p)
           \/ \E enough \in BOOLEAN, part \in Parts : DynamicCoordinatedLoadUpdate(enough, part)
           \/ Rebuild \/ DfsVisit \/ FindConnectedComponents \/ Simulate \/ SimulateAppend
           \/ UpdateTotals \/ UpdateCurrents
           \/ \E enough \in BOOLEAN, part \in Parts : AskCoordinator(enough, part)
  <2>1. /\ \E allowed : Receives(allowed)
        /\ status = "running"
        /\ m' = m \/ m' = [m EXCEPT !.lost = m.step \in {"total", "assign"}]
    BY <1>4 DEF UpdateAppliance, UpdateStorage, UpdateSwitch, DynamicConnectedSimulation, Rebuild,
       DfsVisit, FindConnectedComponents, Simulate, SimulateAppend, UpdateTotals, UpdateCurrents,
       AskCoordinator, DynamicCoordinatedLoadUpdate, HandlerFree, Overlaps
  <2>2. ~ raced /\ m.step \in {"unborn", "asleep"}
    BY <2>1 DEF Receives
  <2>3. m'.step = m.step
    BY <1>0, <2>1 DEF Monitor
  <2>4. BalanceParts /\ Quiet
    BY <2>1, <2>2 DEF BalanceInv, Quiet
  <2>5. QED
    BY <1>4, <2>2, <2>3, <2>4, HandlerBalances
<1>5. QED
  BY <1>1, <1>2, <1>3, <1>4 DEF Next

(* Between updates, and before the monitor was ever at work together with  *)
(* a handler, what a component's appliances supply is what they use, as    *)
(* much as the scarcer side desires; a component that has joined uses or   *)
(* supplies the share the coordinator answered or pushed, also when the    *)
(* push comes long after the totals it is divided by were kept, unless the *)
(* monitor stopped a storage of it since.                                  *)
THEOREM LoadsAreBalanced == ASSUME HasLines PROVE Spec => []SupplyMeetsDemand
<1>1. Init => BalanceInv
  <2>1. ASSUME Init PROVE BalanceParts
    <3>1. h.step = "rebuild" /\ m.step = "unborn" /\ comps = <<>>
      BY <2>1, StartType DEF Init, Asleep
    <3>2. QED
      BY <3>1 DEF BalanceParts, Quiet, AllBalanced, AllKept, TotalsHold
  <2>2. QED
    BY <2>1 DEF BalanceInv
<1>2. GridInv /\ GridInv' /\ BalanceInv /\ [Next]_vars => BalanceInv'
  BY BalanceStep
<1>3. GridInv /\ BalanceInv => SupplyMeetsDemand
  <2>1. ASSUME GridInv, BalanceInv, AtRest, ~ raced, m.step \in {"asleep", "read"},
               NEW i \in DOMAIN comps, ~ (cs[i].stale /\ cs[i].share.told)
        PROVE  BalancedAt(comps[i], cs[i].share)
    <3>1. BalanceParts /\ h.step = "idle" /\ Len(cs) >= Len(comps)
      BY <2>1 DEF BalanceInv, AtRest, HandlerFree, GridInv, StepInv, Aligned
    <3>2. /\ Len(cs) \in Nat /\ DOMAIN cs = 1 .. Len(cs)
          /\ Len(comps) \in Nat /\ DOMAIN comps = 1 .. Len(comps)
      BY <2>1, LenProperties DEF GridInv, Types
    <3>3. i \in DOMAIN cs
      BY <3>1, <3>2
    <3>4. ~ AtWork(i)
      BY <2>1, <3>1 DEF AtWork
    <3>5. QED
      BY <2>1, <3>1, <3>3, <3>4 DEF BalanceParts, AllBalanced, IsBalanced
  <2>2. QED
    BY <2>1 DEF SupplyMeetsDemand
<1>4. QED
  BY <1>1, <1>2, <1>3, GridInvariant, PTL DEF Spec
=============================================================================
