-------------------------- MODULE PowerSlaveProofs --------------------------
(***************************************************************************)
(* Proofs about PowerSlave for every set of components, every split of     *)
(* their interfaces over slaves and every vector: what a component gets    *)
(* from slaves that it has to itself.                                      *)
(***************************************************************************)
EXTENDS PowerSlave, WellFoundedInduction, SequenceTheorems, TLAPS

(* Where the blocks start.                                                 *)
LEMMA LeastNumber ==
    ASSUME NEW T, T \subseteq Nat, T # {}
    PROVE  \E m \in T : \A k \in T : m <= k
<1>1. PICK m \in T : \A k \in T : ~ (<<k, m>> \in OpToRel(<, Nat))
  BY NatLessThanWellFounded, WFMin
<1>2. \A k \in T : ~ k < m
  BY <1>1 DEF OpToRel
<1>3. QED
  BY <1>2

(* g has the running sums of b, up to the m-th.                            *)
Sums(g, b, m) ==
    /\ g \in [1 .. m -> Nat]
    /\ \A s \in 1 .. m : g[s] = IF s = 1 THEN 0 ELSE g[s - 1] + b[s - 1]

LEMMA SumsExist ==
    ASSUME NEW b \in Seq(Nat), NEW n \in Nat, n >= 1, n <= Len(b) + 1
    PROVE  \E g : Sums(g, b, n)
<1> DEFINE T == {m \in Nat : m >= 1 /\ m <= Len(b) + 1 /\ ~ \E g : Sums(g, b, m)}
<1>1. SUFFICES ASSUME T # {} PROVE FALSE
  OBVIOUS
<1>2. PICK m \in T : \A k \in T : m <= k
  BY <1>1, LeastNumber
<1>3. m \in Nat /\ m >= 1 /\ m <= Len(b) + 1 /\ ~ \E g : Sums(g, b, m)
  OBVIOUS
<1>4. CASE m = 1
  <2> DEFINE g == [s \in 1 .. m |-> 0]
  <2>1. Sums(g, b, m)
    BY <1>4 DEF Sums
  <2> QED
    BY <1>3, <2>1
<1>5. CASE m # 1
  <2>1. m - 1 \in Nat /\ m - 1 \notin T
    BY <1>2, <1>3, <1>5
  <2>2. PICK g : Sums(g, b, m - 1)
    BY <1>3, <1>5, <2>1
  <2>3. b[m - 1] \in Nat /\ g[m - 1] \in Nat
    BY <1>3, <1>5, <2>2 DEF Sums
  <2> DEFINE e == [s \in 1 .. m |-> IF s = m THEN g[m - 1] + b[m - 1] ELSE g[s]]
  <2>4. e \in [1 .. m -> Nat]
    BY <1>3, <1>5, <2>2, <2>3 DEF Sums
  <2>5. ASSUME NEW s \in 1 .. m
        PROVE  e[s] = IF s = 1 THEN 0 ELSE e[s - 1] + b[s - 1]
    BY <1>3, <1>5, <2>2 DEF Sums
  <2> HIDE DEF e
  <2>6. Sums(e, b, m)
    BY <2>4, <2>5 DEF Sums
  <2> QED
    BY <1>3, <2>6
<1>6. QED
  BY <1>4, <1>5

LEMMA StartIndexIs ==
    ASSUME NEW c \in Component
    PROVE  Sums(StartIndex[c], Blocks[c], Len(Blocks[c]) + 1)
<1> DEFINE b == Blocks[c]
           n == Len(b) + 1
           step(f, s) == IF s = 1 THEN 0 ELSE f[s - 1] + b[s - 1]
           start == CHOOSE f : f = [s \in 1 .. n |-> step(f, s)]
<1>1. StartIndex[c] = start
  BY DEF StartIndex
<1>2. b \in Seq(Nat) /\ n \in Nat /\ n >= 1 /\ n <= Len(b) + 1
  BY SlaveAssumption
<1>3. PICK g : Sums(g, b, n)
  <2> HIDE DEF b
  <2> QED
    BY <1>2, SumsExist
<1>4. g = [s \in 1 .. n |-> step(g, s)]
  BY <1>3 DEF Sums
<1>5. start = [s \in 1 .. n |-> step(start, s)]
  <2> HIDE DEF step, n
  <2> QED
    BY <1>4
<1> HIDE DEF start, b
<1>6. \A s \in 1 .. n : start[s] = g[s]
  <2> DEFINE T == {s \in 1 .. n : start[s] # g[s]}
  <2>1. SUFFICES ASSUME T # {} PROVE FALSE
    OBVIOUS
  <2>2. T \subseteq Nat
    OBVIOUS
  <2> HIDE DEF T
  <2>3. PICK s \in T : \A k \in T : s <= k
    BY <2>1, <2>2, LeastNumber
  <2> USE DEF T
  <2>4. s \in 1 .. n /\ start[s] # g[s]
    OBVIOUS
  <2>5. start[s] = step(start, s) /\ g[s] = step(g, s)
    <3> HIDE DEF step
    <3> QED
      BY <1>4, <1>5, <2>4
  <2>6. CASE s = 1
    BY <2>4, <2>5, <2>6
  <2>7. CASE s # 1
    <3>1. s - 1 \in 1 .. n /\ s - 1 \notin T
      <4>1. s - 1 \in 1 .. n /\ ~ s <= s - 1
        BY <1>2, <2>4, <2>7
      <4> QED
        BY <2>3, <4>1
    <3>2. start[s - 1] = g[s - 1]
      BY <3>1
    <3> HIDE DEF T
    <3> QED
      BY <2>4, <2>5, <2>7, <3>2
  <2> QED
    BY <2>6, <2>7
<1>7. start = g
  <2> HIDE DEF step
  <2> QED
    BY <1>4, <1>5, <1>6
<1>8. QED
  BY <1>1, <1>3, <1>7 DEF b
LEMMA Lengths ==
    ASSUME NEW c \in Component
    PROVE  /\ Len(Blocks[c]) \in Nat /\ Len(Blocks[c]) >= 1
           /\ DOMAIN Blocks[c] = 1 .. Len(Blocks[c])
           /\ Slaves = 1 .. Len(Blocks[c])
           /\ \A s \in Slaves : Blocks[c][s] \in Nat /\ Blocks[c][s] >= 1
<1>1. \A d \in Component :
         /\ Blocks[d] \in Seq(Nat \ {0}) /\ Blocks[d] # << >>
         /\ Len(Blocks[d]) = Len(Blocks[c])
  BY SlaveAssumption
<1>2. \A d \in Component :
         /\ Len(Blocks[d]) \in Nat
         /\ DOMAIN Blocks[d] = 1 .. Len(Blocks[c])
  BY <1>1
<1>3. Len(Blocks[c]) >= 1
  BY <1>1, <1>2, EmptySeq
<1>4. Slaves = 1 .. Len(Blocks[c])
  BY <1>2 DEF Slaves
<1>5. \A s \in Slaves : Blocks[c][s] \in Nat \ {0}
  BY <1>1, <1>2, <1>4
<1>6. QED
  BY <1>2, <1>3, <1>4, <1>5

(* A block ends where the next one starts, the last at SwitchPi.           *)
LEMMA Starts ==
    ASSUME NEW c \in Component
    PROVE  /\ StartIndex[c][1] = 0
           /\ SwitchPi[c] = StartIndex[c][Len(Blocks[c]) + 1] /\ SwitchPi[c] \in Nat
           /\ \A s \in Slaves :
                 /\ StartIndex[c][s] \in Nat
                 /\ StartIndex[c][s + 1] = StartIndex[c][s] + Blocks[c][s]
<1>1. Sums(StartIndex[c], Blocks[c], Len(Blocks[c]) + 1)
  BY StartIndexIs
<1>2. SwitchPi[c] = StartIndex[c][Len(Blocks[c]) + 1]
  BY DEF SwitchPi
<1>3. PICK n \in Nat : n = Len(Blocks[c]) /\ n >= 1 /\ Slaves = 1 .. n
  BY Lengths
<1>4. Sums(StartIndex[c], Blocks[c], n + 1)
  BY <1>1, <1>3
<1>5. \A s \in 1 .. n + 1 :
         /\ StartIndex[c][s] \in Nat
         /\ StartIndex[c][s] = IF s = 1 THEN 0 ELSE StartIndex[c][s - 1] + Blocks[c][s - 1]
  BY <1>4 DEF Sums
<1>6. ASSUME NEW s \in Slaves
      PROVE  StartIndex[c][s + 1] = StartIndex[c][s] + Blocks[c][s]
  <2>1. s \in Nat /\ s >= 1 /\ s <= n /\ s + 1 \in 1 .. n + 1 /\ s + 1 # 1 /\ (s + 1) - 1 = s
    BY <1>3
  <2> QED
    BY <1>5, <2>1
<1>7. \A s \in Slaves : s \in 1 .. n + 1
  BY <1>3
<1>8. 1 \in 1 .. n + 1 /\ n + 1 \in 1 .. n + 1
  BY <1>3
<1>9. QED
  BY <1>2, <1>3, <1>5, <1>6, <1>7, <1>8

LEMMA BeforeTheLast ==
    ASSUME NEW c \in Component, NEW s \in Slaves, s # Len(Blocks[c])
    PROVE  StartIndex[c][s + 1] < SwitchPi[c]
<1>1. PICK n \in Nat : n = Len(Blocks[c]) /\ n >= 1 /\ Slaves = 1 .. n
  BY Lengths
<1> DEFINE T == {k \in Nat : k >= 1 /\ k <= n /\ ~ StartIndex[c][(n + 1) - k] < SwitchPi[c]}
<1>2. ASSUME T # {} PROVE FALSE
  <2>1. T \subseteq Nat
    OBVIOUS
  <2>2. PICK k \in T : \A j \in T : k <= j
    BY <1>2, <2>1, LeastNumber
  <2>3. k \in Nat /\ k >= 1 /\ k <= n /\ ~ StartIndex[c][(n + 1) - k] < SwitchPi[c]
    OBVIOUS
  <2>4. PICK t \in Nat : t = (n + 1) - k /\ t >= 1 /\ t <= n /\ t \in Slaves
    BY <1>1, <2>3
  <2>5. PICK x \in Nat, y \in Nat, z \in Nat :
           /\ x = StartIndex[c][t] /\ y = Blocks[c][t] /\ y >= 1
           /\ StartIndex[c][t + 1] = x + y /\ SwitchPi[c] = z
    <3>1. /\ StartIndex[c][t] \in Nat /\ SwitchPi[c] \in Nat
          /\ StartIndex[c][t + 1] = StartIndex[c][t] + Blocks[c][t]
      BY <2>4, Starts
    <3>2. Blocks[c][t] \in Nat /\ Blocks[c][t] >= 1
      BY <2>4, Lengths
    <3> QED
      BY <3>1, <3>2
  <2>6. x < x + y /\ ~ x < z
    BY <2>3, <2>4, <2>5
  <2>7. CASE k = 1
    <3>1. t + 1 = n + 1
      BY <1>1, <2>3, <2>4, <2>7
    <3>2. SwitchPi[c] = StartIndex[c][n + 1]
      BY <1>1, Starts
    <3>3. z = x + y
      BY <2>5, <3>1, <3>2
    <3> QED
      BY <2>6, <3>3
  <2>8. CASE k # 1
    <3>1. PICK j \in Nat : j = k - 1 /\ j >= 1 /\ j <= n /\ t + 1 = (n + 1) - j /\ ~ k <= j
      BY <1>1, <2>3, <2>4, <2>8
    <3>2. j \notin T
      BY <2>2, <3>1
    <3>3. StartIndex[c][t + 1] < SwitchPi[c]
      BY <3>1, <3>2
    <3>4. x + y < z
      BY <2>5, <3>3
    <3> QED
      BY <2>5, <2>6, <3>4
  <2> QED
    BY <2>7, <2>8
<1>3. PICK k \in Nat : k = n - s /\ k >= 1 /\ k <= n /\ s + 1 = (n + 1) - k
  <2>1. s \in Nat /\ s >= 1 /\ s <= n /\ s # n
    BY <1>1
  <2>2. n - s \in Nat /\ n - s >= 1 /\ n - s <= n /\ s + 1 = (n + 1) - (n - s)
    BY <2>1
  <2> QED
    BY <2>2
<1>4. k \notin T
  BY <1>2
<1>5. QED
  BY <1>3, <1>4

(* The slave of the last block has one row less than its block, every      *)
(* other as many.                                                          *)
LEMMA Counts ==
    ASSUME NEW c \in Component, NEW s \in Slaves
    PROVE  /\ Count(c, s) \in Nat
           /\ Count(c, s) = IF s = Len(Blocks[c]) THEN Blocks[c][s] - 1 ELSE Blocks[c][s]
<1>1. PICK n \in Nat : n = Len(Blocks[c]) /\ n >= 1 /\ Slaves = 1 .. n
  BY Lengths
<1>2. Blocks[c][s] \in Nat /\ Blocks[c][s] >= 1
  BY Lengths
<1>3. StartIndex[c][s + 1] = StartIndex[c][s] + Blocks[c][s]
  BY Starts
<1>4. s = n <=> StartIndex[c][s + 1] = SwitchPi[c]
  <2>1. s = n => StartIndex[c][s + 1] = SwitchPi[c]
    BY <1>1, Starts
  <2>2. s # n => StartIndex[c][s + 1] < SwitchPi[c] /\ SwitchPi[c] \in Nat
    BY <1>1, BeforeTheLast, Starts
  <2> QED
    BY <2>1, <2>2
<1>5. QED
  BY <1>1, <1>2, <1>3, <1>4 DEF Count

LEMMA RowsOfBlock ==
    ASSUME NEW c \in Component, NEW s \in Slaves, NEW r \in 0 .. Count(c, s) - 1
    PROVE  StartIndex[c][s] + r \in Rows(c)
<1>1. PICK n \in Nat : n = Len(Blocks[c]) /\ Slaves = 1 .. n
  BY Lengths
<1>2. PICK x \in Nat, y \in Nat, z \in Nat :
         /\ x = StartIndex[c][s] /\ y = Blocks[c][s] /\ z = SwitchPi[c]
         /\ StartIndex[c][s + 1] = x + y
  BY Starts, Lengths
<1>3. CASE s = n
  <2>1. x + y = z
    BY <1>1, <1>2, <1>3, Starts
  <2>2. r \in 0 .. (y - 1) - 1
    BY <1>1, <1>2, <1>3, Counts
  <2> QED
    BY <1>2, <2>1, <2>2 DEF Rows
<1>4. CASE s # n
  <2>1. x + y < z
    BY <1>1, <1>2, <1>4, BeforeTheLast
  <2>2. r \in 0 .. y - 1
    BY <1>1, <1>2, <1>4, Counts
  <2> QED
    BY <1>2, <2>1, <2>2 DEF Rows
<1>5. QED
  BY <1>3, <1>4

(* A row before the end of a block is before its start or in the block.    *)
LEMMA NextBlock ==
    ASSUME NEW c \in Component, NEW s \in Slaves, NEW r \in Rows(c),
           s = Len(Blocks[c]) \/ r < StartIndex[c][s + 1]
    PROVE  r < StartIndex[c][s] \/ r \in Answered(c, s, Count(c, s))
<1>1. PICK x \in Nat, y \in Nat, z \in Nat, n \in Nat :
         /\ x = StartIndex[c][s] /\ y = Blocks[c][s] /\ z = SwitchPi[c] /\ n = Count(c, s)
         /\ StartIndex[c][s + 1] = x + y
         /\ n = IF s = Len(Blocks[c]) THEN y - 1 ELSE y
  <2>1. /\ StartIndex[c][s] \in Nat /\ SwitchPi[c] \in Nat
        /\ StartIndex[c][s + 1] = StartIndex[c][s] + Blocks[c][s]
    BY Starts
  <2>2. Blocks[c][s] \in Nat
    BY Lengths
  <2>3. /\ Count(c, s) \in Nat
        /\ Count(c, s) = IF s = Len(Blocks[c]) THEN Blocks[c][s] - 1 ELSE Blocks[c][s]
    BY Counts
  <2> QED
    BY <2>1, <2>2, <2>3
<1>2. r \in Nat /\ r <= z - 2
  BY <1>1 DEF Rows
<1>3. r < x + n
  <2>1. CASE s = Len(Blocks[c])
    <3>1. z = x + y
      BY <1>1, <2>1, Starts
    <3>2. n = y - 1
      BY <1>1, <2>1
    <3> QED
      BY <1>2, <3>1, <3>2
  <2>2. CASE s # Len(Blocks[c])
    <3>1. r < x + y
      BY <1>1, <2>2
    <3>2. n = y
      BY <1>1, <2>2
    <3> QED
      BY <3>1, <3>2
  <2> QED
    BY <2>1, <2>2
<1>4. SUFFICES ASSUME ~ r < x PROVE r \in Answered(c, s, n)
  BY <1>1
<1>5. PICK i \in Nat : i = r
  BY <1>2
<1>6. PICK k \in 0 .. n - 1 : x + k = r
  <2>1. i < x + n /\ ~ i < x
    BY <1>3, <1>4, <1>5
  <2>2. i - x \in 0 .. n - 1 /\ x + (i - x) = i
    BY <2>1
  <2> QED
    BY <1>5, <2>2
<1>7. QED
  BY <1>1, <1>6 DEF Answered

(* What a slave makes of what is sent of a vector: the vector's row where  *)
(* that is not zero.                                                       *)
Tells(v, c, s, w) ==
    \A r \in 0 .. Count(c, s) - 1 :
        v[StartIndex[c][s] + r] # 0 => w[r] = v[StartIndex[c][s] + r]

LEMMA SentFits ==
    ASSUME NEW c \in Component, NEW s \in Slaves, NEW v
    PROVE  /\ DOMAIN Sent(v, c, s) \subseteq 0 .. Count(c, s) - 1
           /\ \A w : DOMAIN w = 0 .. Count(c, s) - 1 => Tells(v, c, s, SetRows(w, Sent(v, c, s)))
           /\ \A r \in DOMAIN Sent(v, c, s) : Sent(v, c, s)[r] = v[StartIndex[c][s] + r]
<1> DEFINE C == 0 .. Count(c, s) - 1
           block == [r \in C |-> v[StartIndex[c][s] + r]]
           some == {r \in C : block[r] # 0}
<1>1. Sent(v, c, s) = [r \in some |-> block[r]]
  BY DEF Sent, Restrict
<1>2. DOMAIN Sent(v, c, s) = some
        /\ \A r \in some : Sent(v, c, s)[r] = v[StartIndex[c][s] + r]
  BY <1>1
<1>3. ASSUME NEW w, DOMAIN w = C, NEW r \in C, v[StartIndex[c][s] + r] # 0
      PROVE  SetRows(w, Sent(v, c, s))[r] = v[StartIndex[c][s] + r]
  <2>1. r \in some
    BY <1>3
  <2>2. SetRows(w, Sent(v, c, s))[r] = Sent(v, c, s)[r]
    BY <1>2, <1>3, <2>1 DEF SetRows
  <2> QED
    BY <1>2, <2>1, <2>2
<1>4. QED
  BY <1>2, <1>3 DEF Tells
-----------------------------------------------------------------------------
(* The inductive invariant: the types, what is known of the history, and   *)
(* what a component that is alone has at its slaves.                       *)
Pre(p) ==
    /\ p = [of |-> p.of, n |-> p.n, I |-> p.I, second |-> p.second, Ix |-> p.Ix]
    /\ p.of \in Component \cup {None} /\ p.n \in Nat /\ p.second \in BOOLEAN
    /\ p.I \in [0 .. p.n - 1 -> Int]
    /\ p.second => p.Ix \in [0 .. p.n - 1 -> Int]

State(c) == [phase : {"idle", "first", "second", "exit"}, full : BOOLEAN, at : Slaves,
             I : Vectors[c], x : Vectors[c]]

Types ==
    /\ calc = [c \in Component |-> calc[c]] /\ \A c \in Component : calc[c] \in State(c)
    /\ volts = [c \in Component |-> volts[c]]
    /\ \A c \in Component : volts[c] \in [Rows(c) -> Component \cup {None}]
    /\ slave = [s \in Slaves |-> slave[s]] /\ \A s \in Slaves : Pre(slave[s])
    /\ up \subseteq Slaves /\ restarts \in 0 .. MaxRestarts
    /\ users = [s \in Slaves |-> users[s]]
    /\ heard = [s \in Slaves |-> heard[s]]
    /\ \A s \in Slaves : heard[s] \in {None} \cup {Home[c] : c \in Component}

(* A component that has finished a first phase was read by every slave     *)
(* that still runs, as long as none was started again.                     *)
Read(c, s) == s \in up => c \in users[s]

Began(c) ==
    restarts = 0 =>
        /\ calc[c].phase = "first" /\ calc[c].full =>
              \A s \in Slaves : s < calc[c].at => Read(c, s)
        /\ \/ calc[c].phase = "second"
           \/ calc[c].phase = "first" /\ ~ calc[c].full
           \/ calc[c].phase = "idle" /\ calc[c].full
           => \A s \in Slaves : Read(c, s)

(* A slave that has read a request of a component that is alone keeps its  *)
(* address.                                                                *)
Known(c) ==
    Alone(c) =>
        \A s \in up : c \in users[s] => s \in Loopback[c] \/ heard[s] = Home[c]

Has(c, s) == slave[s].of = c /\ slave[s].n = Count(c, s) /\ Count(c, s) > 0

(* The calculation of c is at the slaves that it has asked so far, and     *)
(* these have been told of its vector.                                     *)
AtSlaves(c) ==
    \A s \in up :
        /\ calc[c].phase = "first" /\ calc[c].full /\ s < calc[c].at =>
              Has(c, s) /\ ~ slave[s].second /\ Tells(calc[c].I, c, s, slave[s].I)
        /\ calc[c].phase = "first" /\ ~ calc[c].full =>
              /\ Has(c, s) /\ slave[s].second
              /\ s < calc[c].at => Tells(calc[c].I, c, s, slave[s].I)
        /\ calc[c].phase = "second" =>
              /\ Has(c, s) /\ Tells(calc[c].I, c, s, slave[s].I)
              /\ slave[s].second <=> ~ calc[c].full \/ s < calc[c].at
        /\ calc[c].phase = "idle" /\ calc[c].full => Has(c, s) /\ slave[s].second

(* The voltages of the blocks that were answered for are the component's.  *)
VoltsSoFar(c) ==
    /\ calc[c].phase = "second" =>
          \A r \in Rows(c) : r < StartIndex[c][calc[c].at] => volts[c][r] = c
    /\ calc[c].phase = "idle" /\ calc[c].full => \A r \in Rows(c) : volts[c][r] = c

Excused(c) ==
    \E s \in Slaves : Count(c, s) = 0 \/ (s \notin up /\ c \notin users[s])

Served(c) ==
    Alone(c) => IF c \in broken THEN Excused(c) ELSE AtSlaves(c) /\ VoltsSoFar(c)

SlaveInv == Types /\ \A c \in Component : Began(c) /\ Known(c) /\ Served(c)

-----------------------------------------------------------------------------
LEMMA NoneApart == None \notin Component
  BY SlaveAssumption

LEMMA VectorValues ==
    ASSUME NEW c \in Component, NEW v \in Vectors[c], NEW s \in Slaves,
           NEW r \in DOMAIN Sent(v, c, s)
    PROVE  Sent(v, c, s)[r] \in Int
<1>1. Values[c] \subseteq Int /\ v \in [Rows(c) -> Values[c]]
  BY SlaveAssumption DEF Vectors
<1>2. r \in 0 .. Count(c, s) - 1
  BY SentFits
<1>3. StartIndex[c][s] + r \in Rows(c) /\ Sent(v, c, s)[r] = v[StartIndex[c][s] + r]
  BY <1>2, RowsOfBlock, SentFits
<1>4. QED
  BY <1>1, <1>3

LEMMA RowsTyped ==
    ASSUME NEW n \in Nat, NEW w \in [0 .. n - 1 -> Int], NEW rows,
           \A r \in DOMAIN rows : rows[r] \in Int
    PROVE  SetRows(w, rows) \in [0 .. n - 1 -> Int]
  BY DEF SetRows

LEMMA ZerosTyped ==
    ASSUME NEW n \in Nat
    PROVE  Zeros(n) \in [0 .. n - 1 -> Int]
  BY DEF Zeros

LEMMA NoPreTyped == Pre(NoPre)
<1>1. << >> \in [0 .. 0 - 1 -> Int]
  OBVIOUS
<1>2. QED
  BY <1>1 DEF Pre, NoPre

(* The fields of the slave's object after each request.                    *)
LEMMA FirstTyped ==
    ASSUME NEW c \in Component, NEW n \in Nat, NEW rows,
           \A r \in DOMAIN rows : rows[r] \in Int
    PROVE  LET p == FirstPhase(c, n, rows)
           IN Pre(p) /\ p.of = c /\ p.n = n /\ ~ p.second /\ p.I = SetRows(Zeros(n), rows)
<1>1. PICK i : i = SetRows(Zeros(n), rows) /\ i \in [0 .. n - 1 -> Int]
  BY ZerosTyped, RowsTyped
<1>2. FirstPhase(c, n, rows) = [of |-> c, n |-> n, I |-> i, second |-> FALSE, Ix |-> << >>]
  BY <1>1 DEF FirstPhase
<1>3. QED
  BY <1>1, <1>2 DEF Pre

LEMMA SecondTyped ==
    ASSUME NEW p, Pre(p), NEW rows, \A r \in DOMAIN rows : rows[r] \in Int
    PROVE  LET q == SecondPhase(p, rows)
           IN Pre(q) /\ q.of = p.of /\ q.n = p.n /\ q.second /\ q.I = p.I
<1>1. PICK i : i = SetRows(Zeros(p.n), rows) /\ i \in [0 .. p.n - 1 -> Int]
  BY ZerosTyped, RowsTyped DEF Pre
<1>2. SecondPhase(p, rows) = [of |-> p.of, n |-> p.n, I |-> p.I, second |-> TRUE, Ix |-> i]
  <2>1. PICK a, b, d, e, f : p = [of |-> a, n |-> b, I |-> d, second |-> e, Ix |-> f]
    BY DEF Pre
  <2>2. p.of = a /\ p.n = b /\ p.I = d /\ p.second = e
    BY <2>1
  <2>3. SecondPhase(p, rows) = [p EXCEPT !.Ix = i, !.second = TRUE]
    BY <1>1 DEF SecondPhase
  <2> QED
    BY <2>1, <2>2, <2>3
<1>3. QED
  BY <1>1, <1>2 DEF Pre

LEMMA UpdateFirstTyped ==
    ASSUME NEW p, Pre(p), NEW rows, \A r \in DOMAIN rows : rows[r] \in Int
    PROVE  LET q == UpdateFirst(p, rows)
           IN Pre(q) /\ q.of = p.of /\ q.n = p.n /\ q.second = p.second
              /\ q.I = SetRows(p.I, rows)
<1>1. PICK i : i = SetRows(p.I, rows) /\ i \in [0 .. p.n - 1 -> Int]
  BY RowsTyped DEF Pre
<1>2. UpdateFirst(p, rows) = [of |-> p.of, n |-> p.n, I |-> i, second |-> p.second, Ix |-> p.Ix]
  BY <1>1 DEF UpdateFirst, Pre
<1>3. QED
  BY <1>1, <1>2 DEF Pre

LEMMA UpdateSecondTyped ==
    ASSUME NEW p, Pre(p), p.second, NEW rows, \A r \in DOMAIN rows : rows[r] \in Int
    PROVE  LET q == UpdateSecond(p, rows)
           IN Pre(q) /\ q.of = p.of /\ q.n = p.n /\ q.second = p.second /\ q.I = p.I
<1>1. PICK i : i = SetRows(p.Ix, rows) /\ i \in [0 .. p.n - 1 -> Int]
  BY RowsTyped DEF Pre
<1>2. UpdateSecond(p, rows) = [of |-> p.of, n |-> p.n, I |-> p.I, second |-> p.second, Ix |-> i]
  <2>1. PICK a, b, d, e, f : p = [of |-> a, n |-> b, I |-> d, second |-> e, Ix |-> f]
    BY DEF Pre
  <2>2. p.of = a /\ p.n = b /\ p.I = d /\ p.second = e
    BY <2>1
  <2>3. UpdateSecond(p, rows) = [p EXCEPT !.Ix = i]
    BY <1>1 DEF UpdateSecond
  <2> QED
    BY <2>1, <2>2, <2>3
<1>3. QED
  BY <1>1, <1>2 DEF Pre

-----------------------------------------------------------------------------
(* One component's calculation moves on.                                   *)
CalcTyped ==
    calc = [c \in Component |-> calc[c]] /\ \A c \in Component : calc[c] \in State(c)

OnlyCalc(c, k) ==
    calc' = [d \in Component |-> IF d = c THEN k ELSE calc[d]]

LEMMA CalcMoves ==
    ASSUME CalcTyped, NEW c \in Component, NEW k \in State(c), OnlyCalc(c, k)
    PROVE  CalcTyped' /\ calc'[c] = k /\ \A d \in Component : d # c => calc'[d] = calc[d]
  BY DEF CalcTyped, OnlyCalc, State

LEMMA BeginMoves ==
    ASSUME CalcTyped, NEW c \in Component, NEW v \in Vectors[c], NEW f \in BOOLEAN,
           calc' = [calc EXCEPT ![c] = [phase |-> "first", full |-> f, at |-> 1, I |-> v, x |-> v]]
    PROVE  /\ CalcTyped'
           /\ calc'[c].phase = "first" /\ calc'[c].full = f /\ calc'[c].at = 1 /\ calc'[c].I = v
           /\ \A d \in Component : d # c => calc'[d] = calc[d]
<1>1. PICK k : k = [phase |-> "first", full |-> f, at |-> 1, I |-> v, x |-> v]
  OBVIOUS
<1>2. 1 \in Slaves
  BY Lengths
<1>3. k \in State(c) /\ k.phase = "first" /\ k.full = f /\ k.at = 1 /\ k.I = v
  BY <1>1, <1>2 DEF State
<1>4. OnlyCalc(c, k)
  BY <1>1 DEF OnlyCalc, CalcTyped
<1>5. QED
  BY <1>3, <1>4, CalcMoves

LEMMA PhaseMoves ==
    ASSUME CalcTyped, NEW c \in Component, calc' = [calc EXCEPT ![c].phase = "exit"]
    PROVE  /\ CalcTyped' /\ calc'[c].phase = "exit"
           /\ \A d \in Component : d # c => calc'[d] = calc[d]
<1>1. PICK k : k = [calc[c] EXCEPT !.phase = "exit"]
  OBVIOUS
<1>2. k \in State(c) /\ k.phase = "exit"
  BY <1>1 DEF State, CalcTyped
<1>3. OnlyCalc(c, k)
  BY <1>1 DEF OnlyCalc, CalcTyped
<1>4. QED
  BY <1>2, <1>3, CalcMoves

(* After the last slave of a phase, the next phase; after that, the end.   *)
NextPhase(k, j, last) ==
    /\ j.I = k.I
    /\ k.at # last => j.at = k.at + 1 /\ j.phase = k.phase /\ j.full = k.full
    /\ k.at = last /\ k.phase = "first" => j.at = 1 /\ j.phase = "second" /\ j.full = k.full
    /\ k.at = last /\ k.phase = "second" => j.phase = "idle" /\ j.full

LEMMA AgainMoves ==
    ASSUME CalcTyped, NEW c \in Component, NEW x \in Vectors[c], Again(c, x)
    PROVE  /\ CalcTyped' /\ NextPhase(calc[c], calc'[c], Len(Blocks[c]))
           /\ \A d \in Component : d # c => calc'[d] = calc[d]
<1>1. PICK k : k = calc[c] /\ k \in State(c)
  BY DEF CalcTyped
<1>2. PICK n \in Nat : n = Len(Blocks[c]) /\ n >= 1 /\ Slaves = 1 .. n
  BY Lengths
<1>3. PICK j : j = IF k.at < n THEN [k EXCEPT !.at = k.at + 1]
                   ELSE IF k.phase = "first" THEN [k EXCEPT !.phase = "second", !.at = 1, !.x = x]
                   ELSE [k EXCEPT !.phase = "idle", !.full = TRUE]
  OBVIOUS
<1>4. OnlyCalc(c, j)
  <2>1. calc' = [calc EXCEPT ![c] = j]
    BY <1>1, <1>2, <1>3 DEF Again
  <2> QED
    BY <2>1 DEF OnlyCalc, CalcTyped
<1>5. k.at \in 1 .. n
  BY <1>1, <1>2 DEF State
<1>6. CASE k.at < n
  <2>1. j = [k EXCEPT !.at = k.at + 1] /\ k.at + 1 \in 1 .. n /\ k.at # n
    BY <1>3, <1>5, <1>6
  <2>2. j \in State(c) /\ NextPhase(k, j, n)
    BY <1>1, <1>2, <2>1 DEF State, NextPhase
  <2> QED
    BY <1>1, <1>2, <1>4, <2>2, CalcMoves
<1>7. CASE ~ k.at < n /\ k.phase = "first"
  <2>1. j = [k EXCEPT !.phase = "second", !.at = 1, !.x = x] /\ 1 \in 1 .. n /\ k.at = n
    BY <1>2, <1>3, <1>5, <1>7
  <2>2. j \in State(c) /\ NextPhase(k, j, n)
    BY <1>1, <1>2, <1>7, <2>1 DEF State, NextPhase
  <2> QED
    BY <1>1, <1>2, <1>4, <2>2, CalcMoves
<1>8. CASE ~ k.at < n /\ k.phase # "first"
  <2>1. j = [k EXCEPT !.phase = "idle", !.full = TRUE] /\ k.at = n
    BY <1>2, <1>3, <1>5, <1>8
  <2>2. j \in State(c) /\ NextPhase(k, j, n)
    BY <1>1, <1>2, <1>8, <2>1 DEF State, NextPhase
  <2> QED
    BY <1>1, <1>2, <1>4, <2>2, CalcMoves
<1>9. QED
  BY <1>6, <1>7, <1>8
LEMMA SlaveMoves ==
    ASSUME Types, NEW s \in Slaves, NEW p, slave' = [slave EXCEPT ![s] = p]
    PROVE  /\ slave' = [t \in Slaves |-> slave'[t]]
           /\ slave'[s] = p /\ \A t \in Slaves : t # s => slave'[t] = slave[t]
           /\ Pre(p) => \A t \in Slaves : Pre(slave'[t])
<1>1. slave = [t \in Slaves |-> slave[t]] /\ \A t \in Slaves : Pre(slave[t])
  BY DEF Types
<1>2. slave' = [t \in Slaves |-> IF t = s THEN p ELSE slave[t]]
  BY <1>1
<1>3. slave'[s] = p /\ \A t \in Slaves : t # s => slave'[t] = slave[t]
  BY <1>2
<1>4. QED
  BY <1>1, <1>2, <1>3

LEMMA VoltsMove ==
    ASSUME Types, NEW c \in Component, NEW u \in [Rows(c) -> Component \cup {None}],
           volts' = [volts EXCEPT ![c] = u]
    PROVE  /\ volts' = [d \in Component |-> volts'[d]]
           /\ volts'[c] = u /\ \A d \in Component : d # c => volts'[d] = volts[d]
           /\ \A d \in Component : volts'[d] \in [Rows(d) -> Component \cup {None}]
<1>1. volts = [d \in Component |-> volts[d]]
      /\ \A d \in Component : volts[d] \in [Rows(d) -> Component \cup {None}]
  BY DEF Types
<1>2. volts' = [d \in Component |-> IF d = c THEN u ELSE volts[d]]
  BY <1>1
<1>3. volts'[c] = u /\ \A d \in Component : d # c => volts'[d] = volts[d]
  BY <1>2
<1>4. QED
  BY <1>1, <1>2, <1>3

LEMMA TypesCalc == Types => CalcTyped
  BY DEF Types, CalcTyped

-----------------------------------------------------------------------------
(* What a step leaves alone.                                               *)
LEMMA StillBegan ==
    ASSUME NEW d \in Component, Began(d), calc'[d] = calc[d],
           \A s \in Slaves : users[s] \subseteq users'[s],
           restarts' = 0 => restarts = 0 /\ up' \subseteq up
    PROVE  Began(d)'
  BY DEF Began, Read

LEMMA StillAlone ==
    ASSUME NEW d \in Component, Alone(d)', Types, restarts' = restarts,
           \A s \in Slaves : users[s] \subseteq users'[s]
    PROVE  Alone(d)
  BY DEF Alone, Types

LEMMA Undisturbed ==
    ASSUME NEW d \in Component, Served(d), calc'[d] = calc[d], volts'[d] = volts[d],
           d \in broken' <=> d \in broken,
           Alone(d)' => /\ Alone(d) /\ up' \subseteq up /\ \A s \in up' : slave'[s] = slave[s]
                        /\ \A s \in Slaves : d \in users'[s] <=> d \in users[s]
    PROVE  Served(d)'
<1>1. SUFFICES ASSUME Alone(d)'
               PROVE  (IF d \in broken THEN Excused(d) ELSE AtSlaves(d) /\ VoltsSoFar(d))'
  BY DEF Served
<1>2. CASE d \in broken
  BY <1>1, <1>2 DEF Served, Excused
<1>3. CASE d \notin broken
  <2>1. AtSlaves(d) /\ VoltsSoFar(d)
    BY <1>1, <1>3 DEF Served
  <2>2. up' \subseteq up /\ \A s \in up' : slave'[s] = slave[s]
    BY <1>1
  <2>3. AtSlaves(d)'
    BY <2>1, <2>2 DEF AtSlaves, Has, Tells
  <2>4. VoltsSoFar(d)'
    BY <2>1 DEF VoltsSoFar
  <2> QED
    BY <1>3, <2>3, <2>4
<1>4. QED
  BY <1>2, <1>3

(* A component is not alone at a slave that has read another one.          *)
LEMMA NotAlone ==
    ASSUME NEW d \in Component, NEW c, c # d, NEW s \in Slaves,
           restarts' = 0 => c \in users'[s]
    PROVE  Served(d)' /\ Known(d)'
  BY DEF Served, Known, Alone

LEMMA StillKnown ==
    ASSUME NEW d \in Component, Known(d),
           Alone(d)' => Alone(d) /\ up' \subseteq up /\ \A s \in up' :
                           heard'[s] = heard[s] /\ (d \in users'[s] => d \in users[s])
    PROVE  Known(d)'
  BY DEF Known

LEMMA UsersMove ==
    ASSUME Types, NEW c, NEW s \in Slaves, users' = [users EXCEPT ![s] = @ \cup {c}]
    PROVE  /\ users' = [t \in Slaves |-> users'[t]]
           /\ \A t \in Slaves : users[t] \subseteq users'[t] /\ (t # s => users'[t] = users[t])
           /\ c \in users'[s]
<1>1. users' = [t \in Slaves |-> IF t = s THEN users[t] \cup {c} ELSE users[t]]
  BY DEF Types
<1>2. QED
  BY <1>1

(* accept: the address is kept, or was.                                    *)
LEMMA HeardMoves ==
    ASSUME Types, NEW c \in Component, Asked(c) \in Slaves,
           heard' = [heard EXCEPT ![Asked(c)] = IF NewMaster(c) THEN Home[c] ELSE @]
    PROVE  /\ heard' = [s \in Slaves |-> heard'[s]]
           /\ \A s \in Slaves : heard'[s] \in {None} \cup {Home[d] : d \in Component}
           /\ \A s \in Slaves : s # Asked(c) => heard'[s] = heard[s]
           /\ Asked(c) \in Loopback[c] \/ heard'[Asked(c)] = Home[c]
<1>1. PICK h \in {None} \cup {Home[d] : d \in Component} :
         /\ h = IF NewMaster(c) THEN Home[c] ELSE heard[Asked(c)]
         /\ heard' = [heard EXCEPT ![Asked(c)] = h]
  BY DEF Types
<1>2. Asked(c) \in Loopback[c] \/ h = Home[c]
  BY <1>1 DEF NewMaster
<1>3. heard' = [s \in Slaves |-> IF s = Asked(c) THEN h ELSE heard[s]]
  BY <1>1 DEF Types
<1>4. QED
  BY <1>2, <1>3 DEF Types

-----------------------------------------------------------------------------
(* The beginnings of a calculation and of an update.                       *)
LEMMA NoVoltsTyped ==
    ASSUME NEW c \in Component
    PROVE  NoVolts(c) \in [Rows(c) -> Component \cup {None}]
  BY DEF NoVolts

LEMMA FirstSlave ==
    ASSUME NEW c \in Component
    PROVE  1 \in Slaves /\ \A s \in Slaves : s \in Nat /\ ~ s < 1
  BY Lengths

LEMMA BeginKeeps ==
    ASSUME SlaveInv, NEW c \in Component, NEW v \in Vectors[c], Begin(c, v)
    PROVE  SlaveInv'
<1>1. Types /\ CalcTyped
  BY TypesCalc DEF SlaveInv
<1>2. /\ CalcTyped' /\ calc'[c].phase = "first" /\ calc'[c].full = TRUE
      /\ calc'[c].at = 1 /\ calc'[c].I = v
      /\ \A d \in Component : d # c => calc'[d] = calc[d]
  BY <1>1, BeginMoves DEF Begin
<1>3. /\ volts' = [d \in Component |-> volts'[d]]
      /\ \A d \in Component : d # c => volts'[d] = volts[d]
      /\ \A d \in Component : volts'[d] \in [Rows(d) -> Component \cup {None}]
  BY <1>1, NoVoltsTyped, VoltsMove DEF Begin
<1>4. UNCHANGED <<slave, up, heard, restarts, users>> /\ broken' = broken \ {c}
  BY DEF Begin
<1>5. Types'
  BY <1>1, <1>2, <1>3, <1>4 DEF Types, CalcTyped, Pre
<1>6. ASSUME NEW d \in Component, d # c
      PROVE  Began(d)' /\ Served(d)'
  <2>1. Began(d) /\ Served(d)
    BY DEF SlaveInv
  <2>2. Alone(d)' => Alone(d)
    BY <1>1, <1>4, StillAlone
  <2>3. Began(d)'
    BY <1>2, <1>4, <1>6, <2>1, StillBegan
  <2> QED
    BY <1>2, <1>3, <1>4, <1>6, <2>1, <2>2, <2>3, Undisturbed
<1>10. ASSUME NEW d \in Component PROVE Known(d)'
  BY <1>1, <1>4, StillAlone, StillKnown DEF SlaveInv
<1>7. Began(c)'
  BY <1>2, FirstSlave DEF Began
<1>8. Served(c)'
  <2>1. \A s \in up' : ~ s < 1
    BY <1>5, FirstSlave DEF Types
  <2>2. AtSlaves(c)' /\ VoltsSoFar(c)'
    BY <1>2, <2>1 DEF AtSlaves, VoltsSoFar
  <2> QED
    BY <1>4, <2>2 DEF Served
<1>9. QED
  BY <1>5, <1>6, <1>7, <1>8, <1>10 DEF SlaveInv

LEMMA BeginUpdateKeeps ==
    ASSUME SlaveInv, NEW c \in Component, NEW v \in Vectors[c], BeginUpdate(c, v)
    PROVE  SlaveInv'
<1>1. Types /\ CalcTyped
  BY TypesCalc DEF SlaveInv
<1>2. /\ CalcTyped' /\ calc'[c].phase = "first" /\ calc'[c].full = FALSE
      /\ calc'[c].at = 1 /\ calc'[c].I = v
      /\ \A d \in Component : d # c => calc'[d] = calc[d]
  BY <1>1, BeginMoves DEF BeginUpdate
<1>3. /\ volts' = [d \in Component |-> volts'[d]]
      /\ \A d \in Component : d # c => volts'[d] = volts[d]
      /\ \A d \in Component : volts'[d] \in [Rows(d) -> Component \cup {None}]
  BY <1>1, NoVoltsTyped, VoltsMove DEF BeginUpdate
<1>4. UNCHANGED <<slave, up, heard, restarts, users, broken>>
  BY DEF BeginUpdate
<1>5. Types'
  BY <1>1, <1>2, <1>3, <1>4 DEF Types, CalcTyped, Pre
<1>6. ASSUME NEW d \in Component
      PROVE  Alone(d)' => Alone(d)
  BY <1>1, <1>4, StillAlone
<1>7. ASSUME NEW d \in Component, d # c
      PROVE  Began(d)' /\ Served(d)'
  <2>1. Began(d) /\ Served(d)
    BY DEF SlaveInv
  <2>2. Began(d)'
    BY <1>2, <1>4, <1>7, <2>1, StillBegan
  <2> QED
    BY <1>2, <1>3, <1>4, <1>6, <1>7, <2>1, <2>2, Undisturbed
<1>8. calc[c].phase = "idle" /\ calc[c].full /\ Began(c) /\ Served(c)
  BY DEF BeginUpdate, SlaveInv
<1>9. Began(c)'
  BY <1>2, <1>4, <1>8 DEF Began, Read
<1>10. Served(c)'
  <2>1. SUFFICES ASSUME Alone(c)', c \notin broken
                 PROVE  AtSlaves(c)' /\ VoltsSoFar(c)'
    BY <1>4, <1>6, <1>8 DEF Served, Excused
  <2>2. AtSlaves(c)
    BY <1>6, <1>8, <2>1 DEF Served
  <2>3. \A s \in up : Has(c, s) /\ slave[s].second
    BY <1>8, <2>2 DEF AtSlaves
  <2>4. \A s \in up : ~ s < 1
    BY <1>1, FirstSlave DEF Types
  <2>5. AtSlaves(c)'
    BY <1>2, <1>4, <2>3, <2>4 DEF AtSlaves, Has
  <2>6. VoltsSoFar(c)'
    BY <1>2 DEF VoltsSoFar
  <2> QED
    BY <2>5, <2>6
<1>11. ASSUME NEW d \in Component PROVE Known(d)'
  BY <1>4, <1>6, StillKnown DEF SlaveInv
<1>12. QED
  BY <1>5, <1>7, <1>9, <1>10, <1>11 DEF SlaveInv
-----------------------------------------------------------------------------
(* The steps that do not ask.                                              *)
LEMMA RefusedKeeps ==
    ASSUME SlaveInv, NEW c \in Component, Refused(c)
    PROVE  SlaveInv'
<1>1. Types /\ CalcTyped
  BY TypesCalc DEF SlaveInv
<1>2. /\ CalcTyped' /\ calc'[c].phase = "exit"
      /\ \A d \in Component : d # c => calc'[d] = calc[d]
  BY <1>1, PhaseMoves DEF Refused
<1>3. UNCHANGED <<volts, slave, up, heard, restarts, users, broken>>
  BY DEF Refused
<1>4. Types'
  BY <1>1, <1>2, <1>3 DEF Types, CalcTyped, Pre
<1>5. ASSUME NEW d \in Component
      PROVE  Began(d) /\ Served(d) /\ (Alone(d)' => Alone(d))
  BY <1>1, <1>3, StillAlone DEF SlaveInv
<1>6. ASSUME NEW d \in Component, d # c
      PROVE  Began(d)' /\ Served(d)'
  <2>1. Began(d)'
    BY <1>2, <1>3, <1>5, <1>6, StillBegan
  <2> QED
    BY <1>2, <1>3, <1>5, <1>6, <2>1, Undisturbed
<1>7. Began(c)'
  BY <1>2 DEF Began
<1>8. Served(c)'
  <2>1. AtSlaves(c)' /\ VoltsSoFar(c)'
    BY <1>2 DEF AtSlaves, VoltsSoFar
  <2> QED
    BY <1>3, <1>5, <2>1 DEF Served, Excused
<1>9. ASSUME NEW d \in Component PROVE Known(d)'
  BY <1>3, <1>5, StillKnown DEF SlaveInv
<1>10. QED
  BY <1>4, <1>6, <1>7, <1>8, <1>9 DEF SlaveInv

(* The places of the loop over the slaves.                                 *)
LEMMA NextPlace ==
    ASSUME NEW c \in Component, NEW s \in Slaves, NEW t \in Slaves
    PROVE  /\ s \in Nat
           /\ t < s + 1 => t < s \/ t = s
           /\ t < s \/ t = s => t < s + 1
           /\ s = Len(Blocks[c]) => t < s \/ t = s
<1>1. PICK n \in Nat : n = Len(Blocks[c]) /\ Slaves = 1 .. n
  BY Lengths
<1>2. s \in Nat /\ t \in Nat /\ t <= n
  BY <1>1
<1>3. QED
  BY <1>1, <1>2

(* A slave that ends on a new master had not read it before, if it is      *)
(* alone: it would have kept its address.                                  *)
LEMMA NoSimulatorKeeps ==
    ASSUME SlaveInv, NEW c \in Component, NEW x \in Vectors[c], NoSimulator(c, x)
    PROVE  SlaveInv'
<1>0. PICK s : s = Asked(c)
  OBVIOUS
<1>1. /\ Types /\ CalcTyped /\ s \in Slaves /\ s \in up
      /\ calc[c].phase \in {"first", "second"} /\ s = calc[c].at
  BY <1>0, TypesCalc DEF SlaveInv, Types, NoSimulator, Asked
<1>2. /\ UNCHANGED <<volts, heard, restarts, users>>
      /\ up' = up \ {s} /\ slave' = [slave EXCEPT ![s] = NoPre] /\ broken' = broken \cup {c}
      /\ s \notin Loopback[c] /\ heard[s] # Home[c] /\ Again(c, x)
  BY <1>0 DEF NoSimulator, Dies, NewMaster
<1>3. /\ CalcTyped' /\ NextPhase(calc[c], calc'[c], Len(Blocks[c]))
      /\ \A d \in Component : d # c => calc'[d] = calc[d]
  BY <1>1, <1>2, AgainMoves
<1>4. /\ slave' = [t \in Slaves |-> slave'[t]] /\ \A t \in Slaves : Pre(slave'[t])
      /\ \A t \in Slaves : t # s => slave'[t] = slave[t]
  BY <1>1, <1>2, NoPreTyped, SlaveMoves
<1>5. Types'
  BY <1>1, <1>2, <1>3, <1>4 DEF Types, CalcTyped, Pre
<1>6. ASSUME NEW d \in Component
      PROVE  Began(d) /\ Known(d) /\ Served(d) /\ (Alone(d)' => Alone(d))
  BY <1>1, <1>2, StillAlone DEF SlaveInv
<1>7. up' \subseteq up /\ \A t \in up' : slave'[t] = slave[t]
  BY <1>1, <1>2, <1>4 DEF Types
<1>8. ASSUME NEW d \in Component, d # c
      PROVE  Began(d)' /\ Served(d)'
  <2>1. Began(d)'
    BY <1>2, <1>3, <1>6, <1>7, <1>8, StillBegan
  <2> QED
    BY <1>2, <1>3, <1>6, <1>7, <1>8, <2>1, Undisturbed
<1>9. Began(c)'
  <2>1. SUFFICES ASSUME restarts = 0 PROVE Began(c)'
    BY <1>2 DEF Began
  <2>2. ~ (s \in up')
    BY <1>2
  <2>3. CASE calc[c].phase = "second"
    <3>1. \A t \in Slaves : Read(c, t)
      BY <1>6, <2>1, <2>3 DEF Began
    <3>2. \A t \in Slaves : Read(c, t)'
      BY <1>2, <1>7, <3>1 DEF Read
    <3> QED
      BY <3>2 DEF Began
  <2>4. CASE calc[c].phase = "first"
    <3>1. \A t \in Slaves : (calc[c].full => t < s \/ t = s) => Read(c, t)'
      BY <1>1, <1>2, <1>6, <1>7, <2>1, <2>2, <2>4 DEF Began, Read
    <3>2. CASE s # Len(Blocks[c])
      <4>1. /\ calc'[c].phase = "first" /\ calc'[c].full = calc[c].full
            /\ calc'[c].at = s + 1
        BY <1>1, <1>3, <2>4, <3>2 DEF NextPhase
      <4>2. \A t \in Slaves : t < s + 1 => t < s \/ t = s
        BY <1>1, NextPlace
      <4> QED
        BY <3>1, <4>1, <4>2 DEF Began
    <3>3. CASE s = Len(Blocks[c])
      <4>1. \A t \in Slaves : t < s \/ t = s
        BY <1>1, <3>3, NextPlace
      <4> QED
        BY <3>1, <4>1 DEF Began
    <3> QED
      BY <3>2, <3>3
  <2> QED
    BY <1>1, <2>3, <2>4
<1>10. Served(c)'
  <2>1. SUFFICES ASSUME Alone(c)' PROVE Excused(c)'
    BY <1>2 DEF Served
  <2>2. c \notin users[s]
    BY <1>1, <1>2, <1>6, <2>1 DEF Known
  <2> QED
    BY <1>1, <1>2, <2>2 DEF Excused
<1>11. ASSUME NEW d \in Component PROVE Known(d)'
  BY <1>2, <1>6, <1>7, StillKnown
<1>12. QED
  BY <1>5, <1>8, <1>9, <1>10, <1>11 DEF SlaveInv

LEMMA SlaveEndsKeeps ==
    ASSUME SlaveInv, NEW s \in Slaves, SlaveEnds(s)
    PROVE  SlaveInv'
<1>1. Types /\ UNCHANGED <<calc, volts, heard, restarts, users, broken>> /\ up' = up \ {s}
  BY DEF SlaveEnds, SlaveInv
<1>2. slave' = [slave EXCEPT ![s] = NoPre]
  BY DEF SlaveEnds
<1>3. /\ slave' = [t \in Slaves |-> slave'[t]] /\ \A t \in Slaves : Pre(slave'[t])
      /\ \A t \in Slaves : t # s => slave'[t] = slave[t]
  BY <1>1, <1>2, NoPreTyped, SlaveMoves
<1>4. Types'
  BY <1>1, <1>3 DEF Types, Pre
<1>5. ASSUME NEW d \in Component
      PROVE  Began(d)' /\ Served(d)'
  <2>1. Began(d) /\ Served(d) /\ (Alone(d)' => Alone(d))
    BY <1>1, StillAlone DEF SlaveInv
  <2>2. up' \subseteq up /\ \A t \in up' : slave'[t] = slave[t]
    BY <1>1, <1>3 DEF Types
  <2>3. Began(d)'
    BY <1>1, <2>1, <2>2, StillBegan
  <2> QED
    BY <1>1, <2>1, <2>2, <2>3, Undisturbed
<1>6. ASSUME NEW d \in Component PROVE Known(d)'
  BY <1>1, StillAlone, StillKnown DEF SlaveInv
<1>7. QED
  BY <1>4, <1>5, <1>6 DEF SlaveInv

(* Once a slave has been started again, no component is alone.             *)
LEMMA SlaveStartsKeeps ==
    ASSUME SlaveInv, NEW s \in Slaves, SlaveStarts(s)
    PROVE  SlaveInv'
<1>1. Types /\ UNCHANGED <<calc, volts, slave, users, broken>> /\ up' = up \cup {s}
      /\ restarts < MaxRestarts /\ restarts' = restarts + 1
      /\ heard' = [heard EXCEPT ![s] = None]
  BY DEF SlaveStarts, SlaveInv
<1>2. restarts \in Nat /\ MaxRestarts \in Nat
  BY <1>1, SlaveAssumption DEF Types
<1>3. restarts' \in 0 .. MaxRestarts /\ restarts' # 0
  BY <1>1, <1>2
<1>4. Types'
  BY <1>1, <1>3 DEF Types, Pre
<1>5. ASSUME NEW d \in Component
      PROVE  Began(d)' /\ Known(d)' /\ Served(d)'
  BY <1>3 DEF Began, Known, Served, Alone
<1>6. QED
  BY <1>4, <1>5 DEF SlaveInv

-----------------------------------------------------------------------------
(* What a component that is alone finds at the slave it asks.              *)
LEMMA AskedIsOwn ==
    ASSUME SlaveInv, NEW c \in Component, NEW s \in up, Has(c, s)
    PROVE  /\ slave[s] # NoPre /\ slave[s].n = Count(c, s)
           /\ \A v : InRange(Sent(v, c, s), slave[s].n)
           /\ DOMAIN slave[s].I = 0 .. Count(c, s) - 1
<1>1. s \in Slaves /\ Pre(slave[s])
  BY DEF SlaveInv, Types
<1>2. slave[s].of = c /\ slave[s].n = Count(c, s)
  BY DEF Has
<1>3. NoPre.of = None
  BY DEF NoPre
<1>4. slave[s] # NoPre
  BY <1>2, <1>3, NoneApart
<1>5. \A v : InRange(Sent(v, c, s), slave[s].n)
  BY <1>1, <1>2, SentFits DEF InRange
<1>6. QED
  BY <1>1, <1>2, <1>4, <1>5 DEF Pre
-----------------------------------------------------------------------------
(* The first phase.                                                        *)
CanAskFirst(c) ==
    IF calc[c].full THEN CanFirst(Count(c, Asked(c)))
    ELSE CanUpdateFirst(slave[Asked(c)], Sent(calc[c].I, c, Asked(c)))

ToldFirst(c) ==
    IF calc[c].full THEN FirstPhase(c, Count(c, Asked(c)), Sent(calc[c].I, c, Asked(c)))
    ELSE UpdateFirst(slave[Asked(c)], Sent(calc[c].I, c, Asked(c)))

LEMMA FirstAsked ==
    ASSUME NEW c, NEW x, AskFirst(c, x)
    PROVE  /\ calc[c].phase = "first" /\ Asked(c) \in up
           /\ UNCHANGED <<volts, restarts>>
           /\ users' = [users EXCEPT ![Asked(c)] = @ \cup {c}]
           /\ heard' = [heard EXCEPT ![Asked(c)] = IF NewMaster(c) THEN Home[c] ELSE @]
           /\ \/ /\ CanAskFirst(c) /\ (Again(c, x) \/ Aborts(c))
                 /\ slave' = [slave EXCEPT ![Asked(c)] = ToldFirst(c)]
                 /\ UNCHANGED <<up, broken>>
              \/ ~ CanAskFirst(c) /\ Dies(c) /\ Again(c, x)
<1>1. calc[c].phase = "first" /\ Contact(c) /\ UNCHANGED <<volts, restarts>>
  BY DEF AskFirst
<1>2. CASE calc[c].full
  BY <1>1, <1>2 DEF AskFirst, CanAskFirst, ToldFirst, Contact
<1>3. CASE ~ calc[c].full
  BY <1>1, <1>3 DEF AskFirst, CanAskFirst, ToldFirst, Contact
<1>4. QED
  BY <1>2, <1>3

LEMMA ToldFirstIs ==
    ASSUME Types, NEW c \in Component, Asked(c) \in Slaves
    PROVE  /\ Pre(ToldFirst(c))
           /\ calc[c].full =>
                 /\ ToldFirst(c).of = c /\ ToldFirst(c).n = Count(c, Asked(c))
                 /\ ~ ToldFirst(c).second
                 /\ Tells(calc[c].I, c, Asked(c), ToldFirst(c).I)
           /\ ~ calc[c].full =>
                 /\ ToldFirst(c).of = slave[Asked(c)].of /\ ToldFirst(c).n = slave[Asked(c)].n
                 /\ ToldFirst(c).second = slave[Asked(c)].second
                 /\ DOMAIN slave[Asked(c)].I = 0 .. Count(c, Asked(c)) - 1 =>
                       Tells(calc[c].I, c, Asked(c), ToldFirst(c).I)
<1> DEFINE s == Asked(c)
<1>1. PICK v \in Vectors[c] : v = calc[c].I
  BY DEF Types, State
<1>2. PICK rows : rows = Sent(v, c, s)
  OBVIOUS
<1>3. \A r \in DOMAIN rows : rows[r] \in Int
  BY <1>2, VectorValues
<1>4. \A w : DOMAIN w = 0 .. Count(c, s) - 1 => Tells(v, c, s, SetRows(w, rows))
  BY <1>2, SentFits
<1>5. CASE calc[c].full
  <2>1. PICK n \in Nat : n = Count(c, s)
    BY Counts
  <2>2. PICK p : p = FirstPhase(c, n, rows)
    OBVIOUS
  <2>3. Pre(p) /\ p.of = c /\ p.n = n /\ ~ p.second /\ p.I = SetRows(Zeros(n), rows)
    BY <1>3, <2>2, FirstTyped
  <2>4. DOMAIN Zeros(n) = 0 .. Count(c, s) - 1
    BY <2>1 DEF Zeros
  <2>5. Tells(v, c, s, p.I)
    BY <1>4, <2>3, <2>4
  <2>6. ToldFirst(c) = p
    BY <1>1, <1>2, <1>5, <2>1, <2>2 DEF ToldFirst
  <2> QED
    BY <1>1, <1>5, <2>1, <2>3, <2>5, <2>6
<1>6. CASE ~ calc[c].full
  <2>1. PICK p : p = slave[s] /\ Pre(p)
    BY DEF Types
  <2>2. PICK q : q = UpdateFirst(p, rows)
    OBVIOUS
  <2>3. Pre(q) /\ q.of = p.of /\ q.n = p.n /\ q.second = p.second /\ q.I = SetRows(p.I, rows)
    BY <1>3, <2>1, <2>2, UpdateFirstTyped
  <2>4. DOMAIN p.I = 0 .. Count(c, s) - 1 => Tells(v, c, s, q.I)
    BY <1>4, <2>3
  <2>5. ToldFirst(c) = q
    BY <1>1, <1>2, <1>6, <2>1, <2>2 DEF ToldFirst
  <2> QED
    BY <1>1, <1>6, <2>1, <2>3, <2>4, <2>5
<1>7. QED
  BY <1>5, <1>6

LEMMA AskFirstTypes ==
    ASSUME SlaveInv, NEW c \in Component, NEW x \in Vectors[c], AskFirst(c, x)
    PROVE  /\ Types'
           /\ \A d \in Component : d # c => calc'[d] = calc[d]
           /\ \A s \in Slaves : users[s] \subseteq users'[s]
<1>1. Types /\ CalcTyped /\ Asked(c) \in Slaves
  BY TypesCalc, FirstAsked DEF SlaveInv, Types
<1>2. CalcTyped' /\ \A d \in Component : d # c => calc'[d] = calc[d]
  <2>1. CASE Again(c, x)
    BY <1>1, <2>1, AgainMoves
  <2>2. CASE Aborts(c)
    BY <1>1, <2>2, PhaseMoves DEF Aborts
  <2> QED
    BY <2>1, <2>2, FirstAsked
<1>3. /\ slave' = [s \in Slaves |-> slave'[s]] /\ \A s \in Slaves : Pre(slave'[s])
      /\ up' \subseteq up
  <2>1. CASE slave' = [slave EXCEPT ![Asked(c)] = ToldFirst(c)] /\ up' = up
    BY <1>1, <2>1, ToldFirstIs, SlaveMoves
  <2>2. CASE slave' = [slave EXCEPT ![Asked(c)] = NoPre] /\ up' = up \ {Asked(c)}
    BY <1>1, <2>2, NoPreTyped, SlaveMoves
  <2> QED
    BY <2>1, <2>2, FirstAsked DEF Dies
<1>4. /\ users' = [s \in Slaves |-> users'[s]]
      /\ \A s \in Slaves : users[s] \subseteq users'[s]
  BY <1>1, FirstAsked, UsersMove
<1>5. UNCHANGED <<volts, restarts>>
  BY FirstAsked
<1>6. QED
  BY <1>1, <1>2, <1>3, <1>4, <1>5, FirstAsked, HeardMoves DEF Types, CalcTyped, Pre

(* Whoever asks a slave is read there.                                     *)
LEMMA AskFirstUses ==
    ASSUME SlaveInv, NEW c \in Component, NEW x \in Vectors[c], AskFirst(c, x)
    PROVE  c \in users'[Asked(c)]
<1>1. Types /\ Asked(c) \in Slaves
  BY FirstAsked DEF SlaveInv, Types
<1>2. QED
  BY <1>1, FirstAsked, UsersMove

LEMMA AskFirstBegan ==
    ASSUME SlaveInv, NEW c \in Component, NEW x \in Vectors[c], AskFirst(c, x)
    PROVE  Began(c)'
<1>1. /\ Types /\ CalcTyped /\ Began(c) /\ Asked(c) \in Slaves /\ calc[c].phase = "first"
      /\ Asked(c) = calc[c].at
  BY TypesCalc, FirstAsked DEF SlaveInv, Types, Asked
<1>2. /\ \A s \in Slaves : users[s] \subseteq users'[s]
      /\ c \in users'[Asked(c)] /\ up' \subseteq up /\ restarts' = restarts
  BY AskFirstTypes, AskFirstUses, FirstAsked DEF Dies
<1>0. SUFFICES ASSUME restarts = 0 PROVE Began(c)'
  BY <1>2 DEF Began
<1>3. CASE Aborts(c)
  <2>1. calc'[c].phase = "exit"
    BY <1>1, <1>3, PhaseMoves DEF Aborts
  <2> QED
    BY <2>1 DEF Began
<1>4. CASE Again(c, x)
  <2>1. NextPhase(calc[c], calc'[c], Len(Blocks[c]))
    BY <1>1, <1>4, AgainMoves
  <2>2. \A s \in Slaves : (calc[c].full => s < calc[c].at \/ s = calc[c].at) => Read(c, s)'
    BY <1>0, <1>1, <1>2 DEF Began, Read
  <2>3. CASE calc[c].at # Len(Blocks[c])
    <3>1. /\ calc'[c].phase = "first" /\ calc'[c].full = calc[c].full
          /\ calc'[c].at = calc[c].at + 1
      BY <1>1, <2>1, <2>3 DEF NextPhase
    <3>2. \A s \in Slaves : s < calc'[c].at => s < calc[c].at \/ s = calc[c].at
      BY <1>1, <3>1, NextPlace
    <3> QED
      BY <2>2, <3>1, <3>2 DEF Began
  <2>4. CASE calc[c].at = Len(Blocks[c])
    <3>1. \A s \in Slaves : s < calc[c].at \/ s = calc[c].at
      BY <1>1, <2>4, NextPlace
    <3>2. \A s \in Slaves : Read(c, s)'
      BY <2>2, <3>1
    <3>3. calc'[c].phase = "second"
      BY <1>1, <2>1, <2>4 DEF NextPhase
    <3> QED
      BY <3>2, <3>3 DEF Began
  <2> QED
    BY <2>3, <2>4
<1>5. QED
  BY <1>3, <1>4, FirstAsked

(* Nobody else's calculation is at the slaves of a component that is       *)
(* alone; its own block may have no rows, which ends the slave.            *)
LEMMA AskFirstServed ==
    ASSUME SlaveInv, NEW c \in Component, NEW x \in Vectors[c], AskFirst(c, x)
    PROVE  Served(c)'
<1>0. PICK s : s = Asked(c)
  OBVIOUS
<1>1. /\ Types /\ CalcTyped /\ Served(c) /\ s \in Slaves /\ calc[c].phase = "first"
      /\ s = Asked(c) /\ s = calc[c].at /\ s \in up
  BY <1>0, TypesCalc, FirstAsked DEF SlaveInv, Types, Asked
<1>2. Types' /\ (Alone(c)' => Alone(c)) /\ UNCHANGED volts
  BY <1>1, AskFirstTypes, StillAlone, FirstAsked
<1>3. SUFFICES ASSUME Alone(c)'
               PROVE  IF c \in broken' THEN Excused(c)' ELSE AtSlaves(c)' /\ VoltsSoFar(c)'
  BY DEF Served
<1>4. IF c \in broken THEN Excused(c) ELSE AtSlaves(c) /\ VoltsSoFar(c)
  BY <1>1, <1>2, <1>3 DEF Served
<1>5. CASE c \in broken
  <2>1. c \in broken' /\ up' \subseteq up
    BY <1>5, FirstAsked DEF Dies
  <2>2. \A t \in Slaves : t # s => users'[t] = users[t]
    <3>1. users' = [users EXCEPT ![s] = @ \cup {c}]
      BY <1>1, FirstAsked
    <3> QED
      BY <1>1, <3>1, UsersMove
  <2> QED
    BY <1>1, <1>4, <1>5, <2>1, <2>2 DEF Excused
<1>6. CASE c \notin broken /\ ~ CanAskFirst(c)
  <2>1. c \in broken'
    BY <1>6, FirstAsked DEF Dies
  <2>2. CASE calc[c].full
    <3>1. ~ Count(c, s) > 0 /\ Count(c, s) \in Nat
      BY <1>1, <1>6, <2>2, Counts DEF CanAskFirst, CanFirst
    <3>2. Count(c, s) = 0
      BY <3>1
    <3> QED
      BY <1>1, <2>1, <3>2 DEF Excused
  <2>3. CASE ~ calc[c].full
    <3>1. Has(c, s)
      BY <1>1, <1>4, <1>6, <2>3 DEF AtSlaves
    <3>2. CanAskFirst(c)
      BY <1>1, <2>3, <3>1, AskedIsOwn DEF CanAskFirst, CanUpdateFirst
    <3> QED
      BY <1>6, <3>2
  <2> QED
    BY <2>2, <2>3
<1>7. CASE c \notin broken /\ CanAskFirst(c)
  <2>1. /\ slave' = [slave EXCEPT ![s] = ToldFirst(c)] /\ UNCHANGED <<up, broken>>
        /\ Again(c, x) \/ Aborts(c)
    BY <1>1, <1>7, FirstAsked
  <2>2. slave'[s] = ToldFirst(c) /\ \A t \in Slaves : t # s => slave'[t] = slave[t]
    BY <1>1, <2>1, SlaveMoves
  <2>3. AtSlaves(c)
    BY <1>4, <1>7
  <2>4. CASE Aborts(c)
    <3>1. calc'[c].phase = "exit"
      BY <1>1, <2>4, PhaseMoves DEF Aborts
    <3> QED
      BY <1>7, <2>1, <3>1 DEF AtSlaves, VoltsSoFar
  <2>5. CASE Again(c, x)
    <3>1. NextPhase(calc[c], calc'[c], Len(Blocks[c])) /\ calc'[c].I = calc[c].I
      BY <1>1, <2>5, AgainMoves DEF NextPhase
    (* the slave that was asked *)
    <3>2. /\ Has(c, s)' /\ Tells(calc[c].I, c, s, slave'[s].I)
          /\ slave'[s].second <=> ~ calc[c].full
      <4>1. CASE calc[c].full
        <5>1. Count(c, s) > 0
          BY <1>1, <1>7, <4>1 DEF CanAskFirst, CanFirst
        <5>2. /\ ToldFirst(c).of = c /\ ToldFirst(c).n = Count(c, s)
              /\ ~ ToldFirst(c).second /\ Tells(calc[c].I, c, s, ToldFirst(c).I)
          BY <1>1, <4>1, ToldFirstIs
        <5>3. slave'[s].second <=> ~ calc[c].full
          BY <2>2, <4>1, <5>2
        <5> QED
          BY <2>2, <5>1, <5>2, <5>3 DEF Has
      <4>2. CASE ~ calc[c].full
        <5>1. Has(c, s) /\ slave[s].second
          BY <1>1, <2>3, <4>2 DEF AtSlaves
        <5>2. DOMAIN slave[s].I = 0 .. Count(c, s) - 1
          BY <1>1, <5>1, AskedIsOwn
        <5>3. /\ ToldFirst(c).of = slave[s].of /\ ToldFirst(c).n = slave[s].n
              /\ ToldFirst(c).second = slave[s].second
              /\ Tells(calc[c].I, c, s, ToldFirst(c).I)
          BY <1>1, <4>2, <5>2, ToldFirstIs
        <5>4. slave'[s].second <=> ~ calc[c].full
          BY <2>2, <4>2, <5>1, <5>3
        <5> QED
          BY <2>2, <5>1, <5>3, <5>4 DEF Has
      <4> QED
        BY <4>1, <4>2
    (* and every slave that was asked before *)
    <3>3. ASSUME NEW t \in up, calc[c].full => t < s \/ t = s
          PROVE  Has(c, t)' /\ (slave'[t].second <=> ~ calc[c].full)
      <4>1. CASE t = s
        BY <3>2, <4>1
      <4>2. CASE t # s
        <5>1. slave'[t] = slave[t]
          BY <1>1, <2>2, <4>2 DEF Types
        <5>2. Has(c, t) /\ (slave[t].second <=> ~ calc[c].full)
          BY <1>1, <2>3, <3>3, <4>2 DEF AtSlaves
        <5> QED
          BY <5>1, <5>2 DEF Has
      <4> QED
        BY <4>1, <4>2
    <3>4. ASSUME NEW t \in up, t < s \/ t = s
          PROVE  Tells(calc[c].I, c, t, slave'[t].I)
      <4>1. CASE t = s
        BY <3>2, <4>1
      <4>2. CASE t # s
        <5>1. slave'[t] = slave[t]
          BY <1>1, <2>2, <4>2 DEF Types
        <5>2. Tells(calc[c].I, c, t, slave[t].I)
          BY <1>1, <2>3, <3>4, <4>2 DEF AtSlaves
        <5> QED
          BY <5>1, <5>2
      <4> QED
        BY <4>1, <4>2
    <3>5. CASE s # Len(Blocks[c])
      <4>1. /\ calc'[c].phase = "first" /\ calc'[c].full = calc[c].full
            /\ calc'[c].at = s + 1
        BY <1>1, <3>1, <3>5 DEF NextPhase
      <4>2. \A t \in up : t < s + 1 => t < s \/ t = s
        BY <1>1, NextPlace DEF Types
      <4>3. AtSlaves(c)'
        BY <2>1, <3>1, <3>3, <3>4, <4>1, <4>2 DEF AtSlaves
      <4>4. VoltsSoFar(c)'
        BY <4>1 DEF VoltsSoFar
      <4> QED
        BY <1>7, <2>1, <4>3, <4>4
    <3>6. CASE s = Len(Blocks[c])
      <4>1. calc'[c].phase = "second" /\ calc'[c].full = calc[c].full /\ calc'[c].at = 1
        BY <1>1, <3>1, <3>6 DEF NextPhase
      <4>2. \A t \in up : (t < s \/ t = s) /\ ~ t < 1
        BY <1>1, <3>6, NextPlace, FirstSlave DEF Types
      <4>3. AtSlaves(c)'
        BY <2>1, <3>1, <3>3, <3>4, <4>1, <4>2 DEF AtSlaves
      <4>4. \A r \in Rows(c) : ~ r < StartIndex[c][1]
        BY Starts DEF Rows
      <4>5. VoltsSoFar(c)'
        BY <4>1, <4>4 DEF VoltsSoFar
      <4> QED
        BY <1>7, <2>1, <4>3, <4>5
    <3> QED
      BY <3>5, <3>6
  <2> QED
    BY <2>1, <2>4, <2>5
<1>8. QED
  BY <1>5, <1>6, <1>7

LEMMA AskFirstKnown ==
    ASSUME SlaveInv, NEW c \in Component, NEW x \in Vectors[c], AskFirst(c, x)
    PROVE  Known(c)'
<1>1. Types /\ Known(c) /\ Asked(c) \in Slaves
  BY FirstAsked DEF SlaveInv, Types
<1>2. /\ \A s \in Slaves : s # Asked(c) => heard'[s] = heard[s] /\ users'[s] = users[s]
      /\ Asked(c) \in Loopback[c] \/ heard'[Asked(c)] = Home[c]
  BY <1>1, FirstAsked, HeardMoves, UsersMove
<1>3. (Alone(c)' => Alone(c)) /\ up' \subseteq up /\ up \subseteq Slaves
  BY <1>1, AskFirstTypes, FirstAsked, StillAlone DEF Dies, Types
<1>4. QED
  BY <1>1, <1>2, <1>3 DEF Known

LEMMA AskFirstKeeps ==
    ASSUME SlaveInv, NEW c \in Component, NEW x \in Vectors[c], AskFirst(c, x)
    PROVE  SlaveInv'
<1>1. Types' /\ Began(c)' /\ Known(c)' /\ Served(c)'
  BY AskFirstTypes, AskFirstBegan, AskFirstKnown, AskFirstServed
<1>2. ASSUME NEW d \in Component, d # c
      PROVE  Began(d)' /\ Known(d)' /\ Served(d)'
  <2>0. up' \subseteq up /\ restarts' = restarts
    BY FirstAsked DEF Dies
  <2>1. Began(d)'
    BY <1>2, <2>0, AskFirstTypes, StillBegan DEF SlaveInv
  <2>2. c \in users'[Asked(c)] /\ Asked(c) \in Slaves
    BY AskFirstUses, FirstAsked DEF SlaveInv, Types
  <2> QED
    BY <1>2, <2>1, <2>2, NotAlone
<1>3. QED
  BY <1>1, <1>2 DEF SlaveInv
-----------------------------------------------------------------------------
(* The second phase.                                                       *)
CanAskSecond(c) ==
    IF calc[c].full THEN CanSecond(slave[Asked(c)], Sent(calc[c].x, c, Asked(c)))
    ELSE CanUpdateSecond(slave[Asked(c)], Sent(calc[c].x, c, Asked(c)))

ToldSecond(c) ==
    IF calc[c].full THEN SecondPhase(slave[Asked(c)], Sent(calc[c].x, c, Asked(c)))
    ELSE UpdateSecond(slave[Asked(c)], Sent(calc[c].x, c, Asked(c)))

SetVolts(c) ==
    LET answer == Answered(c, Asked(c), slave[Asked(c)].n)
    IN [r \in Rows(c) |-> IF r \in answer THEN slave[Asked(c)].of ELSE volts[c][r]]

LEMMA SecondAsked ==
    ASSUME NEW c, AskSecond(c)
    PROVE  /\ calc[c].phase = "second" /\ Asked(c) \in up
           /\ UNCHANGED <<users, restarts>>
           /\ heard' = [heard EXCEPT ![Asked(c)] = IF NewMaster(c) THEN Home[c] ELSE @]
           /\ \/ /\ CanAskSecond(c)
                 /\ slave' = [slave EXCEPT ![Asked(c)] = ToldSecond(c)]
                 /\ \/ Again(c, calc[c].x) /\ volts' = [volts EXCEPT ![c] = SetVolts(c)]
                    \/ Aborts(c) /\ UNCHANGED volts
                 /\ UNCHANGED <<up, broken>>
              \/ ~ CanAskSecond(c) /\ Dies(c) /\ Again(c, calc[c].x) /\ UNCHANGED volts
<1>1. calc[c].phase = "second" /\ Contact(c) /\ UNCHANGED <<users, restarts>>
  BY DEF AskSecond
<1>2. CASE calc[c].full
  BY <1>1, <1>2 DEF AskSecond, CanAskSecond, ToldSecond, SetVolts, Contact
<1>3. CASE ~ calc[c].full
  BY <1>1, <1>3 DEF AskSecond, CanAskSecond, ToldSecond, SetVolts, Contact
<1>4. QED
  BY <1>2, <1>3

LEMMA ToldSecondIs ==
    ASSUME Types, NEW c \in Component, Asked(c) \in Slaves, CanAskSecond(c)
    PROVE  /\ Pre(ToldSecond(c)) /\ ToldSecond(c).second
           /\ ToldSecond(c).of = slave[Asked(c)].of /\ ToldSecond(c).n = slave[Asked(c)].n
           /\ ToldSecond(c).I = slave[Asked(c)].I
<1>1. PICK rows : rows = Sent(calc[c].x, c, Asked(c))
  OBVIOUS
<1>2. \A r \in DOMAIN rows : rows[r] \in Int
  <2>1. calc[c].x \in Vectors[c]
    BY DEF Types, State
  <2> QED
    BY <1>1, <2>1, VectorValues
<1>3. PICK p : p = slave[Asked(c)] /\ Pre(p)
  BY DEF Types
<1>4. CASE calc[c].full
  <2>1. ToldSecond(c) = SecondPhase(p, rows)
    BY <1>1, <1>3, <1>4 DEF ToldSecond
  <2> QED
    BY <1>2, <1>3, <2>1, SecondTyped
<1>5. CASE ~ calc[c].full
  <2>1. ToldSecond(c) = UpdateSecond(p, rows) /\ p.second
    BY <1>1, <1>3, <1>5 DEF ToldSecond, CanAskSecond, CanUpdateSecond
  <2>2. /\ Pre(UpdateSecond(p, rows)) /\ UpdateSecond(p, rows).of = p.of
        /\ UpdateSecond(p, rows).n = p.n /\ UpdateSecond(p, rows).second = p.second
        /\ UpdateSecond(p, rows).I = p.I
    BY <1>2, <1>3, <2>1, UpdateSecondTyped
  <2> QED
    BY <1>3, <2>1, <2>2
<1>6. QED
  BY <1>4, <1>5

LEMMA AskSecondTypes ==
    ASSUME SlaveInv, NEW c \in Component, AskSecond(c)
    PROVE  Types' /\ \A d \in Component : d # c => calc'[d] = calc[d]
<1>1. Types /\ CalcTyped /\ Asked(c) \in Slaves /\ calc[c].x \in Vectors[c]
  BY TypesCalc, SecondAsked DEF SlaveInv, Types, State
<1>2. CalcTyped' /\ \A d \in Component : d # c => calc'[d] = calc[d]
  <2>1. CASE Again(c, calc[c].x)
    BY <1>1, <2>1, AgainMoves
  <2>2. CASE Aborts(c)
    BY <1>1, <2>2, PhaseMoves DEF Aborts
  <2> QED
    BY <2>1, <2>2, SecondAsked
<1>3. /\ slave' = [s \in Slaves |-> slave'[s]] /\ \A s \in Slaves : Pre(slave'[s])
      /\ up' \subseteq up
  <2>1. CASE CanAskSecond(c) /\ slave' = [slave EXCEPT ![Asked(c)] = ToldSecond(c)] /\ up' = up
    BY <1>1, <2>1, ToldSecondIs, SlaveMoves
  <2>2. CASE slave' = [slave EXCEPT ![Asked(c)] = NoPre] /\ up' = up \ {Asked(c)}
    BY <1>1, <2>2, NoPreTyped, SlaveMoves
  <2> QED
    BY <2>1, <2>2, SecondAsked DEF Dies
<1>4. /\ volts' = [d \in Component |-> volts'[d]]
      /\ \A d \in Component : volts'[d] \in [Rows(d) -> Component \cup {None}]
  <2>1. SetVolts(c) \in [Rows(c) -> Component \cup {None}]
    <3>1. /\ slave[Asked(c)].of \in Component \cup {None}
          /\ volts[c] \in [Rows(c) -> Component \cup {None}]
      BY <1>1 DEF Types, Pre
    <3> QED
      BY <3>1 DEF SetVolts
  <2>2. CASE volts' = [volts EXCEPT ![c] = SetVolts(c)]
    BY <1>1, <2>1, <2>2, VoltsMove
  <2>3. CASE UNCHANGED volts
    BY <1>1, <2>3 DEF Types
  <2> QED
    BY <2>2, <2>3, SecondAsked
<1>5. UNCHANGED <<users, restarts>>
  BY SecondAsked
<1>6. QED
  BY <1>1, <1>2, <1>3, <1>4, <1>5, SecondAsked, HeardMoves DEF Types, CalcTyped, Pre

LEMMA AskSecondBegan ==
    ASSUME SlaveInv, NEW c \in Component, AskSecond(c)
    PROVE  Began(c)' /\ (restarts = 0 => c \in users'[Asked(c)])
<1>1. /\ Types /\ CalcTyped /\ Began(c) /\ calc[c].phase = "second" /\ UNCHANGED users
      /\ calc[c].x \in Vectors[c]
  BY TypesCalc, SecondAsked DEF SlaveInv, Types, State
<1>2. up' \subseteq up /\ restarts' = restarts /\ Asked(c) \in up /\ up \subseteq Slaves
  BY <1>1, SecondAsked DEF Dies, Types
<1>3. restarts = 0 => \A s \in Slaves : Read(c, s)
  BY <1>1 DEF Began
<1>4. restarts = 0 => \A s \in Slaves : Read(c, s)'
  BY <1>1, <1>2, <1>3 DEF Read
<1>5. QED
  BY <1>1, <1>2, <1>3, <1>4 DEF Began, Read

LEMMA AskSecondKnown ==
    ASSUME SlaveInv, NEW c \in Component, AskSecond(c)
    PROVE  Known(c)'
<1>1. Types /\ Known(c) /\ Asked(c) \in Slaves /\ UNCHANGED <<users, restarts>>
  BY SecondAsked DEF SlaveInv, Types
<1>2. /\ \A s \in Slaves : s # Asked(c) => heard'[s] = heard[s]
      /\ Asked(c) \in Loopback[c] \/ heard'[Asked(c)] = Home[c]
  BY <1>1, SecondAsked, HeardMoves
<1>3. (Alone(c)' => Alone(c)) /\ up' \subseteq up /\ up \subseteq Slaves
  BY <1>1, SecondAsked, StillAlone DEF Dies, Types
<1>4. QED
  BY <1>1, <1>2, <1>3 DEF Known

(* A slave that has the component's calculation can serve it, and the      *)
(* answer sets the voltages of its block.                                  *)
LEMMA AskSecondServed ==
    ASSUME SlaveInv, NEW c \in Component, AskSecond(c)
    PROVE  Served(c)'
<1>0. PICK s : s = Asked(c)
  OBVIOUS
<1>1. /\ Types /\ CalcTyped /\ Served(c) /\ s \in Slaves /\ calc[c].phase = "second"
      /\ s = Asked(c) /\ s = calc[c].at /\ s \in up /\ calc[c].x \in Vectors[c]
  BY <1>0, TypesCalc, SecondAsked DEF SlaveInv, Types, State, Asked
<1>2. Types' /\ (Alone(c)' => Alone(c))
  BY <1>1, AskSecondTypes, StillAlone, SecondAsked
<1>3. SUFFICES ASSUME Alone(c)'
               PROVE  IF c \in broken' THEN Excused(c)' ELSE AtSlaves(c)' /\ VoltsSoFar(c)'
  BY DEF Served
<1>4. IF c \in broken THEN Excused(c) ELSE AtSlaves(c) /\ VoltsSoFar(c)
  BY <1>1, <1>2, <1>3 DEF Served
<1>5. CASE c \in broken
  <2>1. c \in broken' /\ up' \subseteq up /\ UNCHANGED users
    BY <1>5, SecondAsked DEF Dies
  <2> QED
    BY <1>4, <1>5, <2>1 DEF Excused
<1>6. CASE c \notin broken
  <2>1. AtSlaves(c) /\ VoltsSoFar(c)
    BY <1>4, <1>6
  <2>2. /\ Has(c, s) /\ Tells(calc[c].I, c, s, slave[s].I)
        /\ slave[s].second <=> ~ calc[c].full
    <3>1. ~ s < s
      BY <1>1, NextPlace
    <3> QED
      BY <1>1, <2>1, <3>1 DEF AtSlaves
  <2>3. CanAskSecond(c)
    <3>1. slave[s] # NoPre /\ InRange(Sent(calc[c].x, c, s), slave[s].n)
      BY <1>1, <2>2, AskedIsOwn
    <3> QED
      BY <1>1, <2>2, <3>1 DEF CanAskSecond, CanSecond, CanUpdateSecond
  <2>4. /\ slave' = [slave EXCEPT ![s] = ToldSecond(c)] /\ UNCHANGED <<up, broken>>
        /\ \/ Again(c, calc[c].x) /\ volts' = [volts EXCEPT ![c] = SetVolts(c)]
           \/ Aborts(c)
    BY <1>1, <2>3, SecondAsked
  <2>5. slave'[s] = ToldSecond(c) /\ \A t \in Slaves : t # s => slave'[t] = slave[t]
    BY <1>1, <2>4, SlaveMoves
  <2>6. CASE Aborts(c)
    <3>1. calc'[c].phase = "exit"
      BY <1>1, <2>6, PhaseMoves DEF Aborts
    <3> QED
      BY <1>6, <2>4, <3>1 DEF AtSlaves, VoltsSoFar
  <2>7. CASE Again(c, calc[c].x) /\ volts' = [volts EXCEPT ![c] = SetVolts(c)]
    <3>1. NextPhase(calc[c], calc'[c], Len(Blocks[c])) /\ calc'[c].I = calc[c].I
      BY <1>1, <2>7, AgainMoves DEF NextPhase
    <3>2. Has(c, s)' /\ Tells(calc[c].I, c, s, slave'[s].I) /\ slave'[s].second
      <4>1. /\ ToldSecond(c).of = slave[s].of /\ ToldSecond(c).n = slave[s].n
            /\ ToldSecond(c).second /\ ToldSecond(c).I = slave[s].I
        BY <1>1, <2>3, ToldSecondIs
      <4> QED
        BY <2>2, <2>5, <4>1 DEF Has
    <3>3. ASSUME NEW t \in up
          PROVE  /\ Has(c, t)' /\ Tells(calc[c].I, c, t, slave'[t].I)
                 /\ slave'[t].second <=> ~ calc[c].full \/ t < s \/ t = s
      <4>1. CASE t = s
        BY <3>2, <4>1
      <4>2. CASE t # s
        <5>1. slave'[t] = slave[t]
          BY <1>1, <2>5, <4>2 DEF Types
        <5>2. /\ Has(c, t) /\ Tells(calc[c].I, c, t, slave[t].I)
              /\ slave[t].second <=> ~ calc[c].full \/ t < s
          BY <1>1, <2>1 DEF AtSlaves
        <5>3. slave'[t].second <=> ~ calc[c].full \/ t < s \/ t = s
          BY <4>2, <5>1, <5>2
        <5> QED
          BY <5>1, <5>2, <5>3 DEF Has
      <4> QED
        BY <4>1, <4>2
    <3>4. ASSUME NEW r \in Rows(c), s = Len(Blocks[c]) \/ r < StartIndex[c][s + 1]
          PROVE  volts'[c][r] = c
      <4>1. r < StartIndex[c][s] => volts[c][r] = c
        BY <1>1, <2>1 DEF VoltsSoFar
      <4>2. r < StartIndex[c][s] \/ r \in Answered(c, s, slave[s].n)
        BY <1>1, <2>2, <3>4, NextBlock DEF Has
      <4>3. volts'[c] = SetVolts(c)
        BY <1>1, <2>7 DEF Types
      <4>4. volts'[c][r] = IF r \in Answered(c, s, slave[s].n) THEN slave[s].of ELSE volts[c][r]
        BY <1>1, <4>3 DEF SetVolts
      <4>5. slave[s].of = c
        BY <2>2 DEF Has
      <4> QED
        BY <4>1, <4>2, <4>4, <4>5
    <3>5. CASE s # Len(Blocks[c])
      <4>1. /\ calc'[c].phase = "second" /\ calc'[c].full = calc[c].full
            /\ calc'[c].at = s + 1
        BY <1>1, <3>1, <3>5 DEF NextPhase
      <4>2. \A t \in up : t < s + 1 <=> t < s \/ t = s
        BY <1>1, NextPlace DEF Types
      <4>3. ASSUME NEW t \in up
            PROVE  slave'[t].second <=> ~ calc'[c].full \/ t < calc'[c].at
        BY <3>3, <4>1, <4>2
      <4>4. AtSlaves(c)'
        BY <2>4, <3>1, <3>3, <4>1, <4>3 DEF AtSlaves
      <4>5. VoltsSoFar(c)'
        BY <3>4, <4>1 DEF VoltsSoFar
      <4> QED
        BY <1>6, <2>4, <4>4, <4>5
    <3>6. CASE s = Len(Blocks[c])
      <4>1. calc'[c].phase = "idle" /\ calc'[c].full
        BY <1>1, <3>1, <3>6 DEF NextPhase
      <4>2. \A t \in up : t < s \/ t = s
        BY <1>1, <3>6, NextPlace DEF Types
      <4>3. AtSlaves(c)'
        BY <2>4, <3>3, <4>1, <4>2 DEF AtSlaves
      <4>4. VoltsSoFar(c)'
        BY <3>4, <3>6, <4>1 DEF VoltsSoFar
      <4> QED
        BY <1>6, <2>4, <4>3, <4>4
    <3> QED
      BY <3>5, <3>6
  <2> QED
    BY <2>4, <2>6, <2>7
<1>7. QED
  BY <1>5, <1>6

LEMMA AskSecondKeeps ==
    ASSUME SlaveInv, NEW c \in Component, AskSecond(c)
    PROVE  SlaveInv'
<1>1. Types' /\ Began(c)' /\ Known(c)' /\ Served(c)'
  BY AskSecondTypes, AskSecondBegan, AskSecondKnown, AskSecondServed
<1>2. ASSUME NEW d \in Component, d # c
      PROVE  Began(d)' /\ Known(d)' /\ Served(d)'
  <2>0. up' \subseteq up /\ UNCHANGED <<users, restarts>>
    BY SecondAsked DEF Dies
  <2>1. Began(d)'
    BY <1>2, <2>0, AskSecondTypes, StillBegan DEF SlaveInv
  <2>2. (restarts' = 0 => c \in users'[Asked(c)]) /\ Asked(c) \in Slaves
    BY <2>0, AskSecondBegan, SecondAsked DEF SlaveInv, Types
  <2> QED
    BY <1>2, <2>1, <2>2, NotAlone
<1>3. QED
  BY <1>1, <1>2 DEF SlaveInv
-----------------------------------------------------------------------------
LEMMA SlaveInitial == Init => SlaveInv
<1> SUFFICES ASSUME Init PROVE SlaveInv
  OBVIOUS
<1>1. ASSUME NEW c \in Component
      PROVE  /\ calc[c] \in State(c) /\ calc[c].phase = "idle" /\ ~ calc[c].full
  <2>1. Vectors[c] # {}
    <3>1. PICK a : a \in Values[c]
      BY SlaveAssumption
    <3>2. [r \in Rows(c) |-> a] \in Vectors[c]
      BY <3>1 DEF Vectors
    <3> QED
      BY <3>2
  <2>2. PICK v \in Vectors[c] : v = CHOOSE u \in Vectors[c] : TRUE
    BY <2>1
  <2>3. calc[c] = [phase |-> "idle", full |-> FALSE, at |-> 1, I |-> v, x |-> v]
    BY <2>2 DEF Init
  <2>4. 1 \in Slaves
    BY FirstSlave
  <2> QED
    BY <2>3, <2>4 DEF State
<1>2. /\ volts = [c \in Component |-> NoVolts(c)] /\ slave = [s \in Slaves |-> NoPre]
      /\ up = Slaves /\ restarts = 0 /\ users = [s \in Slaves |-> {}] /\ broken = {}
      /\ calc = [c \in Component |-> calc[c]] /\ heard = [s \in Slaves |-> None]
  BY DEF Init
<1>3. \A c \in Component : volts[c] \in [Rows(c) -> Component \cup {None}]
  BY <1>2, NoVoltsTyped
<1>4. \A s \in Slaves : Pre(slave[s])
  BY <1>2, NoPreTyped
<1>5. Types
  BY <1>1, <1>2, <1>3, <1>4, SlaveAssumption DEF Types
<1>6. ASSUME NEW c \in Component
      PROVE  Began(c) /\ Known(c) /\ Served(c)
  BY <1>1, <1>2 DEF Began, Known, Served, AtSlaves, VoltsSoFar
<1>7. QED
  BY <1>5, <1>6 DEF SlaveInv

LEMMA SlaveStep == SlaveInv /\ [Next]_vars => SlaveInv'
<1> SUFFICES ASSUME SlaveInv, [Next]_vars PROVE SlaveInv'
  OBVIOUS
<1>1. ASSUME UNCHANGED vars PROVE SlaveInv'
  <2>1. Types'
    BY <1>1 DEF SlaveInv, Types, Pre, vars
  <2>2. ASSUME NEW d \in Component
        PROVE  Began(d)' /\ Known(d)' /\ Served(d)'
    <3>1. Began(d)'
      BY <1>1, StillBegan DEF SlaveInv, vars
    <3>2. Alone(d)' => Alone(d)
      BY <1>1, StillAlone DEF SlaveInv, vars
    <3>3. Known(d)'
      BY <1>1, <3>2, StillKnown DEF SlaveInv, vars
    <3> QED
      BY <1>1, <3>1, <3>2, <3>3, Undisturbed DEF SlaveInv, vars
  <2> QED
    BY <2>1, <2>2 DEF SlaveInv
<1>2. ASSUME NEW c \in Component, NEW v \in Vectors[c], Begin(c, v) \/ BeginUpdate(c, v)
      PROVE  SlaveInv'
  BY <1>2, BeginKeeps, BeginUpdateKeeps
<1>3. ASSUME NEW c \in Component, Calculate(c)
      PROVE  SlaveInv'
  BY <1>3, RefusedKeeps, NoSimulatorKeeps, AskFirstKeeps, AskSecondKeeps DEF Calculate
<1>4. ASSUME NEW s \in Slaves, SlaveEnds(s) \/ SlaveStarts(s)
      PROVE  SlaveInv'
  BY <1>4, SlaveEndsKeeps, SlaveStartsKeeps
<1>5. QED
  BY <1>1, <1>2, <1>3, <1>4 DEF Next

LEMMA SlaveInvariance == Spec => []SlaveInv
<1>1. QED
  BY SlaveInitial, SlaveStep, PTL DEF Spec

(* The types of the slaves' objects and of the components' calculations.   *)
THEOREM TypeCorrect == Spec => []TypeOK
<1>1. SlaveInv => TypeOK
  BY DEF SlaveInv, Types, TypeOK, State, Pre
<1>2. QED
  BY <1>1, SlaveInvariance, PTL

(* The requests of a component that has the slaves to itself come in an    *)
(* order and with rows that a slave can serve: only a block without rows   *)
(* ends a slave, or a first request that finds no simulator beside it (the *)
(* accept and the dispatch of powerslave/main.cpp).                        *)
THEOREM AloneServed == Spec => []AloneIsServed
<1>1. SlaveInv => AloneIsServed
  BY DEF SlaveInv, Served, Excused, AloneIsServed
<1>2. QED
  BY <1>1, SlaveInvariance, PTL

(* The answers of the slaves set every voltage of the component, from its  *)
(* own matrices, however its interfaces are split (DistributedCalculation  *)
(* and Update, servers_start_index and U2).                                *)
THEOREM VoltagesWhole == Spec => []VoltagesComplete
<1>1. SlaveInv => VoltagesComplete
  BY DEF SlaveInv, Served, VoltsSoFar, VoltagesComplete
<1>2. QED
  BY <1>1, SlaveInvariance, PTL

(* After a first phase a slave's vector differs from the component's only  *)
(* where that is zero, in a calculation and in any number of updates       *)
(* (update_first_phase of Power_slave.h).                                  *)
THEOREM StaleAreZeros == Spec => []OnlyZerosStale
<1>1. SlaveInv => OnlyZerosStale
  BY DEF SlaveInv, Served, AtSlaves, Tells, OnlyZerosStale
<1>2. QED
  BY <1>1, SlaveInvariance, PTL
=============================================================================
