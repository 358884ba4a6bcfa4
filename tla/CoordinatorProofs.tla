------------------------- MODULE CoordinatorProofs -------------------------
(***************************************************************************)
(* Proofs about Coordinator for every set of hosts, every number of        *)
(* interfaces and every wiring of them.  First what the handlers keep in   *)
(* any order of joins, updates and cancels: the types and the layout of    *)
(* the matrix rows.  Then what they keep when they come one exchange at a  *)
(* time (OrderlyCoordinator).  Then the totals and the shares, again in    *)
(* any order.  Last the gate of the request thread (Admission), without    *)
(* cancels and with them, and the turnstile that the queue, the thread and *)
(* the registry implement.                                                 *)
(***************************************************************************)
EXTENDS OrderlyCoordinator, Admission, FiniteSetTheorems, SequenceTheorems, TLAPS

(* A host that has no row has start_index_ 0 (the constructor of Host), so *)
(* closing a gap never moves it.                                           *)
RowlessAtZero == \A h \in Registered : hosts[h].num = 0 => hosts[h].start = 0

RegistryInv ==
    RegistryTypeOK /\ MatrixSized /\ IndexOneToOne /\ OwnVoltages /\ RowlessAtZero

(* The inductive invariant.                                                *)
IInv == TypeOK /\ RegistryInv

(* An interface is its host and its position.                              *)
LEMMA PiShape ==
    /\ \A h \in Host : \A r \in 0 .. Num[h] - 1 : <<h, r>> \in Pi /\ <<h, r>> \in Own(h)
    /\ \A h \in Host : Own(h) \subseteq Pi
    /\ \A h \in Host : \A p \in Own(h) :
          p = <<h, p[2]>> /\ p[1] = h /\ p[2] \in 0 .. Num[h] - 1
    /\ \A h \in Host : Num[h] \in Nat /\ Num[h] > 0
  BY NumAssumption DEF Pi, Own

LEMMA ShareType ==
    \A dd, ds \in Nat, d, s \in Int :
        Share(dd, ds, d, s) \in [flag : {0, 1}, demands : Amount, supplies : Amount]
<1> SUFFICES ASSUME NEW dd \in Nat, NEW ds \in Nat, NEW d \in Int, NEW s \in Int
             PROVE  Share(dd, ds, d, s)
                        \in [flag : {0, 1}, demands : Amount, supplies : Amount]
  OBVIOUS
<1>1. dd * s \in Int /\ ds * d \in Int
  OBVIOUS
<1>2. <<dd * s, d>> \in Amount /\ <<ds, 1>> \in Amount
      /\ <<dd, 1>> \in Amount /\ <<ds * d, s>> \in Amount
  BY <1>1 DEF Amount
<1> HIDE DEF Amount
<1>3. QED
  BY <1>2 DEF Share

LEMMA EntryType ==
    \A dd, ds, num, start \in Nat, d, s \in Int :
        Entry(dd, ds, num, start, d, s) \in HostRecord
<1> SUFFICES ASSUME NEW dd \in Nat, NEW ds \in Nat, NEW num \in Nat, NEW start \in Nat,
                    NEW d \in Int, NEW s \in Int
             PROVE  Entry(dd, ds, num, start, d, s) \in HostRecord
  OBVIOUS
<1>1. Share(dd, ds, d, s) \in [flag : {0, 1}, demands : Amount, supplies : Amount]
  BY ShareType
<1> HIDE DEF Share, Amount
<1>2. QED
  BY <1>1 DEF Entry, HostRecord

-----------------------------------------------------------------------------
(* A handler that ends the process leaves the registry as it was.          *)
LEMMA UnchangedRegistry ==
    ASSUME RegistryInv, UNCHANGED registry
    PROVE  RegistryInv'
  BY DEF RegistryInv, RegistryTypeOK, MatrixSized, IndexOneToOne, OwnVoltages,
         RowlessAtZero, registry, Registered, Mapped

LEMMA HostType ==
    RegistryTypeOK =>
        \A g \in Registered : /\ hosts[g].dd \in Nat /\ hosts[g].ds \in Nat
                              /\ hosts[g].num \in Nat /\ hosts[g].start \in Nat
  BY DEF RegistryTypeOK, HostRecord

LEMMA LoadUpdateInv ==
    ASSUME RegistryInv, NEW h \in Host, NEW load \in Load, LoadUpdate(h, load)
    PROVE  RegistryInv'
<1> DEFINE rec == IF h \in Registered THEN hosts[h] ELSE NewHost
           d == Replace(totalD, rec.dd, load[1])
           s == Replace(totalS, rec.ds, load[2])
           entry(g, dd, ss) ==
             IF g = h
             THEN Entry(load[1], load[2], rec.num, rec.start, dd, ss)
             ELSE Entry(hosts[g].dd, hosts[g].ds, hosts[g].num, hosts[g].start, dd, ss)
<1>1. CASE ConnectFails(Registered \ {h})
  BY <1>1, UnchangedRegistry DEF ConnectFails
<1>2. CASE /\ totalD' = d
           /\ totalS' = s
           /\ hosts' = [g \in Registered \cup {h} |-> entry(g, d, s)]
           /\ UNCHANGED <<bnum, matrix, piIndex, indexPi, okNext, status, stray>>
  <2> USE DEF RegistryInv
  <2>1. load[1] \in Nat /\ load[2] \in Nat
    BY LoadAssumption
  <2>2. rec.dd \in Nat /\ rec.ds \in Nat /\ rec.num \in Nat /\ rec.start \in Nat
    BY HostType DEF NewHost
  <2>3. totalD \in Int /\ totalS \in Int
    BY DEF RegistryTypeOK
  <2>4. PICK dd \in Int, ss \in Int :
            /\ totalD' = dd /\ totalS' = ss
            /\ hosts' = [g \in Registered \cup {h} |-> entry(g, dd, ss)]
    <3> HIDE DEF rec
    <3>1. d \in Int /\ s \in Int
      BY <2>1, <2>2, <2>3 DEF Replace
    <3> QED
      BY <1>2, <3>1
  <2>5. PICK ld \in Nat, ls \in Nat, n \in Nat, st \in Nat :
            /\ n = rec.num /\ st = rec.start
            /\ ld = load[1] /\ ls = load[2]
    BY <2>1, <2>2
  <2>6. Registered' = Registered \cup {h} /\ Mapped' = Mapped
    BY <1>2 DEF Registered, Mapped
  <2>7. ASSUME NEW g \in Registered'
        PROVE  /\ hosts'[g] \in HostRecord
               /\ hosts'[g].num = IF g \in Registered THEN hosts[g].num ELSE 0
               /\ hosts'[g].start = IF g \in Registered THEN hosts[g].start ELSE 0
    <3>1. hosts'[g] = entry(g, dd, ss)
      BY <2>4, <2>6, <2>7
    <3>2. CASE g = h
      <4>1. hosts'[g] = Entry(ld, ls, n, st, dd, ss)
        BY <3>1, <3>2, <2>5
      <4>2. /\ n = IF g \in Registered THEN hosts[g].num ELSE 0
            /\ st = IF g \in Registered THEN hosts[g].start ELSE 0
        BY <3>2, <2>5 DEF NewHost
      <4> QED
        <5>0. Entry(ld, ls, n, st, dd, ss) \in HostRecord
          BY EntryType
        <5>1. hosts'[g] \in HostRecord
          BY <4>1, <5>0
        <5>2. hosts'[g].num = n /\ hosts'[g].start = st
          BY <4>1 DEF Entry
        <5> QED
          BY <5>1, <5>2, <4>2
    <3>3. CASE g # h
      <4>1. hosts'[g] = Entry(hosts[g].dd, hosts[g].ds, hosts[g].num, hosts[g].start, dd, ss)
        BY <3>1, <3>3
      <4>2. g \in Registered
        BY <2>6, <2>7, <3>3
      <4> QED
        <5>1. PICK a \in Nat, b \in Nat, c \in Nat, e \in Nat :
                 /\ a = hosts[g].dd /\ b = hosts[g].ds
                 /\ c = hosts[g].num /\ e = hosts[g].start
          BY <4>2, HostType
        <5>2. hosts'[g] = Entry(a, b, c, e, dd, ss)
          BY <4>1, <5>1
        <5>3. Entry(a, b, c, e, dd, ss) \in HostRecord
          BY EntryType
        <5>4. hosts'[g] \in HostRecord
          BY <5>2, <5>3
        <5>5. hosts'[g].num = c /\ hosts'[g].start = e
          BY <5>2 DEF Entry
        <5> QED
          BY <5>1, <5>4, <5>5, <4>2
    <3> QED
      BY <3>2, <3>3
  <2> HIDE DEF d, s, entry, rec
  <2>8. hosts' \in [Registered' -> HostRecord]
    BY <2>4, <2>6, <2>7
  <2>9. RegistryTypeOK'
    BY <1>2, <2>4, <2>6, <2>8 DEF RegistryTypeOK
  <2>10. MatrixSized' /\ IndexOneToOne'
    BY <1>2, <2>6 DEF MatrixSized, IndexOneToOne
  <2>11. OwnVoltages'
    <3>1. ASSUME NEW g \in Registered', hosts'[g].num > 0
          PROVE  g \in Registered /\ hosts'[g].num = hosts[g].num
                 /\ hosts'[g].start = hosts[g].start
      BY <2>7, <3>1
    <3>2. UNCHANGED <<piIndex, indexPi>> /\ Mapped' = Mapped
      BY <1>2, <2>6
    <3> QED
      BY <3>1, <3>2 DEF OwnVoltages
  <2>12. RowlessAtZero'
    BY <2>6, <2>7 DEF RowlessAtZero
  <2> QED
    BY <2>9, <2>10, <2>11, <2>12
<1>3. QED
  BY <1>1, <1>2 DEF LoadUpdate

-----------------------------------------------------------------------------
LEMMA GrownType ==
    RegistryInv =>
        \A h \in Host : \E adj, deg, inj :
            /\ Grown(h) = [mem |-> "live", dim |-> bnum + Num[h], adj |-> adj,
                           deg |-> deg, inj |-> inj]
            /\ adj \subseteq SUBSET (0 .. bnum + Num[h] - 1)
            /\ deg \in [0 .. bnum + Num[h] - 1 -> Int]
            /\ inj \in [0 .. bnum + Num[h] - 1 -> Host \cup {NoHost}]
<1> SUFFICES ASSUME RegistryInv, NEW h \in Host
             PROVE  \E adj, deg, inj :
                      /\ Grown(h) = [mem |-> "live", dim |-> bnum + Num[h], adj |-> adj,
                                     deg |-> deg, inj |-> inj]
                      /\ adj \subseteq SUBSET (0 .. bnum + Num[h] - 1)
                      /\ deg \in [0 .. bnum + Num[h] - 1 -> Int]
                      /\ inj \in [0 .. bnum + Num[h] - 1 -> Host \cup {NoHost}]
  OBVIOUS
<1> DEFINE linked == {r \in 0 .. Num[h] - 1 : Peer[<<h, r>>] \in Mapped}
           at(r) == piIndex[Peer[<<h, r>>]]
           adj == (IF bnum = 0 THEN {} ELSE matrix.adj)
                      \cup {{at(r), bnum + r} : r \in linked}
           deg == [i \in 0 .. bnum + Num[h] - 1 |->
                    IF i < bnum
                    THEN matrix.deg[i] + IF \E r \in linked : at(r) = i THEN 1 ELSE 0
                    ELSE IF i - bnum \in linked THEN 1 ELSE 0]
           inj == [i \in 0 .. bnum + Num[h] - 1 |->
                    IF i < bnum THEN matrix.inj[i] ELSE h]
<1>1. bnum \in Nat /\ Num[h] \in Nat /\ Num[h] > 0 /\ matrix.dim = bnum
  BY PiShape DEF RegistryInv, RegistryTypeOK, MatrixSized
<1>2. Grown(h) = [mem |-> "live", dim |-> bnum + Num[h], adj |-> adj,
                  deg |-> deg, inj |-> inj]
  BY DEF Grown
<1>3. adj \subseteq SUBSET (0 .. bnum + Num[h] - 1)
  <2>1. matrix.adj \subseteq SUBSET (0 .. bnum - 1)
    BY <1>1 DEF RegistryInv, RegistryTypeOK
  <2>2. ASSUME NEW r \in linked
        PROVE  at(r) \in 0 .. bnum - 1 /\ r \in 0 .. Num[h] - 1
    BY <1>1 DEF RegistryInv, RegistryTypeOK, IndexOneToOne
  <2> HIDE DEF linked, at
  <2>3. 0 .. bnum - 1 \subseteq 0 .. bnum + Num[h] - 1
    BY <1>1
  <2>4. ASSUME NEW r \in linked
        PROVE  {at(r), bnum + r} \subseteq 0 .. bnum + Num[h] - 1
    BY <2>2, <1>1
  <2>5. QED
    BY <2>1, <2>3, <2>4
<1>4. deg \in [0 .. bnum + Num[h] - 1 -> Int]
  <2>1. \A i \in 0 .. bnum - 1 : matrix.deg[i] \in Int
    BY <1>1 DEF RegistryInv, RegistryTypeOK
  <2>2. \A i \in 0 .. bnum + Num[h] - 1 : i < bnum => i \in 0 .. bnum - 1
    BY <1>1
  <2> HIDE DEF linked, at
  <2>3. QED
    BY <2>1, <2>2
<1>5. inj \in [0 .. bnum + Num[h] - 1 -> Host \cup {NoHost}]
  <2>1. \A i \in 0 .. bnum - 1 : matrix.inj[i] \in Host \cup {NoHost}
    BY <1>1 DEF RegistryInv, RegistryTypeOK
  <2>2. \A i \in 0 .. bnum + Num[h] - 1 : i < bnum => i \in 0 .. bnum - 1
    BY <1>1
  <2>3. QED
    BY <2>1, <2>2
<1> HIDE DEF adj, deg, inj
<1>6. QED
  BY <1>2, <1>3, <1>4, <1>5

LEMMA CoordinateInv ==
    ASSUME RegistryInv, NEW h \in Host, Coordinate(h)
    PROVE  RegistryInv'
<1>1. CASE ConnectFails(Registered \ {h})
  BY <1>1, UnchangedRegistry DEF ConnectFails
<1>2. CASE ~ ConnectFails(Registered \ {h})
  <2>1. /\ hosts' = [g \in Registered |->
                       IF g = h THEN [hosts[g] EXCEPT !.num = Num[h], !.start = bnum]
                                ELSE hosts[g]]
        /\ bnum' = bnum + Num[h]
        /\ matrix' = Grown(h)
        /\ piIndex' = [p \in Mapped \cup Own(h) |->
                         IF p \in Own(h) THEN bnum + p[2] ELSE piIndex[p]]
        /\ indexPi' = [i \in DOMAIN indexPi \cup bnum .. bnum + Num[h] - 1 |->
                         IF i \in bnum .. bnum + Num[h] - 1
                         THEN <<h, i - bnum>> ELSE indexPi[i]]
        /\ okNext' = TRUE
        /\ UNCHANGED <<totalD, totalS, stray>>
    BY <1>2 DEF Coordinate
  <2>2. bnum \in Nat /\ Num[h] \in Nat /\ Num[h] > 0
    BY PiShape DEF RegistryInv, RegistryTypeOK
  <2>a. bnum' = bnum + Num[h] /\ matrix' = Grown(h) /\ okNext' = TRUE
    BY <2>1
  <2>b. totalD' = totalD /\ totalS' = totalS /\ stray' = stray
    BY <2>1
  <2>3. Registered' = Registered /\ Mapped' = Mapped \cup Own(h)
        /\ DOMAIN indexPi' = DOMAIN indexPi \cup bnum .. bnum + Num[h] - 1
    BY <2>1 DEF Registered, Mapped
  <2>4. ASSUME NEW g \in Registered
        PROVE  /\ hosts'[g] \in HostRecord
               /\ g = h => hosts'[g].num = Num[h] /\ hosts'[g].start = bnum
               /\ g # h => hosts'[g] = hosts[g]
    <3>1. hosts[g] \in HostRecord
      BY DEF RegistryInv, RegistryTypeOK
    <3>2. CASE g # h
      BY <3>1, <3>2, <2>1
    <3>3. CASE g = h
      <4>1. hosts'[g] = [hosts[g] EXCEPT !.num = Num[h], !.start = bnum]
        BY <3>3, <2>1
      <4> QED
        BY <4>1, <3>1, <3>3, <2>2 DEF HostRecord
    <3> QED
      BY <3>2, <3>3
  <2>5. ASSUME NEW p \in Mapped'
        PROVE  /\ p \in Own(h) => /\ piIndex'[p] = bnum + p[2]
                                  /\ p = <<h, p[2]>> /\ p[2] \in 0 .. Num[h] - 1
               /\ p \notin Own(h) => p \in Mapped /\ piIndex'[p] = piIndex[p]
    BY <2>1, <2>3, PiShape
  <2>6. \A i \in DOMAIN indexPi' :
          /\ i \in bnum .. bnum + Num[h] - 1 => indexPi'[i] = <<h, i - bnum>>
          /\ i \notin bnum .. bnum + Num[h] - 1 =>
                i \in DOMAIN indexPi /\ indexPi'[i] = indexPi[i]
    BY <2>1, <2>3
  <2>7. RegistryTypeOK'
    <3>1. Registered' \subseteq Host /\ hosts' \in [Registered' -> HostRecord]
      BY <2>1, <2>3, <2>4 DEF RegistryInv, RegistryTypeOK
    <3>2. /\ DOMAIN matrix' = {"mem", "dim", "adj", "deg", "inj"}
          /\ matrix'.mem \in {"null", "live", "freed"}
          /\ matrix'.dim \in Nat
          /\ matrix'.adj \subseteq SUBSET (0 .. matrix'.dim - 1)
          /\ matrix'.deg \in [0 .. matrix'.dim - 1 -> Int]
          /\ matrix'.inj \in [0 .. matrix'.dim - 1 -> Host \cup {NoHost}]
      <4>1. PICK adj, deg, inj :
               /\ Grown(h) = [mem |-> "live", dim |-> bnum + Num[h], adj |-> adj,
                              deg |-> deg, inj |-> inj]
               /\ adj \subseteq SUBSET (0 .. bnum + Num[h] - 1)
               /\ deg \in [0 .. bnum + Num[h] - 1 -> Int]
               /\ inj \in [0 .. bnum + Num[h] - 1 -> Host \cup {NoHost}]
        BY GrownType
      <4>2. PICK n \in Nat : n = bnum + Num[h]
        BY <2>2
      <4>3. matrix' = [mem |-> "live", dim |-> n, adj |-> adj, deg |-> deg, inj |-> inj]
        BY <4>1, <4>2, <2>a
      <4>4. /\ adj \subseteq SUBSET (0 .. n - 1)
            /\ deg \in [0 .. n - 1 -> Int]
            /\ inj \in [0 .. n - 1 -> Host \cup {NoHost}]
        <5>1. 0 .. n - 1 = 0 .. bnum + Num[h] - 1
          BY <2>2, <4>2
        <5> QED
          BY <4>1, <5>1
      <4>5. matrix'.dim = n /\ matrix'.adj = adj /\ matrix'.deg = deg /\ matrix'.inj = inj
            /\ matrix'.mem = "live" /\ DOMAIN matrix' = {"mem", "dim", "adj", "deg", "inj"}
        BY <4>3
      <4> QED
        BY <4>4, <4>5
    <3>3. Mapped' \subseteq Pi /\ piIndex' \in [Mapped' -> Nat]
      <4>1. Mapped' \subseteq Pi
        BY <2>3, PiShape DEF RegistryInv, RegistryTypeOK
      <4>2. \A q \in Mapped : piIndex[q] \in Nat
        BY DEF RegistryInv, RegistryTypeOK
      <4>3. ASSUME NEW p \in Mapped'
            PROVE  piIndex'[p] \in Nat
        <5>1. CASE p \in Own(h)
          <6>1. piIndex'[p] = bnum + p[2] /\ p[2] \in Nat
            BY <5>1, <2>5
          <6> QED
            BY <6>1, <2>2
        <5>2. CASE p \notin Own(h)
          BY <5>2, <2>5, <4>2
        <5> QED
          BY <5>1, <5>2
      <4> QED
        BY <4>1, <4>3, <2>1, <2>3
    <3>4. DOMAIN indexPi' \subseteq Nat /\ indexPi' \in [DOMAIN indexPi' -> Pi]
      <4>1. DOMAIN indexPi' \subseteq Nat
        BY <2>2, <2>3 DEF RegistryInv, RegistryTypeOK
      <4>2. \A i \in bnum .. bnum + Num[h] - 1 : i - bnum \in 0 .. Num[h] - 1
        BY <2>2
      <4>3. \A i \in DOMAIN indexPi' : indexPi'[i] \in Pi
        BY <2>6, <4>2, PiShape DEF RegistryInv, RegistryTypeOK
      <4> QED
        BY <4>1, <4>3, <2>1
    <3>5. bnum' \in Nat /\ totalD' \in Int /\ totalS' \in Int /\ stray' \in 0 .. MaxStray
      <4>1. totalD \in Int /\ totalS \in Int /\ stray \in 0 .. MaxStray
        BY DEF RegistryInv, RegistryTypeOK
      <4> QED
        BY <4>1, <2>a, <2>b, <2>2
    <3>6. okNext' \in BOOLEAN
      BY <2>a
    <3> QED
      BY <3>1, <3>2, <3>3, <3>4, <3>5, <3>6 DEF RegistryTypeOK
  <2>8. MatrixSized'
    BY <2>a, GrownType DEF MatrixSized
  <2>9. IndexOneToOne'
    <3>1. ASSUME NEW p \in Mapped
          PROVE  piIndex[p] \in Nat /\ piIndex[p] < bnum /\ piIndex[p] \in DOMAIN indexPi
                 /\ indexPi[piIndex[p]] = p
      BY DEF RegistryInv, RegistryTypeOK, IndexOneToOne
    <3>2. ASSUME NEW p \in Mapped'
          PROVE  /\ piIndex'[p] < bnum'
                 /\ piIndex'[p] \in DOMAIN indexPi'
                 /\ indexPi'[piIndex'[p]] = p
      <4>1. CASE p \in Own(h)
        <5>1. piIndex'[p] = bnum + p[2] /\ p = <<h, p[2]>> /\ p[2] \in 0 .. Num[h] - 1
          BY <4>1, <2>5
        <5>2. PICK i \in bnum .. bnum + Num[h] - 1 : i = piIndex'[p] /\ i - bnum = p[2]
          BY <5>1, <2>2
        <5>3. i \in DOMAIN indexPi' /\ indexPi'[i] = <<h, i - bnum>> /\ i < bnum'
          BY <5>2, <2>a, <2>2, <2>3, <2>6
        <5> QED
          BY <5>1, <5>2, <5>3
      <4>2. CASE p \notin Own(h)
        <5>1. p \in Mapped /\ piIndex'[p] = piIndex[p]
          BY <4>2, <2>5
        <5>2. PICK i \in Nat : i = piIndex[p] /\ i < bnum /\ i \in DOMAIN indexPi
                              /\ indexPi[i] = p
          BY <5>1, <3>1
        <5>3. i \notin bnum .. bnum + Num[h] - 1 /\ i < bnum'
          BY <5>2, <2>a, <2>2
        <5>4. i \in DOMAIN indexPi' /\ indexPi'[i] = p
          BY <5>2, <5>3, <2>3, <2>6
        <5> QED
          BY <5>1, <5>2, <5>3, <5>4
      <4> QED
        BY <4>1, <4>2
    <3> QED
      BY <3>2 DEF IndexOneToOne
  <2>10. OwnVoltages'
    <3>1. ASSUME NEW g \in Registered', hosts'[g].num > 0
          PROVE  /\ hosts'[g].num = Num[g]
                 /\ \A r \in 0 .. Num[g] - 1 :
                       /\ <<g, r>> \in Mapped'
                       /\ piIndex'[<<g, r>>] = hosts'[g].start + r
                       /\ hosts'[g].start + r \in DOMAIN indexPi'
                       /\ indexPi'[hosts'[g].start + r] = <<g, r>>
      <4>1. CASE g = h
        <5>1. hosts'[g].num = Num[h] /\ hosts'[g].start = bnum
          BY <4>1, <2>3, <2>4
        <5>2. ASSUME NEW r \in 0 .. Num[h] - 1
              PROVE  /\ <<h, r>> \in Own(h) /\ <<h, r>>[2] = r
                     /\ bnum + r \in bnum .. bnum + Num[h] - 1 /\ bnum + r - bnum = r
          BY <2>2, PiShape
        <5>3. ASSUME NEW r \in 0 .. Num[h] - 1
              PROVE  /\ <<h, r>> \in Mapped'
                     /\ piIndex'[<<h, r>>] = bnum + r
                     /\ bnum + r \in DOMAIN indexPi'
                     /\ indexPi'[bnum + r] = <<h, r>>
          <6>1. <<h, r>> \in Mapped' /\ piIndex'[<<h, r>>] = bnum + r
            BY <5>2, <2>3, <2>5
          <6>2. PICK i \in bnum .. bnum + Num[h] - 1 : i = bnum + r /\ i - bnum = r
            BY <5>2, <2>2
          <6>3. i \in DOMAIN indexPi' /\ indexPi'[i] = <<h, i - bnum>>
            BY <2>3, <2>6
          <6> QED
            BY <6>1, <6>2, <6>3
        <5> QED
          BY <5>1, <5>3, <4>1
      <4>2. CASE g # h
        <5>1. g \in Registered /\ hosts'[g] = hosts[g] /\ g \in Host
          BY <4>2, <2>3, <2>4 DEF RegistryInv, RegistryTypeOK
        <5>2. ASSUME NEW r \in 0 .. Num[g] - 1
              PROVE  /\ <<g, r>> \in Mapped /\ <<g, r>> \notin Own(h)
                     /\ piIndex[<<g, r>>] = hosts[g].start + r
                     /\ hosts[g].start + r \in DOMAIN indexPi
                     /\ indexPi[hosts[g].start + r] = <<g, r>>
                     /\ piIndex[<<g, r>>] \notin bnum .. bnum + Num[h] - 1
          <6>1. /\ <<g, r>> \in Mapped
                /\ piIndex[<<g, r>>] = hosts[g].start + r
                /\ hosts[g].start + r \in DOMAIN indexPi
                /\ indexPi[hosts[g].start + r] = <<g, r>>
            BY <5>1, <3>1 DEF RegistryInv, OwnVoltages
          <6>2. <<g, r>> \notin Own(h)
            BY <4>2 DEF Own
          <6>3. piIndex[<<g, r>>] \in Nat /\ piIndex[<<g, r>>] < bnum
            BY <6>1 DEF RegistryInv, RegistryTypeOK, IndexOneToOne
          <6> QED
            BY <6>1, <6>2, <6>3, <2>2
        <5>3. hosts'[g].num = Num[g]
          BY <5>1, <3>1 DEF RegistryInv, OwnVoltages
        <5> QED
          BY <5>1, <5>2, <5>3, <2>3, <2>5, <2>6
      <4> QED
        BY <4>1, <4>2
    <3> QED
      BY <3>1 DEF OwnVoltages
  <2>11. RowlessAtZero'
    BY <2>2, <2>3, <2>4 DEF RegistryInv, RowlessAtZero
  <2> QED
    BY <2>7, <2>8, <2>9, <2>10, <2>11 DEF RegistryInv
<1>3. QED
  BY <1>1, <1>2

-----------------------------------------------------------------------------
LEMMA CoordinateUpdateInv ==
    ASSUME RegistryInv, NEW h \in Host, CoordinateUpdate(h)
    PROVE  RegistryInv'
<1> DEFINE inj == [i \in DOMAIN matrix.inj |->
                    IF i \in hosts[h].start .. hosts[h].start + Num[h] - 1
                    THEN h ELSE matrix.inj[i]]
<1>1. CASE UNCHANGED registry
  BY <1>1, UnchangedRegistry
<1>2. CASE /\ matrix' = [matrix EXCEPT !.inj = inj]
           /\ UNCHANGED <<hosts, bnum, piIndex, indexPi, totalD, totalS, okNext, stray>>
  <2>1. DOMAIN matrix = {"mem", "dim", "adj", "deg", "inj"}
        /\ matrix.inj \in [0 .. matrix.dim - 1 -> Host \cup {NoHost}]
    BY DEF RegistryInv, RegistryTypeOK
  <2>2. inj \in [0 .. matrix.dim - 1 -> Host \cup {NoHost}]
    BY <2>1
  <2> HIDE DEF inj
  <2>3. /\ DOMAIN matrix' = {"mem", "dim", "adj", "deg", "inj"}
        /\ matrix'.mem = matrix.mem /\ matrix'.dim = matrix.dim
        /\ matrix'.adj = matrix.adj /\ matrix'.deg = matrix.deg
        /\ matrix'.inj = inj
    BY <1>2, <2>1
  <2>4. RegistryTypeOK'
    BY <1>2, <2>2, <2>3 DEF RegistryInv, RegistryTypeOK, Registered, Mapped
  <2>5. MatrixSized'
    BY <1>2, <2>3 DEF RegistryInv, MatrixSized
  <2>6. IndexOneToOne' /\ OwnVoltages' /\ RowlessAtZero'
    BY <1>2 DEF RegistryInv, IndexOneToOne, OwnVoltages, RowlessAtZero, Registered, Mapped
  <2> QED
    BY <2>4, <2>5, <2>6 DEF RegistryInv
<1>3. QED
  BY <1>1, <1>2 DEF CoordinateUpdate, Crash, ConnectFails, registry

-----------------------------------------------------------------------------
LEMMA StrayBound ==
    ASSUME RegistryInv, NEW h \in Host, StrayWrite(h)
    PROVE  stray' \in 0 .. MaxStray
  BY BoundAssumption DEF RegistryInv, RegistryTypeOK, StrayWrite

LEMMA ClearAllInv ==
    ASSUME RegistryInv, NEW h \in Host, ClearAll(h)
    PROVE  RegistryInv'
<1>1. CASE Crash("doubleFree")
  BY <1>1, UnchangedRegistry DEF Crash
<1>2. CASE ~ Crash("doubleFree")
  <2>1. /\ matrix' = NoMatrix(IF matrix.mem = "null" THEN "null" ELSE "freed")
        /\ hosts' = Empty /\ piIndex' = Empty /\ indexPi' = Empty
        /\ bnum' = 0 /\ totalD' = 0 /\ totalS' = 0
        /\ okNext' = TRUE
        /\ StrayWrite(h)
    BY <1>2 DEF ClearAll
  <2>2. DOMAIN Empty = {}
    BY DEF Empty
  <2>3. Registered' = {} /\ Mapped' = {} /\ DOMAIN indexPi' = {}
    BY <2>1, <2>2 DEF Registered, Mapped
  <2>4. 0 .. -1 = {}
    OBVIOUS
  <2>5. /\ DOMAIN matrix' = {"mem", "dim", "adj", "deg", "inj"}
        /\ matrix'.mem \in {"null", "freed"}
        /\ matrix'.dim = 0
        /\ matrix'.adj = {}
        /\ matrix'.deg = [i \in {} |-> 0]
        /\ matrix'.inj = [i \in {} |-> NoHost]
    BY <2>1 DEF NoMatrix
  <2>6. RegistryTypeOK'
    <3>1. /\ Registered' \subseteq Host /\ hosts' \in [Registered' -> HostRecord]
          /\ Mapped' \subseteq Pi /\ piIndex' \in [Mapped' -> Nat]
          /\ DOMAIN indexPi' \subseteq Nat /\ indexPi' \in [DOMAIN indexPi' -> Pi]
      BY <2>1, <2>2, <2>3 DEF Empty
    <3>2. /\ matrix'.deg \in [0 .. matrix'.dim - 1 -> Int]
          /\ matrix'.inj \in [0 .. matrix'.dim - 1 -> Host \cup {NoHost}]
      BY <2>4, <2>5
    <3>3. bnum' \in Nat /\ totalD' \in Int /\ totalS' \in Int /\ okNext' \in BOOLEAN
          /\ stray' \in 0 .. MaxStray
      BY <2>1, StrayBound
    <3> QED
      BY <2>5, <3>1, <3>2, <3>3 DEF RegistryTypeOK
  <2>7. MatrixSized'
    BY <2>1, <2>5 DEF MatrixSized
  <2>8. IndexOneToOne' /\ OwnVoltages' /\ RowlessAtZero'
    BY <2>3 DEF IndexOneToOne, OwnVoltages, RowlessAtZero
  <2> QED
    BY <2>6, <2>7, <2>8 DEF RegistryInv
<1>3. QED
  BY <1>1, <1>2

(* The diagonal stays a vector of integers.                                *)
LEMMA DegType ==
    RegistryInv =>
        \A h \in Host, s \in Int : DegAfterCancel(h, s) \in [0 .. bnum - 1 -> Int]
<1> SUFFICES ASSUME RegistryInv, NEW h \in Host, NEW s \in Int
             PROVE  DegAfterCancel(h, s) \in [0 .. bnum - 1 -> Int]
  OBVIOUS
<1> DEFINE hit(i) == {p \in (Own(h) \cap Mapped) \ Unlinked(h) : piIndex[Peer[p]] = i}
<1>1. IsFiniteSet(Own(h))
  <2> DEFINE S == {h}
             T == 0 .. Num[h] - 1
  <2>1. IsFiniteSet(S) /\ IsFiniteSet(T)
    <3>1. Num[h] - 1 \in Int
      BY PiShape
    <3>2. IsFiniteSet(S)
      BY FS_Singleton
    <3>3. IsFiniteSet(T)
      BY <3>1, FS_Interval
    <3> QED
      BY <3>2, <3>3
  <2> HIDE DEF S, T
  <2>2. IsFiniteSet(S \X T)
    BY <2>1, FS_Product
  <2> QED
    BY <2>2 DEF Own, S, T
<1>2. \A S : S \subseteq Own(h) => Cardinality(S) \in Int
  BY <1>1, FS_Subset, FS_CardinalityType
<1>3. Unlinked(h) \subseteq Own(h) /\ \A i : hit(i) \subseteq Own(h)
  BY DEF Unlinked
<1>4. matrix.deg \in [0 .. bnum - 1 -> Int]
  BY DEF RegistryInv, RegistryTypeOK, MatrixSized
<1>5. DegAfterCancel(h, s) =
        [i \in 0 .. bnum - 1 |->
            matrix.deg[i] - Cardinality(hit(i))
            - IF i = s THEN Cardinality(Unlinked(h)) ELSE 0]
  BY <1>4 DEF DegAfterCancel
<1> HIDE DEF hit
<1>6. ASSUME NEW i \in 0 .. bnum - 1
      PROVE  matrix.deg[i] - Cardinality(hit(i))
             - (IF i = s THEN Cardinality(Unlinked(h)) ELSE 0) \in Int
  <2>1. PICK a \in Int, b \in Int, c \in Int :
            a = matrix.deg[i] /\ b = Cardinality(hit(i)) /\ c = Cardinality(Unlinked(h))
    BY <1>2, <1>3, <1>4
  <2> QED
    BY <2>1
<1>7. QED
  BY <1>5, <1>6

(* A line joins two hosts, and leads back.                                 *)
LEMMA PeerApart ==
    /\ \A p \in Pi : Peer[p] \in Pi /\ Peer[Peer[p]] = p
    /\ \A h \in Host : \A p \in Own(h) : Peer[p] \notin Own(h)
<1>1. \A p \in Pi : Peer[p] \in Pi /\ Peer[Peer[p]] = p /\ Peer[p][1] # p[1]
  BY PeerAssumption
<1>2. ASSUME NEW h \in Host, NEW p \in Own(h)
      PROVE  Peer[p] \notin Own(h)
  <2>1. p \in Pi /\ p[1] = h
    BY PiShape
  <2>2. Peer[p][1] # h
    BY <1>1, <2>1
  <2> QED
    BY <2>2, PiShape
<1>3. QED
  BY <1>1, <1>2

(* The diagonal loses, at the row of an interface that stays, the line     *)
(* that leads to the host that leaves, if there is one.                    *)
LEMMA DegLoses ==
    ASSUME RegistryInv, NEW h \in Host, NEW s \in Int,
           Own(h) \subseteq Mapped, Unlinked(h) = {}, NEW p \in Mapped \ Own(h)
    PROVE  DegAfterCancel(h, s)[piIndex[p]] =
              matrix.deg[piIndex[p]] - IF Peer[p] \in Own(h) THEN 1 ELSE 0
<1> DEFINE hit(i) == {q \in (Own(h) \cap Mapped) \ Unlinked(h) : piIndex[Peer[q]] = i}
           n == piIndex[p]
<1>1. n \in 0 .. bnum - 1 /\ matrix.deg \in [0 .. bnum - 1 -> Int] /\ Mapped \subseteq Pi
  BY DEF RegistryInv, RegistryTypeOK, IndexOneToOne, MatrixSized
<1>2. DegAfterCancel(h, s) =
        [i \in 0 .. bnum - 1 |->
            matrix.deg[i] - Cardinality(hit(i))
            - IF i = s THEN Cardinality(Unlinked(h)) ELSE 0]
  BY <1>1 DEF DegAfterCancel
<1>3. \A q \in Own(h) : q \in hit(n) <=> Peer[q] = p
  <2>1. ASSUME NEW q \in Own(h)
        PROVE  q \in hit(n) <=> Peer[q] = p
    <3>1. Peer[q] \in Mapped /\ q \in Mapped
      BY DEF Unlinked
    <3> QED
      BY <3>1 DEF RegistryInv, IndexOneToOne
  <2> QED
    BY <2>1
<1>4. hit(n) \subseteq Own(h)
  OBVIOUS
<1>5. Cardinality(Unlinked(h)) = 0
  BY FS_EmptySet
<1> HIDE DEF hit, n
<1>6. Cardinality(hit(n)) = IF Peer[p] \in Own(h) THEN 1 ELSE 0
  <2>1. CASE Peer[p] \in Own(h)
    <3>1. hit(n) = {Peer[p]}
      BY <1>1, <1>3, <1>4, <2>1, PeerApart
    <3>2. Cardinality({Peer[p]}) = 1
      BY FS_Singleton
    <3> QED
      BY <2>1, <3>1, <3>2
  <2>2. CASE Peer[p] \notin Own(h)
    <3>1. hit(n) = {}
      BY <1>3, <1>4, <2>2, PeerApart, PiShape
    <3> QED
      BY <2>2, <3>1, FS_EmptySet
  <2> QED
    BY <2>1, <2>2
<1>7. PICK c \in Int : c = IF Peer[p] \in Own(h) THEN 1 ELSE 0
  OBVIOUS
<1>d. PICK d \in Int : d = matrix.deg[n]
  BY <1>1
<1>8. DegAfterCancel(h, s)[n] = d - c - IF n = s THEN 0 ELSE 0
  BY <1>1, <1>2, <1>5, <1>6, <1>7, <1>d
<1>9. QED
  BY <1>7, <1>d, <1>8 DEF n

LEMMA CutType ==
    RegistryInv =>
        \A deg \in [0 .. bnum - 1 -> Int], start \in Nat, len \in Nat :
            bnum - len > 0 =>
            \E adj, d, inj :
                /\ Cut(deg, start, len) = [mem |-> "live", dim |-> bnum - len, adj |-> adj,
                                          deg |-> d, inj |-> inj]
                /\ adj \subseteq SUBSET (0 .. bnum - len - 1)
                /\ d \in [0 .. bnum - len - 1 -> Int]
                /\ inj \in [0 .. bnum - len - 1 -> Host \cup {NoHost}]
<1> SUFFICES ASSUME RegistryInv, NEW deg \in [0 .. bnum - 1 -> Int],
                    NEW start \in Nat, NEW len \in Nat, bnum - len > 0
             PROVE  \E adj, d, inj :
                /\ Cut(deg, start, len) = [mem |-> "live", dim |-> bnum - len, adj |-> adj,
                                          deg |-> d, inj |-> inj]
                /\ adj \subseteq SUBSET (0 .. bnum - len - 1)
                /\ d \in [0 .. bnum - len - 1 -> Int]
                /\ inj \in [0 .. bnum - len - 1 -> Host \cup {NoHost}]
  OBVIOUS
<1> DEFINE old(i) == IF i < start THEN i ELSE i + len
           rows == 0 .. bnum - len - 1
           adj == {{i, j} : i, j \in rows} \cap
                    {e \in SUBSET rows : {old(i) : i \in e} \in matrix.adj}
           d == [i \in rows |-> deg[old(i)]]
           inj == [i \in rows |-> NoHost]
<1>1. bnum \in Nat
  BY DEF RegistryInv, RegistryTypeOK
<1>2. \A i \in rows : old(i) \in 0 .. bnum - 1
  BY <1>1
<1>3. Cut(deg, start, len) = [mem |-> "live", dim |-> bnum - len, adj |-> adj,
                            deg |-> d, inj |-> inj]
  BY DEF Cut
<1> HIDE DEF old
<1>4. adj \subseteq SUBSET rows
  OBVIOUS
<1>5. d \in [rows -> Int] /\ inj \in [rows -> Host \cup {NoHost}]
  BY <1>2
<1> HIDE DEF adj, d, inj
<1>6. QED
  BY <1>3, <1>4, <1>5

-----------------------------------------------------------------------------
(* Where the rows of the others lie, seen from the rows a host takes out.  *)
LEMMA RowsApart ==
    RegistryInv =>
        \A h \in Registered :
            Own(h) \subseteq Mapped /\ hosts[h].num > 0 =>
                /\ \A p \in Own(h) :
                      piIndex[p] \in hosts[h].start .. hosts[h].start + hosts[h].num - 1
                /\ \A p \in Mapped \ Own(h) :
                      piIndex[p] \notin hosts[h].start .. hosts[h].start + hosts[h].num - 1
                /\ hosts[h].start + hosts[h].num <= bnum
<1> SUFFICES ASSUME RegistryInv, NEW h \in Registered,
                    Own(h) \subseteq Mapped, hosts[h].num > 0
             PROVE  /\ \A p \in Own(h) :
                          piIndex[p] \in hosts[h].start .. hosts[h].start + hosts[h].num - 1
                    /\ \A p \in Mapped \ Own(h) :
                          piIndex[p] \notin hosts[h].start .. hosts[h].start + hosts[h].num - 1
                    /\ hosts[h].start + hosts[h].num <= bnum
  OBVIOUS
<1>1. h \in Host /\ bnum \in Nat
  BY DEF RegistryInv, RegistryTypeOK
<1>2. PICK st \in Nat, len \in Nat :
          st = hosts[h].start /\ len = hosts[h].num /\ len = Num[h] /\ len > 0
  BY HostType DEF RegistryInv, OwnVoltages
<1>3. \A r \in 0 .. len - 1 : <<h, r>> \in Mapped /\ piIndex[<<h, r>>] = st + r
  BY <1>2 DEF RegistryInv, OwnVoltages
<1>4. \A p, q \in Mapped : piIndex[p] = piIndex[q] => p = q
  BY DEF RegistryInv, IndexOneToOne
<1>5. \A p \in Own(h) : p = <<h, p[2]>> /\ p[2] \in 0 .. len - 1
  BY <1>1, <1>2, PiShape
<1>6. \A r \in 0 .. len - 1 : <<h, r>> \in Own(h)
  BY <1>1, <1>2, PiShape
<1>7. \A p \in Own(h) : piIndex[p] \in st .. st + len - 1
  BY <1>3, <1>5
<1>8. ASSUME NEW p \in Mapped \ Own(h), piIndex[p] \in st .. st + len - 1
      PROVE  FALSE
  <2>1. PICK r \in 0 .. len - 1 : piIndex[p] = st + r
    <3>1. piIndex[p] - st \in 0 .. len - 1 /\ piIndex[p] = st + (piIndex[p] - st)
      BY <1>8
    <3> QED
      BY <3>1
  <2>2. <<h, r>> \in Mapped /\ piIndex[<<h, r>>] = piIndex[p]
    BY <1>3, <2>1
  <2>3. p = <<h, r>>
    BY <1>4, <2>2
  <2> QED
    BY <1>6, <2>3
<1>9. st + len <= bnum
  <2>1. len - 1 \in 0 .. len - 1
    BY <1>2
  <2>2. <<h, len - 1>> \in Mapped /\ piIndex[<<h, len - 1>>] = st + (len - 1)
    BY <1>3, <2>1
  <2>3. piIndex[<<h, len - 1>>] < bnum
    BY <2>2 DEF RegistryInv, IndexOneToOne
  <2> QED
    BY <1>1, <1>2, <2>2, <2>3
<1>10. QED
  BY <1>2, <1>7, <1>8, <1>9

(* Closing the gap of len rows at st, seen from row x of the gap.          *)
LEMMA CloseGap ==
    ASSUME NEW b \in Nat, NEW st \in Nat, NEW len \in Nat, NEW x \in Nat, b - len > 0,
           len > 0 => x \in st .. st + len - 1 /\ st + len <= b
    PROVE  /\ \A n \in 0 .. b - 1 :
                 (len > 0 => n \notin st .. st + len - 1) =>
                    (IF n > x THEN n - len ELSE n) \in 0 .. b - len - 1
           /\ \A n, m \in 0 .. b - 1 :
                 /\ len > 0 => n \notin st .. st + len - 1 /\ m \notin st .. st + len - 1
                 /\ (IF n > x THEN n - len ELSE n) = (IF m > x THEN m - len ELSE m)
                 => n = m
<1>1. CASE len = 0
  BY <1>1
<1>2. CASE len > 0
  BY <1>2
<1>3. QED
  BY <1>1, <1>2

(* A run of k rows at gs that avoids the gap moves as one.                 *)
LEMMA IntervalsApart ==
    ASSUME NEW st \in Nat, NEW len \in Nat, NEW x \in Nat, NEW gs \in Nat, NEW k \in Nat,
           k > 0,
           len > 0 => /\ x \in st .. st + len - 1
                      /\ \A r \in 0 .. k - 1 : gs + r \notin st .. st + len - 1
    PROVE  /\ (IF gs > st THEN gs - len ELSE gs) \in Nat
           /\ \A r \in 0 .. k - 1 :
                 (IF gs + r > x THEN gs + r - len ELSE gs + r)
                     = (IF gs > st THEN gs - len ELSE gs) + r
<1>1. CASE len = 0
  BY <1>1
<1>2. CASE len > 0
  <2>1. gs + 0 \notin st .. st + len - 1
    BY <1>2
  <2>2. CASE gs >= st + len
    BY <1>2, <2>2
  <2>3. CASE gs < st
    <3>1. gs + k - 1 < st
      <4>1. SUFFICES ASSUME st - gs \in 0 .. k - 1 PROVE FALSE
        BY <2>3
      <4>2. gs + (st - gs) \notin st .. st + len - 1
        BY <1>2, <4>1
      <4> QED
        BY <1>2, <4>2
    <3> QED
      BY <1>2, <2>3, <3>1
  <2> QED
    BY <2>1, <2>2, <2>3
<1>3. QED
  BY <1>1, <1>2

LEMMA RemoveRowsInv ==
    ASSUME RegistryInv, NEW h \in Host, h \in Registered, NEW first \in Own(h), NEW s \in Int,
           RemoveRows(h, first, s)
    PROVE  RegistryInv'
<1>1. CASE Crash("badAccess")
  BY <1>1, UnchangedRegistry DEF Crash
<1>2. CASE ~ Crash("badAccess")
  <2> DEFINE index == [p \in Mapped \ Own(h) |->
                         IF piIndex[p] > piIndex[first] THEN piIndex[p] - hosts[h].num
                                                        ELSE piIndex[p]]
             start(g) == IF hosts[g].start > hosts[h].start
                         THEN hosts[g].start - hosts[h].num ELSE hosts[g].start
             d == totalD - hosts[h].dd
             sup == totalS - hosts[h].ds
  <2>1. /\ Own(h) \subseteq Mapped
        /\ bnum - hosts[h].num > 0
        /\ matrix' = Cut(DegAfterCancel(h, s), hosts[h].start, hosts[h].num)
        /\ bnum' = bnum - hosts[h].num
        /\ totalD' = d /\ totalS' = sup
        /\ hosts' = [g \in Registered \ {h} |->
              Entry(hosts[g].dd, hosts[g].ds, hosts[g].num, start(g), d, sup)]
        /\ piIndex' = index
        /\ indexPi' = [i \in {index[p] : p \in DOMAIN index} |->
                         CHOOSE p \in DOMAIN index : index[p] = i]
        /\ StrayWrite(h)
        /\ okNext' = okNext
    BY <1>2 DEF RemoveRows, StartAfter, IndexAfter
  <2>2. PICK b \in Nat, st \in Nat, len \in Nat, x \in Nat :
            /\ b = bnum /\ st = hosts[h].start /\ len = hosts[h].num
            /\ x = piIndex[first] /\ b - len > 0
    BY <2>1, HostType DEF RegistryInv, RegistryTypeOK
  <2>t. d \in Int /\ sup \in Int
    <3>1. PICK a \in Nat, c \in Nat, t \in Int, u \in Int :
              a = hosts[h].dd /\ c = hosts[h].ds /\ t = totalD /\ u = totalS
      BY HostType DEF RegistryInv, RegistryTypeOK
    <3> QED
      BY <3>1
  <2>3. bnum' = b - len /\ Registered' = Registered \ {h} /\ Mapped' = Mapped \ Own(h)
    BY <2>1, <2>2 DEF Registered, Mapped
  <2>4. len > 0 =>
          /\ x \in st .. st + len - 1 /\ st + len <= b
          /\ \A p \in Mapped \ Own(h) : piIndex[p] \notin st .. st + len - 1
    BY <2>1, <2>2, RowsApart
  <2>5. \A p \in Mapped : piIndex[p] \in 0 .. b - 1
    BY <2>2 DEF RegistryInv, RegistryTypeOK, IndexOneToOne
  <2>6. \A p \in Mapped' :
          piIndex'[p] = IF piIndex[p] > x THEN piIndex[p] - len ELSE piIndex[p]
    BY <2>1, <2>2, <2>3
  <2>7. \A p \in Mapped' : piIndex'[p] \in 0 .. b - len - 1
    BY <2>2, <2>3, <2>4, <2>5, <2>6, CloseGap
  <2>8. \A p, q \in Mapped' : piIndex'[p] = piIndex'[q] => p = q
    <3>1. ASSUME NEW p \in Mapped', NEW q \in Mapped', piIndex'[p] = piIndex'[q]
          PROVE  p = q
      <4>1. piIndex[p] = piIndex[q]
        BY <3>1, <2>2, <2>3, <2>4, <2>5, <2>6, CloseGap
      <4> QED
        BY <4>1, <2>3 DEF RegistryInv, IndexOneToOne
    <3> QED
      BY <3>1
  <2>9. /\ DOMAIN indexPi' = {piIndex'[p] : p \in Mapped'}
        /\ indexPi' = [i \in DOMAIN indexPi' |-> CHOOSE p \in Mapped' : piIndex'[p] = i]
    BY <2>1, <2>3 DEF Mapped
  <2> HIDE DEF index
  <2>10. \A p \in Mapped' : piIndex'[p] \in DOMAIN indexPi' /\ indexPi'[piIndex'[p]] = p
    BY <2>8, <2>9
  <2>11. \A i \in DOMAIN indexPi' : i \in Nat /\ indexPi'[i] \in Mapped'
    BY <2>2, <2>7, <2>9, <2>10
  <2>12. IndexOneToOne'
    BY <2>2, <2>3, <2>7, <2>8, <2>10 DEF IndexOneToOne
  <2>13. PICK adj, deg, inj :
             /\ matrix' = [mem |-> "live", dim |-> b - len, adj |-> adj, deg |-> deg, inj |-> inj]
             /\ adj \subseteq SUBSET (0 .. b - len - 1)
             /\ deg \in [0 .. b - len - 1 -> Int]
             /\ inj \in [0 .. b - len - 1 -> Host \cup {NoHost}]
    <3>1. DegAfterCancel(h, s) \in [0 .. bnum - 1 -> Int]
      BY DegType
    <3>2. PICK c : c = DegAfterCancel(h, s) /\ c \in [0 .. bnum - 1 -> Int]
      BY <3>1
    <3>3. matrix' = Cut(c, st, len)
      BY <3>2, <2>1, <2>2
    <3>4. bnum - len > 0
      BY <2>2
    <3>5. \E adj, d2, inj :
                /\ Cut(c, st, len) = [mem |-> "live", dim |-> bnum - len, adj |-> adj,
                                     deg |-> d2, inj |-> inj]
                /\ adj \subseteq SUBSET (0 .. bnum - len - 1)
                /\ d2 \in [0 .. bnum - len - 1 -> Int]
                /\ inj \in [0 .. bnum - len - 1 -> Host \cup {NoHost}]
      BY <3>2, <3>4, CutType
    <3> QED
      BY <3>3, <3>5, <2>2
  <2>14. /\ matrix'.dim = b - len /\ matrix'.mem = "live" /\ b - len \in Nat
         /\ DOMAIN matrix' = {"mem", "dim", "adj", "deg", "inj"}
         /\ matrix'.adj \subseteq SUBSET (0 .. b - len - 1)
         /\ matrix'.deg \in [0 .. b - len - 1 -> Int]
         /\ matrix'.inj \in [0 .. b - len - 1 -> Host \cup {NoHost}]
    BY <2>2, <2>13
  <2>15. MatrixSized'
    BY <2>3, <2>14 DEF MatrixSized
  <2>16. ASSUME NEW g \in Registered', hosts[g].num > 0
         PROVE  /\ hosts[g].num = Num[g]
                /\ start(g) \in Nat
                /\ \A r \in 0 .. Num[g] - 1 :
                      /\ <<g, r>> \in Mapped'
                      /\ piIndex'[<<g, r>>] = start(g) + r
    <3>1. g \in Registered /\ g # h /\ g \in Host
      BY <2>3 DEF RegistryInv, RegistryTypeOK
    <3>2. PICK gs \in Nat, k \in Nat :
             gs = hosts[g].start /\ k = Num[g] /\ k > 0 /\ hosts[g].num = k
      BY <3>1, <2>16, HostType, PiShape DEF RegistryInv, OwnVoltages
    <3>3. \A r \in 0 .. k - 1 : <<g, r>> \in Mapped /\ piIndex[<<g, r>>] = gs + r
      BY <3>1, <3>2, <2>16 DEF RegistryInv, OwnVoltages
    <3>4. \A r \in 0 .. k - 1 : <<g, r>> \in Mapped'
      BY <3>1, <3>3, <2>3 DEF Own
    <3>5. len > 0 => \A r \in 0 .. k - 1 : gs + r \notin st .. st + len - 1
      BY <3>3, <3>4, <2>3, <2>4
    <3>6. PICK sg : sg = start(g) /\ sg = IF gs > st THEN gs - len ELSE gs
      BY <3>2, <2>2
    <3>7. sg \in Nat /\ \A r \in 0 .. k - 1 :
                           (IF gs + r > x THEN gs + r - len ELSE gs + r) = sg + r
      <4>1. /\ (IF gs > st THEN gs - len ELSE gs) \in Nat
            /\ \A r \in 0 .. k - 1 :
                  (IF gs + r > x THEN gs + r - len ELSE gs + r)
                      = (IF gs > st THEN gs - len ELSE gs) + r
        <5>1. k > 0 /\ (len > 0 => x \in st .. st + len - 1)
          BY <3>2, <2>4
        <5> HIDE DEF start, d, sup
        <5> QED
          BY <5>1, <3>5, IntervalsApart
      <4> QED
        BY <4>1, <3>6
    <3>8. \A r \in 0 .. k - 1 : piIndex'[<<g, r>>] = sg + r
      BY <3>3, <3>4, <3>7, <2>6
    <3> QED
      BY <3>2, <3>4, <3>6, <3>7, <3>8
  <2>17. ASSUME NEW g \in Registered'
         PROVE  /\ hosts'[g] \in HostRecord
                /\ hosts'[g].num = hosts[g].num
                /\ hosts'[g].start = start(g)
    <3>1. g \in Registered /\ g # h
      BY <2>3
    <3>2. start(g) \in Nat
      <4>1. CASE hosts[g].num > 0
        BY <4>1, <2>16
      <4>2. CASE hosts[g].num = 0
        BY <4>2, <3>1, <2>2 DEF RegistryInv, RowlessAtZero
      <4> QED
        BY <4>1, <4>2, <3>1, HostType DEF RegistryInv
    <3>3. d \in Int /\ sup \in Int
      BY <2>t
    <3>4. PICK a \in Nat, c \in Nat, n \in Nat, e \in Nat, d1 \in Int, s1 \in Int :
             /\ a = hosts[g].dd /\ c = hosts[g].ds /\ n = hosts[g].num
             /\ e = start(g) /\ d1 = d /\ s1 = sup
      BY <3>1, <3>2, <3>3, HostType DEF RegistryInv
    <3>5. hosts'[g] = Entry(a, c, n, e, d1, s1)
      BY <3>1, <3>4, <2>1
    <3>6. Entry(a, c, n, e, d1, s1) \in HostRecord
      BY EntryType
    <3>7. hosts'[g] \in HostRecord
      BY <3>5, <3>6
    <3>8. hosts'[g].num = n /\ hosts'[g].start = e
      BY <3>5 DEF Entry
    <3> QED
      BY <3>4, <3>7, <3>8
  <2>18. OwnVoltages'
    <3>1. ASSUME NEW g \in Registered', hosts'[g].num > 0, NEW r \in 0 .. Num[g] - 1
          PROVE  /\ hosts'[g].num = Num[g]
                 /\ <<g, r>> \in Mapped'
                 /\ piIndex'[<<g, r>>] = hosts'[g].start + r
      BY <3>1, <2>16, <2>17
    <3>2. ASSUME NEW g \in Registered', hosts'[g].num > 0
          PROVE  hosts'[g].num = Num[g]
      BY <3>2, <2>16, <2>17
    <3> HIDE DEF start
    <3> QED
      BY <3>1, <3>2, <2>10 DEF OwnVoltages
  <2>19. RowlessAtZero'
    <3>1. ASSUME NEW g \in Registered', hosts'[g].num = 0
          PROVE  hosts'[g].start = 0
      <4>1. g \in Registered /\ hosts[g].num = 0 /\ hosts'[g].start = start(g)
        BY <3>1, <2>3, <2>17
      <4>2. hosts[g].start = 0
        BY <4>1 DEF RegistryInv, RowlessAtZero
      <4> QED
        BY <4>1, <4>2, <2>2
    <3> QED
      BY <3>1 DEF RowlessAtZero
  <2>20. RegistryTypeOK'
    <3>1. Registered' \subseteq Host /\ hosts' \in [Registered' -> HostRecord]
      <4>1. hosts' = [g \in Registered' |-> hosts'[g]]
        BY <2>1, <2>3
      <4> QED
        BY <4>1, <2>3, <2>17 DEF RegistryInv, RegistryTypeOK
    <3>2. /\ matrix'.mem \in {"null", "live", "freed"}
          /\ matrix'.dim \in Nat
          /\ matrix'.adj \subseteq SUBSET (0 .. matrix'.dim - 1)
          /\ matrix'.deg \in [0 .. matrix'.dim - 1 -> Int]
          /\ matrix'.inj \in [0 .. matrix'.dim - 1 -> Host \cup {NoHost}]
      BY <2>14
    <3>3. Mapped' \subseteq Pi
      BY <2>3 DEF RegistryInv, RegistryTypeOK
    <3>4. piIndex' \in [Mapped' -> Nat]
      <4>1. piIndex' = [p \in Mapped' |-> piIndex'[p]]
        BY <2>1, <2>3 DEF index
      <4>2. \A p \in Mapped' : piIndex'[p] \in Nat
        BY <2>2, <2>7
      <4> QED
        BY <4>1, <4>2
    <3>5. DOMAIN indexPi' \subseteq Nat /\ indexPi' \in [DOMAIN indexPi' -> Pi]
      BY <2>9, <2>11, <3>3
    <3>6. bnum' \in Nat /\ totalD' \in Int /\ totalS' \in Int
      BY <2>1, <2>3, <2>14, <2>t
    <3>7. okNext' \in BOOLEAN
      BY <2>1 DEF RegistryInv, RegistryTypeOK
    <3>8. stray' \in 0 .. MaxStray
      BY <2>1, StrayBound
    <3> QED
      BY <2>14, <3>1, <3>2, <3>3, <3>4, <3>5, <3>6, <3>7, <3>8 DEF RegistryTypeOK
  <2> QED
    BY <2>12, <2>15, <2>18, <2>19, <2>20 DEF RegistryInv
<1>3. QED
  BY <1>1, <1>2

-----------------------------------------------------------------------------
LEMMA UnRegisterInv ==
    ASSUME RegistryInv, NEW h \in Host, UnRegisterRequest(h)
    PROVE  RegistryInv'
<1>1. CASE Crash("badAccess") \/ ConnectFails({h})
  BY <1>1, UnchangedRegistry DEF Crash, ConnectFails
<1>2. CASE ClearAll(h)
  BY <1>2, ClearAllInv
<1>3. ASSUME NEW first \in Own(h),
             NEW s \in IF Unlinked(h) = {} THEN {-1} ELSE 0 .. matrix.dim - 1,
             RemoveRows(h, first, s)
      PROVE  RegistryInv'
  <2>1. s \in Int
    BY DEF RegistryInv, RegistryTypeOK
  <2>2. h \in Registered
    BY DEF UnRegisterRequest
  <2> QED
    BY <1>3, <2>1, <2>2, RemoveRowsInv
<1>4. QED
  BY <1>1, <1>2, <1>3 DEF UnRegisterRequest

(* Every handler keeps the registry; the rest of the state is enumerated.  *)
LEMMA NextInv ==
    ASSUME IInv, [Next]_vars
    PROVE  IInv'
<1> USE DEF IInv
<1>1. CASE UNCHANGED vars
  <2>1. RegistryInv'
    BY <1>1, UnchangedRegistry DEF vars, registry
  <2> QED
    BY <1>1, <2>1 DEF vars, TypeOK, RegistryInv
<1>2. ASSUME NEW h \in Host, NEW load \in Load, LoadUpdate(h, load)
      PROVE  RegistryInv' /\ status' \in {"running", "exited", "badAccess", "doubleFree"}
  <2>1. RegistryInv'
    BY <1>2, LoadUpdateInv
  <2> QED
    BY <1>2, <2>1 DEF LoadUpdate, ConnectFails, TypeOK
<1>3. ASSUME NEW h \in Host, Coordinate(h)
      PROVE  RegistryInv' /\ status' \in {"running", "exited", "badAccess", "doubleFree"}
  <2>1. RegistryInv'
    BY <1>3, CoordinateInv
  <2> QED
    BY <1>3, <2>1 DEF Coordinate, ConnectFails, TypeOK
<1>4. ASSUME NEW h \in Host, CoordinateUpdate(h)
      PROVE  RegistryInv' /\ status' \in {"running", "exited", "badAccess", "doubleFree"}
  <2>1. RegistryInv'
    BY <1>4, CoordinateUpdateInv
  <2> QED
    BY <1>4, <2>1 DEF CoordinateUpdate, ConnectFails, Crash, TypeOK
<1>5. ASSUME NEW h \in Host, UnRegisterRequest(h)
      PROVE  RegistryInv' /\ status' \in {"running", "exited", "badAccess", "doubleFree"}
  <2>1. RegistryInv'
    BY <1>5, UnRegisterInv
  <2> QED
    BY <1>5, <2>1 DEF UnRegisterRequest, ClearAll, RemoveRows, ConnectFails, Crash, TypeOK
<1>6. ASSUME NEW h \in Host, NEW point \in {"joining", "member", "updating"},
             Reaches(h, point)
      PROVE  sim' \in [Host -> {"idle", "joining", "member", "updating"}]
  BY <1>6 DEF Reaches, TypeOK
<1>7. ASSUME NEW h \in Host,
             \/ \E load \in Load : JoinLoad(h, load) \/ UpdateLoad(h, load)
             \/ JoinCoordinate(h)
             \/ UpdateInjection(h)
             \/ Cancel(h)
      PROVE  IInv'
  <2>1. CASE \E load \in Load : JoinLoad(h, load) \/ UpdateLoad(h, load)
    BY <2>1, <1>2, <1>6 DEF JoinLoad, UpdateLoad, TypeOK, RegistryInv
  <2>2. CASE JoinCoordinate(h)
    BY <2>2, <1>3, <1>6 DEF JoinCoordinate, TypeOK, RegistryInv
  <2>3. CASE UpdateInjection(h)
    BY <2>3, <1>4, <1>6 DEF UpdateInjection, TypeOK, RegistryInv
  <2>4. CASE Cancel(h)
    BY <2>4, <1>5 DEF Cancel, TypeOK, RegistryInv
  <2> QED
    BY <1>7, <2>1, <2>2, <2>3, <2>4
<1>8. QED
  BY <1>1, <1>7 DEF Next

LEMMA InitInv == Init => IInv
<1> SUFFICES ASSUME Init PROVE IInv
  OBVIOUS
<1>1. DOMAIN Empty = {} /\ 0 .. -1 = {}
  BY DEF Empty
<1>2. Registered = {} /\ Mapped = {} /\ DOMAIN indexPi = {}
  BY <1>1 DEF Init, Registered, Mapped
<1>3. RegistryTypeOK
  <2>1. /\ Registered \subseteq Host /\ hosts \in [Registered -> HostRecord]
        /\ Mapped \subseteq Pi /\ piIndex \in [Mapped -> Nat]
        /\ DOMAIN indexPi \subseteq Nat /\ indexPi \in [DOMAIN indexPi -> Pi]
    BY <1>1, <1>2 DEF Init, Empty
  <2>2. /\ DOMAIN matrix = {"mem", "dim", "adj", "deg", "inj"}
        /\ matrix.mem = "null" /\ matrix.dim = 0 /\ matrix.adj = {}
        /\ matrix.deg = [i \in {} |-> 0]
        /\ matrix.inj = [i \in {} |-> NoHost]
    BY DEF Init, NoMatrix
  <2>3. /\ matrix.deg \in [0 .. matrix.dim - 1 -> Int]
        /\ matrix.inj \in [0 .. matrix.dim - 1 -> Host \cup {NoHost}]
    BY <1>1, <2>2
  <2>4. bnum \in Nat /\ totalD \in Int /\ totalS \in Int /\ okNext \in BOOLEAN
        /\ stray \in 0 .. MaxStray
    BY BoundAssumption DEF Init
  <2> QED
    BY <2>1, <2>2, <2>3, <2>4 DEF RegistryTypeOK
<1>4. MatrixSized
  BY DEF Init, MatrixSized, NoMatrix
<1>5. IndexOneToOne /\ OwnVoltages /\ RowlessAtZero
  BY <1>2 DEF IndexOneToOne, OwnVoltages, RowlessAtZero
<1>6. TypeOK
  BY <1>3 DEF Init, TypeOK
<1>7. QED
  BY <1>3, <1>4, <1>5, <1>6 DEF IInv, RegistryInv

LEMMA Invariance == Spec => []IInv
<1>1. Init => IInv
  BY InitInv
<1>2. IInv /\ [Next]_vars => IInv'
  BY NextInv
<1>3. QED
  BY <1>1, <1>2, PTL DEF Spec

(* In every behaviour of the coordinator its members keep their types.     *)
THEOREM TypeCorrect == Spec => []TypeOK
<1>1. IInv => TypeOK
  BY DEF IInv
<1>2. QED
  BY <1>1, Invariance, PTL

(* The matrix always has the rows that boundary_nodes_number_ counts.      *)
THEOREM SizeCorrect == Spec => []MatrixSized
<1>1. IInv => MatrixSized
  BY DEF IInv, RegistryInv
<1>2. QED
  BY <1>1, Invariance, PTL

(* The two index maps always are inverse to each other on the interfaces   *)
(* that have a row.                                                        *)
THEOREM IndexCorrect == Spec => []IndexOneToOne
<1>1. IInv => IndexOneToOne
  BY DEF IInv, RegistryInv
<1>2. QED
  BY <1>1, Invariance, PTL

(* Whatever the order of joins, updates and cancels, the rows a host is    *)
(* sent the voltages of are those of its own interfaces.                   *)
THEOREM VoltagesCorrect == Spec => []OwnVoltages
<1>1. IInv => OwnVoltages
  BY DEF IInv, RegistryInv
<1>2. QED
  BY <1>1, Invariance, PTL

-----------------------------------------------------------------------------
(* One exchange at a time.                                                 *)
(* A host in the middle of its join is registered and has no row yet.      *)
WaitingWithoutRow ==
    \A h \in Host : sim[h] = "joining" => h \in Registered /\ hosts[h].num = 0

(* No row is left over: index_pi_mapping_ has an interface for each.       *)
RowsFilled ==
    \A i \in 0 .. bnum - 1 : indexPi[i] \in Mapped /\ piIndex[indexPi[i]] = i

(* The rows are in order: the part of the invariant about the registry.    *)
RowsInv == WaitingWithoutRow /\ RowsAreJoinedHosts /\ RowsFilled

(* The inductive invariant.                                                *)
OrderlyInv ==
    IInv /\ RowsInv /\ MatrixIsTopology /\ InjectionInOwnRow /\ OneUnsafeAccess
-----------------------------------------------------------------------------
(* What a joined host has: its rows, in its own order.                     *)
LEMMA JoinedRows ==
    IInv => \A h \in Joined :
        /\ h \in Host /\ h \in Registered
        /\ hosts[h].num = Num[h] /\ hosts[h].start \in Nat
        /\ Own(h) \subseteq Mapped
        /\ \A r \in 0 .. Num[h] - 1 :
              /\ <<h, r>> \in Mapped
              /\ piIndex[<<h, r>>] = hosts[h].start + r
              /\ indexPi[hosts[h].start + r] = <<h, r>>
              /\ hosts[h].start + r \in 0 .. bnum - 1
<1> SUFFICES ASSUME IInv, NEW h \in Joined
             PROVE  /\ h \in Host /\ h \in Registered
                    /\ hosts[h].num = Num[h] /\ hosts[h].start \in Nat
                    /\ Own(h) \subseteq Mapped
                    /\ \A r \in 0 .. Num[h] - 1 :
                          /\ <<h, r>> \in Mapped
                          /\ piIndex[<<h, r>>] = hosts[h].start + r
                          /\ indexPi[hosts[h].start + r] = <<h, r>>
                          /\ hosts[h].start + r \in 0 .. bnum - 1
  OBVIOUS
<1>1. h \in Registered /\ hosts[h].num > 0 /\ h \in Host /\ bnum \in Nat
  BY DEF Joined, IInv, RegistryInv, RegistryTypeOK
<1>2. hosts[h].start \in Nat
  BY <1>1, HostType DEF IInv, RegistryInv
<1>3. hosts[h].num = Num[h]
      /\ \A r \in 0 .. Num[h] - 1 :
            /\ <<h, r>> \in Mapped
            /\ piIndex[<<h, r>>] = hosts[h].start + r
            /\ indexPi[hosts[h].start + r] = <<h, r>>
  BY <1>1 DEF IInv, RegistryInv, OwnVoltages
<1>4. Own(h) \subseteq Mapped
  BY <1>1, <1>3, PiShape
<1>5. ASSUME NEW r \in 0 .. Num[h] - 1
      PROVE  hosts[h].start + r \in 0 .. bnum - 1
  <2>1. <<h, r>> \in Mapped /\ piIndex[<<h, r>>] = hosts[h].start + r
    BY <1>3
  <2>2. piIndex[<<h, r>>] < bnum /\ piIndex[<<h, r>>] \in Nat
    BY <2>1 DEF IInv, RegistryInv, RegistryTypeOK, IndexOneToOne
  <2> QED
    BY <2>1, <2>2, <1>1
<1>6. QED
  BY <1>1, <1>2, <1>3, <1>4, <1>5

(* What the layout is is not changed by a handler that leaves the matrix,  *)
(* the index maps and the joined hosts' places as they are.                *)
LEMMA SameLayout ==
    ASSUME UNCHANGED <<bnum, matrix, piIndex, indexPi, stray>>, Joined' = Joined,
           \A h \in Joined : hosts'[h].start = hosts[h].start
    PROVE  /\ RowsFilled => RowsFilled'
           /\ MatrixIsTopology => MatrixIsTopology'
           /\ InjectionInOwnRow => InjectionInOwnRow'
<1>1. Mapped' = Mapped
  BY DEF Mapped
<1>2. RowsFilled => RowsFilled'
  BY <1>1 DEF RowsFilled
<1>3. MatrixIsTopology => MatrixIsTopology'
  BY <1>1 DEF MatrixIsTopology
<1>4. InjectionInOwnRow => InjectionInOwnRow'
  <2> SUFFICES ASSUME InjectionInOwnRow, NEW h \in Joined, NEW g \in Host,
                      NEW r \in 0 .. Num[h] - 1, matrix.inj[hosts[h].start + r] = g
               PROVE  g = h
    BY DEF InjectionInOwnRow
  <2> QED
    BY DEF InjectionInOwnRow
<1>5. QED
  BY <1>2, <1>3, <1>4

(* A handler that ends the process leaves the rows in order.               *)
LEMMA EndsInOrder ==
    ASSUME OrderlyInv, UNCHANGED <<registry, sim>>, status' \in {status, "exited"}
    PROVE  RowsInv' /\ MatrixIsTopology' /\ InjectionInOwnRow' /\ OneUnsafeAccess'
<1>1. Registered' = Registered /\ Mapped' = Mapped /\ Joined' = Joined
      /\ UNCHANGED <<hosts, bnum, matrix, piIndex, indexPi, stray, sim>>
  BY DEF registry, Registered, Mapped, Joined
<1>2. RowsFilled' /\ MatrixIsTopology' /\ InjectionInOwnRow'
  BY <1>1, SameLayout DEF OrderlyInv, RowsInv
<1>3. WaitingWithoutRow' /\ RowsAreJoinedHosts'
  BY <1>1 DEF OrderlyInv, RowsInv, WaitingWithoutRow, RowsAreJoinedHosts
<1>4. OneUnsafeAccess'
  BY <1>1 DEF OrderlyInv, OneUnsafeAccess
<1>5. QED
  BY <1>2, <1>3, <1>4 DEF RowsInv

-----------------------------------------------------------------------------
(* A load report makes nobody a row and takes nobody's.                    *)
LEMMA LoadUpdateRows ==
    ASSUME IInv, NEW h \in Host, NEW load \in Load, LoadUpdate(h, load)
    PROVE  \/ UNCHANGED registry /\ status' = "exited"
           \/ /\ Registered' = Registered \cup {h}
              /\ UNCHANGED <<bnum, matrix, piIndex, indexPi, stray, status>>
              /\ \A g \in Registered : hosts'[g].num = hosts[g].num
                                       /\ hosts'[g].start = hosts[g].start
              /\ h \notin Registered => hosts'[h].num = 0
<1> DEFINE rec == IF h \in Registered THEN hosts[h] ELSE NewHost
           d == Replace(totalD, rec.dd, load[1])
           s == Replace(totalS, rec.ds, load[2])
           entry(g) == IF g = h
                       THEN Entry(load[1], load[2], rec.num, rec.start, d, s)
                       ELSE Entry(hosts[g].dd, hosts[g].ds, hosts[g].num, hosts[g].start, d, s)
<1>1. CASE ConnectFails(Registered \ {h})
  BY <1>1 DEF ConnectFails
<1>2. CASE /\ hosts' = [g \in Registered \cup {h} |-> entry(g)]
           /\ UNCHANGED <<bnum, matrix, piIndex, indexPi, okNext, status, stray>>
  <2>1. Registered' = Registered \cup {h}
    BY <1>2 DEF Registered
  <2>2. \A a, b, n, e, x, y :
           Entry(a, b, n, e, x, y).num = n /\ Entry(a, b, n, e, x, y).start = e
    BY DEF Entry
  <2>3. ASSUME NEW g \in Registered
        PROVE  hosts'[g].num = hosts[g].num /\ hosts'[g].start = hosts[g].start
    <3>1. hosts'[g] = entry(g)
      BY <1>2
    <3> HIDE DEF d, s
    <3>2. CASE g = h
      BY <3>1, <3>2, <2>2
    <3>3. CASE g # h
      BY <3>1, <3>3, <2>2
    <3> QED
      BY <3>2, <3>3
  <2>4. ASSUME h \notin Registered
        PROVE  hosts'[h].num = 0
    <3>1. hosts'[h] = entry(h) /\ rec.num = 0
      BY <1>2, <2>4 DEF NewHost
    <3> HIDE DEF rec, d, s
    <3> QED
      BY <3>1, <2>2
  <2> QED
    BY <1>2, <2>1, <2>3, <2>4
<1>3. QED
  BY <1>1, <1>2 DEF LoadUpdate

LEMMA LoadKeepsOrder ==
    ASSUME OrderlyInv, Quiet, NEW h \in Host, NEW load \in Load,
           \/ h \notin Registered /\ JoinLoad(h, load)
           \/ h \in Registered /\ UpdateLoad(h, load)
    PROVE  RowsInv' /\ MatrixIsTopology' /\ InjectionInOwnRow' /\ OneUnsafeAccess'
<1> USE DEF OrderlyInv
<1>0. LoadUpdate(h, load) /\ status = "running"
  BY DEF JoinLoad, UpdateLoad, Running
<1>1. CASE UNCHANGED registry /\ status' = "exited"
  <2>1. UNCHANGED sim
    BY <1>1 DEF JoinLoad, UpdateLoad, Reaches
  <2> QED
    BY <1>1, <2>1, EndsInOrder
<1>2. CASE /\ Registered' = Registered \cup {h}
           /\ UNCHANGED <<bnum, matrix, piIndex, indexPi, stray, status>>
           /\ \A g \in Registered : hosts'[g].num = hosts[g].num
                                    /\ hosts'[g].start = hosts[g].start
           /\ h \notin Registered => hosts'[h].num = 0
  <2>1. Joined' = Joined /\ Mapped' = Mapped
    BY <1>2 DEF Joined, Mapped
  <2>2. \A g \in Joined : hosts'[g].start = hosts[g].start
    BY <1>2 DEF Joined
  <2>3. RowsFilled' /\ MatrixIsTopology' /\ InjectionInOwnRow'
    BY <1>2, <2>1, <2>2, SameLayout DEF RowsInv
  <2>4. OneUnsafeAccess'
    BY <1>2, <2>1 DEF OneUnsafeAccess
  <2>5. sim \in [Host -> {"idle", "joining", "member", "updating"}]
    BY DEF IInv, TypeOK
  <2>6. \A g \in Host : sim[g] # "joining"
    BY DEF Quiet
  <2>7. \A g \in Host : sim'[g] = IF g = h
                                  THEN IF h \in Registered THEN "updating" ELSE "joining"
                                  ELSE sim[g]
    BY <1>0, <1>2, <2>5 DEF JoinLoad, UpdateLoad, Reaches
  <2>8. WaitingWithoutRow'
    BY <1>2, <2>6, <2>7 DEF WaitingWithoutRow
  <2>9. RowsAreJoinedHosts'
    <3>1. Mapped' = UNION {Own(g) : g \in Joined'} /\ DOMAIN indexPi' = 0 .. bnum' - 1
      BY <1>2, <2>1 DEF RowsInv, RowsAreJoinedHosts
    <3>2. Registered \ Joined = {}
      BY <2>6 DEF RowsInv, RowsAreJoinedHosts, IInv, RegistryInv, RegistryTypeOK
    <3>3. \A g \in Registered' \ Joined' : sim'[g] = "joining"
      <4>1. \A g \in Registered' \ Joined' : g = h /\ h \notin Registered
        BY <1>2, <2>1, <3>2
      <4> QED
        BY <4>1, <2>7
    <3> QED
      BY <3>1, <3>3 DEF RowsAreJoinedHosts
  <2> QED
    BY <2>3, <2>4, <2>8, <2>9 DEF RowsInv
<1>3. QED
  BY <1>0, <1>1, <1>2, LoadUpdateRows
-----------------------------------------------------------------------------
(* Rows of two joined hosts are not the same.                              *)
LEMMA RowsOfOne ==
    IInv => \A g, h \in Joined : \A r \in 0 .. Num[g] - 1 : \A q \in 0 .. Num[h] - 1 :
        hosts[g].start + r = hosts[h].start + q => g = h
<1> SUFFICES ASSUME IInv, NEW g \in Joined, NEW h \in Joined, NEW r \in 0 .. Num[g] - 1,
                    NEW q \in 0 .. Num[h] - 1, hosts[g].start + r = hosts[h].start + q
             PROVE  g = h
  OBVIOUS
<1>1. indexPi[hosts[g].start + r] = <<g, r>> /\ indexPi[hosts[h].start + q] = <<h, q>>
  BY JoinedRows
<1>2. <<g, r>> = <<h, q>>
  BY <1>1
<1>3. QED
  BY <1>2

(* A joined host has a row, so there is a matrix.                          *)
LEMMA MatrixIsLive ==
    ASSUME IInv, NEW h \in Joined
    PROVE  matrix.mem = "live" /\ bnum > 0 /\ Num[h] \in Nat /\ Num[h] > 0
<1>1. h \in Host /\ hosts[h].start \in Nat /\ bnum \in Nat
  BY JoinedRows DEF IInv, RegistryInv, RegistryTypeOK
<1>2. Num[h] \in Nat /\ Num[h] > 0
  BY <1>1, NumAssumption
<1>3. 0 \in 0 .. Num[h] - 1
  BY <1>2
<1>4. hosts[h].start + 0 \in 0 .. bnum - 1
  BY <1>3, JoinedRows
<1>5. bnum > 0
  BY <1>1, <1>4
<1>6. QED
  BY <1>2, <1>5 DEF IInv, RegistryInv, MatrixSized

LEMMA InjectionKeepsOrder ==
    ASSUME OrderlyInv, NEW h \in Registered, UpdateInjection(h)
    PROVE  RowsInv' /\ MatrixIsTopology' /\ InjectionInOwnRow' /\ OneUnsafeAccess'
<1> USE DEF OrderlyInv
<1>0. /\ CoordinateUpdate(h) /\ status = "running" /\ h \in Host
      /\ sim[h] \in {"member", "updating"} /\ Reaches(h, "member")
  BY DEF UpdateInjection, Running, IInv, RegistryInv, RegistryTypeOK
<1>1. h \in Joined
  BY <1>0 DEF RowsInv, RowsAreJoinedHosts
<1>2. matrix.mem = "live"
  BY <1>1, MatrixIsLive
<1>3. CASE UNCHANGED registry /\ status' = "exited"
  <2>1. UNCHANGED sim
    BY <1>3, <1>0 DEF Reaches
  <2> QED
    BY <1>3, <2>1, EndsInOrder
<1> DEFINE inj == [i \in DOMAIN matrix.inj |->
                    IF i \in hosts[h].start .. hosts[h].start + Num[h] - 1
                    THEN h ELSE matrix.inj[i]]
<1>4. CASE /\ matrix' = [matrix EXCEPT !.inj = inj]
           /\ UNCHANGED <<hosts, bnum, piIndex, indexPi, totalD, totalS, okNext, status, stray>>
  <2>1. Registered' = Registered /\ Joined' = Joined /\ Mapped' = Mapped
    BY <1>4 DEF Registered, Joined, Mapped
  <2> HIDE DEF inj
  <2>2. matrix'.adj = matrix.adj /\ matrix'.deg = matrix.deg /\ matrix'.inj = inj
    <3>1. DOMAIN matrix = {"mem", "dim", "adj", "deg", "inj"}
      BY DEF IInv, RegistryInv, RegistryTypeOK
    <3> QED
      BY <1>4, <3>1
  <2>3. sim \in [Host -> {"idle", "joining", "member", "updating"}]
    BY DEF IInv, TypeOK
  <2>4. \A g \in Host : sim'[g] = IF g = h THEN "member" ELSE sim[g]
    BY <1>0, <1>4, <2>3 DEF Reaches
  <2>5. WaitingWithoutRow'
    BY <1>4, <2>1, <2>4 DEF RowsInv, WaitingWithoutRow
  <2>6. RowsAreJoinedHosts'
    <3>1. Mapped' = UNION {Own(g) : g \in Joined'} /\ DOMAIN indexPi' = 0 .. bnum' - 1
      BY <1>4, <2>1 DEF RowsInv, RowsAreJoinedHosts
    <3>2. \A g \in Registered' \ Joined' : sim'[g] = "joining"
      <4>1. \A g \in Registered \ Joined : sim[g] = "joining" /\ g # h /\ g \in Host
        BY <1>1 DEF RowsInv, RowsAreJoinedHosts, IInv, RegistryInv, RegistryTypeOK
      <4> QED
        BY <4>1, <2>1, <2>4
    <3> QED
      BY <3>1, <3>2 DEF RowsAreJoinedHosts
  <2>7. RowsFilled'
    BY <1>4, <2>1 DEF RowsInv, RowsFilled
  <2>8. MatrixIsTopology'
    BY <1>4, <2>1, <2>2 DEF MatrixIsTopology
  <2>9. InjectionInOwnRow'
    <3> SUFFICES ASSUME NEW k \in Joined, NEW g \in Host, NEW r \in 0 .. Num[k] - 1,
                        inj[hosts[k].start + r] = g
                 PROVE  g = k
      BY <1>4, <2>1, <2>2 DEF InjectionInOwnRow
    <3>1. DOMAIN matrix.inj = 0 .. bnum - 1
      BY DEF IInv, RegistryInv, RegistryTypeOK, MatrixSized
    <3>2. hosts[k].start + r \in 0 .. bnum - 1
      BY JoinedRows
    <3>3. inj[hosts[k].start + r] =
            IF hosts[k].start + r \in hosts[h].start .. hosts[h].start + Num[h] - 1
            THEN h ELSE matrix.inj[hosts[k].start + r]
      BY <3>1, <3>2 DEF inj
    <3>4. CASE hosts[k].start + r \in hosts[h].start .. hosts[h].start + Num[h] - 1
      <4>1. PICK i \in Int, st \in Nat, n \in Nat :
               i = hosts[k].start + r /\ st = hosts[h].start /\ n = Num[h]
        BY <1>1, <3>2, JoinedRows, MatrixIsLive
      <4>2. i - st \in 0 .. n - 1 /\ i = st + (i - st)
        BY <3>4, <4>1
      <4>3. k = h
        BY <4>1, <4>2, <1>1, RowsOfOne
      <4> QED
        BY <3>3, <3>4, <4>3
    <3>5. CASE hosts[k].start + r \notin hosts[h].start .. hosts[h].start + Num[h] - 1
      BY <3>3, <3>5 DEF InjectionInOwnRow
    <3> QED
      BY <3>4, <3>5
  <2>10. OneUnsafeAccess'
    BY <1>4, <1>0 DEF OneUnsafeAccess
  <2> QED
    BY <2>5, <2>6, <2>7, <2>8, <2>9, <2>10 DEF RowsInv
<1>5. QED
  BY <1>0, <1>2, <1>3, <1>4 DEF CoordinateUpdate, ConnectFails
-----------------------------------------------------------------------------
(* An interface is of one host.                                            *)
LEMMA OwnApart == \A g, h \in Host : g # h => Own(g) \cap Own(h) = {}
  BY PiShape

(* What the coordinating info of a host that has no row does: its rows are *)
(* appended.                                                               *)
Appended(h) ==
    /\ h \in Host /\ h \in Registered /\ h \notin Joined
    /\ Own(h) \cap Mapped = {}
    /\ Registered' = Registered /\ Joined' = Joined \cup {h}
    /\ Mapped' = Mapped \cup Own(h)
    /\ bnum' = bnum + Num[h] /\ matrix' = Grown(h) /\ stray' = stray
    /\ \A g \in Registered : hosts'[g].start = IF g = h THEN bnum ELSE hosts[g].start
    /\ \A g \in Registered \ {h} : hosts'[g].num = hosts[g].num
    /\ \A p \in Mapped : piIndex'[p] = piIndex[p]
    /\ \A r \in 0 .. Num[h] - 1 : piIndex'[<<h, r>>] = bnum + r
    /\ DOMAIN indexPi' = 0 .. bnum + Num[h] - 1
    /\ \A i \in 0 .. bnum - 1 : indexPi'[i] = indexPi[i]
    /\ \A r \in 0 .. Num[h] - 1 : indexPi'[bnum + r] = <<h, r>>

LEMMA CoordinateAppends ==
    ASSUME IInv, RowsInv, NEW h \in Host, sim[h] = "joining", Coordinate(h),
           status' = "running"
    PROVE  Appended(h)
<1>1. h \in Registered /\ hosts[h].num = 0 /\ h \notin Joined
  BY DEF RowsInv, WaitingWithoutRow, Joined
<1>2. bnum \in Nat /\ Num[h] \in Nat /\ Num[h] > 0 /\ DOMAIN indexPi = 0 .. bnum - 1
  BY PiShape DEF IInv, RegistryInv, RegistryTypeOK, RowsInv, RowsAreJoinedHosts
<1>3. Own(h) \cap Mapped = {}
  <2>1. Mapped = UNION {Own(g) : g \in Joined}
    BY DEF RowsInv, RowsAreJoinedHosts
  <2>2. \A g \in Joined : g \in Host /\ g # h
    BY <1>1, JoinedRows
  <2>3. \A g \in Joined : Own(g) \cap Own(h) = {}
    BY <2>2, OwnApart
  <2> QED
    BY <2>1, <2>3
<1>4. /\ hosts' = [g \in Registered |->
                     IF g = h THEN [hosts[g] EXCEPT !.num = Num[h], !.start = bnum]
                              ELSE hosts[g]]
      /\ bnum' = bnum + Num[h]
      /\ matrix' = Grown(h)
      /\ piIndex' = [p \in Mapped \cup Own(h) |->
                       IF p \in Own(h) THEN bnum + p[2] ELSE piIndex[p]]
      /\ indexPi' = [i \in DOMAIN indexPi \cup bnum .. bnum + Num[h] - 1 |->
                       IF i \in bnum .. bnum + Num[h] - 1
                       THEN <<h, i - bnum>> ELSE indexPi[i]]
      /\ stray' = stray
  BY DEF Coordinate, ConnectFails
<1>5. Registered' = Registered /\ Mapped' = Mapped \cup Own(h)
  BY <1>4 DEF Registered, Mapped
<1>6. \A g \in Registered : hosts[g] \in HostRecord
  BY DEF IInv, RegistryInv, RegistryTypeOK
<1>7. hosts'[h].num = Num[h] /\ hosts'[h].start = bnum
  <2>1. hosts'[h] = [hosts[h] EXCEPT !.num = Num[h], !.start = bnum]
    BY <1>1, <1>4
  <2> QED
    BY <2>1, <1>1, <1>6 DEF HostRecord
<1>8. \A g \in Registered \ {h} : hosts'[g] = hosts[g]
  BY <1>4
<1>9. Joined' = Joined \cup {h}
  BY <1>1, <1>2, <1>5, <1>7, <1>8 DEF Joined
<1>10. /\ \A g \in Registered : hosts'[g].start = IF g = h THEN bnum ELSE hosts[g].start
       /\ \A g \in Registered \ {h} : hosts'[g].num = hosts[g].num
  BY <1>7, <1>8
<1>11. \A p \in Mapped : piIndex'[p] = piIndex[p]
  BY <1>3, <1>4
<1>12. \A r \in 0 .. Num[h] - 1 : piIndex'[<<h, r>>] = bnum + r
  <2>1. \A r \in 0 .. Num[h] - 1 : <<h, r>> \in Own(h) /\ <<h, r>>[2] = r
    BY PiShape
  <2> QED
    BY <1>4, <2>1
<1>13. DOMAIN indexPi' = 0 .. bnum + Num[h] - 1
  <2>1. 0 .. bnum + Num[h] - 1 = (0 .. bnum - 1) \cup (bnum .. bnum + Num[h] - 1)
    BY <1>2
  <2> QED
    BY <1>2, <1>4, <2>1
<1>14. \A i \in 0 .. bnum - 1 : indexPi'[i] = indexPi[i]
  <2>1. \A i \in 0 .. bnum - 1 : i \notin bnum .. bnum + Num[h] - 1
    BY <1>2
  <2> QED
    BY <1>2, <1>4, <2>1
<1>15. \A r \in 0 .. Num[h] - 1 : indexPi'[bnum + r] = <<h, r>>
  <2>1. \A i \in bnum .. bnum + Num[h] - 1 : indexPi'[i] = <<h, i - bnum>>
    BY <1>4
  <2>2. ASSUME NEW r \in 0 .. Num[h] - 1
        PROVE  indexPi'[bnum + r] = <<h, r>>
    <3>1. PICK i \in bnum .. bnum + Num[h] - 1 : i = bnum + r /\ i - bnum = r
      BY <1>2
    <3> QED
      BY <2>1, <3>1
  <2> QED
    BY <2>2
<1>16. QED
  BY <1>1, <1>3, <1>4, <1>5, <1>9, <1>10, <1>11, <1>12, <1>13, <1>14, <1>15 DEF Appended

LEMMA AppendedRows ==
    ASSUME IInv, RowsInv, NEW h, Appended(h)
    PROVE  /\ Mapped' = UNION {Own(g) : g \in Joined'} /\ DOMAIN indexPi' = 0 .. bnum' - 1
           /\ RowsFilled'
<1>1. bnum \in Nat /\ Num[h] \in Nat /\ Num[h] > 0
  BY PiShape DEF IInv, RegistryInv, RegistryTypeOK, Appended
<1>2. Mapped' = UNION {Own(g) : g \in Joined'} /\ DOMAIN indexPi' = 0 .. bnum' - 1
  <2>1. Mapped = UNION {Own(g) : g \in Joined}
    BY DEF RowsInv, RowsAreJoinedHosts
  <2>2. Mapped' = Mapped \cup Own(h) /\ Joined' = Joined \cup {h}
    BY DEF Appended
  <2>3. bnum' = bnum + Num[h] /\ DOMAIN indexPi' = 0 .. bnum + Num[h] - 1
    BY DEF Appended
  <2>4. Mapped' = UNION {Own(g) : g \in Joined'}
    BY <2>1, <2>2
  <2>5. 0 .. bnum' - 1 = 0 .. bnum + Num[h] - 1
    BY <1>1, <2>3
  <2>6. DOMAIN indexPi' = 0 .. bnum' - 1
    BY <2>3, <2>5
  <2> QED
    BY <2>4, <2>6
<1>3. ASSUME NEW i \in 0 .. bnum' - 1
      PROVE  indexPi'[i] \in Mapped' /\ piIndex'[indexPi'[i]] = i
  <2>1. bnum' = bnum + Num[h]
    BY DEF Appended
  <2>2. CASE i < bnum
    <3>1. i \in 0 .. bnum - 1
      BY <1>1, <2>2
    <3>2. indexPi[i] \in Mapped /\ piIndex[indexPi[i]] = i
      BY <3>1 DEF RowsInv, RowsFilled
    <3> QED
      BY <3>1, <3>2 DEF Appended
  <2>3. CASE ~ i < bnum
    <3>1. PICK r \in 0 .. Num[h] - 1 : i = bnum + r
      <4>1. i - bnum \in 0 .. Num[h] - 1 /\ i = bnum + (i - bnum)
        BY <1>1, <2>1, <2>3
      <4> QED
        BY <4>1
    <3>2. <<h, r>> \in Own(h)
      BY PiShape DEF Appended
    <3> QED
      BY <3>1, <3>2 DEF Appended
  <2> QED
    BY <2>2, <2>3
<1>4. QED
  BY <1>2, <1>3 DEF RowsFilled
(* The fields of the grown matrix.                                         *)
Linked(h) == {r \in 0 .. Num[h] - 1 : Peer[<<h, r>>] \in Mapped}

LEMMA GrownFields ==
    ASSUME NEW h
    PROVE  /\ Grown(h).adj = (IF bnum = 0 THEN {} ELSE matrix.adj)
                  \cup {{piIndex[Peer[<<h, r>>]], bnum + r} : r \in Linked(h)}
           /\ Grown(h).deg = [i \in 0 .. bnum + Num[h] - 1 |->
                  IF i < bnum
                  THEN matrix.deg[i] + IF \E r \in Linked(h) : piIndex[Peer[<<h, r>>]] = i
                                       THEN 1 ELSE 0
                  ELSE IF i - bnum \in Linked(h) THEN 1 ELSE 0]
           /\ Grown(h).inj = [i \in 0 .. bnum + Num[h] - 1 |->
                  IF i < bnum THEN matrix.inj[i] ELSE h]
  BY DEF Grown, Linked

LEMMA AppendedInjections ==
    ASSUME OrderlyInv, NEW h, Appended(h)
    PROVE  InjectionInOwnRow'
<1> USE DEF OrderlyInv
<1>1. bnum \in Nat /\ Num[h] \in Nat /\ Num[h] > 0
  BY PiShape DEF IInv, RegistryInv, RegistryTypeOK, Appended
<1>2. matrix'.inj = [i \in 0 .. bnum + Num[h] - 1 |->
                        IF i < bnum THEN matrix.inj[i] ELSE h]
  BY GrownFields DEF Appended
<1>3. ASSUME NEW k \in Joined', NEW g \in Host, NEW r \in 0 .. Num[k] - 1,
             matrix'.inj[hosts'[k].start + r] = g
      PROVE  g = k
  <2>1. CASE k = h
    <3>1. hosts'[k].start = bnum
      BY <2>1 DEF Appended
    <3>2. PICK i \in 0 .. bnum + Num[h] - 1 : i = hosts'[k].start + r /\ ~ i < bnum
      BY <1>1, <2>1, <3>1
    <3> QED
      BY <1>2, <1>3, <2>1, <3>2
  <2>2. CASE k # h
    <3>1. k \in Joined /\ k \in Registered /\ hosts'[k].start = hosts[k].start
      BY <2>2, JoinedRows DEF Appended
    <3>2. PICK i \in 0 .. bnum - 1 : i = hosts[k].start + r
      BY <3>1, JoinedRows
    <3>3. matrix'.inj[i] = matrix.inj[i]
      BY <1>1, <1>2
    <3> QED
      BY <1>3, <3>1, <3>2, <3>3 DEF InjectionInOwnRow
  <2> QED
    BY <2>1, <2>2
<1>4. QED
  BY <1>3 DEF InjectionInOwnRow

(* The lines of the appended rows are entered, and no others.              *)
LEMMA AppendedLines ==
    ASSUME OrderlyInv, NEW h, Appended(h)
    PROVE  matrix'.adj = {{piIndex'[p], piIndex'[Peer[p]]} :
                             p \in {q \in Mapped' : Peer[q] \in Mapped'}}
<1> USE DEF OrderlyInv
<1> DEFINE P == {q \in Mapped : Peer[q] \in Mapped}
           Q == {q \in Mapped' : Peer[q] \in Mapped'}
           new == {{piIndex[Peer[<<h, r>>]], bnum + r} : r \in Linked(h)}
<1>1. matrix.adj = {{piIndex[p], piIndex[Peer[p]]} : p \in P}
  BY DEF MatrixIsTopology
<1>2. matrix'.adj = (IF bnum = 0 THEN {} ELSE matrix.adj) \cup new
  BY GrownFields DEF Appended
<1>3. bnum = 0 => matrix.adj = {}
  <2>1. \A p \in Mapped : piIndex[p] \in Nat /\ piIndex[p] < bnum
    BY DEF IInv, RegistryInv, RegistryTypeOK, IndexOneToOne
  <2>2. bnum = 0 => Mapped = {}
    BY <2>1
  <2> QED
    BY <1>1, <2>2
<1>4. matrix'.adj = matrix.adj \cup new
  BY <1>2, <1>3
<1>5. /\ Mapped' = Mapped \cup Own(h) /\ Own(h) \cap Mapped = {} /\ h \in Host
      /\ \A p \in Mapped : piIndex'[p] = piIndex[p]
      /\ \A r \in 0 .. Num[h] - 1 : piIndex'[<<h, r>>] = bnum + r
      /\ Mapped \subseteq Pi
  BY DEF Appended, IInv, RegistryInv, RegistryTypeOK
<1>6. \A p \in Own(h) : \E r \in 0 .. Num[h] - 1 : p = <<h, r>>
  BY <1>5, PiShape
<1>7. \A r \in 0 .. Num[h] - 1 : <<h, r>> \in Own(h)
  BY <1>5, PiShape
<1>8. ASSUME NEW e \in matrix.adj \cup new
      PROVE  e \in {{piIndex'[p], piIndex'[Peer[p]]} : p \in Q}
  <2>1. CASE e \in matrix.adj
    <3>1. PICK p \in P : e = {piIndex[p], piIndex[Peer[p]]}
      BY <1>1, <2>1
    <3>2. p \in Q /\ piIndex'[p] = piIndex[p] /\ piIndex'[Peer[p]] = piIndex[Peer[p]]
      BY <1>5, <3>1
    <3> QED
      BY <3>1, <3>2
  <2>2. CASE e \in new
    <3>1. PICK r \in Linked(h) : e = {piIndex[Peer[<<h, r>>]], bnum + r}
      BY <2>2
    <3>2. r \in 0 .. Num[h] - 1 /\ Peer[<<h, r>>] \in Mapped
      BY DEF Linked
    <3>3. <<h, r>> \in Q
      BY <1>5, <1>7, <3>2
    <3>4. piIndex'[<<h, r>>] = bnum + r
          /\ piIndex'[Peer[<<h, r>>]] = piIndex[Peer[<<h, r>>]]
      BY <1>5, <3>2
    <3>5. e = {piIndex'[<<h, r>>], piIndex'[Peer[<<h, r>>]]}
      BY <3>1, <3>4
    <3> QED
      BY <3>3, <3>5
  <2> QED
    BY <1>8, <2>1, <2>2
<1>9. ASSUME NEW p \in Q
      PROVE  {piIndex'[p], piIndex'[Peer[p]]} \in matrix.adj \cup new
  <2>1. CASE p \in Mapped /\ Peer[p] \in Mapped
    <3>1. p \in P /\ piIndex'[p] = piIndex[p] /\ piIndex'[Peer[p]] = piIndex[Peer[p]]
      BY <1>5, <2>1
    <3> QED
      BY <1>1, <3>1
  <2>2. ASSUME NEW q \in Own(h), Peer[q] \in Mapped
        PROVE  {piIndex'[q], piIndex'[Peer[q]]} \in new
    <3>1. PICK r \in 0 .. Num[h] - 1 : q = <<h, r>>
      BY <1>6
    <3>2. r \in Linked(h) /\ piIndex'[q] = bnum + r /\ piIndex'[Peer[q]] = piIndex[Peer[q]]
      BY <1>5, <2>2, <3>1 DEF Linked
    <3>3. {piIndex'[q], piIndex'[Peer[q]]} = {piIndex[Peer[<<h, r>>]], bnum + r}
      BY <3>1, <3>2
    <3> QED
      BY <3>2, <3>3
  <2>3. CASE p \in Own(h)
    <3>1. Peer[p] \in Mapped
      BY <1>5, <2>3, PeerApart
    <3> QED
      BY <2>2, <2>3, <3>1
  <2>4. CASE p \in Mapped /\ Peer[p] \in Own(h)
    <3>1. Peer[Peer[p]] = p
      BY <1>5, <2>4, PeerApart
    <3>2. {piIndex'[Peer[p]], piIndex'[Peer[Peer[p]]]} \in new
      BY <2>2, <2>4, <3>1
    <3>3. {piIndex'[p], piIndex'[Peer[p]]} = {piIndex'[Peer[p]], piIndex'[Peer[Peer[p]]]}
      BY <3>1
    <3> QED
      BY <3>2, <3>3
  <2> QED
    BY <1>5, <2>1, <2>3, <2>4
<1> HIDE DEF P, Q, new
<1>10. matrix'.adj = {{piIndex'[p], piIndex'[Peer[p]]} : p \in Q}
  BY <1>4, <1>8, <1>9
<1>11. QED
  BY <1>10 DEF Q
(* Each appended line counts once, on the diagonal of either end.          *)
LEMMA AppendedDiagonal ==
    ASSUME OrderlyInv, NEW h, Appended(h), stray = 0, NEW p \in Mapped'
    PROVE  matrix'.deg[piIndex'[p]] = IF Peer[p] \in Mapped' THEN 1 ELSE 0
<1> USE DEF OrderlyInv
<1>1. bnum \in Nat /\ Num[h] \in Nat /\ Num[h] > 0
  BY PiShape DEF IInv, RegistryInv, RegistryTypeOK, Appended
<1>2. /\ Mapped' = Mapped \cup Own(h) /\ Own(h) \cap Mapped = {} /\ h \in Host
      /\ \A q \in Mapped : piIndex'[q] = piIndex[q]
      /\ \A r \in 0 .. Num[h] - 1 : piIndex'[<<h, r>>] = bnum + r
      /\ Mapped \subseteq Pi
  BY DEF Appended, IInv, RegistryInv, RegistryTypeOK
<1>3. matrix'.deg = [i \in 0 .. bnum + Num[h] - 1 |->
         IF i < bnum
         THEN matrix.deg[i] + IF \E r \in Linked(h) : piIndex[Peer[<<h, r>>]] = i
                              THEN 1 ELSE 0
         ELSE IF i - bnum \in Linked(h) THEN 1 ELSE 0]
  BY GrownFields DEF Appended
<1>4. \A q \in Mapped : matrix.deg[piIndex[q]] = IF Peer[q] \in Mapped THEN 1 ELSE 0
  <2>1. \A q \in Mapped : q \in {o \in Mapped : Peer[o] \in Mapped} <=> Peer[q] \in Mapped
    OBVIOUS
  <2> QED
    BY <2>1 DEF MatrixIsTopology
<1>5. \A q \in Mapped : piIndex[q] \in 0 .. bnum - 1
  BY <1>1 DEF IInv, RegistryInv, RegistryTypeOK, IndexOneToOne
<1>6. CASE p \in Mapped
  <2>1. PICK i \in 0 .. bnum - 1 : i = piIndex[p] /\ piIndex'[p] = i
    BY <1>2, <1>5, <1>6
  <2>2. matrix'.deg[i] = matrix.deg[i] + IF \E r \in Linked(h) : piIndex[Peer[<<h, r>>]] = i
                                         THEN 1 ELSE 0
    BY <1>1, <1>3
  <2>3. (\E r \in Linked(h) : piIndex[Peer[<<h, r>>]] = i) <=> Peer[p] \in Own(h)
    <3>1. ASSUME NEW r \in Linked(h), piIndex[Peer[<<h, r>>]] = i
          PROVE  Peer[p] \in Own(h)
      <4>1. r \in 0 .. Num[h] - 1 /\ Peer[<<h, r>>] \in Mapped
        BY DEF Linked
      <4>2. Peer[<<h, r>>] = p
        BY <1>6, <2>1, <3>1, <4>1 DEF IInv, RegistryInv, IndexOneToOne
      <4>3. <<h, r>> \in Pi /\ <<h, r>> \in Own(h)
        BY <1>2, <4>1, PiShape
      <4>4. Peer[p] = <<h, r>>
        BY <4>2, <4>3, PeerApart
      <4> QED
        BY <4>3, <4>4
    <3>2. ASSUME Peer[p] \in Own(h)
          PROVE  \E r \in Linked(h) : piIndex[Peer[<<h, r>>]] = i
      <4>1. PICK r \in 0 .. Num[h] - 1 : Peer[p] = <<h, r>>
        BY <1>2, <3>2, PiShape
      <4>2. Peer[<<h, r>>] = p
        BY <1>2, <1>6, <4>1, PeerApart
      <4>3. r \in Linked(h)
        BY <1>6, <4>2 DEF Linked
      <4> QED
        BY <2>1, <4>2, <4>3
    <3> QED
      BY <3>1, <3>2
  <2>4. matrix.deg[i] = IF Peer[p] \in Mapped THEN 1 ELSE 0
    BY <1>4, <1>6, <2>1
  <2> QED
    BY <1>2, <2>1, <2>2, <2>3, <2>4
<1>7. CASE p \in Own(h)
  <2>1. PICK r \in 0 .. Num[h] - 1 : p = <<h, r>>
    BY <1>2, <1>7, PiShape
  <2>2. PICK i \in 0 .. bnum + Num[h] - 1 : i = bnum + r /\ ~ i < bnum /\ i - bnum = r
    BY <1>1
  <2>3. matrix'.deg[i] = IF r \in Linked(h) THEN 1 ELSE 0
    BY <1>3, <2>2
  <2>4. r \in Linked(h) <=> Peer[p] \in Mapped'
    <3>1. Peer[p] \notin Own(h)
      BY <1>2, <1>7, PeerApart
    <3> QED
      BY <1>2, <2>1, <3>1 DEF Linked
  <2>5. piIndex'[p] = i
    BY <1>2, <2>1, <2>2
  <2> QED
    BY <2>3, <2>4, <2>5
<1>8. QED
  BY <1>2, <1>6, <1>7

LEMMA CoordinateKeepsOrder ==
    ASSUME OrderlyInv, NEW h \in Host, JoinCoordinate(h)
    PROVE  RowsInv' /\ MatrixIsTopology' /\ InjectionInOwnRow' /\ OneUnsafeAccess'
<1> USE DEF OrderlyInv
<1>0. /\ Coordinate(h) /\ status = "running" /\ sim[h] = "joining"
      /\ Reaches(h, "member")
  BY DEF JoinCoordinate, Running
<1>1. CASE ConnectFails(Registered \ {h})
  <2>1. UNCHANGED registry /\ status' = "exited"
    BY <1>1 DEF ConnectFails
  <2>2. UNCHANGED sim
    BY <1>0, <2>1 DEF Reaches
  <2> QED
    BY <2>1, <2>2, EndsInOrder
<1>2. CASE ~ ConnectFails(Registered \ {h})
  <2>1. status' = "running"
    BY <1>0, <1>2 DEF Coordinate
  <2>2. Appended(h)
    BY <1>0, <2>1, CoordinateAppends
  <2>3. /\ h \in Registered /\ Registered' = Registered /\ Joined' = Joined \cup {h}
        /\ \A g \in Registered \ {h} : hosts'[g].num = hosts[g].num
        /\ stray' = stray
    BY <2>2 DEF Appended
  <2>4. Mapped' = UNION {Own(g) : g \in Joined'} /\ DOMAIN indexPi' = 0 .. bnum' - 1
        /\ RowsFilled'
    BY <2>2, AppendedRows
  <2>5. \A g \in Host : sim'[g] = IF g = h THEN "member" ELSE sim[g]
    <3>1. sim \in [Host -> {"idle", "joining", "member", "updating"}]
      BY DEF IInv, TypeOK
    <3> QED
      BY <1>0, <2>1, <3>1 DEF Reaches
  <2>6. WaitingWithoutRow'
    BY <2>3, <2>5 DEF RowsInv, WaitingWithoutRow
  <2>7. RowsAreJoinedHosts'
    <3>1. \A g \in Registered' \ Joined' :
             g \in Registered \ Joined /\ g # h /\ g \in Host /\ sim[g] = "joining"
      BY <2>3 DEF RowsInv, RowsAreJoinedHosts, IInv, RegistryInv, RegistryTypeOK
    <3>2. \A g \in Registered' \ Joined' : sim'[g] = "joining"
      BY <2>5, <3>1
    <3> QED
      BY <2>4, <3>2 DEF RowsAreJoinedHosts
  <2>8. MatrixIsTopology'
    <3>1. matrix'.adj = {{piIndex'[p], piIndex'[Peer[p]]} :
                             p \in {q \in Mapped' : Peer[q] \in Mapped'}}
      BY <2>2, AppendedLines
    <3>2. ASSUME stray' = 0, NEW p \in Mapped'
          PROVE  matrix'.deg[piIndex'[p]] =
                    IF p \in {q \in Mapped' : Peer[q] \in Mapped'} THEN 1 ELSE 0
      <4>1. matrix'.deg[piIndex'[p]] = IF Peer[p] \in Mapped' THEN 1 ELSE 0
        BY <2>2, <2>3, <3>2, AppendedDiagonal
      <4> QED
        BY <4>1
    <3> QED
      BY <3>1, <3>2 DEF MatrixIsTopology
  <2>9. InjectionInOwnRow'
    BY <2>2, AppendedInjections
  <2>10. OneUnsafeAccess'
    BY <2>1 DEF OneUnsafeAccess
  <2> QED
    BY <2>4, <2>6, <2>7, <2>8, <2>9, <2>10 DEF RowsInv
<1>3. QED
  BY <1>1, <1>2
-----------------------------------------------------------------------------
(* Where the row of the cut matrix came from.                              *)
OldRow(h, i) == IF i < hosts[h].start THEN i ELSE i + Num[h]

Gap(h) == hosts[h].start .. hosts[h].start + Num[h] - 1

LEMMA GapClosed ==
    ASSUME NEW b \in Nat, NEW st \in Nat, NEW len \in Nat, NEW x \in Nat,
           len > 0, st + len <= b, x \in st .. st + len - 1
    PROVE  /\ \A n \in 0 .. b - 1 : n \notin st .. st + len - 1 =>
                 \A m : m = (IF n > x THEN n - len ELSE n) =>
                     m \in 0 .. b - len - 1 /\ n = IF m < st THEN m ELSE m + len
           /\ \A i \in 0 .. b - len - 1 :
                 \A n : n = (IF i < st THEN i ELSE i + len) =>
                     n \in 0 .. b - 1 /\ n \notin st .. st + len - 1
           /\ \A i, j \in 0 .. b - len - 1 :
                 (IF i < st THEN i ELSE i + len) = (IF j < st THEN j ELSE j + len) => i = j
  OBVIOUS

(* What a cancel does that leaves other hosts: the rows of the host go,    *)
(* and the others move up.                                                 *)
Removed(h) ==
    /\ h \in Joined
    /\ Joined' = Joined \ {h} /\ Registered' = Joined'
    /\ Mapped' = Mapped \ Own(h)
    /\ bnum' = bnum - Num[h]
    /\ \A p \in Mapped' : /\ piIndex'[p] \in 0 .. bnum' - 1
                          /\ piIndex[p] = OldRow(h, piIndex'[p])
    /\ \A p \in Own(h) : piIndex[p] \in Gap(h)
    /\ \A i \in 0 .. bnum' - 1 : OldRow(h, i) \in 0 .. bnum - 1 /\ OldRow(h, i) \notin Gap(h)
    /\ \A i, j \in 0 .. bnum' - 1 : OldRow(h, i) = OldRow(h, j) => i = j
    /\ DOMAIN indexPi' = {piIndex'[p] : p \in Mapped'}

LEMMA RemoveRowsRemoves ==
    ASSUME OrderlyInv, Registered = Joined, NEW h \in Joined, NEW first \in Own(h), NEW s \in Int,
           RemoveRows(h, first, s)
    PROVE  /\ Removed(h) /\ status' = status
           /\ matrix' = Cut(DegAfterCancel(h, s), hosts[h].start, Num[h])
           /\ StrayWrite(h)
<1> USE DEF OrderlyInv
<1> DEFINE index == [p \in Mapped \ Own(h) |-> IndexAfter(h, first, p)]
           d == totalD - hosts[h].dd
           sup == totalS - hosts[h].ds
<1>1. /\ h \in Host /\ h \in Registered /\ hosts[h].num = Num[h] /\ hosts[h].start \in Nat
      /\ Own(h) \subseteq Mapped /\ bnum \in Nat /\ Num[h] \in Nat /\ Num[h] > 0
  BY JoinedRows, MatrixIsLive DEF IInv, RegistryInv, RegistryTypeOK
<1>2. /\ bnum - Num[h] > 0
      /\ matrix' = Cut(DegAfterCancel(h, s), hosts[h].start, Num[h])
      /\ bnum' = bnum - Num[h]
      /\ hosts' = [g \in Registered \ {h} |->
            Entry(hosts[g].dd, hosts[g].ds, hosts[g].num, StartAfter(h, g), d, sup)]
      /\ piIndex' = index
      /\ indexPi' = [i \in {index[p] : p \in DOMAIN index} |->
                       CHOOSE p \in DOMAIN index : index[p] = i]
      /\ StrayWrite(h) /\ status' = status
  BY <1>1 DEF RemoveRows
<1>3. Registered' = Registered \ {h} /\ Mapped' = Mapped \ Own(h)
  BY <1>2 DEF Registered, Mapped
<1>4. Joined' = Joined \ {h}
  <2>1. \A a, b, n, e, x, y : Entry(a, b, n, e, x, y).num = n
    BY DEF Entry
  <2>2. \A g \in Registered \ {h} : hosts'[g].num = hosts[g].num
    <3> HIDE DEF d, sup
    <3> QED
      BY <1>2, <2>1
  <2> QED
    BY <1>3, <2>2 DEF Joined
<1>5. PICK b \in Nat, st \in Nat, len \in Nat, x \in Nat :
         /\ b = bnum /\ st = hosts[h].start /\ len = Num[h] /\ x = piIndex[first]
         /\ x \in st .. st + len - 1 /\ st + len <= b /\ len > 0
         /\ \A p \in Own(h) : piIndex[p] \in st .. st + len - 1
         /\ \A p \in Mapped \ Own(h) : piIndex[p] \notin st .. st + len - 1
  BY <1>1, RowsApart DEF IInv, RegistryInv, RegistryTypeOK
<1>6. \A p \in Mapped : piIndex[p] \in 0 .. b - 1
  BY <1>1, <1>5 DEF IInv, RegistryInv, RegistryTypeOK, IndexOneToOne
<1>7. \A p \in Mapped' : piIndex'[p] = IF piIndex[p] > x THEN piIndex[p] - len ELSE piIndex[p]
  BY <1>1, <1>2, <1>3, <1>5 DEF IndexAfter
<1>8. Gap(h) = st .. st + len - 1
      /\ \A i : OldRow(h, i) = IF i < st THEN i ELSE i + len
  BY <1>5 DEF Gap, OldRow
<1>9. bnum' = b - len
  BY <1>2, <1>5
<1> HIDE DEF index, d, sup
<1>g. /\ \A n \in 0 .. b - 1 : n \notin st .. st + len - 1 =>
            \A m : m = (IF n > x THEN n - len ELSE n) =>
                m \in 0 .. b - len - 1 /\ n = IF m < st THEN m ELSE m + len
      /\ \A i \in 0 .. b - len - 1 :
            \A n : n = (IF i < st THEN i ELSE i + len) =>
                n \in 0 .. b - 1 /\ n \notin st .. st + len - 1
      /\ \A i, j \in 0 .. b - len - 1 :
            (IF i < st THEN i ELSE i + len) = (IF j < st THEN j ELSE j + len) => i = j
  <2>1. len > 0 /\ st + len <= b /\ x \in st .. st + len - 1
    BY <1>5
  <2> QED
    BY <2>1, GapClosed
<1>10. ASSUME NEW p \in Mapped'
       PROVE  piIndex'[p] \in 0 .. bnum' - 1 /\ piIndex[p] = OldRow(h, piIndex'[p])
  <2>1. piIndex[p] \in 0 .. b - 1 /\ piIndex[p] \notin st .. st + len - 1
    BY <1>3, <1>5, <1>6
  <2>2. piIndex'[p] \in 0 .. b - len - 1
        /\ piIndex[p] = IF piIndex'[p] < st THEN piIndex'[p] ELSE piIndex'[p] + len
    BY <1>7, <1>g, <2>1
  <2> QED
    BY <1>8, <1>9, <2>2
<1>11. /\ \A i \in 0 .. bnum' - 1 : OldRow(h, i) \in 0 .. bnum - 1 /\ OldRow(h, i) \notin Gap(h)
       /\ \A i, j \in 0 .. bnum' - 1 : OldRow(h, i) = OldRow(h, j) => i = j
  <2>1. ASSUME NEW i \in 0 .. b - len - 1
        PROVE  OldRow(h, i) \in 0 .. b - 1 /\ OldRow(h, i) \notin Gap(h)
    <3>1. PICK n : n = (IF i < st THEN i ELSE i + len)
      OBVIOUS
    <3>2. n \in 0 .. b - 1 /\ n \notin st .. st + len - 1 /\ OldRow(h, i) = n
      BY <1>8, <1>g, <3>1
    <3> QED
      BY <1>8, <3>2
  <2>2. ASSUME NEW i \in 0 .. b - len - 1, NEW j \in 0 .. b - len - 1,
               OldRow(h, i) = OldRow(h, j)
        PROVE  i = j
    <3>1. (IF i < st THEN i ELSE i + len) = (IF j < st THEN j ELSE j + len)
      BY <1>8, <2>2
    <3> QED
      BY <1>g, <3>1
  <2> QED
    BY <1>5, <1>9, <2>1, <2>2
<1>12. DOMAIN indexPi' = {piIndex'[p] : p \in Mapped'}
  BY <1>2, <1>3 DEF index
<1>13. \A p \in Own(h) : piIndex[p] \in Gap(h)
  BY <1>5, <1>8
<1>14. QED
  BY <1>2, <1>3, <1>4, <1>10, <1>11, <1>12, <1>13 DEF Removed
LEMMA RemovedRows ==
    ASSUME OrderlyInv, IInv', NEW h, Removed(h)
    PROVE  /\ Mapped' = UNION {Own(g) : g \in Joined'} /\ DOMAIN indexPi' = 0 .. bnum' - 1
           /\ RowsFilled'
<1> USE DEF OrderlyInv
<1>1. Mapped' = UNION {Own(g) : g \in Joined'}
  <2>1. Mapped = UNION {Own(g) : g \in Joined}
    BY DEF RowsInv, RowsAreJoinedHosts
  <2>2. \A g \in Joined \ {h} : Own(g) \cap Own(h) = {}
    <3>1. \A g \in Joined : g \in Host
      BY JoinedRows
    <3> QED
      BY <3>1, OwnApart DEF Removed
  <2> QED
    BY <2>1, <2>2 DEF Removed
<1>2. ASSUME NEW i \in 0 .. bnum' - 1
      PROVE  \E p \in Mapped' : piIndex'[p] = i
  <2>1. PICK n : n = OldRow(h, i)
    OBVIOUS
  <2>2. n \in 0 .. bnum - 1 /\ n \notin Gap(h)
    BY <2>1 DEF Removed
  <2>3. indexPi[n] \in Mapped /\ piIndex[indexPi[n]] = n
    BY <2>2 DEF RowsInv, RowsFilled
  <2>4. indexPi[n] \in Mapped'
    BY <2>2, <2>3 DEF Removed
  <2>5. OldRow(h, piIndex'[indexPi[n]]) = OldRow(h, i) /\ piIndex'[indexPi[n]] \in 0 .. bnum' - 1
    BY <2>1, <2>3, <2>4 DEF Removed
  <2>6. piIndex'[indexPi[n]] = i
    BY <2>5 DEF Removed
  <2> QED
    BY <2>4, <2>6
<1>3. DOMAIN indexPi' = 0 .. bnum' - 1
  BY <1>2 DEF Removed
<1>4. \A p \in Mapped' : indexPi'[piIndex'[p]] = p
  BY DEF IInv, RegistryInv, IndexOneToOne
<1>5. RowsFilled'
  BY <1>2, <1>4 DEF RowsFilled
<1>6. QED
  BY <1>1, <1>3, <1>5

LEMMA RemovedInjections ==
    ASSUME OrderlyInv, IInv', NEW h, NEW deg, Removed(h),
           matrix' = Cut(deg, hosts[h].start, Num[h])
    PROVE  InjectionInOwnRow'
<1>1. matrix'.inj = [i \in 0 .. bnum' - 1 |-> NoHost]
  <2>1. bnum' = bnum - Num[h]
    BY DEF Removed
  <2>2. Cut(deg, hosts[h].start, Num[h]).inj = [i \in 0 .. bnum' - 1 |-> NoHost]
    BY <2>1 DEF Cut, OldRow
  <2> QED
    BY <2>2
<1>2. ASSUME NEW k \in Joined', NEW g \in Host, NEW r \in 0 .. Num[k] - 1,
             matrix'.inj[hosts'[k].start + r] = g
      PROVE  FALSE
  <2>1. k \in Registered' /\ hosts'[k].num > 0
    BY DEF Joined
  <2>2. <<k, r>> \in Mapped' /\ piIndex'[<<k, r>>] = hosts'[k].start + r
    BY <2>1 DEF IInv, RegistryInv, OwnVoltages
  <2>3. hosts'[k].start + r \in 0 .. bnum' - 1
    BY <2>2 DEF Removed
  <2> QED
    BY <1>1, <1>2, <2>3, HostAssumption
<1>3. QED
  BY <1>2 DEF InjectionInOwnRow

(* The lines between the rows that stay are the ones that stay.            *)
LEMMA RemovedLines ==
    ASSUME OrderlyInv, NEW h, NEW deg, Removed(h),
           matrix' = Cut(deg, hosts[h].start, Num[h])
    PROVE  matrix'.adj = {{piIndex'[p], piIndex'[Peer[p]]} :
                             p \in {q \in Mapped' : Peer[q] \in Mapped'}}
<1> USE DEF OrderlyInv
<1> DEFINE P == {q \in Mapped : Peer[q] \in Mapped}
           Q == {q \in Mapped' : Peer[q] \in Mapped'}
           rows == 0 .. bnum' - 1
           Old(e) == {OldRow(h, i) : i \in e}
<1>1. matrix.adj = {{piIndex[p], piIndex[Peer[p]]} : p \in P}
  BY DEF MatrixIsTopology
<1>2. matrix'.adj = {{i, j} : i, j \in rows} \cap {e \in SUBSET rows : Old(e) \in matrix.adj}
  <2>1. bnum' = bnum - Num[h]
    BY DEF Removed
  <2>2. Cut(deg, hosts[h].start, Num[h]).adj =
           {{i, j} : i, j \in 0 .. bnum' - 1} \cap
           {e \in SUBSET (0 .. bnum' - 1) : {OldRow(h, i) : i \in e} \in matrix.adj}
    BY <2>1 DEF Cut, OldRow
  <2> QED
    BY <2>2
<1>3. \A i, j : Old({i, j}) = {OldRow(h, i), OldRow(h, j)}
  OBVIOUS
<1>4. /\ Mapped' = Mapped \ Own(h)
      /\ \A p \in Mapped' : piIndex'[p] \in rows /\ piIndex[p] = OldRow(h, piIndex'[p])
      /\ \A p \in Own(h) : piIndex[p] \in Gap(h)
      /\ \A i \in rows : OldRow(h, i) \notin Gap(h)
      /\ \A i, j \in rows : OldRow(h, i) = OldRow(h, j) => i = j
  BY DEF Removed
<1> HIDE DEF rows, Old
<1>5. ASSUME NEW p \in Q
      PROVE  {piIndex'[p], piIndex'[Peer[p]]} \in matrix'.adj
  <2>1. p \in P /\ p \in Mapped' /\ Peer[p] \in Mapped'
    BY <1>4
  <2>2. PICK i \in rows, j \in rows : i = piIndex'[p] /\ j = piIndex'[Peer[p]]
    BY <1>4, <2>1
  <2>3. Old({i, j}) = {piIndex[p], piIndex[Peer[p]]}
    BY <1>3, <1>4, <2>1, <2>2
  <2>4. Old({i, j}) \in matrix.adj
    BY <1>1, <2>1, <2>3
  <2>5. {i, j} \in {{k, l} : k, l \in rows} /\ {i, j} \in SUBSET rows
    OBVIOUS
  <2> QED
    BY <1>2, <2>2, <2>4, <2>5
<1>6. ASSUME NEW e \in matrix'.adj
      PROVE  e \in {{piIndex'[p], piIndex'[Peer[p]]} : p \in Q}
  <2>1. PICK i \in rows, j \in rows : e = {i, j}
    BY <1>2
  <2>2. {OldRow(h, i), OldRow(h, j)} \in matrix.adj
    <3>1. Old(e) \in matrix.adj
      BY <1>2
    <3>2. Old(e) = {OldRow(h, i), OldRow(h, j)}
      BY <1>3, <2>1
    <3> QED
      BY <3>1, <3>2
  <2>3. PICK p \in P : {OldRow(h, i), OldRow(h, j)} = {piIndex[p], piIndex[Peer[p]]}
    BY <1>1, <2>2
  <2>4. piIndex[p] \notin Gap(h) /\ piIndex[Peer[p]] \notin Gap(h)
    <3>1. piIndex[p] \in {OldRow(h, i), OldRow(h, j)}
          /\ piIndex[Peer[p]] \in {OldRow(h, i), OldRow(h, j)}
      BY <2>3
    <3> QED
      BY <1>4, <3>1
  <2>5. p \in Mapped' /\ Peer[p] \in Mapped'
    BY <1>4, <2>4
  <2>6. {OldRow(h, i), OldRow(h, j)} = {OldRow(h, piIndex'[p]), OldRow(h, piIndex'[Peer[p]])}
    BY <1>4, <2>3, <2>5
  <2>7. {i, j} = {piIndex'[p], piIndex'[Peer[p]]}
    <3>1. PICK k \in rows, l \in rows : k = piIndex'[p] /\ l = piIndex'[Peer[p]]
      BY <1>4, <2>5
    <3>2. {OldRow(h, i), OldRow(h, j)} = {OldRow(h, k), OldRow(h, l)}
      BY <2>6, <3>1
    <3>3. \/ OldRow(h, i) = OldRow(h, k) /\ OldRow(h, j) = OldRow(h, l)
          \/ OldRow(h, i) = OldRow(h, l) /\ OldRow(h, j) = OldRow(h, k)
      BY <3>2
    <3>4. (i = k /\ j = l) \/ (i = l /\ j = k)
      BY <1>4, <3>3
    <3> QED
      BY <3>1, <3>4
  <2> QED
    BY <2>1, <2>5, <2>7
<1> HIDE DEF P, Q
<1>7. matrix'.adj = {{piIndex'[p], piIndex'[Peer[p]]} : p \in Q}
  <2>1. \A p \in Q : {piIndex'[p], piIndex'[Peer[p]]} \in matrix'.adj
    BY <1>5
  <2>2. \A e \in matrix'.adj : e \in {{piIndex'[p], piIndex'[Peer[p]]} : p \in Q}
    BY <1>6
  <2> QED
    BY <2>1, <2>2
<1>8. QED
  BY <1>7 DEF Q
(* On the diagonal each line that went is taken off at the end that stays. *)
LEMMA RemovedDiagonal ==
    ASSUME OrderlyInv, NEW h, NEW s \in Int, Removed(h), Unlinked(h) = {}, stray = 0,
           matrix' = Cut(DegAfterCancel(h, s), hosts[h].start, Num[h]),
           NEW p \in Mapped'
    PROVE  matrix'.deg[piIndex'[p]] = IF Peer[p] \in Mapped' THEN 1 ELSE 0
<1> USE DEF OrderlyInv
<1> DEFINE n == piIndex[p]
<1>1. /\ h \in Joined /\ Mapped' = Mapped \ Own(h) /\ bnum' = bnum - Num[h]
      /\ piIndex'[p] \in 0 .. bnum' - 1 /\ n = OldRow(h, piIndex'[p])
  BY DEF Removed
<1>2. h \in Host /\ Own(h) \subseteq Mapped /\ p \in Mapped /\ p \notin Own(h)
  BY <1>1, JoinedRows
<1>3. matrix'.deg[piIndex'[p]] = DegAfterCancel(h, s)[n]
  <2>1. Cut(DegAfterCancel(h, s), hosts[h].start, Num[h]).deg
          = [i \in 0 .. bnum' - 1 |-> DegAfterCancel(h, s)[OldRow(h, i)]]
    BY <1>1 DEF Cut, OldRow
  <2> QED
    BY <1>1, <2>1
<1>4. DegAfterCancel(h, s)[n] = matrix.deg[n] - IF Peer[p] \in Own(h) THEN 1 ELSE 0
  BY <1>2, DegLoses DEF IInv
<1>5. matrix.deg[n] = IF Peer[p] \in Mapped THEN 1 ELSE 0
  <2>1. p \in {o \in Mapped : Peer[o] \in Mapped} <=> Peer[p] \in Mapped
    BY <1>2
  <2> QED
    BY <1>2, <2>1 DEF MatrixIsTopology
<1>6. Peer[p] \in Mapped' <=> Peer[p] \in Mapped /\ Peer[p] \notin Own(h)
  BY <1>1
<1> HIDE DEF n
<1>7. QED
  BY <1>2, <1>3, <1>4, <1>5, <1>6

LEMMA RemovedInOrder ==
    ASSUME OrderlyInv, IInv', Quiet, UNCHANGED sim, status = "running",
           NEW h, NEW s \in Int, Removed(h), StrayWrite(h), status' = status,
           matrix' = Cut(DegAfterCancel(h, s), hosts[h].start, Num[h])
    PROVE  RowsInv' /\ MatrixIsTopology' /\ InjectionInOwnRow' /\ OneUnsafeAccess'
<1>1. Mapped' = UNION {Own(g) : g \in Joined'} /\ DOMAIN indexPi' = 0 .. bnum' - 1
      /\ RowsFilled'
  BY RemovedRows
<1>2. RowsAreJoinedHosts'
  <2>1. Registered' = Joined'
    BY DEF Removed
  <2> QED
    BY <1>1, <2>1 DEF RowsAreJoinedHosts
<1>3. WaitingWithoutRow'
  BY DEF Quiet, WaitingWithoutRow
<1>4. InjectionInOwnRow'
  <2>1. PICK deg : deg = DegAfterCancel(h, s)
    OBVIOUS
  <2> QED
    BY <2>1, RemovedInjections
<1>5. MatrixIsTopology'
  <2>1. matrix'.adj = {{piIndex'[p], piIndex'[Peer[p]]} :
                             p \in {q \in Mapped' : Peer[q] \in Mapped'}}
    <3>1. PICK deg : deg = DegAfterCancel(h, s)
      OBVIOUS
    <3> QED
      BY <3>1, RemovedLines
  <2>2. ASSUME stray' = 0, NEW p \in Mapped'
        PROVE  matrix'.deg[piIndex'[p]] =
                  IF p \in {q \in Mapped' : Peer[q] \in Mapped'} THEN 1 ELSE 0
    <3>1. stray \in Nat
      BY BoundAssumption DEF OrderlyInv, IInv, RegistryInv, RegistryTypeOK
    <3>2. Unlinked(h) = {} /\ stray = 0
      BY <2>2, <3>1 DEF StrayWrite
    <3>3. matrix'.deg[piIndex'[p]] = IF Peer[p] \in Mapped' THEN 1 ELSE 0
      BY <3>2, RemovedDiagonal
    <3> QED
      BY <3>3
  <2> QED
    BY <2>1, <2>2 DEF MatrixIsTopology
<1>6. OneUnsafeAccess'
  BY DEF OneUnsafeAccess
<1>7. QED
  BY <1>1, <1>2, <1>3, <1>4, <1>5, <1>6 DEF RowsInv

(* When the last host leaves, nothing is left.                             *)
LEMMA ClearedInOrder ==
    ASSUME OrderlyInv, Quiet, UNCHANGED sim, status = "running", NEW h \in Joined, ClearAll(h)
    PROVE  RowsInv' /\ MatrixIsTopology' /\ InjectionInOwnRow' /\ OneUnsafeAccess'
<1> USE DEF OrderlyInv
<1>1. matrix.mem = "live"
  BY MatrixIsLive
<1>2. /\ matrix'.adj = {} /\ hosts' = Empty /\ piIndex' = Empty /\ indexPi' = Empty
      /\ bnum' = 0 /\ status' = status
  BY <1>1 DEF ClearAll, NoMatrix
<1>3. Registered' = {} /\ Mapped' = {} /\ DOMAIN indexPi' = {} /\ Joined' = {}
  BY <1>2 DEF Empty, Registered, Mapped, Joined
<1>4. RowsInv'
  <2>1. 0 .. 0 - 1 = {}
    OBVIOUS
  <2>2. WaitingWithoutRow'
    BY DEF Quiet, WaitingWithoutRow
  <2>3. RowsAreJoinedHosts'
    BY <1>2, <1>3, <2>1 DEF RowsAreJoinedHosts
  <2>4. RowsFilled'
    BY <1>2, <2>1 DEF RowsFilled
  <2> QED
    BY <2>2, <2>3, <2>4 DEF RowsInv
<1>5. MatrixIsTopology'
  BY <1>2, <1>3 DEF MatrixIsTopology
<1>6. InjectionInOwnRow' /\ OneUnsafeAccess'
  BY <1>2, <1>3 DEF InjectionInOwnRow, OneUnsafeAccess
<1>7. QED
  BY <1>4, <1>5, <1>6

LEMMA CancelKeepsOrder ==
    ASSUME OrderlyInv, IInv', Quiet, NEW h \in Host, Cancel(h)
    PROVE  RowsInv' /\ MatrixIsTopology' /\ InjectionInOwnRow' /\ OneUnsafeAccess'
<1> USE DEF OrderlyInv
<1>0. UnRegisterRequest(h) /\ status = "running" /\ UNCHANGED sim /\ h \in Registered
  BY DEF Cancel, Running, UnRegisterRequest
<1>1. Registered = Joined
  <2>1. Registered \subseteq Host /\ Joined \subseteq Registered
    BY DEF IInv, RegistryInv, RegistryTypeOK, Joined
  <2>2. \A g \in Registered \ Joined : sim[g] = "joining"
    BY DEF RowsInv, RowsAreJoinedHosts
  <2> QED
    BY <2>1, <2>2 DEF Quiet
<1>2. CASE Unlinked(h) # {} /\ Crash("badAccess")
  <2>1. Registered' = Registered /\ Mapped' = Mapped /\ Joined' = Joined
        /\ UNCHANGED <<hosts, bnum, matrix, piIndex, indexPi, stray, sim>>
        /\ status' = "badAccess"
    BY <1>0, <1>2 DEF Crash, registry, Registered, Mapped, Joined
  <2>2. RowsFilled' /\ MatrixIsTopology' /\ InjectionInOwnRow'
    BY <2>1, SameLayout DEF RowsInv
  <2>3. WaitingWithoutRow' /\ RowsAreJoinedHosts'
    BY <2>1 DEF RowsInv, WaitingWithoutRow, RowsAreJoinedHosts
  <2>4. OneUnsafeAccess'
    BY <1>2, <2>1 DEF OneUnsafeAccess, Unlinked
  <2> QED
    BY <2>2, <2>3, <2>4 DEF RowsInv
<1>3. CASE ClearAll(h)
  BY <1>0, <1>1, <1>3, ClearedInOrder
<1>4. ASSUME NEW first \in Own(h),
             NEW s \in IF Unlinked(h) = {} THEN {-1} ELSE 0 .. matrix.dim - 1,
             RemoveRows(h, first, s)
      PROVE  RowsInv' /\ MatrixIsTopology' /\ InjectionInOwnRow' /\ OneUnsafeAccess'
  <2>0. s \in Int
    BY DEF IInv, RegistryInv, RegistryTypeOK
  <2>1. /\ Removed(h) /\ status' = status
        /\ matrix' = Cut(DegAfterCancel(h, s), hosts[h].start, Num[h])
        /\ StrayWrite(h)
    BY <1>0, <1>1, <1>4, <2>0, RemoveRowsRemoves
  <2> QED
    BY <1>0, <2>0, <2>1, RemovedInOrder
<1>5. CASE ConnectFails({h})
  BY <1>0, <1>5, EndsInOrder DEF ConnectFails
<1>6. QED
  BY <1>0, <1>2, <1>3, <1>4, <1>5 DEF UnRegisterRequest

-----------------------------------------------------------------------------
LEMMA OrderlyStep ==
    ASSUME OrderlyInv, [OrderlyNext]_vars
    PROVE  OrderlyInv'
<1>1. CASE UNCHANGED vars
  <2>1. UNCHANGED <<registry, sim>> /\ status' = status
    BY <1>1 DEF vars, registry
  <2>2. IInv'
    BY <1>1, NextInv DEF OrderlyInv
  <2> QED
    BY <2>1, <2>2, EndsInOrder DEF OrderlyInv
<1>2. ASSUME NEW h \in Host,
             \/ Quiet /\ h \notin Registered /\ \E load \in Load : JoinLoad(h, load)
             \/ JoinCoordinate(h)
             \/ Quiet /\ h \in Registered /\ \E load \in Load : UpdateLoad(h, load)
             \/ h \in Registered /\ UpdateInjection(h)
             \/ Quiet /\ Cancel(h)
      PROVE  OrderlyInv'
  <2>1. IInv'
    <3>1. Next
      BY <1>2 DEF Next
    <3> QED
      BY <3>1, NextInv DEF OrderlyInv
  <2>2. CASE Quiet /\ h \notin Registered /\ \E load \in Load : JoinLoad(h, load)
    BY <2>1, <2>2, LoadKeepsOrder DEF OrderlyInv
  <2>3. CASE JoinCoordinate(h)
    BY <2>1, <2>3, CoordinateKeepsOrder DEF OrderlyInv
  <2>4. CASE Quiet /\ h \in Registered /\ \E load \in Load : UpdateLoad(h, load)
    BY <2>1, <2>4, LoadKeepsOrder DEF OrderlyInv
  <2>5. CASE h \in Registered /\ UpdateInjection(h)
    BY <2>1, <2>5, InjectionKeepsOrder DEF OrderlyInv
  <2>6. CASE Quiet /\ Cancel(h)
    BY <2>1, <2>6, CancelKeepsOrder DEF OrderlyInv
  <2> QED
    BY <1>2, <2>2, <2>3, <2>4, <2>5, <2>6
<1>3. QED
  BY <1>1, <1>2 DEF OrderlyNext

LEMMA OrderlyInit == Init => OrderlyInv
<1> SUFFICES ASSUME Init PROVE OrderlyInv
  OBVIOUS
<1>1. IInv
  BY InitInv
<1>2. /\ Registered = {} /\ Mapped = {} /\ DOMAIN indexPi = {} /\ Joined = {}
      /\ bnum = 0 /\ matrix.adj = {} /\ status = "running" /\ 0 .. 0 - 1 = {}
  BY DEF Init, Empty, Registered, Mapped, Joined, NoMatrix
<1>3. RowsInv
  BY <1>2 DEF Init, RowsInv, WaitingWithoutRow, RowsAreJoinedHosts, RowsFilled
<1>4. MatrixIsTopology /\ InjectionInOwnRow /\ OneUnsafeAccess
  BY <1>2 DEF MatrixIsTopology, InjectionInOwnRow, OneUnsafeAccess
<1>5. QED
  BY <1>1, <1>3, <1>4 DEF OrderlyInv

LEMMA OrderlyInvariance == OrderlySpec => []OrderlyInv
<1>1. OrderlyInv /\ [OrderlyNext]_vars => OrderlyInv'
  BY OrderlyStep
<1>2. QED
  BY <1>1, OrderlyInit, PTL DEF OrderlySpec

(* When the exchanges come one at a time, the rows are exactly those of    *)
(* the joined hosts, without a gap, whatever the order of joins and        *)
(* cancels.                                                                *)
THEOREM RowsCorrect == OrderlySpec => []RowsAreJoinedHosts
<1>1. OrderlyInv => RowsAreJoinedHosts
  BY DEF OrderlyInv, RowsInv
<1>2. QED
  BY <1>1, OrderlyInvariance, PTL

(* The entries of YBB are the present power lines, and until a stray write *)
(* the diagonal counts them, whatever was joined and taken out before.     *)
THEOREM TopologyCorrect == OrderlySpec => []MatrixIsTopology
<1>1. OrderlyInv => MatrixIsTopology
  BY DEF OrderlyInv
<1>2. QED
  BY <1>1, OrderlyInvariance, PTL

(* No host's injection ever stands in a row of another host.               *)
THEOREM InjectionsCorrect == OrderlySpec => []InjectionInOwnRow
<1>1. OrderlyInv => InjectionInOwnRow
  BY DEF OrderlyInv
<1>2. QED
  BY <1>1, OrderlyInvariance, PTL

(* When the exchanges come one at a time the matrix is freed once, and the *)
(* only access that can fail is the one through the end() iterator.        *)
THEOREM AccessesSafe == OrderlySpec => []OneUnsafeAccess
<1>1. OrderlyInv => OneUnsafeAccess
  BY DEF OrderlyInv
<1>2. QED
  BY <1>1, OrderlyInvariance, PTL

-----------------------------------------------------------------------------
(* The sum of a function, without an order: what g gives for the parts of  *)
(* S adds up one element at a time, whichever is taken.                    *)
Additive(g, f, S) ==
    /\ g \in [SUBSET S -> Int] /\ g[{}] = 0
    /\ \A s \in SUBSET S : \A x \in s : g[s] = f[x] + g[s \ {x}]

Adds(f, n) == \E g : Additive(g, f, DOMAIN f) /\ g[DOMAIN f] = n

(* SumFunction takes the elements in the order of a CHOOSE; the result is  *)
(* the same.                                                               *)
LEMMA SumIs ==
    ASSUME NEW f, NEW n, IsFiniteSet(DOMAIN f), Adds(f, n)
    PROVE  SumFunction(f) = n
<1> DEFINE S == DOMAIN f
           any(s) == CHOOSE x \in s : TRUE
           step(i, s) == IF s = {} THEN 0 ELSE f[any(s)] + i[s \ {any(s)}]
           iter == CHOOSE i : i = [s \in SUBSET S |-> step(i, s)]
<1>1. PICK g : Additive(g, f, S) /\ g[S] = n
  BY DEF Adds
<1>2. SumFunction(f) = iter[S]
  BY DEF SumFunction, SumFunctionOnSet, FoldFunctionOnSet, MapThenFoldSet
<1>3. \A s \in SUBSET S : s # {} => any(s) \in s /\ s \ {any(s)} \in SUBSET S
  OBVIOUS
<1>4. g = [s \in SUBSET S |-> step(g, s)]
  <2>1. \A s \in SUBSET S : g[s] = step(g, s)
    <3> HIDE DEF any
    <3> QED
      BY <1>1, <1>3 DEF Additive
  <2>2. g = [s \in SUBSET S |-> g[s]]
    BY <1>1 DEF Additive
  <2> HIDE DEF step
  <2> QED
    BY <2>1, <2>2
<1>5. iter = [s \in SUBSET S |-> step(iter, s)]
  <2> HIDE DEF step, S
  <2> QED
    BY <1>4
<1>6. \A s \in SUBSET S : iter[s] = g[s]
  <2> DEFINE T == {s \in SUBSET S : iter[s] # g[s]}
  <2>1. SUFFICES ASSUME T # {} PROVE FALSE
    OBVIOUS
  <2>2. FiniteSubsetsOf(S) = SUBSET S
    BY FS_FiniteSubsetsOfFinite
  <2>3. IsWellFoundedOn(StrictSubsetOrdering(S), SUBSET S)
    BY <2>2, FS_StrictSubsetOrderingWellFounded
  <2>4. T \subseteq SUBSET S
    OBVIOUS
  <2> HIDE DEF T
  <2>5. PICK s \in T : \A r \in T : ~ (<<r, s>> \in StrictSubsetOrdering(S))
    BY <2>1, <2>3, <2>4, WFMin
  <2> USE DEF T
  <2>6. s \in SUBSET S /\ iter[s] # g[s]
    OBVIOUS
  <2>7. s # {}
    <3>1. s = {} => iter[s] = 0 /\ g[s] = 0
      BY <1>1, <1>5, <2>6 DEF Additive
    <3> QED
      BY <2>6, <3>1
  <2>8. s \ {any(s)} \notin T
    <3>1. any(s) \in s
      BY <1>3, <2>6, <2>7
    <3> HIDE DEF any, T
    <3>2. <<s \ {any(s)}, s>> \in StrictSubsetOrdering(S)
      BY <2>6, <3>1 DEF StrictSubsetOrdering
    <3> QED
      BY <2>5, <3>2
  <2>9. iter[s \ {any(s)}] = g[s \ {any(s)}]
    BY <1>3, <2>6, <2>7, <2>8
  <2>10. iter[s] = step(iter, s)
    <3> HIDE DEF step, iter
    <3> QED
      BY <1>5, <2>6
  <2>11. g[s] = f[any(s)] + g[s \ {any(s)}]
    BY <1>1, <1>3, <2>6, <2>7 DEF Additive
  <2> HIDE DEF any, iter, T
  <2> QED
    BY <2>6, <2>7, <2>9, <2>10, <2>11
<1> HIDE DEF iter
<1>7. QED
  BY <1>1, <1>2, <1>6

LEMMA AddsNothing ==
    ASSUME NEW f, DOMAIN f = {}
    PROVE  Adds(f, 0)
<1> DEFINE g == [s \in SUBSET {} |-> 0]
<1>1. Additive(g, f, {}) /\ g[{}] = 0
  BY DEF Additive
<1> HIDE DEF g
<1>2. QED
  BY <1>1 DEF Adds

LEMMA AddsLess ==
    ASSUME NEW f, NEW n \in Int, Adds(f, n), NEW x \in DOMAIN f, f[x] \in Int
    PROVE  Adds([y \in DOMAIN f \ {x} |-> f[y]], n - f[x])
<1> DEFINE S == DOMAIN f
           R == S \ {x}
           e == [y \in R |-> f[y]]
<1>1. PICK g : Additive(g, f, S) /\ g[S] = n
  BY DEF Adds
<1> DEFINE k == [s \in SUBSET R |-> g[s]]
<1>2. \A s \in SUBSET R : g[s] \in Int /\ \A y \in s : g[s] = e[y] + g[s \ {y}]
  BY <1>1 DEF Additive
<1>3. Additive(k, e, R)
  BY <1>1, <1>2 DEF Additive
<1>4. g[S] = f[x] + g[R] /\ g[R] \in Int
  BY <1>1 DEF Additive
<1>5. k[R] = n - f[x]
  BY <1>1, <1>4
<1>6. DOMAIN e = R
  OBVIOUS
<1> HIDE DEF k, e
<1>7. Adds(e, n - f[x])
  BY <1>3, <1>5, <1>6 DEF Adds
<1>8. QED
  BY <1>7 DEF e

LEMMA AddsOne ==
    ASSUME NEW f, NEW n \in Int, Adds(f, n), NEW x, x \notin DOMAIN f, NEW v \in Int,
           \A y \in DOMAIN f : f[y] \in Int
    PROVE  Adds([y \in DOMAIN f \cup {x} |-> IF y = x THEN v ELSE f[y]], n + v)
<1> DEFINE S == DOMAIN f
           R == S \cup {x}
           e == [y \in R |-> IF y = x THEN v ELSE f[y]]
<1>1. PICK g : Additive(g, f, S) /\ g[S] = n
  BY DEF Adds
<1> DEFINE k == [s \in SUBSET R |-> IF x \in s THEN v + g[s \ {x}] ELSE g[s]]
<1>2. /\ g \in [SUBSET S -> Int] /\ g[{}] = 0
      /\ \A s \in SUBSET S : \A y \in s : g[s] = f[y] + g[s \ {y}]
  BY <1>1 DEF Additive
<1>3. \A s \in SUBSET R : s \ {x} \in SUBSET S /\ (x \notin s => s \in SUBSET S)
  OBVIOUS
<1>4. k \in [SUBSET R -> Int]
  BY <1>2, <1>3
<1>5. ASSUME NEW s \in SUBSET R, NEW y \in s
      PROVE  k[s] = e[y] + k[s \ {y}]
  <2>1. CASE y = x
    <3>1. k[s] = v + g[s \ {x}] /\ k[s \ {y}] = g[s \ {x}] /\ e[y] = v
      BY <2>1
    <3> QED
      BY <3>1
  <2>2. CASE y # x /\ x \in s
    <3>1. k[s] = v + g[s \ {x}] /\ k[s \ {y}] = v + g[(s \ {y}) \ {x}] /\ e[y] = f[y]
      BY <2>2
    <3>2. (s \ {y}) \ {x} = (s \ {x}) \ {y} /\ y \in s \ {x}
      BY <2>2
    <3>3. g[s \ {x}] = f[y] + g[(s \ {x}) \ {y}]
      BY <1>2, <1>3, <3>2
    <3>4. PICK a \in Int, b \in Int : a = f[y] /\ b = g[(s \ {x}) \ {y}]
      BY <1>2, <1>3, <2>2
    <3>5. g[s \ {x}] = a + b /\ g[(s \ {y}) \ {x}] = b
      BY <3>2, <3>3, <3>4
    <3>6. k[s] = v + (a + b) /\ k[s \ {y}] = v + b /\ e[y] = a
      BY <3>1, <3>4, <3>5
    <3> HIDE DEF k, e
    <3> QED
      BY <3>6
  <2>3. CASE x \notin s
    <3>1. k[s] = g[s] /\ k[s \ {y}] = g[s \ {y}] /\ e[y] = f[y]
      BY <2>3
    <3>2. g[s] = f[y] + g[s \ {y}]
      BY <1>2, <1>3, <2>3
    <3> QED
      BY <3>1, <3>2
  <2> QED
    BY <2>1, <2>2, <2>3
<1>6. k[{}] = 0
  BY <1>2
<1>7. k[R] = n + v
  <2>1. R \ {x} = S
    OBVIOUS
  <2> QED
    BY <1>1, <2>1
<1>8. DOMAIN e = R
  OBVIOUS
<1> HIDE DEF k, e
<1>9. Additive(k, e, R)
  BY <1>4, <1>5, <1>6 DEF Additive
<1>10. Adds(e, n + v)
  BY <1>7, <1>8, <1>9 DEF Adds
<1>11. QED
  BY <1>10 DEF e

LEMMA AddsScaled ==
    ASSUME NEW f, NEW n \in Int, Adds(f, n), NEW c \in Int,
           \A y \in DOMAIN f : f[y] \in Int
    PROVE  Adds([y \in DOMAIN f |-> f[y] * c], n * c)
<1> DEFINE S == DOMAIN f
           e == [y \in S |-> f[y] * c]
<1>1. PICK g : Additive(g, f, S) /\ g[S] = n
  BY DEF Adds
<1> DEFINE k == [s \in SUBSET S |-> g[s] * c]
<1>2. /\ g \in [SUBSET S -> Int] /\ g[{}] = 0
      /\ \A s \in SUBSET S : \A y \in s : g[s] = f[y] + g[s \ {y}]
  BY <1>1 DEF Additive
<1>3. k \in [SUBSET S -> Int] /\ k[{}] = 0 /\ k[S] = n * c
  BY <1>1, <1>2
<1>4. ASSUME NEW s \in SUBSET S, NEW y \in s
      PROVE  k[s] = e[y] + k[s \ {y}]
  <2>1. PICK a \in Int, b \in Int : a = f[y] /\ b = g[s \ {y}]
    BY <1>2
  <2>2. (a + b) * c = a * c + b * c
    OBVIOUS
  <2>3. k[s] = (a + b) * c /\ e[y] = a * c /\ k[s \ {y}] = b * c
    BY <1>2, <2>1
  <2> QED
    BY <2>2, <2>3
<1>5. DOMAIN e = S
  OBVIOUS
<1> HIDE DEF k, e
<1>6. Adds(e, n * c)
  BY <1>3, <1>4, <1>5 DEF Adds, Additive
<1>7. QED
  BY <1>6 DEF e

(* One value gives way to another, 0 standing for none.                    *)
LEMMA AddsReplaced ==
    ASSUME NEW f, NEW n \in Int, Adds(f, n), NEW x, NEW v \in Int, NEW old \in Int,
           \A y \in DOMAIN f : f[y] \in Int,
           old = IF x \in DOMAIN f THEN f[x] ELSE 0
    PROVE  Adds([y \in DOMAIN f \cup {x} |-> IF y = x THEN v ELSE f[y]], n - old + v)
<1>1. CASE x \notin DOMAIN f
  <2>1. old = 0
    BY <1>1
  <2>2. n - old + v = n + v
    BY <2>1
  <2> QED
    BY <1>1, <2>2, AddsOne
<1>2. CASE x \in DOMAIN f
  <2> DEFINE e == [y \in DOMAIN f \ {x} |-> f[y]]
  <2>1. Adds(e, n - old)
    <3>1. old = f[x]
      BY <1>2
    <3> QED
      BY <1>2, <3>1, AddsLess
  <2>2. DOMAIN e = DOMAIN f \ {x} /\ \A y \in DOMAIN e : e[y] = f[y] /\ e[y] \in Int
    OBVIOUS
  <2> HIDE DEF e
  <2>3. PICK m \in Int : m = n - old
    OBVIOUS
  <2>4. Adds([y \in DOMAIN e \cup {x} |-> IF y = x THEN v ELSE e[y]], m + v)
    <3>1. Adds(e, m) /\ x \notin DOMAIN e /\ \A y \in DOMAIN e : e[y] \in Int
      BY <2>1, <2>2, <2>3
    <3> QED
      BY <3>1, AddsOne
  <2>5. [y \in DOMAIN e \cup {x} |-> IF y = x THEN v ELSE e[y]]
          = [y \in DOMAIN f \cup {x} |-> IF y = x THEN v ELSE f[y]]
    BY <1>2, <2>2
  <2>6. m + v = n - old + v
    BY <2>3
  <2> QED
    BY <2>4, <2>5, <2>6
<1>3. QED
  BY <1>1, <1>2

-----------------------------------------------------------------------------
DesiredDemands == [h \in Registered |-> hosts[h].dd]
DesiredSupplies == [h \in Registered |-> hosts[h].ds]

(* The totals are the sums of what the registered hosts desire, and what   *)
(* each is assigned was computed from them: in any order of the handlers.  *)
TotalsInv ==
    /\ IsFiniteSet(Registered)
    /\ Adds(DesiredDemands, totalD) /\ Adds(DesiredSupplies, totalS)
    /\ \A h \in Registered :
          hosts[h].share = Share(hosts[h].dd, hosts[h].ds, totalD, totalS)

LEMMA SameTotals ==
    ASSUME TotalsInv, Registered' = Registered, UNCHANGED <<totalD, totalS>>,
           \A h \in Registered : /\ hosts'[h].dd = hosts[h].dd /\ hosts'[h].ds = hosts[h].ds
                                 /\ hosts'[h].share = hosts[h].share
    PROVE  TotalsInv'
<1>1. DesiredDemands' = DesiredDemands /\ DesiredSupplies' = DesiredSupplies
  BY DEF DesiredDemands, DesiredSupplies
<1>2. QED
  BY <1>1 DEF TotalsInv

LEMMA DesiredType ==
    IInv => /\ totalD \in Int /\ totalS \in Int
            /\ DOMAIN DesiredDemands = Registered /\ DOMAIN DesiredSupplies = Registered
            /\ \A h \in Registered : /\ DesiredDemands[h] = hosts[h].dd /\ hosts[h].dd \in Int
                                     /\ DesiredSupplies[h] = hosts[h].ds /\ hosts[h].ds \in Int
<1> SUFFICES ASSUME IInv
             PROVE  /\ totalD \in Int /\ totalS \in Int
                    /\ DOMAIN DesiredDemands = Registered
                    /\ DOMAIN DesiredSupplies = Registered
                    /\ \A h \in Registered :
                          /\ DesiredDemands[h] = hosts[h].dd /\ hosts[h].dd \in Int
                          /\ DesiredSupplies[h] = hosts[h].ds /\ hosts[h].ds \in Int
  OBVIOUS
<1>1. totalD \in Int /\ totalS \in Int
  BY DEF IInv, RegistryInv, RegistryTypeOK
<1>2. \A h \in Registered : hosts[h].dd \in Int /\ hosts[h].ds \in Int
  BY HostType DEF IInv, RegistryInv
<1>3. QED
  BY <1>1, <1>2 DEF DesiredDemands, DesiredSupplies

LEMMA EntryFields ==
    \A dd, ds, n, e, d, s :
        /\ Entry(dd, ds, n, e, d, s).dd = dd /\ Entry(dd, ds, n, e, d, s).ds = ds
        /\ Entry(dd, ds, n, e, d, s).share = Share(dd, ds, d, s)
  BY DEF Entry

LEMMA LoadUpdateTotals ==
    ASSUME IInv, TotalsInv, NEW h \in Host, NEW load \in Load, LoadUpdate(h, load)
    PROVE  TotalsInv'
<1> DEFINE rec == IF h \in Registered THEN hosts[h] ELSE NewHost
           d == Replace(totalD, rec.dd, load[1])
           s == Replace(totalS, rec.ds, load[2])
           entry(g) == IF g = h
                       THEN Entry(load[1], load[2], rec.num, rec.start, d, s)
                       ELSE Entry(hosts[g].dd, hosts[g].ds, hosts[g].num, hosts[g].start, d, s)
<1>1. CASE ConnectFails(Registered \ {h})
  BY <1>1, SameTotals DEF ConnectFails, registry, Registered
<1>2. CASE /\ totalD' = d /\ totalS' = s
           /\ hosts' = [g \in Registered \cup {h} |-> entry(g)]
  <2>1. Registered' = Registered \cup {h}
    BY <1>2 DEF Registered
  <2>2. PICK a \in Int, b \in Int : a = load[1] /\ b = load[2]
    BY LoadAssumption
  <2>3. PICK od \in Int, os \in Int : od = rec.dd /\ os = rec.ds
    BY DesiredType DEF NewHost
  <2>4. od = (IF h \in Registered THEN hosts[h].dd ELSE 0)
        /\ os = (IF h \in Registered THEN hosts[h].ds ELSE 0)
    BY <2>3 DEF NewHost
  <2>5. totalD' = totalD - od + a /\ totalS' = totalS - os + b
    BY <1>2, <2>2, <2>3 DEF Replace
  <2>6. ASSUME NEW g \in Registered'
        PROVE  /\ hosts'[g].dd = IF g = h THEN a ELSE hosts[g].dd
               /\ hosts'[g].ds = IF g = h THEN b ELSE hosts[g].ds
               /\ hosts'[g].share = Share(hosts'[g].dd, hosts'[g].ds, totalD', totalS')
    <3>1. hosts'[g] = entry(g)
      BY <1>2, <2>1
    <3>2. totalD' = d /\ totalS' = s
      BY <1>2
    <3> HIDE DEF rec, d, s
    <3>3. CASE g = h
      BY <2>2, <3>1, <3>2, <3>3, EntryFields
    <3>4. CASE g # h
      BY <3>1, <3>2, <3>4, EntryFields
    <3> QED
      BY <3>3, <3>4
  <2> HIDE DEF entry, rec, d, s
  <2>7. Adds(DesiredDemands', totalD')
    <3>1. Adds([g \in Registered \cup {h} |-> IF g = h THEN a ELSE DesiredDemands[g]],
               totalD - od + a)
      <4>1. od = (IF h \in DOMAIN DesiredDemands THEN DesiredDemands[h] ELSE 0)
        BY <2>4, DesiredType
      <4>2. /\ totalD \in Int /\ Adds(DesiredDemands, totalD)
            /\ \A y \in DOMAIN DesiredDemands : DesiredDemands[y] \in Int
        BY DesiredType DEF TotalsInv
      <4>3. DOMAIN DesiredDemands = Registered
        BY DesiredType
      <4> QED
        BY <4>1, <4>2, <4>3, AddsReplaced
    <3>2. DesiredDemands' = [g \in Registered \cup {h} |-> IF g = h THEN a ELSE DesiredDemands[g]]
      BY <2>1, <2>6, DesiredType DEF DesiredDemands
    <3> QED
      BY <2>5, <3>1, <3>2
  <2>8. Adds(DesiredSupplies', totalS')
    <3>1. Adds([g \in Registered \cup {h} |-> IF g = h THEN b ELSE DesiredSupplies[g]],
               totalS - os + b)
      <4>1. os = (IF h \in DOMAIN DesiredSupplies THEN DesiredSupplies[h] ELSE 0)
        BY <2>4, DesiredType
      <4>2. /\ totalS \in Int /\ Adds(DesiredSupplies, totalS)
            /\ \A y \in DOMAIN DesiredSupplies : DesiredSupplies[y] \in Int
        BY DesiredType DEF TotalsInv
      <4>3. DOMAIN DesiredSupplies = Registered
        BY DesiredType
      <4> QED
        BY <4>1, <4>2, <4>3, AddsReplaced
    <3>2. DesiredSupplies' = [g \in Registered \cup {h} |-> IF g = h THEN b ELSE DesiredSupplies[g]]
      BY <2>1, <2>6, DesiredType DEF DesiredSupplies
    <3> QED
      BY <2>5, <3>1, <3>2
  <2>9. IsFiniteSet(Registered')
    BY <2>1, FS_AddElement DEF TotalsInv
  <2> QED
    BY <2>6, <2>7, <2>8, <2>9 DEF TotalsInv
<1>3. QED
  BY <1>1, <1>2 DEF LoadUpdate
LEMMA CoordinateTotals ==
    ASSUME IInv, TotalsInv, NEW h \in Host, Coordinate(h)
    PROVE  TotalsInv'
<1>1. CASE ConnectFails(Registered \ {h})
  BY <1>1, SameTotals DEF ConnectFails, registry, Registered
<1>2. CASE ~ ConnectFails(Registered \ {h})
  <2>1. /\ hosts' = [g \in Registered |->
                     IF g = h THEN [hosts[g] EXCEPT !.num = Num[h], !.start = bnum]
                              ELSE hosts[g]]
        /\ UNCHANGED <<totalD, totalS>>
    BY <1>2 DEF Coordinate
  <2>2. Registered' = Registered
    BY <2>1 DEF Registered
  <2>3. ASSUME NEW g \in Registered
        PROVE  /\ hosts'[g].dd = hosts[g].dd /\ hosts'[g].ds = hosts[g].ds
               /\ hosts'[g].share = hosts[g].share
    <3>1. hosts[g] \in HostRecord
      BY DEF IInv, RegistryInv, RegistryTypeOK
    <3> QED
      BY <2>1, <3>1 DEF HostRecord
  <2> QED
    BY <2>1, <2>2, <2>3, SameTotals
<1>3. QED
  BY <1>1, <1>2

LEMMA ClearAllTotals ==
    ASSUME NEW h, ClearAll(h), TotalsInv
    PROVE  TotalsInv'
<1>1. CASE Crash("doubleFree")
  BY <1>1, SameTotals DEF Crash, registry, Registered
<1>2. CASE ~ Crash("doubleFree")
  <2>1. hosts' = Empty /\ totalD' = 0 /\ totalS' = 0
    BY <1>2 DEF ClearAll
  <2>2. Registered' = {}
    BY <2>1 DEF Empty, Registered
  <2>3. DOMAIN DesiredDemands' = {} /\ DOMAIN DesiredSupplies' = {}
    BY <2>2 DEF DesiredDemands, DesiredSupplies
  <2>4. Adds(DesiredDemands', 0) /\ Adds(DesiredSupplies', 0)
    BY <2>3, AddsNothing
  <2>5. IsFiniteSet(Registered')
    BY <2>2, FS_EmptySet
  <2> QED
    BY <2>1, <2>2, <2>4, <2>5 DEF TotalsInv
<1>3. QED
  BY <1>1, <1>2

LEMMA RemoveRowsTotals ==
    ASSUME IInv, TotalsInv, NEW h \in Registered, NEW first, NEW s, RemoveRows(h, first, s)
    PROVE  TotalsInv'
<1> DEFINE d == totalD - hosts[h].dd
           sup == totalS - hosts[h].ds
<1>1. CASE Crash("badAccess")
  BY <1>1, SameTotals DEF Crash, registry, Registered
<1>2. CASE ~ Crash("badAccess")
  <2>1. /\ totalD' = d /\ totalS' = sup
        /\ hosts' = [g \in Registered \ {h} |->
              Entry(hosts[g].dd, hosts[g].ds, hosts[g].num, StartAfter(h, g), d, sup)]
    BY <1>2 DEF RemoveRows
  <2>2. Registered' = Registered \ {h}
    BY <2>1 DEF Registered
  <2>3. totalD' = totalD - hosts[h].dd /\ totalS' = totalS - hosts[h].ds
    BY <2>1
  <2>4. ASSUME NEW g \in Registered'
        PROVE  /\ hosts'[g].dd = hosts[g].dd /\ hosts'[g].ds = hosts[g].ds
               /\ hosts'[g].share = Share(hosts'[g].dd, hosts'[g].ds, totalD', totalS')
    <3> HIDE DEF d, sup
    <3>1. hosts'[g] = Entry(hosts[g].dd, hosts[g].ds, hosts[g].num, StartAfter(h, g), d, sup)
      BY <2>1, <2>2
    <3> QED
      BY <2>1, <3>1, EntryFields
  <2> HIDE DEF d, sup
  <2>5. Adds(DesiredDemands', totalD')
    <3>1. /\ totalD \in Int /\ Adds(DesiredDemands, totalD) /\ h \in DOMAIN DesiredDemands
          /\ DesiredDemands[h] \in Int
      BY DesiredType DEF TotalsInv
    <3>2. Adds([g \in DOMAIN DesiredDemands \ {h} |-> DesiredDemands[g]],
               totalD - DesiredDemands[h])
      BY <3>1, AddsLess
    <3>3. DesiredDemands' = [g \in DOMAIN DesiredDemands \ {h} |-> DesiredDemands[g]]
      BY <2>2, <2>4 DEF DesiredDemands
    <3> QED
      BY <2>3, <3>2, <3>3, DesiredType
  <2>6. Adds(DesiredSupplies', totalS')
    <3>1. /\ totalS \in Int /\ Adds(DesiredSupplies, totalS) /\ h \in DOMAIN DesiredSupplies
          /\ DesiredSupplies[h] \in Int
      BY DesiredType DEF TotalsInv
    <3>2. Adds([g \in DOMAIN DesiredSupplies \ {h} |-> DesiredSupplies[g]],
               totalS - DesiredSupplies[h])
      BY <3>1, AddsLess
    <3>3. DesiredSupplies' = [g \in DOMAIN DesiredSupplies \ {h} |-> DesiredSupplies[g]]
      BY <2>2, <2>4 DEF DesiredSupplies
    <3> QED
      BY <2>3, <3>2, <3>3, DesiredType
  <2>7. IsFiniteSet(Registered')
    BY <2>2, FS_RemoveElement DEF TotalsInv
  <2> QED
    BY <2>4, <2>5, <2>6, <2>7 DEF TotalsInv
<1>3. QED
  BY <1>1, <1>2

LEMMA TotalsStep ==
    ASSUME IInv, TotalsInv, [Next]_vars
    PROVE  TotalsInv'
<1>1. CASE UNCHANGED registry
  BY <1>1, SameTotals DEF registry, Registered
<1>2. ASSUME NEW h \in Host, NEW load \in Load, JoinLoad(h, load) \/ UpdateLoad(h, load)
      PROVE  TotalsInv'
  BY <1>2, LoadUpdateTotals DEF JoinLoad, UpdateLoad
<1>3. ASSUME NEW h \in Host, JoinCoordinate(h)
      PROVE  TotalsInv'
  BY <1>3, CoordinateTotals DEF JoinCoordinate
<1>4. ASSUME NEW h \in Host, UpdateInjection(h)
      PROVE  TotalsInv'
  <2>1. UNCHANGED <<hosts, totalD, totalS>>
    BY <1>4 DEF UpdateInjection, CoordinateUpdate, ConnectFails, Crash, registry
  <2> QED
    BY <2>1, SameTotals DEF Registered
<1>5. ASSUME NEW h \in Host, Cancel(h)
      PROVE  TotalsInv'
  <2>1. UnRegisterRequest(h) /\ h \in Registered
    BY <1>5 DEF Cancel, UnRegisterRequest
  <2>2. CASE ClearAll(h)
    BY <2>2, ClearAllTotals
  <2>3. ASSUME NEW first, NEW s, RemoveRows(h, first, s)
        PROVE  TotalsInv'
    BY <2>1, <2>3, RemoveRowsTotals
  <2> QED
    BY <1>1, <2>1, <2>2, <2>3 DEF UnRegisterRequest, Crash, ConnectFails
<1>6. QED
  BY <1>1, <1>2, <1>3, <1>4, <1>5 DEF Next, vars, registry

LEMMA TotalsInit == Init => TotalsInv
<1> SUFFICES ASSUME Init PROVE TotalsInv
  OBVIOUS
<1>1. Registered = {} /\ totalD = 0 /\ totalS = 0
  BY DEF Init, Empty, Registered
<1>2. DOMAIN DesiredDemands = {} /\ DOMAIN DesiredSupplies = {}
  BY <1>1 DEF DesiredDemands, DesiredSupplies
<1>3. Adds(DesiredDemands, 0) /\ Adds(DesiredSupplies, 0)
  BY <1>2, AddsNothing
<1>4. QED
  BY <1>1, <1>3, FS_EmptySet DEF TotalsInv

(* The two ways a load is shared out, field by field.                      *)
LEMMA ScarceSupply ==
    ASSUME NEW dd, NEW ds, NEW d, NEW s, d > s
    PROVE  /\ Share(dd, ds, d, s).flag = 0
           /\ Share(dd, ds, d, s).demands = <<dd * s, d>>
           /\ Share(dd, ds, d, s).supplies = <<ds, 1>>
<1>1. PICK given : given = <<dd * s, d>>
  OBVIOUS
<1>2. PICK drawn : drawn = <<ds, 1>>
  OBVIOUS
<1>3. Share(dd, ds, d, s) = [flag |-> 0, demands |-> given, supplies |-> drawn]
  BY <1>1, <1>2 DEF Share
<1>4. QED
  BY <1>1, <1>2, <1>3

LEMMA AmpleSupply ==
    ASSUME NEW dd, NEW ds, NEW d, NEW s, ~ d > s
    PROVE  /\ Share(dd, ds, d, s).flag = 1
           /\ Share(dd, ds, d, s).demands = <<dd, 1>>
           /\ Share(dd, ds, d, s).supplies = <<ds * d, s>>
<1>1. PICK given : given = <<dd, 1>>
  OBVIOUS
<1>2. PICK drawn : drawn = <<ds * d, s>>
  OBVIOUS
<1>3. Share(dd, ds, d, s) = [flag |-> 1, demands |-> given, supplies |-> drawn]
  BY <1>1, <1>2 DEF Share
<1>4. QED
  BY <1>1, <1>2, <1>3

LEMMA TotalsBalance ==
    ASSUME IInv, TotalsInv
    PROVE  SharesBalance
<1> DEFINE one == CHOOSE h \in Registered : TRUE
           given == [h \in Registered |-> hosts[h].share.demands[1]]
           drawn == [h \in Registered |-> hosts[h].share.supplies[1]]
<1>1. SUFFICES ASSUME Registered # {} PROVE SharesBalance
  BY DEF SharesBalance
<1>2. one \in Registered
  BY <1>1
<1>3. totalD \in Int /\ totalS \in Int /\ IsFiniteSet(Registered)
      /\ Adds(DesiredDemands, totalD) /\ Adds(DesiredSupplies, totalS)
  BY DesiredType DEF TotalsInv
<1>4. \A h \in Registered :
         hosts[h].share = Share(hosts[h].dd, hosts[h].ds, totalD, totalS)
  BY DEF TotalsInv
<1>5. DOMAIN given = Registered /\ DOMAIN drawn = Registered
  OBVIOUS
<1> HIDE DEF one
<1>6. CASE totalD > totalS
  <2>1. \A h \in Registered :
           /\ hosts[h].share.flag = 0
           /\ hosts[h].share.demands = <<hosts[h].dd * totalS, totalD>>
           /\ hosts[h].share.supplies = <<hosts[h].ds, 1>>
    BY <1>4, <1>6, ScarceSupply
  <2>2. given = [h \in DOMAIN DesiredDemands |-> DesiredDemands[h] * totalS]
    BY <2>1, DesiredType
  <2>3. drawn = DesiredSupplies
    BY <2>1 DEF DesiredSupplies
  <2> HIDE DEF given, drawn
  <2>4. Adds(given, totalD * totalS)
    <3>1. \A y \in DOMAIN DesiredDemands : DesiredDemands[y] \in Int
      BY DesiredType
    <3> QED
      BY <1>3, <2>2, <3>1, AddsScaled
  <2>5. SumFunction(given) = totalD * totalS
    BY <1>3, <1>5, <2>4, SumIs
  <2>6. SumFunction(drawn) = totalS
    BY <1>3, <1>5, <2>3, SumIs
  <2>7. hosts[one].share.flag = 0 /\ hosts[one].share.demands[2] = totalD
    BY <1>2, <2>1
  <2>8. /\ \A h \in Registered : hosts[h].share.flag = hosts[one].share.flag
        /\ SumFunction(given) = hosts[one].share.demands[2] * SumFunction(drawn)
    BY <2>1, <2>5, <2>6, <2>7
  <2> QED
    BY <2>7, <2>8 DEF SharesBalance, one, given, drawn
<1>7. CASE ~ totalD > totalS
  <2>1. \A h \in Registered :
           /\ hosts[h].share.flag = 1
           /\ hosts[h].share.demands = <<hosts[h].dd, 1>>
           /\ hosts[h].share.supplies = <<hosts[h].ds * totalD, totalS>>
    BY <1>4, <1>7, AmpleSupply
  <2>2. drawn = [h \in DOMAIN DesiredSupplies |-> DesiredSupplies[h] * totalD]
    BY <2>1, DesiredType
  <2>3. given = DesiredDemands
    BY <2>1 DEF DesiredDemands
  <2> HIDE DEF given, drawn
  <2>4. Adds(drawn, totalS * totalD)
    <3>1. \A y \in DOMAIN DesiredSupplies : DesiredSupplies[y] \in Int
      BY DesiredType
    <3> QED
      BY <1>3, <2>2, <3>1, AddsScaled
  <2>5. SumFunction(drawn) = totalS * totalD
    BY <1>3, <1>5, <2>4, SumIs
  <2>6. SumFunction(given) = totalD
    BY <1>3, <1>5, <2>3, SumIs
  <2>7. hosts[one].share.flag = 1 /\ hosts[one].share.supplies[2] = totalS
    BY <1>2, <2>1
  <2>8. /\ \A h \in Registered : hosts[h].share.flag = hosts[one].share.flag
        /\ SumFunction(drawn) = hosts[one].share.supplies[2] * SumFunction(given)
    BY <2>1, <2>5, <2>6, <2>7
  <2> QED
    BY <2>7, <2>8 DEF SharesBalance, one, given, drawn
<1>8. QED
  BY <1>6, <1>7

(* What the registered hosts have been assigned balances, whatever their   *)
(* number, their loads and the order of the exchanges: under Spec, not     *)
(* only when they come one at a time.                                      *)
THEOREM SharesCorrect == Spec => []SharesBalance
<1>1. TotalsInv /\ IInv => SharesBalance
  BY TotalsBalance
<1>2. IInv /\ TotalsInv /\ [Next]_vars => TotalsInv'
  BY TotalsStep
<1>3. QED
  BY <1>1, <1>2, TotalsInit, Invariance, PTL DEF Spec

(* The discipline only chooses among the steps of Next, so what holds in   *)
(* any order holds when the exchanges come one at a time.                  *)
THEOREM OrderlyIsCoordinator == OrderlySpec => Spec
<1>1. [OrderlyNext]_vars => [Next]_vars
  BY DEF OrderlyNext, Next
<1>2. QED
  BY <1>1, PTL DEF OrderlySpec, Spec

-----------------------------------------------------------------------------
(* Requests, the queue and the gate.                                       *)
(* The types of what the gate depends on.                                  *)
GateTypes ==
    /\ okNext \in BOOLEAN
    /\ sim \in [Host -> {"idle", "joining", "member", "updating"}]
    /\ thread \in {"loop", "open", "popping"}
    /\ told \in [Host -> Nat]
    /\ connected \in [Host -> BOOLEAN]
    /\ queue \in Seq(Host \cup {NoHost})

(* What the registry's handlers do to the gate.                            *)
LEMMA LoadUpdateGate ==
    ASSUME NEW h, NEW load, LoadUpdate(h, load)
    PROVE  okNext' = okNext /\ (status' = status \/ status' = "exited")
  BY DEF LoadUpdate, ConnectFails, registry

LEMMA CoordinateGate ==
    ASSUME NEW h, Coordinate(h)
    PROVE  \/ okNext' = TRUE /\ status' = status
           \/ okNext' = okNext /\ status' = "exited"
  BY DEF Coordinate, ConnectFails, registry

LEMMA CoordinateUpdateGate ==
    ASSUME NEW h, CoordinateUpdate(h)
    PROVE  okNext' = okNext
  BY DEF CoordinateUpdate, ConnectFails, Crash, registry

LEMMA UnRegisterGate ==
    ASSUME NEW h, UnRegisterRequest(h)
    PROVE  okNext' = okNext \/ okNext' = TRUE
  <1>1. CASE Unlinked(h) # {} /\ Crash("badAccess")
    BY <1>1 DEF Crash, registry
  <1>2. CASE ClearAll(h)
    BY <1>2 DEF ClearAll, Crash, registry
  <1>3. ASSUME NEW first, NEW s, RemoveRows(h, first, s)
        PROVE  okNext' = okNext
    BY <1>3 DEF RemoveRows, Crash, registry
  <1>4. CASE ConnectFails({h})
    BY <1>4 DEF ConnectFails, registry
  <1>5. QED
    BY <1>1, <1>2, <1>3, <1>4 DEF UnRegisterRequest

-----------------------------------------------------------------------------
(* What the steps of the admission do to the gate and to who is joining.   *)

(* A join that begins moves the host from told to joining, or the process  *)
(* has ended and nothing changes.                                          *)
LEMMA BeginJoinStep ==
    ASSUME GateTypes, NEW h \in Host, NEW load \in Load, BeginJoin(h, load)
    PROVE  /\ told[h] > 0 /\ sim[h] \in {"idle", "member"}
           /\ \/ /\ sim' = [sim EXCEPT ![h] = "joining"]
                 /\ told' = [told EXCEPT ![h] = @ - 1]
              \/ sim' = sim /\ told' = told
           /\ okNext' = okNext
           /\ UNCHANGED <<connected, inbox, queue, thread>>
  <1>1. okNext' = okNext
    BY LoadUpdateGate DEF BeginJoin, JoinLoad
  <1>2. QED
    BY <1>1 DEF BeginJoin, JoinLoad, Reaches

LEMMA EndJoinStep ==
    ASSUME GateTypes, NEW h \in Host, EndJoin(h)
    PROVE  /\ sim[h] = "joining"
           /\ \/ sim' = [sim EXCEPT ![h] = "member"] /\ okNext' = TRUE
              \/ sim' = sim /\ okNext' = okNext
           /\ UNCHANGED admission
  <1>1. Coordinate(h) /\ Reaches(h, "member") /\ sim[h] = "joining" /\ status = "running"
        /\ UNCHANGED admission
    BY DEF EndJoin, JoinCoordinate, Running
  <1>2. CASE okNext' = TRUE /\ status' = status
    BY <1>1, <1>2 DEF Reaches
  <1>3. CASE okNext' = okNext /\ status' = "exited"
    BY <1>1, <1>3 DEF Reaches
  <1>4. QED
    BY <1>1, <1>2, <1>3, CoordinateGate

LEMMA UpdateStep ==
    ASSUME GateTypes, NEW h \in Host, Update(h)
    PROVE  /\ sim[h] \in {"member", "updating"}
           /\ \E s \in {"member", "updating"} : sim' = [sim EXCEPT ![h] = s]
           /\ okNext' = okNext
           /\ UNCHANGED admission
  <1>0. sim[h] \in {"member", "updating"} => sim = [sim EXCEPT ![h] = sim[h]]
    BY DEF GateTypes
  <1>1. ASSUME NEW load \in Load, UpdateLoad(h, load)
        PROVE  /\ sim[h] \in {"member", "updating"}
               /\ \E s \in {"member", "updating"} : sim' = [sim EXCEPT ![h] = s]
               /\ okNext' = okNext
    <2>1. okNext' = okNext
      BY <1>1, LoadUpdateGate DEF UpdateLoad
    <2>2. sim[h] = "member" /\ (sim' = sim \/ sim' = [sim EXCEPT ![h] = "updating"])
      BY <1>1 DEF UpdateLoad, Reaches
    <2>3. QED
      BY <1>0, <2>1, <2>2
  <1>2. ASSUME UpdateInjection(h)
        PROVE  /\ sim[h] \in {"member", "updating"}
               /\ \E s \in {"member", "updating"} : sim' = [sim EXCEPT ![h] = s]
               /\ okNext' = okNext
    <2>1. okNext' = okNext
      BY <1>2, CoordinateUpdateGate DEF UpdateInjection
    <2>2. sim[h] \in {"member", "updating"} /\ (sim' = sim \/ sim' = [sim EXCEPT ![h] = "member"])
      BY <1>2 DEF UpdateInjection, Reaches
    <2>3. QED
      BY <1>0, <2>1, <2>2
  <1>3. QED
    BY <1>1, <1>2 DEF Update

(* A request that is let through is the queue's first, and its host is     *)
(* told; or the process ends, and nothing the gate depends on changes.     *)
LEMMA DispatchStep ==
    ASSUME GateTypes, Dispatch
    PROVE  /\ thread = "popping" /\ queue # << >>
           /\ okNext' = okNext /\ sim' = sim
           /\ UNCHANGED <<connected, inbox>>
           /\ \/ /\ Head(queue) \in Host
                 /\ queue' = Tail(queue)
                 /\ told' = [told EXCEPT ![Head(queue)] = @ + 1]
                 /\ thread' = "loop"
              \/ UNCHANGED <<queue, told, thread>>
  <1>1. Head(queue) \in Host \cup {NoHost}
    BY HeadTailProperties DEF GateTypes, Dispatch
  <1>2. CASE Head(queue) # NoHost /\ told[Head(queue)] < MaxQueue
             /\ queue' = Tail(queue)
             /\ told' = [told EXCEPT ![Head(queue)] = @ + 1]
             /\ thread' = "loop"
             /\ UNCHANGED <<vars, connected, inbox>>
    BY <1>1, <1>2 DEF Dispatch, vars
  <1>3. CASE /\ IF Head(queue) = NoHost THEN Crash("badAccess") ELSE ConnectFails({Head(queue)})
             /\ UNCHANGED <<sim, admission>>
    BY <1>3 DEF Dispatch, Crash, ConnectFails, registry, admission
  <1>4. QED
    BY <1>2, <1>3 DEF Dispatch

LEMMA CancelStep ==
    ASSUME GateTypes, NEW h \in Host, ServeCancel(h)
    PROVE  /\ okNext' = okNext \/ okNext' = TRUE
           /\ sim' = sim
           /\ inbox' = inbox \ {<<"cancel", h>>}
           /\ UNCHANGED <<connected, queue, thread, told>>
  <1>1. CASE h \in Registered
    BY <1>1, UnRegisterGate DEF ServeCancel, Cancel
  <1>2. CASE h \notin Registered
    BY <1>2 DEF ServeCancel, vars
  <1>3. QED
    BY <1>1, <1>2

(* A notice, or the end of a simulator, is no step of the gate's.          *)
LEMMA LossStep ==
    ASSUME NEW h \in Host, Unregistered(h) \/ JoinCrashes(h)
    PROVE  UNCHANGED <<okNext, sim, connected, inbox, queue, thread, told>>
  BY DEF Unregistered, JoinCrashes, SimulatorEnds, vars
-----------------------------------------------------------------------------
LEMMA TypesInit == AdmissionInit => GateTypes
  BY EmptySeq DEF AdmissionInit, Init, GateTypes

LEMMA JoiningTypes ==
    ASSUME GateTypes, JoiningNext
    PROVE  GateTypes'
  <1>1. ASSUME NEW h \in Host, NEW who, SendCoordinatingRequest(h, who)
        PROVE  GateTypes'
    BY <1>1 DEF SendCoordinatingRequest, GateTypes, vars
  <1>2. ASSUME NEW h \in Host, NEW load \in Load, BeginJoin(h, load)
        PROVE  GateTypes'
    <2>1. /\ told[h] > 0
          /\ \/ /\ sim' = [sim EXCEPT ![h] = "joining"]
                /\ told' = [told EXCEPT ![h] = @ - 1]
             \/ sim' = sim /\ told' = told
          /\ okNext' = okNext
          /\ UNCHANGED <<connected, inbox, queue, thread>>
      BY <1>2, BeginJoinStep
    <2>2. QED
      BY <2>1 DEF GateTypes
  <1>3. ASSUME NEW h \in Host, EndJoin(h)
        PROVE  GateTypes'
    BY <1>3, EndJoinStep DEF GateTypes, admission
  <1>4. ASSUME NEW who \in Host \cup {NoHost}, RegisterRequest(who)
        PROVE  GateTypes'
    <2>1. queue' \in Seq(Host \cup {NoHost})
      BY <1>4, AppendProperties DEF RegisterRequest, GateTypes
    <2>2. QED
      BY <1>4, <2>1 DEF RegisterRequest, GateTypes, vars
  <1>5. CASE ReadGate \/ ShutGate
    BY <1>5 DEF ReadGate, ShutGate, GateTypes, vars
  <1>6. CASE Dispatch
    <2>1. /\ thread = "popping" /\ queue # << >>
          /\ okNext' = okNext /\ sim' = sim
          /\ UNCHANGED <<connected, inbox>>
          /\ \/ /\ Head(queue) \in Host
                /\ queue' = Tail(queue)
                /\ told' = [told EXCEPT ![Head(queue)] = @ + 1]
                /\ thread' = "loop"
             \/ UNCHANGED <<queue, told, thread>>
      BY <1>6, DispatchStep
    <2>2. Tail(queue) \in Seq(Host \cup {NoHost})
      BY <2>1, HeadTailProperties DEF GateTypes
    <2>3. ASSUME NEW h \in Host, told' = [told EXCEPT ![h] = @ + 1]
          PROVE  told' \in [Host -> Nat]
      BY <2>3 DEF GateTypes
    <2>4. told' \in [Host -> Nat] /\ queue' \in Seq(Host \cup {NoHost})
      BY <2>1, <2>2, <2>3 DEF GateTypes
    <2>5. QED
      BY <2>1, <2>4 DEF GateTypes
  <1>7. QED
    BY <1>1, <1>2, <1>3, <1>4, <1>5, <1>6 DEF JoiningNext

LEMMA StayingTypes == GateTypes /\ [StayingNext]_avars => GateTypes'
  <1>1. ASSUME GateTypes, NEW h \in Host, Update(h)
        PROVE  GateTypes'
    BY <1>1, UpdateStep DEF GateTypes, admission
  <1>2. ASSUME GateTypes, UNCHANGED avars
        PROVE  GateTypes'
    BY <1>2 DEF GateTypes, avars, vars, admission
  <1>3. QED
    BY <1>1, <1>2, JoiningTypes DEF StayingNext

LEMMA AdmissionTypes == GateTypes /\ [AdmissionNext]_avars => GateTypes'
  <1>1. ASSUME GateTypes, NEW h \in Host, SendCancelRequest(h)
        PROVE  GateTypes'
    BY <1>1 DEF SendCancelRequest, GateTypes, vars
  <1>2. ASSUME GateTypes, NEW h \in Host, ServeCancel(h)
        PROVE  GateTypes'
    BY <1>2, CancelStep DEF GateTypes
  <1>3. ASSUME GateTypes, NEW h \in Host, Unregistered(h) \/ JoinCrashes(h)
        PROVE  GateTypes'
    BY <1>3, LossStep DEF GateTypes
  <1>4. ASSUME GateTypes, UNCHANGED avars
        PROVE  GateTypes'
    BY <1>4 DEF GateTypes, avars, vars, admission
  <1>5. QED
    BY <1>1, <1>2, <1>3, <1>4, JoiningTypes DEF AdmissionNext

-----------------------------------------------------------------------------
(* Whoever has been told to join is on its way or was lost on it.          *)
LEMMA OnTheWayOrLost ==
    /\ ShutGateMeansJoining <=> (~ okNext /\ thread = "loop" => Joining # {})
    /\ ShutGateMeansJoining' <=> (~ okNext' /\ thread' = "loop" => Joining' # {})
<1>1. OnTheWay \subseteq Joining /\ OnTheWay' \subseteq Joining'
  BY DEF OnTheWay
<1>2. (OnTheWay # {} \/ LostOnTheWay # {}) <=> Joining # {}
  BY <1>1 DEF LostOnTheWay
<1>3. (OnTheWay' # {} \/ LostOnTheWay' # {}) <=> Joining' # {}
  BY <1>1 DEF LostOnTheWay
<1>4. QED
  BY <1>2, <1>3 DEF ShutGateMeansJoining

LEMMA ShutGateInit == AdmissionInit => ShutGateMeansJoining
  BY DEF AdmissionInit, Init, ShutGateMeansJoining

LEMMA ShutGateStep == GateTypes /\ ShutGateMeansJoining /\ [AdmissionNext]_avars => ShutGateMeansJoining'
  <1> SUFFICES ASSUME GateTypes, ShutGateMeansJoining, [AdmissionNext]_avars
               PROVE  ShutGateMeansJoining'
    OBVIOUS
  <1> DEFINE Shut == ~ okNext /\ thread = "loop" => Joining # {}
  <1>0. Shut /\ (Shut' => ShutGateMeansJoining')
    BY OnTheWayOrLost
  <1> USE <1>0 DEF Joining
  <1>1. ASSUME NEW h \in Host, NEW who, SendCoordinatingRequest(h, who)
        PROVE  Shut'
    BY <1>1 DEF SendCoordinatingRequest, vars
  <1>2. ASSUME NEW h \in Host, NEW load \in Load, BeginJoin(h, load)
        PROVE  Shut'
    <2>1. /\ told[h] > 0
          /\ \/ sim' = [sim EXCEPT ![h] = "joining"]
             \/ sim' = sim /\ told' = told
      BY <1>2, BeginJoinStep
    <2>2. told'[h] > 0 \/ sim'[h] = "joining"
      BY <2>1 DEF GateTypes
    <2>3. QED
      BY <2>2
  <1>3. ASSUME NEW h \in Host, EndJoin(h)
        PROVE  Shut'
    BY <1>3, EndJoinStep DEF admission
  <1>4. ASSUME NEW who \in Host \cup {NoHost}, RegisterRequest(who)
        PROVE  Shut'
    BY <1>4 DEF RegisterRequest, vars
  <1>5. CASE ReadGate \/ ShutGate
    BY <1>5 DEF ReadGate, ShutGate
  <1>6. CASE Dispatch
    <2>1. CASE /\ Head(queue) \in Host
               /\ told' = [told EXCEPT ![Head(queue)] = @ + 1]
      <3>1. told'[Head(queue)] > 0
        BY <2>1 DEF GateTypes
      <3>2. QED
        BY <2>1, <3>1
    <2>2. CASE UNCHANGED <<queue, told, thread>>
      BY <1>6, <2>2, DispatchStep
    <2>3. QED
      BY <1>6, <2>1, <2>2, DispatchStep
  <1>7. ASSUME NEW h \in Host, SendCancelRequest(h)
        PROVE  Shut'
    BY <1>7 DEF SendCancelRequest, vars
  <1>8. ASSUME NEW h \in Host, ServeCancel(h)
        PROVE  Shut'
    BY <1>8, CancelStep
  <1>9. ASSUME NEW h \in Host, Unregistered(h) \/ JoinCrashes(h)
        PROVE  Shut'
    BY <1>9, LossStep
  <1>10. CASE UNCHANGED avars
    BY <1>10 DEF avars, vars, admission
  <1>11. QED
    BY <1>1, <1>2, <1>3, <1>4, <1>5, <1>6, <1>7, <1>8, <1>9, <1>10 DEF AdmissionNext, JoiningNext

(* In no order of requests, joins and cancels does the gate stay shut with *)
(* nobody to open it, but for one: whenever the request thread finds it    *)
(* shut, some host has been told to join and has not finished, and either  *)
(* it still runs, and its Coordinate opens the gate, or its simulator has  *)
(* ended over the session that a notice of its cancel had deleted.         *)
THEOREM ShutGateIsForSomebody == AdmissionSpec => []ShutGateMeansJoining
  BY TypesInit, AdmissionTypes, ShutGateInit, ShutGateStep, PTL DEF AdmissionSpec

-----------------------------------------------------------------------------
(* Without cancels one host at a time is between the message of the        *)
(* request thread and its Coordinate, and the gate is shut meanwhile.      *)
OneJoins ==
    /\ \A g, h \in Joining : g = h
    /\ \A h \in Host : told[h] <= 1 /\ (told[h] > 0 => sim[h] # "joining")

GateInv ==
    /\ OneJoins
    /\ OpenGateMeansIdle
    /\ thread = "popping" => ~ okNext

LEMMA GateInit == AdmissionInit => GateInv
  BY DEF AdmissionInit, Init, GateInv, OneJoins, OpenGateMeansIdle, Joining

LEMMA GateStep == GateTypes /\ GateInv /\ [StayingNext]_avars => GateInv'
  <1> SUFFICES ASSUME GateTypes, GateInv, [StayingNext]_avars
               PROVE  GateInv'
    OBVIOUS
  <1> USE DEF GateInv, OneJoins, OpenGateMeansIdle, Joining
  <1>1. ASSUME NEW h \in Host, NEW who, SendCoordinatingRequest(h, who)
        PROVE  GateInv'
    BY <1>1 DEF SendCoordinatingRequest, vars
  <1>2. ASSUME NEW h \in Host, NEW load \in Load, BeginJoin(h, load)
        PROVE  GateInv'
    <2>1. /\ told[h] > 0
          /\ \/ /\ sim' = [sim EXCEPT ![h] = "joining"]
                /\ told' = [told EXCEPT ![h] = @ - 1]
             \/ sim' = sim /\ told' = told
          /\ okNext' = okNext
          /\ UNCHANGED <<connected, inbox, queue, thread>>
      BY <1>2, BeginJoinStep
    <2>2. h \in Joining /\ told[h] = 1
      BY <2>1 DEF GateTypes
    <2>3. Joining' = Joining
      BY <2>1, <2>2 DEF GateTypes
    <2>4. \A g \in Host : told'[g] <= 1 /\ (told'[g] > 0 => sim'[g] # "joining")
      BY <2>1, <2>2 DEF GateTypes
    <2>5. QED
      BY <2>1, <2>3, <2>4
  <1>3. ASSUME NEW h \in Host, EndJoin(h)
        PROVE  GateInv'
    <2>1. sim[h] = "joining" /\ UNCHANGED admission
      BY <1>3, EndJoinStep
    <2>2. CASE sim' = [sim EXCEPT ![h] = "member"] /\ okNext' = TRUE
      <3>1. Joining = {h} /\ told[h] = 0 /\ thread = "loop"
        BY <2>1 DEF GateTypes
      <3>2. told' = told /\ thread' = thread
        BY <2>1 DEF admission
      <3>3. Joining' = {}
        <4>1. \A g \in Host : ~ (told'[g] > 0) /\ sim'[g] # "joining"
          BY <2>2, <3>1, <3>2 DEF GateTypes
        <4>2. QED
          BY <4>1
      <3>4. QED
        BY <2>2, <3>1, <3>2, <3>3 DEF GateTypes
    <2>3. CASE sim' = sim /\ okNext' = okNext
      BY <2>1, <2>3 DEF admission
    <2>4. QED
      BY <1>3, <2>2, <2>3, EndJoinStep
  <1>4. ASSUME NEW who \in Host \cup {NoHost}, RegisterRequest(who)
        PROVE  GateInv'
    BY <1>4 DEF RegisterRequest, vars
  <1>5. CASE ReadGate \/ ShutGate
    BY <1>5 DEF ReadGate, ShutGate, vars
  <1>6. CASE Dispatch
    <2>1. thread = "popping" /\ okNext' = okNext /\ sim' = sim
      BY <1>6, DispatchStep
    <2>2. Joining = {} /\ ~ okNext
      BY <2>1
    <2>3. CASE /\ Head(queue) \in Host
               /\ told' = [told EXCEPT ![Head(queue)] = @ + 1]
               /\ thread' = "loop"
      <3>1. told[Head(queue)] = 0 /\ told'[Head(queue)] = 1
        BY <2>2, <2>3 DEF GateTypes
      <3>2. \A g \in Host : g # Head(queue) => told'[g] = told[g]
        BY <2>3 DEF GateTypes
      <3>3. Joining' = {Head(queue)} /\ sim[Head(queue)] # "joining"
        BY <2>1, <2>2, <2>3, <3>1, <3>2
      <3>4. QED
        BY <2>1, <2>2, <2>3, <3>1, <3>2, <3>3 DEF GateTypes
    <2>4. CASE UNCHANGED <<queue, told, thread>>
      BY <2>1, <2>4
    <2>5. QED
      BY <1>6, <2>3, <2>4, DispatchStep
  <1>7. ASSUME NEW h \in Host, Update(h)
        PROVE  GateInv'
    <2>1. /\ sim[h] \in {"member", "updating"}
          /\ \E s \in {"member", "updating"} : sim' = [sim EXCEPT ![h] = s]
          /\ okNext' = okNext
          /\ UNCHANGED admission
      BY <1>7, UpdateStep
    <2>2. \A g \in Host : sim'[g] = "joining" <=> sim[g] = "joining"
      BY <2>1 DEF GateTypes
    <2>3. QED
      BY <2>1, <2>2 DEF admission
  <1>8. CASE UNCHANGED avars
    BY <1>8 DEF avars, vars, admission
  <1>9. QED
    BY <1>1, <1>2, <1>3, <1>4, <1>5, <1>6, <1>7, <1>8 DEF StayingNext, JoiningNext

(* As long as no GUI cancels, the gate is open, and the request thread     *)
(* past it, only while no host is joining: is_ok_next, read and written    *)
(* without a lock in two steps, admits one host at a time all the same.    *)
THEOREM OpenGateIsIdle == StayingSpec => []OpenGateMeansIdle
  <1>1. GateInv => OpenGateMeansIdle
    BY DEF GateInv
  <1>2. QED
    BY TypesInit, StayingTypes, GateInit, GateStep, <1>1, PTL DEF StayingSpec
(* As long as no GUI cancels, a host is told to join only when the one     *)
(* before it has its rows: "the coordinator can control the request        *)
(* sequence" (emulator.tcl:2653).                                          *)
THEOREM JoinsOneAtATime == StayingSpec => []OneJoinAtATime
  <1>1. ASSUME GateInv
        PROVE  OneJoinAtATime
    <2>1. CASE Joining = {}
      BY <2>1, FS_EmptySet DEF OneJoinAtATime
    <2>2. ASSUME NEW h \in Joining
          PROVE  OneJoinAtATime
      <3>1. Joining = {h}
        BY <1>1 DEF GateInv, OneJoins
      <3>2. QED
        BY <3>1, FS_Singleton DEF OneJoinAtATime
    <2>3. QED
      BY <2>1, <2>2
  <1>2. GateInv => OneJoinAtATime
    BY <1>1
  <1>3. QED
    BY TypesInit, StayingTypes, GateInit, GateStep, <1>2, PTL DEF StayingSpec

-----------------------------------------------------------------------------
(* The refinement.  Without cancels a GUI asks once, so a host is at most  *)
(* once on its way to the request thread.                                  *)
Queued(h) == \E i \in DOMAIN queue : queue[i] = h

AskOnce ==
    /\ \A h \in Host : ~ connected[h] => h \notin AskedFor
    /\ \A h \in Host : ~ (Requested(h) /\ Queued(h))
    /\ \A i, j \in DOMAIN queue : queue[i] = queue[j] /\ queue[i] # NoHost => i = j

LEMMA AskInit == AdmissionInit => AskOnce
  BY DEF AdmissionInit, AskOnce, AskedFor, Requested, Queued

(* What the steps do to the hosts asked for.                               *)
LEMMA SendAsks ==
    ASSUME NEW h \in Host, NEW who \in {h, NoHost}, SendCoordinatingRequest(h, who)
    PROVE  /\ AskedFor' = AskedFor \cup (IF who = NoHost THEN {} ELSE {h})
           /\ \A g \in Host : Requested(g)' <=> Requested(g) \/ g = who
           /\ \A g \in Host : Queued(g)' <=> Queued(g)
  BY HostAssumption DEF SendCoordinatingRequest, AskedFor, Requested, Queued

LEMMA RegisterAsks ==
    ASSUME GateTypes, NEW who \in Host \cup {NoHost}, RegisterRequest(who)
    PROVE  /\ AskedFor' = AskedFor
           /\ \A g \in Host : Requested(g)' <=> Requested(g) /\ g # who
           /\ \A g \in Host : Queued(g)' <=> Queued(g) \/ g = who
           /\ DOMAIN queue = 1 .. Len(queue) /\ Len(queue) \in Nat
           /\ DOMAIN queue' = 1 .. Len(queue) + 1
           /\ \A i \in DOMAIN queue : queue'[i] = queue[i]
           /\ queue'[Len(queue) + 1] = who
  <1>1. queue \in Seq(Host \cup {NoHost}) /\ queue' = Append(queue, who)
    BY DEF GateTypes, RegisterRequest
  <1>2. /\ queue' \in Seq(Host \cup {NoHost}) /\ Len(queue') = Len(queue) + 1
        /\ \A i \in 1 .. Len(queue) : queue'[i] = queue[i]
        /\ queue'[Len(queue) + 1] = who
    BY <1>1, AppendProperties
  <1>3. /\ DOMAIN queue = 1 .. Len(queue) /\ Len(queue) \in Nat
        /\ DOMAIN queue' = 1 .. Len(queue) + 1
    BY <1>1, <1>2, LenProperties
  <1>4. \A g : Queued(g)' <=> Queued(g) \/ g = who
    <2>1. \A i : i \in DOMAIN queue' <=> i \in DOMAIN queue \/ i = Len(queue) + 1
      BY <1>3
    <2>2. QED
      BY <1>2, <1>3, <2>1 DEF Queued
  <1>5. /\ Requested(who)
        /\ \A g \in Host : Requested(g)' <=> Requested(g) /\ g # who
    BY DEF RegisterRequest, Requested
  <1>6. AskedFor' = AskedFor
    BY <1>4, <1>5 DEF AskedFor, Queued
  <1>7. QED
    BY <1>2, <1>3, <1>4, <1>5, <1>6

LEMMA DispatchAsks ==
    ASSUME GateTypes, AskOnce, Dispatch, Head(queue) \in Host, queue' = Tail(queue)
    PROVE  /\ Head(queue) \in AskedFor
           /\ AskedFor' = AskedFor \ {Head(queue)}
           /\ \A g \in Host : Requested(g)' <=> Requested(g)
           /\ \A g \in Host : Queued(g)' <=> Queued(g) /\ g # Head(queue)
           /\ DOMAIN queue' = 1 .. Len(queue) - 1
           /\ DOMAIN queue = 1 .. Len(queue) /\ Len(queue) \in Nat
           /\ \A i \in DOMAIN queue' : queue'[i] = queue[i + 1]
  <1>1. queue \in Seq(Host \cup {NoHost}) /\ queue # << >> /\ inbox' = inbox
    BY DispatchStep DEF GateTypes
  <1>2. /\ queue' \in Seq(Host \cup {NoHost}) /\ Len(queue') = Len(queue) - 1
        /\ \A i \in 1 .. Len(queue') : queue'[i] = queue[i + 1]
    BY <1>1, HeadTailProperties
  <1>3. /\ DOMAIN queue' = 1 .. Len(queue) - 1
        /\ DOMAIN queue = 1 .. Len(queue) /\ Len(queue) \in Nat
    BY <1>1, <1>2, LenProperties
  <1>4. Head(queue) = queue[1] /\ 1 \in DOMAIN queue
    BY <1>1, <1>3, EmptySeq
  <1>5. ASSUME NEW g \in Host
        PROVE  Queued(g)' <=> Queued(g) /\ g # Head(queue)
    <2>1. ASSUME NEW i \in DOMAIN queue', queue'[i] = g
          PROVE  Queued(g) /\ g # Head(queue)
      <3>1. i + 1 \in DOMAIN queue /\ i + 1 # 1
        BY <1>3
      <3>2. queue[i + 1] = g
        BY <1>2, <1>3, <2>1
      <3>3. queue[1] # g
        BY <1>4, <3>1, <3>2, HostAssumption DEF AskOnce
      <3>4. QED
        BY <1>4, <3>1, <3>2, <3>3 DEF Queued
    <2>2. ASSUME NEW i \in DOMAIN queue, queue[i] = g, g # Head(queue)
          PROVE  Queued(g)'
      <3>1. i # 1
        BY <1>4, <2>2
      <3>2. i - 1 \in DOMAIN queue' /\ i - 1 + 1 = i
        BY <1>3, <3>1
      <3>3. queue'[i - 1] = g
        BY <1>2, <1>3, <2>2, <3>2
      <3>4. QED
        BY <3>2, <3>3 DEF Queued
    <2>3. QED
      BY <2>1, <2>2 DEF Queued
  <1>6. \A g \in Host : Requested(g)' <=> Requested(g)
    BY <1>1 DEF Requested
  <1>7. ~ Requested(Head(queue)) /\ Queued(Head(queue))
    BY <1>4 DEF AskOnce, Queued
  <1>8. \A g : g \in AskedFor <=> g \in Host /\ (Requested(g) \/ Queued(g))
    BY DEF AskedFor, Queued
  <1>9. \A g : g \in AskedFor' <=> g \in Host /\ (Requested(g)' \/ Queued(g)')
    BY DEF AskedFor, Queued
  <1>10. Head(queue) \in AskedFor /\ AskedFor' = AskedFor \ {Head(queue)}
    BY <1>5, <1>6, <1>7, <1>8, <1>9
  <1>11. QED
    BY <1>2, <1>3, <1>5, <1>6, <1>10

LEMMA AskStep == GateTypes /\ AskOnce /\ [StayingNext]_avars => AskOnce'
  <1> SUFFICES ASSUME GateTypes, AskOnce, [StayingNext]_avars
               PROVE  AskOnce'
    OBVIOUS
  <1>0. ASSUME UNCHANGED <<connected, inbox, queue>>
        PROVE  AskOnce'
    BY <1>0 DEF AskOnce, AskedFor, Requested, Queued
  <1>1. ASSUME NEW h \in Host, NEW who \in {h, NoHost}, SendCoordinatingRequest(h, who)
        PROVE  AskOnce'
    <2>1. /\ AskedFor' = AskedFor \cup (IF who = NoHost THEN {} ELSE {h})
          /\ \A g \in Host : Requested(g)' <=> Requested(g) \/ g = who
          /\ \A g \in Host : Queued(g)' <=> Queued(g)
      BY <1>1, SendAsks
    <2>2. ~ connected[h] /\ connected' = [connected EXCEPT ![h] = TRUE] /\ queue' = queue
      BY <1>1 DEF SendCoordinatingRequest
    <2>3. ~ Queued(h)
      BY <2>2 DEF AskOnce, AskedFor, Queued
    <2>4. \A g \in Host : ~ connected'[g] => g \notin AskedFor'
      <3> SUFFICES ASSUME NEW g \in Host, ~ connected'[g] PROVE g \notin AskedFor'
        OBVIOUS
      <3>1. g # h /\ ~ connected[g]
        BY <2>2 DEF GateTypes
      <3>2. QED
        BY <2>1, <3>1 DEF AskOnce
    <2>5. \A g \in Host : ~ (Requested(g)' /\ Queued(g)')
      BY <2>1, <2>3, HostAssumption DEF AskOnce
    <2>6. QED
      BY <2>2, <2>4, <2>5 DEF AskOnce
  <1>2. ASSUME NEW h \in Host, NEW load \in Load, BeginJoin(h, load)
        PROVE  AskOnce'
    BY <1>0, <1>2, BeginJoinStep
  <1>3. ASSUME NEW h \in Host, EndJoin(h) \/ Update(h)
        PROVE  AskOnce'
    BY <1>0, <1>3, EndJoinStep, UpdateStep DEF admission
  <1>4. ASSUME NEW who \in Host \cup {NoHost}, RegisterRequest(who)
        PROVE  AskOnce'
    <2>1. /\ AskedFor' = AskedFor
          /\ \A g \in Host : Requested(g)' <=> Requested(g) /\ g # who
          /\ \A g \in Host : Queued(g)' <=> Queued(g) \/ g = who
          /\ DOMAIN queue = 1 .. Len(queue) /\ Len(queue) \in Nat
          /\ DOMAIN queue' = 1 .. Len(queue) + 1
          /\ \A i \in DOMAIN queue : queue'[i] = queue[i]
          /\ queue'[Len(queue) + 1] = who
      BY <1>4, RegisterAsks
    <2>2. connected' = connected /\ (who # NoHost => Requested(who))
      BY <1>4 DEF RegisterRequest, Requested
    <2>3. \A i \in DOMAIN queue : queue[i] = who => who = NoHost
      BY <2>2 DEF AskOnce, Queued
    <2>4. \A i \in DOMAIN queue' : i \in DOMAIN queue \/ i = Len(queue) + 1
      BY <2>1
    <2>5. \A i, j \in DOMAIN queue' : queue'[i] = queue'[j] /\ queue'[i] # NoHost => i = j
      BY <2>1, <2>3, <2>4 DEF AskOnce
    <2>6. \A g \in Host : ~ (Requested(g)' /\ Queued(g)')
      BY <2>1 DEF AskOnce
    <2>7. \A g \in Host : ~ connected'[g] => g \notin AskedFor'
      BY <2>1, <2>2 DEF AskOnce
    <2>8. QED
      BY <2>5, <2>6, <2>7 DEF AskOnce
  <1>5. CASE ReadGate \/ ShutGate
    BY <1>0, <1>5 DEF ReadGate, ShutGate
  <1>6. CASE Dispatch
    <2>1. CASE UNCHANGED <<queue, told, thread>>
      BY <1>0, <1>6, <2>1, DispatchStep
    <2>2. CASE Head(queue) \in Host /\ queue' = Tail(queue)
      <3>1. /\ AskedFor' = AskedFor \ {Head(queue)}
            /\ \A g \in Host : Requested(g)' <=> Requested(g)
            /\ \A g \in Host : Queued(g)' <=> Queued(g) /\ g # Head(queue)
            /\ DOMAIN queue' = 1 .. Len(queue) - 1
            /\ DOMAIN queue = 1 .. Len(queue) /\ Len(queue) \in Nat
            /\ \A i \in DOMAIN queue' : queue'[i] = queue[i + 1]
        BY <1>6, <2>2, DispatchAsks
      <3>2. connected' = connected
        BY <1>6, DispatchStep
      <3>3. ASSUME NEW i \in DOMAIN queue', NEW j \in DOMAIN queue',
                   queue'[i] = queue'[j], queue'[i] # NoHost
            PROVE  i = j
        <4>1. i + 1 \in DOMAIN queue /\ j + 1 \in DOMAIN queue /\ i \in Nat /\ j \in Nat
          BY <3>1
        <4>2. i + 1 = j + 1
          BY <3>1, <3>3, <4>1 DEF AskOnce
        <4>3. QED
          BY <4>1, <4>2
      <3>4. \A g \in Host : ~ (Requested(g)' /\ Queued(g)')
        BY <3>1 DEF AskOnce
      <3>5. \A g \in Host : ~ connected'[g] => g \notin AskedFor'
        BY <3>1, <3>2 DEF AskOnce
      <3>6. QED
        BY <3>3, <3>4, <3>5 DEF AskOnce
    <2>3. QED
      BY <1>6, <2>1, <2>2, DispatchStep
  <1>7. CASE UNCHANGED avars
    BY <1>0, <1>7 DEF avars, admission
  <1>8. QED
    BY <1>1, <1>2, <1>3, <1>4, <1>5, <1>6, <1>7 DEF StayingNext, JoiningNext

(* Who is joining is told by Joining alone.                                *)
LEMMA SameJoining ==
    ASSUME UNCHANGED <<sim, told>>
    PROVE  Joining' = Joining /\ TheJoining' = TheJoining
  <1>1. Joining' = Joining
    BY DEF Joining
  <1>2. QED
    BY <1>1 DEF TheJoining

LEMMA GateRefinedInit == AdmissionInit => Gate!Init
  <1> SUFFICES ASSUME AdmissionInit PROVE Gate!Init
    OBVIOUS
  <1>1. AskedFor = {}
    BY DEF AdmissionInit, AskedFor, Requested
  <1>2. Joining = {}
    BY DEF AdmissionInit, Init, Joining
  <1>3. QED
    BY <1>1, <1>2 DEF Gate!Init, TheJoining

LEMMA GateRefinedStep ==
    GateTypes /\ GateInv /\ AskOnce /\ [StayingNext]_avars => [Gate!Next]_<<AskedFor, TheJoining>>
  <1> SUFFICES ASSUME GateTypes, GateInv, AskOnce, [StayingNext]_avars
               PROVE  [Gate!Next]_<<AskedFor, TheJoining>>
    OBVIOUS
  <1>0. ASSUME UNCHANGED <<sim, told, inbox, queue>>
        PROVE  UNCHANGED <<AskedFor, TheJoining>>
    <2>1. AskedFor' = AskedFor
      BY <1>0 DEF AskedFor, Requested
    <2>2. QED
      BY <1>0, <2>1, SameJoining
  <1>1. ASSUME NEW h \in Host, NEW who \in {h, NoHost}, SendCoordinatingRequest(h, who)
        PROVE  [Gate!Next]_<<AskedFor, TheJoining>>
    <2>1. AskedFor' = AskedFor \cup (IF who = NoHost THEN {} ELSE {h})
      BY <1>1, SendAsks
    <2>2. TheJoining' = TheJoining
      BY <1>1, SameJoining DEF SendCoordinatingRequest, vars
    <2>3. CASE who = NoHost \/ h \in AskedFor
      BY <2>1, <2>2, <2>3
    <2>4. CASE who # NoHost /\ h \notin AskedFor
      BY <2>1, <2>2, <2>4 DEF Gate!Next, Gate!Ask
    <2>5. QED
      BY <2>3, <2>4
  <1>2. ASSUME NEW h \in Host, NEW load \in Load, BeginJoin(h, load)
        PROVE  UNCHANGED <<AskedFor, TheJoining>>
    <2>1. /\ told[h] > 0
          /\ \/ /\ sim' = [sim EXCEPT ![h] = "joining"]
                /\ told' = [told EXCEPT ![h] = @ - 1]
             \/ sim' = sim /\ told' = told
          /\ UNCHANGED <<inbox, queue>>
      BY <1>2, BeginJoinStep
    <2>2. Joining' = Joining
      <3>1. told[h] = 1
        BY <2>1 DEF GateTypes, GateInv, OneJoins
      <3>2. QED
        BY <2>1, <3>1 DEF GateTypes, Joining
    <2>3. AskedFor' = AskedFor
      BY <2>1 DEF AskedFor, Requested
    <2>4. QED
      BY <2>2, <2>3 DEF TheJoining
  <1>3. ASSUME NEW h \in Host, EndJoin(h)
        PROVE  [Gate!Next]_<<AskedFor, TheJoining>>
    <2>1. sim[h] = "joining" /\ UNCHANGED admission
      BY <1>3, EndJoinStep
    <2>2. CASE sim' = [sim EXCEPT ![h] = "member"] /\ okNext' = TRUE
      <3>1. h \in Joining
        BY <2>1 DEF Joining
      <3>2. TheJoining # NoHost
        <4>1. TheJoining \in Joining
          BY <3>1 DEF TheJoining
        <4>2. QED
          BY <4>1, HostAssumption DEF Joining
      <3>3. OpenGateMeansIdle'
        BY <1>3, GateStep DEF GateInv, StayingNext, JoiningNext
      <3>4. TheJoining' = NoHost
        BY <2>2, <3>3 DEF OpenGateMeansIdle, TheJoining
      <3>5. AskedFor' = AskedFor
        BY <2>1 DEF AskedFor, Requested, admission
      <3>6. QED
        BY <3>2, <3>4, <3>5 DEF Gate!Next, Gate!Leave
    <2>3. CASE sim' = sim /\ okNext' = okNext
      BY <1>0, <2>1, <2>3 DEF admission
    <2>4. QED
      BY <1>3, <2>2, <2>3, EndJoinStep
  <1>4. ASSUME NEW who \in Host \cup {NoHost}, RegisterRequest(who)
        PROVE  UNCHANGED <<AskedFor, TheJoining>>
    BY <1>4, RegisterAsks, SameJoining DEF RegisterRequest, vars
  <1>5. CASE ReadGate \/ ShutGate
    BY <1>0, <1>5 DEF ReadGate, ShutGate, vars
  <1>6. CASE Dispatch
    <2>1. CASE UNCHANGED <<queue, told, thread>>
      BY <1>0, <1>6, <2>1, DispatchStep
    <2>2. CASE /\ Head(queue) \in Host /\ queue' = Tail(queue)
               /\ told' = [told EXCEPT ![Head(queue)] = @ + 1]
      <3> DEFINE h == Head(queue)
      <3>1. thread = "popping" /\ sim' = sim
        BY <1>6, DispatchStep
      <3>2. Joining = {}
        BY <3>1 DEF GateInv, OpenGateMeansIdle
      <3>3. h \in AskedFor /\ AskedFor' = AskedFor \ {h}
        BY <1>6, <2>2, DispatchAsks
      <3>4. h \in Host /\ told' = [told EXCEPT ![h] = @ + 1]
        BY <2>2
      <3> HIDE DEF h
      <3>5. Joining' = {h}
        <4>1. \A g \in Host : sim[g] # "joining" /\ told[g] = 0
          BY <3>2 DEF Joining, GateTypes
        <4>2. told'[h] = 1 /\ \A g \in Host : g # h => told'[g] = 0
          BY <3>4, <4>1 DEF GateTypes
        <4>3. QED
          BY <3>1, <3>4, <4>1, <4>2 DEF Joining
      <3>6. TheJoining = NoHost /\ TheJoining' = h
        BY <3>2, <3>5 DEF TheJoining
      <3>7. QED
        BY <3>3, <3>4, <3>6 DEF Gate!Next, Gate!Enter
    <2>3. QED
      BY <1>6, <2>1, <2>2, DispatchStep
  <1>7. ASSUME NEW h \in Host, Update(h)
        PROVE  UNCHANGED <<AskedFor, TheJoining>>
    <2>1. /\ sim[h] \in {"member", "updating"}
          /\ \E s \in {"member", "updating"} : sim' = [sim EXCEPT ![h] = s]
          /\ UNCHANGED admission
      BY <1>7, UpdateStep
    <2>2. \A g \in Host : sim'[g] = "joining" <=> sim[g] = "joining"
      BY <2>1 DEF GateTypes
    <2>3. Joining' = Joining
      BY <2>1, <2>2 DEF Joining, admission
    <2>4. AskedFor' = AskedFor
      BY <2>1 DEF AskedFor, Requested, admission
    <2>5. QED
      BY <2>3, <2>4 DEF TheJoining
  <1>8. CASE UNCHANGED avars
    BY <1>0, <1>8 DEF avars, vars, admission
  <1>9. QED
    BY <1>1, <1>2, <1>3, <1>4, <1>5, <1>6, <1>7, <1>8 DEF StayingNext, JoiningNext

(* As long as no GUI cancels, the queue, the request thread, the gate and  *)
(* the registry together are a turnstile: hosts wait, one of those that    *)
(* wait is let in when nobody is inside, and each that is let in leaves    *)
(* before the next.                                                        *)
THEOREM AdmissionIsTurnstile == StayingSpec => TurnstileSpec
  BY TypesInit, StayingTypes, GateInit, GateStep, AskInit, AskStep,
     GateRefinedInit, GateRefinedStep, PTL DEF StayingSpec, TurnstileSpec, Gate!Spec
=============================================================================
