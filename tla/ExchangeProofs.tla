--------------------------- MODULE ExchangeProofs ---------------------------
(***************************************************************************)
(* Theorems about Exchange, for any finite set of hosts, any number of     *)
(* boundary rows of each and any number of updates.                        *)
(***************************************************************************)
EXTENDS Exchange, FiniteSetTheorems, SequenceTheorems, TLAPS

Message == [kind : {"load", "volts"}, of : Nat, rows : Nat]

Types ==
    /\ load \in Nat /\ solution \in Nat
    /\ master \in Host \cup {Nobody}
    /\ sim \in [Host -> {"free", "load", "sleep", "inject"}]
    /\ share \in [Host -> Nat] /\ injected \in [Host -> Nat]
    /\ volts \in [Host -> [of : Nat, rows : Nat]]
    /\ inbox \in [Host -> Seq(Message)]
    /\ overlap \in BOOLEAN /\ inOrder \in BOOLEAN

Loading == {g \in Host : sim[g] = "load"}

(* Nothing carries the number of a calculation that was not made, and the  *)
(* updates that wait for the coordinator are within the bound too.         *)
Calculated ==
    /\ load + Cardinality(Loading) <= MaxLoads
    /\ \A h \in Host :
          /\ share[h] <= load /\ injected[h] <= load
          /\ volts[h].of <= solution /\ volts[h].rows <= Rows[h]
          /\ \A i \in DOMAIN inbox[h] :
                IF inbox[h][i].kind = "load"
                THEN inbox[h][i].of <= load
                ELSE inbox[h][i].of <= solution /\ inbox[h][i].rows <= Rows[h]

MutexOfSleeper == \A h \in Host : sim[h] = "sleep" <=> master = h

HasLoad(h) == \E i \in DOMAIN inbox[h] : inbox[h][i].kind = "load"

(* As long as no update begins before the one before is over: an update    *)
(* that has not got to the coordinator is alone, and afterwards each host  *)
(* has the new share, or is about to get it, and the coordinator its       *)
(* injection likewise.                                                     *)
OneUpdate ==
    ~ overlap =>
       /\ \A g \in Host : sim[g] = "load" =>
             \A h \in Host : inbox[h] = << >> /\ (h # g => sim[h] = "free")
       /\ \A h \in Host :
             /\ \A i \in DOMAIN inbox[h] : inbox[h][i].kind = "load" => inbox[h][i].of = load
             /\ share[h] = load \/ sim[h] = "sleep" \/ HasLoad(h)
             /\ injected[h] = load \/ sim[h] \in {"sleep", "inject"} \/ HasLoad(h)

(* As long as a host's handlers get its mutex in order, the last voltages  *)
(* it has, or is about to get, are all of the last calculation.            *)
Newest(h) == [of |-> solution, rows |-> Rows[h]]

LastVoltages ==
    inOrder => \A h \in Host : Rows[h] > 0 =>
       \/ /\ volts[h] = Newest(h)
          /\ \A i \in DOMAIN inbox[h] : inbox[h][i].kind = "load"
       \/ \E i \in DOMAIN inbox[h] :
             /\ inbox[h][i] = VoltMessage(solution, Rows[h])
             /\ \A j \in DOMAIN inbox[h] : i < j => inbox[h][j].kind = "load"

IInv == Types /\ Calculated /\ MutexOfSleeper /\ OneUpdate /\ LastVoltages

-----------------------------------------------------------------------------
LEMMA RemoveAtProperties ==
    ASSUME NEW S, NEW s \in Seq(S), NEW i \in DOMAIN s
    PROVE  /\ RemoveAt(s, i) \in Seq(S)
           /\ Len(RemoveAt(s, i)) = Len(s) - 1
           /\ \A j \in 1 .. Len(s) - 1 : RemoveAt(s, i)[j] = IF j < i THEN s[j] ELSE s[j + 1]
  <1> DEFINE a == SubSeq(s, 1, i - 1)
             b == SubSeq(s, i + 1, Len(s))
             c == a \o b
             n == Len(s)
  <1>1. n \in Nat /\ i \in 1 .. n /\ \A j \in 1 .. n : s[j] \in S
    BY ElementOfSeq, LenProperties
  <1>2. /\ a \in Seq(S) /\ Len(a) = i - 1
        /\ \A j \in 1 .. i - 1 : a[j] = s[j]
    BY <1>1, SubSeqProperties
  <1>3. /\ b \in Seq(S) /\ Len(b) = n - i
        /\ \A j \in 1 .. n - i : b[j] = s[i + j]
    <2>1. /\ b \in Seq(S)
          /\ Len(b) = IF i + 1 <= n THEN n - (i + 1) + 1 ELSE 0
          /\ \A j \in 1 .. n - (i + 1) + 1 : b[j] = s[i + 1 + j - 1]
      BY <1>1, SubSeqProperties
    <2>2. QED
      BY <1>1, <2>1
  <1>4. /\ c \in Seq(S) /\ Len(c) = Len(a) + Len(b)
        /\ \A j \in 1 .. Len(a) + Len(b) : c[j] = IF j <= Len(a) THEN a[j] ELSE b[j - Len(a)]
    <2> HIDE DEF a, b
    <2>1. QED
      BY <1>2, <1>3, ConcatProperties
  <1>5. RemoveAt(s, i) = c
    BY DEF RemoveAt
  <1> HIDE DEF a, b, c, n
  <1>6. c \in Seq(S) /\ Len(c) = n - 1
    BY <1>1, <1>2, <1>3, <1>4
  <1>7. ASSUME NEW j \in 1 .. n - 1
        PROVE  c[j] = IF j < i THEN s[j] ELSE s[j + 1]
    <2>1. c[j] = IF j <= i - 1 THEN a[j] ELSE b[j - (i - 1)]
      <3>1. j \in 1 .. Len(a) + Len(b) /\ Len(a) = i - 1
        BY <1>1, <1>2, <1>3
      <3>2. c[j] = IF j <= Len(a) THEN a[j] ELSE b[j - Len(a)]
        BY <1>4, <3>1
      <3>3. QED
        BY <3>1, <3>2
    <2>2. CASE j < i
      BY <1>1, <1>2, <2>1, <2>2
    <2>3. CASE ~ j < i
      <3>1. j - (i - 1) \in 1 .. n - i /\ i + (j - (i - 1)) = j + 1
        BY <1>1, <2>3
      <3>2. QED
        BY <1>1, <1>3, <2>1, <2>3, <3>1
    <2>4. QED
      BY <2>2, <2>3
  <1>8. QED
    BY <1>5, <1>6, <1>7 DEF n

(* What Take does to the messages of a host.                               *)
LEMMA TakeMessages ==
    ASSUME Types, NEW h \in Host, NEW i, Take(h, i)
    PROVE  /\ inbox' \in [Host -> Seq(Message)]
           /\ \A g \in Host \ {h} : inbox'[g] = inbox[g]
           /\ i \in DOMAIN inbox[h] /\ Len(inbox[h]) \in Nat
           /\ DOMAIN inbox[h] = 1 .. Len(inbox[h])
           /\ DOMAIN inbox'[h] = 1 .. Len(inbox[h]) - 1
           /\ \A j \in DOMAIN inbox'[h] :
                 inbox'[h][j] = IF j < i THEN inbox[h][j] ELSE inbox[h][j + 1]
  <1> DEFINE s == inbox[h]
  <1>1. s \in Seq(Message) /\ i \in DOMAIN s
    BY DEF Types, Take
  <1>2. inbox' = [inbox EXCEPT ![h] = RemoveAt(s, i)]
    BY DEF Take, Types
  <1>3. inbox'[h] = RemoveAt(s, i) /\ \A g \in Host \ {h} : inbox'[g] = inbox[g]
    BY <1>2 DEF Types
  <1>4. /\ RemoveAt(s, i) \in Seq(Message)
        /\ Len(RemoveAt(s, i)) = Len(s) - 1
        /\ \A j \in 1 .. Len(s) - 1 : RemoveAt(s, i)[j] = IF j < i THEN s[j] ELSE s[j + 1]
    BY <1>1, RemoveAtProperties
  <1>5. inbox' \in [Host -> Seq(Message)]
    BY <1>2, <1>4 DEF Types
  <1>6. DOMAIN s = 1 .. Len(s) /\ Len(s) \in Nat
    BY <1>1, LenProperties
  <1>7. DOMAIN inbox'[h] = 1 .. Len(s) - 1
    BY <1>3, <1>4, LenProperties
  <1>8. QED
    BY <1>1, <1>3, <1>4, <1>5, <1>6, <1>7

(* What LoadUpdate does to them: one more, a load message, for all but h.  *)
LEMMA TellMessages ==
    ASSUME Types, NEW h \in Host, LoadUpdate(h)
    PROVE  /\ inbox' \in [Host -> Seq(Message)]
           /\ inbox'[h] = inbox[h]
           /\ \A g \in Host : /\ Len(inbox[g]) \in Nat
                              /\ DOMAIN inbox[g] = 1 .. Len(inbox[g])
           /\ \A g \in Host \ {h} :
                 /\ DOMAIN inbox'[g] = 1 .. Len(inbox[g]) + 1
                 /\ \A j \in DOMAIN inbox[g] : inbox'[g][j] = inbox[g][j]
                 /\ inbox'[g][Len(inbox[g]) + 1] = LoadMessage(load')
  <1>1. LoadMessage(load') \in Message
    BY DEF LoadUpdate, Types, LoadMessage, Message
  <1>2. ASSUME NEW g \in Host
        PROVE  /\ Append(inbox[g], LoadMessage(load')) \in Seq(Message)
               /\ Len(Append(inbox[g], LoadMessage(load'))) = Len(inbox[g]) + 1
               /\ \A j \in 1 .. Len(inbox[g]) : Append(inbox[g], LoadMessage(load'))[j] = inbox[g][j]
               /\ Append(inbox[g], LoadMessage(load'))[Len(inbox[g]) + 1] = LoadMessage(load')
    BY <1>1, AppendProperties DEF Types
  <1>3. \A g \in Host : Len(inbox[g]) \in Nat /\ DOMAIN inbox[g] = 1 .. Len(inbox[g])
    BY LenProperties DEF Types
  <1>4. inbox' = [g \in Host |-> IF g = h THEN inbox[g] ELSE Append(inbox[g], LoadMessage(load'))]
    BY DEF LoadUpdate
  <1>5. inbox' \in [Host -> Seq(Message)]
    BY <1>2, <1>4 DEF Types
  <1>6. ASSUME NEW g \in Host \ {h}
        PROVE  /\ DOMAIN inbox'[g] = 1 .. Len(inbox[g]) + 1
               /\ \A j \in DOMAIN inbox[g] : inbox'[g][j] = inbox[g][j]
               /\ inbox'[g][Len(inbox[g]) + 1] = LoadMessage(load')
    <2>1. inbox'[g] = Append(inbox[g], LoadMessage(load'))
      BY <1>4
    <2>2. DOMAIN inbox'[g] = 1 .. Len(inbox[g]) + 1
      BY <1>2, <2>1, LenProperties
    <2>3. QED
      BY <1>2, <1>3, <2>1, <2>2
  <1>7. QED
    BY <1>3, <1>4, <1>5, <1>6

(* And CoordinateUpdate: as many volts messages as each host has rows, the *)
(* last with all of them.                                                  *)
LEMMA RowMessagesAppended ==
    ASSUME Types, NEW h \in Host, CoordinateUpdate(h)
    PROVE  /\ inbox' \in [Host -> Seq(Message)]
           /\ \A g \in Host :
                 /\ Len(inbox[g]) \in Nat /\ Rows[g] \in Nat
                 /\ DOMAIN inbox[g] = 1 .. Len(inbox[g])
                 /\ DOMAIN inbox'[g] = 1 .. Len(inbox[g]) + Rows[g]
                 /\ \A j \in DOMAIN inbox[g] : inbox'[g][j] = inbox[g][j]
                 /\ \A r \in 1 .. Rows[g] : inbox'[g][Len(inbox[g]) + r] = VoltMessage(solution', r)
  <1>1. ASSUME NEW g \in Host
        PROVE  /\ RowMessages(g, solution') \in Seq(Message)
               /\ Len(RowMessages(g, solution')) = Rows[g]
               /\ \A r \in 1 .. Rows[g] : RowMessages(g, solution')[r] = VoltMessage(solution', r)
    <2>1. Rows[g] \in Nat /\ solution' \in Nat
      <3>1. Rows[g] \in Nat
        BY ExchangeAssumption
      <3>2. solution' = solution + 1
        BY DEF CoordinateUpdate
      <3>3. QED
        BY <3>1, <3>2 DEF Types
    <2>2. \A r \in 1 .. Rows[g] : VoltMessage(solution', r) \in Message
      BY <2>1 DEF VoltMessage, Message
    <2>3. QED
      BY <2>1, <2>2, IsASeq DEF RowMessages
  <1>2. ASSUME NEW g \in Host
        PROVE  /\ Len(inbox[g]) \in Nat /\ Rows[g] \in Nat
               /\ DOMAIN inbox[g] = 1 .. Len(inbox[g])
    BY ExchangeAssumption, LenProperties DEF Types
  <1>3. inbox' = [g \in Host |-> inbox[g] \o RowMessages(g, solution')]
    BY DEF CoordinateUpdate
  <1>4. ASSUME NEW g \in Host
        PROVE  /\ inbox'[g] \in Seq(Message)
               /\ DOMAIN inbox'[g] = 1 .. Len(inbox[g]) + Rows[g]
               /\ \A j \in DOMAIN inbox[g] : inbox'[g][j] = inbox[g][j]
               /\ \A r \in 1 .. Rows[g] : inbox'[g][Len(inbox[g]) + r] = VoltMessage(solution', r)
    <2> DEFINE s == inbox[g]
               t == RowMessages(g, solution')
               u == s \o t
    <2>1. s \in Seq(Message)
      BY DEF Types
    <2>2. /\ t \in Seq(Message) /\ Len(t) = Rows[g]
          /\ \A r \in 1 .. Rows[g] : t[r] = VoltMessage(solution', r)
      BY <1>1
    <2>3. inbox'[g] = u
      BY <1>3
    <2> HIDE DEF s, t
    <2>4. /\ u \in Seq(Message) /\ Len(u) = Len(s) + Len(t)
          /\ \A j \in 1 .. Len(s) + Len(t) : u[j] = IF j <= Len(s) THEN s[j] ELSE t[j - Len(s)]
      BY <2>1, <2>2, ConcatProperties
    <2> HIDE DEF u
    <2>5. Len(s) \in Nat /\ DOMAIN s = 1 .. Len(s) /\ Rows[g] \in Nat
      BY <1>2 DEF s
    <2>6. DOMAIN u = 1 .. Len(s) + Rows[g]
      BY <2>2, <2>4, LenProperties
    <2>7. ASSUME NEW j \in DOMAIN s
          PROVE  u[j] = s[j]
      BY <2>2, <2>4, <2>5
    <2>8. ASSUME NEW r \in 1 .. Rows[g]
          PROVE  u[Len(s) + r] = VoltMessage(solution', r)
      <3>1. Len(s) + r \in 1 .. Len(s) + Len(t) /\ ~ Len(s) + r <= Len(s) /\ Len(s) + r - Len(s) = r
        BY <2>2, <2>5
      <3>2. u[Len(s) + r] = t[Len(s) + r - Len(s)]
        BY <2>4, <3>1
      <3>3. QED
        BY <2>2, <3>1, <3>2
    <2>9. QED
      BY <2>3, <2>4, <2>6, <2>7, <2>8 DEF s
  <1>5. QED
    BY <1>2, <1>3, <1>4
-----------------------------------------------------------------------------
LEMMA IInvInit == Init => IInv
  <1> SUFFICES ASSUME Init PROVE IInv
    OBVIOUS
  <1> USE ExchangeAssumption
  <1>1. Types
    BY EmptySeq DEF Init, Types
  <1>2. Calculated
    <2>1. Loading = {}
      BY DEF Init, Loading
    <2>2. Cardinality(Loading) = 0
      BY <2>1, FS_EmptySet
    <2>3. QED
      BY <2>2 DEF Init, Calculated
  <1>3. MutexOfSleeper
    BY DEF Init, MutexOfSleeper
  <1>4. OneUpdate
    BY DEF Init, OneUpdate
  <1>5. LastVoltages
    BY DEF Init, LastVoltages, Newest
  <1>6. QED
    BY <1>1, <1>2, <1>3, <1>4, <1>5 DEF IInv

(* The updates waiting for the coordinator are as many as before when      *)
(* neither the old nor the new handler is one.                             *)
LEMMA LoadingSame ==
    ASSUME NEW h \in Host, sim \in [Host -> {"free", "load", "sleep", "inject"}],
           NEW v, sim' = [sim EXCEPT ![h] = v], sim[h] # "load", v # "load"
    PROVE  Loading' = Loading
  BY DEF Loading

LEMMA BeginUpdateKeeps ==
    ASSUME IInv, NEW h \in Host, BeginUpdate(h)
    PROVE  IInv'
  <1> USE ExchangeAssumption
  <1>1. /\ sim[h] = "free" /\ load + Cardinality(Loading) < MaxLoads
        /\ sim' = [sim EXCEPT ![h] = "load"]
        /\ overlap' = (overlap \/ ~ Rest)
        /\ UNCHANGED <<load, solution, master, share, injected, volts, inbox, inOrder>>
    BY DEF BeginUpdate, Loading
  <1>2. Types'
    BY <1>1 DEF IInv, Types
  <1>3. Calculated'
    <2>1. Loading' = Loading \cup {h} /\ h \notin Loading
      BY <1>1 DEF Loading, IInv, Types
    <2>2. IsFiniteSet(Loading)
      BY FS_Subset DEF Loading
    <2>3. Cardinality(Loading') = Cardinality(Loading) + 1 /\ Cardinality(Loading) \in Nat
      BY <2>1, <2>2, FS_AddElement, FS_CardinalityType
    <2>4. load' + Cardinality(Loading') <= MaxLoads
      BY <1>1, <2>3 DEF IInv, Types
    <2>5. QED
      BY <1>1, <2>4 DEF IInv, Calculated
  <1>4. MutexOfSleeper'
    BY <1>1 DEF IInv, Types, MutexOfSleeper
  <1>5. OneUpdate'
    <2> SUFFICES ASSUME ~ overlap' PROVE OneUpdate'
      BY DEF OneUpdate
    <2>1. ~ overlap /\ Rest
      BY <1>1
    <2>2. QED
      BY <1>1, <2>1 DEF IInv, Types, OneUpdate, Rest, HasLoad
  <1>6. LastVoltages'
    BY <1>1 DEF IInv, LastVoltages, Newest
  <1>7. QED
    BY <1>2, <1>3, <1>4, <1>5, <1>6 DEF IInv

LEMMA LoadUpdateKeeps ==
    ASSUME IInv, NEW h \in Host, LoadUpdate(h)
    PROVE  IInv'
  <1>1. Types
    BY DEF IInv
  <1>2. /\ sim[h] = "load" /\ master = Nobody
        /\ load' = load + 1 /\ master' = h
        /\ sim' = [sim EXCEPT ![h] = "sleep"]
        /\ UNCHANGED <<solution, share, injected, volts, overlap, inOrder>>
    BY DEF LoadUpdate
  <1>3. /\ inbox' \in [Host -> Seq(Message)]
        /\ inbox'[h] = inbox[h]
        /\ \A g \in Host : /\ Len(inbox[g]) \in Nat
                           /\ DOMAIN inbox[g] = 1 .. Len(inbox[g])
        /\ \A g \in Host \ {h} :
              /\ DOMAIN inbox'[g] = 1 .. Len(inbox[g]) + 1
              /\ \A j \in DOMAIN inbox[g] : inbox'[g][j] = inbox[g][j]
              /\ inbox'[g][Len(inbox[g]) + 1] = LoadMessage(load')
    BY <1>1, TellMessages
  <1>4. LoadMessage(load') = [kind |-> "load", of |-> load', rows |-> 0]
    BY DEF LoadMessage
  <1>0. ASSUME NEW g \in Host, NEW j \in DOMAIN inbox'[g]
        PROVE  \/ j \in DOMAIN inbox[g] /\ inbox'[g][j] = inbox[g][j]
               \/ g # h /\ inbox'[g][j] = LoadMessage(load')
    <2>1. CASE g = h
      BY <1>3, <2>1
    <2>2. CASE g # h
      <3>1. /\ j \in 1 .. Len(inbox[g]) + 1 /\ Len(inbox[g]) \in Nat
            /\ DOMAIN inbox[g] = 1 .. Len(inbox[g])
        BY <1>3, <2>2
      <3>2. j \in DOMAIN inbox[g] \/ j = Len(inbox[g]) + 1
        BY <3>1
      <3>3. QED
        BY <1>3, <2>2, <3>2
    <2>3. QED
      BY <2>1, <2>2
  <1>5. Types'
    <2>1. inbox' \in [Host -> Seq(Message)]
      BY <1>3
    <2>2. /\ load' \in Nat /\ solution' \in Nat
          /\ share' \in [Host -> Nat] /\ injected' \in [Host -> Nat]
          /\ volts' \in [Host -> [of : Nat, rows : Nat]]
          /\ overlap' \in BOOLEAN /\ inOrder' \in BOOLEAN
      BY <1>1, <1>2 DEF Types
    <2>3. /\ master' \in Host \cup {Nobody}
          /\ sim' \in [Host -> {"free", "load", "sleep", "inject"}]
      BY <1>1, <1>2 DEF Types
    <2>4. QED
      BY <2>1, <2>2, <2>3 DEF Types
  <1>6. Calculated'
    <2>1. Loading' = Loading \ {h} /\ h \in Loading
      BY <1>1, <1>2 DEF Loading, Types
    <2>2. IsFiniteSet(Loading)
      BY ExchangeAssumption, FS_Subset DEF Loading
    <2>3. Cardinality(Loading') = Cardinality(Loading) - 1 /\ Cardinality(Loading) \in Nat
      BY <2>1, <2>2, FS_RemoveElement, FS_CardinalityType
    <2>4. load' + Cardinality(Loading') <= MaxLoads
      BY <1>1, <1>2, <2>3 DEF IInv, Calculated, Types
    <2>5. ASSUME NEW g \in Host, NEW j \in DOMAIN inbox'[g]
          PROVE  IF inbox'[g][j].kind = "load"
                 THEN inbox'[g][j].of <= load'
                 ELSE inbox'[g][j].of <= solution' /\ inbox'[g][j].rows <= Rows[g]
      <3>1. CASE j \in DOMAIN inbox[g] /\ inbox'[g][j] = inbox[g][j]
        <4> DEFINE m == inbox[g][j]
        <4>1. m \in Message
          BY <1>1, <3>1, ElementOfSeq, <1>3 DEF Types
        <4>2. IF m.kind = "load" THEN m.of <= load ELSE m.of <= solution /\ m.rows <= Rows[g]
          BY <3>1 DEF IInv, Calculated
        <4>3. inbox'[g][j] = m
          BY <3>1
        <4> HIDE DEF m
        <4>4. IF m.kind = "load" THEN m.of <= load' ELSE m.of <= solution' /\ m.rows <= Rows[g]
          BY <1>1, <1>2, <4>1, <4>2 DEF Types, Message
        <4>5. QED
          BY <4>3, <4>4
      <3>2. CASE inbox'[g][j] = LoadMessage(load')
        <4>1. load' \in Nat
          BY <1>1, <1>2 DEF Types
        <4>2. QED
          BY <1>4, <3>2, <4>1
      <3>3. QED
        BY <1>0, <3>1, <3>2
    <2>6. \A g \in Host :
             /\ share'[g] <= load' /\ injected'[g] <= load'
             /\ volts'[g].of <= solution' /\ volts'[g].rows <= Rows[g]
      BY <1>1, <1>2 DEF IInv, Calculated, Types
    <2>7. QED
      BY <2>4, <2>5, <2>6 DEF Calculated
  <1>7. MutexOfSleeper'
    BY <1>1, <1>2, ExchangeAssumption DEF IInv, Types, MutexOfSleeper
  <1>8. OneUpdate'
    <2> SUFFICES ASSUME ~ overlap' PROVE OneUpdate'
      BY DEF OneUpdate
    <2>1. \A g \in Host : inbox[g] = << >> /\ (g # h => sim[g] = "free")
      BY <1>2 DEF IInv, OneUpdate
    <2>2. \A g \in Host : Len(inbox[g]) = 0 /\ DOMAIN inbox[g] = {}
      BY <1>3, <2>1
    <2>3. \A g \in Host \ {h} : DOMAIN inbox'[g] = {1} /\ inbox'[g][1] = LoadMessage(load')
      <3> TAKE g \in Host \ {h}
      <3>1. Len(inbox[g]) + 1 = 1
        BY <2>2
      <3>2. DOMAIN inbox'[g] = 1 .. 1 /\ inbox'[g][1] = LoadMessage(load')
        BY <1>3, <3>1
      <3>3. QED
        BY <3>2
    <2>4. DOMAIN inbox'[h] = {} /\ \A g \in Host : sim'[g] # "load"
      BY <1>1, <1>2, <1>3, <2>1, <2>2 DEF Types
    <2>5. \A g \in Host \ {h} : HasLoad(g)'
      BY <1>4, <2>3 DEF HasLoad
    <2>6. sim'[h] = "sleep"
      BY <1>1, <1>2 DEF Types
    <2>7. QED
      BY <1>4, <2>3, <2>4, <2>5, <2>6 DEF OneUpdate
  <1>9. LastVoltages'
    <2> SUFFICES ASSUME inOrder', NEW g \in Host, Rows[g] > 0
                 PROVE  \/ /\ volts'[g] = Newest(g)'
                           /\ \A i \in DOMAIN inbox'[g] : inbox'[g][i].kind = "load"
                        \/ \E i \in DOMAIN inbox'[g] :
                              /\ inbox'[g][i] = VoltMessage(solution', Rows[g])
                              /\ \A j \in DOMAIN inbox'[g] : i < j => inbox'[g][j].kind = "load"
      BY DEF LastVoltages
    <2>1. Newest(g)' = Newest(g) /\ solution' = solution /\ volts' = volts /\ inOrder
      BY <1>2 DEF Newest
    <2>2. DOMAIN inbox[g] \subseteq DOMAIN inbox'[g]
      <3>1. CASE g = h
        BY <1>3, <3>1
      <3>2. CASE g # h
        <4>1. /\ Len(inbox[g]) \in Nat /\ DOMAIN inbox[g] = 1 .. Len(inbox[g])
              /\ DOMAIN inbox'[g] = 1 .. Len(inbox[g]) + 1
          BY <1>3, <3>2
        <4>2. QED
          BY <4>1
      <3>3. QED
        BY <3>1, <3>2
    <2>3. \A j \in DOMAIN inbox[g] : inbox'[g][j] = inbox[g][j]
      BY <1>3
    <2>4. \A j \in DOMAIN inbox'[g] : j \notin DOMAIN inbox[g] => inbox'[g][j].kind = "load"
      BY <1>0, <1>4
    <2>5. QED
      BY <2>1, <2>2, <2>3, <2>4 DEF IInv, LastVoltages
  <1>10. QED
    BY <1>5, <1>6, <1>7, <1>8, <1>9 DEF IInv

LEMMA ReplyKeeps ==
    ASSUME IInv, NEW h \in Host, Reply(h)
    PROVE  IInv'
  <1> USE ExchangeAssumption DEF IInv
  <1>1. Types
    OBVIOUS
  <1>2. /\ sim[h] = "sleep" /\ master' = Nobody
        /\ share' = [share EXCEPT ![h] = load]
        /\ sim' = [sim EXCEPT ![h] = "inject"]
        /\ UNCHANGED <<load, solution, injected, volts, inbox, overlap, inOrder>>
    BY DEF Reply
  <1>3. Types'
    BY <1>1, <1>2 DEF Types
  <1>4. Calculated'
    <2>1. Loading' = Loading
      BY <1>1, <1>2, LoadingSame DEF Types
    <2>2. QED
      BY <1>1, <1>2, <2>1 DEF Calculated, Types
  <1>5. MutexOfSleeper'
    BY <1>1, <1>2 DEF Types, MutexOfSleeper
  <1>6. OneUpdate'
    BY <1>1, <1>2 DEF Types, OneUpdate, HasLoad
  <1>7. LastVoltages'
    BY <1>2 DEF LastVoltages, Newest
  <1>8. QED
    BY <1>3, <1>4, <1>5, <1>6, <1>7
LEMMA CoordinateUpdateKeeps ==
    ASSUME IInv, NEW h \in Host, CoordinateUpdate(h)
    PROVE  IInv'
  <1>1. Types
    BY DEF IInv
  <1>2. /\ sim[h] = "inject" /\ master = Nobody
        /\ injected' = [injected EXCEPT ![h] = share[h]]
        /\ solution' = solution + 1
        /\ sim' = [sim EXCEPT ![h] = "free"]
        /\ UNCHANGED <<load, master, share, volts, overlap, inOrder>>
    BY DEF CoordinateUpdate
  <1>3. /\ inbox' \in [Host -> Seq(Message)]
        /\ \A g \in Host :
              /\ Len(inbox[g]) \in Nat /\ Rows[g] \in Nat
              /\ DOMAIN inbox[g] = 1 .. Len(inbox[g])
              /\ DOMAIN inbox'[g] = 1 .. Len(inbox[g]) + Rows[g]
              /\ \A j \in DOMAIN inbox[g] : inbox'[g][j] = inbox[g][j]
              /\ \A r \in 1 .. Rows[g] : inbox'[g][Len(inbox[g]) + r] = VoltMessage(solution', r)
    BY <1>1, RowMessagesAppended
  <1>4. \A r : VoltMessage(solution', r) = [kind |-> "volts", of |-> solution', rows |-> r]
    BY DEF VoltMessage
  <1>5. ASSUME NEW g \in Host, NEW j \in DOMAIN inbox'[g]
        PROVE  \/ j \in DOMAIN inbox[g] /\ inbox'[g][j] = inbox[g][j]
               \/ \E r \in 1 .. Rows[g] : inbox'[g][j] = VoltMessage(solution', r)
    <2>1. /\ j \in 1 .. Len(inbox[g]) + Rows[g] /\ Len(inbox[g]) \in Nat
          /\ DOMAIN inbox[g] = 1 .. Len(inbox[g]) /\ Rows[g] \in Nat
      BY <1>3
    <2>2. CASE j \in DOMAIN inbox[g]
      BY <1>3, <2>2
    <2>3. CASE j \notin DOMAIN inbox[g]
      <3>1. j - Len(inbox[g]) \in 1 .. Rows[g] /\ j = Len(inbox[g]) + (j - Len(inbox[g]))
        BY <2>1, <2>3
      <3>2. inbox'[g][Len(inbox[g]) + (j - Len(inbox[g]))] = VoltMessage(solution', j - Len(inbox[g]))
        BY <1>3, <3>1
      <3>3. QED
        BY <3>1, <3>2
    <2>4. QED
      BY <2>2, <2>3
  <1>6. \A g \in Host : DOMAIN inbox[g] \subseteq DOMAIN inbox'[g]
    <2> TAKE g \in Host
    <2>1. /\ Len(inbox[g]) \in Nat /\ Rows[g] \in Nat
          /\ DOMAIN inbox[g] = 1 .. Len(inbox[g])
          /\ DOMAIN inbox'[g] = 1 .. Len(inbox[g]) + Rows[g]
      BY <1>3
    <2>2. QED
      BY <2>1
  <1>7. Types'
    <2>1. inbox' \in [Host -> Seq(Message)]
      BY <1>3
    <2>2. /\ load' \in Nat /\ solution' \in Nat
          /\ share' \in [Host -> Nat] /\ injected' \in [Host -> Nat]
          /\ volts' \in [Host -> [of : Nat, rows : Nat]]
          /\ overlap' \in BOOLEAN /\ inOrder' \in BOOLEAN
      BY <1>1, <1>2 DEF Types
    <2>3. /\ master' \in Host \cup {Nobody}
          /\ sim' \in [Host -> {"free", "load", "sleep", "inject"}]
      BY <1>1, <1>2 DEF Types
    <2>4. QED
      BY <2>1, <2>2, <2>3 DEF Types
  <1>8. Calculated'
    <2>1. Loading' = Loading
      BY <1>1, <1>2, LoadingSame DEF Types
    <2>2. load' + Cardinality(Loading') <= MaxLoads
      BY <1>2, <2>1 DEF IInv, Calculated
    <2>3. ASSUME NEW g \in Host, NEW j \in DOMAIN inbox'[g]
          PROVE  IF inbox'[g][j].kind = "load"
                 THEN inbox'[g][j].of <= load'
                 ELSE inbox'[g][j].of <= solution' /\ inbox'[g][j].rows <= Rows[g]
      <3>1. CASE j \in DOMAIN inbox[g] /\ inbox'[g][j] = inbox[g][j]
        <4> DEFINE m == inbox[g][j]
        <4>1. m \in Message
          BY <1>1, <3>1, ElementOfSeq, <1>3 DEF Types
        <4>2. IF m.kind = "load" THEN m.of <= load ELSE m.of <= solution /\ m.rows <= Rows[g]
          BY <3>1 DEF IInv, Calculated
        <4>3. inbox'[g][j] = m
          BY <3>1
        <4> HIDE DEF m
        <4>4. IF m.kind = "load" THEN m.of <= load' ELSE m.of <= solution' /\ m.rows <= Rows[g]
          BY <1>1, <1>2, <4>1, <4>2 DEF Types, Message
        <4>5. QED
          BY <4>3, <4>4
      <3>2. CASE \E r \in 1 .. Rows[g] : inbox'[g][j] = VoltMessage(solution', r)
        <4>1. PICK r \in 1 .. Rows[g] : inbox'[g][j] = VoltMessage(solution', r)
          BY <3>2
        <4>2. /\ inbox'[g][j].kind = "volts" /\ inbox'[g][j].of = solution'
              /\ inbox'[g][j].rows = r
          BY <1>4, <4>1
        <4>3. solution' \in Nat /\ Rows[g] \in Nat
          BY <1>3, <1>7 DEF Types
        <4>4. QED
          BY <4>2, <4>3
      <3>3. QED
        BY <1>5, <3>1, <3>2
    <2>4. \A g \in Host :
             /\ share'[g] <= load' /\ injected'[g] <= load'
             /\ volts'[g].of <= solution' /\ volts'[g].rows <= Rows[g]
      BY <1>1, <1>2 DEF IInv, Calculated, Types
    <2>5. QED
      BY <2>2, <2>3, <2>4 DEF Calculated
  <1>9. MutexOfSleeper'
    BY <1>1, <1>2 DEF IInv, Types, MutexOfSleeper
  <1>10. OneUpdate'
    <2> SUFFICES ASSUME ~ overlap' PROVE OneUpdate'
      BY DEF OneUpdate
    <2>1. \A g \in Host : sim[g] # "load"
      BY <1>2 DEF IInv, OneUpdate
    <2>2. \A g \in Host : sim'[g] # "load"
      BY <1>1, <1>2, <2>1 DEF Types
    <2>3. \A g \in Host : \A i \in DOMAIN inbox'[g] :
             inbox'[g][i].kind = "load" => i \in DOMAIN inbox[g] /\ inbox'[g][i] = inbox[g][i]
      BY <1>4, <1>5
    <2>4. \A g \in Host : HasLoad(g) => HasLoad(g)'
      BY <1>3, <1>6 DEF HasLoad
    <2>5. ASSUME NEW g \in Host
          PROVE  /\ \A i \in DOMAIN inbox'[g] : inbox'[g][i].kind = "load" => inbox'[g][i].of = load'
                 /\ share'[g] = load' \/ sim'[g] = "sleep" \/ HasLoad(g)'
                 /\ injected'[g] = load' \/ sim'[g] \in {"sleep", "inject"} \/ HasLoad(g)'
      <3>1. /\ \A i \in DOMAIN inbox[g] : inbox[g][i].kind = "load" => inbox[g][i].of = load
            /\ share[g] = load \/ sim[g] = "sleep" \/ HasLoad(g)
            /\ injected[g] = load \/ sim[g] \in {"sleep", "inject"} \/ HasLoad(g)
        BY <1>2 DEF IInv, OneUpdate
      <3>2. \A i \in DOMAIN inbox'[g] : inbox'[g][i].kind = "load" => inbox'[g][i].of = load'
        BY <1>2, <2>3, <3>1
      <3>3. CASE g = h
        <4>1. share[h] = load \/ HasLoad(h)
          BY <1>2, <3>1, <3>3
        <4>2. share'[h] = share[h] /\ injected'[h] = share[h] /\ load' = load
          BY <1>1, <1>2 DEF Types
        <4>3. QED
          BY <2>4, <3>2, <3>3, <4>1, <4>2
      <3>4. CASE g # h
        <4>1. share'[g] = share[g] /\ injected'[g] = injected[g] /\ sim'[g] = sim[g] /\ load' = load
          BY <1>1, <1>2, <3>4 DEF Types
        <4>2. QED
          BY <2>4, <3>1, <3>2, <4>1
      <3>5. QED
        BY <3>3, <3>4
    <2>6. QED
      BY <2>2, <2>5 DEF OneUpdate
  <1>11. LastVoltages'
    <2> SUFFICES ASSUME inOrder', NEW g \in Host, Rows[g] > 0
                 PROVE  \E i \in DOMAIN inbox'[g] :
                           /\ inbox'[g][i] = VoltMessage(solution', Rows[g])
                           /\ \A j \in DOMAIN inbox'[g] : i < j => inbox'[g][j].kind = "load"
      BY DEF LastVoltages
    <2> DEFINE i == Len(inbox[g]) + Rows[g]
    <2>1. Len(inbox[g]) \in Nat /\ Rows[g] \in Nat /\ DOMAIN inbox'[g] = 1 .. i
      BY <1>3
    <2>2. i \in DOMAIN inbox'[g] /\ \A j \in DOMAIN inbox'[g] : ~ i < j
      BY <2>1
    <2>3. Rows[g] \in 1 .. Rows[g]
      BY <2>1
    <2>4. inbox'[g][i] = VoltMessage(solution', Rows[g])
      BY <1>3, <2>3
    <2> HIDE DEF i
    <2>5. QED
      BY <2>2, <2>4
  <1>12. QED
    BY <1>7, <1>8, <1>9, <1>10, <1>11 DEF IInv
(* The messages that Take leaves are the others.                           *)
LEMMA TakeLeaves ==
    ASSUME Types, NEW h \in Host, NEW i, Take(h, i)
    PROVE  /\ \A g \in Host : \A j \in DOMAIN inbox'[g] :
                 \E k \in DOMAIN inbox[g] : inbox'[g][j] = inbox[g][k]
           /\ \A k \in DOMAIN inbox[h] : k # i =>
                 \E j \in DOMAIN inbox'[h] : inbox'[h][j] = inbox[h][k]
           /\ i = 1 => \A j \in DOMAIN inbox'[h] :
                          j + 1 \in DOMAIN inbox[h] /\ inbox'[h][j] = inbox[h][j + 1]
  <1>1. /\ \A g \in Host \ {h} : inbox'[g] = inbox[g]
        /\ i \in DOMAIN inbox[h] /\ Len(inbox[h]) \in Nat
        /\ DOMAIN inbox[h] = 1 .. Len(inbox[h])
        /\ DOMAIN inbox'[h] = 1 .. Len(inbox[h]) - 1
        /\ \A j \in DOMAIN inbox'[h] :
              inbox'[h][j] = IF j < i THEN inbox[h][j] ELSE inbox[h][j + 1]
    BY TakeMessages
  <1>2. i \in 1 .. Len(inbox[h]) /\ Len(inbox[h]) \in Nat
    BY <1>1
  <1>3. ASSUME NEW g \in Host, NEW j \in DOMAIN inbox'[g]
        PROVE  \E k \in DOMAIN inbox[g] : inbox'[g][j] = inbox[g][k]
    <2>1. CASE g # h
      BY <1>1, <2>1
    <2>2. CASE g = h
      <3>1. j \in 1 .. Len(inbox[h]) - 1
        BY <1>1, <2>2
      <3>2. j \in DOMAIN inbox[h] /\ j + 1 \in DOMAIN inbox[h]
        BY <1>1, <1>2, <3>1
      <3>3. QED
        BY <1>1, <2>2, <3>2
    <2>3. QED
      BY <2>1, <2>2
  <1>4. ASSUME NEW k \in DOMAIN inbox[h], k # i
        PROVE  \E j \in DOMAIN inbox'[h] : inbox'[h][j] = inbox[h][k]
    <2>1. k \in 1 .. Len(inbox[h])
      BY <1>1
    <2>2. CASE k < i
      <3>1. k \in DOMAIN inbox'[h]
        BY <1>1, <1>2, <2>1, <2>2
      <3>2. QED
        BY <1>1, <2>2, <3>1
    <2>3. CASE ~ k < i
      <3>1. /\ k - 1 \in 1 .. Len(inbox[h]) - 1
            /\ ~ k - 1 < i /\ k - 1 + 1 = k
        BY <1>2, <1>4, <2>1, <2>3
      <3>2. k - 1 \in DOMAIN inbox'[h]
        BY <1>1, <3>1
      <3>3. inbox'[h][k - 1] = inbox[h][k - 1 + 1]
        BY <1>1, <3>1, <3>2
      <3>4. QED
        BY <3>1, <3>2, <3>3
    <2>4. QED
      BY <2>2, <2>3
  <1>5. ASSUME i = 1, NEW j \in DOMAIN inbox'[h]
        PROVE  j + 1 \in DOMAIN inbox[h] /\ inbox'[h][j] = inbox[h][j + 1]
    <2>1. j \in 1 .. Len(inbox[h]) - 1
      BY <1>1
    <2>2. j + 1 \in 1 .. Len(inbox[h]) /\ ~ j < i
      BY <1>2, <1>5, <2>1
    <2>3. QED
      BY <1>1, <2>2
  <1>6. QED
    BY <1>3, <1>4, <1>5

(* Taking the first message keeps the last voltages last, unless it is     *)
(* them.                                                                   *)
LEMMA TakeFirst ==
    ASSUME Types, NEW h \in Host, Take(h, 1), solution' = solution,
           NEW k \in DOMAIN inbox[h], k # 1,
           inbox[h][k] = VoltMessage(solution, Rows[h]),
           \A j \in DOMAIN inbox[h] : k < j => inbox[h][j].kind = "load"
    PROVE  \E i \in DOMAIN inbox'[h] :
              /\ inbox'[h][i] = VoltMessage(solution', Rows[h])
              /\ \A j \in DOMAIN inbox'[h] : i < j => inbox'[h][j].kind = "load"
  <1>1. /\ Len(inbox[h]) \in Nat
        /\ DOMAIN inbox[h] = 1 .. Len(inbox[h])
        /\ DOMAIN inbox'[h] = 1 .. Len(inbox[h]) - 1
    BY TakeMessages
  <1>2. \A j \in DOMAIN inbox'[h] : j + 1 \in DOMAIN inbox[h] /\ inbox'[h][j] = inbox[h][j + 1]
    BY TakeLeaves
  <1>3. k \in 1 .. Len(inbox[h]) /\ k - 1 \in 1 .. Len(inbox[h]) - 1 /\ k - 1 + 1 = k
    BY <1>1
  <1>4. k - 1 \in DOMAIN inbox'[h] /\ inbox'[h][k - 1] = VoltMessage(solution', Rows[h])
    BY <1>1, <1>2, <1>3
  <1>5. ASSUME NEW j \in DOMAIN inbox'[h], k - 1 < j
        PROVE  inbox'[h][j].kind = "load"
    <2>1. j \in 1 .. Len(inbox[h]) - 1
      BY <1>1
    <2>2. k < j + 1
      BY <1>3, <1>5, <2>1
    <2>3. QED
      BY <1>2, <2>2
  <1>6. QED
    BY <1>4, <1>5

LEMMA TakeKeepsLast ==
    ASSUME IInv, NEW h \in Host, NEW i, Take(h, i), inbox[h][i].kind = "load",
           solution' = solution, volts' = volts
    PROVE  LastVoltages'
  <1>1. Types
    BY DEF IInv
  <1> SUFFICES ASSUME inOrder', NEW g \in Host, Rows[g] > 0
               PROVE  \/ /\ volts'[g] = Newest(g)'
                         /\ \A k \in DOMAIN inbox'[g] : inbox'[g][k].kind = "load"
                      \/ \E k \in DOMAIN inbox'[g] :
                            /\ inbox'[g][k] = VoltMessage(solution', Rows[g])
                            /\ \A j \in DOMAIN inbox'[g] : k < j => inbox'[g][j].kind = "load"
    BY DEF LastVoltages
  <1>2. inOrder /\ i = 1 /\ Newest(g)' = Newest(g)
    BY DEF Take, Newest
  <1>3. CASE g # h
    <2>1. inbox'[g] = inbox[g]
      BY <1>1, <1>3, TakeMessages
    <2>2. QED
      BY <1>2, <2>1 DEF IInv, LastVoltages
  <1>4. CASE g = h /\ volts[h] = Newest(h) /\ \A k \in DOMAIN inbox[h] : inbox[h][k].kind = "load"
    <2>1. \A j \in DOMAIN inbox'[h] : \E k \in DOMAIN inbox[h] : inbox'[h][j] = inbox[h][k]
      BY <1>1, TakeLeaves
    <2>2. QED
      BY <1>2, <1>4, <2>1
  <1>5. ASSUME g = h, NEW k \in DOMAIN inbox[h], inbox[h][k] = VoltMessage(solution, Rows[h]),
               \A j \in DOMAIN inbox[h] : k < j => inbox[h][j].kind = "load"
        PROVE  \E l \in DOMAIN inbox'[h] :
                  /\ inbox'[h][l] = VoltMessage(solution', Rows[h])
                  /\ \A j \in DOMAIN inbox'[h] : l < j => inbox'[h][j].kind = "load"
    <2>1. k # 1
      BY <1>2, <1>5 DEF VoltMessage
    <2>2. Take(h, 1)
      BY <1>2
    <2>3. QED
      BY <1>1, <1>5, <2>1, <2>2, TakeFirst
  <1>6. QED
    BY <1>2, <1>3, <1>4, <1>5 DEF IInv, LastVoltages
(* A message that is taken is one that was calculated, and so is what is   *)
(* left.                                                                   *)
LEMMA TakeCalculated ==
    ASSUME IInv, NEW h \in Host, NEW i, Take(h, i), UNCHANGED <<load, solution>>
    PROVE  /\ inbox[h][i] \in Message
           /\ \A g \in Host : \A j \in DOMAIN inbox'[g] :
                 IF inbox'[g][j].kind = "load"
                 THEN inbox'[g][j].of <= load'
                 ELSE inbox'[g][j].of <= solution' /\ inbox'[g][j].rows <= Rows[g]
  <1>1. Types
    BY DEF IInv
  <1>2. inbox[h] \in Seq(Message) /\ i \in DOMAIN inbox[h]
    BY <1>1 DEF Types, Take
  <1>3. inbox[h][i] \in Message
    BY <1>2, ElementOfSeq, LenProperties
  <1>4. ASSUME NEW g \in Host, NEW j \in DOMAIN inbox'[g]
        PROVE  IF inbox'[g][j].kind = "load"
               THEN inbox'[g][j].of <= load'
               ELSE inbox'[g][j].of <= solution' /\ inbox'[g][j].rows <= Rows[g]
    <2>1. PICK k \in DOMAIN inbox[g] : inbox'[g][j] = inbox[g][k]
      BY <1>1, TakeLeaves
    <2>2. QED
      BY <2>1 DEF IInv, Calculated
  <1>5. QED
    BY <1>3, <1>4

LEMMA HandleLoadKeeps ==
    ASSUME IInv, NEW h \in Host, NEW i, HandleLoad(h, i)
    PROVE  IInv'
  <1>1. Types
    BY DEF IInv
  <1>2. /\ sim[h] = "free" /\ Take(h, i) /\ inbox[h][i].kind = "load"
        /\ share' = [share EXCEPT ![h] = inbox[h][i].of]
        /\ sim' = [sim EXCEPT ![h] = "inject"]
        /\ inOrder' = (inOrder /\ i = 1)
        /\ UNCHANGED <<load, solution, master, injected, volts, overlap>>
    BY DEF HandleLoad, Take
  <1>3. /\ inbox' \in [Host -> Seq(Message)] /\ i \in DOMAIN inbox[h]
        /\ \A g \in Host \ {h} : inbox'[g] = inbox[g]
    BY <1>1, <1>2, TakeMessages
  <1>4. \A g \in Host : \A j \in DOMAIN inbox'[g] :
           \E k \in DOMAIN inbox[g] : inbox'[g][j] = inbox[g][k]
    BY <1>1, <1>2, TakeLeaves
  <1>5. inbox[h][i] \in Message /\ inbox[h][i].of \in Nat
    BY <1>2, TakeCalculated DEF Message
  <1>6. Types'
    <2>1. /\ load' \in Nat /\ solution' \in Nat
          /\ share' \in [Host -> Nat] /\ injected' \in [Host -> Nat]
          /\ volts' \in [Host -> [of : Nat, rows : Nat]]
          /\ overlap' \in BOOLEAN /\ inOrder' \in BOOLEAN
      BY <1>1, <1>2, <1>5 DEF Types
    <2>2. /\ master' \in Host \cup {Nobody}
          /\ sim' \in [Host -> {"free", "load", "sleep", "inject"}]
      BY <1>1, <1>2 DEF Types
    <2>3. QED
      BY <1>3, <2>1, <2>2 DEF Types
  <1>7. Calculated'
    <2>1. Loading' = Loading
      BY <1>1, <1>2, LoadingSame DEF Types
    <2>2. \A g \in Host : \A j \in DOMAIN inbox'[g] :
             IF inbox'[g][j].kind = "load"
             THEN inbox'[g][j].of <= load'
             ELSE inbox'[g][j].of <= solution' /\ inbox'[g][j].rows <= Rows[g]
      BY <1>2, TakeCalculated
    <2>3. inbox[h][i].of <= load
      BY <1>2, <1>3 DEF IInv, Calculated
    <2>4. \A g \in Host :
             /\ share'[g] <= load' /\ injected'[g] <= load'
             /\ volts'[g].of <= solution' /\ volts'[g].rows <= Rows[g]
      BY <1>1, <1>2, <2>3 DEF IInv, Calculated, Types
    <2>5. load' + Cardinality(Loading') <= MaxLoads
      BY <1>2, <2>1 DEF IInv, Calculated
    <2>6. QED
      BY <2>2, <2>4, <2>5 DEF Calculated
  <1>8. MutexOfSleeper'
    BY <1>1, <1>2 DEF IInv, Types, MutexOfSleeper
  <1>9. OneUpdate'
    <2> SUFFICES ASSUME ~ overlap' PROVE OneUpdate'
      BY DEF OneUpdate
    <2>1. inbox[h] # << >>
      BY <1>3
    <2>2. \A g \in Host : sim'[g] # "load"
      BY <1>1, <1>2, <2>1 DEF IInv, OneUpdate, Types
    <2>3. ASSUME NEW g \in Host
          PROVE  /\ \A j \in DOMAIN inbox[g] : inbox[g][j].kind = "load" => inbox[g][j].of = load
                 /\ share[g] = load \/ sim[g] = "sleep" \/ HasLoad(g)
                 /\ injected[g] = load \/ sim[g] \in {"sleep", "inject"} \/ HasLoad(g)
      BY <1>2 DEF IInv, OneUpdate
    <2>4. \A g \in Host : \A j \in DOMAIN inbox'[g] :
             inbox'[g][j].kind = "load" => inbox'[g][j].of = load'
      BY <1>2, <1>4, <2>3
    <2>5. ASSUME NEW g \in Host
          PROVE  /\ share'[g] = load' \/ sim'[g] = "sleep" \/ HasLoad(g)'
                 /\ injected'[g] = load' \/ sim'[g] \in {"sleep", "inject"} \/ HasLoad(g)'
      <3>1. CASE g = h
        <4>1. inbox[h][i].of = load
          BY <1>2, <1>3, <2>3
        <4>2. share'[h] = load' /\ sim'[h] = "inject"
          BY <1>1, <1>2, <4>1 DEF Types
        <4>3. QED
          BY <3>1, <4>2
      <3>2. CASE g # h
        <4>1. /\ share'[g] = share[g] /\ injected'[g] = injected[g]
              /\ sim'[g] = sim[g] /\ inbox'[g] = inbox[g] /\ load' = load
          BY <1>1, <1>2, <1>3, <3>2 DEF Types
        <4>2. QED
          BY <2>3, <4>1 DEF HasLoad
      <3>3. QED
        BY <3>1, <3>2
    <2>6. QED
      BY <2>2, <2>4, <2>5 DEF OneUpdate
  <1>10. LastVoltages'
    BY <1>2, TakeKeepsLast
  <1>11. QED
    BY <1>6, <1>7, <1>8, <1>9, <1>10 DEF IInv

LEMMA HandleVoltsKeeps ==
    ASSUME IInv, NEW h \in Host, NEW i, HandleVolts(h, i)
    PROVE  IInv'
  <1>1. Types
    BY DEF IInv
  <1>2. /\ sim[h] = "free" /\ Take(h, i) /\ inbox[h][i].kind = "volts"
        /\ volts' = [volts EXCEPT ![h] = [of |-> inbox[h][i].of, rows |-> inbox[h][i].rows]]
        /\ inOrder' = (inOrder /\ i = 1)
        /\ UNCHANGED <<load, solution, master, sim, share, injected, overlap>>
    BY DEF HandleVolts, Take
  <1>3. /\ inbox' \in [Host -> Seq(Message)] /\ i \in DOMAIN inbox[h]
        /\ \A g \in Host \ {h} : inbox'[g] = inbox[g]
    BY <1>1, <1>2, TakeMessages
  <1>4. /\ \A g \in Host : \A j \in DOMAIN inbox'[g] :
              \E k \in DOMAIN inbox[g] : inbox'[g][j] = inbox[g][k]
        /\ \A k \in DOMAIN inbox[h] : k # i =>
              \E j \in DOMAIN inbox'[h] : inbox'[h][j] = inbox[h][k]
    BY <1>1, <1>2, TakeLeaves
  <1>5. inbox[h][i] \in Message /\ inbox[h][i].of \in Nat /\ inbox[h][i].rows \in Nat
    BY <1>2, TakeCalculated DEF Message
  <1>6. Types'
    <2>1. [of |-> inbox[h][i].of, rows |-> inbox[h][i].rows] \in [of : Nat, rows : Nat]
      BY <1>5
    <2>2. volts' \in [Host -> [of : Nat, rows : Nat]]
      BY <1>1, <1>2, <2>1 DEF Types
    <2>3. QED
      BY <1>1, <1>2, <1>3, <2>2 DEF Types
  <1>7. Calculated'
    <2>1. Loading' = Loading
      BY <1>2 DEF Loading
    <2>2. \A g \in Host : \A j \in DOMAIN inbox'[g] :
             IF inbox'[g][j].kind = "load"
             THEN inbox'[g][j].of <= load'
             ELSE inbox'[g][j].of <= solution' /\ inbox'[g][j].rows <= Rows[g]
      BY <1>2, TakeCalculated
    <2>3. inbox[h][i].of <= solution /\ inbox[h][i].rows <= Rows[h]
      BY <1>2, <1>3 DEF IInv, Calculated
    <2>4. ASSUME NEW g \in Host
          PROVE  volts'[g].of <= solution' /\ volts'[g].rows <= Rows[g]
      <3>1. CASE g = h
        BY <1>1, <1>2, <2>3, <3>1 DEF Types
      <3>2. CASE g # h
        BY <1>1, <1>2, <3>2 DEF IInv, Calculated, Types
      <3>3. QED
        BY <3>1, <3>2
    <2>5. \A g \in Host : share'[g] <= load' /\ injected'[g] <= load'
      BY <1>2 DEF IInv, Calculated
    <2>6. load' + Cardinality(Loading') <= MaxLoads
      BY <1>2, <2>1 DEF IInv, Calculated
    <2>7. QED
      BY <2>2, <2>4, <2>5, <2>6 DEF Calculated
  <1>8. MutexOfSleeper'
    BY <1>2 DEF IInv, MutexOfSleeper
  <1>9. OneUpdate'
    <2> SUFFICES ASSUME ~ overlap' PROVE OneUpdate'
      BY DEF OneUpdate
    <2>1. inbox[h] # << >>
      BY <1>3
    <2>2. \A g \in Host : sim'[g] # "load"
      BY <1>2, <2>1 DEF IInv, OneUpdate
    <2>3. ASSUME NEW g \in Host
          PROVE  /\ \A j \in DOMAIN inbox[g] : inbox[g][j].kind = "load" => inbox[g][j].of = load
                 /\ share[g] = load \/ sim[g] = "sleep" \/ HasLoad(g)
                 /\ injected[g] = load \/ sim[g] \in {"sleep", "inject"} \/ HasLoad(g)
      BY <1>2 DEF IInv, OneUpdate
    <2>4. \A g \in Host : \A j \in DOMAIN inbox'[g] :
             inbox'[g][j].kind = "load" => inbox'[g][j].of = load'
      BY <1>2, <1>4, <2>3
    <2>5. \A g \in Host : HasLoad(g) => HasLoad(g)'
      <3> TAKE g \in Host
      <3>1. CASE g = h
        BY <1>2, <1>4, <3>1 DEF HasLoad
      <3>2. CASE g # h
        BY <1>3, <3>2 DEF HasLoad
      <3>3. QED
        BY <3>1, <3>2
    <2>6. QED
      BY <1>2, <2>2, <2>3, <2>4, <2>5 DEF OneUpdate
  <1>10. LastVoltages'
    <2> SUFFICES ASSUME inOrder', NEW g \in Host, Rows[g] > 0
                 PROVE  \/ /\ volts'[g] = Newest(g)'
                           /\ \A k \in DOMAIN inbox'[g] : inbox'[g][k].kind = "load"
                        \/ \E k \in DOMAIN inbox'[g] :
                              /\ inbox'[g][k] = VoltMessage(solution', Rows[g])
                              /\ \A j \in DOMAIN inbox'[g] : k < j => inbox'[g][j].kind = "load"
      BY DEF LastVoltages
    <2>1. inOrder /\ i = 1 /\ Newest(g)' = Newest(g)
      BY <1>2 DEF Newest
    <2>2. CASE g # h
      <3>1. inbox'[g] = inbox[g] /\ volts'[g] = volts[g]
        BY <1>1, <1>2, <1>3, <2>2 DEF Types
      <3>2. QED
        BY <1>2, <2>1, <3>1 DEF IInv, LastVoltages
    <2>3. CASE g = h
      <3>1. PICK k \in DOMAIN inbox[h] :
                   /\ inbox[h][k] = VoltMessage(solution, Rows[h])
                   /\ \A j \in DOMAIN inbox[h] : k < j => inbox[h][j].kind = "load"
        BY <1>2, <1>3, <2>1, <2>3 DEF IInv, LastVoltages
      <3>2. CASE k = 1
        <4>1. volts'[h] = [of |-> solution, rows |-> Rows[h]]
          BY <1>1, <1>2, <2>1, <3>1, <3>2 DEF Types, VoltMessage
        <4>2. volts'[h] = Newest(h)'
          BY <1>2, <4>1 DEF Newest
        <4>3. ASSUME NEW j \in DOMAIN inbox'[h]
              PROVE  inbox'[h][j].kind = "load"
          <5>1. j + 1 \in DOMAIN inbox[h] /\ inbox'[h][j] = inbox[h][j + 1]
            BY <1>1, <1>2, <2>1, TakeLeaves
          <5>2. j \in Nat \ {0}
            BY <1>1, <1>2, TakeMessages
          <5>3. 1 < j + 1
            BY <5>2
          <5>4. QED
            BY <3>1, <3>2, <5>1, <5>3
        <4>4. QED
          BY <2>3, <4>2, <4>3
      <3>3. CASE k # 1
        <4>1. Take(h, 1) /\ solution' = solution
          BY <1>2, <2>1
        <4>2. QED
          BY <1>1, <2>3, <3>1, <3>3, <4>1, TakeFirst
      <3>4. QED
        BY <3>2, <3>3
    <2>4. QED
      BY <2>2, <2>3
  <1>11. QED
    BY <1>6, <1>7, <1>8, <1>9, <1>10 DEF IInv

LEMMA IInvInductive == IInv /\ [Next]_vars => IInv'
  <1> SUFFICES ASSUME IInv, [Next]_vars
               PROVE  IInv'
    OBVIOUS
  <1>1. ASSUME NEW h \in Host, BeginUpdate(h)
        PROVE  IInv'
    BY <1>1, BeginUpdateKeeps
  <1>2. ASSUME NEW h \in Host, LoadUpdate(h) \/ Reply(h) \/ CoordinateUpdate(h)
        PROVE  IInv'
    BY <1>2, LoadUpdateKeeps, ReplyKeeps, CoordinateUpdateKeeps
  <1>3. ASSUME NEW h \in Host, NEW i \in DOMAIN inbox[h], HandleLoad(h, i) \/ HandleVolts(h, i)
        PROVE  IInv'
    BY <1>3, HandleLoadKeeps, HandleVoltsKeeps
  <1>4. CASE UNCHANGED vars
    BY <1>4 DEF vars, IInv, Types, Calculated, Loading, MutexOfSleeper, OneUpdate, HasLoad,
                LastVoltages, Newest
  <1>5. QED
    BY <1>1, <1>2, <1>3, <1>4 DEF Next, Proceed

LEMMA ItSpec == Spec => []IInv
  BY IInvInit, IInvInductive, PTL DEF Spec

-----------------------------------------------------------------------------
(* No simulator ever has a share or a voltage that the coordinator has not *)
(* calculated, nor more boundary voltages than it has rows, and the        *)
(* coordinator's mutex is held by the LoadUpdate that sleeps, whatever the *)
(* order in which the handlers of a simulator get its mutex.               *)
THEOREM TypeCorrect == Spec => []TypeOK
  <1>1. IInv => TypeOK
    <2> SUFFICES ASSUME IInv PROVE TypeOK
      OBVIOUS
    <2>1. IsFiniteSet(Loading)
      BY ExchangeAssumption, FS_Subset DEF Loading
    <2>2. Cardinality(Loading) \in Nat
      BY <2>1, FS_CardinalityType
    <2>3. load \in 0 .. MaxLoads
      BY <2>2, ExchangeAssumption DEF IInv, Types, Calculated
    <2>4. ASSUME NEW h \in Host
          PROVE  /\ sim[h] \in {"free", "load", "sleep", "inject"}
                 /\ share[h] \in 0 .. load /\ injected[h] \in 0 .. load
                 /\ volts[h].of \in 0 .. solution /\ volts[h].rows \in 0 .. Rows[h]
                 /\ sim[h] = "sleep" <=> master = h
      <3>1. Rows[h] \in Nat
        BY ExchangeAssumption
      <3>2. volts[h].of \in Nat /\ volts[h].rows \in Nat
        BY DEF IInv, Types
      <3>3. QED
        BY <3>1, <3>2 DEF IInv, Types, Calculated, MutexOfSleeper
    <2>5. QED
      BY <2>3, <2>4 DEF TypeOK
  <1>2. QED
    BY ItSpec, <1>1, PTL

(* When every message has been handled and updates came one after the      *)
(* other, every host draws the share of the last LoadUpdate and the        *)
(* coordinator has the injection made from it: the relay LoadUpdate,       *)
(* "Coordinating update:", CoordinateUpdate leaves nobody with the share   *)
(* of an earlier update.                                                   *)
THEOREM SharesAlwaysAgree == Spec => []SharesAgree
  <1>1. IInv => SharesAgree
    <2> SUFFICES ASSUME IInv, Rest, ~ overlap, NEW h \in Host
                 PROVE  share[h] = load /\ injected[h] = load
      BY DEF SharesAgree
    <2>1. sim[h] = "free" /\ inbox[h] = << >>
      BY DEF Rest
    <2>2. ~ HasLoad(h)
      BY <2>1 DEF HasLoad
    <2>3. QED
      BY <2>1, <2>2 DEF IInv, OneUpdate
  <1>2. QED
    BY ItSpec, <1>1, PTL

(* When every message has been handled, and at each simulator in the order *)
(* in which it was sent, every host has the boundary voltages of the last  *)
(* calculation and all of them, however many updates crossed.              *)
THEOREM VoltagesAlwaysSettle == Spec => []VoltagesSettle
  <1>1. IInv => VoltagesSettle
    <2> SUFFICES ASSUME IInv, Rest, inOrder, NEW h \in Host, Rows[h] > 0
                 PROVE  volts[h] = [of |-> solution, rows |-> Rows[h]]
      BY DEF VoltagesSettle
    <2>1. DOMAIN inbox[h] = {}
      BY DEF Rest
    <2>2. QED
      BY <2>1 DEF IInv, LastVoltages, Newest
  <1>2. QED
    BY ItSpec, <1>1, PTL
=============================================================================
