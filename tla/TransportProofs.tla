--------------------------- MODULE TransportProofs ---------------------------
(***************************************************************************)
(* Proofs about Transport for every packet and buffer size and every       *)
(* length of a request: what the receivers have in their buffers.          *)
(***************************************************************************)
EXTENDS Transport, TLAPS

(* The least and the greatest of two.                                      *)
LEMMA MinOfTwo ==
    ASSUME NEW a \in Int, NEW b \in Int
    PROVE  Min({a, b}) \in Int /\ Min({a, b}) <= a /\ Min({a, b}) <= b
<1>1. \E x \in {a, b} : \A y \in {a, b} : x <= y
  OBVIOUS
<1>2. Min({a, b}) \in {a, b} /\ \A y \in {a, b} : Min({a, b}) <= y
  BY <1>1 DEF Min
<1>3. QED
  BY <1>2

LEMMA MaxWithZero ==
    ASSUME NEW a \in Int
    PROVE  Max({a, 0}) = IF a > 0 THEN a ELSE 0
<1>1. PICK m \in {a, 0} : m = (IF a > 0 THEN a ELSE 0) /\ \A y \in {a, 0} : m >= y
  OBVIOUS
<1>2. Max({a, 0}) \in {a, 0} /\ \A y \in {a, 0} : Max({a, 0}) >= y
  BY <1>1 DEF Max
<1>3. QED
  BY <1>1, <1>2

-----------------------------------------------------------------------------
Stream == [total : Nat, sent : Nat, over : BOOLEAN]
Buffered == [got : Nat, have : Nat, last : Nat,
             how : {"no", "overflow", "sentinel", "luck", "end"}]

(* A receiver that has not stopped has all it got, and it never has more   *)
(* than the buffer holds besides the zero.                                 *)
Room(t) == t.have <= t.got /\ t.have < Buffer /\ (t.how = "no" => t.have = t.got)

(* The inductive invariant: the types; the request is over only when all   *)
(* of it was sent; who still reads has not stopped; what stopped the       *)
(* server says how much it has.                                            *)
TransportInv ==
    /\ kind \in Kinds
    /\ request \in Stream /\ answer \in Stream /\ taken \in Buffered /\ back \in Buffered
    /\ request.over => request.sent = Whole(request)
    /\ taken.got <= request.sent
    /\ Room(taken) /\ (kind = "call" => Room(back))
    /\ server = "reading" => taken.how = "no"
    /\ client \in {"sending", "waiting"} => back.how = "no"
    /\ taken.how = "sentinel" => taken.have = request.total
    /\ taken.how = "end" => taken.have >= request.total

-----------------------------------------------------------------------------
LEMMA PacketIs ==
    ASSUME NEW stream \in Stream, NEW t \in Buffered, NEW n \in Packets(stream, t)
    PROVE  n \in Nat /\ n >= 1 /\ t.got + n <= stream.sent
<1>1. PICK a \in Int, b \in Nat, g \in Nat : a = stream.sent - t.got /\ b = stream.sent /\ g = t.got
  BY DEF Stream, Buffered
<1>2. PICK m \in Int : m = Min({Packet, a}) /\ m <= a
  <2>1. Packet \in Int
    BY TransportAssumption
  <2>2. Min({Packet, a}) \in Int /\ Min({Packet, a}) <= a
    BY <2>1, MinOfTwo
  <2> QED
    BY <2>2
<1>3. n \in 1 .. m
  BY <1>1, <1>2 DEF Packets
<1>4. QED
  BY <1>1, <1>2, <1>3

(* The sentinel is found in full only at the end of a whole request.       *)
LEMMA MatchesAtTheEnd ==
    ASSUME NEW whole \in Nat, NEW got \in Nat, NEW n \in Nat, n >= Tail, Matches(whole, got, n)
    PROVE  got = whole /\ IsGui
<1>1. got - 5 > got - n /\ got - 2 > got - n
  BY DEF Tail
<1>2. SentinelAt(whole, got - 5) /\ SentinelAt(whole, got - 2)
  BY <1>1 DEF Matches
<1>3. got - 5 >= whole - 5 /\ got - 2 <= whole - 2
  BY <1>2 DEF SentinelAt, Tail
<1>4. QED
  BY <1>2, <1>3 DEF SentinelAt

(* A turn of the loop of receive_data.                                     *)
LEMMA Turn ==
    ASSUME NEW t \in Buffered, Room(t), t.how = "no", NEW whole \in Nat,
           NEW n \in Nat, n >= 1, NEW u \in Stopped(whole, t, n)
    PROVE  /\ u \in Buffered /\ Room(u) /\ u.got = t.got + n /\ u.how # "end"
           /\ u.how = "sentinel" => u.have = whole - Tail /\ IsGui
<1>1. PICK g \in Nat : g = t.got /\ t.have = g /\ g < Buffer /\ Buffer \in Nat
  BY TransportAssumption DEF Buffered, Room
<1>2. PICK got \in Nat : got = g + n
  OBVIOUS
<1>3. CASE Overflows(got)
  <2>1. u = [got |-> got, have |-> g, last |-> n, how |-> "overflow"]
    BY <1>1, <1>2, <1>3 DEF Stopped
  <2> QED
    BY <1>1, <1>2, <2>1 DEF Buffered, Room
<1>4. CASE ~ Overflows(got) /\ u.how = "no"
  <2>1. u = [got |-> got, have |-> got, last |-> n, how |-> "no"]
    BY <1>1, <1>2, <1>4 DEF Stopped
  <2>2. got < Buffer
    BY <1>1, <1>4 DEF Overflows
  <2> QED
    BY <1>1, <1>2, <2>1, <2>2 DEF Buffered, Room
<1>5. CASE ~ Overflows(got) /\ u.how # "no"
  <2>1. /\ Matches(whole, got, n)
        /\ u = [got |-> got, have |-> Kept(got, n), last |-> n,
                how |-> IF n >= Tail THEN "sentinel" ELSE "luck"]
    BY <1>1, <1>2, <1>5 DEF Stopped
  <2>2. Kept(got, n) = IF n > Tail THEN got - Tail ELSE got - n
    <3>1. n - Tail \in Int
      BY DEF Tail
    <3>2. Max({n - Tail, 0}) = IF n - Tail > 0 THEN n - Tail ELSE 0
      BY <3>1, MaxWithZero
    <3> QED
      BY <3>2 DEF Kept, Tail
  <2>3. PICK k \in Nat : k = Kept(got, n) /\ k <= got /\ (n >= Tail => k = got - Tail)
    BY <1>2, <2>2 DEF Tail
  <2>4. got < Buffer
    BY <1>1, <1>5 DEF Overflows
  <2>5. CASE n >= Tail
    <3>1. u = [got |-> got, have |-> k, last |-> n, how |-> "sentinel"]
      BY <2>1, <2>3, <2>5
    <3>2. got = whole /\ IsGui
      BY <2>1, <2>5, MatchesAtTheEnd
    <3>3. u \in Buffered
      BY <3>1 DEF Buffered
    <3>4. k < Buffer
      BY <1>1, <2>3, <2>4
    <3> QED
      BY <1>1, <1>2, <2>3, <2>5, <3>1, <3>2, <3>3, <3>4 DEF Room
  <2>6. CASE ~ n >= Tail
    <3>1. u = [got |-> got, have |-> k, last |-> n, how |-> "luck"]
      BY <2>1, <2>3, <2>6
    <3>2. u \in Buffered
      BY <3>1 DEF Buffered
    <3>3. k < Buffer
      BY <1>1, <2>3, <2>4
    <3> QED
      BY <1>1, <1>2, <2>3, <3>1, <3>2, <3>3 DEF Room
  <2> QED
    BY <2>5, <2>6
<1>6. QED
  BY <1>3, <1>4, <1>5

(* The length of a request with its sentinel.                              *)
LEMMA WholeIs ==
    ASSUME request \in Stream
    PROVE  /\ Whole(request) \in Nat
           /\ Whole(request) = IF IsGui THEN request.total + Tail ELSE request.total
           /\ Whole(request) >= request.total
<1>1. PICK n \in Nat : n = request.total
  BY DEF Stream
<1>2. Whole(request) = IF IsGui THEN n + Tail ELSE n
  BY <1>1 DEF Whole
<1>3. QED
  BY <1>1, <1>2 DEF Tail
-----------------------------------------------------------------------------
LEMMA SendRequestKeeps ==
    ASSUME TransportInv, NEW n \in 1 .. Packet, SendRequest(n)
    PROVE  TransportInv'
<1>1. request \in Stream /\ taken \in Buffered /\ taken.got <= request.sent
      /\ UNCHANGED <<kind, server, answer, taken, back>> /\ client = "sending"
  BY DEF TransportInv, SendRequest
<1>2. PICK a \in Nat, b \in Nat, w \in Nat :
         /\ a = request.sent /\ b = request.total /\ w = Whole(request)
         /\ w = IF IsGui THEN b + Tail ELSE b
  BY <1>1, WholeIs DEF Stream
<1>3. n \in Nat /\ a + n \in Nat
  BY <1>2, TransportAssumption
<1>4. request' = [request EXCEPT !.sent = a + n, !.over = (a + n = w) /\ kind # "ask"]
  BY <1>2 DEF SendRequest
<1>5. /\ request' \in Stream /\ request'.total = b /\ request'.sent = a + n
      /\ request'.over => a + n = w
  <2>1. PICK o \in BOOLEAN : o = ((a + n = w) /\ kind # "ask")
    OBVIOUS
  <2>2. request' = [total |-> b, sent |-> a + n, over |-> o]
    BY <1>1, <1>2, <1>4, <2>1 DEF Stream
  <2> QED
    BY <1>3, <2>1, <2>2 DEF Stream
<1>6. Whole(request)' = w
  <2>1. request'.total = request.total /\ IsGui' = IsGui
    BY <1>1, <1>2, <1>5 DEF IsGui
  <2> QED
    BY <1>2, <1>5, <2>1 DEF Whole
<1>7. taken.got <= a + n
  <2>1. PICK g \in Nat : g = taken.got
    BY <1>1 DEF Buffered
  <2> QED
    BY <1>1, <1>2, <1>3, <2>1
<1>8. client' \in {"sending", "waiting"} => client \in {"sending", "waiting"}
  BY <1>1
<1>9. QED
  BY <1>1, <1>2, <1>5, <1>6, <1>7, <1>8 DEF TransportInv, Room

LEMMA ReceiveKeeps ==
    ASSUME TransportInv, Receive
    PROVE  TransportInv'
<1>1. /\ request \in Stream /\ taken \in Buffered /\ taken.got <= request.sent
      /\ Room(taken) /\ taken.how = "no" /\ server = "reading"
      /\ UNCHANGED <<kind, client, request, answer, back>>
  BY DEF TransportInv, Receive
<1>2. PICK b \in Nat, w \in Nat :
         /\ b = request.total /\ w = Whole(request) /\ w >= b
         /\ w = IF IsGui THEN b + Tail ELSE b
  BY <1>1, WholeIs DEF Stream
<1>3. Whole(request)' = Whole(request)
  BY <1>1 DEF Whole, IsGui
<1>4. ASSUME NEW n \in Packets(request, taken), NEW t \in Stopped(Whole(request), taken, n),
             taken' = t, server' = IF t.how = "no" THEN "reading" ELSE "handling"
      PROVE  TransportInv'
  <2>1. n \in Nat /\ n >= 1 /\ taken.got + n <= request.sent
    BY <1>1, PacketIs
  <2>2. /\ t \in Buffered /\ Room(t) /\ t.got = taken.got + n /\ t.how # "end"
        /\ t.how = "sentinel" => t.have = w - Tail /\ IsGui
    BY <1>1, <1>2, <2>1, Turn
  <2>3. t.how = "sentinel" => t.have = b
    BY <1>2, <2>2 DEF Tail
  <2> QED
    BY <1>1, <1>2, <1>3, <1>4, <2>1, <2>2, <2>3 DEF TransportInv, Room
<1>5. ASSUME AtEnd(request, taken), taken' = [taken EXCEPT !.how = "end"], server' = "handling"
      PROVE  TransportInv'
  <2>1. taken.got = w
    BY <1>2, <1>5 DEF AtEnd, TransportInv
  <2>2. /\ taken' \in Buffered /\ taken'.how = "end" /\ taken'.got = taken.got
        /\ taken'.have = taken.have
    BY <1>1, <1>5 DEF Buffered
  <2>3. taken'.have >= b
    BY <1>1, <1>2, <2>1, <2>2 DEF Room
  <2> QED
    BY <1>1, <1>2, <1>3, <1>5, <2>2, <2>3 DEF TransportInv, Room
<1>6. QED
  BY <1>4, <1>5 DEF Receive

LEMMA HandleKeeps ==
    ASSUME TransportInv, NEW l \in Lengths \cup {0}, Handle(l)
    PROVE  TransportInv'
<1>1. l \in Nat
  BY TransportAssumption
<1>2. answer' = [total |-> l, sent |-> 0, over |-> l = 0]
  BY DEF Handle, Nothing
<1>3. answer' \in Stream
  BY <1>1, <1>2 DEF Stream
<1>4. UNCHANGED <<kind, client, request, taken, back>> /\ server' # "reading"
  BY DEF Handle
<1>5. Whole(request)' = Whole(request)
  BY <1>4 DEF Whole, IsGui
<1>6. QED
  BY <1>3, <1>4, <1>5 DEF TransportInv, Room

LEMMA SendAnswerKeeps ==
    ASSUME TransportInv, NEW n \in 1 .. Packet, SendAnswer(n)
    PROVE  TransportInv'
<1>1. PICK a \in Nat, b \in Nat, o \in BOOLEAN : answer = [total |-> b, sent |-> a, over |-> o]
  BY DEF TransportInv, Stream
<1>2. n \in Nat
  BY TransportAssumption
<1>3. PICK q \in BOOLEAN : q = (answer.sent + n = answer.total)
  OBVIOUS
<1>4. answer' = [answer EXCEPT !.sent = answer.sent + n, !.over = q]
  BY <1>3 DEF SendAnswer
<1>5. answer' = [total |-> b, sent |-> a + n, over |-> q]
  BY <1>1, <1>4
<1>6. answer' \in Stream
  BY <1>2, <1>5 DEF Stream
<1>7. UNCHANGED <<kind, client, request, taken, back>> /\ server' # "reading"
  BY DEF SendAnswer
<1>8. Whole(request)' = Whole(request)
  BY <1>7 DEF Whole, IsGui
<1>9. QED
  BY <1>6, <1>7, <1>8 DEF TransportInv, Room

LEMMA ReceiveAnswerKeeps ==
    ASSUME TransportInv, ReceiveAnswer
    PROVE  TransportInv'
<1>1. /\ answer \in Stream /\ back \in Buffered /\ back.how = "no"
      /\ (kind = "call" => Room(back)) /\ client = "waiting"
      /\ UNCHANGED <<kind, server, request, answer, taken>>
  BY DEF TransportInv, ReceiveAnswer
<1>2. Whole(request)' = Whole(request)
  BY <1>1 DEF Whole, IsGui
<1>3. SUFFICES /\ back' \in Buffered /\ (kind = "call" => Room(back'))
               /\ client' \in {"sending", "waiting"} => back'.how = "no"
  BY <1>1, <1>2 DEF TransportInv, Room
<1>4. ASSUME kind = "call", NEW n \in Packets(answer, back),
             NEW t \in Stopped(answer.total, back, n),
             back' = t, client' = IF t.how = "no" THEN "waiting" ELSE "done"
      PROVE  /\ back' \in Buffered /\ Room(back')
             /\ client' \in {"sending", "waiting"} => back'.how = "no"
  <2>1. n \in Nat /\ n >= 1 /\ answer.total \in Nat
    BY <1>1, PacketIs DEF Stream
  <2>2. t \in Buffered /\ Room(t)
    BY <1>1, <1>4, <2>1, Turn
  <2> QED
    BY <1>4, <2>2
<1>5. ASSUME IsGui, NEW n \in Packets(answer, back),
             back' = [back EXCEPT !.got = @ + n, !.have = @ + n, !.last = n]
      PROVE  back' \in Buffered /\ back'.how = "no" /\ kind # "call"
  <2>1. PICK g \in Nat, h \in Nat, l \in Nat :
           back = [got |-> g, have |-> h, last |-> l, how |-> "no"]
    BY <1>1 DEF Buffered
  <2>2. n \in Nat
    BY <1>1, PacketIs
  <2>3. back' = [got |-> g + n, have |-> h + n, last |-> n, how |-> "no"]
    BY <1>5, <2>1
  <2>4. g + n \in Nat /\ h + n \in Nat
    BY <2>2
  <2>5. back' \in Buffered /\ back'.how = "no"
    BY <2>2, <2>3, <2>4 DEF Buffered
  <2>6. kind # "call"
    BY <1>5 DEF IsGui
  <2> QED
    BY <2>5, <2>6
<1>6. ASSUME back' = [back EXCEPT !.how = "end"], client' = "done"
      PROVE  back' \in Buffered /\ (kind = "call" => Room(back'))
  BY <1>1, <1>6 DEF Buffered, Room
<1>7. QED
  BY <1>4, <1>5, <1>6 DEF ReceiveAnswer

LEMMA TransportInitial == Init => TransportInv
<1> SUFFICES ASSUME Init PROVE TransportInv
  OBVIOUS
<1>1. PICK l \in Lengths : request = [total |-> l, sent |-> 0, over |-> FALSE]
  BY DEF Init, Nothing
<1>2. l \in Nat /\ Buffer \in Nat /\ 0 < Buffer
  BY TransportAssumption DEF Tail
<1>3. request \in Stream /\ request.sent = 0 /\ ~ request.over
  BY <1>1, <1>2 DEF Stream
<1>4. answer \in Stream
  BY DEF Init, Nothing, Stream
<1>5. Empty \in Buffered /\ Room(Empty) /\ Empty.got = 0 /\ Empty.how = "no"
  BY <1>2 DEF Empty, Buffered, Room
<1>6. QED
  BY <1>3, <1>4, <1>5 DEF Init, TransportInv

LEMMA TransportInvariance == Spec => []TransportInv
<1>1. TransportInv /\ [Next]_vars => TransportInv'
  <2> SUFFICES ASSUME TransportInv, [Next]_vars PROVE TransportInv'
    OBVIOUS
  <2>1. CASE UNCHANGED vars
    BY <2>1 DEF TransportInv, Room, Whole, IsGui, vars
  <2> QED
    BY <2>1, SendRequestKeeps, ReceiveKeeps, HandleKeeps, SendAnswerKeeps,
       ReceiveAnswerKeeps DEF Next
<1>2. QED
  BY <1>1, TransportInitial, PTL DEF Spec

(* receive_data keeps room for the zero that ends the string it makes, and *)
(* has nothing that was not sent (util.cpp, receive_data).                 *)
THEOREM StringAlwaysEnds == Spec => []StringEnds
<1>1. TransportInv => StringEnds
  BY DEF TransportInv, Room, StringEnds
<1>2. QED
  BY <1>1, TransportInvariance, PTL

(* A handler gets the whole request, in whatever pieces it came, unless    *)
(* that was too large or a short packet ended the loop by luck.            *)
THEOREM RequestAlwaysWhole == Spec => []RequestWhole
<1>1. TransportInv => RequestWhole
  <2> SUFFICES ASSUME TransportInv PROVE RequestWhole
    OBVIOUS
  <2>1. taken.how = "sentinel" => taken.have = request.total /\ request.total \in Nat
    BY DEF TransportInv, Stream
  <2> QED
    BY <2>1 DEF TransportInv, RequestWhole
<1>2. QED
  BY <1>1, TransportInvariance, PTL
=============================================================================
