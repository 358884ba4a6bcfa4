----------------------------- MODULE Transport -----------------------------
(***************************************************************************)
(* How a request gets through a connection (send_data, receive_data and    *)
(* exec_on_server of powersimulation/util.cpp, the same in                 *)
(* coordinator/util_c.cpp).                                                *)
(*                                                                         *)
(* A program ends its request by closing its side of the connection and    *)
(* reads the answer up to the end of the other side.  The GUI marks the    *)
(* end by $$$$ and a line end; when it wants an answer it keeps its side   *)
(* open.  The network delivers the bytes in order, in pieces of any size.  *)
(* Bytes are modelled by their places in the request; a send puts all its  *)
(* bytes on the way.                                                       *)
(***************************************************************************)
EXTENDS Integers, FiniteSetsExt

CONSTANTS
    Packet,   \* MAXIMUM_PACKET_SIZE
    Buffer,   \* SOCKET_BUFFER_SIZE
    Lengths   \* lengths of requests and answers

Tail == 6     \* "$$$$" and a line end

ASSUME TransportAssumption ==
    /\ Packet \in Nat /\ Packet >= Tail
    /\ Buffer \in Nat /\ Buffer > Packet
    /\ Lengths \subseteq Nat \ {0}

Kinds == {"call", "tell", "ask"}
Nothing == [total |-> 0, sent |-> 0, over |-> FALSE]
Empty == [got |-> 0, have |-> 0, last |-> 0, how |-> "no"]

VARIABLES
    kind,     \* a program's call, or the GUI that tells or asks something
    client,   \* "sending", "waiting", "done"
    server,   \* "reading", "handling", "sending", "closed"
    request,  \* bytes of the request: length, sent, and side closed
    answer,   \* bytes of the answer
    taken,    \* what the server has of the request, and why it stopped
    back      \* what the client has of the answer

vars == <<kind, client, server, request, answer, taken, back>>

IsGui == kind \in {"tell", "ask"}
Whole(stream) == IF IsGui /\ stream = request THEN stream.total + Tail ELSE stream.total

\* the next packet; the GUI's channel may flush in other pieces
SendPacket(stream, whole, n) ==
    /\ stream.sent < whole /\ ~ stream.over
    /\ IF IsGui THEN stream.sent + n <= whole ELSE n = Min({Packet, whole - stream.sent})

-----------------------------------------------------------------------------
(* receive_data.  The sentinel's characters are looked for at fixed places *)
(* of the packet that was read: those of a packet shorter than Tail lie    *)
(* before the array, and may hold anything.                                *)
SentinelAt(whole, i) == IsGui /\ i \in whole - Tail + 1 .. whole - 2

\* mutant: the places are counted without the line end
MatchesAtEnd(whole, got, n) ==
    \A i \in got - 3 .. got : i > got - n => SentinelAt(whole, i)

Matches(whole, got, n) ==
    \A i \in got - 5 .. got - 2 : i > got - n => SentinelAt(whole, i)

\* mutant: what the sentinel's packet has before the sentinel is dropped
KeptNone(got, n) == got - n

\* the bytes the buffer has after a packet with the sentinel
Kept(got, n) == got - n + Max({n - Tail, 0})

\* mutant: a full buffer is not too much
OverflowsLate(got) == got > Buffer

Overflows(got) == got >= Buffer

(* One turn of its loop: a packet of n bytes, up to got.  An overflow      *)
(* drops the packet and ends the loop.                                     *)
Stopped(whole, t, n) ==
    LET got == t.got + n
        next(have, how) == [got |-> got, have |-> have, last |-> n, how |-> how]
    IN IF Overflows(got) THEN {next(t.have, "overflow")}
       ELSE (IF Matches(whole, got, n)
             THEN {next(Kept(got, n), IF n >= Tail THEN "sentinel" ELSE "luck")} ELSE {})
            \cup (IF Matches(whole, got, n) /\ n >= Tail THEN {} ELSE {next(got, "no")})

Packets(stream, t) == 1 .. Min({Packet, stream.sent - t.got})

AtEnd(stream, t) == stream.over /\ t.got = stream.sent

-----------------------------------------------------------------------------
\* mutant: the side is not closed
SendRequestOpen(n) ==
    /\ client = "sending"
    /\ SendPacket(request, Whole(request), n)
    /\ request' = [request EXCEPT !.sent = @ + n]
    /\ client' = IF request'.sent < Whole(request) THEN "sending" ELSE "waiting"
    /\ UNCHANGED <<kind, server, answer, taken, back>>

(* send_data, with its shutdown, or the puts and flush of the GUI, which   *)
(* closes its channel when it wants no answer.                             *)
SendRequest(n) ==
    /\ client = "sending"
    /\ SendPacket(request, Whole(request), n)
    /\ LET all == request.sent + n = Whole(request)
       IN /\ request' = [request EXCEPT !.sent = @ + n, !.over = all /\ kind # "ask"]
          /\ client' = IF ~ all THEN "sending" ELSE IF kind = "tell" THEN "done" ELSE "waiting"
    /\ UNCHANGED <<kind, server, answer, taken, back>>

Receive ==
    /\ server = "reading"
    /\ \/ \E n \in Packets(request, taken) :
             \E t \in Stopped(Whole(request), taken, n) :
                /\ taken' = t
                /\ server' = IF t.how = "no" THEN "reading" ELSE "handling"
       \/ /\ AtEnd(request, taken)
          /\ taken' = [taken EXCEPT !.how = "end"]
          /\ server' = "handling"
    /\ UNCHANGED <<kind, client, request, answer, back>>

(* The handler: an answer, which it sends and then closes, or none.        *)
Handle(l) ==
    /\ server = "handling"
    /\ answer' = [Nothing EXCEPT !.total = l, !.over = l = 0]
    /\ server' = IF l = 0 THEN "closed" ELSE "sending"
    /\ UNCHANGED <<kind, client, request, taken, back>>

SendAnswer(n) ==
    /\ server = "sending"
    /\ answer.sent < answer.total /\ n = Min({Packet, answer.total - answer.sent})
    /\ LET all == answer.sent + n = answer.total
       IN /\ answer' = [answer EXCEPT !.sent = @ + n, !.over = all]
          /\ server' = IF all THEN "closed" ELSE "sending"
    /\ UNCHANGED <<kind, client, request, taken, back>>

(* exec_on_server reads the answer by receive_data, the GUI by lines.  A   *)
(* packet that is too short may end the loop by luck.                      *)
ReceiveAnswer ==
    /\ client = "waiting"
    /\ \/ /\ kind = "call"
          /\ \E n \in Packets(answer, back) :
                \E t \in Stopped(answer.total, back, n) :
                   /\ back' = t
                   /\ client' = IF t.how = "no" THEN "waiting" ELSE "done"
       \/ /\ IsGui
          /\ \E n \in Packets(answer, back) :
                back' = [back EXCEPT !.got = @ + n, !.have = @ + n, !.last = n]
          /\ UNCHANGED client
       \/ /\ AtEnd(answer, back) /\ server = "closed"
          /\ back' = [back EXCEPT !.how = "end"]
          /\ client' = "done"
    /\ UNCHANGED <<kind, server, request, answer, taken>>

Init ==
    /\ kind \in Kinds
    /\ client = "sending" /\ server = "reading"
    /\ request \in {[Nothing EXCEPT !.total = l] : l \in Lengths}
    /\ answer = Nothing
    /\ taken = Empty /\ back = Empty

Next ==
    \/ \E n \in 1 .. Packet : SendRequest(n) \/ SendAnswer(n)
    \/ Receive \/ ReceiveAnswer
    \/ \E l \in Lengths \cup {0} : Handle(l)

(* Both programs run, and the network delivers.                            *)
Spec == Init /\ [][Next]_vars /\ WF_vars(Next)

-----------------------------------------------------------------------------
(* What a receiver has is a beginning of what was sent, and leaves room in *)
(* the buffer for the zero that ends the string made of it.                *)
StringEnds ==
    /\ taken.have <= taken.got /\ taken.got <= request.sent /\ taken.have < Buffer
    /\ kind = "call" => back.have <= back.got /\ back.have < Buffer

(* The handler gets the whole request, whatever the pieces it came in, and *)
(* without the sentinel if that was found; but for a request too large for *)
(* the buffer and for packets too short to be looked at.                   *)
RequestWhole ==
    /\ taken.how \in {"sentinel", "end"} => taken.have >= request.total
    /\ taken.how = "sentinel" => taken.have = request.total

(* The GUI's question and the server wait for each other when the last     *)
(* packet has less than the sentinel.                                      *)
Split == kind = "ask" /\ taken.got = Whole(request) /\ taken.last < Tail

(* Apart from that every request is handled and every caller goes on.      *)
ConversationEnds == <>(Split \/ (client = "done" /\ server = "closed"))
=============================================================================
