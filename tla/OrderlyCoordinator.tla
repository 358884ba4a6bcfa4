------------------------- MODULE OrderlyCoordinator -------------------------
(***************************************************************************)
(* The coordinator under the discipline its request queue is there for     *)
(* (emulator.tcl:2653, "send coordinate request to coordinator such that   *)
(* the coordinator can control the request sequence"): one exchange at a   *)
(* time, a host joins when it is not registered, updates while it is, and  *)
(* leaves between exchanges.  The handlers are Coordinator's, unchanged.   *)
(***************************************************************************)
EXTENDS Coordinator, Functions

Quiet == \A h \in Host : sim[h] \in {"idle", "member"}

OrderlyNext ==
    \E h \in Host :
        \/ Quiet /\ h \notin Registered /\ \E load \in Load : JoinLoad(h, load)
        \/ JoinCoordinate(h)
        \/ Quiet /\ h \in Registered /\ \E load \in Load : UpdateLoad(h, load)
        \/ h \in Registered /\ UpdateInjection(h)
        \/ Quiet /\ Cancel(h)

OrderlySpec == Init /\ [][OrderlyNext]_vars

-----------------------------------------------------------------------------
Joined == {h \in Registered : hosts[h].num > 0}

(* The rows are those of the joined hosts and no others, without a gap: a  *)
(* cancel takes exactly the leaving host's rows out and closes the gap.    *)
RowsAreJoinedHosts ==
    /\ Mapped = UNION {Own(h) : h \in Joined}
    /\ DOMAIN indexPi = 0 .. bnum - 1
    /\ \A h \in Registered \ Joined : sim[h] = "joining"

(* YBB is the matrix of the present power lines: an entry off the diagonal *)
(* for each pair of linked rows, and a diagonal that counts the row's      *)
(* lines, however the present hosts came and the absent ones went (until a *)
(* stray write has hit the diagonal).                                      *)
MatrixIsTopology ==
    LET present == {p \in Mapped : Peer[p] \in Mapped}
    IN /\ matrix.adj = {{piIndex[p], piIndex[Peer[p]]} : p \in present}
       /\ stray = 0 => \A p \in Mapped :
             matrix.deg[piIndex[p]] = IF p \in present THEN 1 ELSE 0

(* A row of IB holds the injection of the host the row belongs to, or      *)
(* nothing yet.                                                            *)
InjectionInOwnRow ==
    \A h \in Joined, g \in Host : \A r \in 0 .. Num[h] - 1 :
        matrix.inj[hosts[h].start + r] = g => g = h

(* What the hosts have last been assigned balances: the assigned demands   *)
(* and the assigned supplies have one sum (multiplied out, so that it says *)
(* nothing where the code divides nothing by nothing).                     *)
SharesBalance ==
    LET one == CHOOSE h \in Registered : TRUE
        flag == hosts[one].share.flag
        den == IF flag = 0 THEN hosts[one].share.demands[2]
                           ELSE hosts[one].share.supplies[2]
        demands == SumFunction([h \in Registered |-> hosts[h].share.demands[1]])
        supplies == SumFunction([h \in Registered |-> hosts[h].share.supplies[1]])
    IN Registered # {} =>
         /\ \A h \in Registered : hosts[h].share.flag = flag
         /\ IF flag = 0 THEN demands = den * supplies ELSE supplies = den * demands

(* The memory of the matrix is handled safely but for one place: it is     *)
(* freed once, IB is there when CoordinateUpdate asks its size, and only a *)
(* cancel whose neighbour is not registered follows an iterator that is    *)
(* end().                                                                  *)
OneUnsafeAccess ==
    /\ status # "doubleFree"
    /\ status = "badAccess" => \E p \in Mapped : Peer[p] \notin Mapped

(* The diagonal of the matrix counts the lines of each row, after every    *)
(* cancel (coordinator.cpp:687, "update previous matrix entry due to       *)
(* disconnection").                                                        *)
DiagonalIsTopology ==
    \A p \in Mapped :
        matrix.deg[piIndex[p]] = IF Peer[p] \in Mapped THEN 1 ELSE 0
=============================================================================
