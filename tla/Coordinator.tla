---------------------------- MODULE Coordinator ----------------------------
(***************************************************************************)
(* The registry of the load coordinator (coordinator/coordinator.cpp): the *)
(* map of registered hosts, the admittance matrix YBB with one row per     *)
(* boundary interface, the two index maps between interfaces and rows, and *)
(* the totals the load shares are computed from.  SocketHandler runs each  *)
(* handler under mutexsum, so a handler is one action.                     *)
(*                                                                         *)
(* Abstracted: complex voltages and the LU solution (only whose injection  *)
(* sits in which row is kept), the text of the messages, the sleep(2) that *)
(* LoadUpdate does while it holds the mutex.                               *)
(***************************************************************************)
EXTENDS Integers, FiniteSets

CONSTANTS
    Host,    \* the emulation hosts: one power simulator and one GUI each
    Num,     \* Num[h]: boundary interfaces of h, in the order of its messages
    Peer,    \* the interface at the other end of an interface's power line
    Load,    \* the <<desired demands, desired supplies>> a host may report
    NoHost,  \* a row of IB that no host has filled
    MaxRows,   \* bound: no join is taken that makes the matrix larger
    MaxStray   \* bound: how many stray writes a behaviour goes through

(* The r-th interface of h.  pi.id is the host's address followed by the   *)
(* interface's name, so an interface belongs to one host for ever.         *)
Own(h) == {h} \X (0 .. Num[h] - 1)
Pi == UNION {Own(h) : h \in Host}

ASSUME HostAssumption == NoHost \notin Host
ASSUME NumAssumption == Num \in [Host -> Nat \ {0}]
\* coordinator.cpp:215, "one to one connection. one target only"
ASSUME PeerAssumption ==
    /\ Peer \in [Pi -> Pi]
    /\ \A p \in Pi : Peer[Peer[p]] = p /\ Peer[p][1] # p[1]
ASSUME BoundAssumption == MaxRows \in Nat /\ MaxStray \in Nat
ASSUME LoadAssumption == Load \subseteq Nat \X Nat

VARIABLES
    hosts,     \* function over the registered hosts (class Host)
    bnum,      \* boundary_nodes_number_
    matrix,    \* YBB, IB (and VB): all three are allocated and freed together
    piIndex,   \* pi_index_mapping_; its domain is also the key set of pis
    indexPi,   \* index_pi_mapping_
    totalD,    \* total_desired_demands
    totalS,    \* total_desired_supplies
    okNext,    \* is_ok_next, the gate of the request thread
    status,    \* how the process is: "running" or how it ended
    stray,     \* how often a row number read through end() was written to
    sim        \* the client's side: which exchange each simulator is in

registry == <<hosts, bnum, matrix, piIndex, indexPi, totalD, totalS, okNext, stray>>
vars == <<hosts, bnum, matrix, piIndex, indexPi, totalD, totalS, okNext,
          status, stray, sim>>

-----------------------------------------------------------------------------
NoMatrix(m) == [mem |-> m, dim |-> 0, adj |-> {}, deg |-> [i \in {} |-> 0],
                inj |-> [i \in {} |-> NoHost]]
Empty == [x \in {} |-> x]
Registered == DOMAIN hosts
Mapped == DOMAIN piIndex
NewHost == [dd |-> 0, ds |-> 0, num |-> 0, start |-> 0]

\* mutant: the scarce side is scaled and the other left in full
ShareWrongSide(dd, ds, d, s) ==
    IF d > s THEN [flag |-> 0, demands |-> <<dd, 1>>, supplies |-> <<ds * d, s>>]
             ELSE [flag |-> 1, demands |-> <<dd * s, d>>, supplies |-> <<ds, 1>>]

(* What a host with desired load (dd, ds) is assigned out of the totals:   *)
(* the scarce side in full, the other side scaled.  An amount is a pair    *)
(* <<numerator, denominator>>; 0 as a denominator is the code's NaN.       *)
Share(dd, ds, d, s) ==
    IF d > s THEN [flag |-> 0, demands |-> <<dd * s, d>>, supplies |-> <<ds, 1>>]
             ELSE [flag |-> 1, demands |-> <<dd, 1>>, supplies |-> <<ds * d, s>>]

(* The entry of a host under the totals d and s.                           *)
Entry(dd, ds, num, start, d, s) ==
    [dd |-> dd, ds |-> ds, num |-> num, start |-> start, share |-> Share(dd, ds, d, s)]

(* A total in which one host's old value gives way to its new one.         *)
Replace(total, old, new) == total - old + new

(* Every send opens a connection to the receiver's simulator, and a        *)
(* refused connection is exit(1).                                          *)
ConnectFails(receivers) ==
    /\ receivers # {}
    /\ status' = "exited"
    /\ UNCHANGED registry

Crash(how) == status' = how /\ UNCHANGED registry

(* gsl_matrix and gsl_vector of the next size are filled from the old ones *)
(* (nothing to copy when the registry was empty), and the new host's links *)
(* to interfaces already present are entered on both sides.                *)
Grown(h) ==
    LET linked == {r \in 0 .. Num[h] - 1 : Peer[<<h, r>>] \in Mapped}
        at(r) == piIndex[Peer[<<h, r>>]]
    IN [mem |-> "live",
        dim |-> bnum + Num[h],
        adj |-> (IF bnum = 0 THEN {} ELSE matrix.adj)
                    \cup {{at(r), bnum + r} : r \in linked},
        deg |-> [i \in 0 .. bnum + Num[h] - 1 |->
                    IF i < bnum
                    THEN matrix.deg[i] + IF \E r \in linked : at(r) = i THEN 1 ELSE 0
                    ELSE IF i - bnum \in linked THEN 1 ELSE 0],
        inj |-> [i \in 0 .. bnum + Num[h] - 1 |->
                    IF i < bnum THEN matrix.inj[i] ELSE h]]

\* mutant: one row per host, as UnRegisterRequest's comments have it
CutOneRow(deg, start, len) ==
    LET old(i) == IF i < start THEN i ELSE i + 1
        rows == 0 .. bnum - 2
    IN [mem |-> "live", dim |-> bnum - 1,
        adj |-> {e \in SUBSET rows : {old(i) : i \in e} \in matrix.adj},
        deg |-> [i \in rows |-> deg[old(i)]],
        inj |-> [i \in rows |-> NoHost]]

\* mutant: the injections are not reset, and not moved with the rows
CutKeepsInjections(deg, start, len) ==
    LET old(i) == IF i < start THEN i ELSE i + len
        rows == 0 .. bnum - len - 1
    IN [mem |-> "live", dim |-> bnum - len,
        adj |-> {e \in SUBSET rows : {old(i) : i \in e} \in matrix.adj},
        deg |-> [i \in rows |-> deg[old(i)]],
        inj |-> [i \in rows |-> matrix.inj[i]]]

(* Rows start .. start + len - 1 taken out; IB and VB are left at zero.    *)
Cut(deg, start, len) ==
    LET old(i) == IF i < start THEN i ELSE i + len
        rows == 0 .. bnum - len - 1
    IN [mem |-> "live",
        dim |-> bnum - len,
        adj |-> {{i, j} : i, j \in rows} \cap
                    {e \in SUBSET rows : {old(i) : i \in e} \in matrix.adj},
        deg |-> [i \in rows |-> deg[old(i)]],
        inj |-> [i \in rows |-> NoHost]]

-----------------------------------------------------------------------------
(* "Desired demands and supplies:"                                         *)
LoadUpdate(h, load) ==
    LET rec == IF h \in Registered THEN hosts[h] ELSE NewHost
        d == Replace(totalD, rec.dd, load[1])
        s == Replace(totalS, rec.ds, load[2])
    IN \/ /\ totalD' = d
          /\ totalS' = s
          /\ hosts' = [g \in Registered \cup {h} |->
                IF g = h
                THEN Entry(load[1], load[2], rec.num, rec.start, d, s)
                ELSE Entry(hosts[g].dd, hosts[g].ds, hosts[g].num, hosts[g].start, d, s)]
          /\ UNCHANGED <<bnum, matrix, piIndex, indexPi, okNext, status, stray>>
       \/ ConnectFails(Registered \ {h})

(* "coordinating info:"                                                    *)
Coordinate(h) ==
    \/ /\ hosts' = [g \in Registered |->
                      IF g = h THEN [hosts[g] EXCEPT !.num = Num[h], !.start = bnum]
                               ELSE hosts[g]]
       /\ bnum' = bnum + Num[h]
       /\ matrix' = Grown(h)
       /\ piIndex' = [p \in Mapped \cup Own(h) |->
                        IF p \in Own(h) THEN bnum + p[2] ELSE piIndex[p]]
       /\ indexPi' = [i \in DOMAIN indexPi \cup bnum .. bnum + Num[h] - 1 |->
                        IF i \in bnum .. bnum + Num[h] - 1
                        THEN <<h, i - bnum>> ELSE indexPi[i]]
       /\ okNext' = TRUE
       /\ UNCHANGED <<totalD, totalS, status, stray>>
    \/ bnum + Num[h] # 1 /\ ConnectFails(Registered \ {h})

(* "coordinating info updated:".  The size of IB is read before anything   *)
(* says that there is an IB; a write into a freed one may do no harm.       *)
CoordinateUpdate(h) ==
    IF h \notin Registered
    THEN UNCHANGED <<registry, status>>
    ELSE \/ /\ matrix.mem = "live"
            /\ matrix' = [matrix EXCEPT !.inj =
                 [i \in DOMAIN matrix.inj |->
                    IF i \in hosts[h].start .. hosts[h].start + Num[h] - 1
                    THEN h ELSE matrix.inj[i]]]
            /\ UNCHANGED <<hosts, bnum, piIndex, indexPi, totalD, totalS, okNext,
                           status, stray>>
         \/ matrix.mem # "live" /\ Crash("badAccess")
         \/ matrix.mem = "freed" /\ UNCHANGED <<registry, status>>
         \/ ConnectFails({g \in Registered :
                            hosts[g].num > 0 \/ (bnum <= 1 /\ Registered = {g})})

-----------------------------------------------------------------------------
(* "CancelRequest:", first part: the diagonal of each neighbour loses one. *)
(* pi_index_mapping_.find(neighbor) is not compared with end(); for a      *)
(* neighbour that is not there the word behind the map's header is the row *)
(* number, the same one each time: past the matrix gsl aborts, within it   *)
(* row s is changed.                                                       *)
Unlinked(h) == {p \in Own(h) \cap Mapped : Peer[p] \notin Mapped}

\* mutant: the neighbours keep the lines of the host that left
DegAfterCancelKeeps(h, s) == matrix.deg

DegAfterCancel(h, s) ==
    [i \in DOMAIN matrix.deg |->
        matrix.deg[i]
        - Cardinality({p \in (Own(h) \cap Mapped) \ Unlinked(h) : piIndex[Peer[p]] = i})
        - IF i = s THEN Cardinality(Unlinked(h)) ELSE 0]

StrayWrite(h) == IF Unlinked(h) = {} THEN UNCHANGED stray
                 ELSE stray < MaxStray /\ stray' = stray + 1

\* mutant: the last cancel leaves the hosts registered
ClearAllKeepsHosts(h) ==
    /\ bnum - hosts[h].num <= 0
    /\ \/ matrix.mem = "freed" /\ Crash("doubleFree")
       \/ /\ matrix' = NoMatrix(IF matrix.mem = "null" THEN "null" ELSE "freed")
          /\ piIndex' = Empty /\ indexPi' = Empty
          /\ bnum' = 0 /\ totalD' = 0 /\ totalS' = 0
          /\ okNext' = TRUE
          /\ StrayWrite(h)
          /\ UNCHANGED <<hosts, status>>

(* The branch for the last boundary node: everything goes, the entries of  *)
(* hosts that never had a row included, and the pointers are not reset: a  *)
(* second free is undefined, the process may end or go on.                 *)
ClearAll(h) ==
    /\ bnum - hosts[h].num <= 0
    /\ \/ matrix.mem = "freed" /\ Crash("doubleFree")
       \/ /\ matrix' = NoMatrix(IF matrix.mem = "null" THEN "null" ELSE "freed")
          /\ hosts' = Empty /\ piIndex' = Empty /\ indexPi' = Empty
          /\ bnum' = 0 /\ totalD' = 0 /\ totalS' = 0
          /\ okNext' = TRUE
          /\ StrayWrite(h)
          /\ UNCHANGED status

\* mutant: the gap is closed in front of it, too
StartAfterAll(h, g) == hosts[g].start - hosts[h].num

\* mutant: the hosts behind the gap are forgotten
StartAfterStays(h, g) == hosts[g].start

\* mutant: a host is taken to have one interface
IndexAfterOne(h, first, p) ==
    IF piIndex[p] > piIndex[first] THEN piIndex[p] - 1 ELSE piIndex[p]

(* Where the rows of host g start, and the row of an interface p that      *)
(* stays, once the rows of h are out; first is host_pis[0].                *)
StartAfter(h, g) ==
    IF hosts[g].start > hosts[h].start THEN hosts[g].start - hosts[h].num ELSE hosts[g].start

IndexAfter(h, first, p) ==
    IF piIndex[p] > piIndex[first] THEN piIndex[p] - hosts[h].num ELSE piIndex[p]

(* The branch for a host that leaves others behind.  pis.erase(end()) of   *)
(* an interface that is not there frees memory that is not the heap's.     *)
RemoveRows(h, first, s) ==
    LET rec == hosts[h]
        len == rec.num
        d == totalD - rec.dd
        sup == totalS - rec.ds
        index == [p \in Mapped \ Own(h) |-> IndexAfter(h, first, p)]
    IN /\ bnum - len > 0
       /\ IF ~ Own(h) \subseteq Mapped
          THEN Crash("badAccess")
          ELSE /\ matrix' = Cut(DegAfterCancel(h, s), rec.start, len)
               /\ bnum' = bnum - len
               /\ totalD' = d /\ totalS' = sup
               /\ hosts' = [g \in Registered \ {h} |->
                     Entry(hosts[g].dd, hosts[g].ds, hosts[g].num, StartAfter(h, g), d, sup)]
               /\ piIndex' = index
               /\ indexPi' = [i \in {index[p] : p \in DOMAIN index} |->
                                CHOOSE p \in DOMAIN index : index[p] = i]
               /\ StrayWrite(h)
               /\ UNCHANGED <<okNext, status>>

UnRegisterRequest(h) ==
    /\ h \in Registered
    /\ \/ Unlinked(h) # {} /\ Crash("badAccess")
       \/ ClearAll(h)
       \/ \E first \in Own(h) :
             \E s \in IF Unlinked(h) = {} THEN {-1} ELSE 0 .. matrix.dim - 1 :
                RemoveRows(h, first, s)
       \/ ConnectFails({h})

-----------------------------------------------------------------------------
(* The clients.  A simulator holds its own mutex over the two calls of a   *)
(* join (DynamicLoadBalancing, DynamicCalculation) and of an update        *)
(* (DynamicUpdate); it also reports its injections when it is told a new   *)
(* share (DynamicCoordinatedLoadUpdate).  The cancel comes from the GUI,   *)
(* on a connection of its own, whatever the simulator is doing.            *)
Running == status = "running"

\* the exchange of h is now at the given point, if the coordinator still answers
Reaches(h, point) ==
    sim' = IF status' = "running" THEN [sim EXCEPT ![h] = point] ELSE sim

JoinLoad(h, load) ==
    /\ Running /\ sim[h] \in {"idle", "member"}
    /\ LoadUpdate(h, load)
    /\ Reaches(h, "joining")

JoinCoordinate(h) ==
    /\ Running /\ sim[h] = "joining" /\ bnum + Num[h] <= MaxRows
    /\ Coordinate(h)
    /\ Reaches(h, "member")

UpdateLoad(h, load) ==
    /\ Running /\ sim[h] = "member"
    /\ LoadUpdate(h, load)
    /\ Reaches(h, "updating")

UpdateInjection(h) ==
    /\ Running /\ sim[h] \in {"member", "updating"}
    /\ CoordinateUpdate(h)
    /\ Reaches(h, "member")

Cancel(h) ==
    /\ Running
    /\ UnRegisterRequest(h)
    /\ UNCHANGED sim

Init ==
    /\ hosts = Empty
    /\ bnum = 0
    /\ matrix = NoMatrix("null")
    /\ piIndex = Empty
    /\ indexPi = Empty
    /\ totalD = 0
    /\ totalS = 0
    /\ okNext = TRUE
    /\ status = "running"
    /\ stray = 0
    /\ sim = [h \in Host |-> "idle"]

Next ==
    \E h \in Host :
        \/ \E load \in Load : JoinLoad(h, load) \/ UpdateLoad(h, load)
        \/ JoinCoordinate(h)
        \/ UpdateInjection(h)
        \/ Cancel(h)

Spec == Init /\ [][Next]_vars

-----------------------------------------------------------------------------
Amount == Int \X Int
HostRecord == [dd : Nat, ds : Nat, num : Nat, start : Nat,
               share : [flag : {0, 1}, demands : Amount, supplies : Amount]]

RegistryTypeOK ==
    /\ Registered \subseteq Host /\ hosts \in [Registered -> HostRecord]
    /\ bnum \in Nat
    /\ DOMAIN matrix = {"mem", "dim", "adj", "deg", "inj"}
    /\ matrix.mem \in {"null", "live", "freed"}
    /\ matrix.dim \in Nat
    /\ matrix.adj \subseteq SUBSET (0 .. matrix.dim - 1)
    /\ matrix.deg \in [0 .. matrix.dim - 1 -> Int]
    /\ matrix.inj \in [0 .. matrix.dim - 1 -> Host \cup {NoHost}]
    /\ Mapped \subseteq Pi /\ piIndex \in [Mapped -> Nat]
    /\ DOMAIN indexPi \subseteq Nat /\ indexPi \in [DOMAIN indexPi -> Pi]
    /\ totalD \in Int /\ totalS \in Int
    /\ okNext \in BOOLEAN
    /\ stray \in 0 .. MaxStray

(* The types of the coordinator's members and of the clients' state.       *)
TypeOK ==
    /\ RegistryTypeOK
    /\ status \in {"running", "exited", "badAccess", "doubleFree"}
    /\ sim \in [Host -> {"idle", "joining", "member", "updating"}]

(* The matrix has exactly the rows boundary_nodes_number_ counts, so no    *)
(* handler copies from, or solves with, a matrix of another size           *)
(* (Coordinate, UnRegisterRequest).                                        *)
MatrixSized == /\ matrix.dim = bnum
               /\ bnum > 0 => matrix.mem = "live"

(* Two interfaces never share a row, and the reverse map leads back, over  *)
(* every sequence of joins, repeated joins and cancels.                    *)
IndexOneToOne ==
    /\ \A p \in Mapped : /\ piIndex[p] < bnum
                         /\ piIndex[p] \in DOMAIN indexPi
                         /\ indexPi[piIndex[p]] = p
    /\ \A p, q \in Mapped : piIndex[p] = piIndex[q] => p = q

(* The rows a host's start_index_ and boundary_node_num_ point at hold its *)
(* own interfaces in its own order: the voltages Coordinate and            *)
(* CoordinateUpdate send it are its own.                                   *)
OwnVoltages ==
    \A h \in Registered : hosts[h].num > 0 =>
        /\ hosts[h].num = Num[h]
        /\ \A r \in 0 .. Num[h] - 1 :
              /\ <<h, r>> \in Mapped
              /\ piIndex[<<h, r>>] = hosts[h].start + r
              /\ hosts[h].start + r \in DOMAIN indexPi
              /\ indexPi[hosts[h].start + r] = <<h, r>>

(* A cancel takes one host out of the registry, the one that cancels       *)
(* (coordinator.cpp:646: what goes is "the corresponding part for the      *)
(* disconnected instance").                                                *)
CancelRemovesOneHost ==
    [][\A g, h \in Registered : g \notin Registered' /\ h \notin Registered' => g = h]_vars

(* No run of UnRegisterRequest frees what an earlier one has freed         *)
(* (coordinator.cpp:721, "if freed, then double free crash").              *)
NoDoubleFree == status # "doubleFree"
=============================================================================
