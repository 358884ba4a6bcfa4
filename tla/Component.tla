----------------------------- MODULE Component -----------------------------
(***************************************************************************)
(* One connected component of a simulator (powersimulation/                *)
(* connected_component.cpp): the numbering of its switch interfaces, the   *)
(* matrices and vectors that are laid out by it, and what happens to them  *)
(* when the component is joined to others through the coordinator.         *)
(*                                                                         *)
(* A matrix is modelled by the interface each of its rows or columns is    *)
(* about, the vector I by the interface of each entry and by whether       *)
(* boundary terms are still subtracted from it; that is all one needs to   *)
(* say which product of which matrices means something.  The handlers run  *)
(* one at a time under the simulator's mutex; the storage monitor's call   *)
(* of Update does not take the mutex, and each of its steps may fall       *)
(* between two steps of a handler.  (One storage is taken to be past its   *)
(* bound at a time, and a renumbering swap and the balancing of the loads  *)
(* to be one step.)  A component with at most one switch interface has no  *)
(* matrices, and is not modelled.                                          *)
(***************************************************************************)
EXTENDS Integers, Sequences, FiniteSets

CONSTANTS
    PI,            \* the switch interfaces of the component
    SwitchPi,      \* switch_pi
    Pos,           \* place of an interface in connected_component
    Server,        \* locations of the nodes
    Linked,        \* pairs of interfaces with an entry in A
    Lines,         \* trans_power_line: the linked pairs of different nodes
    Fed,           \* interfaces with an appliance next to them
    Connection,    \* dynamic connections
    Local,         \* local_pi of each
    Messages,      \* what a DynamicConnectionInfo may bring: sequences
    MaxConnections \* bound on dynamic_connections

Index == 0 .. SwitchPi - 1

ASSUME ComponentAssumption ==
    /\ SwitchPi \in Nat /\ SwitchPi > 1
    /\ Pos \in [PI -> Nat]
    /\ Local \in [Connection -> PI]
    /\ Messages \subseteq Seq(Connection)
    /\ MaxConnections \in Nat
    /\ Lines \subseteq Linked /\ Fed \subseteq PI

VARIABLES
    place,       \* location of each interface's node
    num,         \* pi_index_mapping
    at,          \* index_pi_mapping
    blocks,      \* numbering of the servers' blocks and of the matrix N
    rowA, colA,  \* interface of each row and column of A
    colB,        \* interface of each column of B
    inj,         \* I: interface of each entry, and if it is cut
    ainv,        \* numbering A_inv was computed for
    facs,        \* A1_inv, A1B and AB1_A1_inv: what they were computed for
    boundary,    \* boundary_set
    conns,       \* dynamic_connections
    dynamic,     \* is_dynamic_
    doing,       \* the handler that runs, and where it is
    monitor,     \* Update of the storage monitor: its row, the interface read
    sent,        \* the last message to the coordinator
    lines,       \* how the currents of the lines were last computed
    status,      \* "running", or how the process ended
    restored,    \* restore has been called
    joined,      \* history: the messages of the joins since then
    raced        \* history: renumbered while the monitor was about to write

layout == <<num, at, rowA, colA, colB>>
links == <<boundary, conns, dynamic>>
unlocked == <<monitor, raced>>
vars == <<place, blocks, layout, inj, ainv, facs, links, doing, sent, lines, status, restored, joined, unlocked>>

Idle == doing.step = "idle" /\ status = "running"

k == Len(boundary)

NoFacs == [state |-> "null", order |-> <<>>, size |-> 0]

Swap(f, i, j) == [f EXCEPT ![i] = f[j], ![j] = f[i]]

-----------------------------------------------------------------------------
(* simulate: the interfaces are numbered server by server, the servers in  *)
(* the order in which they are met in connected_component.                 *)
Earlier(a, b) ==
    \E p \in PI : place[p] = a /\ \A q \in PI : place[q] = b => Pos[p] < Pos[q]

Before(p, q) ==
    \/ Earlier(place[p], place[q])
    \/ place[p] = place[q] /\ Pos[p] < Pos[q]

Numbering(g) ==
    /\ \A p \in PI : \E i \in Index : g[i] = p
    /\ \A i, j \in Index : i < j => Before(g[i], g[j])

(* edging_power_line: with lines between servers the component is solved   *)
(* by the slaves.                                                          *)
IsDistributed == \E l \in Lines : place[l[1]] # place[l[2]]

(* Every entry of I that has an appliance next to it is set again from the *)
(* appliances' currents; the others keep what they hold.                   *)
Injected == [i \in Index |-> 
                IF at[i] \in Fed THEN [of |-> at[i], cut |-> FALSE] ELSE inj[i]]

Of(v) == [i \in Index |-> v[i].of]
CutOf(v) == {v[i].of : i \in {j \in 0 .. SwitchPi - k - 1 : v[j].cut}}

(* A product of an inverse laid out by one numbering with I and B.         *)
Fits(order, v) == order = Of(v) /\ order = colB

Numbers(g) == [p \in PI |-> CHOOSE i \in Index : g[i] = p]

Simulate ==
    /\ status = "running" /\ doing.step = "start"
    /\ \E g \in [Index -> PI] :
          /\ Numbering(g)
          /\ at' = g
          /\ num' = Numbers(g)
          /\ rowA' = g /\ colA' = g /\ colB' = g /\ ainv' = g /\ blocks' = g
          /\ inj' = [i \in Index |-> [of |-> g[i], cut |-> FALSE]]
    /\ doing' = [step |-> "idle", i |-> 0]
    /\ lines' = IF Lines = {} THEN lines ELSE [by |-> "simulate", fits |-> TRUE]
    /\ UNCHANGED <<place, facs, links, sent, status, restored, joined, unlocked>>

-----------------------------------------------------------------------------
(* Update: balance the loads, set I, solve with A_inv or with the slaves.  *)
Solved(by, order, v) ==
    lines' = IF Lines = {} THEN lines ELSE [by |-> by, fits |-> Fits(order, v)]

\* A_inv is of the numbering it was computed with; the slaves have blocks
LocalUpdate(by, v) == ~ IsDistributed /\ Solved(by, ainv, v)
DistributedUpdate(by, v) == IsDistributed /\ Solved(by, blocks, v)

Update ==
    /\ Idle /\ ~ dynamic
    /\ inj' = Injected
    /\ LocalUpdate("update", Injected) \/ DistributedUpdate("update", Injected)
    /\ UNCHANGED <<place, blocks, layout, ainv, facs, links, doing, sent, status, restored, joined, unlocked>>

(* storage_monitor calls Update whatever the handlers are doing, and       *)
(* whether or not the component is dynamic.  For each row it looks up the  *)
(* interface, adds up the currents next to it and writes the entry of I.   *)
MonitorOff == [row |-> -1, of |-> {}]

MonitorRuns == status = "running" /\ doing.step # "start"

MonitorBegin ==
    /\ MonitorRuns /\ monitor = MonitorOff
    /\ monitor' = [row |-> 0, of |-> {}]
    /\ UNCHANGED <<place, blocks, layout, inj, ainv, facs, links, doing, sent, lines, status, restored, joined, raced>>

MonitorRead ==
    /\ MonitorRuns /\ monitor.row \in Index /\ monitor.of = {}
    /\ monitor' = [monitor EXCEPT !.of = {at[monitor.row]}]
    /\ UNCHANGED <<place, blocks, layout, inj, ainv, facs, links, doing, sent, lines, status, restored, joined, raced>>

MonitorWrite ==
    /\ MonitorRuns
    /\ \E p \in monitor.of :
          inj' = IF p \in Fed THEN [inj EXCEPT ![monitor.row] = [of |-> p, cut |-> FALSE]]
                 ELSE inj
    /\ monitor' = [row |-> monitor.row + 1, of |-> {}]
    /\ UNCHANGED <<place, blocks, layout, ainv, facs, links, doing, sent, lines, status, restored, joined, raced>>

MonitorSolve ==
    /\ MonitorRuns /\ monitor.row = SwitchPi
    /\ LocalUpdate("monitor", inj) \/ DistributedUpdate("monitor", inj)
    /\ monitor' = MonitorOff
    /\ UNCHANGED <<place, blocks, layout, inj, ainv, facs, links, doing, sent, status, restored, joined, raced>>

MonitorUpdate == MonitorBegin \/ MonitorRead \/ MonitorWrite \/ MonitorSolve

-----------------------------------------------------------------------------
(* A DynamicConnectionInfo: AddDynamicConnection puts every connection in  *)
(* front; DynamicSimulate balances the loads and sets I.                   *)
Reversed(s) == [i \in 1 .. Len(s) |-> s[Len(s) + 1 - i]]

DynamicSimulate(m) ==
    /\ Idle
    /\ m # <<>> /\ Len(m) + Len(conns) <= MaxConnections
    /\ conns' = Reversed(m) \o conns
    /\ dynamic' = TRUE
    /\ inj' = Injected
    /\ doing' = [step |-> "reconstruct", i |-> 1]
    /\ joined' = joined \cup {m}
    /\ UNCHANGED <<place, blocks, layout, ainv, facs, boundary, sent, lines, status, restored, unlocked>>

\* mutant: B keeps its columns
SwapPlacesNotB(p, i, j) ==
    /\ boundary' = <<p>> \o boundary
    /\ at' = Swap(at, i, j)
    /\ num' = [num EXCEPT ![p] = j, ![at[j]] = i]
    /\ inj' = Swap(inj, i, j)
    /\ rowA' = Swap(rowA, i, j) /\ colA' = Swap(colA, i, j)
    /\ UNCHANGED colB

(* The interface p at i becomes the first of the boundary, at j.           *)
SwapPlaces(p, i, j) ==
    /\ boundary' = <<p>> \o boundary
    /\ at' = Swap(at, i, j)
    /\ num' = [num EXCEPT ![p] = j, ![at[j]] = i]
    /\ inj' = Swap(inj, i, j)
    /\ rowA' = Swap(rowA, i, j) /\ colA' = Swap(colA, i, j) /\ colB' = Swap(colB, i, j)

InBoundary(p) == \E i \in 1 .. k : boundary[i] = p

(* One turn of the loop of DynamicReconstruct.  B has one column when the  *)
(* component has no line, and gsl_matrix_swap_columns stops the process.   *)
DynamicReconstruct ==
    /\ status = "running" /\ doing.step = "reconstruct"
    /\ doing.i <= Len(conns)
    /\ LET p == Local[conns[doing.i]]
       IN \/ /\ InBoundary(p)
             /\ UNCHANGED <<layout, inj, boundary, status, raced>>
          \/ /\ ~ InBoundary(p) /\ Lines # {}
             /\ SwapPlaces(p, num[p], SwitchPi - k - 1)
             /\ raced' = (raced \/ monitor.of # {})
             /\ UNCHANGED status
          \/ /\ ~ InBoundary(p) /\ Lines = {}
             /\ status' = "gslError"
             /\ UNCHANGED <<layout, inj, boundary, raced>>
    /\ doing' = [doing EXCEPT !.i = @ + 1]
    /\ UNCHANGED <<place, blocks, ainv, facs, conns, dynamic, sent, lines, restored, joined, monitor>>

\* mutant: the boundary is read in the order of the connections
PairsSameOrder == [i \in 1 .. k |-> <<boundary[i], conns[i]>>]

(* The message names for boundary_set[i] the remote end of                 *)
(* dynamic_connections[size - 1 - i].                                      *)
Pairs == [i \in 1 .. k |-> <<boundary[i], conns[k + 1 - i]>>]

\* mutant: matrices that are there already are kept
FactorsKept ==
    facs' = IF facs.state = "live" THEN facs
            ELSE [state |-> "live", order |-> rowA, size |-> k]

(* A1_inv, A1B and AB1_A1_inv of the rows and columns before the boundary. *)
Factors == facs' = [state |-> "live", order |-> rowA, size |-> k]

(* DynamicCalculation up to its message to the coordinator.  The matrices  *)
(* of the last call are freed if the pointers are not NULL.                *)
SendInfo ==
    /\ status = "running" /\ doing.step = "reconstruct"
    /\ doing.i > Len(conns)
    /\ \/ /\ facs.state # "freed" /\ k < SwitchPi
          /\ Factors
          /\ sent' = [kind |-> "info", pairs |-> Pairs, cut |-> CutOf(inj)]
          /\ doing' = [step |-> "answer", i |-> 0]
          /\ UNCHANGED status
       \/ /\ facs.state = "freed" \/ k >= SwitchPi
          /\ status' = IF facs.state = "freed" THEN "doubleFree" ELSE "gslError"
          /\ UNCHANGED <<facs, sent, doing>>
    /\ UNCHANGED <<place, blocks, layout, inj, ainv, links, lines, restored, joined, unlocked>>

(* A1B * VB: the entries before the boundary whose interface is linked to  *)
(* an interface of the boundary.                                           *)
Touched(i) ==
    i < SwitchPi - k /\ \E b \in 1 .. k : {<<at[i], boundary[b]>>, <<boundary[b], at[i]>>} \cap Linked # {}

(* The rest of DynamicCalculation, with the coordinator's voltages.  I1 is *)
(* a view: the subtraction changes I itself.                               *)
ReceiveVoltages ==
    /\ status = "running" /\ doing.step = "answer"
    /\ inj' = [i \in Index |-> IF Touched(i) THEN [inj[i] EXCEPT !.cut = TRUE] ELSE inj[i]]
    /\ lines' = [by |-> "join", fits |-> Fits(facs.order, inj)]
    /\ doing' = [step |-> "idle", i |-> 0]
    /\ UNCHANGED <<place, blocks, layout, ainv, facs, links, sent, status, restored, joined, unlocked>>

-----------------------------------------------------------------------------
(* Set I and send AB1_A1_inv * I1 to the coordinator.                      *)
SendUpdate ==
    /\ inj' = Injected
    /\ IF facs.state = "live" /\ facs.size = k /\ k > 0
       THEN /\ sent' = [kind |-> "update", pairs |-> <<>>, cut |-> CutOf(Injected)]
            /\ UNCHANGED status
       ELSE /\ status' = "badAccess"
            /\ UNCHANGED sent
    /\ UNCHANGED <<place, blocks, layout, ainv, facs, links, doing, lines, restored, joined, unlocked>>

(* An update by a daemon while the component is dynamic, and a push of the *)
(* coordinator's shares.  The push goes to Cs[0], which need not be the    *)
(* component that has joined (power_simulator.cpp:621): it may come before *)
(* a join, after a return, or without either.                              *)
DynamicUpdate == Idle /\ dynamic /\ SendUpdate

DynamicCoordinatedLoadUpdate == Idle /\ SendUpdate

(* A push of voltages, to Cs[0] too: solve again with a copy of I.         *)
DynamicCoordinatedBoundaryUpdate ==
    /\ Idle /\ k > 0
    /\ IF facs.state = "live" /\ facs.size = k
       THEN /\ lines' = [by |-> "push", fits |-> Fits(facs.order, inj)]
            /\ UNCHANGED status
       ELSE /\ status' = "badAccess"
            /\ UNCHANGED lines
    /\ UNCHANGED <<place, blocks, layout, inj, ainv, facs, links, doing, sent, restored, joined, unlocked>>

-----------------------------------------------------------------------------
\* mutant: A_inv of the numbering before the join
ReturnSimulateOldInverse ==
    /\ inj' = Injected
    /\ UNCHANGED ainv
    /\ Solved("return", ainv, Injected)

(* ReturnSimulate: as Update, with A_inv computed again from A.            *)
ReturnSimulate ==
    /\ inj' = Injected
    /\ ainv' = rowA
    /\ Solved("return", rowA, Injected)

(* restore: the connections, the boundary and the matrices go; the         *)
(* pointers to the matrices stay.                                          *)
Restore ==
    /\ Idle /\ dynamic
    /\ boundary' = <<>> /\ conns' = <<>> /\ dynamic' = FALSE
    /\ restored' = TRUE /\ joined' = {}
    /\ IF facs.state = "live"
       THEN /\ facs' = [facs EXCEPT !.state = "freed"]
            /\ UNCHANGED status
       ELSE /\ status' = "doubleFree"
            /\ UNCHANGED facs
    /\ ReturnSimulate
    /\ UNCHANGED <<place, blocks, layout, doing, sent, unlocked>>

-----------------------------------------------------------------------------
Init ==
    /\ place \in [PI -> Server]
    /\ \A l \in Linked \ Lines : place[l[1]] = place[l[2]]
    /\ num = [p \in PI |-> 0] /\ at = <<>> /\ blocks = <<>>
    /\ rowA = <<>> /\ colA = <<>> /\ colB = <<>> /\ inj = <<>> /\ ainv = <<>>
    /\ facs = NoFacs
    /\ boundary = <<>> /\ conns = <<>> /\ dynamic = FALSE
    /\ doing = [step |-> "start", i |-> 0]
    /\ sent = [kind |-> "none", pairs |-> <<>>, cut |-> {}]
    /\ lines = [by |-> "none", fits |-> TRUE]
    /\ status = "running" /\ restored = FALSE /\ joined = {}
    /\ monitor = MonitorOff /\ raced = FALSE

Next ==
    \/ Simulate \/ Update \/ MonitorUpdate
    \/ \E m \in Messages : DynamicSimulate(m)
    \/ DynamicReconstruct \/ SendInfo \/ ReceiveVoltages
    \/ DynamicUpdate \/ DynamicCoordinatedLoadUpdate \/ DynamicCoordinatedBoundaryUpdate

(* The calls main.cpp makes: its comparison with the notice never matches, *)
(* so restore is not among them.                                           *)
Spec == Init /\ [][Next]_vars

(* The class with every call it offers.                                    *)
FullSpec == Init /\ [][Next \/ Restore]_vars

-----------------------------------------------------------------------------
Permuted == doing.step # "start"

TypeOK ==
    /\ place \in [PI -> Server]
    /\ num \in [PI -> Index]
    /\ Permuted => /\ {at, rowA, colA, colB, ainv, blocks} \subseteq [Index -> PI]
                   /\ inj \in [Index -> [of : PI, cut : BOOLEAN]]
    /\ boundary \in Seq(PI) /\ conns \in Seq(Connection)
    /\ dynamic \in BOOLEAN /\ restored \in BOOLEAN
    /\ doing \in [step : {"start", "idle", "reconstruct", "answer"}, i : Nat]
    /\ facs.state \in {"null", "live", "freed"}
    /\ status \in {"running", "gslError", "doubleFree", "badAccess"}
    /\ monitor \in [row : -1 .. SwitchPi, of : SUBSET PI] /\ raced \in BOOLEAN

(* The two maps are inverse to each other, whatever joins come.            *)
MapsInverse ==
    Permuted => /\ \A p \in PI : at[num[p]] = p
                /\ \A i \in Index : num[at[i]] = i

(* A, B and I are laid out by the maps: I as long as the monitor has not   *)
(* written the currents of one interface to the row of another.            *)
LaidOutAlike ==
    Permuted => rowA = at /\ colA = at /\ colB = at /\ (raced \/ Of(inj) = at)

(* The boundary has the last numbers, in the order of boundary_set: the    *)
(* submatrices A1 and A1B, and the voltages of the coordinator's answer,   *)
(* are taken by these places.                                              *)
BoundaryLast ==
    Permuted => k <= SwitchPi /\ \A i \in 1 .. k : at[SwitchPi - k - 1 + i] = boundary[i]

(* DynamicReconstruct renumbers two maps, a matrix twice, another matrix   *)
(* and a vector in place; they never get out of step.                      *)
NumberingSound == MapsInverse /\ LaidOutAlike /\ BoundaryLast

(* Whenever a push or an update may use them, the matrices of the last     *)
(* join are of the present numbering and boundary.                         *)
FactorsFit ==
    Idle /\ facs.state = "live" => facs.order = at /\ facs.size = k

(* The currents of the lines come from matrices and a vector of one        *)
(* numbering.  The exceptions: I after the monitor has raced with a        *)
(* renumbering, the storage monitor that solves with the A_inv of before   *)
(* the join, and the slaves that keep the blocks of before the join when a *)
(* component returns from it.                                              *)
LinesFit ==
    \/ lines.fits \/ raced
    \/ lines.by = "monitor"
    \/ lines.by = "update" /\ IsDistributed /\ restored

(* The coordinator is told the right remote end of every boundary          *)
(* interface, as long as each join brings the same connections.            *)
MessagePaired ==
    doing.step = "answer" /\ Cardinality(joined) = 1 =>
        \A i \in DOMAIN sent.pairs : Local[sent.pairs[i][2]] = sent.pairs[i][1]

(* As long as the component is joined, no sequence of joins, pushes and    *)
(* updates makes a call with matrices that do not fit, are freed or are    *)
(* not there, until restore leaves the pointers.  (A push that reaches a   *)
(* component which has not joined stops the simulator.)                    *)
JoinedNeverStops == status # "running" => restored \/ ~ dynamic

(* After load balancing the vector I for all power interfaces should be    *)
(* updated (power_simulator.cpp:496).                                      *)
InjectionIsLoad == sent.kind = "update" => sent.cut = {}
=============================================================================
