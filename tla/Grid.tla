-------------------------------- MODULE Grid --------------------------------
(***************************************************************************)
(* A session of the simulator (powersimulation/power_simulator.cpp): its   *)
(* nodes and power lines, the connected components found by depth-first    *)
(* search, the balancing of each, the handlers of updates, and the storage *)
(* monitor (thread_functions.cpp), a thread of its own.                    *)
(*                                                                         *)
(* Handlers exclude each other by the mutex of main.cpp.  The monitor      *)
(* takes no mutex: it reads a storage's mode, energy and current, writes   *)
(* them back, looks its component up and calls Update, while a handler may *)
(* be between any two of its steps.                                        *)
(***************************************************************************)
EXTENDS Balance, Sequences, SequencesExt

CONSTANTS
    Appliance,   \* the appliances, each with one interface
    Role,        \* role of each
    Switch,      \* the switches
    Interfaces,  \* numbers of the interfaces of each switch, from 1 .. 6
    LocalPis,    \* interfaces that a join names; they need not exist
    PowerLines,  \* the lines: pairs of interfaces
    Flags,       \* values of power_interface_flag
    Values,      \* desired currents of each
    Parts,       \* shares that the coordinator answers or pushes
    Energies,    \* energies that a session may start with
    Capacity,    \* capacity of a storage, in what one interval may charge
    MaxDrift,    \* bound on an energy that nothing stops
    MaxCs        \* bound on the length of Cs


\* an interface is its node and its number
PowerInterfaces == (Appliance \X {0}) \cup UNION {{s} \X Interfaces[s] : s \in Switch}

Desires == {f \in [Appliance -> UNION {Values[a] : a \in Appliance}] :
              \A a \in Appliance : f[a] \in Values[a]}

ASSUME GridAssumption ==
    /\ Capacity \in Nat /\ MaxDrift \in Nat /\ MaxCs \in Nat
    /\ IsFiniteSet(Appliance) /\ Values \in [Appliance -> SUBSET Int]
    /\ Parts \subseteq Amounts /\ Energies \subseteq Int
    /\ PowerLines \subseteq PowerInterfaces \X PowerInterfaces

Storage == {a \in Appliance : Role[a] = "Storage"}
Modes == {"charging", "discharging", "standing"}

\* Scale is a multiple of every total: divisions are exact
ASSUME ScaleAssumption ==
    /\ Scale \in Nat
    /\ \A which \in {"supply", "demand"} :
          LET may == {a \in Appliance : \E md \in Modes : Side(Role[a], md) = which}
          IN \A S \in SUBSET may, f \in Desires :
                /\ Total(S, f) > 0 => Scale % Total(S, f) = 0
                /\ Total(S, f) < 0 => Scale % (- Total(S, f)) = 0

\* what the coordinator told a component, or nothing
Share(enough, part) == [told |-> TRUE, enough |-> enough, part |-> part]
NoShare == [told |-> FALSE, enough |-> FALSE, part |-> 0]

VARIABLES
    flag,       \* power_interface_flag of each switch
    adj,        \* adj_list
    comps,      \* connected_components
    cs,         \* Cs: the component objects, with the totals they keep
    desired,    \* desired_current
    mode,       \* operation_mode of each storage
    cur,        \* current
    stored,     \* e_stored of each storage
    h,          \* the handler that has the mutex
    m,          \* the storage monitor
    status,     \* "running", or how the process ended
    raced,      \* history: the monitor and a handler were at work together
    lawful      \* history: no energy out of range at first, nothing negative since

vars == <<flag, adj, comps, cs, desired, mode, cur, stored, h, m, status, raced, lawful>>

Idle == [step |-> "idle", i |-> 0, of |-> {}, green |-> {}, enough |-> FALSE, part |-> 0,
         supplies |-> 0, demands |-> 0, share |-> NoShare]

\* at a step of a handler, for the component of an index
At(step, i, c) == [Idle EXCEPT !.step = step, !.i = i, !.of = c]

-----------------------------------------------------------------------------
(* The bits of a flag, one for every pair of interfaces 1 to 6.            *)
Bits == << <<1, 2>>, <<1, 3>>, <<1, 4>>, <<1, 5>>, <<1, 6>>, <<2, 3>>, <<2, 4>>, <<2, 5>>,
           <<2, 6>>, <<3, 4>>, <<3, 5>>, <<3, 6>>, <<4, 5>>, <<4, 6>>, <<5, 6>> >>

IsConnected(f, i, j) ==
    \E b \in DOMAIN Bits : /\ Bits[b] \in {<<i, j>>, <<j, i>>}
                           /\ (f \div 2 ^ (b - 1)) % 2 = 1

PiNeighbors(f, p) ==
    {q \in PowerInterfaces : /\ p[1] \in Switch /\ q[1] = p[1] /\ q # p
                             /\ IsConnected(f[p[1]], p[2], q[2])}

OtherPeer(p) == {q \in PowerInterfaces : <<p, q>> \in PowerLines \/ <<q, p>> \in PowerLines}

Edges(f) ==
    {e \in PowerInterfaces \X PowerInterfaces : e[2] \in PiNeighbors(f, e[1]) \cup OtherPeer(e[1])}

(* create_adj_list: the entries are added to the ones adj_list has.        *)
CreateAdjList == adj \cup Edges(flag)

(* find_component: the first one that has the interface, -1 for none.      *)
FindComponent(p) ==
    LET found == {i \in DOMAIN comps : p \in comps[i]}
    IN IF found = {} THEN -1 ELSE CHOOSE i \in found : \A j \in found : i <= j

-----------------------------------------------------------------------------
AppliancesIn(c) == {a \in Appliance : <<a, 0>> \in c}

SideOf == [a \in Appliance |-> Side(Role[a], IF a \in Storage THEN mode[a] ELSE "standing")]

DesiredSupplies(c) == Total(On(AppliancesIn(c), SideOf, "supply"), desired)
DesiredDemands(c) == Total(On(AppliancesIn(c), SideOf, "demand"), desired)

\* load_balancing, first loop: the totals, and the smaller of them
LocalTotals(c) ==
    LET s == DesiredSupplies(c)
        d == DesiredDemands(c)
    IN [enough |-> s >= d, part |-> IF s >= d THEN d ELSE s, supplies |-> s, demands |-> d]

(* load_balancing, second loop: the sides are read again.                  *)
Assign(c, t) ==
    [a \in Appliance |->
        IF a \in AppliancesIn(c)
        THEN Assigned(a, SideOf, desired, t.enough, t.part, t.supplies, t.demands)
        ELSE cur[a]]

Balancing(c, t, i, step, share) ==
    [step |-> step, i |-> i, of |-> c, green |-> {}, enough |-> t.enough, part |-> t.part,
     supplies |-> t.supplies, demands |-> t.demands, share |-> share]

HandlerFree == status = "running" /\ h.step = "idle"

\* given allowed, an input that is not negative
Receives(allowed) ==
    /\ raced' = (raced \/ m.step \notin {"unborn", "asleep"})
    /\ lawful' = (lawful /\ allowed)

Overlaps == Receives(TRUE)

-----------------------------------------------------------------------------
(* update, for an appliance: its desired current (cut to its maximum), or  *)
(* a storage's mode; then DynamicUpdate or Update of its component.        *)
UpdateOf(a) ==
    LET i == FindComponent(<<a, 0>>)
    IN IF i \in DOMAIN cs
       THEN /\ h' = At(IF cs[i].dynamic THEN "ask" ELSE "total", i, cs[i].of)
            /\ UNCHANGED status
       ELSE /\ status' = "badAccess"
            /\ UNCHANGED h

UpdateAppliance(a, v) ==
    /\ HandlerFree
    /\ desired' = [desired EXCEPT ![a] = v]
    /\ UpdateOf(a)
    /\ Receives(v >= 0)
    /\ UNCHANGED <<flag, adj, comps, cs, mode, cur, stored, m>>

UpdateStorage(a, md) ==
    /\ HandlerFree
    /\ mode' = [mode EXCEPT ![a] = md]
    /\ UpdateOf(a)
    /\ Overlaps
    /\ UNCHANGED <<flag, adj, comps, cs, desired, cur, stored, m>>

\* mutant: adj_list is not cleared
ClearNotAdj(s, f) ==
    /\ flag' = [flag EXCEPT ![s] = f]
    /\ comps' = <<>> /\ cs' = <<>>
    /\ UNCHANGED adj

(* A new flag: the components are forgotten and deleted.                   *)
Clear(s, f) ==
    /\ flag' = [flag EXCEPT ![s] = f]
    /\ comps' = <<>> /\ cs' = <<>> /\ adj' = {}

UpdateSwitch(s, f) ==
    /\ HandlerFree
    /\ \/ /\ f # flag[s]
          /\ Clear(s, f)
          /\ h' = At("rebuild", 0, {})
          /\ m' = [m EXCEPT !.lost = m.step \in {"total", "assign"}]
       \/ /\ f = flag[s] /\ Len(cs) + Len(comps) <= MaxCs
          /\ h' = At("simulate", 1, {})
          /\ UNCHANGED <<flag, adj, comps, cs, m>>
    /\ Overlaps
    /\ UNCHANGED <<desired, mode, cur, stored, status>>

(* create_adj_list; without a neighbour anywhere there is no search.       *)
Rebuild ==
    /\ status = "running" /\ h.step = "rebuild"
    /\ adj' = CreateAdjList
    /\ h' = IF adj' = {} THEN At("simulate", 1, {}) ELSE At("search", 0, {})
    /\ Overlaps
    /\ UNCHANGED <<flag, comps, cs, desired, mode, cur, stored, m, status>>

(* find_connected_components and dfs_visit, one interface after the other. *)
(* h.of are the grey and black interfaces of the present search, which are *)
(* told apart only after it; those of the components found are green.      *)
White == PowerInterfaces \ (h.of \cup h.green)

ToVisit == {p \in White : h.of = {} \/ \E q \in h.of : <<q, p>> \in adj}

DfsVisit ==
    /\ status = "running" /\ h.step = "search" /\ ToVisit # {}
    /\ h' = [h EXCEPT !.of = @ \cup {CHOOSE p \in ToVisit : TRUE}]
    /\ Overlaps
    /\ UNCHANGED <<flag, adj, comps, cs, desired, mode, cur, stored, m, status>>

(* No white neighbour is left: the component is appended to those there    *)
(* are.                                                                    *)
FindConnectedComponents ==
    /\ status = "running" /\ h.step = "search" /\ ToVisit = {}
    /\ comps' = IF h.of = {} THEN comps ELSE Append(comps, h.of)
    /\ h' = IF White = {} THEN At("simulate", 1, {})
                          ELSE [h EXCEPT !.of = {}, !.green = @ \cup h.of]
    /\ Overlaps
    /\ UNCHANGED <<flag, adj, cs, desired, mode, cur, stored, m, status>>

(* simulate: for every component a new object, which balances the loads    *)
(* and is appended to Cs.                                                  *)
Simulate ==
    /\ status = "running" /\ h.step = "simulate"
    /\ h' = IF h.i > Len(comps) THEN Idle
            ELSE Balancing(comps[h.i], LocalTotals(comps[h.i]), h.i, "append", NoShare)
    /\ Overlaps
    /\ UNCHANGED <<flag, adj, comps, cs, desired, mode, cur, stored, m, status>>

\* the constructor
ConnectedComponent(c) ==
    [of |-> c, dynamic |-> FALSE, share |-> NoShare, supplies |-> 0, demands |-> 0, stale |-> FALSE]

\* mutant: the objects are appended in front
AppendFront(c) == cs' = <<ConnectedComponent(c)>> \o cs

(* An object for c that is there already stays, but what its appliances    *)
(* carry is no longer what the coordinator said.                           *)
PushBack(c) ==
    LET forget(o) == IF o.of = c THEN [o EXCEPT !.share = NoShare] ELSE o
    IN cs' = Append([j \in DOMAIN cs |-> forget(cs[j])], ConnectedComponent(c))

SimulateAppend ==
    /\ status = "running" /\ h.step = "append"
    /\ cur' = Assign(h.of, h)
    /\ PushBack(h.of)
    /\ h' = At("simulate", h.i + 1, {})
    /\ Overlaps
    /\ UNCHANGED <<flag, adj, comps, desired, mode, stored, m, status>>

(* Update: totals, then currents.                                          *)
UpdateTotals ==
    /\ status = "running" /\ h.step = "total"
    /\ h' = Balancing(h.of, LocalTotals(h.of), h.i, "assign", NoShare)
    /\ Overlaps
    /\ UNCHANGED <<flag, adj, comps, cs, desired, mode, cur, stored, m, status>>

(* DynamicLoadBalancing: the totals go to the coordinator, which answers   *)
(* what is scarce and the component's share of the other side.  The object *)
(* keeps the totals.                                                       *)
AskCoordinator(enough, part) ==
    /\ status = "running" /\ h.step = "ask"
    /\ h' = Balancing(h.of,
                      [enough |-> enough, part |-> part, supplies |-> DesiredSupplies(h.of),
                       demands |-> DesiredDemands(h.of)],
                      h.i, "assign", Share(enough, part))
    /\ cs' = [cs EXCEPT ![h.i] = [@ EXCEPT !.supplies = DesiredSupplies(h.of),
                                          !.demands = DesiredDemands(h.of), !.stale = FALSE]]
    /\ Receives(Sign(part) >= 0)
    /\ UNCHANGED <<flag, adj, comps, desired, mode, cur, stored, m, status>>

UpdateCurrents ==
    /\ status = "running" /\ h.step = "assign"
    /\ cur' = Assign(h.of, h)
    /\ cs' = [cs EXCEPT ![h.i].share = h.share]
    /\ h' = Idle
    /\ Overlaps
    /\ UNCHANGED <<flag, adj, comps, desired, mode, stored, m, status>>

(* DynamicCoordinatedLoadUpdate: what the coordinator pushes is for the    *)
(* first object, and its loads are assigned by the totals that it keeps,   *)
(* of when it last asked.  An object that has not joined has none of the   *)
(* matrices that come next, and the process ends.                          *)
DynamicCoordinatedLoadUpdate(enough, part) ==
    /\ HandlerFree
    /\ IF cs = <<>>
       THEN /\ status' = "badAccess"
            /\ UNCHANGED <<cs, cur>>
       ELSE /\ cur' = Assign(cs[1].of, [enough |-> enough, part |-> part,
                                        supplies |-> cs[1].supplies, demands |-> cs[1].demands])
            /\ cs' = [cs EXCEPT ![1].share = Share(enough, part)]
            /\ status' = IF cs[1].dynamic THEN status ELSE "notJoined"
    /\ Receives(Sign(part) >= 0)
    /\ UNCHANGED <<flag, adj, comps, desired, mode, stored, h, m>>

(* DynamicConnectedSimulation: the component of local_pi becomes dynamic.  *)
(* For an interface that does not exist the index is -1.                   *)
DynamicConnectedSimulation(p) ==
    /\ HandlerFree
    /\ LET i == FindComponent(p)
       IN IF i \in DOMAIN cs
          THEN /\ cs' = [cs EXCEPT ![i].dynamic = TRUE]
               /\ h' = At("ask", i, cs[i].of)
               /\ UNCHANGED status
          ELSE /\ status' = IF p \in PowerInterfaces THEN "badAccess" ELSE "noInterface"
               /\ UNCHANGED <<cs, h>>
    /\ Overlaps
    /\ UNCHANGED <<flag, adj, comps, desired, mode, cur, stored, m>>

-----------------------------------------------------------------------------
(* The storage monitor, one storage at a time.                             *)
Asleep == [step |-> "asleep", b |-> 0, mode |-> "standing", e |-> 0, by |-> 0, of |-> {}, i |-> 0,
           totals |-> Idle, lost |-> FALSE]

MonitorOverlaps == raced' = (raced \/ h.step # "idle") /\ UNCHANGED lawful

AncillaryThreadsStart ==
    /\ HandlerFree /\ m.step = "unborn"
    /\ m' = Asleep
    /\ UNCHANGED <<flag, adj, comps, cs, desired, mode, cur, stored, h, status, raced, lawful>>

\* the monitor tests one end of the range only, and a negative current goes for the other
Drifts(b) ==
    /\ Sign(cur[b]) < 0 /\ stored[b] \in Int
    /\ IF mode[b] = "charging" THEN stored[b] <= - MaxDrift ELSE stored[b] >= MaxDrift

\* op_mode, e_stored, current of the node
MonitorRead(b) ==
    /\ status = "running" /\ m.step = "asleep"
    /\ mode[b] # "standing" /\ ~ Drifts(b)
    /\ m' = [Asleep EXCEPT !.step = "read", !.b = b, !.mode = mode[b], !.e = stored[b], !.by = cur[b]]
    /\ MonitorOverlaps
    /\ UNCHANGED <<flag, adj, comps, cs, desired, mode, cur, stored, h, status>>

(* Energy after the interval, in which a current of any size moves one     *)
(* unit, or an infinity.                                                   *)
After ==
    LET by == IF m.by \in Int THEN Sign(m.by) ELSE m.by
    IN Plus(m.e, IF m.mode = "charging" THEN by ELSE Negated(by))

Above(e, limit) == e = Infinity \/ (e \in Int /\ e > limit)

\* mutant: only a full storage is noticed
IsPastFull == m.mode = "charging" /\ Above(After, Capacity)

(* One end for each mode.                                                  *)
IsPast == IF m.mode = "charging" THEN Above(After, Capacity) ELSE Above(Negated(After), 0)

\* mutant: a storage that is full or empty is not put on stand-by
MonitorWriteGoesOn ==
    /\ status = "running" /\ m.step = "read"
    /\ stored' = [stored EXCEPT ![m.b] = IF ~ IsPast THEN After
                                         ELSE IF m.mode = "charging" THEN Capacity ELSE 0]
    /\ m' = Asleep
    /\ MonitorOverlaps
    /\ UNCHANGED <<flag, adj, comps, cs, desired, mode, cur, h, status>>

(* The mode of a storage that is full or empty changes, and with it the    *)
(* totals of its component, but not the ones that the object keeps.        *)
MonitorWrite ==
    /\ status = "running" /\ m.step = "read"
    /\ \/ /\ ~ IsPast
          /\ stored' = [stored EXCEPT ![m.b] = After]
          /\ m' = Asleep
          /\ UNCHANGED <<mode, cs, status>>
       \/ /\ IsPast
          /\ stored' = [stored EXCEPT ![m.b] = IF m.mode = "charging" THEN Capacity ELSE 0]
          /\ mode' = [mode EXCEPT ![m.b] = "standing"]
          /\ LET i == FindComponent(<<m.b, 0>>)
             IN IF i \in DOMAIN cs
                THEN /\ m' = [m EXCEPT !.step = "total", !.of = cs[i].of, !.i = i]
                     /\ cs' = [cs EXCEPT ![i].stale = TRUE]
                     /\ UNCHANGED status
                ELSE /\ status' = "badAccess"
                     /\ UNCHANGED <<m, cs>>
    /\ MonitorOverlaps
    /\ UNCHANGED <<flag, adj, comps, desired, cur, h>>

\* Update of the component, which a handler may have deleted
MonitorTotals ==
    /\ status = "running" /\ m.step = "total"
    /\ IF m.lost
       THEN /\ status' = "badAccess"
            /\ UNCHANGED m
       ELSE /\ m' = [m EXCEPT !.step = "assign",
                              !.totals = Balancing(m.of, LocalTotals(m.of), m.i, "assign", NoShare)]
            /\ UNCHANGED status
    /\ MonitorOverlaps
    /\ UNCHANGED <<flag, adj, comps, cs, desired, mode, cur, stored, h>>

MonitorCurrents ==
    /\ status = "running" /\ m.step = "assign"
    /\ IF m.lost
       THEN /\ status' = "badAccess"
            /\ UNCHANGED <<m, cs, cur>>
       ELSE /\ cur' = Assign(m.of, m.totals)
            /\ cs' = [cs EXCEPT ![m.i].share = NoShare]
            /\ m' = Asleep
            /\ UNCHANGED status
    /\ MonitorOverlaps
    /\ UNCHANGED <<flag, adj, comps, desired, mode, stored, h>>

-----------------------------------------------------------------------------
(* parse, up to its call of simulate.                                      *)
Init ==
    /\ flag \in [Switch -> Flags]
    /\ adj = {} /\ comps = <<>> /\ cs = <<>>
    /\ desired \in Desires
    /\ mode \in [Storage -> Modes]
    /\ cur = [a \in Appliance |-> 0]
    /\ stored \in [Storage -> Energies]
    /\ h = At("rebuild", 0, {})
    /\ m = [Asleep EXCEPT !.step = "unborn"]
    /\ status = "running" /\ raced = FALSE
    /\ lawful = /\ \A b \in Storage : stored[b] \in 0 .. Capacity
                /\ \A a \in Appliance : desired[a] >= 0

MonitorNext ==
    \/ \E b \in Storage : MonitorRead(b)
    \/ MonitorWrite \/ MonitorTotals \/ MonitorCurrents

Started == m.step # "unborn"

Next ==
    \/ AncillaryThreadsStart \/ MonitorNext
    \/ Started /\ \E a \in Appliance : \E v \in Values[a] : UpdateAppliance(a, v)
    \/ Started /\ \E a \in Storage, md \in Modes : UpdateStorage(a, md)
    \/ Started /\ \E s \in Switch, f \in Flags : UpdateSwitch(s, f)
    \/ Started /\ \E p \in LocalPis : DynamicConnectedSimulation(p)
    \/ Started /\ \E enough \in BOOLEAN, part \in Parts : DynamicCoordinatedLoadUpdate(enough, part)
    \/ Rebuild \/ DfsVisit \/ FindConnectedComponents \/ Simulate \/ SimulateAppend
    \/ UpdateTotals \/ UpdateCurrents
    \/ \E enough \in BOOLEAN, part \in Parts : AskCoordinator(enough, part)

(* The monitor sleeps for a fixed time and is scheduled.                   *)
Spec == Init /\ [][Next]_vars /\ WF_vars(MonitorNext)

-----------------------------------------------------------------------------
TypeOK ==
    /\ flag \in [Switch -> Flags]
    /\ adj \subseteq PowerInterfaces \X PowerInterfaces
    /\ \A i \in DOMAIN comps : comps[i] \subseteq PowerInterfaces
    /\ \A i \in DOMAIN cs : cs[i].of \subseteq PowerInterfaces /\ cs[i].dynamic \in BOOLEAN
    /\ desired \in Desires
    /\ mode \in [Storage -> Modes]
    /\ \A a \in Appliance : cur[a] \in Amounts
    /\ \A b \in Storage : stored[b] \in Amounts
    /\ status \in {"running", "badAccess", "noInterface", "notJoined"}

AtRest == HandlerFree /\ Started

(* The components of the topology as the flags have it: the smallest sets  *)
(* of interfaces that no edge leaves.                                      *)
Closed(S, f) == \A e \in Edges(f) : e[1] \in S => e[2] \in S

Components ==
    [f \in [Switch -> Flags] |->
        LET closed == {S \in SUBSET PowerInterfaces : S # {} /\ Closed(S, f)}
        IN {C \in closed : \A D \in closed : D \subseteq C => D = C}]

(* Between updates connected_components are the components, each of them   *)
(* once, through every sequence of switch updates.                         *)
ComponentsArePartition == AtRest => ToSet(comps) = Components[flag] /\ IsInjective(comps)

(* Handlers take the index of a component in connected_components for its  *)
(* index in Cs: Cs never gets out of step, also after the update of a      *)
(* switch to the flag it has, which appends every component once more, and *)
(* no component is used that is not there, unless the monitor is at work   *)
(* during the update of a switch.                                          *)
CsInStep ==
    /\ AtRest => Len(cs) >= Len(comps) /\ \A i \in DOMAIN comps : cs[i].of = comps[i]
    /\ status = "badAccess" => raced

(* The appliances of one side carry so much together.                      *)
Carry(c, which, amount) ==
    LET S == On(AppliancesIn(c), SideOf, which)
    IN (\A a \in S : cur[a] \in Int) /\ Total(S, cur) = Scale * amount

(* What a component's appliances supply is what they use, as much as the   *)
(* scarcer side desires; a component that was told a share uses or         *)
(* supplies that share.  Where the total to divide by is not nothing.      *)
BalancedAt(c, share) ==
    LET s == DesiredSupplies(c)
        d == DesiredDemands(c)
        scarce == IF s >= d THEN d ELSE s
    IN IF ~ share.told
       THEN (IF s >= d THEN s ELSE d) # 0 => Carry(c, "supply", scarce) /\ Carry(c, "demand", scarce)
       ELSE share.part \in Int =>
                IF share.enough THEN s # 0 => Carry(c, "supply", share.part)
                                ELSE d # 0 => Carry(c, "demand", share.part)

(* Between updates every component is balanced, by itself or as it was     *)
(* told in answer or in a push, while no balancing of the monitor was      *)
(* mixed with one of a handler.  What is pushed is not shared out right    *)
(* after the monitor stopped a storage of the component, until it asks the *)
(* next time.                                                              *)
SupplyMeetsDemand ==
    AtRest /\ ~ raced /\ m.step \in {"asleep", "read"} =>
        \A i \in DOMAIN comps :
            ~ (cs[i].stale /\ cs[i].share.told) => BalancedAt(comps[i], cs[i].share)

(* A storage never holds less than nothing or more than its capacity,      *)
(* however updates, pushes, balancing and the monitor are interleaved, as  *)
(* long as it starts within them and no desire or share is negative; a     *)
(* current that is not a number makes its energy one that is not.          *)
EnergyInRange ==
    lawful => \A b \in Storage : stored[b] = NaN \/ stored[b] \in 0 .. Capacity

(* A storage that goes on charging with a current is stopped by the        *)
(* monitor.                                                                *)
Charges(b) == Started /\ mode[b] = "charging" /\ Sign(cur[b]) > 0
StorageStops ==
    \A b \in Storage : Charges(b) ~> (~ Charges(b) \/ status # "running" \/ stored[b] \notin Int)
=============================================================================
