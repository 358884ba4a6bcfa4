# A TLA+ model of SmartGridLab (ScorePlus)

SmartGridLab couples an emulated communication network (a GUI built into the
CORE emulator) with simulated power grids. Several hosts can join their grids
into one *joint emulation*: a coordinator balances their loads and solves for
the voltages at the boundaries between them. This directory holds TLA+ modules
of that system, TLC configurations that check them, and proofs.

File references are to the repository, `file:line`. The names of operators are
those of the C++ functions and Tcl procedures wherever there is one.

## 1. The system

### Processes and how they talk

| process | port | source | started by |
|---|---|---|---|
| coordinator | 9017 | `coordinator/` | hand, on one of the hosts |
| power simulator | 9009 | `powersimulation/` | hand, on every host |
| power slave | 10000 | `powerslave/` | hand, on helper machines |
| GUI | 9010 (results), 9011 (handshake) | `scoreplusgui/emulator.tcl` | user |

Every message is a TCP connection of its own. The coordinator and the
simulator accept in a loop and start a detached thread for each connection; the
thread reads the whole message and dispatches on its first line. The power slave
serves one connection after the other. Requests that want an answer
(`exec_on_server`) get it on the same connection; everything else is one-way. A
refused connection is `exit(1)` nearly everywhere.

A joint emulation goes like this.

1. Two GUIs agree on a line between their grids (port 9011) and on a coordinator.
2. Each GUI sends `CoordinatingRequest:` to the coordinator
   (`SendCoordinatingRequest`). The handler puts it in a queue.
3. A request thread (`process_request`) polls the flag `is_ok_next`. When it is
   set, the thread clears it, waits for a request and sends the host's simulator
   `DynamicConnectionInfo:`.
4. The simulator, under its mutex, sends `Desired demands and supplies:`
   (`LoadUpdate`) and then `coordinating info:` (`Coordinate`). The first
   computes the shares of all hosts and pushes them to the others, the second
   enlarges the matrix, solves it, pushes voltages and sets `is_ok_next`.
5. Every later change of a load sends `LoadUpdate` and then `coordinating info
   updated:` (`CoordinateUpdate`). A pushed share makes the receiver report its
   injections with `CoordinateUpdate`, too.
6. `CancelRequest:` from a GUI (`SendCancelRequest`) takes the host out
   (`UnRegisterRequest`).

### Components

Each paragraph gives a component's state, its operations, what is hard about it
and what makes it correct; the line after it, what is modelled.

**Coordinator registry** (`coordinator/coordinator.cpp`, `coordinator.h`,
`host.h`). State: the map of hosts, the totals of desired demands and supplies,
the matrix YBB with vectors IB and VB, the maps between interfaces and rows.
Operations: `LoadUpdate`, `Coordinate`, `CoordinateUpdate`,
`UnRegisterRequest`, under one mutex. Hard: the same facts are kept in five
structures that change incrementally; rows are cut out of the middle; memory is
freed by hand; a join is two calls between which anything may happen.
Correct if: rows, maps and hosts agree; the matrix is the topology; shares
balance; memory is not used after it is freed.
*Modelled: `Coordinator`, `OrderlyCoordinator`.*

**Coordinator request gate** (`threads_functions.cpp`, `concurrent_queue.h`,
`RegisterRequest`). State: the queue, `is_ok_next`, where the thread is. Hard:
the flag is written by three threads under no common lock; a shut gate opens
only if somebody finishes. Correct if: one host joins at a time; everybody gets
in; no order of cancels shuts it for ever, but for a simulator lost over the
session that the notice of a cancel deleted.
*Modelled: `Admission`, `Turnstile`.*

**Accept loop** (`coordinator/main.cpp`, `powersimulation/main.cpp`). State: the
descriptor table, the variable `newsockfd`, the threads. Hard: the address of
the variable is the thread's argument. Correct if: one thread serves one
session; every client is served; descriptors do not leak, but those of clients
that send nothing and of a session's shutdown, which are never closed.
*Modelled: `AcceptLoop`.*

**Simulator session dispatcher** (`powersimulation/main.cpp`,
`power_simulator.h`, `forwarder.h`, `broker.cpp`). State: the pointer `pre`, the
broker, the mutex. Hard: handlers that replace the session do not take the
mutex; some test `pre` for NULL, some do not; batch mode is the branch of every
unknown message; the destructor cancels threads that may hold the mutex.
Correct if: updates exclude each other; no handler uses a deleted session; no
session is lost; the mutex comes free.
*Modelled: `Session`.*

**Connected component** (`connected_component.cpp`). State: the numbering of the
interfaces, the matrices A and B, the vector I, the boundary set, the inverses.
Operations: `simulate`, `Update`, `Dynamic*`, `restore`, `ReturnSimulate`. Hard:
`DynamicReconstruct` renumbers in place; results computed for one numbering are
used under another; the storage monitor calls in without the mutex. Correct if:
map, inverse and rows are permuted alike; what is multiplied fits together;
the coordinator is told which interface is joined to which.
*Modelled: `Component`, `Balance`. Components with at most one switch interface,
which have no matrices, are not.*

**Topology** (`power_simulator.cpp`, `node.h`). State: nodes, lines, adjacency,
components and their objects `Cs`, desired and assigned currents, the totals
that an object keeps. Hard: an index of one list is used in the other; a switch
update deletes and rebuilds all of them; a push is shared out by totals from
before. Correct if: components are the connected components, `Cs` is in step,
loads are balanced.
*Modelled: `Grid`.*

**Ancillary threads** (`thread_functions.cpp`). `real_time_report` sends state to
the GUI, `storage_monitor` integrates the charge of storages and stops them,
`testbed_monitor` polls the nodes of a testbed. Hard: they share the node map
with the handlers, two of them without a lock. Correct if: a storage stays
within its capacity, for lawful input, and is stopped.
*Modelled: the storage monitor in `Grid`, the life of all three in `Session`.*

**Power slave** (`powerslave/`). State: `pre` and in it I, I_x and inverses.
Hard: an update relies on what earlier messages left behind, and there is one
`pre` for all masters. Correct if: a slave is asked only what it can answer, and
every voltage comes from the component's own matrices.
*Modelled: `PowerSlave`, with the master's loops of `DistributedCalculation` and
`Update`.*

**Joint emulation as a whole.** Handlers of several simulators and of the
coordinator, with two kinds of mutex and messages that cross. Correct if: nobody
waits for ever; in the end all hold the last shares and voltages.
*Modelled: `Exchange`.*

**Transport** (`util.cpp`, `util_c.cpp`). Packets, the `$$$$` sentinel, the end
of the stream. Hard: TCP does not keep the boundaries of packets. Correct if: a
handler gets the whole request, and nobody waits for ever.
*Modelled: `Transport`.*

**GUI procedures** (`emulator.tcl`). Flags of the dynamic connection, the
handshake, session start and shutdown.
*Partly modelled: requests and cancels in `Admission`, the session requests in
`Session`, the way they are sent in `Transport`; not the dialogs on port 9011.*

**Forwarder and broker** (`forwarder.cpp`, `broker.cpp`). A testbed session
passes the simulator's messages to the nodes of a lab.
*Partly modelled: its life, its monitor and the broker in `Session`.*

**The CORE GUI** the project is built into.
*Not modelled.*

## 2. The modules

| module | what it is | extends |
|---|---|---|
| `Coordinator` | the registry, its handlers and the clients that call them | |
| `OrderlyCoordinator` | the same handlers, one exchange at a time | `Coordinator` |
| `Admission` | requests, cancels, queue, gate thread, on top of the registry | `Coordinator` |
| `Turnstile` | what queue and gate promise (abstract) | |
| `AcceptLoop` | accept, thread creation, descriptors | |
| `Exchange` | coordinator and simulators as a distributed system: mutexes, pushed messages, who has which share and voltage | |
| `Session` | dispatcher, handler threads, session threads, cancellation | |
| `Component` | numbering and matrices of one component through joins and returns | |
| `Balance` | load balancing, as operators | |
| `Grid` | nodes, lines, components, balancing handlers, storage monitor | `Balance` |
| `PowerSlave` | distributed components and the slaves they share | |
| `Transport` | one request and its answer over a connection | |
| `CoordinatorProofs` | theorems about the registry, in any order and one exchange at a time, and about its gate | `OrderlyCoordinator`, `Admission` |
| `AcceptLoopProofs`, `ExchangeProofs`, `SessionProofs`, `ComponentProofs`, `GridProofs`, `PowerSlaveProofs`, `TransportProofs` | theorems | the module of that name |
| `MCCoordinator`, `MCOrderly`, `MCAdmission`, `MCExchange`, `MCSession`, `MCComponent`, `MCGrid`, `MCPowerSlave`, `MCTransport` | constants for TLC | |

The modules meet where the components do. `Coordinator` has what the
coordinator computes and takes each handler as one step; `Exchange` has the
order of those handlers among several simulators and forgets what they compute.
`Grid` has the answer of `LoadUpdate` as any share; `Component` the answers of
`Coordinate` as a step of its own. `Session` has which handlers may run at the
same time; `Grid` and `Component` take the exclusion from it, and leave out what
it shows to be excluded.

### Coordinator

| code | model |
|---|---|
| `hosts` | `hosts`, a function over the registered hosts; a record holds desired load, number of rows, first row, assigned share |
| `boundary_nodes_number_` | `bnum` |
| YBB, IB, VB | `matrix`: `mem` (NULL, live, freed), `dim`, `adj` (pairs of rows with an entry), `deg` (lines counted on the diagonal), `inj` (whose injection is in a row of IB) |
| `pi_index_mapping_`, `pis` | `piIndex` (both have the same keys) |
| `index_pi_mapping_` | `indexPi` |
| `total_desired_*` | `totalD`, `totalS` |
| `is_ok_next` | `okNext` |
| process exit, crash | `status` |
| the exchange a simulator is in | `sim` |

A handler runs under `mutexsum` from its first read to its last write, so it is
one action. `LoadUpdate(h, load)`, `Coordinate(h)`, `CoordinateUpdate(h)` and
`UnRegisterRequest(h)` are the handlers; `JoinLoad`, `JoinCoordinate`,
`UpdateLoad`, `UpdateInjection`, `Cancel` say when a client calls them.
A handler that cannot reach a simulator ends the process (`ConnectFails`), at
any of its sends. Its partial effect is not kept: the process is gone and
nothing of it is stored.

The code uses memory in three unsafe ways, and each is a choice in the model.
A freed matrix may be freed again (`ClearAll`: the process aborts or goes on).
The size of IB may be read through NULL or a freed pointer
(`CoordinateUpdate`). The row of a neighbour may be read through `end()`
(`UnRegisterRequest`: a crash, or any row number `s`, the same for all the
neighbours of one call because the word behind the map's header does not
change). A write outside the matrix stops in GSL's range check.

Left out: what the numbers in the matrix are (the conductances a component adds
to its diagonal, deltaX, the voltages), because no branch of the coordinator
depends on them except `det != 0`, after which only numbers differ.

### Admission

`connected` is the GUI's `isDynamicConnected`, `inbox` the messages whose
handler thread has not run (a set: threads run in any order), `queue` the
requests, `thread` the point where `process_request` is, `told` the messages on
their way to a simulator. `ReadGate` and `ShutGate` are two steps, because the
flag is read and written without the mutex. A request of a GUI in which no
connection is drawn names no host (`NoHost`); its dispatch follows NULL.

A cancelled host's simulator is sent a notice. `SocketHandler` compares its line
with one that ends in `\r\n` (`powersimulation/main.cpp:283`) although getline has
taken the `\n` away, so the line goes on to batch mode, which deletes the session,
finds no file of that name and leaves `pre` pointing at it (293-303). `notices`
are those under way, `session` what `pre` points at: `live`, `deleted`, or `gone`
with the process. `Unregistered` serves one; a join that uses the deleted session
goes on with what is in the memory (`BeginJoin`, `EndJoin`) or ends the simulator
(`JoinCrashes`), and a second notice deletes it again. A host that was told to join
and whose simulator ended never calls `Coordinate` (`LostOnTheWay`), and the gate
stays shut; the others are `OnTheWay`. The coordinator ends when it cannot reach a
simulator that is gone (`ServeCancel`, `Dispatch`).

`StayingSpec` is the system without cancels; `AdmissionSpec` has cancels at any
moment and leaves the members' updates out, which do not touch the gate.

### AcceptLoop

`newsockfd` is the variable of `main`, `table` the kernel's descriptor table,
`fd` each thread's copy. `Accept` takes the lowest free descriptor, as the
kernel does, and finds none when `MaxFd` are open. `Unclosed` are the connections
whose descriptor the handler may never close: those without a first line, or with
a failed read (the `close` of `coordinator/main.cpp:154` is inside the `if` of 112),
and those that shut an existing session down (`powersimulation/main.cpp:240-249`).
`Exhausted` is the process all of whose descriptors went that way. `Settled`
describes clients that arrive one by one.

### Exchange

`sim[h]` is the handler that has the simulator's mutex and how far it is: waiting
for the coordinator (`load`), waiting for the answer of a `LoadUpdate` that
sleeps (`sleep`), about to report injections (`inject`). `master` is the
coordinator's mutex. A share or voltage is the number of the calculation it came
from. `inbox[h]` holds the messages pushed to h; each has a thread of its own,
and threads take the simulator's mutex in any order (`Take(h, i)` for any i).
`CoordinateUpdate` sends a host with k rows k messages, each with one row more
than the one before, so the first k - 1 are incomplete.

Two histories name conditions the properties need. `overlap`: an update of one
host began before another's was over. Then a host that waits with its own update
can be sent the other's older share and apply it after its newer one, and stays
with it. `inOrder`: handlers took the mutex in the order of the messages.
`LoadUpdate` answers after `sleep(2)`, a step of its own (`Reply`). If it did
wait for the results of the others, as the comment at `coordinator.cpp:140` has
it, with the mutex they need, nothing would go on.

### Session

| code | model |
|---|---|
| `pre`, deleted or not | `pre` (a number; 0 is NULL), `live` |
| the class of `*pre` | `kind` |
| `parse` and `simulate` are through | `built` |
| `mutexsum` | `mutex` |
| `real_time_report`, `storage_monitor`, `testbed_monitor` of a session | `worker` |
| a `SocketHandler` thread | `handler[t]`: step, request, session it works on |

Only what is under the mutex or reads and writes nothing shared is one step.
Deleting `pre`, making a session, building it and starting its threads are four
(`CreateDelete`, `CreateNew`, `CreateBuild`, `CreateStart`). A cancelled thread
that sleeps is gone; another one goes on to its next cancellation point
(`Doomed`), and may find its session deleted before. A testbed monitor cancelled
between lock and unlock takes the mutex with it. A batch message of one word has
no name for the output file; the string made of NULL ends the process
(`BatchOneWord`).

`Rules` says what an orderly client does (a request that makes or ends a session
is alone; requests whose handlers do not test `pre` come while there is a
session that is ready), and the history `orderly` that all clients did. The GUI
has no lock that would ensure it; the rules are stated so that one can see what
the dispatcher relies on.

### Component and Balance

A matrix is modelled by the interface each row and column is about, because all
that can go wrong with in-place renumbering is that two of them disagree.

| code | model |
|---|---|
| `pi_index_mapping`, `index_pi_mapping` | `num`, `at` |
| A, B | `rowA`, `colA`; `colB` |
| I | `inj`: interface of each entry, and `cut` if A1B * VB is still subtracted |
| `A_inv` | `ainv`: the numbering it was computed for |
| `A1_inv`, `A1B`, `AB1_A1_inv` | `facs`: NULL, live or freed, numbering and size of the boundary |
| `boundary_set`, `dynamic_connections` | `boundary`, `conns` |
| what the slaves keep | `blocks`: the numbering they were sent |
| the monitor's `Update` | `monitor`: the row it is at, the interface it has read |

A join is `DynamicSimulate`, a step for every turn of the loop of
`DynamicReconstruct`, `SendInfo` and `ReceiveVoltages` (the two halves of
`DynamicCalculation`), because the monitor's `Update`, which takes no mutex, can
fall between them: it begins, reads and writes row by row and solves
(`MonitorBegin`, `MonitorRead`, `MonitorWrite`, `MonitorSolve`; `MonitorUpdate` is
any of these). If `DynamicReconstruct` swaps rows between a read and its write, the
current of one interface lands in the row of another; `raced` is the history of
that. The coordinator's pushes go to `Cs[0]`, whichever component has joined
(`power_simulator.cpp:621`), so `DynamicCoordinatedLoadUpdate` and
`DynamicCoordinatedBoundaryUpdate` are possible for a component that has not
joined or has returned; it has no matrices then, and `status` says how the process
ended. `restore` with `ReturnSimulate` is a step of `FullSpec` only: the notice
that should lead to it is compared with a string that ends in a newline getline
has removed (`main.cpp:283`), so the program never calls it.

`Balance` has `load_balancing` in units of 1/`Scale`. Desires are integers of
either sign, since nothing checks what `atof` returns. `Scale` is a multiple of
every total, so the divisions are exact; a division by zero gives `NaN`, `Infinity`
or `MinusInfinity`, as doubles do.

### Grid

`flag` has the bit mask of each switch, decoded as the code does; `adj`, `comps`
and `cs` are `adj_list`, `connected_components` and `Cs`. A handler `h` does its
work in steps: totals, then currents; for a switch, `Clear`, `Rebuild`, the
search, then one component after the other. The search goes on by one interface
at a time (`DfsVisit`) and appends a component when no white neighbour is left
(`FindConnectedComponents`); in `h`, `of` are the grey and black interfaces,
`green` those of the components found. The recursion keeps grey and black apart,
but only asks what is white, so the order in which the neighbours are taken, here
any fixed one, does not matter. The storage monitor `m` reads mode, energy and
current, writes energy and mode, and calls `Update`, between any of the handler's
steps. `simulate` appends to
`Cs` also when the flag did not change. `raced` is a history: monitor and handler
were at work together. `lost` marks a monitor whose component object was
deleted in the middle of its `Update`.

An object of `Cs` is a record: `of`, the interfaces of its component; `dynamic`;
`supplies` and `demands`, the totals it sent when it last asked the coordinator
(`DynamicLoadBalancing`, here `AskCoordinator`); `share`, what it was last told;
`stale`, whether the monitor has since stopped one of its storages, which changes
the totals but not those kept. `DynamicCoordinatedLoadUpdate` is the push: it is for
`Cs[0]`, whose currents it assigns by the kept totals, and if that component has not
joined the process ends (`notJoined`). An interface that a join names and that does
not exist gives the index -1 (`power_simulator.cpp:652`), and the process ends, too
(`noInterface`).

`parse` reads energies and currents without a check, so a session may start with an
energy outside its range and an update may bring a negative current; the coordinator
computes a negative share from such. `lawful` is the history of neither. `IsPast`
tests the one end that the code tests for the mode (`thread_functions.cpp:123, 138`).
In `After` the energy goes by one unit an interval, whatever the current is.
`restore` is not in `Grid`, because it is never reached.

### PowerSlave

`slave[s]` is the object `pre` of a slave: the component it belongs to, its size,
I, I_x and which phases were done. `calc[c]` is the master's loop: phase, kind
(whole or update), the slave it is at. `Sent` leaves out zeros as the code does;
`StartIndex` is `servers_start_index`, the running sum of the blocks; no block is
empty, because a server is only listed with an interface
(`connected_component.cpp:99`). `Count` has one row less for the server with the
reference interface. A slave
that cannot serve a request (`CanFirst`, `CanSecond`, ...) ends; others may end
at any time and be started again. `heard` is `masterIpPre`: a slave called from an
address (`Home`) other than the last one, and not through the loopback
(`Loopback`), is called by a new master, of which it tells the simulator of its own
server; if that does not run, the slave ends before it has read the request
(`NoSimulator`, `powerslave/main.cpp:96`).

### Transport

Bytes are their places in the request. `Receive` takes a packet of any size the
network may deliver, looks for the sentinel at the places `receive_data` looks
at, drops a packet that would fill the buffer. A packet shorter than the places
it looks at makes it read before the array, and either outcome is possible
(`luck`).

## 3. What TLC checks

All runs end with CHECK_DEADLOCK FALSE: processes may exit, a joint emulation
may be over, the bounds stop behaviours. What must go on is stated as liveness.

| configuration | question | properties |
|---|---|---|
| `MCCoordinator` | do the structures agree, whatever the clients do? | `TypeOK`, `MatrixSized`, `IndexOneToOne`, `OwnVoltages` |
| `MCOrderly` | does the registry describe the present hosts when exchanges do not overlap? | `RowsAreJoinedHosts`, `MatrixIsTopology`, `InjectionInOwnRow`, `SharesBalance`, `OneUnsafeAccess` |
| `MCStaying` | do queue and gate let hosts in one by one, and all of them? | `OpenGateMeansIdle`, `TurnstileSpec`, `Admitted` |
| `MCAdmission` | can cancels leave the gate shut for ever? | `ShutGateMeansJoining` |
| `MCSpaced` | are well-spaced clients served? | `OneThreadOneSession`, `NoLeak`, `EveryoneServed` |
| `MCExchange` | does an update settle, and does nobody wait for ever? | `SharesAgree`, `VoltagesSettle`, `ComesToRest` |
| `MCSession` | which sessions does the dispatcher use? | `UpdatesExclude`, `OrderlyIsSafe`, `NoLostSession`, `MutexComesFree` |
| `MCComponent` | does what is multiplied fit together? | `NumberingSound`, `FactorsFit`, `LinesFit`, `MessagePaired`, `JoinedNeverStops` |
| `MCGrid` | are components, loads and storages right between and during updates? | `ComponentsArePartition`, `CsInStep`, `SupplyMeetsDemand`, `EnergyInRange`, `StorageStops` |
| `MCPowerSlave` | does a component get all its voltages? | `AloneIsServed`, `VoltagesComplete`, `OnlyZerosStale`, `CalculationEnds` |
| `MCTransport` | does a request arrive whole? | `StringEnds`, `RequestWhole`, `ConversationEnds` |

Several of these hold only with an exception, which the property names and the
comment above it explains: the exception is what the code really does. Without
it TLC finds the behaviour. So the runs also show that

- the notice of a cancel can cost the host's simulator, and with it the joins of
  all others (`LostOnTheWay` in `ShutGateMeansJoining`);
- connections that send nothing, and shutdowns, use the process's descriptors up
  (`NoLeak`, `Exhausted` in `EveryoneServed`);
- a component that has come back from a join and is distributed solves with the
  blocks of before (`LinesFit`), one that joins again after it frees its
  matrices twice, and a push that reaches a component which has not joined stops
  the simulator (`JoinedNeverStops` is about components that have, before the first
  return);
- a monitor that writes while a join renumbers leaves a current in a wrong row
  (`raced` in `NumberingSound` and `LinesFit`);
- connections that come in different messages are paired wrongly with the
  boundary (`MessagePaired` holds only while each join brings the same ones);
- a storage monitor that stops a storage while a handler rebuilds the components
  can use one that is gone (`CsInStep`), and a monitor's balancing mixed with a handler's
  does not balance (`SupplyMeetsDemand`);
- a push after the monitor has stopped a storage is shared out by the totals from
  before, without any race, and the sum is not the share (`stale` in
  `SupplyMeetsDemand`);
- an energy that starts out of range stays there and a negative current takes one
  out (`lawful` in `EnergyInRange`);
- two components of different simulators on one slave, or a restarted slave,
  break a calculation (`Alone` in `PowerSlave`), and so does a slave beside which
  no simulator runs when the component first asks it (`AloneIsServed`);
- zeros are not sent, so a slave goes on with what was there before
  (`OnlyZerosStale`);
- a GUI that asks and whose last packet is shorter than the sentinel waits for a
  server that waits for it (`Split` in `Transport`).

`TypeOK` is a run's invariant for the registry only. Those of `Session`,
`Component`, `Grid`, `PowerSlave` and `Exchange`, and `AdmissionTypeOK`, can be
added to the configurations with INVARIANT. The types of all of these are
proved, as `TypeCorrect` or as a part of the inductive invariant.

### What the code does not do

`MCStaleInjection` is the run that shows a disagreement: DynamicCalculation
subtracts A1B * VB from a view of I, so an update after a join sends the
coordinator injections from which old voltages are still subtracted
(`InjectionIsLoad`, against the comment at `power_simulator.cpp:496`).

Further configurations each check one sentence of the repository, and TLC finds
a behaviour of the code that contradicts it. They are not among the runs of
PROJECT.json; its findings name them.

| configuration | module | property | behaviour |
|---|---|---|---|
| `MCClearsAll` | `MCCoordinator` | `CancelRemovesOneHost` | h1 has joined, h2 has called `LoadUpdate`; h1 cancels; `hosts.clear()` drops h2 as well, and its `Coordinate` makes rows without a host |
| `MCDoubleFree` | `MCCoordinator` | `NoDoubleFree` | h1 joins and cancels (YBB freed, pointer kept); h1 calls `LoadUpdate` again and is cancelled again: YBB is freed twice |
| `MCStrayDiagonal` | `MCOrderly` | `DiagonalIsTopology` | a host whose neighbour is absent cancels; `find` returns `end()`, the row read through it loses one on the diagonal |
| `MCTwoJoins` | `MCAdmission` | `OneJoinAtATime` | while one host is joining, a cancel empties the registry, sets `is_ok_next`, and the next host is told |
| `MCGhost` | `MCAdmission` | `DisconnectedMeansGone` | a cancel is served before the host is registered and dropped; the host joins later |
| `MCAcceptRace` | `AcceptLoop` | `OneThreadOneSession` | two connections are accepted before the first thread has read `newsockfd` |
| `MCResults` | `MCExchange` | `ResultsBeforeReply` | `LoadUpdate` answers before any of the hosts it told has reported |

The passing runs on the same modules say what is right around these: without
overlapping exchanges (`MCOrderly`) only the stray access remains, without
cancels (`MCStaying`) the gate is a turnstile, with spaced clients (`MCSpaced`)
the accept loop is sound, one update after the other (`SharesAgree`) reaches all
in the end.

### Bounds

- *Hosts of the registry.* Three in a row, the middle one with two interfaces: a
  row range of length two, a gap at the front, in the middle or at the end, a
  host with a present and an absent neighbour at once. Two hosts suffice for the
  runs that are about the order of messages.
- `MaxRows` bounds the rows. Four rows are what the three hosts need, and are
  also enough for a host to join up to four times; in `MCClearsAll` and
  `MCDoubleFree` there is room for repeated joins of both hosts. In
  `MCAdmission` two rows let both hosts be in at the same time and come and go
  without end.
- `MaxStray` bounds the stray writes: 0 where the diagonal is not looked at.
- `MaxQueue` bounds the queue and the undelivered messages of a host: 2, one
  request to overtake and one to be overtaken; 3 in `MCStaying`, all hosts.
- `MaxNotices` bounds the notices of cancels that a simulator has not served: 1, one
  that comes before or after the next message to join; 0 in `MCStaying`, where nobody
  cancels.
- *Loads.* `MCOrderly` uses (2,1), (0,2) and (0,0): either side scarce, and
  nothing at all. The other runs of the registry do not look at loads.
- *Sessions of the accept loop.* Four in `MCSpaced`, enough for a descriptor to
  be used by one session, given back, and used by two more. Two of them may leave
  theirs open and `MaxFd` is 2, so the process can run out of descriptors.
- `MCExchange`: two hosts with one and two rows, so that one of them gets partial
  voltages; `MaxLoads` is 2, an update and one that crosses it.
- `MCSession`: two handler threads and `MaxSessions` 2, a session and the one that
  replaces it. The theorems are for any numbers.
- `MCComponent`: two switches with a line between them and five interfaces, placed
  on two servers in every way the lines allow, so both the local and the
  distributed solution occur; two connections in three messages, one with both;
  `MaxConnections` 4 lets a join be repeated and a second one follow it.
- `MCGrid`: a switch with a supplier, a demander and a storage; the flag joins all
  three or leaves the storage apart. Supplier and demander desire 1, the storage 1 or
  -1, so its mode and sign make either side scarce, both equal, or a total zero;
  `Scale` is 2, a multiple of each total. The coordinator's shares (`Parts`) are 1.
  `Capacity` 1 is one interval's charge: full and empty are each one step away.
  Sessions start with the energies 0, in range, and 2, above it; `MaxDrift` 1 stops
  the monitor where a negative current moves an energy away from the end it tests.
  A join may name an interface that does not exist.
  `MaxCs` 2 allows one `simulate` that appends to a list already there, when the
  components are one; with the storage apart there are two and `Cs` is full.
- `MCPowerSlave`: two components on two slaves; the smaller one has only the
  reference on its second slave, which so gets a matrix without rows; values 0
  and 1 in the larger one; one restart. The simulators call from two addresses, and
  the larger component's is on the server of the first slave.
- `MCTransport`: packets of 8 and a buffer of 18 instead of the code's sizes.
  Lengths 1 (shorter than the sentinel), 7, 12 (two packets) and 19 (too large)
  fall on all sides of the comparisons; larger ones only repeat the loop.

`MCAdmission` uses the symmetry of the two hosts (its wiring is symmetric, and it
checks an invariant only); the liveness runs use none.

### Fairness

`Admitted` assumes weak fairness of the request thread's three steps (an endless
loop with a sleep), of the thread that handles a request (detached, and
scheduled by the kernel), and of the two steps of a join (the simulator's
handler runs to its end: `DynamicLoadBalancing` returns true on every path, so
`DynamicCalculation` always follows). No fairness is assumed of the GUIs, of
updates or of cancels, and a process that has exited is an allowed outcome.

`EveryoneServed` assumes weak fairness of each step of the accept loop and of
each thread; each of them, once possible, stays possible.

`ComesToRest` assumes weak fairness of `Proceed(h)`: of the threads that can take
the mutex they wait for, in each simulator, one is scheduled. None is assumed of
`BeginUpdate`.

`MutexComesFree` assumes weak fairness of `Handle(t)` and `Work(s)`: threads are
scheduled. Requests are not fair.

`StorageStops` assumes weak fairness of `MonitorNext`, the loop of a thread that
sleeps a fixed time. `CalculationEnds` assumes it of `Calculate(c)`, a loop over
the slaves that always gets an answer, an end of stream or a refused
connection. `ConversationEnds` assumes that both programs run and the network
delivers.

## 4. What is proved

TLAPS checks the proofs; TLC evaluates the assumptions in every run. Each theorem
holds for every value of the constants that its module's assumptions admit; the
last column says which these are, and what is assumed besides.

| theorem | statement | for |
|---|---|---|
| `CoordinatorProofs!TypeCorrect` | `Spec => []TypeOK` | every set of hosts, every positive number of interfaces, every wiring in which a line has two ends on two hosts, any loads (`HostAssumption`, `NumAssumption`, `PeerAssumption`, `BoundAssumption`, `LoadAssumption`) |
| `SizeCorrect` | `Spec => []MatrixSized` | |
| `IndexCorrect` | `Spec => []IndexOneToOne` | |
| `VoltagesCorrect` | `Spec => []OwnVoltages` | |
| `SharesCorrect` | `Spec => []SharesBalance` | exchanges in any order |
| `RowsCorrect` | `OrderlySpec => []RowsAreJoinedHosts` | exchanges one at a time |
| `TopologyCorrect` | `OrderlySpec => []MatrixIsTopology` | |
| `InjectionsCorrect` | `OrderlySpec => []InjectionInOwnRow` | |
| `AccessesSafe` | `OrderlySpec => []OneUnsafeAccess` | |
| `OrderlyIsCoordinator` | `OrderlySpec => Spec` | so the first five hold of it, too |
| `ShutGateIsForSomebody` | `AdmissionSpec => []ShutGateMeansJoining` | the registry's constants and any `MaxQueue`, cancels at any moment |
| `OpenGateIsIdle` | `StayingSpec => []OpenGateMeansIdle` | without cancels |
| `JoinsOneAtATime` | `StayingSpec => []OneJoinAtATime` | |
| `AdmissionIsTurnstile` | `StayingSpec => TurnstileSpec` | the refinement |
| `AcceptLoopProofs!SpacedIsOneToOne` | `SpacedSpec => []OneThreadOneSession` | any number of sessions, any backlog, clients one after the other |
| `SpacedLeaksOnlyUnclosed` | `SpacedSpec => []NoLeak` | any number of descriptors, any connections that are not closed |
| `ExchangeProofs!TypeCorrect` | `Spec => []TypeOK` | any finite set of hosts, any number of rows of each, any number of updates (`ExchangeAssumption`) |
| `SharesAlwaysAgree` | `Spec => []SharesAgree` | |
| `VoltagesAlwaysSettle` | `Spec => []VoltagesSettle` | |
| `SessionProofs!Exclusion` | `Spec => []UpdatesExclude` | every set of handler threads, every number of sessions (`SessionAssumption`) |
| `OrderlySafe` | `Spec => []OrderlyIsSafe` | |
| `NoneLost` | `Spec => []NoLostSession` | |
| `ComponentProofs!NumberingCorrect` | `FullSpec => []NumberingSound` | every grid, placement on servers and sequence of connections (`ComponentAssumption`) |
| `FactorsCorrect` | `FullSpec => []FactorsFit` | |
| `LinesCorrect` | `FullSpec => []LinesFit` | |
| `JoinedRunsUntilReturn` | `FullSpec => []JoinedNeverStops` | a component with a line and with an interface that no connection is of (`HasInterior`) |
| `MessageCorrect` | `FullSpec => []MessagePaired` | connections with an interface each, named once in a message (`OneToOneConnections`) |
| `PowerSlaveProofs!TypeCorrect` | `Spec => []TypeOK` | any set of components, any split of their interfaces over any number of slaves, any addresses, values and restarts (`SlaveAssumption`) |
| `AloneServed` | `Spec => []AloneIsServed` | |
| `VoltagesWhole` | `Spec => []VoltagesComplete` | |
| `StaleAreZeros` | `Spec => []OnlyZerosStale` | |
| `TransportProofs!StringAlwaysEnds` | `Spec => []StringEnds` | every size of packet and buffer, every set of lengths (`TransportAssumption`) |
| `RequestAlwaysWhole` | `Spec => []RequestWhole` | |
| `GridProofs!TypeCorrect` | `Spec => []TypeOK` | any finite set of appliances, any switches, lines and flags, integer desires and shares of either sign, with a common multiple of their totals, any initial energies (`GridAssumption`, `ScaleAssumption`, `NumberAssumption`) |
| `EnergyStaysInRange` | `Spec => []EnergyInRange` | |
| `SearchIsRight` | `Spec => []ComponentsArePartition` | a grid with a power line (`HasLines`) |
| `ObjectsStayInStep` | `Spec => []CsInStep` | a grid with a power line |
| `LoadsAreBalanced` | `Spec => []SupplyMeetsDemand` | a grid with a power line |

### The registry

The inductive invariant `IInv` is the conjunction of the four and
`RowlessAtZero`. None of the four is inductive alone. `OwnVoltages` says that
the rows from `start_index_` on are the host's own; that this survives a cancel
needs that interfaces have distinct rows (`IndexOneToOne`), because the code
moves the index of an interface when it is behind `pi_index_mapping_[host_pis[0]]`
and the start of a host when it is behind the leaving host's start, two tests
that must come out the same for a host and all of its interfaces.
`RowsApart` and `IntervalsApart` show that they do: two hosts' ranges are
disjoint intervals, so one lies wholly before the other. `CloseGap` then shows
that the moved indexes are again distinct and below the new dimension. Rowless
hosts have to start at 0 (`RowlessAtZero`), or the same shift would take them
below zero. `MatrixSized` is needed for the types of the new matrix, whose rows
are read from the old one.

`IndexOneToOne` in the proof covers hosts that join twice: their old rows stay
in the matrix without an interface, and `index_pi_mapping_` still names them;
the invariant says only that the way from an interface to its row and back is
the identity.

### The registry, one exchange at a time

`OrderlyInv` adds to `IInv` that the rows are in order (`RowsInv`), the matrix and
the injections. `RowsInv` has what `RowsAreJoinedHosts` leaves open: a host that
waits between its two calls is registered without a row (`WaitingWithoutRow`),
and the reverse map has an interface for every row (`RowsFilled`); so a join
appends to a map without gaps, and after a cancel the gap is closed in both maps.
From there the argument is about the two operations that move rows.
`CoordinateAppends` says that a join leaves the old rows and puts the new ones
behind them; `RemoveRowsRemoves` that a cancel moves the rows by `GapClosed`, a
one-to-one map on the rows that stay. Entries, diagonal and injections are then
those of the same interfaces as before, less the ones of the leaving host
(`RemovedLines`, `RemovedDiagonal`, `RemovedInjections`), and a line is counted on
the diagonals of both its ends because each end is the other's only neighbour
(`PeerAssumption`). `AccessesSafe` uses that a live matrix belongs to some joined
host (`MatrixIsLive`): a cancel that frees it leaves nobody who could free or read
it again, until a join makes a new one.

### The sums

`SharesBalance` is about sums over whatever hosts are registered, and the code
never computes them: it adds to and subtracts from two running totals.
`TotalsInv` says that the totals are those sums and that what each host was
assigned is `Share` of the totals. It is inductive for `Next`, so the theorem
holds for exchanges in any order; the run checks it where they come one at a
time. A sum over a set is a recursive function, and what it computes would take
an induction over finite sets. The library's induction theorem cannot be used
with these provers; instead `SumIs` and its neighbours take a least
counterexample, by the theorem that a well-founded relation has minimal elements
and the one that strict inclusion of finite sets is well-founded. `Adds(f, n)` says
that some function on the subsets of f's domain adds f up, whichever element is
taken first, and gives n; `AddsReplaced`, `AddsOne` and `AddsLess` are the three
things a handler does to a sum.

### The gate

`ShutGateMeansJoining` is inductive with the types. Every handler that may take a
host out of `Joining` also sets `is_ok_next`: `Coordinate` on its success, a cancel
always. The notice and the end of a simulator are no steps of the gate's
(`LossStep`): a host whose simulator ended is still in `Joining`, and the property
says of it that it is lost (`OnTheWayOrLost`). The reverse needs more. `GateInv` says that one host at most is between the
thread's message and its `Coordinate` (`OneJoins`), that nobody is when the gate is
open, and that a thread about to pop has shut the gate.

`AdmissionIsTurnstile` is the step simulation: `GateRefinedStep` shows for each step
of `StayingNext` that it lets a host ask, enter or leave the turnstile, or changes
nothing there. It needs `AskOnce`: without cancels a GUI asks once, so a host
is in the inbox or in the queue, and once. Otherwise a second request of the same
host, popped, would make it enter without having asked.

### The accept loop

Clients that come one after the other leave at most one session between its
connect and the copy of its descriptor (`OneAtATime`), so `newsockfd` still is that
session's when the thread reads it (`FreshDescriptor`). That no session has two
descriptors (`OneDescriptor`) and that client and thread go through their states
together (`InStep`) makes it inductive; the kernel may give out a closed descriptor
again at once. A descriptor whose thread is done is one of `Unclosed`, since every
other thread closes its own.

### The exchange

`SharesAgree` and `VoltagesSettle` are about states at rest, so their invariants say
what is under way before. `OneUpdate`: while updates have not overlapped, a host
has the last share, or sleeps in its own `LoadUpdate`, or has the message with it in
its inbox, and every share in an inbox is the last one; likewise the injection it
caused. `LastVoltages`: a host whose handlers went in order has the last voltages
and no others to come, or the complete message of the last calculation is in its
inbox with only shares behind it. That the partial messages of one
`CoordinateUpdate` come before the complete one is `RowMessagesAppended`.
`MutexOfSleeper` ties the coordinator's mutex to the simulator that sleeps.

### The dispatcher

`UpdatesExclude` is inductive once the types are known (`Types`). The two
properties of orderly clients are not: that no handler meets a deleted session
rests on where every other handler is. `OrderlyInv` says, as long as the clients
kept to the rules, that a handler which changes the session is alone (`Alone`),
that the broker is deleted only while its request is at work (`BrokerThere`),
what holds at each step of each thread (`Stage`: after the old session is deleted
none is live; after `CreateNew` the new one is that of `pre` and the only live one;
a request that follows `pre` finds a session, built, and works on it until it is
through), and that otherwise the live sessions are the one of `pre` (`Settled`). A request that
changes something finds nobody at work, so it meets `Settled`; the others leave
`pre`, `live` and `built` alone. `SafeInv` joins this to `OrderlyIsSafe`, since a
process that stopped keeps its last state.

### The component

`Inv` is `Types /\ StartsEmpty /\ NumberingSound /\ FactorsCurrent`. The heart
is `SwapSound`: a turn of `DynamicReconstruct` swaps the interface with the one
at the last place before the boundary, in two maps, two matrices and a vector,
and all of them stay in step. It needs that the place is not negative and not in
the boundary: `PlaceLeft` shows by counting that an interface outside the
boundary means there is a place left, and `BoundaryLast` that the places behind
it are the boundary's. `FactorsFit` speaks only of an idle component; during a
join the matrices belong to a boundary that has since grown, so
`FactorsCurrent` says when they are current: when nothing is being
reconstructed. `NumbersInverse` shows that the numbering of `simulate`, which
goes by servers, gives every interface one number.

The vector I is laid out by the maps as long as the monitor has not raced: what it
has read is still the interface of its row, or `raced` is set (`MonitorCurrent`). Of
the maps and matrices nothing has to be excepted, because the monitor does not write
them.

`LinesFit` needs to know what the inverse and the slaves' blocks were made for
(`SolversFit`): the present numbering while the component is not joined, the blocks
only until the first return. `JoinedNeverStops` is false for a component that is
nothing but boundary: there is then no interior to invert. With one interface that
no connection is of, the boundary cannot take in all places (`InteriorLeft`), and
before the first return the matrices of the last join are there whenever a joined
component's handler uses them (`StopInv`). It says nothing of a component that has
not joined, because a push stops that one at once. For `MessagePaired` the invariant `PairInv` follows the loop
of `DynamicReconstruct`: a message is put in front of the earlier ones in reverse,
`boundary_set` grows the same way, so both are the same list as long as all messages
are the same one. Two connections of one interface would make `boundary_set` shorter
than the connections; the coordinator's comment "one to one connection"
(`coordinator.cpp:215`) excludes them, and so does the hypothesis.

### The power slave

`Served(c)` speaks of a component that has had its slaves to itself. Unless it was
refused for a block without rows, every slave that runs and was asked has an object
of this component, of the size of its block, with the phases done that the next
request needs (`AtSlaves`), and holds the component's vector but for zeros
(`Tells`); the voltages of the blocks that answered are the component's
(`VoltsSoFar`). That the slave was not somebody else's in between rests on who began
where, so `Began(c)` records that a component that finished a first phase began at
every slave. That nothing is missing at the end is a fact about
`servers_start_index`: `StartIndexIs`, `BeforeTheLast` and `NextBlock` show that the
blocks follow each other, that only the last one has the reference, and that
together they are all the rows. A slave that has read a request of the component has
its address, so for a component alone it is not a new master a second time; that is
why the missing simulator is an exception of the first request only. The running sum is a recursive function; its
existence and its growth are again shown by a least counterexample.

### The transport

`TransportInv` has the room in the buffers (`Room`: who has not stopped has all it
got, and never more than fits beside the zero) and, for each reason a receiver may
stop for, how much it has then. `Turn` is the lemma about one turn of `receive_data`,
for the server and for the client that waits for an answer alike;
`MatchesAtTheEnd` says that the places it looks at can only match at the end of the
request.

### The grid

`EnergyInRange` is about signs: the monitor tests the end of the range that a current
which is not negative goes for. `EnergyInv` says that while input was lawful nothing
is negative: desires, currents, the totals that objects keep and that handler and
monitor carry with them, and that the energy the monitor has read is in range, or no
number (`Lawful`). A current that is not negative may be infinite or no number;
`Counts` are those values. Nothing is said of the mode, which a handler may have
changed since.

The hypothesis `HasLines` of the next three is needed. `simulate` has nothing to
work on when `adj_list` is empty, since `power_simulator.cpp:412` then leaves out
the search; the components of such a grid would be its single interfaces. With a
line there is an edge whatever the flags say.

`SearchInv` says during a search that what has been found are components, each once
(`SomeFound`), that they hold the green interfaces and no others, and that the
interfaces of the present visit are *undivided*: a closed set that meets them
contains them (`Undivided`). A visit adds a neighbour, which every closed set has
that has the interface it is a neighbour of, and the other way round
(`StaysUndivided`), because edges go both ways (`EdgesGoBothWays`). When no white
neighbour is left the visited interfaces are closed (`ReachedIsClosed`): no edge
leads to a green one, as none leads out of a component. A set that is closed and
undivided is a minimal closed one, a component. `WholeIsPartition` adds that the
search is complete when every interface is in one.

`StepInv` says that `Cs` is `connected_components`, or in the middle of `simulate` a part
of it that is already in step (`Aligned`), and that the index a handler holds is that of its component
(`AtComponent`). A handler that starts from rest finds one (`IdleFinds`), so a bad
access needs `lost`, and that needs a race.

`BalanceInv` says, while monitor and handlers have not been mixed, that every
component is balanced except the one being worked on (`AllBalanced`, `AtWork`), and
that totals which were read are still the totals (`TotalsHold`). For the push it adds that
the totals a joined object keeps are those of now, unless it is `stale` or just about
to ask (`AllKept`, `KeptTotals`): every handler that changes a desire or a mode of the
component makes it ask, and the monitor, which does not, sets `stale`. When its
currents are assigned, a component becomes balanced (`AssignBalances`) and the others stay so
because they have no appliance in common with it (`OthersStayBalanced`). The first of these is about sums:
`TotalScaled` says that a sum of scaled terms is the scaled sum, `TotalSame` that
equal terms have equal sums, both from `TotalIs`, which is shown by a least
counterexample as for the registry. That the divisions are exact is
`TotalsDivide`, from `ScaleAssumption`; with a scale that is no multiple of a
total, the equation would hold only up to rounding.

### Model-checked only

- Liveness: `Admitted`, `EveryoneServed`, `ComesToRest`, `MutexComesFree`,
  `StorageStops`, `CalculationEnds`, `ConversationEnds`. The provers have no rules for
  fairness and ENABLED.
- The properties of the further configurations, which are false.

Every invariant of a passing run is stated by a theorem above.

## 5. Not modelled

- What the numbers are: admittances, complex voltages, currents of lines. No
  control depends on them but for `det != 0`. The lines that
  `DistributedCalculation` adds to views of A in place are of this kind.
- The descriptors that `exec_on_server` never closes (`util.cpp:356`), one for every
  call; those of the accept loop are in `AcceptLoop`.
- The simulator's receive buffer, which it does not clear before it reads
  (`main.cpp:97`; the coordinator does): depends on what lies on the stack.
- The forwarder's messages to lab nodes and its own copy of the topology
  functions, which do what those of the simulator do.
- The dialogs by which two GUIs agree on a connection, drawing, logging, the text
  of messages and of batch files, and the CORE GUI.

## 6. Plan

Done: registry, request gate, accept loop, exchange, dispatcher, component, grid
with monitor, power slave, transport. What is left, in order of weight:

1. `Session` and `Component` composed with the second kind of session, the
   testbed's forwarder, beyond its life.
2. The handshake of two GUIs on port 9011, where both may ask at once.
