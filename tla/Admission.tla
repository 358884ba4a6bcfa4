----------------------------- MODULE Admission -----------------------------
(***************************************************************************)
(* How hosts come to the coordinator and leave it: the GUIs' requests and  *)
(* cancels (emulator.tcl), each handled by a thread of its own             *)
(* (coordinator/main.cpp), the queue of requests (concurrent_queue.h), the *)
(* request thread (threads_functions.cpp) that takes the next request when *)
(* is_ok_next lets it, and the simulators it tells to join.  The handlers  *)
(* of the registry are Coordinator's.                                      *)
(*                                                                         *)
(* is_ok_next is a plain bool of which the request thread's read and write *)
(* are two steps; Coordinate and UnRegisterRequest write it under a mutex  *)
(* the request thread does not take.                                       *)
(*                                                                         *)
(* The notice that UnRegisterRequest sends the host's simulator ends with  *)
(* "\r" when it is read, and SocketHandler looks for "\r\n"               *)
(* (powersimulation/main.cpp:283): it is taken for the name of a batch     *)
(* file.  The session is deleted, the file is not there, and pre is left   *)
(* pointing at the deleted session, which the next request to join uses.   *)
(***************************************************************************)
EXTENDS Coordinator, Sequences

CONSTANTS
    MaxQueue,   \* bound: requests queued, joins a simulator is told and not begun
    MaxNotices  \* bound: notices a simulator is sent and has not served

ASSUME MaxQueueAssumption == MaxQueue \in Nat /\ MaxNotices \in Nat

VARIABLES
    connected,  \* isDynamicConnected of each host's GUI
    inbox,      \* messages of the GUIs whose handler thread has not run
    queue,      \* the_queue; a request that names no host is NoHost
    thread,     \* where the request thread is
    told,       \* DynamicConnectionInfo messages a simulator has not served
    notices,    \* notices of its cancel that it has not served
    session     \* what pre of each simulator points at, and if it still runs

simulators == <<notices, session>>
admission == <<connected, inbox, queue, thread, told, simulators>>
avars == <<vars, admission>>

-----------------------------------------------------------------------------
(* SendCoordinatingRequest.  A GUI in which no dynamic connection is drawn *)
(* sends a request without a line.                                         *)
SendCoordinatingRequest(h, who) ==
    /\ Running /\ ~ connected[h]
    /\ <<"request", who>> \notin inbox
    /\ connected' = [connected EXCEPT ![h] = TRUE]
    /\ inbox' = inbox \cup {<<"request", who>>}
    /\ UNCHANGED <<vars, queue, thread, told, simulators>>

SendCancelRequest(h) ==
    /\ Running /\ connected[h]
    /\ <<"cancel", h>> \notin inbox
    /\ connected' = [connected EXCEPT ![h] = FALSE]
    /\ inbox' = inbox \cup {<<"cancel", h>>}
    /\ UNCHANGED <<vars, queue, thread, told, simulators>>

\* mutant: a queue with one place
RegisterRequestOneSlot(who) ==
    /\ Running
    /\ <<"request", who>> \in inbox
    /\ inbox' = inbox \ {<<"request", who>>}
    /\ queue' = IF queue = <<>> THEN <<who>> ELSE queue
    /\ UNCHANGED <<vars, connected, thread, told, simulators>>

(* "CoordinatingRequest:", handled without the mutex of the registry.      *)
RegisterRequest(who) ==
    /\ Running
    /\ <<"request", who>> \in inbox /\ Len(queue) < MaxQueue
    /\ inbox' = inbox \ {<<"request", who>>}
    /\ queue' = Append(queue, who)
    /\ UNCHANGED <<vars, connected, thread, told, simulators>>

(* "CancelRequest:".  A host that is not registered is not looked for in   *)
(* the queue; one that is gets a notice, and if its simulator does not run *)
(* any more the coordinator ends.                                          *)
ServeCancel(h) ==
    /\ Running
    /\ <<"cancel", h>> \in inbox /\ notices[h] < MaxNotices
    /\ inbox' = inbox \ {<<"cancel", h>>}
    /\ IF h \in Registered
       THEN /\ Cancel(h)
            /\ session[h] = "gone" => status' # "running"
            /\ notices' = IF status' = "running" THEN [notices EXCEPT ![h] = @ + 1]
                          ELSE notices
       ELSE UNCHANGED <<vars, notices>>
    /\ UNCHANGED <<connected, queue, thread, told, session>>

-----------------------------------------------------------------------------
\* mutant: the gate is not looked at
ReadGateAlways ==
    /\ Running /\ thread = "loop"
    /\ thread' = "open"
    /\ UNCHANGED <<vars, connected, inbox, queue, told, simulators>>

\* mutant: the gate is left open
ShutGateOpen ==
    /\ Running /\ thread = "open"
    /\ thread' = "popping"
    /\ UNCHANGED <<vars, connected, inbox, queue, told, simulators>>

(* The loop of process_request: read the gate, shut it, wait for a         *)
(* request, tell the host's simulator.                                     *)
ReadGate ==
    /\ Running /\ thread = "loop" /\ okNext
    /\ thread' = "open"
    /\ UNCHANGED <<vars, connected, inbox, queue, told, simulators>>

ShutGate ==
    /\ Running /\ thread = "open"
    /\ okNext' = FALSE
    /\ thread' = "popping"
    /\ UNCHANGED <<hosts, bnum, matrix, piIndex, indexPi, totalD, totalS, status,
                   stray, sim, connected, inbox, queue, told, simulators>>

\* mutant: a request whose GUI has disconnected is passed over
DispatchSkips ==
    /\ Running /\ thread = "popping" /\ queue # <<>>
    /\ queue' = Tail(queue)
    /\ LET h == Head(queue)
       IN told' = IF h # NoHost /\ connected[h] THEN [told EXCEPT ![h] = @ + 1] ELSE told
    /\ thread' = "loop"
    /\ UNCHANGED <<vars, connected, inbox, simulators>>

(* gethostbyname of a request without a host gives NULL, which is followed; *)
(* a process that ends keeps its last state here.                          *)
Dispatch ==
    /\ Running /\ thread = "popping" /\ queue # <<>>
    /\ \/ /\ Head(queue) # NoHost /\ told[Head(queue)] < MaxQueue
          /\ session[Head(queue)] # "gone"
          /\ queue' = Tail(queue)
          /\ told' = [told EXCEPT ![Head(queue)] = @ + 1]
          /\ thread' = "loop"
          /\ UNCHANGED <<vars, connected, inbox, simulators>>
       \/ /\ IF Head(queue) = NoHost THEN Crash("badAccess") ELSE ConnectFails({Head(queue)})
          /\ UNCHANGED <<sim, admission>>

-----------------------------------------------------------------------------
(* The simulator: "DynamicConnectionInfo:" is DynamicConnectedSimulation   *)
(* under the simulator's mutex, first LoadUpdate and then Coordinate.      *)
BeginJoin(h, load) ==
    /\ told[h] > 0 /\ session[h] # "gone"
    /\ JoinLoad(h, load)
    /\ told' = IF status' = "running" THEN [told EXCEPT ![h] = @ - 1] ELSE told
    /\ UNCHANGED <<connected, inbox, queue, thread, simulators>>

EndJoin(h) ==
    /\ session[h] # "gone"
    /\ JoinCoordinate(h)
    /\ UNCHANGED admission

(* A simulator's process ends: what it has not served stays unserved.      *)
SimulatorEnds(h) ==
    /\ session' = [session EXCEPT ![h] = "gone"]
    /\ UNCHANGED <<vars, connected, inbox, queue, thread, told, notices>>

(* The notice, in batch mode and without the simulator's mutex.  A second  *)
(* one deletes the session again, which may end the process.               *)
Unregistered(h) ==
    /\ Running /\ notices[h] > 0 /\ session[h] # "gone"
    /\ \/ /\ session' = [session EXCEPT ![h] = "deleted"]
          /\ notices' = [notices EXCEPT ![h] = @ - 1]
          /\ UNCHANGED <<vars, connected, inbox, queue, thread, told>>
       \/ session[h] = "deleted" /\ SimulatorEnds(h)

(* A join with the deleted session goes on with what the memory still has, *)
(* as BeginJoin and EndJoin do, or ends the process.                       *)
JoinCrashes(h) ==
    /\ Running /\ session[h] = "deleted"
    /\ sim[h] = "joining" \/ told[h] > 0
    /\ SimulatorEnds(h)

Update(h) ==
    /\ (\E load \in Load : UpdateLoad(h, load)) \/ UpdateInjection(h)
    /\ UNCHANGED admission

AdmissionInit ==
    /\ Init
    /\ connected = [h \in Host |-> FALSE]
    /\ inbox = {}
    /\ queue = <<>>
    /\ thread = "loop"
    /\ told = [h \in Host |-> 0]
    /\ notices = [h \in Host |-> 0]
    /\ session = [h \in Host |-> "live"]

JoiningNext ==
    \/ \E h \in Host :
          \/ \E who \in {h, NoHost} : SendCoordinatingRequest(h, who)
          \/ \E load \in Load : BeginJoin(h, load)
          \/ EndJoin(h)
    \/ \E who \in Host \cup {NoHost} : RegisterRequest(who)
    \/ ReadGate \/ ShutGate \/ Dispatch

(* Everything but the cancels.                                             *)
StayingNext == JoiningNext \/ \E h \in Host : Update(h)

(* Everything but the members' updates, which do not touch the gate.       *)
AdmissionNext ==
    \/ JoiningNext
    \/ \E h \in Host : SendCancelRequest(h) \/ ServeCancel(h)
    \/ \E h \in Host : Unregistered(h) \/ JoinCrashes(h)

AdmissionSpec == AdmissionInit /\ [][AdmissionNext]_avars

(* The threads are scheduled, and an exchange once begun goes on: the      *)
(* request thread polls, a handler thread runs, the simulator of a host    *)
(* calls Coordinate after LoadUpdate.                                      *)
Fairness ==
    /\ WF_avars(ReadGate) /\ WF_avars(ShutGate) /\ WF_avars(Dispatch)
    /\ \A h \in Host :
          /\ WF_avars(RegisterRequest(h))
          /\ WF_avars(\E load \in Load : BeginJoin(h, load))
          /\ WF_avars(EndJoin(h))

StayingSpec == AdmissionInit /\ [][StayingNext]_avars /\ Fairness

-----------------------------------------------------------------------------
AdmissionTypeOK ==
    /\ TypeOK
    /\ connected \in [Host -> BOOLEAN]
    /\ inbox \subseteq ({"request"} \X (Host \cup {NoHost})) \cup ({"cancel"} \X Host)
    /\ queue \in Seq(Host \cup {NoHost}) /\ Len(queue) <= MaxQueue
    /\ thread \in {"loop", "open", "popping"}
    /\ told \in [Host -> 0 .. MaxQueue] /\ notices \in [Host -> 0 .. MaxNotices]
    /\ session \in [Host -> {"live", "deleted", "gone"}]

(* The hosts that have been told to join and have not finished.            *)
Joining == {h \in Host : told[h] > 0 \/ sim[h] = "joining"}

(* The coordinator controls the request sequence (emulator.tcl:2653): a    *)
(* host is told to join only when the one before it has its rows.          *)
OneJoinAtATime == Cardinality(Joining) <= 1

(* While the gate is open, and from the moment the request thread has seen *)
(* it open until it sends the next request, nobody is joining.             *)
OpenGateMeansIdle == okNext \/ thread # "loop" => Joining = {}

(* While the gate is shut and the request thread polls it, a host that was *)
(* told to join has not finished: no order of cancels, stale requests and  *)
(* joins shuts the queue with nobody to open it, but for one, in which the *)
(* simulator on its way was lost over the session that the notice of a     *)
(* cancel had deleted.                                                     *)
OnTheWay == {h \in Joining : session[h] # "gone"}
LostOnTheWay == Joining \ OnTheWay

ShutGateMeansJoining ==
    ~ okNext /\ thread = "loop" => OnTheWay # {} \/ LostOnTheWay # {}

(* Every request of a host that names the host ends with its rows in the   *)
(* registry, if the coordinator lives.                                     *)
Requested(h) == <<"request", h>> \in inbox
Admitted == \A h \in Host :
    Requested(h) ~> (~ Running \/ (h \in Registered /\ hosts[h].num = Num[h]))

(* The queue, its thread and the registry together are a turnstile.        *)
AskedFor == {h \in Host : Requested(h) \/ \E i \in DOMAIN queue : queue[i] = h}

TheJoining == IF Joining = {} THEN NoHost ELSE CHOOSE h \in Joining : TRUE

Gate == INSTANCE Turnstile WITH
            Nobody <- NoHost,
            waiting <- AskedFor,
            current <- TheJoining

TurnstileSpec == Gate!Spec

(* Once a GUI has disconnected and all its messages are served, its host   *)
(* is not in the registry (emulator.tcl:2692, "the code for disconnecting  *)
(* all the connections").                                                  *)
DisconnectedMeansGone ==
    Running => \A h \in Host :
        ~ connected[h] /\ h \notin AskedFor \cup Joining /\ <<"cancel", h>> \notin inbox
            => h \notin Registered
=============================================================================
