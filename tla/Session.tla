------------------------------ MODULE Session ------------------------------
(***************************************************************************)
(* The simulator's dispatcher (powersimulation/main.cpp): a thread for     *)
(* every request, the session they share through the pointer pre, and the  *)
(* threads a session starts, which its destructor cancels.                 *)
(*                                                                         *)
(* A mutex protects updates and the coordinator's messages.  Requests that *)
(* make, delete or read a session do not take it.  The monitor of a        *)
(* testbed session does, and keeps it while it talks to the nodes, where a *)
(* cancelled thread ends.                                                  *)
(***************************************************************************)
EXTENDS Naturals, FiniteSets

CONSTANTS
    Thread,       \* handler threads
    MaxSessions   \* bound on the sessions that are made

ASSUME SessionAssumption == MaxSessions \in Nat /\ Thread \cap Nat = {}

Null == 0
Sessions == 1 .. MaxSessions
NoOne == MaxSessions + 1

VARIABLES
    pre,        \* the session pre points to, which may be deleted
    kind,       \* of each session: the request that made it
    broker,     \* "none", "set", or "deleted" and not yet replaced
    made,       \* number of sessions made
    live,       \* sessions not deleted
    built,      \* sessions with their component objects
    worker,     \* what the threads of each session do
    handler,    \* of each thread: step, request, session it works on
    mutex,      \* owner: a thread, a session for its monitor, or NoOne
    status,     \* "running", or how the process ended
    orderly     \* history: the clients kept to the rules of Rules

vars == <<pre, kind, broker, made, live, built, worker, handler, mutex, status, orderly>>

Idle == [step |-> "idle", req |-> "none", of |-> Null]
Makes == {"create", "testbed", "batch"}
Changes == Makes \cup {"shutdown", "master"}

\* requests whose handlers do not look whether there is a session
Unchecked == {"push", "ask", "info"}
Requests == Changes \cup Unchecked \cup {"update", "retrieve"}

Running == status = "running"
Others(t) == {u \in Thread \ {t} : handler[u].step # "idle"}

(* What an orderly client minds: a request that makes or ends a session is *)
(* alone, a batch file can be read, and requests whose handlers do not     *)
(* look come while there is a session, and one that is ready.              *)
Rules(t, r, readable) ==
    /\ r \in Changes => Others(t) = {}
    /\ \A u \in Others(t) : handler[u].req \notin Changes
    /\ r = "batch" => readable
    /\ r \in Unchecked => pre # Null
    /\ r \notin Changes /\ pre # Null => pre \in built

(* The destructor cancels the session's threads: one that sleeps ends      *)
(* there, another goes on until it comes to a cancellation point, with the *)
(* mutex if it has it.  Threads that were never started are cancelled all  *)
(* the same.                                                               *)
Cancelled(w) ==
    CASE w \in {"out", "nap"}                 -> "gone"
      [] w = "in"                             -> "doomed-in"
      [] w = "wait"                           -> "doomed-wait"
      [] w \in {"asking", "using", "telling"} -> "doomed-using"
      [] OTHER                                -> w

Delete(s) ==
    IF s \in live /\ worker[s] # "none"
    THEN /\ live' = live \ {s}
         /\ worker' = [worker EXCEPT ![s] = Cancelled(@)]
         /\ UNCHANGED status
    ELSE /\ status' = "freed"
         /\ UNCHANGED <<live, worker>>

Step(t, step) == handler' = [handler EXCEPT ![t].step = step]
Done(t) == handler' = [handler EXCEPT ![t] = Idle]

-----------------------------------------------------------------------------
(* "Create new session:0", ":1" and batch mode: pre is deleted, and keeps  *)
(* its value when the batch file cannot be read.                           *)
CreateDelete(t, r, readable) ==
    /\ Running /\ handler[t] = Idle /\ r \in Makes
    /\ IF pre # Null THEN Delete(pre) ELSE UNCHANGED <<live, worker, status>>
    /\ IF r = "batch" /\ ~ readable
       THEN Done(t)
       ELSE handler' = [handler EXCEPT ![t] = [step |-> "new", req |-> r, of |-> Null]]
    /\ orderly' = (orderly /\ Rules(t, r, readable))
    /\ UNCHANGED <<pre, kind, broker, made, built, mutex>>

(* A batch message of one word: the name of the output file is NULL, of    *)
(* which no string can be made, and the process ends.                      *)
BatchOneWord(t) ==
    /\ Running /\ handler[t] = Idle
    /\ status' = "abort"
    /\ orderly' = (orderly /\ Rules(t, "batch", FALSE))
    /\ UNCHANGED <<pre, kind, broker, made, live, built, worker, handler, mutex>>

CreateNew(t) ==
    /\ Running /\ handler[t].step = "new" /\ made < MaxSessions
    /\ made' = made + 1
    /\ live' = live \cup {made'}
    /\ pre' = made'
    /\ kind' = [kind EXCEPT ![made'] = handler[t].req]
    /\ handler' = [handler EXCEPT ![t].step = "build", ![t].of = made']
    /\ UNCHANGED <<broker, built, worker, mutex, status, orderly>>

(* parse and simulate.                                                     *)
BuildEmulation(s) == built' = built \cup {s}

(* parse and forward, which goes on when a node cannot be reached: there   *)
(* are no component objects before the first round of the monitor.         *)
BuildTestbed == UNCHANGED built

CreateBuild(t) ==
    /\ Running /\ handler[t].step = "build"
    /\ IF handler[t].of \in live
       THEN /\ IF handler[t].req = "testbed" THEN BuildTestbed ELSE BuildEmulation(handler[t].of)
            /\ Step(t, "start")
            /\ UNCHANGED status
       ELSE /\ status' = "freed"
            /\ UNCHANGED <<built, handler>>
    /\ UNCHANGED <<pre, kind, broker, made, live, worker, mutex, orderly>>

(* ancillary_threads_start, or getTestbedStatus.                           *)
CreateStart(t) ==
    /\ Running /\ handler[t].step = "start"
    /\ IF handler[t].of \in live
       THEN /\ worker' = [worker EXCEPT ![handler[t].of] =
                             IF handler[t].req = "testbed" THEN "wait" ELSE "out"]
            /\ Done(t)
            /\ UNCHANGED status
       ELSE /\ status' = "freed"
            /\ UNCHANGED <<worker, handler>>
    /\ UNCHANGED <<pre, kind, broker, made, live, built, mutex, orderly>>

\* mutant: pre is deleted and keeps its value
ShutdownNullNot(t) ==
    /\ Running /\ handler[t].step = "null"
    /\ Done(t)
    /\ UNCHANGED <<pre, kind, broker, made, live, built, worker, mutex, status, orderly>>

ShutdownNull(t) ==
    /\ Running /\ handler[t].step = "null"
    /\ pre' = Null
    /\ Done(t)
    /\ UNCHANGED <<kind, broker, made, live, built, worker, mutex, status, orderly>>

(* "Shut down session:".                                                   *)
Shutdown(t) ==
    /\ Running /\ handler[t] = Idle
    /\ IF pre = Null
       THEN UNCHANGED handler
       ELSE handler' = [handler EXCEPT ![t] = [step |-> "delete", req |-> "shutdown", of |-> Null]]
    /\ orderly' = (orderly /\ Rules(t, "shutdown", TRUE))
    /\ UNCHANGED <<pre, kind, broker, made, live, built, worker, mutex, status>>

\* mutant: pre is set to NULL and its session kept
ShutdownKeep(t) ==
    /\ Running /\ handler[t].step = "delete"
    /\ Step(t, "null")
    /\ UNCHANGED <<pre, kind, broker, made, live, built, worker, mutex, status, orderly>>

ShutdownDelete(t) ==
    /\ Running /\ handler[t].step = "delete"
    /\ IF pre # Null THEN Delete(pre) ELSE UNCHANGED <<live, worker, status>>
    /\ Step(t, "null")
    /\ UNCHANGED <<pre, kind, broker, made, built, mutex, orderly>>

-----------------------------------------------------------------------------
(* "Power master:": the broker is deleted, then made again.                *)
PowerMaster(t) ==
    /\ Running /\ handler[t] = Idle
    /\ broker' = IF broker = "none" THEN "none" ELSE "deleted"
    /\ handler' = [handler EXCEPT ![t] = [step |-> "broker", req |-> "master", of |-> Null]]
    /\ orderly' = (orderly /\ Rules(t, "master", TRUE))
    /\ UNCHANGED <<pre, kind, made, live, built, worker, mutex, status>>

NewBroker(t) ==
    /\ Running /\ handler[t].step = "broker"
    /\ broker' = "set"
    /\ Done(t)
    /\ UNCHANGED <<pre, kind, made, live, built, worker, mutex, status, orderly>>

(* Broker::forward: the process ends when the master cannot be reached.    *)
Forward(reached) ==
    status' = CASE broker = "none"    -> "running"
                [] broker = "deleted" -> "freed"
                [] broker = "set"     -> IF reached THEN "running" ELSE "exit"

\* a request for the session: forwarded when there is none
Request(t, r, reached) ==
    /\ Running /\ handler[t] = Idle /\ r \in Requests \ Changes
    /\ IF pre = Null /\ r \notin Unchecked
       THEN /\ Forward(reached)
            /\ UNCHANGED handler
       ELSE /\ handler' = [handler EXCEPT ![t] =
                              [step |-> IF r \in {"update", "push"} THEN "lock" ELSE "look",
                               req |-> r, of |-> Null]]
            /\ UNCHANGED status
    /\ orderly' = (orderly /\ Rules(t, r, TRUE))
    /\ UNCHANGED <<pre, kind, broker, made, live, built, worker, mutex>>

\* functions of a testbed session that look at nothing and return nothing
Hollow(t, s) == kind[s] = "testbed" /\ handler[t].req \in {"retrieve", "info"}

\* pre is followed
Follow(t, step) ==
    IF pre \in live /\ (pre \in built \/ Hollow(t, pre))
    THEN /\ handler' = [handler EXCEPT ![t].step = step, ![t].of = pre]
         /\ UNCHANGED status
    ELSE /\ status' = CASE pre = Null     -> "null"
                        [] pre \in live   -> "unbuilt"
                        [] OTHER          -> "freed"
         /\ UNCHANGED handler

\* mutant: pre is followed without the mutex
LockNot(t) ==
    /\ Running /\ handler[t].step = "lock"
    /\ Follow(t, "using")
    /\ UNCHANGED <<pre, kind, broker, made, live, built, worker, mutex, orderly>>

(* pthread_mutex_lock, and the call it protects.                           *)
Lock(t) ==
    /\ Running /\ handler[t].step = "lock" /\ mutex = NoOne
    /\ mutex' = t
    /\ Follow(t, "using")
    /\ UNCHANGED <<pre, kind, broker, made, live, built, worker, orderly>>

Unlock(t) ==
    /\ Running /\ handler[t].step = "using"
    /\ IF handler[t].of \in live
       THEN /\ mutex' = IF mutex = t THEN NoOne ELSE mutex
            /\ Done(t)
            /\ UNCHANGED status
       ELSE /\ status' = "freed"
            /\ UNCHANGED <<mutex, handler>>
    /\ UNCHANGED <<pre, kind, broker, made, live, built, worker, orderly>>

(* "Retrieve session:", "Get coordinator ip:", "Request session power      *)
(* info:": without the mutex.  A string that was not returned is sent, or  *)
(* ends the process.                                                       *)
Look(t) ==
    /\ Running /\ handler[t].step = "look"
    /\ Follow(t, "reading")
    /\ UNCHANGED <<pre, kind, broker, made, live, built, worker, mutex, orderly>>

Reply(t) ==
    /\ Running /\ handler[t].step = "reading"
    /\ IF handler[t].of \in live
       THEN \/ /\ Done(t)
               /\ UNCHANGED status
            \/ /\ Hollow(t, handler[t].of)
               /\ status' = "noResult"
               /\ UNCHANGED handler
       ELSE /\ status' = "freed"
            /\ UNCHANGED handler
    /\ UNCHANGED <<pre, kind, broker, made, live, built, worker, mutex, orderly>>

-----------------------------------------------------------------------------
\* step of a session's thread
Works(s, from, to) ==
    /\ Running /\ worker[s] = from
    /\ worker' = [worker EXCEPT ![s] = to]
    /\ UNCHANGED <<pre, kind, broker, made, live, handler, orderly>>

(* real_time_report and storage_monitor: no mutex.                         *)
AncillaryWakes(s) == Works(s, "out", "in") /\ UNCHANGED <<built, mutex, status>>
AncillarySleeps(s) == Works(s, "in", "out") /\ UNCHANGED <<built, mutex, status>>

(* testbed_monitor: the nodes are asked, the loads balanced, the GUI told, *)
(* all with the mutex.                                                     *)
MonitorLocks(s) ==
    /\ mutex = NoOne
    /\ mutex' = s
    /\ \/ Works(s, "wait", "asking")
       \/ Works(s, "doomed-wait", "gone")
    /\ UNCHANGED <<built, status>>

MonitorAsks(s) == Works(s, "asking", "using") /\ UNCHANGED <<built, mutex, status>>

\* a node that cannot be reached ends the process
MonitorFails(s) ==
    /\ Running /\ worker[s] = "asking"
    /\ status' = "exit"
    /\ UNCHANGED <<pre, kind, broker, made, live, built, worker, handler, mutex, orderly>>

MonitorBalances(s) ==
    /\ Works(s, "using", "telling")
    /\ built' = built \cup {s}
    /\ UNCHANGED <<mutex, status>>

\* mutant: the round ends with the mutex
MonitorUnlocksNot(s) ==
    Works(s, "telling", "nap") /\ UNCHANGED <<built, mutex, status>>

MonitorUnlocks(s) ==
    /\ Works(s, "telling", "nap")
    /\ mutex' = NoOne
    /\ UNCHANGED <<built, status>>

MonitorWakes(s) == Works(s, "nap", "wait") /\ UNCHANGED <<built, mutex, status>>

(* A cancelled thread inside its session finds it deleted, or comes to a   *)
(* cancellation point first.                                               *)
Doomed(s) ==
    /\ Running /\ worker[s] \in {"doomed-in", "doomed-using"}
    /\ \/ /\ status' = "doomed"
          /\ UNCHANGED worker
       \/ /\ worker' = [worker EXCEPT ![s] = "gone"]
          /\ UNCHANGED status
    /\ UNCHANGED <<pre, kind, broker, made, live, built, handler, mutex, orderly>>

-----------------------------------------------------------------------------
Init ==
    /\ pre = Null /\ broker = "none"
    /\ kind = [s \in Sessions |-> "none"]
    /\ made = 0 /\ live = {} /\ built = {}
    /\ worker = [s \in Sessions |-> "none"]
    /\ handler = [t \in Thread |-> Idle]
    /\ mutex = NoOne
    /\ status = "running" /\ orderly = TRUE

Handle(t) ==
    \/ CreateNew(t) \/ CreateBuild(t) \/ CreateStart(t)
    \/ ShutdownDelete(t) \/ ShutdownNull(t) \/ NewBroker(t)
    \/ Lock(t) \/ Unlock(t) \/ Look(t) \/ Reply(t)

Work(s) ==
    \/ MonitorLocks(s) \/ MonitorAsks(s) \/ MonitorFails(s) \/ MonitorBalances(s)
    \/ MonitorUnlocks(s) \/ MonitorWakes(s) \/ Doomed(s) \/ AncillarySleeps(s)

Next ==
    \/ \E t \in Thread, r \in Makes, readable \in BOOLEAN : CreateDelete(t, r, readable)
    \/ \E t \in Thread : Shutdown(t) \/ PowerMaster(t) \/ BatchOneWord(t)
    \/ \E t \in Thread, r \in Requests, reached \in BOOLEAN : Request(t, r, reached)
    \/ \E t \in Thread : Handle(t)
    \/ \E s \in Sessions : AncillaryWakes(s) \/ Work(s)

(* Threads are scheduled.                                                  *)
Spec ==
    /\ Init /\ [][Next]_vars
    /\ \A t \in Thread : WF_vars(Handle(t))
    /\ \A s \in Sessions : WF_vars(Work(s))

-----------------------------------------------------------------------------
(* A session whose threads are not cancelled is there, and the ones that   *)
(* take no mutex found its components made.                                *)
TypeOK ==
    /\ pre \in {Null} \cup Sessions
    /\ broker \in {"none", "set", "deleted"}
    /\ made \in 0 .. MaxSessions
    /\ kind \in [Sessions -> Makes \cup {"none"}]
    /\ live \subseteq Sessions /\ built \subseteq Sessions
    /\ mutex \in Thread \cup Sessions \cup {NoOne}
    /\ status \in {"running", "null", "freed", "unbuilt", "noResult", "doomed", "exit", "abort"}
    /\ orderly \in BOOLEAN
    /\ \A t \in Thread : handler[t].of \in {Null} \cup Sessions
    /\ \A s \in Sessions : /\ worker[s] # "none" => s <= made
                           /\ worker[s] \in {"out", "in"} => s \in live \cap built

InSession == {t \in Thread : handler[t].step = "using"}
Monitoring == {s \in Sessions : worker[s] \in {"asking", "using", "telling", "doomed-using"}}

(* No two updates, messages of the coordinator or rounds of a testbed      *)
(* monitor are at work at once, and the one that is has the mutex, also    *)
(* when sessions are deleted and made in between.                          *)
UpdatesExclude ==
    \A x \in InSession \cup Monitoring : mutex = x

(* Clients that keep to Rules never make the dispatcher follow a null      *)
(* pointer, a deleted session or one that is not ready.                    *)
OrderlyIsSafe == orderly => status \notin {"null", "freed", "unbuilt"}

(* For such clients no session is lost: between requests the sessions not  *)
(* deleted are the one pre points to, if any.                              *)
NoLostSession ==
    orderly /\ Running /\ (\A t \in Thread : handler[t].step = "idle") =>
        live = IF pre = Null THEN {} ELSE {pre}

(* A deleted session that still has the mutex: its monitor was cancelled   *)
(* between lock and unlock.                                                *)
Stuck == mutex \in Sessions /\ worker[mutex] = "gone"

(* The mutex comes free again, unless it went with a testbed monitor.      *)
MutexComesFree == mutex # NoOne ~> (mutex = NoOne \/ Stuck \/ ~ Running)
=============================================================================
