--------------------------- MODULE SessionProofs ---------------------------
(***************************************************************************)
(* Theorems about Session, for any set of handler threads and any number   *)
(* of sessions.                                                            *)
(***************************************************************************)
EXTENDS Session, TLAPS

Steps == {"idle", "new", "build", "start", "delete", "null", "broker", "lock", "using", "look", "reading"}
Workers == {"none", "out", "in", "wait", "asking", "using", "telling", "nap",
            "doomed-in", "doomed-wait", "doomed-using", "gone"}

(* The types of what the proofs look into.                                 *)
Types ==
    /\ handler \in [Thread -> [step : Steps, req : Requests \cup {"none"}, of : Nat]]
    /\ worker \in [Sessions -> Workers]
    /\ pre \in Nat /\ made \in Nat
    /\ live \subseteq Sessions
    /\ broker \in {"none", "set", "deleted"}

LEMMA InitTypes == Init => Types
  BY DEF Init, Types, Idle, Null, Steps, Requests, Workers

LEMMA CancelledType ==
    ASSUME NEW w \in Workers
    PROVE  Cancelled(w) \in Workers
  BY DEF Cancelled, Workers

LEMMA DeleteTypes ==
    ASSUME Types, NEW s, Delete(s)
    PROVE  worker' \in [Sessions -> Workers] /\ live' \subseteq Sessions
  <1>1. CASE s \in live /\ worker[s] # "none"
    <2>1. worker[s] \in Workers
      BY <1>1 DEF Types
    <2>2. QED
      BY <1>1, <2>1, CancelledType DEF Delete, Types
  <1>2. CASE ~ (s \in live /\ worker[s] # "none")
    BY <1>2 DEF Delete, Types
  <1>3. QED
    BY <1>1, <1>2

LEMMA NextTypes == Types /\ [Next]_vars => Types'
  <1> SUFFICES ASSUME Types, [Next]_vars
               PROVE  Types'
    OBVIOUS
  <1> USE SessionAssumption
  <1>1. ASSUME NEW t \in Thread, NEW r \in Makes, NEW b \in BOOLEAN, CreateDelete(t, r, b)
        PROVE  Types'
    <2>1. worker' \in [Sessions -> Workers] /\ live' \subseteq Sessions
      BY <1>1, DeleteTypes DEF CreateDelete, Types
    <2>2. handler' \in [Thread -> [step : Steps, req : Requests \cup {"none"}, of : Nat]]
      BY <1>1 DEF CreateDelete, Types, Done, Idle, Null, Steps, Requests, Changes, Makes, Unchecked
    <2>3. QED
      BY <1>1, <2>1, <2>2 DEF CreateDelete, Types
  <1>2. ASSUME NEW t \in Thread, Shutdown(t) \/ PowerMaster(t)
        PROVE  Types'
    <2>1. CASE Shutdown(t)
      BY <2>1 DEF Shutdown, Types, Null, Steps, Requests, Changes
    <2>2. CASE PowerMaster(t)
      BY <2>2 DEF PowerMaster, Types, Null, Steps, Requests, Changes
    <2>3. QED
      BY <1>2, <2>1, <2>2
  <1>3. ASSUME NEW t \in Thread, NEW r \in Requests, NEW b \in BOOLEAN, Request(t, r, b)
        PROVE  Types'
    BY <1>3 DEF Request, Types, Null, Steps, Requests, Changes, Makes, Unchecked
  <1>4. ASSUME NEW t \in Thread, Handle(t)
        PROVE  Types'
    <2>1. CASE CreateNew(t)
      <3>1. made' \in Nat /\ made' \in Sessions
        BY <2>1 DEF CreateNew, Types, Sessions
      <3>2. handler' \in [Thread -> [step : Steps, req : Requests \cup {"none"}, of : Nat]]
        <4>1. [handler[t] EXCEPT !.step = "build", !.of = made'] \in [step : Steps, req : Requests \cup {"none"}, of : Nat]
          BY <3>1, <1>4 DEF Types, Steps
        <4>2. handler' = [handler EXCEPT ![t] = [handler[t] EXCEPT !.step = "build", !.of = made']]
          BY <2>1, <1>4 DEF CreateNew, Types
        <4>3. QED
          BY <4>1, <4>2, <1>4 DEF Types
      <3>3. QED
        BY <2>1, <3>1, <3>2 DEF CreateNew, Types
    <2>2. CASE CreateBuild(t)
      BY <2>2, <1>4 DEF CreateBuild, Types, Step, Steps
    <2>3. CASE CreateStart(t)
      BY <2>3, <1>4 DEF CreateStart, Types, Done, Idle, Null, Steps, Workers
    <2>4. CASE ShutdownDelete(t)
      <3>1. worker' \in [Sessions -> Workers] /\ live' \subseteq Sessions
        BY <2>4, DeleteTypes DEF ShutdownDelete, Types
      <3>2. QED
        BY <2>4, <1>4, <3>1 DEF ShutdownDelete, Types, Step, Steps
    <2>5. CASE ShutdownNull(t) \/ NewBroker(t)
      BY <2>5, <1>4 DEF ShutdownNull, NewBroker, Types, Done, Idle, Null, Steps, Workers
    <2>6. CASE Lock(t) \/ Look(t)
      BY <2>6, <1>4 DEF Lock, Look, Follow, Types, Steps
    <2>7. CASE Unlock(t) \/ Reply(t)
      BY <2>7, <1>4 DEF Unlock, Reply, Types, Done, Idle, Null, Steps, Workers
    <2>8. QED
      BY <1>4, <2>1, <2>2, <2>3, <2>4, <2>5, <2>6, <2>7 DEF Handle
  <1>5. ASSUME NEW s \in Sessions, AncillaryWakes(s) \/ Work(s)
        PROVE  Types'
    BY <1>5 DEF AncillaryWakes, Work, Works, MonitorLocks, MonitorAsks, MonitorFails, MonitorBalances,
                MonitorUnlocks, MonitorWakes, Doomed, AncillarySleeps, Types, Workers
  <1>6. CASE UNCHANGED vars
    BY <1>6 DEF vars, Types
  <1>7. ASSUME NEW t \in Thread, BatchOneWord(t)
        PROVE  Types'
    BY <1>7 DEF BatchOneWord, Types
  <1>8. QED
    BY <1>1, <1>2, <1>3, <1>4, <1>5, <1>6, <1>7 DEF Next

(* Threads, the pointer pre, the broker, the mutex and the sessions with    *)
(* their threads keep their types, whatever requests come in which order.  *)
THEOREM TypesAlways == Spec => []Types
  BY InitTypes, NextTypes, PTL DEF Spec

-----------------------------------------------------------------------------
LEMMA InitExclude == Init => UpdatesExclude
  BY DEF Init, UpdatesExclude, InSession, Monitoring, Idle

\* who owns the mutex can be told apart
LEMMA OwnersApart ==
    ASSUME NEW x \in Thread \cup Sessions
    PROVE  x # NoOne
  BY SessionAssumption DEF Sessions, NoOne

\* nobody comes to work and the mutex stays where it is
LEMMA KeepsExcluding ==
    ASSUME UpdatesExclude, InSession' \subseteq InSession, Monitoring' \subseteq Monitoring, mutex' = mutex
    PROVE  UpdatesExclude'
  BY DEF UpdatesExclude

\* a cancelled monitor was at work before
LEMMA DeleteMonitoring ==
    ASSUME Types, NEW p, Delete(p)
    PROVE  Monitoring' \subseteq Monitoring
  <1>1. CASE p \in live /\ worker[p] # "none"
    <2> SUFFICES ASSUME NEW s \in Sessions, worker'[s] \in {"asking", "using", "telling", "doomed-using"}
                 PROVE  worker[s] \in {"asking", "using", "telling", "doomed-using"}
      BY DEF Monitoring
    <2>1. CASE s = p
      <3>1. worker'[s] = Cancelled(worker[s])
        BY <1>1, <2>1 DEF Delete, Types
      <3>2. QED
        BY <3>1 DEF Cancelled
    <2>2. CASE s # p
      BY <1>1, <2>2 DEF Delete, Types
    <2>3. QED
      BY <2>1, <2>2
  <1>2. CASE ~ (p \in live /\ worker[p] # "none")
    BY <1>2 DEF Delete, Monitoring
  <1>3. QED
    BY <1>1, <1>2

LEMMA NextExclude == Types /\ UpdatesExclude /\ [Next]_vars => UpdatesExclude'
  <1> SUFFICES ASSUME Types, UpdatesExclude, [Next]_vars
               PROVE  UpdatesExclude'
    OBVIOUS
  <1>1. ASSUME NEW t \in Thread, NEW r \in Makes, NEW b \in BOOLEAN, CreateDelete(t, r, b)
        PROVE  UpdatesExclude'
    <2>1. Monitoring' \subseteq Monitoring
      BY <1>1, DeleteMonitoring DEF CreateDelete, Monitoring
    <2>2. InSession' \subseteq InSession
      BY <1>1 DEF CreateDelete, Types, InSession, Done, Idle
    <2>3. QED
      BY <1>1, <2>1, <2>2, KeepsExcluding DEF CreateDelete
  <1>2. ASSUME NEW t \in Thread, Shutdown(t) \/ PowerMaster(t)
        PROVE  UpdatesExclude'
    <2>1. Monitoring' \subseteq Monitoring /\ mutex' = mutex
      BY <1>2 DEF Shutdown, PowerMaster, Monitoring
    <2>2. InSession' \subseteq InSession
      <3>1. CASE Shutdown(t)
        BY <3>1 DEF Shutdown, Types, InSession
      <3>2. CASE PowerMaster(t)
        BY <3>2 DEF PowerMaster, Types, InSession
      <3>3. QED
        BY <1>2, <3>1, <3>2
    <2>3. QED
      BY <2>1, <2>2, KeepsExcluding
  <1>3. ASSUME NEW t \in Thread, NEW r \in Requests, NEW b \in BOOLEAN, Request(t, r, b)
        PROVE  UpdatesExclude'
    <2>1. Monitoring' \subseteq Monitoring /\ mutex' = mutex
      BY <1>3 DEF Request, Monitoring
    <2>2. InSession' \subseteq InSession
      BY <1>3 DEF Request, Types, InSession
    <2>3. QED
      BY <2>1, <2>2, KeepsExcluding
  <1>4. ASSUME NEW t \in Thread, Handle(t)
        PROVE  UpdatesExclude'
    <2>1. CASE CreateNew(t) \/ CreateBuild(t) \/ ShutdownNull(t) \/ NewBroker(t) \/ Look(t) \/ Reply(t)
      <3>1. Monitoring' \subseteq Monitoring /\ mutex' = mutex
        BY <2>1 DEF CreateNew, CreateBuild, ShutdownNull, NewBroker, Look, Reply, Monitoring
      <3>2. InSession' \subseteq InSession
        <4>1. CASE CreateNew(t) \/ CreateBuild(t)
          BY <4>1 DEF CreateNew, CreateBuild, Step, Types, InSession
        <4>2. CASE ShutdownNull(t) \/ NewBroker(t)
          BY <4>2 DEF ShutdownNull, NewBroker, Done, Idle, Types, InSession
        <4>3. CASE Look(t)
          BY <4>3 DEF Look, Follow, Types, InSession
        <4>4. CASE Reply(t)
          BY <4>4 DEF Reply, Done, Idle, Types, InSession
        <4>5. QED
          BY <2>1, <4>1, <4>2, <4>3, <4>4
      <3>3. QED
        BY <3>1, <3>2, KeepsExcluding
    <2>2. CASE CreateStart(t)
      <3>1. Monitoring' \subseteq Monitoring
        BY <2>2 DEF CreateStart, Monitoring, Types
      <3>2. InSession' \subseteq InSession /\ mutex' = mutex
        BY <2>2 DEF CreateStart, Done, Idle, Types, InSession
      <3>3. QED
        BY <3>1, <3>2, KeepsExcluding
    <2>3. CASE ShutdownDelete(t)
      <3>1. Monitoring' \subseteq Monitoring
        BY <2>3, DeleteMonitoring DEF ShutdownDelete, Monitoring
      <3>2. InSession' \subseteq InSession /\ mutex' = mutex
        BY <2>3 DEF ShutdownDelete, Step, Types, InSession
      <3>3. QED
        BY <3>1, <3>2, KeepsExcluding
    <2>4. CASE Lock(t)
      <3>1. InSession = {} /\ Monitoring = {}
        BY <2>4, OwnersApart DEF Lock, UpdatesExclude, InSession, Monitoring
      <3>2. Monitoring' = {}
        BY <2>4, <3>1 DEF Lock, Monitoring
      <3>3. InSession' \subseteq {t}
        BY <2>4, <3>1 DEF Lock, Follow, InSession, Types
      <3>4. QED
        BY <2>4, <3>2, <3>3 DEF Lock, UpdatesExclude
    <2>5. CASE Unlock(t)
      <3>1. mutex = t
        BY <2>5, <1>4 DEF Unlock, UpdatesExclude, InSession
      <3>2. Monitoring' = Monitoring
        BY <2>5 DEF Unlock, Monitoring
      <3>3. Monitoring = {} /\ InSession \subseteq {t}
        BY <3>1, SessionAssumption DEF UpdatesExclude, Monitoring, Sessions
      <3>4. CASE handler[t].of \in live
        <4>1. InSession' = {}
          BY <2>5, <3>3, <3>4 DEF Unlock, Done, Idle, InSession, Types
        <4>2. QED
          BY <4>1, <3>2, <3>3 DEF UpdatesExclude
      <3>5. CASE handler[t].of \notin live
        BY <2>5, <3>5, <3>2, KeepsExcluding DEF Unlock, InSession
      <3>6. QED
        BY <3>4, <3>5
    <2>6. QED
      BY <1>4, <2>1, <2>2, <2>3, <2>4, <2>5 DEF Handle
  <1>5. ASSUME NEW s \in Sessions, AncillaryWakes(s) \/ Work(s)
        PROVE  UpdatesExclude'
    <2>1. InSession' = InSession
      BY <1>5 DEF AncillaryWakes, Work, Works, MonitorLocks, MonitorAsks, MonitorFails, MonitorBalances,
                  MonitorUnlocks, MonitorWakes, Doomed, AncillarySleeps, InSession
    <2>2. CASE MonitorLocks(s)
      <3>1. InSession = {} /\ Monitoring = {}
        BY <2>2, OwnersApart DEF MonitorLocks, UpdatesExclude, InSession, Monitoring
      <3>2. Monitoring' \subseteq {s}
        BY <2>2, <3>1 DEF MonitorLocks, Works, Monitoring, Types
      <3>3. QED
        BY <2>1, <2>2, <3>1, <3>2 DEF MonitorLocks, UpdatesExclude
    <2>3. CASE MonitorUnlocks(s)
      <3>1. mutex = s
        BY <2>3 DEF MonitorUnlocks, Works, UpdatesExclude, Monitoring
      <3>2. InSession = {} /\ Monitoring \subseteq {s}
        BY <3>1, SessionAssumption DEF UpdatesExclude, InSession, Sessions
      <3>3. Monitoring' = {}
        BY <2>3, <3>2 DEF MonitorUnlocks, Works, Monitoring, Types
      <3>4. QED
        BY <2>1, <3>2, <3>3 DEF UpdatesExclude
    <2>4. CASE ~ MonitorLocks(s) /\ ~ MonitorUnlocks(s)
      <3>1. mutex' = mutex
        BY <1>5, <2>4 DEF AncillaryWakes, Work, MonitorAsks, MonitorFails, MonitorBalances,
                          MonitorWakes, Doomed, AncillarySleeps
      <3>2. Monitoring' \subseteq Monitoring
        BY <1>5, <2>4 DEF AncillaryWakes, Work, Works, MonitorAsks, MonitorFails, MonitorBalances,
                          MonitorWakes, Doomed, AncillarySleeps, Monitoring, Types
      <3>3. QED
        BY <2>1, <3>1, <3>2, KeepsExcluding
    <2>5. QED
      BY <2>2, <2>3, <2>4
  <1>6. CASE UNCHANGED vars
    BY <1>6 DEF vars, UpdatesExclude, InSession, Monitoring
  <1>7. ASSUME NEW t \in Thread, BatchOneWord(t)
        PROVE  UpdatesExclude'
    BY <1>7 DEF BatchOneWord, UpdatesExclude, InSession, Monitoring
  <1>8. QED
    BY <1>1, <1>2, <1>3, <1>4, <1>5, <1>6, <1>7 DEF Next

(* Whatever clients do, no two updates, messages of the coordinator or     *)
(* rounds of a testbed monitor are at work at once (the mutex of           *)
(* powersimulation/main.cpp and thread_functions.cpp:166-345).             *)
THEOREM Exclusion == Spec => []UpdatesExclude
  <1>1. Spec => []Types
    BY TypesAlways
  <1>2. QED
    BY <1>1, InitExclude, NextExclude, PTL DEF Spec

-----------------------------------------------------------------------------
(* What the sessions are like while all clients have kept to Rules.  A     *)
(* request that makes or ends a session is alone; while it is at work      *)
(* there is no session, or the one it makes; otherwise pre points to the   *)
(* only one, and its threads were started.                                 *)
Settled == IF pre = Null THEN live = {} ELSE live = {pre} /\ worker[pre] # "none"
Quiet == \A t \in Thread : handler[t].step \notin {"new", "build", "start", "null"}
Alone == \A t, u \in Thread : handler[t].req \in Changes => u = t \/ handler[u].step = "idle"
Served == pre # Null /\ pre \in built
BrokerThere == broker = "deleted" => \E t \in Thread : handler[t].step = "broker"

Stage(t) ==
    \/ handler[t] = Idle
    \/ handler[t].step = "new" /\ handler[t].req \in Makes /\ live = {}
    \/ /\ handler[t].step \in {"build", "start"} /\ handler[t].req \in Makes
       /\ handler[t].of = pre /\ pre # Null /\ live = {pre}
    \/ handler[t].step = "delete" /\ handler[t].req = "shutdown" /\ pre # Null
    \/ handler[t].step = "null" /\ handler[t].req = "shutdown" /\ live = {}
    \/ handler[t].step = "broker" /\ handler[t].req = "master"
    \/ handler[t].step \in {"lock", "look"} /\ handler[t].req \in Requests \ Changes /\ Served
    \/ /\ handler[t].step \in {"using", "reading"} /\ handler[t].req \in Requests \ Changes /\ Served
       /\ handler[t].of = pre

OrderlyInv ==
    orderly /\ Running =>
        /\ Alone /\ BrokerThere
        /\ \A t \in Thread : Stage(t)
        /\ Quiet => Settled

LEMMA InitOrderly == Init => OrderlyInv
  BY DEF Init, OrderlyInv, Alone, BrokerThere, Stage, Settled, Idle, Changes, Makes

\* only one thread has a request
LEMMA Solo ==
    ASSUME NEW t \in Thread, \A u \in Thread \ {t} : handler'[u] = Idle,
           Stage(t)', BrokerThere', Quiet' => Settled'
    PROVE  OrderlyInv'
  <1>1. \A u \in Thread \ {t} : Stage(u)'
    BY DEF Stage
  <1>2. Alone'
    BY DEF Alone, Idle, Changes, Makes
  <1>3. QED
    BY <1>1, <1>2 DEF OrderlyInv

\* no thread has a request that changes the session
LEMMA Clients ==
    ASSUME \A u \in Thread : handler'[u].req \notin Changes,
           \A u \in Thread : Stage(u)', BrokerThere', Settled'
    PROVE  OrderlyInv'
  BY DEF OrderlyInv, Alone

\* a thread that changes the session is alone
LEMMA ChangesAlone ==
    ASSUME OrderlyInv, orderly, Running, NEW t \in Thread, handler[t].req \in Changes
    PROVE  \A u \in Thread \ {t} : handler[u] = Idle
  BY DEF OrderlyInv, Alone, Stage, Idle

\* with nobody who changes the session, pre points to the only one
LEMMA NobodySettled ==
    ASSUME OrderlyInv, orderly, Running, \A u \in Thread : handler[u].req \notin Changes
    PROVE  Settled /\ broker # "deleted"
  <1>1. \A u \in Thread : handler[u].step \notin {"new", "build", "start", "null", "broker"}
    BY DEF OrderlyInv, Stage, Idle, Changes
  <1>2. QED
    BY <1>1 DEF OrderlyInv, Quiet, BrokerThere

\* while a client is served nobody changes the session
LEMMA ClientsOnly ==
    ASSUME OrderlyInv, orderly, Running, NEW t \in Thread,
           handler[t].step \in {"lock", "look", "using", "reading"}
    PROVE  /\ \A u \in Thread : handler[u].req \notin Changes
           /\ Settled /\ Served /\ pre \in live /\ broker # "deleted"
  <1>1. handler[t].req \notin Changes /\ handler[t].step # "idle" /\ Served
    BY DEF OrderlyInv, Stage, Idle, Changes, Makes
  <1>2. \A u \in Thread : handler[u].req \notin Changes
    BY <1>1 DEF OrderlyInv, Alone
  <1>3. Settled /\ broker # "deleted"
    BY <1>2, NobodySettled
  <1>4. QED
    BY <1>1, <1>2, <1>3 DEF Settled, Served

LEMMA DeleteSettled ==
    ASSUME Settled, pre # Null, Delete(pre)
    PROVE  live' = {} /\ status' = status
  BY DEF Settled, Delete

LEMMA NextOrderly ==
    ASSUME Types, OrderlyInv, orderly, Running, Next, orderly'
    PROVE  /\ status' \notin {"null", "freed", "unbuilt"}
           /\ Running' => OrderlyInv'
  <1> DEFINE Bad == {"null", "freed", "unbuilt"}
  <1> USE DEF Running
  <1>1. ASSUME NEW t \in Thread, NEW r \in Makes, NEW b \in BOOLEAN, CreateDelete(t, r, b)
        PROVE  status' \notin Bad /\ OrderlyInv'
    <2>1. r \in Changes /\ Others(t) = {} /\ handler[t] = Idle /\ ~ (r = "batch" /\ ~ b)
      BY <1>1 DEF CreateDelete, Rules, Changes
    <2>2. \A u \in Thread : handler[u] = Idle
      BY <2>1 DEF Others, OrderlyInv, Stage, Idle
    <2>3. Settled /\ broker # "deleted"
      BY <2>2, NobodySettled DEF Idle, Changes, Makes
    <2>4. live' = {} /\ status' = status
      BY <1>1, <2>3, DeleteSettled DEF CreateDelete, Settled
    <2>5. handler' = [handler EXCEPT ![t] = [step |-> "new", req |-> r, of |-> Null]]
      BY <1>1, <2>1 DEF CreateDelete
    <2>6. \A u \in Thread \ {t} : handler'[u] = Idle
      BY <2>2, <2>5 DEF Types
    <2>7. handler'[t] = [step |-> "new", req |-> r, of |-> Null]
      BY <2>5 DEF Types
    <2>8. Stage(t)' /\ ~ Quiet'
      BY <2>4, <2>7 DEF Stage, Quiet
    <2>9. BrokerThere'
      BY <1>1, <2>3 DEF CreateDelete, BrokerThere
    <2>10. QED
      BY <2>4, <2>6, <2>8, <2>9, Solo
  <1>2. ASSUME NEW t \in Thread, Shutdown(t)
        PROVE  status' \notin Bad /\ OrderlyInv'
    <2>1. Others(t) = {} /\ handler[t] = Idle /\ status' = status
      BY <1>2 DEF Shutdown, Rules, Changes
    <2>2. \A u \in Thread : handler[u] = Idle
      BY <2>1 DEF Others, OrderlyInv, Stage, Idle
    <2>3. Settled /\ broker # "deleted"
      BY <2>2, NobodySettled DEF Idle, Changes, Makes
    <2>4. \A u \in Thread \ {t} : handler'[u] = Idle
      BY <1>2, <2>2 DEF Shutdown, Types
    <2>5. Stage(t)'
      BY <1>2, <2>2 DEF Shutdown, Types, Stage
    <2>6. Settled' /\ BrokerThere'
      BY <1>2, <2>3 DEF Shutdown, Settled, BrokerThere
    <2>7. QED
      BY <2>1, <2>4, <2>5, <2>6, Solo
  <1>3. ASSUME NEW t \in Thread, PowerMaster(t)
        PROVE  status' \notin Bad /\ OrderlyInv'
    <2>1. Others(t) = {} /\ handler[t] = Idle /\ status' = status
      BY <1>3 DEF PowerMaster, Rules, Changes
    <2>2. \A u \in Thread : handler[u] = Idle
      BY <2>1 DEF Others, OrderlyInv, Stage, Idle
    <2>3. Settled
      BY <2>2, NobodySettled DEF Idle, Changes, Makes
    <2>4. \A u \in Thread \ {t} : handler'[u] = Idle
      BY <1>3, <2>2 DEF PowerMaster, Types
    <2>5. handler'[t] = [step |-> "broker", req |-> "master", of |-> Null]
      BY <1>3 DEF PowerMaster, Types
    <2>6. Stage(t)' /\ BrokerThere'
      BY <2>5 DEF Stage, BrokerThere
    <2>7. Settled'
      BY <1>3, <2>3 DEF PowerMaster, Settled
    <2>8. QED
      BY <2>1, <2>4, <2>6, <2>7, Solo
  <1>4. ASSUME NEW t \in Thread, NEW r \in Requests, NEW b \in BOOLEAN, Request(t, r, b)
        PROVE  status' \notin Bad /\ (Running' => OrderlyInv')
    <2>1. /\ handler[t] = Idle /\ r \in Requests \ Changes
          /\ \A u \in Others(t) : handler[u].req \notin Changes
          /\ r \in Unchecked => pre # Null
          /\ pre # Null => pre \in built
      BY <1>4 DEF Request, Rules
    <2>2. \A u \in Thread : handler[u].req \notin Changes
      BY <2>1 DEF Others, OrderlyInv, Stage, Idle, Changes, Makes
    <2>3. Settled /\ broker # "deleted"
      BY <2>2, NobodySettled
    <2>4. Settled' /\ BrokerThere'
      BY <1>4, <2>3 DEF Request, Settled, BrokerThere
    <2>5. CASE pre = Null /\ r \notin Unchecked
      <3>1. status' \notin Bad
        BY <1>4, <2>3, <2>5 DEF Request, Forward, Types
      <3>2. \A u \in Thread : Stage(u)' /\ handler'[u].req \notin Changes
        BY <1>4, <2>2, <2>5 DEF Request, OrderlyInv, Stage, Served
      <3>3. QED
        BY <2>4, <3>1, <3>2, Clients
    <2>6. CASE ~ (pre = Null /\ r \notin Unchecked)
      <3>1. status' = status /\ Served
        BY <1>4, <2>1, <2>6 DEF Request, Served
      <3>2. /\ handler'[t].step \in {"lock", "look"} /\ handler'[t].req = r
            /\ \A u \in Thread \ {t} : handler'[u] = handler[u]
        BY <1>4, <2>6 DEF Request, Types
      <3>3. Stage(t)'
        BY <1>4, <2>1, <3>1, <3>2 DEF Request, Stage, Served
      <3>4. \A u \in Thread \ {t} : Stage(u)'
        BY <1>4, <3>2 DEF Request, OrderlyInv, Stage, Served
      <3>5. \A u \in Thread : handler'[u].req \notin Changes
        BY <2>1, <2>2, <3>2
      <3>6. QED
        BY <2>4, <3>1, <3>3, <3>4, <3>5, Clients
    <2>7. QED
      BY <2>5, <2>6
  <1>5. ASSUME NEW t \in Thread, Handle(t)
        PROVE  status' \notin Bad /\ (Running' => OrderlyInv')
    <2>1. ASSUME CreateNew(t) \/ CreateBuild(t) \/ CreateStart(t) \/ ShutdownDelete(t) \/ ShutdownNull(t) \/ NewBroker(t)
          PROVE  status' \notin Bad /\ OrderlyInv'
      <3>1. handler[t].req \in Changes
        BY <2>1 DEF CreateNew, CreateBuild, CreateStart, ShutdownDelete, ShutdownNull, NewBroker,
                    OrderlyInv, Stage, Idle, Changes, Makes
      <3>2. \A u \in Thread \ {t} : handler[u] = Idle
        BY <3>1, ChangesAlone
      <3>3. CASE CreateNew(t)
        <4>1. live' = {made'} /\ pre' = made' /\ made' # Null /\ status' = status
          BY <3>3 DEF CreateNew, OrderlyInv, Stage, Idle, Types, Null
        <4>2. /\ handler'[t].step = "build" /\ handler'[t].of = made' /\ handler'[t].req = handler[t].req
              /\ \A u \in Thread \ {t} : handler'[u] = Idle
          BY <3>2, <3>3 DEF CreateNew, Types
        <4>3. handler[t].req \in Makes
          BY <3>3 DEF CreateNew, OrderlyInv, Stage, Idle
        <4>4. Stage(t)' /\ ~ Quiet'
          BY <4>1, <4>2, <4>3 DEF Stage, Quiet
        <4>5. BrokerThere'
          BY <3>2, <3>3, <4>3 DEF CreateNew, OrderlyInv, BrokerThere, Idle
        <4>6. QED
          BY <4>1, <4>2, <4>4, <4>5, Solo
      <3>4. CASE CreateBuild(t)
        <4>1. handler[t].of = pre /\ pre # Null /\ live = {pre} /\ handler[t].req \in Makes
          BY <3>4 DEF CreateBuild, OrderlyInv, Stage, Idle
        <4>2. /\ handler'[t].step = "start" /\ handler'[t].of = pre /\ handler'[t].req = handler[t].req
              /\ \A u \in Thread \ {t} : handler'[u] = Idle
          BY <3>2, <3>4, <4>1 DEF CreateBuild, Step, Types
        <4>3. live' = live /\ pre' = pre /\ broker' = broker /\ status' = status
          BY <3>4, <4>1 DEF CreateBuild
        <4>4. Stage(t)' /\ ~ Quiet'
          BY <4>1, <4>2, <4>3 DEF Stage, Quiet
        <4>5. BrokerThere'
          BY <3>2, <3>4, <4>3 DEF CreateBuild, OrderlyInv, BrokerThere, Idle
        <4>6. QED
          BY <4>2, <4>3, <4>4, <4>5, Solo
      <3>5. CASE CreateStart(t)
        <4>1. handler[t].of = pre /\ pre # Null /\ live = {pre}
          BY <3>5 DEF CreateStart, OrderlyInv, Stage, Idle
        <4>2. \A u \in Thread : handler'[u] = Idle
          BY <3>2, <3>5, <4>1 DEF CreateStart, Done, Types
        <4>3. live' = live /\ pre' = pre /\ broker' = broker /\ status' = status
          BY <3>5, <4>1 DEF CreateStart
        <4>4. worker'[pre] # "none"
          BY <3>5, <4>1 DEF CreateStart, Types
        <4>5. Settled' /\ Stage(t)'
          BY <4>1, <4>2, <4>3, <4>4 DEF Settled, Stage
        <4>6. BrokerThere'
          BY <3>2, <3>5, <4>3 DEF CreateStart, OrderlyInv, BrokerThere, Idle
        <4>7. QED
          BY <4>2, <4>3, <4>5, <4>6, Solo
      <3>6. CASE ShutdownDelete(t)
        <4>1. Quiet /\ pre # Null
          BY <3>2, <3>6 DEF ShutdownDelete, Quiet, OrderlyInv, Stage, Idle
        <4>2. Settled
          BY <4>1 DEF OrderlyInv
        <4>3. live' = {} /\ status' = status
          BY <3>6, <4>1, <4>2, DeleteSettled DEF ShutdownDelete
        <4>4. /\ handler'[t].step = "null" /\ handler'[t].req = handler[t].req
              /\ \A u \in Thread \ {t} : handler'[u] = Idle
          BY <3>2, <3>6 DEF ShutdownDelete, Step, Types
        <4>5. handler[t].req = "shutdown"
          BY <3>6 DEF ShutdownDelete, OrderlyInv, Stage, Idle
        <4>6. Stage(t)' /\ ~ Quiet'
          BY <4>3, <4>4, <4>5 DEF Stage, Quiet
        <4>7. BrokerThere'
          BY <3>2, <3>6 DEF ShutdownDelete, OrderlyInv, BrokerThere, Idle
        <4>8. QED
          BY <4>3, <4>4, <4>6, <4>7, Solo
      <3>7. CASE ShutdownNull(t)
        <4>1. live' = {} /\ pre' = Null /\ broker' = broker /\ status' = status
          BY <3>7 DEF ShutdownNull, OrderlyInv, Stage, Idle
        <4>2. \A u \in Thread : handler'[u] = Idle
          BY <3>2, <3>7 DEF ShutdownNull, Done, Types
        <4>3. BrokerThere'
          BY <3>2, <3>7, <4>1 DEF ShutdownNull, OrderlyInv, BrokerThere, Idle
        <4>4. QED
          BY <4>1, <4>2, <4>3, Solo DEF Settled, Stage
      <3>8. CASE NewBroker(t)
        <4>1. Quiet
          BY <3>2, <3>8 DEF NewBroker, Quiet, Idle
        <4>2. \A u \in Thread : handler'[u] = Idle
          BY <3>2, <3>8 DEF NewBroker, Done, Types
        <4>3. Settled' /\ BrokerThere' /\ status' = status
          BY <3>8, <4>1 DEF NewBroker, OrderlyInv, Settled, BrokerThere
        <4>4. QED
          BY <4>2, <4>3, Solo DEF Stage
      <3>9. QED
        BY <2>1, <3>3, <3>4, <3>5, <3>6, <3>7, <3>8
    <2>2. ASSUME Lock(t) \/ Look(t) \/ Unlock(t) \/ Reply(t)
          PROVE  status' \notin Bad /\ (Running' => OrderlyInv')
      <3>1. /\ \A u \in Thread : handler[u].req \notin Changes
            /\ Settled /\ Served /\ pre \in live /\ broker # "deleted"
        BY <2>2, ClientsOnly DEF Lock, Look, Unlock, Reply
      <3>2. UNCHANGED <<pre, broker, live, built, worker>>
        BY <2>2 DEF Lock, Look, Unlock, Reply
      <3>3. Settled' /\ BrokerThere'
        BY <3>1, <3>2 DEF Settled, BrokerThere
      <3>4. CASE Lock(t) \/ Look(t)
        <4>1. Follow(t, "using") \/ Follow(t, "reading")
          BY <3>4 DEF Lock, Look
        <4>2. /\ handler'[t].step \in {"using", "reading"} /\ handler'[t].of = pre
              /\ handler'[t].req = handler[t].req
              /\ \A u \in Thread \ {t} : handler'[u] = handler[u]
              /\ status' = status
          BY <3>1, <4>1 DEF Follow, Served, Types
        <4>3. handler[t].req \in Requests \ Changes
          BY <3>4 DEF Lock, Look, OrderlyInv, Stage, Idle
        <4>4. \A u \in Thread : Stage(u)'
          BY <3>1, <3>2, <4>2, <4>3 DEF OrderlyInv, Stage, Served
        <4>5. \A u \in Thread : handler'[u].req \notin Changes
          BY <3>1, <4>2
        <4>6. QED
          BY <3>3, <4>2, <4>4, <4>5, Clients
      <3>5. CASE Unlock(t) \/ Reply(t)
        <4>1. handler[t].of = pre
          BY <3>5 DEF Unlock, Reply, OrderlyInv, Stage, Idle
        <4>2. status' \notin Bad
          BY <3>1, <3>5, <4>1 DEF Unlock, Reply
        <4>3. Running' => Done(t)
          BY <3>1, <3>5, <4>1 DEF Unlock, Reply
        <4>4. Done(t) => \A u \in Thread : handler'[u] = Idle \/ handler'[u] = handler[u]
          BY DEF Done, Types
        <4>5. Done(t) => \A u \in Thread : Stage(u)'
          BY <3>2, <4>4 DEF OrderlyInv, Stage, Served
        <4>6. Done(t) => \A u \in Thread : handler'[u].req \notin Changes
          BY <3>1, <4>4 DEF Idle, Changes, Makes
        <4>7. QED
          BY <3>3, <4>2, <4>3, <4>5, <4>6, Clients
      <3>6. QED
        BY <2>2, <3>4, <3>5
    <2>3. QED
      BY <1>5, <2>1, <2>2 DEF Handle
  <1>6. ASSUME NEW s \in Sessions, AncillaryWakes(s) \/ Work(s)
        PROVE  status' \notin Bad /\ OrderlyInv'
    <2>1. UNCHANGED <<pre, broker, live, handler>>
      BY <1>6 DEF AncillaryWakes, Work, Works, MonitorLocks, MonitorAsks, MonitorFails, MonitorBalances,
                  MonitorUnlocks, MonitorWakes, Doomed, AncillarySleeps
    <2>2. built \subseteq built'
      BY <1>6 DEF AncillaryWakes, Work, Works, MonitorLocks, MonitorAsks, MonitorFails, MonitorBalances,
                  MonitorUnlocks, MonitorWakes, Doomed, AncillarySleeps
    <2>3. status' \notin Bad
      BY <1>6 DEF AncillaryWakes, Work, Works, MonitorLocks, MonitorAsks, MonitorFails, MonitorBalances,
                  MonitorUnlocks, MonitorWakes, Doomed, AncillarySleeps
    <2>4. \A x \in Sessions : worker[x] # "none" => worker'[x] # "none"
      BY <1>6 DEF AncillaryWakes, Work, Works, MonitorLocks, MonitorAsks, MonitorFails, MonitorBalances,
                  MonitorUnlocks, MonitorWakes, Doomed, AncillarySleeps, Types
    <2>5. Settled => Settled'
      BY <2>1, <2>4 DEF Settled, Types
    <2>6. \A u \in Thread : Stage(u) => Stage(u)'
      BY <2>1, <2>2 DEF Stage, Served
    <2>7. QED
      BY <2>1, <2>3, <2>5, <2>6 DEF OrderlyInv, Alone, BrokerThere, Quiet
  <1>7. ASSUME NEW t \in Thread, BatchOneWord(t)
        PROVE  FALSE
    BY <1>7 DEF BatchOneWord, Rules
  <1>8. QED
    BY <1>1, <1>2, <1>3, <1>4, <1>5, <1>6, <1>7 DEF Next

\* once a client was not orderly, or the process ended, it stays so
LEMMA OnceOrderly ==
    ASSUME Next, orderly'
    PROVE  orderly /\ Running
  BY DEF Next, Handle, Work, Works, CreateDelete, Shutdown, PowerMaster, BatchOneWord, Request, CreateNew,
         CreateBuild, CreateStart, ShutdownDelete, ShutdownNull, NewBroker, Lock, Unlock, Look, Reply, AncillaryWakes,
         MonitorLocks, MonitorAsks, MonitorFails, MonitorBalances, MonitorUnlocks, MonitorWakes, Doomed,
         AncillarySleeps

\* OrderlyInv with what it is for
SafeInv == OrderlyInv /\ OrderlyIsSafe

LEMMA InitSafe == Init => SafeInv
  BY InitOrderly DEF Init, SafeInv, OrderlyIsSafe

LEMMA NextSafe == Types /\ SafeInv /\ [Next]_vars => SafeInv'
  <1> SUFFICES ASSUME Types, SafeInv, [Next]_vars, orderly'
               PROVE  /\ status' \notin {"null", "freed", "unbuilt"}
                      /\ Running' => OrderlyInv'
    BY DEF SafeInv, OrderlyIsSafe, OrderlyInv
  <1>1. CASE Next
    BY <1>1, OnceOrderly, NextOrderly DEF SafeInv
  <1>2. CASE UNCHANGED vars
    BY <1>2 DEF vars, SafeInv, OrderlyIsSafe, OrderlyInv, Alone, BrokerThere, Quiet, Settled, Stage, Served, Running
  <1>3. QED
    BY <1>1, <1>2

(* However many threads serve clients that keep to Rules, the dispatcher   *)
(* never follows a null pointer, a deleted session or an unready one       *)
(* (pre in powersimulation/main.cpp).                                      *)
THEOREM OrderlySafe == Spec => []OrderlyIsSafe
  <1>1. SafeInv => OrderlyIsSafe
    BY DEF SafeInv
  <1>2. QED
    BY <1>1, InitSafe, NextSafe, TypesAlways, PTL DEF Spec

(* Nor is a session lost: between requests of such clients there is the    *)
(* one pre points to, or none.                                             *)
THEOREM NoneLost == Spec => []NoLostSession
  <1>1. SafeInv => NoLostSession
    BY DEF SafeInv, OrderlyInv, NoLostSession, Quiet, Settled
  <1>2. QED
    BY <1>1, InitSafe, NextSafe, TypesAlways, PTL DEF Spec
=============================================================================
