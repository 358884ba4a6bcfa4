------------------------------ MODULE Exchange ------------------------------
(***************************************************************************)
(* One coordinator and the simulators joined to it: an update of one of    *)
(* them reaches the others by messages the coordinator sends, each handled *)
(* by a thread of its own under the simulator's mutex, and has them call   *)
(* the coordinator in turn (coordinator.cpp, connected_component.cpp,      *)
(* powersimulation/main.cpp).                                              *)
(*                                                                         *)
(* Shares and voltages are modelled by the number of the calculation they  *)
(* come from.  A simulator keeps its mutex while it waits for the          *)
(* coordinator; the coordinator keeps its own while it sends and sleeps    *)
(* but never waits for a simulator.  What it computes is Coordinator's.    *)
(***************************************************************************)
EXTENDS Integers, Sequences, SequencesExt

CONSTANTS
    Host,      \* the joined hosts
    Nobody,    \* not a host
    Rows,      \* boundary_node_num_ of each
    MaxLoads   \* bound on the updates

ASSUME ExchangeAssumption ==
    /\ IsFiniteSet(Host) /\ Nobody \notin Host
    /\ Rows \in [Host -> Nat]
    /\ MaxLoads \in Nat

VARIABLES
    load,       \* number of the last calculation of the shares
    solution,   \* number of the last calculation of the voltages
    master,     \* the host whose LoadUpdate has the coordinator's mutex
    sim,        \* the handler that has each simulator's mutex
    share,      \* calculation the host's currents come from
    injected,   \* calculation its entries of IB come from
    volts,      \* calculation its boundary voltages come from, and how many
    inbox,      \* messages whose handlers have not got the mutex
    overlap,    \* history: an update began before the one before was over
    inOrder     \* history: handlers of a host took its mutex in order

vars == <<load, solution, master, sim, share, injected, volts, inbox, overlap, inOrder>>

Rest == \A h \in Host : sim[h] = "free" /\ inbox[h] = << >>

LoadMessage(n) == [kind |-> "load", of |-> n, rows |-> 0]
VoltMessage(n, r) == [kind |-> "volts", of |-> n, rows |-> r]

-----------------------------------------------------------------------------
(* "Update session:" of a joined component: DynamicUpdate calls LoadUpdate *)
(* and then CoordinateUpdate.                                              *)
BeginUpdate(h) ==
    /\ sim[h] = "free" /\ load + Cardinality({g \in Host : sim[g] = "load"}) < MaxLoads
    /\ sim' = [sim EXCEPT ![h] = "load"]
    /\ overlap' = (overlap \/ ~ Rest)
    /\ UNCHANGED <<load, solution, master, share, injected, volts, inbox, inOrder>>

\* mutant: one of the others is not told
LoadUpdateOne(h) ==
    /\ sim[h] = "load" /\ master = Nobody
    /\ load' = load + 1
    /\ master' = h
    /\ sim' = [sim EXCEPT ![h] = "sleep"]
    /\ LET told == CHOOSE g \in Host : \E f \in Host : f # g
       IN inbox' = [g \in Host |-> IF g \in {h, told} THEN inbox[g]
                                  ELSE Append(inbox[g], LoadMessage(load'))]
    /\ UNCHANGED <<solution, share, injected, volts, overlap, inOrder>>

(* LoadUpdate: new shares, sent to all the others; then it sleeps.         *)
LoadUpdate(h) ==
    /\ sim[h] = "load" /\ master = Nobody
    /\ load' = load + 1
    /\ master' = h
    /\ sim' = [sim EXCEPT ![h] = "sleep"]
    /\ inbox' = [g \in Host |-> IF g = h THEN inbox[g] ELSE Append(inbox[g], LoadMessage(load'))]
    /\ UNCHANGED <<solution, share, injected, volts, overlap, inOrder>>

\* mutant: LoadUpdate waits until the others have sent their results
ReplyWaits(h) ==
    /\ sim[h] = "sleep"
    /\ \A g \in Host \ {h} : injected[g] = load
    /\ master' = Nobody
    /\ share' = [share EXCEPT ![h] = load]
    /\ sim' = [sim EXCEPT ![h] = "inject"]
    /\ UNCHANGED <<load, solution, injected, volts, inbox, overlap, inOrder>>

(* It answers the caller's share and releases the mutex.                   *)
Reply(h) ==
    /\ sim[h] = "sleep"
    /\ master' = Nobody
    /\ share' = [share EXCEPT ![h] = load]
    /\ sim' = [sim EXCEPT ![h] = "inject"]
    /\ UNCHANGED <<load, solution, injected, volts, inbox, overlap, inOrder>>

\* mutant: the messages are sent in another order
RowMessagesBack(h, n) == [r \in 1 .. Rows[h] |-> VoltMessage(n, 1 + Rows[h] - r)]

(* After each of a host's rows a message with the rows so far.             *)
RowMessages(h, n) == [r \in 1 .. Rows[h] |-> VoltMessage(n, r)]

(* CoordinateUpdate, for all hosts, the caller too.                        *)
CoordinateUpdate(h) ==
    /\ sim[h] = "inject" /\ master = Nobody
    /\ injected' = [injected EXCEPT ![h] = share[h]]
    /\ solution' = solution + 1
    /\ inbox' = [g \in Host |-> inbox[g] \o RowMessages(g, solution')]
    /\ sim' = [sim EXCEPT ![h] = "free"]
    /\ UNCHANGED <<load, master, share, volts, overlap, inOrder>>

-----------------------------------------------------------------------------
Take(h, i) ==
    /\ sim[h] = "free" /\ i \in DOMAIN inbox[h]
    /\ inbox' = [inbox EXCEPT ![h] = RemoveAt(@, i)]
    /\ inOrder' = (inOrder /\ i = 1)

(* "Coordinating update:": DynamicCoordinatedLoadUpdate sets the currents  *)
(* and calls CoordinateUpdate.                                             *)
HandleLoad(h, i) ==
    /\ Take(h, i) /\ inbox[h][i].kind = "load"
    /\ share' = [share EXCEPT ![h] = inbox[h][i].of]
    /\ sim' = [sim EXCEPT ![h] = "inject"]
    /\ UNCHANGED <<load, solution, master, injected, volts, overlap>>

(* "boundary voltage and power line current:":                             *)
(* DynamicCoordinatedBoundaryUpdate.                                       *)
HandleVolts(h, i) ==
    /\ Take(h, i) /\ inbox[h][i].kind = "volts"
    /\ volts' = [volts EXCEPT ![h] = [of |-> inbox[h][i].of, rows |-> inbox[h][i].rows]]
    /\ UNCHANGED <<load, solution, master, sim, share, injected, overlap>>

Init ==
    /\ load = 0 /\ solution = 0 /\ master = Nobody
    /\ sim = [h \in Host |-> "free"]
    /\ share = [h \in Host |-> 0] /\ injected = [h \in Host |-> 0]
    /\ volts = [h \in Host |-> [of |-> 0, rows |-> Rows[h]]]
    /\ inbox = [h \in Host |-> << >>]
    /\ overlap = FALSE /\ inOrder = TRUE

Proceed(h) ==
    \/ LoadUpdate(h) \/ Reply(h) \/ CoordinateUpdate(h)
    \/ \E i \in DOMAIN inbox[h] : HandleLoad(h, i) \/ HandleVolts(h, i)

Next == \E h \in Host : BeginUpdate(h) \/ Proceed(h)

(* Threads that can take the mutex they wait for are scheduled; updates    *)
(* are the users' affair.                                                  *)
Spec == Init /\ [][Next]_vars /\ \A h \in Host : WF_vars(Proceed(h))

-----------------------------------------------------------------------------
(* A simulator never has a share or a voltage that was not calculated, and *)
(* the coordinator's mutex is a sleeping LoadUpdate's.                     *)
TypeOK ==
    /\ load \in 0 .. MaxLoads
    /\ \A h \in Host :
          /\ sim[h] \in {"free", "load", "sleep", "inject"}
          /\ share[h] \in 0 .. load /\ injected[h] \in 0 .. load
          /\ volts[h].of \in 0 .. solution /\ volts[h].rows \in 0 .. Rows[h]
          /\ sim[h] = "sleep" <=> master = h

(* When everything has been handled every host works with the shares of    *)
(* the last LoadUpdate, and the coordinator with injections made from      *)
(* them, provided that updates came one after the other.                   *)
SharesAgree ==
    Rest /\ ~ overlap => \A h \in Host : share[h] = load /\ injected[h] = load

(* When everything has been handled, and each host's handlers got the      *)
(* mutex in the order of the messages, the hosts have the voltages of the  *)
(* last calculation, and all of them.                                      *)
VoltagesSettle ==
    Rest /\ inOrder => \A h \in Host :
        Rows[h] > 0 => volts[h] = [of |-> solution, rows |-> Rows[h]]

(* Nobody waits for ever: however updates and messages cross, and although *)
(* a simulator waits for the coordinator with its own mutex, all is        *)
(* handled in the end.                                                     *)
ComesToRest == []<>Rest

(* What a comment says of the sleep in LoadUpdate: it answers when the     *)
(* hosts it told have sent their results.                                  *)
ResultsBeforeReply ==
    [][\A h \in Host : sim[h] = "sleep" /\ sim'[h] = "inject" =>
          \A g \in Host \ {h} : injected[g] = load]_vars
=============================================================================
