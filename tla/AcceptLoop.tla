----------------------------- MODULE AcceptLoop -----------------------------
(***************************************************************************)
(* The accept loop that the coordinator and the power simulator share      *)
(* (coordinator/main.cpp, powersimulation/main.cpp): the descriptor of an  *)
(* accepted connection lies in the local variable newsockfd, a detached    *)
(* thread is created with the ADDRESS of that variable, and the thread     *)
(* copies the descriptor when it gets to run.                              *)
(*                                                                         *)
(* Every session is one connection, and the thread created for it has its  *)
(* name.  accept returns the lowest free descriptor, and has none when the *)
(* process has MaxFd open: the connection then waits in the backlog and    *)
(* the loop tries again.  The handler closes its descriptor at the end of  *)
(* most branches, not of all: a connection whose first line is empty, or   *)
(* whose read fails, and one that shuts an existing session down keep it.  *)
(* Abstracted: what the handler computes, the other descriptors.           *)
(***************************************************************************)
EXTENDS Integers, FiniteSets

CONSTANTS
    Session,   \* connections clients open
    Unclosed,  \* those that send nothing, or that shut the session down
    Backlog,   \* how many connections wait for accept (listen(5))
    MaxFd,     \* how many connections the process can have open
    None

ASSUME SessionAssumption ==
    /\ IsFiniteSet(Session) /\ Session # {}
    /\ None \notin Session
    /\ Unclosed \subseteq Session
ASSUME BacklogAssumption == Backlog \in Nat \ {0}
ASSUME MaxFdAssumption == MaxFd \in Nat \ {0}

Fd == 0 .. MaxFd - 1

VARIABLES
    client,      \* of each session: where its client is
    table,       \* the descriptor table: which session a descriptor is of
    newsockfd,
    accepted,    \* the session main has accepted and not yet made a thread for
    handler,     \* of each thread: where it is
    fd           \* of each thread: its copy of the descriptor

vars == <<client, table, newsockfd, accepted, handler, fd>>

Init ==
    /\ client = [c \in Session |-> "away"]
    /\ table = [f \in Fd |-> None]
    /\ newsockfd = 0
    /\ accepted = None
    /\ handler = [c \in Session |-> "none"]
    /\ fd = [c \in Session |-> 0]

Connect(c) ==
    /\ client[c] = "away"
    /\ Cardinality({d \in Session : client[d] = "connecting"}) < Backlog
    /\ client' = [client EXCEPT ![c] = "connecting"]
    /\ UNCHANGED <<table, newsockfd, accepted, handler, fd>>

\* newsockfd = accept(...); with no free descriptor it fails and is called again
Accept(c) ==
    /\ accepted = None /\ client[c] = "connecting"
    /\ \E f \in Fd :
          /\ table[f] = None /\ \A g \in 0 .. f - 1 : table[g] # None
          /\ newsockfd' = f
          /\ table' = [table EXCEPT ![f] = c]
    /\ client' = [client EXCEPT ![c] = "sent"]
    /\ accepted' = c
    /\ UNCHANGED <<handler, fd>>

\* mutant: pthread_create fails, and nobody looks
CreateThreadFails ==
    /\ accepted # None
    /\ accepted' = None
    /\ UNCHANGED <<client, table, newsockfd, handler, fd>>

\* mutant: main closes its descriptor as a forking server does
CreateThreadCloses ==
    /\ accepted # None
    /\ handler' = [handler EXCEPT ![accepted] = "created"]
    /\ accepted' = None
    /\ table' = [table EXCEPT ![newsockfd] = None]
    /\ UNCHANGED <<client, newsockfd, fd>>

\* pthread_create(&thread_id, 0, &SocketHandler, (void*)&newsockfd)
CreateThread ==
    /\ accepted # None
    /\ handler' = [handler EXCEPT ![accepted] = "created"]
    /\ accepted' = None
    /\ UNCHANGED <<client, table, newsockfd, fd>>

\* int newsockfd = *(int*)lp
CopyFd(t) ==
    /\ handler[t] = "created"
    /\ handler' = [handler EXCEPT ![t] = "reading"]
    /\ fd' = [fd EXCEPT ![t] = newsockfd]
    /\ UNCHANGED <<client, table, newsockfd, accepted>>

(* receive_data and the branches on the first line.  The message of a      *)
(* session goes to the first thread that reads; one that comes later, or   *)
(* reads a closed descriptor, gets an empty line.  With an empty line, and *)
(* after "Shut down session" where there was one, the thread is done       *)
(* without closing.                                                        *)
Receive(t) ==
    /\ handler[t] = "reading"
    /\ LET c == table[fd[t]]
       IN IF c # None /\ client[c] = "sent"
          THEN /\ client' = [client EXCEPT ![c] = "served"]
               /\ \E s \in {"closing"} \cup (IF c \in Unclosed THEN {"done"} ELSE {}) :
                     handler' = [handler EXCEPT ![t] = s]
          ELSE /\ handler' = [handler EXCEPT ![t] = "done"]
               /\ UNCHANGED client
    /\ UNCHANGED <<table, newsockfd, accepted, fd>>

\* mutant: the descriptor stays open
CloseNot(t) ==
    /\ handler[t] = "closing"
    /\ handler' = [handler EXCEPT ![t] = "done"]
    /\ UNCHANGED <<client, table, newsockfd, accepted, fd>>

\* close(newsockfd): whatever session the descriptor is of by now
Close(t) ==
    /\ handler[t] = "closing"
    /\ handler' = [handler EXCEPT ![t] = "done"]
    /\ table' = [table EXCEPT ![fd[t]] = None]
    /\ UNCHANGED <<client, newsockfd, accepted, fd>>

Server ==
    \/ CreateThread
    \/ \E c \in Session : Accept(c) \/ CopyFd(c) \/ Receive(c) \/ Close(c)

Next == Server \/ \E c \in Session : Connect(c)

Fairness ==
    /\ WF_vars(CreateThread)
    /\ \A c \in Session : /\ WF_vars(Accept(c)) /\ WF_vars(CopyFd(c))
                          /\ WF_vars(Receive(c)) /\ WF_vars(Close(c))

Spec == Init /\ [][Next]_vars /\ Fairness

(* Clients that arrive one by one: none connects before the thread of the  *)
(* one accepted last has its descriptor.                                   *)
Settled == /\ \A c \in Session : client[c] # "connecting"
           /\ accepted = None
           /\ \A c \in Session : handler[c] # "created"

SpacedNext == Server \/ \E c \in Session : Settled /\ Connect(c)

SpacedSpec == Init /\ [][SpacedNext]_vars /\ Fairness

-----------------------------------------------------------------------------
TypeOK ==
    /\ client \in [Session -> {"away", "connecting", "sent", "served"}]
    /\ table \in [Fd -> Session \cup {None}]
    /\ newsockfd \in Fd
    /\ accepted \in Session \cup {None}
    /\ handler \in [Session -> {"none", "created", "reading", "closing", "done"}]
    /\ fd \in [Session -> Fd]

(* One thread takes care of one session (main.cpp:61): a thread that has   *)
(* its descriptor and has not closed it works on its own connection, in    *)
(* spite of the kernel giving descriptors out again.                       *)
OneThreadOneSession ==
    \A t \in Session : handler[t] \in {"reading", "closing"} => table[fd[t]] = t

(* A descriptor is in use only while its session is at work, or it is one  *)
(* that its client's silence, or its shutting the session down, left open  *)
(* (main.cpp:112, powersimulation/main.cpp:112, 240-249): no other kind of *)
(* connection costs the process a descriptor for good.                     *)
NoLeak ==
    \A f \in Fd : table[f] # None =>
        \/ table[f] = accepted
        \/ handler[table[f]] \in {"created", "reading", "closing"}
        \/ table[f] \in Unclosed

(* The process has no descriptor left that will ever be free again.        *)
Exhausted ==
    \A f \in Fd : table[f] \in Unclosed /\ handler[table[f]] = "done"

(* Every client that connects is read in the end, unless the descriptors   *)
(* left open by others have used up the process's: nothing else starves    *)
(* accept (main.cpp:76-84).                                                *)
EveryoneServed ==
    \A c \in Session : client[c] = "connecting" ~> client[c] = "served" \/ Exhausted
=============================================================================
