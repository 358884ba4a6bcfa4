-------------------------- MODULE AcceptLoopProofs --------------------------
(***************************************************************************)
(* Theorems about AcceptLoop with clients that arrive one by one           *)
(* (SpacedSpec), for any number of sessions.  With clients that arrive as  *)
(* they like OneThreadOneSession is false (the run accept_race).           *)
(***************************************************************************)
EXTENDS AcceptLoop, TLAPS

(* newsockfd is looked at by one thread at a time: only one session is     *)
(* between its connect and the copy of its descriptor.                     *)
OneAtATime ==
    /\ \A c, d \in Session : client[c] = "connecting" /\ client[d] = "connecting" => c = d
    /\ \A c \in Session : client[c] = "connecting" =>
          accepted = None /\ \A d \in Session : handler[d] # "created"
    /\ accepted # None => \A d \in Session : handler[d] # "created"
    /\ \A c, d \in Session : handler[c] = "created" /\ handler[d] = "created" => c = d

(* Until the thread has its copy newsockfd is the descriptor of its        *)
(* session.                                                                *)
FreshDescriptor ==
    /\ accepted # None => table[newsockfd] = accepted
    /\ \A c \in Session : handler[c] = "created" => table[newsockfd] = c

(* A session and its thread go through their states together.              *)
InStep ==
    \A c \in Session :
       /\ client[c] \in {"away", "connecting"} => handler[c] = "none" /\ accepted # c
       /\ accepted = c => handler[c] = "none" /\ client[c] = "sent"
       /\ handler[c] \in {"created", "reading"} => client[c] = "sent"

(* No session has two descriptors, and one that has a descriptor has come  *)
(* to the server.                                                          *)
OneDescriptor ==
    /\ \A f, g \in Fd : table[f] # None /\ table[f] = table[g] => f = g
    /\ \A f \in Fd, c \in Session :
          client[c] \in {"away", "connecting"} => table[f] # c

IInv ==
    /\ TypeOK
    /\ OneAtATime
    /\ FreshDescriptor
    /\ InStep
    /\ OneDescriptor
    /\ OneThreadOneSession
    /\ NoLeak

LEMMA ZeroIsFd == 0 \in Fd
  BY MaxFdAssumption DEF Fd

LEMMA IInvInit == Init => IInv
  <1> SUFFICES ASSUME Init PROVE IInv
    OBVIOUS
  <1> USE SessionAssumption DEF Init
  <1>1. TypeOK
    BY ZeroIsFd DEF TypeOK
  <1>2. OneAtATime /\ FreshDescriptor /\ InStep /\ OneDescriptor
    BY ZeroIsFd DEF OneAtATime, FreshDescriptor, InStep, OneDescriptor
  <1>3. OneThreadOneSession /\ NoLeak
    BY DEF OneThreadOneSession, NoLeak
  <1>4. QED
    BY <1>1, <1>2, <1>3 DEF IInv

LEMMA ConnectKeeps ==
    ASSUME IInv, NEW c \in Session, Settled, Connect(c)
    PROVE  IInv'
  <1> USE SessionAssumption DEF IInv, Connect, Settled, TypeOK
  <1>1. TypeOK'
    OBVIOUS
  <1>2. OneAtATime' /\ FreshDescriptor'
    BY DEF OneAtATime, FreshDescriptor
  <1>3. InStep' /\ OneDescriptor'
    BY DEF InStep, OneDescriptor
  <1>4. OneThreadOneSession' /\ NoLeak'
    BY DEF OneThreadOneSession, NoLeak
  <1>5. QED
    BY <1>1, <1>2, <1>3, <1>4

LEMMA AcceptKeeps ==
    ASSUME IInv, NEW c \in Session, Accept(c)
    PROVE  IInv'
  <1> USE SessionAssumption DEF IInv, TypeOK
  <1>1. PICK f \in Fd : table[f] = None /\ newsockfd' = f /\ table' = [table EXCEPT ![f] = c]
    BY DEF Accept
  <1>2. /\ accepted = None /\ client[c] = "connecting" /\ accepted' = c
        /\ client' = [client EXCEPT ![c] = "sent"] /\ handler' = handler /\ fd' = fd
    BY DEF Accept
  <1>3. TypeOK'
    BY <1>1, <1>2
  <1>4. OneAtATime' /\ FreshDescriptor'
    BY <1>1, <1>2 DEF OneAtATime, FreshDescriptor
  <1>5. InStep' /\ OneDescriptor'
    BY <1>1, <1>2 DEF InStep, OneDescriptor
  <1>6. OneThreadOneSession' /\ NoLeak'
    BY <1>1, <1>2 DEF OneThreadOneSession, NoLeak
  <1>7. QED
    BY <1>3, <1>4, <1>5, <1>6

LEMMA CreateThreadKeeps ==
    ASSUME IInv, CreateThread
    PROVE  IInv'
  <1> USE SessionAssumption DEF IInv, CreateThread, TypeOK
  <1>1. TypeOK'
    OBVIOUS
  <1>2. OneAtATime' /\ FreshDescriptor'
    BY DEF OneAtATime, FreshDescriptor
  <1>3. InStep' /\ OneDescriptor'
    BY DEF InStep, OneDescriptor
  <1>4. OneThreadOneSession' /\ NoLeak'
    BY DEF OneThreadOneSession, NoLeak, InStep
  <1>5. QED
    BY <1>1, <1>2, <1>3, <1>4

LEMMA CopyFdKeeps ==
    ASSUME IInv, NEW t \in Session, CopyFd(t)
    PROVE  IInv'
  <1> USE SessionAssumption DEF IInv, CopyFd, TypeOK
  <1>1. TypeOK'
    OBVIOUS
  <1>2. OneAtATime' /\ FreshDescriptor'
    BY DEF OneAtATime, FreshDescriptor
  <1>3. InStep' /\ OneDescriptor'
    BY DEF InStep, OneDescriptor
  <1>4. OneThreadOneSession' /\ NoLeak'
    BY DEF OneThreadOneSession, NoLeak, FreshDescriptor
  <1>5. QED
    BY <1>1, <1>2, <1>3, <1>4

(* The thread reads its own message: its session is still "sent".  It goes *)
(* on to close unless the session is one of Unclosed.                      *)
LEMMA ReceiveKeeps ==
    ASSUME IInv, NEW t \in Session, Receive(t)
    PROVE  IInv'
  <1> USE SessionAssumption DEF IInv, TypeOK
  <1>1. table[fd[t]] = t /\ client[t] = "sent" /\ handler[t] = "reading"
    BY DEF Receive, OneThreadOneSession, InStep
  <1>2. /\ client' = [client EXCEPT ![t] = "served"]
        /\ table' = table /\ newsockfd' = newsockfd /\ accepted' = accepted /\ fd' = fd
    BY <1>1 DEF Receive
  <1>3. PICK s \in {"closing"} \cup (IF t \in Unclosed THEN {"done"} ELSE {}) :
           handler' = [handler EXCEPT ![t] = s]
    BY <1>1 DEF Receive
  <1>4. s = "closing" \/ (s = "done" /\ t \in Unclosed)
    BY <1>3
  <1>5. TypeOK'
    BY <1>1, <1>2, <1>3, <1>4
  <1>6. OneAtATime' /\ FreshDescriptor'
    BY <1>1, <1>2, <1>3, <1>4 DEF OneAtATime, FreshDescriptor
  <1>7. InStep' /\ OneDescriptor'
    BY <1>1, <1>2, <1>3, <1>4 DEF InStep, OneDescriptor
  <1>8. OneThreadOneSession' /\ NoLeak'
    BY <1>1, <1>2, <1>3, <1>4 DEF OneThreadOneSession, NoLeak
  <1>9. QED
    BY <1>5, <1>6, <1>7, <1>8

(* The descriptor a thread closes is its own, so no other thread loses     *)
(* one, and it was its session's only one, so none is left behind.         *)
LEMMA CloseKeeps ==
    ASSUME IInv, NEW t \in Session, Close(t)
    PROVE  IInv'
  <1> USE SessionAssumption DEF IInv, TypeOK
  <1>1. /\ table[fd[t]] = t /\ handler[t] = "closing" /\ fd[t] \in Fd
        /\ handler' = [handler EXCEPT ![t] = "done"]
        /\ table' = [table EXCEPT ![fd[t]] = None]
        /\ client' = client /\ newsockfd' = newsockfd /\ accepted' = accepted /\ fd' = fd
    BY DEF Close, OneThreadOneSession
  <1>2. TypeOK'
    BY <1>1
  <1>3. OneAtATime' /\ FreshDescriptor'
    BY <1>1 DEF OneAtATime, FreshDescriptor, InStep
  <1>4. InStep' /\ OneDescriptor'
    BY <1>1 DEF InStep, OneDescriptor
  <1>5. OneThreadOneSession'
    BY <1>1 DEF OneThreadOneSession
  <1>6. NoLeak'
    BY <1>1 DEF NoLeak, OneDescriptor
  <1>7. QED
    BY <1>2, <1>3, <1>4, <1>5, <1>6

LEMMA IInvInductive == IInv /\ [SpacedNext]_vars => IInv'
  <1> SUFFICES ASSUME IInv, [SpacedNext]_vars
               PROVE  IInv'
    OBVIOUS
  <1>1. CASE CreateThread
    BY <1>1, CreateThreadKeeps
  <1>2. ASSUME NEW c \in Session, Accept(c) \/ CopyFd(c) \/ Receive(c) \/ Close(c)
        PROVE  IInv'
    BY <1>2, AcceptKeeps, CopyFdKeeps, ReceiveKeeps, CloseKeeps
  <1>3. ASSUME NEW c \in Session, Settled /\ Connect(c)
        PROVE  IInv'
    BY <1>3, ConnectKeeps
  <1>4. CASE UNCHANGED vars
    BY <1>4 DEF IInv, TypeOK, OneAtATime, FreshDescriptor, InStep, OneDescriptor,
                OneThreadOneSession, NoLeak, vars
  <1>5. QED
    BY <1>1, <1>2, <1>3, <1>4 DEF SpacedNext, Server

(* However many clients come, as long as each waits until the thread of    *)
(* the one before has copied its descriptor: a handler thread always works *)
(* on the connection it was created for, although the kernel gives         *)
(* descriptors out again and main overwrites the newsockfd it points to.   *)
THEOREM SpacedIsOneToOne == SpacedSpec => []OneThreadOneSession
  <1>1. IInv => OneThreadOneSession
    BY DEF IInv
  <1>2. QED
    BY IInvInit, IInvInductive, <1>1, PTL DEF SpacedSpec

(* Under the same condition a descriptor is taken only while the session   *)
(* it is of is accepted and not finished, or when that session is one the  *)
(* handlers leave open: a client that sends nothing, or one that shuts the *)
(* session down.  Whatever the number of descriptors the process may have. *)
THEOREM SpacedLeaksOnlyUnclosed == SpacedSpec => []NoLeak
  <1>1. IInv => NoLeak
    BY DEF IInv
  <1>2. QED
    BY IInvInit, IInvInductive, <1>1, PTL DEF SpacedSpec
=============================================================================
