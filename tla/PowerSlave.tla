----------------------------- MODULE PowerSlave -----------------------------
(***************************************************************************)
(* Distributed calculation: a component whose interfaces are on several    *)
(* servers (connected_component.cpp, DistributedCalculation and the second *)
(* half of Update) has the power slave of each server (powerslave/main.cpp *)
(* and Power_slave.h) invert its block of the matrix, in two phases, and   *)
(* asks it again in two phases at every update.                            *)
(*                                                                         *)
(* A slave serves one connection at a time and keeps one calculation, the  *)
(* last that was begun, whoever asks.  A request carries only the entries  *)
(* of a vector that are not zero.  A slave may end, by itself, on a        *)
(* request that it cannot serve, or because it cannot tell a new master to *)
(* the simulator of its own server, and be started again.                  *)
(***************************************************************************)
EXTENDS Integers, Sequences, Functions, FiniteSets

CONSTANTS
    Component,     \* the distributed components, of one simulator or several
    None,          \* no component, no master
    Home,          \* the IP address each component's simulator calls from
    Loopback,      \* of each component: the slaves of its own server
    Blocks,        \* servers_pis_num: of each component, one for each slave
    EdgingLines,   \* edging_power_line_num of each
    Values,        \* values in the vectors of each
    MaxRestarts    \* bound on restarts of slaves

ASSUME SlaveAssumption ==
    /\ None \notin Component
    /\ \A c \in Component :
          /\ Blocks[c] \in Seq(Nat \ {0}) /\ Blocks[c] # << >>
          /\ EdgingLines[c] \in Nat
          /\ Values[c] \subseteq Int /\ Values[c] # {}
          /\ Home[c] # None
    /\ \A c, d \in Component : Len(Blocks[c]) = Len(Blocks[d])
    /\ MaxRestarts \in Nat

Slaves == UNION {DOMAIN Blocks[c] : c \in Component}

VARIABLES
    calc,       \* of each component: phase, kind, next slave, vector I
    volts,      \* U2: the component each entry was computed for
    slave,      \* the object pre of each slave
    up,         \* the slaves that run
    heard,      \* masterIpPre of each slave
    restarts,   \* number of restarts
    users,      \* history: components of which a slave has read a request
    broken      \* history: components that did not get an answer

vars == <<calc, volts, slave, up, heard, restarts, users, broken>>

\* servers_start_index, with the end of the last block
StartIndex ==
    [c \in Component |->
        LET start[s \in 1 .. Len(Blocks[c]) + 1] ==
                IF s = 1 THEN 0 ELSE start[s - 1] + Blocks[c][s - 1]
        IN start]

SwitchPi == [c \in Component |-> StartIndex[c][Len(Blocks[c]) + 1]]

(* The last interface is the reference: the slave that has it gets one row *)
(* less.                                                                   *)
Count(c, s) ==
    IF StartIndex[c][s] + Blocks[c][s] = SwitchPi[c] THEN Blocks[c][s] - 1 ELSE Blocks[c][s]

Rows(c) == 0 .. SwitchPi[c] - 2
Vectors == [c \in Component |-> [Rows(c) -> Values[c]]]

\* what is sent of v to a slave: the rows of its block that are not zero
Sent(v, c, s) ==
    LET block == [r \in 0 .. Count(c, s) - 1 |-> v[StartIndex[c][s] + r]]
    IN Restrict(block, {r \in DOMAIN block : block[r] # 0})

-----------------------------------------------------------------------------
(* The slave: what a request makes of pre.                                 *)
NoPre == [of |-> None, n |-> 0, I |-> << >>, second |-> FALSE, Ix |-> << >>]

Zeros(n) == [r \in 0 .. n - 1 |-> 0]

SetRows(v, rows) == [r \in DOMAIN v |-> IF r \in DOMAIN rows THEN rows[r] ELSE v[r]]

\* the library ends the process at a row outside the vector
InRange(rows, n) == DOMAIN rows \subseteq 0 .. n - 1

(* A matrix without rows ends the process.                                 *)
CanFirst(n) == n > 0
FirstPhase(c, n, rows) ==
    [of |-> c, n |-> n, I |-> SetRows(Zeros(n), rows), second |-> FALSE, Ix |-> << >>]

(* The matrices Y_b and N are freed, and would be once more.               *)
CanSecond(p, rows) == p # NoPre /\ ~ p.second /\ InRange(rows, p.n)
SecondPhase(p, rows) == [p EXCEPT !.Ix = SetRows(Zeros(p.n), rows), !.second = TRUE]

\* mutant: rows that are not the vector's are the ones read
UpdateFirstNot(p, rows) == p

(* Rows that are not sent keep what they had.                              *)
CanUpdateFirst(p, rows) == p # NoPre /\ InRange(rows, p.n)
UpdateFirst(p, rows) == [p EXCEPT !.I = SetRows(p.I, rows)]

CanUpdateSecond(p, rows) == p # NoPre /\ p.second /\ InRange(rows, p.n)
UpdateSecond(p, rows) == [p EXCEPT !.Ix = SetRows(p.Ix, rows)]

-----------------------------------------------------------------------------
(* The component.                                                          *)
NoVolts(c) == [r \in Rows(c) |-> None]

(* DistributedCalculation, after simulate, with the currents of the loads. *)
Begin(c, v) ==
    /\ calc[c].phase = "idle"
    /\ calc' = [calc EXCEPT ![c] = [phase |-> "first", full |-> TRUE, at |-> 1, I |-> v, x |-> v]]
    /\ volts' = [volts EXCEPT ![c] = NoVolts(c)]
    /\ broken' = broken \ {c}
    /\ UNCHANGED <<slave, up, heard, restarts, users>>

(* Update: only once there was a calculation.                              *)
BeginUpdate(c, v) ==
    /\ calc[c].phase = "idle" /\ calc[c].full
    /\ calc' = [calc EXCEPT ![c] = [phase |-> "first", full |-> FALSE, at |-> 1, I |-> v, x |-> v]]
    /\ volts' = [volts EXCEPT ![c] = NoVolts(c)]
    /\ UNCHANGED <<slave, up, heard, restarts, users, broken>>

Asked(c) == calc[c].at

\* exec_on_server: the process ends when it cannot connect
Refused(c) ==
    /\ calc[c].phase \in {"first", "second"}
    /\ Asked(c) \notin up
    /\ calc' = [calc EXCEPT ![c].phase = "exit"]
    /\ UNCHANGED <<volts, slave, up, heard, restarts, users, broken>>

(* A slave that ends does not answer: the component reads nothing and goes *)
(* on with what it has.                                                    *)
Dies(c) ==
    /\ up' = up \ {Asked(c)}
    /\ slave' = [slave EXCEPT ![Asked(c)] = NoPre]
    /\ broken' = broken \cup {c}

\* mutant: the same slave is asked again
AgainSame(c, x) ==
    calc' = [calc EXCEPT ![c] =
        IF @.at < Len(Blocks[c]) THEN @
        ELSE IF @.phase = "first" THEN [@ EXCEPT !.phase = "second", !.at = 1, !.x = x]
        ELSE [@ EXCEPT !.phase = "idle", !.full = TRUE]]

(* The next slave; after the last, the next phase.                         *)
Again(c, x) ==
    LET k == calc[c]
    IN calc' = [calc EXCEPT ![c] =
           IF k.at < Len(Blocks[c]) THEN [k EXCEPT !.at = k.at + 1]
           ELSE IF k.phase = "first" THEN [k EXCEPT !.phase = "second", !.at = 1, !.x = x]
           ELSE [k EXCEPT !.phase = "idle", !.full = TRUE]]

Aborts(c) == calc' = [calc EXCEPT ![c].phase = "exit"]

(* A master that calls from another address than the last one, and not     *)
(* through the loopback: the simulator beside the slave is told of it.     *)
NewMaster(c) == Asked(c) \notin Loopback[c] /\ heard[Asked(c)] # Home[c]

\* mutant: the address is not kept
ContactForgets(c) ==
    /\ calc[c].phase \in {"first", "second"}
    /\ Asked(c) \in up
    /\ UNCHANGED heard

(* accept, with the simulator beside the slave told where it has to be.    *)
Contact(c) ==
    /\ calc[c].phase \in {"first", "second"}
    /\ Asked(c) \in up
    /\ heard' = [heard EXCEPT ![Asked(c)] = IF NewMaster(c) THEN Home[c] ELSE @]

(* The simulator beside the slave does not run: the slave ends before it   *)
(* has read the request.                                                   *)
NoSimulator(c, x) ==
    /\ calc[c].phase \in {"first", "second"}
    /\ Asked(c) \in up /\ NewMaster(c)
    /\ Dies(c) /\ Again(c, x)
    /\ UNCHANGED <<volts, heard, restarts, users>>

(* First phase.  An answer about another component's lines can end the     *)
(* process.  The vector of the second phase, I - N i_L, is only known to   *)
(* be some vector.                                                         *)
AskFirst(c, x) ==
    LET s == Asked(c)
        rows == Sent(calc[c].I, c, s)
        can == IF calc[c].full THEN CanFirst(Count(c, s)) ELSE CanUpdateFirst(slave[s], rows)
    IN /\ calc[c].phase = "first" /\ Contact(c)
       /\ users' = [users EXCEPT ![s] = @ \cup {c}]
       /\ IF can
          THEN /\ slave' = [slave EXCEPT ![s] = IF calc[c].full THEN FirstPhase(c, Count(c, s), rows)
                                               ELSE UpdateFirst(@, rows)]
               /\ \/ Again(c, x)
                  \/ EdgingLines[slave'[s].of] > EdgingLines[c] /\ Aborts(c)
               /\ UNCHANGED <<up, broken>>
          ELSE Dies(c) /\ Again(c, x)
       /\ UNCHANGED <<volts, restarts>>

\* mutant: the answers of all slaves are read from the first row on
AnsweredFromZero(c, s, n) == {r : r \in 0 .. n - 1}

\* the voltages that an answer of n lines sets
Answered(c, s, n) == {StartIndex[c][s] + r : r \in 0 .. n - 1}

(* Second phase: as many voltages as the slave's calculation has rows.     *)
AskSecond(c) ==
    LET s == Asked(c)
        rows == Sent(calc[c].x, c, s)
        can == IF calc[c].full THEN CanSecond(slave[s], rows) ELSE CanUpdateSecond(slave[s], rows)
        answer == Answered(c, s, slave[s].n)
    IN /\ calc[c].phase = "second" /\ Contact(c)
       /\ IF can
          THEN /\ slave' = [slave EXCEPT ![s] = IF calc[c].full THEN SecondPhase(@, rows)
                                               ELSE UpdateSecond(@, rows)]
               /\ IF answer \subseteq Rows(c)
                  THEN /\ volts' = [volts EXCEPT ![c] =
                                      [r \in Rows(c) |-> IF r \in answer THEN slave[s].of ELSE @[r]]]
                       /\ Again(c, calc[c].x)
                  ELSE /\ Aborts(c)
                       /\ UNCHANGED volts
               /\ UNCHANGED <<up, broken>>
          ELSE /\ Dies(c) /\ Again(c, calc[c].x)
               /\ UNCHANGED volts
       /\ UNCHANGED <<restarts, users>>

-----------------------------------------------------------------------------
(* The environment: slaves end and are started again; so are simulators,   *)
(* which begin anew.                                                       *)
SlaveEnds(s) ==
    /\ s \in up /\ restarts < MaxRestarts
    /\ up' = up \ {s}
    /\ slave' = [slave EXCEPT ![s] = NoPre]
    /\ UNCHANGED <<calc, volts, heard, restarts, users, broken>>

SlaveStarts(s) ==
    /\ s \notin up /\ restarts < MaxRestarts
    /\ up' = up \cup {s}
    /\ heard' = [heard EXCEPT ![s] = None]
    /\ restarts' = restarts + 1
    /\ UNCHANGED <<calc, volts, slave, users, broken>>

Init ==
    /\ calc = [c \in Component |-> [phase |-> "idle", full |-> FALSE, at |-> 1,
                                    I |-> CHOOSE v \in Vectors[c] : TRUE,
                                    x |-> CHOOSE v \in Vectors[c] : TRUE]]
    /\ volts = [c \in Component |-> NoVolts(c)]
    /\ slave = [s \in Slaves |-> NoPre]
    /\ up = Slaves
    /\ heard = [s \in Slaves |-> None]
    /\ restarts = 0
    /\ users = [s \in Slaves |-> {}]
    /\ broken = {}

Calculate(c) ==
    \/ Refused(c) \/ AskSecond(c)
    \/ \E x \in Vectors[c] : AskFirst(c, x) \/ NoSimulator(c, x)

Next ==
    \/ \E c \in Component : \E v \in Vectors[c] : Begin(c, v) \/ BeginUpdate(c, v)
    \/ \E c \in Component : Calculate(c)
    \/ \E s \in Slaves : SlaveEnds(s) \/ SlaveStarts(s)

(* The loops over the slaves are scheduled.                                *)
Spec == Init /\ [][Next]_vars /\ \A c \in Component : WF_vars(Calculate(c))

-----------------------------------------------------------------------------
TypeOK ==
    /\ \A c \in Component :
          /\ calc[c].phase \in {"idle", "first", "second", "exit"}
          /\ calc[c].at \in Slaves
          /\ calc[c].I \in Vectors[c] /\ calc[c].x \in Vectors[c]
          /\ volts[c] \in [Rows(c) -> Component \cup {None}]
    /\ \A s \in Slaves :
          /\ slave[s].of \in Component \cup {None}
          /\ slave[s].I \in [0 .. slave[s].n - 1 -> Int]
          /\ slave[s].second => slave[s].Ix \in [0 .. slave[s].n - 1 -> Int]
    /\ up \subseteq Slaves
    /\ \A s \in Slaves : heard[s] \in {None} \cup {Home[c] : c \in Component}
    /\ restarts \in 0 .. MaxRestarts

(* No slave ended and was started again, and none has read a request of    *)
(* another component.                                                      *)
Alone(c) == restarts = 0 /\ \A s \in Slaves : users[s] \subseteq {c}

(* The requests of a component that has the slaves to itself come in an    *)
(* order and with rows that a slave can serve, unless its own block has no *)
(* rows; and a slave that has read its first request has no more need of   *)
(* the simulator beside it, which may end at any time.                     *)
AloneIsServed ==
    \A c \in Component :
        c \in broken /\ Alone(c) =>
            \E s \in Slaves : Count(c, s) = 0 \/ (s \notin up /\ c \notin users[s])

(* When a calculation ends every voltage of the component was set, and     *)
(* from the component's own matrices, if it had the slaves to itself and   *)
(* all of them answered.                                                   *)
VoltagesComplete ==
    \A c \in Component :
        calc[c].phase = "idle" /\ calc[c].full /\ c \notin broken /\ Alone(c) =>
            \A r \in Rows(c) : volts[c][r] = c

(* What a slave has of a component's vector is what the component has,     *)
(* but for rows that are zero there: these are not sent, and the slave     *)
(* goes on with what the row was before.                                   *)
OnlyZerosStale ==
    \A c \in Component :
        calc[c].phase = "second" /\ c \notin broken /\ Alone(c) =>
            \A s \in up : \A r \in 0 .. Count(c, s) - 1 :
                LET own == calc[c].I[StartIndex[c][s] + r]
                IN own # 0 => slave[s].I[r] = own

(* A calculation ends, with the process if a slave cannot be reached.      *)
CalculationEnds == \A c \in Component : calc[c].phase # "idle" ~> calc[c].phase \in {"idle", "exit"}
=============================================================================
