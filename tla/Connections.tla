---------------------------- MODULE Connections ----------------------------
(***************************************************************************)
(* The sockets of one replica before and after what they say is handled    *)
(* (createWsServer in gateway/src/ws/server.ts): how many an address may   *)
(* hold, and the heartbeat that drops those whose peer has gone without a  *)
(* word.  All sockets here come from one address.                          *)
(***************************************************************************)
EXTENDS Naturals, FiniteSets

CONSTANTS Socket,
          PerAddress  \* config.limits.connectionsPerAddress

VARIABLES socket,  \* "new", "open", "refused"; "leaving" or "terminated" while its close is not handled; "closed"
          peer,    \* whether the browser at the other end is there
          alive,   \* state.alive: it answered since the last beat
          pinged,  \* pings on their way, and pongs
          open     \* perAddress
vars == <<socket, peer, alive, pinged, open>>

TypeOK ==
    /\ socket \in [Socket -> {"new", "open", "refused", "leaving", "terminated", "closed"}]
    /\ peer \in [Socket -> BOOLEAN] /\ alive \in [Socket -> BOOLEAN]
    /\ pinged \in [Socket -> {"none", "ping", "pong"}]
    /\ open \in 0..PerAddress

Init ==
    /\ socket = [s \in Socket |-> "new"] /\ peer = [s \in Socket |-> TRUE]
    /\ alive = [s \in Socket |-> TRUE] /\ pinged = [s \in Socket |-> "none"]
    /\ open = 0

(* One too many is closed, and neither counted nor given handlers.           *)
(* Mutant: a socket over the cap is counted before it is closed. *)
CountedFirst(s) == open + 1
Counted(s) == IF open + 1 > PerAddress THEN open ELSE open + 1
Connect(s) ==
    /\ socket[s] = "new"
    /\ socket' = [socket EXCEPT ![s] = IF open + 1 > PerAddress THEN "refused" ELSE "open"]
    /\ open' = Counted(s)
    /\ UNCHANGED <<peer, alive, pinged>>

(* The browser closes, or vanishes: its machine sleeps, its network goes.    *)
Close(s) ==
    /\ socket[s] = "open" /\ peer[s] /\ socket' = [socket EXCEPT ![s] = "leaving"]
    /\ UNCHANGED <<peer, alive, pinged, open>>
Vanish(s) ==
    /\ socket[s] = "open" /\ peer[s] /\ peer' = [peer EXCEPT ![s] = FALSE]
    /\ UNCHANGED <<socket, alive, pinged, open>>

(* Every 30 seconds: sockets that did not answer the last beat are           *)
(* terminated, the others are asked again.  A browser that is there answers  *)
(* a ping well before the next beat.                                         *)
OpenNow == {s \in Socket : socket[s] = "open"}
Silent == {s \in OpenNow : ~alive[s]}
(* Mutant: the flag is not taken back before the next answer. *)
TakenBackNever(s) == alive[s]
TakenBack(s) == alive[s] /\ s \notin OpenNow \ Silent
Beat ==
    /\ OpenNow # {}
    /\ \A s \in OpenNow : peer[s] => pinged[s] = "none"
    /\ socket' = [s \in Socket |-> IF s \in Silent THEN "terminated" ELSE socket[s]]
    /\ alive' = [s \in Socket |-> TakenBack(s)]
    /\ pinged' = [s \in Socket |-> IF s \in OpenNow \ Silent THEN "ping" ELSE pinged[s]]
    /\ UNCHANGED <<peer, open>>

Answer(s) ==
    /\ pinged[s] = "ping" /\ peer[s] /\ socket[s] = "open"
    /\ pinged' = [pinged EXCEPT ![s] = "pong"]
    /\ UNCHANGED <<socket, peer, alive, open>>
(* Mutant: a pong is taken for any message. *)
PongUnnoticed(s) ==
    /\ pinged[s] = "pong" /\ pinged' = [pinged EXCEPT ![s] = "none"]
    /\ UNCHANGED <<socket, peer, alive, open>>
Pong(s) ==
    /\ pinged[s] = "pong" /\ pinged' = [pinged EXCEPT ![s] = "none"]
    /\ alive' = [alive EXCEPT ![s] = TRUE]
    /\ UNCHANGED <<socket, peer, open>>

(* The close event: the connection's place is given back, once.              *)
Closed(s) ==
    /\ socket[s] \in {"leaving", "terminated"}
    /\ socket' = [socket EXCEPT ![s] = "closed"]
    /\ open' = open - 1
    /\ UNCHANGED <<peer, alive, pinged>>

Handled == Beat \/ \E s \in Socket : Answer(s) \/ Pong(s) \/ Closed(s)
Next == Handled \/ \E s \in Socket : Connect(s) \/ Close(s) \/ Vanish(s)

Fairness == WF_vars(Beat) /\ \A s \in Socket : WF_vars(Answer(s) \/ Pong(s)) /\ WF_vars(Closed(s))
Spec == Init /\ [][Next]_vars /\ Fairness

-----------------------------------------------------------------------------
(* The count is the sockets that were let in and not closed: an address is   *)
(* neither let past its cap nor locked out by sockets long gone.             *)
CountsWhoIsThere == open = Cardinality({s \in Socket : socket[s] \in {"open", "leaving", "terminated"}})

(* The heartbeat drops nobody who is there and answers.                      *)
AnswerersStay == \A s \in Socket : socket[s] = "terminated" => ~peer[s]

(* In the end no socket is left open whose peer vanished.                    *)
GoneAreDropped == <>[](\A s \in Socket : socket[s] = "open" => peer[s])
=============================================================================
