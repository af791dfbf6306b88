------------------------------- MODULE Sockets -------------------------------
(***************************************************************************)
(* One session with its main room and a locked breakout room: the          *)
(* connections that join it, move between rooms and close (ws/server.ts),  *)
(* the registries and presence they are counted in (registry.ts,           *)
(* presence.ts), and what its owner does: admit, turn away, remove, ban,   *)
(* hand over, delete the breakout room, end the session (sessions.ts,      *)
(* manage.ts), with the rows of all of them (repositories.ts).             *)
(*                                                                         *)
(* A connection has two threads: the queue of its frames (conn[c].at) and  *)
(* its close event (conn[c].bye).  Leaving a room is a thread of its own   *)
(* (exits), since a removal starts it beside both.  A step runs to the     *)
(* next await.                                                             *)
(***************************************************************************)
EXTENDS Integers, FiniteSets

CONSTANTS
    Person, Host,    \* people; the one who made the breakout room
    Conn,            \* connections, each used once
    Whose, Home,     \* the person and the replica of each
    None,
    Budgets          \* bounds on the owner's actions, one chosen in Init

\* Participant ids: a person who is removed may come back under a new one.
Pid == Person \X {1, 2}
Rooms == {"main", "side"}
Scopes == {"session"} \cup Rooms
Ops == {"connect", "remove", "ban", "decide", "waiting", "handOver", "deleteRoom", "end", "switch"}

ASSUME SocketsAssumption == /\ Host \in Person
                            /\ Whose \in [Conn -> Person]
                            /\ Budgets \subseteq [Ops -> Nat]
                            /\ None \notin Pid \cup Scopes

VARIABLES
    session,     \* sessions: alive, the code was changed, the waiting room is on
    owner,       \* created_by of the main room
    rooms,       \* rooms
    row,         \* participants, by id
    bans, grants,\* room_bans and room_members of the breakout room
    knows,       \* the participant id in each person's browser
    conn,        \* ConnectionState
    registry,    \* roomRegistry and sessionRegistry of all replicas
    present,     \* the presence sorted sets: connections, by scope
    exits,       \* leaveRoom calls under way
    mail,        \* events on their way to a connection's replica
    said,        \* history: what each room was last told of each person
    op,          \* the owner's request under way
    admitted,    \* history: ids let in by the owner
    crossed,     \* history: people whose joins, leaves and removals overlapped
    budget

rows == <<session, owner, rooms, row, bans, grants>>
vars == <<rows, knows, conn, registry, present, exits, mail, said, op, admitted, crossed, budget>>

NewConn == [st |-> "new", pid |-> None, room |-> None, pending |-> FALSE, closing |-> FALSE,
            at |-> "idle", bye |-> "no", want |-> None, code |-> FALSE, asked |-> FALSE,
            member |-> FALSE]
NoRow == [st |-> "none", waiting |-> FALSE, connected |-> FALSE, room |-> None]

Init ==
    /\ session \in {[alive |-> TRUE, changed |-> FALSE, waits |-> w] : w \in BOOLEAN}
    /\ owner = <<Host, 1>> /\ rooms = Rooms
    /\ row = [i \in Pid |-> IF i = owner THEN [NoRow EXCEPT !.st = "member"] ELSE NoRow]
    /\ bans = {} /\ grants = {owner}
    /\ knows = [p \in Person |-> IF p = Host THEN owner ELSE None]
    /\ conn = [c \in Conn |-> NewConn]
    /\ registry = [s \in Scopes |-> {}] /\ present = [s \in Scopes |-> {}]
    /\ exits = {} /\ mail = {} /\ said = [k \in Rooms |-> [i \in Pid |-> "nothing"]]
    /\ op = [st |-> "idle", pid |-> None] /\ admitted = {} /\ crossed = {}
    /\ budget \in Budgets

-----------------------------------------------------------------------------
(* Rows and access.                                                        *)

Current(i) == row[i].st = "member" /\ ~row[i].waiting           \* isAdmittedMember

\* resolveRoomAccess, for the breakout room with or without its code.
MayEnter(i, k, code) ==
    \/ k \notin rooms
    \/ /\ Current(i)
       /\ k = "side" => i \notin bans /\ (i \in grants \/ code)

\* An event reaches the replicas subscribed to its channel, for their sockets.
Hears(c, s) == \E d \in registry[s] : Home[d] = Home[c]
Publish(s, what, i) ==
    mail' = mail \cup {[to |-> c, what |-> what, pid |-> i] :
                         c \in {d \in Conn : conn[d].st = "open" /\ Hears(d, s)}}

Goto(c, at) == conn' = [conn EXCEPT ![c].at = at]
Connections(s, i) == {c \in present[s] : conn[c].pid = i}

\* Something of the connection's is under way.
Threads(c) == \/ conn[c].at # "idle" \/ conn[c].bye \notin {"no", "done"}
              \/ \E e \in exits : e.conn = c
Busy(c) == Threads(c) \/ conn[c].closing
PersonBusy(p) == \E c \in Conn : Whose[c] = p /\ Busy(c)
\* Recorded where an action starts a thread beside another of the same person.
Overlaps(p) == crossed' = IF PersonBusy(p) THEN crossed \cup {p} ELSE crossed

-----------------------------------------------------------------------------
(* join_session, one step per await.                                       *)

\* getSessionByCode: a code that was changed opens it for current members only.
\* Mutant: a retired code is accepted with the id of anyone who once joined.
OpensOnce(i) == session.alive /\ (session.changed => i # None /\ row[i].st # "none")
Opens(i) == session.alive /\ (session.changed => i # None /\ Current(i))

Connect(c) ==
    LET i == knows[Whose[c]]
    IN  /\ conn[c].st = "new" /\ Opens(i) /\ budget["connect"] > 0
        /\ budget' = [budget EXCEPT !["connect"] = @ - 1]
        /\ conn' = [conn EXCEPT ![c].st = "open", ![c].at = "upsert", ![c].want = i,
                                ![c].asked = session.waits,
                                ![c].member = (i # None /\ Current(i))]
        /\ IF op.st = "idle" THEN Overlaps(Whose[c]) ELSE crossed' = crossed \cup {Whose[c]}
        /\ UNCHANGED <<rows, knows, registry, present, exits, mail, said, op, admitted>>

\* upsertParticipant: the row of the id brought, or a new id.
Upsert(c) ==
    LET p == Whose[c]
        old == conn[c].want
        current == old # None /\ row[old].st = "member"
        i == IF current THEN old ELSE IF row[<<p, 1>>].st = "none" THEN <<p, 1>> ELSE <<p, 2>>
    IN  /\ conn[c].at = "upsert"
        /\ IF session.alive /\ (current \/ row[i].st = "none")
           THEN /\ row' = [row EXCEPT ![i].st = "member", ![i].connected = TRUE]
                /\ conn' = [conn EXCEPT ![c].want = i, ![c].at = "connected"]
           ELSE Goto(c, "idle") /\ UNCHANGED row        \* the insert fails
        /\ UNCHANGED <<session, owner, rooms, bans, grants, knows, registry, present, exits, mail,
                       said, op, admitted, crossed, budget>>

\* setParticipantConnected, after which the connection knows who it is; here,
\* claimMainRoom and the session's registry.
Register(c) ==
    LET i == conn[c].want
    IN  /\ conn[c].at = "connected"
        /\ row' = [row EXCEPT ![i].connected = @ \/ row[i].st # "none"]
        /\ conn' = [conn EXCEPT ![c].pid = i, ![c].want = None, ![c].at = "admission"]
        /\ present' = [present EXCEPT !["session"] = @ \cup {c}]
        /\ registry' = [registry EXCEPT !["session"] = @ \cup {c}]
        /\ owner' = IF owner = None /\ session.alive THEN i ELSE owner
        /\ UNCHANGED <<session, rooms, bans, grants, knows, exits, mail, said, op, admitted,
                       crossed, budget>>

\* Whether the waiting room keeps it; the session was read at the start.
\* Mutant: only who is marked as waiting waits, and nobody new is yet.
MustWaitAgain(c) == conn[c].asked /\ conn[c].pid # owner /\ row[conn[c].pid].waiting
MustWait(c) == /\ conn[c].asked /\ conn[c].pid # owner
               /\ ~conn[c].member \/ row[conn[c].pid].waiting

Admission(c) ==
    /\ conn[c].at = "admission"
    /\ IF MustWait(c)
       THEN /\ conn' = [conn EXCEPT ![c].pending = TRUE, ![c].at = "idle"]
            /\ row' = [row EXCEPT ![conn[c].pid].waiting = row[conn[c].pid].st # "none"]
            /\ UNCHANGED admitted
       ELSE /\ Goto(c, "complete") /\ UNCHANGED row
            /\ admitted' = IF conn[c].asked THEN admitted ELSE admitted \cup {conn[c].pid}
    /\ UNCHANGED <<session, owner, rooms, bans, grants, knows, registry, present, exits, mail,
                   said, op, crossed, budget>>

\* completeJoin: told of the session, then into the room it was in, which its
\* browser named, when that is still there and open to it, or the main room.
Complete(c) ==
    /\ conn[c].at = "complete"
    /\ IF session.alive
       THEN /\ \E k \in {"main"} \cup {r \in rooms : MayEnter(conn[c].pid, r, FALSE)} :
                  conn' = [conn EXCEPT ![c].want = k, ![c].code = FALSE, ![c].at = "access"]
            /\ knows' = [knows EXCEPT ![Whose[c]] = conn[c].pid]
       ELSE Goto(c, "idle") /\ UNCHANGED knows
    /\ UNCHANGED <<rows, registry, present, exits, mail, said, op, admitted, crossed, budget>>

-----------------------------------------------------------------------------
(* Entering and leaving a room.                                            *)

\* Mutant: a connection that joined no session may ask for a room.
MayAskAnyone(c) == conn[c].st = "open" /\ conn[c].at = "idle" /\ ~conn[c].closing /\ ~conn[c].pending
MayAsk(c) == /\ conn[c].st = "open" /\ conn[c].at = "idle" /\ ~conn[c].closing /\ ~conn[c].pending
             /\ conn[c].pid # None

\* A join_room frame, with the breakout room's code or not.
AskRoom(c, k, code) ==
    /\ MayAsk(c) /\ conn[c].room # k /\ budget["switch"] > 0
    /\ budget' = [budget EXCEPT !["switch"] = @ - 1]
    /\ conn' = [conn EXCEPT ![c].want = k, ![c].code = code, ![c].at = "access"]
    /\ Overlaps(Whose[c])
    /\ UNCHANGED <<rows, knows, registry, present, exits, mail, said, op, admitted>>

\* The part of leaveRoom before its first await.
Out(c, how) ==
    LET k == conn[c].room
    IN  /\ registry' = IF k = None THEN registry ELSE [registry EXCEPT ![k] = @ \ {c}]
        /\ exits' = IF k = None THEN exits
                    ELSE exits \cup {[conn |-> c, room |-> k, st |-> "gone", how |-> how]}

\* getRoom and resolveRoomAccess; if they let it in, out of the room it is in.
Access(c) ==
    LET k == conn[c].want
        i == conn[c].pid
    IN  /\ conn[c].at = "access"
        /\ IF k \notin rooms \/ ~MayEnter(i, k, conn[c].code)
           THEN Goto(c, "idle") /\ UNCHANGED <<registry, exits, grants>>
           ELSE /\ conn' = [conn EXCEPT ![c].room = IF @ = k THEN k ELSE None, ![c].at = "move"]
                /\ grants' = IF k = "side" THEN grants \cup {i} ELSE grants
                /\ IF conn[c].room = k THEN UNCHANGED <<registry, exits>> ELSE Out(c, "switch")
        /\ UNCHANGED <<session, owner, rooms, row, bans, knows, present, mail, said, op, admitted,
                       crossed, budget>>

\* setParticipantRoom, once the switch has left the old room.
Move(c) ==
    LET i == conn[c].pid
    IN  /\ conn[c].at = "move"
        /\ ~\E e \in exits : e.conn = c /\ e.how = "switch"
        /\ IF row[i].st # "none" /\ conn[c].want \in rooms
           THEN /\ row' = [row EXCEPT ![i].room = conn[c].want]
                /\ conn' = [conn EXCEPT ![c].room = conn[c].want, ![c].at = "enter"]
           ELSE Goto(c, "idle") /\ UNCHANGED row
        /\ UNCHANGED <<session, owner, rooms, bans, grants, knows, registry, present, exits, mail,
                       said, op, admitted, crossed, budget>>

\* here, then the room's registry.
Enter(c) ==
    LET k == conn[c].want
    IN  /\ conn[c].at = "enter"
        /\ present' = [present EXCEPT ![k] = @ \cup {c}]
        /\ registry' = [registry EXCEPT ![k] = @ \cup {c}]
        /\ Goto(c, "joined")
        /\ UNCHANGED <<rows, knows, exits, mail, said, op, admitted, crossed, budget>>

\* The snapshot has been read and sent: participant_joined.
SayJoined(c) ==
    /\ conn[c].at = "joined"
    /\ said' = [said EXCEPT ![conn[c].want][conn[c].pid] = "joined"]
    /\ conn' = [conn EXCEPT ![c].want = None, ![c].at = "idle"]
    /\ UNCHANGED <<rows, knows, registry, present, exits, mail, op, admitted, crossed, budget>>

\* Mutant: the person has left when this connection has.
OthersNone(e) == {}
Others(e) == Connections(e.room, conn[e.conn].pid) \ {e.conn}

\* gone: nothing more to do if another connection of the person is there.
Gone(e) ==
    LET k == e.room
        others == Others(e)
    IN  /\ e \in exits /\ e.st = "gone"
        /\ present' = [present EXCEPT ![k] = @ \ {e.conn}]
        /\ exits' = (exits \ {e}) \cup IF others = {} THEN {[e EXCEPT !.st = "say"]} ELSE {}
        /\ UNCHANGED <<rows, knows, conn, registry, mail, said, op, admitted, crossed, budget>>

SayLeft(e) ==
    /\ e \in exits /\ e.st = "say"
    /\ said' = [said EXCEPT ![e.room][conn[e.conn].pid] = "left"]
    /\ exits' = exits \ {e}
    /\ UNCHANGED <<rows, knows, conn, registry, present, mail, op, admitted, crossed, budget>>

-----------------------------------------------------------------------------
(* Closing: handleClose.                                                   *)

\* The socket closes, from either side.  Frames still queued are handled.
Close(c) ==
    /\ conn[c].st = "open"
    /\ conn' = [conn EXCEPT ![c].st = "closed", ![c].closing = FALSE,
                            ![c].bye = IF conn[c].pid = None THEN "leave" ELSE "gone"]
    /\ crossed' = IF Threads(c) \/ \E d \in Conn \ {c} : Whose[d] = Whose[c] /\ Busy(d)
                  THEN crossed \cup {Whose[c]} ELSE crossed
    /\ UNCHANGED <<rows, knows, registry, present, exits, mail, said, op, admitted, budget>>

\* gone: whether this was the person's last connection.
CloseGone(c) ==
    LET others == Connections("session", conn[c].pid) \ {c}
    IN  /\ conn[c].bye = "gone"
        /\ present' = [present EXCEPT !["session"] = @ \ {c}]
        /\ conn' = [conn EXCEPT ![c].bye = IF others = {} THEN "disconnect" ELSE "leave"]
        /\ UNCHANGED <<rows, knows, registry, exits, mail, said, op, admitted, crossed, budget>>

\* setParticipantConnected: false.
Disconnect(c) ==
    /\ conn[c].bye = "disconnect"
    /\ row' = [row EXCEPT ![conn[c].pid].connected = FALSE]
    /\ conn' = [conn EXCEPT ![c].bye = "leave"]
    /\ UNCHANGED <<session, owner, rooms, bans, grants, knows, registry, present, exits, mail, said,
                   op, admitted, crossed, budget>>

CloseLeave(c) ==
    /\ conn[c].bye = "leave"
    /\ Out(c, "close")
    /\ conn' = [conn EXCEPT ![c].room = None, ![c].bye = "unregister"]
    /\ UNCHANGED <<rows, knows, present, mail, said, op, admitted, crossed, budget>>

\* leaveRoom has returned: off the session's registry.
Unregister(c) ==
    /\ conn[c].bye = "unregister" /\ ~\E e \in exits : e.conn = c /\ e.how = "close"
    /\ registry' = [registry EXCEPT !["session"] = @ \ {c}]
    /\ conn' = [conn EXCEPT ![c].bye = "done"]
    /\ UNCHANGED <<rows, knows, present, exits, mail, said, op, admitted, crossed, budget>>

\* Nobody renews a closed connection's presence: it stops counting (TTL_MS).
Expire(c, s) ==
    /\ conn[c].bye = "done" /\ conn[c].at = "idle" /\ c \in present[s]
    /\ present' = [present EXCEPT ![s] = @ \ {c}]
    /\ UNCHANGED <<rows, knows, conn, registry, exits, mail, said, op, admitted, crossed, budget>>

-----------------------------------------------------------------------------
(* Events that reach a connection's replica.                               *)

\* states.delete: a closed socket is not found any more.
Mine(c, m) == conn[c].st = "open" /\ conn[c].pid = m.pid

\* removeLocally and the events that end a connection or let it in.
\* Mutant: only the connections in the main room are closed.
RemovesMain(c, m) == m.what = "removed" /\ Mine(c, m) /\ conn[c].room = "main"
Removes(c, m) == m.what = "removed" /\ Mine(c, m)
Bans(c, m) == m.what = "banned" /\ Mine(c, m) /\ conn[c].room = "side"
Ends(c, m) == m.what = "ended" /\ conn[c].st = "open" /\ conn[c].pid # None
\* Mutant: who is turned away is not told.
DecidesYes(c, m) == m.what = "let in" /\ Mine(c, m) /\ conn[c].pending
Decides(c, m) == m.what \in {"let in", "turned away"} /\ Mine(c, m) /\ conn[c].pending
\* Mutant: completing a join leaves the connection marked as waiting.
StillPendingOn(c, m) == conn[c].pending
StillPending(c, m) == conn[c].pending /\ ~(Decides(c, m) /\ m.what = "let in")

Deliver(m) ==
    LET c == m.to
    IN  /\ m \in mail
        /\ mail' = mail \ {m}
        /\ conn' = [conn EXCEPT
               ![c].closing = @ \/ Removes(c, m) \/ Ends(c, m)
                                \/ (Decides(c, m) /\ m.what = "turned away"),
               ![c].room = IF Bans(c, m) THEN None ELSE @,
               ![c].pending = StillPending(c, m),
               ![c].at = IF Decides(c, m) /\ m.what = "let in" THEN "complete" ELSE @]
        /\ IF Bans(c, m) THEN Out(c, "removal") ELSE UNCHANGED <<registry, exits>>
        /\ IF Bans(c, m) \/ Decides(c, m) THEN Overlaps(Whose[c]) ELSE UNCHANGED crossed
        /\ UNCHANGED <<rows, knows, present, said, op, admitted, budget>>

-----------------------------------------------------------------------------
(* The owner's requests: the change to the rows, then the event.           *)

Does(what) == /\ op.st = "idle" /\ session.alive /\ budget[what] > 0
              /\ budget' = [budget EXCEPT ![what] = @ - 1]
Says(st, i) == op' = [st |-> st, pid |-> i]

\* removeFromSession, for a removal from the main room or a refusal.
TakeOut(i) == row' = [row EXCEPT ![i].st = "removed", ![i].connected = FALSE, ![i].room = None]

RemovePerson(i) ==
    /\ Does("remove") /\ row[i].st = "member" /\ i # owner
    /\ TakeOut(i) /\ Says("removed", i)
    /\ Overlaps(i[1])
    /\ UNCHANGED <<session, owner, rooms, bans, grants, knows, conn, registry, present, exits, mail,
                   said, admitted>>

Ban(i) ==
    /\ Does("ban") /\ row[i].st = "member" /\ i # owner /\ "side" \in rooms /\ i # <<Host, 1>>
    /\ bans' = bans \cup {i} /\ grants' = grants \ {i}
    /\ Says("banned", i)
    /\ Overlaps(i[1])
    /\ UNCHANGED <<session, owner, rooms, row, knows, conn, registry, present, exits, mail, said,
                   admitted>>

Decide(i, admit) ==
    /\ Does("decide") /\ row[i].st = "member" /\ row[i].waiting
    /\ IF admit THEN row' = [row EXCEPT ![i].waiting = FALSE] ELSE TakeOut(i)
    /\ admitted' = IF admit THEN admitted \cup {i} ELSE admitted
    /\ Says(IF admit THEN "let in" ELSE "turned away", i)
    /\ UNCHANGED <<session, owner, rooms, bans, grants, knows, conn, registry, present, exits, mail,
                   said, crossed>>

SetWaitingRoom ==
    /\ Does("waiting")
    /\ session' = [session EXCEPT !.waits = ~@]
    /\ UNCHANGED <<owner, rooms, row, bans, grants, knows, conn, registry, present, exits, mail, said,
                   op, admitted, crossed>>

HandOver(i) ==
    /\ Does("handOver") /\ Current(i) /\ i # owner
    /\ owner' = i /\ admitted' = admitted \cup {i}
    /\ UNCHANGED <<session, rooms, row, bans, grants, knows, conn, registry, present, exits, mail,
                   said, op, crossed>>

\* Told first, then the rows go; its people's rows point to no room.
DeleteRoom ==
    /\ Does("deleteRoom") /\ "side" \in rooms
    /\ rooms' = rooms \ {"side"} /\ bans' = {} /\ grants' = {}
    /\ row' = [i \in Pid |-> IF row[i].room = "side" THEN [row[i] EXCEPT !.room = None] ELSE row[i]]
    /\ UNCHANGED <<session, owner, knows, conn, registry, present, exits, mail, said, op, admitted,
                   crossed>>

\* session_ended, then the rows.
EndSession ==
    /\ Does("end")
    /\ Publish("session", "ended", None) /\ Says("ending", None)
    /\ UNCHANGED <<rows, knows, conn, registry, present, exits, said, admitted, crossed>>

DeleteSession ==
    /\ op.st = "ending"
    /\ session' = [session EXCEPT !.alive = FALSE] /\ rooms' = {} /\ owner' = None
    /\ row' = [i \in Pid |-> NoRow] /\ bans' = {} /\ grants' = {}
    /\ Says("idle", None)
    /\ UNCHANGED <<knows, conn, registry, present, exits, mail, said, admitted, crossed, budget>>

\* The event; a removal from the session changes its code after it.
Announce ==
    /\ op.st \in {"removed", "banned", "let in", "turned away"}
    /\ Publish(IF op.st = "banned" THEN "side" ELSE "session", op.st, op.pid)
    /\ Says(IF op.st = "removed" THEN "rotate" ELSE "idle", None)
    /\ UNCHANGED <<rows, knows, conn, registry, present, exits, said, admitted, crossed, budget>>

RotateCode ==
    /\ op.st = "rotate"
    /\ session' = [session EXCEPT !.changed = TRUE]
    /\ Says("idle", None)
    /\ crossed' = crossed \cup {Whose[c] : c \in {d \in Conn : conn[d].at = "upsert"}}
    /\ UNCHANGED <<owner, rooms, row, bans, grants, knows, conn, registry, present, exits, mail, said,
                   admitted, budget>>

-----------------------------------------------------------------------------
FrameStep(c) == \/ Upsert(c) \/ Register(c) \/ Admission(c) \/ Complete(c)
                \/ Access(c) \/ Move(c) \/ Enter(c) \/ SayJoined(c)
CloseStep(c) == CloseGone(c) \/ Disconnect(c) \/ CloseLeave(c) \/ Unregister(c)

OwnerStep == \/ \E i \in Pid : RemovePerson(i) \/ Ban(i) \/ HandOver(i) \/ \E a \in BOOLEAN : Decide(i, a)
             \/ SetWaitingRoom \/ DeleteRoom \/ EndSession
             \/ DeleteSession \/ Announce \/ RotateCode

Next == \/ \E c \in Conn : \/ Connect(c) \/ FrameStep(c) \/ CloseStep(c) \/ Close(c)
                           \/ \E k \in Rooms, code \in BOOLEAN : AskRoom(c, k, code)
                           \/ \E s \in Scopes : Expire(c, s)
        \/ \E e \in exits : Gone(e) \/ SayLeft(e)
        \/ \E m \in mail : Deliver(m)
        \/ OwnerStep

Spec == Init /\ [][Next]_vars

-----------------------------------------------------------------------------
(* Properties.                                                             *)

IdOrNone == Pid \cup {None}
TypeOK ==
    /\ session \in [alive : BOOLEAN, changed : BOOLEAN, waits : BOOLEAN]
    /\ owner \in IdOrNone /\ rooms \subseteq Rooms /\ bans \subseteq Pid /\ grants \subseteq Pid
    /\ row \in [Pid -> [st : {"none", "member", "removed"}, waiting : BOOLEAN, connected : BOOLEAN,
                        room : Rooms \cup {None}]]
    /\ knows \in [Person -> IdOrNone]
    /\ \A c \in Conn : /\ conn[c].pid \in IdOrNone /\ conn[c].want \in IdOrNone \cup Rooms
                       /\ conn[c].room \in Rooms \cup {None}
                       /\ conn[c].at \notin {"idle", "upsert", "connected"} => conn[c].pid # None
    /\ registry \in [Scopes -> SUBSET Conn] /\ present \in [Scopes -> SUBSET Conn]
    /\ said \in [Rooms -> [Pid -> {"nothing", "joined", "left"}]]
    /\ admitted \subseteq Pid /\ crossed \subseteq Person

OpenOf(i) == {c \in Conn : conn[c].st = "open" /\ conn[c].pid = i}
In(i, k) == {c \in Conn : conn[c].st = "open" /\ conn[c].pid = i /\ conn[c].room = k}
\* Nothing of the person's, and no request of the owner's, is under way.
Quiet(p) == /\ ~PersonBusy(p) /\ op.st = "idle" /\ session.alive
            /\ \A m \in mail : Whose[m.to] # p

\* Someone in the waiting room is in no room and gets no room's events
\* (ConnectionState.pending: "shown nothing of the session").
WaitersOutside ==
    \A c \in Conn : conn[c].pending =>
        conn[c].room = None /\ \A k \in Rooms : c \notin registry[k] \cup present[k]

\* A connection in a room joined while the waiting room was off, or its owner
\* let it in - unless a removal came between the steps of its join, where the
\* membership it was read to have is its old id's (handleJoinSession).
LetIn ==
    \A c \in Conn : conn[c].room # None /\ Whose[c] \notin crossed =>
        conn[c].pid \in admitted \cup {<<Host, 1>>}

\* A connection kept waiting can still be decided on: no decision is lost
\* between the row, the event and the connection that waits for it.
NobodyForgotten ==
    op.st = "idle" /\ session.alive =>
        \A c \in Conn : \/ ~conn[c].pending \/ conn[c].st # "open" \/ conn[c].closing
                        \/ Whose[c] \in crossed \/ \E m \in mail : m.to = c
                        \/ (row[conn[c].pid].st = "member" /\ row[conn[c].pid].waiting)

\* Once the events have arrived, someone removed from the session is in no room
\* of it, and someone banned from the breakout room is not in that.
RemovedOut ==
    \A i \in Pid : Quiet(i[1]) =>
        /\ row[i].st = "removed" => \A k \in Rooms : In(i, k) = {}
        /\ i \in bans /\ i[1] \notin crossed => In(i, "side") = {}

\* With several tabs and devices, whatever order they joined, moved and closed
\* in: the registries and the presence of a room hold the person's connections
\* that are in it, the room was last told they joined exactly when there is
\* one, and they count as connected while any is open.
CountedWhereTheyAre ==
    \A i \in Pid : Quiet(i[1]) /\ i[1] \notin crossed =>
        /\ row[i].st = "member" => (row[i].connected <=> OpenOf(i) # {})
        /\ \A k \in Rooms :
               /\ {c \in registry[k] : conn[c].pid = i} = In(i, k) /\ Connections(k, i) = In(i, k)
               /\ said[k][i] = "joined" <=> In(i, k) # {}

\* Once the code was changed nobody new joins the session, whose join was not
\* under way when it was (getSessionByCode, rotateSessionCode).
CodeKeepsOut ==
    [][session.changed =>
          \A i \in Pid : row[i].st = "none" /\ row'[i].st # "none" => i[1] \in crossed]_vars

\* Whoever is in a room got in by right: past the waiting room, not removed,
\* with a code that was good when they joined.
InsideByRight == []TypeOK /\ []WaitersOutside /\ []LetIn /\ []RemovedOut /\ CodeKeepsOut
=============================================================================
