---------------------------- MODULE SocketsProofs ----------------------------
(***************************************************************************)
(* Proofs about Sockets, for any people, connections and replicas and any  *)
(* number of the owner's requests: whoever is in a room is there by right  *)
(* (InsideByRight), nobody who waits is forgotten (NobodyForgotten), and   *)
(* everyone is counted where they are (CountedWhereTheyAre).               *)
(*                                                                         *)
(* A participant id is held by the connections that have it or bring it.   *)
(* The argument is about who can hold an id in the waiting room: a row is  *)
(* marked as waiting only for an id that was made for the one connection   *)
(* that waits (FreshAlone), so every connection that holds it is pending   *)
(* (WaitingHeldByPending), and a decision on the row finds nobody inside.  *)
(*                                                                         *)
(* Counting is about one thing at a time: as long as nothing overlapped, a *)
(* person has at most one connection with threads (Alone), so the others   *)
(* are where the registries and the presence say (Recorded), and whoever   *)
(* finds nobody else when it leaves was the last and still is (LastOne).   *)
(***************************************************************************)
EXTENDS Sockets, TLAPS

-----------------------------------------------------------------------------
(* Types.                                                                  *)

AtStates  == {"idle", "upsert", "connected", "admission", "complete", "access", "move", "enter", "joined"}
ByeStates == {"no", "gone", "disconnect", "leave", "unregister", "done"}
OpStates  == {"idle", "removed", "banned", "let in", "turned away", "rotate", "ending"}
Events    == {"removed", "banned", "let in", "turned away", "ended"}

Connection == [st : {"new", "open", "closed"}, pid : IdOrNone, room : Rooms \cup {None},
               pending : BOOLEAN, closing : BOOLEAN, at : AtStates, bye : ByeStates,
               want : IdOrNone \cup Rooms, code : BOOLEAN, asked : BOOLEAN, member : BOOLEAN]
Row == [st : {"none", "member", "removed"}, waiting : BOOLEAN, connected : BOOLEAN,
        room : Rooms \cup {None}]

Typed ==
    /\ session \in [alive : BOOLEAN, changed : BOOLEAN, waits : BOOLEAN]
    /\ owner \in IdOrNone /\ rooms \subseteq Rooms /\ bans \subseteq Pid /\ grants \subseteq Pid
    /\ row \in [Pid -> Row]
    /\ knows \in [Person -> IdOrNone]
    /\ conn \in [Conn -> Connection]
    /\ registry \in [Scopes -> SUBSET Conn] /\ present \in [Scopes -> SUBSET Conn]
    /\ exits \subseteq [conn : Conn, room : Rooms, st : {"gone", "say"},
                        how : {"switch", "close", "removal"}]
    /\ mail \subseteq [to : Conn, what : Events, pid : IdOrNone]
    /\ said \in [Rooms -> [Pid -> {"nothing", "joined", "left"}]]
    /\ op \in [st : OpStates, pid : IdOrNone]
    /\ admitted \subseteq Pid /\ crossed \subseteq Person

\* What goes together in a connection's state, whose id it is, and that an
\* open connection with an id is in the session's registry.
Shaped(c) ==
    /\ conn[c].st = "new" => conn[c].at = "idle" /\ conn[c].pid = None
    /\ conn[c].bye = "no" <=> conn[c].st # "closed"
    /\ conn[c].at \in {"upsert", "connected"} => conn[c].pid = None
    /\ conn[c].at = "upsert" => conn[c].want \in IdOrNone
    /\ conn[c].at = "connected" => conn[c].want \in Pid
    /\ conn[c].at \in {"access", "move", "enter", "joined"} => conn[c].want \in Rooms
    /\ conn[c].at \notin {"idle", "upsert", "connected"} => conn[c].pid # None
    /\ conn[c].pid \in Pid => conn[c].pid[1] = Whose[c]
    /\ conn[c].at \in {"upsert", "connected"} /\ conn[c].want \in Pid => conn[c].want[1] = Whose[c]
    /\ conn[c].pending => conn[c].at = "idle" /\ conn[c].pid # None
    /\ conn[c].closing => conn[c].st = "open"
    /\ conn[c].st = "open" /\ conn[c].pid # None => c \in registry["session"]
ShapedAll == /\ \A c \in Conn : Shaped(c)
             /\ \A p \in Person : knows[p] \in Pid => knows[p][1] = p

\* In no room before the join is complete.
OutOfRooms(c) == conn[c].room = None /\ \A k \in Rooms : c \notin registry[k] \cup present[k]
Joining(c) == conn[c].pid = None \/ conn[c].pending \/ conn[c].at \in {"admission", "complete"}
JoiningOutside == \A c \in Conn : Joining(c) => OutOfRooms(c)

-----------------------------------------------------------------------------
(* Who holds an id.                                                        *)

Brings(c, x) == conn[c].at \in {"upsert", "connected"} /\ conn[c].want = x
Holds(c, x) == conn[c].pid = x \/ Brings(c, x)
Known(x) == \E p \in Person : knows[p] = x
\* Made for the connection, which has not been through Admission.
Fresh(c, x) == /\ ~conn[c].member
               /\ \/ conn[c].at = "connected" /\ conn[c].want = x
                  \/ conn[c].at = "admission" /\ conn[c].pid = x
LetInUnderWay(x) == \/ op.st = "let in" /\ op.pid = x
                    \/ \E m \in mail : m.what = "let in" /\ m.pid = x

NoneRows == /\ \A x \in Pid : row[x].st = "none" => ~row[x].waiting
            /\ ~session.alive => \A x \in Pid : row[x].st = "none"
HeldHasRow == session.alive => \A x \in Pid :
                  (\E c \in Conn : Holds(c, x)) \/ Known(x) \/ LetInUnderWay(x) => row[x].st # "none"
FreshAlone == \A c \in Conn, x \in Pid : Fresh(c, x) =>
                  ~Known(x) /\ ~LetInUnderWay(x) /\ \A d \in Conn \ {c} : ~Holds(d, x)
WaitingHeldByPending ==
    \A x \in Pid : row[x].waiting =>
        ~Known(x) /\ ~LetInUnderWay(x) /\ \A c \in Conn : Holds(c, x) => conn[c].pending
\* The id brought was removed, if the connection is not that of a member.
BroughtRemoved == session.alive => \A c \in Conn, x \in Pid :
    conn[c].at = "upsert" /\ conn[c].want = x /\ ~conn[c].member => row[x].st = "removed"

Held == NoneRows /\ HeldHasRow /\ FreshAlone /\ WaitingHeldByPending /\ BroughtRemoved

-----------------------------------------------------------------------------
(* Who was let in.                                                         *)

Allowed == admitted \cup {<<Host, 1>>}
OwnerAllowed == (owner # None => owner \in Allowed) /\ (owner = None => ~session.alive)
LetInAdmitted == \A x \in Pid : LetInUnderWay(x) => x \in admitted
KnownAllowed == \A p \in Person \ crossed : knows[p] # None => knows[p] \in Allowed
MemberAllowed ==
    \A c \in Conn : Whose[c] \notin crossed /\ conn[c].member =>
        /\ conn[c].at = "upsert" => /\ conn[c].want \in Pid /\ conn[c].want \in Allowed
                                    /\ session.alive => row[conn[c].want].st = "member"
        /\ conn[c].at = "connected" => conn[c].want \in Allowed
        /\ conn[c].at = "admission" => conn[c].pid \in Allowed
PastAllowed ==
    \A c \in Conn : Whose[c] \notin crossed /\ conn[c].pid # None /\ ~conn[c].pending
                        /\ conn[c].at # "admission" => conn[c].pid \in Allowed
ChangedForMembers ==
    session.changed => \A c \in Conn : conn[c].at = "upsert" /\ Whose[c] \notin crossed => conn[c].member
EnteringIsMember ==
    session.alive => \A c \in Conn, x \in Pid :
        /\ Whose[c] \notin crossed
        /\ (conn[c].at = "connected" /\ conn[c].want = x) \/ (conn[c].at = "admission" /\ conn[c].pid = x)
        => row[x].st = "member"

Entry == /\ OwnerAllowed /\ LetInAdmitted /\ KnownAllowed /\ MemberAllowed /\ PastAllowed
         /\ ChangedForMembers /\ EnteringIsMember

-----------------------------------------------------------------------------
(* Who has to go, and who still has to hear of a decision.                 *)

Told(c, what, x) == \E m \in mail : m.to = c /\ m.what = what /\ m.pid = x

InItsRegistry == \A c \in Conn : conn[c].room # None =>
                     \/ conn[c].at = "enter" /\ conn[c].want = conn[c].room
                     \/ c \in registry[conn[c].room]
RemovedGoing ==
    \A c \in Conn, x \in Pid :
        /\ conn[c].pid = x /\ row[x].st = "removed" /\ conn[c].st = "open"
        /\ conn[c].room # None \/ conn[c].at = "move"
        => conn[c].closing \/ Told(c, "removed", x) \/ (op.st = "removed" /\ op.pid = x)
BannedGoing ==
    \A c \in Conn, x \in bans :
        conn[c].pid = x /\ x[1] \notin crossed =>
            /\ conn[c].at \in {"move", "enter", "joined"} => conn[c].want # "side"
            /\ conn[c].room = "side" /\ conn[c].st = "open" =>
                   Told(c, "banned", x) \/ (op.st = "banned" /\ op.pid = x)
\* An event is on its way that ends the connection's waiting.
WillHear(c) == \E m \in mail : /\ m.to = c
                               /\ \/ m.what = "ended"
                                  \/ m.what \in {"removed", "let in", "turned away"} /\ m.pid = conn[c].pid
WaitingOnDecision ==
    session.alive =>
        \A c \in Conn : conn[c].pending /\ conn[c].st = "open" /\ Whose[c] \notin crossed =>
            \/ conn[c].closing \/ WillHear(c)
            \/ row[conn[c].pid].st = "member" /\ row[conn[c].pid].waiting
            \/ op.st \in {"removed", "let in", "turned away"} /\ op.pid = conn[c].pid

Going == InItsRegistry /\ RemovedGoing /\ BannedGoing /\ WaitingOnDecision

SocketsInv == Typed /\ ShapedAll /\ JoiningOutside /\ Held /\ Entry /\ Going

-----------------------------------------------------------------------------
(* Types and shape.                                                        *)

\* None is no id and no room.
LEMMA NoneApart == None \notin Pid /\ None \notin Rooms
BY SocketsAssumption DEF Scopes

\* Assigning to some fields of a connection or of a row keeps its type.
LEMMA SetAt ==
  ASSUME conn \in [Conn -> Connection], NEW c \in Conn,
         NEW at \in AtStates,
         conn' = [conn EXCEPT ![c].at = at]
  PROVE  conn' \in [Conn -> Connection]
  <1>1. [conn[c] EXCEPT !.at = at] \in Connection
    BY DEF Connection
  <1>2. conn' = [conn EXCEPT ![c] = [conn[c] EXCEPT !.at = at]]
    OBVIOUS
  <1> QED
    BY <1>1, <1>2

\* A connection that opens is typed.
LEMMA SetOpen ==
  ASSUME conn \in [Conn -> Connection], NEW c \in Conn,
         NEW st \in {"new", "open", "closed"}, NEW at \in AtStates, NEW want \in IdOrNone
         \cup Rooms, NEW asked \in BOOLEAN, NEW member \in BOOLEAN,
         conn' = [conn EXCEPT ![c].st = st, ![c].at = at, ![c].want = want, ![c].asked =
         asked, ![c].member = member]
  PROVE  conn' \in [Conn -> Connection]
  <1>1. [conn[c] EXCEPT !.st = st, !.at = at, !.want = want, !.asked = asked, !.member = member] \in Connection
    BY ZenonT(60) DEF Connection
  <1>2. conn' = [conn EXCEPT ![c] = [conn[c] EXCEPT !.st = st, !.at = at, !.want = want,
        !.asked = asked, !.member = member]]
    OBVIOUS
  <1> QED
    BY <1>1, <1>2

\* So is one that wants something,
LEMMA SetWant ==
  ASSUME conn \in [Conn -> Connection], NEW c \in Conn,
         NEW want \in IdOrNone \cup Rooms, NEW at \in AtStates,
         conn' = [conn EXCEPT ![c].want = want, ![c].at = at]
  PROVE  conn' \in [Conn -> Connection]
  <1>1. [conn[c] EXCEPT !.want = want, !.at = at] \in Connection
    BY DEF Connection
  <1>2. conn' = [conn EXCEPT ![c] = [conn[c] EXCEPT !.want = want, !.at = at]]
    OBVIOUS
  <1> QED
    BY <1>1, <1>2

\* has an id,
LEMMA SetPid ==
  ASSUME conn \in [Conn -> Connection], NEW c \in Conn,
         NEW pid \in IdOrNone, NEW want \in IdOrNone \cup Rooms, NEW at \in AtStates,
         conn' = [conn EXCEPT ![c].pid = pid, ![c].want = want, ![c].at = at]
  PROVE  conn' \in [Conn -> Connection]
  <1>1. [conn[c] EXCEPT !.pid = pid, !.want = want, !.at = at] \in Connection
    BY DEF Connection
  <1>2. conn' = [conn EXCEPT ![c] = [conn[c] EXCEPT !.pid = pid, !.want = want, !.at = at]]
    OBVIOUS
  <1> QED
    BY <1>1, <1>2

\* waits,
LEMMA SetPending ==
  ASSUME conn \in [Conn -> Connection], NEW c \in Conn,
         NEW pending \in BOOLEAN, NEW at \in AtStates,
         conn' = [conn EXCEPT ![c].pending = pending, ![c].at = at]
  PROVE  conn' \in [Conn -> Connection]
  <1>1. [conn[c] EXCEPT !.pending = pending, !.at = at] \in Connection
    BY DEF Connection
  <1>2. conn' = [conn EXCEPT ![c] = [conn[c] EXCEPT !.pending = pending, !.at = at]]
    OBVIOUS
  <1> QED
    BY <1>1, <1>2

\* asks for a room,
LEMMA SetTarget ==
  ASSUME conn \in [Conn -> Connection], NEW c \in Conn,
         NEW want \in IdOrNone \cup Rooms, NEW code \in BOOLEAN, NEW at \in AtStates,
         conn' = [conn EXCEPT ![c].want = want, ![c].code = code, ![c].at = at]
  PROVE  conn' \in [Conn -> Connection]
  <1>1. [conn[c] EXCEPT !.want = want, !.code = code, !.at = at] \in Connection
    BY DEF Connection
  <1>2. conn' = [conn EXCEPT ![c] = [conn[c] EXCEPT !.want = want, !.code = code, !.at =
        at]]
    OBVIOUS
  <1> QED
    BY <1>1, <1>2

\* moves,
LEMMA SetRoom ==
  ASSUME conn \in [Conn -> Connection], NEW c \in Conn,
         NEW room \in Rooms \cup {None}, NEW at \in AtStates,
         conn' = [conn EXCEPT ![c].room = room, ![c].at = at]
  PROVE  conn' \in [Conn -> Connection]
  <1>1. [conn[c] EXCEPT !.room = room, !.at = at] \in Connection
    BY DEF Connection
  <1>2. conn' = [conn EXCEPT ![c] = [conn[c] EXCEPT !.room = room, !.at = at]]
    OBVIOUS
  <1> QED
    BY <1>1, <1>2

\* says goodbye,
LEMMA SetBye ==
  ASSUME conn \in [Conn -> Connection], NEW c \in Conn,
         NEW bye \in ByeStates,
         conn' = [conn EXCEPT ![c].bye = bye]
  PROVE  conn' \in [Conn -> Connection]
  <1>1. [conn[c] EXCEPT !.bye = bye] \in Connection
    BY DEF Connection
  <1>2. conn' = [conn EXCEPT ![c] = [conn[c] EXCEPT !.bye = bye]]
    OBVIOUS
  <1> QED
    BY <1>1, <1>2

\* is put out,
LEMMA SetOut ==
  ASSUME conn \in [Conn -> Connection], NEW c \in Conn,
         NEW room \in Rooms \cup {None}, NEW bye \in ByeStates,
         conn' = [conn EXCEPT ![c].room = room, ![c].bye = bye]
  PROVE  conn' \in [Conn -> Connection]
  <1>1. [conn[c] EXCEPT !.room = room, !.bye = bye] \in Connection
    BY DEF Connection
  <1>2. conn' = [conn EXCEPT ![c] = [conn[c] EXCEPT !.room = room, !.bye = bye]]
    OBVIOUS
  <1> QED
    BY <1>1, <1>2

\* is closed,
LEMMA SetClosed ==
  ASSUME conn \in [Conn -> Connection], NEW c \in Conn,
         NEW st \in {"new", "open", "closed"}, NEW closing \in BOOLEAN, NEW bye \in
         ByeStates,
         conn' = [conn EXCEPT ![c].st = st, ![c].closing = closing, ![c].bye = bye]
  PROVE  conn' \in [Conn -> Connection]
  <1>1. [conn[c] EXCEPT !.st = st, !.closing = closing, !.bye = bye] \in Connection
    BY DEF Connection
  <1>2. conn' = [conn EXCEPT ![c] = [conn[c] EXCEPT !.st = st, !.closing = closing, !.bye =
        bye]]
    OBVIOUS
  <1> QED
    BY <1>1, <1>2

\* or hears an event.
LEMMA SetEvent ==
  ASSUME conn \in [Conn -> Connection], NEW c \in Conn,
         NEW closing \in BOOLEAN, NEW room \in Rooms \cup {None}, NEW pending \in BOOLEAN,
         NEW at \in AtStates,
         conn' = [conn EXCEPT ![c].closing = closing, ![c].room = room, ![c].pending =
         pending, ![c].at = at]
  PROVE  conn' \in [Conn -> Connection]
  <1>1. [conn[c] EXCEPT !.closing = closing, !.room = room, !.pending = pending, !.at = at] \in Connection
    BY ZenonT(60) DEF Connection
  <1>2. conn' = [conn EXCEPT ![c] = [conn[c] EXCEPT !.closing = closing, !.room = room,
        !.pending = pending, !.at = at]]
    OBVIOUS
  <1> QED
    BY <1>1, <1>2

\* A row stays a row: entered.
LEMMA RowEntered ==
  ASSUME row \in [Pid -> Row], NEW i \in Pid,
         NEW st \in {"none", "member", "removed"}, NEW connected \in BOOLEAN,
         row' = [row EXCEPT ![i].st = st, ![i].connected = connected]
  PROVE  row' \in [Pid -> Row]
  <1>1. [row[i] EXCEPT !.st = st, !.connected = connected] \in Row
    BY DEF Row
  <1>2. row' = [row EXCEPT ![i] = [row[i] EXCEPT !.st = st, !.connected = connected]]
    OBVIOUS
  <1> QED
    BY <1>1, <1>2

\* A row stays a row: connected.
LEMMA RowConnected ==
  ASSUME row \in [Pid -> Row], NEW i \in Pid,
         NEW connected \in BOOLEAN,
         row' = [row EXCEPT ![i].connected = connected]
  PROVE  row' \in [Pid -> Row]
  <1>1. [row[i] EXCEPT !.connected = connected] \in Row
    BY DEF Row
  <1>2. row' = [row EXCEPT ![i] = [row[i] EXCEPT !.connected = connected]]
    OBVIOUS
  <1> QED
    BY <1>1, <1>2

\* A row stays a row: waits.
LEMMA RowWaits ==
  ASSUME row \in [Pid -> Row], NEW i \in Pid,
         NEW waiting \in BOOLEAN,
         row' = [row EXCEPT ![i].waiting = waiting]
  PROVE  row' \in [Pid -> Row]
  <1>1. [row[i] EXCEPT !.waiting = waiting] \in Row
    BY DEF Row
  <1>2. row' = [row EXCEPT ![i] = [row[i] EXCEPT !.waiting = waiting]]
    OBVIOUS
  <1> QED
    BY <1>1, <1>2

\* A row stays a row: room.
LEMMA RowRoom ==
  ASSUME row \in [Pid -> Row], NEW i \in Pid,
         NEW room \in Rooms \cup {None},
         row' = [row EXCEPT ![i].room = room]
  PROVE  row' \in [Pid -> Row]
  <1>1. [row[i] EXCEPT !.room = room] \in Row
    BY DEF Row
  <1>2. row' = [row EXCEPT ![i] = [row[i] EXCEPT !.room = room]]
    OBVIOUS
  <1> QED
    BY <1>1, <1>2

\* A row stays a row: out.
LEMMA RowOut ==
  ASSUME row \in [Pid -> Row], NEW i \in Pid,
         NEW st \in {"none", "member", "removed"}, NEW connected \in BOOLEAN, NEW room \in
         Rooms \cup {None},
         row' = [row EXCEPT ![i].st = st, ![i].connected = connected, ![i].room = room]
  PROVE  row' \in [Pid -> Row]
  <1>1. [row[i] EXCEPT !.st = st, !.connected = connected, !.room = room] \in Row
    BY DEF Row
  <1>2. row' = [row EXCEPT ![i] = [row[i] EXCEPT !.st = st, !.connected = connected, !.room
        = room]]
    OBVIOUS
  <1> QED
    BY <1>1, <1>2

\* Init is typed.
LEMMA TypedInit == Init => Typed
  <1> SUFFICES ASSUME Init PROVE Typed
    OBVIOUS
  <1>1. <<Host, 1>> \in Pid
    BY SocketsAssumption DEF Pid
  <1>2. NewConn \in Connection /\ NoRow \in Row /\ [NoRow EXCEPT !.st = "member"] \in Row
    BY DEF NewConn, NoRow, Connection, Row, IdOrNone, AtStates, ByeStates
  <1>3. row \in [Pid -> Row] /\ conn \in [Conn -> Connection]
    BY <1>2 DEF Init
  <1>4. session \in [alive : BOOLEAN, changed : BOOLEAN, waits : BOOLEAN]
    <2>1. PICK w \in BOOLEAN : session = [alive |-> TRUE, changed |-> FALSE, waits |-> w]
      BY DEF Init
    <2> QED
      BY <2>1
  <1>6. op \in [st : OpStates, pid : IdOrNone]
    BY DEF Init, OpStates, IdOrNone
  <1>5. owner \in IdOrNone /\ grants \subseteq Pid /\ knows \in [Person -> IdOrNone]
    BY <1>1 DEF Init, IdOrNone
  <1> QED
    BY <1>3, <1>4, <1>5, <1>6 DEF Init, Typed

\* Every step keeps the types.
LEMMA FrameTyped ==
  ASSUME Typed, ShapedAll, NEW c \in Conn, Connect(c) \/ FrameStep(c)
  PROVE  Typed'
  <1> USE NoneApart DEF IdOrNone, AtStates
  <1> DEFINE p == Whose[c]
  <1>a. p \in Person /\ <<p, 1>> \in Pid /\ <<p, 2>> \in Pid
    BY SocketsAssumption DEF Pid
  <1>b. /\ conn \in [Conn -> Connection] /\ row \in [Pid -> Row] /\ conn[c] \in Connection
        /\ knows[p] \in IdOrNone
    BY <1>a DEF Typed
  <1>c. /\ conn[c].pid \in IdOrNone /\ conn[c].room \in Rooms \cup {None}
        /\ conn[c].want \in IdOrNone \cup Rooms
    BY <1>b DEF Connection
  <1> HIDE DEF p
  <1>1. CASE Connect(c)
    <2>1. conn' \in [Conn -> Connection]
      <3>1. /\ conn' = [conn EXCEPT ![c].st = "open", ![c].at = "upsert", ![c].want = knows[p],
                                    ![c].asked = session.waits,
                                    ![c].member = (knows[p] # None /\ Current(knows[p]))]
            /\ session.waits \in BOOLEAN
        BY <1>1 DEF Connect, p, Typed
      <3> QED
        BY ZenonT(60), <1>b, <3>1, SetOpen
    <2>2. crossed' \subseteq Person
      BY <1>1, <1>a DEF Connect, Overlaps, Typed, p
    <2> QED
      BY <1>1, <2>1, <2>2 DEF Connect, Typed, rows
  <1>2. CASE Upsert(c)
    <2>1. PICK i \in Pid :
            \/ /\ row' = [row EXCEPT ![i].st = "member", ![i].connected = TRUE]
               /\ conn' = [conn EXCEPT ![c].want = i, ![c].at = "connected"]
            \/ row' = row /\ conn' = [conn EXCEPT ![c].at = "idle"]
      <3>1. conn[c].want \in IdOrNone
        BY <1>2 DEF Upsert, ShapedAll, Shaped
      <3> QED
        BY ZenonT(60), <1>2, <1>a, <3>1 DEF Upsert, Goto, p
    <2>2. conn' \in [Conn -> Connection] /\ row' \in [Pid -> Row]
      BY <1>b, <2>1, SetAt, SetWant, RowEntered
    <2> QED
      BY <1>2, <2>2 DEF Upsert, Typed
  <1>3. CASE Register(c)
    <2>1. conn[c].want \in Pid
      BY <1>3 DEF Register, ShapedAll, Shaped
    <2>2. conn' = [conn EXCEPT ![c].pid = conn[c].want, ![c].want = None, ![c].at = "admission"]
      BY <1>3 DEF Register
    <2>3. conn' \in [Conn -> Connection]
      BY <1>b, <2>1, <2>2, SetPid
    <2>4. /\ row' = [row EXCEPT ![conn[c].want].connected = @ \/ row[conn[c].want].st # "none"]
          /\ row[conn[c].want].connected \in BOOLEAN
      BY <1>3, <1>b, <2>1 DEF Register, Row
    <2>5. row' \in [Pid -> Row]
      BY <1>b, <2>1, <2>4, RowConnected
    <2>6. /\ owner' \in IdOrNone
          /\ registry' \in [Scopes -> SUBSET Conn] /\ present' \in [Scopes -> SUBSET Conn]
      BY <1>3, <2>1 DEF Register, Typed
    <2> QED
      BY <1>3, <2>3, <2>5, <2>6 DEF Register, Typed
  <1>4. CASE Admission(c)
    <2>1. conn[c].pid \in Pid
      BY <1>4, <1>c DEF Admission, ShapedAll, Shaped
    <2>2. conn' \in [Conn -> Connection]
      BY <1>4, <1>b, SetAt, SetPending DEF Admission, Goto
    <2>3. row' \in [Pid -> Row]
      BY <1>4, <1>b, <2>1, RowWaits DEF Admission
    <2>4. admitted' \subseteq Pid
      BY <1>4, <2>1 DEF Admission, Typed
    <2> QED
      BY <1>4, <2>2, <2>3, <2>4 DEF Admission, Typed
  <1>5. CASE Complete(c)
    <2>1. PICK k \in Rooms :
            \/ conn' = [conn EXCEPT ![c].want = k, ![c].code = FALSE, ![c].at = "access"]
            \/ conn' = [conn EXCEPT ![c].at = "idle"]
      BY ZenonT(60), <1>5 DEF Complete, Goto, Typed, Rooms
    <2>2. conn' \in [Conn -> Connection]
      BY <1>b, <2>1, SetAt, SetTarget
    <2>3. knows' \in [Person -> IdOrNone]
      BY <1>5, <1>c DEF Complete, Typed
    <2> QED
      BY <1>5, <2>2, <2>3 DEF Complete, Typed, rows
  <1>6. CASE Access(c)
    <2>1. conn[c].want \in Rooms /\ conn[c].pid \in Pid
      BY <1>6, <1>c DEF Access, ShapedAll, Shaped
    <2>2. PICK k \in Rooms \cup {None} :
            \/ conn' = [conn EXCEPT ![c].room = k, ![c].at = "move"]
            \/ conn' = [conn EXCEPT ![c].at = "idle"]
      BY <1>6, <2>1 DEF Access, Goto
    <2>3. conn' \in [Conn -> Connection]
      BY <1>b, <2>2, SetAt, SetRoom
    <2>4. grants' \subseteq Pid
      BY <1>6, <2>1 DEF Access, Typed
    <2>5. /\ registry' \in [Scopes -> SUBSET Conn]
          /\ exits' \subseteq [conn : Conn, room : Rooms, st : {"gone", "say"},
                               how : {"switch", "close", "removal"}]
      BY <1>6, <1>c DEF Access, Out, Typed
    <2> QED
      BY <1>6, <2>3, <2>4, <2>5 DEF Access, Typed
  <1>7. CASE Move(c)
    <2>1. conn[c].want \in Rooms /\ conn[c].pid \in Pid
      BY <1>7, <1>c DEF Move, ShapedAll, Shaped
    <2>2. conn' \in [Conn -> Connection]
      BY <1>7, <1>b, <2>1, SetAt, SetRoom DEF Move, Goto
    <2>3. row' \in [Pid -> Row]
      BY <1>7, <1>b, <2>1, RowRoom DEF Move
    <2> QED
      BY <1>7, <2>2, <2>3 DEF Move, Typed
  <1>8. CASE Enter(c)
    <2>1. conn' \in [Conn -> Connection]
      BY <1>8, <1>b, SetAt DEF Enter, Goto
    <2> QED
      BY <1>8, <2>1 DEF Enter, Typed, rows
  <1>9. CASE SayJoined(c)
    <2>1. conn[c].want \in Rooms /\ conn[c].pid \in Pid
      BY <1>9, <1>c DEF SayJoined, ShapedAll, Shaped
    <2>2. conn' \in [Conn -> Connection]
      BY <1>9, <1>b, SetWant DEF SayJoined
    <2>3. said' \in [Rooms -> [Pid -> {"nothing", "joined", "left"}]]
      BY <1>9, <2>1 DEF SayJoined, Typed
    <2> QED
      BY <1>9, <2>2, <2>3 DEF SayJoined, Typed, rows
  <1> QED
    BY <1>1, <1>2, <1>3, <1>4, <1>5, <1>6, <1>7, <1>8, <1>9 DEF FrameStep

\* Going out keeps the types of what it changes.
LEMMA OutTyped ==
  ASSUME Typed, NEW c \in Conn, NEW how \in {"switch", "close", "removal"}, Out(c, how)
  PROVE  /\ registry' \in [Scopes -> SUBSET Conn]
         /\ exits' \subseteq [conn : Conn, room : Rooms, st : {"gone", "say"},
                              how : {"switch", "close", "removal"}]
  <1>1. registry \in [Scopes -> SUBSET Conn] /\ conn[c].room \in Rooms \cup {None}
    BY DEF Typed, Connection
  <1>2. CASE conn[c].room = None
    BY <1>2 DEF Out, Typed
  <1>3. CASE conn[c].room \in Rooms
    <2>1. [conn |-> c, room |-> conn[c].room, st |-> "gone", how |-> how]
            \in [conn : Conn, room : Rooms, st : {"gone", "say"}, how : {"switch", "close", "removal"}]
      BY <1>3
    <2>2. /\ registry' = [registry EXCEPT ![conn[c].room] = @ \ {c}]
          /\ exits' = exits \cup {[conn |-> c, room |-> conn[c].room, st |-> "gone", how |-> how]}
      BY <1>3, NoneApart DEF Out
    <2> QED
      BY <1>1, <2>1, <2>2 DEF Typed
  <1> QED
    BY <1>1, <1>2, <1>3

\* Who has crossed a change of rooms is a person.
LEMMA OverlapsTyped ==
  ASSUME Typed, NEW p \in Person, Overlaps(p)
  PROVE  crossed' \subseteq Person
  BY DEF Overlaps, Typed

\* A close, and a request to change rooms, keep the types.
LEMMA LeaveTyped ==
  ASSUME Typed, ShapedAll, NEW c \in Conn,
         \/ CloseStep(c) \/ Close(c)
         \/ \E k \in Rooms, code \in BOOLEAN : AskRoom(c, k, code)
         \/ \E s \in Scopes : Expire(c, s)
         \/ \E e \in exits : Gone(e) \/ SayLeft(e)
         \/ \E m \in mail : Deliver(m)
  PROVE  Typed'
  <1> USE NoneApart DEF IdOrNone, AtStates, ByeStates
  <1>a. Whose[c] \in Person
    BY SocketsAssumption
  <1>b. conn \in [Conn -> Connection] /\ row \in [Pid -> Row] /\ conn[c] \in Connection
    BY DEF Typed
  <1>c. conn[c].pid \in IdOrNone /\ conn[c].room \in Rooms \cup {None}
    BY <1>b DEF Connection
  <1>1. CASE CloseGone(c)
    <2>1. conn' \in [Conn -> Connection]
      BY <1>1, <1>b, SetBye DEF CloseGone
    <2> QED
      BY <1>1, <2>1 DEF CloseGone, Typed, rows
  <1>2. CASE Disconnect(c)
    <2>1. conn[c].pid \in IdOrNone
      BY <1>c
    <2>2. conn' \in [Conn -> Connection]
      BY <1>2, <1>b, SetBye DEF Disconnect
    <2>3. row' \in [Pid -> Row]
      <3>1. CASE conn[c].pid \in Pid
        BY <1>2, <1>b, <3>1, RowConnected DEF Disconnect
      <3>2. CASE conn[c].pid = None
        BY <1>2, <1>b, <3>2 DEF Disconnect
      <3> QED
        BY <1>c, <3>1, <3>2
    <2> QED
      BY <1>2, <2>2, <2>3 DEF Disconnect, Typed
  <1>3. CASE CloseLeave(c)
    <2>1. conn' \in [Conn -> Connection]
      BY <1>3, <1>b, SetOut DEF CloseLeave
    <2>2. Out(c, "close")
      BY <1>3 DEF CloseLeave
    <2> QED
      BY <1>3, <2>1, <2>2, OutTyped DEF CloseLeave, Typed, rows
  <1>4. CASE Unregister(c)
    <2>1. conn' \in [Conn -> Connection]
      BY <1>4, <1>b, SetBye DEF Unregister
    <2> QED
      BY <1>4, <2>1 DEF Unregister, Typed, rows
  <1>5. CASE Close(c)
    <2>1. conn' \in [Conn -> Connection]
      BY <1>5, <1>b, SetClosed DEF Close
    <2> QED
      BY <1>5, <1>a, <2>1 DEF Close, Typed, rows
  <1>6. CASE \E k \in Rooms, code \in BOOLEAN : AskRoom(c, k, code)
    <2>1. PICK k \in Rooms, code \in BOOLEAN : AskRoom(c, k, code)
      BY <1>6
    <2>2. conn' \in [Conn -> Connection]
      BY <1>b, <2>1, SetTarget DEF AskRoom
    <2>3. crossed' \subseteq Person
      BY <1>a, <2>1 DEF AskRoom, Overlaps, Typed
    <2> QED
      BY <2>1, <2>2, <2>3 DEF AskRoom, Typed, rows
  <1>7. CASE \E s \in Scopes : Expire(c, s)
    BY <1>7 DEF Expire, Typed, rows
  <1>8. CASE \E e \in exits : Gone(e) \/ SayLeft(e)
    <2>1. PICK e \in exits : Gone(e) \/ SayLeft(e)
      BY <1>8
    <2>2. /\ e \in [conn : Conn, room : Rooms, st : {"gone", "say"},
                    how : {"switch", "close", "removal"}]
          /\ conn[e.conn].pid \in IdOrNone
      BY <2>1 DEF Typed, Connection
    <2>3. CASE Gone(e)
      BY <2>2, <2>3 DEF Gone, Typed, rows
    <2>4. CASE SayLeft(e)
      <3>1. said' \in [Rooms -> [Pid -> {"nothing", "joined", "left"}]]
        BY <2>2, <2>4 DEF SayLeft, Typed
      <3> QED
        BY <2>4, <3>1 DEF SayLeft, Typed, rows
    <2> QED
      BY <2>1, <2>3, <2>4
  <1>9. CASE \E m \in mail : Deliver(m)
    <2>1. PICK m \in mail : Deliver(m)
      BY <1>9
    <2> DEFINE d == m.to
    <2>2. d \in Conn /\ conn[d] \in Connection /\ Whose[d] \in Person
      BY <2>1, SocketsAssumption DEF Typed
    <2>4. conn' \in [Conn -> Connection]
      <3> DEFINE closing == conn[d].closing \/ Removes(d, m) \/ Ends(d, m)
                                            \/ (Decides(d, m) /\ m.what = "turned away")
                 room == IF Bans(d, m) THEN None ELSE conn[d].room
                 pending == StillPending(d, m)
                 at == IF Decides(d, m) /\ m.what = "let in" THEN "complete" ELSE conn[d].at
      <3>1. /\ closing \in BOOLEAN /\ room \in Rooms \cup {None}
            /\ pending \in BOOLEAN /\ at \in AtStates
        BY <2>2 DEF Connection, StillPending
      <3>2. conn' = [conn EXCEPT ![d].closing = closing, ![d].room = room, ![d].pending = pending,
                                 ![d].at = at]
        BY <2>1 DEF Deliver
      <3> HIDE DEF closing, room, pending, at
      <3> QED
        BY ZenonT(60), <1>b, <2>2, <3>1, <3>2, SetEvent
    <2>5. /\ registry' \in [Scopes -> SUBSET Conn]
          /\ exits' \subseteq [conn : Conn, room : Rooms, st : {"gone", "say"},
                               how : {"switch", "close", "removal"}]
      <3>1. CASE Out(d, "removal")
        BY <2>2, <3>1, OutTyped
      <3>2. CASE UNCHANGED <<registry, exits>>
        <4>1. registry' = registry /\ exits' = exits
          BY <3>2
        <4>2. /\ registry \in [Scopes -> SUBSET Conn]
              /\ exits \subseteq [conn : Conn, room : Rooms, st : {"gone", "say"},
                                  how : {"switch", "close", "removal"}]
          BY ZenonT(60) DEF Typed
        <4> QED
          BY ZenonT(60), <4>1, <4>2
      <3> QED
        BY <2>1, <3>1, <3>2 DEF Deliver
    <2>6. crossed' \subseteq Person
      <3>1. CASE Overlaps(Whose[d])
        BY <2>2, <3>1, OverlapsTyped
      <3> QED
        BY <2>1, <3>1 DEF Deliver, Typed
    <2> QED
      BY <2>1, <2>4, <2>5, <2>6 DEF Deliver, Typed, rows
  <1> QED
    BY <1>1, <1>2, <1>3, <1>4, <1>5, <1>6, <1>7, <1>8, <1>9 DEF CloseStep

\* An event is sent to connections.
LEMMA PublishTyped ==
  ASSUME Typed, NEW s \in Scopes, NEW what \in Events, NEW i \in IdOrNone, Publish(s, what, i)
  PROVE  mail' \subseteq [to : Conn, what : Events, pid : IdOrNone]
  BY DEF Publish, Typed

\* The owner's requests keep the types.
LEMMA OwnerTyped ==
  ASSUME Typed, OwnerStep
  PROVE  Typed'
  <1> USE DEF Does, Says
  <1>b. row \in [Pid -> Row]
    BY DEF Typed
  <1>c. \A i \in Pid : i[1] \in Person /\ i \in IdOrNone
    BY DEF Pid, IdOrNone
  <1>d. \A i \in Pid, st \in OpStates : [st |-> st, pid |-> i] \in [st : OpStates, pid : IdOrNone]
    BY <1>c
  <1>e. \A st \in OpStates : [st |-> st, pid |-> None] \in [st : OpStates, pid : IdOrNone]
    BY DEF IdOrNone
  <1>1. ASSUME NEW i \in Pid, RemovePerson(i) PROVE Typed'
    <2>1. row' \in [Pid -> Row]
      BY <1>1, <1>b, RowOut DEF RemovePerson, TakeOut
    <2>2. op' \in [st : OpStates, pid : IdOrNone] /\ crossed' \subseteq Person
      BY <1>1, <1>c, <1>d, OverlapsTyped DEF RemovePerson, OpStates
    <2> QED
      BY <1>1, <2>1, <2>2 DEF RemovePerson, Typed
  <1>2. ASSUME NEW i \in Pid, Ban(i) PROVE Typed'
    <2>1. op' \in [st : OpStates, pid : IdOrNone] /\ crossed' \subseteq Person
      BY <1>2, <1>c, <1>d, OverlapsTyped DEF Ban, OpStates
    <2> QED
      BY <1>2, <2>1 DEF Ban, Typed
  <1>3. ASSUME NEW i \in Pid, HandOver(i) PROVE Typed'
    BY <1>3, <1>c DEF HandOver, Typed
  <1>4. ASSUME NEW i \in Pid, NEW a \in BOOLEAN, Decide(i, a) PROVE Typed'
    <2>1. row' \in [Pid -> Row]
      BY <1>4, <1>b, RowOut, RowWaits DEF Decide, TakeOut
    <2>2. op' \in [st : OpStates, pid : IdOrNone]
      BY <1>4, <1>d DEF Decide, OpStates
    <2> QED
      BY <1>4, <2>1, <2>2 DEF Decide, Typed
  <1>5. CASE SetWaitingRoom
    <2>1. session' \in [alive : BOOLEAN, changed : BOOLEAN, waits : BOOLEAN]
      BY <1>5 DEF SetWaitingRoom, Typed
    <2> QED
      BY <1>5, <2>1 DEF SetWaitingRoom, Typed
  <1>6. CASE DeleteRoom
    <2>1. row' \in [Pid -> Row]
      <3>1. \A i \in Pid : [row[i] EXCEPT !.room = None] \in Row
        BY <1>b DEF Row
      <3> QED
        BY <1>6, <1>b, <3>1 DEF DeleteRoom
    <2> QED
      BY <1>6, <2>1 DEF DeleteRoom, Typed
  <1>7. CASE EndSession
    <2>1. Publish("session", "ended", None)
      BY <1>7 DEF EndSession
    <2>2. mail' \subseteq [to : Conn, what : Events, pid : IdOrNone]
      BY <2>1, PublishTyped DEF Scopes, Events, IdOrNone
    <2>3. op' \in [st : OpStates, pid : IdOrNone]
      BY <1>7, <1>e DEF EndSession, OpStates
    <2> QED
      BY <1>7, <2>2, <2>3 DEF EndSession, Typed, rows
  <1>8. CASE DeleteSession
    <2>1. session' \in [alive : BOOLEAN, changed : BOOLEAN, waits : BOOLEAN]
      BY <1>8 DEF DeleteSession, Typed
    <2>2. NoRow \in Row
      BY DEF NoRow, Row
    <2>3. op' \in [st : OpStates, pid : IdOrNone]
      BY <1>8, <1>e DEF DeleteSession, OpStates
    <2> QED
      BY <1>8, <2>1, <2>2, <2>3 DEF DeleteSession, Typed, IdOrNone
  <1>9. CASE Announce
    <2>1. PICK s \in Scopes : Publish(s, op.st, op.pid)
      BY <1>9 DEF Announce, Scopes, Rooms
    <2>2. op.st \in Events /\ op.pid \in IdOrNone
      BY <1>9 DEF Announce, Events, Typed
    <2>3. mail' \subseteq [to : Conn, what : Events, pid : IdOrNone]
      BY <2>1, <2>2, PublishTyped
    <2>4. op' \in [st : OpStates, pid : IdOrNone]
      BY <1>9, <1>e DEF Announce, OpStates
    <2> QED
      BY <1>9, <2>3, <2>4 DEF Announce, Typed, rows
  <1>10. CASE RotateCode
    <2>1. session' \in [alive : BOOLEAN, changed : BOOLEAN, waits : BOOLEAN]
      BY <1>10 DEF RotateCode, Typed
    <2>2. op' \in [st : OpStates, pid : IdOrNone]
      BY <1>10, <1>e DEF RotateCode, OpStates
    <2>3. crossed' \subseteq Person
      BY <1>10, SocketsAssumption DEF RotateCode, Typed
    <2> QED
      BY <1>10, <2>1, <2>2, <2>3 DEF RotateCode, Typed
  <1> QED
    BY <1>1, <1>2, <1>3, <1>4, <1>5, <1>6, <1>7, <1>8, <1>9, <1>10 DEF OwnerStep

\* Every step keeps the types.
LEMMA TypedStep == Typed /\ ShapedAll /\ [Next]_vars => Typed'
  <1> SUFFICES ASSUME Typed, ShapedAll, [Next]_vars PROVE Typed'
    OBVIOUS
  <1>1. CASE OwnerStep
    BY <1>1, OwnerTyped
  <1>2. CASE \E e \in exits : Gone(e) \/ SayLeft(e)
    <2>1. \E c \in Conn : TRUE
      BY <1>2 DEF Typed
    <2> QED
      BY <1>2, <2>1, LeaveTyped
  <1>3. CASE \E m \in mail : Deliver(m)
    <2>1. \E c \in Conn : TRUE
      BY <1>3 DEF Typed
    <2> QED
      BY <1>3, <2>1, LeaveTyped
  <1>4. CASE UNCHANGED vars
    BY <1>4 DEF Typed, vars, rows
  <1> QED
    BY <1>1, <1>2, <1>3, <1>4, FrameTyped, LeaveTyped DEF Next


\* What a step does to the connections: to one of them, and which fields.
OnlyTo(c) == \A d \in Conn \ {c} : conn'[d] = conn[d]
KeepsWho(c) == conn'[c].pid = conn[c].pid /\ conn'[c].asked = conn[c].asked /\ conn'[c].member = conn[c].member
KeepsLife(c) == conn'[c].st = conn[c].st /\ conn'[c].bye = conn[c].bye /\ conn'[c].closing = conn[c].closing
KeepsPlace(c) == conn'[c].room = conn[c].room /\ conn'[c].pending = conn[c].pending
KeepsRow(x) == row'[x].st = row[x].st /\ row'[x].waiting = row[x].waiting

\* Connect opens one connection.
LEMMA ConnectMeans ==
  ASSUME Typed, NEW c \in Conn, Connect(c)
  PROVE  /\ OnlyTo(c)
         /\ conn'[c].st = "open" /\ conn'[c].at = "upsert"
         /\ conn'[c].want = knows[Whose[c]] /\ conn'[c].asked = session.waits
         /\ conn'[c].member = (knows[Whose[c]] # None /\ Current(knows[Whose[c]]))
         /\ KeepsPlace(c) /\ conn'[c].pid = conn[c].pid
         /\ conn'[c].closing = conn[c].closing /\ conn'[c].bye = conn[c].bye
         /\ conn[c].st = "new" /\ UNCHANGED <<registry, present, row, knows, session, op,
            mail, admitted>>
  BY DEF Typed, Connection, OnlyTo, KeepsPlace, Connect, rows

\* Register gives the connection the id it brings.
LEMMA RegisterMeans ==
  ASSUME Typed, NEW c \in Conn, Register(c)
  PROVE  /\ OnlyTo(c)
         /\ conn'[c].pid = conn[c].want /\ conn'[c].want = None /\ conn'[c].at = "admission"
         /\ KeepsLife(c) /\ KeepsPlace(c) /\ conn'[c].asked = conn[c].asked
         /\ conn'[c].member = conn[c].member
         /\ conn[c].at = "connected" /\ UNCHANGED <<knows, session, op, mail, admitted,
            crossed>>
  BY DEF Typed, Connection, OnlyTo, KeepsLife, KeepsPlace, Register

\* Admission decides whether the connection waits.
LEMMA AdmissionMeans ==
  ASSUME Typed, NEW c \in Conn, Admission(c)
  PROVE  /\ OnlyTo(c)
         /\ KeepsWho(c) /\ KeepsLife(c) /\ conn'[c].room = conn[c].room
         /\ conn'[c].want = conn[c].want
         /\ \/ /\ MustWait(c) /\ conn'[c].pending = TRUE /\ conn'[c].at = "idle"
            \/ /\ ~MustWait(c) /\ conn'[c].pending = conn[c].pending
               /\ conn'[c].at = "complete"
         /\ conn[c].at = "admission" /\ UNCHANGED <<registry, present, knows, session, op,
            mail, crossed, owner>>
  BY DEF Typed, Connection, OnlyTo, KeepsWho, KeepsLife, Admission, Goto

\* Enter puts it in a room.
LEMMA EnterMeans ==
  ASSUME Typed, NEW c \in Conn, Enter(c)
  PROVE  /\ OnlyTo(c)
         /\ conn'[c].at = "joined"
         /\ KeepsWho(c) /\ KeepsLife(c) /\ KeepsPlace(c) /\ conn'[c].want = conn[c].want
         /\ conn[c].at = "enter" /\ UNCHANGED <<rows, knows, op, mail, admitted, crossed>>
  BY DEF Typed, Connection, OnlyTo, KeepsWho, KeepsLife, KeepsPlace, Enter, Goto

\* SayJoined ends the move.
LEMMA SayJoinedMeans ==
  ASSUME Typed, NEW c \in Conn, SayJoined(c)
  PROVE  /\ OnlyTo(c)
         /\ conn'[c].want = None /\ conn'[c].at = "idle"
         /\ KeepsWho(c) /\ KeepsLife(c) /\ KeepsPlace(c)
         /\ conn[c].at = "joined" /\ UNCHANGED <<rows, registry, present, knows, op, mail,
            admitted, crossed>>
  BY DEF Typed, Connection, OnlyTo, KeepsWho, KeepsLife, KeepsPlace, SayJoined

\* A close first sees who else has the id.
LEMMA CloseGoneMeans ==
  ASSUME Typed, NEW c \in Conn, CloseGone(c)
  PROVE  /\ OnlyTo(c)
         /\ conn'[c].bye = IF Connections("session", conn[c].pid) \ {c} = {} THEN "disconnect" ELSE "leave"
         /\ KeepsWho(c) /\ KeepsPlace(c) /\ conn'[c].st = conn[c].st
         /\ conn'[c].closing = conn[c].closing /\ conn'[c].at = conn[c].at
         /\ conn'[c].want = conn[c].want
         /\ conn[c].bye = "gone" /\ UNCHANGED <<rows, registry, knows, op, mail, admitted,
            crossed>>
  BY DEF Typed, Connection, OnlyTo, KeepsWho, KeepsPlace, CloseGone

\* ...marks the row,
LEMMA DisconnectMeans ==
  ASSUME Typed, NEW c \in Conn, Disconnect(c)
  PROVE  /\ OnlyTo(c)
         /\ conn'[c].bye = "leave"
         /\ KeepsWho(c) /\ KeepsPlace(c) /\ conn'[c].st = conn[c].st
         /\ conn'[c].closing = conn[c].closing /\ conn'[c].at = conn[c].at
         /\ conn'[c].want = conn[c].want
         /\ conn[c].bye = "disconnect" /\ UNCHANGED <<registry, present, knows, session, op,
            mail, admitted, crossed>>
  BY DEF Typed, Connection, OnlyTo, KeepsWho, KeepsPlace, Disconnect

\* ...leaves the room,
LEMMA CloseLeaveMeans ==
  ASSUME Typed, NEW c \in Conn, CloseLeave(c)
  PROVE  /\ OnlyTo(c)
         /\ conn'[c].room = None /\ conn'[c].bye = "unregister"
         /\ KeepsWho(c) /\ conn'[c].st = conn[c].st /\ conn'[c].pending = conn[c].pending
         /\ conn'[c].closing = conn[c].closing /\ conn'[c].at = conn[c].at
         /\ conn'[c].want = conn[c].want
         /\ conn[c].bye = "leave" /\ UNCHANGED <<rows, present, knows, op, mail, admitted,
            crossed>>
  BY DEF Typed, Connection, OnlyTo, KeepsWho, CloseLeave

\* ...and leaves the session.
LEMMA UnregisterMeans ==
  ASSUME Typed, NEW c \in Conn, Unregister(c)
  PROVE  /\ OnlyTo(c)
         /\ conn'[c].bye = "done"
         /\ KeepsWho(c) /\ KeepsPlace(c) /\ conn'[c].st = conn[c].st
         /\ conn'[c].closing = conn[c].closing /\ conn'[c].at = conn[c].at
         /\ conn'[c].want = conn[c].want
         /\ conn[c].bye = "unregister" /\ UNCHANGED <<rows, present, knows, op, mail,
            admitted, crossed>>
  BY DEF Typed, Connection, OnlyTo, KeepsWho, KeepsPlace, Unregister

\* Close ends the connection.
LEMMA CloseMeans ==
  ASSUME Typed, NEW c \in Conn, Close(c)
  PROVE  /\ OnlyTo(c)
         /\ conn'[c].st = "closed" /\ conn'[c].closing = FALSE
         /\ conn'[c].bye = IF conn[c].pid = None THEN "leave" ELSE "gone"
         /\ KeepsWho(c) /\ KeepsPlace(c) /\ conn'[c].at = conn[c].at
         /\ conn'[c].want = conn[c].want
         /\ conn[c].st = "open" /\ UNCHANGED <<rows, registry, present, knows, op, mail,
            admitted>>
  BY DEF Typed, Connection, OnlyTo, KeepsWho, KeepsPlace, Close

\* Upsert makes or finds a participant's row.
LEMMA UpsertMeans ==
  ASSUME Typed, ShapedAll, NEW c \in Conn, Upsert(c)
  PROVE  /\ conn[c].at = "upsert"
         /\ UNCHANGED <<registry, present, knows, session, owner, op, mail, admitted, crossed>>
         /\ OnlyTo(c) /\ KeepsWho(c) /\ KeepsLife(c) /\ KeepsPlace(c)
         /\ \/ /\ conn'[c].at = "idle" /\ conn'[c].want = conn[c].want
               /\ row' = row
            \/ /\ session.alive /\ conn'[c].at = "connected" /\ conn'[c].want \in Pid
               /\ \A x \in Pid \ {conn'[c].want} : KeepsRow(x)
               /\ row'[conn'[c].want].st = "member"
               /\ row'[conn'[c].want].waiting = row[conn'[c].want].waiting
               /\ \/ conn'[c].want = conn[c].want /\ row[conn[c].want].st = "member"
                  \/ /\ row[conn'[c].want].st = "none" /\ conn'[c].want[1] = Whose[c]
                     /\ ~(conn[c].want # None /\ row[conn[c].want].st = "member")
  <1> DEFINE old == conn[c].want
             current == old # None /\ row[old].st = "member"
             i == IF current THEN old
                  ELSE IF row[<<Whose[c], 1>>].st = "none" THEN <<Whose[c], 1>> ELSE <<Whose[c], 2>>
  <1>1. old \in IdOrNone /\ <<Whose[c], 1>> \in Pid /\ <<Whose[c], 2>> \in Pid
    BY SocketsAssumption DEF Upsert, ShapedAll, Shaped, Pid
  <1>2. i \in Pid
    <2>1. CASE current
      <3>1. old # None /\ i = old
        BY ZenonT(60), <2>1
      <3> QED
        BY <1>1, <3>1 DEF IdOrNone
    <2>2. CASE ~current
      BY ZenonT(60), <1>1, <2>2
    <2> QED
      BY <2>1, <2>2
  <1>5. /\ conn[c].at = "upsert"
        /\ UNCHANGED <<registry, present, knows, session, owner, op, mail, admitted, crossed>>
    BY DEF Upsert
  <1>3. CASE session.alive /\ (current \/ row[i].st = "none")
    <2>1. /\ row' = [row EXCEPT ![i].st = "member", ![i].connected = TRUE]
          /\ conn' = [conn EXCEPT ![c].want = i, ![c].at = "connected"]
      BY <1>3 DEF Upsert
    <2>2. \/ i = old /\ row[old].st = "member"
          \/ row[i].st = "none" /\ i[1] = Whose[c] /\ ~current
      BY <1>3
    <2> HIDE DEF i
    <2>3. /\ \A x \in Pid \ {i} : KeepsRow(x)
          /\ row'[i].st = "member" /\ row'[i].waiting = row[i].waiting
      BY <1>2, <2>1 DEF Typed, Row, KeepsRow
    <2>4. /\ OnlyTo(c) /\ KeepsWho(c) /\ KeepsLife(c) /\ KeepsPlace(c)
          /\ conn'[c].at = "connected" /\ conn'[c].want = i
      BY <2>1 DEF Typed, Connection, OnlyTo, KeepsWho, KeepsLife, KeepsPlace
    <2> QED
      BY ZenonT(60), <1>2, <1>3, <1>5, <2>2, <2>3, <2>4
  <1>4. CASE ~(session.alive /\ (current \/ row[i].st = "none"))
    <2>1. Goto(c, "idle") /\ row' = row
      BY <1>4 DEF Upsert
    <2> QED
      BY ZenonT(60), <1>5, <2>1 DEF Goto, Typed, Connection, OnlyTo, KeepsWho, KeepsLife, KeepsPlace
  <1> QED
    BY ZenonT(60), <1>3, <1>4

\* Access decides whether the room may be entered.
LEMMA AccessMeans ==
  ASSUME Typed, NEW c \in Conn, Access(c)
  PROVE  /\ conn[c].at = "access"
         /\ UNCHANGED <<present, knows, session, row, bans, owner, op, mail, admitted, crossed>>
         /\ OnlyTo(c) /\ KeepsWho(c) /\ KeepsLife(c)
         /\ conn'[c].want = conn[c].want /\ conn'[c].pending = conn[c].pending
         /\ \/ /\ conn'[c].at = "idle" /\ conn'[c].room = conn[c].room
               /\ UNCHANGED <<registry, exits, grants>>
            \/ /\ conn'[c].at = "move" /\ conn[c].want \in rooms
               /\ MayEnter(conn[c].pid, conn[c].want, conn[c].code)
               /\ \/ /\ conn[c].room = conn[c].want /\ conn'[c].room = conn[c].want
                     /\ UNCHANGED <<registry, exits>>
                  \/ conn[c].room # conn[c].want /\ conn'[c].room = None /\ Out(c, "switch")
  BY DEF Typed, Connection, OnlyTo, KeepsWho, KeepsLife, Access, Goto

\* Move writes the room into the row.
LEMMA MoveMeans ==
  ASSUME Typed, ShapedAll, NEW c \in Conn, Move(c)
  PROVE  /\ conn[c].at = "move"
         /\ UNCHANGED <<registry, present, knows, session, bans, owner, op, mail, admitted, crossed>>
         /\ OnlyTo(c) /\ KeepsWho(c) /\ KeepsLife(c)
         /\ conn'[c].want = conn[c].want /\ conn'[c].pending = conn[c].pending
         /\ \A x \in Pid : KeepsRow(x)
         /\ \/ conn'[c].at = "idle" /\ conn'[c].room = conn[c].room
            \/ conn'[c].at = "enter" /\ conn'[c].room = conn[c].want
  BY DEF Typed, Connection, Row, OnlyTo, KeepsWho, KeepsLife, KeepsRow, Move, Goto

\* A request to change rooms changes only its connection.
LEMMA AskRoomMeans ==
  ASSUME Typed, NEW c \in Conn, NEW k \in Rooms, NEW code \in BOOLEAN, AskRoom(c, k, code)
  PROVE  /\ MayAsk(c) /\ UNCHANGED <<rows, registry, present, knows, op, mail, admitted>>
         /\ OnlyTo(c) /\ KeepsWho(c) /\ KeepsLife(c) /\ KeepsPlace(c)
         /\ conn'[c].want = k /\ conn'[c].at = "access"
  BY DEF Typed, Connection, OnlyTo, KeepsWho, KeepsLife, KeepsPlace, AskRoom

\* An event reaches the one connection it is for.
LEMMA DeliverMeans ==
  ASSUME Typed, NEW m \in mail, Deliver(m)
  PROVE  LET c == m.to
         IN  /\ UNCHANGED <<rows, knows, present, op, admitted>> /\ mail' = mail \ {m}
             /\ c \in Conn /\ OnlyTo(c) /\ KeepsWho(c)
             /\ conn'[c].st = conn[c].st /\ conn'[c].bye = conn[c].bye /\ conn'[c].want = conn[c].want
             /\ conn'[c].closing = (conn[c].closing \/ Removes(c, m) \/ Ends(c, m)
                                       \/ (Decides(c, m) /\ m.what = "turned away"))
             /\ conn'[c].room = (IF Bans(c, m) THEN None ELSE conn[c].room)
             /\ conn'[c].pending = StillPending(c, m)
             /\ conn'[c].at = (IF Decides(c, m) /\ m.what = "let in" THEN "complete" ELSE conn[c].at)
  <1> DEFINE c == m.to
             closing == conn[c].closing \/ Removes(c, m) \/ Ends(c, m)
                                        \/ (Decides(c, m) /\ m.what = "turned away")
             room == IF Bans(c, m) THEN None ELSE conn[c].room
             pending == StillPending(c, m)
             at == IF Decides(c, m) /\ m.what = "let in" THEN "complete" ELSE conn[c].at
  <1>1. c \in Conn
    BY DEF Typed
  <1>2. conn' = [conn EXCEPT ![c].closing = closing, ![c].room = room, ![c].pending = pending,
                             ![c].at = at]
    BY DEF Deliver
  <1> HIDE DEF closing, room, pending, at
  <1>3. /\ OnlyTo(c) /\ KeepsWho(c)
        /\ conn'[c].st = conn[c].st /\ conn'[c].bye = conn[c].bye /\ conn'[c].want = conn[c].want
        /\ conn'[c].closing = closing /\ conn'[c].room = room
        /\ conn'[c].pending = pending /\ conn'[c].at = at
    BY <1>1, <1>2 DEF Typed, Connection, OnlyTo, KeepsWho
  <1>4. UNCHANGED <<rows, knows, present, op, admitted>> /\ mail' = mail \ {m}
    BY DEF Deliver
  <1> QED
    BY <1>1, <1>3, <1>4 DEF closing, room, pending, at

\* Complete ends the welcome.
LEMMA CompleteMeans ==
  ASSUME Typed, NEW c \in Conn, Complete(c)
  PROVE  /\ conn[c].at = "complete"
         /\ UNCHANGED <<rows, registry, present, op, mail, admitted, crossed>>
         /\ OnlyTo(c) /\ KeepsWho(c) /\ KeepsLife(c) /\ KeepsPlace(c)
         /\ \/ conn'[c].at = "idle" /\ conn'[c].want = conn[c].want /\ UNCHANGED knows
            \/ /\ conn'[c].at = "access" /\ conn'[c].want \in Rooms
               /\ knows' = [knows EXCEPT ![Whose[c]] = conn[c].pid]
  <1>0. conn[c].at = "complete" /\ UNCHANGED <<rows, registry, present, op, mail, admitted, crossed>>
    BY DEF Complete
  <1>1. CASE Goto(c, "idle") /\ UNCHANGED knows
    BY <1>0, <1>1 DEF Typed, Connection, OnlyTo, KeepsWho, KeepsLife, KeepsPlace, Goto
  <1>2. CASE session.alive
    <2>1. PICK k \in Rooms :
            conn' = [conn EXCEPT ![c].want = k, ![c].code = FALSE, ![c].at = "access"]
      BY <1>2 DEF Complete, Typed, Rooms
    <2>2. knows' = [knows EXCEPT ![Whose[c]] = conn[c].pid]
      BY <1>2 DEF Complete
    <2> QED
      BY <1>0, <2>1, <2>2 DEF Typed, Connection, OnlyTo, KeepsWho, KeepsLife, KeepsPlace
  <1> QED
    BY <1>1, <1>2 DEF Complete

\* connected says nothing of who a row lets in.
LEMMA ConnectedKeepsRows ==
  ASSUME Typed, NEW i, NEW v, row' = [row EXCEPT ![i].connected = v]
  PROVE  \A x \in Pid : KeepsRow(x)
  BY DEF Typed, Row, KeepsRow

\* Register and Disconnect write only whether a row is connected.
LEMMA RowsMeans ==
  ASSUME Typed, NEW c \in Conn, Register(c) \/ Disconnect(c)
  PROVE  \A x \in Pid : KeepsRow(x)
  <1>1. PICK i, v : row' = [row EXCEPT ![i].connected = v]
    BY DEF Register, Disconnect
  <1> QED
    BY <1>1, ConnectedKeepsRows


\* A step that changes one connection and leaves the rest in the registry.
LEMMA ShapedRest ==
  ASSUME ShapedAll, NEW c \in Conn, OnlyTo(c), Shaped(c)',
         registry["session"] \ {c} \subseteq registry'["session"],
         \A p \in Person : knows'[p] = knows[p] \/ knows'[p][1] = p
  PROVE  ShapedAll'
  <1>1. ASSUME NEW d \in Conn \ {c} PROVE Shaped(d)'
    <2>1. conn'[d] = conn[d] /\ Shaped(d)
      BY DEF OnlyTo, ShapedAll
    <2> QED
      BY <2>1 DEF Shaped
  <1>2. \A p \in Person : knows'[p] \in Pid => knows'[p][1] = p
    BY DEF ShapedAll
  <1> QED
    BY <1>1, <1>2 DEF ShapedAll

\* Steps that change no connection keep the shapes.
LEMMA SameShaped ==
  ASSUME ShapedAll, UNCHANGED <<conn, knows>>, registry["session"] \subseteq registry'["session"]
  PROVE  ShapedAll'
  BY DEF ShapedAll, Shaped

\* What the handlers leave of the session's registry.
LEMMA OutRegistry ==
  ASSUME Typed, NEW c \in Conn, NEW how, Out(c, how)
  PROVE  /\ registry'["session"] = registry["session"]
         /\ \A k \in Rooms : registry'[k] = IF conn[c].room = k THEN registry[k] \ {c} ELSE registry[k]
  <1>1. conn[c].room # "session" /\ registry \in [Scopes -> SUBSET Conn]
    BY NoneApart, SocketsAssumption DEF Typed, Connection, Rooms, Scopes
  <1> QED
    BY <1>1, NoneApart DEF Out, Scopes, Rooms

\* Every step keeps the shapes.
LEMMA ShapedStep == Typed /\ ShapedAll /\ [Next]_vars => ShapedAll'
  <1> SUFFICES ASSUME Typed, ShapedAll, [Next]_vars PROVE ShapedAll'
    OBVIOUS
  <1> USE NoneApart DEF KeepsWho, KeepsLife, KeepsPlace
  <1>0. ASSUME NEW c \in Conn
        PROVE  /\ Shaped(c) /\ conn[c] \in Connection /\ Whose[c] \in Person
               /\ registry \in [Scopes -> SUBSET Conn] /\ "session" \in Scopes
    BY SocketsAssumption DEF ShapedAll, Typed, Scopes
  <1>1. ASSUME NEW c \in Conn, Connect(c) PROVE ShapedAll'
    <2>1. Shaped(c)'
      <3>1. /\ conn'[c].st = "open" /\ conn'[c].at = "upsert" /\ conn[c].st = "new"
            /\ conn'[c].want = knows[Whose[c]] /\ conn'[c].pid = conn[c].pid
            /\ conn'[c].closing = conn[c].closing /\ conn'[c].bye = conn[c].bye
            /\ KeepsPlace(c)
        BY <1>1, ConnectMeans
      <3>2. /\ conn[c].pid = None /\ conn[c].bye = "no" /\ ~conn[c].closing /\ ~conn[c].pending
        BY <1>0, <3>1 DEF Shaped, Connection
      <3>3. /\ knows[Whose[c]] \in IdOrNone
            /\ knows[Whose[c]] \in Pid => knows[Whose[c]][1] = Whose[c]
        BY <1>0 DEF ShapedAll, Typed
      <3> QED
        BY <3>1, <3>2, <3>3 DEF Shaped
    <2> QED
      BY <1>1, <2>1, ConnectMeans, ShapedRest DEF Connect
  <1>2. ASSUME NEW c \in Conn, Upsert(c) PROVE ShapedAll'
    <2>1. Shaped(c)'
      BY <1>2, <1>0, UpsertMeans DEF Shaped, IdOrNone
    <2> QED
      BY <1>2, <2>1, UpsertMeans, ShapedRest DEF Upsert
  <1>3. ASSUME NEW c \in Conn, Register(c) PROVE ShapedAll'
    <2>1. registry'["session"] = registry["session"] \cup {c}
      BY <1>3, <1>0 DEF Register
    <2>2. Shaped(c)'
      BY <1>3, <1>0, <2>1, RegisterMeans DEF Shaped
    <2> QED
      BY <1>3, <2>1, <2>2, RegisterMeans, ShapedRest DEF Register
  <1>4. ASSUME NEW c \in Conn, Admission(c) PROVE ShapedAll'
    <2>3. /\ Shaped(c) /\ UNCHANGED registry /\ conn[c].at = "admission"
          /\ KeepsWho(c) /\ KeepsLife(c) /\ conn'[c].want = conn[c].want
          /\ \/ conn'[c].at = "idle"
             \/ conn'[c].at = "complete" /\ conn'[c].pending = conn[c].pending
      BY <1>4, <1>0, AdmissionMeans
    <2>1. Shaped(c)'
      BY SMTT(60), <2>3 DEF Shaped
    <2> QED
      BY <1>4, <2>1, AdmissionMeans, ShapedRest DEF Admission
  <1>5. ASSUME NEW c \in Conn, Complete(c) PROVE ShapedAll'
    <2>1. Shaped(c)' /\ conn[c].pid \in Pid
      BY <1>5, <1>0, CompleteMeans DEF Shaped, Connection, IdOrNone
    <2>2. \A p \in Person : knows'[p] = knows[p] \/ knows'[p][1] = p
      BY <1>5, <1>0, <2>1, CompleteMeans DEF Typed, Shaped
    <2> QED
      BY <1>5, <2>1, <2>2, CompleteMeans, ShapedRest DEF Complete
  <1>6. ASSUME NEW c \in Conn, Access(c) PROVE ShapedAll'
    <2>1. registry'["session"] = registry["session"]
      BY <1>6, AccessMeans, OutRegistry
    <2>2. Shaped(c)'
      BY <1>6, <1>0, <2>1, AccessMeans DEF Shaped
    <2> QED
      BY <1>6, <2>1, <2>2, AccessMeans, ShapedRest DEF Access
  <1>7. ASSUME NEW c \in Conn, Move(c) PROVE ShapedAll'
    <2>1. Shaped(c)'
      BY <1>7, <1>0, MoveMeans DEF Shaped
    <2> QED
      BY <1>7, <2>1, MoveMeans, ShapedRest DEF Move
  <1>8. ASSUME NEW c \in Conn, Enter(c) PROVE ShapedAll'
    <2>1. registry["session"] \subseteq registry'["session"]
      BY <1>8, <1>0 DEF Enter
    <2>2. Shaped(c)'
      BY <1>8, <1>0, <2>1, EnterMeans DEF Shaped
    <2> QED
      BY <1>8, <2>1, <2>2, EnterMeans, ShapedRest DEF Enter
  <1>9. ASSUME NEW c \in Conn, SayJoined(c) PROVE ShapedAll'
    <2>1. Shaped(c)'
      BY <1>9, <1>0, SayJoinedMeans DEF Shaped
    <2> QED
      BY <1>9, <2>1, SayJoinedMeans, ShapedRest DEF SayJoined
  <1>10. ASSUME NEW c \in Conn, CloseGone(c) PROVE ShapedAll'
    <2>1. Shaped(c)'
      BY <1>10, <1>0, CloseGoneMeans DEF Shaped
    <2> QED
      BY <1>10, <2>1, CloseGoneMeans, ShapedRest DEF CloseGone
  <1>11. ASSUME NEW c \in Conn, Disconnect(c) PROVE ShapedAll'
    <2>1. Shaped(c)'
      BY <1>11, <1>0, DisconnectMeans DEF Shaped
    <2> QED
      BY <1>11, <2>1, DisconnectMeans, ShapedRest DEF Disconnect
  <1>12. ASSUME NEW c \in Conn, CloseLeave(c) PROVE ShapedAll'
    <2>1. registry'["session"] = registry["session"]
      BY <1>12, OutRegistry DEF CloseLeave
    <2>2. Shaped(c)'
      BY <1>12, <1>0, <2>1, CloseLeaveMeans DEF Shaped
    <2> QED
      BY <1>12, <2>1, <2>2, CloseLeaveMeans, ShapedRest DEF CloseLeave
  <1>13. ASSUME NEW c \in Conn, Unregister(c) PROVE ShapedAll'
    <2>1. registry'["session"] = registry["session"] \ {c}
      BY <1>13, <1>0 DEF Unregister
    <2>2. Shaped(c)'
      BY <1>13, <1>0, UnregisterMeans DEF Shaped
    <2> QED
      BY <1>13, <2>1, <2>2, UnregisterMeans, ShapedRest DEF Unregister
  <1>14. ASSUME NEW c \in Conn, Close(c) PROVE ShapedAll'
    <2>1. /\ Shaped(c) /\ UNCHANGED registry
          /\ conn'[c].st = "closed" /\ ~conn'[c].closing /\ conn'[c].bye \in {"leave", "gone"}
          /\ KeepsWho(c) /\ KeepsPlace(c) /\ conn'[c].at = conn[c].at /\ conn'[c].want = conn[c].want
          /\ conn[c].st = "open"
      BY <1>14, <1>0, CloseMeans
    <2>3. Shaped(c)'
      BY <2>1 DEF Shaped
    <2> QED
      BY <1>14, <2>3, CloseMeans, ShapedRest DEF Close
  <1>15. ASSUME NEW c \in Conn, NEW k \in Rooms, NEW code \in BOOLEAN, AskRoom(c, k, code)
         PROVE  ShapedAll'
    <2>1. Shaped(c)'
      BY <1>15, <1>0, AskRoomMeans DEF MayAsk, Shaped
    <2> QED
      BY <1>15, <2>1, AskRoomMeans, ShapedRest DEF AskRoom
  <1>16. ASSUME NEW m \in mail, Deliver(m) PROVE ShapedAll'
    <2>0. PICK c \in Conn : c = m.to
      BY DEF Typed
    <2>1. OnlyTo(c)
      BY <1>16, <2>0, DeliverMeans
    <2>2. registry'["session"] = registry["session"]
      BY <1>16, <2>0, OutRegistry DEF Deliver
    <2>4. /\ KeepsWho(c) /\ conn'[c].st = conn[c].st /\ conn'[c].bye = conn[c].bye
          /\ conn'[c].want = conn[c].want /\ UNCHANGED knows
          /\ conn'[c].closing => conn[c].closing \/ conn[c].st = "open"
          /\ conn'[c].pending => conn[c].pending /\ ~(Decides(c, m) /\ m.what = "let in")
          /\ \/ conn'[c].at = conn[c].at
             \/ conn'[c].at = "complete" /\ Decides(c, m) /\ m.what = "let in" /\ conn[c].pending
      BY <1>16, <2>0, DeliverMeans DEF Removes, Ends, Decides, Mine, StillPending
    <2>5. Shaped(c)
      BY <1>0, <2>1
    <2>3. Shaped(c)'
      <3>1. CASE conn'[c].at = conn[c].at
        BY <2>2, <2>4, <2>5, <3>1 DEF Shaped
      <3>2. CASE conn'[c].at = "complete" /\ ~conn'[c].pending /\ conn[c].pending
        BY <2>2, <2>4, <2>5, <3>2 DEF Shaped
      <3> QED
        BY <2>4, <3>1, <3>2
    <2> QED
      BY <1>16, <2>1, <2>2, <2>3, ShapedRest DEF Deliver
  <1>17. CASE OwnerStep
    BY <1>17, SameShaped DEF OwnerStep, RemovePerson, Ban, HandOver, Decide, SetWaitingRoom, DeleteRoom,
       EndSession, DeleteSession, Announce, RotateCode, rows
  <1>18. ASSUME NEW c \in Conn, NEW s \in Scopes, Expire(c, s) PROVE ShapedAll'
    BY <1>18, SameShaped DEF Expire
  <1>19. ASSUME NEW e \in exits, Gone(e) \/ SayLeft(e) PROVE ShapedAll'
    BY <1>19, SameShaped DEF Gone, SayLeft
  <1>20. CASE UNCHANGED vars
    BY <1>20, SameShaped DEF vars
  <1> QED
    BY <1>1, <1>2, <1>3, <1>4, <1>5, <1>6, <1>7, <1>8, <1>9, <1>10, <1>11, <1>12, <1>13, <1>14, <1>15,
       <1>16, <1>17, <1>18, <1>19, <1>20 DEF Next, FrameStep, CloseStep

\* Init has them.
LEMMA ShapedInit == Init => ShapedAll
  <1> SUFFICES ASSUME Init PROVE ShapedAll
    OBVIOUS
  <1>1. \A c \in Conn : conn[c] = NewConn
    BY DEF Init
  <1>2. \A p \in Person : knows[p] \in Pid => knows[p][1] = p
    BY NoneApart DEF Init
  <1> QED
    BY <1>1, <1>2, NoneApart DEF ShapedAll, Shaped, NewConn, IdOrNone


-----------------------------------------------------------------------------
(* In no room before the join is complete.                                 *)

\* A step of one connection that joins nothing new.
LEMMA JoiningKeeps ==
  ASSUME JoiningOutside, NEW c \in Conn, OnlyTo(c),
         Joining(c)' => Joining(c) /\ conn'[c].room \in {conn[c].room, None},
         \A k \in Rooms : /\ registry'[k] \subseteq registry[k] \cup {c}
                          /\ present'[k] \subseteq present[k] \cup {c}
                          /\ Joining(c)' /\ c \in registry'[k] => c \in registry[k]
                          /\ Joining(c)' /\ c \in present'[k] => c \in present[k]
  PROVE  JoiningOutside'
  <1>1. ASSUME NEW d \in Conn, Joining(d)' PROVE OutOfRooms(d)'
    <2>1. Joining(d) /\ conn'[d].room \in {conn[d].room, None}
      BY <1>1 DEF OnlyTo, Joining
    <2>2. OutOfRooms(d)
      BY <2>1 DEF JoiningOutside
    <2>3. \A k \in Rooms : d \notin registry'[k] \cup present'[k]
      BY <1>1, <2>2 DEF OutOfRooms
    <2> QED
      BY <2>1, <2>2, <2>3 DEF OutOfRooms
  <1> QED
    BY <1>1 DEF JoiningOutside

\* A step that changes no connection.
LEMMA SameJoining ==
  ASSUME JoiningOutside, UNCHANGED conn,
         \A k \in Rooms : registry'[k] \subseteq registry[k] /\ present'[k] \subseteq present[k]
  PROVE  JoiningOutside'
  BY DEF JoiningOutside, Joining, OutOfRooms

\* Every step keeps those who join outside.
LEMMA JoiningStep == Typed /\ ShapedAll /\ JoiningOutside /\ [Next]_vars => JoiningOutside'
  <1> SUFFICES ASSUME Typed, ShapedAll, JoiningOutside, [Next]_vars PROVE JoiningOutside'
    OBVIOUS
  <1> USE NoneApart DEF KeepsWho, KeepsLife, KeepsPlace
  <1>0. /\ \A c \in Conn : Shaped(c)
        /\ \A c \in Conn, how \in {"switch", "close", "removal"} : Out(c, how) =>
              \A k \in Rooms : registry'[k] \subseteq registry[k]
    BY OutRegistry DEF ShapedAll
  <1>r. /\ \A k \in Rooms : k \in Scopes /\ k # "session"
        /\ registry \in [Scopes -> SUBSET Conn] /\ present \in [Scopes -> SUBSET Conn]
    BY DEF Scopes, Rooms, Typed
  <1>1. ASSUME NEW c \in Conn, Connect(c) PROVE JoiningOutside'
    BY <1>1, <1>0, ConnectMeans, JoiningKeeps DEF Joining, Shaped
  <1>2. ASSUME NEW c \in Conn, Upsert(c) PROVE JoiningOutside'
    BY <1>2, <1>0, UpsertMeans, JoiningKeeps DEF Joining, Shaped
  <1>3. ASSUME NEW c \in Conn, Register(c) PROVE JoiningOutside'
    <2>1. \A k \in Rooms : registry'[k] = registry[k] /\ present'[k] = present[k]
      BY <1>3, <1>r DEF Register
    <2>2. Joining(c) /\ conn'[c].room = conn[c].room /\ OnlyTo(c)
      BY <1>3, <1>0, RegisterMeans DEF Joining, Shaped
    <2> QED
      BY <2>1, <2>2, JoiningKeeps
  <1>4. ASSUME NEW c \in Conn, Admission(c) PROVE JoiningOutside'
    <2>1. Joining(c) /\ conn'[c].room = conn[c].room /\ OnlyTo(c)
      BY <1>4, AdmissionMeans DEF Joining
    <2> QED
      BY <1>4, <2>1, AdmissionMeans, JoiningKeeps
  <1>5. ASSUME NEW c \in Conn, Complete(c) PROVE JoiningOutside'
    BY <1>5, CompleteMeans, JoiningKeeps DEF Joining
  <1>6. ASSUME NEW c \in Conn, Access(c) PROVE JoiningOutside'
    <2>1. \A k \in Rooms : registry'[k] \subseteq registry[k] /\ present'[k] = present[k]
      BY <1>6, <1>0, AccessMeans
    <2>2. OnlyTo(c) /\ (Joining(c)' => Joining(c) /\ conn'[c].room \in {conn[c].room, None})
      BY <1>6, AccessMeans DEF Joining
    <2> QED
      BY <2>1, <2>2, JoiningKeeps
  <1>7. ASSUME NEW c \in Conn, Move(c) PROVE JoiningOutside'
    <2>1. OnlyTo(c) /\ ~Joining(c)' /\ UNCHANGED <<registry, present>>
      BY <1>7, <1>0, MoveMeans DEF Joining, Shaped
    <2> QED
      BY <2>1, JoiningKeeps
  <1>8. ASSUME NEW c \in Conn, Enter(c) PROVE JoiningOutside'
    <2>1. OnlyTo(c) /\ ~Joining(c)'
      BY <1>8, <1>0, EnterMeans DEF Joining, Shaped
    <2>2. \A k \in Rooms : /\ registry'[k] \subseteq registry[k] \cup {c}
                           /\ present'[k] \subseteq present[k] \cup {c}
      BY <1>8, <1>r DEF Enter
    <2> QED
      BY <2>1, <2>2, JoiningKeeps
  <1>9. ASSUME NEW c \in Conn, SayJoined(c) PROVE JoiningOutside'
    BY <1>9, SayJoinedMeans, JoiningKeeps DEF Joining
  <1>10. ASSUME NEW c \in Conn, CloseGone(c) PROVE JoiningOutside'
    <2>1. UNCHANGED registry /\ \A k \in Rooms : present'[k] \subseteq present[k]
      BY <1>10, <1>r DEF CloseGone
    <2> QED
      BY <1>10, <2>1, CloseGoneMeans, JoiningKeeps DEF Joining
  <1>11. ASSUME NEW c \in Conn, Disconnect(c) PROVE JoiningOutside'
    BY <1>11, DisconnectMeans, JoiningKeeps DEF Joining
  <1>12. ASSUME NEW c \in Conn, CloseLeave(c) PROVE JoiningOutside'
    <2>1. \A k \in Rooms : registry'[k] \subseteq registry[k] /\ present'[k] = present[k]
      BY <1>12, <1>0 DEF CloseLeave
    <2> QED
      BY <1>12, <2>1, CloseLeaveMeans, JoiningKeeps DEF Joining
  <1>13. ASSUME NEW c \in Conn, Unregister(c) PROVE JoiningOutside'
    <2>1. \A k \in Rooms : registry'[k] = registry[k] /\ present'[k] = present[k]
      BY <1>13, <1>r DEF Unregister
    <2> QED
      BY <1>13, <2>1, UnregisterMeans, JoiningKeeps DEF Joining
  <1>14. ASSUME NEW c \in Conn, Close(c) PROVE JoiningOutside'
    BY ZenonT(60), <1>14, CloseMeans, JoiningKeeps DEF Joining
  <1>15. ASSUME NEW c \in Conn, NEW k \in Rooms, NEW code \in BOOLEAN, AskRoom(c, k, code)
         PROVE  JoiningOutside'
    BY <1>15, AskRoomMeans, JoiningKeeps DEF Joining
  <1>16. ASSUME NEW m \in mail, Deliver(m) PROVE JoiningOutside'
    <2>0. PICK c \in Conn : c = m.to
      BY DEF Typed
    <2>1. OnlyTo(c) /\ (Joining(c)' => Joining(c) /\ conn'[c].room \in {conn[c].room, None})
      BY <1>16, <2>0, DeliverMeans DEF Joining, Decides, StillPending
    <2>2. \A k \in Rooms : registry'[k] \subseteq registry[k] /\ present'[k] = present[k]
      BY <1>16, <1>0, <2>0 DEF Deliver
    <2> QED
      BY <2>1, <2>2, JoiningKeeps
  <1>17. CASE OwnerStep
    BY <1>17, SameJoining DEF OwnerStep, RemovePerson, Ban, HandOver, Decide, SetWaitingRoom, DeleteRoom,
       EndSession, DeleteSession, Announce, RotateCode, rows
  <1>18. ASSUME NEW c \in Conn, NEW s \in Scopes, Expire(c, s) PROVE JoiningOutside'
    <2>1. UNCHANGED <<registry, conn>> /\ \A k \in Rooms : present'[k] \subseteq present[k]
      BY <1>18, <1>r DEF Expire
    <2> QED
      BY <2>1, SameJoining
  <1>19. ASSUME NEW e \in exits, Gone(e) \/ SayLeft(e) PROVE JoiningOutside'
    <2>1. UNCHANGED <<registry, conn>> /\ \A k \in Rooms : present'[k] \subseteq present[k]
      BY <1>19, <1>r DEF Gone, SayLeft
    <2> QED
      BY <2>1, SameJoining
  <1>20. CASE UNCHANGED vars
    BY <1>20, SameJoining DEF vars
  <1> QED
    BY <1>1, <1>2, <1>3, <1>4, <1>5, <1>6, <1>7, <1>8, <1>9, <1>10, <1>11, <1>12, <1>13, <1>14, <1>15,
       <1>16, <1>17, <1>18, <1>19, <1>20 DEF Next, FrameStep, CloseStep

\* Init has nobody who joins.
LEMMA JoiningInit == Init => JoiningOutside
  BY DEF Init, JoiningOutside, OutOfRooms, NewConn, Scopes


-----------------------------------------------------------------------------
(* Who holds an id.                                                        *)

\* What the requests and Admission do to the rows.
LEMMA WaitsMeans ==
  ASSUME Typed, NEW i \in Pid, NEW v \in BOOLEAN, row' = [row EXCEPT ![i].waiting = v]
  PROVE  /\ \A x \in Pid \ {i} : KeepsRow(x)
         /\ row'[i].st = row[i].st /\ row'[i].waiting = v
  BY DEF Typed, Row, KeepsRow

\* A removal writes one row.
LEMMA TakeOutMeans ==
  ASSUME Typed, NEW i \in Pid, TakeOut(i)
  PROVE  /\ \A x \in Pid \ {i} : KeepsRow(x)
         /\ row'[i].st = "removed" /\ row'[i].waiting = row[i].waiting
  BY DEF Typed, Row, KeepsRow, TakeOut

\* Deleting a room writes only where people are.
LEMMA DeleteRoomMeans ==
  ASSUME Typed, DeleteRoom
  PROVE  \A x \in Pid : KeepsRow(x)
  BY DEF Typed, Row, KeepsRow, DeleteRoom

\* The connection holds nothing new.
KeepsHolding(c) ==
    /\ \A x \in Pid : (Holds(c, x)' => Holds(c, x)) /\ (Fresh(c, x)' => Fresh(c, x))
    /\ conn[c].pending => conn'[c].pending
    /\ conn'[c].at = "upsert" => /\ conn[c].at = "upsert"
                                 /\ conn'[c].want = conn[c].want /\ conn'[c].member = conn[c].member

\* A connection that does not change holds what it held.
LEMMA SameHolding ==
  ASSUME NEW c \in Conn, conn'[c] = conn[c]
  PROVE  KeepsHolding(c)
  BY DEF KeepsHolding, Holds, Brings, Fresh

\* What a step may change and keep Held.
LEMMA HeldKeeps ==
  ASSUME Held, session'.alive = session.alive, \A x \in Pid : KeepsRow(x), UNCHANGED knows,
         \A x \in Pid : LetInUnderWay(x)' => LetInUnderWay(x),
         \A c \in Conn : KeepsHolding(c)
  PROVE  Held'
  <1>1. \A x \in Pid : Known(x)' <=> Known(x)
    BY DEF Known
  <1>2. NoneRows' /\ HeldHasRow'
    BY <1>1 DEF Held, NoneRows, HeldHasRow, KeepsRow, KeepsHolding
  <1>3. FreshAlone'
    BY <1>1 DEF Held, FreshAlone, KeepsHolding
  <1>4. WaitingHeldByPending'
    BY <1>1 DEF Held, WaitingHeldByPending, KeepsRow, KeepsHolding
  <1>5. BroughtRemoved'
    BY DEF Held, BroughtRemoved, KeepsRow, KeepsHolding
  <1> QED
    BY <1>2, <1>3, <1>4, <1>5 DEF Held

\* The usual step: one connection, holding nothing new, and no row.
LEMMA HeldKeepsOne ==
  ASSUME Held, NEW c \in Conn, OnlyTo(c), KeepsHolding(c),
         UNCHANGED <<session, op, mail, knows>>, \A x \in Pid : KeepsRow(x)
  PROVE  Held'
  <1>1. \A d \in Conn : KeepsHolding(d)
    BY SameHolding DEF OnlyTo
  <1>2. \A x \in Pid : LetInUnderWay(x)' => LetInUnderWay(x)
    BY DEF LetInUnderWay
  <1> QED
    BY <1>1, <1>2, HeldKeeps

\* A connection that opens brings an id nobody waits with.
LEMMA HeldConnect ==
  ASSUME Typed, ShapedAll, Held, NEW c \in Conn, Connect(c)
  PROVE  Held'
  <1> DEFINE i == knows[Whose[c]]
  <1>s. conn[c].st = "new" /\ conn[c].pid = None /\ session.alive
    BY DEF Connect, Opens, ShapedAll, Shaped
  <1>1. /\ conn'[c].want = i /\ conn'[c].pid = None /\ conn'[c].at = "upsert"
        /\ conn'[c].member = (i # None /\ Current(i))
        /\ OnlyTo(c) /\ UNCHANGED <<row, knows, session, op, mail>> /\ session.alive
    BY <1>s, ConnectMeans DEF KeepsPlace
  <1>2. i \in IdOrNone /\ (i \in Pid => Known(i)) /\ Whose[c] \in Person
    BY SocketsAssumption DEF Typed, Known
  <1> HIDE DEF i
  <1>3. \A x \in Pid : LetInUnderWay(x)' = LetInUnderWay(x) /\ Known(x)' = Known(x) /\ row'[x] = row[x]
    BY <1>1 DEF LetInUnderWay, Known
  <1>4. /\ \A d \in Conn \ {c} : KeepsHolding(d)
        /\ \A x \in Pid : ~Fresh(c, x)' /\ (Holds(c, x)' => x = i)
    BY <1>1, NoneApart, SameHolding DEF Fresh, Holds, Brings, OnlyTo
  <1>5. NoneRows' /\ HeldHasRow'
    BY <1>1, <1>2, <1>3, <1>4 DEF Held, NoneRows, HeldHasRow, KeepsHolding
  <1>6. FreshAlone'
    BY <1>2, <1>3, <1>4 DEF Held, FreshAlone, KeepsHolding
  <1>7. WaitingHeldByPending'
    BY <1>2, <1>3, <1>4 DEF Held, WaitingHeldByPending, KeepsHolding
  <1>8. BroughtRemoved'
    <2>1. i \in Pid /\ ~Current(i) => row[i].st = "removed"
      BY <1>1, <1>2 DEF Held, WaitingHeldByPending, HeldHasRow, Current, Typed, Row
    <2> QED
      BY ZenonT(60), <1>1, <1>2, <1>3, <1>4, <2>1, NoneApart DEF Held, BroughtRemoved, KeepsHolding
  <1> QED
    BY <1>5, <1>6, <1>7, <1>8 DEF Held

\* A new row is of a new id.
LEMMA HeldUpsert ==
  ASSUME Typed, ShapedAll, Held, NEW c \in Conn, Upsert(c)
  PROVE  Held'
  <1>0. /\ OnlyTo(c) /\ conn[c].at = "upsert" /\ ~conn[c].pending /\ conn[c].pid = None
        /\ conn'[c].pid = None /\ conn'[c].member = conn[c].member
        /\ UNCHANGED <<knows, session, op, mail>> /\ conn'[c].pending = conn[c].pending
    BY UpsertMeans DEF ShapedAll, Shaped, KeepsWho, KeepsPlace
  <1>1. CASE conn'[c].at = "idle" /\ row' = row
    <2>1. KeepsHolding(c)
      BY <1>0, <1>1, NoneApart DEF KeepsHolding, Holds, Brings, Fresh
    <2> QED
      BY <1>0, <1>1, <2>1, HeldKeepsOne DEF KeepsRow
  <1>2. CASE conn'[c].at # "idle" \/ row' # row
    <2>1. PICK i \in Pid :
            /\ conn'[c].want = i /\ session.alive /\ conn'[c].at = "connected"
            /\ \A x \in Pid \ {i} : KeepsRow(x)
            /\ row'[i].st = "member" /\ row'[i].waiting = row[i].waiting
            /\ \/ i = conn[c].want /\ row[i].st = "member"
               \/ row[i].st = "none" /\ ~(conn[c].want # None /\ row[conn[c].want].st = "member")
      BY <1>2, UpsertMeans
    <2>2. \A x \in Pid : LetInUnderWay(x)' = LetInUnderWay(x) /\ Known(x)' = Known(x)
      BY <1>0 DEF LetInUnderWay, Known
    <2>3. /\ \A d \in Conn \ {c} : KeepsHolding(d)
          /\ \A x \in Pid : (Fresh(c, x)' <=> x = i /\ ~conn[c].member) /\ (Holds(c, x)' <=> x = i)
      BY <1>0, <2>1, NoneApart, SameHolding DEF Fresh, Holds, Brings, OnlyTo
    <2>4. row[i].st = "none" =>
            ~Known(i) /\ ~LetInUnderWay(i) /\ ~row[i].waiting /\ \A d \in Conn : ~Holds(d, i)
      BY <2>1 DEF Held, HeldHasRow, NoneRows
    <2>5. row[i].st # "none" => Holds(c, i) /\ conn[c].member /\ ~row[i].waiting
      <3>1. row[i].st # "none" => Holds(c, i) /\ row[i].st = "member" /\ conn[c].want = i
        BY <1>0, <2>1 DEF Holds, Brings
      <3>2. Typed /\ (row[i].st # "none" => conn[c].member)
        BY <1>0, <2>1, <3>1 DEF Held, BroughtRemoved
      <3> QED
        BY <1>0, <3>1, <3>2 DEF Held, WaitingHeldByPending
    <2>6. NoneRows' /\ HeldHasRow'
      BY <1>0, <2>1, <2>2, <2>3, <2>4 DEF Held, NoneRows, HeldHasRow, KeepsHolding, KeepsRow
    <2>7. FreshAlone'
      <3>1. \A d \in Conn, x \in Pid : Fresh(d, x) => Holds(d, x)
        BY DEF Fresh, Holds, Brings
      <3> QED
        BY <2>2, <2>3, <2>4, <2>5, <3>1 DEF Held, FreshAlone, KeepsHolding
    <2>8. WaitingHeldByPending'
      BY <2>1, <2>2, <2>3, <2>4, <2>5 DEF Held, WaitingHeldByPending, KeepsHolding, KeepsRow
    <2>9. BroughtRemoved'
      BY <1>0, <2>1, <2>3 DEF Held, BroughtRemoved, KeepsHolding, KeepsRow
    <2> QED
      BY <2>6, <2>7, <2>8, <2>9 DEF Held
  <1> QED
    BY <1>1, <1>2

\* A connection waits with an id that nobody else holds.
LEMMA HeldAdmission ==
  ASSUME Typed, ShapedAll, Held, NEW c \in Conn, Admission(c)
  PROVE  Held'
  <1>0. /\ OnlyTo(c) /\ conn[c].at = "admission" /\ ~conn[c].pending /\ conn[c].pid \in Pid
        /\ UNCHANGED <<knows, session, op, mail>> /\ conn'[c].pid = conn[c].pid
        /\ conn'[c].at \in {"idle", "complete"}
        /\ MustWait(c) => conn'[c].pending
    BY AdmissionMeans DEF ShapedAll, Shaped, KeepsWho, Typed, Connection, IdOrNone
  <1>1. KeepsHolding(c) /\ \A d \in Conn : KeepsHolding(d)
    BY <1>0, SameHolding DEF KeepsHolding, Holds, Brings, Fresh, OnlyTo
  <1>2. CASE ~MustWait(c)
    <2>1. \A x \in Pid : KeepsRow(x)
      BY <1>2 DEF Admission, KeepsRow
    <2> QED
      BY <1>0, <1>1, <2>1, HeldKeepsOne
  <1>3. CASE MustWait(c)
    <2> DEFINE i == conn[c].pid
    <2>1. /\ \A x \in Pid \ {i} : KeepsRow(x)
          /\ row'[i].st = row[i].st /\ row'[i].waiting = (row[i].st # "none")
      BY <1>0, <1>3, WaitsMeans DEF Admission
    <2>2. Holds(c, i) /\ ~row[i].waiting
      BY <1>0 DEF Holds, Held, WaitingHeldByPending
    <2>3. Fresh(c, i)
      BY <1>0, <1>3, <2>2 DEF MustWait, Fresh
    <2>4. ~Known(i) /\ ~LetInUnderWay(i) /\ \A d \in Conn \ {c} : ~Holds(d, i)
      BY <1>0, <2>3 DEF Held, FreshAlone
    <2>5. \A x \in Pid : LetInUnderWay(x)' = LetInUnderWay(x) /\ Known(x)' = Known(x)
      BY <1>0 DEF LetInUnderWay, Known
    <2>6. i \in Pid /\ conn'[c].pending
      BY <1>0, <1>3
    <2> HIDE DEF i
    <2>a. \A x \in Pid : row'[x].st = row[x].st /\ (row'[x].waiting => row[x].waiting \/ x = i)
      BY <2>1 DEF KeepsRow
    <2>b. row'[i].waiting => row'[i].st # "none"
      BY <2>1
    <2>c. NoneRows'
      BY <1>0, <2>a, <2>b DEF Held, NoneRows
    <2>7. HeldHasRow' /\ BroughtRemoved'
      BY <1>0, <1>1, <2>a, <2>5 DEF Held, HeldHasRow, BroughtRemoved, KeepsHolding
    <2>8. FreshAlone'
      BY <1>1, <2>5 DEF Held, FreshAlone, KeepsHolding
    <2>9. WaitingHeldByPending'
      BY <1>1, <2>1, <2>4, <2>5, <2>6 DEF Held, WaitingHeldByPending, KeepsHolding, KeepsRow
    <2> QED
      BY <2>c, <2>7, <2>8, <2>9 DEF Held
  <1> QED
    BY <1>2, <1>3

\* The welcome tells an id that is held.
LEMMA HeldComplete ==
  ASSUME Typed, ShapedAll, Held, NEW c \in Conn, Complete(c)
  PROVE  Held'
  <1>0. /\ OnlyTo(c) /\ conn[c].at = "complete" /\ ~conn[c].pending /\ conn[c].pid \in Pid
        /\ UNCHANGED <<rows, op, mail>> /\ conn'[c].pid = conn[c].pid
        /\ conn'[c].at \in {"idle", "access"}
        /\ knows' = knows \/ knows' = [knows EXCEPT ![Whose[c]] = conn[c].pid]
    BY CompleteMeans DEF ShapedAll, Shaped, KeepsWho, Typed, Connection, IdOrNone
  <1>1. \A d \in Conn : KeepsHolding(d)
    BY <1>0, SameHolding DEF KeepsHolding, Holds, Brings, Fresh, OnlyTo
  <1> DEFINE i == conn[c].pid
  <1>2. i \in Pid /\ Holds(c, i) /\ ~row[i].waiting
    BY <1>0 DEF Holds, Held, WaitingHeldByPending
  <1>3. \A d \in Conn : ~Fresh(d, i)
    BY <1>0, <1>2 DEF Held, FreshAlone, Fresh
  <1>4. /\ \A x \in Pid : LetInUnderWay(x)' = LetInUnderWay(x)
        /\ \A x \in Pid : Known(x)' => Known(x) \/ x = i
    BY <1>0 DEF LetInUnderWay, Known, Typed
  <1>5. UNCHANGED <<row, session>>
    BY <1>0 DEF rows
  <1> HIDE DEF i
  <1>6. NoneRows' /\ HeldHasRow' /\ BroughtRemoved'
    BY <1>1, <1>2, <1>4, <1>5 DEF Held, NoneRows, HeldHasRow, BroughtRemoved, KeepsHolding
  <1>7. FreshAlone'
    BY <1>1, <1>3, <1>4 DEF Held, FreshAlone, KeepsHolding
  <1>8. WaitingHeldByPending'
    BY <1>1, <1>2, <1>4, <1>5 DEF Held, WaitingHeldByPending, KeepsHolding
  <1> QED
    BY <1>6, <1>7, <1>8 DEF Held

\* An event makes a connection wait no longer.
LEMMA HeldDeliver ==
  ASSUME Typed, ShapedAll, Held, NEW m \in mail, Deliver(m)
  PROVE  Held'
  <1>0. PICK c \in Conn : c = m.to
    BY DEF Typed
  <1>1. /\ OnlyTo(c) /\ UNCHANGED <<rows, knows, op>> /\ mail' = mail \ {m}
        /\ conn'[c].pid = conn[c].pid /\ conn'[c].member = conn[c].member /\ conn'[c].want = conn[c].want
        /\ conn'[c].pending = StillPending(c, m)
        /\ conn'[c].at = (IF Decides(c, m) /\ m.what = "let in" THEN "complete" ELSE conn[c].at)
    BY <1>0, DeliverMeans DEF KeepsWho
  <1>2. \A x \in Pid : LetInUnderWay(x)' => LetInUnderWay(x)
    BY <1>1 DEF LetInUnderWay
  <1>3. UNCHANGED <<row, session>> /\ \A x \in Pid : KeepsRow(x)
    BY <1>1 DEF rows, KeepsRow
  <1>4. CASE Decides(c, m) /\ m.what = "let in"
    <2> DEFINE i == conn[c].pid
    <2>1. conn[c].pending /\ i = m.pid /\ conn[c].at = "idle" /\ i \in Pid /\ conn'[c].at = "complete"
      BY <1>1, <1>4 DEF Decides, Mine, ShapedAll, Shaped, Typed, Connection, IdOrNone
    <2>2. LetInUnderWay(i) /\ ~row[i].waiting
      BY <1>4, <2>1 DEF LetInUnderWay, Held, WaitingHeldByPending
    <2>3. \A x \in Pid : (Holds(c, x)' <=> x = i) /\ (Holds(c, x) <=> x = i) /\ ~Fresh(c, x)'
      BY <1>1, <2>1 DEF Holds, Brings, Fresh
    <2>4. \A d \in Conn \ {c} : KeepsHolding(d)
      BY <1>1, SameHolding DEF OnlyTo
    <2>5. \A x \in Pid : Known(x)' = Known(x)
      BY <1>1 DEF Known
    <2>6. conn'[c].at # "upsert"
      BY <2>1
    <2> HIDE DEF i
    <2>7. NoneRows' /\ HeldHasRow'
      BY <1>2, <1>3, <2>3, <2>4, <2>5 DEF Held, NoneRows, HeldHasRow, KeepsHolding
    <2>8. FreshAlone'
      BY <1>2, <2>3, <2>4, <2>5 DEF Held, FreshAlone, KeepsHolding
    <2>9. WaitingHeldByPending'
      BY <1>2, <1>3, <2>2, <2>3, <2>4, <2>5 DEF Held, WaitingHeldByPending, KeepsHolding
    <2>10. BroughtRemoved'
      BY <1>3, <2>4, <2>6 DEF Held, BroughtRemoved, KeepsHolding
    <2> QED
      BY <2>7, <2>8, <2>9, <2>10 DEF Held
  <1>5. CASE ~(Decides(c, m) /\ m.what = "let in")
    <2>1. KeepsHolding(c)
      BY <1>1, <1>5 DEF KeepsHolding, Holds, Brings, Fresh, StillPending
    <2>2. \A d \in Conn : KeepsHolding(d)
      BY <1>1, <2>1, SameHolding DEF OnlyTo
    <2> QED
      BY <1>1, <1>2, <1>3, <2>2, HeldKeeps
  <1> QED
    BY <1>4, <1>5


\* What Publish sends.
LEMMA PublishMeans ==
  ASSUME Typed, NEW s \in Scopes, NEW what \in Events, NEW i \in IdOrNone, Publish(s, what, i)
  PROVE  /\ mail \subseteq mail'
         /\ \A m \in mail' : m \in mail \/ (m.what = what /\ m.pid = i)
         /\ \A c \in Conn : conn[c].st = "open" /\ c \in registry[s] =>
               \E m \in mail' : m.to = c /\ m.what = what /\ m.pid = i
  <1> DEFINE new == {[to |-> c, what |-> what, pid |-> i] :
                        c \in {d \in Conn : conn[d].st = "open" /\ Hears(d, s)}}
  <1>1. mail' = mail \cup new
    BY DEF Publish
  <1>2. \A m \in new : m.what = what /\ m.pid = i
    OBVIOUS
  <1>3. ASSUME NEW c \in Conn, conn[c].st = "open", c \in registry[s]
        PROVE  \E m \in new : m.to = c /\ m.what = what /\ m.pid = i
    <2>1. Hears(c, s)
      BY <1>3 DEF Hears
    <2>2. [to |-> c, what |-> what, pid |-> i] \in new
      BY <1>3, <2>1
    <2> QED
      BY <2>2
  <1> HIDE DEF new
  <1> QED
    BY <1>1, <1>2, <1>3

\* What the owner's request announces.
LEMMA AnnounceMeans ==
  ASSUME Typed, Announce
  PROVE  /\ mail \subseteq mail'
         /\ \A m \in mail' : m \in mail \/ (m.what = op.st /\ m.pid = op.pid)
         /\ \A c \in Conn : /\ conn[c].st = "open"
                            /\ c \in registry[IF op.st = "banned" THEN "side" ELSE "session"]
                            => \E m \in mail' : m.to = c /\ m.what = op.st /\ m.pid = op.pid
  <1>1. /\ op.st \in Events /\ op.pid \in IdOrNone
        /\ Publish(IF op.st = "banned" THEN "side" ELSE "session", op.st, op.pid)
    BY DEF Announce, Events, Typed
  <1>2. (IF op.st = "banned" THEN "side" ELSE "session") \in Scopes
    BY DEF Scopes, Rooms
  <1> QED
    BY <1>1, <1>2, PublishMeans

\* A step that changes no connection and no id anyone knows.
LEMMA HeldRequest ==
  ASSUME Typed, ShapedAll, Held, OwnerStep
  PROVE  Held'
  <1> USE DEF Does, Says
  <1>0. UNCHANGED <<conn, knows>>
    BY DEF OwnerStep, RemovePerson, Ban, HandOver, Decide, SetWaitingRoom, DeleteRoom, EndSession,
       DeleteSession, Announce, RotateCode, rows
  <1>1. /\ \A c \in Conn : KeepsHolding(c)
        /\ \A x \in Pid : Known(x)' = Known(x)
        /\ \A c \in Conn, x \in Pid : Holds(c, x)' = Holds(c, x) /\ Fresh(c, x)' = Fresh(c, x)
    BY <1>0, SameHolding DEF Known, Holds, Brings, Fresh
  <1>2. ASSUME NEW i \in Pid, TakeOut(i), row[i].st = "member", session'.alive = session.alive,
               \A x \in Pid : LetInUnderWay(x)' => LetInUnderWay(x)
        PROVE  Held'
    <2>1. /\ \A x \in Pid \ {i} : KeepsRow(x)
          /\ row'[i].st = "removed" /\ row'[i].waiting = row[i].waiting
      BY <1>2, TakeOutMeans
    <2>2. \A x \in Pid : /\ row'[x].waiting = row[x].waiting
                         /\ row'[x].st = "none" <=> row[x].st = "none"
                         /\ row[x].st = "removed" => row'[x].st = "removed"
      BY <1>2, <2>1 DEF KeepsRow
    <2>3. NoneRows' /\ HeldHasRow' /\ BroughtRemoved'
      BY <1>0, <1>1, <1>2, <2>2 DEF Held, NoneRows, HeldHasRow, BroughtRemoved
    <2>4. FreshAlone' /\ WaitingHeldByPending'
      BY <1>0, <1>1, <1>2, <2>2 DEF Held, FreshAlone, WaitingHeldByPending
    <2> QED
      BY <2>3, <2>4 DEF Held
  <1>3. ASSUME NEW i \in Pid, RemovePerson(i) PROVE Held'
    <2>1. \A x \in Pid : LetInUnderWay(x)' => LetInUnderWay(x)
      BY <1>3 DEF RemovePerson, LetInUnderWay
    <2> QED
      BY <1>2, <1>3, <2>1 DEF RemovePerson
  <1>4. ASSUME NEW i \in Pid, Decide(i, FALSE) PROVE Held'
    <2>1. \A x \in Pid : LetInUnderWay(x)' => LetInUnderWay(x)
      BY <1>4 DEF Decide, LetInUnderWay
    <2> QED
      BY <1>2, <1>4, <2>1 DEF Decide
  <1>5. ASSUME NEW i \in Pid, Decide(i, TRUE) PROVE Held'
    <2>1. /\ \A x \in Pid \ {i} : KeepsRow(x)
          /\ row'[i].st = row[i].st /\ ~row'[i].waiting
          /\ row[i].waiting /\ row[i].st = "member" /\ UNCHANGED <<session, mail>>
      BY <1>5, WaitsMeans DEF Decide
    <2>2. \A x \in Pid : LetInUnderWay(x)' => LetInUnderWay(x) \/ x = i
      BY <1>5 DEF Decide, LetInUnderWay
    <2>3. \A c \in Conn : ~Fresh(c, i)
      BY <2>1 DEF Held, WaitingHeldByPending, Fresh, Holds, Brings, ShapedAll, Shaped
    <2>4. \A x \in Pid : /\ row'[x].waiting => row[x].waiting /\ x # i
                         /\ row'[x].st = row[x].st
      BY <2>1 DEF KeepsRow
    <2>5. NoneRows' /\ HeldHasRow' /\ BroughtRemoved'
      BY <1>0, <1>1, <2>1, <2>2, <2>4 DEF Held, NoneRows, HeldHasRow, BroughtRemoved
    <2>6. FreshAlone' /\ WaitingHeldByPending'
      BY <1>0, <1>1, <2>2, <2>3, <2>4 DEF Held, FreshAlone, WaitingHeldByPending
    <2> QED
      BY <2>5, <2>6 DEF Held
  <1>6. CASE DeleteSession
    <2>1. \A x \in Pid : row'[x].st = "none" /\ ~row'[x].waiting
      BY <1>6 DEF DeleteSession, NoRow
    <2>2. ~session'.alive
      BY <1>6 DEF DeleteSession, Typed
    <2>3. \A x \in Pid : LetInUnderWay(x)' => LetInUnderWay(x)
      BY <1>6 DEF DeleteSession, LetInUnderWay
    <2> QED
      BY <1>1, <2>1, <2>2, <2>3
         DEF Held, NoneRows, HeldHasRow, FreshAlone, WaitingHeldByPending, BroughtRemoved
  <1>7. CASE \/ \E i \in Pid : Ban(i) \/ HandOver(i)
             \/ SetWaitingRoom \/ EndSession \/ RotateCode
    <2>1. UNCHANGED row /\ session'.alive = session.alive
      BY <1>7 DEF Ban, HandOver, SetWaitingRoom, EndSession, RotateCode, rows, Typed
    <2>2. \A x \in Pid : LetInUnderWay(x)' => LetInUnderWay(x)
      <3>1. (\E i \in Pid : Says("banned", i)) \/ Says("ending", None) \/ Says("idle", None) \/ op' = op
        <4> HIDE DEF Does, Says
        <4> QED
          BY <1>7 DEF Ban, HandOver, SetWaitingRoom, EndSession, RotateCode
      <3>3. op'.st = "let in" => op' = op
        <4>1. CASE \E i \in Pid : Says("banned", i)
          BY <4>1
        <4>2. CASE Says("ending", None)
          BY <4>2
        <4>3. CASE Says("idle", None)
          BY <4>3
        <4> QED
          BY <3>1, <4>1, <4>2, <4>3
      <3>2. \A m \in mail' : m \in mail \/ m.what = "ended"
        <4>1. CASE EndSession
          <5>1. Publish("session", "ended", None) /\ "session" \in Scopes
            BY <4>1 DEF EndSession, Scopes
          <5> QED
            BY <5>1, PublishMeans DEF Events, IdOrNone
        <4> QED
          BY <1>7, <4>1 DEF Ban, HandOver, SetWaitingRoom, RotateCode
      <3> QED
        BY <3>2, <3>3 DEF LetInUnderWay
    <2> QED
      BY <1>0, <1>1, <2>1, <2>2, HeldKeeps DEF KeepsRow
  <1>8. CASE DeleteRoom
    <2>1. UNCHANGED session /\ \A x \in Pid : LetInUnderWay(x)' => LetInUnderWay(x)
      BY <1>8 DEF DeleteRoom, LetInUnderWay
    <2> QED
      BY <1>0, <1>1, <1>8, <2>1, HeldKeeps, DeleteRoomMeans
  <1>9. CASE Announce
    <2>1. UNCHANGED <<row, session>>
      BY <1>9 DEF Announce, rows
    <2>2. \A m \in mail' : m \in mail \/ (m.what = op.st /\ m.pid = op.pid)
      BY <1>9, AnnounceMeans
    <2>3. op'.st # "let in"
      BY <1>9 DEF Announce
    <2>4. \A x \in Pid : LetInUnderWay(x)' => LetInUnderWay(x)
      BY <2>2, <2>3 DEF LetInUnderWay
    <2> QED
      BY <1>0, <1>1, <2>1, <2>4, HeldKeeps DEF KeepsRow
  <1> QED
    BY <1>3, <1>4, <1>5, <1>6, <1>7, <1>8, <1>9 DEF OwnerStep

\* Every step keeps Held.
LEMMA HeldStep == Typed /\ ShapedAll /\ Held /\ [Next]_vars => Held'
  <1> SUFFICES ASSUME Typed, ShapedAll, Held, [Next]_vars PROVE Held'
    OBVIOUS
  <1> USE NoneApart DEF KeepsWho, KeepsLife, KeepsPlace
  <1>0. /\ \A c \in Conn : Shaped(c)
        /\ row' = row => \A x \in Pid : KeepsRow(x)
        /\ UNCHANGED rows => UNCHANGED <<session, row>>
    BY DEF ShapedAll, KeepsRow, rows
  <1>1. ASSUME NEW c \in Conn, Connect(c) \/ Upsert(c) \/ Admission(c) \/ Complete(c) PROVE Held'
    BY <1>1, HeldConnect, HeldUpsert, HeldAdmission, HeldComplete
  <1>3. ASSUME NEW c \in Conn, Register(c) PROVE Held'
    <2>1. KeepsHolding(c)
      BY <1>3, <1>0, RegisterMeans DEF KeepsHolding, Holds, Brings, Fresh, Shaped
    <2> QED
      BY <1>3, <2>1, RegisterMeans, RowsMeans, HeldKeepsOne
  <1>6. ASSUME NEW c \in Conn, Access(c) PROVE Held'
    <2>1. KeepsHolding(c)
      BY <1>6, AccessMeans DEF KeepsHolding, Holds, Brings, Fresh
    <2> QED
      BY <1>6, <1>0, <2>1, AccessMeans, HeldKeepsOne
  <1>7. ASSUME NEW c \in Conn, Move(c) PROVE Held'
    <2>1. KeepsHolding(c)
      BY <1>7, MoveMeans DEF KeepsHolding, Holds, Brings, Fresh
    <2> QED
      BY <1>7, <2>1, MoveMeans, HeldKeepsOne
  <1>8. ASSUME NEW c \in Conn, Enter(c) PROVE Held'
    <2>1. KeepsHolding(c)
      BY <1>8, EnterMeans DEF KeepsHolding, Holds, Brings, Fresh
    <2> QED
      BY <1>8, <1>0, <2>1, EnterMeans, HeldKeepsOne
  <1>9. ASSUME NEW c \in Conn, SayJoined(c) PROVE Held'
    <2>1. KeepsHolding(c)
      BY <1>9, SayJoinedMeans DEF KeepsHolding, Holds, Brings, Fresh
    <2> QED
      BY <1>9, <1>0, <2>1, SayJoinedMeans, HeldKeepsOne
  <1>10. ASSUME NEW c \in Conn, CloseStep(c) \/ Close(c) PROVE Held'
    <2>1. OnlyTo(c) /\ UNCHANGED <<session, op, mail, knows>> /\ \A x \in Pid : KeepsRow(x)
      BY <1>10, <1>0, CloseGoneMeans, DisconnectMeans, CloseLeaveMeans, UnregisterMeans, CloseMeans, RowsMeans
         DEF CloseStep
    <2>2. /\ conn'[c].pid = conn[c].pid /\ conn'[c].member = conn[c].member
          /\ conn'[c].at = conn[c].at /\ conn'[c].want = conn[c].want
          /\ conn'[c].pending = conn[c].pending
      BY ZenonT(60), <1>10, CloseGoneMeans, DisconnectMeans, CloseLeaveMeans, UnregisterMeans, CloseMeans DEF CloseStep
    <2>3. KeepsHolding(c)
      BY <2>2 DEF KeepsHolding, Holds, Brings, Fresh
    <2> QED
      BY <2>1, <2>3, HeldKeepsOne
  <1>15. ASSUME NEW c \in Conn, NEW k \in Rooms, NEW code \in BOOLEAN, AskRoom(c, k, code)
         PROVE  Held'
    <2>1. KeepsHolding(c)
      BY <1>15, AskRoomMeans DEF KeepsHolding, Holds, Brings, Fresh
    <2> QED
      BY <1>15, <1>0, <2>1, AskRoomMeans, HeldKeepsOne
  <1>16. ASSUME NEW m \in mail, Deliver(m) PROVE Held'
    BY <1>16, HeldDeliver
  <1>17. CASE OwnerStep
    BY <1>17, HeldRequest
  <1>18. CASE \/ \E c \in Conn, s \in Scopes : Expire(c, s)
              \/ \E e \in exits : Gone(e) \/ SayLeft(e)
              \/ UNCHANGED vars
    <2>1. UNCHANGED <<session, row, op, mail, knows, conn>>
      BY <1>18 DEF Expire, Gone, SayLeft, vars, rows
    <2>2. \A x \in Pid : LetInUnderWay(x)' => LetInUnderWay(x)
      BY <2>1 DEF LetInUnderWay
    <2> QED
      BY <1>0, <2>1, <2>2, SameHolding, HeldKeeps
  <1> QED
    BY <1>1, <1>3, <1>6, <1>7, <1>8, <1>9, <1>10, <1>15, <1>16, <1>17, <1>18
       DEF Next, FrameStep

\* Init has it.
LEMMA HeldInit == Init => Held
  <1> SUFFICES ASSUME Init PROVE Held
    OBVIOUS
  <1>1. /\ \A c \in Conn : conn[c] = NewConn
        /\ session.alive /\ mail = {} /\ op.st = "idle"
    BY DEF Init
  <1>2. \A x \in Pid : ~row[x].waiting /\ (x = <<Host, 1>> => row[x].st = "member")
    BY DEF Init, NoRow
  <1>3. \A x \in Pid : Known(x) => x = <<Host, 1>>
    BY NoneApart DEF Init, Known
  <1>4. \A c \in Conn, x \in Pid : ~Holds(c, x) /\ ~Fresh(c, x) /\ conn[c].at = "idle"
    BY <1>1, NoneApart DEF Holds, Brings, Fresh, NewConn
  <1>5. \A x \in Pid : ~LetInUnderWay(x)
    BY <1>1 DEF LetInUnderWay
  <1> QED
    BY <1>1, <1>2, <1>3, <1>4, <1>5
       DEF Held, NoneRows, HeldHasRow, FreshAlone, WaitingHeldByPending, BroughtRemoved


-----------------------------------------------------------------------------
(* Who was let in.                                                         *)

\* Past the waiting room; at the steps that lead to it, under an id.
Past(c) == conn[c].pid # None /\ ~conn[c].pending /\ conn[c].at # "admission"
Entering(c, x) == \/ conn[c].at \in {"upsert", "connected"} /\ conn[c].want = x
                  \/ conn[c].at = "admission" /\ conn[c].pid = x
KeepsEntry(c) ==
    /\ Past(c)' => Past(c) /\ conn'[c].pid = conn[c].pid
    /\ conn'[c].at \in {"upsert", "connected"} =>
           conn'[c].at = conn[c].at /\ conn'[c].want = conn[c].want /\ conn'[c].member = conn[c].member
    /\ conn'[c].at = "admission" =>
           conn[c].at = "admission" /\ conn'[c].pid = conn[c].pid /\ conn'[c].member = conn[c].member
\* The four parts of Entry that are about a connection.
ConnEntry(c) ==
    Whose[c] \notin crossed =>
        /\ Past(c) => conn[c].pid \in Allowed
        /\ conn[c].member => /\ conn[c].at = "upsert" => /\ conn[c].want \in Pid /\ conn[c].want \in Allowed
                                                         /\ session.alive => row[conn[c].want].st = "member"
                             /\ conn[c].at = "connected" => conn[c].want \in Allowed
                             /\ conn[c].at = "admission" => conn[c].pid \in Allowed
        /\ session.changed /\ conn[c].at = "upsert" => conn[c].member
        /\ session.alive => \A x \in Pid :
               /\ (conn[c].at = "connected" /\ conn[c].want = x) \/ (conn[c].at = "admission" /\ conn[c].pid = x)
               => row[x].st = "member"

\* Entry, one connection at a time.
LEMMA EntryByConn ==
  Entry => \A c \in Conn : ConnEntry(c)
  BY DEF Entry, ConnEntry, Past, MemberAllowed, PastAllowed, ChangedForMembers, EnteringIsMember

\* Rows stay those of members for who is entering, and a change of the code
\* crosses who brings an id.
KeepsEntrants ==
    /\ crossed \subseteq crossed' /\ admitted \subseteq admitted'
    /\ session'.alive => session.alive /\ \A c \in Conn, x \in Pid :
           Whose[c] \notin crossed' /\ Entering(c, x) /\ row[x].st = "member" => row'[x].st = "member"
    /\ session'.changed => session.changed \/ \A c \in Conn : conn[c].at = "upsert" => Whose[c] \in crossed'

\* A connection that did not change stays in by right.
LEMMA ConnEntryKeeps ==
  ASSUME NEW c \in Conn, ConnEntry(c), KeepsEntry(c), KeepsEntrants
  PROVE  ConnEntry(c)'
  <1> SUFFICES ASSUME Whose[c] \notin crossed' PROVE ConnEntry(c)'
    BY DEF ConnEntry
  <1>0. Whose[c] \notin crossed /\ admitted \subseteq admitted'
    BY DEF KeepsEntrants
  <1>1. Past(c)' => conn'[c].pid \in Allowed'
    BY <1>0 DEF ConnEntry, KeepsEntry, Allowed
  <1>2. conn'[c].member => /\ conn'[c].at = "upsert" => conn'[c].want \in Pid /\ conn'[c].want \in Allowed'
                           /\ conn'[c].at = "connected" => conn'[c].want \in Allowed'
                           /\ conn'[c].at = "admission" => conn'[c].pid \in Allowed'
    BY <1>0 DEF ConnEntry, KeepsEntry, Allowed
  <1>3. conn'[c].member /\ conn'[c].at = "upsert" /\ session'.alive => row'[conn'[c].want].st = "member"
    BY <1>0 DEF ConnEntry, KeepsEntry, KeepsEntrants, Entering
  <1>4. session'.changed /\ conn'[c].at = "upsert" => conn'[c].member
    BY <1>0 DEF ConnEntry, KeepsEntry, KeepsEntrants
  <1>5. ASSUME session'.alive, NEW x \in Pid,
               (conn'[c].at = "connected" /\ conn'[c].want = x) \/ (conn'[c].at = "admission" /\ conn'[c].pid = x)
        PROVE  row'[x].st = "member"
    BY <1>0, <1>5 DEF ConnEntry, KeepsEntry, KeepsEntrants, Entering
  <1> QED
    BY <1>1, <1>2, <1>3, <1>4, <1>5 DEF ConnEntry

\* A connection that is the same entered the same.
LEMMA SameEntry ==
  ASSUME NEW c \in Conn, conn'[c] = conn[c]
  PROVE  KeepsEntry(c)
  BY DEF KeepsEntry, Past

\* A step of one connection.
LEMMA EntryKeepsOne ==
  ASSUME Entry, NEW c \in Conn, OnlyTo(c), ConnEntry(c)', KeepsEntrants,
         OwnerAllowed', LetInAdmitted', KnownAllowed'
  PROVE  Entry'
  <1>1. ASSUME NEW d \in Conn PROVE ConnEntry(d)'
    <2>1. CASE d # c
      <3>1. ConnEntry(d) /\ KeepsEntry(d)
        BY <2>1, EntryByConn, SameEntry DEF OnlyTo
      <3> QED
        BY <3>1, ConnEntryKeeps
    <2> QED
      BY <2>1
  <1>2. MemberAllowed' /\ PastAllowed'
    BY <1>1 DEF ConnEntry, Past, MemberAllowed, PastAllowed
  <1>3. ChangedForMembers' /\ EnteringIsMember'
    BY <1>1 DEF ConnEntry, ChangedForMembers, EnteringIsMember
  <1> QED
    BY <1>2, <1>3 DEF Entry

\* The rest: the owner, the decisions and what browsers know stay.
LEMMA EntryKeepsRest ==
  ASSUME Typed, Entry, UNCHANGED <<session, owner, op, knows>>, mail' \subseteq mail,
         admitted \subseteq admitted', crossed \subseteq crossed',
         \A x \in Pid : row[x].st = "member" => row'[x].st = "member"
  PROVE  KeepsEntrants /\ OwnerAllowed' /\ LetInAdmitted' /\ KnownAllowed'
  <1>1. KeepsEntrants
    BY DEF KeepsEntrants
  <1>2. \A x \in Pid : LetInUnderWay(x)' => LetInUnderWay(x)
    BY DEF LetInUnderWay
  <1> QED
    BY <1>1, <1>2 DEF Entry, OwnerAllowed, LetInAdmitted, KnownAllowed, Allowed


\* A connection that opens is nowhere yet.
LEMMA EntryConnect ==
  ASSUME Typed, ShapedAll, Held, Entry, NEW c \in Conn, Connect(c)
  PROVE  Entry'
  <1> DEFINE i == knows[Whose[c]]
  <1>1. /\ conn'[c].want = i /\ conn'[c].pid = conn[c].pid /\ conn'[c].at = "upsert"
        /\ conn'[c].member = (i # None /\ Current(i)) /\ conn[c].st = "new"
        /\ OnlyTo(c) /\ UNCHANGED <<row, knows, session, owner, op, mail, admitted>>
    BY ConnectMeans DEF Connect, rows
  <1>2. /\ conn'[c].pid = None /\ crossed \subseteq crossed' /\ Opens(i)
        /\ i \in IdOrNone /\ Whose[c] \in Person
    BY ZenonT(60), <1>1, SocketsAssumption DEF Connect, Overlaps, ShapedAll, Shaped, Typed
  <1>3. Whose[c] \notin crossed' /\ i # None => i \in Pid /\ i \in Allowed /\ Allowed' = Allowed
    BY <1>1, <1>2 DEF Entry, KnownAllowed, Allowed, IdOrNone
  <1> HIDE DEF i
  <1>4. ConnEntry(c)'
    <2>1. ~Past(c)'
      BY <1>2 DEF Past
    <2> QED
      BY <1>1, <1>2, <1>3, <2>1 DEF ConnEntry, Opens, Current
  <1>5. KeepsEntrants /\ OwnerAllowed' /\ LetInAdmitted' /\ KnownAllowed'
    BY <1>1, <1>2, EntryKeepsRest
  <1> QED
    BY <1>1, <1>4, <1>5, EntryKeepsOne

\* A row made or found is one that may enter.
LEMMA EntryUpsert ==
  ASSUME Typed, ShapedAll, Entry, NEW c \in Conn, Upsert(c)
  PROVE  Entry'
  <1>1. /\ OnlyTo(c) /\ conn[c].at = "upsert" /\ conn[c].pid = None
        /\ conn'[c].pid = None /\ conn'[c].member = conn[c].member
        /\ UNCHANGED <<knows, session, owner, op, mail, admitted, crossed>>
    BY UpsertMeans DEF ShapedAll, Shaped, KeepsWho
  <1>2. /\ ConnEntry(c) /\ ~Past(c)' /\ Allowed' = Allowed
        /\ conn'[c].at \in {"idle", "connected"}
    BY <1>1, UpsertMeans, EntryByConn DEF Past, Allowed
  <1>3. /\ \A x \in Pid : row[x].st = "member" => row'[x].st = "member"
        /\ conn'[c].at = "connected" => row'[conn'[c].want].st = "member" /\ session.alive
    BY <1>1, UpsertMeans DEF KeepsRow
  <1>4. ConnEntry(c)'
    <2>1. ASSUME Whose[c] \notin crossed, conn'[c].at = "connected", conn[c].member
          PROVE  conn'[c].want \in Allowed
      <3>1. /\ conn[c].want \in Allowed /\ row[conn[c].want].st = "member" /\ conn[c].want # None
        BY <1>1, <1>2, <1>3, <2>1, NoneApart DEF ConnEntry
      <3>2. conn'[c].want = conn[c].want
        BY <2>1, <3>1, UpsertMeans
      <3> QED
        BY <3>1, <3>2
    <2> QED
      BY <1>1, <1>2, <1>3, <2>1 DEF ConnEntry
  <1>5. KeepsEntrants /\ OwnerAllowed' /\ LetInAdmitted' /\ KnownAllowed'
    BY <1>1, <1>3, EntryKeepsRest
  <1> QED
    BY <1>1, <1>4, <1>5, EntryKeepsOne

\* An id registered is one that may enter.
LEMMA EntryRegister ==
  ASSUME Typed, ShapedAll, Entry, NEW c \in Conn, Register(c)
  PROVE  Entry'
  <1>1. /\ OnlyTo(c) /\ conn[c].at = "connected"
        /\ conn'[c].at = "admission" /\ conn'[c].pid = conn[c].want
        /\ conn'[c].member = conn[c].member
        /\ UNCHANGED <<knows, session, op, mail, admitted, crossed>> /\ \A x \in Pid : KeepsRow(x)
    BY RegisterMeans, RowsMeans
  <1>2. owner' = owner
    BY DEF Register, Entry, OwnerAllowed
  <1>3. ConnEntry(c) /\ ~Past(c)' /\ Allowed' = Allowed
    BY <1>1, EntryByConn DEF Past, Allowed
  <1>4. ConnEntry(c)'
    BY <1>1, <1>3 DEF ConnEntry, KeepsRow
  <1>5. KeepsEntrants /\ OwnerAllowed' /\ LetInAdmitted' /\ KnownAllowed'
    BY <1>1, <1>2, EntryKeepsRest DEF KeepsRow
  <1> QED
    BY <1>1, <1>4, <1>5, EntryKeepsOne

\* Admission lets in those who may enter.
LEMMA EntryAdmission ==
  ASSUME Typed, ShapedAll, Entry, NEW c \in Conn, Admission(c)
  PROVE  Entry'
  <1>1. /\ OnlyTo(c) /\ conn[c].at = "admission" /\ KeepsWho(c) /\ conn[c].pid \in Pid
        /\ UNCHANGED <<knows, session, owner, op, mail, crossed>>
        /\ \/ MustWait(c) /\ conn'[c].at = "idle" /\ conn'[c].pending
           \/ ~MustWait(c) /\ conn'[c].at = "complete"
    BY AdmissionMeans DEF ShapedAll, Shaped, Typed, Connection, IdOrNone
  <1>2. \A x \in Pid : row'[x].st = row[x].st
    <2>1. CASE MustWait(c)
      <3>1. row' = [row EXCEPT ![conn[c].pid].waiting = row[conn[c].pid].st # "none"]
        BY <2>1 DEF Admission
      <3> QED
        BY <1>1, <3>1, WaitsMeans DEF KeepsRow
    <2> QED
      BY <2>1 DEF Admission
  <1>3. /\ admitted \subseteq admitted'
        /\ ~MustWait(c) /\ ~conn[c].asked => conn[c].pid \in admitted'
    BY DEF Admission
  <1>4. ConnEntry(c) /\ Allowed \subseteq Allowed'
    BY <1>3, EntryByConn DEF Allowed
  <1>5. ConnEntry(c)'
    <2>1. ASSUME Whose[c] \notin crossed, ~MustWait(c) PROVE conn[c].pid \in Allowed'
      <3>1. CASE ~conn[c].asked
        BY <1>3, <2>1, <3>1 DEF Allowed
      <3>2. CASE conn[c].pid = owner
        BY <1>1, <1>4, <3>2, NoneApart DEF Entry, OwnerAllowed
      <3>3. CASE conn[c].member
        BY <1>1, <1>4, <2>1, <3>3 DEF ConnEntry
      <3> QED
        BY <2>1, <3>1, <3>2, <3>3 DEF MustWait
    <2> QED
      BY <1>1, <2>1 DEF ConnEntry, Past, KeepsWho
  <1>6. KeepsEntrants /\ OwnerAllowed' /\ LetInAdmitted' /\ KnownAllowed'
    BY <1>1, <1>2, <1>3, EntryKeepsRest
  <1> QED
    BY <1>1, <1>5, <1>6, EntryKeepsOne

\* The welcome lets nobody in.
LEMMA EntryComplete ==
  ASSUME Typed, ShapedAll, Entry, NEW c \in Conn, Complete(c)
  PROVE  Entry'
  <1>1. /\ OnlyTo(c) /\ conn[c].at = "complete" /\ ~conn[c].pending /\ conn[c].pid # None
        /\ conn'[c].pid = conn[c].pid /\ conn'[c].at \in {"idle", "access"}
        /\ UNCHANGED <<rows, op, mail, admitted, crossed>>
        /\ knows' = knows \/ knows' = [knows EXCEPT ![Whose[c]] = conn[c].pid]
    BY CompleteMeans DEF ShapedAll, Shaped, KeepsWho
  <1>2. UNCHANGED <<row, session, owner>>
    BY <1>1 DEF rows
  <1>3. Past(c) /\ KeepsEntry(c) /\ ConnEntry(c) /\ Allowed' = Allowed
    BY <1>1, EntryByConn DEF Past, KeepsEntry, Allowed
  <1>4. KnownAllowed'
    BY <1>1, <1>3 DEF ConnEntry, Entry, KnownAllowed, Typed
  <1>5. KeepsEntrants
    BY <1>1, <1>2 DEF KeepsEntrants
  <1>6. OwnerAllowed' /\ LetInAdmitted'
    BY <1>1, <1>2, <1>3 DEF Entry, OwnerAllowed, LetInAdmitted, LetInUnderWay
  <1> QED
    BY <1>1, <1>3, <1>4, <1>5, <1>6, ConnEntryKeeps, EntryKeepsOne

\* An event lets in those who were admitted.
LEMMA EntryDeliver ==
  ASSUME Typed, ShapedAll, Entry, NEW m \in mail, Deliver(m)
  PROVE  Entry'
  <1>0. PICK c \in Conn : c = m.to
    BY DEF Typed
  <1>1. /\ OnlyTo(c) /\ UNCHANGED <<rows, knows, op, admitted>> /\ mail' = mail \ {m}
        /\ conn'[c].pid = conn[c].pid /\ conn'[c].member = conn[c].member /\ conn'[c].want = conn[c].want
        /\ conn'[c].pending = StillPending(c, m)
        /\ conn'[c].at = (IF Decides(c, m) /\ m.what = "let in" THEN "complete" ELSE conn[c].at)
    BY <1>0, DeliverMeans DEF KeepsWho
  <1>2. UNCHANGED <<row, session, owner>> /\ crossed \subseteq crossed'
    BY <1>1 DEF rows, Deliver, Overlaps
  <1>3. ConnEntry(c) /\ Allowed' = Allowed
    BY <1>1, EntryByConn DEF Allowed
  <1>4. KeepsEntrants /\ OwnerAllowed' /\ LetInAdmitted' /\ KnownAllowed'
    BY <1>1, <1>2, EntryKeepsRest
  <1>5. ConnEntry(c)'
    <2>1. CASE Decides(c, m) /\ m.what = "let in"
      <3>1. conn[c].pid = m.pid /\ m.pid \in Pid
        BY <2>1 DEF Decides, Mine, ShapedAll, Shaped, Typed, Connection, IdOrNone
      <3>2. conn[c].pid \in Allowed
        BY <2>1, <3>1 DEF Entry, LetInAdmitted, LetInUnderWay, Allowed
      <3> QED
        BY <1>1, <1>3, <2>1, <3>2 DEF ConnEntry
    <2>2. CASE ~(Decides(c, m) /\ m.what = "let in")
      <3>1. KeepsEntry(c)
        BY <1>1, <2>2 DEF KeepsEntry, Past, StillPending
      <3> QED
        BY <1>3, <1>4, <3>1, ConnEntryKeeps
    <2> QED
      BY <2>1, <2>2
  <1> QED
    BY <1>1, <1>4, <1>5, EntryKeepsOne

\* A step of a connection that is past, or stays where it is.
LEMMA EntryOther ==
  ASSUME Typed, Entry, NEW c \in Conn, OnlyTo(c), KeepsEntry(c),
         UNCHANGED <<session, owner, op, knows, mail, admitted>>, crossed \subseteq crossed',
         \A x \in Pid : KeepsRow(x)
  PROVE  Entry'
  <1>1. KeepsEntrants /\ OwnerAllowed' /\ LetInAdmitted' /\ KnownAllowed'
    BY EntryKeepsRest DEF KeepsRow
  <1>2. ConnEntry(c)'
    BY <1>1, EntryByConn, ConnEntryKeeps
  <1> QED
    BY <1>1, <1>2, EntryKeepsOne


\* A request changes no connection and no id a browser knows.
LEMMA EntryRequest ==
  ASSUME Typed, ShapedAll, Held, Entry, OwnerStep
  PROVE  Entry'
  <1> USE DEF Does, Says
  <1>0. UNCHANGED <<conn, knows>>
    BY DEF OwnerStep, RemovePerson, Ban, HandOver, Decide, SetWaitingRoom, DeleteRoom, EndSession,
       DeleteSession, Announce, RotateCode, rows
  <1>1. ASSUME crossed \subseteq crossed', admitted \subseteq admitted', OwnerAllowed', LetInAdmitted',
               session'.alive => session.alive /\ \A c \in Conn, x \in Pid :
                  Whose[c] \notin crossed' /\ Entering(c, x) /\ row[x].st = "member" => row'[x].st = "member",
               session'.changed => session.changed \/ \A c \in Conn : conn[c].at = "upsert" => Whose[c] \in crossed'
        PROVE  Entry'
    <2>1. KeepsEntrants /\ \A c \in Conn : KeepsEntry(c) /\ ConnEntry(c)
      BY <1>0, <1>1, SameEntry, EntryByConn DEF KeepsEntrants
    <2>2. \A c \in Conn : ConnEntry(c)'
      BY <2>1, ConnEntryKeeps
    <2>3. KnownAllowed'
      BY <1>0, <1>1 DEF Entry, KnownAllowed, Allowed
    <2>4. MemberAllowed' /\ PastAllowed'
      BY <2>2 DEF ConnEntry, Past, MemberAllowed, PastAllowed
    <2>5. ChangedForMembers' /\ EnteringIsMember'
      BY <2>2 DEF ConnEntry, ChangedForMembers, EnteringIsMember
    <2> QED
      BY <1>1, <2>3, <2>4, <2>5 DEF Entry
  \* Most leave the owner, and admit at most who it let in.
  <1>2. ASSUME crossed \subseteq crossed', admitted \subseteq admitted',
               owner' = owner, session' = session,
               \A x \in Pid : LetInUnderWay(x)' => LetInUnderWay(x) \/ x \in admitted',
               \A c \in Conn, x \in Pid :
                  Whose[c] \notin crossed' /\ Entering(c, x) /\ row[x].st = "member" => row'[x].st = "member"
        PROVE  Entry'
    <2>1. OwnerAllowed' /\ LetInAdmitted'
      BY <1>2 DEF Entry, OwnerAllowed, LetInAdmitted, Allowed
    <2> QED
      BY <1>1, <1>2, <2>1
  <1>3. ASSUME NEW i \in Pid, RemovePerson(i) PROVE Entry'
    <2>1. \A x \in Pid : LetInUnderWay(x)' => LetInUnderWay(x)
      BY <1>3 DEF RemovePerson, LetInUnderWay
    <2>2. crossed \subseteq crossed' /\ (PersonBusy(i[1]) => i[1] \in crossed')
      BY <1>3 DEF RemovePerson, Overlaps
    <2>3. ASSUME NEW c \in Conn, Entering(c, i) PROVE Whose[c] \in crossed'
      <3>1. Whose[c] = i[1] /\ conn[c].at # "idle"
        BY <2>3 DEF Entering, ShapedAll, Shaped
      <3> QED
        BY <2>2, <3>1 DEF PersonBusy, Busy, Threads
    <2>4. \A x \in Pid \ {i} : KeepsRow(x)
      BY <1>3, TakeOutMeans DEF RemovePerson
    <2>5. /\ owner' = owner /\ session' = session /\ admitted' = admitted
          /\ \A c \in Conn, x \in Pid :
               Whose[c] \notin crossed' /\ Entering(c, x) /\ row[x].st = "member" => row'[x].st = "member"
      BY <1>3, <2>3, <2>4 DEF RemovePerson, KeepsRow
    <2> QED
      BY <1>2, <2>1, <2>2, <2>5
  <1>4. ASSUME NEW i \in Pid, Decide(i, FALSE) PROVE Entry'
    <2>1. \A x \in Pid : LetInUnderWay(x)' => LetInUnderWay(x)
      BY <1>4 DEF Decide, LetInUnderWay
    <2>2. /\ TakeOut(i) /\ row[i].waiting
          /\ UNCHANGED <<owner, session, admitted, crossed>>
      BY <1>4 DEF Decide
    <2>3. \A c \in Conn : ~Entering(c, i)
      BY <2>2 DEF Entering, Held, WaitingHeldByPending, Holds, Brings, ShapedAll, Shaped
    <2>4. \A c \in Conn, x \in Pid : Entering(c, x) /\ row[x].st = "member" => row'[x].st = "member"
      BY <2>2, <2>3, TakeOutMeans DEF KeepsRow
    <2> QED
      BY <1>2, <2>1, <2>2, <2>4
  <1>5. ASSUME NEW i \in Pid, Decide(i, TRUE) PROVE Entry'
    <2>1. \A x \in Pid : LetInUnderWay(x)' => LetInUnderWay(x) \/ x \in admitted'
      BY <1>5 DEF Decide, LetInUnderWay
    <2>2. /\ row' = [row EXCEPT ![i].waiting = FALSE]
          /\ UNCHANGED <<owner, session, crossed>> /\ admitted \subseteq admitted'
      BY <1>5 DEF Decide
    <2>3. \A x \in Pid : row'[x].st = row[x].st
      BY <2>2, WaitsMeans DEF KeepsRow
    <2> QED
      BY <1>2, <2>1, <2>2, <2>3
  <1>6. CASE DeleteSession
    <2>1. ~session'.alive /\ session'.changed = session.changed
      BY <1>6 DEF DeleteSession, Typed
    <2>2. owner' = None /\ UNCHANGED <<admitted, crossed, mail>> /\ op'.st = "idle"
      BY <1>6 DEF DeleteSession
    <2>3. OwnerAllowed' /\ LetInAdmitted'
      BY <2>1, <2>2 DEF OwnerAllowed, Entry, LetInAdmitted, LetInUnderWay
    <2> QED
      BY <1>1, <2>1, <2>2, <2>3
  <1>7. ASSUME NEW i \in Pid, Ban(i) PROVE Entry'
    <2>1. crossed \subseteq crossed' /\ UNCHANGED <<owner, session, row, admitted>>
      BY <1>7 DEF Ban, Overlaps
    <2>2. \A x \in Pid : LetInUnderWay(x)' => LetInUnderWay(x)
      BY <1>7 DEF Ban, LetInUnderWay
    <2> QED
      BY <1>2, <2>1, <2>2
  <1>8. ASSUME NEW i \in Pid, HandOver(i) PROVE Entry'
    <2>1. /\ owner' = i /\ admitted' = admitted \cup {i} /\ session.alive
          /\ UNCHANGED <<session, row, op, mail, crossed>>
      BY <1>8 DEF HandOver
    <2>2. OwnerAllowed' /\ LetInAdmitted'
      BY <2>1, NoneApart DEF Entry, OwnerAllowed, LetInAdmitted, LetInUnderWay, Allowed
    <2> QED
      BY <1>1, <2>1, <2>2
  <1>9. CASE SetWaitingRoom
    <2>1. session'.alive = session.alive /\ session'.changed = session.changed
      BY <1>9 DEF SetWaitingRoom, Typed
    <2>2. UNCHANGED <<owner, row, op, mail, crossed, admitted>>
      BY <1>9 DEF SetWaitingRoom
    <2>3. OwnerAllowed' /\ LetInAdmitted'
      BY <2>1, <2>2 DEF Entry, OwnerAllowed, LetInAdmitted, LetInUnderWay, Allowed
    <2> QED
      BY <1>1, <2>1, <2>2, <2>3
  <1>10. CASE DeleteRoom
    <2>1. UNCHANGED <<owner, session, op, mail, crossed, admitted>>
      BY <1>10 DEF DeleteRoom
    <2>2. \A x \in Pid : row'[x].st = row[x].st
      BY <1>10, DeleteRoomMeans DEF KeepsRow
    <2> QED
      BY <1>2, <2>1, <2>2 DEF LetInUnderWay
  <1>11. CASE EndSession
    <2>1. /\ UNCHANGED <<owner, session, row, crossed, admitted>> /\ op'.st = "ending"
          /\ Publish("session", "ended", None) /\ "session" \in Scopes
      BY <1>11 DEF EndSession, rows, Scopes
    <2>2. \A m \in mail' : m \in mail \/ m.what = "ended"
      BY <2>1, PublishMeans DEF Events, IdOrNone
    <2>3. \A x \in Pid : LetInUnderWay(x)' => LetInUnderWay(x)
      BY <2>1, <2>2 DEF LetInUnderWay
    <2> QED
      BY <1>2, <2>1, <2>3
  <1>12. CASE Announce
    <2>1. UNCHANGED <<owner, session, row, crossed, admitted>> /\ op'.st # "let in"
      BY <1>12 DEF Announce, rows
    <2>3. \A m \in mail' : m \in mail \/ (m.what = op.st /\ m.pid = op.pid)
      BY <1>12, AnnounceMeans
    <2>4. \A x \in Pid : LetInUnderWay(x)' => LetInUnderWay(x)
      BY <2>1, <2>3 DEF LetInUnderWay
    <2> QED
      BY <1>2, <2>1, <2>4
  <1>13. CASE RotateCode
    <2>1. session'.alive = session.alive
      BY <1>13 DEF RotateCode, Typed
    <2>2. /\ UNCHANGED <<owner, row, mail, admitted>> /\ op'.st = "idle"
          /\ crossed' = crossed \cup {Whose[c] : c \in {d \in Conn : conn[d].at = "upsert"}}
      BY <1>13 DEF RotateCode
    <2>3. OwnerAllowed' /\ LetInAdmitted'
      BY <2>1, <2>2 DEF Entry, OwnerAllowed, LetInAdmitted, LetInUnderWay, Allowed
    <2>4. crossed \subseteq crossed' /\ \A c \in Conn : conn[c].at = "upsert" => Whose[c] \in crossed'
      BY <2>2
    <2> QED
      BY <1>1, <2>1, <2>2, <2>3, <2>4
  <1> QED
    BY <1>3, <1>4, <1>5, <1>6, <1>7, <1>8, <1>9, <1>10, <1>11, <1>12, <1>13 DEF OwnerStep

\* Every step keeps Entry.
LEMMA EntryStep == Typed /\ ShapedAll /\ Held /\ Entry /\ [Next]_vars => Entry'
  <1> SUFFICES ASSUME Typed, ShapedAll, Held, Entry, [Next]_vars PROVE Entry'
    OBVIOUS
  <1> USE DEF KeepsWho, KeepsLife, KeepsPlace
  <1>0. /\ \A c \in Conn : Shaped(c)
        /\ UNCHANGED rows => UNCHANGED <<session, owner, row>>
        /\ row' = row => \A x \in Pid : KeepsRow(x)
    BY DEF ShapedAll, rows, KeepsRow
  <1>1. ASSUME NEW c \in Conn, \/ Connect(c) \/ Upsert(c) \/ Register(c) \/ Admission(c) \/ Complete(c)
        PROVE  Entry'
    BY <1>1, EntryConnect, EntryUpsert, EntryRegister, EntryAdmission, EntryComplete
  <1>2. ASSUME NEW c \in Conn, Access(c) \/ Move(c) \/ Enter(c) \/ SayJoined(c) PROVE Entry'
    <2>1. /\ OnlyTo(c) /\ UNCHANGED <<session, owner, op, knows, mail, admitted, crossed>>
          /\ \A x \in Pid : KeepsRow(x)
      BY <1>0, <1>2, AccessMeans, MoveMeans, EnterMeans, SayJoinedMeans
    <2>2. /\ conn[c].at \in {"access", "move", "enter", "joined"}
          /\ conn'[c].at \in {"idle", "move", "enter", "joined"}
          /\ conn'[c].pid = conn[c].pid /\ conn'[c].pending = conn[c].pending
      BY <1>2, AccessMeans, MoveMeans, EnterMeans, SayJoinedMeans
    <2>3. KeepsEntry(c)
      BY <2>2 DEF KeepsEntry, Past
    <2> QED
      BY <2>1, <2>3, EntryOther
  <1>3. ASSUME NEW c \in Conn, CloseStep(c) \/ Close(c) PROVE Entry'
    <2>1. OnlyTo(c) /\ UNCHANGED <<session, op, mail, knows, admitted>> /\ \A x \in Pid : KeepsRow(x)
      BY <1>3, <1>0, CloseGoneMeans, DisconnectMeans, CloseLeaveMeans, UnregisterMeans, CloseMeans, RowsMeans
         DEF CloseStep
    <2>2. /\ conn'[c].pid = conn[c].pid /\ conn'[c].member = conn[c].member
          /\ conn'[c].at = conn[c].at /\ conn'[c].want = conn[c].want
          /\ conn'[c].pending = conn[c].pending
      BY ZenonT(60), <1>3, CloseGoneMeans, DisconnectMeans, CloseLeaveMeans, UnregisterMeans, CloseMeans DEF CloseStep
    <2>3. owner' = owner /\ crossed \subseteq crossed'
      BY <1>3 DEF CloseStep, CloseGone, Disconnect, CloseLeave, Unregister, Close, rows
    <2>4. KeepsEntry(c)
      BY <2>2 DEF KeepsEntry, Past
    <2> QED
      BY <2>1, <2>3, <2>4, EntryOther
  <1>4. ASSUME NEW c \in Conn, NEW k \in Rooms, NEW code \in BOOLEAN, AskRoom(c, k, code)
        PROVE  Entry'
    <2>1. /\ conn[c].at = "idle" /\ conn'[c].at = "access"
          /\ conn'[c].pid = conn[c].pid /\ conn'[c].pending = conn[c].pending
      BY <1>4, AskRoomMeans DEF MayAsk
    <2>2. KeepsEntry(c)
      BY <2>1 DEF KeepsEntry, Past
    <2>3. crossed \subseteq crossed'
      BY <1>4 DEF AskRoom, Overlaps
    <2> QED
      BY <1>0, <1>4, <2>2, <2>3, AskRoomMeans, EntryOther
  <1>5. ASSUME NEW m \in mail, Deliver(m) PROVE Entry'
    BY <1>5, EntryDeliver
  <1>6. CASE OwnerStep
    BY <1>6, EntryRequest
  <1>7. CASE \/ \E c \in Conn, s \in Scopes : Expire(c, s)
             \/ \E e \in exits : Gone(e) \/ SayLeft(e)
             \/ UNCHANGED vars
    <2>1. UNCHANGED <<session, owner, row, op, mail, knows, conn, crossed, admitted>>
      BY <1>7 DEF Expire, Gone, SayLeft, vars, rows
    <2>2. \A x \in Pid : LetInUnderWay(x)' = LetInUnderWay(x)
      BY <2>1 DEF LetInUnderWay
    <2> QED
      BY <2>1, <2>2 DEF Entry, OwnerAllowed, LetInAdmitted, KnownAllowed, MemberAllowed, PastAllowed,
         ChangedForMembers, EnteringIsMember, Allowed
  <1> QED
    BY <1>1, <1>2, <1>3, <1>4, <1>5, <1>6, <1>7 DEF Next, FrameStep

\* Init has it.
LEMMA EntryInit == Init => Entry
  <1> SUFFICES ASSUME Init PROVE Entry
    OBVIOUS
  <1>1. /\ \A c \in Conn : conn[c] = NewConn
        /\ session.alive /\ mail = {} /\ op.st = "idle" /\ owner = <<Host, 1>>
        /\ \A p \in Person : knows[p] # None => knows[p] = <<Host, 1>>
    BY DEF Init
  <1>2. OwnerAllowed /\ LetInAdmitted /\ KnownAllowed
    BY <1>1, SocketsAssumption DEF OwnerAllowed, LetInAdmitted, LetInUnderWay, KnownAllowed, Allowed, Pid
  <1>3. \A c \in Conn : conn[c].at = "idle" /\ conn[c].pid = None
    BY <1>1 DEF NewConn
  <1>4. MemberAllowed /\ PastAllowed /\ ChangedForMembers /\ EnteringIsMember
    BY <1>3 DEF MemberAllowed, PastAllowed, ChangedForMembers, EnteringIsMember
  <1> QED
    BY <1>2, <1>4 DEF Entry


-----------------------------------------------------------------------------
(* Who has to go, and who still has to hear.                               *)

Waits(x) == row[x].st = "member" /\ row[x].waiting
Decided(x) == op.st \in {"removed", "let in", "turned away"} /\ op.pid = x
Leaving(x, what) == op.st = what /\ op.pid = x
Inside(c) == conn[c].room # None \/ conn[c].at = "move"
Moves(c) == conn[c].at \in {"move", "enter", "joined"}

\* The parts of Going, for one connection.
Registered(c) == conn[c].room # None => \/ conn[c].at = "enter" /\ conn[c].want = conn[c].room
                                        \/ c \in registry[conn[c].room]
GoesRemoved(c) == \A x \in Pid :
    conn[c].pid = x /\ row[x].st = "removed" /\ conn[c].st = "open" /\ Inside(c)
        => conn[c].closing \/ Told(c, "removed", x) \/ Leaving(x, "removed")
GoesBanned(c) == \A x \in bans : conn[c].pid = x /\ x[1] \notin crossed =>
    /\ Moves(c) => conn[c].want # "side"
    /\ conn[c].room = "side" /\ conn[c].st = "open" => Told(c, "banned", x) \/ Leaving(x, "banned")
StillDecided(c) ==
    session.alive /\ conn[c].pending /\ conn[c].st = "open" /\ Whose[c] \notin crossed =>
        conn[c].closing \/ WillHear(c) \/ Waits(conn[c].pid) \/ Decided(conn[c].pid)
ConnGoing(c) == Registered(c) /\ GoesRemoved(c) /\ GoesBanned(c) /\ StillDecided(c)

\* Going, one connection at a time.
LEMMA GoingToConn == Going => \A c \in Conn : ConnGoing(c)
  BY DEF Going, ConnGoing, Registered, GoesRemoved, GoesBanned, StillDecided, InItsRegistry, RemovedGoing,
     BannedGoing, WaitingOnDecision, Waits, Decided, Leaving, Inside, Moves

\* ...and back.
LEMMA GoingFromConn == ASSUME \A c \in Conn : ConnGoing(c)' PROVE Going'
  <1>1. InItsRegistry' /\ RemovedGoing'
    BY DEF ConnGoing, Registered, GoesRemoved, InItsRegistry, RemovedGoing, Leaving, Inside
  <1>2. BannedGoing'
    BY DEF ConnGoing, GoesBanned, BannedGoing, Leaving, Moves
  <1>3. WaitingOnDecision'
    BY DEF ConnGoing, StillDecided, WaitingOnDecision, Waits, Decided
  <1> QED
    BY <1>1, <1>2, <1>3 DEF Going

\* What the steps of connections leave.
KeepsGoers ==
    /\ UNCHANGED <<session, bans, op>> /\ crossed \subseteq crossed'
    /\ \A x \in Pid : /\ row'[x].st = "removed" => row[x].st = "removed"
                      /\ Waits(x) => Waits(x)'
\* The connection gets nowhere new, and is still told what it was to be told.
KeepsGoing(c) ==
    /\ conn'[c].pid = conn[c].pid /\ (conn'[c].pending => conn[c].pending)
    /\ conn'[c].st = "open" => conn[c].st = "open" /\ (conn[c].closing => conn'[c].closing)
    /\ conn'[c].room # None =>
          /\ conn'[c].room = conn[c].room
          /\ c \in registry[conn[c].room] => c \in registry'[conn[c].room]
          /\ conn[c].at = "enter" /\ conn[c].want = conn[c].room =>
                (conn'[c].at = "enter" /\ conn'[c].want = conn[c].want) \/ c \in registry'[conn[c].room]
    /\ conn'[c].at = "move" => conn[c].at = "move"
    /\ Moves(c)' => Moves(c) /\ conn'[c].want = conn[c].want
    /\ \A m \in mail : m.to = c => m \in mail'

\* A connection that did not change still goes.
LEMMA ConnGoingKeeps ==
  ASSUME Typed, NEW c \in Conn, ConnGoing(c), KeepsGoing(c), KeepsGoers,
         conn[c].pid = None => ~conn[c].pending
  PROVE  ConnGoing(c)'
  <1>1. \A what, x : Told(c, what, x) => Told(c, what, x)'
    BY DEF Told, KeepsGoing
  <1>2. WillHear(c) => WillHear(c)'
    BY DEF WillHear, KeepsGoing
  <1>3. \A x, what : (Leaving(x, what)' = Leaving(x, what)) /\ (Decided(x)' = Decided(x))
    BY DEF KeepsGoers, Leaving, Decided
  <1>4. Registered(c)'
    BY DEF ConnGoing, Registered, KeepsGoing
  <1>5. GoesRemoved(c)'
    BY <1>1, <1>3 DEF ConnGoing, GoesRemoved, KeepsGoing, KeepsGoers, Inside
  <1>6. GoesBanned(c)'
    BY <1>1, <1>3, NoneApart DEF ConnGoing, GoesBanned, KeepsGoing, KeepsGoers, Rooms
  <1>7. StillDecided(c)'
    <2>1. conn[c].pending => conn[c].pid \in Pid
      BY DEF Typed, Connection, IdOrNone
    <2> QED
      BY <1>2, <1>3, <2>1 DEF ConnGoing, StillDecided, KeepsGoing, KeepsGoers
  <1> QED
    BY <1>4, <1>5, <1>6, <1>7 DEF ConnGoing

\* A step of one connection.
LEMMA GoingOne ==
  ASSUME Typed, ShapedAll, Going, NEW c \in Conn, OnlyTo(c), ConnGoing(c)', KeepsGoers,
         \A k \in Rooms : registry[k] \ {c} \subseteq registry'[k],
         \A m \in mail : m.to # c => m \in mail'
  PROVE  Going'
  <1>1. ASSUME NEW d \in Conn PROVE ConnGoing(d)'
    <2>1. CASE d # c
      <3>1. conn'[d] = conn[d] /\ ConnGoing(d) /\ Shaped(d)
        BY <2>1, GoingToConn DEF OnlyTo, ShapedAll
      <3>2. conn[d].room \in Rooms \cup {None}
        BY DEF Typed, Connection
      <3>3. KeepsGoing(d)
        BY <2>1, <3>1, <3>2 DEF KeepsGoing, Moves
      <3>4. conn[d].pid = None => ~conn[d].pending
        BY <3>1 DEF Shaped
      <3> QED
        BY <3>1, <3>3, <3>4, ConnGoingKeeps
    <2> QED
      BY <2>1
  <1> QED
    BY <1>1, GoingFromConn

\* The usual step of a connection.
LEMMA GoingOther ==
  ASSUME Typed, ShapedAll, Going, NEW c \in Conn, OnlyTo(c), KeepsGoing(c), KeepsGoers,
         \A k \in Rooms : registry[k] \ {c} \subseteq registry'[k], mail' = mail
  PROVE  Going'
  <1>1. conn[c].pid = None => ~conn[c].pending
    BY DEF ShapedAll, Shaped
  <1>2. ConnGoing(c)'
    BY <1>1, GoingToConn, ConnGoingKeeps
  <1> QED
    BY <1>2, GoingOne

\* A step that changes no row and no decision.
LEMMA GoersKept ==
  ASSUME UNCHANGED <<session, bans, op>>, crossed \subseteq crossed', \A x \in Pid : KeepsRow(x)
  PROVE  KeepsGoers
  BY DEF KeepsGoers, KeepsRow, Waits


\* Whoever asks for a room still goes.
LEMMA GoingAccess ==
  ASSUME Typed, ShapedAll, Going, NEW c \in Conn, Access(c)
  PROVE  Going'
  <1>1. /\ conn[c].at = "access" /\ UNCHANGED <<session, row, bans, op, mail, crossed>>
        /\ OnlyTo(c) /\ conn'[c].pid = conn[c].pid /\ conn'[c].pending = conn[c].pending
        /\ conn'[c].st = conn[c].st /\ conn'[c].closing = conn[c].closing
        /\ conn'[c].want = conn[c].want
    BY AccessMeans DEF KeepsWho, KeepsLife
  <1>2. KeepsGoers /\ ConnGoing(c) /\ ~conn[c].pending
    BY <1>1, GoersKept, GoingToConn DEF KeepsRow, ShapedAll, Shaped
  <1>3. CASE conn'[c].at = "idle" /\ conn'[c].room = conn[c].room /\ UNCHANGED registry
    <2>1. KeepsGoing(c)
      BY <1>1, <1>3 DEF KeepsGoing, Moves
    <2> QED
      BY <1>1, <1>2, <1>3, <2>1, GoingOther
  <1>4. CASE ~(conn'[c].at = "idle" /\ conn'[c].room = conn[c].room /\ UNCHANGED registry)
    <2>1. /\ conn'[c].at = "move" /\ conn[c].want \in rooms
          /\ MayEnter(conn[c].pid, conn[c].want, conn[c].code)
          /\ \/ conn'[c].room = conn[c].room /\ UNCHANGED registry
             \/ conn'[c].room = None /\ Out(c, "switch")
      BY <1>4, AccessMeans
    <2>2. Current(conn[c].pid) /\ (conn[c].want = "side" => conn[c].pid \notin bans)
      BY <2>1 DEF MayEnter
    <2>3. \A k \in Rooms : registry[k] \ {c} \subseteq registry'[k]
      BY <2>1, OutRegistry
    <2>4. Registered(c)'
      BY <1>1, <1>2, <2>1 DEF ConnGoing, Registered
    <2>5. GoesRemoved(c)'
      BY <1>1, <2>2 DEF GoesRemoved, Current
    <2>6. GoesBanned(c)'
      <3>1. ASSUME NEW x \in bans, conn[c].pid = x, x[1] \notin crossed, conn'[c].room = "side",
                   conn[c].st = "open"
            PROVE  Told(c, "banned", x) \/ Leaving(x, "banned")
        BY <1>2, <2>1, <3>1, NoneApart DEF ConnGoing, GoesBanned, Rooms
      <3> QED
        BY <1>1, <2>2, <3>1 DEF GoesBanned, Told, Leaving
    <2>7. StillDecided(c)'
      BY <1>1, <1>2 DEF StillDecided
    <2> QED
      BY <1>1, <1>2, <2>3, <2>4, <2>5, <2>6, <2>7, GoingOne DEF ConnGoing
  <1> QED
    BY <1>3, <1>4

\* Whoever moves still goes.
LEMMA GoingMove ==
  ASSUME Typed, ShapedAll, Going, NEW c \in Conn, Move(c)
  PROVE  Going'
  <1>1. /\ conn[c].at = "move" /\ UNCHANGED <<session, bans, op, mail, crossed, registry>>
        /\ OnlyTo(c) /\ conn'[c].pid = conn[c].pid /\ conn'[c].pending = conn[c].pending
        /\ conn'[c].st = conn[c].st /\ conn'[c].closing = conn[c].closing
        /\ conn'[c].want = conn[c].want /\ \A x \in Pid : KeepsRow(x)
    BY MoveMeans DEF KeepsWho, KeepsLife
  <1>2. KeepsGoers /\ ConnGoing(c) /\ ~conn[c].pending
    BY <1>1, GoersKept, GoingToConn DEF ShapedAll, Shaped
  <1>3. CASE conn'[c].at = "idle" /\ conn'[c].room = conn[c].room
    <2>1. KeepsGoing(c)
      BY <1>1, <1>3 DEF KeepsGoing, Moves
    <2> QED
      BY <1>1, <1>2, <2>1, GoingOther
  <1>4. CASE conn'[c].at = "enter" /\ conn'[c].room = conn[c].want
    <2>1. Registered(c)' /\ StillDecided(c)'
      BY <1>1, <1>2, <1>4 DEF Registered, StillDecided
    <2>2. GoesRemoved(c)'
      BY <1>1, <1>2 DEF ConnGoing, GoesRemoved, Inside, Told, Leaving, KeepsRow
    <2>3. GoesBanned(c)'
      BY <1>1, <1>2, <1>4 DEF ConnGoing, GoesBanned, Moves
    <2> QED
      BY <1>1, <1>2, <2>1, <2>2, <2>3, GoingOne DEF ConnGoing
  <1> QED
    BY <1>3, <1>4, MoveMeans

\* The row says that it waits, for a connection that is not crossed.
LEMMA GoingAdmission ==
  ASSUME Typed, ShapedAll, JoiningOutside, Entry, Going, NEW c \in Conn, Admission(c)
  PROVE  Going'
  <1>1. /\ conn[c].at = "admission" /\ UNCHANGED <<session, bans, op, mail, crossed, registry>>
        /\ OnlyTo(c) /\ conn'[c].pid = conn[c].pid /\ conn'[c].room = conn[c].room
        /\ conn'[c].at \in {"idle", "complete"}
        /\ (conn'[c].pending => MustWait(c) \/ conn[c].pending)
        /\ conn'[c].st = conn[c].st /\ conn'[c].closing = conn[c].closing
    BY AdmissionMeans DEF KeepsWho, KeepsLife, Admission
  <1>2. conn[c].pid \in Pid /\ conn[c].room = None /\ ~conn[c].pending
    BY <1>1 DEF ShapedAll, Shaped, Typed, Connection, IdOrNone, JoiningOutside, Joining, OutOfRooms
  <1> DEFINE i == conn[c].pid
  <1>3. /\ \A x \in Pid \ {i} : KeepsRow(x)
        /\ row'[i].st = row[i].st
        /\ row'[i].waiting = IF MustWait(c) THEN row[i].st # "none" ELSE row[i].waiting
    <2>1. CASE MustWait(c)
      <3>1. row' = [row EXCEPT ![i].waiting = row[i].st # "none"]
        BY <2>1 DEF Admission
      <3> QED
        BY <1>2, <2>1, <3>1, WaitsMeans
    <2>2. CASE ~MustWait(c)
      <3>1. row' = row
        BY <2>2 DEF Admission
      <3> QED
        BY <2>2, <3>1 DEF KeepsRow
    <2> QED
      BY <2>1, <2>2
  <1>4. session.alive /\ Whose[c] \notin crossed => row[i].st = "member"
    BY <1>1, <1>2 DEF Entry, EnteringIsMember
  <1>6. i \in Pid /\ conn'[c].pid = i
    BY <1>1, <1>2
  <1> HIDE DEF i
  <1>5. KeepsGoers
    BY <1>1, <1>3 DEF KeepsGoers, Waits, KeepsRow
  <1>7. Registered(c)' /\ GoesRemoved(c)'
    BY <1>1, <1>2 DEF Registered, GoesRemoved, Inside
  <1>8. GoesBanned(c)'
    BY <1>1, <1>2, NoneApart DEF GoesBanned, Moves, Rooms
  <1>9. StillDecided(c)'
    BY <1>1, <1>2, <1>3, <1>4, <1>6 DEF StillDecided, Waits
  <1> QED
    BY <1>1, <1>5, <1>7, <1>8, <1>9, GoingOne DEF ConnGoing

\* An event that arrives has its effect.
LEMMA GoingDeliver ==
  ASSUME Typed, ShapedAll, Going, NEW m \in mail, Deliver(m)
  PROVE  Going'
  <1>0. PICK c \in Conn : c = m.to
    BY DEF Typed
  <1>1. /\ OnlyTo(c) /\ UNCHANGED <<rows, op>> /\ mail' = mail \ {m}
        /\ conn'[c].pid = conn[c].pid /\ conn'[c].want = conn[c].want /\ conn'[c].st = conn[c].st
        /\ conn'[c].closing = (conn[c].closing \/ Removes(c, m) \/ Ends(c, m)
                                   \/ (Decides(c, m) /\ m.what = "turned away"))
        /\ conn'[c].room = (IF Bans(c, m) THEN None ELSE conn[c].room)
        /\ conn'[c].pending = StillPending(c, m)
        /\ conn'[c].at = (IF Decides(c, m) /\ m.what = "let in" THEN "complete" ELSE conn[c].at)
    BY <1>0, DeliverMeans DEF KeepsWho
  <1>2. UNCHANGED <<row, session, bans>> /\ crossed \subseteq crossed'
    BY <1>1 DEF rows, Deliver, Overlaps
  <1>3. /\ KeepsGoers /\ ConnGoing(c) /\ (conn[c].pending => conn[c].pid # None /\ conn[c].at = "idle")
        /\ conn[c].room \in Rooms \cup {None}
    BY <1>1, <1>2, GoersKept, GoingToConn DEF ShapedAll, Shaped, KeepsRow, Typed, Connection
  <1>4. /\ \A k \in Rooms : registry[k] \ {c} \subseteq registry'[k]
        /\ ~Bans(c, m) => UNCHANGED registry
    BY <1>0, OutRegistry DEF Deliver
  <1>5. Registered(c)'
    BY <1>1, <1>3, <1>4 DEF ConnGoing, Registered, Decides
  <1>6. GoesRemoved(c)'
    <2>1. ASSUME NEW x \in Pid, conn[c].pid = x, row[x].st = "removed", conn[c].st = "open", Inside(c)'
          PROVE  conn'[c].closing \/ Told(c, "removed", x)' \/ Leaving(x, "removed")'
      <3>1. conn[c].closing \/ Told(c, "removed", x) \/ Leaving(x, "removed")
        BY <1>1, <1>3, <2>1 DEF ConnGoing, GoesRemoved, Inside
      <3>2. Told(c, "removed", x) => Told(c, "removed", x)' \/ Removes(c, m)
        BY <1>0, <1>1, <2>1 DEF Told, Removes, Mine
      <3> QED
        BY <1>1, <3>1, <3>2 DEF Leaving
    <2> QED
      BY <1>1, <1>2, <2>1 DEF GoesRemoved
  <1>7. GoesBanned(c)'
    <2>1. ASSUME NEW x \in bans, conn[c].pid = x, x[1] \notin crossed', conn'[c].room = "side",
                 conn[c].st = "open"
          PROVE  Told(c, "banned", x)' \/ Leaving(x, "banned")'
      <3>1. conn[c].room = "side" /\ ~Bans(c, m)
        BY <1>1, <2>1, NoneApart DEF Rooms
      <3>2. Told(c, "banned", x) \/ Leaving(x, "banned")
        BY <1>2, <1>3, <2>1, <3>1 DEF ConnGoing, GoesBanned
      <3>3. Told(c, "banned", x) => Told(c, "banned", x)'
        BY <1>0, <1>1, <2>1, <3>1 DEF Told, Bans, Mine
      <3> QED
        BY <1>1, <3>2, <3>3 DEF Leaving
    <2>2. Moves(c)' => Moves(c)
      BY <1>1 DEF Moves
    <2> QED
      BY <1>1, <1>2, <1>3, <2>1, <2>2 DEF ConnGoing, GoesBanned
  <1>8. StillDecided(c)'
    <2>1. ASSUME conn[c].st = "open", conn'[c].pending, WillHear(c)
          PROVE  WillHear(c)' \/ conn'[c].closing
      <3>1. PICK n \in mail : /\ n.to = c
                              /\ \/ n.what = "ended"
                                 \/ n.what \in {"removed", "let in", "turned away"} /\ n.pid = conn[c].pid
        BY <2>1 DEF WillHear
      <3>2. CASE n # m
        BY <1>1, <3>1, <3>2 DEF WillHear
      <3>3. CASE n = m
        BY <1>1, <1>3, <2>1, <3>1, <3>3 DEF StillPending, Decides, Removes, Ends, Mine
      <3> QED
        BY <3>2, <3>3
    <2>2. conn'[c].pending => conn[c].pending
      BY <1>1 DEF StillPending
    <2> QED
      BY <1>1, <1>2, <1>3, <2>1, <2>2 DEF ConnGoing, StillDecided, Waits, Decided
  <1> QED
    BY <1>0, <1>1, <1>3, <1>4, <1>5, <1>6, <1>7, <1>8, GoingOne DEF ConnGoing


\* What the owner's requests leave: they tell whom they concern.
LEMMA GoingRequests ==
  ASSUME Typed, ShapedAll, Going, UNCHANGED <<conn, registry>>, mail \subseteq mail', crossed \subseteq crossed',
         session'.alive => session.alive,
         \A x \in Pid : row'[x].st = "removed" => \/ row[x].st = "removed" \/ Leaving(x, "removed")'
                                                  \/ \A c \in Conn : conn[c].pid = x => ~Inside(c),
         session'.alive => \A x \in Pid : Waits(x) => Waits(x)' \/ Decided(x)',
         \A x \in bans' : \/ x \in bans
                          \/ /\ Leaving(x, "banned")'
                             /\ x[1] \in crossed' \/ \A c \in Conn : conn[c].pid = x => ~Moves(c),
         op.st \in {"removed", "banned", "let in", "turned away"} => Announce
  PROVE  Going'
  <1>1. ASSUME NEW c \in Conn PROVE ConnGoing(c)'
    <2>0. ConnGoing(c) /\ Shaped(c) /\ conn[c].room \in Rooms \cup {None}
      BY GoingToConn DEF ShapedAll, Typed, Connection
    <2>1. /\ \A what, x : Told(c, what, x) => Told(c, what, x)'
          /\ WillHear(c) => WillHear(c)'
      BY DEF Told, WillHear
    <2>2. ASSUME NEW what \in {"removed", "banned", "let in", "turned away"}, NEW x \in Pid,
                 Leaving(x, what), conn[c].st = "open",
                 c \in registry[IF what = "banned" THEN "side" ELSE "session"]
          PROVE  Told(c, what, x)'
      <3>1. Announce /\ op.st = what /\ op.pid = x
        BY <2>2 DEF Leaving
      <3> QED
        BY <2>2, <3>1, AnnounceMeans DEF Told
    <2>3. Registered(c)'
      BY <2>0 DEF ConnGoing, Registered
    <2>4. GoesRemoved(c)'
      <3>1. ASSUME NEW x \in Pid, conn[c].pid = x, row'[x].st = "removed", conn[c].st = "open", Inside(c)
            PROVE  conn[c].closing \/ Told(c, "removed", x)' \/ Leaving(x, "removed")'
        <4>1. c \in registry["session"]
          BY <2>0, <3>1, NoneApart DEF Shaped
        <4>2. Leaving(x, "removed") => Told(c, "removed", x)'
          BY <2>2, <3>1, <4>1
        <4> QED
          BY <2>0, <2>1, <3>1, <4>2 DEF ConnGoing, GoesRemoved
      <3> QED
        BY <3>1 DEF GoesRemoved, Inside
    <2>5. GoesBanned(c)'
      <3>1. ASSUME NEW x \in bans', conn[c].pid = x, x[1] \notin crossed'
            PROVE  /\ Moves(c) => conn[c].want # "side"
                   /\ conn[c].room = "side" /\ conn[c].st = "open" =>
                          Told(c, "banned", x)' \/ Leaving(x, "banned")'
        <4>1. CASE x \in bans
          <5>0. x \in Pid /\ x[1] \notin crossed
            BY <3>1, <4>1 DEF Typed
          <5>1. /\ Moves(c) => conn[c].want # "side"
                /\ conn[c].room = "side" /\ conn[c].st = "open" =>
                       Told(c, "banned", x) \/ Leaving(x, "banned")
            BY <2>0, <3>1, <4>1, <5>0 DEF ConnGoing, GoesBanned
          <5>2. conn[c].room = "side" => c \in registry["side"]
            BY <2>0, <5>1, NoneApart DEF ConnGoing, Registered, Moves, Rooms
          <5>3. conn[c].room = "side" /\ conn[c].st = "open" /\ Leaving(x, "banned") => Told(c, "banned", x)'
            BY <2>2, <5>0, <5>2
          <5> QED
            BY <2>1, <5>1, <5>3
        <4>2. CASE x \notin bans
          BY <3>1, <4>2
        <4> QED
          BY <4>1, <4>2
      <3> QED
        BY <3>1 DEF GoesBanned, Moves
    <2>6. StillDecided(c)'
      <3>1. ASSUME session'.alive, conn[c].pending, conn[c].st = "open", Whose[c] \notin crossed'
            PROVE  conn[c].closing \/ WillHear(c)' \/ Waits(conn[c].pid)' \/ Decided(conn[c].pid)'
        <4> DEFINE i == conn[c].pid
        <4>1. i \in Pid /\ c \in registry["session"]
          BY <2>0, <3>1 DEF Shaped, Typed, Connection, IdOrNone
        <4>2. Decided(i) => WillHear(c)'
          <5>1. ASSUME Decided(i) PROVE \E what \in {"removed", "let in", "turned away"} : Told(c, what, i)'
            <6>1. /\ op.st \in {"removed", "let in", "turned away"} /\ op.st # "banned" /\ Leaving(i, op.st)
              BY <5>1 DEF Decided, Leaving
            <6> QED
              BY <2>2, <3>1, <4>1, <6>1
          <5> QED
            BY <5>1 DEF Told, WillHear
        <4>3. conn[c].closing \/ WillHear(c) \/ Waits(i) \/ Decided(i)
          BY <2>0, <3>1 DEF ConnGoing, StillDecided
        <4>4. Waits(i) => Waits(i)' \/ Decided(i)'
          BY <3>1, <4>1
        <4> QED
          BY <2>1, <4>2, <4>3, <4>4
      <3> QED
        BY <3>1 DEF StillDecided, Waits, Decided
    <2> QED
      BY <2>3, <2>4, <2>5, <2>6 DEF ConnGoing
  <1> QED
    BY <1>1, GoingFromConn


\* The owner's request reaches everyone it is about.
LEMMA GoingRequest ==
  ASSUME Typed, ShapedAll, JoiningOutside, Held, Going, OwnerStep
  PROVE  Going'
  <1> USE DEF Does
  <1>0. UNCHANGED <<conn, registry>>
    BY DEF OwnerStep, RemovePerson, Ban, HandOver, Decide, SetWaitingRoom, DeleteRoom, EndSession,
       DeleteSession, Announce, RotateCode, rows
  <1>1. ASSUME NEW i \in Pid, RemovePerson(i) PROVE Going'
    <2>1. /\ op.st = "idle" /\ TakeOut(i) /\ Leaving(i, "removed")' /\ Decided(i)'
          /\ UNCHANGED <<session, mail, bans>> /\ crossed \subseteq crossed'
      BY <1>1 DEF RemovePerson, Says, Leaving, Decided, Overlaps
    <2>2. \A x \in Pid \ {i} : KeepsRow(x)
      BY <2>1, TakeOutMeans
    <2>3. \A x \in Pid : /\ row'[x].st = "removed" => row[x].st = "removed" \/ Leaving(x, "removed")'
                         /\ Waits(x) => Waits(x)' \/ Decided(x)'
      BY <2>1, <2>2 DEF KeepsRow, Waits
    <2> QED
      BY <1>0, <2>1, <2>3, GoingRequests
  <1>2. ASSUME NEW i \in Pid, Ban(i) PROVE Going'
    <2>1. /\ op.st = "idle" /\ Leaving(i, "banned")' /\ bans' = bans \cup {i}
          /\ UNCHANGED <<session, row, mail>> /\ crossed \subseteq crossed'
          /\ PersonBusy(i[1]) => i[1] \in crossed'
      BY <1>2 DEF Ban, Says, Leaving, Overlaps
    <2>2. ASSUME NEW c \in Conn, conn[c].pid = i, Moves(c) PROVE i[1] \in crossed'
      <3>1. Whose[c] = i[1] /\ conn[c].at # "idle"
        BY <2>2 DEF Moves, ShapedAll, Shaped
      <3> QED
        BY <2>1, <3>1 DEF PersonBusy, Busy, Threads
    <2>3. \A x \in bans' : \/ x \in bans
                           \/ /\ Leaving(x, "banned")'
                              /\ x[1] \in crossed' \/ \A c \in Conn : conn[c].pid = x => ~Moves(c)
      BY <2>1, <2>2
    <2> QED
      BY <1>0, <2>1, <2>3, GoingRequests DEF Waits
  <1>3. ASSUME NEW i \in Pid, Decide(i, FALSE) PROVE Going'
    <2>1. /\ op.st = "idle" /\ TakeOut(i) /\ row[i].waiting /\ Decided(i)'
          /\ UNCHANGED <<session, mail, bans, crossed>>
      BY <1>3 DEF Decide, Says, Decided
    <2>2. \A x \in Pid \ {i} : KeepsRow(x)
      BY <2>1, TakeOutMeans
    <2>3. ASSUME NEW c \in Conn, conn[c].pid = i PROVE ~Inside(c)
      <3>1. conn[c].pending
        BY <2>1, <2>3 DEF Held, WaitingHeldByPending, Holds
      <3> QED
        BY <3>1 DEF Inside, JoiningOutside, Joining, OutOfRooms, ShapedAll, Shaped
    <2>4. \A x \in Pid : /\ row'[x].st = "removed" =>
                               row[x].st = "removed" \/ \A c \in Conn : conn[c].pid = x => ~Inside(c)
                         /\ Waits(x) => Waits(x)' \/ Decided(x)'
      BY <2>1, <2>2, <2>3 DEF KeepsRow, Waits
    <2> QED
      BY <1>0, <2>1, <2>4, GoingRequests
  <1>4. ASSUME NEW i \in Pid, Decide(i, TRUE) PROVE Going'
    <2>1. /\ op.st = "idle" /\ row' = [row EXCEPT ![i].waiting = FALSE] /\ Decided(i)'
          /\ UNCHANGED <<session, mail, bans, crossed>>
      BY <1>4 DEF Decide, Says, Decided
    <2>2. \A x \in Pid : /\ row'[x].st = row[x].st
                         /\ Waits(x) => Waits(x)' \/ Decided(x)'
      BY <2>1, WaitsMeans DEF KeepsRow, Waits
    <2> QED
      BY <1>0, <2>1, <2>2, GoingRequests
  <1>5. CASE (\E i \in Pid : HandOver(i)) \/ SetWaitingRoom
    <2>1. op.st = "idle" /\ UNCHANGED <<row, mail, bans, crossed>> /\ session'.alive = session.alive
      BY <1>5 DEF HandOver, SetWaitingRoom, Typed
    <2> QED
      BY <1>0, <2>1, GoingRequests DEF Waits
  <1>6. CASE DeleteRoom
    <2>1. op.st = "idle" /\ UNCHANGED <<session, mail, crossed>> /\ bans' = {}
      BY <1>6 DEF DeleteRoom
    <2>2. \A x \in Pid : row'[x].st = row[x].st /\ (Waits(x) => Waits(x)')
      BY <1>6, DeleteRoomMeans DEF KeepsRow, Waits
    <2> QED
      BY <1>0, <2>1, <2>2, GoingRequests
  <1>7. CASE EndSession
    <2>1. /\ op.st = "idle" /\ UNCHANGED <<session, row, bans, crossed>>
          /\ Publish("session", "ended", None) /\ "session" \in Scopes
      BY <1>7 DEF EndSession, rows, Scopes
    <2>2. mail \subseteq mail'
      BY <2>1, PublishMeans DEF Events, IdOrNone
    <2> QED
      BY <1>0, <2>1, <2>2, GoingRequests DEF Waits
  <1>8. CASE DeleteSession
    <2>1. ~session'.alive
      BY <1>8 DEF DeleteSession, Typed
    <2>2. op.st = "ending" /\ UNCHANGED <<mail, crossed>> /\ bans' = {}
      BY <1>8 DEF DeleteSession
    <2>3. \A x \in Pid : row'[x].st = "none"
      BY <1>8 DEF DeleteSession, NoRow
    <2> QED
      BY <1>0, <2>1, <2>2, <2>3, GoingRequests
  <1>9. CASE Announce
    <2>1. UNCHANGED <<session, row, bans, crossed>> /\ mail \subseteq mail'
      BY <1>9, AnnounceMeans DEF Announce, rows
    <2> QED
      BY <1>0, <1>9, <2>1, GoingRequests DEF Waits
  <1>10. CASE RotateCode
    <2>1. session'.alive = session.alive
      BY <1>10 DEF RotateCode, Typed
    <2>2. op.st = "rotate" /\ UNCHANGED <<row, mail, bans>> /\ crossed \subseteq crossed'
      BY <1>10 DEF RotateCode
    <2> QED
      BY <1>0, <2>1, <2>2, GoingRequests DEF Waits
  <1> QED
    BY <1>1, <1>2, <1>3, <1>4, <1>5, <1>6, <1>7, <1>8, <1>9, <1>10 DEF OwnerStep

\* Every step keeps Going.
LEMMA GoingStep ==
  Typed /\ ShapedAll /\ JoiningOutside /\ Held /\ Entry /\ Going /\ [Next]_vars => Going'
  <1> SUFFICES ASSUME Typed, ShapedAll, JoiningOutside, Held, Entry, Going, [Next]_vars PROVE Going'
    OBVIOUS
  <1> USE NoneApart DEF KeepsWho, KeepsLife, KeepsPlace
  <1>0. /\ \A c \in Conn : Shaped(c) /\ conn[c].room \in Rooms \cup {None}
        /\ UNCHANGED rows => UNCHANGED <<session, bans, row>>
        /\ row' = row => \A x \in Pid : KeepsRow(x)
    BY DEF ShapedAll, rows, KeepsRow, Typed, Connection
  <1>r. /\ \A k \in Rooms : k \in Scopes /\ k # "session"
        /\ registry \in [Scopes -> SUBSET Conn]
    BY DEF Scopes, Rooms, Typed
  <1>1. ASSUME NEW c \in Conn, Connect(c) PROVE Going'
    <2>1. OnlyTo(c) /\ UNCHANGED <<session, bans, op, mail, registry>> /\ crossed \subseteq crossed'
          /\ \A x \in Pid : KeepsRow(x)
      BY <1>0, <1>1, ConnectMeans DEF Connect, Overlaps
    <2>2. /\ conn'[c].at = "upsert" /\ conn'[c].room = conn[c].room /\ conn'[c].pid = conn[c].pid
          /\ conn'[c].pending = conn[c].pending /\ conn[c].pid = None /\ ~conn[c].pending
          /\ conn[c].room = None
      BY <1>0, <1>1, ConnectMeans DEF Shaped, JoiningOutside, Joining, OutOfRooms
    <2>3. ConnGoing(c)'
      BY <2>1, <2>2 DEF ConnGoing, Registered, GoesRemoved, GoesBanned, StillDecided, Inside, Typed
    <2> QED
      BY SMTT(60), <2>1, <2>3, GoersKept, GoingOne
  <1>2. ASSUME NEW c \in Conn, Upsert(c) PROVE Going'
    <2>1. OnlyTo(c) /\ UNCHANGED <<session, bans, op, mail, registry, crossed>>
      BY <1>2, UpsertMeans DEF Upsert
    <2>2. \A x \in Pid : /\ row'[x].st = "removed" => row[x].st = "removed"
                         /\ Waits(x) => Waits(x)'
      BY <1>2, UpsertMeans DEF KeepsRow, Waits
    <2>3. /\ conn'[c].room = conn[c].room /\ conn'[c].pid = conn[c].pid
          /\ conn'[c].pending = conn[c].pending /\ conn'[c].at \in {"idle", "connected"}
          /\ conn[c].at = "upsert" /\ conn'[c].st = conn[c].st /\ conn'[c].closing = conn[c].closing
      BY <1>2, UpsertMeans
    <2>4. KeepsGoers /\ KeepsGoing(c)
      BY <2>1, <2>2, <2>3 DEF KeepsGoers, KeepsGoing, Moves
    <2> QED
      BY ZenonT(60), <2>1, <2>4, GoingOther
  <1>3. ASSUME NEW c \in Conn, Register(c) PROVE Going'
    <2>1. /\ OnlyTo(c) /\ UNCHANGED <<session, bans, op, mail, crossed>>
          /\ \A x \in Pid : KeepsRow(x)
      BY <1>3, RegisterMeans, RowsMeans DEF Register
    <2>2. \A k \in Rooms : registry'[k] = registry[k]
      BY <1>3, <1>r DEF Register
    <2>3. /\ conn'[c].at = "admission" /\ conn'[c].room = None /\ ~conn'[c].pending
      BY <1>0, <1>3, RegisterMeans DEF Shaped, JoiningOutside, Joining, OutOfRooms
    <2>4. ConnGoing(c)'
      BY <2>1, <2>3 DEF ConnGoing, Registered, GoesRemoved, GoesBanned, StillDecided, Inside, Moves, Rooms
    <2> QED
      BY SMTT(60), <2>1, <2>2, <2>4, GoersKept, GoingOne
  <1>4. ASSUME NEW c \in Conn, Complete(c) PROVE Going'
    <2>1. /\ OnlyTo(c) /\ UNCHANGED <<session, bans, op, mail, crossed, registry>>
          /\ \A x \in Pid : KeepsRow(x)
      BY <1>0, <1>4, CompleteMeans
    <2>2. KeepsGoing(c)
      BY <1>4, CompleteMeans DEF KeepsGoing, Moves
    <2> QED
      BY <2>1, <2>2, GoersKept, GoingOther
  <1>5. ASSUME NEW c \in Conn, Access(c) \/ Move(c) \/ Admission(c) PROVE Going'
    BY <1>5, GoingAccess, GoingMove, GoingAdmission
  <1>8. ASSUME NEW c \in Conn, Enter(c) PROVE Going'
    <2>1. /\ OnlyTo(c) /\ UNCHANGED <<session, bans, op, mail, crossed>>
          /\ \A x \in Pid : KeepsRow(x)
      BY <1>0, <1>8, EnterMeans
    <2>2. /\ \A k \in Rooms : registry[k] \subseteq registry'[k]
          /\ conn[c].want \in Rooms /\ c \in registry'[conn[c].want]
      BY <1>0, <1>8, <1>r, EnterMeans DEF Enter, Shaped
    <2>3. KeepsGoing(c)
      BY <1>0, <1>8, <2>1, <2>2, EnterMeans DEF KeepsGoing, Moves
    <2> QED
      BY <2>1, <2>2, <2>3, GoersKept, GoingOther
  <1>9. ASSUME NEW c \in Conn, SayJoined(c) PROVE Going'
    <2>1. /\ OnlyTo(c) /\ UNCHANGED <<session, bans, op, mail, crossed, registry>>
          /\ \A x \in Pid : KeepsRow(x)
      BY <1>0, <1>9, SayJoinedMeans
    <2>2. KeepsGoing(c)
      BY <1>9, <2>1, SayJoinedMeans DEF KeepsGoing, Moves
    <2> QED
      BY <2>1, <2>2, GoersKept, GoingOther
  <1>10. ASSUME NEW c \in Conn, CloseGone(c) \/ Disconnect(c) \/ Close(c) PROVE Going'
    <2>1. /\ OnlyTo(c) /\ UNCHANGED <<session, bans, op, mail, registry>>
          /\ \A x \in Pid : KeepsRow(x)
      BY <1>0, <1>10, CloseGoneMeans, DisconnectMeans, CloseMeans, RowsMeans DEF Disconnect
    <2>2. crossed \subseteq crossed'
      BY <1>10 DEF CloseGone, Disconnect, Close
    <2>3. KeepsGoing(c)
      BY <1>10, <2>1, CloseGoneMeans, DisconnectMeans, CloseMeans DEF KeepsGoing, Moves
    <2> QED
      BY <2>1, <2>2, <2>3, GoersKept, GoingOther
  <1>12. ASSUME NEW c \in Conn, CloseLeave(c) PROVE Going'
    <2>1. /\ OnlyTo(c) /\ UNCHANGED <<session, bans, op, mail, crossed>>
          /\ \A x \in Pid : KeepsRow(x)
      BY <1>0, <1>12, CloseLeaveMeans
    <2>2. \A k \in Rooms : registry[k] \ {c} \subseteq registry'[k]
      BY <1>12, OutRegistry DEF CloseLeave
    <2>3. KeepsGoing(c)
      BY <1>12, <2>1, CloseLeaveMeans DEF KeepsGoing, Moves
    <2> QED
      BY <2>1, <2>2, <2>3, GoersKept, GoingOther
  <1>13. ASSUME NEW c \in Conn, Unregister(c) PROVE Going'
    <2>1. /\ OnlyTo(c) /\ UNCHANGED <<session, bans, op, mail, crossed>>
          /\ \A x \in Pid : KeepsRow(x)
      BY <1>0, <1>13, UnregisterMeans
    <2>2. \A k \in Rooms : registry'[k] = registry[k]
      BY <1>13, <1>r DEF Unregister
    <2>3. KeepsGoing(c)
      BY <1>0, <1>13, <2>1, <2>2, UnregisterMeans DEF KeepsGoing, Moves
    <2> QED
      BY <2>1, <2>2, <2>3, GoersKept, GoingOther
  <1>15. ASSUME NEW c \in Conn, NEW k \in Rooms, NEW code \in BOOLEAN, AskRoom(c, k, code)
         PROVE  Going'
    <2>1. /\ OnlyTo(c) /\ UNCHANGED <<session, bans, op, mail, registry>> /\ crossed \subseteq crossed'
          /\ \A x \in Pid : KeepsRow(x)
      BY <1>0, <1>15, AskRoomMeans DEF AskRoom, Overlaps
    <2>2. KeepsGoing(c)
      BY <1>15, <2>1, AskRoomMeans DEF KeepsGoing, Moves, MayAsk
    <2> QED
      BY <2>1, <2>2, GoersKept, GoingOther
  <1>16. ASSUME NEW m \in mail, Deliver(m) PROVE Going'
    BY <1>16, GoingDeliver
  <1>17. CASE OwnerStep
    BY <1>17, GoingRequest
  <1>18. CASE \/ \E c \in Conn, s \in Scopes : Expire(c, s)
              \/ \E e \in exits : Gone(e) \/ SayLeft(e)
              \/ UNCHANGED vars
    <2>1. UNCHANGED <<session, row, bans, op, mail, conn, registry, crossed>>
      BY <1>18 DEF Expire, Gone, SayLeft, vars, rows
    <2>2. InItsRegistry' /\ RemovedGoing'
      BY <2>1 DEF Going, InItsRegistry, RemovedGoing, Told
    <2>3. BannedGoing'
      BY <2>1 DEF Going, BannedGoing, Told
    <2>4. WaitingOnDecision'
      BY <2>1 DEF Going, WaitingOnDecision, WillHear
    <2> QED
      BY <2>2, <2>3, <2>4 DEF Going
  <1> QED
    BY <1>1, <1>2, <1>3, <1>4, <1>5, <1>8, <1>9, <1>10, <1>12, <1>13, <1>15, <1>16, <1>17, <1>18
       DEF Next, FrameStep, CloseStep

\* Init has it.
LEMMA GoingInit == Init => Going
  <1> SUFFICES ASSUME Init PROVE Going
    OBVIOUS
  <1>1. \A c \in Conn : conn[c].room = None /\ conn[c].at = "idle" /\ ~conn[c].pending
    BY DEF Init, NewConn
  <1>2. bans = {}
    BY DEF Init
  <1> QED
    BY <1>1, <1>2 DEF Going, InItsRegistry, RemovedGoing, BannedGoing, WaitingOnDecision


-----------------------------------------------------------------------------
(* The theorems.                                                           *)

\* The invariant is inductive: types, what goes together in a connection, the
\* order of joining, who holds an id, who was let in and who has to go.
THEOREM SocketsCorrect == Spec => []SocketsInv
  <1>1. Init => SocketsInv
    BY TypedInit, ShapedInit, JoiningInit, HeldInit, EntryInit, GoingInit DEF SocketsInv
  <1>2. SocketsInv /\ [Next]_vars => SocketsInv'
    BY TypedStep, ShapedStep, JoiningStep, HeldStep, EntryStep, GoingStep DEF SocketsInv
  <1> QED
    BY <1>1, <1>2, PTL DEF Spec

\* The invariant says more than the types,
LEMMA InvTypes == SocketsInv => TypeOK
  <1> SUFFICES ASSUME SocketsInv PROVE TypeOK
    OBVIOUS
  <1>1. ASSUME NEW c \in Conn
        PROVE  /\ conn[c].pid \in IdOrNone /\ conn[c].want \in IdOrNone \cup Rooms
               /\ conn[c].room \in Rooms \cup {None}
               /\ conn[c].at \notin {"idle", "upsert", "connected"} => conn[c].pid # None
    BY DEF SocketsInv, Typed, Connection, ShapedAll, Shaped
  <1> QED
    BY <1>1 DEF SocketsInv, Typed, TypeOK, Row

\* ...that those who wait are in no room,
LEMMA InvWaiters == SocketsInv => WaitersOutside
  BY DEF SocketsInv, JoiningOutside, Joining, OutOfRooms, WaitersOutside

\* ...that those in a room were let in,
LEMMA InvLetIn == SocketsInv => LetIn
  BY DEF SocketsInv, JoiningOutside, Joining, OutOfRooms, Entry, PastAllowed, Allowed, LetIn

\* ...that those removed are out of the rooms,
LEMMA InvRemoved == SocketsInv => RemovedOut
  <1> SUFFICES ASSUME SocketsInv, NEW i \in Pid, Quiet(i[1]) PROVE
         /\ row[i].st = "removed" => \A k \in Rooms : In(i, k) = {}
         /\ i \in bans /\ i[1] \notin crossed => In(i, "side") = {}
    BY DEF RemovedOut
  <1>1. ASSUME NEW c \in Conn, conn[c].pid = i
        PROVE  ~conn[c].closing /\ \A what : ~Told(c, what, i)
    <2>1. Whose[c] = i[1]
      BY <1>1 DEF SocketsInv, ShapedAll, Shaped
    <2> QED
      BY <2>1 DEF Quiet, PersonBusy, Busy, Told
  <1>2. op.st = "idle"
    BY DEF Quiet
  <1>3. ASSUME row[i].st = "removed", NEW k \in Rooms, NEW c \in In(i, k) PROVE FALSE
    <2>1. c \in Conn /\ conn[c].st = "open" /\ conn[c].pid = i /\ conn[c].room # None
      BY <1>3, NoneApart DEF In
    <2> QED
      BY <1>1, <1>2, <1>3, <2>1 DEF SocketsInv, Going, RemovedGoing
  <1>4. ASSUME i \in bans, i[1] \notin crossed, NEW c \in In(i, "side") PROVE FALSE
    <2>1. c \in Conn /\ conn[c].st = "open" /\ conn[c].pid = i /\ conn[c].room = "side"
      BY <1>4 DEF In
    <2> QED
      BY <1>1, <1>2, <1>4, <2>1 DEF SocketsInv, Going, BannedGoing
  <1> QED
    BY <1>3, <1>4

\* ...and that a code that was changed lets nobody in.
LEMMA InvCode ==
  SocketsInv /\ [Next]_vars =>
      [session.changed =>
          \A i \in Pid : row[i].st = "none" /\ row'[i].st # "none" => i[1] \in crossed]_vars
  <1> SUFFICES ASSUME SocketsInv, Next, session.changed, NEW i \in Pid,
                      row[i].st = "none", row'[i].st # "none"
               PROVE  i[1] \in crossed
    OBVIOUS
  <1>0. Typed /\ ShapedAll /\ Entry
    BY DEF SocketsInv
  <1>1. ASSUME NEW c \in Conn, Upsert(c) PROVE i[1] \in crossed
    <2>1. /\ conn[c].at = "upsert" /\ session.alive /\ i[1] = Whose[c]
          /\ ~(conn[c].want # None /\ row[conn[c].want].st = "member")
      BY <1>0, <1>1, UpsertMeans DEF KeepsRow
    <2>2. Whose[c] \notin crossed => conn[c].member
      BY <1>0, <2>1 DEF Entry, ChangedForMembers
    <2>3. Whose[c] \notin crossed => conn[c].want \in Pid /\ row[conn[c].want].st = "member"
      BY <1>0, <2>1, <2>2 DEF Entry, MemberAllowed
    <2> QED
      BY <2>1, <2>3, NoneApart
  <1>2. ASSUME NEW c \in Conn, Register(c) \/ Disconnect(c) \/ Move(c) PROVE FALSE
    BY <1>0, <1>2, RowsMeans, MoveMeans DEF KeepsRow
  <1>3. ASSUME NEW c \in Conn, Admission(c) PROVE FALSE
    <2>1. CASE MustWait(c)
      <3>1. /\ conn[c].pid \in Pid
            /\ row' = [row EXCEPT ![conn[c].pid].waiting = row[conn[c].pid].st # "none"]
        BY <1>0, <1>3, <2>1 DEF Admission, ShapedAll, Shaped, Typed, Connection, IdOrNone
      <3> QED
        BY <1>0, <3>1, WaitsMeans DEF KeepsRow
    <2> QED
      BY <1>3, <2>1 DEF Admission
  <1>4. ASSUME NEW c \in Conn, \/ Connect(c) \/ Complete(c) \/ Access(c) \/ Enter(c) \/ SayJoined(c)
                               \/ CloseGone(c) \/ CloseLeave(c) \/ Unregister(c) \/ Close(c)
        PROVE  FALSE
    BY <1>0, <1>4, ConnectMeans, CompleteMeans, AccessMeans, EnterMeans, SayJoinedMeans, CloseGoneMeans,
       CloseLeaveMeans, UnregisterMeans, CloseMeans DEF rows
  <1>5. ASSUME NEW c \in Conn, NEW k \in Rooms, NEW code \in BOOLEAN, AskRoom(c, k, code) PROVE FALSE
    BY <1>5 DEF AskRoom, rows
  <1>6. CASE \/ \E c \in Conn, s \in Scopes : Expire(c, s)
             \/ \E e \in exits : Gone(e) \/ SayLeft(e)
             \/ \E m \in mail : Deliver(m)
    BY <1>6 DEF Expire, Gone, SayLeft, Deliver, rows
  <1>7. ASSUME NEW x \in Pid, RemovePerson(x) \/ Decide(x, FALSE) PROVE FALSE
    <2>1. TakeOut(x) /\ row[x].st = "member"
      BY <1>7 DEF RemovePerson, Decide
    <2> QED
      BY <1>0, <2>1, TakeOutMeans DEF KeepsRow
  <1>8. ASSUME NEW x \in Pid, Decide(x, TRUE) PROVE FALSE
    <2>1. row' = [row EXCEPT ![x].waiting = FALSE]
      BY <1>8 DEF Decide
    <2> QED
      BY <1>0, <2>1, WaitsMeans DEF KeepsRow
  <1>9. CASE DeleteRoom
    BY <1>0, <1>9, DeleteRoomMeans DEF KeepsRow
  <1>10. CASE DeleteSession
    BY <1>10 DEF DeleteSession, NoRow
  <1>11. CASE \/ \E x \in Pid : Ban(x) \/ HandOver(x)
              \/ SetWaitingRoom \/ EndSession \/ Announce \/ RotateCode
    BY <1>11 DEF Ban, HandOver, SetWaitingRoom, EndSession, Announce, RotateCode, rows
  <1> QED
    BY <1>1, <1>2, <1>3, <1>4, <1>5, <1>6, <1>7, <1>8, <1>9, <1>10, <1>11
       DEF Next, FrameStep, CloseStep, OwnerStep

\* Whoever is in a room is there by right, whatever the order of joins, moves,
\* closes, events and the owner's requests (ws/server.ts, sessions.ts, manage.ts).
THEOREM RoomsByRight == Spec => InsideByRight
  <1>1. SocketsInv => TypeOK /\ WaitersOutside /\ LetIn /\ RemovedOut
    BY InvTypes, InvWaiters, InvLetIn, InvRemoved
  <1>2. SocketsInv /\ [Next]_vars =>
          [session.changed =>
              \A i \in Pid : row[i].st = "none" /\ row'[i].st # "none" => i[1] \in crossed]_vars
    BY InvCode
  <1> QED
    BY <1>1, <1>2, SocketsCorrect, PTL DEF Spec, InsideByRight, CodeKeepsOut

\* Whoever waits can still be decided on: no decision is lost between the row,
\* the event and the connection (decide in sessions.ts, onSessionEvent).
THEOREM NobodyIsForgotten == Spec => []NobodyForgotten
  <1>1. SocketsInv => NobodyForgotten
    <2> SUFFICES ASSUME SocketsInv, op.st = "idle", session.alive, NEW c \in Conn,
                        conn[c].pending, conn[c].st = "open", ~conn[c].closing, Whose[c] \notin crossed
                 PROVE  \/ \E m \in mail : m.to = c
                        \/ row[conn[c].pid].st = "member" /\ row[conn[c].pid].waiting
      BY DEF NobodyForgotten
    <2> QED
      BY DEF SocketsInv, Going, WaitingOnDecision, WillHear
  <1> QED
    BY <1>1, SocketsCorrect, PTL

-----------------------------------------------------------------------------
(* Who is counted where, for people whose joins, moves and closes did not   *)
(* overlap (crossed).                                                       *)

Kept(c) == Whose[c] \notin crossed
Here(c, k) == conn[c].room = k /\ conn[c].at # "enter"
Leaves(c, k) == \E e \in exits : e.conn = c /\ e.room = k

\* One thing at a time goes on with a connection: frames, a close or a leave.
OneThing(c) ==
    /\ conn[c].at # "idle" => conn[c].st = "open"
    /\ conn[c].at \in {"access", "move"} => conn[c].room # conn[c].want
    /\ conn[c].at = "move" => conn[c].room = None
    /\ conn[c].at \in {"enter", "joined"} => conn[c].room = conn[c].want
    /\ conn[c].bye \in {"unregister", "done"} => conn[c].room = None
    /\ conn[c].bye \in {"gone", "disconnect"} => conn[c].pid # None
    /\ \A e \in exits : e.conn = c =>
          /\ conn[c].room = None /\ conn[c].pid # None
          /\ \/ e.how = "switch" /\ conn[c].at = "move"
             \/ e.how = "close" /\ conn[c].bye = "unregister" /\ conn[c].at = "idle"
             \/ e.how = "removal" /\ conn[c].bye = "no" /\ conn[c].at = "idle"
          /\ \A f \in exits : f.conn = c => f = e

\* And with the connections of a person.
Alone(c) == Threads(c) => \A d \in Conn \ {c} : Whose[d] = Whose[c] => ~Threads(d)

\* Registries and presence say where a connection is.
Recorded(c) ==
    /\ c \in present["session"] <=> conn[c].pid # None /\ (conn[c].st = "open" \/ conn[c].bye = "gone")
    /\ \A k \in Rooms : /\ c \in registry[k] <=> Here(c, k)
                        /\ c \in present[k] <=> \/ Here(c, k)
                                                \/ \E e \in exits : e.conn = c /\ e.room = k /\ e.st = "gone"

\* Whoever found nobody else was the last, and still is.
LastOne(c) ==
    /\ conn[c].bye = "disconnect" => \A d \in Conn : conn[d].pid = conn[c].pid => conn[d].st # "open"
    /\ \A e \in exits : e.conn = c /\ e.st = "say" =>
          \A d \in Conn : conn[d].pid = conn[c].pid => conn[d].room # e.room

\* A row is connected while someone is there, comes or is about to say they went.
Counts(c, i) == \/ conn[c].pid = i /\ (conn[c].st = "open" \/ conn[c].bye \in {"gone", "disconnect"})
                \/ conn[c].at = "connected" /\ conn[c].want = i
RowCounts(i) ==
    row[i].st = "member" =>
        /\ row[i].connected => \E c \in Conn : Counts(c, i)
        /\ OpenOf(i) # {} => row[i].connected
\* A room was told of whoever is in it, or has not been told yet of the last leave.
ToldOf(i, k) ==
    /\ said[k][i] = "joined" => \E c \in Conn : conn[c].pid = i /\ (conn[c].room = k \/ Leaves(c, k))
    /\ \A c \in Conn : conn[c].pid = i /\ Here(c, k) /\ conn[c].at # "joined" => said[k][i] = "joined"

ConnCounted == \A c \in Conn : Kept(c) => OneThing(c) /\ Alone(c) /\ Recorded(c) /\ LastOne(c)
IdCounted == \A i \in Pid : i[1] \notin crossed => RowCounts(i) /\ \A k \in Rooms : ToldOf(i, k)
CountedInv == ConnCounted /\ IdCounted

\* What a step of one connection leaves of the others.
OthersSame(c) ==
    /\ \A e \in exits \cup exits' : e.conn # c => e \in exits /\ e \in exits'
    /\ \A d \in Conn \ {c} :
          /\ d \in present'["session"] <=> d \in present["session"]
          /\ \A k \in Rooms : /\ d \in registry'[k] <=> d \in registry[k]
                              /\ d \in present'[k] <=> d \in present[k]
\* Only what has a thread gets an id or a room.
Harmless(c) ==
    /\ conn'[c].pid = conn[c].pid \/ Threads(c)
    /\ conn'[c].st = "open" => conn[c].st = "open" \/ conn'[c].pid = None
    /\ conn'[c].room \in {conn[c].room, None} \/ Threads(c)
StartsAlone(c) ==
    Kept(c)' /\ Threads(c)' =>
        Threads(c) \/ \A d \in Conn \ {c} : Whose[d] = Whose[c] => ~Threads(d)

\* Another connection has the threads it had.
LEMMA SameThreads ==
  ASSUME NEW c \in Conn, NEW d \in Conn \ {c}, OnlyTo(c), OthersSame(c)
  PROVE  Threads(d)' <=> Threads(d)
  BY DEF OnlyTo, OthersSame, Threads

\* It is where it was,
LEMMA OtherRecorded ==
  ASSUME NEW c \in Conn, NEW d \in Conn \ {c}, OnlyTo(c), OthersSame(c), OneThing(d), Recorded(d)
  PROVE  OneThing(d)' /\ Recorded(d)'
  <1>1. conn'[d] = conn[d]
    BY DEF OnlyTo
  <1>2. \A e : e.conn = d => (e \in exits' <=> e \in exits)
    BY DEF OthersSame
  <1>3. OneThing(d)'
    BY <1>1, <1>2 DEF OneThing
  <1>4. /\ d \in present'["session"] <=> d \in present["session"]
        /\ \A k \in Rooms : /\ d \in registry'[k] <=> d \in registry[k]
                            /\ d \in present'[k] <=> d \in present[k]
    BY DEF OthersSame
  <1>5. Recorded(d)'
    BY <1>1, <1>2, <1>4 DEF Recorded, Here
  <1> QED
    BY <1>3, <1>5

\* and the last of its person if it was.
LEMMA OtherLast ==
  ASSUME Typed, ShapedAll, ShapedAll', NEW c \in Conn, NEW d \in Conn \ {c}, OnlyTo(c), OthersSame(c),
         Harmless(c), OneThing(d), Alone(d), LastOne(d)
  PROVE  LastOne(d)'
  <1> USE NoneApart
  <1>1. /\ conn'[d] = conn[d] /\ \A x \in Conn \ {c} : conn'[x] = conn[x]
        /\ \A e : e.conn = d => (e \in exits' <=> e \in exits)
    BY DEF OnlyTo, OthersSame
  <1>2. ASSUME Threads(d), conn[d].pid # None, conn'[c].pid = conn[d].pid
        PROVE  /\ conn[c].pid = conn[d].pid /\ (conn'[c].st = "open" => conn[c].st = "open")
               /\ conn'[c].room \in {conn[c].room, None}
    <2>1. conn[d].pid \in Pid
      BY <1>2 DEF Typed, Connection, IdOrNone
    <2>2. conn[d].pid[1] = Whose[d] /\ conn'[c].pid[1] = Whose[c]
      BY <1>2, <2>1 DEF ShapedAll, Shaped
    <2>3. ~Threads(c)
      BY <1>2, <2>2 DEF Alone
    <2> QED
      BY <1>2, <2>3 DEF Harmless
  <1>3. conn'[d].bye = "disconnect" => \A x \in Conn : conn'[x].pid = conn'[d].pid => conn'[x].st # "open"
    <2> SUFFICES ASSUME conn[d].bye = "disconnect", NEW x \in Conn, conn'[x].pid = conn[d].pid
                 PROVE  conn'[x].st # "open"
      BY <1>1
    <2>1. Threads(d) /\ conn[d].pid # None
      BY DEF Threads, OneThing
    <2> QED
      BY <1>1, <1>2, <2>1 DEF LastOne
  <1>4. ASSUME NEW e \in exits', e.conn = d, e.st = "say", NEW x \in Conn, conn'[x].pid = conn'[d].pid
        PROVE  conn'[x].room # e.room
    <2>1. e \in exits /\ e.room \in Rooms
      BY <1>1, <1>4 DEF Typed
    <2>2. Threads(d) /\ conn[d].pid # None
      BY <1>4, <2>1 DEF Threads, OneThing
    <2>3. \A y \in Conn : conn[y].pid = conn[d].pid => conn[y].room # e.room
      BY <1>4, <2>1 DEF LastOne
    <2> QED
      BY <1>1, <1>2, <1>4, <2>1, <2>2, <2>3
  <1> QED
    BY <1>3, <1>4 DEF LastOne

\* So a step of one connection is right if it is for that one.
LEMMA ConnCountedBy ==
  ASSUME Typed, ShapedAll, ShapedAll', ConnCounted, crossed \subseteq crossed',
         NEW c \in Conn, OnlyTo(c), OthersSame(c), Harmless(c), StartsAlone(c),
         Kept(c)' => OneThing(c)' /\ Recorded(c)' /\ LastOne(c)'
  PROVE  ConnCounted'
  <1>0. \A d \in Conn : Kept(d)' => Kept(d)
    BY DEF Kept
  <1>1. ASSUME NEW d \in Conn \ {c}, Kept(d)'
        PROVE  OneThing(d)' /\ Alone(d)' /\ Recorded(d)' /\ LastOne(d)'
    <2>1. OneThing(d) /\ Alone(d) /\ Recorded(d) /\ LastOne(d)
      BY <1>0, <1>1 DEF ConnCounted
    <2>2. Alone(d)'
      <3> SUFFICES ASSUME Threads(d)', NEW x \in Conn \ {d}, Whose[x] = Whose[d] PROVE ~Threads(x)'
        BY DEF Alone
      <3>1. Threads(d) /\ ~Threads(x)
        BY <2>1, SameThreads DEF Alone
      <3>2. CASE x # c
        BY <3>1, <3>2, SameThreads
      <3>3. CASE x = c
        BY <1>1, <3>1, <3>3 DEF StartsAlone, Kept
      <3> QED
        BY <3>2, <3>3
    <2> QED
      BY <2>1, <2>2, OtherRecorded, OtherLast
  <1>2. ASSUME Kept(c)' PROVE Alone(c)'
    <2> SUFFICES ASSUME Threads(c)', NEW x \in Conn \ {c}, Whose[x] = Whose[c] PROVE ~Threads(x)'
      BY DEF Alone
    <2>1. Alone(c)
      BY <1>0, <1>2 DEF ConnCounted
    <2>2. ~Threads(x)
      BY <1>2, <2>1 DEF StartsAlone, Alone
    <2> QED
      BY <2>2, SameThreads
  <1> QED
    BY <1>1, <1>2 DEF ConnCounted

\* The last one stays the last one through steps of its own.
LEMMA LastOneKeeps ==
  ASSUME Typed, Typed', ShapedAll', NEW c \in Conn, OnlyTo(c), LastOne(c), OneThing(c)',
         conn'[c].bye = "disconnect" => conn[c].bye = "disconnect",
         \A e \in exits' : e.conn = c /\ e.st = "say" => e \in exits,
         conn'[c].pid = conn[c].pid \/ (conn'[c].bye = "no" /\ \A e \in exits' : e.conn # c)
  PROVE  LastOne(c)'
  <1> USE NoneApart
  <1>1. \A x \in Conn \ {c} : conn'[x] = conn[x]
    BY DEF OnlyTo
  <1>2. conn'[c].bye = "disconnect" => conn'[c].st # "open"
    BY DEF ShapedAll, Shaped
  <1>3. \A e \in exits' : e.conn = c => conn'[c].room # e.room
    BY DEF OneThing, Typed
  <1> QED
    BY <1>1, <1>2, <1>3 DEF LastOne

-----------------------------------------------------------------------------
(* What the rows and the rooms say of an id.                               *)

Live(c) == conn[c].st = "open" \/ conn[c].bye \in {"gone", "disconnect"}
Stays(c, k) == conn[c].room = k \/ Leaves(c, k)
Spoken(c, k) == Here(c, k) /\ conn[c].at # "joined"
KeepsCount(x) == row'[x].st = "member" => row[x].st = "member" /\ row'[x].connected = row[x].connected
\* The step changes nothing of how the connection counts, or another does.
KeepsCounted(c) ==
    /\ conn'[c].pid = conn[c].pid
    /\ conn[c].at = "connected" => conn'[c].at = "connected" /\ conn'[c].want = conn[c].want
    /\ conn[c].pid # None =>
          /\ Live(c) => Live(c)' \/ \E d \in Conn \ {c} : conn[d].pid = conn[c].pid /\ Live(d)
          /\ conn'[c].st = "open" => conn[c].st = "open"
          /\ \A k \in Rooms :
                /\ Stays(c, k) => Stays(c, k)' \/ \E d \in Conn \ {c} : conn[d].pid = conn[c].pid /\ Stays(d, k)
                /\ Spoken(c, k)' => Spoken(c, k)

\* The other fields of a row do not count.
LEMMA FieldKeepsCount ==
  ASSUME Typed, NEW i, NEW v, row' = [row EXCEPT ![i].waiting = v] \/ row' = [row EXCEPT ![i].room = v]
  PROVE  \A x \in Pid : KeepsCount(x)
  <1>1. CASE row' = [row EXCEPT ![i].waiting = v]
    BY <1>1 DEF Typed, Row, KeepsCount
  <1>2. CASE row' = [row EXCEPT ![i].room = v]
    BY <1>2 DEF Typed, Row, KeepsCount
  <1> QED
    BY <1>1, <1>2

\* A row counts the connections it counted.
LEMMA RowCountsBy ==
  ASSUME NEW c \in Conn, OnlyTo(c), NEW i \in Pid, RowCounts(i), KeepsCount(i),
         Counts(c, i) => Counts(c, i)' \/ \E d \in Conn \ {c} : Counts(d, i),
         conn'[c].pid = i /\ conn'[c].st = "open" => conn[c].pid = i /\ conn[c].st = "open"
  PROVE  RowCounts(i)'
  <1>1. \A d \in Conn \ {c} : conn'[d] = conn[d]
    BY DEF OnlyTo
  <1>2. (\E d \in Conn : Counts(d, i)) => \E d \in Conn : Counts(d, i)'
    BY <1>1 DEF Counts
  <1>3. OpenOf(i)' # {} => OpenOf(i) # {}
    BY <1>1 DEF OpenOf
  <1> QED
    BY <1>2, <1>3 DEF RowCounts, KeepsCount

\* A room was told what it was told.
LEMMA ToldOfBy ==
  ASSUME NEW c \in Conn, OnlyTo(c), OthersSame(c), NEW i \in Pid, NEW k \in Rooms, ToldOf(i, k),
         said'[k][i] = said[k][i],
         conn[c].pid = i /\ Stays(c, k) =>
             \/ conn'[c].pid = i /\ Stays(c, k)'
             \/ \E d \in Conn \ {c} : conn[d].pid = i /\ Stays(d, k),
         conn'[c].pid = i /\ Spoken(c, k)' => conn[c].pid = i /\ Spoken(c, k)
  PROVE  ToldOf(i, k)'
  <1>1. \A d \in Conn \ {c} : /\ conn'[d] = conn[d]
                              /\ Leaves(d, k) => Leaves(d, k)'
    BY DEF OnlyTo, OthersSame, Leaves
  <1>2. ASSUME said'[k][i] = "joined"
        PROVE  \E d \in Conn : conn'[d].pid = i /\ (conn'[d].room = k \/ Leaves(d, k)')
    <2>1. PICK d \in Conn : conn[d].pid = i /\ Stays(d, k)
      BY <1>2 DEF ToldOf, Stays
    <2>2. \A x \in Conn \ {c} : conn[x].pid = i /\ Stays(x, k) => conn'[x].pid = i /\ Stays(x, k)'
      BY <1>1 DEF Stays
    <2>3. \E x \in Conn : conn'[x].pid = i /\ Stays(x, k)'
      BY <2>1, <2>2
    <2> QED
      BY <2>3 DEF Stays
  <1>3. ASSUME NEW d \in Conn, conn'[d].pid = i, Here(d, k)', conn'[d].at # "joined"
        PROVE  said'[k][i] = "joined"
    <2>1. conn[d].pid = i /\ Spoken(d, k)
      BY <1>1, <1>3 DEF Spoken, Here
    <2> QED
      BY <2>1 DEF ToldOf, Spoken
  <1> QED
    BY <1>2, <1>3 DEF ToldOf

\* Nobody whose id is not crossed is counted by a connection that is.
LEMMA CrossedApart ==
  ASSUME ShapedAll, ShapedAll', NEW c \in Conn, NEW i \in Pid, i[1] \notin crossed', ~Kept(c)'
  PROVE  conn[c].pid # i /\ conn'[c].pid # i /\ ~Counts(c, i)
  BY DEF ShapedAll, Shaped, Kept, Counts

\* So a step that changes nothing of how it counts is right.
LEMMA IdCountedBy ==
  ASSUME Typed, ShapedAll, ShapedAll', IdCounted, crossed \subseteq crossed', said' = said,
         NEW c \in Conn, OnlyTo(c), OthersSame(c), \A x \in Pid : KeepsCount(x),
         Kept(c)' => KeepsCounted(c)
  PROVE  IdCounted'
  <1> USE NoneApart
  <1> SUFFICES ASSUME NEW i \in Pid, i[1] \notin crossed'
               PROVE  RowCounts(i)' /\ \A k \in Rooms : ToldOf(i, k)'
    BY DEF IdCounted
  <1>1. RowCounts(i) /\ \A k \in Rooms : ToldOf(i, k)
    BY DEF IdCounted
  <1>2. CASE ~Kept(c)'
    BY <1>1, <1>2, CrossedApart, RowCountsBy, ToldOfBy
  <1>3. CASE Kept(c)'
    <2>1. KeepsCounted(c)
      BY <1>3
    <2>2. /\ Counts(c, i) => Counts(c, i)' \/ \E d \in Conn \ {c} : Counts(d, i)
          /\ conn'[c].pid = i /\ conn'[c].st = "open" => conn[c].pid = i /\ conn[c].st = "open"
      BY <2>1 DEF KeepsCounted, Counts, Live
    <2>3. \A k \in Rooms :
             /\ conn[c].pid = i /\ Stays(c, k) =>
                   \/ conn'[c].pid = i /\ Stays(c, k)'
                   \/ \E d \in Conn \ {c} : conn[d].pid = i /\ Stays(d, k)
             /\ conn'[c].pid = i /\ Spoken(c, k)' => conn[c].pid = i /\ Spoken(c, k)
      BY <2>1 DEF KeepsCounted
    <2> QED
      BY <1>1, <2>2, <2>3, RowCountsBy, ToldOfBy
  <1> QED
    BY <1>2, <1>3

-----------------------------------------------------------------------------
(* What the steps do to it.                                                *)

CountedNow == SocketsInv /\ SocketsInv' /\ CountedInv

\* Nothing is recorded elsewhere.
LEMMA NothingElse ==
  ASSUME NEW c \in Conn, UNCHANGED <<exits, registry, present>>
  PROVE  OthersSame(c)
  BY DEF OthersSame

\* Whoever starts something beside another thread of theirs is crossed.
LEMMA OverlapsAlone ==
  ASSUME NEW c \in Conn, Overlaps(Whose[c]), Kept(c)'
  PROVE  \A d \in Conn : Whose[d] = Whose[c] => ~Threads(d) /\ ~conn[d].closing
  BY DEF Overlaps, Kept, PersonBusy, Busy

\* Where a connection is that joins.
LEMMA JoiningRecorded ==
  ASSUME SocketsInv', NEW c \in Conn, Joining(c)', \A e \in exits' : e.conn # c,
         c \in present'["session"] <=> conn'[c].pid # None /\ (conn'[c].st = "open" \/ conn'[c].bye = "gone")
  PROVE  Recorded(c)' /\ conn'[c].room = None
  <1>1. OutOfRooms(c)'
    BY DEF SocketsInv, JoiningOutside
  <1> QED
    BY <1>1, NoneApart DEF Recorded, Here, OutOfRooms

\* Connect starts a thread for someone who has none.
LEMMA CountedConnect ==
  ASSUME CountedNow, NEW c \in Conn, Connect(c)
  PROVE  CountedInv'
  <1> USE DEF CountedNow, SocketsInv
  <1>1. /\ OnlyTo(c) /\ conn'[c].st = "open" /\ conn'[c].at = "upsert" /\ conn'[c].pid = conn[c].pid
        /\ conn'[c].room = conn[c].room /\ conn'[c].bye = conn[c].bye /\ conn[c].st = "new"
        /\ UNCHANGED <<registry, present, row, exits, said>>
    BY ConnectMeans DEF KeepsPlace, Connect
  <1>2. conn[c].pid = None /\ conn[c].at = "idle" /\ conn[c].bye = "no"
    BY <1>1 DEF ShapedAll, Shaped
  <1>3. crossed \subseteq crossed' /\ OthersSame(c)
    BY <1>1, NothingElse DEF Connect, Overlaps
  <1>4. Kept(c)' => \A d \in Conn : Whose[d] = Whose[c] => ~Threads(d)
    BY OverlapsAlone DEF Connect, Kept
  <1>5. Harmless(c) /\ StartsAlone(c)
    BY <1>1, <1>2, <1>4 DEF Harmless, StartsAlone
  <1>6. ASSUME Kept(c)' PROVE OneThing(c)' /\ Recorded(c)' /\ LastOne(c)'
    <2>1. OneThing(c) /\ Recorded(c) /\ LastOne(c)
      BY <1>3, <1>6 DEF CountedInv, ConnCounted, Kept
    <2>2. \A e \in exits' : e.conn # c
      BY <1>1, <1>2, <2>1 DEF OneThing
    <2>3. Recorded(c)' /\ conn'[c].room = None
      BY <1>1, <1>2, <2>1, <2>2, JoiningRecorded DEF Joining, Recorded
    <2>4. OneThing(c)'
      BY <1>1, <1>2, <2>2, <2>3 DEF OneThing
    <2> QED
      BY <1>1, <1>2, <2>1, <2>2, <2>3, <2>4, LastOneKeeps
  <1>7. KeepsCounted(c) /\ \A x \in Pid : KeepsCount(x)
    BY <1>1, <1>2 DEF KeepsCounted, KeepsCount
  <1>8. ConnCounted'
    BY <1>1, <1>3, <1>5, <1>6, ConnCountedBy DEF CountedInv
  <1>9. IdCounted'
    BY <1>1, <1>3, <1>6, <1>7, IdCountedBy DEF CountedInv
  <1> QED
    BY ZenonT(60), <1>8, <1>9 DEF CountedInv

\* The waiting room and the welcome: still in no room.
LEMMA CountedAdmission ==
  ASSUME CountedNow, NEW c \in Conn, Admission(c) \/ Complete(c)
  PROVE  CountedInv'
  <1> USE DEF CountedNow, SocketsInv
  <1>1. /\ OnlyTo(c) /\ KeepsWho(c) /\ KeepsLife(c) /\ conn'[c].room = conn[c].room
        /\ conn[c].at \in {"admission", "complete"}
        /\ \/ conn'[c].at \in {"idle", "complete"}
           \/ conn'[c].at = "access" /\ conn'[c].want \in Rooms
        /\ UNCHANGED <<registry, present, exits, said, crossed>>
    BY AdmissionMeans, CompleteMeans DEF KeepsPlace, Admission, Complete
  <1>2. /\ conn[c].room = None /\ conn[c].pid # None
        /\ \A k \in Rooms : c \notin registry[k] \cup present[k]
    BY <1>1 DEF JoiningOutside, Joining, OutOfRooms, ShapedAll, Shaped
  <1>3. \A x \in Pid : KeepsCount(x)
    <2>1. CASE Complete(c)
      BY <2>1 DEF Complete, rows, KeepsCount
    <2>2. CASE Admission(c)
      <3>1. row' = row \/ \E i, v : row' = [row EXCEPT ![i].waiting = v]
        BY <2>2 DEF Admission
      <3> QED
        BY <3>1, FieldKeepsCount DEF KeepsCount
    <2> QED
      BY ZenonT(60), <2>1, <2>2
  <1>4. OthersSame(c) /\ Harmless(c) /\ StartsAlone(c)
    BY <1>1, NothingElse DEF Harmless, StartsAlone, KeepsWho, KeepsLife, Threads
  <1>5. ASSUME Kept(c)' PROVE OneThing(c)' /\ Recorded(c)' /\ LastOne(c)'
    <2>1. OneThing(c) /\ Recorded(c) /\ LastOne(c)
      BY <1>1, <1>5 DEF CountedInv, ConnCounted, Kept
    <2>2. \A e \in exits : e.conn # c
      BY <1>1, <2>1 DEF OneThing
    <2>3. OneThing(c)'
      BY <1>1, <1>2, <2>1, <2>2, NoneApart DEF OneThing, KeepsWho, KeepsLife
    <2>4. Recorded(c)'
      BY <1>1, <1>2, <2>1, <2>2, NoneApart DEF Recorded, Here, KeepsWho, KeepsLife
    <2> QED
      BY <1>1, <2>1, <2>2, <2>3, <2>4, LastOneKeeps DEF KeepsWho, KeepsLife
  <1>6. KeepsCounted(c)
    BY <1>1, <1>2, NoneApart DEF KeepsCounted, KeepsWho, KeepsLife, Live, Stays, Spoken, Here, Leaves
  <1>7. ConnCounted'
    BY <1>1, <1>4, <1>5, ConnCountedBy DEF CountedInv
  <1>8. IdCounted'
    BY <1>1, <1>3, <1>4, <1>6, IdCountedBy DEF CountedInv
  <1> QED
    BY ZenonT(60), <1>7, <1>8 DEF CountedInv

\* What Upsert does to the rows.
LEMMA UpsertRows ==
  ASSUME Typed, ShapedAll, NEW c \in Conn, Upsert(c)
  PROVE  \/ row' = row /\ conn'[c].at = "idle"
         \/ /\ conn'[c].at = "connected" /\ conn'[c].want \in Pid
            /\ \A x \in Pid \ {conn'[c].want} : row'[x] = row[x]
            /\ row'[conn'[c].want].connected = TRUE
  <1>1. PICK i : \/ row' = row /\ conn' = [conn EXCEPT ![c].at = "idle"]
                 \/ /\ row' = [row EXCEPT ![i].st = "member", ![i].connected = TRUE]
                    /\ conn' = [conn EXCEPT ![c].want = i, ![c].at = "connected"]
    BY DEF Upsert, Goto
  <1>2. CASE row' = row /\ conn' = [conn EXCEPT ![c].at = "idle"]
    BY <1>2 DEF Typed, Connection
  <1>3. CASE /\ row' = [row EXCEPT ![i].st = "member", ![i].connected = TRUE]
             /\ conn' = [conn EXCEPT ![c].want = i, ![c].at = "connected"]
    <2>1. conn'[c].at = "connected" /\ conn'[c].want = i
      BY <1>3 DEF Typed, Connection
    <2>2. i \in Pid
      BY <2>1, UpsertMeans
    <2> QED
      BY <1>3, <2>1, <2>2 DEF Typed, Row
  <1> QED
    BY <1>1, <1>2, <1>3

\* Upsert marks the row of the connection that comes.
LEMMA CountedUpsert ==
  ASSUME CountedNow, NEW c \in Conn, Upsert(c)
  PROVE  CountedInv'
  <1> USE DEF CountedNow, SocketsInv
  <1>1. /\ OnlyTo(c) /\ KeepsWho(c) /\ KeepsLife(c) /\ KeepsPlace(c)
        /\ conn[c].at = "upsert" /\ conn'[c].at \in {"idle", "connected"}
        /\ UNCHANGED <<registry, present, exits, said, crossed>>
    BY UpsertMeans DEF Upsert
  <1>2. /\ conn[c].room = None /\ conn[c].pid = None
        /\ \A k \in Rooms : c \notin registry[k] \cup present[k]
    BY <1>1 DEF JoiningOutside, Joining, OutOfRooms, ShapedAll, Shaped
  <1>4. OthersSame(c) /\ Harmless(c) /\ StartsAlone(c)
    BY <1>1, NothingElse DEF Harmless, StartsAlone, KeepsWho, KeepsLife, KeepsPlace, Threads
  <1>5. ASSUME Kept(c)' PROVE OneThing(c)' /\ Recorded(c)' /\ LastOne(c)'
    <2>1. OneThing(c) /\ Recorded(c) /\ LastOne(c)
      BY <1>1, <1>5 DEF CountedInv, ConnCounted, Kept
    <2>2. \A e \in exits : e.conn # c
      BY <1>1, <2>1 DEF OneThing
    <2>3. OneThing(c)'
      BY <1>1, <1>2, <2>1, <2>2, NoneApart DEF OneThing, KeepsWho, KeepsLife, KeepsPlace
    <2>4. Recorded(c)'
      BY <1>1, <1>2, <2>1, <2>2, NoneApart DEF Recorded, Here, KeepsWho, KeepsLife, KeepsPlace
    <2> QED
      BY <1>1, <2>1, <2>2, <2>3, <2>4, LastOneKeeps DEF KeepsWho, KeepsLife
  <1>6. ConnCounted'
    BY <1>1, <1>4, <1>5, ConnCountedBy DEF CountedInv
  <1>7. ASSUME NEW i \in Pid, i[1] \notin crossed'
        PROVE  RowCounts(i)' /\ \A k \in Rooms : ToldOf(i, k)'
    <2>1. RowCounts(i) /\ \A k \in Rooms : ToldOf(i, k)
      BY <1>1, <1>7 DEF CountedInv, IdCounted
    <2>2. conn[c].pid # i /\ conn'[c].pid # i
      BY <1>1, <1>2, NoneApart DEF KeepsWho
    <2>3. \A k \in Rooms : ToldOf(i, k)'
      BY <1>1, <1>4, <2>1, <2>2, ToldOfBy
    <2>4. CASE KeepsCount(i)
      BY <1>1, <2>1, <2>2, <2>3, <2>4, RowCountsBy DEF Counts
    <2>5. CASE ~KeepsCount(i)
      <3>1. conn'[c].at = "connected" /\ conn'[c].want = i /\ row'[i].connected = TRUE
        BY <2>5, UpsertRows DEF KeepsCount
      <3> QED
        BY <2>3, <3>1 DEF RowCounts, Counts
    <2> QED
      BY <2>4, <2>5
  <1> QED
    BY ZenonT(60), <1>6, <1>7 DEF CountedInv, IdCounted

\* Register gives the id, whose row counts the connection that is there now.
LEMMA CountedRegister ==
  ASSUME CountedNow, NEW c \in Conn, Register(c)
  PROVE  CountedInv'
  <1> USE DEF CountedNow, SocketsInv
  <1> DEFINE i == conn[c].want
  <1>1. /\ OnlyTo(c) /\ KeepsLife(c) /\ KeepsPlace(c) /\ conn'[c].pid = i
        /\ conn[c].at = "connected" /\ conn'[c].at = "admission"
        /\ UNCHANGED <<exits, said, crossed>>
    BY RegisterMeans DEF Register
  <1>2. /\ conn[c].room = None /\ conn[c].pid = None /\ i \in Pid /\ i[1] = Whose[c]
        /\ \A k \in Rooms : c \notin registry[k] \cup present[k]
    BY <1>1 DEF JoiningOutside, Joining, OutOfRooms, ShapedAll, Shaped
  <1>3. /\ \A k \in Rooms : registry'[k] = registry[k] /\ present'[k] = present[k]
        /\ present'["session"] = present["session"] \cup {c}
    BY DEF Register, Typed, Scopes, Rooms
  <1>4. OthersSame(c) /\ Harmless(c) /\ StartsAlone(c)
    BY <1>1, <1>3 DEF OthersSame, Harmless, StartsAlone, KeepsLife, KeepsPlace, Threads
  <1>5. ASSUME Kept(c)' PROVE OneThing(c) /\ OneThing(c)' /\ Recorded(c)' /\ LastOne(c)'
    <2>1. OneThing(c) /\ Recorded(c) /\ LastOne(c)
      BY <1>1, <1>5 DEF CountedInv, ConnCounted, Kept
    <2>2. (\A e \in exits : e.conn # c) /\ conn[c].st = "open" /\ conn[c].bye = "no"
      BY <1>1, <2>1 DEF OneThing, ShapedAll, Shaped
    <2>3. OneThing(c)'
      BY <1>1, <1>2, <2>1, <2>2, NoneApart DEF OneThing, KeepsLife, KeepsPlace
    <2>4. Recorded(c)'
      BY <1>1, <1>2, <1>3, <2>1, <2>2, NoneApart DEF Recorded, Here, KeepsLife, KeepsPlace
    <2> QED
      BY <1>1, <2>1, <2>2, <2>3, <2>4, LastOneKeeps DEF KeepsLife
  <1>6. ConnCounted'
    BY <1>1, <1>4, <1>5, ConnCountedBy DEF CountedInv
  <1>r. /\ \A x \in Pid \ {i} : row'[x] = row[x]
        /\ row'[i].st = row[i].st /\ (row[i].st = "member" => row'[i].connected)
    <2>1. row' = [row EXCEPT ![i].connected = @ \/ row[i].st # "none"]
      BY DEF Register
    <2> QED
      BY <1>2, <2>1 DEF Typed, Row
  <1> HIDE DEF i
  <1>7. ASSUME NEW x \in Pid, x[1] \notin crossed'
        PROVE  RowCounts(x)' /\ \A k \in Rooms : ToldOf(x, k)'
    <2>1. RowCounts(x) /\ \A k \in Rooms : ToldOf(x, k)
      BY <1>1, <1>7 DEF CountedInv, IdCounted
    <2>2. \A k \in Rooms : ~Spoken(c, k)'
      BY <1>1, <1>2, NoneApart DEF Spoken, Here, KeepsPlace
    <2>3. \A k \in Rooms : ToldOf(x, k)'
      BY <1>1, <1>2, <1>4, <2>1, <2>2, NoneApart, ToldOfBy
    <2>4. CASE x # i
      <3>1. KeepsCount(x) /\ ~Counts(c, x)
        BY <1>1, <1>2, <1>r, <2>4, NoneApart DEF KeepsCount, Counts, i
      <3> QED
        BY <1>1, <2>1, <2>3, <2>4, <3>1, RowCountsBy
    <2>5. CASE x = i
      <3>1. Kept(c)'
        BY <1>2, <1>7, <2>5 DEF Kept
      <3>2. conn'[c].st = "open"
        BY <1>1, <1>5, <3>1 DEF OneThing
      <3> QED
        BY <1>1, <1>r, <2>3, <2>5, <3>2 DEF RowCounts, Counts
    <2> QED
      BY <2>4, <2>5
  <1> QED
    BY <1>6, <1>7 DEF CountedInv, IdCounted

\* Leaving a room, up to the first await.
LEMMA OutMeans ==
  ASSUME Typed, NEW c \in Conn, NEW how, Out(c, how), present' = present
  PROVE  /\ OthersSame(c)
         /\ \A k \in Rooms : c \in registry'[k] <=> c \in registry[k] /\ conn[c].room # k
         /\ \/ conn[c].room = None /\ exits' = exits
            \/ /\ conn[c].room \in Rooms
               /\ exits' = exits \cup {[conn |-> c, room |-> conn[c].room, st |-> "gone", how |-> how]}
  <1>1. conn[c].room \in Rooms \cup {None}
    BY DEF Typed, Connection
  <1>2. \A k \in Rooms : registry'[k] = IF conn[c].room = k THEN registry[k] \ {c} ELSE registry[k]
    BY OutRegistry
  <1>3. \/ conn[c].room = None /\ exits' = exits
        \/ /\ conn[c].room \in Rooms
           /\ exits' = exits \cup {[conn |-> c, room |-> conn[c].room, st |-> "gone", how |-> how]}
    BY <1>1 DEF Out
  <1>4. \A e \in exits \cup exits' : e.conn # c => e \in exits /\ e \in exits'
    BY <1>3
  <1>5. OthersSame(c)
    BY <1>2, <1>4 DEF OthersSame
  <1> QED
    BY <1>2, <1>3, <1>5

\* A connection that leaves is in no registry, and present until it is gone.
LEMMA LeftRecorded ==
  ASSUME Typed, NEW c \in Conn, NEW how, Out(c, how), present' = present, Recorded(c),
         \A e \in exits : e.conn # c, conn[c].at # "enter",
         conn'[c].room = None, conn'[c].pid = conn[c].pid, conn'[c].st = conn[c].st,
         conn'[c].bye = "gone" <=> conn[c].bye = "gone"
  PROVE  /\ Recorded(c)'
         /\ \A e \in exits' : e.conn = c => /\ e = [conn |-> c, room |-> conn[c].room, st |-> "gone", how |-> how]
                                            /\ e.how = how /\ e.st = "gone"
         /\ \A k \in Rooms : Stays(c, k) => Stays(c, k)'
  <1> USE NoneApart
  <1> DEFINE new == [conn |-> c, room |-> conn[c].room, st |-> "gone", how |-> how]
  <1>0. new.conn = c /\ new.room = conn[c].room /\ new.st = "gone" /\ new.how = how
    OBVIOUS
  <1>1. \/ conn[c].room = None /\ exits' = exits
        \/ conn[c].room \in Rooms /\ exits' = exits \cup {new}
    BY OutMeans
  <1> HIDE DEF new
  <1>2. \A e \in exits' : e.conn = c => e = new
    BY <1>1
  <1>3. conn[c].room # None => new \in exits'
    BY <1>1
  <1>4. ASSUME NEW k \in Rooms
        PROVE  /\ c \in registry'[k] <=> Here(c, k)'
               /\ c \in present'[k] <=> \/ Here(c, k)'
                                        \/ \E e \in exits' : e.conn = c /\ e.room = k /\ e.st = "gone"
    <2>1. ~Here(c, k)' /\ (Here(c, k) <=> conn[c].room = k)
      BY DEF Here
    <2>2. c \notin registry'[k]
      BY <2>1, OutMeans DEF Recorded
    <2>3. c \in present'[k] <=> conn[c].room = k
      BY <2>1 DEF Recorded
    <2>4. (\E e \in exits' : e.conn = c /\ e.room = k /\ e.st = "gone") <=> conn[c].room = k
      BY <1>0, <1>2, <1>3
    <2> QED
      BY <2>1, <2>2, <2>3, <2>4
  <1>5. c \in present'["session"] <=> conn'[c].pid # None /\ (conn'[c].st = "open" \/ conn'[c].bye = "gone")
    BY DEF Recorded
  <1>6. \A k \in Rooms : Stays(c, k) => Stays(c, k)'
    BY <1>0, <1>1 DEF Stays, Leaves
  <1> QED
    BY <1>0, <1>2, <1>4, <1>5, <1>6 DEF Recorded, new

\* Whoever is let into another room leaves the one they are in.
LEMMA CountedAccess ==
  ASSUME CountedNow, NEW c \in Conn, Access(c)
  PROVE  CountedInv'
  <1> USE DEF CountedNow, SocketsInv
  <1>1. /\ OnlyTo(c) /\ KeepsWho(c) /\ KeepsLife(c) /\ conn'[c].want = conn[c].want
        /\ conn[c].at = "access" /\ conn[c].pid # None /\ conn[c].want \in Rooms
        /\ UNCHANGED <<present, row, said, crossed>>
        /\ conn'[c].at \in {"idle", "move"}
    BY AccessMeans DEF Access, ShapedAll, Shaped
  <1>2. \/ conn'[c].at = "idle" /\ conn'[c].room = conn[c].room /\ UNCHANGED <<registry, exits>>
        \/ /\ conn'[c].at = "move"
           /\ \/ conn[c].room = conn[c].want /\ conn'[c].room = conn[c].want /\ UNCHANGED <<registry, exits>>
              \/ conn'[c].room = None /\ Out(c, "switch")
    BY AccessMeans
  <1>3. OthersSame(c)
    BY <1>1, <1>2, NothingElse, OutMeans
  <1>4. Harmless(c) /\ StartsAlone(c)
    BY <1>1, <1>2 DEF Harmless, StartsAlone, KeepsWho, KeepsLife, Threads, Kept
  <1>5. ASSUME Kept(c)'
        PROVE  OneThing(c)' /\ Recorded(c)' /\ LastOne(c)' /\ KeepsCounted(c)
    <2>1. OneThing(c) /\ Recorded(c) /\ LastOne(c)
      BY <1>1, <1>5 DEF CountedInv, ConnCounted, Kept
    <2>2. (\A e \in exits : e.conn # c) /\ conn[c].room # conn[c].want
      BY <1>1, <2>1 DEF OneThing
    <2>3. CASE conn'[c].at = "idle" /\ conn'[c].room = conn[c].room /\ UNCHANGED <<registry, exits>>
      <3>1. OneThing(c)'
        BY <1>1, <2>1, <2>2, <2>3 DEF OneThing, KeepsWho, KeepsLife
      <3>2. Recorded(c)'
        BY <1>1, <2>1, <2>3 DEF Recorded, Here, KeepsWho, KeepsLife
      <3>3. LastOne(c)'
        BY <1>1, <2>1, <2>3, <3>1, LastOneKeeps DEF KeepsWho, KeepsLife
      <3>4. KeepsCounted(c)
        BY <1>1, <2>3 DEF KeepsCounted, KeepsWho, KeepsLife, Live, Stays, Spoken, Here, Leaves
      <3> QED
        BY <3>1, <3>2, <3>3, <3>4
    <2>4. CASE conn'[c].at = "move" /\ conn'[c].room = None /\ Out(c, "switch")
      <3>1. /\ Recorded(c)'
            /\ \A e \in exits' : e.conn = c =>
                  /\ e = [conn |-> c, room |-> conn[c].room, st |-> "gone", how |-> "switch"]
                  /\ e.how = "switch" /\ e.st = "gone"
            /\ \A k \in Rooms : Stays(c, k) => Stays(c, k)'
        BY <1>1, <2>1, <2>2, <2>4, LeftRecorded DEF KeepsWho, KeepsLife
      <3>2. OneThing(c)'
        BY <1>1, <2>1, <2>4, <3>1, NoneApart DEF OneThing, KeepsWho, KeepsLife
      <3>3. LastOne(c)'
        BY <1>1, <2>1, <3>1, <3>2, LastOneKeeps DEF KeepsWho, KeepsLife
      <3>4. KeepsCounted(c)
        BY <1>1, <2>4, <3>1, NoneApart DEF KeepsCounted, KeepsWho, KeepsLife, Live, Spoken, Here
      <3> QED
        BY <3>1, <3>2, <3>3, <3>4
    <2> QED
      BY <1>2, <2>2, <2>3, <2>4
  <1>6. \A x \in Pid : KeepsCount(x)
    BY <1>1 DEF KeepsCount
  <1> QED
    BY <1>1, <1>3, <1>4, <1>5, <1>6, ConnCountedBy, IdCountedBy DEF CountedInv

\* The room is written into the row.
LEMMA CountedMove ==
  ASSUME CountedNow, NEW c \in Conn, Move(c)
  PROVE  CountedInv'
  <1> USE DEF CountedNow, SocketsInv
  <1>1. /\ OnlyTo(c) /\ KeepsWho(c) /\ KeepsLife(c) /\ conn'[c].want = conn[c].want
        /\ conn[c].at = "move" /\ conn[c].pid # None /\ conn[c].want \in Rooms
        /\ UNCHANGED <<registry, present, exits, said, crossed>>
        /\ \/ conn'[c].at = "idle" /\ conn'[c].room = conn[c].room
           \/ conn'[c].at = "enter" /\ conn'[c].room = conn[c].want
        /\ \A e \in exits : e.conn = c => e.how # "switch"
    BY MoveMeans DEF Move, ShapedAll, Shaped
  <1>2. \A x \in Pid : KeepsCount(x)
    <2>1. row' = row \/ \E i, v : row' = [row EXCEPT ![i].room = v]
      BY DEF Move
    <2> QED
      BY <2>1, FieldKeepsCount DEF KeepsCount
  <1>3. OthersSame(c) /\ Harmless(c) /\ StartsAlone(c)
    BY <1>1, NothingElse DEF Harmless, StartsAlone, KeepsWho, KeepsLife, Threads
  <1>4. ASSUME Kept(c)'
        PROVE  OneThing(c)' /\ Recorded(c)' /\ LastOne(c)' /\ KeepsCounted(c)
    <2>1. OneThing(c) /\ Recorded(c) /\ LastOne(c)
      BY <1>1, <1>4 DEF CountedInv, ConnCounted, Kept
    <2>2. (\A e \in exits : e.conn # c) /\ conn[c].room = None
      BY <1>1, <2>1 DEF OneThing
    <2>3. OneThing(c)'
      BY <1>1, <2>1, <2>2, NoneApart DEF OneThing, ShapedAll, Shaped, KeepsWho, KeepsLife
    <2>4. Recorded(c)'
      BY <1>1, <2>1, <2>2, NoneApart DEF Recorded, Here, KeepsWho, KeepsLife
    <2>5. LastOne(c)'
      BY <1>1, <2>1, <2>2, <2>3, LastOneKeeps DEF KeepsWho, KeepsLife
    <2>6. KeepsCounted(c)
      BY <1>1, <2>2, NoneApart DEF KeepsCounted, KeepsWho, KeepsLife, Live, Stays, Spoken, Here, Leaves
    <2> QED
      BY <2>3, <2>4, <2>5, <2>6
  <1> QED
    BY <1>1, <1>2, <1>3, <1>4, ConnCountedBy, IdCountedBy DEF CountedInv

\* The connection is in the room,
LEMMA CountedEnter ==
  ASSUME CountedNow, NEW c \in Conn, Enter(c)
  PROVE  CountedInv'
  <1> USE DEF CountedNow, SocketsInv
  <1>1. /\ OnlyTo(c) /\ KeepsWho(c) /\ KeepsLife(c) /\ KeepsPlace(c) /\ conn'[c].want = conn[c].want
        /\ conn[c].at = "enter" /\ conn'[c].at = "joined" /\ conn[c].pid # None /\ conn[c].want \in Rooms
        /\ UNCHANGED <<rows, exits, said, crossed>>
    BY EnterMeans DEF Enter, ShapedAll, Shaped
  <1>2. /\ \A k \in Rooms : /\ registry'[k] = IF k = conn[c].want THEN registry[k] \cup {c} ELSE registry[k]
                            /\ present'[k] = IF k = conn[c].want THEN present[k] \cup {c} ELSE present[k]
        /\ present'["session"] = present["session"]
    BY <1>1 DEF Enter, Typed, Scopes, Rooms
  <1>3. OthersSame(c) /\ Harmless(c) /\ StartsAlone(c)
    BY <1>1, <1>2 DEF OthersSame, Harmless, StartsAlone, KeepsWho, KeepsLife, KeepsPlace, Threads
  <1>4. ASSUME Kept(c)'
        PROVE  OneThing(c)' /\ Recorded(c)' /\ LastOne(c)' /\ KeepsCounted(c)
    <2>1. OneThing(c) /\ Recorded(c) /\ LastOne(c)
      BY <1>1, <1>4 DEF CountedInv, ConnCounted, Kept
    <2>2. (\A e \in exits : e.conn # c) /\ conn[c].room = conn[c].want
      BY <1>1, <2>1 DEF OneThing
    <2>3. OneThing(c)'
      BY <1>1, <2>1, <2>2 DEF OneThing, KeepsWho, KeepsLife, KeepsPlace
    <2>4. ASSUME NEW k \in Rooms
          PROVE  /\ c \in registry'[k] <=> Here(c, k)'
                 /\ c \in present'[k] <=> Here(c, k)' \/ \E e \in exits' : e.conn = c /\ e.room = k /\ e.st = "gone"
      <3>1. c \notin registry[k] /\ c \notin present[k]
        BY <1>1, <2>1, <2>2 DEF Recorded, Here
      <3> QED
        BY <1>1, <1>2, <2>2, <3>1 DEF Here, KeepsPlace
    <2>5. Recorded(c)'
      BY <1>1, <1>2, <2>1, <2>4 DEF Recorded, KeepsWho, KeepsLife
    <2>6. LastOne(c)'
      BY <1>1, <2>1, <2>3, LastOneKeeps DEF KeepsWho, KeepsLife
    <2>7. KeepsCounted(c)
      BY <1>1, <2>2 DEF KeepsCounted, KeepsWho, KeepsLife, KeepsPlace, Live, Stays, Spoken, Here, Leaves
    <2> QED
      BY <2>3, <2>5, <2>6, <2>7
  <1>5. \A x \in Pid : KeepsCount(x)
    BY <1>1 DEF KeepsCount, rows
  <1> QED
    BY <1>1, <1>3, <1>4, <1>5, ConnCountedBy, IdCountedBy DEF CountedInv

\* and the room is told.
LEMMA CountedSayJoined ==
  ASSUME CountedNow, NEW c \in Conn, SayJoined(c)
  PROVE  CountedInv'
  <1> USE DEF CountedNow, SocketsInv
  <1>1. /\ OnlyTo(c) /\ KeepsWho(c) /\ KeepsLife(c) /\ KeepsPlace(c)
        /\ conn[c].at = "joined" /\ conn'[c].at = "idle" /\ conn[c].pid # None /\ conn[c].want \in Rooms
        /\ UNCHANGED <<rows, registry, present, exits, crossed>>
    BY SayJoinedMeans DEF SayJoined, ShapedAll, Shaped
  <1>p. conn[c].pid \in Pid
    BY <1>1 DEF Typed, Connection, IdOrNone
  <1>2. /\ \A k \in Rooms, i \in Pid : k # conn[c].want \/ i # conn[c].pid => said'[k][i] = said[k][i]
        /\ said'[conn[c].want][conn[c].pid] = "joined"
    BY <1>1, <1>p DEF SayJoined, Typed
  <1>3. OthersSame(c) /\ Harmless(c) /\ StartsAlone(c)
    BY <1>1, NothingElse DEF Harmless, StartsAlone, KeepsWho, KeepsLife, KeepsPlace, Threads
  <1>4. ASSUME Kept(c)'
        PROVE  OneThing(c)' /\ Recorded(c)' /\ LastOne(c)'
               /\ conn[c].room = conn[c].want
    <2>1. OneThing(c) /\ Recorded(c) /\ LastOne(c)
      BY <1>1, <1>4 DEF CountedInv, ConnCounted, Kept
    <2>2. (\A e \in exits : e.conn # c) /\ conn[c].room = conn[c].want
      BY <1>1, <2>1 DEF OneThing
    <2>3. OneThing(c)'
      BY <1>1, <2>1, <2>2 DEF OneThing, KeepsWho, KeepsLife, KeepsPlace
    <2>4. Recorded(c)'
      BY <1>1, <2>1, <2>2 DEF Recorded, Here, KeepsWho, KeepsLife, KeepsPlace
    <2>5. LastOne(c)'
      BY <1>1, <2>1, <2>3, LastOneKeeps DEF KeepsWho, KeepsLife
    <2> QED
      BY <2>2, <2>3, <2>4, <2>5
  <1>5. ConnCounted'
    BY <1>1, <1>3, <1>4, ConnCountedBy DEF CountedInv
  <1>6. ASSUME NEW i \in Pid, i[1] \notin crossed'
        PROVE  RowCounts(i)' /\ \A k \in Rooms : ToldOf(i, k)'
    <2>1. RowCounts(i) /\ \A k \in Rooms : ToldOf(i, k)
      BY <1>1, <1>6 DEF CountedInv, IdCounted
    <2>2. RowCounts(i)'
      BY <1>1, <2>1, RowCountsBy DEF KeepsCount, rows, Counts, KeepsWho, KeepsLife
    <2>3. ASSUME NEW k \in Rooms PROVE ToldOf(i, k)'
      <3>1. CASE conn[c].pid = i
        <4>1. conn[c].room = conn[c].want
          BY <1>1, <1>4, <1>6, <3>1 DEF Kept, ShapedAll, Shaped
        <4>2. CASE k = conn[c].want
          BY <1>1, <1>2, <3>1, <4>1, <4>2 DEF ToldOf, KeepsWho, KeepsPlace
        <4>3. CASE k # conn[c].want
          <5>1. ~Here(c, k)' /\ said'[k][i] = said[k][i]
            BY <1>1, <1>2, <4>1, <4>3 DEF Here, KeepsPlace
          <5>2. Stays(c, k) => Stays(c, k)'
            BY <1>1 DEF Stays, Leaves, KeepsPlace
          <5> QED
            BY <1>1, <1>3, <2>1, <5>1, <5>2, ToldOfBy DEF Spoken, KeepsWho
        <4> QED
          BY <4>2, <4>3
      <3>2. CASE conn[c].pid # i
        BY <1>1, <1>2, <1>3, <2>1, <3>2, ToldOfBy DEF KeepsWho
      <3> QED
        BY <3>1, <3>2
    <2> QED
      BY <2>2, <2>3
  <1> QED
    BY <1>5, <1>6 DEF CountedInv, IdCounted

\* A close sees who else of the person is there,
LEMMA CountedCloseGone ==
  ASSUME CountedNow, NEW c \in Conn, CloseGone(c)
  PROVE  CountedInv'
  <1> USE DEF CountedNow, SocketsInv
  <1> DEFINE others == Connections("session", conn[c].pid) \ {c}
  <1>1. /\ OnlyTo(c) /\ KeepsWho(c) /\ KeepsPlace(c) /\ conn'[c].st = conn[c].st /\ conn'[c].at = conn[c].at
        /\ conn'[c].want = conn[c].want /\ conn[c].bye = "gone"
        /\ conn'[c].bye = IF others = {} THEN "disconnect" ELSE "leave"
        /\ UNCHANGED <<rows, registry, exits, said, crossed>>
    BY CloseGoneMeans DEF CloseGone
  <1>2. /\ \A k \in Rooms : present'[k] = present[k]
        /\ present'["session"] = present["session"] \ {c}
    BY SocketsAssumption DEF CloseGone, Typed, Scopes, Rooms
  <1>3. OthersSame(c) /\ Harmless(c) /\ StartsAlone(c)
    BY <1>1, <1>2 DEF OthersSame, Harmless, StartsAlone, KeepsWho, KeepsPlace, Threads
  <1>4. ASSUME Kept(c)'
        PROVE  OneThing(c)' /\ Recorded(c)' /\ LastOne(c)' /\ KeepsCounted(c)
    <2>1. OneThing(c) /\ Recorded(c) /\ LastOne(c) /\ conn[c].st = "closed"
      BY <1>1, <1>4 DEF CountedInv, ConnCounted, Kept, ShapedAll, Shaped
    <2>2. (\A e \in exits : e.conn # c) /\ conn[c].pid # None /\ conn[c].at = "idle"
      BY <1>1, <2>1 DEF OneThing
    <2>3. \A d \in Conn : conn[d].pid = conn[c].pid => Recorded(d)
      <3>1. conn[c].pid \in Pid
        BY <2>2 DEF Typed, Connection, IdOrNone
      <3>2. \A d \in Conn : conn[d].pid = conn[c].pid => Whose[d] = Whose[c]
        BY <3>1 DEF ShapedAll, Shaped
      <3> QED
        BY <1>1, <1>4, <3>2 DEF CountedInv, ConnCounted, Kept
    <2>4. OneThing(c)'
      BY <1>1, <2>1, <2>2 DEF OneThing, KeepsWho, KeepsPlace
    <2>5. Recorded(c)'
      BY <1>1, <1>2, <2>1, <2>2 DEF Recorded, Here, KeepsWho, KeepsPlace
    <2>6. LastOne(c)'
      <3>1. ASSUME others = {}, NEW d \in Conn, conn[d].pid = conn[c].pid PROVE conn[d].st # "open"
        BY <2>1, <2>2, <2>3, <3>1 DEF Recorded, Connections
      <3>2. conn'[c].bye = "disconnect" =>
               \A d \in Conn : conn'[d].pid = conn'[c].pid => conn'[d].st # "open"
        BY <1>1, <2>1, <3>1 DEF OnlyTo, KeepsWho
      <3> QED
        BY <1>1, <2>2, <3>2 DEF LastOne
    <2>7. Live(c)' \/ \E d \in Conn \ {c} : conn[d].pid = conn[c].pid /\ Live(d)
      <3>1. CASE others = {}
        BY <1>1, <3>1 DEF Live
      <3>2. CASE others # {}
        <4>1. PICK d \in others : TRUE
          BY <3>2
        <4>2. d \in Conn \ {c} /\ conn[d].pid = conn[c].pid /\ d \in present["session"]
          BY <4>1 DEF Connections, Typed, Scopes
        <4> QED
          BY <2>3, <4>2 DEF Recorded, Live
      <3> QED
        BY <3>1, <3>2
    <2>8. KeepsCounted(c)
      BY <1>1, <2>1, <2>2, <2>7 DEF KeepsCounted, KeepsWho, KeepsPlace, Stays, Spoken, Here, Leaves
    <2> QED
      BY <2>4, <2>5, <2>6, <2>8
  <1>5. \A x \in Pid : KeepsCount(x)
    BY <1>1 DEF KeepsCount, rows
  <1> QED
    BY <1>1, <1>3, <1>4, <1>5, ConnCountedBy, IdCountedBy DEF CountedInv

\* marks the row when it was the last,
LEMMA CountedDisconnect ==
  ASSUME CountedNow, NEW c \in Conn, Disconnect(c)
  PROVE  CountedInv'
  <1> USE DEF CountedNow, SocketsInv
  <1>1. /\ OnlyTo(c) /\ KeepsWho(c) /\ KeepsPlace(c) /\ conn'[c].st = conn[c].st /\ conn'[c].at = conn[c].at
        /\ conn'[c].want = conn[c].want /\ conn[c].bye = "disconnect" /\ conn'[c].bye = "leave"
        /\ UNCHANGED <<registry, present, exits, said, crossed>>
    BY DisconnectMeans DEF Disconnect
  <1>2. OthersSame(c) /\ Harmless(c) /\ StartsAlone(c)
    BY <1>1, NothingElse DEF Harmless, StartsAlone, KeepsWho, KeepsPlace, Threads
  <1>3. ASSUME Kept(c)'
        PROVE  /\ OneThing(c)' /\ Recorded(c)' /\ LastOne(c)'
               /\ conn[c].at = "idle" /\ conn[c].pid # None
               /\ \A d \in Conn : conn[d].pid = conn[c].pid => conn[d].st # "open"
    <2>1. OneThing(c) /\ Recorded(c) /\ LastOne(c) /\ conn[c].st = "closed"
      BY <1>1, <1>3 DEF CountedInv, ConnCounted, Kept, ShapedAll, Shaped
    <2>2. (\A e \in exits : e.conn # c) /\ conn[c].pid # None /\ conn[c].at = "idle"
      BY <1>1, <2>1 DEF OneThing
    <2>3. OneThing(c)'
      BY <1>1, <2>1, <2>2 DEF OneThing, KeepsWho, KeepsPlace
    <2>4. Recorded(c)'
      BY <1>1, <2>1, <2>2 DEF Recorded, Here, KeepsWho, KeepsPlace
    <2>5. LastOne(c)'
      BY <1>1, <2>1, <2>3, LastOneKeeps DEF KeepsWho
    <2> QED
      BY <1>1, <2>1, <2>2, <2>3, <2>4, <2>5 DEF LastOne
  <1>4. ConnCounted'
    BY <1>1, <1>2, <1>3, ConnCountedBy DEF CountedInv
  <1>5. /\ \A x \in Pid : x # conn[c].pid => row'[x] = row[x]
        /\ conn[c].pid \in Pid => row'[conn[c].pid].connected = FALSE
    BY DEF Disconnect, Typed, Row
  <1>6. ASSUME NEW i \in Pid, i[1] \notin crossed'
        PROVE  RowCounts(i)' /\ \A k \in Rooms : ToldOf(i, k)'
    <2>1. RowCounts(i) /\ \A k \in Rooms : ToldOf(i, k)
      BY <1>1, <1>6 DEF CountedInv, IdCounted
    <2>2. \A k \in Rooms : ToldOf(i, k)'
      BY <1>1, <1>2, <2>1, ToldOfBy DEF KeepsWho, KeepsPlace, Stays, Spoken, Here, Leaves
    <2>3. CASE conn[c].pid = i
      <3>1. Kept(c)'
        BY <1>1, <1>6, <2>3 DEF Kept, ShapedAll, Shaped
      <3>2. OpenOf(i)' = {}
        BY <1>1, <1>3, <2>3, <3>1 DEF OpenOf, OnlyTo, KeepsWho
      <3> QED
        BY <1>5, <2>2, <2>3, <3>2 DEF RowCounts
    <2>4. CASE conn[c].pid # i
      <3>1. KeepsCount(i) /\ (Counts(c, i) => Counts(c, i)')
        BY <1>1, <1>5, <2>4 DEF KeepsCount, Counts
      <3> QED
        BY <1>1, <2>1, <2>2, <2>4, <3>1, RowCountsBy DEF KeepsWho
    <2> QED
      BY <2>3, <2>4
  <1> QED
    BY <1>4, <1>6 DEF CountedInv, IdCounted

\* leaves the room
LEMMA CountedCloseLeave ==
  ASSUME CountedNow, NEW c \in Conn, CloseLeave(c)
  PROVE  CountedInv'
  <1> USE DEF CountedNow, SocketsInv
  <1>1. /\ OnlyTo(c) /\ KeepsWho(c) /\ conn'[c].st = conn[c].st /\ conn'[c].at = conn[c].at
        /\ conn'[c].want = conn[c].want /\ conn[c].bye = "leave" /\ conn'[c].bye = "unregister"
        /\ conn'[c].room = None /\ Out(c, "close")
        /\ UNCHANGED <<rows, present, said, crossed>>
    BY CloseLeaveMeans DEF CloseLeave
  <1>2. OthersSame(c) /\ Harmless(c) /\ StartsAlone(c)
    BY <1>1, OutMeans DEF Harmless, StartsAlone, KeepsWho, Threads
  <1>3. ASSUME Kept(c)'
        PROVE  OneThing(c)' /\ Recorded(c)' /\ LastOne(c)' /\ KeepsCounted(c)
    <2>1. OneThing(c) /\ Recorded(c) /\ LastOne(c) /\ conn[c].st = "closed"
      BY <1>1, <1>3 DEF CountedInv, ConnCounted, Kept, ShapedAll, Shaped
    <2>2. (\A e \in exits : e.conn # c) /\ conn[c].at = "idle"
      BY <1>1, <2>1 DEF OneThing
    <2>3. /\ Recorded(c)'
          /\ \A e \in exits' : e.conn = c =>
                /\ e = [conn |-> c, room |-> conn[c].room, st |-> "gone", how |-> "close"]
                /\ e.how = "close" /\ e.st = "gone"
          /\ \A k \in Rooms : Stays(c, k) => Stays(c, k)'
      BY <1>1, <2>1, <2>2, LeftRecorded DEF KeepsWho
    <2>4. \A e \in exits' : e.conn = c => conn[c].pid # None
      <3> SUFFICES ASSUME NEW e \in exits', e.conn = c PROVE conn[c].pid # None
        OBVIOUS
      <3>1. e.room \in Rooms /\ e.room = conn[c].room
        BY <2>3 DEF Typed
      <3> QED
        BY <3>1, NoneApart DEF JoiningOutside, Joining, OutOfRooms
    <2>5. OneThing(c)'
      BY <1>1, <2>1, <2>2, <2>3, <2>4 DEF OneThing, KeepsWho
    <2>6. LastOne(c)'
      BY <1>1, <2>1, <2>3, <2>5, LastOneKeeps DEF KeepsWho
    <2>7. KeepsCounted(c)
      BY <1>1, <2>1, <2>2, <2>3, NoneApart DEF KeepsCounted, KeepsWho, Live, Spoken, Here
    <2> QED
      BY <2>3, <2>5, <2>6, <2>7
  <1>4. \A x \in Pid : KeepsCount(x)
    BY <1>1 DEF KeepsCount, rows
  <1> QED
    BY <1>1, <1>2, <1>3, <1>4, ConnCountedBy, IdCountedBy DEF CountedInv

\* and the session's registry.
LEMMA CountedUnregister ==
  ASSUME CountedNow, NEW c \in Conn, Unregister(c)
  PROVE  CountedInv'
  <1> USE DEF CountedNow, SocketsInv
  <1>1. /\ OnlyTo(c) /\ KeepsWho(c) /\ KeepsPlace(c) /\ conn'[c].st = conn[c].st /\ conn'[c].at = conn[c].at
        /\ conn'[c].want = conn[c].want /\ conn[c].bye = "unregister" /\ conn'[c].bye = "done"
        /\ \A e \in exits : e.conn = c => e.how # "close"
        /\ UNCHANGED <<rows, present, exits, said, crossed>>
    BY UnregisterMeans DEF Unregister
  <1>2. \A k \in Rooms : registry'[k] = registry[k]
    BY SocketsAssumption DEF Unregister, Typed, Scopes, Rooms
  <1>3. OthersSame(c) /\ Harmless(c) /\ StartsAlone(c)
    BY <1>1, <1>2 DEF OthersSame, Harmless, StartsAlone, KeepsWho, KeepsPlace, Threads
  <1>4. ASSUME Kept(c)'
        PROVE  OneThing(c)' /\ Recorded(c)' /\ LastOne(c)' /\ KeepsCounted(c)
    <2>1. OneThing(c) /\ Recorded(c) /\ LastOne(c) /\ conn[c].st = "closed"
      BY <1>1, <1>4 DEF CountedInv, ConnCounted, Kept, ShapedAll, Shaped
    <2>2. (\A e \in exits : e.conn # c) /\ conn[c].at = "idle" /\ conn[c].room = None
      BY <1>1, <2>1 DEF OneThing
    <2>3. OneThing(c)'
      BY <1>1, <2>1, <2>2 DEF OneThing, KeepsWho, KeepsPlace
    <2>4. Recorded(c)'
      BY <1>1, <1>2, <2>1, <2>2 DEF Recorded, Here, KeepsWho, KeepsPlace
    <2>5. LastOne(c)'
      BY <1>1, <2>1, <2>2, <2>3, LastOneKeeps DEF KeepsWho
    <2>6. KeepsCounted(c)
      BY <1>1, <2>1, <2>2 DEF KeepsCounted, KeepsWho, KeepsPlace, Live, Stays, Spoken, Here, Leaves
    <2> QED
      BY <2>3, <2>4, <2>5, <2>6
  <1>5. \A x \in Pid : KeepsCount(x)
    BY <1>1 DEF KeepsCount, rows
  <1> QED
    BY <1>1, <1>3, <1>4, <1>5, ConnCountedBy, IdCountedBy DEF CountedInv

\* The close of a socket starts all that, for someone who does nothing else.
LEMMA CountedClose ==
  ASSUME CountedNow, NEW c \in Conn, Close(c)
  PROVE  CountedInv'
  <1> USE DEF CountedNow, SocketsInv
  <1>1. /\ OnlyTo(c) /\ KeepsWho(c) /\ KeepsPlace(c) /\ conn'[c].at = conn[c].at /\ conn'[c].want = conn[c].want
        /\ conn[c].st = "open" /\ conn'[c].st = "closed"
        /\ conn'[c].bye = IF conn[c].pid = None THEN "leave" ELSE "gone"
        /\ UNCHANGED <<rows, registry, present, exits, said>>
    BY CloseMeans DEF Close
  <1>2. /\ crossed \subseteq crossed'
        /\ Kept(c)' => ~Threads(c) /\ \A d \in Conn \ {c} : Whose[d] = Whose[c] => ~Threads(d)
    BY DEF Close, Kept, Busy
  <1>3. OthersSame(c) /\ Harmless(c) /\ StartsAlone(c)
    BY <1>1, <1>2, NothingElse DEF Harmless, StartsAlone, KeepsWho, KeepsPlace
  <1>4. ASSUME Kept(c)'
        PROVE  OneThing(c)' /\ Recorded(c)' /\ LastOne(c)' /\ KeepsCounted(c)
    <2>1. OneThing(c) /\ Recorded(c) /\ LastOne(c)
      BY <1>2, <1>4 DEF CountedInv, ConnCounted, Kept
    <2>2. (\A e \in exits : e.conn # c) /\ conn[c].at = "idle" /\ conn[c].bye = "no"
      BY <1>1, <1>2, <1>4 DEF Threads, ShapedAll, Shaped
    <2>3. OneThing(c)'
      BY <1>1, <2>1, <2>2 DEF OneThing, KeepsWho, KeepsPlace
    <2>4. Recorded(c)'
      BY <1>1, <2>1, <2>2 DEF Recorded, Here, KeepsWho, KeepsPlace
    <2>5. LastOne(c)'
      BY <1>1, <2>1, <2>2, <2>3, LastOneKeeps DEF KeepsWho
    <2>6. KeepsCounted(c)
      BY <1>1, <2>1, <2>2 DEF KeepsCounted, KeepsWho, KeepsPlace, Live, Stays, Spoken, Here, Leaves
    <2> QED
      BY <2>3, <2>4, <2>5, <2>6
  <1>5. \A x \in Pid : KeepsCount(x)
    BY <1>1 DEF KeepsCount, rows
  <1> QED
    BY <1>1, <1>2, <1>3, <1>4, <1>5, ConnCountedBy, IdCountedBy DEF CountedInv

\* So does a request for a room.
LEMMA CountedAskRoom ==
  ASSUME CountedNow, NEW c \in Conn, NEW k \in Rooms, NEW code \in BOOLEAN, AskRoom(c, k, code)
  PROVE  CountedInv'
  <1> USE DEF CountedNow, SocketsInv
  <1>1. /\ OnlyTo(c) /\ KeepsWho(c) /\ KeepsLife(c) /\ KeepsPlace(c) /\ conn'[c].want = k
        /\ conn[c].at = "idle" /\ conn'[c].at = "access" /\ conn[c].st = "open" /\ conn[c].room # k
        /\ UNCHANGED <<rows, registry, present, exits, said>>
    BY AskRoomMeans DEF AskRoom, MayAsk
  <1>2. crossed \subseteq crossed'
    BY DEF AskRoom, Overlaps
  <1>3. Kept(c)' => \A d \in Conn : Whose[d] = Whose[c] => ~Threads(d)
    BY OverlapsAlone DEF AskRoom
  <1>4. OthersSame(c) /\ Harmless(c) /\ StartsAlone(c)
    BY <1>1, <1>3, NothingElse DEF Harmless, StartsAlone, KeepsWho, KeepsLife, KeepsPlace
  <1>5. ASSUME Kept(c)'
        PROVE  OneThing(c)' /\ Recorded(c)' /\ LastOne(c)' /\ KeepsCounted(c)
    <2>1. OneThing(c) /\ Recorded(c) /\ LastOne(c)
      BY <1>2, <1>5 DEF CountedInv, ConnCounted, Kept
    <2>2. \A e \in exits : e.conn # c
      BY <1>3, <1>5 DEF Threads
    <2>3. OneThing(c)'
      BY <1>1, <2>1, <2>2 DEF OneThing, KeepsWho, KeepsLife, KeepsPlace
    <2>4. Recorded(c)'
      BY <1>1, <2>1, <2>2 DEF Recorded, Here, KeepsWho, KeepsLife, KeepsPlace
    <2>5. LastOne(c)'
      BY <1>1, <2>1, <2>2, <2>3, LastOneKeeps DEF KeepsWho, KeepsLife
    <2>6. KeepsCounted(c)
      BY <1>1 DEF KeepsCounted, KeepsWho, KeepsLife, KeepsPlace, Live, Stays, Spoken, Here, Leaves
    <2> QED
      BY <2>3, <2>4, <2>5, <2>6
  <1>6. \A x \in Pid : KeepsCount(x)
    BY <1>1 DEF KeepsCount, rows
  <1> QED
    BY <1>1, <1>2, <1>4, <1>5, <1>6, ConnCountedBy, IdCountedBy DEF CountedInv

\* Only a presence that nothing stands behind expires.
LEMMA CountedExpire ==
  ASSUME CountedNow, NEW c \in Conn, NEW s \in Scopes, Expire(c, s)
  PROVE  CountedInv'
  <1> USE DEF CountedNow, SocketsInv
  <1>1. /\ conn[c].bye = "done" /\ conn[c].at = "idle" /\ c \in present[s]
        /\ UNCHANGED <<rows, conn, registry, exits, said, crossed>>
    BY DEF Expire
  <1>2. \A x \in Scopes : present'[x] = IF x = s THEN present[x] \ {c} ELSE present[x]
    BY DEF Expire, Typed
  <1>3. OnlyTo(c) /\ OthersSame(c) /\ Harmless(c) /\ StartsAlone(c)
    <2>1. OnlyTo(c) /\ Harmless(c) /\ StartsAlone(c)
      BY <1>1 DEF OnlyTo, Harmless, StartsAlone, Threads
    <2>2. OthersSame(c)
      BY <1>1, <1>2 DEF OthersSame, Scopes
    <2> QED
      BY <2>1, <2>2
  <1>4. ~Kept(c)'
    <2> SUFFICES ASSUME Kept(c)' PROVE FALSE
      OBVIOUS
    <2>1. OneThing(c) /\ Recorded(c) /\ conn[c].st = "closed"
      BY <1>1 DEF CountedInv, ConnCounted, Kept, ShapedAll, Shaped
    <2>2. (\A e \in exits : e.conn # c) /\ conn[c].room = None
      BY <1>1, <2>1 DEF OneThing
    <2> QED
      BY <1>1, <2>1, <2>2, NoneApart DEF Recorded, Here, Scopes
  <1>5. \A x \in Pid : KeepsCount(x)
    BY <1>1 DEF KeepsCount, rows
  <1> QED
    BY <1>1, <1>3, <1>4, <1>5, ConnCountedBy, IdCountedBy DEF CountedInv

\* Out of the room's presence: whoever finds nobody else has the room told.
LEMMA CountedGone ==
  ASSUME CountedNow, NEW e \in exits, Gone(e)
  PROVE  CountedInv'
  <1> USE DEF CountedNow, SocketsInv
  <1> DEFINE c == e.conn
             new == [e EXCEPT !.st = "say"]
  <1>1. /\ c \in Conn /\ e.room \in Rooms /\ e.st = "gone"
        /\ exits' = (exits \ {e}) \cup IF Others(e) = {} THEN {new} ELSE {}
        /\ UNCHANGED <<rows, conn, registry, said, crossed>>
    BY DEF Gone, Typed
  <1>2. \A x \in Scopes : present'[x] = IF x = e.room THEN present[x] \ {c} ELSE present[x]
    BY DEF Gone, Typed
  <1>3. new.conn = c /\ new.room = e.room /\ new.how = e.how /\ new.st = "say"
    BY DEF Typed
  <1>k. e.room # "session" /\ \A k \in Rooms : k \in Scopes
    BY <1>1 DEF Rooms, Scopes
  <1> HIDE DEF new
  <1>4. OnlyTo(c) /\ Harmless(c) /\ StartsAlone(c)
    BY <1>1 DEF OnlyTo, Harmless, StartsAlone, Threads
  <1>5. OthersSame(c)
    <2>1. \A f \in exits \cup exits' : f.conn # c => f \in exits /\ f \in exits'
      BY <1>1, <1>3
    <2>2. \A k \in Scopes, d \in Conn \ {c} : d \in present'[k] <=> d \in present[k]
      BY <1>2
    <2> QED
      BY <1>1, <2>1, <2>2 DEF OthersSame, Scopes
  <1>6. ASSUME Kept(c)'
        PROVE  OneThing(c)' /\ Recorded(c)' /\ LastOne(c)' /\ KeepsCounted(c)
    <2>1. OneThing(c) /\ Alone(c) /\ Recorded(c) /\ LastOne(c)
      BY <1>1, <1>6 DEF CountedInv, ConnCounted, Kept
    <2>2. /\ conn[c].room = None /\ conn[c].pid # None /\ conn[c].bye # "disconnect"
          /\ \A f \in exits : f.conn = c => f = e
      BY <2>1, <1>1 DEF OneThing, ShapedAll, Shaped
    <2>3. \A f \in exits' : f.conn = c => f = new /\ Others(e) = {}
      BY <1>1, <2>2
    <2>4. \A d \in Conn \ {c} : conn[d].pid = conn[c].pid => Recorded(d) /\ conn[d].at = "idle"
      <3>1. conn[c].pid \in Pid
        BY <1>1, <2>2 DEF Typed, Connection, IdOrNone
      <3>2. \A d \in Conn : conn[d].pid = conn[c].pid => Whose[d] = Whose[c]
        BY <1>1, <3>1 DEF ShapedAll, Shaped
      <3>3. Threads(c)
        BY DEF Threads
      <3> QED
        BY <1>1, <1>6, <2>1, <3>2, <3>3 DEF CountedInv, ConnCounted, Kept, Alone, Threads
    <2>5. OneThing(c)'
      BY <1>1, <1>3, <2>1, <2>2, <2>3 DEF OneThing
    <2>6. Recorded(c)'
      <3>1. ASSUME NEW k \in Rooms
            PROVE  /\ c \in registry'[k] <=> Here(c, k)'
                   /\ c \in present'[k] <=> Here(c, k)' \/ \E f \in exits' : f.conn = c /\ f.room = k /\ f.st = "gone"
        <4>1. ~Here(c, k) /\ ~Here(c, k)'
          BY <1>1, <2>2, NoneApart DEF Here
        <4>2. ~\E f \in exits' : f.conn = c /\ f.room = k /\ f.st = "gone"
          BY <1>3, <2>3
        <4>3. c \notin present'[k]
          BY <1>2, <1>k, <2>1, <2>2, <4>1 DEF Recorded
        <4> QED
          BY <1>1, <2>1, <4>1, <4>2, <4>3 DEF Recorded
      <3>2. c \in present'["session"] <=> c \in present["session"]
        BY <1>2, <1>k DEF Scopes
      <3> QED
        BY <1>1, <2>1, <3>1, <3>2 DEF Recorded
    <2>7. LastOne(c)'
      <3>1. ASSUME Others(e) = {}, NEW d \in Conn, conn[d].pid = conn[c].pid, conn[d].room = e.room
            PROVE  FALSE
        <4>1. d # c
          BY <1>1, <2>2, <3>1, NoneApart
        <4>2. Recorded(d) /\ Here(d, e.room)
          BY <2>4, <3>1, <4>1 DEF Here
        <4>3. d \in Others(e)
          BY <1>1, <3>1, <4>1, <4>2 DEF Recorded, Others, Connections
        <4> QED
          BY <3>1, <4>3
      <3> QED
        BY <1>1, <1>3, <2>2, <2>3, <3>1 DEF LastOne
    <2>8. ASSUME NEW k \in Rooms, Stays(c, k)
          PROVE  Stays(c, k)' \/ \E d \in Conn \ {c} : conn[d].pid = conn[c].pid /\ Stays(d, k)
      <3>1. k = e.room
        BY <2>2, <2>8, NoneApart DEF Stays, Leaves
      <3>2. CASE Others(e) = {}
        <4>1. new \in exits'
          BY <1>1, <3>2
        <4> QED
          BY <1>3, <3>1, <4>1 DEF Stays, Leaves
      <3>3. CASE Others(e) # {}
        <4>1. PICK d \in Others(e) : TRUE
          BY <3>3
        <4>2. d \in Conn \ {c} /\ conn[d].pid = conn[c].pid /\ d \in present[k]
          BY <1>k, <3>1, <4>1 DEF Others, Connections, Typed
        <4> QED
          BY <2>4, <4>2 DEF Recorded, Stays, Here, Leaves
      <3> QED
        BY <3>2, <3>3
    <2>9. KeepsCounted(c)
      BY <1>1, <2>2, <2>8 DEF KeepsCounted, Live, Spoken, Here, ShapedAll, Shaped
    <2> QED
      BY <2>5, <2>6, <2>7, <2>9
  <1>7. \A x \in Pid : KeepsCount(x)
    BY <1>1 DEF KeepsCount, rows
  <1> HIDE DEF c
  <1> QED
    BY <1>1, <1>4, <1>5, <1>6, <1>7, ConnCountedBy, IdCountedBy DEF CountedInv

\* The room is told by the last one to leave.
LEMMA CountedSayLeft ==
  ASSUME CountedNow, NEW e \in exits, SayLeft(e)
  PROVE  CountedInv'
  <1> USE DEF CountedNow, SocketsInv
  <1> DEFINE c == e.conn
  <1>1. /\ c \in Conn /\ e.room \in Rooms /\ e.st = "say" /\ exits' = exits \ {e}
        /\ UNCHANGED <<rows, conn, registry, present, crossed>>
    BY DEF SayLeft, Typed
  <1>2. /\ \A k \in Rooms, i \in Pid : k # e.room \/ i # conn[c].pid => said'[k][i] = said[k][i]
        /\ conn[c].pid \in Pid => said'[e.room][conn[c].pid] = "left"
    BY <1>1 DEF SayLeft, Typed
  <1>3. OnlyTo(c) /\ Harmless(c) /\ StartsAlone(c) /\ OthersSame(c)
    BY <1>1 DEF OnlyTo, Harmless, StartsAlone, Threads, OthersSame
  <1>4. ASSUME Kept(c)'
        PROVE  /\ OneThing(c)' /\ Recorded(c)' /\ LastOne(c)'
               /\ \A d \in Conn : conn[d].pid = conn[c].pid => conn[d].room # e.room
    <2>1. OneThing(c) /\ Recorded(c) /\ LastOne(c)
      BY <1>1, <1>4 DEF CountedInv, ConnCounted, Kept
    <2>2. OneThing(c)'
      BY <1>1, <2>1 DEF OneThing
    <2>3. Recorded(c)'
      BY <1>1, <2>1 DEF Recorded, Here
    <2>4. LastOne(c)'
      BY <1>1, <2>1 DEF LastOne
    <2> QED
      BY <1>1, <2>1, <2>2, <2>3, <2>4 DEF LastOne
  <1> HIDE DEF c
  <1>5. ConnCounted'
    BY <1>1, <1>3, <1>4, ConnCountedBy DEF CountedInv
  <1>6. ASSUME NEW i \in Pid, i[1] \notin crossed'
        PROVE  RowCounts(i)' /\ \A k \in Rooms : ToldOf(i, k)'
    <2>1. RowCounts(i) /\ \A k \in Rooms : ToldOf(i, k)
      BY <1>1, <1>6 DEF CountedInv, IdCounted
    <2>2. RowCounts(i)'
      BY <1>1, <1>3, <2>1, RowCountsBy DEF KeepsCount, rows, Counts
    <2>3. ASSUME NEW k \in Rooms PROVE ToldOf(i, k)'
      <3>1. CASE conn[c].pid = i /\ k = e.room
        <4>1. Kept(c)'
          BY <1>1, <1>6, <3>1 DEF Kept, ShapedAll, Shaped
        <4>2. said'[k][i] # "joined" /\ \A d \in Conn : conn[d].pid = i => conn[d].room # k
          BY <1>2, <1>4, <3>1, <4>1
        <4> QED
          BY <1>1, <4>2 DEF ToldOf, Here
      <3>2. CASE ~(conn[c].pid = i /\ k = e.room)
        <4>1. said'[k][i] = said[k][i]
          BY <1>2, <3>2
        <4>2. conn[c].pid = i /\ Stays(c, k) => Stays(c, k)'
          BY <1>1, <3>2 DEF Stays, Leaves
        <4> QED
          BY <1>1, <1>3, <2>1, <4>1, <4>2, ToldOfBy DEF Spoken, Here
      <3> QED
        BY <3>1, <3>2
    <2> QED
      BY <2>2, <2>3
  <1> QED
    BY <1>5, <1>6 DEF CountedInv, IdCounted

\* An event puts a connection out of a room, or lets it in, only where nothing
\* else of the person's is under way.
LEMMA CountedDeliver ==
  ASSUME CountedNow, NEW m \in mail, Deliver(m)
  PROVE  CountedInv'
  <1> USE DEF CountedNow, SocketsInv
  <1> DEFINE c == m.to
             lets == Decides(c, m) /\ m.what = "let in"
  <1>1. /\ c \in Conn /\ OnlyTo(c) /\ KeepsWho(c) /\ conn'[c].st = conn[c].st /\ conn'[c].bye = conn[c].bye
        /\ conn'[c].want = conn[c].want
        /\ conn'[c].room = (IF Bans(c, m) THEN None ELSE conn[c].room)
        /\ conn'[c].at = (IF lets THEN "complete" ELSE conn[c].at)
        /\ UNCHANGED <<rows, present, said>>
    BY DeliverMeans DEF Deliver
  <1>2. /\ IF Bans(c, m) THEN Out(c, "removal") ELSE UNCHANGED <<registry, exits>>
        /\ IF Bans(c, m) \/ Decides(c, m) THEN Overlaps(Whose[c]) ELSE UNCHANGED crossed
    BY DEF Deliver
  <1>3. crossed \subseteq crossed' /\ OthersSame(c)
    BY <1>1, <1>2, NothingElse, OutMeans DEF Overlaps
  <1>4. ASSUME Kept(c)', Bans(c, m) \/ lets
        PROVE  \A d \in Conn : Whose[d] = Whose[c] => ~Threads(d)
    BY <1>1, <1>2, <1>4, OverlapsAlone
  <1>5. Harmless(c) /\ StartsAlone(c)
    <2>1. Harmless(c)
      BY <1>1 DEF Harmless, KeepsWho
    <2>2. CASE Bans(c, m) \/ lets
      BY <1>4, <2>1, <2>2 DEF StartsAlone
    <2>3. CASE ~(Bans(c, m) \/ lets)
      BY <1>1, <1>2, <2>1, <2>3 DEF StartsAlone, Threads
    <2> QED
      BY <2>2, <2>3
  <1>6. ASSUME Kept(c)'
        PROVE  OneThing(c)' /\ Recorded(c)' /\ LastOne(c)' /\ KeepsCounted(c)
    <2>1. OneThing(c) /\ Recorded(c) /\ LastOne(c)
      BY <1>1, <1>3, <1>6 DEF CountedInv, ConnCounted, Kept
    <2>2. CASE Bans(c, m)
      <3>1. /\ conn[c].st = "open" /\ conn[c].room = "side" /\ ~lets /\ conn[c].pid # None
            /\ conn[c].bye = "no"
        BY <1>1, <2>2, NoneApart DEF Bans, Mine, JoiningOutside, Joining, OutOfRooms, Rooms, ShapedAll, Shaped
      <3>2. conn[c].at = "idle" /\ \A e \in exits : e.conn # c
        BY <1>1, <1>4, <1>6, <2>2 DEF Threads
      <3>3. /\ Recorded(c)'
            /\ \A e \in exits' : e.conn = c =>
                  /\ e = [conn |-> c, room |-> conn[c].room, st |-> "gone", how |-> "removal"]
                  /\ e.how = "removal" /\ e.st = "gone"
            /\ \A k \in Rooms : Stays(c, k) => Stays(c, k)'
        BY <1>1, <1>2, <2>1, <2>2, <3>1, <3>2, LeftRecorded DEF KeepsWho
      <3>4. OneThing(c)'
        BY <1>1, <2>2, <3>1, <3>2, <3>3 DEF OneThing, KeepsWho
      <3>5. LastOne(c)'
        BY <1>1, <2>1, <3>1, <3>3, <3>4, LastOneKeeps DEF KeepsWho
      <3>6. KeepsCounted(c)
        BY <1>1, <2>2, <3>1, <3>2, <3>3, NoneApart DEF KeepsCounted, KeepsWho, Live, Spoken, Here
      <3> QED
        BY <3>3, <3>4, <3>5, <3>6
    <2>3. CASE lets
      <3>1. conn[c].st = "open" /\ ~Bans(c, m) /\ conn[c].pending
        BY <2>3 DEF Decides, Bans, Mine
      <3>2. conn[c].room = None /\ conn[c].pid # None /\ conn[c].bye = "no"
        BY <1>1, <3>1 DEF JoiningOutside, Joining, OutOfRooms, ShapedAll, Shaped
      <3>3. conn[c].at = "idle" /\ \A e \in exits : e.conn # c
        BY <1>1, <1>4, <1>6, <2>3 DEF Threads
      <3>4. OneThing(c)'
        BY <1>1, <1>2, <2>3, <3>1, <3>2, <3>3 DEF OneThing, KeepsWho
      <3>5. Recorded(c)'
        BY ZenonT(60), <1>1, <1>2, <2>1, <2>3, <3>1, <3>2, <3>3 DEF Recorded, Here, KeepsWho
      <3>6. LastOne(c)'
        BY <1>1, <1>2, <2>1, <3>1, <3>2, <3>3, <3>4, LastOneKeeps DEF KeepsWho
      <3>7. KeepsCounted(c)
        BY <1>1, <1>2, <2>3, <3>1, <3>2, <3>3, NoneApart
           DEF KeepsCounted, KeepsWho, Live, Stays, Spoken, Here, Leaves
      <3> QED
        BY <3>4, <3>5, <3>6, <3>7
    <2>4. CASE ~Bans(c, m) /\ ~lets
      <3>1. /\ conn'[c].room = conn[c].room /\ conn'[c].at = conn[c].at
            /\ UNCHANGED <<registry, exits>>
        BY <1>1, <1>2, <2>4
      <3>2. OneThing(c)'
        BY <1>1, <2>1, <3>1 DEF OneThing, KeepsWho
      <3>3. Recorded(c)'
        BY <1>1, <2>1, <3>1 DEF Recorded, Here, KeepsWho
      <3>4. LastOne(c)'
        BY <1>1, <2>1, <3>1, <3>2, LastOneKeeps DEF KeepsWho
      <3>5. KeepsCounted(c)
        BY <1>1, <3>1 DEF KeepsCounted, KeepsWho, Live, Stays, Spoken, Here, Leaves
      <3> QED
        BY <3>2, <3>3, <3>4, <3>5
    <2> QED
      BY <2>2, <2>3, <2>4
  <1>7. \A x \in Pid : KeepsCount(x)
    BY <1>1 DEF KeepsCount, rows
  <1> HIDE DEF c
  <1>8. ConnCounted'
    BY <1>1, <1>3, <1>5, <1>6, ConnCountedBy DEF CountedInv
  <1>9. IdCounted'
    BY <1>1, <1>3, <1>6, <1>7, IdCountedBy DEF CountedInv
  <1> QED
    BY ZenonT(60), <1>8, <1>9 DEF CountedInv

-----------------------------------------------------------------------------
(* The owner's requests, and the whole.                                    *)

\* Where nobody's connection changes, only what is written of rows counts.
LEMMA SameCounted ==
  ASSUME CountedInv, UNCHANGED <<conn, exits, registry, present, said>>, crossed \subseteq crossed',
         \A x \in Pid : KeepsCount(x)
  PROVE  CountedInv'
  <1>1. ASSUME NEW c \in Conn, Kept(c)' PROVE OneThing(c)' /\ Alone(c)' /\ Recorded(c)' /\ LastOne(c)'
    <2>1. OneThing(c) /\ Alone(c) /\ Recorded(c) /\ LastOne(c)
      BY <1>1 DEF CountedInv, ConnCounted, Kept
    <2> QED
      BY <2>1 DEF OneThing, Alone, Threads, Recorded, Here, LastOne
  <1>2. ASSUME NEW i \in Pid, i[1] \notin crossed'
        PROVE  RowCounts(i)' /\ \A k \in Rooms : ToldOf(i, k)'
    <2>1. RowCounts(i) /\ KeepsCount(i) /\ \A k \in Rooms : ToldOf(i, k)
      BY <1>2 DEF CountedInv, IdCounted
    <2>2. RowCounts(i)'
      BY <2>1 DEF RowCounts, KeepsCount, Counts, OpenOf
    <2>3. \A k \in Rooms : ToldOf(i, k)'
      BY <2>1 DEF ToldOf, Here, Leaves
    <2> QED
      BY <2>2, <2>3
  <1> QED
    BY <1>1, <1>2 DEF CountedInv, ConnCounted, IdCounted

\* A removal leaves no member to count; the other requests write other fields.
LEMMA CountedRequest ==
  ASSUME CountedNow, OwnerStep
  PROVE  CountedInv'
  <1> USE DEF CountedNow, SocketsInv
  <1>1. UNCHANGED <<conn, exits, registry, present, said>> /\ crossed \subseteq crossed'
    BY DEF OwnerStep, RemovePerson, Ban, HandOver, Decide, SetWaitingRoom, DeleteRoom, EndSession,
           DeleteSession, Announce, RotateCode, rows, Overlaps
  <1>2. ASSUME NEW i \in Pid, TakeOut(i) PROVE \A x \in Pid : KeepsCount(x)
    BY <1>2 DEF TakeOut, Typed, Row, KeepsCount
  <1>3. ASSUME NEW i \in Pid, row' = [row EXCEPT ![i].waiting = FALSE] PROVE \A x \in Pid : KeepsCount(x)
    BY <1>3, FieldKeepsCount
  <1>4. CASE DeleteRoom
    <2>1. \A x \in Pid : KeepsCount(x)
      BY <1>4 DEF DeleteRoom, Typed, Row, KeepsCount
    <2> QED
      BY <1>1, <2>1, SameCounted
  <1>5. CASE DeleteSession
    <2>1. \A x \in Pid : KeepsCount(x)
      BY <1>5 DEF DeleteSession, NoRow, KeepsCount
    <2> QED
      BY <1>1, <2>1, SameCounted
  <1>6. CASE UNCHANGED row
    BY <1>1, <1>6, SameCounted DEF KeepsCount
  <1> QED
    BY <1>1, <1>2, <1>3, <1>4, <1>5, <1>6, SameCounted
       DEF OwnerStep, RemovePerson, Ban, HandOver, Decide, SetWaitingRoom, EndSession, Announce, RotateCode, rows

\* At first nobody is anywhere.
LEMMA CountedInit == Init => CountedInv
  <1> SUFFICES ASSUME Init PROVE CountedInv
    OBVIOUS
  <1> USE NoneApart
  <1>1. /\ \A c \in Conn : conn[c] = NewConn
        /\ exits = {} /\ \A s \in Scopes : registry[s] = {} /\ present[s] = {}
        /\ \A k \in Rooms, i \in Pid : said[k][i] = "nothing"
        /\ \A i \in Pid : row[i] = NoRow \/ row[i] = [NoRow EXCEPT !.st = "member"]
    BY DEF Init
  <1>2. ASSUME NEW c \in Conn PROVE OneThing(c) /\ Alone(c) /\ Recorded(c) /\ LastOne(c)
    BY <1>1 DEF OneThing, Alone, Threads, Recorded, Here, LastOne, NewConn, Scopes
  <1>3. ASSUME NEW i \in Pid PROVE RowCounts(i) /\ \A k \in Rooms : ToldOf(i, k)
    <2>1. ~row[i].connected /\ OpenOf(i) = {}
      BY <1>1 DEF NoRow, OpenOf, NewConn
    <2>2. \A k \in Rooms : said[k][i] # "joined" /\ \A c \in Conn : ~Here(c, k)
      BY <1>1 DEF Here, NewConn
    <2> QED
      BY <2>1, <2>2 DEF RowCounts, ToldOf
  <1> QED
    BY <1>2, <1>3 DEF CountedInv, ConnCounted, IdCounted

\* The steps keep it.
LEMMA CountedStep == SocketsInv /\ SocketsInv' /\ CountedInv /\ [Next]_vars => CountedInv'
  <1> SUFFICES ASSUME CountedNow, [Next]_vars PROVE CountedInv'
    BY DEF CountedNow
  <1>1. ASSUME NEW c \in Conn, FrameStep(c) PROVE CountedInv'
    BY <1>1, CountedUpsert, CountedRegister, CountedAdmission, CountedAccess, CountedMove, CountedEnter,
       CountedSayJoined DEF FrameStep
  <1>2. ASSUME NEW c \in Conn, CloseStep(c) PROVE CountedInv'
    BY <1>2, CountedCloseGone, CountedDisconnect, CountedCloseLeave, CountedUnregister DEF CloseStep
  <1>3. CASE UNCHANGED vars
    BY <1>3, SameCounted DEF vars, rows, KeepsCount, CountedNow
  <1> QED
    BY <1>1, <1>2, <1>3, CountedConnect, CountedClose, CountedAskRoom, CountedExpire, CountedGone,
       CountedSayLeft, CountedDeliver, CountedRequest DEF Next

\* When nothing of a person's is under way, they are counted where they are.
LEMMA InvCounted == SocketsInv /\ CountedInv => CountedWhereTheyAre
  <1> USE NoneApart
  <1> SUFFICES ASSUME SocketsInv, CountedInv, NEW i \in Pid, Quiet(i[1]), i[1] \notin crossed
               PROVE  /\ row[i].st = "member" => (row[i].connected <=> OpenOf(i) # {})
                      /\ \A k \in Rooms :
                            /\ {c \in registry[k] : conn[c].pid = i} = In(i, k) /\ Connections(k, i) = In(i, k)
                            /\ said[k][i] = "joined" <=> In(i, k) # {}
    BY DEF CountedWhereTheyAre
  <1>1. RowCounts(i) /\ \A k \in Rooms : ToldOf(i, k)
    BY DEF CountedInv, IdCounted
  <1>2. ASSUME NEW c \in Conn, Whose[c] = i[1]
        PROVE  /\ OneThing(c) /\ Recorded(c) /\ conn[c].at = "idle" /\ conn[c].bye \in {"no", "done"}
               /\ \A e \in exits : e.conn # c
    BY <1>2 DEF CountedInv, ConnCounted, Kept, Quiet, PersonBusy, Busy, Threads
  <1>3. ASSUME NEW c \in Conn, conn[c].pid = i
        PROVE  /\ OneThing(c) /\ Recorded(c) /\ conn[c].at = "idle" /\ conn[c].bye \in {"no", "done"}
               /\ conn[c].bye = "no" => conn[c].st # "closed"
               /\ conn[c].st # "new"
               /\ \A e \in exits : e.conn # c
    <2>1. Whose[c] = i[1] /\ Shaped(c)
      BY <1>3 DEF SocketsInv, ShapedAll, Shaped
    <2> QED
      BY <1>2, <1>3, <2>1 DEF Shaped
  <1>4. ASSUME NEW c \in Conn, conn[c].pid = i, NEW k \in Rooms
        PROVE  /\ c \in registry[k] <=> c \in In(i, k)
               /\ c \in present[k] <=> c \in In(i, k)
    <2>1. conn[c].room = k => conn[c].st = "open"
      BY <1>3, <1>4 DEF OneThing, SocketsInv, Typed, Connection
    <2> QED
      BY <1>3, <1>4, <2>1 DEF Recorded, Here, In
  <1>5. ASSUME NEW k \in Rooms
        PROVE  /\ {c \in registry[k] : conn[c].pid = i} = In(i, k) /\ Connections(k, i) = In(i, k)
               /\ said[k][i] = "joined" <=> In(i, k) # {}
    <2>1. registry[k] \subseteq Conn /\ present[k] \subseteq Conn
      BY DEF SocketsInv, Typed, Scopes
    <2>2. {c \in registry[k] : conn[c].pid = i} = In(i, k) /\ Connections(k, i) = In(i, k)
      BY <1>4, <2>1 DEF In, Connections
    <2>3. ASSUME said[k][i] = "joined" PROVE In(i, k) # {}
      <3>1. PICK c \in Conn : conn[c].pid = i /\ (conn[c].room = k \/ Leaves(c, k))
        BY <1>1, <2>3 DEF ToldOf
      <3>2. conn[c].room = k /\ Here(c, k)
        BY <1>3, <3>1 DEF Leaves, Here
      <3> QED
        BY <1>3, <1>4, <3>1, <3>2 DEF Recorded
    <2>4. ASSUME NEW c \in In(i, k) PROVE said[k][i] = "joined"
      <3>1. c \in Conn /\ conn[c].pid = i /\ conn[c].room = k
        BY <2>4 DEF In
      <3> QED
        BY <1>1, <1>3, <3>1 DEF ToldOf, Here
    <2> QED
      BY <2>2, <2>3, <2>4
  <1>6. ASSUME row[i].st = "member" PROVE row[i].connected <=> OpenOf(i) # {}
    <2>1. ASSUME NEW c \in Conn, Counts(c, i) PROVE c \in OpenOf(i)
      <3>1. CASE conn[c].pid = i
        BY <1>3, <2>1, <3>1 DEF Counts, OpenOf
      <3>2. CASE conn[c].at = "connected" /\ conn[c].want = i
        <4>1. Whose[c] = i[1]
          BY <3>2 DEF SocketsInv, ShapedAll, Shaped
        <4> QED
          BY <1>2, <3>2, <4>1
      <3> QED
        BY <2>1, <3>1, <3>2 DEF Counts
    <2> QED
      BY <1>1, <1>6, <2>1 DEF RowCounts
  <1> QED
    BY <1>5, <1>6

\* Who is counted is inductive, on top of who is there by right.
THEOREM CountedCorrect == Spec => [](SocketsInv /\ CountedInv)
  <1>1. Init => CountedInv
    BY CountedInit
  <1>2. SocketsInv /\ SocketsInv' /\ CountedInv /\ [Next]_vars => CountedInv'
    BY CountedStep
  <1> QED
    BY <1>1, <1>2, SocketsCorrect, PTL DEF Spec

\* Whatever the order of joins, moves, closes and the owner's requests, once
\* nothing of a person's is under way the registries, the presence, the row and
\* what the rooms were told say the same of where the person is (here and gone
\* in presence.ts, leaveRoom and handleClose in ws/server.ts).
THEOREM EveryoneIsCounted == Spec => []CountedWhereTheyAre
  <1>1. SocketsInv /\ CountedInv => CountedWhereTheyAre
    BY InvCounted
  <1> QED
    BY <1>1, CountedCorrect, PTL

=============================================================================
