-------------------------------- MODULE Docks --------------------------------
(***************************************************************************)
(* The two panels in the corner of a room: the chat, which counts what was *)
(* not read (ChatPanel.tsx), and Ask the room, which marks an answer that  *)
(* was not seen (AskDock.tsx, useAsk.ts); RoomView.tsx opens one of them   *)
(* at a time.  Messages come as events, or with the snapshot of a room     *)
(* that is entered again; answers come in pieces, or not at all.           *)
(*                                                                         *)
(* RoomFeed has how events and snapshots interleave, Ask what becomes of a *)
(* question: here a snapshot is read and shown at once.                    *)
(***************************************************************************)
EXTENDS Naturals, Sequences, SequencesExt, FiniteSets

CONSTANTS
    Msg, RoomOf,     \* chat messages, and the room of each
    Mine,            \* those that are this person's own
    Question,        \* questions, by request id
    None,
    Budgets          \* bounds on what happens, one chosen in Init

Rooms == {"main", "side"}
Panels == {"chat", "ask"}
Kinds == {"say", "erase", "switch", "lost", "ask", "toggle"}

VARIABLES
    stored, said,    \* messages in the rooms, and those ever written
    down,            \* events on their way
    ui,              \* RoomState: the room, whether its snapshot came, its messages
    dock,            \* the panel that is open
    chat,            \* ChatPanel: roomRef, seenIds, unread
    turns,           \* useAsk: the questions of this room and how far their answers are
    mark,            \* AskDock: lastDone, unseen
    met, read,       \* history: messages shown since the room was entered; those
                     \* of them that were there then, or shown while the chat was open
    missed,          \* history: answers that ended while the panel was closed, since it was opened
    budget

vars == <<stored, said, down, ui, dock, chat, turns, mark, met, read, missed, budget>>
asked == <<turns, mark, missed>>
chatted == <<stored, said, down, ui, chat, met, read>>

Spend(what) == budget[what] > 0 /\ budget' = [budget EXCEPT ![what] = @ - 1]
In(r) == {m \in stored : RoomOf[m] = r}

Init ==
    /\ stored = {} /\ said = {} /\ down = <<>>
    /\ ui = [room |-> "main", synced |-> FALSE, chat |-> {}]
    /\ dock = None /\ chat = [room |-> None, seen |-> {}, unread |-> 0]
    /\ turns = <<>> /\ mark = [done |-> 0, unseen |-> FALSE]
    /\ met = {} /\ read = {} /\ missed = {}
    /\ budget \in Budgets

-----------------------------------------------------------------------------
(* The effects, after a render with messages u and panel d.                *)

\* A room's first snapshot is where "seen" starts; nothing is counted while one
\* is on its way.
\* Mutant: every snapshot starts anew.
CountedAnew(u, d) ==
    IF ~u.synced THEN chat
    ELSE IF chat.room # u.room \/ ~ui.synced THEN [room |-> u.room, seen |-> u.chat, unread |-> 0]
    ELSE [chat EXCEPT !.seen = @ \cup u.chat,
                      !.unread = IF d = "chat" THEN 0 ELSE @ + Cardinality((u.chat \ chat.seen) \ Mine)]
Counted(u, d) ==
    IF ~u.synced THEN IF d = "chat" THEN [chat EXCEPT !.unread = 0] ELSE chat
    ELSE IF chat.room # u.room THEN [room |-> u.room, seen |-> u.chat, unread |-> 0]
    ELSE [chat EXCEPT !.seen = @ \cup u.chat,
                      !.unread = IF d = "chat" THEN 0 ELSE @ + Cardinality((u.chat \ chat.seen) \ Mine)]

Shows(u, d) ==
    /\ ui' = u /\ dock' = d /\ chat' = Counted(u, d)
    /\ LET first == u.synced /\ chat.room # u.room
       IN  /\ met' = IF first THEN u.chat ELSE IF u.synced THEN met \cup u.chat ELSE met
           /\ read' = IF first THEN u.chat
                      ELSE IF d = "chat" THEN met' ELSE read

\* A question that was given up on counts as answered.
Done(ts) == {i \in DOMAIN ts : ts[i].st \in {"done", "given up"}}

\* An answer that finishes while the panel is closed marks the pill; opening it
\* takes the mark off.
\* Mutant: what ends while the panel is open is not counted.
MarkedLate(ts, d) ==
    [done |-> IF d = "ask" THEN mark.done ELSE Cardinality(Done(ts)),
     unseen |-> d # "ask" /\ (mark.unseen \/ Cardinality(Done(ts)) > mark.done)]
Marked(ts, d) ==
    [done |-> Cardinality(Done(ts)),
     unseen |-> d # "ask" /\ (mark.unseen \/ Cardinality(Done(ts)) > mark.done)]

Answers(ts, d) ==
    /\ turns' = ts /\ mark' = Marked(ts, d)
    /\ missed' = IF d = "ask" THEN {}
                 ELSE missed \cup {ts[i].q : i \in Done(ts) \ Done(turns)}

-----------------------------------------------------------------------------
(* Messages, and the room they are shown of.                               *)

Tell(kind, m) == down' = IF ui.synced /\ ui.room = RoomOf[m] THEN Append(down, [t |-> kind, msg |-> m]) ELSE down

Say(m) ==
    /\ m \notin said /\ (m \in Mine => ui.synced /\ ui.room = RoomOf[m] /\ dock = "chat") /\ Spend("say")
    /\ stored' = stored \cup {m} /\ said' = said \cup {m} /\ Tell("said", m)
    /\ UNCHANGED <<ui, dock, chat, met, read, asked>>

Erase(m) ==
    /\ m \in stored /\ Spend("erase")
    /\ stored' = stored \ {m} /\ Tell("erased", m)
    /\ UNCHANGED <<said, ui, dock, chat, met, read, asked>>

Receive ==
    /\ down # <<>> /\ down' = Tail(down)
    /\ LET e == Head(down)
       IN  Shows([ui EXCEPT !.chat = IF e.t = "said" THEN @ \cup {e.msg} ELSE @ \ {e.msg}], dock)
    /\ UNCHANGED <<stored, said, asked, budget>>

\* room_state, on entering a room and after a reconnect.
Snapshot ==
    /\ ~ui.synced /\ Shows([ui EXCEPT !.synced = TRUE, !.chat = In(ui.room)], dock)
    /\ UNCHANGED <<stored, said, down, asked, budget>>

Lost ==
    /\ ui.synced /\ Spend("lost")
    /\ down' = <<>> /\ Shows([ui EXCEPT !.synced = FALSE], dock)
    /\ UNCHANGED <<stored, said, asked>>

\* Another room is asked for: its messages, and its conversation, are others.
Switch(k) ==
    /\ k # ui.room /\ Spend("switch")
    /\ down' = <<>> /\ Shows([room |-> k, synced |-> FALSE, chat |-> {}], dock)
    /\ Answers(<<>>, dock)
    /\ UNCHANGED <<stored, said>>

-----------------------------------------------------------------------------
(* The panels.                                                             *)

\* A panel's button opens it, or closes it if it is the open one; Ctrl+K is the
\* button of Ask.
Toggle(p) ==
    LET d == IF dock = p THEN None ELSE p
    IN  /\ Spend("toggle") /\ Shows(ui, d) /\ Answers(turns, d)
        /\ UNCHANGED <<stored, said, down>>

\* "Add to notes" closes it, at every width.
AddToNotes ==
    /\ dock = "ask" /\ Done(turns) # {} /\ Spend("toggle")
    /\ Shows(ui, None) /\ Answers(turns, None)
    /\ UNCHANGED <<stored, said, down>>

-----------------------------------------------------------------------------
(* Questions.                                                              *)

Asked == {turns[i].q : i \in DOMAIN turns}

AskRoom(q) ==
    /\ dock = "ask" /\ ui.synced /\ Spend("ask")
    /\ q \notin Asked
    /\ Answers(Append(turns, [q |-> q, st |-> "searching"]), dock)
    /\ UNCHANGED <<dock, chatted>>

\* A piece of an answer, or its end; also after the question was given up on.
Piece(i) ==
    /\ turns[i].st # "done" /\ ui.synced
    /\ Answers([turns EXCEPT ![i].st = "answering"], dock)
    /\ UNCHANGED <<dock, chatted, budget>>

Ends(i) ==
    /\ turns[i].st # "done" /\ ui.synced
    /\ Answers([turns EXCEPT ![i].st = "done"], dock)
    /\ UNCHANGED <<dock, chatted, budget>>

\* No reply for GIVE_UP_MS.
GiveUp(i) ==
    /\ i \notin Done(turns)
    /\ Answers([turns EXCEPT ![i].st = "given up"], dock)
    /\ UNCHANGED <<dock, chatted, budget>>

Clear ==
    /\ dock = "ask" /\ turns # <<>> /\ Done(turns) = DOMAIN turns
    /\ Answers(<<>>, dock)
    /\ UNCHANGED <<dock, chatted, budget>>

-----------------------------------------------------------------------------
Room == Receive \/ Snapshot \/ Lost \/ \E k \in Rooms : Switch(k)
People == \E m \in Msg : Say(m) \/ Erase(m)
Person == \/ \E p \in Panels : Toggle(p)
          \/ AddToNotes \/ Clear \/ \E q \in Question : AskRoom(q)
Replies == \E i \in DOMAIN turns : Piece(i) \/ Ends(i) \/ GiveUp(i)

Next == Room \/ People \/ Person \/ Replies
Spec == Init /\ [][Next]_vars

-----------------------------------------------------------------------------
(* Properties.                                                             *)

TypeOK ==
    /\ stored \subseteq said /\ said \subseteq Msg
    /\ ui.room \in Rooms /\ ui.chat \subseteq Msg /\ dock \in Panels \cup {None}
    /\ chat.room \in Rooms \cup {None} /\ chat.seen \subseteq Msg /\ chat.unread \in Nat
    /\ \A i \in DOMAIN turns : turns[i].q \in Question /\ turns[i].st \in {"searching", "answering", "done", "given up"}
    /\ mark.done \in Nat /\ mark.unseen \in BOOLEAN

\* What is counted as unread is what others wrote and was shown, in this room and
\* since it was entered, with the chat closed: once each, also when it came with
\* the snapshot after a reconnect or was deleted since, and never the messages
\* that were there on entering.
UnreadCounts == ui.synced => chat.unread = Cardinality((met \ read) \ Mine)

\* So what is stored is read or counted, once nothing is on its way.
NothingOverlooked == ui.synced /\ down = <<>> => In(ui.room) \subseteq met

\* "An answer that finishes while the panel is closed marks the pill", and
\* nothing else does.
PillMarked == mark.unseen <=> missed # {}
=============================================================================
