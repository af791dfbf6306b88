------------------------------ MODULE RoomPage ------------------------------
(***************************************************************************)
(* A browser's page of a room: which view it shows, the room's documents   *)
(* (NotesHome.tsx), the document that is open (RoomView.tsx), its editor   *)
(* and the handshake that fills it (NotesView.tsx, hooks.ts, provider.ts), *)
(* and the answers that are added to it.  The lists of documents come over *)
(* the socket, or are fetched; a document that was made is opened by the   *)
(* response, which no order ties to the socket's frames.                   *)
(*                                                                         *)
(* RoomFeed has the rest of the room's state, RoomDocs what the gateway    *)
(* does with a handshake and edits, DocumentList how a list may be late.   *)
(* Here the lists come in order, and the page renders after every frame.   *)
(***************************************************************************)
EXTENDS Naturals, Sequences, SequencesExt, FiniteSets

CONSTANTS
    Doc, HomeOf,     \* the documents that may be made, and the room of each
    Main,            \* MAIN_DOC_ID: every room has one
    None,
    Budgets          \* bounds on what happens, one chosen in Init

Rooms == {"main", "side"}
Views == {"feed", "notes", "library"}
Kinds == {"switch", "lost", "make", "create", "delete", "view", "open", "add"}

VARIABLES
    rows,        \* documents: not made yet, there, or deleted
    socket,      \* the room the gateway has this socket in, None when it is closed
    up, down,    \* frames on their way
    ui,          \* RoomState: the room asked for and shown, its list of documents
    page,        \* RoomView: view, openDoc, notesInsert, listedDocs
    home,        \* NotesHome, where it is mounted
    editor,      \* NotesEditor and its provider, where mounted; put: what it inserted,
                 \* filled: whether the document has arrived in it
    replies,     \* documents made here whose response is on its way
    aim,         \* history: for each answer that was added, the document it was added to
    left,        \* history: answers whose document was left since
    landed,      \* history: answers, and where each was inserted
    strange,     \* history: documents opened that were not of this room, or not any more
    announced,   \* history: documents listed over the socket since the room was entered
    budget

vars == <<rows, socket, up, down, ui, page, home, editor, replies, aim, left, landed, strange,
          announced, budget>>
history == <<aim, strange>>

DocsOf(r) == {d \in Doc : rows[d] = "there" /\ HomeOf[d] = r}
Spend(what) == budget[what] > 0 /\ budget' = [budget EXCEPT ![what] = @ - 1]

Init ==
    /\ rows = [d \in Doc |-> "unmade"] /\ socket = None /\ up = <<>> /\ down = <<>> /\ replies = {}
    /\ ui = [link |-> "closed", desired |-> "main", room |-> "main", synced |-> FALSE, loaded |-> FALSE,
             docs |-> None, held |-> None]
    /\ page \in {[view |-> v, open |-> None, insert |-> 0, listed |-> {}] : v \in {"feed", "notes"}}
    /\ home = None /\ editor = None
    /\ aim = <<>> /\ left = {} /\ landed = {} /\ strange = {} /\ announced = {}
    /\ budget \in Budgets

-----------------------------------------------------------------------------
(* What the page mounts.                                                   *)

\* The document whose editor is shown, if one is.
Opened(u, p) == IF u.loaded /\ p.view = "notes" /\ p.open # None THEN <<u.room, p.open>> ELSE None
HomeShown(u, p) == u.loaded /\ p.view = "notes" /\ p.open = None

\* The effects on the room and on its list: another room starts at its list, and
\* a document that was listed and is not any more is left.
\* Mutant: a document missing in a list is left, listed before or not.
SettledBounce(u, p) ==
    [p EXCEPT !.open = IF u.room # ui.room \/ (u.docs # None /\ @ \notin {None, Main} \cup u.docs) THEN None ELSE @,
              !.listed = IF u.docs = None THEN @ ELSE u.docs]
Settled(u, p) ==
    LET gone == u.docs # None /\ p.open \in p.listed \ u.docs
    IN  [p EXCEPT !.open = IF u.room # ui.room \/ gone THEN None ELSE @,
                  !.listed = IF u.docs = None THEN @ ELSE u.docs]

\* useRoomDoc: built with the editor; the gateway's confirmation of the room
\* starts the handshake, its loss is shown.
Session(u, p) ==
    LET at == Opened(u, p)
        kept == editor # None /\ editor.at = at
        status == IF u.synced THEN "connecting" ELSE "offline"
    IN  IF at = None THEN None
        ELSE IF ~kept THEN [at |-> at, status |-> status, put |-> <<>>, filled |-> FALSE]
        ELSE IF u.synced # ui.synced THEN [editor EXCEPT !.status = status]
        ELSE editor

\* provider.connect: step 1 of the handshake.
Handshake(e) == IF e # None /\ e.status = "connecting" /\ (editor = None \/ editor.at # e.at \/ editor.status # "connecting")
                THEN <<[t |-> "step 1", at |-> e.at]>> ELSE <<>>

\* The effect on notesInsert, of a synced editor that has not done this one.
\* Mutant: what was inserted is forgotten.
PendingAgain(e, p) == e # None /\ e.status = "synced" /\ p.insert # 0
Pending(e, p) == /\ e # None /\ e.status = "synced"
                 /\ p.insert # 0 /\ (e.put = <<>> \/ Last(e.put) # p.insert)

Mount(e, p) ==
    /\ editor' = IF Pending(e, p) THEN [e EXCEPT !.put = Append(@, p.insert)] ELSE e
    /\ landed' = IF Pending(e, p) THEN landed \cup {<<p.insert, e.at>>} ELSE landed
    /\ left' = IF editor # None /\ (e = None \/ e.at # editor.at) THEN 1..Len(aim) ELSE left

\* The page renders, with frames that were sent before it.
Render(u, p, sent) ==
    LET q == Settled(u, p)
        e == Session(u, q)
    IN  /\ ui' = u /\ page' = q /\ up' = sent \o Handshake(e)
        /\ announced' = (IF u.room = ui.room THEN announced ELSE {}) \cup q.listed
        /\ Mount(e, q)
        /\ home' = IF ~HomeShown(u, q) THEN None
                   ELSE IF home # None /\ home.room = u.room THEN home
                   ELSE [room |-> u.room, docs |-> None, fetch |-> "asked", answer |-> None, creating |-> FALSE]

-----------------------------------------------------------------------------
(* Frames from the gateway.                                                *)

\* documents_updated: held until the room's snapshot, dropped for another room.
Listed(u, e) ==
    IF e.room # u.room THEN u
    ELSE IF u.synced THEN [u EXCEPT !.docs = e.docs] ELSE [u EXCEPT !.held = e.docs]

\* room_state; the list is kept if the room is the one that was asked for last.
Snapshot(u, e) ==
    LET docs == IF u.room = e.room THEN u.docs ELSE None
        held == IF u.room = e.room THEN u.held ELSE None
    IN  [u EXCEPT !.room = e.room, !.synced = TRUE, !.loaded = TRUE, !.held = None,
                  !.docs = IF held # None THEN held ELSE docs]

\* Step 2 reaches the editor it is about, if that is mounted.
Answered(e) == IF editor # None /\ editor.at = e.at THEN [editor EXCEPT !.status = "synced", !.filled = TRUE] ELSE editor

Receive ==
    LET e == Head(down) IN
    /\ down # <<>> /\ down' = Tail(down)
    /\ IF e.t = "step 2" THEN Mount(Answered(e), page) /\ UNCHANGED <<ui, page, home, up, announced>>
       ELSE Render(IF e.t = "list" THEN Listed(ui, e) ELSE Snapshot(ui, e), page, up)
    /\ UNCHANGED <<rows, socket, replies, history, budget>>

-----------------------------------------------------------------------------
(* The socket.                                                             *)

Open ==
    /\ ui.link = "closed"
    /\ Render([ui EXCEPT !.link = "open"], page, <<[t |-> "join", room |-> ui.desired]>>)
    /\ UNCHANGED <<rows, socket, down, replies, history, budget>>

Lost ==
    /\ ui.link = "open" /\ Spend("lost")
    /\ socket' = None /\ down' = <<>>
    /\ Render([ui EXCEPT !.link = "closed", !.synced = FALSE], page, <<>>)
    /\ UNCHANGED <<rows, replies, history>>

\* joinRoom and room_requested.  The list of documents is not among what goes.
Switch(k) ==
    /\ k # ui.desired /\ Spend("switch")
    /\ LET asked == [ui EXCEPT !.desired = k]
           other == ui.room # k
       IN  Render(IF ~other /\ ui.synced THEN asked
                  ELSE [asked EXCEPT !.room = k, !.synced = FALSE,
                                     !.loaded = @ /\ ~other, !.held = IF other THEN None ELSE @],
                  page,
                  IF ui.link = "open" THEN Append(up, [t |-> "join", room |-> k]) ELSE up)
    /\ UNCHANGED <<rows, socket, down, replies, history>>

\* The gateway takes a frame: the room is entered, and its snapshot sent; a
\* handshake is answered in the room it is of, for a document of the room.
Gateway ==
    LET f == Head(up) IN
    /\ up # <<>> /\ up' = Tail(up)
    /\ IF f.t = "join"
       THEN socket' = f.room /\ down' = Append(down, [t |-> "snapshot", room |-> f.room])
       ELSE /\ UNCHANGED socket
            /\ down' = IF f.at[1] = socket /\ f.at[2] \in {Main} \cup DocsOf(socket)
                       THEN Append(down, [t |-> "step 2", at |-> f.at]) ELSE down
    /\ UNCHANGED <<rows, ui, page, home, editor, replies, history, left, landed, announced, budget>>

-----------------------------------------------------------------------------
(* Documents made and deleted.                                             *)

\* A row changes, and the room is told its list.
Becomes(d, st) ==
    /\ rows' = [rows EXCEPT ![d] = st]
    /\ down' = LET r == HomeOf[d] IN
               IF socket = r THEN Append(down, [t |-> "list", room |-> r, docs |-> DocsOf(r)']) ELSE down

Make(d) ==
    /\ rows[d] = "unmade" /\ Spend("make") /\ Becomes(d, "there")
    /\ UNCHANGED <<socket, up, ui, page, home, editor, replies, history, left, landed, announced>>

\* From its card, here or elsewhere.
Delete(d) ==
    /\ rows[d] = "there" /\ Spend("delete") /\ Becomes(d, "deleted")
    /\ UNCHANGED <<socket, up, ui, page, home, editor, replies, history, left, landed, announced>>

\* NotesHome.create, up to the gateway's response.
Create(d) ==
    /\ home # None /\ ~home.creating /\ HomeOf[d] = home.room /\ rows[d] = "unmade"
    /\ Spend("create") /\ Becomes(d, "there")
    /\ home' = [home EXCEPT !.creating = TRUE] /\ replies' = replies \cup {d}
    /\ UNCHANGED <<socket, up, ui, page, editor, history, left, landed, announced>>

Go(p) == Render(ui, p, up) /\ UNCHANGED <<rows, socket, down>>
Strange(d) == strange' = strange \cup ({d} \ ({Main} \cup DocsOf(ui.room)))

\* The response opens it, whatever is shown by then; or is lost.
Reply(d) ==
    /\ d \in replies /\ replies' = replies \ {d}
    /\ Go([page EXCEPT !.open = d]) /\ Strange(d)
    /\ UNCHANGED <<aim, budget>>

ReplyLost(d) ==
    /\ d \in replies /\ replies' = replies \ {d} /\ Spend("lost")
    /\ home' = IF home = None THEN None ELSE [home EXCEPT !.creating = FALSE]
    /\ UNCHANGED <<rows, socket, up, down, ui, page, editor, history, left, landed, announced>>

\* listDocuments, when NotesHome mounts: the query, and its answer.
Query ==
    /\ home # None /\ home.fetch = "asked"
    /\ home' = [home EXCEPT !.fetch = "read", !.answer = DocsOf(home.room)]
    /\ UNCHANGED <<rows, socket, up, down, ui, page, editor, replies, history, left, landed, announced, budget>>

Fetched ==
    /\ home # None /\ home.fetch = "read"
    /\ home' = [home EXCEPT !.fetch = "done", !.docs = home.answer, !.answer = None]
    /\ UNCHANGED <<rows, socket, up, down, ui, page, editor, replies, history, left, landed, announced, budget>>

\* The list shown: the one announced last, else the one that was fetched.
Cards == IF ui.docs # None THEN ui.docs ELSE home.docs

-----------------------------------------------------------------------------
(* What the person does.                                                   *)

\* The buttons of the views; Notes opens on the list.
Look(v) ==
    /\ Spend("view")
    /\ Go([page EXCEPT !.view = v, !.open = IF v = "notes" THEN None ELSE @])
    /\ UNCHANGED <<replies, history>>

\* A card, or a citation of a document of this room that was there once.
Choose(d) ==
    /\ home # None /\ Cards # None /\ d \in {Main} \cup Cards /\ Spend("open")
    /\ Go([page EXCEPT !.open = d]) /\ Strange(d)
    /\ UNCHANGED <<replies, aim>>

Cite(d) ==
    /\ ui.loaded /\ (d # Main => HomeOf[d] = ui.room /\ rows[d] # "unmade") /\ Spend("open")
    /\ Go([page EXCEPT !.view = "notes", !.open = d]) /\ Strange(d)
    /\ UNCHANGED <<replies, aim>>

\* addAnswerToNotes: into the document that is open, else the room's notes.
Target == <<ui.room, IF page.open = None THEN Main ELSE page.open>>

AddAnswer ==
    /\ ui.loaded /\ Spend("add")
    /\ aim' = Append(aim, Target)
    /\ Go([page EXCEPT !.view = "notes", !.open = Target[2], !.insert = Len(aim) + 1])
    /\ UNCHANGED <<replies, strange>>

-----------------------------------------------------------------------------
Connection == Open \/ Lost \/ Receive \/ Gateway \/ \E k \in Rooms : Switch(k)
Documents == \/ \E d \in Doc : Make(d) \/ Delete(d) \/ Create(d) \/ Reply(d) \/ ReplyLost(d)
             \/ Query \/ Fetched
Person == \/ \E v \in Views : Look(v)
          \/ \E d \in Doc \cup {Main} : Choose(d) \/ Cite(d)
          \/ AddAnswer

Next == Connection \/ Documents \/ Person
Spec == Init /\ [][Next]_vars

-----------------------------------------------------------------------------
(* Properties.                                                             *)

TypeOK ==
    /\ rows \in [Doc -> {"unmade", "there", "deleted"}] /\ socket \in Rooms \cup {None}
    /\ ui.room \in Rooms /\ page.view \in Views /\ page.open \in Doc \cup {Main, None}
    /\ home # None => HomeShown(ui, page) /\ home.room = ui.room
    /\ editor # None => editor.at = Opened(ui, page) /\ editor.status \in {"connecting", "synced", "offline"}
    /\ editor = None => Opened(ui, page) = None

\* Nothing is on its way.
AtRest == ui.synced /\ up = <<>> /\ down = <<>> /\ replies = {}

\* An answer is appended once while its document stays open, through reconnects,
\* never ahead of notes that are still arriving, and reaches the document it
\* was added to or, if that was left before, the one that is opened next.
AddedOnce == editor # None => /\ \A i, j \in DOMAIN editor.put : editor.put[i] = editor.put[j] => i = j
                              /\ editor.put # <<>> => editor.filled
LandsWhereAimed == \A l \in landed : l[2] = aim[l[1]] \/ l[1] \in left

\* At rest an editor of a document of this room has the document, and the answer
\* that was added to it.
EditorFilled ==
    AtRest /\ editor # None /\ editor.at[2] \in {Main} \cup DocsOf(ui.room)
        => /\ editor.status = "synced"
           /\ page.insert # 0 => <<page.insert, editor.at>> \in landed

\* At rest nobody sits in a document that was deleted while it was open here, if
\* the list that is shown is current and had it once.
GoneIsLeft ==
    AtRest /\ editor # None /\ ui.docs = DocsOf(ui.room)
        => editor.at[2] \in {Main} \cup DocsOf(ui.room) \/ editor.at[2] \in strange \/ editor.at[2] \notin announced

\* "A blip never takes the notes down": while the person stays in the room and
\* in the document, the editor stays, with what is in it.
NotesStayUp ==
    editor # None /\ ui'.room = ui.room /\ page'.view = "notes" /\ page'.open = page.open
        => editor' # None /\ editor'.at = editor.at /\ IsPrefix(editor.put, editor'.put)

\* No frame throws a person out of a document that is there: not the maker of a
\* new one, whatever list arrives before or after the response.
NobodyThrownOut ==
    ui' # ui /\ ui'.room = ui.room /\ page.open \in DocsOf(ui.room) => page'.open = page.open

\* NotesHome.tsx: "The room's documents as last announced"; the list is of the
\* room that is shown.
ListIsOfThisRoom == home # None /\ Cards # None => \A d \in Cards : HomeOf[d] = home.room
=============================================================================
