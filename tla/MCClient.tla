------------------------------ MODULE MCClient ------------------------------
(***************************************************************************)
(* The client on small instances: the room as it shows it (RoomFeed), its  *)
(* page with the notes (RoomPage), the panels beside it (Docks), the       *)
(* dialog that uploads (UploadTray), and the view of what a rewrite or a   *)
(* version changed (TextDiff).  A behaviour is of one of them, `part', and *)
(* the others are away.                                                    *)
(***************************************************************************)
EXTENDS RoomFeed, TLC

CONSTANTS m1, m2

VARIABLES part,
          tItems, tStrategies, tLoads, tClosures, tQueue, tSending, tBusy, tEdits, tFaults,
          dBefore, dAfter, dParts,
          pRows, pSocket, pUp, pDown, pUi, pPage, pHome, pEditor, pReplies, pAim, pLeft, pLanded, pStrange,
          pAnnounced, pBudget,
          kStored, kSaid, kDown, kUi, kDock, kChat, kTurns, kMark, kMet, kRead, kMissed, kBudget

\* One message in each room; who clicks, writes and breaks what, by budget.
MCRoomOf == m1 :> "main" @@ m2 :> "side"
Only(f) == f @@ [o \in Ops |-> 0]
MCBudgets == {
    Only("upload" :> 1 @@ "retry" :> 1 @@ "lost" :> 1),
    Only("upload" :> 1 @@ "retry" :> 1 @@ "delete" :> 1),
    Only("upload" :> 1 @@ "delete" :> 1 @@ "lost" :> 1),
    Only("chat" :> 2 @@ "delete" :> 1 @@ "lost" :> 1 @@ "click" :> 1),
    Only("peer" :> 2 @@ "click" :> 2 @@ "lost" :> 1),
    Only("chat" :> 1 @@ "click" :> 2 @@ "lock" :> 1 @@ "deleteRoom" :> 1),
    Only("click" :> 1 @@ "lost" :> 2 @@ "deleteRoom" :> 1 @@ "chat" :> 1),
    Only("click" :> 2 @@ "lost" :> 1 @@ "lock" :> 1 @@ "end" :> 1),
    Only("click" :> 1 @@ "lost" :> 1 @@ "upload" :> 1)}

\* Two files and a text; the list has one strategy up, or all of them.
StrategyList(first, second, third) == "rulebased" :> first @@ "rewrite" :> second @@ "summarise" :> third
Tray == INSTANCE UploadTray WITH
    File <- {"f1", "f2"}, Text <- {"x1"}, Strategy <- <<"rulebased", "rewrite", "summarise">>,
    Default <- "summarise", Lists <- {StrategyList("down", "down", "up"), StrategyList("up", "up", "up")},
    Concurrency <- 2, MaxLoads <- 1, MaxEdits <- 5, MaxFaults <- 1,
    items <- tItems, strategies <- tStrategies, loads <- tLoads, closures <- tClosures, queue <- tQueue,
    sending <- tSending, busy <- tBusy, edits <- tEdits, faults <- tFaults

\* Texts of a letter, a space, a line end, and two quotation marks that look
\* alike.
LooksLike(c) == IF c = "curly" THEN "straight" ELSE c
Diff == INSTANCE TextDiff WITH
    Letter <- {"a"}, White <- {" ", "n"}, Mark <- {"straight", "curly"}, LineEnd <- "n", Blank <- " ",
    MaxBefore <- 3, MaxAfter <- 3, MaxCells <- 5,
    before <- dBefore, after <- dAfter, parts <- dParts

\* Three documents, two of them of the main room; and who may do what, by budget.
PageKinds == {"switch", "lost", "make", "create", "delete", "view", "open", "add"}
OnlyPage(f) == f @@ [k \in PageKinds |-> 0]
Page == INSTANCE RoomPage WITH
    Doc <- {"d1", "d2", "d3"}, HomeOf <- "d1" :> "main" @@ "d2" :> "side" @@ "d3" :> "main", Main <- "notes",
    Budgets <- {OnlyPage("switch" :> 2 @@ "make" :> 2 @@ "open" :> 1 @@ "delete" :> 1),
                OnlyPage("lost" :> 2 @@ "add" :> 2 @@ "open" :> 1 @@ "view" :> 1),
                OnlyPage("create" :> 1 @@ "make" :> 1 @@ "delete" :> 1 @@ "lost" :> 1),
                OnlyPage("create" :> 1 @@ "switch" :> 1 @@ "add" :> 1)},
    rows <- pRows, socket <- pSocket, up <- pUp, down <- pDown, ui <- pUi, page <- pPage, home <- pHome,
    editor <- pEditor, replies <- pReplies, aim <- pAim, left <- pLeft, landed <- pLanded,
    strange <- pStrange, announced <- pAnnounced, budget <- pBudget

\* Two messages in the main room, one of them this person's own, and one beside.
DockKinds == {"say", "erase", "switch", "lost", "ask", "toggle"}
OnlyDock(f) == f @@ [k \in DockKinds |-> 0]
Dock == INSTANCE Docks WITH
    Msg <- {"n1", "n2", "n3"}, RoomOf <- "n1" :> "main" @@ "n2" :> "main" @@ "n3" :> "side", Mine <- {"n2"},
    Question <- {"q1", "q2"},
    Budgets <- {OnlyDock("say" :> 3 @@ "erase" :> 1 @@ "switch" :> 2 @@ "lost" :> 1 @@ "toggle" :> 2),
                OnlyDock("ask" :> 2 @@ "toggle" :> 3 @@ "switch" :> 1 @@ "lost" :> 1)},
    stored <- kStored, said <- kSaid, down <- kDown, ui <- kUi, dock <- kDock, chat <- kChat, turns <- kTurns,
    mark <- kMark, met <- kMet, read <- kRead, missed <- kMissed, budget <- kBudget

tVars == <<tItems, tStrategies, tLoads, tClosures, tQueue, tSending, tBusy, tEdits, tFaults>>
dVars == <<dBefore, dAfter, dParts>>
pVars == <<pRows, pSocket, pUp, pDown, pUi, pPage, pHome, pEditor, pReplies, pAim, pLeft, pLanded, pStrange,
           pAnnounced, pBudget>>
kVars == <<kStored, kSaid, kDown, kUi, kDock, kChat, kTurns, kMark, kMet, kRead, kMissed, kBudget>>

FeedAway == Init /\ budget = CHOOSE b \in Budgets : TRUE
TrayAway == /\ tItems = 0 /\ tStrategies = 0 /\ tLoads = 0 /\ tClosures = 0 /\ tQueue = 0 /\ tSending = 0
            /\ tBusy = FALSE /\ tEdits = 0 /\ tFaults = 0
DiffAway == dBefore = 0 /\ dAfter = 0 /\ dParts = 0
PageAway == /\ pRows = 0 /\ pSocket = 0 /\ pUp = 0 /\ pDown = 0 /\ pUi = 0 /\ pPage = 0 /\ pHome = 0
            /\ pEditor = 0 /\ pReplies = 0 /\ pAim = 0 /\ pLeft = 0 /\ pLanded = 0 /\ pStrange = 0
            /\ pAnnounced = 0 /\ pBudget = 0
DockAway == /\ kStored = 0 /\ kSaid = 0 /\ kDown = 0 /\ kUi = 0 /\ kDock = 0 /\ kChat = 0 /\ kTurns = 0
            /\ kMark = 0 /\ kMet = 0 /\ kRead = 0 /\ kMissed = 0 /\ kBudget = 0

MCInit ==
    \/ part = "feed" /\ Init /\ TrayAway /\ DiffAway /\ PageAway /\ DockAway
    \/ part = "tray" /\ FeedAway /\ Tray!Init /\ DiffAway /\ PageAway /\ DockAway
    \/ part = "diff" /\ FeedAway /\ TrayAway /\ Diff!Init /\ PageAway /\ DockAway
    \/ part = "page" /\ FeedAway /\ TrayAway /\ DiffAway /\ Page!Init /\ DockAway
    \/ part = "dock" /\ FeedAway /\ TrayAway /\ DiffAway /\ PageAway /\ Dock!Init

MCNext ==
    \/ (part = "feed" /\ Next /\ UNCHANGED <<part, tVars, dVars, pVars, kVars>>)
    \/ (part = "tray" /\ Tray!Next /\ UNCHANGED <<part, vars, dVars, pVars, kVars>>)
    \/ (part = "diff" /\ Diff!Next /\ UNCHANGED <<part, vars, tVars, pVars, kVars>>)
    \/ (part = "page" /\ Page!Next /\ UNCHANGED <<part, vars, tVars, dVars, kVars>>)
    \/ (part = "dock" /\ Dock!Next /\ UNCHANGED <<part, vars, tVars, dVars, pVars>>)

\* Of the dialog: its requests are answered and its timers run.
MCFairness == /\ WF_tVars(part = "tray" /\ Tray!Workers)
              /\ \A i \in {"f1", "f2", "x1"} : WF_tVars(part = "tray" /\ Tray!Confirmed(i))

MCSpec == MCInit /\ [][MCNext]_<<part, vars, tVars, dVars, pVars, kVars>> /\ MCFairness

-----------------------------------------------------------------------------
(* What each part promises; the parts of a promise are stated in its module.  *)


\* RoomView.tsx, NotesView.tsx: an answer added to the notes is appended once and
\* where it was aimed, an editor is filled, stays up through reconnects and is
\* left when its document goes.  ChatPanel.tsx, AskDock.tsx: what is unread or
\* unseen is what came with the panel closed.  AddMedia.tsx, recommend.ts: what
\* is proposed for a text follows the list and the text, a choice stays until
\* the person makes another, no item is uploaded twice, and a click ends.
PanelsKeep ==
    /\ [](part = "page" => /\ Page!TypeOK /\ Page!AddedOnce /\ Page!LandsWhereAimed /\ Page!EditorFilled
                           /\ Page!GoneIsLeft)
    /\ [][part = "page" => Page!NotesStayUp /\ Page!NobodyThrownOut]_pVars
    /\ [](part = "dock" => Dock!TypeOK /\ Dock!UnreadCounts /\ Dock!NothingOverlooked /\ Dock!PillMarked)
    /\ [](part = "tray" => Tray!TypeOK /\ Tray!TextFollowsList /\ Tray!SentOnce)
    /\ [][part = "tray" => Tray!ChoiceStays]_tVars
    /\ Tray!ClickEnds

\* diff.ts: both texts can be read off a diff, which keeps as much as a longest
\* common subsequence does, shows a changed region as one replacement, and
\* whose counts add up.
DiffReads ==
    part = "diff" => /\ Diff!TypeOK /\ Diff!Faithful /\ Diff!KeepsTheMost
                     /\ Diff!OneReplacement /\ Diff!CountsAddUp

\* NotesHome.tsx:12-13: "The room's documents as last announced".  What it lists
\* is of the room that is shown.
ListIsOfThisRoom == part = "page" => Page!ListIsOfThisRoom
=============================================================================
