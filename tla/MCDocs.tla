------------------------------- MODULE MCDocs -------------------------------
(***************************************************************************)
(* The notes on small instances: the documents as replicas, browsers and   *)
(* the writer of uploads' sections share them (RoomDocs), their versions   *)
(* (NotesHistory), and the list of a room's documents (DocumentList).      *)
(* The three touch none of each other's rows.  A behaviour is of one of    *)
(* them, `part', and the others stay as they were in the beginning.        *)
(***************************************************************************)
EXTENDS RoomDocs, TLC

CONSTANTS Parts,  \* what the behaviours of a run are of
          None

Symmetry == Permutations(Replica) \cup Permutations(Editor) \cup Permutations(Typing)

Bound(typing, uploads, joins, deletes, faults) ==
    [typing |-> typing, uploads |-> uploads, joins |-> joins, deletes |-> deletes, faults |-> faults]

\* People typing on two replicas, the writer beside them, a deletion.
MCBudgets == {Bound(2, 0, 2, 0, 0), Bound(1, 0, 3, 0, 1), Bound(0, 1, 2, 0, 0), Bound(0, 1, 1, 0, 1),
              Bound(1, 1, 1, 0, 0), Bound(1, 0, 2, 1, 0)}

VARIABLES part,
          hNow, hText, hCopies, hVersions, hSaving, hRequests, hReplaced, hSeen, hAttempted, hSpoilt, hFaults,
          lRows, lRenamed, lRequests, lListed, lTold, lLate

\* One restore beside two replicas' saves; a document is short or long, a
\* large deletion takes it from long to short.
History == INSTANCE NotesHistory WITH
    Replica <- {"A", "B"}, Request <- {"p1"}, None <- None,
    Sizes <- {0, 5}, LargeChars <- 2, BaselineAge <- 2, VersionEvery <- 2, MaxVersions <- 1,
    MaxTime <- 3, MaxEdits <- 2, MaxFaults <- 1,
    now <- hNow, text <- hText, copies <- hCopies, versions <- hVersions, saving <- hSaving, requests <- hRequests,
    replaced <- hReplaced, seen <- hSeen, attempted <- hAttempted, spoilt <- hSpoilt, faults <- hFaults

\* Three requests of the owner and a guest, in a room with room for one more.
List == INSTANCE DocumentList WITH
    Main <- "main", Doc <- {"d1", "d2", "d3", "d4"}, Person <- {"o", "g"}, Owner <- "o",
    Request <- {"q1", "q2", "q3"}, By <- ("q1" :> "o" @@ "q2" :> "g" @@ "q3" :> "g"),
    MaxDocuments <- 1, None <- None,
    rows <- lRows, renamed <- lRenamed, requests <- lRequests, listed <- lListed, told <- lTold, late <- lLate

ASSUME List!ListAssumption

hVars == <<hNow, hText, hCopies, hVersions, hSaving, hRequests, hReplaced, hSeen, hAttempted, hSpoilt, hFaults>>
lVars == <<lRows, lRenamed, lRequests, lListed, lTold, lLate>>

NotesAway == Init /\ budget = Bound(2, 0, 2, 0, 0)
HistoryAway == /\ hNow = 0 /\ hText = 0 /\ hCopies = 0 /\ hVersions = 0 /\ hSaving = 0 /\ hRequests = 0
               /\ hReplaced = 0 /\ hSeen = 0 /\ hAttempted = 0 /\ hSpoilt = 0 /\ hFaults = 0
ListAway == lRows = 0 /\ lRenamed = 0 /\ lRequests = 0 /\ lListed = 0 /\ lTold = 0 /\ lLate = 0

MCInit ==
    /\ part \in Parts
    /\ \/ part = "notes" /\ Init /\ HistoryAway /\ ListAway
       \/ part = "history" /\ NotesAway /\ History!Init /\ ListAway
       \/ part = "list" /\ NotesAway /\ HistoryAway /\ List!Init

MCNext ==
    \/ (part = "notes" /\ Next /\ UNCHANGED <<part, hVars, lVars>>)
    \/ (part = "history" /\ History!Next /\ UNCHANGED <<part, vars, lVars>>)
    \/ (part = "list" /\ List!Next /\ UNCHANGED <<part, vars, hVars>>)

MCSpec == MCInit /\ [][MCNext]_<<part, vars, hVars, lVars>>

-----------------------------------------------------------------------------
(* What each part promises; the parts of a promise are stated in its module.  *)


\* roomDocs.ts, versions.ts: what a restore replaced is kept and no more
\* versions than may be; a large deletion comes with a version of what was
\* there, no batch is saved an hour after the last one, and trimming takes
\* nothing newer than what it keeps.
VersionsKept ==
    /\ [](part = "history" => /\ History!TypeOK /\ History!RestoreCanBeUndone /\ History!AtMostKept)
    /\ [][part = "history" => History!DeletionKept /\ History!HourlyPoint /\ History!TrimsTheOldest]_hVars

\* README.md:376-378: before a large deletion the notes as they were are kept.
LargeDeletionKept == [][part = "history" => History!LargeDeletionKept]_hVars

\* documents.ts: a room holds at most its cap of documents and one for each
\* other request, and at rest the room was told the list as it is.
ListKept == part = "list" => List!TypeOK /\ List!NearTheCap /\ List!LastListIsCurrent
=============================================================================
