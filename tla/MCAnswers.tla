----------------------------- MODULE MCAnswers ------------------------------
(***************************************************************************)
(* What answers are made from, and where work goes, on small instances:    *)
(* the index of passages, how texts are split and found, and how a         *)
(* strategy and its pool are chosen. They share no state. A behaviour is   *)
(* of one of them, `part', and the others are away.                        *)
(***************************************************************************)
EXTENDS Integers, Sequences, TLC

CONSTANTS None, Unknown

VARIABLES part,
          iUnsplit, iPassages, iOld, iTold, iIndexers, iLock, iQueue, iResults, iSplit, iLost, iFaults, iBoots,
          rUp, rAble, rAdverts, rCatalogue, rJob, rRan, rSteady, rChanges,
          pKind, pText, pPassages,
          sEmbedded, sAsked, sRanked, sSources, sAnswer, sCited

\* Two documents, one from before passages existed, and two replicas.
Index == INSTANCE AskIndex WITH
    Replica <- {"A", "B"}, Document <- {"x1", "x2"}, MaxFaults <- 1, MaxBoots <- 2, Earlier <- {"x1"},
    unsplit <- iUnsplit, passages <- iPassages, old <- iOld, told <- iTold, indexers <- iIndexers,
    lock <- iLock, queue <- iQueue, results <- iResults, split <- iSplit, lost <- iLost, faults <- iFaults,
    boots <- iBoots

\* Three pools; an upscaler on two of them, one strategy's home is another
\* pool than its owner.
Routes == INSTANCE Routing WITH
    Pool <- {"video", "audio", "image"}, Strategy <- {"comprehend", "realesrgan", "gfpgan"}, Media <- {"v", "i"},
    Home <- ("v" :> "video" @@ "i" :> "image"),
    Of <- ("comprehend" :> "v" @@ "realesrgan" :> "v" @@ "gfpgan" :> "i"),
    Owner <- ("comprehend" :> "audio" @@ "realesrgan" :> "video" @@ "gfpgan" :> "image"),
    Registered <- ("video" :> {"realesrgan", "gfpgan"} @@ "audio" :> {"comprehend"} @@ "image" :> {"gfpgan"}),
    Explicit <- {"comprehend", "gfpgan"}, Fallback <- {}, MaxChanges <- 1,
    up <- rUp, able <- rAble, adverts <- rAdverts, catalogue <- rCatalogue, job <- rJob, ran <- rRan,
    steady <- rSteady, changes <- rChanges

\* Transcripts of up to five lines and documents of up to three blocks.
Split == INSTANCE Passages WITH
    TargetChars <- 7, MaxChars <- 10, HeadingChars <- 1, LineGap <- 1, BlockGap <- 1,
    LineLengths <- {1, 3, 8}, MaxLines <- 5, SentenceLengths <- {2, 5, 12}, MaxSentences <- 2, MaxBlocks <- 3,
    kind <- pKind, text <- pText, passages <- pPassages

\* The passages of two uploads, and two pieces of the notes, one of them in an
\* upload's section.
Ranking == INSTANCE Retrieval WITH
    Passage <- {"p1", "p2"}, Piece <- {"n1", "n2"},
    UploadOf <- ("p1" :> "u1" @@ "p2" :> "u2" @@ "n1" :> "u1" @@ "n2" :> None),
    Main <- "main", DocumentOf <- [n \in {"n1", "n2"} |-> "main"],
    Depth <- 3, RrfK <- 2, MeaningWeight <- 100, Kept <- 2, Citable <- 0..3,
    embedded <- sEmbedded, asked <- sAsked, ranked <- sRanked, sources <- sSources, answer <- sAnswer,
    cited <- sCited

iVars == <<iUnsplit, iPassages, iOld, iTold, iIndexers, iLock, iQueue, iResults, iSplit, iLost, iFaults, iBoots>>
rVars == <<rUp, rAble, rAdverts, rCatalogue, rJob, rRan, rSteady, rChanges>>
pVars == <<pKind, pText, pPassages>>
sVars == <<sEmbedded, sAsked, sRanked, sSources, sAnswer, sCited>>

\* A part a behaviour is not of: one with a liveness property rests in its
\* initial state, so that the property can be evaluated.
IndexAway == Index!Init
RoutesAway == rAble = {} /\ Routes!Init
SplitAway == pKind = 0 /\ pText = 0 /\ pPassages = 0
RankingAway == sEmbedded = 0 /\ sAsked = 0 /\ sRanked = 0 /\ sSources = 0 /\ sAnswer = 0 /\ sCited = 0

MCInit ==
    \/ /\ part = "index" /\ Index!Init
       /\ RoutesAway /\ SplitAway /\ RankingAway
    \/ /\ part = "routing" /\ Routes!Init
       /\ IndexAway /\ SplitAway /\ RankingAway
    \/ /\ part = "passages" /\ Split!Init
       /\ IndexAway /\ RoutesAway /\ RankingAway
    \/ /\ part = "retrieval" /\ Ranking!Init
       /\ IndexAway /\ RoutesAway /\ SplitAway

MCNext ==
    \/ (part = "index" /\ Index!Next /\ UNCHANGED <<part, rVars, pVars, sVars>>)
    \/ (part = "routing" /\ Routes!Next /\ UNCHANGED <<part, iVars, pVars, sVars>>)
    \/ (part = "passages" /\ Split!Next /\ UNCHANGED <<part, iVars, rVars, sVars>>)
    \/ (part = "retrieval" /\ Ranking!Next /\ UNCHANGED <<part, iVars, rVars, pVars>>)

\* As each of the modules assumes it, of the part the behaviour is of.
MCFairness ==
    /\ WF_iVars(part = "index" /\ Index!Embedding)
    /\ \A r \in {"A", "B"} : WF_iVars(part = "index" /\ Index!Splitting(r))
    /\ \A p \in {"video", "audio", "image"} : WF_rVars(part = "routing" /\ Routes!Heartbeat(p))
    /\ WF_rVars(part = "routing" /\ Routes!Refresh)
    /\ \A s \in {"comprehend", "realesrgan", "gfpgan"} : WF_rVars(part = "routing" /\ Routes!Expire(s))

MCSpec == MCInit /\ [][MCNext]_<<part, iVars, rVars, pVars, sVars>> /\ MCFairness

-----------------------------------------------------------------------------
(* What each part promises; the parts of a promise are stated in its module.  *)


\* ask/indexer.ts, store.ts: however many replicas race, splitting queues a
\* passage once; one without a vector is on its way unless a fault took it,
\* gets it in the end, and from the next backfill if it was taken.
IndexCompletes ==
    /\ [](part = "index" => Index!TypeOK /\ Index!SplitOnce /\ Index!OnItsWay)
    /\ Index!Searchable
    /\ Index!Recovered

\* routing.ts, advertise.py, strategies.py: a strategy runs only in the pool it
\* lives in, a listed one is known to the pool its job is sent to, the default
\* is what the picker shows, and the catalogue comes to show what can run.
RoutedToItsPool ==
    /\ [](part = "routing" => /\ Routes!TypeOK /\ Routes!RunsWhereItLives
                              /\ Routes!ListedIsReached /\ Routes!AutoIsWhatIsShown)
    /\ (part = "routing") => Routes!CatalogueSettles

\* passages.ts: splitting loses no text, what is said across a passage's end is
\* whole in one, a passage is no larger than its parts force it to be, and
\* text has its heading with it.
SplitsWhole ==
    part = "passages" => /\ Split!NothingLost /\ Split!WholeSomewhere
                         /\ Split!Fits /\ Split!SectionIsNamed

\* ask/service.ts, store.ts: no source repeats another, keywords only break ties
\* and stand in for vectors, and what is cited is what was shown.
RanksAndCites ==
    part = "retrieval" => /\ Ranking!NoSourceRepeats /\ Ranking!MeaningLeads
                          /\ Ranking!CitesWhatWasShown
=============================================================================
