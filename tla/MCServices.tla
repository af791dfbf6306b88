----------------------------- MODULE MCServices -----------------------------
(***************************************************************************)
(* The services around the rooms and the pipeline, on small instances:     *)
(* webhooks, the storage of uploads and its sweep, questions to the room,  *)
(* WebSocket connections, rate limits, the budget of model calls,          *)
(* upscaling, and recordings. They share no state. A behaviour is of one   *)
(* of them, `part', and the others are away.                               *)
(***************************************************************************)
EXTENDS Integers, Sequences, TLC

CONSTANT None

VARIABLES part,
          wEndpoints, wRows, wBacklog, wUnread, wReader, wAttempts, wReplaying, wPosted, wDropped, wReplays,
          wFaults,
          uInto, uStep, uOwner, uFree, uStored, uFiles, uWorking, uDeleting, uAlive, uPresent, uIdle, uSweep,
          uRaced, uHere, uCrashes, uDeletes, uIdles,
          aTurns, aLine, aCut, aRequests, aMail, aTasks, aAnswers, aMissed, aFaults,
          cSocket, cPeer, cAlive, cPinged, cOpen,
          rNow, rEvents, rAllowed, rAsking, rAdvice, rTries, rMisses, rLooking, rTokens, rLast, rTaken,
          mDay, mCount, mCalls, mSent, mLet, mMarked, mLate, mFaults,
          fFile, fProc, fModel, fJobs, fFaults, fCrashes,
          kWants, kSource, kStep, kProgress, kPart, kFound, kDraft, kChapters, kArtifacts, kFaults

MCDrafts == {<<>>, <<"words">>, <<"section", <<1, "a">>, <<2, "b">>, "heading", "words">>,
             <<"words", "section", <<2, "a">>, <<3, "a">>>>, <<"section", <<1, "a">>, "words", <<4, "b">>>>,
             <<<<3, "a">>, "section", <<4, "b">>>>}

\* One event, two endpoints, two replicas that may stop once; one replay.
Hooks == INSTANCE Webhooks WITH
    Replica <- {"A", "B"}, Event <- {"e1"}, Endpoint <- {"p1", "p2"}, Delivery <- {"d1", "d2"},
    MaxAttempts <- 2, Concurrency <- 1, MaxReplays <- 1, MaxFaults <- 1,
    endpoints <- wEndpoints, rows <- wRows, backlog <- wBacklog, unread <- wUnread, reader <- wReader,
    attempts <- wAttempts, replaying <- wReplaying, posted <- wPosted, dropped <- wDropped,
    replays <- wReplays, faults <- wFaults
ASSUME Hooks!HooksAssumption

\* Two uploads, at two replicas, into one room or two; two do not fit.
Storage == INSTANCE UploadStorage WITH
    Replica <- {"A", "B"}, Upload <- {"u1", "u2"}, Room <- {"r1", "r2"},
    At <- ("u1" :> "A" @@ "u2" :> "B"),
    Plans <- {[u \in {"u1", "u2"} |-> "r1"], "u1" :> "r1" @@ "u2" :> "r2"},
    Size <- [u \in {"u1", "u2"} |-> 2], RoomLimit <- 3, SessionLimit <- 3, JobLimit <- 2, PoolSize <- 4,
    Sweeper <- "A", MaxCrashes <- 1, MaxDeletes <- 1, MaxIdles <- 1,
    into <- uInto, step <- uStep, owner <- uOwner, free <- uFree, stored <- uStored, files <- uFiles,
    working <- uWorking, deleting <- uDeleting, alive <- uAlive, present <- uPresent, idle <- uIdle,
    sweep <- uSweep, raced <- uRaced, here <- uHere, crashes <- uCrashes, deletes <- uDeletes, idles <- uIdles
ASSUME Storage!StorageAssumption

\* Two questions, one with an answer in two pieces.
Asking == INSTANCE Ask WITH
    Question <- {"q1", "q2"}, Pieces <- ("q1" :> 2 @@ "q2" :> 1), MaxFaults <- 1,
    turns <- aTurns, line <- aLine, cut <- aCut, requests <- aRequests, mail <- aMail, tasks <- aTasks,
    answers <- aAnswers, missed <- aMissed, faults <- aFaults

\* Three sockets of an address that may have two.
Lines == INSTANCE Connections WITH
    Socket <- {"s1", "s2", "s3"}, PerAddress <- 2,
    socket <- cSocket, peer <- cPeer, alive <- cAlive, pinged <- cPinged, open <- cOpen

\* Two callers; two in three units of time.  Windows, wrong codes and buckets are
\* parts of their own.
Limits == INSTANCE RateLimits WITH
    Caller <- {"c1", "c2"}, Window <- 3, AtMost <- 2, Capacity <- 2, PerSecond <- 1, MaxTime <- 6, MaxEvents <- 5,
    now <- rNow, events <- rEvents, allowed <- rAllowed, asking <- rAsking, advice <- rAdvice, tries <- rTries,
    misses <- rMisses, looking <- rLooking, tokens <- rTokens, last <- rLast, taken <- rTaken

\* Three calls, one of them streamed, over two days.
Budget == INSTANCE ModelCalls WITH
    Call <- {"c1", "c2", "c3"}, Streamed <- {"c3"}, Cap <- 2, Retries <- 1, Quota <- 1, Days <- 2, MaxFaults <- 1,
    day <- mDay, count <- mCount, calls <- mCalls, sent <- mSent, let <- mLet, marked <- mMarked,
    late <- mLate, faults <- mFaults

\* A photo and a clip of two frames in two processes.
Upscaler == INSTANCE Upscaling WITH
    Proc <- {"p1", "p2"}, Frames <- ("p1" :> 1 @@ "p2" :> 2), MinTile <- 2, MaxTile <- 5, Asked <- {1, 9},
    Widths <- {3, 7}, Scale <- 2, MaxJobs <- 2, MaxFaults <- 2, MaxCrashes <- 1,
    file <- fFile, proc <- fProc, model <- fModel, jobs <- fJobs, faults <- fFaults, crashes <- fCrashes

\* A recording of up to three parts; what the model may write for one.
Recording == INSTANCE Comprehend WITH
    MaxLength <- 9, Breaks <- {2, 4, 6, 7}, Size <- 5, Overlap <- 1, Stamp <- 1..4, Topic <- {"a", "b"},
    MaxChapters <- 2, Drafts <- MCDrafts, MaxFaults <- 1,
    wants <- kWants, source <- kSource, step <- kStep, progress <- kProgress, part <- kPart, found <- kFound,
    draft <- kDraft, chapters <- kChapters, artifacts <- kArtifacts, faults <- kFaults

wVars == <<wEndpoints, wRows, wBacklog, wUnread, wReader, wAttempts, wReplaying, wPosted, wDropped, wReplays,
          wFaults>>
uVars == <<uInto, uStep, uOwner, uFree, uStored, uFiles, uWorking, uDeleting, uAlive, uPresent, uIdle, uSweep,
          uRaced, uHere, uCrashes, uDeletes, uIdles>>
aVars == <<aTurns, aLine, aCut, aRequests, aMail, aTasks, aAnswers, aMissed, aFaults>>
cVars == <<cSocket, cPeer, cAlive, cPinged, cOpen>>
rVars == <<rNow, rEvents, rAllowed, rAsking, rAdvice, rTries, rMisses, rLooking, rTokens, rLast, rTaken>>
mVars == <<mDay, mCount, mCalls, mSent, mLet, mMarked, mLate, mFaults>>
fVars == <<fFile, fProc, fModel, fJobs, fFaults, fCrashes>>
kVars == <<kWants, kSource, kStep, kProgress, kPart, kFound, kDraft, kChapters, kArtifacts, kFaults>>

\* A part a behaviour is not of: one with a liveness property rests in its
\* initial state, so that the property can be evaluated.
HooksAway == Hooks!Init
StorageAway == uInto = [u \in {"u1", "u2"} |-> "r1"] /\ Storage!Init
AskingAway == Asking!Init
LinesAway == Lines!Init
LimitsAway == rNow = 0 /\ rEvents = 0 /\ rAllowed = 0 /\ rAsking = 0 /\ rAdvice = 0 /\ rTries = 0 /\ rMisses = 0 /\
          rLooking = 0 /\ rTokens = 0 /\ rLast = 0 /\ rTaken = 0
BudgetAway == mDay = 0 /\ mCount = 0 /\ mCalls = 0 /\ mSent = 0 /\ mLet = 0 /\ mMarked = 0 /\ mLate = 0 /\ mFaults = 0
UpscalerAway == fFile = 0 /\ fProc = 0 /\ fModel = 0 /\ fJobs = 0 /\ fFaults = 0 /\ fCrashes = 0
RecordingAway == kWants = 0 /\ kSource = 0 /\ kStep = 0 /\ kProgress = 0 /\ kPart = 0 /\ kFound = 0 /\ kDraft = 0 /\
          kChapters = 0 /\ kArtifacts = 0 /\ kFaults = 0

MCInit ==
    \/ /\ part = "webhooks" /\ Hooks!Init
       /\ StorageAway /\ AskingAway /\ LinesAway /\ LimitsAway /\ BudgetAway /\ UpscalerAway /\ RecordingAway
    \/ /\ part = "storage" /\ Storage!Init
       /\ HooksAway /\ AskingAway /\ LinesAway /\ LimitsAway /\ BudgetAway /\ UpscalerAway /\ RecordingAway
    \/ /\ part = "ask" /\ Asking!Init
       /\ HooksAway /\ StorageAway /\ LinesAway /\ LimitsAway /\ BudgetAway /\ UpscalerAway /\ RecordingAway
    \/ /\ part = "connections" /\ Lines!Init
       /\ HooksAway /\ StorageAway /\ AskingAway /\ LimitsAway /\ BudgetAway /\ UpscalerAway /\ RecordingAway
    \/ /\ part \in {"windows", "codes", "buckets"} /\ Limits!Init
       /\ HooksAway /\ StorageAway /\ AskingAway /\ LinesAway /\ BudgetAway /\ UpscalerAway /\ RecordingAway
    \/ /\ part = "model" /\ Budget!Init
       /\ HooksAway /\ StorageAway /\ AskingAway /\ LinesAway /\ LimitsAway /\ UpscalerAway /\ RecordingAway
    \/ /\ part = "upscaling" /\ Upscaler!Init
       /\ HooksAway /\ StorageAway /\ AskingAway /\ LinesAway /\ LimitsAway /\ BudgetAway /\ RecordingAway
    \/ /\ part = "comprehend" /\ Recording!Init
       /\ HooksAway /\ StorageAway /\ AskingAway /\ LinesAway /\ LimitsAway /\ BudgetAway /\ UpscalerAway

MCNext ==
    \/ (part = "webhooks" /\ Hooks!Next /\ UNCHANGED <<part, uVars, aVars, cVars, rVars, mVars, fVars, kVars>>)
    \/ (part = "storage" /\ Storage!Next /\ UNCHANGED <<part, wVars, aVars, cVars, rVars, mVars, fVars, kVars>>)
    \/ (part = "ask" /\ Asking!Next /\ UNCHANGED <<part, wVars, uVars, cVars, rVars, mVars, fVars, kVars>>)
    \/ (part = "connections" /\ Lines!Next /\ UNCHANGED <<part, wVars, uVars, aVars, rVars, mVars, fVars, kVars>>)
    \/ (part = "windows" /\ Limits!WindowNext /\ UNCHANGED <<part, wVars, uVars, aVars, cVars, mVars, fVars, kVars>>)
    \/ (part = "codes" /\ Limits!CodesNext /\ UNCHANGED <<part, wVars, uVars, aVars, cVars, mVars, fVars, kVars>>)
    \/ (part = "buckets" /\ Limits!BucketNext /\ UNCHANGED <<part, wVars, uVars, aVars, cVars, mVars, fVars, kVars>>)
    \/ (part = "model" /\ Budget!Next /\ UNCHANGED <<part, wVars, uVars, aVars, cVars, rVars, fVars, kVars>>)
    \/ (part = "upscaling" /\ Upscaler!Next /\ UNCHANGED <<part, wVars, uVars, aVars, cVars, rVars, mVars, kVars>>)
    \/ (part = "comprehend" /\ Recording!Next /\ UNCHANGED <<part, wVars, uVars, aVars, cVars, rVars, mVars, fVars>>)

\* As each of the modules assumes it, of the part the behaviour is of.
MCFairness ==
    /\ \A r \in {"A", "B"} : WF_wVars(part = "webhooks" /\ Hooks!Progress(r))
    /\ WF_wVars(part = "webhooks" /\ Hooks!ScheduleReplay)
    /\ WF_uVars(part = "storage" /\ Storage!Sweeping)
    /\ \A q \in {"q1", "q2"} : /\ WF_aVars(part = "ask" /\ Asking!Browser(q))
                               /\ WF_aVars(part = "ask" /\ Asking!GiveUp(q))
                               /\ WF_aVars(part = "ask" /\ Asking!Gateway(q))
    /\ WF_cVars(part = "connections" /\ Lines!Beat)
    /\ \A s \in {"s1", "s2", "s3"} : /\ WF_cVars(part = "connections" /\ (Lines!Answer(s) \/ Lines!Pong(s)))
                                     /\ WF_cVars(part = "connections" /\ Lines!Closed(s))

MCSpec == MCInit /\ [][MCNext]_<<part, wVars, uVars, aVars, cVars, rVars, mVars, fVars, kVars>> /\ MCFairness

-----------------------------------------------------------------------------
(* What each part promises; the parts of a promise are stated in its module.  *)


\* webhooks/dispatcher.ts, queue.ts, delivery.ts: a delivery is attempted by one
\* replica at a time, as often as its row counts and never more than
\* maxAttempts times; a restart loses none that waits; once settled it stays
\* so, and each is settled in the end unless a stop or failure dropped it.
DeliveriesSettle ==
    /\ [](part = "webhooks" => /\ Hooks!TypeOK /\ Hooks!OneAttemptAtATime
                               /\ Hooks!PostsAreCounted /\ Hooks!WaitingIsKept)
    /\ [][part = "webhooks" => Hooks!SettledStays]_wVars
    /\ Hooks!Settles

\* limits.ts, local.ts, lifecycle.ts: uploads that arrive together stay within
\* the limits, a recorded one has its file unless the sweep overtook it, only
\* a session nobody is in is swept, and files without a row go in the end.
FilesMatchRows ==
    /\ [](part = "storage" => /\ Storage!TypeOK /\ Storage!WithinLimits
                              /\ Storage!StoredHasFile /\ Storage!DeletedWhenIdle)
    /\ Storage!NothingLeftBehind

\* ask/service.ts, useAsk.ts: an answer shown as finished is the whole answer
\* to its question, stays, and no question spins for ever, whatever fails.
AnswersEnd ==
    /\ [](part = "ask" => Asking!TypeOK /\ Asking!WholeAnswer)
    /\ [][part = "ask" => Asking!AnswerStays]_aVars
    /\ Asking!EndsForGood

\* ws/server.ts: an address's count is its sockets that are there; the heartbeat
\* drops nobody who answers, and in the end everyone who vanished.
OnlyTheGoneAreDropped ==
    /\ [](part = "connections" => /\ Lines!TypeOK /\ Lines!CountsWhoIsThere /\ Lines!AnswerersStay)
    /\ Lines!GoneAreDropped

\* limits.ts, rateLimit.ts: no stretch of a window's length lets more through
\* than its limit, no bucket more than a burst and the rate, wrong codes past
\* the limit are those under way, and whoever comes back when told is let in.
LimitsHold ==
    /\ [](part \in {"windows", "codes", "buckets"} => Limits!TypeOK)
    /\ [](part = "windows" => Limits!NeverTwiceAtAnEdge)
    /\ [](part = "codes" => Limits!GuessesAreFew)
    /\ [](part = "buckets" => Limits!BurstsAreBounded)
    /\ [][part = "windows" => Limits!RetryFits]_rVars

\* workers/common/budget.py: no day lets through more calls than its budget,
\* none is refused while there is some, and a spent quota pauses its day.
BudgetHolds ==
    /\ [](part = "model" => Budget!TypeOK /\ Budget!WithinBudget /\ Budget!PausedForCause)
    /\ [][part = "model" => Budget!PauseHolds]_mVars

\* realesrgan.py: a finished frame is whole and in the job's precision, no bad
\* copy of the weights is left, and a tile shrinks only when memory ran out.
UpscalesWhole ==
    /\ [](part = "upscaling" => /\ Upscaler!TypeOK /\ Upscaler!WholeAndFinite /\ Upscaler!NoBadCopyStays)
    /\ [][part = "upscaling" => Upscaler!BacksOff]_fVars

\* comprehend.py, summarise.py: everything said is summarised, the contents
\* reach across the recording, the transcript survives whatever comes after
\* it, and the progress bar never goes back.
RecordingKept ==
    /\ [](part = "comprehend" => /\ Recording!TypeOK /\ Recording!TranscriptKept
                                 /\ Recording!AllIsSummarised /\ Recording!WholeContents)
    /\ [][part = "comprehend" => Recording!OneBar]_kVars
=============================================================================
