----------------------------- MODULE Comprehend -----------------------------
(***************************************************************************)
(* One recording's job in the audio pool: denoised if asked, transcribed,   *)
(* and summarised part by part (workers/strategies/audio/comprehend.py,     *)
(* transcribe.py and text/summarise.py).  A transcript is its length and    *)
(* where its lines break; a draft the model writes is its lines: "section"  *)
(* (## Chapters), "heading" (any other #), "words" or a chapter's entry.    *)
(***************************************************************************)
EXTENDS Naturals, Sequences, FiniteSets, SequencesExt, FiniteSetsExt

CONSTANTS MaxLength, Breaks,        \* the transcript, in characters
          Size, Overlap,            \* of the parts
          Stamp, Topic, MaxChapters,
          Drafts,                   \* what the model may write for a part
          MaxFaults

VARIABLES wants,        \* what was asked for and is configured
          source,       \* the transcript
          step, progress,
          part, found,  \* the next part to summarise, and the chapters so far
          draft,        \* the model's last one
          chapters, artifacts, faults
vars == <<wants, source, step, progress, part, found, draft, chapters, artifacts, faults>>

Entry == Stamp \X Topic
Line == {"section", "heading", "words"} \cup Entry

TypeOK ==
    /\ wants \in [denoise : BOOLEAN, model : BOOLEAN]
    /\ source.length \in 0..MaxLength /\ source.breaks \subseteq Breaks
    /\ step \in {"start", "transcribe", "summarise", "reduce", "done", "failed"}
    /\ progress \in 0..10000 /\ part \in 1..MaxLength + 1
    /\ found \subseteq Entry /\ draft \in Drafts
    /\ chapters \in Seq(Entry) /\ artifacts \in {<<>>, <<"transcript">>, <<"transcript", "summary">>}
    /\ faults \in 0..MaxFaults

-----------------------------------------------------------------------------
\* The parts: as long as they may be, cut at a line break in their second
\* half if there is one, each repeating the end of the one before.

Text(from, to) == [from |-> from, to |-> to]
CutAt(from, to) ==
    LET lines == {b \in source.breaks : b >= from + Size \div 2 /\ b < to}
    IN IF to < source.length /\ lines # {} THEN Max(lines) ELSE to
(* Mutant: the next part starts after the overlap instead of before it. *)
NextAfter(from, to) == to + Overlap
NextFrom(from, to) == Max({to - Overlap, from + 1})
Chunks ==
    LET C[from \in 0..source.length + Overlap] ==
          IF from >= source.length THEN <<>>
          ELSE LET to == CutAt(from, Min({source.length, from + Size}))
               IN <<Text(from, to)>> \o (IF to >= source.length THEN <<>> ELSE C[NextFrom(from, to)])
    IN IF source.length <= Size THEN <<Text(0, source.length)>> ELSE C[0]

-----------------------------------------------------------------------------
\* Chapters come out of a draft: the entries under the section's heading, up
\* to the next heading; what is left of it goes on to be merged.

Inside(lines, k) ==
    \E s \in 1..k : lines[s] = "section" /\ \A i \in s..k : lines[i] # "heading"
Extracted(lines) == {lines[k] : k \in {i \in DOMAIN lines : lines[i] \in Entry /\ Inside(lines, i)}}
Left(lines) == LET at == SetToSortSeq({k \in DOMAIN lines : ~Inside(lines, k)}, <)
               IN [i \in DOMAIN at |-> lines[at[i]]]

(* In time order - of entries with one time in whichever order the set has - *)
(* without repeats, and evenly chosen when there are too many.               *)
Sorted(entries) == {s \in SetToSeqs(entries) : \A i \in 1..Len(s) - 1 : s[i][1] <= s[i + 1][1]}
Repeats(e, f) == e[1] = f[1] \/ e[2] = f[2]
Unrepeated(s) == FoldLeft(LAMBDA out, e : IF out # <<>> /\ Repeats(Last(out), e) THEN out ELSE Append(out, e), <<>>, s)
(* Half goes to the even one.                                                *)
Rounded(a, b) == LET q == a \div b
                     twice == 2 * (a % b)
                 IN IF twice > b \/ (twice = b /\ q % 2 = 1) THEN q + 1 ELSE q
(* Mutant: the earliest are chosen. *)
SpreadEarliest(s) == IF Len(s) <= MaxChapters THEN s ELSE SubSeq(s, 1, MaxChapters)
Spread(s) == IF Len(s) <= MaxChapters THEN s
             ELSE [i \in 1..MaxChapters |-> s[1 + Rounded((i - 1) * (Len(s) - 1), MaxChapters - 1)]]

-----------------------------------------------------------------------------
\* Progress is one bar from 0 to 10000 across the steps.

TranscribeTo == IF wants.model THEN 7500 ELSE 9800
TranscribeFrom == IF wants.denoise THEN 1500 ELSE 0
(* Mutant: the summary reports as if it were the whole job. *)
SummaryAlone(i) == (8000 * (i - 1)) \div Len(Chunks)
SummaryProgress(i) == 7600 + (IF Len(Chunks) = 1 THEN 1100 ELSE (1760 * (i - 1)) \div Len(Chunks))

Init ==
    /\ wants \in [denoise : BOOLEAN, model : BOOLEAN]
    /\ source = [length |-> 0, breaks |-> {}, long |-> FALSE]
    /\ step = "start" /\ progress = 0 /\ part = 1 /\ found = {} /\ draft = <<>>
    /\ chapters = <<>> /\ artifacts = <<>> /\ faults = 0

Fault == faults < MaxFaults /\ faults' = faults + 1
Denoise ==
    /\ step = "start"
    /\ step' = "transcribe" /\ progress' = IF wants.denoise THEN 1400 ELSE progress
    /\ UNCHANGED <<wants, source, part, found, draft, chapters, artifacts, faults>>
Finished == step' = "done" /\ UNCHANGED <<part, found, draft, chapters>>
(* The transcript is an artifact whatever comes after it.                    *)
Transcribe(length, breaks, long) ==
    /\ step = "transcribe"
    /\ source' = [length |-> length, breaks |-> breaks, long |-> long]
    /\ artifacts' = <<"transcript">>
    /\ progress' = TranscribeFrom + ((TranscribeTo - TranscribeFrom) * 98) \div 100
    /\ IF wants.model THEN step' = "summarise" /\ UNCHANGED <<part, found, draft, chapters>> ELSE Finished
    /\ UNCHANGED <<wants, faults>>
(* Nothing was said, it is too long, or the recogniser does not load.        *)
NoTranscript ==
    /\ step \in {"start", "transcribe"} /\ Fault
    /\ step' = "failed"
    /\ UNCHANGED <<wants, source, progress, part, found, draft, chapters, artifacts>>

(* One call to the model for a part, and one to merge the drafts.            *)
Keep(lines) == found' = IF source.long THEN found \cup Extracted(lines) ELSE found
SummarisePart(lines) ==
    /\ step = "summarise"
    /\ progress' = SummaryProgress(part)
    /\ draft' = lines /\ Keep(lines)
    /\ part' = part + 1
    /\ step' = IF part = Len(Chunks) THEN "reduce" ELSE step
    /\ UNCHANGED <<wants, source, chapters, artifacts, faults>>
Reduce ==
    /\ step = "reduce"
    /\ progress' = IF Len(Chunks) = 1 THEN progress ELSE 9470
    /\ \E s \in Sorted(found) : chapters' = Spread(Unrepeated(s))
    /\ artifacts' = Append(artifacts, "summary")
    /\ step' = "done"
    /\ UNCHANGED <<wants, source, part, found, draft, faults>>
(* Mutant: what the summary raises fails the job. *)
AfterNoSummaryFails == "failed"
AfterNoSummary == "done"
NoSummary ==
    /\ step \in {"summarise", "reduce"} /\ Fault
    /\ step' = AfterNoSummary
    /\ UNCHANGED <<wants, source, progress, part, found, draft, chapters, artifacts>>

Next ==
    \/ Denoise \/ NoTranscript \/ Reduce \/ NoSummary
    \/ \E n \in 1..MaxLength, breaks \in SUBSET Breaks, long \in BOOLEAN :
          (\A b \in breaks : b < n) /\ Transcribe(n, breaks, long)
    \/ \E lines \in Drafts : SummarisePart(lines)
Spec == Init /\ [][Next]_vars

-----------------------------------------------------------------------------
Summarised == artifacts = <<"transcript", "summary">>

(* A recording that was transcribed has its transcript in the result: no     *)
(* failure of what comes after throws it away.                               *)
TranscriptKept == artifacts # <<>> => step # "failed"

(* Everything that was said is in a part the model was given: the first      *)
(* starts at the start, each next one before the end of the one before, the  *)
(* last one ends at the end; and none is larger than the provider takes.     *)
AllIsSummarised ==
    Summarised =>
       /\ Chunks[1].from = 0 /\ Last(Chunks).to = source.length
       /\ \A k \in 1..Len(Chunks) - 1 : Chunks[k].from < Chunks[k + 1].from /\ Chunks[k + 1].from <= Chunks[k].to
       /\ \A k \in DOMAIN Chunks : Chunks[k].to - Chunks[k].from <= Size

(* The table of contents is in time order, no longer than it may be, made of *)
(* entries the model found, and reaches across the whole recording: it has   *)
(* the first time found, and what it has last is not followed by more than   *)
(* what repeats it.                                                          *)
WholeContents ==
    Summarised =>
       /\ Range(chapters) \subseteq found /\ Len(chapters) <= MaxChapters
       /\ \A i \in 1..Len(chapters) - 1 : chapters[i][1] < chapters[i + 1][1]
       /\ found # {} => /\ chapters # <<>> /\ chapters[1][1] = Min({e[1] : e \in found})
                        /\ \A e \in found : e[1] > Last(chapters)[1] => e[2] = Last(chapters)[2]

(* The bar never goes back from one step to the next.                        *)
OneBar == progress' >= progress
=============================================================================
