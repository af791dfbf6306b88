----------------------------- MODULE Retrieval ------------------------------
(***************************************************************************)
(* What a question is answered from (gateway/src/ask/service.ts and         *)
(* store.ts): the room's passages and its notes are ranked by meaning and   *)
(* by keywords, the two rankings are merged, an upload's notes section      *)
(* gives way to the upload itself, and the answer's citations are checked   *)
(* against what was shown.  The rankings themselves are the embedding's and *)
(* the database's: any order of any candidates.                             *)
(***************************************************************************)
EXTENDS Naturals, Sequences, FiniteSets, SequencesExt, FiniteSetsExt

CONSTANTS Passage, Piece,     \* of uploads, and of the notes
          None,
          UploadOf,           \* of a passage, and of a piece of its section
          Main,
          DocumentOf,         \* of a piece
          Depth, RrfK,        \* of each ranking
          MeaningWeight,      \* in units of what a keyword's rank counts
          Kept,               \* passages handed to the model
          Citable             \* the numbers an answer may have in brackets

VARIABLES embedded,           \* the candidates whose vectors are there
          asked,              \* {} until the question's vectors are back
          ranked, sources, answer, cited
vars == <<embedded, asked, ranked, sources, answer, cited>>

Candidate == Passage \cup Piece
Orders(S, n) == UNION {{s \in [1..k -> S] : IsInjective(s)} : k \in 0..Min({n, Cardinality(S)})}

-----------------------------------------------------------------------------
\* Weighted reciprocal ranks, as whole numbers.

Unit == FoldLeft(LAMBDA n, r : n * (RrfK + r), 1, [r \in 1..Depth |-> r])
Points(ranking, c, weight) ==
    IF c \in Range(ranking) THEN (weight * Unit) \div (RrfK + CHOOSE r \in DOMAIN ranking : ranking[r] = c) ELSE 0
(* Mutant: both rankings count the same. *)
ScoreEqually(c, meaning, keywords) == Points(meaning, c, 1) + Points(keywords, c, 1)
Score(c, meaning, keywords) == Points(meaning, c, MeaningWeight) + Points(keywords, c, 1)
(* Candidates with one score come in any order; only so many are taken.      *)
Fusions(meaning, keywords) ==
    LET found == Range(meaning) \cup Range(keywords)
        n == Min({2 * Kept, Cardinality(found)})
    IN {s \in [1..n -> found] :
          /\ IsInjective(s)
          /\ \A i \in 1..n - 1 : Score(s[i], meaning, keywords) >= Score(s[i + 1], meaning, keywords)
          /\ \A c \in found \ Range(s) : n > 0 => Score(c, meaning, keywords) <= Score(s[n], meaning, keywords)}

(* A ranking is the nearest of those that have vectors, or any that match.   *)
ByMeaning == {s \in [1..Min({Depth, Cardinality(embedded)}) -> embedded] : IsInjective(s)}
ByKeywords == Orders(Candidate, Depth)

(* The notes' section of an upload that ranks with its own documents goes;   *)
(* only then are there as many as are kept.                                  *)
Uploads(s) == {UploadOf[c] : c \in Range(s) \cap Passage}
(* Mutant: the places are given out before the sections go. *)
WithoutDuplicatesAfter(s) ==
    SelectSeq(SubSeq(s, 1, Min({Kept, Len(s)})), LAMBDA c : ~(c \in Piece /\ UploadOf[c] \in Uploads(SubSeq(s, 1, Min({Kept, Len(s)})))))
WithoutDuplicates(s) ==
    LET rest == SelectSeq(s, LAMBDA c : ~(c \in Piece /\ UploadOf[c] \in Uploads(s)))
    IN SubSeq(rest, 1, Min({Kept, Len(rest)}))

(* What the client gets to follow a citation with.                           *)
Source(c, n) ==
    [n |-> n, kind |-> IF c \in Piece THEN "notes" ELSE "upload",
     upload |-> UploadOf[c],
     docId |-> IF c \in Piece THEN DocumentOf[c] ELSE None]

(* Citations: numbers of sources there are, in order of first use.           *)
(* Mutant: a number is checked against what was found, not what was shown. *)
PointsAtFound(n) == n \in 1..Len(ranked) + 1
PointsAt(n) == n \in 1..Len(sources)
Citations(words) ==
    FoldLeft(LAMBDA out, n : IF PointsAt(n) /\ ~Contains(out, n) THEN Append(out, n) ELSE out, <<>>, words)

-----------------------------------------------------------------------------
Init ==
    /\ embedded \in SUBSET Candidate
    /\ asked = "no" /\ ranked = <<>> /\ sources = <<>> /\ answer = <<>> /\ cited = <<>>

Retrieve(meaning, keywords) ==
    /\ asked = "no"
    /\ \E s \in Fusions(meaning, keywords) : ranked' = s
    /\ sources' = LET kept == WithoutDuplicates(ranked') IN [n \in DOMAIN kept |-> Source(kept[n], n)]
    /\ asked' = IF ranked' = <<>> THEN "nothing found" ELSE "shown"
    /\ UNCHANGED <<embedded, answer, cited>>
(* The answer comes in pieces; brackets may hold any number.                 *)
Delta(n) ==
    /\ asked = "shown" /\ Len(answer) < Kept
    /\ answer' = Append(answer, n)
    /\ UNCHANGED <<embedded, asked, ranked, sources, cited>>
Done ==
    /\ asked = "shown"
    /\ asked' = "answered" /\ cited' = Citations(answer)
    /\ UNCHANGED <<embedded, ranked, sources, answer>>

Next ==
    \/ \E meaning \in ByMeaning, keywords \in ByKeywords : Retrieve(meaning, keywords)
    \/ \E n \in Citable : Delta(n)
    \/ Done
Spec == Init /\ [][Next]_vars

-----------------------------------------------------------------------------
KeptOf == WithoutDuplicates(ranked)

(* No source repeats another: an upload's notes section is shown only if     *)
(* none of the upload's own documents ranked, and its place goes to the next *)
(* candidate.  So the model gets as many sources as there are, up to the     *)
(* most.                                                                     *)
NoSourceRepeats ==
    /\ \A i, j \in DOMAIN sources :
          sources[i].kind = "notes" /\ sources[j].kind = "upload" /\ sources[i].upload # None =>
             sources[i].upload # sources[j].upload
    /\ asked # "no" =>
          Len(sources) = Min({Kept, Cardinality({c \in Range(ranked) : c \in Passage \/ UploadOf[c] \notin Uploads(ranked)})})

(* Keywords only break ties and stand in for vectors: a candidate that has   *)
(* its vector and ranked by meaning is never behind one that has none.       *)
MeaningLeads ==
    \A i, j \in DOMAIN ranked : i < j /\ ranked[j] \in embedded /\ Cardinality(embedded) <= Depth => ranked[i] \in embedded

(* What is cited was shown, each source once, and every bracket of the       *)
(* answer that points at one is cited.                                       *)
CitesWhatWasShown ==
    asked = "answered" =>
       /\ Range(cited) \subseteq {sources[k].n : k \in DOMAIN sources} /\ IsInjective(cited)
       /\ \A k \in DOMAIN answer : (\E s \in Range(sources) : s.n = answer[k]) => answer[k] \in Range(cited)
=============================================================================
