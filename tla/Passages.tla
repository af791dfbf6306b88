------------------------------ MODULE Passages ------------------------------
(***************************************************************************)
(* How a document becomes the passages that Ask the room searches and cites *)
(* (gateway/src/ask/passages.ts).  A text is what the splitting looks at:   *)
(* lengths.  A transcript is its lines' (0: no stamp, or nothing said); a   *)
(* document is its blocks, each with or without a heading as its first line *)
(* and with the sentences that follow.                                      *)
(***************************************************************************)
EXTENDS Naturals, Sequences, FiniteSets, SequencesExt

CONSTANTS TargetChars, MaxChars, HeadingChars,
          LineGap, BlockGap,                 \* what joins lines, and blocks
          LineLengths, MaxLines,
          SentenceLengths, MaxSentences, MaxBlocks

VARIABLES kind, text, passages
vars == <<kind, text, passages>>

Block == [heading : BOOLEAN, rest : SeqOf(SentenceLengths, MaxSentences)]
Transcripts == SeqOf(LineLengths \cup {0}, MaxLines)
Documents == SeqOf({b \in Block : b.heading \/ b.rest # <<>>}, MaxBlocks)

Total(lengths) == FoldLeft(LAMBDA n, l : n + l, 0, lengths)

-----------------------------------------------------------------------------
\* A transcript: lines packed to the target, the last one repeated.

Said(lines) == SelectSeq([i \in DOMAIN lines |-> [at |-> i, chars |-> lines[i]]], LAMBDA l : l.chars > 0)
Size(group) == FoldLeft(LAMBDA n, l : n + l.chars + LineGap, 0, group)
(* Mutant: no line is repeated. *)
CarriedNever(group) == <<>>
Carried(group) == IF Len(group) > 1 /\ Last(group).chars * 2 < TargetChars THEN <<Last(group)>> ELSE <<>>
(* Mutant: the line that comes next is not counted. *)
FullAlready(group, line) == group # <<>> /\ Size(group) > TargetChars
Full(group, line) == group # <<>> /\ Size(group) + line.chars > TargetChars
SplitTranscript(lines) ==
    LET Add(s, line) == IF Full(s.current, line)
                        THEN [out |-> Append(s.out, s.current), current |-> Append(Carried(s.current), line)]
                        ELSE [s EXCEPT !.current = Append(@, line)]
        s == FoldLeft(Add, [out |-> <<>>, current |-> <<>>], Said(lines))
    IN IF s.current = <<>> THEN s.out ELSE Append(s.out, s.current)

-----------------------------------------------------------------------------
\* A document.  A paragraph that is too long is cut at sentence ends, and a
\* sentence that is too long, hard.

Cuts(n) == (n - 1) \div MaxChars
Hard(out, n) == out \o [k \in 1..Cuts(n) |-> MaxChars]
Rest(n) == n - MaxChars * Cuts(n)
(* Mutant: what the buffer still holds at the end is left out. *)
ClosedWithout(s) == s.out
Closed(s) == IF s.buffer > 0 THEN Append(s.out, s.buffer) ELSE s.out
Pieces(sentences) ==
    LET Add(s, n) ==
          LET out == IF s.buffer > 0 /\ s.buffer + n > TargetChars THEN Append(s.out, s.buffer) ELSE s.out
              held == IF out = s.out THEN s.buffer + n ELSE n
          IN [out |-> Hard(out, held), buffer |-> Rest(held)]
    IN IF Total(sentences) <= MaxChars THEN <<Total(sentences)>>
       ELSE Closed(FoldLeft(Add, [out |-> <<>>, buffer |-> 0], sentences))

(* Blocks packed to the target, as parts: a heading, or a piece of what      *)
(* follows it; s.heading is the block of the section's heading.              *)
Heading(b) == [block |-> b, piece |-> 0, chars |-> HeadingChars]
Piece(b, k, n) == [block |-> b, piece |-> k, chars |-> n]
BufferSize(s) == FoldLeft(LAMBDA n, p : n + p.chars + BlockGap, 0, s.buffer)
Flushed(s) == [s EXCEPT !.out = IF s.content THEN Append(@, s.buffer) ELSE @, !.buffer = <<>>, !.content = FALSE]
(* Mutant: a passage that starts partway through a section is not told so. *)
PrefixedNever(s) == s
Prefixed(s) == IF s.heading = 0 THEN s ELSE [s EXCEPT !.buffer = Append(@, Heading(s.heading))]

AddHeading(s, b) ==
    LET t == IF s.content /\ BufferSize(s) * 2 > TargetChars THEN Flushed(s) ELSE s
    IN [t EXCEPT !.heading = b, !.buffer = Append(@, Heading(b))]
AddPiece(s, p) ==
    LET t == IF s.content /\ BufferSize(s) + p.chars > TargetChars THEN Prefixed(Flushed(s)) ELSE s
    IN [t EXCEPT !.buffer = Append(@, p), !.content = TRUE]
AddBlock(doc, s, b) ==
    LET t == IF doc[b].heading THEN AddHeading(s, b) ELSE s
        ps == IF doc[b].rest = <<>> THEN <<>> ELSE Pieces(doc[b].rest)
    IN FoldLeft(AddPiece, t, [k \in DOMAIN ps |-> Piece(b, k, ps[k])])
SplitDocument(doc) ==
    Flushed(FoldLeft(LAMBDA s, b : AddBlock(doc, s, b),
                     [out |-> <<>>, buffer |-> <<>>, content |-> FALSE, heading |-> 0],
                     [b \in DOMAIN doc |-> b])).out

-----------------------------------------------------------------------------
NotYet == <<<<>>>>
Init == /\ \/ kind = "transcript" /\ text \in {t \in Transcripts : t # <<>> /\ t[1] # 0}
           \/ kind = "document" /\ text \in Documents
        /\ passages = NotYet
SplitPassages ==
    /\ passages = NotYet
    /\ passages' = IF kind = "transcript" THEN SplitTranscript(text) ELSE SplitDocument(text)
    /\ UNCHANGED <<kind, text>>
Next == SplitPassages
Spec == Init /\ [][Next]_vars

-----------------------------------------------------------------------------
Split(k) == passages # NotYet /\ kind = k
Each == DOMAIN passages
IsText(p) == p.piece > 0
Earlier(p, q) == p.block < q.block \/ (p.block = q.block /\ p.piece < q.piece)
Parts(P(_)) == SelectSeq(FlattenSeq(passages), P)

(* Every spoken line is in a passage, each passage starting later than the   *)
(* one before; a document's text is all there, once and in order, if it has  *)
(* any.                                                                      *)
NothingLost ==
    /\ Split("transcript") =>
         /\ UNION {Range(passages[k]) : k \in Each} = Range(Said(text))
         /\ \A k \in Each \ {1} : passages[k - 1][1].at < passages[k][1].at
    /\ Split("document") =>
         /\ \A i, j \in DOMAIN Parts(IsText) : i < j => Earlier(Parts(IsText)[i], Parts(IsText)[j])
         /\ \A b \in DOMAIN text :
               Total([i \in DOMAIN Parts(LAMBDA p : IsText(p) /\ p.block = b) |-> Parts(LAMBDA p : IsText(p) /\ p.block = b)[i].chars])
                 = Total(text[b].rest)

(* What was said across the end of a passage is whole in one of them, unless *)
(* its first line is half a passage long or makes one alone.                 *)
WholeSomewhere == Split("transcript") =>
    \A i \in 1..Len(Said(text)) - 1 :
       LET line == Said(text)[i]
       IN \/ \E k \in Each : {line, Said(text)[i + 1]} \subseteq Range(passages[k])
          \/ line.chars * 2 >= TargetChars
          \/ <<line>> \in Range(passages)

(* A passage fits its target as far as its parts allow: three lines or more, *)
(* or two pieces or more, never take it past, and a single piece is never    *)
(* longer than the most.                                                     *)
Before(p) == SubSeq(p, 1, Len(p) - 1)
Chars(p, gap) == FoldLeft(LAMBDA n, x : n + x.chars + gap, 0, p) - gap
TextsIn(p) == Len(SelectSeq(p, IsText))
UpToText(p) == SubSeq(p, 1, CHOOSE k \in DOMAIN p : IsText(p[k]) /\ \A i \in k + 1..Len(p) : ~IsText(p[i]))
Fits ==
    /\ Split("transcript") => \A k \in Each : Len(passages[k]) > 2 => Chars(passages[k], LineGap) <= TargetChars
    /\ Split("document") => \A k \in Each :
         /\ TextsIn(passages[k]) > 1 => Chars(UpToText(passages[k]), BlockGap) <= TargetChars
         /\ \A i \in DOMAIN passages[k] : passages[k][i].chars <= MaxChars

(* Text is never cited without the heading it stands under: the passage it   *)
(* is in has it, before it.                                                  *)
SectionOf(b) == LET above == {a \in 1..b : text[a].heading} IN IF above = {} THEN 0 ELSE CHOOSE a \in above : \A c \in above : c <= a
SectionIsNamed == Split("document") =>
    \A k \in Each : \A i \in DOMAIN passages[k] :
       LET p == passages[k][i]
       IN IsText(p) /\ SectionOf(p.block) > 0 => \E j \in 1..i - 1 : passages[k][j] = Heading(SectionOf(p.block))
=============================================================================
