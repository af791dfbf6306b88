------------------------------ MODULE TextDiff ------------------------------
(***************************************************************************)
(* What a rewrite changed, as the compare view shows it (client/src/lib/   *)
(* diff.ts): paragraphs are matched first, then the words of the stretches  *)
(* between matching paragraphs, then the result is tidied for reading.      *)
(* A text is a sequence of characters, of which only the class matters:     *)
(* letters, white space and marks, some marks looking alike.                *)
(***************************************************************************)
EXTENDS Naturals, Sequences, FiniteSets, SequencesExt, FiniteSetsExt

CONSTANTS Letter, White, Mark,  \* the characters
          LineEnd, Blank,       \* two of White
          LooksLike(_),         \* a mark by the one it reads as
          MaxBefore, MaxAfter,  \* lengths of the texts tried
          MaxCells

VARIABLES before, after, parts
vars == <<before, after, parts>>

Texts(n) == UNION {[1..k -> Letter \cup White \cup Mark] : k \in 0..n}
Join(seqs) == FlattenSeq(seqs)

-----------------------------------------------------------------------------
\* Words, runs of white space, single marks.

SameRun(c, d) == {c, d} \subseteq Letter \/ {c, d} \subseteq White
Tokens(text) ==
    FoldLeft(LAMBDA ts, c : IF ts # <<>> /\ SameRun(Last(Last(ts)), c)
                            THEN Append(Front(ts), Append(Last(ts), c)) ELSE Append(ts, <<c>>), <<>>, text)
IsSpace(text) == text # <<>> /\ Range(text) \subseteq White
Key(token) == IF IsSpace(token) THEN <<Blank>>
              ELSE [i \in DOMAIN token |-> IF token[i] \in Mark THEN LooksLike(token[i]) ELSE token[i]]
Keys(text) == [i \in DOMAIN Tokens(text) |-> Key(Tokens(text)[i])]
Words(text) == Len(SelectSeq(Tokens(text), LAMBDA t : t[1] \in Letter))

Part(op, text) == [op |-> op, text |-> text]
(* Mutant: nothing is a part as well. *)
PushEmpty(ps, p) ==
    IF ps # <<>> /\ Last(ps).op = p.op THEN Append(Front(ps), Part(p.op, Last(ps).text \o p.text)) ELSE Append(ps, p)
Push(ps, p) ==
    IF p.text = <<>> THEN ps
    ELSE IF ps # <<>> /\ Last(ps).op = p.op THEN Append(Front(ps), Part(p.op, Last(ps).text \o p.text))
    ELSE Append(ps, p)
PushAll(ps, more) == FoldLeft(Push, ps, more)

-----------------------------------------------------------------------------
\* Aligning two sequences: how much the ends of both have in common, and a
\* walk along that, additions first.  Both levels of the diff do this.

Common(n, m, Same(_, _)) ==
    LET L[i \in 1..n + 1, j \in 1..m + 1] ==
          IF i > n \/ j > m THEN 0
          ELSE IF Same(i, j) THEN L[i + 1, j + 1] + 1
          ELSE Max({L[i + 1, j], L[i, j + 1]})
    IN L
Equal(i, j) == [op |-> "equal", i |-> i, j |-> j]
AddsNext(L, n, m, i, j) == j <= m /\ (i > n \/ L[i, j + 1] >= L[i + 1, j])
Walk(n, m, Same(_, _)) ==
    LET L == Common(n, m, Same)
        W[i \in 1..n + 1, j \in 1..m + 1] ==
          IF i > n /\ j > m THEN <<>>
          ELSE IF i <= n /\ j <= m /\ Same(i, j) THEN <<Equal(i, j)>> \o W[i + 1, j + 1]
          ELSE IF AddsNext(L, n, m, i, j) THEN <<[op |-> "insert", i |-> i, j |-> j]>> \o W[i, j + 1]
          ELSE <<[op |-> "delete", i |-> i, j |-> j]>> \o W[i + 1, j]
    IN W[1, 1]

-----------------------------------------------------------------------------
\* Words.

(* What both begin with and, of the rest, what both end with.               *)
Prefix(a, b) == Max({k \in 0..Min({Len(a), Len(b)}) : \A i \in 1..k : Key(a[i]) = Key(b[i])})
(* Mutant: the end may overlap the beginning. *)
SuffixOfAll(a, b) == Max({k \in 0..Min({Len(a), Len(b)}) : \A i \in 0..k - 1 : Key(a[Len(a) - i]) = Key(b[Len(b) - i])})
Suffix(a, b) ==
    Max({k \in 0..Min({Len(a), Len(b)}) - Prefix(a, b) : \A i \in 0..k - 1 : Key(a[Len(a) - i]) = Key(b[Len(b) - i])})

(* The middle, token by token; one that is too large is replaced whole.      *)
Middle(a, b) ==
    IF Len(a) * Len(b) > MaxCells THEN <<Part("delete", Join(a)), Part("insert", Join(b))>>
    ELSE LET steps == Walk(Len(a), Len(b), LAMBDA i, j : Key(a[i]) = Key(b[j]))
         IN [k \in DOMAIN steps |-> Part(steps[k].op, IF steps[k].op = "delete" THEN a[steps[k].i] ELSE b[steps[k].j])]
ByTokens(a, b) ==
    LET s == Prefix(a, b)
        t == Suffix(a, b)
    IN <<Part("equal", Join(SubSeq(b, 1, s)))>>
       \o Middle(SubSeq(a, s + 1, Len(a) - t), SubSeq(b, s + 1, Len(b) - t))
       \o <<Part("equal", Join(SubSeq(b, Len(b) - t + 1, Len(b))))>>

(* tidy: a space between two changes goes into both, and of each region what *)
(* was removed comes before what was added.                                  *)
Between(ps, k) == /\ ps[k].op = "equal" /\ IsSpace(ps[k].text)
                  /\ k > 1 /\ k < Len(ps) /\ ps[k - 1].op # "equal" /\ ps[k + 1].op # "equal"
(* Mutant: the space is folded into what was removed only. *)
FoldedAway(ps, k) == IF Between(ps, k) THEN <<Part("delete", ps[k].text)>> ELSE <<ps[k]>>
Folded(ps, k) == IF Between(ps, k) THEN <<Part("delete", ps[k].text), Part("insert", ps[k].text)>> ELSE <<ps[k]>>
Flush(region) == PushAll(region.out, <<Part("delete", region.removed), Part("insert", region.added)>>)
(* Mutant: changes are shown in the order they were found in. *)
TidyAsFound(ps) == PushAll(<<>>, Join([k \in DOMAIN ps |-> Folded(ps, k)]))
Tidy(ps) ==
    LET Add(region, p) ==
          CASE p.op = "delete" -> [region EXCEPT !.removed = @ \o p.text]
            [] p.op = "insert" -> [region EXCEPT !.added = @ \o p.text]
            [] OTHER -> [out |-> Push(Flush(region), p), removed |-> <<>>, added |-> <<>>]
    IN Flush(FoldLeft(Add, [out |-> <<>>, removed |-> <<>>, added |-> <<>>],
                      Join([k \in DOMAIN ps |-> Folded(ps, k)])))
DiffWords(x, y) == Tidy(PushAll(<<>>, ByTokens(Tokens(x), Tokens(y))))

-----------------------------------------------------------------------------
\* Paragraphs end with a line end; those without words never match.

Paragraphs(text) ==
    IF text = <<>> THEN <<text>>
    ELSE FoldLeft(LAMBDA ps, c : IF ps # <<>> /\ Last(Last(ps)) # LineEnd
                                 THEN Append(Front(ps), Append(Last(ps), c)) ELSE Append(ps, <<c>>), <<>>, text)
Normalised(paragraph) ==
    LET ts == Tokens(paragraph)
        inner == SelectSeq([i \in DOMAIN ts |-> [text |-> ts[i], at |-> i]],
                           LAMBDA t : ~IsSpace(t.text) \/ t.at \notin {1, Len(ts)})
    IN [i \in DOMAIN inner |-> IF IsSpace(inner[i].text) THEN <<Blank>> ELSE inner[i].text]

(* The steps of the walk, the changed ones gathered until the next match.    *)
DiffText(x, y) ==
    LET a == Paragraphs(x)
        b == Paragraphs(y)
        Same(i, j) == Normalised(a[i]) # <<>> /\ Normalised(a[i]) = Normalised(b[j])
        FlushGap(g) == IF g.a = <<>> /\ g.b = <<>> THEN g.out ELSE PushAll(g.out, DiffWords(g.a, g.b))
        Add(g, step) ==
          CASE step.op = "delete" -> [g EXCEPT !.a = @ \o a[step.i]]
            [] step.op = "insert" -> [g EXCEPT !.b = @ \o b[step.j]]
            [] OTHER -> [out |-> Push(FlushGap(g), Part("equal", b[step.j])), a |-> <<>>, b |-> <<>>]
    IN IF Len(a) = 1 \/ Len(b) = 1 THEN DiffWords(x, y)
       ELSE FlushGap(FoldLeft(Add, [out |-> <<>>, a |-> <<>>, b |-> <<>>], Walk(Len(a), Len(b), Same)))

-----------------------------------------------------------------------------
\* What is read off a diff.

Without(op, ps) == Join([k \in DOMAIN SelectSeq(ps, LAMBDA p : p.op # op) |-> SelectSeq(ps, LAMBDA p : p.op # op)[k].text])
Applied(ps) == Without("delete", ps)
Reverted(ps) == Without("insert", ps)
WordsOf(op, ps) == FoldLeft(LAMBDA n, p : IF p.op = op THEN n + Words(p.text) ELSE n, 0, ps)
(* Mutant: a region of two parts counts twice. *)
ChangesOfParts(ps) == Cardinality({k \in DOMAIN ps : ps[k].op # "equal"})
Changes(ps) == Cardinality({k \in DOMAIN ps : ps[k].op # "equal" /\ (k = 1 \/ ps[k - 1].op = "equal")})

NotCompared == <<Part("none", <<>>)>>
Init == before \in Texts(MaxBefore) /\ after \in Texts(MaxAfter) /\ parts = NotCompared
Compare == parts = NotCompared /\ parts' = DiffText(before, after) /\ UNCHANGED <<before, after>>
Next == Compare
Spec == Init /\ [][Next]_vars

-----------------------------------------------------------------------------
Shown == parts # NotCompared
TypeOK == Shown => \A k \in DOMAIN parts : parts[k].op \in {"equal", "insert", "delete"} /\ parts[k].text # <<>>

(* Nothing is lost: the rewrite can be read off the diff as it is, and the   *)
(* original but for its white space and how its look-alikes are written.     *)
Marks(text) == Join(SelectSeq(Keys(text), LAMBDA t : t # <<Blank>>))
Faithful == Shown => Applied(parts) = after /\ Marks(Reverted(parts)) = Marks(before)

(* A region reads as one replacement: parts alternate, what was removed      *)
(* comes before what was added, and no lone space splits it.                 *)
OneReplacement == Shown =>
    \A k \in 1..Len(parts) - 1 :
       /\ parts[k].op # parts[k + 1].op
       /\ parts[k].op = "insert" => parts[k + 1].op = "equal"

(* The counts shown above it add up: words added less words removed is what  *)
(* the rewrite is longer by.  And there are as many changes as stretches.    *)
CountsAddUp == Shown =>
    /\ WordsOf("insert", parts) + Words(before) = WordsOf("delete", parts) + Words(after)
    /\ Changes(parts) <= 1 + Cardinality({k \in DOMAIN parts : parts[k].op = "equal"})

(* The tokens kept are as many as any common subsequence has: trimming both  *)
(* ends first costs nothing, unless the middle is too large to compare.      *)
Kept(a, b) == Len(SelectSeq(Middle(a, b), LAMBDA p : p.op = "equal"))
Picks(n, k) == {s \in [1..k -> 1..n] : \A i \in 1..k - 1 : s[i] < s[i + 1]}
LongestCommon(a, b) ==
    Max({k \in 0..Min({Len(a), Len(b)}) :
           \E s \in Picks(Len(a), k), t \in Picks(Len(b), k) : \A i \in 1..k : Key(a[s[i]]) = Key(b[t[i]])})
KeepsTheMost ==
    LET a == Tokens(before)
        b == Tokens(after)
        s == Prefix(a, b)
        t == Suffix(a, b)
        ma == SubSeq(a, s + 1, Len(a) - t)
        mb == SubSeq(b, s + 1, Len(b) - t)
    IN ~Shown /\ Len(ma) * Len(mb) <= MaxCells => s + t + Kept(ma, mb) = LongestCommon(a, b)
=============================================================================
