--------------------------- MODULE ChunkStructure ---------------------------
(***************************************************************************)
(* Chunking by the structure of a document: the heading tree of the book   *)
(* preset (hierarchical_merge) and the question-answer pairs of the qa     *)
(* preset, which reads a document line by line.                            *)
(*                                                                         *)
(* A document is a sequence of lines, a line is what the regular           *)
(* expressions of the code tell apart, and it is named by its position.    *)
(* As in Chunking the document is written one line at a time.  The book    *)
(* preset drops sections without text and page numbers before it numbers   *)
(* the others: a document of levels holds those that are left.             *)
(***************************************************************************)
EXTENDS Integers, Sequences, FiniteSetsExt, SequencesExt, SequenceParts

CONSTANTS
    DocLength,   \* lines of a document
    LevelCount,  \* levels of the book preset: the patterns of a group (no group
                 \* is empty), and two
    Depth,       \* hierarchical_merge's depth
    ChunkChars,  \* _QA_CHUNK_MAX_CHARS
    FrameChars   \* the prefixes, with their blanks, and the tab of a chunk

ASSUME StructureAssumption ==
    /\ DocLength \in Nat
    /\ LevelCount \in Nat /\ LevelCount >= 3 /\ Depth \in Nat
    /\ ChunkChars \in Nat \ {0} /\ FrameChars \in Nat \ {0, 1}

VARIABLES
    kind, \* what the document is made of: "levels", "lines" or "answer"
    doc   \* the document

docVars == <<kind, doc>>

\* Lines of the qa preset: a question and an answer prefix, a question prefix
\* with nothing behind it, headings of two levels, one of the first with nothing
\* behind it, a fence, text, a blank line
Headings == {"H1", "H2", "emptyH"}
QaLines == {"Q", "A", "emptyQ", "fence", "text", "blank"} \cup Headings

\* Section levels, counted as reversed(levels) does: 0 is plain text, 1 a title
\* layout, LevelCount - 1 the first pattern of the group.  In an answer, a line
\* is its length, and 0 a paragraph break.
Alphabet(k) ==
    CASE k = "levels" -> 0..(LevelCount - 1)
      [] k = "lines"  -> QaLines
      [] k = "answer" -> 0..(ChunkChars + 1)

DocInit == kind \in {"levels", "lines", "answer"} /\ doc = <<>>

WriteLine ==
    /\ Len(doc) < (IF kind = "answer" THEN DocLength - 1 ELSE DocLength)
    /\ \E line \in Alphabet(kind) : doc' = Append(doc, line)
    /\ UNCHANGED kind

DocSpec == DocInit /\ [][WriteLine]_docVars

DocTypeOK == kind \in {"levels", "lines", "answer"} /\ doc \in Seq(Alphabet(kind))

Where(d, Test(_)) == Ordered({i \in DOMAIN d : Test(i)})

-----------------------------------------------------------------------------
(* book: hierarchical_merge                                                 *)

LevelLines(d, i) == Where(d, LAMBDA k : d[k] = i)

\* Mutant: the search falls back on the first entry.
NearestOrFirst(arr, target) ==
    IF arr = <<>> THEN 0 ELSE Max({1} \cup {k \in DOMAIN arr : arr[k] <= target})

\* Mutant: the search stops at the first entry before target.
FirstBefore(arr, target) == IF arr = <<>> \/ target < arr[1] THEN 0 ELSE 1

\* binary_search: the position of the last entry before target, 0 for none
\* (the code counts from 0 and returns -1)
BinarySearch(arr, target) ==
    LET n == Len(arr)
        Search[p \in (1..n) \X (2..(n + 1))] ==
            LET s == p[1]
                e == p[2]
                mid == (s + e) \div 2
            IN  IF e - s <= 1 THEN s
                ELSE IF target > arr[mid] THEN Search[<<mid, e>>]
                ELSE IF target < arr[mid] THEN Search[<<s, mid>>]
                ELSE mid
    IN  IF n = 0 \/ target < arr[1] THEN 0
        ELSE IF target > arr[n] THEN n
        ELSE Search[<<1, n + 1>>]

\* The nearest heading of level ii before j; one that comes after the last one
\* taken replaces it.
Climb(d, j, chain, ii) ==
    LET arr == LevelLines(d, ii)
        jj == BinarySearch(arr, j)
    IN  IF jj = 0 THEN chain
        ELSE IF arr[jj] > Last(chain) THEN Append(Front(chain), arr[jj])
        ELSE Append(chain, arr[jj])

\* A section and the headings above it, from the next level up
HeadingChain(d, i, j) ==
    IF i + 1 = LevelCount - 1 THEN <<j>>
    ELSE FoldLeft(LAMBDA chain, ii : Climb(d, j, chain, ii), <<j>>,
                  [k \in 1..(LevelCount - 1 - i) |-> i + k])

Visit(d, acc, p) ==
    IF p.line \in acc.readed THEN acc
    ELSE LET chain == HeadingChain(d, p.level, p.line)
         IN  [readed |-> acc.readed \cup Range(chain),
              cks |-> Append(acc.cks, Reverse(chain))]

\* The sections of the levels that are visited, level by level
VisitOrder(d) ==
    FlattenSeq([i \in 1..Min({Depth, LevelCount}) |->
        [k \in DOMAIN LevelLines(d, i - 1) |->
            [level |-> i - 1, line |-> LevelLines(d, i - 1)[k]]]])

\* The chains, each turned round into document order
Chains(d) ==
    FoldLeft(LAMBDA acc, p : Visit(d, acc, p), [readed |-> {}, cks |-> <<>>], VisitOrder(d)).cks

-----------------------------------------------------------------------------
(* qa: pairs by prefix and by heading                                       *)

\* A pair is the line of its question (or the path of its headings) and the
\* lines of its answer.
HasText(d, a) == \E i \in Range(a) : d[i] # "blank"

Toggle(fence, line) == IF line = "fence" THEN ~ fence ELSE fence

\* Mutant: a heading does not end the answer before it.
KeepOnHeading(acc) == acc

\* flush_pair
Flush(acc) ==
    IF acc.q = 0 THEN acc
    ELSE [acc EXCEPT !.pairs = Append(@, [q |-> acc.q, a |-> acc.a]), !.q = 0, !.a = <<>>]

AddLine(acc, i) == IF acc.q = 0 THEN acc ELSE [acc EXCEPT !.a = Append(@, i)]

OnHeading(acc) == Flush(acc)

\* Fenced lines belong to the answer, whatever they look like; an empty question
\* ends the pair before it and starts none.
ReadByPrefix(d, acc, i) ==
    LET in == [acc EXCEPT !.fence = Toggle(acc.fence, d[i])]
    IN  IF d[i] = "fence" \/ in.fence THEN AddLine(in, i)
        ELSE IF d[i] = "Q" THEN [Flush(in) EXCEPT !.q = i]
        ELSE IF d[i] = "emptyQ" THEN Flush(in)
        ELSE IF d[i] \in Headings THEN OnHeading(in)
        ELSE AddLine(in, i)

\* _extract_pairs_by_prefix
ByPrefix(d) ==
    LET end == FoldLeft(LAMBDA acc, i : ReadByPrefix(d, acc, i),
                        [q |-> 0, a |-> <<>>, pairs |-> <<>>, fence |-> FALSE],
                        [i \in DOMAIN d |-> i])
        all == Flush(end).pairs
    IN  Kept(all, {k \in DOMAIN all : HasText(d, all[k].a)})

Level(line) == IF line = "H2" THEN 2 ELSE 1

\* Mutant: a heading of the same level stays on the stack.
PopDeeper(d, stack, i) == Kept(stack, {k \in DOMAIN stack : Level(d[stack[k]]) <= Level(d[i])})

\* while question_level <= level_stack[-1]: pop
PopStack(d, stack, i) == Kept(stack, {k \in DOMAIN stack : Level(d[stack[k]]) < Level(d[i])})

\* The texts of the headings, joined with line breaks, are not empty.
Asks(d, stack) == stack # <<>> /\ (Len(stack) = 1 => d[stack[1]] # "emptyH")

\* What stands under a heading is the answer to the path of headings that leads
\* to it.
Emit(d, acc) ==
    IF ~ HasText(d, acc.a) THEN acc
    ELSE [acc EXCEPT !.a = <<>>,
                     !.pairs = IF Asks(d, acc.stack) THEN Append(@, [q |-> acc.stack, a |-> acc.a])
                                                     ELSE @]

ReadByHeading(d, acc, i) ==
    LET in == [acc EXCEPT !.fence = Toggle(acc.fence, d[i])]
    IN  IF in.fence \/ d[i] \notin Headings THEN [in EXCEPT !.a = Append(@, i)]
        ELSE [Emit(d, in) EXCEPT !.stack = Append(PopStack(d, @, i), i)]

\* _extract_pairs_from_markdown_headings
ByHeadings(d) ==
    Emit(d, FoldLeft(LAMBDA acc, i : ReadByHeading(d, acc, i),
                     [stack |-> <<>>, a |-> <<>>, pairs |-> <<>>, fence |-> FALSE],
                     [i \in DOMAIN d |-> i])).pairs

-----------------------------------------------------------------------------
(* qa: an answer that is too long, by the lengths of its lines              *)

\* _hard_split_text
HardSplitText(n, most) ==
    [k \in 1..((n + most - 1) \div most) |-> IF k * most <= n THEN most ELSE n % most]

\* Pieces are joined with a separator while they fit; one that is too long
\* alone is replaced by its parts.
PutPiece(sizes, most, sep, parts, acc, k) ==
    IF sizes[k] > most
    THEN [out |-> (IF acc.cur = 0 THEN acc.out ELSE Append(acc.out, acc.cur)) \o parts[k],
          cur |-> 0]
    ELSE IF acc.cur # 0 /\ acc.cur + sep + sizes[k] > most
    THEN [out |-> Append(acc.out, acc.cur), cur |-> sizes[k]]
    ELSE [acc EXCEPT !.cur = IF @ = 0 THEN sizes[k] ELSE @ + sep + sizes[k]]

Pack(sizes, most, sep, parts) ==
    LET end == FoldLeft(LAMBDA acc, k : PutPiece(sizes, most, sep, parts, acc, k),
                        [out |-> <<>>, cur |-> 0], [k \in DOMAIN sizes |-> k])
    IN  IF end.cur = 0 THEN end.out ELSE Append(end.out, end.cur)

SplitByLines(lines, most) ==
    Pack(lines, most, 1, [k \in DOMAIN lines |-> HardSplitText(lines[k], most)])

\* The paragraphs of an answer: its lines between the breaks
Paragraphs(answer) ==
    LET cuts == <<0>> \o Where(answer, LAMBDA i : answer[i] = 0) \o <<Len(answer) + 1>>
        pieces == [k \in 1..(Len(cuts) - 1) |-> SubSeq(answer, cuts[k] + 1, cuts[k + 1] - 1)]
    IN  Kept(pieces, {k \in DOMAIN pieces : pieces[k] # <<>>})

\* The length of lines joined by "\n"
Joined(lines) == FoldLeft(LAMBDA n, k : n + k, Len(lines) - 1, lines)

SplitByParagraphs(paras, most) ==
    Pack([k \in DOMAIN paras |-> Joined(paras[k])], most, 2,
         [k \in DOMAIN paras |-> SplitByLines(paras[k], most)])

\* Mutant: the room for an answer forgets the tab before it.
RoomWithoutTab(question) == ChunkChars - FrameChars - question + 1

AnswerRoom(question) == ChunkChars - FrameChars - question

\* _split_long_qa_chunks: the lengths of the chunks of one pair.  Every part of
\* a long answer repeats the question; a question without room for an answer
\* gives up the frame and is cut anywhere, as is a chunk that its prefixes were
\* removed from until nothing was left of the question or of the answer (the
\* blank behind the last prefix is then stripped).
SplitLongChunk(question, answer) ==
    LET paras == Paragraphs(answer)
        solid == {i \in DOMAIN answer : answer[i] # 0}
        whole == FrameChars + question
                    + IF paras = <<>> THEN -1
                      ELSE Joined(SubSeq(answer, Min(solid), Max(solid)))
    IN  IF whole <= ChunkChars THEN <<whole>>
        ELSE IF question = 0 \/ paras = <<>> \/ FrameChars + question >= ChunkChars THEN HardSplitText(whole, ChunkChars)
        ELSE LET parts == SplitByParagraphs(paras, AnswerRoom(question))
             IN  [k \in DOMAIN parts |-> FrameChars + question + parts[k]]

-----------------------------------------------------------------------------
(* Properties                                                               *)

\* hierarchical_merge drops no section of the levels it visits and repeats no
\* plain text: popping a heading off a chain, and marking whole chains as
\* read, leave each of them in a chunk of its own or of another.
SectionsKept ==
    kind = "levels" =>
        LET cks == Chains(doc)
            In(j) == {c \in DOMAIN cks : j \in Range(cks[c])}
        IN  \A j \in DOMAIN doc :
                /\ doc[j] < Depth => In(j) # {}
                /\ doc[j] = 0 => \A c, e \in In(j) : c = e

\* A plain section is the last of its chunk and stands under the nearest
\* first-level heading before it, which the hand-written binary search and the
\* pops of the chain must agree on.
TopHeadingIsNearest ==
    kind = "levels" =>
        \A c \in DOMAIN Chains(doc) :
            LET ck == Chains(doc)[c]
                tops == {k \in 1..Last(ck) : doc[k] = LevelCount - 1}
            IN  (doc[Last(ck)] = 0 /\ tops # {}) => ck[1] = Max(tops)

\* A line outside the fences, of which an odd number is before one inside
Open(d, i) == d[i] # "fence" /\ Cardinality({k \in 1..i : d[k] = "fence"}) % 2 = 0

Stops(d) == {i \in DOMAIN d : Open(d, i) /\ d[i] \in {"Q", "emptyQ"} \cup Headings}
AnswerTo(d, q) ==
    LET stops == Stops(d) IN {i \in (q + 1)..Len(d) : \A s \in stops : s <= q \/ s > i}

\* The headings before i that no later one of the same or a higher level closed
Heads(d) == {i \in DOMAIN d : Open(d, i) /\ d[i] \in Headings}
Path(d, i) ==
    LET heads == Heads(d)
    IN  {h \in heads : h < i /\ \A g \in heads : h < g /\ g < i => Level(d[g]) > Level(d[h])}

\* The line-by-line reader of Q: and A: prefixes gives each question the lines
\* up to the next question or heading, fences counted as answer text.
PrefixPairsAreSections ==
    kind = "lines" =>
        LET Expected == {q \in Stops(doc) : doc[q] = "Q"
                                            /\ \E i \in AnswerTo(doc, q) : doc[i] # "blank"}
            got == ByPrefix(doc)
        IN  /\ {got[k].q : k \in DOMAIN got} = Expected
            /\ \A k \in DOMAIN got : Range(got[k].a) = AnswerTo(doc, got[k].q)

\* A pair made from headings asks the path of the headings above its answer:
\* the headings before it that no later one of the same or a higher level has
\* closed.
HeadingPairsArePaths ==
    kind = "lines" =>
        \A k \in DOMAIN ByHeadings(doc) :
            LET pair == ByHeadings(doc)[k] IN Range(pair.q) = Path(doc, Last(pair.a))

\* No qa chunk is longer than the limit, and none is empty, wherever the
\* lengths of the question and of the lines and paragraphs of the answer fall.
QaChunksWithinLimit ==
    kind = "answer" =>
        \A question \in 0..ChunkChars :
            \A k \in DOMAIN SplitLongChunk(question, doc) :
                SplitLongChunk(question, doc)[k] \in 1..ChunkChars
=============================================================================
