------------------------------ MODULE Chunking ------------------------------
(***************************************************************************)
(* Cutting a document into chunks by token count: the general preset       *)
(* (sections, naive_merge, then a hard limit on every chunk) and the loop  *)
(* by which the separator preset slices a section that is too long.        *)
(*                                                                         *)
(* A text is a sequence of characters, and a character is one of: "w" (a   *)
(* character of a word), "." (punctuation), "|" (punctuation that is the   *)
(* configured delimiter), " " and "/" (a blank and a line break).  Which   *)
(* letter a word has makes no difference to any of this code.  The text is *)
(* written one character at a time, so that every text up to a length is   *)
(* reached; the separator's loop then runs one iteration per step.         *)
(***************************************************************************)
EXTENDS Integers, Sequences, FiniteSetsExt, SequencesExt, SequenceParts

\* A set of records: chars and length (what is written), delimiter ("line",
\* "char" or "custom"), chunk_token_num (num) and overlapped_percent (overlap)
CONSTANT ChunkConfigs

ASSUME ChunkingAssumption ==
    \A c \in ChunkConfigs : c.num \in Int /\ c.overlap \in Int /\ c.length \in Nat

VARIABLES
    config,     \* the parser_config in use
    text,       \* the document
    sliceStart, \* start of the next slice, 0 while the text is being written
    slices      \* the slices so far

chunkVars == <<config, text, sliceStart, slices>>

ChunkTypeOK ==
    /\ config \in ChunkConfigs
    /\ text \in Seq(config.chars) /\ Len(text) <= config.length
    /\ sliceStart \in 0..(Len(text) + 1)
    /\ slices \in Seq(Seq(config.chars))

-----------------------------------------------------------------------------
(* Text                                                                     *)

Blank == {" ", "/"}

Strip(s) ==
    LET solid == {i \in DOMAIN s : s[i] \notin Blank}
    IN  IF solid = {} THEN <<>> ELSE SubSeq(s, Min(solid), Max(solid))

\* The positions of s that satisfy a predicate, in order
Positions(s, Test(_)) == Ordered({i \in DOMAIN s : Test(i)})

\* str.split on one character
SplitOn(s, ch) ==
    LET cuts == <<0>> \o Positions(s, LAMBDA i : s[i] = ch) \o <<Len(s) + 1>>
    IN  [k \in 1..(Len(cuts) - 1) |-> SubSeq(s, cuts[k] + 1, cuts[k + 1] - 1)]

NonEmpty(ss) == Kept(ss, {k \in DOMAIN ss : ss[k] # <<>>})
Stripped(ss) == NonEmpty([k \in DOMAIN ss |-> Strip(ss[k])])

\* re.finditer(r"[A-Za-z0-9_]+"): where the words start, and how many there are
StartsWord(s, i) == s[i] = "w" /\ (i = 1 \/ s[i - 1] # "w")
WordStarts(s) == Positions(s, LAMBDA i : StartsWord(s, i))
WordCount(s) == Cardinality({i \in DOMAIN s : StartsWord(s, i)})

CountTokens(s) ==
    IF Strip(s) = <<>> THEN 0 ELSE Max({1, WordCount(s)})

-----------------------------------------------------------------------------
(* The general preset                                                       *)

\* Mutant: a span may hold one word too many.
LooseCuts(s, most) ==
    LET words == WordStarts(s)
    IN  <<1>> \o [k \in 1..((Len(words) - 1) \div (most + 1)) |-> words[k * (most + 1) + 1]]

\* Where the spans of hard_split_by_token_limit start: at every most-th word
SpanStarts(s, most) ==
    LET words == WordStarts(s)
    IN  <<1>> \o [k \in 1..((Len(words) - 1) \div most) |-> words[k * most + 1]]

\* A text within the limit is kept whole; a short last span is joined to the
\* one before it when the two are within the limit.
HardSplit(s, most, limit) ==
    LET starts == SpanStarts(s, most)
        n == Len(starts)
        joined == n >= 2 /\ CountTokens(SubSeq(s, starts[n - 1], Len(s))) <= limit
        m == IF joined THEN n - 1 ELSE n
        Span(k) == SubSeq(s, starts[k], IF k = m THEN Len(s) ELSE starts[k + 1] - 1)
    IN  IF WordCount(s) <= limit THEN Stripped(<<s>>)
        ELSE Stripped([k \in 1..m |-> Span(k)])

\* _iter_sections; a text of nothing but delimiters is one section.
Sections(s, c) ==
    LET parts == Stripped(SplitOn(s, IF c.delimiter = "char" THEN "|" ELSE "/"))
    IN  IF parts = <<>> THEN Stripped(<<s>>) ELSE parts

Clamp(percent) == Max({0, Min({percent, 99})})

\* Mutant: the text carried into the next chunk replaces the section.
CarryOnly(prev, sec, overlap) == SubSeq(prev, (Len(prev) * (100 - overlap)) \div 100 + 1, Len(prev))

\* A new chunk starts with the tail of the one before it.
WithOverlap(prev, sec, overlap) ==
    SubSeq(prev, (Len(prev) * (100 - overlap)) \div 100 + 1, Len(prev)) \o sec

\* add_chunk: the count of a chunk leaves out the overlap it starts with.
AddChunk(acc, sec, num, overlap) ==
    LET n == Len(acc)
        line == <<"/">> \o sec
    IN  IF acc[n].body = <<>> \/ acc[n].count * 100 > num * (100 - overlap)
        THEN Append(acc, [body |-> WithOverlap(acc[n].body, line, overlap),
                          count |-> CountTokens(line)])
        ELSE [acc EXCEPT ![n] = [body |-> @.body \o line, count |-> @.count + CountTokens(line)]]

NaiveMerge(secs, c) ==
    CASE c.delimiter = "custom" ->
            LET lines == FlattenSeq([k \in DOMAIN secs |->
                            LET parts == SplitOn(secs[k], "|")
                            IN  [j \in DOMAIN parts |-> <<"/">> \o parts[j]]])
            IN  Kept(lines, {k \in DOMAIN lines : Strip(lines[k]) # <<>>})
      [] c.delimiter # "custom" /\ c.num <= 0 ->
            NonEmpty(<<FlattenSeq([k \in DOMAIN secs |-> <<"/">> \o secs[k]])>>)
      [] OTHER ->
            LET merged == FoldLeft(LAMBDA acc, sec : AddChunk(acc, sec, c.num, Clamp(c.overlap)),
                                  <<[body |-> <<>>, count |-> 0]>>, secs)
            IN  NonEmpty([k \in DOMAIN merged |-> merged[k].body])

\* max(n, int(n * GENERAL_HARD_LIMIT_RATIO))
HardLimit(num) == (3 * num) \div 2

\* _ensure_chunk_token_limit
EnsureLimit(chunks, num) ==
    IF num <= 0 THEN Stripped(chunks)
    ELSE FlattenSeq([k \in DOMAIN Stripped(chunks) |->
            LET chunk == Stripped(chunks)[k]
            IN  IF CountTokens(chunk) <= num THEN <<chunk>>
                ELSE HardSplit(chunk, num, HardLimit(num))])

GeneralChunks(s, c) == EnsureLimit(NaiveMerge(Sections(s, c), c), c.num)

-----------------------------------------------------------------------------
(* The separator preset                                                     *)

\* Mutant: the percentage is not held below 100.
OverlapUnclamped(num, percent) == (num * Max({0, percent})) \div 100

\* _split_section_with_overlap
OverlapTokens(num, percent) == (num * Clamp(percent)) \div 100

\* The inner loop: characters are taken until the slice counts num tokens.
SliceEnd(s, start, num) ==
    LET enough == {e \in start..Len(s) : CountTokens(SubSeq(s, start, e)) >= num}
    IN  IF enough = {} THEN Len(s) ELSE Min(enough)

\* How far the next slice steps back: while what is repeated counts at most
\* the overlap
StepBack(s, start, end, overlap) ==
    LET fits == {b \in start..end : \A a \in b..end : CountTokens(SubSeq(s, a, end)) <= overlap}
    IN  IF overlap <= 0 \/ fits = {} THEN end + 1 ELSE Min(fits)

ChunkInit ==
    /\ config \in ChunkConfigs
    /\ text = <<>> /\ sliceStart = 0 /\ slices = <<>>

WriteChar ==
    /\ sliceStart = 0 /\ Len(text) < config.length
    /\ \E ch \in config.chars : text' = Append(text, ch)
    /\ UNCHANGED <<config, sliceStart, slices>>

\* A section is sliced when it is over the limit.
BeginSlicing ==
    /\ sliceStart = 0
    /\ text # <<>> /\ Strip(text) = text
    /\ config.num > 0 /\ CountTokens(text) > config.num
    /\ sliceStart' = 1
    /\ UNCHANGED <<config, text, slices>>

\* One iteration of the outer loop of _slice_text_by_tokens
SliceNext ==
    /\ sliceStart \in DOMAIN text
    /\ LET end == SliceEnd(text, sliceStart, config.num)
           next == StepBack(text, sliceStart, end, OverlapTokens(config.num, config.overlap))
       IN  /\ slices' = slices \o Stripped(<<SubSeq(text, sliceStart, end)>>)
           /\ sliceStart' = IF end >= Len(text) THEN Len(text) + 1 ELSE next
    /\ UNCHANGED <<config, text>>

ChunkNext == WriteChar \/ BeginSlicing \/ SliceNext

ChunkSpec == ChunkInit /\ [][ChunkNext]_chunkVars

-----------------------------------------------------------------------------
(* Properties                                                               *)

\* What may be dropped: blanks, and the delimiter where a split drops it
Dropped(c) == IF c.delimiter = "line" THEN Blank ELSE Blank \cup {"|"}

Content(s, c) == Kept(s, {i \in DOMAIN s : s[i] \notin Dropped(c)})

\* s is t with characters left out: greedily, t is read until s is used up.
IsSubsequence(s, t) ==
    FoldLeft(LAMBDA k, ch : IF k <= Len(s) /\ s[k] = ch THEN k + 1 ELSE k, 1, t) > Len(s)

\* However sections, overlaps and hard splits fall, no chunk of the general
\* preset counts more than one and a half times chunk_token_num: the overlap a
\* chunk starts with is not in naive_merge's count, and the last two spans of a
\* hard split may be joined.
ChunksWithinLimit ==
    config.num > 0 =>
        \A k \in DOMAIN GeneralChunks(text, config) :
            CountTokens(GeneralChunks(text, config)[k]) <= HardLimit(config.num)

\* Chunking loses no text: without an overlap the chunks are the document, in
\* order and up to blanks; an overlap only repeats some of it.
ChunksKeepText ==
    LET out == Content(FlattenSeq(GeneralChunks(text, config)), config)
    IN  IF config.overlap = 0
        THEN out = Content(text, config)
        ELSE IsSubsequence(Content(text, config), out)

\* Every iteration of _slice_text_by_tokens starts its next slice further on,
\* whatever the overlap, so the loop ends.
SlicingAdvances == [][sliceStart > 0 => sliceStart' > sliceStart]_chunkVars
=============================================================================
