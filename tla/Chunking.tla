------------------------------- MODULE Chunking -------------------------------
(***************************************************************************)
(* chunk_document_text: how the text of a document is cut into chunks of a *)
(* bounded number of tokens that overlap a little.                         *)
(*                                                                         *)
(* A text is a sequence of characters; a span <<i, j>> is text[i:j] of the *)
(* source, the characters i + 1 to j of the sequence.  The tokenizer is    *)
(* external (tiktoken): all that matters of it is that it counts, and that *)
(* its count is neither additive nor monotone in the length of a slice,    *)
(* which is what the two binary searches have to live with.                *)
(***************************************************************************)
EXTENDS Integers, Sequences, SequencesExt

CONSTANTS
    MaxLength,   \* bound: characters of a text
    TokenLimits  \* bound: values of CHUNK_MAX_TOKENS

ASSUME ChunkingAssumption == MaxLength \in Nat /\ TokenLimits \subseteq Nat \ {0}

\* A wide character takes several tokens (an emoji).
Characters == {"letter", "newline", "wide"}
Texts == UNION {[1..n -> Characters] : n \in 1..MaxLength}

\* Settings refuses an overlap or a minimum beyond the maximum.
Settings == {p \in [max : TokenLimits, overlap : 0..Max(TokenLimits),
                    min : 1..Max(TokenLimits)] : p.overlap < p.max /\ p.min <= p.max}

-----------------------------------------------------------------------------
(* The tokenizer *)

\* How many characters like the i-th end at it.
InRun(t, i) == i - Max({j \in 0..i - 1 : j = 0 \/ t[j] # t[i]})
\* What a character adds: a run of newlines is one token, and three letters
\* merge into the token of one.
Adds(t, i) ==
    CASE t[i] = "wide"    -> 2
      [] t[i] = "newline" -> IF InRun(t, i) = 1 THEN 1 ELSE 0
      [] t[i] = "letter"  -> IF InRun(t, i) % 3 = 0 THEN -1 ELSE 1
Count(t) == MapThenSumSet(LAMBDA i : Adds(t, i), DOMAIN t)

Slice(t, i, j) == SubSeq(t, i + 1, j)
Tokens(t, i, j) == Count(Slice(t, i, j))

-----------------------------------------------------------------------------
(* The cuts *)

\* Binary search for the longest slice from start of at most max tokens; a
\* character of more tokens is a slice of its own.
MaxEnd(t, start, max) ==
    LET search[low \in Nat, high \in Nat, best \in Nat] ==
            LET mid == (low + high) \div 2
            IN  IF low > high THEN best
                ELSE IF Tokens(t, start, mid) <= max THEN search[mid + 1, high, mid]
                ELSE search[low, mid - 1, best]
    IN  IF Tokens(t, start, Len(t)) <= max THEN Len(t)
        ELSE search[start + 1, Len(t), start + 1]

\* Where the last newline, or pair of them, of the window begins: the slice
\* rfind searches ends behind max_end.
Delimiters(t, start, maxEnd, width) ==
    {p \in start + 1 .. maxEnd + 1 - width :
        p + width <= Len(t) /\ \A i \in p + 1 .. p + width : t[i] = "newline"}
PreferredCut(t, start, maxEnd) ==
    LET Paragraphs == Delimiters(t, start, maxEnd, 2)
        Lines == Delimiters(t, start, maxEnd, 1)
    IN  IF Paragraphs # {} THEN Max(Paragraphs) + 2
        ELSE IF Lines # {} THEN Max(Lines) + 1
        ELSE maxEnd

\* Binary search for the longest tail of the chunk of at most overlap tokens.
OverlapStart(t, start, end, overlap) ==
    LET search[low \in Int, high \in Int, best \in Nat] ==
            LET mid == (low + high) \div 2
            IN  IF low > high THEN best
                ELSE IF Tokens(t, mid, end) <= overlap THEN search[low, mid - 1, mid]
                ELSE search[mid + 1, high, best]
    IN  IF overlap = 0 \/ Tokens(t, start, end) <= overlap THEN end
        ELSE search[start, end, end]

ChunkEnd(t, start, p) ==
    LET maxEnd == MaxEnd(t, start, p.max)
    IN  IF maxEnd = Len(t) THEN Len(t) ELSE PreferredCut(t, start, maxEnd)
NextStart(t, start, end, p) ==
    LET next == OverlapStart(t, start, end, p.overlap)
    IN  IF next <= start THEN end ELSE next

ChunkSpans(t, p) ==
    LET spans[start \in Nat] ==
            LET end == ChunkEnd(t, start, p)
            IN  IF end >= Len(t) THEN <<<<start, end>>>>
                ELSE <<<<start, end>>>> \o spans[NextStart(t, start, end, p)]
    IN  spans[0]

\* Mutant: joins the two without counting what they hold together.
MergeSmallTail_Uncounted(t, spans, p) ==
    LET n == Len(spans)
        end == spans[n][2]
    IN  IF n < 2 \/ Tokens(t, spans[n][1], end) >= p.min THEN spans
        ELSE SubSeq(spans, 1, n - 2) \o <<<<spans[n - 1][1], end>>>>
\* A last chunk of less than min tokens joins the one before it if both fit.
MergeSmallTail(t, spans, p) ==
    LET n == Len(spans)
        end == spans[n][2]
    IN  IF \/ n < 2
           \/ Tokens(t, spans[n][1], end) >= p.min
           \/ Tokens(t, spans[n - 1][1], end) > p.max
        THEN spans
        ELSE SubSeq(spans, 1, n - 2) \o <<<<spans[n - 1][1], end>>>>

Chunked(t, p) == MergeSmallTail(t, ChunkSpans(t, p), p)

-----------------------------------------------------------------------------
(* What the chunks of a text must be *)

\* No character is lost: the chunks run through the text in order, each one
\* starting where the one before it ends or inside it, and then no more than
\* overlap tokens before its end.
Covers(t, p, spans) ==
    /\ spans # <<>> /\ spans[1][1] = 0 /\ spans[Len(spans)][2] = Len(t)
    /\ \A i \in 2..Len(spans) :
         LET last == spans[i - 1]
             this == spans[i]
         IN  /\ last[1] < this[1] /\ this[1] <= last[2] /\ last[2] <= this[2]
             /\ Tokens(t, this[1], last[2]) <= p.overlap

\* A chunk holds at most max tokens, not counting the newline it ends with,
\* unless it is one character.
Fits(t, p, span) ==
    \E end \in {span[2]} \cup (IF t[span[2]] = "newline" THEN {span[2] - 1} ELSE {}) :
       end = span[1] + 1 \/ Tokens(t, span[1], end) <= p.max

\* What chunk_document_text promises of a text, under any setting and whatever
\* the tokenizer makes of the slices the searches try.
CutsSoundly(t, p) ==
    LET spans == Chunked(t, p)
    IN  Covers(t, p, spans) /\ \A i \in DOMAIN spans : Fits(t, p, spans[i])
=============================================================================
