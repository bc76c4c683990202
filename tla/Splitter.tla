------------------------------ MODULE Splitter ------------------------------
(***************************************************************************)
(* The sentence splitter (dialogue/sentence_splitter.cpp), which cuts the  *)
(* stream of the reply's characters into what is spoken at once.  The      *)
(* characters are: a letter, a digit, the terminators . and !, a blank,    *)
(* and the backtick of code fences.                                        *)
(***************************************************************************)
EXTENDS Integers, Sequences, SequencesExt, FiniteSets

CONSTANTS
    Abbreviations,      \* kAbbreviations
    MarkerLength,       \* longest list marker
    MaxSentence,        \* max_sentence_chars
    MaxText             \* bound: characters pushed

ASSUME SplitterAssumption == {MarkerLength, MaxSentence, MaxText} \subseteq Nat

VARIABLES
    sp,         \* buf_, mode_, chars_since_terminator_, pending_term_pos_ (0: none), pending_dot_run_
    text,       \* history: what was pushed
    sentences,  \* history: what was returned
    cuts,       \* history: positions of the text after which it was cut
    flushed     \* flush() was called

splitterVars == <<sp, text, sentences, cuts, flushed>>

Letters == {"a"}
Chars == Letters \cup {"1", ".", "!", " ", "tick"}
FreshSplitter == [buf |-> <<>>, fence |-> FALSE, since |-> 0, pending |-> 0, run |-> 0]

SplitterInit == sp = FreshSplitter /\ text = <<>> /\ sentences = <<>> /\ cuts = {} /\ flushed = FALSE

TrimLeading(s) ==
    LET solid == {i \in DOMAIN s : s[i] # " "}
    IN  IF solid = {} THEN <<>>
        ELSE SubSeq(s, CHOOSE i \in solid : \A j \in solid : i <= j, Len(s))

\* The longest run of characters from C just before the last character of s.
WordBefore(s, C) ==
    LET from == CHOOSE i \in 1 .. Len(s) :
                    /\ \A j \in i .. Len(s) - 1 : s[j] \in C
                    /\ i > 1 => s[i - 1] \notin C
    IN  SubSeq(s, from, Len(s) - 1)

EndsWithDot(b) == Len(b) >= 2 /\ Last(b) = "."
LastWordIsAbbreviation(b) == EndsWithDot(b) /\ WordBefore(b, Letters \cup {".", "1"}) \in Abbreviations
EndsWithListMarker(b) ==
    /\ EndsWithDot(b)
    /\ LET n == Len(WordBefore(b, Letters \cup {"1"}))
       IN  n \in 1 .. MarkerLength /\ (n + 1 = Len(b) \/ b[Len(b) - n - 1] = " ")
EndsWithDecimal(b) == EndsWithDot(b) /\ b[Len(b) - 1] = "1"
EndsWithEllipsis(b) == Len(b) >= 3 /\ \A i \in Len(b) - 2 .. Len(b) : b[i] = "."
EndsWithFence(b) == Len(b) >= 3 /\ \A i \in Len(b) - 2 .. Len(b) : b[i] = "tick"

\* A step of push(): the splitter's next state and the sentence it returns, if any.
Quietly(s) == [s |-> s, out |-> <<>>]
Count(s) == [s EXCEPT !.since = @ + 1]
Forget(s) == [s EXCEPT !.pending = 0, !.run = 0]

FlushBuffer(s) ==
    [s |-> [s EXCEPT !.buf = <<>>, !.since = 0, !.pending = 0, !.run = 0], out |-> TrimLeading(s.buf)]

(* Mutant of ResolvePending: the character just read is cut off with the sentence. *)
ResolvePendingDrops(s) ==
    [s |-> [s EXCEPT !.buf = <<>>, !.pending = 0, !.since = 0],
     out |-> TrimLeading(SubSeq(s.buf, 1, s.pending))]

ResolvePending(s) ==
    LET tail == SubSeq(s.buf, s.pending + 1, Len(s.buf))
    IN  [s |-> [s EXCEPT !.buf = tail, !.pending = 0, !.since = Len(tail)],
         out |-> TrimLeading(SubSeq(s.buf, 1, s.pending))]

Terminated(s, c) ==
    IF LastWordIsAbbreviation(s.buf) \/ EndsWithListMarker(s.buf) THEN Forget(s)
    ELSE IF EndsWithDecimal(s.buf) THEN [s EXCEPT !.pending = Len(s.buf), !.run = 1]
    ELSE IF EndsWithEllipsis(s.buf) THEN Forget(s)
    ELSE [s EXCEPT !.pending = Len(s.buf), !.run = IF c = "." THEN 1 ELSE 0]

\* The rest of the loop, once no terminator is pending.
Plainly(s, c) ==
    IF c \in {".", "!"} THEN Quietly(Terminated(s, c))
    ELSE IF s.since + 1 >= MaxSentence /\ c = " " THEN FlushBuffer(Count(s))
    ELSE Quietly(Count(s))

\* The decision on a pending terminator that the next character makes.
Pending(s, c) ==
    IF c = "." /\ s.buf[s.pending] = "." THEN Quietly([s EXCEPT !.run = @ + 1])
    ELSE IF c = "1" \/ s.run >= 2 THEN Quietly(Count(Forget(s)))
    ELSE LET r == ResolvePending(s)
             p == Plainly(r.s, c)
         IN  [s |-> p.s, out |-> r.out, then |-> p.out]

Pushed(c) ==
    LET b == Append(sp.buf, c)
        s == [sp EXCEPT !.buf = b, !.fence = IF EndsWithFence(b) THEN ~@ ELSE @]
    IN  IF s.fence THEN Quietly(Count(s))
        ELSE IF s.pending # 0 THEN Pending(s, c) ELSE Plainly(s, c)

NonEmpty(s) == IF s = <<>> THEN <<>> ELSE <<s>>

PushChar(c) ==
    LET p == Pushed(c)
        more == IF "then" \in DOMAIN p THEN NonEmpty(p.then) ELSE <<>>
        end == Len(text) + 1 - Len(p.s.buf)
    IN  /\ ~flushed /\ Len(text) < MaxText
        /\ text' = Append(text, c) /\ sp' = p.s
        /\ sentences' = sentences \o NonEmpty(p.out) \o more
        /\ cuts' = IF p.out = <<>> THEN cuts ELSE cuts \cup {end}
        /\ UNCHANGED flushed

FlushSplitter ==
    /\ ~flushed /\ flushed' = TRUE
    /\ sentences' = sentences \o NonEmpty(FlushBuffer(sp).out)
    /\ sp' = FlushBuffer(sp).s
    /\ UNCHANGED <<text, cuts>>

SplitterNext == (\E c \in Chars : PushChar(c)) \/ FlushSplitter

-----------------------------------------------------------------------------
Solid(s) == SelectSeq(s, LAMBDA c : c # " ")

(* What is spoken is what was said: the sentences and the buffer hold the  *)
(* text's characters in order, blanks aside, whatever was deferred, cut or *)
(* flushed; after flush() the buffer is empty.                             *)
NothingIsLost ==
    /\ Solid(FlattenSeq(sentences) \o sp.buf) = Solid(text)
    /\ flushed => sp.buf = <<>>

(* A sentence is cut only behind a terminator or a blank, never inside a   *)
(* number or a fenced block's backticks, and never behind an abbreviation. *)
CutsAreSentences ==
    \A p \in cuts :
        /\ text[p] \in {".", "!", " "}
        /\ text[p] = "." /\ p < Len(text) /\ p > 1 => ~(text[p - 1] = "1" /\ text[p + 1] = "1")
        /\ text[p] = "." /\ p > 2 =>
            \A abbr \in Abbreviations :
                p > Len(abbr) /\ SubSeq(text, p - Len(abbr), p - 1) = abbr
                    => p > Len(abbr) + 1 /\ text[p - Len(abbr) - 1] \in Letters \cup {".", "1"}

(* The sentences are the text, cut where sentences end, however the stream *)
(* came in (push, flush).                                                  *)
SpokenAsWritten == NothingIsLost /\ CutsAreSentences
=============================================================================
