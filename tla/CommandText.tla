----------------------------- MODULE CommandText -----------------------------
(***************************************************************************)
(* How command text is read: CommandInspector.split_segments and tokenize  *)
(* (inspectors/command.py), the latter being the standard shlex.           *)
(*                                                                         *)
(* A text is a sequence of items: words, that nothing here looks into, and *)
(* the characters the lexers look at, "nl" standing for a line's end.  A   *)
(* token is a sequence of items too, so that a quoted command is a token   *)
(* that can be read as a text again.                                       *)
(***************************************************************************)
EXTENDS Integers, Sequences, SequencesExt

Space == " "
Semicolon == ";"
Double == "\""

Quotes == {"'", Double}
Blanks == {Space, "nl"}
Separators == {Semicolon, "|", "nl"}

\* str.strip.
Stripped(text) ==
  LET solid == {i \in DOMAIN text : text[i] \notin Blanks}
  IN IF solid = {} THEN <<>>
     ELSE SubSeq(text, CHOOSE i \in solid : \A j \in solid : i <= j,
                       CHOOSE i \in solid : \A j \in solid : i >= j)

-----------------------------------------------------------------------------
\* The state of the splitter: the quote it is in, whether the last item escapes the
\* next, whether that is the second half of an operator, what it has of the segment,
\* and the segments and operators so far.
SplitStart ==
  [quote |-> "none", escaped |-> FALSE, half |-> FALSE, current |-> <<>>,
   raws |-> <<>>, operators |-> <<>>]

\* _append_segment: a segment that is blank is left out, its operator is not.
Cut(s, operators) ==
  [s EXCEPT !.raws = IF Stripped(s.current) = <<>> THEN @ ELSE Append(@, Stripped(s.current)),
            !.operators = @ \o operators, !.current = <<>>]

Take(s, c) == [s EXCEPT !.current = Append(@, c)]

\* The first half of && or ||.
Doubled(text, i) == text[i] \in {"&", "|"} /\ i < Len(text) /\ text[i + 1] = text[i]

\* Mutant: an operator in quotes cuts too.
SplitBlindly(s, text, i) ==
  LET c == text[i]
  IN IF s.half THEN [s EXCEPT !.half = FALSE]
     ELSE IF s.escaped THEN [Take(s, c) EXCEPT !.escaped = FALSE]
     ELSE IF c = "\\" THEN [Take(s, c) EXCEPT !.escaped = TRUE]
     ELSE IF Doubled(text, i) THEN [Cut(s, <<c \o c>>) EXCEPT !.half = TRUE]
     ELSE IF c \in Separators THEN Cut(s, <<c>>)
     ELSE IF s.quote # "none" THEN [Take(s, c) EXCEPT !.quote = IF c = @ THEN "none" ELSE @]
     ELSE IF c \in Quotes THEN [Take(s, c) EXCEPT !.quote = c]
     ELSE Take(s, c)

\* One turn of the loop of split_segments.
SplitStep(s, text, i) ==
  LET c == text[i]
  IN IF s.half THEN [s EXCEPT !.half = FALSE]
     ELSE IF s.escaped THEN [Take(s, c) EXCEPT !.escaped = FALSE]
     ELSE IF c = "\\" THEN [Take(s, c) EXCEPT !.escaped = TRUE]
     ELSE IF s.quote # "none" THEN [Take(s, c) EXCEPT !.quote = IF c = @ THEN "none" ELSE @]
     ELSE IF c \in Quotes THEN [Take(s, c) EXCEPT !.quote = c]
     ELSE IF Doubled(text, i) THEN [Cut(s, <<c \o c>>) EXCEPT !.half = TRUE]
     ELSE IF c \in Separators THEN Cut(s, <<c>>)
     ELSE Take(s, c)

SplitStates(text) ==
  LET state[i \in 0..Len(text)] ==
        IF i = 0 THEN SplitStart ELSE SplitStep(state[i - 1], text, i)
  IN state

\* The end of split_segments: a dangling escape is doubled.
SplitEnd(end) ==
  [ok |-> end.quote = "none", operators |-> end.operators,
   raws |-> Cut(IF end.escaped THEN Take(end, "\\") ELSE end, <<>>).raws]

\* split_segments, up to the tokens.
SplitSegments(text) == SplitEnd(SplitStates(text)[Len(text)])

-----------------------------------------------------------------------------
\* The state of shlex: where it is, what an escape returns to, the token it is at,
\* whether any of that was quoted, and the tokens so far.
LexStart == [mode |-> "between", back |-> "word", token |-> <<>>, quoted |-> FALSE, tokens |-> <<>>]

Emit(s) ==
  [s EXCEPT !.tokens = IF s.token # <<>> \/ s.quoted THEN Append(@, s.token) ELSE @,
            !.mode = "between", !.token = <<>>, !.quoted = FALSE]

Keep(s, items) == [s EXCEPT !.token = @ \o items]

\* read_token of shlex, for one item: posix, whitespace_split, no comments.
LexStep(s, c) ==
  IF s.mode = "escape"
  THEN [Keep(s, IF s.back \in Quotes /\ c \notin {"\\", s.back} THEN <<"\\", c>> ELSE <<c>>)
          EXCEPT !.mode = s.back]
  ELSE IF s.mode \in Quotes /\ c = s.mode THEN [s EXCEPT !.mode = "word", !.quoted = TRUE]
  ELSE IF s.mode = Double /\ c = "\\"
  THEN [s EXCEPT !.mode = "escape", !.back = Double, !.quoted = TRUE]
  ELSE IF s.mode \in Quotes THEN [Keep(s, <<c>>) EXCEPT !.quoted = TRUE]
  ELSE IF c \in Blanks THEN Emit(s)
  ELSE IF c = "\\" THEN [s EXCEPT !.mode = "escape", !.back = "word"]
  ELSE IF c \in Quotes THEN [s EXCEPT !.mode = c]
  ELSE [Keep(s, <<c>>) EXCEPT !.mode = "word"]

\* The states of shlex along a text.
LexStates(text) ==
  LET state[i \in 0..Len(text)] == IF i = 0 THEN LexStart ELSE LexStep(state[i - 1], text[i])
  IN state

\* No closing quotation, or nothing to escape, is a ValueError.
LexEnd(end) == [ok |-> end.mode \in {"between", "word"}, tokens |-> Emit(end).tokens]

\* tokenize.
Tokenize(text) == LexEnd(LexStates(text)[Len(text)])

\* _build_segment of every segment: one that does not tokenize fails them all.
Built(split, lexed) ==
  [ok |-> split.ok /\ \A i \in DOMAIN lexed : lexed[i].ok,
   raws |-> split.raws,
   tokens |-> [i \in DOMAIN lexed |-> lexed[i].tokens],
   operators |-> split.operators]

Segments(text) ==
  LET split == SplitSegments(text)
  IN Built(split, [i \in DOMAIN split.raws |-> Tokenize(split.raws[i])])

-----------------------------------------------------------------------------
\* The reference: shlex over the whole text, an operator outside its quotes and
\* escapes being a blank.
Outside(text, i) == LexStates(text)[i - 1].mode \in {"between", "word"}

\* The length of the run of ampersands outside quotes that ends at i.
Ampersands(text) ==
  LET run[i \in 0..Len(text)] ==
        IF i > 0 /\ text[i] = "&" /\ Outside(text, i) THEN run[i - 1] + 1 ELSE 0
  IN run

LiveOperator(text, i) ==
  LET run == Ampersands(text)
  IN Outside(text, i) /\ \/ text[i] \in Separators
                         \/ run[i] > 0 /\ run[i] % 2 = 0
                         \/ run[i] % 2 = 1 /\ i < Len(text) /\ run[i + 1] > 0

ReferenceTokens(text) ==
  Tokenize([i \in DOMAIN text |-> IF LiveOperator(text, i) THEN Space ELSE text[i]])

\* A single & outside quotes: the shell goes on to a further command, split_segments to
\* a further word.
Backgrounds(text) ==
  \E i \in DOMAIN text : text[i] = "&" /\ Outside(text, i) /\ ~LiveOperator(text, i)

\* The two lexers take a backslash in single quotes differently.
EscapesInSingleQuotes(text) ==
  \E i \in DOMAIN text : text[i] = "\\" /\ LexStates(text)[i - 1].mode = "'"
=============================================================================
