------------------------------ MODULE Inspection ------------------------------
(***************************************************************************)
(* Texts that an agent may hand to evaluate_command (cli.py), built step by *)
(* step, and what the inspectors (inspectors/*.py) and the built-in rules   *)
(* must say of each.  The code keeps no state between two texts: the state  *)
(* here is the text, how it was built, and so what is known of it.          *)
(*                                                                         *)
(* A text is typed item by item, or composed: commands of known harm are   *)
(* chained, wrapped in an interpreter's argument, padded, quoted and        *)
(* disguised.                                                              *)
(***************************************************************************)
EXTENDS BuiltinRules

CONSTANTS
  Alphabet,    \* from "shellText" and "sqlText" to the items that are typed
  Components,  \* the components of typed paths
  Pieces,      \* commands and statements: see PieceType
  Wrappers,    \* interpreters: what they put before and after, and the quotes of it
  Lookalike,   \* from words to items that are normalized to them
  Invisible,   \* the items that are normalized away
  MaxTyped,    \* the longest typed text
  MaxPath,     \* the most components of a typed path
  MaxEffort    \* how much is done to a composed text

VARIABLES
  tongue,      \* how the text is built
  text,        \* a sequence of items; of components, for a path
  parts,       \* the pieces it is composed of, each with the operator before it
  aligned,     \* no operator stands where the code does not expect one
  form,        \* "one" piece, a "chain" of them, or "other"
  effort

vars == <<tongue, text, parts, aligned, form, effort>>

\* harm: "none", "word" (a command's words show it) or "text" (the raw text does);
\* role: what it is to its neighbours; known: a known safe operation and nothing else.
PieceType ==
  [tongue : {"shell", "sql"}, text : Seq(STRING), harm : {"none", "word", "text"},
   role : {"none", "download", "shell", "secret"}, known : BOOLEAN]

Typed == {"shellText", "sqlText"}
Composed == {"shell", "sql"}

WrapperType ==
  [quoted : BOOLEAN, before : Seq(STRING), after : Seq(STRING), avoids : SUBSET STRING]

\* Items that may be more than a part of a word.
Significant == Blanks \cup Separators \cup Quotes \cup {"&", "\\"}

\* Written with nothing that normalization changes.
Plainly(items) == \A i \in DOMAIN items : items[i] \notin DOMAIN Plain

EndsInEscape(items) == items # <<>> /\ Last(items) = "\\"

\* A command of these words is a known safe operation, and nothing is wrong with it.
KnownSafe(tokens) ==
  OperationOfTokens(tokens).operation \in SafeOperations /\ SegmentRisks(NestedDanger, tokens) = {}

\* The names that the safe operations go by.
SafeNames == {"new-item"} \cup UNION {OperationOf[operation] : operation \in SafeOperations}

Nameless(items) == \A i \in DOMAIN items : items[i] \notin SafeNames

\* What makes a piece, an interpreter and a disguise one.
SoundPiece(piece) ==
  /\ piece \in PieceType /\ Plainly(piece.text)
  /\ Tokenize(piece.text).ok /\ ~EndsInEscape(piece.text)
  /\ piece.known <=> KnownSafe(Tokenize(piece.text).tokens)
  /\ piece.tongue = "sql" => Nameless(piece.text)

SoundWrapper(wrapper) ==
  /\ wrapper \in WrapperType
  /\ Plainly(wrapper.before \o wrapper.after) /\ Nameless(wrapper.before \o wrapper.after)
  /\ ~EndsInEscape(wrapper.before) /\ ~EndsInEscape(wrapper.after)
  /\ Len(wrapper.before) > 1 /\ wrapper.before[1] \notin Significant /\ wrapper.before[2] \in Blanks

ASSUME InspectionConstants ==
  /\ \A piece \in Pieces : SoundPiece(piece)
  /\ \A wrapper \in Wrappers : SoundWrapper(wrapper)
  /\ DOMAIN Plain \subseteq STRING /\ Plain \in [DOMAIN Plain -> Seq(STRING)]
  /\ DOMAIN Plain \cap (Significant \cup DOMAIN Lookalike \cup {"/*", "*/", "--", "aside"}) = {}
  /\ \A w \in DOMAIN Lookalike :
       /\ w \notin Significant
       /\ Lookalike[w] \in DOMAIN Plain /\ Plain[Lookalike[w]] = <<w>>
  /\ \A c \in Invisible : c \in DOMAIN Plain /\ Plain[c] = <<>>

\* How an operator is spelled in items; & stands by itself, no part of a word.
Spelled(operator) ==
  CASE operator = "&&" -> <<"&", "&">>
    [] operator = "&"  -> <<Space, "&", Space>>
    [] OTHER           -> <<operator>>

\* The operators of the shell, whichever of them split_segments knows.
ChainOperators == [shell |-> Separators \cup {"&&", "&"}, sql |-> {Semicolon}]

-----------------------------------------------------------------------------
Init ==
  /\ effort = 0 /\ aligned = TRUE /\ form = "one"
  /\ \/ tongue \in Typed /\ text = <<>> /\ parts = <<>>
     \/ tongue = "path" /\ text = Root /\ parts = <<>>
     \/ \E piece \in Pieces :
          /\ tongue = piece.tongue /\ text = piece.text
          /\ parts = <<[piece |-> piece, operator |-> "none"]>>

\* The characters of two of these would make the other one between them.
Type(c) ==
  /\ tongue \in Typed /\ c \in Alphabet[tongue] /\ Len(text) < MaxTyped[tongue]
  /\ ~(c \in {"/*", "*/"} /\ IsSuffix(<<c>>, text))
  /\ text' = Append(text, c)
  /\ UNCHANGED <<tongue, parts, aligned, form, effort>>

Descend(c) ==
  /\ tongue = "path" /\ Len(text) <= MaxPath
  /\ text' = Append(text, c)
  /\ UNCHANGED <<tongue, parts, aligned, form, effort>>

Work(n) ==
  /\ tongue \in Composed /\ effort + n <= MaxEffort
  /\ effort' = effort + n
  /\ UNCHANGED tongue

\* A further command behind the text, which nothing was done to yet.
Follow(piece, operator) ==
  /\ Work(2) /\ form # "other"
  /\ piece.tongue = tongue /\ operator \in ChainOperators[tongue]
  /\ text' = text \o Spelled(operator) \o piece.text
  /\ parts' = Append(parts, [piece |-> piece, operator |-> operator])
  /\ form' = "chain" /\ UNCHANGED aligned

\* An operator with nothing on one side of it; no shell reads a line that & leads.
Lead(operator) ==
  /\ Work(1) /\ operator \in ChainOperators[tongue] \ {"&"}
  /\ text' = Spelled(operator) \o text
  /\ form' = "other" /\ aligned' = FALSE /\ UNCHANGED parts

Trail(operator) ==
  /\ Work(1) /\ operator \in ChainOperators[tongue]
  /\ text' = text \o Spelled(operator)
  /\ form' = "other" /\ UNCHANGED <<parts, aligned>>

\* The text becomes an interpreter's argument; without quotes only its first command.
Wrap(wrapper) ==
  /\ Work(1)
  /\ \A i \in DOMAIN text : text[i] \notin wrapper.avoids
  /\ wrapper.quoted \/ tongue = "shell"
  /\ text' = wrapper.before \o text \o wrapper.after
  /\ form' = "other" /\ aligned' = (aligned /\ wrapper.quoted) /\ UNCHANGED parts

\* A word, or what is between two, is spelled otherwise.
Disguise(i, items) ==
  /\ Work(2)
  /\ text' = SubSeq(text, 1, i - 1) \o items \o SubSeq(text, i + 1, Len(text))
  /\ UNCHANGED <<parts, aligned, form>>

LooksAlike(i) == text[i] \in DOMAIN Lookalike /\ Disguise(i, <<Lookalike[text[i]]>>)

Conceal(i, c) == Disguise(i, <<text[i], c>>)

\* Quoted words hide from what is looked for in the text as a whole.
QuoteWord(i) ==
  /\ tongue = "shell" /\ text[i] \notin Blanks \cup Separators \cup Invisible \cup {"&"}
  /\ \A j \in DOMAIN text : text[j] \notin Quotes \cup {"\\"}
  /\ \A j \in DOMAIN parts : parts[j].piece.harm # "text" /\ parts[j].piece.role # "secret"
  /\ Disguise(i, <<Double, text[i], Double>>)

CommentOut(i, comment) ==
  tongue = "sql" /\ form # "other" /\ text[i] = Space /\ Disguise(i, comment)

SqlComments == {<<"/*", "aside", "*/">>, <<"--", "aside", "nl">>}

Next ==
  \/ \E t \in Typed : \E c \in Alphabet[t] : Type(c)
  \/ \E c \in Components : Descend(c)
  \/ \E piece \in Pieces, operator \in ChainOperators.shell : Follow(piece, operator)
  \/ \E operator \in ChainOperators.shell : Lead(operator) \/ Trail(operator)
  \/ \E wrapper \in Wrappers : Wrap(wrapper)
  \/ \E i \in DOMAIN text : LooksAlike(i)
  \/ \E i \in DOMAIN text, c \in Invisible : Conceal(i, c)
  \/ \E i \in DOMAIN text : QuoteWord(i)
  \/ \E i \in DOMAIN text, comment \in SqlComments : CommentOut(i, comment)

Spec == Init /\ [][Next]_vars

-----------------------------------------------------------------------------
\* One part feeds the next.
Feeds(from, to) ==
  \E i \in 1..(Len(parts) - 1) :
    parts[i].piece.role = from /\ parts[i + 1].piece.role = to /\ parts[i + 1].operator = "|"

Harmful ==
  \/ \E i \in DOMAIN parts : parts[i].piece.harm # "none"
  \/ Feeds("secret", "download")
  \/ aligned /\ Feeds("download", "shell")

Playing(role) == \E i \in DOMAIN parts : parts[i].piece.role = role

\* A part stands behind a single &, which the code takes for a word of the command.
RunsOn == \E i \in DOMAIN parts : parts[i].operator = "&"

\* A part has a backslash in single quotes, which split_segments takes for an escape.
HidesQuote == \E i \in DOMAIN parts : EscapesInSingleQuotes(parts[i].piece.text)

-----------------------------------------------------------------------------
\* The splitter that finds the operators and the lexer that finds the words read the
\* same text twice, by different rules; a quote that only one of them sees would hide a
\* command.  They agree, apart from a backslash in single quotes: what is accepted has
\* the words of the whole line and, but for a backslash at its end, is a readable line;
\* and a readable line without backslashes is accepted.
LexersAgree ==
  (tongue = "shellText" /\ ~EscapesInSingleQuotes(text)) =>
    LET segments  == Segments(text)
        reference == ReferenceTokens(text)
    IN /\ segments.ok => \/ reference.ok /\ FlattenSeq(segments.tokens) = reference.tokens
                         \/ ~reference.ok /\ Last(text) = "\\"
       /\ (reference.ok /\ ~Contains(text, "\\")) => segments.ok

\* The same of SQL, where every statement is written anew and read again: unless a
\* quote is doubled, no word is lost, joined or taken for a comment, and no statement
\* becomes unreadable.
StatementsKeepTokens ==
  (tongue = "sqlText" /\ ~DoublesQuotes(text)) =>
    LET statements == Statements(text)
        reference  == ReferenceSql(text)
    IN /\ statements.ok <=> reference.ok
       /\ statements.ok => FlattenSeq(statements.tokens) = reference.tokens

\* Every spelling of a rooted path, with empty components, "." and "..", is brought to
\* the path it names: no detour leads to a protected directory unseen.
SpellingsAgree == tongue = "path" => NormalizePath(text) = ReferencePath(text)

\* A harmful command is refused behind other commands, in an interpreter's argument, led
\* and trailed by operators, quoted, commented or disguised.  Three texts are excepted, and
\* the code does let harm pass in each.  A download piped to a shell is known by operators
\* and segments of the same index (_detect_pipeline_risks), and only where nothing shifts
\* them: behind a leading operator, or as the unquoted argument of an interpreter, it is
\* not Harmful here.  A command behind a single & is read as words of the one before it.
\* Behind a backslash in single quotes the splitter takes quotes for text.
HarmIsRefused ==
  (tongue \in Composed /\ Harmful /\ ~RunsOn /\ ~HidesQuote) => Verdict(text) \in {"block", "error"}

\* And harmless ones are not, however they are put together: a neighbour, a wrapper or a
\* disguise makes no command a harmful one.  Excepted are a secret read and a network
\* command anywhere in one text, which are taken for an exfiltration; texts in which a
\* leading operator or an unquoted argument shifts operators against segments, so that
\* others than the neighbours are taken for a pipe; and texts with a backslash in single
\* quotes, which the splitter refuses to read.
HarmlessIsNotBlocked ==
  (tongue \in Composed /\ aligned /\ ~Harmful /\ ~HidesQuote
     /\ ~(Playing("secret") /\ Playing("download")))
    => Verdict(text) # "block"

\* What is allowed without being asked is one known safe operation and nothing else: an
\* operator left over, a wrapper or a second command is more than was inspected.  This is
\* said of texts in which the splitter finds the shell's operators.  It does not find one
\* between two quotes that each stand behind a backslash in single quotes, nor a single &,
\* and the code allows mkdir '\' ; rm -r x '\' and mkdir d & rm -r x.
AllowsOneOperation ==
  LET read == Normalized(text)
  IN (tongue \in Composed /\ ~EscapesInSingleQuotes(read) /\ ~Backgrounds(read)
        /\ Verdict(text) = "allow")
       => form = "one" /\ parts[1].piece.known
=============================================================================
