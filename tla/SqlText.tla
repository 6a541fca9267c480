------------------------------- MODULE SqlText -------------------------------
(***************************************************************************)
(* SQLInspector (inspectors/sql.py): tokens, statements and the risks of a *)
(* statement.  Texts are sequences of items as in CommandText; words that  *)
(* start with two dashes start a comment here.                             *)
(***************************************************************************)
EXTENDS CommandText, FiniteSets

CONSTANT
  Dashes      \* the items that start with "--"

Punctuation == {"*", "=", ",", "(", ")"}

ASSUME SqlConstants ==
  Dashes \cap (Quotes \cup Blanks \cup Punctuation \cup {"/*", Semicolon}) = {}

SqlRiskScores ==
  [sql_drop_table |-> 100, sql_drop_database |-> 100, sql_truncate |-> 100,
   sql_unqualified_delete |-> 85, sql_unqualified_update |-> 85,
   sql_tautological_delete |-> 90, sql_tautological_update |-> 90]

Least(S) == CHOOSE n \in S : \A m \in S : n <= m

-----------------------------------------------------------------------------
(* Both loops read a text the same way: it is plain, in a quoted part, at the quote   *)
(* that may end one, in a comment to the end of its line, or in a block comment.      *)

\* The state of a loop: how it reads, the quote and what is quoted so far, the token
\* or statement it is at, and those that are done.
SqlStart == [mode |-> "plain", quote |-> "none", part |-> <<>>, current |-> <<>>, done |-> <<>>]

\* _read_quoted, _skip_line_comment, _skip_block_comment: the item belongs to the quoted
\* part or the comment.  The second quote of two takes back the end that the first one was.
Within(s, c) ==
  \/ s.mode \in {"quoted", "block"}
  \/ s.mode = "line" /\ c # "nl"
  \/ s.mode = "closed" /\ c = s.quote

Inside(s, c) ==
  IF s.mode = "quoted" /\ c = s.quote THEN [s EXCEPT !.mode = "closed"]
  ELSE IF s.mode \in {"quoted", "closed"} THEN [s EXCEPT !.mode = "quoted", !.part = Append(@, c)]
  ELSE IF s.mode = "block" /\ c = "*/" THEN [s EXCEPT !.mode = "plain"]
  ELSE s

\* What the item begins.
Opening(c) ==
  CASE c \in Dashes -> "line"
    [] c = "/*"    -> "block"
    [] c \in Quotes -> "quoted"
    [] OTHER       -> "plain"

Opened(s, c) == [s EXCEPT !.mode = Opening(c), !.quote = c, !.part = <<>>]

\* An unclosed quote or block comment is a ValueError.
SqlRead(end) == end.mode \notin {"quoted", "block"}

-----------------------------------------------------------------------------
\* _append_token.
TokenEnded(s) ==
  [s EXCEPT !.done = IF s.current = <<>> THEN @ ELSE Append(@, s.current), !.current = <<>>]

\* A quoted part that is over is a token, also when nothing is in it.
TokenClosed(s) ==
  [s EXCEPT !.done = IF s.mode = "closed" THEN Append(@, s.part) ELSE @, !.mode = "plain"]

\* One item of tokenize.
TokenStep(s, c) ==
  LET t == TokenClosed(s)
  IN IF Within(s, c) THEN Inside(s, c)
     ELSE IF Opening(c) # "plain" THEN Opened(TokenEnded(t), c)
     ELSE IF c \in Blanks THEN TokenEnded(t)
     ELSE IF c \in Punctuation THEN [TokenEnded(t) EXCEPT !.done = Append(@, <<c>>)]
     ELSE [t EXCEPT !.current = Append(@, c)]

\* The states of tokenize along a text.
TokenStates(text) ==
  LET state[i \in 0..Len(text)] == IF i = 0 THEN SqlStart ELSE TokenStep(state[i - 1], text[i])
  IN state

TokensAt(end) == [ok |-> SqlRead(end), tokens |-> TokenEnded(TokenClosed(end)).done]

\* tokenize.
SqlTokens(text) == TokensAt(TokenStates(text)[Len(text)])

-----------------------------------------------------------------------------
\* Mutant: the quotes are lost.
Unquoted(q, token) == token

\* What a quoted part becomes in its statement: a doubled quote is not doubled again.
Requoted(q, token) == <<q>> \o token \o <<q>>

\* _append_statement.
StatementEnded(s) ==
  [s EXCEPT !.done = IF Stripped(s.current) = <<>> THEN @ ELSE Append(@, Stripped(s.current)),
            !.current = <<>>]

StatementClosed(s) ==
  [s EXCEPT !.current = IF s.mode = "closed" THEN @ \o Requoted(s.quote, s.part) ELSE @,
            !.mode = "plain"]

\* One item of split_statements; a comment becomes a blank.
StatementStep(s, c) ==
  LET t == StatementClosed(s)
  IN IF Within(s, c) THEN Inside(s, c)
     ELSE IF Opening(c) = "quoted" THEN Opened(t, c)
     ELSE IF Opening(c) # "plain" THEN [Opened(t, c) EXCEPT !.current = Append(@, Space)]
     ELSE IF c = Semicolon THEN StatementEnded(t)
     ELSE [t EXCEPT !.current = Append(@, c)]

StatementStates(text) ==
  LET state[i \in 0..Len(text)] ==
        IF i = 0 THEN SqlStart ELSE StatementStep(state[i - 1], text[i])
  IN state

SplitStatements(end) == [ok |-> SqlRead(end), raws |-> StatementEnded(StatementClosed(end)).done]

\* _build_statement of every statement: each is tokenized anew.
BuiltStatements(split, lexed) ==
  [ok |-> split.ok /\ \A i \in DOMAIN lexed : lexed[i].ok,
   tokens |-> [i \in DOMAIN lexed |-> lexed[i].tokens]]

\* split_statements.
Statements(text) ==
  LET split == SplitStatements(StatementStates(text)[Len(text)])
  IN BuiltStatements(split, [i \in DOMAIN split.raws |-> SqlTokens(split.raws[i])])

-----------------------------------------------------------------------------
At(tokens, n, word) == n <= Len(tokens) /\ tokens[n] = <<word>>

Place(tokens, word) == Least({i \in DOMAIN tokens : tokens[i] = <<word>>})

Mentions(tokens, word) == \E i \in DOMAIN tokens : tokens[i] = <<word>>

After(tokens, i) == SubSeq(tokens, i + 1, Len(tokens))

Truths == {<<"true">>, <<"t">>, <<"1">>}
Falsehoods == {<<"false">>, <<"f">>, <<"0">>}

\* _has_update_functional_tautology.  "!=" is never one token: "=" is punctuation.
SelectsWhatItSets(tokens, predicate) ==
  LET set    == Place(tokens, "set")
      column == tokens[set + 1]
      value  == tokens[set + 3]
  IN /\ At(tokens, 1, "update") /\ Mentions(tokens, "set")
     /\ Place(tokens, "where") > set + 3 /\ tokens[set + 2] = <<"=">>
     /\ Len(predicate) >= 3 /\ predicate[1] = column
     /\ \/ predicate[2] \in {<<"!=">>, <<"<>">>} /\ predicate[3] = value
        \/ predicate[2] = <<"=">> /\ \/ value \in Truths /\ predicate[3] \in Falsehoods
                                     \/ value \in Falsehoods /\ predicate[3] \in Truths
        \/ predicate[2] = <<"is">> /\ predicate[3] = <<"null">> /\ value \in Truths
        \/ /\ Len(predicate) >= 4 /\ predicate[2] = <<"is">>
           /\ predicate[3] = <<"not">> /\ predicate[4] = value

\* _has_tautological_where.
Tautological(tokens) ==
  /\ Mentions(tokens, "where")
  /\ LET predicate == After(tokens, Place(tokens, "where"))
     IN \/ FlattenSeq(predicate) \in {<<"1", "=", "1">>, <<"true">>, <<"(", "true", ")">>}
        \/ \E i \in 1..(Len(predicate) - 2) :
             predicate[i] = predicate[i + 2] /\ predicate[i + 1] = <<"=">>
        \/ SelectsWhatItSets(tokens, predicate)

\* _detect_statement_risks.
StatementRisks(tokens) ==
  LET drops(what) == At(tokens, 1, "drop") /\ At(tokens, 2, what)
      deletes == At(tokens, 1, "delete") /\ At(tokens, 2, "from") /\ Len(tokens) >= 3
      updates == At(tokens, 1, "update") /\ Mentions(tokens, "set") /\ Len(tokens) >= 4
      rows == IF ~Mentions(tokens, "where") THEN {"unqualified"}
              ELSE IF Tautological(tokens) THEN {"tautological"} ELSE {}
  IN {risk \in DOMAIN SqlRiskScores :
        \/ risk = "sql_drop_table" /\ drops("table")
        \/ risk = "sql_drop_database" /\ drops("database")
        \/ risk = "sql_truncate" /\ At(tokens, 1, "truncate")
        \/ risk = "sql_unqualified_delete" /\ deletes /\ "unqualified" \in rows
        \/ risk = "sql_tautological_delete" /\ deletes /\ "tautological" \in rows
        \/ risk = "sql_unqualified_update" /\ updates /\ "unqualified" \in rows
        \/ risk = "sql_tautological_update" /\ updates /\ "tautological" \in rows}

\* _apply_risk_analysis: the risks of all statements together.
SqlAnalysis(readable, statements) ==
  [valid |-> readable /\ statements.ok,
   risks |-> IF ~(readable /\ statements.ok) THEN {}
             ELSE UNION {StatementRisks(statements.tokens[i]) : i \in DOMAIN statements.tokens}]

\* analyze_sql; the whole text is tokenized first.
AnalyzeSql(text) ==
  IF Stripped(text) = <<>> THEN [valid |-> TRUE, risks |-> {}]
  ELSE SqlAnalysis(SqlTokens(text).ok, Statements(text))

\* The reference: the tokens of the whole text, a semicolon outside quotes and
\* comments being a blank.
Separates(text, i) == text[i] = Semicolon /\ ~Within(TokenStates(text)[i - 1], Semicolon)

ReferenceSql(text) ==
  SqlTokens([i \in DOMAIN text |-> IF Separates(text, i) THEN Space ELSE text[i]])

\* A quoted part holds a quote of its own kind, doubled in the text.
DoublesQuotes(text) ==
  \E i \in DOMAIN text :
    TokenStates(text)[i - 1].mode = "closed" /\ text[i] = TokenStates(text)[i - 1].quote
=============================================================================
