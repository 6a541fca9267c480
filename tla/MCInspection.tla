----------------------------- MODULE MCInspection -----------------------------
(* The words and the pieces that TLC composes texts of. *)
EXTENDS Inspection

\* Words with blanks between them.
Spaced(words) == [i \in 1..(2 * Len(words) - 1) |-> IF i % 2 = 1 THEN words[(i + 1) \div 2] ELSE " "]

Piece(harm, role, known, items) ==
  [tongue |-> "shell", text |-> items, harm |-> harm, role |-> role, known |-> known]

Harm(words) == Piece("word", "none", FALSE, Spaced(words))
Harmless(words) == Piece("none", "none", FALSE, Spaced(words))
Acting(role, words) == Piece("none", role, FALSE, Spaced(words))
Known(words) == Piece("none", "none", TRUE, Spaced(words))

Sql(harm, items) ==
  [tongue |-> "sql", text |-> items, harm |-> harm, role |-> "none", known |-> FALSE]

ForkBombText == <<"b", "(", ")", "{", " ", "b", "|", "b", "&", " ", "}", ";", "b">>

MCPieces ==
  {Harm(<<"rm", "-r", "x">>), Harm(<<"remove-item", "-path", "/etc">>),
   Harm(<<"rmdir", "/s", "d">>), Harm(<<"git", "push", "-f">>),
   Harm(<<"chmod", "-r", "u=rwx,go+rwx", "d">>), Harm(<<"npm", "publish">>),
   Harm(<<"docker", "rm", "-f">>), Harm(<<"aws", "s3", "rb">>),
   Harm(<<"kubectl", "delete", "p", "--now">>), Harm(<<"dd", "of=/dev/sda">>),
   Harm(<<"mkfs.ext4", "/dev/sda">>), Harm(<<"find", "/etc", "-delete">>),
   Harm(<<"cp", ".env", "x">>), Harm(<<"powershell", "-enc", "cm0gLXIgeA==">>),
   Piece("text", "none", FALSE, ForkBombText),
   Piece("text", "none", FALSE, Spaced(<<"nc", "h", "-e", "/bin/sh">>)),
   Acting("download", <<"curl", "http://u">>), Acting("shell", <<"bash">>),
   Acting("secret", <<"printenv">>),
   Harmless(<<"rm", "x">>), Harmless(<<"git", "push">>), Harmless(<<"ls", "/*">>),
   Harmless(<<"npm", "publish", "--tag=t">>), Harmless(<<"pwsh", "-encodedcommand", "bHM=">>),
   Known(<<"mkdir", "d">>), Known(<<"chmod", "u+x", "d">>),
   Known(<<"new-item", "-itemtype", "file">>),
   Piece("none", "none", TRUE, <<"mkdir", " ", "'", "\\", "'">>),
   Piece("word", "none", FALSE, <<"rm", " ", "-r", " ", "'", "\\", "'">>),
   Piece("word", "none", FALSE, <<"rm", " ", "\\", "-r", " ", "x">>)}
  \cup
  {Sql("word", Spaced(<<"drop", "table", "t">>)), Sql("word", Spaced(<<"truncate", "t">>)),
   Sql("word", Spaced(<<"delete", "from", "t">>)),
   Sql("word", Spaced(<<"update", "t", "set", "a", "=", "1", "where", "a", "<>", "1">>)),
   Sql("word", Spaced(<<"delete", "from", "t", "where", "1", "=", "1">>)),
   Sql("none", Spaced(<<"delete", "from", "t", "where", "a", "=", "2">>)),
   Sql("none", Spaced(<<"update", "t", "set", "a", "=", "1", "where", "b", "=", "1">>)),
   Sql("none", <<"select", " ", "\"", "drop", " ", "table", ";", "\"">>)}

MCWrappers ==
  {[quoted |-> TRUE, before |-> <<"bash", " ", "-c", " ", "'">>, after |-> <<"'">>,
    avoids |-> {"'"}],
   [quoted |-> TRUE, before |-> <<"sh", " ", "-c", " ", "\"">>, after |-> <<"\"">>,
    avoids |-> {"\""}],
   [quoted |-> TRUE, before |-> <<"python", " ", "-c", " ", "\"", "system(", "'">>,
    after |-> <<"'", ")", "\"">>, avoids |-> Quotes \cup {"nl"}],
   [quoted |-> FALSE, before |-> <<"cmd", " ", "/c", " ">>, after |-> <<>>, avoids |-> Quotes]}

MCLookalike == [rm |-> "rm, cyrillic m", drop |-> "drop, greek o", mkdir |-> "mkdir, wide"]

MCPlain ==
  [c \in {MCLookalike[w] : w \in DOMAIN MCLookalike} \cup {"zero width space"} |->
     IF c = "zero width space" THEN <<>>
     ELSE <<CHOOSE w \in DOMAIN MCLookalike : MCLookalike[w] = c>>]

MCShapes ==
  [r |-> {"-r"}, f |-> {"-f"}, option |-> {"-r", "-f", "-e", "-c", "-enc", "-encodedcommand", "-path",
     "-delete", "-itemtype", "--now", "--tag=t", "--"},
   long |-> {"--now", "--tag=t", "--"}, context |-> {"--tag=t"}, mkfs |-> {"mkfs.ext4"},
   dev |-> {"/dev/sda"}, of |-> {"of=/dev/sda"}, credential |-> {".env"}, secret |-> {".env"},
   env |-> {}, url |-> {"http://u"},
   sink |-> {"curl", "nc", "-enc"}, name |-> {"b"}]

MCShape ==
  [w \in UNION {MCShapes[s] : s \in DOMAIN MCShapes} |->
     {CASE s = "dev" -> "/dev/" [] s = "of" -> "of=/dev/" [] OTHER -> s :
        s \in {s \in DOMAIN MCShapes : w \in MCShapes[s]}}]

MCPaths == [w \in {"/etc", "/s", "/c", "/dev/sda", "/*"} |->
  CASE w = "/etc" -> <<"", "etc">> [] w = "/dev/sda" -> <<"", "dev", "sda">>
    [] OTHER -> <<"", "some name">>]

MCModes ==
  [w \in {"u=rwx,go+rwx", "u+x"} |->
     IF w = "u+x" THEN {[classes |-> {"u"}, permissions |-> {"x"}]}
     ELSE {[classes |-> {"u"}, permissions |-> {"r", "w", "x"}],
           [classes |-> {"g", "o"}, permissions |-> {"r", "w", "x"}]}]

MCEncoded == [w \in {"cm0gLXIgeA==", "bHM="} |->
  IF w = "bHM=" THEN <<"ls">> ELSE <<"rm", " ", "-r", " ", "x">>]

MCAlphabet ==
  [shellText |-> {"w", " ", "'", "\"", "\\", ";", "|", "&"},
   sqlText |-> {"w", " ", "'", ";", "--", "/*", "*/", "nl"}]

MCMaxTyped == [shellText |-> 5, sqlText |-> 4]

MCComponents == {"", ".", "..", "etc", "a"}

MCHome == <<"", "home", "u">>
=============================================================================
