----------------------------- MODULE ShellScript -----------------------------
(***************************************************************************)
(* How the detector reads a package script: splitCommands cuts it at ; |   *)
(* and &, then shellWords cuts each command into words.  Both scan the     *)
(* same quotes and escapes, one after the other.  A character stands for   *)
(* its class: "\n" is a ";", every blank is " ", any other letter is "a".   *)
(***************************************************************************)
EXTENDS Naturals, SequencesExt

Quotes == {"'", "\""}
Separators == {";", "|", "&"}
Alphabet == Quotes \cup Separators \cup {"a", " ", "\\"}

Refused == [read |-> FALSE, parts |-> << >>]
Result(parts) == [read |-> TRUE, parts |-> parts]

\* A scan: the parts that are complete, the one being read, and how it is read.
Scan == [parts |-> << >>, part |-> << >>, quote |-> "", escaped |-> FALSE]
Open(s) == s.quote # "" \/ s.escaped
Keep(s, c) == [s EXCEPT !.part = Append(@, c)]
\* `if (current) parts.push(current)`
Cut(s, part) ==
    [s EXCEPT !.parts = IF part = << >> THEN @ ELSE Append(@, part), !.part = << >>]
----------------------------------------------------------------------------
Trim(text) ==
    LET solid == {i \in DOMAIN text : text[i] # " "}
    IN  IF solid = {} THEN << >> ELSE SubSeq(text, Min(solid), Max(solid))

\* Quotes and escapes stay in the text.  "&&" and "||" need no case of their own:
\* nothing lies between the two characters, and nothing is not pushed.
SplitStep(s, c) ==
    IF s.escaped THEN [Keep(s, c) EXCEPT !.escaped = FALSE]
    ELSE IF c = "\\" /\ s.quote # "'" THEN [Keep(s, c) EXCEPT !.escaped = TRUE]
    ELSE IF s.quote # "" THEN [Keep(s, c) EXCEPT !.quote = IF c = @ THEN "" ELSE @]
    ELSE IF c \in Quotes THEN [Keep(s, c) EXCEPT !.quote = c]
    ELSE IF c \in Separators THEN Cut(s, Trim(s.part))
    ELSE Keep(s, c)

SplitCommands(script) ==
    LET s == FoldLeft(SplitStep, Scan, script)
    IN  IF Open(s) THEN Refused ELSE Result(Cut(s, Trim(s.part)).parts)

\* Quotes and escapes are taken away.
WordStep(s, c) ==
    IF s.escaped THEN [Keep(s, c) EXCEPT !.escaped = FALSE]
    ELSE IF c = "\\" /\ s.quote # "'" THEN [s EXCEPT !.escaped = TRUE]
    ELSE IF s.quote # "" THEN IF c = s.quote THEN [s EXCEPT !.quote = ""] ELSE Keep(s, c)
    ELSE IF c \in Quotes THEN [s EXCEPT !.quote = c]
    ELSE IF c = " " THEN Cut(s, s.part)
    ELSE Keep(s, c)

ShellWords(command) ==
    LET s == FoldLeft(WordStep, Scan, command)
    IN  IF Open(s) THEN Refused ELSE Result(Cut(s, s.part).parts)

\* What classifyTestRunner makes of a script: the words of its commands, or nothing.
Read(script) ==
    LET commands == SplitCommands(script)
        words == [i \in DOMAIN commands.parts |-> ShellWords(commands.parts[i])]
    IN  IF commands.read /\ \A i \in DOMAIN words : words[i].read /\ words[i].parts # << >>
        THEN Result([i \in DOMAIN words |-> words[i].parts])
        ELSE Refused
----------------------------------------------------------------------------
\* The reference: one pass over the script, which never looks at a character twice.
Lexer == [commands |-> << >>, words |-> << >>, word |-> << >>, quote |-> "", escaped |-> FALSE]
EndWord(l) == [l EXCEPT !.words = IF l.word = << >> THEN @ ELSE Append(@, l.word), !.word = << >>]
EndCommand(l) ==
    LET e == EndWord(l)
    IN  [e EXCEPT !.commands = IF e.words = << >> THEN @ ELSE Append(@, e.words), !.words = << >>]

LexStep(l, c) ==
    IF Open(l)
    THEN IF l.escaped THEN [l EXCEPT !.word = Append(@, c), !.escaped = FALSE]
         ELSE IF c = l.quote THEN [l EXCEPT !.quote = ""]
         ELSE IF c = "\\" /\ l.quote = "\"" THEN [l EXCEPT !.escaped = TRUE]
         ELSE [l EXCEPT !.word = Append(@, c)]
    ELSE CASE c = "\\" -> [l EXCEPT !.escaped = TRUE]
           [] c \in Quotes -> [l EXCEPT !.quote = c]
           [] c = " " -> EndWord(l)
           [] c \in Separators -> EndCommand(l)
           [] OTHER -> [l EXCEPT !.word = Append(@, c)]

Lexed(script) == FoldLeft(LexStep, Lexer, script)

\* What the two scans make of a script is what one pass makes of it.
TwoScansAreOne(script) ==
    LET read == Read(script)
        lexed == Lexed(script)
    IN  read.read => ~Open(lexed) /\ read.parts = EndCommand(lexed).commands

\* A script is refused if it ends in a quote or an escape; otherwise only for a
\* command of nothing but empty quotes, or one whose last blank is escaped: the
\* first scan trims the blank and leaves the escape.
RefusedForCause(script) ==
    LET commands == SplitCommands(script)
        Blank(text) == Last(text) = "\\" \/ \A i \in DOMAIN text : text[i] \in Quotes \cup {" "}
    IN  /\ ~commands.read <=> Open(Lexed(script))
        /\ commands.read /\ ~Read(script).read =>
              \E i \in DOMAIN commands.parts : Blank(commands.parts[i])
=============================================================================
