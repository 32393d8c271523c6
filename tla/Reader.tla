------------------------------ MODULE Reader ------------------------------
(***************************************************************************)
(* From the characters of the input to the end of yyparse(), in            *)
(* shell/parser.y: shell_getc() and shell_ungetc() on the current line,    *)
(* read_token() and read_token_word() on top of them, yylex(), and the     *)
(* grammar as far as the tokens that yylex() can return tell its states    *)
(* apart.  parse(NULL) is called over and over.                            *)
(*                                                                         *)
(* A character stands for a class: "a" for letters, "'" for both quotes,   *)
(* "nl" for the newline, "nul" for the null byte.  A meta-character that   *)
(* is a token by itself is returned as it is.  Reserved words are never    *)
(* recognised (parser.y:2496), so that the cases of special_case_tokens()  *)
(* do not occur.                                                           *)
(***************************************************************************)
EXTENDS Naturals, Sequences, SequencesExt

CONSTANTS
    Texts       \* BOUND: the inputs

Class == {"a", "=", " ", "nl", "nul", "<", ">", "&", "|", ";", "(", ")", "-", "#",
          "\\", "$", "'"}

ASSUME TextsAssumption == Texts \subseteq Seq(Class)

EOF  == "EOF"
None == "none"

\* Where shell input comes from: what fgetc() has not returned yet, the current
\* shell_input_line with its index, eol_ungetc_lookahead, and (history) the
\* characters handed out and not pushed back.  The line is empty exactly when
\* shell_input_line_terminator is EOF, or nothing was read yet.
Source == [input : Seq(Class), line : Seq(Class), index : Nat,
           lookahead : Class \cup {EOF, None}, taken : Seq(Class)]

VARIABLES
    text,       \* (history) the whole input
    source,     \* see above
    pc,         \* where the scanner is
    character,  \* `character' in read_token() and read_token_word()
    pass,       \* pass_next_character
    token,      \* the token buffer
    current_token,
    last_read_token,
    casepat,    \* whether PST_CASEPAT is set in parser_state
    EOF_Reached,
    state,      \* the state of the parser
    start       \* (history) how many characters were taken before this token

scanner == <<character, pass, token>>
tokens  == <<current_token, last_read_token, casepat, EOF_Reached, start>>
vars    == <<text, source, pc, scanner, tokens, state>>

-----------------------------------------------------------------------------
(***************************************************************************)
(* shell_getc() and shell_ungetc(): operators on a source.                 *)
(***************************************************************************)

\* What step makes of the characters of s, from the first to the last.
Through(step, s) ==
    LET upto[n \in 0..Len(s)] == IF n = 0 THEN <<>> ELSE step[<<upto[n - 1], s[n]>>]
    IN  upto[Len(s)]

Filter == [x \in Seq(Class) \X Class |-> IF x[2] = "nul" THEN x[1] ELSE Append(x[1], x[2])]

\* s without its null bytes
NonNul(s) == Through(Filter, s)

\* (mutant) the end of the input ends the line it is on
ReadLine_DropLast(s) ==
    LET nl == SelectInSeq(s.input, LAMBDA c : c = "nl")
    IN  IF nl = 0 THEN [s EXCEPT !.input = <<>>, !.line = <<>>, !.index = 0]
        ELSE [s EXCEPT !.input = SubSeq(@, nl + 1, Len(@)), !.index = 0,
                       !.line = NonNul(SubSeq(s.input, 1, nl))]

\* The next line, without null bytes; a last line without a newline gets one.
ReadLine(s) ==
    LET nl   == SelectInSeq(s.input, LAMBDA c : c = "nl")
        upto == IF nl = 0 THEN Len(s.input) ELSE nl - 1
        line == NonNul(SubSeq(s.input, 1, upto))
    IN  [s EXCEPT !.input = SubSeq(@, upto + 2, Len(@)),
                  !.line  = IF nl = 0 /\ line = <<>> THEN <<>> ELSE Append(line, "nl"),
                  !.index = 0]

\* The next character of the line; a backslash in front of the newline goes on
\* with the next line.
FromLine(remove_quoted_newline) ==
    LET take[s \in Source] ==
            IF s.line = <<>> THEN [c |-> EOF, s |-> s]
            ELSE LET c == s.line[s.index + 1]
                     t == [s EXCEPT !.index = @ + 1, !.taken = Append(@, c)]
                 IN  IF remove_quoted_newline /\ c = "\\" /\ t.line[t.index + 1] = "nl"
                     THEN take[ReadLine([t EXCEPT !.taken = Append(@, "nl")])]
                     ELSE [c |-> c, s |-> t]
    IN  take

\* The character, and the source after it.
shell_getc(s, remove_quoted_newline) ==
    IF s.lookahead # None
    THEN [c |-> s.lookahead,
          s |-> [s EXCEPT !.lookahead = None,
                          !.taken = IF s.lookahead = EOF THEN @ ELSE Append(@, s.lookahead)]]
    ELSE FromLine(remove_quoted_newline)[IF s.index = Len(s.line) THEN ReadLine(s) ELSE s]

\* (mutant) no test of the index
Ungetc_Unchecked(s, c) == [s EXCEPT !.line[s.index] = c, !.index = @ - 1, !.taken = Front(@)]

\* Put c back: into the line, or, in front of its first character, aside.
shell_ungetc(s, c) ==
    IF s.index # 0
    THEN [s EXCEPT !.line[s.index] = c, !.index = @ - 1, !.taken = Front(@)]
    ELSE [s EXCEPT !.lookahead = c, !.taken = IF c = EOF THEN @ ELSE Front(@)]

-----------------------------------------------------------------------------
(***************************************************************************)
(* Tokens and the parser.                                                  *)
(***************************************************************************)
Operator == [LESS_LESS |-> <<"<", "<">>, LESS_AND |-> <<"<", "&">>, LESS_GREATER |-> <<"<", ">">>,
             GREATER_GREATER |-> <<">", ">">>, GREATER_AND |-> <<">", "&">>,
             GREATER_BAR |-> <<">", "|">>, AND_AND |-> <<"&", "&">>, AND_GREATER |-> <<"&", ">">>,
             OR_OR |-> <<"|", "|">>, SEMI_SEMI |-> <<";", ";">>,
             LESS_LESS_LESS |-> <<"<", "<", "<">>, LESS_LESS_MINUS |-> <<"<", "<", "-">>]

shellmeta == {" ", "nl", ";", "(", ")", "<", ">", "|", "&"}
Words     == {"WORD", "ASSIGNMENT_WORD"}
Redirects == DOMAIN Operator \ {"AND_AND", "OR_OR", "SEMI_SEMI"}
Token     == Class \cup Words \cup DOMAIN Operator \cup {"0", "yacc_EOF"}

\* The operator token of these characters, if there is one.
OperatorOf(cs) == {t \in DOMAIN Operator : Operator[t] = cs}

\* The states of the parser in which an element of a command may come: at the
\* start of the input, behind && or ||, and behind another element.
ElementMayCome == {"start", "operand", "command"}

\* simple_list_terminator, and the rule of inputunit for an empty input
EndShifted(st, t) == st \in {"start", "command"} /\ t = "yacc_EOF"

\* simple_command_element: a word, or the word of a redirection
WordShifted(st, t) == \/ st \in ElementMayCome /\ t \in Words
                      \/ st = "redirection" /\ t = "WORD"

\* redirection: its operator
RedirectShifted(st, t) == st \in ElementMayCome /\ t \in Redirects

\* simple_list1: && and ||
JoinShifted(st, t) == st = "command" /\ t \in {"AND_AND", "OR_OR"}

\* The state of the parser after one more token.  The grammar knows no token
\* "nl", "<" and so on; after an error it discards tokens up to a NEWLINE.
Shifted(st, t) ==
    CASE EndShifted(st, t)       -> "accept"
      [] WordShifted(st, t)      -> "command"
      [] RedirectShifted(st, t)  -> "redirection"
      [] JoinShifted(st, t)      -> "operand"
      [] OTHER                   -> "recover"

\* The token buffer is an assignment: a name, and a `='.
assignment(string) ==
    \E i \in 2..Len(string) : string[i] = "=" /\ \A j \in 1..(i - 1) : string[j] = "a"

\* reserved_word_acceptable(), for the tokens there are, and assignment words
command_token_position(t) ==
    t \in {"0", "nl", ";", "(", ")", "|", "&", "AND_AND", "OR_OR", "ASSIGNMENT_WORD"}

\* (mutant) the test of the position is forgotten
assignment_acceptable_Anywhere(t) == ~casepat

assignment_acceptable(t) == command_token_position(t) /\ ~casepat

-----------------------------------------------------------------------------
Init ==
    /\ text \in Texts
    /\ source = [input |-> text, line |-> <<>>, index |-> 0, lookahead |-> None, taken |-> <<>>]
    /\ pc = "yylex" /\ state = "start"
    /\ character = None /\ pass = FALSE /\ token = <<>>
    /\ current_token = "0" /\ last_read_token = "0"
    /\ casepat = FALSE /\ EOF_Reached = FALSE /\ start = 0

\* yylex() up to the call of read_token()
Yylex ==
    /\ pc = "yylex"
    /\ last_read_token' = current_token
    /\ start' = Len(source.taken)
    /\ pc' = "blank"
    /\ UNCHANGED <<text, source, scanner, current_token, casepat, EOF_Reached, state>>

\* read_token() returns t to yylex() and yylex() to the parser.
Return(t) ==
    /\ current_token' = t
    /\ pc' = "token"
    /\ casepat' = (casepat \/ t = "SEMI_SEMI")
    /\ EOF_Reached' = (EOF_Reached \/ t = "yacc_EOF")
    /\ UNCHANGED <<last_read_token, start>>

\* read_token() goes on elsewhere.
Continue(where) == pc' = where /\ UNCHANGED tokens

\* `-' is a token behind `<&' and `>&' only.
Dash(c) == c = "-" /\ last_read_token \in {"LESS_AND", "GREATER_AND"}

\* read_token(): skip blanks and look at the first other character.
Blank ==
    /\ pc = "blank"
    /\ LET g == shell_getc(source, TRUE) IN
       /\ source' = g.s
       /\ \/ g.c = " "   /\ Continue("blank") /\ UNCHANGED scanner
          \/ g.c = EOF   /\ Return("yacc_EOF") /\ UNCHANGED scanner
          \/ g.c = "#"   /\ Continue("comment") /\ UNCHANGED scanner
          \/ g.c = "nl"  /\ Return("nl") /\ UNCHANGED scanner
          \/ Dash(g.c)   /\ Return("-") /\ UNCHANGED scanner
          \/ g.c \in shellmeta \ {" ", "nl"} /\ Continue("meta")
                /\ character' = g.c /\ UNCHANGED <<pass, token>>
          \/ g.c \notin shellmeta \cup {EOF, "#"} /\ ~Dash(g.c) /\ Continue("word")
                /\ character' = g.c /\ pass' = FALSE /\ token' = <<>>
    /\ UNCHANGED <<text, state>>

\* (mutant) the newline is not pushed back
discard_until_take(s, c) == s

\* discard_until() has read c: a newline is pushed back, the end is not.
discard_until_last(s, c) == IF c = EOF THEN s ELSE shell_ungetc(s, c)

\* read_token(): discard_until('\n'), and take the newline.
Comment ==
    /\ pc = "comment"
    /\ LET g == shell_getc(source, FALSE) IN
       \/ g.c \notin {"nl", EOF} /\ source' = g.s /\ Continue("comment")
       \/ /\ g.c \in {"nl", EOF}
          /\ source' = shell_getc(discard_until_last(g.s, g.c), FALSE).s
          /\ Return("nl")
    /\ UNCHANGED <<text, scanner, state>>

\* read_token(): a meta-character and the one or two characters behind it.
Meta ==
    /\ pc = "meta"
    /\ LET g == shell_getc(source, TRUE)
           h == shell_getc(g.s, TRUE)
       IN
       \/ /\ character = "<" /\ g.c = "<"
          /\ \/ \E t \in OperatorOf(<<"<", "<", h.c>>) : source' = h.s /\ Return(t)
             \/ /\ OperatorOf(<<"<", "<", h.c>>) = {}
                /\ source' = shell_ungetc(h.s, h.c)
                /\ Return("LESS_LESS")
       \/ /\ ~(character = "<" /\ g.c = "<")
          /\ \E t \in OperatorOf(<<character, g.c>>) : source' = g.s /\ Return(t)
       \/ /\ OperatorOf(<<character, g.c>>) = {}
          /\ source' = shell_ungetc(g.s, g.c)
          /\ IF character \in {"<", ">"} /\ g.c = "(" THEN Continue("word")
                                                       ELSE Return(character)
    /\ pass' = FALSE /\ token' = <<>>
    /\ UNCHANGED <<text, character, state>>

-----------------------------------------------------------------------------
(***************************************************************************)
(* read_token_word(), one turn of its loop at a time.                      *)
(***************************************************************************)

\* next_character, from the source s with these settings
NextCharacter(s, word, passing) ==
    LET g == shell_getc(s, ~passing) IN
    /\ character' = g.c /\ source' = g.s
    /\ token' = word /\ pass' = passing
    /\ Continue("word")

\* got_character
GotCharacter(s, passing) == NextCharacter(s, Append(token, character), passing)

Plain ==
    /\ character # EOF
    /\ pass \/ character \notin {"\\", "'", "$"}
    /\ GotCharacter(source, FALSE)

\* The character behind it is looked at and pushed back; a newline is not found
\* there, since shell_getc(1) does not return the backslash in front of one.
Backslash ==
    /\ character = "\\" /\ ~pass
    /\ LET g == shell_getc(source, FALSE)
       IN  g.c # "nl" /\ GotCharacter(shell_ungetc(g.s, g.c), TRUE)

\* parse_matched_pair() returns NULL, which is copied or expanded.  What `$' and
\* a quote do next depends on an uninitialised length and pointer: a crash, or
\* some quoted string.
Crash == pc' = "crashed" /\ UNCHANGED <<source, scanner, tokens>>

Quote ==
    /\ character = "'" /\ ~pass
    /\ Crash

\* (mutant) a lone dollar is tested again and not added to the word
Dollar_Again ==
    /\ character = "$" /\ ~pass
    /\ LET g == shell_getc(source, TRUE) IN
       \/ g.c \in {"(", "'"} /\ Crash
       \/ g.c \notin {"(", "'"} /\ source' = shell_ungetc(g.s, g.c)
              /\ Continue("word") /\ UNCHANGED scanner

Dollar ==
    /\ character = "$" /\ ~pass
    /\ LET g == shell_getc(source, TRUE) IN
       \/ g.c \in {"(", "'"} /\ Crash
       \/ g.c = "'" /\ NextCharacter(g.s, token \o <<"'", "'">>, FALSE)
       \/ g.c = "$" /\ NextCharacter(g.s, token \o <<"$", "$">>, FALSE)
       \/ g.c \notin {"(", "'", "$"} /\ GotCharacter(shell_ungetc(g.s, g.c), FALSE)

\* got_token
GotToken ==
    /\ character = EOF
    /\ Return(IF assignment(token) /\ assignment_acceptable(last_read_token)
              THEN "ASSIGNMENT_WORD" ELSE "WORD")
    /\ UNCHANGED <<source, scanner>>

Word ==
    /\ pc = "word"
    /\ Plain \/ Backslash \/ Quote \/ Dollar \/ GotToken
    /\ UNCHANGED <<text, state>>

\* yyparse(): the next token
Parse ==
    /\ pc = "token"
    /\ state' = Shifted(state, current_token)
    /\ pc' = IF state' = "accept" THEN "returned" ELSE "yylex"
    /\ UNCHANGED <<text, source, scanner, tokens>>

\* test_main(): while (1) parse(NULL)
ParseAgain ==
    /\ pc = "returned"
    /\ state' = "start" /\ pc' = "yylex"
    /\ UNCHANGED <<text, source, scanner, tokens>>

Next == Yylex \/ Blank \/ Comment \/ Meta \/ Word \/ Parse \/ ParseAgain

\* The program runs by itself; reading does not block once the text is there.
Fairness == WF_vars(Next)

Spec == Init /\ [][Next]_vars /\ Fairness

-----------------------------------------------------------------------------
(***************************************************************************)
(* Properties.                                                             *)
(***************************************************************************)

\* Every variable keeps its type, and the index stays within the line.
TypeOK ==
    /\ text \in Seq(Class)
    /\ source \in Source /\ source.index <= Len(source.line)
    /\ pc \in {"yylex", "blank", "comment", "meta", "word", "token", "returned", "crashed"}
    /\ character \in Class \cup {EOF, None}
    /\ pass \in BOOLEAN /\ casepat \in BOOLEAN /\ EOF_Reached \in BOOLEAN
    /\ token \in Seq(Class)
    /\ current_token \in Token /\ last_read_token \in Token
    /\ state \in {"start", "redirection", "command", "operand", "recover", "accept"}
    /\ start \in Nat

\* The text as shell_getc() delivers it.
Delivered(s) ==
    LET t == NonNul(s)
    IN  IF t = <<>> \/ Last(t) = "nl" THEN t ELSE Append(t, "nl")

\* "To avoid something being lost because it's pushed back" (parser.y:1933):
\* whatever was read ahead and pushed back, at the start of a line and behind a
\* quoted newline too, the characters handed out and those still to come are
\* the text, each once and in order.
NothingLost ==
    LET s == source
        ahead == IF s.lookahead \in Class THEN <<s.lookahead>> ELSE <<>>
    IN  s.taken \o ahead \o SubSeq(s.line, s.index + 1, Len(s.line)) \o Delivered(s.input)
            = Delivered(text)

\* A text without its quoted newlines.
Unfold == [x \in Seq(Class) \X Class |->
              IF x[2] = "nl" /\ x[1] # <<>> /\ Last(x[1]) = "\\"
              THEN Front(x[1]) ELSE Append(x[1], x[2])]

Unfolded(s) == Through(Unfold, s)

\* s is what token t is written as.
Spells(t, s) ==
    CASE t = "nl"               -> s # <<>> /\ Last(s) = "nl" /\ "nl" \notin ToSet(Front(s))
                                      /\ (Len(s) > 1 => s[1] = "#")
      [] t = "yacc_EOF"         -> s = <<>>
      [] t \in Words            -> s # <<>>
      [] t \in DOMAIN Operator  -> Unfolded(s) = Operator[t]
      [] OTHER                  -> Unfolded(s) = <<t>>

\* A token takes blanks, and then just the characters it is written with: a
\* comment its line and no more, an operator none of what follows it, although
\* read_token() reads up to two characters ahead.
TokenSpelled ==
    pc = "token" =>
        LET s == SubSeq(source.taken, start + 1, Len(source.taken)) IN
        \E i \in 0..Len(s) : /\ ToSet(Unfolded(SubSeq(s, 1, i))) \subseteq {" "}
                             /\ Spells(current_token, SubSeq(s, i + 1, Len(s)))

\* The scanner gets to the end of every text, unless it crashes.
ReachesEOF == <>(EOF_Reached \/ pc = "crashed")

\* A word that begins with a letter and has no metacharacter, quote or dollar.
PlainWord(s) == /\ s # <<>> /\ s[1] = "a"
                /\ ToSet(s) \cap (shellmeta \cup {"'", "$"}) = {}

\* s is a plain word, perhaps behind the operator of a redirection, and blanks.
OneCommand(s) ==
    \E i \in 0..Len(s), j \in 0..Len(s) :
        /\ i <= j
        /\ SubSeq(s, 1, i) \in {<<>>} \cup {Operator[t] : t \in Redirects}
        /\ ToSet(SubSeq(s, i + 1, j)) \subseteq {" "}
        /\ PlainWord(SubSeq(s, j + 1, Len(s)))

\* One command, with or without a newline at the end, is read and accepted: a
\* word like `a=' is an assignment at the start of a command, and behind the
\* operator of a redirection the WORD that the grammar wants there ("This is
\* context-dependent, so it cannot be handled in the grammar", parser.y:2508).
CommandRead ==
    OneCommand(text) \/ (text # <<>> /\ Last(text) = "nl" /\ OneCommand(Front(text)))
        => <>(pc = "returned" /\ state = "accept")

\* "All errors are checked for and handled as well as possible" (tansh.c:16):
\* yyparse() returns, whatever the text.  Does not hold: see README.
ParseReturns == <>(pc \in {"returned", "crashed"})
=============================================================================
