------------------------------- MODULE Expr -------------------------------
(***************************************************************************)
(* The intermediate representation of a line: lists of struct expr_t, as   *)
(* shell/cmd.c links and marks them and as the semantic actions of the     *)
(* grammar in shell/parser.y put them together, from the first cmd_create()*)
(* of a line to the cmd_destroy() in parse().                              *)
(*                                                                         *)
(* The semantic values of the LALR parser are a stack of pointers into the *)
(* heap; an action below is one reduction, with every call its code makes. *)
(* The terminals between the values are not kept: a reduction may happen   *)
(* whenever the values on top of the stack have the symbols of its right   *)
(* hand side and the precedence rules allow it, which is the case on some  *)
(* input.  Words and redirections of an expression are not told apart.     *)
(* parse() runs interactively, over and over: while (1) parse(NULL).       *)
(***************************************************************************)
EXTENDS Integers, Sequences, SequencesExt, FiniteSetsExt

CONSTANTS
    Expr,       \* addresses malloc() can return for a struct expr_t
    Null,       \* the null pointer
    MaxCompounds \* BOUND: how many compound commands a line has

ASSUME ExprAssumption == Null \notin Expr /\ IsFiniteSet(Expr)
ASSUME CompoundsAssumption == MaxCompounds \in Nat

Flag == {"CMD", "CMD_SIMPLE", "CMD_SHELL", "CMD_FOR", "CMD_WHILE", "CMD_UNTIL",
         "CMD_IF", "CMD_ELSE", "CMD_ELSE_IF", "CMD_GROUP", "CMD_SUBSHELL",
         "CMD_START_BLOCK", "CMD_END_BLOCK", "CMD_FUNCTION", "CMD_END_FUNCTION",
         "PIPE_INPUT", "PIPE_OUTPUT"}

\* Every struct expr_t, by its address.
Heap == [type : [Expr -> SUBSET Flag], next : [Expr -> Expr \cup {Null}]]

(***************************************************************************)
(* Nonterminals, as far as precedence tells them apart.  A list of a block *)
(* may have newlines in it, the list of an input unit may not.             *)
(***************************************************************************)
Pipelines == {"command", "pipeline"}
AndOrs    == Pipelines \cup {"and_or"}
Lists     == AndOrs \cup {"simple_list1"}
Compounds == Lists \cup {"list1"}
Symbol    == Compounds \cup {"shell_command", "elif_clause"}

Value == [sym : Symbol, expr : Expr]

VARIABLES
    heap,       \* the fields of the expressions
    alive,      \* the addresses malloc() returned and free() did not get back
    stack,      \* the semantic values of the parser, top last
    command,    \* the static pointer `command' of parser.y
    phase,      \* whether yyparse() runs, took a line, returned
                \* without one, or the program crashed
    born,       \* (history) the expressions created since yyparse() was called
    cut,        \* (history) whether a reduction since then gave up a list
    compounds   \* (history) the compound commands reduced since then

line == <<born, cut, compounds>>
vars == <<heap, alive, stack, command, phase, line>>

\* Every variable keeps its type.
TypeOK ==
    /\ heap \in Heap
    /\ alive \subseteq Expr
    /\ stack \in Seq(Value)
    /\ command \in Expr \cup {Null}
    /\ phase \in {"yyparse", "accepted", "dropped", "crashed"}
    /\ born \subseteq Expr /\ cut \in BOOLEAN
    /\ compounds \in 0..MaxCompounds

Init ==
    /\ heap = [type |-> [e \in Expr |-> {}], next |-> [e \in Expr |-> Null]]
    /\ alive = {} /\ stack = <<>> /\ command = Null
    /\ phase = "yyparse" /\ born = {} /\ cut = FALSE /\ compounds = 0

-----------------------------------------------------------------------------
(***************************************************************************)
(* cmd.c: operators from a heap to a heap.                                 *)
(***************************************************************************)

\* The expressions reached from e over next, in order, each once.
Chain(h, e) ==
    LET path[n \in Nat] ==
            IF n = 0 THEN <<e>>
            ELSE LET before == path[n - 1]
                     after  == h.next[Last(before)]
                 IN  IF after = Null \/ Contains(before, after)
                     THEN before ELSE Append(before, after)
    IN  path[Cardinality(Expr)]

Nodes(h, e) == ToSet(Chain(h, e))

cmd_create(h, e) == [type |-> [h.type EXCEPT ![e] = {}], next |-> [h.next EXCEPT ![e] = Null]]

cmd_last(h, expr) == Last(Chain(h, expr))

\* (mutant) the mask is taken for the number of a bit: 1 << flags
cmd_set_type_bit(h, expr, flags) == [h EXCEPT !.type[expr] = @ \cup {"1 << flags"}]

cmd_set_type(h, expr, flags) == [h EXCEPT !.type[expr] = @ \cup flags]

\* (mutant) the lhs is taken for one expression
cmd_append_next(h, lhs, rhs) == [h EXCEPT !.next[lhs] = rhs]

cmd_append(h, lhs, rhs) == [h EXCEPT !.next[cmd_last(h, lhs)] = rhs]

\* (mutant) the rhs linked behind the last expression of the lhs
cmd_pipe_last(h, lhs, rhs) ==
    cmd_append(cmd_set_type(cmd_set_type(h, lhs, {"PIPE_OUTPUT"}), rhs, {"PIPE_INPUT"}), lhs, rhs)

cmd_pipe(h, lhs, rhs) ==
    [cmd_set_type(cmd_set_type(h, lhs, {"PIPE_OUTPUT"}), rhs, {"PIPE_INPUT"})
        EXCEPT !.next[lhs] = rhs]

\* (mutant) only the first statement of the macro is carried out
cmd_mark_block_start(h, expr) == cmd_set_type(h, expr, {"CMD_START_BLOCK"})

\* (mutant) start and end the other way round
cmd_mark_block_swapped(h, expr) ==
    cmd_set_type(cmd_set_type(h, cmd_last(h, expr), {"CMD_START_BLOCK"}), expr, {"CMD_END_BLOCK"})

cmd_mark_block(h, expr) ==
    cmd_set_type(cmd_set_type(h, expr, {"CMD_START_BLOCK"}), cmd_last(h, expr), {"CMD_END_BLOCK"})

cmd_mark_function(h, expr) ==
    cmd_set_type(cmd_set_type(h, expr, {"CMD_FUNCTION"}), cmd_last(h, expr), {"CMD_END_FUNCTION"})

-----------------------------------------------------------------------------
(***************************************************************************)
(* Reductions.                                                             *)
(***************************************************************************)

\* The n-th semantic value from the top, from 0.
Arg(n) == stack[Len(stack) - n]

\* The symbols on top of the stack are of these kinds, the top last.
TopAre(kinds) ==
    /\ phase = "yyparse"
    /\ Len(stack) >= Len(kinds)
    /\ \A i \in 1..Len(kinds) : Arg(Len(kinds) - i).sym \in kinds[i]

\* The n values on top become one, the leftmost, and the heap becomes h.
Replace(n, sym, h) ==
    /\ stack' = Append(SubSeq(stack, 1, Len(stack) - n), [sym |-> sym, expr |-> Arg(n - 1).expr])
    /\ heap' = h
    /\ UNCHANGED <<alive, command, phase, born>>

Reduce(n, sym, h) == Replace(n, sym, h) /\ UNCHANGED <<cut, compounds>>

ReduceCompound(n, sym, h) ==
    /\ compounds < MaxCompounds
    /\ Replace(n, sym, h)
    /\ compounds' = compounds + 1
    /\ UNCHANGED cut

\* A reduction that may drop expressions: the heap is what h says, and some
\* of what was reached before is not reached after it.
ReduceCutting(n, sym, h, drops) ==
    /\ Replace(n, sym, h)
    /\ cut' = (cut \/ drops)
    /\ UNCHANGED compounds

\* simple_command with all its elements, and command: simple_command
SimpleCommand ==
    /\ phase = "yyparse"
    /\ \E e \in Expr \ alive :
          /\ heap' = cmd_set_type(cmd_create(heap, e), e, {"CMD_SIMPLE", "CMD"})
          /\ alive' = alive \cup {e}
          /\ born' = born \cup {e}
          /\ stack' = Append(stack, [sym |-> "command", expr |-> e])
    /\ UNCHANGED <<command, phase, cut, compounds>>

\* command: shell_command, with or without redirections
ShellCommand ==
    /\ TopAre(<<{"shell_command"}>>)
    /\ Reduce(1, "command", cmd_set_type(heap, Arg(0).expr, {"CMD"}))

\* command: function_def, where the shell_command is the body of a function
FunctionDef ==
    /\ TopAre(<<{"shell_command"}>>)
    /\ Reduce(1, "command",
              cmd_set_type(cmd_mark_function(heap, Arg(0).expr), Arg(0).expr, {"CMD"}))

\* for_command, while_command and until_command; only for also sets CMD_SHELL.
Loop ==
    /\ TopAre(<<{"command"}, Compounds>>)
    /\ \E flags \in {{"CMD_FOR", "CMD_SHELL"}, {"CMD_WHILE"}, {"CMD_UNTIL"}} :
          ReduceCompound(2, "shell_command",
                 cmd_set_type(cmd_append(cmd_mark_block(heap, Arg(0).expr),
                                         Arg(1).expr, Arg(0).expr),
                              Arg(1).expr, flags))

\* subshell and group_command
Grouping ==
    /\ TopAre(<<Compounds>>)
    /\ \E flag \in {"CMD_SUBSHELL", "CMD_GROUP"} :
          ReduceCompound(1, "shell_command",
                 cmd_set_type(heap, Arg(0).expr, {flag, "CMD_SHELL"}))

\* (mutant) the block is appended twice
Branch_Twice(h, cond, body, flags) ==
    cmd_append(cmd_set_type(cmd_append(cmd_mark_block(h, body), cond, body), cond, flags), cond, body)

\* A condition and the block it guards.
Branch(h, cond, body, flags) ==
    cmd_set_type(cmd_append(cmd_mark_block(h, body), cond, body), cond, flags)

\* The block of an else behind the block before it.
Else(h, body, else) ==
    cmd_set_type(cmd_append(cmd_mark_block(h, else), body, else), else, {"CMD_ELSE"})

\* The three forms that if_command and elif_clause have.
Conditional(sym, flags) ==
    \/ /\ TopAre(<<Compounds, Compounds>>)
       /\ ReduceCompound(2, sym, Branch(heap, Arg(1).expr, Arg(0).expr, flags))
    \/ /\ TopAre(<<Compounds, Compounds, Compounds>>)
       /\ ReduceCompound(3, sym,
                 Else(Branch(heap, Arg(2).expr, Arg(1).expr, flags), Arg(1).expr, Arg(0).expr))
    \/ /\ TopAre(<<Compounds, Compounds, {"elif_clause"}>>)
       /\ ReduceCompound(3, sym,
                 cmd_append(Branch(heap, Arg(2).expr, Arg(1).expr, flags),
                            Arg(1).expr, Arg(0).expr))

If   == Conditional("shell_command", {"CMD_IF", "CMD_SHELL"})
Elif == Conditional("elif_clause", {"CMD_ELSE_IF"})

\* pipeline: pipeline PIPE newline_list pipeline; PIPE is right associative, so
\* the left pipeline is one command; of a compound command only the first
\* expression is kept.
Pipe ==
    /\ TopAre(<<{"command"}, Pipelines>>)
    /\ ReduceCutting(2, "pipeline", cmd_pipe(heap, Arg(1).expr, Arg(0).expr),
                     heap.next[Arg(1).expr] # Null)

\* list1 and simple_list1 with AND_AND or OR_OR: no code, so $$ is $1.
AndOr ==
    /\ TopAre(<<AndOrs, Pipelines>>)
    /\ ReduceCutting(2, "and_or", heap, TRUE)

\* list1 and simple_list1 with AMPERSAND or SEMICOLON: no code, so $$ is $1.
Semicolon ==
    /\ TopAre(<<Compounds, AndOrs>>)
    /\ ReduceCutting(2, IF Arg(1).sym = "list1" THEN "list1" ELSE "simple_list1", heap, TRUE)

\* list1: list1 NEWLINE newline_list list1
Newline ==
    /\ TopAre(<<Compounds, AndOrs>>)
    /\ Reduce(2, "list1", cmd_append(heap, Arg(1).expr, Arg(0).expr))

-----------------------------------------------------------------------------
(***************************************************************************)
(* The end of a line.                                                      *)
(***************************************************************************)

\* inputunit: simple_list simple_list_terminator
InputUnit ==
    /\ TopAre(<<Lists>>) /\ Len(stack) = 1
    /\ command' = Arg(0).expr
    /\ phase' = "accepted" /\ stack' = <<>>
    /\ UNCHANGED <<heap, alive, line>>

\* inputunit: NEWLINE, and inputunit: yacc_EOF
EmptyInput ==
    /\ phase = "yyparse" /\ stack = <<>>
    /\ phase' = "dropped"
    /\ UNCHANGED <<heap, alive, stack, command, line>>

\* inputunit: error NEWLINE, and a cmd_create() that fails: the values on the
\* stack are dropped, the expressions are not destroyed.
Abandon ==
    /\ phase = "yyparse" /\ stack # <<>>
    /\ phase' = "dropped" /\ stack' = <<>>
    /\ UNCHANGED <<heap, alive, command, line>>

\* What cmd_destroy() frees.
Released(h, e) == IF e = Null THEN {} ELSE Nodes(h, e)

\* cmd_print(): the scope that its recursion has after n expressions.  An
\* expression may begin, or end, several blocks, and counts once.
Scopes(h, e) ==
    LET One(i, flags) == IF h.type[Chain(h, e)[i]] \cap flags = {} THEN 0 ELSE 1
        scope[n \in 0..Len(Chain(h, e))] ==
            IF n = 0 THEN 0
            ELSE scope[n - 1] + One(n, {"CMD_START_BLOCK", "CMD_FUNCTION"})
                              - One(n, {"CMD_END_BLOCK", "CMD_END_FUNCTION"})
    IN  scope

\* parse(): cmd_print(command) and cmd_destroy(command), and parse() again.
Destroy ==
    /\ phase \in {"accepted", "dropped"}
    /\ IF Released(heap, command) \subseteq alive
       THEN /\ alive' = alive \ Released(heap, command)
            /\ heap' = [type |-> [e \in Expr |-> IF e \in alive' THEN heap.type[e] ELSE {}],
                        next |-> [e \in Expr |-> IF e \in alive' THEN heap.next[e] ELSE Null]]
            /\ phase' = "yyparse" /\ born' = {} /\ cut' = FALSE /\ compounds' = 0
       ELSE phase' = "crashed" /\ UNCHANGED <<heap, alive, line>>
    /\ UNCHANGED <<stack, command>>

Next ==
    \/ SimpleCommand \/ ShellCommand \/ FunctionDef \/ Loop \/ Grouping
    \/ If \/ Elif \/ Pipe \/ AndOr \/ Semicolon \/ Newline
    \/ InputUnit \/ EmptyInput \/ Abandon \/ Destroy

Spec == Init /\ [][Next]_vars

-----------------------------------------------------------------------------
(***************************************************************************)
(* Invariants.                                                             *)
(***************************************************************************)

Roots == {stack[i].expr : i \in DOMAIN stack}

\* The lists under construction are separate: each ends in a null pointer, is
\* made of live expressions only, and no two semantic values share one, so
\* that an append walks to an end and the final cmd_destroy() frees each
\* expression once.
OneOwner ==
    /\ \A i \in DOMAIN stack :
          /\ Nodes(heap, stack[i].expr) \subseteq alive
          /\ heap.next[cmd_last(heap, stack[i].expr)] = Null
    /\ \A i, j \in DOMAIN stack :
          i # j => Nodes(heap, stack[i].expr) \cap Nodes(heap, stack[j].expr) = {}

\* The list handed to the executor.
Finished == IF phase = "accepted" THEN {command} ELSE {}

\* In every list, the one handed to the executor included, a command reads a
\* pipe exactly when the command before it writes one: what do_command() in
\* tansh.c assumes when it hands fd_out on as fd_in.
PipesPaired ==
    \A r \in Roots \cup Finished :
        LET c == Chain(heap, r) IN
        \A i \in 1..Len(c) :
            /\ "PIPE_INPUT" \in heap.type[c[i]] =>
                  i > 1 /\ "PIPE_OUTPUT" \in heap.type[c[i - 1]]
            /\ "PIPE_OUTPUT" \in heap.type[c[i]] =>
                  i < Len(c) /\ "PIPE_INPUT" \in heap.type[c[i + 1]]

\* Blocks are bracketed through all nesting and piping: every start of a block
\* has an end at or behind it, every end a start at or before it, and an else
\* comes directly behind the end of the block it is the alternative of.
BlocksBracketed ==
    \A r \in Roots \cup Finished :
        LET c == Chain(heap, r)
            Has(flag) == {i \in 1..Len(c) : flag \in heap.type[c[i]]}
        IN  /\ \A i \in Has("CMD_START_BLOCK") : \E j \in Has("CMD_END_BLOCK") : j >= i
            /\ \A i \in Has("CMD_END_BLOCK") : \E j \in Has("CMD_START_BLOCK") : j <= i
            /\ \A i \in Has("CMD_ELSE") \cup (Has("CMD_ELSE_IF") \ {1}) :
                  i - 1 \in Has("CMD_END_BLOCK")

\* "In case of pipes or semi-colons, we are breaking up each individual command
\* and storing it individually in our main list" (DESIGN:49).  The rules for
\* ; & && and || have no code, and cmd_pipe() gives up what follows its left
\* side: in a line without these every command gets into the list that parse()
\* is given, whatever compound commands it is in.
KeepsAll ==
    phase = "accepted" /\ ~cut => born = Nodes(heap, command)

\* In a line that defines no function, cmd_print() closes no scope that it did
\* not open: its recursion sizes an array by the number of open ones.
ScopesNest ==
    \A r \in Roots \cup Finished :
        (\A e \in Nodes(heap, r) : "CMD_FUNCTION" \notin heap.type[e])
            => \A n \in 0..Len(Chain(heap, r)) : Scopes(heap, r)[n] >= 0

\* cmd_destroy() and cmd_print() are never given an expression that was freed
\* ("may be used again", cmd.c:47).  Does not hold: see README.
DestroyedOnce == phase # "crashed"
=============================================================================
