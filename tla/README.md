# A verification project for tansh

tansh is a small Unix shell in C: a hand-written scanner and a bison grammar
turn a line into a list of command expressions, and an executor forks a process
for each of them, plumbs pipes between them and waits for those it must. Under
`lib/` are the containers it is built on. This directory holds TLA+ models of
its parts, TLC configurations that check small instances of them, and TLAPS
proofs that hold for instances of any size. Paths and line numbers refer to the
repository (`src/`).

    tlc -config tansh_jobs.cfg MCTansh.tla       # one of the runs below
    tlapm TanshProofs.tla                        # all proofs of one module

## 1. The system

| component | source | state it keeps | operations | modules |
|---|---|---|---|---|
| Command executor | `shell/tansh.c`, flags in `shell/cmd.h` | the list of commands, the recursion of `do_command()` with `fd_in`, `fd_out`, `child_id`; `jmpbuf`, `jmpok`; the signal mask; children, descriptors | `do_tansh`, `do_command`, `sigchld_handler`, `sigint_handler`, the child between `fork` and `execvp` | `Tansh`, `JobControl`, `TanshProofs`, `TanshRefinement`, `MCTansh` |
| Hash table | `lib/hash.c`, `lib/hash.h` | `table`, `length`, `size` | create, insert (with expansion), value, exists, delete, destroy | `HashTable`, `Multimap`, `HashTableProofs`, `MCHashTable` |
| Linked list | `lib/list.c`, `lib/list.h` | nodes with `next`, `prev`, `key`; a sentinel; `size` | create, insert/unshift, push, delete, remove, shift, pop, foreach, destroy | `List`, `Deque`, `ListProofs`, `ListRefinement`, `MCList` |
| Expression lists and grammar | `shell/cmd.c`, `shell/cmd.h`, rules of `shell/parser.y` | `struct expr_t` linked over `next`, the semantic values of the parser, the static `command` | one reduction of the grammar each; `cmd_print`, `cmd_destroy` | `Expr`, `ExprProofs`, `MCExpr` |
| Scanner and parse driver | second half of `shell/parser.y` | the input line and its index, `eol_ungetc_lookahead`, the token buffer, the last tokens, the state of `yyparse()` | `shell_getc`, `shell_ungetc`, `discard_until`, `read_token`, `read_token_word`, `yylex`, `parse` | `Reader`, `ReaderProofs`, `MCReader` |
| Redirections | `shell/redirect.c` | file names of one command | constructor, destructor | - (their use is part of `Tansh`) |
| Binary tree | `lib/btree.c`, `lib/btree.h` | `root`, `size` and the sentinel of a tree; nodes with `parent`, `left`, `right` | create, insert left and right, remove, merge, destroy | `BTree`, `BTreeProofs`, `MCBTree` |
| Errors, jobs, history, aliases, symbol table, code generator, `lex.l`, `quit.h`, `chartypes.h` | `lib/error.c`, `shell/*` | none that lives on | messages, stubs, tables, macros | - |

How they interact. `parse()` calls `yyparse()`, which pulls tokens from
`yylex()` (calls only, one thread), and the semantic actions link expressions
with `cmd_append()`, `cmd_pipe()` and `cmd_mark_block()`. `do_tansh()` holds the
commands of a line in a list of `lib/list.c` and hands it to `do_command()`,
which shifts one command per call. From there on there are several actors: the
shell, its children between `fork()` and `execvp()`, the programs, the kernel
that delivers SIGCHLD and SIGINT at any instruction, and the user.

Two facts on the present state of the program shape the models:

  - `main()` returns right after `test_main()` (`tansh.c:121`), and the call of
    `parse()` inside `do_tansh()` is commented out (`tansh.c:209`). What runs
    today is `while (1) parse(NULL)`, which prints each line and destroys it;
    the executor is complete code, described by `DESIGN`, that nothing reaches.
    `Tansh` models the executor as it is written, with a line of any
    well-formed commands in the place of the commented call; `Expr` and
    `Reader` model the loop that runs.
  - The scanner does not deliver every token that the grammar expects. Reserved
    words are never recognised (`parser.y:2496`), a word ends only at the end of
    the input since the test of `shellbreak` is commented out
    (`parser.y:2414-2421`), and newlines are returned as a character that is no
    token. So `Expr` is modelled against the grammar's own tokens: it says what
    the semantic actions do with any sentence of the grammar. `Reader` has the
    grammar only as far as the tokens that do arrive can tell its states apart.

### What is hard here

The list of hazards, each at its line, is in `PROJECT.json`. In short: signals
between any two steps of the executor; SIGCHLD that does not queue; pipe ends
shared by three processes over two recursive calls; failures of `fork()` and
`pipe()` that are printed and then passed over; a second `waitpid()` long after
the first; a subtree that is freed and not unlinked; pointers rewritten in an order that only some sequences of calls
reveal; holes that deletions leave in a table probed linearly and grown without
rehashing; push-back over the start of a line; a static pointer that outlives
its list. For each the project has a property, or a note that says why not.

## 2. The modules

### Tansh - the executor

One sequential process with a program counter `pc`, one process per child, and
the user. A step of the shell ends where someone else can come in between:

| `pc` | code | action |
|---|---|---|
| `top` | `sigsetjmp()`, `list_create()`, SIGCHLD blocked (`do_tansh`) | `Prompt`, `PromptFails` |
| `parse` | the line is read, SIGCHLD unblocked | `ReadLine` |
| `call` | start of `do_command()`: shift a command, internal commands, `pipe()` | `CallDone`, `CallInternal`, `CallExternal`, `CallPipe`, `CallPipeFails` |
| `fork` | `fork()` | `Fork`, `ForkFails` |
| `close` | the parent closes `fd_in[0]`, if the command reads a pipe | `CloseIn`, `CloseNothing` |
| `close1` | the parent closes `fd_in[1]` | `CloseInWrite` |
| `block`, `wait` | SIGCHLD blocked, `waitpid(child_id, NULL, 0)`, unblocked, recursion | `Block`, `Wait` |
| `after` | `waitpid(child_id, NULL, WNOHANG)`, return | `After` |
| `exited` | `main()` has returned | |

`frames` is the recursion: the locals of each `do_command()`. `SigchldHandler`
and `Sigint` are the handlers; every shell step but `ReadLine` and `Wait` needs
`Ready`, since a pending signal that is not blocked runs its handler first (in
those two it is blocked). SIGCHLD is one bit, as a standard signal is. ^C jumps
to the prompt, drops the frames with the pipes they name, and restores the
saved mask; a child that has not yet become its program jumps too.
`ChildExec`, `ChildCrash`, `ChildExecFails` and `ChildReturns` are the four ways
the child part of `do_command()` ends. Programs and the user are external.

What is abstracted: the words of a command; descriptors are pipe ends, and
`fd_out` after a failed `pipe()` holds two numbers from the stack, each of an
open end or of nothing (the numbers 0 to 2 are not represented); `fork()` and
`pipe()` fail exactly when the slots run out, with `Pid` and `Pipe` arbitrary
sets; errors of `sigprocmask()`, `sigemptyset()` and of `fputs` are left out;
`cmd_do_internal()` does nothing a property could see. A child that goes on as
a shell of its own ("stray") is recorded, its further life is not followed.
`cmd_is_input_redir()` and its two siblings test bits 0 to 2 of `type`, which
are the bits of `CMD`, `CMD_SIMPLE` and `CMD_SHELL`; they are modelled as they
are, so a command built by the grammar, whose `redirects` is NULL, kills its
child at the first of them (the line `AsParsed` of the instance).

### JobControl - what the executor promises

`JobControl` says what a user relies on and nothing of how it is done: the
commands of a line start in their order, each once; after a foreground command
nothing happens until it has ended; jobs in the background run on; ^C drops the
rest of the line. `Tansh` implements it under the mapping at its end: a frame
that has forked (`Forked`) is a command the shell is still with (`Current`), the
commands after it are `Todo`, the children that live are the jobs (`Running`), and
`typed` is `ints`. There are two forms, `DoesJobs` for the case that the kernel
has pipes to give, and `DoesJobsWithoutPipes`: when a `pipe()` fails, the `close()`
of the next call fails as well, and that call gives up the line and does not wait
(`GiveUp`).

### List and Deque

`List` has the heap: `next`, `prev` and `key` of every address, which of them
are allocated, and who owns each key. `Delete` hands the node to the caller,
`RemoveNode`, `Shift` and `Pop` are `list_remove()` with its `destroy_node()`;
`Destroy`, `DestroyNode`, `DestroyEnd` are the loop of `list_destroy()`, one
turn a step, since each turn frees the node its loop stands on. The caller
keeps to the preconditions of the functions, and may free what it got. `Deque`
is what `lib/list.h` promises: a sequence of keys. `List` implements it
(`IsDeque`), with the keys along `next` as the mapping.

### HashTable and Multimap

`HashTable` has the slots and the probes: `(hash_code(key) + i) % length` with
the sum taken modulo the unsigned ints. An expansion copies slots where they
are, as `hash_expand()` does. `Multimap` is the promised container, in which an
element may be present more than once, as `hash_insert()` does not look for the
key; `HashTable` implements it (`IsMultimap`). `lost` records keys taken out
without `kdestroy()`.

### BTree

The pointers of any number of trees and nodes, with a client that may call every
function at any time, on trees it has a pointer to and on nodes of these trees.
Three things in the code can turn out badly and are modelled as they are: the
sentinel's key is not set, so it is a choice at `Create` whether it is NULL; a
removed subtree stays linked, its address being `Dangling`; merged trees are left
with NULL for a root, and their nodes belong to a tree the client never gets a
pointer to. To follow such a pointer makes `status` "undefined", and the behaviour
ends. What the recursion of `btree_remove()` meets is `Below`, a least closed set:
this is one step, since nothing else runs meanwhile.

### Expr

One action per reduction with everything its code calls. The stack holds the
semantic values; the operators `cmd_append`, `cmd_pipe`, `cmd_mark_block`, ...
are functions from heap to heap, with the names of `cmd.c`. Terminals are not
kept: a reduction may happen when the values on top have the symbols of its
right-hand side and precedence admits it (which some input makes happen).
`Destroy` is the end of `parse()`; of `cmd_print()`, which comes before it, `Scopes`
has the scope at each turn of the recursion. `cut` is history: whether a reduction
of this line gave up a list. Not modelled: `!`, `time`, `select`, `case`,
arithmetic and conditional commands, whose actions are stubs, and the fields of
redirections.

### Reader

`shell_getc` and `shell_ungetc` are operators on the source of characters; an
action is one turn of `read_token()` or `read_token_word()`. A character stands
for a class (all letters are `a`). Behind a quote or `$(` the code reads an
uninitialised length and a pointer that is NULL; the model ends there in
`crashed`, and every property about what follows is stated for the texts that
do not get there. `taken` and `start` are history, for the properties only. What is done to a text
character by character (dropping NULs, the lookahead of a newline) is a recursive
function over its length (`Through`), about which something can be proved.

## 3. What TLC checks

| run | instance | properties |
|---|---|---|
| `tansh_jobs` | 2 processes, 4 pipes, lines `a`, `a` as parsed, `a &`, internal then external, `a \| b`, typed while up to 2 earlier programs run | `TypeOK`; `ForegroundDone`: no foreground command is left at the prompt; `PromptReturns` (liveness); `DoesJobs` (refinement): the promises of `JobControl`, behind a failed `fork()` too |
| `tansh_pipeline` | 3 processes, 6 pipes, `a \| b \| c` and `a \| b &`, 2 items through pipes that hold 1 | `PipeHandedOver`, `NoForeignHolders`: a program keeps no end but its own input and output; `NoSecondShell`; `ProgramsEnd` (liveness) |
| `tansh_interrupt` | 2 processes, 2 pipes, one ^C at any step, `list_create()` and `pipe()` fail | `SigchldWindow`: SIGCHLD is blocked in the two windows and nowhere else; `PipesClosed`: what ^C makes the shell forget is bounded by the ends in use; `OneLeftBehind`: each ^C leaves at most one foreground command behind; `DoesJobsWithoutPipes` (refinement) |
| `hash_map` | 2 keys of one hash code, 2 values, 3 slots that grow to 5 | `TypeOK`, `SizeCounts`, `OpenSlotReached`, `StoredFound`, `IsMultimap` (refinement) |
| `list_ops` | 3 nodes, 3 keys | `TypeOK`, `Linked`, `OneRing`, `NoUseAfterFree`, `KeysOwned`, `IsDeque` (refinement) |
| `expr_lists` | 4 expressions, 2 compound commands | `TypeOK`, `OneOwner`, `PipesPaired`, `BlocksBracketed`; `KeepsAll`: a line without `;` `&` `&&` `\|\|` and pipes behind compound commands keeps every command; `ScopesNest`: printing closes no scope it did not open |
| `btree` | 3 trees, 4 nodes | `TypeOK`; `SizeCounts`, `Shaped`: a node is at one place; `NoneLeft`: destruction leaves no node; `Safe`: no bad pointer is followed without a removal, a merge or an unlucky sentinel |
| `reader` | every text of up to 3 characters of 17 classes; texts of up to 5 of the classes that read ahead, and of those that make assignments and redirections | `TypeOK`, `NothingLost`, `TokenSpelled`, `ReachesEOF`, `CommandRead`: one command, also one behind the operator of a redirection, is accepted (the last two liveness) |

Four runs show where the program is not what its comments say; TLC prints the
behaviour (section 5): `tansh_zombies`, `hash_leak`, `expr_stale`,
`reader_hangs`.

The bounds, and why they are enough:

  - *Processes and pipes.* Two processes let a foreground command overlap a
    background one and make the third `fork()` fail; three are the shortest
    pipeline with a middle. A pipeline of n commands needs no more than two
    pipes at a time in the shell; six pipes let a whole line overlap with one
    that still runs, two make `pipe()` fail. A ^C in `a | b` makes the
    shell forget the two ends of one pipe, which is the bound of `PipesClosed` there
    (`EndsInUse`), and there is another pipe that a later line could leave open.
    `PipeCap = 1` with `Items = 2` makes a writer block, which is what could
    deadlock.
  - *`MaxLeft`* limits the programs that may still run when a line is typed; 2
    is all of `Pid` in `tansh_jobs`. `tansh_pipeline` has `MaxLeft = 0`: a line
    there is typed when the last one's programs have ended, though their zombies
    and the handler may still be to come. `MaxInterrupts = 1`: ^C at every step
    once; the theorems `SigchldWindowHolds` and `PipesAreClosed` cover any number.
  - *List.* Three nodes have a first, a middle and a last; with three keys every
    node can have one and a freed address is used again.
  - *Hash table.* Keys of one code collide always; three slots fill to the load
    factor, the table expands once, and holes occur before and behind the key.
    `UINT = 64` keeps the sums from wrapping (section 5).
  - *Expressions.* Four expressions in two compounds have an `if` with `elif` or
    `else`, or a loop around a pipeline. Addresses are interchangeable
    (symmetry), and the fields of expressions to which no pointer leads are left
    out of the view, which the safety invariants of that run do not read.
    The invariants were seen to hold with three compounds too (2.4 million states).
  - *Trees.* Two trees can be merged into a third; four nodes have a root with two
    subtrees, one of them with a node below, and a freed address is used again.
    Trees and nodes are interchangeable (symmetry).
  - *Texts.* `read_token()` reads at most two characters ahead, so a token, its
    read-ahead and a line's end fit in five characters; so do an operator of two
    characters, an assignment and a newline.

Fairness. The scheduler runs every process that can run: weak fairness of the
shell's own steps as one process, of each child before its `exec`, and of each
thing a running program does (reading, writing or dying of SIGPIPE, ending when
its input has ended). The user is under no fairness (`ReadLine`, `Sigint`), nor
is a program's early end (`ProgQuit`). Weak fairness is enough, since a process
that can go on stays able to until it does. `Reader` has weak fairness of its
single process: the text is there, so reading does not block. `Expr`, `List`
and `HashTable` are called and have no liveness of their own.

Deadlock is looked for in `tansh_jobs`, `tansh_pipeline`, `tansh_zombies`,
`list_ops`, `hash_map` and `hash_leak`. The shell may exit in `tansh_interrupt`
(`list_create()` fails), a crash ends `Reader` and `Expr`, an undefined step `BTree`, and `Expr` has no step
left when all addresses are taken by expressions that are never freed.

## 4. What is proved

Every invariant and every refinement that a passing run checks is also stated by a
theorem, for every value of the constants that meets the assumptions of the module
that declares them: process and pipe names that do not clash, lines made of
well-formed commands (`WellFormed`: pipe flags come in pairs, internal commands are
outside of pipelines, as DESIGN section 5 has it; `PipesPaired` of `Expr` is the
matching fact of the parser), a finite set of addresses for the list, the
expressions and the trees, NULL being none of them, and any set of texts over the
character classes. Six of the theorems of the executor assume `PipesSuffice` in
addition, and three of the hash table `NoWrap`; what these mean is said below.

**TanshProofs.** `TypeCorrect` (with the frame that must be there wherever
`do_command()` reads one), `SigchldWindowHolds` and `OneIsLeftBehind` need no assumption.
`PipesHandedOver`, `OnlyOwnEnds`, `NoGrandchildren` and
`ForegroundReaped` are proved for the behaviours in which the kernel is never
out of pipes (`PipesSuffice`, which holds in the instance `tansh_pipeline`): when
`pipe()` fails the call goes on with an uninitialised `fd_out`, closes fail, and
`do_command()` leaves without waiting. The inductive invariant is

  - `TypeInv`: types, and which frames exist at which `pc`;
  - `LineInv`: what is left of the line continues the command in the innermost
    frame, so a reader of a pipe follows a writer, and the list is empty when
    calls return;
  - `PipeInv`: before a ^C the shell holds exactly the ends of the one or two pipes
    between the innermost call and its neighbours;
  - `ChildInv`: a child between `fork()` and `execvp()` holds the ends its copied
    frame names and no others, and no child went astray;
  - `ForegroundInv`: the only child that has yet to be waited for is that of the
    innermost call.

`PipesAreClosed` is `PipesClosed` for any lines and any number of ^C, from an invariant
of its own, `LostInv`: of the ends that the shell holds and no frame will close, there
are at most `EndsInUse` for each ^C, which is what a ^C adds to them, and nothing else
does (`FromLines` says that the commands a call meets are those of a line). It needs
`PipesSuffice` too, and not for the proof's sake: see the second observation in section 5.
Between the two `close()` calls the read end is closed and the write end is not
(`HalfClosed` in `TypeInv`).

`OneIsLeftBehind` is the form of `ForegroundReaped` that survives failing pipes and any
number of ^C. Its invariant `LeftInv` counts the foreground commands other than the
one the shell is with (`Behind`), and says that the innermost frame names the child of
its command. It cannot count commands that read a pipe: when `pipe()` fails they are
given up and not waited for.

The properties by themselves are not inductive: that a program keeps no foreign
end follows only from what its child held before `execvp()`, and that from what
the shell held when it forked.

**TanshRefinement.** The two refinements, for any lines, pids, pipes and number of
^C: `ImplementsJobs` (`DoesJobsWithoutPipes`, no assumption) and `ImplementsSureJobs`
(`DoesJobs`, provided pipes suffice). The invariant is `MapInv`: types, that the
command about to be forked has no child yet and is no internal one (`ForkInv`), and
that `jmpbuf` is set once the first prompt was there (`JumpInv`). Each action of `Tansh` is shown to be one of
`JobControl` or a stutter; the steps of pipes, signals and masks are stutters. For
`DoesJobs` the invariant of TanshProofs shows in addition that a `close()` never fails.

**HashTableProofs.** `TableInv` is the type invariant with the length kept
between its bounds and `SizeCounts`. From it: `TypeCorrect`, `SizeCorrect`, and,
provided that no sum of a hash code and a probe exceeds the unsigned ints
(`NoWrap`), `OpenSlot` and `StoredIsFound`: the probes are then a rotation of the
table, so each slot is reached whatever holes there are. `ImplementsMultimap` is the
refinement, also under `NoWrap`: the bag of pairs of the abstract container is
the number of slots that hold a pair, and one lemma each says what writing a slot,
clearing it and expanding do to that number.

**ListProofs.** That pointers form one ring is usually said with a recursive
path. Here `Ring(f, n)` says it with an enumeration `f` from sentinel to
sentinel, `Rest(f, n)` does for what `list_destroy()` has left. Each operation
has a lemma that gives the enumeration after it: `RingGrows` between the k-th
and the next node, `RingShrinks` without the k-th, `RingKept` when the list is
not touched. `ListInv` adds the count and the owners of keys. It implies
`LinksRight`, `FreesOnce`, `KeysHaveOwners` and `TypeCorrect`; `RingAlways` states
the enumeration itself.

**ListRefinement.** `RingIsOne` (`OneRing`) and `ImplementsDeque` (`IsDeque`). Both
properties walk along `next` with a recursive function, as TLC has to; the lemmas
show that this walk yields the enumeration of `Ring`, and each operation
then maps to one of `Deque` by the enumeration that follows it. The induction on the
length of the walk is the principle of the least counterexample, for sets of numbers
(`UpTo`), since the library's theorems on induction take a predicate.

**BTreeProofs.** The invariant `TreeInv` says of each tree that its pointers lead to
its own nodes (`Home`), that all its nodes are reached from the root (`Hung`), that
it counts them, and that it has a bad pointer only once it is torn (`Intact`).
`Hung` would be an induction along a path; with `Below` as a least closed set it is
enough to name one closed set per operation, which the lemma `Along` does once for
all. It implies `TypeCorrect`, `SizeCorrect`, `NothingLeft` and `SafeUse`.

`ShapeCorrect` (`Shaped`) adds that a node is at one place, also through merges.

**ExprProofs.** The invariant `ExprInv` has four parts. `TypeOK`. `ListsInv`: the chain
of each semantic value on the stack is an enumeration without repetition (`IsList`), of live
expressions, shared with no other value, and its sequence of flags is well made:
pipes in pairs, blocks in brackets, scopes never below zero. `KeptInv`: as long as
nothing was cut, each expression that was made is in one of these chains. `EndInv`: what
holds when a line has been delivered. It implies `TypesKept`, `ListsSeparate`
(`OneOwner`), `PipesPairUp`, `BlocksBracket`, `NothingDropped` (`KeepsAll`) and
`ScopesBalance` (`ScopesNest`). The properties are not inductive: the invariant
adds that the first command of a list bears no mark of a block yet (`Marked`), and that
`elif` begins only the value of an `elif_clause`, without which a mark set later, or
a list put behind another, could break the brackets. With that, one lemma per operator of
`cmd.c` (append, pipe, mark block) is enough for all reductions.

**ReaderProofs.** The invariant `ReaderInv` is `TypeOK`; `SourceInv`: only an end of
input is ever pushed back in front of a line; that what was taken followed by
what is still to come (`Whole`) is the text as the shell delivers it
(`Delivered`: without NULs, and with a newline at its end); and what was
taken since the token began, for each `pc`: blanks, a remark, an operator as `Written`, a word
as far as it is `Named`. It implies `TypesKept`, `TextKept` (`NothingLost`) and
`TokensSpelled` (`TokenSpelled`), for texts of any length. The facts the actions use are
`GetcGets`, that `shell_getc()` moves one character from what is to come to what
is taken, and `UngetcPuts`, that `shell_ungetc()` moves it back.

**Not proved.** The four properties of liveness (`PromptReturns`, `ProgramsEnd`,
`ReachesEOF`, `CommandRead`): the prover has neither fairness nor ENABLED. They are
checked on the instances of section 3 only. Without `PipesSuffice` the executor has
`TypeCorrect`, `SigchldWindowHolds`, `OneIsLeftBehind` and `ImplementsJobs` as theorems.

## 5. Where the code differs from what it says

  - `tansh_zombies`: `sigchld_handler()` reaps one child per signal. Two that die
    before it runs are announced once, and the shell comes to wait for input with one
    of them a zombie and no SIGCHLD left to come for it. "This will prevent zombie
    processes from persisting" (`tansh.c:92`). A child that dies at the prompt, with its
    SIGCHLD pending, does not count; a handler that loops over `waitpid()` has the
    property.
  - `hash_leak`: HASH_DELETE tests `table[i].key`, `i` being the number of the
    probe, and clears `table[position]`; when slot `i` is empty the key is dropped
    without `kdestroy()` (`hash.c:232`).
  - `expr_stale`: `command` is not reset; an empty line, a syntax error and the end
    of the input make `parse()` print and free the list of the line before again
    (`parser.y:1258`).
  - `reader_hangs`: recovery waits for a token NEWLINE that the scanner never
    returns, and `yyparse()` does not return (`parser.y:140`).


Observed while modelling, without a run of their own:

  - ^C between `fork()` and `execvp()` makes the child jump to the prompt as well, so
    that two shells read there, against DESIGN:89-92. `NoSecondShell` says that nothing
    else does, as long as pipes suffice.
  - When `pipe()` fails, `fd_out` keeps two numbers from the stack, and the next call
    closes these. In `a | b | c | d` with one pipe, the `pipe()` of `b` fails and that of
    `c` succeeds, the first pipe being gone by then; `c` then fails to close what it was
    handed, and returns with its own pipe open (`tansh.c:406`). It takes a command that
    both reads and writes a pipe, so that the lines of `tansh_interrupt` keep
    `PipesClosed` although `pipe()` fails there.
  - `hash_code(key) + i` is an unsigned sum. Where it wraps around, the probes begin again
    at slot 0, and unless the length divides 2^32 they may not reach every slot:
    `hash_insert()` fails though a position is open, "one is guaranteed to exist"
    (`hash.c:140`). In a table of 200 slots and with the code 2^32 - 96 the probes meet
    104 slots. `NoWrap` excludes it.
  - The key of a tree's sentinel, which `btree_is_nil()` looks at, is not set
    (`btree.c:38`); if it happens not to be NULL, nothing can be inserted below a node and
    destroying the tree follows the sentinel's NULL pointers. What `btree_remove()` frees
    stays linked (`btree.c:179`), and a later removal or destruction follows the pointer.
    `btree_merge()` returns 0 in place of the merged tree (`btree.c:228`).
  - A failed `fork()` makes both `waitpid()` calls wait for any child, `child_id` being -1.
  - A redirection of a simple command is lost, as `cmd->redirects` is NULL and
    `list_push(NULL, ...)` returns -1.
  - The rules for `;`, `&`, `&&` and `||` have no code, so the value is that of the left
    side and the right is lost (`parser.y:1156`), although DESIGN:49 promises a list of all
    commands (`KeepsAll` says that nothing else is lost).
  - `cmd_print()` counts scopes down more often than up when a function is the first
    command of a block, and writes two characters more than the array it sized before
    counting up has (`cmd.c:137`).
  - A metacharacter does not end a word, which the code marks as an issue to fix
    (`parser.y:2414-2421`); no property says what such a text is read as.

## 6. Not modelled, and why

The text that `cmd_print` and the error functions write, `cmd_to_char`: layout, no
state. `parse()` of a file, which `test_main()` calls when it is given an argument
(`tansh.c:54-61`): the scanner is the same, but `interactive` is 0 then, and no rule of
`inputunit` accepts, so that the call does not return at the file's end either.
Quoted strings and `$(...)`: undefined from the first character on. Alias, history
and extended-glob code of the scanner: not compiled. `lex.l`: not part of the build.
`job.c`, `history.c`, `symtab.c`, `gen_parrot.c`: stubs. The fields of redirections and
`redirect.c`: a record with a constructor and a destructor, which no simple command
ever keeps; 22 of the 29 rules that make one have no code.

There is no module that composes the parser with the executor, because the code
does not: the only call of `parse()` with a list is commented out (`tansh.c:209`), and
`parse()` has no parameter for one that it would fill. What the two would have to
agree on is stated on both sides: `PipesPaired` of `Expr` and `WellFormed` of `Tansh`.

## 7. Plan

Done so far: all modules of section 2, the theorems of section 4. Next, in this
order:

 1. Executor without `PipesSuffice`: how many ends the shell can be left with when
    `pipe()` fails, and what a child that goes astray then still holds.
 2. Hash table without `NoWrap`: what a lookup still finds when the probes wrap.
 3. Redirection lists in `Expr`: which expression keeps which list, and which are lost.
