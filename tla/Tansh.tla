------------------------------- MODULE Tansh -------------------------------
(***************************************************************************)
(* The read-execute loop of the shell: do_tansh() and the recursive        *)
(* do_command() of shell/tansh.c, the processes they fork, the pipes       *)
(* between them, and the two signal handlers.                              *)
(*                                                                         *)
(* The shell is one sequential process with a program counter pc; each     *)
(* child is a process of its own, and so is the user, who types lines and  *)
(* ^C.  A shell step ends where another process, or a signal, can come in  *)
(* between: around fork(), close(), sigprocmask() and waitpid().  SIGCHLD  *)
(* is a standard signal: it is pending or it is not, so the deaths of two  *)
(* children before the handler runs are announced once.                    *)
(*                                                                         *)
(* The programs that the children exec, the kernel's process and pipe      *)
(* tables and the user are external: they are modelled by what the shell   *)
(* can see of them.                                                        *)
(***************************************************************************)
EXTENDS Integers, Sequences, FiniteSets

CONSTANTS
    Pid,            \* process slots the kernel gives to children of the shell
    Pipe,           \* pipes the kernel can have open at once
    Shell,          \* the shell process
    NoChild,        \* the -1 of a fork() that failed
    Lines,          \* the command lists a typed line can stand for
    PipeCap,        \* items a pipe holds before a writer blocks
    Items,          \* items a program writes before it ends
    MaxLeft,        \* BOUND: how many earlier programs may still run when a line is typed
    MaxInterrupts,  \* BOUND: how often the user types ^C
    MallocFails     \* whether list_create() can fail at the prompt

(***************************************************************************)
(* struct expr_t, as far as do_command() looks at it: the bits of `type'   *)
(* it tests and whether `redirects' is NULL.  The words to execute are not *)
(* told apart.                                                             *)
(***************************************************************************)
Flag == {"CMD", "CMD_SIMPLE", "CMD_SHELL", "INTERNAL", "BACKGROUND",
         "PIPE_INPUT", "PIPE_OUTPUT"}

Command == [type : SUBSET Flag, redirects : {"NULL", "list"}]

cmd_is_internal(cmd)    == "INTERNAL"    \in cmd.type
cmd_is_background(cmd)  == "BACKGROUND"  \in cmd.type
cmd_is_input_pipe(cmd)  == "PIPE_INPUT"  \in cmd.type
cmd_is_output_pipe(cmd) == "PIPE_OUTPUT" \in cmd.type

\* The macros test bits 0, 1 and 2 of `type', which are the CMD bits.
cmd_is_input_redir(cmd)  == "CMD" \in cmd.type
cmd_is_output_redir(cmd) == "CMD_SIMPLE" \in cmd.type
cmd_is_concat_redir(cmd) == "CMD_SHELL" \in cmd.type

\* The filename macros peek the list of redirections without a NULL check.
Crashes(cmd) ==
    /\ cmd.redirects = "NULL"
    /\ \/ cmd_is_input_redir(cmd)
       \/ cmd_is_output_redir(cmd)
       \/ cmd_is_concat_redir(cmd)

\* A pipe flag never stands alone: a command reads a pipe exactly when the
\* command before it writes one, and the last command of a line writes none.
\* Internal commands are not part of pipelines (DESIGN, 5).
WellFormed(line) ==
    \A i \in 1..Len(line) :
        /\ cmd_is_input_pipe(line[i]) <=> i > 1 /\ cmd_is_output_pipe(line[i - 1])
        /\ cmd_is_output_pipe(line[i]) => i < Len(line)
        /\ cmd_is_internal(line[i]) =>
              ~cmd_is_input_pipe(line[i]) /\ ~cmd_is_output_pipe(line[i])

ASSUME ProcAssumption  == Shell \notin Pid /\ NoChild \notin Pid
ASSUME PipeAssumption  == "tty" \notin Pipe /\ "file" \notin Pipe /\ "none" \notin Pipe
ASSUME LinesAssumption == Lines \subseteq Seq(Command) /\ \A line \in Lines : WellFormed(line)
ASSUME BoundAssumption == /\ PipeCap \in Nat \ {0}
                          /\ Items \in Nat
                          /\ MaxLeft \in Nat
                          /\ MaxInterrupts \in Nat
                          /\ MallocFails \in BOOLEAN

(***************************************************************************)
(* Open files.  An end of a pipe is the pipe and a direction; Bad stands   *)
(* for every number that is not an open descriptor.                        *)
(***************************************************************************)
Proc == Pid \cup {Shell}
End  == Pipe \X {"r", "w"}
Tty  == <<"tty", "rw">>
File == <<"file", "rw">>
Bad  == <<"none", "rw">>
Descriptor == End \cup {Tty, File, Bad}

ReadEnd(q)  == <<q, "r">>
WriteEnd(q) == <<q, "w">>

\* int fd[2]
Pair   == [r : End \cup {Bad}, w : End \cup {Bad}]
NoPair == [r |-> Bad, w |-> Bad]

\* The locals of one do_command() that outlive a step.
Frame   == [cmd : Command, in : Pair, out : Pair, child : Pid \cup {NoChild}]
NoFrame == [cmd |-> [type |-> {}, redirects |-> "NULL"],
            in |-> NoPair, out |-> NoPair, child |-> NoChild]

VARIABLES
    pc,         \* where the shell is
    cmdList,    \* cmd_list: the commands of the line not yet shifted
    fdIn,       \* the fd_in argument of the call about to start
    frames,     \* the do_command() frames, innermost last
    jmpok,      \* whether jmpbuf is set
    savedMask,  \* whether the mask saved in jmpbuf blocks SIGCHLD
    masked,     \* whether the shell blocks SIGCHLD
    sigchld,    \* whether a SIGCHLD is pending for the shell
    ints,       \* how often ^C was typed
    status,     \* of each process slot
    image,      \* the frame each child copied when it was forked
    held,       \* the pipe ends each process has open
    stdin,      \* what descriptor 0 of each child is
    stdout,     \* what descriptor 1 of each child is
    work,       \* how many items each program has still to write
    buf         \* how many items each pipe holds

control == <<pc, cmdList, fdIn, frames>>
signals == <<jmpok, savedMask, masked, sigchld, ints>>
procs   == <<status, image, stdin, stdout, work>>
vars    == <<control, signals, procs, held, buf>>

PC     == {"top", "parse", "call", "fork", "close", "close1", "block", "wait", "after",
           "exited"}
Status == {"free", "setup", "run", "zombie", "stray"}

\* Every variable keeps its type.
TypeOK ==
    /\ pc \in PC
    /\ cmdList \in Seq(Command)
    /\ fdIn \in Pair
    /\ frames \in Seq(Frame)
    /\ jmpok \in BOOLEAN /\ savedMask \in BOOLEAN
    /\ masked \in BOOLEAN /\ sigchld \in BOOLEAN
    /\ ints \in 0..MaxInterrupts
    /\ status \in [Pid -> Status]
    /\ image \in [Pid -> Frame]
    /\ held \in [Proc -> SUBSET End]
    /\ stdin \in [Pid -> Descriptor]
    /\ stdout \in [Pid -> Descriptor]
    /\ work \in [Pid -> 0..Items]
    /\ buf \in [Pipe -> 0..PipeCap]

Init ==
    /\ pc = "top" /\ cmdList = <<>> /\ fdIn = NoPair /\ frames = <<>>
    /\ jmpok = FALSE /\ savedMask = FALSE
    /\ masked = FALSE /\ sigchld = FALSE /\ ints = 0
    /\ status = [p \in Pid |-> "free"]
    /\ image = [p \in Pid |-> NoFrame]
    /\ held = [p \in Proc |-> {}]
    /\ stdin = [p \in Pid |-> Bad] /\ stdout = [p \in Pid |-> Bad]
    /\ work = [p \in Pid |-> 0]
    /\ buf = [q \in Pipe |-> 0]

-----------------------------------------------------------------------------
(***************************************************************************)
(* What several steps have in common.                                      *)
(***************************************************************************)
Top(s) == s[Len(s)]
Pop(s) == SubSeq(s, 1, Len(s) - 1)

Zombies  == {p \in Pid : status[p] = "zombie"}
Children == {p \in Pid : status[p] # "free"}

\* The processes that keep an end open, as a number of their own or as
\* descriptor 0 or 1.
Holders(d) == {p \in Proc : d \in held[p]}
                  \cup {p \in Pid : d = stdin[p] \/ d = stdout[p]}

FreePipes == {q \in Pipe : Holders(ReadEnd(q)) = {} /\ Holders(WriteEnd(q)) = {}}

\* A pending SIGCHLD that is not blocked runs its handler first.
Ready == pc # "exited" /\ ~(sigchld /\ ~masked)

\* (mutant) do_tansh() left its loop after one line.
Returned_NoLoop(stack) == IF stack = <<>> THEN "returned" ELSE "after"

\* Where the caller of a do_command() goes on when it returns.
Returned(stack) == IF stack = <<>> THEN "top" ELSE "after"

\* exec and death discard the copied frame; the command is remembered.
Spent(f) == [NoFrame EXCEPT !.cmd = f.cmd]

\* The processes P end: they close everything, and the shell is told.
Die(P) ==
    /\ status' = [p \in Pid |-> IF p \in P THEN "zombie" ELSE status[p]]
    /\ held'   = [p \in Proc |-> IF p \in P THEN {} ELSE held[p]]
    /\ stdin'  = [p \in Pid |-> IF p \in P THEN Bad ELSE stdin[p]]
    /\ stdout' = [p \in Pid |-> IF p \in P THEN Bad ELSE stdout[p]]
    /\ work'   = [p \in Pid |-> IF p \in P THEN 0 ELSE work[p]]
    /\ image'  = [p \in Pid |-> IF p \in P THEN Spent(image[p]) ELSE image[p]]
    /\ sigchld' = (sigchld \/ P # {})

\* waitpid() released the zombies P.
Reap(P) ==
    /\ status' = [p \in Pid |-> IF p \in P THEN "free" ELSE status[p]]
    /\ image'  = [p \in Pid |-> IF p \in P THEN NoFrame ELSE image[p]]
    /\ UNCHANGED <<stdin, stdout, work>>

\* waitpid(child, NULL, WNOHANG), where a child of -1 is any child.
PollChild(child) ==
    LET dead == IF child = NoChild THEN Zombies ELSE Zombies \cap {child}
    IN  IF dead = {} THEN UNCHANGED procs ELSE \E z \in dead : Reap({z})

-----------------------------------------------------------------------------
(***************************************************************************)
(* do_tansh(): one turn of the loop around parse() and do_command().       *)
(***************************************************************************)

\* (mutant) SIGCHLD is blocked before sigsetjmp() saves the mask.
Prompt_LateJump ==
    /\ pc = "top" /\ Ready
    /\ pc' = "parse"
    /\ cmdList' = <<>> /\ fdIn' = NoPair
    /\ jmpok' = TRUE /\ savedMask' = TRUE /\ masked' = TRUE
    /\ UNCHANGED <<frames, sigchld, ints, procs, held, buf>>

\* sigsetjmp() with the mask, the new cmd_list, and SIGCHLD blocked.
Prompt ==
    /\ pc = "top" /\ Ready
    /\ pc' = "parse"
    /\ cmdList' = <<>> /\ fdIn' = NoPair
    /\ jmpok' = TRUE /\ savedMask' = masked /\ masked' = TRUE
    /\ UNCHANGED <<frames, sigchld, ints, procs, held, buf>>

\* list_create() returned NULL: do_tansh() returns -1 and main() returns.
PromptFails ==
    /\ MallocFails
    /\ pc = "top" /\ Ready
    /\ pc' = "exited"
    /\ held' = [held EXCEPT ![Shell] = {}]
    /\ jmpok' = TRUE /\ savedMask' = masked
    /\ UNCHANGED <<cmdList, fdIn, frames, masked, sigchld, ints, procs, buf>>

\* The user's line is in cmd_list, and SIGCHLD is unblocked.
ReadLine ==
    /\ pc = "parse"
    /\ Cardinality({p \in Pid : status[p] \in {"setup", "run"}}) <= MaxLeft
    /\ \E line \in Lines : cmdList' = line
    /\ masked' = FALSE
    /\ pc' = "call"
    /\ UNCHANGED <<fdIn, frames, jmpok, savedMask, sigchld, ints, procs, held, buf>>

(***************************************************************************)
(* do_command(): one call handles the first command of the list and calls  *)
(* itself for the rest, after the child is forked and waited for.          *)
(***************************************************************************)

\* The base case: the list is empty.
CallDone ==
    /\ pc = "call" /\ Ready
    /\ cmdList = <<>>
    /\ pc' = Returned(frames)
    /\ UNCHANGED <<cmdList, fdIn, frames, signals, procs, held, buf>>

\* (mutant) do_command() returns after an internal command.
CallInternal_Returns ==
    /\ pc = "call" /\ Ready
    /\ cmdList # <<>> /\ cmd_is_internal(Head(cmdList))
    /\ cmdList' = Tail(cmdList)
    /\ pc' = Returned(frames)
    /\ UNCHANGED <<fdIn, frames, signals, procs, held, buf>>

\* cmd_do_internal() returns 0, and the rest of the list is done in its place.
CallInternal ==
    /\ pc = "call" /\ Ready
    /\ cmdList # <<>> /\ cmd_is_internal(Head(cmdList))
    /\ cmdList' = Tail(cmdList)
    /\ fdIn' = NoPair
    /\ UNCHANGED <<pc, frames, signals, procs, held, buf>>

\* The call of do_command() for cmd has `out' in its fd_out.
Enter(cmd, out) ==
    /\ frames' = Append(frames, [cmd |-> cmd, in |-> fdIn, out |-> out, child |-> NoChild])
    /\ cmdList' = Tail(cmdList)
    /\ pc' = "fork"
    /\ UNCHANGED <<fdIn, signals, procs>>

CallExternal ==
    /\ pc = "call" /\ Ready
    /\ cmdList # <<>> /\ ~cmd_is_internal(Head(cmdList))
    /\ ~cmd_is_output_pipe(Head(cmdList))
    /\ Enter(Head(cmdList), NoPair)
    /\ UNCHANGED <<held, buf>>

CallPipe ==
    /\ pc = "call" /\ Ready
    /\ cmdList # <<>> /\ ~cmd_is_internal(Head(cmdList))
    /\ cmd_is_output_pipe(Head(cmdList))
    /\ FreePipes # {}
    /\ LET q == CHOOSE q \in FreePipes : TRUE
       IN  /\ Enter(Head(cmdList), [r |-> ReadEnd(q), w |-> WriteEnd(q)])
           /\ held' = [held EXCEPT ![Shell] = @ \cup {ReadEnd(q), WriteEnd(q)}]
           /\ buf' = [buf EXCEPT ![q] = 0]

\* pipe() failed, which is only printed: fd_out keeps the two numbers that
\* were on the stack, each that of an open end or of nothing.
CallPipeFails ==
    /\ pc = "call" /\ Ready
    /\ cmdList # <<>> /\ ~cmd_is_internal(Head(cmdList))
    /\ cmd_is_output_pipe(Head(cmdList))
    /\ FreePipes = {}
    /\ \E r, w \in held[Shell] \cup {Bad} : Enter(Head(cmdList), [r |-> r, w |-> w])
    /\ UNCHANGED <<held, buf>>

\* The child is a copy of the shell, with every end the shell has open.
Fork(p) ==
    /\ pc = "fork" /\ Ready
    /\ status[p] = "free"
    /\ frames' = [frames EXCEPT ![Len(frames)].child = p]
    /\ status' = [status EXCEPT ![p] = "setup"]
    /\ image'  = [image EXCEPT ![p] = Top(frames)]
    /\ held'   = [held EXCEPT ![p] = held[Shell]]
    /\ stdin'  = [stdin EXCEPT ![p] = Tty]
    /\ stdout' = [stdout EXCEPT ![p] = Tty]
    /\ pc' = "close"
    /\ UNCHANGED <<cmdList, fdIn, signals, work, buf>>

\* A fork() that fails is only printed: child_id is -1.
ForkFails ==
    /\ pc = "fork" /\ Ready
    /\ Children = Pid
    /\ pc' = "close"
    /\ UNCHANGED <<cmdList, fdIn, frames, signals, procs, held, buf>>

\* The parent closes an end it was handed and goes on at `next'.  If close()
\* fails do_command() returns, and leaves the child and the rest of the list
\* alone.
CloseEnd(end, next) ==
    /\ IF end \in held[Shell]
       THEN /\ held' = [held EXCEPT ![Shell] = @ \ {end}]
            /\ pc' = next
            /\ UNCHANGED frames
       ELSE /\ frames' = Pop(frames)
            /\ pc' = Returned(frames')
            /\ UNCHANGED held
    /\ UNCHANGED <<cmdList, fdIn, signals, procs, buf>>

\* The read end of the pipe the command reads, once the child has it.
CloseIn ==
    /\ pc = "close" /\ Ready
    /\ cmd_is_input_pipe(Top(frames).cmd)
    /\ CloseEnd(Top(frames).in.r, "close1")

CloseNothing ==
    /\ pc = "close" /\ Ready
    /\ ~cmd_is_input_pipe(Top(frames).cmd)
    /\ pc' = "block"
    /\ UNCHANGED <<cmdList, fdIn, frames, signals, procs, held, buf>>

\* (mutant) the loop ends before i = 1.
CloseInWrite_Skipped ==
    /\ pc = "close1" /\ Ready
    /\ pc' = "block"
    /\ UNCHANGED <<cmdList, fdIn, frames, signals, procs, held, buf>>

\* The second turn of the loop: the write end.
CloseInWrite ==
    /\ pc = "close1" /\ Ready
    /\ CloseEnd(Top(frames).in.w, "block")

Block ==
    /\ pc = "block" /\ Ready
    /\ masked' = TRUE
    /\ pc' = "wait"
    /\ UNCHANGED <<cmdList, fdIn, frames, jmpok, savedMask, sigchld, ints, procs, held, buf>>

\* (mutant) every foreground command is waited for; the recursive call gets
\* the caller's fd_in.
Awaited_All(cmd) == ~cmd_is_background(cmd)
Passed_In(f) == f.in

\* Only the last command of a pipeline is waited for, unless it is in the
\* background.
Awaited(cmd) == ~cmd_is_background(cmd) /\ ~cmd_is_output_pipe(cmd)

\* The fd_in of the recursive call is the fd_out of this one.
Passed(f) == f.out

\* (mutant) waitpid(child, NULL, WNOHANG)
AwaitChild_NoHang(child) == PollChild(child)

\* waitpid(child, NULL, 0): it returns at once when there is no such child,
\* and otherwise when the child is dead.
AwaitChild(child) ==
    LET asked == IF child = NoChild THEN Children ELSE Children \cap {child}
    IN  IF asked = {} THEN UNCHANGED procs
        ELSE \E z \in asked \cap Zombies : Reap({z})

\* Wait if need be, unblock SIGCHLD, and do the rest of the list.
Wait ==
    /\ pc = "wait"
    /\ IF Awaited(Top(frames).cmd) THEN AwaitChild(Top(frames).child) ELSE UNCHANGED procs
    /\ masked' = FALSE
    /\ fdIn' = Passed(Top(frames))
    /\ pc' = "call"
    /\ UNCHANGED <<cmdList, frames, jmpok, savedMask, sigchld, ints, held, buf>>

\* The rest of the list is done: poll once for this call's child, and return.
After ==
    /\ pc = "after" /\ Ready
    /\ PollChild(Top(frames).child)
    /\ frames' = Pop(frames)
    /\ pc' = Returned(frames')
    /\ UNCHANGED <<cmdList, fdIn, signals, held, buf>>

-----------------------------------------------------------------------------
(***************************************************************************)
(* The signal handlers.                                                    *)
(***************************************************************************)

\* sigchld_handler(): one waitpid() that does not hang, for any child.
SigchldHandler ==
    /\ pc # "exited"
    /\ sigchld /\ ~masked
    /\ sigchld' = FALSE
    /\ PollChild(NoChild)
    /\ UNCHANGED <<control, jmpok, savedMask, masked, ints, held, buf>>

\* ^C reaches the shell and every child.  The shell jumps back to the prompt
\* with the mask jmpbuf holds; so does a child that has not yet become its
\* program, and goes on as a shell of its own.  A program ends or ignores it.
Sigint ==
    /\ pc # "exited"
    /\ ints < MaxInterrupts
    /\ ints' = ints + 1
    /\ IF jmpok
       THEN /\ pc' = "top" /\ frames' = <<>> /\ cmdList' = <<>> /\ fdIn' = NoPair
            /\ masked' = savedMask
            /\ \E killed \in SUBSET {p \in Pid : status[p] = "run"} :
                 /\ status' = [p \in Pid |-> CASE p \in killed         -> "zombie"
                                               [] status[p] = "setup" -> "stray"
                                               [] OTHER               -> status[p]]
                 /\ held'   = [p \in Proc |-> IF p \in killed THEN {} ELSE held[p]]
                 /\ stdin'  = [p \in Pid |-> IF p \in killed THEN Bad ELSE stdin[p]]
                 /\ stdout' = [p \in Pid |-> IF p \in killed THEN Bad ELSE stdout[p]]
                 /\ work'   = [p \in Pid |-> IF p \in killed THEN 0 ELSE work[p]]
                 /\ sigchld' = (sigchld \/ killed # {})
       ELSE UNCHANGED <<control, masked, sigchld, status, held, stdin, stdout, work>>
    /\ UNCHANGED <<jmpok, savedMask, image, buf>>

-----------------------------------------------------------------------------
(***************************************************************************)
(* The child between fork() and exec.                                      *)
(***************************************************************************)

\* What the child duplicates to descriptors 0 and 1, and what it closes.
Wanted(f) == (IF cmd_is_input_pipe(f.cmd) THEN {f.in.r} ELSE {})
                \cup (IF cmd_is_output_pipe(f.cmd) THEN {f.out.w} ELSE {})
Unwanted_OutOnly(f) == IF cmd_is_output_pipe(f.cmd) THEN {f.out.r} ELSE {}  \* (mutant)
Unwanted(f) == (IF cmd_is_input_pipe(f.cmd) THEN {f.in.w} ELSE {})
                \cup (IF cmd_is_output_pipe(f.cmd) THEN {f.out.r} ELSE {})

Plumbed(f, open) ==
    /\ Wanted(f) \subseteq open
    /\ Unwanted(f) \subseteq open
    /\ cmd_is_input_pipe(f.cmd) /\ cmd_is_output_pipe(f.cmd) => f.in.w # f.out.r

StdinOf(f)  == IF cmd_is_input_pipe(f.cmd) THEN f.in.r
               ELSE IF cmd_is_input_redir(f.cmd) THEN File ELSE Tty
StdoutOf(f) == IF cmd_is_output_pipe(f.cmd) THEN f.out.w
               ELSE IF cmd_is_output_redir(f.cmd) \/ cmd_is_concat_redir(f.cmd) THEN File
               ELSE Tty

\* The child dies on the NULL list of redirections.
ChildCrash(p) ==
    /\ status[p] = "setup" /\ Crashes(image[p].cmd)
    /\ Die({p})
    /\ UNCHANGED <<control, jmpok, savedMask, masked, ints, buf>>

\* Redirections, dup2(), close() and execvp() all succeeded.
ChildExec(p) ==
    /\ status[p] = "setup" /\ ~Crashes(image[p].cmd)
    /\ Plumbed(image[p], held[p])
    /\ status' = [status EXCEPT ![p] = "run"]
    /\ held'   = [held EXCEPT ![p] = @ \ Unwanted(image[p])]
    /\ stdin'  = [stdin EXCEPT ![p] = StdinOf(image[p])]
    /\ stdout' = [stdout EXCEPT ![p] = StdoutOf(image[p])]
    /\ work'   = [work EXCEPT ![p] = Items]
    /\ image'  = [image EXCEPT ![p] = Spent(@)]
    /\ UNCHANGED <<control, signals, buf>>

\* execvp() failed: exit(-1).
ChildExecFails(p) ==
    /\ status[p] = "setup" /\ ~Crashes(image[p].cmd)
    /\ Plumbed(image[p], held[p])
    /\ Die({p})
    /\ UNCHANGED <<control, jmpok, savedMask, masked, ints, buf>>

\* A dup2() or close() failed: the child returns -1 from do_command(), into
\* its own copy of the loop of do_tansh().
ChildReturns(p) ==
    /\ status[p] = "setup" /\ ~Crashes(image[p].cmd)
    /\ ~Plumbed(image[p], held[p])
    /\ status' = [status EXCEPT ![p] = "stray"]
    /\ held' = [held EXCEPT ![p] =
                   IF Wanted(image[p]) \subseteq @ /\ cmd_is_input_pipe(image[p].cmd)
                   THEN @ \ {image[p].in.w} ELSE @]
    /\ UNCHANGED <<control, signals, image, stdin, stdout, work, buf>>

Child(p) == ChildCrash(p) \/ ChildExec(p) \/ ChildExecFails(p) \/ ChildReturns(p)

-----------------------------------------------------------------------------
(***************************************************************************)
(* The programs (external).  A program writes its items to a pipe on its   *)
(* standard output, reads a pipe on its standard input to the end, and     *)
(* ends.  It may also end early.                                           *)
(***************************************************************************)
Reads(p, q)  == stdin[p] = ReadEnd(q)
Writes(p, q) == stdout[p] = WriteEnd(q)

ProgRead(p) ==
    /\ status[p] = "run"
    /\ \E q \in Pipe :
        /\ Reads(p, q) /\ buf[q] > 0
        /\ buf' = [buf EXCEPT ![q] = @ - 1]
    /\ UNCHANGED <<control, signals, procs, held>>

\* Output that does not go to a pipe is never held up.
ProgWrite(p) ==
    /\ status[p] = "run" /\ work[p] > 0
    /\ work' = [work EXCEPT ![p] = @ - 1]
    /\ \/ /\ stdout[p] \notin End
          /\ UNCHANGED buf
       \/ \E q \in Pipe :
            /\ Writes(p, q) /\ Holders(ReadEnd(q)) # {} /\ buf[q] < PipeCap
            /\ buf' = [buf EXCEPT ![q] = @ + 1]
    /\ UNCHANGED <<control, signals, status, image, stdin, stdout, held>>

\* Writing a pipe nobody can read: SIGPIPE.
ProgSigpipe(p) ==
    /\ status[p] = "run" /\ work[p] > 0
    /\ \E q \in Pipe : Writes(p, q) /\ Holders(ReadEnd(q)) = {}
    /\ Die({p})
    /\ UNCHANGED <<control, jmpok, savedMask, masked, ints, buf>>

\* All is written, and the input is at its end: nobody can write to it.
ProgFinish(p) ==
    /\ status[p] = "run" /\ work[p] = 0
    /\ \A q \in Pipe : Reads(p, q) => buf[q] = 0 /\ Holders(WriteEnd(q)) = {}
    /\ Die({p})
    /\ UNCHANGED <<control, jmpok, savedMask, masked, ints, buf>>

ProgQuit(p) ==
    /\ status[p] = "run"
    /\ Die({p})
    /\ UNCHANGED <<control, jmpok, savedMask, masked, ints, buf>>

Program(p) == ProgRead(p) \/ ProgWrite(p) \/ ProgSigpipe(p) \/ ProgFinish(p)

-----------------------------------------------------------------------------
\* What the shell does without the user.
ShellStep ==
    \/ Prompt \/ PromptFails
    \/ CallDone \/ CallInternal \/ CallExternal \/ CallPipe \/ CallPipeFails
    \/ (\E p \in Pid : Fork(p)) \/ ForkFails
    \/ CloseIn \/ CloseNothing \/ CloseInWrite
    \/ Block \/ Wait \/ After
    \/ SigchldHandler

User == ReadLine \/ Sigint

Next ==
    \/ ShellStep
    \/ User
    \/ \E p \in Pid : Child(p) \/ Program(p) \/ ProgQuit(p)

\* The scheduler runs every process that can run.  The user need not type,
\* and a program need not end early.
Fairness ==
    /\ WF_vars(ShellStep)
    /\ \A p \in Pid :
        /\ WF_vars(Child(p))
        /\ WF_vars(ProgRead(p))
        /\ WF_vars(ProgWrite(p) \/ ProgSigpipe(p))
        /\ WF_vars(ProgFinish(p))

Spec     == Init /\ [][Next]_vars
FairSpec == Spec /\ Fairness

-----------------------------------------------------------------------------
(***************************************************************************)
(* Properties.                                                             *)
(***************************************************************************)

\* SIGCHLD is blocked while the line is parsed and while the shell waits for
\* a child, where the code is not signal safe, and nowhere else: not after
\* any ^C either, since the jump restores the mask of the prompt.
SigchldWindow ==
    /\ masked <=> pc \in {"parse", "wait"}
    /\ ~savedMask

\* A command that reads a pipe is handed the two open ends of one pipe, which
\* the parent closes only after the fork: no dup2() or close() on the way
\* can fail.
PipeHandedOver ==
    LET Open(fd) == \E q \in Pipe : /\ fd = [r |-> ReadEnd(q), w |-> WriteEnd(q)]
                                    /\ {fd.r, fd.w} \subseteq held[Shell]
    IN  /\ pc = "call" /\ cmdList # <<>> /\ cmd_is_input_pipe(Head(cmdList)) => Open(fdIn)
        /\ pc \in {"fork", "close"} /\ cmd_is_input_pipe(Top(frames).cmd) => Open(Top(frames).in)

\* A program keeps only the pipe ends it uses as its standard input and
\* output (as long as no ^C made the shell lose track of a pipe): otherwise
\* readers of the pipe would never see its end, nor writers its breaking.
NoForeignHolders ==
    ints = 0 => \A p \in Pid : status[p] = "run" => held[p] \subseteq {stdin[p], stdout[p]}

\* The pipe ends that a call of do_command() can have in use: four if a command
\* both reads and writes a pipe, two otherwise.
EndsInUse ==
    IF \E line \in Lines : \E i \in 1..Len(line) :
           cmd_is_input_pipe(line[i]) /\ cmd_is_output_pipe(line[i])
    THEN 4 ELSE 2

\* Back at the prompt the shell has closed every pipe it opened, but for the ends
\* that were in use at a ^C.  Where pipe() fails and a command both reads and
\* writes a pipe, this does not hold: see README.
PipesClosed == pc = "top" => Cardinality(held[Shell]) <= EndsInUse * ints

\* At the prompt, no command that the shell had to wait for is left, running
\* or as a zombie, unless ^C cut the wait short.
ForegroundDone ==
    pc \in {"top", "parse"} /\ ints = 0 =>
        \A p \in Children : \/ cmd_is_background(image[p].cmd)
                             \/ cmd_is_output_pipe(image[p].cmd)

\* Each ^C leaves at most the one command behind that the shell was with: at
\* the prompt no other foreground command is left, whatever failed (but for
\* those that read a pipe, which are given up when pipe() had failed).
OneLeftBehind ==
    pc \in {"top", "parse"} =>
        Cardinality({p \in Children : /\ Awaited(image[p].cmd)
                                      /\ ~cmd_is_input_pipe(image[p].cmd)}) <= ints

\* DESIGN, 4: every child is forked from the one shell and becomes a program
\* or ends.  None ever goes on as a shell of its own, unless ^C is typed
\* between fork() and execvp().
NoSecondShell == ints = 0 => \A p \in Pid : status[p] # "stray"

\* The shell never hangs: after any line, and whatever the programs do, the
\* prompt comes back.
PromptReturns == pc # "parse" ~> pc = "parse"

\* Every program that reads a pipe sees its end, and every program that
\* writes one gets rid of its output, so every program ends.
ProgramsEnd == \A p \in Pid : status[p] = "run" ~> status[p] # "run"

-----------------------------------------------------------------------------
(***************************************************************************)
(* What the loop promises, of which all the above is the implementation.   *)
(* A job is a process that is not yet dead; the shell is with a command    *)
(* from fork() until it unblocks SIGCHLD again.                            *)
(***************************************************************************)
Alive  == {p \in Pid : status[p] \in {"setup", "run", "stray"}}
Forked == {"close", "close1", "block", "wait"}

Phase == CASE pc \in {"top", "parse"} -> "prompt"
           [] pc = "exited"           -> "exited"
           [] OTHER                   -> "line"

\* Between list_shift() and fork() a command is not yet started.
Todo == CASE pc = "fork"                 -> <<Top(frames).cmd>> \o cmdList
          [] pc \in Forked \cup {"call"} -> cmdList
          [] OTHER                       -> <<>>

Current == IF pc \in Forked
           THEN {[cmd |-> Top(frames).cmd, job |-> Top(frames).child]} ELSE {}

Running == [p \in Alive |-> image[p].cmd]

Jobs == INSTANCE JobControl WITH
    Job        <- Pid,
    NoJob      <- NoChild,
    Internal   <- {cmd \in Command : cmd_is_internal(cmd)},
    Foreground <- {cmd \in Command : Awaited(cmd)},
    Reader     <- {cmd \in Command : cmd_is_input_pipe(cmd)},
    phase      <- Phase,
    todo       <- Todo,
    current    <- Current,
    jobs       <- Running,
    typed      <- ints

\* Commands are started in the order of the line, each once and under its own
\* name, none before the foreground command ahead of it has ended; lines are
\* done to their end, unless ^C drops them.
DoesJobs == Jobs!SureSpec

\* The same when the kernel is out of pipes, where a line can be given up at a
\* command that reads one.
DoesJobsWithoutPipes == Jobs!Spec

\* The comment in sigchld_handler(): its wait prevents zombies from
\* persisting.  So when the shell sits at the prompt, a child that is dead is
\* one that a SIGCHLD still pending will have reaped.
ZombiesReaped == pc = "parse" /\ ~sigchld => Zombies = {}
=============================================================================
