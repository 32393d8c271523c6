----------------------------- MODULE JobControl -----------------------------
(***************************************************************************)
(* What the read-execute loop promises its user: the commands of a line    *)
(* are started in their order, each once, and after a command that the     *)
(* user has to wait for nothing more happens until it has ended.  Jobs run *)
(* on after the line that started them; ^C drops the rest of the line and  *)
(* gives the prompt back.                                                  *)
(*                                                                         *)
(* Nothing is said of the pipes, the signals and the system calls by which *)
(* shell/tansh.c keeps these promises.                                     *)
(***************************************************************************)
EXTENDS Naturals, Sequences

CONSTANTS
    Job,        \* names of running jobs
    NoJob,      \* the name of a job that could not be started
    Lines,      \* the lines, as sequences of commands
    Internal,   \* the commands that the shell carries out itself
    Foreground, \* the commands that have to be waited for
    Reader      \* the commands that read the output of the one before

VARIABLES
    phase,      \* what the user sees
    todo,       \* the commands of the line that are not yet started
    current,    \* the command just started and its job, if the shell is with it
    jobs,       \* the running jobs, and what each does
    typed       \* how often ^C was typed

vars == <<phase, todo, current, jobs, typed>>

Nothing == {}
Now(cmd, job) == {[cmd |-> cmd, job |-> job]}

Init ==
    /\ phase = "prompt" /\ todo = <<>> /\ current = Nothing
    /\ jobs = [j \in {} |-> NoJob]
    /\ typed = 0

\* The user types a line.
Type(line) ==
    /\ phase = "prompt"
    /\ phase' = "line" /\ todo' = line
    /\ UNCHANGED <<current, jobs, typed>>

\* The shell is free to take the next command of the line.
NextCommand ==
    /\ phase = "line"
    /\ todo # <<>> /\ current = Nothing
    /\ todo' = Tail(todo)
    /\ UNCHANGED <<phase, typed>>

DoInternal ==
    /\ NextCommand
    /\ Head(todo) \in Internal
    /\ UNCHANGED <<current, jobs>>

Start(job) ==
    /\ NextCommand
    /\ Head(todo) \notin Internal
    /\ job \notin DOMAIN jobs
    /\ jobs' = [j \in DOMAIN jobs \cup {job} |-> IF j = job THEN Head(todo) ELSE jobs[j]]
    /\ current' = Now(Head(todo), job)

StartFails ==
    /\ NextCommand
    /\ Head(todo) \notin Internal
    /\ current' = Now(Head(todo), NoJob)
    /\ UNCHANGED jobs

\* The shell leaves the command it started: at once, or when the job has ended.
Proceed ==
    /\ \E now \in current : now.cmd \in Foreground => now.job \notin DOMAIN jobs
    /\ current' = Nothing
    /\ UNCHANGED <<phase, todo, jobs, typed>>

\* What a command reads is not there: the rest of the line is given up, and
\* the job is not waited for.
GiveUp ==
    /\ \E now \in current : now.cmd \in Reader
    /\ todo' = <<>> /\ current' = Nothing
    /\ phase' \in {"line", "prompt"}
    /\ UNCHANGED <<jobs, typed>>

Finish ==
    /\ phase = "line" /\ todo = <<>> /\ current = Nothing
    /\ phase' = "prompt"
    /\ UNCHANGED <<todo, current, jobs, typed>>

\* Jobs end when they like, and ^C ends any of them.
Remaining(J) == [j \in J |-> jobs[j]]

End(job) ==
    /\ job \in DOMAIN jobs
    /\ jobs' = Remaining(DOMAIN jobs \ {job})
    /\ UNCHANGED <<phase, todo, current, typed>>

Interrupt ==
    /\ phase # "exited"
    /\ phase' = "prompt" /\ todo' = <<>> /\ current' = Nothing
    /\ \E J \in SUBSET DOMAIN jobs : jobs' = Remaining(J)
    /\ typed' = typed + 1

Exit ==
    /\ phase = "prompt"
    /\ phase' = "exited"
    /\ UNCHANGED <<todo, current, jobs, typed>>

\* What the shell does as long as pipes can be had, and what it does without.
SureNext ==
    \/ \E line \in Lines : Type(line)
    \/ DoInternal \/ StartFails \/ Proceed \/ Finish \/ Interrupt \/ Exit
    \/ \E job \in Job : Start(job) \/ End(job)

Next == SureNext \/ GiveUp

SureSpec == Init /\ [][SureNext]_vars
Spec     == Init /\ [][Next]_vars
=============================================================================
