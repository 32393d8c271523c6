---------------------------- MODULE TanshProofs ----------------------------
(***************************************************************************)
(* Proofs about Tansh, for any number of processes, pipes, lines and ^C.   *)
(***************************************************************************)
EXTENDS Tansh, SequenceTheorems, FiniteSetTheorems, TLAPS

-----------------------------------------------------------------------------
(***************************************************************************)
(* Types.  A step of do_command() looks at the innermost frame, so the     *)
(* type invariant is inductive only with the fact that there is one.       *)
(***************************************************************************)
InCommand  == {"fork", "close", "close1", "block", "wait", "after"}
HasFrame   == pc \in InCommand => frames # <<>>
HalfClosed == pc = "close1" => cmd_is_input_pipe(Top(frames).cmd)
TypeInv    == TypeOK /\ HasFrame /\ HalfClosed

LEMMA SpentType == \A f \in Frame : Spent(f) \in Frame
  BY DEF Spent, Frame, NoFrame, NoPair, Pair, Command

LEMMA NoFrameType == NoFrame \in Frame /\ NoPair \in Pair
  BY DEF Frame, NoFrame, NoPair, Pair, Command

LEMMA TopType == ASSUME NEW s \in Seq(Frame), s # <<>>
                 PROVE  Top(s) \in Frame /\ Pop(s) \in Seq(Frame)
  BY DEF Top, Pop

\* Descriptors that the child's plumbing assigns.
LEMMA PlumbingType ==
    ASSUME NEW f \in Frame, NEW open \in SUBSET End, Plumbed(f, open)
    PROVE  StdinOf(f) \in Descriptor /\ StdoutOf(f) \in Descriptor
  BY DEF Plumbed, Wanted, StdinOf, StdoutOf, Descriptor

LEMMA DieType ==
    ASSUME TypeOK, NEW P \in SUBSET Pid, Die(P)
    PROVE  /\ status' \in [Pid -> Status] /\ image' \in [Pid -> Frame]
           /\ held' \in [Proc -> SUBSET End]
           /\ stdin' \in [Pid -> Descriptor] /\ stdout' \in [Pid -> Descriptor]
           /\ work' \in [Pid -> 0..Items] /\ sigchld' \in BOOLEAN
  <1>1. status' \in [Pid -> Status]  BY DEF Die, TypeOK, Status
  <1>2. image' \in [Pid -> Frame]    BY SpentType DEF Die, TypeOK
  <1>3. held' \in [Proc -> SUBSET End]  BY DEF Die, TypeOK
  <1>4. stdin' \in [Pid -> Descriptor] /\ stdout' \in [Pid -> Descriptor]
    BY DEF Die, TypeOK, Descriptor
  <1>5. work' \in [Pid -> 0..Items]  BY BoundAssumption DEF Die, TypeOK
  <1>6. sigchld' \in BOOLEAN  BY DEF Die, TypeOK
  <1> QED  BY <1>1, <1>2, <1>3, <1>4, <1>5, <1>6

ProcsType == /\ status \in [Pid -> Status] /\ image \in [Pid -> Frame]
             /\ stdin \in [Pid -> Descriptor] /\ stdout \in [Pid -> Descriptor]
             /\ work \in [Pid -> 0..Items]

LEMMA ReapType == ASSUME TypeOK, NEW P, Reap(P) PROVE ProcsType'
  <1>1. status' \in [Pid -> Status]  BY DEF Reap, TypeOK, Status
  <1>2. image' \in [Pid -> Frame]    BY NoFrameType DEF Reap, TypeOK
  <1> QED  BY <1>1, <1>2 DEF Reap, TypeOK, ProcsType

LEMMA WaitType == ASSUME TypeOK, NEW c, PollChild(c) \/ AwaitChild(c) \/ UNCHANGED procs
                  PROVE  ProcsType'
  BY ReapType DEF PollChild, AwaitChild, TypeOK, procs, ProcsType

LEMMA ReturnedType == ASSUME NEW s \in Seq(Frame)
                     PROVE  Returned(s) \in PC /\ (Returned(s) \in InCommand => s # <<>>)
  BY DEF Returned, PC, InCommand

LEMMA InitType == Init => TypeInv
  <1> SUFFICES ASSUME Init PROVE TypeInv  OBVIOUS
  <1>1. Bad \in Descriptor  BY DEF Descriptor
  <1>2. cmdList \in Seq(Command) /\ frames \in Seq(Frame)
    BY DEF Init
  <1>3. status \in [Pid -> Status] /\ image \in [Pid -> Frame] /\ pc \in PC /\ fdIn \in Pair
    BY NoFrameType DEF Init, Status, PC
  <1>4. /\ held \in [Proc -> SUBSET End]
        /\ stdin \in [Pid -> Descriptor] /\ stdout \in [Pid -> Descriptor]
    BY <1>1 DEF Init
  <1>5. /\ ints \in 0..MaxInterrupts /\ work \in [Pid -> 0..Items] /\ buf \in [Pipe -> 0..PipeCap]
    BY BoundAssumption DEF Init
  <1>6. TypeOK
    BY <1>2, <1>3, <1>4, <1>5 DEF Init, TypeOK
  <1> QED  BY <1>6 DEF Init, TypeInv, HasFrame, HalfClosed, InCommand

\* Only a command that reads a pipe gets to the second turn of the loop.
LEMMA StepHalf == HalfClosed /\ [Next]_vars => HalfClosed'
  <1> SUFFICES ASSUME HalfClosed, [Next]_vars PROVE HalfClosed'  OBVIOUS
  <1> USE DEF HalfClosed
  <1>1. CASE Prompt \/ PromptFails \/ ReadLine \/ CallDone \/ CallInternal \/ CallExternal
               \/ CallPipe \/ CallPipeFails
    BY <1>1 DEF Prompt, PromptFails, ReadLine, CallDone, CallInternal, CallExternal, CallPipe,
                CallPipeFails, Enter, Returned
  <1>2. CASE ForkFails \/ CloseNothing \/ CloseInWrite \/ Block \/ Wait \/ After
               \/ \E p \in Pid : Fork(p)
    BY <1>2 DEF ForkFails, CloseNothing, CloseInWrite, CloseEnd, Block, Wait, After, Fork,
                Returned
  <1>3. CASE CloseIn
    BY <1>3 DEF CloseIn, CloseEnd, Returned
  <1>4. CASE UNCHANGED control
    BY <1>4 DEF control
  <1>5. CASE SigchldHandler \/ Sigint
    BY <1>4, <1>5 DEF SigchldHandler, Sigint
  <1>6. ASSUME NEW p \in Pid, Child(p) \/ Program(p) \/ ProgQuit(p) PROVE HalfClosed'
    BY <1>4, <1>6 DEF Child, ChildCrash, ChildExec, ChildExecFails, ChildReturns, Program,
                      ProgRead, ProgWrite, ProgSigpipe, ProgFinish, ProgQuit
  <1>7. CASE UNCHANGED vars
    BY <1>4, <1>7 DEF vars
  <1> QED  BY <1>1, <1>2, <1>3, <1>5, <1>6, <1>7 DEF Next, ShellStep, User

LEMMA StepType == TypeInv /\ [Next]_vars => TypeInv'
  <1> SUFFICES ASSUME TypeInv, [Next]_vars PROVE (TypeOK /\ HasFrame)'
    BY StepHalf DEF TypeInv
  <1> USE DEF TypeInv, HasFrame
  <1>1. CASE Prompt
    BY <1>1, NoFrameType DEF Prompt, TypeOK, procs, PC, InCommand
  <1>2. CASE PromptFails
    BY <1>2 DEF PromptFails, TypeOK, procs, PC, InCommand, Proc
  <1>3. CASE ReadLine
    BY <1>3, LinesAssumption DEF ReadLine, TypeOK, procs, PC, InCommand
  <1>4. CASE CallDone
    <2>1. pc' \in PC /\ (pc' \in InCommand => frames' # <<>>)
      BY <1>4, ReturnedType DEF CallDone, TypeOK
    <2> QED  BY <1>4, <2>1 DEF CallDone, TypeOK, procs, signals
  <1>5. CASE CallInternal
    BY <1>5, NoFrameType DEF CallInternal, TypeOK, procs, signals, PC, InCommand
  <1>6. ASSUME NEW out \in Pair, cmdList # <<>>, Enter(Head(cmdList), out),
               held' \in [Proc -> SUBSET End], buf' \in [Pipe -> 0..PipeCap]
        PROVE  (TypeOK /\ HasFrame)'
    <2>1. Head(cmdList) \in Command /\ Tail(cmdList) \in Seq(Command)
      BY <1>6 DEF TypeOK
    <2>2. [cmd |-> Head(cmdList), in |-> fdIn, out |-> out, child |-> NoChild] \in Frame
      BY <1>6, <2>1 DEF TypeOK, Frame
    <2>3. frames' \in Seq(Frame) /\ frames' # <<>>
      <3> DEFINE f == [cmd |-> Head(cmdList), in |-> fdIn, out |-> out, child |-> NoChild]
      <3> HIDE DEF f
      <3>1. frames' = Append(frames, f)  BY <1>6 DEF Enter, f
      <3>2. f \in Frame /\ frames \in Seq(Frame)  BY <2>2 DEF f, TypeOK
      <3> QED  BY <3>1, <3>2
    <2> QED  BY <1>6, <2>1, <2>3 DEF Enter, TypeOK, procs, signals, PC, InCommand
  <1>7. CASE CallExternal
    BY <1>6, <1>7, NoFrameType DEF CallExternal, TypeOK
  <1>8. CASE CallPipe
    <2> DEFINE q == CHOOSE q \in FreePipes : TRUE
    <2> HIDE DEF q
    <2>1. q \in Pipe  BY <1>8 DEF CallPipe, FreePipes, q
    <2>2. [r |-> ReadEnd(q), w |-> WriteEnd(q)] \in Pair
      BY <2>1 DEF Pair, End, ReadEnd, WriteEnd
    <2>3. held' \in [Proc -> SUBSET End]
      <3>1. {ReadEnd(q), WriteEnd(q)} \subseteq End
        BY <2>1 DEF End, ReadEnd, WriteEnd
      <3>2. held' = [held EXCEPT ![Shell] = @ \cup {ReadEnd(q), WriteEnd(q)}]
        BY <1>8 DEF CallPipe, q
      <3> QED  BY <3>1, <3>2 DEF TypeOK
    <2>4. buf' \in [Pipe -> 0..PipeCap]
      BY <1>8, <2>1, BoundAssumption DEF CallPipe, q, TypeOK
    <2>5. Enter(Head(cmdList), [r |-> ReadEnd(q), w |-> WriteEnd(q)]) /\ cmdList # <<>>
      BY <1>8 DEF CallPipe, q
    <2> QED  BY <1>6, <2>2, <2>3, <2>4, <2>5
  <1>9. CASE CallPipeFails
    <2>1. PICK r \in held[Shell] \cup {Bad}, w \in held[Shell] \cup {Bad} :
             Enter(Head(cmdList), [r |-> r, w |-> w])
      BY <1>9 DEF CallPipeFails
    <2>2. [r |-> r, w |-> w] \in Pair  BY DEF TypeOK, Pair, Proc
    <2> QED  BY <1>6, <1>9, <2>1, <2>2 DEF CallPipeFails, TypeOK
  <1>10. ASSUME NEW p \in Pid, Fork(p) PROVE (TypeOK /\ HasFrame)'
    <2>1. frames # <<>> /\ Top(frames) \in Frame
      BY <1>10, TopType DEF Fork, TypeOK, InCommand
    <2>2. frames' \in Seq(Frame) /\ frames' # <<>>
      <3>1. /\ frames \in Seq(Frame) /\ Len(frames) \in DOMAIN frames
            /\ frames[Len(frames)] \in Frame
        BY <2>1 DEF TypeOK, Top
      <3> DEFINE f == [frames[Len(frames)] EXCEPT !.child = p]
      <3>2. f \in Frame  BY <3>1 DEF Frame
      <3> HIDE DEF f
      <3>3. frames' = [frames EXCEPT ![Len(frames)] = f]  BY <1>10 DEF Fork, f
      <3> QED  BY <3>1, <3>2, <3>3
    <2>3. status' \in [Pid -> Status] /\ image' \in [Pid -> Frame]
      BY <1>10, <2>1 DEF Fork, TypeOK, Status
    <2>4. held' \in [Proc -> SUBSET End]  BY <1>10 DEF Fork, TypeOK, Proc
    <2>5. stdin' \in [Pid -> Descriptor] /\ stdout' \in [Pid -> Descriptor]
      BY <1>10 DEF Fork, TypeOK, Descriptor
    <2> QED  BY <1>10, <2>2, <2>3, <2>4, <2>5 DEF Fork, TypeOK, signals, PC, InCommand
  <1>11. CASE ForkFails
    BY <1>11 DEF ForkFails, TypeOK, signals, procs, PC, InCommand
  <1>12. CASE CloseIn \/ CloseInWrite
    <2>1. frames # <<>>  BY <1>12 DEF CloseIn, CloseInWrite, InCommand
    <2>2. PICK end \in {Top(frames).in.r, Top(frames).in.w}, next \in {"close1", "block"} :
             CloseEnd(end, next)
      BY <1>12 DEF CloseIn, CloseInWrite
    <2>3. held' \in [Proc -> SUBSET End]  BY <2>2 DEF CloseEnd, TypeOK
    <2>4. frames' \in Seq(Frame) /\ pc' \in PC /\ (pc' \in InCommand => frames' # <<>>)
      <3>1. CASE pc' = next /\ UNCHANGED frames
        BY <2>1, <3>1 DEF TypeOK, PC
      <3>2. CASE frames' = Pop(frames) /\ pc' = Returned(frames')
        <4>1. frames' \in Seq(Frame)  BY <2>1, <3>2, TopType DEF TypeOK
        <4> QED  BY <3>2, <4>1, ReturnedType
      <3> QED  BY <2>2, <3>1, <3>2 DEF CloseEnd
    <2> QED  BY <2>2, <2>3, <2>4 DEF CloseEnd, TypeOK, signals, procs
  <1>13. CASE CloseNothing \/ Block
    BY <1>13 DEF CloseNothing, Block, TypeOK, signals, procs, PC, InCommand
  <1>14. CASE Wait
    <2>1. frames # <<>> /\ Top(frames) \in Frame
      BY <1>14, TopType DEF Wait, TypeOK, InCommand
    <2>2. fdIn' \in Pair  BY <1>14, <2>1 DEF Wait, Passed, Frame
    <2>3. ProcsType'  BY <1>14, WaitType DEF Wait
    <2> QED  BY <1>14, <2>2, <2>3 DEF Wait, TypeOK, ProcsType, PC, InCommand
  <1>15. CASE After
    <2>1. frames # <<>>  BY <1>15 DEF After, InCommand
    <2>2. frames' \in Seq(Frame) /\ pc' \in PC /\ (pc' \in InCommand => frames' # <<>>)
      <3>1. frames' \in Seq(Frame)  BY <1>15, <2>1, TopType DEF After, TypeOK
      <3> QED  BY <1>15, <3>1, ReturnedType DEF After
    <2>3. ProcsType'  BY <1>15, WaitType DEF After
    <2> QED  BY <1>15, <2>2, <2>3 DEF After, TypeOK, ProcsType, signals
  <1>16. CASE SigchldHandler
    <2>1. ProcsType'  BY <1>16, WaitType DEF SigchldHandler
    <2> QED  BY <1>16, <2>1 DEF SigchldHandler, TypeOK, ProcsType, control
  <1>17. CASE Sigint
    <2>1. ints' \in 0..MaxInterrupts
      BY <1>17, BoundAssumption DEF Sigint, TypeOK
    <2>2. CASE ~jmpok
      BY <1>17, <2>1, <2>2 DEF Sigint, TypeOK, control
    <2>3. CASE jmpok
      <3>1. PICK killed \in SUBSET {p \in Pid : status[p] = "run"} :
              /\ status' = [p \in Pid |-> CASE p \in killed        -> "zombie"
                                           [] status[p] = "setup" -> "stray"
                                           [] OTHER               -> status[p]]
              /\ held'   = [p \in Proc |-> IF p \in killed THEN {} ELSE held[p]]
              /\ stdin'  = [p \in Pid |-> IF p \in killed THEN Bad ELSE stdin[p]]
              /\ stdout' = [p \in Pid |-> IF p \in killed THEN Bad ELSE stdout[p]]
              /\ work'   = [p \in Pid |-> IF p \in killed THEN 0 ELSE work[p]]
              /\ sigchld' = (sigchld \/ killed # {})
        BY <1>17, <2>3 DEF Sigint
      <3>2. status' \in [Pid -> Status]  BY <3>1 DEF TypeOK, Status
      <3>3. held' \in [Proc -> SUBSET End]  BY <3>1 DEF TypeOK
      <3>4. stdin' \in [Pid -> Descriptor] /\ stdout' \in [Pid -> Descriptor]
        BY <3>1 DEF TypeOK, Descriptor
      <3>5. work' \in [Pid -> 0..Items]  BY <3>1, BoundAssumption DEF TypeOK
      <3>6. sigchld' \in BOOLEAN  BY <3>1 DEF TypeOK
      <3> QED
        BY <1>17, <2>1, <2>3, <3>2, <3>3, <3>4, <3>5, <3>6, NoFrameType
           DEF Sigint, TypeOK, PC, InCommand
    <2> QED  BY <2>2, <2>3
  <1>18. ASSUME NEW p \in Pid, Die({p}),
                UNCHANGED <<control, jmpok, savedMask, masked, ints, buf>>
         PROVE  (TypeOK /\ HasFrame)'
    BY <1>18, DieType DEF TypeOK, control
  <1>19. ASSUME NEW p \in Pid, Child(p) PROVE (TypeOK /\ HasFrame)'
    <2>1. CASE ChildCrash(p) \/ ChildExecFails(p)
      BY <1>18, <2>1 DEF ChildCrash, ChildExecFails
    <2>2. CASE ChildExec(p)
      <3>1. StdinOf(image[p]) \in Descriptor /\ StdoutOf(image[p]) \in Descriptor
        BY <2>2, PlumbingType DEF ChildExec, TypeOK, Proc
      <3>2. status' \in [Pid -> Status] /\ work' \in [Pid -> 0..Items]
        BY <2>2, BoundAssumption DEF ChildExec, TypeOK, Status
      <3>3. image' \in [Pid -> Frame]  BY <2>2, SpentType DEF ChildExec, TypeOK
      <3>4. held' \in [Proc -> SUBSET End]  BY <2>2 DEF ChildExec, TypeOK
      <3>5. stdin' \in [Pid -> Descriptor] /\ stdout' \in [Pid -> Descriptor]
        BY <2>2, <3>1 DEF ChildExec, TypeOK
      <3> QED
        BY <2>2, <3>2, <3>3, <3>4, <3>5 DEF ChildExec, TypeOK, control, signals
    <2>3. CASE ChildReturns(p)
      <3>1. status' \in [Pid -> Status]  BY <2>3 DEF ChildReturns, TypeOK, Status
      <3>2. held' \in [Proc -> SUBSET End]  BY <2>3 DEF ChildReturns, TypeOK
      <3> QED  BY <2>3, <3>1, <3>2 DEF ChildReturns, TypeOK, control, signals
    <2> QED  BY <1>19, <2>1, <2>2, <2>3 DEF Child
  <1>20. ASSUME NEW p \in Pid, Program(p) \/ ProgQuit(p) PROVE (TypeOK /\ HasFrame)'
    <2>1. CASE ProgSigpipe(p) \/ ProgFinish(p) \/ ProgQuit(p)
      BY <1>18, <2>1 DEF ProgSigpipe, ProgFinish, ProgQuit
    <2>2. CASE ProgRead(p)
      <3>1. buf' \in [Pipe -> 0..PipeCap]
        BY <2>2, BoundAssumption DEF ProgRead, TypeOK
      <3> QED  BY <2>2, <3>1 DEF ProgRead, TypeOK, control, signals, procs
    <2>3. CASE ProgWrite(p)
      <3>1. buf' \in [Pipe -> 0..PipeCap] /\ work' \in [Pid -> 0..Items]
        BY <2>3, BoundAssumption DEF ProgWrite, TypeOK
      <3> QED  BY <2>3, <3>1 DEF ProgWrite, TypeOK, control, signals
    <2> QED  BY <1>20, <2>1, <2>2, <2>3 DEF Program
  <1>21. CASE UNCHANGED vars
    BY <1>21 DEF vars, control, signals, procs, TypeOK
  <1> QED
    BY <1>1, <1>2, <1>3, <1>4, <1>5, <1>7, <1>8, <1>9, <1>10, <1>11, <1>12, <1>13,
       <1>14, <1>15, <1>16, <1>17, <1>19, <1>20, <1>21 DEF Next, ShellStep, User

LEMMA TypeHolds == Spec => []TypeInv
  <1> QED  BY InitType, StepType, PTL DEF Spec

\* Every variable keeps its type: do_command() never looks for a frame that is
\* not there, nor the kernel for a process or a pipe it does not have.
THEOREM TypeCorrect == Spec => []TypeOK
  <1> QED  BY TypeHolds, PTL DEF TypeInv

-----------------------------------------------------------------------------
(***************************************************************************)
(* The window in which SIGCHLD is blocked.                                 *)
(***************************************************************************)

\* SIGCHLD is blocked exactly while the shell parses and while it waits, and
\* ^C cannot change that: the mask that the jump restores blocks nothing.
THEOREM SigchldWindowHolds == Spec => []SigchldWindow
  <1>1. Init => SigchldWindow
    BY DEF Init, SigchldWindow
  <1>2. TypeInv /\ SigchldWindow /\ [Next]_vars => SigchldWindow'
    <2> SUFFICES ASSUME TypeInv, SigchldWindow, [Next]_vars PROVE SigchldWindow'
      OBVIOUS
    <2> USE DEF SigchldWindow
    <2>1. CASE Prompt \/ PromptFails
      BY <2>1 DEF Prompt, PromptFails
    <2>2. CASE ReadLine \/ Block \/ Wait
      BY <2>2 DEF ReadLine, Block, Wait
    <2>3. CASE CallDone \/ CallInternal \/ CloseIn \/ CloseNothing \/ CloseInWrite \/ After
      BY <2>3 DEF CallDone, CallInternal, CloseIn, CloseNothing, CloseInWrite, CloseEnd, After,
                  Returned, signals
    <2>4. CASE CallExternal \/ CallPipe \/ CallPipeFails
      <3>1. pc = "call" /\ \E cmd, out : Enter(cmd, out)
        BY <2>4 DEF CallExternal, CallPipe, CallPipeFails
      <3>2. pc' = "fork" /\ UNCHANGED signals  BY <3>1 DEF Enter
      <3> QED  BY <3>1, <3>2 DEF signals
    <2>5. CASE ForkFails \/ \E p \in Pid : Fork(p)
      BY <2>5 DEF ForkFails, Fork, signals
    <2>6. CASE SigchldHandler
      BY <2>6 DEF SigchldHandler, control
    <2>7. CASE Sigint
      BY <2>7 DEF Sigint, control
    <2>8. ASSUME NEW p \in Pid, Child(p) PROVE SigchldWindow'
      BY <2>8 DEF Child, ChildCrash, ChildExec, ChildExecFails, ChildReturns, control, signals
    <2>9. ASSUME NEW p \in Pid, Program(p) \/ ProgQuit(p) PROVE SigchldWindow'
      BY <2>9 DEF Program, ProgRead, ProgWrite, ProgSigpipe, ProgFinish, ProgQuit, control, signals
    <2>10. CASE UNCHANGED vars
      BY <2>10 DEF vars, control, signals
    <2> QED
      BY <2>1, <2>2, <2>3, <2>4, <2>5, <2>6, <2>7, <2>8, <2>9, <2>10 DEF Next, ShellStep, User
  <1> QED  BY <1>1, <1>2, TypeHolds, PTL DEF Spec

-----------------------------------------------------------------------------
(***************************************************************************)
(* The line and the pipes.                                                 *)
(***************************************************************************)

\* Whether the command before the next one writes a pipe.
Prev == frames # <<>> /\ cmd_is_output_pipe(Top(frames).cmd)

\* What is left of a line is well formed, after a command that writes a pipe
\* or does not.
Rest(prev, s) ==
    /\ prev => s # <<>>
    /\ \A i \in 1..Len(s) :
        /\ cmd_is_input_pipe(s[i]) <=> IF i = 1 THEN prev ELSE cmd_is_output_pipe(s[i - 1])
        /\ cmd_is_output_pipe(s[i]) => i < Len(s)
        /\ cmd_is_internal(s[i]) => ~cmd_is_input_pipe(s[i]) /\ ~cmd_is_output_pipe(s[i])

Doing == {"fork", "close", "close1", "block", "wait"}

LineInv ==
    /\ pc \in Doing \cup {"call"} => Rest(Prev, cmdList)
    /\ pc \in {"top", "parse", "after"} => cmdList = <<>>
    /\ pc \in {"top", "parse"} => frames = <<>>

PairEnds(fd) == {fd.r, fd.w}
IsPipe(fd)   == \E q \in Pipe : fd = [r |-> ReadEnd(q), w |-> WriteEnd(q)]
InEnds(f)    == IF cmd_is_input_pipe(f.cmd) THEN PairEnds(f.in) ELSE {}
OutEnds(f)   == IF cmd_is_output_pipe(f.cmd) THEN PairEnds(f.out) ELSE {}

\* A frame reads one pipe and writes another.
FrameOK(f) ==
    /\ cmd_is_input_pipe(f.cmd) => IsPipe(f.in)
    /\ cmd_is_output_pipe(f.cmd) => IsPipe(f.out)
    /\ InEnds(f) \cap OutEnds(f) = {}

\* The pipe ends that the shell has in use.
InUse ==
    IF pc = "call" THEN IF Prev THEN PairEnds(fdIn) ELSE {}
    ELSE IF pc \in {"fork", "close"} THEN InEnds(Top(frames)) \cup OutEnds(Top(frames))
    ELSE IF pc = "close1" THEN {Top(frames).in.w} \cup OutEnds(Top(frames))
    ELSE IF pc \in {"block", "wait"} THEN OutEnds(Top(frames))
    ELSE {}

PipeInv ==
    /\ pc = "call" /\ Prev => IsPipe(fdIn)
    /\ pc \in Doing => FrameOK(Top(frames))
    /\ InUse \subseteq held[Shell]
    /\ ints = 0 => held[Shell] = InUse

\* A child has the pipe ends of its own frame and no others; a program has
\* those that are its standard input and output.
ChildInv ==
    ints = 0 => \A p \in Pid :
        /\ status[p] = "setup" => /\ FrameOK(image[p])
                                  /\ held[p] = InEnds(image[p]) \cup OutEnds(image[p])
        /\ status[p] = "run" => held[p] \subseteq {stdin[p], stdout[p]}
        /\ status[p] # "stray"

\* The only child that has to be waited for and has not been is that of the
\* innermost call.
ForegroundInv ==
    /\ pc = "fork" => Top(frames).child = NoChild
    /\ ints = 0 =>
        /\ pc \in Forked /\ Top(frames).child \in Children
              => image[Top(frames).child].cmd = Top(frames).cmd
        /\ \A p \in Children : \/ ~Awaited(image[p].cmd)
                               \/ pc \in Forked /\ p = Top(frames).child

\* The kernel is never out of pipes.
PipesSuffice == FreePipes # {}

LEMMA RestTail ==
    ASSUME NEW prev \in BOOLEAN, NEW s \in Seq(Command), s # <<>>, Rest(prev, s)
    PROVE  /\ Tail(s) \in Seq(Command)
           /\ Rest(cmd_is_output_pipe(Head(s)), Tail(s))
           /\ cmd_is_input_pipe(Head(s)) <=> prev
           /\ cmd_is_internal(Head(s)) =>
                 ~cmd_is_input_pipe(Head(s)) /\ ~cmd_is_output_pipe(Head(s))
  <1>1. /\ Tail(s) \in Seq(Command) /\ Len(s) \in Nat /\ Len(s) >= 1
        /\ Len(Tail(s)) = Len(s) - 1 /\ Head(s) = s[1]
        /\ \A i \in 1..Len(Tail(s)) : Tail(s)[i] = s[i + 1]
    OBVIOUS
  <1>2. cmd_is_output_pipe(Head(s)) => Tail(s) # <<>>
    <2>1. cmd_is_output_pipe(s[1]) => 1 < Len(s)  BY <1>1 DEF Rest
    <2>2. 1 < Len(s) => Len(Tail(s)) # 0  BY <1>1
    <2>3. Tail(s) = <<>> => Len(Tail(s)) = 0
      <3>1. Len(<<>>) = 0  OBVIOUS
      <3> QED  BY <3>1, Zenon
    <2>4. cmd_is_output_pipe(Head(s)) => 1 < Len(s)  BY <1>1, <2>1
    <2> QED  BY <2>2, <2>3, <2>4
  <1>3. ASSUME NEW i \in 1..Len(Tail(s))
        PROVE  /\ cmd_is_input_pipe(Tail(s)[i]) <=>
                     IF i = 1 THEN cmd_is_output_pipe(Head(s))
                     ELSE cmd_is_output_pipe(Tail(s)[i - 1])
               /\ cmd_is_output_pipe(Tail(s)[i]) => i < Len(Tail(s))
               /\ cmd_is_internal(Tail(s)[i]) =>
                     ~cmd_is_input_pipe(Tail(s)[i]) /\ ~cmd_is_output_pipe(Tail(s)[i])
    <2>1. i + 1 \in 1..Len(s) /\ i + 1 # 1 /\ (i + 1) - 1 = i  BY <1>1
    <2>2. /\ cmd_is_input_pipe(s[i + 1]) <=> cmd_is_output_pipe(s[i])
          /\ cmd_is_output_pipe(s[i + 1]) => i + 1 < Len(s)
          /\ cmd_is_internal(s[i + 1]) => ~cmd_is_input_pipe(s[i + 1]) /\ ~cmd_is_output_pipe(s[i + 1])
      BY <2>1 DEF Rest
    <2>3. i # 1 => Tail(s)[i - 1] = s[i]  BY <1>1
    <2> QED  BY <1>1, <2>2, <2>3
  <1>4. /\ cmd_is_input_pipe(s[1]) <=> prev
        /\ cmd_is_internal(s[1]) => ~cmd_is_input_pipe(s[1]) /\ ~cmd_is_output_pipe(s[1])
    BY <1>1 DEF Rest
  <1> QED  BY <1>1, <1>2, <1>3, <1>4 DEF Rest

LEMMA LineRest == ASSUME NEW line \in Lines PROVE Rest(FALSE, line)
  BY LinesAssumption DEF Rest, WellFormed, cmd_is_input_pipe

LEMMA AppendTop ==
    ASSUME NEW s \in Seq(Frame), NEW f \in Frame
    PROVE  Append(s, f) # <<>> /\ Top(Append(s, f)) = f
  BY DEF Top

LEMMA SetChildTop ==
    ASSUME NEW s \in Seq(Frame), s # <<>>, NEW p \in Pid
    PROVE  LET t == [s EXCEPT ![Len(s)].child = p]
           IN  /\ t # <<>> /\ Top(t).child = p
               /\ Top(t).cmd = Top(s).cmd /\ Top(t).in = Top(s).in /\ Top(t).out = Top(s).out
  <1> DEFINE f == [s[Len(s)] EXCEPT !.child = p]
  <1> DEFINE t == [s EXCEPT ![Len(s)] = f]
  <1>1. Len(s) \in DOMAIN s /\ s[Len(s)] \in Frame  OBVIOUS
  <1>2. f \in Frame /\ f.child = p /\ f.cmd = s[Len(s)].cmd /\ f.in = s[Len(s)].in /\ f.out = s[Len(s)].out
    BY <1>1 DEF Frame
  <1> HIDE DEF f
  <1>3. t \in Seq(Frame) /\ Len(t) = Len(s) /\ t[Len(s)] = f  BY <1>1, <1>2
  <1>4. t # <<>> /\ Top(t) = f  BY <1>3 DEF Top
  <1> HIDE DEF t
  <1>5. [s EXCEPT ![Len(s)].child = p] = t  BY DEF t, f
  <1> QED  BY <1>2, <1>4, <1>5 DEF Top

LEMMA PipeEnds ==
    ASSUME NEW fd, IsPipe(fd)
    PROVE  fd.r # fd.w /\ PairEnds(fd) \subseteq End /\ fd \in Pair
  BY DEF IsPipe, PairEnds, ReadEnd, WriteEnd, End, Pair

CoreInv == TypeInv /\ LineInv /\ PipeInv

\* The closing of a pipe in the parent cannot fail.
LEMMA CloseSucceeds ==
    ASSUME CoreInv, CloseIn \/ CloseNothing \/ CloseInWrite
    PROVE  /\ UNCHANGED <<frames, cmdList, ints>>
           /\ \/ /\ pc = "close" /\ pc' = "close1" /\ cmd_is_input_pipe(Top(frames).cmd)
                 /\ held' = [held EXCEPT ![Shell] = @ \ {Top(frames).in.r}]
              \/ /\ pc = "close" /\ pc' = "block" /\ ~cmd_is_input_pipe(Top(frames).cmd)
                 /\ held' = held
              \/ /\ pc = "close1" /\ pc' = "block" /\ cmd_is_input_pipe(Top(frames).cmd)
                 /\ held' = [held EXCEPT ![Shell] = @ \ {Top(frames).in.w}]
  <1>1. CASE CloseIn
    <2>1. Top(frames).in.r \in held[Shell]
      BY <1>1 DEF CloseIn, CoreInv, PipeInv, InUse, InEnds, PairEnds
    <2> QED  BY <1>1, <2>1 DEF CloseIn, CloseEnd, signals
  <1>2. CASE CloseNothing
    BY <1>2 DEF CloseNothing, signals
  <1>3. CASE CloseInWrite
    <2>1. Top(frames).in.w \in held[Shell]
      BY <1>3 DEF CloseInWrite, CoreInv, PipeInv, InUse
    <2>2. cmd_is_input_pipe(Top(frames).cmd)
      BY <1>3 DEF CloseInWrite, CoreInv, TypeInv, HalfClosed
    <2> QED  BY <1>3, <2>1, <2>2 DEF CloseInWrite, CloseEnd, signals
  <1> QED  BY <1>1, <1>2, <1>3

\* The closing takes the pipe that the command reads out of use, end by end.
LEMMA CloseInUse ==
    ASSUME CoreInv, CloseIn \/ CloseNothing \/ CloseInWrite
    PROVE  \E closed \in SUBSET End :
              /\ held'[Shell] = held[Shell] \ closed
              /\ InUse' = InUse \ closed
  <1> DEFINE f == Top(frames)
  <1>0. held \in [Proc -> SUBSET End] /\ Shell \in Proc /\ FrameOK(f)
    BY CloseSucceeds DEF CoreInv, TypeInv, TypeOK, Proc, PipeInv, Doing
  <1>1. cmd_is_input_pipe(f.cmd) =>
           /\ f.in.r \in End /\ f.in.w \in End /\ f.in.r # f.in.w
           /\ InEnds(f) = {f.in.r, f.in.w} /\ f.in.r \notin OutEnds(f)
           /\ f.in.w \notin OutEnds(f)
    BY <1>0, PipeEnds DEF FrameOK, InEnds, PairEnds
  <1>2. frames' = frames  BY CloseSucceeds
  <1> HIDE DEF f
  <1>3. CASE /\ pc = "close" /\ pc' = "close1" /\ cmd_is_input_pipe(f.cmd)
             /\ held' = [held EXCEPT ![Shell] = @ \ {f.in.r}]
    <2>1. InUse = InEnds(f) \cup OutEnds(f) /\ InUse' = {f.in.w} \cup OutEnds(f)
      BY <1>2, <1>3 DEF InUse, f
    <2>2. held'[Shell] = held[Shell] \ {f.in.r} /\ InUse' = InUse \ {f.in.r}
      BY <1>0, <1>1, <1>3, <2>1
    <2> QED  BY <1>1, <1>3, <2>2
  <1>4. CASE /\ pc = "close" /\ pc' = "block" /\ ~cmd_is_input_pipe(f.cmd) /\ held' = held
    <2>1. InUse' = InUse  BY <1>2, <1>4 DEF InUse, InEnds, f
    <2> QED  BY <1>4, <2>1
  <1>5. CASE /\ pc = "close1" /\ pc' = "block" /\ cmd_is_input_pipe(f.cmd)
             /\ held' = [held EXCEPT ![Shell] = @ \ {f.in.w}]
    <2>1. InUse = {f.in.w} \cup OutEnds(f) /\ InUse' = OutEnds(f)
      BY <1>2, <1>5 DEF InUse, f
    <2>2. held'[Shell] = held[Shell] \ {f.in.w} /\ InUse' = InUse \ {f.in.w}
      BY <1>0, <1>1, <1>5, <2>1
    <2> QED  BY <1>1, <1>5, <2>2
  <1> QED  BY <1>3, <1>4, <1>5, CloseSucceeds DEF f

\* Steps that leave the shell's control and pipes alone.
LEMMA Elsewhere ==
    ASSUME LineInv, PipeInv, UNCHANGED control, held'[Shell] = held[Shell],
           ints' = ints
    PROVE  LineInv' /\ PipeInv'
  BY DEF LineInv, PipeInv, Prev, InUse, control

LEMMA LineStep == CoreInv /\ PipesSuffice /\ [Next]_vars => LineInv'
  <1> SUFFICES ASSUME CoreInv, PipesSuffice, [Next]_vars PROVE LineInv'
    OBVIOUS
  <1> USE DEF LineInv, Doing
  <1>0. LineInv /\ TypeInv /\ PipeInv /\ frames \in Seq(Frame) /\ cmdList \in Seq(Command)
    BY DEF CoreInv, TypeInv, TypeOK
  <1>1. CASE Prompt \/ PromptFails
    BY <1>0, <1>1 DEF Prompt, PromptFails
  <1>2. CASE ReadLine
    <2>1. PICK line \in Lines : cmdList' = line  BY <1>2 DEF ReadLine
    <2>2. frames = <<>> /\ frames' = frames /\ pc' = "call"
      BY <1>0, <1>2 DEF ReadLine
    <2> QED  BY <2>1, <2>2, LineRest DEF Prev
  <1>3. CASE CallDone
    <2>1. frames = <<>> => pc' = "top"  BY <1>3 DEF CallDone, Returned
    <2>2. pc' \in {"top", "after"} /\ cmdList' = <<>> /\ frames' = frames
      BY <1>3 DEF CallDone, Returned
    <2>3. pc' = "top" => frames = <<>>
      BY <1>3 DEF CallDone, Returned
    <2> QED  BY <2>2, <2>3
  <1>4. CASE CallInternal
    <2>1. Prev \in BOOLEAN /\ Rest(Prev, cmdList) /\ cmdList # <<>>
      BY <1>0, <1>4 DEF CallInternal, Prev, cmd_is_output_pipe
    <2>2. Rest(cmd_is_output_pipe(Head(cmdList)), Tail(cmdList)) /\ ~Prev
          /\ ~cmd_is_output_pipe(Head(cmdList))
      BY <1>0, <1>4, <2>1, RestTail DEF CallInternal
    <2>3. Rest(FALSE, Tail(cmdList))
      BY <2>2 DEF Rest, cmd_is_output_pipe, cmd_is_input_pipe
    <2>4. Prev' = FALSE /\ cmdList' = Tail(cmdList) /\ pc' = "call"
      BY <1>4, <2>2 DEF CallInternal, Prev, cmd_is_output_pipe
    <2> QED  BY <2>3, <2>4
  <1>5. ASSUME NEW out \in Pair, pc = "call", cmdList # <<>>, Enter(Head(cmdList), out)
        PROVE  LineInv'
    <2> DEFINE f == [cmd |-> Head(cmdList), in |-> fdIn, out |-> out, child |-> NoChild]
    <2>1. Head(cmdList) \in Command  BY <1>0, <1>5
    <2>2. f \in Frame /\ f.cmd = Head(cmdList)
      BY <1>0, <1>5, <2>1 DEF Frame, TypeInv, TypeOK
    <2> HIDE DEF f
    <2>3. frames' = Append(frames, f) /\ cmdList' = Tail(cmdList) /\ pc' = "fork"
      BY <1>5 DEF Enter, f
    <2>4. Prev' = cmd_is_output_pipe(Head(cmdList))
      <3>1. frames' # <<>> /\ Top(frames') = f  BY <1>0, <2>2, <2>3, AppendTop
      <3> QED  BY <3>1, <2>2 DEF Prev, cmd_is_output_pipe
    <2>5. Prev \in BOOLEAN /\ Rest(Prev, cmdList)
      BY <1>0, <1>5 DEF Prev, cmd_is_output_pipe
    <2>6. Rest(cmd_is_output_pipe(Head(cmdList)), Tail(cmdList))
      BY <1>0, <1>5, <2>5, RestTail
    <2> QED  BY <2>3, <2>4, <2>6
  <1>6. CASE CallExternal
    BY <1>5, <1>6, NoFrameType DEF CallExternal
  <1>7. CASE CallPipe
    <2> DEFINE q == CHOOSE q \in FreePipes : TRUE
    <2> HIDE DEF q
    <2>1. q \in Pipe  BY <1>7 DEF CallPipe, FreePipes, q
    <2>2. [r |-> ReadEnd(q), w |-> WriteEnd(q)] \in Pair
      BY <2>1 DEF Pair, End, ReadEnd, WriteEnd
    <2>3. /\ Enter(Head(cmdList), [r |-> ReadEnd(q), w |-> WriteEnd(q)])
          /\ pc = "call" /\ cmdList # <<>>
      BY <1>7 DEF CallPipe, q
    <2> QED  BY <1>5, <2>2, <2>3
  <1>8. CASE CallPipeFails
    BY <1>8 DEF CallPipeFails, PipesSuffice
  <1>9. ASSUME NEW p \in Pid, Fork(p) PROVE LineInv'
    <2>1. frames # <<>>  BY <1>0, <1>9 DEF Fork, TypeInv, HasFrame, InCommand
    <2>2. Prev' = Prev
      BY <1>0, <1>9, <2>1, SetChildTop DEF Fork, Prev
    <2> QED  BY <1>0, <1>9, <2>2 DEF Fork
  <1>10. CASE ForkFails \/ Block \/ Wait
    <2>1. frames' = frames /\ cmdList' = cmdList /\ pc \in Doing /\ pc' \in Doing \cup {"call"}
      BY <1>10 DEF ForkFails, Block, Wait
    <2>2. Prev' = Prev  BY <2>1 DEF Prev
    <2> QED  BY <1>0, <2>1, <2>2
  <1>11. CASE CloseIn \/ CloseNothing \/ CloseInWrite
    <2>1. frames' = frames /\ cmdList' = cmdList /\ pc \in Doing /\ pc' \in Doing
      BY <1>11, CloseSucceeds
    <2>2. Prev' = Prev  BY <2>1 DEF Prev
    <2> QED  BY <1>0, <2>1, <2>2
  <1>12. CASE After
    <2>1. cmdList' = <<>> /\ pc' \in {"top", "after"} /\ (pc' = "top" => frames' = <<>>)
      BY <1>0, <1>12 DEF After, Returned
    <2> QED  BY <2>1
  <1>13. ASSUME UNCHANGED control PROVE LineInv'
    BY <1>0, <1>13 DEF control, Prev
  <1>14. CASE SigchldHandler
    BY <1>13, <1>14 DEF SigchldHandler
  <1>15. CASE Sigint
    <2>1. CASE jmpok
      BY <1>15, <2>1 DEF Sigint
    <2>2. CASE ~jmpok
      BY <1>13, <1>15, <2>2 DEF Sigint
    <2> QED  BY <2>1, <2>2
  <1>16. ASSUME NEW p \in Pid, Child(p) PROVE LineInv'
    BY <1>13, <1>16 DEF Child, ChildCrash, ChildExec, ChildExecFails, ChildReturns
  <1>17. ASSUME NEW p \in Pid, Program(p) \/ ProgQuit(p) PROVE LineInv'
    BY <1>13, <1>17 DEF Program, ProgRead, ProgWrite, ProgSigpipe, ProgFinish, ProgQuit
  <1>18. CASE UNCHANGED vars
    BY <1>13, <1>18 DEF vars
  <1> QED
    BY <1>1, <1>2, <1>3, <1>4, <1>6, <1>7, <1>8, <1>9, <1>10, <1>11, <1>12, <1>14,
       <1>15, <1>16, <1>17, <1>18 DEF Next, ShellStep, User

LEMMA PipeInit == Init => LineInv /\ PipeInv
  BY DEF Init, LineInv, PipeInv, Doing, InUse, Prev, Proc

LEMMA PipeStep == CoreInv /\ PipesSuffice /\ [Next]_vars => PipeInv'
  <1> SUFFICES ASSUME CoreInv, PipesSuffice, [Next]_vars PROVE PipeInv'
    OBVIOUS
  <1>0. /\ LineInv /\ TypeInv /\ PipeInv /\ frames \in Seq(Frame)
        /\ cmdList \in Seq(Command) /\ held \in [Proc -> SUBSET End] /\ Shell \in Proc
    BY DEF CoreInv, TypeInv, TypeOK, Proc
  <1>1. CASE Prompt
    BY <1>0, <1>1 DEF Prompt, PipeInv, InUse, Doing
  <1>2. CASE PromptFails
    <2>1. held'[Shell] = {} /\ pc' = "exited" /\ ints' = ints
      BY <1>0, <1>2 DEF PromptFails
    <2> QED  BY <2>1 DEF PipeInv, InUse, Doing
  <1>3. CASE ReadLine
    <2>1. frames' = <<>> /\ pc = "parse" /\ pc' = "call" /\ held' = held /\ ints' = ints
      BY <1>0, <1>3 DEF ReadLine, LineInv
    <2>2. ~Prev' /\ InUse = {} /\ InUse' = {}  BY <2>1 DEF Prev, InUse
    <2> QED  BY <1>0, <2>1, <2>2 DEF PipeInv, Doing
  <1>4. CASE CallDone
    <2>1. ~Prev  BY <1>0, <1>4 DEF CallDone, LineInv, Rest
    <2>2. InUse = {}  BY <1>4, <2>1 DEF CallDone, InUse
    <2>3. pc' \in {"top", "after"} /\ held' = held /\ ints' = ints
      BY <1>4 DEF CallDone, Returned, signals
    <2>4. InUse' = {}  BY <2>3 DEF InUse
    <2> QED  BY <1>0, <2>2, <2>3, <2>4 DEF PipeInv, Doing
  <1>5. CASE CallInternal
    <2>1. Prev \in BOOLEAN /\ Rest(Prev, cmdList) /\ cmdList # <<>>
      BY <1>0, <1>5 DEF CallInternal, Prev, LineInv, cmd_is_output_pipe
    <2>2. ~Prev  BY <1>0, <1>5, <2>1, RestTail DEF CallInternal
    <2>3. pc = "call" /\ pc' = "call" /\ frames' = frames /\ held' = held /\ ints' = ints
      BY <1>5 DEF CallInternal, signals
    <2>4. ~Prev' /\ InUse = {} /\ InUse' = {}  BY <2>2, <2>3 DEF Prev, InUse
    <2> QED  BY <1>0, <2>3, <2>4 DEF PipeInv, Doing
  <1>6. ASSUME NEW out \in Pair, NEW more \in SUBSET End,
               pc = "call", cmdList # <<>>, ~cmd_is_internal(Head(cmdList)),
               Enter(Head(cmdList), out),
               held'[Shell] = held[Shell] \cup more,
               more = IF cmd_is_output_pipe(Head(cmdList)) THEN PairEnds(out) ELSE {},
               cmd_is_output_pipe(Head(cmdList)) =>
                  IsPipe(out) /\ PairEnds(out) \cap held[Shell] = {}
        PROVE  PipeInv'
    <2> DEFINE f == [cmd |-> Head(cmdList), in |-> fdIn, out |-> out, child |-> NoChild]
    <2>1. Head(cmdList) \in Command  BY <1>0, <1>6
    <2>2. f \in Frame /\ f.cmd = Head(cmdList) /\ f.in = fdIn /\ f.out = out
      BY <1>0, <1>6, <2>1 DEF Frame, TypeInv, TypeOK
    <2> HIDE DEF f
    <2>3. frames' = Append(frames, f) /\ pc' = "fork" /\ ints' = ints
      BY <1>6 DEF Enter, f, signals
    <2>4. Top(frames') = f  BY <1>0, <2>2, <2>3, AppendTop
    <2>5. Prev \in BOOLEAN /\ Rest(Prev, cmdList)
      BY <1>0, <1>6 DEF Prev, LineInv, cmd_is_output_pipe
    <2>6. cmd_is_input_pipe(f.cmd) <=> Prev
      BY <1>0, <1>6, <2>2, <2>5, RestTail
    <2>7. InUse = InEnds(f)  BY <1>6, <2>2, <2>6 DEF InUse, InEnds
    <2>8. InUse \subseteq held[Shell] /\ (ints = 0 => held[Shell] = InUse)
      BY <1>0 DEF PipeInv
    <2>9. OutEnds(f) = more  BY <1>6, <2>2 DEF OutEnds
    <2>10. FrameOK(f)
      <3>1. cmd_is_input_pipe(f.cmd) => IsPipe(f.in)
        BY <1>0, <1>6, <2>2, <2>6 DEF PipeInv
      <3>2. cmd_is_output_pipe(f.cmd) => IsPipe(f.out)  BY <1>6, <2>2
      <3>3. InEnds(f) \cap OutEnds(f) = {}  BY <1>6, <2>7, <2>8, <2>9
      <3> QED  BY <3>1, <3>2, <3>3 DEF FrameOK
    <2>11. InUse' = InEnds(f) \cup OutEnds(f)  BY <2>3, <2>4 DEF InUse
    <2>12. InUse' \subseteq held'[Shell] /\ (ints' = 0 => held'[Shell] = InUse')
      BY <1>6, <2>3, <2>7, <2>8, <2>9, <2>11
    <2> QED  BY <2>3, <2>4, <2>10, <2>12 DEF PipeInv
  <1>7. CASE CallExternal
    <2>1. held'[Shell] = held[Shell] \cup {}  BY <1>7 DEF CallExternal
    <2> QED  BY <1>6, <1>7, <2>1, NoFrameType DEF CallExternal
  <1>8. CASE CallPipe
    <2> DEFINE q == CHOOSE q \in FreePipes : TRUE
    <2> DEFINE out == [r |-> ReadEnd(q), w |-> WriteEnd(q)]
    <2> HIDE DEF q
    <2>1. q \in FreePipes /\ q \in Pipe  BY <1>8 DEF CallPipe, FreePipes, q
    <2>2. out \in Pair /\ IsPipe(out)
      BY <2>1 DEF Pair, End, ReadEnd, WriteEnd, IsPipe
    <2>3. PairEnds(out) = {ReadEnd(q), WriteEnd(q)}  BY DEF PairEnds
    <2>4. PairEnds(out) \cap held[Shell] = {}
      <3>1. Holders(ReadEnd(q)) = {} /\ Holders(WriteEnd(q)) = {}
        BY <2>1 DEF FreePipes
      <3> QED  BY <1>0, <2>3, <3>1 DEF Holders
    <2>5. /\ Enter(Head(cmdList), out) /\ pc = "call" /\ cmdList # <<>>
          /\ ~cmd_is_internal(Head(cmdList)) /\ cmd_is_output_pipe(Head(cmdList))
          /\ held' = [held EXCEPT ![Shell] = @ \cup {ReadEnd(q), WriteEnd(q)}]
      BY <1>8 DEF CallPipe, q
    <2>6. held'[Shell] = held[Shell] \cup PairEnds(out)  BY <1>0, <2>3, <2>5
    <2>7. PairEnds(out) \subseteq End  BY <2>1, <2>3 DEF End, ReadEnd, WriteEnd
    <2> HIDE DEF out
    <2> QED  BY <1>6, <2>2, <2>4, <2>5, <2>6, <2>7
  <1>9. CASE CallPipeFails
    BY <1>9 DEF CallPipeFails, PipesSuffice
  <1>10. ASSUME NEW p \in Pid, Fork(p) PROVE PipeInv'
    <2>1. frames # <<>>  BY <1>0, <1>10 DEF Fork, TypeInv, HasFrame, InCommand
    <2>2. /\ Top(frames').cmd = Top(frames).cmd /\ Top(frames').in = Top(frames).in
          /\ Top(frames').out = Top(frames).out
      BY <1>0, <1>10, <2>1, SetChildTop DEF Fork
    <2>3. held'[Shell] = held[Shell] /\ ints' = ints /\ pc = "fork" /\ pc' = "close"
      BY <1>0, <1>10, ProcAssumption DEF Fork, signals
    <2>4. InUse' = InUse  BY <2>2, <2>3 DEF InUse, InEnds, OutEnds
    <2>5. FrameOK(Top(frames))'
      BY <1>0, <2>2, <2>3 DEF PipeInv, Doing, FrameOK, InEnds, OutEnds
    <2> QED  BY <1>0, <2>3, <2>4, <2>5 DEF PipeInv
  <1>11. CASE ForkFails
    <2>1. /\ pc = "fork" /\ pc' = "close" /\ frames' = frames /\ held' = held /\ ints' = ints
      BY <1>11 DEF ForkFails, signals
    <2>2. InUse' = InUse  BY <2>1 DEF InUse
    <2> QED  BY <1>0, <2>1, <2>2 DEF PipeInv, Doing
  <1>12. CASE CloseIn \/ CloseNothing \/ CloseInWrite
    <2>1. frames' = frames /\ ints' = ints /\ pc \in Doing /\ pc' \in Doing \ {"call"}
      BY <1>12, CloseSucceeds DEF Doing
    <2>2. FrameOK(Top(frames))  BY <1>0, <2>1 DEF PipeInv
    <2>3. InUse \subseteq held[Shell] /\ (ints = 0 => held[Shell] = InUse)
      BY <1>0 DEF PipeInv
    <2>4. InUse' \subseteq held'[Shell] /\ (ints' = 0 => held'[Shell] = InUse')
      BY <1>12, <2>1, <2>3, CloseInUse
    <2> QED  BY <2>1, <2>2, <2>4 DEF PipeInv, Doing
  <1>13. CASE Block
    <2>1. pc = "block" /\ pc' = "wait" /\ frames' = frames /\ held' = held /\ ints' = ints
      BY <1>13 DEF Block
    <2>2. InUse' = InUse  BY <2>1 DEF InUse
    <2> QED  BY <1>0, <2>1, <2>2 DEF PipeInv, Doing
  <1>14. CASE Wait
    <2>1. /\ pc = "wait" /\ pc' = "call" /\ frames' = frames /\ held' = held /\ ints' = ints
          /\ fdIn' = Top(frames).out
      BY <1>14 DEF Wait, Passed
    <2>2. frames # <<>>  BY <1>0, <2>1 DEF TypeInv, HasFrame, InCommand
    <2>3. Prev <=> cmd_is_output_pipe(Top(frames).cmd)  BY <2>2 DEF Prev
    <2>4. InUse' = InUse /\ (Prev' <=> Prev)  BY <2>1, <2>3 DEF InUse, OutEnds, Prev
    <2>5. Prev' => IsPipe(fdIn')
      BY <1>0, <2>1, <2>3, <2>4 DEF PipeInv, Doing, FrameOK
    <2> QED  BY <1>0, <2>1, <2>4, <2>5 DEF PipeInv, Doing
  <1>15. CASE After
    <2>1. pc = "after" /\ pc' \in {"top", "after"} /\ held' = held /\ ints' = ints
      BY <1>15 DEF After, Returned, signals
    <2>2. InUse = {} /\ InUse' = {}  BY <2>1 DEF InUse
    <2> QED  BY <1>0, <2>1, <2>2 DEF PipeInv, Doing
  <1>16. CASE SigchldHandler
    BY <1>0, <1>16, Elsewhere DEF SigchldHandler
  <1>17. CASE Sigint
    <2>1. CASE jmpok
      <3>1. ints' # 0 /\ pc' = "top"
        BY <1>17, <2>1 DEF Sigint, CoreInv, TypeInv, TypeOK
      <3> QED  BY <3>1 DEF PipeInv, InUse, Doing
    <2>2. CASE ~jmpok
      <3>1. UNCHANGED <<control, held>> /\ ints' # 0
        BY <1>17, <2>2 DEF Sigint, CoreInv, TypeInv, TypeOK
      <3>2. InUse' = InUse /\ Prev' = Prev  BY <3>1 DEF InUse, Prev, control
      <3> QED  BY <1>0, <3>1, <3>2 DEF PipeInv, control
    <2> QED  BY <2>1, <2>2
  <1>18. ASSUME NEW p \in Pid, Child(p) \/ Program(p) \/ ProgQuit(p) PROVE PipeInv'
    <2>1. UNCHANGED control /\ ints' = ints
      BY <1>18 DEF Child, ChildCrash, ChildExec, ChildExecFails, ChildReturns, Program, ProgRead,
                   ProgWrite, ProgSigpipe, ProgFinish, ProgQuit, signals
    <2>2. held'[Shell] = held[Shell]
      BY <1>0, <1>18, ProcAssumption
         DEF Child, ChildCrash, ChildExec, ChildExecFails, ChildReturns, Program, ProgRead,
             ProgWrite, ProgSigpipe, ProgFinish, ProgQuit, Die
    <2> QED  BY <1>0, <2>1, <2>2, Elsewhere
  <1>19. CASE UNCHANGED vars
    BY <1>0, <1>19, Elsewhere DEF vars, signals
  <1> QED
    BY <1>1, <1>2, <1>3, <1>4, <1>5, <1>7, <1>8, <1>9, <1>10, <1>11, <1>12, <1>13, <1>14,
       <1>15, <1>16, <1>17, <1>18, <1>19 DEF Next, ShellStep, User

LEMMA CoreHolds == Spec /\ []PipesSuffice => []CoreInv
  <1>1. Init => CoreInv  BY InitType, PipeInit DEF CoreInv
  <1>2. CoreInv /\ PipesSuffice /\ [Next]_vars => CoreInv'
    BY StepType, LineStep, PipeStep DEF CoreInv
  <1> QED  BY <1>1, <1>2, PTL DEF Spec

\* While the kernel has pipes to give, a command that reads a pipe always gets
\* the two open ends of one pipe, with any number of ^C before it.
THEOREM PipesHandedOver == Spec /\ []PipesSuffice => []PipeHandedOver
  <1>1. CoreInv => PipeHandedOver
    <2> SUFFICES ASSUME CoreInv PROVE PipeHandedOver  OBVIOUS
    <2>1. CASE pc = "call" /\ cmdList # <<>> /\ cmd_is_input_pipe(Head(cmdList))
      <3>1. Prev \in BOOLEAN /\ Rest(Prev, cmdList) /\ cmdList \in Seq(Command)
        BY <2>1 DEF Prev, CoreInv, LineInv, TypeInv, TypeOK, cmd_is_output_pipe
      <3>2. Prev  BY <2>1, <3>1, RestTail
      <3> QED
        BY <2>1, <3>2 DEF CoreInv, PipeInv, InUse, IsPipe, PairEnds, PipeHandedOver
    <2>2. CASE pc \in {"fork", "close"} /\ cmd_is_input_pipe(Top(frames).cmd)
      BY <2>2 DEF CoreInv, PipeInv, Doing, FrameOK, InUse, InEnds, IsPipe, PairEnds, PipeHandedOver
    <2> QED  BY <2>1, <2>2 DEF PipeHandedOver
  <1> QED  BY <1>1, CoreHolds, PTL

-----------------------------------------------------------------------------
(***************************************************************************)
(* What the shell leaves open.  Between two ^C nothing is added to the     *)
(* ends it holds and no frame will close, and a ^C adds the ends in use.   *)
(***************************************************************************)
Lost    == held[Shell] \ InUse
LostInv == IsFiniteSet(Lost) /\ Cardinality(Lost) <= EndsInUse * ints

\* What is left of the line, and the command the shell is with, was typed.
LineCommands == UNION {{line[i] : i \in 1..Len(line)} : line \in Lines}
FromLines ==
    /\ \A i \in 1..Len(cmdList) : cmdList[i] \in LineCommands
    /\ pc \in Doing => Top(frames).cmd \in LineCommands

LEMMA LostKept ==
    CoreInv /\ PipesSuffice /\ [Next]_vars =>
        \/ Lost' \subseteq Lost /\ ints' = ints
        \/ Sigint
  <1> SUFFICES ASSUME CoreInv, PipesSuffice, [Next]_vars, ~Sigint
               PROVE  Lost' \subseteq Lost /\ ints' = ints
    OBVIOUS
  <1>0. /\ LineInv /\ TypeInv /\ PipeInv /\ frames \in Seq(Frame)
        /\ cmdList \in Seq(Command) /\ held \in [Proc -> SUBSET End] /\ Shell \in Proc
    BY DEF CoreInv, TypeInv, TypeOK, Proc
  <1>k. ASSUME held'[Shell] \subseteq held[Shell], InUse \subseteq InUse', ints' = ints
        PROVE  Lost' \subseteq Lost /\ ints' = ints
    BY <1>k DEF Lost
  <1>1. CASE Prompt
    BY <1>1, <1>k DEF Prompt, InUse
  <1>2. CASE PromptFails
    BY <1>0, <1>2 DEF PromptFails, Lost
  <1>3. CASE ReadLine
    <2>1. InUse = {} /\ held' = held /\ ints' = ints  BY <1>3 DEF ReadLine, InUse
    <2> QED  BY <2>1, <1>k
  <1>4. CASE CallDone
    <2>1. ~Prev  BY <1>0, <1>4 DEF CallDone, LineInv, Rest
    <2>2. InUse = {} /\ held' = held /\ ints' = ints  BY <1>4, <2>1 DEF CallDone, InUse, signals
    <2> QED  BY <2>2, <1>k
  <1>5. CASE CallInternal
    <2>1. Prev \in BOOLEAN /\ Rest(Prev, cmdList) /\ cmdList # <<>>
      BY <1>0, <1>5 DEF CallInternal, Prev, LineInv, cmd_is_output_pipe
    <2>2. ~Prev  BY <1>0, <1>5, <2>1, RestTail DEF CallInternal
    <2>3. InUse = {} /\ held' = held /\ ints' = ints  BY <1>5, <2>2 DEF CallInternal, InUse, signals
    <2> QED  BY <2>3, <1>k
  <1>6. ASSUME NEW out \in Pair, pc = "call", cmdList # <<>>, Enter(Head(cmdList), out),
               held'[Shell] = held[Shell]
                  \cup IF cmd_is_output_pipe(Head(cmdList)) THEN PairEnds(out) ELSE {}
        PROVE  Lost' \subseteq Lost /\ ints' = ints
    <2> DEFINE f == [cmd |-> Head(cmdList), in |-> fdIn, out |-> out, child |-> NoChild]
    <2>1. Head(cmdList) \in Command  BY <1>0, <1>6
    <2>2. f \in Frame /\ f.cmd = Head(cmdList) /\ f.in = fdIn /\ f.out = out
      BY <1>0, <1>6, <2>1 DEF Frame, TypeInv, TypeOK
    <2> HIDE DEF f
    <2>3. frames' = Append(frames, f) /\ pc' = "fork" /\ ints' = ints
      BY <1>6 DEF Enter, f, signals
    <2>4. Top(frames') = f  BY <1>0, <2>2, <2>3, AppendTop
    <2>5. Prev \in BOOLEAN /\ Rest(Prev, cmdList)
      BY <1>0, <1>6 DEF Prev, LineInv, cmd_is_output_pipe
    <2>6. cmd_is_input_pipe(f.cmd) <=> Prev
      BY <1>0, <1>6, <2>2, <2>5, RestTail
    <2>7. InUse = InEnds(f)  BY <1>6, <2>2, <2>6 DEF InUse, InEnds
    <2>8. held'[Shell] = held[Shell] \cup OutEnds(f)  BY <1>6, <2>2 DEF OutEnds
    <2>9. InUse' = InEnds(f) \cup OutEnds(f)  BY <2>3, <2>4 DEF InUse
    <2> QED  BY <2>3, <2>7, <2>8, <2>9 DEF Lost
  <1>7. CASE CallExternal
    BY <1>6, <1>7, NoFrameType DEF CallExternal
  <1>8. CASE CallPipe
    <2> DEFINE q == CHOOSE q \in FreePipes : TRUE
    <2> DEFINE out == [r |-> ReadEnd(q), w |-> WriteEnd(q)]
    <2> HIDE DEF q
    <2>1. q \in Pipe  BY <1>8 DEF CallPipe, FreePipes, q
    <2>2. out \in Pair /\ PairEnds(out) = {ReadEnd(q), WriteEnd(q)}
      BY <2>1 DEF Pair, End, ReadEnd, WriteEnd, PairEnds
    <2>3. /\ Enter(Head(cmdList), out) /\ pc = "call" /\ cmdList # <<>>
          /\ cmd_is_output_pipe(Head(cmdList))
          /\ held' = [held EXCEPT ![Shell] = @ \cup {ReadEnd(q), WriteEnd(q)}]
      BY <1>8 DEF CallPipe, q
    <2>4. held'[Shell] = held[Shell] \cup PairEnds(out)  BY <1>0, <2>2, <2>3
    <2> HIDE DEF out
    <2> QED  BY <1>6, <2>2, <2>3, <2>4
  <1>9. CASE CallPipeFails
    BY <1>9 DEF CallPipeFails, PipesSuffice
  <1>10. ASSUME NEW p \in Pid, Fork(p) PROVE Lost' \subseteq Lost /\ ints' = ints
    <2>1. frames # <<>>  BY <1>0, <1>10 DEF Fork, TypeInv, HasFrame, InCommand
    <2>2. /\ Top(frames').cmd = Top(frames).cmd /\ Top(frames').in = Top(frames).in
          /\ Top(frames').out = Top(frames).out
      BY <1>0, <1>10, <2>1, SetChildTop DEF Fork
    <2>3. held'[Shell] = held[Shell] /\ ints' = ints /\ pc = "fork" /\ pc' = "close"
      BY <1>0, <1>10, ProcAssumption DEF Fork, signals
    <2>4. InUse' = InUse  BY <2>2, <2>3 DEF InUse, InEnds, OutEnds
    <2> QED  BY <2>3, <2>4, <1>k
  <1>11. CASE ForkFails \/ Block
    <2>1. /\ (pc = "fork" /\ pc' = "close") \/ (pc = "block" /\ pc' = "wait")
          /\ frames' = frames /\ held' = held /\ ints' = ints
      BY <1>11 DEF ForkFails, Block, signals
    <2>2. InUse' = InUse  BY <2>1 DEF InUse
    <2> QED  BY <2>1, <2>2, <1>k
  <1>12. CASE CloseIn \/ CloseNothing \/ CloseInWrite
    BY <1>12, CloseSucceeds, CloseInUse DEF Lost
  <1>13. CASE Wait
    <2>1. /\ pc = "wait" /\ pc' = "call" /\ frames' = frames /\ held' = held /\ ints' = ints
          /\ fdIn' = Top(frames).out
      BY <1>13 DEF Wait, Passed
    <2>2. frames # <<>>  BY <1>0, <2>1 DEF TypeInv, HasFrame, InCommand
    <2>3. InUse' = InUse  BY <2>1, <2>2 DEF InUse, OutEnds, Prev
    <2> QED  BY <2>1, <2>3, <1>k
  <1>14. CASE After
    <2>1. InUse = {} /\ held' = held /\ ints' = ints  BY <1>14 DEF After, InUse, signals
    <2> QED  BY <2>1, <1>k
  <1>15. ASSUME UNCHANGED control, ints' = ints, held'[Shell] = held[Shell]
         PROVE  Lost' \subseteq Lost /\ ints' = ints
    <2>1. InUse' = InUse  BY <1>15 DEF InUse, Prev, control
    <2> QED  BY <1>15, <2>1, <1>k
  <1>16. CASE SigchldHandler \/ UNCHANGED vars
    BY <1>15, <1>16 DEF SigchldHandler, vars, signals
  <1>17. ASSUME NEW p \in Pid, Child(p) \/ Program(p) \/ ProgQuit(p)
         PROVE  Lost' \subseteq Lost /\ ints' = ints
    <2>1. UNCHANGED control /\ ints' = ints
      BY <1>17 DEF Child, ChildCrash, ChildExec, ChildExecFails, ChildReturns, Program, ProgRead,
                   ProgWrite, ProgSigpipe, ProgFinish, ProgQuit, signals
    <2>2. held'[Shell] = held[Shell]
      BY <1>0, <1>17, ProcAssumption
         DEF Child, ChildCrash, ChildExec, ChildExecFails, ChildReturns, Program, ProgRead,
             ProgWrite, ProgSigpipe, ProgFinish, ProgQuit, Die
    <2> QED  BY <2>1, <2>2, <1>15
  <1> QED
    BY <1>1, <1>2, <1>3, <1>4, <1>5, <1>7, <1>8, <1>9, <1>10, <1>11, <1>12, <1>13, <1>14,
       <1>16, <1>17 DEF Next, ShellStep, User

LEMMA FromLinesStep == TypeInv /\ FromLines /\ [Next]_vars => FromLines'
  <1> SUFFICES ASSUME TypeInv, FromLines, [Next]_vars PROVE FromLines'  OBVIOUS
  <1>0. frames \in Seq(Frame) /\ cmdList \in Seq(Command) /\ fdIn \in Pair /\ pc \in PC
    BY DEF TypeInv, TypeOK
  <1>1. ASSUME cmdList' = <<>> \/ cmdList' = cmdList,
               pc' \notin Doing \/ (pc \in Doing /\ Top(frames').cmd = Top(frames).cmd)
        PROVE  FromLines'
    <2>1. cmdList' = <<>> => Len(cmdList') = 0  OBVIOUS
    <2> QED  BY <1>1, <2>1 DEF FromLines
  <1>2. \A t : Returned(t) \notin Doing  BY DEF Returned, Doing
  <1>3. CASE Prompt \/ PromptFails \/ CallDone \/ Wait \/ After
    <2>1. pc' \notin Doing /\ (cmdList' = <<>> \/ cmdList' = cmdList)
      BY <1>2, <1>3 DEF Prompt, PromptFails, CallDone, Wait, After, Doing
    <2> QED  BY <2>1, <1>1
  <1>4. CASE ReadLine
    <2>1. cmdList' \in Lines /\ pc' \notin Doing  BY <1>4 DEF ReadLine, Doing
    <2> QED  BY <2>1 DEF FromLines, LineCommands
  <1>5. ASSUME cmdList # <<>>, cmdList' = Tail(cmdList)
        PROVE  /\ \A i \in 1..Len(cmdList') : cmdList'[i] \in LineCommands
               /\ Head(cmdList) \in LineCommands
    <2>1. /\ Len(cmdList) \in Nat /\ 1 \in 1..Len(cmdList) /\ Head(cmdList) = cmdList[1]
          /\ Len(cmdList') = Len(cmdList) - 1
          /\ \A i \in 1..Len(cmdList') : i + 1 \in 1..Len(cmdList) /\ cmdList'[i] = cmdList[i + 1]
      BY <1>0, <1>5
    <2> QED  BY <2>1 DEF FromLines
  <1>6. CASE CallInternal
    <2>1. cmdList # <<>> /\ cmdList' = Tail(cmdList) /\ pc' \notin Doing
      BY <1>6 DEF CallInternal, Doing
    <2> QED  BY <2>1, <1>5 DEF FromLines
  <1>7. ASSUME NEW out \in Pair, cmdList # <<>>, Enter(Head(cmdList), out)
        PROVE  FromLines'
    <2> DEFINE f == [cmd |-> Head(cmdList), in |-> fdIn, out |-> out, child |-> NoChild]
    <2>1. Head(cmdList) \in Command  BY <1>0, <1>7
    <2>2. f \in Frame /\ f.cmd = Head(cmdList)  BY <1>0, <2>1 DEF Frame
    <2> HIDE DEF f
    <2>3. frames' = Append(frames, f) /\ cmdList' = Tail(cmdList)  BY <1>7 DEF Enter, f
    <2>4. Top(frames').cmd = Head(cmdList)  BY <1>0, <2>2, <2>3, AppendTop
    <2> QED  BY <1>5, <1>7, <2>3, <2>4 DEF FromLines
  <1>8. CASE CallExternal
    BY <1>7, <1>8, NoFrameType DEF CallExternal
  <1>9. CASE CallPipe
    <2> DEFINE q == CHOOSE q \in FreePipes : TRUE
    <2> DEFINE out == [r |-> ReadEnd(q), w |-> WriteEnd(q)]
    <2> HIDE DEF q
    <2>1. q \in Pipe  BY <1>9 DEF CallPipe, FreePipes, q
    <2>2. out \in Pair  BY <2>1 DEF Pair, End, ReadEnd, WriteEnd
    <2>3. cmdList # <<>> /\ Enter(Head(cmdList), out)  BY <1>9 DEF CallPipe, q
    <2> HIDE DEF out
    <2> QED  BY <1>7, <2>2, <2>3
  <1>10. CASE CallPipeFails
    <2>1. held[Shell] \subseteq End  BY DEF TypeInv, TypeOK, Proc
    <2>2. cmdList # <<>> /\ \E r, w \in held[Shell] \cup {Bad} : Enter(Head(cmdList), [r |-> r, w |-> w])
      BY <1>10 DEF CallPipeFails
    <2>3. PICK r, w \in held[Shell] \cup {Bad} : Enter(Head(cmdList), [r |-> r, w |-> w])
      BY <2>2
    <2>4. [r |-> r, w |-> w] \in Pair  BY <2>1 DEF Pair
    <2> QED  BY <1>7, <2>2, <2>3, <2>4
  <1>11. ASSUME NEW p \in Pid, Fork(p) PROVE FromLines'
    <2>1. frames # <<>> /\ pc \in Doing /\ cmdList' = cmdList
      BY <1>11 DEF Fork, TypeInv, HasFrame, InCommand, Doing
    <2>2. Top(frames').cmd = Top(frames).cmd  BY <1>0, <1>11, <2>1, SetChildTop DEF Fork
    <2> QED  BY <2>1, <2>2, <1>1
  <1>12. CASE ForkFails \/ CloseNothing \/ Block
    <2>1. pc \in Doing /\ frames' = frames /\ cmdList' = cmdList
      BY <1>12 DEF ForkFails, CloseNothing, Block, Doing
    <2> QED  BY <2>1, <1>1
  <1>13. CASE CloseIn \/ CloseInWrite
    <2>1. /\ pc \in Doing /\ cmdList' = cmdList
          /\ frames' = frames \/ \E t : pc' = Returned(t)
      BY <1>13 DEF CloseIn, CloseInWrite, CloseEnd, Doing
    <2> QED  BY <2>1, <1>1, <1>2
  <1>14. CASE Sigint
    <2>1. \/ pc' = "top" /\ cmdList' = <<>>
          \/ UNCHANGED control
      BY <1>14 DEF Sigint
    <2> QED  BY <2>1, <1>1 DEF control, Doing
  <1>15. CASE SigchldHandler \/ (\E p \in Pid : Child(p) \/ Program(p) \/ ProgQuit(p)) \/ UNCHANGED vars
    <2>1. UNCHANGED control
      BY <1>15 DEF SigchldHandler, Child, ChildCrash, ChildExec, ChildExecFails, ChildReturns,
                   Program, ProgRead, ProgWrite, ProgSigpipe, ProgFinish, ProgQuit, vars
    <2> QED  BY <2>1, <1>1 DEF control
  <1> QED
    BY <1>3, <1>4, <1>6, <1>8, <1>9, <1>10, <1>11, <1>12, <1>13, <1>14, <1>15
       DEF Next, ShellStep, User

LEMMA TwoAtMost ==
    ASSUME NEW a, NEW b
    PROVE  IsFiniteSet({a, b}) /\ Cardinality({a, b}) \in Nat /\ Cardinality({a, b}) <= 2
  <1>1. IsFiniteSet({a}) /\ Cardinality({a}) = 1  BY FS_Singleton
  <1>2. {a, b} = {a} \cup {b}  OBVIOUS
  <1>3. /\ IsFiniteSet({a} \cup {b})
        /\ b \notin {a} => Cardinality({a} \cup {b}) = Cardinality({a}) + 1
        /\ b \in {a} => Cardinality({a} \cup {b}) = Cardinality({a})
    BY <1>1, FS_AddElement
  <1> QED  BY <1>1, <1>2, <1>3

\* A call has two pipes in use at most.
LEMMA FourInUse == IsFiniteSet(InUse) /\ Cardinality(InUse) <= 4
  <1>1. \A a, b : IsFiniteSet({a, b}) /\ Cardinality({a, b}) \in Nat /\ Cardinality({a, b}) <= 2
    BY TwoAtMost
  <1>2. IsFiniteSet({}) /\ Cardinality({}) = 0  BY FS_EmptySet
  <1>3. \A fd : IsFiniteSet(PairEnds(fd)) /\ Cardinality(PairEnds(fd)) \in Nat /\ Cardinality(PairEnds(fd)) <= 2
    BY <1>1 DEF PairEnds
  <1>4. PICK A, B : /\ InUse = A \cup B
                    /\ IsFiniteSet(A) /\ Cardinality(A) \in Nat /\ Cardinality(A) <= 2
                    /\ IsFiniteSet(B) /\ Cardinality(B) \in Nat /\ Cardinality(B) <= 2
    <2>1. \A f : /\ InEnds(f) = {} \/ InEnds(f) = PairEnds(f.in)
                 /\ OutEnds(f) = {} \/ OutEnds(f) = PairEnds(f.out)
      BY DEF InEnds, OutEnds
    <2>2. \/ InUse = PairEnds(fdIn) \/ InUse = {} \/ InUse = OutEnds(Top(frames))
          \/ InUse = InEnds(Top(frames)) \cup OutEnds(Top(frames))
          \/ InUse = {Top(frames).in.w} \cup OutEnds(Top(frames))
      BY DEF InUse
    <2> DEFINE Small(S) == IsFiniteSet(S) /\ Cardinality(S) \in Nat /\ Cardinality(S) <= 2
    <2>3. Small({}) /\ (\A fd : Small(PairEnds(fd))) /\ \A a : Small({a})
      <3>1. \A a : {a} = {a, a}  OBVIOUS
      <3> QED  BY <1>1, <1>2, <1>3, <3>1
    <2> HIDE DEF Small
    <2>4. \A S : S = S \cup {} /\ {} = {} \cup {}  OBVIOUS
    <2>5. \E A, B : InUse = A \cup B /\ Small(A) /\ Small(B)
      <3>1. Small(InEnds(Top(frames))) /\ Small(OutEnds(Top(frames)))
        BY <2>1, <2>3
      <3> QED  BY <3>1, <2>2, <2>3, <2>4
    <2> QED  BY <2>5 DEF Small
  <1>5. Cardinality(A \cap B) \in Nat
    BY <1>4, FS_Intersection, FS_CardinalityType
  <1>6. /\ IsFiniteSet(A \cup B)
        /\ Cardinality(A \cup B) = Cardinality(A) + Cardinality(B) - Cardinality(A \cap B)
    BY <1>4, FS_Union
  <1> QED  BY <1>4, <1>5, <1>6

\* A call that does not both read and write a pipe has one in use.
LEMMA EndsBound ==
    ASSUME TypeInv, FromLines
    PROVE  EndsInUse \in Nat /\ IsFiniteSet(InUse) /\ Cardinality(InUse) <= EndsInUse
  <1>1. EndsInUse \in {2, 4}  BY DEF EndsInUse
  <1>2. CASE EndsInUse = 4  BY <1>1, <1>2, FourInUse
  <1>3. CASE EndsInUse = 2
    <2>1. \A cmd \in LineCommands : ~(cmd_is_input_pipe(cmd) /\ cmd_is_output_pipe(cmd))
      BY <1>3 DEF EndsInUse, LineCommands
    <2> DEFINE f == Top(frames)
    <2>2. pc \in Doing => InEnds(f) = {} \/ OutEnds(f) = {}
      BY <2>1 DEF FromLines, InEnds, OutEnds
    <2>3. pc = "close1" => OutEnds(f) = {}
      BY <2>1 DEF FromLines, Doing, TypeInv, HalfClosed, OutEnds
    <2>4. /\ InEnds(f) = {} \/ InEnds(f) = {f.in.r, f.in.w}
          /\ OutEnds(f) = {} \/ OutEnds(f) = {f.out.r, f.out.w}
      BY DEF InEnds, OutEnds, PairEnds
    <2>5. \/ InUse = {} \/ InUse = {fdIn.r, fdIn.w} \/ InUse = {f.in.r, f.in.w}
          \/ InUse = {f.out.r, f.out.w} \/ InUse = {f.in.w, f.in.w}
      <3> HIDE DEF f
      <3>1. CASE pc = "call"  BY <3>1 DEF InUse, PairEnds
      <3>2. CASE pc \in {"fork", "close"}
        <4>1. InUse = InEnds(f) \cup OutEnds(f)  BY <3>2 DEF InUse, f
        <4> QED  BY <3>2, <4>1, <2>2, <2>4 DEF Doing
      <3>3. CASE pc = "close1"
        <4>1. InUse = {f.in.w} \cup OutEnds(f)  BY <3>3 DEF InUse, f
        <4> QED  BY <3>3, <4>1, <2>3
      <3>4. CASE pc \in {"block", "wait"}
        <4>1. InUse = OutEnds(f)  BY <3>4 DEF InUse, f
        <4> QED  BY <4>1, <2>4
      <3>5. CASE pc \notin Doing \cup {"call"}  BY <3>5 DEF InUse, Doing
      <3> QED  BY <3>1, <3>2, <3>3, <3>4, <3>5 DEF Doing
    <2>6. CASE InUse = {}  BY <1>3, <2>6, FS_EmptySet
    <2>7. CASE \E a, b : InUse = {a, b}  BY <1>3, <2>7, TwoAtMost
    <2> QED  BY <2>5, <2>6, <2>7
  <1> QED  BY <1>1, <1>2, <1>3

LEMMA LostStep == CoreInv /\ FromLines /\ PipesSuffice /\ LostInv /\ [Next]_vars => LostInv'
  <1> SUFFICES ASSUME CoreInv, FromLines, PipesSuffice, LostInv, [Next]_vars PROVE LostInv'  OBVIOUS
  <1> DEFINE bound == EndsInUse
  <1>b. bound \in {2, 4} /\ EndsInUse' = bound  BY DEF EndsInUse
  <1>0. ints \in Nat /\ held \in [Proc -> SUBSET End]
    BY DEF CoreInv, TypeInv, TypeOK
  <1>1. IsFiniteSet(Lost) /\ Cardinality(Lost) \in Nat /\ Cardinality(Lost) <= bound * ints
    BY FS_CardinalityType DEF LostInv
  <1>2. CASE Lost' \subseteq Lost /\ ints' = ints
    <2>1. IsFiniteSet(Lost') /\ Cardinality(Lost') <= Cardinality(Lost) /\ Cardinality(Lost') \in Nat
      BY <1>1, <1>2, FS_Subset, FS_CardinalityType
    <2> QED  BY <1>0, <1>1, <1>2, <1>b, <2>1 DEF LostInv
  <1>3. CASE Sigint
    <2> DEFINE U == InUse
    <2>1. IsFiniteSet(U) /\ Cardinality(U) \in Nat /\ Cardinality(U) <= bound
      BY EndsBound, FS_CardinalityType DEF CoreInv
    <2>2. Lost' \subseteq Lost \cup U /\ ints' = ints + 1
      <3>1. held'[Shell] = held[Shell] /\ ints' = ints + 1
        BY <1>0, <1>3, ProcAssumption DEF Sigint, Proc
      <3> QED  BY <3>1 DEF Lost
    <2> HIDE DEF U
    <2>3. Cardinality(Lost \cap U) \in Nat
      BY <1>1, FS_Intersection, FS_CardinalityType
    <2>4. /\ IsFiniteSet(Lost \cup U)
          /\ Cardinality(Lost \cup U) = Cardinality(Lost) + Cardinality(U) - Cardinality(Lost \cap U)
      BY <1>1, <2>1, FS_Union
    <2>5. IsFiniteSet(Lost') /\ Cardinality(Lost') <= Cardinality(Lost \cup U) /\ Cardinality(Lost') \in Nat
      BY <2>2, <2>4, FS_Subset, FS_CardinalityType
    <2>6. bound * (ints + 1) = bound * ints + bound
      BY <1>0, <1>b
    <2>7. Cardinality(Lost') <= bound * ints'
      <3> HIDE DEF bound
      <3> QED  BY <1>0, <1>1, <1>b, <2>1, <2>2, <2>3, <2>4, <2>5, <2>6
    <2> QED  BY <1>b, <2>5, <2>7 DEF LostInv
  <1> QED  BY <1>2, <1>3, LostKept

\* However many pipelines it has done, the shell is back at the prompt with
\* every pipe closed, but for the ends in use at each ^C: while the kernel has
\* pipes to give.
THEOREM PipesAreClosed == Spec /\ []PipesSuffice => []PipesClosed
  <1>1. Init => LostInv
    <2>1. Init => Lost = {} /\ ints = 0  BY DEF Init, Lost, Proc
    <2>2. IsFiniteSet({}) /\ Cardinality({}) = 0  BY FS_EmptySet
    <2> QED  BY <2>1, <2>2 DEF LostInv, EndsInUse
  <1>3. Init => FromLines
    <2>1. Init => cmdList = <<>> /\ pc \notin Doing  BY DEF Init, Doing
    <2>2. Len(<<>>) = 0  OBVIOUS
    <2> QED  BY <2>1, <2>2 DEF FromLines
  <1>2. LostInv => PipesClosed
    <2>1. pc = "top" => Lost = held[Shell]  BY DEF Lost, InUse
    <2> QED  BY <2>1 DEF LostInv, PipesClosed
  <1>4. CoreInv => TypeInv  BY DEF CoreInv
  <1> QED  BY <1>1, <1>2, <1>3, <1>4, LostStep, FromLinesStep, CoreHolds, PTL DEF Spec

-----------------------------------------------------------------------------
(***************************************************************************)
(* The children.                                                           *)
(***************************************************************************)

\* Steps that only release children, or none.
LEMMA ChildrenKept ==
    ASSUME TypeInv, ChildInv, ints' = ints, stdin' = stdin, stdout' = stdout,
           \A p \in Pid : /\ held'[p] = held[p]
                         /\ \/ status'[p] = status[p] /\ image'[p] = image[p]
                            \/ status'[p] \in {"free", "zombie"}
    PROVE  ChildInv'
  BY DEF ChildInv, FrameOK, InEnds, OutEnds

LEMMA WaitOutcome ==
    ASSUME TypeInv, NEW c, PollChild(c) \/ AwaitChild(c) \/ UNCHANGED procs
    PROVE  /\ stdin' = stdin /\ stdout' = stdout
           /\ \A p \in Pid : \/ status'[p] = status[p] /\ image'[p] = image[p]
                            \/ status'[p] = "free"
  BY DEF PollChild, AwaitChild, Reap, procs, TypeInv, TypeOK

LEMMA DeathOutcome ==
    ASSUME TypeInv, NEW p \in Pid, Die({p})
    PROVE  /\ status'[p] = "zombie" /\ image'[p].cmd = image[p].cmd
           /\ \A o \in Pid \ {p} :
                /\ status'[o] = status[o] /\ image'[o] = image[o] /\ held'[o] = held[o]
                /\ stdin'[o] = stdin[o] /\ stdout'[o] = stdout[o]
  <1>1. image'[p] = Spent(image[p])  BY DEF Die
  <1>2. Spent(image[p]).cmd = image[p].cmd  BY DEF Spent, NoFrame
  <1> QED  BY <1>1, <1>2 DEF Die, TypeInv, TypeOK, Proc

LEMMA ChildStep == CoreInv /\ ChildInv /\ [Next]_vars => ChildInv'
  <1> SUFFICES ASSUME CoreInv, ChildInv, [Next]_vars PROVE ChildInv'
    OBVIOUS
  <1>0. /\ TypeInv /\ PipeInv /\ LineInv /\ ints \in Nat
        /\ held \in [Proc -> SUBSET End] /\ status \in [Pid -> Status]
        /\ image \in [Pid -> Frame] /\ stdin \in [Pid -> Descriptor] /\ stdout \in [Pid -> Descriptor]
    BY BoundAssumption DEF CoreInv, TypeInv, TypeOK
  <1>1. ASSUME UNCHANGED <<procs, ints>>, \A p \in Pid : held'[p] = held[p]
        PROVE  ChildInv'
    BY <1>0, <1>1, ChildrenKept DEF procs
  <1>2. CASE Prompt \/ ReadLine \/ CallDone \/ CallInternal \/ CallExternal \/ CallPipeFails
             \/ ForkFails \/ Block \/ UNCHANGED vars
    BY <1>1, <1>2 DEF Prompt, ReadLine, CallDone, CallInternal, CallExternal, CallPipeFails, Enter,
                      ForkFails, Block, vars, signals
  <1>3. CASE PromptFails \/ CallPipe \/ CloseIn \/ CloseNothing \/ CloseInWrite
    <2>1. UNCHANGED <<procs, ints>>
      BY <1>3 DEF PromptFails, CallPipe, Enter, CloseIn, CloseNothing, CloseInWrite, CloseEnd,
                  signals
    <2>2. \A p \in Pid : held'[p] = held[p]
      BY <1>0, <1>3, ProcAssumption
         DEF PromptFails, CallPipe, CloseIn, CloseNothing, CloseInWrite, CloseEnd, Proc
    <2> QED  BY <1>1, <2>1, <2>2
  <1>4. CASE Wait \/ After \/ SigchldHandler
    <2>1. ints' = ints /\ held' = held
      BY <1>4 DEF Wait, After, SigchldHandler, signals
    <2>2. \E c : PollChild(c) \/ AwaitChild(c) \/ UNCHANGED procs
      BY <1>4 DEF Wait, After, SigchldHandler
    <2> QED  BY <1>0, <2>1, <2>2, WaitOutcome, ChildrenKept
  <1>5. ASSUME NEW p \in Pid, Fork(p) PROVE ChildInv'
    <2>1. FrameOK(Top(frames)) /\ InUse = InEnds(Top(frames)) \cup OutEnds(Top(frames))
      BY <1>0, <1>5 DEF Fork, PipeInv, Doing, InUse
    <2>2. ints = 0 => held[Shell] = InUse  BY <1>0 DEF PipeInv
    <2>3. /\ ints' = ints /\ status'[p] = "setup" /\ image'[p] = Top(frames)
          /\ held'[p] = held[Shell]
          /\ \A o \in Pid \ {p} :
                /\ status'[o] = status[o] /\ image'[o] = image[o] /\ held'[o] = held[o]
                /\ stdin'[o] = stdin[o] /\ stdout'[o] = stdout[o]
      BY <1>0, <1>5 DEF Fork, signals, Proc
    <2>4. FrameOK(image'[p])
          /\ InEnds(image'[p]) \cup OutEnds(image'[p]) = InEnds(Top(frames)) \cup OutEnds(Top(frames))
      BY <2>1, <2>3
    <2> QED  BY <2>1, <2>2, <2>3, <2>4 DEF ChildInv, FrameOK, InEnds, OutEnds
  <1>6. CASE Sigint
    BY <1>0, <1>6 DEF Sigint, ChildInv
  <1>7. ASSUME NEW p \in Pid, Die({p}), ints' = ints PROVE ChildInv'
    BY <1>0, <1>7, DeathOutcome DEF ChildInv, FrameOK, InEnds, OutEnds
  <1>8. ASSUME NEW p \in Pid, ChildExec(p) PROVE ChildInv'
    <2>1. ints = 0 => FrameOK(image[p]) /\ held[p] = InEnds(image[p]) \cup OutEnds(image[p])
      BY <1>8 DEF ChildExec, ChildInv
    <2>2. /\ ints' = ints /\ status'[p] = "run"
          /\ held'[p] = held[p] \ Unwanted(image[p])
          /\ stdin'[p] = StdinOf(image[p]) /\ stdout'[p] = StdoutOf(image[p])
          /\ \A o \in Pid \ {p} :
                /\ status'[o] = status[o] /\ image'[o] = image[o] /\ held'[o] = held[o]
                /\ stdin'[o] = stdin[o] /\ stdout'[o] = stdout[o]
      BY <1>0, <1>8 DEF ChildExec, signals, Proc
    <2>3. ints = 0 => held'[p] \subseteq {StdinOf(image[p]), StdoutOf(image[p])}
      BY <2>1, <2>2 DEF Unwanted, InEnds, OutEnds, PairEnds, StdinOf, StdoutOf
    <2> QED  BY <2>2, <2>3 DEF ChildInv, FrameOK, InEnds, OutEnds
  <1>9. ASSUME NEW p \in Pid, ChildReturns(p) PROVE ChildInv'
    <2>1. ints' = ints  BY <1>9 DEF ChildReturns, signals
    <2>2. ints # 0
      <3> SUFFICES ASSUME ints = 0 PROVE FALSE  OBVIOUS
      <3>1. FrameOK(image[p]) /\ held[p] = InEnds(image[p]) \cup OutEnds(image[p])
        BY <1>9 DEF ChildReturns, ChildInv
      <3>2. Plumbed(image[p], held[p])
        BY <3>1 DEF Plumbed, Wanted, Unwanted, InEnds, OutEnds, PairEnds, FrameOK
      <3> QED  BY <1>9, <3>2 DEF ChildReturns
    <2> QED  BY <2>1, <2>2 DEF ChildInv
  <1>10. ASSUME NEW p \in Pid, Child(p) PROVE ChildInv'
    <2>1. CASE ChildCrash(p) \/ ChildExecFails(p)
      BY <1>7, <2>1 DEF ChildCrash, ChildExecFails
    <2> QED  BY <1>8, <1>9, <1>10, <2>1 DEF Child
  <1>11. ASSUME NEW p \in Pid, Program(p) \/ ProgQuit(p) PROVE ChildInv'
    <2>1. CASE ProgSigpipe(p) \/ ProgFinish(p) \/ ProgQuit(p)
      BY <1>7, <2>1 DEF ProgSigpipe, ProgFinish, ProgQuit
    <2>2. CASE ProgRead(p) \/ ProgWrite(p)
      BY <1>0, <2>2, ChildrenKept DEF ProgRead, ProgWrite, procs, signals
    <2> QED  BY <1>11, <2>1, <2>2 DEF Program
  <1> QED
    BY <1>2, <1>3, <1>4, <1>5, <1>6, <1>10, <1>11 DEF Next, ShellStep, User

LEMMA ChildrenHold == Spec /\ []PipesSuffice => [](CoreInv /\ ChildInv)
  <1>1. Init => ChildInv  BY DEF Init, ChildInv
  <1> QED  BY <1>1, ChildStep, CoreHolds, PTL DEF Spec

\* While the kernel has pipes to give and before any ^C, a program holds no
\* pipe end but its own standard input and output.
THEOREM OnlyOwnEnds == Spec /\ []PipesSuffice => []NoForeignHolders
  <1>1. ChildInv => NoForeignHolders  BY DEF ChildInv, NoForeignHolders
  <1> QED  BY <1>1, ChildrenHold, PTL

\* While the kernel has pipes to give and before any ^C, no child ever goes on
\* as a shell: ^C between fork() and exec is the only other way.
THEOREM NoGrandchildren == Spec /\ []PipesSuffice => []NoSecondShell
  <1>1. ChildInv => NoSecondShell  BY DEF ChildInv, NoSecondShell
  <1> QED  BY <1>1, ChildrenHold, PTL

-----------------------------------------------------------------------------
(***************************************************************************)
(* Waiting for the foreground.                                             *)
(***************************************************************************)

LEMMA ForegroundKept ==
    ASSUME ForegroundInv, UNCHANGED <<pc, frames, ints>>, Children' \subseteq Children,
           \A p \in Children' : image'[p].cmd = image[p].cmd
    PROVE  ForegroundInv'
  BY DEF ForegroundInv, Awaited, cmd_is_background, cmd_is_output_pipe

LEMMA ForegroundStep == CoreInv /\ ForegroundInv /\ [Next]_vars => ForegroundInv'
  <1> SUFFICES ASSUME CoreInv, ForegroundInv, [Next]_vars PROVE ForegroundInv'
    OBVIOUS
  <1>0. /\ TypeInv /\ ints \in Nat /\ status \in [Pid -> Status] /\ image \in [Pid -> Frame]
        /\ frames \in Seq(Frame) /\ cmdList \in Seq(Command)
    BY BoundAssumption DEF CoreInv, TypeInv, TypeOK
  <1>1. ASSUME UNCHANGED <<status, image, ints>>, pc \notin Forked, pc' \notin Forked \cup {"fork"}
        PROVE  ForegroundInv'
    BY <1>1 DEF ForegroundInv, Children, Forked
  <1>2. CASE Prompt \/ PromptFails \/ ReadLine \/ CallDone \/ CallInternal
    BY <1>1, <1>2 DEF Prompt, PromptFails, ReadLine, CallDone, CallInternal, Returned, Forked, signals, procs
  <1>3. CASE CallExternal \/ CallPipe \/ CallPipeFails
    <2>1. PICK out \in Pair : Enter(Head(cmdList), out)
      <3>1. CASE CallExternal  BY <3>1, NoFrameType DEF CallExternal
      <3>2. CASE CallPipe
        <4> DEFINE q == CHOOSE q \in FreePipes : TRUE
        <4> HIDE DEF q
        <4>1. q \in Pipe  BY <3>2 DEF CallPipe, FreePipes, q
        <4>2. [r |-> ReadEnd(q), w |-> WriteEnd(q)] \in Pair
          BY <4>1 DEF Pair, End, ReadEnd, WriteEnd
        <4> QED  BY <3>2, <4>2 DEF CallPipe, q
      <3>3. CASE CallPipeFails
        <4>1. PICK r \in held[Shell] \cup {Bad}, w \in held[Shell] \cup {Bad} :
                 Enter(Head(cmdList), [r |-> r, w |-> w])
          BY <3>3 DEF CallPipeFails
        <4>2. [r |-> r, w |-> w] \in Pair  BY <1>0 DEF TypeInv, TypeOK, Pair, Proc
        <4> QED  BY <4>1, <4>2
      <3> QED  BY <1>3, <3>1, <3>2, <3>3
    <2>2. cmdList # <<>> /\ pc = "call"
      BY <1>3 DEF CallExternal, CallPipe, CallPipeFails
    <2> DEFINE f == [cmd |-> Head(cmdList), in |-> fdIn, out |-> out, child |-> NoChild]
    <2>3. f \in Frame /\ f.child = NoChild
      BY <1>0, <2>2 DEF Frame, TypeInv, TypeOK
    <2> HIDE DEF f
    <2>4. frames' = Append(frames, f) /\ pc' = "fork" /\ UNCHANGED <<status, image, ints>>
      BY <2>1 DEF Enter, f, signals, procs
    <2>5. Top(frames').child = NoChild  BY <1>0, <2>3, <2>4, AppendTop
    <2> QED  BY <2>2, <2>4, <2>5 DEF ForegroundInv, Children, Forked
  <1>4. ASSUME NEW p \in Pid, Fork(p) PROVE ForegroundInv'
    <2>1. frames # <<>>  BY <1>0, <1>4 DEF Fork, TypeInv, HasFrame, InCommand
    <2>2. Top(frames').cmd = Top(frames).cmd /\ Top(frames').child = p
      BY <1>0, <1>4, <2>1, SetChildTop DEF Fork
    <2>3. /\ image'[p] = Top(frames) /\ pc = "fork" /\ pc' = "close" /\ ints' = ints
          /\ \A o \in Pid \ {p} : status'[o] = status[o] /\ image'[o] = image[o]
      BY <1>0, <1>4 DEF Fork, signals
    <2>4. ints = 0 => \A o \in Children : ~Awaited(image[o].cmd)
      BY <2>3 DEF ForegroundInv, Forked
    <2>5. \A o \in Children' \ {p} : o \in Children /\ image'[o] = image[o]
      BY <2>3 DEF Children
    <2> QED  BY <2>2, <2>3, <2>4, <2>5 DEF ForegroundInv, Forked
  <1>5. CASE ForkFails
    <2>1. pc = "fork" /\ pc' = "close" /\ UNCHANGED <<frames, status, image, ints>>
      BY <1>5 DEF ForkFails, signals, procs
    <2>2. Top(frames).child \notin Children
      BY <2>1, ProcAssumption DEF ForegroundInv, Children
    <2> QED  BY <2>1, <2>2 DEF ForegroundInv, Children, Forked
  <1>6. CASE CloseIn \/ CloseNothing \/ CloseInWrite \/ Block
    <2>1. pc \in Forked /\ pc' \in Forked /\ UNCHANGED <<frames, status, image, ints>>
      BY <1>6, CloseSucceeds
         DEF CloseIn, CloseNothing, CloseInWrite, CloseEnd, Block, signals, procs, Forked
    <2> QED  BY <2>1 DEF ForegroundInv, Children, Forked
  <1>7. CASE Wait
    <2> DEFINE c == Top(frames).child
    <2>1. pc = "wait" /\ pc' = "call" /\ frames' = frames /\ ints' = ints
      BY <1>7 DEF Wait
    <2>2. /\ Children' \subseteq Children
          /\ \A p \in Children' : image'[p] = image[p]
      BY <1>0, <1>7, WaitOutcome DEF Wait, Children
    <2>3. CASE ~Awaited(Top(frames).cmd)
      BY <2>1, <2>2, <2>3 DEF ForegroundInv, Forked
    <2>4. CASE Awaited(Top(frames).cmd)
      <3>1. c \notin Children'
        <4>1. AwaitChild(c)  BY <1>7, <2>4 DEF Wait
        <4>2. CASE c \notin Children  BY <2>2, <4>2
        <4>3. CASE c \in Children
          <5>1. c # NoChild  BY <4>3, ProcAssumption DEF Children
          <5>2. Reap({c})  BY <4>1, <4>3, <5>1 DEF AwaitChild
          <5> QED  BY <4>3, <5>2 DEF Reap, Children
        <4> QED  BY <4>2, <4>3
      <3> QED  BY <2>1, <2>2, <3>1 DEF ForegroundInv, Forked
    <2> QED  BY <2>3, <2>4
  <1>8. CASE After
    <2>1. pc = "after" /\ pc' \in {"top", "after"} /\ ints' = ints
      BY <1>8 DEF After, Returned, signals
    <2>2. /\ Children' \subseteq Children
          /\ \A p \in Children' : image'[p] = image[p]
      BY <1>0, <1>8, WaitOutcome DEF After, Children
    <2> QED  BY <2>1, <2>2 DEF ForegroundInv, Forked
  <1>9. CASE SigchldHandler
    <2>1. UNCHANGED <<pc, frames, ints>>  BY <1>9 DEF SigchldHandler, control
    <2>2. /\ Children' \subseteq Children
          /\ \A p \in Children' : image'[p] = image[p]
      BY <1>0, <1>9, WaitOutcome DEF SigchldHandler, Children
    <2> QED  BY <2>1, <2>2, ForegroundKept
  <1>10. CASE Sigint
    <2>1. ints' # 0 /\ ((pc' = pc /\ frames' = frames) \/ pc' = "top")
      BY <1>0, <1>10 DEF Sigint, control
    <2> QED  BY <2>1 DEF ForegroundInv
  <1>11. ASSUME NEW p \in Pid, status[p] # "free", Die({p}), UNCHANGED <<control, ints>>
         PROVE  ForegroundInv'
    <2>1. Children' = Children  BY <1>0, <1>11, DeathOutcome DEF Children
    <2>2. \A o \in Children' : image'[o].cmd = image[o].cmd
      BY <1>0, <1>11, DeathOutcome DEF Children
    <2> QED  BY <1>11, <2>1, <2>2, ForegroundKept DEF control
  <1>12. ASSUME NEW p \in Pid, Child(p) PROVE ForegroundInv'
    <2>1. CASE ChildCrash(p) \/ ChildExecFails(p)
      BY <1>11, <2>1 DEF ChildCrash, ChildExecFails
    <2>2. CASE ChildExec(p)
      <3>1. Spent(image[p]).cmd = image[p].cmd  BY DEF Spent, NoFrame
      <3>2. Children' = Children /\ \A o \in Pid : image'[o].cmd = image[o].cmd
        BY <1>0, <2>2, <3>1 DEF ChildExec, Children
      <3> QED  BY <2>2, <3>2, ForegroundKept DEF ChildExec, control, signals, Children
    <2>3. CASE ChildReturns(p)
      BY <1>0, <2>3, ForegroundKept DEF ChildReturns, control, signals, Children
    <2> QED  BY <1>12, <2>1, <2>2, <2>3 DEF Child
  <1>13. ASSUME NEW p \in Pid, Program(p) \/ ProgQuit(p) PROVE ForegroundInv'
    <2>1. CASE ProgSigpipe(p) \/ ProgFinish(p) \/ ProgQuit(p)
      BY <1>11, <2>1 DEF ProgSigpipe, ProgFinish, ProgQuit
    <2>2. CASE ProgRead(p) \/ ProgWrite(p)
      BY <2>2, ForegroundKept DEF ProgRead, ProgWrite, control, signals, procs, Children
    <2> QED  BY <1>13, <2>1, <2>2 DEF Program
  <1>14. CASE UNCHANGED vars
    BY <1>14, ForegroundKept DEF vars, control, signals, procs, Children
  <1> QED
    BY <1>2, <1>3, <1>4, <1>5, <1>6, <1>7, <1>8, <1>9, <1>10, <1>12, <1>13, <1>14
       DEF Next, ShellStep, User

\* While the kernel has pipes to give and before any ^C, the prompt comes back
\* only when every command that has to be waited for is dead and reaped, even
\* when fork() fails or other children die at any moment.
THEOREM ForegroundReaped == Spec /\ []PipesSuffice => []ForegroundDone
  <1>1. Init => ForegroundInv  BY DEF Init, ForegroundInv, Children, Forked
  <1>2. ForegroundInv => ForegroundDone
    BY DEF ForegroundInv, ForegroundDone, Forked, Awaited, Children
  <1> QED  BY <1>1, <1>2, ForegroundStep, CoreHolds, PTL DEF Spec

-----------------------------------------------------------------------------
(***************************************************************************)
(* What ^C leaves behind, whatever fails.                                  *)
(***************************************************************************)

\* The commands that have to be waited for, and of these the ones that the
\* shell is not with.
Owing  == {p \in Children : Awaited(image[p].cmd) /\ ~cmd_is_input_pipe(image[p].cmd)}
Behind == IF pc \in Forked THEN Owing \ {Top(frames).child} ELSE Owing

\* The innermost frame names the child of its command, as soon as there is one.
WithChild ==
    /\ pc = "fork" => Top(frames).child = NoChild
    /\ pc \in Forked /\ Top(frames).child \in Children
          => image[Top(frames).child].cmd = Top(frames).cmd

LeftInv == WithChild /\ IsFiniteSet(Behind) /\ Cardinality(Behind) <= ints

\* Children end and are reaped, and keep their commands.
LEMMA LeftKept ==
    ASSUME WithChild, UNCHANGED <<pc, frames>>, Children' \subseteq Children,
           \A p \in Children' : image'[p].cmd = image[p].cmd
    PROVE  WithChild' /\ Behind' \subseteq Behind /\ Owing' \subseteq Owing
  <1>1. Owing' \subseteq Owing
    BY DEF Owing, Awaited, cmd_is_background, cmd_is_output_pipe, cmd_is_input_pipe
  <1>2. WithChild'  BY DEF WithChild
  <1>3. Behind' \subseteq Behind  BY <1>1 DEF Behind
  <1> QED  BY <1>1, <1>2, <1>3

\* Between two ^C nothing is left behind.
LEMMA NoneLeftBehind ==
    ASSUME TypeInv, WithChild, [Next]_vars, ~Sigint
    PROVE  WithChild' /\ Behind' \subseteq Behind /\ ints' = ints
  <1> DEFINE Goal == WithChild' /\ Behind' \subseteq Behind /\ ints' = ints
  <1> SUFFICES Goal  OBVIOUS
  <1>0. /\ status \in [Pid -> Status] /\ image \in [Pid -> Frame]
        /\ frames \in Seq(Frame) /\ cmdList \in Seq(Command)
    BY DEF TypeInv, TypeOK
  <1>1. ASSUME UNCHANGED <<status, image, ints>>, pc \notin Forked, pc' \notin Forked \cup {"fork"}
        PROVE  Goal
    <2>1. WithChild'  BY <1>1 DEF WithChild
    <2>2. Behind' = Behind  BY <1>1 DEF Behind, Owing, Children
    <2> QED  BY <1>1, <2>1, <2>2
  <1>2. CASE Prompt \/ PromptFails \/ ReadLine \/ CallDone \/ CallInternal
    BY <1>1, <1>2 DEF Prompt, PromptFails, ReadLine, CallDone, CallInternal, Returned, Forked, signals, procs
  <1>3. CASE CallExternal \/ CallPipe \/ CallPipeFails
    <2>1. pc = "call" /\ cmdList # <<>> /\ \E out \in Pair : Enter(Head(cmdList), out)
      <3>1. CASE CallExternal  BY <3>1, NoFrameType DEF CallExternal
      <3>2. CASE CallPipe
        <4> DEFINE q == CHOOSE q \in FreePipes : TRUE
        <4> HIDE DEF q
        <4>1. q \in Pipe  BY <3>2 DEF CallPipe, FreePipes, q
        <4>2. [r |-> ReadEnd(q), w |-> WriteEnd(q)] \in Pair
          BY <4>1 DEF Pair, End, ReadEnd, WriteEnd
        <4> QED  BY <3>2, <4>2 DEF CallPipe, q
      <3>3. CASE CallPipeFails
        <4>1. PICK r \in held[Shell] \cup {Bad}, w \in held[Shell] \cup {Bad} :
                 Enter(Head(cmdList), [r |-> r, w |-> w])
          BY <3>3 DEF CallPipeFails
        <4>2. [r |-> r, w |-> w] \in Pair  BY DEF TypeInv, TypeOK, Pair, Proc
        <4> QED  BY <3>3, <4>1, <4>2 DEF CallPipeFails
      <3> QED  BY <1>3, <3>1, <3>2, <3>3
    <2>2. PICK out \in Pair : Enter(Head(cmdList), out)  BY <2>1
    <2> DEFINE f == [cmd |-> Head(cmdList), in |-> fdIn, out |-> out, child |-> NoChild]
    <2>3. f \in Frame /\ f.child = NoChild
      BY <1>0, <2>1 DEF Frame, TypeInv, TypeOK
    <2> HIDE DEF f
    <2>4. frames' = Append(frames, f) /\ pc' = "fork" /\ UNCHANGED <<status, image, ints>>
      BY <2>2 DEF Enter, f, signals, procs
    <2>5. Top(frames').child = NoChild  BY <1>0, <2>3, <2>4, AppendTop
    <2>6. Behind' = Behind  BY <2>1, <2>4 DEF Behind, Owing, Children, Forked
    <2> QED  BY <2>4, <2>5, <2>6 DEF WithChild, Forked
  <1>4. ASSUME NEW p \in Pid, Fork(p) PROVE Goal
    <2>1. frames # <<>>  BY <1>0, <1>4 DEF Fork, TypeInv, HasFrame, InCommand
    <2>2. Top(frames').cmd = Top(frames).cmd /\ Top(frames').child = p
      BY <1>0, <1>4, <2>1, SetChildTop DEF Fork
    <2>3. /\ image'[p] = Top(frames) /\ pc = "fork" /\ pc' = "close" /\ ints' = ints
          /\ \A o \in Pid \ {p} : status'[o] = status[o] /\ image'[o] = image[o]
      BY <1>0, <1>4 DEF Fork, signals
    <2>4. \A o \in Children' \ {p} : o \in Children /\ image'[o] = image[o]
      BY <2>3 DEF Children
    <2>5. Owing' \ {p} \subseteq Owing  BY <2>4 DEF Owing
    <2>6. Behind' \subseteq Behind  BY <2>2, <2>3, <2>5 DEF Behind, Forked
    <2> QED  BY <2>2, <2>3, <2>6 DEF WithChild
  <1>5. CASE ForkFails
    <2>1. pc = "fork" /\ pc' = "close" /\ UNCHANGED <<frames, status, image, ints>>
      BY <1>5 DEF ForkFails, signals, procs
    <2>2. Top(frames).child \notin Children
      BY <2>1, ProcAssumption DEF WithChild, Children
    <2>3. Behind' \subseteq Behind  BY <2>1 DEF Behind, Owing, Children, Forked
    <2> QED  BY <2>1, <2>2, <2>3 DEF WithChild, Children
  <1>6. ASSUME pc \in Forked, UNCHANGED <<ints>>,
               Children' \subseteq Children, \A p \in Children' : image'[p] = image[p],
               \/ pc' \in Forked /\ frames' = frames
               \/ pc' \notin Forked \cup {"fork"} /\ Top(frames).child \notin Owing'
        PROVE  Goal
    <2>1. Owing' \subseteq Owing  BY <1>6 DEF Owing
    <2>2. WithChild'  BY <1>6 DEF WithChild, Forked
    <2>3. Behind' \subseteq Behind  BY <1>6, <2>1 DEF Behind
    <2> QED  BY <1>6, <2>2, <2>3
  <1>7. CASE CloseIn \/ CloseNothing \/ CloseInWrite
    <2>1. /\ pc \in Forked /\ ints' = ints /\ Children' = Children
          /\ UNCHANGED <<status, image>>
      BY <1>7 DEF CloseIn, CloseNothing, CloseInWrite, CloseEnd, signals, procs, Children, Forked
    <2>2. \/ pc' \in Forked /\ frames' = frames
          \/ pc' \notin Forked \cup {"fork"} /\ cmd_is_input_pipe(Top(frames).cmd)
      BY <1>7 DEF CloseIn, CloseNothing, CloseInWrite, CloseEnd, Returned, Forked, TypeInv,
                  HalfClosed
    <2>3. cmd_is_input_pipe(Top(frames).cmd) => Top(frames).child \notin Owing'
      BY <2>1 DEF WithChild, Owing, Forked, cmd_is_input_pipe
    <2> QED  BY <1>6, <2>1, <2>2, <2>3
  <1>8. CASE Block
    <2>1. /\ pc = "block" /\ pc' = "wait" /\ UNCHANGED <<frames, ints, status, image>>
          /\ Children' = Children
      BY <1>8 DEF Block, procs, Children
    <2> QED  BY <1>6, <2>1 DEF Forked
  <1>9. CASE Wait
    <2> DEFINE c == Top(frames).child
    <2>1. pc = "wait" /\ pc' = "call" /\ ints' = ints
      BY <1>9 DEF Wait
    <2>2. /\ Children' \subseteq Children
          /\ \A p \in Children' : image'[p] = image[p]
      BY <1>0, <1>9, WaitOutcome DEF Wait, Children
    <2>3. c \notin Owing'
      <3>1. CASE ~Awaited(Top(frames).cmd)
        BY <2>1, <2>2, <3>1 DEF WithChild, Owing, Forked, Awaited, cmd_is_background, cmd_is_output_pipe
      <3>2. CASE Awaited(Top(frames).cmd)
        <4>1. AwaitChild(c)  BY <1>9, <3>2 DEF Wait
        <4>2. CASE c \notin Children  BY <2>2, <4>2 DEF Owing
        <4>3. CASE c \in Children
          <5>1. c # NoChild  BY <4>3, ProcAssumption DEF Children
          <5>2. Reap({c})  BY <4>1, <4>3, <5>1 DEF AwaitChild
          <5> QED  BY <4>3, <5>2 DEF Reap, Children, Owing
        <4> QED  BY <4>2, <4>3
      <3> QED  BY <3>1, <3>2
    <2> QED  BY <1>6, <2>1, <2>2, <2>3 DEF Forked
  <1>10. CASE After
    <2>1. pc = "after" /\ pc' \in {"top", "after"} /\ ints' = ints
      BY <1>10 DEF After, Returned, signals
    <2>2. /\ Children' \subseteq Children
          /\ \A p \in Children' : image'[p] = image[p]
      BY <1>0, <1>10, WaitOutcome DEF After, Children
    <2>3. Behind' \subseteq Behind  BY <2>1, <2>2 DEF Behind, Owing, Forked
    <2> QED  BY <2>1, <2>3 DEF WithChild, Forked
  <1>11. CASE SigchldHandler
    <2>1. UNCHANGED <<pc, frames, ints>>  BY <1>11 DEF SigchldHandler, control
    <2>2. /\ Children' \subseteq Children
          /\ \A p \in Children' : image'[p] = image[p]
      BY <1>0, <1>11, WaitOutcome DEF SigchldHandler, Children
    <2> QED  BY <2>1, <2>2, LeftKept
  <1>12. ASSUME NEW p \in Pid, Child(p) \/ Program(p) \/ ProgQuit(p) PROVE Goal
    <2>1. ASSUME status[p] # "free", Die({p}), UNCHANGED <<control, ints>> PROVE Goal
      <3>1. Children' = Children /\ \A o \in Children' : image'[o].cmd = image[o].cmd
        BY <1>0, <2>1, DeathOutcome DEF Children
      <3> QED  BY <2>1, <3>1, LeftKept DEF control
    <2>2. CASE \/ ChildCrash(p) \/ ChildExecFails(p)
               \/ ProgSigpipe(p) \/ ProgFinish(p) \/ ProgQuit(p)
      BY <2>1, <2>2 DEF ChildCrash, ChildExecFails, ProgSigpipe, ProgFinish, ProgQuit
    <2>3. CASE ChildExec(p)
      <3>1. Spent(image[p]).cmd = image[p].cmd  BY DEF Spent, NoFrame
      <3>2. Children' = Children /\ \A o \in Pid : image'[o].cmd = image[o].cmd
        BY <1>0, <2>3, <3>1 DEF ChildExec, Children
      <3> QED  BY <2>3, <3>2, LeftKept DEF ChildExec, control, signals, Children
    <2>4. CASE ChildReturns(p)
      BY <1>0, <2>4, LeftKept DEF ChildReturns, control, signals, Children
    <2>5. CASE ProgRead(p) \/ ProgWrite(p)
      BY <2>5, LeftKept DEF ProgRead, ProgWrite, control, signals, procs, Children
    <2> QED  BY <1>12, <2>2, <2>3, <2>4, <2>5 DEF Child, Program
  <1>13. CASE UNCHANGED vars
    BY <1>13, LeftKept DEF vars, control, signals, procs, Children
  <1> QED
    BY <1>2, <1>3, <1>4, <1>5, <1>7, <1>8, <1>9, <1>10, <1>11, <1>12, <1>13
       DEF Next, ShellStep, User

\* A ^C leaves behind the one command that the shell was with.
LEMMA OneMoreLeft ==
    ASSUME TypeInv, WithChild, Sigint
    PROVE  WithChild' /\ Behind' \subseteq Behind \cup {Top(frames).child} /\ ints' = ints + 1
  <1>0. status \in [Pid -> Status]  BY DEF TypeInv, TypeOK
  <1>1. Children' = Children /\ UNCHANGED image
    <2>1. CASE ~jmpok  BY <2>1 DEF Sigint, Children
    <2>2. CASE jmpok
      <3>1. PICK killed \in SUBSET {p \in Pid : status[p] = "run"} :
              status' = [p \in Pid |-> CASE p \in killed         -> "zombie"
                                         [] status[p] = "setup" -> "stray"
                                         [] OTHER               -> status[p]]
        BY <2>2 DEF Sigint
      <3>2. \A p \in Pid : status'[p] = "free" <=> status[p] = "free"  BY <1>0, <3>1
      <3> QED  BY <3>2 DEF Children, Sigint
    <2> QED  BY <2>1, <2>2
  <1>2. Owing' = Owing  BY <1>1 DEF Owing
  <1>3. Owing \subseteq Behind \cup {Top(frames).child}  BY DEF Behind
  <1>4. Behind' \subseteq Owing'  BY DEF Behind
  <1>5. \/ UNCHANGED <<pc, frames>>
        \/ pc' = "top"
    BY DEF Sigint, control
  <1>6. WithChild'  BY <1>1, <1>5 DEF WithChild, Forked
  <1> QED  BY <1>2, <1>3, <1>4, <1>6 DEF Sigint

LEMMA LeftStep == TypeInv /\ LeftInv /\ [Next]_vars => LeftInv'
  <1> SUFFICES ASSUME TypeInv, LeftInv, [Next]_vars PROVE LeftInv'  OBVIOUS
  <1>0. ints \in Nat  BY BoundAssumption DEF TypeInv, TypeOK
  <1>1. WithChild /\ IsFiniteSet(Behind) /\ Cardinality(Behind) \in Nat /\ Cardinality(Behind) <= ints
    BY FS_CardinalityType DEF LeftInv
  <1>2. CASE ~Sigint
    <2>1. WithChild' /\ Behind' \subseteq Behind /\ ints' = ints  BY <1>1, <1>2, NoneLeftBehind
    <2>2. IsFiniteSet(Behind') /\ Cardinality(Behind') <= Cardinality(Behind) /\ Cardinality(Behind') \in Nat
      BY <1>1, <2>1, FS_Subset, FS_CardinalityType
    <2> QED  BY <1>0, <1>1, <2>1, <2>2 DEF LeftInv
  <1>3. CASE Sigint
    <2> DEFINE c == Top(frames).child
    <2>1. WithChild' /\ Behind' \subseteq Behind \cup {c} /\ ints' = ints + 1
      BY <1>1, <1>3, OneMoreLeft
    <2> HIDE DEF c
    <2>2. IsFiniteSet(Behind \cup {c}) /\ Cardinality(Behind \cup {c}) <= Cardinality(Behind) + 1
      BY <1>1, FS_AddElement
    <2>3. /\ IsFiniteSet(Behind') /\ Cardinality(Behind') \in Nat
          /\ Cardinality(Behind \cup {c}) \in Nat
          /\ Cardinality(Behind') <= Cardinality(Behind \cup {c})
      BY <2>1, <2>2, FS_Subset, FS_CardinalityType
    <2> QED  BY <1>0, <1>1, <2>1, <2>2, <2>3 DEF LeftInv
  <1> QED  BY <1>2, <1>3

\* Whatever fails and however often ^C is typed, each ^C leaves at most one
\* foreground command behind; only those that read a pipe are not counted.
THEOREM OneIsLeftBehind == Spec => []OneLeftBehind
  <1>1. Init => LeftInv
    <2> SUFFICES ASSUME Init PROVE LeftInv  OBVIOUS
    <2>1. Behind = {} /\ ints = 0  BY DEF Init, Behind, Owing, Children
    <2>2. WithChild  BY DEF Init, WithChild, Forked
    <2>3. IsFiniteSet({}) /\ Cardinality({}) = 0  BY FS_EmptySet
    <2> QED  BY <2>1, <2>2, <2>3 DEF LeftInv
  <1>2. LeftInv => OneLeftBehind
    <2>1. pc \in {"top", "parse"} => Behind = Owing  BY DEF Behind, Forked
    <2> QED  BY <2>1 DEF LeftInv, OneLeftBehind, Owing
  <1> QED  BY <1>1, <1>2, LeftStep, TypeHolds, PTL DEF Spec

=============================================================================
