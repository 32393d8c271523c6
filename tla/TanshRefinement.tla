-------------------------- MODULE TanshRefinement --------------------------
(***************************************************************************)
(* Tansh implements JobControl: proved for any number of processes, pipes  *)
(* and ^C, and for any lines.                                              *)
(***************************************************************************)
EXTENDS TanshProofs

-----------------------------------------------------------------------------
(***************************************************************************)
(* What the mapping needs to know of the state: the command that waits for *)
(* its fork() has no child yet and is not an internal one, and jmpbuf is   *)
(* set from the first prompt on.                                           *)
(***************************************************************************)
ForkInv ==
    pc = "fork" => /\ Top(frames).child = NoChild
                   /\ ~cmd_is_internal(Top(frames).cmd)

JumpInv == pc # "top" => jmpok

MapInv == TypeInv /\ ForkInv /\ JumpInv

LEMMA ConsSeq ==
    ASSUME NEW S, NEW e \in S, NEW s \in Seq(S)
    PROVE  /\ <<e>> \o s # <<>>
           /\ Head(<<e>> \o s) = e
           /\ Tail(<<e>> \o s) = s
  OBVIOUS

LEMMA HeadTail ==
    ASSUME NEW S, NEW s \in Seq(S), s # <<>>
    PROVE  /\ Head(s) \in S
           /\ <<Head(s)>> \o Tail(s) = s
  OBVIOUS

\* A command that is shifted off the list is the one the next fork() is for.
LEMMA EnterStep ==
    ASSUME TypeInv, pc = "call", cmdList # <<>>,
           CallExternal \/ CallPipe \/ CallPipeFails
    PROVE  /\ pc' = "fork" /\ cmdList' = Tail(cmdList)
           /\ Top(frames').cmd = Head(cmdList)
           /\ Top(frames').child = NoChild
           /\ ~cmd_is_internal(Head(cmdList))
           /\ UNCHANGED <<status, image, ints>>
  <1>0. /\ frames \in Seq(Frame) /\ cmdList \in Seq(Command) /\ fdIn \in Pair
        /\ held \in [Proc -> SUBSET End]
    BY DEF TypeInv, TypeOK
  <1>1. PICK out \in Pair : Enter(Head(cmdList), out)
    <2>1. CASE CallExternal  BY <2>1, NoFrameType DEF CallExternal
    <2>2. CASE CallPipe
      <3> DEFINE q == CHOOSE q \in FreePipes : TRUE
      <3> HIDE DEF q
      <3>1. q \in Pipe  BY <2>2 DEF CallPipe, FreePipes, q
      <3>2. [r |-> ReadEnd(q), w |-> WriteEnd(q)] \in Pair
        BY <3>1 DEF Pair, End, ReadEnd, WriteEnd
      <3> QED  BY <2>2, <3>2 DEF CallPipe, q
    <2>3. CASE CallPipeFails
      <3>1. PICK r \in held[Shell] \cup {Bad}, w \in held[Shell] \cup {Bad} :
               Enter(Head(cmdList), [r |-> r, w |-> w])
        BY <2>3 DEF CallPipeFails
      <3>2. [r |-> r, w |-> w] \in Pair  BY <1>0 DEF Pair, Proc
      <3> QED  BY <3>1, <3>2
    <2> QED  BY <2>1, <2>2, <2>3
  <1> DEFINE f == [cmd |-> Head(cmdList), in |-> fdIn, out |-> out, child |-> NoChild]
  <1>2. f \in Frame /\ f.child = NoChild /\ f.cmd = Head(cmdList)
    BY <1>0 DEF Frame
  <1> HIDE DEF f
  <1>3. frames' = Append(frames, f)  BY <1>1 DEF Enter, f
  <1>4. Top(frames') = f  BY <1>0, <1>2, <1>3, AppendTop
  <1>5. ~cmd_is_internal(Head(cmdList))
    BY DEF CallExternal, CallPipe, CallPipeFails
  <1> QED  BY <1>1, <1>2, <1>4, <1>5 DEF Enter, signals, procs

LEMMA MapInit == Init => MapInv
  BY InitType DEF Init, MapInv, ForkInv, JumpInv

LEMMA MapStep == MapInv /\ [Next]_vars => MapInv'
  <1> SUFFICES ASSUME MapInv, [Next]_vars PROVE ForkInv' /\ JumpInv'
    BY StepType DEF MapInv
  <1> USE DEF ForkInv, JumpInv
  <1>1. CASE CallExternal \/ CallPipe \/ CallPipeFails
    <2>1. jmpok' = jmpok
      BY <1>1 DEF CallExternal, CallPipe, CallPipeFails, Enter, signals
    <2> QED  BY <1>1, <2>1, EnterStep DEF MapInv, CallExternal, CallPipe, CallPipeFails
  <1>2. CASE Prompt \/ PromptFails \/ CallDone \/ CallInternal \/ ForkFails
               \/ CloseIn \/ CloseNothing \/ CloseInWrite \/ Block \/ Wait \/ After \/ ReadLine \/ \E p \in Pid : Fork(p)
    BY <1>2 DEF MapInv, Prompt, PromptFails, CallDone, CallInternal, ForkFails, CloseIn, CloseNothing,
                CloseInWrite, CloseEnd, Block, Wait, After, ReadLine, Fork, Returned, signals
  <1>3. CASE UNCHANGED <<pc, frames, jmpok>>
    BY <1>3 DEF MapInv
  <1>4. CASE SigchldHandler
    BY <1>3, <1>4 DEF SigchldHandler, control
  <1>5. CASE Sigint
    BY <1>3, <1>5 DEF Sigint, control
  <1>6. ASSUME NEW p \in Pid, Child(p) \/ Program(p) \/ ProgQuit(p) PROVE ForkInv' /\ JumpInv'
    BY <1>3, <1>6 DEF Child, ChildCrash, ChildExec, ChildExecFails, ChildReturns, Program,
                      ProgRead, ProgWrite, ProgSigpipe, ProgFinish, ProgQuit, control, signals
  <1>7. CASE UNCHANGED vars
    BY <1>3, <1>7 DEF vars, control, signals
  <1> QED
    BY <1>1, <1>2, <1>4, <1>5, <1>6, <1>7 DEF Next, ShellStep, User

-----------------------------------------------------------------------------
(***************************************************************************)
(* The running jobs.                                                       *)
(***************************************************************************)

LEMMA RunningKept ==
    ASSUME Alive' = Alive, \A p \in Alive : image'[p].cmd = image[p].cmd
    PROVE  Running' = Running
  BY DEF Running

LEMMA RunningLess ==
    ASSUME NEW J \in SUBSET Alive, Alive' = J,
           \A p \in J : image'[p].cmd = image[p].cmd
    PROVE  /\ DOMAIN Running = Alive
           /\ Running' = Jobs!Remaining(J)
  BY DEF Running, Jobs!Remaining

\* Releasing zombies is not seen by the user.
LEMMA ReleaseKeepsRunning ==
    ASSUME TypeInv, NEW c, PollChild(c) \/ AwaitChild(c) \/ UNCHANGED procs
    PROVE  Running' = Running
  <1>1. CASE UNCHANGED procs
    BY <1>1, RunningKept DEF procs, Alive
  <1>2. CASE \E z \in Zombies : Reap({z})
    <2>1. PICK z \in Zombies : Reap({z})  BY <1>2
    <2>2. z \in Pid /\ status[z] = "zombie"  BY <2>1 DEF Zombies
    <2>3. /\ Alive' = Alive
          /\ \A p \in Alive : image'[p] = image[p]
      BY <2>1, <2>2 DEF Reap, Alive, TypeInv, TypeOK
    <2> QED  BY <2>3, RunningKept
  <1> QED  BY <1>1, <1>2 DEF PollChild, AwaitChild

\* A process that dies is a job that ends.
LEMMA DeathEndsJob ==
    ASSUME TypeInv, NEW p \in Alive, Die({p}), UNCHANGED <<control, ints>>
    PROVE  Jobs!End(p)
  <1>1. p \in Pid  BY DEF Alive
  <1>2. /\ Alive' = Alive \ {p}
        /\ \A o \in Alive \ {p} : image'[o].cmd = image[o].cmd
    BY <1>1, DeathOutcome DEF Alive
  <1>3. Running' = Jobs!Remaining(DOMAIN Running \ {p}) /\ p \in DOMAIN Running
    BY <1>2, RunningLess
  <1>4. UNCHANGED <<Phase, Todo, Current, ints>>
    BY DEF control, Phase, Todo, Current
  <1> QED  BY <1>3, <1>4 DEF Jobs!End

-----------------------------------------------------------------------------
(***************************************************************************)
(* The steps of the shell.                                                 *)
(***************************************************************************)

\* Steps that change neither the place in the line nor the jobs.
LEMMA Unseen ==
    ASSUME Running' = Running, ints' = ints, Phase' = Phase, Todo' = Todo, Current' = Current
    PROVE  UNCHANGED Jobs!vars
  BY DEF Jobs!vars

LEMMA LineSteps ==
    ASSUME MapInv, Prompt \/ PromptFails \/ ReadLine \/ CallDone \/ CallInternal
    PROVE  [Jobs!SureNext]_Jobs!vars
  <1>0. Running' = Running /\ ints' = ints
    <2>1. UNCHANGED <<status, image, ints>>
      BY DEF Prompt, PromptFails, ReadLine, CallDone, CallInternal, procs, signals
    <2> QED  BY <2>1, RunningKept DEF Alive
  <1> USE <1>0
  <1>1. CASE Prompt
    BY <1>1, Unseen DEF Prompt, Phase, Todo, Current, Forked
  <1>2. CASE PromptFails
    <2>1. Jobs!Exit  BY <1>2 DEF PromptFails, Jobs!Exit, Phase, Todo, Current, Forked
    <2> QED  BY <2>1 DEF Jobs!SureNext
  <1>3. CASE ReadLine
    <2>1. PICK line \in Lines : cmdList' = line  BY <1>3 DEF ReadLine
    <2>2. Jobs!Type(line)
      BY <1>3, <2>1 DEF ReadLine, Jobs!Type, Phase, Todo, Current, Forked
    <2> QED  BY <2>1, <2>2 DEF Jobs!SureNext
  <1>4. CASE CallDone
    <2>1. Todo = <<>> /\ Todo' = <<>> /\ Current = {} /\ Current' = {} /\ Phase = "line"
      BY <1>4 DEF CallDone, Returned, Todo, Current, Phase, Forked
    <2>2. CASE frames = <<>>
      <3>1. Jobs!Finish
        BY <1>4, <2>1, <2>2 DEF CallDone, Returned, Phase, Jobs!Finish, Jobs!Nothing
      <3> QED  BY <3>1 DEF Jobs!SureNext
    <2>3. CASE frames # <<>>
      <3>1. Phase' = "line"  BY <1>4, <2>3 DEF CallDone, Returned, Phase
      <3> QED  BY <2>1, <3>1, Unseen
    <2> QED  BY <2>2, <2>3
  <1>5. CASE CallInternal
    <2>1. /\ pc = "call" /\ pc' = "call" /\ cmdList # <<>> /\ cmdList' = Tail(cmdList)
          /\ cmd_is_internal(Head(cmdList))
      BY <1>5 DEF CallInternal
    <2>2. Todo = cmdList /\ Todo' = cmdList' /\ Current = {} /\ Current' = {}
          /\ Phase = "line" /\ Phase' = "line"
      BY <2>1 DEF Todo, Current, Phase, Forked
    <2>3. Head(cmdList) \in Command
      BY <2>1 DEF MapInv, TypeInv, TypeOK
    <2>4. Jobs!DoInternal
      BY <2>1, <2>2, <2>3 DEF Jobs!DoInternal, Jobs!NextCommand, Jobs!Nothing
    <2> QED  BY <2>4 DEF Jobs!SureNext
  <1> QED  BY <1>1, <1>2, <1>3, <1>4, <1>5

LEMMA EnterSteps ==
    ASSUME MapInv, CallExternal \/ CallPipe \/ CallPipeFails
    PROVE  UNCHANGED Jobs!vars
  <1>1. pc = "call" /\ cmdList # <<>> /\ cmdList \in Seq(Command)
    BY DEF CallExternal, CallPipe, CallPipeFails, MapInv, TypeInv, TypeOK
  <1>2. /\ pc' = "fork" /\ cmdList' = Tail(cmdList)
        /\ Top(frames').cmd = Head(cmdList)
        /\ UNCHANGED <<status, image, ints>>
    BY <1>1, EnterStep DEF MapInv
  <1>3. Todo = cmdList /\ Todo' = <<Head(cmdList)>> \o Tail(cmdList)
    BY <1>1, <1>2 DEF Todo, Forked
  <1>4. Todo' = Todo  BY <1>1, <1>3, HeadTail
  <1>5. Phase' = Phase /\ Current' = Current
    BY <1>1, <1>2 DEF Phase, Current, Forked
  <1>6. Running' = Running  BY <1>2, RunningKept DEF Alive
  <1> QED  BY <1>2, <1>4, <1>5, <1>6, Unseen

LEMMA ForkSteps ==
    ASSUME MapInv, ForkFails \/ \E p \in Pid : Fork(p)
    PROVE  Jobs!SureNext
  <1> DEFINE cmd == Top(frames).cmd
  <1>0. /\ pc = "fork" /\ pc' = "close" /\ cmdList' = cmdList /\ ints' = ints
        /\ frames # <<>> /\ frames \in Seq(Frame) /\ cmdList \in Seq(Command)
    BY DEF ForkFails, Fork, signals, MapInv, TypeInv, TypeOK, HasFrame, InCommand
  <1>1. cmd \in Command /\ ~cmd_is_internal(cmd)
    BY <1>0, TopType DEF Frame, MapInv, ForkInv
  <1>2. Todo = <<cmd>> \o cmdList /\ Todo' = cmdList
    BY <1>0 DEF Todo, Forked
  <1>3. Todo # <<>> /\ Head(Todo) = cmd /\ Tail(Todo) = cmdList
    BY <1>0, <1>1, <1>2, ConsSeq
  <1>4. Phase = "line" /\ Phase' = "line" /\ Current = {}
    BY <1>0 DEF Phase, Current, Forked
  <1>5. Jobs!NextCommand
    BY <1>0, <1>2, <1>3, <1>4 DEF Jobs!NextCommand, Jobs!Nothing
  <1>6. CASE ForkFails
    <2>1. frames' = frames /\ Top(frames).child = NoChild
      BY <1>0, <1>6 DEF ForkFails, MapInv, ForkInv
    <2>2. Current' = Jobs!Now(cmd, NoChild)
      BY <1>0, <2>1 DEF Current, Forked, Jobs!Now
    <2>3. Running' = Running  BY <1>6, RunningKept DEF ForkFails, procs, Alive
    <2> QED
      BY <1>1, <1>3, <1>5, <2>2, <2>3 DEF Jobs!StartFails, Jobs!SureNext
  <1>7. ASSUME NEW p \in Pid, Fork(p) PROVE Jobs!SureNext
    <2>1. Top(frames').cmd = cmd /\ Top(frames').child = p
      BY <1>0, <1>7, SetChildTop DEF Fork
    <2>2. Current' = Jobs!Now(cmd, p)
      BY <1>0, <2>1 DEF Current, Forked, Jobs!Now
    <2>3. /\ p \notin Alive /\ Alive' = Alive \cup {p}
          /\ image'[p].cmd = cmd /\ \A o \in Alive : image'[o] = image[o]
      BY <1>7 DEF Fork, Alive, MapInv, TypeInv, TypeOK
    <2>4. /\ p \notin DOMAIN Running
          /\ Running' = [j \in DOMAIN Running \cup {p} |-> IF j = p THEN cmd ELSE Running[j]]
      BY <2>3 DEF Running
    <2>5. Jobs!Start(p)
      BY <1>1, <1>3, <1>5, <2>2, <2>4 DEF Jobs!Start
    <2> QED  BY <2>5 DEF Jobs!SureNext
  <1> QED  BY <1>6, <1>7

\* The closing of the pipe in the parent is not seen when it succeeds.
LEMMA CloseSteps ==
    ASSUME MapInv, CloseIn \/ CloseNothing \/ CloseInWrite
    PROVE  \/ Jobs!GiveUp
           \/ UNCHANGED Jobs!vars
  <1> DEFINE top == Top(frames)
  <1>0. /\ pc \in {"close", "close1"} /\ cmdList' = cmdList /\ UNCHANGED <<status, image, ints>>
        /\ frames # <<>> /\ frames \in Seq(Frame)
    BY DEF CloseIn, CloseNothing, CloseInWrite, CloseEnd, signals, procs, MapInv, TypeInv, TypeOK,
           HasFrame, InCommand
  <1>1. Running' = Running  BY <1>0, RunningKept DEF Alive
  <1>2. CASE pc' \in {"close1", "block"} /\ frames' = frames
    BY <1>0, <1>1, <1>2, Unseen DEF Phase, Todo, Current, Forked
  <1>3. CASE cmd_is_input_pipe(top.cmd) /\ pc' = Returned(frames')
    <2>1. Current = {[cmd |-> top.cmd, job |-> top.child]} /\ top.cmd \in Command
      BY <1>0, TopType DEF Current, Forked, Frame
    <2>2. Todo' = <<>> /\ Current' = {} /\ Phase' \in {"line", "prompt"}
      BY <1>3 DEF Returned, Todo, Current, Phase, Forked
    <2> QED  BY <1>0, <1>1, <1>3, <2>1, <2>2 DEF Jobs!GiveUp, Jobs!Nothing
  <1> QED
    BY <1>2, <1>3 DEF CloseIn, CloseNothing, CloseInWrite, CloseEnd, MapInv, TypeInv, HalfClosed

LEMMA WaitSteps ==
    ASSUME MapInv, Wait
    PROVE  Jobs!SureNext
  <1> DEFINE top == Top(frames)
             now == [cmd |-> top.cmd, job |-> top.child]
  <1>0. /\ pc = "wait" /\ pc' = "call" /\ cmdList' = cmdList /\ ints' = ints
        /\ frames # <<>> /\ frames \in Seq(Frame)
    BY DEF Wait, MapInv, TypeInv, TypeOK, HasFrame, InCommand
  <1>1. AwaitChild(top.child) \/ UNCHANGED procs  BY DEF Wait
  <1>2. Running' = Running  BY <1>1, ReleaseKeepsRunning DEF MapInv
  <1>3. Current = {now} /\ Current' = {} /\ UNCHANGED <<Phase, Todo>>
    BY <1>0 DEF Current, Phase, Todo, Forked
  <1>4. top.child \in Pid \cup {NoChild}  BY <1>0, TopType DEF Frame
  <1>5. Awaited(top.cmd) => top.child \notin Alive
    <2> SUFFICES ASSUME Awaited(top.cmd), top.child \in Alive PROVE FALSE  OBVIOUS
    <2>1. top.child # NoChild /\ top.child \in Children /\ top.child \notin Zombies
      BY ProcAssumption DEF Alive, Children, Zombies
    <2> QED  BY <2>1 DEF Wait, AwaitChild
  <1>6. now.cmd \in {c \in Command : Awaited(c)} => now.job \notin DOMAIN Running
    BY <1>5 DEF Running
  <1> HIDE DEF now
  <1>7. Jobs!Proceed  BY <1>0, <1>2, <1>3, <1>6 DEF Jobs!Proceed, Jobs!Nothing
  <1> QED  BY <1>7 DEF Jobs!SureNext

LEMMA AfterSteps ==
    ASSUME MapInv, Block \/ After \/ SigchldHandler
    PROVE  [Jobs!SureNext]_Jobs!vars
  <1>1. CASE Block
    <2>1. Running' = Running  BY <1>1, RunningKept DEF Block, procs, Alive
    <2> QED  BY <1>1, <2>1, Unseen DEF Block, Phase, Todo, Current, Forked
  <1>2. CASE SigchldHandler
    <2>1. Running' = Running
      BY <1>2, ReleaseKeepsRunning DEF SigchldHandler, MapInv
    <2> QED  BY <1>2, <2>1, Unseen DEF SigchldHandler, control, Phase, Todo, Current
  <1>3. CASE After
    <2>1. Running' = Running /\ ints' = ints
      BY <1>3, ReleaseKeepsRunning DEF After, MapInv, signals
    <2>2. /\ Todo = <<>> /\ Todo' = <<>> /\ Current = {} /\ Current' = {}
          /\ Phase = "line" /\ Phase' \in {"line", "prompt"}
      BY <1>3 DEF After, Returned, Todo, Current, Phase, Forked
    <2>3. CASE Phase' = "line"  BY <2>1, <2>2, <2>3, Unseen
    <2>4. CASE Phase' = "prompt"
      BY <2>1, <2>2, <2>4 DEF Jobs!Finish, Jobs!Nothing, Jobs!SureNext
    <2> QED  BY <2>2, <2>3, <2>4
  <1> QED  BY <1>1, <1>2, <1>3

\* ^C ends some of the programs and the line with them.
LEMMA InterruptSteps ==
    ASSUME MapInv, Sigint
    PROVE  Jobs!Interrupt
  <1>0. ints' = ints + 1 /\ pc # "exited"  BY DEF Sigint
  <1>1. Phase # "exited"  BY <1>0 DEF Phase
  <1>2. CASE ~jmpok
    <2>1. pc = "top" /\ UNCHANGED <<control, status, image>>
      BY <1>2 DEF Sigint, MapInv, JumpInv
    <2>2. Alive' = Alive /\ \A p \in Alive : image'[p].cmd = image[p].cmd
      BY <2>1 DEF Alive
    <2>3. \E J \in SUBSET DOMAIN Running : Running' = Jobs!Remaining(J)
      BY <2>2, RunningLess
    <2> QED  BY <1>0, <1>1, <2>1, <2>3 DEF control, Phase, Todo, Current, Forked, Jobs!Interrupt, Jobs!Nothing
  <1>3. CASE jmpok
    <2>1. PICK killed \in SUBSET {p \in Pid : status[p] = "run"} :
             status' = [p \in Pid |-> CASE p \in killed         -> "zombie"
                                       [] status[p] = "setup" -> "stray"
                                       [] OTHER               -> status[p]]
      BY <1>3 DEF Sigint
    <2>2. Alive' = Alive \ killed /\ image' = image
      BY <2>1 DEF Sigint, Alive
    <2>3. \E J \in SUBSET DOMAIN Running : Running' = Jobs!Remaining(J)
      <3>1. Alive \ killed \in SUBSET Alive  OBVIOUS
      <3>2. Running' = Jobs!Remaining(Alive \ killed) /\ DOMAIN Running = Alive
        BY <2>2, <3>1, RunningLess
      <3> QED  BY <3>1, <3>2
    <2>4. Phase' = "prompt" /\ Todo' = <<>> /\ Current' = {}
      BY <1>3 DEF Sigint, Phase, Todo, Current, Forked
    <2> QED  BY <1>0, <1>1, <2>3, <2>4 DEF Jobs!Interrupt, Jobs!Nothing
  <1> QED  BY <1>2, <1>3

-----------------------------------------------------------------------------
(***************************************************************************)
(* The steps of the children, and the theorems.                            *)
(***************************************************************************)

LEMMA ProcessSteps ==
    ASSUME MapInv, NEW p \in Pid, Child(p) \/ Program(p) \/ ProgQuit(p)
    PROVE  [Jobs!SureNext]_Jobs!vars
  <1>0. TypeInv /\ status \in [Pid -> Status] /\ image \in [Pid -> Frame]
    BY DEF MapInv, TypeInv, TypeOK
  <1>1. CASE p \in Alive /\ Die({p}) /\ UNCHANGED <<control, ints>>
    <2>1. Jobs!End(p)  BY <1>0, <1>1, DeathEndsJob
    <2> QED  BY <2>1 DEF Jobs!SureNext
  <1>2. CASE ChildCrash(p) \/ ChildExecFails(p) \/ ProgSigpipe(p) \/ ProgFinish(p) \/ ProgQuit(p)
    BY <1>1, <1>2 DEF ChildCrash, ChildExecFails, ProgSigpipe, ProgFinish, ProgQuit, Alive
  <1>3. CASE ChildExec(p) \/ ChildReturns(p) \/ ProgRead(p) \/ ProgWrite(p)
    <2>1. Spent(image[p]).cmd = image[p].cmd  BY DEF Spent, NoFrame
    <2>2. Alive' = Alive /\ \A o \in Alive : image'[o].cmd = image[o].cmd
      BY <1>0, <1>3, <2>1 DEF ChildExec, ChildReturns, ProgRead, ProgWrite, procs, Alive
    <2>3. UNCHANGED <<control, ints>>
      BY <1>3 DEF ChildExec, ChildReturns, ProgRead, ProgWrite, signals
    <2>4. UNCHANGED <<Phase, Todo, Current>>
      BY <2>3 DEF control, Phase, Todo, Current
    <2> QED  BY <2>2, <2>3, <2>4, RunningKept, Unseen
  <1> QED  BY <1>2, <1>3 DEF Child, Program

LEMMA StartsAlike == Init => Jobs!Init
  BY DEF Init, Jobs!Init, Jobs!Nothing, Phase, Todo, Current, Running, Alive, Forked

\* A step of the shell is a step of what it promises, or is not seen; it gives
\* a line up only when the pipe a command reads cannot be closed.
LEMMA StepsAlike ==
    ASSUME MapInv, [Next]_vars
    PROVE  \/ [Jobs!SureNext]_Jobs!vars
           \/ (CloseIn \/ CloseNothing \/ CloseInWrite) /\ Jobs!GiveUp
  <1>1. CASE UNCHANGED vars
    <2>1. Running' = Running
      BY <1>1, RunningKept DEF vars, procs, Alive
    <2>2. UNCHANGED <<Phase, Todo, Current, ints>>
      BY <1>1 DEF vars, control, signals, Phase, Todo, Current
    <2> QED  BY <2>1, <2>2, Unseen
  <1> QED
    BY <1>1, LineSteps, EnterSteps, ForkSteps, CloseSteps, WaitSteps, AfterSteps,
       InterruptSteps, ProcessSteps
       DEF Next, ShellStep, User, Jobs!SureNext

\* Whatever the kernel refuses and whenever ^C comes: the commands of a line
\* are started in order, each once, never before the foreground command ahead
\* has ended, and the rest of a line is lost only to ^C or to a missing pipe.
THEOREM ImplementsJobs == Spec => DoesJobsWithoutPipes
  <1>1. MapInv /\ [Next]_vars => [Jobs!Next]_Jobs!vars
    BY StepsAlike DEF Jobs!Next
  <1> QED
    BY <1>1, MapInit, MapStep, StartsAlike, PTL DEF Spec, DoesJobsWithoutPipes, Jobs!Spec

\* While the kernel has pipes to give, only ^C can drop the rest of a line.
THEOREM ImplementsSureJobs == Spec /\ []PipesSuffice => DoesJobs
  <1>1. MapInv /\ CoreInv /\ [Next]_vars => [Jobs!SureNext]_Jobs!vars
    <2> SUFFICES ASSUME MapInv, CoreInv, [Next]_vars,
                        CloseIn \/ CloseNothing \/ CloseInWrite
                 PROVE  [Jobs!SureNext]_Jobs!vars
      BY StepsAlike
    <2>1. pc \in Forked /\ pc' \in Forked /\ frames' = frames /\ cmdList' = cmdList
      BY CloseSucceeds DEF Forked
    <2>2. Running' = Running /\ ints' = ints
      BY RunningKept DEF CloseIn, CloseNothing, CloseInWrite, CloseEnd, procs, signals, Alive
    <2> QED  BY <2>1, <2>2, Unseen DEF Phase, Todo, Current, Forked
  <1> QED
    BY <1>1, MapInit, MapStep, StartsAlike, CoreHolds, PTL DEF Spec, DoesJobs, Jobs!SureSpec

=============================================================================
