------------------------------ MODULE MCTansh ------------------------------
(***************************************************************************)
(* Small instances of Tansh: the process and pipe slots, and the lines the *)
(* user types.                                                             *)
(***************************************************************************)
EXTENDS Tansh, TLC

Cmd(flags) == [type |-> flags, redirects |-> "NULL"]

\* a , a & , cd; a , and a as the grammar builds it
Foreground == <<Cmd({})>>
AsParsed   == <<Cmd({"CMD", "CMD_SIMPLE"})>>
Background == <<Cmd({"BACKGROUND"})>>
InternalThen == <<Cmd({"INTERNAL"}), Cmd({})>>

\* a | b , a | b & , a | b | c
Pipeline   == <<Cmd({"PIPE_OUTPUT"}), Cmd({"PIPE_INPUT"})>>
BackgroundPipeline == <<Cmd({"PIPE_OUTPUT", "BACKGROUND"}), Cmd({"PIPE_INPUT", "BACKGROUND"})>>
LongPipeline == <<Cmd({"PIPE_OUTPUT"}), Cmd({"PIPE_INPUT", "PIPE_OUTPUT"}), Cmd({"PIPE_INPUT"})>>

JobLines == {AsParsed, InternalThen, Background, Pipeline}
PipeLines == {LongPipeline, BackgroundPipeline}
InterruptLines == {Foreground, Pipeline}
ZombieLines == {Background}
PidSymmetry == Permutations(Pid)
=============================================================================
