------------------------------- MODULE Capture -------------------------------
(***************************************************************************)
(* capture_stdout (d2x/buildtools/src/runner.cppm): the main thread that   *)
(* beats, the reader thread that blocks in fgets on mcpp's pipe, and       *)
(* around them two external parties: mcpp, the child, which may hang, and  *)
(* d2x, which kills the Provider and all it started once it has not had a  *)
(* byte from it for IdleLimit.                                             *)
(*                                                                         *)
(* Time passes in ticks of the main loop's sleep, 200 ms.  The scheduler   *)
(* may be late: an iteration of the loop takes at least one tick and at    *)
(* most 1 + Slack.                                                         *)
(***************************************************************************)
EXTENDS Integers

CONSTANTS
    HeartbeatEvery,   \* ticks between two heartbeats
    Slack,            \* bound: ticks by which main may be late
    IdleLimit,        \* ticks of silence after which d2x kills
    MaxLines,         \* bound: lines the child writes
    PipeCapacity,     \* lines the pipe holds
    Statuses          \* wait statuses the child may end with

\* What wait() can report of a child that ended: exit(n), or a signal, with the
\* flag 128 when it left a core.
WaitStatuses == {256 * n : n \in 0..255}
                \cup {s + core : s \in 1..126, core \in {0, 128}}

ASSUME TimeAssumption ==
    /\ HeartbeatEvery \in Nat \ {0}
    /\ Slack \in Nat
    /\ IdleLimit \in Nat
    /\ Slack < HeartbeatEvery
    /\ IdleLimit > HeartbeatEvery + 2 * Slack
ASSUME PipeAssumption ==
    /\ MaxLines \in Nat
    /\ PipeCapacity \in Nat \ {0}
    /\ Statuses \subseteq WaitStatuses

VARIABLES
    beats,      \* on_heartbeat was given
    main,       \* where the main thread is
    reader,     \* where the reader thread is
    finished,   \* the atomic flag
    collected,  \* lines in the string that both threads name
    output,     \* lines in result.output
    code,       \* result.exit_code
    child,      \* the child: running, its output closed, or gone
    written,    \* lines the child wrote
    wstatus,    \* its wait status
    lag,        \* ticks since main began this iteration of its loop
    waited,     \* ticks since the last heartbeat, or since started
    silence,    \* ticks since d2x last saw a byte
    killed      \* d2x killed the Provider

threads == <<main, reader, finished, collected, output, code>>
childs  == <<child, written, wstatus>>
time    == <<lag, waited, silence>>
vars    == <<beats, threads, childs, time, killed>>

TypeOK ==
    /\ beats \in BOOLEAN
    /\ main \in {"popen", "test", "sleep", "beat", "join", "move", "pclose",
                 "done"}
    /\ reader \in {"none", "fgets", "append", "store", "ended"}
    /\ finished \in BOOLEAN
    /\ collected \in 0..MaxLines
    /\ output \in 0..MaxLines
    /\ code \in Nat
    /\ child \in {"none", "running", "closed", "gone"}
    /\ written \in 0..MaxLines
    /\ wstatus \in Statuses \cup {0}
    /\ lag \in 0..(1 + Slack)
    /\ waited \in 0..(HeartbeatEvery + Slack)
    /\ silence \in 0..IdleLimit
    /\ killed \in BOOLEAN

Init ==
    /\ beats \in BOOLEAN
    /\ main = "popen" /\ reader = "none" /\ finished = FALSE
    /\ collected = 0 /\ output = 0 /\ code = 0
    /\ child = "none" /\ written = 0 /\ wstatus = 0
    /\ lag = 0 /\ waited = 0
    /\ silence = 0      \* the stage event has just been sent
    /\ killed = FALSE

InLoop == main \in {"test", "sleep", "beat"}
InPipe == written - collected - (IF reader = "append" THEN 1 ELSE 0)
Alive  == ~killed /\ main # "done"

-----------------------------------------------------------------------------
(* Mutated forms of definitions below, for the sensitivity of the checks.  *)

\* The loop ends with the first line instead of the last.
TestFinished_FirstLine ==
    /\ Alive /\ main = "test"
    /\ main' = IF finished \/ collected > 0 THEN "join" ELSE "sleep"
    /\ UNCHANGED <<beats, reader, finished, collected, output, code, childs,
                   time, killed>>

\* The reader is detached, not joined.
Join_Detaches ==
    /\ Alive /\ main = "join"
    /\ main' = "move"
    /\ UNCHANGED <<beats, reader, finished, collected, output, code, childs,
                   time, killed>>

\* The reader stops when the child is done, before the pipe is empty.
ReadEof_Early ==
    /\ Alive /\ reader = "fgets" /\ child \in {"closed", "gone"}
    /\ reader' = "store"
    /\ UNCHANGED <<beats, main, finished, collected, output, code, childs,
                   time, killed>>

\* The wait status is taken for the exit code.
exit_code_Raw(s) == s

\* The reader ends without setting the flag.
StoreFinished_Forgotten ==
    /\ Alive /\ reader = "store"
    /\ reader' = "ended"
    /\ UNCHANGED <<beats, main, finished, collected, output, code, childs,
                   time, killed>>

-----------------------------------------------------------------------------
(* The main thread.                                                        *)

SpawnFails ==
    /\ Alive /\ main = "popen"
    /\ main' = "done" /\ code' = 127
    /\ UNCHANGED <<beats, reader, finished, collected, output, childs, time,
                   killed>>

\* popen succeeds, the reader starts; without a callback main joins at once.
Spawn ==
    /\ Alive /\ main = "popen"
    /\ main' = IF beats THEN "test" ELSE "join"
    /\ child' = "running" /\ reader' = "fgets"
    /\ lag' = 0 /\ waited' = 0
    /\ UNCHANGED <<beats, finished, collected, output, code, written, wstatus,
                   silence, killed>>

TestFinished ==
    /\ Alive /\ main = "test"
    /\ main' = IF finished THEN "join" ELSE "sleep"
    /\ UNCHANGED <<beats, reader, finished, collected, output, code, childs,
                   time, killed>>

\* main wakes and reads the clock; next is counted from this now.
Wake ==
    /\ Alive /\ main = "sleep" /\ lag >= 1
    /\ IF waited >= HeartbeatEvery
       THEN main' = "beat" /\ waited' = 0 /\ UNCHANGED lag
       ELSE main' = "test" /\ lag' = 0 /\ UNCHANGED waited
    /\ UNCHANGED <<beats, reader, finished, collected, output, code, childs,
                   silence, killed>>

\* The callback writes an output event, and d2x reads it.
Beat ==
    /\ Alive /\ main = "beat"
    /\ main' = "test" /\ lag' = 0 /\ silence' = 0
    /\ UNCHANGED <<beats, reader, finished, collected, output, code, childs,
                   waited, killed>>

Join ==
    /\ Alive /\ main = "join" /\ reader = "ended"
    /\ main' = "move"
    /\ UNCHANGED <<beats, reader, finished, collected, output, code, childs,
                   time, killed>>

Move ==
    /\ Alive /\ main = "move"
    /\ main' = "pclose" /\ output' = collected /\ collected' = 0
    /\ UNCHANGED <<beats, reader, finished, code, childs, time, killed>>

\* WIFEXITED and WEXITSTATUS, WIFSIGNALED and WTERMSIG of a wait status.
exit_code(s) ==
    LET signal == s % 128
    IN  IF signal = 0 THEN (s \div 256) % 256
        ELSE IF signal # 127 THEN 128 + signal
        ELSE s

\* pclose waits for the child, however long it lives, or fails (-1).
PClose ==
    /\ Alive /\ main = "pclose" /\ child = "gone"
    /\ main' = "done" /\ code' \in {exit_code(wstatus), 127}
    /\ UNCHANGED <<beats, reader, finished, collected, output, childs, time,
                   killed>>

-----------------------------------------------------------------------------
(* The reader thread.                                                      *)

ReadLine ==
    /\ Alive /\ reader = "fgets" /\ InPipe > 0
    /\ reader' = "append"
    /\ UNCHANGED <<beats, main, finished, collected, output, code, childs,
                   time, killed>>

AppendLine ==
    /\ Alive /\ reader = "append"
    /\ reader' = "fgets" /\ collected' = collected + 1
    /\ UNCHANGED <<beats, main, finished, output, code, childs, time, killed>>

ReadEof ==
    /\ Alive /\ reader = "fgets" /\ InPipe = 0
    /\ child \in {"closed", "gone"}
    /\ reader' = "store"
    /\ UNCHANGED <<beats, main, finished, collected, output, code, childs,
                   time, killed>>

StoreFinished ==
    /\ Alive /\ reader = "store"
    /\ finished' = TRUE /\ reader' = "ended"
    /\ UNCHANGED <<beats, main, collected, output, code, childs, time, killed>>

-----------------------------------------------------------------------------
(* The child, time, and d2x.                                               *)

WriteLine ==
    /\ Alive /\ child = "running"
    /\ written < MaxLines /\ InPipe < PipeCapacity
    /\ written' = written + 1
    /\ UNCHANGED <<beats, threads, child, wstatus, time, killed>>

CloseOutput ==
    /\ Alive /\ child = "running"
    /\ child' = "closed"
    /\ UNCHANGED <<beats, threads, written, wstatus, time, killed>>

ChildEnds ==
    /\ Alive /\ child \in {"running", "closed"}
    /\ child' = "gone" /\ wstatus' \in Statuses
    /\ UNCHANGED <<beats, threads, written, time, killed>>

\* The scheduler lets main be late by Slack, no more.
Tick ==
    /\ Alive /\ silence < IdleLimit
    /\ main = "popen" => lag < Slack
    /\ InLoop => lag < 1 + Slack
    /\ silence' = silence + 1
    /\ IF InLoop \/ main = "popen" THEN lag' = lag + 1 ELSE UNCHANGED lag
    /\ IF InLoop THEN waited' = waited + 1 ELSE UNCHANGED waited
    /\ UNCHANGED <<beats, threads, childs, killed>>

IdleKill ==
    /\ Alive /\ silence = IdleLimit
    /\ killed' = TRUE
    /\ UNCHANGED <<beats, threads, childs, time>>

MainStep ==
    \/ SpawnFails \/ Spawn \/ TestFinished \/ Wake \/ Beat
    \/ Join \/ Move \/ PClose

ReaderStep == ReadLine \/ AppendLine \/ ReadEof \/ StoreFinished

ChildStep == WriteLine \/ CloseOutput \/ ChildEnds

Next == MainStep \/ ReaderStep \/ ChildStep \/ Tick \/ IdleKill

Spec == Init /\ [][Next]_vars

\* The threads are scheduled, time goes on, and d2x keeps its limit.  Nothing
\* makes the child go on: it may hang.
Fairness ==
    /\ WF_vars(MainStep) /\ WF_vars(ReaderStep)
    /\ WF_vars(Tick) /\ WF_vars(IdleKill)

FairSpec == Spec /\ Fairness

-----------------------------------------------------------------------------
(* Properties.                                                             *)

\* While mcpp's output is open, a build as long as it may be, the heartbeats
\* keep d2x from killing the Provider (lines 37-47).
NeverKilledWhileReading ==
    beats /\ killed => finished

\* main touches the string and the pipe when the reader is through with them,
\* with a heartbeat loop before the join or without one (lines 93-97).
ReaderIsDoneFirst ==
    main \in {"move", "pclose"} => reader = "ended"

\* The caller gets every line mcpp wrote, also those that the pipe still held
\* when mcpp ended.
OutputIsComplete == main = "done" => output = written

\* A code the caller gets is one that a shell would show, 0 for success only
\* (lines 101-105).
CodeIsTheChilds ==
    main = "done" => code <= 255 /\ (code = 0 => child = "gone" /\ wstatus = 0)

\* Once mcpp closed its output the capture comes to an end: it returns, or, when
\* mcpp lives on and pclose waits for it without a heartbeat, d2x ends it
\* (lines 84-100).  Nothing of the kind holds before: the heartbeats go on.
ClosedOutputEndsCapture ==
    child \in {"closed", "gone"} ~> main = "done" \/ killed
=============================================================================
