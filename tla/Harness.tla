------------------------------- MODULE Harness -------------------------------
(***************************************************************************)
(* The practice library (d2x/src/d2x.cppm) inside ONE exercise process:    *)
(* what check, check_eq and wait count, what they append to the side       *)
(* channel, and what the atexit hook makes of the exit code.               *)
(*                                                                         *)
(* The exercise itself is external: it may call the library in any order,  *)
(* construct objects whose destructors run at exit, return any code, leave *)
(* without running the handlers, or crash between any two steps.           *)
(*                                                                         *)
(* The exit handlers form a LIFO stack.  User handlers are all alike, so   *)
(* the stack is kept as their number above (registered after) and below    *)
(* (registered before) the library's hook.                                 *)
(***************************************************************************)
EXTENDS Integers

CONSTANTS
    MaxCalls,       \* bound: library calls made by one process
    MaxHandlers,    \* bound: user exit handlers waiting at a time
    ExitCodes,      \* codes the exercise may return, as the OS reports them
    CrashCode,      \* code the OS reports for an abnormal termination
    ResultFileSet,  \* D2X_RESULT_FILE names a file in the environment
    WritesMayFail,  \* fopen may fail in emit
    FormatMayThrow  \* a formatter used by check_eq may throw, and be caught

ASSUME BoundsAssumption ==
    MaxCalls \in Nat /\ MaxHandlers \in Nat
ASSUME CodesAssumption ==
    /\ ExitCodes \subseteq Nat
    /\ CrashCode \in Nat \ {0}
ASSUME EnvironmentAssumption ==
    /\ ResultFileSet \in BOOLEAN
    /\ WritesMayFail \in BOOLEAN
    /\ FormatMayThrow \in BOOLEAN

VARIABLES
    phase,        \* where the process is
    calls,        \* library calls made, for the bound
    pending,      \* the call counted but not yet reported, or NoCall
    failures,     \* g_failures
    waits,        \* g_waits
    hooked,       \* g_hooked
    hookPending,  \* exit_hook is on the handler stack
    newer,        \* user handlers registered after exit_hook, or without it
    older,        \* user handlers registered before exit_hook
    channel,      \* the NDJSON file: does it exist, its fail and wait lines
    status,       \* the code handed to exit()
    exit,         \* the code the parent sees
    ending,       \* how the process ended
    late,         \* history: a failure or a wait was counted after the hook ran
    lost          \* history: a line was not written that should have been

process == <<phase, calls, pending, failures, waits, hooked, hookPending,
             newer, older, status, exit, ending, late, lost>>
vars    == <<process, channel>>

NoCall   == [call |-> "none", ok |-> TRUE]
Calls    == [call : {"check", "check_eq", "wait"}, ok : BOOLEAN]
Channels == [exists : BOOLEAN, fails : Nat, waits : Nat]
NoFile   == [exists |-> FALSE, fails |-> 0, waits |-> 0]

TypeOK ==
    /\ phase \in {"idle", "main", "exiting", "handler", "ended"}
    /\ calls \in 0..MaxCalls
    /\ pending \in Calls \cup {NoCall}
    /\ failures \in 0..MaxCalls
    /\ waits \in 0..MaxCalls
    /\ hooked \in BOOLEAN
    /\ hookPending \in BOOLEAN
    /\ newer \in 0..MaxHandlers
    /\ older \in 0..MaxHandlers
    /\ channel \in Channels
    /\ status \in ExitCodes \cup {0}
    /\ exit \in ExitCodes \cup {0, 1, CrashCode}
    /\ ending \in {"none", "return", "quick", "crash"}
    /\ late \in BOOLEAN /\ lost \in BOOLEAN

Init ==
    /\ phase = "idle"
    /\ calls = 0 /\ pending = NoCall
    /\ failures = 0 /\ waits = 0
    /\ hooked = FALSE /\ hookPending = FALSE
    /\ newer = 0 /\ older = 0
    /\ status = 0 /\ exit = 0 /\ ending = "none" /\ late = FALSE
    /\ lost = FALSE
    /\ channel = NoFile

-----------------------------------------------------------------------------
(* Mutated forms of definitions below, for the sensitivity of the checks.  *)

\* check takes a failure off the count.
check_Decrements(ok) ==
    /\ phase \in {"main", "handler"} /\ pending.call = "none"
    /\ calls < MaxCalls /\ calls' = calls + 1
    /\ hooked' = TRUE /\ hookPending' = (hookPending \/ ~hooked)
    /\ pending' = [call |-> "check", ok |-> ok]
    /\ failures' = IF ok THEN failures ELSE failures - 1
    /\ UNCHANGED <<phase, waits, newer, older, channel, status, exit,
                   ending, late, lost>>

\* The hook looks at the failures only.
exit_hook_IgnoresWaits ==
    /\ phase = "exiting" /\ newer = 0 /\ hookPending
    /\ hookPending' = FALSE
    /\ IF failures > 0
       THEN phase' = "ended" /\ ending' = "return" /\ exit' = 1
       ELSE UNCHANGED <<phase, exit, ending>>
    /\ UNCHANGED <<calls, pending, failures, waits, hooked, newer, older,
                   channel, status, late, lost>>

\* The hook ends every process it runs in.
exit_hook_Unconditional ==
    /\ phase = "exiting" /\ newer = 0 /\ hookPending
    /\ hookPending' = FALSE
    /\ phase' = "ended" /\ ending' = "return" /\ exit' = 1
    /\ UNCHANGED <<calls, pending, failures, waits, hooked, newer, older,
                   channel, status, late, lost>>

\* emit opens the file with "w" instead of "a".
Appended_Truncates(call) ==
    [exists |-> TRUE,
     fails  |-> IF call.ok THEN 0 ELSE 1,
     waits  |-> IF call.call = "wait" THEN 1 ELSE 0]

\* emit writes the same line twice.
Appended_Twice(call) ==
    [exists |-> TRUE,
     fails  |-> channel.fails + (IF call.ok THEN 0 ELSE 2),
     waits  |-> channel.waits + (IF call.call = "wait" THEN 2 ELSE 0)]

\* emit keeps one FILE* that the exit hook closes.
emit_HeldFile ==
    /\ pending # NoCall
    /\ IF ResultFileSet /\ hookPending
       THEN channel' = [exists |-> TRUE,
                        fails |-> channel.fails + (IF pending.ok THEN 0 ELSE 1),
                        waits |-> channel.waits
                                  + (IF pending.call = "wait" THEN 1 ELSE 0)]
       ELSE UNCHANGED channel
    /\ pending' = NoCall
    /\ UNCHANGED <<phase, calls, failures, waits, hooked, hookPending,
                   newer, older, status, exit, ending, late, lost>>

-----------------------------------------------------------------------------
(* Exercise code runs in main (and before it) or in an exit handler.       *)
InUserCode == phase \in {"main", "handler"} /\ pending = NoCall

\* A process comes or goes: static storage as the OS initialises it.
Reset(p) ==
    /\ phase' = p
    /\ calls' = 0 /\ pending' = NoCall
    /\ failures' = 0 /\ waits' = 0
    /\ hooked' = FALSE /\ hookPending' = FALSE
    /\ newer' = 0 /\ older' = 0
    /\ status' = 0 /\ exit' = 0 /\ ending' = "none" /\ late' = FALSE
    /\ lost' = FALSE

Launch == phase = "idle" /\ Reset("main") /\ UNCHANGED channel

\* Handlers registered before the hook stay below it on the stack.
ensure_hook ==
    IF hooked
    THEN UNCHANGED <<hooked, hookPending, newer, older>>
    ELSE /\ hooked' = TRUE
         /\ hookPending' = TRUE
         /\ older' = older + newer
         /\ newer' = 0

\* Did the hook run already, so that this call comes too late for it?
HookGone == hooked /\ ~hookPending

\* The first half of a call: hook, then count.  Its line is not written yet.
Count(call, ok) ==
    /\ InUserCode
    /\ calls < MaxCalls
    /\ calls' = calls + 1
    /\ ensure_hook
    /\ pending' = [call |-> call, ok |-> ok]
    /\ UNCHANGED <<phase, channel, status, exit, ending, lost>>

check(ok) ==
    /\ Count("check", ok)
    /\ failures' = IF ok THEN failures ELSE failures + 1
    /\ late' = (late \/ (~ok /\ HookGone))
    /\ UNCHANGED waits

check_eq(ok) ==
    /\ Count("check_eq", ok)
    /\ failures' = IF ok THEN failures ELSE failures + 1
    /\ late' = (late \/ (~ok /\ HookGone))
    /\ UNCHANGED waits

wait ==
    /\ Count("wait", TRUE)
    /\ waits' = waits + 1
    /\ late' = (late \/ HookGone)
    /\ UNCHANGED failures

\* The line a call writes, appended to the file (created if need be).
Appended(call) ==
    [exists |-> TRUE,
     fails  |-> channel.fails + (IF call.ok THEN 0 ELSE 1),
     waits  |-> channel.waits + (IF call.call = "wait" THEN 1 ELSE 0)]

\* The second half: open, append and close, or nothing at all.
emit ==
    /\ pending # NoCall
    /\ \/ ResultFileSet /\ channel' = Appended(pending) /\ UNCHANGED lost
       \/ (~ResultFileSet \/ WritesMayFail) /\ lost' = TRUE /\ UNCHANGED channel
    /\ pending' = NoCall
    /\ UNCHANGED <<phase, calls, failures, waits, hooked, hookPending,
                   newer, older, status, exit, ending, late>>

\* check_eq formats its operands after counting; the exercise catches what
\* the formatter throws, and the line is never written.
FormatThrows ==
    /\ FormatMayThrow
    /\ pending.call = "check_eq"
    /\ pending' = NoCall /\ lost' = TRUE
    /\ UNCHANGED <<phase, calls, failures, waits, hooked, hookPending,
                   newer, older, channel, status, exit, ending, late>>

-----------------------------------------------------------------------------
(* The exercise's own steps and the C runtime's exit().                    *)

\* An object of static storage duration is constructed, or atexit called.
RegisterHandler ==
    /\ InUserCode
    /\ newer + older < MaxHandlers
    /\ newer' = newer + 1
    /\ UNCHANGED <<phase, calls, pending, failures, waits, hooked,
                   hookPending, older, channel, status, exit, ending, late, lost>>

\* main returns, or std::exit is called in it.
Return(code) ==
    /\ phase = "main" /\ pending = NoCall
    /\ phase' = "exiting"
    /\ status' = code
    /\ UNCHANGED <<calls, pending, failures, waits, hooked, hookPending,
                   newer, older, channel, exit, ending, late, lost>>

End(how, code) ==
    /\ phase' = "ended"
    /\ ending' = how
    /\ exit' = code

\* exit() takes the topmost handler: one registered after the hook ...
RunNewerHandler ==
    /\ phase = "exiting" /\ newer > 0
    /\ phase' = "handler" /\ newer' = newer - 1
    /\ UNCHANGED <<calls, pending, failures, waits, hooked, hookPending,
                   older, channel, status, exit, ending, late, lost>>

\* ... then the hook, which may not come back ...
exit_hook ==
    /\ phase = "exiting" /\ newer = 0 /\ hookPending
    /\ hookPending' = FALSE
    /\ IF failures > 0 \/ waits > 0
       THEN End("return", 1)
       ELSE UNCHANGED <<phase, exit, ending>>
    /\ UNCHANGED <<calls, pending, failures, waits, hooked, newer, older,
                   channel, status, late, lost>>

\* ... then those registered before it.
RunOlderHandler ==
    /\ phase = "exiting" /\ newer = 0 /\ ~hookPending /\ older > 0
    /\ phase' = "handler" /\ older' = older - 1
    /\ UNCHANGED <<calls, pending, failures, waits, hooked, hookPending,
                   newer, channel, status, exit, ending, late, lost>>

HandlerReturns ==
    /\ phase = "handler" /\ pending = NoCall
    /\ phase' = "exiting"
    /\ UNCHANGED <<calls, pending, failures, waits, hooked, hookPending,
                   newer, older, channel, status, exit, ending, late, lost>>

\* No handler is left: the process ends with the code given to exit().
ExitReturns ==
    /\ phase = "exiting" /\ newer = 0 /\ ~hookPending /\ older = 0
    /\ End("return", status)
    /\ UNCHANGED <<calls, pending, failures, waits, hooked, hookPending,
                   newer, older, channel, status, late, lost>>

\* _Exit or quick_exit: no handler runs.
QuickExit(code) ==
    /\ InUserCode
    /\ End("quick", code)
    /\ UNCHANGED <<calls, pending, failures, waits, hooked, hookPending,
                   newer, older, channel, status, late, lost>>

\* A signal or an uncaught exception, at any point: a call may be half done.
Crash ==
    /\ phase \in {"main", "handler", "exiting"}
    /\ End("crash", CrashCode)
    /\ UNCHANGED <<calls, pending, failures, waits, hooked, hookPending,
                   newer, older, channel, status, late, lost>>

LibraryStep ==
    \/ \E ok \in BOOLEAN : check(ok)
    \/ \E ok \in BOOLEAN : check_eq(ok)
    \/ wait
    \/ emit
    \/ FormatThrows

ProcessStep ==
    \/ LibraryStep
    \/ RegisterHandler
    \/ \E code \in ExitCodes : Return(code)
    \/ RunNewerHandler
    \/ exit_hook
    \/ RunOlderHandler
    \/ HandlerReturns
    \/ ExitReturns
    \/ \E code \in ExitCodes : QuickExit(code)
    \/ Crash

Next == Launch \/ ProcessStep

Spec == Init /\ [][Next]_vars

-----------------------------------------------------------------------------
(* Properties.                                                             *)

\* A process that leaves through exit() with code 0 had no failed check, no
\* wait and returned 0 itself, unless the failure came after the hook had run:
\* what lets a bare `mcpp test` show right and wrong (lines 18-20).
ExitCodeTellsOutcome ==
    phase = "ended" /\ ending = "return" /\ exit = 0 /\ ~late
        => failures = 0 /\ waits = 0 /\ status = 0

\* The hook turns the code into 1 for a failure or a wait and for nothing
\* else: a code the exercise returned by itself comes through (lines 38-39).
OverrideIsJustified ==
    phase = "ended" /\ ending = "return" /\ exit # status
        => exit = 1 /\ failures + waits > 0

\* Unless fopen or a formatter has failed, every counted failure and wait has
\* its line in the file, but for the call under way: an abnormal end loses at
\* most that one line, and a regular end none (lines 74-75).
CrashLosesAtMostOneLine ==
    ~lost =>
        /\ failures = channel.fails + (IF pending.ok THEN 0 ELSE 1)
        /\ waits = channel.waits + (IF pending.call = "wait" THEN 1 ELSE 0)
        /\ phase = "ended" /\ ending # "crash" => pending = NoCall

\* Whatever is lost, the file never says more than what happened: at most
\* one line for each counted failure and wait.
ChannelNeverOverstates ==
    channel.fails <= failures /\ channel.waits <= waits

\* The exit code and the file together: a failure that leaves exit code 0
\* (too late for the hook, or past it through _Exit) is in the file, unless a
\* line was lost.  Neither of the two signals has this property alone.
SomeSignalSurvives ==
    phase = "ended" /\ failures > 0 /\ exit = 0 /\ ~lost => channel.fails > 0

\* The comment of exit_hook (lines 38-39): when the process exits normally
\* with a failed check or a wait, its exit code becomes 1.
NormalExitWithFailureIsOne ==
    phase = "ended" /\ ending = "return" /\ failures + waits > 0 => exit = 1
=============================================================================
