------------------------------- MODULE Provider -------------------------------
(***************************************************************************)
(* One Provider answering `check <id>` requests, one after the other:      *)
(* cmd_check of d2x/buildtools/src/main.cpp and run_mcpp_test of           *)
(* runner.cppm, with Judge for the outcome and Harness for the exercise    *)
(* processes that mcpp runs.  Two things are external: mcpp, which builds  *)
(* and runs in some order every test whose name contains the one asked     *)
(* for, and d2x, which may kill the whole process tree at any moment.      *)
(*                                                                         *)
(* The exercise processes and the judge share the file result.ndjson       *)
(* (variable channel): no line of it names its test, and it outlives a     *)
(* killed check.  Two variables are history: own, what really happened to  *)
(* the exercise asked about, and disturbed, what came in the way of it.    *)
(***************************************************************************)
EXTENDS Judge, FiniteSets, Functions

CONSTANTS
    Tests,          \* the exercises
    Matching,       \* Matching[t]: the tests whose name contains t's name
    NoTest,         \* no test is running
    MaxChecks,      \* bound: checks asked for, and steps of other Providers
    MaxOthers,      \* bound: steps of other Providers
    MaxDisturbances,   \* bound: kinds of disturbance that one check meets
    MaxStale,       \* bound: lines in an old file that fs::remove fails on
    CodeMayBeMissing,  \* a record may come without a number in exit_code
    MaxCalls, MaxHandlers, ExitCodes, CrashCode,
    ResultFileSet, WritesMayFail, FormatMayThrow    \* of Harness

ASSUME MatchingAssumption ==
    /\ NoTest \notin Tests
    /\ Matching \in [Tests -> SUBSET Tests]
    /\ \A t \in Tests : t \in Matching[t]
ASSUME ProviderAssumption ==
    /\ MaxChecks \in Nat /\ MaxOthers \in Nat /\ MaxDisturbances \in Nat
    /\ MaxStale \in Nat /\ CodeMayBeMissing \in BOOLEAN
    /\ ResultFileSet      \* run_mcpp_test sets D2X_RESULT_FILE itself
ASSUME ProcessAssumption ==
    /\ MaxCalls \in Nat /\ MaxHandlers \in Nat
    /\ ExitCodes \subseteq Nat /\ CrashCode \in Nat \ {0}
    /\ WritesMayFail \in BOOLEAN /\ FormatMayThrow \in BOOLEAN

VARIABLES
    pc,       \* where cmd_check is
    checks,   \* checks asked for, for the bound
    others,   \* steps of other Providers, for the bound
    asked,    \* the exercise of the check under way, or of the last one
    todo,     \* tests mcpp has not come to yet
    current,  \* the test whose process runs, or NoTest
    records,  \* mcpp's records: test -> [status, exit]
    package,  \* mcpp's package error: none, or with or without a text
    stage,    \* the last stage event
    answer,   \* the last verdict or error event
    own,      \* history: what happened to the exercise asked about
    disturbed,  \* history: what came between that and the answer
    phase, calls, pending, failures, waits, hooked, hookPending,
    newer, older, channel, status, exit, ending, late, lost    \* of Harness

H == INSTANCE Harness

process  == <<phase, calls, pending, failures, waits, hooked, hookPending,
              newer, older, status, exit, ending, late, lost>>
request  == <<pc, checks, others, asked>>
mcpp     == <<todo, current, records, package>>
events   == <<stage, answer>>
history  == <<own, disturbed>>
vars     == <<request, mcpp, events, history, process, channel>>

\* A neighbour's lines, lines of an earlier check, lines removed or added by
\* another Provider, lines not written, and a record without its exit code.
Disturbances == {"neighbour", "stale", "other", "lost", "code"}

NoRecords == [t \in {} |-> [status |-> "none", exit |-> 0]]
NoAnswer  == [kind |-> "none", stage |-> "none", outcome |-> "none",
              exit |-> 0, diagnostics |-> 0]
NoFacts   == [compiled |-> FALSE, failures |-> 0, waits |-> 0, status |-> 0,
              exit |-> 0, ending |-> "none", late |-> FALSE]

Codes   == ExitCodes \cup {0, 1, CrashCode}
Records == [status : {"pass", "run_fail", "compile_fail"}, exit : Codes]
Answers == [kind : {"none", "error", "verdict"},
            stage : {"none", "compile", "run"},
            outcome : Outcomes \cup {"none"},
            exit : Codes, diagnostics : Nat]
Facts   == [compiled : BOOLEAN, failures : 0..MaxCalls, waits : 0..MaxCalls,
            status : Codes, exit : Codes,
            ending : {"compile", "return", "quick", "crash"}, late : BOOLEAN]

TypeOK ==
    /\ pc \in {"idle", "remove", "mcpp", "answer", "judge"}
    /\ checks \in 0..MaxChecks /\ others \in 0..MaxOthers
    /\ asked \in Tests
    /\ todo \subseteq Tests
    /\ current \in Tests \cup {NoTest}
    /\ records \in UNION {[T -> Records] : T \in SUBSET Tests}
    /\ package \in {"none", "text", "empty"}
    /\ stage \in {"none", "compile", "run"}
    /\ answer \in Answers
    /\ own \in Facts \cup {NoFacts} /\ disturbed \subseteq Disturbances
    /\ H!TypeOK

Init ==
    /\ pc = "idle" /\ checks = 0 /\ others = 0 /\ asked \in Tests
    /\ todo = {} /\ current = NoTest
    /\ records = NoRecords /\ package = "none"
    /\ stage = "none" /\ answer = NoAnswer
    /\ own = NoFacts /\ disturbed = {}
    /\ H!Init

-----------------------------------------------------------------------------
(* Mutated forms of definitions below, for the sensitivity of the checks.  *)

\* The old file is left where it is.
ClearChannel_Forgotten ==
    /\ pc = "remove"
    /\ pc' = "mcpp"
    /\ todo' = Matching[asked] /\ current' = NoTest
    /\ records' = NoRecords /\ package' = "none"
    /\ UNCHANGED <<checks, others, asked, events, history, process, channel>>

\* The last record is taken, whatever its test.
RecordFor_Any(t) == IF records = NoRecords THEN {}
                    ELSE {CHOOSE r \in Range(records) : TRUE}

-----------------------------------------------------------------------------
(* The Provider up to the call of mcpp.                                    *)

Lines(file) == <<file.fails, file.waits>>

\* One more thing comes in the way of the check, up to the bound.
Disturb(what) ==
    /\ disturbed' = disturbed \cup what
    /\ Cardinality(disturbed') <= MaxDisturbances

\* The id names no exercise: an error and nothing else.
UnknownExercise ==
    /\ pc = "idle"
    /\ answer' = [NoAnswer EXCEPT !.kind = "error"]
    /\ UNCHANGED <<request, mcpp, stage, history, process, channel>>

cmd_check(t) ==
    /\ pc = "idle" /\ checks + others < MaxChecks
    /\ pc' = "remove" /\ checks' = checks + 1 /\ asked' = t
    /\ stage' = "compile" /\ answer' = NoAnswer
    /\ own' = NoFacts /\ disturbed' = {}
    /\ UNCHANGED <<others, mcpp, process, channel>>

\* The old file is removed, errors ignored, and mcpp called with the name as
\* a pattern.
ClearChannel ==
    /\ pc = "remove"
    /\ pc' = "mcpp"
    /\ \/ channel' = H!NoFile
       \/ channel.fails + channel.waits <= MaxStale /\ UNCHANGED channel
    /\ Disturb(IF channel'.fails + channel'.waits > 0 THEN {"stale"} ELSE {})
    /\ todo' = Matching[asked] /\ current' = NoTest
    /\ records' = NoRecords /\ package' = "none"
    /\ UNCHANGED <<checks, others, asked, events, own, process>>

-----------------------------------------------------------------------------
(* mcpp, external: it builds and runs the tests in any order.              *)

Between == pc = "mcpp" /\ current = NoTest

\* The library or the package does not build: no test is run.
PackageFails ==
    /\ Between /\ todo = Matching[asked]
    /\ package' \in {"text", "empty"}
    /\ todo' = {}
    /\ UNCHANGED <<request, current, records, events, history, process, channel>>

\* mcpp is missing, too old, or dies before it has printed its records.
McppPrintsNothing ==
    /\ Between /\ package = "none"
    /\ todo' = {} /\ records' = NoRecords
    /\ UNCHANGED <<request, current, package, events, history, process, channel>>

\* mcpp's record of test t.
Noted(t, r) ==
    [u \in DOMAIN records \cup {t} |-> IF u = t THEN r ELSE records[u]]

\* What happened to test t, if t is the exercise asked about.
Observe(t, f) == own' = IF t = asked THEN f ELSE own

CompileFails(t) ==
    /\ Between /\ t \in todo
    /\ todo' = todo \ {t}
    /\ \E code \in {0, 1} :
         records' = Noted(t, [status |-> "compile_fail", exit |-> code])
    /\ Observe(t, [NoFacts EXCEPT !.ending = "compile"])
    /\ UNCHANGED <<request, current, package, events, disturbed, process, channel>>

RunTest(t) ==
    /\ Between /\ t \in todo
    /\ todo' = todo \ {t} /\ current' = t
    /\ H!Reset("main")
    /\ UNCHANGED <<request, records, package, events, history, channel>>

TestStep ==
    /\ current # NoTest
    /\ H!ProcessStep
    /\ Disturb(IF current = asked THEN (IF lost' THEN {"lost"} ELSE {})
               ELSE IF Lines(channel') # Lines(channel) THEN {"neighbour"} ELSE {})
    /\ UNCHANGED <<request, mcpp, events, own>>

\* The process has ended: mcpp notes its exit code.  The Provider reads a
\* missing one, null, or anything but a number as 0, and not the status.
TestEnds ==
    /\ current # NoTest /\ phase = "ended"
    /\ \E code \in {exit} \cup (IF CodeMayBeMissing THEN {0} ELSE {}) :
         records' = Noted(current,
                          [status |-> IF exit = 0 THEN "pass" ELSE "run_fail",
                           exit   |-> code])
    /\ Observe(current, [compiled |-> TRUE, failures |-> failures,
                         waits |-> waits, status |-> status, exit |-> exit,
                         ending |-> ending, late |-> late])
    /\ Disturb(IF current # asked \/ records'[asked].exit = exit THEN {} ELSE {"code"})
    /\ current' = NoTest
    /\ H!Reset("idle")
    /\ UNCHANGED <<request, todo, package, events, channel>>

-----------------------------------------------------------------------------
(* The Provider from mcpp's output to the answer.                          *)

\* The records of the test asked for, picked by its exact name.
RecordFor(t) == {records[u] : u \in DOMAIN records \cap {t}}

\* capture_stdout returns all of mcpp's output; its exit code is not looked at.
mcppReturns ==
    /\ Between /\ todo = {}
    /\ pc' = "answer"
    /\ UNCHANGED <<checks, others, asked, mcpp, events, history, process, channel>>

Answer(a) ==
    /\ pc' = "idle"
    /\ answer' = a
    /\ UNCHANGED <<checks, others, asked, mcpp, history, process, channel>>

PackageError ==
    /\ pc = "answer" /\ package = "text"
    /\ Answer([NoAnswer EXCEPT !.kind = "error"])
    /\ UNCHANGED stage

\* Also the way of a package error that has no text.
NoRecord ==
    /\ pc = "answer" /\ package # "text" /\ RecordFor(asked) = {}
    /\ Answer([NoAnswer EXCEPT !.kind = "error"])
    /\ UNCHANGED stage

CompileVerdict ==
    /\ pc = "answer" /\ package # "text"
    /\ \E r \in RecordFor(asked) :
         /\ r.status = "compile_fail"
         /\ Answer([kind |-> "verdict", stage |-> "compile",
                    outcome |-> "fail", exit |-> r.exit, diagnostics |-> 0])
    /\ UNCHANGED stage

\* The exercise was run: the stage event, then the judge reads the file.
RunStage ==
    /\ pc = "answer" /\ package # "text"
    /\ \E r \in RecordFor(asked) : r.status # "compile_fail"
    /\ pc' = "judge" /\ stage' = "run"
    /\ UNCHANGED <<checks, others, asked, mcpp, answer, history, process, channel>>

RunVerdict ==
    /\ pc = "judge"
    /\ \E r \in RecordFor(asked) :
         LET report == judge_run(r.exit, channel)
         IN  Answer([kind |-> "verdict", stage |-> "run",
                     outcome |-> report.outcome, exit |-> r.exit,
                     diagnostics |-> report.failures])
    /\ UNCHANGED stage

\* d2x kills the Provider with everything it started: no verdict is given, and
\* the file stays as it is.
Kill ==
    /\ pc # "idle"
    /\ pc' = "idle"
    /\ todo' = {} /\ current' = NoTest
    /\ H!Reset("idle")
    /\ UNCHANGED <<checks, others, asked, records, package, events, history, channel>>

\* Another Provider at work in the same root (a check by hand beside d2x): it
\* removes the file as it begins, and its exercises append to it.
OtherProvider ==
    /\ others < MaxOthers /\ checks + others < MaxChecks
    /\ others' = others + 1
    /\ \/ channel' = H!NoFile
       \/ \E call \in {[call |-> "check", ok |-> FALSE], [call |-> "wait", ok |-> TRUE]} :
            channel' = H!Appended(call)
    /\ Disturb(IF pc # "idle" THEN {"other"} ELSE {})
    /\ UNCHANGED <<pc, checks, asked, mcpp, events, own, process>>

Next ==
    \/ UnknownExercise
    \/ \E t \in Tests : cmd_check(t)
    \/ ClearChannel
    \/ PackageFails
    \/ McppPrintsNothing
    \/ \E t \in Tests : CompileFails(t) \/ RunTest(t)
    \/ TestStep
    \/ TestEnds
    \/ mcppReturns
    \/ PackageError
    \/ NoRecord
    \/ CompileVerdict
    \/ RunStage
    \/ RunVerdict
    \/ Kill
    \/ OtherProvider

Spec == Init /\ [][Next]_vars

-----------------------------------------------------------------------------
(* Properties.                                                             *)

Verdict == answer.kind = "verdict"

\* Did the record, and did the file, come to the judge as the run left them?
\* What others have put beside the lines does not matter here.
CodeTold  == "code" \notin disturbed
LinesTold == "lost" \notin disturbed /\ "other" \notin disturbed

\* A verdict rests on the build and run of the exercise asked about, in this
\* check: never on a neighbour's record, an earlier check, or no run at all
\* (main.cpp lines 101-113, runner.cppm lines 167-198).
VerdictIsAboutTheAskedExercise ==
    Verdict =>
        /\ own # NoFacts
        /\ answer.stage = (IF own.compiled THEN "run" ELSE "compile")
        /\ answer.stage = "run" /\ CodeTold => answer.exit = own.exit

\* "pass" is never given to an exercise with a failed check or a wait left,
\* whatever is beside its lines.  Each of the two signals does what it can for
\* that when the other is gone: the exit code unless the exercise fails after
\* the hook or goes round it, the file unless the exercise crashes.
PassIsEarned ==
    Verdict /\ answer.outcome = "pass" =>
        LET nothingIsLeft == own.failures = 0 /\ own.waits = 0
        IN  /\ CodeTold => own.exit = 0
            /\ LinesTold /\ own.ending # "crash" => nothingIsLeft
            /\ CodeTold /\ own.ending = "return" /\ ~own.late => nothingIsLeft

\* Every failed check of a run that did not crash is reported as a failure with
\* its diagnostic, in a file that neighbours and old lines share, as long as no
\* line was lost and no other Provider removes the file (main.cpp:83).
FailureIsReported ==
    Verdict /\ own.failures > 0 /\ own.ending # "crash" /\ LinesTold =>
        answer.outcome = "fail" /\ answer.diagnostics >= own.failures

\* The comment of judge_run (runner.cppm line 240): blocked means that the
\* answer is right already and only the wait is left, that is, the exercise
\* ended by itself, with nothing failed and code 0 of its own.
BlockedMeansAnswerIsRight ==
    Verdict /\ answer.outcome = "blocked" =>
        own.failures = 0 /\ own.ending = "return" /\ own.status = 0

\* The comment of run_mcpp_test (runner.cppm lines 167-168): the pattern may
\* bring out neighbours, so the one test asked for is picked.  An exercise
\* without a failure or a bad exit code of its own is not called failed.
NeighbourIsFilteredOut ==
    Verdict /\ answer.stage = "run" /\ answer.outcome = "fail" =>
        own.failures > 0 \/ own.exit # 0

\* A check that nothing came in the way of keeps the contract, whatever came in
\* the way of the checks before it; to the contract the others were given up.
Contract == INSTANCE VerdictContract WITH
                open   <- pc # "idle" /\ disturbed = {},
                facts  <- IF disturbed = {} THEN own ELSE NoFacts,
                answer <- IF disturbed = {} THEN answer ELSE NoAnswer
KeepsContract == Contract!Spec
=============================================================================
