---------------------------- MODULE ProviderProofs ----------------------------
(***************************************************************************)
(* A verdict is about the exercise asked for, a pass is earned, a failure  *)
(* is reported, and checks that nothing comes in the way of keep the       *)
(* contract: for every set of tests, however their names match, any number *)
(* of checks and of other Providers, and any exercise.                     *)
(*                                                                         *)
(* First the process that a test runs in, whatever the file held before    *)
(* it, then the check around it.                                           *)
(***************************************************************************)
EXTENDS Provider, TLAPS

-----------------------------------------------------------------------------
(* The process.                                                            *)

Flags ==
    /\ hooked \in BOOLEAN /\ hookPending \in BOOLEAN
    /\ late \in BOOLEAN /\ lost \in BOOLEAN

Values ==
    /\ phase \in {"idle", "main", "exiting", "handler", "ended"}
    /\ calls \in 0..MaxCalls
    /\ pending \in H!Calls \cup {H!NoCall}
    /\ failures \in 0..MaxCalls
    /\ waits \in 0..MaxCalls
    /\ newer \in 0..MaxHandlers
    /\ older \in 0..MaxHandlers
    /\ status \in ExitCodes \cup {0}
    /\ exit \in Codes
    /\ ending \in {"none", "return", "quick", "crash"}

Bounds ==
    /\ newer + older <= MaxHandlers
    /\ failures + waits <= calls

CallUnderWay ==
    pending # H!NoCall =>
        \/ phase \in {"main", "handler"}
        \/ phase = "ended" /\ ending = "crash"

Hooking ==
    /\ failures > 0 \/ waits > 0 => hooked
    /\ hookPending => hooked
    /\ hooked /\ ~hookPending /\ ~late /\ phase # "ended" =>
         failures = 0 /\ waits = 0

Endings ==
    phase = "ended" =>
        /\ ending \in {"return", "quick", "crash"}
        /\ ending = "crash" => exit = CrashCode
        /\ ending = "return" /\ exit = 0 /\ ~late => failures = 0 /\ waits = 0

Process == Flags /\ Values /\ Bounds /\ CallUnderWay /\ Hooking /\ Endings

\* A process that comes, or has gone.
LEMMA ResetKeeps ==
    ASSUME NEW p \in {"idle", "main"}, H!Reset(p) PROVE Process'
  <1> USE DEF H!Reset
  <1>1. Flags'
    BY DEF Flags
  <1>2. Values'
    BY ProcessAssumption DEF Values, Codes
  <1>3. Bounds'
    BY ProcessAssumption DEF Bounds
  <1>4. CallUnderWay' /\ Hooking' /\ Endings'
    BY DEF CallUnderWay, Hooking, Endings
  <1> QED BY <1>1, <1>2, <1>3, <1>4 DEF Process

\* check, check_eq and wait.
LEMMA CountKeeps ==
    ASSUME Process,
           NEW call \in {"check", "check_eq", "wait"}, NEW ok \in BOOLEAN,
           call = "wait" => ok,
           H!Count(call, ok),
           failures' = failures + (IF ok THEN 0 ELSE 1),
           waits' = waits + (IF call = "wait" THEN 1 ELSE 0),
           late' = (late \/ ((~ok \/ call = "wait") /\ H!HookGone))
    PROVE  Process'
  <1> USE DEF H!Count, H!InUserCode
  <1>1. [call |-> call, ok |-> ok] \in H!Calls
    BY DEF H!Calls
  <1>2. Values'
    BY <1>1, ProcessAssumption DEF Process, Values, Bounds, H!ensure_hook
  <1>3. Flags'
    BY DEF Process, Flags, H!ensure_hook, H!HookGone
  <1>4. Bounds'
    BY ProcessAssumption DEF Process, Values, Bounds, H!ensure_hook
  <1>5. CallUnderWay'
    BY DEF Process, CallUnderWay
  <1>6. Hooking'
    BY DEF Process, Flags, Values, Hooking, H!HookGone, H!ensure_hook
  <1>7. Endings'
    BY DEF Endings
  <1> QED BY <1>2, <1>3, <1>4, <1>5, <1>6, <1>7 DEF Process

LEMMA CallKeeps ==
    ASSUME Process, (\E ok \in BOOLEAN : H!check(ok) \/ H!check_eq(ok)) \/ H!wait
    PROVE  Process'
  <1>1. ASSUME NEW ok \in BOOLEAN, H!check(ok) PROVE Process'
    <2>1. /\ failures' = failures + (IF ok THEN 0 ELSE 1)
          /\ waits' = waits + (IF "check" = "wait" THEN 1 ELSE 0)
      BY <1>1 DEF H!check, Process, Values
    <2>2. late' = (late \/ ((~ok \/ "check" = "wait") /\ H!HookGone))
      BY <1>1 DEF H!check
    <2> QED BY <1>1, <2>1, <2>2, CountKeeps DEF H!check
  <1>2. ASSUME NEW ok \in BOOLEAN, H!check_eq(ok) PROVE Process'
    <2>1. /\ failures' = failures + (IF ok THEN 0 ELSE 1)
          /\ waits' = waits + (IF "check_eq" = "wait" THEN 1 ELSE 0)
      BY <1>2 DEF H!check_eq, Process, Values
    <2>2. late' = (late \/ ((~ok \/ "check_eq" = "wait") /\ H!HookGone))
      BY <1>2 DEF H!check_eq
    <2> QED BY <1>2, <2>1, <2>2, CountKeeps DEF H!check_eq
  <1>3. ASSUME H!wait PROVE Process'
    <2> DEFINE ok == TRUE
               call == "wait"
    <2>1. /\ failures' = failures + (IF ok THEN 0 ELSE 1)
          /\ waits' = waits + (IF call = "wait" THEN 1 ELSE 0)
      BY <1>3 DEF H!wait, Process, Values
    <2>2. late' = (late \/ ((~ok \/ call = "wait") /\ H!HookGone))
      BY <1>3 DEF H!wait
    <2>3. H!Count(call, ok) /\ ok \in BOOLEAN /\ (call = "wait" => ok)
      BY <1>3 DEF H!wait
    <2>4. call \in {"check", "check_eq", "wait"}
      OBVIOUS
    <2> HIDE DEF ok, call
    <2> QED BY <2>1, <2>2, <2>3, <2>4, CountKeeps
  <1> QED BY <1>1, <1>2, <1>3

\* The steps that neither count nor report.
Onward ==
    \/ H!RegisterHandler \/ H!RunNewerHandler \/ H!exit_hook \/ H!RunOlderHandler
    \/ H!HandlerReturns \/ H!ExitReturns \/ H!Crash
    \/ \E code \in ExitCodes : H!Return(code) \/ H!QuickExit(code)

LEMMA OnwardKeeps == ASSUME Process, Onward PROVE Process'
  <1>1. UNCHANGED <<hooked, lost, late>> /\ hookPending' \in {hookPending, FALSE}
    BY DEF Onward, H!RegisterHandler, H!RunNewerHandler, H!exit_hook,
           H!RunOlderHandler, H!HandlerReturns, H!ExitReturns, H!Crash, H!Return,
           H!QuickExit
  <1>2. Flags'
    BY <1>1 DEF Process, Flags
  <1> USE ProcessAssumption DEF Process, Values, Bounds, CallUnderWay, Hooking,
          Endings, Codes, H!InUserCode, H!End
  <1>3. CASE H!RegisterHandler
    BY <1>2, <1>3 DEF H!RegisterHandler
  <1>4. CASE H!RunNewerHandler
    BY <1>2, <1>4 DEF H!RunNewerHandler
  <1>5. CASE H!exit_hook
    <2> USE <1>5 DEF H!exit_hook
    <2>1. Values' /\ Bounds' /\ CallUnderWay'
      OBVIOUS
    <2>2. Hooking' /\ Endings'
      OBVIOUS
    <2> QED BY <1>2, <2>1, <2>2
  <1>6. CASE H!RunOlderHandler
    BY <1>2, <1>6 DEF H!RunOlderHandler
  <1>7. CASE H!HandlerReturns
    BY <1>2, <1>7 DEF H!HandlerReturns
  <1>8. CASE H!ExitReturns
    BY <1>2, <1>8 DEF H!ExitReturns
  <1>9. CASE H!Crash
    BY <1>2, <1>9 DEF H!Crash
  <1>10. ASSUME NEW code \in ExitCodes, H!Return(code) PROVE Process'
    BY <1>2, <1>10 DEF H!Return
  <1>11. ASSUME NEW code \in ExitCodes, H!QuickExit(code) PROVE Process'
    BY <1>2, <1>11 DEF H!QuickExit
  <1> QED BY ONLY <1>3, <1>4, <1>5, <1>6, <1>7, <1>8, <1>9, <1>10, <1>11, Onward
          DEF Onward

LEMMA ReportKeeps == ASSUME Process, H!emit \/ H!FormatThrows PROVE Process'
  <1>1. /\ pending' = H!NoCall /\ lost' \in {lost, TRUE}
        /\ UNCHANGED <<phase, calls, failures, waits, hooked, hookPending, newer,
                       older, status, exit, ending, late>>
    BY DEF H!emit, H!FormatThrows
  <1>2. Flags'
    BY <1>1 DEF Process, Flags
  <1>3. Values'
    BY <1>1 DEF Process, Values
  <1>4. Bounds' /\ CallUnderWay' /\ Hooking' /\ Endings'
    BY <1>1 DEF Process, Bounds, CallUnderWay, Hooking, Endings
  <1> QED BY <1>2, <1>3, <1>4 DEF Process

LEMMA ProcessKeeps == ASSUME Process, H!ProcessStep PROVE Process'
  <1>1. CASE H!LibraryStep
    BY <1>1, CallKeeps, ReportKeeps DEF H!LibraryStep
  <1>2. CASE Onward
    BY <1>2, OnwardKeeps
  <1> QED BY <1>1, <1>2 DEF H!ProcessStep, Onward

-----------------------------------------------------------------------------
(* The invariant of a check.  The properties of a verdict rest on what the *)
(* records and the file keep of the run of the exercise asked about, until *)
(* the verdict is given.                                                   *)

\* The two halves of TypeOK but for the process, see Process.
Types ==
    /\ pc \in {"idle", "remove", "mcpp", "answer", "judge"}
    /\ asked \in Tests /\ todo \subseteq Tests
    /\ current \in Tests \cup {NoTest}
    /\ records \in [DOMAIN records -> Records] /\ DOMAIN records \subseteq Tests
    /\ package \in {"none", "text", "empty"}
    /\ stage \in {"none", "compile", "run"}
    /\ answer \in Answers
    /\ disturbed \subseteq Disturbances
    /\ channel \in H!Channels

Counted == checks \in 0..MaxChecks /\ others \in 0..MaxOthers

Running ==
    /\ current = NoTest <=> phase = "idle"
    /\ pc # "mcpp" => current = NoTest

\* The exercise is built and run once, and nothing is known of it before.
Once ==
    /\ pc = "remove" => own = NoFacts
    /\ pc = "mcpp" /\ (asked \in todo \/ current = asked) => own = NoFacts
    /\ current = asked => asked \notin todo

Unanswered == pc # "idle" => answer = NoAnswer

OwnFacts ==
    own # NoFacts =>
        /\ own \in Facts
        /\ ~own.compiled => own.failures = 0 /\ own.waits = 0 /\ own.ending = "compile"
        /\ own.compiled => own.ending \in {"return", "quick", "crash"}
        /\ own.ending = "crash" => own.exit # 0
        /\ own.ending = "return" /\ own.exit = 0 /\ ~own.late =>
             own.failures = 0 /\ own.waits = 0

Reading == pc \in {"mcpp", "answer", "judge"}

\* The record, if there is one.
Recorded ==
    /\ Reading /\ asked \in DOMAIN records =>
         /\ own # NoFacts
         /\ records[asked].status = "compile_fail" <=> ~own.compiled
         /\ own.compiled /\ CodeTold => records[asked].exit = own.exit
    /\ pc = "judge" =>
         asked \in DOMAIN records /\ records[asked].status # "compile_fail"

FileExists == ~channel.exists => channel.fails = 0 /\ channel.waits = 0

PendingFails == IF pending.ok THEN 0 ELSE 1
PendingWaits == IF pending.call = "wait" THEN 1 ELSE 0

\* The lines of the exercise while it runs ...
LinesGoing ==
    current = asked =>
        /\ lost => "lost" \in disturbed
        /\ LinesTold => /\ failures <= channel.fails + PendingFails
                        /\ waits <= channel.waits + PendingWaits

\* ... and once it has ended.
LinesKept ==
    Reading /\ LinesTold /\ own # NoFacts /\ own.ending # "crash" =>
        own.failures <= channel.fails /\ own.waits <= channel.waits

\* There are no other lines as long as nothing has come in the way.
NoOtherLines ==
    Reading /\ disturbed = {} =>
        IF current = asked
        THEN /\ failures = channel.fails + PendingFails
             /\ waits = channel.waits + PendingWaits
        ELSE channel.fails <= own.failures /\ channel.waits <= own.waits

Answered ==
    VerdictIsAboutTheAskedExercise /\ PassIsEarned /\ FailureIsReported

Inv ==
    /\ Process /\ Types /\ Counted /\ Running /\ Once /\ Unanswered /\ OwnFacts
    /\ Recorded /\ FileExists /\ LinesGoing /\ LinesKept /\ NoOtherLines
    /\ Answered

LEMMA RecordTypes ==
    /\ NoAnswer \in Answers /\ [NoAnswer EXCEPT !.kind = "error"] \in Answers
    /\ H!NoFile \in H!Channels
    /\ NoFacts \notin Facts
BY DEF NoAnswer, Answers, Codes, H!NoFile, H!Channels, NoFacts, Facts

-----------------------------------------------------------------------------
(* What a step of the exercise's process does to the file.                 *)

Unreported == <<failures - (channel.fails + PendingFails),
                waits - (channel.waits + PendingWaits)>>

LEMMA Writes ==
    ASSUME Process, channel \in H!Channels, FileExists, H!ProcessStep
    PROVE  /\ channel' \in H!Channels /\ FileExists'
           /\ channel.fails <= channel'.fails /\ channel.waits <= channel'.waits
           /\ lost => lost'
           /\ ~lost' => Unreported' = Unreported
           /\ phase' # "idle"
  <1> USE DEF H!Channels, FileExists
  <1>1. ASSUME NEW ok \in BOOLEAN, H!check(ok) \/ H!check_eq(ok) PROVE
           /\ UNCHANGED <<channel, lost, phase>> /\ phase # "idle"
           /\ Unreported' = Unreported
    <2>1. /\ UNCHANGED <<channel, lost, phase, waits>> /\ phase # "idle"
          /\ pending = H!NoCall /\ pending'.ok = ok /\ pending'.call # "wait"
          /\ failures' = IF ok THEN failures ELSE failures + 1
      BY <1>1 DEF H!check, H!check_eq, H!Count, H!InUserCode
    <2> QED BY <2>1 DEF Process, Values, Unreported, PendingFails, PendingWaits, H!NoCall
  <1>2. ASSUME H!wait PROVE
           /\ UNCHANGED <<channel, lost, phase>> /\ phase # "idle"
           /\ Unreported' = Unreported
    BY <1>2 DEF H!wait, H!Count, H!InUserCode, Process, Values, Unreported,
                PendingFails, PendingWaits, H!NoCall
  <1>3. CASE H!emit
    <2>1. UNCHANGED <<phase, failures, waits>> /\ pending' = H!NoCall /\ phase # "idle"
      BY <1>3 DEF H!emit, Process, CallUnderWay
    <2>2. CASE channel' = H!Appended(pending) /\ UNCHANGED lost
      <3>1. /\ channel'.exists = TRUE
            /\ channel'.fails = channel.fails + PendingFails
            /\ channel'.waits = channel.waits + PendingWaits
            /\ channel' \in H!Channels
        BY <2>2 DEF H!Appended, PendingFails, PendingWaits
      <3>2. PendingFails' = 0 /\ PendingWaits' = 0
        BY <2>1 DEF PendingFails, PendingWaits, H!NoCall
      <3> QED BY <2>1, <2>2, <3>1, <3>2 DEF Process, Values, Unreported,
                 PendingFails, PendingWaits
    <2>3. CASE lost' = TRUE /\ UNCHANGED channel
      BY <2>1, <2>3
    <2> QED BY <1>3, <2>2, <2>3 DEF H!emit
  <1>4. CASE H!FormatThrows
    <2>1. phase # "idle"
      BY <1>4 DEF H!FormatThrows, H!NoCall, Process, CallUnderWay
    <2> QED BY <1>4, <2>1 DEF H!FormatThrows
  <1>5. CASE Onward
    <2>1. UNCHANGED <<channel, lost, failures, waits, pending>> /\ phase' # "idle"
      BY <1>5 DEF Onward, H!RegisterHandler, H!RunNewerHandler, H!exit_hook,
             H!RunOlderHandler, H!HandlerReturns, H!ExitReturns, H!Crash, H!Return,
             H!QuickExit, H!End, H!InUserCode
    <2> QED BY <2>1 DEF Unreported, PendingFails, PendingWaits
  <1> QED
    <2>1. CASE \/ \E ok \in BOOLEAN : H!check(ok) \/ H!check_eq(ok)
               \/ H!wait
      BY <1>1, <1>2, <2>1
    <2>2. \/ \E ok \in BOOLEAN : H!check(ok) \/ H!check_eq(ok)
          \/ H!wait \/ H!emit \/ H!FormatThrows \/ Onward
      BY DEF H!ProcessStep, H!LibraryStep, Onward
    <2> QED BY <1>3, <1>4, <1>5, <2>1, <2>2

-----------------------------------------------------------------------------
(* Inv holds at the start and every step keeps it: first the Provider,     *)
(* then mcpp and the exercise.                                             *)

LEMMA Steady == ASSUME Process, UNCHANGED process PROVE Process'
BY DEF process, Process, Flags, Values, Bounds, CallUnderWay, Hooking, Endings

LEMMA InitEstablishes == Init => Inv
<1> SUFFICES ASSUME Init PROVE Inv
  OBVIOUS
<1> USE DEF Init, H!Init
<1>1. Process
  <2>1. Flags
    BY DEF Flags
  <2>2. Values /\ Bounds
    BY ProcessAssumption DEF Values, Bounds, Codes
  <2> QED BY <2>1, <2>2 DEF Process, CallUnderWay, Hooking, Endings
<1>2. Types /\ Counted
  <2>1. records \in [DOMAIN records -> Records] /\ DOMAIN records \subseteq Tests
    BY DEF NoRecords
  <2> QED BY <2>1, RecordTypes, ProviderAssumption DEF Types, Counted
<1>3. Running /\ Once /\ Unanswered /\ OwnFacts /\ FileExists
  BY MatchingAssumption DEF Running, Once, Unanswered, OwnFacts, FileExists, H!NoFile
<1>4. Recorded /\ LinesGoing /\ LinesKept /\ NoOtherLines
  BY MatchingAssumption DEF Recorded, LinesGoing, LinesKept, NoOtherLines, Reading
<1>5. Answered
  BY DEF Answered, VerdictIsAboutTheAskedExercise, PassIsEarned, FailureIsReported,
         Verdict, NoAnswer
<1> QED BY <1>1, <1>2, <1>3, <1>4, <1>5 DEF Inv

LEMMA UnknownKeeps == ASSUME Inv, UnknownExercise PROVE Inv'
<1> USE DEF UnknownExercise, request, mcpp, history
<1>1. Process'
  BY Steady DEF Inv
<1>2. Types' /\ Counted'
  BY RecordTypes DEF Inv, Types, Counted
<1>3. Running' /\ Once' /\ Unanswered' /\ OwnFacts' /\ FileExists'
  BY DEF Inv, Running, Once, Unanswered, OwnFacts, FileExists, process
<1>4. Recorded' /\ LinesGoing' /\ LinesKept' /\ NoOtherLines'
  BY MatchingAssumption DEF Inv, Running, Types, Recorded, LinesGoing, LinesKept, NoOtherLines,
     Reading
<1>5. Answered'
  BY DEF Answered, VerdictIsAboutTheAskedExercise, PassIsEarned, FailureIsReported,
         Verdict, NoAnswer
<1> QED BY <1>1, <1>2, <1>3, <1>4, <1>5 DEF Inv

LEMMA CheckKeeps == ASSUME Inv, NEW t \in Tests, cmd_check(t) PROVE Inv'
<1> USE DEF cmd_check, mcpp
<1>1. Process'
  BY Steady DEF Inv
<1>2. Types' /\ Counted'
  BY RecordTypes, ProviderAssumption DEF Inv, Types, Counted
<1>3. Running' /\ Once' /\ Unanswered' /\ OwnFacts' /\ FileExists'
  BY MatchingAssumption
     DEF Inv, Types, Running, Once, Unanswered, OwnFacts, FileExists, process
<1>4. Recorded' /\ LinesGoing' /\ LinesKept' /\ NoOtherLines'
  BY MatchingAssumption DEF Inv, Running, Types, Recorded, LinesGoing, LinesKept, NoOtherLines,
     Reading
<1>5. Answered'
  BY DEF Answered, VerdictIsAboutTheAskedExercise, PassIsEarned, FailureIsReported,
         Verdict, NoAnswer
<1> QED BY <1>1, <1>2, <1>3, <1>4, <1>5 DEF Inv

\* Between two verdicts nothing is promised.
LEMMA NoAnswerYet ==
    ASSUME Inv, pc # "idle", UNCHANGED answer
    PROVE  Unanswered' /\ Answered'
BY DEF Inv, Unanswered, Answered, VerdictIsAboutTheAskedExercise, PassIsEarned,
       FailureIsReported, Verdict, NoAnswer

LEMMA ClearKeeps == ASSUME Inv, ClearChannel PROVE Inv'
<1> USE DEF ClearChannel
<1>1. Process'
  BY Steady DEF Inv
<1>2. Types' /\ Counted'
  <2>1. records' \in [DOMAIN records' -> Records] /\ DOMAIN records' \subseteq Tests
    BY DEF NoRecords
  <2>2. disturbed' \subseteq Disturbances
    BY DEF Disturb, Inv, Types, Disturbances
  <2>3. Matching[asked] \subseteq Tests
    BY MatchingAssumption DEF Inv, Types
  <2>4. channel' \in H!Channels
    BY RecordTypes DEF Inv, Types
  <2> QED BY <2>1, <2>2, <2>3, <2>4 DEF Inv, Types, Counted, events
<1>3. Running' /\ Once' /\ OwnFacts' /\ FileExists'
  BY MatchingAssumption
     DEF Inv, Types, Running, Once, OwnFacts, FileExists, process, H!NoFile
<1>4. Recorded' /\ LinesGoing' /\ LinesKept'
  BY MatchingAssumption DEF Inv, Once, Types, Recorded, LinesGoing, LinesKept, Reading,
     NoRecords
<1>5. NoOtherLines'
  <2>1. disturbed' = {} => channel'.fails = 0 /\ channel'.waits = 0
    BY RecordTypes DEF Disturb, Inv, Types, H!Channels
  <2> QED BY <2>1, MatchingAssumption DEF NoOtherLines, Inv, Once, Types, NoFacts
<1>6. Unanswered' /\ Answered'
  BY NoAnswerYet DEF events
<1> QED BY <1>1, <1>2, <1>3, <1>4, <1>5, <1>6 DEF Inv

LEMMA AnswerKeeps ==
    ASSUME Inv, pc \in {"answer", "judge"}, NEW a \in Answers, Answer(a), UNCHANGED stage, Answered'
    PROVE  Inv'
<1> USE DEF Answer, mcpp, history
<1>1. Process'
  BY Steady DEF Inv
<1>2. Types' /\ Counted'
  BY DEF Inv, Types, Counted
<1>3. Running' /\ Once' /\ Unanswered' /\ OwnFacts' /\ FileExists'
  <2>1. current = NoTest
    BY DEF Answer, Inv, Running, process
  <2> QED BY <2>1, MatchingAssumption
     DEF Inv, Running, Once, Unanswered, OwnFacts, FileExists, process, Types
<1>4. Recorded' /\ LinesGoing' /\ LinesKept' /\ NoOtherLines'
  BY DEF Inv, Recorded, LinesGoing, LinesKept, NoOtherLines, Reading, process,
     PendingFails, PendingWaits, LinesTold
<1> QED BY <1>1, <1>2, <1>3, <1>4 DEF Inv

LEMMA ErrorKeeps == ASSUME Inv, PackageError \/ NoRecord PROVE Inv'
<1> DEFINE a == [NoAnswer EXCEPT !.kind = "error"]
<1>1. pc = "answer" /\ Answer(a) /\ UNCHANGED stage
  BY DEF PackageError, NoRecord
<1>2. a.kind = "error" /\ a \in Answers
  BY RecordTypes DEF NoAnswer
<1> HIDE DEF a
<1>3. Answered'
  BY <1>1, <1>2 DEF Answer, Answered, VerdictIsAboutTheAskedExercise, PassIsEarned,
     FailureIsReported, Verdict
<1> QED BY <1>1, <1>2, <1>3, AnswerKeeps

\* What the Provider finds of the exercise it was asked about.
LEMMA RecordFound ==
    ASSUME Inv, Reading, NEW r \in RecordFor(asked)
    PROVE  /\ r \in Records /\ own # NoFacts /\ own \in Facts
           /\ r.status = "compile_fail" <=> ~own.compiled
           /\ own.compiled /\ CodeTold => r.exit = own.exit
<1>1. asked \in DOMAIN records /\ r = records[asked] /\ r \in Records
  BY DEF RecordFor, Inv, Types
<1> QED BY <1>1 DEF Inv, Recorded, OwnFacts

\* The two verdicts, and what they rest on.
LEMMA CompileVerdictSays ==
    ASSUME Inv, CompileVerdict
    PROVE  /\ pc = "answer" /\ UNCHANGED stage
           /\ own # NoFacts /\ ~own.compiled /\ own.failures = 0
           /\ \E a \in Answers :
                /\ Answer(a)
                /\ a.kind = "verdict" /\ a.stage = "compile" /\ a.outcome = "fail"
                /\ a.diagnostics = 0
<1>1. PICK r \in RecordFor(asked) :
        /\ r.status = "compile_fail"
        /\ Answer([kind |-> "verdict", stage |-> "compile", outcome |-> "fail",
                   exit |-> r.exit, diagnostics |-> 0])
  BY DEF CompileVerdict
<1> DEFINE a == [kind |-> "verdict", stage |-> "compile", outcome |-> "fail",
                 exit |-> r.exit, diagnostics |-> 0]
<1>2. pc = "answer" /\ Reading /\ UNCHANGED stage
  BY DEF CompileVerdict, Reading
<1>3. own # NoFacts /\ ~own.compiled /\ r \in Records /\ own.failures = 0
  BY <1>1, <1>2, RecordFound DEF Inv, OwnFacts
<1>4. a \in Answers
  BY <1>3 DEF Records, Answers, Outcomes
<1> QED BY <1>1, <1>2, <1>3, <1>4

LEMMA CompileVerdictKeeps == ASSUME Inv, CompileVerdict PROVE Inv'
<1>1. PICK a \in Answers :
        /\ Answer(a) /\ a.kind = "verdict" /\ a.stage = "compile" /\ a.outcome = "fail"
  BY CompileVerdictSays
<1>2. Answered'
  BY <1>1, CompileVerdictSays
     DEF Answer, history, Answered, PassIsEarned, FailureIsReported,
         VerdictIsAboutTheAskedExercise, Verdict
<1> QED BY <1>1, <1>2, CompileVerdictSays, AnswerKeeps

LEMMA RunVerdictSays ==
    ASSUME Inv, RunVerdict
    PROVE  /\ pc = "judge" /\ UNCHANGED stage
           /\ own # NoFacts /\ own \in Facts /\ own.compiled
           /\ \E a \in Answers :
                /\ Answer(a)
                /\ a.kind = "verdict" /\ a.stage = "run" /\ (CodeTold => a.exit = own.exit)
                /\ a.diagnostics = channel.fails
                /\ channel.fails > 0 => a.outcome = "fail"
                /\ a.outcome = "pass" => a.exit = 0 /\ channel.fails = 0 /\ channel.waits = 0
                /\ a.outcome = "blocked" => channel.fails = 0 /\ channel.waits > 0
                /\ a.outcome = "fail" /\ channel.fails = 0 => a.exit # 0 /\ channel.waits = 0
<1> DEFINE a(r) == [kind |-> "verdict", stage |-> "run",
                    outcome |-> judge_run(r.exit, channel).outcome, exit |-> r.exit,
                    diagnostics |-> judge_run(r.exit, channel).failures]
<1>1. PICK r \in RecordFor(asked) : Answer(a(r))
  BY DEF RunVerdict
<1>2. Reading /\ UNCHANGED stage /\ pc = "judge"
  BY DEF RunVerdict, Reading
<1>3. /\ own # NoFacts /\ own \in Facts /\ own.compiled /\ r \in Records
      /\ CodeTold => r.exit = own.exit
  BY <1>1, <1>2, RecordFound DEF Inv, Recorded, RecordFor
<1>4. channel \in H!Channels /\ FileExists
  BY DEF Inv, Types
<1>5. /\ a(r) \in Answers
      /\ a(r).kind = "verdict" /\ a(r).stage = "run" /\ a(r).exit = r.exit
      /\ a(r).diagnostics = channel.fails
  BY <1>3, <1>4 DEF Records, Answers, Outcomes, judge_run, FileExists, H!Channels
<1>6. /\ channel.fails > 0 => a(r).outcome = "fail"
      /\ a(r).outcome = "pass" => r.exit = 0 /\ channel.fails = 0 /\ channel.waits = 0
      /\ a(r).outcome = "blocked" => channel.fails = 0 /\ channel.waits > 0
      /\ a(r).outcome = "fail" /\ channel.fails = 0 => r.exit # 0 /\ channel.waits = 0
  BY <1>4 DEF judge_run, FileExists, H!Channels
<1> HIDE DEF a
<1> QED BY <1>1, <1>2, <1>3, <1>5, <1>6

LEMMA RunVerdictKeeps == ASSUME Inv, RunVerdict PROVE Inv'
<1>1. PICK a \in Answers :
        /\ Answer(a) /\ a.stage = "run" /\ (CodeTold => a.exit = own.exit)
        /\ a.diagnostics = channel.fails
        /\ channel.fails > 0 => a.outcome = "fail"
        /\ a.outcome = "pass" => a.exit = 0 /\ channel.fails = 0 /\ channel.waits = 0
  BY RunVerdictSays
<1>2. pc = "judge" /\ UNCHANGED stage /\ own # NoFacts /\ own \in Facts /\ own.compiled
  BY RunVerdictSays
<1>3. /\ channel \in H!Channels
      /\ LinesTold /\ own.ending # "crash" =>
           own.failures <= channel.fails /\ own.waits <= channel.waits
      /\ own.ending = "return" /\ own.exit = 0 /\ ~own.late =>
           own.failures = 0 /\ own.waits = 0
  BY <1>2 DEF Inv, Types, LinesKept, OwnFacts, Reading
<1>4. UNCHANGED <<own, disturbed>> /\ answer' = a
  BY <1>1 DEF Answer, history
<1>5. VerdictIsAboutTheAskedExercise'
  BY <1>1, <1>2, <1>4 DEF VerdictIsAboutTheAskedExercise, CodeTold
<1>6. PassIsEarned'
  BY <1>1, <1>2, <1>3, <1>4 DEF PassIsEarned, CodeTold, LinesTold, Facts, H!Channels
<1>7. FailureIsReported'
  BY <1>1, <1>2, <1>3, <1>4 DEF FailureIsReported, LinesTold, Facts, H!Channels
<1> QED BY <1>1, <1>2, <1>5, <1>6, <1>7, AnswerKeeps DEF Answered

LEMMA RunStageKeeps == ASSUME Inv, RunStage PROVE Inv'
<1> USE DEF RunStage, mcpp, history
<1>1. Process'
  BY Steady DEF Inv
<1>2. Types' /\ Counted'
  BY DEF Inv, Types, Counted
<1>3. Running' /\ Once' /\ OwnFacts' /\ FileExists'
  BY MatchingAssumption
     DEF Inv, Running, Once, OwnFacts, FileExists, process, Types
<1>4. Recorded' /\ LinesGoing' /\ LinesKept' /\ NoOtherLines'
  BY DEF Inv, Recorded, LinesGoing, LinesKept, NoOtherLines, Reading, process,
     PendingFails, PendingWaits, LinesTold, CodeTold, RecordFor
<1>5. Unanswered' /\ Answered'
  BY NoAnswerYet
<1> QED BY <1>1, <1>2, <1>3, <1>4, <1>5 DEF Inv

LEMMA KillKeeps == ASSUME Inv, Kill PROVE Inv'
<1> USE DEF Kill, history, events
<1>1. Process'
  BY ResetKeeps
<1>2. Types' /\ Counted'
  BY DEF Inv, Types, Counted
<1>3. Running' /\ Once' /\ OwnFacts' /\ FileExists'
  BY MatchingAssumption
     DEF Inv, Running, Once, OwnFacts, FileExists, Types, H!Reset
<1>4. Recorded' /\ LinesGoing' /\ LinesKept' /\ NoOtherLines'
  BY MatchingAssumption
     DEF Recorded, LinesGoing, LinesKept, NoOtherLines, Reading, Inv, Types
<1>5. Unanswered' /\ Answered'
  BY NoAnswerYet
<1> QED BY <1>1, <1>2, <1>3, <1>4, <1>5 DEF Inv

-----------------------------------------------------------------------------
(* mcpp and the exercise.                                                  *)

LEMMA NothingRunsKeeps ==
    ASSUME Inv, PackageFails \/ McppPrintsNothing \/ mcppReturns
    PROVE  Inv'
<1> USE DEF PackageFails, McppPrintsNothing, mcppReturns, Between, request, history,
            events, mcpp
<1>1. Process'
  BY Steady DEF Inv
<1>2. Types' /\ Counted'
  <2>1. records' \in [DOMAIN records' -> Records] /\ DOMAIN records' \subseteq Tests
    BY DEF Inv, Types, NoRecords
  <2>2. todo' \subseteq Tests /\ package' \in {"none", "text", "empty"}
    BY DEF Inv, Types
  <2>3. UNCHANGED <<checks, others, asked, current, stage, answer, disturbed, channel>>
        /\ pc' \in {"mcpp", "answer"}
    OBVIOUS
  <2> QED BY ONLY <2>1, <2>2, <2>3, Inv DEF Inv, Types, Counted
<1>3. Running' /\ Once' /\ OwnFacts' /\ FileExists'
  BY MatchingAssumption
     DEF Inv, Running, Once, OwnFacts, FileExists, process, Types
<1>4. Recorded'
  BY DEF Inv, Recorded, Reading, CodeTold, NoRecords
<1>5. LinesGoing' /\ LinesKept' /\ NoOtherLines'
  BY DEF Inv, LinesGoing, LinesKept, NoOtherLines, Reading, process,
     PendingFails, PendingWaits, LinesTold
<1>6. Unanswered' /\ Answered'
  BY NoAnswerYet
<1> QED BY <1>1, <1>2, <1>3, <1>4, <1>5, <1>6 DEF Inv

\* A record more: the records of the other tests stay as they are.
LEMMA NotedRecord ==
    ASSUME Types, NEW t \in Tests, NEW r \in Records, records' = Noted(t, r)
    PROVE  /\ records' \in [DOMAIN records' -> Records] /\ DOMAIN records' \subseteq Tests
           /\ t \in DOMAIN records' /\ records'[t] = r
           /\ \A u \in Tests \ {t} :
                /\ u \in DOMAIN records' <=> u \in DOMAIN records
                /\ u \in DOMAIN records => records'[u] = records[u]
BY DEF Types, Noted

LEMMA CompileFacts ==
    LET f == [NoFacts EXCEPT !.ending = "compile"]
    IN  /\ f \in Facts /\ f # NoFacts /\ ~f.compiled /\ f.failures = 0 /\ f.waits = 0
        /\ f.ending = "compile"
<1> DEFINE f == [NoFacts EXCEPT !.ending = "compile"]
<1> DEFINE Like(e) == [compiled : {FALSE}, failures : {0}, waits : {0}, status : {0},
                       exit : {0}, ending : {e}, late : {FALSE}]
<1>1. NoFacts \in Like("none")
  BY DEF NoFacts
<1>2. f \in Like("compile")
  BY <1>1
<1>3. 0 \in 0..MaxCalls /\ 0 \in Codes
  BY ProcessAssumption DEF Codes
<1> HIDE DEF f
<1>4. f \in Facts
  BY ONLY <1>2, <1>3 DEF Facts
<1>5. /\ f # NoFacts /\ ~f.compiled /\ f.failures = 0 /\ f.waits = 0
      /\ f.ending = "compile"
  BY ONLY <1>1, <1>2
<1> QED BY ONLY <1>4, <1>5 DEF f

LEMMA CompileFailsKeeps == ASSUME Inv, NEW t \in Tests, CompileFails(t) PROVE Inv'
<1> USE DEF CompileFails, Between, request, events
<1>1. PICK code \in {0, 1} : records' = Noted(t, [status |-> "compile_fail", exit |-> code])
  OBVIOUS
<1> DEFINE r == [status |-> "compile_fail", exit |-> code]
<1>2. r \in Records /\ r.status = "compile_fail"
  BY ProcessAssumption DEF Records, Codes
<1> HIDE DEF r
<1>3. /\ records' \in [DOMAIN records' -> Records] /\ DOMAIN records' \subseteq Tests
      /\ t \in DOMAIN records' /\ records'[t] = r
      /\ \A u \in Tests \ {t} :
           /\ u \in DOMAIN records' <=> u \in DOMAIN records
           /\ u \in DOMAIN records => records'[u] = records[u]
  BY <1>1, <1>2, NotedRecord DEF Inv, r
<1> DEFINE f == [NoFacts EXCEPT !.ending = "compile"]
<1>4. /\ f \in Facts /\ f # NoFacts /\ ~f.compiled /\ f.failures = 0 /\ f.waits = 0
      /\ f.ending = "compile"
  BY CompileFacts
<1>5. own' = IF t = asked THEN f ELSE own
  BY DEF Observe
<1> HIDE DEF f
<1>6. /\ pc = "mcpp" /\ current = NoTest /\ t \in todo /\ todo' = todo \ {t}
      /\ UNCHANGED <<pc, checks, others, asked, current, package, stage, answer,
                     disturbed, channel, process>>
  OBVIOUS
<1>7. asked \in Tests /\ current # asked
  BY <1>6, MatchingAssumption DEF Inv, Types
<1>8. Process'
  BY <1>6, Steady DEF Inv
<1>9. Types' /\ Counted'
  BY ONLY <1>3, <1>6, Inv DEF Inv, Types, Counted
<1>10. Running' /\ Once' /\ FileExists'
  BY ONLY <1>5, <1>6, <1>7, Inv DEF Inv, Running, Once, FileExists, process
<1>11. OwnFacts'
  BY ONLY <1>4, <1>5, Inv DEF Inv, OwnFacts
<1>12. Recorded'
  BY ONLY <1>2, <1>3, <1>4, <1>5, <1>6, <1>7, Inv DEF Inv, Recorded, Reading, CodeTold
<1>13. LinesGoing' /\ LinesKept'
  BY ONLY <1>4, <1>5, <1>6, <1>7, Inv
     DEF Inv, Types, LinesGoing, LinesKept, Reading, LinesTold, H!Channels
<1>14. NoOtherLines'
  BY ONLY <1>4, <1>5, <1>6, <1>7, Inv
     DEF Inv, Once, NoOtherLines, NoFacts, Reading
<1>15. Unanswered' /\ Answered'
  BY ONLY <1>6, Inv, NoAnswerYet
<1> QED BY ONLY <1>8, <1>9, <1>10, <1>11, <1>12, <1>13, <1>14, <1>15 DEF Inv

LEMMA RunTestKeeps == ASSUME Inv, NEW t \in Tests, RunTest(t) PROVE Inv'
<1> USE DEF RunTest, Between, request, events, history
<1>1. Process'
  BY ResetKeeps
<1>2. Types' /\ Counted'
  BY DEF Inv, Types, Counted
<1>3. Running' /\ Once' /\ OwnFacts' /\ FileExists'
  BY MatchingAssumption
     DEF Inv, Running, Once, OwnFacts, FileExists, Types, H!Reset
<1>4. Recorded'
  BY DEF Inv, Recorded, Reading, CodeTold
<1>5. failures' = 0 /\ waits' = 0 /\ lost' = FALSE /\ PendingFails' = 0 /\ PendingWaits' = 0
  BY DEF H!Reset, H!NoCall, PendingFails, PendingWaits
<1>6. LinesGoing' /\ LinesKept'
  BY <1>5 DEF Inv, Types, LinesGoing, LinesKept, Reading, LinesTold, H!Channels
<1>7. NoOtherLines'
  BY <1>5, MatchingAssumption DEF Inv, Types, Once, NoOtherLines, Reading, H!Channels, NoFacts
<1>8. Unanswered' /\ Answered'
  BY NoAnswerYet
<1> QED BY <1>1, <1>2, <1>3, <1>4, <1>6, <1>7, <1>8 DEF Inv

LEMMA TestStepKeeps == ASSUME Inv, TestStep PROVE Inv'
<1>1. /\ H!ProcessStep /\ current # NoTest /\ pc = "mcpp" /\ phase # "idle"
      /\ UNCHANGED <<pc, checks, others, asked, todo, current, records, package, stage,
                     answer, own>>
      /\ disturbed \subseteq disturbed'
      /\ current = asked /\ lost' => "lost" \in disturbed'
      /\ disturbed' = {} /\ current # asked =>
           channel.fails = channel'.fails /\ channel.waits = channel'.waits
  BY DEF TestStep, Disturb, Lines, request, mcpp, events, Inv, Running
<1>2. disturbed' \subseteq disturbed \cup {"lost", "neighbour"}
  BY DEF TestStep, Disturb
<1>3. Process'
  BY <1>1, ProcessKeeps DEF Inv
<1>4. /\ channel' \in H!Channels /\ FileExists'
      /\ channel.fails <= channel'.fails /\ channel.waits <= channel'.waits
      /\ lost => lost'
      /\ ~lost' => Unreported' = Unreported
      /\ phase' # "idle"
  BY <1>1, Writes DEF Inv, Types
<1>5. Types' /\ Counted'
  <2>1. disturbed' \subseteq Disturbances
    BY ONLY <1>2, Inv DEF Inv, Types, Disturbances
  <2> QED BY ONLY <1>1, <1>4, <2>1, Inv DEF Inv, Types, Counted
<1>6. Running' /\ Once' /\ OwnFacts'
  BY ONLY <1>1, <1>4, Inv DEF Inv, Running, Once, OwnFacts
<1>7. Recorded'
  BY ONLY <1>1, Inv DEF Inv, Recorded, Reading, CodeTold
<1>8. (channel \in H!Channels) /\ (LinesTold' => LinesTold)
  BY ONLY <1>1, Inv DEF LinesTold, Inv, Types
<1>9. /\ PendingFails \in Int /\ PendingWaits \in Int
      /\ PendingFails' \in Int /\ PendingWaits' \in Int
  BY ONLY TRUE DEF PendingFails, PendingWaits
<1>10. /\ failures \in Int /\ waits \in Int /\ failures' \in Int /\ waits' \in Int
       /\ channel.fails \in Int /\ channel.waits \in Int
       /\ channel'.fails \in Int /\ channel'.waits \in Int
  <2>1. /\ failures \in 0..MaxCalls /\ waits \in 0..MaxCalls
        /\ failures' \in 0..MaxCalls /\ waits' \in 0..MaxCalls
    BY <1>3 DEF Inv, Process, Values
  <2>2. /\ channel.fails \in Int /\ channel.waits \in Int
        /\ channel'.fails \in Int /\ channel'.waits \in Int
    BY ONLY <1>4, <1>8 DEF H!Channels
  <2> QED BY ONLY <2>1, <2>2, ProcessAssumption
<1>11. ~lost' =>
        /\ failures' - (channel'.fails + PendingFails') = failures - (channel.fails + PendingFails)
        /\ waits' - (channel'.waits + PendingWaits') = waits - (channel.waits + PendingWaits)
  BY ONLY <1>4 DEF Unreported
<1>12. LinesGoing'
  <2> SUFFICES ASSUME current = asked PROVE LinesGoing'
    BY <1>1 DEF LinesGoing
  <2>1. LinesTold' => ~lost'
    BY <1>1 DEF LinesTold
  <2>2. LinesTold => /\ failures <= channel.fails + PendingFails
                     /\ waits <= channel.waits + PendingWaits
    BY DEF Inv, LinesGoing
  <2>3. LinesTold' => /\ failures' <= channel'.fails + PendingFails'
                      /\ waits' <= channel'.waits + PendingWaits'
    BY ONLY <1>8, <1>9, <1>10, <1>11, <2>1, <2>2
  <2> QED BY <1>1, <2>3 DEF LinesGoing
<1>13. LinesKept'
  <2>1. own # NoFacts => own \in Facts
    BY DEF Inv, OwnFacts
  <2>2. LinesTold' => LinesTold
    BY <1>8
  <2> QED BY ONLY <1>1, <1>4, <1>10, <2>1, <2>2, Inv, ProcessAssumption
          DEF Inv, LinesKept, Reading, Facts
<1>14. NoOtherLines'
  <2>1. CASE current # asked
    BY ONLY <1>1, <2>1, Inv DEF Inv, NoOtherLines, Reading
  <2>2. CASE current = asked
    <3> SUFFICES ASSUME disturbed' = {} PROVE NoOtherLines'
      BY DEF NoOtherLines
    <3>1. ~lost' /\ disturbed = {}
      BY ONLY <1>1, <2>2, disturbed' = {}
    <3>2. failures = channel.fails + PendingFails /\ waits = channel.waits + PendingWaits
      BY <1>1, <2>2, <3>1 DEF Inv, NoOtherLines, Reading
    <3>3. /\ failures' - (channel'.fails + PendingFails')
               = failures - (channel.fails + PendingFails)
          /\ waits' - (channel'.waits + PendingWaits') = waits - (channel.waits + PendingWaits)
      BY ONLY <1>11, <3>1
    <3>4. failures' = channel'.fails + PendingFails'
      BY ONLY <1>9, <1>10, <3>2, <3>3
    <3>5. waits' = channel'.waits + PendingWaits'
      <4>1. waits' - (channel'.waits + PendingWaits') = waits - (channel.waits + PendingWaits)
        BY ONLY <3>3
      <4>2. waits = channel.waits + PendingWaits
        BY ONLY <3>2
      <4>3. /\ waits' \in Int /\ channel'.waits \in Int /\ PendingWaits' \in Int
            /\ waits \in Int /\ channel.waits \in Int /\ PendingWaits \in Int
        BY ONLY <1>9, <1>10
      <4> QED BY ONLY <4>1, <4>2, <4>3
    <3> QED BY <1>1, <2>2, <3>4, <3>5 DEF NoOtherLines
  <2> QED BY <2>1, <2>2
<1>15. Unanswered' /\ Answered'
  BY <1>1, NoAnswerYet
<1> QED BY ONLY <1>3, <1>4, <1>5, <1>6, <1>7, <1>12, <1>13, <1>14, <1>15 DEF Inv

\* What is known of a process that has ended, if it is the exercise asked about.
LEMMA Ran ==
    ASSUME Inv, phase = "ended"
    PROVE  LET f == [compiled |-> TRUE, failures |-> failures, waits |-> waits,
                     status |-> status, exit |-> exit, ending |-> ending, late |-> late]
           IN  /\ f \in Facts /\ f # NoFacts
               /\ f.ending \in {"return", "quick", "crash"}
               /\ f.ending = "crash" => f.exit # 0
               /\ f.ending = "return" /\ f.exit = 0 /\ ~f.late =>
                    f.failures = 0 /\ f.waits = 0
               /\ f.ending # "crash" => PendingFails = 0 /\ PendingWaits = 0
<1> DEFINE f == [compiled |-> TRUE, failures |-> failures, waits |-> waits,
                 status |-> status, exit |-> exit, ending |-> ending, late |-> late]
<1>1. /\ ending \in {"return", "quick", "crash"}
      /\ ending = "crash" => exit # 0
      /\ ending = "return" /\ exit = 0 /\ ~late => failures = 0 /\ waits = 0
  BY ProcessAssumption DEF Inv, Process, Endings
<1>2. ending # "crash" => PendingFails = 0 /\ PendingWaits = 0
  BY DEF Inv, Process, CallUnderWay, PendingFails, PendingWaits, H!NoCall
<1>3. late \in BOOLEAN
  BY DEF Inv, Process, Flags
<1>4. failures \in 0..MaxCalls /\ waits \in 0..MaxCalls /\ status \in Codes /\ exit \in Codes
  BY DEF Inv, Process, Values, Codes
<1>5. f \in Facts
  BY <1>1, <1>3, <1>4 DEF Facts
<1>6. f.compiled /\ ~NoFacts.compiled
  BY DEF NoFacts
<1> QED BY <1>1, <1>2, <1>5, <1>6

LEMMA TestEndsKeeps == ASSUME Inv, TestEnds PROVE Inv'
<1> USE DEF TestEnds, request, events
<1>1. /\ current # NoTest /\ current \in Tests /\ pc = "mcpp" /\ phase = "ended"
      /\ current' = NoTest /\ H!Reset("idle")
      /\ UNCHANGED <<pc, checks, others, asked, todo, package, stage, answer, channel>>
  BY DEF Inv, Types, Running
<1>2. PICK code \in {exit, 0} :
        records' = Noted(current, [status |-> IF exit = 0 THEN "pass" ELSE "run_fail",
                                   exit   |-> code])
  OBVIOUS
<1> DEFINE r == [status |-> IF exit = 0 THEN "pass" ELSE "run_fail", exit |-> code]
<1>3. r \in Records /\ r.status # "compile_fail" /\ r.exit = code
  BY ProcessAssumption DEF Records, Codes, Inv, Process, Values
<1>4. records' = Noted(current, r)
  BY <1>2
<1> HIDE DEF r
<1>5. /\ records' \in [DOMAIN records' -> Records] /\ DOMAIN records' \subseteq Tests
      /\ current \in DOMAIN records' /\ records'[current] = r
      /\ \A u \in Tests \ {current} :
           /\ u \in DOMAIN records' <=> u \in DOMAIN records
           /\ u \in DOMAIN records => records'[u] = records[u]
  BY <1>1, <1>3, <1>4, NotedRecord DEF Inv
<1> DEFINE f == [compiled |-> TRUE, failures |-> failures, waits |-> waits,
                 status |-> status, exit |-> exit, ending |-> ending, late |-> late]
<1>6. /\ f \in Facts /\ f # NoFacts
      /\ f.ending \in {"return", "quick", "crash"}
      /\ f.ending = "crash" => f.exit # 0
      /\ f.ending = "return" /\ f.exit = 0 /\ ~f.late => f.failures = 0 /\ f.waits = 0
      /\ f.ending # "crash" => PendingFails = 0 /\ PendingWaits = 0
  BY <1>1, Ran
<1>7. f.compiled /\ f.exit = exit /\ f.failures = failures /\ f.waits = waits
  OBVIOUS
<1>8. own' = IF current = asked THEN f ELSE own
  BY DEF Observe
<1> HIDE DEF f
<1>9. /\ disturbed \subseteq disturbed' /\ disturbed' \subseteq disturbed \cup {"code"}
      /\ current = asked /\ "code" \notin disturbed' => records'[asked].exit = exit
  BY DEF Disturb
<1>10. Process'
  BY <1>1, ResetKeeps
<1>11. phase' = "idle" /\ asked \in Tests /\ NoTest \notin Tests
  BY <1>1, MatchingAssumption DEF H!Reset, Inv, Types
<1>12. Types' /\ Counted'
  <2>1. disturbed' \subseteq Disturbances
    BY ONLY <1>9, Inv DEF Inv, Types, Disturbances
  <2> QED BY ONLY <1>1, <1>5, <2>1, Inv DEF Inv, Types, Counted
<1>13. Running' /\ Once' /\ FileExists'
  BY ONLY <1>1, <1>8, <1>11, Inv DEF Inv, Running, Once, FileExists
<1>14. OwnFacts'
  BY ONLY <1>6, <1>7, <1>8, Inv DEF Inv, OwnFacts
<1>15. Recorded'
  BY ONLY <1>1, <1>3, <1>5, <1>6, <1>7, <1>8, <1>9, <1>11, Inv
     DEF Inv, Recorded, Reading, CodeTold
<1>16. LinesGoing'
  BY ONLY <1>1, <1>11 DEF LinesGoing
<1>17. LinesTold' => LinesTold
  BY <1>9 DEF LinesTold
<1>18. LinesKept'
  <2>1. /\ channel.fails \in Int /\ channel.waits \in Int /\ failures \in Int /\ waits \in Int
    BY ProcessAssumption DEF Inv, Types, H!Channels, Process, Values
  <2> QED BY ONLY <1>1, <1>6, <1>7, <1>8, <1>17, <2>1, Inv
          DEF Inv, LinesGoing, LinesKept, Reading
<1>19. NoOtherLines'
  <2>1. disturbed' = {} => disturbed = {}
    BY <1>9
  <2>2. CASE current # asked
    BY ONLY <1>1, <1>8, <1>11, <2>1, <2>2, Inv DEF Inv, NoOtherLines, Reading
  <2>3. CASE current = asked
    <3>1. /\ channel.fails \in Nat /\ channel.waits \in Nat
      BY DEF Inv, Types, H!Channels
    <3>2. PendingFails \in Nat /\ PendingWaits \in Nat
      BY DEF PendingFails, PendingWaits
    <3> QED BY ONLY <1>1, <1>7, <1>8, <1>11, <2>1, <2>3, <3>1, <3>2, Inv
            DEF Inv, NoOtherLines, Reading
  <2> QED BY <2>2, <2>3
<1>20. Unanswered' /\ Answered'
  BY ONLY <1>1, Inv, NoAnswerYet
<1> QED BY ONLY <1>10, <1>12, <1>13, <1>14, <1>15, <1>16, <1>18, <1>19, <1>20 DEF Inv

LEMMA OtherKeeps == ASSUME Inv, OtherProvider PROVE Inv'
<1> USE DEF OtherProvider, mcpp, events
<1>1. Process'
  BY Steady DEF Inv
<1>2. channel' \in H!Channels /\ FileExists'
  <2>1. CASE channel' = H!NoFile
    BY <2>1 DEF FileExists, H!NoFile, H!Channels
  <2>2. ASSUME NEW call \in {[call |-> "check", ok |-> FALSE], [call |-> "wait", ok |-> TRUE]},
               channel' = H!Appended(call)
        PROVE  channel' \in H!Channels /\ FileExists'
    BY <2>2 DEF FileExists, H!Appended, H!Channels, Inv, Types
  <2> QED BY <2>1, <2>2
<1>3. /\ disturbed \subseteq disturbed' /\ disturbed' \subseteq disturbed \cup {"other"}
      /\ pc # "idle" => "other" \in disturbed'
      /\ pc = "idle" => disturbed' = disturbed
  BY DEF Disturb
<1>4. Types' /\ Counted'
  <2>1. disturbed' \subseteq Disturbances
    BY <1>3 DEF Inv, Types, Disturbances
  <2> QED BY <1>2, <2>1, ProviderAssumption DEF Inv, Types, Counted
<1>5. Running' /\ Once' /\ OwnFacts' /\ Unanswered'
  BY DEF Inv, Running, Once, OwnFacts, Unanswered, process
<1>6. Recorded'
  BY <1>3 DEF Inv, Recorded, Reading, CodeTold
<1>7. LinesGoing' /\ LinesKept' /\ NoOtherLines'
  <2>1. current = asked => pc = "mcpp"
    BY MatchingAssumption DEF Inv, Running, Types
  <2> QED BY <1>3, <2>1
          DEF Inv, LinesGoing, LinesKept, NoOtherLines, Reading, LinesTold, process
<1>8. Answered'
  <2>1. CASE pc = "idle"
    BY <1>3, <2>1 DEF Inv, Answered, VerdictIsAboutTheAskedExercise, PassIsEarned,
       FailureIsReported, Verdict, LinesTold, CodeTold
  <2>2. CASE pc # "idle"
    BY <2>2, NoAnswerYet
  <2> QED BY <2>1, <2>2
<1> QED BY <1>1, <1>2, <1>4, <1>5, <1>6, <1>7, <1>8 DEF Inv

LEMMA StutterKeeps == ASSUME Inv, UNCHANGED vars PROVE Inv'
<1> USE DEF vars, request, mcpp, events, history
<1>1. Process'
  BY Steady DEF Inv
<1>2. Types' /\ Counted' /\ Running' /\ Once' /\ OwnFacts' /\ Unanswered' /\ FileExists'
  BY DEF Inv, Types, Counted, Running, Once, OwnFacts, Unanswered, FileExists, process
<1>3. Recorded' /\ LinesGoing' /\ LinesKept' /\ NoOtherLines'
  BY DEF Inv, Recorded, LinesGoing, LinesKept, NoOtherLines, Reading, LinesTold,
         CodeTold, PendingFails, PendingWaits, process
<1>4. Answered'
  BY DEF Inv, Answered, VerdictIsAboutTheAskedExercise, PassIsEarned,
         FailureIsReported, Verdict, LinesTold, CodeTold
<1> QED BY <1>1, <1>2, <1>3, <1>4 DEF Inv

LEMMA NextKeeps == Inv /\ [Next]_vars => Inv'
<1> SUFFICES ASSUME Inv, [Next]_vars PROVE Inv'
  OBVIOUS
<1>1. ASSUME NEW t \in Tests, cmd_check(t) PROVE Inv'
  BY <1>1, CheckKeeps
<1>2. ASSUME NEW t \in Tests, CompileFails(t) \/ RunTest(t) PROVE Inv'
  BY <1>2, CompileFailsKeeps, RunTestKeeps
<1>3. CASE UnknownExercise \/ ClearChannel
  BY <1>3, UnknownKeeps, ClearKeeps
<1>4. CASE PackageFails \/ McppPrintsNothing \/ mcppReturns
  BY <1>4, NothingRunsKeeps
<1>5. CASE TestStep \/ TestEnds
  BY <1>5, TestStepKeeps, TestEndsKeeps
<1>6. CASE PackageError \/ NoRecord \/ CompileVerdict \/ RunStage \/ RunVerdict
  BY <1>6, ErrorKeeps, CompileVerdictKeeps, RunStageKeeps, RunVerdictKeeps
<1>7. CASE Kill \/ OtherProvider
  BY <1>7, KillKeeps, OtherKeeps
<1>8. CASE UNCHANGED vars
  BY <1>8, StutterKeeps
<1> QED BY ONLY <1>1, <1>2, <1>3, <1>4, <1>5, <1>6, <1>7, <1>8, [Next]_vars DEF Next

\* Every reachable state of every instance has what the verdicts rest on.
THEOREM Invariance == Spec => []Inv
BY InitEstablishes, NextKeeps, PTL DEF Spec

\* The variables keep their types, those of the exercise's process included.
THEOREM TypeCorrect == Spec => []TypeOK
<1>1. Inv => TypeOK
  <2> SUFFICES ASSUME Inv PROVE TypeOK
    OBVIOUS
  <2>1. records \in UNION {[T -> Records] : T \in SUBSET Tests}
    BY DEF Inv, Types
  <2>2. own \in Facts \cup {NoFacts}
    BY DEF Inv, OwnFacts
  <2>3. H!TypeOK
    BY DEF Inv, Types, Process, Flags, Values, H!TypeOK, Codes
  <2> QED BY <2>1, <2>2, <2>3 DEF TypeOK, Inv, Types, Counted
<1> QED BY <1>1, Invariance, PTL

\* A verdict is about the build and run of the exercise asked for, whatever
\* tests mcpp runs beside it.
THEOREM VerdictAbout == Spec => []VerdictIsAboutTheAskedExercise
<1>1. Inv => VerdictIsAboutTheAskedExercise
  BY DEF Inv, Answered
<1> QED BY <1>1, Invariance, PTL

\* An exercise with a failed check or a wait left is not passed.
THEOREM PassEarned == Spec => []PassIsEarned
<1>1. Inv => PassIsEarned
  BY DEF Inv, Answered
<1> QED BY <1>1, Invariance, PTL

\* A failed check is reported, in a file that other tests write to as well.
THEOREM FailureReported == Spec => []FailureIsReported
<1>1. Inv => FailureIsReported
  BY DEF Inv, Answered
<1> QED BY <1>1, Invariance, PTL

-----------------------------------------------------------------------------
(* A check that nothing comes in the way of keeps the contract.  One that  *)
(* something comes in the way of is given up there; from then on the       *)
(* contract sees nothing of it.                                            *)

ContractStep == Contract!Next \/ UNCHANGED Contract!vars

LEMMA UnderWayKeepsContract ==
    ASSUME Inv, Inv', pc # "idle", pc' # "idle", UNCHANGED <<asked, answer>>,
           own = NoFacts \/ own' = own, disturbed \subseteq disturbed'
    PROVE  ContractStep
<1>1. answer = NoAnswer
  BY DEF Inv, Unanswered
<1>2. CASE disturbed # {}
  <2>1. disturbed' # {}
    BY <1>2
  <2> QED BY <1>2, <2>1 DEF ContractStep, Contract!vars
<1>3. CASE disturbed = {} /\ disturbed' # {}
  <2>1. Contract!GiveUp
    BY <1>1, <1>3 DEF Contract!GiveUp
  <2> QED BY <2>1 DEF ContractStep, Contract!Next
<1>4. CASE disturbed = {} /\ disturbed' = {} /\ own' = own
  BY <1>4 DEF ContractStep, Contract!vars
<1>5. CASE disturbed = {} /\ disturbed' = {} /\ own = NoFacts /\ own' # NoFacts
  <2>1. own' \in Facts
    BY <1>5 DEF Inv, OwnFacts
  <2>2. Contract!Observe
    BY <1>5, <2>1 DEF Contract!Observe
  <2> QED BY <2>2 DEF ContractStep, Contract!Next
<1> QED BY <1>2, <1>3, <1>4, <1>5

LEMMA AskingKeepsContract ==
    ASSUME Inv, UnknownExercise \/ \E t \in Tests : cmd_check(t)
    PROVE  ContractStep
<1>1. CASE UnknownExercise
  <2> DEFINE a == [NoAnswer EXCEPT !.kind = "error"]
  <2>1. /\ pc = "idle" /\ UNCHANGED <<pc, asked, own, disturbed>> /\ answer' = a
    BY <1>1 DEF UnknownExercise, request, history
  <2>2. a \in Answers /\ a.kind = "error"
    BY RecordTypes DEF NoAnswer
  <2> HIDE DEF a
  <2>3. CASE disturbed = {}
    <3>1. Contract!Error
      BY <2>1, <2>2, <2>3 DEF Contract!Error
    <3> QED BY <3>1 DEF ContractStep, Contract!Next
  <2>4. CASE disturbed # {}
    BY <2>1, <2>4 DEF ContractStep, Contract!vars
  <2> QED BY <2>3, <2>4
<1>2. ASSUME NEW t \in Tests, cmd_check(t) PROVE ContractStep
  <2>1. Contract!Ask
    BY <1>2 DEF cmd_check, Contract!Ask
  <2> QED BY <2>1 DEF ContractStep, Contract!Next
<1> QED BY <1>1, <1>2

LEMMA ErrorKeepsContract ==
    ASSUME Inv, PackageError \/ NoRecord PROVE ContractStep
<1> DEFINE a == [NoAnswer EXCEPT !.kind = "error"]
<1>1. pc # "idle" /\ pc' = "idle" /\ answer' = a /\ UNCHANGED <<asked, own, disturbed>>
  BY DEF PackageError, NoRecord, Answer, history
<1>2. a \in Answers /\ a.kind = "error"
  BY RecordTypes DEF NoAnswer
<1> HIDE DEF a
<1>3. CASE disturbed = {}
  <2>1. Contract!Error
    BY <1>1, <1>2, <1>3 DEF Contract!Error
  <2> QED BY <2>1 DEF ContractStep, Contract!Next
<1>4. CASE disturbed # {}
  BY <1>1, <1>4 DEF ContractStep, Contract!vars
<1> QED BY <1>3, <1>4

\* A verdict is a verdict of the contract if it says what the facts are.
LEMMA VerdictKeepsContract ==
    ASSUME Inv, pc \in {"answer", "judge"}, NEW a \in Answers, Answer(a),
           a.kind = "verdict", own # NoFacts,
           disturbed = {} =>
              /\ Contract!Truthful(a.outcome, own)
              /\ a.stage = (IF own.compiled THEN "run" ELSE "compile")
              /\ a.stage = "run" => a.exit = own.exit
              /\ a.diagnostics <= own.failures
              /\ own.ending # "crash" => a.diagnostics = own.failures
    PROVE  ContractStep
<1>1. pc' = "idle" /\ answer' = a /\ UNCHANGED <<asked, own, disturbed>>
  BY DEF Answer, history
<1>2. CASE disturbed = {}
  <2>1. Contract!Verdict
    BY <1>1, <1>2 DEF Contract!Verdict
  <2> QED BY <2>1 DEF ContractStep, Contract!Next
<1>3. CASE disturbed # {}
  BY <1>1, <1>3 DEF ContractStep, Contract!vars
<1> QED BY <1>2, <1>3

LEMMA KillKeepsContract == ASSUME Inv, Kill PROVE ContractStep
<1>1. pc # "idle" /\ pc' = "idle" /\ UNCHANGED <<asked, answer, own, disturbed>>
  BY DEF Kill, events, history
<1>2. CASE disturbed = {}
  <2>1. Contract!GiveUp
    BY <1>1, <1>2 DEF Contract!GiveUp
  <2> QED BY <2>1 DEF ContractStep, Contract!Next
<1>3. CASE disturbed # {}
  BY <1>1, <1>3 DEF ContractStep, Contract!vars
<1> QED BY <1>2, <1>3

LEMMA CompileVerdictKeepsContract == ASSUME Inv, CompileVerdict PROVE ContractStep
<1>1. PICK a \in Answers :
        /\ Answer(a) /\ a.kind = "verdict" /\ a.stage = "compile" /\ a.outcome = "fail"
        /\ a.diagnostics = 0
  BY CompileVerdictSays
<1>2. pc = "answer" /\ own # NoFacts /\ ~own.compiled /\ own.failures = 0
  BY CompileVerdictSays
<1>3. Contract!Truthful(a.outcome, own)
  BY <1>1, <1>2 DEF Contract!Truthful
<1> QED BY <1>1, <1>2, <1>3, VerdictKeepsContract

LEMMA RunVerdictKeepsContract == ASSUME Inv, RunVerdict PROVE ContractStep
<1>1. PICK a \in Answers :
        /\ Answer(a)
        /\ a.kind = "verdict" /\ a.stage = "run" /\ (CodeTold => a.exit = own.exit)
        /\ a.diagnostics = channel.fails
        /\ a.outcome = "pass" => a.exit = 0 /\ channel.fails = 0 /\ channel.waits = 0
        /\ a.outcome = "blocked" => channel.fails = 0 /\ channel.waits > 0
        /\ a.outcome = "fail" /\ channel.fails = 0 => a.exit # 0 /\ channel.waits = 0
  BY RunVerdictSays
<1>2. pc = "judge" /\ own # NoFacts /\ own \in Facts /\ own.compiled
  BY RunVerdictSays
<1>3. ASSUME disturbed = {}
      PROVE  /\ Contract!Truthful(a.outcome, own)
             /\ a.exit = own.exit
             /\ a.diagnostics <= own.failures
             /\ own.ending # "crash" => a.diagnostics = own.failures
  <2>1. current # asked
    BY <1>2, MatchingAssumption DEF Inv, Running, Types
  <2>2. /\ channel.fails <= own.failures /\ channel.waits <= own.waits
        /\ own.ending # "crash" =>
             own.failures <= channel.fails /\ own.waits <= channel.waits
    BY <1>2, <1>3, <2>1 DEF Inv, NoOtherLines, LinesKept, Reading, LinesTold
  <2>3. own.ending = "crash" => own.exit # 0
    BY <1>2 DEF Inv, OwnFacts
  <2>4. /\ channel.fails \in Nat /\ channel.waits \in Nat
        /\ own.failures \in Nat /\ own.waits \in Nat
    BY <1>2, ProcessAssumption DEF Inv, Types, H!Channels, Facts
  <2>5. a.exit = own.exit
    BY <1>1, <1>3 DEF CodeTold
  <2>6. /\ a.diagnostics <= own.failures
        /\ own.ending # "crash" => a.diagnostics = own.failures
    BY ONLY <1>1, <2>2, <2>4
  <2>7. Contract!Truthful(a.outcome, own)
    BY ONLY <1>1, <1>2, <2>2, <2>3, <2>4, <2>5 DEF Contract!Truthful
  <2> QED BY <2>5, <2>6, <2>7
<1> QED BY <1>1, <1>2, <1>3, VerdictKeepsContract

LEMMA NextKeepsContract ==
    Inv /\ Inv' /\ [Next]_vars => [Contract!Next]_Contract!vars
<1> SUFFICES ASSUME Inv, Inv', [Next]_vars PROVE ContractStep
  BY DEF ContractStep
<1>1. CASE UnknownExercise \/ \E t \in Tests : cmd_check(t)
  BY <1>1, AskingKeepsContract
<1>2. CASE ClearChannel
  BY <1>2, UnderWayKeepsContract DEF ClearChannel, Disturb, events
<1>3. CASE PackageFails \/ McppPrintsNothing \/ mcppReturns \/ RunStage
  BY <1>3, UnderWayKeepsContract
     DEF PackageFails, McppPrintsNothing, mcppReturns, RunStage, Between, request,
         events, history
<1>4. ASSUME NEW t \in Tests, CompileFails(t) \/ RunTest(t) PROVE ContractStep
  <2>1. /\ pc = "mcpp" /\ UNCHANGED <<pc, asked, answer, disturbed>>
        /\ t \in todo /\ (own' # own => t = asked)
    BY <1>4 DEF CompileFails, RunTest, Observe, Between, request, events, history
  <2>2. own = NoFacts \/ own' = own
    BY <2>1 DEF Inv, Once
  <2> QED BY <2>1, <2>2, UnderWayKeepsContract
<1>5. CASE TestStep \/ TestEnds
  <2>1. /\ current # NoTest /\ UNCHANGED <<pc, asked, answer>>
        /\ disturbed \subseteq disturbed' /\ (own' # own => current = asked)
    BY <1>5 DEF TestStep, TestEnds, Observe, Disturb, request, mcpp, events
  <2>2. pc = "mcpp" /\ (own = NoFacts \/ own' = own)
    BY <2>1 DEF Inv, Once, Running
  <2> QED BY <2>1, <2>2, UnderWayKeepsContract
<1>6. CASE PackageError \/ NoRecord
  BY <1>6, ErrorKeepsContract
<1>7. CASE CompileVerdict \/ RunVerdict
  BY <1>7, CompileVerdictKeepsContract, RunVerdictKeepsContract
<1>8. CASE Kill
  BY <1>8, KillKeepsContract
<1>9. CASE OtherProvider
  <2>1. /\ UNCHANGED <<pc, asked, answer, own>> /\ disturbed \subseteq disturbed'
        /\ pc = "idle" => disturbed' = disturbed
    BY <1>9 DEF OtherProvider, Disturb, events
  <2>2. CASE pc = "idle"
    BY <2>1, <2>2 DEF ContractStep, Contract!vars
  <2>3. CASE pc # "idle"
    BY <2>1, <2>3, UnderWayKeepsContract
  <2> QED BY <2>2, <2>3
<1>10. CASE UNCHANGED vars
  BY <1>10 DEF vars, request, events, history, ContractStep, Contract!vars
<1> QED BY ONLY <1>1, <1>2, <1>3, <1>4, <1>5, <1>6, <1>7, <1>8, <1>9, <1>10, [Next]_vars
        DEF Next

\* Checks that nothing comes in the way of keep the contract of
\* VerdictContract, step by step, whatever came in the way of the others.
THEOREM ContractKept == Spec => KeepsContract
<1>1. Init => Contract!Init
  BY DEF Init, Contract!Init
<1>2. Inv /\ Inv' /\ [Next]_vars => [Contract!Next]_Contract!vars
  BY NextKeepsContract
<1> QED BY <1>1, <1>2, Invariance, PTL DEF Spec, KeepsContract, Contract!Spec
=============================================================================
