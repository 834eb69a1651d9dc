------------------------------ MODULE FirstRun ------------------------------
(***************************************************************************)
(* scripts/ci/first-run.py: a driver that plays a learner.  It starts the  *)
(* checker, sees the first exercise fail, lays the answer, sees it pass    *)
(* and the next one come, stops the checker, repeats the preparation, and  *)
(* starts a second checker, which must go on where the first one was.      *)
(*                                                                         *)
(* The driver knows the checker by its events, which a reader thread moves *)
(* from the pipe to a queue.  d2x and setup.sh are external; Faults says   *)
(* in which ways they may be wrong, and that is what the driver must find. *)
(***************************************************************************)
EXTENDS Naturals, Sequences, FiniteSets

CONSTANTS
    NumExercises,  \* exercises of the course; the first is hello-mcpp
    Faults,        \* ways in which the tools may be wrong, of AllFaults
    Interrupts,    \* TRUE: the driver may be interrupted anywhere
    MaxEvents      \* bound: events in the pipe and in the queue

AllFaults == {"judge", "skip", "forget", "reset", "miscount", "recheck", "error",
              "exit", "deaf", "setup"}

ASSUME FirstRunAssumption ==
    /\ NumExercises \in Nat \ {0, 1} /\ MaxEvents \in Nat \ {0}
    /\ Faults \subseteq AllFaults
    /\ Interrupts \in BOOLEAN

Exercises == 1..NumExercises
Hello     == 1
NoState   == {0}  \* no file, and no exercise
Outcomes  == {"pass", "fail"}

VARIABLES
    pc,        \* where main() is
    raised,    \* an exception is on its way through finally
    before,    \* before_setup
    next,      \* next_exercise
    queue,     \* self.events
    hello,     \* what hello-mcpp.cpp holds
    state,     \* .d2x/state.json: the completed exercises
    pipe,      \* the checker's output
    checker,   \* where the checker is
    current,   \* the checker's exercise
    judged,    \* what the checker judges, or has judged last
    snapshot,  \* what its watcher compares with
    verdictOf, \* what the Provider makes of each content of hello-mcpp.cpp
    session,   \* history: checkers started
    opened,    \* history: the last exercise of each session
    told,      \* history: the verdicts on hello-mcpp, by content
    cut,       \* history: finally did not come to its end
    orphan     \* history: interrupted with a checker started, before its try

driver == <<pc, raised, before, next>>
d2x    == <<checker, current, judged, snapshot>>
truth  == <<session, opened, told>>
vars   == <<driver, queue, hello, state, pipe, d2x, verdictOf, truth, cut, orphan>>

Contents == {"original", "half", "answer"}

\* What main() waits for, one until() after the other.
Awaits == [session  |-> "session", exercise |-> "exercise", verdict |-> "verdict",
           waiting  |-> "waiting", accepted |-> "verdict",  advanced |-> "exercise",
           idle     |-> "waiting", session2 |-> "session",  resumed |-> "exercise",
           idle2    |-> "waiting"]
After  == [session  |-> "exercise", exercise |-> "verdict", verdict |-> "waiting",
           waiting  |-> "settle",   accepted |-> "advanced", advanced |-> "idle",
           idle     |-> "close",    session2 |-> "resumed",  resumed |-> "idle2",
           idle2    |-> "close2"]

InFirstTry  == pc \in {"session", "exercise", "verdict", "waiting", "settle", "save",
                       "written", "accepted", "advanced", "idle"}
InSecondTry == pc \in {"session2", "resumed", "idle2"}
InChecker   == pc \in {"starting", "restarting"}
Ended       == pc \in {"pass", "failed"}

Events ==
         [event : {"session"}, total : BOOLEAN, completed : 0..NumExercises]
    \cup [event : {"exercise"}, id : Exercises]
    \cup [event : {"verdict"}, outcome : Outcomes]
    \cup [event : {"waiting", "done", "error"}]

TypeOK ==
    /\ pc \in DOMAIN Awaits \cup {"start", "starting", "settle", "save", "written", "close",
                 "restore", "progress", "setup", "compare", "restart", "restarting",
                 "close2", "listing", "pass", "failed"}
    /\ raised \in BOOLEAN /\ cut \in BOOLEAN /\ orphan \in BOOLEAN
    /\ before \in (SUBSET Exercises) \cup {NoState}
    /\ state \in (SUBSET Exercises) \cup {NoState}
    /\ next \in Exercises /\ current \in Exercises
    /\ queue \in Seq(Events) /\ pipe \in Seq(Events)
    /\ Len(pipe) + Len(queue) <= MaxEvents
    /\ hello \in Contents /\ judged \in Contents /\ snapshot \in Contents
    /\ checker \in {"off", "begin", "list", "check", "judge", "save", "wait",
                    "resync", "watch", "gone"}
    /\ verdictOf \in [Contents -> Outcomes]
    /\ session \in 0..2 /\ opened \in [1..2 -> 0..NumExercises]
    /\ told \subseteq Contents \X Outcomes

Init ==
    /\ pc = "start" /\ raised = FALSE /\ before = NoState /\ next = Hello
    /\ queue = << >> /\ pipe = << >> /\ hello = "original"
    /\ state \in {NoState, {}}
    /\ checker = "off" /\ current = Hello
    /\ judged = "original" /\ snapshot = "original"
    /\ verdictOf \in IF "judge" \in Faults
         THEN {v \in [Contents -> Outcomes] : v["half"] = "fail"}
         ELSE {[c \in Contents |-> IF c = "answer" THEN "pass" ELSE "fail"]}
    /\ session = 0 /\ opened = [s \in 1..2 |-> 0] /\ told = {}
    /\ cut = FALSE /\ orphan = FALSE

-----------------------------------------------------------------------------
(* The driver.                                                             *)

\* An exception: finally comes next, in a try; else the script is at its end.
Raise ==
    /\ raised' = TRUE
    /\ pc' = CASE InFirstTry -> "close" [] InSecondTry -> "close2"
               [] OTHER -> "failed"

Goto(l) == pc' = l /\ UNCHANGED raised

\* Checker(), as far as the process; the test for progress comes before it.
Start ==
    /\ \/ /\ pc = "start" /\ state # NoState
          /\ Raise /\ UNCHANGED <<queue, pipe, checker, session>>
       \/ /\ \/ pc = "start" /\ state = NoState /\ Goto("starting")
             \/ pc = "restart" /\ Goto("restarting")
          /\ queue' = << >> /\ pipe' = << >>
          /\ checker' = "begin" /\ session' = session + 1
    /\ UNCHANGED <<before, next, hello, state, current, judged, snapshot, verdictOf,
                   opened, told, cut, orphan>>

\* The threads of Checker(), and main() enters its try.
EnterTry ==
    /\ InChecker
    /\ Goto(IF pc = "starting" THEN "session" ELSE "session2")
    /\ UNCHANGED <<before, next, queue, hello, state, pipe, d2x, verdictOf, truth,
                   cut, orphan>>

\* Mutated form of the next: a line stays in the pipe.
Read_Again ==
    /\ pipe # << >> /\ ~InChecker /\ ~Ended
    /\ queue' = Append(queue, Head(pipe)) /\ UNCHANGED pipe
    /\ UNCHANGED <<driver, hello, state, d2x, verdictOf, truth, cut, orphan>>

\* Checker.read, in its thread, a daemon that ends with the script.
Read ==
    /\ pipe # << >> /\ ~InChecker /\ ~Ended
    /\ queue' = Append(queue, Head(pipe)) /\ pipe' = Tail(pipe)
    /\ UNCHANGED <<driver, hello, state, d2x, verdictOf, truth, cut, orphan>>

\* Mutated form of the next: the second checker may open any exercise but the first.
AsExpected_AnyNext(e) ==
    CASE pc = "session"  -> e.total /\ e.completed = 0
      [] pc = "exercise" -> e.id = Hello
      [] pc = "verdict"  -> e.outcome = "fail"
      [] pc = "accepted" -> e.outcome = "pass"
      [] pc \in {"advanced", "resumed"} -> e.id # Hello
      [] pc = "session2" -> e.completed = 1
      [] OTHER           -> TRUE

\* The assertion on the event waited for.
AsExpected(e) ==
    CASE pc = "session"  -> e.total /\ e.completed = 0
      [] pc = "exercise" -> e.id = Hello
      [] pc = "verdict"  -> e.outcome = "fail"
      [] pc = "accepted" -> e.outcome = "pass"
      [] pc = "advanced" -> e.id # Hello
      [] pc = "session2" -> e.completed = 1
      [] pc = "resumed"  -> e.id = next
      [] OTHER           -> TRUE

\* until: one event.
Until ==
    /\ pc \in DOMAIN Awaits /\ queue # << >>
    /\ queue' = Tail(queue)
    /\ LET e == Head(queue)
       IN \/ /\ e.event \in {"error", "done"} /\ Raise
             /\ UNCHANGED next
          \/ /\ e.event = Awaits[pc]
             /\ IF AsExpected(e) THEN Goto(After[pc]) ELSE Raise
             /\ next' = IF pc = "advanced" THEN e.id ELSE next
          \/ /\ e.event \notin {"error", "done", Awaits[pc]}
             /\ UNCHANGED <<pc, raised, next>>
    /\ UNCHANGED <<before, hello, state, pipe, d2x, verdictOf, truth, cut,
                   orphan>>

\* until: nothing came, and the process has exited.
ExitedEarly ==
    /\ pc \in DOMAIN Awaits /\ queue = << >> /\ checker = "gone"
    /\ Raise
    /\ UNCHANGED <<before, next, queue, hello, state, pipe, d2x, verdictOf, truth, cut,
                   orphan>>

\* Mutated form of the next: the clock is read after an event only.
Deadline_AfterEvent ==
    /\ pc \in DOMAIN Awaits /\ queue # << >>
    /\ Raise
    /\ UNCHANGED <<before, next, queue, hello, state, pipe, d2x, verdictOf, truth, cut,
                   orphan>>

\* until: the deadline.
Deadline ==
    /\ pc \in DOMAIN Awaits
    /\ Raise
    /\ UNCHANGED <<before, next, queue, hello, state, pipe, d2x, verdictOf, truth, cut,
                   orphan>>

\* time.sleep(1).
Settle ==
    /\ pc = "settle"
    /\ Goto("save")
    /\ UNCHANGED <<before, next, queue, hello, state, pipe, d2x, verdictOf, truth, cut,
                   orphan>>

\* write_bytes: the file is truncated, then written.
Save ==
    /\ \/ pc = "save"    /\ Goto("written")  /\ hello' = "half"
       \/ pc = "written" /\ Goto("accepted") /\ hello' = "answer"
    /\ UNCHANGED <<before, next, queue, state, pipe, d2x, verdictOf, truth, cut,
                   orphan>>

\* Mutated form of the next: an exception passes the restoration by.
Close_Unrestored ==
    /\ pc \in {"close", "close2"}
    /\ checker' = "gone" /\ UNCHANGED cut
    /\ Goto(IF raised THEN "failed"
            ELSE IF pc = "close" THEN "restore" ELSE "listing")
    /\ UNCHANGED <<before, next, queue, hello, state, pipe, current, judged, snapshot,
                   verdictOf, truth, orphan>>

\* close: terminate the process and wait for it.
Close ==
    /\ pc \in {"close", "close2"}
    /\ \/ /\ checker' = "gone" /\ UNCHANGED cut
          /\ IF pc = "close" THEN Goto("restore")
             ELSE Goto(IF raised THEN "failed" ELSE "listing")
       \/ /\ "deaf" \in Faults /\ checker # "gone" /\ UNCHANGED checker
          /\ Raise /\ cut' = TRUE
    /\ UNCHANGED <<before, next, queue, hello, state, pipe, current, judged, snapshot,
                   verdictOf, truth, orphan>>

Restore ==
    /\ pc = "restore" /\ hello' = "original"
    /\ Goto(IF raised THEN "failed" ELSE "progress")
    /\ UNCHANGED <<before, next, queue, state, pipe, d2x, verdictOf, truth, cut,
                   orphan>>

\* The progress is on disk.
Progress ==
    /\ pc = "progress"
    /\ IF state # NoState /\ Hello \in state
       THEN Goto("setup") /\ before' = state
       ELSE Raise /\ UNCHANGED before
    /\ UNCHANGED <<next, queue, hello, state, pipe, d2x, verdictOf, truth, cut,
                   orphan>>

\* setup.sh, once more.
Setup ==
    /\ pc = "setup"
    /\ Goto("compare") \/ ("setup" \in Faults /\ Raise)
    /\ state' = state \/ ("setup" \in Faults /\ state' \in {NoState, {}})
    /\ UNCHANGED <<before, next, queue, hello, pipe, d2x, verdictOf, truth, cut,
                   orphan>>

Compare ==
    /\ pc = "compare"
    /\ IF state = before THEN Goto("restart") ELSE Raise
    /\ UNCHANGED <<before, next, queue, hello, state, pipe, d2x, verdictOf, truth, cut,
                   orphan>>

\* describe and exercises.
Listing ==
    /\ pc = "listing"
    /\ Goto("pass") \/ ("error" \in Faults /\ Raise)
    /\ UNCHANGED <<before, next, queue, hello, state, pipe, d2x, verdictOf, truth, cut,
                   orphan>>

\* Ctrl-C: an exception like any other.  Between the start of a checker, which
\* is in a session of its own, and the try no finally follows.
Interrupt ==
    /\ Interrupts /\ ~Ended
    /\ Raise
    /\ cut' = (cut \/ pc \in {"close", "restore", "close2"})
    /\ orphan' = (orphan \/ InChecker)
    /\ UNCHANGED <<before, next, queue, hello, state, pipe, d2x, verdictOf, truth>>

\* The job is cancelled: SIGTERM ends Python, and no finally follows anywhere.
Terminate ==
    /\ Interrupts /\ ~Ended
    /\ pc' = "failed" /\ raised' = TRUE /\ cut' = TRUE
    /\ UNCHANGED <<before, next, queue, hello, state, pipe, d2x, verdictOf, truth,
                   orphan>>

-----------------------------------------------------------------------------
(* d2x checker, external.                                                  *)

Completed == IF state = NoState THEN {} ELSE state

Emit(e) ==
    /\ Len(pipe) + Len(queue) < MaxEvents
    /\ pipe' = Append(pipe, e)

Begin ==
    /\ checker = "begin" /\ checker' = "list"
    /\ \E total \in {TRUE} \cup {x \in {FALSE} : "miscount" \in Faults},
          n \in {Cardinality(Completed)} \cup {x \in {0} : "reset" \in Faults} :
         Emit([event |-> "session", total |-> total, completed |-> n])
    /\ UNCHANGED <<current, judged, snapshot, state, opened, told>>

\* The next exercise in the order of the course, or the end of it.
Open ==
    /\ checker = "list"
    /\ LET todo == IF "reset" \in Faults THEN Exercises ELSE Exercises \ Completed
       IN \/ /\ todo = {} /\ checker' = "gone"
             /\ Emit([event |-> "done"])
             /\ UNCHANGED <<current, opened>>
          \/ \E x \in todo :
               /\ "skip" \in Faults \/ \A y \in todo : x <= y
               /\ current' = x /\ checker' = "check"
               /\ opened' = [opened EXCEPT ![session] = x]
               /\ Emit([event |-> "exercise", id |-> x])
    /\ UNCHANGED <<judged, snapshot, state, told>>

Check ==
    /\ checker = "check" /\ checker' = "judge"
    /\ judged' = hello
    /\ UNCHANGED <<current, snapshot, state, pipe, opened, told>>

\* The Provider's verdict: the later exercises are not solved.
Judge ==
    /\ checker = "judge"
    /\ LET outcome == IF current = Hello THEN verdictOf[judged] ELSE "fail"
       IN /\ Emit([event |-> "verdict", outcome |-> outcome])
          /\ checker' = IF outcome = "pass" THEN "save" ELSE "wait"
          /\ told' = IF current = Hello THEN told \cup {<<judged, outcome>>} ELSE told
    /\ UNCHANGED <<current, judged, snapshot, state, opened>>

SaveProgress ==
    /\ checker = "save" /\ checker' = "list"
    /\ \/ state' = Completed \cup {current}
       \/ "forget" \in Faults /\ UNCHANGED state
    /\ UNCHANGED <<current, judged, snapshot, pipe, opened, told>>

Wait ==
    /\ checker = "wait" /\ checker' = "resync"
    /\ Emit([event |-> "waiting"])
    /\ UNCHANGED <<current, judged, snapshot, state, opened, told>>

Resync ==
    /\ checker = "resync" /\ checker' = "watch" /\ snapshot' = hello
    /\ UNCHANGED <<current, judged, state, pipe, opened, told>>

Watch ==
    /\ checker = "watch" /\ checker' = "check"
    /\ (current = Hello /\ hello # snapshot) \/ "recheck" \in Faults
    /\ UNCHANGED <<current, judged, snapshot, state, pipe, opened, told>>

GoWrong ==
    /\ checker \notin {"off", "gone"} /\ checker' = "gone"
    /\ \/ "error" \in Faults /\ Emit([event |-> "error"])
       \/ "exit" \in Faults /\ UNCHANGED pipe
    /\ UNCHANGED <<current, judged, snapshot, state, opened, told>>

CheckerStep ==
    /\ \/ Begin \/ Open \/ Check \/ Judge \/ SaveProgress \/ Wait \/ Resync
       \/ Watch \/ GoWrong
    /\ UNCHANGED <<driver, queue, hello, verdictOf, session, cut, orphan>>

-----------------------------------------------------------------------------

DriverStep ==
    \/ Start \/ EnterTry \/ Until \/ ExitedEarly \/ Settle \/ Save \/ Close
    \/ Restore \/ Progress \/ Setup \/ Compare \/ Listing

Next == DriverStep \/ Read \/ Deadline \/ Interrupt \/ Terminate \/ CheckerStep

\* Python runs the script and its thread; the clock goes on.  Nothing is said
\* of the checker, which may hang.
Fairness == WF_vars(DriverStep) /\ WF_vars(Read) /\ WF_vars(Deadline)

Spec == Init /\ [][Next]_vars /\ Fairness

-----------------------------------------------------------------------------
(* Properties.                                                             *)

\* What the last line of the script says is what happened, however the tools
\* are wrong: the exercise was rejected as it was and accepted with the answer,
\* the progress is on disk and survived the preparation, and the second checker
\* went on with the exercise that the first one had come to
\* (first-run.py:165).
PassMeansJourney ==
    pc = "pass" =>
        /\ {<<"original", "fail">>, <<"answer", "pass">>} \subseteq told
        /\ state = {Hello}
        /\ session = 2 /\ opened[1] = opened[2] /\ opened[2] # Hello

\* However the script ends by itself or by Ctrl-C, the exercise is what it was
\* and no checker is left behind, unless finally was cut short (first-run.py:
\* 140-142, 158-159), or never came, with the job cancelled.  Ctrl-C leaves a
\* checker also when it falls between its start and the try (39-49, 121-122,
\* 151-152), and nothing but the checker.
RestoredAtEnd ==
    Ended /\ ~cut => hello = "original" /\ (checker \in {"off", "gone"} \/ orphan)

\* The script ends, also when the checker hangs or never stops talking
\* (first-run.py:64, 90).
DriverEnds == <>Ended
=============================================================================
