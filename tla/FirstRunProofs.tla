---------------------------- MODULE FirstRunProofs ----------------------------
(***************************************************************************)
(* The driver's types, that what it passes has happened, and that it       *)
(* leaves everything as it was, but for a checker that Ctrl-C finds before *)
(* its try: for a course of any length, tools that are wrong in any of the *)
(* ways that Faults names, interrupts and a cancelled job.                 *)
(*                                                                         *)
(* The driver sees events only, late and one by one.  So Inv relates the   *)
(* events still to come, those in the queue and then those in the pipe, to *)
(* what the checker has really done: a verdict "pass" among them has been  *)
(* given (PassTold), the last exercise opened is the one announced         *)
(* (Announced), and the first verdict that the driver gets is of           *)
(* hello-mcpp as it came with the course (FirstVerdict).                   *)
(***************************************************************************)
EXTENDS FirstRun, FiniteSetTheorems, SequenceTheorems, TLAPS

\* The events still to come: how many, and which.
Coming == Len(queue) + Len(pipe)
At(i)  == IF i <= Len(queue) THEN queue[i] ELSE pipe[i - Len(queue)]

IsVerdict(e, outcome) == e.event = "verdict" /\ e.outcome = outcome
Opens(e)              == e.event = "exercise"
OpensAnother(e)       == e.event = "exercise" /\ e.id # Hello

Cleanup ==
    ~cut =>
        /\ hello # "original" =>
             pc \in {"written", "accepted", "advanced", "idle", "close", "restore"}
        /\ checker \notin {"off", "gone"} =>
             orphan \/ InChecker \/ InFirstTry \/ InSecondTry \/ pc \in {"close", "close2"}

Between == pc \in {"close", "restore", "progress", "setup", "compare", "restart"}
Second  == InSecondTry \/ pc \in {"restarting", "close2", "listing", "pass"}

Sessions ==
    /\ pc = "start" => session = 0
    /\ pc = "starting" \/ InFirstTry \/ Between => session = 1
    /\ Second => session = 2
    /\ checker = "off" <=> session = 0
    /\ \A s \in 1..2 : s > session => opened[s] = 0
    /\ raised => pc \in {"close", "restore", "close2", "failed"}

\* Progress is made with hello-mcpp only.
Solved ==
    /\ state \in {NoState, {}, {Hello}}
    /\ checker = "save" => current = Hello

Truth ==
    /\ verdictOf["half"] = "fail"
    /\ \A c \in Contents, o \in Outcomes : <<c, o>> \in told => o = verdictOf[c]

PassTold ==
    \A i \in 1..Coming : IsVerdict(At(i), "pass") =>
        \E c \in Contents : <<c, "pass">> \in told

\* After another exercise than the first no more is opened in the session.
Announced ==
    session > 0 =>
        /\ opened[session] \notin {0, Hello} =>
             checker \notin {"begin", "list", "save"} /\ current = opened[session]
        /\ \A i \in 1..Coming : OpensAnother(At(i)) => opened[session] = At(i).id

Original ==
    pc \in {"start", "starting", "session", "exercise", "verdict", "waiting", "settle",
            "save"} =>
        hello = "original" /\ judged = "original"

\* Among the first n events: hello-mcpp, which the driver has to be told of
\* first, is passed; or another exercise is the first.
Passed(n) ==
    \E i \in 1..n :
        /\ IsVerdict(At(i), "pass")
        /\ pc = "verdict" \/ \E k \in 1..i : Opens(At(k))
Skipped(n) ==
    /\ pc # "verdict"
    /\ \E i \in 1..n : OpensAnother(At(i)) /\ \A k \in 1..i : Opens(At(k)) => k = i
Elsewhere(n) == Passed(n) \/ Skipped(n)

AtWork == checker \in {"check", "judge", "wait", "resync", "watch"}

\* Up to its first verdict the driver gets none of another exercise before it
\* gets one of hello-mcpp.
FirstVerdict ==
    pc \in {"starting", "session", "exercise", "verdict"}
    /\ <<"original", "fail">> \notin told =>
        /\ \A j \in 1..Coming : IsVerdict(At(j), "fail") => Elsewhere(j)
        /\ AtWork /\ current # Hello => Elsewhere(Coming)
        /\ AtWork /\ current = Hello =>
             pc = "verdict" \/ \E k \in 1..Coming : Opens(At(k))
        /\ checker = "save" => Passed(Coming)
        /\ checker = "list" =>
             Passed(Coming) \/ (pc # "verdict" /\ \A k \in 1..Coming : ~Opens(At(k)))
        /\ checker = "begin" => pc \in {"starting", "session"} /\ Coming = 0

\* The session is announced before anything else.
SessionFirst ==
    pc \in {"starting", "session"} =>
        IF Coming = 0 THEN checker \in {"begin", "gone"}
                      ELSE At(1).event \in {"session", "error"}

\* What the driver has seen by now.
Seen ==
    ~raised =>
        /\ pc \in {"waiting", "settle", "save", "written", "accepted", "advanced", "idle"}
           \/ Between \/ Second => <<"original", "fail">> \in told
        /\ pc \in {"advanced", "idle"} \/ Between \/ Second => <<"answer", "pass">> \in told
        /\ pc = "idle" \/ Between \/ Second => next # Hello /\ opened[1] = next
        /\ pc \in {"setup", "compare"} => before = {Hello}
        /\ pc = "restart" \/ Second => state = {Hello}
        /\ pc \in {"idle2", "close2", "listing", "pass"} => opened[2] = next

Inv ==
    /\ TypeOK /\ Cleanup /\ Sessions /\ Solved /\ Truth /\ PassTold /\ Announced
    /\ Original /\ FirstVerdict /\ SessionFirst /\ Seen

-----------------------------------------------------------------------------
(* What the driver waits for, one event after the other.                   *)

LEMMA Awaited ==
    DOMAIN Awaits = {"session", "exercise", "verdict", "waiting", "accepted", "advanced",
                     "idle", "session2", "resumed", "idle2"}
BY DEF Awaits

LEMMA WaitsFor ==
    /\ Awaits["session"] = "session"   /\ Awaits["exercise"] = "exercise"
    /\ Awaits["verdict"] = "verdict"   /\ Awaits["waiting"] = "waiting"
    /\ Awaits["accepted"] = "verdict"  /\ Awaits["advanced"] = "exercise"
    /\ Awaits["idle"] = "waiting"      /\ Awaits["session2"] = "session"
    /\ Awaits["resumed"] = "exercise"  /\ Awaits["idle2"] = "waiting"
BY DEF Awaits

LEMMA GoesOn ==
    /\ After["session"] = "exercise"   /\ After["exercise"] = "verdict"
    /\ After["verdict"] = "waiting"    /\ After["waiting"] = "settle"
    /\ After["accepted"] = "advanced"  /\ After["advanced"] = "idle"
    /\ After["idle"] = "close"         /\ After["session2"] = "resumed"
    /\ After["resumed"] = "idle2"      /\ After["idle2"] = "close2"
BY DEF After

-----------------------------------------------------------------------------
(* The events still to come.                                               *)

LEMMA AtType ==
    ASSUME TypeOK
    PROVE  Coming \in Nat /\ \A i \in 1..Coming : At(i) \in Events
<1>1. /\ queue \in Seq(Events) /\ pipe \in Seq(Events)
      /\ Len(queue) \in Nat /\ Len(pipe) \in Nat
  BY LenProperties DEF TypeOK
<1>2. ASSUME NEW i \in 1..Coming PROVE At(i) \in Events
  <2>1. CASE i <= Len(queue)
    <3>1. i \in 1..Len(queue)
      BY <1>1, <2>1 DEF Coming
    <3> QED BY <1>1, <2>1, <3>1, ElementOfSeq DEF At
  <2>2. CASE ~(i <= Len(queue))
    <3>1. i - Len(queue) \in 1..Len(pipe)
      BY <1>1, <2>2 DEF Coming
    <3> QED BY <1>1, <2>2, <3>1, ElementOfSeq DEF At
  <2> QED BY <2>1, <2>2
<1> QED BY <1>1, <1>2 DEF Coming

\* The checker says something.
LEMMA Grows ==
    ASSUME TypeOK, NEW e \in Events, pipe' = Append(pipe, e), queue' = queue
    PROVE  /\ Coming \in Nat /\ Coming' = Coming + 1
           /\ \A i \in 1..(Coming + 1) : At(i)' = IF i = Coming + 1 THEN e ELSE At(i)
<1>1. /\ queue \in Seq(Events) /\ pipe \in Seq(Events)
      /\ Len(queue) \in Nat /\ Len(pipe) \in Nat
  BY LenProperties DEF TypeOK
<1>2. /\ Len(pipe') = Len(pipe) + 1
      /\ \A i \in 1..Len(pipe) : pipe'[i] = pipe[i]
      /\ pipe'[Len(pipe) + 1] = e
  BY <1>1, AppendProperties
<1>3. Coming' = Coming + 1 /\ Coming \in Nat
  BY <1>1, <1>2 DEF Coming
<1>4. ASSUME NEW i \in 1..(Coming + 1)
      PROVE  At(i)' = IF i = Coming + 1 THEN e ELSE At(i)
  <2>1. CASE i <= Len(queue)
    BY <1>1, <2>1 DEF At, Coming
  <2>2. CASE ~(i <= Len(queue)) /\ i # Coming + 1
    <3>1. i - Len(queue) \in 1..Len(pipe)
      BY <1>1, <2>2 DEF Coming
    <3> QED BY <1>2, <2>2, <3>1 DEF At
  <2>3. CASE i = Coming + 1
    <3>1. i - Len(queue) = Len(pipe) + 1 /\ ~(i <= Len(queue))
      BY <1>1, <2>3 DEF Coming
    <3> QED BY <1>2, <2>3, <3>1 DEF At
  <2> QED BY <2>1, <2>2, <2>3
<1> QED BY <1>3, <1>4

\* The driver takes the first.
LEMMA Shrinks ==
    ASSUME TypeOK, queue # << >>, queue' = Tail(queue), pipe' = pipe
    PROVE  /\ Coming \in Nat /\ Coming >= 1 /\ Coming' = Coming - 1
           /\ At(1) = Head(queue) /\ Head(queue) \in Events
           /\ \A i \in 1..(Coming - 1) : At(i)' = At(i + 1)
<1>1. /\ queue \in Seq(Events) /\ pipe \in Seq(Events)
      /\ Len(queue) \in Nat \ {0} /\ Len(pipe) \in Nat
  BY LenProperties, EmptySeq DEF TypeOK
<1>2. /\ Len(queue') = Len(queue) - 1
      /\ \A i \in 1..(Len(queue) - 1) : queue'[i] = queue[i + 1]
      /\ Head(queue) \in Events /\ Head(queue) = queue[1]
  BY <1>1, HeadTailProperties
<1>3. Coming' = Coming - 1 /\ Coming \in Nat /\ Coming >= 1
  BY <1>1, <1>2 DEF Coming
<1>4. At(1) = Head(queue)
  BY <1>1, <1>2 DEF At
<1>5. ASSUME NEW i \in 1..(Coming - 1) PROVE At(i)' = At(i + 1)
  <2>1. CASE i <= Len(queue) - 1
    <3>1. i \in 1..(Len(queue) - 1) /\ i + 1 <= Len(queue) /\ i <= Len(queue')
      BY <1>1, <1>2, <2>1
    <3> QED BY <1>2, <3>1 DEF At
  <2>2. CASE ~(i <= Len(queue) - 1)
    <3>1. /\ ~(i + 1 <= Len(queue)) /\ ~(i <= Len(queue'))
          /\ i - Len(queue') = (i + 1) - Len(queue)
      BY <1>1, <1>2, <2>2 DEF Coming
    <3> QED BY <3>1 DEF At
  <2> QED BY <2>1, <2>2
<1> QED BY <1>2, <1>3, <1>4, <1>5

\* The thread moves one from the pipe to the queue.
LEMMA Moves ==
    ASSUME TypeOK, Read
    PROVE  Coming \in Nat /\ Coming' = Coming /\ \A i \in 1..Coming : At(i)' = At(i)
<1>1. /\ queue \in Seq(Events) /\ pipe \in Seq(Events)
      /\ Len(queue) \in Nat /\ Len(pipe) \in Nat \ {0}
  BY LenProperties, EmptySeq DEF TypeOK, Read
<1>2. /\ Len(pipe') = Len(pipe) - 1
      /\ \A i \in 1..(Len(pipe) - 1) : pipe'[i] = pipe[i + 1]
      /\ Head(pipe) \in Events /\ Head(pipe) = pipe[1]
  BY <1>1, HeadTailProperties DEF Read
<1>3. /\ Len(queue') = Len(queue) + 1
      /\ \A i \in 1..Len(queue) : queue'[i] = queue[i]
      /\ queue'[Len(queue) + 1] = pipe[1]
  BY <1>1, <1>2, AppendProperties DEF Read
<1>4. Coming' = Coming /\ Coming \in Nat
  BY <1>1, <1>2, <1>3 DEF Coming
<1>5. ASSUME NEW i \in 1..Coming PROVE At(i)' = At(i)
  <2>1. CASE i <= Len(queue)
    <3>1. i \in 1..Len(queue) /\ i <= Len(queue')
      BY <1>1, <1>3, <2>1
    <3> QED BY <1>3, <2>1, <3>1 DEF At
  <2>2. CASE i = Len(queue) + 1
    <3>1. i <= Len(queue') /\ ~(i <= Len(queue)) /\ i - Len(queue) = 1
      BY <1>1, <1>3, <2>2
    <3> QED BY <1>3, <2>2, <3>1 DEF At
  <2>3. CASE i > Len(queue) + 1
    <3>1. /\ ~(i <= Len(queue')) /\ ~(i <= Len(queue))
          /\ i - Len(queue') \in 1..(Len(pipe) - 1)
          /\ i - Len(queue) = (i - Len(queue')) + 1
      BY <1>1, <1>3, <2>3 DEF Coming
    <3> QED BY <1>2, <3>1 DEF At
  <2> QED BY <1>1, <2>1, <2>2, <2>3
<1> QED BY <1>4, <1>5

-----------------------------------------------------------------------------
(* Types.                                                                  *)

LEMMA EventTypes ==
    /\ \A total \in BOOLEAN, n \in 0..NumExercises :
         [event |-> "session", total |-> total, completed |-> n] \in Events
    /\ \A x \in Exercises : [event |-> "exercise", id |-> x] \in Events
    /\ \A o \in Outcomes : [event |-> "verdict", outcome |-> o] \in Events
    /\ \A k \in {"waiting", "done", "error"} : [event |-> k] \in Events
BY DEF Events

LEMMA CompletedCount ==
    ASSUME Solved
    PROVE  Cardinality(Completed) \in 0..NumExercises
<1>1. Completed \in {{}, {Hello}}
  BY DEF Solved, Completed, NoState, Hello
<1>2. Cardinality({}) = 0 /\ Cardinality({Hello}) = 1
  BY FS_EmptySet, FS_Singleton
<1>3. 0 \in 0..NumExercises /\ 1 \in 0..NumExercises
  BY FirstRunAssumption
<1> QED BY <1>1, <1>2, <1>3

\* An event that fits in is one of Events, and the bound holds.
LEMMA Emitted ==
    ASSUME TypeOK, NEW e \in Events, Emit(e), queue' = queue
    PROVE  pipe' \in Seq(Events) /\ Len(pipe') + Len(queue') <= MaxEvents
<1>1. /\ queue \in Seq(Events) /\ pipe \in Seq(Events)
      /\ Len(queue) \in Nat /\ Len(pipe) \in Nat
  BY LenProperties DEF TypeOK
<1>2. pipe' \in Seq(Events) /\ Len(pipe') = Len(pipe) + 1
  BY <1>1, AppendProperties DEF Emit
<1> QED BY <1>1, <1>2, FirstRunAssumption DEF Emit

LEMMA TypesOfInit == Init => TypeOK
<1> SUFFICES ASSUME Init PROVE TypeOK
  OBVIOUS
<1> USE FirstRunAssumption
<1>1. Hello \in Exercises
  BY DEF Hello, Exercises
<1>2. queue \in Seq(Events) /\ pipe \in Seq(Events) /\ Len(pipe) + Len(queue) <= MaxEvents
  BY EmptySeq DEF Init
<1>3. verdictOf \in [Contents -> Outcomes]
  BY DEF Init, Outcomes
<1>4. session \in 0..2 /\ opened \in [1..2 -> 0..NumExercises]
  BY DEF Init
<1>5. told \subseteq Contents \X Outcomes
  BY DEF Init
<1>6. hello \in Contents /\ judged \in Contents /\ snapshot \in Contents
  BY DEF Init, Contents
<1> QED BY <1>1, <1>2, <1>3, <1>4, <1>5, <1>6 DEF Init, TypeOK

Labels ==
    {"start", "starting", "restarting", "session", "exercise", "verdict", "waiting", "settle", "save", "written",
     "accepted", "advanced", "idle", "close", "restore", "progress", "setup", "compare",
     "restart", "session2", "resumed", "idle2", "close2", "listing", "pass", "failed"}

LEMMA LabelsAreAll ==
    Labels = DOMAIN Awaits \cup {"start", "starting", "settle", "save", "written",
                 "close", "restore", "progress", "setup", "compare", "restart",
                 "restarting", "close2", "listing", "pass", "failed"}
BY Awaited DEF Labels

LEMMA Raising ==
    ASSUME Raise
    PROVE  /\ raised' = TRUE
           /\ InFirstTry => pc' = "close"
           /\ InSecondTry => pc' = "close2"
           /\ ~InFirstTry /\ ~InSecondTry => pc' = "failed"
BY DEF Raise, InFirstTry, InSecondTry

LEMMA RaiseTypes ==
    ASSUME Raise
    PROVE  pc' \in Labels /\ raised' \in BOOLEAN
BY Raising DEF Labels

LEMMA GotoTypes ==
    ASSUME TypeOK, NEW l \in Labels, Goto(l)
    PROVE  pc' \in Labels /\ raised' \in BOOLEAN
BY DEF Goto, TypeOK

\* The driver's steps that leave the events alone, and the checker's work.
QuietStep ==
    \/ ExitedEarly \/ Deadline \/ Settle \/ Save \/ Close \/ Restore \/ Progress
    \/ Setup \/ Compare \/ Listing \/ Interrupt \/ Terminate

LEMMA QuietLabels ==
    ASSUME TypeOK, QuietStep
    PROVE  pc' \in Labels /\ raised' \in BOOLEAN
<1> USE RaiseTypes, GotoTypes
<1>1. \A l \in {"save", "written", "accepted", "failed", "restore", "listing", "progress",
                 "setup", "compare", "restart", "pass"} : l \in Labels
  BY DEF Labels
<1>2. CASE ExitedEarly \/ Deadline \/ Interrupt \/ Terminate
  BY <1>1, <1>2 DEF ExitedEarly, Deadline, Interrupt, Terminate
<1>3. CASE Settle \/ Save
  BY <1>1, <1>3 DEF Settle, Save
<1>4. CASE Close \/ Restore
  BY <1>1, <1>4 DEF Close, Restore
<1>5. CASE Progress
  BY <1>1, <1>5 DEF Progress
<1>6. CASE Setup \/ Listing
  BY <1>1, <1>6 DEF Setup, Listing
<1>7. CASE Compare
  BY <1>1, <1>7 DEF Compare
<1> QED BY <1>2, <1>3, <1>4, <1>5, <1>6, <1>7 DEF QuietStep

LEMMA TypesQuiet ==
    ASSUME TypeOK, QuietStep
    PROVE  TypeOK'
<1>1. pc' \in Labels /\ raised' \in BOOLEAN
  BY QuietLabels
<1>2. /\ UNCHANGED <<next, queue, pipe, current, judged, snapshot, verdictOf, truth>>
      /\ state' \in {state, NoState, {}} /\ before' \in {before, state}
      /\ hello' \in {hello, "original", "half", "answer"}
      /\ checker' \in {checker, "gone"}
      /\ cut' \in BOOLEAN /\ orphan' \in BOOLEAN
  <2>1. CASE ExitedEarly \/ Deadline \/ Interrupt \/ Terminate
    BY <2>1 DEF ExitedEarly, Deadline, Interrupt, Terminate, d2x, TypeOK
  <2>2. CASE Settle \/ Save \/ Restore
    BY <2>2 DEF Settle, Save, Restore, d2x, TypeOK
  <2>3. CASE Close
    BY <2>3 DEF Close, TypeOK
  <2>4. CASE Progress \/ Setup \/ Compare \/ Listing
    BY <2>4 DEF Progress, Setup, Compare, Listing, d2x, TypeOK
  <2> QED BY <2>1, <2>2, <2>3, <2>4 DEF QuietStep
<1>3. hello' \in Contents
  BY <1>2 DEF TypeOK, Contents
<1>4. state' \in (SUBSET Exercises) \cup {NoState}
      /\ before' \in (SUBSET Exercises) \cup {NoState}
  BY <1>2 DEF TypeOK
<1>5. UNCHANGED <<session, opened, told>>
  BY <1>2 DEF truth
<1> QED BY <1>1, <1>2, <1>3, <1>4, <1>5, LabelsAreAll DEF TypeOK

LEMMA EventFields ==
    ASSUME NEW e \in Events
    PROVE  /\ e.event \in {"session", "exercise", "verdict", "waiting", "done", "error"}
           /\ e.event = "exercise" => e.id \in Exercises
           /\ e.event = "verdict" => e.outcome \in Outcomes
BY DEF Events

LEMMA TypesUntil ==
    ASSUME TypeOK, Until
    PROVE  TypeOK'
<1>1. /\ queue \in Seq(Events) /\ pipe \in Seq(Events)
      /\ Len(queue) \in Nat \ {0} /\ Len(pipe) \in Nat
  BY LenProperties, EmptySeq DEF TypeOK, Until
<1>2. /\ queue' \in Seq(Events) /\ Len(queue') = Len(queue) - 1 /\ pipe' = pipe
      /\ Head(queue) \in Events
  BY <1>1, HeadTailProperties DEF Until
<1>3. pipe' \in Seq(Events) /\ Len(pipe') + Len(queue') <= MaxEvents
  BY <1>1, <1>2, FirstRunAssumption DEF TypeOK
<1>4. ASSUME pc \in DOMAIN Awaits PROVE After[pc] \in Labels
  BY <1>4, Awaited, GoesOn DEF Labels
<1>5. pc' \in Labels /\ raised' \in BOOLEAN
  <2>1. CASE Raise
    BY <2>1, RaiseTypes
  <2>2. CASE Goto(After[pc])
    BY <2>2, <1>4, GotoTypes DEF Until
  <2>3. CASE UNCHANGED <<pc, raised>>
    BY <2>3, LabelsAreAll DEF TypeOK
  <2> QED BY <2>1, <2>2, <2>3 DEF Until
<1>6. next' \in Exercises
  <2>1. CASE next' = next
    BY <2>1 DEF TypeOK
  <2>2. CASE pc = "advanced" /\ Head(queue).event = Awaits[pc] /\ next' = Head(queue).id
    BY <2>2, <1>2, WaitsFor, EventFields
  <2> QED BY <2>1, <2>2 DEF Until
<1> QED BY <1>2, <1>3, <1>5, <1>6, LabelsAreAll DEF Until, TypeOK, d2x, truth

\* Only the place in main() changes between the start of a checker and its try.
LEMMA Enters ==
    ASSUME EnterTry
    PROVE  /\ UNCHANGED <<raised, before, next, queue, hello, state, pipe, checker, current,
                          judged, snapshot, verdictOf, session, opened, told, cut, orphan>>
           /\ \/ pc = "starting" /\ pc' = "session"
              \/ pc = "restarting" /\ pc' = "session2"
BY DEF EnterTry, InChecker, Goto, d2x, truth

LEMMA TypesEnter ==
    ASSUME TypeOK, EnterTry
    PROVE  TypeOK'
<1>1. pc' \in Labels
  BY Enters DEF Labels
<1> QED BY <1>1, Enters, LabelsAreAll DEF TypeOK

LEMMA TypesRead ==
    ASSUME TypeOK, Read
    PROVE  TypeOK'
<1>1. /\ queue \in Seq(Events) /\ pipe \in Seq(Events)
      /\ Len(queue) \in Nat /\ Len(pipe) \in Nat \ {0}
  BY LenProperties, EmptySeq DEF TypeOK, Read
<1>2. /\ pipe' \in Seq(Events) /\ Len(pipe') = Len(pipe) - 1 /\ Head(pipe) \in Events
  BY <1>1, HeadTailProperties DEF Read
<1>3. queue' \in Seq(Events) /\ Len(queue') = Len(queue) + 1
  BY <1>1, <1>2, AppendProperties DEF Read
<1>4. Len(pipe') + Len(queue') <= MaxEvents
  BY <1>1, <1>2, <1>3, FirstRunAssumption DEF TypeOK
<1> QED BY <1>2, <1>3, <1>4 DEF Read, TypeOK, driver, d2x, truth

LEMMA TypesStart ==
    ASSUME TypeOK, Sessions, Start
    PROVE  TypeOK'
<1>1. pc' \in Labels /\ raised' \in BOOLEAN
  <2>1. "starting" \in Labels /\ "restarting" \in Labels
    BY DEF Labels
  <2> QED BY <2>1, RaiseTypes, GotoTypes DEF Start
<1>2. session' \in 0..2
  BY DEF TypeOK, Sessions, Start, Between
<1>3. queue' \in Seq(Events) /\ pipe' \in Seq(Events) /\ Len(pipe') + Len(queue') <= MaxEvents
  <2>1. CASE UNCHANGED <<queue, pipe>>
    BY <2>1 DEF TypeOK
  <2>2. CASE queue' = << >> /\ pipe' = << >>
    BY <2>2, EmptySeq, FirstRunAssumption
  <2> QED BY <2>1, <2>2 DEF Start
<1>4. checker' \in {checker, "begin"}
  BY DEF Start
<1> QED BY <1>1, <1>2, <1>3, <1>4, LabelsAreAll DEF Start, TypeOK

\* What a step of the checker emits, if it emits.
Said ==
    {[event |-> "session", total |-> total, completed |-> n] :
        total \in BOOLEAN, n \in {0, Cardinality(Completed)}}
    \cup {[event |-> "exercise", id |-> x] : x \in Exercises}
    \cup {[event |-> "verdict", outcome |-> o] : o \in Outcomes}
    \cup {[event |-> k] : k \in {"waiting", "done", "error"}}

LEMMA SaidAreEvents ==
    ASSUME Solved
    PROVE  Said \subseteq Events
BY EventTypes, CompletedCount, FirstRunAssumption DEF Said

LEMMA OutcomeOf ==
    ASSUME TypeOK
    PROVE  (IF current = Hello THEN verdictOf[judged] ELSE "fail") \in Outcomes
BY DEF TypeOK, Outcomes

LEMMA CheckerTypes ==
    ASSUME TypeOK, Solved, CheckerStep
    PROVE  /\ UNCHANGED <<pc, raised, before, next, queue, hello, verdictOf, session, cut,
                        orphan>>
           /\ pipe' = pipe \/ \E e \in Said : Emit(e)
           /\ current' \in Exercises
           /\ judged' \in {judged, hello} /\ snapshot' \in {snapshot, hello}
           /\ checker' \in {"gone", "list", "check", "judge", "save", "wait", "resync",
                            "watch"}
           /\ state' \in {state, Completed \cup {current}}
           /\ opened' = opened \/ \E x \in Exercises : opened' = [opened EXCEPT ![session] = x]
           /\ told' = told \/ \E o \in Outcomes : told' = told \cup {<<judged, o>>}
<1>1. UNCHANGED <<pc, raised, before, next, queue, hello, verdictOf, session, cut,
                        orphan>>
  BY DEF CheckerStep, driver
<1>2. CASE Begin
  <2>1. PICK total \in BOOLEAN, n \in {0, Cardinality(Completed)} :
           Emit([event |-> "session", total |-> total, completed |-> n])
    BY <1>2 DEF Begin
  <2>2. [event |-> "session", total |-> total, completed |-> n] \in Said
    BY DEF Said
  <2>3. \E e \in Said : Emit(e)
    BY <2>1, <2>2
  <2> QED BY <1>1, <1>2, <2>3 DEF Begin, TypeOK
<1>3. CASE Open
  <2>1. CASE Emit([event |-> "done"]) /\ UNCHANGED <<current, opened>> /\ checker' = "gone"
    <3>1. \E e \in Said : Emit(e)
      BY <2>1 DEF Said
    <3> QED BY <1>1, <1>3, <2>1, <3>1 DEF Open, TypeOK
  <2>2. ASSUME NEW x \in Exercises, current' = x, checker' = "check",
               opened' = [opened EXCEPT ![session] = x],
               Emit([event |-> "exercise", id |-> x])
        PROVE  /\ \E e \in Said : Emit(e)
               /\ current' \in Exercises /\ checker' = "check"
               /\ \E y \in Exercises : opened' = [opened EXCEPT ![session] = y]
    <3>1. [event |-> "exercise", id |-> x] \in Said
      BY DEF Said
    <3>2. \E e \in Said : Emit(e)
      BY <2>2, <3>1
    <3> QED BY <2>2, <3>2
  <2> QED BY <1>1, <1>3, <2>1, <2>2 DEF Open
<1>4. CASE Check \/ Resync \/ Watch
  BY <1>1, <1>4 DEF Check, Resync, Watch, TypeOK
<1>5. CASE Judge
  <2> DEFINE outcome == IF current = Hello THEN verdictOf[judged] ELSE "fail"
  <2>1. outcome \in Outcomes
    BY OutcomeOf
  <2>2. Emit([event |-> "verdict", outcome |-> outcome])
    BY <1>5 DEF Judge
  <2>3. \E e \in Said : Emit(e)
    BY <2>1, <2>2 DEF Said
  <2>4. told' = told \/ \E o \in Outcomes : told' = told \cup {<<judged, o>>}
    BY <1>5, <2>1 DEF Judge
  <2> QED BY <1>1, <1>5, <2>3, <2>4 DEF Judge, TypeOK
<1>6. CASE SaveProgress
  BY <1>1, <1>6 DEF SaveProgress, TypeOK
<1>7. CASE Wait
  <2>1. \E e \in Said : Emit(e)
    BY <1>7 DEF Wait, Said
  <2> QED BY <1>1, <1>7, <2>1 DEF Wait, TypeOK
<1>8. CASE GoWrong
  <2>1. pipe' = pipe \/ \E e \in Said : Emit(e)
    BY <1>8 DEF GoWrong, Said
  <2> QED BY <1>1, <1>8, <2>1 DEF GoWrong, TypeOK
<1> QED BY <1>2, <1>3, <1>4, <1>5, <1>6, <1>7, <1>8 DEF CheckerStep

LEMMA TypesChecker ==
    ASSUME TypeOK, Solved, CheckerStep
    PROVE  TypeOK'
<1> USE CheckerTypes
<1>1. pipe' \in Seq(Events) /\ Len(pipe') + Len(queue') <= MaxEvents
  BY SaidAreEvents, Emitted DEF TypeOK
<1>2. judged' \in Contents /\ snapshot' \in Contents
  BY DEF TypeOK
<1>3. state' \in (SUBSET Exercises) \cup {NoState}
  BY DEF TypeOK, Completed
<1>4. opened' \in [1..2 -> 0..NumExercises]
  <2>1. Exercises \subseteq 0..NumExercises
    BY FirstRunAssumption DEF Exercises
  <2> QED BY <2>1 DEF TypeOK
<1>5. told' \subseteq Contents \X Outcomes
  BY DEF TypeOK
<1> QED BY <1>1, <1>2, <1>3, <1>4, <1>5 DEF TypeOK

LEMMA TypesKept ==
    ASSUME TypeOK, Sessions, Solved, [Next]_vars
    PROVE  TypeOK'
<1>1. CASE UNCHANGED vars
  BY <1>1 DEF TypeOK, vars, driver, d2x, truth
<1> QED BY <1>1, TypesQuiet, TypesUntil, TypesRead, TypesStart, TypesEnter, TypesChecker
        DEF Next, DriverStep, QuietStep

-----------------------------------------------------------------------------
(* What does not depend on the events.                                     *)

\* Where until leads.
LEMMA Leads ==
    ASSUME Until
    PROVE  /\ UNCHANGED <<before, hello, state, pipe, checker, current, judged, snapshot,
                          verdictOf, session, opened, told, cut, orphan>>
           /\ InFirstTry \/ InSecondTry
           /\ \/ pc' = pc /\ raised' = raised
              \/ InFirstTry /\ pc' = "close" /\ raised' = TRUE
              \/ InSecondTry /\ pc' = "close2" /\ raised' = TRUE
              \/ /\ raised' = raised
                 /\ \/ pc = "session" /\ pc' = "exercise"
                    \/ pc = "exercise" /\ pc' = "verdict"
                    \/ pc = "verdict" /\ pc' = "waiting"
                    \/ pc = "waiting" /\ pc' = "settle"
                    \/ pc = "accepted" /\ pc' = "advanced"
                    \/ pc = "advanced" /\ pc' = "idle"
                    \/ pc = "idle" /\ pc' = "close"
                    \/ pc = "session2" /\ pc' = "resumed"
                    \/ pc = "resumed" /\ pc' = "idle2"
                    \/ pc = "idle2" /\ pc' = "close2"
<1>1. UNCHANGED <<before, hello, state, pipe, checker, current, judged, snapshot,
                  verdictOf, session, opened, told, cut, orphan>>
  BY DEF Until, d2x, truth
<1>2. pc \in DOMAIN Awaits
  BY DEF Until
<1>3. \/ Raise
      \/ pc' = pc /\ raised' = raised
      \/ pc' = After[pc] /\ raised' = raised
  BY DEF Until, Goto
<1>4. CASE Raise
  BY <1>1, <1>2, <1>4, Raising, Awaited DEF InFirstTry, InSecondTry
<1>5. InFirstTry \/ InSecondTry
  BY <1>2, Awaited DEF InFirstTry, InSecondTry
<1>6. CASE pc' = After[pc] /\ raised' = raised
  BY <1>1, <1>2, <1>5, <1>6, Awaited, GoesOn
<1> QED BY <1>1, <1>3, <1>4, <1>5, <1>6

\* How a wait ends otherwise, and what an interrupt or a kill leads to.
LEMMA Breaks ==
    ASSUME TypeOK, ExitedEarly \/ Deadline \/ Interrupt \/ Terminate
    PROVE  /\ UNCHANGED <<before, next, queue, hello, state, pipe, checker, current, judged,
                          snapshot, verdictOf, session, opened, told>>
           /\ \/ pc' = IF InFirstTry THEN "close" ELSE IF InSecondTry THEN "close2" ELSE "failed"
              \/ pc' = "failed" /\ cut' = TRUE
           /\ raised' = TRUE
           /\ cut' = cut \/ cut' = TRUE
           /\ pc \in {"close", "restore", "close2"} => cut' = TRUE
           /\ orphan => orphan'
           /\ InChecker => orphan' \/ cut' = TRUE
<1>1. CASE ExitedEarly \/ Deadline
  <2>1. /\ Raise /\ pc \in DOMAIN Awaits
        /\ UNCHANGED <<before, next, queue, hello, state, pipe, d2x, verdictOf, truth, cut,
                       orphan>>
    BY <1>1 DEF ExitedEarly, Deadline
  <2>2. pc \notin {"close", "restore", "close2"} /\ ~InChecker
    BY <2>1, Awaited DEF InChecker
  <2> QED BY <2>1, <2>2, Raising DEF d2x, truth
<1>2. CASE Interrupt
  BY <1>2, Raising DEF Interrupt, d2x, truth, TypeOK
<1>3. CASE Terminate
  BY <1>3 DEF Terminate, d2x, truth
<1> QED BY <1>1, <1>2, <1>3

\* The driver's steps from one label to the next, and how they fail.
LEMMA Turns ==
    ASSUME Settle \/ Save \/ Restore \/ Progress \/ Setup \/ Compare \/ Listing
    PROVE  /\ UNCHANGED <<next, queue, pipe, checker, current, judged, verdictOf, session,
                          opened, told, cut, orphan>>
           /\ \/ /\ raised' = raised
                 /\ \/ pc = "settle" /\ pc' = "save"
                    \/ pc = "save" /\ pc' = "written"
                    \/ pc = "written" /\ pc' = "accepted"
                    \/ pc = "restore" /\ raised /\ pc' = "failed"
                    \/ pc = "restore" /\ ~raised /\ pc' = "progress"
                    \/ pc = "progress" /\ pc' = "setup"
                    \/ pc = "setup" /\ pc' = "compare"
                    \/ pc = "compare" /\ pc' = "restart"
                    \/ pc = "listing" /\ pc' = "pass"
              \/ /\ raised' = TRUE
                 /\ pc \in {"progress", "setup", "compare", "listing"} /\ pc' = "failed"
           /\ hello' = IF pc = "save" THEN "half" ELSE IF pc = "written" THEN "answer"
                       ELSE IF pc = "restore" THEN "original" ELSE hello
<1> USE DEF d2x, truth, Goto, InFirstTry, InSecondTry
<1>1. CASE Settle \/ Save \/ Restore
  BY <1>1 DEF Settle, Save, Restore
<1>2. CASE Progress
  BY <1>2, Raising DEF Progress
<1>3. CASE Setup
  BY <1>3, Raising DEF Setup
<1>4. CASE Compare
  BY <1>4, Raising DEF Compare
<1>5. CASE Listing
  BY <1>5, Raising DEF Listing
<1> QED BY <1>1, <1>2, <1>3, <1>4, <1>5

LEMMA CleanupKept ==
    ASSUME TypeOK, Cleanup, [Next]_vars
    PROVE  Cleanup'
<1> USE DEF Cleanup, InFirstTry, InSecondTry, InChecker
<1>1. CASE UNCHANGED vars
  BY <1>1 DEF vars, driver, d2x
<1>2. CASE Start
  BY <1>2, Raising DEF Start, Goto
<1>3. CASE Until
  BY <1>3, Leads
<1>4. CASE ExitedEarly \/ Deadline \/ Interrupt \/ Terminate
  BY <1>4, Breaks
<1>5. CASE Settle \/ Save \/ Restore \/ Progress \/ Setup \/ Compare \/ Listing
  BY <1>5, Turns
<1>6. CASE Close
  BY <1>6, Raising DEF Close, Goto
<1>7. CASE Read
  BY <1>7 DEF Read, driver, d2x
<1>8. CASE CheckerStep
  <2>1. checker \notin {"off", "gone"}
    BY <1>8 DEF CheckerStep, Begin, Open, Check, Judge, SaveProgress, Wait, Resync, Watch,
                 GoWrong
  <2> QED BY <1>8, <2>1 DEF CheckerStep, driver
<1>9. CASE EnterTry
  BY <1>9, Enters
<1> QED BY <1>1, <1>2, <1>3, <1>4, <1>5, <1>6, <1>7, <1>8, <1>9
        DEF Next, DriverStep

LEMMA SessionsKept ==
    ASSUME TypeOK, Sessions, Solved, [Next]_vars
    PROVE  Sessions'
<1> USE DEF InFirstTry, InSecondTry, Between, Second
<1>1. CASE UNCHANGED vars
  BY <1>1 DEF vars, driver, d2x, truth, Sessions
<1>2. CASE Start
  <2>1. CASE pc = "start" /\ Raise /\ UNCHANGED <<checker, session>>
    BY <1>2, <2>1, Raising DEF Start, Sessions
  <2>2. CASE pc = "start" /\ Goto("starting") /\ checker' = "begin" /\ session' = session + 1
    BY <1>2, <2>2 DEF Start, Sessions, Goto
  <2>3. CASE pc = "restart" /\ Goto("restarting") /\ checker' = "begin" /\ session' = session + 1
    BY <1>2, <2>3 DEF Start, Sessions, Goto
  <2> QED BY <1>2, <2>1, <2>2, <2>3 DEF Start
<1>3. CASE Until
  <2>1. UNCHANGED <<session, opened, checker>>
    BY <1>3, Leads
  <2>2. pc' # "start" /\ (raised' => pc' \in {"close", "restore", "close2", "failed"})
    <3>1. raised \in BOOLEAN /\ raised' \in BOOLEAN
      BY TypesKept DEF TypeOK
    <3> QED BY <1>3, <3>1, Leads DEF Sessions
  <2>3. pc' = "starting" \/ InFirstTry' \/ Between' => InFirstTry \/ Between
    BY <1>3, Leads
  <2>4. Second' => Second
    BY <1>3, Leads
  <2> QED BY <2>1, <2>2, <2>3, <2>4 DEF Sessions
<1>4. CASE ExitedEarly \/ Deadline \/ Interrupt \/ Terminate
  BY <1>4, Breaks DEF Sessions
<1>5. CASE Settle \/ Save \/ Restore \/ Progress \/ Setup \/ Compare \/ Listing
  <2>1. UNCHANGED <<session, opened, checker>>
    BY <1>5, Turns
  <2>2. pc' # "start" /\ (raised' => pc' \in {"close", "restore", "close2", "failed"})
    <3>1. raised \in BOOLEAN /\ raised' \in BOOLEAN
      BY TypesKept DEF TypeOK
    <3> QED BY <1>5, <3>1, Turns DEF Sessions
  <2>3. pc' = "starting" \/ InFirstTry' \/ Between' => InFirstTry \/ Between
    BY <1>5, Turns
  <2>4. Second' => Second
    BY <1>5, Turns
  <2> QED BY <2>1, <2>2, <2>3, <2>4 DEF Sessions
<1>6. CASE Close
  <2>1. UNCHANGED <<session, opened>> /\ (checker' = checker \/ checker' = "gone")
    BY <1>6 DEF Close, truth
  <2>2. session \in {1, 2} /\ checker # "off"
    BY <1>6, <2>1 DEF Close, Sessions
  <2>3. checker' # "off"
    BY <2>1, <2>2
  <2>4. /\ pc \in {"close", "close2"}
        /\ \/ pc = "close" /\ pc' = "restore" /\ raised' = raised
           \/ pc = "close2" /\ raised /\ pc' = "failed" /\ raised' = raised
           \/ pc = "close2" /\ ~raised /\ pc' = "listing" /\ raised' = raised
           \/ pc' = "failed"
    BY <1>6, Raising DEF Close, Goto
  <2> QED BY <2>1, <2>2, <2>3, <2>4 DEF Sessions
<1>7. CASE Read
  BY <1>7 DEF Read, driver, d2x, truth, Sessions
<1>8. CASE CheckerStep
  <2>1. checker \notin {"off", "gone"}
    BY <1>8 DEF CheckerStep, Begin, Open, Check, Judge, SaveProgress, Wait, Resync, Watch,
                 GoWrong
  <2>2. session \in 1..2 /\ checker' # "off"
    BY <1>8, <2>1, CheckerTypes DEF Sessions, TypeOK
  <2>3. UNCHANGED <<pc, raised, session>>
    BY <1>8, CheckerTypes
  <2>4. \A s \in 1..2 : s > session => opened'[s] = opened[s]
    BY <1>8, <2>2, CheckerTypes DEF TypeOK
  <2> QED BY <2>1, <2>2, <2>3, <2>4 DEF Sessions
<1>9. CASE EnterTry
  BY <1>9, Enters DEF Sessions
<1> QED BY <1>1, <1>2, <1>3, <1>4, <1>5, <1>6, <1>7, <1>8, <1>9
        DEF Next, DriverStep

LEMMA SolvedKept ==
    ASSUME TypeOK, Solved, [Next]_vars
    PROVE  Solved'
<1> USE DEF Solved
<1>1. CASE UNCHANGED vars
  BY <1>1 DEF vars, d2x
<1>2. CASE Start
  BY <1>2 DEF Start
<1>3. CASE Until \/ ExitedEarly \/ Deadline \/ Interrupt \/ Terminate \/ Read \/ EnterTry
  BY <1>3, Leads, Breaks, Enters DEF Read, d2x
<1>4. CASE Close \/ Settle \/ Save \/ Restore \/ Progress \/ Compare \/ Listing
  BY <1>4 DEF Close, Settle, Save, Restore, Progress, Compare, Listing, d2x
<1>5. CASE Setup
  BY <1>5 DEF Setup, d2x
<1>6. CASE CheckerStep
  <2>1. CASE Begin \/ Open \/ Check \/ Wait \/ Resync \/ Watch \/ GoWrong
    BY <2>1 DEF Begin, Open, Check, Wait, Resync, Watch, GoWrong
  <2>2. CASE Judge
    BY <2>2 DEF Judge
  <2>3. CASE SaveProgress
    BY <2>3 DEF SaveProgress, Completed
  <2> QED BY <1>6, <2>1, <2>2, <2>3 DEF CheckerStep
<1> QED BY <1>1, <1>2, <1>3, <1>4, <1>5, <1>6 DEF Next, DriverStep

LEMMA TruthKept ==
    ASSUME TypeOK, Truth, [Next]_vars
    PROVE  Truth'
<1>1. CASE UNCHANGED <<verdictOf, told>>
  BY <1>1 DEF Truth
<1>2. CASE \/ UNCHANGED vars \/ Start \/ EnterTry \/ Until \/ ExitedEarly \/ Deadline
           \/ Interrupt \/ Terminate \/ Read
  BY <1>1, <1>2, Leads, Breaks, Enters DEF vars, Start, Read, truth
<1>3. CASE Close \/ Settle \/ Save \/ Restore \/ Progress \/ Setup \/ Compare \/ Listing
  BY <1>1, <1>3, Turns DEF Close, truth
<1>4. CASE CheckerStep
  <2>1. CASE Begin \/ Open \/ Check \/ Wait \/ Resync \/ Watch \/ GoWrong \/ SaveProgress
    BY <1>1, <1>4, <2>1, CheckerTypes
       DEF CheckerStep, Begin, Open, Check, Wait, Resync, Watch, GoWrong, SaveProgress
  <2>2. CASE Judge
    BY <1>4, <2>2 DEF CheckerStep, Judge, Truth
  <2> QED BY <1>4, <2>1, <2>2 DEF CheckerStep
<1> QED BY <1>2, <1>3, <1>4 DEF Next, DriverStep

LEMMA OriginalKept ==
    ASSUME TypeOK, Original, [Next]_vars
    PROVE  Original'
<1> USE DEF Original
<1>1. CASE UNCHANGED vars \/ Read
  BY <1>1 DEF vars, driver, d2x, Read
<1>2. CASE Start \/ EnterTry
  BY <1>2, Raising, Enters DEF Start, Goto, InFirstTry, InSecondTry
<1>3. CASE Until
  BY <1>3, Leads DEF InFirstTry, InSecondTry
<1>4. CASE ExitedEarly \/ Deadline \/ Interrupt \/ Terminate
  BY <1>4, Breaks
<1>5. CASE Settle \/ Save \/ Restore \/ Progress \/ Setup \/ Compare \/ Listing
  BY <1>5, Turns
<1>6. CASE Close
  BY <1>6, Raising DEF Close, Goto
<1>7. CASE CheckerStep
  <2>1. CASE Check
    BY <1>7, <2>1 DEF CheckerStep, Check, driver
  <2>2. CASE UNCHANGED judged
    BY <1>7, <2>2 DEF CheckerStep, driver
  <2>3. Check \/ UNCHANGED judged
    BY <1>7 DEF CheckerStep, Begin, Open, Judge, Wait, Resync, Watch, GoWrong, SaveProgress
  <2> QED BY <2>1, <2>2, <2>3
<1> QED BY <1>1, <1>2, <1>3, <1>4, <1>5, <1>6, <1>7 DEF Next, DriverStep

-----------------------------------------------------------------------------
(* The four ways in which a step may touch the events to come: it leaves   *)
(* them, takes the first, adds one, or starts anew.                        *)

Still == Coming' = Coming /\ \A i \in 1..Coming : At(i)' = At(i)

Added(e) ==
    /\ Coming' = Coming + 1
    /\ \A i \in 1..(Coming + 1) : At(i)' = IF i = Coming + 1 THEN e ELSE At(i)

Taken ==
    /\ Coming >= 1 /\ Coming' = Coming - 1
    /\ \A i \in 1..(Coming - 1) : At(i)' = At(i + 1)

\* An event and the checker's step that emits it.
Emits(e) ==
    \/ Begin /\ e.event = "session"
    \/ /\ Open /\ e.event = "exercise" /\ e.id = current' /\ checker' = "check"
       /\ opened' = [opened EXCEPT ![session] = e.id]
    \/ /\ Open /\ e.event = "done" /\ checker' = "gone"
       /\ UNCHANGED <<current, opened>>
    \/ /\ Judge /\ e.event = "verdict"
       /\ e.outcome = IF current = Hello THEN verdictOf[judged] ELSE "fail"
    \/ Wait /\ e.event = "waiting"
    \/ GoWrong /\ e.event = "error"

LEMMA StillUnchanged ==
    ASSUME TypeOK, UNCHANGED <<queue, pipe>>
    PROVE  Still
BY AtType DEF Still, Coming, At

LEMMA Quiet ==
    ASSUME TypeOK, QuietStep
    PROVE  Still /\ UNCHANGED <<current, session, opened, told>>
<1>1. UNCHANGED <<queue, pipe, current, session, opened, told>>
  BY Breaks, Turns DEF QuietStep, Close, truth
<1> QED BY <1>1, StillUnchanged

LEMMA EntersStill ==
    ASSUME TypeOK, EnterTry
    PROVE  Still /\ UNCHANGED <<current, checker, session, opened, told>>
BY Enters, StillUnchanged

LEMMA CheckerEmits ==
    ASSUME TypeOK, Solved, CheckerStep
    PROVE  \/ /\ Still /\ UNCHANGED <<opened, told>>
              /\ Check \/ SaveProgress \/ Resync \/ Watch \/ GoWrong
           \/ \E e \in Events : Added(e) /\ Emits(e)
<1>1. queue' = queue
  BY DEF CheckerStep
<1>2. ASSUME NEW e \in Events, Emit(e) PROVE Added(e)
  BY <1>1, <1>2, Grows DEF Emit, Added
<1>3. CASE UNCHANGED pipe /\ (Check \/ SaveProgress \/ Resync \/ Watch \/ GoWrong)
  BY <1>1, <1>3, StillUnchanged DEF Check, SaveProgress, Resync, Watch, GoWrong
<1>4. CASE Begin
  <2>1. PICK total \in BOOLEAN, n \in {0, Cardinality(Completed)} :
           Emit([event |-> "session", total |-> total, completed |-> n])
    BY <1>4 DEF Begin
  <2>2. [event |-> "session", total |-> total, completed |-> n] \in Events
    BY CompletedCount, EventTypes, FirstRunAssumption
  <2> QED BY <1>2, <1>4, <2>1, <2>2 DEF Emits
<1>5. CASE Open
  <2>1. CASE Emit([event |-> "done"]) /\ UNCHANGED <<current, opened>> /\ checker' = "gone"
    <3>1. [event |-> "done"] \in Events
      BY EventTypes
    <3> QED BY <1>2, <1>5, <2>1, <3>1 DEF Emits
  <2>2. ASSUME NEW x \in Exercises, current' = x, checker' = "check",
               opened' = [opened EXCEPT ![session] = x],
               Emit([event |-> "exercise", id |-> x])
        PROVE  \E e \in Events : Added(e) /\ Emits(e)
    <3> DEFINE f == [event |-> "exercise", id |-> x]
    <3>1. f \in Events
      BY EventTypes
    <3>2. Added(f)
      BY <1>2, <2>2, <3>1
    <3>3. f.event = "exercise" /\ f.id = x
      OBVIOUS
    <3> HIDE DEF f
    <3>4. Emits(f)
      BY <1>5, <2>2, <3>3 DEF Emits
    <3> QED BY <3>1, <3>2, <3>4
  <2> QED BY <1>5, <2>1, <2>2 DEF Open
<1>6. CASE Judge
  <2> DEFINE outcome == IF current = Hello THEN verdictOf[judged] ELSE "fail"
             f == [event |-> "verdict", outcome |-> outcome]
  <2>1. f \in Events
    BY OutcomeOf, EventTypes
  <2>2. Emit(f)
    BY <1>6 DEF Judge
  <2>3. f.event = "verdict" /\ f.outcome = outcome
    OBVIOUS
  <2>4. Emits(f)
    BY <1>6, <2>3 DEF Emits
  <2> QED BY <1>2, <2>1, <2>2, <2>4
<1>7. CASE Wait
  <2>1. [event |-> "waiting"] \in Events
    BY EventTypes
  <2> QED BY <1>2, <1>7, <2>1 DEF Wait, Emits
<1>8. CASE GoWrong /\ Emit([event |-> "error"])
  <2>1. [event |-> "error"] \in Events
    BY EventTypes
  <2> QED BY <1>2, <1>8, <2>1 DEF Emits
<1>9. \/ UNCHANGED pipe /\ (Check \/ SaveProgress \/ Resync \/ Watch \/ GoWrong)
      \/ Begin \/ Open \/ Judge \/ Wait \/ (GoWrong /\ Emit([event |-> "error"]))
  BY DEF CheckerStep, Check, SaveProgress, Resync, Watch, GoWrong
<1> QED BY <1>3, <1>4, <1>5, <1>6, <1>7, <1>8, <1>9

LEMMA UntilTakes ==
    ASSUME TypeOK, Until
    PROVE  /\ Taken /\ At(1) \in Events /\ At(1) = Head(queue)
           /\ UNCHANGED <<current, checker, session, opened, told>>
BY Shrinks, Leads DEF Until, Taken

LEMMA ReadMoves ==
    ASSUME TypeOK, Read
    PROVE  Still /\ UNCHANGED <<pc, current, checker, session, opened, told>>
BY Moves DEF Read, Still, driver, d2x, truth

LEMMA StartsAnew ==
    ASSUME TypeOK, Start
    PROVE  /\ UNCHANGED <<current, opened, told>>
           /\ \/ Still /\ UNCHANGED <<checker, session>> /\ pc' = "failed"
              \/ /\ Coming' = 0 /\ checker' = "begin" /\ session' = session + 1
                 /\ pc' \in {"starting", "restarting"}
<1>1. CASE /\ queue' = << >> /\ pipe' = << >>
           /\ checker' = "begin" /\ session' = session + 1
           /\ Goto("starting") \/ Goto("restarting")
  <2>1. Coming' = 0
    <3>1. Len(queue') = 0 /\ Len(pipe') = 0
      BY <1>1, EmptySeq
    <3> QED BY <3>1 DEF Coming
  <2>2. pc' \in {"starting", "restarting"}
    BY <1>1 DEF Goto
  <2>3. UNCHANGED <<current, opened, told>>
    BY DEF Start
  <2> QED BY <1>1, <2>1, <2>2, <2>3
<1>2. CASE pc = "start" /\ Raise /\ UNCHANGED <<queue, pipe, checker, session>>
  BY <1>2, StillUnchanged, Raising DEF Start, InFirstTry, InSecondTry
<1> QED BY <1>1, <1>2 DEF Start

LEMMA PassToldKept ==
    ASSUME TypeOK, Solved, PassTold, [Next]_vars
    PROVE  PassTold'
<1>0. Coming \in Nat
  BY AtType
<1>1. ASSUME Still, UNCHANGED told PROVE PassTold'
  BY <1>1 DEF Still, PassTold, IsVerdict
<1>2. CASE UNCHANGED vars
  BY <1>1, <1>2, StillUnchanged DEF vars, truth
<1>3. CASE QuietStep \/ Read \/ EnterTry
  BY <1>1, <1>3, Quiet, ReadMoves, EntersStill
<1>4. CASE Start
  <2>1. CASE Coming' = 0
    BY <2>1 DEF PassTold
  <2> QED BY <1>1, <1>4, <2>1, StartsAnew
<1>5. CASE Until
  <2>1. Taken /\ UNCHANGED told
    BY <1>5, UntilTakes
  <2>2. ASSUME NEW i \in 1..Coming', IsVerdict(At(i)', "pass")
        PROVE  \E c \in Contents : <<c, "pass">> \in told'
    <3>1. i + 1 \in 1..Coming /\ i \in 1..(Coming - 1) /\ At(i)' = At(i + 1)
      BY <1>0, <2>1 DEF Taken
    <3> QED BY <2>1, <2>2, <3>1 DEF PassTold, IsVerdict
  <2> QED BY <2>2 DEF PassTold, IsVerdict
<1>6. CASE CheckerStep
  <2>1. CASE Still /\ UNCHANGED told
    BY <1>1, <2>1
  <2>2. ASSUME NEW e \in Events, Added(e), Emits(e) PROVE PassTold'
    <3>1. told \subseteq told'
      BY <1>6, CheckerTypes
    <3>2. ASSUME NEW i \in 1..Coming', IsVerdict(At(i)', "pass")
          PROVE  \E c \in Contents : <<c, "pass">> \in told'
      <4>1. CASE i = Coming + 1
        <5>1. e.event = "verdict" /\ e.outcome = "pass"
          BY <1>0, <2>2, <3>2, <4>1 DEF Added, IsVerdict
        <5>2. Judge /\ current = Hello /\ e.outcome = verdictOf[judged]
          BY <2>2, <5>1 DEF Emits
        <5>3. <<judged, "pass">> \in told' /\ judged \in Contents
          BY <5>1, <5>2 DEF Judge, TypeOK
        <5> QED BY <5>3
      <4>2. CASE i # Coming + 1
        <5>1. i \in 1..Coming /\ At(i)' = At(i)
          BY <1>0, <2>2, <4>2 DEF Added
        <5> QED BY <3>1, <3>2, <5>1 DEF PassTold, IsVerdict
      <4> QED BY <4>1, <4>2
    <3> QED BY <3>2 DEF PassTold, IsVerdict
  <2> QED BY <1>6, <2>1, <2>2, CheckerEmits
<1> QED BY <1>2, <1>3, <1>4, <1>5, <1>6 DEF Next, DriverStep, QuietStep

LEMMA AnnouncedKept ==
    ASSUME TypeOK, Sessions, Solved, Announced, [Next]_vars
    PROVE  Announced'
<1>0. Coming \in Nat
  BY AtType
<1>1. ASSUME Still, UNCHANGED <<current, session, opened>>,
             checker' \in {"begin", "list", "save"} => checker' = checker
      PROVE  Announced'
  BY <1>1 DEF Still, Announced, OpensAnother
<1>2. CASE UNCHANGED vars
  BY <1>1, <1>2, StillUnchanged DEF vars, truth, d2x
<1>3. CASE QuietStep \/ Read \/ EnterTry
  <2>1. checker' \in {"begin", "list", "save"} => checker' = checker
    BY <1>3, Breaks, Turns, Enters DEF QuietStep, Close, Read, d2x
  <2> QED BY <1>1, <1>3, <2>1, Quiet, ReadMoves, EntersStill
<1>4. CASE Start
  <2>1. CASE Coming' = 0 /\ session' = session + 1 /\ UNCHANGED opened
    <3>1. session \in 0..2
      BY DEF TypeOK
    <3>2. session' \in 1..2 => opened'[session'] = 0
      BY <2>1, <3>1 DEF Sessions
    <3>3. session' \in 1..2
      BY <1>4, <2>1, <3>1, TypesStart DEF TypeOK
    <3> QED BY <2>1, <3>2, <3>3 DEF Announced
  <2> QED BY <1>1, <1>4, <2>1, StartsAnew
<1>5. CASE Until
  <2>1. Taken /\ UNCHANGED <<current, checker, session, opened>>
    BY <1>5, UntilTakes
  <2>2. ASSUME NEW i \in 1..Coming', OpensAnother(At(i)'), session > 0
        PROVE  opened[session] = At(i)'.id
    <3>1. i + 1 \in 1..Coming /\ i \in 1..(Coming - 1) /\ At(i)' = At(i + 1)
      BY <1>0, <2>1 DEF Taken
    <3> QED BY <2>1, <2>2, <3>1 DEF Announced, OpensAnother
  <2> QED BY <2>1, <2>2 DEF Announced, OpensAnother
<1>6. CASE CheckerStep
  <2>0. session' = session /\ session \in 1..2
    <3>1. checker \notin {"off", "gone"}
      BY <1>6 DEF CheckerStep, Begin, Open, Check, Judge, SaveProgress, Wait, Resync, Watch,
                   GoWrong
    <3> QED BY <1>6, <3>1, CheckerTypes DEF Sessions, TypeOK
  <2>1. CASE Still /\ UNCHANGED opened /\ (Check \/ SaveProgress \/ Resync \/ Watch \/ GoWrong)
    <3>1. CASE SaveProgress
      <4>1. opened[session] \in {0, Hello}
        BY <2>0, <3>1 DEF SaveProgress, Announced
      <4> QED BY <2>0, <2>1, <3>1, <4>1 DEF Announced, Still, OpensAnother
    <3>2. CASE Check \/ Resync \/ Watch \/ GoWrong
      BY <1>1, <2>0, <2>1, <3>2 DEF Check, Resync, Watch, GoWrong
    <3> QED BY <2>1, <3>1, <3>2
  <2>2. ASSUME NEW e \in Events, Added(e), Emits(e) PROVE Announced'
    <3>1. ASSUME ~Opens(e), UNCHANGED <<current, opened>>,
                 opened[session] \notin {0, Hello} => checker' \notin {"begin", "list", "save"}
          PROVE  Announced'
      <4>1. ASSUME NEW i \in 1..Coming', OpensAnother(At(i)')
            PROVE  opened[session] = At(i)'.id
        <5>1. i \in 1..(Coming + 1) /\ i # Coming + 1
          BY <1>0, <2>2, <3>1, <4>1 DEF Added, Opens, OpensAnother
        <5>2. i \in 1..Coming /\ At(i)' = At(i)
          BY <1>0, <2>2, <5>1 DEF Added
        <5> QED BY <2>0, <4>1, <5>2 DEF Announced, OpensAnother
      <4> QED BY <2>0, <3>1, <4>1 DEF Announced, OpensAnother
    <3>2. CASE Begin /\ e.event = "session"
      BY <2>0, <3>1, <3>2 DEF Begin, Announced, Opens
    <3>3. CASE Open /\ e.event = "done" /\ checker' = "gone" /\ UNCHANGED <<current, opened>>
      BY <3>1, <3>3 DEF Opens
    <3>4. CASE /\ Open /\ e.event = "exercise" /\ e.id = current' /\ checker' = "check"
               /\ opened' = [opened EXCEPT ![session] = e.id]
      <4>1. opened[session] \in {0, Hello}
        BY <2>0, <3>4 DEF Open, Announced
      <4>2. opened'[session] = e.id
        BY <2>0, <3>4 DEF TypeOK
      <4>3. ASSUME NEW i \in 1..Coming PROVE ~OpensAnother(At(i))
        <5>1. SUFFICES ASSUME OpensAnother(At(i)) PROVE FALSE
          OBVIOUS
        <5>2. At(i).id \in Exercises /\ At(i).id # Hello
          BY <5>1, AtType, EventFields DEF OpensAnother
        <5>3. opened[session] = At(i).id
          BY <2>0, <5>1 DEF Announced
        <5> QED BY <4>1, <5>2, <5>3, FirstRunAssumption DEF Exercises
      <4>4. ASSUME NEW i \in 1..Coming', OpensAnother(At(i)')
            PROVE  opened'[session] = At(i)'.id
        BY <1>0, <2>2, <4>2, <4>3, <4>4 DEF Added, OpensAnother
      <4> QED BY <2>0, <3>4, <4>2, <4>4 DEF Announced, OpensAnother
    <3>5. CASE Judge /\ e.event = "verdict"
      <4>1. UNCHANGED <<current, opened>> /\ checker' \in {"save", "wait"}
        BY <3>5 DEF Judge
      <4>2. checker' = "save" => current = Hello
        BY <3>5 DEF Judge
      <4>3. opened[session] \notin {0, Hello} => current # Hello
        BY <2>0 DEF Announced
      <4> QED BY <3>1, <3>5, <4>1, <4>2, <4>3 DEF Opens
    <3>6. CASE (Wait /\ e.event = "waiting") \/ (GoWrong /\ e.event = "error")
      BY <3>1, <3>6 DEF Wait, GoWrong, Opens
    <3> QED BY <2>2, <3>2, <3>3, <3>4, <3>5, <3>6 DEF Emits
  <2> QED BY <1>6, <2>1, <2>2, CheckerEmits
<1> QED BY <1>2, <1>3, <1>4, <1>5, <1>6 DEF Next, DriverStep, QuietStep

LEMMA SessionFirstKept ==
    ASSUME TypeOK, Solved, SessionFirst, [Next]_vars
    PROVE  SessionFirst'
<1>0. Coming \in Nat
  BY AtType
<1>1. CASE pc' \notin {"starting", "session"}
  BY <1>1 DEF SessionFirst
<1>2. CASE pc' \in {"starting", "session"} /\ (UNCHANGED vars \/ Read \/ EnterTry)
  <2>1. Still /\ UNCHANGED checker /\ pc \in {"starting", "session"}
    BY <1>2, ReadMoves, StillUnchanged, Enters, EntersStill DEF vars, driver, d2x
  <2> QED BY <1>0, <1>2, <2>1 DEF SessionFirst, Still
<1>3. CASE QuietStep
  BY <1>1, <1>3, Breaks, Turns, Raising
     DEF QuietStep, Close, Goto, InFirstTry, InSecondTry
<1>4. CASE Start
  BY <1>1, <1>4, StartsAnew DEF SessionFirst
<1>5. CASE Until /\ pc' \in {"starting", "session"}
  <2>1. pc = "session"
    BY <1>5, Leads DEF InFirstTry, InSecondTry
  <2>2. At(1).event \in {"session", "error"}
    BY <1>0, <1>5, <2>1, UntilTakes DEF SessionFirst, Taken
  <2>3. Head(queue).event \in {"session", "error"}
    BY <1>5, <2>2, UntilTakes
  <2>4. pc' \notin {"starting", "session"}
    BY <1>5, <2>1, <2>3, Raising, WaitsFor, GoesOn DEF Until, Goto, InFirstTry
  <2> QED BY <1>5, <2>4
<1>6. CASE CheckerStep /\ pc' \in {"starting", "session"}
  <2>0. pc \in {"starting", "session"}
    BY <1>6, CheckerTypes
  <2>1. CASE Still /\ (Check \/ SaveProgress \/ Resync \/ Watch \/ GoWrong)
    BY <1>0, <1>6, <2>0, <2>1
       DEF SessionFirst, Still, Check, SaveProgress, Resync, Watch, GoWrong
  <2>2. ASSUME NEW e \in Events, Added(e), Emits(e) PROVE SessionFirst'
    <3>1. CASE Coming = 0
      <4>1. e.event \in {"session", "error"}
        BY <2>0, <2>2, <3>1 DEF SessionFirst, Emits, Open, Judge, Wait
      <4>2. Coming' # 0 /\ At(1)' = e
        BY <2>2, <3>1 DEF Added
      <4> QED BY <4>1, <4>2 DEF SessionFirst
    <3>2. CASE Coming # 0
      <4>1. Coming' # 0 /\ At(1)' = At(1)
        BY <1>0, <2>2, <3>2 DEF Added
      <4> QED BY <2>0, <3>2, <4>1 DEF SessionFirst
    <3> QED BY <3>1, <3>2
  <2> QED BY <1>6, <2>1, <2>2, CheckerEmits
<1> QED BY <1>1, <1>2, <1>3, <1>4, <1>5, <1>6 DEF Next, DriverStep, QuietStep

-----------------------------------------------------------------------------
(* The first verdict.                                                      *)

Early == pc \in {"starting", "session", "exercise", "verdict"} /\ <<"original", "fail">> \notin told

\* Passed and Skipped of the next state, with a number that does not change.
PassedNext(n) ==
    \E i \in 1..n :
        /\ IsVerdict(At(i)', "pass")
        /\ pc' = "verdict" \/ \E k \in 1..i : Opens(At(k)')
SkippedNext(n) ==
    /\ pc' # "verdict"
    /\ \E i \in 1..n : OpensAnother(At(i)') /\ \A k \in 1..i : Opens(At(k)') => k = i
ElsewhereNext(n) == PassedNext(n) \/ SkippedNext(n)

LEMMA NextForms ==
    ASSUME NEW m, Coming' = m,
           Early' =>
             /\ \A j \in 1..m : IsVerdict(At(j)', "fail") => ElsewhereNext(j)
             /\ AtWork' /\ current' # Hello => ElsewhereNext(m)
             /\ AtWork' /\ current' = Hello =>
                  pc' = "verdict" \/ \E k \in 1..m : Opens(At(k)')
             /\ checker' = "save" => PassedNext(m)
             /\ checker' = "list" =>
                  PassedNext(m) \/ (pc' # "verdict" /\ \A k \in 1..m : ~Opens(At(k)'))
             /\ checker' = "begin" => pc' \in {"starting", "session"} /\ m = 0
    PROVE  FirstVerdict'
BY DEF FirstVerdict, Early, Elsewhere, ElsewhereNext, Passed, PassedNext, Skipped,
       SkippedNext, AtWork, IsVerdict, Opens, OpensAnother

LEMMA Carry ==
    ASSUME Coming \in Nat, \A i \in 1..Coming : At(i)' = At(i),
           pc' = "verdict" <=> pc = "verdict",
           NEW n \in 0..Coming, NEW m \in Nat, n <= m
    PROVE  (Passed(n) => PassedNext(m)) /\ (Elsewhere(n) => ElsewhereNext(m))
<1>1. \A i \in 1..n : i \in 1..m /\ At(i)' = At(i)
  OBVIOUS
<1>2. \A i \in 1..n : \A k \in 1..i : k \in 1..n
  OBVIOUS
<1>3. ASSUME Passed(n) PROVE PassedNext(m)
  <2>1. PICK i \in 1..n : /\ IsVerdict(At(i), "pass")
                          /\ pc = "verdict" \/ \E k \in 1..i : Opens(At(k))
    BY <1>3 DEF Passed
  <2>2. IsVerdict(At(i)', "pass") /\ i \in 1..m
    BY <1>1, <2>1 DEF IsVerdict
  <2>3. pc' = "verdict" \/ \E k \in 1..i : Opens(At(k)')
    BY <1>1, <1>2, <2>1
  <2> QED BY <2>2, <2>3 DEF PassedNext
<1>4. ASSUME Skipped(n) PROVE SkippedNext(m)
  <2>1. PICK i \in 1..n : OpensAnother(At(i)) /\ \A k \in 1..i : Opens(At(k)) => k = i
    BY <1>4 DEF Skipped
  <2>2. OpensAnother(At(i)') /\ i \in 1..m
    BY <1>1, <2>1
  <2>3. \A k \in 1..i : Opens(At(k)') => k = i
    BY <1>1, <1>2, <2>1
  <2> QED BY <1>4, <2>2, <2>3 DEF SkippedNext, Skipped
<1> QED BY <1>3, <1>4 DEF Elsewhere, ElsewhereNext

\* The first event is one that until() passes by, or hello-mcpp is opened with it.
LEMMA CarryTaken ==
    ASSUME Coming \in Nat, Taken, NEW n \in 1..Coming,
           \/ pc \in {"session", "exercise"} /\ pc' = "exercise" /\ ~Opens(At(1))
           \/ pc = "verdict" /\ pc' = "verdict" /\ At(1).event # "verdict"
           \/ /\ pc = "exercise" /\ pc' = "verdict"
              /\ Opens(At(1)) /\ At(1).id = Hello
    PROVE  (Passed(n) => PassedNext(n - 1)) /\ (Elsewhere(n) => ElsewhereNext(n - 1))
<1>0. n \in Nat /\ n <= Coming /\ 1 \in 1..n
  OBVIOUS
<1>1. \A i \in 1..n : i # 1 =>
         i - 1 \in 1..(n - 1) /\ i - 1 \in 1..(Coming - 1) /\ (i - 1) + 1 = i
  BY <1>0
<1>2. \A i \in 1..n : i # 1 => i - 1 \in 1..(n - 1) /\ At(i - 1)' = At(i)
  BY <1>1 DEF Taken
<1>3. ASSUME Passed(n) PROVE PassedNext(n - 1)
  <2>1. PICK i \in 1..n : /\ IsVerdict(At(i), "pass")
                          /\ pc = "verdict" \/ \E k \in 1..i : Opens(At(k))
    BY <1>3 DEF Passed
  <2>2. i # 1
    <3>1. SUFFICES ASSUME i = 1 PROVE FALSE
      OBVIOUS
    <3>2. At(1).event = "verdict"
      BY <2>1, <3>1 DEF IsVerdict
    <3>3. ~Opens(At(1))
      BY <3>2 DEF Opens
    <3>4. pc = "verdict"
      BY <2>1, <3>1, <3>3
    <3> QED BY <3>2, <3>4
  <2>3. IsVerdict(At(i - 1)', "pass") /\ i - 1 \in 1..(n - 1)
    BY <1>2, <2>1, <2>2 DEF IsVerdict
  <2>4. pc' = "verdict" \/ \E k \in 1..(i - 1) : Opens(At(k)')
    <3>1. SUFFICES ASSUME pc' # "verdict" PROVE \E k \in 1..(i - 1) : Opens(At(k)')
      OBVIOUS
    <3>2. PICK k \in 1..i : Opens(At(k))
      BY <2>1, <3>1
    <3>3. k # 1 /\ k \in 1..n
      BY <1>0, <3>1, <3>2
    <3>4. k - 1 \in 1..(i - 1) /\ At(k - 1)' = At(k)
      BY <1>2, <3>3
    <3> QED BY <3>2, <3>4
  <2> QED BY <2>3, <2>4 DEF PassedNext
<1>4. ASSUME Skipped(n) PROVE SkippedNext(n - 1)
  <2>1. PICK i \in 1..n : OpensAnother(At(i)) /\ \A k \in 1..i : Opens(At(k)) => k = i
    BY <1>4 DEF Skipped
  <2>2. i # 1 /\ pc' = "exercise"
    <3>1. 1 \in 1..i
      BY <1>0
    <3>2. pc # "verdict"
      BY <1>4 DEF Skipped
    <3> QED BY <2>1, <3>1, <3>2 DEF Opens, OpensAnother
  <2>3. OpensAnother(At(i - 1)') /\ i - 1 \in 1..(n - 1)
    BY <1>2, <2>1, <2>2
  <2>4. ASSUME NEW k \in 1..(i - 1), Opens(At(k)') PROVE k = i - 1
    <3>1. k + 1 \in 1..n /\ k + 1 # 1 /\ (k + 1) - 1 = k /\ k + 1 \in 1..i
      BY <1>0
    <3>2. At(k)' = At(k + 1)
      BY <1>2, <3>1
    <3>3. k + 1 = i
      BY <2>1, <2>4, <3>1, <3>2
    <3> QED BY <3>1, <3>3
  <2> QED BY <2>2, <2>3, <2>4 DEF SkippedNext
<1> QED BY <1>3, <1>4 DEF Elsewhere, ElsewhereNext

LEMMA FirstVerdictStill ==
    ASSUME TypeOK, FirstVerdict, Still, told \subseteq told',
           pc' = pc \/ (pc = "starting" /\ pc' = "session"),
           \/ UNCHANGED <<checker, current>>
           \/ Check \/ SaveProgress \/ Resync \/ Watch \/ GoWrong
    PROVE  FirstVerdict'
<1> PICK m \in Nat : m = Coming
  BY AtType
<1>0. Coming \in Nat /\ Coming' = m /\ Coming = m /\ \A i \in 1..m : At(i)' = At(i)
  BY AtType DEF Still
<1>1. \A n \in 0..m :
        (Passed(n) => PassedNext(n)) /\ (Elsewhere(n) => ElsewhereNext(n))
  BY <1>0, Carry
<1>2. SUFFICES ASSUME Early'
      PROVE  /\ \A j \in 1..m : IsVerdict(At(j)', "fail") => ElsewhereNext(j)
             /\ AtWork' /\ current' # Hello => ElsewhereNext(m)
             /\ AtWork' /\ current' = Hello =>
                  pc' = "verdict" \/ \E k \in 1..m : Opens(At(k)')
             /\ checker' = "save" => PassedNext(m)
             /\ checker' = "list" =>
                  PassedNext(m) \/ (pc' # "verdict" /\ \A k \in 1..m : ~Opens(At(k)'))
             /\ checker' = "begin" => pc' \in {"starting", "session"} /\ m = 0
  BY <1>0, NextForms
<1>3. Early
  BY <1>2 DEF Early
<1>4. \A j \in 1..m : IsVerdict(At(j)', "fail") => ElsewhereNext(j)
  BY <1>0, <1>1, <1>3 DEF FirstVerdict, Early, IsVerdict
<1>5. CASE UNCHANGED <<checker, current>>
  BY <1>0, <1>1, <1>3, <1>4, <1>5 DEF FirstVerdict, Early, AtWork, Opens
<1>6. CASE Check \/ Resync \/ Watch
  BY <1>0, <1>1, <1>3, <1>4, <1>6
     DEF FirstVerdict, Early, AtWork, Opens, Check, Resync, Watch
<1>7. CASE SaveProgress
  BY <1>0, <1>1, <1>3, <1>4, <1>7 DEF FirstVerdict, Early, AtWork, SaveProgress
<1>8. CASE GoWrong
  BY <1>4, <1>8 DEF AtWork, GoWrong
<1> QED BY <1>5, <1>6, <1>7, <1>8

LEMMA FirstVerdictAdded ==
    ASSUME TypeOK, FirstVerdict, Original, Truth, pc' = pc, told \subseteq told',
           NEW e \in Events, Added(e), Emits(e)
    PROVE  FirstVerdict'
<1> PICK m \in Nat : m = Coming + 1
  BY AtType
<1>0. /\ Coming \in Nat /\ m \in Nat /\ Coming' = m /\ At(m)' = e
      /\ \A i \in 1..Coming : i \in 1..m /\ At(i)' = At(i)
  BY AtType DEF Added
<1>1. \A n \in 0..Coming :
        /\ (Passed(n) => PassedNext(n)) /\ (Elsewhere(n) => ElsewhereNext(n))
        /\ (Passed(n) => PassedNext(m)) /\ (Elsewhere(n) => ElsewhereNext(m))
  BY <1>0, Carry
<1>2. (\E k \in 1..Coming : Opens(At(k))) => \E k \in 1..m : Opens(At(k)')
  BY <1>0
<1>3. m \in 1..m /\ \A k \in 1..m : k = m \/ k \in 1..Coming
  BY <1>0
<1>4. SUFFICES ASSUME Early'
      PROVE  /\ \A j \in 1..m : IsVerdict(At(j)', "fail") => ElsewhereNext(j)
             /\ AtWork' /\ current' # Hello => ElsewhereNext(m)
             /\ AtWork' /\ current' = Hello =>
                  pc' = "verdict" \/ \E k \in 1..m : Opens(At(k)')
             /\ checker' = "save" => PassedNext(m)
             /\ checker' = "list" =>
                  PassedNext(m) \/ (pc' # "verdict" /\ \A k \in 1..m : ~Opens(At(k)'))
             /\ checker' = "begin" => pc' \in {"starting", "session"} /\ m = 0
  BY <1>0, NextForms
<1>5. Early
  BY <1>4 DEF Early
<1>6. ASSUME IsVerdict(e, "fail") PROVE ElsewhereNext(m)
  <2>1. Judge /\ e.outcome = IF current = Hello THEN verdictOf[judged] ELSE "fail"
    BY <1>6 DEF Emits, IsVerdict
  <2>2. AtWork
    BY <2>1 DEF Judge, AtWork
  <2>3. CASE current # Hello
    BY <1>0, <1>1, <1>5, <2>2, <2>3 DEF FirstVerdict, Early
  <2>4. CASE current = Hello
    <3>1. judged = "original"
      BY <1>5 DEF Early, Original
    <3>2. <<"original", "fail">> \in told'
      BY <1>6, <2>1, <2>4, <3>1 DEF Judge, IsVerdict
    <3> QED BY <1>4, <3>2 DEF Early
  <2> QED BY <2>3, <2>4
<1>7. \A j \in 1..m : IsVerdict(At(j)', "fail") => ElsewhereNext(j)
  <2>1. ASSUME NEW j \in 1..m, IsVerdict(At(j)', "fail") PROVE ElsewhereNext(j)
    <3>1. CASE j = m
      BY <1>0, <1>6, <2>1, <3>1 DEF IsVerdict
    <3>2. CASE j \in 1..Coming
      BY <1>0, <1>1, <1>5, <2>1, <3>2 DEF FirstVerdict, Early, IsVerdict
    <3> QED BY <1>3, <3>1, <3>2
  <2> QED BY <2>1
<1>8. CASE Begin /\ e.event = "session"
  <2>1. pc \in {"starting", "session"} /\ Coming = 0 /\ checker' = "list"
    BY <1>5, <1>8 DEF FirstVerdict, Early, Begin
  <2>2. \A k \in 1..m : ~Opens(At(k)')
    BY <1>0, <1>3, <1>8, <2>1 DEF Opens
  <2> QED BY <1>7, <2>1, <2>2 DEF AtWork
<1>9. CASE Open /\ e.event = "exercise" /\ e.id = current' /\ checker' = "check"
  <2>1. Opens(At(m)')
    BY <1>0, <1>9 DEF Opens
  <2>2. \/ Passed(Coming)
        \/ pc # "verdict" /\ \A k \in 1..Coming : ~Opens(At(k))
    BY <1>5, <1>9 DEF FirstVerdict, Early, Open
  <2>3. ASSUME current' # Hello PROVE ElsewhereNext(m)
    <3>1. CASE Passed(Coming)
      BY <1>0, <1>1, <3>1 DEF ElsewhereNext
    <3>2. CASE pc # "verdict" /\ \A k \in 1..Coming : ~Opens(At(k))
      <4>1. OpensAnother(At(m)')
        BY <1>0, <1>9, <2>3 DEF OpensAnother
      <4>2. \A k \in 1..m : Opens(At(k)') => k = m
        BY <1>0, <1>3, <3>2
      <4> QED BY <1>3, <3>2, <4>1, <4>2 DEF ElsewhereNext, SkippedNext
    <3> QED BY <2>2, <3>1, <3>2
  <2> QED BY <1>3, <1>7, <1>9, <2>1, <2>3
<1>10. CASE Open /\ e.event = "done" /\ checker' = "gone"
  BY <1>7, <1>10 DEF AtWork
<1>11. CASE /\ Judge /\ e.event = "verdict"
            /\ e.outcome = IF current = Hello THEN verdictOf[judged] ELSE "fail"
  <2>1. AtWork /\ current' = current
    BY <1>11 DEF Judge, AtWork
  <2>2. current # Hello => ElsewhereNext(m)
    BY <1>0, <1>1, <1>5, <2>1 DEF FirstVerdict, Early
  <2>3. current = Hello => pc' = "verdict" \/ \E k \in 1..m : Opens(At(k)')
    BY <1>2, <1>5, <2>1 DEF FirstVerdict, Early
  <2>4. checker' \in {"wait", "save"}
    BY <1>11 DEF Judge
  <2>5. ASSUME checker' = "save" PROVE PassedNext(m)
    <3>1. current = Hello /\ IsVerdict(At(m)', "pass")
      BY <1>0, <1>11, <2>5 DEF Judge, IsVerdict
    <3> QED BY <1>3, <2>3, <3>1 DEF PassedNext
  <2> QED BY <1>7, <2>1, <2>2, <2>3, <2>4, <2>5
<1>12. CASE Wait
  <2>1. AtWork /\ current' = current /\ checker' = "resync"
    BY <1>12 DEF Wait, AtWork
  <2>2. current # Hello => ElsewhereNext(m)
    BY <1>0, <1>1, <1>5, <2>1 DEF FirstVerdict, Early
  <2>3. current = Hello => pc' = "verdict" \/ \E k \in 1..m : Opens(At(k)')
    BY <1>2, <1>5, <2>1 DEF FirstVerdict, Early
  <2> QED BY <1>7, <2>1, <2>2, <2>3
<1>13. CASE GoWrong
  BY <1>7, <1>13 DEF GoWrong, AtWork
<1> QED BY <1>8, <1>9, <1>10, <1>11, <1>12, <1>13 DEF Emits

\* What until() does with an event as long as there was no verdict.
LEMMA EarlyUntil ==
    ASSUME TypeOK, SessionFirst, Until, Early'
    PROVE  /\ Early
           /\ \/ pc \in {"session", "exercise"} /\ pc' = "exercise" /\ ~Opens(At(1))
              \/ pc = "verdict" /\ pc' = "verdict" /\ At(1).event # "verdict"
              \/ /\ pc = "exercise" /\ pc' = "verdict"
                 /\ Opens(At(1)) /\ At(1).id = Hello
<1>1. At(1) = Head(queue) /\ Coming >= 1 /\ told' = told /\ Coming \in Nat
  BY UntilTakes, AtType DEF Taken
<1>2. pc' \in {"session", "exercise", "verdict"}
  BY Leads DEF Early, InFirstTry, InSecondTry
<1>3. \/ pc = "session" /\ pc' \in {"session", "exercise"}
      \/ pc = "exercise" /\ pc' \in {"exercise", "verdict"}
      \/ pc = "verdict" /\ pc' = "verdict"
  BY <1>2, Leads
<1>4. Early
  BY <1>1, <1>3 DEF Early
<1>5. ~Raise
  BY <1>2, <1>3, Raising DEF InFirstTry
<1>6. \/ /\ At(1).event = Awaits[pc] /\ AsExpected(At(1)) /\ pc' = After[pc]
      \/ /\ At(1).event \notin {"error", "done", Awaits[pc]} /\ pc' = pc
  BY <1>1, <1>5 DEF Until, Goto
<1>7. CASE pc = "session"
  <2>1. At(1).event \in {"session", "error"}
    BY <1>1, <1>7 DEF SessionFirst
  <2>2. pc' = "exercise" /\ At(1).event = "session"
    BY <1>6, <1>7, <2>1, WaitsFor, GoesOn
  <2> QED BY <1>4, <1>7, <2>2 DEF Opens
<1>8. CASE pc = "exercise" /\ pc' = "exercise"
  BY <1>4, <1>6, <1>8, WaitsFor, GoesOn DEF Opens
<1>9. CASE pc = "exercise" /\ pc' = "verdict"
  BY <1>4, <1>6, <1>9, WaitsFor, GoesOn DEF Opens, AsExpected
<1>10. CASE pc = "verdict"
  BY <1>3, <1>4, <1>6, <1>10, WaitsFor, GoesOn
<1> QED BY <1>3, <1>7, <1>8, <1>9, <1>10

LEMMA FirstVerdictUntil ==
    ASSUME TypeOK, SessionFirst, FirstVerdict, Until
    PROVE  FirstVerdict'
<1> PICK n \in Nat : n = Coming
  BY AtType
<1> PICK m \in Nat : n = m + 1
  <2>1. Coming >= 1
    BY UntilTakes DEF Taken
  <2>2. n - 1 \in Nat /\ n = (n - 1) + 1
    BY <2>1
  <2> QED BY <2>2
<1>0. /\ Coming \in Nat /\ Coming = m + 1 /\ Coming' = m /\ Taken
      /\ \A i \in 1..m : i + 1 \in 1..Coming /\ At(i)' = At(i + 1)
      /\ UNCHANGED <<current, checker>>
  BY UntilTakes DEF Taken
<1>1. SUFFICES ASSUME Early'
      PROVE  /\ \A j \in 1..m : IsVerdict(At(j)', "fail") => ElsewhereNext(j)
             /\ AtWork' /\ current' # Hello => ElsewhereNext(m)
             /\ AtWork' /\ current' = Hello =>
                  pc' = "verdict" \/ \E k \in 1..m : Opens(At(k)')
             /\ checker' = "save" => PassedNext(m)
             /\ checker' = "list" =>
                  PassedNext(m) \/ (pc' # "verdict" /\ \A k \in 1..m : ~Opens(At(k)'))
             /\ checker' = "begin" => pc' \in {"starting", "session"} /\ m = 0
  BY <1>0, NextForms
<1>2. /\ Early
      /\ \/ pc \in {"session", "exercise"} /\ pc' = "exercise" /\ ~Opens(At(1))
         \/ pc = "verdict" /\ pc' = "verdict" /\ At(1).event # "verdict"
         \/ /\ pc = "exercise" /\ pc' = "verdict"
            /\ Opens(At(1)) /\ At(1).id = Hello
  BY <1>1, EarlyUntil
<1>3. \A k \in 1..Coming :
        (Passed(k) => PassedNext(k - 1)) /\ (Elsewhere(k) => ElsewhereNext(k - 1))
  BY <1>0, <1>2, CarryTaken
<1>4. /\ Passed(Coming) => PassedNext(m)
      /\ Elsewhere(Coming) => ElsewhereNext(m)
      /\ \A j \in 1..m : Elsewhere(j + 1) => ElsewhereNext(j)
  <2>1. Coming \in 1..Coming /\ Coming - 1 = m
    BY <1>0
  <2>2. \A j \in 1..m : (j + 1) - 1 = j
    OBVIOUS
  <2>3. PassedNext(Coming - 1) = PassedNext(m) /\ ElsewhereNext(Coming - 1) = ElsewhereNext(m)
    BY <2>1
  <2> QED BY <1>0, <1>3, <2>1, <2>2, <2>3
<1>5. \A j \in 1..m : IsVerdict(At(j)', "fail") => ElsewhereNext(j)
  BY <1>0, <1>2, <1>4 DEF FirstVerdict, Early, IsVerdict
<1>6. checker # "begin"
  BY <1>0, <1>2 DEF FirstVerdict, Early
<1>7. ASSUME AtWork, current = Hello, pc' # "verdict"
      PROVE  \E k \in 1..m : Opens(At(k)')
  <2>1. PICK k \in 1..Coming : Opens(At(k))
    BY <1>2, <1>7 DEF FirstVerdict, Early
  <2>2. k # 1
    BY <1>2, <1>7, <2>1
  <2>3. k - 1 \in 1..m /\ (k - 1) + 1 = k
    BY <1>0, <2>2
  <2>4. At(k - 1)' = At(k)
    BY <1>0, <2>3
  <2> QED BY <2>1, <2>3, <2>4 DEF Opens
<1>8. ASSUME checker = "list"
      PROVE  PassedNext(m) \/ (pc' # "verdict" /\ \A k \in 1..m : ~Opens(At(k)'))
  <2>1. CASE Passed(Coming)
    BY <1>4, <2>1
  <2>2. CASE pc # "verdict" /\ \A k \in 1..Coming : ~Opens(At(k))
    <3>1. 1 \in 1..Coming
      BY <1>0
    <3>2. pc' # "verdict"
      BY <1>2, <2>2, <3>1
    <3>3. \A k \in 1..m : ~Opens(At(k)')
      BY <1>0, <2>2 DEF Opens
    <3> QED BY <3>2, <3>3
  <2> QED BY <1>2, <1>8, <2>1, <2>2 DEF FirstVerdict, Early
<1> QED BY <1>0, <1>2, <1>4, <1>5, <1>6, <1>7, <1>8 DEF FirstVerdict, Early, AtWork

LEMMA FirstVerdictKept ==
    ASSUME TypeOK, Solved, Truth, Original, SessionFirst, FirstVerdict, [Next]_vars
    PROVE  FirstVerdict'
<1>1. CASE UNCHANGED vars \/ Read
  <2>1. Still /\ UNCHANGED <<pc, told, checker, current>>
    BY <1>1, ReadMoves, StillUnchanged DEF vars, driver, d2x, truth
  <2> QED BY <2>1, FirstVerdictStill
<1>2. CASE QuietStep
  <2>1. ~Early'
    BY <1>2, Breaks, Turns, Raising
       DEF Early, QuietStep, Close, Goto, InFirstTry, InSecondTry
  <2> QED BY <2>1 DEF FirstVerdict, Early
<1>3. CASE Start
  <2>1. CASE Coming' = 0 /\ checker' = "begin" /\ pc' \in {"starting", "restarting"}
    BY <2>1 DEF FirstVerdict, AtWork
  <2>2. CASE pc' = "failed"
    BY <2>2 DEF FirstVerdict
  <2> QED BY <1>3, <2>1, <2>2, StartsAnew
<1>4. CASE Until
  BY <1>4, FirstVerdictUntil
<1>5. CASE CheckerStep
  <2>1. pc' = pc /\ told \subseteq told'
    BY <1>5, CheckerTypes
  <2> QED BY <1>5, <2>1, CheckerEmits, FirstVerdictStill, FirstVerdictAdded
<1>6. CASE EnterTry
  <2>1. CASE pc = "starting" /\ pc' = "session"
    BY <1>6, <2>1, EntersStill, FirstVerdictStill
  <2>2. CASE pc' = "session2"
    BY <2>2 DEF FirstVerdict
  <2> QED BY <1>6, <2>1, <2>2, Enters
<1> QED BY <1>1, <1>2, <1>3, <1>4, <1>5, <1>6 DEF Next, DriverStep, QuietStep

-----------------------------------------------------------------------------
(* What the driver has seen.                                               *)

SawFail  == pc \in {"waiting", "settle", "save", "written", "accepted", "advanced", "idle"}
            \/ Between \/ Second
SawPass  == pc \in {"advanced", "idle"} \/ Between \/ Second
SawNext  == pc = "idle" \/ Between \/ Second
SawState == pc = "restart" \/ Second
SawAgain == pc \in {"idle2", "close2", "listing", "pass"}

LEMMA SeenForms ==
    Seen <=>
        (~raised =>
            /\ SawFail => <<"original", "fail">> \in told
            /\ SawPass => <<"answer", "pass">> \in told
            /\ SawNext => next # Hello /\ opened[1] = next
            /\ pc \in {"setup", "compare"} => before = {Hello}
            /\ SawState => state = {Hello}
            /\ SawAgain => opened[2] = next)
BY DEF Seen, SawFail, SawPass, SawNext, SawState, SawAgain

\* Where the driver has seen no more than before.
LEMMA SeenNoMore ==
    ASSUME Seen, raised \in BOOLEAN, raised' = raised,
           UNCHANGED <<before, next, state, opened, told>>,
           SawFail' => SawFail, SawPass' => SawPass, SawNext' => SawNext,
           pc' \in {"setup", "compare"} => pc \in {"setup", "compare"},
           SawState' => SawState, SawAgain' => SawAgain
    PROVE  Seen'
<1>1. Seen' <=>
        (~raised' =>
            /\ SawFail' => <<"original", "fail">> \in told'
            /\ SawPass' => <<"answer", "pass">> \in told'
            /\ SawNext' => next' # Hello /\ opened'[1] = next'
            /\ pc' \in {"setup", "compare"} => before' = {Hello}
            /\ SawState' => state' = {Hello}
            /\ SawAgain' => opened'[2] = next')
  BY DEF Seen, SawFail, SawPass, SawNext, SawState, SawAgain
<1> QED BY ONLY <1>1, SeenForms, Seen, raised' = raised,
           UNCHANGED <<before, next, state, opened, told>>,
           SawFail' => SawFail, SawPass' => SawPass, SawNext' => SawNext,
           pc' \in {"setup", "compare"} => pc \in {"setup", "compare"},
           SawState' => SawState, SawAgain' => SawAgain

LEMMA SeenQuiet ==
    ASSUME TypeOK, Solved, Seen, QuietStep
    PROVE  Seen'
<1> USE DEF SawFail, SawPass, SawNext, SawState, SawAgain, Between, Second, InSecondTry
<1>0. raised \in BOOLEAN /\ raised' \in BOOLEAN
  BY QuietLabels DEF TypeOK
<1>1. CASE raised'
  BY <1>1 DEF Seen
<1>2. CASE ExitedEarly \/ Deadline \/ Interrupt \/ Terminate
  BY <1>1, <1>2, Breaks
<1>3. CASE (Settle \/ Save \/ Restore \/ Listing) /\ ~raised'
  <2>1. UNCHANGED <<before, next, state, opened, told>>
    BY <1>3 DEF Settle, Save, Restore, Listing, truth
  <2>2. /\ raised' = raised
        /\ \/ pc = "settle" /\ pc' = "save"
           \/ pc = "save" /\ pc' = "written"
           \/ pc = "written" /\ pc' = "accepted"
           \/ pc = "restore" /\ pc' = "progress"
           \/ pc = "listing" /\ pc' = "pass"
    <3>1. pc \in {"settle", "save", "written", "restore", "listing"}
      BY <1>3 DEF Settle, Save, Restore, Listing
    <3> QED BY <1>0, <1>3, <3>1, Turns
  <2> QED BY <1>0, <2>1, <2>2, SeenNoMore
<1>4. CASE Close /\ ~raised'
  <2>1. UNCHANGED <<before, next, state, opened, told>>
    BY <1>4 DEF Close, truth
  <2>2. /\ raised' = raised
        /\ \/ pc = "close" /\ pc' = "restore"
           \/ pc = "close2" /\ pc' = "listing"
    BY <1>0, <1>4, Raising DEF Close, Goto
  <2> QED BY <1>0, <2>1, <2>2, SeenNoMore
<1>5. CASE Progress /\ ~raised'
  <2>1. /\ state # NoState /\ Hello \in state /\ before' = state
        /\ pc = "progress" /\ pc' = "setup" /\ raised' = raised
        /\ UNCHANGED <<next, state, opened, told>>
    BY <1>5, Raising DEF Progress, Goto, truth
  <2>2. state = {Hello}
    BY <2>1 DEF Solved, Hello, NoState
  <2> QED BY <1>0, <2>1, <2>2 DEF Seen
<1>6. CASE Setup /\ ~raised'
  <2>1. /\ pc = "setup" /\ pc' = "compare" /\ raised' = raised
        /\ UNCHANGED <<before, next, opened, told>>
    BY <1>6, Raising DEF Setup, Goto, truth
  <2> QED BY <1>0, <2>1 DEF Seen
<1>7. CASE Compare /\ ~raised'
  <2>1. /\ state = before /\ pc = "compare" /\ pc' = "restart" /\ raised' = raised
        /\ UNCHANGED <<before, next, state, opened, told>>
    BY <1>7, Raising DEF Compare, Goto, truth
  <2> QED BY <1>0, <2>1 DEF Seen
<1> QED BY <1>1, <1>2, <1>3, <1>4, <1>5, <1>6, <1>7 DEF QuietStep

LEMMA SeenStart ==
    ASSUME TypeOK, Seen, Start \/ EnterTry
    PROVE  Seen'
<1> USE DEF SawFail, SawPass, SawNext, SawState, SawAgain, Between, Second, InSecondTry
<1>1. UNCHANGED <<before, next, state, opened, told>>
  BY Enters DEF Start
<1>2. CASE raised'
  BY <1>2 DEF Seen
<1>3. CASE /\ raised' = raised
           /\ \/ pc = "start" /\ pc' = "starting"
              \/ pc = "restart" /\ pc' = "restarting"
              \/ pc = "starting" /\ pc' = "session"
              \/ pc = "restarting" /\ pc' = "session2"
  <2>1. raised \in BOOLEAN
    BY DEF TypeOK
  <2> QED BY <1>1, <1>3, <2>1, SeenNoMore
<1> QED BY <1>2, <1>3, Raising, Enters DEF Start, Goto

\* The next exercise is announced as it was opened.
LEMMA SeenChecker ==
    ASSUME TypeOK, Sessions, Solved, Announced, Seen, CheckerStep
    PROVE  Seen'
<1>0. /\ UNCHANGED <<pc, raised, before, next, session>>
      /\ told \subseteq told'
      /\ raised \in BOOLEAN
  BY CheckerTypes DEF TypeOK
<1>1. checker \notin {"off", "gone"}
  BY DEF CheckerStep, Begin, Open, Check, Judge, SaveProgress, Wait, Resync, Watch, GoWrong
<1>2. session \in 1..2
  BY <1>1 DEF Sessions, TypeOK
<1>3. CASE raised
  BY <1>0, <1>3 DEF Seen
<1>4. CASE ~raised
  <2>1. SawState => state' = {Hello}
    <3>1. SUFFICES ASSUME SawState PROVE state' = {Hello}
      OBVIOUS
    <3>2. state = {Hello}
      BY <1>4, <3>1, SeenForms
    <3>3. CASE SaveProgress
      <4>1. state # NoState
        BY <3>2 DEF NoState, Hello
      <4> QED BY <3>2, <3>3, <4>1 DEF SaveProgress, Solved, Completed
    <3>4. CASE ~SaveProgress
      BY <3>2, <3>4 DEF CheckerStep, Begin, Open, Check, Judge, Wait, Resync, Watch, GoWrong
    <3> QED BY <3>3, <3>4
  <2>2. \/ UNCHANGED opened
        \/ /\ checker = "list"
           /\ \E x \in Exercises : opened' = [opened EXCEPT ![session] = x]
    BY CheckerTypes
       DEF CheckerStep, Begin, Open, Check, Judge, SaveProgress, Wait, Resync, Watch, GoWrong
  <2>3. next \in Exercises /\ 0 \notin Exercises
    BY FirstRunAssumption DEF TypeOK, Exercises
  <2>4. ASSUME SawNext PROVE next # Hello /\ opened'[1] = next
    <3>1. next # Hello /\ opened[1] = next
      BY <1>4, <2>4, SeenForms
    <3>2. CASE session = 1
      <4>1. checker # "list"
        BY <2>3, <3>1, <3>2 DEF Announced
      <4> QED BY <2>2, <3>1, <4>1
    <3>3. CASE session = 2
      BY <2>2, <3>1, <3>3 DEF TypeOK
    <3> QED BY <1>2, <3>2, <3>3
  <2>5. ASSUME SawAgain PROVE opened'[2] = next
    <3>1. next # Hello /\ opened[2] = next /\ session = 2
      BY <1>4, <2>5, SeenForms
         DEF SawAgain, SawNext, Second, InSecondTry, Sessions
    <3>2. checker # "list"
      BY <2>3, <3>1 DEF Announced
    <3> QED BY <2>2, <3>1, <3>2
  <2> QED BY <1>0, <1>4, <2>1, <2>4, <2>5
          DEF Seen, SawNext, SawState, SawAgain, Between, Second, InSecondTry
<1> QED BY <1>3, <1>4

LEMMA SeenUntil ==
    ASSUME TypeOK, Sessions, Truth, PassTold, Announced, FirstVerdict, Seen, Until
    PROVE  Seen'
<1> USE DEF SawFail, SawPass, SawNext, SawState, SawAgain, Between, Second, InSecondTry
<1>0. /\ At(1) = Head(queue) /\ Coming >= 1 /\ Coming \in Nat /\ 1 \in 1..Coming
      /\ At(1) \in Events /\ raised \in BOOLEAN /\ raised' \in BOOLEAN
  BY UntilTakes, AtType, TypesUntil DEF Taken, TypeOK
<1>1. UNCHANGED <<before, state, opened, told>>
  BY Leads
<1>2. CASE raised'
  BY <1>2 DEF Seen
<1>3. ASSUME ~raised', pc' # pc
      PROVE  /\ raised' = raised /\ pc' = After[pc]
             /\ At(1).event = Awaits[pc] /\ AsExpected(At(1))
             /\ next' = IF pc = "advanced" THEN At(1).id ELSE next
  BY <1>0, <1>3, Raising DEF Until, Goto
<1>4. CASE pc' = pc /\ ~raised'
  <2>1. next' = next /\ raised' = raised
    BY <1>0, <1>4, Raising, Awaited, GoesOn DEF Until, Goto
  <2> QED BY <1>0, <1>1, <1>4, <2>1, SeenNoMore
<1>5. CASE pc = "verdict" /\ pc' = "waiting" /\ ~raised'
  <2>1. IsVerdict(At(1), "fail")
    BY <1>3, <1>5, WaitsFor DEF AsExpected, IsVerdict
  <2>2. ~Elsewhere(1)
    <3>1. \A i \in 1..1 : i = 1
      OBVIOUS
    <3> QED BY <1>5, <2>1, <3>1 DEF Elsewhere, Passed, Skipped, IsVerdict
  <2>3. <<"original", "fail">> \in told
    BY <1>0, <1>5, <2>1, <2>2 DEF FirstVerdict
  <2> QED BY <1>0, <1>1, <1>3, <1>5, <2>3 DEF Seen
<1>6. CASE pc = "accepted" /\ pc' = "advanced" /\ ~raised'
  <2>1. IsVerdict(At(1), "pass") /\ raised' = raised
    BY <1>3, <1>6, WaitsFor DEF AsExpected, IsVerdict
  <2>2. PICK c \in Contents : <<c, "pass">> \in told
    BY <1>0, <2>1 DEF PassTold
  <2>3. <<"original", "fail">> \in told
    BY <1>0, <1>6, <2>1, SeenForms
  <2>4. verdictOf[c] = "pass" /\ verdictOf["original"] = "fail" /\ verdictOf["half"] = "fail"
    BY <2>2, <2>3 DEF Truth, Contents, Outcomes
  <2>5. <<"answer", "pass">> \in told
    BY <2>2, <2>4 DEF Contents
  <2> QED BY <1>1, <1>6, <2>3, <2>5 DEF Seen
<1>7. CASE pc = "advanced" /\ pc' = "idle" /\ ~raised'
  <2>1. /\ At(1).event = "exercise" /\ At(1).id # Hello /\ next' = At(1).id
        /\ raised' = raised
    BY <1>3, <1>7, WaitsFor DEF AsExpected
  <2>2. session = 1
    BY <1>7 DEF Sessions, InFirstTry
  <2>3. opened[1] = At(1).id
    BY <1>0, <2>1, <2>2 DEF Announced, OpensAnother
  <2>4. <<"original", "fail">> \in told /\ <<"answer", "pass">> \in told
    BY <1>0, <1>7, <2>1, SeenForms
  <2> QED BY <1>1, <1>7, <2>1, <2>3, <2>4 DEF Seen
<1>8. CASE pc = "resumed" /\ pc' = "idle2" /\ ~raised'
  <2>1. /\ At(1).event = "exercise" /\ At(1).id = next /\ next' = next
        /\ raised' = raised
    BY <1>3, <1>8, WaitsFor DEF AsExpected
  <2>2. session = 2
    BY <1>8 DEF Sessions
  <2>3. next # Hello
    BY <1>0, <1>8, <2>1, SeenForms
  <2>4. opened[2] = next
    BY <1>0, <2>1, <2>2, <2>3 DEF Announced, OpensAnother
  <2> QED BY <1>0, <1>1, <1>8, <2>1, <2>4 DEF Seen
<1>9. CASE /\ ~raised'
           /\ \/ pc = "session" /\ pc' = "exercise"
              \/ pc = "exercise" /\ pc' = "verdict"
              \/ pc = "waiting" /\ pc' = "settle"
              \/ pc = "idle" /\ pc' = "close"
              \/ pc = "session2" /\ pc' = "resumed"
              \/ pc = "idle2" /\ pc' = "close2"
  <2>1. next' = next /\ raised' = raised
    BY <1>3, <1>9
  <2> QED BY <1>0, <1>1, <1>9, <2>1, SeenNoMore
<1> QED BY <1>0, <1>2, <1>4, <1>5, <1>6, <1>7, <1>8, <1>9, Leads

LEMMA SeenKept ==
    ASSUME TypeOK, Sessions, Solved, Truth, PassTold, Announced, FirstVerdict, Seen,
           [Next]_vars
    PROVE  Seen'
<1>1. CASE UNCHANGED vars \/ Read
  BY <1>1 DEF Seen, Between, Second, InSecondTry, vars, driver, truth, Read
<1> QED BY <1>1, SeenQuiet, SeenStart, SeenUntil, SeenChecker
        DEF Next, DriverStep, QuietStep

-----------------------------------------------------------------------------
(* The invariant, and what follows from it.                                *)

LEMMA InvInit == Init => Inv
<1> SUFFICES ASSUME Init PROVE Inv
  OBVIOUS
<1>1. TypeOK
  BY TypesOfInit
<1>2. Coming = 0
  <2>1. Len(queue) = 0 /\ Len(pipe) = 0
    BY EmptySeq DEF Init
  <2> QED BY <2>1 DEF Coming
<1>3. pc = "start" /\ checker = "off" /\ session = 0 /\ told = {} /\ raised = FALSE
  BY DEF Init
<1>4. Cleanup
  BY DEF Init, Cleanup
<1>5. Sessions
  BY DEF Init, Sessions, InFirstTry, Between, Second, InSecondTry
<1>6. Solved
  BY DEF Init, Solved
<1>7. Truth
  <2>1. verdictOf["half"] = "fail"
    BY DEF Init, Contents
  <2> QED BY <1>3, <2>1 DEF Truth
<1>8. PassTold /\ Announced /\ SessionFirst
  BY <1>2, <1>3 DEF PassTold, Announced, SessionFirst
<1>9. Original
  BY DEF Init, Original
<1>10. FirstVerdict
  BY <1>3 DEF FirstVerdict
<1>11. Seen
  BY <1>3 DEF Seen, Between, Second, InSecondTry
<1> QED BY <1>1, <1>4, <1>5, <1>6, <1>7, <1>8, <1>9, <1>10, <1>11 DEF Inv

LEMMA InvKept == Inv /\ [Next]_vars => Inv'
BY TypesKept, CleanupKept, SessionsKept, SolvedKept, TruthKept, PassToldKept,
   AnnouncedKept, OriginalKept, SessionFirstKept, FirstVerdictKept, SeenKept DEF Inv

\* The inductive invariant holds of every behaviour of first-run.py.
THEOREM Invariance == Spec => []Inv
BY InvInit, InvKept, PTL DEF Spec

\* Every variable of the driver and of the checker keeps its type: the session
\* count, the exercises opened and the events in the pipe and in the queue
\* stay in their bounds (Checker, first-run.py:25-98).
THEOREM TypeCorrect == Spec => []TypeOK
<1>1. Inv => TypeOK
  BY DEF Inv
<1> QED BY <1>1, Invariance, PTL

\* "pass" is printed only after the journey that it stands for, in a course of
\* any length and with tools wrong in any of the ways of Faults
\* (first-run.py:165).
THEOREM PassTrue == Spec => []PassMeansJourney
<1>1. Inv => PassMeansJourney
  <2> SUFFICES ASSUME Inv, pc = "pass"
      PROVE  /\ {<<"original", "fail">>, <<"answer", "pass">>} \subseteq told
             /\ state = {Hello}
             /\ session = 2 /\ opened[1] = opened[2] /\ opened[2] # Hello
    BY DEF PassMeansJourney
  <2>1. ~raised /\ session = 2
    BY DEF Inv, Sessions, Second
  <2> QED BY <2>1 DEF Inv, Seen, Second
<1> QED BY <1>1, Invariance, PTL

\* At the end the exercise is what it was and no checker runs, unless finally
\* was cut short or the job killed; Ctrl-C before a try leaves a checker, and
\* the exercise as it was (first-run.py:39-49, 121-122, 140-142, 151-152).
THEOREM Restored == Spec => []RestoredAtEnd
<1>1. Inv => RestoredAtEnd
  BY DEF Inv, RestoredAtEnd, Ended, Cleanup, InChecker, InFirstTry, InSecondTry
<1> QED BY <1>1, Invariance, PTL
=============================================================================
