--------------------------- MODULE EndToEndProofs ---------------------------
(***************************************************************************)
(* The two scripts, the learner's work and what a green run is worth, for  *)
(* every course, set of languages, and number of runs and edits.           *)
(***************************************************************************)
EXTENDS EndToEnd, FiniteSetTheorems, SequenceTheorems, TLAPS

-----------------------------------------------------------------------------
(* Types.                                                                  *)

Answers == Exercises \cup {Stray}

LEMMA LangsCounted ==
    ASSUME course \in Courses
    PROVE  Cardinality(course.langs) \in Nat /\ course.langs \subseteq Langs
  <1>1. course.langs \subseteq Langs /\ IsFiniteSet(Langs)
    BY EndToEndAssumption
  <1>2. IsFiniteSet(course.langs)
    BY <1>1, FS_Subset
  <1> QED BY <1>1, <1>2, FS_CardinalityType

LEMMA RunCounted ==
    ASSUME TypeOK, CountRun PROVE runs' \in 0..MaxRuns
  BY LangsCounted, EndToEndAssumption DEF TypeOK, CountRun

LEMMA TypeInit == Init => TypeOK
  <1>1. SUFFICES ASSUME Init PROVE TypeOK
    OBVIOUS
  <1>2. files \in [Langs -> [Exercises -> Contents]] /\ config \in Langs
    BY <1>1, EndToEndAssumption DEF Init, Fresh, Contents
  <1>3. queue \in Seq(Langs)
    BY <1>1 DEF Init
  <1>6. mode \in Seq(Langs)
    BY <1>1 DEF Init
  <1>4. runs \in 0..MaxRuns /\ edits \in 0..MaxEdits
    BY <1>1, EndToEndAssumption DEF Init
  <1>5. /\ outcome \in [Scripts -> Outcomes]
        /\ kept \in [Langs -> [Exercises -> {"none", "draft", "solved"}]]
        /\ touched \in [Scripts -> BOOLEAN]
    BY <1>1 DEF Init, Outcomes
  <1> QED BY <1>1, <1>2, <1>3, <1>4, <1>5, <1>6, EndToEndAssumption DEF Init, TypeOK

\* What is left to do of the languages.
LEMMA QueueTyped ==
    ASSUME TypeOK, queue' = Tail(queue), Len(queue) > 0
    PROVE  queue' \in Seq(Langs)
  BY DEF TypeOK

\* A script that works on languages has one, and tests exercises.
Queued ==
    /\ pc \notin {"idle", "selftest", "smoke"} => Len(queue) > 0
    /\ pc \in {"pristine", "verify"} => todo \subseteq Exercises

LEMMA AtHead ==
    ASSUME TypeOK, Queued, pc \notin {"idle", "selftest", "smoke"}
    PROVE  Head(queue) \in Langs
  BY DEF TypeOK, Queued

LEMMA QueuedInductive == TypeOK /\ Queued /\ [Next]_vars => Queued'
  <1> SUFFICES ASSUME TypeOK, Queued, [Next]_vars PROVE Queued'
    OBVIOUS
  <1> USE DEF Queued
  <1>1. CASE E2EStart
    BY <1>1 DEF E2EStart
  <1>2. ASSUME NEW left \in Seq(Langs), GoThrough(left) PROVE Queued'
    <2>1. CASE left = << >>
      BY <1>2, <2>1 DEF GoThrough
    <2>2. CASE left # << >>
      BY <1>2, <2>2, EmptySeq DEF GoThrough
    <2> QED BY <2>1, <2>2
  <1>11. ASSUME NEW good, Return(good), Len(queue) > 0 PROVE Queued'
    <2>1. Tail(queue) \in Seq(Langs)
      BY <1>11 DEF TypeOK
    <2> QED BY <1>2, <1>11, <2>1 DEF Return
  <1>3. CASE E2EStep
    <2>1. CASE SelfTest
      BY <2>1 DEF SelfTest
    <2>7. CASE Smoke
      BY <2>7, <1>2 DEF Smoke, TypeOK
    <2>2. CASE CheckClean
      BY <2>2, <1>11 DEF CheckClean, Go
    <2>3. CASE Pristine
      BY <2>3, <1>11 DEF Pristine, Go
    <2>4. CASE Overlay
      BY <2>4 DEF Overlay, Go
    <2>5. CASE Verify
      BY <2>5 DEF Verify, Go
    <2>6. CASE Restore
      BY <2>6, <1>11 DEF Restore
    <2> QED BY <1>3, <2>1, <2>2, <2>3, <2>4, <2>5, <2>6, <2>7 DEF E2EStep
  <1>4. CASE E2EInterrupt
    BY <1>4 DEF E2EInterrupt
  <1>5. CASE CheckerStart \/ Script \/ CheckerInterrupt \/ CheckerKill
    BY <1>5 DEF CheckerStart, Script, CheckerOverlay, Configure, ClearState,
         Launch, JudgeChecker, TrapExit, CheckerInterrupt, CheckerKill, e2e
  <1>6. CASE D2xExit \/ D2xHang \/ Watchdog
    BY <1>6 DEF D2xExit, D2xHang, Watchdog, e2e
  <1>7. ASSUME NEW e \in Exercises, D2xCheck(e) \/ OtherProgress(e) PROVE Queued'
    BY <1>7 DEF D2xCheck, OtherProgress, e2e
  <1>8. ASSUME NEW e \in Exercises, NEW l \in Langs, Edit(l, e) \/ Discard(l, e)
        PROVE  Queued'
    BY <1>8 DEF Edit, Discard, e2e
  <1>9. CASE UNCHANGED vars
    BY <1>9 DEF vars, e2e
  <1>10. course.langs \subseteq Langs
    BY LangsCounted DEF TypeOK
  <1> QED BY <1>1, <1>3, <1>4, <1>5, <1>6, <1>7, <1>8, <1>9, <1>10 DEF Next

LEMMA CourseTyped ==
    ASSUME course \in Courses
    PROVE  /\ course.answered \subseteq Answers
           /\ course.langs \subseteq Langs
           /\ \A l \in Langs : /\ course.easy[l] \subseteq Exercises
                              /\ course.fit[l] \subseteq course.right
           /\ course.right \subseteq course.answered
  <1>1. /\ course.answered \subseteq Answers /\ course.langs \subseteq Langs
        /\ course.right \subseteq course.answered
    BY EndToEndAssumption DEF Answers
  <1>2. /\ course.easy \in [Langs -> SUBSET Exercises]
        /\ course.fit \in [Langs -> SUBSET course.right]
    BY EndToEndAssumption
  <1>3. ASSUME NEW l \in Langs
        PROVE  course.easy[l] \subseteq Exercises /\ course.fit[l] \subseteq course.right
    <2>1. course.easy[l] \in SUBSET Exercises
      BY <1>2
    <2>2. course.fit[l] \in SUBSET course.right
      BY <1>2
    <2> QED BY <2>1, <2>2
  <1> QED BY <1>1, <1>3

\* The end of run_lang, and its steps within.
LEMMA ReturnTyped ==
    ASSUME TypeOK, Queued, pc \notin {"idle", "selftest", "smoke"},
           NEW good \in BOOLEAN, Return(good)
    PROVE  /\ queue' \in Seq(Langs) /\ rc' \in BOOLEAN /\ ok' \in BOOLEAN
           /\ todo' \subseteq Answers
           /\ laid' \subseteq Exercises /\ passed' \subseteq Exercises
           /\ pc' \in {"idle", "dirty"}
           /\ outcome' \in [Scripts -> Outcomes]
  <1>1. queue' \in Seq(Langs)
    BY QueueTyped DEF Return, GoThrough, Queued
  <1>2. outcome' \in [Scripts -> Outcomes]
    BY DEF TypeOK, Return, GoThrough, Outcomes
  <1> QED BY <1>1, <1>2 DEF TypeOK, Return, GoThrough

LEMMA TypeE2E ==
    ASSUME TypeOK, Queued, E2EStart \/ E2EStep \/ E2EInterrupt PROVE TypeOK'
  <1> USE DEF TypeOK
  <1>1. CASE E2EStart
    <2>1. queue' \in Seq(Langs) /\ mode' \in Seq(Langs) /\ runs' \in 0..MaxRuns
      BY <1>1, RunCounted, EndToEndAssumption DEF E2EStart
    <2>2. /\ outcome' \in [Scripts -> Outcomes]
          /\ touched' \in [Scripts -> BOOLEAN]
      BY <1>1 DEF E2EStart, Outcomes
    <2> QED BY <1>1, <2>1, <2>2 DEF E2EStart, tree, chk, checker
  <1>2. CASE SelfTest
    BY <1>2 DEF SelfTest, tree, chk, checker, history
  <1>3. CASE Smoke
    <2>1. /\ pc' \in {"idle", "dirty"} /\ queue' \in Seq(Langs)
          /\ outcome' \in [Scripts -> Outcomes]
      BY <1>3 DEF Smoke, GoThrough, Outcomes
    <2>2. /\ rc' \in BOOLEAN
          /\ UNCHANGED <<course, mode, tree, todo, laid, passed, ok, chk, checker, runs,
                         history>>
      BY <1>3 DEF Smoke
    <2> QED BY <2>1, <2>2 DEF tree, chk, checker, history
  <1>4. CASE CheckClean
    <2>1. CASE Return(FALSE) /\ UNCHANGED overlap
      BY <1>4, <2>1, ReturnTyped DEF CheckClean, tree, chk, checker, Answers
    <2>2. CASE Go("pristine") /\ todo' = Exercises
      <3>1. overlap' \in BOOLEAN
        BY <1>4, <2>2 DEF CheckClean, CheckerAtWork, Return, Go
      <3> QED BY <1>4, <2>2, <3>1 DEF CheckClean, Go, Return, tree, chk, checker
    <2> QED BY <1>4, <2>1, <2>2 DEF CheckClean
  <1>5. CASE Pristine
    <2>1. CASE Return(FALSE)
      BY <1>5, <2>1, ReturnTyped DEF Pristine, tree, chk, checker, history, Answers
    <2>2. CASE ~Return(FALSE)
      <3>1. /\ pc' \in {"pristine", "overlay"} /\ todo' \subseteq Answers
            /\ UNCHANGED <<queue, rc, outcome, laid, passed, ok>>
        <4>1. course.answered \subseteq Answers
          BY CourseTyped
        <4> QED BY <1>5, <2>2, <4>1 DEF Pristine, Go, Answers
      <3> QED BY <1>5, <3>1 DEF Pristine, tree, chk, checker, history, Answers
    <2> QED BY <2>1, <2>2
  <1>6. CASE Overlay
    <2>1. files' \in [Langs -> [Exercises -> Contents]]
      <3>1. Head(queue) \in Langs
        BY <1>6, AtHead DEF Overlay
      <3>2. \A e \in Exercises :
              [files EXCEPT ![Head(queue)][e] = "answer"]
                \in [Langs -> [Exercises -> Contents]]
        BY <3>1 DEF Contents
      <3>3. \/ files' = files
            \/ \E e \in Exercises :
                 files' = [files EXCEPT ![Head(queue)][e] = "answer"]
        BY <1>6 DEF Overlay, Lay
      <3> QED BY <3>2, <3>3
    <2>2. /\ todo' \subseteq Answers /\ laid' \subseteq Exercises
          /\ ok' \in BOOLEAN /\ passed' \subseteq Exercises
          /\ pc' \in {"overlay", "restore", "verify"}
          /\ UNCHANGED <<queue, rc, outcome>>
      BY <1>6 DEF Overlay, Go, Answers
    <2> QED BY <1>6, <2>1, <2>2 DEF Overlay, chk, checker, history, Answers
  <1>7. CASE Verify
    <2>1. /\ todo' \subseteq Answers /\ passed' \subseteq Exercises
          /\ ok' \in BOOLEAN /\ pc' \in {"verify", "restore"}
          /\ UNCHANGED <<queue, rc, outcome, laid>>
      <3>0. todo \subseteq Exercises
        BY <1>7 DEF Verify, Queued
      <3>1. ASSUME NEW e \in todo, todo' = todo \ {e}, Go("verify"),
                   \/ /\ Passes(Head(queue), e)
                      /\ passed' = passed \cup {e} /\ UNCHANGED ok
                   \/ ok' = FALSE /\ UNCHANGED passed
            PROVE  /\ todo' \subseteq Answers /\ passed' \subseteq Exercises
                   /\ ok' \in BOOLEAN /\ pc' \in {"verify", "restore"}
                   /\ UNCHANGED <<queue, rc, outcome>>
        BY <3>0, <3>1 DEF Go, Answers
      <3> QED BY <1>7, <3>1 DEF Verify, Go, Answers
    <2> QED BY <1>7, <2>1 DEF Verify, tree, chk, checker, history, Answers
  <1>8. CASE Restore
    <2>1. files' \in [Langs -> [Exercises -> Contents]] /\ cut' \in BOOLEAN
      <3>1. Fresh \in [Exercises -> Contents]
        BY DEF Fresh, Contents
      <3> QED BY <1>8, <3>1 DEF Restore, Restored
    <2>2. PICK good \in BOOLEAN : Return(good)
      BY <1>8 DEF Restore
    <2> QED BY <1>8, <2>1, <2>2, ReturnTyped
            DEF Restore, chk, checker, Answers
  <1>9. CASE E2EInterrupt
    <2>1. /\ queue' \in Seq(Langs) /\ mode' \in Seq(Langs)
          /\ outcome' \in [Scripts -> Outcomes]
      <3>1. "red" \in Outcomes
        BY DEF Outcomes
      <3> QED BY <1>9, <3>1, EmptySeq DEF E2EInterrupt
    <2> QED BY <1>9, <2>1 DEF E2EInterrupt, tree, chk, checker
  <1> QED BY <1>1, <1>2, <1>3, <1>4, <1>5, <1>6, <1>7, <1>8, <1>9 DEF E2EStep

LEMMA ExitTyped ==
    ASSUME TypeOK, NEW result \in Outcomes, CExit(result)
    PROVE  cpc' = "exit" /\ outcome' \in [Scripts -> Outcomes]
  BY DEF TypeOK, CExit

LEMMA TypeChecker ==
    ASSUME TypeOK, CheckerStart \/ Script \/ CheckerInterrupt \/ CheckerKill
    PROVE  TypeOK'
  <1> USE DEF TypeOK
  <1>0. "red" \in Outcomes /\ "green" \in Outcomes /\ "none" \in Outcomes
    BY DEF Outcomes
  <1>1. CASE CheckerStart
    <2>1. runs' \in 0..MaxRuns
      BY <1>1, RunCounted DEF CheckerStart
    <2>2. PICK l \in course.langs :
            \/ /\ outcome' = [outcome EXCEPT !["checker"] = "red"]
               /\ UNCHANGED <<chk, touched, overlap>>
            \/ /\ cpc' = "overlay" /\ clang' = l
               /\ ctodo' = course.answered /\ claid' = {} /\ code' = "none"
               /\ outcome' = [outcome EXCEPT !["checker"] = "none"]
               /\ touched' = [touched EXCEPT !["checker"] = FALSE]
               /\ overlap' = (overlap \/ E2EAtWork(l))
      BY <1>1 DEF CheckerStart
    <2>3. l \in Langs /\ course.answered \subseteq Answers
      BY CourseTyped
    <2>4. /\ outcome' \in [Scripts -> Outcomes] /\ overlap' \in BOOLEAN
          /\ touched' \in [Scripts -> BOOLEAN]
      BY <1>0, <2>2 DEF E2EAtWork
    <2>5. /\ cpc' \in {"idle", "overlay", "configure", "clear", "launch", "wait",
                      "exit"}
          /\ clang' \in Langs /\ ctodo' \subseteq Answers
          /\ claid' \subseteq Exercises /\ code' \in {"none", "zero", "other"}
      BY <2>2, <2>3 DEF chk, Answers
    <2> QED BY <1>1, <2>1, <2>4, <2>5 DEF CheckerStart, tree, e2e, checker, Answers
  <1>2. CASE CheckerOverlay
    <2>1. files' \in [Langs -> [Exercises -> Contents]]
      BY <1>2 DEF CheckerOverlay, Lay, Contents
    <2>2. /\ cpc' \in {"overlay", "exit", "configure"}
          /\ outcome' \in [Scripts -> Outcomes]
      BY <1>2, <1>0, ExitTyped DEF CheckerOverlay, CGo
    <2>3. claid' \subseteq Exercises /\ ctodo' \subseteq Answers
      BY <1>2 DEF CheckerOverlay, Answers
    <2> QED BY <1>2, <2>1, <2>2, <2>3 DEF CheckerOverlay, e2e, checker, history, Answers
  <1>3. CASE Configure \/ ClearState
    BY <1>3 DEF Configure, ClearState, CGo, e2e, checker, history
  <1>4. CASE Launch
    BY <1>4 DEF Launch, CGo, tree, e2e, history
  <1>5. CASE JudgeChecker
    <2>1. cpc' = "exit" /\ outcome' \in [Scripts -> Outcomes]
      BY <1>5, <1>0, ExitTyped DEF JudgeChecker
    <2> QED BY <1>5, <2>1 DEF JudgeChecker, tree, e2e, history
  <1>6. CASE TrapExit
    <2>1. /\ files' \in [Langs -> [Exercises -> Contents]] /\ config' \in Langs
          /\ cut' \in BOOLEAN
      <3>1. Fresh \in [Exercises -> Contents]
        BY DEF Fresh, Contents
      <3>2. [files EXCEPT ![clang] = Fresh] \in [Langs -> [Exercises -> Contents]]
        BY <3>1
      <3>3. Committed \in Langs
        BY EndToEndAssumption
      <3> QED BY <1>6, <3>2, <3>3 DEF TrapExit
    <2> QED BY <1>6, <2>1 DEF TrapExit, e2e, checker
  <1>7. CASE CheckerInterrupt
    <2>1. cpc' = "exit" /\ outcome' \in [Scripts -> Outcomes]
      BY <1>7, <1>0, ExitTyped DEF CheckerInterrupt
    <2> QED BY <1>7, <2>1 DEF CheckerInterrupt, Forget, tree, e2e, history
  <1>8. CASE CheckerKill
    <2>1. outcome' \in [Scripts -> Outcomes]
      BY <1>8, <1>0 DEF CheckerKill
    <2> QED BY <1>8, <2>1 DEF CheckerKill, Forget, tree, e2e
  <1> QED BY <1>1, <1>2, <1>3, <1>4, <1>5, <1>6, <1>7, <1>8 DEF Script

LEMMA TypeOthers ==
    ASSUME TypeOK,
           \/ D2xExit \/ D2xHang \/ Watchdog
           \/ \E e \in Exercises :
                \/ D2xCheck(e) \/ OtherProgress(e)
                \/ \E l \in Langs : Edit(l, e) \/ Discard(l, e)
    PROVE  TypeOK'
  <1> USE DEF TypeOK
  <1>1. CASE D2xExit \/ D2xHang \/ Watchdog
    BY <1>1 DEF D2xExit, D2xHang, Watchdog, tree, e2e, chk, history
  <1>2. ASSUME NEW e \in Exercises, D2xCheck(e) \/ OtherProgress(e) PROVE TypeOK'
    BY <1>2 DEF D2xCheck, OtherProgress, e2e, chk, checker, history
  <1>3. ASSUME NEW e \in Exercises, NEW l \in Langs, Edit(l, e) PROVE TypeOK'
    <2>1. PICK text \in {"draft", "solved"} :
            /\ files' = [files EXCEPT ![l][e] = text]
            /\ kept' = [kept EXCEPT ![l][e] =
                          IF E2EAtWork(l) \/ CheckerAtWork(l) THEN "none" ELSE text]
      BY <1>3 DEF Edit
    <2>2. files' \in [Langs -> [Exercises -> Contents]]
      BY <2>1 DEF Contents
    <2>3. kept' \in [Langs -> [Exercises -> {"none", "draft", "solved"}]]
      BY <2>1
    <2>4. touched' \in [Scripts -> BOOLEAN] /\ edits' \in 0..MaxEdits
      <3>1. Scripts = {"e2e", "checker"}
        BY DEF Scripts
      <3>2. touched["e2e"] \in BOOLEAN /\ touched["checker"] \in BOOLEAN
        BY <3>1
      <3>3. touched' \in [{"e2e", "checker"} -> BOOLEAN]
        <4>1. PICK a \in BOOLEAN, b \in BOOLEAN : touched' = [e2e |-> a, checker |-> b]
          <5>1. /\ (touched["e2e"] \/ E2EAtWork(l)) \in BOOLEAN
                /\ (touched["checker"] \/ CheckerAtWork(l)) \in BOOLEAN
            OBVIOUS
          <5> QED BY <1>3, <5>1 DEF Edit
        <4> QED BY <4>1
      <3> QED BY <1>3, <3>1, <3>3, EndToEndAssumption DEF Edit
    <2> QED BY <1>3, <2>2, <2>3, <2>4 DEF Edit, e2e, chk, checker
  <1>4. ASSUME NEW e \in Exercises, NEW l \in Langs, Discard(l, e) PROVE TypeOK'
    <2>1. files' \in [Langs -> [Exercises -> Contents]]
      BY <1>4 DEF Discard, Contents
    <2>2. kept' \in [Langs -> [Exercises -> {"none", "draft", "solved"}]]
      BY <1>4 DEF Discard
    <2> QED BY <1>4, <2>1, <2>2 DEF Discard, e2e, chk, checker
  <1> QED BY <1>1, <1>2, <1>3, <1>4

LEMMA TypeInductive == TypeOK /\ Queued /\ [Next]_vars => TypeOK'
  <1> SUFFICES ASSUME TypeOK, Queued, [Next]_vars PROVE TypeOK'
    OBVIOUS
  <1>1. CASE UNCHANGED vars
    BY <1>1 DEF vars, TypeOK, tree, e2e, chk, checker, history
  <1>2. course.langs \subseteq Langs
    BY CourseTyped DEF TypeOK
  <1> QED BY <1>1, <1>2, TypeE2E, TypeChecker, TypeOthers DEF Next

LEMMA Typed == Spec => [](TypeOK /\ Queued)
  <1>1. Init => Queued
    BY DEF Init, Queued
  <1> QED BY <1>1, TypeInit, TypeInductive, QueuedInductive, PTL DEF Spec

\* The scripts' variables keep their types, for every course.
THEOREM TypeCorrect == Spec => []TypeOK
  BY Typed, PTL

-----------------------------------------------------------------------------
(* The learner's work.  The inductive invariant adds to WorkSurvives that  *)
(* where a script is past its dirty check no work is counted as kept.      *)

Safe ==
    \A l \in Langs, e \in Exercises :
        /\ kept[l][e] # "none" => files[l][e] = kept[l][e]
        /\ E2EAtWork(l) \/ CheckerAtWork(l) => kept[l][e] = "none"

\* A language found clean holds no work.
LEMMA CleanHoldsNone ==
    ASSUME TypeOK, Safe, NEW l \in Langs, ~Dirty(l), NEW e \in Exercises
    PROVE  kept[l][e] = "none"
  <1>1. files[l][e] = "task"
    BY DEF Dirty, Fresh
  <1>2. kept[l][e] \in {"none", "draft", "solved"}
    BY DEF TypeOK
  <1> QED BY <1>1, <1>2 DEF Safe

\* A step that changes files in one language, where a script is at work.
LEMMA OverwritesAtWork ==
    ASSUME TypeOK, Safe, NEW l \in Langs, E2EAtWork(l) \/ CheckerAtWork(l),
           \A k \in Langs \ {l} : files'[k] = files[k],
           UNCHANGED kept,
           \A k \in Langs :
             E2EAtWork(k)' \/ CheckerAtWork(k)' => E2EAtWork(k) \/ CheckerAtWork(k)
    PROVE  Safe'
  <1>1. SUFFICES ASSUME NEW k \in Langs, NEW e \in Exercises
                 PROVE  /\ kept[k][e] # "none" => files'[k][e] = kept[k][e]
                        /\ (E2EAtWork(k) \/ CheckerAtWork(k))' => kept[k][e] = "none"
    BY DEF Safe, E2EAtWork, CheckerAtWork
  <1> QED BY DEF Safe

\* A step that changes no file, and after which no script is newly at work.
LEMMA LeavesFiles ==
    ASSUME Safe, UNCHANGED <<files, kept>>,
           \A k \in Langs :
             E2EAtWork(k)' \/ CheckerAtWork(k)' => E2EAtWork(k) \/ CheckerAtWork(k)
    PROVE  Safe'
  <1>1. SUFFICES ASSUME NEW k \in Langs, NEW e \in Exercises
                 PROVE  /\ kept[k][e] # "none" => files[k][e] = kept[k][e]
                        /\ (E2EAtWork(k) \/ CheckerAtWork(k))' => kept[k][e] = "none"
    BY DEF Safe, E2EAtWork, CheckerAtWork
  <1> QED BY DEF Safe

LEMMA SafeInductive == TypeOK /\ Queued /\ Safe /\ [Next]_vars => Safe'
  <1> SUFFICES ASSUME TypeOK, Queued, Safe, [Next]_vars PROVE Safe'
    OBVIOUS
  <1>1. ASSUME UNCHANGED <<files, kept, cpc, clang>>,
               pc' \in {"idle", "selftest", "smoke", "dirty"}
        PROVE  Safe'
    BY <1>1, LeavesFiles DEF E2EAtWork, CheckerAtWork
  <1>2. ASSUME UNCHANGED <<files, kept, pc, queue, cpc, clang>> PROVE Safe'
    BY <1>2, LeavesFiles DEF E2EAtWork, CheckerAtWork
  <1>3. ASSUME UNCHANGED <<files, kept, queue, cpc, clang>>, E2EAtWork(Head(queue))
        PROVE  Safe'
    BY <1>3, LeavesFiles DEF E2EAtWork, CheckerAtWork
  <1>4. ASSUME UNCHANGED <<files, kept, pc, queue, clang>>, cpc # "idle"
        PROVE  Safe'
    BY <1>4, LeavesFiles DEF E2EAtWork, CheckerAtWork
  <1>5. CASE E2EStart \/ E2EInterrupt
    BY <1>5, <1>1 DEF E2EStart, E2EInterrupt, tree, chk
  <1>6. CASE SelfTest \/ Smoke
    BY <1>6, <1>1 DEF SelfTest, Smoke, GoThrough, tree, chk, history
  <1>7. CASE CheckClean
    <2>1. CASE Dirty(Head(queue))
      BY <1>7, <2>1, <1>1 DEF CheckClean, Return, GoThrough, tree, chk
    <2>2. CASE ~Dirty(Head(queue))
      <3>1. /\ pc' = "pristine" /\ UNCHANGED <<queue, files, kept, cpc, clang>>
            /\ Head(queue) \in Langs
        BY <1>7, <2>2, AtHead DEF CheckClean, Go, tree, chk
      <3>2. SUFFICES ASSUME NEW l \in Langs, NEW e \in Exercises
                     PROVE  /\ kept[l][e] # "none" => files[l][e] = kept[l][e]
                            /\ (E2EAtWork(l) \/ CheckerAtWork(l))' =>
                                 kept[l][e] = "none"
        BY <3>1 DEF Safe, E2EAtWork, CheckerAtWork
      <3>3. CASE l = Head(queue)
        BY <2>2, <3>3, CleanHoldsNone
      <3>4. CASE l # Head(queue)
        BY <3>1, <3>4 DEF Safe, E2EAtWork, CheckerAtWork
      <3> QED BY <3>3, <3>4
    <2> QED BY <2>1, <2>2
  <1>8. CASE Pristine
    <2>1. CASE Return(FALSE)
      BY <1>8, <2>1, <1>1 DEF Pristine, Return, GoThrough, tree, chk, history
    <2>2. CASE ~Return(FALSE)
      BY <1>8, <2>2, <1>3 DEF Pristine, Go, tree, chk, history, E2EAtWork
    <2> QED BY <2>1, <2>2
  <1>9. CASE Overlay
    <2>1. /\ Head(queue) \in Langs /\ E2EAtWork(Head(queue))
          /\ UNCHANGED <<kept, queue, cpc, clang>>
      BY <1>9, AtHead DEF Overlay, Go, E2EAtWork, chk, history
    <2>2. \A k \in Langs \ {Head(queue)} : files'[k] = files[k]
      BY <1>9, <2>1 DEF Overlay, Lay, TypeOK
    <2> QED BY <2>1, <2>2, OverwritesAtWork DEF E2EAtWork, CheckerAtWork
  <1>10. CASE Verify
    BY <1>10, <1>3 DEF Verify, Go, tree, chk, history, E2EAtWork
  <1>11. CASE Restore
    <2>1. /\ Head(queue) \in Langs /\ E2EAtWork(Head(queue))
          /\ UNCHANGED <<kept, cpc, clang>> /\ pc' \in {"idle", "dirty"}
      BY <1>11, AtHead DEF Restore, Return, GoThrough, E2EAtWork, chk
    <2>2. \A k \in Langs \ {Head(queue)} : files'[k] = files[k]
      BY <1>11, <2>1 DEF Restore, Restored, TypeOK
    <2> QED BY <2>1, <2>2, OverwritesAtWork DEF E2EAtWork, CheckerAtWork
  <1>12. CASE CheckerStart
    <2>1. PICK l \in course.langs :
            \/ UNCHANGED chk
            \/ ~Dirty(l) /\ clang' = l
      BY <1>12 DEF CheckerStart
    <2>2. UNCHANGED <<files, kept, pc, queue>> /\ cpc = "idle" /\ l \in Langs
      BY <1>12, <2>1, CourseTyped DEF CheckerStart, tree, e2e, TypeOK
    <2>3. CASE UNCHANGED chk
      BY <2>2, <2>3, <1>2 DEF chk
    <2>4. CASE ~Dirty(l) /\ clang' = l
      <3>1. SUFFICES ASSUME NEW k \in Langs, NEW e \in Exercises
                     PROVE  /\ kept[k][e] # "none" => files[k][e] = kept[k][e]
                            /\ (E2EAtWork(k) \/ CheckerAtWork(k))' =>
                                 kept[k][e] = "none"
        BY <2>2 DEF Safe, E2EAtWork, CheckerAtWork
      <3>2. CASE k = l
        BY <2>2, <2>4, <3>2, CleanHoldsNone
      <3>3. CASE k # l
        BY <2>2, <2>4, <3>3 DEF Safe, E2EAtWork, CheckerAtWork
      <3> QED BY <3>2, <3>3
    <2> QED BY <2>1, <2>3, <2>4
  <1>13. CASE CheckerOverlay
    <2>1. /\ clang \in Langs /\ CheckerAtWork(clang)
          /\ UNCHANGED <<kept, pc, queue, clang>>
      BY <1>13 DEF CheckerOverlay, CheckerAtWork, TypeOK, e2e, history
    <2>2. \A k \in Langs \ {clang} : files'[k] = files[k]
      BY <1>13, <2>1 DEF CheckerOverlay, Lay, TypeOK
    <2> QED BY <2>1, <2>2, OverwritesAtWork DEF E2EAtWork, CheckerAtWork
  <1>14. CASE Configure \/ ClearState \/ Launch \/ JudgeChecker
    BY <1>14, <1>4 DEF Configure, ClearState, Launch, JudgeChecker, tree, e2e, history
  <1>15. CASE TrapExit
    <2>1. /\ clang \in Langs /\ CheckerAtWork(clang)
          /\ UNCHANGED <<kept, pc, queue, clang>> /\ cpc' = "idle"
      BY <1>15 DEF TrapExit, CheckerAtWork, TypeOK, e2e
    <2>2. \A k \in Langs \ {clang} : files'[k] = files[k]
      BY <1>15, <2>1 DEF TrapExit, TypeOK
    <2> QED BY <2>1, <2>2, OverwritesAtWork DEF E2EAtWork, CheckerAtWork
  <1>16. CASE CheckerInterrupt \/ CheckerKill
    BY <1>16, <1>4 DEF CheckerInterrupt, CheckerKill, tree, e2e, history
  <1>17. CASE D2xExit \/ D2xHang \/ Watchdog
    BY <1>17, <1>2 DEF D2xExit, D2xHang, Watchdog, tree, e2e, chk, history
  <1>18. ASSUME NEW e \in Exercises, D2xCheck(e) \/ OtherProgress(e) PROVE Safe'
    BY <1>18, <1>2 DEF D2xCheck, OtherProgress, e2e, chk, history
  <1>19. ASSUME NEW e \in Exercises, NEW l \in Langs, Edit(l, e) PROVE Safe'
    <2>1. PICK text \in {"draft", "solved"} :
            /\ files' = [files EXCEPT ![l][e] = text]
            /\ kept' = [kept EXCEPT ![l][e] =
                          IF E2EAtWork(l) \/ CheckerAtWork(l) THEN "none" ELSE text]
            /\ UNCHANGED <<pc, queue, cpc, clang>>
      BY <1>19 DEF Edit, e2e, chk
    <2>2. SUFFICES ASSUME NEW k \in Langs, NEW x \in Exercises
                   PROVE  /\ kept'[k][x] # "none" => files'[k][x] = kept'[k][x]
                          /\ E2EAtWork(k) \/ CheckerAtWork(k) => kept'[k][x] = "none"
      BY <2>1 DEF Safe, E2EAtWork, CheckerAtWork
    <2>3. CASE k = l /\ x = e
      BY <2>1, <2>3 DEF TypeOK
    <2>4. CASE ~(k = l /\ x = e)
      <3>1. files'[k][x] = files[k][x] /\ kept'[k][x] = kept[k][x]
        BY <2>1, <2>4 DEF TypeOK
      <3> QED BY <3>1 DEF Safe
    <2> QED BY <2>3, <2>4
  <1>20. ASSUME NEW e \in Exercises, NEW l \in Langs, Discard(l, e) PROVE Safe'
    <2>1. /\ files' = [files EXCEPT ![l][e] = "task"]
          /\ kept' = [kept EXCEPT ![l][e] = "none"]
          /\ UNCHANGED <<pc, queue, cpc, clang>>
      BY <1>20 DEF Discard, e2e, chk
    <2>2. SUFFICES ASSUME NEW k \in Langs, NEW x \in Exercises
                   PROVE  /\ kept'[k][x] # "none" => files'[k][x] = kept'[k][x]
                          /\ E2EAtWork(k) \/ CheckerAtWork(k) => kept'[k][x] = "none"
      BY <2>1 DEF Safe, E2EAtWork, CheckerAtWork
    <2>3. CASE k = l /\ x = e
      BY <2>1, <2>3 DEF TypeOK
    <2>4. CASE ~(k = l /\ x = e)
      <3>1. files'[k][x] = files[k][x] /\ kept'[k][x] = kept[k][x]
        BY <2>1, <2>4 DEF TypeOK
      <3> QED BY <3>1 DEF Safe
    <2> QED BY <2>3, <2>4
  <1>21. CASE UNCHANGED vars
    BY <1>21, <1>2 DEF vars, tree, e2e, chk, history
  <1>22. course.langs \subseteq Langs
    BY CourseTyped DEF TypeOK
  <1> QED BY <1>5, <1>6, <1>7, <1>8, <1>9, <1>10, <1>11, <1>12, <1>13, <1>14,
             <1>15, <1>16, <1>17, <1>18, <1>19, <1>20, <1>21, <1>22
          DEF Next, E2EStep, Script

\* What the learner edits outside the scripts' runs is never overwritten.
THEOREM WorkSafe == Spec => []WorkSurvives
  <1>1. Init => Safe
    BY DEF Init, Safe, E2EAtWork, CheckerAtWork
  <1>2. Safe => WorkSurvives
    BY DEF Safe, WorkSurvives
  <1> QED BY <1>1, <1>2, SafeInductive, Typed, PTL DEF Spec

-----------------------------------------------------------------------------
(* The restoration.  While nothing is cut short, an answer lies only where *)
(* a script has still to restore, and so does a switched configuration.    *)

ToRestore(l) ==
    \/ pc \in {"overlay", "verify", "restore"} /\ l = Head(queue)
    \/ CheckerAtWork(l)

Restorable ==
    ~cut =>
      /\ \A l \in Langs, e \in Exercises : files[l][e] = "answer" => ToRestore(l)
      /\ config # Committed => cpc # "idle"

\* A step that lays no answer and leaves no script.
LEMMA StillToRestore ==
    ASSUME Restorable, cut' \/ UNCHANGED cut,
           \A l \in Langs, e \in Exercises :
             files'[l][e] = "answer" => files[l][e] = "answer",
           \A l \in Langs : ToRestore(l) => ToRestore(l)',
           config' # Committed => config # Committed,
           cpc # "idle" => cpc' # "idle"
    PROVE  Restorable'
  <1>1. SUFFICES ASSUME ~cut'
                 PROVE  /\ \A l \in Langs, e \in Exercises :
                             files'[l][e] = "answer" => ToRestore(l)'
                        /\ config' # Committed => cpc' # "idle"
    BY DEF Restorable
  <1> QED BY <1>1 DEF Restorable

LEMMA RestorableInductive ==
    TypeOK /\ Queued /\ Restorable /\ [Next]_vars => Restorable'
  <1> SUFFICES ASSUME TypeOK, Queued, Restorable, [Next]_vars PROVE Restorable'
    OBVIOUS
  <1>1. ASSUME UNCHANGED <<files, config, cpc, clang, cut>>,
               pc \notin {"overlay", "verify", "restore"}
        PROVE  Restorable'
    BY <1>1, StillToRestore DEF ToRestore, CheckerAtWork
  <1>2. ASSUME UNCHANGED <<files, config, pc, queue, cpc, clang, cut>>
        PROVE  Restorable'
    BY <1>2, StillToRestore DEF ToRestore, CheckerAtWork
  <1>3. ASSUME UNCHANGED <<files, config, pc, queue, clang, cut>>, cpc' # "idle",
               cpc # "idle"
        PROVE  Restorable'
    BY <1>3, StillToRestore DEF ToRestore, CheckerAtWork
  <1>4. CASE E2EStart
    BY <1>4, <1>1 DEF E2EStart, tree, chk
  <1>5. CASE SelfTest \/ Smoke
    BY <1>5, <1>1 DEF SelfTest, Smoke, tree, chk, history
  <1>6. CASE CheckClean
    BY <1>6, <1>1 DEF CheckClean, tree, chk
  <1>7. CASE Pristine
    BY <1>7, <1>1 DEF Pristine, tree, chk, history
  <1>8. CASE Overlay
    <2>1. /\ UNCHANGED <<queue, config, cpc, clang, cut>> /\ Head(queue) \in Langs
          /\ pc = "overlay" /\ pc' \in {"overlay", "verify", "restore"}
      BY <1>8, AtHead DEF Overlay, Go, chk, history
    <2>2. \A k \in Langs \ {Head(queue)} : files'[k] = files[k]
      BY <1>8, <2>1 DEF Overlay, Lay, TypeOK
    <2>3. SUFFICES ASSUME ~cut, NEW l \in Langs, NEW e \in Exercises,
                          files'[l][e] = "answer"
                   PROVE  ToRestore(l)'
      BY <2>1 DEF Restorable
    <2>4. CASE l = Head(queue)
      BY <2>1, <2>4 DEF ToRestore
    <2>5. CASE l # Head(queue)
      BY <2>1, <2>2, <2>3, <2>5 DEF Restorable, ToRestore, CheckerAtWork
    <2> QED BY <2>4, <2>5
  <1>9. CASE Verify
    BY <1>9, StillToRestore DEF Verify, Go, tree, chk, history, ToRestore, CheckerAtWork
  <1>10. CASE Restore
    <2>1. /\ UNCHANGED <<config, cpc, clang>> /\ Head(queue) \in Langs
          /\ cut' \/ (UNCHANGED cut /\ files' = [files EXCEPT ![Head(queue)] = Fresh])
      BY <1>10, AtHead DEF Restore, Restored, chk
    <2>2. SUFFICES ASSUME ~cut', NEW l \in Langs, NEW e \in Exercises,
                          files'[l][e] = "answer"
                   PROVE  ToRestore(l)'
      BY <2>1 DEF Restorable
    <2>3. l # Head(queue) /\ files[l][e] = "answer" /\ ~cut
      BY <2>1, <2>2 DEF TypeOK, Fresh
    <2> QED BY <2>1, <2>3 DEF Restorable, ToRestore, CheckerAtWork
  <1>11. CASE E2EInterrupt
    <2>1. CASE pc \in {"overlay", "verify", "restore"}
      BY <1>11, <2>1 DEF E2EInterrupt, Restorable
    <2>2. CASE pc \notin {"overlay", "verify", "restore"}
      <3>1. UNCHANGED <<files, config, cpc, clang, cut>>
        BY <1>11, <2>2 DEF E2EInterrupt, TypeOK, tree, chk
      <3> QED BY <2>2, <3>1, <1>1
    <2> QED BY <2>1, <2>2
  <1>12. CASE CheckerStart
    <2>1. /\ UNCHANGED <<files, config, pc, queue, cut>> /\ cpc = "idle"
      BY <1>12 DEF CheckerStart, tree, e2e
    <2>2. \A l \in Langs : ToRestore(l) => ToRestore(l)'
      BY <2>1 DEF ToRestore, CheckerAtWork
    <2> QED BY <2>1, <2>2, StillToRestore
  <1>13. CASE CheckerOverlay
    <2>1. /\ clang \in Langs /\ cpc # "idle" /\ cpc' # "idle"
          /\ UNCHANGED <<config, pc, queue, clang, cut>>
      BY <1>13 DEF CheckerOverlay, CGo, CExit, TypeOK, e2e, history
    <2>2. \A k \in Langs \ {clang} : files'[k] = files[k]
      BY <1>13, <2>1 DEF CheckerOverlay, Lay, TypeOK
    <2>3. SUFFICES ASSUME ~cut, NEW l \in Langs, NEW e \in Exercises,
                          files'[l][e] = "answer"
                   PROVE  ToRestore(l)'
      BY <2>1 DEF Restorable
    <2>4. CASE l = clang
      BY <2>1, <2>4 DEF ToRestore, CheckerAtWork
    <2>5. CASE l # clang
      BY <2>1, <2>2, <2>3, <2>5 DEF Restorable, ToRestore, CheckerAtWork
    <2> QED BY <2>4, <2>5
  <1>14. CASE Configure
    <2>1. /\ cpc # "idle" /\ cpc' # "idle"
          /\ UNCHANGED <<files, pc, queue, clang, cut>>
      BY <1>14 DEF Configure, CGo, e2e, history
    <2> QED BY <2>1 DEF Restorable, ToRestore, CheckerAtWork
  <1>15. CASE ClearState \/ Launch \/ JudgeChecker \/ CheckerInterrupt
    BY <1>15, <1>3 DEF ClearState, Launch, JudgeChecker, CheckerInterrupt, CGo,
                       CExit, tree, e2e, history
  <1>16. CASE TrapExit
    <2>1. /\ UNCHANGED <<pc, queue, clang>> /\ clang \in Langs
          /\ cut' \/ (/\ UNCHANGED cut /\ config' = Committed
                      /\ files' = [files EXCEPT ![clang] = Fresh])
      BY <1>16 DEF TrapExit, e2e, TypeOK
    <2>2. SUFFICES ASSUME ~cut', NEW l \in Langs, NEW e \in Exercises,
                          files'[l][e] = "answer"
                   PROVE  ToRestore(l)'
      BY <2>1 DEF Restorable
    <2>3. l # clang /\ files[l][e] = "answer" /\ ~cut
      BY <2>1, <2>2 DEF TypeOK, Fresh
    <2> QED BY <2>1, <2>3 DEF Restorable, ToRestore, CheckerAtWork
  <1>17. CASE CheckerKill
    BY <1>17 DEF CheckerKill, Restorable
  <1>18. CASE D2xExit \/ D2xHang \/ Watchdog
    BY <1>18, <1>2 DEF D2xExit, D2xHang, Watchdog, tree, e2e, chk, history
  <1>19. ASSUME NEW e \in Exercises, D2xCheck(e) \/ OtherProgress(e)
         PROVE  Restorable'
    BY <1>19, <1>2 DEF D2xCheck, OtherProgress, e2e, chk, history
  <1>20. ASSUME NEW e \in Exercises, NEW l \in Langs, Edit(l, e) \/ Discard(l, e)
         PROVE  Restorable'
    <2>1. /\ UNCHANGED <<config, pc, queue, cpc, clang, cut>>
          /\ \E text \in {"draft", "solved", "task"} :
               files' = [files EXCEPT ![l][e] = text]
      BY <1>20 DEF Edit, Discard, e2e, chk
    <2>2. \A k \in Langs, x \in Exercises :
            files'[k][x] = "answer" => files[k][x] = "answer"
      BY <2>1 DEF TypeOK
    <2> QED BY <2>1, <2>2, StillToRestore DEF ToRestore, CheckerAtWork
  <1>21. CASE UNCHANGED vars
    BY <1>21, <1>2 DEF vars, tree, e2e, chk, history
  <1>22. course.langs \subseteq Langs
    BY CourseTyped DEF TypeOK
  <1> QED BY <1>4, <1>5, <1>6, <1>7, <1>8, <1>9, <1>10, <1>11, <1>12, <1>13,
             <1>14, <1>15, <1>16, <1>17, <1>18, <1>19, <1>20, <1>21, <1>22
          DEF Next, E2EStep, Script

\* Once the scripts are over, everything is as it was, unless one was killed.
THEOREM Restoration == Spec => []RestoredAtEnd
  <1>1. Init => Restorable
    BY DEF Init, Restorable, Fresh
  <1>2. Restorable => RestoredAtEnd
    BY DEF Restorable, RestoredAtEnd, ToRestore, CheckerAtWork
  <1> QED BY <1>1, <1>2, RestorableInductive, Typed, PTL DEF Spec

-----------------------------------------------------------------------------
(* The verdict of e2e.sh.  Earning is inductive: it says what the texts    *)
(* under test may be, and what the lists of the script are worth while it  *)
(* is under way.  GreenIsEarned alone looks at the last step only.         *)

\* Under way: past the dirty check, in the language Here.  Undisturbed: the learner
\* keeps away, and the other script's answers pass here if they pass in their own
\* project.  Earned: what green says of a language.
UnderWay       == pc \in {"pristine", "overlay", "verify", "restore"}
Here           == Head(queue)
Undisturbed(l) == ~touched["e2e"] /\ (overlap => course.fit[l] = course.right)
Earned(l)      == /\ course.easy[l] = {}
                  /\ course.answered = Exercises /\ course.fit[l] = Exercises

\* Only what the course has an answer to is laid.
OnlyAnswers ==
    /\ \A l \in Langs, e \in Exercises : files[l][e] = "answer" => e \in course.answered
    /\ pc = "overlay" => todo \subseteq course.answered
    /\ cpc = "overlay" => ctodo \subseteq course.answered

\* What the script looks at.
Looked ==
    /\ UnderWay /\ CheckerAtWork(Head(queue)) => overlap
    /\ UnderWay /\ ~touched["e2e"] =>
         \A e \in Exercises :
            /\ files[Head(queue)][e] \in {"task", "answer"}
            /\ pc = "pristine" /\ files[Head(queue)][e] = "answer" => overlap

\* What the results so far are worth.
Answering == course.answered # {} /\ course.right = course.answered

Worth ==
    /\ rc /\ pc \notin {"idle", "selftest"} => Answering
    /\ rc /\ pc = "pristine" /\ Undisturbed(Here) => course.easy[Here] \subseteq todo
    /\ rc /\ pc \in {"overlay", "verify", "restore"} /\ Undisturbed(Here) =>
         course.easy[Here] = {}

\* The languages that are not left have earned it.
ShownBut(left) ==
    \A i \in DOMAIN mode : \/ \E j \in DOMAIN left : left[j] = mode[i]
                           \/ Undisturbed(mode[i]) => Earned(mode[i])
Shown == rc /\ pc # "idle" => ShownBut(queue)

\* What the lists hold.
Lists ==
    /\ ~UnderWay \/ pc = "pristine" => laid = {} /\ passed = {} /\ ok
    /\ pc = "overlay" => laid = course.answered \ todo /\ passed = {} /\ ok
    /\ pc = "verify" \/ (pc = "restore" /\ ok) => laid = course.answered
    /\ pc = "restore" /\ ok => todo = {}
    /\ rc /\ pc \in {"verify", "restore"} /\ ok /\ Undisturbed(Here) =>
         passed = Exercises \ todo /\ passed \subseteq course.fit[Here]

Results == Worth /\ Lists /\ Shown /\ GreenIsEarned
Earning == OnlyAnswers /\ Looked /\ Results

\* The steps of anybody but e2e.sh.
OtherStep ==
    \/ CheckerStart \/ Script \/ CheckerInterrupt \/ CheckerKill
    \/ D2xExit \/ D2xHang \/ Watchdog \/ UNCHANGED vars
    \/ \E e \in Exercises :
         \/ D2xCheck(e) \/ OtherProgress(e)
         \/ \E l \in course.langs : Edit(l, e) \/ Discard(l, e)

LEMMA OthersKeep ==
    ASSUME TypeOK, OtherStep
    PROVE  /\ UNCHANGED <<course, mode, pc, queue, todo, laid, passed, ok, rc>>
           /\ outcome'["e2e"] = outcome["e2e"]
           /\ touched["e2e"] => touched'["e2e"]
           /\ overlap => overlap'
  <1> USE DEF TypeOK, Scripts
  <1>1. CASE CheckerStart
    BY <1>1 DEF CheckerStart, e2e
  <1>2. CASE CheckerOverlay \/ JudgeChecker \/ CheckerInterrupt
    BY <1>2 DEF CheckerOverlay, JudgeChecker, CheckerInterrupt, CExit, CGo, e2e, history
  <1>3. CASE Configure \/ ClearState \/ Launch \/ TrapExit \/ CheckerKill
    BY <1>3 DEF Configure, ClearState, Launch, TrapExit, CheckerKill, CGo, e2e, history
  <1>4. CASE D2xExit \/ D2xHang \/ Watchdog \/ UNCHANGED vars
    BY <1>4 DEF D2xExit, D2xHang, Watchdog, vars, e2e, history
  <1>5. ASSUME NEW e \in Exercises, D2xCheck(e) \/ OtherProgress(e)
        PROVE  /\ UNCHANGED <<course, mode, pc, queue, todo, laid, passed, ok, rc>>
               /\ outcome' = outcome /\ touched' = touched /\ overlap' = overlap
    BY <1>5 DEF D2xCheck, OtherProgress, e2e, history
  <1>6. ASSUME NEW e \in Exercises, NEW l \in course.langs, Edit(l, e) \/ Discard(l, e)
        PROVE  /\ UNCHANGED <<course, mode, pc, queue, todo, laid, passed, ok, rc>>
               /\ outcome' = outcome /\ overlap' = overlap
               /\ touched["e2e"] => touched'["e2e"]
    BY <1>6 DEF Edit, Discard, e2e
  <1> QED BY <1>1, <1>2, <1>3, <1>4, <1>5, <1>6 DEF OtherStep, Script

\* Under a run of e2e.sh that the learner does not touch, a text under test
\* stays, or is put back, or is overwritten by the other script.
LEMMA OthersWrite ==
    ASSUME TypeOK, Queued, OtherStep, UnderWay, ~touched'["e2e"], NEW e \in Exercises
    PROVE  \/ files'[Head(queue)][e] \in {files[Head(queue)][e], "task"}
           \/ files'[Head(queue)][e] = "answer" /\ CheckerAtWork(Head(queue))
  <1> USE DEF TypeOK
  <1>0. Head(queue) \in Langs /\ E2EAtWork(Head(queue))
    BY AtHead DEF UnderWay, E2EAtWork
  <1>1. CASE CheckerOverlay
    BY <1>0, <1>1 DEF CheckerOverlay, Lay, CheckerAtWork
  <1>2. CASE TrapExit
    <2>1. files' = files \/ files' = [files EXCEPT ![clang] = Fresh]
      BY <1>2 DEF TrapExit
    <2>2. files \in [Langs -> [Exercises -> Contents]] /\ Fresh[e] = "task"
      BY DEF Fresh
    <2> HIDE DEF TypeOK
    <2>3. ASSUME NEW l \in Langs PROVE files'[l] \in {files[l], Fresh}
      BY <2>1, <2>2
    <2> QED BY <1>0, <2>2, <2>3
  <1>3. ASSUME NEW x \in Exercises, NEW l \in course.langs, Edit(l, x)
        PROVE  files'[Head(queue)][e] = files[Head(queue)][e]
    <2>1. ~E2EAtWork(l) /\ l # Head(queue)
      BY <1>0, <1>3 DEF Edit
    <2> QED BY <1>0, <1>3, <2>1 DEF Edit
  <1>4. ASSUME NEW x \in Exercises, NEW l \in course.langs, Discard(l, x)
        PROVE  files'[Head(queue)][e] \in {files[Head(queue)][e], "task"}
    BY <1>0, <1>4, CourseTyped DEF Discard
  <1>5. CASE UNCHANGED files
    BY <1>5
  <1>6. \/ CheckerOverlay \/ TrapExit \/ UNCHANGED files
        \/ \E x \in Exercises, l \in course.langs : Edit(l, x) \/ Discard(l, x)
    BY DEF OtherStep, Script, CheckerStart, Configure, ClearState, Launch, JudgeChecker,
           CheckerInterrupt, CheckerKill, D2xExit, D2xHang, Watchdog, D2xCheck,
           OtherProgress, vars, tree
  <1> QED BY <1>1, <1>2, <1>3, <1>4, <1>5, <1>6

\* The other script comes to work on the language under test with its start.
LEMMA OthersCome ==
    ASSUME TypeOK, OtherStep, UnderWay, CheckerAtWork(Head(queue))'
    PROVE  CheckerAtWork(Head(queue)) \/ overlap'
  <1>0. queue' = queue
    BY OthersKeep
  <1>1. CASE CheckerStart
    <2>1. PICK l \in course.langs :
            \/ UNCHANGED chk
            \/ clang' = l /\ overlap' = (overlap \/ E2EAtWork(l))
      BY <1>1 DEF CheckerStart
    <2>2. CASE UNCHANGED chk
      BY <1>0, <2>2 DEF chk, CheckerAtWork
    <2>3. CASE clang' = l /\ overlap' = (overlap \/ E2EAtWork(l))
      BY <1>0, <2>3 DEF CheckerAtWork, E2EAtWork, UnderWay
    <2> QED BY <2>1, <2>2, <2>3
  <1>2. CASE cpc # "idle" /\ clang' = clang
    BY <1>0, <1>2 DEF CheckerAtWork
  <1>3. CASE UNCHANGED <<cpc, clang>>
    BY <1>0, <1>3 DEF CheckerAtWork
  <1>4. CheckerStart \/ (cpc # "idle" /\ clang' = clang) \/ UNCHANGED <<cpc, clang>>
    BY DEF OtherStep, Script, CheckerOverlay, TrapExit, Configure, ClearState, Launch,
           JudgeChecker, CheckerInterrupt, CheckerKill, D2xExit, D2xHang, Watchdog, D2xCheck,
           OtherProgress, Edit, Discard, vars, chk
  <1> QED BY <1>1, <1>2, <1>3, <1>4

\* An answer that appears is one that a script lays.
LEMMA AnswersAreLaid ==
    ASSUME TypeOK, Queued, OnlyAnswers, Next, NEW l \in Langs, NEW e \in Exercises,
           files'[l][e] = "answer"
    PROVE  e \in course.answered
  <1> USE DEF TypeOK
  <1>0. files[l][e] = "answer" => e \in course.answered
    BY DEF OnlyAnswers
  <1>1. CASE UNCHANGED files
    BY <1>0, <1>1
  <1>2. CASE Overlay
    <2>1. CASE UNCHANGED files
      BY <1>0, <2>1
    <2>2. CASE \E x \in todo \cap Exercises : Lay(Head(queue), x)
      <3>1. PICK x \in todo \cap Exercises : Lay(Head(queue), x)
        BY <2>2
      <3>2. x \in course.answered
        BY <1>2 DEF Overlay, OnlyAnswers
      <3>3. CASE l = Head(queue) /\ e = x
        BY <3>2, <3>3
      <3>4. CASE ~(l = Head(queue) /\ e = x)
        <4>1. files'[l][e] = files[l][e]
          BY <3>1, <3>4 DEF Lay
        <4> QED BY <4>1, <1>0
      <3> QED BY <3>3, <3>4
    <2> QED BY <1>2, <2>1, <2>2 DEF Overlay
  <1>3. CASE CheckerOverlay
    <2>1. CASE UNCHANGED files
      BY <1>0, <2>1
    <2>2. CASE \E x \in ctodo \cap Exercises : Lay(clang, x)
      <3>1. PICK x \in ctodo \cap Exercises : Lay(clang, x)
        BY <2>2
      <3>2. x \in course.answered
        BY <1>3 DEF CheckerOverlay, OnlyAnswers
      <3>3. CASE l = clang /\ e = x
        BY <3>2, <3>3
      <3>4. CASE ~(l = clang /\ e = x)
        <4>1. files'[l][e] = files[l][e]
          BY <3>1, <3>4 DEF Lay
        <4> QED BY <4>1, <1>0
      <3> QED BY <3>3, <3>4
    <2> QED BY <1>3, <2>1, <2>2 DEF CheckerOverlay
  <1>4. CASE Restore
    BY <1>0, <1>4 DEF Restore, Restored, Fresh
  <1>5. CASE TrapExit
    BY <1>0, <1>5 DEF TrapExit, Fresh
  <1>6. ASSUME NEW x \in Exercises, NEW k \in course.langs, Edit(k, x) \/ Discard(k, x)
        PROVE  files[l][e] = "answer"
    <2>1. PICK text \in {"draft", "solved", "task"} :
            files' = [files EXCEPT ![k][x] = text]
      BY <1>6 DEF Edit, Discard
    <2> QED BY <2>1
  <1>7. \/ UNCHANGED files \/ Overlay \/ CheckerOverlay \/ Restore \/ TrapExit
        \/ \E x \in Exercises, k \in course.langs : Edit(k, x) \/ Discard(k, x)
    BY DEF Next, Script, E2EStep, E2EStart, SelfTest, Smoke, CheckClean, Pristine, Verify,
           E2EInterrupt, CheckerStart, Configure, ClearState, Launch, JudgeChecker,
           CheckerInterrupt, CheckerKill, D2xExit, D2xHang, Watchdog, D2xCheck,
           OtherProgress, tree
  <1> QED BY <1>0, <1>1, <1>2, <1>3, <1>4, <1>5, <1>6, <1>7

\* The scripts' lists start as the course's answers and only shrink.
LEMMA ListsOfAnswers ==
    ASSUME TypeOK, OnlyAnswers, Next
    PROVE  /\ pc' = "overlay" => todo' \subseteq course.answered
           /\ cpc' = "overlay" => ctodo' \subseteq course.answered
           /\ course' = course
  <1> USE DEF OnlyAnswers
  <1>1. CASE Pristine \/ Overlay
    BY <1>1 DEF Pristine, Overlay, Go, Return, GoThrough, chk
  <1>2. CASE CheckClean \/ Restore
    BY <1>2 DEF CheckClean, Restore, Go, Return, GoThrough, chk
  <1>3. CASE E2EStart \/ SelfTest \/ Smoke \/ Verify \/ E2EInterrupt
    BY <1>3 DEF E2EStart, SelfTest, Smoke, Verify, E2EInterrupt, Go, GoThrough, chk
  <1>4. ASSUME ~(cpc' = "overlay") \/ (cpc = "overlay" /\ ctodo' \subseteq ctodo)
                 \/ ctodo' \subseteq course.answered,
               UNCHANGED <<course, pc, todo>>
        PROVE  /\ pc' = "overlay" => todo' \subseteq course.answered
               /\ cpc' = "overlay" => ctodo' \subseteq course.answered
               /\ course' = course
    BY <1>4
  <1>5. CASE CheckerStart
    BY <1>5 DEF CheckerStart, e2e, chk
  <1>6. CASE CheckerOverlay
    BY <1>4, <1>6 DEF CheckerOverlay, CExit, CGo, e2e, chk
  <1>7. CASE Configure \/ ClearState \/ Launch \/ JudgeChecker \/ TrapExit
    BY <1>4, <1>7 DEF Configure, ClearState, Launch, JudgeChecker, TrapExit, CGo, CExit, e2e
  <1>8. CASE CheckerInterrupt \/ CheckerKill
    BY <1>4, <1>8 DEF CheckerInterrupt, CheckerKill, CExit, e2e
  <1>9. CASE D2xExit \/ D2xHang \/ Watchdog
    BY <1>9 DEF D2xExit, D2xHang, Watchdog, e2e, chk
  <1>10. CASE \E e \in Exercises :
                \/ D2xCheck(e) \/ OtherProgress(e)
                \/ \E l \in course.langs : Edit(l, e) \/ Discard(l, e)
    BY <1>10 DEF D2xCheck, OtherProgress, Edit, Discard, e2e, chk
  <1> QED BY <1>1, <1>2, <1>3, <1>5, <1>6, <1>7, <1>8, <1>9, <1>10
       DEF Next, Script, E2EStep

LEMMA OnlyAnswersKept ==
    ASSUME TypeOK, Queued, OnlyAnswers, [Next]_vars PROVE OnlyAnswers'
  <1>1. CASE UNCHANGED vars
    BY <1>1 DEF OnlyAnswers, vars, tree, e2e, chk
  <1>2. CASE Next
    <2>1. \A l \in Langs, e \in Exercises :
            files'[l][e] = "answer" => e \in course'.answered
      BY <1>2, AnswersAreLaid, ListsOfAnswers
    <2> QED BY <1>2, <2>1, ListsOfAnswers DEF OnlyAnswers
  <1> QED BY <1>1, <1>2

LEMMA LookedByOthers ==
    ASSUME TypeOK, Queued, Looked, OtherStep PROVE Looked'
  <1>0. UNCHANGED <<pc, queue>> /\ (touched["e2e"] => touched'["e2e"])
        /\ (overlap => overlap')
    BY OthersKeep
  <1>1. ASSUME UnderWay, CheckerAtWork(Head(queue))' PROVE overlap'
    BY <1>0, <1>1, OthersCome DEF Looked
  <1>2. ASSUME UnderWay, ~touched'["e2e"], NEW e \in Exercises
        PROVE  /\ files'[Head(queue)][e] \in {"task", "answer"}
               /\ pc = "pristine" /\ files'[Head(queue)][e] = "answer" => overlap'
    <2>1. /\ files[Head(queue)][e] \in {"task", "answer"}
          /\ pc = "pristine" /\ files[Head(queue)][e] = "answer" => overlap
          /\ CheckerAtWork(Head(queue)) => overlap
      BY <1>0, <1>2 DEF Looked, TypeOK
    <2>2. \/ files'[Head(queue)][e] \in {files[Head(queue)][e], "task"}
          \/ files'[Head(queue)][e] = "answer" /\ CheckerAtWork(Head(queue))
      BY <1>2, OthersWrite
    <2> QED BY <1>0, <2>1, <2>2
  <1> QED BY <1>0, <1>1, <1>2 DEF Looked, UnderWay

LEMMA LookedByE2E ==
    ASSUME TypeOK, Queued, Looked, E2EStart \/ E2EStep \/ E2EInterrupt PROVE Looked'
  <1> USE DEF TypeOK
  <1>1. ASSUME pc' \notin {"pristine", "overlay", "verify", "restore"} PROVE Looked'
    BY <1>1 DEF Looked, UnderWay
  <1>2. CASE E2EStart \/ SelfTest \/ Smoke \/ E2EInterrupt
    BY <1>1, <1>2 DEF E2EStart, SelfTest, Smoke, GoThrough, E2EInterrupt
  <1>3. CASE CheckClean
    <2>1. CASE Dirty(Head(queue))
      BY <1>1, <1>3, <2>1 DEF CheckClean, Return, GoThrough
    <2>2. CASE ~Dirty(Head(queue))
      <3>1. /\ pc' = "pristine" /\ UNCHANGED <<queue, files, cpc, clang>>
            /\ overlap' = (overlap \/ CheckerAtWork(Head(queue)))
        BY <1>3, <2>2 DEF CheckClean, Go, tree, chk
      <3>2. \A e \in Exercises : files[Head(queue)][e] = "task"
        BY <2>2 DEF Dirty, Fresh
      <3> QED BY <3>1, <3>2 DEF Looked, UnderWay, CheckerAtWork
    <2> QED BY <2>1, <2>2
  <1>4. ASSUME UNCHANGED <<queue, files, cpc, clang, touched, overlap>>, UnderWay,
               pc' = pc \/ pc' # "pristine"
        PROVE  Looked'
    BY <1>4 DEF Looked, UnderWay, CheckerAtWork
  <1>5. CASE Pristine
    <2>1. CASE Return(FALSE)
      BY <1>1, <2>1 DEF Return, GoThrough
    <2>2. CASE ~Return(FALSE)
      BY <1>4, <1>5, <2>2 DEF Pristine, Go, tree, chk, history, UnderWay
    <2> QED BY <2>1, <2>2
  <1>6. CASE Overlay
    <2>1. /\ pc' \in {"overlay", "restore", "verify"} /\ UnderWay
          /\ UNCHANGED <<queue, cpc, clang, touched, overlap>>
      BY <1>6 DEF Overlay, Go, chk, history, UnderWay
    <2>2. ASSUME NEW e \in Exercises
          PROVE  files'[Head(queue)][e] \in {files[Head(queue)][e], "answer"}
      <3>1. Head(queue) \in Langs
        BY <1>6, AtHead DEF Overlay
      <3>2. CASE UNCHANGED files
        BY <3>2
      <3>3. CASE \E x \in todo \cap Exercises : Lay(Head(queue), x)
        BY <3>1, <3>3 DEF Lay
      <3> QED BY <1>6, <3>2, <3>3 DEF Overlay
    <2> QED BY <2>1, <2>2 DEF Looked, UnderWay, CheckerAtWork
  <1>7. CASE Verify
    BY <1>4, <1>7 DEF Verify, Go, tree, chk, history, UnderWay
  <1>8. CASE Restore
    BY <1>1, <1>8 DEF Restore, Return, GoThrough
  <1> QED BY <1>2, <1>3, <1>5, <1>6, <1>7, <1>8 DEF E2EStep

\* Whoever takes a step.
LEMMA Steps ==
    ASSUME [Next]_vars PROVE OtherStep \/ E2EStart \/ E2EStep \/ E2EInterrupt
  BY DEF Next, OtherStep

LEMMA LookedKept ==
    ASSUME TypeOK, Queued, Looked, [Next]_vars PROVE Looked'
  BY LookedByOthers, LookedByE2E, Steps

\* A language that nobody disturbs was never disturbed in this run.
LEMMA EarningByOthers ==
    ASSUME TypeOK, Results, OtherStep PROVE Results'
  <1>1. /\ UNCHANGED <<course, mode, pc, queue, todo, laid, passed, ok, rc>>
        /\ outcome'["e2e"] = outcome["e2e"]
        /\ \A l : Undisturbed(l)' => Undisturbed(l)
    BY OthersKeep DEF Undisturbed
  <1>2. Worth'
    BY <1>1 DEF Results, Worth, Here, Answering
  <1>3. Lists'
    BY <1>1 DEF Results, Lists, UnderWay, Here
  <1>4. Shown'
    BY <1>1 DEF Results, Shown, ShownBut, Earned
  <1>5. GreenIsEarned'
    BY <1>1 DEF Results, GreenIsEarned, Undisturbed
  <1> QED BY <1>2, <1>3, <1>4, <1>5 DEF Results

\* What passes as it is, where nobody disturbs a run that still may be green.
LEMMA PassesAsItIs ==
    ASSUME TypeOK, Queued, OnlyAnswers, Looked, Worth, rc, pc = "pristine",
           Undisturbed(Here), NEW e \in Exercises, e \in course.easy[Here]
    PROVE  Passes(Here, e)
  <1>1. /\ files[Here][e] \in {"task", "answer"}
        /\ files[Here][e] = "answer" => overlap
    BY DEF Looked, UnderWay, Undisturbed, Here
  <1>2. CASE files[Here][e] = "task"
    BY <1>2 DEF Passes
  <1>3. CASE files[Here][e] = "answer"
    <2>1. e \in course.answered
      BY <1>3, AtHead DEF OnlyAnswers, Here
    <2>2. course.fit[Here] = course.right /\ course.right = course.answered
      BY <1>1, <1>3 DEF Undisturbed, Worth, Answering
    <2>3. e \in course.fit[Here]
      BY <2>1, <2>2
    <2> QED BY <1>3, <2>3 DEF Passes
  <1> QED BY <1>1, <1>2, <1>3

\* What passes when the answers are laid is an answer that fits.
LEMMA PassesOverlaid ==
    ASSUME TypeOK, Queued, Looked, Worth, rc, pc = "verify", Undisturbed(Here),
           NEW e \in Exercises, Passes(Here, e)
    PROVE  e \in course.fit[Here]
  <1>1. files[Here][e] \in {"task", "answer"} /\ course.easy[Here] = {}
    BY DEF Looked, UnderWay, Undisturbed, Worth, Here
  <1>2. CASE files[Here][e] = "task"
    BY <1>1, <1>2 DEF Passes
  <1>3. CASE files[Here][e] = "answer"
    BY <1>3 DEF Passes
  <1> QED BY <1>1, <1>2, <1>3

\* The languages that are left are gone through, or there is none and the run ends:
\* green says what has been shown of all the others.
LEMMA EarningByGoing ==
    ASSUME TypeOK, GreenIsEarned, NEW left \in Seq(Langs), GoThrough(left),
           UNCHANGED <<course, mode, touched, overlap>>,
           laid' = {} /\ passed' = {} /\ ok',
           rc' \in BOOLEAN, rc' => Answering /\ ShownBut(left)
    PROVE  Results'
  <1>1. pc' \in {"idle", "dirty"} /\ queue' = left
    BY DEF GoThrough
  <1>2. \A l : Undisturbed(l)' = Undisturbed(l) /\ Earned(l)' = Earned(l)
    BY DEF Undisturbed, Earned
  <1>3. Worth'
    BY <1>1 DEF Worth, Answering
  <1>4. Lists'
    BY <1>1 DEF Lists, UnderWay
  <1>5. Shown'
    BY <1>1, <1>2 DEF Shown, ShownBut
  <1>6. CASE outcome' = outcome
    <2>1. GreenIsEarned'
      BY <1>6 DEF GreenIsEarned
    <2> QED BY <1>3, <1>4, <1>5, <2>1 DEF Results
  <1>7. CASE left = << >>
    <2>1. outcome'["e2e"] = "green" => rc'
      BY <1>7 DEF GoThrough, TypeOK, Scripts
    <2>2. ASSUME rc', NEW i \in DOMAIN mode, Undisturbed(mode[i]) PROVE Earned(mode[i])
      <3>1. DOMAIN left = {}
        BY <1>7
      <3> QED BY <2>2, <3>1 DEF ShownBut
    <2>3. GreenIsEarned'
      BY <2>1, <2>2 DEF GreenIsEarned, Answering, Undisturbed, Earned
    <2> QED BY <1>3, <1>4, <1>5, <2>3 DEF Results
  <1> QED BY <1>6, <1>7 DEF GoThrough

\* The end of a language: what was counted is forgotten, and what the run has
\* shown so far is kept.
LEMMA EarningByReturn ==
    ASSUME TypeOK, Queued, Results, pc \notin {"idle", "selftest", "smoke"},
           NEW good \in BOOLEAN, Return(good),
           UNCHANGED <<course, mode, touched, overlap>>,
           rc /\ good /\ Undisturbed(Here) => Earned(Here)
    PROVE  Results'
  <1>1. queue \in Seq(Langs) /\ Len(queue) > 0 /\ rc \in BOOLEAN
    BY DEF TypeOK, Queued
  <1>2. /\ Tail(queue) \in Seq(Langs)
        /\ \A j \in DOMAIN queue :
             queue[j] = Here \/ (j - 1 \in DOMAIN Tail(queue) /\ Tail(queue)[j - 1] = queue[j])
    BY <1>1 DEF Here
  <1>3. /\ laid' = {} /\ passed' = {} /\ ok' /\ rc' \in BOOLEAN
        /\ rc' => rc /\ good
        /\ GoThrough(Tail(queue))
    BY <1>1 DEF Return
  <1>4. ASSUME rc' PROVE Answering /\ ShownBut(Tail(queue))
    <2>1. Answering /\ ShownBut(queue)
      BY <1>3, <1>4 DEF Results, Worth, Shown
    <2>2. ASSUME NEW i \in DOMAIN mode
          PROVE  \/ \E j \in DOMAIN Tail(queue) : Tail(queue)[j] = mode[i]
                 \/ Undisturbed(mode[i]) => Earned(mode[i])
      <3>1. CASE \E j \in DOMAIN queue : queue[j] = mode[i]
        <4>1. PICK j \in DOMAIN queue : queue[j] = mode[i]
          BY <3>1
        <4>2. CASE mode[i] = Here
          BY <1>3, <1>4, <4>2
        <4>3. CASE mode[i] # Here
          BY <1>2, <4>1, <4>3
        <4> QED BY <4>2, <4>3
      <3>2. CASE Undisturbed(mode[i]) => Earned(mode[i])
        BY <3>2
      <3> QED BY <2>1, <3>1, <3>2 DEF ShownBut
    <2> QED BY <2>1, <2>2 DEF ShownBut
  <1> QED BY <1>2, <1>3, <1>4, EarningByGoing DEF Results

LEMMA EarningByStart ==
    ASSUME TypeOK, Results, E2EStart \/ SelfTest \/ Smoke \/ E2EInterrupt
    PROVE  Results'
  <1>0. ok \in BOOLEAN /\ rc \in BOOLEAN /\ queue \in Seq(Langs)
    BY DEF TypeOK
  <1> USE DEF Worth, Lists, Shown, UnderWay
  <1>1. CASE E2EStart
    <2>1. /\ pc = "idle" /\ pc' = "selftest" /\ queue' = mode'
          /\ outcome'["e2e"] = "none" /\ UNCHANGED <<laid, passed, ok>>
      BY <1>1 DEF E2EStart, TypeOK, Scripts
    <2>2. Shown'
      BY <2>1 DEF ShownBut
    <2>3. GreenIsEarned'
      BY <2>1 DEF GreenIsEarned
    <2> QED BY <2>1, <2>2, <2>3 DEF Results
  <1>2. CASE SelfTest
    <2>1. /\ pc = "selftest" /\ pc' = "smoke" /\ rc' \in BOOLEAN
          /\ rc' => rc /\ Answering
          /\ UNCHANGED <<course, mode, queue, laid, passed, ok, outcome, touched, overlap>>
      BY <1>0, <1>2 DEF SelfTest, Answering, history
    <2>2. Worth'
      BY <2>1 DEF Answering
    <2>3. Lists'
      BY <2>1 DEF Results
    <2>4. Shown'
      BY <2>1 DEF Results, ShownBut, Undisturbed, Earned
    <2>5. GreenIsEarned'
      BY <2>1 DEF Results, GreenIsEarned
    <2> QED BY <2>2, <2>3, <2>4, <2>5 DEF Results
  <1>3. CASE Smoke
    <2>1. /\ pc = "smoke" /\ GoThrough(queue) /\ rc' \in BOOLEAN /\ (rc' => rc)
          /\ UNCHANGED <<course, mode, laid, passed, ok, touched, overlap>>
      BY <1>0, <1>3 DEF Smoke, history
    <2>2. laid' = {} /\ passed' = {} /\ ok'
      BY <2>1 DEF Results
    <2>3. rc' => Answering /\ ShownBut(queue)
      BY <2>1 DEF Results
    <2> HIDE DEF Worth, Lists, Shown, UnderWay
    <2> QED BY <1>0, <2>1, <2>2, <2>3, EarningByGoing DEF Results
  <1>4. CASE E2EInterrupt
    <2>1. /\ pc' = "idle" /\ laid' = {} /\ passed' = {} /\ ok'
          /\ outcome'["e2e"] = "red"
      BY <1>4 DEF E2EInterrupt, TypeOK, Scripts
    <2> QED BY <2>1 DEF Results, GreenIsEarned
  <1> QED BY <1>1, <1>2, <1>3, <1>4

\* A step within a language, which shows nothing of another.
LEMMA EarningWithin ==
    ASSUME Results, UnderWay, UnderWay',
           UNCHANGED <<course, mode, queue, rc, outcome, touched, overlap>>
    PROVE  /\ Shown' /\ GreenIsEarned' /\ Here' = Here
           /\ \A l : Undisturbed(l)' = Undisturbed(l)
           /\ rc => Answering /\ Answering'
  BY DEF Results, Worth, Answering, Shown, ShownBut, GreenIsEarned, UnderWay, Here,
         Undisturbed, Earned

LEMMA EarningByPristine ==
    ASSUME TypeOK, Queued, OnlyAnswers, Looked, Results, CheckClean \/ Pristine
    PROVE  Results'
  <1>0. Here \in Langs /\ course.easy[Here] \subseteq Exercises
    BY AtHead, CourseTyped DEF CheckClean, Pristine, Here, TypeOK
  <1>1. CASE CheckClean /\ Dirty(Head(queue))
    <2>1. /\ Return(FALSE) /\ pc = "dirty" /\ FALSE \in BOOLEAN
          /\ UNCHANGED <<course, mode, touched, overlap>>
      BY <1>1 DEF CheckClean
    <2> QED BY <2>1, EarningByReturn
  <1>2. CASE CheckClean /\ ~Dirty(Head(queue))
    <2>1. /\ pc = "dirty" /\ pc' = "pristine" /\ todo' = Exercises
          /\ UNCHANGED <<course, mode, queue, laid, passed, ok, rc, outcome, touched>>
          /\ overlap => overlap'
      BY <1>2 DEF CheckClean, Go
    <2>2. \A l : Undisturbed(l)' => Undisturbed(l)
      BY <2>1 DEF Undisturbed
    <2>3. Worth'
      BY <1>0, <2>1 DEF Results, Worth, Here, Answering
    <2>4. Lists'
      BY <2>1 DEF Results, Lists, UnderWay
    <2>5. Shown'
      BY <2>1, <2>2 DEF Results, Shown, ShownBut, Earned
    <2>6. GreenIsEarned'
      BY <2>1, <2>2 DEF Results, GreenIsEarned, Undisturbed
    <2> QED BY <2>3, <2>4, <2>5, <2>6 DEF Results
  <1>3. CASE Pristine /\ Return(FALSE)
    <2>1. /\ pc = "pristine" /\ FALSE \in BOOLEAN
          /\ UNCHANGED <<course, mode, touched, overlap>>
      BY <1>3 DEF Pristine, history
    <2> QED BY <1>3, <2>1, EarningByReturn
  <1>4. CASE Pristine /\ ~Return(FALSE)
    <2>1. /\ pc = "pristine"
          /\ UNCHANGED <<course, mode, queue, laid, passed, ok, rc, outcome, touched,
                         overlap>>
          /\ \/ pc' = "pristine" /\ \E e \in todo : ~Passes(Here, e) /\ todo' = todo \ {e}
             \/ pc' = "overlay" /\ todo = {} /\ todo' = course.answered
      BY <1>4 DEF Pristine, Go, Here, history
    <2>2. /\ Shown' /\ GreenIsEarned' /\ Here' = Here
          /\ \A l : Undisturbed(l)' = Undisturbed(l)
          /\ rc => Answering /\ Answering'
      BY <2>1, EarningWithin DEF UnderWay
    <2>3. ASSUME rc, Undisturbed(Here), pc' = "pristine"
          PROVE  course.easy[Here] \subseteq todo'
      <3>1. PICK e \in todo : ~Passes(Here, e) /\ todo' = todo \ {e}
        BY <2>1, <2>3
      <3>2. e \notin course.easy[Here]
        BY <1>0, <2>1, <2>3, <3>1, PassesAsItIs DEF Results
      <3>3. course.easy[Here] \subseteq todo
        BY <2>1, <2>3 DEF Results, Worth
      <3> QED BY <3>1, <3>2, <3>3
    <2>4. ASSUME rc, Undisturbed(Here), pc' = "overlay" PROVE course.easy[Here] = {}
      BY <2>1, <2>4 DEF Results, Worth
    <2>5. Worth'
      BY <2>1, <2>2, <2>3, <2>4 DEF Worth
    <2>6. Lists'
      BY <2>1 DEF Results, Lists, UnderWay
    <2> QED BY <2>2, <2>5, <2>6 DEF Results
  <1> QED BY <1>1, <1>2, <1>3, <1>4

LEMMA EarningByOverlay ==
    ASSUME TypeOK, OnlyAnswers, Results, Overlay PROVE Results'
  <1>1. /\ pc = "overlay" /\ pc' \in {"overlay", "restore", "verify"}
        /\ UNCHANGED <<course, mode, queue, passed, rc, outcome, touched, overlap>>
        /\ todo \subseteq course.answered
    BY DEF Overlay, Go, history, OnlyAnswers
  <1>2. /\ Shown' /\ GreenIsEarned' /\ Here' = Here
        /\ \A l : Undisturbed(l)' = Undisturbed(l)
        /\ rc => Answering /\ Answering'
    BY <1>1, EarningWithin DEF UnderWay
  <1>3. Worth'
    BY <1>1, <1>2 DEF Results, Worth
  <1>4. laid = course.answered \ todo /\ passed = {} /\ ok
    BY <1>1 DEF Results, Lists
  <1>5. SUFFICES Lists'
    BY <1>2, <1>3 DEF Results
  <1>6. CASE pc' = "overlay"
    <2>1. PICK e \in todo : laid' = laid \cup {e} /\ todo' = todo \ {e} /\ ok' = ok
      BY <1>6 DEF Overlay, Go
    <2>2. laid' = course.answered \ todo'
      BY <1>1, <1>4, <2>1
    <2> QED BY <1>1, <1>4, <1>6, <2>1, <2>2 DEF Lists, UnderWay
  <1>7. CASE pc' = "restore"
    <2>1. ok' = FALSE
      BY <1>7 DEF Overlay, Go
    <2> QED BY <1>7, <2>1 DEF Lists, UnderWay
  <1>8. CASE pc' = "verify"
    <2>1. todo = {} /\ todo' = Exercises /\ UNCHANGED <<laid, passed, ok>>
      BY <1>8 DEF Overlay, Go
    <2> QED BY <1>1, <1>4, <1>8, <2>1 DEF Lists, UnderWay
  <1> QED BY <1>1, <1>6, <1>7, <1>8

LEMMA EarningByVerify ==
    ASSUME TypeOK, Queued, Looked, Results, Verify PROVE Results'
  <1>1. /\ pc = "verify" /\ pc' \in {"verify", "restore"}
        /\ UNCHANGED <<course, mode, queue, laid, rc, outcome, touched, overlap>>
        /\ todo \subseteq Exercises
    BY DEF Verify, Go, history, Queued
  <1>2. /\ Shown' /\ GreenIsEarned' /\ Here' = Here
        /\ \A l : Undisturbed(l)' = Undisturbed(l)
        /\ rc => Answering /\ Answering'
    BY <1>1, EarningWithin DEF UnderWay
  <1>3. Worth'
    BY <1>1, <1>2 DEF Results, Worth
  <1>4. laid = course.answered
        /\ (rc /\ Undisturbed(Here) /\ ok =>
              passed = Exercises \ todo /\ passed \subseteq course.fit[Here])
    BY <1>1 DEF Results, Lists
  <1>5. SUFFICES Lists'
    BY <1>2, <1>3 DEF Results
  <1>6. CASE \E e \in todo :
               /\ todo' = todo \ {e} /\ Go("verify")
               /\ Passes(Here, e) /\ passed' = passed \cup {e} /\ UNCHANGED ok
    <2>1. PICK e \in todo :
            /\ todo' = todo \ {e} /\ Go("verify")
            /\ Passes(Here, e) /\ passed' = passed \cup {e} /\ UNCHANGED ok
      BY <1>6
    <2>2. pc' = "verify"
      BY <2>1 DEF Go
    <2>3. rc /\ Undisturbed(Here) => e \in course.fit[Here]
      BY <1>1, <2>1, PassesOverlaid DEF Results
    <2>4. rc /\ Undisturbed(Here) /\ ok =>
            passed' = Exercises \ todo' /\ passed' \subseteq course.fit[Here]
      BY <1>1, <1>4, <2>1, <2>3
    <2> QED BY <1>1, <1>2, <1>4, <2>1, <2>2, <2>4 DEF Lists, UnderWay
  <1>7. CASE pc' = "verify" /\ ok' = FALSE
    BY <1>1, <1>4, <1>7 DEF Lists, UnderWay
  <1>8. CASE todo = {} /\ Go("restore") /\ UNCHANGED <<todo, ok, passed>>
    <2>1. pc' = "restore"
      BY <1>8 DEF Go
    <2> QED BY <1>1, <1>2, <1>4, <1>8, <2>1 DEF Lists, UnderWay
  <1> QED BY <1>6, <1>7, <1>8 DEF Verify, Go, Here

LEMMA EarningByRestore ==
    ASSUME TypeOK, Queued, Results, Restore PROVE Results'
  <1> DEFINE good == ok /\ passed # {} /\ Cardinality(passed) = Cardinality(laid)
  <1>1. /\ pc = "restore" /\ Return(good) /\ good \in BOOLEAN
        /\ UNCHANGED <<course, mode, touched, overlap>>
    BY DEF Restore
  <1>2. ASSUME rc, good, Undisturbed(Here) PROVE Earned(Here)
    <2>1. /\ ok /\ todo = {} /\ laid = course.answered /\ course.easy[Here] = {}
          /\ passed = Exercises \ todo /\ passed \subseteq course.fit[Here]
      BY <1>1, <1>2 DEF Results, Lists, Worth
    <2>2. Here \in Langs
      BY <1>1, AtHead DEF Here
    <2>3. /\ course.fit[Here] \subseteq course.right /\ course.right \subseteq course.answered
          /\ laid \subseteq Exercises
      BY <2>2, CourseTyped DEF TypeOK
    <2> QED BY <2>1, <2>3 DEF Earned
  <1> HIDE DEF good
  <1> QED BY <1>1, <1>2, EarningByReturn

LEMMA EarningKept ==
    ASSUME TypeOK, Queued, Earning, [Next]_vars PROVE Earning'
  <1>1. OnlyAnswers' /\ Looked'
    BY OnlyAnswersKept, LookedKept DEF Earning
  <1>2. Results'
    BY Steps, EarningByOthers, EarningByStart, EarningByPristine, EarningByOverlay,
       EarningByVerify, EarningByRestore DEF Earning, E2EStep
  <1> QED BY <1>1, <1>2 DEF Earning

LEMMA EarningInit == Init => Earning
  BY DEF Init, Fresh, Earning, Results, OnlyAnswers, Looked, Worth, Lists, Shown,
         GreenIsEarned, UnderWay, Scripts

\* e2e.sh is green only of a course whose answers pass in their own project and
\* which, in every language that the run was asked for, has no exercise that passes
\* as it is and for every one an answer that passes in place: for every course and
\* list of languages, whatever other checkers do meanwhile, with a learner who keeps
\* away from it, and, where the answers pass in place as in their own project, with
\* the other script beside it.  No language takes back what another has failed.
THEOREM GreenEarned == Spec => []GreenIsEarned
  <1>1. TypeOK /\ Queued /\ Earning /\ [Next]_vars => Earning'
    BY EarningKept
  <1>2. Earning => GreenIsEarned
    BY DEF Earning, Results
  <1> QED BY <1>1, <1>2, EarningInit, Typed, PTL DEF Spec

-----------------------------------------------------------------------------
(* The verdict of checker-e2e.sh, which counts what its checker prints.    *)
(* CheckerEarning is inductive: the checker is started once, for the       *)
(* language the script has laid, and reads what the script has laid there. *)

Watched ==
    /\ cpc \in {"overlay", "configure", "clear", "launch"} => code = "none"
    /\ d2x # "none" => cpc = "wait" /\ code = "none"
    /\ cpc \in {"clear", "launch", "wait"} => config = clang
    /\ cpc = "overlay" => claid = course.answered \ ctodo
    /\ cpc \in {"configure", "clear", "launch", "wait"} => claid = course.answered
    /\ cpc # "idle" /\ ~touched["checker"] =>
         \A e \in Exercises : files[clang][e] \in {"task", "answer"}
    /\ cpc = "wait" /\ ~touched["checker"] /\ course.easy[clang] = {} =>
         printed \subseteq course.fit[clang]

CheckerEarning == Watched /\ CheckerGreenIsEarned

LEMMA CheckerEarningInit == Init => CheckerEarning
  BY DEF Init, CheckerEarning, Watched, CheckerGreenIsEarned, Scripts

\* Under a run that the learner does not touch a text stays, or is put back, or
\* is overwritten by an answer.
LEMMA TextsUnderCheck ==
    ASSUME TypeOK, Queued, Next, cpc # "idle", ~touched'["checker"], NEW e \in Exercises
    PROVE  files'[clang][e] \in {files[clang][e], "task", "answer"}
  <1> USE DEF TypeOK
  <1>1. CASE UNCHANGED files
    BY <1>1
  <1>2. CASE Overlay
    <2>1. Head(queue) \in Langs
      BY <1>2, AtHead DEF Overlay
    <2>2. CASE \E x \in todo \cap Exercises : Lay(Head(queue), x)
      BY <2>1, <2>2 DEF Lay
    <2> QED BY <1>1, <1>2, <2>2 DEF Overlay
  <1>3. CASE CheckerOverlay
    <2>1. CASE \E x \in ctodo \cap Exercises : Lay(clang, x)
      BY <2>1 DEF Lay
    <2> QED BY <1>1, <1>3, <2>1 DEF CheckerOverlay
  <1>4. CASE Restore
    <2>1. files' = files \/ files' = [files EXCEPT ![Head(queue)] = Fresh]
      BY <1>4 DEF Restore, Restored
    <2> QED BY <2>1 DEF Fresh
  <1>5. CASE TrapExit
    <2>1. files' = files \/ files' = [files EXCEPT ![clang] = Fresh]
      BY <1>5 DEF TrapExit
    <2> QED BY <2>1 DEF Fresh
  <1>6. ASSUME NEW x \in Exercises, NEW l \in course.langs, Edit(l, x)
        PROVE  files'[clang][e] = files[clang][e]
    <2>1. ~CheckerAtWork(l) /\ l # clang
      BY <1>6 DEF Edit, CheckerAtWork
    <2> QED BY <1>6, <2>1 DEF Edit
  <1>7. ASSUME NEW x \in Exercises, NEW l \in course.langs, Discard(l, x)
        PROVE  files'[clang][e] \in {files[clang][e], "task"}
    BY <1>7, CourseTyped DEF Discard
  <1>8. \/ UNCHANGED files \/ Overlay \/ CheckerOverlay \/ Restore \/ TrapExit
        \/ \E x \in Exercises, l \in course.langs : Edit(l, x) \/ Discard(l, x)
    BY DEF Next, Script, E2EStep, E2EStart, SelfTest, Smoke, CheckClean, Pristine, Verify,
           E2EInterrupt, CheckerStart, Configure, ClearState, Launch, JudgeChecker,
           CheckerInterrupt, CheckerKill, D2xExit, D2xHang, Watchdog, D2xCheck,
           OtherProgress, tree
  <1> QED BY <1>1, <1>2, <1>3, <1>4, <1>5, <1>6, <1>7, <1>8

\* The steps of anybody but checker-e2e.sh and its checker.
LEMMA NotTheChecker ==
    ASSUME TypeOK,
           \/ E2EStart \/ E2EStep \/ E2EInterrupt
           \/ \E e \in Exercises : OtherProgress(e)
           \/ \E e \in Exercises, l \in course.langs : Edit(l, e) \/ Discard(l, e)
    PROVE  /\ UNCHANGED <<course, config, cpc, clang, ctodo, claid, code, d2x, printed>>
           /\ outcome'["checker"] = outcome["checker"]
           /\ touched["checker"] => touched'["checker"]
  <1> USE DEF TypeOK, Scripts
  <1>1. CASE E2EStart
    BY <1>1 DEF E2EStart, tree, chk, checker
  <1>2. CASE SelfTest \/ Smoke \/ Overlay \/ Verify
    BY <1>2 DEF SelfTest, Smoke, GoThrough, Overlay, Verify, Go, tree, chk, checker, history
  <1>3. CASE CheckClean \/ Pristine
    BY <1>3 DEF CheckClean, Pristine, Go, Return, GoThrough, tree, chk, checker, history
  <1>4. CASE Restore
    BY <1>4 DEF Restore, Return, GoThrough, chk, checker
  <1>5. CASE E2EInterrupt
    BY <1>5 DEF E2EInterrupt, tree, chk, checker
  <1>6. CASE \E e \in Exercises : OtherProgress(e)
    BY <1>6 DEF OtherProgress, chk, checker, history
  <1>7. CASE \E e \in Exercises, l \in course.langs : Edit(l, e) \/ Discard(l, e)
    BY <1>7 DEF Edit, Discard, chk, checker
  <1> QED BY <1>1, <1>2, <1>3, <1>4, <1>5, <1>6, <1>7 DEF E2EStep

LEMMA CheckerEarningByOthers ==
    ASSUME TypeOK, Queued, Watched, CheckerGreenIsEarned, Next,
           \/ E2EStart \/ E2EStep \/ E2EInterrupt
           \/ \E e \in Exercises : OtherProgress(e)
           \/ \E e \in Exercises, l \in course.langs : Edit(l, e) \/ Discard(l, e)
    PROVE  Watched' /\ CheckerGreenIsEarned'
  <1>1. /\ UNCHANGED <<course, config, cpc, clang, ctodo, claid, code, d2x, printed>>
        /\ outcome'["checker"] = outcome["checker"]
        /\ touched["checker"] => touched'["checker"]
    BY NotTheChecker
  <1>2. ASSUME cpc # "idle", ~touched'["checker"], NEW e \in Exercises
        PROVE  files'[clang][e] \in {"task", "answer"}
    <2>1. files[clang][e] \in {"task", "answer"}
      BY <1>1, <1>2 DEF Watched
    <2> QED BY <1>2, <2>1, TextsUnderCheck
  <1>3. Watched'
    BY <1>1, <1>2 DEF Watched
  <1>4. CheckerGreenIsEarned'
    BY <1>1 DEF CheckerGreenIsEarned
  <1> QED BY <1>3, <1>4

\* A verdict that is not green needs no more, nor does one that stays.
LEMMA NotGreen ==
    ASSUME CheckerGreenIsEarned, UNCHANGED <<course, clang, touched>>,
           outcome' = outcome \/ outcome'["checker"] # "green"
    PROVE  CheckerGreenIsEarned'
  BY DEF CheckerGreenIsEarned

LEMMA CheckerEarningByStart ==
    ASSUME TypeOK, Watched, CheckerGreenIsEarned, CheckerStart
    PROVE  Watched' /\ CheckerGreenIsEarned'
  <1>1. PICK l \in course.langs :
          IF Dirty(l) \/ config # Committed
          THEN /\ outcome' = [outcome EXCEPT !["checker"] = "red"]
               /\ UNCHANGED <<chk, touched, overlap>>
          ELSE /\ cpc' = "overlay" /\ clang' = l
               /\ ctodo' = course.answered /\ claid' = {} /\ code' = "none"
               /\ outcome' = [outcome EXCEPT !["checker"] = "none"]
               /\ touched' = [touched EXCEPT !["checker"] = FALSE]
               /\ overlap' = (overlap \/ E2EAtWork(l))
    BY DEF CheckerStart
  <1>2. cpc = "idle" /\ d2x = "none" /\ UNCHANGED <<course, files, config, d2x, printed>>
    BY DEF CheckerStart, tree, checker
  <1>3. outcome'["checker"] # "green"
    BY <1>1 DEF TypeOK, Scripts
  <1>4. CheckerGreenIsEarned'
    BY <1>3 DEF CheckerGreenIsEarned
  <1>5. CASE Dirty(l) \/ config # Committed
    <2>1. UNCHANGED <<course, files, config, cpc, clang, ctodo, claid, code, d2x,
                      printed, touched>>
      BY <1>1, <1>2, <1>5 DEF chk
    <2> QED BY <1>4, <2>1 DEF Watched
  <1>6. CASE ~Dirty(l) /\ config = Committed
    <2>1. /\ cpc' = "overlay" /\ clang' = l /\ ctodo' = course.answered /\ claid' = {}
          /\ code' = "none"
      BY <1>1, <1>6
    <2>2. \A e \in Exercises : files[l][e] = "task"
      BY <1>6 DEF Dirty, Fresh
    <2> QED BY <1>2, <1>4, <2>1, <2>2 DEF Watched
  <1> QED BY <1>5, <1>6

LEMMA CheckerEarningByOverlay ==
    ASSUME TypeOK, Queued, OnlyAnswers, Watched, CheckerGreenIsEarned, Next,
           CheckerOverlay
    PROVE  Watched' /\ CheckerGreenIsEarned'
  <1>1. /\ cpc = "overlay" /\ cpc' \in {"overlay", "configure", "exit"}
        /\ UNCHANGED <<course, config, clang, code, d2x, printed, touched>>
        /\ ctodo \subseteq course.answered /\ claid = course.answered \ ctodo
        /\ code = "none" /\ d2x = "none"
    BY DEF CheckerOverlay, CGo, CExit, checker, history, OnlyAnswers, Watched
  <1>2. CheckerGreenIsEarned'
    <2>1. outcome' = outcome \/ outcome'["checker"] # "green"
      BY DEF CheckerOverlay, CGo, CExit, TypeOK, Scripts
    <2> QED BY <1>1, <2>1, NotGreen
  <1>3. ASSUME ~touched["checker"], NEW e \in Exercises
        PROVE  files'[clang][e] \in {"task", "answer"}
    BY <1>1, <1>3, TextsUnderCheck DEF Watched
  <1>4. cpc' = "overlay" => claid' = course.answered \ ctodo'
    <2>1. ASSUME cpc' = "overlay" PROVE claid' = course.answered \ ctodo'
      <3>1. PICK e \in ctodo : claid' = claid \cup {e} /\ ctodo' = ctodo \ {e}
        BY <2>1 DEF CheckerOverlay, CGo, CExit
      <3> QED BY <1>1, <3>1
    <2> QED BY <2>1
  <1>5. cpc' = "configure" => claid' = course.answered
    BY <1>1 DEF CheckerOverlay, CGo, CExit
  <1> QED BY <1>1, <1>2, <1>3, <1>4, <1>5 DEF Watched

LEMMA CheckerEarningByLaunch ==
    ASSUME TypeOK, Watched, CheckerGreenIsEarned, Configure \/ ClearState \/ Launch
    PROVE  Watched' /\ CheckerGreenIsEarned'
  <1>1. UNCHANGED <<course, touched, outcome, files, clang, claid, code>>
    BY DEF Configure, ClearState, Launch, CGo, tree, history
  <1>2. CheckerGreenIsEarned'
    BY <1>1 DEF CheckerGreenIsEarned
  <1>3. CASE Configure
    BY <1>1, <1>2, <1>3 DEF Configure, CGo, checker, Watched
  <1>4. CASE ClearState
    BY <1>1, <1>2, <1>4 DEF ClearState, CGo, checker, Watched
  <1>5. CASE Launch
    BY <1>1, <1>2, <1>5 DEF Launch, CGo, tree, Watched
  <1> QED BY <1>2, <1>3, <1>4, <1>5

\* As many passes as answers, all of them among the answers that pass in place.
LEMMA CheckerEarningByJudging ==
    ASSUME TypeOK, Watched, CheckerGreenIsEarned, JudgeChecker
    PROVE  Watched' /\ CheckerGreenIsEarned'
  <1>1. /\ cpc = "wait" /\ code # "none" /\ cpc' = "exit"
        /\ UNCHANGED <<course, files, config, clang, d2x, touched>>
        /\ d2x = "none"
    BY DEF JudgeChecker, CExit, tree, history, Watched
  <1>2. Watched'
    BY <1>1 DEF Watched
  <1>3. ASSUME outcome'["checker"] = "green", ~touched["checker"], course.easy[clang] = {},
               course.answered = Exercises
        PROVE  course.fit[clang] = Exercises
    <2>1. Cardinality(printed) >= Cardinality(claid)
      BY <1>3 DEF JudgeChecker, CExit, TypeOK, Scripts
    <2>2. claid = Exercises /\ printed \subseteq Exercises /\ printed \subseteq course.fit[clang]
      BY <1>1, <1>3 DEF Watched, TypeOK
    <2>3. IsFiniteSet(Exercises) /\ course.fit[clang] \subseteq course.answered
      BY EndToEndAssumption DEF TypeOK
    <2>4. IsFiniteSet(printed) /\ Cardinality(printed) \in Nat
          /\ Cardinality(Exercises) \in Nat
          /\ Cardinality(printed) <= Cardinality(Exercises)
          /\ (Cardinality(printed) = Cardinality(Exercises) => printed = Exercises)
      BY <2>2, <2>3, FS_Subset, FS_CardinalityType
    <2>5. printed = Exercises
      BY <2>1, <2>2, <2>4
    <2> QED BY <1>3, <2>2, <2>3, <2>5
  <1>4. CheckerGreenIsEarned'
    BY <1>1, <1>3 DEF CheckerGreenIsEarned
  <1> QED BY <1>2, <1>4

LEMMA CheckerEarningByEnd ==
    ASSUME TypeOK, Watched, CheckerGreenIsEarned,
           TrapExit \/ CheckerInterrupt \/ CheckerKill
    PROVE  Watched' /\ CheckerGreenIsEarned'
  <1>1. CASE TrapExit
    <2>1. /\ cpc = "exit" /\ cpc' = "idle"
          /\ UNCHANGED <<course, clang, touched, outcome, d2x>>
      BY <1>1 DEF TrapExit, checker
    <2>2. Watched'
      BY <2>1 DEF Watched
    <2> QED BY <2>1, <2>2 DEF CheckerGreenIsEarned
  <1>2. CASE CheckerKill
    <2>1. /\ cpc' = "idle" /\ UNCHANGED <<course, clang, touched>> /\ d2x' = "none"
          /\ outcome'["checker"] # "green"
      BY <1>2 DEF CheckerKill, Forget, TypeOK, Scripts
    <2> QED BY <2>1, NotGreen DEF Watched
  <1>3. CASE CheckerInterrupt
    <2>1. /\ cpc # "idle" /\ cpc' = "exit" /\ d2x' = "none"
          /\ UNCHANGED <<course, files, clang, touched>>
          /\ outcome'["checker"] # "green"
      BY <1>3 DEF CheckerInterrupt, CExit, Forget, tree, history, TypeOK, Scripts
    <2> QED BY <2>1, NotGreen DEF Watched
  <1> QED BY <1>1, <1>2, <1>3

LEMMA CheckerEarningByChecking ==
    ASSUME TypeOK, Watched, CheckerGreenIsEarned,
           \/ D2xExit \/ D2xHang \/ Watchdog
           \/ \E e \in Exercises : D2xCheck(e)
    PROVE  Watched' /\ CheckerGreenIsEarned'
  <1>1. /\ d2x # "none" /\ cpc = "wait" /\ code = "none" /\ config = clang
        /\ UNCHANGED <<course, files, config, cpc, clang, ctodo, claid, touched, outcome>>
    BY DEF D2xExit, D2xHang, Watchdog, D2xCheck, Watched, tree, chk, history
  <1>2. CheckerGreenIsEarned'
    BY <1>1 DEF CheckerGreenIsEarned
  <1>3. d2x' # "none" => code' = "none"
    BY <1>1 DEF D2xExit, D2xHang, Watchdog, D2xCheck, chk
  <1>4. ASSUME ~touched["checker"], course.easy[clang] = {} PROVE printed' \subseteq course.fit[clang]
    <2>1. printed \subseteq course.fit[clang]
      BY <1>1, <1>4 DEF Watched
    <2>2. CASE UNCHANGED printed
      BY <2>1, <2>2
    <2>3. ASSUME NEW e \in Exercises, D2xCheck(e) PROVE printed' \subseteq course.fit[clang]
      <3>1. Passes(clang, e) /\ files[clang][e] \in {"task", "answer"}
            /\ printed' = printed \cup {e}
        BY <1>1, <1>4, <2>3 DEF D2xCheck, Watched
      <3>2. e \in course.fit[clang]
        BY <1>4, <3>1 DEF Passes
      <3> QED BY <2>1, <3>1, <3>2
    <2> QED BY <2>2, <2>3 DEF D2xExit, D2xHang, Watchdog, checker
  <1>5. Watched'
    BY <1>1, <1>3, <1>4 DEF Watched
  <1> QED BY <1>2, <1>5

LEMMA CheckerEarningKept ==
    ASSUME TypeOK, Queued, OnlyAnswers, CheckerEarning, [Next]_vars
    PROVE  CheckerEarning'
  <1>1. CASE UNCHANGED vars
    BY <1>1 DEF CheckerEarning, Watched, CheckerGreenIsEarned, vars, tree, chk, checker,
                history
  <1>2. CASE Next
    BY <1>2, CheckerEarningByOthers, CheckerEarningByStart, CheckerEarningByOverlay,
       CheckerEarningByLaunch, CheckerEarningByJudging, CheckerEarningByEnd,
       CheckerEarningByChecking
       DEF CheckerEarning, Next, Script
  <1> QED BY <1>1, <1>2

\* checker-e2e.sh is green of a complete course that does not pass as it is only
\* when every answer passes in place: a saved progress, another checker, e2e.sh
\* beside it, a kill or a timeout does not make it green.
THEOREM CheckerGreenEarned == Spec => []CheckerGreenIsEarned
  <1>1. TypeOK /\ Queued /\ OnlyAnswers /\ CheckerEarning /\ [Next]_vars => CheckerEarning'
    BY CheckerEarningKept
  <1>2. TypeOK /\ Queued /\ OnlyAnswers /\ [Next]_vars => OnlyAnswers'
    BY OnlyAnswersKept
  <1>3. Init => OnlyAnswers
    BY EarningInit DEF Earning
  <1>4. CheckerEarning => CheckerGreenIsEarned
    BY DEF CheckerEarning
  <1> QED BY <1>1, <1>2, <1>3, <1>4, CheckerEarningInit, Typed, PTL DEF Spec
=============================================================================
