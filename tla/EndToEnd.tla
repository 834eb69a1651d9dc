------------------------------ MODULE EndToEnd ------------------------------
(***************************************************************************)
(* d2x/buildtools/tests/e2e.sh and checker-e2e.sh: the two scripts that    *)
(* lay the course's answers over the exercises, test them, and restore the *)
(* exercises with git.  They share the working tree with each other, with  *)
(* the learner who edits it, and with any d2x that is open.                *)
(*                                                                         *)
(* A file is its committed "task", a "draft" or a "solved" text of the     *)
(* learner's, or the "answer".  mcpp, git and d2x are external.            *)
(***************************************************************************)
EXTENDS Naturals, Sequences, FiniteSets

CONSTANTS
    Exercises, Hello,  \* Hello is the exercise that the smoke test checks
    Stray,             \* an answer that no exercise has the path of
    Langs, Committed,  \* Committed is the language in the committed .d2x.json
    Modes,             \* what e2e.sh may be asked for: the languages in their
                       \* order, none when the word is not one that it knows
    Courses,           \* the courses that may be tested
    MaxRuns, MaxEdits  \* bounds: runs, each counted once for every language of
                       \* the course, and edits of the learner

ASSUME EndToEndAssumption ==
    /\ Hello \in Exercises /\ Stray \notin Exercises /\ IsFiniteSet(Exercises)
    /\ Committed \in Langs /\ IsFiniteSet(Langs)
    /\ Modes \subseteq Seq(Langs)
    /\ MaxRuns \in Nat /\ MaxEdits \in Nat
    \* langs: the languages it is in; answered, right: the answers, which the
    \* languages share, and those that pass in their own project; by language,
    \* easy: the tasks that pass as they are; fit: the answers that pass in place.
    /\ \A c \in Courses :
         /\ c.langs \subseteq Langs
         /\ c.answered \subseteq Exercises \cup {Stray} /\ c.right \subseteq c.answered
         /\ c.easy \in [Langs -> SUBSET Exercises] /\ c.fit \in [Langs -> SUBSET c.right]

VARIABLES
    course, files, config,
    mode, pc, queue, todo, laid, passed, ok, rc,   \* e2e.sh
    cpc, clang, ctodo, claid, code,                \* checker-e2e.sh
    d2x, done, printed,                            \* the checker that it starts
    progress,                                      \* .d2x/state.json
    outcome, runs, edits,
    kept,      \* history: edits made while no script was past its dirty check
    touched,   \* history: the learner has edited under a run of the script
    overlap,   \* history: the other script was at work under this run of e2e
    cut        \* history: a script was killed, or its git checkout failed

tree    == <<files, config, progress>>
e2e     == <<mode, pc, queue, todo, laid, passed, ok, rc>>
chk     == <<cpc, clang, ctodo, claid, code>>
checker == <<d2x, done, printed>>
history == <<edits, kept, touched, overlap, cut>>
vars    == <<course, tree, e2e, chk, checker, outcome, runs, history>>

Scripts  == {"e2e", "checker"}
Contents == {"task", "draft", "solved", "answer"}
Outcomes == {"none", "green", "red"}

TypeOK ==
    /\ course \in Courses
    /\ files \in [Langs -> [Exercises -> Contents]] /\ config \in Langs
    /\ pc \in {"idle", "selftest", "smoke", "dirty", "pristine", "overlay",
               "verify", "restore"}
    /\ mode \in Seq(Langs) /\ queue \in Seq(Langs)
    /\ todo \subseteq Exercises \cup {Stray}
    /\ laid \subseteq Exercises /\ passed \subseteq Exercises
    /\ ok \in BOOLEAN /\ rc \in BOOLEAN
    /\ cpc \in {"idle", "overlay", "configure", "clear", "launch", "wait", "exit"}
    /\ clang \in Langs
    /\ ctodo \subseteq Exercises \cup {Stray} /\ claid \subseteq Exercises
    /\ code \in {"none", "zero", "other"}
    /\ d2x \in {"none", "running", "hung"}
    /\ done \subseteq Exercises /\ printed \subseteq Exercises
    /\ progress \subseteq Exercises
    /\ outcome \in [Scripts -> Outcomes]
    /\ runs \in 0..MaxRuns /\ edits \in 0..MaxEdits
    /\ kept \in [Langs -> [Exercises -> {"none", "draft", "solved"}]]
    /\ touched \in [Scripts -> BOOLEAN] /\ overlap \in BOOLEAN /\ cut \in BOOLEAN

Fresh == [e \in Exercises |-> "task"]

Init ==
    /\ course \in Courses
    /\ files = [l \in Langs |-> Fresh] /\ config = Committed /\ progress = {}
    /\ pc = "idle" /\ mode = << >> /\ queue = << >> /\ todo = {} /\ laid = {} /\ passed = {}
    /\ ok = TRUE /\ rc = TRUE
    /\ cpc = "idle" /\ clang = Committed /\ ctodo = {} /\ claid = {} /\ code = "none"
    /\ d2x = "none" /\ done = {} /\ printed = {}
    /\ outcome = [s \in Scripts |-> "none"] /\ runs = 0 /\ edits = 0
    /\ kept = [l \in Langs |-> [e \in Exercises |-> "none"]]
    /\ touched = [s \in Scripts |-> FALSE] /\ overlap = FALSE /\ cut = FALSE

Passes(l, e) ==
    CASE files[l][e] = "task"   -> e \in course.easy[l]
      [] files[l][e] = "draft"  -> FALSE
      [] files[l][e] = "solved" -> TRUE
      [] files[l][e] = "answer" -> e \in course.fit[l]

\* Mutated form of the next: no dirty check.
Dirty_Never(l) == FALSE

\* git status --porcelain: what is not as committed.
Dirty(l) == files[l] # Fresh

Lay(l, e) == files' = [files EXCEPT ![l][e] = "answer"]

\* git checkout of the exercises, which fails while another git holds the index.
Restored(l) ==
    \/ files' = [files EXCEPT ![l] = Fresh] /\ UNCHANGED cut
    \/ UNCHANGED files /\ cut' = TRUE

E2EAtWork(l)     == pc \in {"pristine", "overlay", "verify", "restore"} /\ l = Head(queue)
CheckerAtWork(l) == cpc # "idle" /\ l = clang

CountRun == runs' = runs + Cardinality(course.langs) /\ runs' <= MaxRuns

-----------------------------------------------------------------------------
(* e2e.sh.                                                                 *)

E2EStart ==
    /\ pc = "idle"
    /\ pc' = "selftest" /\ rc' = TRUE
    /\ mode' \in Modes \cap Seq(course.langs) /\ queue' = mode'
    /\ CountRun
    /\ outcome' = [outcome EXCEPT !["e2e"] = "none"]
    /\ touched' = [touched EXCEPT !["e2e"] = FALSE] /\ overlap' = FALSE
    /\ UNCHANGED <<course, tree, todo, laid, passed, ok, chk, checker,
                   edits, kept, cut>>

\* solutions_selftest: as many passes as answers; mcpp itself may fail.
SelfTest ==
    /\ pc = "selftest" /\ pc' = "smoke"
    /\ \/ rc' = (rc /\ course.answered # {} /\ course.right = course.answered)
       \/ rc' = FALSE
    /\ UNCHANGED <<course, mode, tree, queue, todo, laid, passed, ok, chk,
                   checker, outcome, runs, history>>

\* The languages that are left are gone through; without any the run ends.
GoThrough(left) ==
    /\ queue' = left
    /\ IF left = << >>
       THEN /\ pc' = "idle"
            /\ outcome' = [outcome EXCEPT !["e2e"] = IF rc' THEN "green" ELSE "red"]
       ELSE pc' = "dirty" /\ UNCHANGED outcome

\* provider_smoke: a check of one exercise must say fail.
Smoke ==
    /\ pc = "smoke"
    /\ rc' \in {FALSE, rc /\ ~Passes(config, Hello)}
    /\ GoThrough(queue)
    /\ UNCHANGED <<course, mode, tree, todo, laid, passed, ok, chk, checker, runs,
                   history>>

\* Mutated form of the next: the result is that of the last language.
Return_Last(good) ==
    /\ todo' = {} /\ laid' = {} /\ passed' = {} /\ ok' = TRUE
    /\ rc' = good
    /\ GoThrough(Tail(queue))

\* run_lang returns.
Return(good) ==
    /\ todo' = {} /\ laid' = {} /\ passed' = {} /\ ok' = TRUE
    /\ rc' = (rc /\ good)
    /\ GoThrough(Tail(queue))

Go(next) == pc' = next /\ UNCHANGED <<queue, rc, outcome>>

CheckClean ==
    /\ pc = "dirty"
    /\ IF Dirty(Head(queue))
       THEN Return(FALSE) /\ UNCHANGED overlap
       ELSE /\ Go("pristine") /\ todo' = Exercises
            /\ UNCHANGED <<laid, passed, ok>>
            /\ overlap' = (overlap \/ CheckerAtWork(Head(queue)))
    /\ UNCHANGED <<course, mode, tree, chk, checker, runs, edits, kept,
                   touched, cut>>

\* Mutated form of the next: the exercises as they are are not tested.
Pristine_Skipped ==
    /\ pc = "pristine" /\ Go("overlay") /\ todo' = course.answered
    /\ UNCHANGED <<course, mode, tree, laid, passed, ok, chk, checker, runs,
                   history>>

\* Every exercise must be seen to fail: not to pass, and not to be left out.
Pristine ==
    /\ pc = "pristine"
    /\ \/ \E e \in todo :
            /\ ~Passes(Head(queue), e) /\ todo' = todo \ {e}
            /\ Go("pristine") /\ UNCHANGED <<laid, passed, ok>>
       \/ /\ todo = {} /\ Go("overlay") /\ todo' = course.answered
          /\ UNCHANGED <<laid, passed, ok>>
       \/ Return(FALSE)
    /\ UNCHANGED <<course, mode, tree, chk, checker, runs, history>>

Overlay ==
    /\ pc = "overlay"
    /\ \/ \E e \in todo \cap Exercises :
            /\ Lay(Head(queue), e) /\ laid' = laid \cup {e} /\ todo' = todo \ {e}
            /\ Go("overlay") /\ UNCHANGED <<ok, passed>>
       \/ /\ Stray \in todo /\ Go("restore") /\ ok' = FALSE
          /\ UNCHANGED <<files, laid, todo, passed>>
       \/ /\ todo = {} /\ Go("verify") /\ todo' = Exercises
          /\ UNCHANGED <<files, laid, passed, ok>>
    /\ UNCHANGED <<course, mode, config, progress, chk, checker, runs, history>>

\* Mutated form of the next: a member that fails is left to the count.
Verify_Lenient ==
    /\ pc = "verify"
    /\ \/ \E e \in todo :
            /\ todo' = todo \ {e} /\ Go("verify")
            /\ passed' = IF Passes(Head(queue), e) THEN passed \cup {e} ELSE passed
       \/ todo = {} /\ Go("restore") /\ UNCHANGED <<todo, passed>>
    /\ UNCHANGED <<course, mode, tree, laid, ok, chk, checker, runs, history>>

Verify ==
    /\ pc = "verify"
    /\ \/ \E e \in todo :
            /\ todo' = todo \ {e} /\ Go("verify")
            /\ \/ /\ Passes(Head(queue), e)
                  /\ passed' = passed \cup {e} /\ UNCHANGED ok
               \/ ok' = FALSE /\ UNCHANGED passed
       \/ todo = {} /\ Go("restore") /\ UNCHANGED <<todo, ok, passed>>
    /\ UNCHANGED <<course, mode, tree, laid, chk, checker, runs, history>>

\* The result of git is not looked at.
Restore ==
    /\ pc = "restore"
    /\ Restored(Head(queue))
    /\ Return(ok /\ passed # {} /\ Cardinality(passed) = Cardinality(laid))
    /\ UNCHANGED <<course, mode, config, progress, chk, checker, runs, edits, kept,
                   touched, overlap>>

\* There is no trap: a signal leaves the answers where they are.
E2EInterrupt ==
    /\ pc # "idle" /\ pc' = "idle"
    /\ cut' = (cut \/ pc \in {"overlay", "verify", "restore"})
    /\ outcome' = [outcome EXCEPT !["e2e"] = "red"]
    /\ mode' = << >> /\ queue' = << >> /\ rc' = FALSE
    /\ todo' = {} /\ laid' = {} /\ passed' = {} /\ ok' = TRUE
    /\ UNCHANGED <<course, tree, chk, checker, runs, edits, kept, touched, overlap>>

-----------------------------------------------------------------------------
(* checker-e2e.sh.                                                         *)

CGo(next) == cpc' = next /\ UNCHANGED outcome
CExit(result) ==
    cpc' = "exit" /\ outcome' = [outcome EXCEPT !["checker"] = result]

CheckerStart ==
    /\ cpc = "idle" /\ d2x = "none" /\ CountRun
    /\ \E l \in course.langs :
         IF Dirty(l) \/ config # Committed
         THEN /\ outcome' = [outcome EXCEPT !["checker"] = "red"]
              /\ UNCHANGED <<chk, touched, overlap>>
         ELSE /\ cpc' = "overlay" /\ clang' = l
              /\ ctodo' = course.answered /\ claid' = {} /\ code' = "none"
              /\ outcome' = [outcome EXCEPT !["checker"] = "none"]
              /\ touched' = [touched EXCEPT !["checker"] = FALSE]
              /\ overlap' = (overlap \/ E2EAtWork(l))
    /\ UNCHANGED <<course, tree, e2e, checker, edits, kept, cut>>

\* No exercise of the answer's path, or no answer at all, and the script exits.
CheckerOverlay ==
    /\ cpc = "overlay"
    /\ \/ \E e \in ctodo \cap Exercises :
            /\ Lay(clang, e) /\ claid' = claid \cup {e} /\ ctodo' = ctodo \ {e}
            /\ CGo("overlay")
       \/ Stray \in ctodo /\ CExit("red") /\ UNCHANGED <<files, claid, ctodo>>
       \/ /\ ctodo = {} /\ UNCHANGED <<files, claid, ctodo>>
          /\ IF claid = {} THEN CExit("red") ELSE CGo("configure")
    /\ UNCHANGED <<course, config, progress, e2e, clang, code, checker, runs,
                   history>>

\* The Provider takes the language from .d2x.json.
Configure ==
    /\ cpc = "configure" /\ CGo("clear")
    /\ config' = clang
    /\ UNCHANGED <<course, files, progress, e2e, clang, ctodo, claid, code,
                   checker, runs, history>>

ClearState ==
    /\ cpc = "clear" /\ CGo("launch")
    /\ progress' = {}
    /\ UNCHANGED <<course, files, config, e2e, clang, ctodo, claid, code,
                   checker, runs, history>>

\* d2x reads the saved progress as it starts.
Launch ==
    /\ cpc = "launch" /\ CGo("wait")
    /\ d2x' = "running" /\ done' = progress /\ printed' = {}
    /\ UNCHANGED <<course, tree, e2e, clang, ctodo, claid, code, runs, history>>

\* Mutated form of the next: the exit code alone.
JudgeChecker_ExitOnly ==
    /\ cpc = "wait" /\ code # "none" /\ code' = "none"
    /\ CExit(IF code = "zero" THEN "green" ELSE "red")
    /\ done' = {} /\ printed' = {} /\ claid' = {}
    /\ UNCHANGED <<course, tree, e2e, clang, ctodo, d2x, runs, history>>

\* The exit code and the number of passes.
JudgeChecker ==
    /\ cpc = "wait" /\ code # "none" /\ code' = "none"
    /\ CExit(IF code = "zero" /\ Cardinality(printed) >= Cardinality(claid)
             THEN "green" ELSE "red")
    /\ done' = {} /\ printed' = {} /\ claid' = {}
    /\ UNCHANGED <<course, tree, e2e, clang, ctodo, d2x, runs, history>>

\* Mutated form of the next: the configuration is not restored.
TrapExit_KeepsConfig ==
    /\ cpc = "exit" /\ cpc' = "idle"
    /\ files' = [files EXCEPT ![clang] = Fresh] /\ progress' = {}
    /\ UNCHANGED <<course, config, e2e, clang, ctodo, claid, code, checker,
                   outcome, runs, history>>

\* restore, on every exit that the shell can trap.
TrapExit ==
    /\ cpc = "exit" /\ cpc' = "idle"
    /\ \/ files' = [files EXCEPT ![clang] = Fresh] /\ config' = Committed
          /\ UNCHANGED cut
       \/ UNCHANGED <<files, config>> /\ cut' = TRUE
    /\ progress' = {}
    /\ UNCHANGED <<course, e2e, clang, ctodo, claid, code, checker, outcome,
                   runs, edits, kept, touched, overlap>>

\* What the script knows is gone with it.
Forget == ctodo' = {} /\ claid' = {} /\ code' = "none"
          /\ d2x' = "none" /\ done' = {} /\ printed' = {}

\* Mutated form of the next: no trap.
CheckerInterrupt_NoTrap ==
    /\ cpc # "idle" /\ cpc' = "idle"
    /\ outcome' = [outcome EXCEPT !["checker"] = "red"] /\ Forget
    /\ UNCHANGED <<course, tree, e2e, clang, runs, history>>

\* An interrupt runs the trap; the checker that was started lives on.
CheckerInterrupt ==
    /\ cpc \notin {"idle", "exit"} /\ CExit("red")
    /\ Forget
    /\ UNCHANGED <<course, tree, e2e, clang, runs, history>>

CheckerKill ==
    /\ cpc # "idle" /\ cpc' = "idle" /\ cut' = TRUE
    /\ outcome' = [outcome EXCEPT !["checker"] = "red"]
    /\ Forget
    /\ UNCHANGED <<course, tree, e2e, clang, runs, edits, kept, touched, overlap>>

-----------------------------------------------------------------------------
(* The checker, and the watchdog beside it.                                *)

D2xCheck(e) ==
    /\ d2x = "running" /\ e \notin done
    /\ Passes(config, e)
    /\ done' = done \cup {e} /\ printed' = printed \cup {e}
    /\ progress' = progress \cup {e}
    /\ UNCHANGED <<course, files, config, e2e, chk, d2x, outcome, runs, history>>

\* It ends by itself when all is done, and otherwise waits for the next edit.
D2xExit ==
    /\ d2x = "running" /\ d2x' = "none"
    /\ code' \in IF done = Exercises THEN {"zero", "other"} ELSE {"other"}
    /\ UNCHANGED <<course, tree, e2e, cpc, clang, ctodo, claid, done, printed,
                   outcome, runs, history>>

D2xHang ==
    /\ d2x = "running" /\ d2x' = "hung"
    /\ UNCHANGED <<course, tree, e2e, chk, done, printed, outcome, runs, history>>

\* Mutated form of the next: a signal that a hung checker does not heed.
Watchdog_Soft ==
    /\ d2x = "running" /\ d2x' = "none" /\ code' = "other"
    /\ UNCHANGED <<course, tree, e2e, cpc, clang, ctodo, claid, done, printed,
                   outcome, runs, history>>

\* kill -9 after LIMIT seconds.
Watchdog ==
    /\ d2x \in {"running", "hung"}
    /\ d2x' = "none" /\ code' = "other"
    /\ UNCHANGED <<course, tree, e2e, cpc, clang, ctodo, claid, done, printed,
                   outcome, runs, history>>

\* Another d2x, the learner's or one that an interrupted run left behind.
OtherProgress(e) ==
    /\ progress' = progress \cup {e}
    /\ UNCHANGED <<course, files, config, e2e, chk, checker, outcome, runs,
                   history>>

-----------------------------------------------------------------------------
(* The learner.                                                            *)

Edit(l, e) ==
    /\ edits < MaxEdits /\ edits' = edits + 1
    /\ \E text \in {"draft", "solved"} :
         /\ files' = [files EXCEPT ![l][e] = text]
         /\ kept' = [kept EXCEPT ![l][e] =
                       IF E2EAtWork(l) \/ CheckerAtWork(l) THEN "none" ELSE text]
    /\ touched' = [e2e     |-> touched["e2e"] \/ E2EAtWork(l),
                   checker |-> touched["checker"] \/ CheckerAtWork(l)]
    /\ UNCHANGED <<course, config, progress, e2e, chk, checker, outcome, runs,
                   overlap, cut>>

\* git checkout of one exercise.
Discard(l, e) ==
    /\ files[l][e] # "task"
    /\ files' = [files EXCEPT ![l][e] = "task"]
    /\ kept' = [kept EXCEPT ![l][e] = "none"]
    /\ UNCHANGED <<course, config, progress, e2e, chk, checker, outcome, runs,
                   edits, touched, overlap, cut>>

Script  == CheckerOverlay \/ Configure \/ ClearState \/ Launch \/ JudgeChecker
           \/ TrapExit
E2EStep == SelfTest \/ Smoke \/ CheckClean \/ Pristine \/ Overlay \/ Verify
           \/ Restore

Next ==
    \/ E2EStart \/ E2EStep \/ E2EInterrupt
    \/ CheckerStart \/ Script \/ CheckerInterrupt \/ CheckerKill
    \/ D2xExit \/ D2xHang \/ Watchdog
    \/ \E e \in Exercises :
         \/ D2xCheck(e) \/ OtherProgress(e)
         \/ \E l \in course.langs : Edit(l, e) \/ Discard(l, e)

\* The shell goes on from command to command, and the watchdog counts seconds.
\* Nothing is assumed of mcpp, git and d2x beyond that git returns.
Fairness == WF_vars(Script) /\ WF_vars(Watchdog)

Spec == Init /\ [][Next]_vars /\ Fairness

-----------------------------------------------------------------------------
(* Properties.                                                             *)

\* The dirty check (e2e.sh:33-40, checker-e2e.sh:40-47): what the learner edits
\* while no script is past its check of that language is never overwritten,
\* by whichever script, after whatever was interrupted.
WorkSurvives ==
    \A l \in Langs, e \in Exercises :
        kept[l][e] # "none" => files[l][e] = kept[l][e]

\* Once the scripts are over and none was killed, no answer lies over an
\* exercise and the configuration is as committed, also after an interrupt of
\* checker-e2e.sh.
RestoredAtEnd ==
    pc = "idle" /\ cpc = "idle" /\ ~cut =>
        /\ \A l \in Langs, e \in Exercises : files[l][e] # "answer"
        /\ config = Committed

\* The assertions in the header of e2e.sh (lines 2-8): green means that every
\* answer passes in its own project and, in each of the languages that the run was
\* asked for, that no exercise passes as it is, and that every one has an answer
\* that passes in its place.  Over the other script at work this rests on the
\* answers that pass in their own project.
GreenIsEarned ==
    outcome["e2e"] = "green" =>
        /\ course.answered # {} /\ course.right = course.answered
        /\ \A i \in DOMAIN mode :
             ~touched["e2e"] /\ (overlap => course.fit[mode[i]] = course.right) =>
                /\ course.easy[mode[i]] = {}
                /\ course.answered = Exercises /\ course.fit[mode[i]] = Exercises

\* The header of checker-e2e.sh: green means that the checker itself has passed
\* every answer of the language, and skipped none for a saved progress.
CheckerGreenIsEarned ==
    outcome["checker"] = "green" /\ ~touched["checker"]
        /\ course.easy[clang] = {} /\ course.answered = Exercises =>
            course.fit[clang] = Exercises

\* Whatever the checker does, checker-e2e.sh ends: the watchdog's reason.
CheckerScriptEnds == cpc # "idle" ~> cpc = "idle"
=============================================================================
