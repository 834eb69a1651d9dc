--------------------------- MODULE VerdictContract ---------------------------
(***************************************************************************)
(* What a check promises the learner, without mcpp, files or exit hooks:   *)
(* a request is open until it is answered or given up; the asked exercise  *)
(* is built and run at most once for it, and what happened in that run,    *)
(* the facts, decides which verdict may be given.  Without facts no        *)
(* verdict is given, only an error.                                        *)
(***************************************************************************)
EXTENDS Integers

CONSTANTS
    Tests,     \* the exercises
    Facts,     \* what a build and run may turn out to be
    NoFacts,   \* it has not happened
    Answers,   \* the answers
    NoAnswer   \* none was given

VARIABLES
    open,      \* a check is being answered
    asked,     \* the exercise it is about
    facts,     \* what its build and run turned out to be
    answer     \* what the learner was told

vars == <<open, asked, facts, answer>>

\* Does a verdict with this outcome tell the truth about these facts?
\* "blocked" says that nothing failed and a wait is left; only a crash may hide
\* the one failure it cut short.
Truthful(outcome, f) ==
    /\ outcome = "pass" =>
         f.compiled /\ f.failures = 0 /\ f.waits = 0 /\ f.exit = 0
    /\ outcome = "blocked" =>
         f.compiled /\ f.waits > 0 /\ (f.failures = 0 \/ f.ending = "crash")
    /\ outcome = "fail" =>
         \/ ~f.compiled
         \/ f.failures > 0
         \/ f.exit # 0 /\ (f.waits = 0 \/ f.ending = "crash")

Init ==
    /\ open = FALSE
    /\ asked \in Tests
    /\ facts = NoFacts
    /\ answer = NoAnswer

Ask ==
    /\ ~open
    /\ open' = TRUE
    /\ asked' \in Tests
    /\ facts' = NoFacts
    /\ answer' = NoAnswer

Observe ==
    /\ open /\ facts = NoFacts
    /\ facts' \in Facts
    /\ UNCHANGED <<open, asked, answer>>

\* The exit code and the number of diagnostics are those of the run.
Verdict ==
    /\ open /\ facts # NoFacts
    /\ open' = FALSE
    /\ answer' \in {a \in Answers :
                      /\ a.kind = "verdict"
                      /\ Truthful(a.outcome, facts)
                      /\ a.stage = (IF facts.compiled THEN "run" ELSE "compile")
                      /\ a.stage = "run" => a.exit = facts.exit
                      /\ a.diagnostics <= facts.failures
                      /\ facts.ending # "crash"
                           => a.diagnostics = facts.failures}
    /\ UNCHANGED <<asked, facts>>

Error ==
    /\ open' = FALSE
    /\ answer' \in {a \in Answers : a.kind = "error"}
    /\ UNCHANGED <<asked, facts>>

\* The check is ended, or spoilt by something that the contract knows nothing of.
GiveUp ==
    /\ open /\ open' = FALSE
    /\ facts' \in {facts, NoFacts}
    /\ UNCHANGED <<asked, answer>>

Next == Ask \/ Observe \/ Verdict \/ Error \/ GiveUp

Spec == Init /\ [][Next]_vars
=============================================================================
