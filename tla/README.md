# d2mcpp in TLA+

d2mcpp is a C++ course. A learner edits one exercise at a time; the course's own
program, the *Provider* `d2x-buildtools-mcpp`, lists the exercises and judges one
when asked; `d2x` (another repository) drives it and shows the result. Around it
stand scripts that prepare the environment, test the course against its answers,
play a learner's first run, and update a learner's clone. This directory holds
TLA+ models of all of these, the TLC configurations that check them, and proofs
that TLAPS checks.

```
tlc -workers 2 -config Provider.cfg MCProvider.tla     # one run
tlapm HarnessProofs.tla                                # one module's proofs
```

`PROJECT.json` lists the components, runs, mutants, theorems, hazards and
findings, and for every definition the source lines it stands for.

## The system

```
 d2x  (external: asks, shows, kills after 120 s of silence, saves progress)
  |  exercises / check <id>             ^ NDJSON events on stdout
  v                                     |
 Provider  main.cpp  -- discovery.cppm: which exercises are there
  |                  -- runner.cppm: run mcpp, take its records, judge
  |  popen("mcpp test -p <member> <name> ...")       -- emit.cppm: events
  v
 mcpp  (external: builds and runs every test whose name matches)
  |  starts
  v
 exercise process, with the practice library d2x.cppm linked in
     `-- appends lines to $D2X_RESULT_FILE (.d2x/result.ndjson), which the
         Provider reads when mcpp has ended: "the side channel"

 setup.sh, postCreate.sh   prepare tools and Provider; readiness.sh reports
 e2e.sh, checker-e2e.sh    lay the answers over the exercises, test, restore
 first-run.py              plays a learner against the real checker
 update_upstream.sh/.bat   backs up the learner's work, rebases on upstream
```

| component | source | state | operations | modules |
|---|---|---|---|---|
| practice library | `d2x/src/d2x.cppm` | counts of failures and waits, the hook's flag, lines in the file | `check`, `check_eq`, `wait`, `exit_hook`, `emit` | Harness |
| judge | `runner.cppm` (`judge_run`, `field`) | none | outcome from exit code and file | Judge, Codec |
| provider check | `main.cpp`, `runner.cppm` | the file, mcpp's records, the events sent | `cmd_check`, `run_mcpp_test` | Provider, VerdictContract |
| provider events | `emit.cppm` | none | JSON lines | Provider (order, content), Codec (text) |
| line codec | `d2x.cppm`, `emit.cppm`, `runner.cppm` | none | both `escape`s, `field` | Codec |
| mcpp output capture | `runner.cppm` (`capture_stdout`) | a string and a flag shared by two threads, the heartbeat clock | loop, reader, join, `pclose` | Capture |
| exercise discovery | `discovery.cppm`, `main.cpp` | none of its own; directories and `.d2x.json` | `scan`, `cmd_exercises`, lookup of `cmd_check` | Discovery |
| end-to-end scripts | `d2x/buildtools/tests/*.sh` | the exercises' files, `.d2x.json`, `state.json` | dirty check, overlay, test, restore, watchdog, trap | EndToEnd |
| environment preparation | `scripts/setup.*`, `scripts/install-xlings.*`, `.devcontainer/*` | the marker, the installed tools | prepare, mark, report | Environment |
| upstream update | `tools/update_upstream.*` | git's branches, index and tree | fetch, back up, rebase | UpdateUpstream |
| first-run and upgrade drivers | `scripts/ci/*.py` | a queue of events, the exercise, `state.json` | start, wait for an event, save, close, compare | FirstRun (`first-run.py`) |
| provider entry point | `main.cpp` | none | dispatch, `find_repo_root` | not modelled |
| workflows, course content, `msvc-stl/` | `.github/`, `src/`, `solutions/`, `msvc-stl/` | | | not modelled |

What is hard in it, each at its line in `PROJECT.json` under "hazards":

* *ordering at exit*: the library's hook is one entry of a LIFO list of exit
  handlers, and destructors on either side of it may call the library;
* *crashes*: a failure is counted before its line is written; d2x may kill
  everything between any two steps, and the file stays as it is;
* *one file, several writers*: mcpp takes the name as a pattern, so neighbours may
  run in the same call and write to the same file; so may a second Provider;
* *lost signals*: `fopen` may fail, a record may come without a number in
  `exit_code`, and nobody is told;
* *two threads and a clock* in `capture_stdout`, against an idle limit that is
  counted in another process;
* *stale names*: an id is listed by one call and looked up by a later one, after
  files and the language may have changed;
* *learner's work under scripts that overwrite it*: the tree is checked once and
  overwritten minutes later, by two scripts that take no lock, with interrupts;
* *markers that outlive what they say*: an environment is prepared once and reported
  ready at every attach, after files and tools may have changed;
* *scripts run again over what a failed run left*: a stopped rebase, a refused commit,
  HEAD on another branch;
* *a driver and a process that may hang*, with events in a queue between them.

## Modules

Formatting, wording and printed lines are left out everywhere but in Codec: lines of
the file are counted, not spelled. External parties (the exercise, mcpp, d2x, git, the
learner, the operating system) may do what the code in `src/` says they may do.

### Harness — `d2x/src/d2x.cppm`

One exercise process. `check`, `check_eq` and `wait` are each two steps, because a
crash may fall in between: the call counts (`pending`), then `emit` appends the line.
`ensure_hook` is part of the first call that records something, as in the code;
`exit_hook` fires at its place among the user's exit handlers, which are alike and
therefore kept as two numbers, those registered `newer` and `older` than the hook.
The process may return, call `_Exit`/`quick_exit`, or crash at any point; a formatter
of the learner's type may throw in `check_eq`, after the count and before the line;
`emit` may find no file, or fail to open it. `late` remembers that something was
counted after the hook ran, `lost` that a line was.

Abstracted: a formatter or `operator==` that itself calls the library, and partial
writes of a line (lines are short and appended by one `fputs`).

### Judge — `runner.cppm`, `judge_run`

An operator over the exit code and the file: a failure line first, then a wait
line, then the exit code. A file that is there and cannot be opened (`!in`) is judged as
a missing one, which the code cannot tell apart either; the models make only missing ones.

### Provider — `main.cpp`, `runner.cppm`

One Provider, request after request: `cmd_check`, `ClearChannel` (`fs::remove`, the
error ignored), mcpp's run of all matching tests in any order, then the answers in
the code's order: package error, no record, compile verdict, run stage, run
verdict. Each test's process is an instance of Harness whose `channel` is the
shared file. mcpp may fail for the whole package, die without output, fail to
compile one test, or run it. `Kill` ends everything at any point and leaves the
file. `OtherProvider` is a check by hand beside d2x: it removes the file or appends to
it at any moment. A record may lack its exit code, which `field` then reads as 0.

Two variables are history: `own`, what really happened to the exercise asked about,
and `disturbed`, which of five things came between that and the answer: lines of a
`neighbour`, `stale` lines, an `other` Provider at work, `lost` lines, a missing
`code`. The
properties are premised on the disturbances that matter to each: `PassIsEarned` says
that each of the two signals, exit code and file, does what it can while the other is
gone.

`VerdictContract` is the abstract specification: a request is open, the exercise is
observed at most once, and the answer is an error, nothing (killed), or a verdict
that is *truthful* about what was observed. Provider is shown to implement it
(`KeepsContract`, by refinement mapping): a check that is disturbed maps to a request
given up, so the contract is claimed of the undisturbed checks, whatever disturbed the
ones before.

### Capture — `runner.cppm`, `capture_stdout`

Two threads and a clock. Main tests the flag, sleeps 200 ms (a tick), may beat,
tests again; then join, move, `pclose`. The reader blocks in `fgets`, appends,
stores the flag. The child writes lines into a bounded pipe, closes its output,
ends, or hangs. A tick passes for all parties; main may be late by at most `Slack`
ticks an iteration. d2x kills after `IdleLimit` ticks without a byte.

### Discovery — `discovery.cppm`, `main.cpp`

A call reads the language once, walks intro, lists the standards' directories,
walks each, sorts, and answers (`Begin`, `Visit`, `Leave`, `List`/`Check`). Files are
visited one at a time while the learner adds and removes files and switches the
language. A walk must meet every file that has been there all the time, and may or
may not meet the others, which is what directory iteration promises. The sort is
not stable: any arrangement by `order` may come out. Names are sequences of the
words between dashes, since a dash is also what joins the parts of an id; `Number`
says what `from_chars` reads at the start of a word. d2x keeps the last listing and
the file whose verdict was saved last (one is enough: the property speaks of each
alone).

### Codec — the text of a line

The one module about spelling. `escape` of the library into `field` of the judge, and
`escape` of `emit.cppm` into d2x's JSON parser (external, by the JSON standard). A
text is any sequence over the characters that one of the four tells apart; `field`
finds a key by searching for its text, so the alphabet holds what it takes to write a
key into a value. `file` stands for the three texts after the first (`expected`, `actual`,
`file`), which `report_assert` writes the same way. The four marks of the layout have names, since
the proofs need to tell a quote from other characters.

### EndToEnd — `e2e.sh` and `checker-e2e.sh`

Both scripts, shell step by shell step, over one working tree, which they share with
each other, with the learner who edits and discards, and with another d2x that saves
progress. A file is its committed task, a draft or a solution of the learner's, or the
answer. A course may have the faults that the scripts are there to find: tasks that
pass as they are, answers missing, wrong, for no exercise, or right in their own
project and wrong in place. The answers are shared by the languages; what passes as it is
and what passes in place may differ between them. `e2e.sh` runs over the languages of its
`mode` and returns early as the code does; a word that it does not know makes the mode
empty. An interrupt ends it anywhere without a trap. `checker-e2e.sh`
starts a checker and a watchdog, waits, judges what was printed, and restores in its
trap, from an interrupt too; a kill does not run the trap. The members of a language
are one set of exercises, tested in any order. What the checker printed is a set of
exercises, where the script counts lines: the modelled checker passes an exercise once.
`git status` is taken to succeed; the scripts read its output only (`e2e.sh:35`) and would
take a failing one for a clean tree.

History: `kept`, edits made while no script was past its dirty check; `touched`, an
edit under a run; `overlap`, the other script at work; `cut`, a script killed or its
`git checkout` failed.

### Environment — `setup.sh`, `postCreate.sh`, `readiness.sh`

A preparation is the list of its steps: `setup.sh` (`setup.ps1` takes the same),
its `--install-only` form, or `postCreate.sh`, which removes the marker first and
writes it last. A step may fail or be killed, which drops the rest; writing the marker may
be cut in the middle. Preparations run in several terminals at once. Files (the pins,
the installer's version, the course) are edited and tools changed (by xlings, in
another project) in between. `readiness.sh` compares the marker, then xlings, then the
tools. The download of the installer is one step. The history `quiet` says whether, since
the last change of a file or a tool, a preparation of the container has begun, or is done.

### UpdateUpstream — `update_upstream.sh` and `.bat`

Command by command, in the script that the learner's system has (`bat`). git is
external and modelled as far as the scripts use it: branches as trees of files, index,
working tree, unmerged files, a rebase that stops, continues, is aborted or quit, a
checkout that refuses to overwrite. Every command may fail, the script may be
interrupted between any two, and is run again over what is left. The script's `git add .`
covers the directory that it was started in (`near`), its `git diff` the whole tree. There
are two commands that the .bat does not look at: `git add` (line 48), which may fail and
stage nothing (`missed`), while the commit of what was staged before goes on; and its second
checkout (line 56), after which it rebases the backup branch. `astray` remembers that such
a rebase has stopped over a clash.

### FirstRun — `first-run.py`

The driver's main function as a sequence of waits, each for one event and with its
assertion; the reader thread that moves events from the pipe to the queue; deadlines,
an early exit of the checker and exceptions through `finally`. Ctrl-C may come anywhere,
also after `Popen` and before the `try` (`Start` and `EnterTry` are two steps), where no
`finally` follows it; `orphan` remembers that. A cancelled job (`Terminate`) ends Python
at once, without a `finally` anywhere. The save is two steps (the file is truncated, then
written), since the checker may look in between. The checker and `setup.sh` are external, and may be wrong in ten
ways (`Faults`): it judges wrongly, skips an exercise, forgets or resets progress,
counts wrongly, re-checks unasked, reports an error, exits, does not end when asked;
`setup.sh` fails or loses the progress.

## Runs

| run | question | distinct states |
|---|---|---|
| harness | what do exit code and file tell, through crashes, lost lines, throwing formatters and every order at exit? | 20 600 |
| provider | is a verdict about the right run, a pass earned, a failure reported, and the contract kept, whatever comes in between? | 2 230 000 |
| capture | is all output handed over without a race, is a live build never killed, does a closed output end the capture? | 11 300 |
| discovery | does a listed id lead to the listed file; do order, language and progress keep? | 383 000 |
| codec | is what is written what is read, and on one line? | 122 000 |
| environment | what does "ready" mean, and is a finished preparation reported ready? | 2 060 000 |
| update | is work kept and backed up, is main rewritten only after its backup, is "updated" true? | 1 022 000 |
| scripts | does work survive, is the tree restored, is green earned, does the script end? | 686 000 |
| first_run | is PASS earned, the exercise restored, does the driver end? | 38 400 |
| harness_late_failure, provider_blocked, provider_neighbour | *violations*, see findings | |

Bounds, and why they are enough. *Harness*: three library calls and two handlers: the
first call registers the hook, one may come after it, one is to spare; two handlers give every
position around the hook. *Provider*: two checks, or a check and a step of another
Provider, so that the second meets what the first left; two tests, `one` and `ten`, where
`one`'s pattern matches `ten`, as `1` does `10`; one handler and two calls per
process, whose own interleavings are Harness's subject; one kind of disturbance in a
check (`MaxDisturbances`), any in another; one line left by a `remove` that failed.
*Capture*: a heartbeat every 3 ticks, lateness 1, limit 6, standing for 100 and 600
ticks: what matters is the strict inequality between the limit and the period plus
twice the lateness, which the proofs keep general. *Discovery*: two standards, two
chapters, two languages, three files off the convention, and two edits: a removal and
a return, a removal and a switch, a switch there and back. *Codec*: a first text of up
to four characters, which suffice to write a key with quotes and colon, and a second of
one. *Environment*: two terminals, two preparations, two versions and two changes: an
edit and a change back, or an edit and a tool. *UpdateUpstream*: an exercise and a file
beside the scripts, four versions made by learner and upstream, two runs: one to fail
and one to meet what it left. *EndToEnd*: two exercises, eight courses (good, and with
each fault) in one language and in two, with the fault in the first or in the second, every
mode, two runs (a course of two languages counts twice) and one edit. *FirstRun*: three exercises (the first, the one to go on with, one to
skip to), three events between checker and driver.

Fairness. *Capture*: weak fairness of main's step, the reader's step, the clock and d2x's
kill, since each is a thread or process that the operating system schedules; none on the
child, which may hang. `ClosedOutputEndsCapture` then holds for a child that closes its
output, whether it ends or lives on. *EndToEnd*: weak fairness of the shell steps of
`checker-e2e.sh`, which the shell runs one after the other, and of the watchdog, a
background process with a timer; none on the checker, which may hang, nor on the
learner. *FirstRun*: weak fairness of the driver's step and its reader, which Python
schedules, and of the deadline, which the clock reaches; none on the checker.

Every property of a passing run has a mutant in `PROJECT.json`: a plausible bug
(a truncating append, a forgotten remove, a record of any test, a detached reader, an id
without its standard, an unpadded escape, a marker that is not removed, a trap that does
not cover the configuration, a result of one language overwritten by the next, a forced
checkout, a deadline that is looked at only after
an event...) under which TLC finds the property violated.

## Theorems

Proved by TLAPS for every value of the constants that the named assumptions allow.

*HarnessProofs.* Types and every invariant of the run `harness`. They follow from one
inductive invariant: `Hooking` (the hook is pending or has run once a call has recorded
something), `Accounts` (lines plus the call under way never exceed the counts),
`ReliableAccounts` (they are equal while no line was lost), `Endings` (what the exit
code is for each way of ending), `CallUnderWay` and `Bounds`. The properties alone are
not inductive: they speak of the end of the process, and the invariant of every step
that leads there.

*RunnerProofs, the capture.* Types, `NeverKilledWhileReading`, `ReaderIsDoneFirst`,
`OutputIsComplete`, `CodeIsTheChilds`, for every period, lateness and limit with
`Slack < HeartbeatEvery` and `IdleLimit > HeartbeatEvery + 2 * Slack`, every pipe and
every amount of output. The invariant has `Order` (which thread may be where, given
the flag), `Lines` (no line is in two places or in none) and `Clock` (silence is
bounded by the time since the last heartbeat and the lateness of this iteration).

*RunnerProofs, the codec.* `RoundTrip`, `OneLine` and `EventRoundTrip`, for texts of any
length over any part of the alphabet that the assumption names. The state invariant is
only that both are texts (`Typed`); the weight lies in the operators, which fold over the
text. The library's induction theorems take a predicate and cannot be used, so the
induction is over a *set* of numbers (`Induct`, from `Least`: a non-empty set of numbers
has a least one), and both folds are first put as functions on 0..n (`FlattenIs`,
`StepFolds`, `JsonStepFolds`). On them rest three facts:
* the reading loop undoes each code by itself (`Inverting`), hence a whole escaped text,
  character by character, and stops at the quote that closes it (`ReadBack`);
* an escaped text has no quote without a backslash before it (`Clean`, `Escaping`), so the
  text of a key is in one place of the line only, however a value is made up
  (`KeyPlace`, `OnePlace`): the search for the first one cannot be misled;
* a code has no newline (`CodesType`), nor has the layout around it (`LineUnbroken`).

*DiscoveryProofs.* Types; `ListedInOneLanguage`; `ListedInCourseOrder` for chapters
below 1000 and indices below 100; `CheckFindsListedFile` for every course that
follows the convention, stated as an assumption of the theorem. Under it lie three
facts about paths: the weights of `order` make it lexicographic (`OrderIsCourseOrder`),
an id of the course names one file of a language although its parts hold dashes
(`IdsAreUnique`), and a sort loses nothing (`SortsOrder`); and one about scans: the
directories already walked have given every file that stayed (`Swept`).
`ProgressSurvivesLanguage` needs that a listing leaves out nothing it had to find
(`Complete`), and that the id does not hold the language (`MirrorsAlike`).

*EnvironmentProofs.* Types and all four invariants of the run, for any number of
terminals, preparations, versions and changes. `ReadyMeansPinned` needs only that what
`readiness.sh` has compared so far is still so while nothing changes (`Found`).
`ReadyMeansVerified` needs that a marker over all files holds files that were verified:
through `Seen` (while no file is edited under a preparation, all its steps have used the
files of now) and `ToMark` (a preparation that has come to its last step has verified
them). `UnfinishedIsNotReady` needs that a whole marker means a finished preparation,
while two of the container do not overlap (`Unspoilt`). `FinishedIsReady`, its converse,
needs to know how far a preparation is: its steps to come are an end of its list (`Shape`),
and past "installer" and "install" xlings and the tools are right (`Prepared`).

*EndToEndProofs.* Types and all four invariants of the run `scripts`, for every course,
every set of languages and every number of runs and edits. `WorkSurvives` is made
inductive by: where a script is past its dirty check, no work is counted as kept
(`Safe`). `RestoredAtEnd` is made inductive by: every answer in the tree, and a changed
configuration, belong to a script that is still going to restore them (`Restorable`).
`GreenIsEarned` speaks of the last step; `Earning` says what each step before it is
worth: what the texts under test may be while the learner keeps away (`Looked`), what
the self-test and the exercises tested so far show of the language under test (`Worth`),
what is in the lists (`Lists`), and that the languages already done have earned it unless
the result is lost for good (`Shown`). At the end the passed are all exercises and pass in place, so the
comparison of the two counts adds nothing there; in `checker-e2e.sh` it is all there is,
and `CheckerGreenIsEarned` rests on it: what is printed was laid, and is at least as many
(`Watched`).

*ProviderProofs.* Types, the three invariants of the run `provider` and `KeepsContract`,
for every set of tests, every way their names match, any number of checks and of other
Providers. The invariant has the facts about one process that HarnessProofs has too, here
for a process that starts over whatever is in the file (`Process`). Above them `Counted`,
`Running`, `Once`: the asked test is run at most once and what is remembered of it is what
happened. Then the file: the asked test's lines are counted as they come (`LinesGoing`),
are kept until they are read (`LinesKept`), and no other line is in it unless something
came between (`NoOtherLines`); each is premised on the disturbances that would break
it. The verdict follows at the one step that reads the file (`Answered`). `ContractKept`
maps the steps: the end of the asked test's process to the observation, an answer to an
answer, a disturbance to a request given up, all others to stutters.

*UpdateUpstreamProofs.* Types, the three invariants and the action property
`MainIsBackedUpFirst`, for every set of files and directories and any number of versions
and runs. A commit replaces main, a rebase the working tree, a checkout index and tree; to
lose nothing, what each replaces has to be somewhere else already. So the invariant says
which branch is checked out where in the script (`Checkout`) and during a rebase
(`Stopping`), that a version of the learner's is never one of upstream's (`Foreign`),
and that what is in the index, or on the main checked out, is in the tree or on a backup
too (`Held`). The unchecked commands of the .bat are part of the steps: they cost
`TrackedWorkIsSaved` its second half when `git add` fails, and leave `WorkIsNeverLost`
as it is, since `git rebase` does not begin over what was not committed, and main and the
tree hold the work; until a rebase of the backup branch itself stops (`astray`).

*FirstRunProofs.* Types, `PassMeansJourney` and `RestoredAtEnd`, for a course of any
length and tools wrong in any of the ways of `Faults`. The driver learns everything from
events, which come late. The invariant therefore relates the events still to come, those
in the queue and then those in the pipe, to what the checker has done: a "pass" among
them was given (`PassTold`), the last exercise announced is the one opened
(`Announced`), and the first verdict to reach the driver is of the exercise as it came
with the course (`FirstVerdict`, the hardest: it excludes that the verdict of another
exercise overtakes). `Seen` collects what the driver may conclude at each of its places,
`Cleanup` what is still to be restored, and where a checker may run that nothing stops.

Only model-checked: the three liveness properties (`ClosedOutputEndsCapture`,
`CheckerScriptEnds`, `DriverEnds`), which are out of the prover's reach. What TLC shows of
the violations below are behaviours, not theorems.

## Findings

Three comments of the source that the code does not keep. Each is a run of its own with
the one property.

1. *A failure after the hook leaves exit code 0* (harness_late_failure). The comment
   at `d2x.cppm:38` says that a normal exit with a failed check ends with 1. A
   destructor of static storage duration that runs after the hook may fail a check;
   the hook is not registered again. The side channel still has the line.
2. *Blocked does not mean that the answer is right* (provider_blocked;
   `runner.cppm:240`). An exercise that calls `wait()` and then crashes is called
   blocked: the wait is tested before the exit code.
3. *A neighbour's lines are not filtered out* (provider_neighbour; `runner.cppm:167`).
   Only mcpp's records are picked by name. No two tests of today's course stand in
   this relation.

Limits of the code that the models show and the properties are premised on, without a
run of their own:

* a test that hangs with its output open is kept alive by the heartbeats; a plan under
  `.agents/docs` wants hangs to end by the idle limit (Capture; `runner.cppm:84`);
* two Providers share `.d2x/result.ndjson` without a lock: a failure may lose its
  diagnostics, or be called blocked, though not passed (Provider, `"other"`;
  `main.cpp:83`);
* untracked files alone are not on the backup branch, though the script prints that the
  local changes were saved to it; they stay in the tree (UpdateUpstream;
  `update_upstream.sh:35`);
* after a `git add` that failed, the `.bat` commits what was staged before, if anything, and
  says that the local changes are saved (`missed`; `update_upstream.bat:48`, 53); what is
  left out stays in the tree, and the rebase refuses to begin over it;
* after a checkout that failed and was not noticed, the `.bat` rebases the backup branch
  and reports success, with main as it was; work can be lost only when that rebase stops
  over a clash, which the learner resolves without another copy (`astray`;
  `update_upstream.bat:56`);
* a file edited while the container is prepared is fingerprinted as prepared (`edited`;
  `postCreate.sh:13`), and two container preparations at a time may leave the marker of one
  that is not the last (`overlap`);
* `e2e.sh` has no trap: an interrupt leaves answers in the tree (`cut`; `e2e.sh:91`), and
  what is edited after the dirty check is overwritten;
* `e2e.sh` with a word that is no language (`MODE`, lines 158-162) tests no exercise and
  prints ALL GREEN: green then says only that the answers pass in their own project;
* when `close` raises in `first-run.py`, or the job is cancelled with SIGTERM, the exercise
  is not restored (`cut`; `first-run.py:141`); an interrupt between the start of a checker
  and the `try` leaves that checker running in its session (`orphan`; lines 39-49, 121, 151).

## Not modelled

* The Provider's entry point: dispatch and a walk up the directories, straight-line code
  without state.
* The other scripts under `scripts/ci/`. `upgrade.py` is one sequence of commands: it pins
  old versions in `.xlings.json` and puts the file back in a `finally`, may damage the old
  toolchain home on purpose, plants a `state.json`, runs the preparation, again with a fresh
  home when it fails, and compares; its order has no branch that another process shares.
  `prepare.py` copies two streams in two threads that share nothing and are joined after
  the process. The others verify versions, checksums, links or summaries once and write a
  log.
* The Windows branch after `pclose` (`runner.cppm:97`), where the status is the code;
  Capture has the POSIX branch.
* The workflows, which an external service runs; the course content, over a hundred short
  programs that are the environment of Harness.
* `msvc-stl/`: a copy of Microsoft's standard library, kept for reading. Nothing in the
  course builds it, and its tens of thousands of lines are by far most of the
  repository's C++; a share of all lines that the models cover says little for this reason.

## Plan

Done: all components with state and control of their own, and a theorem for every
invariant and action property of the runs. What could be added are theorems that say more
than the runs' properties do: that a lost line or a missing exit code never gives a verdict
more diagnostics than there were failures (`ContractKept` says it of undisturbed checks
only), and that a second run of the update scripts keeps the backups of a failed first one.
