--------------------------- MODULE UpdateUpstream ---------------------------
(***************************************************************************)
(* tools/update_upstream.sh and .bat: fetch the course's upstream, back up *)
(* the learner's work on a branch of its own, and rebase main.             *)
(*                                                                         *)
(* git is external and modelled as far as the scripts use it.  A tree maps *)
(* each file to a version, 0 where it is absent; a branch is the tree of   *)
(* its last commit, for local commits are rebased or refused together.     *)
(* The learner works, upstream publishes, and a script may be interrupted  *)
(* between any two commands.                                               *)
(***************************************************************************)
EXTENDS Naturals

CONSTANTS
    Files,
    Dirs,          \* the directories it may be started in, as the files below
    MaxVersions,   \* bound: versions ever made, by learner and upstream
    MaxRuns        \* bound: runs of the script

ASSUME UpdateAssumption ==
    /\ Files \in Dirs /\ Dirs \subseteq SUBSET Files
    /\ MaxVersions \in Nat \ {0} /\ MaxRuns \in Nat

VARIABLES
    upstream,   \* upstream's main
    fetched,    \* upstream/main as last fetched
    base,       \* the upstream tree that main stands on
    main,       \* the local main
    backup,     \* the last backup branch
    backups,    \* the commits that backup branches hold
    head,       \* what is checked out
    index, tree,
    conflicts,  \* the unmerged files
    rebasing,   \* the branch of a stopped rebase, or none
    onto,       \* the upstream tree that the stopped rebase stands on
    pc,         \* the script's next command
    near,       \* the directory that the script was started in
    outcome,    \* how the last run ended
    bat,        \* the learner's system has the .bat script, not the .sh
    runs, made, \* for the bounds
    mine,       \* history: the learner's last version of each file, or 0
    missed,     \* history: the last git add of a script failed
    astray      \* history: a rebase of the backup branch itself has stopped

server   == <<upstream, fetched, base>>
branches == <<main, backup, backups>>
work     == <<head, index, tree, conflicts, rebasing, onto>>
script   == <<pc, near, outcome, bat, runs>>
history  == <<made, mine, missed, astray>>
vars     == <<server, branches, work, script, history>>

Versions == 0..MaxVersions
Trees    == [Files -> Versions]

TypeOK ==
    /\ upstream \in Trees /\ fetched \in Trees /\ base \in Trees
    /\ main \in Trees /\ backup \in Trees /\ backups \subseteq Trees
    /\ head \in {"main", "backup", "detached"}
    /\ index \in Trees /\ tree \in Trees
    /\ conflicts \subseteq Files
    /\ rebasing \in {"none", "main", "backup"} /\ onto \in Trees
    /\ pc \in {"idle", "fetch", "switch", "branch", "commit", "back", "rebase"}
    /\ near \in Dirs /\ outcome \in {"none", "updated", "failed"}
    /\ bat \in BOOLEAN /\ missed \in BOOLEAN /\ astray \in BOOLEAN
    /\ runs \in 0..MaxRuns
    /\ made \in Versions
    /\ mine \in Trees

\* A fresh clone; some files may come into the course later.
Init ==
    /\ upstream \in [Files -> {0, 1}]
    /\ fetched = upstream /\ base = upstream /\ main = upstream
    /\ backup = upstream /\ backups = {}
    /\ head = "main" /\ index = upstream /\ tree = upstream
    /\ conflicts = {} /\ rebasing = "none" /\ onto = upstream
    /\ pc = "idle" /\ near = Files /\ outcome = "none" /\ runs = 0
    /\ bat \in BOOLEAN /\ missed = FALSE /\ astray = FALSE
    /\ made = 1 /\ mine = [f \in Files |-> 0]

-----------------------------------------------------------------------------
(* git.                                                                    *)

\* The commit checked out.
Head == CASE head = "main" -> main [] head = "backup" -> backup
          [] OTHER -> onto

Unstaged == {f \in Files : index[f] # 0 /\ tree[f] # index[f]}
Staged   == {f \in Files : index[f] # Head[f]}

\* Mutated form of the next: checkout --force.
CanSwitch_Forced(to) == TRUE

\* checkout keeps what is the same in both commits and refuses to overwrite.
CanSwitch(to) ==
    /\ conflicts = {}
    /\ \A f \in Files : Head[f] # to[f] =>
         index[f] = to[f] \/ (index[f] = Head[f] /\ tree[f] = Head[f])

Switched(now, to) ==
    [f \in Files |-> IF Head[f] # to[f] /\ index[f] # to[f]
                     THEN to[f] ELSE now[f]]

\* What a rebase of the tree t onto upstream/main clashes in, and makes of it.
Clashes(t) ==
    {f \in Files : t[f] # base[f] /\ fetched[f] # base[f] /\ t[f] # fetched[f]}
Merged(t) == [f \in Files |-> IF t[f] # base[f] THEN t[f] ELSE fetched[f]]

\* What a stopped rebase leaves: nothing in a clash is counted as kept.
Stopped(t) ==
    [f \in Files |-> IF f \in Clashes(t) THEN fetched[f] ELSE Merged(t)[f]]

\* The working tree after git has put the tree t there: what is untracked stays.
Laid(t) == [f \in Files |-> IF index[f] = 0 /\ t[f] = 0 THEN tree[f] ELSE t[f]]

-----------------------------------------------------------------------------
(* Mutated forms of definitions below, for the sensitivity of the checks.  *)

\* The backup branch is left out: the changes are committed on main.
CreateBackup_Skipped ==
    /\ pc = "branch" /\ pc' = "commit"
    /\ UNCHANGED <<server, branches, work, near, outcome, bat, runs, history>>

\* git commit without git add.
CommitChanges_StagedOnly ==
    /\ pc = "commit" /\ pc' = "back"
    /\ backup' = index /\ backups' = backups \cup {index}
    /\ UNCHANGED <<server, main, work, near, outcome, bat, runs, history>>

\* Without set -e: a failed checkout does not end the .sh either.
BackToMain_Unchecked ==
    /\ pc = "back" /\ pc' = "rebase"
    /\ UNCHANGED <<server, branches, work, near, outcome, bat, runs, history>>

\* The exit of the script is reported by the text alone.
Fail_Silent == pc' = "idle" /\ outcome' = "unknown" /\ UNCHANGED <<near, bat, runs>>

-----------------------------------------------------------------------------
(* The script, command by command.  Each may fail and end it: set -e in one *)
(* script, goto error in the other.                                        *)

Fail == pc' = "idle" /\ outcome' = "failed" /\ UNCHANGED <<near, bat, runs>>

Go(next) == pc' = next /\ UNCHANGED <<near, outcome, bat, runs>>

Run ==
    /\ pc = "idle" /\ runs < MaxRuns
    /\ pc' = "fetch" /\ near' \in Dirs /\ runs' = runs + 1 /\ outcome' = "none"
    /\ UNCHANGED <<server, branches, work, bat, history>>

Fetch ==
    /\ pc = "fetch"
    /\ \/ Go("switch") /\ fetched' = upstream
       \/ Fail /\ UNCHANGED fetched
    /\ UNCHANGED <<upstream, base, branches, work, history>>

\* git checkout main, wherever an earlier run or the learner has left HEAD.
ToMain ==
    /\ CanSwitch(main)
    /\ head' = "main"
    /\ index' = Switched(index, main) /\ tree' = Switched(tree, main)
    /\ UNCHANGED <<conflicts, rebasing, onto>>

SwitchToMain ==
    /\ pc = "switch"
    /\ \/ ToMain /\ Go("branch")
       \/ ~CanSwitch(main) /\ Fail /\ UNCHANGED work
    /\ UNCHANGED <<server, branches, history>>

\* The name is the second of the clock: it may be taken.
CreateBackup ==
    /\ pc = "branch"
    /\ \/ /\ Go("commit")
          /\ head' = "backup" /\ backup' = main /\ backups' = backups \cup {main}
       \/ Fail /\ UNCHANGED <<head, backup, backups>>
    /\ UNCHANGED <<server, main, index, tree, conflicts, rebasing, onto,
                   history>>

\* git add . takes what is below the directory the script was started in, or
\* fails, as on a file held open, and takes nothing.
Add ==
    \/ /\ index' = [f \in Files |-> IF f \in near THEN tree[f] ELSE index[f]]
       /\ missed' = FALSE
    \/ UNCHANGED index /\ missed' = TRUE

\* Changes are looked for with git diff.  The .bat goes on after a failed add
\* and commits what was staged before; commit refuses when that is nothing, and
\* may refuse anyhow, as it does without a user name.
CommitChanges ==
    /\ pc = "commit"
    /\ IF Unstaged = {} /\ Staged = {}
       THEN Go("back") /\ missed' = FALSE /\ UNCHANGED <<backup, backups, index>>
       ELSE /\ Add
            /\ \/ /\ (missed' => bat) /\ index' # backup /\ Go("back")
                  /\ backup' = index' /\ backups' = backups \cup {index'}
               \/ Fail /\ UNCHANGED <<backup, backups>>
    /\ UNCHANGED <<server, main, head, tree, conflicts, rebasing, onto,
                   made, mine, astray>>

\* A checkout may also fail on a file that is open elsewhere.
BackToMain ==
    /\ pc = "back"
    /\ \/ ToMain /\ Go("rebase")
       \/ UNCHANGED work /\ IF bat THEN Go("rebase") ELSE Fail
    /\ UNCHANGED <<server, branches, history>>

\* git refuses to begin over changes, over files it would overwrite, or while
\* another rebase is under way.
CanRebase ==
    /\ rebasing = "none" /\ Unstaged = {} /\ Staged = {}
    /\ \A f \in Files : index[f] = 0 /\ tree[f] # 0 => fetched[f] = 0

RebaseRefused ==
    /\ pc = "rebase" /\ ~CanRebase
    /\ Fail
    /\ UNCHANGED <<server, branches, work, history>>

RebaseConflicts ==
    /\ pc = "rebase" /\ CanRebase /\ Clashes(Head) # {}
    /\ conflicts' = Clashes(Head)
    /\ rebasing' = head /\ head' = "detached" /\ onto' = fetched
    /\ index' = Stopped(Head) /\ tree' = Laid(Stopped(Head))
    /\ astray' = (astray \/ head = "backup")
    /\ Fail
    /\ UNCHANGED <<server, branches, made, mine, missed>>

\* "Update complete."
RebaseSucceeds ==
    /\ pc = "rebase" /\ CanRebase /\ Clashes(Head) = {}
    /\ index' = Merged(Head) /\ tree' = Laid(Merged(Head))
    /\ IF head = "main"
       THEN main' = Merged(main) /\ base' = fetched /\ UNCHANGED <<backup, backups>>
       ELSE /\ backup' = Merged(backup)
            /\ backups' = (backups \ {backup}) \cup {Merged(backup)}
            /\ UNCHANGED <<main, base>>
    /\ pc' = "idle" /\ outcome' = "updated"
    /\ UNCHANGED <<upstream, fetched, head, conflicts, rebasing, onto, near,
                   bat, runs, history>>

Interrupt ==
    /\ pc # "idle" /\ Fail
    /\ UNCHANGED <<server, branches, work, history>>

-----------------------------------------------------------------------------
(* The learner, who waits for the script to end, and upstream.             *)

Idle == pc = "idle" /\ UNCHANGED script

Edit(f) ==
    /\ Idle /\ made < MaxVersions
    /\ made' = made + 1
    /\ tree' = [tree EXCEPT ![f] = made + 1]
    /\ mine' = [mine EXCEPT ![f] = made + 1]
    /\ UNCHANGED <<server, branches, head, index, conflicts, rebasing, onto,
                   missed, astray>>

Stage(f) ==
    /\ Idle
    /\ index' = [index EXCEPT ![f] = tree[f]]
    /\ conflicts' = conflicts \ {f}
    /\ UNCHANGED <<server, branches, head, tree, rebasing, onto, history>>

Commit ==
    /\ Idle /\ head # "detached" /\ Staged # {}
    /\ IF head = "main" THEN main' = index /\ UNCHANGED <<backup, backups>>
       ELSE backup' = index /\ backups' = backups \cup {index} /\ UNCHANGED main
    /\ UNCHANGED <<server, work, history>>

\* git rebase --continue, --abort, and --quit from another branch.
Continue ==
    /\ Idle /\ head = "detached" /\ conflicts = {} /\ Unstaged = {}
    /\ IF rebasing = "main"
       THEN main' = index /\ base' = onto /\ UNCHANGED <<backup, backups>>
       ELSE /\ backup' = index /\ backups' = (backups \ {backup}) \cup {index}
            /\ UNCHANGED <<main, base>>
    /\ head' = rebasing /\ rebasing' = "none"
    /\ UNCHANGED <<upstream, fetched, index, tree, conflicts, onto, history>>

\* What was done since the rebase stopped is given up.
Abort ==
    /\ Idle /\ head = "detached"
    /\ head' = rebasing /\ rebasing' = "none" /\ conflicts' = {}
    /\ \E t \in {IF rebasing = "main" THEN main ELSE backup} :
         index' = t /\ tree' = Laid(t)
    /\ mine' = [f \in Files |->
                  IF mine[f] \in {b[f] : b \in backups \cup {main, tree'}}
                  THEN mine[f] ELSE 0]
    /\ UNCHANGED <<server, branches, onto, made, missed, astray>>

Quit ==
    /\ Idle /\ head # "detached" /\ rebasing # "none"
    /\ rebasing' = "none"
    /\ UNCHANGED <<server, branches, head, index, tree, conflicts, onto, history>>

Publish(f) ==
    /\ made < MaxVersions /\ made' = made + 1
    /\ upstream' = [upstream EXCEPT ![f] = made + 1]
    /\ UNCHANGED <<fetched, base, branches, work, script, mine, missed, astray>>

Next ==
    \/ Run \/ Fetch \/ SwitchToMain \/ CreateBackup \/ CommitChanges
    \/ BackToMain \/ RebaseRefused \/ RebaseConflicts \/ RebaseSucceeds
    \/ Interrupt
    \/ \E f \in Files : Edit(f) \/ Stage(f) \/ Publish(f)
    \/ Commit \/ Continue \/ Abort \/ Quit

Spec == Init /\ [][Next]_vars

-----------------------------------------------------------------------------
(* Properties.                                                             *)

\* Whatever fails, clashes or is interrupted, and however often the script is
\* run again, the learner's last version of every file is in the working tree,
\* in the index or on a branch.  It is so too when the .bat, which looks neither
\* at its git add (line 48) nor at its checkout (line 56), goes on and rebases
\* the backup branch, but not once that very rebase has stopped: the learner
\* then resolves it with no other copy to go back to.
WorkIsNeverLost ==
    ~astray => \A f \in Files :
        mine[f] # 0 => mine[f] \in {t[f] : t \in backups \cup {main, index, tree}}

\* What the script leaves behind when it goes back to main (lines 33-48 of the
\* .sh, 39-56 of the .bat): all that is staged is on the backup branch, and so
\* is every tracked change when it was started in the root, unless the git add
\* of a .bat has failed, which says "saved" all the same (line 53).
TrackedWorkIsSaved ==
    pc = "back" =>
        /\ backup = index
        /\ near = Files /\ ~(bat /\ missed) =>
             \A f \in Files : index[f] # 0 => backup[f] = tree[f]

\* The script rewrites main only when all that was on it is on a backup branch,
\* in the .bat too, which goes on after a failed checkout.
MainIsBackedUpFirst ==
    [][pc # "idle" /\ main' # main => main \in backups]_vars

\* "Update complete" (line 56 of the .sh, line 64 of the .bat): main stands on
\* the upstream that the run has fetched.  Only a .bat may say so otherwise, and
\* then it has left the backup branch checked out, rebased in place of main.
UpdatedMeansMainIsUpdated ==
    outcome = "updated" => base = fetched \/ (bat /\ head = "backup")
=============================================================================
