------------------------- MODULE UpdateUpstreamProofs -------------------------
(***************************************************************************)
(* The update scripts lose no work until they have stopped in a rebase of  *)
(* a backup branch, save what is tracked unless the git add of a .bat has  *)
(* failed, back main up before they rewrite it, and say "updated" only of  *)
(* a main that is, the .bat also of a backup branch that it rebased: for   *)
(* every set of files and directories, and any number of runs, edits and   *)
(* publications, interrupted anywhere.                                     *)
(*                                                                         *)
(* WorkIsNeverLost is not inductive.  A commit replaces main, a rebase     *)
(* the working tree, a checkout both the index and the tree; what each of  *)
(* them replaces has to be somewhere else already, and that is what Inv    *)
(* adds: which branch is checked out where in the script (Checkout), that  *)
(* a version of the learner's is never one of upstream's (Foreign), and    *)
(* that what is in the index or on the main checked out is in the tree or  *)
(* on a backup branch as well (Held).                                      *)
(***************************************************************************)
EXTENDS UpdateUpstream, TLAPS

\* Where the script is says what is checked out, and what was backed up.
Checkout ==
    /\ pc \in {"commit", "back"} => head = "backup"
    /\ pc = "branch" => head = "main"
    /\ pc = "rebase" => head = "main" \/ (bat /\ head = "backup")
    /\ pc \in {"commit", "back", "rebase"} => main \in backups
    /\ head = "backup" \/ rebasing = "backup" => backup \in backups

\* A rebase that stopped: of main, whose commit was backed up before, unless
\* one of a backup branch has stopped.
Stopping ==
    /\ head = "detached" => rebasing # "none"
    /\ ~astray => rebasing # "backup"
    /\ head = "detached" /\ ~astray => main \in backups

Reported ==
    /\ outcome = "updated" => pc = "idle" /\ rebasing = "none"
    /\ UpdatedMeansMainIsUpdated

\* Versions are made once, by the learner or by upstream.
Foreign ==
    \A f \in Files :
        /\ upstream[f] <= made /\ fetched[f] <= made /\ base[f] <= made
        /\ onto[f] <= made /\ mine[f] <= made
        /\ mine[f] # 0 => mine[f] \notin {upstream[f], fetched[f], base[f], onto[f]}

BackedUp(f) == \E t \in backups : t[f] = mine[f]

Held(f) ==
    mine[f] # 0 =>
        /\ index[f] = mine[f] => tree[f] = mine[f]
        /\ head = "main" /\ main[f] = mine[f] => tree[f] = mine[f] \/ BackedUp(f)
        /\ tree[f] = mine[f] \/ main[f] = mine[f] \/ BackedUp(f)

Safe == ~astray => \A f \in Files : Held(f)

Parts == Checkout /\ Stopping /\ Reported

Inv == TypeOK /\ Parts /\ TrackedWorkIsSaved /\ Foreign /\ Safe

-----------------------------------------------------------------------------
(* The operators of git.                                                   *)

LEMMA HeadIs ==
    /\ head = "main" => Head = main
    /\ head = "backup" => Head = backup
    /\ head \notin {"main", "backup"} => Head = onto
BY DEF Head

LEMMA HeadType == TypeOK => Head \in Trees
BY HeadIs DEF TypeOK

LEMMA SwitchedType ==
    ASSUME NEW now \in Trees, NEW to \in Trees PROVE Switched(now, to) \in Trees
BY DEF Switched, Trees

LEMMA MergedType ==
    ASSUME TypeOK, NEW t \in Trees
    PROVE  Merged(t) \in Trees /\ Stopped(t) \in Trees /\ Laid(t) \in Trees
<1>1. Merged(t) \in Trees
  BY DEF TypeOK, Merged, Trees
<1>2. Stopped(t) \in Trees
  BY <1>1 DEF TypeOK, Stopped, Trees
<1>3. Laid(t) \in Trees
  BY DEF TypeOK, Laid, Trees
<1> QED BY <1>1, <1>2, <1>3

LEMMA ClashesType == Clashes(Head) \subseteq Files
BY DEF Clashes

-----------------------------------------------------------------------------
(* The types.                                                              *)

LEMMA InitTypes == Init => TypeOK
<1> SUFFICES ASSUME Init PROVE TypeOK
  OBVIOUS
<1>1. 0 \in Versions /\ 1 \in Versions
  BY UpdateAssumption DEF Versions
<1>2. upstream \in Trees
  BY <1>1 DEF Init, Trees
<1>3. mine \in Trees
  BY <1>1 DEF Init, Trees
<1>4. runs \in 0..MaxRuns /\ made \in Versions /\ near \in Dirs
  BY <1>1, UpdateAssumption DEF Init
<1> QED BY <1>2, <1>3, <1>4 DEF Init, TypeOK

LEMMA ToMainTypes == ASSUME TypeOK, ToMain PROVE
    index' \in Trees /\ tree' \in Trees /\ head' \in {"main", "backup", "detached"}
    /\ UNCHANGED <<conflicts, rebasing, onto>>
BY SwitchedType DEF TypeOK, ToMain

LEMMA ScriptTypes ==
    ASSUME TypeOK, Checkout,
           Run \/ Fetch \/ SwitchToMain \/ CreateBackup \/ CommitChanges \/ BackToMain
    PROVE  TypeOK'
<1> USE DEF Go, Fail, Add, server, branches, work, script, history
<1>1. CASE Run
  BY <1>1, UpdateAssumption DEF TypeOK, Run
<1>2. CASE Fetch
  BY <1>2 DEF TypeOK, Fetch
<1>3. CASE SwitchToMain
  <2>1. /\ index' \in Trees /\ tree' \in Trees /\ head' \in {"main", "backup", "detached"}
        /\ UNCHANGED <<conflicts, rebasing, onto>>
    BY <1>3, ToMainTypes DEF SwitchToMain, TypeOK
  <2>2. UNCHANGED <<server, branches, history, near, bat, runs>>
        /\ pc' \in {"branch", "idle"} /\ outcome' \in {outcome, "failed"}
    BY <1>3 DEF SwitchToMain
  <2> QED BY <2>1, <2>2 DEF TypeOK
<1>4. CASE CreateBackup
  BY <1>4 DEF TypeOK, CreateBackup
<1>5. CASE CommitChanges
  <2>1. index' \in Trees
    BY <1>5 DEF CommitChanges, TypeOK, Trees
  <2>2. backup' \in Trees /\ backups' \subseteq Trees
    BY <1>5, <2>1 DEF CommitChanges, TypeOK
  <2>3. UNCHANGED <<server, main, head, tree, conflicts, rebasing, onto, made, mine,
                    astray, near, bat, runs>>
        /\ pc' \in {"back", "idle"} /\ outcome' \in {outcome, "failed"}
        /\ missed' \in BOOLEAN
    BY <1>5 DEF CommitChanges
  <2> QED BY <2>1, <2>2, <2>3 DEF TypeOK
<1>6. CASE BackToMain
  <2>1. /\ index' \in Trees /\ tree' \in Trees /\ head' \in {"main", "backup", "detached"}
        /\ UNCHANGED <<conflicts, rebasing, onto>>
    BY <1>6, ToMainTypes DEF BackToMain, TypeOK
  <2>2. UNCHANGED <<server, branches, history, near, bat, runs>>
        /\ pc' \in {"rebase", "idle"} /\ outcome' \in {outcome, "failed"}
    BY <1>6 DEF BackToMain
  <2> QED BY <2>1, <2>2 DEF TypeOK
<1> QED BY <1>1, <1>2, <1>3, <1>4, <1>5, <1>6

LEMMA RebaseTypes ==
    ASSUME TypeOK, Checkout,
           RebaseRefused \/ RebaseConflicts \/ RebaseSucceeds \/ Interrupt
    PROVE  TypeOK'
<1> USE DEF Fail, server, branches, work, script, history
<1>1. CASE RebaseRefused \/ Interrupt
  BY <1>1 DEF TypeOK, RebaseRefused, Interrupt
<1>2. CASE RebaseConflicts
  <2>1. /\ index' \in Trees /\ tree' \in Trees /\ onto' \in Trees /\ conflicts' \subseteq Files
        /\ rebasing' \in {"none", "main", "backup"} /\ head' = "detached"
    BY <1>2, HeadType, MergedType, ClashesType DEF RebaseConflicts, TypeOK, Checkout
  <2>2. UNCHANGED <<server, branches, made, mine, missed, near, bat, runs>>
        /\ pc' = "idle" /\ outcome' = "failed" /\ astray' \in BOOLEAN
    BY <1>2 DEF RebaseConflicts, TypeOK
  <2> QED BY <2>1, <2>2 DEF TypeOK
<1>3. CASE RebaseSucceeds
  <2>1. index' \in Trees /\ tree' \in Trees
    BY <1>3, HeadType, MergedType DEF RebaseSucceeds
  <2>2. main' \in Trees /\ base' \in Trees /\ backup' \in Trees /\ backups' \subseteq Trees
    BY <1>3, MergedType DEF RebaseSucceeds, TypeOK
  <2>3. UNCHANGED <<upstream, fetched, head, conflicts, rebasing, onto, history, near,
                    bat, runs>>
        /\ pc' = "idle" /\ outcome' = "updated"
    BY <1>3 DEF RebaseSucceeds
  <2> QED BY <2>1, <2>2, <2>3 DEF TypeOK
<1> QED BY <1>1, <1>2, <1>3

LEMMA LearnerTypes ==
    ASSUME TypeOK, Stopping,
           \/ \E f \in Files : Edit(f) \/ Stage(f) \/ Publish(f)
           \/ Commit \/ Continue \/ Abort \/ Quit
    PROVE  TypeOK'
<1> USE DEF Idle, server, branches, work, script, history
<1>1. ASSUME NEW f \in Files, Edit(f) PROVE TypeOK'
  <2>1. made + 1 \in Versions
    BY <1>1, UpdateAssumption DEF Edit, TypeOK, Versions
  <2>2. tree' \in Trees /\ mine' \in Trees /\ made' \in Versions
    BY <1>1, <2>1 DEF Edit, TypeOK, Trees
  <2> QED BY <1>1, <2>2 DEF Edit, TypeOK
<1>2. ASSUME NEW f \in Files, Stage(f) PROVE TypeOK'
  <2>1. index' \in Trees
    BY <1>2 DEF Stage, TypeOK, Trees
  <2> QED BY <1>2, <2>1 DEF Stage, TypeOK
<1>3. ASSUME NEW f \in Files, Publish(f) PROVE TypeOK'
  <2>1. made + 1 \in Versions
    BY <1>3, UpdateAssumption DEF Publish, TypeOK, Versions
  <2>2. upstream' \in Trees /\ made' \in Versions
    BY <1>3, <2>1 DEF Publish, TypeOK, Trees
  <2> QED BY <1>3, <2>2 DEF Publish, TypeOK
<1>4. CASE Commit
  BY <1>4 DEF Commit, TypeOK
<1>5. CASE Continue
  BY <1>5 DEF Continue, TypeOK, Stopping
<1>6. CASE Abort
  <2>1. index' \in Trees /\ tree' \in Trees
    BY <1>6, MergedType DEF Abort, TypeOK
  <2>2. mine' \in Trees
    BY <1>6, UpdateAssumption DEF Abort, TypeOK, Trees, Versions
  <2>3. head' \in {"main", "backup"}
    BY <1>6 DEF Abort, TypeOK, Stopping
  <2> QED BY <1>6, <2>1, <2>2, <2>3 DEF Abort, TypeOK
<1>7. CASE Quit
  BY <1>7 DEF Quit, TypeOK
<1> QED BY <1>1, <1>2, <1>3, <1>4, <1>5, <1>6, <1>7

LEMMA TypesKept == TypeOK /\ Checkout /\ Stopping /\ [Next]_vars => TypeOK'
<1>1. CASE UNCHANGED vars
  BY <1>1 DEF TypeOK, vars, server, branches, work, script, history
<1> QED BY <1>1, ScriptTypes, RebaseTypes, LearnerTypes DEF Next

-----------------------------------------------------------------------------
(* What is checked out, what a stopped rebase leaves, and what is reported.*)

LEMMA InitParts == Init => Parts /\ TrackedWorkIsSaved
BY DEF Init, Parts, Checkout, Stopping, Reported, UpdatedMeansMainIsUpdated,
       TrackedWorkIsSaved

LEMMA ScriptParts ==
    ASSUME TypeOK, Parts, TrackedWorkIsSaved,
           \/ Run \/ Fetch \/ SwitchToMain \/ CreateBackup \/ CommitChanges \/ BackToMain
           \/ RebaseRefused \/ RebaseConflicts \/ RebaseSucceeds \/ Interrupt
    PROVE  Parts' /\ TrackedWorkIsSaved'
<1> USE DEF Parts, Checkout, Stopping, Reported, UpdatedMeansMainIsUpdated,
            TrackedWorkIsSaved, Go, Fail, Add, server, branches, work, script, history
<1>1. CASE Run
  BY <1>1 DEF Run
<1>2. CASE Fetch
  BY <1>2 DEF Fetch
<1>3. CASE SwitchToMain
  BY <1>3 DEF SwitchToMain, ToMain
<1>4. CASE CreateBackup
  BY <1>4 DEF CreateBackup
<1>5. CASE CommitChanges
  <2>1. Parts'
    BY <1>5 DEF CommitChanges
  <2>2. head = "backup" /\ Head = backup /\ UNCHANGED <<tree, near, bat>>
    BY <1>5, HeadIs DEF CommitChanges
  <2>3. ASSUME pc' = "back" PROVE backup' = index'
    <3>1. CASE Unstaged = {} /\ Staged = {}
      <4>1. UNCHANGED <<backup, index>> /\ \A f \in Files : index[f] = backup[f]
        BY <1>5, <2>2, <3>1 DEF CommitChanges, Staged
      <4> QED BY <4>1 DEF TypeOK, Trees
    <3>2. CASE ~(Unstaged = {} /\ Staged = {})
      BY <1>5, <2>3, <3>2 DEF CommitChanges
    <3> QED BY <3>1, <3>2
  <2>4. ASSUME pc' = "back", near = Files, ~(bat /\ missed'), NEW f \in Files, index'[f] # 0
        PROVE  tree[f] = index'[f]
    <3>1. CASE Unstaged = {} /\ Staged = {}
      BY <1>5, <2>4, <3>1 DEF CommitChanges, Unstaged
    <3>2. CASE ~(Unstaged = {} /\ Staged = {})
      <4>1. ~missed' /\ Add
        BY <1>5, <2>4, <3>2 DEF CommitChanges
      <4>2. index' = [g \in Files |-> IF g \in near THEN tree[g] ELSE index[g]]
        BY <4>1
      <4> QED BY <2>4, <4>2
    <3> QED BY <3>1, <3>2
  <2> QED BY <2>1, <2>2, <2>3, <2>4
<1>6. CASE BackToMain
  BY <1>6 DEF BackToMain, ToMain
<1>7. CASE RebaseRefused \/ Interrupt
  BY <1>7 DEF RebaseRefused, Interrupt
<1>8. CASE RebaseConflicts
  BY <1>8 DEF RebaseConflicts
<1>9. CASE RebaseSucceeds
  BY <1>9 DEF RebaseSucceeds, CanRebase
<1> QED BY <1>1, <1>2, <1>3, <1>4, <1>5, <1>6, <1>7, <1>8, <1>9

LEMMA LearnerParts ==
    ASSUME TypeOK, Parts, TrackedWorkIsSaved,
           \/ \E f \in Files : Edit(f) \/ Stage(f) \/ Publish(f)
           \/ Commit \/ Continue \/ Abort \/ Quit
    PROVE  Parts' /\ TrackedWorkIsSaved'
<1> USE DEF Parts, Checkout, Stopping, Reported, UpdatedMeansMainIsUpdated,
            TrackedWorkIsSaved, Idle, server, branches, work, script, history
<1>1. ASSUME NEW f \in Files, Edit(f) \/ Stage(f) \/ Publish(f)
      PROVE  Parts' /\ TrackedWorkIsSaved'
  <2>1. UNCHANGED <<pc, near, outcome, head, rebasing, main, backup, backups, base, fetched,
                    bat, missed, astray>>
        /\ (pc = "back" => UNCHANGED <<index, tree>>)
    BY <1>1 DEF Edit, Stage, Publish
  <2> QED BY <2>1
<1>2. CASE Commit
  BY <1>2 DEF Commit
<1>3. CASE Continue \/ Abort
  <2>1. head' \in {"main", "backup"}
    BY <1>3 DEF Continue, Abort, TypeOK
  <2> QED BY <1>3, <2>1 DEF Continue, Abort
<1>4. CASE Quit
  BY <1>4 DEF Quit
<1> QED BY <1>1, <1>2, <1>3, <1>4

LEMMA PartsKept ==
    TypeOK /\ Parts /\ TrackedWorkIsSaved /\ [Next]_vars => Parts' /\ TrackedWorkIsSaved'
<1>1. CASE UNCHANGED vars
  BY <1>1 DEF Parts, Checkout, Stopping, Reported, UpdatedMeansMainIsUpdated,
         TrackedWorkIsSaved, vars, server, branches, work, script, history
<1> QED BY <1>1, ScriptParts, LearnerParts DEF Next

-----------------------------------------------------------------------------
(* A version of the learner's is none of upstream's.                       *)

LEMMA InitForeign == Init => Foreign
<1> SUFFICES ASSUME Init PROVE Foreign
  OBVIOUS
<1>1. fetched = upstream /\ base = upstream /\ onto = upstream /\ made = 1
  BY DEF Init
<1>2. ASSUME NEW f \in Files
      PROVE  /\ upstream[f] <= made /\ fetched[f] <= made /\ base[f] <= made
             /\ onto[f] <= made /\ mine[f] <= made
             /\ mine[f] = 0
  <2>1. upstream[f] \in {0, 1} /\ mine[f] = 0
    BY DEF Init
  <2> QED BY ONLY <1>1, <2>1
<1> QED BY ONLY <1>2 DEF Foreign

LEMMA ForeignKept == TypeOK /\ Foreign /\ [Next]_vars => Foreign'
<1> SUFFICES ASSUME TypeOK, Foreign, [Next]_vars PROVE Foreign'
  OBVIOUS
<1>0. /\ made \in Nat
      /\ \A f \in Files : /\ upstream[f] \in Nat /\ fetched[f] \in Nat /\ base[f] \in Nat
                          /\ onto[f] \in Nat /\ mine[f] \in Nat
  BY UpdateAssumption DEF TypeOK, Trees, Versions
<1> USE DEF Foreign, server, branches, work, script, history, Idle
<1>1. CASE \/ Run \/ SwitchToMain \/ CreateBackup \/ CommitChanges \/ BackToMain
           \/ RebaseRefused \/ Interrupt \/ Commit \/ Quit \/ \E f \in Files : Stage(f)
  <2>1. UNCHANGED <<upstream, fetched, base, onto, made, mine>>
    BY <1>1 DEF Run, SwitchToMain, CreateBackup, CommitChanges, BackToMain, RebaseRefused,
           Interrupt, Commit, Quit, Stage, ToMain
  <2> QED BY <2>1
<1>2. CASE Fetch
  BY <1>2 DEF Fetch
<1>3. CASE RebaseConflicts
  BY <1>3 DEF RebaseConflicts
<1>4. CASE RebaseSucceeds
  BY <1>4 DEF RebaseSucceeds
<1>5. ASSUME NEW g \in Files, Edit(g) PROVE Foreign'
  <2>1. /\ UNCHANGED <<upstream, fetched, base, onto>> /\ made' = made + 1
        /\ \A f \in Files : mine'[f] = IF f = g THEN made + 1 ELSE mine[f]
    BY <1>5 DEF Edit, TypeOK, Trees
  <2> QED BY <1>0, <2>1
<1>6. ASSUME NEW g \in Files, Publish(g) PROVE Foreign'
  <2>1. /\ UNCHANGED <<mine, fetched, base, onto>> /\ made' = made + 1
        /\ \A f \in Files : upstream'[f] = IF f = g THEN made + 1 ELSE upstream[f]
    BY <1>6 DEF Publish, TypeOK, Trees
  <2> QED BY <1>0, <2>1
<1>7. CASE Continue
  BY <1>7 DEF Continue
<1>8. CASE Abort
  <2>1. /\ UNCHANGED <<upstream, fetched, base, onto, made>>
        /\ \A f \in Files : mine'[f] = mine[f] \/ mine'[f] = 0
    BY <1>8 DEF Abort
  <2> QED BY <1>0, <2>1
<1>9. CASE UNCHANGED vars
  BY <1>9 DEF vars
<1> QED BY <1>1, <1>2, <1>3, <1>4, <1>5, <1>6, <1>7, <1>8, <1>9 DEF Next

-----------------------------------------------------------------------------
(* No work is lost.                                                        *)

LEMMA InitSafe == Init => Safe
BY DEF Init, Safe, Held

\* What is at the commit checked out is the learner's on a branch only.
LEMMA AtHead ==
    ASSUME TypeOK, Parts, Foreign, ~astray, NEW f \in Files, mine[f] # 0,
           Head[f] = mine[f]
    PROVE  (head = "main" /\ main[f] = mine[f]) \/ BackedUp(f)
<1>1. onto[f] # mine[f]
  BY DEF Foreign
<1>2. CASE head = "backup"
  BY <1>2, HeadIs DEF Parts, Checkout, BackedUp
<1>3. CASE head # "backup"
  BY <1>1, <1>3, HeadIs
<1> QED BY <1>2, <1>3

LEMMA ToMainSafe ==
    ASSUME TypeOK, Parts, Foreign, ~astray, NEW f \in Files, Held(f), ToMain,
           UNCHANGED <<main, backups, mine>>
    PROVE  Held(f)'
<1> SUFFICES ASSUME mine[f] # 0 PROVE Held(f)'
  BY DEF Held
<1>1. head' = "main" /\ (BackedUp(f)' <=> BackedUp(f))
  BY DEF ToMain, BackedUp
<1>2. CASE Head[f] = main[f] \/ index[f] = main[f]
  <2>1. index'[f] = index[f] /\ tree'[f] = tree[f]
    BY <1>2 DEF ToMain, Switched
  <2>2. main[f] = mine[f] => tree[f] = mine[f] \/ BackedUp(f)
    BY <1>2, AtHead DEF Held
  <2> QED BY <1>1, <2>1, <2>2 DEF Held
<1>3. CASE Head[f] # main[f] /\ index[f] # main[f]
  <2>1. index'[f] = main[f] /\ tree'[f] = main[f]
    BY <1>3 DEF ToMain, Switched
  <2>2. tree[f] = Head[f]
    BY <1>3 DEF ToMain, CanSwitch
  <2>3. tree[f] = mine[f] => BackedUp(f)
    BY <1>3, <2>2, AtHead, HeadIs
  <2> QED BY <1>1, <2>1, <2>3 DEF Held
<1> QED BY <1>2, <1>3

\* A step that adds to the backups and takes no file out of the working tree.
LEMMA AddingSafe ==
    ASSUME NEW f \in Files, Held(f), UNCHANGED <<mine, tree, main>>,
           backups \subseteq backups', head' = "main" => head = "main",
           index'[f] \in {index[f], tree[f]}
    PROVE  Held(f)'
<1>1. BackedUp(f) => BackedUp(f)'
  BY DEF BackedUp
<1> QED BY <1>1 DEF Held

LEMMA ScriptSafe ==
    ASSUME Inv, ~astray',
           Run \/ Fetch \/ SwitchToMain \/ CreateBackup \/ CommitChanges \/ BackToMain
           \/ RebaseRefused \/ Interrupt,
           NEW f \in Files
    PROVE  Held(f)'
<1> USE DEF Go, Fail, Add, server, branches, work, script, history
<1>1. ~astray /\ Held(f)
  <2>1. astray => astray'
    BY DEF Run, Fetch, SwitchToMain, CreateBackup, CommitChanges, BackToMain,
           RebaseRefused, Interrupt
  <2> QED BY <2>1 DEF Inv, Safe
<1>2. CASE (SwitchToMain \/ BackToMain) /\ ToMain
  <2>1. UNCHANGED <<main, backups, mine>>
    BY <1>2 DEF SwitchToMain, BackToMain
  <2> QED BY <1>1, <1>2, <2>1, ToMainSafe DEF Inv
<1>3. CASE (SwitchToMain \/ BackToMain) /\ ~ToMain
  <2>1. UNCHANGED <<mine, tree, main, index, head, backups>>
    BY <1>3 DEF SwitchToMain, BackToMain
  <2> QED BY <1>1, <2>1, AddingSafe
<1>4. CASE Run \/ Fetch \/ CreateBackup \/ CommitChanges \/ RebaseRefused \/ Interrupt
  <2>1. UNCHANGED <<mine, tree, main>> /\ backups \subseteq backups'
        /\ (head' = "main" => head = "main")
    BY <1>4 DEF Run, Fetch, CreateBackup, CommitChanges, RebaseRefused, Interrupt
  <2>2. index'[f] \in {index[f], tree[f]}
    BY <1>4 DEF Run, Fetch, CreateBackup, CommitChanges, RebaseRefused, Interrupt
  <2> QED BY <1>1, <2>1, <2>2, AddingSafe
<1> QED BY <1>2, <1>3, <1>4

\* A rebase of what is checked out, which is on a backup branch: what is tracked
\* is in it, and what is not tracked stays where it is.  The learner's versions
\* go over from a backup branch that is rebased to the one it becomes.
LEMMA RebaseSafe ==
    ASSUME Inv, ~astray', RebaseConflicts \/ RebaseSucceeds, NEW f \in Files
    PROVE  Held(f)'
<1> SUFFICES ASSUME mine'[f] # 0 PROVE Held(f)'
  BY DEF Held
<1>1. /\ pc = "rebase" /\ CanRebase /\ UNCHANGED <<mine, astray, fetched>>
      /\ \/ head = "main" /\ Head = main /\ main \in backups
         \/ head = "backup" /\ Head = backup /\ backup \in backups /\ RebaseSucceeds
  <2>1. pc = "rebase" /\ CanRebase /\ UNCHANGED <<mine, fetched>>
    BY DEF RebaseConflicts, RebaseSucceeds, history, server
  <2>2. astray' = astray /\ (head = "backup" => RebaseSucceeds)
    <3>1. astray \in BOOLEAN /\ astray' \in BOOLEAN
      BY TypesKept DEF Inv, TypeOK, Parts, Next
    <3>2. CASE RebaseConflicts
      BY <3>1, <3>2 DEF RebaseConflicts
    <3>3. CASE RebaseSucceeds
      BY <3>3 DEF RebaseSucceeds, history
    <3> QED BY <3>2, <3>3
  <2> QED BY <2>1, <2>2, HeadIs DEF Inv, Parts, Checkout
<1>2. /\ Held(f) /\ mine[f] # 0
      /\ mine[f] \notin {fetched[f], base[f]}
      /\ Head[f] = mine[f] => BackedUp(f)
  BY <1>1 DEF Inv, Safe, Foreign, BackedUp
<1> DEFINE new == IF RebaseConflicts THEN Stopped(Head) ELSE Merged(Head)
<1>3. index' = new /\ tree' = Laid(new)
  BY <1>1 DEF RebaseConflicts, RebaseSucceeds, Clashes
<1>4. new[f] \in {Head[f], fetched[f]} /\ (Head[f] = 0 /\ fetched[f] = 0 => new[f] = 0)
  BY DEF Stopped, Merged
<1>5. index'[f] = new[f] /\ tree'[f] = IF index[f] = 0 /\ new[f] = 0 THEN tree[f] ELSE new[f]
  BY <1>3 DEF Laid
<1>6. index[f] = Head[f] /\ (index[f] # 0 => tree[f] = Head[f])
      /\ (index[f] = 0 /\ tree[f] # 0 => fetched[f] = 0)
  BY <1>1 DEF CanRebase, Unstaged, Staged
<1>7. BackedUp(f) => BackedUp(f)'
  <2>1. CASE head = "main"
    BY <1>1, <2>1 DEF RebaseConflicts, RebaseSucceeds, branches, BackedUp
  <2>2. CASE head = "backup"
    <3>1. backups' = (backups \ {backup}) \cup {Merged(backup)} /\ mine' = mine
      BY <1>1, <2>2 DEF RebaseSucceeds
    <3>2. backup[f] = mine[f] => Merged(backup)[f] = mine[f]
      BY <1>2 DEF Merged
    <3> QED BY <3>1, <3>2 DEF BackedUp
  <2> QED BY <1>1, <2>1, <2>2
<1>8. /\ head' = "main" => head = "main" /\ main' = new
      /\ main' \in {main, new}
      /\ head = "backup" => main' = main
  BY <1>1 DEF RebaseConflicts, RebaseSucceeds, branches
<1> HIDE DEF new
<1>9. new[f] = mine[f] => BackedUp(f)
  BY <1>2, <1>4
<1>10. index'[f] = mine[f] => tree'[f] = mine[f]
  BY <1>2, <1>5
<1>11. tree[f] = mine[f] => tree'[f] = mine[f] \/ BackedUp(f)
  BY <1>2, <1>4, <1>5, <1>6
<1>12. main[f] = mine[f] => main'[f] = mine[f] \/ BackedUp(f)
  <2>1. CASE head = "main"
    BY <1>1, <1>2, <2>1
  <2>2. CASE head = "backup"
    BY <1>8, <2>2
  <2> QED BY <1>1, <2>1, <2>2
<1> QED BY ONLY <1>1, <1>2, <1>7, <1>8, <1>9, <1>10, <1>11, <1>12 DEF Held

LEMMA LearnerSafe ==
    ASSUME Inv, ~astray',
           \/ \E g \in Files : Edit(g) \/ Stage(g) \/ Publish(g)
           \/ Commit \/ Continue \/ Abort \/ Quit,
           NEW f \in Files
    PROVE  Held(f)'
<1> USE DEF Idle, server, branches, work, script, history
<1>1. ~astray /\ Held(f)
  <2>1. UNCHANGED astray
    BY DEF Edit, Stage, Publish, Commit, Continue, Abort, Quit
  <2> QED BY <2>1 DEF Inv, Safe
<1>2. ASSUME NEW g \in Files, Edit(g) PROVE Held(f)'
  <2>1. UNCHANGED <<head, index, main, backups>>
    BY <1>2 DEF Edit
  <2>2. CASE f = g
    <3>1. tree'[f] = mine'[f]
      BY <1>2, <2>2 DEF Edit, Inv, TypeOK, Trees
    <3> QED BY <3>1 DEF Held
  <2>3. CASE f # g
    <3>1. tree'[f] = tree[f] /\ mine'[f] = mine[f]
      BY <1>2, <2>3 DEF Edit, Inv, TypeOK, Trees
    <3> QED BY <1>1, <2>1, <3>1 DEF Held, BackedUp
  <2> QED BY <2>2, <2>3
<1>3. ASSUME NEW g \in Files, Stage(g) PROVE Held(f)'
  <2>1. index'[f] \in {index[f], tree[f]} /\ UNCHANGED <<mine, tree, main, backups, head>>
    BY <1>3 DEF Stage, Inv, TypeOK, Trees
  <2> QED BY <1>1, <2>1, AddingSafe
<1>4. ASSUME NEW g \in Files, Publish(g) PROVE Held(f)'
  <2>1. UNCHANGED <<mine, tree, main, backups, head, index>>
    BY <1>4 DEF Publish
  <2> QED BY <1>1, <2>1, AddingSafe
<1>5. CASE Commit
  <2>1. UNCHANGED <<mine, tree, head, index>>
    BY <1>5 DEF Commit
  <2>2. CASE head = "main"
    <3>1. main' = index /\ UNCHANGED backups
      BY <1>5, <2>2 DEF Commit
    <3> QED BY <1>1, <2>1, <2>2, <3>1 DEF Held, BackedUp
  <2>3. CASE head # "main"
    <3>1. UNCHANGED main /\ backups \subseteq backups'
      BY <1>5, <2>3 DEF Commit
    <3> QED BY <1>1, <2>1, <3>1, AddingSafe
  <2> QED BY <2>2, <2>3
<1>6. CASE Continue
  <2>1. /\ head = "detached" /\ rebasing = "main" /\ main \in backups
        /\ main' = index /\ UNCHANGED <<backups, mine, tree, index>>
    BY <1>1, <1>6 DEF Continue, Inv, Parts, Stopping, TypeOK
  <2> QED BY <1>1, <2>1 DEF Held, BackedUp
<1>7. CASE Abort
  <2>1. /\ rebasing = "main" /\ UNCHANGED <<main, backups>>
        /\ index' = main /\ tree' = Laid(main)
    BY <1>1, <1>7 DEF Abort, Inv, Parts, Stopping, TypeOK
  <2>2. mine'[f] # 0 =>
          mine'[f] = mine[f] /\ mine[f] \in {b[f] : b \in backups \cup {main, tree'}}
    BY <1>7 DEF Abort
  <2>3. main[f] # 0 => tree'[f] = main[f]
    BY <2>1 DEF Laid
  <2>4. mine'[f] # 0 =>
          tree'[f] = mine[f] \/ main[f] = mine[f] \/ \E b \in backups : b[f] = mine[f]
    BY <2>2
  <2> QED BY <2>1, <2>2, <2>3, <2>4 DEF Held, BackedUp
<1>8. CASE Quit
  <2>1. UNCHANGED <<mine, tree, main, backups, head, index>>
    BY <1>8 DEF Quit
  <2> QED BY <1>1, <2>1, AddingSafe
<1> QED BY <1>2, <1>3, <1>4, <1>5, <1>6, <1>7, <1>8

LEMMA SafeKept == Inv /\ [Next]_vars => Safe'
<1> SUFFICES ASSUME Inv, [Next]_vars, ~astray', NEW f \in Files PROVE Held(f)'
  BY DEF Safe
<1>1. CASE UNCHANGED vars
  BY <1>1 DEF vars, server, branches, work, script, history, Inv, Safe, Held, BackedUp
<1> QED BY <1>1, ScriptSafe, RebaseSafe, LearnerSafe DEF Next

-----------------------------------------------------------------------------
(* The theorems.                                                           *)

\* Inv holds of every behaviour of the scripts, of git under them and of the
\* learner beside them.
THEOREM Invariance == Spec => []Inv
<1>1. Init => Inv
  BY InitTypes, InitParts, InitForeign, InitSafe DEF Inv
<1>2. Inv /\ [Next]_vars => Inv'
  BY TypesKept, PartsKept, ForeignKept, SafeKept DEF Inv, Parts
<1> QED BY <1>1, <1>2, PTL DEF Spec

\* Branches, index and working tree are trees of the files, and the scripts and
\* git are nowhere else than in the places named.
THEOREM TypeCorrect == Spec => []TypeOK
<1>1. Inv => TypeOK
  BY DEF Inv
<1> QED BY <1>1, Invariance, PTL

\* The learner's last version of every file survives every failure, clash,
\* interruption and repetition of the scripts, up to a rebase of a backup branch
\* that stops.
THEOREM WorkSurvives == Spec => []WorkIsNeverLost
<1>1. Inv => WorkIsNeverLost
  BY DEF Inv, Safe, Held, BackedUp, WorkIsNeverLost
<1> QED BY <1>1, Invariance, PTL

\* What is staged is on the backup, and from the root what is tracked, unless
\* the unchecked git add of a .bat has failed.
THEOREM TrackedWorkSaved == Spec => []TrackedWorkIsSaved
<1>1. Inv => TrackedWorkIsSaved
  BY DEF Inv
<1> QED BY <1>1, Invariance, PTL

\* "Update complete" is said of a main that stands on what was fetched, or by a
\* .bat that is on the backup branch.
THEOREM UpdatedMeansUpdated == Spec => []UpdatedMeansMainIsUpdated
<1>1. Inv => UpdatedMeansMainIsUpdated
  BY DEF Inv, Parts, Reported
<1> QED BY <1>1, Invariance, PTL

\* No step of a script replaces main before a backup branch holds it.
THEOREM BackedUpBeforeRewritten == Spec => MainIsBackedUpFirst
<1>1. Inv /\ [Next]_vars => [pc # "idle" /\ main' # main => main \in backups]_vars
  <2> SUFFICES ASSUME Inv, Next, pc # "idle", main' # main PROVE main \in backups
    OBVIOUS
  <2>1. pc = "rebase"
    BY DEF Next, Run, Fetch, SwitchToMain, CreateBackup, CommitChanges, BackToMain,
           RebaseRefused, RebaseConflicts, RebaseSucceeds, Interrupt, Edit, Stage, Publish,
           Commit, Continue, Abort, Quit, Idle, branches
  <2> QED BY <2>1 DEF Inv, Parts, Checkout
<1> QED BY <1>1, Invariance, PTL DEF Spec, MainIsBackedUpFirst
=============================================================================
