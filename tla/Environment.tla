---------------------------- MODULE Environment ----------------------------
(***************************************************************************)
(* Preparing the course: scripts/setup.sh (and setup.ps1), the container's *)
(* postCreate.sh around it, and readiness.sh, which tells the learner at   *)
(* every attach whether the environment is prepared.                       *)
(*                                                                         *)
(* The scripts speak through files: the pins, the configuration, and the   *)
(* marker .d2x/environment-ready, a fingerprint of the other two.  apt,    *)
(* xlings, mcpp and the Provider are external, and any step may fail or be *)
(* killed, while files are edited (git pull) and tools are changed.        *)
(***************************************************************************)
EXTENDS Naturals, Sequences, FiniteSets

CONSTANTS
    Preparers,    \* terminals in which a preparation may run
    MaxVersions,  \* bound: versions of a file or a tool
    MaxChanges,   \* bound: edits of files and changes of tools
    MaxRuns       \* bound: preparations begun

ASSUME EnvironmentAssumption ==
    MaxVersions \in Nat \ {0} /\ MaxChanges \in Nat /\ MaxRuns \in Nat

\* .xlings.json, tool-versions.env; .d2x.json and the scripts.
Files    == {"pins", "installer", "course"}
Tools    == {"xlings", "mcpp", "d2x"}
Versions == 1..MaxVersions

VARIABLES
    files,      \* the version of each file
    installed,  \* the version of each tool, 0 for none
    marker,     \* what the marker holds: files -> versions; NoMarker, or cut
    plan,       \* each preparer's steps still to come
    check,      \* where readiness.sh is, and what it found
    runs, changes,
    used,       \* history: each preparer's files, as its steps have seen them
    proven,     \* history: the files that a whole preparation has verified
    edited,     \* history: a file was edited under a preparation
    overlap,    \* history: two preparations of the container ran at a time
    last,       \* history: how the last preparation of the container ended
    calm,       \* history: nothing has changed since readiness.sh began
    quiet       \* history: what has come to pass since the last change of a file
                \* or a tool: a preparation of the container has begun, or is done

history == <<used, proven, edited, overlap, last, quiet>>
vars    == <<files, installed, marker, plan, check, runs, changes, history,
             calm>>

\* An empty marker and a cut one match no fingerprint; nor does a missing one.
NoMarker == [f \in {} |-> 0]

Setup     == <<"installer", "update", "install", "versions", "build",
               "describe", "exercises">>
Install   == <<"installer", "update", "install", "versions">>
Container == <<"remove", "apt", "installer", "update", "install", "versions",
               "build", "describe", "exercises", "solutions", "mark">>

Steps     == {"remove", "apt", "installer", "update", "install", "versions",
              "build", "describe", "exercises", "solutions", "mark"}

InContainer(p) == Len(plan[p]) > 0 /\ plan[p][Len(plan[p])] = "mark"
Removed(p)     == InContainer(p) /\ plan[p][1] # "remove"

TypeOK ==
    /\ files \in [Files -> Versions]
    /\ installed \in [Tools -> 0..MaxVersions]
    /\ marker \in UNION {[F -> Versions] : F \in SUBSET Files}
    /\ plan \in [Preparers -> Seq(Steps)]
    /\ check \in {"none", "xlings", "tools", "ready", "unready"}
    /\ runs \in 0..MaxRuns /\ changes \in 0..MaxChanges
    /\ used \in [Preparers -> SUBSET [Files -> Versions]]
    /\ proven \subseteq [Files -> Versions]
    /\ edited \in BOOLEAN /\ overlap \in BOOLEAN /\ calm \in BOOLEAN
    /\ last \in {"none", "done", "failed"} /\ quiet \in {"none", "begun", "done"}

Init ==
    /\ files = [f \in Files |-> 1] /\ installed \in [Tools -> {0, 1}]
    /\ marker = NoMarker
    /\ plan = [p \in Preparers |-> << >>] /\ check = "none"
    /\ runs = 0 /\ changes = 0
    /\ used = [p \in Preparers |-> {}] /\ proven = {}
    /\ edited = FALSE /\ overlap = FALSE /\ last = "none" /\ calm = TRUE
    /\ quiet = "none"

-----------------------------------------------------------------------------
(* A preparation, step by step.                                            *)

\* postCreate.sh, setup.sh, or setup.sh --install-only.
Begin(p) ==
    /\ plan[p] = << >> /\ runs < MaxRuns /\ runs' = runs + 1
    /\ \E steps \in {Container, Setup, Install} :
         /\ plan' = [plan EXCEPT ![p] = steps]
         /\ overlap' = (overlap \/ (steps = Container
                                    /\ \E q \in Preparers : InContainer(q)))
         /\ quiet' = IF steps = Container /\ quiet = "none" THEN "begun" ELSE quiet
    /\ used' = [used EXCEPT ![p] = {}]
    /\ UNCHANGED <<files, installed, marker, check, changes, proven, edited, last,
                   calm>>

At(p, step) == Len(plan[p]) > 0 /\ plan[p][1] = step
Onward(p)   == plan' = [plan EXCEPT ![p] = Tail(@)] /\ UNCHANGED last

\* set -e: the first step that fails ends the script, and so does a signal.
\* Before it has removed the marker, a preparation has undone nothing.
Stop(p) ==
    /\ plan' = [plan EXCEPT ![p] = << >>]
    /\ last' = IF Removed(p) THEN "failed" ELSE last

Fail(p) ==
    /\ plan[p] # << >>
    /\ Stop(p)
    /\ UNCHANGED <<files, installed, marker, check, runs, changes, used, proven,
                   edited, overlap, calm, quiet>>

\* Mutated form of the next: the marker of the preparation before is left standing.
RemoveMarker_Kept(p) ==
    /\ At(p, "remove") /\ Onward(p) /\ calm' = FALSE
    /\ UNCHANGED <<files, installed, marker, check, runs, changes, used, proven,
                   edited, overlap, quiet>>

RemoveMarker(p) ==
    /\ At(p, "remove") /\ Onward(p)
    /\ marker' = NoMarker /\ calm' = FALSE
    /\ UNCHANGED <<files, installed, check, runs, changes, used, proven, edited,
                   overlap, quiet>>

\* apt-get, and xlings update: nothing that the model tells apart.
Refresh(p) ==
    /\ At(p, "apt") \/ At(p, "update")
    /\ Onward(p)
    /\ UNCHANGED <<files, installed, marker, check, runs, changes, used, proven,
                   edited, overlap, calm, quiet>>

\* Mutated form of the next: whatever xlings is there is taken.
InstallXlings_IfMissing(p) ==
    /\ At(p, "installer") /\ Onward(p)
    /\ installed' = IF installed["xlings"] # 0 THEN installed
                    ELSE [installed EXCEPT !["xlings"] = files["installer"]]
    /\ calm' = (calm /\ installed' = installed)
    /\ UNCHANGED <<files, marker, check, runs, changes, used, proven, edited,
                   overlap, quiet>>

\* install-xlings.sh: unless the version is there already.
InstallXlings(p) ==
    /\ At(p, "installer") /\ Onward(p)
    /\ installed' = [installed EXCEPT !["xlings"] = files["installer"]]
    /\ calm' = (calm /\ installed' = installed)
    /\ UNCHANGED <<files, marker, check, runs, changes, used, proven, edited,
                   overlap, quiet>>

\* xlings install: both tools, or one of them and a failure.
InstallTools(p) ==
    /\ At(p, "install")
    /\ \E T \in SUBSET {"mcpp", "d2x"} :
         /\ IF T = {"mcpp", "d2x"} THEN Onward(p) ELSE Stop(p)
         /\ installed' = [t \in Tools |-> IF t \in T THEN files["pins"]
                                          ELSE installed[t]]
    /\ calm' = (calm /\ installed' = installed)
    /\ UNCHANGED <<files, marker, check, runs, changes, used, proven, edited,
                   overlap, quiet>>

Pinned == installed["mcpp"] = files["pins"] /\ installed["d2x"] = files["pins"]

CheckVersions(p) ==
    /\ At(p, "versions")
    /\ IF Pinned THEN Onward(p) ELSE Stop(p)
    /\ UNCHANGED <<files, installed, marker, check, runs, changes, used, proven,
                   edited, overlap, calm, quiet>>

\* Build the Provider, ask it, and test the answers.
Verify(p) ==
    /\ \E step \in {"build", "describe", "exercises", "solutions"} : At(p, step)
    /\ Onward(p)
    /\ used' = [used EXCEPT ![p] = @ \cup {files}]
    /\ proven' = IF At(p, "solutions") /\ used'[p] = {files}
                 THEN proven \cup {files} ELSE proven
    /\ UNCHANGED <<files, installed, marker, check, runs, changes, edited, overlap,
                   calm, quiet>>

\* The shell opens the marker, sha256sum writes it, and the script is done.
Mark(p) ==
    /\ At(p, "mark")
    /\ \/ /\ marker' = files
          /\ plan' = [plan EXCEPT ![p] = << >>] /\ last' = "done"
          /\ quiet' = IF quiet = "begun" THEN "done" ELSE quiet
       \/ /\ \E F \in (SUBSET Files) \ {Files} : marker' = [f \in F |-> files[f]]
          /\ Stop(p) /\ UNCHANGED quiet
    /\ calm' = FALSE
    /\ UNCHANGED <<files, installed, check, runs, changes, used, proven, edited,
                   overlap>>

-----------------------------------------------------------------------------
(* readiness.sh.                                                           *)

Checking(result) ==
    /\ check' = result
    /\ UNCHANGED <<files, installed, marker, plan, runs, changes, history>>

\* Mutated form of the next: the configuration of the course is not compared.
CompareMarker_InPart ==
    /\ check \in {"none", "ready", "unready"}
    /\ calm' = TRUE
    /\ Checking(IF DOMAIN marker = Files
                   /\ \A f \in {"pins", "installer"} : marker[f] = files[f]
                THEN "xlings" ELSE "unready")

CompareMarker ==
    /\ check \in {"none", "ready", "unready"}
    /\ calm' = TRUE
    /\ Checking(IF marker = files THEN "xlings" ELSE "unready")

CheckXlings ==
    /\ check = "xlings" /\ UNCHANGED calm
    /\ Checking(IF installed["xlings"] = files["installer"] THEN "tools" ELSE "unready")

\* Mutated form of the next: the tools are there, whatever their versions.
CheckTools_There ==
    /\ check = "tools" /\ UNCHANGED calm
    /\ Checking(IF installed["mcpp"] # 0 /\ installed["d2x"] # 0
                THEN "ready" ELSE "unready")

CheckTools ==
    /\ check = "tools" /\ UNCHANGED calm
    /\ Checking(IF Pinned THEN "ready" ELSE "unready")

-----------------------------------------------------------------------------
(* Around the scripts.                                                     *)

\* git pull, or an editor.
Edit(f) ==
    /\ changes < MaxChanges /\ changes' = changes + 1
    /\ \E v \in Versions \ {files[f]} : files' = [files EXCEPT ![f] = v]
    /\ edited' = (edited \/ \E p \in Preparers : plan[p] # << >>)
    /\ calm' = FALSE /\ quiet' = "none"
    /\ UNCHANGED <<installed, marker, plan, check, runs, used, proven, overlap,
                   last>>

\* Another project selects another version, or a tool is removed.
ChangeTool(t) ==
    /\ changes < MaxChanges /\ changes' = changes + 1
    /\ \E v \in (0..MaxVersions) \ {installed[t]} :
         installed' = [installed EXCEPT ![t] = v]
    /\ calm' = FALSE /\ quiet' = "none"
    /\ UNCHANGED <<files, marker, plan, check, runs, used, proven, edited, overlap,
                   last>>

Next ==
    \/ \E p \in Preparers :
         \/ Begin(p) \/ Fail(p) \/ RemoveMarker(p) \/ Refresh(p)
         \/ InstallXlings(p) \/ InstallTools(p) \/ CheckVersions(p)
         \/ Verify(p) \/ Mark(p)
    \/ CompareMarker \/ CheckXlings \/ CheckTools
    \/ \E f \in Files : Edit(f)
    \/ \E t \in Tools : ChangeTool(t)

Spec == Init /\ [][Next]_vars

-----------------------------------------------------------------------------
(* Properties.                                                             *)

Ready == check = "ready" /\ calm

\* "Ready" means that the tools are at the versions pinned now, whatever was
\* edited, installed or changed before the question, also under a preparation.
ReadyMeansPinned ==
    Ready => Pinned /\ installed["xlings"] = files["installer"]

\* "Ready" means that a preparation has built and verified the course with the
\* files of now, unless they were edited under one.
ReadyMeansVerified == Ready /\ ~edited => files \in proven

\* A preparation of the container that has removed the marker and then failed,
\* or is under way, is not taken for a finished one, whatever the preparation
\* before it left (postCreate.sh:5).
UnfinishedIsNotReady ==
    Ready /\ ~overlap => last = "done" /\ \A p \in Preparers : ~Removed(p)

\* A preparation of the container is not in vain: once one is done, and neither
\* file nor tool has been changed since it began, every attach finds the
\* environment ready, whatever it was before and whatever setup.sh is run beside.
FinishedIsReady ==
    quiet = "done" /\ check = "unready" /\ calm /\ ~overlap =>
        last = "failed" \/ \E p \in Preparers : Removed(p)
=============================================================================
