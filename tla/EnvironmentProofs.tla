------------------------- MODULE EnvironmentProofs --------------------------
(***************************************************************************)
(* The readiness of the environment, for any number of terminals, versions *)
(* and changes.                                                            *)
(***************************************************************************)
EXTENDS Environment, SequenceTheorems, TLAPS

-----------------------------------------------------------------------------
(* The steps of a preparation.                                             *)

Starts(s, step) == Len(s) > 0 /\ s[1] = step
Ends(s, step)   == Len(s) > 0 /\ s[Len(s)] = step

\* In every preparation "mark" is the last step and follows "solutions".
LastIsMark(s) ==
    \A i \in 1..Len(s) : s[i] = "mark" =>
        i = Len(s) /\ (i > 1 => s[i - 1] = "solutions")

LEMMA ContainerSteps ==
    /\ Container \in Seq(Steps) /\ LastIsMark(Container)
    /\ Starts(Container, "remove")
  <1>1. Container \in Seq(Steps) /\ Len(Container) = 11
    BY DEF Container, Steps
  <1>2. /\ Container[1] = "remove" /\ Container[10] = "solutions"
        /\ Container[11] = "mark"
        /\ \A i \in 1..10 : Container[i] # "mark"
    BY DEF Container
  <1>3. LastIsMark(Container)
    <2>1. SUFFICES ASSUME NEW i \in 1..Len(Container), Container[i] = "mark"
                   PROVE  i = Len(Container) /\ Container[i - 1] = "solutions"
      BY DEF LastIsMark
    <2>2. i = 11
      BY <2>1, <1>1, <1>2
    <2> QED BY <2>2, <1>1, <1>2
  <1> QED BY <1>1, <1>2, <1>3 DEF Starts

LEMMA OtherSteps ==
    ASSUME NEW s \in {Setup, Install}
    PROVE  /\ s \in Seq(Steps) /\ LastIsMark(s)
           /\ ~Ends(s, "mark") /\ ~Starts(s, "mark")
  <1>1. CASE s = Setup
    <2>1. s \in Seq(Steps) /\ Len(s) = 7
      BY <1>1 DEF Setup, Steps
    <2>2. \A i \in 1..7 : s[i] # "mark"
      BY <1>1 DEF Setup
    <2> QED BY <2>1, <2>2 DEF LastIsMark, Ends, Starts
  <1>2. CASE s = Install
    <2>1. s \in Seq(Steps) /\ Len(s) = 4
      BY <1>2 DEF Install, Steps
    <2>2. \A i \in 1..4 : s[i] # "mark"
      BY <1>2 DEF Install
    <2> QED BY <2>1, <2>2 DEF LastIsMark, Ends, Starts
  <1> QED BY <1>1, <1>2

\* What is left of a preparation after a step of it.
LEMMA Later ==
    ASSUME NEW s \in Seq(Steps), Len(s) > 0, LastIsMark(s)
    PROVE  /\ Tail(s) \in Seq(Steps) /\ LastIsMark(Tail(s))
           /\ Starts(Tail(s), "mark") => Starts(s, "solutions")
           /\ Ends(Tail(s), "mark") => Ends(s, "mark")
  <1>1. /\ Tail(s) \in Seq(Steps) /\ Len(Tail(s)) = Len(s) - 1
        /\ \A i \in 1..(Len(s) - 1) : Tail(s)[i] = s[i + 1]
    OBVIOUS
  <1>2. Len(s) \in Nat /\ Len(s) # 0
    OBVIOUS
  <1>3. LastIsMark(Tail(s))
    <2>1. SUFFICES ASSUME NEW i \in 1..Len(Tail(s)), Tail(s)[i] = "mark"
                   PROVE  i = Len(Tail(s))
                          /\ (i > 1 => Tail(s)[i - 1] = "solutions")
      BY DEF LastIsMark
    <2>2. i + 1 \in 1..Len(s) /\ s[i + 1] = "mark" /\ i \in Nat
      BY <2>1, <1>1, <1>2
    <2>3. i + 1 = Len(s) /\ s[(i + 1) - 1] = "solutions"
      BY <2>2, <2>1 DEF LastIsMark
    <2>4. i > 1 => i - 1 \in 1..(Len(s) - 1) /\ (i - 1) + 1 = (i + 1) - 1
      BY <2>2, <2>3, <1>2
    <2> QED BY <2>3, <2>4, <1>1, <1>2
  <1>4. ASSUME Starts(Tail(s), "mark") PROVE Starts(s, "solutions")
    <2>1. Len(s) > 1 /\ s[2] = "mark" /\ 2 \in 1..Len(s)
      BY <1>1, <1>2, <1>4 DEF Starts
    <2> QED BY <2>1 DEF LastIsMark, Starts
  <1>5. ASSUME Ends(Tail(s), "mark") PROVE Ends(s, "mark")
    BY <1>1, <1>2, <1>5 DEF Ends
  <1> QED BY <1>1, <1>3, <1>4, <1>5

-----------------------------------------------------------------------------
(* Types.                                                                  *)

Markers == UNION {[F -> Versions] : F \in SUBSET Files}

\* Every step of a preparation takes its first step away, or all of it.
LEMMA PlanTyped ==
    ASSUME TypeOK, NEW p \in Preparers, plan[p] # << >>,
           plan' = [plan EXCEPT ![p] = Tail(@)] \/ plan' = [plan EXCEPT ![p] = << >>]
    PROVE  plan' \in [Preparers -> Seq(Steps)]
  <1>1. plan \in [Preparers -> Seq(Steps)]
    BY DEF TypeOK
  <1>2. Tail(plan[p]) \in Seq(Steps) /\ << >> \in Seq(Steps)
    BY <1>1, EmptySeq
  <1> QED BY <1>1, <1>2

\* The preparations, the marker and the histories keep their types, for every
\* set of files and tools.
THEOREM TypeCorrect == Spec => []TypeOK
  <1>1. Init => TypeOK
    <2>1. SUFFICES ASSUME Init PROVE TypeOK
      OBVIOUS
    <2>2. files \in [Files -> Versions] /\ 1 \in Versions
      BY <2>1, EnvironmentAssumption DEF Init, Versions
    <2>3. marker \in Markers
      <3>1. marker \in [{} -> Versions]
        BY <2>1 DEF Init, NoMarker
      <3> QED BY <3>1 DEF Markers
    <2>4. plan \in [Preparers -> Seq(Steps)]
      BY <2>1 DEF Init
    <2>5. installed \in [Tools -> 0..MaxVersions]
      BY <2>1, EnvironmentAssumption DEF Init
    <2>6. runs \in 0..MaxRuns /\ changes \in 0..MaxChanges
      BY <2>1, EnvironmentAssumption DEF Init
    <2>7. used \in [Preparers -> SUBSET [Files -> Versions]]
      BY <2>1 DEF Init
    <2>8. /\ proven \subseteq [Files -> Versions]
          /\ edited \in BOOLEAN /\ overlap \in BOOLEAN /\ calm \in BOOLEAN
          /\ last \in {"none", "done", "failed"} /\ quiet \in {"none", "begun", "done"}
          /\ check \in {"none", "xlings", "tools", "ready", "unready"}
      BY <2>1 DEF Init
    <2> QED BY <2>2, <2>3, <2>4, <2>5, <2>6, <2>7, <2>8 DEF TypeOK, Markers
  <1>2. TypeOK /\ [Next]_vars => TypeOK'
    <2> SUFFICES ASSUME TypeOK, [Next]_vars PROVE TypeOK'
      OBVIOUS
    <2> USE EnvironmentAssumption DEF TypeOK
    <2>1. ASSUME NEW p \in Preparers, Begin(p) PROVE TypeOK'
      <3>1. plan' \in [Preparers -> Seq(Steps)]
        BY <2>1, ContainerSteps, OtherSteps DEF Begin
      <3>2. runs' \in 0..MaxRuns /\ overlap' \in BOOLEAN
            /\ used' \in [Preparers -> SUBSET [Files -> Versions]]
        BY <2>1 DEF Begin
      <3> QED BY <2>1, <3>1, <3>2 DEF Begin
    <2>2. ASSUME NEW p \in Preparers, Fail(p) PROVE TypeOK'
      <3>1. plan' \in [Preparers -> Seq(Steps)]
        BY <2>2, PlanTyped DEF Fail, Stop
      <3> QED BY <2>2, <3>1 DEF Fail, Stop
    <2>3. ASSUME NEW p \in Preparers, RemoveMarker(p) PROVE TypeOK'
      <3>1. plan' \in [Preparers -> Seq(Steps)]
        BY <2>3 DEF RemoveMarker, Onward, At
      <3>2. marker' \in Markers
        <4>1. marker' \in [{} -> Versions]
          BY <2>3 DEF RemoveMarker, NoMarker
        <4> QED BY <4>1 DEF Markers
      <3> QED BY <2>3, <3>1, <3>2 DEF RemoveMarker, Onward, Markers
    <2>4. ASSUME NEW p \in Preparers, Refresh(p) PROVE TypeOK'
      <3>1. plan' \in [Preparers -> Seq(Steps)]
        BY <2>4 DEF Refresh, Onward, At
      <3> QED BY <2>4, <3>1 DEF Refresh, Onward
    <2>5. ASSUME NEW p \in Preparers, InstallXlings(p) PROVE TypeOK'
      <3>1. plan' \in [Preparers -> Seq(Steps)]
        BY <2>5 DEF InstallXlings, Onward, At
      <3>2. installed' \in [Tools -> 0..MaxVersions]
        <4>1. files["installer"] \in 0..MaxVersions
          BY DEF Files, Versions
        <4> QED BY <2>5, <4>1 DEF InstallXlings
      <3> QED BY <2>5, <3>1, <3>2 DEF InstallXlings, Onward
    <2>6. ASSUME NEW p \in Preparers, InstallTools(p) PROVE TypeOK'
      <3>1. plan' \in [Preparers -> Seq(Steps)]
        <4>1. plan[p] # << >>
          BY <2>6 DEF InstallTools, At
        <4> QED BY <2>6, <4>1, PlanTyped DEF InstallTools, Onward, Stop
      <3>2. installed' \in [Tools -> 0..MaxVersions]
        BY <2>6 DEF InstallTools, Files, Versions
      <3>3. last' \in {"none", "done", "failed"}
        BY <2>6 DEF InstallTools, Onward, Stop
      <3> QED BY <2>6, <3>1, <3>2, <3>3 DEF InstallTools
    <2>7. ASSUME NEW p \in Preparers, CheckVersions(p) PROVE TypeOK'
      <3>1. plan' \in [Preparers -> Seq(Steps)]
        <4>1. plan[p] # << >>
          BY <2>7 DEF CheckVersions, At
        <4> QED BY <2>7, <4>1, PlanTyped DEF CheckVersions, Onward, Stop
      <3>2. last' \in {"none", "done", "failed"}
        BY <2>7 DEF CheckVersions, Onward, Stop
      <3> QED BY <2>7, <3>1, <3>2 DEF CheckVersions
    <2>8. ASSUME NEW p \in Preparers, Verify(p) PROVE TypeOK'
      <3>1. plan' \in [Preparers -> Seq(Steps)]
        BY <2>8 DEF Verify, Onward, At
      <3>2. used' \in [Preparers -> SUBSET [Files -> Versions]]
        BY <2>8 DEF Verify
      <3>3. proven' \subseteq [Files -> Versions]
        BY <2>8 DEF Verify
      <3> QED BY <2>8, <3>1, <3>2, <3>3 DEF Verify, Onward
    <2>9. ASSUME NEW p \in Preparers, Mark(p) PROVE TypeOK'
      <3>1. plan' \in [Preparers -> Seq(Steps)]
        <4>1. plan[p] # << >>
          BY <2>9 DEF Mark, At
        <4> QED BY <2>9, <4>1, PlanTyped DEF Mark, Stop
      <3>2. marker' \in Markers
        <4>1. CASE marker' = files
          BY <4>1 DEF Markers
        <4>2. CASE \E F \in (SUBSET Files) \ {Files} : marker' = [f \in F |-> files[f]]
          <5>1. PICK F \in SUBSET Files : marker' = [f \in F |-> files[f]]
            BY <4>2
          <5>2. marker' \in [F -> Versions]
            BY <5>1
          <5> QED BY <5>2 DEF Markers
        <4> QED BY <2>9, <4>1, <4>2 DEF Mark
      <3>3. last' \in {"none", "done", "failed"}
        BY <2>9 DEF Mark, Stop
      <3> QED BY <2>9, <3>1, <3>2, <3>3 DEF Mark, Markers
    <2>10. CASE CompareMarker
      BY <2>10 DEF CompareMarker, Checking, history
    <2>11. CASE CheckXlings \/ CheckTools
      BY <2>11 DEF CheckXlings, CheckTools, Checking, history
    <2>12. ASSUME NEW f \in Files, Edit(f) PROVE TypeOK'
      <3>1. files' \in [Files -> Versions] /\ changes' \in 0..MaxChanges
            /\ edited' \in BOOLEAN
        BY <2>12 DEF Edit
      <3> QED BY <2>12, <3>1 DEF Edit
    <2>13. ASSUME NEW t \in Tools, ChangeTool(t) PROVE TypeOK'
      <3>1. installed' \in [Tools -> 0..MaxVersions] /\ changes' \in 0..MaxChanges
        BY <2>13 DEF ChangeTool
      <3> QED BY <2>13, <3>1 DEF ChangeTool, history
    <2>14. CASE UNCHANGED vars
      BY <2>14 DEF vars, history
    <2> QED BY <2>1, <2>2, <2>3, <2>4, <2>5, <2>6, <2>7, <2>8, <2>9, <2>10,
               <2>11, <2>12, <2>13, <2>14 DEF Next
  <1> QED BY <1>1, <1>2, PTL DEF Spec
-----------------------------------------------------------------------------
(* What readiness.sh has found is still so, while nothing changes.         *)

Found ==
    calm => /\ check \in {"xlings", "tools", "ready"} => marker = files
            /\ check \in {"tools", "ready"} =>
                 installed["xlings"] = files["installer"]
            /\ check = "ready" => Pinned

LEMMA FoundInductive == TypeOK /\ Found /\ [Next]_vars => Found'
  <1> SUFFICES ASSUME TypeOK, Found, [Next]_vars PROVE Found'
    OBVIOUS
  <1> USE DEF Found, Pinned
  <1>1. ASSUME NEW p \in Preparers,
               Begin(p) \/ Fail(p) \/ Refresh(p) \/ CheckVersions(p) \/ Verify(p)
        PROVE  Found'
    BY <1>1 DEF Begin, Fail, Refresh, CheckVersions, Verify
  <1>2. ASSUME NEW p \in Preparers, RemoveMarker(p) \/ Mark(p) PROVE Found'
    BY <1>2 DEF RemoveMarker, Mark
  <1>3. ASSUME NEW p \in Preparers, InstallXlings(p) \/ InstallTools(p)
        PROVE  Found'
    <2>1. /\ calm' = (calm /\ installed' = installed)
          /\ UNCHANGED <<files, marker, check>>
      BY <1>3 DEF InstallXlings, InstallTools
    <2> QED BY <2>1 DEF TypeOK
  <1>4. CASE CompareMarker
    BY <1>4 DEF CompareMarker, Checking
  <1>5. CASE CheckXlings
    BY <1>5 DEF CheckXlings, Checking
  <1>6. CASE CheckTools
    BY <1>6 DEF CheckTools, Checking
  <1>7. ASSUME NEW f \in Files, Edit(f) PROVE Found'
    BY <1>7 DEF Edit
  <1>8. ASSUME NEW t \in Tools, ChangeTool(t) PROVE Found'
    BY <1>8 DEF ChangeTool
  <1>9. CASE UNCHANGED vars
    BY <1>9 DEF vars, history
  <1> QED BY <1>1, <1>2, <1>3, <1>4, <1>5, <1>6, <1>7, <1>8, <1>9 DEF Next

LEMMA FoundAlways == Spec => []Found
  <1>1. Init => Found
    BY DEF Init, Found
  <1> QED BY <1>1, FoundInductive, TypeCorrect, PTL DEF Spec

\* "Ready" means the pinned versions of now.
THEOREM ReadyPinned == Spec => []ReadyMeansPinned
  <1>1. Found => ReadyMeansPinned
    BY DEF Found, ReadyMeansPinned, Ready
  <1> QED BY <1>1, FoundAlways, PTL

-----------------------------------------------------------------------------
(* A marker that holds every file was written by a preparation that has    *)
(* verified these files: it had seen no others when it came to the mark.   *)

Full == DOMAIN marker = Files

PlansEnd == \A p \in Preparers : LastIsMark(plan[p])

Seen   == \A p \in Preparers : Len(plan[p]) > 0 => used[p] \subseteq {files}
ToMark == \A p \in Preparers : At(p, "mark") => files \in proven

Verified ==
    /\ PlansEnd
    /\ ~edited => Seen /\ ToMark
    /\ ~edited /\ Full => marker \in proven

\* A step that is not "solutions" does not lead to the mark.
LEMMA Onwards ==
    ASSUME TypeOK, PlansEnd, NEW p \in Preparers, Len(plan[p]) > 0,
           plan' = [plan EXCEPT ![p] = Tail(@)] \/ plan' = [plan EXCEPT ![p] = << >>]
    PROVE  /\ PlansEnd'
           /\ \A q \in Preparers \ {p} : plan'[q] = plan[q]
           /\ At(p, "mark")' => At(p, "solutions")
           /\ InContainer(p)' => InContainer(p)
  <1>1. plan \in [Preparers -> Seq(Steps)] /\ LastIsMark(plan[p])
    BY DEF TypeOK, PlansEnd
  <1>2. /\ LastIsMark(Tail(plan[p])) /\ Tail(plan[p]) \in Seq(Steps)
        /\ Starts(Tail(plan[p]), "mark") => Starts(plan[p], "solutions")
        /\ Ends(Tail(plan[p]), "mark") => Ends(plan[p], "mark")
    BY <1>1, Later
  <1>3. /\ LastIsMark(<< >>) /\ ~Starts(<< >>, "mark") /\ ~Ends(<< >>, "mark")
    BY DEF LastIsMark, Starts, Ends
  <1>4. /\ plan'[p] \in {Tail(plan[p]), << >>}
        /\ \A q \in Preparers \ {p} : plan'[q] = plan[q]
    BY <1>1
  <1>5. PlansEnd'
    <2>1. SUFFICES ASSUME NEW q \in Preparers PROVE LastIsMark(plan'[q])
      BY DEF PlansEnd, LastIsMark
    <2>2. CASE q = p
      BY <2>2, <1>2, <1>3, <1>4
    <2>3. CASE q # p
      BY <2>3, <1>4 DEF PlansEnd
    <2> QED BY <2>2, <2>3
  <1>6. At(p, "mark")' => At(p, "solutions")
    BY <1>2, <1>3, <1>4 DEF At, Starts
  <1>7. InContainer(p)' => InContainer(p)
    BY <1>2, <1>3, <1>4 DEF InContainer, Ends
  <1> QED BY <1>4, <1>5, <1>6, <1>7

\* The steps that neither look at the files nor leave a marker.
LEMMA OtherStep ==
    ASSUME TypeOK, Verified, NEW p \in Preparers,
           At(p, "solutions") => plan' = [plan EXCEPT ![p] = << >>],
           Len(plan[p]) > 0,
           plan' = [plan EXCEPT ![p] = Tail(@)] \/ plan' = [plan EXCEPT ![p] = << >>],
           UNCHANGED <<files, used, proven, edited>>,
           marker' = marker \/ ~Full'
    PROVE  Verified'
  <1>1. /\ PlansEnd' /\ \A q \in Preparers \ {p} : plan'[q] = plan[q]
        /\ At(p, "mark")' => At(p, "solutions")
    BY Onwards DEF Verified
  <1>2. At(p, "solutions") => ~At(p, "mark")'
    BY DEF At, TypeOK
  <1>3. ~edited' => Seen'
    BY <1>1 DEF Verified, Seen
  <1>4. ~edited' => ToMark'
    <2>1. SUFFICES ASSUME ~edited, NEW q \in Preparers, At(q, "mark")'
                   PROVE  files \in proven
      BY DEF ToMark, At
    <2>2. q # p
      BY <2>1, <1>1, <1>2
    <2>3. At(q, "mark")
      BY <2>1, <2>2, <1>1 DEF At
    <2> QED BY <2>1, <2>3 DEF Verified, ToMark
  <1>5. ~edited' /\ Full' => marker' \in proven'
    BY DEF Verified, Full
  <1> QED BY <1>1, <1>3, <1>4, <1>5 DEF Verified

LEMMA VerifiedInductive == TypeOK /\ Verified /\ [Next]_vars => Verified'
  <1> SUFFICES ASSUME TypeOK, Verified, [Next]_vars PROVE Verified'
    OBVIOUS
  <1>1. ASSUME NEW p \in Preparers, Begin(p) PROVE Verified'
    <2>1. PICK s \in {Container, Setup, Install} : plan' = [plan EXCEPT ![p] = s]
      BY <1>1 DEF Begin
    <2>2. LastIsMark(s) /\ ~Starts(s, "mark")
      BY ContainerSteps, OtherSteps DEF Starts
    <2>3. /\ plan'[p] = s /\ \A q \in Preparers \ {p} : plan'[q] = plan[q]
          /\ used'[p] = {} /\ \A q \in Preparers \ {p} : used'[q] = used[q]
          /\ UNCHANGED <<files, marker, proven, edited>>
      BY <1>1, <2>1 DEF Begin, TypeOK
    <2>4. PlansEnd'
      <3>1. SUFFICES ASSUME NEW q \in Preparers PROVE LastIsMark(plan'[q])
        BY DEF PlansEnd, LastIsMark
      <3> QED BY <2>2, <2>3 DEF Verified, PlansEnd
    <2>5. ~edited' => Seen'
      BY <2>3 DEF Verified, Seen
    <2>6. ~edited' => ToMark'
      BY <2>2, <2>3 DEF Verified, ToMark, At, Starts
    <2>7. ~edited' /\ Full' => marker' \in proven'
      BY <2>3 DEF Verified, Full
    <2> QED BY <2>4, <2>5, <2>6, <2>7 DEF Verified
  <1>2. ASSUME NEW p \in Preparers, Fail(p) PROVE Verified'
    <2>1. Len(plan[p]) > 0
      BY <1>2, EmptySeq DEF Fail, TypeOK
    <2> QED BY <1>2, <2>1, OtherStep DEF Fail, Stop
  <1>3. ASSUME NEW p \in Preparers, RemoveMarker(p) PROVE Verified'
    <2>1. ~Full'
      BY <1>3 DEF RemoveMarker, Full, NoMarker, Files
    <2>2. Len(plan[p]) > 0 /\ ~At(p, "solutions")
      BY <1>3 DEF RemoveMarker, At
    <2> QED BY <1>3, <2>1, <2>2, OtherStep DEF RemoveMarker, Onward
  <1>4. ASSUME NEW p \in Preparers,
               \/ Refresh(p) \/ InstallXlings(p) \/ InstallTools(p)
               \/ CheckVersions(p)
        PROVE  Verified'
    <2>1. Len(plan[p]) > 0 /\ ~At(p, "solutions")
      BY <1>4 DEF Refresh, InstallXlings, InstallTools, CheckVersions, At
    <2>2. /\ \/ plan' = [plan EXCEPT ![p] = Tail(@)]
             \/ plan' = [plan EXCEPT ![p] = << >>]
          /\ UNCHANGED <<files, marker, used, proven, edited>>
      BY <1>4 DEF Refresh, InstallXlings, InstallTools, CheckVersions, Onward, Stop
    <2> QED BY <2>1, <2>2, OtherStep
  <1>5. ASSUME NEW p \in Preparers, Verify(p) PROVE Verified'
    <2>1. /\ plan' = [plan EXCEPT ![p] = Tail(@)] /\ Len(plan[p]) > 0
          /\ used' = [used EXCEPT ![p] = @ \cup {files}]
          /\ UNCHANGED <<files, marker, edited>> /\ proven \subseteq proven'
      BY <1>5 DEF Verify, Onward, At
    <2>2. /\ PlansEnd' /\ \A q \in Preparers \ {p} : plan'[q] = plan[q]
          /\ At(p, "mark")' => At(p, "solutions")
      BY <2>1, Onwards DEF Verified
    <2>3. /\ used'[p] = used[p] \cup {files}
          /\ \A q \in Preparers \ {p} : used'[q] = used[q]
      BY <2>1 DEF TypeOK
    <2>4. ~edited' => Seen'
      BY <2>1, <2>2, <2>3 DEF Verified, Seen
    <2>5. ~edited' => ToMark'
      <3>1. SUFFICES ASSUME ~edited, NEW q \in Preparers, At(q, "mark")'
                     PROVE  files \in proven'
        BY <2>1 DEF ToMark, At
      <3>2. CASE q = p
        <4>1. At(p, "solutions")
          BY <3>1, <3>2, <2>2
        <4>2. used'[p] = {files}
          BY <3>1, <2>1, <2>3 DEF Verified, Seen
        <4> QED BY <4>1, <4>2, <1>5 DEF Verify
      <3>3. CASE q # p
        <4>1. At(q, "mark")
          BY <3>1, <3>3, <2>2 DEF At
        <4> QED BY <4>1, <3>1, <2>1 DEF Verified, ToMark
      <3> QED BY <3>2, <3>3
    <2>6. ~edited' /\ Full' => marker' \in proven'
      BY <2>1 DEF Verified, Full
    <2> QED BY <2>2, <2>4, <2>5, <2>6 DEF Verified
  <1>6. ASSUME NEW p \in Preparers, Mark(p) PROVE Verified'
    <2>1. /\ plan' = [plan EXCEPT ![p] = << >>]
          /\ At(p, "mark") /\ Len(plan[p]) > 0
          /\ UNCHANGED <<files, used, proven, edited>>
          /\ marker' = files \/ ~Full'
      <3>1. \A F \in (SUBSET Files) \ {Files} :
              marker' = [f \in F |-> files[f]] => ~Full'
        BY DEF Full
      <3> QED BY <1>6, <3>1 DEF Mark, Stop, At
    <2>2. /\ PlansEnd' /\ \A q \in Preparers \ {p} : plan'[q] = plan[q]
      BY <2>1, Onwards DEF Verified
    <2>3. plan'[p] = << >>
      BY <2>1 DEF TypeOK
    <2>4. ~edited' => Seen'
      BY <2>1, <2>2, <2>3 DEF Verified, Seen
    <2>5. ~edited' => ToMark'
      BY <2>1, <2>2, <2>3 DEF Verified, ToMark, At
    <2>6. ~edited' /\ Full' => marker' \in proven'
      BY <2>1 DEF Verified, Full, ToMark
    <2> QED BY <2>2, <2>4, <2>5, <2>6 DEF Verified
  <1>7. CASE CompareMarker \/ CheckXlings \/ CheckTools
    <2>1. UNCHANGED <<plan, files, used, proven, edited, marker>>
      BY <1>7 DEF CompareMarker, CheckXlings, CheckTools, Checking, history
    <2> QED BY <2>1 DEF Verified, PlansEnd, Seen, ToMark, At, Full
  <1>8. ASSUME NEW f \in Files, Edit(f) PROVE Verified'
    <2>1. /\ UNCHANGED <<plan, marker, used, proven>>
          /\ edited' = (edited \/ \E p \in Preparers : plan[p] # << >>)
      BY <1>8 DEF Edit
    <2>2. ~edited' => ~edited /\ \A p \in Preparers : Len(plan'[p]) = 0
      BY <2>1, EmptySeq
    <2> QED BY <2>1, <2>2 DEF Verified, PlansEnd, Seen, ToMark, At, Full
  <1>9. ASSUME NEW t \in Tools, ChangeTool(t) PROVE Verified'
    <2>1. UNCHANGED <<plan, files, used, proven, edited, marker>>
      BY <1>9 DEF ChangeTool, history
    <2> QED BY <2>1 DEF Verified, PlansEnd, Seen, ToMark, At, Full
  <1>10. CASE UNCHANGED vars
    BY <1>10 DEF vars, history, Verified, PlansEnd, Seen, ToMark, At, Full
  <1> QED BY <1>1, <1>2, <1>3, <1>4, <1>5, <1>6, <1>7, <1>8, <1>9, <1>10 DEF Next

LEMMA VerifiedAlways == Spec => []Verified
  <1>1. Init => Verified
    <2>1. SUFFICES ASSUME Init PROVE Verified
      OBVIOUS
    <2>2. \A p \in Preparers : plan[p] = << >>
      BY <2>1 DEF Init
    <2>3. PlansEnd /\ Seen /\ ToMark
      BY <2>2 DEF PlansEnd, LastIsMark, Seen, ToMark, At
    <2>4. ~Full
      BY <2>1 DEF Init, Full, NoMarker, Files
    <2> QED BY <2>3, <2>4 DEF Verified
  <1> QED BY <1>1, VerifiedInductive, TypeCorrect, PTL DEF Spec

\* "Ready" means verified with the files of now, unless they were edited under
\* a preparation.
THEOREM ReadyVerified == Spec => []ReadyMeansVerified
  <1>1. TypeOK /\ Found /\ Verified => ReadyMeansVerified
    <2>1. SUFFICES ASSUME TypeOK, Found, Verified, Ready, ~edited
                   PROVE  files \in proven
      BY DEF ReadyMeansVerified
    <2>2. marker = files
      BY <2>1 DEF Found, Ready
    <2>3. Full
      BY <2>1, <2>2 DEF Full, TypeOK
    <2> QED BY <2>1, <2>2, <2>3 DEF Verified
  <1> QED BY <1>1, TypeCorrect, FoundAlways, VerifiedAlways, PTL

-----------------------------------------------------------------------------
(* While the container's preparations do not overlap, a marker that holds  *)
(* every file means that the last one is done.                             *)

Alone    == \A p, q \in Preparers : InContainer(p) /\ InContainer(q) => p = q
Finished == Full => last = "done" /\ \A p \in Preparers : ~Removed(p)

Unspoilt == ~overlap => Alone /\ Finished

\* A step of a preparation that leaves the marker as it is, or not whole.
LEMMA StepUnspoilt ==
    ASSUME TypeOK, PlansEnd, Unspoilt, NEW p \in Preparers, Len(plan[p]) > 0,
           \/ plan' = [plan EXCEPT ![p] = Tail(@)] /\ UNCHANGED last
           \/ Stop(p),
           UNCHANGED overlap,
           (marker' = marker /\ ~At(p, "remove")) \/ ~Full'
    PROVE  Unspoilt'
  <1>1. \/ plan' = [plan EXCEPT ![p] = Tail(@)]
        \/ plan' = [plan EXCEPT ![p] = << >>]
    BY DEF Stop
  <1>2. /\ \A q \in Preparers \ {p} : plan'[q] = plan[q]
        /\ InContainer(p)' => InContainer(p)
    BY <1>1, Onwards
  <1>3. \A q \in Preparers : InContainer(q)' => InContainer(q)
    BY <1>2 DEF InContainer
  <1>4. ~overlap' => Alone'
    BY <1>3 DEF Unspoilt, Alone
  <1>5. ASSUME ~overlap', Full' PROVE last' = "done"
    <2>1. marker' = marker /\ ~At(p, "remove") /\ Full
      BY <1>5 DEF Full
    <2>2. last = "done" /\ ~Removed(p)
      BY <2>1, <1>5 DEF Unspoilt, Finished
    <2> QED BY <2>2 DEF Stop
  <1>6. ASSUME ~overlap', Full', NEW q \in Preparers, Removed(q)' PROVE FALSE
    <2>1. marker' = marker /\ ~At(p, "remove") /\ Full
      BY <1>6 DEF Full
    <2>2. InContainer(q)
      BY <1>3, <1>6 DEF Removed
    <2>3. CASE q = p
      BY <2>1, <2>2, <2>3, <1>6 DEF At, Removed, Unspoilt, Finished
    <2>4. CASE q # p
      <3>1. plan'[q] = plan[q]
        BY <2>4, <1>2
      <3>2. Removed(q)
        BY <3>1, <1>6 DEF Removed, InContainer
      <3> QED BY <3>2, <2>1, <1>6 DEF Unspoilt, Finished
    <2> QED BY <2>3, <2>4
  <1> QED BY <1>4, <1>5, <1>6 DEF Unspoilt, Finished

LEMMA UnspoiltInductive ==
    TypeOK /\ PlansEnd /\ Unspoilt /\ [Next]_vars => Unspoilt'
  <1> SUFFICES ASSUME TypeOK, PlansEnd, Unspoilt, [Next]_vars PROVE Unspoilt'
    OBVIOUS
  <1>1. ASSUME NEW p \in Preparers, Begin(p) PROVE Unspoilt'
    <2>1. PICK s \in {Container, Setup, Install} :
            /\ plan' = [plan EXCEPT ![p] = s]
            /\ overlap' = (overlap \/ (s = Container
                                       /\ \E q \in Preparers : InContainer(q)))
      BY <1>1 DEF Begin
    <2>2. /\ plan'[p] = s /\ \A q \in Preparers \ {p} : plan'[q] = plan[q]
          /\ UNCHANGED <<marker, last>>
      BY <1>1, <2>1 DEF Begin, TypeOK
    <2>3. CASE s = Container
      <3>1. ~overlap' =>
              ~overlap /\ \A q \in Preparers \ {p} : ~InContainer(q)'
        BY <2>1, <2>2, <2>3 DEF InContainer
      <3>2. ~Removed(p)'
        BY <2>2, <2>3, ContainerSteps DEF Removed, Starts
      <3>3. ~overlap' => Alone'
        BY <3>1 DEF Alone
      <3>4. ~overlap' => Finished'
        BY <3>1, <3>2, <2>2 DEF Unspoilt, Finished, Full, Removed
      <3> QED BY <3>3, <3>4 DEF Unspoilt
    <2>4. CASE s # Container
      <3>1. ~InContainer(p)'
        BY <2>2, <2>4, OtherSteps DEF InContainer, Ends
      <3>2. /\ \A q \in Preparers : InContainer(q)' => InContainer(q)
            /\ \A q \in Preparers : Removed(q)' => Removed(q)
        BY <2>2, <3>1 DEF InContainer, Removed
      <3> QED BY <2>1, <2>2, <3>2 DEF Unspoilt, Alone, Finished, Full
    <2> QED BY <2>3, <2>4
  <1>2. ASSUME NEW p \in Preparers, Fail(p) PROVE Unspoilt'
    <2>1. Len(plan[p]) > 0 /\ UNCHANGED <<marker, overlap>> /\ Stop(p)
      BY <1>2, EmptySeq DEF Fail, TypeOK
    <2>2. CASE At(p, "remove")
      <3>1. ~Removed(p)
        BY <2>2 DEF At, Removed
      <3>2. last' = last /\ plan' = [plan EXCEPT ![p] = << >>]
        BY <2>1, <3>1 DEF Stop
      <3>3. /\ \A q \in Preparers \ {p} : plan'[q] = plan[q]
            /\ plan'[p] = << >>
        BY <3>2 DEF TypeOK
      <3>4. /\ \A q \in Preparers : InContainer(q)' => InContainer(q)
            /\ \A q \in Preparers : Removed(q)' => Removed(q)
        BY <3>3 DEF InContainer, Removed
      <3> QED BY <2>1, <3>2, <3>4 DEF Unspoilt, Alone, Finished, Full
    <2>3. CASE ~At(p, "remove")
      BY <2>1, <2>3, StepUnspoilt
    <2> QED BY <2>2, <2>3
  <1>3. ASSUME NEW p \in Preparers, RemoveMarker(p) PROVE Unspoilt'
    <2>1. ~Full' /\ Len(plan[p]) > 0
      BY <1>3 DEF RemoveMarker, Full, NoMarker, Files, At
    <2> QED BY <1>3, <2>1, StepUnspoilt DEF RemoveMarker, Onward
  <1>4. ASSUME NEW p \in Preparers,
               \/ Refresh(p) \/ InstallXlings(p) \/ InstallTools(p)
               \/ CheckVersions(p) \/ Verify(p)
        PROVE  Unspoilt'
    <2>1. Len(plan[p]) > 0 /\ ~At(p, "remove")
      BY <1>4 DEF Refresh, InstallXlings, InstallTools, CheckVersions, Verify, At
    <2>2. /\ UNCHANGED <<marker, overlap>>
          /\ \/ plan' = [plan EXCEPT ![p] = Tail(@)] /\ UNCHANGED last
             \/ Stop(p)
      BY <1>4 DEF Refresh, InstallXlings, InstallTools, CheckVersions, Verify, Onward
    <2> QED BY <2>1, <2>2, StepUnspoilt
  <1>5. ASSUME NEW p \in Preparers, Mark(p) PROVE Unspoilt'
    <2>1. At(p, "mark") /\ Len(plan[p]) > 0 /\ UNCHANGED overlap
      BY <1>5 DEF Mark, At
    <2>2. CASE marker' = files /\ plan' = [plan EXCEPT ![p] = << >>] /\ last' = "done"
      <3>1. InContainer(p)
        <4>1. 1 \in 1..Len(plan[p]) /\ plan[p][1] = "mark" /\ LastIsMark(plan[p])
          BY <2>1 DEF At, PlansEnd, TypeOK
        <4>2. 1 = Len(plan[p])
          BY <4>1 DEF LastIsMark
        <4> QED BY <4>1, <4>2 DEF InContainer
      <3>2. /\ plan'[p] = << >> /\ \A q \in Preparers \ {p} : plan'[q] = plan[q]
        BY <2>2 DEF TypeOK
      <3>3. ~overlap' => \A q \in Preparers : ~InContainer(q)'
        BY <2>1, <3>1, <3>2 DEF Unspoilt, Alone, InContainer
      <3> QED BY <2>2, <3>3 DEF Unspoilt, Alone, Finished, Removed
    <2>3. CASE Stop(p) /\ \E F \in (SUBSET Files) \ {Files} :
                            marker' = [f \in F |-> files[f]]
      <3>1. ~Full'
        BY <2>3 DEF Full
      <3> QED BY <2>1, <2>3, <3>1, StepUnspoilt
    <2> QED BY <1>5, <2>2, <2>3 DEF Mark
  <1>6. CASE CompareMarker \/ CheckXlings \/ CheckTools
    <2>1. UNCHANGED <<plan, marker, overlap, last>>
      BY <1>6 DEF CompareMarker, CheckXlings, CheckTools, Checking, history
    <2> QED BY <2>1 DEF Unspoilt, Alone, Finished, Full, InContainer, Removed
  <1>7. ASSUME NEW f \in Files, Edit(f) PROVE Unspoilt'
    BY <1>7 DEF Edit, Unspoilt, Alone, Finished, Full, InContainer, Removed
  <1>8. ASSUME NEW t \in Tools, ChangeTool(t) PROVE Unspoilt'
    BY <1>8 DEF ChangeTool, history, Unspoilt, Alone, Finished, Full,
                InContainer, Removed
  <1>9. CASE UNCHANGED vars
    BY <1>9 DEF vars, history, Unspoilt, Alone, Finished, Full, InContainer,
                Removed
  <1> QED BY <1>1, <1>2, <1>3, <1>4, <1>5, <1>6, <1>7, <1>8, <1>9 DEF Next

\* An unfinished or failed preparation of the container is not taken for a
\* finished one.
THEOREM UnfinishedNotReady == Spec => []UnfinishedIsNotReady
  <1>1. Init => Unspoilt
    <2>1. SUFFICES ASSUME Init PROVE Alone /\ ~Full
      BY DEF Unspoilt, Finished
    <2>2. \A p \in Preparers : ~InContainer(p)
      BY <2>1 DEF Init, InContainer
    <2> QED BY <2>1, <2>2 DEF Init, Full, NoMarker, Files, Alone
  <1>2. Verified => PlansEnd
    BY DEF Verified
  <1>3. TypeOK /\ Found /\ Unspoilt => UnfinishedIsNotReady
    <2>1. SUFFICES ASSUME TypeOK, Found, Unspoilt, Ready, ~overlap
                   PROVE  last = "done" /\ \A p \in Preparers : ~Removed(p)
      BY DEF UnfinishedIsNotReady
    <2>2. Full
      BY <2>1 DEF Found, Ready, Full, TypeOK
    <2> QED BY <2>1, <2>2 DEF Unspoilt, Finished
  <1> QED BY <1>1, <1>2, <1>3, UnspoiltInductive, TypeCorrect, FoundAlways,
             VerifiedAlways, PTL DEF Spec

-----------------------------------------------------------------------------
(* A preparation of the container that nothing disturbs is not in vain.    *)

\* What is left of a preparation is the end of it.
EndOf(s, t) ==
    /\ Len(s) <= Len(t)
    /\ \A i \in 1..Len(s) : s[i] = t[i + (Len(t) - Len(s))]

Shape == \A p \in Preparers :
            \E t \in {Container, Setup, Install} : EndOf(plan[p], t)

Right  == installed["xlings"] = files["installer"]
Broken == last = "failed" \/ \E p \in Preparers : Removed(p)

Prepared ==
    ~overlap =>
        /\ quiet # "none" => \A p \in Preparers : InContainer(p) =>
             /\ Len(plan[p]) <= 8 => Right
             /\ Len(plan[p]) <= 6 => Pinned
        /\ quiet = "done" => Right /\ Pinned /\ (marker = files \/ Broken)
        /\ quiet = "done" /\ check = "unready" /\ calm => Broken

LEMMA Lengths ==
    /\ Len(Container) = 11 /\ Len(Setup) = 7 /\ Len(Install) = 4
  BY DEF Container, Setup, Install

LEMMA Places ==
    /\ \A k \in 1..11 :
         /\ Container[k] = "remove" <=> k = 1
         /\ Container[k] = "installer" <=> k = 3
         /\ Container[k] = "install" <=> k = 5
         /\ Container[k] = "mark" <=> k = 11
    /\ \A k \in 1..7 : Setup[k] \notin {"remove", "mark"}
    /\ \A k \in 1..4 : Install[k] \notin {"remove", "mark"}
  BY DEF Container, Setup, Install

LEMMA Counting ==
    ASSUME NEW n \in Nat, n > 0, n <= 11
    PROVE  \E m \in Nat :
             /\ m = 11 - n /\ n + m = 11 /\ 1 + m \in 1..11
             /\ n \in 1..n /\ 1 \in 1..n
             /\ n > 1 => 2 \in 1..n /\ 2 + m \in 1..11 /\ 2 + m # 1
             /\ 1 + m = 1 <=> n = 11
             /\ 1 + m = 3 <=> n = 9
             /\ 1 + m = 5 <=> n = 7
             /\ 1 + m = 11 <=> n = 1
  <1> WITNESS 11 - n \in Nat
  <1> QED OBVIOUS

\* Where a preparation of the container is, by the number of steps to come.
LEMMA PlaceIn ==
    ASSUME NEW s \in Seq(Steps), NEW n \in Nat, n = Len(s), n > 0,
           EndOf(s, Container)
    PROVE  /\ n <= 11 /\ s[n] = "mark"
           /\ s[1] = "remove" <=> n = 11
           /\ s[1] = "installer" <=> n = 9
           /\ s[1] = "install" <=> n = 7
           /\ s[1] = "mark" <=> n = 1
           /\ n > 1 => Tail(s)[1] # "remove" /\ Ends(Tail(s), "mark")
  <1>1. n <= 11 /\ \A i \in 1..n : s[i] = Container[i + (11 - n)]
    BY Lengths DEF EndOf
  <1>2. PICK m \in Nat :
           /\ m = 11 - n /\ n + m = 11 /\ 1 + m \in 1..11
           /\ n \in 1..n /\ 1 \in 1..n
           /\ n > 1 => 2 \in 1..n /\ 2 + m \in 1..11 /\ 2 + m # 1
           /\ 1 + m = 1 <=> n = 11
           /\ 1 + m = 3 <=> n = 9
           /\ 1 + m = 5 <=> n = 7
           /\ 1 + m = 11 <=> n = 1
    BY <1>1, Counting
  <1>3. s[n] = Container[11] /\ s[1] = Container[1 + m]
    BY <1>1, <1>2
  <1>4. 11 \in 1..11
    OBVIOUS
  <1>5. ASSUME n > 1 PROVE Tail(s)[1] # "remove" /\ Ends(Tail(s), "mark")
    <2>1. 2 \in 1..n /\ 2 + m \in 1..11 /\ 2 + m # 1
      BY <1>2, <1>5
    <2>2. s[2] = Container[2 + m]
      BY <2>1, <1>1, <1>2
    <2>3. s[2] # "remove"
      BY <2>1, <2>2, Places
    <2>4. /\ Len(Tail(s)) = n - 1 /\ Tail(s)[1] = s[2] /\ Tail(s)[n - 1] = s[n]
          /\ n - 1 > 0
      BY <1>5
    <2> QED BY <1>3, <1>4, <2>3, <2>4, Places DEF Ends
  <1>6. s[n] = "mark"
    BY <1>3, <1>4, Places
  <1>7. PICK k \in 1..11 : k = 1 + m
    BY <1>2
  <1>8. /\ s[1] = "remove" <=> k = 1
        /\ s[1] = "installer" <=> k = 3
        /\ s[1] = "install" <=> k = 5
        /\ s[1] = "mark" <=> k = 11
    BY <1>3, <1>7, Places
  <1> QED BY <1>1, <1>2, <1>5, <1>6, <1>7, <1>8

LEMMA NoPlaceIn ==
    ASSUME NEW s \in Seq(Steps), NEW n \in Nat, n = Len(s), n > 0,
           EndOf(s, Setup) \/ EndOf(s, Install)
    PROVE  s[n] # "mark" /\ s[1] \notin {"remove", "mark"}
  <1>1. CASE EndOf(s, Setup)
    <2>1. n <= 7 /\ \A i \in 1..n : s[i] = Setup[i + (7 - n)]
      BY <1>1, Lengths DEF EndOf
    <2>2. n \in 1..n /\ 1 \in 1..n /\ n + (7 - n) \in 1..7 /\ 1 + (7 - n) \in 1..7
      BY <2>1
    <2> QED BY <2>1, <2>2, Places
  <1>2. CASE EndOf(s, Install)
    <2>1. n <= 4 /\ \A i \in 1..n : s[i] = Install[i + (4 - n)]
      BY <1>2, Lengths DEF EndOf
    <2>2. n \in 1..n /\ 1 \in 1..n /\ n + (4 - n) \in 1..4 /\ 1 + (4 - n) \in 1..4
      BY <2>1
    <2> QED BY <2>1, <2>2, Places
  <1> QED BY <1>1, <1>2

LEMMA PlaceIs ==
    ASSUME TypeOK, Shape, NEW p \in Preparers, Len(plan[p]) > 0
    PROVE  /\ At(p, "remove") \/ At(p, "mark") => InContainer(p)
           /\ InContainer(p) =>
                /\ At(p, "remove") <=> Len(plan[p]) = 11
                /\ At(p, "installer") <=> Len(plan[p]) = 9
                /\ At(p, "install") <=> Len(plan[p]) = 7
                /\ At(p, "mark") <=> Len(plan[p]) = 1
                /\ Len(plan[p]) > 1 => /\ Tail(plan[p])[1] # "remove"
                                       /\ Ends(Tail(plan[p]), "mark")
  <1>1. plan[p] \in Seq(Steps) /\ Len(plan[p]) \in Nat
    BY DEF TypeOK
  <1>2. PICK t \in {Container, Setup, Install} : EndOf(plan[p], t)
    BY DEF Shape
  <1>3. CASE t = Container
    BY <1>1, <1>2, <1>3, PlaceIn DEF At, InContainer
  <1>4. CASE t # Container
    BY <1>1, <1>2, <1>4, NoPlaceIn DEF At, InContainer
  <1> QED BY <1>3, <1>4

\* Taking the first step away leaves an end of the same preparation.
LEMMA EndOfTail ==
    ASSUME NEW s \in Seq(Steps), NEW n \in Nat, n = Len(s), n > 0,
           NEW t, NEW m \in Nat, m = Len(t), EndOf(s, t)
    PROVE  EndOf(Tail(s), t)
  <1>1. n <= m /\ \A i \in 1..n : s[i] = t[i + (m - n)]
    BY DEF EndOf
  <1>2. /\ Len(Tail(s)) = n - 1
        /\ \A i \in 1..(n - 1) : Tail(s)[i] = s[i + 1]
    OBVIOUS
  <1>3. \A i \in 1..(n - 1) : i + 1 \in 1..n /\ (i + 1) + (m - n) = i + (m - (n - 1))
    BY <1>1
  <1>4. n - 1 <= m
    BY <1>1
  <1>5. \A i \in 1..(n - 1) : Tail(s)[i] = t[i + (m - (n - 1))]
    BY <1>1, <1>2, <1>3
  <1> QED BY <1>2, <1>4, <1>5 DEF EndOf

LEMMA ShapeInductive == TypeOK /\ Shape /\ [Next]_vars => Shape'
  <1> SUFFICES ASSUME TypeOK, Shape, [Next]_vars PROVE Shape'
    OBVIOUS
  <1>1. ASSUME NEW p \in Preparers,
               \/ plan[p] # << >> /\ plan' = [plan EXCEPT ![p] = Tail(@)]
               \/ plan' = [plan EXCEPT ![p] = << >>]
               \/ \E t \in {Container, Setup, Install} : plan' = [plan EXCEPT ![p] = t]
        PROVE  Shape'
    <2>1. /\ plan[p] \in Seq(Steps)
          /\ \A q \in Preparers \ {p} : plan'[q] = plan[q]
      BY <1>1 DEF TypeOK
    <2>2. \E t \in {Container, Setup, Install} : EndOf(plan'[p], t)
      <3>1. CASE plan[p] # << >> /\ plan' = [plan EXCEPT ![p] = Tail(@)]
        <4>1. PICK t \in {Container, Setup, Install} : EndOf(plan[p], t)
          BY DEF Shape
        <4>2. plan'[p] = Tail(plan[p])
          BY <3>1 DEF TypeOK
        <4>3. Len(plan[p]) \in Nat /\ Len(plan[p]) > 0 /\ Len(t) \in Nat
          BY <2>1, <3>1, EmptySeq, Lengths
        <4> QED BY <2>1, <4>1, <4>2, <4>3, EndOfTail
      <3>2. CASE plan' = [plan EXCEPT ![p] = << >>]
        <4>1. plan'[p] = << >>
          BY <3>2 DEF TypeOK
        <4>2. Len(<< >>) <= Len(Setup) /\ \A i \in 1..Len(<< >>) : FALSE
          BY Lengths
        <4> QED BY <4>1, <4>2 DEF EndOf
      <3>3. CASE \E t \in {Container, Setup, Install} : plan' = [plan EXCEPT ![p] = t]
        <4>1. PICK t \in {Container, Setup, Install} : plan'[p] = t
          BY <3>3 DEF TypeOK
        <4>2. Len(t) \in Nat
          BY Lengths
        <4>3. Len(t) <= Len(t) /\ \A i \in 1..Len(t) : i + (Len(t) - Len(t)) = i
          BY <4>2
        <4> QED BY <4>1, <4>3 DEF EndOf
      <3> QED BY <1>1, <3>1, <3>2, <3>3
    <2>3. SUFFICES ASSUME NEW q \in Preparers
                   PROVE  \E t \in {Container, Setup, Install} : EndOf(plan'[q], t)
      BY DEF Shape, EndOf
    <2>4. CASE q # p
      BY <2>1, <2>4 DEF Shape
    <2> QED BY <2>2, <2>4
  <1>2. ASSUME NEW p \in Preparers,
               \/ Begin(p) \/ Fail(p) \/ RemoveMarker(p) \/ Refresh(p)
               \/ InstallXlings(p) \/ InstallTools(p) \/ CheckVersions(p)
               \/ Verify(p) \/ Mark(p)
        PROVE  Shape'
    <2>1. CASE Begin(p)
      BY <1>1, <2>1 DEF Begin
    <2>2. CASE Fail(p) \/ Mark(p)
      BY <1>1, <2>2 DEF Fail, Mark, Stop
    <2>3. CASE RemoveMarker(p) \/ Refresh(p) \/ InstallXlings(p) \/ InstallTools(p)
               \/ CheckVersions(p) \/ Verify(p)
      <3>1. plan[p] # << >>
        BY <2>3 DEF RemoveMarker, Refresh, InstallXlings, InstallTools,
                    CheckVersions, Verify, At
      <3>2. Onward(p) \/ Stop(p)
        BY <2>3 DEF RemoveMarker, Refresh, InstallXlings, InstallTools,
                    CheckVersions, Verify
      <3> QED BY <1>1, <3>1, <3>2 DEF Onward, Stop
    <2> QED BY <1>2, <2>1, <2>2, <2>3
  <1>3. ASSUME UNCHANGED plan PROVE Shape'
    BY <1>3 DEF Shape, EndOf
  <1>4. CASE CompareMarker \/ CheckXlings \/ CheckTools
    BY <1>3, <1>4 DEF CompareMarker, CheckXlings, CheckTools, Checking
  <1>5. ASSUME NEW f \in Files, Edit(f) PROVE Shape'
    BY <1>3, <1>5 DEF Edit
  <1>6. ASSUME NEW t \in Tools, ChangeTool(t) PROVE Shape'
    BY <1>3, <1>6 DEF ChangeTool
  <1>7. CASE UNCHANGED vars
    BY <1>3, <1>7 DEF vars
  <1> QED BY <1>2, <1>4, <1>5, <1>6, <1>7 DEF Next

LEMMA OverOne == ASSUME NEW n \in Nat, n > 0, n # 1 PROVE n > 1
  OBVIOUS

\* What is broken stays so, until a preparation comes to its end.
LEMMA StaysBroken ==
    ASSUME TypeOK, Shape, NEW p \in Preparers, Len(plan[p]) > 0,
           (Onward(p) /\ ~At(p, "mark")) \/ Stop(p)
    PROVE  /\ Broken => Broken'
           /\ At(p, "remove") /\ Onward(p) => Broken'
           /\ At(p, "mark") /\ Stop(p) => Broken'
           /\ \A q \in Preparers \ {p} : plan'[q] = plan[q]
  <1>1. /\ \A q \in Preparers \ {p} : plan'[q] = plan[q]
        /\ Onward(p) => plan'[p] = Tail(plan[p])
    BY DEF Onward, Stop, TypeOK
  <1>2. \A q \in Preparers \ {p} : Removed(q) => Removed(q)'
    BY <1>1 DEF Removed, InContainer
  <1>3. ASSUME Onward(p), ~At(p, "mark"), InContainer(p) PROVE Removed(p)'
    <2>1. Len(plan[p]) # 1
      BY <1>3, PlaceIs
    <2>2. Len(plan[p]) > 1
      <3>1. Len(plan[p]) \in Nat
        BY DEF TypeOK
      <3> QED BY <2>1, <3>1, OverOne
    <2>3. Tail(plan[p])[1] # "remove" /\ Ends(Tail(plan[p]), "mark")
      BY <1>3, <2>2, PlaceIs
    <2> QED BY <1>1, <1>3, <2>3 DEF Removed, InContainer, Ends
  <1>4. ASSUME Stop(p), Removed(p) PROVE Broken'
    BY <1>4 DEF Stop, Broken
  <1>5. Broken => Broken'
    <2>1. CASE last = "failed"
      BY <2>1 DEF Onward, Stop, Broken
    <2>2. ASSUME NEW q \in Preparers, Removed(q) PROVE Broken'
      <3>1. CASE q # p
        BY <2>2, <3>1, <1>2 DEF Broken
      <3>2. CASE q = p
        <4>1. InContainer(p)
          BY <2>2, <3>2 DEF Removed
        <4>2. Onward(p) /\ ~At(p, "mark") => Broken'
          BY <1>3, <4>1 DEF Broken
        <4> QED BY <2>2, <3>2, <1>4, <4>2
      <3> QED BY <3>1, <3>2
    <2> QED BY <2>1, <2>2 DEF Broken
  <1>6. At(p, "remove") /\ Onward(p) => Broken'
    <2>1. SUFFICES ASSUME At(p, "remove"), Onward(p) PROVE Broken'
      OBVIOUS
    <2>2. InContainer(p) /\ ~At(p, "mark")
      BY <2>1, PlaceIs DEF At
    <2> QED BY <2>1, <2>2, <1>3 DEF Broken
  <1>7. At(p, "mark") /\ Stop(p) => Broken'
    <2>1. SUFFICES ASSUME At(p, "mark"), Stop(p) PROVE Broken'
      OBVIOUS
    <2>2. Removed(p)
      BY <2>1, PlaceIs DEF At, Removed
    <2> QED BY <2>1, <2>2, <1>4
  <1> QED BY <1>1, <1>5, <1>6, <1>7

LEMMA OneFewer ==
    ASSUME NEW n \in Nat
    PROVE  /\ n - 1 <= 8 => n <= 8 \/ n = 9
           /\ n - 1 <= 6 => n <= 6 \/ n = 7
  OBVIOUS

\* What a preparation of the container still has to do, after a step of it.
LEMMA Fewer ==
    ASSUME TypeOK, Shape, NEW p \in Preparers, Len(plan[p]) > 0,
           Onward(p), InContainer(p)'
    PROVE  /\ InContainer(p)
           /\ (Len(plan[p]) <= 8)' => Len(plan[p]) <= 8 \/ At(p, "installer")
           /\ (Len(plan[p]) <= 6)' => Len(plan[p]) <= 6 \/ At(p, "install")
  <1>1. plan[p] \in Seq(Steps) /\ Len(plan[p]) \in Nat
    BY DEF TypeOK
  <1>2. plan'[p] = Tail(plan[p])
    BY DEF Onward, TypeOK
  <1>3. Len(plan'[p]) = Len(plan[p]) - 1
    BY <1>1, <1>2
  <1>4. InContainer(p)
    <2>1. Len(plan[p]) - 1 > 0 /\ Tail(plan[p])[Len(plan[p]) - 1] = "mark"
      BY <1>2, <1>3 DEF InContainer
    <2>2. plan[p][Len(plan[p])] = "mark"
      BY <1>1, <2>1
    <2> QED BY <2>2 DEF InContainer
  <1>5. /\ Len(plan[p]) - 1 <= 8 => Len(plan[p]) <= 8 \/ Len(plan[p]) = 9
        /\ Len(plan[p]) - 1 <= 6 => Len(plan[p]) <= 6 \/ Len(plan[p]) = 7
    BY <1>1, OneFewer
  <1> QED BY <1>1, <1>2, <1>3, <1>4, <1>5, PlaceIs

\* A step of a preparation before its mark, or the end of one.
LEMMA StepPrepared ==
    ASSUME TypeOK, Shape, Prepared, NEW p \in Preparers, Len(plan[p]) > 0,
           \/ /\ Onward(p) /\ ~At(p, "mark")
              /\ At(p, "installer") => Right'
              /\ At(p, "install") => Pinned'
           \/ Stop(p),
           UNCHANGED <<quiet, overlap, check>>, calm' => calm,
           (marker' = marker /\ files' = files) \/ Broken',
           Right => Right', Pinned => Pinned'
    PROVE  Prepared'
  <1> SUFFICES ASSUME ~overlap PROVE Prepared'
    BY DEF Prepared
  <1>1. (Broken => Broken') /\ \A q \in Preparers \ {p} : plan'[q] = plan[q]
    BY StaysBroken
  <1>2. ASSUME quiet # "none", NEW q \in Preparers, InContainer(q)'
        PROVE  /\ (Len(plan[q]) <= 8)' => Right'
               /\ (Len(plan[q]) <= 6)' => Pinned'
    <2>1. CASE q = p
      <3>0. /\ Onward(p)
            /\ At(p, "installer") => Right'
            /\ At(p, "install") => Pinned'
        BY <1>2, <2>1, EmptySeq DEF Stop, InContainer, TypeOK
      <3>1. /\ InContainer(p)
            /\ (Len(plan[p]) <= 8)' => Len(plan[p]) <= 8 \/ At(p, "installer")
            /\ (Len(plan[p]) <= 6)' => Len(plan[p]) <= 6 \/ At(p, "install")
        BY <1>2, <2>1, <3>0, Fewer
      <3>2. /\ Len(plan[p]) <= 8 => Right
            /\ Len(plan[p]) <= 6 => Pinned
        BY <1>2, <3>1 DEF Prepared
      <3> QED BY <2>1, <3>0, <3>1, <3>2
    <2>2. CASE q # p
      <3>1. plan'[q] = plan[q] /\ InContainer(q)
        BY <1>1, <1>2, <2>2 DEF InContainer
      <3> QED BY <1>2, <3>1 DEF Prepared
    <2> QED BY <2>1, <2>2
  <1>3. quiet = "done" => Right' /\ Pinned' /\ (marker' = files' \/ Broken')
    BY <1>1 DEF Prepared
  <1>4. quiet = "done" /\ check = "unready" /\ calm => Broken'
    BY <1>1 DEF Prepared
  <1> QED BY <1>2, <1>3, <1>4 DEF Prepared

LEMMA PreparedInductive ==
    TypeOK /\ Shape /\ Prepared /\ [Next]_vars => Prepared'
  <1> SUFFICES ASSUME TypeOK, Shape, Prepared, [Next]_vars
               PROVE  Prepared'
    OBVIOUS
  <1>1. ASSUME NEW p \in Preparers, Begin(p) PROVE Prepared'
    <2>1. PICK s \in {Container, Setup, Install} :
            /\ plan' = [plan EXCEPT ![p] = s]
            /\ overlap' = (overlap \/ (s = Container
                                       /\ \E q \in Preparers : InContainer(q)))
            /\ quiet' = IF s = Container /\ quiet = "none" THEN "begun" ELSE quiet
      BY <1>1 DEF Begin
    <2>2. /\ plan'[p] = s /\ \A q \in Preparers \ {p} : plan'[q] = plan[q]
          /\ plan[p] = << >>
          /\ UNCHANGED <<files, installed, marker, check, last, calm>>
      BY <1>1, <2>1 DEF Begin, TypeOK
    <2>3. SUFFICES ASSUME ~overlap' PROVE Prepared'
      BY DEF Prepared
    <2>4. Broken => Broken'
      <3>1. ASSUME NEW q \in Preparers, Removed(q) PROVE Removed(q)'
        <4>1. q # p
          BY <2>2, <3>1, EmptySeq DEF Removed, InContainer
        <4> QED BY <2>2, <3>1, <4>1 DEF Removed, InContainer
      <3> QED BY <2>2, <3>1 DEF Broken
    <2>5. (Right <=> Right') /\ (Pinned <=> Pinned')
      BY <2>2 DEF Right, Pinned
    <2>6. ASSUME quiet' # "none", NEW q \in Preparers, InContainer(q)'
          PROVE  /\ (Len(plan[q]) <= 8)' => Right'
                 /\ (Len(plan[q]) <= 6)' => Pinned'
      <3>1. CASE q = p
        <4>1. s = Container
          BY <2>2, <2>6, <3>1, OtherSteps DEF InContainer, Ends
        <4>2. Len(plan'[q]) = 11
          BY <2>2, <3>1, <4>1, Lengths
        <4>3. ~(Len(plan'[q]) <= 8) /\ ~(Len(plan'[q]) <= 6)
          BY <4>2
        <4> QED BY <4>3
      <3>2. CASE q # p
        <4>1. plan'[q] = plan[q] /\ InContainer(q)
          BY <2>2, <2>6, <3>2 DEF InContainer
        <4>2. quiet # "none"
          BY <2>1, <2>3, <2>6, <4>1
        <4> QED BY <2>1, <2>3, <2>5, <4>1, <4>2 DEF Prepared
      <3> QED BY <3>1, <3>2
    <2>7. quiet' = "done" => quiet = "done"
      BY <2>1
    <2> QED BY <2>1, <2>2, <2>3, <2>4, <2>5, <2>6, <2>7 DEF Prepared
  <1>2. ASSUME NEW p \in Preparers, Fail(p) PROVE Prepared'
    <2>1. Len(plan[p]) > 0 /\ Stop(p)
      BY <1>2, EmptySeq DEF Fail, TypeOK
    <2> QED BY <1>2, <2>1, StepPrepared DEF Fail, Right, Pinned
  <1>3. ASSUME NEW p \in Preparers, RemoveMarker(p) PROVE Prepared'
    <2>1. Len(plan[p]) > 0 /\ At(p, "remove") /\ Onward(p) /\ ~At(p, "mark")
      BY <1>3 DEF RemoveMarker, At
    <2>2. Broken'
      BY <2>1, StaysBroken
    <2> QED BY <1>3, <2>1, <2>2, StepPrepared DEF RemoveMarker, At, Right, Pinned
  <1>4. ASSUME NEW p \in Preparers, Refresh(p) \/ CheckVersions(p) \/ Verify(p)
        PROVE  Prepared'
    <2>1. /\ Len(plan[p]) > 0
          /\ ~At(p, "mark") /\ ~At(p, "installer") /\ ~At(p, "install")
      BY <1>4 DEF Refresh, CheckVersions, Verify, At
    <2>2. /\ Onward(p) \/ Stop(p)
          /\ UNCHANGED <<quiet, overlap, check, calm, marker, files, installed>>
      BY <1>4 DEF Refresh, CheckVersions, Verify
    <2> QED BY <2>1, <2>2, StepPrepared DEF Right, Pinned
  <1>5. ASSUME NEW p \in Preparers, InstallXlings(p) PROVE Prepared'
    <2>1. /\ Len(plan[p]) > 0 /\ ~At(p, "mark") /\ ~At(p, "install") /\ Onward(p)
          /\ UNCHANGED <<quiet, overlap, check, marker, files>> /\ (calm' => calm)
      BY <1>5 DEF InstallXlings, At
    <2>2. Right' /\ (Pinned => Pinned')
      BY <1>5 DEF InstallXlings, Right, Pinned, TypeOK, Tools
    <2> QED BY <2>1, <2>2, StepPrepared
  <1>6. ASSUME NEW p \in Preparers, InstallTools(p) PROVE Prepared'
    <2>1. /\ Len(plan[p]) > 0 /\ ~At(p, "mark") /\ ~At(p, "installer")
          /\ UNCHANGED <<quiet, overlap, check, marker, files>> /\ (calm' => calm)
      BY <1>6 DEF InstallTools, At
    <2>2. PICK T \in SUBSET {"mcpp", "d2x"} :
            /\ IF T = {"mcpp", "d2x"} THEN Onward(p) ELSE Stop(p)
            /\ installed' = [t \in Tools |-> IF t \in T THEN files["pins"]
                                             ELSE installed[t]]
      BY <1>6 DEF InstallTools
    <2>3. (Right => Right') /\ (Pinned => Pinned')
      BY <2>1, <2>2 DEF Right, Pinned, Tools
    <2>4. T = {"mcpp", "d2x"} => Pinned'
      BY <2>1, <2>2 DEF Pinned, Tools
    <2> QED BY <2>1, <2>2, <2>3, <2>4, StepPrepared
  <1>7. ASSUME NEW p \in Preparers, Mark(p) PROVE Prepared'
    <2>1. /\ At(p, "mark") /\ Len(plan[p]) > 0
          /\ UNCHANGED <<overlap, check, files, installed>> /\ calm' = FALSE
      BY <1>7 DEF Mark, At
    <2>2. CASE /\ marker' = files /\ plan' = [plan EXCEPT ![p] = << >>]
               /\ quiet' = IF quiet = "begun" THEN "done" ELSE quiet
      <3>1. InContainer(p) /\ Len(plan[p]) = 1
        BY <2>1, PlaceIs
      <3>2. SUFFICES ASSUME ~overlap, quiet # "none" PROVE Prepared'
        BY <2>1, <2>2 DEF Prepared
      <3>3. Right /\ Pinned
        <4>1. Len(plan[p]) <= 8 /\ Len(plan[p]) <= 6
          BY <3>1
        <4> QED BY <2>1, <3>1, <3>2, <4>1 DEF Prepared
      <3>4. Right' /\ Pinned' /\ marker' = files'
        BY <2>1, <2>2, <3>3 DEF Right, Pinned
      <3> QED BY <2>1, <3>4 DEF Prepared
    <2>3. CASE Stop(p) /\ UNCHANGED quiet
      <3>1. Broken'
        BY <2>1, <2>3, StaysBroken
      <3> QED BY <2>1, <2>3, <3>1, StepPrepared DEF Right, Pinned
    <2> QED BY <1>7, <2>2, <2>3 DEF Mark
  <1>8. CASE CompareMarker \/ CheckXlings \/ CheckTools
    <2>1. UNCHANGED <<files, installed, marker, plan, overlap, last, quiet>>
      BY <1>8 DEF CompareMarker, CheckXlings, CheckTools, Checking, history
    <2>2. /\ (Broken <=> Broken') /\ (Right <=> Right') /\ (Pinned <=> Pinned')
          /\ \A q \in Preparers : InContainer(q)' => InContainer(q)
      BY <2>1 DEF Broken, Removed, InContainer, Right, Pinned
    <2>3. ASSUME ~overlap, quiet = "done", check' = "unready", calm' PROVE Broken
      <3>1. Right /\ Pinned /\ (marker = files \/ Broken)
        BY <2>3 DEF Prepared
      <3> QED BY <1>8, <2>3, <3>1
              DEF CompareMarker, CheckXlings, CheckTools, Checking, Right
    <2> QED BY <2>1, <2>2, <2>3 DEF Prepared
  <1>9. ASSUME NEW f \in Files, Edit(f) PROVE Prepared'
    BY <1>9 DEF Edit, Prepared
  <1>10. ASSUME NEW t \in Tools, ChangeTool(t) PROVE Prepared'
    BY <1>10 DEF ChangeTool, Prepared
  <1>11. CASE UNCHANGED vars
    BY <1>11 DEF vars, history, Prepared, Broken, Removed, InContainer, Right, Pinned
  <1> QED BY <1>1, <1>2, <1>3, <1>4, <1>5, <1>6, <1>7, <1>8, <1>9, <1>10, <1>11
          DEF Next

\* After a preparation of the container that is done, and while nothing is
\* changed, every attach finds the environment ready.
THEOREM FinishedReady == Spec => []FinishedIsReady
  <1>1. Init => Shape
    <2>1. SUFFICES ASSUME Init, NEW p \in Preparers PROVE EndOf(plan[p], Setup)
      BY DEF Shape
    <2>2. plan[p] = << >>
      BY <2>1 DEF Init
    <2>3. Len(<< >>) <= Len(Setup) /\ \A i \in 1..Len(<< >>) : FALSE
      BY Lengths
    <2> QED BY <2>2, <2>3 DEF EndOf
  <1>2. Init => Prepared
    BY DEF Init, Prepared
  <1>3. Prepared => FinishedIsReady
    BY DEF Prepared, FinishedIsReady, Broken
  <1> QED BY <1>1, <1>2, <1>3, ShapeInductive, PreparedInductive, TypeCorrect, PTL
          DEF Spec
=============================================================================
