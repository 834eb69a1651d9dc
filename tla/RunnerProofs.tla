---------------------------- MODULE RunnerProofs -----------------------------
(***************************************************************************)
(* Proofs about the two models of runner.cppm: Capture, how the output of  *)
(* mcpp is collected, for every heartbeat period, lateness, limit, pipe    *)
(* and amount of output; Codec, how a text travels in a line of JSON, for  *)
(* every alphabet within the assumption and texts of every length.         *)
(*                                                                         *)
(* Capture rests on two arguments that do not meet: the order of the       *)
(* threads (Order, Lines) gives the hand-over of the string, the clock     *)
(* (Clock) gives the bound on the silence.  Clock counts from the two      *)
(* moments the code counts from: next is set from the time main woke,      *)
(* before the heartbeat is sent, and d2x counts from the time it was sent. *)
(*                                                                         *)
(* Codec rests on one induction along the text.  What FlattenSeq and       *)
(* FoldLeft compute is first put as a function on 0..n that takes one step *)
(* per place (FlattenIs, StepFolds); then every code of the switch is      *)
(* undone by the loop that reads it (Inverting), so a text spelt with the  *)
(* codes is read back (ReadBack).  That the fields are found at all rests  *)
(* on what the switch leaves out: a quote without a backslash (Clean), so  *)
(* that no key inside a text is taken for a key of the line (OnePlace).    *)
(***************************************************************************)
EXTENDS Capture, Codec, SequenceTheorems, WellFoundedInduction, TLAPS

-----------------------------------------------------------------------------
(* Capture: how the output of mcpp is collected.                           *)

Flags == beats \in BOOLEAN /\ finished \in BOOLEAN /\ killed \in BOOLEAN

Values ==
    /\ main \in {"popen", "test", "sleep", "beat", "join", "move", "pclose",
                 "done"}
    /\ reader \in {"none", "fgets", "append", "store", "ended"}
    /\ collected \in 0..MaxLines
    /\ output \in 0..MaxLines
    /\ code \in Nat
    /\ child \in {"none", "running", "closed", "gone"}
    /\ written \in 0..MaxLines
    /\ wstatus \in Statuses \cup {0}

Timers ==
    /\ lag \in 0..(1 + Slack)
    /\ waited \in 0..(HeartbeatEvery + Slack)
    /\ silence \in 0..IdleLimit

\* Who runs when.
Order ==
    /\ main = "popen" => reader = "none" /\ child = "none"
    /\ InLoop => beats /\ reader # "none"
    /\ main = "join" => reader # "none" /\ (beats => finished)
    /\ main \in {"move", "pclose"} => reader = "ended" /\ (beats => finished)
    /\ finished => reader = "ended"
    /\ reader \in {"store", "ended"} => child \in {"closed", "gone"}

\* Where the lines are.
Lines ==
    /\ child = "none" => written = 0
    /\ main \notin {"pclose", "done"} =>
         /\ output = 0
         /\ InPipe >= 0
         /\ reader \in {"none", "store", "ended"} => collected = written
    /\ main \in {"pclose", "done"} => output = written

Clock ==
    /\ main = "popen" => silence = lag /\ lag <= Slack
    /\ main \in {"test", "sleep"} =>
         /\ waited <= lag + HeartbeatEvery - 1
         /\ silence <= waited + Slack
    /\ main = "beat" =>
         /\ waited + 1 <= lag
         /\ silence <= lag + HeartbeatEvery - 1 + Slack

Inv == TypeOK /\ Order /\ Lines /\ Clock /\ NeverKilledWhileReading
       /\ CodeIsTheChilds

-----------------------------------------------------------------------------
\* Whatever the child ended with, its decoded code is a byte, and 0 for
\* exit(0) only.
LEMMA ExitCodeIsAByte ==
    ASSUME NEW s \in WaitStatuses
    PROVE  exit_code(s) \in 0..255 /\ (exit_code(s) = 0 => s = 0)
BY DEF WaitStatuses, exit_code

LEMMA InitEstablishes == Init => Inv
<1> SUFFICES ASSUME Init PROVE Inv
  OBVIOUS
<1> USE TimeAssumption, PipeAssumption DEF Init, InLoop, InPipe
<1>1. Values /\ Timers
  BY DEF Values, Timers
<1>2. Flags
  BY DEF Flags
<1>3. Order /\ Lines /\ Clock
  BY DEF Order, Lines, Clock
<1>4. NeverKilledWhileReading /\ CodeIsTheChilds
  BY DEF NeverKilledWhileReading, CodeIsTheChilds
<1> QED
  BY <1>1, <1>2, <1>3, <1>4 DEF Inv, TypeOK, Values, Timers, Flags

-----------------------------------------------------------------------------
(* Each part of Inv is kept by the steps of main, of the reader, of the    *)
(* child, of time and of d2x.                                              *)

\* No line is counted twice: collected and output stay within what was written.
LEMMA ValuesStep ==
    ASSUME Inv, [Next]_vars PROVE Values'
<1> USE TimeAssumption, PipeAssumption
    DEF Inv, TypeOK, Alive, InLoop, threads, childs, time, vars,
        Values, Order, Lines, InPipe
<1>1. CASE MainStep
  <2>1. CASE PClose
    <3>1. code' = 127 \/ (code' = exit_code(wstatus) /\ wstatus \in WaitStatuses)
      <4>1. 0 \in WaitStatuses
        BY DEF WaitStatuses
      <4> QED
        BY <2>1, <4>1 DEF PClose
    <3>2. code' \in Nat
      BY <3>1, ExitCodeIsAByte
    <3> QED
      BY <2>1, <3>2 DEF PClose
  <2>2. CASE MainStep /\ ~PClose
    BY <2>2 DEF MainStep, SpawnFails, Spawn, TestFinished, Wake, Beat, Join,
                Move
  <2> QED
    BY <1>1, <2>1, <2>2
<1>2. CASE ReaderStep
  BY <1>2 DEF ReaderStep, ReadLine, AppendLine, ReadEof, StoreFinished
<1>3. CASE ChildStep
  BY <1>3 DEF ChildStep, WriteLine, CloseOutput, ChildEnds
<1>4. CASE Tick
  BY <1>4 DEF Tick
<1>5. CASE IdleKill
  BY <1>5 DEF IdleKill
<1>6. CASE UNCHANGED vars
  BY <1>6
<1> QED
  BY ONLY [Next]_vars, <1>1, <1>2, <1>3, <1>4, <1>5, <1>6 DEF Next

\* The bound on waited is the one that Clock gives.
LEMMA TimersStep ==
    ASSUME Inv, [Next]_vars PROVE Timers'
<1> USE TimeAssumption, PipeAssumption
    DEF Inv, TypeOK, Alive, InLoop, threads, childs, time, vars,
        Timers, Clock
<1>1. CASE MainStep
  BY <1>1 DEF MainStep, SpawnFails, Spawn, TestFinished, Wake, Beat, Join,
              Move, PClose
<1>2. CASE ReaderStep
  BY <1>2 DEF ReaderStep, ReadLine, AppendLine, ReadEof, StoreFinished
<1>3. CASE ChildStep
  BY <1>3 DEF ChildStep, WriteLine, CloseOutput, ChildEnds
<1>4. CASE Tick
  BY <1>4 DEF Tick
<1>5. CASE IdleKill
  BY <1>5 DEF IdleKill
<1>6. CASE UNCHANGED vars
  BY <1>6
<1> QED
  BY ONLY [Next]_vars, <1>1, <1>2, <1>3, <1>4, <1>5, <1>6 DEF Next

\* The flags are only ever set.
LEMMA FlagsStep ==
    ASSUME Inv, [Next]_vars PROVE Flags'
<1> USE TimeAssumption, PipeAssumption
    DEF Inv, TypeOK, Alive, InLoop, threads, childs, time, vars,
        Flags
<1>1. CASE MainStep
  BY <1>1 DEF MainStep, SpawnFails, Spawn, TestFinished, Wake, Beat, Join,
              Move, PClose
<1>2. CASE ReaderStep
  BY <1>2 DEF ReaderStep, ReadLine, AppendLine, ReadEof, StoreFinished
<1>3. CASE ChildStep
  BY <1>3 DEF ChildStep, WriteLine, CloseOutput, ChildEnds
<1>4. CASE Tick
  BY <1>4 DEF Tick
<1>5. CASE IdleKill
  BY <1>5 DEF IdleKill
<1>6. CASE UNCHANGED vars
  BY <1>6
<1> QED
  BY ONLY [Next]_vars, <1>1, <1>2, <1>3, <1>4, <1>5, <1>6 DEF Next

\* The reader ends before main goes past join.
LEMMA OrderStep ==
    ASSUME Inv, [Next]_vars PROVE Order'
<1> USE TimeAssumption, PipeAssumption
    DEF Inv, TypeOK, Alive, InLoop, threads, childs, time, vars,
        Order
<1>1. CASE MainStep
  BY <1>1 DEF MainStep, SpawnFails, Spawn, TestFinished, Wake, Beat, Join,
              Move, PClose
<1>2. CASE ReaderStep
  BY <1>2 DEF ReaderStep, ReadLine, AppendLine, ReadEof, StoreFinished
<1>3. CASE ChildStep
  BY <1>3 DEF ChildStep, WriteLine, CloseOutput, ChildEnds
<1>4. CASE Tick
  BY <1>4 DEF Tick
<1>5. CASE IdleKill
  BY <1>5 DEF IdleKill
<1>6. CASE UNCHANGED vars
  BY <1>6
<1> QED
  BY ONLY [Next]_vars, <1>1, <1>2, <1>3, <1>4, <1>5, <1>6 DEF Next

\* A line is in the pipe, in the reader's buffer, or in the string.
LEMMA LinesStep ==
    ASSUME Inv, [Next]_vars PROVE Lines'
<1> USE TimeAssumption, PipeAssumption
    DEF Inv, TypeOK, Alive, InLoop, threads, childs, time, vars,
        Order, Lines, InPipe
<1>1. CASE MainStep
  BY <1>1 DEF MainStep, SpawnFails, Spawn, TestFinished, Wake, Beat, Join,
              Move, PClose
<1>2. CASE ReaderStep
  BY <1>2 DEF ReaderStep, ReadLine, AppendLine, ReadEof, StoreFinished
<1>3. CASE ChildStep
  BY <1>3 DEF ChildStep, WriteLine, CloseOutput, ChildEnds
<1>4. CASE Tick
  BY <1>4 DEF Tick
<1>5. CASE IdleKill
  BY <1>5 DEF IdleKill
<1>6. CASE UNCHANGED vars
  BY <1>6
<1> QED
  BY ONLY [Next]_vars, <1>1, <1>2, <1>3, <1>4, <1>5, <1>6 DEF Next

\* An iteration that is late adds its lateness once.
LEMMA ClockStep ==
    ASSUME Inv, [Next]_vars PROVE Clock'
<1> USE TimeAssumption, PipeAssumption
    DEF Inv, TypeOK, Alive, InLoop, threads, childs, time, vars,
        Clock, Timers
<1>1. CASE MainStep
  BY <1>1 DEF MainStep, SpawnFails, Spawn, TestFinished, Wake, Beat, Join,
              Move, PClose
<1>2. CASE ReaderStep
  BY <1>2 DEF ReaderStep, ReadLine, AppendLine, ReadEof, StoreFinished
<1>3. CASE ChildStep
  BY <1>3 DEF ChildStep, WriteLine, CloseOutput, ChildEnds
<1>4. CASE Tick
  BY <1>4 DEF Tick
<1>5. CASE IdleKill
  BY <1>5 DEF IdleKill
<1>6. CASE UNCHANGED vars
  BY <1>6
<1> QED
  BY ONLY [Next]_vars, <1>1, <1>2, <1>3, <1>4, <1>5, <1>6 DEF Next

\* The limit is beyond what Clock allows in the loop.
LEMMA NeverKilledWhileReadingStep ==
    ASSUME Inv, [Next]_vars PROVE NeverKilledWhileReading'
<1> USE TimeAssumption, PipeAssumption
    DEF Inv, TypeOK, Alive, InLoop, threads, childs, time, vars,
        NeverKilledWhileReading, Clock, Order
<1>1. CASE MainStep
  BY <1>1 DEF MainStep, SpawnFails, Spawn, TestFinished, Wake, Beat, Join,
              Move, PClose
<1>2. CASE ReaderStep
  BY <1>2 DEF ReaderStep, ReadLine, AppendLine, ReadEof, StoreFinished
<1>3. CASE ChildStep
  BY <1>3 DEF ChildStep, WriteLine, CloseOutput, ChildEnds
<1>4. CASE Tick
  BY <1>4 DEF Tick
<1>5. CASE IdleKill
  BY <1>5 DEF IdleKill
<1>6. CASE UNCHANGED vars
  BY <1>6
<1> QED
  BY ONLY [Next]_vars, <1>1, <1>2, <1>3, <1>4, <1>5, <1>6 DEF Next

\* The decoded status is what main returns.
LEMMA CodeIsTheChildsStep ==
    ASSUME Inv, [Next]_vars PROVE CodeIsTheChilds'
<1> USE TimeAssumption, PipeAssumption
    DEF Inv, TypeOK, Alive, InLoop, threads, childs, time, vars,
        CodeIsTheChilds, Order
<1>1. CASE MainStep
  <2>1. CASE PClose
    <3>1. 0 \in WaitStatuses /\ wstatus \in WaitStatuses
      BY DEF WaitStatuses
    <3>2. code' = 127 \/ code' = exit_code(wstatus)
      BY <2>1 DEF PClose
    <3>3. code' <= 255 /\ (code' = 0 => wstatus = 0)
      BY <3>1, <3>2, ExitCodeIsAByte
    <3> QED
      BY <2>1, <3>3 DEF PClose
  <2>2. CASE MainStep /\ ~PClose
    BY <2>2 DEF MainStep, SpawnFails, Spawn, TestFinished, Wake, Beat, Join,
                Move
  <2> QED
    BY <1>1, <2>1, <2>2
<1>2. CASE ReaderStep
  BY <1>2 DEF ReaderStep, ReadLine, AppendLine, ReadEof, StoreFinished
<1>3. CASE ChildStep
  BY <1>3 DEF ChildStep, WriteLine, CloseOutput, ChildEnds
<1>4. CASE Tick
  BY <1>4 DEF Tick
<1>5. CASE IdleKill
  BY <1>5 DEF IdleKill
<1>6. CASE UNCHANGED vars
  BY <1>6
<1> QED
  BY ONLY [Next]_vars, <1>1, <1>2, <1>3, <1>4, <1>5, <1>6 DEF Next

THEOREM Invariance == Spec => []Inv
<1>1. Inv /\ [Next]_vars => Inv'
  BY ValuesStep, TimersStep, FlagsStep, OrderStep, LinesStep, ClockStep,
     NeverKilledWhileReadingStep, CodeIsTheChildsStep
     DEF Inv, TypeOK, Values, Timers, Flags
<1> QED
  BY InitEstablishes, <1>1, PTL DEF Spec

-----------------------------------------------------------------------------
\* The variables keep their types; the wait for a heartbeat and the lateness of
\* main stay within their bounds (capture_stdout, lines 81-92).
THEOREM TypeCorrect == Spec => []TypeOK
<1>1. Inv => TypeOK
  BY DEF Inv
<1> QED
  BY <1>1, Invariance, PTL

\* The heartbeats keep the Provider from being killed while it reads, for every
\* period and every limit beyond the period and twice the lateness.
THEOREM NeverKilled == Spec => []NeverKilledWhileReading
<1>1. Inv => NeverKilledWhileReading
  BY DEF Inv
<1> QED
  BY <1>1, Invariance, PTL

\* No thread touches the string or the pipe while the other does (lines 93-97).
THEOREM HandOver == Spec => []ReaderIsDoneFirst
<1>1. Inv => ReaderIsDoneFirst
  BY DEF Inv, Order, ReaderIsDoneFirst
<1> QED
  BY <1>1, Invariance, PTL

\* The caller gets all that the child wrote, for every length of the output and
\* every capacity of the pipe.
THEOREM NothingIsCut == Spec => []OutputIsComplete
<1>1. Inv => OutputIsComplete
  BY DEF Inv, Lines, OutputIsComplete
<1> QED
  BY <1>1, Invariance, PTL

\* The code returned is a byte, 0 only when the child ended with exit(0).
THEOREM CodeCorrect == Spec => []CodeIsTheChilds
<1>1. Inv => CodeIsTheChilds
  BY DEF Inv
<1> QED
  BY <1>1, Invariance, PTL

-----------------------------------------------------------------------------
(* Induction over numbers, on a set in the place of a predicate.           *)

\* A set of numbers that is not empty has a least member.
LEMMA Least ==
    ASSUME NEW B \in SUBSET Nat, B # {}
    PROVE  \E k \in B : \A j \in B : k <= j
  <1> DEFINE R == OpToRel(<, Nat)
  <1>1. IsWellFoundedOn(R, Nat)
    BY NatLessThanWellFounded
  <1>2. PICK k \in B : \A j \in B : ~(<<j, k>> \in R)
    <2> HIDE DEF R
    <2> QED BY <1>1, WFMin
  <1>3. ASSUME NEW j \in B, j < k PROVE FALSE
    <2>1. <<j, k>> \in Nat \X Nat /\ <<j, k>>[1] < <<j, k>>[2]
      BY <1>3
    <2>2. <<j, k>> \in {ss \in Nat \X Nat : ss[1] < ss[2]}
      BY <2>1
    <2> QED BY <1>2, <2>2 DEF OpToRel
  <1> QED BY <1>3

\* Induction up to N, on a set in the place of a predicate.
LEMMA Induct ==
    ASSUME NEW N \in Nat, NEW G, 0 \in G, \A n \in 1..N : n - 1 \in G => n \in G
    PROVE  \A n \in 0..N : n \in G
  <1> SUFFICES ASSUME {n \in 0..N : n \notin G} # {} PROVE FALSE
    OBVIOUS
  <1> DEFINE B == {n \in 0..N : n \notin G}
  <1>1. PICK k \in B : \A j \in B : k <= j
    <2>1. B \in SUBSET Nat
      OBVIOUS
    <2> HIDE DEF B
    <2> QED BY <2>1, Least DEF B
  <1>2. k \in 1..N /\ k - 1 \in 0..N /\ k - 1 \notin B
    BY <1>1
  <1> QED BY <1>1, <1>2

\* The runs of N steps from a base, through a set of states.
RunsOf(step, base, N, T) ==
    {st \in [0..N -> T] : st[0] = base /\ \A n \in 1..N : st[n] = step[n][st[n - 1]]}

\* There is such a run: each step has an outcome.
LEMMA Iterable ==
    ASSUME NEW T, NEW base \in T, NEW N \in Nat, NEW step \in [1..N -> [T -> T]]
    PROVE  RunsOf(step, base, N, T) # {}
  <1> DEFINE Run(st, k) == st[0] = base /\ \A n \in 1..k : st[n] = step[n][st[n - 1]]
             G == {k \in 0..N : \E st \in [0..k -> T] : Run(st, k)}
  <1>1. 0 \in G
    <2> DEFINE st == [n \in 0..0 |-> base]
    <2>1. st \in [0..0 -> T]
      OBVIOUS
    <2>2. st[0] = base /\ 1..0 = {}
      OBVIOUS
    <2>3. Run(st, 0)
      BY <2>2
    <2>4. \E s \in [0..0 -> T] : Run(s, 0)
      BY <2>1, <2>3
    <2> QED BY <2>4
  <1>2. ASSUME NEW n \in 1..N, n - 1 \in G PROVE n \in G
    <2>1. PICK st \in [0..(n - 1) -> T] : Run(st, n - 1)
      BY <1>2
    <2> DEFINE more == [i \in 0..n |-> IF i = n THEN step[n][st[n - 1]] ELSE st[i]]
    <2>2. step[n][st[n - 1]] \in T
      OBVIOUS
    <2>3. more \in [0..n -> T]
      BY <2>2
    <2>4. ASSUME NEW i \in 1..n PROVE more[i] = step[i][more[i - 1]]
      <3>1. i - 1 \in 0..n /\ i - 1 # n /\ i \in 0..n
        OBVIOUS
      <3>2. more[i - 1] = st[i - 1]
        BY <3>1
      <3>3. CASE i = n
        BY <3>1, <3>2, <3>3
      <3>4. CASE i # n
        <4>1. i \in 1..(n - 1) /\ more[i] = st[i]
          BY <3>1, <3>4
        <4> QED BY <4>1, <3>2, <2>1
      <3> QED BY <3>3, <3>4
    <2>5. more[0] = base
      <3>1. 0 \in 0..n /\ 0 # n
        OBVIOUS
      <3> QED BY <2>1, <3>1
    <2>6. Run(more, n)
      BY <2>4, <2>5
    <2>7. \E s \in [0..n -> T] : Run(s, n)
      <3> HIDE DEF more, Run
      <3> QED BY <2>3, <2>6
    <2>8. n \in 0..N
      OBVIOUS
    <2> HIDE DEF Run
    <2> QED BY <2>7, <2>8
  <1>3. N \in G
    <2> HIDE DEF G
    <2>1. \A n \in 1..N : n - 1 \in G => n \in G
      BY <1>2
    <2>2. \A n \in 0..N : n \in G
      BY ONLY N \in Nat, <1>1, <2>1, Induct
    <2> QED BY <2>2
  <1> QED BY <1>3 DEF RunsOf

-----------------------------------------------------------------------------
(* What the community modules' recursive functions compute.                *)

\* FlattenSeq appends the parts one after another.
LEMMA FlattenIs ==
    ASSUME NEW C, NEW parts \in Seq(Seq(C))
    PROVE  \E out \in [0..Len(parts) -> Seq(C)] :
             /\ out[0] = << >>
             /\ \A n \in 1..Len(parts) : out[n] = out[n - 1] \o parts[n]
             /\ FlattenSeq(parts) = out[Len(parts)]
  <1> DEFINE N == Len(parts)
             step == [n \in 1..N |-> [q \in Seq(C) |-> q \o parts[n]]]
  <1>0. N \in Nat /\ \A n \in 1..N : parts[n] \in Seq(C)
    BY LenProperties, ElementOfSeq
  <1>1. step \in [1..N -> [Seq(C) -> Seq(C)]]
    <2>1. ASSUME NEW n \in 1..N PROVE [q \in Seq(C) |-> q \o parts[n]] \in [Seq(C) -> Seq(C)]
      <3>1. parts[n] \in Seq(C)
        BY <1>0
      <3>2. \A q \in Seq(C) : q \o parts[n] \in Seq(C)
        BY <3>1, ConcatProperties
      <3> QED BY <3>2
    <2> QED BY <2>1
  <1>a. << >> \in Seq(C)
    BY EmptySeq
  <1>2. PICK out \in [0..N -> Seq(C)] :
          out[0] = << >> /\ \A n \in 1..N : out[n] = step[n][out[n - 1]]
    <2> DEFINE T == Seq(C)
               base == << >>
    <2>1. N \in Nat /\ base \in T /\ step \in [1..N -> [T -> T]]
      BY <1>0, <1>a, <1>1
    <2>2. RunsOf(step, base, N, T) # {}
      <3> HIDE DEF step, N, T, base
      <3> QED BY ONLY <2>1, Iterable
    <2> QED BY ONLY <2>2 DEF RunsOf
  <1>3. ASSUME NEW n \in 1..N PROVE out[n] = out[n - 1] \o parts[n]
    <2>1. n - 1 \in 0..N
      BY <1>0
    <2>2. out[n - 1] \in Seq(C)
      BY <2>1
    <2> QED BY <1>2, <2>2
  <1>4. CASE N = 0
    <2>1. parts = << >>
      BY <1>4, EmptySeq
    <2>2. FlattenSeq(parts) = << >>
      BY <1>4, <2>1 DEF FlattenSeq
    <2> QED BY <1>2, <1>3, <1>4, <2>2
  <1>5. CASE N # 0
    <2> DEFINE F(g) == [i \in 1..N |-> IF i = 1 THEN parts[i] ELSE g[i - 1] \o parts[i]]
               got  == CHOOSE g : g = F(g)
               have == [i \in 1..N |-> out[i]]
    <2>1. have = F(have)
      <3>1. ASSUME NEW i \in 1..N
            PROVE  have[i] = IF i = 1 THEN parts[i] ELSE have[i - 1] \o parts[i]
        <4>0. have[i] = out[i] /\ out[i] = out[i - 1] \o parts[i] /\ parts[i] \in Seq(C)
          BY <1>0, <1>3
        <4>1. CASE i = 1
          <5>1. out[i - 1] = << >>
            BY <1>2, <4>1
          <5> QED BY ONLY <4>0, <4>1, <5>1, ConcatEmptySeq
        <4>2. CASE i # 1
          <5>1. i - 1 \in 1..N
            BY <1>0, <4>2
          <5>2. have[i - 1] = out[i - 1]
            BY <5>1
          <5> QED BY ONLY <4>0, <4>2, <5>2
        <4> QED BY <4>1, <4>2
      <3> HIDE DEF N
      <3> QED BY <3>1
    <2>2. got = F(got)
      <3> HIDE DEF have, F
      <3> QED BY <2>1
    <2>3. FlattenSeq(parts) = got[N]
      BY <1>5, Zenon DEF FlattenSeq
    <2> HIDE DEF have
    <2> DEFINE G == {n \in 0..N : n = 0 \/ got[n] = out[n]}
    <2>4. 0 \in G
      BY <1>0
    <2>5. ASSUME NEW n \in 1..N, n - 1 \in G PROVE n \in G
      <3> HIDE DEF got
      <3>0. out[n] = out[n - 1] \o parts[n] /\ parts[n] \in Seq(C)
        BY <1>0, <1>3
      <3>1. got[n] = IF n = 1 THEN parts[n] ELSE got[n - 1] \o parts[n]
        BY ONLY <2>2, n \in 1..N
      <3>2. CASE n = 1
        <4>1. out[n - 1] = << >>
          BY <1>2, <3>2
        <4>2. got[n] = out[n]
          BY ONLY <3>0, <4>1, <3>1, <3>2, ConcatEmptySeq
        <4> QED BY <1>0, <4>2
      <3>3. CASE n # 1
        <4>1. got[n - 1] = out[n - 1]
          BY <3>3, <2>5
        <4>2. got[n] = out[n]
          BY ONLY <3>0, <4>1, <3>1, <3>3
        <4> QED BY <1>0, <4>2
      <3> QED BY <3>2, <3>3
    <2>6. N \in G
      <3> HIDE DEF G
      <3>1. \A n \in 1..N : n - 1 \in G => n \in G
        BY <2>5
      <3>2. \A n \in 0..N : n \in G
        BY ONLY <1>0, <2>4, <3>1, Induct
      <3> QED BY <1>0, <3>2
    <2>7. FlattenSeq(parts) = out[N]
      BY <1>5, <2>3, <2>6
    <2> QED BY <1>2, <1>3, <2>7
  <1> QED BY <1>4, <1>5

\* Max of a set of places is its greatest.
LEMMA MaxIs ==
    ASSUME NEW N \in Nat, NEW S \in SUBSET (1..N), S # {}
    PROVE  Max(S) \in S /\ \A y \in S : y <= Max(S)
  <1> DEFINE B == {N - y : y \in S}
  <1>1. B \in SUBSET Nat /\ B # {}
    <2>1. \A y \in S : N - y \in Nat
      OBVIOUS
    <2> QED BY <2>1
  <1>2. PICK k \in B : \A j \in B : k <= j
    <2> HIDE DEF B
    <2> QED BY <1>1, Least
  <1>3. PICK x \in S : k = N - x
    BY <1>2
  <1>4. ASSUME NEW y \in S PROVE x >= y
    <2>1. N - y \in B
      OBVIOUS
    <2>2. N - x <= N - y
      BY <1>2, <1>3, <2>1
    <2>3. x \in 1..N /\ y \in 1..N
      OBVIOUS
    <2> QED BY ONLY <2>2, <2>3, N \in Nat
  <1>5. \E m \in S : \A y \in S : m >= y
    BY <1>4
  <1>6. Max(S) \in S /\ \A y \in S : Max(S) >= y
    BY ONLY <1>5, Zenon DEF Max
  <1>7. Max(S) \in 1..N /\ \A y \in S : y \in 1..N
    BY <1>6
  <1> QED BY <1>6, <1>7

\* The functions on sets of places that fold a step from the greatest down,
\* as FoldLeft of the community modules does on the places of a sequence.
FoldsOf(step, base, N, T) ==
    {g \in [SUBSET (1..N) -> T] :
        \A s \in SUBSET (1..N) :
            g[s] = IF s = {} THEN base ELSE step[Max(s)][g[s \ {Max(s)}]]}

\* There is such a function, so that the CHOOSE behind FoldLeft names one.
LEMMA Foldable ==
    ASSUME NEW T, NEW base \in T, NEW N \in Nat, NEW step \in [1..N -> [T -> T]]
    PROVE  FoldsOf(step, base, N, T) # {}
  <1> DEFINE G == {k \in 0..N : FoldsOf(step, base, k, T) # {}}
  <1>1. 0 \in G
    <2> DEFINE g == [s \in SUBSET (1..0) |-> base]
    <2>1. 1..0 = {}
      OBVIOUS
    <2>2. g \in [SUBSET (1..0) -> T] /\ \A s \in SUBSET (1..0) : s = {} /\ g[s] = base
      BY <2>1
    <2>3. g \in FoldsOf(step, base, 0, T)
      <3> HIDE DEF g
      <3> QED BY <2>2, Zenon DEF FoldsOf
    <2> QED BY <2>3
  <1>2. ASSUME NEW n \in 1..N, n - 1 \in G PROVE n \in G
    <2>1. PICK g : g \in FoldsOf(step, base, n - 1, T)
      BY <1>2
    <2>2. /\ g \in [SUBSET (1..(n - 1)) -> T]
          /\ \A s \in SUBSET (1..(n - 1)) :
                g[s] = IF s = {} THEN base ELSE step[Max(s)][g[s \ {Max(s)}]]
      BY <2>1, Zenon DEF FoldsOf
    <2>a. n \in Nat /\ n - 1 \in Nat
      OBVIOUS
    <2> DEFINE more == [s \in SUBSET (1..n) |->
                          IF n \in s THEN step[n][g[s \ {n}]] ELSE g[s]]
    <2>3. ASSUME NEW s \in SUBSET (1..n)
          PROVE  /\ s \ {n} \in SUBSET (1..(n - 1))
                 /\ n \notin s => s \in SUBSET (1..(n - 1))
                 /\ n \in s => Max(s) = n
      <3>1. \A y \in 1..n : y # n => y \in 1..(n - 1)
        OBVIOUS
      <3>2. ASSUME n \in s PROVE Max(s) = n
        <4>1. Max(s) \in s /\ n <= Max(s)
          BY <2>a, <3>2, MaxIs
        <4>2. Max(s) \in 1..n
          BY <4>1
        <4> QED BY ONLY <4>1, <4>2, <2>a
      <3> QED BY <3>1, <3>2
    <2>4. more \in [SUBSET (1..n) -> T]
      <3>1. ASSUME NEW s \in SUBSET (1..n) PROVE more[s] \in T
        <4>1. CASE n \in s
          <5>1. g[s \ {n}] \in T /\ step[n] \in [T -> T]
            BY <2>2, <2>3
          <5>2. more[s] = step[n][g[s \ {n}]]
            BY <4>1
          <5> HIDE DEF more
          <5> QED BY ONLY <5>1, <5>2
        <4>2. CASE n \notin s
          BY <4>2, <2>2, <2>3
        <4> QED BY <4>1, <4>2
      <3> QED BY <3>1
    <2>5. ASSUME NEW s \in SUBSET (1..n)
          PROVE  more[s] = IF s = {} THEN base ELSE step[Max(s)][more[s \ {Max(s)}]]
      <3>1. CASE n \in s
        <4>1. s \ {n} \in SUBSET (1..n) /\ n \notin s \ {n} /\ s # {}
          BY <3>1
        <4>2. more[s \ {n}] = g[s \ {n}]
          BY <4>1
        <4>3. more[s] = step[n][g[s \ {n}]] /\ Max(s) = n
          BY <3>1, <2>3
        <4> HIDE DEF more
        <4> QED BY ONLY <4>1, <4>2, <4>3
      <3>2. CASE n \notin s
        <4>1. s \in SUBSET (1..(n - 1)) /\ more[s] = g[s]
          BY <2>3, <3>2
        <4>2. s \ {Max(s)} \in SUBSET (1..n) /\ n \notin s \ {Max(s)}
          BY <3>2
        <4>3. more[s \ {Max(s)}] = g[s \ {Max(s)}]
          BY <4>2
        <4> HIDE DEF more
        <4> QED BY ONLY <2>2, <4>1, <4>3
      <3> QED BY <3>1, <3>2
    <2>6. more \in FoldsOf(step, base, n, T)
      <3> HIDE DEF more
      <3> QED BY <2>4, <2>5, Zenon DEF FoldsOf
    <2> QED BY <2>6
  <1>3. N \in G
    <2> HIDE DEF G
    <2>1. \A n \in 1..N : n - 1 \in G => n \in G
      BY <1>2
    <2>2. \A n \in 0..N : n \in G
      BY ONLY N \in Nat, <1>1, <2>1, Induct
    <2> QED BY <2>2
  <1> QED BY <1>3

\* A fold along the prefixes 1..n is a run of its steps.
LEMMA FoldedRun ==
    ASSUME NEW T, NEW base \in T, NEW N \in Nat, NEW step \in [1..N -> [T -> T]],
           NEW got, got[{}] = base,
           \A n \in 1..N : got[1..(n - 1)] \in T => got[1..n] = step[n][got[1..(n - 1)]]
    PROVE  [n \in 0..N |-> got[1..n]] \in RunsOf(step, base, N, T)
  <1> DEFINE G == {n \in 0..N : got[1..n] \in T}
             st == [n \in 0..N |-> got[1..n]]
  <1>0. got[1..0] = base
    <2>1. 1..0 = {}
      OBVIOUS
    <2> QED BY <2>1
  <1>1. 0 \in G
    BY <1>0
  <1>2. ASSUME NEW n \in 1..N, n - 1 \in G PROVE n \in G
    <2>1. got[1..(n - 1)] \in T /\ n \in 0..N
      BY <1>2
    <2>2. got[1..n] = step[n][got[1..(n - 1)]]
      BY <2>1
    <2>3. got[1..n] \in T
      BY ONLY <2>1, <2>2, n \in 1..N, step \in [1..N -> [T -> T]]
    <2> QED BY <2>1, <2>3
  <1>3. \A n \in 0..N : n \in G
    <2> HIDE DEF G
    <2>1. \A n \in 1..N : n - 1 \in G => n \in G
      BY <1>2
    <2> QED BY ONLY N \in Nat, <1>1, <2>1, Induct
  <1>4. st \in [0..N -> T]
    BY <1>3
  <1>5. st[0] = base
    BY <1>0
  <1>6. ASSUME NEW n \in 1..N PROVE st[n] = step[n][st[n - 1]]
    <2>1. n - 1 \in 0..N /\ n \in 0..N
      OBVIOUS
    <2>2. got[1..(n - 1)] \in T
      BY <1>3, <2>1
    <2>3. st[n] = got[1..n] /\ st[n - 1] = got[1..(n - 1)]
      BY <2>1
    <2> QED BY <2>2, <2>3
  <1> HIDE DEF st
  <1>7. st \in RunsOf(step, base, N, T)
    BY <1>4, <1>5, <1>6, Zenon DEF RunsOf
  <1> QED BY <1>7 DEF st

\* The greatest place of a prefix, and the prefix before it.
LEMMA MaxOfPrefix ==
    ASSUME NEW N \in Nat, NEW n \in 1..N
    PROVE  /\ Max(1..n) = n /\ (1..n) \ {Max(1..n)} = 1..(n - 1)
           /\ 1..n # {} /\ 1..n \in SUBSET (1..N)
  <1>1. 1..n # {} /\ 1..n \in SUBSET (1..n) /\ n \in Nat /\ n \in 1..n
    OBVIOUS
  <1>2. Max(1..n) \in 1..n /\ n <= Max(1..n)
    BY ONLY <1>1, MaxIs
  <1>3. Max(1..n) = n
    BY ONLY <1>1, <1>2
  <1>4. (1..n) \ {n} = 1..(n - 1)
    BY ONLY <1>1
  <1>5. 1..n \in SUBSET (1..N)
    OBVIOUS
  <1> QED BY <1>1, <1>3, <1>4, <1>5

-----------------------------------------------------------------------------
(* Characters, and what the loops hold between two of them.                *)

\* Every character of a text, of its escaped form and of a line.
Plain == {"\\", "\n", "\r", "\t", "BS", "ESC", "hi", ":", "w", "m", "u", "b", "n",
          "r", "t", "0", "1", "8", "9", "a", "d", "7", "other"}
Chars == Plain \cup {Quote, Comma, LeftBrace, RightBrace}

\* What the loop of field holds between two characters.
Readers == [mode : {"text", "end", "escape", "hex"}, out : Seq(Chars), digits : Seq(Chars)]

\* The characters of the layout are nobody else's.
LEMMA Marks ==
    /\ Quote \notin Plain /\ Comma \notin Plain
    /\ LeftBrace \notin Plain /\ RightBrace \notin Plain
    /\ Quote # Comma /\ Quote # LeftBrace /\ Quote # RightBrace
    /\ Comma # LeftBrace /\ Comma # RightBrace /\ LeftBrace # RightBrace
  BY Zenon DEF Plain, Quote, Comma, LeftBrace, RightBrace

\* A turn of either loop leaves such a state.
LEMMA ReaderType ==
    ASSUME NEW s \in Readers, NEW c \in Chars
    PROVE  Step(s, c) \in Readers /\ JsonStep(s, c) \in Readers
  <1>1. /\ s.mode \in {"text", "end", "escape", "hex"} /\ s.out \in Seq(Chars)
        /\ s.digits \in Seq(Chars)
    BY DEF Readers
  <1>2. ASSUME NEW d PROVE FromHex(d) \in Chars
    BY DEF FromHex, Controls, Chars, Plain
  <1>3. \A d \in Chars, q \in Seq(Chars) : Append(q, d) \in Seq(Chars)
    OBVIOUS
  <1>4. ASSUME NEW m \in {"text", "end", "escape", "hex"} PROVE [s EXCEPT !.mode = m] \in Readers
    BY DEF Readers
  <1>5. ASSUME NEW m \in {"text", "end", "escape", "hex"}, NEW q \in Seq(Chars)
        PROVE  [s EXCEPT !.mode = m, !.out = q] \in Readers
    BY DEF Readers
  <1>6. ASSUME NEW m \in {"text", "end", "escape", "hex"}, NEW q \in Seq(Chars)
        PROVE  [s EXCEPT !.mode = m, !.digits = q] \in Readers
    BY DEF Readers
  <1>7. ASSUME NEW q \in Seq(Chars)
        PROVE  [s EXCEPT !.out = q] \in Readers /\ [s EXCEPT !.digits = q] \in Readers
    BY DEF Readers
  <1>8. Step(s, c) \in Readers
    <2>1. CASE s.mode = "end"
      BY <2>1 DEF Step
    <2>2. CASE s.mode = "text"
      BY <1>1, <1>3, <1>4, <1>7, <2>2 DEF Step
    <2>3. CASE s.mode = "escape"
      <3>1. (CASE c = "n" -> "\n" [] c = "t" -> "\t" [] c = "r" -> "\r" [] OTHER -> c) \in Chars
        BY DEF Chars, Plain
      <3>2. << >> \in Seq(Chars)
        BY EmptySeq
      <3> QED BY <1>1, <1>3, <1>5, <1>6, <2>3, <3>1, <3>2 DEF Step
    <2>4. CASE s.mode = "hex"
      <3>1. FromHex(Append(s.digits, c)) \in Chars
        BY <1>2
      <3> QED BY <1>1, <1>3, <1>5, <1>7, <2>4, <3>1 DEF Step
    <2> QED BY <1>1, <2>1, <2>2, <2>3, <2>4
  <1>9. JsonStep(s, c) \in Readers
    <2>1. "BS" \in Chars
      BY DEF Chars, Plain
    <2>2. [s EXCEPT !.mode = "text", !.out = Append(@, "BS")] \in Readers
      BY <1>1, <1>3, <1>5, <2>1
    <2> QED BY <1>8, <2>2 DEF JsonStep
  <1> QED BY <1>8, <1>9

\* The turns of the loop over a text.
Turns(read, text) == [n \in 1..Len(text) |-> [r \in Readers |-> read[r][text[n]]]]
\* The states that a loop goes through over the characters of q, from r on.
Readings(read, r, q) ==
    {w \in [0..Len(q) -> Readers] :
        w[0] = r /\ \A n \in 1..Len(q) : w[n] = read[w[n - 1]][q[n]]}

\* The loop of field, as a function.
Reads == [r \in Readers |-> [c \in Chars |-> Step(r, c)]]

\* The fold that models the loop of field ends where a reading of the text
\* ends, one character at a time.
LEMMA StepFolds ==
    ASSUME NEW text \in Seq(Chars)
    PROVE  \E st \in Readings(Reads, Blank, text) :
             FoldLeft(Step, Blank, text) = st[Len(text)]
  <1> DEFINE N == Len(text)
             F(g) == [s \in SUBSET DOMAIN text |->
                        IF s = {} THEN Blank ELSE Step(g[s \ {Max(s)}], text[Max(s)])]
             got == CHOOSE g : g = F(g)
  <1>1. N \in Nat /\ DOMAIN text = 1..N /\ (\A n \in 1..N : text[n] \in Chars)
    BY LenProperties, ElementOfSeq
  <1>2. Blank \in Readers
    BY EmptySeq DEF Blank, Readers
  <1>3. Turns(Reads, text) \in [1..N -> [Readers -> Readers]]
    BY <1>1, ReaderType DEF Turns, Reads
  <1>4. \E g : g = F(g)
    <2>1. PICK g : g \in FoldsOf(Turns(Reads, text), Blank, N, Readers)
      <3> HIDE DEF N
      <3> QED BY <1>1, <1>2, <1>3, Foldable
    <2>2. /\ g \in [SUBSET (1..N) -> Readers]
          /\ \A s \in SUBSET (1..N) :
               g[s] = IF s = {} THEN Blank ELSE Turns(Reads, text)[Max(s)][g[s \ {Max(s)}]]
      BY <2>1, Zenon DEF FoldsOf
    <2>3. ASSUME NEW s \in SUBSET (1..N)
          PROVE  g[s] = IF s = {} THEN Blank ELSE Step(g[s \ {Max(s)}], text[Max(s)])
      <3>1. CASE s = {}
        BY <2>2, <3>1
      <3>2. CASE s # {}
        <4>1. Max(s) \in 1..N
          BY <1>1, <3>2, MaxIs
        <4>2. g[s \ {Max(s)}] \in Readers
          BY <2>2
        <4>3. g[s] = Turns(Reads, text)[Max(s)][g[s \ {Max(s)}]]
          BY <2>2, <3>2
        <4>4. Turns(Reads, text)[Max(s)][g[s \ {Max(s)}]] = Step(g[s \ {Max(s)}], text[Max(s)])
          BY ONLY <1>1, <4>1, <4>2 DEF Turns, Reads
        <4> QED BY ONLY <3>2, <4>3, <4>4
      <3> QED BY <3>1, <3>2
    <2>4. g = F(g)
      <3> HIDE DEF N
      <3> QED BY ONLY <1>1, <2>2, <2>3
    <2> QED BY <2>4
  <1>5. got = F(got)
    <2> HIDE DEF F
    <2> QED BY <1>4
  <1>6. FoldLeft(Step, Blank, text) = got[DOMAIN text]
    BY DEF FoldLeft, MapThenFoldSet
  <1> HIDE DEF got
  <1>7. got[{}] = Blank
    BY <1>5
  <1>8. ASSUME NEW n \in 1..N, got[1..(n - 1)] \in Readers
        PROVE  got[1..n] = Turns(Reads, text)[n][got[1..(n - 1)]]
    <2>1. /\ Max(1..n) = n /\ (1..n) \ {Max(1..n)} = 1..(n - 1)
          /\ 1..n # {} /\ 1..n \in SUBSET DOMAIN text
      BY <1>1, MaxOfPrefix
    <2>2. got[1..n] = Step(got[(1..n) \ {Max(1..n)}], text[Max(1..n)])
      BY <1>5, <2>1
    <2>3. got[1..n] = Step(got[1..(n - 1)], text[n])
      BY ONLY <2>1, <2>2
    <2>4. Turns(Reads, text)[n][got[1..(n - 1)]] = Step(got[1..(n - 1)], text[n])
      BY <1>1, <1>8 DEF Turns, Reads
    <2> QED BY <2>3, <2>4
  <1> DEFINE st == [n \in 0..N |-> got[1..n]]
  <1>9. st \in RunsOf(Turns(Reads, text), Blank, N, Readers)
    <2> HIDE DEF N
    <2> QED BY <1>1, <1>2, <1>3, <1>7, <1>8, FoldedRun
  <1>10. FoldLeft(Step, Blank, text) = st[N]
    <2>1. N \in 0..N
      BY <1>1
    <2> QED BY <1>1, <1>6, <2>1
  <1>11. st \in Readings(Reads, Blank, text)
    <2> HIDE DEF st, N
    <2>1. /\ st \in [0..N -> Readers] /\ st[0] = Blank
          /\ \A n \in 1..N : st[n] = Turns(Reads, text)[n][st[n - 1]]
      BY <1>9, Zenon DEF RunsOf
    <2>2. ASSUME NEW n \in 1..N PROVE st[n] = Reads[st[n - 1]][text[n]]
      <3>1. n - 1 \in 0..N
        BY <1>1
      <3>2. st[n - 1] \in Readers
        BY <2>1, <3>1
      <3> QED BY <2>1, <3>2 DEF Turns, N
    <2> QED BY <2>1, <2>2 DEF Readings, N
  <1> HIDE DEF st
  <1> QED BY <1>10, <1>11

\* The loop of d2x, as a function.
JsonReads == [r \in Readers |-> [c \in Chars |-> JsonStep(r, c)]]

\* The same for the loop of d2x.
LEMMA JsonStepFolds ==
    ASSUME NEW text \in Seq(Chars)
    PROVE  \E st \in Readings(JsonReads, Blank, text) :
             FoldLeft(JsonStep, Blank, text) = st[Len(text)]
  <1> DEFINE N == Len(text)
             F(g) == [s \in SUBSET DOMAIN text |->
                        IF s = {} THEN Blank ELSE JsonStep(g[s \ {Max(s)}], text[Max(s)])]
             got == CHOOSE g : g = F(g)
  <1>1. N \in Nat /\ DOMAIN text = 1..N /\ (\A n \in 1..N : text[n] \in Chars)
    BY LenProperties, ElementOfSeq
  <1>2. Blank \in Readers
    BY EmptySeq DEF Blank, Readers
  <1>3. Turns(JsonReads, text) \in [1..N -> [Readers -> Readers]]
    BY <1>1, ReaderType DEF Turns, JsonReads
  <1>4. \E g : g = F(g)
    <2>1. PICK g : g \in FoldsOf(Turns(JsonReads, text), Blank, N, Readers)
      <3> HIDE DEF N
      <3> QED BY <1>1, <1>2, <1>3, Foldable
    <2>2. /\ g \in [SUBSET (1..N) -> Readers]
          /\ \A s \in SUBSET (1..N) :
               g[s] = IF s = {} THEN Blank ELSE Turns(JsonReads, text)[Max(s)][g[s \ {Max(s)}]]
      BY <2>1, Zenon DEF FoldsOf
    <2>3. ASSUME NEW s \in SUBSET (1..N)
          PROVE  g[s] = IF s = {} THEN Blank ELSE JsonStep(g[s \ {Max(s)}], text[Max(s)])
      <3>1. CASE s = {}
        BY <2>2, <3>1
      <3>2. CASE s # {}
        <4>1. Max(s) \in 1..N
          BY <1>1, <3>2, MaxIs
        <4>2. g[s \ {Max(s)}] \in Readers
          BY <2>2
        <4>3. g[s] = Turns(JsonReads, text)[Max(s)][g[s \ {Max(s)}]]
          BY <2>2, <3>2
        <4>4. Turns(JsonReads, text)[Max(s)][g[s \ {Max(s)}]]
                = JsonStep(g[s \ {Max(s)}], text[Max(s)])
          BY ONLY <1>1, <4>1, <4>2 DEF Turns, JsonReads
        <4> QED BY ONLY <3>2, <4>3, <4>4
      <3> QED BY <3>1, <3>2
    <2>4. g = F(g)
      <3> HIDE DEF N
      <3> QED BY ONLY <1>1, <2>2, <2>3
    <2> QED BY <2>4
  <1>5. got = F(got)
    <2> HIDE DEF F
    <2> QED BY <1>4
  <1>6. FoldLeft(JsonStep, Blank, text) = got[DOMAIN text]
    BY DEF FoldLeft, MapThenFoldSet
  <1> HIDE DEF got
  <1>7. got[{}] = Blank
    BY <1>5
  <1>8. ASSUME NEW n \in 1..N, got[1..(n - 1)] \in Readers
        PROVE  got[1..n] = Turns(JsonReads, text)[n][got[1..(n - 1)]]
    <2>1. /\ Max(1..n) = n /\ (1..n) \ {Max(1..n)} = 1..(n - 1)
          /\ 1..n # {} /\ 1..n \in SUBSET DOMAIN text
      BY <1>1, MaxOfPrefix
    <2>2. got[1..n] = JsonStep(got[(1..n) \ {Max(1..n)}], text[Max(1..n)])
      BY <1>5, <2>1
    <2>3. got[1..n] = JsonStep(got[1..(n - 1)], text[n])
      BY ONLY <2>1, <2>2
    <2>4. Turns(JsonReads, text)[n][got[1..(n - 1)]] = JsonStep(got[1..(n - 1)], text[n])
      BY <1>1, <1>8 DEF Turns, JsonReads
    <2> QED BY <2>3, <2>4
  <1> DEFINE st == [n \in 0..N |-> got[1..n]]
  <1>9. st \in RunsOf(Turns(JsonReads, text), Blank, N, Readers)
    <2> HIDE DEF N
    <2> QED BY <1>1, <1>2, <1>3, <1>7, <1>8, FoldedRun
  <1>10. FoldLeft(JsonStep, Blank, text) = st[N]
    <2>1. N \in 0..N
      BY <1>1
    <2> QED BY <1>1, <1>6, <2>1
  <1>11. st \in Readings(JsonReads, Blank, text)
    <2> HIDE DEF st, N
    <2>1. /\ st \in [0..N -> Readers] /\ st[0] = Blank
          /\ \A n \in 1..N : st[n] = Turns(JsonReads, text)[n][st[n - 1]]
      BY <1>9, Zenon DEF RunsOf
    <2>2. ASSUME NEW n \in 1..N PROVE st[n] = JsonReads[st[n - 1]][text[n]]
      <3>1. n - 1 \in 0..N
        BY <1>1
      <3>2. st[n - 1] \in Readers
        BY <2>1, <3>1
      <3> QED BY <2>1, <3>2 DEF Turns, N
    <2> QED BY <2>1, <2>2 DEF Readings, N
  <1> HIDE DEF st
  <1> QED BY <1>10, <1>11

-----------------------------------------------------------------------------
(* Writing: the switches, character by character, and the whole text.      *)

\* How a text is spelt: each character appended as its code, in order.
Spellings(enc, s) ==
    {out \in [0..Len(s) -> Seq(Chars)] :
        out[0] = << >> /\ \A n \in 1..Len(s) : out[n] = out[n - 1] \o enc[s[n]]}

\* The two switches, as functions: of the library, and of the Provider.
Codes == [c \in Alphabet |-> Escaped(c)]
EventCodes == [c \in Alphabet |-> EscapedEvent(c)]

\* The characters that a text may hold.
LEMMA AlphabetIs ==
    ASSUME NEW c \in Alphabet
    PROVE  c \in {Quote, "\\", "\n", "\r", "\t", "BS", "ESC", "hi", ":", "w", "m", "u", "b", "n"}
  BY CodecAssumption

\* A code of a backslash and one letter; of the character itself; of a
\* backslash, u and four digits.
Short(q, d) == q \in Seq(Chars) /\ Len(q) = 2 /\ q[1] = "\\" /\ q[2] = d
Bare(q, d)  == q \in Seq(Chars) /\ Len(q) = 1 /\ q[1] = d
Long(q, d, e) ==
    /\ q \in Seq(Chars) /\ Len(q) = 6
    /\ q[1] = "\\" /\ q[2] = "u" /\ q[3] = "0" /\ q[4] = "0" /\ q[5] = d /\ q[6] = e

\* What the two switches write for a character.
LEMMA EscapedIs ==
    ASSUME NEW c \in Alphabet
    PROVE  /\ c \in {Quote, "\\"} => Short(Escaped(c), c)
           /\ c = "\n" => Short(Escaped(c), "n")
           /\ c = "\r" => Short(Escaped(c), "r")
           /\ c = "\t" => Short(Escaped(c), "t")
           /\ c = "BS" => Long(Escaped(c), "0", "8")
           /\ c = "ESC" => Long(Escaped(c), "1", "b")
           /\ c \in {"hi", ":", "w", "m", "u", "b", "n"} => Bare(Escaped(c), c)
  <1>0. /\ c \in Chars /\ "\\" \in Chars /\ "n" \in Chars /\ "r" \in Chars /\ "t" \in Chars
        /\ "u" \in Chars /\ "0" \in Chars /\ "1" \in Chars /\ "8" \in Chars /\ "b" \in Chars
    BY AlphabetIs DEF Chars, Plain
  <1>a. ASSUME NEW d \in Chars PROVE Short(<<"\\", d>>, d) /\ Bare(<<d>>, d)
    BY <1>0 DEF Short, Bare
  <1>b. ASSUME NEW d \in Chars, NEW e \in Chars
        PROVE  Long(<<"\\", "u">> \o <<"0", "0", d, e>>, d, e)
    <2> DEFINE q == <<"\\", "u">>
               h == <<"0", "0", d, e>>
    <2>1. /\ q \in Seq(Chars) /\ Len(q) = 2 /\ q[1] = "\\" /\ q[2] = "u"
          /\ h \in Seq(Chars) /\ Len(h) = 4 /\ h[1] = "0" /\ h[2] = "0" /\ h[3] = d /\ h[4] = e
      BY <1>0
    <2> HIDE DEF q, h
    <2>2. /\ q \o h \in Seq(Chars)
          /\ Len(q \o h) = Len(q) + Len(h)
          /\ \A i \in 1..Len(q) + Len(h) :
               (q \o h)[i] = IF i <= Len(q) THEN q[i] ELSE h[i - Len(q)]
      BY ONLY <2>1, ConcatProperties
    <2>3. /\ (q \o h)[1] = q[1] /\ (q \o h)[2] = q[2] /\ (q \o h)[3] = h[1]
          /\ (q \o h)[4] = h[2] /\ (q \o h)[5] = h[3] /\ (q \o h)[6] = h[4]
      BY ONLY <2>1, <2>2
    <2>4. Long(q \o h, d, e)
      BY ONLY <2>1, <2>2, <2>3 DEF Long
    <2> QED BY <2>4 DEF q, h
  <1>m. Quote \notin {"\\", "\n", "\r", "\t", "BS", "ESC", "hi", ":", "w", "m", "u", "b", "n"}
    BY Marks DEF Plain
  <1>1. ASSUME c \in {Quote, "\\"} PROVE Escaped(c) = <<"\\", c>>
    BY <1>m, <1>1 DEF Escaped, Controls
  <1>2. ASSUME c = "\n" PROVE Escaped(c) = <<"\\", "n">>
    BY <1>2 DEF Escaped, Controls
  <1>3. ASSUME c = "\r" PROVE Escaped(c) = <<"\\", "r">>
    BY <1>3 DEF Escaped, Controls
  <1>4. ASSUME c = "\t" PROVE Escaped(c) = <<"\\", "t">>
    BY <1>4 DEF Escaped, Controls
  <1>5. ASSUME c = "BS" PROVE Escaped(c) = <<"\\", "u">> \o <<"0", "0", "0", "8">>
    BY <1>5 DEF Escaped, Controls, Hex
  <1>6. ASSUME c = "ESC" PROVE Escaped(c) = <<"\\", "u">> \o <<"0", "0", "1", "b">>
    BY <1>6 DEF Escaped, Controls, Hex
  <1>7. ASSUME c \in {"hi", ":", "w", "m", "u", "b", "n"} PROVE Escaped(c) = <<c>>
    BY <1>m, <1>7 DEF Escaped, Controls
  <1>8. c \in {Quote, "\\"} => Short(Escaped(c), c)
    BY <1>0, <1>a, <1>1
  <1>9. c = "\n" => Short(Escaped(c), "n")
    BY <1>0, <1>a, <1>2
  <1>10. c = "\r" => Short(Escaped(c), "r")
    BY <1>0, <1>a, <1>3
  <1>11. c = "\t" => Short(Escaped(c), "t")
    BY <1>0, <1>a, <1>4
  <1>12. c = "BS" => Long(Escaped(c), "0", "8")
    BY <1>0, <1>b, <1>5
  <1>13. c = "ESC" => Long(Escaped(c), "1", "b")
    BY <1>0, <1>b, <1>6
  <1>14. c \in {"hi", ":", "w", "m", "u", "b", "n"} => Bare(Escaped(c), c)
    BY <1>0, <1>a, <1>7
  <1> QED BY <1>8, <1>9, <1>10, <1>11, <1>12, <1>13, <1>14

\* The Provider writes one control character otherwise.
LEMMA EscapedEventIs ==
    ASSUME NEW c \in Alphabet
    PROVE  /\ c = "BS" => Short(EscapedEvent(c), "b")
           /\ c # "BS" => EscapedEvent(c) = Escaped(c)
  <1>1. ASSUME c = "BS" PROVE Short(EscapedEvent(c), "b")
    <2>1. EscapedEvent(c) = <<"\\", "b">> /\ "\\" \in Chars /\ "b" \in Chars
      BY <1>1 DEF EscapedEvent, Chars, Plain
    <2> QED BY <2>1 DEF Short
  <1> QED BY <1>1 DEF EscapedEvent

\* No line break, and no quote that does not follow a backslash.
Clean == {q \in Seq(Chars) : \A i \in 1..Len(q) :
             /\ q[i] # "\n"
             /\ q[i] = Quote => (i > 1 /\ q[i - 1] = "\\")}

\* Every code is clean.
LEMMA CodesType ==
    /\ Codes \in [Alphabet -> Clean]
    /\ EventCodes \in [Alphabet -> Clean]
  <1>m. Quote \notin {"\\", "\n", "u", "0", "hi", ":", "w", "m", "u", "b", "n", "1", "8"}
    BY Marks DEF Plain
  <1>1. ASSUME NEW q, NEW d, d # "\n", Short(q, d) PROVE q \in Clean
    <2>1. q \in Seq(Chars) /\ Len(q) = 2 /\ q[1] = "\\" /\ q[2] = d
      BY <1>1 DEF Short
    <2>2. ASSUME NEW i \in 1..Len(q)
          PROVE  q[i] # "\n" /\ (q[i] = Quote => (i > 1 /\ q[i - 1] = "\\"))
      <3>1. i = 1 \/ i = 2
        BY <2>1
      <3>2. CASE i = 1
        BY <1>m, <2>1, <3>2
      <3>3. CASE i = 2
        <4>1. i - 1 = 1 /\ i > 1
          BY <3>3
        <4>2. q[i] = d /\ q[i - 1] = "\\"
          BY <2>1, <3>3, <4>1
        <4> QED BY <1>1, <4>1, <4>2
      <3> QED BY <3>1, <3>2, <3>3
    <2> QED BY <2>1, <2>2 DEF Clean
  <1>2. ASSUME NEW q, NEW d, d \notin {"\n", Quote}, Bare(q, d) PROVE q \in Clean
    <2>1. q \in Seq(Chars) /\ Len(q) = 1 /\ q[1] = d
      BY <1>2 DEF Bare
    <2>2. ASSUME NEW i \in 1..Len(q)
          PROVE  q[i] # "\n" /\ (q[i] = Quote => (i > 1 /\ q[i - 1] = "\\"))
      <3>1. i = 1
        BY <2>1
      <3> QED BY <1>2, <2>1, <3>1
    <2> QED BY <2>1, <2>2 DEF Clean
  <1>3. ASSUME NEW q, NEW d, NEW e, {d, e} \cap {"\n", Quote} = {}, Long(q, d, e) PROVE q \in Clean
    <2>1. /\ q \in Seq(Chars) /\ Len(q) = 6
          /\ q[1] = "\\" /\ q[2] = "u" /\ q[3] = "0" /\ q[4] = "0" /\ q[5] = d /\ q[6] = e
      BY <1>3 DEF Long
    <2>2. ASSUME NEW i \in 1..Len(q)
          PROVE  q[i] # "\n" /\ (q[i] = Quote => (i > 1 /\ q[i - 1] = "\\"))
      <3>1. i = 1 \/ i = 2 \/ i = 3 \/ i = 4 \/ i = 5 \/ i = 6
        BY <2>1
      <3>2. d \notin {"\n", Quote} /\ e \notin {"\n", Quote}
        BY <1>3
      <3>3. q[i] \notin {"\n", Quote}
        BY <1>m, <2>1, <3>1, <3>2
      <3> QED BY <3>3
    <2> QED BY <2>1, <2>2 DEF Clean
  <1>4. ASSUME NEW c \in Alphabet PROVE Escaped(c) \in Clean
    <2>1. CASE c \in {Quote, "\\"}
      BY <1>1, <2>1, EscapedIs
    <2>2. CASE c \in {"\n", "\r", "\t"}
      <3>1. PICK d \in {"n", "r", "t"} : Short(Escaped(c), d)
        BY <2>2, EscapedIs
      <3>2. d # "\n"
        OBVIOUS
      <3> QED BY <1>1, <3>1, <3>2
    <2>3. CASE c \in {"BS", "ESC"}
      <3>1. PICK d \in {"0", "1"}, e \in {"8", "b"} : Long(Escaped(c), d, e)
        BY <2>3, EscapedIs
      <3>2. {d, e} \cap {"\n", Quote} = {}
        BY <1>m
      <3> QED BY <1>m, <1>3, <3>1, <3>2
    <2>4. CASE c \in {"hi", ":", "w", "m", "u", "b", "n"}
      BY <1>m, <1>2, <2>4, EscapedIs
    <2> QED BY <2>1, <2>2, <2>3, <2>4, AlphabetIs
  <1>5. ASSUME NEW c \in Alphabet PROVE EscapedEvent(c) \in Clean
    <2>1. CASE c = "BS"
      <3>1. "b" # "\n" /\ Short(EscapedEvent(c), "b")
        BY <2>1, EscapedEventIs
      <3> QED BY <3>1, <1>1
    <2> QED BY <1>4, <2>1, EscapedEventIs
  <1> QED BY <1>4, <1>5 DEF Codes, EventCodes

\* A clean sequence after a clean sequence is clean.
LEMMA CleanConcat ==
    ASSUME NEW q \in Clean, NEW p \in Clean
    PROVE  q \o p \in Clean
  <1>1. q \in Seq(Chars) /\ p \in Seq(Chars) /\ Len(q) \in Nat /\ Len(p) \in Nat
    BY LenProperties DEF Clean
  <1>2. /\ q \o p \in Seq(Chars)
        /\ Len(q \o p) = Len(q) + Len(p)
        /\ \A i \in 1..Len(q) + Len(p) :
             (q \o p)[i] = IF i <= Len(q) THEN q[i] ELSE p[i - Len(q)]
    BY ONLY <1>1, ConcatProperties
  <1>3. ASSUME NEW i \in 1..Len(q) + Len(p)
        PROVE  /\ (q \o p)[i] # "\n"
               /\ (q \o p)[i] = Quote => (i > 1 /\ (q \o p)[i - 1] = "\\")
    <2>1. CASE i <= Len(q)
      <3>1. i \in 1..Len(q) /\ (q \o p)[i] = q[i]
        BY <1>1, <1>2, <2>1
      <3>2. i > 1 => (q \o p)[i - 1] = q[i - 1]
        BY <1>1, <1>2, <2>1
      <3> QED BY <3>1, <3>2 DEF Clean
    <2>2. CASE ~(i <= Len(q))
      <3>1. i - Len(q) \in 1..Len(p) /\ (q \o p)[i] = p[i - Len(q)]
        BY <1>1, <1>2, <2>2
      <3>2. i - Len(q) > 1 => (i > 1 /\ (q \o p)[i - 1] = p[i - Len(q) - 1])
        BY <1>1, <1>2, <2>2
      <3> QED BY <3>1, <3>2 DEF Clean
    <2> QED BY <2>1, <2>2
  <1> QED BY <1>2, <1>3 DEF Clean

\* escape spells the text.
LEMMA SpellingIs ==
    ASSUME NEW enc \in [Alphabet -> Clean], NEW s \in Seq(Alphabet), NEW parts,
           parts = [i \in 1..Len(s) |-> enc[s[i]]]
    PROVE  \E out \in Spellings(enc, s) : FlattenSeq(parts) = out[Len(s)]
  <1>1. Len(s) \in Nat /\ \A i \in 1..Len(s) : s[i] \in Alphabet
    BY LenProperties, ElementOfSeq
  <1>2. \A i \in 1..Len(s) : enc[s[i]] \in Seq(Chars)
    BY <1>1 DEF Clean
  <1>3. /\ parts \in Seq(Seq(Chars)) /\ Len(parts) = Len(s)
        /\ \A i \in 1..Len(s) : parts[i] = enc[s[i]]
    BY <1>1, <1>2
  <1>4. PICK out \in [0..Len(parts) -> Seq(Chars)] :
             /\ out[0] = << >>
             /\ \A n \in 1..Len(parts) : out[n] = out[n - 1] \o parts[n]
             /\ FlattenSeq(parts) = out[Len(parts)]
    BY ONLY <1>3, FlattenIs
  <1>5. \A n \in 1..Len(s) : out[n] = out[n - 1] \o enc[s[n]]
    BY ONLY <1>3, <1>4
  <1>6. out \in Spellings(enc, s)
    BY ONLY <1>3, <1>4, <1>5 DEF Spellings
  <1> QED BY ONLY <1>3, <1>4, <1>6

\* One step of a spelling: what was spelt, and the next code.
LEMMA SpellingType ==
    ASSUME NEW enc \in [Alphabet -> Clean], NEW s \in Seq(Alphabet),
           NEW out \in Spellings(enc, s), NEW n \in 1..Len(s)
    PROVE  /\ Len(s) \in Nat /\ s[n] \in Alphabet
           /\ out[n - 1] \in Seq(Chars) /\ out[n] \in Seq(Chars) /\ enc[s[n]] \in Seq(Chars)
           /\ Len(out[n - 1]) \in Nat /\ Len(enc[s[n]]) \in Nat
           /\ Len(out[n]) = Len(out[n - 1]) + Len(enc[s[n]])
           /\ \A i \in 1..(Len(out[n - 1]) + Len(enc[s[n]])) :
                out[n][i] = IF i <= Len(out[n - 1]) THEN out[n - 1][i]
                            ELSE enc[s[n]][i - Len(out[n - 1])]
  <1>1. Len(s) \in Nat /\ s[n] \in Alphabet
    BY LenProperties, ElementOfSeq
  <1>2. out \in [0..Len(s) -> Seq(Chars)] /\ out[n] = out[n - 1] \o enc[s[n]]
    BY DEF Spellings
  <1>3. n - 1 \in 0..Len(s) /\ n \in 0..Len(s)
    BY <1>1
  <1>4. out[n - 1] \in Seq(Chars) /\ out[n] \in Seq(Chars) /\ enc[s[n]] \in Seq(Chars)
    BY <1>1, <1>2, <1>3 DEF Clean
  <1>5. Len(out[n - 1]) \in Nat /\ Len(enc[s[n]]) \in Nat
    BY ONLY <1>4, LenProperties
  <1>6. /\ Len(out[n]) = Len(out[n - 1]) + Len(enc[s[n]])
        /\ \A i \in 1..Len(out[n - 1]) + Len(enc[s[n]]) :
             out[n][i] = IF i <= Len(out[n - 1]) THEN out[n - 1][i]
                         ELSE enc[s[n]][i - Len(out[n - 1])]
    <2> DEFINE p == out[n - 1]
               q == enc[s[n]]
    <2>1. p \in Seq(Chars) /\ q \in Seq(Chars) /\ out[n] = p \o q
      BY <1>2, <1>4
    <2> HIDE DEF p, q
    <2>2. /\ Len(p \o q) = Len(p) + Len(q)
          /\ \A i \in 1..Len(p) + Len(q) :
               (p \o q)[i] = IF i <= Len(p) THEN p[i] ELSE q[i - Len(p)]
      BY ONLY <2>1, ConcatProperties
    <2> QED BY <2>1, <2>2 DEF p, q
  <1> QED BY ONLY <1>1, <1>4, <1>5, <1>6

\* A text spelt with clean codes is clean.
LEMMA SpellingClean ==
    ASSUME NEW enc \in [Alphabet -> Clean], NEW s \in Seq(Alphabet),
           NEW out \in Spellings(enc, s)
    PROVE  out[Len(s)] \in Clean
  <1> DEFINE N == Len(s)
             G == {n \in 0..N : out[n] \in Clean}
  <1>0. N \in Nat
    BY LenProperties
  <1>1. 0 \in G
    <2>1. << >> \in Seq(Chars) /\ 1..Len(<< >>) = {}
      BY EmptySeq
    <2>2. << >> \in Clean
      BY <2>1 DEF Clean
    <2> QED BY <1>0, <2>2 DEF Spellings
  <1>2. ASSUME NEW n \in 1..N, n - 1 \in G PROVE n \in G
    <2>1. out[n - 1] \in Clean /\ enc[s[n]] \in Clean
      BY <1>2, SpellingType
    <2>2. out[n] = out[n - 1] \o enc[s[n]]
      BY DEF Spellings
    <2>3. out[n] \in Clean
      BY ONLY <2>1, <2>2, CleanConcat
    <2> QED BY <1>0, <2>3
  <1> HIDE DEF G
  <1>3. \A n \in 1..N : n - 1 \in G => n \in G
    BY <1>2
  <1>4. \A n \in 0..N : n \in G
    BY ONLY <1>0, <1>1, <1>3, Induct
  <1> QED BY <1>0, <1>4 DEF G

\* What is spelt first stays first.
LEMMA SpellingPrefix ==
    ASSUME NEW enc \in [Alphabet -> Clean], NEW s \in Seq(Alphabet),
           NEW out \in Spellings(enc, s), NEW n \in 0..Len(s)
    PROVE  /\ Len(out[n]) \in Nat /\ Len(out[Len(s)]) \in Nat
           /\ Len(out[n]) <= Len(out[Len(s)])
           /\ \A i \in 1..Len(out[n]) : out[Len(s)][i] = out[n][i]
  <1> DEFINE N == Len(s)
             P(m) == m >= n => /\ Len(out[n]) <= Len(out[m])
                               /\ \A i \in 1..Len(out[n]) : out[m][i] = out[n][i]
             G == {m \in 0..N : P(m)}
  <1>0. N \in Nat /\ out \in [0..N -> Seq(Chars)]
    BY LenProperties DEF Spellings
  <1>a. \A m \in 0..N : Len(out[m]) \in Nat
    BY <1>0, LenProperties
  <1>1. 0 \in G
    BY <1>0, <1>a
  <1>2. ASSUME NEW m \in 1..N, m - 1 \in G PROVE m \in G
    <2>1. CASE n = m
      BY <1>0, <1>a, <2>1
    <2>2. CASE n > m
      BY <1>0, <2>2
    <2>3. CASE n < m
      <3>1. P(m - 1) /\ m - 1 >= n
        BY <1>0, <1>2, <2>3
      <3>2. /\ Len(out[m - 1]) \in Nat /\ Len(enc[s[m]]) \in Nat
            /\ Len(out[m]) = Len(out[m - 1]) + Len(enc[s[m]])
            /\ \A i \in 1..(Len(out[m - 1]) + Len(enc[s[m]])) :
                out[m][i] = IF i <= Len(out[m - 1]) THEN out[m - 1][i]
                            ELSE enc[s[m]][i - Len(out[m - 1])]
        BY SpellingType
      <3>3. Len(out[n]) \in Nat
        BY <1>a
      <3>4. Len(out[n]) <= Len(out[m - 1]) /\ \A i \in 1..Len(out[n]) : out[m - 1][i] = out[n][i]
        BY <3>1
      <3> DEFINE A == Len(out[n])
                 B == Len(out[m - 1])
                 C == Len(enc[s[m]])
                 D == Len(out[m])
      <3>a. A \in Nat /\ B \in Nat /\ C \in Nat /\ D = B + C /\ A <= B
        BY <3>2, <3>3, <3>4
      <3>5. Len(out[n]) <= Len(out[m])
        <4>1. A <= D
          <5> HIDE DEF A, B, C, D
          <5> QED BY ONLY <3>a
        <4> QED BY <4>1
      <3>6. ASSUME NEW i \in 1..Len(out[n]) PROVE out[m][i] = out[n][i]
        <4>1. i \in 1..(B + C) /\ i <= B
          <5>1. i \in 1..A
            OBVIOUS
          <5> HIDE DEF A, B, C, D
          <5> QED BY <3>a, <5>1
        <4>2. out[m][i] = out[m - 1][i]
          BY <3>2, <4>1
        <4> QED BY <3>4, <4>2
      <3>7. P(m)
        BY <3>5, <3>6
      <3> QED BY <1>0, <3>7
    <2>4. n > m \/ n = m \/ n < m
      BY <1>0
    <2> QED BY <2>1, <2>2, <2>3, <2>4
  <1> HIDE DEF G
  <1>3. \A m \in 1..N : m - 1 \in G => m \in G
    BY <1>2
  <1>4. \A m \in 0..N : m \in G
    BY ONLY <1>0, <1>1, <1>3, Induct
  <1>5. N >= n /\ N \in G
    BY <1>0, <1>4
  <1> QED BY <1>0, <1>a, <1>5 DEF G

-----------------------------------------------------------------------------
(* Reading back what was spelt.                                            *)

\* Over the code of a character a loop in the text appends that character and
\* is in the text again.
Inverts(read, enc) ==
    \A c \in Alphabet, r \in Readers : \A w \in Readings(read, r, enc[c]) :
        r.mode = "text" =>
            /\ w[Len(enc[c])].mode = "text"
            /\ w[Len(enc[c])].out = Append(r.out, c)

\* The closing quote ends the text, and nothing after it is read.
Closes(read) ==
    \A r \in Readers :
        /\ r.mode = "text" => (read[r][Quote].mode = "end" /\ read[r][Quote].out = r.out)
        /\ r.mode = "end" => \A c \in Chars : read[r][c] = r

\* What a text begins with, up to a closing quote.
Holds(text, E) ==
    /\ Len(E) < Len(text) /\ text[Len(E) + 1] = Quote
    /\ \A i \in 1..Len(E) : text[i] = E[i]

\* A loop that inverts each code gives back the whole text: after the code of
\* the n-th character it has read the first n, and after the closing quote it
\* does not move.
LEMMA ReadBack ==
    ASSUME NEW read \in [Readers -> [Chars -> Readers]],
           NEW enc \in [Alphabet -> Clean],
           Inverts(read, enc), Closes(read),
           NEW s \in Seq(Alphabet), NEW out \in Spellings(enc, s),
           NEW text \in Seq(Chars), Holds(text, out[Len(s)]),
           NEW st \in Readings(read, Blank, text)
    PROVE  st[Len(text)].out = s
  <1> DEFINE N == Len(s)
             M == Len(text)
             L == Len(out[N])
             P(n) == st[Len(out[n])].mode = "text" /\ st[Len(out[n])].out = SubSeq(s, 1, n)
             G == {n \in 0..N : P(n)}
  <1>z. N \in Nat /\ M \in Nat
    BY LenProperties
  <1>b. L \in Nat
    <2>1. N \in 0..N
      BY <1>z
    <2> QED BY <2>1, SpellingPrefix
  <1>c. L < M /\ text[L + 1] = Quote /\ \A i \in 1..L : text[i] = out[N][i]
    BY DEF Holds
  <1>d. \A i \in 1..M : text[i] \in Chars
    BY ElementOfSeq
  <1>a. /\ st \in [0..M -> Readers] /\ st[0] = Blank
        /\ \A n \in 1..M : st[n] = read[st[n - 1]][text[n]]
    BY DEF Readings
  <1>e. ASSUME NEW n \in 1..N
        PROVE  /\ s[n] \in Alphabet /\ enc[s[n]] \in Seq(Chars)
               /\ Len(out[n - 1]) \in Nat /\ Len(enc[s[n]]) \in Nat
               /\ Len(out[n]) = Len(out[n - 1]) + Len(enc[s[n]])
               /\ \A i \in 1..(Len(out[n - 1]) + Len(enc[s[n]])) :
                    out[n][i] = IF i <= Len(out[n - 1]) THEN out[n - 1][i]
                                ELSE enc[s[n]][i - Len(out[n - 1])]
    BY SpellingType
  <1>f. ASSUME NEW n \in 0..N
        PROVE  Len(out[n]) <= L /\ \A i \in 1..Len(out[n]) : out[N][i] = out[n][i]
    BY SpellingPrefix
  <1>g. out[0] = << >> /\ Len(out[0]) = 0
    BY EmptySeq DEF Spellings
  <1>h. \A i \in 1..N : s[i] \in Alphabet
    BY ElementOfSeq
  <1>i. SubSeq(s, 1, N) = s
    BY SubSeqFull
  <1> HIDE DEF N, M, L
  <1>1. 0 \in G
    <2>1. SubSeq(s, 1, 0) = << >>
      BY SubSeqEmpty
    <2>2. st[Len(out[0])] = Blank
      BY <1>a, <1>g
    <2>3. P(0)
      BY <2>1, <2>2 DEF Blank
    <2> QED BY <1>z, <2>3
  <1>2. ASSUME NEW n \in 1..N, n - 1 \in G PROVE n \in G
    <2> DEFINE c == s[n]
               q == enc[c]
               a == Len(out[n - 1])
               l == Len(q)
               w == [j \in 0..Len(q) |-> st[a + j]]
    <2>1. /\ c \in Alphabet /\ q \in Seq(Chars) /\ a \in Nat /\ l \in Nat
          /\ Len(out[n]) = a + l
          /\ \A i \in 1..(a + l) : out[n][i] = IF i <= a THEN out[n - 1][i] ELSE q[i - a]
      BY <1>e
    <2>2. a + l <= L /\ \A i \in 1..(a + l) : out[N][i] = out[n][i]
      <3>1. n \in 0..N
        BY <1>z
      <3> QED BY <1>f, <2>1, <3>1
    <2>3. P(n - 1)
      BY <1>2
    <2>4. st[a].mode = "text" /\ st[a].out = SubSeq(s, 1, n - 1)
      BY <2>3
    <2> HIDE DEF c, q, a, l
    <2>5. ASSUME NEW j \in 1..l
          PROVE  a + j \in 1..M /\ text[a + j] = q[j]
      <3>1. a + j \in 1..(a + l) /\ ~(a + j <= a) /\ (a + j) - a = j
        BY ONLY <2>1, j \in 1..l
      <3>2. a + j \in 1..L /\ a + j \in 1..M
        BY ONLY <2>1, <2>2, <1>z, <1>b, <1>c, j \in 1..l
      <3>3. out[N][a + j] = out[n][a + j]
        BY <2>2, <3>1
      <3>4. out[n][a + j] = q[j]
        BY ONLY <2>1, <3>1
      <3> QED BY <1>c, <3>2, <3>3, <3>4
    <2>6. ASSUME NEW j \in 0..l PROVE a + j \in 0..M
      BY ONLY <2>1, <2>2, <1>z, <1>b, <1>c, j \in 0..l
    <2>8. st[a] \in Readers
      <3>1. a \in 0..M
        BY ONLY <2>1, <2>2, <1>z, <1>b, <1>c
      <3> QED BY ONLY <1>a, <3>1
    <2>7. w \in Readings(read, st[a], q)
      <3>1. w \in [0..Len(q) -> Readers]
        <4>1. ASSUME NEW j \in 0..Len(q) PROVE st[a + j] \in Readers
          BY <1>a, <2>6 DEF l
        <4> QED BY <4>1
      <3>2. w[0] = st[a]
        <4>1. 0 \in 0..l /\ a + 0 = a
          BY <2>1
        <4> QED BY <4>1 DEF l
      <3>3. ASSUME NEW j \in 1..Len(q) PROVE w[j] = read[w[j - 1]][q[j]]
        <4>0. j \in 1..l
          BY DEF l
        <4>1. j \in 0..l /\ j - 1 \in 0..l /\ (a + j) - 1 = a + (j - 1)
          BY ONLY <2>1, <4>0
        <4>2. w[j] = st[a + j] /\ w[j - 1] = st[(a + j) - 1]
          BY <4>1 DEF l
        <4>3. st[a + j] = read[st[(a + j) - 1]][text[a + j]]
          BY <1>a, <2>5, <4>0
        <4>4. text[a + j] = q[j]
          BY <2>5, <4>0
        <4> HIDE DEF w
        <4> QED BY <4>2, <4>3, <4>4
      <3> HIDE DEF w
      <3> QED BY <3>1, <3>2, <3>3 DEF Readings
    <2>9. w[l].mode = "text" /\ w[l].out = Append(st[a].out, c)
      <3> HIDE DEF w
      <3> QED BY <2>1, <2>4, <2>7, <2>8, Inverts(read, enc) DEF Inverts, q, l
    <2>10. w[l] = st[Len(out[n])]
      <3>1. l \in 0..l
        BY <2>1
      <3> QED BY <2>1, <3>1 DEF l
    <2>11. Append(SubSeq(s, 1, n - 1), c) = SubSeq(s, 1, n)
      BY <1>z, <1>h DEF c
    <2> HIDE DEF w
    <2>12. P(n)
      BY <2>4, <2>9, <2>10, <2>11
    <2> QED BY <1>z, <2>12
  <1>3. P(N)
    <2> HIDE DEF G
    <2>1. \A n \in 1..N : n - 1 \in G => n \in G
      BY <1>2
    <2>2. \A n \in 0..N : n \in G
      BY ONLY <1>z, <1>1, <2>1, Induct
    <2>3. N \in G
      BY <1>z, <2>2
    <2> QED BY <2>3 DEF G
  <1>4. st[L].mode = "text" /\ st[L].out = s
    BY <1>3, <1>i DEF L
  <1> DEFINE K == M - (L + 1)
             at(k) == k + (L + 1)
             H == {k \in 0..K : st[at(k)].mode = "end" /\ st[at(k)].out = s}
  <1>5. K \in Nat /\ at(0) = L + 1 /\ at(K) = M
    BY <1>z, <1>b, <1>c
  <1>6. 0 \in H
    <2>1. L + 1 \in 1..M /\ (L + 1) - 1 = L /\ L \in 0..M
      BY <1>z, <1>b, <1>c
    <2>2. st[L + 1] = read[st[L]][Quote] /\ st[L] \in Readers
      BY <1>a, <1>c, <2>1
    <2>3. st[L + 1].mode = "end" /\ st[L + 1].out = s
      BY <1>4, <2>2, Closes(read) DEF Closes
    <2> QED BY <1>5, <2>3
  <1>7. ASSUME NEW k \in 1..K, k - 1 \in H PROVE k \in H
    <2>0. k \in 0..K
      <3> HIDE DEF K
      <3> QED BY <1>5
    <2>1. at(k - 1) \in 0..M /\ at(k) \in 1..M /\ at(k) - 1 = at(k - 1)
      BY ONLY <1>z, <1>b, <1>c, k \in 1..(M - (L + 1))
    <2>2. st[at(k - 1)].mode = "end" /\ st[at(k - 1)].out = s
      BY <1>7
    <2> HIDE DEF at
    <2>3. st[at(k)] = read[st[at(k - 1)]][text[at(k)]]
      BY <1>a, <2>1
    <2>4. st[at(k - 1)] \in Readers /\ text[at(k)] \in Chars
      BY <1>d, <1>a, <2>1
    <2>5. st[at(k)] = st[at(k - 1)]
      BY <2>2, <2>3, <2>4, Closes(read) DEF Closes
    <2>6. st[at(k)].mode = "end" /\ st[at(k)].out = s
      BY ONLY <2>2, <2>5
    <2> HIDE DEF K
    <2> QED BY <2>0, <2>6 DEF at
  <1>8. K \in H
    <2>1. \A k \in 1..K : k - 1 \in H => k \in H
      <3> HIDE DEF H, K, at
      <3> QED BY ONLY <1>7
    <2> HIDE DEF H, K
    <2>2. \A k \in 0..K : k \in H
      BY ONLY <1>5, <1>6, <2>1, Induct
    <2> QED BY <1>5, <2>2
  <1> HIDE DEF K
  <1>9. st[M].out = s
    BY <1>5, <1>8
  <1> QED BY <1>9 DEF M

\* The two loops are functions of a state and a character.
LEMMA ReadsType ==
    /\ Reads \in [Readers -> [Chars -> Readers]]
    /\ JsonReads \in [Readers -> [Chars -> Readers]]
    /\ \A r \in Readers, c \in Chars : Reads[r][c] = Step(r, c) /\ JsonReads[r][c] = JsonStep(r, c)
  BY ReaderType DEF Reads, JsonReads

\* What one turn of the loop does.
LEMMA StepIs ==
    ASSUME NEW r \in Readers, NEW c \in Chars
    PROVE  /\ r.mode = "end" => Step(r, c) = r
           /\ (r.mode = "text" /\ c = Quote) =>
                 (Step(r, c).mode = "end" /\ Step(r, c).out = r.out)
           /\ (r.mode = "text" /\ c = "\\") =>
                 (Step(r, c).mode = "escape" /\ Step(r, c).out = r.out)
           /\ (r.mode = "text" /\ c \notin {Quote, "\\"}) =>
                 (Step(r, c).mode = "text" /\ Step(r, c).out = Append(r.out, c))
           /\ (r.mode = "escape" /\ c = "u") =>
                 (Step(r, c).mode = "hex" /\ Step(r, c).out = r.out /\ Step(r, c).digits = << >>)
           /\ (r.mode = "escape" /\ c = "n") =>
                 (Step(r, c).mode = "text" /\ Step(r, c).out = Append(r.out, "\n"))
           /\ (r.mode = "escape" /\ c = "t") =>
                 (Step(r, c).mode = "text" /\ Step(r, c).out = Append(r.out, "\t"))
           /\ (r.mode = "escape" /\ c = "r") =>
                 (Step(r, c).mode = "text" /\ Step(r, c).out = Append(r.out, "\r"))
           /\ (r.mode = "escape" /\ c \notin {"u", "n", "t", "r"}) =>
                 (Step(r, c).mode = "text" /\ Step(r, c).out = Append(r.out, c))
           /\ (r.mode = "hex" /\ Len(r.digits) < 3) =>
                 (/\ Step(r, c).mode = "hex" /\ Step(r, c).out = r.out
                  /\ Step(r, c).digits = Append(r.digits, c))
           /\ (r.mode = "hex" /\ ~(Len(r.digits) < 3)) =>
                 (/\ Step(r, c).mode = "text"
                  /\ Step(r, c).out = Append(r.out, FromHex(Append(r.digits, c))))
  <1>1. r.mode = "end" => Step(r, c) = r
    BY DEF Step
  <1>2. ASSUME r.mode = "text"
        PROVE  Step(r, c) = IF c = Quote THEN [r EXCEPT !.mode = "end"]
                            ELSE IF c = "\\" THEN [r EXCEPT !.mode = "escape"]
                            ELSE [r EXCEPT !.out = Append(r.out, c)]
    BY <1>2 DEF Step
  <1>3. ASSUME r.mode = "escape", c = "u"
        PROVE  Step(r, c) = [r EXCEPT !.mode = "hex", !.digits = << >>]
    BY <1>3 DEF Step
  <1>4. ASSUME r.mode = "escape", c # "u"
        PROVE  Step(r, c) = [r EXCEPT !.mode = "text",
                 !.out = Append(r.out, CASE c = "n" -> "\n" [] c = "t" -> "\t"
                                         [] c = "r" -> "\r" [] OTHER -> c)]
    BY <1>4 DEF Step
  <1>5. ASSUME r.mode = "hex"
        PROVE  Step(r, c) = IF Len(r.digits) < 3 THEN [r EXCEPT !.digits = Append(r.digits, c)]
                 ELSE [r EXCEPT !.mode = "text", !.out = Append(r.out, FromHex(Append(r.digits, c)))]
    BY <1>5 DEF Step
  <1>m. Quote # "\\"
    BY Marks DEF Plain
  <1>6. ASSUME r.mode = "text", c = Quote
        PROVE  Step(r, c).mode = "end" /\ Step(r, c).out = r.out
    <2>1. Step(r, c) = [r EXCEPT !.mode = "end"]
      BY <1>2, <1>6
    <2>2. /\ [r EXCEPT !.mode = "end"].mode = "end"
          /\ [r EXCEPT !.mode = "end"].out = r.out
      BY DEF Readers
    <2> QED BY ONLY <2>1, <2>2
  <1>7. ASSUME r.mode = "text", c = "\\"
        PROVE  Step(r, c).mode = "escape" /\ Step(r, c).out = r.out
    <2>1. Step(r, c) = [r EXCEPT !.mode = "escape"]
      BY <1>m, <1>2, <1>7
    <2>2. /\ [r EXCEPT !.mode = "escape"].mode = "escape"
          /\ [r EXCEPT !.mode = "escape"].out = r.out
      BY DEF Readers
    <2> QED BY ONLY <2>1, <2>2
  <1>8. ASSUME r.mode = "text", c \notin {Quote, "\\"}
        PROVE  Step(r, c).mode = r.mode /\ Step(r, c).out = Append(r.out, c)
    <2>1. Step(r, c) = [r EXCEPT !.out = Append(r.out, c)]
      BY <1>2, <1>8
    <2>2. /\ [r EXCEPT !.out = Append(r.out, c)].mode = r.mode
          /\ [r EXCEPT !.out = Append(r.out, c)].out = Append(r.out, c)
      BY DEF Readers
    <2> QED BY ONLY <2>1, <2>2
  <1>9. ASSUME r.mode = "escape", c = "u"
        PROVE  Step(r, c).mode = "hex" /\ Step(r, c).out = r.out /\ Step(r, c).digits = << >>
    <2>1. Step(r, c) = [r EXCEPT !.mode = "hex", !.digits = << >>]
      BY <1>3, <1>9
    <2>2. /\ [r EXCEPT !.mode = "hex", !.digits = << >>].mode = "hex"
          /\ [r EXCEPT !.mode = "hex", !.digits = << >>].out = r.out
          /\ [r EXCEPT !.mode = "hex", !.digits = << >>].digits = << >>
      BY DEF Readers
    <2> QED BY ONLY <2>1, <2>2
  <1>10. ASSUME r.mode = "escape", c = "n"
        PROVE  Step(r, c).mode = "text" /\ Step(r, c).out = Append(r.out, "\n")
    <2>1. Step(r, c) = [r EXCEPT !.mode = "text", !.out = Append(r.out, "\n")]
      BY <1>4, <1>10
    <2>2. /\ [r EXCEPT !.mode = "text", !.out = Append(r.out, "\n")].mode = "text"
          /\ [r EXCEPT !.mode = "text", !.out = Append(r.out, "\n")].out = Append(r.out, "\n")
      BY DEF Readers
    <2> QED BY ONLY <2>1, <2>2
  <1>11. ASSUME r.mode = "escape", c = "t"
        PROVE  Step(r, c).mode = "text" /\ Step(r, c).out = Append(r.out, "\t")
    <2>1. Step(r, c) = [r EXCEPT !.mode = "text", !.out = Append(r.out, "\t")]
      BY <1>4, <1>11
    <2>2. /\ [r EXCEPT !.mode = "text", !.out = Append(r.out, "\t")].mode = "text"
          /\ [r EXCEPT !.mode = "text", !.out = Append(r.out, "\t")].out = Append(r.out, "\t")
      BY DEF Readers
    <2> QED BY ONLY <2>1, <2>2
  <1>12. ASSUME r.mode = "escape", c = "r"
        PROVE  Step(r, c).mode = "text" /\ Step(r, c).out = Append(r.out, "\r")
    <2>1. Step(r, c) = [r EXCEPT !.mode = "text", !.out = Append(r.out, "\r")]
      BY <1>4, <1>12
    <2>2. /\ [r EXCEPT !.mode = "text", !.out = Append(r.out, "\r")].mode = "text"
          /\ [r EXCEPT !.mode = "text", !.out = Append(r.out, "\r")].out = Append(r.out, "\r")
      BY DEF Readers
    <2> QED BY ONLY <2>1, <2>2
  <1>13. ASSUME r.mode = "escape", c \notin {"u", "n", "t", "r"}
        PROVE  Step(r, c).mode = "text" /\ Step(r, c).out = Append(r.out, c)
    <2>1. Step(r, c) = [r EXCEPT !.mode = "text", !.out = Append(r.out, c)]
      BY <1>4, <1>13
    <2>2. /\ [r EXCEPT !.mode = "text", !.out = Append(r.out, c)].mode = "text"
          /\ [r EXCEPT !.mode = "text", !.out = Append(r.out, c)].out = Append(r.out, c)
      BY DEF Readers
    <2> QED BY ONLY <2>1, <2>2
  <1>14. ASSUME r.mode = "hex", Len(r.digits) < 3
        PROVE  /\ Step(r, c).mode = r.mode /\ Step(r, c).out = r.out
               /\ Step(r, c).digits = Append(r.digits, c)
    <2>1. Step(r, c) = [r EXCEPT !.digits = Append(r.digits, c)]
      BY <1>5, <1>14
    <2>2. /\ [r EXCEPT !.digits = Append(r.digits, c)].mode = r.mode
          /\ [r EXCEPT !.digits = Append(r.digits, c)].out = r.out
          /\ [r EXCEPT !.digits = Append(r.digits, c)].digits = Append(r.digits, c)
      BY DEF Readers
    <2> QED BY ONLY <2>1, <2>2
  <1>15. ASSUME r.mode = "hex", ~(Len(r.digits) < 3)
        PROVE  /\ Step(r, c).mode = "text"
               /\ Step(r, c).out = Append(r.out, FromHex(Append(r.digits, c)))
    <2>1. Step(r, c)
            = [r EXCEPT !.mode = "text", !.out = Append(r.out, FromHex(Append(r.digits, c)))]
      BY <1>5, <1>15
    <2>2. /\ [r EXCEPT !.mode = "text", !.out = Append(r.out, FromHex(Append(r.digits, c)))].mode
               = "text"
          /\ [r EXCEPT !.mode = "text", !.out = Append(r.out, FromHex(Append(r.digits, c)))].out
               = Append(r.out, FromHex(Append(r.digits, c)))
      BY DEF Readers
    <2> QED BY ONLY <2>1, <2>2
  <1> QED BY <1>1, <1>6, <1>7, <1>8, <1>9, <1>10, <1>11, <1>12, <1>13, <1>14, <1>15

\* The loop of d2x differs in one escape.
LEMMA JsonStepIs ==
    ASSUME NEW r \in Readers, NEW c \in Chars
    PROVE  /\ ~(r.mode = "escape" /\ c = "b") => JsonStep(r, c) = Step(r, c)
           /\ (r.mode = "escape" /\ c = "b") =>
                 (JsonStep(r, c).mode = "text" /\ JsonStep(r, c).out = Append(r.out, "BS"))
  <1>1. /\ [r EXCEPT !.mode = "text", !.out = Append(r.out, "BS")].mode = "text"
        /\ [r EXCEPT !.mode = "text", !.out = Append(r.out, "BS")].out = Append(r.out, "BS")
    BY DEF Readers
  <1>2. ASSUME r.mode = "escape", c = "b"
        PROVE  JsonStep(r, c) = [r EXCEPT !.mode = "text", !.out = Append(r.out, "BS")]
    BY <1>2 DEF JsonStep
  <1>3. (r.mode = "escape" /\ c = "b") =>
            (JsonStep(r, c).mode = "text" /\ JsonStep(r, c).out = Append(r.out, "BS"))
    BY ONLY <1>1, <1>2
  <1> QED BY <1>3 DEF JsonStep

\* Either loop stops at the closing quote.
LEMMA Closing == Closes(Reads) /\ Closes(JsonReads)
  <1>1. Quote \in Chars /\ "text" # "escape" /\ "end" # "escape"
    BY DEF Chars
  <1>2. Closes(Reads)
    BY <1>1, ReadsType, StepIs DEF Closes
  <1>3. Closes(JsonReads)
    <2>1. ASSUME NEW r \in Readers, r.mode = "text"
          PROVE  JsonReads[r][Quote].mode = "end" /\ JsonReads[r][Quote].out = r.out
      <3>1. JsonReads[r][Quote] = Step(r, Quote)
        BY <1>1, <2>1, ReadsType, JsonStepIs
      <3> QED BY <1>1, <2>1, <3>1, StepIs
    <2>2. ASSUME NEW r \in Readers, r.mode = "end", NEW c \in Chars
          PROVE  JsonReads[r][c] = r
      <3>1. JsonReads[r][c] = Step(r, c)
        BY <1>1, <2>2, ReadsType, JsonStepIs
      <3> QED BY <2>2, <3>1, StepIs
    <2> QED BY <2>1, <2>2 DEF Closes
  <1> QED BY <1>2, <1>3

\* Four digits come back as the character they stand for.
LEMMA FromHexIs ==
    ASSUME NEW c \in {"BS", "ESC"}
    PROVE  FromHex(Hex(c)) = c
  <1>1. ASSUME NEW d \in Controls, NEW e \in Controls, Hex(d) = Hex(e) PROVE d = e
    <2>1. ASSUME NEW f \in Controls
          PROVE  /\ f = "BS" => Hex(f)[4] = "8"
                 /\ f = "ESC" => Hex(f)[4] = "b"
                 /\ f = "\t" => Hex(f)[4] = "9"
                 /\ f = "\n" => Hex(f)[4] = "a"
                 /\ f = "\r" => Hex(f)[4] = "d"
      BY DEF Hex
    <2>2. Hex(d)[4] = Hex(e)[4]
      BY <1>1
    <2> QED BY ONLY <2>1, <2>2, d \in Controls, e \in Controls DEF Controls
  <1>2. c \in Controls
    BY DEF Controls
  <1>3. (CHOOSE d \in Controls : Hex(d) = Hex(c)) = c
    BY <1>1, <1>2
  <1> QED BY <1>2, <1>3 DEF FromHex

\* Digits are collected at the end.
LEMMA Append1 ==
    ASSUME NEW S, NEW a \in S, NEW c \in S
    PROVE  Append(<<a>>, c) = <<a, c>>
  <1>1. <<a>> \in Seq(S) /\ Len(<<a>>) = 1 /\ <<a>>[1] = a
    OBVIOUS
  <1>2. <<a, c>> \in Seq(S) /\ Len(<<a, c>>) = 2 /\ <<a, c>>[1] = a /\ <<a, c>>[2] = c
    OBVIOUS
  <1>3. /\ Append(<<a>>, c) \in Seq(S) /\ Len(Append(<<a>>, c)) = 2
        /\ Append(<<a>>, c)[1] = a /\ Append(<<a>>, c)[2] = c
    BY <1>1
  <1>4. ASSUME NEW i \in 1..2 PROVE Append(<<a>>, c)[i] = <<a, c>>[i]
    <2>1. i = 1 \/ i = 2
      OBVIOUS
    <2> QED BY <1>2, <1>3, <2>1
  <1> QED BY <1>2, <1>3, <1>4, SeqEqual

\* The same after two.
LEMMA Append2 ==
    ASSUME NEW S, NEW a \in S, NEW b \in S, NEW c \in S
    PROVE  Append(<<a, b>>, c) = <<a, b, c>>
  <1>1. <<a, b>> \in Seq(S) /\ Len(<<a, b>>) = 2 /\ <<a, b>>[1] = a /\ <<a, b>>[2] = b
    OBVIOUS
  <1>2. /\ <<a, b, c>> \in Seq(S) /\ Len(<<a, b, c>>) = 3 /\ <<a, b, c>>[1] = a
        /\ <<a, b, c>>[2] = b /\ <<a, b, c>>[3] = c
    OBVIOUS
  <1>3. /\ Append(<<a, b>>, c) \in Seq(S) /\ Len(Append(<<a, b>>, c)) = 3
        /\ Append(<<a, b>>, c)[1] = a /\ Append(<<a, b>>, c)[2] = b
        /\ Append(<<a, b>>, c)[3] = c
    BY <1>1
  <1>4. ASSUME NEW i \in 1..3 PROVE Append(<<a, b>>, c)[i] = <<a, b, c>>[i]
    <2>1. i = 1 \/ i = 2 \/ i = 3
      OBVIOUS
    <2> QED BY <1>2, <1>3, <2>1
  <1> QED BY <1>2, <1>3, <1>4, SeqEqual

\* The same after three.
LEMMA Append3 ==
    ASSUME NEW S, NEW a \in S, NEW b \in S, NEW d \in S, NEW c \in S
    PROVE  Append(<<a, b, d>>, c) = <<a, b, d, c>>
  <1>1. /\ <<a, b, d>> \in Seq(S) /\ Len(<<a, b, d>>) = 3 /\ <<a, b, d>>[1] = a
        /\ <<a, b, d>>[2] = b /\ <<a, b, d>>[3] = d
    OBVIOUS
  <1>2. /\ <<a, b, d, c>> \in Seq(S) /\ Len(<<a, b, d, c>>) = 4 /\ <<a, b, d, c>>[1] = a
        /\ <<a, b, d, c>>[2] = b /\ <<a, b, d, c>>[3] = d /\ <<a, b, d, c>>[4] = c
    OBVIOUS
  <1>3. /\ Append(<<a, b, d>>, c) \in Seq(S) /\ Len(Append(<<a, b, d>>, c)) = 4
        /\ Append(<<a, b, d>>, c)[1] = a /\ Append(<<a, b, d>>, c)[2] = b
        /\ Append(<<a, b, d>>, c)[3] = d /\ Append(<<a, b, d>>, c)[4] = c
    BY <1>1
  <1>4. ASSUME NEW i \in 1..4 PROVE Append(<<a, b, d>>, c)[i] = <<a, b, d, c>>[i]
    <2>1. i = 1 \/ i = 2 \/ i = 3 \/ i = 4
      OBVIOUS
    <2> QED BY <1>2, <1>3, <2>1
  <1> QED BY <1>2, <1>3, <1>4, SeqEqual

\* The loop inside an escape of four digits, turn by turn.
LEMMA HexTurn ==
    ASSUME NEW r \in Readers, r.mode = "hex", NEW c \in Chars
    PROVE  /\ r.digits = << >> => (/\ Step(r, c).mode = "hex" /\ Step(r, c).out = r.out
                                   /\ Step(r, c).digits = <<c>>)
           /\ \A a \in Chars : r.digits = <<a>> =>
                (/\ Step(r, c).mode = "hex" /\ Step(r, c).out = r.out
                 /\ Step(r, c).digits = <<a, c>>)
           /\ \A a, b \in Chars : r.digits = <<a, b>> =>
                (/\ Step(r, c).mode = "hex" /\ Step(r, c).out = r.out
                 /\ Step(r, c).digits = <<a, b, c>>)
  <1>1. ASSUME r.digits = << >>
        PROVE  /\ Step(r, c).mode = "hex" /\ Step(r, c).out = r.out
               /\ Step(r, c).digits = <<c>>
    <2>0. Len(<< >>) = 0
      OBVIOUS
    <2>1. Len(<< >>) < 3 /\ Append(<< >>, c) = <<c>>
      BY <2>0
    <2>2. Len(r.digits) < 3 /\ Append(r.digits, c) = <<c>>
      BY ONLY <1>1, <2>1
    <2> QED BY <1>1, <2>2, StepIs
  <1>2. ASSUME NEW a \in Chars, r.digits = <<a>>
        PROVE  /\ Step(r, c).mode = "hex" /\ Step(r, c).out = r.out
               /\ Step(r, c).digits = <<a, c>>
    <2>0. Len(<<a>>) = 1
      OBVIOUS
    <2>1. Len(<<a>>) < 3 /\ Append(<<a>>, c) = <<a, c>>
      BY <2>0, Append1
    <2>2. Len(r.digits) < 3 /\ Append(r.digits, c) = <<a, c>>
      BY ONLY <1>2, <2>1
    <2> QED BY <1>2, <2>2, StepIs
  <1>3. ASSUME NEW a \in Chars, NEW b \in Chars, r.digits = <<a, b>>
        PROVE  /\ Step(r, c).mode = "hex" /\ Step(r, c).out = r.out
               /\ Step(r, c).digits = <<a, b, c>>
    <2>0. Len(<<a, b>>) = 2
      OBVIOUS
    <2>1. Len(<<a, b>>) < 3 /\ Append(<<a, b>>, c) = <<a, b, c>>
      BY <2>0, Append2
    <2>2. Len(r.digits) < 3 /\ Append(r.digits, c) = <<a, b, c>>
      BY ONLY <1>3, <2>1
    <2> QED BY <1>3, <2>2, StepIs
  <1> QED BY <1>1, <1>2, <1>3

\* The fourth digit gives the character.
LEMMA HexEnd ==
    ASSUME NEW r \in Readers, r.mode = "hex", NEW c \in Chars,
           NEW a \in Chars, NEW b \in Chars, NEW d \in Chars, r.digits = <<a, b, d>>
    PROVE  /\ Step(r, c).mode = "text"
           /\ Step(r, c).out = Append(r.out, FromHex(<<a, b, d, c>>))
  <1>0. Len(<<a, b, d>>) = 3
    OBVIOUS
  <1>1. ~(Len(<<a, b, d>>) < 3) /\ Append(<<a, b, d>>, c) = <<a, b, d, c>>
    BY <1>0, Append3
  <1>2. ~(Len(r.digits) < 3) /\ Append(r.digits, c) = <<a, b, d, c>>
    BY ONLY r.digits = <<a, b, d>>, <1>1
  <1>3. /\ Step(r, c).mode = "text"
        /\ Step(r, c).out = Append(r.out, FromHex(Append(r.digits, c)))
    BY <1>2, StepIs
  <1> QED BY ONLY <1>2, <1>3

\* Either loop is the library's, but for the one short escape.
Alike(read) ==
    \A r \in Readers, c \in Chars :
        ~(r.mode = "escape" /\ c = "b") => read[r][c] = Step(r, c)

\* The states of a loop over a backslash, u and four digits.
LongRun(read, w, d, e) ==
    /\ w[0] \in Readers /\ w[1] \in Readers /\ w[2] \in Readers /\ w[3] \in Readers
    /\ w[4] \in Readers /\ w[5] \in Readers /\ w[0].mode = "text"
    /\ w[1] = read[w[0]]["\\"] /\ w[2] = read[w[1]]["u"] /\ w[3] = read[w[2]]["0"]
    /\ w[4] = read[w[3]]["0"] /\ w[5] = read[w[4]][d] /\ w[6] = read[w[5]][e]

\* They append the character that the digits stand for.
LEMMA LongReads ==
    ASSUME NEW read, Alike(read), NEW d \in Chars, NEW e \in Chars,
           NEW w, LongRun(read, w, d, e)
    PROVE  w[6].mode = "text" /\ w[6].out = Append(w[0].out, FromHex(<<"0", "0", d, e>>))
  <1>r. /\ w[0] \in Readers /\ w[1] \in Readers /\ w[2] \in Readers /\ w[3] \in Readers
        /\ w[4] \in Readers /\ w[5] \in Readers /\ w[0].mode = "text"
        /\ w[1] = read[w[0]]["\\"] /\ w[2] = read[w[1]]["u"] /\ w[3] = read[w[2]]["0"]
        /\ w[4] = read[w[3]]["0"] /\ w[5] = read[w[4]][d] /\ w[6] = read[w[5]][e]
    BY DEF LongRun
  <1>t. /\ w[0] \in Readers /\ w[1] \in Readers /\ w[2] \in Readers /\ w[3] \in Readers
        /\ w[4] \in Readers /\ w[5] \in Readers /\ w[0].mode = "text"
    BY <1>r
  <1>0. "\\" \in Chars /\ "u" \in Chars /\ "0" \in Chars
    BY DEF Chars, Plain
  <1>1. w[1].mode = "escape" /\ w[1].out = w[0].out
    <2>1. w[1] = Step(w[0], "\\")
      BY ONLY Alike(read), <1>0, <1>r DEF Alike
    <2> QED BY ONLY <1>0, <2>1, <1>t, StepIs
  <1>2. w[2].mode = "hex" /\ w[2].out = w[0].out /\ w[2].digits = << >>
    <2>1. w[2] = Step(w[1], "u")
      BY ONLY Alike(read), <1>0, <1>r DEF Alike
    <2> QED BY ONLY <1>0, <1>1, <2>1, <1>t, StepIs
  <1>3. w[3].mode = "hex" /\ w[3].out = w[0].out /\ w[3].digits = <<"0">>
    <2>1. w[3] = Step(w[2], "0")
      BY ONLY Alike(read), <1>0, <1>2, <1>r DEF Alike
    <2> QED BY ONLY <1>0, <1>2, <2>1, <1>t, HexTurn
  <1>4. w[4].mode = "hex" /\ w[4].out = w[0].out /\ w[4].digits = <<"0", "0">>
    <2>1. w[4] = Step(w[3], "0")
      BY ONLY Alike(read), <1>0, <1>3, <1>r DEF Alike
    <2> QED BY ONLY <1>0, <1>3, <2>1, <1>t, HexTurn
  <1>5. w[5].mode = "hex" /\ w[5].out = w[0].out /\ w[5].digits = <<"0", "0", d>>
    <2>1. w[5] = Step(w[4], d)
      BY ONLY Alike(read), <1>4, d \in Chars, <1>r DEF Alike
    <2> QED BY ONLY <1>0, <1>4, <2>1, <1>t, d \in Chars, HexTurn
  <1>6. w[6] = Step(w[5], e)
    BY ONLY Alike(read), <1>5, e \in Chars, <1>r DEF Alike
  <1>7. /\ Step(w[5], e).mode = "text"
        /\ Step(w[5], e).out = Append(w[5].out, FromHex(<<"0", "0", d, e>>))
    <2>1. PICK r \in Readers : r = w[5]
      BY <1>r
    <2>2. PICK z \in Chars : z = "0"
      BY <1>0
    <2>3. r.mode = "hex" /\ r.digits = <<z, z, d>>
      BY ONLY <1>5, <2>1, <2>2
    <2>4. Step(r, e).mode = "text" /\ Step(r, e).out = Append(r.out, FromHex(<<z, z, d, e>>))
      BY ONLY <2>3, r \in Readers, z \in Chars, d \in Chars, e \in Chars, HexEnd
    <2> QED BY ONLY <2>1, <2>2, <2>4
  <1> QED BY ONLY <1>5, <1>6, <1>7

\* Each loop inverts the codes of the switch that it is the counterpart of.
LEMMA Inverting == Inverts(Reads, Codes) /\ Inverts(JsonReads, EventCodes)
  <1>0. /\ Codes \in [Alphabet -> Clean] /\ EventCodes \in [Alphabet -> Clean]
        /\ \A c \in Alphabet : Codes[c] = Escaped(c) /\ EventCodes[c] = EscapedEvent(c)
    BY CodesType DEF Codes, EventCodes
  <1>m. Quote \notin {"\\", "\n", "\r", "\t", "BS", "ESC", "hi", ":", "w", "m", "u", "b", "n"}
    BY Marks DEF Plain
  <1>c. /\ {"\\", "n", "r", "t", "u", "0", "1", "8", "b"} \subseteq Chars
        /\ \A c \in Alphabet : c \in Chars
    BY AlphabetIs DEF Chars, Plain
  \* One turn of either loop on a character that both read alike.
  <1>s. ASSUME NEW read \in {Reads, JsonReads}, NEW r \in Readers, NEW d \in Chars,
               ~(r.mode = "escape" /\ d = "b")
        PROVE  read[r][d] = Step(r, d)
    BY <1>s, ReadsType, JsonStepIs
  <1>1. ASSUME NEW read \in {Reads, JsonReads}, NEW r \in Readers, r.mode = "text",
               NEW q \in Seq(Chars), NEW w \in Readings(read, r, q)
        PROVE  /\ w[0] = r
               /\ \A i \in 0..Len(q) : w[i] \in Readers
               /\ \A i \in 1..Len(q) : w[i] = read[w[i - 1]][q[i]]
    BY DEF Readings
  \* A character that stands for itself.
  <1>2. ASSUME NEW read \in {Reads, JsonReads}, NEW r \in Readers, r.mode = "text",
               NEW q, NEW c \in Chars \ {Quote, "\\"}, Bare(q, c), NEW w \in Readings(read, r, q)
        PROVE  w[Len(q)].mode = "text" /\ w[Len(q)].out = Append(r.out, c)
    <2>1. q \in Seq(Chars) /\ Len(q) = 1 /\ q[1] = c
      BY <1>2 DEF Bare
    <2>2. w[0] = r /\ w[1] = read[r][c]
      <3>1. 1 \in 1..Len(q) /\ 1 - 1 = 0
        BY <2>1
      <3> QED BY <1>1, <1>2, <2>1, <3>1
    <2>3. w[1] = Step(r, c)
      BY <1>s, <1>2, <2>2
    <2> QED BY <1>2, <2>1, <2>3, StepIs
  \* A backslash and a letter.
  <1>3. ASSUME NEW read \in {Reads, JsonReads}, NEW r \in Readers, r.mode = "text",
               NEW q, NEW d \in Chars, Short(q, d), NEW w \in Readings(read, r, q)
        PROVE  \E e \in Readers : /\ e.mode = "escape" /\ e.out = r.out
                                  /\ w[Len(q)] = read[e][d]
    <2>1. q \in Seq(Chars) /\ Len(q) = 2 /\ q[1] = "\\" /\ q[2] = d
      BY <1>3 DEF Short
    <2>2. w[1] = read[r]["\\"] /\ w[2] = read[w[1]][d] /\ w[1] \in Readers
      <3>1. 1 \in 1..Len(q) /\ 2 \in 1..Len(q) /\ 1 \in 0..Len(q) /\ 1 - 1 = 0 /\ 2 - 1 = 1
        BY <2>1
      <3> QED BY <1>1, <1>3, <2>1, <3>1
    <2>3. w[1] = Step(r, "\\")
      BY <1>c, <1>s, <1>3, <2>2
    <2>4. w[1].mode = "escape" /\ w[1].out = r.out
      BY <1>c, <1>3, <2>3, StepIs
    <2> QED BY <2>1, <2>2, <2>4
  \* A backslash, u and four digits.
  <1>4. ASSUME NEW read \in {Reads, JsonReads}, NEW r \in Readers, r.mode = "text",
               NEW q, NEW d \in Chars, NEW e \in Chars, Long(q, d, e), NEW w \in Readings(read, r, q)
        PROVE  w[Len(q)].mode = "text" /\ w[Len(q)].out = Append(r.out, FromHex(<<"0", "0", d, e>>))
    <2>1. /\ q \in Seq(Chars) /\ Len(q) = 6
          /\ q[1] = "\\" /\ q[2] = "u" /\ q[3] = "0" /\ q[4] = "0" /\ q[5] = d /\ q[6] = e
      BY <1>4 DEF Long
    <2>2. w[0] = r /\ \A i \in {0, 1, 2, 3, 4, 5} : w[i] \in Readers
      BY <1>1, <1>4, <2>1
    <2>3. ASSUME NEW i \in {1, 2, 3, 4, 5, 6} PROVE w[i] = read[w[i - 1]][q[i]]
      <3>1. i \in 1..Len(q)
        BY <2>1
      <3> QED BY <1>1, <1>4, <2>1, <3>1
    <2>4. /\ w[1] = read[r]["\\"] /\ w[2] = read[w[1]]["u"] /\ w[3] = read[w[2]]["0"]
          /\ w[4] = read[w[3]]["0"] /\ w[5] = read[w[4]][d] /\ w[6] = read[w[5]][e]
      <3>1. 1 - 1 = 0 /\ 2 - 1 = 1 /\ 3 - 1 = 2 /\ 4 - 1 = 3 /\ 5 - 1 = 4 /\ 6 - 1 = 5
        OBVIOUS
      <3> QED BY <2>1, <2>2, <2>3, <3>1
    <2>5. /\ w[0] \in Readers /\ w[1] \in Readers /\ w[2] \in Readers /\ w[3] \in Readers
          /\ w[4] \in Readers /\ w[5] \in Readers
      BY <2>2, <1>4
    <2>6. Alike(read)
      BY <1>s, <1>4 DEF Alike
    <2>7. w[6].mode = "text" /\ w[6].out = Append(w[0].out, FromHex(<<"0", "0", d, e>>))
      <3>1. w[1] = read[w[0]]["\\"] /\ w[0].mode = "text"
        BY <1>4, <2>2, <2>4
      <3>2. LongRun(read, w, d, e)
        BY ONLY <2>4, <2>5, <3>1 DEF LongRun
      <3> QED BY ONLY <2>6, <3>2, d \in Chars, e \in Chars, LongReads
    <2> QED BY <2>1, <2>2, <2>7
  <1>5. FromHex(<<"0", "0", "0", "8">>) = "BS" /\ FromHex(<<"0", "0", "1", "b">>) = "ESC"
    <2>1. Hex("BS") = <<"0", "0", "0", "8">> /\ Hex("ESC") = <<"0", "0", "1", "b">>
      BY DEF Hex
    <2>2. FromHex(Hex("BS")) = "BS" /\ FromHex(Hex("ESC")) = "ESC"
      BY FromHexIs
    <2> QED BY <2>1, <2>2
  \* What the library writes, either loop reads.
  <1>6. ASSUME NEW read \in {Reads, JsonReads}, NEW c \in Alphabet, NEW r \in Readers,
               r.mode = "text", NEW w \in Readings(read, r, Escaped(c))
        PROVE  w[Len(Escaped(c))].mode = "text" /\ w[Len(Escaped(c))].out = Append(r.out, c)
    <2>1. CASE c \in {Quote, "\\"}
      <3>1. PICK e \in Readers : /\ e.mode = "escape" /\ e.out = r.out
                                 /\ w[Len(Escaped(c))] = read[e][c]
        <4>1. Short(Escaped(c), c) /\ c \in Chars
          BY <1>c, <2>1, EscapedIs
        <4> QED BY ONLY <1>3, <1>6, <4>1, read \in {Reads, JsonReads}, r \in Readers,
                        w \in Readings(read, r, Escaped(c))
      <3>2. c \notin {"u", "n", "t", "r", "b"}
        BY <2>1, Marks DEF Plain
      <3>3. read[e][c] = Step(e, c)
        BY <1>c, <1>s, <3>2
      <3> QED BY <1>c, <3>1, <3>2, <3>3, StepIs
    <2>2. CASE c \in {"\n", "\r", "\t"}
      <3>1. PICK d \in {"n", "r", "t"} :
              /\ Short(Escaped(c), d)
              /\ (d = "n" /\ c = "\n") \/ (d = "r" /\ c = "\r") \/ (d = "t" /\ c = "\t")
        BY <2>2, EscapedIs
      <3>2. PICK e \in Readers : /\ e.mode = "escape" /\ e.out = r.out
                                 /\ w[Len(Escaped(c))] = read[e][d]
        <4>1. d \in Chars
          BY <1>c
        <4> QED BY ONLY <1>3, <1>6, <3>1, <4>1, read \in {Reads, JsonReads}, r \in Readers,
                        w \in Readings(read, r, Escaped(c))
      <3>3. read[e][d] = Step(e, d) /\ d \in Chars
        BY <1>c, <1>s
      <3> QED BY <3>1, <3>2, <3>3, StepIs
    <2>3. CASE c = "BS"
      <3>1. Long(Escaped(c), "0", "8") /\ "0" \in Chars /\ "8" \in Chars
        BY <1>c, <2>3, EscapedIs
      <3> QED BY ONLY <1>4, <1>5, <1>6, <2>3, <3>1, read \in {Reads, JsonReads}, r \in Readers,
                      w \in Readings(read, r, Escaped(c))
    <2>4. CASE c = "ESC"
      <3>1. Long(Escaped(c), "1", "b") /\ "1" \in Chars /\ "b" \in Chars
        BY <1>c, <2>4, EscapedIs
      <3> QED BY ONLY <1>4, <1>5, <1>6, <2>4, <3>1, read \in {Reads, JsonReads}, r \in Readers,
                      w \in Readings(read, r, Escaped(c))
    <2>5. CASE c \in {"hi", ":", "w", "m", "u", "b", "n"}
      <3>1. Bare(Escaped(c), c) /\ c \in Chars \ {Quote, "\\"}
        BY <1>c, <1>m, <2>5, EscapedIs
      <3> QED BY ONLY <1>2, <1>6, <3>1, read \in {Reads, JsonReads}, r \in Readers,
                      w \in Readings(read, r, Escaped(c))
    <2> QED BY <2>1, <2>2, <2>3, <2>4, <2>5, AlphabetIs
  <1>7. Inverts(Reads, Codes)
    BY <1>0, <1>6 DEF Inverts
  <1>8. ASSUME NEW c \in Alphabet, NEW r \in Readers, r.mode = "text",
               NEW w \in Readings(JsonReads, r, EscapedEvent(c))
        PROVE  /\ w[Len(EscapedEvent(c))].mode = "text"
               /\ w[Len(EscapedEvent(c))].out = Append(r.out, c)
    <2>1. CASE c = "BS"
      <3>1. Short(EscapedEvent(c), "b") /\ "b" \in Chars
        BY <1>c, <2>1, EscapedEventIs
      <3>2. PICK e \in Readers : /\ e.mode = "escape" /\ e.out = r.out
                                 /\ w[Len(EscapedEvent(c))] = JsonReads[e]["b"]
        BY ONLY <1>3, <1>8, <3>1, r \in Readers, w \in Readings(JsonReads, r, EscapedEvent(c))
      <3>3. JsonReads[e]["b"] = JsonStep(e, "b")
        BY <3>1, ReadsType
      <3> QED BY <2>1, <3>1, <3>2, <3>3, JsonStepIs
    <2>2. CASE c # "BS"
      <3>1. EscapedEvent(c) = Escaped(c)
        BY <2>2, EscapedEventIs
      <3> QED BY <1>6, <1>8, <3>1
    <2> QED BY <2>1, <2>2
  <1>9. Inverts(JsonReads, EventCodes)
    BY <1>0, <1>8 DEF Inverts
  <1> QED BY <1>7, <1>9

\* escape and escape_event spell their text, and what they write is clean.
LEMMA Escaping ==
    ASSUME NEW s \in Seq(Alphabet)
    PROVE  /\ \E out \in Spellings(Codes, s) : escape(s) = out[Len(s)]
           /\ \E out \in Spellings(EventCodes, s) : escape_event(s) = out[Len(s)]
           /\ escape(s) \in Clean /\ escape_event(s) \in Clean
  <1>0. \A i \in 1..Len(s) : s[i] \in Alphabet
    BY ElementOfSeq
  <1>1. [i \in 1..Len(s) |-> Escaped(s[i])] = [i \in 1..Len(s) |-> Codes[s[i]]]
    BY <1>0 DEF Codes
  <1>2. [i \in 1..Len(s) |-> EscapedEvent(s[i])] = [i \in 1..Len(s) |-> EventCodes[s[i]]]
    BY <1>0 DEF EventCodes
  <1>3. PICK out \in Spellings(Codes, s) : escape(s) = out[Len(s)]
    BY <1>1, CodesType, SpellingIs DEF escape
  <1>4. PICK spelt \in Spellings(EventCodes, s) : escape_event(s) = spelt[Len(s)]
    BY <1>2, CodesType, SpellingIs DEF escape_event
  <1>5. escape(s) \in Clean
    BY <1>3, CodesType, SpellingClean
  <1>6. escape_event(s) \in Clean
    BY <1>4, CodesType, SpellingClean
  <1> QED BY <1>3, <1>4, <1>5, <1>6

\* The loop that starts right after the opening quote of an escaped text gives
\* the text back, whatever follows the closing quote.
LEMMA ReadText ==
    ASSUME NEW s \in Seq(Alphabet), NEW text \in Seq(Chars), Holds(text, escape(s))
    PROVE  FoldLeft(Step, Blank, text).out = s
  <1>1. PICK out \in Spellings(Codes, s) : escape(s) = out[Len(s)]
    BY Escaping
  <1>2. PICK st \in Readings(Reads, Blank, text) : FoldLeft(Step, Blank, text) = st[Len(text)]
    BY StepFolds
  <1>3. st[Len(text)].out = s
    <2>1. /\ Reads \in [Readers -> [Chars -> Readers]] /\ Codes \in [Alphabet -> Clean]
          /\ Inverts(Reads, Codes) /\ Closes(Reads)
      BY ReadsType, CodesType, Inverting, Closing
    <2>2. Holds(text, out[Len(s)])
      BY <1>1
    <2> QED BY ONLY <2>1, <2>2, s \in Seq(Alphabet), text \in Seq(Chars),
                    out \in Spellings(Codes, s), st \in Readings(Reads, Blank, text), ReadBack
  <1> QED BY <1>2, <1>3

\* The same for the loop of d2x and the escape of the Provider.
LEMMA ReadEvent ==
    ASSUME NEW s \in Seq(Alphabet), NEW text \in Seq(Chars), Holds(text, escape_event(s))
    PROVE  FoldLeft(JsonStep, Blank, text).out = s
  <1>1. PICK out \in Spellings(EventCodes, s) : escape_event(s) = out[Len(s)]
    BY Escaping
  <1>2. PICK st \in Readings(JsonReads, Blank, text) :
            FoldLeft(JsonStep, Blank, text) = st[Len(text)]
    BY JsonStepFolds
  <1>3. st[Len(text)].out = s
    <2>1. /\ JsonReads \in [Readers -> [Chars -> Readers]] /\ EventCodes \in [Alphabet -> Clean]
          /\ Inverts(JsonReads, EventCodes) /\ Closes(JsonReads)
      BY ReadsType, CodesType, Inverting, Closing
    <2>2. Holds(text, out[Len(s)])
      BY <1>1
    <2> QED BY ONLY <2>1, <2>2, s \in Seq(Alphabet), text \in Seq(Chars),
                    out \in Spellings(EventCodes, s), st \in Readings(JsonReads, Blank, text), ReadBack
  <1> QED BY <1>2, <1>3

-----------------------------------------------------------------------------
(* The layout of a line.                                                   *)

\* Places in a concatenation.
LEMMA JoinIs ==
    ASSUME NEW p \in Seq(Chars), NEW q \in Seq(Chars)
    PROVE  /\ Len(p) \in Nat /\ Len(q) \in Nat
           /\ p \o q \in Seq(Chars) /\ Len(p \o q) = Len(p) + Len(q)
           /\ \A i \in 1..Len(p) : (p \o q)[i] = p[i]
           /\ \A i \in 1..Len(q) : (p \o q)[Len(p) + i] = q[i]
  <1>1. Len(p) \in Nat /\ Len(q) \in Nat
    BY LenProperties
  <1>2. /\ p \o q \in Seq(Chars)
        /\ Len(p \o q) = Len(p) + Len(q)
        /\ \A i \in 1..Len(p) + Len(q) :
             (p \o q)[i] = IF i <= Len(p) THEN p[i] ELSE q[i - Len(p)]
    BY ONLY p \in Seq(Chars), q \in Seq(Chars), ConcatProperties
  <1>3. ASSUME NEW i \in 1..Len(p) PROVE (p \o q)[i] = p[i]
    BY <1>1, <1>2
  <1>4. ASSUME NEW i \in 1..Len(q) PROVE (p \o q)[Len(p) + i] = q[i]
    <2>1. /\ Len(p) + i \in 1..Len(p) + Len(q) /\ ~(Len(p) + i <= Len(p))
          /\ (Len(p) + i) - Len(p) = i
      BY ONLY <1>1, i \in 1..Len(q)
    <2>2. (p \o q)[Len(p) + i] = q[(Len(p) + i) - Len(p)]
      BY ONLY <1>2, <2>1
    <2> QED BY ONLY <2>1, <2>2
  <1> QED BY <1>1, <1>2, <1>3, <1>4

\* A sequence of one character.
LEMMA Single ==
    ASSUME NEW c \in Chars
    PROVE  <<c>> \in Seq(Chars) /\ Len(<<c>>) = 1 /\ <<c>>[1] = c
  OBVIOUS

\* Places in a quoted text.
LEMMA QuotedIs ==
    ASSUME NEW s \in Seq(Chars)
    PROVE  /\ Quoted(s) \in Seq(Chars) /\ Len(s) \in Nat /\ Len(Quoted(s)) = Len(s) + 2
           /\ Quoted(s)[1] = Quote /\ Quoted(s)[Len(s) + 2] = Quote
           /\ \A i \in 1..Len(s) : Quoted(s)[1 + i] = s[i]
  <1> DEFINE p == <<Quote>>
             q == p \o s
             t == q \o p
  <1>1. p \in Seq(Chars) /\ Len(p) = 1 /\ p[1] = Quote
    BY Single DEF Chars
  <1> HIDE DEF p
  <1>2. /\ Len(s) \in Nat /\ q \in Seq(Chars) /\ Len(q) = 1 + Len(s) /\ q[1] = Quote
        /\ \A i \in 1..Len(s) : q[1 + i] = s[i]
    <2>1. 1 \in 1..Len(p)
      BY <1>1
    <2> QED BY <1>1, <2>1, JoinIs
  <1> HIDE DEF q
  <1>3. /\ t \in Seq(Chars) /\ Len(t) = Len(q) + 1
        /\ \A i \in 1..Len(q) : t[i] = q[i]
        /\ \A i \in 1..Len(p) : t[Len(q) + i] = p[i]
    <2>1. /\ t \in Seq(Chars) /\ Len(t) = Len(q) + Len(p)
          /\ \A i \in 1..Len(q) : t[i] = q[i]
          /\ \A i \in 1..Len(p) : t[Len(q) + i] = p[i]
      BY ONLY <1>1, <1>2, JoinIs
    <2> QED BY ONLY <1>1, <2>1
  <1> HIDE DEF t
  <1>4. 1 \in 1..Len(q) /\ 1 \in 1..Len(p) /\ \A i \in 1..Len(s) : 1 + i \in 1..Len(q)
    BY <1>1, <1>2
  <1>5. t[1] = Quote /\ \A i \in 1..Len(s) : t[1 + i] = s[i]
    BY <1>2, <1>3, <1>4
  <1>6. t[Len(s) + 2] = Quote
    <2>1. Len(q) + 1 = Len(s) + 2
      BY <1>2
    <2> QED BY <1>1, <1>3, <1>4, <2>1
  <1>7. Len(t) = Len(s) + 2
    BY <1>2, <1>3
  <1>8. Quoted(s) = t
    BY DEF Quoted, t, q, p
  <1> QED BY <1>2, <1>3, <1>5, <1>6, <1>7, <1>8

\* What field searches for: a key between its quotes, and its colon.
LEMMA NeedleIs ==
    ASSUME NEW k \in Chars
    PROVE  LET q == Quoted(<<k>>) \o <<":">>
           IN  /\ q \in Seq(Chars) /\ Len(q) = 4
               /\ q[1] = Quote /\ q[2] = k /\ q[3] = Quote /\ q[4] = ":"
  <1> DEFINE o == <<k>>
             p == Quoted(o)
             c == <<":">>
             q == p \o c
  <1>0. o \in Seq(Chars) /\ Len(o) = 1 /\ o[1] = k
    BY Single
  <1>1. c \in Seq(Chars) /\ Len(c) = 1 /\ c[1] = ":"
    BY Single DEF Chars, Plain
  <1> HIDE DEF o, c
  <1>2. /\ p \in Seq(Chars) /\ Len(p) = Len(o) + 2
        /\ p[1] = Quote /\ p[Len(o) + 2] = Quote
        /\ \A i \in 1..Len(o) : p[1 + i] = o[i]
    BY ONLY <1>0, QuotedIs
  <1> HIDE DEF p
  <1>3. Len(p) = 3 /\ p[2] = k /\ p[3] = Quote
    <2>1. 1 \in 1..Len(o) /\ 1 + 1 = 2 /\ 1 + 2 = 3
      BY <1>0
    <2> QED BY <1>0, <1>2, <2>1
  <1>4. /\ q \in Seq(Chars) /\ Len(q) = Len(p) + Len(c)
        /\ \A i \in 1..Len(p) : q[i] = p[i]
        /\ \A i \in 1..Len(c) : q[Len(p) + i] = c[i]
    BY ONLY <1>1, <1>2, JoinIs
  <1> HIDE DEF q
  <1>5. /\ Len(q) = 4 /\ q[1] = Quote /\ q[2] = k /\ q[3] = Quote /\ q[4] = ":"
    <2>1. 1 \in 1..Len(p) /\ 2 \in 1..Len(p) /\ 3 \in 1..Len(p) /\ 1 \in 1..Len(c) /\ 3 + 1 = 4
      BY <1>1, <1>3
    <2>2. Len(q) = 4 /\ q[1] = p[1] /\ q[2] = p[2] /\ q[3] = p[3]
      BY ONLY <1>1, <1>3, <1>4, <2>1
    <2>3. q[4] = ":"
      BY ONLY <1>1, <1>3, <1>4, <2>1
    <2> QED BY ONLY <1>2, <1>3, <2>2, <2>3
  <1> QED BY <1>4, <1>5 DEF q, p, o, c

\* Places in a member of an object.
LEMMA MemberIs ==
    ASSUME NEW k \in Chars, NEW v \in Seq(Chars)
    PROVE  /\ Member(k, v) \in Seq(Chars) /\ Len(v) \in Nat /\ Len(Member(k, v)) = Len(v) + 4
           /\ Member(k, v)[1] = Quote /\ Member(k, v)[2] = k
           /\ Member(k, v)[3] = Quote /\ Member(k, v)[4] = ":"
           /\ \A i \in 1..Len(v) : Member(k, v)[4 + i] = v[i]
  <1> DEFINE q == Quoted(<<k>>) \o <<":">>
             t == q \o v
  <1>1. /\ q \in Seq(Chars) /\ Len(q) = 4
        /\ q[1] = Quote /\ q[2] = k /\ q[3] = Quote /\ q[4] = ":"
    BY NeedleIs
  <1> HIDE DEF q
  <1>2. /\ Len(v) \in Nat /\ t \in Seq(Chars) /\ Len(t) = Len(q) + Len(v)
        /\ \A i \in 1..Len(q) : t[i] = q[i]
        /\ \A i \in 1..Len(v) : t[Len(q) + i] = v[i]
    BY ONLY <1>1, v \in Seq(Chars), JoinIs
  <1> HIDE DEF t
  <1>3. t[1] = Quote /\ t[2] = k /\ t[3] = Quote /\ t[4] = ":" /\ Len(t) = Len(v) + 4
    <2>1. 1 \in 1..Len(q) /\ 2 \in 1..Len(q) /\ 3 \in 1..Len(q) /\ 4 \in 1..Len(q)
      BY <1>1
    <2> QED BY <1>1, <1>2, <2>1
  <1>4. \A i \in 1..Len(v) : t[4 + i] = v[i]
    BY <1>1, <1>2
  <1>5. Member(k, v) = t
    BY DEF Member, t, q
  <1> QED BY <1>2, <1>3, <1>4, <1>5

\* A member whose value is a quoted text.
LEMMA TextMemberIs ==
    ASSUME NEW k \in Chars, NEW s \in Seq(Chars)
    PROVE  /\ Member(k, Quoted(s)) \in Seq(Chars) /\ Len(s) \in Nat
           /\ Len(Member(k, Quoted(s))) = Len(s) + 6
           /\ Member(k, Quoted(s))[1] = Quote /\ Member(k, Quoted(s))[2] = k
           /\ Member(k, Quoted(s))[3] = Quote /\ Member(k, Quoted(s))[4] = ":"
           /\ Member(k, Quoted(s))[5] = Quote /\ Member(k, Quoted(s))[Len(s) + 6] = Quote
           /\ \A i \in 1..Len(s) : Member(k, Quoted(s))[5 + i] = s[i]
  <1> DEFINE v == Quoted(s)
             t == Member(k, v)
  <1>1. /\ v \in Seq(Chars) /\ Len(s) \in Nat /\ Len(v) = Len(s) + 2
        /\ v[1] = Quote /\ v[Len(s) + 2] = Quote
        /\ \A i \in 1..Len(s) : v[1 + i] = s[i]
    BY QuotedIs
  <1> HIDE DEF v
  <1>2. /\ t \in Seq(Chars) /\ Len(t) = Len(v) + 4
        /\ t[1] = Quote /\ t[2] = k /\ t[3] = Quote /\ t[4] = ":"
        /\ \A i \in 1..Len(v) : t[4 + i] = v[i]
    <2>1. v \in Seq(Chars)
      BY <1>1
    <2> QED BY ONLY <2>1, k \in Chars, MemberIs
  <1> HIDE DEF t
  <1>3. Len(t) = Len(s) + 6
    BY <1>1, <1>2
  <1>4. t[5] = Quote /\ t[Len(s) + 6] = Quote
    <2>1. /\ 1 \in 1..Len(v) /\ 4 + 1 = 5
          /\ Len(s) + 2 \in 1..Len(v) /\ 4 + (Len(s) + 2) = Len(s) + 6
      BY <1>1
    <2> QED BY <1>1, <1>2, <2>1
  <1>5. ASSUME NEW i \in 1..Len(s) PROVE t[5 + i] = s[i]
    <2>1. 1 + i \in 1..Len(v) /\ 4 + (1 + i) = 5 + i
      BY <1>1
    <2>2. t[4 + (1 + i)] = v[1 + i]
      BY <1>2, <2>1
    <2> QED BY <1>1, <2>1, <2>2
  <1> QED BY <1>1, <1>2, <1>3, <1>4, <1>5 DEF t, v

\* A member whose value is one bare character.
LEMMA BareMemberIs ==
    ASSUME NEW k \in Chars, NEW c \in Chars
    PROVE  /\ Member(k, <<c>>) \in Seq(Chars) /\ Len(Member(k, <<c>>)) = 5
           /\ Member(k, <<c>>)[1] = Quote /\ Member(k, <<c>>)[2] = k
           /\ Member(k, <<c>>)[3] = Quote /\ Member(k, <<c>>)[4] = ":"
           /\ Member(k, <<c>>)[5] = c
  <1> DEFINE s == <<c>>
             t == Member(k, s)
  <1>1. s \in Seq(Chars) /\ Len(s) = 1 /\ s[1] = c
    BY Single
  <1> HIDE DEF s
  <1>2. /\ t \in Seq(Chars) /\ Len(t) = Len(s) + 4
        /\ t[1] = Quote /\ t[2] = k /\ t[3] = Quote /\ t[4] = ":"
        /\ \A i \in 1..Len(s) : t[4 + i] = s[i]
    BY ONLY <1>1, k \in Chars, MemberIs
  <1> HIDE DEF t
  <1>3. 1 \in 1..Len(s) /\ 4 + 1 = 5
    BY <1>1
  <1>4. t[5] = c /\ Len(t) = 5
    BY <1>1, <1>2, <1>3
  <1> QED BY <1>2, <1>4 DEF t, s

\* A line of the side channel with the texts W and M, escaped already.
Laid(W, M) ==
    <<LeftBrace>> \o Member("w", Quoted(W)) \o <<Comma>>
                  \o Member("m", Quoted(M)) \o <<Comma>>
                  \o Member("n", <<"7">>) \o <<RightBrace>>

\* Where everything stands in a line of the side channel.
Layout(line, W, M) ==
    LET a == Len(W)
        b == Len(W) + Len(M)
    IN  /\ line \in Seq(Chars) /\ Len(line) = b + 21
        /\ line[1] = LeftBrace /\ line[2] = Quote /\ line[3] = "w" /\ line[4] = Quote
        /\ line[5] = ":" /\ line[6] = Quote
        /\ \A i \in 1..Len(W) : line[6 + i] = W[i]
        /\ line[a + 7] = Quote /\ line[a + 8] = Comma
        /\ line[a + 9] = Quote /\ line[a + 10] = "m" /\ line[a + 11] = Quote
        /\ line[a + 12] = ":" /\ line[a + 13] = Quote
        /\ \A i \in 1..Len(M) : line[a + 13 + i] = M[i]
        /\ line[b + 14] = Quote /\ line[b + 15] = Comma
        /\ line[b + 16] = Quote /\ line[b + 17] = "n" /\ line[b + 18] = Quote
        /\ line[b + 19] = ":" /\ line[b + 20] = "7" /\ line[b + 21] = RightBrace

\* A line is laid out as report_assert writes it.
LEMMA LineIs ==
    ASSUME NEW W \in Seq(Chars), NEW M \in Seq(Chars)
    PROVE  Layout(Laid(W, M), W, M)
  <1> DEFINE A == Len(W)
             B == Len(M)
             lb == <<LeftBrace>>
             co == <<Comma>>
             rb == <<RightBrace>>
             w == Member("w", Quoted(W))
             m == Member("m", Quoted(M))
             n == Member("n", <<"7">>)
             l1 == lb \o w
             l2 == l1 \o co
             l3 == l2 \o m
             l4 == l3 \o co
             l5 == l4 \o n
             l6 == l5 \o rb
  <1>1. /\ LeftBrace \in Chars /\ RightBrace \in Chars /\ Comma \in Chars
        /\ "w" \in Chars /\ "m" \in Chars /\ "n" \in Chars /\ "7" \in Chars
    BY DEF Chars, Plain
  <1>2. /\ lb \in Seq(Chars) /\ Len(lb) = 1 /\ lb[1] = LeftBrace
        /\ co \in Seq(Chars) /\ Len(co) = 1 /\ co[1] = Comma
        /\ rb \in Seq(Chars) /\ Len(rb) = 1 /\ rb[1] = RightBrace
    BY <1>1, Single
  <1>3. /\ w \in Seq(Chars) /\ A \in Nat /\ Len(w) = A + 6
        /\ w[1] = Quote /\ w[2] = "w" /\ w[3] = Quote /\ w[4] = ":" /\ w[5] = Quote
        /\ w[A + 6] = Quote /\ \A i \in 1..A : w[5 + i] = W[i]
    BY <1>1, TextMemberIs
  <1>4. /\ m \in Seq(Chars) /\ B \in Nat /\ Len(m) = B + 6
        /\ m[1] = Quote /\ m[2] = "m" /\ m[3] = Quote /\ m[4] = ":" /\ m[5] = Quote
        /\ m[B + 6] = Quote /\ \A i \in 1..B : m[5 + i] = M[i]
    BY <1>1, TextMemberIs
  <1>5. /\ n \in Seq(Chars) /\ Len(n) = 5
        /\ n[1] = Quote /\ n[2] = "n" /\ n[3] = Quote /\ n[4] = ":" /\ n[5] = "7"
    BY <1>1, BareMemberIs
  <1> HIDE DEF A, B, lb, co, rb, w, m, n
  <1>6. /\ l1 \in Seq(Chars) /\ Len(l1) = A + 7
        /\ \A i \in 1..(1) : l1[i] = lb[i]
        /\ \A i \in 1..(A + 6) : l1[1 + i] = w[i]
    <2>1. /\ lb \in Seq(Chars) /\ w \in Seq(Chars) /\ Len(lb) = 1 /\ Len(w) = A + 6
      BY ONLY <1>2, <1>3
    <2>2. /\ l1 \in Seq(Chars) /\ Len(l1) = Len(lb) + Len(w)
          /\ \A i \in 1..Len(lb) : l1[i] = lb[i]
          /\ \A i \in 1..Len(w) : l1[Len(lb) + i] = w[i]
      BY ONLY <2>1, JoinIs
    <2>3. (1) + (A + 6) = A + 7
      BY ONLY <1>3, <1>4
    <2> QED BY ONLY <2>1, <2>2, <2>3
  <1> HIDE DEF l1
  <1>7. /\ l2 \in Seq(Chars) /\ Len(l2) = A + 8
        /\ \A i \in 1..(A + 7) : l2[i] = l1[i]
        /\ \A i \in 1..(1) : l2[A + 7 + i] = co[i]
    <2>1. /\ l1 \in Seq(Chars) /\ co \in Seq(Chars) /\ Len(l1) = A + 7 /\ Len(co) = 1
      BY ONLY <1>2, <1>6
    <2>2. /\ l2 \in Seq(Chars) /\ Len(l2) = Len(l1) + Len(co)
          /\ \A i \in 1..Len(l1) : l2[i] = l1[i]
          /\ \A i \in 1..Len(co) : l2[Len(l1) + i] = co[i]
      BY ONLY <2>1, JoinIs
    <2>3. (A + 7) + (1) = A + 8
      BY ONLY <1>3, <1>4
    <2> QED BY ONLY <2>1, <2>2, <2>3
  <1> HIDE DEF l2
  <1>8. /\ l3 \in Seq(Chars) /\ Len(l3) = A + B + 14
        /\ \A i \in 1..(A + 8) : l3[i] = l2[i]
        /\ \A i \in 1..(B + 6) : l3[A + 8 + i] = m[i]
    <2>1. /\ l2 \in Seq(Chars) /\ m \in Seq(Chars) /\ Len(l2) = A + 8 /\ Len(m) = B + 6
      BY ONLY <1>4, <1>7
    <2>2. /\ l3 \in Seq(Chars) /\ Len(l3) = Len(l2) + Len(m)
          /\ \A i \in 1..Len(l2) : l3[i] = l2[i]
          /\ \A i \in 1..Len(m) : l3[Len(l2) + i] = m[i]
      BY ONLY <2>1, JoinIs
    <2>3. (A + 8) + (B + 6) = A + B + 14
      BY ONLY <1>3, <1>4
    <2> QED BY ONLY <2>1, <2>2, <2>3
  <1> HIDE DEF l3
  <1>9. /\ l4 \in Seq(Chars) /\ Len(l4) = A + B + 15
        /\ \A i \in 1..(A + B + 14) : l4[i] = l3[i]
        /\ \A i \in 1..(1) : l4[A + B + 14 + i] = co[i]
    <2>1. /\ l3 \in Seq(Chars) /\ co \in Seq(Chars) /\ Len(l3) = A + B + 14 /\ Len(co) = 1
      BY ONLY <1>2, <1>8
    <2>2. /\ l4 \in Seq(Chars) /\ Len(l4) = Len(l3) + Len(co)
          /\ \A i \in 1..Len(l3) : l4[i] = l3[i]
          /\ \A i \in 1..Len(co) : l4[Len(l3) + i] = co[i]
      BY ONLY <2>1, JoinIs
    <2>3. (A + B + 14) + (1) = A + B + 15
      BY ONLY <1>3, <1>4
    <2> QED BY ONLY <2>1, <2>2, <2>3
  <1> HIDE DEF l4
  <1>10. /\ l5 \in Seq(Chars) /\ Len(l5) = A + B + 20
         /\ \A i \in 1..(A + B + 15) : l5[i] = l4[i]
         /\ \A i \in 1..(5) : l5[A + B + 15 + i] = n[i]
    <2>1. /\ l4 \in Seq(Chars) /\ n \in Seq(Chars) /\ Len(l4) = A + B + 15 /\ Len(n) = 5
      BY ONLY <1>5, <1>9
    <2>2. /\ l5 \in Seq(Chars) /\ Len(l5) = Len(l4) + Len(n)
          /\ \A i \in 1..Len(l4) : l5[i] = l4[i]
          /\ \A i \in 1..Len(n) : l5[Len(l4) + i] = n[i]
      BY ONLY <2>1, JoinIs
    <2>3. (A + B + 15) + (5) = A + B + 20
      BY ONLY <1>3, <1>4
    <2> QED BY ONLY <2>1, <2>2, <2>3
  <1> HIDE DEF l5
  <1>11. /\ l6 \in Seq(Chars) /\ Len(l6) = A + B + 21
         /\ \A i \in 1..(A + B + 20) : l6[i] = l5[i]
         /\ \A i \in 1..(1) : l6[A + B + 20 + i] = rb[i]
    <2>1. /\ l5 \in Seq(Chars) /\ rb \in Seq(Chars) /\ Len(l5) = A + B + 20 /\ Len(rb) = 1
      BY ONLY <1>2, <1>10
    <2>2. /\ l6 \in Seq(Chars) /\ Len(l6) = Len(l5) + Len(rb)
          /\ \A i \in 1..Len(l5) : l6[i] = l5[i]
          /\ \A i \in 1..Len(rb) : l6[Len(l5) + i] = rb[i]
      BY ONLY <2>1, JoinIs
    <2>3. (A + B + 20) + (1) = A + B + 21
      BY ONLY <1>3, <1>4
    <2> QED BY ONLY <2>1, <2>2, <2>3
  <1> HIDE DEF l6
  <1>p4. ASSUME NEW i \in 1..(A + B + 15) PROVE l6[i] = l4[i]
    <2>1. i \in 1..(A + B + 20)
      BY ONLY <1>3, <1>4, i \in 1..(A + B + 15)
    <2>2. l6[i] = l5[i]
      BY <1>11, <2>1
    <2>3. l5[i] = l4[i]
      BY <1>10
    <2> QED BY ONLY <2>2, <2>3
  <1>p3. ASSUME NEW i \in 1..(A + B + 14) PROVE l6[i] = l3[i]
    <2>1. i \in 1..(A + B + 15)
      BY ONLY <1>3, <1>4, i \in 1..(A + B + 14)
    <2>2. l6[i] = l4[i]
      BY <1>p4, <2>1
    <2>3. l4[i] = l3[i]
      BY <1>9
    <2> QED BY ONLY <2>2, <2>3
  <1>p2. ASSUME NEW i \in 1..(A + 8) PROVE l6[i] = l2[i]
    <2>1. i \in 1..(A + B + 14)
      BY ONLY <1>3, <1>4, i \in 1..(A + 8)
    <2>2. l6[i] = l3[i]
      BY <1>p3, <2>1
    <2>3. l3[i] = l2[i]
      BY <1>8
    <2> QED BY ONLY <2>2, <2>3
  <1>p1. ASSUME NEW i \in 1..(A + 7) PROVE l6[i] = l1[i]
    <2>1. i \in 1..(A + 8)
      BY ONLY <1>3, <1>4, i \in 1..(A + 7)
    <2>2. l6[i] = l2[i]
      BY <1>p2, <2>1
    <2>3. l2[i] = l1[i]
      BY <1>7
    <2> QED BY ONLY <2>2, <2>3
  <1>12. l6[1] = LeftBrace
    <2>1. 1 \in 1..(A + 7) /\ 1 \in 1..1 /\ 1 = 1
      BY ONLY <1>3, <1>4
    <2>2. l6[1] = l1[1]
      BY <1>p1, <2>1
    <2>3. l1[1] = lb[1]
      BY <1>6, <2>1
    <2> QED BY <1>2, <2>1, <2>2, <2>3
  <1>13. ASSUME NEW i \in 1..(A + 6) PROVE l6[1 + i] = w[i]
    <2>1. 1 + i \in 1..(A + 7)
      BY ONLY <1>3, <1>4, i \in 1..(A + 6)
    <2>2. l6[1 + i] = l1[1 + i]
      BY <1>p1, <2>1
    <2>3. l1[1 + i] = w[i]
      BY <1>6
    <2> QED BY ONLY <2>2, <2>3
  <1>14. l6[A + 8] = Comma
    <2>1. A + 8 \in 1..(A + 8) /\ 1 \in 1..1 /\ A + 7 + 1 = A + 8
      BY ONLY <1>3, <1>4
    <2>2. l6[A + 8] = l2[A + 8]
      BY <1>p2, <2>1
    <2>3. l2[A + 7 + 1] = co[1]
      BY <1>7, <2>1
    <2> QED BY <1>2, <2>1, <2>2, <2>3
  <1>15. ASSUME NEW i \in 1..(B + 6) PROVE l6[A + 8 + i] = m[i]
    <2>1. A + 8 + i \in 1..(A + B + 14)
      BY ONLY <1>3, <1>4, i \in 1..(B + 6)
    <2>2. l6[A + 8 + i] = l3[A + 8 + i]
      BY <1>p3, <2>1
    <2>3. l3[A + 8 + i] = m[i]
      BY <1>8
    <2> QED BY ONLY <2>2, <2>3
  <1>16. l6[A + B + 15] = Comma
    <2>1. A + B + 15 \in 1..(A + B + 15) /\ 1 \in 1..1 /\ A + B + 14 + 1 = A + B + 15
      BY ONLY <1>3, <1>4
    <2>2. l6[A + B + 15] = l4[A + B + 15]
      BY <1>p4, <2>1
    <2>3. l4[A + B + 14 + 1] = co[1]
      BY <1>9, <2>1
    <2> QED BY <1>2, <2>1, <2>2, <2>3
  <1>17. ASSUME NEW i \in 1..(5) PROVE l6[A + B + 15 + i] = n[i]
    <2>1. A + B + 15 + i \in 1..(A + B + 20)
      BY ONLY <1>3, <1>4, i \in 1..(5)
    <2>2. l6[A + B + 15 + i] = l5[A + B + 15 + i]
      BY <1>11, <2>1
    <2>3. l5[A + B + 15 + i] = n[i]
      BY ONLY <1>10, i \in 1..(5), Zenon
    <2> QED BY ONLY <2>2, <2>3
  <1>18. l6[A + B + 21] = RightBrace
    <2>1. 1 \in 1..1 /\ A + B + 20 + 1 = A + B + 21
      BY ONLY <1>3, <1>4
    <2>2. l6[A + B + 20 + 1] = rb[1]
      BY ONLY <1>11, <2>1, Zenon
    <2> QED BY <1>2, <2>1, <2>2
  <1>19. /\ l6[2] = Quote /\ l6[3] = "w" /\ l6[4] = Quote /\ l6[5] = ":" /\ l6[6] = Quote
         /\ l6[A + 7] = Quote
    <2>1. /\ 1 \in 1..(A + 6) /\ 2 \in 1..(A + 6) /\ 3 \in 1..(A + 6) /\ 4 \in 1..(A + 6)
          /\ 5 \in 1..(A + 6) /\ A + 6 \in 1..(A + 6)
          /\ 1 + 1 = 2 /\ 1 + 2 = 3 /\ 1 + 3 = 4 /\ 1 + 4 = 5 /\ 1 + 5 = 6 /\ 1 + (A + 6) = A + 7
      BY ONLY <1>3
    <2> QED BY ONLY <1>3, <1>13, <2>1
  <1>20. ASSUME NEW i \in 1..A PROVE l6[6 + i] = W[i]
    <2>1. 5 + i \in 1..(A + 6) /\ 1 + (5 + i) = 6 + i
      BY ONLY <1>3, i \in 1..A
    <2>2. l6[1 + (5 + i)] = w[5 + i]
      BY <1>13, <2>1
    <2> QED BY ONLY <1>3, <2>1, <2>2, i \in 1..A
  <1>21. /\ l6[A + 9] = Quote /\ l6[A + 10] = "m" /\ l6[A + 11] = Quote /\ l6[A + 12] = ":"
         /\ l6[A + 13] = Quote /\ l6[A + B + 14] = Quote
    <2>1. /\ 1 \in 1..(B + 6) /\ 2 \in 1..(B + 6) /\ 3 \in 1..(B + 6) /\ 4 \in 1..(B + 6)
          /\ 5 \in 1..(B + 6) /\ B + 6 \in 1..(B + 6)
          /\ A + 8 + 1 = A + 9 /\ A + 8 + 2 = A + 10 /\ A + 8 + 3 = A + 11 /\ A + 8 + 4 = A + 12
          /\ A + 8 + 5 = A + 13 /\ A + 8 + (B + 6) = A + B + 14
      BY ONLY <1>3, <1>4
    <2> QED BY ONLY <1>4, <1>15, <2>1
  <1>22. ASSUME NEW i \in 1..B PROVE l6[A + 13 + i] = M[i]
    <2>1. 5 + i \in 1..(B + 6) /\ A + 8 + (5 + i) = A + 13 + i
      BY ONLY <1>3, <1>4, i \in 1..B
    <2>2. l6[A + 8 + (5 + i)] = m[5 + i]
      BY <1>15, <2>1
    <2> QED BY ONLY <1>4, <2>1, <2>2, i \in 1..B
  <1>23. /\ l6[A + B + 16] = Quote /\ l6[A + B + 17] = "n" /\ l6[A + B + 18] = Quote
         /\ l6[A + B + 19] = ":" /\ l6[A + B + 20] = "7"
    <2>1. /\ 1 \in 1..5 /\ 2 \in 1..5 /\ 3 \in 1..5 /\ 4 \in 1..5 /\ 5 \in 1..5
          /\ A + B + 15 + 1 = A + B + 16 /\ A + B + 15 + 2 = A + B + 17
          /\ A + B + 15 + 3 = A + B + 18 /\ A + B + 15 + 4 = A + B + 19
          /\ A + B + 15 + 5 = A + B + 20
      BY ONLY <1>3, <1>4
    <2> QED BY ONLY <1>5, <1>17, <2>1
  <1>24. Layout(l6, W, M)
    BY <1>11, <1>12, <1>14, <1>16, <1>18, <1>19, <1>20, <1>21, <1>22, <1>23 DEF Layout, A, B
  <1>25. Laid(W, M) = l6
    BY DEF Laid, l6, l5, l4, l3, l2, l1, lb, co, rb, w, m, n
  <1> QED BY <1>24, <1>25

\* Every place of a line is one of the layout's, or inside one of the two texts.
LEMMA Regions ==
    ASSUME NEW a \in Nat, NEW c \in Nat, NEW x \in 1..(a + c + 21)
    PROVE  \/ x \in {1, 2, 3, 4, 5, 6}
           \/ \E i \in 1..a : x = 6 + i
           \/ x \in {a + 7, a + 8, a + 9, a + 10, a + 11, a + 12, a + 13}
           \/ \E i \in 1..c : x = a + 13 + i
           \/ x \in {a + c + 14, a + c + 15, a + c + 16, a + c + 17, a + c + 18,
                     a + c + 19, a + c + 20, a + c + 21}
  <1>1. CASE x <= 6
    BY <1>1
  <1>2. CASE 6 < x /\ x <= a + 6
    <2>1. x - 6 \in 1..a /\ x = 6 + (x - 6)
      BY <1>2
    <2> QED BY <2>1
  <1>3. CASE a + 6 < x /\ x <= a + 13
    BY <1>3
  <1>4. CASE a + 13 < x /\ x <= a + c + 13
    <2>1. x - (a + 13) \in 1..c /\ x = a + 13 + (x - (a + 13))
      BY <1>4
    <2> QED BY <2>1
  <1>5. CASE a + c + 13 < x
    BY <1>5
  <1> QED BY <1>1, <1>2, <1>3, <1>4, <1>5

\* The layout's characters are none of each other's, and no line break.
LEMMA Apart ==
    /\ Quote \notin {":", "w", "m", "n", "7", "\\", "\n"}
    /\ Comma \notin {":", "w", "m", "n", "7", "\\", "\n"}
    /\ LeftBrace \notin {":", "w", "m", "n", "7", "\\", "\n"}
    /\ RightBrace \notin {":", "w", "m", "n", "7", "\\", "\n"}
  BY Marks DEF Plain

\* No place of a line holds a line break.
LEMMA LineUnbroken ==
    ASSUME NEW W \in Clean, NEW M \in Clean, NEW line, Layout(line, W, M)
    PROVE  \A x \in DOMAIN line : line[x] # "\n"
  <1>1. /\ Len(W) \in Nat /\ Len(M) \in Nat
        /\ \A i \in 1..Len(W) : W[i] # "\n"
        /\ \A i \in 1..Len(M) : M[i] # "\n"
    BY LenProperties DEF Clean
  <1>2. PICK a \in Nat : a = Len(W)
    BY <1>1
  <1>3. PICK c \in Nat : c = Len(M)
    BY <1>1
  <1>4. DOMAIN line = 1..(a + c + 21)
    BY <1>2, <1>3 DEF Layout
  <1>5. /\ line[1] = LeftBrace /\ line[2] = Quote /\ line[3] = "w" /\ line[4] = Quote
        /\ line[5] = ":" /\ line[6] = Quote
        /\ \A i \in 1..a : line[6 + i] = W[i]
        /\ line[a + 7] = Quote /\ line[a + 8] = Comma
        /\ line[a + 9] = Quote /\ line[a + 10] = "m" /\ line[a + 11] = Quote
        /\ line[a + 12] = ":" /\ line[a + 13] = Quote
        /\ \A i \in 1..c : line[a + 13 + i] = M[i]
        /\ line[a + c + 14] = Quote /\ line[a + c + 15] = Comma
        /\ line[a + c + 16] = Quote /\ line[a + c + 17] = "n" /\ line[a + c + 18] = Quote
        /\ line[a + c + 19] = ":" /\ line[a + c + 20] = "7" /\ line[a + c + 21] = RightBrace
    BY <1>2, <1>3 DEF Layout
  <1>6. ASSUME NEW x \in 1..(a + c + 21) PROVE line[x] # "\n"
    <2>1. \/ x \in {1, 2, 3, 4, 5, 6}
          \/ \E i \in 1..a : x = 6 + i
          \/ x \in {a + 7, a + 8, a + 9, a + 10, a + 11, a + 12, a + 13}
          \/ \E i \in 1..c : x = a + 13 + i
          \/ x \in {a + c + 14, a + c + 15, a + c + 16, a + c + 17, a + c + 18,
                    a + c + 19, a + c + 20, a + c + 21}
      BY Regions
    <2>2. CASE \E i \in 1..a : x = 6 + i
      <3>1. PICK i \in 1..a : x = 6 + i
        BY <2>2
      <3>2. line[6 + i] = W[i] /\ W[i] # "\n"
        BY <1>1, <1>2, <1>5
      <3> QED BY <3>1, <3>2
    <2>3. CASE \E i \in 1..c : x = a + 13 + i
      <3>1. PICK i \in 1..c : x = a + 13 + i
        BY <2>3
      <3>2. line[a + 13 + i] = M[i] /\ M[i] # "\n"
        BY <1>1, <1>3, <1>5
      <3> QED BY <3>1, <3>2
    <2>4. CASE x \in {1, 2, 3, 4, 5, 6}
      BY ONLY <1>5, <2>4, Apart
    <2>5. CASE x \in {a + 7, a + 8, a + 9, a + 10, a + 11, a + 12, a + 13}
      BY ONLY <1>5, <2>5, Apart
    <2>6. CASE x \in {a + c + 14, a + c + 15, a + c + 16, a + c + 17, a + c + 18,
                      a + c + 19, a + c + 20, a + c + 21}
      BY ONLY <1>5, <2>6, Apart
    <2> QED BY <2>1, <2>2, <2>3, <2>4, <2>5, <2>6
  <1> QED BY <1>4, <1>6

\* The three keys, and where a reader looks for them.
Keys == {"w", "m", "n"}
\* Where the value of a key begins, after texts of lengths a and c.
Place(k, a, c) == IF k = "w" THEN 6 ELSE IF k = "m" THEN a + 13 ELSE a + c + 20

\* A key between quotes with its colon stands nowhere but in its own place: a
\* quote inside a text follows a backslash.
LEMMA KeyPlace ==
    ASSUME NEW W \in Clean, NEW M \in Clean, NEW line, Layout(line, W, M),
           NEW k \in Keys, NEW j \in 5..(Len(W) + Len(M) + 22)
    PROVE  (line[j - 4] = Quote /\ line[j - 3] = k /\ line[j - 2] = Quote /\ line[j - 1] = ":")
              <=> j = Place(k, Len(W), Len(M))
  <1>1. /\ Len(W) \in Nat /\ Len(M) \in Nat
        /\ \A i \in 1..Len(W) : W[i] = Quote => i > 1 /\ W[i - 1] = "\\"
        /\ \A i \in 1..Len(M) : M[i] = Quote => i > 1 /\ M[i - 1] = "\\"
    BY LenProperties DEF Clean
  <1>2. PICK a \in Nat : a = Len(W)
    BY <1>1
  <1>3. PICK c \in Nat : c = Len(M)
    BY <1>1
  <1>5. /\ line[1] = LeftBrace /\ line[2] = Quote /\ line[3] = "w" /\ line[4] = Quote
        /\ line[5] = ":" /\ line[6] = Quote
        /\ \A i \in 1..a : line[6 + i] = W[i]
        /\ line[a + 7] = Quote /\ line[a + 8] = Comma
        /\ line[a + 9] = Quote /\ line[a + 10] = "m" /\ line[a + 11] = Quote
        /\ line[a + 12] = ":" /\ line[a + 13] = Quote
        /\ \A i \in 1..c : line[a + 13 + i] = M[i]
        /\ line[a + c + 14] = Quote /\ line[a + c + 15] = Comma
        /\ line[a + c + 16] = Quote /\ line[a + c + 17] = "n" /\ line[a + c + 18] = Quote
        /\ line[a + c + 19] = ":" /\ line[a + c + 20] = "7" /\ line[a + c + 21] = RightBrace
    BY <1>2, <1>3 DEF Layout
  <1>6. ASSUME j = Place(k, a, c)
        PROVE  line[j - 4] = Quote /\ line[j - 3] = k /\ line[j - 2] = Quote /\ line[j - 1] = ":"
    <2>1. CASE k = "w"
      <3>1. j = 6 /\ j - 4 = 2 /\ j - 3 = 3 /\ j - 2 = 4 /\ j - 1 = 5
        BY <1>6, <2>1 DEF Place
      <3> QED BY ONLY <1>5, <2>1, <3>1
    <2>2. CASE k = "m"
      <3>1. j - 4 = a + 9 /\ j - 3 = a + 10 /\ j - 2 = a + 11 /\ j - 1 = a + 12
        BY <1>6, <2>2 DEF Place
      <3> QED BY ONLY <1>5, <2>2, <3>1
    <2>3. CASE k = "n"
      <3>1. j - 4 = a + c + 16 /\ j - 3 = a + c + 17 /\ j - 2 = a + c + 18 /\ j - 1 = a + c + 19
        BY <1>6, <2>3 DEF Place
      <3> QED BY ONLY <1>5, <2>3, <3>1
    <2> QED BY <2>1, <2>2, <2>3 DEF Keys
  <1>7. ASSUME line[j - 3] = k, line[j - 2] = Quote, line[j - 1] = ":"
        PROVE  j = Place(k, a, c)
    <2>0. PICK x \in 3..(a + c + 20) : x = j - 2
      BY <1>2, <1>3
    <2>1. /\ line[x] = Quote /\ line[x - 1] \in Keys /\ line[x + 1] = ":" /\ line[x - 1] = k
      <3>1. x - 1 = j - 3 /\ x + 1 = j - 1
        BY <1>2, <1>3, <2>0
      <3> QED BY <1>7, <2>0, <3>1
    <2>2. \/ x \in {1, 2, 3, 4, 5, 6}
          \/ \E i \in 1..a : x = 6 + i
          \/ x \in {a + 7, a + 8, a + 9, a + 10, a + 11, a + 12, a + 13}
          \/ \E i \in 1..c : x = a + 13 + i
          \/ x \in {a + c + 14, a + c + 15, a + c + 16, a + c + 17, a + c + 18,
                    a + c + 19, a + c + 20, a + c + 21}
      BY x \in 1..(a + c + 21), Regions
    <2>3. CASE \E i \in 1..a : x = 6 + i
      <3>1. PICK i \in 1..a : x = 6 + i
        BY <2>3
      <3>2. line[6 + i] = W[i]
        BY <1>5
      <3>3. i > 1 /\ W[i - 1] = "\\"
        BY <1>1, <1>2, <2>1, <3>1, <3>2
      <3>4. i - 1 \in 1..a /\ x - 1 = 6 + (i - 1)
        BY <3>1, <3>3
      <3>5. line[6 + (i - 1)] = W[i - 1]
        BY <1>5, <3>4
      <3> QED BY <2>1, <3>3, <3>4, <3>5 DEF Keys
    <2>4. CASE \E i \in 1..c : x = a + 13 + i
      <3>1. PICK i \in 1..c : x = a + 13 + i
        BY <2>4
      <3>2. line[a + 13 + i] = M[i]
        BY <1>5
      <3>3. i > 1 /\ M[i - 1] = "\\"
        BY <1>1, <1>3, <2>1, <3>1, <3>2
      <3>4. i - 1 \in 1..c /\ x - 1 = a + 13 + (i - 1)
        BY <3>1, <3>3
      <3>5. line[a + 13 + (i - 1)] = M[i - 1]
        BY <1>5, <3>4
      <3> QED BY <2>1, <3>3, <3>4, <3>5 DEF Keys
    <2>5. CASE x \in {1, 2, 3, 4, 5, 6}
      <3>1. x # 3 /\ x # 5
        <4>1. line[3] # Quote /\ line[5] # Quote
          BY ONLY <1>5, Apart
        <4> QED BY ONLY <2>1, <4>1
      <3>2. x # 6
        <4>1. 6 - 1 = 5
          OBVIOUS
        <4> QED BY ONLY <1>5, <2>1, <4>1 DEF Keys
      <3>3. x = 4
        BY <2>5, <3>1, <3>2
      <3>4. x - 1 = 3 /\ j = 6
        BY <2>0, <3>3
      <3> QED BY ONLY <1>5, <2>1, <3>3, <3>4 DEF Place
    <2>6. CASE x \in {a + 7, a + 8, a + 9, a + 10, a + 11, a + 12, a + 13}
      <3>1. x # a + 8 /\ x # a + 10 /\ x # a + 12
        <4>1. line[a + 8] # Quote /\ line[a + 10] # Quote /\ line[a + 12] # Quote
          BY ONLY <1>5, Apart, Marks
        <4> QED BY ONLY <2>1, <4>1
      <3>2. x # a + 7 /\ x # a + 9
        <4>0. Comma # ":"
          BY Apart
        <4>1. line[a + 8] # ":" /\ line[a + 10] # ":"
          BY ONLY <1>5, <4>0
        <4>2. (a + 7) + 1 = a + 8 /\ (a + 9) + 1 = a + 10
          OBVIOUS
        <4> QED BY ONLY <2>1, <4>1, <4>2
      <3>3. x # a + 13
        <4>1. (a + 13) - 1 = a + 12
          OBVIOUS
        <4> QED BY ONLY <1>5, <2>1, <4>1 DEF Keys
      <3>4. x = a + 11
        BY <2>6, <3>1, <3>2, <3>3
      <3>5. x - 1 = a + 10 /\ j = a + 13
        BY <2>0, <3>4
      <3> QED BY ONLY <1>5, <2>1, <3>4, <3>5 DEF Place
    <2>7. CASE x \in {a + c + 14, a + c + 15, a + c + 16, a + c + 17, a + c + 18,
                      a + c + 19, a + c + 20, a + c + 21}
      <3>1. x # a + c + 15 /\ x # a + c + 17 /\ x # a + c + 19 /\ x # a + c + 20
        <4>1. /\ line[a + c + 15] # Quote /\ line[a + c + 17] # Quote
              /\ line[a + c + 19] # Quote /\ line[a + c + 20] # Quote
          BY ONLY <1>5, Apart, Marks
        <4> QED BY ONLY <2>1, <4>1
      <3>2. x # a + c + 14 /\ x # a + c + 16
        <4>0. Comma # ":"
          BY Apart
        <4>1. line[a + c + 15] # ":" /\ line[a + c + 17] # ":"
          BY ONLY <1>5, <4>0
        <4>2. (a + c + 14) + 1 = a + c + 15 /\ (a + c + 16) + 1 = a + c + 17
          OBVIOUS
        <4> QED BY ONLY <2>1, <4>1, <4>2
      <3>3. x = a + c + 18
        BY <2>7, <3>1, <3>2
      <3>4. x - 1 = a + c + 17 /\ j = a + c + 20
        BY <2>0, <3>3
      <3> QED BY ONLY <1>5, <2>1, <3>3, <3>4 DEF Place
    <2> QED BY <2>2, <2>3, <2>4, <2>5, <2>6, <2>7
  <1> QED BY <1>2, <1>3, <1>6, <1>7

\* A place is found where the four characters before it are the key, quoted,
\* and a colon.
LEMMA FoundIs ==
    ASSUME NEW line \in Seq(Chars), NEW k \in Chars, NEW j \in 5..(Len(line) + 1)
    PROVE  j \in Found(line, k)
              <=> (/\ line[j - 4] = Quote /\ line[j - 3] = k
                   /\ line[j - 2] = Quote /\ line[j - 1] = ":")
  <1> DEFINE q == Quoted(<<k>>) \o <<":">>
             t == SubSeq(line, j - 4, j - 1)
  <1>1. /\ q \in Seq(Chars) /\ Len(q) = 4
        /\ q[1] = Quote /\ q[2] = k /\ q[3] = Quote /\ q[4] = ":"
    BY NeedleIs
  <1>2. j \in Found(line, k) <=> t = q
    BY Zenon DEF Found
  <1> HIDE DEF q
  <1>3. /\ t \in Seq(Chars) /\ Len(t) = 4
        /\ t[1] = line[j - 4] /\ t[2] = line[j - 3] /\ t[3] = line[j - 2] /\ t[4] = line[j - 1]
    <2>1. PICK m \in Nat : m = j - 4 /\ m >= 1 /\ m + 3 = j - 1 /\ m + 3 <= Len(line)
      BY LenProperties
    <2>2. \A i \in m..(m + 3) : line[i] \in Chars
      BY <2>1, ElementOfSeq
    <2>3. /\ SubSeq(line, m, m + 3) \in Seq(Chars)
          /\ Len(SubSeq(line, m, m + 3)) = IF m <= m + 3 THEN (m + 3) - m + 1 ELSE 0
          /\ \A i \in 1 .. (m + 3) - m + 1 : SubSeq(line, m, m + 3)[i] = line[m + i - 1]
      BY ONLY <2>2, m \in Int, m + 3 \in Int, SubSeqProperties
    <2>4. /\ Len(SubSeq(line, m, m + 3)) = 4
          /\ \A i \in 1..4 : SubSeq(line, m, m + 3)[i] = line[m + i - 1]
      BY <2>3
    <2>5. m + 1 - 1 = j - 4 /\ m + 2 - 1 = j - 3 /\ m + 3 - 1 = j - 2 /\ m + 4 - 1 = j - 1
      BY <2>1
    <2>6. t = SubSeq(line, m, m + 3)
      BY <2>1
    <2> HIDE DEF t
    <2> QED BY <2>3, <2>4, <2>5, <2>6
  <1> HIDE DEF t
  <1>4. t = q <=> (t[1] = q[1] /\ t[2] = q[2] /\ t[3] = q[3] /\ t[4] = q[4])
    <2>1. ASSUME t[1] = q[1], t[2] = q[2], t[3] = q[3], t[4] = q[4]
          PROVE  t = q
      <3>1. ASSUME NEW i \in 1..Len(t) PROVE t[i] = q[i]
        <4>1. i = 1 \/ i = 2 \/ i = 3 \/ i = 4
          BY <1>3
        <4> QED BY <2>1, <4>1
      <3> QED BY <1>1, <1>3, <3>1, SeqEqual
    <2> QED BY <2>1
  <1> QED BY <1>1, <1>2, <1>3, <1>4

\* The only place where field finds a key.
LEMMA OnePlace ==
    ASSUME NEW W \in Clean, NEW M \in Clean, NEW line, Layout(line, W, M), NEW k \in Keys
    PROVE  Found(line, k) = {Place(k, Len(W), Len(M))}
  <1>1. line \in Seq(Chars) /\ Len(line) = Len(W) + Len(M) + 21
    BY DEF Layout
  <1>2. Len(W) \in Nat /\ Len(M) \in Nat /\ k \in Chars
    BY LenProperties DEF Clean, Keys, Chars, Plain
  <1>3. Place(k, Len(W), Len(M)) \in 5..(Len(line) + 1)
    BY <1>1, <1>2 DEF Place
  <1>4. Found(line, k) \subseteq 5..(Len(line) + 1)
    BY Zenon DEF Found
  <1>5. ASSUME NEW j \in 5..(Len(line) + 1)
        PROVE  j \in Found(line, k) <=> j = Place(k, Len(W), Len(M))
    <2>1. j \in 5..(Len(W) + Len(M) + 22)
      BY <1>1, <1>2
    <2> QED BY <1>1, <1>2, <2>1, FoundIs, KeyPlace
  <1> QED BY <1>3, <1>4, <1>5

\* What follows a place of a line.
LEMMA FromIs ==
    ASSUME NEW line \in Seq(Chars), NEW i \in 1..Len(line)
    PROVE  /\ From(line, i) \in Seq(Chars) /\ Len(From(line, i)) = Len(line) - i + 1
           /\ \A x \in 1..(Len(line) - i + 1) : From(line, i)[x] = line[i + x - 1]
  <1>1. Len(line) \in Nat /\ i \in Int /\ Len(line) \in Int /\ i <= Len(line)
    BY LenProperties
  <1>2. \A x \in i..Len(line) : line[x] \in Chars
    BY <1>1, ElementOfSeq
  <1>3. PICK m \in Int : m = Len(line)
    BY <1>1
  <1>4. /\ SubSeq(line, i, m) \in Seq(Chars)
        /\ Len(SubSeq(line, i, m)) = IF i <= m THEN m - i + 1 ELSE 0
        /\ \A x \in 1..m - i + 1 : SubSeq(line, i, m)[x] = line[i + x - 1]
    BY ONLY <1>1, <1>2, <1>3, SubSeqProperties
  <1> QED BY <1>1, <1>3, <1>4 DEF From

\* The first of the places, when there is one.
LEMMA FirstPlace ==
    ASSUME NEW F, NEW i \in Nat, F = {i}
    PROVE  (CHOOSE j \in F : \A k \in F : j <= k) = i
  <1>1. i <= i
    OBVIOUS
  <1>2. \E j \in F : \A k \in F : j <= k
    BY ONLY <1>1, F = {i}, Zenon
  <1>3. (CHOOSE j \in F : \A k \in F : j <= k) \in F
    BY ONLY <1>2, Zenon
  <1> QED BY <1>3

\* The key stands in one place, and from there on the line spells E between
\* quotes.
ShownAt(line, k, i, E) ==
    /\ Found(line, k) = {i}
    /\ i > 0 /\ i + Len(E) < Len(line)
    /\ line[i] = Quote /\ line[i + Len(E) + 1] = Quote
    /\ \A x \in 1..Len(E) : line[i + x] = E[x]

\* A value in quotes is read by the loop.
LEMMA FieldText ==
    ASSUME NEW line \in Seq(Chars), NEW k, NEW i \in Nat,
           NEW s \in Seq(Alphabet), ShownAt(line, k, i, escape(s))
    PROVE  field(line, k) = s
  <1>0. /\ Found(line, k) = {i} /\ i > 0 /\ i + Len(escape(s)) < Len(line)
        /\ line[i] = Quote /\ line[i + Len(escape(s)) + 1] = Quote
        /\ \A x \in 1..Len(escape(s)) : line[i + x] = escape(s)[x]
    BY DEF ShownAt
  <1> DEFINE E == escape(s)
             text == From(line, i + 1)
  <1>1. Len(E) \in Nat /\ Len(line) \in Nat
    BY Escaping, LenProperties DEF Clean
  <1>2. i + 1 \in 1..Len(line)
    BY <1>0, <1>1
  <1>3. /\ text \in Seq(Chars) /\ Len(text) = Len(line) - (i + 1) + 1
        /\ \A x \in 1..(Len(line) - (i + 1) + 1) : text[x] = line[(i + 1) + x - 1]
    BY <1>2, FromIs
  <1>4. Holds(text, E)
    <2> HIDE DEF text, E
    <2>1. Len(E) < Len(text)
      BY <1>0, <1>1, <1>3 DEF E
    <2>2. ASSUME NEW x \in 1..(Len(E) + 1) PROVE text[x] = line[i + x]
      <3>1. x \in 1..(Len(line) - (i + 1) + 1) /\ (i + 1) + x - 1 = i + x
        BY <1>0, <1>1 DEF E
      <3> QED BY <1>3, <3>1
    <2>3. text[Len(E) + 1] = Quote
      <3>1. Len(E) + 1 \in 1..(Len(E) + 1) /\ i + (Len(E) + 1) = i + Len(E) + 1
        BY <1>1
      <3> QED BY <1>0, <2>2, <3>1 DEF E
    <2>4. \A x \in 1..Len(E) : text[x] = E[x]
      <3>1. \A x \in 1..Len(E) : x \in 1..(Len(E) + 1)
        BY <1>1
      <3> QED BY <1>0, <2>2, <3>1 DEF E
    <2> QED BY <2>1, <2>3, <2>4 DEF Holds
  <1>5. FoldLeft(Step, Blank, text).out = s
    BY <1>3, <1>4, ReadText
  <1>6. (CHOOSE j \in Found(line, k) : \A m \in Found(line, k) : j <= m) = i
    BY <1>0, FirstPlace
  <1>7. field(line, k) = FoldLeft(Step, Blank, text).out
    <2>1. Found(line, k) # {}
      BY <1>0
    <2> QED BY ONLY <1>0, <1>6, <2>1, Zenon DEF field, text
  <1> QED BY <1>5, <1>7

\* The key stands in one place, and there is a bare character, the last of the
\* object.
BareAt(line, k, i) ==
    /\ Found(line, k) = {i}
    /\ i > 0 /\ i < Len(line)
    /\ line[i] \notin {Quote, Comma, RightBrace} /\ line[i + 1] = RightBrace

\* A bare value of one character, up to the end of the object.
LEMMA FieldBare ==
    ASSUME NEW line \in Seq(Chars), NEW k, NEW i \in Nat, BareAt(line, k, i)
    PROVE  field(line, k) = <<line[i]>>
  <1> DEFINE Stop(j) == /\ line[j] \in {Comma, RightBrace}
                        /\ \A m \in i..(j - 1) : line[m] \notin {Comma, RightBrace}
             bare == CHOOSE j \in i..Len(line) : Stop(j)
  <1>0. /\ Found(line, k) = {i} /\ i > 0 /\ i < Len(line)
        /\ line[i] \notin {Quote, Comma, RightBrace} /\ line[i + 1] = RightBrace
    BY DEF BareAt
  <1>1. Len(line) \in Nat
    BY LenProperties
  <1>2. i + 1 \in i..Len(line) /\ Stop(i + 1)
    <2>1. \A m \in i..((i + 1) - 1) : m = i
      OBVIOUS
    <2>2. i + 1 \in i..Len(line)
      BY <1>0, <1>1
    <2> QED BY <1>0, <2>1, <2>2
  <1>3. ASSUME NEW j \in i..Len(line), Stop(j) PROVE j = i + 1
    <2>1. j # i
      BY <1>0, <1>3
    <2>2. ~(j > i + 1)
      <3>1. ASSUME j > i + 1 PROVE FALSE
        <4>1. i + 1 \in i..(j - 1)
          BY <1>1, <3>1
        <4> QED BY <1>0, <1>3, <4>1
      <3> QED BY <3>1
    <2> QED BY <1>1, <2>1, <2>2
  <1> HIDE DEF Stop
  <1>4. bare = i + 1
    <2>1. bare \in i..Len(line) /\ Stop(bare)
      BY ONLY <1>2, Zenon
    <2> HIDE DEF bare
    <2> QED BY ONLY <1>3, <2>1
  <1>5. (CHOOSE j \in Found(line, k) : \A m \in Found(line, k) : j <= m) = i
    BY <1>0, FirstPlace
  <1>6. field(line, k) = SubSeq(line, i, bare - 1)
    <2>1. Found(line, k) # {}
      BY <1>0
    <2>2. line[i] # Quote
      BY <1>0
    <2> QED BY ONLY <1>5, <2>1, <2>2, Zenon DEF field, bare, Stop
  <1>7. SubSeq(line, i, bare - 1) = <<line[i]>>
    <2> HIDE DEF bare
    <2>1. bare - 1 = i
      BY <1>4
    <2>2. line[i] \in Chars
      BY <1>0, <1>1, ElementOfSeq
    <2>3. \A x \in i..i : line[x] \in Chars
      BY <2>2
    <2>4. /\ SubSeq(line, i, i) \in Seq(Chars)
          /\ Len(SubSeq(line, i, i)) = IF i <= i THEN i - i + 1 ELSE 0
          /\ \A x \in 1..i - i + 1 : SubSeq(line, i, i)[x] = line[i + x - 1]
      BY ONLY <2>3, i \in Int, SubSeqProperties
    <2>5. Len(SubSeq(line, i, i)) = 1 /\ SubSeq(line, i, i)[1] = line[i]
      <3>1. 1 \in 1..i - i + 1 /\ i + 1 - 1 = i /\ i - i + 1 = 1
        OBVIOUS
      <3> QED BY <2>4, <3>1
    <2>6. <<line[i]>> \in Seq(Chars) /\ Len(<<line[i]>>) = 1 /\ <<line[i]>>[1] = line[i]
      BY <2>2, Single
    <2> DEFINE t == SubSeq(line, i, i)
               o == <<line[i]>>
    <2>8. /\ t \in Seq(Chars) /\ o \in Seq(Chars) /\ Len(t) = Len(o)
          /\ Len(t) = 1 /\ t[1] = o[1]
      BY <2>4, <2>5, <2>6
    <2> HIDE DEF t, o
    <2>9. \A x \in 1..Len(t) : t[x] = o[x]
      <3>1. \A x \in 1..1 : x = 1
        OBVIOUS
      <3> QED BY ONLY <2>8, <3>1
    <2>10. t = o
      BY ONLY <2>8, <2>9, SeqEqual
    <2>7. SubSeq(line, i, i) = <<line[i]>>
      BY <2>10 DEF t, o
    <2> QED BY <2>1, <2>7
  <1> QED BY <1>6, <1>7

\* An event, laid out.
LEMMA EventIs ==
    ASSUME NEW W \in Seq(Chars)
    PROVE  LET line == <<LeftBrace>> \o Member("w", Quoted(W)) \o <<RightBrace>>
           IN  /\ line \in Seq(Chars) /\ Len(W) \in Nat /\ Len(line) = Len(W) + 8
               /\ line[1] = LeftBrace /\ line[2] = Quote /\ line[3] = "w" /\ line[4] = Quote
               /\ line[5] = ":" /\ line[6] = Quote
               /\ \A i \in 1..Len(W) : line[6 + i] = W[i]
               /\ line[Len(W) + 7] = Quote /\ line[Len(W) + 8] = RightBrace
  <1> DEFINE A == Len(W)
             lb == <<LeftBrace>>
             rb == <<RightBrace>>
             w == Member("w", Quoted(W))
             l1 == lb \o w
             l2 == l1 \o rb
  <1>1. LeftBrace \in Chars /\ RightBrace \in Chars /\ "w" \in Chars
    BY DEF Chars, Plain
  <1>2. /\ lb \in Seq(Chars) /\ Len(lb) = 1 /\ lb[1] = LeftBrace
        /\ rb \in Seq(Chars) /\ Len(rb) = 1 /\ rb[1] = RightBrace
    BY <1>1, Single
  <1>3. /\ w \in Seq(Chars) /\ A \in Nat /\ Len(w) = A + 6
        /\ w[1] = Quote /\ w[2] = "w" /\ w[3] = Quote /\ w[4] = ":" /\ w[5] = Quote
        /\ w[A + 6] = Quote /\ \A i \in 1..A : w[5 + i] = W[i]
    BY <1>1, TextMemberIs
  <1> HIDE DEF A, lb, rb, w
  <1>4. /\ l1 \in Seq(Chars) /\ Len(l1) = A + 7
        /\ l1[1] = LeftBrace
        /\ \A i \in 1..(A + 6) : l1[1 + i] = w[i]
    <2>1. /\ lb \in Seq(Chars) /\ w \in Seq(Chars) /\ Len(lb) = 1 /\ Len(w) = A + 6
      BY ONLY <1>2, <1>3
    <2>2. /\ l1 \in Seq(Chars) /\ Len(l1) = Len(lb) + Len(w)
          /\ \A i \in 1..Len(lb) : l1[i] = lb[i]
          /\ \A i \in 1..Len(w) : l1[Len(lb) + i] = w[i]
      BY ONLY <2>1, JoinIs
    <2>3. 1 + (A + 6) = A + 7 /\ 1 \in 1..1
      BY ONLY <1>3
    <2> QED BY ONLY <1>2, <2>1, <2>2, <2>3
  <1> HIDE DEF l1
  <1>5. /\ l2 \in Seq(Chars) /\ Len(l2) = A + 8
        /\ \A i \in 1..(A + 7) : l2[i] = l1[i]
        /\ l2[A + 8] = RightBrace
    <2>1. l1 \in Seq(Chars) /\ rb \in Seq(Chars) /\ Len(l1) = A + 7 /\ Len(rb) = 1
      BY ONLY <1>2, <1>4
    <2>2. /\ l2 \in Seq(Chars) /\ Len(l2) = Len(l1) + Len(rb)
          /\ \A i \in 1..Len(l1) : l2[i] = l1[i]
          /\ \A i \in 1..Len(rb) : l2[Len(l1) + i] = rb[i]
      BY ONLY <2>1, JoinIs
    <2>3. (A + 7) + 1 = A + 8 /\ 1 \in 1..1
      BY ONLY <1>3
    <2> QED BY ONLY <1>2, <2>1, <2>2, <2>3
  <1> HIDE DEF l2
  <1>6. l2[1] = LeftBrace
    <2>1. 1 \in 1..(A + 7)
      BY <1>3
    <2> QED BY <1>4, <1>5, <2>1
  <1>7. ASSUME NEW i \in 1..(A + 6) PROVE l2[1 + i] = w[i]
    <2>1. 1 + i \in 1..(A + 7)
      BY <1>3
    <2> QED BY <1>4, <1>5, <2>1
  <1>8. /\ l2[2] = Quote /\ l2[3] = "w" /\ l2[4] = Quote /\ l2[5] = ":" /\ l2[6] = Quote
        /\ l2[A + 7] = Quote
    <2>1. /\ 1 \in 1..(A + 6) /\ 2 \in 1..(A + 6) /\ 3 \in 1..(A + 6) /\ 4 \in 1..(A + 6)
          /\ 5 \in 1..(A + 6) /\ A + 6 \in 1..(A + 6)
          /\ 1 + 1 = 2 /\ 1 + 2 = 3 /\ 1 + 3 = 4 /\ 1 + 4 = 5 /\ 1 + 5 = 6 /\ 1 + (A + 6) = A + 7
      BY ONLY <1>3
    <2> QED BY ONLY <1>3, <1>7, <2>1
  <1>9. ASSUME NEW i \in 1..A PROVE l2[6 + i] = W[i]
    <2>1. 5 + i \in 1..(A + 6) /\ 1 + (5 + i) = 6 + i
      BY ONLY <1>3, i \in 1..A
    <2>2. l2[1 + (5 + i)] = w[5 + i]
      BY <1>7, <2>1
    <2> QED BY ONLY <1>3, <2>1, <2>2, i \in 1..A
  <1> QED BY <1>3, <1>5, <1>6, <1>8, <1>9 DEF l2, l1, lb, rb, w, A

-----------------------------------------------------------------------------
(* The three invariants of Codec.                                          *)

\* The two texts are texts.
Typed == what \in Seq(Alphabet) /\ file \in Seq(Alphabet)

\* The texts are texts in every state.
LEMMA AlwaysTyped == Texts => []Typed
  <1>1. NoText => Typed
    BY DEF NoText, Typed
  <1>2. Typed /\ [TypeText]_texts => Typed'
    <2> SUFFICES ASSUME Typed, [TypeText]_texts PROVE Typed'
      OBVIOUS
    <2>1. ASSUME NEW c \in Alphabet, TypeWhat(c) PROVE Typed'
      BY <2>1, AppendProperties DEF TypeWhat, Typed
    <2>2. ASSUME NEW c \in Alphabet, TypeFile(c) PROVE Typed'
      BY <2>2, AppendProperties DEF TypeFile, Typed
    <2>3. CASE UNCHANGED texts
      BY <2>3 DEF texts, Typed
    <2> QED BY <2>1, <2>2, <2>3 DEF TypeText
  <1> QED BY <1>1, <1>2, PTL DEF Texts

\* The layout of what report_assert writes.
LEMMA ReportIs ==
    ASSUME Typed
    PROVE  /\ escape(what) \in Clean /\ escape(file) \in Clean
           /\ Layout(report_assert, escape(what), escape(file))
  <1>1. escape(what) \in Clean /\ escape(file) \in Clean
    BY Escaping DEF Typed
  <1>2. report_assert = Laid(escape(what), escape(file))
    BY Zenon DEF report_assert, Laid
  <1>3. escape(what) \in Seq(Chars) /\ escape(file) \in Seq(Chars)
    BY <1>1 DEF Clean
  <1> QED BY <1>1, <1>2, <1>3, LineIs

\* The three fields read back what was written.
LEMMA ReadsBack ==
    ASSUME Typed
    PROVE  RoundTrip
  <1> DEFINE line == report_assert
             W == escape(what)
             M == escape(file)
  <1>1. W \in Clean /\ M \in Clean /\ Layout(line, W, M)
    BY ReportIs
  <1>2. PICK a \in Nat : a = Len(W)
    BY <1>1, LenProperties DEF Clean
  <1>3. PICK c \in Nat : c = Len(M)
    BY <1>1, LenProperties DEF Clean
  <1> HIDE DEF line
  <1>4. /\ Found(line, "w") = {6} /\ Found(line, "m") = {a + 13}
        /\ Found(line, "n") = {a + c + 20}
    <2> HIDE DEF W, M
    <2>1. \A k \in Keys : Found(line, k) = {Place(k, a, c)}
      BY <1>1, <1>2, <1>3, OnePlace
    <2>2. "w" \in Keys /\ "m" \in Keys /\ "n" \in Keys
      BY DEF Keys
    <2>3. Place("w", a, c) = 6 /\ Place("m", a, c) = a + 13 /\ Place("n", a, c) = a + c + 20
      BY DEF Place
    <2> QED BY <2>1, <2>2, <2>3
  <1>5. /\ line \in Seq(Chars) /\ Len(line) = a + c + 21
        /\ line[6] = Quote /\ \A i \in 1..a : line[6 + i] = W[i]
        /\ line[a + 7] = Quote /\ line[a + 13] = Quote
        /\ \A i \in 1..c : line[a + 13 + i] = M[i]
        /\ line[a + c + 14] = Quote
        /\ line[a + c + 20] = "7" /\ line[a + c + 21] = RightBrace
    <2> HIDE DEF W, M
    <2> QED BY <1>1, <1>2, <1>3 DEF Layout
  <1>6. field(line, "w") = what
    <2>1. 6 + a < Len(line) /\ 6 + a + 1 = a + 7
      BY <1>5
    <2>2. PICK i \in Nat : i = 6
      OBVIOUS
    <2>3. /\ what \in Seq(Alphabet) /\ line \in Seq(Chars)
          /\ ShownAt(line, "w", i, escape(what))
      BY <1>2, <1>4, <1>5, <2>1, <2>2 DEF Typed, ShownAt
    <2> QED BY ONLY <2>3, i \in Nat, FieldText
  <1>7. field(line, "m") = file
    <2>1. PICK i \in Nat : i = a + 13
      OBVIOUS
    <2>2. i > 0 /\ i + c < Len(line) /\ i + c + 1 = a + c + 14
      BY <1>5, <2>1
    <2>3. /\ Found(line, "m") = {i} /\ line[i] = Quote /\ line[i + c + 1] = Quote
          /\ \A x \in 1..c : line[i + x] = M[x]
      BY <1>4, <1>5, <2>1, <2>2
    <2>4. /\ file \in Seq(Alphabet) /\ line \in Seq(Chars)
          /\ ShownAt(line, "m", i, escape(file))
      BY <1>3, <1>5, <2>2, <2>3 DEF Typed, ShownAt
    <2> QED BY ONLY <2>4, i \in Nat, FieldText
  <1>8. field(line, "n") = <<"7">>
    <2>1. PICK i \in Nat : i = a + c + 20
      OBVIOUS
    <2>2. i > 0 /\ i < Len(line) /\ i + 1 = a + c + 21
      BY <1>5, <2>1
    <2>3. Found(line, "n") = {i} /\ line[i] = "7" /\ line[i + 1] = RightBrace
      BY <1>4, <1>5, <2>1, <2>2
    <2>4. line[i] \notin {Quote, Comma, RightBrace}
      BY ONLY <2>3, Apart
    <2>5. field(line, "n") = <<line[i]>>
      <3>1. line \in Seq(Chars) /\ BareAt(line, "n", i)
        BY <1>5, <2>2, <2>3, <2>4 DEF BareAt
      <3> QED BY ONLY <3>1, i \in Nat, FieldBare
    <2> QED BY <2>3, <2>5
  <1> QED BY <1>6, <1>7, <1>8, Zenon DEF RoundTrip, line

\* The one text of an event reads back.
LEMMA EventReadsBack ==
    ASSUME Typed
    PROVE  EventRoundTrip
  <1> DEFINE W == escape_event(what)
             line == event
             text == From(line, 7)
  <1>1. W \in Clean /\ W \in Seq(Chars)
    BY Escaping DEF Typed, Clean
  <1>2. /\ line \in Seq(Chars) /\ Len(W) \in Nat /\ Len(line) = Len(W) + 8
        /\ \A i \in 1..Len(W) : line[6 + i] = W[i]
        /\ line[Len(W) + 7] = Quote
    <2> HIDE DEF W
    <2>1. line = <<LeftBrace>> \o Member("w", Quoted(W)) \o <<RightBrace>>
      BY Zenon DEF event, W
    <2> HIDE DEF line
    <2> QED BY <1>1, <2>1, EventIs
  <1> HIDE DEF W, line
  <1>3. PICK a \in Nat : a = Len(W)
    BY <1>2
  <1>4. /\ text \in Seq(Chars) /\ Len(text) = a + 2
        /\ \A x \in 1..(a + 2) : text[x] = line[6 + x]
    <2>1. 7 \in 1..Len(line) /\ Len(line) - 7 + 1 = a + 2
      BY <1>2, <1>3
    <2>2. /\ text \in Seq(Chars) /\ Len(text) = Len(line) - 7 + 1
          /\ \A x \in 1..(Len(line) - 7 + 1) : text[x] = line[7 + x - 1]
      BY <1>2, <2>1, FromIs
    <2>3. \A x \in 1..(a + 2) : 7 + x - 1 = 6 + x
      OBVIOUS
    <2> HIDE DEF text
    <2> QED BY <2>1, <2>2, <2>3
  <1>5. Holds(text, W)
    <2> HIDE DEF text
    <2>1. a < Len(text) /\ a + 1 \in 1..(a + 2) /\ 6 + (a + 1) = a + 7
      BY <1>4
    <2>2. text[a + 1] = Quote
      BY <1>2, <1>3, <1>4, <2>1
    <2>3. \A x \in 1..a : text[x] = W[x]
      BY <1>2, <1>3, <1>4
    <2> QED BY <1>3, <2>1, <2>2, <2>3 DEF Holds
  <1>6. FoldLeft(JsonStep, Blank, text).out = what
    BY <1>4, <1>5, ReadEvent DEF Typed, W
  <1> QED BY <1>6 DEF EventRoundTrip, Parsed, line, text

\* Neither line holds a line break.
LEMMA Unbroken ==
    ASSUME Typed
    PROVE  OneLine
  <1>1. \A x \in DOMAIN report_assert : report_assert[x] # "\n"
    BY ReportIs, LineUnbroken
  <1>2. \A x \in DOMAIN event : event[x] # "\n"
    <2> DEFINE W == escape_event(what)
               line == event
    <2>1. W \in Clean /\ W \in Seq(Chars)
      BY Escaping DEF Typed, Clean
    <2>2. \A i \in 1..Len(W) : W[i] # "\n"
      BY <2>1 DEF Clean
    <2> HIDE DEF W
    <2>3. line = <<LeftBrace>> \o Member("w", Quoted(W)) \o <<RightBrace>>
      BY Zenon DEF event, W
    <2> HIDE DEF line
    <2>4. /\ line \in Seq(Chars) /\ Len(W) \in Nat /\ Len(line) = Len(W) + 8
          /\ line[1] = LeftBrace /\ line[2] = Quote /\ line[3] = "w" /\ line[4] = Quote
          /\ line[5] = ":" /\ line[6] = Quote
          /\ \A i \in 1..Len(W) : line[6 + i] = W[i]
          /\ line[Len(W) + 7] = Quote /\ line[Len(W) + 8] = RightBrace
      BY <2>1, <2>3, EventIs
    <2>5. PICK a \in Nat : a = Len(W)
      BY <2>4
    <2>6. ASSUME NEW x \in 1..(a + 8) PROVE line[x] # "\n"
      <3>1. CASE x \in {1, 2, 3, 4, 5, 6}
        BY ONLY <2>4, <3>1, Apart
      <3>2. CASE x \in {a + 7, a + 8}
        BY ONLY <2>4, <2>5, <3>2, Apart
      <3>3. CASE 6 < x /\ x < a + 7
        <4>1. PICK i \in 1..a : x = 6 + i
          <5>1. x - 6 \in 1..a /\ x = 6 + (x - 6)
            BY <3>3
          <5> QED BY <5>1
        <4>2. line[6 + i] = W[i] /\ W[i] # "\n"
          BY <2>2, <2>4, <2>5
        <4> QED BY <4>1, <4>2
      <3> QED BY <3>1, <3>2, <3>3
    <2>7. DOMAIN line = 1..(a + 8)
      BY <2>4, <2>5
    <2> QED BY <2>6, <2>7 DEF line
  <1> QED BY <1>1, <1>2, Zenon DEF OneLine, Range

\* Whatever the two texts hold, each field that the judge reads out of a line
\* of the side channel is the text that the exercise put in it, and the bare
\* number is that number: quotes, backslashes, typed escapes and keys inside
\* a text change nothing (d2x.cppm:56-72, runner.cppm:127-165).
THEOREM TextsRoundTrip == Texts => []RoundTrip
  BY AlwaysTyped, ReadsBack, PTL

\* No text breaks a line of the side channel or an event: what getline in the
\* judge and d2x read is the whole of it (emit.cppm:5-6).
THEOREM LinesUnbroken == Texts => []OneLine
  BY AlwaysTyped, Unbroken, PTL

\* Whatever the text of an event holds, d2x reads back the text that the
\* Provider was given.
THEOREM EventsRoundTrip == Texts => []EventRoundTrip
  BY AlwaysTyped, EventReadsBack, PTL
=============================================================================
