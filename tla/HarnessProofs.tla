---------------------------- MODULE HarnessProofs ----------------------------
(***************************************************************************)
(* Proofs about Harness, for every number of calls and handlers, every set *)
(* of exit codes and every environment, also one that loses lines.         *)
(*                                                                         *)
(* The properties of an ended process are not inductive: they depend on    *)
(* what held while it ran.  Inv adds that (1) nothing is counted without   *)
(* the hook being installed, (2) while the hook is gone and nothing came   *)
(* late, nothing was counted, (3) every line of the file has its count,    *)
(* and (4) how the process ended says which of the two signals is left.    *)
(***************************************************************************)
EXTENDS Harness, TLAPS

\* The two halves of TypeOK: no prover takes Boolean variables and numbers
\* together well.
Flags == /\ hooked \in BOOLEAN /\ hookPending \in BOOLEAN
         /\ late \in BOOLEAN /\ lost \in BOOLEAN

Values ==
    /\ phase \in {"idle", "main", "exiting", "handler", "ended"}
    /\ calls \in 0..MaxCalls
    /\ pending \in Calls \cup {NoCall}
    /\ failures \in 0..MaxCalls
    /\ waits \in 0..MaxCalls
    /\ newer \in 0..MaxHandlers
    /\ older \in 0..MaxHandlers
    /\ channel \in Channels
    /\ status \in ExitCodes \cup {0}
    /\ exit \in ExitCodes \cup {0, 1, CrashCode}
    /\ ending \in {"none", "return", "quick", "crash"}

Bounds ==
    /\ newer + older <= MaxHandlers
    /\ failures + waits <= calls

\* Only user code can be in the middle of a call, or a crash have cut it.
CallUnderWay ==
    pending # NoCall =>
        \/ phase \in {"main", "handler"}
        \/ phase = "ended" /\ ending = "crash"

Hooking ==
    /\ failures > 0 \/ waits > 0 => hooked
    /\ hookPending => hooked
    /\ phase = "idle" => ~hooked
    /\ HookGone /\ ~late /\ phase # "ended" => failures = 0 /\ waits = 0

PendingFails == IF pending.ok THEN 0 ELSE 1
PendingWaits == IF pending.call = "wait" THEN 1 ELSE 0

Accounts ==
    /\ channel.fails + PendingFails <= failures
    /\ channel.waits + PendingWaits <= waits

\* As long as no line was lost.
ReliableAccounts ==
    ~lost =>
        /\ failures = channel.fails + PendingFails
        /\ waits = channel.waits + PendingWaits

Endings ==
    phase = "ended" =>
        /\ ending \in {"return", "quick", "crash"}
        /\ ending = "crash" => exit = CrashCode
        /\ ending = "return" =>
             \/ exit = 1 /\ failures + waits > 0
             \/ exit = status /\ (~late => failures = 0 /\ waits = 0)

Inv == TypeOK /\ Bounds /\ CallUnderWay /\ Hooking
       /\ Accounts /\ ReliableAccounts /\ Endings

-----------------------------------------------------------------------------
(* The records have their types.                                           *)

LEMMA NoFileType == NoFile \in Channels
BY DEF NoFile, Channels

LEMMA CallType ==
    \A call \in {"check", "check_eq", "wait"}, ok \in BOOLEAN :
        [call |-> call, ok |-> ok] \in Calls
BY DEF Calls

LEMMA AppendedType ==
    ASSUME channel \in Channels, NEW call \in Calls \cup {NoCall}
    PROVE  Appended(call) \in Channels
BY DEF Channels, Calls, Appended, NoCall

-----------------------------------------------------------------------------
(* Inv holds at the start and every step keeps it: first the steps that    *)
(* change the accounts, then those that only move the process on.          *)

LEMMA InitEstablishes == Init => Inv
<1> SUFFICES ASSUME Init PROVE Inv
  OBVIOUS
<1>1. Values
  BY BoundsAssumption, NoFileType DEF Init, Values
<1>2. Flags
  BY DEF Init, Flags
<1>3. Bounds
  BY BoundsAssumption DEF Init, Bounds
<1>4. CallUnderWay /\ Hooking /\ Endings
  BY DEF Init, CallUnderWay, Hooking, HookGone, Endings
<1>5. Accounts /\ ReliableAccounts
  BY DEF Init, Accounts, ReliableAccounts, PendingFails,
         PendingWaits, NoFile, NoCall
<1> QED
  BY <1>1, <1>2, <1>3, <1>4, <1>5 DEF Inv, TypeOK, Values, Flags

LEMMA LaunchKeeps == ASSUME Inv, Launch PROVE Inv'
<1>1. Values'
  BY BoundsAssumption DEF Inv, TypeOK, Launch, Reset, Values
<1>2. Flags'
  BY DEF Launch, Reset, Flags
<1>3. Bounds'
  BY BoundsAssumption DEF Launch, Reset, Bounds
<1>4. CallUnderWay' /\ Hooking' /\ Endings'
  BY DEF Launch, Reset, CallUnderWay, Hooking, HookGone, Endings
<1>5. failures = 0 /\ waits = 0
  BY DEF Inv, TypeOK, Launch, Hooking
<1>6. Accounts' /\ ReliableAccounts'
  <2>1. pending = NoCall
    BY DEF Inv, CallUnderWay, Launch
  <2> QED
    BY <1>5, <2>1 DEF Inv, TypeOK, Launch, Reset, Accounts, ReliableAccounts,
       PendingFails, PendingWaits, NoCall, Channels
<1> QED
  BY <1>1, <1>2, <1>3, <1>4, <1>6 DEF Inv, TypeOK, Values, Flags

\* check, check_eq and wait differ in what they count only.
LEMMA CountKeeps ==
    ASSUME Inv,
           NEW call \in {"check", "check_eq", "wait"}, NEW ok \in BOOLEAN,
           call = "wait" => ok,
           Count(call, ok),
           failures' = failures + (IF ok THEN 0 ELSE 1),
           waits' = waits + (IF call = "wait" THEN 1 ELSE 0),
           late' = (late \/ ((~ok \/ call = "wait") /\ HookGone))
    PROVE  Inv'
<1> USE DEF Count, InUserCode
<1>1. Values'
  BY BoundsAssumption, CallType
     DEF Inv, TypeOK, Bounds, ensure_hook, Values
<1>2. Flags'
  BY DEF Inv, TypeOK, ensure_hook, HookGone, Flags
<1>3. Bounds'
  BY BoundsAssumption DEF Inv, TypeOK, Bounds, ensure_hook
<1>4. CallUnderWay'
  BY DEF Inv, CallUnderWay
<1>5. Hooking'
  BY DEF Inv, TypeOK, Hooking, HookGone, ensure_hook
<1>6. Accounts' /\ ReliableAccounts'
  BY DEF Inv, TypeOK, Accounts, ReliableAccounts, PendingFails,
         PendingWaits, NoCall, Channels
<1>7. Endings'
  BY DEF Endings
<1> QED
  BY <1>1, <1>2, <1>3, <1>4, <1>5, <1>6, <1>7
     DEF Inv, TypeOK, Values, Flags

LEMMA LibraryCallKeeps ==
    ASSUME Inv,
           (\E ok \in BOOLEAN : check(ok) \/ check_eq(ok)) \/ wait
    PROVE  Inv'
<1>1. ASSUME NEW ok \in BOOLEAN, check(ok) PROVE Inv'
  BY <1>1, CountKeeps DEF check, Inv, TypeOK
<1>2. ASSUME NEW ok \in BOOLEAN, check_eq(ok) PROVE Inv'
  BY <1>2, CountKeeps DEF check_eq, Inv, TypeOK
<1>3. ASSUME wait PROVE Inv'
  <2> DEFINE ok == TRUE
             call == "wait"
  <2>1. /\ failures' = failures + (IF ok THEN 0 ELSE 1)
        /\ waits' = waits + (IF call = "wait" THEN 1 ELSE 0)
    BY <1>3 DEF wait, Inv, TypeOK
  <2>2. late' = (late \/ ((~ok \/ call = "wait") /\ HookGone))
    BY <1>3 DEF wait
  <2>3. Count(call, ok) /\ ok \in BOOLEAN /\ (call = "wait" => ok)
    BY <1>3 DEF wait
  <2>4. call \in {"check", "check_eq", "wait"}
    OBVIOUS
  <2> HIDE DEF ok, call
  <2> QED
    BY <2>1, <2>2, <2>3, <2>4, CountKeeps
<1> QED
  BY <1>1, <1>2, <1>3

LEMMA EmitKeeps == ASSUME Inv, emit PROVE Inv'
<1>1. Values'
  BY AppendedType DEF Inv, emit, TypeOK, Values
<1>2. Flags'
  BY DEF Inv, emit, TypeOK, Flags
<1>3. Bounds' /\ CallUnderWay' /\ Hooking' /\ Endings'
  BY DEF Inv, emit, Bounds, CallUnderWay, Hooking, HookGone, Endings
<1>4. Accounts'
  BY DEF Inv, emit, TypeOK, Appended, Accounts, PendingFails, PendingWaits,
         NoCall, Channels
<1>5. ReliableAccounts'
  BY DEF Inv, emit, TypeOK, Appended, ReliableAccounts,
         PendingFails, PendingWaits, NoCall, Channels
<1> QED
  BY <1>1, <1>2, <1>3, <1>4, <1>5 DEF Inv, TypeOK, Values, Flags

LEMMA ExitHookKeeps == ASSUME Inv, exit_hook PROVE Inv'
<1> USE DEF exit_hook, End
<1>1. Values'
  BY DEF Inv, TypeOK, Values
<1>2. Flags'
  BY DEF Inv, TypeOK, Flags
<1>3. Bounds' /\ CallUnderWay'
  BY DEF Inv, Bounds, CallUnderWay
<1>4. Hooking'
  BY DEF Inv, TypeOK, Hooking, HookGone
<1>5. Accounts' /\ ReliableAccounts'
  BY DEF Inv, Accounts, ReliableAccounts, PendingFails, PendingWaits
<1>6. Endings'
  BY DEF Inv, TypeOK, Endings
<1> QED
  BY <1>1, <1>2, <1>3, <1>4, <1>5, <1>6 DEF Inv, TypeOK, Values, Flags

\* The other steps leave the counts, the hook and the file alone.
LEMMA OtherStepKeeps ==
    ASSUME Inv,
           \/ FormatThrows \/ RegisterHandler \/ RunNewerHandler
           \/ RunOlderHandler \/ HandlerReturns \/ ExitReturns \/ Crash
           \/ \E code \in ExitCodes : Return(code) \/ QuickExit(code)
    PROVE  Inv'
<1> USE BoundsAssumption, CodesAssumption
    DEF Inv, TypeOK, Bounds, CallUnderWay, Hooking, HookGone, Accounts,
        ReliableAccounts, PendingFails, PendingWaits, Endings,
        NoCall, Calls, Channels
<1>1. CASE FormatThrows
  BY <1>1 DEF FormatThrows
<1>2. CASE RegisterHandler
  BY <1>2 DEF RegisterHandler, InUserCode
<1>3. CASE RunNewerHandler
  BY <1>3 DEF RunNewerHandler
<1>4. CASE RunOlderHandler
  BY <1>4 DEF RunOlderHandler
<1>5. CASE HandlerReturns
  BY <1>5 DEF HandlerReturns
<1>6. CASE ExitReturns
  BY <1>6 DEF ExitReturns, End
<1>7. CASE Crash
  BY <1>7 DEF Crash, End
<1>8. ASSUME NEW code \in ExitCodes, Return(code) PROVE Inv'
  BY <1>8 DEF Return
<1>9. ASSUME NEW code \in ExitCodes, QuickExit(code) PROVE Inv'
  BY <1>9 DEF QuickExit, InUserCode, End
<1> QED
  BY ONLY <1>1, <1>2, <1>3, <1>4, <1>5, <1>6, <1>7, <1>8, <1>9,
     Inv, \/ FormatThrows \/ RegisterHandler \/ RunNewerHandler
          \/ RunOlderHandler \/ HandlerReturns \/ ExitReturns \/ Crash
          \/ \E code \in ExitCodes : Return(code) \/ QuickExit(code)

LEMMA NextKeeps == Inv /\ [Next]_vars => Inv'
<1> SUFFICES ASSUME Inv, [Next]_vars PROVE Inv'
  OBVIOUS
<1>1. CASE Launch
  BY <1>1, LaunchKeeps
<1>2. CASE ProcessStep
  <2>1. CASE LibraryStep
    BY <2>1, LibraryCallKeeps, EmitKeeps, OtherStepKeeps DEF LibraryStep
  <2>2. CASE exit_hook
    BY <2>2, ExitHookKeeps
  <2> QED
    BY <1>2, <2>1, <2>2, OtherStepKeeps DEF ProcessStep
<1>3. CASE UNCHANGED vars
  BY <1>3 DEF vars, process, Inv, TypeOK, Bounds, CallUnderWay, Hooking, HookGone, Accounts,
             ReliableAccounts, PendingFails, PendingWaits, Endings,
             NoCall, Calls, Channels
<1> QED
  BY <1>1, <1>2, <1>3 DEF Next

THEOREM Invariance == Spec => []Inv
BY InitEstablishes, NextKeeps, PTL DEF Spec

-----------------------------------------------------------------------------
\* The variables of the library and of the process keep their types, and no
\* process counts more than it calls (d2x.cppm, lines 34-36).
THEOREM TypeCorrect == Spec => []TypeOK
<1>1. Inv => TypeOK
  BY DEF Inv
<1> QED
  BY <1>1, Invariance, PTL

\* Exit code 0 means right, for every exercise that leaves through exit() and
\* does not fail after the hook ran (exit_hook, lines 38-47).
THEOREM ExitCodeCorrect == Spec => []ExitCodeTellsOutcome
<1>1. Inv => ExitCodeTellsOutcome
  BY DEF Inv, Endings, ExitCodeTellsOutcome
<1> QED
  BY <1>1, Invariance, PTL

\* The hook changes an exit code to 1 and only for a reason (lines 38-39).
THEOREM OverrideCorrect == Spec => []OverrideIsJustified
<1>1. Inv => OverrideIsJustified
  BY DEF Inv, Endings, OverrideIsJustified
<1> QED
  BY <1>1, Invariance, PTL

\* The file never reports what did not happen, whatever is lost (emit).
THEOREM ChannelCorrect == Spec => []ChannelNeverOverstates
<1>1. Inv => ChannelNeverOverstates
  BY DEF Inv, TypeOK, Channels, Accounts, PendingFails, PendingWaits,
         ChannelNeverOverstates
<1> QED
  BY <1>1, Invariance, PTL

\* With a writable file a crash costs the line being written and no other
\* (lines 74-75).
THEOREM CrashLossBounded == Spec => []CrashLosesAtMostOneLine
<1>1. Inv => CrashLosesAtMostOneLine
  BY DEF Inv, ReliableAccounts, CallUnderWay, PendingFails,
         PendingWaits, CrashLosesAtMostOneLine
<1> QED
  BY <1>1, Invariance, PTL

\* A failure that leaves exit code 0 is in the file: one of the two signals
\* of lines 18-23 is always left.
THEOREM SignalSurvives == Spec => []SomeSignalSurvives
<1>1. Inv => SomeSignalSurvives
  BY CodesAssumption
     DEF Inv, TypeOK, ReliableAccounts, CallUnderWay, Endings,
         PendingFails, Channels, NoCall, SomeSignalSurvives
<1> QED
  BY <1>1, Invariance, PTL
=============================================================================
