------------------------ MODULE OperationalLoggingProofs ------------------------
(***************************************************************************)
(* Theorems about OperationalLogging, for every choice of its constants.   *)
(*                                                                         *)
(* Typed adds to the type invariant that a thread in a call has its input. *)
(* Each promise is then inductive relative to Typed, but for the account   *)
(* of calls, which has to count the calls in progress that have left their *)
(* trace and not yet returned.                                             *)
(***************************************************************************)
EXTENDS OperationalLogging, FiniteSetTheorems, TLAPS

Places == {"idle", "emit", "write", "defect", "healthy", "degrade",
           "fallback", "allow", "line", "release"}

Typed == TypeOK /\ \A t \in Threads : pc[t] # "idle" => input[t] \in Inputs

LEMMA TypedInit == Init => Typed
<1> SUFFICES ASSUME Init PROVE Typed
  OBVIOUS
<1>1. lines \in Seq(0..MaxTime)
  BY DEF Init
<1>2. 0 \in 0..MaxCalls /\ 0 \in 0..MaxTime /\ 0 \in 0..MaxLines
  BY BoundsAssumption
<1>3. degraded \in BOOLEAN /\ suppressing \in BOOLEAN /\ reentrant \in BOOLEAN
  BY DEF Init
<1> QED
  BY <1>1, <1>2, <1>3 DEF Init, Typed, TypeOK

\* Moving a thread keeps the types of the calls.
LEMMA ProceedKeepsType ==
  ASSUME Typed, NEW t \in Threads, NEW place \in Places, pc[t] # "idle", Proceed(t, place)
  PROVE  /\ pc' \in [Threads -> Places]
         /\ input' \in [Threads -> Inputs \cup {"none"}]
         /\ \A u \in Threads : pc'[u] # "idle" => input'[u] \in Inputs
         /\ issued' \in 0..MaxCalls
         /\ returned' \in Nat
         /\ raised' \subseteq Inputs
  BY DEF Typed, TypeOK, Proceed, Goto, Places

LEMMA ReturnKeepsType ==
  ASSUME Typed, NEW t \in Threads, pc[t] # "idle", Return(t)
  PROVE  /\ pc' \in [Threads -> Places]
         /\ input' \in [Threads -> Inputs \cup {"none"}]
         /\ \A u \in Threads : pc'[u] # "idle" => input'[u] \in Inputs
         /\ issued' \in 0..MaxCalls
         /\ returned' \in Nat
         /\ raised' \subseteq Inputs
  BY DEF Typed, TypeOK, Return, Goto, Places

LEMMA EscapeKeepsType ==
  ASSUME Typed, NEW t \in Threads, pc[t] # "idle", Escape(t)
  PROVE  /\ pc' \in [Threads -> Places]
         /\ input' \in [Threads -> Inputs \cup {"none"}]
         /\ \A u \in Threads : pc'[u] # "idle" => input'[u] \in Inputs
         /\ issued' \in 0..MaxCalls
         /\ returned' \in Nat
         /\ raised' \subseteq Inputs
  BY DEF Typed, TypeOK, Escape, Goto, Places

LEMMA TypedStep == Typed /\ [Next]_vars => Typed'
<1> SUFFICES ASSUME Typed, [Next]_vars PROVE Typed'
  OBVIOUS
<1> USE DEF Typed, TypeOK
<1>1. ASSUME NEW t \in Threads, NEW i \in Inputs, Call(t, i) PROVE Typed'
  BY <1>1, BoundsAssumption DEF Call, Goto, health, budget
<1>2. ASSUME NEW t \in Threads, Emit(t) PROVE Typed'
  BY <1>2, ProceedKeepsType, EscapeKeepsType DEF Emit, HandleDefect, Places, health, budget
<1>3. ASSUME NEW t \in Threads, WriteRecord(t) PROVE Typed'
  BY <1>3, ProceedKeepsType, EscapeKeepsType
     DEF WriteRecord, HandleDefect, Wrote, Failed, Places, health, budget
<1>4. ASSUME NEW t \in Threads, WriteDefect(t) PROVE Typed'
  BY <1>4, ProceedKeepsType DEF WriteDefect, Wrote, Failed, Places, health, budget
<1>5. ASSUME NEW t \in Threads, MarkHealthy(t) PROVE Typed'
  <2>1. degraded' \in BOOLEAN
    BY <1>5, Zenon DEF MarkHealthy
  <2>2. recoveries' \in Nat
    BY <1>5 DEF MarkHealthy
  <2> QED
    BY <1>5, <2>1, <2>2, ReturnKeepsType DEF MarkHealthy, Places, budget
<1>6. ASSUME NEW t \in Threads, MarkDegraded(t) PROVE Typed'
  BY <1>6, ProceedKeepsType DEF MarkDegraded, Places, budget
<1>7. ASSUME NEW t \in Threads, EnterFallback(t) PROVE Typed'
  BY <1>7, ReturnKeepsType, ProceedKeepsType DEF EnterFallback, Places, health, budget
<1>8. ASSUME NEW t \in Threads, Allow(t) PROVE Typed'
  <2>1. PICK place \in {"line", "release"} : Proceed(t, place)
    BY <1>8 DEF Allow
  <2>2. windowStart' \in 0..time' /\ time' \in 0..MaxTime
    BY <1>8, BoundsAssumption DEF Allow
  <2>3. suppressing' \in BOOLEAN
    BY <1>8, Zenon DEF Allow
  <2>4. count' \in 0..MaxLines
    <3> DEFINE spent == IF Expired THEN 0 ELSE count
    <3>1. spent \in 0..MaxLines
      BY BoundsAssumption
    <3>2. (spent < MaxLines /\ count' = spent + 1) \/ count' = spent
      BY <1>8, Zenon DEF Allow
    <3> HIDE DEF spent
    <3> QED
      BY <3>1, <3>2, BoundsAssumption
  <2> QED
    BY <1>8, <2>1, <2>2, <2>3, <2>4, ProceedKeepsType DEF Allow, Places, health
<1>9. ASSUME NEW t \in Threads, WriteLine(t) PROVE Typed'
  <2>1. lines' \in Seq(0..MaxTime)
    <3>1. CASE lines' = lines
      BY <3>1
    <3>2. CASE lines' = Append(lines, time)
      BY <3>2
    <3> QED
      BY <1>9, <3>1, <3>2 DEF WriteLine
  <2> QED
    BY <1>9, <2>1, ProceedKeepsType DEF WriteLine, Places, health, budget
<1>10. ASSUME NEW t \in Threads, LeaveFallback(t) PROVE Typed'
  BY <1>10, ReturnKeepsType DEF LeaveFallback, Places, health, budget
<1>11. CASE Tick
  BY <1>11, BoundsAssumption DEF Tick, calls, health, budget
<1>12. CASE UNCHANGED vars
  BY <1>12 DEF vars, calls, health, budget
<1> QED
  BY <1>1, <1>2, <1>3, <1>4, <1>5, <1>6, <1>7, <1>8, <1>9, <1>10, <1>11, <1>12
     DEF Next, Step

LEMMA SpecTyped == Spec => []Typed
  BY TypedInit, TypedStep, PTL DEF Spec

\* Every variable keeps its type: the fallback's count stays within its budget and its
\* window never starts in the future (stderr.py:79-96).
THEOREM TypeCorrect == Spec => []TypeOK
<1>1. Typed => TypeOK
  BY DEF Typed
<1> QED
  BY <1>1, SpecTyped, PTL

--------------------------------------------------------------------------------
(* The health counters. *)

\* However marks of several threads interleave, recoveries stay behind failures, and
\* strictly so while the log is degraded (health.py:47-63).
THEOREM CountersAlwaysAgree == Spec => []CountersAgree
<1>1. Init => CountersAgree
  BY DEF Init, CountersAgree
<1>2. Typed /\ CountersAgree /\ [Next]_vars => CountersAgree'
  <2> SUFFICES ASSUME Typed, CountersAgree, [Next]_vars PROVE CountersAgree'
    OBVIOUS
  <2>1. ASSUME NEW t \in Threads, MarkHealthy(t) PROVE CountersAgree'
    BY <2>1 DEF MarkHealthy, CountersAgree, Typed, TypeOK
  <2>2. ASSUME NEW t \in Threads, MarkDegraded(t) PROVE CountersAgree'
    BY <2>2 DEF MarkDegraded, CountersAgree, Typed, TypeOK
  <2>3. CASE UNCHANGED health
    BY <2>3 DEF CountersAgree, health
  <2> QED
    BY <2>1, <2>2, <2>3 DEF Next, Step, Call, Emit, WriteRecord, WriteDefect,
       EnterFallback, Allow, WriteLine, LeaveFallback, Tick, vars
<1> QED
  BY <1>1, <1>2, SpecTyped, PTL DEF Spec

--------------------------------------------------------------------------------
(* The fallback. *)

\* The unlocked flag lets one thread at a time into the fallback and is clear whenever
\* none is in it, whatever stderr does (stderr.py:67-77).
THEOREM FallbackAlwaysOwned == Spec => []FallbackHasOneOwner
<1> USE DEF FallbackHasOneOwner, InFallback
<1>1. Init => FallbackHasOneOwner
  BY DEF Init
<1>2. Typed /\ FallbackHasOneOwner /\ [Next]_vars => FallbackHasOneOwner'
  <2> SUFFICES ASSUME Typed, FallbackHasOneOwner, [Next]_vars PROVE FallbackHasOneOwner'
    OBVIOUS
  <2>1. ASSUME NEW t \in Threads, EnterFallback(t) PROVE FallbackHasOneOwner'
    BY <2>1 DEF EnterFallback, Return, Proceed, Goto, Typed, TypeOK
  <2>2. ASSUME NEW t \in Threads, LeaveFallback(t) PROVE FallbackHasOneOwner'
    BY <2>2 DEF LeaveFallback, Return, Goto, Typed, TypeOK
  <2>3. ASSUME NEW t \in Threads, Allow(t) \/ WriteLine(t) PROVE FallbackHasOneOwner'
    BY <2>3 DEF Allow, WriteLine, Proceed, Goto, Typed, TypeOK
  <2>4. ASSUME NEW t \in Threads,
               \/ Emit(t) \/ WriteRecord(t) \/ WriteDefect(t)
               \/ MarkHealthy(t) \/ MarkDegraded(t)
               \/ \E i \in Inputs : Call(t, i)
        PROVE  FallbackHasOneOwner'
    <3>1. /\ ~InFallback(t) /\ ~InFallback(t)'
          /\ \A u \in Threads \ {t} : pc'[u] = pc[u]
          /\ reentrant' = reentrant
      BY <2>4 DEF Emit, WriteRecord, WriteDefect, HandleDefect, MarkHealthy, MarkDegraded,
         Call, Return, Escape, Proceed, Goto, Typed, TypeOK
    <3> QED
      BY <3>1
  <2>5. CASE Tick
    BY <2>5 DEF Tick, calls
  <2>6. CASE UNCHANGED vars
    BY <2>6 DEF vars, calls
  <2> QED
    BY <2>1, <2>2, <2>3, <2>4, <2>5, <2>6 DEF Next, Step
<1> QED
  BY <1>1, <1>2, SpecTyped, PTL DEF Spec

--------------------------------------------------------------------------------
(* What reaches the caller. *)

\* No interleaving and no failure of the sink, the encoder or stderr makes a well-formed
\* call raise, nor a malformed one without strict (operational.py:159-177).
THEOREM OnlyStrictEverRaises == Spec => []OnlyStrictRaises
<1>1. Init => OnlyStrictRaises
  BY DEF Init, OnlyStrictRaises
<1>2. Typed /\ OnlyStrictRaises /\ [Next]_vars => OnlyStrictRaises'
  <2> SUFFICES ASSUME Typed, OnlyStrictRaises, [Next]_vars PROVE OnlyStrictRaises'
    OBVIOUS
  <2>1. CASE UNCHANGED <<raised, strict>>
    BY <2>1 DEF OnlyStrictRaises
  <2>2. ASSUME NEW t \in Threads, Emit(t) PROVE OnlyStrictRaises'
    BY <2>2 DEF Emit, HandleDefect, Escape, Proceed, OnlyStrictRaises
  <2>3. ASSUME NEW t \in Threads, WriteRecord(t) PROVE OnlyStrictRaises'
    BY <2>3 DEF WriteRecord, HandleDefect, Escape, Proceed, OnlyStrictRaises
  <2> QED
    BY <2>1, <2>2, <2>3 DEF Next, Step, Call, WriteDefect, MarkHealthy, MarkDegraded,
       EnterFallback, Allow, WriteLine, LeaveFallback, Tick, Return, Proceed, calls, vars
<1> QED
  BY <1>1, <1>2, SpecTyped, PTL DEF Spec

--------------------------------------------------------------------------------
(* The volume of the fallback. *)

\* What the current window has used of its budget, the line being written excepted.
Spent ==
    count + (IF suppressing THEN 1 ELSE 0)
          - (IF \E t \in Threads : pc[t] = "line" THEN 1 ELSE 0)

\* But for the last Spent lines, all precede the current window; but for MaxLines + 1
\* more, they do so by a whole window.
Budgeted ==
    /\ BoundedVolume
    /\ 0 <= Spent
    /\ \A k \in 1..Len(lines) : lines[k] <= time
    /\ \A k \in 1..Len(lines) : k <= Len(lines) - Spent => lines[k] <= windowStart
    /\ \A k \in 1..Len(lines) :
          k + MaxLines + 1 <= Len(lines) - Spent => windowStart - lines[k] >= Window

LEMMA LinesType ==
  ASSUME Typed
  PROVE  /\ Len(lines) \in Nat
         /\ \A k \in 1..Len(lines) : lines[k] \in 0..MaxTime
         /\ time \in Nat /\ windowStart \in Nat /\ windowStart <= time
         /\ count \in 0..MaxLines
         /\ MaxLines \in Nat /\ Window \in Nat /\ MaxTime \in Nat
  BY BoundsAssumption DEF Typed, TypeOK

LEMMA SpentType ==
  ASSUME Typed
  PROVE  /\ Spent \in Int
         /\ Spent <= MaxLines + 1
         /\ (\E t \in Threads : pc[t] = "line") => Spent <= MaxLines
  BY LinesType DEF Spent

\* A step that writes no line, starts no window and leaves what is spent alone.
LEMMA QuietKeepsBudget ==
  ASSUME Typed, Budgeted, lines' = lines, windowStart' = windowStart, Spent' = Spent,
         time' \in Nat, time' >= time
  PROVE  Budgeted'
  BY LinesType, SpentType DEF Budgeted, BoundedVolume

\* A line that is written was paid for when it was allowed.
LEMMA LineKeepsBudget ==
  ASSUME Typed, Budgeted, NEW t \in Threads, pc[t] = "line",
         lines' \in {lines, Append(lines, time)}, windowStart' = windowStart,
         time' = time, Spent' = Spent + 1
  PROVE  Budgeted'
<1> DEFINE n == Len(lines)
<1>1. CASE lines' = lines
  <2>1. n \in Nat /\ Spent \in Int /\ MaxLines \in Nat
    BY LinesType, SpentType
  <2>2. BoundedVolume' /\ 0 <= Spent' /\ \A k \in 1..n : lines'[k] <= time'
    BY <1>1, <2>1 DEF Budgeted, BoundedVolume
  <2>3. \A k \in 1..n : k <= n - Spent' => k <= n - Spent
    BY <2>1
  <2>4. \A k \in 1..n : k + MaxLines + 1 <= n - Spent' => k + MaxLines + 1 <= n - Spent
    BY <2>1
  <2> QED
    BY <1>1, <2>2, <2>3, <2>4 DEF Budgeted
<1>2. CASE lines' = Append(lines, time)
  <2>1. /\ Len(lines') = n + 1
        /\ \A k \in 1..n : lines'[k] = lines[k]
        /\ lines'[n + 1] = time
    BY <1>2 DEF Typed, TypeOK
  <2>2. ASSUME NEW k \in 1..(n + 1), k + 2 * (MaxLines + 1) <= n + 1
        PROVE  lines'[k + 2 * (MaxLines + 1)] - lines'[k] >= Window
    <3>1. CASE k + 2 * (MaxLines + 1) <= n
      <4>1. k \in 1..n /\ k + 2 * (MaxLines + 1) \in 1..n
        BY <3>1, LinesType
      <4> QED
        BY <4>1, <3>1, <2>1 DEF Budgeted, BoundedVolume
    <3>2. CASE k + 2 * (MaxLines + 1) = n + 1
      <4>0. n \in Nat /\ MaxLines \in Nat /\ Spent \in Int /\ Spent <= MaxLines
        BY LinesType, SpentType
      <4>1. k \in 1..n /\ k + MaxLines + 1 <= n - Spent
        <5> HIDE DEF n
        <5> QED
          BY <4>0, <3>2
      <4>2. windowStart - lines[k] >= Window
        BY <4>1 DEF Budgeted
      <4>3. lines'[k + 2 * (MaxLines + 1)] = time /\ lines'[k] = lines[k]
        BY <4>1, <3>2, <2>1, Zenon
      <4>4. lines[k] \in Nat /\ time \in Nat /\ windowStart \in Nat /\ windowStart <= time
            /\ Window \in Nat
        BY <4>1, LinesType
      <4> QED
        BY <4>2, <4>3, <4>4
    <3> QED
      <4>1. n \in Nat /\ MaxLines \in Nat
        BY LinesType
      <4> HIDE DEF n
      <4> QED
        BY <4>1, <2>2, <3>1, <3>2
  <2>3. BoundedVolume'
    BY <2>1, <2>2 DEF BoundedVolume
  <2>4. \A k \in 1..Len(lines') : lines'[k] <= time'
    <3> SUFFICES ASSUME NEW k \in 1..(n + 1) PROVE lines'[k] <= time
      BY <2>1
    <3>1. n \in Nat /\ time \in Nat
      BY LinesType
    <3>2. CASE k \in 1..n
      BY <2>1, <3>2 DEF Budgeted
    <3>3. CASE k = n + 1
      BY <2>1, <3>1, <3>3
    <3> QED
      BY <3>1, <3>2, <3>3
  <2>5. \A k \in 1..Len(lines') : k <= Len(lines') - Spent' => lines'[k] <= windowStart'
    <3> SUFFICES ASSUME NEW k \in 1..(n + 1), k <= n - Spent
                 PROVE  lines'[k] <= windowStart
      BY <2>1, LinesType, SpentType
    <3>1. k \in 1..n
      BY LinesType, SpentType DEF Budgeted
    <3> QED
      BY <3>1, <2>1 DEF Budgeted
  <2>6. \A k \in 1..Len(lines') :
           k + MaxLines + 1 <= Len(lines') - Spent' => windowStart' - lines'[k] >= Window
    <3> SUFFICES ASSUME NEW k \in 1..(n + 1), k + MaxLines + 1 <= n - Spent
                 PROVE  windowStart - lines'[k] >= Window
      BY <2>1, LinesType, SpentType
    <3>1. k \in 1..n
      BY LinesType, SpentType DEF Budgeted
    <3> QED
      BY <3>1, <2>1 DEF Budgeted
  <2>7. 0 <= Spent'
    BY SpentType DEF Budgeted
  <2> QED
    BY <2>3, <2>4, <2>5, <2>6, <2>7 DEF Budgeted
<1> QED
  BY <1>1, <1>2

\* A window that starts finds all lines before it, and all but the last MaxLines + 1 of
\* them a whole window before it.
LEMMA RestartKeepsBudget ==
  ASSUME Typed, Budgeted, lines' = lines, windowStart' = time, time' = time,
         time - windowStart >= Window, Spent' = 0
  PROVE  Budgeted'
<1>0. Len(lines) \in Nat /\ MaxLines \in Nat /\ Spent \in Int /\ Spent <= MaxLines + 1
  BY LinesType, SpentType
<1>1. \A k \in 1..Len(lines) : k + MaxLines + 1 <= Len(lines) => k <= Len(lines) - Spent
  BY <1>0
<1>2. BoundedVolume'
  BY DEF Budgeted, BoundedVolume
<1>3. \A k \in 1..Len(lines) : lines[k] <= time
  BY DEF Budgeted
<1>4. ASSUME NEW k \in 1..Len(lines), k + MaxLines + 1 <= Len(lines)
      PROVE  time - lines[k] >= Window
  <2>1. lines[k] <= windowStart
    BY <1>1, <1>4 DEF Budgeted
  <2>2. lines[k] \in Nat /\ time \in Nat /\ windowStart \in Nat /\ Window \in Nat
    BY LinesType
  <2> QED
    BY <2>1, <2>2
<1>5. Len(lines') - Spent' = Len(lines)
  BY <1>0
<1> QED
  BY <1>2, <1>3, <1>4, <1>5 DEF Budgeted

\* What _allow does to the budget: it starts a window if the last one is over, and what
\* it lets through it has counted.
LEMMA AllowKeepsBudget ==
  ASSUME Typed, FallbackHasOneOwner, Budgeted, NEW t \in Threads, Allow(t)
  PROVE  Budgeted'
<1> DEFINE spent == IF Expired THEN 0 ELSE count
           quiet == IF Expired THEN FALSE ELSE suppressing
           due == spent + (IF quiet THEN 1 ELSE 0)
<1>1. /\ pc[t] = "allow"
      /\ \A u \in Threads : pc[u] # "line"
      /\ \A u \in Threads \ {t} : pc'[u] = pc[u]
      /\ pc \in [Threads -> Places]
  BY DEF Allow, FallbackHasOneOwner, InFallback, Proceed, Goto, Typed, TypeOK, Places
<1>2. due = IF Expired THEN 0 ELSE Spent
  BY <1>1, LinesType DEF Spent
<1>3. Spent' = due
  <2>1. CASE spent < MaxLines
    <3>1. count' = spent + 1 /\ suppressing' = quiet /\ Proceed(t, "line")
      BY <2>1, Zenon DEF Allow
    <3>2. pc'[t] = "line"
      BY <3>1, <1>1 DEF Proceed, Goto
    <3>3. spent \in Nat
      BY LinesType
    <3>4. Spent' = (spent + 1) + (IF quiet THEN 1 ELSE 0) - 1
      BY <3>1, <3>2, Zenon DEF Spent
    <3> HIDE DEF spent, quiet
    <3> QED
      BY <3>3, <3>4
  <2>2. CASE ~(spent < MaxLines) /\ quiet
    <3>1. count' = spent /\ suppressing' = TRUE /\ Proceed(t, "release")
      BY <2>2, Zenon DEF Allow
    <3>2. \A u \in Threads : pc'[u] # "line"
      BY <3>1, <1>1 DEF Proceed, Goto
    <3>3. spent \in Nat
      BY LinesType
    <3>4. Spent' = spent + 1 - 0
      BY <3>1, <3>2, Zenon DEF Spent
    <3>5. due = spent + 1
      BY <2>2, Zenon
    <3> HIDE DEF spent, quiet, due
    <3> QED
      BY <3>3, <3>4, <3>5
  <2>3. CASE ~(spent < MaxLines) /\ ~quiet
    <3>1. count' = spent /\ suppressing' = TRUE /\ Proceed(t, "line")
      BY <2>3, Zenon DEF Allow
    <3>2. pc'[t] = "line"
      BY <3>1, <1>1 DEF Proceed, Goto
    <3>3. spent \in Nat
      BY LinesType
    <3>4. Spent' = spent + 1 - 1
      BY <3>1, <3>2, Zenon DEF Spent
    <3>5. due = spent + 0
      BY <2>3, Zenon
    <3> HIDE DEF spent, quiet, due
    <3> QED
      BY <3>3, <3>4, <3>5
  <2> QED
    BY <2>1, <2>2, <2>3
<1>4. lines' = lines /\ time' = time
  BY DEF Allow
<1>5. CASE Expired
  <2>1. windowStart' = time /\ time - windowStart >= Window
    BY <1>5 DEF Allow, Expired
  <2> QED
    BY <2>1, <1>2, <1>3, <1>4, <1>5, RestartKeepsBudget
<1>6. CASE ~Expired
  <2>1. windowStart' = windowStart
    BY <1>6 DEF Allow
  <2> QED
    BY <2>1, <1>2, <1>3, <1>4, <1>6, LinesType, QuietKeepsBudget
<1> QED
  BY <1>5, <1>6

LEMMA BudgetStep ==
  Typed /\ FallbackHasOneOwner /\ Budgeted /\ [Next]_vars => Budgeted'
<1> SUFFICES ASSUME Typed, FallbackHasOneOwner, Budgeted, [Next]_vars PROVE Budgeted'
  OBVIOUS
<1>1. ASSUME NEW t \in Threads, Allow(t) PROVE Budgeted'
  BY <1>1, AllowKeepsBudget
<1>2. ASSUME NEW t \in Threads, WriteLine(t) PROVE Budgeted'
  <2>1. /\ pc[t] = "line"
        /\ \A u \in Threads : pc'[u] # "line"
    BY <1>2 DEF WriteLine, FallbackHasOneOwner, InFallback, Proceed, Goto, Typed, TypeOK
  <2>2. count' = count /\ suppressing' = suppressing
    BY <1>2 DEF WriteLine, budget
  <2>3. Spent = count + (IF suppressing THEN 1 ELSE 0) - 1
    BY <2>1, Zenon DEF Spent
  <2>4. Spent' = count + (IF suppressing THEN 1 ELSE 0) - 0
    BY <2>1, <2>2, Zenon DEF Spent
  <2>5. Spent' = Spent + 1
    BY <2>3, <2>4, LinesType
  <2> QED
    BY <1>2, <2>1, <2>5, LineKeepsBudget DEF WriteLine, budget
<1>3. ASSUME UNCHANGED <<lines, budget>>, time' \in Nat, time' >= time,
             \A t \in Threads : pc'[t] = "line" <=> pc[t] = "line"
      PROVE  Budgeted'
  <2>1. Spent' = Spent
    BY <1>3, Zenon DEF Spent, budget
  <2> QED
    BY <1>3, <2>1, QuietKeepsBudget DEF budget
<1>4. ASSUME NEW t \in Threads,
             \/ Emit(t) \/ WriteRecord(t) \/ WriteDefect(t)
             \/ MarkHealthy(t) \/ MarkDegraded(t)
             \/ EnterFallback(t) \/ LeaveFallback(t)
             \/ \E i \in Inputs : Call(t, i)
      PROVE  Budgeted'
  <2>1. \A u \in Threads : pc'[u] = "line" <=> pc[u] = "line"
    BY <1>4 DEF Emit, WriteRecord, WriteDefect, HandleDefect, MarkHealthy, MarkDegraded,
       EnterFallback, LeaveFallback, Call, Return, Escape, Proceed, Goto, Typed, TypeOK
  <2>2. UNCHANGED <<lines, budget, time>>
    BY <1>4 DEF Emit, WriteRecord, WriteDefect, MarkHealthy, MarkDegraded,
       EnterFallback, LeaveFallback, Call
  <2> QED
    BY <2>1, <2>2, <1>3, LinesType
<1>5. CASE Tick
  BY <1>5, <1>3, LinesType DEF Tick, calls
<1>6. CASE UNCHANGED vars
  BY <1>6, <1>3, LinesType DEF vars, calls
<1> QED
  BY <1>1, <1>2, <1>4, <1>5, <1>6 DEF Next, Step

\* Whatever the rate of failures, the moments at which windows start and the slowness of
\* writes, 2 * (MaxLines + 1) + 1 fallback lines are spread over a window or more
\* (stderr.py:79-96).
THEOREM VolumeIsBounded == Spec => []BoundedVolume
<1>1. Init => Budgeted
  <2> SUFFICES ASSUME Init PROVE Budgeted
    OBVIOUS
  <2>1. Len(lines) = 0 /\ 1..Len(lines) = {}
    BY DEF Init
  <2>2. \A t \in Threads : pc[t] # "line"
    BY DEF Init
  <2>3. Spent = 0 + 0 - 0
    BY <2>2, Zenon DEF Init, Spent
  <2> QED
    BY <2>1, <2>3 DEF Budgeted, BoundedVolume
<1>2. Budgeted => BoundedVolume
  BY DEF Budgeted
<1> QED
  BY <1>1, <1>2, BudgetStep, SpecTyped, FallbackAlwaysOwned, PTL DEF Spec

--------------------------------------------------------------------------------
(* The account of calls. *)

Settling == {"healthy", "fallback", "allow", "line", "release"}

\* The calls that have left their record or their failure and have yet to return.
Traced == {t \in Threads : pc[t] \in Settling}

Account == records + failures = returned + Cardinality(Traced)

LEMMA TracedFinite == IsFiniteSet(Traced) /\ Cardinality(Traced) \in Nat
  BY ThreadsAssumption, FS_Subset, FS_CardinalityType DEF Traced

\* How a step of one thread changes the number of traced calls.
LEMMA BecomesTraced ==
  ASSUME Typed, NEW t \in Threads, pc[t] \notin Settling, NEW place \in Settling,
         pc' = [pc EXCEPT ![t] = place]
  PROVE  Cardinality(Traced') = Cardinality(Traced) + 1
<1>1. Traced' = Traced \cup {t} /\ t \notin Traced
  BY DEF Traced, Typed, TypeOK
<1> QED
  BY <1>1, TracedFinite, FS_AddElement

LEMMA NoLongerTraced ==
  ASSUME Typed, NEW t \in Threads, pc[t] \in Settling, pc' = [pc EXCEPT ![t] = "idle"]
  PROVE  Cardinality(Traced') = Cardinality(Traced) - 1
<1>1. Traced' = Traced \ {t} /\ t \in Traced
  BY DEF Traced, Typed, TypeOK, Settling
<1> QED
  BY <1>1, TracedFinite, FS_RemoveElement

LEMMA TracedAsBefore ==
  ASSUME Typed, NEW t \in Threads, NEW place, pc[t] \in Settling <=> place \in Settling,
         pc' = [pc EXCEPT ![t] = place]
  PROVE  Cardinality(Traced') = Cardinality(Traced)
<1>1. Traced' = Traced
  BY DEF Traced, Typed, TypeOK
<1> QED
  BY <1>1

LEMMA AccountStep == Typed /\ Account /\ [Next]_vars => Account'
<1> SUFFICES ASSUME Typed, Account, [Next]_vars PROVE Account'
  OBVIOUS
<1>0. /\ records \in Nat /\ failures \in Nat /\ returned \in Nat
      /\ Cardinality(Traced) \in Nat
      /\ records + failures = returned + Cardinality(Traced)
  BY TracedFinite DEF Typed, TypeOK, Account
\* The four ways a step can keep the account.
<1>1. ASSUME NEW t \in Threads, NEW place, pc[t] \in Settling <=> place \in Settling,
             pc' = [pc EXCEPT ![t] = place], UNCHANGED <<records, failures, returned>>
      PROVE  Account'
  BY <1>0, <1>1, TracedAsBefore DEF Account
<1>2. ASSUME NEW t \in Threads, NEW place \in Settling, pc[t] \notin Settling,
             pc' = [pc EXCEPT ![t] = place], returned' = returned,
             records' + failures' = records + failures + 1
      PROVE  Account'
  <2>1. Cardinality(Traced') = Cardinality(Traced) + 1
    BY <1>2, BecomesTraced
  <2> QED
    BY <1>0, <1>2, <2>1 DEF Account
<1>3. ASSUME NEW t \in Threads, pc[t] \in Settling, Return(t),
             UNCHANGED <<records, failures>>
      PROVE  Account'
  <2>1. Cardinality(Traced') = Cardinality(Traced) - 1
    BY <1>3, NoLongerTraced DEF Return, Goto
  <2>2. returned' = returned + 1
    BY <1>3 DEF Return
  <2> QED
    BY <1>0, <1>3, <2>1, <2>2 DEF Account
<1>4. ASSUME UNCHANGED <<pc, records, failures, returned>> PROVE Account'
  BY <1>0, <1>4 DEF Account, Traced
<1> USE DEF Settling
<1>5. ASSUME NEW t \in Threads, NEW i \in Inputs, Call(t, i) PROVE Account'
  BY <1>5, <1>1 DEF Call, Goto, health
<1>6. ASSUME NEW t \in Threads, Emit(t) PROVE Account'
  BY <1>6, <1>1 DEF Emit, HandleDefect, Escape, Proceed, Goto, health
<1>7. ASSUME NEW t \in Threads, WriteRecord(t) PROVE Account'
  <2>1. CASE Wrote /\ Proceed(t, "healthy")
    <3>1. pc[t] = "write" /\ records' = records + 1 /\ failures' = failures
      BY <1>7, <2>1 DEF WriteRecord, Wrote, health
    <3>2. records' + failures' = records + failures + 1
      BY <3>1, <1>0
    <3> QED
      BY <2>1, <3>1, <3>2, <1>2 DEF Proceed, Goto
  <2>2. CASE UNCHANGED records
    <3>1. pc[t] = "write" /\ failures' = failures /\ records' # records + 1
      BY <1>7, <2>2, <1>0 DEF WriteRecord, health
    <3>2. (\E place \in {"degrade", "defect"} : Proceed(t, place)) \/ Escape(t)
      BY <1>7, <2>2, <3>1 DEF WriteRecord, Wrote, HandleDefect
    <3> QED
      BY <2>2, <3>1, <3>2, <1>1 DEF Escape, Proceed, Goto
  <2> QED
    BY <1>7, <2>1, <2>2 DEF WriteRecord, Failed
<1>8. ASSUME NEW t \in Threads, WriteDefect(t) PROVE Account'
  <2>1. CASE Wrote /\ Proceed(t, "healthy")
    <3>1. pc[t] = "defect" /\ records' = records + 1 /\ failures' = failures
      BY <1>8, <2>1 DEF WriteDefect, Wrote, health
    <3>2. records' + failures' = records + failures + 1
      BY <3>1, <1>0
    <3> QED
      BY <2>1, <3>1, <3>2, <1>2 DEF Proceed, Goto
  <2>2. CASE Failed /\ Proceed(t, "degrade")
    BY <1>8, <2>2, <1>1 DEF WriteDefect, Failed, Proceed, Goto, health
  <2> QED
    BY <1>8, <2>1, <2>2 DEF WriteDefect
<1>9. ASSUME NEW t \in Threads, MarkHealthy(t) PROVE Account'
  BY <1>9, <1>3 DEF MarkHealthy
<1>10. ASSUME NEW t \in Threads, MarkDegraded(t) PROVE Account'
  <2>1. records' + failures' = records + failures + 1
    BY <1>10, <1>0 DEF MarkDegraded
  <2> QED
    BY <1>10, <2>1, <1>2 DEF MarkDegraded, Proceed, Goto
<1>11. ASSUME NEW t \in Threads, EnterFallback(t) PROVE Account'
  BY <1>11, <1>1, <1>3 DEF EnterFallback, Proceed, Goto, health
<1>12. ASSUME NEW t \in Threads, Allow(t) PROVE Account'
  <2>1. PICK place \in {"line", "release"} : Proceed(t, place)
    BY <1>12 DEF Allow
  <2> QED
    BY <1>12, <2>1, <1>1 DEF Allow, Proceed, Goto, health
<1>13. ASSUME NEW t \in Threads, WriteLine(t) PROVE Account'
  BY <1>13, <1>1 DEF WriteLine, Proceed, Goto, health
<1>14. ASSUME NEW t \in Threads, LeaveFallback(t) PROVE Account'
  BY <1>14, <1>3 DEF LeaveFallback, health
<1>15. CASE Tick
  BY <1>15, <1>4 DEF Tick, calls, health
<1>16. CASE UNCHANGED vars
  BY <1>16, <1>4 DEF vars, calls, health
<1> QED
  BY <1>5, <1>6, <1>7, <1>8, <1>9, <1>10, <1>11, <1>12, <1>13, <1>14, <1>15, <1>16
     DEF Next, Step

\* Of the calls that have returned none is lost unseen: together they left as many records
\* and counted failures, for any number of threads (operational.py:159-209).
THEOREM EveryCallIsAccounted == Spec => []EveryCallAccounted
<1>1. Init => Account
  <2> SUFFICES ASSUME Init PROVE Account
    OBVIOUS
  <2>1. Traced = {}
    BY DEF Init, Traced, Settling
  <2> QED
    BY <2>1, FS_EmptySet DEF Init, Account
<1>2. Typed /\ Account => EveryCallAccounted
  <2> SUFFICES ASSUME Typed, Account, Quiet PROVE returned = records + failures
    BY DEF EveryCallAccounted
  <2>1. Traced = {}
    BY DEF Quiet, Traced, Settling
  <2> QED
    BY <2>1, FS_EmptySet DEF Account, Typed, TypeOK
<1> QED
  BY <1>1, <1>2, AccountStep, SpecTyped, PTL DEF Spec

=================================================================================
