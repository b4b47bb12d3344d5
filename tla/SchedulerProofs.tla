--------------------------- MODULE SchedulerProofs ---------------------------
(***************************************************************************)
(* Theorems about Scheduler, for every number of slots and every           *)
(* generation width.  The inductive invariant is IndInv.                   *)
(***************************************************************************)
EXTENDS Scheduler, TLAPS

\* now was read from the clock before the lock was taken
NowIsPast == now <= clock

\* the slot that a Ready task saw run lies behind that task in the scan order
Rotation ==
    \A i \in Slots : state[i] = "Ready" =>
        \A j \in Slots :
            /\ bypass[i][j] <= 1
            /\ bypass[i][j] = 1 => Offset(next, i) < Offset(next, j)

\* the running task is the first one of the scan that dispatched it
RunningIsFirst ==
    phase = "entry" =>
        \A i \in Slots : state[i] = "Ready" =>
            Offset(next, current.index) < Offset(next, i)

\* the generation d spawns after generation g, for d < GEN_MAX
Later(g, d) == IF g + d <= GEN_MAX THEN g + d ELSE g + d - GEN_MAX

\* a slot's generation is its n-th issued one moved on by the later spawns
GenerationTrail ==
    \A i \in Slots : \A n \in DOMAIN issued[i] :
        Len(issued[i]) - n < GEN_MAX =>
            generations[i] = Later(issued[i][n], Len(issued[i]) - n)

\* a context is written only for a task that ran, and cleared with its slot
ContextTrail ==
    \A i \in Slots : framed[i] => ran[i] /\ state[i] # "None"

IndInv ==
    /\ TypeOK
    /\ NowIsPast
    /\ CurrentIsTheRunningTask
    /\ Rotation
    /\ RunningIsFirst
    /\ GenerationTrail
    /\ ContextTrail

USE MaxTasksAssumption, GenMaxAssumption, BudgetsAssumption,
    MaxTickAssumption, MaxSpawnsAssumption

------------------------------------------------------------------------------

\* The u32 arithmetic of spawn: one past GEN_MAX is generation 1.
LEMMA NextGenerationIs ==
    ASSUME NEW g \in 0 .. GEN_MAX
    PROVE  NextGeneration(g) = IF g = GEN_MAX THEN 1 ELSE g + 1
<1>1. CASE g = GEN_MAX
    <2>1. (g + 1) % (GEN_MAX + 1) = 0
        BY <1>1, SMT
    <2> QED  BY <2>1, <1>1 DEF NextGeneration
<1>2. CASE g # GEN_MAX
    <2>1. g + 1 \in 1 .. GEN_MAX
        BY <1>2
    <2>2. (g + 1) % (GEN_MAX + 1) = g + 1
        BY <2>1, SMT
    <2> QED  BY <2>1, <2>2, <1>2 DEF NextGeneration
<1> QED  BY <1>1, <1>2

\* The cursor after slot i is the next slot, cyclically.
LEMMA CursorAfterIs ==
    ASSUME NEW i \in Slots
    PROVE  CursorAfter(i) = IF i = MAX_TASKS - 1 THEN 0 ELSE i + 1
<1>1. CASE i = MAX_TASKS - 1
    BY <1>1, SMT DEF CursorAfter
<1>2. CASE i # MAX_TASKS - 1
    <2>1. i + 1 \in 0 .. MAX_TASKS - 1
        BY <1>2 DEF Slots
    <2>2. (i + 1) % MAX_TASKS = i + 1
        BY <2>1, SMT
    <2> QED  BY <2>2, <1>2 DEF CursorAfter
<1> QED  BY <1>1, <1>2

\* Offset inverts the scan of find_next_ready: (start + offset) % MAX_TASKS.
LEMMA OffsetInvertsScan ==
    ASSUME NEW start \in Slots, NEW i \in Slots
    PROVE  /\ Offset(start, i) \in Slots
           /\ (start + Offset(start, i)) % MAX_TASKS = i
<1>1. Offset(start, i) \in Slots
    BY DEF Offset, Slots
<1>2. CASE i >= start
    <2>1. start + Offset(start, i) = i
        BY <1>2 DEF Offset, Slots
    <2>2. i % MAX_TASKS = i
        BY SMT DEF Slots
    <2> QED  BY <1>1, <2>1, <2>2
<1>3. CASE ~(i >= start)
    <2>1. start + Offset(start, i) = i + MAX_TASKS
        BY <1>3 DEF Offset, Slots
    <2>2. (i + MAX_TASKS) % MAX_TASKS = i
        BY SMT DEF Slots
    <2> QED  BY <1>1, <2>1, <2>2
<1> QED  BY <1>2, <1>3

\* Two slots never have the same offset.
LEMMA OffsetInjective ==
    ASSUME NEW start \in Slots, NEW i \in Slots, NEW j \in Slots,
           Offset(start, i) = Offset(start, j)
    PROVE  i = j
BY DEF Offset, Slots

\* Moving the cursor past slot c keeps the order of the slots behind c and
\* puts c itself last.
LEMMA OffsetShift ==
    ASSUME NEW start \in Slots, NEW c \in Slots, NEW i \in Slots, NEW j \in Slots,
           Offset(start, c) < Offset(start, i), j # c
    PROVE  /\ Offset(CursorAfter(c), i) < Offset(CursorAfter(c), c)
           /\ Offset(start, i) < Offset(start, j)
                  => Offset(CursorAfter(c), i) < Offset(CursorAfter(c), j)
<1>1. CASE c = MAX_TASKS - 1
    <2>1. CursorAfter(c) = 0
        BY <1>1, CursorAfterIs
    <2> QED  BY <1>1, <2>1 DEF Offset, Slots
<1>2. CASE c # MAX_TASKS - 1
    <2>1. CursorAfter(c) = c + 1
        BY <1>2, CursorAfterIs
    <2> QED  BY <1>2, <2>1 DEF Offset, Slots
<1> QED  BY <1>1, <1>2

\* Counting one bypass more keeps a row of bypass a row of naturals.
LEMMA IncrementRow ==
    ASSUME NEW S, NEW f \in [S -> Nat], NEW x \in S
    PROVE  [f EXCEPT ![x] = f[x] + 1] \in [S -> Nat]
OBVIOUS

\* The distance to a history of length len that grows by one.
LEMMA DistanceStep ==
    ASSUME NEW len \in Nat, NEW n \in 1 .. len, len + 1 - n < GEN_MAX
    PROVE  /\ len - n \in Nat
           /\ len - n < GEN_MAX
           /\ (len - n) + 1 < GEN_MAX
           /\ len + 1 - n = (len - n) + 1
OBVIOUS

\* One more spawn moves the generation one on.
LEMMA LaterStep ==
    ASSUME NEW g \in 1 .. GEN_MAX, NEW d \in Nat, d + 1 < GEN_MAX
    PROVE  Later(g, d + 1) =
               IF Later(g, d) = GEN_MAX THEN 1 ELSE Later(g, d) + 1
BY DEF Later

------------------------------------------------------------------------------

\* A new scheduler satisfies the inductive invariant.
LEMMA InitEstablishesIndInv == Init => IndInv
<1> SUFFICES ASSUME Init PROVE IndInv
    OBVIOUS
<1>1. 0 \in Slots /\ 0 \in Ticks
    BY DEF Slots, Ticks
<1>2. NoTask.index \notin Slots
    BY DEF NoTask, Slots
<1> QED
    BY <1>1, <1>2 DEF Init, IndInv, TypeOK, NowIsPast, CurrentIsTheRunningTask,
        Rotation, RunningIsFirst, GenerationTrail, ContextTrail

\* A spawn moves one generation on and appends it to the slot's history.
LEMMA SpawnStep ==
    ASSUME IndInv, NEW i \in Slots, Spawn(i)
    PROVE  IndInv'
<1> USE DEF IndInv
<1>1. generations' = [generations EXCEPT ![i] =
          IF generations[i] = GEN_MAX THEN 1 ELSE generations[i] + 1]
    BY NextGenerationIs DEF Spawn, TypeOK
<1>2. generations'[i] \in 1 .. GEN_MAX
    BY <1>1 DEF TypeOK
<1>3. issued' = [issued EXCEPT ![i] = Append(issued[i], generations'[i])]
    BY DEF Spawn
<1>4. TypeOK'
    BY <1>1, <1>2, <1>3 DEF TypeOK, Spawn, BypassReset, call, TaskStates
<1>5. NowIsPast'
    BY DEF NowIsPast, Spawn, call
<1>6. CurrentIsTheRunningTask'
    BY DEF CurrentIsTheRunningTask, Spawn, call, TypeOK
<1>7. Rotation'
    BY DEF Rotation, Spawn, BypassReset, TypeOK
<1>8. RunningIsFirst'
    BY DEF RunningIsFirst, Spawn, call
<1>9. GenerationTrail'
    <2> SUFFICES ASSUME NEW k \in Slots, NEW n \in DOMAIN issued'[k],
                        Len(issued'[k]) - n < GEN_MAX
                 PROVE  generations'[k] = Later(issued'[k][n], Len(issued'[k]) - n)
        BY DEF GenerationTrail
    <2>1. CASE k # i
        BY <2>1, <1>1, <1>3 DEF GenerationTrail, TypeOK
    <2>2. CASE k = i /\ n = Len(issued[i]) + 1
        <3>1. issued'[i][n] = generations'[i] /\ Len(issued'[i]) = n
            BY <2>2, <1>3 DEF TypeOK
        <3> QED  BY <2>2, <3>1, <1>2 DEF Later
    <2>3. CASE k = i /\ n \in DOMAIN issued[i]
        <3>1. /\ issued'[i][n] = issued[i][n]
              /\ Len(issued'[i]) = Len(issued[i]) + 1
              /\ issued[i][n] \in 1 .. GEN_MAX
              /\ Len(issued[i]) \in Nat /\ n \in 1 .. Len(issued[i])
            BY <2>3, <1>3, SMTT(30) DEF TypeOK
        <3>2. generations[i] = Later(issued[i][n], Len(issued[i]) - n)
            <4>1. Len(issued[i]) - n < GEN_MAX
                BY <2>3, <3>1, DistanceStep
            <4> QED  BY <2>3, <4>1 DEF GenerationTrail
        <3> DEFINE d == Len(issued[i]) - n
        <3>3. d \in Nat /\ d + 1 < GEN_MAX /\ Len(issued'[i]) - n = d + 1
            <4>1. Len(issued'[i]) - n < GEN_MAX
                BY <2>3
            <4>2. Len(issued'[i]) - n = d + 1
                BY <3>1
            <4>3. d \in Nat
                BY <3>1, SMTT(30)
            <4> QED  BY <4>1, <4>2, <4>3
        <3>4. generations'[i] = Later(issued[i][n], d + 1)
            <4>1. generations'[i] =
                      IF generations[i] = GEN_MAX THEN 1 ELSE generations[i] + 1
                BY <1>1 DEF TypeOK
            <4> HIDE DEF d
            <4> QED  BY <4>1, <3>1, <3>2, <3>3, LaterStep DEF d
        <3> QED  BY <2>3, <3>1, <3>3, <3>4
    <2>4. k = i => n \in DOMAIN issued[i] \/ n = Len(issued[i]) + 1
        <3>1. issued[i] \in Seq(1 .. GEN_MAX)
            BY DEF TypeOK
        <3>2. issued'[i] = Append(issued[i], generations'[i])
            BY <1>3 DEF TypeOK
        <3>3. Len(issued[i]) \in Nat /\ DOMAIN issued[i] = 1 .. Len(issued[i])
            BY <3>1
        <3>4. DOMAIN issued'[i] = 1 .. Len(issued[i]) + 1
            BY <1>2, <3>1, <3>2
        <3> QED  BY <3>3, <3>4
    <2> QED  BY <2>1, <2>2, <2>3, <2>4
<1>10. ContextTrail'
    BY DEF ContextTrail, Spawn, TypeOK
<1> QED  BY <1>4, <1>5, <1>6, <1>7, <1>8, <1>9, <1>10

\* Wake, cancel and reap change one slot that is not Running; wake_expired
\* only makes sleepers Ready.
LEMMA HandleStep ==
    ASSUME IndInv, NEW id \in TaskIds, Wake(id) \/ Cancel(id) \/ Reap(id)
    PROVE  IndInv'
<1> USE DEF IndInv
<1>0. id.index \in Slots
    BY DEF TaskIds
<1>1. /\ UNCHANGED <<generations, current, next, call, clock, issued, ran>>
      /\ phase = "idle"
      /\ \A i \in Slots \ {id.index} :
             /\ state'[i] = state[i]
             /\ bypass'[i] = bypass[i]
             /\ framed'[i] = framed[i]
      /\ state'[id.index] \in {"Ready", "Cancelled", "None"}
      /\ state'[id.index] = "Ready" => bypass'[id.index] = [j \in Slots |-> 0]
      /\ state'[id.index] # "None" => framed'[id.index] = framed[id.index]
      /\ state'[id.index] = "None" => ~ framed'[id.index]
      /\ state[id.index] # "None"
    BY <1>0 DEF Wake, Cancel, Reap, BypassReset, TypeOK, ValidTask
<1>2. TypeOK'
    <2>1. CASE Wake(id)
        BY <2>1, <1>0, <1>1 DEF TypeOK, Wake, BypassReset, call, TaskStates
    <2>2. CASE Cancel(id)
        BY <2>2, <1>0, <1>1 DEF TypeOK, Cancel, call, TaskStates, Ticks
    <2>3. CASE Reap(id)
        BY <2>3, <1>0, <1>1 DEF TypeOK, Reap, call, TaskStates
    <2> QED  BY <2>1, <2>2, <2>3
<1>3. NowIsPast'
    BY <1>1 DEF NowIsPast, call
<1>4. CurrentIsTheRunningTask'
    BY <1>0, <1>1 DEF CurrentIsTheRunningTask, call
<1>5. Rotation'
    BY <1>0, <1>1 DEF Rotation
<1>6. RunningIsFirst'
    BY <1>1 DEF RunningIsFirst, call
<1>7. GenerationTrail'
    BY <1>1 DEF GenerationTrail
<1>8. ContextTrail'
    BY <1>0, <1>1 DEF ContextTrail
<1> QED  BY <1>2, <1>3, <1>4, <1>5, <1>6, <1>7, <1>8

\* wake_expired makes sleepers Ready that nobody has bypassed yet.
LEMMA WakeExpiredStep ==
    ASSUME IndInv, WakeExpired
    PROVE  IndInv'
<1> USE DEF IndInv
<1>1. TypeOK'
    BY SMTT(30) DEF TypeOK, WakeExpired, AwakeState, AwakeUntil, BypassReset, call,
        TaskStates, Ticks
<1>2. NowIsPast' /\ RunningIsFirst' /\ GenerationTrail'
    BY DEF NowIsPast, RunningIsFirst, GenerationTrail, WakeExpired, call
<1>3. CurrentIsTheRunningTask'
    BY DEF CurrentIsTheRunningTask, WakeExpired, AwakeState, Expired, call
<1>4. Rotation'
    BY DEF Rotation, WakeExpired, AwakeState, BypassReset, TypeOK
<1>5. ContextTrail'
    BY DEF ContextTrail, WakeExpired, AwakeState, Expired
<1> QED  BY <1>1, <1>2, <1>3, <1>4, <1>5

\* The slot chosen by the scan is nearer to the cursor than every other Ready
\* slot, because two slots never have the same offset.
LEMMA DispatchStep ==
    ASSUME IndInv, NEW i \in Slots, Dispatch(i)
    PROVE  IndInv'
<1> USE DEF IndInv
<1>1. TypeOK'
    BY SMTT(30) DEF TypeOK, Dispatch, AwakeState, AwakeUntil, BypassReset, TaskStates,
        Ticks, TaskIds
<1>2. NowIsPast' /\ GenerationTrail'
    BY DEF NowIsPast, GenerationTrail, Dispatch
<1>3. CurrentIsTheRunningTask'
    <2>1. /\ phase' = "entry" /\ phase = "loop"
          /\ current' = [index |-> i, generation |-> generations[i]]
          /\ generations' = generations
        BY DEF Dispatch
    <2>2. state'[i] = "Running"
        BY DEF Dispatch, AwakeState
    <2>3. ASSUME NEW j \in Slots \ {i} PROVE state'[j] # "Running"
        BY DEF Dispatch, AwakeState, CurrentIsTheRunningTask
    <2>4. current' # NoTask
        BY <2>1 DEF NoTask, Slots
    <2> QED
        BY <2>1, <2>2, <2>3, <2>4 DEF CurrentIsTheRunningTask, ValidTask
<1>4. Rotation'
    BY DEF Rotation, Dispatch, AwakeState, BypassReset, TypeOK
<1>5. RunningIsFirst'
    <2> SUFFICES ASSUME NEW j \in Slots, state'[j] = "Ready"
                 PROVE  Offset(next, i) < Offset(next, j)
        BY DEF RunningIsFirst, Dispatch
    <2>1. j # i /\ AwakeState(now)[j] = "Ready"
        BY DEF Dispatch, AwakeState
    <2>2. Offset(next, i) <= Offset(next, j)
        BY <2>1 DEF Dispatch, NextReady
    <2>3. next \in Slots /\ Offset(next, i) # Offset(next, j)
        BY <2>1, OffsetInjective DEF TypeOK
    <2>4. Offset(next, i) \in Slots /\ Offset(next, j) \in Slots
        BY <2>3, OffsetInvertsScan
    <2> QED  BY <2>2, <2>3, <2>4 DEF Slots
<1>6. ContextTrail'
    BY DEF ContextTrail, Dispatch, AwakeState, Expired, TypeOK
<1> QED  BY <1>1, <1>2, <1>3, <1>4, <1>5, <1>6

\* When the running slot c returns, the cursor moves just past it: c gets the
\* largest offset, every slot behind a Ready task stays behind it.
LEMMA EntryReturnStep ==
    ASSUME IndInv, NEW action \in TaskActions, NEW deadline \in Ticks,
           EntryReturn(action, deadline)
    PROVE  IndInv'
<1> USE DEF IndInv
<1> DEFINE c == current.index
<1>1. c \in Slots /\ state[c] = "Running"
    <2>1. current # NoTask
        BY DEF CurrentIsTheRunningTask, EntryReturn
    <2> QED  BY <2>1 DEF TypeOK, TaskIds, CurrentIsTheRunningTask, EntryReturn
<1>2. StateAfter(action, deadline) \in {"Ready", "Sleeping", "Blocked", "Finished"}
    BY DEF StateAfter, TaskActions
<1>3. next' = CursorAfter(c) /\ next' \in Slots
    BY <1>1, CursorAfterIs DEF EntryReturn, Slots
<1>4. TypeOK'
    <2>1. state' \in [Slots -> TaskStates \cup {"None"}]
        BY <1>2 DEF TypeOK, EntryReturn, TaskStates
    <2>2. until' \in [Slots -> Ticks]
        <3> DEFINE u == IF StateAfter(action, deadline) = "Sleeping"
                        THEN deadline ELSE 0
        <3>1. u \in Ticks
            BY DEF Ticks
        <3>2. until' = [until EXCEPT ![c] = u]
            BY DEF EntryReturn
        <3> HIDE DEF u
        <3> QED  BY <3>1, <3>2 DEF TypeOK
    <2>3. bypass' \in [Slots -> [Slots -> Nat]]
        <3> SUFFICES ASSUME NEW j \in Slots PROVE bypass'[j] \in [Slots -> Nat]
            BY DEF EntryReturn
        <3>1. bypass[j] \in [Slots -> Nat] /\ bypass[j][c] \in Nat
            BY <1>1 DEF TypeOK
        <3>2. bypass'[j] = IF j = c THEN [k \in Slots |-> 0]
                           ELSE IF state[j] = "Ready"
                           THEN [bypass[j] EXCEPT ![c] = bypass[j][c] + 1]
                           ELSE bypass[j]
            BY DEF EntryReturn
        <3>3. [bypass[j] EXCEPT ![c] = bypass[j][c] + 1] \in [Slots -> Nat]
            BY <3>1, <1>1, IncrementRow
        <3> QED  BY <3>1, <3>2, <3>3
    <2>4. /\ current' = NoTask /\ phase' = "loop" /\ dispatched' \in Nat
          /\ UNCHANGED <<generations, framed, now, budget, clock, issued, ran>>
        BY DEF EntryReturn, TypeOK
    <2> QED  BY <2>1, <2>2, <2>3, <2>4, <1>3 DEF TypeOK
<1>5. NowIsPast' /\ GenerationTrail'
    BY DEF NowIsPast, GenerationTrail, EntryReturn
<1>6. CurrentIsTheRunningTask'
    BY <1>1, <1>2 DEF CurrentIsTheRunningTask, EntryReturn, TypeOK
<1>7. Rotation'
    <2> SUFFICES ASSUME NEW i \in Slots, state'[i] = "Ready", NEW j \in Slots
                 PROVE  /\ bypass'[i][j] <= 1
                        /\ bypass'[i][j] = 1 => Offset(next', i) < Offset(next', j)
        BY DEF Rotation
    <2>1. CASE i = c
        BY <2>1, <1>1 DEF EntryReturn, TypeOK
    <2>2. CASE i # c
        <3>1. state[i] = "Ready" /\ Offset(next, c) < Offset(next, i)
            BY <2>2, <1>1 DEF EntryReturn, TypeOK, RunningIsFirst
        <3>2. /\ bypass'[i][j] = IF j = c THEN bypass[i][c] + 1 ELSE bypass[i][j]
              /\ bypass[i][j] \in Nat /\ bypass[i][c] \in Nat
            BY <2>2, <3>1, <1>1 DEF EntryReturn, TypeOK
        <3>3. /\ bypass[i][c] <= 1 /\ bypass[i][j] <= 1
              /\ bypass[i][c] = 1 => Offset(next, i) < Offset(next, c)
              /\ bypass[i][j] = 1 => Offset(next, i) < Offset(next, j)
            BY <3>1, <1>1 DEF Rotation
        <3>4. bypass[i][c] = 0
            <4>1. next \in Slots
                BY DEF TypeOK
            <4>2. Offset(next, i) \in Slots /\ Offset(next, c) \in Slots
                BY <4>1, <1>1, OffsetInvertsScan
            <4> QED  BY <4>2, <3>1, <3>2, <3>3 DEF Slots
        <3>5. /\ Offset(next', i) < Offset(next', c)
              /\ j # c /\ Offset(next, i) < Offset(next, j)
                     => Offset(next', i) < Offset(next', j)
            <4>1. next \in Slots
                BY DEF TypeOK
            <4> QED  BY <4>1, <2>2, <3>1, <1>1, <1>3, OffsetShift
        <3>6. CASE j = c
            BY <3>6, <3>5, <3>2, <3>4
        <3>7. CASE j # c
            BY <3>7, <3>5, <3>2, <3>3
        <3> QED  BY <3>6, <3>7
    <2> QED  BY <2>1, <2>2
<1>8. RunningIsFirst'
    BY DEF RunningIsFirst, EntryReturn
<1>9. ContextTrail'
    BY <1>1, <1>2 DEF ContextTrail, EntryReturn, TypeOK
<1> QED  BY <1>4, <1>5, <1>6, <1>7, <1>8, <1>9

\* Taking and releasing the lock, and the timer, leave the slots alone.
LEMMA CallStep ==
    ASSUME IndInv,
           \/ \E b \in Budgets : RunReady(b)
           \/ ReturnIdle \/ ReturnSpent \/ Tick
           \/ UNCHANGED vars
    PROVE  IndInv'
<1> USE DEF IndInv
<1>1. /\ UNCHANGED <<sched, issued, bypass, ran>>
      /\ phase' = "entry" <=> phase = "entry"
      /\ phase' \in {"idle", "loop", "entry"}
      /\ clock' \in Ticks /\ now' \in Ticks /\ now' <= clock'
      /\ budget' \in Nat /\ dispatched' \in Nat
    <2>1. ASSUME NEW b \in Budgets, RunReady(b) PROVE <1>1!:
        BY <2>1 DEF RunReady, TypeOK, Ticks
    <2>2. CASE ReturnIdle \/ ReturnSpent
        BY <2>2 DEF ReturnIdle, ReturnSpent, TypeOK, NowIsPast
    <2>3. CASE Tick
        BY <2>3 DEF Tick, call, TypeOK, NowIsPast, Ticks
    <2>4. CASE UNCHANGED vars
        BY <2>4 DEF vars, call, TypeOK, NowIsPast
    <2> QED  BY <2>1, <2>2, <2>3, <2>4
<1>2. TypeOK'
    BY <1>1 DEF TypeOK, sched
<1>3. NowIsPast' /\ Rotation' /\ GenerationTrail' /\ ContextTrail'
    BY <1>1 DEF NowIsPast, Rotation, GenerationTrail, ContextTrail, sched
<1>4. CurrentIsTheRunningTask' /\ RunningIsFirst'
    BY <1>1 DEF CurrentIsTheRunningTask, RunningIsFirst, ValidTask, sched
<1> QED  BY <1>2, <1>3, <1>4

\* The handles a client holds are TaskIds.
LEMMA HandlesAreTaskIds == TypeOK => Handles \subseteq TaskIds
<1> SUFFICES ASSUME TypeOK, NEW i \in Slots, NEW n \in DOMAIN issued[i]
             PROVE  [index |-> i, generation |-> issued[i][n]] \in TaskIds
    BY DEF Handles
<1>1. issued[i][n] \in 1 .. GEN_MAX
    BY DEF TypeOK
<1> QED  BY <1>1 DEF TaskIds

\* Every operation preserves the inductive invariant: one case per action.
LEMMA NextPreservesIndInv == IndInv /\ [Next]_vars => IndInv'
<1> SUFFICES ASSUME IndInv, [Next]_vars PROVE IndInv'
    OBVIOUS
<1>1. ASSUME NEW i \in Slots, Spawn(i) PROVE IndInv'
    BY <1>1, SpawnStep
<1>2. ASSUME NEW id \in Handles, Wake(id) \/ Cancel(id) \/ Reap(id) PROVE IndInv'
    BY <1>2, HandleStep, HandlesAreTaskIds DEF IndInv
<1>3. CASE WakeExpired
    BY <1>3, WakeExpiredStep
<1>4. ASSUME NEW i \in Slots, Dispatch(i) PROVE IndInv'
    BY <1>4, DispatchStep
<1>5. ASSUME NEW action \in TaskActions, NEW deadline \in Ticks,
             EntryReturn(action, deadline)
      PROVE  IndInv'
    BY <1>5, EntryReturnStep
<1>6. CASE \/ \E b \in Budgets : RunReady(b)
           \/ ReturnIdle \/ ReturnSpent \/ Tick \/ UNCHANGED vars
    BY <1>6, CallStep
<1> QED  BY <1>1, <1>2, <1>3, <1>4, <1>5, <1>6 DEF Next

\* The inductive invariant holds in every reachable state.
THEOREM IndInvHolds == Spec => []IndInv
<1> QED  BY InitEstablishesIndInv, NextPreservesIndInv, PTL DEF Spec

\* Scheduler's fields keep their types; next always indexes the slot array.
THEOREM TypeCorrectness == Spec => []TypeOK
<1>1. IndInv => TypeOK
    BY DEF IndInv
<1> QED  BY <1>1, IndInvHolds, PTL

\* At most one task is Running, it is current, and only during its entry().
THEOREM CurrentCorrectness == Spec => []CurrentIsTheRunningTask
<1>1. IndInv => CurrentIsTheRunningTask
    BY DEF IndInv
<1> QED  BY <1>1, IndInvHolds, PTL

\* A reaped task's id stays invalid until GEN_MAX later spawns in its slot.
THEOREM StaleIdRejection == Spec => []StaleIdsAreInvalid
<1>1. IndInv => StaleIdsAreInvalid
    <2> SUFFICES ASSUME IndInv, NEW i \in Slots, NEW n \in DOMAIN issued[i],
                        n < Len(issued[i]), Len(issued[i]) - n < GEN_MAX
                 PROVE  generations[i] # issued[i][n]
        BY DEF StaleIdsAreInvalid, ValidTask
    <2>1. /\ issued[i][n] \in 1 .. GEN_MAX
          /\ Len(issued[i]) \in Nat /\ n \in 1 .. Len(issued[i])
        BY SMTT(30) DEF IndInv, TypeOK
    <2>2. generations[i] = Later(issued[i][n], Len(issued[i]) - n)
        BY DEF IndInv, GenerationTrail
    <2> QED  BY <2>1, <2>2 DEF Later
<1> QED  BY <1>1, IndInvHolds, PTL

\* While a task is Ready no other slot is dispatched twice.
THEOREM RoundRobin == Spec => []BoundedBypass
<1>1. IndInv => BoundedBypass
    BY DEF IndInv, Rotation, BoundedBypass
<1> QED  BY <1>1, IndInvHolds, PTL

\* A task that has not run yet has the all-zero context.
THEOREM ContextFreshness == Spec => []FreshTaskHasFreshContext
<1>1. IndInv => FreshTaskHasFreshContext
    BY DEF IndInv, ContextTrail, FreshTaskHasFreshContext
<1> QED  BY <1>1, IndInvHolds, PTL

\* No step resumes a sleeper before its deadline.
THEOREM SleepRespected == Spec => SleepIsNotCutShort
<1> DEFINE Step == \A i \in Slots :
              state[i] = "Sleeping" /\ state'[i] \in {"Ready", "Running"}
                  => clock >= until[i]
<1>1. IndInv /\ [Next]_vars => [Step]_vars
    <2> SUFFICES ASSUME IndInv, Next, NEW i \in Slots, state[i] = "Sleeping",
                        state'[i] \in {"Ready", "Running"}
                 PROVE  clock >= until[i]
        OBVIOUS
    <2> USE DEF IndInv, TypeOK
    <2>1. ASSUME NEW k \in Slots, Spawn(k) PROVE FALSE
        BY <2>1 DEF Spawn
    <2>2. ASSUME NEW id \in Handles, Wake(id) \/ Cancel(id) \/ Reap(id) PROVE FALSE
        <3>1. id.index \in Slots
            BY <2>2, HandlesAreTaskIds DEF TaskIds
        <3> QED  BY <2>2, <3>1 DEF Wake, Cancel, Reap
    <2>3. CASE WakeExpired
        BY <2>3 DEF WakeExpired, AwakeState, Expired
    <2>4. ASSUME NEW k \in Slots, Dispatch(k) PROVE clock >= until[i]
        <3>1. Expired(i, now)
            BY <2>4 DEF Dispatch, NextReady, AwakeState
        <3> QED  BY <3>1 DEF Expired, NowIsPast, Ticks
    <2>5. ASSUME NEW action \in TaskActions, NEW deadline \in Ticks,
                 EntryReturn(action, deadline)
          PROVE  FALSE
        BY <2>5 DEF EntryReturn, CurrentIsTheRunningTask
    <2>6. CASE \/ \E b \in Budgets : RunReady(b)
               \/ ReturnIdle \/ ReturnSpent \/ Tick
        BY <2>6 DEF RunReady, ReturnIdle, ReturnSpent, Tick, sched
    <2> QED  BY <2>1, <2>2, <2>3, <2>4, <2>5, <2>6 DEF Next
<1> QED  BY <1>1, IndInvHolds, PTL DEF Spec, SleepIsNotCutShort

==============================================================================
