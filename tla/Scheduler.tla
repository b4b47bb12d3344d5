------------------------------ MODULE Scheduler ------------------------------
(***************************************************************************)
(* The cooperative task scheduler of task/mod.rs: MAX_TASKS slots, a       *)
(* generation per slot, and a round-robin cursor.                          *)
(*                                                                         *)
(* Every operation of the code runs under the SCHEDULER mutex, so spawn,   *)
(* wake, cancel, reap and wake_expired are single steps, taken only while  *)
(* no run_ready call holds the lock (phase = "idle").  A run_ready call    *)
(* holds the lock across task bodies: it is split at each entry() call so  *)
(* that the timer interrupt, which takes no lock, can tick in between.     *)
(*                                                                         *)
(* issued, bypass and ran are history variables: the code keeps none.      *)
(***************************************************************************)
EXTENDS Integers, Sequences
LOCAL INSTANCE FiniteSetsExt

CONSTANTS
    MAX_TASKS,   \* number of task slots
    GEN_MAX,     \* largest generation: u32::MAX in the code
    Budgets,     \* budgets passed to run_ready
    MaxTick,     \* bound: the timer stops ticking there
    MaxSpawns    \* bound: tasks spawned in all

ASSUME MaxTasksAssumption == MAX_TASKS \in Nat \ {0}
ASSUME GenMaxAssumption == GEN_MAX \in Nat \ {0}
ASSUME BudgetsAssumption == Budgets \subseteq Nat
ASSUME MaxTickAssumption == MaxTick \in Nat
ASSUME MaxSpawnsAssumption == MaxSpawns \in Nat

VARIABLES
    state,       \* tasks[i]: "None", or the TaskState of the task in slot i
    until,       \* the deadline inside Sleeping { until }, 0 otherwise
    generations, \* generations[i]
    framed,      \* contexts[i].stack_pointer has been written
    current,     \* current: a TaskId, or NoTask
    next,        \* next: where find_next_ready starts
    phase,       \* where the run_ready call is: "idle", "loop" or "entry"
    now,         \* run_ready's argument now
    budget,      \* run_ready's argument budget
    dispatched,  \* run_ready's local dispatched
    clock,       \* timer::ticks()
    issued,      \* history: the generations handed out for slot i, in order
    bypass,      \* history: times j ran while i has been Ready
    ran          \* history: the task in slot i has been dispatched

sched == <<state, until, generations, framed, current, next>>
call  == <<phase, now, budget, dispatched>>
vars  == <<sched, call, clock, issued, bypass, ran>>

Slots == 0 .. MAX_TASKS - 1
Ticks == 0 .. MaxTick
TaskIds == [index : Slots, generation : 0 .. GEN_MAX]
NoTask == [index |-> MAX_TASKS, generation |-> 0]
TaskStates ==
    {"Ready", "Running", "Sleeping", "Blocked", "Finished", "Cancelled"}
TaskActions == {"Yield", "SleepUntil", "Block", "Exit"}
Terminal == {"Finished", "Cancelled"}

------------------------------------------------------------------------------
(* Lookups.                                                                *)

\* mutant: a generation that saturates instead of wrapping
SaturatingGeneration(g) == IF g = GEN_MAX THEN g ELSE g + 1

\* wrapping_add(1).max(1) on a generation of GEN_MAX + 1 values
NextGeneration(g) ==
    LET wrapped == (g + 1) % (GEN_MAX + 1)
    IN  IF wrapped < 1 THEN 1 ELSE wrapped

\* valid_task(id): the generation matches and the slot is occupied, the two
\* conditions wake, cancel and reap require of a handle
ValidTask(id) ==
    /\ generations[id.index] = id.generation
    /\ state[id.index] # "None"

\* the offset at which the scan (next + offset) % MAX_TASKS reaches slot i
Offset(start, i) == IF i >= start THEN i - start ELSE i - start + MAX_TASKS

\* mutant: the scan ignores the cursor
NextReadyFromZero(st, start, i) ==
    st[i] = "Ready" /\ \A j \in Slots : st[j] = "Ready" => i <= j

\* mutant: the scan stops one slot short of a full round
NextReadyShortScan(st, start, i) ==
    /\ st[i] = "Ready" /\ Offset(start, i) < MAX_TASKS - 1
    /\ \A j \in Slots : st[j] = "Ready" => Offset(start, i) <= Offset(start, j)

\* find_next_ready: the first Ready slot of a scan that begins at start
NextReady(st, start, i) ==
    /\ st[i] = "Ready"
    /\ \A j \in Slots : st[j] = "Ready" => Offset(start, i) <= Offset(start, j)

\* mutant: a sleeper resumed one tick before its deadline
ExpiredEarly(i, t) == state[i] = "Sleeping" /\ t + 1 >= until[i]

\* mutant: a sleeper resumed only after its deadline has passed
ExpiredLate(i, t) == state[i] = "Sleeping" /\ t > until[i]

\* a sleeper whose deadline has been reached at tick t
Expired(i, t) == state[i] = "Sleeping" /\ t >= until[i]

\* the states and deadlines after wake_expired(t)
AwakeState(t) == [i \in Slots |-> IF Expired(i, t) THEN "Ready" ELSE state[i]]
AwakeUntil(t) == [i \in Slots |-> IF Expired(i, t) THEN 0 ELSE until[i]]

\* mutant: a deadline already reached leaves the task as it was
StateAfterDueSleep(action, deadline) ==
    CASE action = "Yield" -> "Ready"
      [] action = "SleepUntil" -> IF deadline <= now THEN "Running" ELSE "Sleeping"
      [] action = "Block" -> "Blocked"
      [] action = "Exit" -> "Finished"

\* the state run_next stores for the action a task body returned
StateAfter(action, deadline) ==
    CASE action = "Yield" -> "Ready"
      [] action = "SleepUntil" -> IF deadline <= now THEN "Ready" ELSE "Sleeping"
      [] action = "Block" -> "Blocked"
      [] action = "Exit" -> "Finished"

\* mutant: a cursor that runs off the end of the slot array
CursorPast(i) == i + 1

\* the cursor after slot i has run
CursorAfter(i) == (i + 1) % MAX_TASKS

------------------------------------------------------------------------------
(* Operations.                                                             *)

Init ==
    /\ state = [i \in Slots |-> "None"]
    /\ until = [i \in Slots |-> 0]
    /\ generations = [i \in Slots |-> 0]
    /\ framed = [i \in Slots |-> FALSE]
    /\ current = NoTask
    /\ next = 0
    /\ phase = "idle" /\ now = 0 /\ budget = 0 /\ dispatched = 0
    /\ clock = 0
    /\ issued = [i \in Slots |-> <<>>]
    /\ bypass = [i \in Slots |-> [j \in Slots |-> 0]]
    /\ ran = [i \in Slots |-> FALSE]

\* history: the slots in S have just become Ready, nobody has passed them yet
BypassReset(S) ==
    [i \in Slots |-> IF i \in S THEN [j \in Slots |-> 0] ELSE bypass[i]]

\* how many tasks have been spawned
Spawned == MapThenSumSet(LAMBDA i : Len(issued[i]), Slots)

\* spawn with a free slot: the first one is used.  With none free the code
\* returns NoTaskSlots and changes nothing, so that case takes no step.
Spawn(i) ==
    /\ phase = "idle"
    /\ Spawned < MaxSpawns
    /\ state[i] = "None"
    /\ \A j \in Slots : j < i => state[j] # "None"
    /\ state' = [state EXCEPT ![i] = "Ready"]
    /\ generations' = [generations EXCEPT ![i] = NextGeneration(generations[i])]
    /\ issued' = [issued EXCEPT ![i] = Append(issued[i], generations'[i])]
    /\ bypass' = BypassReset({i})
    /\ ran' = [ran EXCEPT ![i] = FALSE]
    /\ UNCHANGED <<until, framed, current, next, call, clock>>

\* The handle operations.  A handle that is not valid, or whose task is in
\* another state, gets an error or an Ok that changes nothing: no step.
Wake(id) ==
    /\ phase = "idle"
    /\ ValidTask(id)
    /\ state[id.index] = "Blocked"
    /\ state' = [state EXCEPT ![id.index] = "Ready"]
    /\ bypass' = BypassReset({id.index})
    /\ UNCHANGED <<until, generations, framed, current, next, call, clock,
                   issued, ran>>

Cancel(id) ==
    /\ phase = "idle"
    /\ ValidTask(id)
    /\ state[id.index] \notin Terminal
    /\ state' = [state EXCEPT ![id.index] = "Cancelled"]
    /\ until' = [until EXCEPT ![id.index] = 0]
    /\ UNCHANGED <<generations, framed, current, next, call, clock, issued,
                   bypass, ran>>

Reap(id) ==
    /\ phase = "idle"
    /\ ValidTask(id)
    /\ state[id.index] \in Terminal
    /\ state' = [state EXCEPT ![id.index] = "None"]
    /\ framed' = [framed EXCEPT ![id.index] = FALSE]
    /\ UNCHANGED <<until, generations, current, next, call, clock, issued,
                   bypass, ran>>

\* wake_expired called on its own, with the tick count just read
WakeExpired ==
    /\ phase = "idle"
    /\ \E i \in Slots : Expired(i, clock)
    /\ state' = AwakeState(clock)
    /\ until' = AwakeUntil(clock)
    /\ bypass' = BypassReset({i \in Slots : Expired(i, clock)})
    /\ UNCHANGED <<generations, framed, current, next, call, clock, issued, ran>>

\* run_ready(ticks(), b) takes the lock; run_next(ticks()) is the budget 1
RunReady(b) ==
    /\ phase = "idle"
    /\ phase' = "loop"
    /\ now' = clock
    /\ budget' = b
    /\ dispatched' = 0
    /\ UNCHANGED <<sched, clock, issued, bypass, ran>>

\* run_next up to the call of entry(): wake_expired, the scan, the stack
\* frame, current, Running
Dispatch(i) ==
    /\ phase = "loop"
    /\ dispatched < budget
    /\ NextReady(AwakeState(now), next, i)
    /\ phase' = "entry"
    /\ state' = [AwakeState(now) EXCEPT ![i] = "Running"]
    /\ until' = AwakeUntil(now)
    /\ framed' = [framed EXCEPT ![i] = TRUE]
    /\ current' = [index |-> i, generation |-> generations[i]]
    /\ bypass' = BypassReset({j \in Slots : Expired(j, now)})
    /\ ran' = [ran EXCEPT ![i] = TRUE]
    /\ UNCHANGED <<generations, next, now, budget, dispatched, clock, issued>>

\* entry() returns its action: the rest of run_next and dispatched += 1.
\* A task that stays Ready joins the others with nobody ahead of it counted.
EntryReturn(action, deadline) ==
    LET i == current.index
        after == StateAfter(action, deadline)
    IN  /\ phase = "entry"
        /\ phase' = "loop"
        /\ state' = [state EXCEPT ![i] = after]
        /\ until' = [until EXCEPT ![i] = IF after = "Sleeping" THEN deadline ELSE 0]
        /\ current' = NoTask
        /\ next' = CursorAfter(i)
        /\ dispatched' = dispatched + 1
        /\ bypass' = [j \in Slots |->
                        IF j = i THEN [k \in Slots |-> 0]
                        ELSE IF state[j] = "Ready"
                        THEN [bypass[j] EXCEPT ![i] = bypass[j][i] + 1]
                        ELSE bypass[j]]
        /\ UNCHANGED <<generations, framed, now, budget, clock, issued, ran>>

\* run_ready returns because run_next found nothing Ready (wake_expired has
\* run) ...
ReturnIdle ==
    /\ phase = "loop"
    /\ dispatched < budget
    /\ \A i \in Slots : ~ NextReady(AwakeState(now), next, i)
    /\ phase' = "idle"
    /\ UNCHANGED <<sched, now, budget, dispatched, clock, issued, bypass, ran>>

\* ... or because the budget is spent
ReturnSpent ==
    /\ phase = "loop"
    /\ dispatched >= budget
    /\ phase' = "idle"
    /\ UNCHANGED <<sched, now, budget, dispatched, clock, issued, bypass, ran>>

\* the timer interrupt: it takes no lock and may arrive at any point
Tick ==
    /\ clock < MaxTick
    /\ clock' = clock + 1
    /\ UNCHANGED <<sched, call, issued, bypass, ran>>

\* the handles a client can hold: every id spawn ever returned
Handles ==
    UNION {{[index |-> i, generation |-> issued[i][n]] : n \in DOMAIN issued[i]}
           : i \in Slots}

Next ==
    \/ \E i \in Slots : Spawn(i)
    \/ \E id \in Handles : Wake(id)
    \/ \E id \in Handles : Cancel(id)
    \/ \E id \in Handles : Reap(id)
    \/ WakeExpired
    \/ \E b \in Budgets : RunReady(b)
    \/ \E i \in Slots : Dispatch(i)
    \/ \E action \in TaskActions, deadline \in Ticks : EntryReturn(action, deadline)
    \/ ReturnIdle
    \/ ReturnSpent
    \/ Tick

Spec == Init /\ [][Next]_vars

\* What the shell's loop and the hardware guarantee: run_ready is called again
\* and again, task bodies return, and the timer interrupt keeps arriving.
Fairness ==
    /\ WF_vars(\E b \in Budgets : RunReady(b))
    /\ WF_vars(\E i \in Slots : Dispatch(i))
    /\ WF_vars(\E action \in TaskActions, deadline \in Ticks :
                   EntryReturn(action, deadline))
    /\ WF_vars(ReturnIdle \/ ReturnSpent)
    /\ WF_vars(Tick)

LiveSpec == Spec /\ Fairness

------------------------------------------------------------------------------
(* Properties.                                                             *)

\* Type correctness: the fields of Scheduler and the locals of run_ready keep
\* their types; in particular next always indexes the slot array.
TypeOK ==
    /\ state \in [Slots -> TaskStates \cup {"None"}]
    /\ until \in [Slots -> Ticks]
    /\ generations \in [Slots -> 0 .. GEN_MAX]
    /\ framed \in [Slots -> BOOLEAN]
    /\ current \in TaskIds \cup {NoTask}
    /\ next \in Slots
    /\ phase \in {"idle", "loop", "entry"}
    /\ now \in Ticks
    /\ budget \in Nat
    /\ dispatched \in Nat
    /\ clock \in Ticks
    /\ issued \in [Slots -> Seq(1 .. GEN_MAX)]
    /\ bypass \in [Slots -> [Slots -> Nat]]
    /\ ran \in [Slots -> BOOLEAN]

\* While a task body runs, current is the id of the one Running task; once
\* run_next is past it no task is Running and current is None.  So the two
\* ok_or(InvalidTask) exits of run_next cannot be taken, and no task is left
\* Running for ever when the lock is released.
CurrentIsTheRunningTask ==
    /\ phase = "entry" => current # NoTask /\ ValidTask(current)
    /\ phase # "entry" => current = NoTask
    /\ \A i \in Slots :
           state[i] = "Running" <=> phase = "entry" /\ current.index = i

\* A TaskId that spawn returned for an earlier task of a slot is rejected by
\* wake, cancel, reap and state as long as fewer than GEN_MAX (2^32 - 1) tasks
\* have been spawned in the slot since: reap and slot reuse never give an old
\* handle power over the new task.
StaleIdsAreInvalid ==
    \A i \in Slots : \A n \in DOMAIN issued[i] :
        /\ n < Len(issued[i])
        /\ Len(issued[i]) - n < GEN_MAX
        => ~ ValidTask([index |-> i, generation |-> issued[i][n]])

\* Round robin: while a task stays Ready no other slot runs twice, whatever is
\* spawned, woken, cancelled or reaped meanwhile and wherever run_ready's
\* budget cuts the round.
BoundedBypass ==
    \A i \in Slots : state[i] = "Ready" =>
        \A j \in Slots : bypass[i][j] <= 1

\* context(id) of a task that has not run yet is the all-zero context, even in
\* a slot whose earlier task ran, ended and was reaped.
FreshTaskHasFreshContext ==
    \A i \in Slots : state[i] # "None" /\ ~ ran[i] => ~ framed[i]

\* SleepUntil(d) means no run before tick d: a step that takes a task out of
\* Sleeping is a cancellation or happens at tick d or later, although now was
\* read before the lock was taken.
SleepIsNotCutShort ==
    [][\A i \in Slots :
          state[i] = "Sleeping" /\ state'[i] \in {"Ready", "Running"}
              => clock >= until[i]]_vars

\* Nobody starves: a Ready task is eventually dispatched (or cancelled).  Needs a
\* loop that comes back to run_ready, which the timer sees to in the default
\* build with the mouse; without it the halted loop resumes on keys only.
ReadyIsServed ==
    \A i \in Slots : state[i] = "Ready" ~> state[i] # "Ready"

\* A sleeping task is eventually resumed (or cancelled).  Needs ticks, so the
\* default build with the mouse: only enable_mouse unmasks the timer.
SleepersWake ==
    \A i \in Slots : state[i] = "Sleeping" ~> state[i] # "Sleeping"

==============================================================================
