------------------------------ MODULE RtTime -------------------------------
(***************************************************************************)
(* The scheduler of one CPU: the ready list, the timed list, the one shot  *)
(* timer and the services that suspend, delay and resume tasks             *)
(* (include/rtai_schedcore.h, src/sched/sched.c, src/sched/api.c).  The    *)
(* timer is only armed for a task that is at least as urgent as the        *)
(* running one; the others are woken when the scheduler next runs.  Linux  *)
(* runs when no task is ready.  The tuning constants (half tick, latency,  *)
(* set up time) are 0.                                                     *)
(***************************************************************************)
EXTENDS Integers, Sequences, FiniteSets, TaskQueue

CONSTANTS
    Task,
    BasePrio,   \* the priorities at rt_task_init
    Use,        \* the services that are used
    Periods,    \* the periods and delays they are called with
    Span,       \* oneshot_span: the longest delay of the timer
    MaxTime,    \* bound on the clock
    MaxDepth    \* bound on suspdepth and on the nesting of rt_sched_lock

Services == {"suspend", "suspend_if", "suspend_until", "resume", "periodic", "wait_period",
             "sleep", "yield", "unblock", "lock",
             "suspend_delayed", "until_other", "prio", "set_resume", "periodic_delayed"}

TimeAssumption ==
    /\ BasePrio \in [Task -> 1..Cardinality(Task)]
    /\ Use \subseteq Services
    /\ Periods \subseteq Nat \ {0}
    /\ Span \in Nat \ {0} /\ MaxTime \in Nat /\ MaxDepth \in Nat
    /\ "linux" \notin Task

VARIABLES
    now,            \* the clock, rtai_rdtsc
    time_h,         \* rt_time_h: the clock when the scheduler last ran
    ready, timed,   \* the two lists
    current,        \* rt_smp_current
    state,          \* the bits of task->state besides RT_SCHED_READY
    suspdepth,
    prio,           \* task->priority
    resume_time, period, next_period, \* next_period: periodic_resume_time
    intr_time,      \* when the timer interrupts
    shot,           \* timer_shot_fired
    locked, rqsted  \* rt_scheduling[cpuid]

lists == <<time_h, ready, timed, current, state, suspdepth, intr_time, shot, rqsted>>
times == <<resume_time, period, next_period>>
vars == <<now, lists, prio, times, locked>>

LIMIT == 2 * MaxTime + Span + 1   \* RTAI_TIME_LIMIT: later than all times

Time == 0..LIMIT

TimeTypeOK ==
    /\ now \in 0..MaxTime /\ time_h \in 0..now
    /\ ready \in Seq(Task) /\ timed \in Seq(Task)
    /\ current \in Task \cup {"linux"}
    /\ state \in [Task -> SUBSET {"SUSPENDED", "DELAYED"}]
    /\ suspdepth \in [Task -> (-MaxDepth)..(MaxDepth + 1)]
    /\ prio \in [Task -> 1..Cardinality(Task)]
    /\ resume_time \in [Task -> Time] /\ next_period \in [Task -> Time]
    /\ period \in [Task -> Periods \cup {0}]
    /\ intr_time \in Time /\ shot \in BOOLEAN
    /\ locked \in 0..MaxDepth /\ rqsted \in BOOLEAN

(* rt_task_init: a task starts suspended.  rt_start_timers has fired.      *)
Init ==
    /\ now = 0 /\ time_h = 0
    /\ ready = <<>> /\ timed = <<>> /\ current = "linux"
    /\ state = [t \in Task |-> {"SUSPENDED"}] /\ suspdepth = [t \in Task |-> 1]
    /\ prio = BasePrio
    /\ resume_time = [t \in Task |-> LIMIT] /\ next_period = [t \in Task |-> LIMIT]
    /\ period = [t \in Task |-> 0]
    /\ intr_time = Span /\ shot = TRUE
    /\ locked = 0 /\ rqsted = FALSE

----------------------------------------------------------------------------
\* The lists

Elems(s) == {s[i] : i \in 1..Len(s)}
Listed(s, t) == t \in Elems(s)
Without(s, t) == SelectSeq(s, LAMBDA u : u # t)

(* enq_ready_task: behind the tasks of the same priority.                  *)
EnqReady(rd, t, pr) == InsertAt(rd, InsertPos(rd, pr, pr[t]), t)

(* Faulty variant: behind the tasks that resume later.                     *)
EnqTimedLast(td, t, rs) == Append(td, t)

(* enq_timed_task: before the tasks that do not resume earlier.            *)
EnqTimed(td, t, rs) ==
    InsertAt(td, 1 + Cardinality({i \in 1..Len(td) : \A j \in 1..i : rs[td[j]] < rs[t]}), t)

(* What wake_up_timed_tasks takes off the list: a prefix of it.            *)
Expired(td, rs) == {i \in 1..Len(td) : \A j \in 1..i : rs[td[j]] <= now}

PrioOf(t, pr) == IF t = "linux" THEN Cardinality(Task) + 1 ELSE pr[t]

(* Faulty variant: only the first timed task is looked at.                 *)
NextShotFirst(td, rs, pr, new, intr) ==
    IF td # <<>> /\ rs[Head(td)] < intr /\ pr[Head(td)] <= PrioOf(new, pr)
    THEN rs[Head(td)] ELSE intr

(* SET_NEXT_TIMER_SHOT: the first timed task that is not less urgent.      *)
NextShot(td, rs, pr, new, intr) ==
    LET C == {i \in 1..Len(td) : /\ pr[td[i]] <= PrioOf(new, pr)
                                 /\ \A j \in 1..i : rs[td[j]] < intr}
    IN  IF C = {} THEN intr ELSE rs[td[CHOOSE i \in C : \A j \in C : i <= j]]

(* rt_schedule, from the lists as a service has left them: the expired     *)
(* tasks become ready, the timer is armed, the first ready task runs; with *)
(* the scheduler locked the switch is put off.                             *)
Schedule(rd, td, st, sd, pr, rs, intr, fired, lk) ==
    LET n == Cardinality(Expired(td, rs))
        W == SubSeq(td, 1, n)
        woken == Elems(W)
        left == SubSeq(td, n + 1, Len(td))
        run == FoldLeft(LAMBDA r, t : EnqReady(r, t, pr), rd, W)
        new == IF run = <<>> THEN "linux" ELSE Head(run)
        next == NextShot(left, rs, pr, new, intr)
        fire == next # intr \/ (new = "linux" /\ ~fired)
    IN
    /\ time_h' = now
    /\ ready' = run /\ timed' = left
    /\ state' = [t \in Task |-> IF t \in woken THEN {} ELSE st[t]]
    /\ suspdepth' = [t \in Task |->
            IF t \in woken /\ "SUSPENDED" \in st[t] /\ sd[t] > 0 THEN 0 ELSE sd[t]]
    /\ intr_time' = IF fire /\ ~fired /\ next - now > Span THEN now + Span ELSE next
    /\ shot' = (fired \/ fire)
    /\ IF lk > 0 /\ new # current
       THEN rqsted' = TRUE /\ UNCHANGED current
       ELSE current' = new /\ UNCHANGED rqsted

(* A service that does not call the scheduler.                             *)
NoSchedule(rd, td, st, sd) ==
    /\ ready' = rd /\ timed' = td /\ state' = st /\ suspdepth' = sd
    /\ UNCHANGED <<time_h, current, intr_time, shot, rqsted>>

----------------------------------------------------------------------------
\* Services.  A task that holds the scheduler calls none that blocks.

Self(t, s) == s \in Use /\ current = t /\ state[t] = {} /\ locked = 0

(* A task that is marked as delayed and not in the list any more: another  *)
(* removal would write through stale links, and is not followed.           *)
Dangling(t) == "DELAYED" \in state[t] /\ ~Listed(timed, t)

Depth(t, d) == [suspdepth EXCEPT ![t] = d]
Bits(t, b) == [state EXCEPT ![t] = b]

SuspendSelf(t) ==
    /\ Self(t, "suspend")
    /\ \/ /\ suspdepth[t] = 0
          /\ Schedule(Without(ready, t), timed, Bits(t, {"SUSPENDED"}), Depth(t, 1),
                      prio, resume_time, intr_time, shot, locked)
       \/ /\ suspdepth[t] # 0
          /\ NoSchedule(ready, timed, state, Depth(t, suspdepth[t] + 1))
    /\ UNCHANGED <<now, prio, times, locked>>

(* Another task is suspended: taken out of both lists.                     *)
SuspendOther(t) ==
    /\ "suspend" \in Use /\ t # current /\ suspdepth[t] < MaxDepth
    /\ ~Dangling(t)
    /\ "DELAYED" \in state[t] /\ suspdepth[t] = 0 => "suspend_delayed" \in Use
    /\ \/ /\ suspdepth[t] = 0
          /\ NoSchedule(Without(ready, t), Without(timed, t),
                        Bits(t, state[t] \cup {"SUSPENDED"}), Depth(t, 1))
       \/ /\ suspdepth[t] # 0
          /\ NoSchedule(ready, timed, state, Depth(t, suspdepth[t] + 1))
    /\ UNCHANGED <<now, prio, times, locked>>

SuspendIf(t) ==
    /\ "suspend_if" \in Use /\ suspdepth[t] < 0
    /\ NoSchedule(ready, timed, state, Depth(t, suspdepth[t] + 1))
    /\ UNCHANGED <<now, prio, times, locked>>

(* A time that is not later than the last run of the scheduler is refused. *)
SuspendUntil(t, d) ==
    LET rs == [resume_time EXCEPT ![t] = now + d] IN
    /\ Self(t, "suspend_until")
    /\ \/ /\ suspdepth[t] = 0
          /\ resume_time' = rs
          /\ Schedule(Without(ready, t), EnqTimed(timed, t, rs),
                      Bits(t, {"SUSPENDED", "DELAYED"}), Depth(t, 1),
                      prio, rs, intr_time, shot, locked)
       \/ /\ suspdepth[t] # 0
          /\ NoSchedule(ready, timed, state, Depth(t, suspdepth[t] + 1))
          /\ UNCHANGED resume_time
    /\ UNCHANGED <<now, prio, period, next_period, locked>>

(* Another task: it is linked unless it is delayed already, and the timer  *)
(* is left alone.                                                          *)
SuspendUntilOther(t, d) ==
    LET rs == [resume_time EXCEPT ![t] = now + d] IN
    /\ "until_other" \in Use /\ t # current /\ suspdepth[t] = 0 /\ ~Dangling(t)
    /\ resume_time' = rs
    /\ NoSchedule(Without(ready, t),
                  IF "DELAYED" \in state[t] THEN timed ELSE EnqTimed(timed, t, rs),
                  Bits(t, {"SUSPENDED", "DELAYED"}), Depth(t, 1))
    /\ UNCHANGED <<now, prio, period, next_period, locked>>

(* rt_task_resume: the last resume makes the task ready.  A task that is   *)
(* ready has its count made negative.                                      *)
Resume(t) ==
    LET d == suspdepth[t] - 1 IN
    /\ "resume" \in Use /\ suspdepth[t] > -MaxDepth /\ ~Dangling(t)
    /\ \/ /\ d = 0
          /\ Schedule(EnqReady(ready, t, prio), Without(timed, t), Bits(t, {}), Depth(t, 0),
                      prio, resume_time, intr_time, shot, locked)
       \/ /\ d # 0 /\ NoSchedule(ready, timed, state, Depth(t, d))
    /\ UNCHANGED <<now, prio, times, locked>>

(* rt_task_make_periodic: a delayed task keeps its place in the list.  The *)
(* first period starts after one period.                                   *)
MakePeriodic(t, d) ==
    LET rs == [resume_time EXCEPT ![t] = now + d]
        delayed == "DELAYED" \in state[t]
    IN
    /\ "periodic" \in Use /\ ~Dangling(t) /\ (t = current => locked = 0)
    /\ delayed => "periodic_delayed" \in Use
    /\ resume_time' = rs /\ next_period' = [next_period EXCEPT ![t] = now + d]
    /\ period' = [period EXCEPT ![t] = d]
    /\ Schedule(Without(ready, t),
                IF delayed THEN timed ELSE EnqTimed(timed, t, rs),
                IF delayed THEN state ELSE Bits(t, {"DELAYED"}), Depth(t, 0),
                prio, rs, intr_time, shot, locked)
    /\ UNCHANGED <<now, prio, locked>>

(* rt_task_wait_period: an overrun returns at once.                        *)
WaitPeriod(t) ==
    LET next == next_period[t] + period[t]
        rs == [resume_time EXCEPT ![t] = next]
    IN
    /\ Self(t, "wait_period") /\ period[t] > 0 /\ next <= MaxTime + Span
    /\ next_period' = [next_period EXCEPT ![t] = next]
    /\ \/ /\ next > time_h
          /\ resume_time' = rs
          /\ Schedule(Without(ready, t), EnqTimed(timed, t, rs), Bits(t, {"DELAYED"}), suspdepth,
                      prio, rs, intr_time, shot, locked)
       \/ /\ next <= time_h
          /\ UNCHANGED <<lists, resume_time>>
    /\ UNCHANGED <<now, prio, period, locked>>

Sleep(t, d) ==
    LET rs == [resume_time EXCEPT ![t] = now + d] IN
    /\ Self(t, "sleep")
    /\ resume_time' = rs
    /\ Schedule(Without(ready, t), EnqTimed(timed, t, rs), Bits(t, {"DELAYED"}), suspdepth,
                prio, rs, intr_time, shot, locked)
    /\ UNCHANGED <<now, prio, period, next_period, locked>>

(* rt_task_yield: behind the tasks of the same priority.                   *)
Yield(t) ==
    /\ Self(t, "yield")
    /\ Schedule(EnqReady(Without(ready, t), t, prio), timed, state, suspdepth,
                prio, resume_time, intr_time, shot, locked)
    /\ UNCHANGED <<now, prio, times, locked>>

(* rt_task_masked_unblock with all bits.                                   *)
Unblock(t) ==
    /\ "unblock" \in Use /\ state[t] # {} /\ ~Dangling(t)
    /\ Schedule(EnqReady(ready, t, prio), Without(timed, t), Bits(t, {}),
                Depth(t, IF "SUSPENDED" \in state[t] /\ suspdepth[t] > 0 THEN 0 ELSE suspdepth[t]),
                prio, resume_time, intr_time, shot, locked)
    /\ UNCHANGED <<now, prio, times, locked>>

(* rt_change_prio: a ready task moves if its neighbours ask for it, and the*)
(* scheduler runs if the first ready task is another one.  Linux, the least*)
(* urgent one, is the neighbour of the first task: that one always moves,  *)
(* behind the others of its priority.                                      *)
ChangePrio(t, p) ==
    LET pr == [prio EXCEPT ![t] = p]
        i == CHOOSE i \in 1..Len(ready) : ready[i] = t
        moves == \/ PrioOf(IF i = 1 THEN "linux" ELSE ready[i - 1], pr) > p
                 \/ i < Len(ready) /\ pr[ready[i + 1]] < p
        rd == IF moves THEN EnqReady(Without(ready, t), t, pr) ELSE ready
    IN
    /\ "prio" \in Use
    /\ prio' = pr
    /\ IF state[t] = {} /\ Head(rd) # Head(ready)
       THEN Schedule(rd, timed, state, suspdepth, pr, resume_time, intr_time, shot, locked)
       ELSE NoSchedule(IF state[t] = {} THEN rd ELSE ready, timed, state, suspdepth)
    /\ UNCHANGED <<now, times, locked>>

(* rt_set_resume_time: the list is put in order only if the time is later  *)
(* than that of the next task.                                             *)
SetResumeTime(t, d) ==
    LET rs == [resume_time EXCEPT ![t] = now + d]
        i == CHOOSE i \in 1..Len(timed) : timed[i] = t
        later == i < Len(timed) /\ rs[t] > rs[timed[i + 1]]
    IN
    /\ "set_resume" \in Use /\ Listed(timed, t)
    /\ resume_time' = rs
    /\ timed' = IF later THEN EnqTimed(Without(timed, t), t, rs) ELSE timed
    /\ UNCHANGED <<now, time_h, ready, current, state, suspdepth, intr_time, shot, rqsted,
                   prio, period, next_period, locked>>

(* rt_sched_lock and rt_sched_unlock, by the running task.                 *)
SchedLock ==
    /\ "lock" \in Use /\ current # "linux" /\ locked < MaxDepth
    /\ locked' = locked + 1
    /\ rqsted' = IF locked = 0 THEN FALSE ELSE rqsted
    /\ UNCHANGED <<now, time_h, ready, timed, current, state, suspdepth, intr_time, shot,
                   prio, times>>

(* Faulty variant: a put off switch is forgotten.                          *)
SwitchForgotten == FALSE

SwitchPending == rqsted

SchedUnlock ==
    /\ locked > 0
    /\ locked' = locked - 1
    /\ IF locked = 1 /\ SwitchPending
       THEN Schedule(ready, timed, state, suspdepth, prio, resume_time, intr_time, shot, locked - 1)
       ELSE UNCHANGED lists
    /\ UNCHANGED <<now, prio, times>>

----------------------------------------------------------------------------
(* Time passes up to the interrupt of the timer ...                        *)
Tick ==
    /\ now < MaxTime /\ ~(shot /\ intr_time <= now)
    /\ now' = now + 1
    /\ UNCHANGED <<lists, prio, times, locked>>

(* ... which runs rt_timer_handler.                                        *)
TimerHandler ==
    /\ shot /\ intr_time <= now
    /\ Schedule(ready, timed, state, suspdepth, prio, resume_time, LIMIT, FALSE, locked)
    /\ UNCHANGED <<now, prio, times, locked>>

Next ==
    \/ Tick \/ TimerHandler \/ SchedLock \/ SchedUnlock
    \/ \E t \in Task :
        \/ SuspendSelf(t) \/ SuspendOther(t) \/ SuspendIf(t) \/ Resume(t) \/ WaitPeriod(t)
        \/ Yield(t) \/ Unblock(t)
        \/ \E d \in Periods :
            \/ SuspendUntil(t, d) \/ SuspendUntilOther(t, d) \/ Sleep(t, d)
            \/ SetResumeTime(t, d) \/ MakePeriodic(t, d)
        \/ \E p \in 1..Cardinality(Task) : ChangePrio(t, p)

Spec == Init /\ [][Next]_vars

----------------------------------------------------------------------------
\* Properties

(* The first ready task runs, unless it has just locked the scheduler; and *)
(* the ready list holds the tasks that are ready, the most urgent first.   *)
RunsFirst ==
    /\ locked = 0 => current = IF ready = <<>> THEN "linux" ELSE Head(ready)
    /\ Elems(ready) = {t \in Task : state[t] = {}}
    /\ Cardinality(Elems(ready)) = Len(ready)
    /\ \A i, j \in 1..Len(ready) : i < j => prio[ready[i]] <= prio[ready[j]]

(* Nobody who is due and at least as urgent as the running task is left in *)
(* the timed list: the timer was armed for it, or will be when the         *)
(* scheduler is unlocked.                                                  *)
Punctual ==
    locked = 0 => \A t \in Elems(timed) :
        prio[t] <= PrioOf(current, prio) => shot /\ intr_time <= resume_time[t]

(* The timed list holds the delayed tasks, the one that is due first first.*)
TimedInOrder ==
    /\ Elems(timed) = {t \in Task : "DELAYED" \in state[t]}
    /\ Cardinality(Elems(timed)) = Len(timed)
    /\ \A i, j \in 1..Len(timed) : i < j => resume_time[timed[i]] <= resume_time[timed[j]]
=============================================================================
