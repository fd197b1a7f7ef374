-------------------------- MODULE DependencyQueue --------------------------
(***************************************************************************)
(* cron/dependency_queue.py: jobs with the same dependency run one at a    *)
(* time, in the order in which they asked.                                 *)
(*                                                                         *)
(* _state_lock is never held over an await, so each critical section of it *)
(* is part of the step it belongs to.  Users is the set of asyncio tasks   *)
(* that call acquire; several of them may carry the id of one job.         *)
(***************************************************************************)
EXTENDS Integers, Sequences

CONSTANTS
    Users,   \* asyncio tasks that execute jobs
    Jobs,    \* task ids
    Deps,    \* names of dependencies
    JobOf,   \* the task id of a user
    None

ASSUME DependencyAssumption ==
    /\ JobOf \in [Users -> Jobs]
    /\ None \notin Jobs \cup Deps

VARIABLES
    held,    \* asyncio.Lock._locked of every dependency's lock
    line,    \* its deque of waiters
    place,   \* where a user stands
    waitsOn, \* the dependency it asked for
    queue,   \* _queues: ids of the jobs that wait
    active   \* _active: the id of the job that runs

depVars == <<held, line, place, waitsOn, queue, active>>

\* "woken": its future has a result; "leaving": it was cancelled while it waited.
DepPlaces == {"out", "waiting", "woken", "leaving", "inside"}
Inside(d) == {u \in Users : waitsOn[u] = d /\ place[u] = "inside"}

DepInit ==
    /\ held = [d \in Deps |-> FALSE]
    /\ line = [d \in Deps |-> <<>>]
    /\ place = [u \in Users |-> "out"]
    /\ waitsOn = [u \in Users |-> None]
    /\ queue = [d \in Deps |-> <<>>]
    /\ active = [d \in Deps |-> None]

Without(s, i) == [j \in 1 .. Len(s) - 1 |-> IF j < i THEN s[j] ELSE s[j + 1]]
RemoveFirst(s, x) ==
    LET at == {i \in 1 .. Len(s) : s[i] = x}
    IN  IF at = {} THEN s
        ELSE Without(s, CHOOSE i \in at : \A j \in at : i <= j)

MarkActive(d, u) ==
    /\ queue' = [queue EXCEPT ![d] = RemoveFirst(@, JobOf[u])]
    /\ active' = [active EXCEPT ![d] = JobOf[u]]

\* Fault: only the flag of the lock counts, not those who wait for it.
TakeFree(d) == ~held[d]
\* asyncio.Lock.acquire takes a free lock at once if all waiters are cancelled.
CanTake(d) == ~held[d] /\ \A i \in 1 .. Len(line[d]) : place[line[d][i]] = "leaving"

\* acquire, up to its first await: the entry is queued, and leaves at once if the
\* lock is free.
Acquire(u, d) ==
    /\ place[u] = "out"
    /\ waitsOn' = [waitsOn EXCEPT ![u] = d]
    /\ IF CanTake(d)
       THEN /\ held' = [held EXCEPT ![d] = TRUE]
            /\ place' = [place EXCEPT ![u] = "inside"]
            /\ queue' = [queue EXCEPT ![d] = RemoveFirst(Append(@, JobOf[u]), JobOf[u])]
            /\ active' = [active EXCEPT ![d] = JobOf[u]]
            /\ UNCHANGED line
       ELSE /\ line' = [line EXCEPT ![d] = Append(@, u)]
            /\ place' = [place EXCEPT ![u] = "waiting"]
            /\ queue' = [queue EXCEPT ![d] = Append(@, JobOf[u])]
            /\ UNCHANGED <<held, active>>

\* u moves, and the first waiter in l is woken if its future is pending.
MoveAndWake(u, to, l) ==
    place' = [v \in Users |->
                IF v = u THEN to
                ELSE IF l # <<>> /\ v = l[1] /\ place[v] = "waiting" THEN "woken" ELSE place[v]]

\* acquire resumes with the lock.
Enter(u) ==
    LET d == waitsOn[u] IN
    /\ place[u] = "woken"
    /\ held' = [held EXCEPT ![d] = TRUE]
    /\ line' = [line EXCEPT ![d] = RemoveFirst(@, u)]
    /\ place' = [place EXCEPT ![u] = "inside"]
    /\ MarkActive(d, u)
    /\ UNCHANGED waitsOn

\* The job has ended in whatever way.
Release(u) ==
    LET d == waitsOn[u] IN
    /\ place[u] = "inside"
    /\ active' = [active EXCEPT ![d] = IF @ = JobOf[u] THEN None ELSE @]
    /\ held' = [held EXCEPT ![d] = FALSE]
    /\ MoveAndWake(u, "out", line[d])
    /\ waitsOn' = [waitsOn EXCEPT ![u] = None]
    /\ UNCHANGED <<line, queue>>

\* A waiter is cancelled ...
CancelWaiter(u) ==
    /\ place[u] \in {"waiting", "woken"}
    /\ place' = [place EXCEPT ![u] = "leaving"]
    /\ UNCHANGED <<held, line, waitsOn, queue, active>>

\* Fault: a cancelled waiter does not pass the wake-up on.
LeaveSilently(u) ==
    LET d == waitsOn[u] IN
    /\ place[u] = "leaving"
    /\ line' = [line EXCEPT ![d] = RemoveFirst(@, u)]
    /\ place' = [place EXCEPT ![u] = "out"]
    /\ waitsOn' = [waitsOn EXCEPT ![u] = None]
    /\ UNCHANGED <<held, queue, active>>
\* ... and resumes with CancelledError; its queue entry stays.
Leave(u) ==
    LET d == waitsOn[u]
        rest == RemoveFirst(line[d], u)
    IN  /\ place[u] = "leaving"
        /\ line' = [line EXCEPT ![d] = rest]
        /\ MoveAndWake(u, "out", IF held[d] THEN <<>> ELSE rest)
        /\ waitsOn' = [waitsOn EXCEPT ![u] = None]
        /\ UNCHANGED <<held, queue, active>>

DepNext == \E u \in Users : \/ \E d \in Deps : Acquire(u, d)
                            \/ Enter(u) \/ Release(u) \/ CancelWaiter(u) \/ Leave(u)

DepSpec == DepInit /\ [][DepNext]_depVars

-----------------------------------------------------------------------------
(* Properties *)

\* "Tasks with same dependency run sequentially": one at a time holds it, also
\* while cancelled waiters leave and pass the wake-up on.
Sequential == \A d \in Deps : \A u, v \in Inside(d) : u = v

=============================================================================
