------------------------------ MODULE LockPool ------------------------------
(***************************************************************************)
(* The per-session locks: bus/lock_pool.py (LockPool) and the asyncio.Lock *)
(* objects it hands out.                                                   *)
(*                                                                         *)
(* Every source of a conversation turn is a user of the pool: a Telegram   *)
(* message or button, a Matrix message, a webhook wake, an envelope of the *)
(* message bus, a WebSocket connection of the API server.  A user asks the *)
(* pool for the lock of its session and then acquires that object.  Most   *)
(* do both without an await in between; a Telegram message that finds the  *)
(* lock held sends an indicator first, and an API connection keeps the     *)
(* object for as long as it lives.                                         *)
(*                                                                         *)
(* A lock object has no queue of its own here: its waiters are the users   *)
(* that refer to it in a waiting state, and ahead[u] is the part of the    *)
(* deque in front of u.                                                    *)
(***************************************************************************)
EXTENDS Integers, Sequences, FiniteSets

CONSTANTS
    Keys,         \* sessions: (chat_id, topic_id)
    Users,        \* the asyncio tasks that take turns
    Connections,  \* those that keep a lock object between their turns
    Locks,        \* bound: identities of lock objects; one is free again once
                  \* neither the pool nor a user refers to it
    None,
    MaxLocks      \* LockPool._max

ASSUME LockPoolAssumption ==
    /\ IsFiniteSet(Keys)
    /\ Connections \subseteq Users
    /\ None \notin Locks \cup Keys
    /\ MaxLocks \in Nat \ {0}

VARIABLES
    lockOf,   \* LockPool._locks (None: no such key)
    order,    \* its keys in insertion order
    locked,   \* asyncio.Lock._locked of every object
    ref,      \* the object a user holds a reference to
    session,  \* the key it asked for
    at,       \* where it stands
    ahead     \* the waiters in front of it in that object's deque

poolVars == <<lockOf, order, locked, ref, session, at, ahead>>

\* "looking": has the object, has not called acquire; "waiting": its future is
\* pending; "woken": its future has a result, it has not resumed; "abandoned":
\* its future is cancelled; "doomed": cancelled when already woken; "inside":
\* holds the lock.
Places  == {"idle", "looking", "waiting", "woken", "abandoned", "doomed", "inside"}
InDeque == {"waiting", "woken", "abandoned", "doomed"}

Waiters(l) == {u \in Users : at[u] \in InDeque /\ ref[u] = l}
Pooled     == {k \in Keys : lockOf[k] # None}
InUse      == {lockOf[k] : k \in Pooled} \cup {ref[u] : u \in Users}
Holders(k) == {u \in Users : at[u] = "inside" /\ session[u] = k}

PoolInit ==
    /\ lockOf = [k \in Keys |-> None]
    /\ order = <<>>
    /\ locked = [l \in Locks |-> FALSE]
    /\ ref = [u \in Users |-> None]
    /\ session = [u \in Users |-> None]
    /\ at = [u \in Users |-> "idle"]
    /\ ahead = [u \in Users |-> {}]

-----------------------------------------------------------------------------
(* LockPool *)

\* Fault: locks in use are evicted too.
IdleOrNot == Pooled
Idle == {k \in Pooled : ~locked[lockOf[k]]}

\* The older half of the idle locks, and at least one if there is one.
Evicted ==
    LET n    == Cardinality(Idle)
        half == IF n < 2 THEN n ELSE n \div 2
        Older(i) == {j \in 1 .. i - 1 : order[j] \in Idle}
    IN  {k \in Idle : \E i \in 1 .. Len(order) : order[i] = k /\ Cardinality(Older(i)) < half}

Full == Cardinality(Pooled) >= MaxLocks

\* One identity for a new asyncio.Lock().
NewLock == LET free == Locks \ InUse
           IN  IF free = {} THEN {} ELSE {CHOOSE l \in free : TRUE}

Insert(k, l, out) ==
    lockOf' = [j \in Keys |-> IF j = k THEN l ELSE IF j \in out THEN None ELSE lockOf[j]]

\* Fault: a lock that nobody holds at the moment is replaced.
GetReplacing(k) ==
    IF k \in Pooled /\ locked[lockOf[k]]
    THEN UNCHANGED <<lockOf, order>>
    ELSE LET out == IF Full THEN Evicted ELSE {} IN
         /\ \E l \in NewLock : Insert(k, l, out)
         /\ order' = Append(SelectSeq(order, LAMBDA j : j \notin out \cup {k}), k)
\* get: the lock of a key, a new object if the key is not in the pool.
Get(k) ==
    IF k \in Pooled
    THEN UNCHANGED <<lockOf, order>>
    ELSE LET out == IF Full THEN Evicted ELSE {} IN
         /\ \E l \in NewLock : Insert(k, l, out)
         /\ order' = Append(SelectSeq(order, LAMBDA j : j \notin out), k)

-----------------------------------------------------------------------------
(* asyncio.Lock *)

\* acquire, up to its await: the lock is taken at once if it is free and no
\* waiter before has a future that may still get it.
Acquire(u, l) ==
    IF ~locked[l] /\ \A w \in Waiters(l) : at[w] = "abandoned"
    THEN /\ locked' = [locked EXCEPT ![l] = TRUE]
         /\ at' = [at EXCEPT ![u] = "inside"]
         /\ UNCHANGED ahead
    ELSE /\ at' = [at EXCEPT ![u] = "waiting"]
         /\ ahead' = [ahead EXCEPT ![u] = Waiters(l)]
         /\ UNCHANGED locked

LeaveDeque(u) == ahead' = [v \in Users |-> IF v = u THEN {} ELSE ahead[v] \ {u}]

\* _wake_up_first, once u is out of the deque: the first waiter, if its future is
\* pending.
WakeFirst(u, l) == {w \in Waiters(l) \ {u} : at[w] = "waiting" /\ ahead[w] \subseteq {u}}

Move(u, place, woken) ==
    at' = [v \in Users |-> IF v = u THEN place ELSE IF v \in woken THEN "woken" ELSE at[v]]

Forget(u) ==
    /\ ref' = [ref EXCEPT ![u] = None]
    /\ session' = [session EXCEPT ![u] = None]

-----------------------------------------------------------------------------
(* What users do *)

Ask(u, k) ==
    /\ at[u] = "idle"
    /\ Get(k)
    /\ ref' = [ref EXCEPT ![u] = lockOf'[k]]
    /\ session' = [session EXCEPT ![u] = k]

\* async with pool.get(key).
Enter(u, k) ==
    /\ u \notin Connections
    /\ Ask(u, k)
    /\ Acquire(u, lockOf'[k])

\* lock = pool.get(key), and an await before the lock is acquired.
Look(u, k) ==
    /\ Ask(u, k)
    /\ u \in Connections \/ locked[lockOf'[k]]
    /\ at' = [at EXCEPT ![u] = "looking"]
    /\ UNCHANGED <<locked, ahead>>

\* async with lock, for the object looked up before.
AcquireLooked(u) ==
    /\ at[u] = "looking"
    /\ Acquire(u, ref[u])
    /\ UNCHANGED <<lockOf, order, ref, session>>

\* acquire resumes after its await.
Resume(u) ==
    /\ at[u] = "woken"
    /\ LeaveDeque(u)
    /\ locked' = [locked EXCEPT ![ref[u]] = TRUE]
    /\ Move(u, "inside", {})
    /\ UNCHANGED <<lockOf, order, ref, session>>

\* release, at the end of the turn or when it is cancelled or fails.
Release(u) ==
    /\ at[u] = "inside"
    /\ locked' = [locked EXCEPT ![ref[u]] = FALSE]
    /\ Move(u, "idle", WakeFirst(u, ref[u]))
    /\ Forget(u)
    /\ UNCHANGED <<lockOf, order, ahead>>

\* A connection waits for its next frame with the object still in hand.
ReleaseKeeping(u) ==
    /\ u \in Connections
    /\ at[u] = "inside"
    /\ locked' = [locked EXCEPT ![ref[u]] = FALSE]
    /\ Move(u, "looking", WakeFirst(u, ref[u]))
    /\ UNCHANGED <<lockOf, order, ref, session, ahead>>

\* The user's asyncio task is cancelled while it waits for the lock.
CancelWait(u) ==
    /\ at[u] \in {"waiting", "woken"}
    /\ at' = [at EXCEPT ![u] = IF @ = "waiting" THEN "abandoned" ELSE "doomed"]
    /\ UNCHANGED <<lockOf, order, locked, ref, session, ahead>>

\* acquire resumes with CancelledError.
Unwind(u) ==
    /\ at[u] \in {"abandoned", "doomed"}
    /\ LeaveDeque(u)
    /\ Move(u, "idle", IF locked[ref[u]] THEN {} ELSE WakeFirst(u, ref[u]))
    /\ Forget(u)
    /\ UNCHANGED <<lockOf, order, locked>>

\* The user gives up before it calls acquire: a connection is closed.
Abandon(u) ==
    /\ at[u] = "looking"
    /\ at' = [at EXCEPT ![u] = "idle"]
    /\ Forget(u)
    /\ UNCHANGED <<lockOf, order, locked, ahead>>

UserStep(u) ==
    \/ \E k \in Keys : Enter(u, k) \/ Look(u, k)
    \/ AcquireLooked(u)
    \/ Resume(u)
    \/ Release(u)
    \/ ReleaseKeeping(u)
    \/ CancelWait(u)
    \/ Unwind(u)
    \/ Abandon(u)

PoolNext == \E u \in Users : UserStep(u)

PoolSpec == PoolInit /\ [][PoolNext]_poolVars

-----------------------------------------------------------------------------
(* Properties *)

\* One turn of a session at a time: what "per-chat lock ensures sequential
\* processing" promises to every caller of the CLI.
MutualExclusion == \A k \in Keys : \A u, v \in Holders(k) : u = v

\* The lock under a turn stays the lock of its session until the turn ends:
\* eviction by arrivals of other sessions never takes it.
HeldLockStays ==
    [][\A u \in Users :
          at[u] = "inside" /\ at'[u] = "inside" /\ lockOf[session[u]] = ref[u]
          => lockOf'[session[u]] = ref[u]]_poolVars

\* The pool seen as a line per session.
Standing(k) == {u \in Users : session[u] = k /\ at[u] \in {"waiting", "woken", "inside"}}
InFront(u) ==
    IF at[u] \in {"waiting", "woken"}
    THEN {v \in Standing(session[u]) : v \in ahead[u] \/ at[v] = "inside"}
    ELSE {}

Turns == INSTANCE TurnQueue WITH
             line <- [k \in Keys |-> Standing(k)],
             before <- [u \in Users |-> InFront(u)],
             served <- [k \in Keys |-> Holders(k)]

\* Below the eviction limit the pool implements that line: exclusion and order of
\* arrival survive cancelled waiters, objects kept over awaits and the step
\* between a release and the wake-up it caused.
ImplementsTurns == Turns!Spec
=============================================================================
