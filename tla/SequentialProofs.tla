-------------------------- MODULE SequentialProofs --------------------------
(***************************************************************************)
(* Theorems about LockPool, for any sessions, users, locks and limits, and *)
(* about SequentialMiddleware on top of it, for any messages and stops.    *)
(***************************************************************************)
EXTENDS SequentialMiddleware, TLAPS, FiniteSetTheorems, SequenceTheorems
-----------------------------------------------------------------------------
(* The lock pool *)

\* The part of TypeOK that the proofs need; the insertion order does not matter
\* to them.
Typed ==
    /\ lockOf \in [Keys -> Locks \cup {None}]
    /\ locked \in [Locks -> BOOLEAN]
    /\ at \in [Users -> Places]
    /\ ref \in [Users -> Locks \cup {None}]
    /\ session \in [Users -> Keys \cup {None}]
    /\ ahead \in [Users -> SUBSET Users]
    /\ \A u \in Users : at[u] # "idle" => ref[u] \in Locks /\ session[u] \in Keys

Waits(u)    == at[u] \in InDeque
SameLock(u, v) == ref[u] = ref[v]

\* A lock object has one holder, and reads locked while it has one.
Held == \A u \in Users : at[u] = "inside" => locked[ref[u]]
One  == \A u, v \in Users :
            at[u] = "inside" /\ at[v] = "inside" /\ SameLock(u, v) => u = v
\* The deque of an object is ordered, and only waiters are in it.
Ordered == \A u, v \in Users :
               Waits(u) /\ Waits(v) /\ SameLock(u, v) /\ u # v
               => u \in ahead[v] \/ v \in ahead[u]
Present == \A u, v \in Users : v \in ahead[u] => Waits(v)
\* The waiter that was woken is the first, and the lock is free for it.
First == \A u \in Users : at[u] \in {"woken", "doomed"} => ahead[u] = {}
Free  == \A u \in Users : at[u] = "woken" => ~locked[ref[u]]

Deque == Held /\ One /\ Ordered /\ Present /\ First /\ Free

LockInv == Typed /\ Deque

USE DEF Waits, SameLock

\* get returns a lock object, whatever it evicts.
LEMMA GetType ==
    ASSUME Typed, NEW k \in Keys, Get(k)
    PROVE  lockOf' \in [Keys -> Locks \cup {None}] /\ lockOf'[k] \in Locks
<1>1. CASE k \in Pooled
  BY <1>1 DEF Get, Pooled, Typed
<1>2. CASE k \notin Pooled
  <2>1. PICK l \in NewLock, out \in {Evicted, {}} : Insert(k, l, out)
    BY <1>2 DEF Get
  <2>2. l \in Locks
    <3>1. CASE Locks \ InUse = {}
      BY <3>1 DEF NewLock
    <3>2. CASE Locks \ InUse # {}
      BY <3>2 DEF NewLock
    <3> QED
      BY <3>1, <3>2
  <2> QED
    BY <2>1, <2>2 DEF Insert, Typed
<1> QED
  BY <1>1, <1>2

\* Calling acquire keeps the invariant, for a user that was not in the deque.
LEMMA AcquireInv ==
    ASSUME LockInv, NEW u \in Users, NEW l \in Locks, at[u] \in {"idle", "looking"},
           Acquire(u, l), ref' = [ref EXCEPT ![u] = l],
           lockOf' \in [Keys -> Locks \cup {None}],
           session' \in [Users -> Keys \cup {None}], session'[u] \in Keys,
           \A v \in Users : v # u => session'[v] = session[v]
    PROVE  LockInv'
<1> USE DEF LockInv, Deque, Typed
<1>1. u \notin Waiters(l) /\ \A v \in Users : u \notin ahead[v]
  BY DEF Waiters, InDeque, Present
<1>2. CASE ~locked[l] /\ \A w \in Waiters(l) : at[w] = "abandoned"
  <2>1. /\ locked' = [locked EXCEPT ![l] = TRUE]
        /\ at' = [at EXCEPT ![u] = "inside"]
        /\ ahead' = ahead
    BY <1>2 DEF Acquire
  <2>2. Typed'
    BY <2>1 DEF Places
  <2>3. Held' /\ One'
    BY <1>2, <2>1 DEF Held, One
  <2>4. Ordered' /\ Present' /\ First'
    BY <1>1, <2>1 DEF Ordered, Present, First, InDeque
  <2>5. Free'
    BY <1>2, <2>1 DEF Free, Waiters, InDeque
  <2> QED
    BY <2>2, <2>3, <2>4, <2>5
<1>3. CASE ~(~locked[l] /\ \A w \in Waiters(l) : at[w] = "abandoned")
  <2>1. /\ locked' = locked
        /\ at' = [at EXCEPT ![u] = "waiting"]
        /\ ahead' = [ahead EXCEPT ![u] = Waiters(l)]
    BY <1>3 DEF Acquire
  <2>2. Typed'
    BY <2>1 DEF Places, Waiters
  <2>3. Held' /\ One'
    BY <2>1 DEF Held, One
  <2>4. Ordered'
    BY <1>1, <2>1 DEF Ordered, Waiters, InDeque
  <2>5. Present'
    BY <1>1, <2>1 DEF Present, Waiters, InDeque
  <2>6. First' /\ Free'
    BY <2>1 DEF First, Free
  <2> QED
    BY <2>2, <2>3, <2>4, <2>5, <2>6
<1> QED
  BY <1>2, <1>3

\* Releasing keeps it, wherever the former holder goes.
LEMMA ReleaseInv ==
    ASSUME LockInv, NEW u \in Users, at[u] = "inside", NEW place \in {"idle", "looking"},
           locked' = [locked EXCEPT ![ref[u]] = FALSE],
           Move(u, place, WakeFirst(u, ref[u])),
           ahead' = ahead, lockOf' = lockOf,
           ref' \in [Users -> Locks \cup {None}],
           session' \in [Users -> Keys \cup {None}],
           \A v \in Users : v # u => ref'[v] = ref[v] /\ session'[v] = session[v],
           place # "idle" => ref'[u] = ref[u] /\ session'[u] = session[u]
    PROVE  LockInv'
<1> USE DEF LockInv, Deque, Typed
<1> DEFINE W == WakeFirst(u, ref[u])
<1>1. /\ ref[u] \in Locks
      /\ W \subseteq Users
      /\ \A w \in W : w # u /\ at[w] = "waiting" /\ ref[w] = ref[u] /\ ahead[w] = {}
  BY DEF WakeFirst, Waiters, Present, InDeque
<1>2. \A v \in Users : at'[v] = IF v = u THEN place ELSE IF v \in W THEN "woken" ELSE at[v]
  BY DEF Move
<1>3. at' \in [Users -> Places]
  BY DEF Move, Places
<1>4. Typed'
  BY <1>1, <1>2, <1>3
<1>5. Held' /\ One'
  BY <1>1, <1>2 DEF Held, One
<1>6. Ordered'
  BY <1>1, <1>2 DEF Ordered, InDeque
<1>7. Present'
  BY <1>1, <1>2 DEF Present, InDeque
<1>8. First' /\ Free'
  BY <1>1, <1>2 DEF First, Free
<1> QED
  BY <1>4, <1>5, <1>6, <1>7, <1>8

\* Leaving the deque keeps it: as the new holder, or with a cancellation.
LEMMA LeaveInv ==
    ASSUME LockInv, NEW u \in Users, LeaveDeque(u), lockOf' = lockOf,
           \/ /\ at[u] = "woken"
              /\ locked' = [locked EXCEPT ![ref[u]] = TRUE]
              /\ Move(u, "inside", {})
              /\ UNCHANGED <<ref, session>>
           \/ /\ at[u] \in {"abandoned", "doomed"}
              /\ locked' = locked
              /\ Move(u, "idle", IF locked[ref[u]] THEN {} ELSE WakeFirst(u, ref[u]))
              /\ Forget(u)
    PROVE  LockInv'
<1> USE DEF LockInv, Deque, Typed
<1>1. /\ ahead' \in [Users -> SUBSET Users]
      /\ \A v \in Users : ahead'[v] = IF v = u THEN {} ELSE ahead[v] \ {u}
  BY DEF LeaveDeque
<1>2. at[u] # "idle" /\ ref[u] \in Locks
  BY DEF Places
<1>3. CASE /\ at[u] = "woken"
           /\ locked' = [locked EXCEPT ![ref[u]] = TRUE]
           /\ Move(u, "inside", {})
           /\ UNCHANGED <<ref, session>>
  <2>1. /\ at' \in [Users -> Places]
        /\ \A v \in Users : at'[v] = IF v = u THEN "inside" ELSE at[v]
    BY <1>3 DEF Move, Places
  <2>2. Typed'
    BY <1>1, <1>2, <1>3, <2>1
  <2>3. Held' /\ One'
    BY <1>2, <1>3, <2>1 DEF Held, One, Free
  <2>4. Ordered' /\ Present' /\ First'
    BY <1>1, <1>3, <2>1 DEF Ordered, Present, First, InDeque
  <2>5. \A v \in Users : v # u /\ at[v] = "woken" => ref[v] # ref[u]
    BY <1>3 DEF Ordered, First, InDeque
  <2>6. Free'
    BY <1>2, <1>3, <2>1, <2>5 DEF Free
  <2> QED
    BY <2>2, <2>3, <2>4, <2>6
<1>4. CASE /\ at[u] \in {"abandoned", "doomed"}
           /\ locked' = locked
           /\ Move(u, "idle", IF locked[ref[u]] THEN {} ELSE WakeFirst(u, ref[u]))
           /\ Forget(u)
  <2> DEFINE W == IF locked[ref[u]] THEN {} ELSE WakeFirst(u, ref[u])
  <2>1. /\ at' \in [Users -> Places]
        /\ \A v \in Users : at'[v] = IF v = u THEN "idle" ELSE IF v \in W THEN "woken" ELSE at[v]
    BY <1>4 DEF Move, Places
  <2>2. \A w \in W : /\ w \in Users /\ w # u /\ at[w] = "waiting"
                     /\ ref[w] = ref[u] /\ ~locked[ref[u]] /\ ahead'[w] = {}
    BY <1>1 DEF WakeFirst, Waiters
  <2>3. /\ ref' \in [Users -> Locks \cup {None}] /\ session' \in [Users -> Keys \cup {None}]
        /\ \A v \in Users : v # u => ref'[v] = ref[v] /\ session'[v] = session[v]
    BY <1>4 DEF Forget
  <2>4. Typed'
    BY <1>1, <1>4, <2>1, <2>2, <2>3
  <2>5. Held' /\ One'
    BY <1>4, <2>1, <2>2, <2>3 DEF Held, One
  <2>6. Ordered'
    BY <1>1, <2>1, <2>2, <2>3 DEF Ordered, InDeque
  <2>7. Present'
    BY <1>1, <2>1, <2>2 DEF Present, InDeque
  <2>8. First' /\ Free'
    BY <1>1, <1>4, <2>1, <2>2, <2>3 DEF First, Free
  <2> QED
    BY <2>4, <2>5, <2>6, <2>7, <2>8
<1> QED
  BY <1>3, <1>4

-----------------------------------------------------------------------------
LEMMA LockInit == PoolInit => LockInv
BY LockPoolAssumption
   DEF PoolInit, LockInv, Typed, Deque, Held, One, Ordered, Present, First, Free,
       Places, InDeque

LEMMA LockStep ==
    ASSUME LockInv, [PoolNext]_poolVars
    PROVE  LockInv'
<1>1. CASE UNCHANGED poolVars
  BY <1>1 DEF poolVars, LockInv, Typed, Deque, Held, One, Ordered, Present, First, Free
<1>2. SUFFICES ASSUME NEW u \in Users, UserStep(u)
               PROVE  LockInv'
  BY <1>1, <1>2 DEF PoolNext
<1>3. ASSUME NEW k \in Keys, Enter(u, k)
      PROVE  LockInv'
  <2>1. /\ lockOf' \in [Keys -> Locks \cup {None}]
        /\ lockOf'[k] \in Locks
    BY <1>3, GetType DEF Enter, Ask, LockInv
  <2>2. /\ at[u] \in {"idle", "looking"}
        /\ Acquire(u, lockOf'[k])
        /\ ref' = [ref EXCEPT ![u] = lockOf'[k]]
        /\ session' = [session EXCEPT ![u] = k]
    BY <1>3 DEF Enter, Ask
  <2>3. /\ session' \in [Users -> Keys \cup {None}]
        /\ session'[u] \in Keys
        /\ \A v \in Users : v # u => session'[v] = session[v]
    BY <2>2 DEF LockInv, Typed
  <2> QED
    BY <2>1, <2>2, <2>3, AcquireInv
<1>4. ASSUME NEW k \in Keys, Look(u, k)
      PROVE  LockInv'
  <2>1. /\ lockOf' \in [Keys -> Locks \cup {None}]
        /\ lockOf'[k] \in Locks
    BY <1>4, GetType DEF Look, Ask, LockInv
  <2>2. /\ at[u] = "idle"
        /\ ref' = [ref EXCEPT ![u] = lockOf'[k]]
        /\ session' = [session EXCEPT ![u] = k]
        /\ at' = [at EXCEPT ![u] = "looking"]
        /\ locked' = locked
        /\ ahead' = ahead
    BY <1>4 DEF Look, Ask
  <2>3. Typed'
    BY <2>1, <2>2 DEF LockInv, Typed, Places
  <2>4. Deque'
    BY <2>2 DEF LockInv, Typed, Deque, Held, One, Ordered, Present, First, Free, InDeque
  <2> QED
    BY <2>3, <2>4 DEF LockInv
<1>5. CASE AcquireLooked(u)
  <2>1. /\ at[u] \in {"idle", "looking"}
        /\ ref[u] \in Locks
        /\ session[u] \in Keys
        /\ Acquire(u, ref[u])
        /\ UNCHANGED <<lockOf, ref, session>>
        /\ ref' = [ref EXCEPT ![u] = ref[u]]
    BY <1>5 DEF AcquireLooked, LockInv, Typed
  <2>2. /\ lockOf' \in [Keys -> Locks \cup {None}]
        /\ session' \in [Users -> Keys \cup {None}]
    BY <2>1 DEF LockInv, Typed
  <2> QED
    BY <2>1, <2>2, AcquireInv
<1>6. CASE Resume(u)
  BY <1>6, LeaveInv DEF Resume
<1>7. CASE Release(u)
  <2>1. /\ ref' \in [Users -> Locks \cup {None}]
        /\ session' \in [Users -> Keys \cup {None}]
        /\ \A v \in Users : v # u => ref'[v] = ref[v] /\ session'[v] = session[v]
    BY <1>7 DEF Release, Forget, LockInv, Typed
  <2> QED
    BY <1>7, <2>1, ReleaseInv DEF Release
<1>8. CASE ReleaseKeeping(u)
  BY <1>8, ReleaseInv DEF ReleaseKeeping, LockInv, Typed
<1>9. CASE CancelWait(u)
  BY <1>9
     DEF CancelWait, LockInv, Typed, Places, Deque, Held, One, Ordered, Present, First, Free, InDeque
<1>10. CASE Unwind(u)
  BY <1>10, LeaveInv DEF Unwind
<1>11. CASE Abandon(u)
  <2>1. Typed'
    BY <1>11 DEF Abandon, Forget, LockInv, Typed, Places
  <2>2. Deque'
    BY <1>11
       DEF Abandon, Forget, LockInv, Typed, Deque, Held, One, Ordered, Present, First, Free, InDeque
  <2> QED
    BY <2>1, <2>2 DEF LockInv
<1> QED
  BY <1>2, <1>3, <1>4, <1>5, <1>6, <1>7, <1>8, <1>9, <1>10, <1>11 DEF UserStep

\* A lock object never has two holders, whatever is evicted, cancelled or woken.
THEOREM LockHeldOnce == PoolSpec => []LockInv
BY LockInit, LockStep, PTL DEF PoolSpec

-----------------------------------------------------------------------------
\* Below the limit, users of a session hold the object the pool maps it to.
Fits == Cardinality(Keys) <= MaxLocks
Own  == \A u \in Users : at[u] # "idle" => lockOf[session[u]] = ref[u]

\* A pool that fits all sessions never evicts.
LEMMA GetFits ==
    ASSUME Typed, Fits, NEW k \in Keys, Get(k)
    PROVE  \A j \in Pooled : lockOf'[j] = lockOf[j]
<1>1. CASE k \in Pooled
  BY <1>1 DEF Get
<1>2. CASE k \notin Pooled
  <2>1. Pooled \in SUBSET Keys /\ Pooled # Keys
    BY <1>2 DEF Pooled
  <2>2. /\ Cardinality(Pooled) <= Cardinality(Keys)
        /\ Cardinality(Pooled) # Cardinality(Keys)
    BY <2>1, FS_Subset, LockPoolAssumption
  <2>3. Cardinality(Keys) \in Nat /\ Cardinality(Pooled) \in Nat
    BY <2>1, FS_Subset, FS_CardinalityType, LockPoolAssumption
  <2>4. ~Full
    BY <2>2, <2>3, LockPoolAssumption DEF Full, Fits
  <2>5. PICK l \in NewLock : Insert(k, l, {})
    BY <1>2, <2>4 DEF Get
  <2> QED
    BY <1>2, <2>5 DEF Insert, Pooled
<1> QED
  BY <1>1, <1>2

LEMMA OwnStep ==
    ASSUME LockInv, Own, Fits, [PoolNext]_poolVars
    PROVE  Own'
<1> USE DEF LockInv, Typed, Own
<1>1. CASE UNCHANGED poolVars
  BY <1>1 DEF poolVars
<1>2. SUFFICES ASSUME NEW u \in Users, UserStep(u)
               PROVE  Own'
  BY <1>1, <1>2 DEF PoolNext
<1>3. \A v \in Users : at[v] # "idle" => session[v] \in Pooled
  BY LockPoolAssumption DEF Pooled
<1>4. ASSUME NEW k \in Keys, Ask(u, k), NEW place,
             \A v \in Users : at'[v] = IF v = u THEN place ELSE at[v]
      PROVE  Own'
  <2>1. \A j \in Pooled : lockOf'[j] = lockOf[j]
    BY <1>4, GetFits DEF Ask
  <2>2. \A v \in Users : v # u => ref'[v] = ref[v] /\ session'[v] = session[v]
    BY <1>4 DEF Ask
  <2>3. ref'[u] = lockOf'[k] /\ session'[u] = k
    BY <1>4 DEF Ask
  <2> QED
    BY <1>3, <1>4, <2>1, <2>2, <2>3
<1>5. ASSUME NEW k \in Keys, Enter(u, k)
      PROVE  Own'
  <2>1. PICK place : \A v \in Users : at'[v] = IF v = u THEN place ELSE at[v]
    BY <1>5 DEF Enter, Acquire
  <2> QED
    BY <1>4, <1>5, <2>1 DEF Enter
<1>6. ASSUME NEW k \in Keys, Look(u, k)
      PROVE  Own'
  <2>1. \A v \in Users : at'[v] = IF v = u THEN "looking" ELSE at[v]
    BY <1>6 DEF Look
  <2> QED
    BY <1>4, <1>6, <2>1 DEF Look
<1>7. CASE AcquireLooked(u) \/ CancelWait(u)
  BY <1>7 DEF AcquireLooked, Acquire, CancelWait
<1>8. CASE Resume(u) \/ ReleaseKeeping(u)
  BY <1>8 DEF Resume, ReleaseKeeping, Move, WakeFirst, Waiters
<1>9. CASE Release(u) \/ Unwind(u)
  BY <1>9 DEF Release, Unwind, Move, Forget, WakeFirst, Waiters
<1>10. CASE Abandon(u)
  BY <1>10 DEF Abandon, Forget
<1> QED
  BY <1>2, <1>5, <1>6, <1>7, <1>8, <1>9, <1>10 DEF UserStep

\* One turn of a session at a time, as long as the pool fits all sessions: then
\* whoever is inside for a session holds the one object the pool has for it.
THEOREM SessionsExclusive ==
    Cardinality(Keys) <= MaxLocks /\ PoolSpec => []MutualExclusion
<1>1. PoolInit => LockInv /\ Own
  BY LockInit DEF PoolInit, Own
<1>2. ASSUME Fits, LockInv /\ Own, [PoolNext]_poolVars
      PROVE  (LockInv /\ Own)'
  BY <1>2, LockStep, OwnStep
<1>3. LockInv /\ Own => MutualExclusion
  BY DEF LockInv, Typed, Deque, One, Own, MutualExclusion, Holders
<1>4. CASE Fits
  BY <1>1, <1>2, <1>3, <1>4, PTL DEF PoolSpec
<1>5. CASE ~Fits
  BY <1>5 DEF Fits
<1> QED
  BY <1>4, <1>5

-----------------------------------------------------------------------------
\* get drops no lock that is locked.
LEMMA GetKeepsLocked ==
    ASSUME Typed, NEW k \in Keys, Get(k), NEW j \in Pooled, locked[lockOf[j]]
    PROVE  lockOf'[j] = lockOf[j]
<1>1. CASE k \in Pooled
  BY <1>1 DEF Get
<1>2. CASE k \notin Pooled
  <2>1. PICK l \in NewLock, out \in {Evicted, {}} : Insert(k, l, out)
    BY <1>2 DEF Get
  <2>2. j \notin Evicted
    BY DEF Evicted, Idle
  <2>3. j \in Keys /\ j # k
    BY <1>2 DEF Pooled
  <2> QED
    BY <2>1, <2>2, <2>3 DEF Insert
<1> QED
  BY <1>1, <1>2

\* Whatever the limit, eviction never takes the lock under a running turn away from
\* its session: what is evicted reads unlocked, and who is inside keeps it locked.
THEOREM HeldLocksStay == PoolSpec => HeldLockStays
<1> DEFINE Keeps == \A u \in Users :
               at[u] = "inside" /\ at'[u] = "inside" /\ lockOf[session[u]] = ref[u]
               => lockOf'[session[u]] = ref[u]
<1>1. ASSUME LockInv, [PoolNext]_poolVars
      PROVE  [Keeps]_poolVars
  <2> SUFFICES ASSUME NEW u \in Users, at[u] = "inside", lockOf[session[u]] = ref[u],
                      NEW v \in Users, UserStep(v)
               PROVE  lockOf'[session[u]] = ref[u]
    BY <1>1 DEF PoolNext
  <2>1. session[u] \in Pooled /\ locked[lockOf[session[u]]]
    BY <1>1, LockPoolAssumption DEF LockInv, Typed, Deque, Held, Pooled
  <2>2. (\E k \in Keys : Get(k)) \/ lockOf' = lockOf
    BY DEF UserStep, Enter, Look, Ask, AcquireLooked, Resume, Release, ReleaseKeeping,
           CancelWait, Unwind, Abandon
  <2> QED
    BY <1>1, <2>1, <2>2, GetKeepsLocked DEF LockInv
<1>2. PoolSpec => []LockInv
  BY LockHeldOnce
<1> QED
  BY <1>1, <1>2, PTL DEF PoolSpec, HeldLockStays

-----------------------------------------------------------------------------
(* The Telegram queue *)

\* Removing an entry from a list that holds it once: the list stays one without
\* repetitions, of the other entries.
LEMMA Removed ==
    ASSUME NEW D, NEW list \in Seq(D), IsInjective(list), NEW u
    PROVE  /\ RemoveFirst(list, u) \in Seq(D)
           /\ IsInjective(RemoveFirst(list, u))
           /\ \A j \in 1 .. Len(RemoveFirst(list, u)) :
                 /\ RemoveFirst(list, u)[j] # u
                 /\ \E k \in 1 .. Len(list) : k \in {j, j + 1} /\ RemoveFirst(list, u)[j] = list[k]
<1>1. CASE \A i \in 1 .. Len(list) : list[i] # u
  BY <1>1 DEF RemoveFirst
<1>2. CASE \E i \in 1 .. Len(list) : list[i] = u
  <2>1. PICK i \in 1 .. Len(list) : list[i] = u
    BY <1>2
  <2>2. \A j \in 1 .. Len(list) : list[j] = u => j = i
    BY <2>1 DEF IsInjective
  <2>3. RemoveFirst(list, u) = RemoveAt(list, i)
    <3>1. {j \in 1 .. Len(list) : list[j] = u} = {i}
      BY <2>1, <2>2
    <3>2. SelectInSeq(list, LAMBDA v : v = u) = i
      BY <3>1, <2>1 DEF SelectInSeq, Min
    <3> QED
      BY <3>2, <1>2 DEF RemoveFirst
  <2> DEFINE short == RemoveFirst(list, u)
  <2>4. /\ short \in Seq(D)
        /\ Len(short) = Len(list) - 1
        /\ \A j \in 1 .. Len(list) - 1 : short[j] = IF j < i THEN list[j] ELSE list[j + 1]
    <3> DEFINE front == SubSeq(list, 1, i - 1)
               back  == SubSeq(list, i + 1, Len(list))
    <3>1. front \in Seq(D) /\ Len(front) = i - 1 /\ \A j \in 1 .. i - 1 : front[j] = list[j]
      BY SubSeqProperties
    <3>2. /\ back \in Seq(D)
          /\ Len(back) = Len(list) - i
          /\ \A j \in 1 .. Len(list) - i : back[j] = list[j + i]
      BY SubSeqProperties
    <3>3. short = front \o back
      BY <2>3 DEF RemoveAt
    <3> HIDE DEF front, back, short
    <3>4. /\ short \in Seq(D)
          /\ Len(short) = Len(front) + Len(back)
          /\ \A j \in 1 .. Len(front) + Len(back) :
                short[j] = IF j <= Len(front) THEN front[j] ELSE back[j - Len(front)]
      BY <3>1, <3>2, <3>3, ConcatProperties
    <3>5. Len(short) = Len(list) - 1
      BY <3>1, <3>2, <3>4
    <3>6. ASSUME NEW j \in 1 .. Len(list) - 1
          PROVE  short[j] = IF j < i THEN list[j] ELSE list[j + 1]
      <4>1. CASE j < i
        BY <4>1, <3>1, <3>4, <3>5
      <4>2. CASE j >= i
        <5>1. short[j] = back[j - (i - 1)]
          BY <4>2, <3>1, <3>4, <3>5
        <5>2. j - (i - 1) \in 1 .. Len(list) - i /\ j - (i - 1) + i = j + 1
          BY <4>2
        <5>3. back[j - (i - 1)] = list[j - (i - 1) + i]
          BY <5>2, <3>2
        <5> QED
          BY <5>1, <5>2, <5>3, <4>2
      <4> QED
        BY <4>1, <4>2
    <3> QED
      BY <3>4, <3>5, <3>6
  <2> HIDE DEF short
  <2>5. IsInjective(short)
    <3>1. DOMAIN short = 1 .. Len(short) /\ DOMAIN list = 1 .. Len(list)
      BY <2>4
    <3> SUFFICES ASSUME NEW j \in 1 .. Len(short), NEW k \in 1 .. Len(short), short[j] = short[k]
                 PROVE  j = k
      BY <3>1 DEF IsInjective
    <3> DEFINE from(m) == IF m < i THEN m ELSE m + 1
    <3>2. from(j) \in 1 .. Len(list) /\ from(k) \in 1 .. Len(list)
      BY <2>4
    <3>3. short[j] = list[from(j)] /\ short[k] = list[from(k)]
      BY <2>4
    <3> HIDE DEF from
    <3>4. from(j) = from(k)
      BY <3>1, <3>2, <3>3 DEF IsInjective
    <3> QED
      BY <3>4, <2>4 DEF from
  <2>6. \A j \in 1 .. Len(short) :
            short[j] # u /\ \E k \in 1 .. Len(list) : k \in {j, j + 1} /\ short[j] = list[k]
    BY <2>2, <2>4
  <2> QED
    BY <2>4, <2>5, <2>6 DEF short
<1> QED
  BY <1>1, <1>2

\* Appending an entry that the list does not hold.
LEMMA Appended ==
    ASSUME NEW D, NEW list \in Seq(D), IsInjective(list), NEW u \in D,
           \A i \in 1 .. Len(list) : list[i] # u
    PROVE  /\ Append(list, u) \in Seq(D)
           /\ IsInjective(Append(list, u))
           /\ \A i \in 1 .. Len(Append(list, u)) :
                 Append(list, u)[i] = u \/ \E j \in 1 .. Len(list) : Append(list, u)[i] = list[j]
  BY AppendProperties DEF IsInjective

\* Entries stand in the list of their own chat, once, and only while they wait.
Lists ==
    \A c \in Chats :
        /\ pending[c] \in Seq(Deliveries)
        /\ IsInjective(pending[c])
        /\ \A i \in 1 .. Len(pending[c]) :
              Chat(pending[c][i]) = c /\ stage[pending[c][i]] = "queued"

\* A cancelled entry waits, is being skipped or has been.
Doomed == \A u \in cancelled : u \in Deliveries /\ stage[u] \in {"queued", "skipping", "discarded"}

\* A delivery that is past the cache is the only one of its message's lifetime in it,
\* and while that lasts the message is in the cache.
Begun(u) == stage[u] \notin {"unseen", "duplicate"}
Deduped ==
    /\ expired \in [MessageIds -> Nat] /\ admitted \in [Deliveries -> Nat]
    /\ \A u \in Deliveries : Begun(u) =>
          /\ admitted[u] <= expired[MessageOf[u]]
          /\ admitted[u] = expired[MessageOf[u]] => MessageOf[u] \in seen
    /\ \A u, v \in Deliveries :
          Begun(u) /\ Begun(v) /\ MessageOf[u] = MessageOf[v] /\ admitted[u] = admitted[v] => u = v

\* Who is answered or skipped is inside, for its own session.
AtTurn ==
    \A u \in Deliveries :
        /\ stage[u] \in {"queued", "waiting", "handling", "skipping"} => session[u] = KeyOf[u]
        /\ stage[u] \in {"handling", "skipping"} => at[u] = "inside"

QueueInv ==
    /\ stage \in [Deliveries -> Stages]
    /\ pending \in [Chats -> Seq(Deliveries)]
    /\ Lists
    /\ Doomed
    /\ Deduped

\* Beginning the turn of u, which waited for it.
LEMMA BeginInv ==
    ASSUME QueueInv, NEW u \in Deliveries, stage[u] \in {"queued", "waiting"}, Begin(u),
           UNCHANGED <<cache, cancelled>>
    PROVE  QueueInv'
<1>0. Chat(u) \in Chats
  BY MiddlewareAssumption DEF Chat
<1>1. /\ stage' \in [Deliveries -> Stages]
      /\ \A v \in Deliveries : v # u => stage'[v] = stage[v]
      /\ stage'[u] = IF u \in cancelled THEN "skipping" ELSE "handling"
  BY DEF Begin, QueueInv, Stages
<1>2. pending' \in [Chats -> Seq(Deliveries)] /\ Lists'
  <2>1. CASE stage[u] = "queued"
    <3> DEFINE short == RemoveFirst(pending[Chat(u)], u)
    <3>1. pending' = [pending EXCEPT ![Chat(u)] = short]
      BY <2>1 DEF Begin, RemoveEntry
    <3>2. /\ short \in Seq(Deliveries)
          /\ IsInjective(short)
          /\ \A j \in 1 .. Len(short) :
                short[j] # u /\ \E k \in 1 .. Len(pending[Chat(u)]) : short[j] = pending[Chat(u)][k]
      <4>1. pending[Chat(u)] \in Seq(Deliveries) /\ IsInjective(pending[Chat(u)])
        BY <1>0 DEF QueueInv, Lists
      <4> QED
        BY <4>1, Removed
    <3> HIDE DEF short
    <3>3. pending' \in [Chats -> Seq(Deliveries)]
      BY <3>1, <3>2 DEF QueueInv
    <3>4. ASSUME NEW c \in Chats, NEW i \in 1 .. Len(pending'[c])
          PROVE  Chat(pending'[c][i]) = c /\ stage'[pending'[c][i]] = "queued"
      <4>1. CASE c = Chat(u)
        <5>1. pending'[c] = short
          BY <3>1, <4>1 DEF QueueInv
        <5>2. PICK j \in 1 .. Len(pending[c]) : short[i] = pending[c][j]
          BY <3>2, <3>4, <4>1, <5>1
        <5>3. short[i] # u /\ short[i] \in Deliveries
          BY <3>2, <3>4, <5>1
        <5>4. Chat(pending[c][j]) = c /\ stage[pending[c][j]] = "queued"
          BY DEF QueueInv, Lists
        <5>5. pending'[c][i] = pending[c][j] /\ pending'[c][i] \in Deliveries /\ pending'[c][i] # u
          BY <5>1, <5>2, <5>3
        <5> QED
          BY <1>1, <5>4, <5>5
      <4>2. CASE c # Chat(u)
        <5>1. pending'[c] = pending[c]
          BY <3>1, <4>2 DEF QueueInv
        <5>2. pending[c][i] # u /\ pending[c][i] \in Deliveries
          BY <3>4, <4>2, <5>1 DEF QueueInv, Lists
        <5> QED
          BY <1>1, <3>4, <5>1, <5>2 DEF QueueInv, Lists
      <4> QED
        BY <4>1, <4>2
    <3>5. \A c \in Chats : IsInjective(pending'[c])
      BY <3>1, <3>2 DEF QueueInv, Lists
    <3> QED
      BY <3>3, <3>4, <3>5 DEF Lists, Chat
  <2>2. CASE stage[u] = "waiting"
    <3>1. pending' = pending
      BY <2>2 DEF Begin
    <3>2. \A c \in Chats : \A i \in 1 .. Len(pending[c]) :
              pending[c][i] \in Deliveries /\ pending[c][i] # u
      BY <2>2 DEF QueueInv, Lists
    <3> QED
      BY <1>1, <3>1, <3>2 DEF QueueInv, Lists, Chat
  <2> QED
    BY <2>1, <2>2
<1>3. Doomed'
  BY <1>1 DEF QueueInv, Doomed
<1>4. Deduped'
  BY <1>1 DEF QueueInv, Deduped, Begun, cache
<1> QED
  BY <1>1, <1>2, <1>3, <1>4 DEF QueueInv

\* An arrival: the entry of u joins the list of its chat, or none does.
LEMMA ArriveInv ==
    ASSUME QueueInv, NEW u \in Deliveries, Arrive(u)
    PROVE  QueueInv'
<1>0. Chat(u) \in Chats /\ stage[u] = "unseen" /\ cancelled' = cancelled
  BY MiddlewareAssumption DEF Chat, Arrive
<1>1. PICK mark \in {"duplicate", "queued", "waiting", "handling"} :
          stage' = [stage EXCEPT ![u] = mark]
  BY DEF Arrive, Queue, GoAhead
<1>2. Doomed'
  BY <1>0, <1>1 DEF QueueInv, Doomed
<1>3. Deduped'
  <2>1. CASE mark = "duplicate"
    <3>1. UNCHANGED cache
      BY <1>1, <2>1 DEF Arrive, Queue, GoAhead, QueueInv
    <3> QED
      BY <1>1, <2>1, <3>1 DEF QueueInv, Deduped, Begun, cache, Stages
  <2>2. CASE mark # "duplicate"
    <3>1. /\ ~Duplicate(u) /\ seen' = seen \cup {MessageOf[u]} /\ expired' = expired
          /\ admitted' = [admitted EXCEPT ![u] = expired[MessageOf[u]]]
      <4>1. stage'[u] = mark
        BY <1>1 DEF QueueInv
      <4> QED
        BY <1>1, <2>2, <4>1 DEF Arrive, QueueInv
    <3> QED
      BY <1>0, <1>1, <3>1 DEF QueueInv, Deduped, Begun, Duplicate, MessageIds
  <2> QED
    BY <2>1, <2>2
<1>4. stage' \in [Deliveries -> Stages]
  BY <1>1 DEF QueueInv, Stages
<1>5. \A c \in Chats : \A i \in 1 .. Len(pending[c]) :
          pending[c][i] \in Deliveries /\ pending[c][i] # u
  BY <1>0 DEF QueueInv, Lists
<1>6. pending' \in [Chats -> Seq(Deliveries)] /\ Lists'
  <2>1. CASE pending' = pending
    BY <1>1, <1>5, <2>1 DEF QueueInv, Lists, Chat
  <2>2. CASE Queue(u)
    <3> DEFINE longer == Append(pending[Chat(u)], u)
    <3>1. /\ pending' = [pending EXCEPT ![Chat(u)] = longer]
          /\ stage' = [stage EXCEPT ![u] = "queued"]
      BY <2>2 DEF Queue
    <3>2. /\ longer \in Seq(Deliveries)
          /\ IsInjective(longer)
          /\ \A j \in 1 .. Len(longer) :
                longer[j] = u \/ \E k \in 1 .. Len(pending[Chat(u)]) : longer[j] = pending[Chat(u)][k]
      <4>1. /\ pending[Chat(u)] \in Seq(Deliveries)
            /\ IsInjective(pending[Chat(u)])
            /\ \A i \in 1 .. Len(pending[Chat(u)]) : pending[Chat(u)][i] # u
        BY <1>0, <1>5 DEF QueueInv, Lists
      <4> QED
        BY <4>1, Appended
    <3> HIDE DEF longer
    <3>3. pending' \in [Chats -> Seq(Deliveries)]
      BY <3>1, <3>2 DEF QueueInv
    <3>4. \A c \in Chats : IsInjective(pending'[c])
      BY <3>1, <3>2 DEF QueueInv, Lists
    <3>5. ASSUME NEW c \in Chats, NEW i \in 1 .. Len(pending'[c])
          PROVE  Chat(pending'[c][i]) = c /\ stage'[pending'[c][i]] = "queued"
      <4>1. CASE pending'[c][i] = u
        <5>1. c = Chat(u)
          BY <1>5, <3>1, <3>5, <4>1 DEF QueueInv
        <5> QED
          BY <3>1, <4>1, <5>1 DEF QueueInv
      <4>2. CASE pending'[c][i] # u
        <5>1. PICK j \in 1 .. Len(pending[c]) : pending'[c][i] = pending[c][j]
          BY <3>1, <3>2, <3>5, <4>2 DEF QueueInv
        <5>2. Chat(pending[c][j]) = c /\ stage[pending[c][j]] = "queued" /\ pending[c][j] \in Deliveries
          BY <1>5 DEF QueueInv, Lists
        <5> QED
          BY <1>1, <4>2, <5>1, <5>2 DEF QueueInv
      <4> QED
        BY <4>1, <4>2
    <3> QED
      BY <3>3, <3>4, <3>5 DEF Lists, Chat
  <2> QED
    BY <2>1, <2>2 DEF Arrive, GoAhead
<1> QED
  BY <1>2, <1>3, <1>4, <1>6 DEF QueueInv

\* The cancel button and the drain flag entries of the list only.
LEMMA DrainFromInv ==
    ASSUME QueueInv, NEW s \in Stops, NEW i, DrainFrom(s, i), UNCHANGED <<cache, pending, stage>>
    PROVE  QueueInv'
<1>1. StopChat[s] \in Chats
  BY MiddlewareAssumption
<1>2. \A u \in cancelled' :
          u \in cancelled \/ \E j \in 1 .. Len(pending[StopChat[s]]) : u = pending[StopChat[s]][j]
  BY DEF DrainFrom
<1>3. \A j \in 1 .. Len(pending[StopChat[s]]) :
          /\ pending[StopChat[s]][j] \in Deliveries
          /\ stage[pending[StopChat[s]][j]] = "queued"
  BY <1>1 DEF QueueInv, Lists
<1>4. Doomed'
  BY <1>2, <1>3 DEF QueueInv, Doomed
<1> QED
  BY <1>4 DEF QueueInv, Lists, Chat, Deduped, Begun, cache

LEMMA QueueStep ==
    ASSUME QueueInv, [Next]_vars
    PROVE  QueueInv'
<1>1. CASE UNCHANGED vars
  BY <1>1 DEF vars, queueVars, cache, QueueInv, Lists, Chat, Doomed, Deduped, Begun
<1>2. ASSUME NEW u \in Deliveries, DeliveryStep(u)
      PROVE  QueueInv'
  <2>1. CASE Arrive(u)
    BY <2>1, ArriveInv
  <2>2. CASE IndicatorSent(u)
    <3>1. CASE at'[u] = "inside"
      BY <2>2, <3>1, BeginInv DEF IndicatorSent
    <3>2. CASE at'[u] # "inside"
      BY <2>2, <3>2 DEF IndicatorSent, QueueInv, Lists, Chat, Doomed, Deduped, Begun, cache
    <3> QED
      BY <3>1, <3>2
  <2>3. CASE TurnComes(u)
    BY <2>3, BeginInv DEF TurnComes
  <2>4. CASE Finish(u)
    <3>1. /\ stage' = [stage EXCEPT ![u] = IF @ = "handling" THEN "handled" ELSE "discarded"]
          /\ stage[u] \in {"handling", "skipping"}
          /\ UNCHANGED <<cache, pending, cancelled>>
      BY <2>4 DEF Finish
    <3>2. \A c \in Chats : \A i \in 1 .. Len(pending[c]) :
              pending[c][i] \in Deliveries /\ pending[c][i] # u
      BY <3>1 DEF QueueInv, Lists
    <3>3. Lists'
      BY <3>1, <3>2 DEF QueueInv, Lists, Chat
    <3>4. Doomed' /\ Deduped' /\ stage' \in [Deliveries -> Stages]
      BY <3>1 DEF QueueInv, Doomed, Deduped, Begun, cache, Stages
    <3> QED
      BY <3>1, <3>3, <3>4 DEF QueueInv
  <2> QED
    BY <1>2, <2>1, <2>2, <2>3, <2>4 DEF DeliveryStep
<1>3. ASSUME NEW u \in Deliveries, CancelEntry(u)
      PROVE  QueueInv'
  <2>1. Chat(u) \in Chats
    BY MiddlewareAssumption DEF Chat
  <2>2. stage[u] = "queued"
    BY <1>3, <2>1 DEF CancelEntry, Entries, QueueInv, Lists
  <2> QED
    BY <1>3, <2>2 DEF CancelEntry, QueueInv, Lists, Chat, Doomed, Deduped, Begun, cache
<1>4. ASSUME NEW s \in Stops, StopStep(s)
      PROVE  QueueInv'
  <2>1. CASE DrainStarts(s)
    BY <2>1, DrainFromInv DEF DrainStarts
  <2>2. CASE DrainGoesOn(s)
    BY <2>2, DrainFromInv DEF DrainGoesOn
  <2>3. CASE Stop(s) \/ DrainEnds(s)
    BY <2>3 DEF Stop, DrainEnds, QueueInv, Lists, Chat, Doomed, Deduped, Begun, cache
  <2> QED
    BY <1>4, <2>1, <2>2, <2>3 DEF StopStep
<1>5. ASSUME NEW u \in Others, OtherStep(u)
      PROVE  QueueInv'
  BY <1>5 DEF OtherStep, queueVars, cache, QueueInv, Lists, Chat, Doomed, Deduped, Begun
<1>6. ASSUME NEW m \in MessageIds, Expire(m)
      PROVE  QueueInv'
  <2>1. /\ seen' = seen \ {m} /\ expired' = [expired EXCEPT ![m] = @ + 1]
        /\ UNCHANGED <<admitted, pending, cancelled, stage>>
    BY <1>6 DEF Expire
  <2>2. Deduped'
    <3>1. /\ expired' \in [MessageIds -> Nat] /\ admitted' \in [Deliveries -> Nat]
          /\ \A n \in MessageIds : expired'[n] = IF n = m THEN expired[n] + 1 ELSE expired[n]
      BY <2>1 DEF QueueInv, Deduped
    <3>2. ASSUME NEW u \in Deliveries, Begun(u)
          PROVE  /\ admitted[u] <= expired'[MessageOf[u]]
                 /\ admitted[u] = expired'[MessageOf[u]] => MessageOf[u] \in seen'
      <4>1. /\ MessageOf[u] \in MessageIds
            /\ admitted[u] \in Nat /\ expired[MessageOf[u]] \in Nat
            /\ admitted[u] <= expired[MessageOf[u]]
            /\ admitted[u] = expired[MessageOf[u]] => MessageOf[u] \in seen
        BY <3>2 DEF QueueInv, Deduped, MessageIds
      <4>2. QED
        BY <2>1, <3>1, <4>1
    <3>3. QED
      BY <2>1, <3>1, <3>2 DEF QueueInv, Deduped, Begun
  <2>3. QED
    BY <2>1, <2>2 DEF QueueInv, Lists, Chat, Doomed
<1> QED
  BY <1>1, <1>2, <1>3, <1>4, <1>5, <1>6 DEF Next

LEMMA QueueInit == Init => QueueInv
  BY DEF Init, QueueInv, Stages, Lists, Doomed, Deduped, Begun, MessageIds, IsInjective

\* Every step of the queue is a step of the pool or leaves it alone: what is
\* proved of the pool holds of the queue.
THEOREM QueueUsesPool == Spec => PoolSpec
<1>1. Init => PoolInit
  BY DEF Init
<1>2. ASSUME [Next]_vars
      PROVE  [PoolNext]_poolVars
  <2>1. CASE UNCHANGED vars
    BY <2>1 DEF vars
  <2>2. ASSUME NEW u \in Deliveries, DeliveryStep(u)
        PROVE  UserStep(u) \/ UNCHANGED poolVars
    <3>1. KeyOf[u] \in Keys
      BY MiddlewareAssumption
    <3> QED
      BY <2>2, <3>1 DEF DeliveryStep, Arrive, Queue, GoAhead, IndicatorSent, TurnComes, Finish, UserStep
  <2>3. ASSUME NEW u \in Others, OtherStep(u)
        PROVE  UserStep(u)
    BY <2>3, MiddlewareAssumption DEF OtherStep, UserStep
  <2>4. ASSUME NEW u \in Deliveries, CancelEntry(u)
        PROVE  UNCHANGED poolVars
    BY <2>4 DEF CancelEntry
  <2>5. ASSUME NEW s \in Stops, StopStep(s)
        PROVE  UNCHANGED poolVars
    BY <2>5 DEF StopStep, Stop, DrainStarts, DrainGoesOn, DrainEnds
  <2>6. ASSUME NEW m \in MessageIds, Expire(m)
        PROVE  UNCHANGED poolVars
    BY <2>6 DEF Expire
  <2> QED
    BY <1>2, <2>1, <2>2, <2>3, <2>4, <2>5, <2>6, MiddlewareAssumption DEF Next, PoolNext, Others
<1> QED
  BY <1>1, <1>2, PTL DEF Spec, PoolSpec

\* A cancelled message is never answered.
THEOREM CancelledStays == Spec => []CancelKept
<1>1. QueueInv => CancelKept
  BY DEF QueueInv, Doomed, CancelKept
<1> QED
  BY <1>1, QueueInit, QueueStep, PTL DEF Spec

\* A message is handled once in each lifetime in the cache, however often it is
\* delivered and whenever the cache forgets it.
THEOREM AnsweredOnce == Spec => []HandledOnce
<1>1. QueueInv => HandledOnce
  BY DEF QueueInv, Deduped, Begun, HandledOnce
<1> QED
  BY <1>1, QueueInit, QueueStep, PTL DEF Spec

\* Steps of others neither take the lock away from u nor change its session.
LEMMA AtStep ==
    ASSUME Typed, QueueInv, AtTurn, [Next]_vars
    PROVE  AtTurn'
<1>1. CASE UNCHANGED vars
  BY <1>1 DEF vars, poolVars, queueVars, AtTurn
<1>2. ASSUME NEW u \in Deliveries, DeliveryStep(u)
      PROVE  AtTurn'
  <2>0. KeyOf[u] \in Keys /\ Deliveries \subseteq Users
    BY MiddlewareAssumption
  <2>1. CASE Arrive(u)
    <3>1. CASE Queue(u)
      BY <2>0, <3>1 DEF Queue, Look, Ask, Typed, QueueInv, AtTurn
    <3>2. CASE GoAhead(u)
      <4>1. /\ session' = [session EXCEPT ![u] = KeyOf[u]]
            /\ stage' = [stage EXCEPT ![u] = IF at'[u] = "inside" THEN "handling" ELSE "waiting"]
        BY <3>2 DEF GoAhead, Enter, Ask
      <4>2. \A v \in Users : v # u => at'[v] = at[v]
        BY <3>2 DEF GoAhead, Enter, Acquire, Typed
      <4> QED
        BY <2>0, <4>1, <4>2 DEF Typed, QueueInv, AtTurn
    <3>3. CASE UNCHANGED poolVars /\ stage' = [stage EXCEPT ![u] = "duplicate"]
      BY <3>3 DEF poolVars, QueueInv, AtTurn
    <3> QED
      BY <2>1, <3>1, <3>2, <3>3 DEF Arrive
  <2>2. CASE IndicatorSent(u)
    <3>1. session' = session /\ \A v \in Users : v # u => at'[v] = at[v]
      BY <2>2 DEF IndicatorSent, AcquireLooked, Acquire, Typed
    <3>2. stage[u] = "queued"
      BY <2>2 DEF IndicatorSent
    <3>3. CASE at'[u] = "inside"
      <4>1. stage' = [stage EXCEPT ![u] = IF u \in cancelled THEN "skipping" ELSE "handling"]
        BY <2>2, <3>3 DEF IndicatorSent, Begin
      <4> QED
        BY <2>0, <3>1, <3>2, <3>3, <4>1 DEF QueueInv, AtTurn
    <3>4. CASE at'[u] # "inside"
      <4>1. stage' = stage
        BY <2>2, <3>4 DEF IndicatorSent
      <4> QED
        BY <2>0, <3>1, <3>2, <3>4, <4>1 DEF QueueInv, AtTurn
    <3> QED
      BY <3>3, <3>4
  <2>3. CASE TurnComes(u)
    <3>1. /\ session' = session
          /\ \A v \in Users : at'[v] = IF v = u THEN "inside" ELSE at[v]
      BY <2>3 DEF TurnComes, Resume, Move
    <3>2. /\ stage[u] \in {"queued", "waiting"}
          /\ stage' = [stage EXCEPT ![u] = IF u \in cancelled THEN "skipping" ELSE "handling"]
      BY <2>3 DEF TurnComes, Begin
    <3> QED
      BY <2>0, <3>1, <3>2 DEF QueueInv, AtTurn
  <2>4. CASE Finish(u)
    <3>1. /\ \A v \in Users : v # u => session'[v] = session[v]
          /\ \A v \in Users : v # u /\ at[v] = "inside" => at'[v] = "inside"
      BY <2>4 DEF Finish, Release, Move, Forget, WakeFirst, Waiters, Typed
    <3>2. stage' = [stage EXCEPT ![u] = IF @ = "handling" THEN "handled" ELSE "discarded"]
      BY <2>4 DEF Finish
    <3> QED
      BY <2>0, <3>1, <3>2 DEF QueueInv, AtTurn
  <2> QED
    BY <1>2, <2>1, <2>2, <2>3, <2>4 DEF DeliveryStep
<1>3. ASSUME NEW u \in Others, OtherStep(u)
      PROVE  AtTurn'
  <2>1. u \in Users /\ u \notin Deliveries /\ Deliveries \subseteq Users
    BY MiddlewareAssumption DEF Others
  <2>2. ASSUME NEW k \in OtherKeys, Enter(u, k)
        PROVE  \A v \in Users : v # u => at'[v] = at[v] /\ session'[v] = session[v]
    BY <2>2 DEF Enter, Ask, Acquire, Typed
  <2>3. CASE Resume(u)
    BY <2>1, <2>3, <1>3 DEF Resume, Move, Typed, OtherStep, queueVars, AtTurn
  <2>4. CASE Release(u)
    <3>1. /\ \A v \in Users : v # u => session'[v] = session[v]
          /\ \A v \in Users : v # u /\ at[v] = "inside" => at'[v] = "inside"
      BY <2>4 DEF Release, Move, Forget, WakeFirst, Waiters, Typed
    <3> QED
      BY <1>3, <2>1, <3>1 DEF OtherStep, queueVars, AtTurn
  <2> QED
    BY <1>3, <2>1, <2>2, <2>3, <2>4 DEF OtherStep, queueVars, AtTurn
<1>4. CASE \/ \E u \in Deliveries : CancelEntry(u)
           \/ \E s \in Stops : StopStep(s)
           \/ \E m \in MessageIds : Expire(m)
  BY <1>4 DEF CancelEntry, Expire, StopStep, Stop, DrainStarts, DrainGoesOn, DrainEnds, poolVars, AtTurn
<1> QED
  BY <1>1, <1>2, <1>3, <1>4 DEF Next

\* "Per-chat lock ensures sequential processing": as long as the pool fits all
\* sessions, no two messages of a session are answered at the same time.
THEOREM AnswersInTurn ==
    Cardinality(Keys) <= MaxLocks /\ Spec => []HandlersExclusive
<1>1. Init => QueueInv /\ AtTurn
  BY QueueInit DEF Init, AtTurn
<1>2. LockInv /\ QueueInv /\ AtTurn /\ [Next]_vars => (QueueInv /\ AtTurn)'
  BY QueueStep, AtStep DEF LockInv
<1>3. MutualExclusion /\ AtTurn => HandlersExclusive
  <2> SUFFICES ASSUME MutualExclusion, AtTurn,
                      NEW u \in Deliveries, NEW v \in Deliveries,
                      stage[u] = "handling", stage[v] = "handling", KeyOf[u] = KeyOf[v]
               PROVE  u = v
    BY DEF HandlersExclusive
  <2>1. u \in Users /\ v \in Users /\ KeyOf[u] \in Keys
    BY MiddlewareAssumption
  <2>2. u \in Holders(KeyOf[u]) /\ v \in Holders(KeyOf[u])
    BY <2>1 DEF AtTurn, Holders
  <2> QED
    BY <2>1, <2>2 DEF MutualExclusion
<1>4. CASE Cardinality(Keys) <= MaxLocks
  <2>1. PoolSpec => []MutualExclusion
    BY <1>4, SessionsExclusive
  <2> QED
    BY <1>1, <1>2, <1>3, <2>1, LockHeldOnce, QueueUsesPool, PTL DEF Spec
<1>5. CASE ~(Cardinality(Keys) <= MaxLocks)
  BY <1>5
<1> QED
  BY <1>4, <1>5

-----------------------------------------------------------------------------
(* What a drain may miss.  While it walks the list, the entries it has     *)
(* passed are cancelled, but for those that moved up below its index: at   *)
(* most one for every entry that left the list.  New entries are none of   *)
(* those it found.                                                         *)

\* Entries that the "/stop" found, uncancelled below an index of the list.
PassedBy(s, i) ==
    {u \in queued[s] \ cancelled :
        \E j \in 1 .. Len(pending[StopChat[s]]) : j < i /\ pending[StopChat[s]][j] = u}
Passed(s) == PassedBy(s, drain[s].next)

DrainTypes ==
    /\ drain \in [Stops -> [phase : DrainPhases, next : Nat]]
    /\ left \in [Stops -> Nat]
    /\ queued \in [Stops -> SUBSET Deliveries]

\* What a "/stop" found has arrived before it.
FoundArrived == \A s \in Stops : \A u \in queued[s] : stage[u] # "unseen"

Few(s) ==
    /\ drain[s].phase = "draining" => Cardinality(Passed(s)) <= left[s]
    /\ drain[s].phase = "detached" => Missed(s) = {}
    /\ drain[s].phase = "over" => Cardinality(Missed(s)) <= left[s]

DrainInv == DrainTypes /\ FoundArrived /\ \A s \in Stops : Few(s)

\* A nonempty set of numbers has a least one.
LEMMA MinIsLeast ==
    ASSUME NEW S \in SUBSET Nat, S # {}
    PROVE  Min(S) \in S /\ \A n \in S : Min(S) <= n
<1> DEFINE Less == OpToRel(<, Nat)
<1>1. IsWellFoundedOn(Less, Nat)
  BY NatLessThanWellFounded
<1>2. \A m, n \in Nat : <<m, n>> \in Less <=> m < n
  BY DEF OpToRel
<1> HIDE DEF Less
<1>3. PICK m \in S : \A n \in S : ~(<<n, m>> \in Less)
  BY <1>1, WFMin
<1>4. m \in Nat /\ \A n \in S : n \in Nat /\ m <= n
  <2>1. m \in Nat /\ \A n \in S : n \in Nat
    OBVIOUS
  <2>2. \A n \in S : ~(n < m)
    BY <1>2, <1>3, <2>1, Zenon
  <2>3. QED
    BY <2>1, <2>2
<1>5. \E k \in S : \A n \in S : k <= n
  BY <1>3, <1>4
<1>6. QED
  BY <1>5 DEF Min

\* The entries of a chat are finitely many.
LEMMA FiniteEntries ==
    ASSUME QueueInv, NEW c \in Chats, NEW T \in SUBSET Entries(c)
    PROVE  /\ IsFiniteSet(T) /\ Cardinality(T) \in Nat
           /\ \A R \in SUBSET T : Cardinality(R) \in Nat /\ Cardinality(R) <= Cardinality(T)
<1>1. pending[c] \in Seq(Deliveries)
  BY DEF QueueInv
<1>2. IsFiniteSet(1 .. Len(pending[c]))
  BY <1>1, FS_Interval
<1>3. pending[c] \in Surjection(1 .. Len(pending[c]), Entries(c))
  BY <1>1 DEF Surjection, Entries
<1>4. IsFiniteSet(Entries(c))
  BY <1>2, <1>3, FS_Surjection DEF ExistsSurjection
<1>5. IsFiniteSet(T)
  BY <1>4, FS_Subset
<1>6. Cardinality(T) \in Nat
  BY <1>5, FS_CardinalityType
<1>7. ASSUME NEW R \in SUBSET T
      PROVE  Cardinality(R) \in Nat /\ Cardinality(R) <= Cardinality(T)
  BY <1>5, <1>7, FS_Subset, FS_CardinalityType
<1>8. QED
  BY <1>5, <1>6, <1>7

LEMMA PassedAndMissed ==
    ASSUME QueueInv, NEW s \in Stops, NEW i
    PROVE  /\ StopChat[s] \in Chats
           /\ PassedBy(s, i) \subseteq Entries(StopChat[s])
           /\ Missed(s) \subseteq Entries(StopChat[s])
  BY MiddlewareAssumption DEF PassedBy, Missed, Entries

\* What keeps the drain and lets the entries it may have missed only go.
LEMMA FewKept ==
    ASSUME QueueInv, DrainInv, NEW s \in Stops, drain'[s] = drain[s],
           left'[s] \in Nat, left[s] <= left'[s],
           drain[s].phase = "draining" => Passed(s)' \subseteq Passed(s),
           drain[s].phase \in {"detached", "over"} => Missed(s)' \subseteq Missed(s)
    PROVE  Few(s)'
<1>1. StopChat[s] \in Chats /\ left[s] \in Nat /\ Few(s)
  BY MiddlewareAssumption DEF DrainInv, DrainTypes
<1>2. Passed(s) \in SUBSET Entries(StopChat[s]) /\ Missed(s) \in SUBSET Entries(StopChat[s])
  BY PassedAndMissed DEF Passed
<1>3. CASE drain[s].phase = "draining"
  <2>1. Cardinality(Passed(s)') <= Cardinality(Passed(s))
        /\ Cardinality(Passed(s)') \in Nat /\ Cardinality(Passed(s)) \in Nat
    BY <1>1, <1>2, <1>3, FiniteEntries
  <2>2. Cardinality(Passed(s)') <= left'[s]
    BY <1>1, <1>3, <2>1 DEF Few
  <2>3. QED
    BY <1>3, <2>2 DEF Few
<1>4. CASE drain[s].phase = "detached"
  BY <1>1, <1>4 DEF Few
<1>5. CASE drain[s].phase = "over"
  <2>1. Cardinality(Missed(s)') <= Cardinality(Missed(s))
        /\ Cardinality(Missed(s)') \in Nat /\ Cardinality(Missed(s)) \in Nat
    BY <1>1, <1>2, <1>5, FiniteEntries
  <2>2. Cardinality(Missed(s)') <= left'[s]
    BY <1>1, <1>5, <2>1 DEF Few
  <2>3. QED
    BY <1>5, <2>2 DEF Few
<1>6. QED
  BY <1>3, <1>4, <1>5 DEF Few

\* An entry leaves the list: at most one other moves up below the index of a drain.
LEMMA RemovalKeepsFew ==
    ASSUME QueueInv, DrainInv, NEW u \in Deliveries, RemoveEntry(u), UNCHANGED <<cancelled, queued>>
    PROVE  /\ drain' \in [Stops -> [phase : DrainPhases, next : Nat]] /\ left' \in [Stops -> Nat]
           /\ \A s \in Stops : Few(s)'
<1> DEFINE list == pending[Chat(u)]
<1>1. PICK short : short = RemoveFirst(list, u)
  OBVIOUS
<1>2. Chat(u) \in Chats /\ list \in Seq(Deliveries) /\ IsInjective(list)
  BY MiddlewareAssumption DEF Chat, QueueInv, Lists
<1>3. /\ short \in Seq(Deliveries)
      /\ \A j \in 1 .. Len(short) :
            \E k \in 1 .. Len(list) : k \in {j, j + 1} /\ short[j] = list[k]
  BY <1>1, <1>2, Removed
<1>4. /\ pending' = [pending EXCEPT ![Chat(u)] = short]
      /\ drain' = [s \in Stops |->
             IF StopChat[s] = Chat(u) /\ drain[s].phase = "draining" /\ short = <<>>
             THEN [drain[s] EXCEPT !.phase = "detached"] ELSE drain[s]]
      /\ left' = [s \in Stops |->
             IF StopChat[s] = Chat(u) /\ drain[s].phase = "draining" THEN left[s] + 1 ELSE left[s]]
  BY <1>1 DEF RemoveEntry
<1> HIDE DEF list
<1>5. drain' \in [Stops -> [phase : DrainPhases, next : Nat]] /\ left' \in [Stops -> Nat]
  <2>1. drain \in [Stops -> [phase : DrainPhases, next : Nat]] /\ left \in [Stops -> Nat]
    BY DEF DrainInv, DrainTypes
  <2>2. ASSUME NEW s \in Stops
        PROVE  [drain[s] EXCEPT !.phase = "detached"] \in [phase : DrainPhases, next : Nat]
    BY <2>1 DEF DrainPhases
  <2>3. drain' \in [Stops -> [phase : DrainPhases, next : Nat]]
    BY <1>4, <2>1, <2>2
  <2>4. left' \in [Stops -> Nat]
    BY <1>4, <2>1
  <2>5. QED
    BY <2>3, <2>4
<1>6. ASSUME NEW s \in Stops
      PROVE  Few(s)'
  <2>0. /\ StopChat[s] \in Chats /\ left[s] \in Nat /\ drain[s].next \in Nat /\ Few(s)
        /\ pending \in [Chats -> Seq(Deliveries)]
    BY MiddlewareAssumption DEF DrainInv, DrainTypes, QueueInv
  <2>1. CASE StopChat[s] # Chat(u)
    <3>1. drain'[s] = drain[s] /\ left'[s] = left[s] /\ pending'[StopChat[s]] = pending[StopChat[s]]
      BY <1>4, <2>0, <2>1
    <3>2. Passed(s)' = Passed(s) /\ Missed(s)' = Missed(s)
      BY <3>1 DEF Passed, PassedBy, Missed, Entries
    <3>3. QED
      BY <2>0, <3>1, <3>2, FewKept
  <2>2. CASE StopChat[s] = Chat(u) /\ drain[s].phase # "draining"
    <3>1. drain'[s] = drain[s] /\ left'[s] = left[s] /\ pending'[StopChat[s]] = short
      BY <1>2, <1>4, <2>0, <2>2
    <3>2. Missed(s)' \subseteq Missed(s)
      BY <1>3, <2>2, <3>1 DEF Missed, Entries, list
    <3>3. QED
      BY <2>0, <2>2, <3>1, <3>2, FewKept
  <2>3. CASE StopChat[s] = Chat(u) /\ drain[s].phase = "draining" /\ short = <<>>
    <3>1. drain'[s].phase = "detached" /\ pending'[StopChat[s]] = <<>>
      BY <1>4, <2>0, <2>3 DEF DrainInv, DrainTypes
    <3>2. Missed(s)' = {}
      BY <3>1 DEF Missed, Entries
    <3>3. QED
      BY <3>1, <3>2 DEF Few
  <2>4. CASE StopChat[s] = Chat(u) /\ drain[s].phase = "draining" /\ short # <<>>
    <3>1. drain'[s] = drain[s] /\ left'[s] = left[s] + 1 /\ pending'[StopChat[s]] = short
      BY <1>2, <1>4, <2>0, <2>4
    <3> DEFINE n == drain[s].next
    <3>2. \E x : Passed(s)' \subseteq Passed(s) \cup {x}
      <4>1. PICK x : x = list[n]
        OBVIOUS
      <4>2. ASSUME NEW v \in Passed(s)'
            PROVE  v \in Passed(s) \cup {x}
        <5>1. v \in queued[s] \ cancelled
          BY <4>2 DEF Passed, PassedBy
        <5>2. PICK j \in 1 .. Len(short) : j < n /\ short[j] = v
          BY <3>1, <4>2 DEF Passed, PassedBy
        <5>3. PICK k \in 1 .. Len(list) : k \in {j, j + 1} /\ v = list[k]
          BY <1>3, <5>2
        <5>4. k < n \/ k = n
          BY <2>0, <5>2, <5>3
        <5>5. QED
          BY <2>4, <4>1, <5>1, <5>3, <5>4 DEF Passed, PassedBy, list
      <4>3. QED
        BY <4>2
    <3>3. PICK x : Passed(s)' \subseteq Passed(s) \cup {x}
      BY <3>2
    <3>4. IsFiniteSet(Passed(s)) /\ Cardinality(Passed(s)) \in Nat
      BY <2>0, PassedAndMissed, FiniteEntries DEF Passed
    <3>5. /\ IsFiniteSet(Passed(s) \cup {x})
          /\ Cardinality(Passed(s) \cup {x}) \in Nat
          /\ Cardinality(Passed(s) \cup {x}) <= Cardinality(Passed(s)) + 1
      <4>1. PICK P : P = Passed(s)
        OBVIOUS
      <4>2. /\ IsFiniteSet(P \cup {x})
            /\ Cardinality(P \cup {x}) = IF x \in P THEN Cardinality(P) ELSE Cardinality(P) + 1
        BY <3>4, <4>1, FS_AddElement
      <4>3. QED
        BY <3>4, <4>1, <4>2
    <3>6. Cardinality(Passed(s)') \in Nat /\ Cardinality(Passed(s)') <= Cardinality(Passed(s) \cup {x})
      BY <3>3, <3>5, FS_Subset, FS_CardinalityType
    <3>7. Cardinality(Passed(s)) <= left[s]
      BY <2>0, <2>4 DEF Few
    <3>8. Cardinality(Passed(s)') <= left'[s]
      BY <2>0, <3>1, <3>4, <3>5, <3>6, <3>7
    <3>9. QED
      BY <2>4, <3>1, <3>8 DEF Few
  <2>5. QED
    BY <2>1, <2>2, <2>3, <2>4
<1>7. QED
  BY <1>5, <1>6

\* A stretch of the drain: what it walks over is cancelled.
LEMMA DrainFromKeepsFew ==
    ASSUME QueueInv, DrainInv, NEW s \in Stops, NEW i \in Nat, DrainFrom(s, i),
           UNCHANGED <<pending, queued, left>>,
           Cardinality(PassedBy(s, i)) <= left[s]
    PROVE  /\ drain' \in [Stops -> [phase : DrainPhases, next : Nat]]
           /\ \A t \in Stops : Few(t)'
<1> DEFINE list  == pending[StopChat[s]]
           fresh == {j \in 1 .. Len(list) : j >= i /\ list[j] \notin cancelled}
           edits == {j \in fresh : list[j] \in shown}
<1>1. PICK last : last = IF edits = {} THEN Len(list) ELSE Min(edits)
  OBVIOUS
<1>2. PICK to : to = [phase |-> IF edits = {} THEN "over" ELSE "draining", next |-> last + 1]
  OBVIOUS
<1>3. /\ cancelled' = cancelled \cup {list[j] : j \in {j \in fresh : j <= last}}
      /\ drain' = [drain EXCEPT ![s] = to]
  BY <1>1, <1>2 DEF DrainFrom
<1>4. StopChat[s] \in Chats /\ list \in Seq(Deliveries) /\ Len(list) \in Nat
  BY MiddlewareAssumption DEF QueueInv
<1>5. last \in Nat
  <2>1. CASE edits = {}
    BY <1>1, <1>4, <2>1
  <2>2. CASE edits # {}
    <3>1. edits \in SUBSET Nat
      BY <1>4
    <3> HIDE DEF edits
    <3>2. Min(edits) \in edits
      BY <2>2, <3>1, MinIsLeast
    <3>3. QED
      BY <1>1, <2>2, <3>1, <3>2
  <2>3. QED
    BY <2>1, <2>2
<1>6. drain' \in [Stops -> [phase : DrainPhases, next : Nat]]
  <2>1. to \in [phase : DrainPhases, next : Nat]
    BY <1>2, <1>5 DEF DrainPhases
  <2>2. QED
    BY <1>3, <2>1 DEF DrainInv, DrainTypes
<1>7. ASSUME NEW t \in Stops, t # s
      PROVE  Few(t)'
  <2>1. drain'[t] = drain[t] /\ left'[t] = left[t] /\ left[t] \in Nat /\ cancelled \subseteq cancelled'
    BY <1>3, <1>7 DEF DrainInv, DrainTypes
  <2>2. Passed(t)' \subseteq Passed(t) /\ Missed(t)' \subseteq Missed(t)
    BY <2>1 DEF Passed, PassedBy, Missed, Entries
  <2>3. QED
    BY <2>1, <2>2, FewKept
<1>8. Few(s)'
  <2>1. drain'[s] = to /\ left'[s] = left[s] /\ left[s] \in Nat
    BY <1>3 DEF DrainInv, DrainTypes
  <2>2. \A u : u \notin cancelled' /\ (\E j \in 1 .. Len(list) : j <= last /\ list[j] = u)
            => u \notin cancelled /\ \E j \in 1 .. Len(list) : j < i /\ list[j] = u
    <3> SUFFICES ASSUME NEW j \in 1 .. Len(list), j <= last, list[j] \notin cancelled'
                 PROVE  list[j] \notin cancelled /\ j < i
      OBVIOUS
    <3>1. list[j] \notin cancelled /\ j \notin fresh
      BY <1>3
    <3>2. QED
      BY <1>4, <3>1
  <2>3. Passed(s)' \subseteq PassedBy(s, i)
    <3> SUFFICES ASSUME NEW u \in Passed(s)'
                 PROVE  u \in PassedBy(s, i)
      OBVIOUS
    <3>1. u \in queued[s] /\ u \notin cancelled'
      BY DEF Passed, PassedBy
    <3>2. \E j \in 1 .. Len(list) : j < last + 1 /\ list[j] = u
      BY <1>2, <2>1 DEF Passed, PassedBy
    <3>3. \E j \in 1 .. Len(list) : j <= last /\ list[j] = u
      BY <1>4, <1>5, <3>2
    <3>4. QED
      BY <2>2, <3>1, <3>3 DEF PassedBy
  <2>4. edits = {} => Missed(s)' \subseteq PassedBy(s, i)
    <3> SUFFICES ASSUME edits = {}, NEW u \in Missed(s)'
                 PROVE  u \in PassedBy(s, i)
      OBVIOUS
    <3>1. u \in queued[s] /\ u \notin cancelled' /\ \E j \in 1 .. Len(list) : list[j] = u
      BY DEF Missed, Entries
    <3>2. \E j \in 1 .. Len(list) : j <= last /\ list[j] = u
      BY <1>1, <1>4, <3>1
    <3>3. QED
      BY <2>2, <3>1, <3>2 DEF PassedBy
  <2>5. \A R \in SUBSET PassedBy(s, i) : Cardinality(R) <= left[s]
    <3>1. PassedBy(s, i) \in SUBSET Entries(StopChat[s])
      BY PassedAndMissed
    <3>2. Cardinality(PassedBy(s, i)) \in Nat
          /\ \A R \in SUBSET PassedBy(s, i) :
                Cardinality(R) \in Nat /\ Cardinality(R) <= Cardinality(PassedBy(s, i))
      BY <1>4, <3>1, FiniteEntries
    <3>3. QED
      BY <2>1, <3>2
  <2>6. CASE edits = {}
    <3>1. drain'[s].phase = "over"
      BY <1>2, <2>1, <2>6
    <3>2. Cardinality(Missed(s)') <= left'[s]
      BY <2>1, <2>4, <2>5, <2>6
    <3>3. QED
      BY <3>1, <3>2 DEF Few
  <2>7. CASE edits # {}
    <3>1. drain'[s].phase = "draining"
      BY <1>2, <2>1, <2>7
    <3>2. Cardinality(Passed(s)') <= left'[s]
      BY <2>1, <2>3, <2>5
    <3>3. QED
      BY <3>1, <3>2 DEF Few
  <2>8. QED
    BY <2>6, <2>7
<1>9. QED
  BY <1>6, <1>7, <1>8

\* A step that leaves the lists and the drains alone.
LEMMA QuietKeepsDrain ==
    ASSUME QueueInv, DrainInv, UNCHANGED <<pending, drain, queued, left>>, cancelled \subseteq cancelled',
           \A u \in Deliveries : stage[u] # "unseen" => stage'[u] # "unseen"
    PROVE  DrainInv'
<1>1. DrainTypes' /\ FoundArrived'
  BY DEF DrainInv, DrainTypes, FoundArrived
<1>2. ASSUME NEW s \in Stops
      PROVE  Few(s)'
  <2>1. Passed(s)' \subseteq Passed(s) /\ Missed(s)' \subseteq Missed(s)
    BY DEF Passed, PassedBy, Missed, Entries
  <2>2. left'[s] \in Nat /\ left[s] <= left'[s] /\ drain'[s] = drain[s]
    BY DEF DrainInv, DrainTypes
  <2>3. QED
    BY <2>1, <2>2, FewKept
<1>3. QED
  BY <1>1, <1>2 DEF DrainInv

LEMMA QueueKeepsDrain ==
    ASSUME QueueInv, DrainInv, NEW u \in Deliveries, stage[u] = "unseen", Queue(u),
           UNCHANGED <<cancelled, drain, queued, left>>
    PROVE  DrainInv'
<1>1. /\ pending' = [pending EXCEPT ![Chat(u)] = Append(pending[Chat(u)], u)]
      /\ stage' = [stage EXCEPT ![u] = "queued"]
  BY DEF Queue
<1>2. DrainTypes' /\ FoundArrived'
  BY <1>1 DEF DrainInv, DrainTypes, FoundArrived, QueueInv
<1>3. ASSUME NEW s \in Stops
      PROVE  Few(s)'
  <2> DEFINE list == pending[StopChat[s]]
  <2>1. StopChat[s] \in Chats /\ list \in Seq(Deliveries) /\ u \notin queued[s]
    BY MiddlewareAssumption DEF QueueInv, DrainInv, FoundArrived
  <2>2. PICK longer : longer = pending'[StopChat[s]]
    OBVIOUS
  <2>3. longer = list \/ longer = Append(list, u)
    BY <1>1, <2>1, <2>2 DEF QueueInv
  <2>4. \A j \in 1 .. Len(longer) : longer[j] # u => j \in 1 .. Len(list) /\ longer[j] = list[j]
    BY <2>1, <2>3
  <2> HIDE DEF list
  <2>5. Passed(s)' \subseteq Passed(s)
    <3> SUFFICES ASSUME NEW v \in Passed(s)'
                 PROVE  v \in Passed(s)
      OBVIOUS
    <3>1. v \in queued[s] \ cancelled /\ v # u
      BY <2>1 DEF Passed, PassedBy
    <3>2. PICK j \in 1 .. Len(longer) : j < drain[s].next /\ longer[j] = v
      BY <2>2 DEF Passed, PassedBy
    <3>3. QED
      BY <2>4, <3>1, <3>2 DEF Passed, PassedBy, list
  <2>6. Missed(s)' \subseteq Missed(s)
    <3> SUFFICES ASSUME NEW v \in Missed(s)'
                 PROVE  v \in Missed(s)
      OBVIOUS
    <3>1. v \in queued[s] \ cancelled /\ v # u
      BY <2>1 DEF Missed
    <3>2. PICK j \in 1 .. Len(longer) : longer[j] = v
      BY <2>2 DEF Missed, Entries
    <3>3. QED
      BY <2>4, <3>1, <3>2 DEF Missed, Entries, list
  <2>7. left'[s] \in Nat /\ left[s] <= left'[s] /\ drain'[s] = drain[s]
    BY DEF DrainInv, DrainTypes
  <2>8. QED
    BY <2>5, <2>6, <2>7, FewKept
<1>4. QED
  BY <1>2, <1>3 DEF DrainInv

LEMMA BeginKeepsDrain ==
    ASSUME QueueInv, DrainInv, NEW u \in Deliveries, Begin(u), UNCHANGED <<cancelled, queued>>
    PROVE  DrainInv'
<1>1. stage' = [stage EXCEPT ![u] = IF u \in cancelled THEN "skipping" ELSE "handling"]
  BY DEF Begin
<1>2. \A v \in Deliveries : stage[v] # "unseen" => stage'[v] # "unseen"
  BY <1>1 DEF QueueInv
<1>3. CASE stage[u] = "queued"
  <2>1. RemoveEntry(u)
    BY <1>3 DEF Begin
  <2>2. FoundArrived' /\ queued' \in [Stops -> SUBSET Deliveries]
    BY <1>2 DEF DrainInv, DrainTypes, FoundArrived
  <2>3. QED
    BY <2>1, <2>2, RemovalKeepsFew DEF DrainInv, DrainTypes
<1>4. CASE stage[u] # "queued"
  BY <1>2, <1>4, QuietKeepsDrain DEF Begin
<1>5. QED
  BY <1>3, <1>4

LEMMA StopStepKeepsDrain ==
    ASSUME QueueInv, DrainInv, NEW s \in Stops, StopStep(s)
    PROVE  DrainInv'
<1>1. CASE Stop(s)
  <2>1. /\ drain[s].phase = "unsent"
        /\ drain' = [drain EXCEPT ![s].phase = "aborting"]
        /\ queued' = [queued EXCEPT ![s] = Entries(StopChat[s])]
        /\ UNCHANGED <<pending, cancelled, stage, left>>
    BY <1>1 DEF Stop
  <2>2. Entries(StopChat[s]) \subseteq Deliveries
        /\ \A u \in Entries(StopChat[s]) : stage[u] = "queued"
    <3>1. StopChat[s] \in Chats
      BY MiddlewareAssumption
    <3>2. QED
      BY <3>1 DEF Entries, QueueInv, Lists
  <2>3. DrainTypes'
    <3>1. /\ drain[s] \in [phase : DrainPhases, next : Nat]
          /\ drain' = [drain EXCEPT ![s] = [drain[s] EXCEPT !.phase = "aborting"]]
      BY <2>1 DEF DrainInv, DrainTypes
    <3>2. [drain[s] EXCEPT !.phase = "aborting"] \in [phase : DrainPhases, next : Nat]
      BY <3>1 DEF DrainPhases
    <3>3. QED
      BY <2>1, <2>2, <3>1, <3>2 DEF DrainInv, DrainTypes
  <2>4. FoundArrived'
    BY <2>1, <2>2 DEF DrainInv, DrainTypes, FoundArrived
  <2>5. Few(s)'
    <3>1. drain'[s].phase = "aborting"
      BY <2>1 DEF DrainInv, DrainTypes
    <3>2. QED
      BY <3>1 DEF Few
  <2>6. ASSUME NEW t \in Stops, t # s
        PROVE  Few(t)'
    <3>1. drain'[t] = drain[t] /\ queued'[t] = queued[t] /\ left'[t] \in Nat /\ left[t] <= left'[t]
      BY <2>1, <2>6 DEF DrainInv, DrainTypes
    <3>2. Passed(t)' \subseteq Passed(t) /\ Missed(t)' \subseteq Missed(t)
      BY <2>1, <3>1 DEF Passed, PassedBy, Missed, Entries
    <3>3. QED
      BY <3>1, <3>2, FewKept
  <2>7. QED
    BY <2>3, <2>4, <2>5, <2>6 DEF DrainInv
<1>2. ASSUME NEW i \in Nat, DrainFrom(s, i), UNCHANGED <<pending, stage, queued, left>>,
             Cardinality(PassedBy(s, i)) <= left[s]
      PROVE  DrainInv'
  BY <1>2, DrainFromKeepsFew DEF DrainInv, DrainTypes, FoundArrived
<1>3. CASE DrainStarts(s)
  <2>1. PassedBy(s, 1) = {}
    BY MiddlewareAssumption DEF PassedBy, QueueInv
  <2>2. Cardinality(PassedBy(s, 1)) <= left[s]
    <3>1. Cardinality(PassedBy(s, 1)) = 0
      BY <2>1, FS_EmptySet, Zenon
    <3>2. left[s] \in Nat
      BY DEF DrainInv, DrainTypes
    <3>3. QED
      BY <3>1, <3>2
  <2>3. QED
    BY <1>2, <1>3, <2>2 DEF DrainStarts
<1>4. CASE DrainGoesOn(s)
  <2>1. drain[s].next \in Nat /\ Cardinality(PassedBy(s, drain[s].next)) <= left[s]
    BY <1>4 DEF DrainGoesOn, DrainInv, DrainTypes, Few, Passed
  <2>2. QED
    BY <1>2, <1>4, <2>1 DEF DrainGoesOn
<1>5. CASE DrainEnds(s)
  <2>1. /\ drain[s].phase = "detached" /\ drain' = [drain EXCEPT ![s].phase = "over"]
        /\ UNCHANGED <<pending, cancelled, stage, queued, left>>
    BY <1>5 DEF DrainEnds
  <2>2. DrainTypes' /\ FoundArrived'
    <3>1. /\ drain[s] \in [phase : DrainPhases, next : Nat]
          /\ drain' = [drain EXCEPT ![s] = [drain[s] EXCEPT !.phase = "over"]]
      BY <2>1 DEF DrainInv, DrainTypes
    <3>2. [drain[s] EXCEPT !.phase = "over"] \in [phase : DrainPhases, next : Nat]
      BY <3>1 DEF DrainPhases
    <3>3. QED
      BY <2>1, <3>1, <3>2 DEF DrainInv, DrainTypes, FoundArrived
  <2>3. Few(s)'
    <3>1. drain'[s].phase = "over" /\ left'[s] \in Nat
      BY <2>1 DEF DrainInv, DrainTypes
    <3>2. Missed(s)' = {}
      BY <2>1 DEF Missed, Entries, DrainInv, Few
    <3>3. Cardinality(Missed(s)') <= left'[s]
      BY <3>1, <3>2, FS_EmptySet
    <3>4. QED
      BY <3>1, <3>3 DEF Few
  <2>4. ASSUME NEW t \in Stops, t # s
        PROVE  Few(t)'
    <3>1. drain'[t] = drain[t] /\ left'[t] \in Nat /\ left[t] <= left'[t]
      BY <2>1, <2>4 DEF DrainInv, DrainTypes
    <3>2. Passed(t)' \subseteq Passed(t) /\ Missed(t)' \subseteq Missed(t)
      BY <2>1, <3>1 DEF Passed, PassedBy, Missed, Entries
    <3>3. QED
      BY <3>1, <3>2, FewKept
  <2>5. QED
    BY <2>2, <2>3, <2>4 DEF DrainInv
<1>6. QED
  BY <1>1, <1>3, <1>4, <1>5 DEF StopStep

LEMMA DrainStep ==
    ASSUME QueueInv, DrainInv, [Next]_vars
    PROVE  DrainInv'
<1>1. CASE UNCHANGED vars
  BY <1>1, QuietKeepsDrain DEF vars, queueVars
<1>2. ASSUME NEW u \in Deliveries, DeliveryStep(u)
      PROVE  DrainInv'
  <2>1. CASE Arrive(u)
    <3>1. CASE Queue(u)
      BY <2>1, <3>1, QueueKeepsDrain DEF Arrive
    <3>2. CASE ~Queue(u)
      <4>1. /\ pending' = pending /\ UNCHANGED <<cancelled, drain, queued, left>>
            /\ \E mark \in {"duplicate", "waiting", "handling"} : stage' = [stage EXCEPT ![u] = mark]
        BY <2>1, <3>2 DEF Arrive, GoAhead
      <4>2. \A v \in Deliveries : stage[v] # "unseen" => stage'[v] # "unseen"
        BY <4>1 DEF QueueInv
      <4>3. QED
        BY <4>1, <4>2, QuietKeepsDrain
    <3>3. QED
      BY <3>1, <3>2
  <2>2. CASE IndicatorSent(u)
    <3>1. CASE at'[u] = "inside"
      BY <2>2, <3>1, BeginKeepsDrain DEF IndicatorSent
    <3>2. CASE at'[u] # "inside"
      BY <2>2, <3>2, QuietKeepsDrain DEF IndicatorSent
    <3>3. QED
      BY <3>1, <3>2
  <2>3. CASE TurnComes(u)
    BY <2>3, BeginKeepsDrain DEF TurnComes
  <2>4. CASE Finish(u)
    <3>1. \A v \in Deliveries : stage[v] # "unseen" => stage'[v] # "unseen"
      BY <2>4 DEF Finish, QueueInv
    <3>2. QED
      BY <2>4, <3>1, QuietKeepsDrain DEF Finish
  <2>5. QED
    BY <1>2, <2>1, <2>2, <2>3, <2>4 DEF DeliveryStep
<1>3. ASSUME NEW u \in Deliveries, CancelEntry(u)
      PROVE  DrainInv'
  BY <1>3, QuietKeepsDrain DEF CancelEntry
<1>4. ASSUME NEW s \in Stops, StopStep(s)
      PROVE  DrainInv'
  BY <1>4, StopStepKeepsDrain
<1>5. ASSUME NEW u \in Others, OtherStep(u)
      PROVE  DrainInv'
  BY <1>5, QuietKeepsDrain DEF OtherStep, queueVars
<1>6. ASSUME NEW m \in MessageIds, Expire(m)
      PROVE  DrainInv'
  BY <1>6, QuietKeepsDrain DEF Expire
<1>7. QED
  BY <1>1, <1>2, <1>3, <1>4, <1>5, <1>6 DEF Next

LEMMA DrainInit == Init => DrainInv
  BY DEF Init, DrainInv, DrainTypes, DrainPhases, FoundArrived, Few

\* What a "/stop" found and its drain left waiting is never more than the entries
\* that left the list while it walked, however many drains and buttons race.
THEOREM DrainMisses == Spec => []DrainMissesFew
<1>1. DrainInv => DrainMissesFew
  BY DEF DrainInv, Few, DrainMissesFew
<1>2. QED
  BY <1>1, QueueInit, QueueStep, DrainInit, DrainStep, PTL DEF Spec

-----------------------------------------------------------------------------
(* The pool implements TurnQueue.  Standing in line is to wait with a chance *)
(* or to be inside; who was cancelled stands no more, although it is still   *)
(* in the deque of the lock object.                                          *)

InLine(u) == at[u] \in {"waiting", "woken"}

\* A step of u leaves the others where they stand, or wakes one of them.
OthersStay(u) ==
    \A v \in Users \ {u} :
        /\ session'[v] = session[v]
        /\ InLine(v)' <=> InLine(v)
        /\ at'[v] = "inside" <=> at[v] = "inside"
        /\ ahead'[v] \in {ahead[v], ahead[v] \ {u}}

\* u is not seen in the line, before the step or after it.
LEMMA NotInLine ==
    ASSUME NEW u \in Users, OthersStay(u),
           ~InLine(u), at[u] # "inside", ~InLine(u)', at'[u] # "inside"
    PROVE  UNCHANGED Turns!turnVars
<1>1. ASSUME NEW k \in Keys
      PROVE  Standing(k)' = Standing(k) /\ Holders(k)' = Holders(k)
  BY DEF Standing, Holders, OthersStay, InLine
<1>2. ASSUME NEW v \in Users
      PROVE  InFront(v)' = InFront(v)
  BY DEF InFront, Standing, OthersStay, InLine
<1>3. QED
  BY <1>1, <1>2 DEF Turns!turnVars

LEMMA JoinsLine ==
    ASSUME Typed, NEW u \in Users, NEW k \in Keys, OthersStay(u),
           ~InLine(u), at[u] # "inside", session'[u] = k,
           \A v \in Users \ {u} : u \notin ahead'[v],
           \/ InLine(u)' /\ ahead'[u] \cap Standing(k) = {w \in Standing(k) : at[w] # "inside"}
                         /\ u \notin ahead'[u]
           \/ at'[u] = "inside" /\ Standing(k) = {}
    PROVE  Turns!Join(u, k)
<1>1. \A j \in Keys : u \notin Standing(j)
  BY DEF Standing, InLine
<1>2. \A j \in Keys : Standing(j)' = IF j = k THEN Standing(j) \cup {u} ELSE Standing(j)
  BY DEF Standing, OthersStay, InLine
<1>3. ASSUME NEW v \in Users, v # u
      PROVE  InFront(v)' = InFront(v)
  <2>1. at'[u] = "inside" => ~(InLine(v) /\ session[v] = k)
    BY <1>3 DEF Standing, InLine
  <2>2. session'[v] = session[v] /\ (InLine(v)' <=> InLine(v)) /\ u \notin ahead'[v]
    BY <1>3 DEF OthersStay
  <2>3. ASSUME InLine(v), NEW w \in Users
        PROVE  w \in InFront(v)' <=> w \in InFront(v)
    <3>1. CASE w = u
      BY <2>1, <2>2, <2>3, <3>1 DEF InFront, Standing, InLine
    <3>2. CASE w # u
      BY <1>3, <2>2, <2>3, <3>2 DEF InFront, Standing, InLine, OthersStay
    <3>3. QED
      BY <3>1, <3>2
  <2>4. CASE InLine(v)
    <3>1. InFront(v) \subseteq Users /\ InFront(v)' \subseteq Users
      BY DEF InFront, Standing
    <3>2. QED
      BY <2>3, <2>4, <3>1
  <2>5. CASE ~InLine(v)
    BY <2>2, <2>5 DEF InFront, InLine
  <2>6. QED
    BY <2>4, <2>5
<1>4. InFront(u)' = Standing(k)
  <2>1. CASE at'[u] = "inside" /\ Standing(k) = {}
    BY <2>1 DEF InFront
  <2>2. CASE InLine(u)' /\ ahead'[u] \cap Standing(k) = {w \in Standing(k) : at[w] # "inside"}
                        /\ u \notin ahead'[u]
    <3>1. InFront(u)' = {w \in Standing(k)' : w \in ahead'[u] \/ at'[w] = "inside"}
      BY <2>2 DEF InFront, InLine
    <3>2. u \notin InFront(u)'
      BY <2>2, <3>1 DEF InLine
    <3>3. \A w \in Users \ {u} : w \in InFront(u)' <=> w \in Standing(k)
      BY <1>2, <2>2, <3>1 DEF OthersStay
    <3>4. u \notin Standing(k) /\ Standing(k) \subseteq Users /\ InFront(u)' \subseteq Users
      BY <1>1, <3>1 DEF Standing
    <3>5. \A w : w \in InFront(u)' <=> w \in Standing(k)
      BY <3>2, <3>3, <3>4
    <3>6. QED
      BY <3>5
  <2>3. QED
    BY <2>1, <2>2
<1>5. \/ \A j \in Keys : Holders(j)' = Holders(j)
      \/ Standing(k) = {} /\ \A j \in Keys : Holders(j)' = IF j = k THEN {u} ELSE Holders(j)
  <2>1. CASE InLine(u)'
    BY <2>1 DEF Holders, OthersStay, InLine
  <2>2. CASE at'[u] = "inside" /\ Standing(k) = {}
    <3>1. Holders(k) = {}
      BY <2>2 DEF Holders, Standing
    <3>2. \A j \in Keys : Holders(j)' = IF j = k THEN {u} ELSE Holders(j)
      BY <2>2, <3>1 DEF Holders, OthersStay
    <3>3. QED
      BY <2>2, <3>2
  <2>3. QED
    BY <2>1, <2>2
<1>6. QED
  BY <1>1, <1>2, <1>3, <1>4, <1>5 DEF Turns!Join

LEMMA IsServed ==
    ASSUME Typed, NEW u \in Users, OthersStay(u),
           at[u] = "woken", at'[u] = "inside", session'[u] = session[u],
           ahead[u] = {}, Holders(session[u]) = {},
           \A v \in Users \ {u} : InLine(v) /\ session[v] = session[u] => u \in ahead[v]
    PROVE  \E k \in Keys : Turns!Serve(u, k)
<1> DEFINE k == session[u]
<1>0. k \in Keys
  BY DEF Typed
<1>1. u \in Standing(k) /\ InFront(u) = {}
  BY <1>0 DEF Standing, InFront, Holders
<1>2. \A j \in Keys : Standing(j)' = Standing(j)
  BY DEF Standing, OthersStay, InLine
<1>3. ASSUME NEW v \in Users, v # u
      PROVE  InFront(v)' = InFront(v)
  <2>1. session'[v] = session[v] /\ (InLine(v)' <=> InLine(v))
    BY <1>3 DEF OthersStay
  <2>2. ASSUME InLine(v), NEW w \in Users
        PROVE  w \in InFront(v)' <=> w \in InFront(v)
    <3>1. CASE w = u
      BY <1>3, <2>1, <2>2, <3>1 DEF InFront, Standing, InLine
    <3>2. CASE w # u
      BY <1>3, <2>1, <2>2, <3>2 DEF InFront, Standing, InLine, OthersStay
    <3>3. QED
      BY <3>1, <3>2
  <2>3. CASE InLine(v)
    <3>1. InFront(v) \subseteq Users /\ InFront(v)' \subseteq Users
      BY DEF InFront, Standing
    <3>2. QED
      BY <2>2, <2>3, <3>1
  <2>4. CASE ~InLine(v)
    BY <2>1, <2>4 DEF InFront, InLine
  <2>5. QED
    BY <2>3, <2>4
<1>4. InFront(u)' = {}
  BY DEF InFront
<1>5. \A j \in Keys : Holders(j)' = IF j = k THEN {u} ELSE Holders(j)
  BY <1>0 DEF Holders, OthersStay
<1> HIDE DEF k
<1>6. Holders(k) = {}
  BY DEF k
<1>7. Turns!Serve(u, k)
  BY <1>0, <1>1, <1>2, <1>3, <1>4, <1>5, <1>6 DEF Turns!Serve
<1>8. QED
  BY <1>0, <1>7

LEMMA LeavesLine ==
    ASSUME Typed, NEW u \in Users, OthersStay(u),
           InLine(u) \/ at[u] = "inside", ~InLine(u)', at'[u] # "inside"
    PROVE  \E k \in Keys : Turns!Leave(u, k)
<1> DEFINE k == session[u]
<1>0. k \in Keys /\ u \in Standing(k)
  BY DEF Typed, InLine, Standing
<1>1. ASSUME NEW j \in Keys
      PROVE  /\ Standing(j)' = IF j = k THEN Standing(j) \ {u} ELSE Standing(j)
             /\ Holders(j)' = IF j = k THEN Holders(j) \ {u} ELSE Holders(j)
  BY DEF Standing, Holders, OthersStay, InLine
<1>2. ASSUME NEW v \in Users, v # u
      PROVE  InFront(v)' = InFront(v) \ {u}
  <2>1. session'[v] = session[v] /\ (InLine(v)' <=> InLine(v))
    BY <1>2 DEF OthersStay
  <2>2. ASSUME InLine(v), NEW w \in Users
        PROVE  w \in InFront(v)' <=> w \in InFront(v) \ {u}
    <3>1. CASE w = u
      BY <2>1, <2>2, <3>1 DEF InFront, Standing, InLine
    <3>2. CASE w # u
      BY <1>2, <2>1, <2>2, <3>2 DEF InFront, Standing, InLine, OthersStay
    <3>3. QED
      BY <3>1, <3>2
  <2>3. CASE InLine(v)
    <3>1. InFront(v) \subseteq Users /\ InFront(v)' \subseteq Users
      BY DEF InFront, Standing
    <3>2. QED
      BY <2>2, <2>3, <3>1
  <2>4. CASE ~InLine(v)
    BY <2>1, <2>4 DEF InFront, InLine
  <2>5. QED
    BY <2>3, <2>4
<1>3. InFront(u)' = {}
  BY DEF InFront, InLine
<1> HIDE DEF k
<1>4. Turns!Leave(u, k)
  BY <1>0, <1>1, <1>2, <1>3 DEF Turns!Leave, Turns!Behind
<1>5. QED
  BY <1>0, <1>4

\* Calling acquire joins the line, and is served at once if nobody stands in it.
LEMMA AcquireJoins ==
    ASSUME LockInv, Own', NEW u \in Users, NEW k \in Keys, NEW l \in Locks,
           at[u] \in {"idle", "looking"}, Acquire(u, l),
           ref'[u] = l, session'[u] = k,
           \A v \in Users \ {u} : ref'[v] = ref[v] /\ session'[v] = session[v]
    PROVE  Turns!Join(u, k)
<1> USE DEF LockInv, Deque, Typed
<1>1. u \notin Waiters(l) /\ \A v \in Users : u \notin ahead[v]
  BY DEF Waiters, InDeque, Present
<1>2. \A v \in Users \ {u} : at'[v] = at[v] /\ ahead'[v] = ahead[v]
  BY DEF Acquire
<1>3. OthersStay(u) /\ \A v \in Users \ {u} : u \notin ahead'[v]
  BY <1>1, <1>2 DEF OthersStay, InLine
<1>4. at'[u] = "inside" \/ at'[u] = "waiting"
  BY DEF Acquire
<1>5. lockOf'[k] = l
  BY <1>4 DEF Own
<1>6. \A w \in Standing(k) : w \in Users /\ w # u /\ ref[w] = l
  <2> SUFFICES ASSUME NEW w \in Standing(k)
               PROVE  w \in Users /\ w # u /\ ref[w] = l
    OBVIOUS
  <2>1. w \in Users /\ w # u /\ session[w] = k /\ at[w] # "idle"
    BY DEF Standing
  <2>2. at'[w] # "idle" /\ session'[w] = k /\ ref'[w] = ref[w]
    BY <1>2, <2>1
  <2>3. QED
    BY <1>5, <2>1, <2>2 DEF Own
<1>7. CASE ~locked[l] /\ \A w \in Waiters(l) : at[w] = "abandoned"
  <2>1. at'[u] = "inside"
    BY <1>7 DEF Acquire
  <2>2. Standing(k) = {}
    <3> SUFFICES ASSUME NEW w \in Standing(k)
                 PROVE  FALSE
      OBVIOUS
    <3>1. w \in Users /\ ref[w] = l /\ at[w] \in {"waiting", "woken", "inside"}
      BY <1>6 DEF Standing
    <3>2. CASE at[w] = "inside"
      BY <1>7, <3>1, <3>2 DEF Held
    <3>3. CASE at[w] # "inside"
      <4>1. w \in Waiters(l)
        BY <3>1, <3>3 DEF Waiters, InDeque
      <4>2. QED
        BY <1>7, <3>1, <4>1
    <3>4. QED
      BY <3>2, <3>3
  <2>3. ~InLine(u) /\ at[u] # "inside"
    BY DEF InLine
  <2>4. QED
    BY <1>3, <2>1, <2>2, <2>3, JoinsLine
<1>8. CASE ~(~locked[l] /\ \A w \in Waiters(l) : at[w] = "abandoned")
  <2>1. at'[u] = "waiting" /\ ahead'[u] = Waiters(l)
    BY <1>8 DEF Acquire
  <2>2. Waiters(l) \cap Standing(k) = {w \in Standing(k) : at[w] # "inside"}
    BY <1>6 DEF Waiters, InDeque, Standing
  <2>3. ~InLine(u) /\ at[u] # "inside" /\ InLine(u)'
    BY <2>1 DEF InLine
  <2>4. QED
    BY <1>1, <1>3, <2>1, <2>2, <2>3, JoinsLine
<1>9. QED
  BY <1>7, <1>8

LEMMA StepOfTurns ==
    ASSUME LockInv, Own, Own', [PoolNext]_poolVars
    PROVE  [Turns!Next]_(Turns!turnVars)
<1>1. CASE UNCHANGED poolVars
  <2>1. \A k \in Keys : Standing(k)' = Standing(k) /\ Holders(k)' = Holders(k)
    BY <1>1 DEF poolVars, Standing, Holders
  <2>2. \A v \in Users : InFront(v)' = InFront(v)
    BY <1>1 DEF poolVars, InFront, Standing
  <2>3. QED
    BY <2>1, <2>2 DEF Turns!turnVars
<1>2. SUFFICES ASSUME NEW u \in Users, UserStep(u)
               PROVE  \/ \E k \in Keys : Turns!Join(u, k) \/ Turns!Serve(u, k) \/ Turns!Leave(u, k)
                      \/ UNCHANGED Turns!turnVars
  BY <1>1, <1>2 DEF PoolNext, Turns!Next
<1>3. ASSUME NEW k \in Keys, Enter(u, k)
      PROVE  Turns!Join(u, k)
  <2>1. lockOf'[k] \in Locks
    BY <1>3, GetType DEF Enter, Ask, LockInv
  <2>2. /\ at[u] = "idle" /\ Acquire(u, lockOf'[k])
        /\ ref' = [ref EXCEPT ![u] = lockOf'[k]] /\ session' = [session EXCEPT ![u] = k]
    BY <1>3 DEF Enter, Ask
  <2>3. /\ ref'[u] = lockOf'[k] /\ session'[u] = k
        /\ \A v \in Users \ {u} : ref'[v] = ref[v] /\ session'[v] = session[v]
    BY <2>2 DEF LockInv, Typed
  <2>4. QED
    BY <2>1, <2>2, <2>3, AcquireJoins
<1>4. ASSUME NEW k \in Keys, Look(u, k)
      PROVE  UNCHANGED Turns!turnVars
  <2>1. OthersStay(u) /\ at[u] = "idle" /\ at'[u] = "looking"
    BY <1>4 DEF Look, Ask, OthersStay, InLine, LockInv, Typed
  <2>2. QED
    BY <2>1, NotInLine DEF InLine
<1>5. CASE AcquireLooked(u)
  <2>1. session[u] \in Keys /\ ref[u] \in Locks
    BY <1>5 DEF AcquireLooked, LockInv, Typed
  <2>2. Turns!Join(u, session[u])
    BY <1>5, <2>1, AcquireJoins DEF AcquireLooked
  <2>3. QED
    BY <2>1, <2>2
<1>6. CASE Resume(u)
  <2>1. /\ at[u] = "woken" /\ at'[u] = "inside" /\ session'[u] = session[u]
        /\ OthersStay(u)
    BY <1>6 DEF Resume, Move, LeaveDeque, OthersStay, InLine
  <2>2. ahead[u] = {} /\ ~locked[ref[u]]
    BY <2>1 DEF LockInv, Deque, First, Free
  <2>3. \A v \in Users : at[v] # "idle" /\ session[v] = session[u] => ref[v] = ref[u]
    BY <2>1 DEF Own
  <2>4. Holders(session[u]) = {}
    BY <2>2, <2>3 DEF Holders, LockInv, Deque, Held
  <2>5. ASSUME NEW v \in Users \ {u}, InLine(v), session[v] = session[u]
        PROVE  u \in ahead[v]
    BY <2>1, <2>2, <2>3, <2>5 DEF InLine, LockInv, Deque, Ordered, InDeque
  <2>6. \E k \in Keys : Turns!Serve(u, k)
    BY <2>1, <2>2, <2>4, <2>5, IsServed DEF LockInv
  <2>7. QED
    BY <2>6
<1>7. CASE Release(u) \/ ReleaseKeeping(u) \/ CancelWait(u)
  <2>1. /\ InLine(u) \/ at[u] = "inside"
        /\ ~InLine(u)' /\ at'[u] # "inside"
    BY <1>7 DEF Release, ReleaseKeeping, CancelWait, Move, InLine, LockInv, Typed
  <2>2. OthersStay(u)
    BY <1>7 DEF Release, ReleaseKeeping, CancelWait, Move, Forget, WakeFirst, Waiters,
                OthersStay, InLine, LockInv, Typed
  <2>3. QED
    BY <2>1, <2>2, LeavesLine DEF LockInv
<1>8. CASE Unwind(u) \/ Abandon(u)
  <2>1. ~InLine(u) /\ at[u] # "inside" /\ ~InLine(u)' /\ at'[u] # "inside"
    BY <1>8 DEF Unwind, Abandon, Move, InLine, LockInv, Typed
  <2>2. CASE Unwind(u)
    <3>1. \A v \in Users : ahead'[v] = IF v = u THEN {} ELSE ahead[v] \ {u}
      BY <2>2 DEF Unwind, LeaveDeque
    <3>2. \A v \in Users \ {u} : /\ session'[v] = session[v]
                                 /\ at'[v] = at[v] \/ (at[v] = "waiting" /\ at'[v] = "woken")
      BY <2>2 DEF Unwind, Move, Forget, WakeFirst, Waiters, LockInv, Typed
    <3>3. OthersStay(u)
      BY <3>1, <3>2 DEF OthersStay, InLine
    <3>4. QED
      BY <2>1, <3>3, NotInLine
  <2>3. CASE Abandon(u)
    <3>1. OthersStay(u)
      BY <2>3 DEF Abandon, Forget, OthersStay, InLine, LockInv, Typed
    <3>2. QED
      BY <2>1, <3>1, NotInLine
  <2>4. QED
    BY <1>8, <2>2, <2>3
<1>9. QED
  BY <1>2, <1>3, <1>4, <1>5, <1>6, <1>7, <1>8 DEF UserStep

\* Below the eviction limit the pool implements the abstract line of every session:
\* one turn at a time, in the order of arrival, past cancelled waiters and objects
\* kept over awaits.
THEOREM PoolServesInTurn ==
    Cardinality(Keys) <= MaxLocks /\ PoolSpec => ImplementsTurns
<1>1. PoolInit => LockInv /\ Own /\ Turns!Init
  <2>1. PoolInit => LockInv /\ Own
    BY LockInit DEF PoolInit, Own
  <2>2. PoolInit => Turns!Init
    BY DEF PoolInit, Turns!Init, Standing, Holders, InFront
  <2>3. QED
    BY <2>1, <2>2
<1>2. ASSUME Fits, LockInv /\ Own, [PoolNext]_poolVars
      PROVE  (LockInv /\ Own)'
  BY <1>2, LockStep, OwnStep
<1>3. LockInv /\ Own /\ Own' /\ [PoolNext]_poolVars => [Turns!Next]_(Turns!turnVars)
  BY StepOfTurns
<1>4. CASE Fits
  BY <1>1, <1>2, <1>3, <1>4, PTL DEF PoolSpec, ImplementsTurns, Turns!Spec
<1>5. CASE ~Fits
  BY <1>5 DEF Fits
<1>6. QED
  BY <1>4, <1>5

\* So does the Telegram queue in front of it, whatever its buttons and drains do.
THEOREM QueueServesInTurn ==
    Cardinality(Keys) <= MaxLocks /\ Spec => ImplementsTurns
BY PoolServesInTurn, QueueUsesPool, PTL
=============================================================================
