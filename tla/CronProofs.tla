----------------------------- MODULE CronProofs -----------------------------
(* Theorems about DependencyQueue and about CronObserver on top of it. *)
EXTENDS CronObserver, TLAPS

-----------------------------------------------------------------------------
(***************************************************************************)
(* Proof that jobs with one dependency run one at a time: DepSpec implies  *)
(* []Sequential, for any users, jobs and dependencies.                     *)
(*                                                                         *)
(* Sequential alone is not inductive.  A waiter that was woken will enter, *)
(* so the lock must be free and the waiter the only one woken: it is the   *)
(* first of its line, and a line holds the waiters of its lock, each once. *)
(***************************************************************************)

DepTypes ==
    /\ held \in [Deps -> BOOLEAN]
    /\ line \in [Deps -> Seq(Users)]
    /\ place \in [Users -> DepPlaces]
    /\ waitsOn \in [Users -> Deps \cup {None}]

Parked(u) == place[u] \in {"waiting", "woken", "leaving"}
Asked == \A u \in Users : place[u] # "out" => waitsOn[u] \in Deps

Distinct(s) == \A i, j \in 1 .. Len(s) : s[i] = s[j] => i = j
Lines ==
    \A d \in Deps :
        /\ Distinct(line[d])
        /\ \A i \in 1 .. Len(line[d]) : waitsOn[line[d][i]] = d /\ Parked(line[d][i])

Heads(u, d) == Len(line[d]) > 0 /\ line[d][1] = u
WokenFirst ==
    \A u \in Users : place[u] = "woken" => ~held[waitsOn[u]] /\ Heads(u, waitsOn[u])
InsideHolds == \A u \in Users : place[u] = "inside" => held[waitsOn[u]]

DepInv == DepTypes /\ Asked /\ Lines /\ WokenFirst /\ InsideHolds /\ Sequential

-----------------------------------------------------------------------------

\* Removing an element of a line without repetitions: the rest keeps the others,
\* each once, and the first one stays first if it is not the one removed.
LEMMA RemoveFirstLine ==
    ASSUME NEW S, NEW s \in Seq(S), NEW x, Distinct(s)
    PROVE  LET r == RemoveFirst(s, x) IN
           /\ r \in Seq(S) /\ Distinct(r)
           /\ \A i \in 1 .. Len(r) : r[i] # x /\ \E j \in 1 .. Len(s) : r[i] = s[j]
           /\ Len(s) > 0 /\ s[1] # x => Len(r) > 0 /\ r[1] = s[1]
<1> DEFINE hits == {i \in 1 .. Len(s) : s[i] = x}
           r  == RemoveFirst(s, x)
<1>1. CASE hits = {}
  <2>1. r = s
    BY <1>1 DEF RemoveFirst
  <2>2. \A i \in 1 .. Len(s) : s[i] # x
    BY <1>1
  <2>3. QED
    BY <2>1, <2>2
<1>2. CASE hits # {}
  <2>1. PICK k \in 1 .. Len(s) : s[k] = x
    BY <1>2
  <2>2. hits = {k}
    BY <2>1 DEF Distinct
  <2>3. (CHOOSE i \in hits : \A j \in hits : i <= j) = k
    BY <2>2
  <2>4. r = Without(s, k)
    BY <1>2, <2>3 DEF RemoveFirst
  <2> DEFINE n == Len(s)
  <2>5. n \in Nat /\ n >= 1 /\ k \in 1 .. n
    BY <2>1
  <2>6. r = [j \in 1 .. n - 1 |-> IF j < k THEN s[j] ELSE s[j + 1]]
    BY <2>4 DEF Without
  <2>7. \A j \in 1 .. n - 1 : r[j] = s[IF j < k THEN j ELSE j + 1]
    BY <2>5, <2>6
  <2>8. \A j \in 1 .. n : s[j] \in S
    OBVIOUS
  <2>9. \A j \in 1 .. n - 1 : r[j] \in S
    BY <2>5, <2>7, <2>8
  <2>10. r \in [1 .. n - 1 -> S]
    BY <2>6, <2>9
  <2>11. r \in Seq(S) /\ Len(r) = n - 1
    BY <2>5, <2>10
  <2>12. Distinct(r)
    <3> SUFFICES ASSUME NEW i \in 1 .. n - 1, NEW j \in 1 .. n - 1, r[i] = r[j]
                 PROVE  i = j
      BY <2>11 DEF Distinct
    <3>1. s[IF i < k THEN i ELSE i + 1] = s[IF j < k THEN j ELSE j + 1]
      BY <2>7
    <3>2. (IF i < k THEN i ELSE i + 1) = (IF j < k THEN j ELSE j + 1)
      BY <2>5, <3>1 DEF Distinct
    <3>3. QED
      BY <2>5, <3>2
  <2>13. \A i \in 1 .. n - 1 : r[i] # x /\ \E j \in 1 .. n : r[i] = s[j]
    <3> SUFFICES ASSUME NEW i \in 1 .. n - 1
                 PROVE  r[i] # x /\ \E j \in 1 .. n : r[i] = s[j]
      OBVIOUS
    <3> DEFINE j == IF i < k THEN i ELSE i + 1
    <3>1. j \in 1 .. n /\ j # k
      BY <2>5
    <3>2. r[i] = s[j]
      BY <2>7
    <3>3. s[j] # x
      BY <2>1, <2>5, <3>1 DEF Distinct
    <3>4. QED
      BY <3>1, <3>2, <3>3
  <2>14. n > 0 /\ s[1] # x => n - 1 > 0 /\ r[1] = s[1]
    <3> SUFFICES ASSUME s[1] # x
                 PROVE  n - 1 > 0 /\ r[1] = s[1]
      BY <2>5
    <3>1. k > 1
      BY <2>1, <2>5
    <3>2. QED
      BY <2>5, <2>7, <3>1
  <2>15. QED
    BY <2>11, <2>12, <2>13, <2>14
<1>3. QED
  BY <1>1, <1>2

LEMMA AppendLine ==
    ASSUME NEW S, NEW s \in Seq(S), NEW x \in S, Distinct(s),
           \A i \in 1 .. Len(s) : s[i] # x
    PROVE  /\ Append(s, x) \in Seq(S) /\ Distinct(Append(s, x))
           /\ Len(Append(s, x)) = Len(s) + 1
           /\ \A i \in 1 .. Len(s) : Append(s, x)[i] = s[i]
           /\ Append(s, x)[Len(s) + 1] = x
BY DEF Distinct

-----------------------------------------------------------------------------
(* Each step of a job preserves the invariant. *)

LEMMA InitHolds == DepInit => DepInv
BY DEF DepInit, DepInv, DepTypes, DepPlaces, Asked, Lines, Distinct, WokenFirst, InsideHolds,
       Sequential, Inside

\* A user that is outside stands in no line.
LEMMA OutsideOfLines ==
    ASSUME DepInv, NEW u \in Users, ~Parked(u), NEW d \in Deps, NEW i \in 1 .. Len(line[d])
    PROVE  line[d][i] # u
BY DEF DepInv, Lines

LEMMA AcquirePreserves ==
    ASSUME DepInv, NEW u \in Users, NEW d \in Deps, Acquire(u, d)
    PROVE  DepInv'
<1> USE DEF DepInv
<1>1. place[u] = "out" /\ waitsOn' = [waitsOn EXCEPT ![u] = d]
  BY DEF Acquire
<1>2. \A e \in Deps : \A i \in 1 .. Len(line[e]) : line[e][i] # u /\ line[e][i] \in Users
  BY <1>1, OutsideOfLines DEF Parked, DepTypes
<1>3. CASE CanTake(d)
  <2>1. /\ held' = [held EXCEPT ![d] = TRUE] /\ line' = line
        /\ place' = [place EXCEPT ![u] = "inside"]
    BY <1>3 DEF Acquire
  <2>2. ~held[d] /\ \A i \in 1 .. Len(line[d]) : place[line[d][i]] = "leaving"
    BY <1>3 DEF CanTake
  <2>3. DepTypes' /\ Asked'
    BY <1>1, <2>1 DEF DepTypes, Asked, DepPlaces
  <2>4. Lines'
    BY <1>1, <1>2, <2>1 DEF Lines, Parked, DepTypes
  <2>5. WokenFirst'
    <3> SUFFICES ASSUME NEW v \in Users, place'[v] = "woken"
                 PROVE  ~held'[waitsOn'[v]] /\ Heads(v, waitsOn[v])' 
      BY <1>1, <2>1 DEF WokenFirst, Heads, DepTypes
    <3>1. v # u /\ place[v] = "woken" /\ waitsOn'[v] = waitsOn[v] /\ waitsOn[v] \in Deps
      BY <1>1, <2>1 DEF DepTypes, Asked
    <3>2. waitsOn[v] # d
      BY <2>2, <3>1 DEF WokenFirst, Heads, DepTypes
    <3>3. QED
      BY <2>1, <3>1, <3>2 DEF WokenFirst, Heads, DepTypes
  <2>6. InsideHolds'
    BY <1>1, <2>1 DEF InsideHolds, DepTypes, Asked
  <2>7. Sequential'
    BY <1>1, <2>1, <2>2 DEF Sequential, Inside, InsideHolds, DepTypes
  <2>8. QED
    BY <2>3, <2>4, <2>5, <2>6, <2>7
<1>4. CASE ~CanTake(d)
  <2>1. /\ held' = held /\ line' = [line EXCEPT ![d] = Append(@, u)]
        /\ place' = [place EXCEPT ![u] = "waiting"]
    BY <1>4 DEF Acquire
  <2>2. line[d] \in Seq(Users) /\ Distinct(line[d])
    BY DEF DepTypes, Lines
  <2>3. /\ Append(line[d], u) \in Seq(Users) /\ Distinct(Append(line[d], u))
        /\ Len(Append(line[d], u)) = Len(line[d]) + 1
        /\ \A i \in 1 .. Len(line[d]) : Append(line[d], u)[i] = line[d][i]
        /\ Append(line[d], u)[Len(line[d]) + 1] = u
    BY <1>2, <2>2, AppendLine
  <2>4. DepTypes' /\ Asked'
    BY <1>1, <2>1, <2>3 DEF DepTypes, Asked, DepPlaces
  <2>5. Lines'
    <3> SUFFICES ASSUME NEW e \in Deps
                 PROVE  /\ Distinct(line'[e])
                        /\ \A i \in 1 .. Len(line'[e]) :
                              /\ waitsOn'[line'[e][i]] = e
                              /\ place'[line'[e][i]] \in {"waiting", "woken", "leaving"}
      BY DEF Lines, Parked
    <3>1. CASE e # d
      BY <1>1, <1>2, <2>1, <3>1 DEF Lines, Parked, DepTypes
    <3>2. CASE e = d
      <4>1. line'[e] = Append(line[d], u)
        BY <2>1, <3>2 DEF DepTypes
      <4>2. SUFFICES ASSUME NEW i \in 1 .. Len(line[d]) + 1
                     PROVE  /\ waitsOn'[line'[e][i]] = e
                            /\ place'[line'[e][i]] \in {"waiting", "woken", "leaving"}
        BY <2>3, <4>1
      <4>3. CASE i = Len(line[d]) + 1
        BY <1>1, <2>1, <2>3, <3>2, <4>1, <4>3 DEF Parked, DepTypes
      <4>4. CASE i \in 1 .. Len(line[d])
        BY <1>1, <1>2, <2>1, <2>3, <3>2, <4>1, <4>4 DEF Parked, DepTypes, Lines
      <4>5. QED
        BY <2>2, <4>3, <4>4
    <3>3. QED
      BY <3>1, <3>2
  <2>6. WokenFirst'
    <3> SUFFICES ASSUME NEW v \in Users, place'[v] = "woken"
                 PROVE  ~held'[waitsOn'[v]] /\ Len(line'[waitsOn'[v]]) > 0 /\ line'[waitsOn'[v]][1] = v
      BY DEF WokenFirst, Heads
    <3>1. v # u /\ place[v] = "woken" /\ waitsOn'[v] = waitsOn[v] /\ waitsOn[v] \in Deps
      BY <1>1, <2>1 DEF DepTypes, Asked
    <3>2. ~held[waitsOn[v]] /\ Len(line[waitsOn[v]]) > 0 /\ line[waitsOn[v]][1] = v
      BY <3>1 DEF WokenFirst, Heads
    <3>3. CASE waitsOn[v] = d
      BY <2>1, <2>2, <2>3, <3>1, <3>2, <3>3 DEF DepTypes
    <3>4. CASE waitsOn[v] # d
      BY <2>1, <3>1, <3>2, <3>4 DEF DepTypes
    <3>5. QED
      BY <3>3, <3>4
  <2>7. InsideHolds' /\ Sequential'
    BY <1>1, <2>1 DEF InsideHolds, Sequential, Inside, DepTypes, Asked
  <2>8. QED
    BY <2>4, <2>5, <2>6, <2>7
<1>5. QED
  BY <1>3, <1>4

\* u leaves the line of d, where it was parked.
LEMMA LineWithout ==
    ASSUME DepInv, NEW u \in Users, Parked(u)
    PROVE  LET r == RemoveFirst(line[waitsOn[u]], u) IN
           /\ waitsOn[u] \in Deps /\ r \in Seq(Users) /\ Distinct(r)
           /\ \A i \in 1 .. Len(r) : /\ r[i] # u /\ r[i] \in Users
                                     /\ waitsOn[r[i]] = waitsOn[u] /\ Parked(r[i])
           /\ \A v \in Users \ {u} : Heads(v, waitsOn[u]) => Len(r) > 0 /\ r[1] = v
<1>1. waitsOn[u] \in Deps
  BY DEF DepInv, Asked, Parked
<1> DEFINE d == waitsOn[u]
           r == RemoveFirst(line[d], u)
<1>2. line[d] \in Seq(Users) /\ Distinct(line[d])
  BY <1>1 DEF DepInv, DepTypes, Lines
<1>3. /\ r \in Seq(Users) /\ Distinct(r)
      /\ \A i \in 1 .. Len(r) : r[i] # u /\ \E j \in 1 .. Len(line[d]) : r[i] = line[d][j]
      /\ Len(line[d]) > 0 /\ line[d][1] # u => Len(r) > 0 /\ r[1] = line[d][1]
  BY <1>2, RemoveFirstLine
<1>4. \A i \in 1 .. Len(line[d]) : line[d][i] \in Users /\ waitsOn[line[d][i]] = d /\ Parked(line[d][i])
  BY <1>1, <1>2 DEF DepInv, Lines
<1>5. \A i \in 1 .. Len(r) : r[i] # u /\ r[i] \in Users /\ waitsOn[r[i]] = d /\ Parked(r[i])
  BY <1>3, <1>4
<1>6. \A v \in Users \ {u} : Heads(v, d) => Len(r) > 0 /\ r[1] = v
  BY <1>3 DEF Heads
<1>7. QED
  BY <1>1, <1>3, <1>5, <1>6

LEMMA EnterPreserves ==
    ASSUME DepInv, NEW u \in Users, Enter(u)
    PROVE  DepInv'
<1> DEFINE d == waitsOn[u]
           r == RemoveFirst(line[d], u)
<1>0. Parked(u)
  BY DEF Enter, Parked
<1>1. /\ place[u] = "woken" /\ waitsOn' = waitsOn
      /\ held' = [held EXCEPT ![d] = TRUE] /\ line' = [line EXCEPT ![d] = r]
      /\ place' = [place EXCEPT ![u] = "inside"]
  BY DEF Enter
<1>2. /\ d \in Deps /\ r \in Seq(Users) /\ Distinct(r)
      /\ \A i \in 1 .. Len(r) : r[i] # u /\ r[i] \in Users /\ waitsOn[r[i]] = d /\ Parked(r[i])
  BY <1>0, LineWithout
<1>3. ~held[d] /\ Heads(u, d)
  BY <1>1 DEF DepInv, WokenFirst
<1> HIDE DEF r, d
<1>4. DepTypes' /\ Asked'
  BY <1>1, <1>2 DEF DepInv, DepTypes, Asked, DepPlaces
<1>5. Lines'
  <2> SUFFICES ASSUME NEW e \in Deps
               PROVE  /\ Distinct(line'[e])
                      /\ \A i \in 1 .. Len(line'[e]) :
                            /\ waitsOn'[line'[e][i]] = e
                            /\ place'[line'[e][i]] \in {"waiting", "woken", "leaving"}
    BY DEF Lines, Parked
  <2>1. CASE e # d
    <3>1. line'[e] = line[e]
      BY <1>1, <2>1 DEF DepInv, DepTypes
    <3>2. \A i \in 1 .. Len(line[e]) : line[e][i] \in Users /\ waitsOn[line[e][i]] = e /\ Parked(line[e][i])
      BY DEF DepInv, DepTypes, Lines
    <3>3. waitsOn[u] = d
      BY DEF d
    <3>4. QED
      BY <1>1, <2>1, <3>1, <3>2, <3>3 DEF DepInv, DepTypes, Lines, Parked
  <2>2. CASE e = d
    BY <1>1, <1>2, <2>2 DEF DepInv, DepTypes, Parked
  <2>3. QED
    BY <2>1, <2>2
<1>6. WokenFirst'
  <2> SUFFICES ASSUME NEW v \in Users, place'[v] = "woken"
               PROVE  ~held'[waitsOn'[v]] /\ Len(line'[waitsOn'[v]]) > 0 /\ line'[waitsOn'[v]][1] = v
    BY DEF WokenFirst, Heads
  <2>1. v # u /\ place[v] = "woken" /\ waitsOn[v] \in Deps
    BY <1>1 DEF DepInv, DepTypes, Asked
  <2>2. ~held[waitsOn[v]] /\ Heads(v, waitsOn[v])
    BY <2>1 DEF DepInv, WokenFirst
  <2>3. waitsOn[v] # d
    BY <1>3, <2>1, <2>2 DEF Heads
  <2>4. QED
    BY <1>1, <2>1, <2>2, <2>3 DEF Heads, DepInv, DepTypes
<1>7. InsideHolds'
  <2> SUFFICES ASSUME NEW v \in Users, place'[v] = "inside"
               PROVE  held'[waitsOn'[v]]
    BY DEF InsideHolds
  <2>1. CASE v = u
    BY <1>1, <1>2, <2>1 DEF DepInv, DepTypes, d
  <2>2. CASE v # u
    BY <1>1, <2>2 DEF DepInv, DepTypes, InsideHolds, Asked
  <2>3. QED
    BY <2>1, <2>2
<1>8. Sequential'
  <2> SUFFICES ASSUME NEW e \in Deps, NEW v \in Users, NEW w \in Users,
                      waitsOn[v] = e, place'[v] = "inside", waitsOn[w] = e, place'[w] = "inside"
               PROVE  v = w
    BY <1>1 DEF Sequential, Inside
  <2>1. CASE v = u \/ w = u
    <3>1. e = d
      BY <2>1 DEF d
    <3>2. \A x \in Users : waitsOn[x] = d => place[x] # "inside"
      BY <1>3 DEF DepInv, InsideHolds
    <3>3. QED
      BY <1>1, <2>1, <3>1, <3>2 DEF DepInv, DepTypes
  <2>2. CASE v # u /\ w # u
    BY <1>1, <2>2 DEF DepInv, DepTypes, Sequential, Inside
  <2>3. QED
    BY <2>1, <2>2
<1>9. QED
  BY <1>4, <1>5, <1>6, <1>7, <1>8 DEF DepInv

\* Who is woken was woken before, or waited and is the first of l; nobody else moves.
LEMMA Woken ==
    ASSUME DepInv, NEW u \in Users, NEW to \in DepPlaces, NEW l \in Seq(Users),
           MoveAndWake(u, to, l)
    PROVE  /\ place' \in [Users -> DepPlaces] /\ place'[u] = to
           /\ \A v \in Users \ {u} :
                 \/ place'[v] = place[v]
                 \/ place[v] = "waiting" /\ place'[v] = "woken" /\ Len(l) > 0 /\ l[1] = v
BY DEF MoveAndWake, DepInv, DepTypes, DepPlaces

LEMMA ReleasePreserves ==
    ASSUME DepInv, NEW u \in Users, Release(u)
    PROVE  DepInv'
<1> DEFINE d == waitsOn[u]
<1>1. /\ place[u] = "inside" /\ waitsOn' = [waitsOn EXCEPT ![u] = None]
      /\ held' = [held EXCEPT ![d] = FALSE] /\ line' = line
      /\ MoveAndWake(u, "out", line[d])
  BY DEF Release
<1>2. d \in Deps /\ line[d] \in Seq(Users)
  BY <1>1 DEF DepInv, DepTypes, Asked
<1>3. /\ place' \in [Users -> DepPlaces] /\ place'[u] = "out"
      /\ \A v \in Users \ {u} :
            \/ place'[v] = place[v]
            \/ place[v] = "waiting" /\ place'[v] = "woken" /\ Len(line[d]) > 0 /\ line[d][1] = v
  <2>1. "out" \in DepPlaces
    BY DEF DepPlaces
  <2>2. QED
    BY <1>1, <1>2, <2>1, Woken
<1>4. held[d] /\ \A v \in Users \ {u} : waitsOn[v] = d => place[v] # "inside"
  BY <1>1, <1>2 DEF DepInv, InsideHolds, Sequential, Inside
<1>5. \A e \in Deps : \A i \in 1 .. Len(line[e]) :
          line[e][i] \in Users \ {u} /\ waitsOn[line[e][i]] = e /\ Parked(line[e][i])
  <2>1. ~Parked(u)
    BY <1>1 DEF Parked
  <2>2. QED
    BY <2>1, OutsideOfLines DEF DepInv, DepTypes, Lines
<1> HIDE DEF d
<1>6. DepTypes' /\ Asked'
  BY <1>1, <1>2, <1>3 DEF DepInv, DepTypes, Asked
<1>7. Lines'
  <2> SUFFICES ASSUME NEW e \in Deps
               PROVE  /\ Distinct(line[e])
                      /\ \A i \in 1 .. Len(line[e]) :
                            /\ waitsOn'[line[e][i]] = e
                            /\ place'[line[e][i]] \in {"waiting", "woken", "leaving"}
    BY <1>1 DEF Lines, Parked
  <2>1. Distinct(line[e])
    BY DEF DepInv, Lines
  <2>2. \A v \in Users \ {u} : waitsOn'[v] = waitsOn[v] /\ (Parked(v) => place'[v] \in {"waiting", "woken", "leaving"})
    BY <1>1, <1>3 DEF Parked, DepInv, DepTypes
  <2>3. QED
    BY <1>5, <2>1, <2>2
<1>8. WokenFirst'
  <2> SUFFICES ASSUME NEW v \in Users, place'[v] = "woken"
               PROVE  ~held'[waitsOn'[v]] /\ Len(line[waitsOn'[v]]) > 0 /\ line[waitsOn'[v]][1] = v
    BY <1>1 DEF WokenFirst, Heads
  <2>1. v # u /\ waitsOn'[v] = waitsOn[v]
    BY <1>1, <1>3 DEF DepInv, DepTypes
  <2>2. CASE place[v] = "woken"
    <3>1. ~held[waitsOn[v]] /\ Heads(v, waitsOn[v]) /\ waitsOn[v] \in Deps
      BY <2>2 DEF DepInv, WokenFirst, Asked
    <3>2. waitsOn[v] # d
      BY <1>4, <3>1
    <3>3. QED
      BY <1>1, <2>1, <3>1, <3>2 DEF Heads, DepInv, DepTypes
  <2>3. CASE place[v] # "woken"
    <3>1. Len(line[d]) > 0 /\ line[d][1] = v
      BY <1>3, <2>1, <2>3
    <3>2. waitsOn[v] = d
      BY <1>2, <1>5, <3>1
    <3>3. QED
      BY <1>1, <1>2, <2>1, <3>1, <3>2 DEF DepInv, DepTypes
  <2>4. QED
    BY <2>2, <2>3
<1>9. InsideHolds' /\ Sequential'
  <2>1. \A v \in Users : place'[v] = "inside" => v # u /\ place[v] = "inside" /\ waitsOn'[v] = waitsOn[v]
    BY <1>1, <1>3 DEF DepInv, DepTypes
  <2>2. InsideHolds'
    BY <1>1, <1>2, <1>4, <2>1 DEF DepInv, DepTypes, InsideHolds, Asked
  <2>3. Sequential'
    BY <2>1 DEF DepInv, Sequential, Inside
  <2>4. QED
    BY <2>2, <2>3
<1>10. QED
  BY <1>6, <1>7, <1>8, <1>9 DEF DepInv

LEMMA CancelPreserves ==
    ASSUME DepInv, NEW u \in Users, CancelWaiter(u)
    PROVE  DepInv'
<1>1. /\ place[u] \in {"waiting", "woken"} /\ place' = [place EXCEPT ![u] = "leaving"]
      /\ UNCHANGED <<held, line, waitsOn>>
  BY DEF CancelWaiter
<1>2. \A v \in Users : place'[v] = place[v] \/ (v = u /\ place'[v] = "leaving")
  BY <1>1 DEF DepInv, DepTypes
<1>3. DepTypes' /\ Asked'
  BY <1>1 DEF DepInv, DepTypes, Asked, DepPlaces
<1>4. Lines'
  <2>1. \A v \in Users : Parked(v) => place'[v] \in {"waiting", "woken", "leaving"}
    BY <1>2 DEF Parked
  <2>2. \A e \in Deps : \A i \in 1 .. Len(line[e]) : line[e][i] \in Users
    BY DEF DepInv, DepTypes
  <2>3. QED
    BY <1>1, <2>1, <2>2 DEF DepInv, Lines, Parked
<1>5. WokenFirst' /\ InsideHolds' /\ Sequential'
  BY <1>1, <1>2 DEF DepInv, WokenFirst, Heads, InsideHolds, Sequential, Inside
<1>6. QED
  BY <1>3, <1>4, <1>5 DEF DepInv

LEMMA LeavePreserves ==
    ASSUME DepInv, NEW u \in Users, Leave(u)
    PROVE  DepInv'
<1> DEFINE d == waitsOn[u]
           r == RemoveFirst(line[d], u)
           l == IF held[d] THEN <<>> ELSE r
<1>1. /\ place[u] = "leaving" /\ waitsOn' = [waitsOn EXCEPT ![u] = None]
      /\ held' = held /\ line' = [line EXCEPT ![d] = r]
      /\ MoveAndWake(u, "out", l)
  BY DEF Leave
<1>2. /\ d \in Deps /\ r \in Seq(Users) /\ Distinct(r)
      /\ \A i \in 1 .. Len(r) : r[i] # u /\ r[i] \in Users /\ waitsOn[r[i]] = d /\ Parked(r[i])
      /\ \A v \in Users \ {u} : Heads(v, d) => Len(r) > 0 /\ r[1] = v
  <2>1. Parked(u)
    BY <1>1 DEF Parked
  <2>2. QED
    BY <2>1, LineWithout
<1> HIDE DEF r
<1>3. /\ place' \in [Users -> DepPlaces] /\ place'[u] = "out"
      /\ \A v \in Users \ {u} :
            \/ place'[v] = place[v]
            \/ /\ place[v] = "waiting" /\ place'[v] = "woken"
               /\ ~held[d] /\ Len(r) > 0 /\ r[1] = v
  <2>1. "out" \in DepPlaces /\ l \in Seq(Users)
    BY <1>2 DEF DepPlaces
  <2>2. /\ place' \in [Users -> DepPlaces] /\ place'[u] = "out"
        /\ \A v \in Users \ {u} :
              \/ place'[v] = place[v]
              \/ place[v] = "waiting" /\ place'[v] = "woken" /\ Len(l) > 0 /\ l[1] = v
    <3> HIDE DEF l
    <3>1. QED
      BY <1>1, <2>1, Woken
  <2>3. Len(l) > 0 => ~held[d] /\ l = r
    OBVIOUS
  <2>4. QED
    BY <2>2, <2>3
<1> HIDE DEF l, d
<1>4. \A v \in Users \ {u} : waitsOn'[v] = waitsOn[v]
  BY <1>1 DEF DepInv, DepTypes
<1>5. waitsOn[u] = d /\ \A e \in Deps \ {d} : line'[e] = line[e]
  BY <1>1 DEF DepInv, DepTypes, d
<1>6. line'[d] = r
  BY <1>1, <1>2 DEF DepInv, DepTypes
<1>7. DepTypes' /\ Asked'
  BY <1>1, <1>2, <1>3 DEF DepInv, DepTypes, Asked
<1>8. Lines'
  <2> SUFFICES ASSUME NEW e \in Deps
               PROVE  /\ Distinct(line'[e])
                      /\ \A i \in 1 .. Len(line'[e]) :
                            /\ waitsOn'[line'[e][i]] = e
                            /\ place'[line'[e][i]] \in {"waiting", "woken", "leaving"}
    BY DEF Lines, Parked
  <2>1. \A v \in Users \ {u} : Parked(v) => place'[v] \in {"waiting", "woken", "leaving"}
    BY <1>3 DEF Parked
  <2>2. CASE e = d
    BY <1>2, <1>4, <1>6, <2>1, <2>2
  <2>3. CASE e # d
    <3>1. \A i \in 1 .. Len(line[e]) : line[e][i] \in Users \ {u} /\ waitsOn[line[e][i]] = e /\ Parked(line[e][i])
      BY <1>5, <2>3 DEF DepInv, DepTypes, Lines
    <3>2. Distinct(line[e])
      BY DEF DepInv, Lines
    <3>3. QED
      BY <1>4, <1>5, <2>1, <2>3, <3>1, <3>2
  <2>4. QED
    BY <2>2, <2>3
<1>9. WokenFirst'
  <2> SUFFICES ASSUME NEW v \in Users, place'[v] = "woken"
               PROVE  ~held[waitsOn'[v]] /\ Len(line'[waitsOn'[v]]) > 0 /\ line'[waitsOn'[v]][1] = v
    BY <1>1 DEF WokenFirst, Heads
  <2>1. v # u /\ waitsOn'[v] = waitsOn[v]
    BY <1>3, <1>4
  <2>2. CASE place[v] = "woken"
    <3>1. ~held[waitsOn[v]] /\ Heads(v, waitsOn[v]) /\ waitsOn[v] \in Deps
      BY <2>2 DEF DepInv, WokenFirst, Asked
    <3>2. CASE waitsOn[v] = d
      BY <1>2, <1>6, <2>1, <3>1, <3>2
    <3>3. CASE waitsOn[v] # d
      BY <1>5, <2>1, <3>1, <3>3 DEF Heads
    <3>4. QED
      BY <3>2, <3>3
  <2>3. CASE place[v] # "woken"
    <3>1. ~held[d] /\ Len(r) > 0 /\ r[1] = v
      BY <1>3, <2>1, <2>3
    <3>2. waitsOn[v] = d
      BY <1>2, <3>1
    <3>3. QED
      BY <1>6, <2>1, <3>1, <3>2
  <2>4. QED
    BY <2>2, <2>3
<1>10. InsideHolds' /\ Sequential'
  <2>1. \A v \in Users : place'[v] = "inside" => place[v] = "inside" /\ waitsOn'[v] = waitsOn[v]
    BY <1>3, <1>4
  <2>2. InsideHolds'
    BY <1>1, <2>1 DEF DepInv, InsideHolds
  <2>3. Sequential'
    BY <2>1 DEF DepInv, Sequential, Inside
  <2>4. QED
    BY <2>2, <2>3
<1>11. QED
  BY <1>7, <1>8, <1>9, <1>10 DEF DepInv

-----------------------------------------------------------------------------

LEMMA DepStep == DepInv /\ [DepNext]_depVars => DepInv'
<1> SUFFICES ASSUME DepInv, [DepNext]_depVars
             PROVE  DepInv'
  OBVIOUS
<1>1. CASE DepNext
  <2>1. PICK u \in Users : (\E d \in Deps : Acquire(u, d)) \/ Enter(u) \/ Release(u)
                           \/ CancelWaiter(u) \/ Leave(u)
    BY <1>1 DEF DepNext
  <2>2. QED
    BY <2>1, AcquirePreserves, EnterPreserves, ReleasePreserves, CancelPreserves, LeavePreserves
<1>2. CASE UNCHANGED depVars
  BY <1>2 DEF depVars, DepInv, DepTypes, Asked, Lines, Distinct, Parked, WokenFirst, Heads,
              InsideHolds, Sequential, Inside
<1>3. QED
  BY <1>1, <1>2

\* Jobs with the same dependency run one at a time, whichever of them are cancelled
\* while they wait, before or after they were woken.
THEOREM OneAtATime == DepSpec => []Sequential
<1>1. DepInv => Sequential
  BY DEF DepInv
<1>2. QED
  BY InitHolds, DepStep, <1>1, PTL DEF DepSpec

-----------------------------------------------------------------------------
(***************************************************************************)
(* Proof that the cron observer uses its dependency queue as the queue is  *)
(* specified: whatever it schedules, cancels and reloads, every one of its *)
(* steps is a step of DepSpec or leaves the queue alone.  And that no job  *)
(* has two tasks and nothing starts after stop.                            *)
(***************************************************************************)
LEMMA TaskStepOfQueue ==
    ASSUME NEW u \in Users, TaskStep(u)
    PROVE  [DepNext]_depVars
<1>1. CASE Fire(u)
  <2>1. CASE UNCHANGED depVars
    BY <2>1
  <2>2. CASE DepOf[JobOf[u]] # None /\ Acquire(u, DepOf[JobOf[u]])
    <3>1. DepOf[JobOf[u]] \in Deps
      BY <2>2, CronAssumption, DependencyAssumption
    <3>2. QED
      BY <2>2, <3>1 DEF DepNext
  <2>3. QED
    BY <1>1, <2>1, <2>2 DEF Fire
<1>2. CASE TurnComes(u)
  BY <1>2 DEF TurnComes, DepNext
<1>3. CASE CliEnds(u)
  BY <1>3 DEF CliEnds, LetGo, DepNext
<1>4. CASE Delivered(u) \/ Ended(u)
  BY <1>4 DEF Delivered, Ended
<1>5. CASE Unwind(u)
  BY <1>5 DEF Unwind, LetGo, DepNext
<1>6. QED
  BY <1>1, <1>2, <1>3, <1>4, <1>5 DEF TaskStep

LEMMA CronStepOfQueue == [Next]_vars => [DepNext]_depVars
<1> SUFFICES ASSUME [Next]_vars
             PROVE  [DepNext]_depVars
  OBVIOUS
<1>1. CASE \E u \in Users : TaskStep(u)
  BY <1>1, TaskStepOfQueue
<1>2. CASE \E p \in Planners : PlannerStep(p)
  BY <1>2 DEF PlannerStep, CancelIdle, Gathered, ScheduleAll, tasksAndDeps
<1>3. CASE Poll \/ Reloaded \/ Noted \/ BeginStop \/ GoOnStopping
  BY <1>3 DEF Poll, Reloaded, Noted, BeginStop, GoOnStopping, tasksAndDeps
<1>4. CASE \E j \in Jobs : Toggle(j) \/ ToolWrites(j)
  BY <1>4 DEF Toggle, ToolWrites, tasksAndDeps
<1>5. CASE UNCHANGED vars
  BY <1>5 DEF vars
<1>6. QED
  BY <1>1, <1>2, <1>3, <1>4, <1>5 DEF Next

\* The observer implements the specification of the dependency queue.
THEOREM CronUsesQueue == Spec => DepSpec
<1>1. Init => DepInit
  BY DEF Init
<1>2. QED
  BY <1>1, CronStepOfQueue, PTL DEF Spec, DepSpec

\* So jobs that share a dependency run one at a time, through all reschedules,
\* toggles, cancellations and the stop of the observer.
THEOREM CronSequential == Spec => []Sequential
BY CronUsesQueue, OneAtATime, PTL

-----------------------------------------------------------------------------
(* NoOrphans is inductive given the types.  StopHolds needs more: when stop *)
(* has cancelled the tasks in the table, no live task is left uncancelled,  *)
(* because by NoOrphans there is none beside the table, and no planner.     *)

TaskPlaces    == {"free", "sleeping", "queued", "cli", "killing", "delivering", "stat"}
PlannerPlaces == {"idle", "noting", "reloading", "lock", "gathering", "listing", "stopped", "gone"}

CronTypes ==
    /\ at \in [Users -> TaskPlaces] /\ cancelled \in [Users -> BOOLEAN]
    /\ scheduled \in [Jobs -> Users \cup {None}]
    /\ planner \in [Planners -> PlannerPlaces]

Stopped ==
    planner["watcher"] = "gone" =>
        /\ ~running
        /\ \A p \in Planners : planner[p] = "gone"
        /\ \A u \in Live : cancelled[u]

CronInv == CronTypes /\ NoOrphans /\ Stopped

TableVars == <<running, at, cancelled, scheduled, planner>>

LEMMA JobsOfUsers == \A u \in Users : JobOf[u] \in Jobs
BY DependencyAssumption

LEMMA CronInitHolds == Init => CronInv
<1> SUFFICES ASSUME Init
             PROVE  CronInv
  OBVIOUS
<1>1. CronTypes
  BY DEF Init, CronTypes, TaskPlaces, PlannerPlaces
<1>2. NoOrphans
  BY DEF Init, NoOrphans, Live
<1>3. Stopped
  BY DEF Init, Stopped, Planners
<1>4. QED
  BY <1>1, <1>2, <1>3 DEF CronInv

\* The new tasks are those of the table, and the old ones of their jobs are cancelled.
LEMMA ScheduleKeeps ==
    ASSUME CronTypes, NoOrphans, NEW jobs \in SUBSET Jobs, NEW valid \in SUBSET jobs,
           NEW moved \in [Users -> TaskPlaces],
           \A u \in Users : moved[u] # "free" => at[u] # "free",
           Schedule(jobs, valid, moved)
    PROVE  /\ at' \in [Users -> TaskPlaces] /\ cancelled' \in [Users -> BOOLEAN]
           /\ scheduled' \in [Jobs -> Users \cup {None}]
           /\ NoOrphans'
<1> USE DEF TaskPlaces
<1> DEFINE new == [j \in valid |-> CHOOSE u \in FreeUsers(j) : TRUE]
<1>1. /\ scheduled' = [j \in Jobs |-> IF j \in valid THEN new[j]
                                       ELSE IF j \in jobs THEN None ELSE scheduled[j]]
      /\ at' = [u \in Users |-> IF \E j \in valid : new[j] = u THEN "sleeping" ELSE moved[u]]
      /\ cancelled' = [u \in Users |->
             moved[u] # "free" /\ (cancelled[u] \/ (JobOf[u] \in jobs /\ scheduled[JobOf[u]] = u))]
  BY DEF Schedule
<1>2. \A j \in valid : new[j] \in Users /\ JobOf[new[j]] = j
  <2>1. \A j \in valid : new[j] \in FreeUsers(j)
    BY DEF Schedule
  <2>2. QED
    BY <2>1 DEF FreeUsers
<1> HIDE DEF new
<1>3. scheduled' \in [Jobs -> Users \cup {None}]
  BY <1>1, <1>2 DEF CronTypes
<1>4. at' \in [Users -> TaskPlaces] /\ cancelled' \in [Users -> BOOLEAN]
  BY <1>1 DEF CronTypes
<1>5. NoOrphans'
  <2> SUFFICES ASSUME NEW u \in Users, at'[u] # "free", ~cancelled'[u]
               PROVE  scheduled'[JobOf[u]] = u
    BY DEF NoOrphans, Live
  <2>1. CASE \E j \in valid : new[j] = u
    BY <1>1, <1>2, <2>1
  <2>2. CASE ~\E j \in valid : new[j] = u
    <3>1. moved[u] # "free" /\ ~cancelled[u] /\ ~(JobOf[u] \in jobs /\ scheduled[JobOf[u]] = u)
      BY <1>1, <2>2
    <3>2. scheduled[JobOf[u]] = u
      BY <3>1 DEF NoOrphans, Live
    <3>3. QED
      BY <1>1, <3>1, <3>2, JobsOfUsers
  <2>3. QED
    BY <2>1, <2>2
<1>6. QED
  BY <1>3, <1>4, <1>5

\* A task that ends, with or without a successor.
LEMMA FinishKeeps ==
    ASSUME CronTypes, NoOrphans, NEW u \in Users, Finish(u)
    PROVE  /\ at' \in [Users -> TaskPlaces] /\ cancelled' \in [Users -> BOOLEAN]
           /\ scheduled' \in [Jobs -> Users \cup {None}]
           /\ NoOrphans'
<1> USE DEF TaskPlaces
<1> DEFINE moved == [at EXCEPT ![u] = "free"]
<1>1. moved \in [Users -> TaskPlaces] /\ \A v \in Users : moved[v] # "free" => at[v] # "free"
  BY DEF CronTypes
<1>2. CASE Schedule({JobOf[u]}, {JobOf[u]}, moved)
  <2>1. {JobOf[u]} \in SUBSET Jobs /\ {JobOf[u]} \in SUBSET {JobOf[u]}
    BY JobsOfUsers
  <2> HIDE DEF moved
  <2>2. QED
    BY <1>1, <1>2, <2>1, ScheduleKeeps
<1>3. CASE GoTo(u, "free") /\ UNCHANGED <<scheduled, cancelled>>
  BY <1>3 DEF GoTo, CronTypes, NoOrphans, Live
<1>4. QED
  BY <1>2, <1>3 DEF Finish

\* A step of a task: none of those that were not cancelled, once the observer stopped.
LEMMA TaskStepKeeps ==
    ASSUME CronInv, NEW u \in Users, TaskStep(u)
    PROVE  CronInv'
<1> USE DEF CronInv, TaskPlaces, PlannerPlaces
<1>1. running' = running /\ planner' = planner
  BY DEF TaskStep, Fire, TurnComes, CliEnds, Delivered, Ended, Unwind, files
<1>2. CASE ~Unwind(u)
  <2>1. ~cancelled[u] /\ at[u] # "free"
    BY <1>2 DEF TaskStep, Fire, TurnComes, CliEnds, Delivered, Ended, Steps
  <2>2. planner["watcher"] # "gone"
    BY <2>1 DEF Stopped, Live
  <2>3. Stopped'
    BY <1>1, <2>2 DEF Stopped
  <2>4. CASE Finish(u)
    BY <1>1, <2>3, <2>4, FinishKeeps DEF CronTypes
  <2>5. CASE /\ scheduled' = scheduled /\ cancelled' = cancelled
             /\ \E to \in TaskPlaces : at' = [at EXCEPT ![u] = to]
    BY <1>1, <2>1, <2>3, <2>5 DEF CronTypes, NoOrphans, Live
  <2>6. QED
    BY <1>2, <2>4, <2>5 DEF TaskStep, Fire, TurnComes, CliEnds, Delivered, Ended, GoTo
<1>3. CASE Unwind(u)
  <2>1. cancelled[u] /\ scheduled' = scheduled
    BY <1>3 DEF Unwind
  <2>2. \/ at' = at /\ cancelled' = cancelled
        \/ at' = [at EXCEPT ![u] = "free"] /\ cancelled' = [cancelled EXCEPT ![u] = FALSE]
        \/ at[u] = "cli" /\ at' = [at EXCEPT ![u] = "killing"] /\ cancelled' = cancelled
    BY <1>3 DEF Unwind, Drop, GoTo
  <2>3. QED
    BY <1>1, <2>1, <2>2 DEF CronTypes, NoOrphans, Live, Stopped
<1>4. QED
  BY <1>2, <1>3

\* Rescheduling: the tasks of jobs that do not execute, then all enabled jobs.
LEMMA PlannerStepKeeps ==
    ASSUME CronInv, NEW p \in Planners, PlannerStep(p)
    PROVE  CronInv'
<1> USE DEF CronInv, TaskPlaces, PlannerPlaces
<1>1. planner["watcher"] # "gone"
  BY DEF PlannerStep, CancelIdle, Gathered, ScheduleAll, Stopped
<1>2. PICK to \in PlannerPlaces \ {"gone"} : planner' = [planner EXCEPT ![p] = to]
  BY DEF PlannerStep, CancelIdle, Gathered, ScheduleAll, Plans
<1>3. planner' \in [Planners -> PlannerPlaces] /\ planner'["watcher"] # "gone"
  BY <1>1, <1>2 DEF CronTypes, Planners
<1>4. Stopped'
  BY <1>3 DEF Stopped
<1>5. CASE CancelIdle(p)
  <2> DEFINE idle == {j \in Jobs : scheduled[j] # None /\ j \notin executing}
             old  == {scheduled[j] : j \in idle} \cap Live
  <2>1. /\ cancelled' = [u \in Users |-> cancelled[u] \/ u \in old]
        /\ scheduled' = [j \in Jobs |-> IF j \in idle THEN None ELSE scheduled[j]]
        /\ at' = at
    BY <1>5 DEF CancelIdle
  <2>2. CronTypes'
    BY <1>3, <2>1 DEF CronTypes
  <2>3. NoOrphans'
    <3> SUFFICES ASSUME NEW u \in Users, at[u] # "free", ~cancelled'[u]
                 PROVE  scheduled'[JobOf[u]] = u
      BY <2>1 DEF NoOrphans, Live
    <3>1. ~cancelled[u] /\ u \notin old
      BY <2>1
    <3>2. scheduled[JobOf[u]] = u /\ JobOf[u] \in Jobs
      BY <3>1, JobsOfUsers DEF NoOrphans, Live
    <3>3. JobOf[u] \notin idle
      BY <3>1, <3>2 DEF Live
    <3>4. QED
      BY <2>1, <3>2, <3>3
  <2>4. QED
    BY <1>4, <2>2, <2>3
<1>6. CASE Gathered(p)
  BY <1>3, <1>4, <1>6 DEF Gathered, tasksAndDeps, CronTypes, NoOrphans, Live
<1>7. CASE ScheduleAll(p)
  <2>1. /\ Enabled \in SUBSET Jobs /\ On \in SUBSET Enabled
        /\ at \in [Users -> TaskPlaces] /\ Schedule(Enabled, On, at)
    BY <1>7 DEF ScheduleAll, Enabled, On, CronTypes
  <2>2. QED
    BY <1>3, <1>4, <2>1, ScheduleKeeps DEF CronTypes
<1>8. QED
  BY <1>5, <1>6, <1>7 DEF PlannerStep

LEMMA OtherStepKeeps ==
    ASSUME CronInv,
           \/ Poll \/ Reloaded \/ Noted \/ BeginStop \/ GoOnStopping
           \/ \E j \in Jobs : Toggle(j) \/ ToolWrites(j)
           \/ UNCHANGED vars
    PROVE  CronInv'
<1> USE DEF CronInv, TaskPlaces, PlannerPlaces
<1>1. CASE UNCHANGED vars
  BY <1>1 DEF vars, cronVars, CronTypes, NoOrphans, Live, Stopped
<1>2. CASE GoOnStopping
  <2>1. /\ ~running /\ running' = running /\ at' = at
        /\ planner' = [p \in Planners |-> "gone"]
        /\ cancelled' = [u \in Users |-> cancelled[u] \/ (scheduled[JobOf[u]] = u /\ u \in Live)]
        /\ scheduled' = [j \in Jobs |-> None]
    BY <1>2 DEF GoOnStopping, StopTasks
  <2>2. \A u \in Live : cancelled'[u]
    BY <2>1 DEF NoOrphans, Live
  <2>3. QED
    BY <2>1, <2>2 DEF CronTypes, NoOrphans, Live, Stopped
<1>3. CASE \/ Poll \/ Reloaded \/ Noted \/ BeginStop
           \/ \E j \in Jobs : Toggle(j) \/ ToolWrites(j)
  <2>1. at' = at /\ cancelled' = cancelled /\ scheduled' = scheduled
    BY <1>3 DEF Poll, Reloaded, Noted, BeginStop, Toggle, ToolWrites, tasksAndDeps
  <2>2. planner' = planner \/ \E p \in Planners, to \in PlannerPlaces \ {"gone"} : planner' = [planner EXCEPT ![p] = to]
    BY <1>3 DEF Poll, Reloaded, Noted, BeginStop, Toggle, ToolWrites, Request, Plans, Planners
  <2>3. planner["watcher"] # "gone"
    BY <1>3 DEF Poll, Reloaded, Noted, BeginStop, Toggle, ToolWrites, Stopped, Planners
  <2>4. planner' \in [Planners -> PlannerPlaces] /\ planner'["watcher"] # "gone"
    BY <2>2, <2>3 DEF CronTypes, Planners
  <2>5. QED
    BY <2>1, <2>4 DEF CronTypes, NoOrphans, Live, Stopped
<1>4. QED
  BY <1>1, <1>2, <1>3

LEMMA CronStepKeeps == CronInv /\ [Next]_vars => CronInv'
BY TaskStepKeeps, PlannerStepKeeps, OtherStepKeeps DEF Next

\* A job never has a task beside the one in the table that is not cancelled, for any
\* jobs, tasks, edits and reschedules.
THEOREM JobsHaveOneTask == Spec => []NoOrphans
<1>1. CronInv => NoOrphans
  BY DEF CronInv
<1>2. QED
  BY CronInitHolds, CronStepKeeps, <1>1, PTL DEF Spec

LEMMA NothingStarts ==
    ASSUME CronInv, [Next]_vars, planner["watcher"] = "gone", NEW u \in Users, at'[u] = "cli"
    PROVE  at[u] = "cli"
<1>1. ~running /\ (\A p \in Planners : planner[p] = "gone") /\ \A v \in Live : cancelled[v]
  BY DEF CronInv, Stopped
<1>2. CASE \E v \in Users : TaskStep(v)
  <2>1. PICK v \in Users : TaskStep(v)
    BY <1>2
  <2>2. Unwind(v)
    BY <1>1, <2>1 DEF TaskStep, Fire, TurnComes, CliEnds, Delivered, Ended, Steps, Live
  <2>3. at' = at \/ at' = [at EXCEPT ![v] = "free"] \/ at' = [at EXCEPT ![v] = "killing"]
    BY <2>2 DEF Unwind, Drop, GoTo
  <2>4. QED
    BY <2>3 DEF CronInv, CronTypes
<1>3. CASE \E p \in Planners : PlannerStep(p)
  BY <1>1, <1>3 DEF PlannerStep, CancelIdle, Gathered, ScheduleAll
<1>4. CASE \/ Poll \/ Reloaded \/ Noted \/ BeginStop \/ GoOnStopping
           \/ \E j \in Jobs : Toggle(j) \/ ToolWrites(j)
  BY <1>4 DEF Poll, Reloaded, Noted, BeginStop, GoOnStopping, Toggle, ToolWrites, tasksAndDeps
<1>5. CASE UNCHANGED vars
  BY <1>5 DEF vars, cronVars
<1>6. QED
  BY <1>2, <1>3, <1>4, <1>5 DEF Next

\* Once stop has cancelled the tasks, no job starts its CLI any more.
THEOREM NothingAfterStop == Spec => StopHolds
<1>1. CronInv /\ [Next]_vars =>
          [planner["watcher"] = "gone" => \A u \in Users : at'[u] = "cli" => at[u] = "cli"]_vars
  BY NothingStarts
<1>2. QED
  BY CronInitHolds, CronStepKeeps, <1>1, PTL DEF Spec, StopHolds

-----------------------------------------------------------------------------
(* ScheduleTrue is inductive beside the invariant above: only the end of a   *)
(* reschedule brings both planners to rest, and it schedules every enabled   *)
(* job, or takes its task away if the expression is invalid; with both at    *)
(* rest a toggle puts one to work, a task that ends leaves a successor, and  *)
(* only a cancelled task leaves none.                                        *)

\* The model has a task for every job, as the code can always create one.
TasksForAll == \A j \in Jobs : \E u \in Users : JobOf[u] = j

\* u will run its job; j has such a task.
Runner(u) == u \in Live /\ ~cancelled[u]
Served(j) == \E u \in Users : JobOf[u] = j /\ Runner(u)

AllIdle == \A p \in Planners : planner[p] = "idle"

ServesRight ==
    running /\ AllIdle =>
        \A j \in Jobs : (mem[j] = "on" => Served(j)) /\ (mem[j] = "bad" => ~Served(j))

LEMMA ServedRight == ScheduleTrue <=> ServesRight
<1>1. (On = {j \in Enabled : \E u \in Live : JobOf[u] = j /\ ~cancelled[u]}) <=>
          \A j \in Jobs : (mem[j] = "on" => Served(j)) /\ (mem[j] = "bad" => ~Served(j))
  BY DEF On, Enabled, Served, Runner, Live
<1>2. QED
  BY <1>1 DEF ScheduleTrue, ServesRight, AllIdle

LEMMA ServedRightAfter == (ScheduleTrue <=> ServesRight)'
BY ServedRight, PTL

\* Each of the jobs that get a task is served, those of the others that were to be
\* scheduled are not, and the rest are served by whom they were.
LEMMA ScheduleCovers ==
    ASSUME CronTypes, NoOrphans, NEW jobs \in SUBSET Jobs, NEW valid \in SUBSET jobs,
           NEW moved \in [Users -> TaskPlaces],
           \A u \in Users : moved[u] # "free" => at[u] # "free",
           Schedule(jobs, valid, moved)
    PROVE  /\ \A j \in valid : Served(j)'
           /\ \A j \in jobs \ valid : ~Served(j)'
           /\ \A u \in Users : JobOf[u] \notin jobs =>
                  (Runner(u)' <=> moved[u] # "free" /\ ~cancelled[u])
<1> DEFINE new == [j \in valid |-> CHOOSE u \in FreeUsers(j) : TRUE]
<1>1. /\ at' = [u \in Users |-> IF \E j \in valid : new[j] = u THEN "sleeping" ELSE moved[u]]
      /\ cancelled' = [u \in Users |->
             moved[u] # "free" /\ (cancelled[u] \/ (JobOf[u] \in jobs /\ scheduled[JobOf[u]] = u))]
  BY DEF Schedule
<1>2. \A j \in valid : new[j] \in Users /\ JobOf[new[j]] = j /\ at[new[j]] = "free"
  <2>1. \A j \in valid : new[j] \in FreeUsers(j)
    BY DEF Schedule
  <2>2. QED
    BY <2>1 DEF FreeUsers, Live
<1> HIDE DEF new
<1>3. ASSUME NEW j \in valid
      PROVE  Served(j)'
  <2>1. PICK u \in Users : u = new[j] /\ JobOf[u] = j /\ at[u] = "free"
    BY <1>2
  <2>2. moved[u] = "free"
    BY <2>1
  <2>3. at'[u] = "sleeping" /\ ~cancelled'[u]
    BY <1>1, <2>1, <2>2
  <2>4. QED
    BY <2>1, <2>3 DEF Served, Runner, Live
<1>4. ASSUME NEW u \in Users, JobOf[u] \notin valid
      PROVE  at'[u] = moved[u]
  BY <1>1, <1>2, <1>4
<1>5. ASSUME NEW u \in Users, JobOf[u] \in jobs \ valid
      PROVE  ~Runner(u)'
  <2>1. at'[u] # "free" => at[u] # "free" /\ moved[u] # "free"
    BY <1>4, <1>5
  <2>2. at[u] # "free" /\ ~cancelled[u] => scheduled[JobOf[u]] = u
    BY DEF NoOrphans, Live
  <2>3. QED
    BY <1>1, <1>5, <2>1, <2>2 DEF Runner, Live
<1>6. ASSUME NEW u \in Users, JobOf[u] \notin jobs
      PROVE  Runner(u)' <=> moved[u] # "free" /\ ~cancelled[u]
  BY <1>1, <1>4, <1>6 DEF Runner, Live
<1>7. QED
  BY <1>3, <1>5, <1>6 DEF Served

LEMMA TaskStepCovers ==
    ASSUME CronInv, ScheduleTrue, NEW u \in Users, TaskStep(u)
    PROVE  ScheduleTrue'
<1>1. running' = running /\ planner' = planner /\ mem' = mem
  BY DEF TaskStep, Fire, TurnComes, CliEnds, Delivered, Ended, Unwind, files, SaveStatus
<1> SUFFICES ASSUME running, AllIdle, NEW j \in Jobs, mem[j] \in {"on", "bad"}
             PROVE  Served(j)' <=> Served(j)
  <2>1. ServesRight
    BY ServedRight
  <2>2. ServesRight'
    BY <1>1, <2>1 DEF ServesRight, AllIdle
  <2>3. QED
    BY <2>2, ServedRightAfter
<1>2. (mem[j] = "on" => Served(j)) /\ (mem[j] = "bad" => ~Served(j))
  BY ServedRight DEF ServesRight
<1>3. ASSUME ~cancelled[u], u \in Live, Finish(u)
      PROVE  Served(j)' <=> Served(j)
  <2> DEFINE moved == [at EXCEPT ![u] = "free"]
  <2>1. moved \in [Users -> TaskPlaces] /\ \A w \in Users : moved[w] # "free" => at[w] # "free"
    BY DEF CronInv, CronTypes, TaskPlaces
  <2>2. Runner(u) /\ JobOf[u] \in Jobs
    BY <1>3, JobsOfUsers DEF Runner
  <2>3. \A w \in Users \ {u} : moved[w] # "free" /\ ~cancelled[w] <=> Runner(w)
    BY DEF Runner, Live, CronInv, CronTypes
  <2>4. CASE JobOf[u] \in Enabled
    <3>1. Schedule({JobOf[u]}, {JobOf[u]}, moved) /\ {JobOf[u]} \in SUBSET Jobs
          /\ {JobOf[u]} \in SUBSET {JobOf[u]}
      BY <1>3, <2>2, <2>4 DEF Finish
    <3> HIDE DEF moved
    <3>2. /\ \A i \in {JobOf[u]} : Served(i)'
          /\ \A w \in Users : JobOf[w] \notin {JobOf[u]} =>
                 (Runner(w)' <=> moved[w] # "free" /\ ~cancelled[w])
      BY <2>1, <3>1, ScheduleCovers DEF CronInv
    <3>3. CASE j = JobOf[u]
      BY <2>2, <3>2, <3>3 DEF Served
    <3>4. CASE j # JobOf[u]
      BY <2>3, <3>2, <3>4 DEF Served
    <3>5. QED
      BY <3>3, <3>4
  <2>5. CASE JobOf[u] \notin Enabled
    <3>1. j # JobOf[u]
      BY <2>5 DEF Enabled
    <3>2. at' = moved /\ cancelled' = cancelled
      BY <1>3, <2>5 DEF Finish, GoTo
    <3>3. \A w \in Users \ {u} : Runner(w)' <=> Runner(w)
      BY <2>3, <3>2 DEF Runner, Live
    <3>4. QED
      BY <3>1, <3>3 DEF Served
  <2>6. QED
    BY <2>4, <2>5
<1>4. ASSUME u \in Live, cancelled' = cancelled,
             \E to \in TaskPlaces \ {"free"} : at' = [at EXCEPT ![u] = to]
      PROVE  Served(j)' <=> Served(j)
  <2>1. \A w \in Users : Runner(w)' <=> Runner(w)
    BY <1>4 DEF Runner, Live, CronInv, CronTypes
  <2>2. QED
    BY <2>1 DEF Served
<1>5. CASE Unwind(u)
  <2>1. cancelled[u]
    BY <1>5 DEF Unwind
  <2>2. \A w \in Users \ {u} : at'[w] = at[w] /\ cancelled'[w] = cancelled[w]
    BY <1>5 DEF Unwind, Drop, GoTo, CronInv, CronTypes
  <2>3. ~Runner(u)'
    BY <1>5 DEF Unwind, Drop, GoTo, CronInv, CronTypes, Runner, Live
  <2>4. \A w \in Users : Runner(w)' <=> Runner(w)
    BY <2>1, <2>2, <2>3 DEF Runner, Live
  <2>5. QED
    BY <2>4 DEF Served
<1>6. CASE ~Unwind(u)
  <2>1. ~cancelled[u] /\ u \in Live
    BY <1>6 DEF TaskStep, Fire, TurnComes, CliEnds, Delivered, Ended, Steps, Live
  <2>2. \/ Finish(u)
        \/ cancelled' = cancelled /\ \E to \in TaskPlaces \ {"free"} : at' = [at EXCEPT ![u] = to]
    BY <1>6 DEF TaskStep, Fire, TurnComes, CliEnds, Delivered, Ended, GoTo, TaskPlaces
  <2>3. QED
    BY <1>3, <1>4, <2>1, <2>2
<1>7. QED
  BY <1>5, <1>6

LEMMA CronStepCovers == CronInv /\ ScheduleTrue /\ [Next]_vars => ScheduleTrue'
<1> SUFFICES ASSUME CronInv, ScheduleTrue, [Next]_vars
             PROVE  ScheduleTrue'
  OBVIOUS
<1>1. CASE \E u \in Users : TaskStep(u)
  BY <1>1, TaskStepCovers
<1>2. ASSUME NEW p \in Planners, CancelIdle(p) \/ Gathered(p)
      PROVE  ScheduleTrue'
  <2>1. planner'[p] # "idle"
    BY <1>2 DEF CancelIdle, Gathered, Plans, CronInv, CronTypes
  <2>2. QED
    BY <2>1 DEF ScheduleTrue
<1>3. ASSUME NEW p \in Planners, ScheduleAll(p)
      PROVE  ScheduleTrue'
  <2>1. /\ Enabled \in SUBSET Jobs /\ On \in SUBSET Enabled /\ at \in [Users -> TaskPlaces]
        /\ Schedule(Enabled, On, at) /\ mem' = mem
    BY <1>3 DEF ScheduleAll, Enabled, On, CronInv, CronTypes
  <2>2. (\A j \in On : Served(j)') /\ \A j \in Enabled \ On : ~Served(j)'
    BY <2>1, ScheduleCovers DEF CronInv
  <2>3. \A j \in Jobs : (mem'[j] = "on" => Served(j)') /\ (mem'[j] = "bad" => ~Served(j)')
    BY <2>1, <2>2 DEF On, Enabled
  <2>4. QED
    BY <2>3, ServedRightAfter DEF ServesRight
<1>4. CASE Poll \/ Reloaded \/ Noted \/ BeginStop \/ GoOnStopping
  <2>1. ~running' \/ \E p \in Planners : planner'[p] # "idle"
    BY <1>4 DEF Poll, Reloaded, Noted, BeginStop, GoOnStopping, Plans, Planners, CronInv, CronTypes
  <2>2. QED
    BY <2>1 DEF ScheduleTrue
<1>5. ASSUME NEW j \in Jobs, Toggle(j)
      PROVE  ScheduleTrue'
  <2>1. planner'["request"] # "idle"
    BY <1>5 DEF Toggle, Request, Plans, Planners, CronInv, CronTypes
  <2>2. QED
    BY <2>1 DEF ScheduleTrue, Planners
<1>6. CASE UNCHANGED vars \/ \E j \in Jobs : ToolWrites(j)
  <2>1. UNCHANGED <<running, planner, mem, at, cancelled>>
    BY <1>6 DEF vars, cronVars, ToolWrites, tasksAndDeps
  <2>2. QED
    BY <2>1 DEF ScheduleTrue, On, Enabled, Live
<1>7. QED
  BY <1>1, <1>2, <1>3, <1>4, <1>5, <1>6 DEF Next, PlannerStep

\* While nobody reschedules, of the enabled jobs exactly those with a valid expression
\* have a task that will run them, for any jobs, edits and interleaving of toggles,
\* polls and jobs that end.
THEOREM NoJobForgotten == TasksForAll /\ Spec => []ScheduleTrue
<1>1. ASSUME TasksForAll, Init
      PROVE  ScheduleTrue
  <2>1. ASSUME NEW j \in Jobs, mem[j] = "on"
        PROVE  Served(j)
    <3>1. scheduled[j] \in Users /\ JobOf[scheduled[j]] = j
      <4>1. scheduled[j] = CHOOSE u \in Users : JobOf[u] = j
        BY <1>1, <2>1 DEF Init, On
      <4>2. QED
        BY <1>1, <4>1 DEF TasksForAll
    <3>2. at[scheduled[j]] = "sleeping" /\ ~cancelled[scheduled[j]]
      BY <1>1, <3>1 DEF Init
    <3>3. QED
      BY <3>1, <3>2 DEF Served, Runner, Live
  <2>2. ASSUME NEW j \in Jobs, mem[j] = "bad", NEW u \in Users, JobOf[u] = j
        PROVE  at[u] = "free"
    <3>1. scheduled[j] = None
      BY <1>1, <2>2 DEF Init, On
    <3>2. scheduled[j] # u
      BY <3>1, CronAssumption
    <3>3. QED
      BY <1>1, <2>2, <3>2 DEF Init
  <2>3. QED
    BY <2>1, <2>2, ServedRight DEF ServesRight, Served, Runner, Live
<1>2. CASE TasksForAll
  BY <1>1, <1>2, CronInitHolds, CronStepKeeps, CronStepCovers, PTL DEF Spec
<1>3. CASE ~TasksForAll
  BY <1>3
<1>4. QED
  BY <1>2, <1>3
=============================================================================
