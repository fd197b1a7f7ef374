--------------------------- MODULE SessionsProofs ---------------------------
(***************************************************************************)
(* Proofs about the session file, for any keys, providers, turns and       *)
(* commands: a late write changes no session but its own and those that it *)
(* missed a write to, and the file holds what the completed operations add *)
(* up to, but for sessions disturbed in this way.                          *)
(***************************************************************************)
EXTENDS Sessions, TLAPS

\* The operations an actor may be at.
AllPlaces ==
    {"idle", "resolve", "sync", "call", "update", "reset", "switch", "config", "over"}
PlacesOf(a) ==
    IF a \in Turns THEN AllPlaces \ {"switch", "config"}
    ELSE IF a \in Resets THEN {"idle", "reset", "over"} ELSE {"idle", "switch", "config", "over"}

Files   == [Keys -> Stored \cup {None}]
Ids     == Turns \cup {Earlier, None}
Entries == [id : Ids, count : Nat]

\* Where a turn has a session to work with.
Holding(a) == pc[a] \in {"sync", "call", "update"} \/ (pc[a] = "resolve" /\ buf[a] # None)

\* The operations that write what they have read.
Writing == {"resolve", "sync", "update", "reset", "switch"}

Types ==
    /\ file \in Files /\ default \in Providers
    /\ pc \in [Actors -> AllPlaces] /\ \A a \in Actors : pc[a] \in PlacesOf(a)
    /\ target \in [Actors -> Providers]
    /\ buf \in [Actors -> Files \cup {None}]
    /\ snap \in [Turns -> Stored \cup {None}]
    /\ meant \in Files
    /\ missed \in [Actors -> SUBSET Keys]
    /\ \A a \in Turns : Holding(a) => snap[a] \in Stored
    /\ \A a \in Actors : buf[a] # None => pc[a] \in Writing /\ buf[a][KeyOf[a]] \in Stored

-----------------------------------------------------------------------------
(* What the operators on session data return. *)

LEMMA NoDataTyped == Empty \in Entries /\ NoData \in Datas
BY DEF NoData, Empty, Ids, Entries, Datas

LEMMA SessionTyped ==
    ASSUME NEW p \in Providers, NEW d \in Datas
    PROVE  /\ Session(p, d) \in Stored /\ Session(p, d) # None
           /\ Session(p, d).provider = p /\ Session(p, d).data = d
BY SessionsAssumption DEF Session, Stored

LEMMA StoredFields ==
    ASSUME NEW s \in Stored
    PROVE  /\ s.provider \in Providers /\ s.data \in Datas /\ s # None
           /\ s = Session(s.provider, s.data)
BY SessionsAssumption DEF Stored, Session

LEMMA OrElseTyped ==
    ASSUME NEW p \in Providers \cup {None}, NEW q \in Providers
    PROVE  OrElse(p, q) \in Providers
BY DEF OrElse

\* The answer of a turn may give the session another id.
Named(d, p, i) == [d EXCEPT ![p].id = i]
LEMMA NamedTyped ==
    ASSUME NEW d \in Datas, NEW p \in Providers, NEW i \in Ids
    PROVE  Named(d, p, i) \in Datas
BY DEF Named, Datas, Ids

LEMMA AnswerTyped ==
    ASSUME NEW s \in Stored, NEW i \in Ids
    PROVE  /\ [s EXCEPT !.data[s.provider].id = i] \in Stored
           /\ [s EXCEPT !.data[s.provider].id = i].provider = s.provider
           /\ [s EXCEPT !.data[s.provider].id = i].data = Named(s.data, s.provider, i)
<1>1. s.provider \in Providers /\ s.data \in Datas
  BY DEF Stored
<1>2. [s EXCEPT !.data[s.provider].id = i] = [s EXCEPT !.data = Named(s.data, s.provider, i)]
  BY <1>1 DEF Named, Stored
<1>3. QED
  BY <1>1, <1>2, NamedTyped DEF Stored

OneMore(d, p) == [d EXCEPT ![p].count = @ + 1]
LEMMA OneMoreTyped ==
    ASSUME NEW d \in Datas, NEW p \in Providers
    PROVE  /\ OneMore(d, p) \in Datas
           /\ OneMore(d, p) = [d EXCEPT ![p] = [id |-> d[p].id, count |-> d[p].count + 1]]
<1>1. d[p] \in Entries
  BY DEF Datas, Ids, Entries
<1>2. [d[p] EXCEPT !.count = @ + 1] = [id |-> d[p].id, count |-> d[p].count + 1]
  BY <1>1 DEF Entries
<1>3. OneMore(d, p) = [d EXCEPT ![p] = [d[p] EXCEPT !.count = @ + 1]]
  BY DEF OneMore, Datas
<1>4. [id |-> d[p].id, count |-> d[p].count + 1] \in Entries
  BY <1>1 DEF Entries
<1>5. QED
  BY <1>2, <1>3, <1>4 DEF Datas, Ids, Entries

LEMMA DroppedTyped ==
    ASSUME NEW d \in Datas, NEW p \in Providers
    PROVE  [d EXCEPT ![p] = Empty] \in Datas
BY NoDataTyped DEF Datas, Ids, Entries

LEMMA MergeTyped ==
    ASSUME NEW d \in Datas, NEW e \in Datas
    PROVE  Merge(d, e) \in Datas
BY DEF Merge, Datas

\* A turn that nobody overtook merges into the file what it made of the file.
LEMMA MergeOwn ==
    ASSUME NEW d \in Datas, NEW p \in Providers, NEW i \in Turns \cup {d[p].id}
    PROVE  Merge(d, Named(d, p, i)) = Named(d, p, i)
BY SessionsAssumption DEF Merge, Named, Datas, Actors

-----------------------------------------------------------------------------
(* Types hold in every reachable state. *)

LEMMA Own == \A a \in Actors : KeyOf[a] \in Keys
BY SessionsAssumption

\* A buffer that is written holds the file with one session replaced.
LEMMA WriteTyped ==
    ASSUME Types, NEW a \in Actors, NEW s \in Stored, WillWrite(a, s)
    PROVE  /\ buf' \in [Actors -> Files \cup {None}]
           /\ buf'[a] # None /\ buf'[a][KeyOf[a]] = s
           /\ \A k \in Keys \ {KeyOf[a]} : buf'[a][k] = file[k]
           /\ \A b \in Actors : b # a => buf'[b] = buf[b]
<1> DEFINE W == [file EXCEPT ![KeyOf[a]] = s]
<1>1. W \in Files /\ W[KeyOf[a]] = s /\ \A k \in Keys \ {KeyOf[a]} : W[k] = file[k]
  BY Own DEF Types, Files
<1>2. buf' = [buf EXCEPT ![a] = W]
  BY DEF WillWrite
<1>3. W # None
  BY <1>1, SessionsAssumption DEF Files
<1> HIDE DEF W
<1>4. buf'[a] = W /\ buf' \in [Actors -> Files \cup {None}]
      /\ \A b \in Actors : b # a => buf'[b] = buf[b]
  BY <1>1, <1>2 DEF Types
<1>5. QED
  BY <1>1, <1>3, <1>4

LEMMA GoesTyped ==
    ASSUME Types, NEW a \in Actors, NEW to \in PlacesOf(a), Goes(a, to)
    PROVE  /\ pc' \in [Actors -> AllPlaces] /\ \A b \in Actors : pc'[b] \in PlacesOf(b)
           /\ pc'[a] = to /\ \A b \in Actors : b # a => pc'[b] = pc[b]
<1>1. to \in AllPlaces
  BY DEF PlacesOf, AllPlaces
<1>2. pc' = [pc EXCEPT ![a] = to]
  BY DEF Goes
<1>3. QED
  BY <1>1, <1>2 DEF Types

\* Where an operation that is done leads.
LEMMA AfterTyped ==
    ASSUME Types, NEW a \in Actors
    PROVE  /\ After(a) \in PlacesOf(a) /\ After(a) \notin {"reset", "update"}
           /\ After(a) = "sync" => pc[a] = "resolve"
           /\ After(a) = "call" => pc[a] = "sync"
<1>1. pc[a] \in PlacesOf(a)
  BY DEF Types
<1>2. CASE pc[a] = "resolve"
  BY <1>1, <1>2 DEF After, PlacesOf, AllPlaces
<1>3. CASE pc[a] = "sync"
  BY <1>1, <1>3 DEF After, PlacesOf, AllPlaces
<1>4. CASE pc[a] = "switch"
  BY <1>1, <1>4 DEF After, PlacesOf, AllPlaces
<1>5. CASE pc[a] = "reset" /\ a \in Turns
  BY <1>5 DEF After, PlacesOf, AllPlaces
<1>6. CASE pc[a] \notin {"resolve", "sync", "switch"} /\ ~(pc[a] = "reset" /\ a \in Turns)
  <2>1. After(a) = "over"
    BY <1>6 DEF After
  <2>2. QED
    BY <1>1, <1>6, <2>1 DEF PlacesOf, AllPlaces
<1>7. QED
  BY <1>2, <1>3, <1>4, <1>5, <1>6

\* What the completed operations have left of a session, before this one.
Before(a) ==
    IF meant[KeyOf[a]] = None THEN Session(buf[a][KeyOf[a]].provider, NoData) ELSE meant[KeyOf[a]]

LEMMA BeforeTyped ==
    ASSUME Types, NEW a \in Actors, buf[a] # None
    PROVE  Before(a) \in Stored /\ Before(a).provider \in Providers /\ Before(a).data \in Datas
<1>1. meant[KeyOf[a]] \in Stored \cup {None} /\ buf[a][KeyOf[a]] \in Stored
  BY Own DEF Types, Files
<1>2. Before(a) \in Stored
  BY <1>1, StoredFields, SessionTyped, NoDataTyped DEF Before
<1>3. QED
  BY <1>2, StoredFields

\* The effect of each operation.
LEMMA EffectIs ==
    ASSUME Types, NEW a \in Actors, buf[a] # None
    PROVE  /\ Replaces(a) => Effect(a) = buf[a][KeyOf[a]]
           /\ pc[a] = "resolve" /\ ~Replaces(a)
                => Effect(a) = Session(snap[a].provider, Before(a).data)
           /\ pc[a] = "reset"
                => Effect(a) = Session(target[a], [Before(a).data EXCEPT ![target[a]] = Empty])
           /\ pc[a] = "switch" => Effect(a) = Session(target[a], Before(a).data)
           /\ pc[a] = "sync" => Effect(a) = Before(a)
           /\ pc[a] = "update"
                => Effect(a) = Session(Before(a).provider,
                       [Before(a).data EXCEPT ![snap[a].provider] =
                           [id |-> snap[a].data[snap[a].provider].id, count |-> @.count + 1]])
<1>1. pc[a] \in PlacesOf(a)
  BY DEF Types
<1>2. CASE pc[a] = "resolve"
  <2>1. a \in Turns
    BY <1>1, <1>2 DEF PlacesOf
  <2>2. QED
    BY <1>2, <2>1 DEF Effect, Before, Replaces
<1>3. CASE pc[a] = "reset"
  BY <1>3 DEF Effect, Before, Replaces
<1>4. CASE pc[a] = "switch"
  <2>1. a \notin Turns
    BY <1>1, <1>4 DEF PlacesOf
  <2>2. QED
    BY <1>4, <2>1 DEF Effect, Before, Replaces
<1>5. CASE pc[a] = "update"
  <2>1. a \in Turns
    BY <1>1, <1>5, SessionsAssumption DEF PlacesOf
  <2>2. QED
    BY <1>5, <2>1 DEF Effect, Before, Replaces
<1>6. CASE pc[a] \notin {"resolve", "reset", "switch", "update"}
  BY <1>6 DEF Effect, Before, Replaces
<1>7. QED
  BY <1>2, <1>3, <1>4, <1>5, <1>6

LEMMA EffectTyped ==
    ASSUME Types, NEW a \in Actors, buf[a] # None
    PROVE  Effect(a) \in Stored
<1> DEFINE d == Before(a).data
<1>0. /\ Before(a) \in Stored /\ Before(a).provider \in Providers /\ d \in Datas
      /\ target[a] \in Providers /\ pc[a] \in Writing /\ pc[a] \in PlacesOf(a)
      /\ buf[a][KeyOf[a]] \in Stored
  BY BeforeTyped DEF Types
<1>1. CASE pc[a] \in {"resolve", "update"}
  <2>1. snap[a] \in Stored
    <3>1. a \in Turns
      BY <1>0, <1>1 DEF PlacesOf
    <3>2. QED
      BY <3>1, <1>1 DEF Types, Holding
  <2>2. snap[a].provider \in Providers /\ snap[a].data \in Datas
    BY <2>1, StoredFields
  <2> DEFINE p == snap[a].provider
             e == [id |-> snap[a].data[p].id, count |-> d[p].count + 1]
  <2>3. e \in Entries
    BY <1>0, <2>2 DEF Datas, Ids, Entries
  <2>4. pc[a] = "update" => Effect(a) = Session(Before(a).provider, [d EXCEPT ![p] = e])
    BY <1>0, EffectIs, <2>2 DEF Datas
  <2> HIDE DEF e
  <2>5. [d EXCEPT ![p] = e] \in Datas
    BY <1>0, <2>2, <2>3 DEF Datas, Ids, Entries
  <2>6. CASE pc[a] = "resolve"
    <3>1. Effect(a) = buf[a][KeyOf[a]] \/ Effect(a) = Session(p, d)
      BY <2>6, EffectIs
    <3>2. QED
      BY <1>0, <2>2, <3>1, SessionTyped
  <2>7. QED
    BY <1>0, <1>1, <2>4, <2>5, <2>6, SessionTyped
<1>2. CASE pc[a] = "reset"
  <2>1. Effect(a) = Session(target[a], [d EXCEPT ![target[a]] = Empty])
    BY <1>2, EffectIs
  <2>2. QED
    BY <1>0, <2>1, DroppedTyped, SessionTyped
<1>3. CASE pc[a] \in {"sync", "switch"}
  <2>1. Effect(a) = Before(a) \/ Effect(a) = Session(target[a], d)
    BY <1>3, EffectIs
  <2>2. QED
    BY <1>0, <2>1, SessionTyped
<1>4. QED
  BY <1>0, <1>1, <1>2, <1>3 DEF Writing

LEMMA TypesInit == Init => Types
<1> SUFFICES ASSUME Init PROVE Types
  OBVIOUS
<1>1. \A a \in Actors : pc[a] = "idle" /\ pc[a] \in PlacesOf(a)
  BY DEF Init, PlacesOf, AllPlaces
<1>2. pc \in [Actors -> AllPlaces]
  BY DEF Init, AllPlaces
<1>3. \A a \in Turns : ~Holding(a)
  BY <1>1 DEF Holding, Actors
<1>4. file \in Files /\ meant \in Files
  BY SessionsAssumption DEF Init, Files
<1>5. \A a \in Actors : buf[a] = None
  BY DEF Init
<1>6. QED
  BY <1>1, <1>2, <1>3, <1>4, <1>5, SessionsAssumption DEF Init, Types

\* The session that resolve_session hands out: it replaces the one it finds or takes it on.
LEMMA Resolved ==
    ASSUME Types, NEW a \in Actors, Resolve(a)
    PROVE  /\ a \in Turns /\ pc[a] = "resolve" /\ buf[a] = None
           /\ \E s \in Stored :
                /\ snap' = [snap EXCEPT ![a] = s]
                /\ s.data = NoData \/ (file[KeyOf[a]] # None /\ s.data = file[KeyOf[a]].data)
                /\ \/ s = file[KeyOf[a]] /\ Goes(a, "sync") /\ UNCHANGED buf
                   \/ WillWrite(a, s) /\ UNCHANGED pc
<1> DEFINE found == file[KeyOf[a]]
           wanted == OrElse(Asks[a], TopicDefault[KeyOf[a]])
<1>1. a \in Turns /\ pc[a] = "resolve" /\ buf[a] = None
  BY DEF Resolve, ReadsUnlocked, Types, PlacesOf
<1>2. found \in Stored \cup {None} /\ wanted \in Providers \cup {None}
  BY <1>1, Own, SessionsAssumption DEF Types, Files, OrElse
<1>3. PICK fresh \in BOOLEAN :
        LET kept == found # None /\ fresh
            used == IF kept THEN Session(OrElse(wanted, found.provider), found.data)
                            ELSE Session(OrElse(wanted, default), NoData)
        IN
        /\ snap' = [snap EXCEPT ![a] = used]
        /\ \/ WillWrite(a, used) /\ UNCHANGED pc
           \/ kept /\ used = found /\ Goes(a, "sync") /\ UNCHANGED buf
  BY DEF Resolve
<1> DEFINE kept == found # None /\ fresh
           used == IF kept THEN Session(OrElse(wanted, found.provider), found.data)
                           ELSE Session(OrElse(wanted, default), NoData)
<1> HIDE DEF wanted
<1>4. used \in Stored /\ (used.data = NoData \/ (found # None /\ used.data = found.data))
  <2>1. CASE kept
    <3>1. found.provider \in Providers /\ found.data \in Datas
      BY <1>2, <2>1, StoredFields
    <3>2. OrElse(wanted, found.provider) \in Providers
      BY <1>2, <3>1, OrElseTyped
    <3>3. QED
      BY <2>1, <3>1, <3>2, SessionTyped
  <2>2. CASE ~kept
    <3>1. OrElse(wanted, default) \in Providers
      BY <1>2, OrElseTyped DEF Types
    <3>2. QED
      BY <2>2, <3>1, SessionTyped, NoDataTyped
  <2>3. QED
    BY <2>1, <2>2
<1>5. /\ snap' = [snap EXCEPT ![a] = used]
      /\ \/ WillWrite(a, used) /\ UNCHANGED pc
         \/ used = found /\ Goes(a, "sync") /\ UNCHANGED buf
  BY <1>3
<1> HIDE DEF used
<1>6. QED
  BY <1>1, <1>4, <1>5

\* sync_session_target writes the session it finds, or nothing.
LEMMA Synced ==
    ASSUME Types, NEW a \in Actors, NEW p \in Providers, SyncTo(a, p), pc[a] \in LockedOps
    PROVE  /\ buf[a] = None /\ lock = None
           /\ \/ /\ file[KeyOf[a]] \in Stored /\ Session(p, file[KeyOf[a]].data) \in Stored
                 /\ WillWrite(a, Session(p, file[KeyOf[a]].data))
                 /\ lock' = a /\ UNCHANGED pc
              \/ /\ file[KeyOf[a]] # None => file[KeyOf[a]].provider = p
                 /\ Goes(a, After(a)) /\ UNCHANGED <<buf, lock>>
<1> DEFINE found == file[KeyOf[a]]
<1>1. found # None => found \in Stored
  BY Own DEF Types, Files
<1>2. found # None => Session(p, found.data) \in Stored
  BY <1>1, StoredFields, SessionTyped
<1>3. QED
  BY <1>1, <1>2 DEF SyncTo, ReadsLocked

\* What update_session makes of a session.
LEMMA CountedTyped ==
    ASSUME NEW a \in Turns, snap[a] \in Stored, NEW found \in Stored \cup {None}
    PROVE  /\ Counted(a, found) \in Stored
           /\ found # None => Counted(a, found) = Session(snap[a].provider,
                                  OneMore(Merge(found.data, snap[a].data), snap[a].provider))
<1> DEFINE data == IF found = None THEN snap[a].data ELSE Merge(found.data, snap[a].data)
<1>1. snap[a].data \in Datas /\ snap[a].provider \in Providers
  BY StoredFields
<1>2. data \in Datas
  <2>1. CASE found = None
    BY <1>1, <2>1
  <2>2. CASE found # None
    BY <1>1, <2>2, StoredFields, MergeTyped
  <2>3. QED
    BY <2>1, <2>2
<1>3. Counted(a, found) = Session(snap[a].provider, OneMore(data, snap[a].provider))
  BY DEF Counted, OneMore
<1>4. found # None => data = Merge(found.data, snap[a].data)
  OBVIOUS
<1> HIDE DEF data
<1>5. QED
  BY <1>1, <1>2, <1>3, <1>4, OneMoreTyped, SessionTyped

\* What reset_provider_session makes of a session.
Dropped(p, found) ==
    Session(p, IF found = None THEN NoData ELSE [found.data EXCEPT ![p] = Empty])

LEMMA ResetTyped ==
    ASSUME NEW p \in Providers, NEW found \in Stored \cup {None}
    PROVE  Dropped(p, found) \in Stored
<1> DEFINE data == IF found = None THEN NoData ELSE [found.data EXCEPT ![p] = Empty]
<1>1. data \in Datas
  <2>1. CASE found = None
    BY <2>1, NoDataTyped
  <2>2. CASE found # None
    <3>1. found.data \in Datas
      BY <2>2, StoredFields
    <3>2. QED
      BY <2>2, <3>1, DroppedTyped
  <2>3. QED
    BY <2>1, <2>2
<1>2. Dropped(p, found) = Session(p, data)
  BY DEF Dropped
<1> HIDE DEF data
<1>3. QED
  BY <1>1, <1>2, SessionTyped

\* Every step but a save concerns its actor only, and the file in no way.
Step(a) ==
    \/ Begin(a) \/ Inject(a) \/ Resolve(a) \/ Sync(a) \/ Answered(a) \/ Failed(a)
    \/ Recover(a) \/ Update(a) \/ Reset(a) \/ Ask(a) \/ Switch(a) \/ Configure(a)

Aside(b) ==
    /\ pc'[b] = pc[b] /\ buf'[b] = buf[b] /\ target'[b] = target[b] /\ missed'[b] = missed[b]
    /\ b \in Turns => snap'[b] = snap[b]

LEMMA Read ==
    ASSUME Types, NEW a \in Actors, NEW s \in Stored, WillWrite(a, s), pc[a] \in Writing,
           UNCHANGED <<pc, file, default, meant>>, target' = target, missed' \in [Actors -> SUBSET Keys],
           \/ UNCHANGED snap /\ (pc[a] # "resolve")
           \/ a \in Turns /\ snap' = [snap EXCEPT ![a] = s]
    PROVE  Types'
<1>1. /\ buf' \in [Actors -> Files \cup {None}] /\ buf'[a] # None /\ buf'[a][KeyOf[a]] = s
      /\ \A b \in Actors : b # a => buf'[b] = buf[b]
  BY WriteTyped
<1>2. \A b \in Actors : buf'[b] # None => pc'[b] \in Writing /\ buf'[b][KeyOf[b]] \in Stored
  BY <1>1 DEF Types
<1>3. snap' \in [Turns -> Stored \cup {None}]
  BY DEF Types
<1>4. \A b \in Turns : Holding(b)' => snap'[b] \in Stored
  <2>1. SUFFICES ASSUME NEW b \in Turns, Holding(b)' PROVE snap'[b] \in Stored
    OBVIOUS
  <2>2. CASE b = a
    BY <2>1, <2>2 DEF Types, Holding
  <2>3. CASE b # a
    BY <1>1, <2>1, <2>3 DEF Types, Holding, Actors
  <2>4. QED
    BY <2>2, <2>3
<1>5. QED
  BY <1>1, <1>2, <1>3, <1>4 DEF Types

LEMMA Moved ==
    ASSUME Types, NEW a \in Actors, NEW to \in PlacesOf(a), Goes(a, to), buf[a] = None,
           UNCHANGED <<file, buf, meant>>, default' \in Providers,
           target' \in [Actors -> Providers], missed' \in [Actors -> SUBSET Keys],
           snap' \in [Turns -> Stored \cup {None}], \A b \in Turns : b # a => snap'[b] = snap[b],
           a \in Turns /\ to \in {"sync", "call", "update"} => snap'[a] \in Stored
    PROVE  Types'
<1>1. /\ pc' \in [Actors -> AllPlaces] /\ \A b \in Actors : pc'[b] \in PlacesOf(b)
      /\ pc'[a] = to /\ \A b \in Actors : b # a => pc'[b] = pc[b]
  BY GoesTyped
<1>2. \A b \in Turns : Holding(b)' => snap'[b] \in Stored
  <2>1. SUFFICES ASSUME NEW b \in Turns, Holding(b)' PROVE snap'[b] \in Stored
    OBVIOUS
  <2>2. CASE b = a
    BY <1>1, <2>1, <2>2 DEF Holding
  <2>3. CASE b # a
    BY <1>1, <2>1, <2>3 DEF Types, Holding, Actors
  <2>4. QED
    BY <2>2, <2>3
<1>3. \A b \in Actors : buf'[b] # None => pc'[b] \in Writing /\ buf'[b][KeyOf[b]] \in Stored
  BY <1>1 DEF Types
<1>4. QED
  BY <1>1, <1>2, <1>3 DEF Types

LEMMA TypesStep == Types /\ [Next]_vars => Types'
<1> SUFFICES ASSUME Types, [Next]_vars PROVE Types'
  OBVIOUS
<1> USE DEF Actors
<1>0. \A a \in Actors : target[a] \in Providers /\ missed[a] \subseteq Keys
  BY DEF Types
<1>1. ASSUME NEW a \in Actors, Begin(a) PROVE Types'
  <2> DEFINE to == IF a \in Turns THEN "resolve" ELSE "reset"
             p == OrElse(TopicDefault[KeyOf[a]], Startup)
  <2>1. to \in PlacesOf(a) /\ to \notin {"sync", "call", "update"}
    BY <1>1, SessionsAssumption DEF Begin, PlacesOf, AllPlaces
  <2>2. p \in Providers
    BY Own, OrElseTyped, SessionsAssumption
  <2>3. Goes(a, to) /\ target' = [target EXCEPT ![a] = p] /\ buf[a] = None
    BY <1>1 DEF Begin, Types, Writing
  <2>4. UNCHANGED <<file, buf, meant, default, missed, snap>>
    BY <1>1 DEF Begin, ghosts
  <2> HIDE DEF to, p
  <2>5. target' \in [Actors -> Providers]
    BY <2>2, <2>3 DEF Types
  <2>6. /\ default' \in Providers /\ missed' \in [Actors -> SUBSET Keys]
        /\ snap' \in [Turns -> Stored \cup {None}] /\ \A b \in Turns : b # a => snap'[b] = snap[b]
    BY <2>4 DEF Types
  <2>7. QED
    BY <2>1, <2>3, <2>4, <2>5, <2>6, Moved
<1>2. ASSUME NEW a \in Actors, Resolve(a) PROVE Types'
  <2>1. a \in Turns /\ pc[a] = "resolve" /\ buf[a] = None
    BY <1>2, Resolved
  <2>2. PICK s \in Stored :
             /\ snap' = [snap EXCEPT ![a] = s]
             /\ \/ s = file[KeyOf[a]] /\ Goes(a, "sync") /\ UNCHANGED buf
                \/ WillWrite(a, s) /\ UNCHANGED pc
    BY <1>2, Resolved
  <2>3. UNCHANGED <<file, default, target, meant>> /\ missed' = [missed EXCEPT ![a] = {}]
    BY <1>2 DEF Resolve
  <2>4. missed' \in [Actors -> SUBSET Keys]
    BY <2>3 DEF Types
  <2>5. snap' \in [Turns -> Stored \cup {None}] /\ snap'[a] \in Stored
        /\ \A b \in Turns : b # a => snap'[b] = snap[b]
    BY <2>1, <2>2 DEF Types
  <2>6. CASE Goes(a, "sync") /\ UNCHANGED buf
    <3>1. "sync" \in PlacesOf(a)
      BY <2>1 DEF PlacesOf, AllPlaces
    <3>2. default' \in Providers /\ target' \in [Actors -> Providers]
      BY <2>3 DEF Types
    <3>3. QED
      BY <2>1, <2>3, <2>4, <2>5, <2>6, <3>1, <3>2, Moved
  <2>7. CASE WillWrite(a, s) /\ UNCHANGED pc
    BY <2>1, <2>2, <2>3, <2>4, <2>7, Read DEF Writing
  <2>8. QED
    BY <2>2, <2>6, <2>7
<1>3. ASSUME NEW a \in Actors, NEW p \in Providers, SyncTo(a, p), pc[a] \in {"sync", "switch"},
             a \in Turns => snap[a] \in Stored
      PROVE  Types'
  <2>1. UNCHANGED <<file, default, target, snap, meant, missed>>
    BY <1>3 DEF SyncTo, ghosts
  <2>2. /\ default' \in Providers /\ target' \in [Actors -> Providers]
        /\ missed' \in [Actors -> SUBSET Keys] /\ snap' \in [Turns -> Stored \cup {None}]
        /\ \A b \in Turns : snap'[b] = snap[b]
    BY <2>1 DEF Types
  <2>3. buf[a] = None /\ pc[a] \in LockedOps
    BY <1>3 DEF SyncTo, ReadsLocked, LockedOps
  <2>4. CASE WillWrite(a, Session(p, file[KeyOf[a]].data)) /\ UNCHANGED pc
             /\ Session(p, file[KeyOf[a]].data) \in Stored
    BY <1>3, <2>1, <2>2, <2>3, <2>4, Read DEF Writing
  <2>5. CASE Goes(a, After(a)) /\ UNCHANGED buf
    <3>1. After(a) \in PlacesOf(a) /\ (a \in Turns => snap'[a] \in Stored)
      BY <1>3, <2>2, AfterTyped
    <3>2. QED
      BY <2>1, <2>2, <2>3, <2>5, <3>1, Moved
  <2>6. QED
    BY <1>3, <2>3, <2>4, <2>5, Synced
<1>4. ASSUME NEW a \in Actors, Sync(a) PROVE Types'
  <2>1. pc[a] = "sync" /\ SyncTo(a, snap[a].provider) /\ a \in Turns /\ snap[a] \in Stored
    BY <1>4 DEF Sync, Types, PlacesOf, Holding
  <2>2. snap[a].provider \in Providers
    BY <2>1, StoredFields
  <2>3. QED
    BY <1>3, <2>1, <2>2
<1>5. ASSUME NEW a \in Actors, Switch(a) PROVE Types'
  <2>1. pc[a] = "switch" /\ SyncTo(a, target[a]) /\ a \notin Turns
    BY <1>5 DEF Switch, Types, PlacesOf
  <2>2. QED
    BY <1>0, <1>3, <2>1
<1>6. ASSUME NEW a \in Actors, Answered(a) PROVE Types'
  <2>1. /\ pc[a] = "call" /\ a \in Turns /\ snap[a] \in Stored /\ buf[a] = None
        /\ UNCHANGED <<file, buf, meant, default, target, missed>> /\ Goes(a, "update")
    BY <1>6 DEF Answered, ghosts, Types, PlacesOf, Holding, Writing
  <2>0. PICK i \in {snap[a].data[snap[a].provider].id, a} :
          snap' = [snap EXCEPT ![a].data[snap[a].provider].id = i]
    BY <1>6 DEF Answered
  <2> DEFINE s == [snap[a] EXCEPT !.data[snap[a].provider].id = i]
  <2>2. s \in Stored
    <3>1. snap[a].data[snap[a].provider] \in [id : Turns \cup {Earlier, None}, count : Nat]
      BY <2>1, StoredFields DEF Datas
    <3>2. i \in Ids
      BY <2>1, <3>1 DEF Ids
    <3>3. QED
      BY <2>1, <3>2, AnswerTyped
  <2>3. snap' = [snap EXCEPT ![a] = s]
    BY <2>0, <2>1 DEF Types
  <2> HIDE DEF s
  <2>4. snap' \in [Turns -> Stored \cup {None}] /\ snap'[a] \in Stored
        /\ \A b \in Turns : b # a => snap'[b] = snap[b]
    BY <2>1, <2>2, <2>3 DEF Types
  <2>5. /\ default' \in Providers /\ target' \in [Actors -> Providers]
        /\ missed' \in [Actors -> SUBSET Keys] /\ "update" \in PlacesOf(a)
    BY <2>1 DEF Types, PlacesOf, AllPlaces
  <2>6. QED
    BY <2>1, <2>4, <2>5, Moved
<1>7. ASSUME NEW a \in Actors, Failed(a) PROVE Types'
  <2>1. /\ pc[a] = "call" /\ a \in Turns /\ buf[a] = None /\ "over" \in PlacesOf(a)
        /\ UNCHANGED <<file, buf, meant, default, target, missed, snap>> /\ Goes(a, "over")
    BY <1>7 DEF Failed, ghosts, Types, PlacesOf, AllPlaces, Writing
  <2>2. /\ default' \in Providers /\ target' \in [Actors -> Providers]
        /\ missed' \in [Actors -> SUBSET Keys] /\ snap' \in [Turns -> Stored \cup {None}]
        /\ \A b \in Turns : snap'[b] = snap[b]
    BY <2>1 DEF Types
  <2>3. QED
    BY <2>1, <2>2, Moved
<1>8. ASSUME NEW a \in Actors, Recover(a) PROVE Types'
  <2> DEFINE p == OrElse(Asks[a], default)
  <2>1. /\ pc[a] = "call" /\ a \in Turns /\ buf[a] = None /\ "reset" \in PlacesOf(a)
        /\ UNCHANGED <<file, buf, meant, default, snap>> /\ Goes(a, "reset")
    BY <1>8 DEF Recover, Types, PlacesOf, AllPlaces, Writing
  <2>2. target' = [target EXCEPT ![a] = p] /\ missed' = [missed EXCEPT ![a] = {}]
    BY <1>8 DEF Recover
  <2>3. p \in Providers
    BY <2>1, OrElseTyped, SessionsAssumption DEF Types
  <2> HIDE DEF p
  <2>4. /\ default' \in Providers /\ target' \in [Actors -> Providers]
        /\ missed' \in [Actors -> SUBSET Keys] /\ snap' \in [Turns -> Stored \cup {None}]
        /\ \A b \in Turns : snap'[b] = snap[b]
    BY <2>1, <2>2, <2>3 DEF Types
  <2>5. QED
    BY <2>1, <2>4, Moved
<1>9. ASSUME NEW a \in Actors, Update(a) PROVE Types'
  <2>1. /\ pc[a] = "update" /\ a \in Turns /\ snap[a] \in Stored
        /\ WillWrite(a, Counted(a, file[KeyOf[a]]))
    BY <1>9 DEF Update, Types, PlacesOf, Holding
  <2>2. Counted(a, file[KeyOf[a]]) \in Stored
    BY <2>1, Own, CountedTyped DEF Types, Files
  <2>3. UNCHANGED <<pc, file, default, meant, snap, target, missed>>
    BY <1>9 DEF Update, ghosts
  <2>4. missed' \in [Actors -> SUBSET Keys]
    BY <2>3 DEF Types
  <2>5. QED
    BY <2>1, <2>2, <2>3, <2>4, Read DEF Writing
<1>10. ASSUME NEW a \in Actors, Reset(a) PROVE Types'
  <2>1. pc[a] = "reset" /\ WillWrite(a, Dropped(target[a], file[KeyOf[a]]))
    BY <1>10 DEF Reset, Dropped
  <2>2. Dropped(target[a], file[KeyOf[a]]) \in Stored
    BY <1>0, Own, ResetTyped DEF Types, Files
  <2>3. UNCHANGED <<pc, file, default, meant, snap, target, missed>>
    BY <1>10 DEF Reset, ghosts
  <2>4. missed' \in [Actors -> SUBSET Keys]
    BY <2>3 DEF Types
  <2>5. QED
    BY <2>1, <2>2, <2>3, <2>4, Read DEF Writing
<1>11. ASSUME NEW a \in Actors, Ask(a) PROVE Types'
  <2> DEFINE to == IF file[KeyOf[a]] # None THEN "switch" ELSE "config"
  <2>1. PICK p \in Providers : target' = [target EXCEPT ![a] = p]
    BY <1>11 DEF Ask
  <2>2. /\ a \in Switches /\ a \notin Turns /\ a \notin Resets /\ buf[a] = None /\ Goes(a, to)
        /\ UNCHANGED <<file, buf, meant, default, snap, missed>>
    BY <1>11, SessionsAssumption DEF Ask, ghosts, Types, Writing
  <2>3. to \in PlacesOf(a)
    BY <2>2 DEF PlacesOf
  <2> HIDE DEF to
  <2>4. /\ default' \in Providers /\ target' \in [Actors -> Providers]
        /\ missed' \in [Actors -> SUBSET Keys] /\ snap' \in [Turns -> Stored \cup {None}]
        /\ \A b \in Turns : snap'[b] = snap[b]
    BY <2>1, <2>2 DEF Types
  <2>5. QED
    BY <2>2, <2>3, <2>4, Moved
<1>12. ASSUME NEW a \in Actors, Configure(a) PROVE Types'
  <2>1. /\ pc[a] = "config" /\ buf[a] = None /\ Goes(a, "over")
        /\ UNCHANGED <<file, buf, meant, target, snap, missed>>
    BY <1>12 DEF Configure, ghosts, Types, Writing
  <2>2. "over" \in PlacesOf(a)
    BY DEF PlacesOf, AllPlaces
  <2>3. default' \in Providers
    BY <1>0, <1>12 DEF Configure, Types
  <2>4. /\ target' \in [Actors -> Providers]
        /\ missed' \in [Actors -> SUBSET Keys] /\ snap' \in [Turns -> Stored \cup {None}]
        /\ \A b \in Turns : snap'[b] = snap[b]
    BY <2>1 DEF Types
  <2>5. QED
    BY <2>1, <2>2, <2>3, <2>4, Moved
<1>13. ASSUME NEW a \in Actors, Save(a) PROVE Types'
  <2>1. /\ buf[a] # None /\ file' = buf[a] /\ buf' = [buf EXCEPT ![a] = None]
        /\ Goes(a, After(a)) /\ UNCHANGED <<default, target, snap>>
        /\ meant' = [meant EXCEPT ![KeyOf[a]] = Effect(a)]
    BY <1>13 DEF Save
  <2>2. file' \in Files /\ buf' \in [Actors -> Files \cup {None}] /\ buf'[a] = None
        /\ \A b \in Actors : b # a => buf'[b] = buf[b]
    BY <2>1 DEF Types
  <2>3. meant' \in Files
    BY <2>1, EffectTyped DEF Types, Files
  <2>4. missed' \in [Actors -> SUBSET Keys]
    <3>1. \A b \in Actors : Misses(b, a) \subseteq Keys
      BY <1>0, Own DEF Misses
    <3>2. missed' = [b \in Actors |-> IF b = a THEN {} ELSE missed[b] \cup Misses(b, a)]
      BY <1>13 DEF Save
    <3>3. QED
      BY <1>0, <3>1, <3>2
  <2>5. /\ pc' \in [Actors -> AllPlaces] /\ \A b \in Actors : pc'[b] \in PlacesOf(b)
        /\ pc'[a] = After(a) /\ \A b \in Actors : b # a => pc'[b] = pc[b]
    BY <2>1, AfterTyped, GoesTyped
  <2>6. a \in Turns /\ After(a) \in {"sync", "call", "update"} => snap[a] \in Stored
    BY <2>1, AfterTyped DEF Types, Holding
  <2>7. \A b \in Turns : Holding(b)' => snap'[b] \in Stored
    <3>1. SUFFICES ASSUME NEW b \in Turns, Holding(b)' PROVE snap'[b] \in Stored
      OBVIOUS
    <3>2. CASE b = a
      BY <2>1, <2>2, <2>5, <2>6, <3>1, <3>2 DEF Holding
    <3>3. CASE b # a
      BY <2>1, <2>2, <2>5, <3>1, <3>3 DEF Types, Holding
    <3>4. QED
      BY <3>2, <3>3
  <2>8. \A b \in Actors : buf'[b] # None => pc'[b] \in Writing /\ buf'[b][KeyOf[b]] \in Stored
    BY <2>2, <2>5 DEF Types
  <2>9. default' \in Providers /\ target' \in [Actors -> Providers]
        /\ snap' \in [Turns -> Stored \cup {None}]
    BY <2>1 DEF Types
  <2>10. QED
    BY <2>2, <2>3, <2>4, <2>5, <2>7, <2>8, <2>9 DEF Types
<1>14. ASSUME NEW a \in Actors, Inject(a) PROVE Types'
  <2> DEFINE to == IF file[KeyOf[a]] # None THEN "call" ELSE "over"
             found == file[KeyOf[a]]
  <2>1. /\ a \in Turns /\ buf[a] = None /\ Goes(a, to) /\ snap' = [snap EXCEPT ![a] = found]
        /\ UNCHANGED <<file, buf, meant, default, target>> /\ missed' = [missed EXCEPT ![a] = {}]
    BY <1>14, SessionsAssumption DEF Inject, Types, Writing
  <2>2. found \in Stored \cup {None} /\ (to = "call" => found \in Stored) /\ to \in {"call", "over"}
    BY Own DEF Types, Files
  <2>3. to \in PlacesOf(a)
    BY <2>1 DEF PlacesOf, AllPlaces
  <2> HIDE DEF to, found
  <2>4. snap' \in [Turns -> Stored \cup {None}] /\ (to = "call" => snap'[a] \in Stored)
        /\ \A b \in Turns : b # a => snap'[b] = snap[b]
    BY <2>1, <2>2 DEF Types
  <2>5. /\ default' \in Providers /\ target' \in [Actors -> Providers]
        /\ missed' \in [Actors -> SUBSET Keys]
    BY <2>1 DEF Types
  <2>6. QED
    BY <2>1, <2>2, <2>3, <2>4, <2>5, Moved
<1>15. CASE UNCHANGED vars
  BY <1>15 DEF vars, Types, Holding
<1>16. QED
  BY <1>1, <1>2, <1>4, <1>5, <1>6, <1>7, <1>8, <1>9, <1>10, <1>11, <1>12, <1>13, <1>14, <1>15 DEF Next

LEMMA StepAside ==
    ASSUME Types, NEW a \in Actors, Step(a)
    PROVE  /\ UNCHANGED <<file, meant, disturbed>> /\ buf[a] = None
           /\ \A b \in Actors : b # a => Aside(b)
<1> USE DEF Aside, Actors
<1>0. /\ pc \in [Actors -> AllPlaces] /\ target \in [Actors -> Providers]
      /\ buf \in [Actors -> Files \cup {None}] /\ snap \in [Turns -> Stored \cup {None}]
      /\ missed \in [Actors -> SUBSET Keys] /\ \A b \in Actors : buf[b] # None => pc[b] \in Writing
  BY DEF Types
<1>1. CASE Begin(a) \/ Inject(a) \/ Failed(a) \/ Recover(a) \/ Ask(a) \/ Configure(a)
  BY <1>0, <1>1 DEF Begin, Inject, Failed, Recover, Ask, Configure, Goes, ghosts, Writing
<1>a. CASE Answered(a)
  <2>1. \A b \in Turns : b # a => snap'[b] = snap[b]
    BY <1>0, <1>a DEF Answered
  <2>2. QED
    BY <1>0, <1>a, <2>1 DEF Answered, Goes, ghosts, Writing
<1>2. CASE Resolve(a)
  <2>1. buf[a] = None
    BY <1>2, Resolved
  <2>2. \E s \in Stored :
             /\ snap' = [snap EXCEPT ![a] = s]
             /\ \/ Goes(a, "sync") /\ UNCHANGED buf
                \/ WillWrite(a, s) /\ UNCHANGED pc
    BY <1>2, Resolved
  <2>3. UNCHANGED <<file, target, meant, disturbed>> /\ missed' = [missed EXCEPT ![a] = {}]
    BY <1>2 DEF Resolve
  <2>4. QED
    BY <1>0, <2>1, <2>2, <2>3 DEF Goes, WillWrite
<1>3. ASSUME NEW p, SyncTo(a, p)
      PROVE  /\ UNCHANGED <<file, meant, disturbed>> /\ buf[a] = None
             /\ \A b \in Actors : b # a => Aside(b)
  BY <1>0, <1>3 DEF SyncTo, ReadsLocked, Goes, WillWrite, ghosts
<1>4. CASE Sync(a) \/ Switch(a)
  BY <1>3, <1>4 DEF Sync, Switch
<1>5. CASE Update(a) \/ Reset(a)
  <2>1. \E s : WillWrite(a, s)
    BY <1>5 DEF Update, Reset
  <2>2. /\ UNCHANGED <<file, pc, target, snap, missed, meant, disturbed>> /\ buf[a] = None
    BY <1>5 DEF Update, Reset, ReadsLocked, ReadsUnlocked, ghosts
  <2>3. QED
    BY <1>0, <2>1, <2>2 DEF WillWrite
<1>6. QED
  BY <1>1, <1>a, <1>2, <1>4, <1>5 DEF Step

-----------------------------------------------------------------------------
(* A buffer is the file in all sessions but its own and those it missed a   *)
(* write to: update_session and sync_session_target cannot overlap.         *)

Locking == \A a \in Actors : buf[a] # None /\ pc[a] \in LockedOps => lock = a

LEMMA LockingStep ==
    ASSUME Types, Locking, [Next]_vars
    PROVE  Locking'
<1> USE DEF Actors
<1>1. ASSUME NEW a \in Actors, Step(a) PROVE Locking'
  <2>1. buf[a] = None /\ \A b \in Actors : b # a => pc'[b] = pc[b] /\ buf'[b] = buf[b]
    BY <1>1, StepAside DEF Aside
  <2>2. buf'[a] # None /\ pc'[a] \in LockedOps => lock' = a
    <3>1. CASE Begin(a) \/ Inject(a) \/ Answered(a) \/ Failed(a) \/ Recover(a) \/ Ask(a)
                 \/ Configure(a)
      BY <2>1, <3>1 DEF Begin, Inject, Answered, Failed, Recover, Ask, Configure
    <3>2. CASE Resolve(a)
      <4>1. UNCHANGED buf \/ (UNCHANGED pc /\ pc[a] = "resolve")
        BY <3>2 DEF Resolve
      <4>2. QED
        BY <2>1, <4>1 DEF LockedOps
    <3>3. CASE Sync(a) \/ Switch(a)
      BY <2>1, <3>3 DEF Sync, Switch, SyncTo
    <3>4. CASE Update(a)
      BY <3>4 DEF Update
    <3>5. CASE Reset(a)
      BY <3>5 DEF Reset, LockedOps
    <3>6. QED
      BY <1>1, <3>1, <3>2, <3>3, <3>4, <3>5 DEF Step
  <2>3. ASSUME NEW b \in Actors, b # a, buf[b] # None, pc[b] \in LockedOps PROVE lock' = b
    <3>1. lock = b /\ lock # None
      BY <2>3, SessionsAssumption DEF Locking
    <3>2. CASE UNCHANGED lock
      BY <3>1, <3>2
    <3>3. CASE Sync(a) \/ Switch(a) \/ Update(a)
      BY <3>1, <3>3 DEF Sync, Switch, SyncTo, Update, ReadsLocked
    <3>4. QED
      BY <1>1, <3>2, <3>3 DEF Step, Begin, Inject, Resolve, Answered, Failed, Recover, Ask, Configure,
                            Reset
  <2>4. QED
    BY <2>1, <2>2, <2>3 DEF Locking
<1>2. ASSUME NEW a \in Actors, Save(a) PROVE Locking'
  <2>1. buf' = [buf EXCEPT ![a] = None] /\ Goes(a, After(a)) /\ lock' = IF lock = a THEN None ELSE lock
    BY <1>2 DEF Save
  <2>2. buf'[a] = None /\ \A b \in Actors : b # a => pc'[b] = pc[b] /\ buf'[b] = buf[b]
    BY <2>1 DEF Types, Goes
  <2>3. QED
    BY <2>1, <2>2 DEF Locking
<1>3. CASE UNCHANGED vars
  BY <1>3 DEF vars, Locking
<1>4. QED
  BY <1>1, <1>2, <1>3 DEF Next, Step

Buffers ==
    \A a \in Actors : buf[a] # None =>
        \A k \in Keys \ ({KeyOf[a]} \cup missed[a]) : buf[a][k] = file[k]

\* Two operations with a buffer each, of which one saves: the other misses it.
LEMMA Missing ==
    ASSUME Locking, NEW a \in Actors, NEW b \in Actors, a # b, buf[a] # None, buf[b] # None
    PROVE  {KeyOf[a]} \cup missed[a] \subseteq Misses(b, a)
<1>1. ~({pc[a], pc[b]} \subseteq LockedOps)
  BY DEF Locking
<1>2. QED
  BY <1>1 DEF Misses

LEMMA BuffersStep ==
    ASSUME Types, Locking, Buffers, [Next]_vars
    PROVE  Buffers'
<1>1. ASSUME NEW a \in Actors, Step(a) PROVE Buffers'
  <2>1. /\ UNCHANGED file /\ buf[a] = None
        /\ \A b \in Actors : b # a => buf'[b] = buf[b] /\ missed'[b] = missed[b]
    BY <1>1, StepAside DEF Aside
  <2>2. buf'[a] # None => \A k \in Keys \ {KeyOf[a]} : buf'[a][k] = file[k]
    <3>1. UNCHANGED buf \/ \E s : WillWrite(a, s)
      BY <1>1 DEF Step, Begin, Inject, Resolve, Sync, Switch, SyncTo, Update, Reset, Answered,
                  Failed, Recover, Ask, Configure
    <3>2. QED
      BY <2>1, <3>1 DEF WillWrite, Types, Files
  <2>3. QED
    BY <2>1, <2>2 DEF Buffers
<1>2. ASSUME NEW a \in Actors, Save(a) PROVE Buffers'
  <2>1. /\ buf[a] # None /\ file' = buf[a] /\ buf' = [buf EXCEPT ![a] = None]
        /\ missed' = [b \in Actors |-> IF b = a THEN {} ELSE missed[b] \cup Misses(b, a)]
    BY <1>2 DEF Save
  <2>2. buf'[a] = None /\ \A b \in Actors : b # a => buf'[b] = buf[b]
    BY <2>1 DEF Types
  <2>3. ASSUME NEW b \in Actors, b # a, buf[b] # None,
               NEW k \in Keys \ ({KeyOf[b]} \cup missed'[b])
        PROVE  buf[b][k] = file'[k]
    <3>1. k \notin missed[b] /\ k \notin Misses(b, a)
      BY <2>1, <2>3
    <3>2. k \notin {KeyOf[a]} \cup missed[a]
      BY <2>1, <2>3, <3>1, Missing
    <3>3. buf[b][k] = file[k] /\ buf[a][k] = file[k]
      BY <2>1, <2>3, <3>1, <3>2 DEF Buffers
    <3>4. QED
      BY <2>1, <3>3
  <2>4. QED
    BY <2>2, <2>3 DEF Buffers
<1>3. CASE UNCHANGED vars
  BY <1>3 DEF vars, Buffers
<1>4. QED
  BY <1>1, <1>2, <1>3 DEF Next, Step

BufferInv == Types /\ Locking /\ Buffers

LEMMA BufferInvInit == Init => BufferInv
BY TypesInit DEF Init, BufferInv, Locking, Buffers

LEMMA BufferInvStep == BufferInv /\ [Next]_vars => BufferInv'
BY TypesStep, LockingStep, BuffersStep DEF BufferInv

\* Writing one session, with a buffer of all sessions that may be old, changes another
\* session only when that was written past the lock since the buffer was read.
THEOREM OtherSessionsKept == Spec => OthersKept
<1>1. ASSUME BufferInv, [Next]_vars, NEW a \in Actors, buf[a] # None, buf'[a] = None,
             NEW k \in Keys \ ({KeyOf[a]} \cup missed[a])
      PROVE  file'[k] = file[k]
  <2>1. CASE UNCHANGED file
    BY <2>1
  <2>2. CASE \E b \in Actors : Save(b)
    <3>1. PICK b \in Actors : Save(b)
      BY <2>2
    <3>2. b = a
      BY <1>1, <3>1 DEF Save, BufferInv, Types
    <3>3. file' = buf[a]
      BY <3>1, <3>2 DEF Save
    <3>4. QED
      BY <1>1, <3>3 DEF BufferInv, Buffers
  <2>3. QED
    <3>1. (\E b \in Actors : Step(b) \/ Save(b)) \/ UNCHANGED vars
      BY <1>1 DEF Next, Step
    <3>2. CASE \E b \in Actors : Step(b)
      BY <1>1, <2>1, <3>2, StepAside DEF BufferInv
    <3>3. QED
      BY <2>1, <2>2, <3>1, <3>2 DEF vars
<1>2. BufferInv /\ [Next]_vars =>
        [\A a \in Actors : buf[a] # None /\ buf'[a] = None
            => \A k \in Keys \ ({KeyOf[a]} \cup missed[a]) : file'[k] = file[k]]_vars
  BY <1>1
<1>3. QED
  BY <1>2, BufferInvInit, BufferInvStep, PTL DEF Spec, OthersKept

-----------------------------------------------------------------------------
(* The file holds what the completed operations add up to.  Where nothing   *)
(* was missed, a turn works with the session that they add up to, and a     *)
(* buffer holds the effect of its operation.                                *)

\* The topic lock: the turns of a session run one at a time.
Alone ==
    \A a, b \in Turns : a # b /\ KeyOf[a] = KeyOf[b] => ~(Busy(a) /\ Busy(b))

\* The session of an actor is as the completed operations have left it.
Ordered(a) == KeyOf[a] \notin missed[a] \cup disturbed

Chosen ==
    \A a \in Turns : pc[a] = "resolve" /\ buf[a] # None => buf[a][KeyOf[a]] = snap[a]

TurnAgrees(a) ==
    LET true == meant[KeyOf[a]]
        p    == snap[a].provider
    IN
    /\ pc[a] \in {"sync", "call"} => snap[a] = true
    /\ pc[a] = "update" =>
        /\ true \in Stored /\ p = true.provider
        /\ \E i \in {true.data[p].id, a} : snap[a].data = Named(true.data, p, i)

BufferAgrees(a) == buf[a] # None => buf[a][KeyOf[a]] = Effect(a)

Agreement ==
    /\ FileTrue
    /\ \A a \in Turns : Ordered(a) => TurnAgrees(a)
    /\ \A a \in Actors : Ordered(a) => BufferAgrees(a)

LEMMA AloneStep ==
    ASSUME Types, Alone, [Next]_vars
    PROVE  Alone'
<1> USE DEF Actors
<1>1. ASSUME NEW a \in Actors, Step(a), ~Begin(a), ~Inject(a) PROVE Alone'
  <2>1. \A b \in Turns : b # a => pc'[b] = pc[b]
    BY <1>1, StepAside DEF Aside
  <2>2. a \in Turns => Busy(a) \/ pc'[a] = pc[a]
    BY <1>1, SessionsAssumption
    DEF Step, Resolve, Sync, Answered, Failed, Recover, Update, Reset, Ask, Switch, Configure, Busy
  <2>3. QED
    BY <2>1, <2>2 DEF Alone, Busy
<1>2. ASSUME NEW a \in Actors, Begin(a) \/ Inject(a) PROVE Alone'
  <2>1. \A b \in Turns : b # a => pc'[b] = pc[b]
    BY <1>2 DEF Begin, Inject, Goes, Types
  <2>2. a \in Turns => \A b \in Turns \ {a} : KeyOf[b] = KeyOf[a] => ~Busy(b)
    BY <1>2 DEF Begin, Inject, TopicLocked
  <2>3. QED
    BY <2>1, <2>2 DEF Alone, Busy
<1>3. ASSUME NEW a \in Actors, Save(a) PROVE Alone'
  <2>1. buf[a] # None /\ Goes(a, After(a))
    BY <1>3 DEF Save
  <2>2. Busy(a) /\ \A b \in Turns : b # a => pc'[b] = pc[b]
    BY <2>1 DEF Types, Writing, Busy, Goes
  <2>3. QED
    BY <2>2 DEF Alone, Busy
<1>4. CASE UNCHANGED vars
  BY <1>4 DEF vars, Alone, Busy
<1>5. QED
  BY <1>1, <1>2, <1>3, <1>4 DEF Next, Step

LEMMA ChosenStep ==
    ASSUME Types, Chosen, [Next]_vars
    PROVE  Chosen'
<1> USE DEF Actors
<1>1. ASSUME NEW a \in Actors, Step(a) PROVE Chosen'
  <2>1. /\ \A b \in Actors : b # a => Aside(b)
        /\ buf[a] = None
    BY <1>1, StepAside
  <2>2. ASSUME a \in Turns, pc'[a] = "resolve", buf'[a] # None PROVE buf'[a][KeyOf[a]] = snap'[a]
    <3>1. CASE Resolve(a)
      <4>1. PICK s \in Stored :
                /\ snap' = [snap EXCEPT ![a] = s]
                /\ UNCHANGED buf \/ WillWrite(a, s)
        BY <3>1, Resolved
      <4>2. snap'[a] = s
        BY <2>2, <4>1 DEF Types
      <4>3. QED
        BY <2>1, <2>2, <4>1, <4>2, WriteTyped
    <3>2. CASE ~Resolve(a)
      <4>1. UNCHANGED buf \/ (UNCHANGED pc /\ pc[a] # "resolve")
        BY <1>1, <3>2 DEF Step, Begin, Inject, Sync, Switch, SyncTo, Update, Reset, Answered,
                          Failed, Recover, Ask, Configure
      <4>2. QED
        BY <2>1, <2>2, <4>1
    <3>3. QED
      BY <3>1, <3>2
  <2>3. QED
    BY <2>1, <2>2 DEF Chosen, Aside
<1>2. ASSUME NEW a \in Actors, Save(a) PROVE Chosen'
  <2>1. /\ buf' = [buf EXCEPT ![a] = None] /\ Goes(a, After(a)) /\ UNCHANGED snap
    BY <1>2 DEF Save
  <2>2. buf'[a] = None /\ \A b \in Actors : b # a => pc'[b] = pc[b] /\ buf'[b] = buf[b]
    BY <2>1 DEF Types, Goes
  <2>3. QED
    BY <2>1, <2>2 DEF Chosen
<1>3. CASE UNCHANGED vars
  BY <1>3 DEF vars, Chosen
<1>4. QED
  BY <1>1, <1>2, <1>3 DEF Next, Step

\* The steps of others change neither, unless an actor misses their write.
LEMMA AgreesKept ==
    ASSUME NEW a \in Actors, Aside(a), meant'[KeyOf[a]] = meant[KeyOf[a]]
    PROVE  /\ BufferAgrees(a) => BufferAgrees(a)'
           /\ a \in Turns => (TurnAgrees(a) => TurnAgrees(a)')
<1>1. Effect(a)' = Effect(a)
  BY DEF Aside, Effect, Replaces
<1>2. QED
  BY <1>1 DEF Aside, BufferAgrees, TurnAgrees

\* A turn that nobody overtook counts itself on the session that it has answered in.
LEMMA CountedOwn ==
    ASSUME NEW d \in Datas, NEW p \in Providers, NEW i \in Turns \cup {d[p].id}
    PROVE  OneMore(Merge(d, Named(d, p, i)), p)
               = [d EXCEPT ![p] = [id |-> Named(d, p, i)[p].id, count |-> @.count + 1]]
<1> DEFINE e == Named(d, p, i)
<1>0. i \in Ids
  BY DEF Datas, Ids
<1>1. Merge(d, e) = e /\ e \in Datas
  BY <1>0, MergeOwn, NamedTyped
<1>2. OneMore(e, p) = [e EXCEPT ![p] = [id |-> e[p].id, count |-> e[p].count + 1]]
  BY <1>1, OneMoreTyped
<1>3. /\ DOMAIN e = Providers /\ \A q \in Providers : q # p => e[q] = d[q]
      /\ e[p].count = d[p].count
  BY DEF Named, Datas
<1> HIDE DEF e
<1>4. [e EXCEPT ![p] = [id |-> e[p].id, count |-> e[p].count + 1]]
          = [d EXCEPT ![p] = [id |-> e[p].id, count |-> d[p].count + 1]]
  BY <1>1, <1>3 DEF Datas
<1>5. OneMore(Merge(d, e), p) = [d EXCEPT ![p] = [id |-> e[p].id, count |-> d[p].count + 1]]
  BY <1>1, <1>2, <1>4
<1>6. QED
  BY <1>5 DEF e

\* What a session is, where nothing was disturbed.
LEMMA FoundTrue ==
    ASSUME Types, FileTrue, NEW a \in Actors, KeyOf[a] \notin disturbed
    PROVE  /\ file[KeyOf[a]] = meant[KeyOf[a]] /\ file[KeyOf[a]] \in Stored \cup {None}
           /\ file[KeyOf[a]] # None => /\ file[KeyOf[a]] \in Stored
                                      /\ file[KeyOf[a]].provider \in Providers
                                      /\ file[KeyOf[a]].data \in Datas
<1>1. file[KeyOf[a]] = meant[KeyOf[a]] /\ file[KeyOf[a]] \in Stored \cup {None}
  BY Own DEF FileTrue, Types, Files
<1>2. QED
  BY <1>1, StoredFields

LEMMA ResolveAgrees ==
    ASSUME Types, Agreement, NEW a \in Actors, Resolve(a), Ordered(a)'
    PROVE  TurnAgrees(a)' /\ BufferAgrees(a)'
<1> DEFINE k == KeyOf[a]
<1>1. a \in Turns /\ pc[a] = "resolve" /\ buf[a] = None
  BY Resolved
<1>2. PICK s \in Stored :
        /\ snap' = [snap EXCEPT ![a] = s]
        /\ s.data = NoData \/ (file[k] # None /\ s.data = file[k].data)
        /\ \/ s = file[k] /\ Goes(a, "sync") /\ UNCHANGED buf
           \/ WillWrite(a, s) /\ UNCHANGED pc
  BY Resolved
<1>3. UNCHANGED meant /\ file[k] = meant[k] /\ snap'[a] = s
  BY <1>1, <1>2, FoundTrue DEF Resolve, Ordered, Agreement, Types
<1>4. CASE s = file[k] /\ Goes(a, "sync") /\ UNCHANGED buf
  BY <1>1, <1>3, <1>4 DEF Goes, Types, TurnAgrees, BufferAgrees
<1>5. CASE WillWrite(a, s) /\ UNCHANGED pc
  <2>1. buf'[a][k] = s /\ pc'[a] = "resolve"
    BY <1>1, <1>5, WriteTyped
  <2>2. Effect(a)' = s
    <3>1. CASE s.data = NoData
      BY <2>1, <3>1 DEF Effect, Replaces
    <3>2. CASE s.data # NoData
      <4>1. Effect(a)' = Session(s.provider, meant[k].data)
        BY <1>1, <1>2, <1>3, <2>1, <3>2 DEF Effect, Replaces
      <4>2. QED
        BY <1>2, <1>3, <3>2, <4>1, StoredFields
    <3>3. QED
      BY <3>1, <3>2
  <2>3. QED
    BY <2>1, <2>2 DEF TurnAgrees, BufferAgrees
<1>6. QED
  BY <1>2, <1>4, <1>5

LEMMA SyncAgrees ==
    ASSUME Types, Agreement, NEW a \in Actors, Sync(a) \/ Switch(a), Ordered(a)'
    PROVE  (a \in Turns => TurnAgrees(a)') /\ BufferAgrees(a)'
<1> DEFINE k == KeyOf[a]
           p == IF pc[a] = "sync" THEN snap[a].provider ELSE target[a]
<1>1. /\ pc[a] \in {"sync", "switch"} /\ SyncTo(a, p)
      /\ pc[a] = "sync" <=> a \in Turns
  BY DEF Sync, Switch, Types, PlacesOf
<1>2. UNCHANGED <<file, snap, target, meant, missed, disturbed>> /\ Ordered(a)
  BY <1>1 DEF SyncTo, ghosts, Ordered
<1>3. file[k] = meant[k] /\ (a \in Turns => snap[a] = meant[k] /\ snap[a] \in Stored)
  <2>1. a \in Turns => TurnAgrees(a) /\ snap[a] \in Stored
    BY <1>1, <1>2 DEF Agreement, Types, Holding
  <2>2. QED
    BY <1>1, <1>2, <2>1, FoundTrue DEF Agreement, Ordered, TurnAgrees
<1>4. p \in Providers /\ pc[a] \in LockedOps
  BY <1>1, <1>3, StoredFields DEF Types, LockedOps
<1> HIDE DEF p
<1>5. CASE Goes(a, After(a)) /\ UNCHANGED buf /\ buf[a] = None
  <2>1. a \in Turns => pc'[a] = "call"
    BY <1>1, <1>5 DEF Goes, After, Types
  <2>2. QED
    BY <1>2, <1>3, <1>5, <2>1 DEF TurnAgrees, BufferAgrees
<1>6. CASE /\ file[k] \in Stored /\ Session(p, file[k].data) \in Stored
           /\ WillWrite(a, Session(p, file[k].data)) /\ UNCHANGED pc
  <2>1. buf'[a][k] = Session(p, file[k].data) /\ meant[k] # None
    BY <1>3, <1>6, WriteTyped, StoredFields
  <2>2. CASE pc[a] = "sync"
    <3>1. Effect(a)' = meant[k]
      BY <1>2, <1>6, <2>1, <2>2 DEF Effect, Replaces
    <3>2. p = meant[k].provider
      BY <1>1, <1>3, <2>2 DEF p
    <3>3. Session(p, file[k].data) = meant[k]
      BY <1>3, <1>6, <3>2, StoredFields
    <3>4. QED
      BY <1>1, <1>2, <1>3, <1>6, <2>1, <2>2, <3>1, <3>3 DEF TurnAgrees, BufferAgrees
  <2>3. CASE pc[a] = "switch"
    <3>1. Effect(a)' = Session(target[a], meant[k].data)
      BY <1>1, <1>2, <1>6, <2>1, <2>3 DEF Effect, Replaces
    <3>2. p = target[a]
      BY <2>3 DEF p
    <3>3. QED
      BY <1>1, <1>3, <2>1, <2>3, <3>1, <3>2 DEF BufferAgrees
  <2>4. QED
    BY <1>1, <2>2, <2>3
<1>7. QED
  BY <1>1, <1>4, <1>5, <1>6, Synced

LEMMA AnsweredAgrees ==
    ASSUME Types, Agreement, NEW a \in Actors, Answered(a), Ordered(a)'
    PROVE  TurnAgrees(a)' /\ BufferAgrees(a)'
<1> DEFINE k == KeyOf[a]
<1>1. /\ pc[a] = "call" /\ a \in Turns /\ snap[a] \in Stored /\ buf[a] = None
      /\ UNCHANGED <<buf, meant>> /\ Ordered(a)
  BY DEF Answered, ghosts, Types, PlacesOf, Holding, Writing, Ordered
<1>a. PICK i \in {snap[a].data[snap[a].provider].id, a} :
        snap' = [snap EXCEPT ![a].data[snap[a].provider].id = i]
  BY DEF Answered
<1> DEFINE s == [snap[a] EXCEPT !.data[snap[a].provider].id = i]
<1>2. snap[a] = meant[k]
  BY <1>1 DEF Agreement, TurnAgrees
<1>3. s.provider = snap[a].provider /\ s.data = Named(snap[a].data, snap[a].provider, i)
  <2>1. snap[a].data[snap[a].provider] \in [id : Turns \cup {Earlier, None}, count : Nat]
    BY <1>1, StoredFields DEF Datas
  <2>2. i \in Ids
    BY <1>1, <2>1 DEF Ids
  <2>3. QED
    BY <1>1, <2>2, AnswerTyped
<1>4. snap'[a] = s
  BY <1>1, <1>a DEF Types
<1> HIDE DEF s
<1>5. pc'[a] = "update"
  BY DEF Answered, Goes, Types
<1>6. QED
  BY <1>1, <1>2, <1>3, <1>4, <1>5 DEF TurnAgrees, BufferAgrees

LEMMA InjectAgrees ==
    ASSUME Types, Agreement, NEW a \in Actors, Inject(a), Ordered(a)'
    PROVE  TurnAgrees(a)' /\ BufferAgrees(a)'
<1>1. /\ a \in Turns /\ UNCHANGED <<buf, meant, disturbed>> /\ buf[a] = None
      /\ snap'[a] = file[KeyOf[a]] /\ pc'[a] \in {"call", "over"}
  BY SessionsAssumption DEF Inject, Goes, Types, Writing
<1>2. file[KeyOf[a]] = meant[KeyOf[a]]
  BY <1>1, FoundTrue DEF Agreement, Ordered
<1>3. QED
  BY <1>1, <1>2 DEF TurnAgrees, BufferAgrees

LEMMA UpdateAgrees ==
    ASSUME Types, Agreement, NEW a \in Actors, Update(a), Ordered(a)'
    PROVE  TurnAgrees(a)' /\ BufferAgrees(a)'
<1> DEFINE k == KeyOf[a]
           p == snap[a].provider
<1>1. /\ pc[a] = "update" /\ a \in Turns /\ snap[a] \in Stored /\ Ordered(a)
      /\ UNCHANGED <<pc, snap, meant>> /\ WillWrite(a, Counted(a, file[k]))
  BY DEF Update, ghosts, Types, PlacesOf, Holding, Ordered
<1>2. /\ meant[k] \in Stored /\ p = meant[k].provider /\ file[k] = meant[k]
      /\ \E i \in {meant[k].data[p].id, a} : snap[a].data = Named(meant[k].data, p, i)
  BY <1>1, FoundTrue DEF Agreement, TurnAgrees, Ordered
<1>3. file[k] # None /\ meant[k].data \in Datas /\ p \in Providers
  BY <1>1, <1>2, StoredFields
<1>4. Counted(a, file[k]) \in Stored
      /\ Counted(a, file[k]) = Session(p, OneMore(Merge(meant[k].data, snap[a].data), p))
  BY <1>1, <1>2, <1>3, CountedTyped
<1>5. Counted(a, file[k]) = Session(meant[k].provider,
          [meant[k].data EXCEPT ![p] = [id |-> snap[a].data[p].id, count |-> @.count + 1]])
  BY <1>1, <1>2, <1>3, <1>4, CountedOwn
<1>6. buf'[a][k] = Counted(a, file[k])
  BY <1>1, <1>4, WriteTyped
<1>7. Effect(a)' = Session(meant[k].provider,
          [meant[k].data EXCEPT ![p] = [id |-> snap[a].data[p].id, count |-> @.count + 1]])
  BY <1>1, <1>2, <1>3 DEF Effect, Replaces
<1>8. BufferAgrees(a)'
  BY <1>5, <1>6, <1>7 DEF BufferAgrees
<1>9. TurnAgrees(a)'
  BY <1>1, <1>2 DEF TurnAgrees
<1>10. QED
  BY <1>8, <1>9

LEMMA ResetAgrees ==
    ASSUME Types, Agreement, NEW a \in Actors, Reset(a), Ordered(a)'
    PROVE  (a \in Turns => TurnAgrees(a)') /\ BufferAgrees(a)'
<1> DEFINE k == KeyOf[a]
           p == target[a]
<1>1. /\ pc[a] = "reset" /\ Ordered(a)
      /\ UNCHANGED <<pc, target, meant>> /\ WillWrite(a, Dropped(p, file[k]))
  BY DEF Reset, ghosts, Dropped, Ordered
<1>2. file[k] = meant[k] /\ file[k] \in Stored \cup {None} /\ p \in Providers
  BY <1>1, FoundTrue DEF Agreement, Ordered, Types
<1>3. buf'[a][k] = Dropped(p, file[k])
  BY <1>1, <1>2, ResetTyped, WriteTyped
<1>4. [NoData EXCEPT ![p] = Empty] = NoData
  BY DEF NoData
<1>5. Effect(a)' = Dropped(p, file[k])
  <2>1. CASE meant[k] = None
    <3>1. Session(buf'[a][k].provider, NoData).data = NoData
      BY DEF Session
    <3>2. QED
      BY <1>1, <1>2, <1>4, <2>1, <3>1 DEF Effect, Replaces, Dropped
  <2>2. CASE meant[k] # None
    BY <1>1, <1>2, <2>2 DEF Effect, Replaces, Dropped
  <2>3. QED
    BY <2>1, <2>2
<1>6. QED
  BY <1>1, <1>3, <1>5 DEF TurnAgrees, BufferAgrees

\* A save writes the effect of its operation, unless it had missed a write to its session.
LEMMA SaveAgrees ==
    ASSUME Types, Buffers, Chosen, Agreement, NEW a \in Actors, Save(a)
    PROVE  /\ FileTrue'
           /\ a \in Turns /\ Ordered(a)' => TurnAgrees(a)'
<1> DEFINE k == KeyOf[a]
<1>1. /\ buf[a] # None /\ file' = buf[a] /\ buf' = [buf EXCEPT ![a] = None]
      /\ Goes(a, After(a)) /\ UNCHANGED <<target, snap>>
      /\ meant' = [meant EXCEPT ![k] = Effect(a)]
      /\ disturbed' = (disturbed \cup missed[a]) \ (IF Replaces(a) THEN {k} ELSE {})
  BY DEF Save
<1>2. k \in Keys /\ meant'[k] = Effect(a) /\ \A j \in Keys : j # k => meant'[j] = meant[j]
  BY <1>1, Own DEF Types, Files
<1>3. k \notin disturbed' => buf[a][k] = Effect(a)
  <2>1. CASE Replaces(a)
    BY <1>1, <2>1, EffectIs
  <2>2. CASE ~Replaces(a)
    BY <1>1, <2>2 DEF Agreement, Ordered, BufferAgrees
  <2>3. QED
    BY <2>1, <2>2
<1>4. FileTrue'
  <2>1. SUFFICES ASSUME NEW j \in Keys, j \notin disturbed' PROVE file'[j] = meant'[j]
    BY DEF FileTrue
  <2>2. CASE j = k
    BY <1>1, <1>2, <1>3, <2>1, <2>2
  <2>3. CASE j # k
    <3>1. j \notin disturbed /\ j \notin missed[a]
      BY <1>1, <2>1, <2>3
    <3>2. buf[a][j] = file[j] /\ file[j] = meant[j]
      BY <1>1, <2>3, <3>1 DEF Buffers, Agreement, FileTrue
    <3>3. QED
      BY <1>1, <1>2, <2>3, <3>2
  <2>4. QED
    BY <2>2, <2>3
<1>5. ASSUME a \in Turns, Ordered(a)' PROVE TurnAgrees(a)'
  <2>1. pc'[a] = After(a) /\ k \notin disturbed'
    BY <1>1, <1>5 DEF Goes, Types, Ordered
  <2>2. CASE pc[a] = "resolve"
    <3>1. snap[a] = buf[a][k]
      BY <1>1, <1>5, <2>2 DEF Chosen
    <3>2. QED
      BY <1>1, <1>2, <1>3, <2>1, <2>2, <3>1, AfterTyped DEF TurnAgrees, After
  <2>3. CASE pc[a] = "sync"
    <3>1. Ordered(a)
      BY <1>1, <2>1, <2>3 DEF Ordered, Replaces
    <3>2. snap[a] = meant[k] /\ snap[a] # None
      BY <1>5, <2>3, <3>1, StoredFields DEF Agreement, TurnAgrees, Types, Holding
    <3>3. Effect(a) = meant[k]
      BY <1>1, <2>3, <3>2, EffectIs DEF Before
    <3>4. QED
      BY <1>1, <1>2, <2>1, <2>3, <3>2, <3>3 DEF TurnAgrees, After
  <2>4. CASE pc[a] \notin {"resolve", "sync"}
    <3>1. pc'[a] \notin {"sync", "call", "update"}
      BY <2>1, <2>4, AfterTyped
    <3>2. QED
      BY <3>1 DEF TurnAgrees
  <2>5. QED
    BY <2>2, <2>3, <2>4
<1>6. QED
  BY <1>4, <1>5

LEMMA AgreementStep ==
    ASSUME Types, Locking, Buffers, Alone, Chosen, Agreement, [Next]_vars
    PROVE  Agreement'
<1> USE DEF Actors
<1>1. ASSUME NEW a \in Actors, Step(a) PROVE Agreement'
  <2>1. /\ UNCHANGED <<file, meant, disturbed>> /\ buf[a] = None
        /\ \A b \in Actors : b # a => Aside(b)
    BY <1>1, StepAside
  <2>2. FileTrue'
    BY <2>1 DEF Agreement, FileTrue
  <2>3. ASSUME Ordered(a)' PROVE (a \in Turns => TurnAgrees(a)') /\ BufferAgrees(a)'
    <3>1. CASE Begin(a) \/ Failed(a) \/ Recover(a) \/ Ask(a) \/ Configure(a)
      <4>1. buf'[a] = None
        BY <2>1, <3>1 DEF Begin, Failed, Recover, Ask, Configure
      <4>2. \E to \in {"resolve", "reset", "over", "switch", "config"} : Goes(a, to)
        BY <3>1 DEF Begin, Failed, Recover, Ask, Configure
      <4>3. pc'[a] \notin {"sync", "call", "update"}
        BY <4>2 DEF Goes, Types
      <4>4. QED
        BY <4>1, <4>3 DEF TurnAgrees, BufferAgrees
    <3>2. CASE Resolve(a)
      BY <2>3, <3>2, ResolveAgrees
    <3>3. CASE Sync(a) \/ Switch(a)
      BY <2>3, <3>3, SyncAgrees
    <3>a. CASE Inject(a)
      BY <2>3, <3>a, InjectAgrees
    <3>4. CASE Answered(a)
      BY <2>3, <3>4, AnsweredAgrees
    <3>5. CASE Update(a)
      BY <2>3, <3>5, UpdateAgrees
    <3>6. CASE Reset(a)
      BY <2>3, <3>6, ResetAgrees
    <3>7. QED
      BY <1>1, <3>1, <3>a, <3>2, <3>3, <3>4, <3>5, <3>6 DEF Step
  <2>4. ASSUME NEW b \in Actors, b # a, Ordered(b)'
        PROVE  (b \in Turns => TurnAgrees(b)') /\ BufferAgrees(b)'
    <3>1. Aside(b) /\ Ordered(b) /\ meant'[KeyOf[b]] = meant[KeyOf[b]]
      BY <2>1, <2>4 DEF Aside, Ordered
    <3>2. QED
      BY <2>4, <3>1, AgreesKept DEF Agreement
  <2>5. QED
    BY <2>2, <2>3, <2>4 DEF Agreement
<1>2. ASSUME NEW a \in Actors, Save(a) PROVE Agreement'
  <2>1. /\ buf[a] # None /\ buf' = [buf EXCEPT ![a] = None]
        /\ Goes(a, After(a)) /\ UNCHANGED <<target, snap>>
        /\ meant' = [meant EXCEPT ![KeyOf[a]] = Effect(a)]
        /\ missed' = [b \in Actors |-> IF b = a THEN {} ELSE missed[b] \cup Misses(b, a)]
        /\ disturbed' = (disturbed \cup missed[a]) \ (IF Replaces(a) THEN {KeyOf[a]} ELSE {})
    BY <1>2 DEF Save
  <2>2. FileTrue' /\ (a \in Turns /\ Ordered(a)' => TurnAgrees(a)')
    BY <1>2, SaveAgrees
  <2>3. BufferAgrees(a)'
    BY <2>1 DEF BufferAgrees, Types
  <2>4. \A b \in Actors : b # a => /\ pc'[b] = pc[b] /\ buf'[b] = buf[b] /\ UNCHANGED <<target, snap>>
                                  /\ missed'[b] = missed[b] \cup Misses(b, a)
    BY <2>1 DEF Goes, Types
  <2>5. ASSUME NEW b \in Actors, b # a, Ordered(b)'
        PROVE  (b \in Turns => TurnAgrees(b)') /\ BufferAgrees(b)'
    <3>1. CASE KeyOf[b] # KeyOf[a]
      <4>1. Ordered(b)
        BY <2>1, <2>4, <2>5, <3>1 DEF Ordered
      <4>2. meant'[KeyOf[b]] = meant[KeyOf[b]]
        BY <2>1, <3>1, Own DEF Types, Files
      <4>3. (b \in Turns => TurnAgrees(b)') /\ BufferAgrees(b)'
        <5>1. Effect(b)' = Effect(b)
          BY <2>4, <2>5, <4>2 DEF Effect, Replaces
        <5>2. QED
          BY <2>4, <2>5, <4>1, <4>2, <5>1 DEF Agreement, TurnAgrees, BufferAgrees
      <4>4. QED
        BY <4>3
    <3>2. CASE KeyOf[b] = KeyOf[a]
      <4>1. KeyOf[a] \notin Misses(b, a)
        BY <2>4, <2>5, <3>2 DEF Ordered
      <4>2. buf[b] = None
        BY <2>1, <2>5, <4>1, Missing
      <4>3. b \in Turns => pc[b] \notin {"sync", "call", "update"}
        <5>1. Busy(a)
          BY <2>1 DEF Types, Writing, Busy
        <5>2. CASE a \in Turns
          BY <2>5, <3>2, <5>1, <5>2 DEF Alone, Busy
        <5>3. CASE a \notin Turns
          BY <3>2, <4>1, <5>3 DEF Misses
        <5>4. QED
          BY <5>2, <5>3
      <4>4. QED
        BY <2>4, <2>5, <4>2, <4>3 DEF TurnAgrees, BufferAgrees
    <3>3. QED
      BY <3>1, <3>2
  <2>6. QED
    BY <2>2, <2>3, <2>5 DEF Agreement
<1>3. CASE UNCHANGED vars
  <2>1. \A a \in Actors : Effect(a)' = Effect(a)
    BY <1>3 DEF vars, Effect, Replaces
  <2>2. QED
    BY <1>3, <2>1 DEF vars, Agreement, FileTrue, Ordered, TurnAgrees, BufferAgrees
<1>4. QED
  BY <1>1, <1>2, <1>3 DEF Next, Step

FileInv == BufferInv /\ Alone /\ Chosen /\ Agreement

LEMMA FileInvInit == Init => FileInv
<1> SUFFICES ASSUME Init PROVE FileInv
  OBVIOUS
<1>1. /\ \A a \in Actors : buf[a] = None /\ pc[a] = "idle"
      /\ file = meant
  BY DEF Init
<1>2. Alone /\ Chosen
  BY <1>1 DEF Alone, Chosen, Busy, Actors
<1>3. Agreement
  BY <1>1 DEF Agreement, FileTrue, TurnAgrees, BufferAgrees, Actors
<1>4. QED
  BY <1>2, <1>3, BufferInvInit DEF FileInv

LEMMA FileInvStep == FileInv /\ [Next]_vars => FileInv'
BY BufferInvStep, AloneStep, ChosenStep, AgreementStep DEF FileInv, BufferInv

\* The file holds what the completed operations add up to, but for sessions that an
\* operation has written after it had missed a write to them.
THEOREM SessionFileTrue == Spec => []FileTrue
<1>1. FileInv => FileTrue
  BY DEF FileInv, Agreement
<1>2. QED
  BY <1>1, FileInvInit, FileInvStep, PTL DEF Spec
=============================================================================
