------------------------------ MODULE Sessions ------------------------------
(***************************************************************************)
(* The session file: session/manager.py, as flows.py, injection.py, /new   *)
(* and /model use it.                                                      *)
(*                                                                         *)
(* Every operation reads the whole file in a worker thread and most write  *)
(* it back in another, with a buffer of all sessions in between.  The lock *)
(* of the manager is taken by update_session and sync_session_target only; *)
(* the lock of a topic is held by its turns, not by /model, nor by a /new  *)
(* that names the topic from elsewhere.                                    *)
(***************************************************************************)
EXTENDS Naturals

CONSTANTS
    Keys, Providers,
    Topics,       \* the keys with a topic_id
    Startup,      \* the provider of the default model in config.json
    TopicDefault, \* the provider of a topic's own default model, or None
    Turns,        \* messages and injected prompts, each executed once
    Injected,     \* which of them are injected
    Asks,         \* the provider a message asks for, or None
    Resets,       \* /new commands
    Switches,     \* /model commands
    KeyOf,        \* the session that each of them is about
    Earlier,      \* the id of a conversation from before
    Found,        \* sessions.json as the start finds it
    None

Actors == Turns \cup Resets \cup Switches

\* What the file has of a session: an id and a count for every provider.
Datas  == [Providers -> [id : Turns \cup {Earlier, None}, count : Nat]]
Stored == [provider : Providers, data : Datas]

ASSUME SessionsAssumption ==
    /\ Startup \in Providers /\ Topics \subseteq Keys /\ Injected \subseteq Turns
    /\ Turns \cap Resets = {} /\ Turns \cap Switches = {} /\ Resets \cap Switches = {}
    /\ KeyOf \in [Actors -> Keys]
    /\ TopicDefault \in [Keys -> Providers \cup {None}] /\ Asks \in [Turns -> Providers \cup {None}]
    /\ None \notin Actors \cup Providers \cup Stored
    /\ None \notin [Keys -> Stored \cup {None}]
    /\ Earlier # None /\ Found \in [Keys -> Stored \cup {None}]

VARIABLES
    file,      \* sessions.json: the SessionData of every key, or None
    lock,      \* the holder of SessionManager._lock
    default,   \* the provider of config.model, which /model changes
    pc,        \* the operation an actor is at
    target,    \* the provider that a reset or a switch is for
    buf,       \* the sessions it has read, changed and not yet written
    snap,      \* the SessionData that a turn works with
    retried,   \* turns that have recovered their session
    \* What has happened, which no guard reads:
    meant,     \* what the completed operations of each key add up to
    missed,    \* sessions written since an actor read them, past the lock
    disturbed  \* sessions that such an actor has written after that

vars == <<file, lock, default, pc, target, buf, snap, retried, meant, missed, disturbed>>
ghosts == <<meant, missed, disturbed>>

Empty   == [id |-> None, count |-> 0]
NoData  == [p \in Providers |-> Empty]
Session(p, d) == [provider |-> p, data |-> d]
Busy(a) == pc[a] \notin {"idle", "over"}

Init ==
    /\ file = Found
    /\ lock = None
    /\ default = Startup
    /\ pc = [a \in Actors |-> "idle"]
    /\ target = [a \in Actors |-> Startup]
    /\ buf = [a \in Actors |-> None]
    /\ snap = [a \in Turns |-> None]
    /\ retried = {}
    /\ meant = file
    /\ missed = [a \in Actors |-> {}]
    /\ disturbed = {}

-----------------------------------------------------------------------------
(* Reading and writing the file *)

LockedOps == {"sync", "update", "switch"}

\* The operation a is at reads the file.
ReadsLocked(a)   == buf[a] = None /\ lock = None
ReadsUnlocked(a) == buf[a] = None

\* Its buffer with a session for its key, to be written.
WillWrite(a, session) == buf' = [buf EXCEPT ![a] = [file EXCEPT ![KeyOf[a]] = session]]

Goes(a, to) == pc' = [pc EXCEPT ![a] = to]

After(a) ==
    CASE pc[a] = "resolve" -> "sync"
      [] pc[a] = "sync" -> "call"
      [] pc[a] = "reset" /\ a \in Turns -> "resolve"
      [] pc[a] = "switch" -> "config"
      [] OTHER -> "over"

\* A stale or missing session is replaced.
Replaces(a) == pc[a] = "resolve" /\ buf[a][KeyOf[a]].data = NoData

\* What an operation is for: a completed turn counts and its conversation goes on,
\* a reset drops the session of one provider, which becomes the active one, a switch
\* and the request of a message change the active one only.
Effect(a) ==
    LET now == buf[a][KeyOf[a]]
        old == IF meant[KeyOf[a]] = None THEN Session(now.provider, NoData) ELSE meant[KeyOf[a]]
        p   == IF a \in Turns THEN snap[a].provider ELSE target[a]
    IN
    CASE Replaces(a) -> now
      [] pc[a] = "resolve" /\ ~Replaces(a) -> Session(p, old.data)
      [] pc[a] = "reset" -> Session(target[a], [old.data EXCEPT ![target[a]] = Empty])
      [] pc[a] = "switch" -> Session(p, old.data)
      [] pc[a] = "update" -> Session(old.provider, [old.data EXCEPT ![p] =
                                 [id |-> snap[a].data[p].id, count |-> @.count + 1]])
      [] OTHER -> old

\* a saves; b has read sessions before that and writes them later, and nothing
\* orders the two; or b is a turn that goes on with the session it has read, and a
\* is a command.
Misses(b, a) ==
    (IF buf[b] # None /\ ~({pc[a], pc[b]} \subseteq LockedOps) THEN {KeyOf[a]} \cup missed[a] ELSE {})
    \cup
    (IF pc[b] \in {"sync", "call", "update"} /\ KeyOf[a] = KeyOf[b] /\ a \notin Turns
     THEN {KeyOf[a]} ELSE {})

\* _save: the whole buffer replaces the file.
Save(a) ==
    /\ buf[a] # None
    /\ file' = buf[a]
    /\ buf' = [buf EXCEPT ![a] = None]
    /\ lock' = IF lock = a THEN None ELSE lock
    /\ Goes(a, After(a))
    /\ meant' = [meant EXCEPT ![KeyOf[a]] = Effect(a)]
    /\ missed' = [b \in Actors |-> IF b = a THEN {} ELSE missed[b] \cup Misses(b, a)]
    /\ disturbed' = (disturbed \cup missed[a]) \ (IF Replaces(a) THEN {KeyOf[a]} ELSE {})
    /\ UNCHANGED <<default, target, snap, retried>>

-----------------------------------------------------------------------------
(* A turn: resolve, sync, call, update; an injected prompt: call, update. *)

\* The turns of a topic have its lock.
TopicLocked(a) == \E b \in Turns \ {a} : KeyOf[b] = KeyOf[a] /\ Busy(b)

\* The provider that a turn, or a /new, falls back on.
OrElse(p, q) == IF p # None THEN p ELSE q

\* A turn, or a /new: reset_active_provider_session takes the default of the topic, or
\* that of the start, whatever /model has set.
Begin(a) ==
    /\ pc[a] = "idle" /\ a \in (Turns \ Injected) \cup Resets
    /\ a \in Turns => ~TopicLocked(a)
    /\ Goes(a, IF a \in Turns THEN "resolve" ELSE "reset")
    /\ target' = [target EXCEPT ![a] = OrElse(TopicDefault[KeyOf[a]], Startup)]
    /\ UNCHANGED <<file, lock, default, buf, snap, retried, ghosts>>

\* An injected prompt goes on with the session of the topic, if it has one: its answer
\* is recorded only then.
Inject(a) ==
    /\ pc[a] = "idle" /\ a \in Injected /\ ~TopicLocked(a)
    /\ snap' = [snap EXCEPT ![a] = file[KeyOf[a]]]
    /\ Goes(a, IF file[KeyOf[a]] # None THEN "call" ELSE "over")
    /\ missed' = [missed EXCEPT ![a] = {}]
    /\ UNCHANGED <<file, lock, default, target, buf, retried, meant, disturbed>>

\* resolve_session: a fresh session is used, with another provider if the message or
\* the topic asks for one; a stale or missing one is replaced.  A new model of the same
\* provider, or a topic's name, is written, too.
Resolve(a) ==
    LET found  == file[KeyOf[a]]
        wanted == OrElse(Asks[a], TopicDefault[KeyOf[a]])
    IN
    /\ pc[a] = "resolve" /\ ReadsUnlocked(a)
    /\ \E fresh \in BOOLEAN :
        LET kept == found # None /\ fresh
            used == IF kept THEN Session(OrElse(wanted, found.provider), found.data)
                            ELSE Session(OrElse(wanted, default), NoData)
        IN
        /\ snap' = [snap EXCEPT ![a] = used]
        /\ \/ WillWrite(a, used) /\ UNCHANGED pc
           \/ kept /\ used = found /\ Goes(a, "sync") /\ UNCHANGED buf
    /\ missed' = [missed EXCEPT ![a] = {}]
    /\ UNCHANGED <<file, lock, default, target, retried, meant, disturbed>>

\* sync_session_target: under the lock, a session that has another provider, or
\* another model of it, is written.
SyncTo(a, p) ==
    LET found == file[KeyOf[a]] IN
    /\ ReadsLocked(a)
    /\ \/ /\ found # None
          /\ WillWrite(a, Session(p, found.data))
          /\ lock' = a /\ UNCHANGED pc
       \/ /\ found # None => found.provider = p
          /\ Goes(a, After(a))
          /\ UNCHANGED <<buf, lock>>
    /\ UNCHANGED <<file, default, target, snap, retried, ghosts>>

Sync(a) == pc[a] = "sync" /\ SyncTo(a, snap[a].provider)

\* The CLI answers or times out, in the session it resumed, in a new one, or without an
\* id; an injected prompt is recorded even when it fails.
Answered(a) ==
    LET p == snap[a].provider IN
    /\ pc[a] = "call"
    /\ \E id \in {snap[a].data[p].id, a} : snap' = [snap EXCEPT ![a].data[p].id = id]
    /\ Goes(a, "update")
    /\ UNCHANGED <<file, lock, default, target, buf, retried, ghosts>>

\* It raises, or it fails or was aborted by /stop or by the kill_all of a /model, of a
\* recovery or of the error of another turn: a message is not recorded.
Failed(a) ==
    /\ pc[a] = "call"
    /\ Goes(a, "over")
    /\ UNCHANGED <<file, lock, default, target, buf, snap, retried, ghosts>>

\* Its session is unknown to the CLI, or it was killed: _recover_session resets the
\* session of the provider the message asks for or of the configured model, even when
\* the turn worked with another one, and prepares the turn again.
Recover(a) ==
    /\ pc[a] = "call" /\ a \notin retried \cup Injected
    /\ retried' = retried \cup {a}
    /\ target' = [target EXCEPT ![a] = OrElse(Asks[a], default)]
    /\ missed' = [missed EXCEPT ![a] = {}]
    /\ Goes(a, "reset")
    /\ UNCHANGED <<file, lock, default, buf, snap, meant, disturbed>>

\* _merge_provider_sessions: ids of the turn, the higher counts.
Merge(current, incoming) ==
    [p \in Providers |->
        [id    |-> IF incoming[p].id # None THEN incoming[p].id ELSE current[p].id,
         count |-> IF incoming[p].count > current[p].count
                   THEN incoming[p].count ELSE current[p].count]]

\* What update_session makes of the session it finds: one turn more.
Counted(a, found) ==
    LET data == IF found = None THEN snap[a].data ELSE Merge(found.data, snap[a].data)
        p    == snap[a].provider
    IN  Session(p, [data EXCEPT ![p].count = @ + 1])

\* Fault: the update runs without the lock.
UpdateUnlocked(a) ==
    /\ pc[a] = "update" /\ buf[a] = None
    /\ WillWrite(a, Counted(a, file[KeyOf[a]]))
    /\ UNCHANGED <<file, lock, default, pc, target, snap, retried, ghosts>>

\* update_session.
Update(a) ==
    /\ pc[a] = "update" /\ ReadsLocked(a)
    /\ lock' = a
    /\ WillWrite(a, Counted(a, file[KeyOf[a]]))
    /\ UNCHANGED <<file, default, pc, target, snap, retried, ghosts>>

-----------------------------------------------------------------------------
(* /new and /model *)

\* Fault: the sessions of all providers are dropped.
ResetAll(a) ==
    /\ pc[a] = "reset" /\ ReadsUnlocked(a)
    /\ WillWrite(a, Session(target[a], NoData))
    /\ UNCHANGED <<file, lock, default, pc, target, snap, retried, ghosts>>

\* reset_provider_session for one provider, which becomes the active one.
Reset(a) ==
    LET found == file[KeyOf[a]]
        p     == target[a]
    IN
    /\ pc[a] = "reset" /\ ReadsUnlocked(a)
    /\ WillWrite(a, Session(p, IF found = None THEN NoData ELSE [found.data EXCEPT ![p] = Empty]))
    /\ UNCHANGED <<file, lock, default, pc, target, snap, retried, ghosts>>

\* switch_model, without the topic lock: it looks up the session, kills the processes of
\* the chat, whose calls fail then, and goes on to the session if there is one.
Ask(a) ==
    /\ a \in Switches /\ pc[a] = "idle"
    /\ \E p \in Providers : target' = [target EXCEPT ![a] = p]
    /\ Goes(a, IF file[KeyOf[a]] # None THEN "switch" ELSE "config")
    /\ UNCHANGED <<file, lock, default, buf, snap, retried, ghosts>>

Switch(a) == pc[a] = "switch" /\ SyncTo(a, target[a])

\* Outside topics it sets the default of all sessions to come.
Configure(a) ==
    /\ pc[a] = "config"
    /\ default' = IF KeyOf[a] \in Topics THEN default ELSE target[a]
    /\ Goes(a, "over")
    /\ UNCHANGED <<file, lock, target, buf, snap, retried, ghosts>>

Next == \E a \in Actors :
    \/ Begin(a) \/ Inject(a) \/ Resolve(a) \/ Sync(a) \/ Answered(a) \/ Failed(a)
    \/ Recover(a) \/ Update(a) \/ Reset(a) \/ Ask(a) \/ Switch(a) \/ Configure(a) \/ Save(a)

Spec == Init /\ [][Next]_vars

-----------------------------------------------------------------------------
(* Properties *)

\* The file holds what the completed operations add up to: no recorded turn is lost from
\* a session's count or its conversation, no reset session returns, the sessions of other
\* providers are kept and the active provider is the one last chosen; unless an operation
\* wrote the session that had missed a write to it, until the session is replaced.
FileTrue == \A k \in Keys \ disturbed : file[k] = meant[k]

\* Writing one session, with a buffer of all sessions that may be old, changes another
\* session only when that was written, since the buffer was read, by or over one of
\* resolve_session and reset_provider_session, which take no lock; the lock keeps
\* update_session and sync_session_target from doing this to each other.
OthersKept ==
    [][\A a \in Actors : buf[a] # None /\ buf'[a] = None
           => \A k \in Keys \ ({KeyOf[a]} \cup missed[a]) : file'[k] = file[k]]_vars
=============================================================================
