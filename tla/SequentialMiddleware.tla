------------------------ MODULE SequentialMiddleware ------------------------
(***************************************************************************)
(* The queue in front of a Telegram chat: SequentialMiddleware of          *)
(* messenger/telegram/middleware.py on top of the lock pool.               *)
(*                                                                         *)
(* Every delivery of a message is an asyncio task of its own and a user of *)
(* the pool; the other users (buttons, bus envelopes, webhook wakes) take  *)
(* the same locks without this queue.  A message that finds its session    *)
(* locked gets an entry in the list of its chat and an indicator with a    *)
(* cancel button.  "/stop" is handled before the lock: it kills the turns  *)
(* of the chat and then walks that list.                                   *)
(***************************************************************************)
EXTENDS LockPool, FiniteSetsExt, SequencesExt

CONSTANTS
    Chats,
    ChatOf,      \* the chat of a session
    Deliveries,  \* deliveries of messages, a subset of Users
    MessageOf,   \* the message id of a delivery; redeliveries share it
    KeyOf,       \* its session
    Stops,       \* "/stop" messages
    StopChat,    \* the chat they are sent in
    OtherKeys,   \* bound: the sessions in which the other users take turns
    MaxExpiries  \* bound: how often the cache forgets a message

ASSUME MiddlewareAssumption ==
    /\ ChatOf \in [Keys -> Chats]
    /\ Deliveries \subseteq Users \ Connections
    /\ KeyOf \in [Deliveries -> Keys]
    /\ StopChat \in [Stops -> Chats]
    /\ OtherKeys \subseteq Keys
    /\ MaxExpiries \in Nat

VARIABLES
    seen,       \* DedupeCache: message ids of the last seconds
    expired,    \* history: how often the cache has forgotten a message
    admitted,   \* history: expired of its message when a delivery passed the cache
    pending,    \* _pending of every chat; an entry is named by its delivery
    cancelled,  \* entries with the cancelled flag
    shown,      \* entries whose indicator message exists
    stage,      \* what became of a delivery
    drain,      \* where a "/stop" stands, and the index its drain is at
    queued,     \* history: the entries a "/stop" found
    left        \* history: entries that left the list while it drained

cache     == <<seen, expired, admitted>>
queueVars == <<cache, pending, cancelled, shown, stage, drain, queued, left>>
vars      == <<poolVars, queueVars>>

\* "queued": has an entry; "waiting": waits for the lock without one;
\* "skipping": has the lock and found itself cancelled.
Stages == {"unseen", "queued", "waiting", "skipping", "handling",
           "handled", "discarded", "duplicate"}

\* "detached": the list it iterates over was emptied and dropped from _pending.
DrainPhases == {"unsent", "aborting", "draining", "detached", "over"}

MessageIds == {MessageOf[u] : u \in Deliveries}
Chat(u)    == ChatOf[KeyOf[u]]
Entries(c) == {pending[c][i] : i \in 1 .. Len(pending[c])}
Others     == Users \ Deliveries

Init ==
    /\ PoolInit
    /\ seen = {}
    /\ expired = [m \in MessageIds |-> 0]
    /\ admitted = [u \in Deliveries |-> 0]
    /\ pending = [c \in Chats |-> <<>>]
    /\ cancelled = {}
    /\ shown = {}
    /\ stage = [u \in Deliveries |-> "unseen"]
    /\ drain = [s \in Stops |-> [phase |-> "unsent", next |-> 0]]
    /\ queued = [s \in Stops |-> {}]
    /\ left = [s \in Stops |-> 0]

-----------------------------------------------------------------------------
(* __call__ *)

\* Fault: the id is remembered only when the message is handled.
DuplicateUnlessQueued(u) ==
    \E v \in Deliveries \ {u} : MessageOf[v] = MessageOf[u] /\ stage[v] = "handled"
\* DedupeCache.check.
Duplicate(u) == MessageOf[u] \in seen

\* Lines 334-337: the lock is held, so an entry and an indicator come first.
Queue(u) ==
    /\ Look(u, KeyOf[u])
    /\ pending' = [pending EXCEPT ![Chat(u)] = Append(@, u)]
    /\ stage' = [stage EXCEPT ![u] = "queued"]

\* Line 334 found the lock free: it may still have to wait behind a waiter that
\* was woken, then without an entry.
GoAhead(u) ==
    /\ Enter(u, KeyOf[u])
    /\ ~locked[ref'[u]]
    /\ stage' = [stage EXCEPT ![u] = IF at'[u] = "inside" THEN "handling" ELSE "waiting"]
    /\ UNCHANGED pending

Arrive(u) ==
    /\ stage[u] = "unseen"
    /\ \/ /\ Duplicate(u)
          /\ stage' = [stage EXCEPT ![u] = "duplicate"]
          /\ UNCHANGED <<poolVars, cache, pending>>
       \/ /\ ~Duplicate(u)
          /\ seen' = seen \cup {MessageOf[u]}
          /\ admitted' = [admitted EXCEPT ![u] = expired[MessageOf[u]]]
          /\ UNCHANGED expired
          /\ Queue(u) \/ GoAhead(u)
    /\ UNCHANGED <<cancelled, shown, drain, queued, left>>

\* The cache forgets an id after 30 seconds, or when 200 later ones came: a turn
\* takes longer, so the message may still be waiting or be answered.  It makes no
\* difference for a message that is not delivered again.
Expire(m) ==
    /\ m \in seen
    /\ expired[m] < MaxExpiries
    /\ \E u \in Deliveries : MessageOf[u] = m /\ stage[u] = "unseen"
    /\ seen' = seen \ {m}
    /\ expired' = [expired EXCEPT ![m] = @ + 1]
    /\ UNCHANGED <<poolVars, admitted, pending, cancelled, shown, stage, drain, queued, left>>

\* _remove_entry: an empty list is dropped, and a drain that iterates over it
\* keeps the empty object.
RemoveEntry(u) ==
    LET list == RemoveFirst(pending[Chat(u)], u)
        drainers == {s \in Stops : StopChat[s] = Chat(u) /\ drain[s].phase = "draining"}
    IN  /\ pending' = [pending EXCEPT ![Chat(u)] = list]
        /\ drain' = [s \in Stops |->
               IF s \in drainers /\ list = <<>>
               THEN [drain[s] EXCEPT !.phase = "detached"] ELSE drain[s]]
        /\ left' = [s \in Stops |-> IF s \in drainers THEN left[s] + 1 ELSE left[s]]

\* Fault: the flag is not looked at once the lock is there.
BeginUnchecked(u) ==
    /\ stage' = [stage EXCEPT ![u] = "handling"]
    /\ IF stage[u] = "queued" THEN RemoveEntry(u) ELSE UNCHANGED <<pending, drain, left>>
\* Lines 340-346, when the lock is there.
Begin(u) ==
    /\ stage' = [stage EXCEPT ![u] = IF u \in cancelled THEN "skipping" ELSE "handling"]
    /\ IF stage[u] = "queued" THEN RemoveEntry(u) ELSE UNCHANGED <<pending, drain, left>>

\* Fault: an indicator that cannot be sent raises out of the middleware.
IndicatorRaises(u) ==
    /\ stage[u] = "queued"
    /\ \/ /\ AcquireLooked(u)
          /\ shown' = shown \cup {u}
          /\ IF at'[u] = "inside" THEN Begin(u) ELSE UNCHANGED <<stage, pending, drain, left>>
       \/ /\ Abandon(u)
          /\ UNCHANGED <<shown, stage, pending, drain, left>>
    /\ UNCHANGED <<cache, cancelled, queued>>
\* The indicator is sent (or could not be); then async with lock.
IndicatorSent(u) ==
    /\ stage[u] = "queued"
    /\ AcquireLooked(u)
    /\ shown' \in {shown, shown \cup {u}}
    /\ IF at'[u] = "inside" THEN Begin(u) ELSE UNCHANGED <<stage, pending, drain, left>>
    /\ UNCHANGED <<cache, cancelled, queued>>

TurnComes(u) ==
    /\ stage[u] \in {"queued", "waiting"}
    /\ Resume(u)
    /\ Begin(u)
    /\ UNCHANGED <<cache, cancelled, shown, queued>>

\* The handler returned or raised, or the cancelled message is skipped.
Finish(u) ==
    /\ stage[u] \in {"handling", "skipping"}
    /\ Release(u)
    /\ stage' = [stage EXCEPT ![u] = IF @ = "handling" THEN "handled" ELSE "discarded"]
    /\ UNCHANGED <<cache, pending, cancelled, shown, drain, queued, left>>

-----------------------------------------------------------------------------
(* The cancel button and "/stop" *)

\* cancel_entry.
CancelEntry(u) ==
    /\ u \in Entries(Chat(u)) \ cancelled
    /\ cancelled' = cancelled \cup {u}
    /\ UNCHANGED <<poolVars, cache, pending, shown, stage, drain, queued, left>>

\* _check_abort calls the abort handler, which kills the CLI processes of the chat
\* and answers: turns may end, and others begin, before it returns.
Stop(s) ==
    /\ drain[s].phase = "unsent"
    /\ drain' = [drain EXCEPT ![s].phase = "aborting"]
    /\ queued' = [queued EXCEPT ![s] = Entries(StopChat[s])]
    /\ UNCHANGED <<poolVars, cache, pending, cancelled, shown, stage, left>>

\* Fault: the drain ends at the first entry that is cancelled already.
DrainFromUntilCancelled(s, i) ==
    LET list  == pending[StopChat[s]]
        bad   == {j \in 1 .. Len(list) : j >= i /\ list[j] \in cancelled}
        end   == IF bad = {} THEN Len(list) ELSE Min(bad)
        fresh == {j \in 1 .. end : j >= i /\ list[j] \notin cancelled}
        edits == {j \in fresh : list[j] \in shown}
        last  == IF edits = {} THEN end ELSE Min(edits)
    IN  /\ cancelled' = cancelled \cup {list[j] : j \in {j \in fresh : j <= last}}
        /\ drain' = [drain EXCEPT ![s] =
               [phase |-> IF edits = {} THEN "over" ELSE "draining", next |-> last + 1]]
\* drain_pending from index i of the list up to its next await, the edit of an
\* indicator; only an entry with an indicator has one.
DrainFrom(s, i) ==
    LET list  == pending[StopChat[s]]
        fresh == {j \in 1 .. Len(list) : j >= i /\ list[j] \notin cancelled}
        edits == {j \in fresh : list[j] \in shown}
        last  == IF edits = {} THEN Len(list) ELSE Min(edits)
    IN  /\ cancelled' = cancelled \cup {list[j] : j \in {j \in fresh : j <= last}}
        /\ drain' = [drain EXCEPT ![s] =
               [phase |-> IF edits = {} THEN "over" ELSE "draining", next |-> last + 1]]

DrainStarts(s) ==
    /\ drain[s].phase = "aborting"
    /\ DrainFrom(s, 1)
    /\ UNCHANGED <<poolVars, cache, pending, shown, stage, queued, left>>

DrainGoesOn(s) ==
    /\ drain[s].phase = "draining"
    /\ DrainFrom(s, drain[s].next)
    /\ UNCHANGED <<poolVars, cache, pending, shown, stage, queued, left>>

DrainEnds(s) ==
    /\ drain[s].phase = "detached"
    /\ drain' = [drain EXCEPT ![s].phase = "over"]
    /\ UNCHANGED <<poolVars, cache, pending, cancelled, shown, stage, queued, left>>

-----------------------------------------------------------------------------

DeliveryStep(u) == Arrive(u) \/ IndicatorSent(u) \/ TurnComes(u) \/ Finish(u)
StopStep(s)     == Stop(s) \/ DrainStarts(s) \/ DrainGoesOn(s) \/ DrainEnds(s)
OtherStep(u)    ==
    /\ (\E k \in OtherKeys : Enter(u, k)) \/ Resume(u) \/ Release(u)
    /\ UNCHANGED queueVars

Next ==
    \/ \E u \in Deliveries : DeliveryStep(u) \/ CancelEntry(u)
    \/ \E s \in Stops : StopStep(s)
    \/ \E u \in Others : OtherStep(u)
    \/ \E m \in MessageIds : Expire(m)

Spec == Init /\ [][Next]_vars

\* Telegram calls time out, the loop runs every ready task, and a turn is bounded
\* by the timeout of its CLI call; nobody has to begin anything.
Fairness ==
    /\ \A u \in Deliveries : WF_vars(IndicatorSent(u) \/ TurnComes(u) \/ Finish(u))
    /\ \A u \in Others : WF_vars((Resume(u) \/ Release(u)) /\ UNCHANGED queueVars)

FairSpec == Spec /\ Fairness

-----------------------------------------------------------------------------
(* Properties *)

\* Who was told that a message is cancelled or discarded never sees it answered,
\* even when the lock came while the button or the drain was at work.
CancelKept == \A u \in cancelled : stage[u] \notin {"handling", "handled"}

\* "Per-chat lock ensures sequential processing": one message of a session is
\* answered at a time, as long as the pool has room for every session.
HandlersExclusive ==
    \A u, v \in Deliveries :
        stage[u] = "handling" /\ stage[v] = "handling" /\ KeyOf[u] = KeyOf[v] => u = v

\* A redelivered message is handled again only if the cache has forgotten it since
\* it was admitted, also while its first delivery is still waiting for the lock: two
\* deliveries of one lifetime in the cache are never both handled.
HandledOnce ==
    \A u, v \in Deliveries :
        /\ MessageOf[u] = MessageOf[v] /\ admitted[u] = admitted[v]
        /\ stage[u] \in {"handling", "handled"}
        /\ stage[v] \in {"handling", "handled"}
        => u = v

\* What a "/stop" leaves behind: an entry it found is still waiting uncancelled
\* only if another one left the list while the drain walked it, one for one.
Missed(s) == (queued[s] \cap Entries(StopChat[s])) \ cancelled
DrainMissesFew == \A s \in Stops : drain[s].phase = "over" => Cardinality(Missed(s)) <= left[s]

\* Every message is handled or discarded in the end, whatever is evicted, cancelled
\* or stopped around it.
MessagesSettle ==
    \A u \in Deliveries :
        stage[u] \in {"queued", "waiting", "handling", "skipping"}
        ~> stage[u] \in {"handled", "discarded"}
=============================================================================
