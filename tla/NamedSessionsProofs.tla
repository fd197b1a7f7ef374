------------------------- MODULE NamedSessionsProofs -------------------------
(***************************************************************************)
(* Proofs about the named sessions, for any number of calls, sessions and  *)
(* prompts and any limits: one call works in a session at a time, its      *)
(* status is true, and the file has what a crash would interrupt, but for  *)
(* the loose sessions.  What is loose is so until no call works in it, so  *)
(* the invariant speaks of the calls at work in the others.                *)
(***************************************************************************)
EXTENDS NamedSessions, TLAPS

Works == {"queued", "cli", "back"}
Live(c) == at[c] \notin {"idle", "lost"}

\* Call c works in a session that is not loose.
Bound(c) == at[c] \in Works /\ job[c].name \notin loose

Solo == \A c, d \in Calls : Bound(c) /\ Bound(d) /\ job[c].name = job[d].name => c = d

\* A call under way runs in the background unless it is in the CLI, is for the peer
\* if it is of the peer, does not outlive the process, and is not of a session still
\* to be recovered.
Shape ==
    \A c \in Calls :
        Live(c) =>
            /\ at[c] # "cli" => job[c].kind = "bg"
            /\ job[c].kind = "ia" => job[c].name = Peer
            /\ up # "down"
            /\ up = "starting" => job[c].name \notin recovered

\* Who works in a session has it read "running", unless it was ended.
Reads ==
    \A c \in Calls : Bound(c) => session[job[c].name].status \in {"running", "ended"}

\* What reads "running" has a call that holds its object, or has lost one.
Owner(c) == at[c] = "lost" \/ (at[c] \in Works /\ job[c].current)
Owned ==
    \A n \in Names :
        session[n].status = "running" => \E c \in Calls : job[c].name = n /\ Owner(c)

\* Registry and file agree on the work under way and on its prompt.
AsSaved(p) == [status |-> "running", sid |-> TRUE, prompt |-> p]
Kept ==
    \A c \in Calls :
        /\ Bound(c) /\ job[c].resumed /\ job[c].name # Peer
        /\ session[job[c].name].status = "running"
        => /\ session[job[c].name] = AsSaved(job[c].prompt)
           /\ file[job[c].name] = AsSaved(job[c].prompt)

Core == Solo /\ Shape /\ Reads /\ Owned /\ Kept
Inv  == TypeOK /\ Core

-----------------------------------------------------------------------------
(* Types of the records. *)

Sess  == [status : {"none", "running", "idle", "ended"}, sid : BOOLEAN, prompt : Prompts \cup {None}]
Filed == [status : {"none", "running", "idle"}, sid : BOOLEAN, prompt : Prompts \cup {None}]
Jobs  == [kind : {"bg", "fg", "ia"}, name : Names, prompt : Prompts \cup {None},
          resumed : BOOLEAN, current : BOOLEAN, cancel : {"no", "coming", "came"}]

LEMMA Typed ==
    TypeOK <=>
        /\ up \in {"down", "starting", "up"} /\ stop \in {"no", "chat", "agents", "exit"}
        /\ session \in [Names -> Sess] /\ file \in [Names -> Filed]
        /\ recovered \subseteq Names \ {Peer}
        /\ at \in [Calls -> Phases] /\ job \in [Calls -> Jobs] /\ loose \subseteq Names
BY DEF TypeOK, Sess, Filed, Jobs

LEMMA SessFields ==
    ASSUME NEW s \in Sess
    PROVE  /\ s.status \in {"none", "running", "idle", "ended"} /\ s.sid \in BOOLEAN
           /\ s.prompt \in Prompts \cup {None}
           /\ s.status # "ended" => s \in Filed
BY DEF Sess, Filed

LEMMA FiledFields ==
    ASSUME NEW s \in Filed
    PROVE  /\ s \in Sess /\ s.status # "ended"
           /\ [s EXCEPT !.status = "idle"] \in Sess
           /\ [s EXCEPT !.status = "idle"].status = "idle"
BY DEF Sess, Filed

LEMMA WithStatus ==
    ASSUME NEW s \in Sess, NEW x \in {"none", "running", "idle", "ended"}
    PROVE  [s EXCEPT !.status = x] \in Sess /\ [s EXCEPT !.status = x].status = x
BY DEF Sess

LEMMA Equal ==
    ASSUME NEW s \in Sess, NEW t \in Sess,
           s.status = t.status, s.sid = t.sid, s.prompt = t.prompt
    PROVE  s = t
BY DEF Sess

LEMMA WithPrompt ==
    ASSUME NEW s \in Sess, NEW p \in Prompts \cup {None}
    PROVE  LET t == [s EXCEPT !.status = "running", !.prompt = p] IN
           t \in Sess /\ t.status = "running" /\ (s.sid => t = AsSaved(p))
<1> DEFINE t == [s EXCEPT !.status = "running", !.prompt = p]
<1>1. t \in Sess /\ t.status = "running" /\ t.sid = s.sid /\ t.prompt = p
  BY DEF Sess
<1>2. AsSaved(p) \in Sess /\ AsSaved(p).status = "running" /\ AsSaved(p).prompt = p
      /\ AsSaved(p).sid = TRUE
  BY DEF Sess, AsSaved
<1>3. s.sid => s.sid = TRUE
  BY SessFields
<1> HIDE DEF t
<1>4. s.sid => t = AsSaved(p)
  BY <1>1, <1>2, <1>3, Equal
<1> QED
  BY <1>1, <1>4 DEF t

LEMMA WithSid ==
    ASSUME NEW s \in Sess, NEW sid \in BOOLEAN
    PROVE  LET t == [s EXCEPT !.status = "idle", !.sid = @ \/ sid] IN
           t \in Sess /\ t.status = "idle"
<1>1. [s EXCEPT !.status = "idle", !.sid = @ \/ sid]
        = [s EXCEPT !.status = "idle", !.sid = (s.sid \/ sid)]
  BY DEF Sess
<1>2. (s.sid \/ sid) \in BOOLEAN
  OBVIOUS
<1>3. ASSUME NEW b \in BOOLEAN
      PROVE  /\ [s EXCEPT !.status = "idle", !.sid = b] \in Sess
             /\ [s EXCEPT !.status = "idle", !.sid = b].status = "idle"
  BY DEF Sess
<1> QED
  BY <1>1, <1>2, <1>3

LEMMA Fresh ==
    /\ NoSession \in Sess /\ NoSession \in Filed /\ NoSession.status = "none"
    /\ [NoSession EXCEPT !.status = "running"] \in Sess
    /\ [NoSession EXCEPT !.status = "running"].status = "running"
BY DEF NoSession, Sess, Filed

LEMMA NoJobTyped == NoJob \in Jobs
BY NamedSessionsAssumption DEF NoJob, Jobs

LEMMA LostTyped ==
    ASSUME NEW n \in Names
    PROVE  [NoJob EXCEPT !.name = n] \in Jobs /\ [NoJob EXCEPT !.name = n].name = n
BY DEF NoJob, Jobs

LEMMA NewJob ==
    ASSUME NEW kind \in {"bg", "fg", "ia"}, NEW n \in Names, NEW p \in Prompts \cup {None},
           NEW r \in BOOLEAN
    PROVE  LET j == [kind |-> kind, name |-> n, prompt |-> p, current |-> TRUE,
                     cancel |-> "no", resumed |-> r] IN
           /\ j \in Jobs /\ j.kind = kind /\ j.name = n /\ j.prompt = p /\ j.current
           /\ j.resumed = r
BY DEF Jobs

\* Two jobs that differ in nothing an invariant looks at.
Alike(j, k) ==
    /\ j.kind = k.kind /\ j.name = k.name /\ j.prompt = k.prompt
    /\ j.resumed = k.resumed /\ j.current = k.current

LEMMA WithCancel ==
    ASSUME NEW j \in Jobs, NEW x \in {"no", "coming", "came"}
    PROVE  [j EXCEPT !.cancel = x] \in Jobs /\ Alike([j EXCEPT !.cancel = x], j)
BY DEF Jobs, Alike

LEMMA WithCurrent ==
    ASSUME NEW j \in Jobs, NEW b \in BOOLEAN
    PROVE  LET k == [j EXCEPT !.current = @ /\ ~b] IN
           /\ k \in Jobs /\ k.name = j.name /\ k.kind = j.kind
           /\ ~b => Alike(k, j)
BY DEF Jobs, Alike

LEMMA JobFields ==
    ASSUME NEW j \in Jobs
    PROVE  /\ j.kind \in {"bg", "fg", "ia"} /\ j.name \in Names /\ j.prompt \in Prompts \cup {None}
           /\ j.resumed \in BOOLEAN /\ j.current \in BOOLEAN
BY DEF Jobs

-----------------------------------------------------------------------------
(* What the operations of the registry do to it. *)

Registry == session \in [Names -> Sess] /\ file \in [Names -> Filed]

LEMMA SavedTyped ==
    ASSUME NEW s \in [Names -> Sess]
    PROVE  /\ Saved(s) \in [Names -> Filed]
           /\ \A n \in Names : s[n].status = "running" => Saved(s)[n] = s[n]
<1>1. \A n \in Names : s[n] \in Sess
  OBVIOUS
<1>2. \A n \in Names : s[n].status # "ended" => s[n] \in Filed
  BY <1>1, SessFields
<1> HIDE DEF Sess, Filed
<1> QED
  BY <1>2, Fresh DEF Saved

LEMMA PutDoes ==
    ASSUME Registry, NEW n \in Names, NEW s \in Sess, Put(n, s)
    PROVE  /\ Registry'
           /\ session'[n] = s
           /\ \A m \in Names : m # n => session'[m] = session[m]
           /\ \A m \in Names : session'[m].status = "running" => file'[m] = session'[m]
<1>1. session' \in [Names -> Sess] /\ session'[n] = s
      /\ \A m \in Names : m # n => session'[m] = session[m]
  BY DEF Registry, Put
<1>2. file' = Saved(session')
  BY DEF Put
<1> QED
  BY <1>1, <1>2, SavedTyped DEF Registry

\* Session n has come to rest, and no other has changed.
AtRest(n) ==
    /\ session'[n].status # "running"
    /\ \A m \in Names : m # n => session'[m] = session[m]
    /\ \A m \in Names : session'[m].status = "running" => file'[m] \in {file[m], session'[m]}

LEMMA UpdateDoes ==
    ASSUME Registry, NEW n \in Names, NEW sid \in BOOLEAN, Update(n, sid)
    PROVE  Registry' /\ AtRest(n)
<1> DEFINE t == [session[n] EXCEPT !.status = "idle", !.sid = @ \/ sid]
<1>1. CASE session[n].status = "none"
  BY <1>1 DEF Update, AtRest, Registry
<1>2. CASE session[n].status # "none"
  <2>1. t \in Sess /\ t.status = "idle"
    BY WithSid DEF Registry
  <2>2. Put(n, t)
    BY <1>2 DEF Update
  <2> HIDE DEF t
  <2> QED
    BY <2>1, <2>2, PutDoes DEF AtRest
<1> QED
  BY <1>1, <1>2

LEMMA SetIdleDoes ==
    ASSUME Registry, NEW c \in Calls, job[c].name \in Names, job[c].current, SetStatus(c, "idle")
    PROVE  Registry' /\ AtRest(job[c].name)
<1> DEFINE t == [session[job[c].name] EXCEPT !.status = "idle"]
<1>1. t \in Sess /\ t.status = "idle"
  BY WithStatus DEF Registry
<1>2. session' = [session EXCEPT ![job[c].name] = t] /\ file' = file
  BY DEF SetStatus
<1> HIDE DEF t
<1> QED
  BY <1>1, <1>2 DEF AtRest, Registry

\* Sessions are ended, or have not changed.
OnlyEnds ==
    \A n \in Names :
        \/ session'[n].status = "ended"
        \/ /\ session'[n] = session[n]
           /\ session[n].status = "running" => file'[n] \in {file[n], session[n]}

LEMMA EndSessionDoes ==
    ASSUME Registry, NEW n \in Names, EndSession(n)
    PROVE  Registry' /\ OnlyEnds
<1> DEFINE t == [session[n] EXCEPT !.status = "ended"]
<1>1. t \in Sess /\ t.status = "ended"
  BY WithStatus DEF Registry
<1>2. Put(n, t)
  BY DEF EndSession
<1> HIDE DEF t
<1> QED
  BY <1>1, <1>2, PutDoes DEF OnlyEnds

LEMMA EndAllDoes ==
    ASSUME Registry, EndAll
    PROVE  Registry' /\ OnlyEnds
<1>1. CASE ~ \E n \in Names : Active(n)
  BY <1>1 DEF EndAll, Registry, OnlyEnds
<1>2. CASE \E n \in Names : Active(n)
  <2>1. /\ session' = [n \in Names |-> IF Active(n) THEN [session[n] EXCEPT !.status = "ended"]
                                                    ELSE session[n]]
        /\ file' = Saved(session')
    BY <1>2 DEF EndAll
  <2>2. \A n \in Names : /\ [session[n] EXCEPT !.status = "ended"] \in Sess
                          /\ [session[n] EXCEPT !.status = "ended"].status = "ended"
    BY WithStatus DEF Registry
  <2>3. session' \in [Names -> Sess]
        /\ \A n \in Names : session'[n].status = "ended" \/ session'[n] = session[n]
    BY <2>1, <2>2 DEF Registry
  <2> QED
    BY <2>1, <2>3, SavedTyped DEF Registry, OnlyEnds
<1> QED
  BY <1>1, <1>2

-----------------------------------------------------------------------------
(* Four kinds of steps, and that each keeps the invariant. *)

LEMMA LiveWorks == \A c \in Calls : at[c] \in Works => Live(c)
BY DEF Works, Live

\* No session is tight again while a call works in it.
Held ==
    \A c \in Calls :
        at[c] \in Works /\ at'[c] \in Works /\ job'[c].name = job[c].name /\ job[c].name \in loose
            => job[c].name \in loose'

LEMMA PastHolds ==
    ASSUME NEW ns, Past(ns), loose \subseteq Names, ns \subseteq Names
    PROVE  /\ loose' \subseteq Names /\ Held
           /\ \A c \in Calls : at[c] \in Works /\ at'[c] \in Works /\ job'[c].name = job[c].name
                               /\ job[c].name \in ns => job[c].name \in loose'
BY DEF Past, Held, AtWork, Works

LEMMA SameHolds == ASSUME loose' = loose PROVE Held
BY DEF Held

\* Calls go on or end; those that hold their session and leave it at work are lost.
Calm ==
    /\ up' = up /\ session' = session /\ file' = file /\ recovered' = recovered
    /\ Held
    /\ \A c \in Calls :
          /\ at'[c] \in Works => at[c] \in Works
          /\ Live(c)' => /\ Live(c) /\ Alike(job'[c], job[c])
                         /\ at'[c] # "cli" => job[c].kind = "bg"
          /\ Owner(c) => Owner(c)' /\ job'[c].name = job[c].name

LEMMA CalmKeeps == Core /\ Calm => Core'
<1> SUFFICES ASSUME Core, Calm PROVE Core'
  OBVIOUS
<1>1. \A c \in Calls : Live(c)' => Live(c) /\ Alike(job'[c], job[c])
  BY DEF Calm
<1>4. \A c \in Calls : Bound(c)' => Bound(c) /\ Alike(job'[c], job[c])
  BY <1>1 DEF Calm, Works, Live, Bound, Held, Alike
<1>2. Solo'
  BY <1>4 DEF Core, Solo, Alike
<1>3. Shape'
  BY <1>1 DEF Core, Shape, Calm, Alike
<1>5. Reads'
  BY <1>4 DEF Core, Reads, Calm, Alike
<1>6. Owned'
  BY DEF Core, Owned, Calm
<1>7. Kept'
  BY <1>4 DEF Core, Kept, Calm, Alike
<1> QED
  BY <1>2, <1>3, <1>5, <1>6, <1>7 DEF Core

\* Call c reports to its session, or gives it back, and only sends from then on; a
\* session in which another one works is loose.
Reports(c) ==
    /\ up' = up /\ recovered' = recovered
    /\ Live(c)
    /\ Held
    /\ at[c] \in Works \/ \A d \in Calls : at'[d] \in Works => job[d].name # job[c].name
                                                            \/ job[d].name \in loose'
    /\ AtRest(job[c].name)
    /\ at'[c] \notin Works /\ (Live(c)' => Alike(job'[c], job[c]) /\ job[c].kind = "bg")
    /\ \A d \in Calls : d # c => at'[d] = at[d] /\ job'[d] = job[d]

LEMMA ReportsKeeps ==
    ASSUME Core, NEW c \in Calls, Reports(c), \A d \in Calls : job[d].name \in Names
    PROVE  Core'
<1>1. \A d \in Calls : Live(d)' => Live(d) /\ Alike(job'[d], job[d])
  BY DEF Reports, Live, Alike
<1>3. Shape'
  BY <1>1 DEF Core, Shape, Reports, Alike, Live
<1>4. ASSUME NEW d \in Calls, Bound(d)'
      PROVE  d # c /\ Bound(d) /\ job'[d] = job[d] /\ job[d].name # job[c].name
  <2>1. d # c /\ at[d] \in Works /\ at'[d] = at[d] /\ job'[d] = job[d]
    BY <1>4 DEF Reports, Bound
  <2>2. Bound(d)
    BY <1>4, <2>1 DEF Reports, Bound, Held
  <2>3. job[d].name # job[c].name
    BY <1>4, <2>1, <2>2 DEF Core, Solo, Reports, Bound
  <2> QED
    BY <2>1, <2>2, <2>3
<1>2. Solo'
  BY <1>4 DEF Core, Solo
<1>5. Reads'
  BY <1>4 DEF Core, Reads, Reports, AtRest
<1>6. Owned'
  <2> SUFFICES ASSUME NEW m \in Names, session'[m].status = "running"
               PROVE  \E d \in Calls : job'[d].name = m /\ Owner(d)'
    BY DEF Owned
  <2>1. m # job[c].name /\ session[m].status = "running"
    BY DEF Reports, AtRest
  <2>2. PICK d \in Calls : job[d].name = m /\ Owner(d)
    BY <2>1 DEF Core, Owned
  <2> QED
    BY <2>1, <2>2 DEF Reports, Owner
<1>7. Kept'
  <2> SUFFICES ASSUME NEW d \in Calls, Bound(d)', job'[d].resumed, job'[d].name # Peer,
                      session'[job'[d].name].status = "running"
               PROVE  /\ session'[job'[d].name] = AsSaved(job'[d].prompt)
                      /\ file'[job'[d].name] = AsSaved(job'[d].prompt)
    BY DEF Kept
  <2>1. Bound(d) /\ job'[d] = job[d] /\ session'[job[d].name] = session[job[d].name]
        /\ file'[job[d].name] \in {file[job[d].name], session[job[d].name]}
    BY <1>4 DEF Reports, AtRest
  <2> QED
    BY <2>1 DEF Core, Kept
<1> QED
  BY <1>2, <1>3, <1>5, <1>6, <1>7 DEF Core

\* Sessions are ended under calls that go on.
LEMMA OnlyEndsKeeps ==
    ASSUME Core, OnlyEnds, up' = up, recovered' = recovered, at' = at, job' = job, loose' = loose,
           \A d \in Calls : job[d].name \in Names
    PROVE  Core'
<1>1. Solo' /\ Shape'
  BY DEF Core, Solo, Shape, Live, Bound
<1>2. Reads'
  BY DEF Core, Reads, OnlyEnds, Bound
<1>3. Owned'
  BY DEF Core, Owned, OnlyEnds, Owner
<1>4. Kept'
  BY DEF Core, Kept, OnlyEnds, AsSaved, Bound
<1> QED
  BY <1>1, <1>2, <1>3, <1>4 DEF Core

\* Call c starts, or is refused, in session n, where no other works or which is loose.
Starts(c, n) ==
    /\ up' = up /\ up # "down" /\ recovered' \subseteq recovered
    /\ up = "starting" => n \notin recovered'
    /\ Free(c)
    /\ Held
    /\ \A d \in Calls : at[d] \in Works /\ job[d].name = n /\ at'[d] = at[d] => n \in loose'
    /\ at'[c] \in {"queued", "cli", "lost"}
    /\ job'[c].name = n /\ job'[c].current
    /\ at'[c] = "queued" => job'[c].kind = "bg"
    /\ job'[c].kind = "ia" => n = Peer
    /\ \A d \in Calls : d # c =>
          /\ at'[d] = at[d] /\ job'[d].name = job[d].name /\ job'[d].kind = job[d].kind
          /\ job[d].name # n => Alike(job'[d], job[d])
    /\ session'[n].status = "running"
    /\ \A m \in Names : m # n =>
          /\ session'[m] = session[m]
          /\ session[m].status = "running" => file'[m] \in {file[m], session[m]}
    /\ job'[c].resumed /\ n # Peer =>
          session'[n] = AsSaved(job'[c].prompt) /\ file'[n] = AsSaved(job'[c].prompt)

LEMMA StartsKeeps ==
    ASSUME Core, NEW c \in Calls, NEW n \in Names, Starts(c, n),
           \A d \in Calls : job[d].name \in Names
    PROVE  Core'
<1>1. \A d \in Calls : d # c /\ Live(d)' =>
          Live(d) /\ job'[d].name = job[d].name /\ job'[d].kind = job[d].kind /\ at'[d] = at[d]
  BY DEF Starts, Live
<1>4. ASSUME NEW d \in Calls, d # c, Bound(d)'
      PROVE  Bound(d) /\ Alike(job'[d], job[d]) /\ job[d].name # n
  <2>1. at[d] \in Works /\ at'[d] = at[d] /\ job'[d].name = job[d].name
    BY <1>4 DEF Starts, Bound
  <2>2. job[d].name # n /\ Bound(d)
    BY <1>4, <2>1 DEF Starts, Bound, Held
  <2> QED
    BY <1>4, <2>2 DEF Starts
<1>2. Solo'
  BY <1>4 DEF Core, Solo, Alike, Starts
<1>3. Shape'
  <2> SUFFICES ASSUME NEW d \in Calls, Live(d)'
               PROVE  /\ at'[d] # "cli" => job'[d].kind = "bg"
                      /\ job'[d].kind = "ia" => job'[d].name = Peer
                      /\ up' # "down"
                      /\ up' = "starting" => job'[d].name \notin recovered'
    BY DEF Shape
  <2>1. CASE d = c
    BY <2>1 DEF Starts, Live
  <2>2. CASE d # c
    BY <2>2, <1>1 DEF Core, Shape, Starts
  <2> QED
    BY <2>1, <2>2
<1>5. Reads'
  <2> SUFFICES ASSUME NEW d \in Calls, Bound(d)'
               PROVE  session'[job'[d].name].status \in {"running", "ended"}
    BY DEF Reads
  <2>1. CASE d = c
    BY <2>1 DEF Starts
  <2>2. CASE d # c
    BY <2>2, <1>4 DEF Core, Reads, Starts, Alike
  <2> QED
    BY <2>1, <2>2
<1>6. Owned'
  <2> SUFFICES ASSUME NEW m \in Names, session'[m].status = "running"
               PROVE  \E d \in Calls : job'[d].name = m /\ Owner(d)'
    BY DEF Owned
  <2>1. CASE m = n
    BY <2>1 DEF Starts, Owner, Works
  <2>2. CASE m # n
    <3>1. session[m].status = "running"
      BY <2>2 DEF Starts
    <3>2. PICK d \in Calls : job[d].name = m /\ Owner(d)
      BY <3>1 DEF Core, Owned
    <3>3. d # c
      BY <3>1, <3>2 DEF Starts, Free, Owner, Works
    <3> QED
      BY <2>2, <3>2, <3>3 DEF Starts, Owner, Alike
  <2> QED
    BY <2>1, <2>2
<1>7. Kept'
  <2> SUFFICES ASSUME NEW d \in Calls, Bound(d)', job'[d].resumed, job'[d].name # Peer,
                      session'[job'[d].name].status = "running"
               PROVE  /\ session'[job'[d].name] = AsSaved(job'[d].prompt)
                      /\ file'[job'[d].name] = AsSaved(job'[d].prompt)
    BY DEF Kept
  <2>1. CASE d = c
    BY <2>1 DEF Starts
  <2>2. CASE d # c
    <3>1. /\ Bound(d) /\ Alike(job'[d], job[d]) /\ job[d].name # n
          /\ session'[job[d].name] = session[job[d].name]
      BY <2>2, <1>4 DEF Starts
    <3>2. session[job[d].name].status = "running"
      BY <3>1 DEF Alike
    <3>3. file'[job[d].name] \in {file[job[d].name], session[job[d].name]}
      BY <3>1, <3>2 DEF Starts
    <3>4. job[d].resumed /\ job[d].name # Peer /\ job'[d].prompt = job[d].prompt
          /\ job'[d].name = job[d].name
      BY <3>1 DEF Alike
    <3> QED
      BY <3>1, <3>2, <3>3, <3>4 DEF Core, Kept
  <2> QED
    BY <2>1, <2>2
<1> QED
  BY <1>2, <1>3, <1>5, <1>6, <1>7 DEF Core

-----------------------------------------------------------------------------
(* What the steps of the calls do to the table of calls. *)

Table == at \in [Calls -> Phases] /\ job \in [Calls -> Jobs]

LEMMA JobNames == Table => \A c \in Calls : job[c].name \in Names
BY JobFields DEF Table

LEMMA GoesDoes ==
    ASSUME Table, NEW c \in Calls, NEW x \in Phases, Goes(c, x)
    PROVE  /\ Table' /\ at'[c] = x /\ job'[c] = job[c]
           /\ \A d \in Calls : d # c => at'[d] = at[d] /\ job'[d] = job[d]
BY DEF Table, Goes

LEMMA LostDoes ==
    ASSUME Table, NEW c \in Calls, Lost(c)
    PROVE  /\ Table' /\ at'[c] = "lost" /\ job'[c].name = job[c].name
           /\ \A d \in Calls : d # c => at'[d] = at[d] /\ job'[d] = job[d]
<1> DEFINE j == [NoJob EXCEPT !.name = job[c].name]
<1>1. j \in Jobs /\ j.name = job[c].name
  BY JobNames, LostTyped
<1>2. at' = [at EXCEPT ![c] = "lost"] /\ job' = [job EXCEPT ![c] = j]
  BY DEF Lost
<1>3. "lost" \in Phases
  BY DEF Phases
<1> HIDE DEF j
<1> QED
  BY <1>1, <1>2, <1>3 DEF Table

LEMMA OverDoes ==
    ASSUME Table, NEW c \in Calls, Over(c)
    PROVE  /\ Table' /\ at'[c] = "idle"
           /\ \A d \in Calls : d # c => at'[d] = at[d] /\ job'[d] = job[d]
<1>1. "idle" \in Phases
  BY DEF Phases
<1> QED
  BY <1>1, NoJobTyped DEF Over, Table

LEMMA BeginDoes ==
    ASSUME Table, Registry, NEW c \in Calls, NEW kind \in {"bg", "fg", "ia"}, NEW n \in Names,
           NEW p \in Prompts \cup {None}, NEW phase \in {"queued", "cli", "lost"},
           NEW replaced \in BOOLEAN, Begin(c, kind, n, p, phase, replaced)
    PROVE  /\ Table' /\ Free(c) /\ at'[c] = phase
           /\ job'[c].kind = kind /\ job'[c].name = n /\ job'[c].prompt = p /\ job'[c].current
           /\ job'[c].resumed = (~replaced /\ session[n].sid)
           /\ \A d \in Calls : d # c =>
                 /\ at'[d] = at[d] /\ job'[d].name = job[d].name /\ job'[d].kind = job[d].kind
                 /\ job[d].name # n => Alike(job'[d], job[d])
<1> DEFINE r == ~replaced /\ session[n].sid
           j == [kind |-> kind, name |-> n, prompt |-> p, current |-> TRUE, cancel |-> "no",
                 resumed |-> r]
           k(d) == [job[d] EXCEPT !.current = @ /\ ~(replaced /\ job[d].name = n)]
<1>1. r \in BOOLEAN
  BY SessFields DEF Registry
<1>2. j \in Jobs /\ j.kind = kind /\ j.name = n /\ j.prompt = p /\ j.current /\ j.resumed = r
  <2> HIDE DEF r
  <2> QED
    BY <1>1, NewJob
<1>4. \A d \in Calls : k(d) \in Jobs /\ k(d).name = job[d].name /\ k(d).kind = job[d].kind
                       /\ (job[d].name # n => Alike(k(d), job[d]))
  <2> TAKE d \in Calls
  <2> DEFINE b == replaced /\ job[d].name = n
  <2>1. b \in BOOLEAN /\ job[d] \in Jobs
    BY DEF Table
  <2>2. k(d) = [job[d] EXCEPT !.current = @ /\ ~b]
    OBVIOUS
  <2>3. job[d].name # n => ~b
    OBVIOUS
  <2> HIDE DEF b, k
  <2> QED
    BY <2>1, <2>2, <2>3, WithCurrent
<1>5. job' = [d \in Calls |-> IF d = c THEN j ELSE k(d)]
  BY DEF Begin
<1>6. Free(c) /\ at' = [at EXCEPT ![c] = phase] /\ phase \in Phases
  BY DEF Begin, Phases
<1> HIDE DEF j, k
<1>7. job' \in [Calls -> Jobs] /\ job'[c] = j /\ \A d \in Calls : d # c => job'[d] = k(d)
  BY <1>2, <1>4, <1>5
<1> QED
  BY <1>2, <1>4, <1>6, <1>7 DEF Table

LEMMA SubmitDoes ==
    ASSUME NEW c \in Calls, NEW n, NEW p, NEW replaced, Submit(c, n, p, replaced)
    PROVE  \E phase \in {"queued", "cli", "lost"} : Begin(c, "bg", n, p, phase, replaced)
BY DEF Submit

-----------------------------------------------------------------------------
(* The actions. *)

Modes == up \in {"down", "starting", "up"} /\ stop \in {"no", "chat", "agents", "exit"}
         /\ recovered \subseteq Names \ {Peer} /\ loose \subseteq Names

LEMMA Split == TypeOK => Modes /\ Registry /\ Table
BY Typed DEF Modes, Registry, Table

LEMMA Joined == Modes' /\ Registry' /\ Table' => TypeOK'
BY DEF TypeOK, Modes, Registry, Table, Sess, Filed, Jobs

LEMMA RunStepKeeps ==
    ASSUME Inv, NEW c \in Calls, FirstStep(c) \/ CliEnds(c) \/ Sent(c)
    PROVE  Inv'
<1> USE Split DEF Inv
<1>1. CASE FirstStep(c)
  <2>1. at[c] = "queued" /\ Goes(c, "cli") /\ Past({}) /\ UNCHANGED <<up, session, file, recovered, stop>>
    BY <1>1 DEF FirstStep, RunStep
  <2>2. /\ Table' /\ at'[c] = "cli" /\ job'[c] = job[c]
        /\ \A d \in Calls : d # c => at'[d] = at[d] /\ job'[d] = job[d]
    BY <2>1, GoesDoes DEF Phases
  <2>h. Held /\ loose' \subseteq Names
    BY <2>1, PastHolds DEF Modes
  <2>3. Calm
    BY <2>1, <2>2, <2>h DEF Calm, Live, Works, Alike, Core, Shape, Owner
  <2> QED
    BY <2>1, <2>2, <2>3, <2>h, CalmKeeps, Joined DEF Modes, Registry
<1>2. CASE CliEnds(c)
  <2>1. /\ at[c] = "cli" /\ job[c].kind = "bg" /\ Goes(c, "back") /\ Past({})
        /\ UNCHANGED <<up, session, file, recovered, stop>>
    BY <1>2 DEF CliEnds, RunStep
  <2>2. /\ Table' /\ at'[c] = "back" /\ job'[c] = job[c]
        /\ \A d \in Calls : d # c => at'[d] = at[d] /\ job'[d] = job[d]
    BY <2>1, GoesDoes DEF Phases
  <2>h. Held /\ loose' \subseteq Names
    BY <2>1, PastHolds DEF Modes
  <2>3. Calm
    BY <2>1, <2>2, <2>h DEF Calm, Live, Works, Alike, Core, Shape, Owner
  <2> QED
    BY <2>1, <2>2, <2>3, <2>h, CalmKeeps, Joined DEF Modes, Registry
<1>3. CASE Sent(c)
  <2>1. at[c] = "sending" /\ Over(c) /\ Past({}) /\ UNCHANGED <<up, session, file, recovered, stop>>
    BY <1>3 DEF Sent, RunStep
  <2>2. /\ Table' /\ at'[c] = "idle"
        /\ \A d \in Calls : d # c => at'[d] = at[d] /\ job'[d] = job[d]
    BY <2>1, OverDoes
  <2>h. Held /\ loose' \subseteq Names
    BY <2>1, PastHolds DEF Modes
  <2>3. Calm
    BY <2>1, <2>2, <2>h DEF Calm, Live, Works, Alike, Core, Shape, Owner
  <2> QED
    BY <2>1, <2>2, <2>3, <2>h, CalmKeeps, Joined DEF Modes, Registry
<1> QED
  BY <1>1, <1>2, <1>3

LEMMA LossKeeps ==
    ASSUME Inv, NEW c \in Calls, Lost(c), at[c] \in Works, Past({}),
           UNCHANGED <<up, session, file, recovered, stop>>
    PROVE  Inv'
<1> USE Split DEF Inv
<1>1. /\ Table' /\ at'[c] = "lost" /\ job'[c].name = job[c].name
      /\ \A d \in Calls : d # c => at'[d] = at[d] /\ job'[d] = job[d]
  BY LostDoes
<1>h. Held /\ loose' \subseteq Names
  BY PastHolds DEF Modes
<1>2. Calm
  BY <1>1, <1>h DEF Calm, Live, Works, Alike, Core, Shape, Owner
<1> QED
  BY <1>1, <1>2, <1>h, CalmKeeps, Joined DEF Modes, Registry

LEMMA CancelledKeeps ==
    ASSUME Inv, NEW c \in Calls, Cancelled(c)
    PROVE  Inv'
<1> USE Split DEF Inv
<1>1. /\ job[c].kind = "bg" /\ at[c] \notin {"idle", "lost"} /\ Past({})
      /\ UNCHANGED <<up, session, file, recovered, stop>>
  BY DEF Cancelled, Background
<1>h. Held /\ loose' \subseteq Names
  BY <1>1, PastHolds DEF Modes
<1>2. CASE at[c] = "queued"
  BY <1>1, <1>2, LossKeeps DEF Cancelled, Works
<1>3. CASE at[c] # "queued"
  <2> DEFINE x == IF at[c] \in {"cli", "back"} THEN "back" ELSE "again"
             j == [job[c] EXCEPT !.cancel = "came"]
  <2>1. at' = [at EXCEPT ![c] = x] /\ job' = [job EXCEPT ![c] = j]
    BY <1>3 DEF Cancelled
  <2>2. j \in Jobs /\ Alike(j, job[c])
    BY WithCancel DEF Table
  <2>3. x \in Phases /\ x \notin {"idle", "lost", "cli"}
        /\ (x \in Works <=> at[c] \in Works)
    BY <1>1, <1>3 DEF Phases, Works, Table
  <2> HIDE DEF x, j
  <2>4. /\ Table' /\ at'[c] = x /\ Alike(job'[c], job[c])
        /\ \A d \in Calls : d # c => at'[d] = at[d] /\ job'[d] = job[d]
    BY <2>1, <2>2, <2>3 DEF Table
  <2>5. Calm
    BY <1>1, <1>h, <2>3, <2>4 DEF Calm, Live, Works, Alike, Core, Shape, Owner
  <2> QED
    BY <1>1, <1>h, <2>4, <2>5, CalmKeeps, Joined DEF Modes, Registry
<1> QED
  BY <1>2, <1>3

LEMMA StopKeeps ==
    ASSUME Inv, NEW how \in {"chat", "agents", "exit"}, Stop(how)
    PROVE  Inv'
<1> USE Split DEF Inv
<1>1. UNCHANGED <<up, session, file, recovered, at, loose>> /\ stop' = how
  BY DEF Stop
<1>2. \A c \in Calls : [job[c] EXCEPT !.cancel = "coming"] \in Jobs
                       /\ Alike([job[c] EXCEPT !.cancel = "coming"], job[c])
  BY WithCancel DEF Table
<1>3. job' \in [Calls -> Jobs] /\ \A c \in Calls : Alike(job'[c], job[c])
  BY <1>2 DEF Stop, Table, Alike
<1>4. Calm
  BY <1>1, <1>3, SameHolds DEF Calm, Live, Works, Alike, Core, Shape, Owner
<1> QED
  BY <1>1, <1>3, <1>4, CalmKeeps, Joined DEF Modes, Registry, Table

LEMMA DeliverKeeps ==
    ASSUME Inv, NEW c \in Calls, NEW sid \in BOOLEAN, Deliver(c, sid)
    PROVE  Inv'
<1> USE Split DEF Inv
<1> DEFINE ns == IF at[c] = "again" THEN {job[c].name} ELSE {}
<1>1. /\ at[c] \in {"back", "again"} /\ Update(job[c].name, sid) /\ Goes(c, "sending") /\ Past(ns)
      /\ UNCHANGED <<up, recovered, stop>>
  BY DEF Deliver
<1>n. ns \subseteq Names /\ (at[c] = "again" => job[c].name \in ns)
  BY JobNames
<1> HIDE DEF ns
<1>h. /\ Held /\ loose' \subseteq Names
      /\ \A d \in Calls : at[d] \in Works /\ at'[d] \in Works /\ job'[d].name = job[d].name
                          /\ job[d].name \in ns => job[d].name \in loose'
  BY <1>1, <1>n, PastHolds DEF Modes
<1>2. /\ Table' /\ at'[c] = "sending" /\ job'[c] = job[c]
      /\ \A d \in Calls : d # c => at'[d] = at[d] /\ job'[d] = job[d]
  BY <1>1, GoesDoes DEF Phases
<1>3. Registry' /\ AtRest(job[c].name)
  BY <1>1, UpdateDoes, JobNames
<1>5. at[c] \in Works \/ \A d \in Calls : at'[d] \in Works => job[d].name # job[c].name
                                                            \/ job[d].name \in loose'
  BY <1>1, <1>2, <1>n, <1>h DEF Works
<1>4. Reports(c)
  BY <1>1, <1>2, <1>3, <1>5, <1>h DEF Reports, Live, Works, Alike, Core, Shape
<1> QED
  BY <1>1, <1>2, <1>3, <1>4, <1>h, ReportsKeeps, JobNames, Joined DEF Modes

LEMMA FinishKeeps ==
    ASSUME Inv, NEW c \in Calls, at[c] = "cli", Over(c), Past({}), UNCHANGED <<up, recovered, stop>>,
           (\E sid \in BOOLEAN : Update(job[c].name, sid)) \/ SetStatus(c, "idle")
    PROVE  Inv'
<1> USE Split DEF Inv
<1>1. /\ Table' /\ at'[c] = "idle"
      /\ \A d \in Calls : d # c => at'[d] = at[d] /\ job'[d] = job[d]
  BY OverDoes
<1>h. Held /\ loose' \subseteq Names
  BY PastHolds DEF Modes
<1>2. CASE job[c].current \/ \E sid \in BOOLEAN : Update(job[c].name, sid)
  <2>1. Registry' /\ AtRest(job[c].name)
    BY <1>2, UpdateDoes, SetIdleDoes, JobNames
  <2>2. Reports(c)
    BY <1>1, <1>h, <2>1 DEF Reports, Live, Works
  <2> QED
    BY <1>1, <1>h, <2>1, <2>2, ReportsKeeps, JobNames, Joined DEF Modes
<1>3. CASE ~job[c].current /\ SetStatus(c, "idle")
  <2>1. session' = session /\ file' = file
    BY <1>3 DEF SetStatus
  <2>2. Calm
    BY <1>1, <1>3, <1>h, <2>1 DEF Calm, Live, Works, Alike, Core, Shape, Owner
  <2> QED
    BY <1>1, <1>h, <2>1, <2>2, CalmKeeps, Joined DEF Modes, Registry
<1> QED
  BY <1>2, <1>3

LEMMA CallStepKeeps ==
    ASSUME Inv, NEW c \in Calls, CallStep(c)
    PROVE  Inv'
<1>1. CASE FirstStep(c) \/ CliEnds(c) \/ Sent(c)
  BY <1>1, RunStepKeeps
<1>2. CASE Undelivered(c)
  BY <1>2, LossKeeps DEF Undelivered, Works
<1>3. CASE Cancelled(c)
  BY <1>3, CancelledKeeps
<1>4. CASE CutOff(c)
  BY <1>4, LossKeeps DEF CutOff, Works
<1>5. ASSUME NEW sid \in BOOLEAN, Deliver(c, sid) PROVE Inv'
  BY <1>5, DeliverKeeps
<1>6. ASSUME NEW sid \in BOOLEAN, FinishIa(c, sid) PROVE Inv'
  BY <1>6, FinishKeeps DEF FinishIa
<1>7. ASSUME NEW answered \in BOOLEAN, NEW sid \in BOOLEAN, FinishFg(c, answered, sid) PROVE Inv'
  BY <1>7, FinishKeeps DEF FinishFg
<1> QED
  BY <1>1, <1>2, <1>3, <1>4, <1>5, <1>6, <1>7 DEF CallStep

-----------------------------------------------------------------------------
(* Requests: where another call works, the session is loose from then on. *)

LEMMA NewSessionKeeps ==
    ASSUME Inv, NEW c \in Calls, NEW n \in Names, NEW p \in Prompts,
           NewSession(c, n, p)
    PROVE  Inv'
<1> USE Split DEF Inv
<1> DEFINE s == [NoSession EXCEPT !.status = "running"]
<1>1. /\ Open /\ n # Peer /\ Past({n}) /\ Put(n, s) /\ Submit(c, n, p, TRUE)
      /\ UNCHANGED <<up, recovered, stop>>
  BY DEF NewSession
<1>h. /\ Held /\ loose' \subseteq Names
      /\ \A d \in Calls : at[d] \in Works /\ at'[d] \in Works /\ job'[d].name = job[d].name
                          /\ job[d].name \in {n} => job[d].name \in loose'
  BY <1>1, PastHolds DEF Modes
<1>2. s \in Sess /\ s.status = "running"
  BY Fresh
<1> HIDE DEF s
<1>3. /\ Registry' /\ session'[n] = s
      /\ \A m \in Names : m # n => session'[m] = session[m]
      /\ \A m \in Names : session'[m].status = "running" => file'[m] = session'[m]
  BY <1>1, <1>2, PutDoes
<1>4. PICK phase \in {"queued", "cli", "lost"} : Begin(c, "bg", n, p, phase, TRUE)
  BY <1>1, SubmitDoes
<1>r. PICK r \in BOOLEAN : r = TRUE
  OBVIOUS
<1>b. Begin(c, "bg", n, p, phase, r)
  BY <1>4, <1>r, Zenon
<1>5. /\ Table' /\ Free(c) /\ at'[c] = phase
      /\ job'[c].kind = "bg" /\ job'[c].name = n /\ job'[c].current
      /\ job'[c].resumed = (~r /\ session[n].sid)
      /\ \A d \in Calls : d # c =>
            /\ at'[d] = at[d] /\ job'[d].name = job[d].name /\ job'[d].kind = job[d].kind
            /\ job[d].name # n => Alike(job'[d], job[d])
  BY <1>1, <1>b, BeginDoes
<1>7. \A d \in Calls : at[d] \in Works /\ job[d].name = n /\ at'[d] = at[d] => n \in loose'
  BY <1>5, <1>h DEF Free, Works
<1>6. Starts(c, n)
  BY <1>1, <1>2, <1>3, <1>5, <1>7, <1>h, <1>r DEF Starts, Open
<1> QED
  BY <1>1, <1>3, <1>5, <1>6, <1>h, StartsKeeps, JobNames, Joined DEF Modes

\* A prompt is put to a session that is there: a follow-up, or the recovery.
LEMMA PromptKeeps ==
    ASSUME Inv, NEW c \in Calls, NEW n \in Names, NEW p \in Prompts \cup {None},
           NEW kind \in {"bg", "fg"}, NEW phase \in {"queued", "cli", "lost"},
           kind = "fg" => phase = "cli",
           MarkRunning(n, p), Begin(c, kind, n, p, phase, FALSE), Past({}),
           session[n].status = "idle" \/ \A d \in Calls : Live(d) => job[d].name # n,
           up' = up, up # "down", stop' = stop, recovered' \subseteq recovered,
           up = "starting" => n \notin recovered'
    PROVE  Inv'
<1> USE Split DEF Inv
<1> DEFINE t == [session[n] EXCEPT !.status = "running", !.prompt = p]
<1>1. t \in Sess /\ t.status = "running" /\ (session[n].sid => t = AsSaved(p))
  BY WithPrompt DEF Registry
<1>2. Put(n, t)
  BY DEF MarkRunning
<1> HIDE DEF t
<1>3. /\ Registry' /\ session'[n] = t
      /\ \A m \in Names : m # n => session'[m] = session[m]
      /\ \A m \in Names : session'[m].status = "running" => file'[m] = session'[m]
  BY <1>1, <1>2, PutDoes
<1>r. PICK r \in BOOLEAN : r = FALSE
  OBVIOUS
<1>b. Begin(c, kind, n, p, phase, r)
  BY <1>r, Zenon
<1>4. /\ Table' /\ Free(c) /\ at'[c] = phase
      /\ job'[c].kind = kind /\ job'[c].name = n /\ job'[c].prompt = p /\ job'[c].current
      /\ job'[c].resumed = (~r /\ session[n].sid)
      /\ \A d \in Calls : d # c =>
            /\ at'[d] = at[d] /\ job'[d].name = job[d].name /\ job'[d].kind = job[d].kind
            /\ job[d].name # n => Alike(job'[d], job[d])
  BY <1>b, BeginDoes
<1>5. /\ session'[n].status = "running" /\ file'[n] = session'[n]
      /\ job'[c].resumed => session'[n] = AsSaved(job'[c].prompt)
  BY <1>1, <1>3, <1>4, <1>r
<1>h. Held /\ loose' \subseteq Names
  BY PastHolds DEF Modes
<1>7. ASSUME NEW d \in Calls, at[d] \in Works, job[d].name = n, at'[d] = at[d]
      PROVE  n \in loose'
  <2>1. Live(d) /\ d # c
    BY <1>4, <1>7, LiveWorks DEF Free, Works
  <2>2. ~Bound(d)
    BY <1>7, <2>1 DEF Core, Reads
  <2> QED
    BY <1>4, <1>7, <1>h, <2>1, <2>2 DEF Bound, Held
<1>6. Starts(c, n)
  BY <1>3, <1>4, <1>5, <1>7, <1>h DEF Starts
<1> QED
  BY <1>3, <1>4, <1>6, <1>h, StartsKeeps, JobNames, Joined DEF Modes

LEMMA FollowUpKeeps ==
    ASSUME Inv, NEW c \in Calls, NEW n \in Names, NEW p \in Prompts,
           NEW kind \in {"bg", "fg"}, FollowUp(c, n, p, kind)
    PROVE  Inv'
<1>1. /\ up = "up" /\ session[n].status = "idle" /\ MarkRunning(n, p) /\ Past({})
      /\ UNCHANGED <<up, recovered, stop>>
      /\ IF kind = "bg" THEN Submit(c, n, p, FALSE) ELSE Begin(c, "fg", n, p, "cli", FALSE)
  BY DEF FollowUp, Open
<1>2. \E phase \in {"queued", "cli", "lost"} :
          Begin(c, kind, n, p, phase, FALSE) /\ (kind = "fg" => phase = "cli")
  BY <1>1, SubmitDoes
<1> QED
  BY <1>1, <1>2, PromptKeeps

LEMMA ResubmitKeeps ==
    ASSUME Inv, NEW c \in Calls, NEW n \in Names, Resubmit(c, n)
    PROVE  Inv'
<1> USE Split DEF Inv
<1> DEFINE p == session[n].prompt
<1>1. /\ up = "starting" /\ n \in recovered /\ recovered' = recovered \ {n}
      /\ MarkRunning(n, p) /\ Submit(c, n, p, FALSE) /\ Past({}) /\ UNCHANGED <<up, stop>>
  BY DEF Resubmit
<1>2. p \in Prompts \cup {None}
  BY SessFields DEF Registry
<1>3. \A d \in Calls : Live(d) => job[d].name # n
  BY <1>1 DEF Core, Shape
<1> HIDE DEF p
<1>4. PICK phase \in {"queued", "cli", "lost"} : Begin(c, "bg", n, p, phase, FALSE)
  BY <1>1, SubmitDoes
<1> QED
  BY <1>1, <1>2, <1>3, <1>4, PromptKeeps

LEMMA MessageKeeps ==
    ASSUME Inv, NEW c \in Calls, NEW p \in Prompts, NEW fresh \in BOOLEAN,
           Message(c, p, fresh)
    PROVE  Inv'
<1> USE Split, NamedSessionsAssumption DEF Inv
<1> DEFINE replaced == fresh \/ ~Active(Peer)
           s == [NoSession EXCEPT !.status = "running"]
           t == [session[Peer] EXCEPT !.status = "running"]
<1>1. /\ up # "down" /\ Past({Peer}) /\ UNCHANGED <<up, recovered, stop>>
      /\ Begin(c, "ia", Peer, p, "cli", replaced)
      /\ \/ Put(Peer, s)
         \/ session' = [session EXCEPT ![Peer] = t] /\ file' = file
  BY DEF Message
<1>2. s \in Sess /\ s.status = "running" /\ t \in Sess /\ t.status = "running"
  BY Fresh, WithStatus DEF Registry
<1>h. /\ Held /\ loose' \subseteq Names
      /\ \A d \in Calls : at[d] \in Works /\ at'[d] \in Works /\ job'[d].name = job[d].name
                          /\ job[d].name \in {Peer} => job[d].name \in loose'
  BY <1>1, PastHolds DEF Modes
<1>3. replaced \in BOOLEAN
  BY DEF Active
<1> HIDE DEF s, t, replaced
<1>6. /\ Registry' /\ session'[Peer].status = "running"
      /\ \A m \in Names : m # Peer =>
            /\ session'[m] = session[m]
            /\ session[m].status = "running" => file'[m] \in {file[m], session[m]}
  <2>1. CASE Put(Peer, s)
    BY <1>2, <2>1, PutDoes
  <2>2. CASE session' = [session EXCEPT ![Peer] = t] /\ file' = file
    BY <1>2, <2>2 DEF Registry
  <2> QED
    BY <1>1, <2>1, <2>2
<1>7. /\ Table' /\ Free(c) /\ at'[c] = "cli"
      /\ job'[c].kind = "ia" /\ job'[c].name = Peer /\ job'[c].current
      /\ \A d \in Calls : d # c =>
            /\ at'[d] = at[d] /\ job'[d].name = job[d].name /\ job'[d].kind = job[d].kind
            /\ job[d].name # Peer => Alike(job'[d], job[d])
  BY <1>1, <1>3, BeginDoes
<1>9. \A d \in Calls : at[d] \in Works /\ job[d].name = Peer /\ at'[d] = at[d] => Peer \in loose'
  BY <1>7, <1>h DEF Free, Works
<1>8. Starts(c, Peer)
  BY <1>1, <1>6, <1>7, <1>9, <1>h DEF Starts, Modes
<1> QED
  BY <1>1, <1>6, <1>7, <1>8, <1>h, StartsKeeps, JobNames, Joined DEF Modes

LEMMA EndingKeeps ==
    ASSUME Inv, UNCHANGED <<up, recovered, at, job, loose>>, stop' \in {"no", "chat", "agents", "exit"},
           (\E n \in Names : EndSession(n)) \/ EndAll \/ UNCHANGED <<session, file>>
    PROVE  Inv'
<1> USE Split DEF Inv
<1>1. Registry' /\ OnlyEnds
  <2>1. CASE UNCHANGED <<session, file>>
    BY <2>1 DEF Registry, OnlyEnds
  <2> QED
    BY <2>1, EndSessionDoes, EndAllDoes
<1> QED
  BY <1>1, OnlyEndsKeeps, JobNames, Joined DEF Modes, Table

LEMMA RequestsKeep ==
    ASSUME Inv, Requests
    PROVE  Inv'
<1>1. ASSUME NEW c \in Calls, NEW p \in Prompts, NEW n \in Names, NewSession(c, n, p) PROVE Inv'
  BY <1>1, NewSessionKeeps
<1>2. ASSUME NEW c \in Calls, NEW p \in Prompts, NEW n \in Names, NEW kind \in {"bg", "fg"},
             FollowUp(c, n, p, kind)
      PROVE  Inv'
  BY <1>2, FollowUpKeeps
<1>3. ASSUME NEW c \in Calls, NEW p \in Prompts, NEW fresh \in BOOLEAN, Message(c, p, fresh)
      PROVE  Inv'
  BY <1>3, MessageKeeps
<1>s. stop \in {"no", "chat", "agents", "exit"}
  BY Split DEF Inv, Modes
<1>4. ASSUME NEW n \in Names, End(n) PROVE Inv'
  <2>1. EndSession(n) /\ UNCHANGED <<up, recovered, at, job, loose>> /\ stop' = stop
    BY <1>4 DEF End
  <2> QED
    BY <2>1, <1>s, EndingKeeps
<1>5. CASE EndButton
  <2>1. EndAll /\ UNCHANGED <<up, recovered, at, job, loose>> /\ stop' = stop
    BY <1>5 DEF EndButton
  <2> QED
    BY <2>1, <1>s, EndingKeeps
<1> QED
  BY <1>1, <1>2, <1>3, <1>4, <1>5 DEF Requests

-----------------------------------------------------------------------------
(* Life and death of the process. *)

LEMMA DieKeeps ==
    ASSUME Inv, Die
    PROVE  Inv'
<1> USE Split DEF Inv
<1>1. /\ up' = "down" /\ recovered' = {} /\ stop' = "no" /\ file' = file /\ loose' = {}
      /\ session' \in [Names -> Sess] /\ \A n \in Names : session'[n].status = "none"
      /\ job' \in [Calls -> Jobs] /\ at' \in [Calls -> Phases] /\ \A c \in Calls : at'[c] = "idle"
  BY Fresh, NoJobTyped DEF Die, Phases
<1>2. Core'
  BY <1>1 DEF Core, Solo, Shape, Reads, Owned, Kept, Live, Works, Bound
<1> QED
  BY <1>1, <1>2, Joined DEF Modes, Registry, Table

LEMMA RestartKeeps ==
    ASSUME Inv, Restart
    PROVE  Inv'
<1> USE Split DEF Inv
<1>1. /\ up = "down" /\ up' = "starting" /\ recovered' \subseteq Names \ {Peer}
      /\ UNCHANGED <<file, at, job, stop, loose>>
  BY DEF Restart
<1>2. \A n \in Names : /\ file[n] \in Sess /\ [file[n] EXCEPT !.status = "idle"] \in Sess
                       /\ [file[n] EXCEPT !.status = "idle"].status = "idle"
  BY FiledFields DEF Registry
<1>3. session' \in [Names -> Sess] /\ \A n \in Names : session'[n].status # "running"
  BY <1>2 DEF Restart
<1>4. \A c \in Calls : ~Live(c)
  BY <1>1 DEF Core, Shape
<1>5. Core'
  BY <1>1, <1>3, <1>4, LiveWorks DEF Core, Solo, Shape, Reads, Owned, Kept, Live, Bound
<1> QED
  BY <1>1, <1>3, <1>5, Joined DEF Modes, Registry, Table

LEMMA StartedKeeps ==
    ASSUME Inv, Started
    PROVE  Inv'
<1> USE Split DEF Inv
<1>1. up = "starting" /\ up' = "up" /\ UNCHANGED <<session, file, recovered, at, job, stop, loose>>
  BY DEF Started
<1>2. Core'
  BY <1>1 DEF Core, Solo, Shape, Reads, Owned, Kept, Live, Bound, Owner
<1> QED
  BY <1>1, <1>2, Joined DEF Modes, Registry, Table

LEMMA LifecycleKeeps ==
    ASSUME Inv, Lifecycle
    PROVE  Inv'
<1>1. ASSUME NEW how \in {"chat", "agents", "exit"}, Stop(how) PROVE Inv'
  BY <1>1, StopKeeps
<1>2. CASE StopReturns
  BY <1>2, EndingKeeps DEF StopReturns
<1>3. CASE Exit \/ Crash
  BY <1>3, DieKeeps DEF Exit, Crash
<1>4. CASE Restart
  BY <1>4, RestartKeeps
<1>5. CASE Started
  BY <1>5, StartedKeeps
<1>6. ASSUME NEW c \in Calls, NEW n \in Names, Resubmit(c, n) PROVE Inv'
  BY <1>6, ResubmitKeeps
<1> QED
  BY <1>1, <1>2, <1>3, <1>4, <1>5, <1>6 DEF Lifecycle

-----------------------------------------------------------------------------
(* The theorems. *)

LEMMA InvInit == Init => Inv
<1> SUFFICES ASSUME Init PROVE Inv
  OBVIOUS
<1>1. Modes /\ Registry /\ Table
  BY Fresh, NoJobTyped DEF Init, Modes, Registry, Table, Phases
<1>2. Core
  BY Fresh DEF Init, Core, Solo, Shape, Reads, Owned, Kept, Live, Works, Bound
<1> QED
  BY <1>1, <1>2, Typed DEF Inv, Modes, Registry, Table

LEMMA InvNext == Inv /\ [Next]_vars => Inv'
<1> SUFFICES ASSUME Inv, [Next]_vars PROVE Inv'
  OBVIOUS
<1>1. CASE Requests
  BY <1>1, RequestsKeep
<1>2. ASSUME NEW c \in Calls, CallStep(c) PROVE Inv'
  BY <1>2, CallStepKeeps
<1>3. CASE Lifecycle
  BY <1>3, LifecycleKeeps
<1>4. CASE UNCHANGED vars
  <2>1. Core'
    BY <1>4 DEF vars, Inv, Core, Solo, Shape, Reads, Owned, Kept, Live, Bound, Owner
  <2> QED
    BY <1>4, <2>1, Split, Joined DEF vars, Inv, Modes, Registry, Table
<1> QED
  BY <1>1, <1>2, <1>3, <1>4 DEF Next

LEMMA InvHolds == Spec => []Inv
<1>1. Inv /\ [Next]_vars => Inv'
  BY InvNext
<1> QED
  BY InvInit, <1>1, PTL DEF Spec

LEMMA InvMeans == Inv => TypeOK /\ OneCall /\ RunningTrue /\ WorkIsSaved
<1> SUFFICES ASSUME Inv PROVE OneCall /\ RunningTrue /\ WorkIsSaved
  BY DEF Inv
<1> USE Split DEF Inv
<1>1. \A n \in Names : \A c \in AtWork(n) :
          c \in Calls /\ job[c].name = n /\ at[c] \in Works /\ Live(c)
  BY LiveWorks DEF AtWork, Works
<1>2. OneCall
  BY <1>1 DEF OneCall, Core, Solo, Bound
<1>3. \A n \in Names : session[n].status \in {"none", "idle"} /\ n \notin loose => AtWork(n) = {}
  BY <1>1 DEF Core, Reads, Bound
<1>4. RunningTrue
  BY <1>3 DEF RunningTrue, Core, Owned, Owner, Works
<1>5. WorkIsSaved
  <2> SUFFICES ASSUME NEW n \in Names \ ({Peer} \cup loose), NEW c \in AtWork(n), job[c].resumed,
                      session[n].status # "ended"
               PROVE  file[n] = AsSaved(job[c].prompt)
    BY DEF WorkIsSaved, AsSaved
  <2>1. session[n].status = "running"
    BY <1>1 DEF Core, Reads, Bound
  <2> QED
    BY <1>1, <2>1 DEF Core, Kept, Bound
<1> QED
  BY <1>2, <1>4, <1>5

\* One call at a time works in a named session, for any number of calls, sessions
\* and requests, crashes included: only what looks at no status starts a second one.
THEOREM SessionsOneCall == Spec => []OneCall
BY InvHolds, InvMeans, PTL

\* A session reads "running" only with a call at work or lost, and one at work is
\* never hidden behind "idle": the status decides what may start.
THEOREM StatusIsTrue == Spec => []RunningTrue
BY InvHolds, InvMeans, PTL

\* Whenever the process dies, named_sessions.json has the work under way in a
\* session with a conversation, with its own prompt, unless the session is loose.
THEOREM CrashFindsWork == Spec => []WorkIsSaved
BY InvHolds, InvMeans, PTL

=============================================================================
