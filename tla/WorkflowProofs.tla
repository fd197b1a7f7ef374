-------------------------- MODULE WorkflowProofs --------------------------
(***************************************************************************)
(* Theorems about the workflow engine, for any definition and any numbers  *)
(* of runs and of parallel runs.                                           *)
(*                                                                         *)
(* All of them follow from DriveInv, which says for each run how its       *)
(* status, its asyncio task, the engine's table and the cancellations on   *)
(* their way fit together.  What a run holds of its steps plays no part in *)
(* it; the lemmas up to StepFailsShape reduce what the engine does with    *)
(* a step to its effect on status and task.                                *)
(***************************************************************************)
EXTENDS WorkflowEngine, FiniteSetTheorems, SequenceTheorems, TLAPS

\* A run that waits does so in its current step, which a reply may have answered.
Run ==
    {run \in [status : RunStatuses \cup {"absent"}, step : Nat, wait : Nat,
              steps : [StepIds -> StepRun]] :
        run.status = "waiting" =>
            /\ run.wait = run.step /\ run.wait \in StepIds
            /\ run.steps[run.wait].status \in {"waiting", "completed"}}

TypeInv ==
    /\ engine \in {"up", "stopping", "drained"}
    /\ known \in BOOLEAN
    /\ runs \in [RunIds -> Run]
    /\ disk \in [RunIds -> Run]
    /\ pc \in [RunIds -> Places]
    /\ active \in SUBSET RunIds
    /\ cancelling \in SUBSET RunIds
    /\ awaited \in SUBSET RunIds
    /\ stranded \in SUBSET RunIds

DriveInv(r) ==
    /\ runs[r].status = "running" /\ r \notin stranded => pc[r] # "none"
    /\ pc[r] = "telling" => runs[r].status \in {"completed", "failed", "cancelled"}
    /\ runs[r].status \in {"waiting", "absent"} =>
          pc[r] = "none" /\ r \notin active /\ r \notin cancelling
    /\ r \in cancelling => pc[r] \notin {"none", "looping"}
    /\ r \in stranded => pc[r] = "none" /\ runs[r].status \notin {"waiting", "absent"}
    /\ pc[r] = "stepping" => runs[r].step \in StepIds
    /\ engine = "up" /\ r \in active => pc[r] # "none" /\ r \notin cancelling
    /\ engine # "drained" =>
          /\ runs[r].status = "running" /\ pc[r] # "none" => r \in active
          /\ pc[r] = "stepping" /\ r \notin cancelling => r \in active
          /\ pc[r] = "stepping" /\ runs[r].status = "cancelled" => r \in cancelling

IInv == TypeInv /\ \A r \in RunIds : DriveInv(r)

\* A run on which an action has no effect keeps its invariant.
LEMMA Frame ==
    ASSUME NEW q, DriveInv(q), engine' = engine,
           runs'[q] = runs[q], pc'[q] = pc[q],
           q \in active' <=> q \in active,
           q \in cancelling' <=> q \in cancelling,
           q \in stranded' <=> q \in stranded
    PROVE  DriveInv(q)'
BY SMT DEF DriveInv

-----------------------------------------------------------------------------
(* Steps and their effect on a run *)

\* Recording the result of a step changes nothing else of a run.
LEMMA WithStepIsRun ==
    ASSUME NEW run \in Run, NEW s, NEW status \in StepStatuses,
           run.status # "waiting" \/ status = "completed"
    PROVE  /\ WithStep(run, s, status) \in Run
           /\ WithStep(run, s, status).status = run.status
           /\ WithStep(run, s, status).step = run.step
           /\ WithStep(run, s, status).wait = run.wait
           /\ s \in StepIds => WithStep(run, s, status).steps[s].status = status
           /\ \A i \in StepIds :
                 /\ WithStep(run, s, status).steps[i].attempt = run.steps[i].attempt
                 /\ i # s => WithStep(run, s, status).steps[i] = run.steps[i]
BY DEF WithStep, Run, StepRun

LEMMA StepsTyped ==
    /\ Steps \in Seq(StepDefinition)
    /\ StepIds = 1 .. Len(Steps)
    /\ \A s \in StepIds : Steps[s] \in StepDefinition
<1> DEFINE Def == StepDefinition
<1>1. Steps \in Seq(Def)
  BY WorkflowAssumption
<1> HIDE DEF Def
<1>2. StepIds = 1 .. Len(Steps) /\ \A s \in StepIds : Steps[s] \in Def
  BY <1>1, LenProperties, ElementOfSeq DEF StepIds
<1> QED
  BY <1>1, <1>2 DEF Def

\* _resolve_next_step returns an id or the empty string.
LEMMA NextStepIsId ==
    ASSUME NEW s \in StepIds, NEW target \in Nat
    PROVE  NextStep(s, target) \in Nat
<1>1. StepIds = 1 .. Len(Steps) /\ Steps[s].goto \in Nat
  BY StepsTyped DEF StepDefinition
<1> QED
  BY <1>1, LenProperties, StepsTyped DEF NextStep

\* update_run leaves the other runs alone.
LEMMA UpdateRunShape ==
    ASSUME TypeInv, NEW r \in RunIds, NEW run \in Run, UpdateRun(r, run)
    PROVE  /\ runs' \in [RunIds -> Run]
           /\ disk' \in [RunIds -> Run]
           /\ runs'[r] = run
           /\ \A q \in RunIds \ {r} : runs'[q] = runs[q]
BY DEF TypeInv, UpdateRun

\* The type part of what every handler of a step leaves behind.
StepTyped ==
    /\ runs' \in [RunIds -> Run]
    /\ disk' \in [RunIds -> Run]
    /\ pc' \in [RunIds -> Places]
    /\ active' \in SUBSET RunIds
    /\ awaited' \in SUBSET RunIds

\* ... and that it touches one run only.
OnlyRun(r) ==
    \A q \in RunIds \ {r} :
        runs'[q] = runs[q] /\ pc'[q] = pc[q] /\ (q \in active' <=> q \in active)

\* ... and where it leaves the run: it goes on under the status it had, its end is
\* being told, it is parked, or it was skipped to its end.
Onward(r)  == runs'[r].status = runs[r].status /\ pc'[r] \in {"looping", "sleeping"}
              /\ active' = active
Telling(r) == runs'[r].status \in {"completed", "failed"} /\ pc'[r] = "telling"
              /\ active' = active
Parked(r)  == runs'[r].status = "waiting" /\ pc'[r] = "none" /\ active' = active \ {r}
Skipped(r) == runs'[r].status = "completed" /\ pc'[r] = "none" /\ active' = active \ {r}

LEMMA GoesShape ==
    ASSUME TypeInv, NEW r \in RunIds, NEW place \in Places, Goes(r, place)
    PROVE  /\ pc' \in [RunIds -> Places] /\ pc'[r] = place
           /\ \A q \in RunIds \ {r} : pc'[q] = pc[q]
           /\ active' = active /\ awaited' = awaited
           /\ active' \in SUBSET RunIds /\ awaited' \in SUBSET RunIds
BY DEF TypeInv, Goes

LEMMA LeaveShape ==
    ASSUME TypeInv, NEW r \in RunIds, Leave(r)
    PROVE  /\ pc' \in [RunIds -> Places] /\ pc'[r] = "none"
           /\ \A q \in RunIds \ {r} : pc'[q] = pc[q]
           /\ active' = active \ {r}
           /\ active' \in SUBSET RunIds /\ awaited' \in SUBSET RunIds
BY DEF TypeInv, Leave, Places

LEMMA AdvanceShape ==
    ASSUME TypeInv, NEW r \in RunIds, runs[r].step \in StepIds,
           runs[r].status # "waiting", NEW target \in Nat, Advance(r, target)
    PROVE  StepTyped /\ OnlyRun(r) /\ (Onward(r) \/ Telling(r))
<1> DEFINE s    == runs[r].step
           done == WithStep(runs[r], s, "completed")
           next == NextStep(s, target)
           on   == [done EXCEPT !.step = next]
           over == [done EXCEPT !.status = "completed"]
<1>1. runs[r] \in Run /\ "completed" \in StepStatuses /\ next \in Nat
  BY NextStepIsId DEF TypeInv, StepStatuses
<1>2. done \in Run /\ done.status = runs[r].status
  BY <1>1, WithStepIsRun
<1>3. /\ on \in Run /\ on.status = runs[r].status
      /\ over \in Run /\ over.status = "completed"
  <2> HIDE DEF done, next
  <2> QED BY <1>1, <1>2 DEF Run, RunStatuses
<1>4. CASE UpdateRun(r, on) /\ Goes(r, "looping")
  BY <1>3, <1>4, UpdateRunShape, GoesShape DEF StepTyped, OnlyRun, Onward, Places
<1>5. CASE UpdateRun(r, over) /\ Goes(r, "telling")
  BY <1>3, <1>5, UpdateRunShape, GoesShape DEF StepTyped, OnlyRun, Telling, Places
<1> QED
  BY <1>4, <1>5 DEF Advance

LEMMA PauseShape ==
    ASSUME TypeInv, NEW r \in RunIds, runs[r].step \in StepIds,
           runs[r].status # "waiting", Pause(r)
    PROVE  StepTyped /\ OnlyRun(r) /\ Parked(r)
<1> DEFINE s      == runs[r].step
           done   == WithStep(runs[r], s, "waiting")
           parked == [done EXCEPT !.status = "waiting", !.wait = s]
<1>1. /\ done \in Run /\ s \in StepIds /\ s \in Nat
      /\ done.step = s /\ done.steps[s].status = "waiting"
  BY WithStepIsRun DEF TypeInv, StepStatuses, Run
<1>2. parked \in Run /\ parked.status = "waiting"
  <2> HIDE DEF done, s
  <2> QED BY <1>1 DEF Run, RunStatuses
<1>3. UpdateRun(r, parked) /\ Leave(r)
  BY DEF Pause
<1> QED
  BY <1>2, <1>3, UpdateRunShape, LeaveShape DEF StepTyped, OnlyRun, Parked

LEMMA RetryShape ==
    ASSUME TypeInv, NEW r \in RunIds, runs[r].step \in StepIds,
           runs[r].status # "waiting", Retry(r)
    PROVE  StepTyped /\ OnlyRun(r) /\ Onward(r)
<1> DEFINE s     == runs[r].step
           again == [runs[r] EXCEPT !.steps[s] = Again(r)]
<1>1. runs[r] \in Run /\ runs[r].steps[s] \in StepRun
  BY DEF TypeInv, Run
<1>2. Again(r) \in StepRun
  BY <1>1 DEF Again, StepRun, StepStatuses
<1>3. again \in Run /\ again.status = runs[r].status
  BY <1>1, <1>2 DEF Run
<1>4. UpdateRun(r, again) /\ Goes(r, "sleeping")
  BY DEF Retry
<1> QED
  BY <1>3, <1>4, UpdateRunShape, GoesShape DEF StepTyped, OnlyRun, Onward, Places

LEMMA FallbackShape ==
    ASSUME TypeInv, NEW r \in RunIds, runs[r].step \in StepIds,
           runs[r].status # "waiting", Fallback(r)
    PROVE  StepTyped /\ OnlyRun(r) /\ Onward(r)
<1> DEFINE s    == runs[r].step
           done == WithStep(runs[r], s, "failed")
           on   == [done EXCEPT !.step = Steps[s].fallback]
<1>1. done \in Run /\ done.status = runs[r].status
  BY WithStepIsRun DEF TypeInv, StepStatuses
<1>2. Steps[s].fallback \in Nat
  BY StepsTyped DEF StepDefinition
<1>3. on \in Run /\ on.status = runs[r].status
  <2> HIDE DEF done
  <2> QED BY <1>1, <1>2 DEF Run
<1>4. UpdateRun(r, on) /\ Goes(r, "looping")
  BY DEF Fallback
<1> QED
  BY <1>3, <1>4, UpdateRunShape, GoesShape DEF StepTyped, OnlyRun, Onward, Places

LEMMA SkipShape ==
    ASSUME TypeInv, NEW r \in RunIds, runs[r].step \in StepIds,
           runs[r].status # "waiting", Skip(r)
    PROVE  StepTyped /\ OnlyRun(r) /\ (Onward(r) \/ Skipped(r))
<1> DEFINE s       == runs[r].step
           skipped == WithStep(runs[r], s, "skipped")
           next    == NextStep(s, 0)
           on      == [skipped EXCEPT !.step = next]
           over    == [skipped EXCEPT !.status = "completed"]
<1>1. runs[r] \in Run /\ "skipped" \in StepStatuses /\ next \in Nat
  BY NextStepIsId DEF TypeInv, StepStatuses
<1>2. skipped \in Run /\ skipped.status = runs[r].status
  BY <1>1, WithStepIsRun
<1>3. /\ on \in Run /\ on.status = runs[r].status
      /\ over \in Run /\ over.status = "completed"
  <2> HIDE DEF skipped, next
  <2> QED BY <1>1, <1>2 DEF Run, RunStatuses
<1>4. CASE UpdateRun(r, on) /\ Goes(r, "looping")
  BY <1>3, <1>4, UpdateRunShape, GoesShape DEF StepTyped, OnlyRun, Onward, Places
<1>5. CASE UpdateRun(r, over) /\ Leave(r)
  BY <1>3, <1>5, UpdateRunShape, LeaveShape DEF StepTyped, OnlyRun, Skipped
<1> QED
  BY <1>4, <1>5 DEF Skip

LEMMA AbortShape ==
    ASSUME TypeInv, NEW r \in RunIds, runs[r].status # "waiting", Abort(r)
    PROVE  StepTyped /\ OnlyRun(r) /\ Telling(r)
<1> DEFINE done   == WithStep(runs[r], runs[r].step, "failed")
           failed == [done EXCEPT !.status = "failed"]
<1>1. done \in Run
  BY WithStepIsRun DEF TypeInv, StepStatuses
<1>2. failed \in Run /\ failed.status = "failed"
  <2> HIDE DEF done
  <2> QED BY <1>1 DEF Run, RunStatuses
<1>3. UpdateRun(r, failed) /\ Goes(r, "telling")
  BY DEF Abort
<1> QED
  BY <1>2, <1>3, UpdateRunShape, GoesShape DEF StepTyped, OnlyRun, Telling, Places

\* _handle_step_failure never parks a run, and never gives it another status than
\* a verdict.
LEMMA StepFailsShape ==
    ASSUME TypeInv, NEW r \in RunIds, runs[r].step \in StepIds,
           runs[r].status # "waiting", StepFails(r)
    PROVE  StepTyped /\ OnlyRun(r) /\ (Onward(r) \/ Telling(r) \/ Skipped(r))
<1>1. Retry(r) \/ Fallback(r) \/ Skip(r) \/ Abort(r)
  BY DEF StepFails
<1> QED
  BY <1>1, RetryShape, FallbackShape, SkipShape, AbortShape

-----------------------------------------------------------------------------
(* The invariant *)

\* A step that went well or not, under a status that is not "waiting", leaves the
\* run's invariant intact, as long as no cancellation is on its way.
LEMMA StepKeeps ==
    ASSUME IInv, NEW r \in RunIds, pc[r] \in {"looping", "stepping"},
           r \notin cancelling', cancelling' = cancelling \ {r},
           r \notin cancelling \/ pc[r] = "stepping",
           pc[r] = "looping" => runs[r].status = "running",
           engine' = engine, stranded' = stranded,
           StepTyped, OnlyRun(r),
           Onward(r) \/ Telling(r) \/ Skipped(r)
    PROVE  \A q \in RunIds : DriveInv(q)'
<1> SUFFICES ASSUME NEW q \in RunIds PROVE DriveInv(q)'
  OBVIOUS
<1>1. DriveInv(r) /\ DriveInv(q)
  BY DEF IInv
<1>2. CASE q # r
  BY <1>1, <1>2, Frame DEF OnlyRun
<1>3. CASE q = r
  <2>1. CASE Onward(r)
    BY <1>1, <1>3, <2>1, SMT DEF DriveInv, Onward
  <2>2. CASE Telling(r)
    BY <1>1, <1>3, <2>2, SMT DEF DriveInv, Telling
  <2>3. CASE Skipped(r)
    BY <1>1, <1>3, <2>3, SMT DEF DriveInv, Skipped
  <2> QED
    BY <2>1, <2>2, <2>3
<1> QED
  BY <1>2, <1>3

\* One pass of the loop.
LEMMA IterateKeeps ==
    ASSUME IInv, NEW r \in RunIds, Iterate(r)
    PROVE  IInv'
<1>1. TypeInv /\ DriveInv(r) /\ pc[r] = "looping" /\ r \notin cancelling
  BY DEF IInv, DriveInv, Iterate
<1>2. UNCHANGED <<engine, known, cancelling>>
  BY DEF Iterate
<1>3. CASE ~GoesOn(r) /\ Leave(r) /\ UNCHANGED <<runs, disk, stranded>>
  <2>1. TypeInv'
    BY <1>1, <1>2, <1>3, LeaveShape DEF TypeInv
  <2>2. ASSUME NEW q \in RunIds PROVE DriveInv(q)'
    <3>1. DriveInv(q)
      BY DEF IInv
    <3>2. CASE q # r
      BY <1>1, <1>2, <1>3, <3>1, <3>2, LeaveShape, Frame
    <3>3. CASE q = r
      BY <1>1, <1>2, <1>3, <3>3, LeaveShape, SMT DEF DriveInv, GoesOn
    <3> QED
      BY <3>2, <3>3
  <2> QED
    BY <2>1, <2>2 DEF IInv
<1>4. CASE GoesOn(r) /\ Leave(r) /\ stranded' = stranded \cup {r} /\ UNCHANGED <<runs, disk>>
  <2>1. TypeInv'
    BY <1>1, <1>2, <1>4, LeaveShape DEF TypeInv
  <2>2. ASSUME NEW q \in RunIds PROVE DriveInv(q)'
    <3>1. DriveInv(q)
      BY DEF IInv
    <3>2. CASE q # r
      BY <1>1, <1>2, <1>4, <3>1, <3>2, LeaveShape, Frame
    <3>3. CASE q = r
      BY <1>1, <1>2, <1>4, <3>3, LeaveShape, SMT DEF DriveInv, GoesOn
    <3> QED
      BY <3>2, <3>3
  <2> QED
    BY <2>1, <2>2 DEF IInv
<1>5. CASE /\ runs[r].step \notin StepIds
           /\ UpdateRun(r, [runs[r] EXCEPT !.status = "completed"])
           /\ Leave(r)
           /\ UNCHANGED stranded
  <2>1. /\ [runs[r] EXCEPT !.status = "completed"] \in Run
        /\ [runs[r] EXCEPT !.status = "completed"].status = "completed"
    BY <1>1 DEF TypeInv, Run, RunStatuses
  <2>2. TypeInv'
    BY <1>1, <1>2, <1>5, <2>1, LeaveShape, UpdateRunShape DEF TypeInv
  <2>3. ASSUME NEW q \in RunIds PROVE DriveInv(q)'
    <3>1. DriveInv(q)
      BY DEF IInv
    <3>2. CASE q # r
      BY <1>1, <1>2, <1>5, <2>1, <3>1, <3>2, LeaveShape, UpdateRunShape, Frame
    <3>3. CASE q = r
      <4>1. runs'[r].status = "completed" /\ pc'[r] = "none" /\ active' = active \ {r}
        BY <1>1, <1>5, <2>1, LeaveShape, UpdateRunShape
      <4> QED
        BY <1>1, <1>2, <1>5, <3>3, <4>1, SMT DEF DriveInv
    <3> QED
      BY <3>2, <3>3
  <2> QED
    BY <2>2, <2>3 DEF IInv
<1>6. CASE GoesOn(r) /\ runs[r].step \in StepIds /\ StartStep(r) /\ UNCHANGED stranded
  <2>1. runs' \in [RunIds -> Run] /\ \A q \in RunIds :
            /\ runs'[q].status = runs[q].status /\ runs'[q].step = runs[q].step
            /\ q # r => runs'[q] = runs[q]
    <3> DEFINE started == WithStep(runs[r], runs[r].step, "running")
    <3>1. started \in Run /\ started.status = runs[r].status /\ started.step = runs[r].step
      BY <1>1, <1>6, WithStepIsRun DEF TypeInv, StepStatuses, GoesOn
    <3>2. runs' = runs \/ runs' = [runs EXCEPT ![r] = started]
      BY <1>6 DEF StartStep
    <3> HIDE DEF started
    <3> QED
      BY <1>1, <3>1, <3>2 DEF TypeInv
  <2>2. Goes(r, "stepping") /\ disk' = disk
    BY <1>6 DEF StartStep
  <2>3. /\ pc' \in [RunIds -> Places] /\ pc'[r] = "stepping"
        /\ \A q \in RunIds \ {r} : pc'[q] = pc[q]
        /\ active' = active /\ awaited' = awaited
    BY <1>1, <2>2, GoesShape DEF Places
  <2>4. TypeInv'
    BY <1>1, <1>2, <1>6, <2>1, <2>2, <2>3 DEF TypeInv
  <2>5. ASSUME NEW q \in RunIds PROVE DriveInv(q)'
    <3>1. DriveInv(q)
      BY DEF IInv
    <3>2. CASE q # r
      BY <1>2, <1>6, <2>1, <2>3, <3>1, <3>2, Frame
    <3>3. CASE q = r
      <4>1. runs'[r].status = "running" /\ runs'[r].step \in StepIds /\ runs[r].status = "running"
        BY <1>6, <2>1 DEF GoesOn
      <4> QED
        BY <1>1, <1>2, <1>6, <2>3, <3>3, <4>1, SMT DEF DriveInv
    <3> QED
      BY <3>2, <3>3
  <2> QED
    BY <2>4, <2>5 DEF IInv
<1>7. CASE /\ GoesOn(r)
           /\ runs[r].step \in StepIds
           /\ Branch(r) \/ StepFails(r)
           /\ UNCHANGED stranded
  <2>1. StepTyped /\ OnlyRun(r) /\ (Onward(r) \/ Telling(r) \/ Skipped(r))
    <3>1. CASE StepFails(r)
      BY <1>1, <1>7, <3>1, StepFailsShape DEF GoesOn
    <3>2. CASE Branch(r)
      <4>1. PICK target \in {Steps[runs[r].step].then, Steps[runs[r].step].else} :
                Advance(r, target)
        BY <3>2 DEF Branch
      <4>2. target \in Nat
        BY <1>7, StepsTyped DEF StepDefinition
      <4> QED
        BY <1>1, <1>7, <4>1, <4>2, AdvanceShape DEF GoesOn
    <3> QED
      BY <1>7, <3>1, <3>2
  <2>2. TypeInv'
    BY <1>1, <1>2, <1>7, <2>1 DEF TypeInv, StepTyped
  <2>3. \A q \in RunIds : DriveInv(q)'
    BY <1>1, <1>2, <1>7, <2>1, StepKeeps DEF GoesOn
  <2> QED
    BY <2>2, <2>3 DEF IInv
<1> QED
  BY <1>3, <1>4, <1>5, <1>6, <1>7 DEF Iterate

\* A task touches its own run only.
LEMMA DriveTouches ==
    ASSUME TypeInv, NEW r \in RunIds, Drive(r)
    PROVE  OnlyRun(r)
BY DEF Drive, Runs, Iterate, StepEnds, SwallowsCancel, Told, CancelArrives, StartStep,
   Branch, StepFails, Retry, Fallback, Skip, Abort, Advance, Pause, UpdateRun, Goes,
   Leave, LeaveTracked, TypeInv, OnlyRun

\* The other steps of a task.
LEMMA DriveKeeps ==
    ASSUME IInv, NEW r \in RunIds, Drive(r)
    PROVE  IInv'
<1>1. TypeInv /\ DriveInv(r) /\ \A q \in RunIds : DriveInv(q)
  BY DEF IInv
<1>2. CASE Runs(r)
  <2>1. Goes(r, "looping") /\ pc[r] \in {"created", "sleeping"} /\ r \notin cancelling
    BY <1>2 DEF Runs
  <2>2. UNCHANGED <<engine, known, runs, disk, cancelling, stranded>>
    BY <1>2 DEF Runs
  <2>3. TypeInv'
    BY <1>1, <2>1, <2>2, GoesShape DEF TypeInv, Places
  <2>4. ASSUME NEW q \in RunIds PROVE DriveInv(q)'
    <3>1. CASE q # r
      BY <1>1, <2>1, <2>2, <3>1, GoesShape, Frame DEF Places
    <3>2. CASE q = r
      <4>1. pc'[r] = "looping" /\ active' = active
        BY <1>1, <2>1, GoesShape DEF Places
      <4> QED
        BY <1>1, <2>1, <2>2, <3>2, <4>1, SMT DEF DriveInv
    <3> QED
      BY <3>1, <3>2
  <2> QED
    BY <2>3, <2>4 DEF IInv
<1>3. CASE Iterate(r)
  BY <1>3, IterateKeeps
<1>4. CASE StepEnds(r)
  <2>1. /\ pc[r] = "stepping" /\ r \notin cancelling
        /\ runs[r].step \in StepIds /\ runs[r].status # "waiting"
    BY <1>1, <1>4 DEF StepEnds, DriveInv
  <2>2. UNCHANGED <<engine, known, cancelling, stranded>>
    BY <1>4 DEF StepEnds
  <2>3. CASE Pause(r)
    <3>1. StepTyped /\ OnlyRun(r) /\ Parked(r)
      BY <1>1, <2>1, <2>3, PauseShape
    <3>2. TypeInv'
      BY <1>1, <2>2, <3>1 DEF TypeInv, StepTyped
    <3>3. ASSUME NEW q \in RunIds PROVE DriveInv(q)'
      <4>1. CASE q # r
        BY <1>1, <2>2, <3>1, <4>1, Frame DEF OnlyRun
      <4>2. CASE q = r
        BY <1>1, <2>1, <2>2, <3>1, <4>2, SMT DEF DriveInv, Parked
      <4> QED
        BY <4>1, <4>2
    <3> QED
      BY <3>2, <3>3 DEF IInv
  <2>4. CASE Advance(r, 0) \/ StepFails(r)
    <3>1. StepTyped /\ OnlyRun(r) /\ (Onward(r) \/ Telling(r) \/ Skipped(r))
      BY <1>1, <2>1, <2>4, AdvanceShape, StepFailsShape
    <3>2. TypeInv'
      BY <1>1, <2>2, <3>1 DEF TypeInv, StepTyped
    <3>3. r \notin cancelling' /\ cancelling' = cancelling \ {r}
      BY <2>1, <2>2
    <3>4. \A q \in RunIds : DriveInv(q)'
      BY <2>1, <2>2, <3>1, <3>3, StepKeeps
    <3> QED
      BY <3>2, <3>4 DEF IInv
  <2> QED
    BY <1>4, <2>3, <2>4 DEF StepEnds
<1>5. CASE SwallowsCancel(r)
  <2>1. pc[r] = "stepping" /\ runs[r].step \in StepIds /\ runs[r].status # "waiting"
    BY <1>1, <1>5 DEF SwallowsCancel, DriveInv
  <2>2. UNCHANGED <<engine, known, stranded>> /\ cancelling' = cancelling \ {r}
    BY <1>5 DEF SwallowsCancel
  <2>3. StepTyped /\ OnlyRun(r) /\ (Onward(r) \/ Telling(r) \/ Skipped(r))
    BY <1>1, <1>5, <2>1, AdvanceShape, StepFailsShape DEF SwallowsCancel
  <2>4. TypeInv'
    BY <1>1, <2>2, <2>3 DEF TypeInv, StepTyped
  <2>5. \A q \in RunIds : DriveInv(q)'
    BY <2>1, <2>2, <2>3, StepKeeps
  <2> QED
    BY <2>4, <2>5 DEF IInv
<1>6. CASE Told(r)
  <2> DEFINE failed == [runs[r] EXCEPT !.status = "failed"]
  <2>1. pc[r] = "telling" /\ r \notin cancelling /\ Leave(r)
    BY <1>6 DEF Told
  <2>2. UNCHANGED <<engine, known, cancelling, stranded>>
    BY <1>6 DEF Told
  <2>3. failed \in Run /\ failed.status = "failed"
    BY <1>1 DEF TypeInv, Run, RunStatuses
  <2>4. /\ runs' \in [RunIds -> Run] /\ disk' \in [RunIds -> Run]
        /\ runs'[r].status \in {runs[r].status, "failed"}
        /\ \A q \in RunIds \ {r} : runs'[q] = runs[q]
    <3> HIDE DEF failed
    <3>1. CASE UNCHANGED <<runs, disk>>
      BY <1>1, <3>1 DEF TypeInv
    <3>2. CASE UpdateRun(r, failed)
      BY <1>1, <2>3, <3>2, UpdateRunShape
    <3> QED
      BY <1>6, <3>1, <3>2 DEF Told, failed
  <2>5. TypeInv'
    BY <1>1, <2>1, <2>2, <2>4, LeaveShape DEF TypeInv
  <2>6. ASSUME NEW q \in RunIds PROVE DriveInv(q)'
    <3>1. CASE q # r
      BY <1>1, <2>1, <2>2, <2>4, <3>1, LeaveShape, Frame
    <3>2. CASE q = r
      <4>1. pc'[r] = "none" /\ active' = active \ {r}
        BY <1>1, <2>1, LeaveShape
      <4> QED
        BY <1>1, <2>1, <2>2, <2>4, <3>2, <4>1, SMT DEF DriveInv
    <3> QED
      BY <3>1, <3>2
  <2> QED
    BY <2>5, <2>6 DEF IInv
<1>7. CASE CancelArrives(r)
  <2>1. /\ r \in cancelling /\ cancelling' = cancelling \ {r}
        /\ UNCHANGED <<engine, known, runs, disk>>
        /\ stranded' = IF runs[r].status = "running" THEN stranded \cup {r} ELSE stranded
    BY <1>7 DEF CancelArrives
  <2>2. /\ pc' \in [RunIds -> Places] /\ pc'[r] = "none"
        /\ \A q \in RunIds \ {r} : pc'[q] = pc[q] /\ (q \in active' <=> q \in active)
        /\ active' \in SUBSET RunIds /\ awaited' \in SUBSET RunIds
        /\ active' = active \ {r} \/ (active' = active /\ pc[r] = "created")
    <3>1. CASE pc[r] = "created"
      BY <1>1, <1>7, <3>1 DEF CancelArrives, LeaveTracked, TypeInv, Places
    <3>2. CASE pc[r] # "created"
      BY <1>1, <1>7, <3>2, LeaveShape DEF CancelArrives
    <3> QED
      BY <3>1, <3>2
  <2>3. TypeInv'
    BY <1>1, <2>1, <2>2 DEF TypeInv
  <2>4. ASSUME NEW q \in RunIds PROVE DriveInv(q)'
    <3>1. CASE q # r
      BY <1>1, <2>1, <2>2, <3>1, Frame
    <3>2. CASE q = r
      BY <1>1, <2>1, <2>2, <3>2, SMT DEF DriveInv
    <3> QED
      BY <3>1, <3>2
  <2> QED
    BY <2>3, <2>4 DEF IInv
<1> QED
  BY <1>2, <1>3, <1>4, <1>5, <1>6, <1>7 DEF Drive

\* A run without a task gets one: what start_workflow and resume_workflow do.
LEMMA SpawnKeeps ==
    ASSUME IInv, NEW r \in RunIds, NEW run \in Run,
           runs[r].status \in {"waiting", "absent"}, run.status = "running",
           UpdateRun(r, run), Spawn(r),
           UNCHANGED <<engine, known, cancelling, stranded>>
    PROVE  IInv'
<1>1. TypeInv /\ DriveInv(r) /\ \A q \in RunIds : DriveInv(q)
  BY DEF IInv
<1>2. /\ pc' \in [RunIds -> Places] /\ pc'[r] = "created"
      /\ \A q \in RunIds \ {r} : pc'[q] = pc[q]
      /\ active' = active \cup {r} /\ awaited' = awaited
  BY <1>1 DEF Spawn, TypeInv, Places
<1>3. /\ runs' \in [RunIds -> Run] /\ disk' \in [RunIds -> Run] /\ runs'[r] = run
      /\ \A q \in RunIds \ {r} : runs'[q] = runs[q]
  BY <1>1, UpdateRunShape
<1>4. TypeInv'
  BY <1>1, <1>2, <1>3 DEF TypeInv
<1>5. ASSUME NEW q \in RunIds PROVE DriveInv(q)'
  <2>1. CASE q # r
    BY <1>1, <1>2, <1>3, <2>1, Frame
  <2>2. CASE q = r
    BY <1>1, <1>2, <1>3, <2>2, SMT DEF DriveInv
  <2> QED
    BY <2>1, <2>2
<1> QED
  BY <1>4, <1>5 DEF IInv

LEMMA StartKeeps ==
    ASSUME IInv, NEW r \in RunIds, Start(r)
    PROVE  IInv'
<1> DEFINE run == [runs[r] EXCEPT !.status = "running", !.step = 1]
<1>1. runs[r] \in Run /\ runs[r].status = "absent"
  BY DEF IInv, TypeInv, Start, New, NoRun
<1>2. run \in Run /\ run.status = "running"
  BY <1>1 DEF Run, RunStatuses
<1>3. UpdateRun(r, run) /\ Spawn(r) /\ UNCHANGED <<engine, known, cancelling, stranded>>
  BY DEF Start
<1> HIDE DEF run
<1> QED
  BY <1>1, <1>2, <1>3, SpawnKeeps

LEMMA ReplyKeeps ==
    ASSUME IInv, NEW r \in RunIds, Reply(r)
    PROVE  IInv'
<1> DEFINE s        == runs[r].wait
           answered == WithStep(runs[r], s, "completed")
           next     == NextStep(s, 0)
           on       == [answered EXCEPT !.step = next, !.status = "running", !.wait = 0]
           over     == [answered EXCEPT !.status = "completed"]
<1>1. /\ TypeInv /\ DriveInv(r) /\ \A q \in RunIds : DriveInv(q)
      /\ runs[r] \in Run /\ runs[r].status = "waiting"
  BY DEF IInv, TypeInv, Reply, ReplyGoesTo, WaitingIn
<1>2. answered \in Run /\ answered.status = "waiting"
  BY <1>1, WithStepIsRun DEF StepStatuses
<1>3. UNCHANGED <<engine, known, cancelling, stranded>>
  BY DEF Reply
<1>4. over \in Run /\ over.status = "completed"
  <2> HIDE DEF answered
  <2> QED BY <1>2 DEF Run, RunStatuses
<1>5. ASSUME NEW run \in Run, run.status \in {"waiting", "completed"},
             runs' \in [RunIds -> Run], disk' \in [RunIds -> Run], runs'[r] = run,
             \A q \in RunIds \ {r} : runs'[q] = runs[q],
             UNCHANGED <<pc, active, awaited>>
      PROVE  IInv'
  <2>1. TypeInv'
    BY <1>1, <1>3, <1>5 DEF TypeInv
  <2>2. ASSUME NEW q \in RunIds PROVE DriveInv(q)'
    <3>1. CASE q # r
      BY <1>1, <1>3, <1>5, <3>1, Frame
    <3>2. CASE q = r
      BY <1>1, <1>3, <1>5, <3>2, SMT DEF DriveInv
    <3> QED
      BY <3>1, <3>2
  <2> QED
    BY <2>1, <2>2 DEF IInv
<1>6. CASE runs' = [runs EXCEPT ![r] = answered] /\ UNCHANGED <<disk, pc, active, awaited>>
  <2> HIDE DEF answered
  <2>1. /\ runs' \in [RunIds -> Run] /\ disk' \in [RunIds -> Run] /\ runs'[r] = answered
        /\ \A q \in RunIds \ {r} : runs'[q] = runs[q]
    BY <1>1, <1>2, <1>6 DEF TypeInv
  <2> QED
    BY <1>2, <1>5, <1>6, <2>1
<1>7. CASE UpdateRun(r, over) /\ UNCHANGED <<pc, active, awaited>>
  <2> HIDE DEF over
  <2>1. /\ runs' \in [RunIds -> Run] /\ disk' \in [RunIds -> Run] /\ runs'[r] = over
        /\ \A q \in RunIds \ {r} : runs'[q] = runs[q]
    BY <1>1, <1>4, <1>7, UpdateRunShape
  <2> QED
    BY <1>4, <1>5, <1>7, <2>1
<1>8. CASE next # 0 /\ UpdateRun(r, on) /\ Spawn(r)
  <2>1. s \in StepIds /\ next \in Nat
    <3>1. s \in StepIds
      BY <1>1 DEF Run
    <3> HIDE DEF s
    <3> QED BY <3>1, NextStepIsId
  <2>2. on \in Run /\ on.status = "running"
    <3> HIDE DEF answered, next
    <3> QED BY <1>2, <2>1 DEF Run, RunStatuses
  <2> HIDE DEF on
  <2> QED
    BY <1>1, <1>3, <1>8, <2>2, SpawnKeeps
<1> QED
  BY <1>6, <1>7, <1>8 DEF Reply

\* Any other status can be given to a run than "waiting".
LEMMA SettledRun ==
    ASSUME NEW run \in Run, NEW status \in RunStatuses \ {"waiting"}
    PROVE  /\ [run EXCEPT !.status = status] \in Run
           /\ [run EXCEPT !.status = status].status = status
           /\ [run EXCEPT !.status = status].step = run.step
BY DEF Run

LEMMA CancelKeeps ==
    ASSUME IInv, NEW r \in RunIds, Cancel(r)
    PROVE  IInv'
<1> DEFINE run == [runs[r] EXCEPT !.status = "cancelled"]
<1>1. /\ TypeInv /\ DriveInv(r) /\ \A q \in RunIds : DriveInv(q)
      /\ runs[r] \in Run
  BY DEF IInv, TypeInv
<1>2. run \in Run /\ run.status = "cancelled" /\ run.step = runs[r].step
  BY <1>1, SettledRun DEF RunStatuses
<1>3. /\ UpdateRun(r, run) /\ UNCHANGED <<engine, known, pc, awaited, stranded>>
      /\ active' = active \ {r}
      /\ cancelling' = cancelling \cup {q \in active \cap {r} : pc[q] # "none"}
      /\ Free
  BY DEF Cancel
<1>4. runs[r].status # "absent" \/ (r \notin active /\ pc[r] = "none" /\ r \notin cancelling)
  BY <1>1 DEF DriveInv
<1> HIDE DEF run
<1>5. /\ runs' \in [RunIds -> Run] /\ disk' \in [RunIds -> Run] /\ runs'[r] = run
      /\ \A q \in RunIds \ {r} : runs'[q] = runs[q]
  BY <1>1, <1>2, <1>3, UpdateRunShape
<1>6. TypeInv'
  BY <1>1, <1>3, <1>5 DEF TypeInv
<1>7. ASSUME NEW q \in RunIds PROVE DriveInv(q)'
  <2>1. CASE q # r
    BY <1>1, <1>3, <1>5, <2>1, Frame
  <2>2. CASE q = r
    <3>1. pc[r] # "looping" /\ pc' = pc /\ runs'[r].status = "cancelled"
          /\ runs'[r].step = runs[r].step /\ r \notin active'
      BY <1>2, <1>3, <1>5 DEF Free
    <3>2. r \in cancelling' <=> r \in cancelling \/ (r \in active /\ pc[r] # "none")
      BY <1>3
    <3> QED
      BY <1>1, <1>3, <1>4, <2>2, <3>1, <3>2, SMT DEF DriveInv
  <2> QED
    BY <2>1, <2>2
<1> QED
  BY <1>6, <1>7 DEF IInv

\* A fresh process, whatever was saved.
LEMMA FreshKeeps ==
    ASSUME disk' \in [RunIds -> Run], runs' = disk', Fresh
    PROVE  IInv'
<1>1. TypeInv'
  BY DEF Fresh, TypeInv, Places
<1>2. ASSUME NEW q \in RunIds PROVE DriveInv(q)'
  <2>1. /\ pc'[q] = "none" /\ active' = {} /\ cancelling' = {} /\ engine' = "up"
        /\ q \in stranded' <=> runs'[q].status = "running"
    BY DEF Fresh
  <2> QED
    BY <2>1, SMT DEF DriveInv
<1> QED
  BY <1>1, <1>2 DEF IInv

LEMMA RestartKeeps ==
    ASSUME IInv, Restart \/ \E r \in RunIds : RestartInStart(r)
    PROVE  IInv'
<1>1. CASE Restart
  BY <1>1, FreshKeeps DEF IInv, TypeInv, Restart
<1>2. ASSUME NEW r \in RunIds, RestartInStart(r)
      PROVE  IInv'
  <2> DEFINE run == [runs[r] EXCEPT !.status = "pending"]
  <2>1. run \in Run
    BY SettledRun DEF IInv, TypeInv, RunStatuses
  <2>2. disk' = [runs EXCEPT ![r] = run] /\ runs' = disk' /\ Fresh
    BY <1>2 DEF RestartInStart
  <2> HIDE DEF run
  <2>3. disk' \in [RunIds -> Run]
    BY <2>1, <2>2 DEF IInv, TypeInv
  <2> QED
    BY <2>2, <2>3, FreshKeeps
<1> QED
  BY <1>1, <1>2

LEMMA ShutdownKeeps ==
    ASSUME IInv, Shutdown
    PROVE  IInv'
<1>1. TypeInv /\ \A q \in RunIds : DriveInv(q)
  BY DEF IInv
<1>2. TypeInv'
  BY <1>1 DEF Shutdown, TypeInv
<1>3. ASSUME NEW q \in RunIds PROVE DriveInv(q)'
  <2>1. pc[q] # "looping" /\ UNCHANGED <<runs, disk, pc, active, stranded>>
    BY DEF Shutdown, Free
  <2>2. /\ engine = "up" /\ engine' \in {"stopping", "drained"}
        /\ q \in cancelling' <=> q \in cancelling \/ q \in active
    BY DEF Shutdown
  <2> QED
    BY <1>1, <2>1, <2>2, SMT DEF DriveInv
<1> QED
  BY <1>2, <1>3 DEF IInv

LEMMA OthersKeep ==
    ASSUME IInv, ReloadClears \/ ReloadFills \/ ShutdownReturns \/ UNCHANGED vars
    PROVE  IInv'
<1>1. TypeInv /\ \A q \in RunIds : DriveInv(q)
  BY DEF IInv
<1>2. CASE ReloadClears \/ ReloadFills \/ UNCHANGED vars
  <2>1. UNCHANGED <<engine, runs, disk, pc, active, cancelling, awaited, stranded>>
        /\ known' \in BOOLEAN
    BY <1>1, <1>2 DEF ReloadClears, ReloadFills, vars, TypeInv
  <2>2. TypeInv'
    BY <1>1, <2>1 DEF TypeInv
  <2> QED
    BY <1>1, <2>1, <2>2, Frame DEF IInv
<1>3. CASE ShutdownReturns
  <2>1. UNCHANGED <<known, runs, disk, pc, cancelling, awaited, stranded>>
        /\ engine' = "drained" /\ active' = {}
    BY <1>3 DEF ShutdownReturns
  <2>2. TypeInv'
    BY <1>1, <2>1 DEF TypeInv
  <2>3. ASSUME NEW q \in RunIds PROVE DriveInv(q)'
    BY <1>1, <2>1, SMT DEF DriveInv
  <2> QED
    BY <2>2, <2>3 DEF IInv
<1> QED
  BY <1>2, <1>3

LEMMA InitIInv == ASSUME Init PROVE IInv
<1>1. NoRun \in Run
  BY DEF NoRun, NoStep, Run, StepRun
<1>2. runs \in [RunIds -> Run] /\ disk \in [RunIds -> Run]
  BY <1>1 DEF Init
<1>3. TypeInv
  BY <1>2 DEF Init, TypeInv, Places
<1>4. ASSUME NEW q \in RunIds PROVE DriveInv(q)
  <2>1. runs[q].status = "absent" /\ pc[q] = "none"
    BY DEF Init, NoRun
  <2> QED
    BY <2>1 DEF Init, DriveInv
<1> QED
  BY <1>3, <1>4 DEF IInv

LEMMA NextKeeps == ASSUME IInv, [Next]_vars PROVE IInv'
BY DriveKeeps, StartKeeps, ReplyKeeps, CancelKeeps, RestartKeeps, ShutdownKeeps, OthersKeep
   DEF Next

\* Status, task, table and cancellations fit together in every reachable state.
THEOREM Driven == Spec => []IInv
<1>1. Init => IInv
  BY InitIInv
<1>2. IInv /\ [Next]_vars => IInv'
  BY NextKeeps
<1> QED
  BY <1>1, <1>2, PTL DEF Spec

-----------------------------------------------------------------------------
(* Theorems *)

\* Whatever the engine, its callers and the reloading thread do, a run that reads
\* "running" is driven by its task unless one of the three events named in
\* stranded has taken the task away.
THEOREM RunningRunsAreDriven == Spec => []RunningIsDriven
<1>1. IInv => RunningIsDriven
  BY DEF IInv, DriveInv, RunningIsDriven
<1> QED
  BY <1>1, Driven, PTL

\* The table of tasks that the limit, cancel and shutdown go by is the truth while
\* the engine is up.
THEOREM TableIsTrue == Spec => []TableTrue
<1>1. IInv => TableTrue
  <2> SUFFICES ASSUME IInv, engine = "up",  NEW r \in RunIds
               PROVE  /\ r \in active => pc[r] # "none"
                      /\ runs[r].status = "running" /\ r \notin stranded => r \in active
    BY DEF IInv, TypeInv, TableTrue
  <2>1. DriveInv(r)
    BY DEF IInv
  <2> QED
    BY <2>1, SMT DEF DriveInv
<1> QED
  BY <1>1, Driven, PTL

\* A waiting run has no task left that could go on beside the one its reply
\* creates, and the reply finds the step it completes.
THEOREM WaitingRunsAreParked == Spec => []WaitingIsParked
<1>1. IInv => WaitingIsParked
  <2> SUFFICES ASSUME IInv, NEW r \in RunIds, runs[r].status = "waiting"
               PROVE  /\ pc[r] = "none"
                      /\ r \notin active \cup cancelling
                      /\ runs[r].wait = runs[r].step /\ runs[r].wait \in StepIds
                      /\ runs[r].steps[runs[r].wait].status \in {"waiting", "completed"}
    BY DEF WaitingIsParked
  <2>1. DriveInv(r) /\ runs[r] \in Run
    BY DEF IInv, TypeInv
  <2> QED
    BY <2>1 DEF DriveInv, Run
<1> QED
  BY <1>1, Driven, PTL

\* What is changed in memory and not saved: a step that is under way again, and
\* the step of a reply that met no definition.
InMemoryOnly(r) ==
    /\ disk' = disk
    /\ \/ runs' = [runs EXCEPT ![r] = WithStep(runs[r], runs[r].step, "running")]
          /\ runs[r].status = "running"
       \/ runs' = [runs EXCEPT ![r] = WithStep(runs[r], runs[r].wait, "completed")]
          /\ runs[r].status = "waiting"

LEMMA Saves ==
    ASSUME [Next]_vars
    PROVE  \/ disk' = runs'
           \/ runs' = runs /\ disk' = disk
           \/ \E r \in RunIds : InMemoryOnly(r)
<1>1. ASSUME NEW r \in RunIds, Iterate(r)
      PROVE  disk' = runs' \/ (runs' = runs /\ disk' = disk) \/ InMemoryOnly(r)
  <2>1. CASE StartStep(r) /\ GoesOn(r)
    BY <2>1 DEF StartStep, GoesOn, InMemoryOnly
  <2> QED
    BY <1>1, <2>1 DEF Iterate, UpdateRun, Branch, Advance,
       StepFails, Retry, Fallback, Skip, Abort
<1>2. ASSUME NEW r \in RunIds, Drive(r), ~Iterate(r)
      PROVE  disk' = runs' \/ (runs' = runs /\ disk' = disk)
  BY <1>2 DEF Drive, Runs, StepEnds, SwallowsCancel, Told, CancelArrives, UpdateRun,
     Advance, Pause, StepFails, Retry, Fallback, Skip, Abort
<1>3. ASSUME NEW r \in RunIds, Reply(r)
      PROVE  disk' = runs' \/ InMemoryOnly(r)
  BY <1>3 DEF Reply, ReplyGoesTo, WaitingIn, UpdateRun, InMemoryOnly
<1>4. ASSUME NEW r \in RunIds, Start(r) \/ Cancel(r) \/ RestartInStart(r)
      PROVE  disk' = runs'
  BY <1>4 DEF Start, Cancel, RestartInStart, UpdateRun
<1>5. CASE ReloadClears \/ ReloadFills \/ Shutdown \/ ShutdownReturns \/ Restart \/ UNCHANGED vars
  BY <1>5 DEF ReloadClears, ReloadFills, Shutdown, ShutdownReturns, Restart, vars
<1> QED
  BY <1>1, <1>2, <1>3, <1>4, <1>5 DEF Next

\* StoreAgrees, run by run.
Agrees(r) ==
    /\ disk[r].status = runs[r].status
    /\ disk[r].step = runs[r].step
    /\ disk[r].wait = runs[r].wait
    /\ \A s \in StepIds :
          /\ disk[r].steps[s].attempt = runs[r].steps[s].attempt
          /\ \/ disk[r].steps[s].status = runs[r].steps[s].status
             \/ runs[r].steps[s].status = "running"
             \/ disk[r].steps[s].status = "waiting" /\ runs[r].status = "waiting"

AllAgree == \A r \in RunIds : Agrees(r)

LEMMA AgreementKept ==
    ASSUME IInv, AllAgree, [Next]_vars
    PROVE  AllAgree'
<1>1. CASE disk' = runs'
  BY <1>1 DEF AllAgree, Agrees
<1>2. CASE runs' = runs /\ disk' = disk
  BY <1>2 DEF AllAgree, Agrees
<1>3. ASSUME NEW r \in RunIds, InMemoryOnly(r)
      PROVE  AllAgree'
  <2> SUFFICES ASSUME NEW q \in RunIds PROVE Agrees(q)'
    BY DEF AllAgree
  <2>1. Agrees(q) /\ runs[r] \in Run /\ runs \in [RunIds -> Run]
    BY DEF AllAgree, IInv, TypeInv
  <2>2. CASE q # r
    BY <1>3, <2>1, <2>2 DEF InMemoryOnly, Agrees
  <2>3. CASE q = r /\ runs[r].status = "running"
    <3> DEFINE run == WithStep(runs[r], runs[r].step, "running")
    <3>1. /\ run.status = runs[r].status /\ run.step = runs[r].step /\ run.wait = runs[r].wait
          /\ \A i \in StepIds : /\ run.steps[i].attempt = runs[r].steps[i].attempt
                                /\ \/ run.steps[i] = runs[r].steps[i]
                                   \/ run.steps[i].status = "running"
      <4>1. runs[r].status # "waiting" /\ "running" \in StepStatuses
        BY <2>3 DEF StepStatuses
      <4>2. /\ run.status = runs[r].status /\ run.step = runs[r].step /\ run.wait = runs[r].wait
            /\ runs[r].step \in StepIds => run.steps[runs[r].step].status = "running"
            /\ \A i \in StepIds :
                  /\ run.steps[i].attempt = runs[r].steps[i].attempt
                  /\ i # runs[r].step => run.steps[i] = runs[r].steps[i]
        BY <2>1, <4>1, WithStepIsRun
      <4> HIDE DEF run
      <4> QED
        BY <4>2
    <3>2. runs'[r] = run /\ disk'[r] = disk[r]
      BY <1>3, <2>1, <2>3 DEF InMemoryOnly
    <3> HIDE DEF run
    <3> QED
      BY <2>1, <2>3, <3>1, <3>2 DEF Agrees
  <2>4. CASE q = r /\ runs[r].status = "waiting"
    <3> DEFINE run == WithStep(runs[r], runs[r].wait, "completed")
    <3>1. /\ run.status = runs[r].status /\ run.step = runs[r].step /\ run.wait = runs[r].wait
          /\ \A i \in StepIds : /\ run.steps[i].attempt = runs[r].steps[i].attempt
                                /\ i # runs[r].wait => run.steps[i] = runs[r].steps[i]
                                /\ i = runs[r].wait => run.steps[i].status = "completed"
      BY <2>1, <2>4, WithStepIsRun DEF StepStatuses
    <3>2. runs'[r] = run /\ disk'[r] = disk[r]
      BY <1>3, <2>1, <2>4 DEF InMemoryOnly
    <3>3. /\ runs[r].wait \in StepIds
          /\ runs[r].steps[runs[r].wait].status \in {"waiting", "completed"}
      BY <2>1, <2>4 DEF Run
    <3> HIDE DEF run
    <3> QED
      BY <2>1, <2>4, <3>1, <3>2, <3>3 DEF Agrees
  <2> QED
    BY <1>3, <2>2, <2>3, <2>4 DEF InMemoryOnly
<1> QED
  BY <1>1, <1>2, <1>3, Saves

LEMMA AlwaysAgree == Spec => [](IInv /\ AllAgree)
<1>1. Init => AllAgree
  BY DEF Init, AllAgree, Agrees
<1>2. IInv /\ AllAgree /\ [Next]_vars => AllAgree'
  BY AgreementKept
<1> QED
  BY <1>1, <1>2, Driven, PTL DEF Spec

\* A crash takes back no verdict, no attempt and no result of a step.
THEOREM StoreKeepsUp == Spec => []StoreAgrees
<1>1. AllAgree => StoreAgrees
  <2> SUFFICES ASSUME AllAgree, NEW r \in RunIds
               PROVE  \A f \in {"status", "step", "wait"} : disk[r][f] = runs[r][f]
    BY DEF AllAgree, Agrees, StoreAgrees
  <2>1. Agrees(r)
    BY DEF AllAgree
  <2> QED
    BY <2>1 DEF Agrees
<1> QED
  BY <1>1, AlwaysAgree, PTL

\* A cancelled run stops, also when its answer came with the cancel and asyncio
\* has dropped the cancellation.
THEOREM CancelledRunsStop == Spec => CancelledStops
<1> DEFINE Stops(r) ==
        engine # "drained" /\ runs[r].status = "cancelled" =>
            /\ runs'[r].status \notin {"running", "waiting"}
            /\ pc'[r] = "stepping" => pc[r] = "stepping"
<1>1. ASSUME IInv, AllAgree, [Next]_vars, NEW r \in RunIds PROVE Stops(r)
  <2> SUFFICES ASSUME engine # "drained", runs[r].status = "cancelled"
               PROVE  /\ runs'[r].status \notin {"running", "waiting"}
                      /\ pc'[r] = "stepping" => pc[r] = "stepping"
    OBVIOUS
  <2>1. TypeInv /\ DriveInv(r) /\ disk[r].status = "cancelled"
    BY <1>1 DEF IInv, AllAgree, Agrees
  <2>2. runs[r] # NoRun /\ runs[r].status # "waiting"
    BY DEF NoRun
  <2>3. CASE runs'[r] = runs[r] /\ pc'[r] = pc[r]
    BY <2>3
  <2>4. ASSUME NEW q \in RunIds, Drive(q)
        PROVE  (runs'[r] = runs[r] /\ pc'[r] = pc[r]) \/ Stops(r)
    <3>1. CASE q # r
      BY <2>1, <2>4, <3>1, DriveTouches DEF OnlyRun
    <3>2. CASE q = r
      <4>1. CASE Runs(r)
        BY <2>1, <4>1 DEF Runs, Goes, TypeInv
      <4>2. CASE Iterate(r)
        BY <2>1, <4>2, LeaveShape DEF Iterate, GoesOn
      <4>3. CASE StepEnds(r)
        BY <2>1, <4>3 DEF StepEnds, DriveInv
      <4>4. CASE SwallowsCancel(r)
        <5>1. Onward(r) \/ Telling(r) \/ Skipped(r)
          BY <2>1, <2>2, <4>4, AdvanceShape, StepFailsShape DEF SwallowsCancel, DriveInv
        <5> QED
          BY <5>1 DEF Onward, Telling, Skipped
      <4>5. CASE Told(r)
        <5>1. pc'[r] = "none"
          BY <2>1, <4>5, LeaveShape DEF Told
        <5>2. runs'[r].status \in {"cancelled", "failed"}
          BY <2>1, <4>5 DEF Told, UpdateRun, TypeInv, Run
        <5> QED
          BY <5>1, <5>2
      <4>6. CASE CancelArrives(r)
        BY <2>1, <4>6, LeaveShape DEF CancelArrives, LeaveTracked, TypeInv
      <4> QED
        BY <2>4, <3>2, <4>1, <4>2, <4>3, <4>4, <4>5, <4>6 DEF Drive
    <3> QED
      BY <3>1, <3>2
  <2>5. ASSUME NEW q \in RunIds, Start(q) \/ Reply(q)
        PROVE  runs'[r] = runs[r] /\ pc'[r] = pc[r]
    <3>1. q # r
      BY <2>2, <2>5 DEF Start, New, Reply, ReplyGoesTo, WaitingIn
    <3> QED
      BY <2>1, <2>5, <3>1 DEF Start, Reply, UpdateRun, Spawn, TypeInv
  <2>6. ASSUME NEW q \in RunIds, Cancel(q)
        PROVE  runs'[r].status = "cancelled" /\ pc'[r] = pc[r]
    BY <2>1, <2>6 DEF Cancel, UpdateRun, TypeInv, Run
  <2>7. ASSUME NEW q \in RunIds, RestartInStart(q)
        PROVE  runs'[r] = runs[r] /\ pc'[r] = "none"
    BY <2>1, <2>2, <2>7 DEF RestartInStart, New, Fresh, TypeInv
  <2>8. CASE Restart
    BY <2>1, <2>8 DEF Restart, Fresh
  <2>9. CASE ReloadClears \/ ReloadFills \/ Shutdown \/ ShutdownReturns \/ UNCHANGED vars
    BY <2>3, <2>9 DEF ReloadClears, ReloadFills, Shutdown, ShutdownReturns, vars
  <2> QED
    BY <1>1, <2>3, <2>4, <2>5, <2>6, <2>7, <2>8, <2>9 DEF Next
<1>2. IInv /\ AllAgree /\ [Next]_vars => \A r \in RunIds : Stops(r)
  BY <1>1
<1> QED
  BY <1>2, AlwaysAgree, PTL DEF Spec, CancelledStops

\* max_parallel_runs bounds the runs that are driven when one is started, those
\* that a reply resumed included.
THEOREM AdmissionIsBounded == Spec => AdmissionBound
<1> DEFINE Driven1 == {q \in RunIds : runs'[q].status = "running" /\ pc'[q] # "none"}
           Bounded(r) == engine = "up" /\ runs[r] = NoRun /\ pc'[r] = "created" =>
                             Cardinality(Driven1) <= MaxParallel
<1>1. ASSUME IInv, [Next]_vars, NEW r \in RunIds PROVE Bounded(r)
  <2> SUFFICES ASSUME engine = "up", runs[r] = NoRun, pc'[r] = "created"
               PROVE  Cardinality(Driven1) <= MaxParallel
    OBVIOUS
  <2>1. TypeInv /\ \A q \in RunIds : DriveInv(q)
    BY <1>1 DEF IInv
  <2>2. runs[r].status = "absent" /\ pc[r] = "none"
    BY <2>1 DEF NoRun, DriveInv
  <2>3. ASSUME NEW q \in RunIds, Drive(q) PROVE FALSE
    <3>1. CASE q = r
      BY <2>2, <2>3, <3>1, <2>1 DEF Drive, Runs, Iterate, StepEnds, SwallowsCancel, Told,
         CancelArrives, DriveInv
    <3>2. CASE q # r
      BY <2>1, <2>2, <2>3, <3>2, DriveTouches DEF OnlyRun
    <3> QED
      BY <3>1, <3>2
  <2>4. ASSUME NEW q \in RunIds, Reply(q) PROVE FALSE
    BY <2>1, <2>2, <2>4 DEF Reply, ReplyGoesTo, WaitingIn, Spawn, TypeInv
  <2>5. ASSUME NEW q \in RunIds, Cancel(q) PROVE FALSE
    BY <2>2, <2>5 DEF Cancel
  <2>6. ASSUME NEW q \in RunIds, RestartInStart(q) PROVE FALSE
    BY <2>6 DEF RestartInStart, Fresh
  <2>7. ~(ReloadClears \/ ReloadFills \/ Shutdown \/ ShutdownReturns \/ Restart \/ UNCHANGED vars)
    BY <2>2 DEF ReloadClears, ReloadFills, Shutdown, ShutdownReturns, Restart, Fresh, vars
  <2>8. Start(r)
    <3>1. PICK q \in RunIds : Start(q)
      BY <1>1, <2>3, <2>4, <2>5, <2>6, <2>7 DEF Next
    <3>2. q = r
      BY <2>1, <2>2, <3>1 DEF Start, Spawn, TypeInv
    <3> QED
      BY <3>1, <3>2
  <2>9. Driven1 \subseteq active \cup {r}
    <3> SUFFICES ASSUME NEW q \in RunIds, q # r, runs'[q].status = "running", pc'[q] # "none"
                 PROVE  q \in active
      OBVIOUS
    <3>1. runs'[q] = runs[q] /\ pc'[q] = pc[q]
      BY <2>1, <2>8 DEF Start, UpdateRun, Spawn, TypeInv
    <3> QED
      BY <2>1, <3>1 DEF DriveInv
  <2>10. IsFiniteSet(active) /\ Cardinality(active) \in Nat
    <3>1. IsFiniteSet(RunIds)
      BY FS_Interval, WorkflowAssumption DEF RunIds
    <3> QED
      BY <2>1, <3>1, FS_Subset, FS_CardinalityType DEF TypeInv
  <2>11. IsFiniteSet(active \cup {r}) /\ Cardinality(active \cup {r}) <= Cardinality(active) + 1
    BY <2>10, FS_AddElement
  <2>12. Cardinality(Driven1) <= Cardinality(active \cup {r})
    <3> HIDE DEF Driven1
    <3> QED BY <2>9, <2>11, FS_Subset
  <2>13. Cardinality(active) + 1 <= MaxParallel
    BY <2>8, <2>10, WorkflowAssumption DEF Start, Admits
  <2>14. Cardinality(Driven1) \in Nat /\ Cardinality(active \cup {r}) \in Nat
    <3> HIDE DEF Driven1
    <3> QED BY <2>9, <2>11, FS_Subset, FS_CardinalityType
  <2> HIDE DEF Driven1
  <2> QED
    BY <2>10, <2>11, <2>12, <2>13, <2>14, WorkflowAssumption
<1>2. IInv /\ [Next]_vars => \A r \in RunIds : Bounded(r)
  BY <1>1
<1> QED
  BY <1>2, Driven, PTL DEF Spec, AdmissionBound
=============================================================================
