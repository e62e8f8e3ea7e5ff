------------------------- MODULE EpisodeEngine_proofs -------------------------
(***************************************************************************)
(* What holds of every episode: whatever the worlds, the commands and the  *)
(* answers of the policy, and for every limit of loops, retries and steps. *)
(***************************************************************************)
EXTENDS EpisodeEngine, SequenceTheorems, FiniteSetTheorems, TLAPS

Bounds ==
  /\ LoopLimit \in Nat \ {0} /\ MaxRetries \in Nat
  /\ \A s \in Scenarios : \A i \in DOMAIN s.commands : s.commands[i].maxSteps \in Nat \ {0}

IsTask(t) ==
  t = [status |-> t.status, reason |-> t.reason, steps |-> t.steps, counts |-> t.counts]

(* A tick under way has a step left, even when its task is over; a task is *)
(* fresh until its command is submitted.                                   *)
IInv ==
  /\ TypeOK
  /\ tasks = [i \in DOMAIN scenario.commands |-> tasks[i]]
  /\ \A i \in DOMAIN scenario.commands :
       IsTask(tasks[i]) /\ (i \notin 1..current => tasks[i] = FreshTask)
  /\ asking # 0 => tasks[asking].steps < Spec(asking).maxSteps

\* The assumptions on the constants, in one place.
LEMMA BoundsHold == Bounds
BY LoopLimitIsPositive, MaxRetriesIsNatural, MaxStepsArePositive
   DEF Bounds

\* Ending a task changes its status and reason alone.
LEMMA Ended ==
  ASSUME NEW t, IsTask(t), NEW status, NEW reason
  PROVE  /\ IsTask(End(t, status, reason))
         /\ End(t, status, reason).status = status
         /\ End(t, status, reason).steps = t.steps
<1> DEFINE m == [t EXCEPT !.status = status]
<1>1. m = [status |-> status, reason |-> t.reason, steps |-> t.steps, counts |-> t.counts]
  BY DEF IsTask
<1>2. End(t, status, reason) = [m EXCEPT !.reason = reason]
  BY DEF End
<1> HIDE DEF m
<1>3. [m EXCEPT !.reason = reason]
      = [status |-> status, reason |-> reason, steps |-> t.steps, counts |-> t.counts]
  BY <1>1
<1> QED
  BY <1>2, <1>3 DEF IsTask

\* A step changes the number of steps alone.
LEMMA Stepped ==
  ASSUME NEW t, IsTask(t)
  PROVE  IsTask(Step(t)) /\ Step(t).steps = t.steps + 1 /\ Step(t).status = t.status
<1>1. Step(t) = [status |-> t.status, reason |-> t.reason, steps |-> t.steps + 1, counts |-> t.counts]
  BY DEF IsTask, Step
<1> QED
  BY <1>1 DEF IsTask

\* Counting a proposal changes the counts alone.
LEMMA Recounted ==
  ASSUME NEW t, IsTask(t), NEW counts
  PROVE  /\ IsTask([t EXCEPT !.counts = counts])
         /\ [t EXCEPT !.counts = counts].status = t.status
         /\ [t EXCEPT !.counts = counts].steps = t.steps
<1>1. [t EXCEPT !.counts = counts]
      = [status |-> t.status, reason |-> t.reason, steps |-> t.steps, counts |-> counts]
  BY DEF IsTask
<1> QED
  BY <1>1 DEF IsTask

\* A tick ends with a task that has one step more, and is over when the task
\* it was given is; it is still active only when a step is left to it.
LEMMA Judged ==
  ASSUME NEW t, IsTask(t), t.steps \in Nat, t.status \in Statuses,
         NEW spec, spec.maxSteps \in Nat, t.steps < spec.maxSteps,
         NEW a, NEW success, NEW w
  PROVE  LET u == Judge(Step(t), spec, a, success, w)
         IN /\ IsTask(u) /\ u.status \in Statuses /\ u.steps = t.steps + 1
            /\ u.status = "active" => u.steps < spec.maxSteps
            /\ t.status # "active" => u.status = t.status
            /\ u.status \in {t.status, "failed", "succeeded"}
<1> DEFINE s == Step(t)
<1>1. /\ IsTask(s) /\ s.steps = t.steps + 1 /\ s.status = t.status
  BY Stepped
<1> HIDE DEF s
<1>2. \A status, reason :
        /\ IsTask(End(s, status, reason)) /\ End(s, status, reason).status = status
        /\ End(s, status, reason).steps = s.steps
  BY <1>1, Ended
<1> DEFINE u == Judge(s, spec, a, success, w)
<1>3. /\ IsTask(u) /\ u.status \in Statuses /\ u.steps = t.steps + 1
      /\ u.status = "active" => u.steps < spec.maxSteps
      /\ t.status # "active" => u.status = t.status
      /\ u.status \in {t.status, "failed", "succeeded"}
  BY <1>1, <1>2 DEF Judge, Statuses
<1> QED
  BY <1>3 DEF s

\* A step that replaces one task, keeps its being over and goes on with no
\* other tick keeps the invariant.
LEMMA Replaced ==
  ASSUME Bounds, IInv, NEW k \in 1..current,
         NEW u, IsTask(u), u.status \in Statuses, u.steps \in 0..Spec(k).maxSteps,
         u.status = "active" => u.steps < Spec(k).maxSteps,
         IsTerminal(k) => u.status # "active",
         tasks' = [tasks EXCEPT ![k] = u], scenario' = scenario, current' = current,
         \/ asking' = 0 /\ attempt' = 0
         \/ asking' = asking /\ attempt' = attempt /\ u.steps = tasks[k].steps
  PROVE  IInv'
<1>1. /\ current \in Nat /\ 1..current \subseteq DOMAIN scenario.commands
      /\ scenario \in Scenarios
  BY DEF IInv, TypeOK
<1>2. k \in DOMAIN scenario.commands
  BY <1>1
<1>3. tasks' = [i \in DOMAIN scenario.commands |-> IF i = k THEN u ELSE tasks[i]]
  BY <1>2 DEF IInv
<1>4. tasks' = [i \in DOMAIN scenario.commands |-> tasks'[i]]
  BY <1>3
<1>5. /\ tasks'[k] = u
      /\ \A i \in DOMAIN scenario.commands : i # k => tasks'[i] = tasks[i]
  BY <1>2, <1>3
<1>6. ASSUME NEW i \in 1..current
      PROVE  /\ tasks'[i].status \in Statuses
             /\ tasks'[i].steps \in 0..scenario.commands[i].maxSteps
             /\ tasks'[i].status = "active" => tasks'[i].steps < scenario.commands[i].maxSteps
             /\ i < current => tasks'[i].status # "active"
  <2>1. CASE i = k
    BY <1>5, <2>1 DEF IInv, TypeOK, Spec, IsTerminal
  <2>2. CASE i # k
    <3>1. tasks'[i] = tasks[i]
      BY <1>1, <1>5, <2>2
    <3> QED
      BY <3>1 DEF IInv, TypeOK, Spec, IsTerminal
  <2> QED
    BY <2>1, <2>2
<1>7. asking' \in 0..current /\ attempt' \in 0..(MaxRetries + 1) /\ (attempt' = 0 <=> asking' = 0)
  BY <1>1 DEF IInv, TypeOK, Bounds
<1>8. TypeOK'
  BY <1>1, <1>6, <1>7 DEF TypeOK, Spec, IsTerminal
<1>9. ASSUME NEW i \in DOMAIN scenario.commands
      PROVE  IsTask(tasks'[i]) /\ (i \notin 1..current => tasks'[i] = FreshTask)
  BY <1>5 DEF IInv
<1>10. asking' # 0 => tasks'[asking'].steps < scenario.commands[asking'].maxSteps
  <2> SUFFICES ASSUME asking' # 0
               PROVE  tasks'[asking].steps < scenario.commands[asking].maxSteps /\ asking' = asking
    OBVIOUS
  <2>1. asking' = asking /\ u.steps = tasks[k].steps /\ asking # 0
    OBVIOUS
  <2>2. asking \in DOMAIN scenario.commands
    BY <1>1, <2>1 DEF IInv, TypeOK
  <2>3. tasks[asking].steps < scenario.commands[asking].maxSteps
    BY <2>1 DEF IInv, Spec
  <2>4. tasks'[asking].steps = tasks[asking].steps
    BY <1>5, <2>1, <2>2
  <2> QED
    BY <2>1, <2>3, <2>4
<1> QED
  BY <1>4, <1>8, <1>9, <1>10 DEF IInv, Spec

\* The end of a tick keeps the invariant.
LEMMA Observed ==
  ASSUME Bounds, IInv, asking # 0,
         NEW t, IsTask(t), t.status \in Statuses, t.steps = tasks[asking].steps,
         IsTerminal(asking) => t.status # "active",
         NEW a, NEW success, NEW code, NEW w, Observe(t, a, success, code, w)
  PROVE  IInv'
<1> DEFINE u == Judge(Step(t), Spec(asking), a, success, w)
<1>1. /\ asking \in 1..current /\ asking \in DOMAIN scenario.commands /\ scenario \in Scenarios
  BY DEF IInv, TypeOK
<1>2. Spec(asking).maxSteps \in Nat /\ t.steps \in Nat /\ t.steps < Spec(asking).maxSteps
  BY <1>1 DEF IInv, TypeOK, Bounds, Spec
<1>3. /\ IsTask(u) /\ u.status \in Statuses /\ u.steps = t.steps + 1
      /\ u.status = "active" => u.steps < Spec(asking).maxSteps
      /\ t.status # "active" => u.status = t.status
  BY <1>2, Judged
<1>4. /\ tasks' = [tasks EXCEPT ![asking] = u] /\ asking' = 0 /\ attempt' = 0
      /\ scenario' = scenario /\ current' = current
  BY DEF Observe
<1> HIDE DEF u
<1>5. u.steps \in 0..Spec(asking).maxSteps
  BY <1>2, <1>3
<1>6. IsTerminal(asking) => u.status # "active"
  BY <1>3
<1> QED
  BY <1>1, <1>3, <1>4, <1>5, <1>6, Replaced

\* A step that replaces no task and submits none keeps the invariant, when a
\* tick it begins has a step left.
LEMMA Kept ==
  ASSUME Bounds, IInv, UNCHANGED <<scenario, current, tasks>>,
         asking' \in 0..current, attempt' \in 0..(MaxRetries + 1),
         (attempt' = 0) <=> (asking' = 0),
         asking' # 0 => tasks[asking'].steps < Spec(asking').maxSteps
  PROVE  IInv'
<1>1. TypeOK'
  BY DEF IInv, TypeOK, Spec, IsTerminal
<1> QED
  BY <1>1 DEF IInv, Spec

\* No task is under way at first, and none has a step.
LEMMA InitIInv ==
  ASSUME Bounds, Init
  PROVE  IInv
BY DEF Bounds, Init, IInv, TypeOK, IsTask, FreshTask

\* Every step keeps the invariant.
LEMMA NextIInv ==
  ASSUME Bounds, IInv, [Next]_episodeVars
  PROVE  IInv'
<1>1. current \in Nat /\ 1..current \subseteq DOMAIN scenario.commands /\ asking \in 0..current
      /\ scenario \in Scenarios
  BY DEF IInv, TypeOK
<1>2. CASE SubmitCommand
  <2>1. tasks[current + 1] = FreshTask /\ current + 1 \in DOMAIN scenario.commands
    BY <1>1, <1>2 DEF SubmitCommand, IInv
  <2>2. 1..(current + 1) = 1..current \cup {current + 1}
    BY <1>1
  <2>3. scenario.commands[current + 1].maxSteps \in Nat \ {0}
    BY <1>1, <2>1 DEF Bounds
  <2>4. /\ tasks[current + 1].status = "active" /\ tasks[current + 1].steps = 0
    BY <2>1 DEF FreshTask
  <2>5. /\ current' = current + 1 /\ UNCHANGED <<scenario, tasks, asking, attempt>>
        /\ current > 0 => IsTerminal(current)
    BY <1>2 DEF SubmitCommand
  <2>6. ASSUME NEW i \in 1..(current + 1)
        PROVE  /\ tasks[i].status \in Statuses
               /\ tasks[i].steps \in 0..Spec(i).maxSteps
               /\ tasks[i].status = "active" => tasks[i].steps < Spec(i).maxSteps
               /\ i < current + 1 => IsTerminal(i)
    <3>1. CASE i = current + 1
      BY <1>1, <2>3, <2>4, <3>1 DEF Statuses, Spec
    <3>2. CASE i # current + 1
      BY <1>1, <2>2, <2>5, <3>2 DEF IInv, TypeOK
    <3> QED
      BY <3>1, <3>2
  <2>7. TypeOK'
    BY <1>1, <2>1, <2>2, <2>5, <2>6 DEF IInv, TypeOK, Spec, IsTerminal
  <2> QED
    BY <1>1, <2>2, <2>5, <2>7 DEF IInv, Spec
<1>3. CASE CancelTask
  <2>1. current \in 1..current
    BY <1>1, <1>3 DEF CancelTask
  <2>2. /\ scenario' = scenario /\ current' = current /\ asking' = asking /\ attempt' = attempt
    BY <1>3 DEF CancelTask
  <2>3. CASE IsTerminal(current)
    <3>1. tasks' = tasks
      BY <1>3, <2>3 DEF CancelTask
    <3> QED
      BY <1>1, <2>2, <3>1, Kept DEF IInv, TypeOK
  <2>4. CASE ~IsTerminal(current)
    <3> DEFINE u == End(tasks[current], "cancelled", "TASK_CANCELLED")
    <3>1. tasks' = [tasks EXCEPT ![current] = u]
      BY <1>3, <2>4 DEF CancelTask, End
    <3>2. IsTask(tasks[current]) /\ tasks[current].steps \in 0..Spec(current).maxSteps
      BY <1>1, <2>1 DEF IInv, TypeOK
    <3>3. IsTask(u) /\ u.status = "cancelled" /\ u.steps = tasks[current].steps
      BY <3>2, Ended
    <3> HIDE DEF u
    <3> QED
      BY <2>1, <2>2, <3>1, <3>2, <3>3, Replaced DEF Statuses
  <2> QED
    BY <2>3, <2>4
<1>4. CASE SetObject
  BY <1>1, <1>4, Kept DEF SetObject, IInv, TypeOK
<1>5. CASE BeginTick
  <2>1. tasks[current].steps < Spec(current).maxSteps
    BY <1>1, <1>5 DEF BeginTick, IInv, TypeOK, IsTerminal
  <2> QED
    BY <1>1, <1>5, <2>1, Kept DEF BeginTick, Bounds
<1>6. CASE RetryRequest
  <2>1. /\ asking # 0 /\ attempt <= MaxRetries /\ attempt' = attempt + 1 /\ asking' = asking
        /\ UNCHANGED <<scenario, current, tasks>>
    BY <1>6 DEF RetryRequest
  <2>2. /\ attempt \in 0..(MaxRetries + 1) /\ MaxRetries \in Nat
        /\ tasks[asking].steps < Spec(asking).maxSteps
    BY <2>1 DEF IInv, TypeOK, Bounds
  <2>3. attempt' \in 0..(MaxRetries + 1) /\ attempt' # 0
    BY <2>1, <2>2
  <2> QED
    BY <1>1, <2>1, <2>2, <2>3, Kept
<1>7. CASE PolicyFails
  <2>1. PICK code \in {"provider_error", "policy_output_error"} :
          Observe(IF code \in scenario.terminal THEN End(tasks[asking], "failed", code) ELSE tasks[asking],
                  Nothing, FALSE, code, world)
    BY <1>7 DEF PolicyFails, ProviderFails, TurnFails, FailWith
  <2>2. asking # 0 /\ asking \in 1..current /\ asking \in DOMAIN scenario.commands
    BY <1>1, <1>7 DEF PolicyFails, ProviderFails, TurnFails
  <2>3. IsTask(tasks[asking]) /\ tasks[asking].status \in Statuses
    BY <2>2 DEF IInv, TypeOK
  <2>4. /\ IsTask(End(tasks[asking], "failed", code))
        /\ End(tasks[asking], "failed", code).status = "failed"
        /\ End(tasks[asking], "failed", code).steps = tasks[asking].steps
    BY <2>3, Ended
  <2>5. CASE code \in scenario.terminal
    <3>1. Observe(End(tasks[asking], "failed", code), Nothing, FALSE, code, world)
      BY <2>1, <2>5
    <3> QED
      BY <2>2, <2>4, <3>1, Observed DEF Statuses
  <2>6. CASE code \notin scenario.terminal
    <3>1. Observe(tasks[asking], Nothing, FALSE, code, world)
      BY <2>1, <2>6
    <3> QED
      BY <2>2, <2>3, <3>1, Observed DEF IsTerminal
  <2> QED
    BY <2>5, <2>6
<1>8. CASE PolicyAnswers
  <2>1. PICK a \in Proposals : Propose(a)
    BY <1>8 DEF PolicyAnswers
  <2>2. asking # 0 /\ asking \in 1..current /\ asking \in DOMAIN scenario.commands
    BY <1>1, <1>8 DEF PolicyAnswers
  <2> DEFINE t == [tasks[asking] EXCEPT
                     !.counts = Counted(tasks[asking].counts, Fingerprint(a, world))]
  <2>3. IsTask(tasks[asking]) /\ tasks[asking].status \in Statuses
    BY <2>2 DEF IInv, TypeOK
  <2>4. IsTask(t) /\ t.status = tasks[asking].status /\ t.steps = tasks[asking].steps
    BY <2>3, Recounted
  <2>5. \/ Observe(End(t, "failed", "LOOP_DETECTED"), a, FALSE, "LOOP_DETECTED", world)
        \/ \E success, code, w : Observe(t, a, success, code, w)
    BY <2>1 DEF Propose
  <2> HIDE DEF t
  <2>6. /\ IsTask(End(t, "failed", "LOOP_DETECTED"))
        /\ End(t, "failed", "LOOP_DETECTED").status = "failed"
        /\ End(t, "failed", "LOOP_DETECTED").steps = tasks[asking].steps
    BY <2>4, Ended
  <2>7. CASE Observe(End(t, "failed", "LOOP_DETECTED"), a, FALSE, "LOOP_DETECTED", world)
    BY <2>2, <2>6, <2>7, Observed DEF Statuses
  <2>8. CASE \E success, code, w : Observe(t, a, success, code, w)
    BY <2>2, <2>3, <2>4, <2>8, Observed DEF IsTerminal
  <2> QED
    BY <2>5, <2>7, <2>8
<1>9. CASE Crash
  <2>1. PICK a \in Proposals :
          tasks' = IF FingerprintFails(a) THEN tasks
                   ELSE [tasks EXCEPT ![asking].counts = Counted(@, Fingerprint(a, world))]
    BY <1>9 DEF Crash
  <2>2. asking \in 1..current
    BY <1>1, <1>9 DEF Crash
  <2>3. asking' = 0 /\ attempt' = 0 /\ scenario' = scenario /\ current' = current
    BY <1>9 DEF Crash
  <2>4. CASE tasks' = tasks
    BY <1>1, <2>3, <2>4, Kept DEF Bounds
  <2> DEFINE t == [tasks[asking] EXCEPT
                     !.counts = Counted(tasks[asking].counts, Fingerprint(a, world))]
  <2>5. CASE tasks' = [tasks EXCEPT ![asking] = t]
    <3>1. /\ IsTask(tasks[asking]) /\ tasks[asking].status \in Statuses
          /\ tasks[asking].steps \in 0..Spec(asking).maxSteps
          /\ tasks[asking].status = "active" => tasks[asking].steps < Spec(asking).maxSteps
      BY <1>1, <2>2 DEF IInv, TypeOK
    <3>2. IsTask(t) /\ t.status = tasks[asking].status /\ t.steps = tasks[asking].steps
      BY <3>1, Recounted
    <3> HIDE DEF t
    <3> QED
      BY <2>2, <2>3, <2>5, <3>1, <3>2, Replaced DEF IsTerminal
  <2>6. tasks' = tasks \/ tasks' = [tasks EXCEPT ![asking] = t]
    BY <2>1
  <2> QED
    BY <2>4, <2>5, <2>6
<1>10. CASE UNCHANGED episodeVars
  BY <1>10, Kept DEF episodeVars, IInv, TypeOK
<1> QED
  BY <1>2, <1>3, <1>4, <1>5, <1>6, <1>7, <1>8, <1>9, <1>10 DEF Next

\* The invariant holds of every episode.
LEMMA Invariance == SpecEpisode => []IInv
<1>1. Init => IInv
  BY BoundsHold, InitIInv
<1>2. IInv /\ [Next]_episodeVars => IInv'
  BY BoundsHold, NextIInv
<1> QED
  BY <1>1, <1>2, PTL DEF SpecEpisode

\* In every episode the provider is asked at most MaxRetries times again, an
\* active task has a step left and none takes more than its command allows, and
\* one task at most is active, the last submitted.
THEOREM EpisodeTypeCorrect == SpecEpisode => []TypeOK
<1>1. IInv => TypeOK
  BY DEF IInv
<1> QED
  BY <1>1, Invariance, PTL

\* A step that is not the end of a tick leaves every task that is over over,
\* with its status, and makes no task succeed.
LEMMA OutsideTicks ==
  ASSUME IInv, \/ SubmitCommand \/ CancelTask \/ SetObject \/ BeginTick \/ RetryRequest \/ Crash
               \/ UNCHANGED episodeVars
  PROVE  /\ asking # 0 => world' = world
         /\ \A i \in 1..current :
              /\ tasks'[i].status = tasks[i].status \/ tasks'[i].status = "cancelled"
              /\ IsTerminal(i) => /\ tasks'[i].status = tasks[i].status
                                  /\ i = asking \/ tasks'[i] = tasks[i]
<1>1. /\ \A i \in 1..current : i \in DOMAIN scenario.commands
      /\ asking \in 0..current /\ current \in Nat
  BY DEF IInv, TypeOK
<1>2. CASE \/ SubmitCommand \/ SetObject \/ BeginTick \/ RetryRequest \/ UNCHANGED episodeVars
  <2>1. tasks' = tasks /\ (asking # 0 => world' = world)
    BY <1>2 DEF SubmitCommand, SetObject, Idle, BeginTick, RetryRequest, episodeVars
  <2> QED
    BY <2>1
<1>3. CASE CancelTask
  <2>1. CASE tasks' = tasks
    BY <1>3, <2>1 DEF CancelTask
  <2>2. CASE tasks' # tasks
    <3> DEFINE u == End(tasks[current], "cancelled", "TASK_CANCELLED")
    <3>1. /\ ~IsTerminal(current) /\ tasks' = [tasks EXCEPT ![current] = u] /\ world' = world
      BY <1>3, <2>2 DEF CancelTask, End
    <3>2. current \in 1..current /\ current \in DOMAIN scenario.commands
      BY <1>1, <1>3 DEF CancelTask
    <3>3. u.status = "cancelled"
      BY <3>2, Ended DEF IInv
    <3> HIDE DEF u
    <3>4. tasks' = [i \in DOMAIN scenario.commands |-> IF i = current THEN u ELSE tasks[i]]
      BY <3>1, <3>2 DEF IInv
    <3> QED
      BY <1>1, <3>1, <3>3, <3>4 DEF IsTerminal
  <2> QED
    BY <2>1, <2>2
<1>4. CASE Crash
  <2>1. PICK a \in Proposals :
          tasks' = IF FingerprintFails(a) THEN tasks
                   ELSE [tasks EXCEPT ![asking].counts = Counted(@, Fingerprint(a, world))]
    BY <1>4 DEF Crash
  <2>2. asking \in DOMAIN scenario.commands /\ world' = world
    BY <1>1, <1>4 DEF Crash
  <2> DEFINE t == [tasks[asking] EXCEPT
                     !.counts = Counted(tasks[asking].counts, Fingerprint(a, world))]
  <2>3. t.status = tasks[asking].status
    BY <2>2, Recounted DEF IInv
  <2>4. tasks' = tasks \/ tasks' = [tasks EXCEPT ![asking] = t]
    BY <2>1
  <2> HIDE DEF t
  <2>5. tasks' = tasks
        \/ tasks' = [i \in DOMAIN scenario.commands |-> IF i = asking THEN t ELSE tasks[i]]
    BY <2>2, <2>4 DEF IInv
  <2> QED
    BY <1>1, <2>2, <2>3, <2>5
<1> QED
  BY <1>2, <1>3, <1>4

\* The tick ends with task t and world w, which is the world it began in when
\* the task was over.
EndsTick(t, a, success, code, w) ==
  /\ Observe(t, a, success, code, w)
  /\ tasks' = [i \in DOMAIN scenario.commands |->
                 IF i = asking THEN Judge(Step(t), Spec(asking), a, success, w) ELSE tasks[i]]
  /\ IsTask(t) /\ t.status \in {tasks[asking].status, "failed"}
  /\ IsTerminal(asking) => w = world

\* What the end of a tick does: it judges the task asked, which is over when it
\* was over before, and the world is what it was, too, in that case.
LEMMA EndOfTick ==
  ASSUME Bounds, IInv, PolicyFails \/ PolicyAnswers
  PROVE  /\ asking \in 1..current
         /\ \E t, a, success, code, w : EndsTick(t, a, success, code, w)
<1>0. asking # 0
  BY DEF PolicyFails, ProviderFails, TurnFails, PolicyAnswers
<1>1. asking \in 1..current /\ asking \in DOMAIN scenario.commands
  BY <1>0 DEF IInv, TypeOK
<1>2. IsTask(tasks[asking])
  BY <1>1 DEF IInv
<1>3. ASSUME NEW t, NEW a, NEW success, NEW code, NEW w, Observe(t, a, success, code, w),
             IsTask(t), t.status \in {tasks[asking].status, "failed"},
             IsTerminal(asking) => w = world
      PROVE  EndsTick(t, a, success, code, w)
  <2> DEFINE u == Judge(Step(t), Spec(asking), a, success, w)
  <2>1. tasks' = [tasks EXCEPT ![asking] = u]
    BY <1>3 DEF Observe
  <2> HIDE DEF u
  <2>2. tasks' = [i \in DOMAIN scenario.commands |-> IF i = asking THEN u ELSE tasks[i]]
    BY <1>1, <2>1 DEF IInv
  <2> QED
    BY <1>3, <2>2 DEF u, EndsTick
<1>4. CASE PolicyFails
  <2>1. PICK code \in {"provider_error", "policy_output_error"} :
          Observe(IF code \in scenario.terminal THEN End(tasks[asking], "failed", code) ELSE tasks[asking],
                  Nothing, FALSE, code, world)
    BY <1>4 DEF PolicyFails, ProviderFails, TurnFails, FailWith
  <2> DEFINE t == IF code \in scenario.terminal THEN End(tasks[asking], "failed", code) ELSE tasks[asking]
  <2>2. /\ IsTask(t) /\ t.status \in {tasks[asking].status, "failed"} /\ t.steps = tasks[asking].steps
    BY <1>2, Ended
  <2>3. Observe(t, Nothing, FALSE, code, world)
    BY <2>1
  <2> HIDE DEF t
  <2>4. EndsTick(t, Nothing, FALSE, code, world)
    BY <1>3, <2>2, <2>3
  <2> QED
    BY <1>1, <2>4
<1>5. CASE PolicyAnswers
  <2>1. PICK a \in Proposals : Propose(a)
    BY <1>5 DEF PolicyAnswers
  <2> DEFINE t == [tasks[asking] EXCEPT
                     !.counts = Counted(tasks[asking].counts, Fingerprint(a, world))]
             e == End(t, "failed", "LOOP_DETECTED")
             result == Execute(a, world, Spec(asking).goal)
  <2>2. IsTask(t) /\ t.status = tasks[asking].status /\ t.steps = tasks[asking].steps
    BY <1>2, Recounted
  <2>3. \/ Observe(e, a, FALSE, "LOOP_DETECTED", world)
        \/ \E code : Observe(t, a, FALSE, code, world)
        \/ t.status = "active" /\ Observe(t, a, result.success, result.code, result.world)
    BY <2>1 DEF Propose
  <2> HIDE DEF t, result
  <2>4. IsTask(e) /\ e.status = "failed" /\ e.steps = tasks[asking].steps
    BY <2>2, Ended
  <2> HIDE DEF e
  <2>5. CASE Observe(e, a, FALSE, "LOOP_DETECTED", world)
    <3>1. EndsTick(e, a, FALSE, "LOOP_DETECTED", world)
      BY <1>3, <2>4, <2>5
    <3> QED
      BY <1>1, <3>1
  <2>6. CASE \E code : Observe(t, a, FALSE, code, world)
    <3>1. PICK code : Observe(t, a, FALSE, code, world)
      BY <2>6
    <3>2. EndsTick(t, a, FALSE, code, world)
      BY <1>3, <2>2, <3>1
    <3> QED
      BY <1>1, <3>2
  <2>7. CASE t.status = "active" /\ Observe(t, a, result.success, result.code, result.world)
    <3>1. ~IsTerminal(asking)
      BY <2>2, <2>7 DEF IsTerminal
    <3>2. EndsTick(t, a, result.success, result.code, result.world)
      BY <1>3, <2>2, <2>7, <3>1
    <3> QED
      BY <1>1, <3>2
  <2> QED
    BY <2>3, <2>5, <2>6, <2>7
<1> QED
  BY <1>4, <1>5

\* Cancelling a task while the policy is asked keeps its answer from the world:
\* in every episode the world stays as it is, the task does not succeed, and no
\* other task that is over changes at all.
THEOREM CancellationIsFinal == SpecEpisode => CancelledNeverActs
<1> DEFINE Safe ==
      /\ (asking # 0 /\ IsTerminal(asking)) => UNCHANGED world
      /\ \A i \in 1..current :
           IsTerminal(i) => /\ tasks'[i].status \in {tasks[i].status, "failed"}
                            /\ i = asking \/ tasks'[i] = tasks[i]
<1>1. ASSUME Bounds, IInv, Next \/ UNCHANGED episodeVars
      PROVE  Safe
  <2>1. CASE PolicyFails \/ PolicyAnswers
    <3>1. PICK t, a, success, code, w :
            EndsTick(t, a, success, code, w)
      BY <1>1, <2>1, EndOfTick
    <3>2. world' = w
      BY <3>1 DEF EndsTick, Observe
    <3>3. Step(t).status = t.status
      BY <3>1, Stepped DEF EndsTick
    <3>4. IsTerminal(asking) => Judge(Step(t), Spec(asking), a, success, w) = Step(t)
      BY <3>1, <3>3 DEF EndsTick, Judge, IsTerminal
    <3>5. ASSUME NEW i \in 1..current, IsTerminal(i)
          PROVE  /\ tasks'[i].status \in {tasks[i].status, "failed"}
                 /\ i = asking \/ tasks'[i] = tasks[i]
      <4>1. i \in DOMAIN scenario.commands
        BY <1>1 DEF IInv, TypeOK
      <4>2. CASE i = asking
        BY <3>1, <3>3, <3>4, <3>5, <4>1, <4>2 DEF EndsTick
      <4>3. CASE i # asking
        BY <3>1, <4>1, <4>3 DEF EndsTick
      <4> QED
        BY <4>2, <4>3
    <3> QED
      BY <3>1, <3>2, <3>5 DEF EndsTick
  <2>2. CASE ~(PolicyFails \/ PolicyAnswers)
    BY <1>1, <2>2, OutsideTicks DEF Next
  <2> QED
    BY <2>1, <2>2
<1>2. IInv /\ [Next]_episodeVars => [Safe]_episodeVars
  BY BoundsHold, <1>1
<1> QED
  BY <1>2, Invariance, PTL DEF SpecEpisode, CancelledNeverActs

\* In every episode a task succeeds in the end of its own tick only, with a
\* report delivered there that meets its goal, the NPC where the player is and
\* the door closed.
THEOREM SuccessNeedsReport == SpecEpisode => SuccessIsEarned
<1> DEFINE Earned ==
      \A i \in 1..current :
        tasks'[i].status = "succeeded" /\ tasks[i].status # "succeeded" =>
          /\ i = asking /\ observed'.success
          /\ world'.at = PlayerPlace /\ world'.door = "closed"
          /\ GoalMatched(world'.reports[Len(world'.reports)], world', Spec(i).goal)
<1>1. ASSUME Bounds, IInv, Next \/ UNCHANGED episodeVars
      PROVE  Earned
  <2>1. CASE PolicyFails \/ PolicyAnswers
    <3>1. PICK t, a, success, code, w :
            EndsTick(t, a, success, code, w)
      BY <1>1, <2>1, EndOfTick
    <3>2. world' = w /\ observed'.success = success
      BY <3>1 DEF EndsTick, Observe
    <3>3. Step(t).status = t.status
      BY <3>1, Stepped DEF EndsTick
    <3>4. \A status, reason : End(Step(t), status, reason).status = status
      BY <3>1, Stepped, Ended DEF EndsTick
    <3>5. ASSUME NEW i \in 1..current, tasks'[i].status = "succeeded", tasks[i].status # "succeeded"
          PROVE  /\ i = asking /\ success
                 /\ CompletionMet(w.reports[Len(w.reports)], w, Spec(i).goal)
      <4>1. i \in DOMAIN scenario.commands
        BY <1>1 DEF IInv, TypeOK
      <4>2. i = asking /\ Judge(Step(t), Spec(asking), a, success, w).status = "succeeded"
        BY <3>1, <3>5, <4>1 DEF EndsTick
      <4>3. t.status # "succeeded"
        BY <3>1, <3>5, <4>2 DEF EndsTick
      <4> QED
        BY <3>3, <3>4, <4>2, <4>3 DEF Judge
    <3> QED
      BY <3>2, <3>5 DEF CompletionMet, SafeReportPosition
  <2>2. CASE ~(PolicyFails \/ PolicyAnswers)
    BY <1>1, <2>2, OutsideTicks DEF Next
  <2> QED
    BY <2>1, <2>2
<1>2. IInv /\ [Next]_episodeVars => [Earned]_episodeVars
  BY BoundsHold, <1>1
<1> QED
  BY <1>2, Invariance, PTL DEF SpecEpisode, SuccessIsEarned

-----------------------------------------------------------------------------
(* What a tick does to the world.                                          *)

\* What the theorems about failures and reports need of a world.
Sound(w) ==
  /\ IsWorld(w) /\ NamesAreClaims(w)
  /\ \E S : w.reports \in Seq(S)

\* What ReportsAreTrue says of a fact reported in world w.
TrueIn(fact, w) ==
  CASE fact.predicate = "claimed_name" ->
         fact.certainty = "CLAIMED" /\ fact.value \in NamesKnown(w)
    [] fact.predicate = "identity_status" ->
         fact.value = (IF NamesKnown(w) = {} THEN "UNKNOWN" ELSE "CONFLICTED")
         /\ Cardinality(NamesKnown(w)) # 1
    [] OTHER -> TRUE

\* What the NPC and the player can tell of a world, all but the queues.
Told(w) ==
  <<w.at, w.door, w.locked, w.reachable, w.time, w.heard, w.facts, w.memories, w.reports,
    w.residue, w.claimedName>>

\* An action that leads from world w to v, with this success, does no more
\* than it may: v is sound, a failure moves the queues alone, and what is
\* newly reported is true.
MayLeadTo(w, success, v) ==
  /\ Sound(v)
  /\ ~success => Told(v) = Told(w)
  /\ v.reports # w.reports => \A fact \in v.reports[Len(v.reports)] : TrueIn(fact, w)

\* What is known and reported is the same in both worlds.
SameKnowledge(v, w) ==
  IsWorld(v) /\ v.facts = w.facts /\ v.memories = w.memories /\ v.reports = w.reports

\* Changing another field of a world leaves what is known and reported.
LEMMA FieldsChanged ==
  ASSUME NEW w, IsWorld(w), NEW x
  PROVE  /\ SameKnowledge([w EXCEPT !.at = x], w) /\ SameKnowledge([w EXCEPT !.door = x], w)
         /\ SameKnowledge([w EXCEPT !.locked = x], w) /\ SameKnowledge([w EXCEPT !.reachable = x], w)
         /\ SameKnowledge([w EXCEPT !.time = x], w) /\ SameKnowledge([w EXCEPT !.responses = x], w)
         /\ Told([w EXCEPT !.responses = x]) = Told(w)
         /\ SameKnowledge([w EXCEPT !.heard = x], w)
<1>1. SameKnowledge([w EXCEPT !.at = x], w)
  BY DEF IsWorld, SameKnowledge
<1>2. SameKnowledge([w EXCEPT !.door = x], w)
  BY DEF IsWorld, SameKnowledge
<1>3. SameKnowledge([w EXCEPT !.locked = x], w)
  BY DEF IsWorld, SameKnowledge
<1>4. SameKnowledge([w EXCEPT !.reachable = x], w)
  BY DEF IsWorld, SameKnowledge
<1>5. SameKnowledge([w EXCEPT !.time = x], w)
  BY DEF IsWorld, SameKnowledge
<1>6. SameKnowledge([w EXCEPT !.responses = x], w)
  BY DEF IsWorld, SameKnowledge
<1>7. Told([w EXCEPT !.responses = x]) = Told(w)
  BY DEF IsWorld, Told
<1>8. SameKnowledge([w EXCEPT !.heard = x], w)
  BY DEF IsWorld, SameKnowledge
<1> QED
  BY <1>1, <1>2, <1>3, <1>4, <1>5, <1>6, <1>7, <1>8

\* A change that leaves what is known and reported keeps a world sound, and is
\* one that an action may make.
LEMMA StillSound ==
  ASSUME NEW w, Sound(w), NEW v, SameKnowledge(v, w)
  PROVE  /\ Sound(v) /\ MayLeadTo(w, TRUE, v)
         /\ Told(v) = Told(w) => MayLeadTo(w, FALSE, v)
BY DEF Sound, SameKnowledge, NamesAreClaims, Accessible, MayLeadTo

\* A fact that may be learnt: no name, or a name as a claim.
Learnable(fact) ==
  /\ fact.predicate # "identity_status"
  /\ fact.predicate = "claimed_name" => fact.certainty = "CLAIMED"

\* Learning such a fact is what an action may do.
LEMMA Learns ==
  ASSUME NEW w, Sound(w), NEW fact, Learnable(fact)
  PROVE  MayLeadTo(w, TRUE, Learn(fact, w))
<1> DEFINE y == IF AlreadyRemembered(fact, w) THEN w.memories ELSE w.memories \cup {MemoryOf(fact)}
           x == w.facts \cup {fact}
           v == Learn(fact, w)
<1>1. v = [w EXCEPT !.facts = x, !.memories = y]
  BY DEF Learn
<1>2. \A m \in y : m \in w.memories \/ m = MemoryOf(fact)
  OBVIOUS
<1>3. MemoryOf(fact).predicate = fact.predicate
      /\ (fact.certainty = "CLAIMED" => MemoryOf(fact).kind = "claim")
  BY DEF MemoryOf
<1> HIDE DEF x, y, v
<1>4. IsWorld(v) /\ v.facts = x /\ v.memories = y /\ v.reports = w.reports
  <2> DEFINE u == [w EXCEPT !.facts = x]
  <2>1. IsWorld(u) /\ u.facts = x /\ u.reports = w.reports
    BY DEF Sound, IsWorld
  <2>2. v = [u EXCEPT !.memories = y]
    BY <1>1
  <2> HIDE DEF u
  <2> QED
    BY <2>1, <2>2 DEF IsWorld
<1>5. NamesAreClaims(v)
  BY <1>2, <1>3, <1>4 DEF NamesAreClaims, Learnable, Accessible, Sound, x
<1> QED
  BY <1>4, <1>5 DEF Sound, MayLeadTo, v

\* Hearing the visitor is what an action may do.
LEMMA Hears ==
  ASSUME NEW w, Sound(w)
  PROVE  MayLeadTo(w, TRUE, [w EXCEPT !.heard = TRUE, !.facts = @ \cup {Heard}])
<1> DEFINE v == [w EXCEPT !.heard = TRUE, !.facts = @ \cup {Heard}]
<1>1. IsWorld(v) /\ v.facts = w.facts \cup {Heard} /\ v.memories = w.memories /\ v.reports = w.reports
  <2> DEFINE u == [w EXCEPT !.heard = TRUE]
  <2>1. SameKnowledge(u, w)
    BY FieldsChanged DEF Sound
  <2>2. v = [u EXCEPT !.facts = u.facts \cup {Heard}]
    OBVIOUS
  <2> HIDE DEF u, v
  <2> QED
    BY <2>1, <2>2 DEF SameKnowledge, IsWorld
<1>2. Learnable(Heard)
  BY DEF Learnable, Heard, Fact
<1> HIDE DEF v
<1>3. NamesAreClaims(v)
  BY <1>1, <1>2 DEF NamesAreClaims, Learnable, Accessible, Sound
<1> QED
  BY <1>1, <1>3 DEF Sound, MayLeadTo, v

\* What the catalogue offers is true.
LEMMA CatalogIsTrue ==
  ASSUME NEW w, Sound(w), NEW goal, NEW entry \in Catalog(w, goal)
  PROVE  TrueIn(entry.fact, w)
<1> SUFFICES ASSUME NEW fact, fact = entry.fact
             PROVE  TrueIn(fact, w)
  OBVIOUS
<1>1. \A kind, f : Entry(kind, f).fact = f
  BY DEF Entry
<1>2. \/ fact \in w.facts
      \/ \E m \in Accessible(w) : fact = Remembered(m)
      \/ fact \in IdentityStatus(w) \cup Emotions(w) \cup Refusals(goal)
  BY <1>1 DEF Catalog
<1>3. CASE fact \in w.facts
  BY <1>3 DEF Sound, NamesAreClaims, TrueIn, NamesKnown
<1>4. ASSUME NEW m \in Accessible(w), fact = Remembered(m)
      PROVE  TrueIn(fact, w)
  <2>1. /\ fact.predicate = m.predicate /\ fact.value = m.value
        /\ m.kind = "claim" => fact.certainty = "CLAIMED"
    BY <1>4 DEF Remembered, Fact
  <2> QED
    BY <2>1 DEF Sound, NamesAreClaims, TrueIn, NamesKnown
<1>5. CASE fact \in IdentityStatus(w)
  <2>1. CASE NamesKnown(w) = {}
    <3>1. fact.predicate = "identity_status" /\ fact.value = "UNKNOWN"
      BY <1>5, <2>1 DEF IdentityStatus, Fact
    <3> QED
      BY <2>1, <3>1, FS_EmptySet DEF TrueIn
  <2>2. CASE NamesKnown(w) # {}
    <3>1. fact.predicate = "identity_status" /\ fact.value = "CONFLICTED" /\ Cardinality(NamesKnown(w)) # 1
      BY <1>5, <2>2 DEF IdentityStatus, Fact
    <3> QED
      BY <2>2, <3>1 DEF TrueIn
  <2> QED
    BY <2>1, <2>2
<1>6. CASE fact \in Emotions(w) \cup Refusals(goal)
  <2>1. fact.predicate \in {"emotion", "refusal"}
    BY <1>6 DEF Emotions, Refusals, Fact
  <2> QED
    BY <2>1 DEF TrueIn
<1> QED
  BY <1>2, <1>3, <1>4, <1>5, <1>6

\* What the check of a report that lists its facts lets pass is true.
LEMMA GroundedIsTrue ==
  ASSUME NEW w, Sound(w), NEW fact, FactIsGrounded(fact, w)
  PROVE  TrueIn(fact, w)
<1>1. \A predicate, value : HasAccessibleFact(w, predicate, value) =>
        predicate # "identity_status" /\ (predicate = "claimed_name" => value \in NamesKnown(w))
  BY DEF Sound, NamesAreClaims, HasAccessibleFact, NamesKnown
<1>2. CASE fact.predicate = "claimed_name"
  BY <1>1, <1>2 DEF FactIsGrounded, TrueIn
<1>3. CASE fact.predicate = "identity_status"
  <2>1. CASE fact.value = "UNKNOWN"
    <3>1. NamesKnown(w) = {}
      BY <1>3, <2>1 DEF FactIsGrounded
    <3> QED
      BY <1>3, <2>1, <3>1, FS_EmptySet DEF TrueIn
  <2>2. CASE fact.value = "CONFLICTED"
    <3>1. Cardinality(NamesKnown(w)) >= 2
      BY <1>3, <2>2 DEF FactIsGrounded
    <3>2. NamesKnown(w) # {} /\ Cardinality(NamesKnown(w)) # 1
      BY <3>1, FS_EmptySet
    <3> QED
      BY <1>3, <2>2, <3>2 DEF TrueIn
  <2>3. CASE fact.value \notin {"UNKNOWN", "CONFLICTED"}
    <3>1. HasAccessibleFact(w, fact.predicate, fact.value)
      BY <1>3, <2>3 DEF FactIsGrounded
    <3> QED
      BY <1>1, <1>3, <3>1
  <2> QED
    BY <2>1, <2>2, <2>3
<1>4. CASE fact.predicate \notin {"claimed_name", "identity_status"}
  BY <1>4 DEF TrueIn
<1> QED
  BY <1>2, <1>3, <1>4

\* Appending a true report is what an action may do.
LEMMA Reports ==
  ASSUME NEW w, Sound(w), NEW stated, \A fact \in stated : TrueIn(fact, w)
  PROVE  MayLeadTo(w, TRUE, [w EXCEPT !.reports = Append(@, stated)])
<1> DEFINE v == [w EXCEPT !.reports = Append(@, stated)]
<1>1. /\ IsWorld(v) /\ v.facts = w.facts /\ v.memories = w.memories
      /\ v.reports = Append(w.reports, stated)
  BY DEF Sound, IsWorld
<1>2. PICK S : w.reports \in Seq(S)
  BY DEF Sound
<1>3. w.reports \in Seq(S \cup {stated})
  BY <1>2, SeqMonotonic
<1>4. /\ Append(w.reports, stated) \in Seq(S \cup {stated})
      /\ Append(w.reports, stated)[Len(Append(w.reports, stated))] = stated
  BY <1>3
<1> HIDE DEF v
<1>5. NamesAreClaims(v)
  BY <1>1 DEF NamesAreClaims, Accessible, Sound
<1> QED
  BY <1>1, <1>4, <1>5 DEF Sound, MayLeadTo, v

\* Whatever the handler of an action does, it is what an action may do.
LEMMA Handled ==
  ASSUME NEW w, Sound(w), NEW a, NEW goal
  PROVE  MayLeadTo(w, Handle(a, w, goal).success, Handle(a, w, goal).world)
<1> DEFINE Good(r) == MayLeadTo(w, r.success, r.world)
<1>1. \A success, code, v : MayLeadTo(w, success, v) => Good(Result(success, code, v))
  BY DEF Result
<1>2. /\ \A x : MayLeadTo(w, TRUE, [w EXCEPT !.at = x]) /\ MayLeadTo(w, TRUE, [w EXCEPT !.door = x])
      /\ \A x : MayLeadTo(w, TRUE, [w EXCEPT !.time = x])
      /\ MayLeadTo(w, TRUE, w) /\ MayLeadTo(w, FALSE, w)
  <2>1. /\ \A x : SameKnowledge([w EXCEPT !.at = x], w) /\ SameKnowledge([w EXCEPT !.door = x], w)
        /\ \A x : SameKnowledge([w EXCEPT !.time = x], w)
        /\ SameKnowledge(w, w)
    BY FieldsChanged DEF Sound, SameKnowledge
  <2> QED
    BY <2>1, StillSound
<1> HIDE DEF Good
<1>3. Good(MoveTo(a, w))
  BY <1>1, <1>2 DEF MoveTo
<1>4. Good(ListenAt(a, w))
  BY <1>1, <1>2, Hears DEF ListenAt
<1>5. Good(AskThrough(a, w))
  <2>1. CASE w.at # PlaceOf(a.barrier) \/ a.target # "visitor"
    BY <1>1, <1>2, <2>1 DEF AskThrough
  <2>2. CASE w.at = PlaceOf(a.barrier) /\ a.target = "visitor"
    <3>1. CASE a.topic = "identity"
      <4>1. SameKnowledge(AfterAnswer(w), w) /\ Told(AfterAnswer(w)) = Told(w)
        BY FieldsChanged DEF AfterAnswer, Sound
      <4>2. Sound(AfterAnswer(w)) /\ MayLeadTo(w, FALSE, AfterAnswer(w))
        BY <4>1, StillSound
      <4>3. ASSUME NEW name
            PROVE  MayLeadTo(w, TRUE, Learn(Claimed("claimed_name", name), AfterAnswer(w)))
        <5> DEFINE fact == Claimed("claimed_name", name)
        <5>1. Learnable(fact)
          BY DEF Learnable, Claimed, Fact
        <5> HIDE DEF fact
        <5>2. MayLeadTo(AfterAnswer(w), TRUE, Learn(fact, AfterAnswer(w)))
          BY <4>2, <5>1, Learns
        <5>3. \A f : TrueIn(f, AfterAnswer(w)) = TrueIn(f, w)
          BY <4>1 DEF SameKnowledge, TrueIn, NamesKnown, Accessible
        <5>4. MayLeadTo(w, TRUE, Learn(fact, AfterAnswer(w)))
          BY <4>1, <5>2, <5>3 DEF MayLeadTo, SameKnowledge
        <5> QED
          BY <5>4 DEF fact
      <4> QED
        BY <1>1, <2>2, <3>1, <4>2, <4>3 DEF AskThrough
    <3>2. CASE a.topic # "identity"
      <4>1. /\ \A value : Learnable(Claimed("visit_purpose", value)) /\ Learnable(DoorIs(value))
            /\ \A value : Learnable(Claimed("visitor_request", value))
        BY DEF Learnable, Claimed, DoorIs, Fact
      <4>2. /\ MayLeadTo(w, TRUE, Learn(Claimed("visit_purpose", "speak_with_player"), w))
            /\ MayLeadTo(w, TRUE, Learn(Claimed("visitor_request", "notify_player"), w))
            /\ MayLeadTo(w, TRUE, Learn(DoorIs(w.door), w))
        BY <4>1, Learns
      <4> QED
        BY <1>1, <1>2, <2>2, <3>2, <4>2 DEF AskThrough
    <3> QED
      BY <3>1, <3>2
  <2> QED
    BY <2>1, <2>2
<1>6. Good(Report(a, w, goal))
  <2> DEFINE stated == IF a.ids # {} THEN Resolve(a.ids, w, goal) ELSE a.facts
             unfit == IF a.ids # {} THEN Missing(a.ids, w, goal) # {}
                      ELSE \E fact \in a.facts : ~FactIsGrounded(fact, w)
  <2>1. CASE a.target = "player" /\ w.at # PlayerPlace
    BY <1>1, <1>2, <2>1 DEF Report
  <2>2. CASE ~(a.target = "player" /\ w.at # PlayerPlace) /\ unfit
    BY <1>1, <1>2, <2>2 DEF Report
  <2>3. CASE ~(a.target = "player" /\ w.at # PlayerPlace) /\ ~unfit
    <3>1. ASSUME NEW fact \in stated
          PROVE  TrueIn(fact, w)
      <4>1. CASE a.ids # {}
        <5>1. \E entry \in Catalog(w, goal) : fact = entry.fact
          BY <3>1, <4>1 DEF Resolve
        <5> QED
          BY <5>1, CatalogIsTrue
      <4>2. CASE a.ids = {}
        BY <2>3, <3>1, <4>2, GroundedIsTrue
      <4> QED
        BY <4>1, <4>2
    <3>2. MayLeadTo(w, TRUE, [w EXCEPT !.reports = Append(@, stated)])
      BY <3>1, Reports
    <3>3. Report(a, w, goal) = Result(TRUE, "REPORT_RECORDED", [w EXCEPT !.reports = Append(@, stated)])
      BY <2>3 DEF Report
    <3> QED
      BY <1>1, <3>2, <3>3
  <2> QED
    BY <2>1, <2>2, <2>3
<1>7. Good(Handle(a, w, goal))
  BY <1>1, <1>2, <1>3, <1>4, <1>5, <1>6 DEF Handle
<1> QED
  BY <1>7 DEF Good

\* Neither does an action whose result is forced do more.
LEMMA Executed ==
  ASSUME NEW w, Sound(w), NEW a, NEW goal
  PROVE  MayLeadTo(w, Execute(a, w, goal).success, Execute(a, w, goal).world)
<1>1. CASE a.name \in DOMAIN w.forced /\ w.forced[a.name] # <<>>
  <2> DEFINE code == Head(w.forced[a.name])
             rest == [w EXCEPT !.forced[a.name] = Tail(@)]
  <2>1. SameKnowledge(rest, w) /\ Told(rest) = Told(w)
    <3> DEFINE queues == [w.forced EXCEPT ![a.name] = Tail(@)]
    <3>1. queues = [tool \in DOMAIN queues |-> queues[tool]]
      BY DEF Sound, IsWorld
    <3>2. rest = [w EXCEPT !.forced = queues]
      OBVIOUS
    <3> HIDE DEF queues, rest
    <3>3. IsWorld(w)
      BY DEF Sound
    <3> QED
      BY <3>1, <3>2, <3>3 DEF SameKnowledge, IsWorld, Told
  <2>2. Execute(a, w, goal) = IF code = "NONE" THEN Handle(a, rest, goal) ELSE Result(FALSE, code, rest)
    BY <1>1 DEF Execute
  <2> HIDE DEF rest, code
  <2>3. Sound(rest) /\ MayLeadTo(w, FALSE, rest)
    BY <2>1, StillSound
  <2>4. MayLeadTo(rest, Handle(a, rest, goal).success, Handle(a, rest, goal).world)
    BY <2>3, Handled
  <2>5. \A f : TrueIn(f, rest) = TrueIn(f, w)
    BY <2>1 DEF SameKnowledge, TrueIn, NamesKnown, Accessible
  <2>6. MayLeadTo(w, Handle(a, rest, goal).success, Handle(a, rest, goal).world)
    BY <2>1, <2>4, <2>5 DEF MayLeadTo, SameKnowledge
  <2>7. CASE code = "NONE"
    BY <2>2, <2>6, <2>7
  <2>8. CASE code # "NONE"
    <3>1. Execute(a, w, goal) = Result(FALSE, code, rest)
      BY <2>2, <2>8
    <3>2. MayLeadTo(w, Result(FALSE, code, rest).success, Result(FALSE, code, rest).world)
      BY <2>3 DEF Result
    <3> QED
      BY <3>1, <3>2
  <2> QED
    BY <2>7, <2>8
<1>2. CASE ~(a.name \in DOMAIN w.forced /\ w.forced[a.name] # <<>>)
  BY <1>2, Handled DEF Execute
<1> QED
  BY <1>1, <1>2

\* A scenario's event changes the door alone.
LEMMA Happens ==
  ASSUME NEW event \in WorldEvents, NEW w, IsWorld(w)
  PROVE  SameKnowledge(Happen(event, w), w)
<1>1. event \in {"opened", "closed", "locked", "unlocked", "blocked", "cleared"}
  BY EventsAreKnown
<1> QED
  BY <1>1, FieldsChanged DEF Happen

\* Every step is an answer that does no more than it may, or leaves what is
\* reported and answers nothing.
LEMMA WorldStep ==
  ASSUME Sound(world), [Next]_episodeVars
  PROVE  \/ MayLeadTo(world, observed'.success, world')
         \/ Sound(world') /\ world'.reports = world.reports /\ ~Answered
<1>1. MayLeadTo(world, FALSE, world) /\ SameKnowledge(world, world)
  BY StillSound DEF Sound, SameKnowledge
<1>2. CASE SubmitCommand \/ CancelTask \/ BeginTick \/ RetryRequest \/ UNCHANGED episodeVars
  <2>1. world' = world /\ (asking = 0 \/ asking' = asking)
    BY <1>2 DEF SubmitCommand, CancelTask, BeginTick, Idle, RetryRequest, episodeVars
  <2> QED
    BY <2>1 DEF Answered
<1>3. CASE SetObject
  <2>1. PICK event \in WorldEvents : world' = Happen(event, world)
    BY <1>3 DEF SetObject
  <2>2. SameKnowledge(world', world) /\ asking = 0
    BY <1>3, <2>1, Happens DEF SetObject, Idle, Sound
  <2> QED
    BY <2>2, StillSound DEF Answered, SameKnowledge
<1>4. ASSUME NEW t, NEW a, NEW success, NEW code, NEW w, Observe(t, a, success, code, w),
             MayLeadTo(world, success, w)
      PROVE  MayLeadTo(world, observed'.success, world')
  <2>1. world' = w /\ observed' = [success |-> success, code |-> code]
    BY <1>4 DEF Observe
  <2>2. observed'.success = success
    BY <2>1
  <2> QED
    BY <1>4, <2>1, <2>2
<1>5. CASE PolicyFails
  <2>1. \E t, code : Observe(t, Nothing, FALSE, code, world)
    BY <1>5 DEF PolicyFails, ProviderFails, TurnFails, FailWith
  <2> QED
    BY <1>1, <1>4, <2>1
<1>6. CASE PolicyAnswers
  <2>1. PICK a \in Proposals : Propose(a)
    BY <1>6 DEF PolicyAnswers
  <2> DEFINE result == Execute(a, world, Spec(asking).goal)
  <2>2. MayLeadTo(world, result.success, result.world)
    BY Executed
  <2>3. \/ \E t, code : Observe(t, a, FALSE, code, world)
        \/ \E t : Observe(t, a, result.success, result.code, result.world)
    BY <2>1 DEF Propose
  <2> HIDE DEF result
  <2>4. CASE \E t, code : Observe(t, a, FALSE, code, world)
    BY <1>1, <1>4, <2>4
  <2>5. CASE \E t : Observe(t, a, result.success, result.code, result.world)
    BY <1>4, <2>2, <2>5
  <2> QED
    BY <2>3, <2>4, <2>5
<1>7. CASE Crash
  BY <1>7 DEF Crash, Answered
<1> QED
  BY <1>2, <1>3, <1>5, <1>6, <1>7 DEF Next

\* The world of every episode is sound.
LEMMA WorldsAreSound == SpecEpisode => []Sound(world)
<1>1. ASSUME NEW s \in Scenarios
      PROVE  Sound(s.world) /\ Sound(RoundTrip(s.world))
  <2>1. IsWorld(s.world) /\ NamesAreClaims(s.world) /\ s.world.reports = <<>>
    BY ScenariosHaveWorlds, ScenariosClaimNames
  <2>2. Sound(s.world)
    BY <2>1, EmptySeq DEF Sound
  <2>3. SameKnowledge(RoundTrip(s.world), s.world)
    BY <2>1, FieldsChanged DEF RoundTrip
  <2> QED
    BY <2>2, <2>3, StillSound
<1>2. Init => Sound(world)
  BY <1>1 DEF Init
<1>3. Sound(world) /\ [Next]_episodeVars => Sound(world')
  BY WorldStep DEF MayLeadTo
<1>4. Sound(world)' <=> Sound(world')
  BY DEF Sound, IsWorld, NamesAreClaims, Accessible
<1> QED
  BY <1>2, <1>3, <1>4, PTL DEF SpecEpisode

\* Worlds that tell the same differ in their queues alone.
LEMMA OnlyQueuesMove ==
  ASSUME NEW w, IsWorld(w), NEW v, IsWorld(v), Told(v) = Told(w)
  PROVE  v = [w EXCEPT !.responses = v.responses, !.forced = v.forced]
<1> DEFINE u == [w EXCEPT !.responses = v.responses]
           z == [u EXCEPT !.forced = v.forced]
<1>1. u = [at |-> w.at, door |-> w.door, locked |-> w.locked, reachable |-> w.reachable,
           time |-> w.time, heard |-> w.heard, facts |-> w.facts, memories |-> w.memories,
           reports |-> w.reports, residue |-> w.residue, responses |-> v.responses,
           claimedName |-> w.claimedName, forced |-> w.forced]
  BY DEF IsWorld
<1> HIDE DEF u
<1>2. z = [at |-> w.at, door |-> w.door, locked |-> w.locked, reachable |-> w.reachable,
           time |-> w.time, heard |-> w.heard, facts |-> w.facts, memories |-> w.memories,
           reports |-> w.reports, residue |-> w.residue, responses |-> v.responses,
           claimedName |-> w.claimedName, forced |-> v.forced]
  BY <1>1
<1> HIDE DEF z
<1>3. v = z
  BY <1>2 DEF Told, IsWorld
<1> QED
  BY <1>3 DEF z, u

\* In every episode a tick that fails leaves the world as the NPC and the
\* player know it: whatever is proposed, forced or left unanswered.
THEOREM FailureIsHarmless == SpecEpisode => FailuresChangeNothing
<1> DEFINE Harmless ==
      Answered /\ ~observed'.success
        => world' = [world EXCEPT !.responses = world'.responses, !.forced = world'.forced]
<1>1. Sound(world) /\ [Next]_episodeVars => [Harmless]_episodeVars
  <2> SUFFICES ASSUME Sound(world), [Next]_episodeVars, Answered, ~observed'.success
               PROVE  world' = [world EXCEPT !.responses = world'.responses, !.forced = world'.forced]
    OBVIOUS
  <2>1. MayLeadTo(world, observed'.success, world')
    BY WorldStep
  <2>2. IsWorld(world) /\ IsWorld(world') /\ Told(world') = Told(world)
    BY <2>1 DEF MayLeadTo, Sound
  <2> QED
    BY <2>2, OnlyQueuesMove
<1> QED
  BY <1>1, WorldsAreSound, PTL DEF SpecEpisode, FailuresChangeNothing

\* In every episode what is newly reported was true when it was: no name but
\* as a claim that was known, and no conflict but between two.
THEOREM ReportsSayWhatIsKnown == SpecEpisode => ReportsAreTrue
<1> DEFINE Honest ==
      world'.reports # world.reports =>
        \A fact \in world'.reports[Len(world'.reports)] :
          CASE fact.predicate = "claimed_name" ->
                 fact.certainty = "CLAIMED" /\ fact.value \in NamesKnown(world)
            [] fact.predicate = "identity_status" ->
                 fact.value = (IF NamesKnown(world) = {} THEN "UNKNOWN" ELSE "CONFLICTED")
                 /\ Cardinality(NamesKnown(world)) # 1
            [] OTHER -> TRUE
<1>1. Sound(world) /\ [Next]_episodeVars => [Honest]_episodeVars
  <2> SUFFICES ASSUME Sound(world), [Next]_episodeVars, world'.reports # world.reports,
                      NEW fact \in world'.reports[Len(world'.reports)]
               PROVE  TrueIn(fact, world)
    BY DEF TrueIn
  <2> QED
    BY WorldStep DEF MayLeadTo
<1> QED
  BY <1>1, WorldsAreSound, PTL DEF SpecEpisode, ReportsAreTrue

-----------------------------------------------------------------------------
(* What the model is shown of the rules.                                   *)

\* The facts of the catalogue are those said, those recalled and those derived.
LEMMA CatalogFacts ==
  ASSUME NEW w, NEW goal
  PROVE  {entry.fact : entry \in Catalog(w, goal)}
         = w.facts \cup {Remembered(m) : m \in Accessible(w)}
           \cup IdentityStatus(w) \cup Emotions(w) \cup Refusals(goal)
<1>1. \A kind, f : Entry(kind, f).fact = f
  BY DEF Entry
<1> QED
  BY <1>1 DEF Catalog

\* The names in the catalogue are the names known.
LEMMA CatalogNames ==
  ASSUME NEW w, NEW goal
  PROVE  {fact.value : fact \in {f \in {entry.fact : entry \in Catalog(w, goal)} :
                                   f.predicate = "claimed_name"}}
         = NamesKnown(w)
<1> DEFINE facts == {entry.fact : entry \in Catalog(w, goal)}
<1>1. facts = w.facts \cup {Remembered(m) : m \in Accessible(w)}
              \cup IdentityStatus(w) \cup Emotions(w) \cup Refusals(goal)
  BY CatalogFacts
<1>2. \A f \in IdentityStatus(w) \cup Emotions(w) \cup Refusals(goal) : f.predicate # "claimed_name"
  BY DEF IdentityStatus, Emotions, Refusals, Fact
<1>3. \A m : Remembered(m).predicate = m.predicate /\ Remembered(m).value = m.value
  BY DEF Remembered, Fact
<1> HIDE DEF facts
<1>4. ASSUME NEW f \in facts, f.predicate = "claimed_name"
      PROVE  f.value \in NamesKnown(w)
  <2>1. f \in w.facts \/ \E m \in Accessible(w) : f = Remembered(m)
    BY <1>1, <1>2, <1>4
  <2> QED
    BY <1>3, <1>4, <2>1 DEF NamesKnown
<1>5. ASSUME NEW name \in NamesKnown(w)
      PROVE  \E f \in facts : f.predicate = "claimed_name" /\ f.value = name
  <2>1. PICK k \in w.facts \cup Accessible(w) : k.predicate = "claimed_name" /\ k.value = name
    BY DEF NamesKnown
  <2>2. CASE k \in w.facts
    BY <1>1, <2>1, <2>2
  <2>3. CASE k \in Accessible(w)
    <3>1. Remembered(k) \in facts
      BY <1>1, <2>3
    <3> QED
      BY <1>3, <2>1, <3>1
  <2> QED
    BY <2>1, <2>2, <2>3
<1> QED
  BY <1>4, <1>5 DEF facts

\* A report of what is accepted meets the goal, when there is anything to accept.
LEMMA AcceptedCompletes ==
  ASSUME NEW w, NEW goal, Accepted(w, goal) # {},
         goal.kind = "report_conflict" => Cardinality(NamesKnown(w)) >= 2,
         goal.kind = "report_fact" => goal.value # Absent
  PROVE  GoalMatched({entry.fact : entry \in Accepted(w, goal)}, w, goal)
<1> DEFINE offered == {entry.fact : entry \in Accepted(w, goal)}
           facts == {entry.fact : entry \in Catalog(w, goal)}
<1>1. PICK e \in Accepted(w, goal) : TRUE
  OBVIOUS
<1>2. e \in Catalog(w, goal) /\ e.fact \in offered
  BY <1>1 DEF Accepted
<1>3. CASE goal.kind = "required_name"
  <2>1. /\ e.fact.predicate = "claimed_name" /\ e.fact.value = goal.value
        /\ e.fact.certainty = "CLAIMED"
    BY <1>1, <1>3 DEF Accepted
  <2>2. goal.value \in NamesKnown(w)
    BY <1>2, <2>1, CatalogNames
  <2>3. HasAccessibleFact(w, "claimed_name", goal.value)
    BY <2>2 DEF NamesKnown, HasAccessibleFact
  <2> HIDE DEF offered
  <2> QED
    BY <1>2, <1>3, <2>1, <2>3 DEF GoalMatched, offered
<1>4. CASE goal.kind \in {"report_predicate", "report_fact"}
  <2>1. /\ e.fact.predicate = goal.predicate
        /\ goal.value = Absent \/ e.fact.value = goal.value
        /\ goal.certainty = Absent \/ e.fact.certainty = goal.certainty
    BY <1>1, <1>4 DEF Accepted
  <2>2. FactMatches(e.fact, goal)
    BY <1>4, <2>1 DEF FactMatches
  <2> QED
    BY <1>2, <1>4, <2>2 DEF GoalMatched
<1>5. CASE goal.kind = "report_conflict"
  <2>1. \A x \in Catalog(w, goal) : x.fact.predicate = "claimed_name" => x \in Accepted(w, goal)
    BY <1>5 DEF Accepted
  <2>2. Accepted(w, goal) \subseteq Catalog(w, goal)
    BY DEF Accepted
  <2>3. {f \in offered : f.predicate = "claimed_name"} = {f \in facts : f.predicate = "claimed_name"}
    BY <2>1, <2>2
  <2>4. {f.value : f \in {x \in offered : x.predicate = "claimed_name"}} = NamesKnown(w)
    BY <2>3, CatalogNames
  <2> HIDE DEF offered, facts
  <2> QED
    BY <1>5, <2>4 DEF GoalMatched, offered
<1>6. CASE goal.kind \notin {"required_name", "report_predicate", "report_fact", "report_conflict"}
  BY <1>1, <1>6 DEF Accepted
<1> QED
  BY <1>3, <1>4, <1>5, <1>6

\* When nothing is accepted, not even a report of the whole catalogue meets the goal.
LEMMA NothingElseCompletes ==
  ASSUME NEW w, NEW goal, Accepted(w, goal) = {},
         goal.kind = "report_predicate" => goal.certainty = Absent
  PROVE  ~GoalMatched({entry.fact : entry \in Catalog(w, goal)}, w, goal)
<1> DEFINE facts == {entry.fact : entry \in Catalog(w, goal)}
<1>1. CASE goal.kind = "required_name"
  <2>1. \A f \in facts : ~(f.predicate = "claimed_name" /\ f.value = goal.value /\ f.certainty = "CLAIMED")
    BY <1>1 DEF Accepted
  <2> HIDE DEF facts
  <2> QED
    BY <1>1, <2>1 DEF GoalMatched, facts
<1>2. CASE goal.kind \in {"report_predicate", "report_fact"}
  <2>1. \A f \in facts : ~(/\ f.predicate = goal.predicate
                           /\ goal.value = Absent \/ f.value = goal.value
                           /\ goal.certainty = Absent \/ f.certainty = goal.certainty)
    BY <1>2 DEF Accepted
  <2> HIDE DEF facts
  <2>2. \A f \in facts : ~FactMatches(f, goal)
    BY <1>2, <2>1 DEF FactMatches
  <2> QED
    BY <1>2, <2>2 DEF GoalMatched, facts
<1>3. CASE goal.kind = "report_conflict"
  <2>1. \A f \in facts : f.predicate # "claimed_name"
    BY <1>3 DEF Accepted
  <2> HIDE DEF facts
  <2>2. {f.value : f \in {x \in facts : x.predicate = "claimed_name"}} = {}
    BY <2>1
  <2> QED
    BY <1>3, <2>2, FS_EmptySet DEF GoalMatched, facts
<1>4. CASE goal.kind \notin {"required_name", "report_predicate", "report_fact", "report_conflict"}
  BY <1>4 DEF GoalMatched
<1> QED
  BY <1>1, <1>2, <1>3, <1>4

\* In every episode the progress shown to the model agrees with the evaluator:
\* what completion_progress calls ready completes the task when it is reported,
\* and when it calls nothing ready no facts of the catalogue do.
THEOREM ProgressIsHonest == SpecEpisode => []ReadyMeansDone
<1>1. ReadyMeansDone
  <2> SUFFICES ASSUME NEW i \in 1..current, NEW goal, goal = Spec(i).goal
               PROVE  IF Ready(world, Spec(i))
                      THEN (/\ goal.kind = "report_conflict" => Cardinality(NamesKnown(world)) >= 2
                            /\ goal.kind = "report_fact" => goal.value # Absent)
                           => CompletionMet({entry.fact : entry \in Accepted(world, goal)}, world, goal)
                      ELSE (goal.kind = "report_predicate" => goal.certainty = Absent)
                           => ~CompletionMet({entry.fact : entry \in Catalog(world, goal)}, world, goal)
    BY DEF ReadyMeansDone
  <2> DEFINE offered == {entry.fact : entry \in Accepted(world, goal)}
             all == {entry.fact : entry \in Catalog(world, goal)}
  <2>1. Ready(world, Spec(i)) <=> Accepted(world, goal) # {} /\ SafeReportPosition(world)
    BY DEF Ready, ReportWouldComplete
  <2>2. Accepted(world, goal) # {}
        /\ (goal.kind = "report_conflict" => Cardinality(NamesKnown(world)) >= 2)
        /\ (goal.kind = "report_fact" => goal.value # Absent)
        => GoalMatched(offered, world, goal)
    BY AcceptedCompletes
  <2>3. Accepted(world, goal) = {} /\ (goal.kind = "report_predicate" => goal.certainty = Absent)
        => ~GoalMatched(all, world, goal)
    BY NothingElseCompletes
  <2>4. \A stated : CompletionMet(stated, world, goal)
                     <=> GoalMatched(stated, world, goal) /\ SafeReportPosition(world)
    BY DEF CompletionMet
  <2> HIDE DEF offered, all
  <2>5. IF Ready(world, Spec(i))
        THEN (/\ goal.kind = "report_conflict" => Cardinality(NamesKnown(world)) >= 2
              /\ goal.kind = "report_fact" => goal.value # Absent)
             => CompletionMet(offered, world, goal)
        ELSE (goal.kind = "report_predicate" => goal.certainty = Absent)
             => ~CompletionMet(all, world, goal)
    BY <2>1, <2>2, <2>3, <2>4
  <2> QED
    BY <2>5 DEF offered, all
<1> QED
  BY <1>1, PTL

-----------------------------------------------------------------------------
(* What the model is shown of the Gateway and the executor.                *)

\* A world without forced results tells what it told with them.
LEMMA UnforcedTells ==
  ASSUME NEW w, IsWorld(w)
  PROVE  LET v == Unforced(w)
         IN /\ v.at = w.at /\ v.door = w.door /\ v.reachable = w.reachable
            /\ v.locked = w.locked /\ v.facts = w.facts /\ v.memories = w.memories
            /\ v.residue = w.residue /\ DOMAIN v.forced = {}
<1> DEFINE none == [tool \in {} |-> <<>>]
           v == [w EXCEPT !.forced = none]
<1>1. DOMAIN none = {}
  OBVIOUS
<1> HIDE DEF none
<1>2. v.forced = none
  BY DEF IsWorld
<1>3. /\ v.at = w.at /\ v.door = w.door /\ v.reachable = w.reachable
      /\ v.locked = w.locked /\ v.facts = w.facts /\ v.memories = w.memories
      /\ v.residue = w.residue
  BY DEF IsWorld
<1>4. Unforced(w) = v
  BY DEF Unforced, none
<1> HIDE DEF v
<1> QED
  BY <1>1, <1>2, <1>3, <1>4

\* What is offered is in the catalogue of the same world without forced results.
LEMMA UnforcedOffers ==
  ASSUME NEW w, IsWorld(w), NEW goal
  PROVE  Missing({entry.id : entry \in Accepted(w, goal)}, Unforced(w), goal) = {}
<1> DEFINE v == Unforced(w)
<1>1. v.facts = w.facts /\ v.memories = w.memories /\ v.residue = w.residue
  BY UnforcedTells
<1> HIDE DEF v
<1>2. Accessible(v) = Accessible(w)
  BY <1>1 DEF Accessible
<1>3. NamesKnown(v) = NamesKnown(w)
  BY <1>1, <1>2 DEF NamesKnown
<1>4. IdentityStatus(v) = IdentityStatus(w) /\ Emotions(v) = Emotions(w)
  BY <1>1, <1>3 DEF IdentityStatus, Emotions
<1>5. Catalog(v, goal) = Catalog(w, goal)
  BY <1>1, <1>2, <1>4 DEF Catalog
<1> QED
  BY <1>5 DEF Missing, Accepted, v

\* Targets that the NPC knows are found.
LEMMA KnownIsFound ==
  /\ \A target \in KnownTargets \cup {Absent, "player", "npc"} : TargetCode(target) = "NONE"
  /\ Absent \notin KnownTargets
<1>1. /\ "door" \in KnownTargets /\ KnownTargets \subseteq Existing
      /\ Existing = {"door", "crane", "npc", "player", "visitor"} /\ Absent = "none"
  BY DoorIsKnown DEF Existing, Objects, Absent
<1> QED
  BY <1>1 DEF TargetCode

\* The checks before the preconditions admit a call of an available tool.
LEMMA CallsAreAdmitted ==
  ASSUME NEW tool \in Tools \ {"wait"}, NEW target \in KnownTargets \cup {"player"},
         NEW w, NEW goal, NEW spec, tool \in spec.allowed, ToolPermission[tool] \in Permissions,
         tool = "report" => Accepted(w, goal) # {},
         NEW a, a = CallOf(tool, target, w, goal)
  PROVE  Admission(a, spec) = "NONE"
<1>1. /\ a.name = tool /\ a.target = target /\ a.valid /\ a.facts = {}
      /\ a.barrier = (IF tool = "ask_through" THEN "door" ELSE Absent)
      /\ a.ids = (IF tool = "report" THEN {entry.id : entry \in Accepted(w, goal)} ELSE {})
  BY DEF CallOf
<1>2. tool = "report" => a.ids # {}
  BY <1>1
<1>3. target # Absent
  BY KnownIsFound DEF Absent
<1>4. ArgumentsFit(a)
  BY <1>1, <1>2, <1>3 DEF ArgumentsFit
<1>5. TargetCode(a.target) = "NONE" /\ TargetCode(a.barrier) = "NONE"
  BY <1>1, KnownIsFound, DoorIsKnown
<1> QED
  BY <1>1, <1>4, <1>5 DEF Admission

\* A call that the affordances offer raises nothing, is refused for nothing but
\* the constraint on the door and fails only if the visitor does not answer.
LEMMA OfferedIsPossible ==
  ASSUME NEW w, IsWorld(w), NEW spec, NEW goal, goal = spec.goal,
         NEW tool \in Tools \ {"wait"}, NEW target \in KnownTargets,
         NEW a, a = CallOf(tool, target, w, goal), NEW v, v = Unforced(w),
         Afforded(tool, target, w, spec)
  PROVE  /\ ~LookupFails(a, spec)
         /\ Refusal(a, w, spec) \in {"NONE", "HARD_CONSTRAINT_VIOLATION"}
         /\ Execute(a, v, goal).success \/ Execute(a, v, goal).code = "NO_RESPONSE"
<1>1. /\ a.name = tool /\ a.target = target
      /\ a.barrier = (IF tool = "ask_through" THEN "door" ELSE Absent)
      /\ a.topic = (IF tool = "ask_through" THEN "identity" ELSE Absent)
      /\ a.ids = (IF tool = "report" THEN {entry.id : entry \in Accepted(w, goal)} ELSE {})
  BY DEF CallOf
<1>2. v.at = w.at /\ v.reachable = w.reachable /\ DOMAIN v.forced = {}
  BY UnforcedTells
<1>3. tool \in {"move_to", "observe", "listen_at", "ask_through", "open", "close", "report"}
  BY DEF Tools, ToolPermission
<1>4. /\ tool \in spec.allowed /\ ToolPermission[tool] \in Permissions
      /\ target \in AffordedTargets(tool, w, goal)
  BY DEF Afforded
<1>5. tool = "report" => Accepted(w, goal) # {} /\ w.at = PlayerPlace
  BY <1>4 DEF AffordedTargets
<1>6. Admission(a, spec) = "NONE"
  BY <1>4, <1>5, CallsAreAdmitted
<1>7. tool = "report" => Missing(a.ids, v, goal) = {} /\ a.ids # {}
  <2> SUFFICES ASSUME tool = "report"
               PROVE  Missing(a.ids, v, goal) = {} /\ a.ids # {}
    OBVIOUS
  <2>1. a.ids = {entry.id : entry \in Accepted(w, goal)}
    BY <1>1
  <2>2. a.ids # {}
    BY <1>5, <2>1
  <2> QED
    BY <2>1, <2>2, UnforcedOffers
<1>8. Execute(a, v, goal) = Handle(a, v, goal)
  BY <1>2 DEF Execute
<1>9. LookedUp(a) \subseteq Objects
  BY <1>1, <1>3, <1>4 DEF LookedUp, AffordedTargets, Objects, Doors
<1>10. Precondition(a, w) = "NONE"
  BY <1>1, <1>3, <1>4, <1>5 DEF Precondition, IsUnfit, IsFar, AffordedTargets, Objects, Doors, PlaceOf
<1>11. Handle(a, v, goal).success \/ Handle(a, v, goal).code = "NO_RESPONSE"
  <2>1. /\ \A code, u : Result(TRUE, code, u).success
        /\ \A success, code, u : Result(success, code, u).code = code
    BY DEF Result
  <2>2. CASE tool = "move_to"
    BY <1>1, <1>2, <1>4, <2>1, <2>2
       DEF Handle, MoveTo, AffordedTargets, Reachable, Objects, Doors
  <2>3. CASE tool = "listen_at"
    BY <1>1, <1>2, <1>4, <2>1, <2>3 DEF Handle, ListenAt, AffordedTargets
  <2>4. CASE tool = "ask_through"
    <3>1. w.at = DoorPlace /\ target = "visitor"
      BY <1>4, <2>4 DEF AffordedTargets
    <3>2. Handle(a, v, goal) = AskThrough(a, v)
      BY <1>1, <2>4 DEF Handle
    <3>3. v.at = PlaceOf(a.barrier) /\ a.target = "visitor" /\ a.topic = "identity"
      BY <1>1, <1>2, <2>4, <3>1 DEF PlaceOf, Doors
    <3>4. \/ AskThrough(a, v) = Result(FALSE, "NO_RESPONSE", AfterAnswer(v))
          \/ \E u : AskThrough(a, v) = Result(TRUE, "ASK_SUCCEEDED", u)
      BY <3>3 DEF AskThrough
    <3>5. CASE AskThrough(a, v) = Result(FALSE, "NO_RESPONSE", AfterAnswer(v))
      BY <3>2, <3>5 DEF Result
    <3>6. CASE \E u : AskThrough(a, v) = Result(TRUE, "ASK_SUCCEEDED", u)
      <4>1. PICK u : AskThrough(a, v) = Result(TRUE, "ASK_SUCCEEDED", u)
        BY <3>6
      <4> QED
        BY <3>2, <4>1 DEF Result
    <3> QED
      BY <3>4, <3>5, <3>6
  <2>5. CASE tool = "report"
    <3>1. Handle(a, v, goal) = Report(a, v, goal)
      BY <1>1, <2>5 DEF Handle
    <3>2. v.at = PlayerPlace /\ a.ids # {} /\ Missing(a.ids, v, goal) = {}
      BY <1>2, <1>5, <1>7, <2>5
    <3>3. PICK u : Report(a, v, goal) = Result(TRUE, "REPORT_RECORDED", u)
      BY <3>2 DEF Report
    <3> QED
      BY <3>1, <3>3 DEF Result
  <2>6. CASE tool \in {"observe", "open", "close"}
    BY <1>1, <2>1, <2>6 DEF Handle
  <2> QED
    BY <1>3, <2>2, <2>3, <2>4, <2>5, <2>6
<1>12. ~LookupFails(a, spec) /\ Refusal(a, w, spec) \in {"NONE", "HARD_CONSTRAINT_VIOLATION"}
  BY <1>6, <1>9, <1>10 DEF LookupFails, Refusal
<1> QED
  BY <1>8, <1>11, <1>12

\* A call that the affordances withhold is refused or fails, or is one of
\* those that may be made though they are not offered.
LEMMA WithheldIsRefused ==
  ASSUME NEW w, IsWorld(w), NEW spec, NEW goal, goal = spec.goal,
         NEW tool \in Tools \ {"wait"}, NEW target \in KnownTargets,
         NEW a, a = CallOf(tool, target, w, goal), NEW v, v = Unforced(w),
         ~Afforded(tool, target, w, spec)
  PROVE  \/ LookupFails(a, spec) \/ Refusal(a, w, spec) # "NONE" \/ ~Execute(a, v, goal).success
         \/ MayUnlisted(tool, target, w)
<1>1. a.name = tool /\ a.target = target /\ (tool = "ask_through" => a.barrier = "door")
  BY DEF CallOf
<1>2. v.at = w.at /\ v.reachable = w.reachable /\ DOMAIN v.forced = {}
  BY UnforcedTells
<1>3. tool \in {"move_to", "observe", "listen_at", "ask_through", "open", "close", "report"}
      /\ tool \in Tools
  BY DEF Tools, ToolPermission
<1>4. target \in {"door", "crane", "npc", "player", "visitor"}
  BY DoorIsKnown DEF Existing, Objects
<1>5. Execute(a, v, goal) = Handle(a, v, goal)
  BY <1>2 DEF Execute
<1>6. \A code, u : ~Result(FALSE, code, u).success
  BY DEF Result
<1> SUFFICES ASSUME Refusal(a, w, spec) = "NONE", ~LookupFails(a, spec), ~MayUnlisted(tool, target, w)
             PROVE  ~Handle(a, v, goal).success
  BY <1>5
<1>7. Admission(a, spec) = "NONE" /\ Precondition(a, w) = "NONE" /\ tool \notin spec.forbidden
  BY <1>1 DEF Refusal, HardConstraint
<1>8. TargetCode(target) \in {"NONE", "TARGET_NOT_KNOWN", "TARGET_NOT_FOUND"}
  BY DEF TargetCode
<1>9. TargetCode(a.barrier) \in {"NONE", "TARGET_NOT_KNOWN", "TARGET_NOT_FOUND"}
  BY DEF TargetCode
<1>10. tool \in spec.allowed /\ ToolPermission[tool] \in Permissions /\ LookedUp(a) \subseteq Objects
  BY <1>1, <1>3, <1>7, <1>8, <1>9 DEF Admission, LookupFails
<1>11. target \notin AffordedTargets(tool, w, goal)
  BY <1>3, <1>7, <1>10 DEF Afforded
<1>12. CASE tool = "move_to"
  <2>1. target \in Objects /\ ~Reachable(target, w)
    BY <1>1, <1>4, <1>7, <1>11, <1>12 DEF Precondition, IsUnfit, AffordedTargets, Objects
  <2>2. Handle(a, v, goal) = MoveTo(a, v)
    BY <1>1, <1>12 DEF Handle
  <2>3. ~Reachable(target, v)
    BY <1>2, <2>1 DEF Reachable
  <2>4. Handle(a, v, goal) = Result(FALSE, "NO_PATH", v)
    BY <1>1, <2>1, <2>2, <2>3 DEF MoveTo
  <2> QED
    BY <1>6, <2>4
<1>13. CASE tool = "observe"
  <2>1. target = "visitor" /\ w.door = "closed"
    BY <1>4, <1>11, <1>13 DEF AffordedTargets, MayUnlisted
  <2> QED
    BY <1>1, <1>7, <1>13, <2>1 DEF Precondition, IsUnfit, IsFar
<1>14. CASE tool = "listen_at"
  <2>1. target \in Objects
    BY <1>1, <1>10, <1>14 DEF LookedUp
  <2>2. w.at = PlaceOf(target)
    BY <1>1, <1>7, <1>14 DEF Precondition, IsUnfit, IsFar
  <2>3. target \in Doors
    BY <1>14, <2>1, <2>2 DEF MayUnlisted
  <2> QED
    BY <1>11, <1>14, <2>2, <2>3 DEF AffordedTargets
<1>15. CASE tool = "ask_through"
  <2>1. w.door = "closed" /\ w.at = PlaceOf(a.barrier) /\ w.at = DoorPlace
    BY <1>1, <1>7, <1>15 DEF Precondition, IsUnfit, IsFar, PlaceOf, Doors
  <2>2. target # "visitor"
    BY <1>11, <1>15, <2>1 DEF AffordedTargets
  <2>3. Handle(a, v, goal) = AskThrough(a, v)
    BY <1>1, <1>15 DEF Handle
  <2>4. Handle(a, v, goal) = Result(FALSE, "NO_RESPONSE", v)
    BY <1>1, <1>2, <2>1, <2>2, <2>3 DEF AskThrough
  <2> QED
    BY <1>6, <2>4
<1>16. CASE tool \in {"open", "close"}
  <2>1. target \in Doors
    BY <1>1, <1>7, <1>16 DEF Precondition, IsUnfit, IsFar
  <2>2. w.at = PlaceOf(target)
    BY <1>16, <2>1 DEF MayUnlisted
  <2>3. IF tool = "open" THEN ~w.locked /\ w.door # "open" ELSE w.door = "open"
    BY <1>1, <1>7, <1>16, <2>1 DEF Precondition, IsUnfit, IsFar
  <2> QED
    BY <1>11, <1>16, <2>1, <2>2, <2>3, DoorIsKnown DEF AffordedTargets, Doors
<1>17. CASE tool = "report"
  BY <1>17 DEF MayUnlisted
<1> QED
  BY <1>3, <1>12, <1>13, <1>14, <1>15, <1>16, <1>17

\* In every episode the affordances agree with the rules: what they offer can
\* be done, but for the constraint on the door and a visitor who is silent, and
\* what they withhold is refused or fails, but for the listed cases.
THEOREM AffordancesAreHonest == SpecEpisode => []AffordancesAgree
<1>1. Sound(world) => AffordancesAgree
  <2> SUFFICES ASSUME Sound(world), NEW i \in 1..current, NEW tool \in Tools \ {"wait"},
                      NEW target \in KnownTargets
               PROVE  LET goal == Spec(i).goal
                          call == CallOf(tool, target, world, goal)
                          refusal == Refusal(call, world, Spec(i))
                          result == Execute(call, Unforced(world), goal)
                      IN IF Afforded(tool, target, world, Spec(i))
                         THEN /\ ~LookupFails(call, Spec(i))
                              /\ refusal \in {"NONE", "HARD_CONSTRAINT_VIOLATION"}
                              /\ result.success \/ result.code = "NO_RESPONSE"
                         ELSE \/ LookupFails(call, Spec(i)) \/ refusal # "NONE" \/ ~result.success
                              \/ MayUnlisted(tool, target, world)
    BY DEF AffordancesAgree
  <2>1. IsWorld(world)
    BY DEF Sound
  <2> QED
    BY <2>1, OfferedIsPossible, WithheldIsRefused
<1> QED
  BY <1>1, WorldsAreSound, PTL
=============================================================================
