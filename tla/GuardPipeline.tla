---------------------------- MODULE GuardPipeline ---------------------------
(***************************************************************************)
(* PipelineEngine (core/pipeline.py) evaluating tool calls of one circuit, *)
(* with the stateful guards SequenceBreakerGuard and HaltingHeuristicGuard *)
(* (guards/loops.py) and the guards that only look at the action.          *)
(*                                                                         *)
(* Every guard of an evaluation is a task.  A task is suspended in its     *)
(* calls of the store: between the read of a record_* call and the         *)
(* transition that follows, other tasks, evaluations and processes run.    *)
(* That is so with SQLiteStore and RedisStore; InMemoryStore never         *)
(* suspends, and its behaviours are those in which a guard's steps follow  *)
(* one another.                                                            *)
(***************************************************************************)
EXTENDS CircuitState, FiniteSets, TLC

CONSTANTS
  Evaluations,      \* calls of evaluate
  Registrations,    \* sets of guards an engine may be built with
  CallsOf,          \* bound: the evaluations made of each of those engines
  ProgressActions,  \* actions whose tool_args have a true "progress"
  MaxRepeats,       \* max_repeats
  MaxCalls,         \* max_tool_calls
  MaxTime           \* bound on the clock

GuardNames == {"inspector", "sequence", "halting"}
Stateful == {"sequence", "halting"}

ASSUME PipelineConstants ==
  /\ Registrations \subseteq (SUBSET GuardNames) \ {{}}
  /\ CallsOf \in [Registrations -> SUBSET Evaluations]
  /\ ProgressActions \subseteq Actions
  /\ MaxRepeats \in Nat /\ MaxCalls \in Nat /\ MaxTime \in Nat

VARIABLES
  Guards,      \* the guards of the engine; fixed
  circuit,     \* the row of the store
  clock,       \* time.time
  action,      \* the tool call of each evaluation
  task,        \* each guard's task
  pending,     \* the update a task has sent to the store
  queue,       \* results put and not yet got, in order
  results,     \* results got, in order, while evaluate runs
  verdict,     \* "none" until evaluate returns; "cancelled" if its caller gave up
  recorded,    \* history: the sequences in the order of their transitions
  overlapped   \* history: a sequence was read while another was being recorded

vars == <<Guards, circuit, clock, action, task, pending, queue, results, verdict,
          recorded, overlapped>>

\* A GuardResult: its verdict, and whether it applied and covered the action.
Result(v, applicable, complete) ==
  [verdict |-> v, applicable |-> applicable, complete |-> complete, trip |-> FALSE]

Allows == Result("allow", TRUE, TRUE)
Denies == Result("deny", TRUE, TRUE)
NotApplicable == Result("unknown", FALSE, TRUE)
Tripped == [Denies EXCEPT !.trip = TRUE]

Results == [verdict : {"allow", "deny", "unknown"}, applicable : BOOLEAN,
            complete : BOOLEAN, trip : BOOLEAN]

\* The guards with a policy of their own have nothing to look at, deny or allow.
PolicySays == {NotApplicable, Denies, Allows}

\* The rules may also know nothing, or their inspection be incomplete.
RulesSay == {Allows, Denies, Result("unknown", TRUE, TRUE), Result("allow", TRUE, FALSE)}

\* What a guard that only looks at the action may say.
Inspections == PolicySays \cup RulesSay

TaskStates == {"off", "started", "recording", "opening", "done", "cancelled", "orphan"}
NoUpdate == <<>>
Reported == [guard : GuardNames, result : Results]

TypeOK ==
  /\ Guards \in Registrations
  /\ circuit \in Circuit
  /\ clock \in 0..MaxTime
  /\ action \in [Evaluations -> Actions \cup {NoAction}]
  /\ task \in [Evaluations -> [Guards -> TaskStates]]
  /\ queue \in [Evaluations -> Seq(Reported)] /\ results \in [Evaluations -> Seq(Reported)]
  /\ verdict \in [Evaluations -> {"none", "allow", "deny", "unknown", "cancelled"}]
  /\ recorded \in Seq(Evaluations)
  /\ overlapped \in BOOLEAN

Init ==
  /\ Guards \in Registrations
  /\ circuit = NewCircuit /\ clock = 0
  /\ action = [e \in Evaluations |-> NoAction]
  /\ task = [e \in Evaluations |-> [g \in Guards |-> "off"]]
  /\ pending = [e \in Evaluations |-> [g \in Guards |-> NoUpdate]]
  /\ queue = [e \in Evaluations |-> <<>>] /\ results = [e \in Evaluations |-> <<>>]
  /\ verdict = [e \in Evaluations |-> "none"]
  /\ recorded = <<>> /\ overlapped = FALSE

-----------------------------------------------------------------------------
\* evaluate: one task per guard.
Begin(e, a) ==
  /\ action[e] = NoAction /\ e \in CallsOf[Guards]
  /\ action' = [action EXCEPT ![e] = a]
  /\ task' = [task EXCEPT ![e] = [g \in Guards |-> "started"]]
  /\ UNCHANGED <<Guards, circuit, clock, pending, queue, results, verdict,
                 recorded, overlapped>>

\* queue.put of a guard's result; the task is over.
Put(e, g, r) ==
  /\ task' = [task EXCEPT ![e][g] = "done"]
  /\ pending' = [pending EXCEPT ![e][g] = NoUpdate]
  /\ queue' = [queue EXCEPT ![e] = Append(@, [guard |-> g, result |-> r])]

\* Mutant: a guard that raises is left out of the decision.
RaisedAbstains == NotApplicable

\* _run_guard: an exception is a denial.
Raised == Denies

Inspect(e) ==
  /\ task[e]["inspector"] = "started"
  /\ \E r \in Inspections : Put(e, "inspector", r)
  /\ UNCHANGED <<Guards, circuit, clock, action, results, verdict, recorded, overlapped>>

\* A sequence is on its way to the store, its task waiting for it or cancelled.
SequenceUnderway ==
  \E e \in Evaluations, g \in Guards :
    task[e][g] \in {"recording", "orphan"} /\ "last" \in DOMAIN pending[e][g]

\* record_sequence, record_tool_call, record_progress: the read.
Read(e, g, update) ==
  /\ task[e][g] = "started"
  /\ task' = [task EXCEPT ![e][g] = "recording"]
  /\ pending' = [pending EXCEPT ![e][g] = update]
  /\ UNCHANGED <<Guards, circuit, clock, action, queue, results, verdict, recorded>>

ReadSequence(e) ==
  /\ Read(e, "sequence", Sequence(circuit, action[e]))
  /\ overlapped' = (overlapped \/ SequenceUnderway)

ReadCalls(e) ==
  /\ action[e] \notin ProgressActions
  /\ Read(e, "halting", ToolCall(circuit, clock))
  /\ UNCHANGED overlapped

ReadProgress(e) ==
  /\ action[e] \in ProgressActions
  /\ Read(e, "halting", Progress(circuit, clock))
  /\ UNCHANGED overlapped

-----------------------------------------------------------------------------
Repeats(state) == state.repeats >= MaxRepeats

\* More calls than the limit, and no progress in the window.
Stalls(state) ==
  Len(state.calls) > MaxCalls /\ Recent(state.progress, clock) = <<>>

\* The state the transition of a guard returns makes it trip.
Trips(e, g, state) ==
  \/ g = "sequence" /\ Repeats(state)
  \/ g = "halting" /\ action[e] \notin ProgressActions /\ Stalls(state)

ReasonOf(g) ==
  IF g = "sequence" THEN "repeated exact sequence" ELSE "volume without progress"

Apply(e, g) ==
  /\ circuit' = Transition(circuit, pending[e][g])
  /\ recorded' = IF "last" \in DOMAIN pending[e][g] THEN Append(recorded, e) ELSE recorded

\* The transition of record_* returns: the guard trips and opens the circuit, or allows.
Record(e, g) ==
  /\ task[e][g] = "recording"
  /\ Apply(e, g)
  /\ IF Trips(e, g, circuit')
       THEN /\ task' = [task EXCEPT ![e][g] = "opening"]
            /\ pending' = [pending EXCEPT ![e][g] = Opened(ReasonOf(g))]
            /\ UNCHANGED queue
       ELSE Put(e, g, Allows)
  /\ UNCHANGED <<Guards, clock, action, results, verdict, overlapped>>

\* The transition of open_circuit returns: the guard denies.
Open(e, g) ==
  /\ task[e][g] = "opening"
  /\ Apply(e, g)
  /\ Put(e, g, Tripped)
  /\ UNCHANGED <<Guards, clock, action, results, verdict, overlapped>>

\* A call of the store raises; a transition may have been applied all the same.
StoreFails(e, g) ==
  /\ task[e][g] \in {"started", "recording", "opening"}
  /\ Put(e, g, Raised)
  /\ \/ UNCHANGED <<circuit, recorded>>
     \/ pending[e][g] # NoUpdate /\ Apply(e, g)
  /\ UNCHANGED <<Guards, clock, action, results, verdict, overlapped>>

\* The transition of a cancelled task, in its thread or on the wire, is applied.
Land(e, g) ==
  /\ task[e][g] = "orphan"
  /\ Apply(e, g)
  /\ task' = [task EXCEPT ![e][g] = "cancelled"]
  /\ pending' = [pending EXCEPT ![e][g] = NoUpdate]
  /\ UNCHANGED <<Guards, clock, action, queue, results, verdict, overlapped>>

-----------------------------------------------------------------------------
\* Mutant: one guard that allows is enough.
SomeAllow(rs) == \E i \in DOMAIN rs : rs[i].result.verdict = "allow"

\* allow_permitted, of the results of all guards.
AllowPermitted(rs) ==
  /\ \E i \in DOMAIN rs : rs[i].result.verdict = "allow"
  /\ \A i \in DOMAIN rs :
       /\ rs[i].result.verdict = "unknown" => ~rs[i].result.applicable
       /\ rs[i].result.complete

\* Cancellation of the tasks of e that are not done: a transition on its way may
\* be called off or not.
CancelRest(e) ==
  \E landing \in SUBSET {g \in Guards : task[e][g] \in {"recording", "opening"}} :
    /\ task' = [task EXCEPT ![e] = [g \in Guards |->
         IF @[g] = "done" THEN "done" ELSE IF g \in landing THEN "orphan" ELSE "cancelled"]]
    /\ pending' = [pending EXCEPT ![e] = [g \in Guards |->
         IF g \in landing THEN @[g] ELSE NoUpdate]]

\* Mutant: one result more than there are guards is waited for.
OneMore(got) == Len(got) = Cardinality(Guards) + 1

\* remaining is 0.
AllAnswered(got) == Len(got) = Cardinality(Guards)

\* The verdict after a turn of the loop.
VerdictOf(got) ==
  IF Last(got).result.verdict = "deny" THEN "deny"
  ELSE IF ~AllAnswered(got) THEN "none"
  ELSE IF AllowPermitted(got) THEN "allow" ELSE "unknown"

\* evaluate returns v, or goes on if it is "none".
Conclude(e, v, got) ==
  /\ verdict' = [verdict EXCEPT ![e] = v]
  /\ results' = [results EXCEPT ![e] = IF v = "none" THEN got ELSE <<>>]

\* _evaluate_guards: one turn of the loop, and what follows its last.
Collect(e) ==
  /\ verdict[e] = "none" /\ queue[e] # <<>>
  /\ LET got == Append(results[e], Head(queue[e]))
         v   == VerdictOf(got)
     IN /\ Conclude(e, v, got)
        /\ queue' = [queue EXCEPT ![e] = IF v = "none" THEN Tail(@) ELSE <<>>]
        /\ IF v = "deny" THEN CancelRest(e) ELSE UNCHANGED <<task, pending>>
  /\ UNCHANGED <<Guards, circuit, clock, action, recorded, overlapped>>

\* The caller of evaluate gives up: its task group cancels the guards.
GiveUp(e) ==
  /\ action[e] # NoAction /\ verdict[e] = "none"
  /\ Conclude(e, "cancelled", <<>>)
  /\ queue' = [queue EXCEPT ![e] = <<>>]
  /\ CancelRest(e)
  /\ UNCHANGED <<Guards, circuit, clock, action, recorded, overlapped>>

\* Only the halting guard looks at the clock.
Tick ==
  /\ "halting" \in Guards /\ clock < MaxTime /\ clock' = clock + 1
  /\ UNCHANGED <<Guards, circuit, action, task, pending, queue, results, verdict, recorded, overlapped>>

Guard(e, g) ==
  /\ g \in Guards
  /\ \/ g = "inspector" /\ Inspect(e)
     \/ g = "sequence" /\ ReadSequence(e)
     \/ g = "halting" /\ (ReadCalls(e) \/ ReadProgress(e))
     \/ g \in Stateful /\ (Record(e, g) \/ Open(e, g) \/ StoreFails(e, g) \/ Land(e, g))

Next ==
  \/ Tick
  \/ \E e \in Evaluations :
       \/ \E a \in Actions : Begin(e, a)
       \/ Collect(e) \/ (\E g \in Guards : Guard(e, g))
       \/ GiveUp(e)

Spec == Init /\ [][Next]_vars

\* The loop's next turn, or a step of one of the tasks.
Advance(e) == Collect(e) \/ \E g \in Guards : Guard(e, g)

\* The event loop runs what is ready, and a call of the store returns or raises.
FairSpec == Spec /\ \A e \in Evaluations : WF_vars(Advance(e))

-----------------------------------------------------------------------------
\* What the guards of e have put in its queue so far.
Answers(e) == results[e] \o queue[e]

Unanimous(answers) ==
  /\ {answers[i].guard : i \in DOMAIN answers} = Guards
  /\ \E i \in DOMAIN answers : answers[i].result.verdict = "allow"
  /\ \A i \in DOMAIN answers :
       /\ answers[i].result.verdict \in {"allow", "unknown"}
       /\ answers[i].result.complete
       /\ answers[i].result.verdict = "unknown" => ~answers[i].result.applicable

\* ALLOW is returned only when every registered guard has answered, one of them
\* with allow, and none with a denial, an exception, an unknown that applies or
\* incomplete coverage, in whatever order they finish (_evaluate_guards).
AllowMeansUnanimous ==
  [][\A e \in Evaluations :
       verdict[e] = "none" /\ verdict'[e] = "allow" => Unanimous(Answers(e))]_vars

Tripping(e, g) ==
  \E i \in DOMAIN Answers(e) : Answers(e)[i] = [guard |-> g, result |-> Tripped]

RecordedOf(a) == {recorded[i] : i \in {j \in DOMAIN recorded : action[recorded[j]] = a}}

\* However evaluations overlap, the sequence breaker trips only on an action that
\* max_repeats evaluations have recorded: a lost count never invents one.
TripsOnlyOnRepeats ==
  \A e \in Evaluations :
    Tripping(e, "sequence") => Cardinality(RecordedOf(action[e])) >= MaxRepeats

\* The number of recordings, up to the ith, of one and the same action in a row.
RunLength(i) ==
  Cardinality({j \in 1..i : \A k \in j..i : action[recorded[k]] = action[recorded[i]]})

\* As long as no sequence is read while another is being recorded, a call that
\* makes max_repeats in a row is never allowed, whatever the other guards say.
LoopsAreBroken ==
  ~overlapped =>
    \A i \in DOMAIN recorded :
      RunLength(i) >= MaxRepeats => verdict[recorded[i]] # "allow"

\* Every evaluation ends, with a verdict or by its caller.
EvaluationsEnd ==
  \A e \in Evaluations : action[e] # NoAction ~> verdict[e] # "none"
=============================================================================
