------------------------- MODULE GuardPipelineProofs -------------------------
(***************************************************************************)
(* Proofs about the pipeline, for any number of evaluations, actions and   *)
(* registered guards, and any limits.                                      *)
(***************************************************************************)
EXTENDS GuardPipeline, SequenceTheorems, FiniteSetTheorems, TLAPS

-----------------------------------------------------------------------------
(* Sequences of answers.                                                   *)

LEMMA AnswerAdded ==
  ASSUME NEW S, NEW s \in Seq(S), NEW t \in Seq(S), NEW x \in S
  PROVE  s \o Append(t, x) = Append(s \o t, x)
<1>1. <<x>> \in Seq(S) /\ s \o t \in Seq(S)
  BY ConcatProperties
<1>2. QED
  BY <1>1, AppendIsConcat, ConcatAssociative

LEMMA AnswerMoved ==
  ASSUME NEW S, NEW s \in Seq(S), NEW t \in Seq(S), t # <<>>
  PROVE  /\ Append(s, Head(t)) \o Tail(t) = s \o t
         /\ Append(s, Head(t)) \in Seq(S) /\ Tail(t) \in Seq(S)
<1>1. /\ Head(t) \in S /\ Tail(t) \in Seq(S) /\ <<Head(t)>> \in Seq(S)
      /\ Append(s, Head(t)) \in Seq(S)
  BY HeadTailProperties, AppendProperties
<1>2. <<Head(t)>> \o Tail(t) = t
  BY <1>1
<1>3. Append(s, Head(t)) = s \o <<Head(t)>>
  BY <1>1, AppendIsConcat
<1>4. (s \o <<Head(t)>>) \o Tail(t) = s \o (<<Head(t)>> \o Tail(t))
  BY <1>1, ConcatAssociative
<1>5. QED
  BY <1>1, <1>2, <1>3, <1>4

-----------------------------------------------------------------------------
(* Shapes.                                                                 *)

Shapes ==
  /\ Guards \in Registrations
  /\ action \in [Evaluations -> Actions \cup {NoAction}]
  /\ task \in [Evaluations -> [Guards -> TaskStates]]
  /\ DOMAIN pending = Evaluations /\ \A e \in Evaluations : DOMAIN pending[e] = Guards
  /\ queue \in [Evaluations -> Seq(Reported)] /\ results \in [Evaluations -> Seq(Reported)]
  /\ verdict \in [Evaluations -> {"none", "allow", "deny", "unknown", "cancelled"}]
  /\ recorded \in Seq(Evaluations)
  /\ {"last", "repeats"} \subseteq DOMAIN circuit

LEMMA GuardsAreFew == ASSUME Guards \in Registrations PROVE Guards \subseteq GuardNames /\ IsFiniteSet(Guards)
<1>1. Guards \subseteq GuardNames
  BY PipelineConstants
<1>2. IsFiniteSet(GuardNames)
  <2>1. IsFiniteSet({"inspector"} \cup {"sequence"})
    BY FS_Singleton, FS_AddElement
  <2>2. IsFiniteSet(({"inspector"} \cup {"sequence"}) \cup {"halting"})
    BY <2>1, FS_AddElement
  <2>3. GuardNames = ({"inspector"} \cup {"sequence"}) \cup {"halting"}
    BY DEF GuardNames
  <2>4. QED
    BY <2>2, <2>3
<1>3. QED
  BY <1>1, <1>2, FS_Subset

LEMMA PutShapes ==
  ASSUME Shapes, NEW e \in Evaluations, NEW g \in Guards, NEW r \in Results, Put(e, g, r)
  PROVE  /\ task' \in [Evaluations -> [Guards -> TaskStates]]
         /\ DOMAIN pending' = Evaluations /\ \A v \in Evaluations : DOMAIN pending'[v] = Guards
         /\ queue' \in [Evaluations -> Seq(Reported)]
         /\ queue'[e] = Append(queue[e], [guard |-> g, result |-> r])
         /\ [guard |-> g, result |-> r] \in Reported
<1>1. [guard |-> g, result |-> r] \in Reported
  BY GuardsAreFew DEF Shapes, Reported
<1>2. Append(queue[e], [guard |-> g, result |-> r]) \in Seq(Reported)
  BY <1>1, AppendProperties DEF Shapes
<1>3. QED
  BY <1>1, <1>2 DEF Shapes, Put, TaskStates

LEMMA ResultTypes ==
  /\ {Allows, Denies, NotApplicable, Tripped, Raised} \subseteq Results
  /\ Inspections \subseteq Results
<1>1. ASSUME NEW v \in {"allow", "deny", "unknown"}, NEW a \in BOOLEAN, NEW c \in BOOLEAN
      PROVE  Result(v, a, c) \in Results
  BY DEF Result, Results
<1>2. Allows \in Results /\ Denies \in Results /\ NotApplicable \in Results
  BY <1>1 DEF Allows, Denies, NotApplicable
<1>3. Tripped \in Results
  BY <1>2 DEF Tripped, Results
<1>4. Inspections \subseteq Results
  BY <1>1, <1>2 DEF Inspections, PolicySays, RulesSay
<1>5. QED
  BY <1>2, <1>3, <1>4 DEF Raised

LEMMA ApplyShapes ==
  ASSUME Shapes, NEW e \in Evaluations, NEW g \in Guards, Apply(e, g)
  PROVE  recorded' \in Seq(Evaluations) /\ {"last", "repeats"} \subseteq DOMAIN circuit'
<1>1. recorded' \in Seq(Evaluations)
  BY AppendProperties DEF Shapes, Apply
<1>2. DOMAIN circuit' = DOMAIN circuit
  BY DEF Apply, Transition
<1>3. QED
  BY <1>1, <1>2 DEF Shapes


\* What a guard's task does when it ends with an answer.
Ends(e, g) == \E r \in Results : Put(e, g, r)

LEMMA CancelShapes ==
  ASSUME Shapes, NEW e \in Evaluations, CancelRest(e)
  PROVE  /\ task' \in [Evaluations -> [Guards -> TaskStates]]
         /\ DOMAIN pending' = Evaluations /\ \A v \in Evaluations : DOMAIN pending'[v] = Guards
         /\ \A g \in Guards : task'[e][g] = "done" <=> task[e][g] = "done"
         /\ \A g \in Guards : task'[e][g] \in {"done", "orphan", "cancelled"}
         /\ \A g \in Guards : pending'[e][g] \in {pending[e][g], NoUpdate}
         /\ \A v \in Evaluations : v # e => task'[v] = task[v] /\ pending'[v] = pending[v]
<1>1. PICK landing \in SUBSET {g \in Guards : task[e][g] \in {"recording", "opening"}} :
        /\ task' = [task EXCEPT ![e] = [g \in Guards |->
             IF @[g] = "done" THEN "done" ELSE IF g \in landing THEN "orphan" ELSE "cancelled"]]
        /\ pending' = [pending EXCEPT ![e] = [g \in Guards |->
             IF g \in landing THEN @[g] ELSE NoUpdate]]
  BY DEF CancelRest
<1>2. task' \in [Evaluations -> [Guards -> TaskStates]]
  BY <1>1 DEF Shapes, TaskStates
<1>3. QED
  BY <1>1, <1>2 DEF Shapes

\* The turn of the loop, as far as answers and verdicts go.
LEMMA Turn ==
  ASSUME Shapes, NEW e \in Evaluations, Collect(e)
  PROVE  LET got == Append(results[e], Head(queue[e]))
             v   == VerdictOf(got)
         IN  /\ verdict[e] = "none" /\ queue[e] # <<>> /\ got \in Seq(Reported)
             /\ v \in {"none", "deny", "allow", "unknown"}
             /\ verdict' = [verdict EXCEPT ![e] = v]
             /\ results' = [results EXCEPT ![e] = IF v = "none" THEN got ELSE <<>>]
             /\ queue' = [queue EXCEPT ![e] = IF v = "none" THEN Tail(queue[e]) ELSE <<>>]
             /\ results' \in [Evaluations -> Seq(Reported)]
             /\ queue' \in [Evaluations -> Seq(Reported)]
             /\ v = "deny" => CancelRest(e)
             /\ v # "deny" => UNCHANGED <<task, pending>>
             /\ UNCHANGED <<Guards, circuit, clock, action, recorded, overlapped>>
<1> DEFINE got == Append(results[e], Head(queue[e]))
           v   == VerdictOf(got)
<1>1. /\ verdict[e] = "none" /\ queue[e] # <<>>
      /\ verdict' = [verdict EXCEPT ![e] = v]
      /\ results' = [results EXCEPT ![e] = IF v = "none" THEN got ELSE <<>>]
      /\ queue' = [queue EXCEPT ![e] = IF v = "none" THEN Tail(queue[e]) ELSE <<>>]
      /\ v = "deny" => CancelRest(e)
      /\ v # "deny" => UNCHANGED <<task, pending>>
      /\ UNCHANGED <<Guards, circuit, clock, action, recorded, overlapped>>
  BY DEF Collect, Conclude
<1>2. got \in Seq(Reported) /\ Tail(queue[e]) \in Seq(Reported)
  BY <1>1, AnswerMoved DEF Shapes
<1>3. v \in {"none", "deny", "allow", "unknown"}
  BY DEF VerdictOf
<1> HIDE DEF got, v
<1>4. results' \in [Evaluations -> Seq(Reported)] /\ queue' \in [Evaluations -> Seq(Reported)]
  BY <1>1, <1>2, EmptySeq DEF Shapes
<1>5. QED
  BY <1>1, <1>2, <1>3, <1>4 DEF got, v

LEMMA ShapesInvariant == Spec => []Shapes
<1>1. ASSUME Init
      PROVE  Shapes
  BY <1>1, EmptySeq DEF Init, Shapes, TaskStates, NewCircuit
<1>2. ASSUME Shapes, [Next]_vars
      PROVE  Shapes'
  <2>1. ASSUME NEW e \in Evaluations, NEW a \in Actions, Begin(e, a)
        PROVE  Shapes'
    BY <1>2, <2>1 DEF Begin, Shapes, TaskStates
  <2>2. ASSUME NEW e \in Evaluations, NEW g \in Guards, Ends(e, g),
               recorded' \in Seq(Evaluations), {"last", "repeats"} \subseteq DOMAIN circuit',
               UNCHANGED <<Guards, action, results, verdict>>
        PROVE  Shapes'
    BY <1>2, <2>2, PutShapes DEF Ends, Shapes
  <2>3. ASSUME NEW e \in Evaluations, NEW g \in Guards, NEW u, Read(e, g, u)
        PROVE  Shapes'
    BY <1>2, <2>3 DEF Read, Shapes, TaskStates
  <2>4. ASSUME NEW e \in Evaluations, NEW g \in Guards, Guard(e, g)
        PROVE  Shapes'
    <3>1. CASE Inspect(e) /\ g = "inspector"
      BY <1>2, <2>2, <3>1, ResultTypes DEF Inspect, Ends, Shapes
    <3>2. CASE ReadSequence(e) /\ g = "sequence"
      BY <2>3, <2>4, <3>2 DEF ReadSequence
    <3>3. CASE (ReadCalls(e) \/ ReadProgress(e)) /\ g = "halting"
      BY <2>3, <2>4, <3>3 DEF ReadCalls, ReadProgress
    <3>4. CASE Record(e, g)
      <4>1. Apply(e, g) /\ UNCHANGED <<Guards, action, results, verdict>>
        BY <3>4 DEF Record
      <4>2. recorded' \in Seq(Evaluations) /\ {"last", "repeats"} \subseteq DOMAIN circuit'
        BY <1>2, <4>1, ApplyShapes
      <4>3. CASE Put(e, g, Allows)
        BY <2>2, <4>1, <4>2, <4>3, ResultTypes DEF Ends
      <4>4. CASE /\ task' = [task EXCEPT ![e][g] = "opening"]
                 /\ pending' = [pending EXCEPT ![e][g] = Opened(ReasonOf(g))]
                 /\ UNCHANGED queue
        BY <1>2, <4>1, <4>2, <4>4 DEF Shapes, TaskStates
      <4>5. QED
        BY <3>4, <4>3, <4>4 DEF Record
    <3>5. CASE Open(e, g)
      BY <1>2, <2>2, <3>5, ApplyShapes, ResultTypes DEF Open, Ends
    <3>6. CASE StoreFails(e, g)
      <4>1. Put(e, g, Raised) /\ UNCHANGED <<Guards, action, results, verdict>>
            /\ (UNCHANGED <<circuit, recorded>> \/ Apply(e, g))
        BY <3>6 DEF StoreFails
      <4>2. recorded' \in Seq(Evaluations) /\ {"last", "repeats"} \subseteq DOMAIN circuit'
        BY <1>2, <4>1, ApplyShapes DEF Shapes
      <4>3. QED
        BY <2>2, <4>1, <4>2, ResultTypes DEF Ends
    <3>7. CASE Land(e, g)
      <4>1. recorded' \in Seq(Evaluations) /\ {"last", "repeats"} \subseteq DOMAIN circuit'
        BY <1>2, <3>7, ApplyShapes DEF Land
      <4>2. QED
        BY <1>2, <3>7, <4>1 DEF Land, Shapes, TaskStates
    <3>8. QED
      BY <2>4, <3>1, <3>2, <3>3, <3>4, <3>5, <3>6, <3>7 DEF Guard
  <2>5. ASSUME NEW e \in Evaluations, Collect(e)
        PROVE  Shapes'
    <3> DEFINE v == VerdictOf(Append(results[e], Head(queue[e])))
    <3>1. /\ v \in {"none", "deny", "allow", "unknown"}
          /\ verdict' = [verdict EXCEPT ![e] = v]
          /\ results' \in [Evaluations -> Seq(Reported)]
          /\ queue' \in [Evaluations -> Seq(Reported)]
          /\ CancelRest(e) \/ UNCHANGED <<task, pending>>
          /\ UNCHANGED <<Guards, circuit, action, recorded>>
      BY <1>2, <2>5, Turn
    <3> HIDE DEF v
    <3>2. /\ task' \in [Evaluations -> [Guards -> TaskStates]]
          /\ DOMAIN pending' = Evaluations /\ \A w \in Evaluations : DOMAIN pending'[w] = Guards
      BY <1>2, <3>1, CancelShapes DEF Shapes
    <3>3. QED
      BY <1>2, <3>1, <3>2 DEF Shapes
  <2>6. ASSUME NEW e \in Evaluations, GiveUp(e)
        PROVE  Shapes'
    <3>1. CancelRest(e)
      BY <2>6 DEF GiveUp
    <3>2. /\ results' \in [Evaluations -> Seq(Reported)]
          /\ queue' \in [Evaluations -> Seq(Reported)]
      BY <1>2, <2>6, EmptySeq DEF GiveUp, Conclude, Shapes
    <3>3. QED
      BY <1>2, <2>6, <3>1, <3>2, CancelShapes DEF GiveUp, Conclude, Shapes
  <2>7. CASE Tick \/ UNCHANGED vars
    BY <1>2, <2>7 DEF Tick, vars, Shapes
  <2>8. QED
    BY <1>2, <2>1, <2>4, <2>5, <2>6, <2>7 DEF Next
<1>3. QED
  BY <1>1, <1>2, PTL DEF Spec

\* A turn of evaluate's loop takes its answer from the queue to the results.
LEMMA NextAnswer ==
  ASSUME Shapes, NEW e \in Evaluations, queue[e] # <<>>
  PROVE  Append(results[e], Head(queue[e])) \o Tail(queue[e]) = Answers(e)
<1>1. results[e] \in Seq(Reported) /\ queue[e] \in Seq(Reported)
  BY DEF Shapes
<1>2. QED
  BY <1>1, AnswerMoved DEF Answers

-----------------------------------------------------------------------------
(* Every guard answers once.                                               *)

Reporters(answers) == {answers[i].guard : i \in DOMAIN answers}

Done(e) == {g \in Guards : task[e][g] = "done"}

AnswersInv ==
  \A e \in Evaluations :
    /\ action[e] = NoAction => results[e] = <<>> /\ queue[e] = <<>>
                               /\ \A g \in Guards : task[e][g] = "off"
    /\ verdict[e] = "none" => /\ Reporters(Answers(e)) = Done(e)
                              /\ Len(Answers(e)) = Cardinality(Done(e))
                              /\ \A i \in DOMAIN results[e] :
                                   results[e][i].result.verdict # "deny"

LEMMA OneMoreReporter ==
  ASSUME NEW s \in Seq(Reported), NEW x \in Reported
  PROVE  Reporters(Append(s, x)) = Reporters(s) \cup {x.guard}
         /\ Len(Append(s, x)) = Len(s) + 1
<1>1. /\ Append(s, x) \in Seq(Reported) /\ Len(Append(s, x)) = Len(s) + 1 /\ Len(s) \in Nat
      /\ \A i \in 1..Len(s) : Append(s, x)[i] = s[i]
      /\ Append(s, x)[Len(s) + 1] = x
  BY AppendProperties, LenProperties
<1>2. DOMAIN s = 1..Len(s) /\ DOMAIN Append(s, x) = 1..Len(s) \cup {Len(s) + 1}
  BY <1>1, LenProperties
<1>3. QED
  BY <1>1, <1>2 DEF Reporters

LEMMA DoneIsFinite ==
  ASSUME Shapes, NEW e \in Evaluations
  PROVE  IsFiniteSet(Done(e))
BY GuardsAreFew, FS_Subset DEF Shapes, Done

\* A task ends once, with one answer.
LEMMA EndsOnce ==
  ASSUME Shapes, AnswersInv, NEW e \in Evaluations, NEW g \in Guards, Ends(e, g),
         task[e][g] \notin {"off", "done"}, UNCHANGED <<Guards, action, results, verdict>>
  PROVE  AnswersInv'
<1>1. PICK r \in Results : Put(e, g, r)
  BY DEF Ends
<1> DEFINE x == [guard |-> g, result |-> r]
<1>2. /\ queue'[e] = Append(queue[e], x) /\ x \in Reported
      /\ \A v \in Evaluations : v # e => queue'[v] = queue[v] /\ task'[v] = task[v]
      /\ \A h \in Guards : task'[e][h] = IF h = g THEN "done" ELSE task[e][h]
  <2>1. queue'[e] = Append(queue[e], x) /\ x \in Reported
    BY <1>1, PutShapes
  <2>2. \A v \in Evaluations : v # e => queue'[v] = queue[v] /\ task'[v] = task[v]
    BY <1>1 DEF Put, Shapes
  <2>3. \A h \in Guards : task'[e][h] = IF h = g THEN "done" ELSE task[e][h]
    BY <1>1 DEF Put, Shapes
  <2>4. QED
    BY <2>1, <2>2, <2>3
<1>3. action[e] # NoAction
  BY DEF AnswersInv
<1>4. \A v \in Evaluations : v # e => Answers(v)' = Answers(v) /\ Done(v)' = Done(v)
  BY <1>2 DEF Answers, Done
<1>5. Answers(e)' = Append(Answers(e), x) /\ Answers(e) \in Seq(Reported)
  BY <1>2, AnswerAdded, ConcatProperties DEF Answers, Shapes
<1>6. Done(e)' = Done(e) \cup {g} /\ g \notin Done(e)
  BY <1>2 DEF Done
<1>7. Cardinality(Done(e)') = Cardinality(Done(e)) + 1
  BY <1>6, DoneIsFinite, FS_AddElement
<1>8. Reporters(Answers(e)') = Reporters(Answers(e)) \cup {g}
      /\ Len(Answers(e)') = Len(Answers(e)) + 1
  <2>1. x.guard = g
    OBVIOUS
  <2> HIDE DEF x
  <2>2. QED
    BY <1>2, <1>5, <2>1, OneMoreReporter
<1>9. ASSUME NEW v \in Evaluations
      PROVE  /\ action'[v] = NoAction => results'[v] = <<>> /\ queue'[v] = <<>>
                                         /\ \A h \in Guards : task'[v][h] = "off"
             /\ verdict'[v] = "none" => /\ Reporters(Answers(v)') = Done(v)'
                                        /\ Len(Answers(v)') = Cardinality(Done(v)')
                                        /\ \A i \in DOMAIN results'[v] :
                                             results'[v][i].result.verdict # "deny"
  <2>1. CASE v = e
    BY <1>3, <1>6, <1>7, <1>8, <2>1 DEF AnswersInv
  <2>2. CASE v # e
    BY <1>2, <1>4, <2>2 DEF AnswersInv
  <2>3. QED
    BY <2>1, <2>2
<1>10. QED
  BY <1>9 DEF AnswersInv, Reporters

\* Steps after which the same tasks are done, of the same answers.
LEMMA SameAnswers ==
  ASSUME Shapes, AnswersInv, NEW e \in Evaluations, action[e] # NoAction,
         \A g \in Guards : task'[e][g] = "done" <=> task[e][g] = "done",
         \A v \in Evaluations : v # e => task'[v] = task[v],
         UNCHANGED <<Guards, action, results, queue, verdict>>
  PROVE  AnswersInv'
<1>1. \A v \in Evaluations : Answers(v)' = Answers(v) /\ Done(v)' = Done(v)
  BY DEF Answers, Done
<1>2. QED
  BY <1>1 DEF AnswersInv, Reporters

LEMMA AnswersInvariant == Spec => []AnswersInv
<1>1. ASSUME Init
      PROVE  AnswersInv
  <2>1. ASSUME NEW e \in Evaluations
        PROVE  Answers(e) = <<>> /\ Done(e) = {} /\ results[e] = <<>> /\ queue[e] = <<>>
    BY <1>1, EmptySeq, ConcatEmptySeq DEF Init, Answers, Done
  <2>2. Reporters(<<>>) = {} /\ Len(<<>>) = 0 /\ Cardinality({}) = 0
    BY FS_EmptySet DEF Reporters
  <2>3. ASSUME NEW e \in Evaluations
        PROVE  Reporters(Answers(e)) = Done(e) /\ Len(Answers(e)) = Cardinality(Done(e))
    BY <2>1, <2>2
  <2>4. \A e \in Evaluations, g \in Guards : task[e][g] = "off"
    BY <1>1 DEF Init
  <2>5. QED
    BY <2>1, <2>3, <2>4 DEF AnswersInv
<1>2. ASSUME Shapes, AnswersInv, [Next]_vars
      PROVE  AnswersInv'
  <2>1. ASSUME NEW e \in Evaluations, NEW a \in Actions, Begin(e, a)
        PROVE  AnswersInv'
    <3>1. /\ \A v \in Evaluations : Answers(v)' = Answers(v) /\ Done(v)' = Done(v)
          /\ \A v \in Evaluations : v # e => task'[v] = task[v] /\ action'[v] = action[v]
          /\ action'[e] # NoAction
      BY <1>2, <2>1, CircuitConstants DEF Begin, Answers, Done, AnswersInv, Shapes
    <3>2. QED
      BY <1>2, <2>1, <3>1 DEF Begin, AnswersInv, Reporters
  <2>2. ASSUME NEW e \in Evaluations, NEW g \in Guards, task[e][g] # "off"
        PROVE  action[e] # NoAction
    BY <1>2, <2>2 DEF AnswersInv
  <2>3. ASSUME NEW e \in Evaluations, NEW g \in Guards, NEW u, Read(e, g, u)
        PROVE  AnswersInv'
    BY <1>2, <2>2, <2>3, SameAnswers DEF Read, Shapes
  <2>4. ASSUME NEW e \in Evaluations, NEW g \in Guards, Guard(e, g)
        PROVE  AnswersInv'
    <3>1. CASE Inspect(e) /\ g = "inspector"
      BY <1>2, <3>1, EndsOnce, ResultTypes DEF Inspect, Ends
    <3>2. CASE ReadSequence(e) /\ g = "sequence"
      BY <2>3, <2>4, <3>2 DEF ReadSequence
    <3>3. CASE (ReadCalls(e) \/ ReadProgress(e)) /\ g = "halting"
      BY <2>3, <2>4, <3>3 DEF ReadCalls, ReadProgress
    <3>4. CASE Record(e, g)
      <4>1. CASE Put(e, g, Allows)
        BY <1>2, <3>4, <4>1, EndsOnce, ResultTypes DEF Record, Ends
      <4>2. CASE UNCHANGED queue /\ task' = [task EXCEPT ![e][g] = "opening"]
        <5>1. /\ \A h \in Guards : task'[e][h] = "done" <=> task[e][h] = "done"
              /\ \A v \in Evaluations : v # e => task'[v] = task[v]
          BY <1>2, <3>4, <4>2 DEF Record, Shapes
        <5>2. QED
          BY <1>2, <2>2, <3>4, <4>2, <5>1, SameAnswers DEF Record
      <4>3. QED
        BY <3>4, <4>1, <4>2 DEF Record
    <3>5. CASE Open(e, g)
      BY <1>2, <3>5, EndsOnce, ResultTypes DEF Open, Ends
    <3>6. CASE StoreFails(e, g)
      BY <1>2, <3>6, EndsOnce, ResultTypes DEF StoreFails, Ends
    <3>7. CASE Land(e, g)
      BY <1>2, <2>2, <3>7, SameAnswers DEF Land, Shapes
    <3>8. QED
      BY <2>4, <3>1, <3>2, <3>3, <3>4, <3>5, <3>6, <3>7 DEF Guard
  <2>5. ASSUME NEW e \in Evaluations, Collect(e)
        PROVE  AnswersInv'
    <3> DEFINE got == Append(results[e], Head(queue[e]))
               v   == VerdictOf(got)
    <3>1. /\ verdict[e] = "none" /\ queue[e] # <<>> /\ got \in Seq(Reported)
          /\ verdict' = [verdict EXCEPT ![e] = v]
          /\ results' = [results EXCEPT ![e] = IF v = "none" THEN got ELSE <<>>]
          /\ queue' = [queue EXCEPT ![e] = IF v = "none" THEN Tail(queue[e]) ELSE <<>>]
          /\ v = "deny" => CancelRest(e)
          /\ v # "deny" => UNCHANGED <<task, pending>>
          /\ UNCHANGED <<Guards, circuit, clock, action, recorded, overlapped>>
      BY <1>2, <2>5, Turn
    <3>2. v = "none" => got[Len(got)].result.verdict # "deny"
      BY DEF VerdictOf, Last
    <3>3. v = "none" => Append(results[e], Head(queue[e])) \o Tail(queue[e]) = Answers(e)
      BY <1>2, <3>1, NextAnswer
    <3>4. Head(queue[e]) \in Reported /\ results[e] \in Seq(Reported)
      BY <1>2, <3>1, HeadTailProperties DEF Shapes
    <3>5. /\ Len(got) = Len(results[e]) + 1 /\ DOMAIN got = 1..(Len(results[e]) + 1)
          /\ \A i \in 1..Len(results[e]) : got[i] = results[e][i]
          /\ Len(results[e]) \in Nat /\ DOMAIN results[e] = 1..Len(results[e])
      BY <3>4, AppendProperties, LenProperties
    <3>6. action[e] # NoAction
      BY <1>2, <3>1 DEF AnswersInv
    <3>7. \A w \in Evaluations : w # e => task'[w] = task[w]
      BY <1>2, <3>1, CancelShapes
    <3> HIDE DEF got, v
    <3>8. \A w \in Evaluations : w # e =>
            /\ Answers(w)' = Answers(w) /\ Done(w)' = Done(w)
            /\ results'[w] = results[w] /\ queue'[w] = queue[w] /\ verdict'[w] = verdict[w]
      BY <1>2, <3>1, <3>7 DEF Answers, Done, Shapes
    <3>9. ASSUME v = "none"
          PROVE  /\ Answers(e)' = Answers(e) /\ Done(e)' = Done(e)
                 /\ results'[e] = got
      BY <1>2, <3>1, <3>3, <3>9 DEF Answers, Done, Shapes, got
    <3>10. v = "none" => \A i \in DOMAIN got : got[i].result.verdict # "deny"
      BY <1>2, <3>1, <3>2, <3>5 DEF AnswersInv
    <3>11. verdict'[e] = v
      BY <1>2, <3>1 DEF Shapes
    <3>12. ASSUME NEW w \in Evaluations
           PROVE  /\ action'[w] = NoAction => results'[w] = <<>> /\ queue'[w] = <<>>
                                             /\ \A h \in Guards : task'[w][h] = "off"
                  /\ verdict'[w] = "none" => /\ Reporters(Answers(w)') = Done(w)'
                                             /\ Len(Answers(w)') = Cardinality(Done(w)')
                                             /\ \A i \in DOMAIN results'[w] :
                                                  results'[w][i].result.verdict # "deny"
      <4>1. CASE w = e
        BY <1>2, <3>1, <3>6, <3>9, <3>10, <3>11, <4>1 DEF AnswersInv
      <4>2. CASE w # e
        BY <1>2, <3>1, <3>7, <3>8, <4>2 DEF AnswersInv
      <4>3. QED
        BY <4>1, <4>2
    <3>13. Guards' = Guards
      BY <3>1
    <3>14. QED
      BY <3>12, <3>13 DEF AnswersInv, Reporters
  <2>6. ASSUME NEW e \in Evaluations, GiveUp(e)
        PROVE  AnswersInv'
    <3>1. /\ action[e] # NoAction /\ verdict' = [verdict EXCEPT ![e] = "cancelled"]
          /\ results' = [results EXCEPT ![e] = <<>>] /\ queue' = [queue EXCEPT ![e] = <<>>]
          /\ CancelRest(e) /\ UNCHANGED <<Guards, action>>
      BY <2>6 DEF GiveUp, Conclude
    <3>2. \A w \in Evaluations : w # e =>
            /\ task'[w] = task[w] /\ verdict'[w] = verdict[w]
            /\ results'[w] = results[w] /\ queue'[w] = queue[w]
      BY <1>2, <3>1, CancelShapes DEF Shapes
    <3>3. \A w \in Evaluations : w # e => Answers(w)' = Answers(w) /\ Done(w)' = Done(w)
      BY <3>1, <3>2 DEF Answers, Done
    <3>4. verdict'[e] = "cancelled"
      BY <1>2, <3>1 DEF Shapes
    <3>5. QED
      BY <1>2, <3>1, <3>2, <3>3, <3>4 DEF AnswersInv, Reporters
  <2>7. CASE Tick \/ UNCHANGED vars
    <3>1. UNCHANGED <<Guards, action, task, results, queue, verdict>>
      BY <2>7 DEF Tick, vars
    <3>2. \A v \in Evaluations : Answers(v)' = Answers(v) /\ Done(v)' = Done(v)
      BY <3>1 DEF Answers, Done
    <3>3. QED
      BY <1>2, <3>1, <3>2 DEF AnswersInv, Reporters
  <2>8. QED
    BY <1>2, <2>1, <2>4, <2>5, <2>6, <2>7 DEF Next
<1>3. QED
  BY <1>1, <1>2, ShapesInvariant, PTL DEF Spec

\* The verdict allow, of the turn of the loop that returns it.
LEMMA AllowIsUnanimous ==
  ASSUME Shapes, AnswersInv, [Next]_vars, NEW e \in Evaluations,
         verdict[e] = "none", verdict'[e] = "allow"
  PROVE  Unanimous(Answers(e))
<1> DEFINE got == Append(results[e], Head(queue[e]))
           v   == VerdictOf(got)
<1>1. PICK w \in Evaluations : Collect(w) \/ GiveUp(w)
  BY DEF Next, vars, Begin, Tick, Guard, Inspect, ReadSequence, ReadCalls, ReadProgress,
     Read, Record, Open, StoreFails, Land
<1>2. Collect(e)
  <2>1. ASSUME GiveUp(w)
        PROVE  FALSE
    BY <2>1 DEF GiveUp, Conclude, Shapes
  <2>2. w = e
    BY <1>1, <2>1 DEF Collect, Conclude, Shapes
  <2>3. QED
    BY <1>1, <2>1, <2>2
<1>3. /\ queue[e] # <<>> /\ got \in Seq(Reported) /\ verdict' = [verdict EXCEPT ![e] = v]
  BY <1>2, Turn
<1>4. v = "allow"
  BY <1>3 DEF Shapes
<1>5. /\ got[Len(got)].result.verdict # "deny" /\ Len(got) = Cardinality(Guards)
      /\ AllowPermitted(got)
  BY <1>4 DEF VerdictOf, AllAnswered, Last
<1> HIDE DEF v
<1>6. /\ got \o Tail(queue[e]) = Answers(e) /\ Tail(queue[e]) \in Seq(Reported)
      /\ Answers(e) \in Seq(Reported)
  <2>1. results[e] \in Seq(Reported) /\ queue[e] \in Seq(Reported)
    BY DEF Shapes
  <2>2. Tail(queue[e]) \in Seq(Reported)
    BY <1>3, <2>1, HeadTailProperties
  <2>3. got \o Tail(queue[e]) = Answers(e)
    BY <1>3, NextAnswer
  <2>4. QED
    BY <2>1, <2>2, <2>3, ConcatProperties DEF Answers
<1>7. /\ IsFiniteSet(Guards) /\ Cardinality(Guards) \in Nat
      /\ Cardinality(Done(e)) <= Cardinality(Guards)
      /\ Cardinality(Done(e)) = Cardinality(Guards) => Done(e) = Guards
  <2>1. IsFiniteSet(Guards) /\ Done(e) \in SUBSET Guards
    BY GuardsAreFew DEF Shapes, Done
  <2>2. QED
    BY <2>1, FS_Subset, FS_CardinalityType
<1>8. Reporters(Answers(e)) = Done(e) /\ Len(Answers(e)) = Cardinality(Done(e))
  BY DEF AnswersInv
<1>9. Len(Answers(e)) = Len(got) + Len(Tail(queue[e])) /\ Len(Tail(queue[e])) \in Nat
      /\ Len(got) \in Nat
  <2>1. got \in Seq(Reported) /\ Tail(queue[e]) \in Seq(Reported)
    BY <1>3, <1>6
  <2> HIDE DEF got
  <2>2. Len(got \o Tail(queue[e])) = Len(got) + Len(Tail(queue[e]))
    BY <2>1, ConcatProperties
  <2>3. QED
    BY <1>6, <2>1, <2>2, LenProperties
<1>10. Tail(queue[e]) = <<>> /\ Cardinality(Done(e)) = Cardinality(Guards)
  <2>1. /\ Len(Tail(queue[e])) = 0
        /\ Cardinality(Done(e)) = Cardinality(Guards)
    <3>1. Cardinality(Done(e)) \in Nat
      BY DoneIsFinite, FS_CardinalityType
    <3> DEFINE l == Len(got)
               t == Len(Tail(queue[e]))
               d == Cardinality(Done(e))
               n == Cardinality(Guards)
    <3>2. l \in Nat /\ t \in Nat /\ d \in Nat /\ n \in Nat /\ d <= n /\ l = n /\ d = l + t
      BY <1>5, <1>7, <1>8, <1>9, <3>1
    <3> HIDE DEF l, t, d, n
    <3>3. t = 0 /\ d = n
      BY <3>2
    <3>4. QED
      BY <3>3 DEF t, d, n
  <2>2. QED
    BY <1>6, <2>1, EmptySeq
<1>11. Answers(e) = got
  BY <1>3, <1>6, <1>10, ConcatEmptySeq
<1>12. Head(queue[e]) \in Reported /\ results[e] \in Seq(Reported)
  BY <1>3, HeadTailProperties DEF Shapes
<1>13. /\ Len(got) = Len(results[e]) + 1 /\ DOMAIN got = 1..(Len(results[e]) + 1)
       /\ \A i \in 1..Len(results[e]) : got[i] = results[e][i]
       /\ Len(results[e]) \in Nat /\ DOMAIN results[e] = 1..Len(results[e])
  BY <1>12, AppendProperties, LenProperties
<1>14. \A i \in DOMAIN got : got[i] \in Reported
  BY <1>3, ElementOfSeq, LenProperties
<1> HIDE DEF got
<1>15. \A i \in DOMAIN got : got[i].result.verdict # "deny"
  BY <1>5, <1>13 DEF AnswersInv
<1>16. \A i \in DOMAIN got : got[i].result.verdict \in {"allow", "unknown"}
  BY <1>14, <1>15 DEF Reported, Results
<1>17. QED
  BY <1>5, <1>7, <1>8, <1>10, <1>11, <1>16 DEF Unanimous, Reporters, AllowPermitted

\* ALLOW is returned only when every registered guard has answered, one with allow and
\* none with a denial, an unknown that applies or incomplete coverage.
THEOREM AllowMeansUnanimousCorrect == Spec => AllowMeansUnanimous
<1>1. Shapes /\ AnswersInv /\ [Next]_vars =>
        [\A e \in Evaluations :
           verdict[e] = "none" /\ verdict'[e] = "allow" => Unanimous(Answers(e))]_vars
  BY AllowIsUnanimous
<1>2. QED
  BY <1>1, ShapesInvariant, AnswersInvariant, PTL DEF Spec, AllowMeansUnanimous


-----------------------------------------------------------------------------
(* Repetitions that are counted were made.                                 *)

HasRecorded(e) == \E i \in DOMAIN recorded : recorded[i] = e

Count(a) == Cardinality(RecordedOf(a))

\* An update of other fields.
NoSequence(u) == "last" \notin DOMAIN u /\ "repeats" \notin DOMAIN u

\* A sequence on its way counts at most itself beyond what has been recorded by now.
CountsItself(e, u) ==
  /\ {"last", "repeats"} \subseteq DOMAIN u
  /\ u.last = action[e] /\ action[e] \in Actions /\ ~HasRecorded(e)
  /\ u.repeats \in Nat /\ u.repeats <= Count(action[e]) + 1

RowInv ==
  /\ \A a \in Actions : IsFiniteSet(RecordedOf(a))
  /\ circuit.repeats \in Nat
  /\ circuit.last \in Actions => circuit.repeats <= Count(circuit.last)

SequenceTask(e) ==
  /\ task[e]["sequence"] \in {"off", "started"} => /\ ~HasRecorded(e)
                                                   /\ NoSequence(pending[e]["sequence"])
  /\ task[e]["sequence"] = "recording" => CountsItself(e, pending[e]["sequence"])
  /\ task[e]["sequence"] = "opening" => /\ Count(action[e]) >= MaxRepeats
                                        /\ NoSequence(pending[e]["sequence"])

PendingOf(e) ==
  /\ action[e] = NoAction => ~HasRecorded(e)
  /\ \A g \in Guards :
       \/ NoSequence(pending[e][g])
       \/ g = "sequence" /\ CountsItself(e, pending[e][g])
  /\ "sequence" \in Guards => SequenceTask(e)

TrippedOf(e) == Tripping(e, "sequence") => Count(action[e]) >= MaxRepeats

RepeatsInv == RowInv /\ \A e \in Evaluations : PendingOf(e) /\ TrippedOf(e)

LEMMA RecordedMember ==
  ASSUME NEW e \in Evaluations, NEW a
  PROVE  e \in RecordedOf(a) <=> HasRecorded(e) /\ action[e] = a
BY DEF RecordedOf, HasRecorded

LEMMA RecordedSubset ==
  ASSUME Shapes, NEW a
  PROVE  RecordedOf(a) \subseteq Evaluations
<1>1. \A i \in DOMAIN recorded : recorded[i] \in Evaluations
  BY ElementOfSeq, LenProperties DEF Shapes
<1>2. QED
  BY <1>1 DEF RecordedOf

\* Whatever a transition merges into the row: the row is still sound, and no count is lower.
LEMMA Merged ==
  ASSUME Shapes, RowInv, NEW e \in Evaluations, NEW g \in Guards, Apply(e, g), action' = action,
         NoSequence(pending[e][g]) \/ CountsItself(e, pending[e][g])
  PROVE  /\ RowInv'
         /\ \A a \in Actions : Count(a) \in Nat /\ Count(a)' \in Nat /\ Count(a)' >= Count(a)
         /\ \A v \in Evaluations : v # e => (HasRecorded(v)' <=> HasRecorded(v))
         /\ NoSequence(pending[e][g]) => recorded' = recorded
         /\ CountsItself(e, pending[e][g]) =>
              circuit'.repeats = pending[e][g].repeats /\ circuit'.repeats <= Count(action[e])'
<1> DEFINE u == pending[e][g]
<1>1. /\ circuit' = Transition(circuit, u)
      /\ recorded' = IF "last" \in DOMAIN u THEN Append(recorded, e) ELSE recorded
  BY DEF Apply
<1>2. \A a \in Actions : IsFiniteSet(RecordedOf(a)) /\ Count(a) \in Nat
  BY FS_CardinalityType DEF RowInv, Count
<1>3. CASE NoSequence(u)
  <2>1. recorded' = recorded /\ circuit'.last = circuit.last /\ circuit'.repeats = circuit.repeats
    BY <1>1, <1>3 DEF NoSequence, Transition, Shapes
  <2>2. \A a : RecordedOf(a)' = RecordedOf(a)
    BY <2>1 DEF RecordedOf
  <2>3. ~CountsItself(e, u)
    BY <1>3 DEF NoSequence, CountsItself
  <2>4. QED
    BY <1>2, <2>1, <2>2, <2>3 DEF RowInv, Count, HasRecorded
<1>4. CASE CountsItself(e, u)
  <2>1. /\ recorded' = Append(recorded, e)
        /\ circuit'.last = action[e] /\ circuit'.repeats = u.repeats
        /\ action[e] \in Actions /\ u.repeats \in Nat /\ u.repeats <= Count(action[e]) + 1
        /\ ~HasRecorded(e) /\ ~NoSequence(u)
    BY <1>1, <1>4 DEF CountsItself, NoSequence, Transition, Shapes
  <2>2. /\ recorded \in Seq(Evaluations) /\ Len(recorded) \in Nat
        /\ DOMAIN recorded = 1..Len(recorded) /\ DOMAIN recorded' = 1..(Len(recorded) + 1)
        /\ \A i \in 1..Len(recorded) : recorded'[i] = recorded[i]
        /\ recorded'[Len(recorded) + 1] = e
    BY <2>1, AppendProperties, LenProperties DEF Shapes
  <2>3. \A v \in Evaluations : HasRecorded(v)' <=> HasRecorded(v) \/ v = e
    BY <2>2 DEF HasRecorded
  <2>4. \A a : RecordedOf(a) \subseteq Evaluations /\ RecordedOf(a)' \subseteq Evaluations
    <3>1. \A i \in DOMAIN recorded' : recorded'[i] \in Evaluations
      BY <2>2, ElementOfSeq
    <3>2. QED
      BY <3>1, RecordedSubset DEF RecordedOf
  <2>5. \A a, v : v \in Evaluations =>
          (v \in RecordedOf(a)' <=> HasRecorded(v)' /\ action[v] = a)
    BY DEF RecordedOf, HasRecorded
  <2>6. \A a : RecordedOf(a)' = IF a = action[e] THEN RecordedOf(a) \cup {e} ELSE RecordedOf(a)
    <3>1. \A a, v : v \in Evaluations =>
            (v \in RecordedOf(a)' <=> v \in RecordedOf(a) \/ (v = e /\ a = action[e]))
      BY <2>3, <2>5, RecordedMember
    <3>2. ASSUME NEW a, a = action[e]
          PROVE  RecordedOf(a)' = RecordedOf(a) \cup {e}
      BY <2>4, <3>1, <3>2
    <3>3. ASSUME NEW a, a # action[e]
          PROVE  RecordedOf(a)' = RecordedOf(a)
      BY <2>4, <3>1, <3>3
    <3>4. QED
      BY <3>2, <3>3
  <2>7. ASSUME NEW a \in Actions
        PROVE  /\ IsFiniteSet(RecordedOf(a)') /\ Count(a)' \in Nat
               /\ Count(a)' = IF a = action[e] THEN Count(a) + 1 ELSE Count(a)
    <3>1. e \notin RecordedOf(action[e])
      BY <2>1, RecordedMember
    <3>2. CASE a = action[e]
      <4>1. RecordedOf(a)' = RecordedOf(a) \cup {e} /\ e \notin RecordedOf(a)
        BY <2>6, <3>1, <3>2
      <4>2. IsFiniteSet(RecordedOf(a)') /\ Cardinality(RecordedOf(a)') = Cardinality(RecordedOf(a)) + 1
        BY <1>2, <4>1, FS_AddElement
      <4>3. QED
        BY <1>2, <3>2, <4>2 DEF Count
    <3>3. CASE a # action[e]
      BY <1>2, <2>6, <3>3 DEF Count
    <3>4. QED
      BY <3>2, <3>3
  <2>8. circuit'.repeats \in Nat /\ circuit'.repeats <= Count(action[e])'
    BY <1>2, <2>1, <2>7
  <2>9. RowInv'
    <3>1. circuit'.last \in Actions => circuit'.repeats <= Count(circuit.last)'
      <4>1. Count(circuit.last)' = Count(action[e])'
        BY <2>1 DEF Count, RecordedOf
      <4>2. QED
        BY <2>8, <4>1
    <3>2. QED
      BY <2>7, <2>8, <3>1 DEF RowInv
  <2>10. QED
    BY <1>2, <2>1, <2>3, <2>7, <2>8, <2>9
<1>5. QED
  BY <1>3, <1>4


LEMMA NoUpdateIsNoSequence == NoSequence(NoUpdate)
BY DEF NoSequence, NoUpdate

LEMMA NeverBegun ==
  ASSUME AnswersInv, NEW e \in Evaluations, action[e] = NoAction, NEW g
  PROVE  ~Tripping(e, g)
<1>1. results[e] = <<>> /\ queue[e] = <<>>
  BY DEF AnswersInv
<1>2. Answers(e) = <<>>
  BY <1>1, EmptySeq, ConcatEmptySeq DEF Answers
<1>3. QED
  BY <1>2 DEF Tripping

\* An evaluation the step does not touch.
LEMMA OthersKept ==
  ASSUME Shapes, Shapes', AnswersInv, RepeatsInv, NEW v \in Evaluations,
         UNCHANGED <<Guards, action>>,
         \A a \in Actions : Count(a) \in Nat /\ Count(a)' \in Nat /\ Count(a)' >= Count(a),
         HasRecorded(v)' <=> HasRecorded(v),
         task'[v] = task[v], pending'[v] = pending[v],
         Tripping(v, "sequence")' => Tripping(v, "sequence")
  PROVE  PendingOf(v)' /\ TrippedOf(v)'
<1>1. action[v] \in Actions \/ action[v] = NoAction
  BY DEF Shapes
<1>2. PendingOf(v) /\ TrippedOf(v)
  BY DEF RepeatsInv
<1>4. MaxRepeats \in Nat
  BY PipelineConstants
<1>5. CASE action[v] \in Actions
  <2>1. /\ Count(action[v]) \in Nat /\ Count(action[v])' \in Nat
        /\ Count(action[v])' >= Count(action[v])
    BY <1>5
  <2>2. \A u : CountsItself(v, u) => CountsItself(v, u)'
    BY <1>5, <2>1 DEF CountsItself
  <2>3. Count(action[v]) >= MaxRepeats => Count(action[v])' >= MaxRepeats
    BY <1>4, <2>1
  <2>4. TrippedOf(v)'
    BY <1>2, <2>3 DEF TrippedOf
  <2>5. PendingOf(v)'
    BY <1>2, <1>5, <2>2, <2>3 DEF PendingOf, SequenceTask, NoSequence
  <2>6. QED
    BY <2>4, <2>5
<1>6. CASE action[v] = NoAction
  <2>1. ~Tripping(v, "sequence") /\ \A g \in Guards : task[v][g] = "off"
    BY <1>6, NeverBegun DEF AnswersInv
  <2>2. \A u : ~CountsItself(v, u)
    BY <1>6, CircuitConstants DEF CountsItself
  <2>3. PendingOf(v)'
    BY <1>2, <1>6, <2>1, <2>2 DEF PendingOf, SequenceTask, NoSequence
  <2>4. QED
    BY <2>1, <2>3 DEF TrippedOf
<1>7. QED
  BY <1>1, <1>5, <1>6

\* What changes in an evaluation of which a task ends.
LEMMA NewTrips ==
  ASSUME Shapes, NEW e \in Evaluations, NEW g \in Guards, NEW r \in Results, Put(e, g, r),
         results' = results, NEW v \in Evaluations, Tripping(v, "sequence")'
  PROVE  Tripping(v, "sequence") \/ (v = e /\ g = "sequence" /\ r = Tripped)
<1> DEFINE x == [guard |-> g, result |-> r]
<1>1. x \in Reported /\ queue'[e] = Append(queue[e], x)
  BY PutShapes
<1>2. CASE v # e
  BY <1>2 DEF Put, Tripping, Answers, Shapes
<1>3. CASE v = e
  <2>1. Answers(e)' = Append(Answers(e), x) /\ Answers(e) \in Seq(Reported)
    BY <1>1, AnswerAdded, ConcatProperties DEF Answers, Shapes
  <2>2. /\ DOMAIN Answers(e) = 1..Len(Answers(e)) /\ Len(Answers(e)) \in Nat
        /\ DOMAIN Answers(e)' = 1..(Len(Answers(e)) + 1)
        /\ \A i \in 1..Len(Answers(e)) : Answers(e)'[i] = Answers(e)[i]
        /\ Answers(e)'[Len(Answers(e)) + 1] = x
    BY <1>1, <2>1, AppendProperties, LenProperties
  <2>3. PICK i \in DOMAIN Answers(e)' : Answers(e)'[i] = [guard |-> "sequence", result |-> Tripped]
    BY <1>3 DEF Tripping
  <2>4. CASE i \in 1..Len(Answers(e))
    BY <1>3, <2>2, <2>3, <2>4 DEF Tripping
  <2>5. CASE i = Len(Answers(e)) + 1
    <3>1. x = [guard |-> "sequence", result |-> Tripped]
      BY <2>2, <2>3, <2>5
    <3>2. x.guard = g /\ x.result = r
      OBVIOUS
    <3>3. QED
      BY <1>3, <3>1, <3>2
  <2>6. QED
    BY <2>2, <2>3, <2>4, <2>5
<1>4. QED
  BY <1>2, <1>3

LEMMA CountsStay ==
  ASSUME RowInv, UNCHANGED <<recorded, action>>
  PROVE  /\ \A a \in Actions : Count(a) \in Nat /\ Count(a)' \in Nat /\ Count(a)' >= Count(a)
         /\ \A v : HasRecorded(v)' <=> HasRecorded(v)
<1>1. \A a : RecordedOf(a)' = RecordedOf(a)
  BY DEF RecordedOf
<1>2. QED
  BY <1>1, FS_CardinalityType DEF RowInv, Count, HasRecorded

\* The row, or what a transition makes of it.
LEMMA RowKept ==
  ASSUME Shapes, RepeatsInv, NEW e \in Evaluations, NEW g \in Guards, action' = action,
         UNCHANGED <<circuit, recorded>> \/ Apply(e, g)
  PROVE  /\ RowInv'
         /\ \A a \in Actions : Count(a) \in Nat /\ Count(a)' \in Nat /\ Count(a)' >= Count(a)
         /\ \A v \in Evaluations : v # e => (HasRecorded(v)' <=> HasRecorded(v))
         /\ g # "sequence" => (HasRecorded(e)' <=> HasRecorded(e))
<1>1. NoSequence(pending[e][g]) \/ (g = "sequence" /\ CountsItself(e, pending[e][g]))
  BY DEF RepeatsInv, PendingOf
<1>2. CASE Apply(e, g)
  BY <1>1, <1>2, Merged DEF RepeatsInv, HasRecorded
<1>3. CASE UNCHANGED <<circuit, recorded>>
  BY <1>3, CountsStay DEF RepeatsInv, RowInv, RecordedOf, Count
<1>4. QED
  BY <1>2, <1>3

\* The other task of an evaluation of which one has made a step.
LEMMA OtherTaskKept ==
  ASSUME Shapes, AnswersInv, RepeatsInv, NEW e \in Evaluations, NEW g \in Guards,
         UNCHANGED <<Guards, action>>, action[e] \in Actions,
         \A a \in Actions : Count(a) \in Nat /\ Count(a)' \in Nat /\ Count(a)' >= Count(a),
         \A h \in Guards \ {g} : task'[e][h] = task[e][h] /\ pending'[e][h] = pending[e][h],
         NoSequence(pending'[e][g]), 
         g # "sequence" => (HasRecorded(e)' <=> HasRecorded(e)),
         g = "sequence" => /\ task'[e][g] \notin {"off", "started", "recording"}
                           /\ task'[e][g] = "opening" => Count(action[e])' >= MaxRepeats
  PROVE  PendingOf(e)'
<1>1. PendingOf(e)
  BY DEF RepeatsInv
<1>2. /\ Count(action[e]) \in Nat /\ Count(action[e])' \in Nat
      /\ Count(action[e])' >= Count(action[e])
  OBVIOUS
<1>3. MaxRepeats \in Nat
  BY PipelineConstants
<1>4. action'[e] # NoAction
  BY CircuitConstants
<1>5. CASE g = "sequence"
  BY <1>1, <1>4, <1>5 DEF PendingOf, SequenceTask, NoSequence
<1>6. CASE g # "sequence"
  <2>1. \A u : CountsItself(e, u) => CountsItself(e, u)'
    BY <1>2, <1>6 DEF CountsItself
  <2>2. Count(action[e]) >= MaxRepeats => Count(action[e])' >= MaxRepeats
    BY <1>2, <1>3
  <2>3. ASSUME NEW h \in Guards
        PROVE  NoSequence(pending[e][h])' \/ (h = "sequence" /\ CountsItself(e, pending[e][h])')
    <3>1. CASE h = g
      BY <3>1
    <3>2. CASE h # g
      <4>1. pending'[e][h] = pending[e][h]
        BY <3>2
      <4>2. NoSequence(pending[e][h]) \/ (h = "sequence" /\ CountsItself(e, pending[e][h]))
        BY <1>1 DEF PendingOf
      <4>3. QED
        BY <2>1, <4>1, <4>2
    <3>3. QED
      BY <3>1, <3>2
  <2>4. ASSUME "sequence" \in Guards
        PROVE  SequenceTask(e)'
    <3>1. /\ task'[e]["sequence"] = task[e]["sequence"]
          /\ pending'[e]["sequence"] = pending[e]["sequence"]
      BY <1>6, <2>4
    <3>2. SequenceTask(e)
      BY <1>1, <2>4 DEF PendingOf
    <3>3. QED
      BY <1>6, <2>1, <2>2, <3>1, <3>2 DEF SequenceTask, NoSequence
  <2>5. QED
    BY <1>4, <2>3, <2>4 DEF PendingOf
<1>7. QED
  BY <1>5, <1>6


\* A task ends with an answer; a transition may have been merged before.
LEMMA EndKept ==
  ASSUME Shapes, Shapes', AnswersInv, RepeatsInv, NEW e \in Evaluations, NEW g \in Guards,
         NEW r \in Results, Put(e, g, r), task[e][g] # "off",
         UNCHANGED <<circuit, recorded>> \/ Apply(e, g),
         UNCHANGED <<Guards, action, results>>,
         g = "sequence" /\ r = Tripped => Count(action[e])' >= MaxRepeats
  PROVE  RepeatsInv'
<1>1. /\ RowInv'
      /\ \A a \in Actions : Count(a) \in Nat /\ Count(a)' \in Nat /\ Count(a)' >= Count(a)
      /\ \A v \in Evaluations : v # e => (HasRecorded(v)' <=> HasRecorded(v))
      /\ g # "sequence" => (HasRecorded(e)' <=> HasRecorded(e))
  BY RowKept
<1>2. action[e] \in Actions
  BY DEF Shapes, AnswersInv
<1>3. /\ \A h \in Guards \ {g} : task'[e][h] = task[e][h] /\ pending'[e][h] = pending[e][h]
      /\ task'[e][g] = "done" /\ pending'[e][g] = NoUpdate
      /\ \A v \in Evaluations : v # e => task'[v] = task[v] /\ pending'[v] = pending[v]
  BY DEF Put, Shapes
<1>4. PendingOf(e)'
  BY <1>1, <1>2, <1>3, OtherTaskKept, NoUpdateIsNoSequence
<1>5. TrippedOf(e)'
  <2>1. SUFFICES ASSUME Tripping(e, "sequence")'
                 PROVE  Count(action[e])' >= MaxRepeats
    BY DEF TrippedOf
  <2>2. Tripping(e, "sequence") \/ (g = "sequence" /\ r = Tripped)
    BY <2>1, NewTrips
  <2>3. CASE Tripping(e, "sequence")
    <3>1. Count(action[e]) >= MaxRepeats
      BY <2>3 DEF RepeatsInv, TrippedOf
    <3>2. /\ Count(action[e]) \in Nat /\ Count(action[e])' \in Nat
          /\ Count(action[e])' >= Count(action[e])
      BY <1>1, <1>2
    <3>3. QED
      BY <3>1, <3>2, PipelineConstants
  <2>4. QED
    BY <2>2, <2>3
<1>6. ASSUME NEW v \in Evaluations, v # e
      PROVE  PendingOf(v)' /\ TrippedOf(v)'
  <2>1. Tripping(v, "sequence")' => Tripping(v, "sequence")
    BY <1>6, NewTrips
  <2>2. QED
    BY <1>1, <1>3, <1>6, <2>1, OthersKept
<1>7. QED
  BY <1>1, <1>4, <1>5, <1>6 DEF RepeatsInv

\* The steps of a task that do not end it.
LEMMA StepKept ==
  ASSUME Shapes, Shapes', AnswersInv, RepeatsInv, NEW e \in Evaluations, NEW g \in Guards,
         task[e][g] # "off",
         UNCHANGED <<circuit, recorded>> \/ Apply(e, g),
         UNCHANGED <<Guards, action, results, queue>>,
         \A h \in Guards \ {g} : task'[e][h] = task[e][h] /\ pending'[e][h] = pending[e][h],
         \A v \in Evaluations : v # e => task'[v] = task[v] /\ pending'[v] = pending[v],
         PendingOf(e)'
  PROVE  RepeatsInv'
<1>1. /\ RowInv'
      /\ \A a \in Actions : Count(a) \in Nat /\ Count(a)' \in Nat /\ Count(a)' >= Count(a)
      /\ \A v \in Evaluations : v # e => (HasRecorded(v)' <=> HasRecorded(v))
  BY RowKept
<1>2. \A v \in Evaluations : Tripping(v, "sequence")' <=> Tripping(v, "sequence")
  BY DEF Tripping, Answers
<1>3. TrippedOf(e)'
  <2>1. action[e] \in Actions
    BY DEF Shapes, AnswersInv
  <2>2. /\ Count(action[e]) \in Nat /\ Count(action[e])' \in Nat
        /\ Count(action[e])' >= Count(action[e])
    BY <1>1, <2>1
  <2>3. TrippedOf(e)
    BY DEF RepeatsInv
  <2>4. QED
    BY <1>2, <2>2, <2>3, PipelineConstants DEF TrippedOf
<1>4. ASSUME NEW v \in Evaluations, v # e
      PROVE  PendingOf(v)' /\ TrippedOf(v)'
  BY <1>1, <1>2, <1>4, OthersKept
<1>5. QED
  BY <1>1, <1>3, <1>4 DEF RepeatsInv

\* The loop returns, and what is left of the evaluation is cancelled.
LEMMA CancelKept ==
  ASSUME Shapes, Shapes', AnswersInv, RepeatsInv, NEW e \in Evaluations, action[e] # NoAction,
         CancelRest(e) \/ UNCHANGED <<task, pending>>,
         UNCHANGED <<Guards, action, circuit, recorded>>,
         \A v \in Evaluations : Tripping(v, "sequence")' => Tripping(v, "sequence")
  PROVE  RepeatsInv'
<1>1. /\ \A a \in Actions : Count(a) \in Nat /\ Count(a)' \in Nat /\ Count(a)' >= Count(a)
      /\ \A v : HasRecorded(v)' <=> HasRecorded(v)
  BY CountsStay DEF RepeatsInv
<1>2. RowInv'
  BY DEF RepeatsInv, RowInv, RecordedOf, Count
<1>3. \A v \in Evaluations : v # e => task'[v] = task[v] /\ pending'[v] = pending[v]
  BY CancelShapes
<1>4. ASSUME NEW v \in Evaluations, v # e \/ UNCHANGED <<task, pending>>
      PROVE  PendingOf(v)' /\ TrippedOf(v)'
  BY <1>1, <1>3, <1>4, OthersKept
<1>5. ASSUME CancelRest(e)
      PROVE  PendingOf(e)' /\ TrippedOf(e)'
  <2>1. /\ \A g \in Guards : task'[e][g] \in {"done", "orphan", "cancelled"}
        /\ \A g \in Guards : pending'[e][g] \in {pending[e][g], NoUpdate}
    BY <1>5, CancelShapes
  <2>2. /\ action[e] \in Actions /\ Count(action[e]) \in Nat /\ Count(action[e])' \in Nat
        /\ Count(action[e])' >= Count(action[e])
    BY <1>1 DEF Shapes
  <2>3. PendingOf(e) /\ TrippedOf(e)
    BY DEF RepeatsInv
  <2>4. \A u : CountsItself(e, u) => CountsItself(e, u)'
    BY <1>1, <2>2 DEF CountsItself
  <2>5. ASSUME NEW g \in Guards
        PROVE  NoSequence(pending[e][g])' \/ (g = "sequence" /\ CountsItself(e, pending[e][g])')
    <3>1. CASE pending'[e][g] = NoUpdate
      BY <3>1, NoUpdateIsNoSequence
    <3>2. CASE pending'[e][g] = pending[e][g]
      <4>1. NoSequence(pending[e][g]) \/ (g = "sequence" /\ CountsItself(e, pending[e][g]))
        BY <2>3 DEF PendingOf
      <4>2. QED
        BY <2>4, <3>2, <4>1
    <3>3. QED
      BY <2>1, <3>1, <3>2
  <2>6. PendingOf(e)'
    BY <2>1, <2>2, <2>5, CircuitConstants DEF PendingOf, SequenceTask
  <2>7. TrippedOf(e)'
    BY <2>2, <2>3, PipelineConstants DEF TrippedOf
  <2>8. QED
    BY <2>6, <2>7
<1>6. QED
  BY <1>2, <1>4, <1>5 DEF RepeatsInv


\* What the manager computes from its read counts the repetition it is about to record.
LEMMA SequenceCountsItself ==
  ASSUME Shapes, RepeatsInv, NEW e \in Evaluations, action[e] \in Actions, ~HasRecorded(e)
  PROVE  CountsItself(e, Sequence(circuit, action[e]))
<1> DEFINE u == Sequence(circuit, action[e])
<1>1. /\ DOMAIN u = {"last", "repeats"} /\ u.last = action[e]
      /\ u.repeats = IF circuit.last = action[e] THEN circuit.repeats + 1 ELSE 1
  BY DEF Sequence
<1>2. Count(action[e]) \in Nat
  BY FS_CardinalityType DEF RepeatsInv, RowInv, Count
<1>3. circuit.repeats \in Nat /\ (circuit.last = action[e] => circuit.repeats <= Count(action[e]))
  BY DEF RepeatsInv, RowInv
<1> HIDE DEF u
<1>4. u.repeats \in Nat /\ u.repeats <= Count(action[e]) + 1
  BY <1>1, <1>2, <1>3
<1>5. CountsItself(e, u)
  BY <1>1, <1>4 DEF CountsItself
<1>6. QED
  BY <1>5 DEF u

LEMMA RepeatsInvariant == Spec => []RepeatsInv
<1>1. ASSUME Init
      PROVE  RepeatsInv
  <2>1. recorded = <<>> /\ circuit.last = NoAction /\ circuit.repeats = 0
    BY <1>1 DEF Init, NewCircuit
  <2>2. \A a : RecordedOf(a) = {}
    BY <2>1 DEF RecordedOf
  <2>3. RowInv
    <3>1. IsFiniteSet({}) /\ circuit.last \notin Actions
      BY <2>1, FS_EmptySet, CircuitConstants
    <3>2. \A a \in Actions : IsFiniteSet(RecordedOf(a))
      BY <2>2, <3>1
    <3>3. QED
      BY <2>1, <3>1, <3>2 DEF RowInv
  <2>4. ASSUME NEW e \in Evaluations
        PROVE  PendingOf(e) /\ TrippedOf(e)
    <3>1. ~HasRecorded(e)
      BY <2>1 DEF HasRecorded
    <3>2. \A g \in Guards : task[e][g] = "off" /\ pending[e][g] = NoUpdate
      BY <1>1 DEF Init
    <3>3. PendingOf(e)
      BY <3>1, <3>2, NoUpdateIsNoSequence DEF PendingOf, SequenceTask
    <3>4. Answers(e) = <<>>
      BY <1>1, EmptySeq, ConcatEmptySeq DEF Init, Answers
    <3>5. QED
      BY <3>3, <3>4 DEF TrippedOf, Tripping
  <2>5. QED
    BY <2>3, <2>4 DEF RepeatsInv
<1>2. ASSUME Shapes, Shapes', AnswersInv, RepeatsInv, [Next]_vars
      PROVE  RepeatsInv'
  <2>1. ASSUME NEW e \in Evaluations, NEW a \in Actions, Begin(e, a)
        PROVE  RepeatsInv'
    <3>1. /\ action[e] = NoAction /\ action'[e] = a
          /\ \A v \in Evaluations : v # e => action'[v] = action[v] /\ task'[v] = task[v]
          /\ \A g \in Guards : task'[e][g] = "started"
          /\ UNCHANGED <<Guards, circuit, pending, queue, results, recorded>>
      BY <1>2, <2>1 DEF Begin, Shapes
    <3>2. ~HasRecorded(e) /\ \A v : HasRecorded(v)' <=> HasRecorded(v)
      BY <1>2, <3>1 DEF RepeatsInv, PendingOf, HasRecorded
    <3>3. \A b \in Actions : RecordedOf(b)' = RecordedOf(b)
      <4>1. \A i \in DOMAIN recorded : recorded[i] \in Evaluations /\ recorded[i] # e
        BY <1>2, <3>2, ElementOfSeq, LenProperties DEF Shapes, HasRecorded
      <4>2. \A i \in DOMAIN recorded : action'[recorded[i]] = action[recorded[i]]
        BY <3>1, <4>1
      <4>3. QED
        BY <3>1, <4>2 DEF RecordedOf
    <3>4. \A b \in Actions : Count(b)' = Count(b)
      BY <3>3 DEF Count
    <3>5. RowInv'
      <4>1. circuit.last \in Actions => Count(circuit.last)' = Count(circuit.last)
        BY <3>1, <3>4
      <4>2. QED
        BY <1>2, <3>1, <3>3, <4>1 DEF RepeatsInv, RowInv
    <3>6. ASSUME NEW v \in Evaluations, v # e
          PROVE  PendingOf(v)' /\ TrippedOf(v)'
      <4>1. action'[v] = action[v] /\ task'[v] = task[v] /\ pending'[v] = pending[v]
            /\ (action[v] \in Actions \/ action[v] = NoAction)
        BY <1>2, <3>1, <3>6 DEF Shapes
      <4>2. Tripping(v, "sequence")' <=> Tripping(v, "sequence")
        BY <3>1 DEF Tripping, Answers
      <4>3. PendingOf(v) /\ TrippedOf(v)
        BY <1>2 DEF RepeatsInv
      <4>4. CASE action[v] = NoAction
        <5>1. ~Tripping(v, "sequence") /\ \A g \in Guards : task[v][g] = "off"
          BY <1>2, <4>4, NeverBegun DEF AnswersInv
        <5>2. \A u : ~CountsItself(v, u)
          BY <4>4, CircuitConstants DEF CountsItself
        <5>3. PendingOf(v)'
          BY <3>1, <3>2, <4>1, <4>3, <5>1, <5>2 DEF PendingOf, SequenceTask, NoSequence
        <5>4. QED
          BY <4>2, <5>1, <5>3 DEF TrippedOf
      <4>5. CASE action[v] \in Actions
        <5>1. Count(action[v])' = Count(action[v])
          <6>1. Count(action[v])' = Cardinality(RecordedOf(action[v])')
            BY <4>1 DEF Count
          <6>2. RecordedOf(action[v])' = RecordedOf(action[v])
            BY <3>3, <4>1, <4>5
          <6>3. QED
            BY <6>1, <6>2 DEF Count
        <5>2. \A u : CountsItself(v, u) => CountsItself(v, u)'
          BY <3>2, <4>1, <4>5, <5>1 DEF CountsItself
        <5>3. PendingOf(v)'
          BY <3>1, <3>2, <4>1, <4>3, <5>1, <5>2 DEF PendingOf, SequenceTask, NoSequence
        <5>4. QED
          BY <4>2, <4>3, <5>1, <5>3 DEF TrippedOf
      <4>6. QED
        BY <4>1, <4>4, <4>5
    <3>7. PendingOf(e)' /\ TrippedOf(e)'
      <4>1. \A u : ~CountsItself(e, u)
        BY <3>1, CircuitConstants DEF CountsItself
      <4>2. \A g \in Guards : NoSequence(pending[e][g])
        BY <1>2, <4>1 DEF RepeatsInv, PendingOf
      <4>3. ~Tripping(e, "sequence")
        BY <1>2, <3>1, NeverBegun
      <4>4. ~Tripping(e, "sequence")'
        BY <3>1, <4>3 DEF Tripping, Answers
      <4>5. PendingOf(e)'
        BY <3>1, <3>2, <4>2 DEF PendingOf, SequenceTask, NoSequence
      <4>6. QED
        BY <4>4, <4>5 DEF TrippedOf
    <3>8. QED
      BY <3>5, <3>6, <3>7 DEF RepeatsInv
  <2>2. ASSUME NEW e \in Evaluations, NEW g \in Guards, NEW u, Read(e, g, u),
               IF g = "sequence" THEN CountsItself(e, u) ELSE NoSequence(u)
        PROVE  RepeatsInv'
    <3>1. /\ task[e][g] = "started" /\ task'[e][g] = "recording" /\ pending'[e][g] = u
          /\ \A h \in Guards \ {g} : task'[e][h] = task[e][h] /\ pending'[e][h] = pending[e][h]
          /\ \A v \in Evaluations : v # e => task'[v] = task[v] /\ pending'[v] = pending[v]
          /\ UNCHANGED <<Guards, circuit, action, queue, results, recorded>>
      BY <1>2, <2>2 DEF Read, Shapes
    <3>2. action[e] \in Actions
      BY <1>2, <3>1 DEF Shapes, AnswersInv
    <3>3. /\ \A a \in Actions : Count(a) \in Nat /\ Count(a)' \in Nat /\ Count(a)' >= Count(a)
          /\ \A v : HasRecorded(v)' <=> HasRecorded(v)
      BY <1>2, <3>1, CountsStay DEF RepeatsInv
    <3>4. CASE g = "sequence"
      <4>1. CountsItself(e, u)'
        <5>1. Count(action[e]) \in Nat /\ Count(action[e])' \in Nat
              /\ Count(action[e])' >= Count(action[e])
          BY <3>1, <3>2, <3>3
        <5>2. QED
          BY <2>2, <3>1, <3>3, <3>4, <5>1 DEF CountsItself
      <4>2. PendingOf(e)
        BY <1>2 DEF RepeatsInv
      <4>3. PendingOf(e)'
        BY <3>1, <3>2, <3>4, <4>1, <4>2, CircuitConstants DEF PendingOf, SequenceTask, NoSequence
      <4>4. QED
        BY <1>2, <3>1, <4>3, StepKept
    <3>5. CASE g # "sequence"
      <4>1. PendingOf(e)'
        BY <1>2, <2>2, <3>1, <3>2, <3>3, <3>5, OtherTaskKept
      <4>2. QED
        BY <1>2, <3>1, <4>1, StepKept
    <3>6. QED
      BY <3>4, <3>5
  <2>3. ASSUME NEW e \in Evaluations, NEW g \in Guards, Guard(e, g)
        PROVE  RepeatsInv'
    <3> DEFINE u == pending[e][g]
    <3>1. CASE Inspect(e) /\ g = "inspector"
      <4>1. PICK r \in Inspections : Put(e, g, r)
        BY <3>1 DEF Inspect
      <4>2. QED
        BY <1>2, <3>1, <4>1, EndKept, ResultTypes DEF Inspect
    <3>2. CASE ReadSequence(e) /\ g = "sequence"
      <4>1. task[e][g] = "started" /\ Read(e, g, Sequence(circuit, action[e]))
        BY <3>2 DEF ReadSequence, Read
      <4>2. action[e] \in Actions /\ ~HasRecorded(e)
        BY <1>2, <3>2, <4>1 DEF Shapes, AnswersInv, RepeatsInv, PendingOf, SequenceTask
      <4>3. QED
        BY <1>2, <2>2, <3>2, <4>1, <4>2, SequenceCountsItself
    <3>3. CASE (ReadCalls(e) \/ ReadProgress(e)) /\ g = "halting"
      BY <2>2, <2>3, <3>3 DEF ReadCalls, ReadProgress, ToolCall, Progress, NoSequence
    <3>4. CASE Record(e, g)
      <4>1. /\ task[e][g] = "recording" /\ Apply(e, g)
            /\ UNCHANGED <<Guards, action, results>>
        BY <3>4 DEF Record
      <4>2. action[e] \in Actions
        BY <1>2, <4>1 DEF Shapes, AnswersInv
      <4>3. CASE Put(e, g, Allows)
        <5>1. Allows # Tripped
          BY DEF Allows, Tripped, Denies, Result
        <5>2. QED
          BY <1>2, <4>1, <4>3, <5>1, EndKept, ResultTypes
      <4>4. CASE /\ Trips(e, g, circuit') /\ UNCHANGED queue
                 /\ task' = [task EXCEPT ![e][g] = "opening"]
                 /\ pending' = [pending EXCEPT ![e][g] = Opened(ReasonOf(g))]
        <5>1. /\ task'[e][g] = "opening" /\ pending'[e][g] = Opened(ReasonOf(g))
              /\ \A h \in Guards \ {g} : task'[e][h] = task[e][h] /\ pending'[e][h] = pending[e][h]
              /\ \A v \in Evaluations : v # e => task'[v] = task[v] /\ pending'[v] = pending[v]
          BY <1>2, <4>4 DEF Shapes
        <5>2. NoSequence(pending'[e][g])
          BY <5>1 DEF NoSequence, Opened
        <5>3. /\ \A a \in Actions : Count(a) \in Nat /\ Count(a)' \in Nat /\ Count(a)' >= Count(a)
              /\ g # "sequence" => (HasRecorded(e)' <=> HasRecorded(e))
          BY <1>2, <4>1, RowKept
        <5>4. ASSUME g = "sequence"
              PROVE  Count(action[e])' >= MaxRepeats
          <6>1. CountsItself(e, u)
            BY <1>2, <4>1, <5>4 DEF RepeatsInv, PendingOf, SequenceTask
          <6>2. circuit'.repeats = u.repeats /\ circuit'.repeats <= Count(action[e])'
                /\ u.repeats \in Nat
            BY <1>2, <4>1, <6>1, Merged DEF RepeatsInv, CountsItself
          <6>3. circuit'.repeats >= MaxRepeats
            BY <4>4, <5>4 DEF Trips, Repeats
          <6>4. Count(action[e])' \in Nat
            BY <4>1, <4>2, <5>3
          <6>5. QED
            BY <6>2, <6>3, <6>4, PipelineConstants
        <5>5. PendingOf(e)'
          BY <1>2, <4>1, <4>2, <5>1, <5>2, <5>3, <5>4, OtherTaskKept
        <5>6. QED
          BY <1>2, <4>1, <4>4, <5>1, <5>5, StepKept
      <4>5. QED
        BY <3>4, <4>3, <4>4 DEF Record
    <3>5. CASE Open(e, g)
      <4>1. /\ task[e][g] = "opening" /\ Apply(e, g) /\ Put(e, g, Tripped)
            /\ UNCHANGED <<Guards, action, results>>
        BY <3>5 DEF Open
      <4>2. ASSUME g = "sequence"
            PROVE  Count(action[e])' >= MaxRepeats
        <5>1. Count(action[e]) >= MaxRepeats /\ action[e] \in Actions
          BY <1>2, <4>1, <4>2 DEF RepeatsInv, PendingOf, SequenceTask, Shapes, AnswersInv
        <5>2. \A a \in Actions : Count(a) \in Nat /\ Count(a)' \in Nat /\ Count(a)' >= Count(a)
          BY <1>2, <4>1, RowKept
        <5>3. /\ Count(action[e]) \in Nat /\ Count(action[e])' \in Nat
              /\ Count(action[e])' >= Count(action[e])
          BY <4>1, <5>1, <5>2
        <5>4. QED
          BY <5>1, <5>3, PipelineConstants
      <4>3. QED
        BY <1>2, <4>1, <4>2, EndKept, ResultTypes
    <3>6. CASE StoreFails(e, g)
      <4>1. Raised # Tripped
        BY DEF Raised, Tripped, Denies, Result
      <4>2. QED
        BY <1>2, <3>6, <4>1, EndKept, ResultTypes DEF StoreFails
    <3>7. CASE Land(e, g)
      <4>1. /\ task[e][g] = "orphan" /\ Apply(e, g)
            /\ task'[e][g] = "cancelled" /\ pending'[e][g] = NoUpdate
            /\ \A h \in Guards \ {g} : task'[e][h] = task[e][h] /\ pending'[e][h] = pending[e][h]
            /\ \A v \in Evaluations : v # e => task'[v] = task[v] /\ pending'[v] = pending[v]
            /\ UNCHANGED <<Guards, action, results, queue>>
        BY <1>2, <3>7 DEF Land, Shapes
      <4>2. action[e] \in Actions
        BY <1>2, <4>1 DEF Shapes, AnswersInv
      <4>3. /\ \A a \in Actions : Count(a) \in Nat /\ Count(a)' \in Nat /\ Count(a)' >= Count(a)
            /\ g # "sequence" => (HasRecorded(e)' <=> HasRecorded(e))
        BY <1>2, <4>1, RowKept
      <4>4. PendingOf(e)'
        BY <1>2, <4>1, <4>2, <4>3, OtherTaskKept, NoUpdateIsNoSequence
      <4>5. QED
        BY <1>2, <4>1, <4>4, StepKept
    <3>8. QED
      BY <2>3, <3>1, <3>2, <3>3, <3>4, <3>5, <3>6, <3>7 DEF Guard
  <2>4. ASSUME NEW e \in Evaluations, Collect(e)
        PROVE  RepeatsInv'
    <3> DEFINE got == Append(results[e], Head(queue[e]))
               v   == VerdictOf(got)
    <3>1. /\ verdict[e] = "none" /\ queue[e] # <<>>
          /\ results' = [results EXCEPT ![e] = IF v = "none" THEN got ELSE <<>>]
          /\ queue' = [queue EXCEPT ![e] = IF v = "none" THEN Tail(queue[e]) ELSE <<>>]
          /\ CancelRest(e) \/ UNCHANGED <<task, pending>>
          /\ UNCHANGED <<Guards, circuit, action, recorded>>
      BY <1>2, <2>4, Turn
    <3>2. action[e] # NoAction
      BY <1>2, <3>1 DEF AnswersInv
    <3>3. got \o Tail(queue[e]) = Answers(e)
      BY <1>2, <3>1, NextAnswer
    <3> HIDE DEF got, v
    <3>4. \A w \in Evaluations : Answers(w)' = Answers(w) \/ Answers(w)' = <<>>
      <4>1. ASSUME NEW w \in Evaluations, w # e
            PROVE  Answers(w)' = Answers(w)
        BY <1>2, <3>1, <4>1 DEF Answers, Shapes
      <4>2. CASE v = "none"
        BY <1>2, <3>1, <3>3, <4>1, <4>2 DEF Answers, Shapes
      <4>3. CASE v # "none"
        <5>1. results'[e] = <<>> /\ queue'[e] = <<>>
          BY <1>2, <3>1, <4>3 DEF Shapes
        <5>2. QED
          BY <4>1, <5>1, EmptySeq, ConcatEmptySeq DEF Answers
      <4>4. QED
        BY <4>2, <4>3
    <3>5. \A w \in Evaluations : Tripping(w, "sequence")' => Tripping(w, "sequence")
      BY <3>4 DEF Tripping
    <3>6. QED
      BY <1>2, <3>1, <3>2, <3>5, CancelKept
  <2>5. ASSUME NEW e \in Evaluations, GiveUp(e)
        PROVE  RepeatsInv'
    <3>1. /\ action[e] # NoAction /\ CancelRest(e)
          /\ results' = [results EXCEPT ![e] = <<>>] /\ queue' = [queue EXCEPT ![e] = <<>>]
          /\ UNCHANGED <<Guards, circuit, action, recorded>>
      BY <2>5 DEF GiveUp, Conclude
    <3>2. \A w \in Evaluations : w # e => Answers(w)' = Answers(w)
      BY <1>2, <3>1 DEF Answers, Shapes
    <3>3. Answers(e)' = <<>>
      <4>1. results'[e] = <<>> /\ queue'[e] = <<>>
        BY <1>2, <3>1 DEF Shapes
      <4>2. QED
        BY <4>1, EmptySeq, ConcatEmptySeq DEF Answers
    <3>4. \A w \in Evaluations : Tripping(w, "sequence")' => Tripping(w, "sequence")
      BY <3>2, <3>3 DEF Tripping
    <3>5. QED
      BY <1>2, <3>1, <3>4, CancelKept
  <2>6. CASE Tick \/ UNCHANGED vars
    <3>1. UNCHANGED <<Guards, circuit, action, task, pending, queue, results, recorded>>
      BY <2>6 DEF Tick, vars
    <3>2. /\ \A a \in Actions : Count(a) \in Nat /\ Count(a)' \in Nat /\ Count(a)' >= Count(a)
          /\ \A v : HasRecorded(v)' <=> HasRecorded(v)
      BY <1>2, <3>1, CountsStay DEF RepeatsInv
    <3>3. RowInv'
      BY <1>2, <3>1 DEF RepeatsInv, RowInv, RecordedOf, Count
    <3>4. \A v \in Evaluations : Tripping(v, "sequence")' <=> Tripping(v, "sequence")
      BY <3>1 DEF Tripping, Answers
    <3>5. ASSUME NEW v \in Evaluations
          PROVE  PendingOf(v)' /\ TrippedOf(v)'
      BY <1>2, <3>1, <3>2, <3>4, <3>5, OthersKept
    <3>6. QED
      BY <3>3, <3>5 DEF RepeatsInv
  <2>7. QED
    BY <1>2, <2>1, <2>3, <2>4, <2>5, <2>6 DEF Next
<1>3. QED
  BY <1>1, <1>2, ShapesInvariant, AnswersInvariant, PTL DEF Spec

\* However evaluations overlap, the sequence breaker trips only on an action that
\* max_repeats evaluations have recorded.
THEOREM TripsOnlyOnRepeatsCorrect == Spec => []TripsOnlyOnRepeats
<1>1. RepeatsInv => TripsOnlyOnRepeats
  BY DEF RepeatsInv, TrippedOf, TripsOnlyOnRepeats, Count
<1>2. QED
  BY <1>1, RepeatsInvariant, PTL

-----------------------------------------------------------------------------
(* Loops that do not overlap are broken.                                   *)

\* Where the row's streak of an action began, and every place since.
Streak(a) == {j \in DOMAIN recorded : \A k \in j..Len(recorded) : action[recorded[k]] = a}

OnItsWay(e) == "sequence" \in Guards /\ ~NoSequence(pending[e]["sequence"])

Denied(e) == \E i \in DOMAIN Answers(e) : Answers(e)[i].result.verdict = "deny"

\* It is not allowed, and never will be.
Refused(e) ==
  /\ verdict[e] # "allow"
  /\ verdict[e] = "none" =>
       Denied(e) \/ ("sequence" \in Guards /\ task[e]["sequence"] = "opening")

RowIsHigh ==
  \A a \in Actions :
    IF circuit.last = a THEN Cardinality(Streak(a)) <= circuit.repeats ELSE Streak(a) = {}

AtMostOneOnItsWay ==
  \A e \in Evaluations : OnItsWay(e) =>
    /\ pending[e]["sequence"] = Sequence(circuit, action[e])
    /\ \A f \in Evaluations : OnItsWay(f) => f = e

LoopRow ==
  /\ RowIsHigh /\ AtMostOneOnItsWay
  /\ \A i \in DOMAIN recorded : RunLength(i) >= MaxRepeats => Refused(recorded[i])

TasksEnd ==
  \A e \in Evaluations, g \in Guards :
    /\ verdict[e] = "allow" => task[e][g] = "done"
    /\ task[e][g] = "orphan" => verdict[e] # "none"
    /\ task[e][g] \in {"done", "cancelled"} => NoSequence(pending[e][g])

LoopInv == TasksEnd /\ (~overlapped => LoopRow)

\* What was in a row stays in a row.
LEMMA RunStays ==
  ASSUME NEW i \in Nat,
         \A k \in 1..i : recorded'[k] = recorded[k] /\ action'[recorded[k]] = action[recorded[k]]
  PROVE  RunLength(i)' = RunLength(i)
<1> DEFINE S == {j \in 1..i : \A k \in j..i : action[recorded[k]] = action[recorded[i]]}
           T == {j \in 1..i : \A k \in j..i : action'[recorded'[k]] = action'[recorded'[i]]}
<1>1. \A j \in 1..i : i \in 1..i /\ \A k \in j..i : k \in 1..i
  OBVIOUS
<1>2. \A j \in 1..i : j \in T <=> j \in S
  BY <1>1
<1>3. S = T
  BY <1>2
<1> HIDE DEF S, T
<1>4. Cardinality(S) = Cardinality(T)
  BY <1>3
<1>5. QED
  BY <1>4 DEF RunLength, S, T

LEMMA RunLengthType ==
  ASSUME NEW i \in Nat
  PROVE  RunLength(i) \in Nat /\ RunLength(i)' \in Nat
<1>1. IsFiniteSet(1..i)
  BY FS_Interval
<1>2. ASSUME NEW S \in SUBSET (1..i)
      PROVE  Cardinality(S) \in Nat
  BY <1>1, FS_Subset, FS_CardinalityType
<1>3. QED
  BY <1>2 DEF RunLength

\* A sequence that is recorded on the row it was computed from.
LEMMA StreakGrows ==
  ASSUME Shapes, RowIsHigh, NEW e \in Evaluations, action[e] \in Actions,
         recorded' = Append(recorded, e), action' = action, circuit.repeats \in Nat,
         circuit'.last = action[e],
         circuit'.repeats = IF circuit.last = action[e] THEN circuit.repeats + 1 ELSE 1,
         NEW n \in Nat, n = Len(recorded)
  PROVE  RowIsHigh' /\ RunLength(n + 1)' <= circuit'.repeats
<1> DEFINE b == action[e]
<1>1. /\ DOMAIN recorded = 1..n
      /\ Len(recorded') = n + 1 /\ DOMAIN recorded' = 1..(n + 1)
      /\ \A k \in 1..n : recorded'[k] = recorded[k]
      /\ recorded'[n + 1] = e
  BY AppendProperties, LenProperties DEF Shapes
<1>2. \A a, j : j \in Streak(a)' <=>
        /\ j \in 1..(n + 1)
        /\ \A k \in j..(n + 1) : action[recorded'[k]] = a
  BY <1>1 DEF Streak
<1>3. \A a, j : j \in Streak(a) <=> j \in 1..n /\ \A k \in j..n : action[recorded[k]] = a
  BY <1>1 DEF Streak
<1>4. Streak(b)' = Streak(b) \cup {n + 1}
  <2>1. ASSUME NEW j \in Streak(b)'
        PROVE  j \in Streak(b) \cup {n + 1}
    <3>1. j \in 1..(n + 1) /\ \A k \in j..(n + 1) : action[recorded'[k]] = b
      BY <1>2, <2>1
    <3>2. CASE j # n + 1
      <4>1. j \in 1..n /\ \A k \in j..n : k \in 1..n /\ k \in j..(n + 1)
        BY <1>1, <3>1, <3>2
      <4>2. \A k \in j..n : action[recorded[k]] = b
        BY <1>1, <3>1, <4>1
      <4>3. QED
        BY <1>3, <4>1, <4>2
    <3>3. QED
      BY <3>2
  <2>2. ASSUME NEW j \in Streak(b) \cup {n + 1}
        PROVE  j \in Streak(b)'
    <3>1. CASE j = n + 1
      <4>1. j \in 1..(n + 1) /\ \A k \in j..(n + 1) : k = n + 1
        BY <1>1, <3>1
      <4>2. QED
        BY <1>1, <1>2, <4>1
    <3>2. CASE j \in Streak(b)
      <4>1. j \in 1..n /\ \A k \in j..n : action[recorded[k]] = b
        BY <1>3, <3>2
      <4>2. j \in 1..(n + 1) /\ \A k \in j..(n + 1) : k = n + 1 \/ (k \in j..n /\ k \in 1..n)
        BY <1>1, <4>1
      <4>3. \A k \in j..(n + 1) : action[recorded'[k]] = b
        BY <1>1, <4>1, <4>2
      <4>4. QED
        BY <1>2, <4>2, <4>3
    <3>3. QED
      BY <2>2, <3>1, <3>2
  <2>3. QED
    BY <2>1, <2>2
<1>5. ASSUME NEW a \in Actions, a # b
      PROVE  Streak(a)' = {}
  <2>1. ASSUME NEW j \in Streak(a)'
        PROVE  FALSE
    <3>1. n + 1 \in j..(n + 1)
      BY <1>1, <1>2, <2>1
    <3>2. QED
      BY <1>1, <1>2, <1>5, <2>1, <3>1
  <2>2. QED
    BY <2>1
<1>6. IsFiniteSet(Streak(b)) /\ Cardinality(Streak(b)) \in Nat /\ n + 1 \notin Streak(b)
  <2>1. Streak(b) \subseteq 1..n
    BY <1>3
  <2>2. IsFiniteSet(1..n)
    BY FS_Interval
  <2>3. QED
    BY <1>1, <2>1, <2>2, FS_Subset, FS_CardinalityType
<1>7. Cardinality(Streak(b)') = Cardinality(Streak(b)) + 1
  BY <1>4, <1>6, FS_AddElement
<1>8. Cardinality(Streak(b)') <= circuit'.repeats
  <2>1. CASE circuit.last = b
    BY <1>6, <1>7, <2>1 DEF RowIsHigh
  <2>2. CASE circuit.last # b
    <3>1. Streak(b) = {}
      BY <2>2 DEF RowIsHigh
    <3>2. Cardinality(Streak(b)) = 0
      BY <3>1, FS_EmptySet
    <3>3. QED
      BY <1>7, <2>2, <3>2
  <2>3. QED
    BY <2>1, <2>2
<1>9. RunLength(n + 1)' = Cardinality(Streak(b)')
  <2> DEFINE S == {j \in 1..(n + 1) : \A k \in j..(n + 1) :
                     action'[recorded'[k]] = action'[recorded'[n + 1]]}
  <2>1. \A j : j \in S <=> j \in Streak(b)'
    BY <1>1, <1>2
  <2>2. S = Streak(b)'
    BY <2>1
  <2> HIDE DEF S
  <2>3. Cardinality(S) = Cardinality(Streak(b)')
    BY <2>2
  <2>4. QED
    BY <2>3 DEF RunLength, S
<1>10. RowIsHigh'
  BY <1>5, <1>8 DEF RowIsHigh
<1>11. QED
  BY <1>8, <1>9, <1>10

\* Steps after which the row and what was recorded are the same.
LEMMA RowRests ==
  ASSUME Shapes, LoopRow, UNCHANGED <<Guards, recorded>>,
         circuit'.last = circuit.last, circuit'.repeats = circuit.repeats,
         \A v \in Evaluations : HasRecorded(v) \/ OnItsWay(v) => action'[v] = action[v],
         \A v \in Evaluations : OnItsWay(v)' =>
           OnItsWay(v) /\ pending'[v]["sequence"] = pending[v]["sequence"],
         \A v \in Evaluations : HasRecorded(v) /\ Refused(v) => Refused(v)'
  PROVE  LoopRow'
<1>1. \A i \in DOMAIN recorded : /\ recorded[i] \in Evaluations /\ HasRecorded(recorded[i])
                                 /\ action'[recorded[i]] = action[recorded[i]]
  BY ElementOfSeq, LenProperties DEF Shapes, HasRecorded
<1>2. DOMAIN recorded = 1..Len(recorded) /\ Len(recorded) \in Nat
  BY LenProperties DEF Shapes
<1>3. \A a : Streak(a)' = Streak(a)
  <2>1. \A j \in DOMAIN recorded : \A k \in j..Len(recorded) : k \in DOMAIN recorded
    BY <1>2
  <2>2. QED
    BY <1>1, <2>1 DEF Streak
<1>4. RowIsHigh'
  BY <1>3 DEF LoopRow, RowIsHigh
<1>5. AtMostOneOnItsWay'
  BY DEF LoopRow, AtMostOneOnItsWay, Sequence
<1>6. ASSUME NEW i \in DOMAIN recorded, RunLength(i)' >= MaxRepeats
      PROVE  Refused(recorded[i])'
  <2>1. i \in Nat /\ \A k \in 1..i : k \in DOMAIN recorded
    BY <1>2
  <2>2. RunLength(i)' = RunLength(i)
    BY <1>1, <2>1, RunStays
  <2>3. Refused(recorded[i])
    BY <1>6, <2>2 DEF LoopRow
  <2>4. QED
    BY <1>1, <2>3 DEF Refused
<1>7. QED
  BY <1>4, <1>5, <1>6 DEF LoopRow

\* Steps that record the sequence that was on its way.
LEMMA RowRecords ==
  ASSUME Shapes, RepeatsInv, LoopRow, NEW e \in Evaluations, OnItsWay(e),
         action[e] \in Actions, UNCHANGED <<Guards, action>>,
         recorded' = Append(recorded, e),
         circuit'.last = pending[e]["sequence"].last,
         circuit'.repeats = pending[e]["sequence"].repeats,
         ~OnItsWay(e)', \A v \in Evaluations : v # e => pending'[v] = pending[v],
         \A v \in Evaluations : Refused(v) => Refused(v)',
         circuit'.repeats >= MaxRepeats => Refused(e)'
  PROVE  LoopRow'
<1>0. PICK n \in Nat : n = Len(recorded)
  BY LenProperties DEF Shapes
<1>1. /\ DOMAIN recorded = 1..n /\ DOMAIN recorded' = 1..(n + 1)
      /\ \A k \in 1..n : recorded'[k] = recorded[k] /\ recorded[k] \in Evaluations
      /\ recorded'[n + 1] = e
  BY <1>0, AppendProperties, LenProperties, ElementOfSeq DEF Shapes
<1>2. pending[e]["sequence"] = Sequence(circuit, action[e])
  BY DEF LoopRow, AtMostOneOnItsWay
<1>3. /\ circuit'.last = action[e]
      /\ circuit'.repeats = IF circuit.last = action[e] THEN circuit.repeats + 1 ELSE 1
      /\ circuit.repeats \in Nat /\ circuit'.repeats \in Nat
  BY <1>2 DEF Sequence, RepeatsInv, RowInv
<1>4. RowIsHigh' /\ RunLength(n + 1)' <= circuit'.repeats
  BY <1>0, <1>3, StreakGrows DEF LoopRow
<1>5. AtMostOneOnItsWay'
  <2>1. ASSUME NEW v \in Evaluations, OnItsWay(v)'
        PROVE  FALSE
    <3>1. v # e /\ pending'[v] = pending[v]
      BY <2>1
    <3>2. OnItsWay(v)
      BY <2>1, <3>1 DEF OnItsWay, NoSequence
    <3>3. QED
      BY <3>1, <3>2 DEF LoopRow, AtMostOneOnItsWay
  <2>2. QED
    BY <2>1 DEF AtMostOneOnItsWay
<1>6. ASSUME NEW i \in 1..n, RunLength(i)' >= MaxRepeats
      PROVE  Refused(recorded[i])'
  <2>1. i \in Nat /\ \A k \in 1..i : k \in 1..n
    BY <1>1
  <2>2. RunLength(i)' = RunLength(i)
    BY <1>1, <2>1, RunStays
  <2>3. Refused(recorded[i])
    BY <1>1, <1>6, <2>2 DEF LoopRow
  <2>4. recorded[i] \in Evaluations
    BY <1>1
  <2>5. QED
    BY <1>1, <2>3, <2>4 DEF Refused
<1>7. ASSUME RunLength(n + 1)' >= MaxRepeats
      PROVE  Refused(e)'
  <2>1. MaxRepeats \in Nat /\ RunLength(n + 1)' \in Nat
    BY <1>1, PipelineConstants, RunLengthType
  <2>2. QED
    BY <1>3, <1>4, <1>7, <2>1
<1>8. ASSUME NEW i \in DOMAIN recorded', RunLength(i)' >= MaxRepeats
      PROVE  Refused(recorded[i])'
  <2>1. CASE i = n + 1
    BY <1>1, <1>7, <1>8, <2>1 DEF Refused
  <2>2. CASE i # n + 1
    BY <1>1, <1>6, <1>8, <2>2 DEF Refused
  <2>3. QED
    BY <2>1, <2>2
<1>9. QED
  BY <1>4, <1>5, <1>8 DEF LoopRow

\* A denial that is in the queue stays there, and one that is put is one.
LEMMA DenialsStay ==
  ASSUME Shapes, NEW e \in Evaluations, NEW g \in Guards, NEW r \in Results, Put(e, g, r),
         results' = results, NEW v \in Evaluations
  PROVE  (Denied(v) => Denied(v)') /\ (r.verdict = "deny" => Denied(e)')
<1> DEFINE x == [guard |-> g, result |-> r]
<1>1. x \in Reported /\ queue'[e] = Append(queue[e], x)
  BY PutShapes
<1>2. Answers(e)' = Append(Answers(e), x) /\ Answers(e) \in Seq(Reported)
  BY <1>1, AnswerAdded, ConcatProperties DEF Answers, Shapes
<1>3. /\ DOMAIN Answers(e) = 1..Len(Answers(e)) /\ Len(Answers(e)) \in Nat
      /\ DOMAIN Answers(e)' = 1..(Len(Answers(e)) + 1)
      /\ \A i \in 1..Len(Answers(e)) : Answers(e)'[i] = Answers(e)[i]
      /\ Answers(e)'[Len(Answers(e)) + 1] = x
  BY <1>1, <1>2, AppendProperties, LenProperties
<1>4. x.result = r
  OBVIOUS
<1> HIDE DEF x
<1>5. r.verdict = "deny" => Denied(e)'
  BY <1>3, <1>4 DEF Denied
<1>6. Denied(e) => Denied(e)'
  BY <1>3 DEF Denied
<1>7. ASSUME v # e
      PROVE  Denied(v) => Denied(v)'
  <2>1. Answers(v)' = Answers(v)
    BY <1>7 DEF Put, Answers, Shapes
  <2>2. QED
    BY <2>1 DEF Denied
<1>8. QED
  BY <1>5, <1>6, <1>7

\* A task's step takes no refusal back: the breaker that is opening goes on to deny.
LEMMA RefusalsStay ==
  ASSUME Shapes, NEW e \in Evaluations, NEW g \in Guards, NEW v \in Evaluations, Refused(v),
         UNCHANGED <<Guards, results, verdict>>,
         \/ \E r \in Results : Put(e, g, r) /\ (task[e][g] = "opening" => r.verdict = "deny")
         \/ /\ queue' = queue /\ task[e][g] # "opening"
            /\ \A h \in Guards \ {g} : task'[e][h] = task[e][h]
            /\ \A w \in Evaluations : w # e => task'[w] = task[w]
  PROVE  Refused(v)'
<1>1. CASE \E r \in Results : Put(e, g, r) /\ (task[e][g] = "opening" => r.verdict = "deny")
  <2>1. PICK r \in Results : Put(e, g, r) /\ (task[e][g] = "opening" => r.verdict = "deny")
    BY <1>1
  <2>2. (Denied(v) => Denied(v)') /\ (r.verdict = "deny" => Denied(e)')
    BY <2>1, DenialsStay
  <2>3. \A w \in Evaluations, h \in Guards :
          task'[w][h] = IF w = e /\ h = g THEN "done" ELSE task[w][h]
    BY <2>1 DEF Put, Shapes
  <2>4. ASSUME "sequence" \in Guards, task[v]["sequence"] = "opening"
        PROVE  Denied(v)' \/ task'[v]["sequence"] = "opening"
    <3>1. CASE v = e /\ g = "sequence"
      BY <2>1, <2>2, <2>4, <3>1
    <3>2. CASE ~(v = e /\ g = "sequence")
      BY <2>3, <2>4, <3>2
    <3>3. QED
      BY <3>1, <3>2
  <2>5. QED
    BY <2>2, <2>4 DEF Refused
<1>2. CASE /\ queue' = queue /\ task[e][g] # "opening"
           /\ \A h \in Guards \ {g} : task'[e][h] = task[e][h]
           /\ \A w \in Evaluations : w # e => task'[w] = task[w]
  <2>1. Denied(v)' <=> Denied(v)
    BY <1>2 DEF Denied, Answers
  <2>2. ASSUME "sequence" \in Guards, task[v]["sequence"] = "opening"
        PROVE  task'[v]["sequence"] = "opening"
    BY <1>2, <2>2
  <2>3. QED
    BY <2>1, <2>2 DEF Refused
<1>3. QED
  BY <1>1, <1>2

\* The row after a task's step, if the call that makes a run too long is refused.
LEMMA TaskLoop ==
  ASSUME Shapes, RepeatsInv, LoopRow, NEW e \in Evaluations, NEW g \in Guards,
         action[e] \in Actions, UNCHANGED <<Guards, action>>,
         UNCHANGED <<circuit, recorded>> \/ Apply(e, g),
         NoSequence(pending'[e][g]),
         \A h \in Guards \ {g} : pending'[e][h] = pending[e][h],
         \A v \in Evaluations : v # e => pending'[v] = pending[v],
         \A v \in Evaluations : Refused(v) => Refused(v)',
         g = "sequence" /\ circuit'.repeats >= MaxRepeats => Refused(e)'
  PROVE  LoopRow'
<1> DEFINE u == pending[e][g]
<1>1. NoSequence(u) \/ (g = "sequence" /\ CountsItself(e, u))
  BY DEF RepeatsInv, PendingOf
<1>2. CASE UNCHANGED <<circuit, recorded>> \/ NoSequence(u)
  <2>1. /\ UNCHANGED <<Guards, recorded>>
        /\ circuit'.last = circuit.last /\ circuit'.repeats = circuit.repeats
    BY <1>2 DEF Apply, NoSequence, Transition, Shapes
  <2>2. ASSUME NEW v \in Evaluations, OnItsWay(v)'
        PROVE  OnItsWay(v) /\ pending'[v]["sequence"] = pending[v]["sequence"]
    <3>1. pending'[v]["sequence"] = pending[v]["sequence"]
      BY <2>2 DEF OnItsWay, NoSequence
    <3>2. QED
      BY <2>1, <2>2, <3>1 DEF OnItsWay, NoSequence
  <2>3. QED
    BY <2>1, <2>2, RowRests
<1>3. CASE Apply(e, g) /\ ~NoSequence(u)
  <2>1. g = "sequence" /\ CountsItself(e, u)
    BY <1>1, <1>3
  <2>2. /\ recorded' = Append(recorded, e)
        /\ circuit'.last = u.last /\ circuit'.repeats = u.repeats
    BY <1>3, <2>1 DEF Apply, CountsItself, Transition, Shapes
  <2>3. OnItsWay(e) /\ ~OnItsWay(e)'
    BY <1>3, <2>1 DEF OnItsWay, NoSequence
  <2>4. circuit'.repeats >= MaxRepeats => Refused(e)'
    BY <1>3, <2>1
  <2>5. QED
    BY <2>1, <2>2, <2>3, <2>4, RowRecords
<1>4. QED
  BY <1>2, <1>3

LEMMA TasksKept ==
  ASSUME TasksEnd, NEW e \in Evaluations, NEW g \in Guards, UNCHANGED <<Guards, verdict>>,
         task[e][g] # "done",
         \/ task'[e][g] \in {"recording", "opening"}
         \/ task'[e][g] \in {"done", "cancelled"} /\ NoSequence(pending'[e][g]),
         \A h \in Guards \ {g} : task'[e][h] = task[e][h] /\ pending'[e][h] = pending[e][h],
         \A v \in Evaluations : v # e => task'[v] = task[v] /\ pending'[v] = pending[v]
  PROVE  TasksEnd'
<1>1. verdict[e] # "allow"
  BY DEF TasksEnd
<1>2. ASSUME NEW v \in Evaluations, NEW h \in Guards
      PROVE  /\ verdict'[v] = "allow" => task'[v][h] = "done"
             /\ task'[v][h] = "orphan" => verdict'[v] # "none"
             /\ task'[v][h] \in {"done", "cancelled"} => NoSequence(pending'[v][h])
  <2>1. CASE v = e /\ h = g
    BY <1>1, <2>1
  <2>2. CASE ~(v = e /\ h = g)
    <3>1. task'[v][h] = task[v][h] /\ pending'[v][h] = pending[v][h] /\ verdict'[v] = verdict[v]
      BY <2>2
    <3>2. QED
      BY <3>1 DEF TasksEnd
  <2>3. QED
    BY <2>1, <2>2
<1>3. QED
  BY <1>2 DEF TasksEnd, NoSequence

\* A task ends with an answer, a denial if the breaker was opening or counted too many.
LEMMA EndLoop ==
  ASSUME Shapes, Shapes', AnswersInv, RepeatsInv, LoopInv,
         NEW e \in Evaluations, NEW g \in Guards, NEW r \in Results, Put(e, g, r),
         task[e][g] \notin {"off", "done"},
         UNCHANGED <<circuit, recorded>> \/ Apply(e, g),
         UNCHANGED <<Guards, action, results, verdict, overlapped>>,
         r.verdict = "deny" \/ (task[e][g] # "opening" /\ ~Trips(e, g, circuit'))
  PROVE  LoopInv'
<1>1. /\ \A h \in Guards \ {g} : task'[e][h] = task[e][h] /\ pending'[e][h] = pending[e][h]
      /\ task'[e][g] = "done" /\ pending'[e][g] = NoUpdate
      /\ \A v \in Evaluations : v # e => task'[v] = task[v] /\ pending'[v] = pending[v]
  BY DEF Put, Shapes
<1>2. action[e] \in Actions
  BY DEF Shapes, AnswersInv
<1>3. TasksEnd'
  BY <1>1, TasksKept, NoUpdateIsNoSequence DEF LoopInv
<1>4. ASSUME ~overlapped
      PROVE  LoopRow'
  <2>1. ASSUME NEW v \in Evaluations, Refused(v)
        PROVE  Refused(v)'
    BY <2>1, RefusalsStay
  <2>2. ASSUME g = "sequence", circuit'.repeats >= MaxRepeats
        PROVE  Refused(e)'
    <3>1. r.verdict = "deny"
      BY <2>2 DEF Trips, Repeats
    <3>2. Denied(e)'
      BY <3>1, DenialsStay
    <3>3. verdict[e] # "allow"
      BY <1>1 DEF LoopInv, TasksEnd
    <3>4. QED
      BY <3>2, <3>3 DEF Refused
  <2>3. QED
    BY <1>1, <1>2, <1>4, <2>1, <2>2, TaskLoop, NoUpdateIsNoSequence DEF LoopInv
<1>5. QED
  BY <1>3, <1>4 DEF LoopInv

\* The steps of a task that do not end it, but the read of a sequence.
LEMMA StepLoop ==
  ASSUME Shapes, Shapes', AnswersInv, RepeatsInv, LoopInv,
         NEW e \in Evaluations, NEW g \in Guards, task[e][g] \notin {"off", "done", "opening"},
         UNCHANGED <<circuit, recorded>> \/ Apply(e, g),
         UNCHANGED <<Guards, action, results, queue, verdict>>, overlapped' = overlapped,
         \A h \in Guards \ {g} : task'[e][h] = task[e][h] /\ pending'[e][h] = pending[e][h],
         \A v \in Evaluations : v # e => task'[v] = task[v] /\ pending'[v] = pending[v],
         task'[e][g] \in {"recording", "opening", "cancelled"}, NoSequence(pending'[e][g]),
         g = "sequence" => task'[e][g] = "opening" \/ verdict[e] # "none"
  PROVE  LoopInv'
<1>1. action[e] \in Actions
  BY DEF Shapes, AnswersInv
<1>2. TasksEnd'
  BY TasksKept DEF LoopInv
<1>3. ASSUME ~overlapped
      PROVE  LoopRow'
  <2>1. ASSUME NEW v \in Evaluations, Refused(v)
        PROVE  Refused(v)'
    BY <2>1, RefusalsStay
  <2>2. ASSUME g = "sequence"
        PROVE  Refused(e)'
    <3>1. verdict[e] # "allow"
      BY DEF LoopInv, TasksEnd
    <3>2. QED
      BY <2>2, <3>1 DEF Refused
  <2>3. QED
    BY <1>1, <1>3, <2>1, <2>2, TaskLoop DEF LoopInv
<1>4. QED
  BY <1>2, <1>3 DEF LoopInv

\* A sequence that is read while no other is on its way is the only one.
LEMMA ReadLoop ==
  ASSUME Shapes, Shapes', AnswersInv, RepeatsInv, LoopInv,
         NEW e \in Evaluations, "sequence" \in Guards, ReadSequence(e)
  PROVE  LoopInv'
<1> DEFINE g == "sequence"
<1>1. /\ task[e][g] = "started" /\ task'[e][g] = "recording"
      /\ pending'[e][g] = Sequence(circuit, action[e])
      /\ \A h \in Guards \ {g} : task'[e][h] = task[e][h] /\ pending'[e][h] = pending[e][h]
      /\ \A v \in Evaluations : v # e => task'[v] = task[v] /\ pending'[v] = pending[v]
      /\ UNCHANGED <<Guards, circuit, action, queue, results, verdict, recorded>>
      /\ overlapped' = (overlapped \/ SequenceUnderway)
  BY DEF ReadSequence, Read, Shapes
<1>2. TasksEnd'
  BY <1>1, TasksKept DEF LoopInv
<1>3. ASSUME ~overlapped, ~SequenceUnderway
      PROVE  LoopRow'
  <2>1. ASSUME NEW v \in Evaluations
        PROVE  ~OnItsWay(v)
    <3>1. SUFFICES ASSUME OnItsWay(v)
                   PROVE  FALSE
      OBVIOUS
    <3>2. CountsItself(v, pending[v][g]) /\ ~NoSequence(pending[v][g])
      BY <3>1 DEF OnItsWay, RepeatsInv, PendingOf
    <3>3. task[v][g] \in {"recording", "orphan"}
      BY <3>2 DEF RepeatsInv, PendingOf, SequenceTask, LoopInv, TasksEnd, Shapes, TaskStates
    <3>4. QED
      BY <1>3, <3>2, <3>3 DEF SequenceUnderway, CountsItself
  <2>2. \A v \in Evaluations : OnItsWay(v)' => v = e
    BY <1>1, <2>1 DEF OnItsWay, NoSequence
  <2>3. AtMostOneOnItsWay'
    BY <1>1, <2>2 DEF AtMostOneOnItsWay, Sequence
  <2>4. \A a : Streak(a)' = Streak(a)
    BY <1>1 DEF Streak
  <2>5. RowIsHigh'
    BY <1>1, <1>3, <2>4 DEF LoopInv, LoopRow, RowIsHigh
  <2>6. ASSUME NEW i \in DOMAIN recorded, RunLength(i)' >= MaxRepeats
        PROVE  Refused(recorded[i])'
    <3>1. RunLength(i)' = RunLength(i)
      BY <1>1 DEF RunLength
    <3>2. Refused(recorded[i]) /\ recorded[i] \in Evaluations
      BY <1>3, <2>6, <3>1, ElementOfSeq, LenProperties DEF LoopInv, LoopRow, Shapes
    <3>3. Denied(recorded[i])' <=> Denied(recorded[i])
      BY <1>1 DEF Denied, Answers
    <3>4. task[recorded[i]][g] = "opening" => task'[recorded[i]][g] = "opening"
      BY <1>1, <3>2
    <3>5. QED
      BY <1>1, <3>2, <3>3, <3>4 DEF Refused
  <2>7. QED
    BY <1>1, <2>3, <2>5, <2>6 DEF LoopRow, Refused
<1>4. QED
  BY <1>1, <1>2, <1>3 DEF LoopInv

\* What is cancelled is not on its way.
LEMMA CancelledIsDropped ==
  ASSUME Shapes, TasksEnd, NEW e \in Evaluations, CancelRest(e), NEW g \in Guards
  PROVE  task'[e][g] \in {"done", "cancelled"} => NoSequence(pending'[e][g])
<1>1. PICK landing \in SUBSET {h \in Guards : task[e][h] \in {"recording", "opening"}} :
        /\ task' = [task EXCEPT ![e] = [h \in Guards |->
             IF @[h] = "done" THEN "done" ELSE IF h \in landing THEN "orphan" ELSE "cancelled"]]
        /\ pending' = [pending EXCEPT ![e] = [h \in Guards |->
             IF h \in landing THEN @[h] ELSE NoUpdate]]
  BY DEF CancelRest
<1>2. /\ g \notin landing => pending'[e][g] = NoUpdate
      /\ g \in landing => task'[e][g] = "orphan"
  BY <1>1 DEF Shapes
<1>3. QED
  BY <1>2, NoUpdateIsNoSequence

\* The loop returns and cancels what is left, or only its answers move.
LEMMA ReturnLoop ==
  ASSUME Shapes, Shapes', LoopInv, NEW e \in Evaluations,
         \/ CancelRest(e) /\ verdict'[e] \notin {"none", "allow"}
         \/ UNCHANGED <<task, pending>>,
         \A v \in Evaluations : v # e => verdict'[v] = verdict[v],
         verdict[e] = "none",
         verdict'[e] = "allow" => \A g \in Guards : task[e][g] = "done",
         UNCHANGED <<Guards, circuit, action, recorded, overlapped>>,
         \A v \in Evaluations : Refused(v) => Refused(v)'
  PROVE  LoopInv'
<1>1. /\ \A v \in Evaluations : v # e => task'[v] = task[v] /\ pending'[v] = pending[v]
      /\ \A g \in Guards : pending'[e][g] \in {pending[e][g], NoUpdate}
  BY CancelShapes
<1>2. ASSUME NEW v \in Evaluations, NEW g \in Guards
      PROVE  /\ verdict'[v] = "allow" => task'[v][g] = "done"
             /\ task'[v][g] = "orphan" => verdict'[v] # "none"
             /\ task'[v][g] \in {"done", "cancelled"} => NoSequence(pending'[v][g])
  <2>1. CASE v # e
    BY <1>1, <2>1 DEF LoopInv, TasksEnd
  <2>2. CASE v = e /\ UNCHANGED <<task, pending>>
    BY <2>2 DEF LoopInv, TasksEnd
  <2>3. CASE v = e /\ CancelRest(e) /\ verdict'[e] \notin {"none", "allow"}
    BY <2>3, CancelledIsDropped DEF LoopInv
  <2>4. QED
    BY <2>1, <2>2, <2>3
<1>3. TasksEnd'
  BY <1>2 DEF TasksEnd, NoSequence
<1>4. ASSUME ~overlapped
      PROVE  LoopRow'
  <2>1. ASSUME NEW v \in Evaluations, OnItsWay(v)'
        PROVE  OnItsWay(v) /\ pending'[v]["sequence"] = pending[v]["sequence"]
    <3>1. "sequence" \in Guards /\ ~NoSequence(pending'[v]["sequence"])
      BY <2>1 DEF OnItsWay, NoSequence
    <3>2. pending'[v]["sequence"] = pending[v]["sequence"]
      BY <1>1, <3>1, NoUpdateIsNoSequence
    <3>3. QED
      BY <3>1, <3>2 DEF OnItsWay, NoSequence
  <2>2. QED
    BY <1>4, <2>1, RowRests DEF LoopInv
<1>5. QED
  BY <1>3, <1>4 DEF LoopInv

LEMMA LoopInvariant == Spec => []LoopInv
<1>1. ASSUME Init
      PROVE  LoopInv
  <2>1. /\ recorded = <<>> /\ Len(recorded) = 0 /\ DOMAIN recorded = {}
        /\ circuit.repeats = 0 /\ \A e \in Evaluations : verdict[e] = "none"
        /\ \A e \in Evaluations, g \in Guards : task[e][g] = "off" /\ pending[e][g] = NoUpdate
    BY <1>1 DEF Init, NewCircuit
  <2>2. TasksEnd
    BY <2>1 DEF TasksEnd
  <2>3. \A e \in Evaluations : ~OnItsWay(e)
    BY <2>1, NoUpdateIsNoSequence DEF OnItsWay
  <2>4. \A a : Streak(a) = {}
    BY <2>1 DEF Streak
  <2>5. RowIsHigh
    <3>1. \A a : Cardinality(Streak(a)) = 0
      BY <2>4, FS_EmptySet
    <3>2. QED
      BY <2>1, <2>4, <3>1 DEF RowIsHigh
  <2>6. QED
    BY <2>1, <2>2, <2>3, <2>5 DEF LoopInv, LoopRow, AtMostOneOnItsWay
<1>2. ASSUME Shapes, Shapes', AnswersInv, RepeatsInv, LoopInv, [Next]_vars
      PROVE  LoopInv'
  <2>1. ASSUME NEW e \in Evaluations, NEW a \in Actions, Begin(e, a)
        PROVE  LoopInv'
    <3>1. /\ action[e] = NoAction /\ \A g \in Guards : task'[e][g] = "started"
          /\ \A v \in Evaluations : v # e => action'[v] = action[v] /\ task'[v] = task[v]
          /\ UNCHANGED <<Guards, circuit, pending, queue, results, verdict, recorded, overlapped>>
      BY <1>2, <2>1 DEF Begin, Shapes
    <3>2. /\ ~HasRecorded(e) /\ \A g \in Guards : task[e][g] = "off"
      BY <1>2, <3>1 DEF RepeatsInv, PendingOf, AnswersInv
    <3>3. ~OnItsWay(e)
      BY <1>2, <3>2 DEF OnItsWay, RepeatsInv, PendingOf, SequenceTask
    <3>4. TasksEnd'
      <4>1. ASSUME NEW v \in Evaluations, NEW g \in Guards
            PROVE  /\ verdict'[v] = "allow" => task'[v][g] = "done"
                   /\ task'[v][g] = "orphan" => verdict'[v] # "none"
                   /\ task'[v][g] \in {"done", "cancelled"} => NoSequence(pending'[v][g])
        <5>1. CASE v = e
          BY <1>2, <3>1, <3>2, <5>1 DEF LoopInv, TasksEnd
        <5>2. CASE v # e
          BY <1>2, <3>1, <5>2 DEF LoopInv, TasksEnd
        <5>3. QED
          BY <5>1, <5>2
      <4>2. QED
        BY <3>1, <4>1 DEF TasksEnd, NoSequence
    <3>5. ASSUME ~overlapped
          PROVE  LoopRow'
      <4>1. \A v \in Evaluations : HasRecorded(v) \/ OnItsWay(v) => v # e
        BY <3>2, <3>3
      <4>2. \A v \in Evaluations : HasRecorded(v) \/ OnItsWay(v) => action'[v] = action[v]
        BY <3>1, <4>1
      <4>3. \A v \in Evaluations : OnItsWay(v)' =>
              OnItsWay(v) /\ pending'[v]["sequence"] = pending[v]["sequence"]
        BY <3>1 DEF OnItsWay, NoSequence
      <4>4. ASSUME NEW v \in Evaluations, HasRecorded(v), Refused(v)
            PROVE  Refused(v)'
        <5>1. task'[v] = task[v] /\ (Denied(v)' <=> Denied(v))
          BY <3>1, <4>1, <4>4 DEF Denied, Answers
        <5>2. QED
          BY <3>1, <4>4, <5>1 DEF Refused
      <4>5. QED
        BY <1>2, <3>1, <3>5, <4>2, <4>3, <4>4, RowRests DEF LoopInv
    <3>6. QED
      BY <3>1, <3>4, <3>5 DEF LoopInv
  <2>2. ASSUME NEW e \in Evaluations, NEW g \in Guards, Guard(e, g)
        PROVE  LoopInv'
    <3>1. CASE Inspect(e) /\ g = "inspector"
      <4>1. PICK r \in Inspections : Put(e, g, r)
        BY <3>1 DEF Inspect
      <4>2. r \in Results /\ task[e][g] = "started" /\ ~Trips(e, g, circuit')
            /\ UNCHANGED <<Guards, circuit, action, results, verdict, recorded, overlapped>>
        BY <3>1, <4>1, ResultTypes DEF Inspect, Trips
      <4>3. QED
        BY <1>2, <4>1, <4>2, EndLoop
    <3>2. CASE ReadSequence(e) /\ g = "sequence"
      BY <1>2, <3>2, ReadLoop
    <3>3. CASE (ReadCalls(e) \/ ReadProgress(e)) /\ g = "halting"
      <4>1. PICK u : Read(e, g, u) /\ NoSequence(u) /\ overlapped' = overlapped
        BY <3>3 DEF ReadCalls, ReadProgress, ToolCall, Progress, NoSequence
      <4>2. /\ task[e][g] = "started" /\ task'[e][g] = "recording" /\ pending'[e][g] = u
            /\ \A h \in Guards \ {g} : task'[e][h] = task[e][h] /\ pending'[e][h] = pending[e][h]
            /\ \A v \in Evaluations : v # e => task'[v] = task[v] /\ pending'[v] = pending[v]
            /\ UNCHANGED <<Guards, circuit, action, queue, results, verdict, recorded>>
        BY <1>2, <4>1 DEF Read, Shapes
      <4>3. QED
        BY <1>2, <3>3, <4>1, <4>2, StepLoop
    <3>4. CASE Record(e, g)
      <4>1. /\ task[e][g] = "recording" /\ Apply(e, g)
            /\ UNCHANGED <<Guards, action, results, verdict, overlapped>>
        BY <3>4 DEF Record
      <4>2. CASE Put(e, g, Allows) /\ ~Trips(e, g, circuit')
        BY <1>2, <4>1, <4>2, EndLoop, ResultTypes
      <4>3. CASE /\ task' = [task EXCEPT ![e][g] = "opening"] /\ UNCHANGED queue
                 /\ pending' = [pending EXCEPT ![e][g] = Opened(ReasonOf(g))]
        <5>1. /\ task'[e][g] = "opening" /\ pending'[e][g] = Opened(ReasonOf(g))
              /\ \A h \in Guards \ {g} : task'[e][h] = task[e][h] /\ pending'[e][h] = pending[e][h]
              /\ \A v \in Evaluations : v # e => task'[v] = task[v] /\ pending'[v] = pending[v]
          BY <1>2, <4>3 DEF Shapes
        <5>2. NoSequence(pending'[e][g])
          BY <5>1 DEF NoSequence, Opened
        <5>3. QED
          BY <1>2, <4>1, <4>3, <5>1, <5>2, StepLoop
      <4>4. QED
        BY <3>4, <4>2, <4>3 DEF Record
    <3>5. CASE Open(e, g)
      <4>1. Tripped.verdict = "deny"
        BY DEF Tripped, Denies, Result
      <4>2. QED
        BY <1>2, <3>5, <4>1, EndLoop, ResultTypes DEF Open
    <3>6. CASE StoreFails(e, g)
      <4>1. Raised.verdict = "deny"
        BY DEF Raised, Denies, Result
      <4>2. QED
        BY <1>2, <3>6, <4>1, EndLoop, ResultTypes DEF StoreFails
    <3>7. CASE Land(e, g)
      <4>1. /\ task[e][g] = "orphan" /\ Apply(e, g)
            /\ task'[e][g] = "cancelled" /\ pending'[e][g] = NoUpdate
            /\ \A h \in Guards \ {g} : task'[e][h] = task[e][h] /\ pending'[e][h] = pending[e][h]
            /\ \A v \in Evaluations : v # e => task'[v] = task[v] /\ pending'[v] = pending[v]
            /\ UNCHANGED <<Guards, action, results, queue, verdict, overlapped>>
        BY <1>2, <3>7 DEF Land, Shapes
      <4>2. verdict[e] # "none"
        BY <1>2, <4>1 DEF LoopInv, TasksEnd
      <4>3. QED
        BY <1>2, <4>1, <4>2, StepLoop, NoUpdateIsNoSequence
    <3>8. QED
      BY <2>2, <3>1, <3>2, <3>3, <3>4, <3>5, <3>6, <3>7 DEF Guard
  <2>3. ASSUME NEW e \in Evaluations, Collect(e)
        PROVE  LoopInv'
    <3> DEFINE got == Append(results[e], Head(queue[e]))
               v   == VerdictOf(got)
    <3>1. /\ verdict[e] = "none" /\ queue[e] # <<>> /\ v \in {"none", "deny", "allow", "unknown"}
          /\ verdict' = [verdict EXCEPT ![e] = v]
          /\ results' = [results EXCEPT ![e] = IF v = "none" THEN got ELSE <<>>]
          /\ queue' = [queue EXCEPT ![e] = IF v = "none" THEN Tail(queue[e]) ELSE <<>>]
          /\ v = "deny" => CancelRest(e)
          /\ v # "deny" => UNCHANGED <<task, pending>>
          /\ UNCHANGED <<Guards, circuit, action, recorded, overlapped>>
      BY <1>2, <2>3, Turn
    <3>2. got \o Tail(queue[e]) = Answers(e)
      BY <1>2, <3>1, NextAnswer
    <3> HIDE DEF got, v
    <3>3. /\ verdict'[e] = v
          /\ \A w \in Evaluations : w # e =>
               verdict'[w] = verdict[w] /\ Answers(w)' = Answers(w)
      BY <1>2, <3>1 DEF Shapes, Answers
    <3>4. v = "none" => Answers(e)' = Answers(e)
      BY <1>2, <3>1, <3>2 DEF Shapes, Answers
    <3>5. ASSUME v = "allow"
          PROVE  ~Denied(e) /\ \A g \in Guards : task[e][g] = "done"
      <4>1. Unanimous(Answers(e))
        BY <1>2, <3>1, <3>3, <3>5, AllowIsUnanimous
      <4>2. Reporters(Answers(e)) = Done(e) /\ Reporters(Answers(e)) = Guards
        BY <1>2, <3>1, <4>1 DEF AnswersInv, Unanimous, Reporters
      <4>3. QED
        BY <4>1, <4>2 DEF Unanimous, Denied, Done
    <3>6. \A w \in Evaluations : w # e => task'[w] = task[w]
      BY <1>2, <3>1, CancelShapes
    <3>7. ASSUME NEW w \in Evaluations, Refused(w)
          PROVE  Refused(w)'
      <4>1. CASE w # e
        <5>1. Denied(w)' <=> Denied(w)
          BY <3>3, <4>1 DEF Denied
        <5>2. QED
          BY <3>1, <3>3, <3>6, <3>7, <4>1, <5>1 DEF Refused
      <4>2. CASE w = e /\ v = "none"
        <5>1. Denied(e)' <=> Denied(e)
          BY <3>4, <4>2 DEF Denied
        <5>2. QED
          BY <3>1, <3>3, <3>7, <4>2, <5>1 DEF Refused
      <4>3. CASE w = e /\ v = "allow"
        <5>1. Denied(e) \/ ("sequence" \in Guards /\ task[e]["sequence"] = "opening")
          BY <3>1, <3>7, <4>3 DEF Refused
        <5>2. QED
          BY <3>5, <4>3, <5>1
      <4>4. CASE w = e /\ v \in {"deny", "unknown"}
        BY <3>3, <4>4 DEF Refused
      <4>5. QED
        BY <3>1, <4>1, <4>2, <4>3, <4>4
    <3>8. QED
      BY <1>2, <3>1, <3>3, <3>5, <3>7, ReturnLoop
  <2>4. ASSUME NEW e \in Evaluations, GiveUp(e)
        PROVE  LoopInv'
    <3>1. /\ verdict[e] = "none" /\ verdict' = [verdict EXCEPT ![e] = "cancelled"]
          /\ results' = [results EXCEPT ![e] = <<>>] /\ queue' = [queue EXCEPT ![e] = <<>>]
          /\ CancelRest(e) /\ UNCHANGED <<Guards, circuit, action, recorded, overlapped>>
      BY <2>4 DEF GiveUp, Conclude
    <3>2. /\ verdict'[e] = "cancelled"
          /\ \A w \in Evaluations : w # e =>
               verdict'[w] = verdict[w] /\ Answers(w)' = Answers(w) /\ task'[w] = task[w]
      BY <1>2, <3>1, CancelShapes DEF Shapes, Answers
    <3>3. ASSUME NEW w \in Evaluations, Refused(w)
          PROVE  Refused(w)'
      <4>1. CASE w # e
        <5>1. Denied(w)' <=> Denied(w)
          BY <3>2, <4>1 DEF Denied
        <5>2. QED
          BY <3>1, <3>2, <3>3, <4>1, <5>1 DEF Refused
      <4>2. CASE w = e
        BY <3>2, <4>2 DEF Refused
      <4>3. QED
        BY <4>1, <4>2
    <3>4. QED
      BY <1>2, <3>1, <3>2, <3>3, ReturnLoop
  <2>5. CASE Tick \/ UNCHANGED vars
    <3>1. UNCHANGED <<Guards, circuit, action, task, pending, queue, results, verdict,
                      recorded, overlapped>>
      BY <2>5 DEF Tick, vars
    <3>2. TasksEnd'
      BY <1>2, <3>1 DEF LoopInv, TasksEnd, NoSequence
    <3>3. ASSUME ~overlapped
          PROVE  LoopRow'
      <4>1. \A w \in Evaluations : OnItsWay(w)' <=> OnItsWay(w)
        BY <3>1 DEF OnItsWay, NoSequence
      <4>2. \A w \in Evaluations : Refused(w)' <=> Refused(w)
        BY <3>1 DEF Refused, Denied, Answers
      <4>3. QED
        BY <1>2, <3>1, <3>3, <4>1, <4>2, RowRests DEF LoopInv
    <3>4. QED
      BY <3>1, <3>2, <3>3 DEF LoopInv
  <2>6. QED
    BY <1>2, <2>1, <2>2, <2>3, <2>4, <2>5 DEF Next
<1>3. QED
  BY <1>1, <1>2, ShapesInvariant, AnswersInvariant, RepeatsInvariant, PTL DEF Spec

\* As long as no sequence is read while another is being recorded, a call that
\* makes max_repeats in a row is never allowed.
THEOREM LoopsAreBrokenCorrect == Spec => []LoopsAreBroken
<1>1. LoopInv => LoopsAreBroken
  BY DEF LoopInv, LoopRow, Refused, LoopsAreBroken
<1>2. QED
  BY <1>1, LoopInvariant, PTL
=============================================================================
