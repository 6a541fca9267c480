---------------------------- MODULE RunStoreProofs ----------------------------
(***************************************************************************)
(* Proofs about RunStore for every number of runs, stores, callers and      *)
(* updates.                                                                *)
(***************************************************************************)
EXTENDS RunStore, FiniteSetTheorems, TLAPS

-----------------------------------------------------------------------------
(* Why the invariants hold.                                                *)

\* What a caller is in the middle of.
Tasks ==
  \A c \in Callers :
    /\ pc[c] \in {"created", "contracted", "reading"} => task[c].run \in Runs
    /\ pc[c] = "created" => task[c].contract \in Contracts
    /\ pc[c] = "reading" => seen[c] \in Row

\* A contract row has its state row, and both name the same contract.
RowsAgree ==
  \A r \in Runs :
    contract[r] # NoRow => run[r] # NoRow /\ run[r].contract = contract[r]

\* What a reader selected first is still the contract, unless one was written since.
ReadersAgree ==
  \A c \in Callers :
    pc[c] = "reading" /\ c \notin raced =>
      contract[task[c].run] \in {NoRow, seen[c].contract}

Counted ==
  \A r \in Runs : IF run[r] = NoRow THEN updates[r] = 0 ELSE run[r].version = updates[r]

HalvesAccounted ==
  \A r \in Runs : Half(r) =>
    r \in orphaned \/ \E c \in Callers : pc[c] = "created" /\ task[c].run = r

OneHalf == \A r, s \in Runs : Half(r) /\ Half(s) => r = s

StoreInv ==
  /\ TypeOK /\ Tasks
  /\ RowsAgree /\ ReadersAgree /\ CorruptionReportsAreRaces
  /\ Counted
  /\ HalvesAccounted /\ OneHalf

LEMMA RowFacts ==
  /\ \A x \in Row : x # NoRow
  /\ NoRow \notin Contracts /\ NoRow \notin Runs
  /\ Idle.run = NoRow /\ Idle.contract = NoRow
BY StoreConstants DEF Row, Idle

-----------------------------------------------------------------------------
(* The steps.                                                              *)

\* The rows after a contract is written.
LEMMA RowsWritten ==
  ASSUME TypeOK, NEW r \in Runs, NEW k \in Contracts, WriteContract(r, k)
  PROVE  /\ run[r] \in Row
         /\ run' \in [Runs -> Row \cup {NoRow}] /\ contract' \in [Runs -> Contracts \cup {NoRow}]
         /\ run'[r] \in Row /\ run'[r].contract = k /\ run'[r].version = run[r].version
         /\ contract'[r] = k
         /\ \A s \in Runs : s # r => run'[s] = run[s] /\ contract'[s] = contract[s]
         /\ raced' = raced \cup {d \in Callers : pc[d] = "reading" /\ task[d].run = r}
         /\ UNCHANGED <<tables, opened, updates, orphaned>>
<1>1. run[r] \in Row
  BY DEF WriteContract, ContractAccepted, TypeOK
<1>2. run' = [run EXCEPT ![r] = [@ EXCEPT !.contract = k]]
  BY DEF WriteContract, Summary
<1>3. [run[r] EXCEPT !.contract = k] \in Row
  BY <1>1 DEF Row
<1>4. QED
  BY <1>1, <1>2, <1>3 DEF WriteContract, TypeOK, Row

\* A contract is written by a caller that is not creating a run, or that is creating
\* this one and is done with it.
LEMMA WriteKeepsStore ==
  ASSUME StoreInv, NEW c \in Callers, NEW r \in Runs, NEW k \in Contracts, WriteContract(r, k),
         pc[c] \in {"idle", "created"}, pc[c] = "created" => task[c].run = r,
         pc' = [pc EXCEPT ![c] = IF pc[c] = "created" THEN "contracted" ELSE pc[c]],
         UNCHANGED <<task, seen>>
  PROVE  StoreInv'
<1>1. TypeOK /\ Tasks
  BY DEF StoreInv
<1>2. /\ run[r] \in Row
      /\ run' \in [Runs -> Row \cup {NoRow}] /\ contract' \in [Runs -> Contracts \cup {NoRow}]
      /\ run'[r] \in Row /\ run'[r].contract = k /\ run'[r].version = run[r].version
      /\ contract'[r] = k
      /\ \A s \in Runs : s # r => run'[s] = run[s] /\ contract'[s] = contract[s]
      /\ raced' = raced \cup {d \in Callers : pc[d] = "reading" /\ task[d].run = r}
      /\ UNCHANGED <<tables, opened, updates, orphaned>>
  BY <1>1, RowsWritten
<1>3. /\ pc' \in [Callers -> {"idle", "created", "contracted", "reading", "failed"}]
      /\ \A d \in Callers : d # c => pc'[d] = pc[d]
      /\ pc'[c] = IF pc[c] = "created" THEN "contracted" ELSE pc[c]
      /\ task' = task /\ seen' = seen
  BY <1>1 DEF TypeOK
<1>4. TypeOK'
  BY <1>1, <1>2, <1>3 DEF TypeOK
<1>5. Tasks'
  BY <1>1, <1>3 DEF Tasks
<1>6. RowsAgree'
  BY <1>2, RowFacts DEF StoreInv, RowsAgree
<1>7. ReadersAgree'
  BY <1>1, <1>2, <1>3 DEF StoreInv, ReadersAgree, Tasks
<1>8. CorruptionReportsAreRaces'
  BY <1>2, <1>3 DEF StoreInv, CorruptionReportsAreRaces
<1>9. Counted'
  BY <1>2, RowFacts DEF StoreInv, Counted
<1>10. \A s \in Runs : Half(s)' => s # r /\ Half(s)
  BY <1>2, RowFacts DEF Half
<1>11. HalvesAccounted'
  BY <1>2, <1>3, <1>10 DEF StoreInv, HalvesAccounted
<1>12. OneHalf'
  BY <1>10 DEF StoreInv, OneHalf
<1>13. QED
  BY <1>4, <1>5, <1>6, <1>7, <1>8, <1>9, <1>11, <1>12 DEF StoreInv

LEMMA CreateKeepsStore ==
  ASSUME StoreInv, NEW c \in Callers, NEW r \in Runs, NEW k \in Contracts, Create(c, r, k)
  PROVE  StoreInv'
<1>1. TypeOK /\ Tasks
  BY DEF StoreInv
<1>2. /\ pc[c] = "idle" /\ DatabaseValid /\ run[r] = NoRow
      /\ run' = [run EXCEPT ![r] = [contract |-> k, version |-> 0]]
      /\ pc' = [pc EXCEPT ![c] = "created"]
      /\ task' = [task EXCEPT ![c] = [run |-> r, contract |-> k]]
      /\ UNCHANGED <<tables, contract, opened, seen, updates, raced, orphaned>>
  BY DEF Create, history
<1>3. [contract |-> k, version |-> 0] \in Row
  BY DEF Row
<1>4. /\ \A s \in Runs : run'[s] = IF s = r THEN [contract |-> k, version |-> 0] ELSE run[s]
      /\ \A d \in Callers : d # c => pc'[d] = pc[d] /\ task'[d] = task[d]
      /\ pc'[c] = "created" /\ task'[c].run = r /\ task'[c].contract = k
  BY <1>1, <1>2 DEF TypeOK
<1>5. TypeOK'
  BY <1>1, <1>2, <1>3 DEF TypeOK
<1>6. Tasks'
  BY <1>1, <1>2, <1>4 DEF Tasks
<1>7. RowsAgree'
  BY <1>2, <1>4 DEF StoreInv, RowsAgree
<1>8. ReadersAgree' /\ CorruptionReportsAreRaces'
  BY <1>2, <1>4 DEF StoreInv, ReadersAgree, CorruptionReportsAreRaces
<1>9. Counted'
  BY <1>2, <1>3, <1>4, RowFacts DEF StoreInv, Counted
<1>10. \A s \in Runs : Half(s)' => s = r
  BY <1>2, <1>4 DEF Half, DatabaseValid, Whole
<1>11. HalvesAccounted' /\ OneHalf'
  BY <1>4, <1>10 DEF HalvesAccounted, OneHalf
<1>12. QED
  BY <1>5, <1>6, <1>7, <1>8, <1>9, <1>11 DEF StoreInv

LEMMA UpdateKeepsStore ==
  ASSUME StoreInv, NEW c \in Callers, NEW r \in Runs, Update(c, r)
  PROVE  StoreInv'
<1>1. TypeOK /\ Tasks
  BY DEF StoreInv
<1>2. /\ run[r] # NoRow /\ contract[r] # NoRow
      /\ run' = [run EXCEPT ![r] = [@ EXCEPT !.version = run[r].version + 1]]
      /\ updates' = [updates EXCEPT ![r] = @ + 1]
      /\ UNCHANGED <<tables, contract, opened, pc, task, seen, raced, orphaned>>
  BY DEF Update, Base, Whole
<1>3. run[r] \in Row
  BY <1>1, <1>2 DEF TypeOK
<1>4. /\ run'[r] \in Row /\ run'[r].contract = run[r].contract
      /\ run'[r].version = run[r].version + 1
      /\ updates'[r] = updates[r] + 1
      /\ \A s \in Runs : s # r => run'[s] = run[s] /\ updates'[s] = updates[s]
      /\ run' \in [Runs -> Row \cup {NoRow}] /\ updates' \in [Runs -> Nat]
  BY <1>1, <1>2, <1>3 DEF TypeOK, Row
<1>5. TypeOK' /\ Tasks'
  BY <1>1, <1>2, <1>4 DEF TypeOK, Tasks
<1>6. RowsAgree'
  BY <1>2, <1>4, RowFacts DEF StoreInv, RowsAgree
<1>7. ReadersAgree' /\ CorruptionReportsAreRaces'
  BY <1>2 DEF StoreInv, ReadersAgree, CorruptionReportsAreRaces
<1>8. Counted'
  BY <1>2, <1>4, RowFacts DEF StoreInv, Counted
<1>9. \A s \in Runs : Half(s)' => Half(s)
  BY <1>2, <1>4 DEF Half
<1>10. HalvesAccounted' /\ OneHalf'
  BY <1>2, <1>9 DEF StoreInv, HalvesAccounted, OneHalf
<1>11. QED
  BY <1>5, <1>6, <1>7, <1>8, <1>10 DEF StoreInv


\* The rows stay, and no creator is lost without a trace.
LEMMA RowsStay ==
  ASSUME StoreInv, UNCHANGED <<run, contract, updates>>, TypeOK', Tasks', ReadersAgree',
         CorruptionReportsAreRaces', orphaned \subseteq orphaned',
         \A c \in Callers : pc[c] = "created" =>
           \/ task[c].run \in orphaned'
           \/ pc'[c] = "created" /\ task'[c] = task[c]
  PROVE  StoreInv'
<1>1. RowsAgree' /\ Counted' /\ OneHalf'
  BY DEF StoreInv, RowsAgree, Counted, OneHalf, Half
<1>2. HalvesAccounted'
  BY DEF StoreInv, HalvesAccounted, Half
<1>3. QED
  BY <1>1, <1>2 DEF StoreInv

LEMMA SelectStateKeepsStore ==
  ASSUME StoreInv, NEW c \in Callers, NEW r \in Runs, SelectState(c, r)
  PROVE  StoreInv'
<1>1. TypeOK /\ Tasks
  BY DEF StoreInv
<1>2. /\ pc[c] \in {"idle", "contracted"} /\ run[r] \in Row
      /\ seen' = [seen EXCEPT ![c] = run[r]]
      /\ pc' = [pc EXCEPT ![c] = "reading"]
      /\ task' = [task EXCEPT ![c] = [run |-> r, contract |-> NoRow]]
      /\ raced' = raced \ {c}
      /\ UNCHANGED <<tables, run, contract, opened, updates, orphaned>>
  BY <1>1 DEF SelectState, database, TypeOK
<1>3. /\ \A d \in Callers : d # c =>
           pc'[d] = pc[d] /\ task'[d] = task[d] /\ seen'[d] = seen[d] /\ (d \in raced => d \in raced')
      /\ pc'[c] = "reading" /\ task'[c].run = r /\ seen'[c] = run[r]
  BY <1>1, <1>2 DEF TypeOK
<1>4. TypeOK'
  BY <1>1, <1>2 DEF TypeOK
<1>5. Tasks'
  BY <1>1, <1>2, <1>3 DEF Tasks
<1>6. ReadersAgree'
  <2>1. contract[r] \in {NoRow, run[r].contract}
    BY DEF StoreInv, RowsAgree
  <2>2. ASSUME NEW d \in Callers, pc'[d] = "reading", d \notin raced'
        PROVE  contract'[task'[d].run] \in {NoRow, seen'[d].contract}
    BY <1>2, <1>3, <2>1, <2>2 DEF StoreInv, ReadersAgree
  <2>3. QED
    BY <2>2 DEF ReadersAgree
<1>7. CorruptionReportsAreRaces'
  BY <1>2, <1>3 DEF StoreInv, CorruptionReportsAreRaces
<1>8. \A d \in Callers : pc[d] = "created" => pc'[d] = "created" /\ task'[d] = task[d]
  BY <1>2, <1>3
<1>9. QED
  BY <1>2, <1>4, <1>5, <1>6, <1>7, <1>8, RowsStay

LEMMA SelectContractKeepsStore ==
  ASSUME StoreInv, NEW c \in Callers, SelectContract(c)
  PROVE  StoreInv'
<1>1. TypeOK /\ Tasks
  BY DEF StoreInv
<1> DEFINE end == IF Matches(c) \/ contract[task[c].run] = NoRow THEN "idle" ELSE "failed"
<1>2. /\ pc[c] = "reading" /\ pc' = [pc EXCEPT ![c] = end] /\ end \in {"idle", "failed"}
      /\ UNCHANGED <<tables, run, contract, opened, updates, raced, orphaned>>
  BY DEF SelectContract, database, history
<1>3. /\ \A d \in Callers : d # c =>
           pc'[d] = pc[d] /\ task'[d] = task[d] /\ seen'[d] = seen[d]
      /\ pc'[c] = end
  BY <1>1 DEF TypeOK, SelectContract
<1>4. TypeOK'
  <2>1. NoRow \in Row \cup {NoRow} /\ Idle \in [run : Runs \cup {NoRow}, contract : Contracts \cup {NoRow}]
    BY DEF Idle
  <2>2. seen' \in [Callers -> Row \cup {NoRow}]
    BY <1>1, <2>1 DEF TypeOK, SelectContract
  <2>3. task' \in [Callers -> [run : Runs \cup {NoRow}, contract : Contracts \cup {NoRow}]]
    BY <1>1, <2>1 DEF TypeOK, SelectContract
  <2>4. pc' \in [Callers -> {"idle", "created", "contracted", "reading", "failed"}]
    BY <1>1, <1>2 DEF TypeOK
  <2>5. QED
    BY <1>1, <1>2, <2>2, <2>3, <2>4 DEF TypeOK
<1>5. Tasks'
  BY <1>1, <1>2, <1>3 DEF Tasks
<1>6. ReadersAgree'
  BY <1>2, <1>3 DEF StoreInv, ReadersAgree
<1>7. CorruptionReportsAreRaces'
  <2>1. end = "failed" => c \in raced
    BY <1>2 DEF StoreInv, ReadersAgree, Matches
  <2>2. QED
    BY <1>2, <1>3, <2>1 DEF StoreInv, CorruptionReportsAreRaces
<1>8. \A d \in Callers : pc[d] = "created" => pc'[d] = "created" /\ task'[d] = task[d]
  BY <1>2, <1>3
<1>9. QED
  BY <1>2, <1>4, <1>5, <1>6, <1>7, <1>8, RowsStay

\* Callers stop what they are at: their runs without a contract are orphans.
LEMMA StoppingKeepsStore ==
  ASSUME StoreInv, NEW lost \in SUBSET Callers,
         UNCHANGED <<tables, run, contract, updates, raced>>,
         opened' \subseteq Stores,
         orphaned' = orphaned \cup Orphans(lost),
         pc' = [c \in Callers |-> IF c \in lost THEN "idle" ELSE pc[c]],
         task' = [c \in Callers |-> IF c \in lost THEN Idle ELSE task[c]],
         seen' \in [Callers -> Row \cup {NoRow}],
         \A c \in Callers \ lost : seen'[c] = seen[c]
  PROVE  StoreInv'
<1>1. TypeOK /\ Tasks
  BY DEF StoreInv
<1>2. Idle \in [run : Runs \cup {NoRow}, contract : Contracts \cup {NoRow}]
  BY DEF Idle
<1>3. \A c \in Callers : /\ c \in lost => pc'[c] = "idle"
                         /\ c \notin lost => pc'[c] = pc[c] /\ task'[c] = task[c]
  OBVIOUS
<1>4. Orphans(lost) \subseteq Runs
  BY <1>1 DEF Orphans, Tasks
<1>5. TypeOK'
  <2>1. pc' \in [Callers -> {"idle", "created", "contracted", "reading", "failed"}]
    BY <1>1 DEF TypeOK
  <2>2. task' \in [Callers -> [run : Runs \cup {NoRow}, contract : Contracts \cup {NoRow}]]
    BY <1>1, <1>2 DEF TypeOK
  <2>3. QED
    BY <1>1, <1>4, <2>1, <2>2 DEF TypeOK
<1>6. Tasks'
  BY <1>1, <1>3 DEF Tasks
<1>7. ReadersAgree' /\ CorruptionReportsAreRaces'
  BY <1>3 DEF StoreInv, ReadersAgree, CorruptionReportsAreRaces
<1>8. \A c \in Callers : pc[c] = "created" =>
        \/ task[c].run \in orphaned'
        \/ pc'[c] = "created" /\ task'[c] = task[c]
  BY <1>3 DEF Orphans
<1>9. QED
  BY <1>5, <1>6, <1>7, <1>8, RowsStay

LEMMA InterruptKeepsStore ==
  ASSUME StoreInv, NEW c \in Callers, Interrupt(c)
  PROVE  StoreInv'
<1>1. TypeOK
  BY DEF StoreInv
<1>2. /\ pc' = [d \in Callers |-> IF d \in {c} THEN "idle" ELSE pc[d]]
      /\ task' = [d \in Callers |-> IF d \in {c} THEN Idle ELSE task[d]]
  BY <1>1 DEF Interrupt, TypeOK
<1>3. /\ UNCHANGED <<tables, run, contract, opened, seen, updates, raced>>
      /\ orphaned' = orphaned \cup Orphans({c})
  BY DEF Interrupt, database
<1>4. QED
  BY <1>1, <1>2, <1>3, StoppingKeepsStore DEF TypeOK

LEMMA CrashKeepsStore ==
  ASSUME StoreInv, NEW s \in Stores, Crash(s)
  PROVE  StoreInv'
<1> DEFINE lost == {c \in Callers : StoreOf[c] = s}
<1>1. TypeOK
  BY DEF StoreInv
<1>2. /\ opened' = opened \ {s} /\ orphaned' = orphaned \cup Orphans(lost)
      /\ pc' = [c \in Callers |-> IF c \in lost THEN "idle" ELSE pc[c]]
      /\ task' = [c \in Callers |-> IF c \in lost THEN Idle ELSE task[c]]
      /\ seen' = [c \in Callers |-> IF c \in lost THEN NoRow ELSE seen[c]]
      /\ UNCHANGED <<tables, run, contract, updates, raced>>
  BY DEF Crash, database
<1> HIDE DEF lost
<1>3. seen' \in [Callers -> Row \cup {NoRow}] /\ \A c \in Callers \ lost : seen'[c] = seen[c]
  BY <1>1, <1>2 DEF TypeOK
<1>4. lost \in SUBSET Callers /\ opened' \subseteq Stores
  BY <1>1, <1>2 DEF TypeOK, lost
<1>5. QED
  BY <1>2, <1>3, <1>4, StoppingKeepsStore

LEMMA HandleKeepsStore ==
  ASSUME StoreInv, NEW c \in Callers, Handle(c)
  PROVE  StoreInv'
<1>1. TypeOK
  BY DEF StoreInv
<1>2. /\ pc' = [d \in Callers |-> IF d \in {c} THEN "idle" ELSE pc[d]]
      /\ task' = [d \in Callers |-> IF d \in {c} THEN Idle ELSE task[d]]
  BY <1>1 DEF Handle, TypeOK
<1>3. UNCHANGED <<tables, run, contract, opened, seen, updates, raced, orphaned>>
  BY DEF Handle, database, history
<1>4. Orphans({c}) = {}
  BY DEF Handle, Orphans
<1>5. QED
  BY <1>1, <1>2, <1>3, <1>4, StoppingKeepsStore DEF TypeOK

LEMMA StoreInductive == StoreInv /\ [Next]_vars => StoreInv'
<1> SUFFICES ASSUME StoreInv, [Next]_vars PROVE StoreInv'
  OBVIOUS
<1>1. ASSUME NEW s \in Stores, Open(s) PROVE StoreInv'
  <2>1. /\ UNCHANGED <<run, contract, updates, pc, task, seen, raced, orphaned>>
        /\ tables' = Tables /\ opened' \subseteq Stores
    BY <1>1 DEF Open, history, StoreInv, TypeOK
  <2>2. TypeOK' /\ Tasks' /\ ReadersAgree' /\ CorruptionReportsAreRaces'
    BY <2>1 DEF StoreInv, TypeOK, Tasks, ReadersAgree, CorruptionReportsAreRaces
  <2>3. QED
    BY <2>1, <2>2, RowsStay
<1>2. ASSUME NEW c \in Callers, SetFirstContract(c) PROVE StoreInv'
  <2>1. task[c].run \in Runs /\ task[c].contract \in Contracts
    BY <1>2 DEF StoreInv, Tasks, SetFirstContract
  <2>2. QED
    BY <1>2, <2>1, WriteKeepsStore DEF SetFirstContract
<1>3. ASSUME NEW c \in Callers, NEW r \in Runs, NEW k \in Contracts, ReplaceContract(c, r, k)
      PROVE  StoreInv'
  <2>1. pc' = [pc EXCEPT ![c] = IF pc[c] = "created" THEN "contracted" ELSE pc[c]]
    BY <1>3 DEF ReplaceContract, StoreInv, TypeOK
  <2>2. QED
    BY <1>3, <2>1, WriteKeepsStore DEF ReplaceContract
<1>4. CASE UNCHANGED vars
  <2>1. UNCHANGED <<run, contract, updates, pc, task, seen, raced, orphaned, tables, opened>>
    BY <1>4 DEF vars
  <2>2. TypeOK' /\ Tasks' /\ ReadersAgree' /\ CorruptionReportsAreRaces'
    BY <2>1 DEF StoreInv, TypeOK, Tasks, ReadersAgree, CorruptionReportsAreRaces
  <2>3. QED
    BY <2>1, <2>2, RowsStay
<1>5. QED
  BY <1>1, <1>2, <1>3, <1>4, CrashKeepsStore, InterruptKeepsStore, HandleKeepsStore,
     SelectStateKeepsStore, SelectContractKeepsStore, UpdateKeepsStore, CreateKeepsStore
     DEF Next, Step

LEMMA StoreInvariant == Spec => []StoreInv
<1>1. Init => StoreInv
  <2> SUFFICES ASSUME Init PROVE StoreInv
    OBVIOUS
  <2>1. \A k \in Contracts : [contract |-> k, version |-> 0] \in Row
    BY DEF Row
  <2>2. /\ pc = [c \in Callers |-> "idle"] /\ task = [c \in Callers |-> Idle]
        /\ seen = [c \in Callers |-> NoRow] /\ updates = [r \in Runs |-> 0]
        /\ opened = {} /\ raced = {} /\ orphaned = {}
    BY DEF Init
  <2>3. /\ tables \subseteq Tables
        /\ run \in [Runs -> Row \cup {NoRow}] /\ contract \in [Runs -> Contracts \cup {NoRow}]
        /\ \A r \in Runs : \/ run[r] = NoRow /\ contract[r] = NoRow
                           \/ /\ run[r] \in Row /\ run[r].version = 0
                              /\ contract[r] = run[r].contract /\ contract[r] \in Contracts
    <3>1. CASE run = [r \in Runs |-> NoRow] /\ contract = [r \in Runs |-> NoRow]
      BY <3>1 DEF Init, Tables
    <3>2. CASE \E old \in Runs, k \in Contracts :
                 /\ run = [r \in Runs |->
                             IF r = old THEN [contract |-> k, version |-> 0] ELSE NoRow]
                 /\ contract = [r \in Runs |-> IF r = old THEN k ELSE NoRow]
      BY <2>1, <3>2 DEF Init, Tables
    <3>3. QED
      BY <3>1, <3>2 DEF Init
  <2>4. Idle \in [run : Runs \cup {NoRow}, contract : Contracts \cup {NoRow}]
    BY DEF Idle
  <2>5. TypeOK
    BY <2>2, <2>3, <2>4 DEF TypeOK
  <2>6. Tasks /\ ReadersAgree /\ CorruptionReportsAreRaces
    BY <2>2 DEF Tasks, ReadersAgree, CorruptionReportsAreRaces
  <2>7. RowsAgree /\ Counted
    BY <2>2, <2>3, RowFacts DEF RowsAgree, Counted
  <2>8. \A r \in Runs : ~Half(r)
    BY <2>3, RowFacts DEF Half
  <2>9. QED
    BY <2>5, <2>6, <2>7, <2>8 DEF StoreInv, HalvesAccounted, OneHalf
<1>2. QED
  BY <1>1, StoreInductive, PTL DEF Spec

\* As many versions as updates, whichever processes made them and whatever was
\* interrupted or died in between.
THEOREM NoUpdateIsLostCorrect == Spec => []NoUpdateIsLost
<1>1. StoreInv => NoUpdateIsLost
  BY DEF StoreInv, Counted, NoUpdateIsLost
<1>2. QED
  BY <1>1, StoreInvariant, PTL

\* A reader is told that the file is corrupt only if a contract was written under it.
THEOREM CorruptionReportsAreRacesCorrect == Spec => []CorruptionReportsAreRaces
BY StoreInvariant, PTL DEF StoreInv

\* A file has one run without its contract at most, and somebody is about to write it
\* or was cut short.
THEOREM AtMostOneHalfCorrect == Spec => []AtMostOneHalf
<1>1. StoreInv => AtMostOneHalf
  <2> SUFFICES ASSUME StoreInv PROVE AtMostOneHalf
    OBVIOUS
  <2> DEFINE halves == {r \in Runs : Half(r)}
  <2>1. Cardinality(halves) <= 1
    <3>1. CASE halves = {}
      BY <3>1, FS_EmptySet
    <3>2. CASE halves # {}
      <4>1. PICK r \in Runs : Half(r)
        BY <3>2
      <4>2. \A s \in Runs : Half(s) => s = r
        BY <4>1 DEF StoreInv, OneHalf
      <4>3. halves = {r}
        BY <4>1, <4>2
      <4>4. Cardinality({r}) = 1
        BY FS_Singleton
      <4>5. Cardinality(halves) = 1
        BY <4>3, <4>4, Zenon
      <4> HIDE DEF halves
      <4>6. QED
        BY <4>5
    <3>3. QED
      BY <3>1, <3>2
  <2>2. QED
    BY <2>1 DEF StoreInv, HalvesAccounted, AtMostOneHalf
<1>2. QED
  BY <1>1, StoreInvariant, PTL
=============================================================================
