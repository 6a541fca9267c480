------------------------------ MODULE RunStore ------------------------------
(***************************************************************************)
(* SQLiteRunStore (src/agent_circuit_breaker/runtime.py): one database     *)
(* file, the store objects that processes open on it, and the callers      *)
(* (threads of asyncio.to_thread) that use them.                           *)
(*                                                                         *)
(* create, set_contract and update are one BEGIN IMMEDIATE transaction     *)
(* each and so one action; create_run is three calls, with anything in     *)
(* between; read is two SELECTs with no transaction around them.  The      *)
(* store's RLock keeps the callers of one store object apart, and nothing  *)
(* but SQLite keeps the stores apart.                                      *)
(***************************************************************************)
EXTENDS Naturals, FiniteSets

CONSTANTS
  Runs,         \* run identifiers
  Contracts,    \* policy fingerprints
  Stores,       \* SQLiteRunStore objects, one per process
  Callers,      \* threads that call them
  StoreOf,      \* [Callers -> Stores]
  NoRow,        \* a row that is not there
  MaxVersion    \* [Runs -> Nat]: bound on the updates of each run

ASSUME StoreConstants ==
  /\ StoreOf \in [Callers -> Stores]
  /\ NoRow \notin Contracts \cup Runs \cup [contract : Contracts, version : Nat]
  /\ MaxVersion \in [Runs -> Nat]

Tables == {"runtime_metadata", "runtime_runs", "runtime_contracts"}

VARIABLES
  tables,      \* the tables the file has
  run,         \* runtime_runs: what validation reads of state_json
  contract,    \* runtime_contracts: the fingerprint of contract_json
  opened,      \* stores whose __init__ has returned
  pc, task,    \* where each caller is, and on which run and contract
  seen,        \* the state row a read has selected
  updates,     \* history: updates committed to each run
  raced,       \* history: readers under whose read a contract was written
  orphaned     \* history: runs whose creation was cut short

database == <<tables, run, contract>>
history == <<updates, raced, orphaned>>
vars == <<tables, run, contract, opened, pc, task, seen, updates, raced, orphaned>>

Row == [contract : Contracts, version : Nat]
Idle == [run |-> NoRow, contract |-> NoRow]

TypeOK ==
  /\ tables \subseteq Tables
  /\ run \in [Runs -> Row \cup {NoRow}]
  /\ contract \in [Runs -> Contracts \cup {NoRow}]
  /\ opened \subseteq Stores
  /\ pc \in [Callers -> {"idle", "created", "contracted", "reading", "failed"}]
  /\ task \in [Callers -> [run : Runs \cup {NoRow}, contract : Contracts \cup {NoRow}]]
  /\ seen \in [Callers -> Row \cup {NoRow}]
  /\ updates \in [Runs -> Nat]
  /\ raced \subseteq Callers
  /\ orphaned \subseteq Runs

Half(r) == run[r] # NoRow /\ contract[r] = NoRow
Whole(r) == run[r] # NoRow /\ contract[r] # NoRow /\ run[r].contract = contract[r]

\* A new file, the legacy two-table file with one run in it, or half of one.
Init ==
  /\ \/ /\ tables \in {{}, {"runtime_runs"}}
        /\ run = [r \in Runs |-> NoRow] /\ contract = [r \in Runs |-> NoRow]
     \/ /\ tables = {"runtime_runs", "runtime_contracts"}
        /\ \E old \in Runs, k \in Contracts :
             /\ run = [r \in Runs |->
                         IF r = old THEN [contract |-> k, version |-> 0] ELSE NoRow]
             /\ contract = [r \in Runs |-> IF r = old THEN k ELSE NoRow]
  /\ opened = {}
  /\ pc = [c \in Callers |-> "idle"]
  /\ task = [c \in Callers |-> Idle]
  /\ seen = [c \in Callers |-> NoRow]
  /\ updates = [r \in Runs |-> 0]
  /\ raced = {}
  /\ orphaned = {}

-----------------------------------------------------------------------------
\* The caller's store is open and no other caller is inside it.
Enters(c) ==
  /\ StoreOf[c] \in opened
  /\ \A d \in Callers : StoreOf[d] = StoreOf[c] => pc[d] # "reading"

\* Mutant: the runs of the file are not looked at.
RunsNotValidated == TRUE

\* _validate_database_sync: every run of the file must have its contract.
DatabaseValid == \A r \in Runs : run[r] # NoRow => Whole(r)

\* _initialize: the schema and the whole file are validated in one transaction,
\* the metadata of a legacy file is added, and a refusal changes nothing.
Open(s) ==
  /\ s \notin opened
  /\ "runtime_runs" \in tables <=> "runtime_contracts" \in tables
  /\ DatabaseValid
  /\ tables' = Tables
  /\ opened' = opened \cup {s}
  /\ UNCHANGED <<run, contract, pc, task, seen, history>>

\* create_run, first call.  _create_sync validates the runs of everybody.
Create(c, r, k) ==
  /\ pc[c] = "idle" /\ Enters(c)
  /\ DatabaseValid
  /\ run[r] = NoRow
  /\ run' = [run EXCEPT ![r] = [contract |-> k, version |-> 0]]
  /\ pc' = [pc EXCEPT ![c] = "created"]
  /\ task' = [task EXCEPT ![c] = [run |-> r, contract |-> k]]
  /\ UNCHANGED <<tables, contract, opened, seen, history>>

\* Mutant: the public summary in state_json keeps its old fingerprint.
SummaryKept(r, k) == run[r].contract

\* The fingerprint in state_json after set_contract.
Summary(r, k) == k

\* Mutant: set_contract validates the whole database as create does.
ContractAcceptedIfValid(r) == run[r] # NoRow /\ DatabaseValid

\* _set_contract_sync wants nothing but the run's row.
ContractAccepted(r) == run[r] # NoRow

WriteContract(r, k) ==
  /\ ContractAccepted(r)
  /\ run' = [run EXCEPT ![r].contract = Summary(r, k)]
  /\ contract' = [contract EXCEPT ![r] = k]
  /\ raced' = raced \cup {d \in Callers : pc[d] = "reading" /\ task[d].run = r}
  /\ UNCHANGED <<tables, opened, updates, orphaned>>

\* create_run, second call.
SetFirstContract(c) ==
  /\ pc[c] = "created" /\ Enters(c)
  /\ WriteContract(task[c].run, task[c].contract)
  /\ pc' = [pc EXCEPT ![c] = "contracted"]
  /\ UNCHANGED <<task, seen>>

\* store.set_contract called by the host on a run it knows.
ReplaceContract(c, r, k) ==
  /\ pc[c] = "idle" /\ Enters(c) /\ k # contract[r]
  /\ WriteContract(r, k)
  /\ UNCHANGED <<pc, task, seen>>

\* read, first SELECT: the last call of create_run, or a caller's own read.
SelectState(c, r) ==
  /\ Enters(c)
  /\ \/ pc[c] = "idle"
     \/ pc[c] = "contracted" /\ task[c].run = r
  /\ run[r] # NoRow
  /\ seen' = [seen EXCEPT ![c] = run[r]]
  /\ pc' = [pc EXCEPT ![c] = "reading"]
  /\ task' = [task EXCEPT ![c] = [run |-> r, contract |-> NoRow]]
  /\ raced' = raced \ {c}
  /\ UNCHANGED <<database, opened, updates, orphaned>>

\* The answer: a missing contract or a fingerprint that does not match raises.
Matches(c) == contract[task[c].run] = seen[c].contract

\* read, second SELECT, in a transaction of its own.
SelectContract(c) ==
  /\ pc[c] = "reading"
  /\ pc' = [pc EXCEPT ![c] = IF Matches(c) \/ contract[task[c].run] = NoRow
                               THEN "idle" ELSE "failed"]
  /\ task' = [task EXCEPT ![c] = IF pc'[c] = "failed" THEN @ ELSE Idle]
  /\ seen' = [seen EXCEPT ![c] = NoRow]
  /\ UNCHANGED <<database, opened, history>>

\* RuntimeIntegrityError has reached the caller.
Handle(c) ==
  /\ pc[c] = "failed"
  /\ pc' = [pc EXCEPT ![c] = "idle"]
  /\ task' = [task EXCEPT ![c] = Idle]
  /\ UNCHANGED <<database, opened, seen, history>>

\* Mutant: the updater is given the state of a read that ran before.
LastRead(c, r) ==
  IF \E d \in Callers : pc[d] = "reading" /\ task[d].run = r
    THEN seen[CHOOSE d \in Callers : pc[d] = "reading" /\ task[d].run = r]
    ELSE run[r]

\* The state an update starts from is the row inside its own transaction.
Base(c, r) == run[r]

\* update: the state is validated against its contract before and after.
Update(c, r) ==
  /\ pc[c] = "idle" /\ Enters(c)
  /\ Whole(r) /\ run[r].version < MaxVersion[r]
  /\ run' = [run EXCEPT ![r].version = Base(c, r).version + 1]
  /\ updates' = [updates EXCEPT ![r] = @ + 1]
  /\ UNCHANGED <<tables, contract, opened, pc, task, seen, raced, orphaned>>

-----------------------------------------------------------------------------
Orphans(C) == {task[c].run : c \in {d \in C : pc[d] = "created"}}

\* The coroutine of create_run is cancelled between two of its calls.
Interrupt(c) ==
  /\ pc[c] \in {"created", "contracted"}
  /\ orphaned' = orphaned \cup Orphans({c})
  /\ pc' = [pc EXCEPT ![c] = "idle"]
  /\ task' = [task EXCEPT ![c] = Idle]
  /\ UNCHANGED <<database, opened, seen, updates, raced>>

\* A process dies: what it has committed stays.
Crash(s) ==
  /\ s \in opened
  /\ opened' = opened \ {s}
  /\ LET lost == {c \in Callers : StoreOf[c] = s}
     IN /\ orphaned' = orphaned \cup Orphans(lost)
        /\ pc' = [c \in Callers |-> IF c \in lost THEN "idle" ELSE pc[c]]
        /\ task' = [c \in Callers |-> IF c \in lost THEN Idle ELSE task[c]]
        /\ seen' = [c \in Callers |-> IF c \in lost THEN NoRow ELSE seen[c]]
  /\ UNCHANGED <<database, updates, raced>>

Step(c) == SetFirstContract(c) \/ SelectContract(c) \/ Handle(c)

Next ==
  \/ \E s \in Stores : Open(s) \/ Crash(s)
  \/ \E c \in Callers :
       \/ Step(c) \/ Interrupt(c)
       \/ \E r \in Runs : SelectState(c, r) \/ Update(c, r)
       \/ \E r \in Runs, k \in Contracts : Create(c, r, k) \/ ReplaceContract(c, r, k)

Spec == Init /\ [][Next]_vars

\* A call that has begun goes on; SQLite's busy handler lets it in eventually.
FairSpec == Spec /\ \A c \in Callers : SF_vars(SetFirstContract(c)) /\ WF_vars(Step(c))

-----------------------------------------------------------------------------
\* An update starts from the state the last one committed, whichever process
\* made it: as many versions as updates, over interrupted calls and restarts.
NoUpdateIsLost ==
  \A r \in Runs : run[r] # NoRow => run[r].version = updates[r]

\* A reader is told that the file is corrupt only when a contract of the run was
\* written between its two SELECTs; otherwise every contract row agrees with the
\* summary in the state row, whatever was interrupted.
CorruptionReportsAreRaces ==
  \A c \in Callers : pc[c] = "failed" => c \in raced

\* No run is without its contract unless somebody is just about to write it or was
\* cut short, and creation never leaves more than one such run in the file.
AtMostOneHalf ==
  /\ \A r \in Runs : Half(r) =>
       r \in orphaned \/ \E c \in Callers : pc[c] = "created" /\ task[c].run = r
  /\ Cardinality({r \in Runs : Half(r)}) <= 1

\* A run gets its contract in the end unless its creator is cut short: neither
\* other callers nor runs others left behind stand in the way of set_contract.
CreationCompletes ==
  \A r \in Runs : Half(r) ~> (Whole(r) \/ r \in orphaned)

\* docs/API.md: the state survives a process restart.  A file that no call is at
\* work on can be opened.
SurvivesRestart ==
  (\A c \in Callers : pc[c] # "created") => DatabaseValid
=============================================================================
