----------------------------- MODULE AuditChain -----------------------------
(***************************************************************************)
(* AuditLog (audit.py) and RunLedger (ledger.py): a JSONL file whose       *)
(* entries are chained by hashes, the processes that append to it, and the *)
(* checkpoints an operator keeps elsewhere.                                *)
(*                                                                         *)
(* append reads the whole file for the last hash and then opens it again   *)
(* to write: no lock covers the two.  A hash is represented by the number  *)
(* of the write that made the entry: SHA-256 of distinct entries differ.   *)
(* RunLedger is the same file without signatures and checkpoints (Keys =   *)
(* {}), and answers replay by run.                                         *)
(***************************************************************************)
EXTENDS Integers, Sequences, SequencesExt

CONSTANTS
  Writers,     \* processes that append
  Runs,        \* run identifiers, as far as RunLedger.get tells entries apart
  Keys,        \* values ACB_AUDIT_HMAC_KEY may have
  NoKey,       \* the variable is not set
  Torn,        \* a line that is not JSON
  MaxWrites    \* bound on the writes

NoHash == 0

Entry == [hash : Nat \ {NoHash}, previous : Nat, run : Runs, signature : Keys \cup {NoKey}]

ASSUME ChainConstants == NoKey \notin Keys /\ MaxWrites \in Nat /\ Torn \notin Entry

VARIABLES
  log,         \* the lines of the file
  open,        \* the last line has no newline yet
  writes,      \* how many entries have been hashed
  key,         \* ACB_AUDIT_HMAC_KEY of the processes
  pc, tip,     \* each writer: idle, holding the last hash it read, or having written its own
  kept,        \* the retained checkpoint
  acked,       \* history: the hashes of the entries whose append has returned
  copy,        \* history: the file the checkpoint was made of
  overlapped,  \* history: an append read the last hash while another held it
  passed,      \* history: those that hold a hash while another has written its entry
  raced,       \* history: one of those has written too
  glued,       \* history: something was written on in a line without a newline
  damaged      \* history: lines were lost from the file

fileVars == <<log, open, writes, raced, glued>>
vars == <<fileVars, key, pc, tip, passed, kept, acked, copy, overlapped, damaged>>

NoCheckpoint == [count |-> 0, last |-> NoHash, signature |-> NoKey]

TypeOK ==
  /\ log \in Seq(Entry \cup {Torn}) /\ (open => log # <<>>)
  /\ writes \in Nat
  /\ key \in Keys \cup {NoKey}
  /\ pc \in [Writers -> {"idle", "read", "written"}]
  /\ tip \in [Writers -> Nat]
  /\ kept \in [count : Nat, last : Nat, signature : Keys \cup {NoKey}]
  /\ acked \subseteq Nat
  /\ copy \in Seq(Entry)
  /\ passed \subseteq Writers
  /\ {open, overlapped, raced, glued, damaged} \subseteq BOOLEAN

Init ==
  /\ log = <<>> /\ open = FALSE /\ writes = 0
  /\ key \in Keys \cup {NoKey}
  /\ pc = [w \in Writers |-> "idle"] /\ tip = [w \in Writers |-> NoHash]
  /\ kept = NoCheckpoint /\ acked = {} /\ copy = <<>>
  /\ overlapped = FALSE /\ passed = {} /\ raced = FALSE /\ glued = FALSE /\ damaged = FALSE

-----------------------------------------------------------------------------
\* read_entries raises on a line that does not parse.
Readable == \A i \in DOMAIN log : log[i] # Torn

\* _last_hash.
LastHash(lines) == IF lines = <<>> THEN NoHash ELSE Last(lines).hash

\* verify, the chain: every previous_hash is the hash of the entry before.
Linked(lines) ==
  \A i \in DOMAIN lines :
    lines[i].previous = IF i = 1 THEN NoHash ELSE lines[i - 1].hash

\* verify, the signatures: all by the key that is set, or none and no key.
Signed(lines) == \A i \in DOMAIN lines : lines[i].signature = key

Verifies == Readable /\ Linked(log) /\ Signed(log)

\* Mutant: the retained hash is not compared.
SameCount(c) == c.count <= Len(log)

\* verify_checkpoint: the file is at least as long, and the entry at entry_count
\* is the one that was last.
SameEntry(c) ==
  c.count <= Len(log) /\ LastHash(SubSeq(log, 1, c.count)) = c.last

CheckpointHolds(c) ==
  /\ c.signature # NoKey => key = c.signature
  /\ Verifies
  /\ SameEntry(c)

\* RunLedger.get: the position of the latest entry of a run, 0 if there is none.
Get(lines, r) == SelectLastInSeq(lines, LAMBDA e : e.run = r)

-----------------------------------------------------------------------------
\* Mutant: the previous hash is that of the first entry.
FirstHash(lines) == IF lines = <<>> THEN NoHash ELSE Head(lines).hash

\* The hash a new entry will name as its previous one.
Previous(lines) == LastHash(lines)

Readers == {v \in Writers : pc[v] = "read"}

\* append, up to _last_hash.
ReadTip(w) ==
  /\ pc[w] = "idle" /\ Readable
  /\ pc' = [pc EXCEPT ![w] = "read"]
  /\ tip' = [tip EXCEPT ![w] = Previous(log)]
  /\ overlapped' = (overlapped \/ Readers # {})
  /\ UNCHANGED <<fileVars, key, passed, kept, acked, copy, damaged>>

Forget(w) ==
  /\ pc' = [pc EXCEPT ![w] = "idle"]
  /\ tip' = [tip EXCEPT ![w] = NoHash]
  /\ passed' = passed \ {w}

Signature == key

\* Mutant: the previous hash is read again when the entry is written.
EntryOnTop(w, r) ==
  [hash |-> writes + 1, previous |-> IF Readable THEN LastHash(log) ELSE tip[w],
   run |-> r, signature |-> Signature]

NewEntry(w, r) ==
  [hash |-> writes + 1, previous |-> tip[w], run |-> r, signature |-> Signature]

\* What the file holds once a line is added to it: without a newline before it, the line
\* and the last one are one that does not parse.
Added(line) == IF open THEN Append(Front(log), Torn) ELSE Append(log, line)

\* append puts its line into the file, of which the last part may be missing.
Put(w, r, ended) ==
  /\ pc[w] = "read" /\ writes < MaxWrites
  /\ log' = Added(NewEntry(w, r)) /\ open' = ~ended
  /\ writes' = writes + 1
  /\ raced' = (raced \/ w \in passed)
  /\ glued' = (glued \/ open)

\* append, the write.  The key is read after the hash, in the same breath.
Write(w, r) ==
  /\ Put(w, r, TRUE)
  /\ pc' = [pc EXCEPT ![w] = "written"] /\ tip' = [tip EXCEPT ![w] = writes']
  /\ passed' = Readers \ {w}
  /\ UNCHANGED <<key, kept, acked, copy, overlapped, damaged>>

\* append returns the entry.
Return(w) ==
  /\ pc[w] = "written"
  /\ acked' = acked \cup {tip[w]}
  /\ Forget(w)
  /\ UNCHANGED <<fileVars, key, kept, copy, overlapped, damaged>>

\* The process dies before it has written anything, or before it returns.
Die(w) ==
  /\ pc[w] # "idle"
  /\ Forget(w)
  /\ UNCHANGED <<fileVars, key, kept, acked, copy, overlapped, damaged>>

\* The process dies, or the disk is full, in the middle of the line, ...
DieInLine(w) ==
  /\ pc[w] = "read"
  /\ log' = Added(Torn) /\ open' = TRUE /\ glued' = (glued \/ open)
  /\ Forget(w)
  /\ UNCHANGED <<writes, key, kept, raced, acked, copy, overlapped, damaged>>

\* ... or when only the newline is missing.
DieBeforeNewline(w, r) ==
  /\ Put(w, r, FALSE)
  /\ pc' = [pc EXCEPT ![w] = "idle"] /\ tip' = [tip EXCEPT ![w] = NoHash]
  /\ passed' = Readers \ {w}
  /\ UNCHANGED <<key, kept, acked, copy, overlapped, damaged>>

EntryCount(lines) == Len(lines)

\* checkpoint refuses a log that does not verify.
Checkpoint ==
  /\ Verifies
  /\ kept' = [count |-> EntryCount(log), last |-> LastHash(log), signature |-> key]
  /\ copy' = log
  /\ UNCHANGED <<fileVars, key, pc, tip, passed, acked, overlapped, damaged>>

\* The operator sets, changes or removes the key.
Rekey ==
  /\ key' \in (Keys \cup {NoKey}) \ {key}
  /\ UNCHANGED <<fileVars, pc, tip, passed, kept, acked, copy, overlapped, damaged>>

\* The file is replaced by an older copy of itself, or loses a line.
LoseLines ==
  /\ \/ \E n \in 0..(Len(log) - 1) : log' = SubSeq(log, 1, n) /\ open' = FALSE
     \/ \E i \in DOMAIN log : log' = RemoveAt(log, i) /\ open' = (open /\ i # Len(log))
  /\ damaged' = TRUE
  /\ UNCHANGED <<writes, key, pc, tip, passed, kept, raced, glued, acked, copy, overlapped>>

Next ==
  \/ \E w \in Writers : ReadTip(w) \/ Return(w) \/ Die(w) \/ DieInLine(w)
  \/ \E w \in Writers, r \in Runs : Write(w, r) \/ DieBeforeNewline(w, r)
  \/ Checkpoint \/ Rekey \/ LoseLines

Spec == Init /\ [][Next]_vars

-----------------------------------------------------------------------------
\* The lines before one that was torn at the end.
Entries == IF log # <<>> /\ Last(log) = Torn THEN Front(log) ELSE log

Serial == ~overlapped /\ ~damaged

\* As long as no append reads the last hash while another is between its read and its
\* write, the file holds all the entries that were ever written whole, in that order and
\* chained, among them every one whose append returned, whichever process dies in between;
\* a line that was cut short is the last one; and as long as the file can be read, a run
\* is answered with its latest entry.  One death does worse: it leaves a line that lacks
\* nothing but its newline, and the next append, which returns as if nothing were wrong,
\* spoils that line and its own.  From then on the file cannot be read.
SerialAppendsAreKept ==
  Serial =>
    IF glued THEN ~Readable
    ELSE /\ Linked(Entries)
         /\ Len(Entries) = writes /\ acked \subseteq 1..writes
         /\ \A i \in DOMAIN Entries : Entries[i].hash = i
         /\ \A i \in DOMAIN log : log[i] = Torn => i = Len(log)
         /\ \A i \in DOMAIN log : Readable =>
              /\ Get(log, log[i].run) # 0
              /\ log[Get(log, log[i].run)].hash >= log[i].hash

\* Two appends that race leave a trace for ever, and nothing else does: of a file that
\* lost nothing and can be read the chain is refused if and only if some append wrote its
\* entry although another had written its own since it read the last hash, however many
\* were appended before and since; appends that only overlapped, one of them dying, do no
\* harm.
RacesAreFound == ~damaged /\ Readable => (Linked(log) <=> ~raced)

\* A retained checkpoint is accepted only of a file that still begins with the
\* entries it was made of: lines lost from the end and overgrown by new appends
\* are found, though the chain itself verifies.
CheckpointPinsPrefix ==
  CheckpointHolds(kept) => SubSeq(log, 1, kept.count) = copy
=============================================================================
