-------------------------- MODULE AuditChainProofs --------------------------
(***************************************************************************)
(* Proofs about the hash chain, for any number of writers, runs and keys,  *)
(* and however appends overlap, are cut short or lines are lost.           *)
(***************************************************************************)
EXTENDS AuditChain, SequenceTheorems, WellFoundedInduction, TLAPS

-----------------------------------------------------------------------------
(* Sequences of lines.                                                     *)

LEMMA LargestExists ==
  ASSUME NEW n \in Nat, NEW S \in SUBSET (1..n), S # {}
  PROVE  \E m \in S : \A i \in S : m >= i
<1> DEFINE Gaps == {n - i : i \in S}
<1>1. Gaps \subseteq Nat /\ Gaps # {}
  <2>1. ASSUME NEW i \in S
        PROVE  n - i \in Nat
    OBVIOUS
  <2>2. QED
    BY <2>1
<1>2. PICK g \in Gaps : \A h \in Gaps : <<h, g>> \notin OpToRel(<, Nat)
  BY <1>1, WFMin, NatLessThanWellFounded, Zenon
<1>3. \A h \in Gaps : g \in Nat /\ h \in Nat /\ ~(h < g)
  BY <1>1, <1>2, Zenon DEF OpToRel
<1>4. PICK m \in S : g = n - m
  OBVIOUS
<1>5. ASSUME NEW i \in S
      PROVE  m >= i
  <2>1. ~(n - i < n - m)
    BY <1>3, <1>4
  <2>2. QED
    BY <2>1
<1>6. QED
  BY <1>5

LEMMA LargestIsMax ==
  ASSUME NEW n \in Nat, NEW S \in SUBSET (1..n), S # {}
  PROVE  Max(S) \in S /\ \A i \in S : Max(S) >= i
BY LargestExists DEF Max

\* Two chains of entries that agree in one place agree in all before it: an entry names
\* its predecessor, and hashes tell entries apart.
LEMMA ChainsAgree ==
  ASSUME NEW s \in Seq(Entry), NEW t \in Seq(Entry), Linked(s), Linked(t),
         NEW n \in Nat, n <= Len(s), n <= Len(t), n > 0 => s[n] = t[n],
         \A i \in DOMAIN s, j \in DOMAIN t : s[i].hash = t[j].hash => s[i] = t[j]
  PROVE  \A i \in 1..n : s[i] = t[i]
<1> DEFINE Differ == {i \in 1..n : s[i] # t[i]}
<1>1. SUFFICES ASSUME Differ # {}
               PROVE  FALSE
  OBVIOUS
<1>2. PICK m \in Differ : \A i \in Differ : m >= i
  BY <1>1, LargestExists
<1>3. m \in 1..n /\ m # n /\ s[m] # t[m]
  BY <1>2
<1>4. m + 1 \in 1..n /\ m + 1 \notin Differ /\ m + 1 # 1 /\ m + 1 - 1 = m
  BY <1>2, <1>3
<1>5. s[m + 1] = t[m + 1]
  BY <1>4
<1>6. /\ m \in DOMAIN s /\ m + 1 \in DOMAIN s /\ m \in DOMAIN t /\ m + 1 \in DOMAIN t
  BY <1>3, <1>4
<1>7. s[m + 1].previous = s[m].hash /\ t[m + 1].previous = t[m].hash
  BY <1>4, <1>6 DEF Linked
<1>8. QED
  BY <1>3, <1>5, <1>6, <1>7

-----------------------------------------------------------------------------
(* What the file may hold.                                                 *)

Lines == Entry \cup {Torn}

LEMMA ReadableLines ==
  ASSUME NEW s \in Seq(Lines), \A i \in DOMAIN s : s[i] # Torn
  PROVE  s \in Seq(Entry)
<1>1. \A i \in 1..Len(s) : s[i] \in Entry
  BY DEF Lines
<1>2. QED
  BY <1>1

\* Hashes tell the entries of the file, and those of the copy, apart; the checkpoint
\* is that of the copy.
ChainInv ==
  /\ TypeOK
  /\ \A i \in DOMAIN log : log[i] # Torn =>
       /\ log[i].hash <= writes
       /\ \A j \in DOMAIN log : log[j] # Torn /\ log[i].hash = log[j].hash => log[i] = log[j]
       /\ \A j \in DOMAIN copy : log[i].hash = copy[j].hash => log[i] = copy[j]
  /\ \A i \in DOMAIN copy : copy[i].hash <= writes
  /\ Linked(copy) /\ kept.count = Len(copy) /\ kept.last = LastHash(copy)

\* Lines are only lost, or torn.
LEMMA FewerLines ==
  ASSUME ChainInv, log' \in Seq(Lines), open' => log' # <<>>,
         \A i \in DOMAIN log' : log'[i] = Torn \/ \E j \in DOMAIN log : log'[i] = log[j],
         pc' \in [Writers -> {"idle", "read", "written"}], tip' \in [Writers -> Nat],
         key' \in Keys \cup {NoKey}, acked' \subseteq Nat, passed' \subseteq Writers,
         {open', overlapped', raced', glued', damaged'} \subseteq BOOLEAN,
         UNCHANGED <<writes, kept, copy>>
  PROVE  ChainInv'
BY DEF ChainInv, TypeOK, Lines, Linked, LastHash, Last

\* An entry's fields; a line read is one of the lines.
LEMMA EntryFields ==
  ASSUME NEW e \in Entry
  PROVE  e.hash \in Nat /\ e.hash # NoHash /\ e.previous \in Nat /\ e.run \in Runs
BY DEF Entry, NoHash

LEMMA LineRead ==
  ASSUME NEW s \in Seq(Lines), NEW i \in DOMAIN s
  PROVE  i \in 1..Len(s) /\ s[i] \in Lines /\ (s[i] # Torn => s[i] \in Entry /\ s[i].hash \in Nat)
<1>1. i \in 1..Len(s)
  BY LenProperties
<1>2. s[i] \in Lines
  BY <1>1, ElementOfSeq
<1>3. QED
  BY <1>1, <1>2, EntryFields DEF Lines

LEMMA EntryRead ==
  ASSUME NEW s \in Seq(Entry), NEW i \in DOMAIN s
  PROVE  i \in 1..Len(s) /\ s[i] \in Entry /\ s[i].hash \in Nat
<1>1. i \in 1..Len(s)
  BY LenProperties
<1>2. s[i] \in Entry
  BY <1>1, ElementOfSeq
<1>3. QED
  BY <1>1, <1>2, EntryFields

LEMMA EntryType ==
  ASSUME TypeOK, NEW w \in Writers, NEW r \in Runs
  PROVE  NewEntry(w, r) \in Entry /\ NewEntry(w, r).hash = writes + 1
                                  /\ NewEntry(w, r).previous = tip[w] /\ NewEntry(w, r).run = r
BY DEF TypeOK, NewEntry, Entry, Signature, NoHash

LEMMA LastHashType ==
  ASSUME NEW s \in Seq(Entry)
  PROVE  LastHash(s) \in Nat
<1>1. CASE s = <<>>
  BY <1>1 DEF LastHash, NoHash
<1>2. CASE s # <<>>
  <2>1. Len(s) \in DOMAIN s
    BY <1>2, EmptySeq, LenProperties
  <2>2. QED
    BY <1>2, <2>1, EntryRead DEF LastHash, Last
<1>3. QED
  BY <1>1, <1>2

\* What adding a line makes of the file.
LEMMA AddedLine ==
  ASSUME TypeOK, NEW e \in Lines
  PROVE  /\ Added(e) \in Seq(Lines) /\ Added(e) # <<>> /\ Len(log) \in Nat
         /\ ~open => /\ Added(e) = Append(log, e)
                     /\ Len(Added(e)) = Len(log) + 1 /\ Added(e)[Len(log) + 1] = e
         /\ open => /\ Len(log) > 0 /\ Len(Added(e)) = Len(log)
                    /\ Added(e)[Len(log)] = Torn
         /\ \A i \in 1..Len(log) : ~open \/ i # Len(log) => Added(e)[i] = log[i]
<1>1. log \in Seq(Lines) /\ Len(log) \in Nat /\ DOMAIN log = 1..Len(log) /\ Torn \in Lines
  BY LenProperties DEF TypeOK, Lines
<1>2. CASE ~open
  <2>1. Added(e) = Append(log, e)
    BY <1>2 DEF Added
  <2>2. /\ Append(log, e) \in Seq(Lines) /\ Append(log, e) # <<>>
        /\ Len(Append(log, e)) = Len(log) + 1 /\ Append(log, e)[Len(log) + 1] = e
        /\ \A i \in 1..Len(log) : Append(log, e)[i] = log[i]
    BY <1>1, AppendProperties
  <2>3. QED
    BY <1>1, <1>2, <2>1, <2>2, Zenon
<1>3. CASE open
  <2> DEFINE front == Front(log)
             n == Len(log)
  <2>1. n > 0
    BY <1>1, <1>3, EmptySeq DEF TypeOK
  <2>2. \A i \in 1..(n - 1) : i \in 1..n /\ log[i] \in Lines
    BY <1>1, <2>1, ElementOfSeq
  <2>3. /\ front \in Seq(Lines) /\ Len(front) = n - 1
        /\ \A i \in 1..(n - 1) : front[i] = log[i]
    BY <1>1, <2>1, <2>2, SubSeqProperties DEF Front
  <2>4. Added(e) = Append(front, Torn)
    BY <1>3 DEF Added
  <2>0. n \in Nat
    BY <1>1
  <2> HIDE DEF front
  <2>5. /\ Append(front, Torn) \in Seq(Lines) /\ Append(front, Torn) # <<>>
        /\ Len(Append(front, Torn)) = Len(front) + 1
        /\ Append(front, Torn)[Len(front) + 1] = Torn
        /\ \A i \in 1..Len(front) : Append(front, Torn)[i] = front[i]
    <3>1. front \in Seq(Lines) /\ Torn \in Lines
      BY <1>1, <2>3
    <3>2. QED
      BY <3>1, AppendProperties
  <2>6. /\ Added(e) \in Seq(Lines) /\ Added(e) # <<>>
        /\ Len(Added(e)) = n /\ Added(e)[n] = Torn
    BY <1>1, <2>1, <2>3, <2>4, <2>5
  <2>7. ASSUME NEW i \in 1..n, i # n
        PROVE  Added(e)[i] = log[i]
    <3> HIDE DEF n
    <3>1. i \in 1..(n - 1)
      BY <2>0, <2>7
    <3>2. Append(front, Torn)[i] = front[i] /\ front[i] = log[i]
      BY <2>3, <2>5, <3>1
    <3>3. QED
      BY <2>4, <3>2
  <2>8. QED
    BY <1>1, <1>3, <2>1, <2>6, <2>7, Zenon
<1>4. QED
  BY <1>2, <1>3 DEF TypeOK

LEMMA OldOrNew ==
  ASSUME TypeOK, NEW e \in Lines, NEW i \in 1..Len(Added(e))
  PROVE  Added(e)[i] = Torn \/ Added(e)[i] = e \/ (i \in 1..Len(log) /\ Added(e)[i] = log[i])
<1>1. open \in BOOLEAN
  BY DEF TypeOK
<1>2. CASE ~open
  <2>1. i = Len(log) + 1 \/ i \in 1..Len(log)
    BY <1>2, AddedLine
  <2>2. QED
    BY <1>2, <2>1, AddedLine
<1>3. CASE open
  <2>1. i = Len(log) \/ (i \in 1..Len(log) /\ i # Len(log))
    BY <1>3, AddedLine
  <2>2. QED
    BY <1>3, <2>1, AddedLine
<1>4. QED
  BY <1>1, <1>2, <1>3

LEMMA ChainInvariant == Spec => []ChainInv
<1>1. ASSUME Init
      PROVE  ChainInv
  <2>1. TypeOK
    <3>1. /\ pc \in [Writers -> {"idle", "read", "written"}] /\ tip \in [Writers -> Nat]
          /\ key \in Keys \cup {NoKey} /\ writes \in Nat
      BY <1>1 DEF Init, NoHash
    <3>2. log \in Seq(Entry \cup {Torn}) /\ copy \in Seq(Entry)
      BY <1>1, EmptySeq DEF Init
    <3>3. kept \in [count : Nat, last : Nat, signature : Keys \cup {NoKey}]
      BY <1>1 DEF Init, NoCheckpoint, NoHash
    <3>4. QED
      BY <1>1, <3>1, <3>2, <3>3 DEF Init, TypeOK
  <2>2. log = <<>> /\ copy = <<>> /\ kept.count = 0 /\ kept.last = NoHash
    BY <1>1 DEF Init, NoCheckpoint
  <2>3. QED
    BY <2>1, <2>2 DEF ChainInv, Linked, LastHash
<1>2. ASSUME ChainInv, [Next]_vars
      PROVE  ChainInv'
  <2>1. /\ log \in Seq(Lines) /\ writes \in Nat /\ key \in Keys \cup {NoKey}
        /\ pc \in [Writers -> {"idle", "read", "written"}] /\ tip \in [Writers -> Nat]
        /\ acked \subseteq Nat /\ copy \in Seq(Entry) /\ passed \subseteq Writers
        /\ {open, overlapped, raced, glued, damaged} \subseteq BOOLEAN
        /\ open => log # <<>>
    BY <1>2 DEF ChainInv, TypeOK, Lines
  <2>2. ASSUME NEW w \in Writers, ReadTip(w)
        PROVE  ChainInv'
    <3>1. LastHash(log) \in Nat
      BY <2>1, <2>2, ReadableLines, LastHashType DEF ReadTip, Readable
    <3>2. /\ tip' \in [Writers -> Nat] /\ pc' \in [Writers -> {"idle", "read", "written"}]
          /\ overlapped' \in BOOLEAN
      BY <2>1, <2>2, <3>1 DEF ReadTip, Previous
    <3>3. UNCHANGED <<log, open, writes, key, raced, glued, passed, kept, acked, copy, damaged>>
      BY <2>2 DEF ReadTip, fileVars
    <3>4. QED
      BY <1>2, <2>1, <3>2, <3>3, FewerLines
  <2>3. ASSUME NEW w \in Writers, Forget(w)
        PROVE  /\ tip' \in [Writers -> Nat] /\ pc' \in [Writers -> {"idle", "read", "written"}]
               /\ passed' \subseteq Writers
    BY <2>1, <2>3 DEF Forget, NoHash
  <2>4. ASSUME NEW w \in Writers, Return(w) \/ Die(w)
        PROVE  ChainInv'
    <3>1. /\ Forget(w) /\ acked' \subseteq Nat
          /\ UNCHANGED <<log, open, writes, key, raced, glued, kept, copy, overlapped, damaged>>
      BY <2>1, <2>4 DEF Return, Die, fileVars
    <3>2. QED
      BY <1>2, <2>1, <2>3, <3>1, FewerLines
  <2>5. ASSUME NEW w \in Writers, DieInLine(w)
        PROVE  ChainInv'
    <3>1. /\ Forget(w) /\ log' = Added(Torn) /\ open' = TRUE /\ glued' = (glued \/ open)
          /\ UNCHANGED <<writes, key, kept, raced, acked, copy, overlapped, damaged>>
      BY <2>5 DEF DieInLine
    <3>2. Torn \in Lines
      BY DEF Lines
    <3>3. /\ log' \in Seq(Lines) /\ log' # <<>>
          /\ \A i \in DOMAIN log' : log'[i] = Torn \/ \E j \in DOMAIN log : log'[i] = log[j]
      <4>1. /\ log' \in Seq(Lines) /\ log' # <<>> /\ DOMAIN log' = 1..Len(log')
            /\ DOMAIN log = 1..Len(log)
        BY <1>2, <2>1, <3>1, <3>2, AddedLine, LenProperties DEF ChainInv
      <4>2. ASSUME NEW i \in DOMAIN log'
            PROVE  log'[i] = Torn \/ \E j \in DOMAIN log : log'[i] = log[j]
        BY <1>2, <2>1, <3>1, <3>2, <4>1, OldOrNew DEF ChainInv
      <4>3. QED
        BY <4>1, <4>2
    <3>4. glued' \in BOOLEAN
      BY <2>1, <3>1
    <3>5. QED
      BY <1>2, <2>1, <2>3, <3>1, <3>3, <3>4, FewerLines
  <2>6. ASSUME NEW w \in Writers, NEW r \in Runs, Write(w, r) \/ DieBeforeNewline(w, r)
        PROVE  ChainInv'
    <3> DEFINE new == NewEntry(w, r)
    <3>1. /\ new \in Entry /\ new.hash = writes + 1 /\ new # Torn
      BY <1>2, EntryType, ChainConstants DEF ChainInv
    <3>2. /\ log' = Added(new) /\ writes' = writes + 1
          /\ open' \in BOOLEAN /\ raced' \in BOOLEAN /\ glued' \in BOOLEAN
          /\ UNCHANGED <<key, kept, acked, copy, overlapped, damaged>>
      BY <2>1, <2>6 DEF Write, DieBeforeNewline, Put
    <3>3. /\ tip' \in [Writers -> Nat] /\ pc' \in [Writers -> {"idle", "read", "written"}]
          /\ passed' \subseteq Writers
      <4>1. CASE Write(w, r)
        BY <2>1, <3>2, <4>1 DEF Write, Readers
      <4>2. CASE DieBeforeNewline(w, r)
        BY <2>1, <4>2 DEF DieBeforeNewline, Readers, NoHash
      <4>3. QED
        BY <2>6, <4>1, <4>2
    <3> HIDE DEF new
    <3>4. /\ log' \in Seq(Lines) /\ log' # <<>>
          /\ \A i \in DOMAIN log' :
               log'[i] = Torn \/ log'[i] = new \/ (i \in DOMAIN log /\ log'[i] = log[i])
      <4>1. new \in Lines
        BY <3>1 DEF Lines
      <4>2. /\ log' \in Seq(Lines) /\ log' # <<>> /\ DOMAIN log' = 1..Len(log')
            /\ DOMAIN log = 1..Len(log)
        BY <1>2, <2>1, <3>2, <4>1, AddedLine, LenProperties DEF ChainInv
      <4>3. ASSUME NEW i \in DOMAIN log'
            PROVE  log'[i] = Torn \/ log'[i] = new \/ (i \in DOMAIN log /\ log'[i] = log[i])
        BY <1>2, <2>1, <3>2, <4>1, <4>2, OldOrNew DEF ChainInv
      <4>4. QED
        BY <4>2, <4>3
    <3>5. writes' \in Nat
      BY <2>1, <3>2
    <3>6. TypeOK'
      BY <1>2, <2>1, <3>2, <3>3, <3>4, <3>5 DEF ChainInv, TypeOK, Lines
    <3>7. /\ \A i \in DOMAIN log : log[i] # Torn => log[i].hash \in Nat /\ log[i].hash <= writes
          /\ \A i \in DOMAIN copy : copy[i].hash \in Nat /\ copy[i].hash <= writes
      BY <1>2, <2>1, LineRead, EntryRead DEF ChainInv
    <3>8. \A i \in DOMAIN log' : log'[i] # Torn =>
            /\ log'[i].hash <= writes'
            /\ \A j \in DOMAIN log' :
                 log'[j] # Torn /\ log'[i].hash = log'[j].hash => log'[i] = log'[j]
            /\ \A j \in DOMAIN copy : log'[i].hash = copy[j].hash => log'[i] = copy[j]
      <4>1. ASSUME NEW i \in DOMAIN log', log'[i] # Torn
            PROVE  log'[i].hash <= writes'
        <5>1. log'[i] = new \/ (i \in DOMAIN log /\ log'[i] = log[i])
          BY <3>4, <4>1
        <5>2. CASE log'[i] = new
          BY <2>1, <3>1, <3>2, <5>2
        <5>3. CASE i \in DOMAIN log /\ log'[i] = log[i]
          BY <2>1, <3>2, <3>7, <4>1, <5>3
        <5>4. QED
          BY <5>1, <5>2, <5>3
      <4>2. ASSUME NEW i \in DOMAIN log', log'[i] # Torn, NEW j \in DOMAIN log', log'[j] # Torn,
                   log'[i].hash = log'[j].hash
            PROVE  log'[i] = log'[j]
        <5>1. /\ log'[i] = new \/ (i \in DOMAIN log /\ log'[i] = log[i])
              /\ log'[j] = new \/ (j \in DOMAIN log /\ log'[j] = log[j])
          BY <3>4, <4>2
        <5>2. CASE log'[i] = new /\ log'[j] = new
          BY <5>2
        <5>3. CASE log'[i] = new /\ j \in DOMAIN log /\ log'[j] = log[j]
          BY <2>1, <3>1, <3>7, <4>2, <5>3
        <5>4. CASE log'[j] = new /\ i \in DOMAIN log /\ log'[i] = log[i]
          BY <2>1, <3>1, <3>7, <4>2, <5>4
        <5>5. CASE i \in DOMAIN log /\ log'[i] = log[i] /\ j \in DOMAIN log /\ log'[j] = log[j]
          BY <1>2, <4>2, <5>5 DEF ChainInv
        <5>6. QED
          BY <5>1, <5>2, <5>3, <5>4, <5>5
      <4>3. ASSUME NEW i \in DOMAIN log', log'[i] # Torn, NEW j \in DOMAIN copy,
                   log'[i].hash = copy[j].hash
            PROVE  log'[i] = copy[j]
        BY <1>2, <2>1, <3>1, <3>4, <3>7, <4>3 DEF ChainInv
      <4>4. QED
        BY <4>1, <4>2, <4>3
    <3>9. \A i \in DOMAIN copy : copy[i].hash <= writes'
      BY <2>1, <3>2, <3>7
    <3>10. QED
      BY <1>2, <3>2, <3>6, <3>8, <3>9 DEF ChainInv, Linked, LastHash, Last
  <2>7. CASE Checkpoint
    <3>1. /\ Verifies /\ copy' = log
          /\ kept' = [count |-> Len(log), last |-> LastHash(log), signature |-> key]
          /\ UNCHANGED <<log, open, writes, raced, glued, key, pc, tip, passed, acked, overlapped,
                         damaged>>
      BY <2>7 DEF Checkpoint, EntryCount, fileVars
    <3>2. log \in Seq(Entry) /\ LastHash(log) \in Nat /\ Len(log) \in Nat
      <4>1. log \in Seq(Entry)
        BY <2>1, <3>1, ReadableLines DEF Verifies, Readable
      <4>2. QED
        BY <4>1, LastHashType, LenProperties
    <3>3. TypeOK'
      BY <1>2, <2>1, <3>1, <3>2 DEF ChainInv, TypeOK, Lines
    <3>4. \A i \in DOMAIN log : log[i] # Torn
      BY <3>1 DEF Verifies, Readable
    <3>5. Linked(copy)' /\ kept'.count = Len(copy') /\ kept'.last = LastHash(copy)'
      BY <3>1 DEF Verifies, Linked, LastHash, Last
    <3>6. QED
      BY <1>2, <3>1, <3>3, <3>4, <3>5 DEF ChainInv
  <2>8. CASE Rekey
    BY <1>2, <2>1, <2>8, FewerLines DEF Rekey, fileVars
  <2>9. CASE LoseLines
    <3> DEFINE Fewer == /\ log' \in Seq(Lines)
                        /\ \A i \in DOMAIN log' : \E j \in DOMAIN log : log'[i] = log[j]
    <3>1. Fewer
      <4>1. /\ Len(log) \in Nat /\ DOMAIN log = 1..Len(log)
            /\ \A i \in 1..Len(log) : log[i] \in Lines
        BY <2>1, LenProperties, ElementOfSeq
      <4>2. ASSUME NEW n \in 0..(Len(log) - 1), log' = SubSeq(log, 1, n)
            PROVE  Fewer
        <5>1. n \in Int /\ n <= Len(log)
          BY <4>1
        <5>2. \A i \in 1..n : i \in 1..Len(log) /\ log[i] \in Lines
          BY <4>1, <5>1
        <5>3. /\ log' \in Seq(Lines) /\ Len(log') = n
              /\ \A i \in 1..n : log'[i] = log[i]
          BY <4>2, <5>1, <5>2, SubSeqProperties
        <5>4. QED
          BY <4>1, <5>2, <5>3, LenProperties
      <4>3. ASSUME NEW i \in DOMAIN log, log' = RemoveAt(log, i)
            PROVE  Fewer
        <5> DEFINE before == SubSeq(log, 1, i - 1)
                   after == SubSeq(log, i + 1, Len(log))
        <5>1. i \in Int /\ 1 <= i /\ i <= Len(log)
          BY <4>1
        <5>2. \A j \in 1..(i - 1) : j \in DOMAIN log /\ log[j] \in Lines
          BY <4>1, <5>1
        <5>3. \A j \in (i + 1)..Len(log) : j \in DOMAIN log /\ log[j] \in Lines
          BY <4>1, <5>1
        <5>4. /\ before \in Seq(Lines) /\ Len(before) = i - 1
              /\ \A j \in 1..(i - 1) : before[j] = log[j]
          BY <5>1, <5>2, SubSeqProperties
        <5>5. /\ after \in Seq(Lines) /\ Len(after) = Len(log) - i
              /\ \A j \in 1..(Len(log) - i) : after[j] = log[i + j]
          BY <4>1, <5>1, <5>3, SubSeqProperties
        <5>6. log' = before \o after
          BY <4>3 DEF RemoveAt
        <5> HIDE DEF before, after
        <5>7. /\ log' \in Seq(Lines) /\ Len(log') = Len(log) - 1
              /\ \A j \in 1..(Len(log) - 1) :
                   log'[j] = IF j <= i - 1 THEN before[j] ELSE after[j - (i - 1)]
          <6>1. /\ before \o after \in Seq(Lines)
                /\ Len(before \o after) = Len(before) + Len(after)
                /\ \A j \in 1..(Len(before) + Len(after)) :
                     (before \o after)[j]
                       = IF j <= Len(before) THEN before[j] ELSE after[j - Len(before)]
            BY <5>4, <5>5, ConcatProperties
          <6>2. Len(before) + Len(after) = Len(log) - 1
            BY <4>1, <5>1, <5>4, <5>5
          <6>3. QED
            BY <5>4, <5>6, <6>1, <6>2
        <5>8. ASSUME NEW j \in DOMAIN log'
              PROVE  \E h \in DOMAIN log : log'[j] = log[h]
          <6>1. j \in 1..(Len(log) - 1)
            BY <5>7, LenProperties
          <6>2. CASE j <= i - 1
            <7>1. j \in 1..(i - 1)
              BY <5>1, <6>1, <6>2
            <7>2. log'[j] = before[j]
              BY <5>7, <6>1, <6>2
            <7>3. QED
              BY <5>2, <5>4, <7>1, <7>2
          <6>3. CASE ~(j <= i - 1)
            <7>1. j - (i - 1) \in 1..(Len(log) - i) /\ i + (j - (i - 1)) = j + 1
              BY <4>1, <5>1, <6>1, <6>3
            <7>2. log'[j] = after[j - (i - 1)]
              BY <5>7, <6>1, <6>3
            <7>3. after[j - (i - 1)] = log[j + 1]
              BY <5>5, <7>1
            <7>4. j + 1 \in DOMAIN log
              BY <4>1, <6>1
            <7>5. QED
              BY <7>2, <7>3, <7>4
          <6>4. QED
            BY <6>2, <6>3
        <5>9. QED
          BY <5>7, <5>8
      <4>4. QED
        BY <2>9, <4>2, <4>3 DEF LoseLines
    <3> HIDE DEF Fewer
    <3>2. open' \in BOOLEAN /\ (open' => log' # <<>>)
      <4>1. CASE open'
        <5>1. PICK i \in DOMAIN log : log' = RemoveAt(log, i) /\ open /\ i # Len(log)
          BY <2>9, <4>1 DEF LoseLines
        <5>2. i \in 1..Len(log) /\ Len(log) \in Nat
          BY <2>1, LenProperties
        <5>3. Len(log') = Len(log) - 1
          BY <2>1, <5>1, <5>2 DEF RemoveAt
        <5>4. Len(log') # 0
          BY <5>1, <5>2, <5>3
        <5>5. log' # <<>>
          BY <5>4
        <5>6. QED
          BY <2>1, <2>9, <5>5 DEF LoseLines
      <4>2. QED
        BY <2>1, <2>9, <4>1 DEF LoseLines
    <3>3. QED
      BY <1>2, <2>1, <2>9, <3>1, <3>2, FewerLines DEF LoseLines, Fewer
  <2>10. CASE UNCHANGED vars
    BY <1>2, <2>10 DEF vars, fileVars, ChainInv, TypeOK, Linked, LastHash, Last
  <2>11. QED
    BY <1>2, <2>2, <2>4, <2>5, <2>6, <2>7, <2>8, <2>9, <2>10 DEF Next
<1>3. QED
  BY <1>1, <1>2, PTL DEF Spec

-----------------------------------------------------------------------------
(* Appends that race.                                                      *)

\* Who holds a hash knows none that is yet to come, and it is the hash of the last line
\* unless another has written since; the chain is whole unless one wrote all the same.
RaceInv ==
  /\ passed \subseteq Readers
  /\ \A w \in Readers : tip[w] <= writes
  /\ ~damaged /\ Readable =>
       /\ Linked(log) <=> ~raced
       /\ \A w \in Readers : w \in passed <=> tip[w] # LastHash(log)

\* A chain grows by entries that name the last one.
LEMMA LinkedAppend ==
  ASSUME NEW s \in Seq(Entry), NEW e \in Entry
  PROVE  /\ Linked(Append(s, e)) <=> Linked(s) /\ e.previous = LastHash(s)
         /\ LastHash(Append(s, e)) = e.hash
<1> DEFINE t == Append(s, e)
           n == Len(s)
<1>1. /\ n \in Nat /\ DOMAIN s = 1..n /\ DOMAIN t = 1..(n + 1)
      /\ t # <<>> /\ Len(t) = n + 1 /\ t[n + 1] = e
      /\ \A i \in 1..n : t[i] = s[i]
  <2>1. t \in Seq(Entry)
    BY AppendProperties
  <2>2. QED
    BY <2>1, AppendProperties, LenProperties
<1>2. LastHash(s) = IF n = 0 THEN NoHash ELSE s[n].hash
  BY EmptySeq DEF LastHash, Last
<1>3. LastHash(t) = e.hash
  BY <1>1 DEF LastHash, Last
<1> HIDE DEF t, n
<1>4. ASSUME NEW i \in 1..n
      PROVE  /\ i \in 1..(n + 1) /\ t[i] = s[i]
             /\ (IF i = 1 THEN NoHash ELSE t[i - 1].hash)
                  = (IF i = 1 THEN NoHash ELSE s[i - 1].hash)
  <2>1. i = 1 \/ i - 1 \in 1..n
    BY <1>1
  <2>2. QED
    BY <1>1, <2>1
<1>5. /\ n + 1 \in 1..(n + 1)
      /\ (IF n + 1 = 1 THEN NoHash ELSE t[n + 1 - 1].hash) = LastHash(s)
  <2>1. CASE n = 0
    BY <1>1, <1>2, <2>1
  <2>2. CASE n # 0
    <3>1. n + 1 # 1 /\ n + 1 - 1 = n /\ n \in 1..n
      BY <1>1, <2>2
    <3>2. QED
      BY <1>1, <1>2, <2>2, <3>1
  <2>3. QED
    BY <2>1, <2>2
<1>6. \A i \in 1..(n + 1) : i \in 1..n \/ i = n + 1
  BY <1>1
<1>7. Linked(t) <=> Linked(s) /\ e.previous = LastHash(s)
  <2>1. ASSUME Linked(t)
        PROVE  Linked(s) /\ e.previous = LastHash(s)
    BY <1>1, <1>4, <1>5, <2>1 DEF Linked
  <2>2. ASSUME Linked(s), e.previous = LastHash(s)
        PROVE  Linked(t)
    <3>1. ASSUME NEW i \in 1..n
          PROVE  t[i].previous = IF i = 1 THEN NoHash ELSE t[i - 1].hash
      BY <1>1, <1>4, <2>2, <3>1 DEF Linked
    <3>2. t[n + 1].previous = IF n + 1 = 1 THEN NoHash ELSE t[n + 1 - 1].hash
      BY <1>1, <1>5, <2>2
    <3>3. QED
      BY <1>1, <1>6, <3>1, <3>2 DEF Linked
  <2>3. QED
    BY <2>1, <2>2
<1>8. QED
  BY <1>3, <1>7 DEF t

\* Adding a line heals nothing: a file that cannot be read stays so.
LEMMA StillUnreadable ==
  ASSUME TypeOK, NEW e \in Lines, log' = Added(e), Readable'
  PROVE  Readable /\ ~open
<1>1. /\ log \in Seq(Lines) /\ Len(log) \in Nat /\ DOMAIN log = 1..Len(log)
      /\ log' \in Seq(Lines) /\ DOMAIN log' = 1..Len(log') /\ open \in BOOLEAN
  BY AddedLine, LenProperties DEF TypeOK, Lines
<1>2. ~open
  <2>1. SUFFICES ASSUME open
                 PROVE  FALSE
    OBVIOUS
  <2>2. Len(log) > 0 /\ Len(log') = Len(log) /\ log'[Len(log)] = Torn
    BY <2>1, AddedLine
  <2>3. QED
    BY <1>1, <2>2 DEF Readable
<1>3. ASSUME NEW i \in DOMAIN log
      PROVE  log[i] # Torn
  <2>1. Len(log') = Len(log) + 1 /\ log'[i] = log[i]
    BY <1>1, <1>2, AddedLine
  <2>2. i \in DOMAIN log'
    BY <1>1, <2>1
  <2>3. QED
    BY <2>1, <2>2 DEF Readable
<1>4. QED
  BY <1>2, <1>3 DEF Readable

LEMMA RaceInvariant == Spec => []RaceInv
<1>1. Init => RaceInv
  BY DEF Init, RaceInv, Readers, Linked
<1>2. ASSUME ChainInv, RaceInv, [Next]_vars
      PROVE  RaceInv'
  <2>1. /\ TypeOK /\ log \in Seq(Lines) /\ writes \in Nat
        /\ pc \in [Writers -> {"idle", "read", "written"}] /\ tip \in [Writers -> Nat]
        /\ {open, raced, damaged} \subseteq BOOLEAN
    BY <1>2 DEF ChainInv, TypeOK, Lines
  <2>2. ASSUME NEW w \in Writers, ReadTip(w)
        PROVE  RaceInv'
    <3>1. /\ Readable /\ w \notin Readers /\ UNCHANGED <<log, writes, raced, passed, damaged>>
          /\ pc' = [pc EXCEPT ![w] = "read"] /\ tip' = [tip EXCEPT ![w] = LastHash(log)]
      BY <2>1, <2>2 DEF ReadTip, fileVars, Previous, Readers
    <3>2. /\ Readers' = Readers \cup {w} /\ tip'[w] = LastHash(log)
          /\ \A v \in Readers : v # w /\ tip'[v] = tip[v]
      BY <2>1, <3>1 DEF Readers
    <3>3. LastHash(log) <= writes
      <4>1. CASE log = <<>>
        BY <2>1, <4>1 DEF LastHash, NoHash
      <4>2. CASE log # <<>>
        <5>1. Len(log) \in DOMAIN log
          BY <2>1, <4>2, EmptySeq, LenProperties
        <5>2. log[Len(log)] # Torn
          BY <3>1, <5>1 DEF Readable
        <5>3. QED
          BY <1>2, <4>2, <5>1, <5>2 DEF ChainInv, LastHash, Last
      <4>3. QED
        BY <4>1, <4>2
    <3>4. LastHash(log)' = LastHash(log) /\ (Linked(log)' <=> Linked(log)) /\ Readable'
      BY <3>1 DEF LastHash, Last, Linked, Readable
    <3>5. QED
      BY <1>2, <3>1, <3>2, <3>3, <3>4 DEF RaceInv
  <2>3. ASSUME NEW w \in Writers, Forget(w)
        PROVE  /\ Readers' = Readers \ {w} /\ passed' = passed \ {w}
               /\ \A v \in Readers' : v \in Readers /\ v # w /\ tip'[v] = tip[v]
    BY <2>1, <2>3 DEF Forget, Readers
  <2>4. ASSUME NEW w \in Writers, Return(w) \/ Die(w)
        PROVE  RaceInv'
    <3>1. Forget(w) /\ UNCHANGED <<log, writes, raced, damaged>>
      BY <2>4 DEF Return, Die, fileVars
    <3>2. LastHash(log)' = LastHash(log) /\ (Linked(log)' <=> Linked(log))
          /\ (Readable' <=> Readable)
      BY <3>1 DEF LastHash, Last, Linked, Readable
    <3>3. QED
      BY <1>2, <2>3, <3>1, <3>2 DEF RaceInv
  <2>5. ASSUME NEW w \in Writers, DieInLine(w)
        PROVE  RaceInv'
    <3>1. Forget(w) /\ log' = Added(Torn) /\ UNCHANGED <<writes, raced, damaged>>
      BY <2>5 DEF DieInLine
    <3>2. ~Readable'
      <4>1. Torn \in Lines
        BY DEF Lines
      <4>2. SUFFICES ASSUME Readable'
                     PROVE  FALSE
        OBVIOUS
      <4>3. ~open
        BY <2>1, <3>1, <4>1, <4>2, StillUnreadable
      <4>4. /\ log' \in Seq(Lines) /\ Len(log) \in Nat /\ Len(log') = Len(log) + 1
            /\ log'[Len(log) + 1] = Torn
        BY <2>1, <3>1, <4>1, <4>3, AddedLine
      <4>5. Len(log) + 1 \in DOMAIN log'
        BY <4>4, LenProperties
      <4>6. QED
        BY <4>2, <4>4, <4>5 DEF Readable
    <3>3. QED
      BY <1>2, <2>3, <3>1, <3>2 DEF RaceInv
  <2>6. ASSUME NEW w \in Writers, NEW r \in Runs, Write(w, r) \/ DieBeforeNewline(w, r)
        PROVE  RaceInv'
    <3> DEFINE new == NewEntry(w, r)
    <3>1. /\ new \in Entry /\ new.hash = writes + 1 /\ new.previous = tip[w]
      BY <2>1, EntryType
    <3>2. /\ log' = Added(new) /\ writes' = writes + 1 /\ UNCHANGED damaged
          /\ raced' = (raced \/ w \in passed) /\ passed' = Readers \ {w} /\ w \in Readers
      BY <2>6 DEF Write, DieBeforeNewline, Put, Readers
    <3>3. /\ Readers' = Readers \ {w}
          /\ \A v \in Readers' : v \in Readers /\ v # w /\ tip'[v] = tip[v]
      <4>1. CASE Write(w, r)
        BY <2>1, <4>1 DEF Write, Readers
      <4>2. CASE DieBeforeNewline(w, r)
        BY <2>1, <4>2 DEF DieBeforeNewline, Readers
      <4>3. QED
        BY <2>6, <4>1, <4>2
    <3> HIDE DEF new
    <3>4. ASSUME NEW v \in Readers'
          PROVE  tip'[v] <= writes' /\ tip'[v] # writes + 1
      <4>1. v \in Readers /\ v \in Writers /\ tip[v] \in Nat /\ tip[v] <= writes /\ tip'[v] = tip[v]
        BY <1>2, <2>1, <3>3, <3>4 DEF RaceInv, Readers
      <4>2. QED
        BY <2>1, <3>2, <4>1
    <3>5. ASSUME ~damaged', Readable'
          PROVE  /\ Linked(log') <=> ~raced'
                 /\ \A v \in Readers' : v \in passed' <=> tip'[v] # LastHash(log')
      <4>1. new \in Lines
        BY <3>1 DEF Lines
      <4>2. Readable /\ ~open /\ log' = Append(log, new)
        BY <2>1, <3>2, <3>5, <4>1, StillUnreadable, AddedLine
      <4>3. log \in Seq(Entry)
        BY <2>1, <4>2, ReadableLines DEF Readable
      <4>4. /\ Linked(log') <=> Linked(log) /\ tip[w] = LastHash(log)
            /\ LastHash(log') = writes + 1
        BY <3>1, <4>2, <4>3, LinkedAppend
      <4>5. /\ Linked(log) <=> ~raced
            /\ w \in passed <=> tip[w] # LastHash(log)
        BY <1>2, <3>2, <3>5, <4>2 DEF RaceInv
      <4>6. Linked(log') <=> ~raced'
        BY <3>2, <4>4, <4>5
      <4>7. \A v \in Readers' : v \in passed' /\ tip'[v] # LastHash(log')
        BY <3>2, <3>3, <3>4, <4>4
      <4>8. QED
        BY <4>6, <4>7
    <3>6. passed' \subseteq Readers'
      BY <3>2, <3>3
    <3>7. Linked(log)' = Linked(log') /\ LastHash(log)' = LastHash(log')
      BY DEF Linked, LastHash, Last
    <3>8. QED
      BY <3>4, <3>5, <3>6, <3>7 DEF RaceInv
  <2>7. CASE Checkpoint \/ Rekey \/ UNCHANGED vars
    <3>1. UNCHANGED <<log, writes, raced, pc, tip, passed, damaged>>
      BY <2>7 DEF Checkpoint, Rekey, vars, fileVars
    <3>2. /\ LastHash(log)' = LastHash(log) /\ (Linked(log)' <=> Linked(log))
          /\ (Readable' <=> Readable) /\ Readers' = Readers
      BY <3>1 DEF LastHash, Last, Linked, Readable, Readers
    <3>3. QED
      BY <1>2, <3>1, <3>2 DEF RaceInv
  <2>8. CASE LoseLines
    <3>1. damaged' /\ UNCHANGED <<writes, pc, tip, passed>>
      BY <2>8 DEF LoseLines
    <3>2. Readers' = Readers
      BY <3>1 DEF Readers
    <3>3. QED
      BY <1>2, <3>1, <3>2 DEF RaceInv
  <2>9. QED
    BY <1>2, <2>2, <2>4, <2>5, <2>6, <2>7, <2>8 DEF Next
<1>3. QED
  BY <1>1, <1>2, ChainInvariant, PTL DEF Spec

\* However many append, and whatever dies, the chain of a file that lost nothing and can
\* be read is refused exactly if some append wrote although another had written since it
\* read the last hash.
THEOREM RacesAreFoundCorrect == Spec => []RacesAreFound
<1>1. RaceInv => RacesAreFound
  BY DEF RaceInv, RacesAreFound
<1>2. QED
  BY <1>1, RaceInvariant, PTL

-----------------------------------------------------------------------------
(* Checkpoints.                                                            *)

\* A retained checkpoint is accepted only of a file that still begins with the entries
\* it was made of.
THEOREM CheckpointPinsPrefixCorrect == Spec => []CheckpointPinsPrefix
<1>1. ASSUME ChainInv, CheckpointHolds(kept)
      PROVE  SubSeq(log, 1, kept.count) = copy
  <2> DEFINE n == Len(copy)
  <2>1. /\ log \in Seq(Entry) /\ copy \in Seq(Entry) /\ n \in Nat /\ n = kept.count
        /\ n <= Len(log) /\ Linked(log) /\ Linked(copy)
    BY <1>1, ReadableLines
       DEF ChainInv, TypeOK, CheckpointHolds, Verifies, Readable, SameEntry, Lines
  <2>2. LastHash(SubSeq(log, 1, n)) = LastHash(copy)
    BY <1>1, <2>1 DEF ChainInv, CheckpointHolds, SameEntry
  <2>3. \A i \in DOMAIN log, j \in DOMAIN copy : log[i].hash = copy[j].hash => log[i] = copy[j]
    BY <1>1 DEF ChainInv, CheckpointHolds, Verifies, Readable
  <2>4. n > 0 => log[n] = copy[n]
    <3>1. SUFFICES ASSUME n > 0
                   PROVE  log[n] = copy[n]
      OBVIOUS
    <3>2. /\ n \in DOMAIN log /\ n \in DOMAIN copy /\ copy # <<>>
          /\ SubSeq(log, 1, n) # <<>> /\ Len(SubSeq(log, 1, n)) = n
          /\ SubSeq(log, 1, n)[n] = log[n]
      BY <2>1, <3>1
    <3>3. log[n].hash = copy[n].hash
      BY <2>2, <3>2 DEF LastHash, Last
    <3>4. QED
      BY <2>3, <3>2, <3>3
  <2>5. \A i \in 1..n : log[i] = copy[i]
    BY <2>1, <2>3, <2>4, ChainsAgree
  <2>6. SubSeq(log, 1, n) = copy
    BY <2>1, <2>5
  <2>7. QED
    BY <2>1, <2>6
<1>2. ChainInv => CheckpointPinsPrefix
  BY <1>1 DEF CheckpointPinsPrefix
<1>3. QED
  BY <1>2, ChainInvariant, PTL

-----------------------------------------------------------------------------
(* Appends that do not overlap.                                            *)

\* The entries are the first, the second, ... written; a torn line is the last one and open
\* to be glued to; whoever holds the last hash is alone, and the file has not changed
\* since; what a writer has written is there.
SerialInv ==
  Serial =>
    /\ \A v, w \in Readers : v = w
    /\ IF glued THEN ~Readable /\ Readers = {}
       ELSE /\ Len(log) = writes \/ (Len(log) = writes + 1 /\ log[writes + 1] = Torn /\ open)
            /\ \A i \in 1..writes : log[i] # Torn /\ log[i].hash = i /\ log[i].previous = i - 1
            /\ \A w \in Readers : Len(log) = writes /\ tip[w] = writes
            /\ \A w \in Writers : pc[w] = "written" => tip[w] \in 1..writes
            /\ acked \subseteq 1..writes

\* The entries of such a file: all lines but a torn one.
LEMMA WholeEntries ==
  ASSUME ChainInv, SerialInv, Serial, ~glued
  PROVE  /\ Entries \in Seq(Lines) /\ Len(Entries) = writes /\ DOMAIN Entries = 1..writes
         /\ \A i \in 1..writes : Entries[i] = log[i]
         /\ Readable => Len(log) = writes
<1>1. /\ log \in Seq(Lines) /\ Len(log) \in Nat /\ DOMAIN log = 1..Len(log) /\ writes \in Nat
  BY LenProperties DEF ChainInv, TypeOK, Lines
<1>2. \A i \in 1..writes : log[i] # Torn
  BY DEF SerialInv
<1>3. CASE Len(log) = writes
  <2>1. log = <<>> \/ Last(log) # Torn
    <3>1. CASE writes = 0
      BY <1>1, <1>3, <3>1, EmptySeq
    <3>2. CASE writes # 0
      BY <1>1, <1>2, <1>3, <3>2 DEF Last
    <3>3. QED
      BY <3>1, <3>2
  <2>2. Entries = log
    BY <2>1 DEF Entries
  <2>3. QED
    BY <1>1, <1>3, <2>2
<1>4. CASE Len(log) = writes + 1 /\ log[writes + 1] = Torn
  <2>1. log # <<>> /\ Last(log) = Torn
    BY <1>1, <1>4, EmptySeq DEF Last
  <2>2. Entries = SubSeq(log, 1, writes)
    BY <1>1, <1>4, <2>1 DEF Entries, Front
  <2>3. \A i \in 1..writes : log[i] \in Lines
    BY <1>1, <1>4, ElementOfSeq
  <2>4. /\ Entries \in Seq(Lines) /\ Len(Entries) = writes
        /\ \A i \in 1..writes : Entries[i] = log[i]
    BY <1>1, <1>4, <2>2, <2>3, SubSeqProperties
  <2>5. ~Readable
    BY <1>1, <1>4 DEF Readable
  <2>6. QED
    BY <1>1, <2>4, <2>5, LenProperties
<1>5. QED
  BY <1>3, <1>4 DEF SerialInv

LEMMA SerialInvariant == Spec => []SerialInv
<1>1. Init => SerialInv
  <2>1. ASSUME Init
        PROVE  /\ Readers = {} /\ ~glued /\ writes = 0 /\ Len(log) = 0 /\ acked = {}
               /\ \A w \in Writers : pc[w] # "written"
    BY <2>1 DEF Init, Readers
  <2>2. QED
    BY <2>1 DEF SerialInv
<1>2. ASSUME ChainInv, SerialInv, [Next]_vars
      PROVE  SerialInv'
  <2>1. /\ TypeOK /\ log \in Seq(Lines) /\ Len(log) \in Nat /\ DOMAIN log = 1..Len(log)
        /\ writes \in Nat /\ acked \subseteq Nat
        /\ pc \in [Writers -> {"idle", "read", "written"}] /\ tip \in [Writers -> Nat]
        /\ {open, glued, overlapped, damaged} \subseteq BOOLEAN
    BY <1>2, LenProperties DEF ChainInv, TypeOK, Lines
  <2>2. SUFFICES ASSUME Serial'
                 PROVE  SerialInv'
    BY DEF SerialInv
  <2>3. ASSUME NEW w \in Writers, ReadTip(w)
        PROVE  SerialInv'
    <3>1. /\ Readable /\ pc[w] = "idle"
          /\ UNCHANGED <<log, open, writes, glued, acked, damaged>>
          /\ pc' = [pc EXCEPT ![w] = "read"] /\ tip' = [tip EXCEPT ![w] = LastHash(log)]
          /\ overlapped' = (overlapped \/ Readers # {})
      BY <2>3 DEF ReadTip, Previous, fileVars
    <3>2. Serial /\ Readers = {}
      BY <2>2, <3>1 DEF Serial
    <3>3. ~glued /\ Len(log) = writes
      <4>1. ~glued
        BY <1>2, <3>1, <3>2 DEF SerialInv
      <4>2. QED
        BY <1>2, <3>1, <3>2, <4>1, WholeEntries
    <3>4. LastHash(log) = writes
      <4>1. CASE writes = 0
        BY <2>1, <3>3, <4>1, EmptySeq DEF LastHash, NoHash
      <4>2. CASE writes # 0
        <5>1. writes \in 1..writes /\ log # <<>>
          BY <2>1, <3>3, <4>2
        <5>2. QED
          BY <1>2, <3>2, <3>3, <5>1 DEF SerialInv, LastHash, Last
      <4>3. QED
        BY <4>1, <4>2
    <3>5. /\ Readers' = {w} /\ tip'[w] = writes
          /\ \A v \in Writers : pc'[v] = "written" => pc[v] = "written" /\ tip'[v] = tip[v]
      BY <2>1, <3>1, <3>2, <3>4 DEF Readers
    <3>6. QED
      BY <1>2, <3>1, <3>2, <3>3, <3>5 DEF SerialInv
  <2>4. ASSUME NEW w \in Writers, Forget(w)
        PROVE  /\ Readers' = Readers \ {w}
               /\ \A v \in Readers' : v \in Readers /\ tip'[v] = tip[v]
               /\ \A v \in Writers : pc'[v] = "written" => pc[v] = "written" /\ tip'[v] = tip[v]
    BY <2>1, <2>4 DEF Forget, Readers
  <2>5. ASSUME NEW w \in Writers, Return(w) \/ Die(w)
        PROVE  SerialInv'
    <3>1. /\ Forget(w) /\ UNCHANGED <<log, open, writes, glued, overlapped, damaged>>
          /\ acked' = acked \/ (pc[w] = "written" /\ acked' = acked \cup {tip[w]})
      BY <2>5 DEF Return, Die, fileVars
    <3>2. Serial /\ (Readable' <=> Readable)
      BY <2>2, <3>1 DEF Serial, Readable
    <3>3. ~glued => acked' \subseteq 1..writes
      BY <1>2, <3>1, <3>2 DEF SerialInv
    <3>4. QED
      BY <1>2, <2>4, <3>1, <3>2, <3>3 DEF SerialInv
  <2>6. ASSUME NEW w \in Readers
        PROVE  Serial => /\ Readers = {w} /\ ~glued /\ Len(log) = writes /\ tip[w] = writes
                         /\ open => writes > 0
    <3>1. open => Len(log) > 0
      BY <2>1, EmptySeq DEF TypeOK
    <3>2. QED
      BY <1>2, <2>6, <3>1 DEF SerialInv
  <2>7. ASSUME NEW w \in Writers, DieInLine(w)
        PROVE  SerialInv'
    <3>1. /\ Forget(w) /\ log' = Added(Torn) /\ open' = TRUE /\ glued' = (glued \/ open)
          /\ w \in Readers /\ UNCHANGED <<writes, acked, overlapped, damaged>>
      BY <2>7 DEF DieInLine, Readers
    <3>2. /\ Serial /\ Readers = {w} /\ ~glued /\ Len(log) = writes /\ Torn \in Lines
          /\ open => writes > 0
      BY <2>2, <2>6, <3>1 DEF Serial, Lines
    <3>3. Readers' = {}
      BY <2>4, <3>1, <3>2
    <3>4. CASE open
      <4>1. Len(log') = writes /\ log'[writes] = Torn /\ log' \in Seq(Lines)
        BY <2>1, <3>1, <3>2, <3>4, AddedLine
      <4>2. writes \in DOMAIN log'
        BY <2>1, <3>2, <3>4, <4>1
      <4>3. ~Readable'
        BY <4>1, <4>2 DEF Readable
      <4>4. QED
        BY <3>1, <3>3, <3>4, <4>3 DEF SerialInv
    <3>5. CASE ~open
      <4>1. /\ Len(log') = writes + 1 /\ log'[writes + 1] = Torn
            /\ \A i \in 1..writes : log'[i] = log[i]
        BY <2>1, <3>1, <3>2, <3>5, AddedLine
      <4>2. /\ \A i \in 1..writes' : log'[i] # Torn /\ log'[i].hash = i /\ log'[i].previous = i - 1
            /\ acked' \subseteq 1..writes'
        BY <1>2, <3>1, <3>2, <4>1 DEF SerialInv
      <4>3. \A v \in Writers : pc'[v] = "written" => tip'[v] \in 1..writes'
        BY <1>2, <2>4, <3>1, <3>2 DEF SerialInv
      <4>4. ~glued'
        BY <3>1, <3>2, <3>5
      <4>5. QED
        BY <3>1, <3>3, <4>1, <4>2, <4>3, <4>4 DEF SerialInv
    <3>6. QED
      BY <2>1, <3>4, <3>5
  <2>8. ASSUME NEW w \in Writers, NEW r \in Runs, Write(w, r) \/ DieBeforeNewline(w, r)
        PROVE  SerialInv'
    <3> DEFINE new == NewEntry(w, r)
    <3>1. /\ new \in Entry /\ new.hash = writes + 1 /\ new.previous = tip[w] /\ new # Torn
      BY <2>1, EntryType, ChainConstants
    <3>2. /\ log' = Added(new) /\ writes' = writes + 1 /\ glued' = (glued \/ open)
          /\ w \in Readers /\ UNCHANGED <<acked, overlapped, damaged>>
      BY <2>8 DEF Write, DieBeforeNewline, Put, Readers
    <3>3. /\ Serial /\ Readers = {w} /\ ~glued /\ Len(log) = writes /\ tip[w] = writes
          /\ open => writes > 0
      BY <2>2, <2>6, <3>2 DEF Serial
    <3>4. /\ Readers' = Readers \ {w}
          /\ \A v \in Writers : pc'[v] = "written" =>
               (v = w /\ tip'[v] = writes + 1) \/ (pc[v] = "written" /\ tip'[v] = tip[v])
      <4>1. CASE Write(w, r)
        BY <2>1, <3>2, <4>1 DEF Write, Readers
      <4>2. CASE DieBeforeNewline(w, r)
        BY <2>1, <4>2 DEF DieBeforeNewline, Readers
      <4>3. QED
        BY <2>8, <4>1, <4>2
    <3> HIDE DEF new
    <3>5. new \in Lines /\ Readers' = {}
      BY <3>1, <3>3, <3>4 DEF Lines
    <3>6. CASE open
      <4>1. Len(log') = writes /\ log'[writes] = Torn /\ log' \in Seq(Lines)
        BY <2>1, <3>2, <3>3, <3>5, <3>6, AddedLine
      <4>2. writes \in DOMAIN log'
        BY <2>1, <3>3, <3>6, <4>1
      <4>3. ~Readable'
        BY <4>1, <4>2 DEF Readable
      <4>4. QED
        BY <3>2, <3>5, <3>6, <4>3 DEF SerialInv
    <3>7. CASE ~open
      <4>1. /\ Len(log') = writes + 1 /\ log'[writes + 1] = new
            /\ \A i \in 1..writes : log'[i] = log[i]
        BY <2>1, <3>2, <3>3, <3>5, <3>7, AddedLine
      <4>2. \A i \in 1..writes : log[i] # Torn /\ log[i].hash = i /\ log[i].previous = i - 1
        BY <1>2, <3>3 DEF SerialInv
      <4>3. ASSUME NEW i \in 1..writes'
            PROVE  log'[i] # Torn /\ log'[i].hash = i /\ log'[i].previous = i - 1
        <5>1. i \in 1..writes \/ i = writes + 1
          BY <2>1, <3>2
        <5>2. CASE i \in 1..writes
          BY <4>1, <4>2, <5>2
        <5>3. CASE i = writes + 1
          BY <2>1, <3>1, <3>3, <4>1, <5>3
        <5>4. QED
          BY <5>1, <5>2, <5>3
      <4>4. 1..writes \subseteq 1..writes' /\ writes + 1 \in 1..writes'
        BY <2>1, <3>2
      <4>5. /\ acked' \subseteq 1..writes'
            /\ \A v \in Writers : pc'[v] = "written" => tip'[v] \in 1..writes'
        BY <1>2, <3>2, <3>3, <3>4, <4>4 DEF SerialInv
      <4>6. ~glued'
        BY <3>2, <3>3, <3>7
      <4>7. QED
        BY <3>2, <3>5, <4>1, <4>3, <4>5, <4>6 DEF SerialInv
    <3>8. QED
      BY <2>1, <3>6, <3>7
  <2>9. CASE Checkpoint \/ Rekey \/ UNCHANGED vars
    <3>1. UNCHANGED <<log, open, writes, glued, pc, tip, acked, overlapped, damaged>>
      BY <2>9 DEF Checkpoint, Rekey, vars, fileVars
    <3>2. Serial /\ (Readable' <=> Readable) /\ Readers' = Readers
      BY <2>2, <3>1 DEF Serial, Readable, Readers
    <3>3. QED
      BY <1>2, <3>1, <3>2 DEF SerialInv
  <2>10. CASE LoseLines
    BY <2>2, <2>10 DEF LoseLines, Serial
  <2>11. QED
    BY <1>2, <2>3, <2>5, <2>7, <2>8, <2>9, <2>10 DEF Next
<1>3. QED
  BY <1>1, <1>2, ChainInvariant, PTL DEF Spec

\* As long as appends do not overlap, whatever dies in between, the file holds the entries
\* that were written whole, in order and chained, and a run is answered with its latest
\* entry; unless a death left a line without its newline and another append wrote on in it.
THEOREM SerialAppendsAreKeptCorrect == Spec => []SerialAppendsAreKept
<1>1. ASSUME ChainInv, SerialInv, Serial, ~glued
      PROVE  /\ Linked(Entries)
             /\ Len(Entries) = writes /\ acked \subseteq 1..writes
             /\ \A i \in DOMAIN Entries : Entries[i].hash = i
             /\ \A i \in DOMAIN log : log[i] = Torn => i = Len(log)
             /\ \A i \in DOMAIN log : Readable =>
                  /\ Get(log, log[i].run) # 0
                  /\ log[Get(log, log[i].run)].hash >= log[i].hash
  <2>1. /\ log \in Seq(Lines) /\ Len(log) \in Nat /\ DOMAIN log = 1..Len(log) /\ writes \in Nat
    BY <1>1, LenProperties DEF ChainInv, TypeOK, Lines
  <2>2. /\ \A i \in 1..writes : log[i] # Torn /\ log[i].hash = i /\ log[i].previous = i - 1
        /\ acked \subseteq 1..writes
        /\ Len(log) = writes \/ Len(log) = writes + 1
    BY <1>1 DEF SerialInv
  <2>3. /\ Len(Entries) = writes /\ DOMAIN Entries = 1..writes
        /\ \A i \in 1..writes : Entries[i] = log[i]
        /\ Readable => Len(log) = writes
    BY <1>1, WholeEntries
  <2>4. \A i \in DOMAIN Entries : Entries[i].hash = i
    BY <2>2, <2>3
  <2>5. Linked(Entries)
    <3>1. ASSUME NEW i \in DOMAIN Entries
          PROVE  Entries[i].previous = IF i = 1 THEN NoHash ELSE Entries[i - 1].hash
      <4>1. Entries[i].previous = i - 1 /\ i \in 1..writes
        BY <2>2, <2>3, <3>1
      <4>2. CASE i = 1
        BY <4>1, <4>2 DEF NoHash
      <4>3. CASE i # 1
        <5>1. i - 1 \in 1..writes
          BY <2>1, <4>1, <4>3
        <5>2. QED
          BY <2>3, <2>4, <4>1, <4>3, <5>1
      <4>4. QED
        BY <4>2, <4>3
    <3>2. QED
      BY <3>1 DEF Linked
  <2>6. ASSUME NEW i \in DOMAIN log, log[i] = Torn
        PROVE  i = Len(log)
    <3>1. i \notin 1..writes
      BY <2>2, <2>6
    <3> DEFINE n == Len(log)
    <3>2. n \in Nat /\ i \in 1..n /\ writes \in Nat /\ (n = writes \/ n = writes + 1)
      BY <2>1, <2>2, <2>6
    <3>3. i = n
      <4> HIDE DEF n
      <4>1. QED
        BY <3>1, <3>2
    <3>4. QED
      BY <3>3
  <2>7. ASSUME NEW i \in DOMAIN log, Readable
        PROVE  /\ Get(log, log[i].run) # 0
               /\ log[Get(log, log[i].run)].hash >= log[i].hash
    <3> DEFINE S == {j \in 1..Len(log) : log[j].run = log[i].run}
               m == Max(S)
    <3>1. Get(log, log[i].run) = IF S # {} THEN m ELSE 0
      BY DEF Get, SelectLastInSeq
    <3>2. i \in S /\ S \in SUBSET (1..Len(log)) /\ S # {}
      BY <2>1, <2>7
    <3>3. m \in S /\ m >= i
      <4>1. m \in S /\ \A j \in S : m >= j
        <5> HIDE DEF S
        <5>1. QED
          BY <2>1, <3>2, LargestIsMax
      <4>2. QED
        BY <3>2, <4>1
    <3>4. m \in 1..writes /\ i \in 1..writes /\ m # 0
      <4>1. 1..Len(log) = 1..writes
        BY <2>3, <2>7
      <4>2. m \in 1..writes /\ i \in 1..writes
        BY <3>2, <3>3, <4>1, Zenon
      <4>3. QED
        BY <2>1, <4>2
    <3> HIDE DEF m
    <3>5. log[m].hash = m /\ log[i].hash = i
      BY <2>2, <3>4
    <3>6. Get(log, log[i].run) = m
      BY <3>1, <3>2
    <3>7. QED
      BY <3>3, <3>4, <3>5, <3>6
  <2>8. QED
    BY <2>2, <2>3, <2>4, <2>5, <2>6, <2>7
<1>2. ASSUME ChainInv, SerialInv
      PROVE  SerialAppendsAreKept
  <2>1. glued \in BOOLEAN
    BY <1>2 DEF ChainInv, TypeOK
  <2>2. CASE ~glued
    BY <1>1, <1>2, <2>2 DEF SerialAppendsAreKept
  <2>3. CASE glued
    BY <1>2, <2>3 DEF SerialAppendsAreKept, SerialInv
  <2>4. QED
    BY <2>1, <2>2, <2>3
<1>3. QED
  BY <1>2, ChainInvariant, SerialInvariant, PTL
=============================================================================
