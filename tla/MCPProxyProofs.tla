--------------------------- MODULE MCPProxyProofs ---------------------------
(***************************************************************************)
(* Proofs about the MCP proxy, for any number of agents, requests, tools,  *)
(* secrets and catalogs, over both transports, with any number of faults.  *)
(*                                                                         *)
(* Each property has an invariant of its own, on the part of the state it  *)
(* is about; Shapes says what the records of the two sides look like.      *)
(***************************************************************************)
EXTENDS MCPProxy, FiniteSetTheorems, WellFoundedInduction, TLAPS

-----------------------------------------------------------------------------
(* The records of the two sides.                                           *)

ClientShape(c) ==
  c = [phase |-> c.phase, request |-> c.request] /\ c.phase \in {"checked", "cleared"}

RelayShape(r) ==
  r = [phase |-> r.phase, answer |-> r.answer, held |-> r.held, as |-> r.as, tool |-> r.tool,
       bad |-> r.bad]

Shapes ==
  /\ \A c \in clients : ClientShape(c)
  /\ \A r \in relays : RelayShape(r)

LEMMA ComparedShape ==
  ASSUME NEW r, RelayShape(r), NEW held
  PROVE  [r EXCEPT !.phase = "compared", !.held = held] =
           [phase |-> "compared", answer |-> r.answer, held |-> held, as |-> r.as,
            tool |-> r.tool, bad |-> r.bad]
<1> DEFINE first == [r EXCEPT !.phase = "compared"]
<1>1. first = [phase |-> "compared", answer |-> r.answer, held |-> r.held, as |-> r.as,
               tool |-> r.tool, bad |-> r.bad]
  BY DEF RelayShape
<1> HIDE DEF first
<1>2. [first EXCEPT !.held = held] =
        [phase |-> "compared", answer |-> r.answer, held |-> held, as |-> r.as,
         tool |-> r.tool, bad |-> r.bad]
  BY <1>1
<1>3. QED
  BY <1>2, Zenon DEF first

LEMMA InspectedShape ==
  ASSUME NEW r, RelayShape(r), NEW phase
  PROVE  [r EXCEPT !.phase = phase] =
           [phase |-> phase, answer |-> r.answer, held |-> r.held, as |-> r.as,
            tool |-> r.tool, bad |-> r.bad]
BY DEF RelayShape

LEMMA JudgedShape ==
  ASSUME NEW r, RelayShape(r), NEW phase, NEW bad
  PROVE  [r EXCEPT !.phase = phase, !.bad = bad] =
           [phase |-> phase, answer |-> r.answer, held |-> r.held, as |-> r.as,
            tool |-> r.tool, bad |-> bad]
<1> DEFINE first == [r EXCEPT !.phase = phase]
<1>1. first = [phase |-> phase, answer |-> r.answer, held |-> r.held, as |-> r.as,
               tool |-> r.tool, bad |-> r.bad]
  BY DEF RelayShape
<1> HIDE DEF first
<1>2. [first EXCEPT !.bad = bad] =
        [phase |-> phase, answer |-> r.answer, held |-> r.held, as |-> r.as,
         tool |-> r.tool, bad |-> bad]
  BY <1>1
<1>3. QED
  BY <1>2, Zenon DEF first

LEMMA ArrivingIsSent == Arriving \subseteq inbox
BY DEF Arriving

\* A step is one of these.
LEMMA Steps ==
  ASSUME [Next]_vars
  PROVE  \/ AskList \/ AskCall
         \/ \E request \in Arriving : Check(request)
         \/ \E c \in clients : Record(c) \/ Forward(c)
         \/ \E request \in inbox \cup {c.request : c \in clients} : ClientFails(request)
         \/ Respond
         \/ \E answer \in outbox : Pop(answer)
         \/ \E r \in relays : LoadPins(r) \/ InspectCatalog(r) \/ InspectResult(r)
         \/ \E r \in relays : Deliver(r) \/ InspectionFails(r)
         \/ Expire \/ Restart \/ UNCHANGED vars
BY ArrivingIsSent DEF Next, ClientThread, RelayThread, Faults

\* What a new request leaves alone.
LEMMA AskLeaves ==
  ASSUME AskList \/ AskCall
  PROVE  UNCHANGED <<clients, upstream, outbox, relays, pending, quarantined, files, seen, raced,
                     clashed>>
<1>1. ASSUME NEW request, Ask(request)
      PROVE  UNCHANGED <<clients, upstream, outbox, relays, pending, quarantined, files, seen,
                         raced, clashed>>
  BY <1>1 DEF Ask
<1>2. QED
  BY <1>1, Zenon DEF AskList, AskCall

\* Whatever the client side turns to next.
LEMMA ClientSteps ==
  ASSUME Shapes, [Next]_vars, NEW c \in clients'
  PROVE  \/ c \in clients
         \/ \E request \in Arriving :
              /\ Check(request)
              /\ \/ c = [phase |-> "checked", request |-> request] /\ ~Tainted(request)
                 \/ c = Cleared(request) /\ Unstoppable(request)
         \/ \E d \in clients :
              /\ d.phase = "checked" /\ c = Cleared(d.request) /\ Record(d)
              /\ Forwardable(d.request) \/ Unstoppable(d.request)
<1>1. CASE AskList \/ AskCall
  BY <1>1 DEF AskList, AskCall, Ask
<1>2. ASSUME NEW request \in Arriving, Check(request)
      PROVE  \/ c \in clients
             \/ c = [phase |-> "checked", request |-> request] /\ ~Tainted(request)
             \/ c = Cleared(request) /\ Unstoppable(request)
  BY <1>2 DEF Check, Refuse, Done
<1>3. ASSUME NEW d \in clients, Record(d)
      PROVE  \/ c \in clients
             \/ /\ d.phase = "checked" /\ c = Cleared(d.request)
                /\ Forwardable(d.request) \/ Unstoppable(d.request)
  BY <1>3 DEF Record, Refuse, Done
<1>4. ASSUME NEW d \in clients, Forward(d)
      PROVE  c \in clients
  BY <1>4 DEF Forward
<1>5. ASSUME NEW request, ClientFails(request)
      PROVE  c \in clients
  BY <1>5 DEF ClientFails, Done
<1>6. CASE \/ Respond \/ \E answer \in outbox : Pop(answer)
           \/ \E r \in relays : LoadPins(r) \/ InspectCatalog(r) \/ InspectResult(r)
           \/ \E r \in relays : Deliver(r) \/ InspectionFails(r)
  BY <1>6 DEF Respond, Pop, LoadPins, InspectCatalog, InspectResult, Deliver, InspectionFails
<1>7. CASE Expire \/ Restart \/ UNCHANGED vars
  BY <1>7 DEF Expire, Restart, vars, memory
<1>8. QED
  BY <1>1, <1>2, <1>3, <1>4, <1>5, <1>6, <1>7, Steps

\* Whatever the relaying side turns to next.
LEMMA RelaySteps ==
  ASSUME Shapes, [Next]_vars, NEW r \in relays'
  PROVE  \/ r \in relays
         \/ \E answer \in outbox, request \in pending :
              /\ Pop(answer) /\ answer.kind # "error" /\ request.key = answer.key
              /\ r = [phase |-> "popped", answer |-> answer, held |-> NoPins,
                      as |-> request.kind, tool |-> request.tool, bad |-> {}]
         \/ \E x \in relays :
              /\ LoadPins(x)
              /\ r = [phase |-> "compared", answer |-> x.answer, held |-> pins, as |-> x.as,
                      tool |-> x.tool, bad |-> x.bad]
         \/ \E x \in relays : \E bad \in {Bad(x.held, x.answer.catalog)} :
              /\ InspectCatalog(x)
              /\ r = [phase |-> IF bad = {} THEN "passed" ELSE "stopped", answer |-> x.answer,
                      held |-> x.held, as |-> x.as, tool |-> x.tool, bad |-> bad]
         \/ \E x \in relays :
              /\ InspectResult(x)
              /\ r = [phase |-> IF Unsafe(x.answer) THEN "stopped" ELSE "passed",
                      answer |-> x.answer, held |-> x.held, as |-> x.as, tool |-> x.tool,
                      bad |-> x.bad]
<1>1. CASE AskList \/ AskCall
  BY <1>1 DEF AskList, AskCall, Ask
<1>2. CASE \/ \E request \in Arriving : Check(request)
           \/ \E c \in clients : Record(c) \/ Forward(c)
           \/ Respond
  BY <1>2 DEF Check, Record, Forward, Respond
<1>3. ASSUME NEW request, ClientFails(request)
      PROVE  r \in relays
  BY <1>3 DEF ClientFails
<1>4. ASSUME NEW answer \in outbox, Pop(answer)
      PROVE  \/ r \in relays
             \/ \E request \in pending :
                  /\ answer.kind # "error" /\ request.key = answer.key
                  /\ r = [phase |-> "popped", answer |-> answer, held |-> NoPins,
                          as |-> request.kind, tool |-> request.tool, bad |-> {}]
  BY <1>4 DEF Pop
<1>5. ASSUME NEW x \in relays, LoadPins(x)
      PROVE  \/ r \in relays
             \/ r = [phase |-> "compared", answer |-> x.answer, held |-> pins, as |-> x.as,
                     tool |-> x.tool, bad |-> x.bad]
  BY <1>5, ComparedShape DEF LoadPins, Step, Shapes
<1>6. ASSUME NEW x \in relays, InspectCatalog(x)
      PROVE  \/ r \in relays
             \/ \E bad \in {Bad(x.held, x.answer.catalog)} :
                  r = [phase |-> IF bad = {} THEN "passed" ELSE "stopped", answer |-> x.answer,
                       held |-> x.held, as |-> x.as, tool |-> x.tool, bad |-> bad]
  BY <1>6, JudgedShape DEF InspectCatalog, Step, Shapes
<1>7. ASSUME NEW x \in relays, InspectResult(x)
      PROVE  \/ r \in relays
             \/ r = [phase |-> IF Unsafe(x.answer) THEN "stopped" ELSE "passed",
                     answer |-> x.answer, held |-> x.held, as |-> x.as, tool |-> x.tool,
                     bad |-> x.bad]
  BY <1>7, InspectedShape DEF InspectResult, Step, Shapes
<1>8. ASSUME NEW x \in relays, Deliver(x) \/ InspectionFails(x)
      PROVE  r \in relays
  BY <1>8 DEF Deliver, InspectionFails
<1>9. CASE Expire \/ Restart \/ UNCHANGED vars
  BY <1>9 DEF Expire, Restart, vars, memory
<1>10. QED
  BY <1>1, <1>2, <1>3, <1>4, <1>5, <1>6, <1>7, <1>8, <1>9, Steps

LEMMA ShapesInvariant == Spec => []Shapes
<1>1. Init => Shapes
  BY DEF Init, Shapes
<1>2. ASSUME Shapes, [Next]_vars
      PROVE  Shapes'
  <2>1. ASSUME NEW c \in clients'
        PROVE  ClientShape(c)
    BY <1>2, ClientSteps DEF Shapes, ClientShape, Cleared
  <2>2. ASSUME NEW r \in relays'
        PROVE  RelayShape(r)
    BY <1>2, RelaySteps DEF Shapes, RelayShape
  <2>3. QED
    BY <2>1, <2>2 DEF Shapes
<1>3. QED
  BY <1>1, <1>2, PTL DEF Spec

-----------------------------------------------------------------------------
(* What is forwarded.                                                      *)

\* A step that writes a request to the server is Forward.
LEMMA ForwardSteps ==
  ASSUME [Next]_vars, NEW request \in Forwarded
  PROVE  \E c \in clients : Forward(c) /\ c.phase = "cleared" /\ c.request = request
<1>1. CASE AskList \/ AskCall
  BY <1>1 DEF AskList, AskCall, Ask, Forwarded
<1>2. ASSUME NEW c \in clients, Forward(c)
      PROVE  c.phase = "cleared" /\ c.request = request
  BY <1>2 DEF Forward, Forwarded
<1>3. CASE \/ \E q \in Arriving : Check(q)
           \/ \E c \in clients : Record(c)
           \/ Respond
  BY <1>3 DEF Check, Record, Respond, Forwarded
<1>4. ASSUME NEW q, ClientFails(q)
      PROVE  FALSE
  BY <1>4 DEF ClientFails, Forwarded
<1>5. CASE \/ \E answer \in outbox : Pop(answer)
           \/ \E r \in relays : LoadPins(r) \/ InspectCatalog(r) \/ InspectResult(r)
           \/ \E r \in relays : Deliver(r) \/ InspectionFails(r)
  BY <1>5 DEF Pop, LoadPins, InspectCatalog, InspectResult, Deliver, InspectionFails, Forwarded
<1>6. CASE Expire \/ Restart \/ UNCHANGED vars
  BY <1>6 DEF Expire, Restart, vars, memory, Forwarded
<1>7. QED
  BY <1>1, <1>2, <1>3, <1>4, <1>5, <1>6, Steps

-----------------------------------------------------------------------------
(* Quarantine.                                                             *)

\* What an agent was told is in force, and so is what it is about to be told; a call
\* made late under an id is not cleared.
QuarantineInv ==
  /\ told \subseteq quarantined
  /\ \A r \in relays : r.bad \subseteq quarantined
  /\ \A request \in inbox : request.late => request.tool \in told
  /\ \A c \in clients : c.request.late =>
       /\ c.request.tool \in told
       /\ Identified(c.request) => c.phase # "cleared"

LEMMA QuarantineInvariant == Spec => []QuarantineInv
<1>1. Init => QuarantineInv
  BY DEF Init, QuarantineInv
<1>2. ASSUME Shapes, QuarantineInv, [Next]_vars, ~Restart
      PROVE  QuarantineInv'
  <2> DEFINE Grows ==
        /\ quarantined \subseteq quarantined' /\ told \subseteq told' /\ told' \subseteq quarantined'
        /\ \A request \in inbox' : request \in inbox \/ (request.late => request.tool \in told')
        /\ \A x \in relays :
             InspectCatalog(x) => Bad(x.held, x.answer.catalog) \subseteq quarantined'
  <2>1. Grows
    <3>1. CASE AskList \/ AskCall
      <4>1. ASSUME NEW request, Ask(request), request.late => request.tool \in told
            PROVE  Grows
        BY <1>2, <4>1 DEF Ask, history, QuarantineInv, InspectCatalog, Quarantined
      <4> HIDE DEF Grows
      <4>2. QED
        BY <3>1, <4>1 DEF AskList, AskCall
    <3>2. CASE \/ \E q \in Arriving : Check(q)
               \/ \E c \in clients : Record(c) \/ Forward(c)
               \/ Respond
      BY <1>2, <3>2 DEF Check, Record, Forward, Respond, history, QuarantineInv, InspectCatalog,
                        Quarantined
    <3>3. ASSUME NEW q, ClientFails(q)
          PROVE  Grows
      BY <1>2, <3>3 DEF ClientFails, QuarantineInv, InspectCatalog, Quarantined
    <3>4. CASE \/ \E answer \in outbox : Pop(answer)
               \/ \E r \in relays : LoadPins(r) \/ InspectResult(r)
      BY <1>2, <3>4 DEF Pop, LoadPins, InspectCatalog, InspectResult, Quarantined, QuarantineInv
    <3>7. ASSUME NEW r \in relays, InspectCatalog(r)
          PROVE  Grows
      <4>1. /\ quarantined' = quarantined \cup Bad(r.held, r.answer.catalog)
            /\ inbox' = inbox /\ told' = told
        BY <3>7 DEF InspectCatalog, Quarantined, history
      <4>2. \A x \in relays : InspectCatalog(x) =>
               quarantined' = quarantined \cup Bad(x.held, x.answer.catalog)
        BY DEF InspectCatalog, Quarantined
      <4>3. QED
        BY <1>2, <4>1, <4>2 DEF QuarantineInv
    <3>5. CASE \E r \in relays : Deliver(r) \/ InspectionFails(r)
      BY <1>2, <3>5 DEF Deliver, InspectionFails, QuarantineInv, InspectCatalog, Quarantined
    <3>6. CASE Expire \/ UNCHANGED vars
      BY <1>2, <3>6 DEF Expire, vars, memory, history, QuarantineInv, InspectCatalog, Quarantined
    <3>8. QED
      BY <1>2, <3>1, <3>2, <3>3, <3>4, <3>5, <3>6, <3>7, Steps
  <2>2. ASSUME NEW r \in relays'
        PROVE  r.bad \subseteq quarantined'
    BY <1>2, <2>1, RelaySteps DEF QuarantineInv
  <2>3. ASSUME NEW c \in clients', c.request.late
        PROVE  /\ c.request.tool \in told'
               /\ Identified(c.request) => c.phase # "cleared"
    <3>1. CASE c \in clients
      BY <1>2, <2>1, <2>3, <3>1 DEF QuarantineInv
    <3>2. ASSUME NEW request \in Arriving, c.request = request,
                 c.phase # "cleared" \/ Unstoppable(request)
          PROVE  /\ c.request.tool \in told'
                 /\ Identified(c.request) => c.phase # "cleared"
      BY <1>2, <2>1, <2>3, <3>2, ArrivingIsSent DEF QuarantineInv, Unstoppable, Identified
    <3>3. ASSUME NEW d \in clients, c.request = d.request,
                 Forwardable(d.request) \/ Unstoppable(d.request)
          PROVE  /\ c.request.tool \in told'
                 /\ Identified(c.request) => c.phase # "cleared"
      BY <1>2, <2>1, <2>3, <3>3 DEF QuarantineInv, Forwardable, Unstoppable, Identified
    <3>4. QED
      BY <1>2, <3>1, <3>2, <3>3, ClientSteps DEF Cleared
  <2>4. QED
    BY <1>2, <2>1, <2>2, <2>3 DEF QuarantineInv
<1>3. QuarantineInv /\ Restart => QuarantineInv'
  BY DEF QuarantineInv, Restart
<1>4. QED
  BY <1>1, <1>2, <1>3, ShapesInvariant, PTL DEF Spec

\* A call with an id, made after an agent was told that its tool is blocked, is not
\* forwarded.
THEOREM QuarantineHoldsCorrect == Spec => QuarantineHolds
<1>1. QuarantineInv /\ [Next]_vars =>
        [\A request \in Forwarded : Identified(request) => ~request.late]_vars
  BY ForwardSteps DEF QuarantineInv
<1>2. QED
  BY <1>1, QuarantineInvariant, PTL DEF Spec, QuarantineHolds

-----------------------------------------------------------------------------
(* Pins.                                                                   *)

PairsOf(c) == {<<t, c[t]>> : t \in DOMAIN c}

\* The catalogs that answers carry.
CatalogsInv ==
  /\ \A a \in outbox : a.catalog \in Catalogs \cup {NoCatalog}
  /\ \A r \in relays : r.answer.catalog \in Catalogs \cup {NoCatalog}
  /\ seen \subseteq Catalogs \cup {NoCatalog}

LEMMA CatalogsInvariant == Spec => []CatalogsInv
<1>1. Init => CatalogsInv
  BY DEF Init, CatalogsInv
<1>2. ASSUME Shapes, CatalogsInv, [Next]_vars
      PROVE  CatalogsInv'
  <2>1. ASSUME NEW a \in outbox'
        PROVE  a.catalog \in Catalogs \cup {NoCatalog}
    <3>1. CASE Respond
      <4>1. PICK request \in upstream :
              (\E answer \in AnswersTo(request) : outbox' = outbox \cup {answer})
                 \/ UNCHANGED outbox
        BY <3>1 DEF Respond
      <4>2. \A answer \in AnswersTo(request) : answer.catalog \in Catalogs \cup {NoCatalog}
        BY DEF AnswersTo
      <4>3. QED
        BY <1>2, <2>1, <4>1, <4>2 DEF CatalogsInv
    <3>2. CASE ~Respond
      <4>1. outbox' \subseteq outbox
        <5>1. CASE AskList \/ AskCall
          BY <5>1 DEF AskList, AskCall, Ask
        <5>2. CASE \/ \E q \in Arriving : Check(q)
                   \/ \E c \in clients : Record(c) \/ Forward(c)
                   \/ \E answer \in outbox : Pop(answer)
          BY <5>2 DEF Check, Record, Forward, Pop
        <5>3. ASSUME NEW q, ClientFails(q)
              PROVE  outbox' \subseteq outbox
          BY <5>3 DEF ClientFails
        <5>4. CASE \/ \E r \in relays : LoadPins(r) \/ InspectCatalog(r) \/ InspectResult(r)
                   \/ \E r \in relays : Deliver(r) \/ InspectionFails(r)
                   \/ Expire \/ Restart \/ UNCHANGED vars
          BY <5>4 DEF LoadPins, InspectCatalog, InspectResult, Deliver, InspectionFails, Expire,
                      Restart, vars, memory
        <5>5. QED
          BY <1>2, <3>2, <5>1, <5>2, <5>3, <5>4, Steps
      <4>2. QED
        BY <1>2, <2>1, <4>1 DEF CatalogsInv
    <3>3. QED
      BY <3>1, <3>2
  <2>2. ASSUME NEW r \in relays'
        PROVE  r.answer.catalog \in Catalogs \cup {NoCatalog}
    BY <1>2, RelaySteps DEF CatalogsInv
  <2>3. seen' \subseteq Catalogs \cup {NoCatalog}
    <3>1. CASE AskList \/ AskCall
      BY <1>2, <3>1 DEF AskList, AskCall, Ask, CatalogsInv
    <3>2. CASE \/ \E q \in Arriving : Check(q)
               \/ \E c \in clients : Record(c) \/ Forward(c)
               \/ Respond
      BY <1>2, <3>2 DEF Check, Record, Forward, Respond, history, CatalogsInv
    <3>3. ASSUME NEW q, ClientFails(q)
          PROVE  seen' \subseteq Catalogs \cup {NoCatalog}
      BY <1>2, <3>3 DEF ClientFails, CatalogsInv
    <3>4. CASE \/ \E answer \in outbox : Pop(answer)
               \/ \E r \in relays : LoadPins(r) \/ InspectCatalog(r) \/ InspectResult(r)
      BY <1>2, <3>4 DEF Pop, LoadPins, InspectCatalog, InspectResult, history, CatalogsInv
    <3>5. CASE \E r \in relays : Deliver(r) \/ InspectionFails(r)
      BY <1>2, <3>5 DEF Deliver, InspectionFails, CatalogsInv
    <3>6. CASE Expire \/ Restart \/ UNCHANGED vars
      BY <1>2, <3>6 DEF Expire, Restart, vars, history, CatalogsInv
    <3>7. QED
      BY <1>2, <3>1, <3>2, <3>3, <3>4, <3>5, <3>6, Steps
  <2>4. QED
    BY <2>1, <2>2, <2>3 DEF CatalogsInv
<1>3. QED
  BY <1>1, <1>2, ShapesInvariant, PTL DEF Spec

\* The definition that counts is the one that nothing behind it replaces.
LEMMA LiveIsLast ==
  ASSUME NEW c \in Catalogs \cup {NoCatalog}, NEW i \in DOMAIN c, IsLastOf(c, i)
  PROVE  <<c[i][1], c[i][2]>> \in PairsOf(Live(c))
<1> DEFINE t == c[i][1]
           k == CHOOSE j \in DOMAIN c : c[j][1] = t /\ IsLastOf(c, j)
<1>1. DOMAIN c \subseteq Nat
  BY ProxyConstants DEF NoCatalog
<1>2. k \in DOMAIN c /\ c[k][1] = t /\ IsLastOf(c, k)
  OBVIOUS
<1> HIDE DEF k
<1>3. ~(k > i) /\ ~(i > k)
  BY <1>2 DEF IsLastOf
<1>4. k = i
  BY <1>1, <1>2, <1>3
<1>5. t \in Named(c) /\ Live(c)[t] = c[k][2]
  BY DEF Named, Live, k
<1>6. QED
  BY <1>4, <1>5 DEF PairsOf, Live

\* Unless two catalogs were compared at once, the one that is compared was compared
\* with the pins as they are, and what has passed is pinned.
PinInv ==
  ~raced =>
    /\ \A r, x \in relays : r.phase = "compared" /\ x.phase = "compared" => r = x
    /\ \A r \in relays : r.phase = "compared" => r.held = pins
    /\ \A r \in relays : r.phase = "passed" /\ r.as = "tools/list" =>
                           PairsOf(Live(r.answer.catalog)) \subseteq PairsOf(pins)
    /\ \A c \in seen : PairsOf(Live(c)) \subseteq PairsOf(pins)

\* Pins are added and never replaced, and a catalog without a bad tool is pinned.
LEMMA PinningKeeps ==
  ASSUME NEW held, NEW c
  PROVE  /\ PairsOf(held) \subseteq PairsOf(Pinned(held, c))
         /\ Bad(held, c) = {} =>
              /\ PairsOf(Live(c)) \subseteq PairsOf(Pinned(held, c))
              /\ Named(c) \subseteq DOMAIN held => PairsOf(Live(c)) \subseteq PairsOf(held)
<1>1. DOMAIN Live(c) = Named(c)
  BY DEF Live
<1>2. ASSUME NEW t \in Named(c), Bad(held, c) = {}, t \in DOMAIN held
      PROVE  held[t] = Live(c)[t]
  BY <1>2 DEF Bad
<1>3. QED
  BY <1>1, <1>2 DEF PairsOf, Pinned

LEMMA PinInvariant == Spec => []PinInv
<1>1. Init => PinInv
  BY DEF Init, PinInv
<1>2. ASSUME Shapes, PinInv, [Next]_vars
      PROVE  PinInv'
  <2>1. CASE AskList \/ AskCall
    <3>1. UNCHANGED <<relays, pins, seen, raced>>
      BY <2>1, AskLeaves DEF files
    <3>2. QED
      BY <1>2, <3>1 DEF PinInv
  <2>2. CASE \/ \E q \in Arriving : Check(q)
             \/ \E c \in clients : Record(c) \/ Forward(c)
             \/ Respond
    BY <1>2, <2>2 DEF Check, Record, Forward, Respond, files, history, PinInv
  <2>3. ASSUME NEW q, ClientFails(q)
        PROVE  PinInv'
    BY <1>2, <2>3 DEF ClientFails, files, PinInv
  <2>4. ASSUME NEW answer \in outbox, Pop(answer)
        PROVE  PinInv'
    <3>1. UNCHANGED <<raced, pins, seen>>
      BY <2>4 DEF Pop, files
    <3>2. \A r \in relays' : r \in relays \/ r.phase = "popped"
      BY <2>4 DEF Pop
    <3>3. QED
      BY <1>2, <3>1, <3>2 DEF PinInv
  <2>5. ASSUME NEW x \in relays, LoadPins(x)
        PROVE  PinInv'
    <3> DEFINE y == [phase |-> "compared", answer |-> x.answer, held |-> pins, as |-> x.as,
                     tool |-> x.tool, bad |-> x.bad]
    <3>1. /\ relays' = (relays \ {x}) \cup {y}
          /\ UNCHANGED <<pins, seen>>
          /\ ~raced' => ~raced /\ \A r \in relays : r.phase # "compared"
      BY <1>2, <2>5, ComparedShape DEF LoadPins, Step, files, Shapes
    <3>2. y.phase = "compared" /\ y.held = pins
      OBVIOUS
    <3> HIDE DEF y
    <3>3. QED
      BY <1>2, <3>1, <3>2 DEF PinInv
  <2>6. ASSUME NEW x \in relays, InspectCatalog(x)
        PROVE  PinInv'
    <3> DEFINE c == x.answer.catalog
               bad == Bad(x.held, c)
               y == [phase |-> IF bad = {} THEN "passed" ELSE "stopped", answer |-> x.answer,
                     held |-> x.held, as |-> x.as, tool |-> x.tool, bad |-> bad]
    <3>1. /\ relays' = (relays \ {x}) \cup {y}
          /\ x.phase = "compared"
          /\ pins' = IF x.held = NoPins \/ ~(Named(c) \subseteq DOMAIN x.held)
                       THEN Pinned(x.held, c) ELSE pins
          /\ UNCHANGED <<seen, raced>>
      BY <1>2, <2>6, JudgedShape DEF InspectCatalog, Step, history, Shapes
    <3>2. SUFFICES ASSUME ~raced
                   PROVE  PinInv'
      BY <3>1 DEF PinInv
    <3>3. x.held = pins
      BY <1>2, <3>1, <3>2 DEF PinInv
    <3>4. /\ PairsOf(pins) \subseteq PairsOf(pins')
          /\ bad = {} => PairsOf(Live(c)) \subseteq PairsOf(pins')
      BY <3>1, <3>3, PinningKeeps
    <3>5. \A r \in relays' : r.phase # "compared"
      <4>1. y.phase # "compared"
        OBVIOUS
      <4> HIDE DEF y
      <4>2. QED
        BY <1>2, <3>1, <3>2, <4>1 DEF PinInv
    <3>6. ASSUME NEW r \in relays', r.phase = "passed", r.as = "tools/list"
          PROVE  PairsOf(Live(r.answer.catalog)) \subseteq PairsOf(pins')
      <4>1. CASE r = y
        BY <3>4, <3>6, <4>1
      <4>2. CASE r # y
        BY <1>2, <3>1, <3>2, <3>4, <3>6, <4>2 DEF PinInv
      <4>3. QED
        BY <4>1, <4>2
    <3>7. \A d \in seen' : PairsOf(Live(d)) \subseteq PairsOf(pins')
      BY <1>2, <3>1, <3>2, <3>4 DEF PinInv
    <3>8. \A r \in relays' : r.phase = "passed" /\ r.as = "tools/list" =>
                                PairsOf(Live(r.answer.catalog)) \subseteq PairsOf(pins)'
      BY <3>6 DEF PairsOf
    <3>9. QED
      BY <3>5, <3>7, <3>8 DEF PinInv, PairsOf
  <2>7. ASSUME NEW x \in relays, InspectResult(x)
        PROVE  PinInv'
    <3> DEFINE y == [phase |-> IF Unsafe(x.answer) THEN "stopped" ELSE "passed",
                     answer |-> x.answer, held |-> x.held, as |-> x.as, tool |-> x.tool,
                     bad |-> x.bad]
    <3>1. /\ relays' = (relays \ {x}) \cup {y}
          /\ UNCHANGED <<pins, seen, raced>> /\ x.as = "tools/call"
      BY <1>2, <2>7, InspectedShape DEF InspectResult, Step, Shapes
    <3>2. y.phase # "compared" /\ y.as # "tools/list"
      BY <3>1
    <3> HIDE DEF y
    <3>3. QED
      BY <1>2, <3>1, <3>2 DEF PinInv
  <2>8. ASSUME NEW r \in relays, Deliver(r)
        PROVE  PinInv'
    BY <1>2, <2>8 DEF Deliver, files, PinInv
  <2>9. ASSUME NEW r \in relays, InspectionFails(r)
        PROVE  PinInv'
    BY <1>2, <2>9 DEF InspectionFails, files, PinInv
  <2>10. CASE Expire \/ Restart \/ UNCHANGED vars
    BY <1>2, <2>10 DEF Expire, Restart, vars, memory, files, history, PinInv
  <2>11. QED
    BY <1>2, <2>1, <2>2, <2>3, <2>4, <2>5, <2>6, <2>7, <2>8, <2>9, <2>10, Steps
<1>3. QED
  BY <1>1, <1>2, ShapesInvariant, PTL DEF Spec

\* The catalogs that pass inspection agree on the last definition they give of a tool,
\* unless two were compared with the pins at the same time.
THEOREM OneDefinitionPerToolCorrect == Spec => []OneDefinitionPerTool
<1>1. ASSUME PinInv, CatalogsInv, ~raced, NEW c \in seen, NEW d \in seen,
             NEW i \in DOMAIN c, NEW j \in DOMAIN d,
             IsLastOf(c, i), IsLastOf(d, j), c[i][1] = d[j][1]
      PROVE  c[i][2] = d[j][2]
  <2>1. /\ <<c[i][1], c[i][2]>> \in PairsOf(Live(c))
        /\ <<d[j][1], d[j][2]>> \in PairsOf(Live(d))
    BY <1>1, LiveIsLast DEF CatalogsInv
  <2>2. /\ <<c[i][1], c[i][2]>> \in PairsOf(pins)
        /\ <<d[j][1], d[j][2]>> \in PairsOf(pins)
    BY <1>1, <2>1 DEF PinInv
  <2>3. QED
    BY <1>1, <2>2 DEF PairsOf
<1>2. PinInv /\ CatalogsInv => OneDefinitionPerTool
  BY <1>1 DEF OneDefinitionPerTool
<1>3. QED
  BY <1>2, PinInvariant, CatalogsInvariant, PTL

-----------------------------------------------------------------------------
(* Runs and what is left of them.                                          *)

\* The actions of s are some of those of t, in their order.
Embeds(s, t) ==
  \E f \in [DOMAIN s -> DOMAIN t] :
    /\ \A i, j \in DOMAIN s : i < j => f[i] < f[j]
    /\ \A i \in DOMAIN s : s[i] = t[f[i]]

LEMMA EmbedsMore ==
  ASSUME NEW s \in Seq(Action), NEW t \in Seq(Action), NEW u \in Seq(Action), Embeds(s, t)
  PROVE  Embeds(s, t \o u) /\ Embeds(s \o u, t \o u)
<1>1. PICK f \in [DOMAIN s -> DOMAIN t] :
        /\ \A i, j \in DOMAIN s : i < j => f[i] < f[j]
        /\ \A i \in DOMAIN s : s[i] = t[f[i]]
  BY DEF Embeds
<1>2. /\ DOMAIN s = 1..Len(s) /\ DOMAIN t = 1..Len(t) /\ DOMAIN u = 1..Len(u)
      /\ Len(s) \in Nat /\ Len(t) \in Nat /\ Len(u) \in Nat
      /\ DOMAIN (s \o u) = 1..(Len(s) + Len(u)) /\ DOMAIN (t \o u) = 1..(Len(t) + Len(u))
      /\ \A i \in 1..Len(t) : (t \o u)[i] = t[i]
      /\ \A i \in 1..Len(s) : (s \o u)[i] = s[i]
      /\ \A i \in 1..Len(u) : (t \o u)[Len(t) + i] = u[i] /\ (s \o u)[Len(s) + i] = u[i]
  OBVIOUS
<1>3. Embeds(s, t \o u)
  <2>1. f \in [DOMAIN s -> DOMAIN (t \o u)]
    BY <1>1, <1>2
  <2>2. \A i \in DOMAIN s : s[i] = (t \o u)[f[i]]
    BY <1>1, <1>2
  <2>3. QED
    BY <1>1, <2>1, <2>2 DEF Embeds
<1>4. Embeds(s \o u, t \o u)
  <2> DEFINE g == [i \in DOMAIN (s \o u) |->
                     IF i <= Len(s) THEN f[i] ELSE Len(t) + (i - Len(s))]
  <2>1. ASSUME NEW i \in DOMAIN (s \o u)
        PROVE  g[i] \in DOMAIN (t \o u) /\ (s \o u)[i] = (t \o u)[g[i]]
    <3>1. CASE i <= Len(s)
      BY <1>1, <1>2, <3>1
    <3>2. CASE ~(i <= Len(s))
      <4>1. i - Len(s) \in 1..Len(u) /\ g[i] = Len(t) + (i - Len(s)) /\ i = Len(s) + (i - Len(s))
        BY <1>2, <3>2
      <4>2. (t \o u)[Len(t) + (i - Len(s))] = u[i - Len(s)] /\ (s \o u)[i] = u[i - Len(s)]
        BY <1>2, <4>1
      <4>3. QED
        BY <1>2, <4>1, <4>2
    <3>3. QED
      BY <3>1, <3>2
  <2>2. ASSUME NEW i \in DOMAIN (s \o u), NEW j \in DOMAIN (s \o u), i < j
        PROVE  g[i] < g[j]
    <3>1. CASE j <= Len(s)
      BY <1>1, <1>2, <2>2, <3>1
    <3>2. CASE i <= Len(s) /\ ~(j <= Len(s))
      <4>1. f[i] \in 1..Len(t) /\ g[i] = f[i] /\ g[j] = Len(t) + (j - Len(s))
        BY <1>1, <1>2, <3>2
      <4>2. QED
        BY <1>2, <3>2, <4>1
    <3>3. CASE ~(i <= Len(s))
      BY <1>2, <2>2, <3>3
    <3>4. QED
      BY <1>2, <2>2, <3>1, <3>2, <3>3
  <2>3. g \in [DOMAIN (s \o u) -> DOMAIN (t \o u)]
    BY <2>1
  <2> HIDE DEF g
  <2>4. QED
    BY <2>1, <2>2, <2>3 DEF Embeds
<1>5. QED
  BY <1>3, <1>4

Unknown(run) == {i \in DOMAIN run : run[i].verdict = "unknown"}

\* What the policy allows of a run, spelled out.
LEMMA AllowedRun ==
  ASSUME NEW run
  PROVE  VerdictAllowed(Verdict(run)) <=>
           /\ ~Some(run, "error") /\ ~Some(run, "block") /\ ~BlockFinding(run)
           /\ ~Some(run, "pending_approval") /\ ~ApprovalFinding(run)
           /\ Some(run, "unknown") => AllowUnknown
BY DEF VerdictAllowed, Verdict

LEMMA FewerUnknown ==
  ASSUME NEW s \in Seq(Action), NEW t \in Seq(Action), Embeds(s, t), ~ApprovalFinding(t)
  PROVE  ~ApprovalFinding(s)
<1>1. PICK f \in [DOMAIN s -> DOMAIN t] :
        /\ \A i, j \in DOMAIN s : i < j => f[i] < f[j]
        /\ \A i \in DOMAIN s : s[i] = t[f[i]]
  BY DEF Embeds
<1>2. /\ DOMAIN s = 1..Len(s) /\ DOMAIN t = 1..Len(t)
      /\ Len(s) \in Nat /\ Len(t) \in Nat
  OBVIOUS
<1>3. IsFiniteSet(Unknown(s)) /\ IsFiniteSet(Unknown(t))
  <2>1. IsFiniteSet(1..Len(s)) /\ IsFiniteSet(1..Len(t))
    BY <1>2, FS_Interval
  <2>2. Unknown(s) \subseteq 1..Len(s) /\ Unknown(t) \subseteq 1..Len(t)
    BY <1>2 DEF Unknown
  <2>3. QED
    BY <2>1, <2>2, FS_Subset
<1>4. Cardinality(Unknown(s)) <= Cardinality(Unknown(t))
  <2> DEFINE g == [i \in Unknown(s) |-> f[i]]
  <2>1. g \in [Unknown(s) -> Unknown(t)]
    BY <1>1 DEF Unknown
  <2>2. ASSUME NEW i \in Unknown(s), NEW j \in Unknown(s), i # j
        PROVE  g[i] # g[j]
    <3>1. i \in DOMAIN s /\ j \in DOMAIN s /\ g[i] = f[i] /\ g[j] = f[j]
      BY DEF Unknown
    <3>2. i \in Nat /\ j \in Nat /\ f[i] \in Nat /\ f[j] \in Nat
      BY <1>1, <1>2, <3>1
    <3>3. i < j \/ j < i
      BY <2>2, <3>2
    <3>4. QED
      BY <1>1, <3>1, <3>2, <3>3
  <2> HIDE DEF g
  <2>3. g \in Injection(Unknown(s), Unknown(t))
    BY <2>1, <2>2 DEF Injection, IsInjective
  <2>4. QED
    BY <1>3, <2>3, FS_Injection
<1>5. Cardinality(Unknown(s)) \in Nat /\ Cardinality(Unknown(t)) \in Nat
  BY <1>3, FS_CardinalityType
<1>6. QED
  BY <1>4, <1>5, TrajectoryConstants DEF ApprovalFinding, Unknown

\* The verdict on a run allows all that is left when actions are taken out of it.
LEMMA LessIsAllowed ==
  ASSUME NEW s \in Seq(Action), NEW t \in Seq(Action), Embeds(s, t), VerdictAllowed(Verdict(t))
  PROVE  VerdictAllowed(Verdict(s))
<1>1. PICK f \in [DOMAIN s -> DOMAIN t] :
        /\ \A i, j \in DOMAIN s : i < j => f[i] < f[j]
        /\ \A i \in DOMAIN s : s[i] = t[f[i]]
  BY DEF Embeds
<1>2. \A v : Some(s, v) => Some(t, v)
  BY <1>1 DEF Some
<1>3. \A first, second : Then(s, first, second) => Then(t, first, second)
  <2>1. ASSUME NEW first, NEW second, Then(s, first, second)
        PROVE  Then(t, first, second)
    <3>1. PICK i, j \in DOMAIN s : i < j /\ first \in s[i].signs /\ second \in s[j].signs
      BY <2>1 DEF Then
    <3>2. f[i] \in DOMAIN t /\ f[j] \in DOMAIN t /\ f[i] < f[j]
          /\ first \in t[f[i]].signs /\ second \in t[f[j]].signs
      BY <1>1, <3>1
    <3>3. QED
      BY <3>2 DEF Then
  <2>2. QED
    BY <2>1
<1>4. (Breach(s) => Breach(t)) /\ (DirectLeak(s) => DirectLeak(t))
  BY <1>1 DEF Breach, DirectLeak
<1>5. RunsDownload(s) => RunsDownload(t)
  <2>1. ASSUME RunsDownload(s)
        PROVE  RunsDownload(t)
    <3>1. PICK i, j \in DOMAIN s : i < j /\ s[i].downloads \cap s[j].executes # {}
      BY <2>1 DEF RunsDownload
    <3>2. f[i] \in DOMAIN t /\ f[j] \in DOMAIN t /\ f[i] < f[j]
          /\ t[f[i]].downloads \cap t[f[j]].executes # {}
      BY <1>1, <3>1
    <3>3. QED
      BY <3>2 DEF RunsDownload
  <2>2. QED
    BY <2>1
<1>6. BlockFinding(s) => BlockFinding(t)
  BY <1>3, <1>4, <1>5 DEF BlockFinding
<1>7. QED
  BY <1>2, <1>6, AllowedRun, FewerUnknown

-----------------------------------------------------------------------------
(* The run guard.                                                          *)

RunArguments == \A request \in inbox \cup {c.request : c \in clients} : request.argument \in Seq(Action)

\* The server has received some of what was attempted, and what it is about to receive
\* was allowed together with all that was.
RunInv ==
  /\ transport \in Transports /\ RunArguments
  /\ attempted \in Seq(Action) /\ received \in Seq(Action)
  /\ RunGuard =>
       /\ actions = attempted /\ Embeds(received, attempted)
       /\ \A c, d \in clients : c = d
       /\ \A c \in clients : c.phase = "cleared" =>
            /\ Embeds(received \o c.request.argument, attempted)
            /\ c.request.argument # <<>> => VerdictAllowed(Verdict(attempted))
  /\ ReceivedRunIsAllowed

LEMMA EmptyEmbeds == Embeds(<<>>, <<>>)
<1>1. [i \in {} |-> i] \in [DOMAIN <<>> -> DOMAIN <<>>]
  OBVIOUS
<1>2. QED
  BY <1>1 DEF Embeds

\* A step that leaves the run alone and the client side no more than it had.
LEMMA RunStays ==
  ASSUME RunInv, clients' \subseteq clients, UNCHANGED <<attempted, actions, received, transport>>,
         \A request \in inbox' : request \in inbox \/ request.argument \in Seq(Action)
  PROVE  RunInv'
BY DEF RunInv, RunArguments, RunGuard, ReceivedRunIsAllowed

LEMMA RunInvariant == Spec => []RunInv
<1>1. Init => RunInv
  BY EmptyEmbeds DEF Init, RunInv, RunArguments, ReceivedRunIsAllowed
<1>2. ASSUME Shapes, RunInv, [Next]_vars
      PROVE  RunInv'
  <2>1. CASE AskList \/ AskCall
    <3>1. \A argument \in Arguments[transport] : argument \in Seq(Action)
      BY <1>2, ProxyConstants DEF RunInv
    <3>2. ASSUME NEW request, Ask(request), request.argument \in Seq(Action)
          PROVE  RunInv'
      BY <1>2, <3>2, RunStays DEF Ask, history
    <3>3. CASE AskList
      <4>1. PICK key \in KeysInUse :
              Ask([id |-> asked + 1, key |-> key, kind |-> "tools/list", tool |-> NoTool,
                   argument |-> <<>>, secrets |-> {}, late |-> FALSE])
        BY <3>3 DEF AskList
      <4>2. <<>> \in Seq(Action)
        OBVIOUS
      <4>3. QED
        BY <3>2, <4>1, <4>2
    <3>4. CASE AskCall
      BY <3>1, <3>2, <3>4 DEF AskCall
    <3>5. QED
      BY <2>1, <3>3, <3>4
  <2>2. ASSUME NEW request \in Arriving, Check(request)
        PROVE  RunInv'
    <3>1. UNCHANGED <<attempted, actions, received, transport>> /\ inbox' \subseteq inbox
      BY <2>2 DEF Check, bounds
    <3>2. CASE Tainted(request)
      <4>1. CASE ~Unstoppable(request)
        BY <1>2, <2>2, <3>1, <3>2, <4>1, RunStays DEF Check, Refuse, Done
      <4>2. CASE Unstoppable(request)
        <5>1. clients' = Done(request) \cup {Cleared(request)}
          BY <2>2, <3>2, <4>2 DEF Check, Refuse
        <5>2. Cleared(request).request = request /\ request \in inbox /\ ~RunGuard
          BY <4>2, ArrivingIsSent DEF Cleared, Unstoppable, RunGuard
        <5>3. RunArguments'
          BY <1>2, <3>1, <5>1, <5>2 DEF RunInv, RunArguments, Done
        <5>4. QED
          BY <1>2, <3>1, <5>2, <5>3 DEF RunInv, RunGuard, ReceivedRunIsAllowed
      <4>3. QED
        BY <4>1, <4>2
    <3>3. CASE ~Tainted(request)
      <4> DEFINE c == [phase |-> "checked", request |-> request]
      <4>1. clients' = clients \cup {c} /\ c.phase # "cleared"
            /\ c.request.argument \in Seq(Action)
        BY <1>2, <2>2, <3>3, ArrivingIsSent DEF Check, RunInv, RunArguments
      <4>2. RunGuard => clients = {}
        BY DEF Arriving, RunGuard
      <4> HIDE DEF c
      <4>3. QED
        BY <1>2, <3>1, <4>1, <4>2 DEF RunInv, RunArguments, RunGuard, ReceivedRunIsAllowed
    <3>4. QED
      BY <3>2, <3>3
  <2>3. ASSUME NEW c \in clients, Record(c)
        PROVE  RunInv'
    <3> DEFINE request == c.request
               next == Cleared(request)
    <3>1. request.argument \in Seq(Action) /\ attempted \in Seq(Action)
      BY <1>2 DEF RunInv, RunArguments
    <3>2. UNCHANGED <<received, transport, inbox>>
      BY <2>3 DEF Record, bounds
    <3>3. CASE ~RunGuard
      <4>1. UNCHANGED attempted
        BY <2>3, <3>3 DEF Record
      <4>2. \A d \in clients' : d.request \in {x.request : x \in clients}
        <5>2. \A d \in clients' : d \in clients \/ d = next
          BY <2>3 DEF Record, Refuse, Done
        <5>3. next.request = c.request
          BY DEF Cleared
        <5> HIDE DEF next
        <5>4. QED
          BY <5>2, <5>3
      <4>3. QED
        BY <1>2, <3>2, <3>3, <4>1, <4>2 DEF RunInv, RunArguments, RunGuard, ReceivedRunIsAllowed
    <3>4. CASE RunGuard
      <4>1. attempted' = attempted \o request.argument /\ actions' = attempted'
            /\ RunWith(request) = attempted'
        BY <1>2, <2>3, <3>4 DEF Record, RunInv, Attempted, RunWith
      <4>2. attempted' \in Seq(Action)
        BY <3>1, <4>1
      <4>3. /\ Embeds(received, attempted)'
            /\ Embeds(received \o request.argument, attempted')
        BY <1>2, <3>1, <3>2, <3>4, <4>1, EmbedsMore DEF RunInv
      <4>4. \A d \in clients' : /\ d = next
                                /\ Permitted(request)
        <5>1. \A d \in clients : d = c
          BY <1>2, <3>4 DEF RunInv
        <5>2. QED
          BY <1>2, <2>3, <3>4, <5>1 DEF Record, Refuse, Done, Forwardable, Unstoppable, RunGuard
      <4>5. next.request = request
        BY DEF Cleared
      <4>6. \A d \in clients' : request.argument # <<>> => VerdictAllowed(Verdict(attempted'))
        BY <3>4, <4>1, <4>4 DEF Permitted
      <4>7. ReceivedRunIsAllowed'
        BY <1>2, <3>2 DEF RunInv, ReceivedRunIsAllowed
      <4>8. RunArguments'
        BY <1>2, <3>2, <4>4, <4>5, <3>1 DEF RunInv, RunArguments
      <4> HIDE DEF next
      <4>9. QED
        BY <1>2, <3>2, <4>1, <4>2, <4>3, <4>4, <4>5, <4>6, <4>7, <4>8 DEF RunInv
    <3>5. QED
      BY <3>3, <3>4
  <2>4. ASSUME NEW c \in clients, Forward(c)
        PROVE  RunInv'
    <3> DEFINE argument == c.request.argument
    <3>1. /\ clients' = clients \ {c} /\ c.phase = "cleared"
          /\ UNCHANGED <<attempted, actions, transport, inbox>>
          /\ received' = IF RunGuard THEN received \o argument ELSE received
      BY <2>4 DEF Forward, bounds
    <3>2. argument \in Seq(Action) /\ received' \in Seq(Action)
      BY <1>2, <3>1 DEF RunInv, RunArguments
    <3>3. CASE ~RunGuard \/ argument = <<>>
      <4>1. received' = received
        BY <1>2, <3>1, <3>3 DEF RunInv
      <4>2. QED
        BY <1>2, <3>1, <4>1, RunStays
    <3>4. CASE RunGuard /\ argument # <<>>
      <4>1. Embeds(received', attempted) /\ VerdictAllowed(Verdict(attempted))
        BY <1>2, <3>1, <3>4 DEF RunInv
      <4>2. VerdictAllowed(Verdict(received'))
        BY <1>2, <3>2, <4>1, LessIsAllowed DEF RunInv
      <4>3. clients' = {}
        BY <1>2, <3>1, <3>4 DEF RunInv
      <4>4. ReceivedRunIsAllowed'
        BY <4>2 DEF ReceivedRunIsAllowed
      <4>5. Embeds(received, attempted)'
        BY <3>1, <4>1
      <4>6. QED
        BY <1>2, <3>1, <3>2, <3>4, <4>3, <4>4, <4>5 DEF RunInv, RunArguments, RunGuard
    <3>5. QED
      BY <3>3, <3>4
  <2>5. ASSUME NEW request, ClientFails(request)
        PROVE  RunInv'
    BY <1>2, <2>5, RunStays DEF ClientFails, Done
  <2>6. CASE \/ Respond \/ \E answer \in outbox : Pop(answer)
             \/ \E r \in relays : LoadPins(r) \/ InspectCatalog(r) \/ InspectResult(r)
             \/ \E r \in relays : Deliver(r) \/ InspectionFails(r)
             \/ Expire \/ UNCHANGED vars
    <3>1. UNCHANGED <<clients, attempted, actions, received, transport, inbox>>
      BY <2>6 DEF Respond, Pop, LoadPins, InspectCatalog, InspectResult, Deliver, InspectionFails,
                  Expire, vars, memory, bounds, history
    <3>2. QED
      BY <1>2, <3>1, RunStays
  <2>7. CASE Restart
    <3>1. /\ clients' = {} /\ inbox' = {} /\ attempted' = <<>> /\ actions' = <<>>
          /\ received' = <<>> /\ transport' = transport
      BY <2>7 DEF Restart
    <3>2. Embeds(received, attempted)'
      BY <3>1, EmptyEmbeds
    <3>3. QED
      BY <1>2, <3>1, <3>2 DEF RunInv, RunArguments, ReceivedRunIsAllowed
  <2>8. QED
    BY <1>2, <2>1, <2>2, <2>3, <2>4, <2>5, <2>6, <2>7, Steps
<1>3. QED
  BY <1>1, <1>2, ShapesInvariant, PTL DEF Spec

\* What the server has received from one proxy is a run that the policy allows.
THEOREM ReceivedRunIsAllowedCorrect == Spec => []ReceivedRunIsAllowed
<1>1. RunInv => ReceivedRunIsAllowed
  BY DEF RunInv
<1>2. QED
  BY <1>1, RunInvariant, PTL

\* What is forwarded is allowed as part of everything that was attempted.
THEOREM RefusalIsFinalCorrect == Spec => RefusalIsFinal
<1>1. RunInv /\ [Next]_vars =>
        [\A request \in Forwarded :
           RunGuard /\ request.argument # <<>> => VerdictAllowed(Verdict(attempted))]_vars
  BY ForwardSteps DEF RunInv
<1>2. QED
  BY <1>1, RunInvariant, PTL DEF Spec, RefusalIsFinal

-----------------------------------------------------------------------------
(* Every id is in one place.                                               *)

WellFormed(q) ==
  /\ q.kind \in {"tools/list", "tools/call"}
  /\ q.kind = "tools/call" => q.tool \in Tools

\* A request is on its way to the client side, or held by it, or with the server, or
\* its answer is on its way back.
OnceInv ==
  /\ asked \in Nat
  /\ \A q \in inbox \cup {c.request : c \in clients} \cup upstream :
       q.id \in 1..asked /\ WellFormed(q)
  /\ \A a \in outbox : a.id \in 1..asked
  /\ \A q, r \in inbox : q.id = r.id => q = r
  /\ \A c, d \in clients : c.request.id = d.request.id => c = d
  /\ \A q, r \in upstream : q.id = r.id => q = r
  /\ \A a, b \in outbox : a.id = b.id => a = b
  /\ \A q \in inbox, c \in clients : q.id # c.request.id
  /\ \A q \in inbox, r \in upstream \cup outbox : q.id # r.id
  /\ \A c \in clients, r \in upstream \cup outbox : c.request.id # r.id
  /\ \A r \in upstream, a \in outbox : r.id # a.id

LEMMA OnceInvariant == Spec => []OnceInv
<1>1. Init => OnceInv
  BY DEF Init, OnceInv
<1>2. ASSUME Shapes, OnceInv, [Next]_vars
      PROVE  OnceInv'
  <2>1. ASSUME NEW request, Ask(request), request.id = asked + 1, WellFormed(request)
        PROVE  OnceInv'
    <3>1. /\ asked' = asked + 1 /\ inbox' = inbox \cup {request}
          /\ UNCHANGED <<clients, upstream, outbox>>
      BY <2>1 DEF Ask
    <3>2. /\ request.id \in 1..asked' /\ asked' \in Nat
          /\ \A i \in 1..asked : i # request.id /\ i \in 1..asked'
      BY <1>2, <2>1, <3>1 DEF OnceInv
    <3>3. QED
      BY <1>2, <2>1, <3>1, <3>2 DEF OnceInv, WellFormed
  <2>2. CASE AskList
    <3>1. PICK key \in KeysInUse :
            Ask([id |-> asked + 1, key |-> key, kind |-> "tools/list", tool |-> NoTool,
                 argument |-> <<>>, secrets |-> {}, late |-> FALSE])
      BY <2>2 DEF AskList
    <3>2. QED
      BY <2>1, <3>1 DEF WellFormed
  <2>3. CASE AskCall
    <3>1. PICK key \in KeysInUse, t \in Tools, argument \in Arguments[transport],
               s \in SUBSET known :
            Ask([id |-> asked + 1, key |-> key, kind |-> "tools/call", tool |-> t,
                 argument |-> argument, secrets |-> s, late |-> t \in told])
      BY <2>3 DEF AskCall
    <3>2. QED
      BY <2>1, <3>1 DEF WellFormed
  <2>4. ASSUME NEW request \in Arriving, Check(request)
        PROVE  OnceInv'
    <3>1. PICK c : /\ inbox' = inbox \ {request} /\ request \in inbox /\ c.request = request
                   /\ clients' \subseteq clients \cup {c}
                   /\ UNCHANGED <<upstream, outbox, asked>>
      <4> DEFINE checked == [phase |-> "checked", request |-> request]
      <4>1. checked.request = request /\ Cleared(request).request = request
        BY DEF Cleared
      <4>2. /\ inbox' = inbox \ {request} /\ request \in inbox
            /\ UNCHANGED <<upstream, outbox, asked>>
            /\ clients' \subseteq clients \cup {checked}
                 \/ clients' \subseteq clients \cup {Cleared(request)}
        BY <2>4, ArrivingIsSent DEF Check, Refuse, Done, bounds
      <4> HIDE DEF checked
      <4>3. QED
        BY <4>1, <4>2
    <3>2. QED
      BY <1>2, <3>1 DEF OnceInv, WellFormed
  <2>5. ASSUME NEW c \in clients, Record(c)
        PROVE  OnceInv'
    <3> DEFINE d == Cleared(c.request)
    <3>2. /\ d.request = c.request
          /\ clients' \subseteq Done(c.request) \cup {d}
          /\ UNCHANGED <<inbox, upstream, outbox, asked>>
      BY <2>5 DEF Record, Refuse, bounds, Cleared
    <3> HIDE DEF d
    <3>3. QED
      BY <1>2, <3>2 DEF OnceInv, Done, WellFormed
  <2>6. ASSUME NEW c \in clients, Forward(c)
        PROVE  OnceInv'
    <3>1. /\ upstream' = upstream \cup {c.request} /\ clients' = clients \ {c}
          /\ UNCHANGED <<inbox, outbox, asked>>
      BY <2>6 DEF Forward, bounds
    <3>2. QED
      BY <1>2, <3>1 DEF OnceInv, WellFormed
  <2>7. ASSUME NEW request, ClientFails(request)
        PROVE  OnceInv'
    <3>1. /\ inbox' \subseteq inbox /\ clients' \subseteq clients
          /\ UNCHANGED <<upstream, outbox, asked>>
      BY <2>7 DEF ClientFails, Done
    <3>2. QED
      BY <1>2, <3>1 DEF OnceInv, WellFormed
  <2>8. CASE Respond
    <3>0. PICK request \in upstream :
            /\ upstream' = upstream \ {request} /\ UNCHANGED <<inbox, clients, asked>>
            /\ \/ \E answer \in AnswersTo(request) : outbox' = outbox \cup {answer}
               \/ UNCHANGED outbox
      BY <2>8 DEF Respond, bounds
    <3>4. CASE UNCHANGED outbox
      BY <1>2, <3>0, <3>4 DEF OnceInv, WellFormed
    <3>5. SUFFICES ASSUME NEW answer \in AnswersTo(request), outbox' = outbox \cup {answer}
                   PROVE  OnceInv'
      BY <3>0, <3>4
    <3>1. /\ upstream' = upstream \ {request} /\ outbox' = outbox \cup {answer}
          /\ UNCHANGED <<inbox, clients, asked>>
      BY <3>0, <3>5
    <3>2. answer.id = request.id
      BY DEF AnswersTo
    <3>3. QED
      BY <1>2, <3>1, <3>2 DEF OnceInv, WellFormed
  <2>9. ASSUME NEW answer \in outbox, Pop(answer)
        PROVE  OnceInv'
    <3>1. outbox' \subseteq outbox /\ UNCHANGED <<inbox, clients, upstream, asked>>
      BY <2>9 DEF Pop, bounds
    <3>2. QED
      BY <1>2, <3>1 DEF OnceInv, WellFormed
  <2>10. CASE \/ \E r \in relays : LoadPins(r) \/ InspectCatalog(r) \/ InspectResult(r)
              \/ \E r \in relays : Deliver(r) \/ InspectionFails(r)
              \/ Expire \/ UNCHANGED vars
    <3>1. UNCHANGED <<inbox, clients, upstream, outbox, asked>>
      BY <2>10 DEF LoadPins, InspectCatalog, InspectResult, Deliver, InspectionFails, Expire,
                   vars, memory, bounds
    <3>2. QED
      BY <1>2, <3>1 DEF OnceInv, WellFormed
  <2>11. CASE Restart
    <3>1. inbox' = {} /\ clients' = {} /\ upstream' = {} /\ outbox' = {} /\ asked' = asked
      BY <2>11 DEF Restart
    <3>2. QED
      BY <1>2, <3>1 DEF OnceInv
  <2>12. QED
    BY <1>2, <2>2, <2>3, <2>4, <2>5, <2>6, <2>7, <2>8, <2>9, <2>10, <2>11, Steps
<1>3. QED
  BY <1>1, <1>2, ShapesInvariant, PTL DEF Spec

-----------------------------------------------------------------------------
(* Whatever is expected can be looked up, unless its key was in use twice.  *)

RecordedRequests == {c.request : c \in {d \in clients : d.phase = "cleared"}}

ExpectInv ==
  /\ \A p \in pending : WellFormed(p)
  /\ \A p, q \in pending : p.key = q.key => p = q
  /\ \A x \in Expected : Identified(x) \/ x.id \in clashed
  /\ \A x, y \in Expected : x.key = y.key /\ x.id \notin clashed => x.id = y.id
  /\ \A q \in RecordedRequests \cup upstream : q.id \notin clashed => q \in pending
  /\ \A a \in outbox :
       /\ a.kind # "result" => a.secrets = {}
       /\ a.secrets \subseteq Secrets
       /\ a.id \notin clashed =>
            \E p \in pending : p.key = a.key /\ (a.kind = "result" => p.kind = "tools/call")

LEMMA ExpectInvariant == Spec => []ExpectInv
<1>1. Init => ExpectInv
  BY DEF Init, ExpectInv, Expected, RecordedRequests
<1>2. ASSUME Shapes, OnceInv, ExpectInv, [Next]_vars
      PROVE  ExpectInv'
  <2>1. ASSUME RecordedRequests' \subseteq RecordedRequests,
               UNCHANGED <<upstream, outbox, pending, clashed>>
        PROVE  ExpectInv'
    <3>1. Expected' \subseteq Expected /\ (RecordedRequests \cup upstream)' \subseteq RecordedRequests \cup upstream
      BY <2>1 DEF Expected, RecordedRequests
    <3>2. \A p \in pending : WellFormed(p)' <=> WellFormed(p)
      BY DEF WellFormed
    <3>3. \A x, y \in Expected' : x.key = y.key /\ x.id \notin clashed' => x.id = y.id
      BY <1>2, <2>1, <3>1 DEF ExpectInv
    <3>4. \A q \in (RecordedRequests \cup upstream)' : q.id \notin clashed' => q \in pending'
      BY <1>2, <2>1, <3>1 DEF ExpectInv
    <3>5. \A x \in Expected' : Identified(x) \/ x.id \in clashed'
      BY <1>2, <2>1, <3>1 DEF ExpectInv
    <3>6. QED
      BY <1>2, <2>1, <3>2, <3>3, <3>4, <3>5 DEF ExpectInv
  <2>2. ASSUME NEW request, ~Identified(request), clashed' = clashed \cup {request.id},
               RecordedRequests' \subseteq RecordedRequests \cup {request},
               UNCHANGED <<upstream, outbox, pending>>
        PROVE  ExpectInv'
    <3>1. Expected' \subseteq Expected \cup {request}
      BY <2>2 DEF Expected, RecordedRequests
    <3>2. \A x \in Expected' : Identified(x) \/ x.id \in clashed'
      BY <1>2, <2>2, <3>1 DEF ExpectInv
    <3>3. \A x, y \in Expected' : x.key = y.key /\ x.id \notin clashed' => x.id = y.id
      <4>1. ASSUME NEW x \in Expected', NEW y \in Expected', x.key = y.key, x.id \notin clashed'
            PROVE  x \in Expected /\ y \in Expected /\ x.id \notin clashed
        BY <2>2, <3>1, <3>2, <4>1 DEF Identified
      <4>2. QED
        BY <1>2, <4>1 DEF ExpectInv
    <3>4. \A q \in RecordedRequests' \cup upstream' : q.id \notin clashed' => q \in pending'
      BY <1>2, <2>2 DEF ExpectInv
    <3>5. QED
      BY <1>2, <2>2, <3>2, <3>3, <3>4 DEF ExpectInv, WellFormed
  <2>12. CASE AskList \/ AskCall
    <3>1. UNCHANGED <<clients, upstream, outbox, pending, clashed>>
      BY <2>12, AskLeaves
    <3>2. QED
      BY <2>1, <3>1 DEF RecordedRequests
  <2>3. ASSUME NEW request \in Arriving, Check(request)
        PROVE  ExpectInv'
    <3> DEFINE c == [phase |-> "checked", request |-> request]
    <3>1. \/ clients' \subseteq clients \cup {c} /\ UNCHANGED clashed
          \/ /\ Unstoppable(request) /\ clients' \subseteq clients \cup {Cleared(request)}
             /\ clashed' = clashed \cup {request.id}
      BY <2>3 DEF Check, Refuse, Done
    <3>2. c.phase # "cleared" /\ UNCHANGED <<upstream, outbox, pending>>
      BY <2>3 DEF Check
    <3>3. Cleared(request).request = request /\ (Unstoppable(request) => ~Identified(request))
      BY DEF Cleared, Unstoppable, Identified
    <3> HIDE DEF c
    <3>4. CASE clients' \subseteq clients \cup {c} /\ UNCHANGED clashed
      BY <2>1, <3>2, <3>4 DEF RecordedRequests
    <3>5. CASE /\ Unstoppable(request) /\ clients' \subseteq clients \cup {Cleared(request)}
               /\ clashed' = clashed \cup {request.id}
      <4>1. RecordedRequests' \subseteq RecordedRequests \cup {request}
        BY <3>3, <3>5 DEF RecordedRequests
      <4>2. QED
        BY <2>2, <3>2, <3>3, <3>5, <4>1
    <3>6. QED
      BY <3>1, <3>4, <3>5
  <2>4. ASSUME NEW c \in clients, Record(c)
        PROVE  ExpectInv'
    <3> DEFINE request == c.request
               d == Cleared(request)
    <3>1. d.request = request
      BY DEF Cleared
    <3> HIDE DEF d
    <3>2. UNCHANGED <<upstream, outbox>> /\ WellFormed(request)
      BY <1>2, <2>4 DEF Record, OnceInv
    <3>3. CASE clients' = Done(request) /\ UNCHANGED <<pending, clashed>>
      BY <2>1, <3>2, <3>3 DEF RecordedRequests, Done
    <3>6. CASE /\ ~Identified(request) /\ clients' = Done(request) \cup {d}
               /\ clashed' = clashed \cup {request.id} /\ UNCHANGED pending
      <4>1. RecordedRequests' \subseteq RecordedRequests \cup {request}
        BY <3>1, <3>6 DEF RecordedRequests, Done
      <4>2. QED
        BY <2>2, <3>2, <3>6, <4>1
    <3>4. CASE /\ Identified(request) /\ clients' = Done(request) \cup {d}
               /\ pending' = Recorded(request)
               /\ clashed' = clashed \cup
                    (IF Sharing(request) = {} THEN {} ELSE Sharing(request) \cup {request.id})
      <4>2. /\ RecordedRequests' \subseteq RecordedRequests \cup {request}
            /\ Expected' \subseteq Expected \cup {request}
        BY <3>1, <3>2, <3>4 DEF RecordedRequests, Expected, Done
      <4>3. \A x \in Expected : x.key = request.key => x.id \in clashed' /\ request.id \in clashed'
        BY <3>4 DEF Sharing
      <4>4. /\ clashed \subseteq clashed' /\ request \in pending'
            /\ \A p \in pending : p.key # request.key => p \in pending'
            /\ \A p \in pending' : p = request \/ (p \in pending /\ p.key # request.key)
        BY <3>4 DEF Recorded
      <4>5. RecordedRequests \cup upstream \cup outbox = Expected
        BY DEF RecordedRequests, Expected
      <4>6. \A p \in pending' : WellFormed(p)
        BY <1>2, <3>2, <4>4 DEF ExpectInv
      <4>7. \A p, q \in pending' : p.key = q.key => p = q
        BY <1>2, <4>4 DEF ExpectInv
      <4>8. \A x, y \in Expected' : x.key = y.key /\ x.id \notin clashed' => x.id = y.id
        BY <1>2, <4>2, <4>3, <4>4 DEF ExpectInv
      <4>9. \A q \in RecordedRequests' \cup upstream' : q.id \notin clashed' => q \in pending'
        BY <1>2, <3>2, <4>2, <4>3, <4>4, <4>5 DEF ExpectInv
      <4>10. \A a \in outbox' : a.id \notin clashed' =>
               \E p \in pending' : p.key = a.key /\ (a.kind = "result" => p.kind = "tools/call")
        BY <1>2, <3>2, <4>3, <4>4, <4>5 DEF ExpectInv
      <4>12. \A x \in Expected' : Identified(x) \/ x.id \in clashed'
        BY <1>2, <3>4, <4>2, <4>4 DEF ExpectInv
      <4>11. QED
        BY <1>2, <3>2, <4>6, <4>7, <4>8, <4>9, <4>10, <4>12 DEF ExpectInv, WellFormed
    <3>5. QED
      <4>1. Unstoppable(request) => ~Identified(request)
        BY DEF Unstoppable, Identified
      <4>2. CASE Forwardable(request) /\ Identified(request)
        BY <2>4, <3>4, <4>2 DEF Record, Unlooked, d
      <4>3. CASE Forwardable(request) /\ ~Identified(request)
        BY <2>4, <3>6, <4>3 DEF Record, Unlooked, d
      <4>4. CASE ~Forwardable(request) /\ ~Unstoppable(request)
        BY <2>4, <3>3, <4>4 DEF Record, Refuse
      <4>5. CASE ~Forwardable(request) /\ Unstoppable(request)
        BY <2>4, <3>6, <4>1, <4>5 DEF Record, Refuse, d
      <4>6. QED
        BY <4>2, <4>3, <4>4, <4>5
  <2>5. ASSUME NEW c \in clients, Forward(c)
        PROVE  ExpectInv'
    <3>1. /\ upstream' = upstream \cup {c.request} /\ clients' = clients \ {c}
          /\ c.phase = "cleared" /\ UNCHANGED <<outbox, pending, clashed>>
      BY <2>5 DEF Forward
    <3>2. /\ c.request \in RecordedRequests
          /\ RecordedRequests' \cup upstream' \subseteq RecordedRequests \cup upstream
          /\ Expected' \subseteq Expected
      BY <3>1 DEF RecordedRequests, Expected
    <3>3. QED
      BY <1>2, <3>1, <3>2 DEF ExpectInv, WellFormed
  <2>6. ASSUME NEW request, ClientFails(request)
        PROVE  ExpectInv'
    BY <2>1, <2>6 DEF ClientFails, Done, RecordedRequests
  <2>7. CASE Respond
    <3>0. PICK request \in upstream :
            /\ upstream' = upstream \ {request} /\ UNCHANGED <<clients, pending, clashed>>
            /\ \/ \E answer \in AnswersTo(request) : outbox' = outbox \cup {answer}
               \/ UNCHANGED outbox
      BY <2>7 DEF Respond, history
    <3>8. CASE UNCHANGED outbox
      <4>1. RecordedRequests' = RecordedRequests /\ Expected' \subseteq Expected
        BY <3>0, <3>8 DEF RecordedRequests, Expected
      <4>2. QED
        BY <1>2, <3>0, <3>8, <4>1 DEF ExpectInv, WellFormed
    <3>9. SUFFICES ASSUME NEW answer \in AnswersTo(request), outbox' = outbox \cup {answer}
                   PROVE  ExpectInv'
      BY <3>0, <3>8
    <3>1. /\ upstream' = upstream \ {request} /\ outbox' = outbox \cup {answer}
          /\ UNCHANGED <<clients, pending, clashed>>
      BY <3>0, <3>9
    <3>2. /\ answer.id = request.id /\ answer.key = request.key
          /\ answer.kind # "result" => answer.secrets = {}
          /\ answer.secrets \subseteq Secrets
          /\ answer.kind = "result" => request.kind # "tools/list"
      BY DEF AnswersTo
    <3>3. request.kind \in {"tools/list", "tools/call"}
      BY <1>2 DEF OnceInv, WellFormed
    <3>4. RecordedRequests' = RecordedRequests /\ Expected' \subseteq Expected \cup {answer}
          /\ request \in Expected
      BY <3>1 DEF RecordedRequests, Expected
    <3>5. \A x, y \in Expected' : x.key = y.key /\ x.id \notin clashed' => x.id = y.id
      BY <1>2, <3>1, <3>2, <3>4 DEF ExpectInv
    <3>6. answer.id \notin clashed => request \in pending
      BY <1>2, <3>2 DEF ExpectInv
    <3>10. \A x \in Expected' : Identified(x) \/ x.id \in clashed'
      BY <1>2, <3>1, <3>2, <3>4 DEF ExpectInv, Identified
    <3>7. QED
      BY <1>2, <3>1, <3>2, <3>3, <3>4, <3>5, <3>6, <3>10 DEF ExpectInv, WellFormed
  <2>8. ASSUME NEW answer \in outbox, Pop(answer)
        PROVE  ExpectInv'
    <3>1. /\ outbox' = outbox \ {answer} /\ pending' \subseteq pending
          /\ \A p \in pending : p.key # answer.key => p \in pending'
          /\ UNCHANGED <<clients, upstream, clashed>>
      BY <2>8 DEF Pop
    <3>2. RecordedRequests' = RecordedRequests /\ Expected' \subseteq Expected
          /\ answer \in Expected
      BY <3>1 DEF RecordedRequests, Expected
    <3>3. \A x \in RecordedRequests \cup upstream \cup outbox' : x.id # answer.id
      BY <1>2, <3>1 DEF OnceInv, RecordedRequests
    <3>4. \A x \in RecordedRequests \cup upstream \cup outbox' :
            x.id \notin clashed => x.key # answer.key
      BY <1>2, <3>1, <3>3 DEF ExpectInv, Expected, RecordedRequests
    <3>5. \A q \in RecordedRequests \cup upstream : q.id \notin clashed => q \in pending'
      BY <1>2, <3>1, <3>4 DEF ExpectInv
    <3>6. \A a \in outbox' : a.id \notin clashed =>
            \E p \in pending' : p.key = a.key /\ (a.kind = "result" => p.kind = "tools/call")
      BY <1>2, <3>1, <3>4 DEF ExpectInv
    <3>7. QED
      BY <1>2, <3>1, <3>2, <3>5, <3>6 DEF ExpectInv, WellFormed
  <2>9. CASE \/ \E r \in relays : LoadPins(r) \/ InspectCatalog(r) \/ InspectResult(r)
             \/ \E r \in relays : Deliver(r) \/ InspectionFails(r)
             \/ Expire \/ UNCHANGED vars
    <3>1. UNCHANGED <<clients, upstream, outbox, pending, clashed>>
      BY <2>9 DEF LoadPins, InspectCatalog, InspectResult, Deliver, InspectionFails, Expire,
                  vars, memory, history
    <3>2. QED
      BY <2>1, <3>1 DEF RecordedRequests
  <2>10. CASE Restart
    <3>1. clients' = {} /\ upstream' = {} /\ outbox' = {} /\ pending' = {}
      BY <2>10 DEF Restart
    <3>2. QED
      BY <3>1 DEF ExpectInv, Expected, RecordedRequests
  <2>11. QED
    BY <1>2, <2>3, <2>4, <2>5, <2>6, <2>7, <2>8, <2>9, <2>10, <2>12, Steps
<1>3. QED
  BY <1>1, <1>2, ShapesInvariant, OnceInvariant, PTL DEF Spec

-----------------------------------------------------------------------------
(* The taint ledger.                                                       *)

LEMMA LastOf ==
  ASSUME NEW n \in Nat, NEW S \in SUBSET (1..n), S # {}
  PROVE  Max(S) \in S
<1> DEFINE Gaps == {n - i : i \in S}
<1>1. Gaps \subseteq Nat /\ Gaps # {}
  OBVIOUS
<1>2. PICK g \in Gaps : \A h \in Gaps : <<h, g>> \notin OpToRel(<, Nat)
  BY <1>1, WFMin, NatLessThanWellFounded, Zenon
<1>3. \A h \in Gaps : g \in Nat /\ h \in Nat /\ ~(h < g)
  BY <1>1, <1>2, Zenon DEF OpToRel
<1>4. PICK m \in S : g = n - m
  OBVIOUS
<1>5. \A i \in S : m >= i
  <2>1. ASSUME NEW i \in S
        PROVE  m >= i
    <3>1. ~(n - i < n - m)
      BY <1>3, <1>4
    <3>2. QED
      BY <3>1
  <2>2. QED
    BY <2>1
<1>6. \E x \in S : \A y \in S : x >= y
  BY <1>5
<1>7. QED
  BY <1>6 DEF Max

\* The members of a finite set as a sequence.
LEMMA AllInSequence ==
  ASSUME NEW S, IsFiniteSet(S)
  PROVE  /\ SetToSeq(S) \in Seq(S)
         /\ \A x \in S : \E i \in DOMAIN SetToSeq(S) : SetToSeq(S)[i] = x
<1> DEFINE n == Cardinality(S)
           f == SetToSeq(S)
<1>1. n \in Nat /\ ExistsBijection(1..n, S)
  BY FS_CardinalityType
<1>2. \E g \in [1..n -> S] : IsInjective(g)
  BY <1>1 DEF ExistsBijection, Bijection, Injection
<1>3. f \in [1..n -> S] /\ IsInjective(f)
  BY <1>2 DEF SetToSeq
<1>4. f \in Injection(1..n, S)
  BY <1>3 DEF Injection
<1>5. IsFiniteSet(1..n) /\ Cardinality(1..n) = n
  BY <1>1, FS_Interval
<1> HIDE DEF f
<1>6. f \in Surjection(1..n, S)
  BY <1>4, <1>5, FS_Injection
<1>7. DOMAIN f = 1..n /\ \A x \in S : \E i \in 1..n : f[i] = x
  BY <1>3, <1>6 DEF Surjection
<1>8. f \in Seq(S)
  BY <1>1, <1>3
<1>9. QED
  BY <1>7, <1>8 DEF f

Tagged == {taint[i][1] : i \in DOMAIN taint}

\* A secret that was tagged has its last tag.
LEMMA TaggedHasTag ==
  ASSUME taint \in Seq(Secrets \X Tools), NEW s \in Tagged
  PROVE  \E i \in DOMAIN taint : taint[i] = <<s, TaggedBy(s)>>
<1> DEFINE I == {i \in 1..Len(taint) : taint[i][1] = s}
<1>1. Len(taint) \in Nat /\ DOMAIN taint = 1..Len(taint)
  OBVIOUS
<1>2. I # {}
  BY <1>1 DEF Tagged
<1>3. Max(I) \in I
  BY <1>1, <1>2, LastOf
<1>4. SelectLastInSeq(taint, LAMBDA entry : entry[1] = s) = Max(I)
  BY <1>2 DEF SelectLastInSeq
<1>5. TaggedBy(s) = taint[Max(I)][2]
  BY <1>1, <1>3, <1>4 DEF TaggedBy
<1>6. Max(I) \in DOMAIN taint /\ taint[Max(I)][1] = s
  BY <1>1, <1>3
<1> HIDE DEF I
<1>7. \A i \in DOMAIN taint : taint[i] = <<taint[i][1], taint[i][2]>>
  BY <1>1
<1>8. QED
  BY <1>5, <1>6, <1>7

\* What agents know has a tag, or is excused; a tag says who returned what; what the
\* client side holds on to comes from the tool it is for.
SecretInv ==
  /\ taint \in Seq(Secrets \X Tools)
  /\ \A i \in DOMAIN taint : taint[i] \in returned
  /\ known \subseteq exempt \cup Tagged
  /\ \A q \in inbox : q.secrets \subseteq known
  /\ \A c \in clients : \A s \in c.request.secrets \ exempt :
       ~Unstoppable(c.request) => <<s, c.request.tool>> \in returned
  /\ \A r \in relays :
       /\ r.as \in {"tools/list", "tools/call"} /\ r.answer.secrets \subseteq Secrets
       /\ r.as = "tools/call" => r.tool \in Tools
       /\ r.phase = "popped" /\ r.as = "tools/list" => r.answer.secrets \subseteq exempt
       /\ r.phase = "compared" => r.answer.secrets \subseteq exempt
       /\ r.phase = "passed" => r.answer.secrets \subseteq exempt \cup Tagged

\* The ledger, and what agents are shown of it.
LedgerPart ==
  /\ taint' \in Seq(Secrets \X Tools)
  /\ \A i \in DOMAIN taint' : taint'[i] \in returned'
  /\ known' \subseteq exempt' \cup Tagged'
  /\ exempt \subseteq exempt' /\ returned \subseteq returned' /\ known \subseteq known'
  /\ Tagged \subseteq Tagged' \cup exempt'
  /\ \A q \in inbox' : q \in inbox \/ q.secrets \subseteq known'

\* Nothing is shown, and nothing happens to the ledger.
LEMMA LedgerStays ==
  ASSUME SecretInv, UNCHANGED <<taint, returned, known, exempt>>,
         \A q \in inbox' : q \in inbox \/ q.secrets \subseteq known
  PROVE  LedgerPart
BY DEF SecretInv, LedgerPart, Tagged

\* Something excused or tagged may be shown.
LEMMA LedgerShows ==
  ASSUME SecretInv, UNCHANGED <<taint, returned, inbox>>, exempt \subseteq exempt',
         known \subseteq known', known' \subseteq known \cup exempt' \cup Tagged
  PROVE  LedgerPart
BY DEF SecretInv, LedgerPart, Tagged

LEMMA ResultTags ==
  ASSUME SecretInv, NEW r \in relays, InspectResult(r)
  PROVE  LedgerPart /\ r.answer.secrets \subseteq Tagged'
<1> DEFINE S == {<<s, r.tool>> : s \in r.answer.secrets}
           u == SetToSeq(S)
<1>1. /\ taint' = taint \o u /\ returned' = returned \cup S
      /\ UNCHANGED <<known, exempt, inbox>> /\ r.as = "tools/call"
  BY DEF InspectResult
<1>2. r.answer.secrets \subseteq Secrets /\ r.tool \in Tools
  BY <1>1 DEF SecretInv
<1>3. IsFiniteSet(S)
  <2>1. IsFiniteSet(Secrets) /\ IsFiniteSet({r.tool})
    BY ProxyConstants, FS_Singleton
  <2>2. IsFiniteSet(Secrets \X {r.tool})
    BY <2>1, FS_Product
  <2>3. S \subseteq Secrets \X {r.tool}
    BY <1>2
  <2>4. QED
    BY <2>2, <2>3, FS_Subset
<1>4. u \in Seq(S) /\ \A x \in S : \E i \in DOMAIN u : u[i] = x
  BY <1>3, AllInSequence
<1>5. S \subseteq Secrets \X Tools
  BY <1>2
<1> HIDE DEF u
<1>6. u \in Seq(Secrets \X Tools)
  BY <1>4, <1>5
<1>7. taint \in Seq(Secrets \X Tools) /\ \A i \in DOMAIN taint : taint[i] \in returned
  BY DEF SecretInv
<1>8. /\ taint' \in Seq(Secrets \X Tools)
      /\ \A i \in DOMAIN taint : i \in DOMAIN taint' /\ taint'[i] = taint[i]
      /\ \A i \in DOMAIN u : Len(taint) + i \in DOMAIN taint' /\ taint'[Len(taint) + i] = u[i]
      /\ \A i \in DOMAIN taint' : i \in DOMAIN taint \/
           (i - Len(taint) \in DOMAIN u /\ taint'[i] = u[i - Len(taint)])
  BY <1>1, <1>6, <1>7
<1>9. \A i \in DOMAIN u : u[i] \in S
  BY <1>4
<1>10. \A i \in DOMAIN taint' : taint'[i] \in returned'
  BY <1>1, <1>7, <1>8, <1>9
<1>11. Tagged \subseteq Tagged'
  BY <1>8 DEF Tagged
<1>12. r.answer.secrets \subseteq Tagged'
  <2>1. ASSUME NEW s \in r.answer.secrets
        PROVE  s \in Tagged'
    <3>1. PICK i \in DOMAIN u : u[i] = <<s, r.tool>>
      BY <1>4
    <3>2. Len(taint) + i \in DOMAIN taint' /\ taint'[Len(taint) + i][1] = s
      BY <1>8, <3>1
    <3>3. QED
      BY <3>2 DEF Tagged
  <2>2. QED
    BY <2>1
<1>13. known' \subseteq exempt' \cup Tagged'
  BY <1>1, <1>11 DEF SecretInv
<1>14. QED
  BY <1>1, <1>8, <1>10, <1>11, <1>12, <1>13 DEF LedgerPart

LEMMA OldestExpires ==
  ASSUME SecretInv, Expire
  PROVE  LedgerPart
<1>1. /\ taint # <<>> /\ taint' = Tail(taint) /\ exempt' = exempt \cup {Head(taint)[1]}
      /\ UNCHANGED <<known, returned, inbox>>
  BY DEF Expire, memory
<1>2. taint \in Seq(Secrets \X Tools)
  BY DEF SecretInv
<1>3. /\ taint' \in Seq(Secrets \X Tools)
      /\ \A i \in DOMAIN taint' : i + 1 \in DOMAIN taint /\ taint'[i] = taint[i + 1]
      /\ \A i \in DOMAIN taint : i = 1 \/ (i - 1 \in DOMAIN taint' /\ taint'[i - 1] = taint[i])
      /\ Head(taint) = taint[1]
  BY <1>1, <1>2
<1>4. \A i \in DOMAIN taint' : taint'[i] \in returned'
  BY <1>1, <1>3 DEF SecretInv
<1>5. Tagged \subseteq Tagged' \cup exempt'
  <2>1. ASSUME NEW i \in DOMAIN taint
        PROVE  taint[i][1] \in Tagged' \cup exempt'
    BY <1>1, <1>3 DEF Tagged
  <2>2. QED
    BY <2>1 DEF Tagged
<1>6. QED
  BY <1>1, <1>3, <1>4, <1>5 DEF LedgerPart, SecretInv

\* What a lookup says of an answer whose key was not in use twice is right.
LEMMA PoppedAnswers ==
  ASSUME ExpectInv, NEW answer \in outbox, Pop(answer)
  PROVE  /\ answer.secrets \subseteq Secrets
         /\ known' \subseteq known \cup exempt'
         /\ \A p \in pending : p.key = answer.key =>
              /\ WellFormed(p)
              /\ p.kind = "tools/list" => answer.secrets \subseteq exempt'
<1>1. exempt' = IF answer.id \in clashed THEN exempt \cup answer.secrets ELSE exempt
  BY DEF Pop
<1>2. /\ answer.kind # "result" => answer.secrets = {}
      /\ answer.secrets \subseteq Secrets
  BY DEF ExpectInv
<1>3. CASE answer.secrets \subseteq exempt'
  BY <1>2, <1>3 DEF ExpectInv, Pop, Show
<1>4. CASE ~(answer.secrets \subseteq exempt')
  <2>1. answer.id \notin clashed /\ answer.kind = "result"
    BY <1>1, <1>2, <1>4
  <2>2. PICK p \in pending : p.key = answer.key /\ p.kind = "tools/call"
    BY <2>1 DEF ExpectInv
  <2>3. known' = known
    BY <2>1, <2>2 DEF Pop
  <2>4. \A q \in pending : q.key = answer.key => q = p
    BY <2>2 DEF ExpectInv
  <2>5. QED
    BY <1>2, <2>2, <2>3, <2>4 DEF ExpectInv
<1>5. QED
  BY <1>3, <1>4

LEMMA TransportIsFixed ==
  ASSUME [Next]_vars
  PROVE  transport' = transport
<1>1. CASE AskList \/ AskCall
  BY <1>1 DEF AskList, AskCall, Ask
<1>2. CASE \/ \E request \in Arriving : Check(request)
           \/ \E c \in clients : Record(c) \/ Forward(c)
           \/ Respond
  BY <1>2 DEF Check, Record, Forward, Respond, bounds
<1>3. ASSUME NEW request, ClientFails(request)
      PROVE  transport' = transport
  BY <1>3 DEF ClientFails
<1>4. CASE \/ \E answer \in outbox : Pop(answer)
           \/ \E r \in relays : LoadPins(r) \/ InspectCatalog(r) \/ InspectResult(r)
           \/ \E r \in relays : Deliver(r) \/ InspectionFails(r)
  BY <1>4 DEF Pop, LoadPins, InspectCatalog, InspectResult, Deliver, InspectionFails, bounds
<1>5. CASE Expire \/ Restart \/ UNCHANGED vars
  BY <1>5 DEF Expire, Restart, vars, bounds
<1>6. QED
  BY <1>1, <1>2, <1>3, <1>4, <1>5, Steps

LEMMA SecretInvariant == Spec => []SecretInv
<1>1. Init => SecretInv
  BY DEF Init, SecretInv, Tagged
<1>2. ASSUME Shapes, ExpectInv, SecretInv, [Next]_vars
      PROVE  SecretInv'
  <2>1. LedgerPart
    <3>1. ASSUME NEW request, Ask(request), request.secrets \subseteq known
          PROVE  LedgerPart
      BY <1>2, <3>1, LedgerStays DEF Ask, files
    <3>2. CASE AskList
      <4>1. PICK key \in KeysInUse :
              Ask([id |-> asked + 1, key |-> key, kind |-> "tools/list", tool |-> NoTool,
                   argument |-> <<>>, secrets |-> {}, late |-> FALSE])
        BY <3>2 DEF AskList
      <4>2. QED
        BY <3>1, <4>1
    <3>3. CASE AskCall
      <4>1. PICK key \in KeysInUse, t \in Tools, argument \in Arguments[transport],
                 s \in SUBSET known :
              Ask([id |-> asked + 1, key |-> key, kind |-> "tools/call", tool |-> t,
                   argument |-> argument, secrets |-> s, late |-> t \in told])
        BY <3>3 DEF AskCall
      <4>2. QED
        BY <3>1, <4>1
    <3>4. CASE \/ \E q \in Arriving : Check(q)
               \/ \E c \in clients : Record(c) \/ Forward(c)
               \/ Respond
      BY <1>2, <3>4, LedgerStays DEF Check, Record, Forward, Respond, files, history
    <3>5. ASSUME NEW q, ClientFails(q)
          PROVE  LedgerPart
      BY <1>2, <3>5, LedgerStays DEF ClientFails, files
    <3>6. ASSUME NEW answer \in outbox, Pop(answer)
          PROVE  LedgerPart
      <4>1. known' \subseteq known \cup exempt'
        BY <1>2, <3>6, PoppedAnswers
      <4>2. exempt \subseteq exempt' /\ known \subseteq known'
            /\ UNCHANGED <<taint, returned, inbox>>
        BY <3>6 DEF Pop, Show, files
      <4>3. QED
        BY <1>2, <4>1, <4>2, LedgerShows
    <3>7. ASSUME NEW r \in relays, LoadPins(r) \/ InspectCatalog(r)
          PROVE  LedgerPart
      BY <1>2, <3>7, LedgerStays DEF LoadPins, InspectCatalog, files, history
    <3>8. ASSUME NEW r \in relays, InspectResult(r)
          PROVE  LedgerPart
      BY <1>2, <3>8, ResultTags
    <3>9. ASSUME NEW r \in relays, Deliver(r)
          PROVE  LedgerPart
      <4>1. /\ UNCHANGED <<taint, returned, inbox, exempt>>
            /\ known' = known \/ (r.phase = "passed" /\ known' = known \cup r.answer.secrets)
        BY <3>9 DEF Deliver, Show, files
      <4>2. QED
        BY <1>2, <4>1, LedgerShows DEF SecretInv
    <3>10. ASSUME NEW r \in relays, InspectionFails(r)
           PROVE  LedgerPart
      <4>1. /\ UNCHANGED <<taint, returned, inbox>>
            /\ \/ UNCHANGED <<known, exempt>>
               \/ /\ known' = known \cup r.answer.secrets
                  /\ exempt' = exempt \cup r.answer.secrets
        BY <3>10 DEF InspectionFails, Show, files
      <4>2. QED
        BY <1>2, <4>1, LedgerShows DEF SecretInv
    <3>11. CASE Expire
      BY <1>2, <3>11, OldestExpires
    <3>12. CASE Restart \/ UNCHANGED vars
      BY <1>2, <3>12, LedgerStays DEF Restart, vars, memory, files, history
    <3>13. QED
      BY <1>2, <3>2, <3>3, <3>4, <3>5, <3>6, <3>7, <3>8, <3>9, <3>10, <3>11, <3>12, Steps
  <2>2. \A q \in inbox' : q.secrets \subseteq known'
    BY <1>2, <2>1 DEF SecretInv, LedgerPart
  <2>3. ASSUME NEW c \in clients', NEW s \in c.request.secrets \ exempt',
               ~Unstoppable(c.request)
        PROVE  <<s, c.request.tool>> \in returned'
    <3>1. exempt \subseteq exempt' /\ returned \subseteq returned'
      BY <2>1 DEF LedgerPart
    <3>2. CASE c \in clients
      BY <1>2, <2>3, <3>1, <3>2 DEF SecretInv
    <3>3. ASSUME NEW request \in Arriving, ~Tainted(request), c.request = request
          PROVE  <<s, c.request.tool>> \in returned'
      <4>1. s \in Tagged
        BY <1>2, <2>3, <3>1, <3>3, ArrivingIsSent DEF SecretInv
      <4>2. PICK i \in DOMAIN taint : taint[i] = <<s, TaggedBy(s)>>
        BY <1>2, <4>1, TaggedHasTag DEF SecretInv
      <4>3. taint[i] \in Secrets \X Tools /\ taint[i] \in returned
        BY <1>2 DEF SecretInv
      <4>4. TaggedBy(s) \in Tools
        BY <4>2, <4>3
      <4>5. TaggedBy(s) = request.tool
        BY <2>3, <3>3, <4>4, ProxyConstants DEF Tainted
      <4>6. QED
        BY <3>1, <3>3, <4>2, <4>3, <4>5
    <3>4. ASSUME NEW d \in clients, c.request = d.request
          PROVE  <<s, c.request.tool>> \in returned'
      BY <1>2, <2>3, <3>1, <3>4 DEF SecretInv
    <3>5. QED
      BY <1>2, <2>3, <3>2, <3>3, <3>4, ClientSteps DEF Cleared
  <2>6. \A c \in clients' : \A s \in c.request.secrets \ exempt' :
          Unstoppable(c.request)' \/ <<s, c.request.tool>> \in returned'
    BY <1>2, <2>3, TransportIsFixed DEF Unstoppable
  <2>4. ASSUME NEW r \in relays'
        PROVE  /\ r.as \in {"tools/list", "tools/call"} /\ r.answer.secrets \subseteq Secrets
               /\ r.as = "tools/call" => r.tool \in Tools
               /\ r.phase = "popped" /\ r.as = "tools/list" => r.answer.secrets \subseteq exempt'
               /\ r.phase = "compared" => r.answer.secrets \subseteq exempt'
               /\ r.phase = "passed" => r.answer.secrets \subseteq exempt' \cup Tagged'
    <3> DEFINE Goal ==
          /\ r.as \in {"tools/list", "tools/call"} /\ r.answer.secrets \subseteq Secrets
          /\ r.as = "tools/call" => r.tool \in Tools
          /\ r.phase = "popped" /\ r.as = "tools/list" => r.answer.secrets \subseteq exempt'
          /\ r.phase = "compared" => r.answer.secrets \subseteq exempt'
          /\ r.phase = "passed" => r.answer.secrets \subseteq exempt' \cup Tagged'
    <3> SUFFICES Goal
      OBVIOUS
    <3>1. exempt \subseteq exempt' /\ Tagged \subseteq Tagged' \cup exempt'
      BY <2>1 DEF LedgerPart
    <3>2. CASE r \in relays
      BY <1>2, <3>1, <3>2 DEF SecretInv
    <3>3. ASSUME NEW answer \in outbox, NEW request \in pending, Pop(answer),
                 request.key = answer.key,
                 r = [phase |-> "popped", answer |-> answer, held |-> NoPins,
                      as |-> request.kind, tool |-> request.tool, bad |-> {}]
          PROVE  Goal
      <4>1. /\ answer.secrets \subseteq Secrets /\ WellFormed(request)
            /\ request.kind = "tools/list" => answer.secrets \subseteq exempt'
        BY <1>2, <3>3, PoppedAnswers
      <4>2. r.phase = "popped" /\ r.answer = answer /\ r.as = request.kind /\ r.tool = request.tool
        BY <3>3
      <4>3. QED
        BY <4>1, <4>2 DEF WellFormed
    <3>4. ASSUME NEW x \in relays, LoadPins(x),
                 r = [phase |-> "compared", answer |-> x.answer, held |-> pins, as |-> x.as,
                      tool |-> x.tool, bad |-> x.bad]
          PROVE  Goal
      <4>1. x.phase = "popped" /\ x.as = "tools/list"
        BY <3>4 DEF LoadPins
      <4>2. r.phase = "compared" /\ r.answer = x.answer /\ r.as = x.as /\ r.tool = x.tool
        BY <3>4
      <4>3. QED
        BY <1>2, <3>1, <4>1, <4>2 DEF SecretInv
    <3>5. ASSUME NEW x \in relays, InspectCatalog(x), NEW bad,
                 r = [phase |-> IF bad = {} THEN "passed" ELSE "stopped", answer |-> x.answer,
                      held |-> x.held, as |-> x.as, tool |-> x.tool, bad |-> bad]
          PROVE  Goal
      <4>1. x.phase = "compared"
        BY <3>5 DEF InspectCatalog
      <4>2. r.phase \in {"passed", "stopped"} /\ r.answer = x.answer /\ r.as = x.as
            /\ r.tool = x.tool
        BY <3>5
      <4>3. QED
        BY <1>2, <3>1, <4>1, <4>2 DEF SecretInv
    <3>6. ASSUME NEW x \in relays, InspectResult(x),
                 r = [phase |-> IF Unsafe(x.answer) THEN "stopped" ELSE "passed",
                      answer |-> x.answer, held |-> x.held, as |-> x.as, tool |-> x.tool,
                      bad |-> x.bad]
          PROVE  Goal
      <4>1. x.answer.secrets \subseteq Tagged'
        BY <1>2, <3>6, ResultTags
      <4>2. r.phase \in {"passed", "stopped"} /\ r.answer = x.answer /\ r.as = x.as
            /\ r.tool = x.tool
        BY <3>6
      <4>3. QED
        BY <1>2, <3>1, <4>1, <4>2 DEF SecretInv
    <3> HIDE DEF Goal
    <3>7. CASE \E x \in relays : \E bad \in {Bad(x.held, x.answer.catalog)} :
                 /\ InspectCatalog(x)
                 /\ r = [phase |-> IF bad = {} THEN "passed" ELSE "stopped", answer |-> x.answer,
                         held |-> x.held, as |-> x.as, tool |-> x.tool, bad |-> bad]
      <4>1. PICK x \in relays : \E bad \in {Bad(x.held, x.answer.catalog)} :
              /\ InspectCatalog(x)
              /\ r = [phase |-> IF bad = {} THEN "passed" ELSE "stopped", answer |-> x.answer,
                      held |-> x.held, as |-> x.as, tool |-> x.tool, bad |-> bad]
        BY <3>7
      <4>2. PICK bad :
              /\ InspectCatalog(x)
              /\ r = [phase |-> IF bad = {} THEN "passed" ELSE "stopped", answer |-> x.answer,
                      held |-> x.held, as |-> x.as, tool |-> x.tool, bad |-> bad]
        BY <4>1
      <4>3. QED
        BY <3>5, <4>2
    <3>8. CASE \E answer \in outbox, request \in pending :
                 /\ Pop(answer) /\ answer.kind # "error" /\ request.key = answer.key
                 /\ r = [phase |-> "popped", answer |-> answer, held |-> NoPins,
                         as |-> request.kind, tool |-> request.tool, bad |-> {}]
      BY <3>3, <3>8
    <3>9. CASE \E x \in relays :
                 /\ LoadPins(x)
                 /\ r = [phase |-> "compared", answer |-> x.answer, held |-> pins, as |-> x.as,
                         tool |-> x.tool, bad |-> x.bad]
      BY <3>4, <3>9
    <3>10. CASE \E x \in relays :
                  /\ InspectResult(x)
                  /\ r = [phase |-> IF Unsafe(x.answer) THEN "stopped" ELSE "passed",
                          answer |-> x.answer, held |-> x.held, as |-> x.as, tool |-> x.tool,
                          bad |-> x.bad]
      BY <3>6, <3>10
    <3>11. QED
      BY <1>2, <2>4, <3>2, <3>7, <3>8, <3>9, <3>10, RelaySteps
  <2>5. QED
    BY <2>1, <2>2, <2>4, <2>6 DEF SecretInv, LedgerPart
<1>3. QED
  BY <1>1, <1>2, ShapesInvariant, ExpectInvariant, PTL DEF Spec

\* A secret that agents were shown in one tool's result never reaches another tool that
\* has not returned it itself, but for those excused, in any call but one without an id
\* over HTTP.
THEOREM NoCrossToolSecretCorrect == Spec => NoCrossToolSecret
<1>1. ASSUME SecretInv, [Next]_vars, NEW request \in Forwarded
      PROVE  \A s \in request.secrets \ exempt' :
               ~Unstoppable(request) => <<s, request.tool>> \in returned
  <2>1. PICK c \in clients : Forward(c) /\ c.request = request
    BY <1>1, ForwardSteps
  <2>2. exempt' = exempt
    BY <2>1 DEF Forward
  <2>3. QED
    BY <1>1, <2>1, <2>2 DEF SecretInv
<1>2. SecretInv /\ [Next]_vars =>
        [\A request \in Forwarded : \A s \in request.secrets \ exempt' :
           ~Unstoppable(request) => <<s, request.tool>> \in returned]_vars
  BY <1>1
<1>3. QED
  BY <1>2, SecretInvariant, PTL DEF Spec, NoCrossToolSecret
=============================================================================
