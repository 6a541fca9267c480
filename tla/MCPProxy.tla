------------------------------ MODULE MCPProxy ------------------------------
(***************************************************************************)
(* The MCP proxy (agent_circuit_breaker_mcp/proxy.py) between agents and a  *)
(* server, with what its threads share (security.py): the pending requests, *)
(* the quarantined tools, the pins and the taint ledger, the last two in    *)
(* files that outlive the proxy.                                            *)
(*                                                                         *)
(* proxy_stdio has one agent, a thread that reads its requests and a thread *)
(* that relays the server's answers, and may keep a run guard.  proxy_http  *)
(* has any number of agents, a thread for each request from its arrival to  *)
(* its answer, and no run guard.                                            *)
(*                                                                         *)
(* The arguments of a call are its command-like values, as actions of       *)
(* Trajectory, and its secrets.                                             *)
(***************************************************************************)
EXTENDS Trajectory, SequencesExt

CONSTANTS
  Transports,     \* of "stdio" and "http"
  Tools, NoTool,
  Secrets,        \* values that look like credentials
  Versions,       \* fingerprints of tool definitions
  Poisoned,       \* those whose description or schema is suspicious
  Catalogs,       \* what tools/list may answer: sequences of <<tool, version>>
  Arguments,      \* sequences of actions a call may carry, by transport
  Unidentified,   \* of NoId and NullId: the messages without an id agents may send
  MaxRequests,    \* bound
  MaxUnderway,    \* bound on the requests not answered yet
  MaxFaults       \* bound on restarts, expired entries, failures of a file and messages
                  \* without an id

\* The key of a message without an id, and of one whose id is null.
NoId == 0
NullId == -1

ASSUME ProxyConstants ==
  /\ NoTool \notin Tools /\ Poisoned \subseteq Versions /\ IsFiniteSet(Secrets)
  /\ Catalogs \subseteq Seq(Tools \X Versions) /\ Unidentified \subseteq {NoId, NullId}
  /\ Transports \subseteq {"stdio", "http"}
  /\ Arguments \in [Transports -> SUBSET Seq(Action)]
  /\ {MaxRequests, MaxUnderway, MaxFaults} \subseteq Nat

NoPins == <<>>    \* the pin file does not exist
NoCatalog == <<>>

VARIABLES
  transport,    \* fixed
  inbox,        \* requests sent by agents, not yet read
  clients,      \* the requests the client side is at
  upstream,     \* requests the server has received and not answered
  outbox,       \* answers of the server, not yet read; it may answer in any order
  relays,       \* the answers the relaying side is at
  pending,      \* pending: the request recorded under each key
  actions,      \* MCPRunGuard.actions
  quarantined,  \* quarantined_tools
  pins,         \* the pin file: from tools to versions
  taint,        \* the taint ledger: <<secret, tool>>, oldest first
  asked, faults,
  known,        \* history: secrets an agent has been shown
  returned,     \* history: <<secret, tool>> of results that were inspected
  exempt,       \* history: secrets whose entry expired, could not be written or
                \* came in an answer that was not looked up, or as another's
  seen,         \* history: the catalogs that passed inspection
  raced,        \* history: two catalogs were compared with the pins at once
  clashed,      \* history: ids of requests whose key was in use twice or is none
  told,         \* history: tools an agent was told are blocked, by this proxy
  attempted,    \* history: the arguments of every call the run guard evaluated
  received,     \* history: the arguments the server has received from this run
  answered,     \* history: ids an agent has had an answer for
  lost          \* history: ids that got no answer: they named none to answer to, or
                \* their proxy ended or failed on them

memory == <<inbox, clients, upstream, outbox, relays, pending, actions, quarantined>>
files == <<pins, taint>>
bounds == <<transport, asked, faults>>
history == <<known, returned, exempt, seen, raced, clashed, told, attempted, received,
             answered, lost>>
vars == <<memory, files, bounds, history>>

Ids == 1..MaxRequests

\* id tells requests apart; key is the JSON-RPC id.  late: an agent had been told
\* that the tool is blocked.
Request ==
  [id : Ids, key : Ids \cup Unidentified, kind : {"tools/list", "tools/call"}, tool : Tools \cup {NoTool},
   argument : {<<>>} \cup UNION {Arguments[t] : t \in Transports}, secrets : SUBSET Secrets,
   late : BOOLEAN]

Answer ==
  [id : Ids, key : Ids \cup Unidentified, kind : {"catalog", "result", "error"},
   catalog : Catalogs \cup {NoCatalog}, secrets : SUBSET Secrets, unsafe : BOOLEAN]

TypeOK ==
  /\ transport \in Transports
  /\ inbox \subseteq Request /\ upstream \subseteq Request /\ outbox \subseteq Answer
  /\ \A c \in clients : c.phase \in {"checked", "cleared"} /\ c.request \in Request
  /\ \A r \in relays : /\ r.phase \in {"popped", "compared", "passed", "stopped"}
                        /\ r.answer \in Answer /\ r.as \in {"tools/list", "tools/call"}
  /\ pending \subseteq Request
  /\ actions \in Seq(Action)
  /\ quarantined \subseteq Tools
  /\ DOMAIN pins \subseteq Tools /\ \A t \in DOMAIN pins : pins[t] \in Versions
  /\ taint \in Seq(Secrets \X Tools)

Init ==
  /\ transport \in Transports
  /\ inbox = {} /\ clients = {} /\ upstream = {} /\ outbox = {} /\ relays = {}
  /\ pending = {} /\ actions = <<>> /\ quarantined = {}
  /\ pins = NoPins /\ taint = <<>>
  /\ asked = 0 /\ faults = 0
  /\ known = {} /\ returned = {} /\ exempt = {} /\ seen = {} /\ raced = FALSE /\ clashed = {}
  /\ told = {} /\ attempted = <<>> /\ received = <<>> /\ answered = {} /\ lost = {}

-----------------------------------------------------------------------------
\* Only proxy_stdio is given one.
RunGuard == transport = "stdio"

Identified(message) == message.key \notin {NoId, NullId}

\* An agent sends a request; it can only use the secrets agents have been shown.
Ask(request) ==
  /\ asked < MaxRequests /\ asked' = asked + 1
  /\ Cardinality((1..asked) \ (answered \cup lost)) < MaxUnderway
  /\ inbox' = inbox \cup {request}
  /\ IF Identified(request)
       THEN UNCHANGED <<faults, lost>>
       ELSE faults < MaxFaults /\ faults' = faults + 1 /\ lost' = lost \cup {request.id}
  /\ UNCHANGED <<transport, clients, upstream, outbox, relays, pending, actions, quarantined,
                 files, known, returned, exempt, seen, raced, clashed, told, attempted,
                 received, answered>>

\* An agent gives every request a key of its own; several agents give the same ones.
KeysInUse == {asked + 1} \cup (IF transport = "http" THEN {1} ELSE {}) \cup Unidentified

AskList ==
  \E key \in KeysInUse :
    Ask([id |-> asked + 1, key |-> key, kind |-> "tools/list", tool |-> NoTool,
         argument |-> <<>>, secrets |-> {}, late |-> FALSE])

AskCall ==
  \E key \in KeysInUse, t \in Tools, argument \in Arguments[transport], s \in SUBSET known :
    Ask([id |-> asked + 1, key |-> key, kind |-> "tools/call", tool |-> t,
         argument |-> argument, secrets |-> s, late |-> t \in told])

-----------------------------------------------------------------------------
\* The last entry of a secret: hashes is a dictionary filled in order.
TaggedBy(s) == LET at == SelectLastInSeq(taint, LAMBDA entry : entry[1] = s)
               IN IF at = 0 THEN NoTool ELSE taint[at][2]

\* Mutant: a secret is stopped on its way back to the tool it came from only.
TaintedBySame(request) == \E s \in request.secrets : TaggedBy(s) = request.tool

\* check_value: an argument holds a secret that another tool returned.
Tainted(request) == \E s \in request.secrets : TaggedBy(s) \notin {NoTool, request.tool}

\* Mutant: a call refused for its trajectory gets no error.
SilentRefusal(request) ==
  IF \E c \in clients : c.request = request THEN answered ELSE answered \cup {request.id}

\* blocked_jsonrpc_response.
Refused(request) == answered \cup {request.id}

Done(request) == {c \in clients : c.request # request}

Cleared(request) == [phase |-> "cleared", request |-> request]

\* proxy_http forwards what is refused if there is no response to refuse it with;
\* proxy_stdio drops it.
Unstoppable(request) == transport = "http" /\ request.key = NoId

\* The agent gets a JSON-RPC error made by the proxy, if the message has an id.
Refuse(request) ==
  IF Unstoppable(request)
    THEN /\ clients' = Done(request) \cup {Cleared(request)}
         /\ clashed' = clashed \cup {request.id}
         /\ UNCHANGED answered
    ELSE /\ clients' = Done(request)
         /\ answered' = IF request.key = NoId THEN answered ELSE Refused(request)
         /\ UNCHANGED clashed

\* The stdio client thread takes one line after another.
Arriving ==
  IF transport = "http" THEN inbox
  ELSE {r \in inbox : clients = {} /\ \A other \in inbox : r.id <= other.id}

\* inspect_jsonrpc_message, up to the taint check.
Check(request) ==
  /\ inbox' = inbox \ {request}
  /\ IF Tainted(request)
       THEN Refuse(request)
       ELSE /\ clients' = clients \cup {[phase |-> "checked", request |-> request]}
            /\ UNCHANGED <<clashed, answered>>
  /\ UNCHANGED <<upstream, outbox, relays, pending, actions, quarantined, files, bounds,
                 known, returned, exempt, seen, raced, told, attempted, received, lost>>

\* Mutant: the call is evaluated by itself.
RunOfCall(request) == request.argument

\* MCPRunGuard.inspect_arguments: the run so far and the values of this call.
RunWith(request) == actions \o request.argument

\* inspect_arguments: every value by itself.
EachPermitted(request) ==
  \A i \in DOMAIN request.argument : VerdictAllowed(request.argument[i].verdict)

\* The run guard is asked whatever the values by themselves are.
Permitted(request) ==
  /\ EachPermitted(request)
  /\ RunGuard /\ request.argument # <<>> => VerdictAllowed(Verdict(RunWith(request)))

\* Mutant: an attempt that is refused is forgotten.
AttemptedIfPermitted(request) == IF Permitted(request) THEN RunWith(request) ELSE actions

\* actions.extend: refused attempts stay in the run.
Attempted(request) == RunWith(request)

\* pending[id] of record_client_message: one entry per key.
Recorded(request) == {p \in pending : p.key # request.key} \cup {request}

\* Requests forwarded or about to be whose answer is not looked up yet.
Expected ==
  {c.request : c \in {d \in clients : d.phase = "cleared"}} \cup upstream \cup outbox

\* Those of them under the key of this request.
Sharing(request) == {x.id : x \in {y \in Expected : y.key = request.key}}

\* record_client_message: what has no id is neither compared with the quarantined
\* tools nor recorded.
Forwardable(request) ==
  Permitted(request) /\ (Identified(request) => request.tool \notin quarantined)

Unlooked(request) ==
  IF ~Identified(request) THEN {request.id}
  ELSE IF Sharing(request) = {} THEN {} ELSE Sharing(request) \cup {request.id}

\* inspect_jsonrpc_message, the rest: the run guard, then record_client_message.
Record(c) ==
  /\ c.phase = "checked"
  /\ LET request == c.request
     IN /\ IF RunGuard
             THEN actions' = Attempted(request) /\ attempted' = attempted \o request.argument
             ELSE UNCHANGED <<actions, attempted>>
        /\ IF Forwardable(request)
             THEN /\ pending' = IF Identified(request) THEN Recorded(request) ELSE pending
                  /\ clients' = Done(request) \cup {Cleared(request)}
                  /\ clashed' = clashed \cup Unlooked(request)
                  /\ UNCHANGED answered
             ELSE Refuse(request) /\ UNCHANGED pending
  /\ UNCHANGED <<inbox, upstream, outbox, relays, quarantined, files, bounds,
                 known, returned, exempt, seen, raced, told, received, lost>>

Fault == faults < MaxFaults /\ faults' = faults + 1

\* A file cannot be read, an action not be evaluated or the request not be sent, and
\* nothing is forwarded.  The error carries no id: on a stream the agent cannot tell
\* what it answers.
ClientFails(request) ==
  /\ inbox' = inbox \ {request} /\ clients' = Done(request) /\ Fault
  /\ IF transport = "http"
       THEN answered' = answered \cup {request.id} /\ UNCHANGED lost
       ELSE lost' = lost \cup {request.id} /\ UNCHANGED answered
  /\ UNCHANGED <<transport, upstream, outbox, relays, pending, actions, quarantined, files, asked,
                 known, returned, exempt, seen, raced, clashed, told, attempted, received>>

\* The request is sent to the server.
Forward(c) ==
  /\ c.phase = "cleared"
  /\ upstream' = upstream \cup {c.request}
  /\ received' = IF RunGuard THEN received \o c.request.argument ELSE received
  /\ clients' = clients \ {c}
  /\ UNCHANGED <<inbox, outbox, relays, pending, actions, quarantined, files, bounds,
                 known, returned, exempt, seen, raced, clashed, told, attempted, answered, lost>>

-----------------------------------------------------------------------------
\* An error is also what the HTTP handler makes of a server that fails or takes too
\* long: either way nothing but the agent learns of it.
AnswersTo(request) ==
  LET answer(kind, c, s, unsafe) ==
        [id |-> request.id, key |-> request.key, kind |-> kind, catalog |-> c, secrets |-> s,
         unsafe |-> unsafe]
  IN {answer("error", NoCatalog, {}, FALSE)} \cup
     IF request.kind = "tools/list"
       THEN {answer("catalog", c, {}, FALSE) : c \in Catalogs}
       ELSE {answer("result", NoCatalog, s, unsafe) : s \in SUBSET Secrets, unsafe \in BOOLEAN}

\* What has no id need not be answered.
Respond ==
  \E request \in upstream :
    /\ upstream' = upstream \ {request}
    /\ \/ \E answer \in AnswersTo(request) : outbox' = outbox \cup {answer}
       \/ ~Identified(request) /\ UNCHANGED outbox
    /\ UNCHANGED <<inbox, clients, relays, pending, actions, quarantined, files, bounds, history>>

-----------------------------------------------------------------------------
\* An agent is shown an answer as the server wrote it.
Show(answer) ==
  /\ known' = known \cup answer.secrets
  /\ answered' = answered \cup {answer.id}

\* The stdio relay thread takes one line after another.
RelayFree == transport = "http" \/ relays = {}

\* inspect_upstream_message: an error, or an answer that is not pending, passes;
\* the entry of an error stays.
Pop(answer) ==
  /\ RelayFree
  /\ outbox' = outbox \ {answer}
  /\ exempt' = IF answer.id \in clashed THEN exempt \cup answer.secrets ELSE exempt
  /\ LET entry == {request \in pending : request.key = answer.key}
     IN IF answer.kind = "error" \/ entry = {}
          THEN Show(answer) /\ UNCHANGED <<pending, relays>>
          ELSE /\ pending' = pending \ entry
               /\ \E request \in entry :
                    relays' = relays \cup {[phase |-> "popped", answer |-> answer, held |-> NoPins,
                                           as |-> request.kind, tool |-> request.tool, bad |-> {}]}
               /\ UNCHANGED <<known, answered>>
  /\ UNCHANGED <<inbox, clients, upstream, actions, quarantined, files, bounds,
                 returned, seen, raced, clashed, told, attempted, received, lost>>

Step(r, next) == relays' = (relays \ {r}) \cup {next}

Named(c) == {c[i][1] : i \in DOMAIN c}

\* Nothing behind it names its tool again.
IsLastOf(c, i) == \A j \in DOMAIN c : j > i => c[j][1] # c[i][1]

\* live: a dictionary, so of a tool that is named twice the last definition.
Live(c) == [t \in Named(c) |-> LET i == CHOOSE j \in DOMAIN c : c[j][1] = t /\ IsLastOf(c, j)
                               IN c[i][2]]

\* Mutant: what is pinned follows the server.
PinsFollow(held, c) ==
  [t \in DOMAIN held \cup Named(c) |-> IF t \in Named(c) THEN Live(c)[t] ELSE held[t]]

\* CatalogPinStore.check: the first version of a tool is pinned and kept.
Pinned(held, c) ==
  [t \in DOMAIN held \cup Named(c) |-> IF t \in DOMAIN held THEN held[t] ELSE Live(c)[t]]

\* The tools whose definition changed, or of which one is suspicious.
Bad(held, c) ==
  {c[i][1] : i \in {j \in DOMAIN c : c[j][2] \in Poisoned}}
    \cup {t \in Named(c) \cap DOMAIN held : held[t] # Live(c)[t]}

\* Mutant: only the last catalog counts.
LastBad(bad) == bad

\* quarantined_tools.update.
Quarantined(bad) == quarantined \cup bad

\* CatalogPinStore.check loads the pins ...
LoadPins(r) ==
  /\ r.phase = "popped" /\ r.as = "tools/list"
  /\ Step(r, [r EXCEPT !.phase = "compared", !.held = pins])
  /\ raced' = (raced \/ \E other \in relays : other.phase = "compared")
  /\ UNCHANGED <<inbox, clients, upstream, outbox, pending, actions, quarantined, files, bounds,
                 known, returned, exempt, seen, clashed, told, attempted, received, answered, lost>>

\* ... and saves them when there are new tools; _inspect_tools_list, the rest.
InspectCatalog(r) ==
  /\ r.phase = "compared"
  /\ LET c == r.answer.catalog
         bad == Bad(r.held, c)
     IN /\ pins' = IF r.held = NoPins \/ ~(Named(c) \subseteq DOMAIN r.held)
                     THEN Pinned(r.held, c) ELSE pins
        /\ quarantined' = Quarantined(bad)
        /\ Step(r, [r EXCEPT !.phase = IF bad = {} THEN "passed" ELSE "stopped", !.bad = bad])
  /\ UNCHANGED <<inbox, clients, upstream, outbox, pending, actions, taint, bounds, history>>

\* A text of the answer looks like an instruction.
Unsafe(answer) ==
  answer.unsafe \/ \E i \in DOMAIN answer.catalog : answer.catalog[i][2] \in Poisoned

\* _inspect_tool_result: tag what looks like a secret, stop what looks like an
\* instruction.
InspectResult(r) ==
  /\ r.phase = "popped" /\ r.as = "tools/call"
  /\ taint' = taint \o SetToSeq({<<s, r.tool>> : s \in r.answer.secrets})
  /\ returned' = returned \cup {<<s, r.tool>> : s \in r.answer.secrets}
  /\ Step(r, [r EXCEPT !.phase = IF Unsafe(r.answer) THEN "stopped" ELSE "passed"])
  /\ UNCHANGED <<inbox, clients, upstream, outbox, pending, actions, quarantined, pins, bounds,
                 known, exempt, seen, raced, clashed, told, attempted, received, answered, lost>>

\* The pin file or the ledger cannot be read or written: the stdio relay prints the
\* line as it is, the HTTP handler answers with an error.
InspectionFails(r) ==
  /\ r.phase \in {"popped", "compared"} /\ Fault
  /\ IF transport = "http"
       THEN answered' = answered \cup {r.answer.id} /\ UNCHANGED <<known, exempt>>
       ELSE Show(r.answer) /\ exempt' = exempt \cup r.answer.secrets
  /\ relays' = relays \ {r}
  /\ UNCHANGED <<transport, inbox, clients, upstream, outbox, pending, actions, quarantined, files,
                 asked, returned, seen, raced, clashed, told, attempted, received, lost>>

\* The agent gets the answer, or the error that replaces it.
Deliver(r) ==
  /\ r.phase \in {"passed", "stopped"}
  /\ IF r.phase = "passed"
       THEN /\ Show(r.answer)
            /\ seen' = IF r.as = "tools/list" THEN seen \cup {r.answer.catalog} ELSE seen
            /\ UNCHANGED told
       ELSE /\ answered' = answered \cup {r.answer.id}
            /\ told' = told \cup r.bad
            /\ UNCHANGED <<known, seen>>
  /\ relays' = relays \ {r}
  /\ UNCHANGED <<inbox, clients, upstream, outbox, pending, actions, quarantined, files, bounds,
                 returned, exempt, raced, clashed, attempted, received, lost>>

-----------------------------------------------------------------------------
\* ttl_seconds have passed since the oldest entry was written.
Expire ==
  /\ taint # <<>> /\ Fault
  /\ exempt' = exempt \cup {Head(taint)[1]}
  /\ taint' = Tail(taint)
  /\ UNCHANGED <<memory, pins, transport, asked, known, returned, seen, raced, clashed, told,
                 attempted, received, answered, lost>>

\* The proxy and its server end and are started again: the files are kept.
Restart ==
  /\ Fault
  /\ inbox' = {} /\ clients' = {} /\ upstream' = {} /\ outbox' = {} /\ relays' = {}
  /\ pending' = {} /\ actions' = <<>> /\ quarantined' = {}
  /\ told' = {} /\ attempted' = <<>> /\ received' = <<>>
  /\ lost' = lost \cup ((1..asked) \ answered)
  /\ UNCHANGED <<files, transport, asked, known, returned, exempt, seen, raced, clashed, answered>>

ClientThread ==
  \/ \E request \in Arriving : Check(request)
  \/ \E c \in clients : Record(c) \/ Forward(c)

RelayThread ==
  \/ \E answer \in outbox : Pop(answer)
  \/ \E r \in relays : LoadPins(r) \/ InspectCatalog(r) \/ InspectResult(r) \/ Deliver(r)

Faults ==
  \/ \E request \in Arriving \cup {c.request : c \in clients} : ClientFails(request)
  \/ \E r \in relays : InspectionFails(r)
  \/ Expire \/ Restart

Next == AskList \/ AskCall \/ ClientThread \/ Respond \/ RelayThread \/ Faults

Spec == Init /\ [][Next]_vars

\* The threads run, and the server answers what it is asked.
FairSpec == Spec /\ WF_vars(ClientThread) /\ WF_vars(RelayThread) /\ WF_vars(Respond)

-----------------------------------------------------------------------------
\* The requests this step writes to the server.
Forwarded == upstream' \ upstream

\* A secret that agents were shown in one tool's result never reaches another tool
\* that has not returned it itself: a result is tagged before an agent sees it.
\* Secrets are exempt whose entry expired, whose result could not be inspected or
\* answered a call without an id, or which came under a key that was in use twice,
\* where one answer is taken for the other's.  Calls without an id are exempt over
\* HTTP, which forwards them though they are refused.
NoCrossToolSecret ==
  [][\A request \in Forwarded : \A s \in request.secrets \ exempt' :
       ~Unstoppable(request) => <<s, request.tool>> \in returned]_vars

\* What the server has received from one proxy is, as a run of its own, a
\* trajectory the policy allows: no pattern is completed one harmless call at a time.
ReceivedRunIsAllowed == received # <<>> => VerdictAllowed(Verdict(received))

\* What is forwarded is allowed as part of everything that was attempted: after an
\* attempt was refused for its trajectory, no action is forwarded by that proxy.
RefusalIsFinal ==
  [][\A request \in Forwarded :
       RunGuard /\ request.argument # <<>> => VerdictAllowed(Verdict(attempted))]_vars

\* The catalogs that pass inspection, by this proxy or a later one, agree on the last
\* definition they give of a tool, unless two were compared with the pins at the same
\* time.  Of a tool that a catalog names twice only the last definition is compared
\* (security.py:140); the ones before it are shown unpinned.
OneDefinitionPerTool ==
  ~raced => \A c, d \in seen : \A i \in DOMAIN c, j \in DOMAIN d :
              (IsLastOf(c, i) /\ IsLastOf(d, j) /\ c[i][1] = d[j][1]) => c[i][2] = d[j][2]

\* A call with an id, made after an agent was told that its tool is blocked, is not
\* forwarded.  (record_client_message lets pass what has none, or null.)
QuarantineHolds == [][\A request \in Forwarded : Identified(request) => ~request.late]_vars

\* Whatever agents asked under an id is answered in the end, by the server or by the
\* proxy, unless its proxy ended or failed on it.  (They ask finitely often: nothing that
\* is answered becomes unanswered, so this is the same as a ~> for each request.)
RequestsAreAnswered == []<>(1..asked \subseteq answered \cup lost)
=============================================================================
