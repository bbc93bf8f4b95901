-------------------------------- MODULE Wires --------------------------------
(***************************************************************************)
(* The three wires behind call(op, body, authed): core/transports/rest.py, *)
(* mcp.py and a2a.py, each turning what comes back into an Exchange.  One  *)
(* client per wire makes calls one after another.  The MCP client keeps a  *)
(* session across calls, and its seller may answer an earlier request on   *)
(* the stream of a later one.  A request may be handled after its call     *)
(* gave up, a gateway may answer in the seller's place, and the seller may *)
(* forget sessions.                                                        *)
(*                                                                         *)
(* Calls are numbered; a payload names the call it answers, as a created   *)
(* buy names the request that made it.                                     *)
(***************************************************************************)
EXTENDS Exchange, Sequences, FiniteSets

CONSTANTS
    NoSession,      \* None: no mcp-session-id, no auth posture
    NoResponse, NoReading,
    Raised,         \* call raised instead of returning an Exchange
    Gateway,        \* what a gateway may answer: "page", "badGateway", "json", "errorJson",
                    \* "redirect", and "okJson", which REST cannot tell from a seller's answer
    MaxCalls,       \* bound: calls made
    MaxForgets      \* bound: sessions the seller forgets

ASSUME WiresAssumption ==
    /\ NoBuy \notin Nat /\ NoSession \notin Nat \cup BOOLEAN
    /\ MaxCalls \in Nat /\ MaxForgets \in Nat

WireNames == {"rest", "mcp", "a2a"}
Calls     == 1 .. MaxCalls

-----------------------------------------------------------------------------
(* The answers of the MCP and A2A wires, and their reading. *)

\* The JSON-RPC objects of an MCP body, in order: of its SSE lines, or its one
\* plain JSON object (without an id if it is not JSON-RPC).
Frame(id, kind, buy)        == [id |-> id, kind |-> kind, buy |-> buy]
McpResponse(status, frames) == [status |-> status, frames |-> frames]
NoId == 0

\* The JSON of an A2A body: a task and the data of its artifacts, a JSON-RPC
\* error, no JSON at all, or JSON that is no JSON-RPC object.
Part(kind, buy)                  == [kind |-> kind, buy |-> buy]
A2aResponse(status, rpc, parts) == [status |-> status, rpc |-> rpc, parts |-> parts]

\* The Exchange of an answer classified as "envelope", "payload" or neither.
Classified(status, class, buy) ==
    [ status_code         |-> status,
      wire_error_envelope |-> class = "envelope",
      wire_response       |-> class = "payload",
      media_buy_id        |-> IF class = "payload" THEN buy ELSE NoBuy ]

\* Mutant: any frame that has an id is an answer.
AnyFrames(frames, id) == { i \in DOMAIN frames : frames[i].id # NoId }

\* _parse_sse with want_id: only frames that carry the id of the request.
FramesFor(frames, id) == { i \in DOMAIN frames : frames[i].id = id }

\* Mutant: only structuredContent is a payload.
McpClassStructured(f) ==
    CASE f.kind \in {"isError", "error"} -> "envelope"
      [] f.kind = "structured" -> "payload"
      [] OTHER -> "none"

\* isError and JSON-RPC errors are envelopes; structuredContent and a JSON text
\* part are payloads; any other result is not.
McpClass(f) ==
    CASE f.kind \in {"isError", "error"} -> "envelope"
      [] f.kind \in {"structured", "text"} -> "payload"
      [] OTHER -> "none"

\* McpTransport.call, from the answer on.
McpExchange(r, id) ==
    LET own == FramesFor(r.frames, id)
        f   == r.frames[CHOOSE i \in own : \A j \in own : i <= j]
    IN  IF own = {} THEN Classified(r.status, "none", NoBuy)
        ELSE Classified(r.status, McpClass(f), f.buy)

\* Mutant: the first part of a task is its answer.
FirstPart(parts) == parts[1]

\* _extract_data_part: an envelope anywhere in the task, or else its first part.
DataPart(parts) ==
    LET envelopes == { i \in DOMAIN parts : parts[i].kind = "envelope" }
    IN  IF envelopes = {} THEN parts[1] ELSE parts[CHOOSE i \in envelopes : TRUE]

\* A2aTransport.call, from the answer on.  JSON that is no JSON-RPC object (a
\* list, or an "error" that is a string) has no "get": reading it raises.
A2aExchange(r) ==
    CASE r.rpc = "alien" -> Raised
      [] r.rpc = "error" -> Classified(r.status, "envelope", NoBuy)
      [] r.rpc \notin {"alien", "error"} /\ r.parts = << >> -> Classified(r.status, "none", NoBuy)
      [] OTHER -> Classified(r.status, DataPart(r.parts).kind, DataPart(r.parts).buy)

\* Mutant: the raw answer is handed on.
RawReading(w, r, id) == r

ReadingOf(w, r, id) ==
    CASE w = "rest" -> RestExchange(r)
      [] w = "mcp"  -> McpExchange(r, id)
      [] w = "a2a"  -> A2aExchange(r)

-----------------------------------------------------------------------------
(* What comes back. *)

\* The seller's answer to call n, whose request has the given id: what it did,
\* in the shapes of each wire.  A buy held for approval is a payload without a
\* buy, and on A2A a task without artifacts; a failed task may also carry the
\* payload of an earlier skill.
SellerAnswers(w, did, n, id) ==
    LET buy == IF did = "done" THEN n ELSE NoBuy
    IN  CASE w = "rest" -> { IF did = "failed" THEN Response(400, "envelope", NoBuy)
                             ELSE Response(200, "object", buy) }
          [] w = "mcp"  -> { McpResponse(200, << Frame(id, k, buy) >>) :
                               k \in IF did = "failed" THEN {"isError", "error"}
                                     ELSE {"structured", "text"} }
          [] w = "a2a"  -> CASE did = "done"    -> { A2aResponse(200, "task", << Part("payload", n) >>) }
                             [] did = "pending" -> { A2aResponse(200, "task", << >>) }
                             [] OTHER -> { A2aResponse(200, "error", << >>),
                                           A2aResponse(200, "task", << Part("envelope", NoBuy) >>),
                                           A2aResponse(200, "task", << Part("payload", n), Part("envelope", NoBuy) >>) }

\* A gateway's answer: a page with 200 or 502, JSON that is not AdCP, with 200 or
\* 502, or a redirect, which the MCP and A2A clients follow to a page.
GatewayAnswer(w, g) ==
    LET status == CASE g \in {"page", "okJson"} -> 200
                    [] g = "redirect" -> IF w = "rest" THEN 302 ELSE 200
                    [] OTHER -> 502
        json   == g \in {"json", "errorJson", "okJson"}
    IN  CASE w = "rest" -> Response(status, IF json THEN "object" ELSE "other", NoBuy)
          [] w = "mcp"  -> McpResponse(status, IF json THEN << Frame(NoId, "other", NoBuy) >> ELSE << >>)
          [] w = "a2a"  -> A2aResponse(status, CASE g \in {"json", "okJson"} -> "task"
                                                 [] g = "errorJson" -> "alien"
                                                 [] OTHER -> "none", << >>)

-----------------------------------------------------------------------------
VARIABLES
    \* the call under way, or the last one
    pc, wire, authed, rid, resp, reading,
    calls,              \* its number
    \* McpTransport
    session, posture, lastId,
    \* the wire and the seller
    net,                \* requests on their way
    did,                \* per call: what the seller did
    minted,             \* per session: the auth posture of its initialize
    live,               \* sessions the seller knows
    owed,               \* MCP frames the seller may still send: [session, frame]
    \* bound and history
    forgets,
    refused             \* sessions a call was answered on with a 4xx or 5xx

callVars   == << pc, wire, authed, rid, resp, reading, calls >>
mcpVars    == << session, posture, lastId >>
sellerVars == << net, did, minted, live, owed, forgets >>
vars       == << callVars, mcpVars, sellerVars, refused >>

Init ==
    /\ pc = "idle" /\ wire = "rest" /\ authed = TRUE /\ rid = NoId
    /\ resp = NoResponse /\ reading = NoReading /\ calls = 0
    /\ session = NoSession /\ posture = NoSession /\ lastId = 0
    /\ net = {} /\ did = [n \in Calls |-> "nothing"]
    /\ minted = << >> /\ live = {} /\ owed = {} /\ forgets = 0
    /\ refused = {}

-----------------------------------------------------------------------------
(* call(op, body, authed) *)

\* Mutant: any session will do.
AnySession(a) == session # NoSession

\* _ensure_session: the session is used again by calls of the same posture.
Reusable(a) == session # NoSession /\ posture = a

Begin(w, a) ==
    /\ pc = "idle" /\ calls < MaxCalls
    /\ calls' = calls + 1 /\ wire' = w /\ authed' = a
    /\ rid' = NoId /\ resp' = NoResponse

StartCall(w, a) ==
    /\ Begin(w, a)
    /\ reading' = NoReading
    /\ IF w = "mcp" /\ ~Reusable(a)
         THEN pc' = "init" /\ session' = NoSession
         ELSE pc' = "send" /\ UNCHANGED session
    /\ UNCHANGED << posture, lastId, sellerVars, refused >>

\* REST: no route for the op, or no media_buy_id for the path.  Nothing is sent.
RefuseRequest(a) ==
    /\ Begin("rest", a)
    /\ reading' = Raised
    /\ UNCHANGED << pc, mcpVars, sellerVars, refused >>

\* The exception of the HTTP client ends the call.
Raise ==
    /\ pc' = "idle" /\ reading' = Raised
    /\ UNCHANGED << wire, authed, rid, resp, calls >>

\* The initialize POST: it yields a session, or an answer without one, whatever
\* its status; or it raises.
Initialize ==
    /\ pc = "init"
    /\ lastId' = lastId + 1
    /\ \/ /\ minted' = Append(minted, authed)
          /\ live' = live \cup {Len(minted')}
          /\ session' = Len(minted') /\ posture' = authed
          /\ pc' = "notify"
          /\ UNCHANGED << wire, authed, rid, resp, reading, calls >>
       \/ /\ session' = NoSession /\ posture' = NoSession
          /\ pc' = "send"
          /\ UNCHANGED << wire, authed, rid, resp, reading, calls, minted, live >>
       \/ Raise /\ UNCHANGED << session, posture, minted, live >>
    /\ UNCHANGED << net, did, owed, forgets, refused >>

\* notifications/initialized: its answer is not looked at, but it may raise.
Notify ==
    /\ pc = "notify"
    /\ \/ pc' = "send" /\ UNCHANGED << wire, authed, rid, resp, reading, calls >>
       \/ Raise
    /\ UNCHANGED << mcpVars, sellerVars, refused >>

\* The operation is POSTed: on MCP under the next id and the session, if any.
Send ==
    LET mcp == wire = "mcp"
    IN  /\ pc = "send"
        /\ pc' = "await"
        /\ lastId' = IF mcp THEN lastId + 1 ELSE lastId
        /\ rid' = IF mcp THEN lastId + 1 ELSE NoId
        /\ net' = net \cup { [ n |-> calls, wire |-> wire, authed |-> authed, id |-> rid',
                               session |-> IF mcp THEN session ELSE NoSession ] }
        /\ UNCHANGED << wire, authed, resp, reading, calls, session, posture,
                        did, minted, live, owed, forgets, refused >>

\* No connection, or the client's timeout: the request may still be handled.
TimeOut == pc = "await" /\ resp = NoResponse /\ Raise
             /\ UNCHANGED << mcpVars, sellerVars, refused >>

\* Mutant: only an authentication failure drops the session.
DropsOnAuth(r) == r.status \in {401, 403}

\* Any failed answer may mean that the session is gone.
Drops(r) == r.status >= 400

\* The answer is read, and the MCP session dropped if it failed.
Read ==
    /\ pc = "await" /\ resp # NoResponse
    /\ pc' = "idle"
    /\ reading' = ReadingOf(wire, resp, rid)
    /\ IF wire = "mcp" /\ Drops(resp)
         THEN session' = NoSession /\ posture' = NoSession
         ELSE UNCHANGED << session, posture >>
    /\ refused' = IF wire = "mcp" /\ resp.status >= 400 THEN refused \cup ({session} \ {NoSession})
                  ELSE refused
    /\ UNCHANGED << wire, authed, rid, resp, calls, lastId, sellerVars >>

-----------------------------------------------------------------------------
(* The seller and the gateway. *)

Waiting(q) == pc = "await" /\ q.n = calls /\ resp = NoResponse

\* An MCP stream may begin with the late answer to an earlier request of its
\* session, and may break off before the answer proper.
Streams(q, r) ==
    IF q.wire # "mcp" THEN {r}
    ELSE LET own == r.frames[1]
         IN  { McpResponse(200, l) : l \in { << >>, << own >> } \cup
                 UNION { { << o.frame >>, << o.frame, own >> } : o \in {x \in owed : x.session = q.session} } }

\* The seller carries the request out, refuses it or holds it, and answers; or
\* its answer is lost, and may come on a later stream.
SellerActs(q) ==
    /\ q \in net /\ (q.wire = "mcp" => q.session \in live)
    /\ net' = net \ {q}
    /\ \E d \in {"done", "failed", "pending"} : \E r \in SellerAnswers(q.wire, d, q.n, q.id) :
         /\ did' = [did EXCEPT ![q.n] = d]
         /\ \/ Waiting(q) /\ resp' \in Streams(q, r) /\ UNCHANGED owed
            \/ /\ UNCHANGED resp
               /\ owed' = IF q.wire = "mcp"
                            THEN owed \cup {[session |-> q.session, frame |-> r.frames[1]]}
                            ELSE owed
    /\ UNCHANGED << pc, wire, authed, rid, reading, calls, mcpVars, minted, live, forgets, refused >>

\* "Missing session ID", or a session the seller does not know.
SellerRefuses(q) ==
    /\ q \in net /\ q.wire = "mcp" /\ q.session \notin live
    /\ net' = net \ {q}
    /\ IF Waiting(q) THEN resp' = McpResponse(404, << >>) ELSE UNCHANGED resp
    /\ UNCHANGED << pc, wire, authed, rid, reading, calls, mcpVars, did, minted, live, owed, forgets, refused >>

GatewayAnswers ==
    /\ pc = "await" /\ resp = NoResponse
    /\ \E g \in Gateway : resp' = GatewayAnswer(wire, g)
    /\ UNCHANGED << pc, wire, authed, rid, reading, calls, mcpVars, sellerVars, refused >>

\* The seller restarts, or expires a session.
Forget ==
    /\ forgets < MaxForgets
    /\ forgets' = forgets + 1
    /\ \E s \in live : live' = live \ {s}
    /\ UNCHANGED << callVars, mcpVars, net, did, minted, owed, refused >>

Next ==
    \/ \E w \in WireNames, a \in BOOLEAN : StartCall(w, a)
    \/ \E a \in BOOLEAN : RefuseRequest(a)
    \/ Initialize \/ Notify \/ Send \/ TimeOut \/ Read
    \/ \E q \in net : SellerActs(q) \/ SellerRefuses(q)
    \/ GatewayAnswers \/ Forget

Spec == Init /\ [][Next]_vars

-----------------------------------------------------------------------------
(* Properties. *)

Exchanges == [ status_code : Nat, wire_error_envelope : BOOLEAN, wire_response : BOOLEAN,
               media_buy_id : Calls \cup {NoBuy} ]

\* Every variable holds a value the clients can give it.
TypeOK ==
    /\ pc \in {"idle", "init", "notify", "send", "await"}
    /\ wire \in WireNames /\ authed \in BOOLEAN /\ rid \in Nat /\ calls \in 0 .. MaxCalls
    /\ reading \in Exchanges \cup {NoReading, Raised}
    /\ minted \in Seq(BOOLEAN)
    /\ session \in DOMAIN minted \cup {NoSession} /\ posture \in BOOLEAN \cup {NoSession}
    /\ lastId \in Nat
    /\ net \subseteq [ n : Calls, wire : WireNames, authed : BOOLEAN, id : Nat,
                       session : DOMAIN minted \cup {NoSession} ]
    /\ did \in [Calls -> {"nothing", "done", "failed", "pending"}]
    /\ live \subseteq DOMAIN minted /\ refused \subseteq DOMAIN minted /\ forgets \in Nat

Answered == reading \notin {NoReading, Raised}

\* A call read as a success was carried out by the seller, or is held by it for
\* approval; on A2A, where such a task has no artifact, it was carried out.  A
\* proxy's page, an empty body or a failed task that carries a payload as well
\* never is one (result.py:8-12, a2a.py:149-156).
SuccessIsDone ==
    Answered /\ IsSuccess(reading) =>
        did[calls] \in IF wire = "a2a" THEN {"done"} ELSE {"done", "pending"}

\* A payload is the answer to this very call: late answers to calls that gave
\* up, on the stream of a later call, are never attributed to it (mcp.py:22-25).
AnswerIsOwn ==
    Answered /\ reading.wire_response => reading.media_buy_id \in {calls, NoBuy}

\* The seller's own answer is read as what the seller did, alike on every wire:
\* a success if it did the operation, an error if it did not (result.py:3-4,
\* transports/__init__.py:4-5).  The wires part on a buy that is held for
\* approval: A2A cannot classify it (a2a.py:105-122, test_wire_outcomes.py:212-227),
\* REST and MCP read a success that names no buy.
OutcomeIsRead ==
    /\ Answered /\ did[calls] # "nothing"
    /\ \E r \in SellerAnswers(wire, did[calls], calls, rid) :
         IF wire = "mcp" THEN \E i \in DOMAIN resp.frames : resp.frames[i] = r.frames[1]
         ELSE resp = r
    => /\ did[calls] = "done" => IsSuccess(reading) /\ reading.media_buy_id = calls
       /\ did[calls] = "failed" => IsError(reading)
       /\ did[calls] = "pending" =>
            IF wire = "a2a" THEN IsIndeterminate(reading)
            ELSE IsSuccess(reading) /\ reading.media_buy_id = NoBuy

\* A request never rides a session that was minted under the other auth
\* posture, whatever handshakes failed half-way before it (mcp.py:58-62).
NoBorrowedSession ==
    \A q \in net : q.session # NoSession => minted[q.session] = q.authed

\* A session on which a call was answered with a failure is not sent again
\* (mcp.py:122-123).
RefusedIsDropped == [][\A q \in net' \ net : q.session \notin refused]_vars
=============================================================================
