----------------------------- MODULE WiresProofs -----------------------------
(***************************************************************************)
(* Theorems about Wires, for any bounds and any gateway: a session carries *)
(* only calls of the posture it was minted under, a refused session is     *)
(* never sent again, and a payload answers the call that returns it.  On   *)
(* each of the three wires a reading is well-formed, a call read as a      *)
(* success was carried out or is held if no gateway forges one on REST,    *)
(* and the seller's own answer is read as what it did.                     *)
(***************************************************************************)
EXTENDS Wires, TLAPS

USE WiresAssumption DEF NoId

-----------------------------------------------------------------------------
(* Sessions. *)

\* What _ensure_session keeps: the session the client holds was minted under
\* the posture it remembers, a call under way has the same posture, and no
\* answer was ever a failure on it.
SessionInv ==
    /\ pc \in {"idle", "init", "notify", "send", "await"}
    /\ authed \in BOOLEAN
    /\ minted \in Seq(BOOLEAN)
    /\ session \in DOMAIN minted \cup {NoSession}
    /\ refused \subseteq DOMAIN minted
    /\ session \notin refused
    /\ session # NoSession => minted[session] = posture
    /\ pc = "init" => session = NoSession
    /\ pc \in {"notify", "send", "await"} /\ wire = "mcp" /\ session # NoSession => posture = authed
    /\ \A q \in net : q.session \in DOMAIN minted \cup {NoSession}
    /\ NoBorrowedSession

\* No session has been minted in the initial state.
LEMMA SessionInit == Init => SessionInv
BY DEF Init, SessionInv, NoBorrowedSession

\* Each step preserves SessionInv; minting a session extends minted at its end.
LEMMA SessionStep == SessionInv /\ [Next]_vars => SessionInv'
<1> SUFFICES ASSUME SessionInv, [Next]_vars PROVE SessionInv'
  OBVIOUS
<1> USE DEF SessionInv, NoBorrowedSession
<1>1. CASE UNCHANGED vars
  BY <1>1 DEF vars, callVars, mcpVars, sellerVars
<1>2. ASSUME NEW w \in WireNames, NEW a \in BOOLEAN, StartCall(w, a) PROVE SessionInv'
  BY <1>2 DEF StartCall, Begin, Reusable, sellerVars
<1>3. ASSUME NEW a \in BOOLEAN, RefuseRequest(a) PROVE SessionInv'
  BY <1>3 DEF RefuseRequest, Begin, mcpVars, sellerVars
<1>4. CASE Initialize
  <2>1. CASE /\ minted' = Append(minted, authed) /\ live' = live \cup {Len(minted')}
             /\ session' = Len(minted') /\ posture' = authed /\ pc' = "notify"
             /\ UNCHANGED << wire, authed, rid, resp, reading, calls >>
    <3>1. UNCHANGED << net, refused, authed, wire >>
      BY <1>4, <2>1 DEF Initialize
    <3>2. /\ minted' \in Seq(BOOLEAN) /\ Len(minted') = Len(minted) + 1
          /\ DOMAIN minted = 1 .. Len(minted) /\ DOMAIN minted' = 1 .. Len(minted) + 1
          /\ \A i \in DOMAIN minted : minted'[i] = minted[i]
          /\ minted'[Len(minted) + 1] = authed
      BY <2>1
    <3>3. session' = Len(minted) + 1 /\ session' \in DOMAIN minted' /\ session' \notin refused'
      BY <2>1, <3>1, <3>2
    <3>4. \A q \in net' : /\ q.session \in DOMAIN minted' \cup {NoSession}
                          /\ q.session # NoSession => minted'[q.session] = q.authed
      BY <3>1, <3>2
    <3> QED BY <2>1, <3>1, <3>2, <3>3, <3>4
  <2>2. CASE /\ session' = NoSession /\ posture' = NoSession /\ pc' = "send"
             /\ UNCHANGED << wire, authed, rid, resp, reading, calls, minted, live >>
    BY <1>4, <2>2 DEF Initialize
  <2>3. CASE Raise /\ UNCHANGED << session, posture, minted, live >>
    BY <1>4, <2>3 DEF Initialize, Raise
  <2> QED BY <1>4, <2>1, <2>2, <2>3 DEF Initialize
<1>5. CASE Notify
  BY <1>5 DEF Notify, Raise, mcpVars, sellerVars
<1>6. CASE Send
  <2> DEFINE q == [ n |-> calls, wire |-> wire, authed |-> authed, id |-> rid',
                    session |-> IF wire = "mcp" THEN session ELSE NoSession ]
  <2>1. net' = net \cup {q}
    BY <1>6 DEF Send
  <2>2. q.authed = authed /\ q.session = IF wire = "mcp" THEN session ELSE NoSession
    OBVIOUS
  <2>3. q.session \in DOMAIN minted \cup {NoSession}
        /\ (q.session # NoSession => minted[q.session] = q.authed)
    BY <1>6, <2>2 DEF Send
  <2> HIDE DEF q
  <2>4. \A p \in net' : /\ p.session \in DOMAIN minted \cup {NoSession}
                        /\ p.session # NoSession => minted[p.session] = p.authed
    BY <2>1, <2>3
  <2> QED BY <1>6, <2>4 DEF Send
<1>7. CASE TimeOut
  BY <1>7 DEF TimeOut, Raise, mcpVars, sellerVars
<1>8. CASE Read
  BY <1>8 DEF Read, Drops, sellerVars
<1>9. ASSUME NEW q \in net, SellerActs(q) PROVE SessionInv'
  BY <1>9 DEF SellerActs, mcpVars
<1>10. ASSUME NEW q \in net, SellerRefuses(q) PROVE SessionInv'
  BY <1>10 DEF SellerRefuses, mcpVars
<1>11. CASE GatewayAnswers
  BY <1>11 DEF GatewayAnswers, mcpVars, sellerVars
<1>12. CASE Forget
  BY <1>12 DEF Forget, callVars, mcpVars
<1> QED BY <1>1, <1>2, <1>3, <1>4, <1>5, <1>6, <1>7, <1>8, <1>9, <1>10, <1>11, <1>12 DEF Next

\* SessionInv is an invariant.
LEMMA SessionsHold == Spec => []SessionInv
<1>1. SessionInv /\ [Next]_vars => SessionInv'
  BY SessionStep
<1> QED BY SessionInit, <1>1, PTL DEF Spec

\* A request never rides a session minted under the other auth posture
\* (mcp.py:58-62), whatever handshakes fail and however postures alternate.
THEOREM SessionsAreNotBorrowed == Spec => []NoBorrowedSession
<1>1. SessionInv => NoBorrowedSession
  BY DEF SessionInv
<1> QED BY SessionsHold, <1>1, PTL

\* A session a call failed on is never sent again (mcp.py:122-123).
THEOREM RefusedSessionsAreDropped == Spec => RefusedIsDropped
<1>1. SessionInv /\ [Next]_vars => [\A q \in net' \ net : q.session \notin refused]_vars
  <2> SUFFICES ASSUME SessionInv, Next PROVE \A q \in net' \ net : q.session \notin refused
    OBVIOUS
  <2>1. CASE Send
    <3> DEFINE q == [ n |-> calls, wire |-> wire, authed |-> authed, id |-> rid',
                      session |-> IF wire = "mcp" THEN session ELSE NoSession ]
    <3>1. session \notin refused /\ NoSession \notin refused
      BY DEF SessionInv
    <3>2. net' = net \cup {q}
      BY <2>1 DEF Send
    <3>3. q.session \notin refused
      BY <3>1
    <3> QED BY <3>2, <3>3
  <2>2. CASE ~Send
    <3>1. net' \subseteq net
      BY <2>2 DEF Next, StartCall, RefuseRequest, Initialize, Notify, TimeOut, Read, SellerActs,
                  SellerRefuses, GatewayAnswers, Forget, sellerVars
    <3> QED BY <3>1
  <2> QED BY <2>1, <2>2
<1> QED BY SessionsHold, <1>1, PTL DEF RefusedIsDropped, Spec

-----------------------------------------------------------------------------
(* Answers. *)

Own == {calls, NoBuy}

FrameKinds == {"isError", "error", "structured", "text", "other"}
Frames     == [id : Nat, kind : FrameKinds, buy : Nat \cup {NoBuy}]
Parts(buys) == [kind : {"payload", "envelope"}, buy : buys]

\* What came back names no other call, as far as the client looks at it: on MCP
\* in the frames under its request's id, on the other wires anywhere.
OwnResp ==
    resp # NoResponse =>
        /\ wire = "rest" /\ resp.kind = "object" => resp.buy \in Own
        /\ wire = "mcp"  => /\ rid # NoId
                            /\ resp.frames \in Seq(Frames)
                            /\ Len(resp.frames) <= 2
                            /\ \A i \in DOMAIN resp.frames : resp.frames[i].id = rid => resp.frames[i].buy \in Own
        /\ wire = "a2a"  => resp.parts \in Seq(Parts(Own))

\* Ids are used once: a frame under the id of the call under way answers it.
AnswerInv ==
    /\ wire \in WireNames /\ calls \in Nat /\ lastId \in Nat /\ rid \in 0 .. lastId
    /\ pc \in {"init", "notify", "send"} => resp = NoResponse
    /\ pc = "await" /\ wire = "mcp" => rid # NoId
    /\ \A q \in net : /\ q.n \in 0 .. calls
                      /\ q.n = calls => q.wire = wire
                      /\ q.wire \in WireNames /\ q.id \in Nat
                      /\ q.wire = "mcp" => q.id \in 1 .. lastId /\ (q.id = rid => q.n = calls)
    /\ \A o \in owed : /\ o.frame \in Frames
                       /\ o.frame.id \in 1 .. lastId
                       /\ o.frame.id = rid => o.frame.buy \in Own
    /\ OwnResp
    /\ AnswerIsOwn

\* Nothing has been answered in the initial state.
LEMMA AnswerInit == Init => AnswerInv
BY DEF Init, AnswerInv, OwnResp, AnswerIsOwn, Answered, WireNames

\* Of at most two frames one is the first.
LEMMA FirstOf ==
    ASSUME NEW s, s \in SUBSET (1 .. 2), s # {}
    PROVE  (CHOOSE i \in s : \A j \in s : i <= j) \in s
<1>1. \E i \in s : \A j \in s : i <= j
  <2>1. CASE 1 \in s
    BY <2>1
  <2>2. CASE 1 \notin s
    <3>1. \A j \in s : j = 2
      BY <2>2
    <3>2. PICK i : i \in s
      OBVIOUS
    <3> QED BY <3>1, <3>2
  <2> QED BY <2>1, <2>2
<1> QED BY <1>1

\* Sequences of no, one or two elements.
LEMMA OneOrTwo ==
    ASSUME NEW T, NEW x \in T, NEW y \in T
    PROVE  /\ << >> \in Seq(T) /\ << x >> \in Seq(T) /\ << x, y >> \in Seq(T)
           /\ Len(<< >>) = 0 /\ Len(<< x >>) = 1 /\ Len(<< x, y >>) = 2
           /\ \A i \in DOMAIN << x >> : << x >>[i] = x
           /\ \A i \in DOMAIN << x, y >> : << x, y >>[i] \in {x, y}
OBVIOUS

\* The elements of a sequence are of its type.
LEMMA ElementsOf ==
    ASSUME NEW T, NEW s \in Seq(T)
    PROVE  \A i \in DOMAIN s : s[i] \in T
OBVIOUS

\* A payload names the buy of what was classified as one; "none" is no payload.
LEMMA PayloadOf ==
    ASSUME NEW status, NEW class, NEW buy, Classified(status, class, buy).wire_response
    PROVE  class = "payload" /\ Classified(status, class, buy).media_buy_id = buy
<1>1. Classified(status, class, buy).wire_response = (class = "payload")
  BY DEF Classified
<1>2. class = "payload"
  BY <1>1, Zenon
<1> QED BY <1>2 DEF Classified

\* A payload read on REST names the buy of the answer.
LEMMA RestPayload ==
    ASSUME NEW r, RestExchange(r).wire_response
    PROVE  r.kind = "object" /\ RestExchange(r).media_buy_id = r.buy
<1> DEFINE payload == ~ (r.status \in 300..399) /\ r.kind = "object"
<1>1. /\ RestExchange(r).wire_response = payload
      /\ RestExchange(r).media_buy_id = IF payload THEN r.buy ELSE NoBuy
  BY DEF RestExchange
<1>2. payload
  BY <1>1, Zenon
<1> QED BY <1>1, <1>2

\* Whatever is read from an own answer is own.
LEMMA ReadOwn ==
    ASSUME AnswerInv, resp # NoResponse, NEW x, x = ReadingOf(wire, resp, rid),
           x # Raised, x.wire_response
    PROVE  x.media_buy_id \in Own
<1> USE DEF AnswerInv, OwnResp, WireNames
<1>1. CASE wire = "rest"
  <2>1. x = RestExchange(resp)
    BY <1>1 DEF ReadingOf
  <2> QED BY <1>1, <2>1, RestPayload
<1>2. CASE wire = "mcp"
  <2>1. x = McpExchange(resp, rid)
    BY <1>2 DEF ReadingOf
  <2> DEFINE own == FramesFor(resp.frames, rid)
             i   == CHOOSE k \in own : \A j \in own : k <= j
  <2>2. own # {} /\ x = Classified(resp.status, McpClass(resp.frames[i]), resp.frames[i].buy)
    BY <2>1, PayloadOf DEF McpExchange
  <2>3. i \in own
    <3>1. own \in SUBSET (1 .. 2)
      BY <1>2 DEF FramesFor
    <3> HIDE DEF own
    <3> QED BY <2>2, <3>1, FirstOf
  <2>4. resp.frames[i].buy \in Own
    BY <1>2, <2>3 DEF FramesFor
  <2> QED BY <2>2, <2>4, PayloadOf
<1>3. CASE wire = "a2a"
  <2>1. x = A2aExchange(resp)
    BY <1>3 DEF ReadingOf
  <2>2. resp.parts # << >> /\ x = Classified(resp.status, DataPart(resp.parts).kind, DataPart(resp.parts).buy)
    <3>1. x # Classified(resp.status, "envelope", NoBuy) /\ x # Classified(resp.status, "none", NoBuy)
      BY PayloadOf
    <3> QED BY <2>1, <3>1 DEF A2aExchange
  <2>3. \E i \in DOMAIN resp.parts : DataPart(resp.parts) = resp.parts[i]
    <3>1. resp.parts \in Seq(Parts(Own))
      BY <1>3
    <3>2. 1 \in DOMAIN resp.parts
      BY <2>2, <3>1
    <3> DEFINE envelopes == { i \in DOMAIN resp.parts : resp.parts[i].kind = "envelope" }
    <3>3. CASE envelopes = {}
      BY <3>2, <3>3 DEF DataPart
    <3>4. CASE envelopes # {}
      <4>1. (CHOOSE i \in envelopes : TRUE) \in envelopes
        BY <3>4
      <4>2. DataPart(resp.parts) = resp.parts[CHOOSE i \in envelopes : TRUE]
        BY <3>4 DEF DataPart
      <4> QED BY <4>1, <4>2
    <3> QED BY <3>3, <3>4
  <2>4. DataPart(resp.parts).buy \in Own
    <3>1. resp.parts \in Seq(Parts(Own))
      BY <1>3
    <3>2. \A i \in DOMAIN resp.parts : resp.parts[i] \in Parts(Own)
      BY <3>1, ElementsOf
    <3> QED BY <2>3, <3>2 DEF Parts
  <2> QED BY <2>2, <2>4, PayloadOf
<1> QED BY <1>1, <1>2, <1>3

\* The frame, the part or the object of the seller's answer to call n.
LEMMA SellerAnswersOwn ==
    ASSUME NEW w \in WireNames, NEW d, NEW n \in Nat, NEW id \in Nat,
           NEW r \in SellerAnswers(w, d, n, id)
    PROVE  /\ w = "rest" => r.buy \in {n, NoBuy}
           /\ w = "mcp"  => r.frames[1] \in [id : {id}, kind : FrameKinds, buy : {n, NoBuy}]
           /\ w = "a2a"  => r.parts \in Seq(Parts({n, NoBuy}))
<1> DEFINE buy == IF d = "done" THEN n ELSE NoBuy
<1>1. CASE w = "rest"
  BY <1>1 DEF SellerAnswers, Response
<1>2. CASE w = "mcp"
  <2>1. SellerAnswers(w, d, n, id) =
          { McpResponse(200, << Frame(id, k, buy) >>) :
              k \in IF d = "failed" THEN {"isError", "error"} ELSE {"structured", "text"} }
    BY <1>2 DEF SellerAnswers
  <2>2. PICK k \in FrameKinds : r = McpResponse(200, << Frame(id, k, buy) >>)
    <3> HIDE DEF buy
    <3>1. \E k \in IF d = "failed" THEN {"isError", "error"} ELSE {"structured", "text"} :
             r = McpResponse(200, << Frame(id, k, buy) >>)
      BY <1>2, <2>1
    <3>2. {"isError", "error", "structured", "text"} \subseteq FrameKinds
      BY DEF FrameKinds
    <3> QED BY <3>1, <3>2
  <2>3. r.frames[1] = Frame(id, k, buy)
    BY <2>2 DEF McpResponse
  <2>4. buy \in {n, NoBuy}
    OBVIOUS
  <2> HIDE DEF buy
  <2>5. Frame(id, k, buy) \in [id : {id}, kind : FrameKinds, buy : {n, NoBuy}]
    BY <2>4 DEF Frame
  <2> QED BY <1>2, <2>3, <2>5
<1>3. CASE w = "a2a"
  <2> DEFINE p == Part("payload", n)
             e == Part("envelope", NoBuy)
  <2>1. SellerAnswers(w, d, n, id) \subseteq
          { A2aResponse(200, "task", << p >>), A2aResponse(200, "task", << >>),
            A2aResponse(200, "error", << >>), A2aResponse(200, "task", << e >>),
            A2aResponse(200, "task", << p, e >>) }
    BY <1>3 DEF SellerAnswers
  <2>2. r.parts \in { << >>, << p >>, << e >>, << p, e >> }
    BY <2>1 DEF A2aResponse
  <2>3. p \in Parts({n, NoBuy}) /\ e \in Parts({n, NoBuy})
    BY DEF Part, Parts
  <2> HIDE DEF p, e
  <2>4. \A l \in { << >>, << p >>, << e >>, << p, e >> } : l \in Seq(Parts({n, NoBuy}))
    <3>1. ASSUME NEW T, p \in T, e \in T
          PROVE  << >> \in Seq(T) /\ << p >> \in Seq(T) /\ << e >> \in Seq(T) /\ << p, e >> \in Seq(T)
      BY <3>1
    <3> QED BY <2>3, <3>1
  <2> QED BY <1>3, <2>2, <2>4
<1> QED BY <1>1, <1>2, <1>3 DEF WireNames

\* A gateway's answer names no buy.
LEMMA GatewayAnswersOwn ==
    ASSUME NEW w \in WireNames, NEW g
    PROVE  /\ w = "rest" => GatewayAnswer(w, g).buy = NoBuy
           /\ w = "mcp"  => GatewayAnswer(w, g).frames \in { << >>, << Frame(NoId, "other", NoBuy) >> }
           /\ w = "a2a"  => GatewayAnswer(w, g).parts = << >>
BY DEF GatewayAnswer, Response, McpResponse, A2aResponse, WireNames

\* Each step preserves AnswerInv.
LEMMA AnswerStep == AnswerInv /\ [Next]_vars => AnswerInv'
<1> SUFFICES ASSUME AnswerInv, [Next]_vars PROVE AnswerInv'
  OBVIOUS
<1> USE DEF AnswerInv, AnswerIsOwn, Answered
<1>1. CASE UNCHANGED vars
  BY <1>1 DEF vars, callVars, mcpVars, sellerVars, OwnResp, Own
<1>2. ASSUME NEW w \in WireNames, NEW a \in BOOLEAN, StartCall(w, a) PROVE AnswerInv'
  <2>1. /\ UNCHANGED << lastId, net, owed >> /\ calls' = calls + 1 /\ rid' = NoId
        /\ wire' = w /\ resp' = NoResponse /\ reading' = NoReading /\ pc' \in {"init", "send"}
    BY <1>2 DEF StartCall, Begin, sellerVars
  <2>2. OwnResp' /\ AnswerIsOwn'
    BY <2>1 DEF OwnResp
  <2>3. \A q \in net' : q.n \in 0 .. calls' /\ q.n # calls' /\ (q.wire = "mcp" => q.id # rid')
    BY <2>1
  <2>4. \A o \in owed' : o.frame.id # rid'
    BY <2>1
  <2> QED BY <2>1, <2>2, <2>3, <2>4
<1>3. ASSUME NEW a \in BOOLEAN, RefuseRequest(a) PROVE AnswerInv'
  BY <1>3 DEF RefuseRequest, Begin, mcpVars, sellerVars, OwnResp, Own, WireNames
<1>4. CASE Initialize
  <2>1. UNCHANGED << wire, calls, rid, resp, net, owed >> /\ lastId' = lastId + 1
    BY <1>4 DEF Initialize, Raise
  <2>2. reading' = reading \/ reading' = Raised
    BY <1>4 DEF Initialize, Raise
  <2>3. pc' \in {"notify", "send", "idle"}
    BY <1>4 DEF Initialize, Raise
  <2>4. pc = "init"
    BY <1>4 DEF Initialize
  <2> QED BY <2>1, <2>2, <2>3, <2>4 DEF OwnResp, Own
<1>5. CASE Notify
  BY <1>5 DEF Notify, Raise, mcpVars, sellerVars, OwnResp, Own
<1>6. CASE Send
  <2> DEFINE q == [ n |-> calls, wire |-> wire, authed |-> authed, id |-> rid',
                    session |-> IF wire = "mcp" THEN session ELSE NoSession ]
  <2>1. /\ UNCHANGED << wire, calls, resp, reading, owed >>
        /\ pc = "send" /\ pc' = "await" /\ net' = net \cup {q}
    BY <1>6 DEF Send
  <2>2. /\ lastId' = IF wire = "mcp" THEN lastId + 1 ELSE lastId
        /\ rid' = IF wire = "mcp" THEN lastId + 1 ELSE NoId
    BY <1>6 DEF Send
  <2>3. /\ rid' \in 0 .. lastId' /\ lastId' \in Nat /\ lastId <= lastId'
        /\ rid' = 0 \/ rid' > lastId
    BY <2>2
  <2>4. /\ q.n \in 0 .. calls /\ q.n = calls /\ q.wire = wire /\ q.id \in Nat
        /\ q.wire = "mcp" => q.id \in 1 .. lastId'
    BY <2>2
  <2>5. \A p \in net : p.wire = "mcp" => p.id \in 1 .. lastId' /\ p.id # rid'
    BY <2>3
  <2>6. \A o \in owed : o.frame.id \in 1 .. lastId' /\ o.frame.id # rid'
    BY <2>3
  <2>7. OwnResp'
    BY <2>1 DEF OwnResp
  <2> HIDE DEF q
  <2>8. \A p \in net' : /\ p.n \in 0 .. calls /\ (p.n = calls => p.wire = wire)
                        /\ p.wire \in WireNames /\ p.id \in Nat
                        /\ p.wire = "mcp" => p.id \in 1 .. lastId' /\ (p.id = rid' => p.n = calls)
    BY <2>1, <2>4, <2>5
  <2> QED BY <2>1, <2>2, <2>3, <2>6, <2>7, <2>8 DEF Own
<1>7. CASE TimeOut
  BY <1>7 DEF TimeOut, Raise, mcpVars, sellerVars, OwnResp, Own
<1>8. CASE Read
  <2>1. /\ UNCHANGED << wire, calls, rid, resp, lastId, net, owed >>
        /\ pc' = "idle" /\ resp # NoResponse /\ reading' = ReadingOf(wire, resp, rid)
    BY <1>8 DEF Read, sellerVars
  <2>2. AnswerIsOwn'
    BY <2>1, ReadOwn DEF Own
  <2>3. OwnResp'
    BY <2>1 DEF OwnResp, Own
  <2> QED BY <2>1, <2>2, <2>3 DEF Own
<1>9. ASSUME NEW q \in net, SellerActs(q) PROVE AnswerInv'
  <2> DEFINE Outcome(r) ==
        \/ Waiting(q) /\ resp' \in Streams(q, r) /\ UNCHANGED owed
        \/ /\ UNCHANGED resp
           /\ owed' = IF q.wire = "mcp"
                        THEN owed \cup {[session |-> q.session, frame |-> r.frames[1]]} ELSE owed
  <2>0. PICK d \in {"done", "failed", "pending"} :
          \E r \in SellerAnswers(q.wire, d, q.n, q.id) : Outcome(r)
    BY <1>9 DEF SellerActs
  <2>1. PICK r \in SellerAnswers(q.wire, d, q.n, q.id) : Outcome(r)
    BY <2>0
  <2>2. UNCHANGED << pc, wire, rid, reading, calls, lastId >> /\ net' \subseteq net
    BY <1>9 DEF SellerActs, mcpVars
  <2> DEFINE f == r.frames[1]
  <2>3. /\ q.wire = "rest" => r.buy \in {q.n, NoBuy}
        /\ q.wire = "mcp"  => f \in [id : {q.id}, kind : FrameKinds, buy : {q.n, NoBuy}]
        /\ q.wire = "a2a"  => r.parts \in Seq(Parts({q.n, NoBuy}))
    <3>1. q.n \in Nat /\ q.id \in Nat /\ q.wire \in WireNames
      OBVIOUS
    <3> QED BY <3>1, SellerAnswersOwn
  <2> HIDE DEF f
  <2>4. CASE Waiting(q) /\ resp' \in Streams(q, r) /\ UNCHANGED owed
    <3>1. q.n = calls /\ q.wire = wire /\ pc = "await"
      BY <2>4 DEF Waiting
    <3>2. OwnResp'
      <4>1. CASE q.wire # "mcp"
        <5>1. resp' = r
          BY <2>4, <4>1 DEF Streams
        <5> QED BY <2>2, <2>3, <3>1, <4>1, <5>1 DEF OwnResp, Own
      <4>2. CASE q.wire = "mcp"
        <5>1. PICK l : /\ resp' = McpResponse(200, l)
                       /\ \/ l \in { << >>, << f >> }
                          \/ \E o \in owed : l \in { << o.frame >>, << o.frame, f >> }
          BY <2>4, <4>2 DEF Streams, f
        <5>2. f \in Frames /\ (f.id = rid => f.buy \in Own)
          BY <2>3, <3>1, <4>2 DEF Own, Frames
        <5>3. \A o \in owed : o.frame \in Frames /\ (o.frame.id = rid => o.frame.buy \in Own)
          OBVIOUS
        <5> DEFINE Good(x) == /\ x \in Seq(Frames) /\ Len(x) <= 2
                              /\ \A i \in DOMAIN x : x[i].id = rid => x[i].buy \in Own
        <5>4. Good(l)
          <6> DEFINE OwnFrame(x) == x \in Frames /\ (x.id = rid => x.buy \in Own)
          <6>1. \A x, y : OwnFrame(x) /\ OwnFrame(y) => Good(<< >>) /\ Good(<< x >>) /\ Good(<< x, y >>)
            BY OneOrTwo
          <6>2. CASE l \in { << >>, << f >> }
            BY <5>2, <6>1, <6>2
          <6>3. ASSUME NEW o \in owed, l \in { << o.frame >>, << o.frame, f >> } PROVE Good(l)
            <7>1. OwnFrame(o.frame) /\ OwnFrame(f)
              BY <5>2, <5>3
            <7> HIDE DEF OwnFrame, Good
            <7>2. Good(<< o.frame >>) /\ Good(<< o.frame, f >>)
              BY <6>1, <7>1
            <7> QED BY <6>3, <7>2
          <6> QED BY <5>1, <6>2, <6>3
        <5>5. resp'.frames = l /\ rid # NoId
          BY <3>1, <4>2, <5>1 DEF McpResponse
        <5> QED BY <2>2, <3>1, <4>2, <5>4, <5>5 DEF OwnResp, Own
      <4> QED BY <4>1, <4>2
    <3> QED BY <2>2, <2>4, <3>1, <3>2 DEF Own
  <2>5. CASE /\ UNCHANGED resp
             /\ owed' = IF q.wire = "mcp"
                          THEN owed \cup {[session |-> q.session, frame |-> f]} ELSE owed
    <3>1. OwnResp'
      BY <2>2, <2>5 DEF OwnResp, Own
    <3>2. \A o \in owed' : /\ o.frame \in Frames
                           /\ o.frame.id \in 1 .. lastId
                           /\ o.frame.id = rid => o.frame.buy \in Own
      <4>1. q.wire = "mcp" => /\ f \in Frames
                              /\ f.id \in 1 .. lastId
                              /\ f.id = rid => f.buy \in Own
        BY <2>3 DEF Own, Frames
      <4> QED BY <2>5, <4>1
    <3> QED BY <2>2, <2>5, <3>1, <3>2 DEF Own
  <2> QED BY <2>1, <2>4, <2>5 DEF f
<1>10. ASSUME NEW q \in net, SellerRefuses(q) PROVE AnswerInv'
  <2>1. /\ UNCHANGED << pc, wire, rid, reading, calls, lastId, owed >> /\ net' \subseteq net
        /\ resp' = resp \/ (resp' = McpResponse(404, << >>) /\ Waiting(q))
        /\ q.wire = "mcp"
    BY <1>10 DEF SellerRefuses, mcpVars
  <2>2. OwnResp'
    <3>1. CASE resp' = resp
      BY <2>1, <3>1 DEF OwnResp, Own
    <3>2. CASE resp' = McpResponse(404, << >>) /\ Waiting(q) /\ q.wire = "mcp"
      <4>1. wire = "mcp" /\ rid # NoId
        BY <3>2 DEF Waiting
      <4> QED BY <2>1, <3>2, <4>1 DEF OwnResp, Own, McpResponse
    <3> QED BY <2>1, <3>1, <3>2
  <2> QED BY <2>1, <2>2 DEF Own, Waiting
<1>11. CASE GatewayAnswers
  <2>1. PICK g \in Gateway : resp' = GatewayAnswer(wire, g)
    BY <1>11 DEF GatewayAnswers
  <2>2. UNCHANGED << pc, wire, rid, reading, calls, lastId, net, owed >> /\ pc = "await"
    BY <1>11 DEF GatewayAnswers, mcpVars, sellerVars
  <2>3. OwnResp'
    <3> DEFINE f == Frame(NoId, "other", NoBuy)
    <3>1. f \in Frames /\ f.id = NoId
      BY DEF Frame, Frames, FrameKinds
    <3> HIDE DEF f
    <3>0. wire = "mcp" => resp'.frames \in { << >>, << f >> }
      BY <2>1, GatewayAnswersOwn DEF f
    <3>2. wire = "mcp" => /\ resp'.frames \in Seq(Frames)
                          /\ Len(resp'.frames) <= 2
                          /\ \A i \in DOMAIN resp'.frames : resp'.frames[i].id = NoId
      <4>1. << f >> \in Seq(Frames) /\ Len(<< f >>) = 1 /\ \A i \in DOMAIN << f >> : << f >>[i] = f
        BY <3>1, OneOrTwo
      <4>2. << >> \in Seq(Frames) /\ Len(<< >>) = 0 /\ DOMAIN << >> = {}
        OBVIOUS
      <4>3. CASE resp'.frames = << f >>
        BY <3>1, <4>1, <4>3
      <4>4. CASE resp'.frames = << >>
        <5>1. resp'.frames \in Seq(Frames) /\ Len(resp'.frames) = 0 /\ DOMAIN resp'.frames = {}
          BY <4>2, <4>4
        <5> QED BY <5>1
      <4> QED BY <3>0, <4>3, <4>4
    <3>3. (wire = "rest" => resp'.buy = NoBuy) /\ (wire = "a2a" => resp'.parts = << >>)
      BY <2>1, GatewayAnswersOwn
    <3>4. CASE wire = "rest"
      BY <2>2, <3>3, <3>4 DEF OwnResp, Own
    <3>5. CASE wire = "mcp"
      BY <2>2, <3>2, <3>5 DEF OwnResp
    <3>6. CASE wire = "a2a"
      <4>1. << >> \in Seq(Parts(Own'))
        OBVIOUS
      <4> QED BY <2>2, <3>3, <3>6, <4>1 DEF OwnResp
    <3> QED BY <3>4, <3>5, <3>6 DEF WireNames
  <2> QED BY <2>2, <2>3 DEF Own
<1>12. CASE Forget
  BY <1>12 DEF Forget, callVars, mcpVars, OwnResp, Own
<1> QED BY <1>1, <1>2, <1>3, <1>4, <1>5, <1>6, <1>7, <1>8, <1>9, <1>10, <1>11, <1>12 DEF Next

\* A payload is the answer to the very call that returns it, whatever late
\* frames come on its stream (mcp.py:22-25).
THEOREM AnswersAreOwn == Spec => []AnswerIsOwn
<1>1. AnswerInv /\ [Next]_vars => AnswerInv'
  BY AnswerStep
<1>2. AnswerInv => AnswerIsOwn
  BY DEF AnswerInv
<1> QED BY AnswerInit, <1>1, <1>2, PTL DEF Spec

-----------------------------------------------------------------------------
(* Reading single answers.                                                 *)

\* What a success on wire w takes of the seller.
Fit(w) == IF w = "a2a" THEN {"done"} ELSE {"done", "pending"}

Succeeds(x) == x # Raised /\ IsSuccess(x)

LEMMA ClassifiedAs ==
    ASSUME NEW status, NEW class, NEW buy
    PROVE  LET x == Classified(status, class, buy)
           IN  /\ x.status_code = status
               /\ class = "payload" => x.wire_response /\ x.media_buy_id = buy
               /\ class = "envelope" => x.wire_error_envelope
               /\ class # "envelope" => ~x.wire_error_envelope
               /\ x.wire_response => class = "payload"
<1>1. CASE class = "payload"
  BY <1>1 DEF Classified
<1>2. CASE class # "payload"
  BY <1>2 DEF Classified
<1>3. QED
  BY <1>1, <1>2

LEMMA OnlyPayloads ==
    ASSUME NEW status, NEW class, NEW buy, Succeeds(Classified(status, class, buy))
    PROVE  class = "payload" /\ status \in 200..299
BY ClassifiedAs DEF Succeeds, IsSuccess, IsError, HttpFailed

\* A JSON object under 200 is a success on REST, which is of the buy it names.
LEMMA ObjectReads ==
    ASSUME NEW r, r.status = 200, r.kind = "object"
    PROVE  IsSuccess(RestExchange(r)) /\ RestExchange(r).media_buy_id = r.buy
<1> DEFINE redirect == r.status \in 300..399
           payload  == ~redirect /\ r.kind = "object"
<1>1. ~redirect /\ payload /\ 200 \in 200..299
  OBVIOUS
<1>2. /\ RestExchange(r).status_code = 200
      /\ RestExchange(r).wire_error_envelope = (redirect \/ r.kind = "envelope")
      /\ RestExchange(r).wire_response = payload
      /\ RestExchange(r).media_buy_id = IF payload THEN r.buy ELSE NoBuy
  BY DEF RestExchange
<1>3. "object" # "envelope"
  OBVIOUS
<1> HIDE DEF redirect
<1>4. ~RestExchange(r).wire_error_envelope
  BY <1>1, <1>2, <1>3, Zenon
<1> HIDE DEF payload
<1>5. RestExchange(r).wire_response
  BY <1>1, <1>2, Zenon
<1>6. QED
  BY <1>1, <1>2, <1>4, <1>5 DEF IsSuccess, IsError, HttpFailed

\* The one part of a task, or the envelope beside it, is what is read.
LEMMA DataPartOf ==
    ASSUME NEW n
    PROVE  LET p == Part("payload", n)
               e == Part("envelope", NoBuy)
           IN  /\ DataPart(<< p >>) = p
               /\ DataPart(<< e >>) = e
               /\ DataPart(<< p, e >>) = e
<1> DEFINE p == Part("payload", n)
           e == Part("envelope", NoBuy)
           Envelopes(parts) == { i \in DOMAIN parts : parts[i].kind = "envelope" }
<1>1. p.kind = "payload" /\ e.kind = "envelope"
  BY DEF Part
<1> HIDE DEF p, e
<1>2. << p >>[1] = p /\ << e >>[1] = e /\ << p, e >>[1] = p /\ << p, e >>[2] = e
  OBVIOUS
<1>3. DOMAIN << p >> = {1} /\ DOMAIN << e >> = {1} /\ DOMAIN << p, e >> = {1, 2}
  OBVIOUS
<1>4. Envelopes(<< p >>) = {} /\ Envelopes(<< e >>) = {1} /\ Envelopes(<< p, e >>) = {2}
  BY <1>1, <1>2, <1>3
<1>5. (CHOOSE i \in {1} : TRUE) = 1 /\ (CHOOSE i \in {2} : TRUE) = 2
  OBVIOUS
<1>6. QED
  BY <1>2, <1>4, <1>5 DEF DataPart, p, e

\* On REST and A2A the seller's answer is all that comes back, and what it did
\* decides how it reads.
LEMMA OwnAnswerReads ==
    ASSUME NEW w \in {"rest", "a2a"}, NEW d \in {"done", "failed", "pending"}, NEW n, NEW id,
           NEW r \in SellerAnswers(w, d, n, id)
    PROVE  LET x == ReadingOf(w, r, id)
           IN  /\ Succeeds(x) => d \in Fit(w)
               /\ d = "done" => IsSuccess(x) /\ x.media_buy_id = n
               /\ d = "failed" => IsError(x)
               /\ d = "pending" => IF w = "a2a" THEN IsIndeterminate(x)
                                   ELSE IsSuccess(x) /\ x.media_buy_id = NoBuy
<1>1. CASE w = "rest"
  <2>1. ReadingOf(w, r, id) = RestExchange(r)
    BY <1>1 DEF ReadingOf
  <2>2. CASE d = "failed"
    <3>1. r = Response(400, "envelope", NoBuy)
      BY <1>1, <2>2 DEF SellerAnswers
    <3>2. IsError(RestExchange(r))
      BY <3>1 DEF RestExchange, Response, IsError, HttpFailed
    <3>3. QED
      BY <2>1, <2>2, <3>2 DEF Succeeds, IsSuccess
  <2>3. CASE d # "failed"
    <3>1. r = Response(200, "object", IF d = "done" THEN n ELSE NoBuy)
      BY <1>1, <2>3 DEF SellerAnswers
    <3>2. r.status = 200 /\ r.kind = "object" /\ r.buy = IF d = "done" THEN n ELSE NoBuy
      BY <3>1 DEF Response
    <3>3. IsSuccess(RestExchange(r)) /\ RestExchange(r).media_buy_id = r.buy
      BY <3>2, ObjectReads
    <3>4. QED
      BY <1>1, <2>1, <2>3, <3>2, <3>3 DEF Fit
  <2>4. QED
    BY <2>2, <2>3
<1>2. CASE w = "a2a"
  <2>1. ReadingOf(w, r, id) = A2aExchange(r)
    BY <1>2 DEF ReadingOf
  <2> DEFINE p == Part("payload", n)
             e == Part("envelope", NoBuy)
  <2>2. p.kind = "payload" /\ p.buy = n /\ e.kind = "envelope"
    BY DEF Part
  <2>3. /\ DataPart(<< p >>) = p /\ DataPart(<< e >>) = e /\ DataPart(<< p, e >>) = e
    BY DataPartOf
  <2> HIDE DEF p, e
  <2>4. CASE d = "done"
    <3>1. r = A2aResponse(200, "task", << p >>)
      BY <1>2, <2>4 DEF SellerAnswers, p
    <3>2. A2aExchange(r) = Classified(200, "payload", n)
      BY <2>2, <2>3, <3>1 DEF A2aExchange, A2aResponse
    <3>3. QED
      BY <1>2, <2>1, <2>4, <3>2, ClassifiedAs DEF Fit, IsSuccess, IsError, HttpFailed
  <2>5. CASE d = "pending"
    <3>1. r = A2aResponse(200, "task", << >>)
      BY <1>2, <2>5 DEF SellerAnswers
    <3>2. A2aExchange(r) = Classified(200, "none", NoBuy)
      BY <3>1 DEF A2aExchange, A2aResponse
    <3>3. ~Succeeds(A2aExchange(r)) /\ IsIndeterminate(A2aExchange(r))
      BY <3>2, ClassifiedAs, OnlyPayloads DEF IsIndeterminate, IsSuccess, IsError, HttpFailed
    <3>4. QED
      BY <1>2, <2>1, <2>5, <3>3
  <2>6. CASE d = "failed"
    <3>1. r \in { A2aResponse(200, "error", << >>), A2aResponse(200, "task", << e >>),
                  A2aResponse(200, "task", << p, e >>) }
      BY <1>2, <2>6 DEF SellerAnswers, p, e
    <3>2. \E b : A2aExchange(r) = Classified(200, "envelope", b)
      <4>1. CASE r = A2aResponse(200, "error", << >>)
        <5>1. r.rpc = "error" /\ r.status = 200
          BY <4>1 DEF A2aResponse
        <5>2. A2aExchange(r) = Classified(r.status, "envelope", NoBuy)
          BY <5>1 DEF A2aExchange
        <5>3. QED
          BY <5>1, <5>2
      <4>2. CASE r = A2aResponse(200, "task", << e >>)
        <5>1. A2aExchange(r) = Classified(200, "envelope", e.buy)
          BY <2>2, <2>3, <4>2 DEF A2aExchange, A2aResponse
        <5>2. QED
          BY <5>1
      <4>3. CASE r = A2aResponse(200, "task", << p, e >>)
        <5>1. A2aExchange(r) = Classified(200, "envelope", e.buy)
          BY <2>2, <2>3, <4>3 DEF A2aExchange, A2aResponse
        <5>2. QED
          BY <5>1
      <4>4. QED
        BY <3>1, <4>1, <4>2, <4>3
    <3>3. QED
      BY <2>1, <2>6, <3>2, ClassifiedAs, OnlyPayloads DEF IsError
  <2>7. QED
    BY <2>4, <2>5, <2>6
<1>3. QED
  BY <1>1, <1>2

\* On MCP it is a frame, which is classified by what the seller did.
LEMMA OwnFrameReads ==
    ASSUME NEW d \in {"done", "failed", "pending"}, NEW n, NEW id,
           NEW r \in SellerAnswers("mcp", d, n, id)
    PROVE  LET f == r.frames[1]
           IN  /\ f.id = id
               /\ McpClass(f) = IF d = "failed" THEN "envelope" ELSE "payload"
               /\ f.buy = IF d = "done" THEN n ELSE NoBuy
<1> DEFINE buy == IF d = "done" THEN n ELSE NoBuy
<1>1. PICK k \in IF d = "failed" THEN {"isError", "error"} ELSE {"structured", "text"} :
         r = McpResponse(200, << Frame(id, k, buy) >>)
  BY DEF SellerAnswers
<1>2. r.frames[1] = Frame(id, k, buy)
  BY <1>1 DEF McpResponse
<1>3. QED
  BY <1>1, <1>2 DEF Frame, McpClass

\* What a gateway gives in place of the seller's REST answer is never a JSON
\* object under a 2xx status: the REST client takes that for the seller's.
NothingForged ==
    \A g \in Gateway : LET r == GatewayAnswer("rest", g)
                       IN  r.status \notin 200..299 \/ r.kind # "object"

\* Then what a gateway answers is never a success, on any wire.
LEMMA GatewayFails ==
    ASSUME NothingForged, NEW w \in WireNames, NEW g \in Gateway, NEW id, w = "mcp" => id # NoId
    PROVE  ~Succeeds(ReadingOf(w, GatewayAnswer(w, g), id))
<1> DEFINE r == GatewayAnswer(w, g)
<1>1. CASE w = "rest"
  <2>1. ReadingOf(w, r, id) = RestExchange(r)
    BY <1>1 DEF ReadingOf
  <2>2. r.kind # "object" \/ r.status \notin 200..299
    BY <1>1 DEF NothingForged
  <2>3. RestExchange(r).status_code = r.status
    BY DEF RestExchange
  <2>4. QED
    BY <2>1, <2>2, <2>3, RestPayload DEF Succeeds, IsSuccess, IsError, HttpFailed
<1>2. CASE w = "mcp"
  <2>1. ReadingOf(w, r, id) = McpExchange(r, id)
    BY <1>2 DEF ReadingOf
  <2>2. r.frames \in { << >>, << Frame(NoId, "other", NoBuy) >> }
    BY <1>2, GatewayAnswersOwn
  <2>3. \A i \in DOMAIN r.frames : r.frames[i].id = NoId
    BY <2>2 DEF Frame
  <2>4. FramesFor(r.frames, id) = {}
    BY <1>2, <2>3 DEF FramesFor
  <2>5. McpExchange(r, id) = Classified(r.status, "none", NoBuy)
    BY <2>4 DEF McpExchange
  <2>6. QED
    BY <2>1, <2>5, OnlyPayloads
<1>3. CASE w = "a2a"
  <2>1. ReadingOf(w, r, id) = A2aExchange(r)
    BY <1>3 DEF ReadingOf
  <2>2. r.parts = << >> /\ r.rpc # "error"
    BY <1>3, GatewayAnswersOwn DEF GatewayAnswer, A2aResponse
  <2>3. A2aExchange(r) \in { Raised, Classified(r.status, "none", NoBuy) }
    BY <2>2 DEF A2aExchange
  <2>4. QED
    BY <2>1, <2>3, OnlyPayloads DEF Succeeds
<1>4. QED
  BY <1>1, <1>2, <1>3 DEF WireNames

\* An MCP answer that reads as a success has a frame under the request's id
\* that is a payload; if it has one such frame, that is what is read.
LEMMA McpReads ==
    ASSUME NEW r, NEW id, DOMAIN r.frames \in SUBSET (1 .. 2)
    PROVE  /\ Succeeds(McpExchange(r, id)) =>
                \E i \in DOMAIN r.frames : r.frames[i].id = id /\ McpClass(r.frames[i]) = "payload"
           /\ \A i \in DOMAIN r.frames :
                r.frames[i].id = id /\ (\A j \in DOMAIN r.frames : r.frames[j].id = id => j = i) =>
                    McpExchange(r, id) = Classified(r.status, McpClass(r.frames[i]), r.frames[i].buy)
<1> DEFINE own == FramesFor(r.frames, id)
           k   == CHOOSE i \in own : \A j \in own : i <= j
<1>1. own \in SUBSET (1 .. 2) /\ \A i \in own : i \in DOMAIN r.frames /\ r.frames[i].id = id
  BY DEF FramesFor
<1>2. own = {} => McpExchange(r, id) = Classified(r.status, "none", NoBuy)
  BY DEF McpExchange
<1>3. own # {} => McpExchange(r, id) = Classified(r.status, McpClass(r.frames[k]), r.frames[k].buy)
  BY DEF McpExchange
<1>4. own # {} => k \in own
  <2> HIDE DEF own
  <2> QED BY <1>1, FirstOf
<1>5. ASSUME Succeeds(McpExchange(r, id))
      PROVE  \E i \in DOMAIN r.frames : r.frames[i].id = id /\ McpClass(r.frames[i]) = "payload"
  <2>1. own # {}
    BY <1>2, <1>5, OnlyPayloads
  <2>2. McpClass(r.frames[k]) = "payload"
    BY <1>3, <1>5, <2>1, OnlyPayloads
  <2>3. QED
    BY <1>1, <1>4, <2>1, <2>2
<1>6. ASSUME NEW i \in DOMAIN r.frames, r.frames[i].id = id,
             \A j \in DOMAIN r.frames : r.frames[j].id = id => j = i
      PROVE  McpExchange(r, id) = Classified(r.status, McpClass(r.frames[i]), r.frames[i].buy)
  <2>1. own = {i}
    BY <1>6 DEF FramesFor
  <2>2. k = i
    BY <1>4, <2>1
  <2>3. QED
    BY <1>3, <2>1, <2>2
<1>7. QED
  BY <1>5, <1>6
-----------------------------------------------------------------------------
(* Success.                                                                *)

\* The exchange that what came back is read as.
Sought == ReadingOf(wire, resp, rid)

\* The seller is done with the call under way.
Settled == \A q \in net : q.n # calls

\* A call is sent once, and answered once by the seller: with an answer on its
\* stream or with a frame that is still owed, never both.
SentOnce ==
    /\ calls \in 0 .. MaxCalls /\ DOMAIN did = Calls
    /\ pc # "idle" => calls \in Calls
    /\ pc \in {"init", "notify", "send"} => Settled
    /\ \A p, q \in net : q.n \in Calls /\ (p.n = q.n => p = q)
    /\ \A o \in owed : o.frame.id = rid => Settled

\* One frame answers the call, and a response that has it is not a failure.
OneFrame ==
    resp # NoResponse /\ wire = "mcp" =>
        \A i, j \in DOMAIN resp.frames :
            resp.frames[i].id = rid /\ resp.frames[j].id = rid => i = j /\ resp.status = 200

\* A success that came back, and is not forged, is backed by what the seller did,
\* for good.
Backed ==
    NothingForged /\ resp # NoResponse /\ Succeeds(Sought) => did[calls] \in Fit(wire) /\ Settled

\* What a call returned is what came back, read.
ReadBack == Answered => pc = "idle" /\ resp # NoResponse /\ reading = Sought

DoneInv == AnswerInv /\ SentOnce /\ OneFrame /\ Backed /\ ReadBack

\* The places of at most two elements.
LEMMA AtMostTwo ==
    ASSUME NEW x, NEW y
    PROVE  /\ DOMAIN << >> = {} /\ DOMAIN << x >> = {1} /\ DOMAIN << x, y >> = {1, 2}
           /\ Len(<< >>) = 0 /\ Len(<< x >>) = 1 /\ Len(<< x, y >>) = 2
           /\ << x >>[1] = x /\ << x, y >>[1] = x /\ << x, y >>[2] = y
OBVIOUS

LEMMA DoneInit == Init => DoneInv
BY AnswerInit DEF Init, DoneInv, SentOnce, OneFrame, Backed, ReadBack, Answered

\* A step that leaves the answer to the call under way and what the seller did
\* about it alone.
LEMMA NothingComes ==
    ASSUME DoneInv, AnswerInv', ReadBack',
           UNCHANGED << wire, resp, rid, calls, did, net, owed >>,
           pc' \in {"init", "notify", "send"} => pc \in {"init", "notify", "send"},
           pc' # "idle" => pc # "idle"
    PROVE  DoneInv'
BY DEF DoneInv, SentOnce, OneFrame, Backed, Settled, Sought

\* A new call.
LEMMA NewCall ==
    ASSUME DoneInv, AnswerInv', NEW w, NEW a, Begin(w, a), ~Answered',
           UNCHANGED << did, net, owed >>
    PROVE  DoneInv'
<1>1. /\ calls \in Nat /\ calls < MaxCalls /\ calls' = calls + 1 /\ rid' = NoId
      /\ resp' = NoResponse
  BY DEF Begin, DoneInv, AnswerInv
<1>2. calls' \in Calls
  BY <1>1 DEF Calls
<1>3. Settled'
  BY <1>1 DEF Settled, DoneInv, AnswerInv
<1>4. \A o \in owed' : o.frame.id # rid'
  BY <1>1 DEF DoneInv, AnswerInv
<1>5. SentOnce'
  BY <1>1, <1>2, <1>3 DEF DoneInv, SentOnce, Calls
<1>6. QED
  BY <1>1, <1>5 DEF DoneInv, OneFrame, Backed, ReadBack

\* The seller's answer to the call under way comes back.
LEMMA AnswerComes ==
    ASSUME DoneInv, NEW q \in net, Waiting(q), NEW d \in {"done", "failed", "pending"},
           NEW r \in SellerAnswers(q.wire, d, q.n, q.id), resp' \in Streams(q, r),
           did' = [did EXCEPT ![q.n] = d], net' = net \ {q},
           UNCHANGED << pc, wire, rid, reading, calls, owed >>
    PROVE  SentOnce' /\ OneFrame' /\ Backed' /\ ReadBack'
<1>1. q.n = calls /\ q.wire = wire /\ wire \in WireNames /\ pc = "await" /\ calls \in Calls
  BY DEF Waiting, DoneInv, AnswerInv, SentOnce
<1>2. Settled' /\ did'[calls] = d
  BY <1>1 DEF DoneInv, SentOnce, Settled
<1>3. SentOnce' /\ ReadBack'
  BY <1>1, <1>2 DEF DoneInv, SentOnce, ReadBack, Answered
<1>4. CASE wire # "mcp"
  <2>1. resp' = r /\ wire \in {"rest", "a2a"}
    BY <1>1, <1>4 DEF Streams, WireNames
  <2>2. Sought' = ReadingOf(wire, r, q.id)
    BY <1>4, <2>1 DEF Sought, ReadingOf
  <2>3. Succeeds(Sought') => d \in Fit(wire)
    BY <1>1, <2>1, <2>2, OwnAnswerReads
  <2>4. QED
    BY <1>2, <1>3, <1>4, <2>3 DEF Backed, OneFrame
<1>5. CASE wire = "mcp"
  <2> DEFINE f == r.frames[1]
  <2>1. PICK l : /\ resp' = McpResponse(200, l)
                 /\ \/ l \in { << >>, << f >> }
                    \/ \E o \in owed : l \in { << o.frame >>, << o.frame, f >> }
    BY <1>1, <1>5 DEF Streams
  <2>2. resp'.frames = l /\ resp'.status = 200
    BY <2>1 DEF McpResponse
  <2>3. McpClass(f) = IF d = "failed" THEN "envelope" ELSE "payload"
    BY <1>1, <1>5, OwnFrameReads
  <2>4. \A o \in owed : o.frame.id # rid
    BY <1>1 DEF DoneInv, SentOnce, Settled
  <2> HIDE DEF f
  <2> DEFINE OwnIsLast == /\ DOMAIN l \in SUBSET (1 .. 2)
                          /\ \A i \in DOMAIN l : l[i].id = rid => i = Len(l) /\ l[i] = f
  <2>5. OwnIsLast
    <3>1. CASE l \in { << >>, << f >> }
      <4>1. CASE l = << >>
        BY <4>1
      <4>2. CASE l = << f >>
        BY <4>2, AtMostTwo
      <4>3. QED
        BY <3>1, <4>1, <4>2
    <3>2. ASSUME NEW o \in owed, l \in { << o.frame >>, << o.frame, f >> }
          PROVE  OwnIsLast
      <4>1. o.frame.id # rid
        BY <2>4
      <4>2. CASE l = << o.frame >>
        BY <4>1, <4>2, AtMostTwo
      <4>3. CASE l = << o.frame, f >>
        BY <4>1, <4>3, AtMostTwo
      <4>4. QED
        BY <3>2, <4>2, <4>3
    <3>3. QED
      BY <2>1, <3>1, <3>2
  <2>6. OneFrame'
    BY <2>2, <2>5 DEF OneFrame
  <2>7. Sought' = McpExchange(resp', rid)
    BY <1>5 DEF Sought, ReadingOf
  <2>8. Succeeds(Sought') => McpClass(f) = "payload"
    BY <2>2, <2>5, <2>7, McpReads
  <2>9. Succeeds(Sought') => d \in Fit(wire)
    BY <1>5, <2>3, <2>8 DEF Fit
  <2>10. QED
    BY <1>2, <1>3, <2>6, <2>9 DEF Backed
<1>6. QED
  BY <1>4, <1>5

LEMMA DoneStep == DoneInv /\ [Next]_vars => DoneInv'
<1> SUFFICES ASSUME DoneInv, [Next]_vars PROVE DoneInv'
  OBVIOUS
<1>0. AnswerInv /\ AnswerInv'
  BY AnswerStep DEF DoneInv
<1>1. CASE UNCHANGED vars
  BY <1>0, <1>1, NothingComes DEF vars, callVars, sellerVars, DoneInv, ReadBack, Answered, Sought
<1>2. ASSUME NEW w \in WireNames, NEW a \in BOOLEAN, StartCall(w, a) PROVE DoneInv'
  BY <1>0, <1>2, NewCall DEF StartCall, sellerVars, Answered
<1>3. ASSUME NEW a \in BOOLEAN, RefuseRequest(a) PROVE DoneInv'
  BY <1>0, <1>3, NewCall DEF RefuseRequest, sellerVars, Answered
<1>4. CASE Initialize
  <2>1. ReadBack'
    BY <1>4 DEF Initialize, Raise, DoneInv, ReadBack, Answered
  <2>2. QED
    BY <1>0, <1>4, <2>1, NothingComes DEF Initialize, Raise
<1>5. CASE Notify
  <2>1. ReadBack'
    BY <1>5 DEF Notify, Raise, DoneInv, ReadBack, Answered
  <2>2. QED
    BY <1>0, <1>5, <2>1, NothingComes DEF Notify, Raise, sellerVars
<1>6. CASE Send
  <2> DEFINE q == [ n |-> calls, wire |-> wire, authed |-> authed, id |-> rid',
                    session |-> IF wire = "mcp" THEN session ELSE NoSession ]
  <2>1. /\ UNCHANGED << calls, did, resp, reading, owed, wire >>
        /\ pc = "send" /\ pc' = "await" /\ net' = net \cup {q}
        /\ rid' = IF wire = "mcp" THEN lastId + 1 ELSE NoId
    BY <1>6 DEF Send
  <2>2. q.n = calls /\ calls \in Calls
    BY <2>1 DEF DoneInv, SentOnce
  <2>3. \A o \in owed' : o.frame.id # rid'
    BY <1>0, <2>1 DEF AnswerInv
  <2> HIDE DEF q
  <2>4. SentOnce'
    BY <2>1, <2>2, <2>3 DEF DoneInv, SentOnce, Settled
  <2>5. resp' = NoResponse /\ ~Answered'
    BY <1>0, <2>1 DEF AnswerInv, DoneInv, ReadBack, Answered
  <2>6. QED
    BY <1>0, <2>4, <2>5 DEF DoneInv, OneFrame, Backed, ReadBack
<1>7. CASE TimeOut
  <2>1. ReadBack'
    BY <1>7 DEF TimeOut, Raise, ReadBack, Answered
  <2>2. QED
    BY <1>0, <1>7, <2>1, NothingComes DEF TimeOut, Raise, sellerVars
<1>8. CASE Read
  <2>1. ReadBack'
    BY <1>8 DEF Read, ReadBack, Sought
  <2>2. QED
    BY <1>0, <1>8, <2>1, NothingComes DEF Read, sellerVars
<1>9. ASSUME NEW q \in net, SellerActs(q) PROVE DoneInv'
  <2> DEFINE Outcome(r) ==
        \/ Waiting(q) /\ resp' \in Streams(q, r) /\ UNCHANGED owed
        \/ /\ UNCHANGED resp
           /\ owed' = IF q.wire = "mcp"
                        THEN owed \cup {[session |-> q.session, frame |-> r.frames[1]]} ELSE owed
  <2>0. PICK d \in {"done", "failed", "pending"} :
          \E r \in SellerAnswers(q.wire, d, q.n, q.id) :
              did' = [did EXCEPT ![q.n] = d] /\ Outcome(r)
    BY <1>9 DEF SellerActs
  <2>1. PICK r \in SellerAnswers(q.wire, d, q.n, q.id) :
              did' = [did EXCEPT ![q.n] = d] /\ Outcome(r)
    BY <2>0
  <2>2. UNCHANGED << pc, wire, rid, reading, calls >> /\ net' = net \ {q}
    BY <1>9 DEF SellerActs
  <2>3. CASE Waiting(q) /\ resp' \in Streams(q, r) /\ UNCHANGED owed
    BY <1>0, <2>1, <2>2, <2>3, AnswerComes DEF DoneInv
  <2>4. CASE /\ UNCHANGED resp
             /\ owed' = IF q.wire = "mcp"
                          THEN owed \cup {[session |-> q.session, frame |-> r.frames[1]]} ELSE owed
    <3>1. q.wire = "mcp" => r.frames[1].id = q.id
      BY <2>1, OwnFrameReads
    <3>2. q.wire = "mcp" /\ q.id = rid => Settled'
      BY <1>0, <2>2 DEF AnswerInv, DoneInv, SentOnce, Settled
    <3>3. Settled => Settled' /\ did'[calls] = did[calls]
      BY <2>1, <2>2 DEF Settled
    <3>4. SentOnce'
      <4>1. \A o \in owed' : o.frame.id = rid' => Settled'
        BY <2>2, <2>4, <3>1, <3>2, <3>3 DEF DoneInv, SentOnce
      <4>2. QED
        BY <2>1, <2>2, <3>3, <4>1 DEF DoneInv, SentOnce
    <3>5. OneFrame' /\ ReadBack' /\ Backed'
      BY <2>2, <2>4, <3>3 DEF DoneInv, OneFrame, ReadBack, Backed, Sought, Answered
    <3>6. QED
      BY <1>0, <3>4, <3>5 DEF DoneInv
  <2>5. QED
    BY <2>1, <2>3, <2>4
<1>10. ASSUME NEW q \in net, SellerRefuses(q) PROVE DoneInv'
  <2>1. /\ UNCHANGED << pc, wire, rid, reading, calls, did, owed >> /\ net' \subseteq net
        /\ q.wire = "mcp"
    BY <1>10 DEF SellerRefuses
  <2>2. SentOnce' /\ (Settled => Settled')
    BY <2>1 DEF DoneInv, SentOnce, Settled
  <2>3. CASE resp' = resp
    BY <1>0, <2>1, <2>2, <2>3 DEF DoneInv, OneFrame, ReadBack, Backed, Sought, Answered
  <2>4. CASE Waiting(q) /\ resp' = McpResponse(404, << >>)
    <3>1. wire = "mcp" /\ pc = "await" /\ resp'.frames = << >> /\ resp'.status = 404
      BY <1>0, <2>1, <2>4 DEF Waiting, AnswerInv, McpResponse
    <3>2. Sought' = McpExchange(resp', rid)
      BY <2>1, <3>1 DEF Sought, ReadingOf
    <3>3. ~Succeeds(Sought') /\ OneFrame'
      BY <3>1, <3>2, McpReads DEF OneFrame
    <3>4. QED
      BY <1>0, <2>1, <2>2, <3>1, <3>3 DEF DoneInv, Backed, ReadBack, Answered
  <2>5. QED
    BY <1>10, <2>3, <2>4 DEF SellerRefuses
<1>11. CASE GatewayAnswers
  <2>1. PICK g \in Gateway : resp' = GatewayAnswer(wire, g)
    BY <1>11 DEF GatewayAnswers
  <2>2. /\ UNCHANGED << pc, wire, rid, reading, calls, net, did, owed >> /\ pc = "await"
        /\ wire \in WireNames /\ (wire = "mcp" => rid # NoId)
    BY <1>0, <1>11 DEF GatewayAnswers, sellerVars, AnswerInv
  <2>3. NothingForged => ~Succeeds(Sought')
    BY <2>1, <2>2, GatewayFails DEF Sought
  <2>4. OneFrame'
    <3>1. wire = "mcp" => resp'.frames \in { << >>, << Frame(NoId, "other", NoBuy) >> }
      BY <2>1, <2>2, GatewayAnswersOwn
    <3>2. ASSUME NEW i \in DOMAIN resp'.frames, wire = "mcp"
          PROVE  resp'.frames[i].id = NoId
      <4>1. resp'.frames = << Frame(NoId, "other", NoBuy) >>
        BY <3>1, <3>2, AtMostTwo
      <4>2. resp'.frames[i] = Frame(NoId, "other", NoBuy)
        BY <3>2, <4>1, AtMostTwo
      <4>3. QED
        BY <4>2 DEF Frame
    <3>3. QED
      BY <2>2, <3>2 DEF OneFrame
  <2>5. SentOnce' /\ ReadBack'
    BY <2>2 DEF DoneInv, SentOnce, Settled, ReadBack, Answered
  <2>6. QED
    BY <1>0, <2>3, <2>4, <2>5 DEF DoneInv, Backed
<1>12. CASE Forget
  BY <1>0, <1>12, NothingComes DEF Forget, callVars, DoneInv, ReadBack, Answered, Sought
<1>13. QED
  BY <1>1, <1>2, <1>3, <1>4, <1>5, <1>6, <1>7, <1>8, <1>9, <1>10, <1>11, <1>12 DEF Next

LEMMA DoneHolds == Spec => []DoneInv
BY DoneInit, DoneStep, PTL DEF Spec

\* A call read as a success was carried out by the seller, or is held by it for
\* approval (result.py:8-12), whatever pages, errors and late frames come back:
\* all a gateway may not do is to forge a 2xx JSON object on REST.
THEOREM SuccessesAreDone ==
    ASSUME NothingForged
    PROVE  Spec => []SuccessIsDone
<1>1. DoneInv => SuccessIsDone
  BY DEF DoneInv, ReadBack, Backed, SuccessIsDone, Answered, Succeeds, Fit
<1>2. QED
  BY <1>1, DoneHolds, PTL

\* The seller's own answer to a call is read as what the seller did, alike on every
\* wire (result.py:3-4) but for a buy held for approval: A2A cannot classify it
\* (a2a.py:105-122), REST and MCP read a success that names no buy.
THEOREM OutcomesAreRead == Spec => []OutcomeIsRead
<1>1. ASSUME DoneInv PROVE OutcomeIsRead
  <2> DEFINE d == did[calls]
             From(r) == IF wire = "mcp" THEN \E i \in DOMAIN resp.frames : resp.frames[i] = r.frames[1]
                        ELSE resp = r
             Reads(x) == /\ d = "done" => IsSuccess(x) /\ x.media_buy_id = calls
                         /\ d = "failed" => IsError(x)
                         /\ d = "pending" => IF wire = "a2a" THEN IsIndeterminate(x)
                                             ELSE IsSuccess(x) /\ x.media_buy_id = NoBuy
  <2>1. SUFFICES ASSUME Answered, d \in {"done", "failed", "pending"},
                        NEW r \in SellerAnswers(wire, d, calls, rid), From(r)
                 PROVE  Reads(reading)
    <3>1. ASSUME d \notin {"done", "failed", "pending"} PROVE Reads(reading)
      BY <3>1
    <3>2. QED
      BY <3>1 DEF OutcomeIsRead
  <2>2. /\ resp # NoResponse /\ reading = ReadingOf(wire, resp, rid) /\ wire \in WireNames
    BY <1>1, <2>1 DEF DoneInv, ReadBack, Sought, AnswerInv
  <2>3. CASE wire # "mcp"
    <3>1. wire \in {"rest", "a2a"} /\ reading = ReadingOf(wire, r, rid)
      BY <2>1, <2>2, <2>3 DEF WireNames
    <3>2. QED
      BY <2>1, <3>1, OwnAnswerReads
  <2>4. CASE wire = "mcp"
    <3>1. PICK i \in DOMAIN resp.frames : resp.frames[i] = r.frames[1]
      BY <2>1, <2>4
    <3>2. /\ r.frames[1].id = rid
          /\ McpClass(r.frames[1]) = IF d = "failed" THEN "envelope" ELSE "payload"
          /\ r.frames[1].buy = IF d = "done" THEN calls ELSE NoBuy
      BY <2>1, <2>4, OwnFrameReads
    <3>3. /\ resp.status = 200
          /\ \A j \in DOMAIN resp.frames : resp.frames[j].id = rid => j = i
      BY <1>1, <2>2, <2>4, <3>1, <3>2 DEF DoneInv, OneFrame
    <3>4. DOMAIN resp.frames \in SUBSET (1 .. 2)
      BY <1>1, <2>2, <2>4 DEF DoneInv, AnswerInv, OwnResp
    <3>5. McpExchange(resp, rid) = Classified(200, McpClass(r.frames[1]), r.frames[1].buy)
      BY <3>1, <3>2, <3>3, <3>4, McpReads
    <3>6. reading = Classified(200, McpClass(r.frames[1]), r.frames[1].buy)
      BY <2>2, <2>4, <3>5 DEF ReadingOf
    <3>7. CASE d # "failed"
      <4>1. reading = Classified(200, "payload", IF d = "done" THEN calls ELSE NoBuy)
        BY <3>2, <3>6, <3>7
      <4>2. IsSuccess(reading) /\ reading.media_buy_id = IF d = "done" THEN calls ELSE NoBuy
        BY <4>1, ClassifiedAs DEF IsSuccess, IsError, HttpFailed
      <4>3. QED
        BY <2>4, <3>7, <4>2
    <3>8. CASE d = "failed"
      <4>1. reading = Classified(200, "envelope", r.frames[1].buy)
        BY <3>2, <3>6, <3>8
      <4>2. QED
        BY <3>8, <4>1, ClassifiedAs DEF IsError
    <3>9. QED
      BY <3>7, <3>8
  <2>5. QED
    BY <2>3, <2>4
<1>2. QED
  BY <1>1, DoneHolds, PTL
-----------------------------------------------------------------------------
(* Types.  What a client reads depends on all it was sent, so the type of a *)
(* reading rests on the invariants above.                                   *)

TypeInv == DoneInv /\ SessionInv /\ TypeOK /\ (resp # NoResponse => resp.status \in Nat)

LEMMA TypeInit == Init => TypeInv
BY DoneInit, SessionInit DEF Init, TypeInv, TypeOK, WireNames, Calls

LEMMA ClassifiedTyped ==
    ASSUME NEW status \in Nat, NEW class, NEW buy,
           LET x == Classified(status, class, buy)
           IN  x.wire_response => x.media_buy_id \in Calls \cup {NoBuy}
    PROVE  Classified(status, class, buy) \in Exchanges
<1>1. CASE class = "payload"
  BY <1>1, ClassifiedAs DEF Classified, Exchanges
<1>2. CASE class # "payload"
  BY <1>2 DEF Classified, Exchanges
<1>3. QED
  BY <1>1, <1>2

LEMMA RestTyped ==
    ASSUME NEW r, r.status \in Nat,
           RestExchange(r).wire_response => RestExchange(r).media_buy_id \in Calls \cup {NoBuy}
    PROVE  RestExchange(r) \in Exchanges
<1> DEFINE redirect == r.status \in 300..399
           payload  == ~redirect /\ r.kind = "object"
           envelope == redirect \/ r.kind = "envelope"
           buy      == IF payload THEN r.buy ELSE NoBuy
<1>1. RestExchange(r) = [ status_code |-> r.status, wire_error_envelope |-> envelope,
                          wire_response |-> payload, media_buy_id |-> buy ]
  BY DEF RestExchange
<1>2. envelope \in BOOLEAN /\ payload \in BOOLEAN
  OBVIOUS
<1>3. buy \in Calls \cup {NoBuy}
  <2>1. RestExchange(r).wire_response = payload /\ RestExchange(r).media_buy_id = buy
    BY <1>1
  <2>2. CASE payload
    <3> HIDE DEF payload, buy
    <3>1. RestExchange(r).wire_response
      BY <2>1, <2>2, Zenon
    <3>2. QED
      BY <2>1, <3>1
  <2>3. CASE ~payload
    BY <2>3
  <2>4. QED
    BY <2>2, <2>3
<1> HIDE DEF redirect, payload, envelope, buy
<1>4. QED
  BY <1>1, <1>2, <1>3 DEF Exchanges

\* What a client reads is an Exchange, or reading it raises.
LEMMA ReadingTyped ==
    ASSUME TypeInv, pc = "await", resp # NoResponse
    PROVE  Sought \in Exchanges \cup {Raised}
<1>1. wire \in WireNames /\ calls \in Calls /\ AnswerInv /\ resp.status \in Nat
  BY DEF TypeInv, DoneInv, SentOnce, AnswerInv
<1>2. Sought # Raised /\ Sought.wire_response => Sought.media_buy_id \in Calls \cup {NoBuy}
  BY <1>1, ReadOwn DEF Sought, Own
<1>3. \/ Sought = Raised
      \/ wire = "rest" /\ Sought = RestExchange(resp)
      \/ \E class, buy : Sought = Classified(resp.status, class, buy)
  <2>1. CASE wire = "rest"
    BY <2>1 DEF Sought, ReadingOf
  <2>2. CASE wire = "mcp"
    <3> DEFINE own == FramesFor(resp.frames, rid)
               f   == resp.frames[CHOOSE i \in own : \A j \in own : i <= j]
    <3>1. Sought = McpExchange(resp, rid)
      BY <2>2 DEF Sought, ReadingOf
    <3>2. McpExchange(resp, rid) \in { Classified(resp.status, "none", NoBuy),
                                      Classified(resp.status, McpClass(f), f.buy) }
      BY DEF McpExchange
    <3>3. QED
      BY <3>1, <3>2
  <2>3. CASE wire = "a2a"
    <3>1. Sought = A2aExchange(resp)
      BY <2>3 DEF Sought, ReadingOf
    <3>2. A2aExchange(resp) \in { Raised, Classified(resp.status, "envelope", NoBuy),
                                 Classified(resp.status, "none", NoBuy),
                                 Classified(resp.status, DataPart(resp.parts).kind, DataPart(resp.parts).buy) }
      BY DEF A2aExchange
    <3>3. QED
      BY <3>1, <3>2
  <2>4. QED
    BY <1>1, <2>1, <2>2, <2>3 DEF WireNames
<1>4. QED
  BY <1>1, <1>2, <1>3, RestTyped, ClassifiedTyped

\* Answers have a status.
LEMMA StatusTyped ==
    /\ \A w \in WireNames, g \in Gateway : GatewayAnswer(w, g).status \in Nat
    /\ \A w \in {"rest", "a2a"}, d \in {"done", "failed", "pending"} : \A n, id :
         \A r \in SellerAnswers(w, d, n, id) : r.status \in Nat
<1>1. ASSUME NEW w \in WireNames, NEW g \in Gateway
      PROVE  GatewayAnswer(w, g).status \in Nat
  BY DEF GatewayAnswer, Response, McpResponse, A2aResponse, WireNames
<1>2. ASSUME NEW w \in {"rest", "a2a"}, NEW d \in {"done", "failed", "pending"}, NEW n, NEW id,
             NEW r \in SellerAnswers(w, d, n, id)
      PROVE  r.status \in Nat
  <2>1. CASE w = "rest"
    BY <1>2, <2>1 DEF SellerAnswers, Response
  <2>2. CASE w = "a2a"
    BY <1>2, <2>2 DEF SellerAnswers, A2aResponse
  <2>3. QED
    BY <2>1, <2>2
<1>3. QED
  BY <1>1, <1>2

LEMMA TypeStep == TypeInv /\ [Next]_vars => TypeInv'
<1> SUFFICES ASSUME TypeInv, [Next]_vars PROVE TypeInv'
  OBVIOUS
<1>0. DoneInv' /\ SessionInv' /\ TypeOK /\ SessionInv
  BY DoneStep, SessionStep DEF TypeInv
<1> DEFINE StatusOK == resp # NoResponse => resp.status \in Nat
<1>1. CASE UNCHANGED vars
  BY <1>0, <1>1 DEF TypeInv, TypeOK, vars, callVars, mcpVars, sellerVars
<1>2. ASSUME NEW w \in WireNames, NEW a \in BOOLEAN, StartCall(w, a) PROVE TypeInv'
  <2>1. calls' \in 0 .. MaxCalls /\ resp' = NoResponse
    BY <1>0, <1>2 DEF StartCall, Begin, TypeOK
  <2>2. QED
    BY <1>0, <1>2, <2>1 DEF StartCall, Begin, TypeInv, TypeOK, sellerVars
<1>3. ASSUME NEW a \in BOOLEAN, RefuseRequest(a) PROVE TypeInv'
  <2>1. calls' \in 0 .. MaxCalls /\ resp' = NoResponse
    BY <1>0, <1>3 DEF RefuseRequest, Begin, TypeOK
  <2>2. QED
    BY <1>0, <1>3, <2>1 DEF RefuseRequest, Begin, TypeInv, TypeOK, mcpVars, sellerVars, WireNames
<1>4. CASE Initialize
  <2>1. /\ lastId' \in Nat /\ UNCHANGED << wire, authed, rid, resp, calls, net, did, forgets, refused >>
        /\ pc' \in {"idle", "notify", "send"} /\ reading' \in {reading, Raised}
        /\ posture' \in {posture, authed, NoSession}
    BY <1>0, <1>4 DEF Initialize, Raise, TypeOK
  <2>2. minted' \in Seq(BOOLEAN) /\ DOMAIN minted \subseteq DOMAIN minted' /\ live' \subseteq DOMAIN minted'
    <3>1. CASE minted' = Append(minted, authed) /\ live' = live \cup {Len(minted')}
      BY <1>0, <3>1 DEF TypeOK
    <3>2. CASE UNCHANGED << minted, live >>
      BY <1>0, <3>2 DEF TypeOK
    <3>3. QED
      BY <1>4, <3>1, <3>2 DEF Initialize
  <2>3. session' \in DOMAIN minted' \cup {NoSession}
    BY <1>0 DEF SessionInv
  <2>4. QED
    BY <1>0, <2>1, <2>2, <2>3 DEF TypeInv, TypeOK
<1>5. CASE Notify
  BY <1>0, <1>5 DEF Notify, Raise, TypeInv, TypeOK, mcpVars, sellerVars
<1>6. CASE Send
  <2> DEFINE q == [ n |-> calls, wire |-> wire, authed |-> authed, id |-> rid',
                    session |-> IF wire = "mcp" THEN session ELSE NoSession ]
  <2>1. /\ UNCHANGED << wire, authed, resp, reading, calls, session, posture, did, minted,
                        live, forgets, refused >>
        /\ pc' = "await" /\ net' = net \cup {q} /\ rid' \in Nat /\ lastId' \in Nat
    BY <1>0, <1>6 DEF Send, TypeOK
  <2>2. calls \in Calls
    BY <1>6 DEF Send, TypeInv, DoneInv, SentOnce
  <2>3. q \in [ n : Calls, wire : WireNames, authed : BOOLEAN, id : Nat,
                session : DOMAIN minted \cup {NoSession} ]
    BY <1>0, <2>1, <2>2 DEF TypeOK
  <2> HIDE DEF q
  <2>4. QED
    BY <1>0, <2>1, <2>3 DEF TypeInv, TypeOK
<1>7. CASE TimeOut
  BY <1>0, <1>7 DEF TimeOut, Raise, TypeInv, TypeOK, mcpVars, sellerVars
<1>8. CASE Read
  <2>1. /\ UNCHANGED << wire, authed, rid, resp, calls, lastId, sellerVars >>
        /\ pc' = "idle" /\ posture' \in {posture, NoSession}
        /\ reading' \in Exchanges \cup {Raised}
    BY <1>8, ReadingTyped DEF Read, Sought
  <2>2. /\ session' \in DOMAIN minted' \cup {NoSession} /\ refused' \subseteq DOMAIN minted'
    BY <1>0 DEF SessionInv
  <2>3. QED
    BY <1>0, <2>1, <2>2 DEF TypeInv, TypeOK, sellerVars
<1>9. ASSUME NEW q \in net, SellerActs(q) PROVE TypeInv'
  <2>1. PICK d \in {"done", "failed", "pending"} : \E r \in SellerAnswers(q.wire, d, q.n, q.id) :
          did' = [did EXCEPT ![q.n] = d] /\ (resp' = resp \/ resp' \in Streams(q, r))
    BY <1>9 DEF SellerActs
  <2>2. PICK r \in SellerAnswers(q.wire, d, q.n, q.id) :
          did' = [did EXCEPT ![q.n] = d] /\ (resp' = resp \/ resp' \in Streams(q, r))
    BY <2>1
  <2>3. StatusOK'
    <3>1. CASE resp' = resp
      BY <3>1 DEF TypeInv
    <3>2. CASE resp' \in Streams(q, r) /\ q.wire = "mcp"
      BY <3>2 DEF Streams, McpResponse
    <3>3. CASE resp' \in Streams(q, r) /\ q.wire # "mcp"
      <4>1. resp' = r /\ q.wire \in {"rest", "a2a"}
        BY <1>0, <3>3 DEF Streams, TypeOK, WireNames
      <4>2. QED
        BY <2>2, <4>1, StatusTyped
    <3>4. QED
      BY <2>2, <3>1, <3>2, <3>3
  <2>4. QED
    BY <1>0, <1>9, <2>2, <2>3 DEF SellerActs, TypeInv, TypeOK, mcpVars
<1>10. ASSUME NEW q \in net, SellerRefuses(q) PROVE TypeInv'
  <2>1. StatusOK'
    BY <1>10 DEF SellerRefuses, McpResponse, TypeInv
  <2>2. QED
    BY <1>0, <1>10, <2>1 DEF SellerRefuses, TypeInv, TypeOK, mcpVars
<1>11. CASE GatewayAnswers
  <2>1. StatusOK'
    BY <1>0, <1>11, StatusTyped DEF GatewayAnswers, TypeOK
  <2>2. QED
    BY <1>0, <1>11, <2>1 DEF GatewayAnswers, TypeInv, TypeOK, mcpVars, sellerVars
<1>12. CASE Forget
  BY <1>0, <1>12 DEF Forget, TypeInv, TypeOK, callVars, mcpVars
<1>13. QED
  BY <1>1, <1>2, <1>3, <1>4, <1>5, <1>6, <1>7, <1>8, <1>9, <1>10, <1>11, <1>12 DEF Next

\* Every variable of the clients, the seller and the wire stays in its type,
\* for any number of calls and any gateway.
THEOREM WiresTyped == Spec => []TypeOK
<1>1. TypeInv => TypeOK
  BY DEF TypeInv
<1>2. QED
  BY <1>1, TypeInit, TypeStep, PTL DEF Spec
=============================================================================
