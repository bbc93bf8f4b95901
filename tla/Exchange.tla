------------------------------ MODULE Exchange ------------------------------
(***************************************************************************)
(* One HTTP answer to create_media_buy on the REST wire, the Exchange the  *)
(* REST transport turns it into (core/transports/rest.py), and the three   *)
(* readings an Exchange allows (core/result.py): success, error and        *)
(* indeterminate.                                                          *)
(*                                                                         *)
(* A body is abstracted to what the classification looks at: an AdCP error *)
(* envelope, a JSON object without one, or anything else (HTML, an empty   *)
(* body, a JSON array).  Of an object only the media buy it names matters. *)
(***************************************************************************)
EXTENDS Naturals

CONSTANT NoBuy      \* the body names no media buy

\* What comes back over the wire; kind is "envelope", "object" or "other".
\* The REST client has a status for every answer; a call without an answer
\* raises and never becomes an Exchange.
Response(status, kind, buy) == [status |-> status, kind |-> kind, buy |-> buy]

\* RestTransport.call: a redirect is recorded as an envelope whatever its body
\* says; otherwise the body is an envelope, a payload, or unclassified.
RestExchange(r) ==
    LET redirect == r.status \in 300..399
        payload  == ~redirect /\ r.kind = "object"
    IN  [ status_code         |-> r.status,
          wire_error_envelope |-> redirect \/ r.kind = "envelope",
          wire_response       |-> payload,
          media_buy_id        |-> IF payload THEN r.buy ELSE NoBuy ]

\* Exchange.http_failed
HttpFailed(x) == x.status_code \notin 200..299

\* Mutant: only an envelope is an error.
IsErrorByEnvelope(x) == x.wire_error_envelope

\* Exchange.is_error: an envelope, or an HTTP failure whatever the body.
IsError(x) == x.wire_error_envelope \/ HttpFailed(x)

\* Exchange.is_success: the wire positively returned a payload.
IsSuccess(x) == ~IsError(x) /\ x.wire_response

\* Exchange.is_indeterminate: 2xx with nothing readable in it.
IsIndeterminate(x) == ~IsSuccess(x) /\ ~IsError(x)
=============================================================================
