------------------------------- MODULE HttpDo -------------------------------
(***************************************************************************)
(* Client.do, the one function every call goes through: it encodes the     *)
(* request, runs it over net/http, reads a bounded amount of the body and  *)
(* classifies the outcome.  One HTTP exchange is a record of everything    *)
(* the outcome depends on:                                                 *)
(*                                                                         *)
(*   encodes  json.Marshal accepted the request body                       *)
(*   builds   http.NewRequestWithContext accepted URL and context          *)
(*   replied  http.Client.Do returned a response: no dial error, timeout,  *)
(*            cancellation or broken connection before the headers         *)
(*   status   the status code of the response                              *)
(*   size     the length of the response body as the daemon sent it        *)
(*   got      how many of its bytes arrive before the connection fails;    *)
(*            got = size when it does not fail                             *)
(*   body     the body, as ResponseErrors looks at it                      *)
(***************************************************************************)
EXTENDS ResponseErrors

CONSTANT MaxResponseBytes   \* 256 MB in the code; any bound will do here

ASSUME MaxResponseBytesAssumption == MaxResponseBytes \in Nat

ErrorKinds == {"encode", "build", "transport", "read", "oversize", "response", "decode"}

(***************************************************************************)
(* The two ways a call ends.  An error carries the sentinel errors.Is      *)
(* finds in it, "none" for an error that wraps no sentinel.                *)
(***************************************************************************)
Failed(kind, sentinel) == [ok |-> FALSE, kind |-> kind, sentinel |-> sentinel]
Returned(n) == [ok |-> TRUE, bytes |-> n]

-----------------------------------------------------------------------------
\* A plausible slip: the reader stops at the cap instead of one byte past it.
ReadLimitAtCap == MaxResponseBytes

\* io.LimitReader(resp.Body, MaxResponseBytes+1)
ReadLimit == MaxResponseBytes + 1

\* How many bytes io.ReadAll returns, and whether it met an error: a connection
\* that fails at the limit or beyond is never noticed.
BytesRead(x) == IF x.got > ReadLimit THEN ReadLimit ELSE x.got

\* A plausible slip: the error of io.ReadAll is dropped.
ReadFailsIgnored(x) == FALSE

ReadFails(x) == x.got < x.size /\ x.got < ReadLimit

\* A plausible slip: a body of exactly the cap is refused.
OversizedAtCap(x) == BytesRead(x) >= MaxResponseBytes

Oversized(x) == BytesRead(x) > MaxResponseBytes

IsSuccess(status) == status \in 200..299

\* A plausible slip: only client and server errors are treated as failures.
StatusFailsFrom400(status) == status >= 400

StatusFails(status) == status \notin 200..299

(***************************************************************************)
(* Client.do.  The steps fail in this order: encoding, building, the round *)
(* trip, reading, the size cap, and only then the status.                  *)
(***************************************************************************)
Do(x) ==
  CASE ~x.encodes -> Failed("encode", "none")
    [] x.encodes /\ ~x.builds -> Failed("build", "none")
    [] x.encodes /\ x.builds /\ ~x.replied -> Failed("transport", "none")
    [] OTHER ->
         CASE ReadFails(x) -> Failed("read", "none")
           [] ~ReadFails(x) /\ Oversized(x) -> Failed("oversize", "ErrQuery")
           [] ~ReadFails(x) /\ ~Oversized(x) /\ StatusFails(x.status) ->
                Failed("response", NewResponseError(x.status, x.body).sentinel)
           [] OTHER -> Returned(BytesRead(x))
=============================================================================
