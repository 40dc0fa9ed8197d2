------------------------------ MODULE MCHttpDo ------------------------------
(***************************************************************************)
(* One exchange, from what the caller asks for to what it is told.         *)
(* Answers: body sizes around the cap and connections that break at every  *)
(* byte, with plain bodies; every shape of error body, and every form of a *)
(* success, delivered whole.  Requests: cells maps, columns and table      *)
(* names, whose encodings do not depend on how the exchange goes.          *)
(***************************************************************************)
EXTENDS Answers, Cells, PathEscape, Columns, FiniteSets

CONSTANTS Statuses, MaxSize, Ids, Values, MaxPieces

ASSUME MaxSizeAssumption == MaxSize \in Nat /\ MaxPieces \in Nat

\* Column ids are numbers of bounded width.
ASSUME IdsAssumption == Ids \subseteq Int /\ IsFiniteSet(Ids)

VARIABLES
  ask,    \* what the caller wants encoded
  x,      \* the exchange
  told    \* what was sent of it and what the caller got

vars == <<ask, x, told>>

-----------------------------------------------------------------------------
Plain(text) ==
  [lead |-> "none", object |-> FALSE, text |-> text, nested |-> Undecodable, flat |-> Undecodable]

Deliveries ==
  {e \in [encodes : BOOLEAN, builds : BOOLEAN, replied : BOOLEAN, status : Statuses,
          size : 0..MaxSize, got : 0..MaxSize, body : {Plain("plain"), Plain("not found:")},
          form : {"garbled"}, ended : BOOLEAN] :
     e.got <= e.size}

WholeAnswers ==
  [encodes : {TRUE}, builds : {TRUE}, replied : {TRUE}, status : Statuses,
   size : {MaxResponseBytes}, got : {MaxResponseBytes}, body : Bodies,
   form : {"garbled"}, ended : {FALSE}]

Successes ==
  [encodes : {TRUE}, builds : {TRUE}, replied : {TRUE}, status : {200, 307},
   size : {MaxResponseBytes}, got : {MaxResponseBytes}, body : {Plain("plain")},
   form : Forms, ended : BOOLEAN]

\* U+0161, whose low byte is that of 'a'; U+20AC; U+1F600.
SomeRunes == {<<197, 161>>, <<226, 130, 172>>, <<240, 159, 152, 128>>}

\* ASCII, whole and broken encodings, and a byte UTF-8 never has.
Pieces == {<<97>>, <<47>>, <<37>>, <<197>>, <<161>>, <<226, 130>>, <<255>>} \union SomeRunes
Names == {FlattenSeq(p) : p \in UNION {[1..n -> Pieces] : n \in 0..MaxPieces}}
CellsMaps == UNION {[ids -> Values] : ids \in SUBSET Ids}

NoCells == <<>>
NoColumn == [f \in {"DefaultValue", "DefaultValueJSON", "DefaultExpr", "EnumVariants",
                    "EmbeddingSource"} |-> Unset]
NoAsk == [cells |-> NoCells, column |-> NoColumn, name |-> <<>>]

Asks ==
  {[NoAsk EXCEPT !.cells = c] : c \in CellsMaps} \union
  {[NoAsk EXCEPT !.column = c] : c \in Columns} \union
  {[NoAsk EXCEPT !.name = n] : n \in Names}

Init ==
  /\ \/ ask \in Asks /\ x \in {e \in Successes : e.form = "value" /\ e.status = 200 /\ ~e.ended}
     \/ ask = NoAsk /\ x \in Deliveries \union WholeAnswers \union Successes
  /\ told = [done |-> FALSE]

\* What each call that reads returns of the exchange.
AnswersOf(e) ==
  [TableNames |-> TableNames(e), HistoryRetention |-> DecodeHistoryRetention(e),
   CreateTable |-> CreateTable(e, 1), Count |-> Count(e), Schema |-> Schema(e),
   SchemaFor |-> SchemaFor(e), Compact |-> PostDecode(e), QueryStatus |-> QueryStatus(e, "q"),
   CancelQuery |-> CancelQuery(e, "q"),
   Search |-> Hits(e), RetrieveText |-> RetrieveText(e, "t", "a")]

RoundTrip ==
  /\ ~told.done
  /\ \E order \in RangeOrders(ask.cells) :
       told' =
         [done    |-> TRUE,
          flat    |-> FlattenCells(ask.cells, order),
          segment |-> Escape(ask.name),
          column  |-> MarshalJSON(ask.column),
          outcome |-> Do(x),
          err     |-> IF ~Do(x).ok /\ Do(x).kind = "response"
                      THEN NewResponseError(x.status, x.body) ELSE Nil,
          answers |-> AnswersOf(x),
          dropped |-> DropTable(x),
          rows    |-> SQL(x),
          health  |-> Health(x)]
  /\ UNCHANGED <<ask, x>>

Spec == Init /\ [][RoundTrip]_vars

IsError == told.done /\ told.err # Nil

-----------------------------------------------------------------------------
\* The wire array does not depend on the iteration order of the Go map
\* (flattenCells, client.go:621-625): one map, one array.
OrderIndependent ==
  Cardinality({FlattenCells(ask.cells, order) : order \in RangeOrders(ask.cells)}) = 1

\* Nothing is lost, added or attached to another column: read back as the
\* daemon reads it, the array is exactly the map (flattenCells, client.go:635-638).
KeepsEveryCell ==
  told.done =>
    /\ Len(told.flat) = 2 * Cardinality(DOMAIN ask.cells)
    /\ PairsOf(told.flat) = {<<id, ask.cells[id]>> : id \in DOMAIN ask.cells}

\* A table name stays one path segment and the daemon reads that name from it,
\* whatever runes the name has, unless its bytes are no text. What a server or a
\* proxy makes of the names `.` and `..`, which are sent as they are, is not said
\* (urlPathEscape, client.go:677-704).
PathNamesTheTable ==
  told.done =>
    /\ \A i \in DOMAIN told.segment : told.segment[i] \in Unreserved \union {Percent}
    /\ IsUTF8(ask.name) => Unescape(told.segment) = ask.name

\* The daemon sees one default if the caller set any, and none otherwise, also
\* when several were set or the default is a zero value (MarshalJSON,
\* client.go:107-123).
OneDefault ==
  told.done =>
    LET set == {f \in {"DefaultValue", "DefaultValueJSON", "DefaultExpr"} : ask.column[f] # Unset}
        sent == {"default_value", "default_expr"} \intersect DOMAIN told.column
    IN  /\ Cardinality(sent) = IF set = {} THEN 0 ELSE 1
        /\ \A s \in sent : told.column[s] \in {ask.column[f] : f \in set}

\* A caller never works on a part of an answer: bytes are returned only if the
\* status is 2xx and they are the whole body, within the cap (do,
\* client.go:571-584).
SuccessIsWhole ==
  told.done /\ told.outcome.ok =>
    IsSuccess(x.status) /\ told.outcome.bytes = x.size /\ x.size <= MaxResponseBytes

\* A body of exactly MaxResponseBytes is not oversized: a whole 2xx answer
\* within the cap is returned (do, client.go:577-584).
WholeIsSuccess ==
  told.done /\ x.encodes /\ x.builds /\ x.replied /\ IsSuccess(x.status)
            /\ x.got = x.size /\ x.size <= MaxResponseBytes => told.outcome.ok

\* A definite refusal comes from a daemon's answer that arrived whole, never from
\* a transport failure, a cut body or an oversized one (do, client.go:565-583).
RefusalIsAnswered ==
  told.done /\ ~told.outcome.ok
            /\ told.outcome.sentinel \in {"ErrAuth", "ErrNotFound", "ErrConflict"} =>
    x.replied /\ ~IsSuccess(x.status) /\ x.got = x.size /\ x.size <= MaxResponseBytes

\* What SECURITY.md and docs/errors.md say of failures: network errors are mapped
\* to the typed hierarchy, ErrQuery covering transport failures, so the error of
\* every request that was sent wraps one of the sentinels.
NetworkErrorsAreTyped ==
  told.done /\ ~told.outcome.ok /\ x.encodes /\ x.builds => told.outcome.sentinel # "none"

\* The two ways a caller may classify an error agree: the sentinel errors.Is
\* finds is the one of the Status errors.As reads (newResponseError,
\* errors.go:84-111), also when a message overrides the daemon's status.
SentinelFitsStatus == IsError => told.err.sentinel = SentinelOf(told.err.status)

\* An error's message is never empty, whatever the body was: an empty body, an
\* envelope with a code and no message (errors.go:95-107).
MessageNeverEmpty == IsError => told.err.message # ""

\* The operation the daemon blames is never lost: when the envelope names one,
\* the error names it too, with the envelope's code, even if the same object
\* has flat fields (decodeErrorEnvelope, errors.go:132-143).
BlamedOperationSurvives ==
  IsError /\ x.body.lead # "bom" /\ x.body.nested # Undecodable =>
    (x.body.nested.opIndex # Nil =>
       told.err.opIndex = x.body.nested.opIndex /\ told.err.code = x.body.nested.code)

\* No call but SQL reports an answer the daemon did not give: a value was in a
\* whole 2xx body, and "nothing" (no tables, a count of 0, an empty schema) is
\* never a garbled body, one of the wrong type or a failure (client.go:212-335,
\* 451-516; durable.go:94-128; search.go:188-213; retrieve_text.go:49-64).
AnswerIsTheDaemons ==
  told.done => \A call \in DOMAIN told.answers :
    told.answers[call].ok =>
      /\ IsSuccess(x.status) /\ x.replied /\ x.got = x.size
      /\ x.form \in IF told.answers[call].says = "value"
                    THEN {"value", "trailing"} ELSE {"lacks", "null", "empty"}

\* For a statement without rows "success is the signal" (docs/sql.md:24-25): SQL
\* returns no error exactly when a whole 2xx answer arrived, a status text
\* included, and the rows when the answer had rows (SQL, client.go:426-446).
SQLSuccessIsTheSignal ==
  told.done =>
    /\ told.rows.ok <=> told.outcome.ok
    /\ told.rows.ok /\ x.form = "value" => told.rows = Value

\* Health says "healthy" exactly for a whole 2xx answer, even if the context
\* ends meanwhile, and has an error only when the context ended (Health,
\* client.go:197-209).
HealthIsTheAnswer ==
  told.done =>
    /\ told.health.healthy <=> told.outcome.ok
    /\ told.health.err # "none" => x.ended /\ ~told.health.healthy

\* What docs/auth.md says of Health and of every call: a missing or wrong token
\* surfaces as an error wrapping ErrAuth.
HealthSurfacesAuth ==
  told.done /\ ~told.outcome.ok /\ told.outcome.sentinel = "ErrAuth" => told.health.err # "none"
=============================================================================
