--------------------------- MODULE ResponseErrors ---------------------------
(***************************************************************************)
(* How the client turns a non-2xx answer into a typed error: errors.go.    *)
(* newResponseError looks at the HTTP status and at the body, and of the   *)
(* body only at a handful of facts, which are the fields of a Body here:   *)
(*                                                                         *)
(*   lead    what precedes the first significant byte                      *)
(*   object  whether that byte is an opening brace                         *)
(*   nested  what the object unmarshals to as {"error": {...}}             *)
(*   flat    what the object unmarshals to as {"message":..., "code":...}  *)
(*   text    the whole body read as a message                              *)
(***************************************************************************)
EXTENDS Naturals

CONSTANTS
  Undecodable,  \* json.Unmarshal reported an error
  Nil,          \* a nil *int: the envelope names no operation
  Codes,        \* non-empty structured codes, e.g. UNIQUE_VIOLATION
  OpIndexes     \* operation indexes an envelope may name

(***************************************************************************)
(* Messages by what the code asks of them: is it empty, and does it begin  *)
(* with "not found:" once trimmed.  A blank message is white space only.   *)
(***************************************************************************)
Texts == {"", "blank", "plain", "not found:"}

Fields == [message : Texts, code : Codes \union {""}, opIndex : OpIndexes \union {Nil}]

\* A body that starts with a brace is neither empty nor plain text; one that
\* does not holds no object; only white space is blank.
IsBody(b) ==
  /\ b.object => b.text = "plain"
  /\ ~b.object => b.nested = Undecodable /\ b.flat = Undecodable
  /\ b.lead = "bom" => b.text = "plain"
  /\ b.text = "" => b.lead = "none"
  /\ b.text = "blank" => b.lead = "space"

Bodies ==
  {b \in [lead : {"none", "space", "bom"}, object : BOOLEAN, text : Texts,
          nested : Fields \union {Undecodable}, flat : Fields \union {Undecodable}] : IsBody(b)}

Sentinels == {"ErrAuth", "ErrNotFound", "ErrConflict", "ErrQuery"}

NotEnvelope == [ok |-> FALSE]
Envelope(f) == [ok |-> TRUE, fields |-> f]

-----------------------------------------------------------------------------
(***************************************************************************)
(* The scan over leading white space, then the test for a brace.  Only     *)
(* ' ', tab, newline and return are skipped, so a byte-order mark stops    *)
(* the scan and is not a brace.                                            *)
(***************************************************************************)
StartsObject(b) == b.lead # "bom" /\ b.object

(***************************************************************************)
(* json.Unmarshal(body, &nested) and json.Unmarshal(body, &flat): white    *)
(* space in front of the object is legal JSON, a byte-order mark is not.   *)
(***************************************************************************)
Unmarshal(b, target) == IF b.lead = "bom" THEN Undecodable ELSE b[target]

NestedFound(b) ==
  LET f == Unmarshal(b, "nested")
  IN  f # Undecodable /\ (f.message # "" \/ f.code # "" \/ f.opIndex # Nil)

FlatFound(b) ==
  LET f == Unmarshal(b, "flat")
  IN  f # Undecodable /\ (f.message # "" \/ f.code # "")

\* The flat form never carries an operation index.
FlatFields(b) == [Unmarshal(b, "flat") EXCEPT !.opIndex = Nil]

\* A plausible slip: the flat form is tried first and wins over the nested one.
PreferredFlat(b) == IF FlatFound(b) THEN FlatFields(b) ELSE Unmarshal(b, "nested")

\* The daemon's nested envelope wins.
Preferred(b) == IF NestedFound(b) THEN Unmarshal(b, "nested") ELSE FlatFields(b)

DecodeErrorEnvelope(b) ==
  IF StartsObject(b) /\ (NestedFound(b) \/ FlatFound(b)) THEN Envelope(Preferred(b)) ELSE NotEnvelope

\* A plausible slip: whatever is not a 401, 403 or 404 counts as a conflict.
SentinelOfLumps(status) ==
  CASE status \in {401, 403} -> "ErrAuth"
    [] status = 404 -> "ErrNotFound"
    [] OTHER -> "ErrConflict"

SentinelOf(status) ==
  CASE status \in {401, 403} -> "ErrAuth"
    [] status = 404 -> "ErrNotFound"
    [] status = 409 -> "ErrConflict"
    [] OTHER -> "ErrQuery"

\* What the daemon said: the envelope's fields, or the raw body as a message.
Said(b) ==
  LET envelope == DecodeErrorEnvelope(b)
  IN  IF envelope.ok
      THEN envelope.fields
      ELSE [message |-> b.text, code |-> "", opIndex |-> Nil]

IsNotFound(said) == said.message = "not found:"

\* A plausible slip: the override rewrites the sentinel and forgets the status.
StatusKept(status, said) == status

StatusSaid(status, said) == IF IsNotFound(said) THEN 404 ELSE status

\* A plausible slip: no default message when the daemon gave none.
MessageOrNone(said) == said.message

MessageOrDefault(said) == IF said.message = "" THEN "default" ELSE said.message

(***************************************************************************)
(* newResponseError.  A message that begins with "not found:" overrides    *)
(* both the status and the sentinel, whatever the daemon answered.         *)
(***************************************************************************)
NewResponseError(status, b) ==
  LET said == Said(b)
  IN  [status   |-> StatusSaid(status, said),
       message  |-> MessageOrDefault(said),
       code     |-> said.code,
       opIndex  |-> said.opIndex,
       sentinel |-> IF IsNotFound(said) THEN "ErrNotFound" ELSE SentinelOf(status)]
=============================================================================
