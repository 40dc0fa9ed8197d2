------------------------------ MODULE Answers ------------------------------
(***************************************************************************)
(* What the calls that read make of an exchange. All of them go through do *)
(* and then decode the body, but they differ in whether an empty body is   *)
(* an answer and in what may follow the value they want.  An exchange has  *)
(* two more fields here:                                                   *)
(*                                                                         *)
(*   form   what a whole 2xx body is to the decoder of the call            *)
(*   ended  the context of the call has ended when do returns              *)
(***************************************************************************)
EXTENDS HttpDo

(***************************************************************************)
(*   value     one JSON value of the type the call decodes                 *)
(*   trailing  such a value with more bytes behind it                      *)
(*   lacks     an object without the field the call looks for              *)
(*   null, empty, blank (white space only)                                 *)
(*   other     a JSON value of another type; garbled: no JSON              *)
(***************************************************************************)
Forms == {"value", "trailing", "lacks", "null", "empty", "blank", "other", "garbled"}

\* json.Unmarshal wants one value and nothing behind it.
OneValue == {"value", "lacks", "null"}

\* json.Decoder.Decode stops behind the first value.
FirstValue == OneValue \union {"trailing"}

Value == [ok |-> TRUE, says |-> "value"]
Nothing == [ok |-> TRUE, says |-> "nothing"]

\* A missing field, null or an accepted empty body leave a zero value behind,
\* or an empty map or slice.
Decoded(form) == IF form \in {"value", "trailing"} THEN Value ELSE Nothing

Read(x, accepted) ==
  IF ~Do(x).ok THEN Do(x)
  ELSE IF x.form \in accepted THEN Decoded(x.form) ELSE Failed("decode", "none")

\* A call that is refused before anything is sent.
Misused == Failed("usage", "none")

-----------------------------------------------------------------------------
\* A list of names; an object is none.
TableNames(x) == Read(x, {"value", "null", "empty"})

\* A plausible slip: an empty body is taken for an answer, as elsewhere.
DecodeHistoryRetentionOfNothing(x) == Read(x, OneValue \union {"empty"})

\* SetHistoryRetentionEpochs and HistoryRetention.
DecodeHistoryRetention(x) == Read(x, OneValue)

CreateTableWithOptions(x) == Read(x, OneValue \union {"empty"})
CreateTable(x, constraints) ==
  IF constraints > 1 THEN Misused ELSE CreateTableWithOptions(x)

DropTable(x) == Do(x)
Count(x) == Read(x, OneValue \union {"empty"})
Schema(x) == Read(x, FirstValue \union {"empty"})
SchemaFor(x) == Read(x, FirstValue \union {"empty"})

\* A plausible slip: the error of the decoder is dropped, as in SQL.
PostDecodeSwallows(x) == Read(x, Forms)

\* Compact and CompactTable.
PostDecode(x) == Read(x, FirstValue \union {"empty"})

QueryStatus(x, id) == IF id = "" THEN Misused ELSE Read(x, FirstValue)
CancelQuery(x, id) == IF id = "" THEN Misused ELSE Read(x, FirstValue \union {"empty"})

\* SearchBuilder.Execute, for a request it has built.
Hits(x) == Read(x, FirstValue \union {"empty"})

\* BuildRetrieveTextRequest refuses an empty table and an empty text.
RetrieveText(x, table, text) ==
  IF table = "" \/ text = "" THEN Misused ELSE Read(x, FirstValue)

\* A plausible slip: rows that do not decode are an error, as elsewhere.
SQLDecodes(x) == Read(x, FirstValue \union {"empty", "blank"})

\* SQL. Whatever is no row set reads as no rows: a statement that yields none
\* is answered with a status text.
SQL(x) == IF ~Do(x).ok THEN Do(x) ELSE Decoded(x.form)

\* A plausible slip: the context is looked at before the answer.
HealthAsksContextFirst(x) ==
  [healthy |-> Do(x).ok /\ ~x.ended, err |-> IF x.ended THEN "context" ELSE "none"]

\* Health. Every failure but the end of the context is "not healthy".
Health(x) ==
  [healthy |-> Do(x).ok, err |-> IF ~Do(x).ok /\ x.ended THEN "context" ELSE "none"]
=============================================================================
