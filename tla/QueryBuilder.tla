---------------------------- MODULE QueryBuilder ----------------------------
(***************************************************************************)
(* A QueryBuilder collects conditions, a projection, a limit and an offset *)
(* and may be executed more than once.  Where translates the friendly      *)
(* parameter names of a condition to the daemon's; Execute remembers       *)
(* whether the daemon capped the rows it returned.                         *)
(***************************************************************************)
EXTENDS HttpDo, SequencesExt

CONSTANTS
  Asked,          \* the conditions callers ask for: [type, params]
  Projections,    \* column id lists
  Bounds,         \* arguments of Limit and Offset
  Exchanges,      \* how a round trip of /kit/query may go
  MaxConditions   \* bound: conditions of one builder

VARIABLES
  builder,   \* the QueryBuilder
  asked,     \* history: the arguments of its Where calls
  sent,      \* history: the payload last sent, Nil before the first
  result     \* what the last Execute returned

vars == <<builder, asked, sent, result>>

-----------------------------------------------------------------------------
GenericAliases ==
  [column |-> "column_id", min |-> "lo", max |-> "hi",
   min_inclusive |-> "lo_inclusive", max_inclusive |-> "hi_inclusive"]

TextTypes == {"fm_contains", "fm_contains_all"}

TextAliases ==
  [key \in DOMAIN GenericAliases \union {"value"} |->
     IF key = "value" THEN "pattern" ELSE GenericAliases[key]]

\* A plausible slip: "value" is an alias of "pattern" for every type.
AliasesGlobal(type) == TextAliases

Aliases(type) == IF type \in TextTypes THEN TextAliases ELSE GenericAliases

CanonicalOf(type, key) == IF key \in DOMAIN Aliases(type) THEN Aliases(type)[key] ELSE key

(***************************************************************************)
(* normalizeCondition visits the parameters in the order Go's map yields   *)
(* them; of two spellings of one parameter the last one visited wins.      *)
(***************************************************************************)
NormalizeCondition(type, params, order) ==
  LET Visits(name) == {i \in DOMAIN order : CanonicalOf(type, order[i]) = name}
  IN  [name \in {CanonicalOf(type, key) : key \in ToSet(order)} |-> params[order[Max(Visits(name))]]]

-----------------------------------------------------------------------------
(* What the daemon understands. *)

\* The names a caller may use for the daemon's parameter w of a condition.
Spellings(w) ==
  {w} \union
  CASE w = "column_id" -> {"column"}
    [] w = "lo" -> {"min"}
    [] w = "hi" -> {"max"}
    [] w = "lo_inclusive" -> {"min_inclusive"}
    [] w = "hi_inclusive" -> {"max_inclusive"}
    [] w = "pattern" -> {"value"}
    [] OTHER -> {}

Ranges == {"range", "range_f64"}
Nulls == {"is_null", "is_not_null"}
Nearest == {"ann", "sparse_match", "min_hash_similar"}
ConditionTypes == {"pk", "bitmap_eq", "bitmap_in"} \union Ranges \union Nulls \union TextTypes \union Nearest

WireKeys(type) ==
  CASE type = "pk" -> {"value"}
    [] type = "bitmap_eq" -> {"column_id", "value"}
    [] type = "bitmap_in" -> {"column_id", "values"}
    [] type \in Ranges -> {"column_id", "lo", "hi", "lo_inclusive", "hi_inclusive"}
    [] type \in Nulls -> {"column_id"}
    [] type \in TextTypes -> {"column_id", "pattern", "patterns"}
    [] type \in Nearest -> {"column_id", "query", "k"}

\* Callers use the names the condition has; the code passes any other on.
ASSUME AskedAssumption ==
  \A a \in Asked :
    /\ a.type \in ConditionTypes
    /\ IsFiniteSet(DOMAIN a.params)
    /\ \A key \in DOMAIN a.params : \E w \in WireKeys(a.type) : key \in Spellings(w)

-----------------------------------------------------------------------------
NotExecuted == [ok |-> FALSE, executed |-> FALSE]
ExecuteFailed == [ok |-> FALSE, executed |-> TRUE]
Rows(capped) == [ok |-> TRUE, executed |-> TRUE, capped |-> capped]

\* Client.Query
Init ==
  /\ builder = [conditions |-> <<>>, projection |-> Nil, limit |-> Nil, offset |-> Nil,
                lastTrunc |-> FALSE]
  /\ asked = <<>>
  /\ sent = Nil
  /\ result = NotExecuted

Where(a) ==
  /\ Len(builder.conditions) < MaxConditions
  /\ \E order \in SetToSeqs(DOMAIN a.params) :
       builder' = [builder EXCEPT !.conditions =
         Append(@, [type |-> a.type, params |-> NormalizeCondition(a.type, a.params, order)])]
  /\ asked' = Append(asked, a)
  /\ UNCHANGED <<sent, result>>

Set(field, value) ==
  /\ builder' = [builder EXCEPT ![field] = value]
  /\ UNCHANGED <<asked, sent, result>>

Projection == \E columns \in Projections \union {Nil} : Set("projection", columns)
Limit == \E n \in Bounds : Set("limit", n)
Offset == \E n \in Bounds : Set("offset", n)

\* Nil stands for a field left out; no conditions are left out too.
Build ==
  [conditions |-> IF builder.conditions = <<>> THEN Nil ELSE builder.conditions,
   projection |-> builder.projection, limit |-> builder.limit, offset |-> builder.offset]

\* A payload that cannot be encoded or addressed is not sent.
Sending(x) == IF x.encodes /\ x.builds THEN Build ELSE sent

\* A plausible slip: only an answer with a flag touches the flag.
ExecuteKeepsFlag(x) ==
  /\ sent' = Sending(x)
  /\ UNCHANGED asked
  /\ IF ~Do(x).ok \/ (x.size > 0 /\ x.says = Undecodable)
     THEN result' = ExecuteFailed /\ UNCHANGED builder
     ELSE /\ result' = Rows(x.size > 0 /\ x.says)
          /\ builder' = IF x.size > 0 THEN [builder EXCEPT !.lastTrunc = x.says] ELSE builder

(***************************************************************************)
(* Execute.  x.says is the "truncated" field of a body that decodes, FALSE *)
(* when it is missing.  An empty body means no rows and no truncation.     *)
(***************************************************************************)
Execute(x) ==
  LET capped == x.size > 0 /\ x.says
  IN  /\ sent' = Sending(x)
      /\ UNCHANGED asked
      /\ IF ~Do(x).ok \/ (x.size > 0 /\ x.says = Undecodable)
         THEN result' = ExecuteFailed /\ UNCHANGED builder
         ELSE result' = Rows(capped) /\ builder' = [builder EXCEPT !.lastTrunc = capped]

Truncated == builder.lastTrunc

Next ==
  \/ \E a \in Asked : Where(a)
  \/ Projection \/ Limit \/ Offset
  \/ \E x \in Exchanges : Execute(x)

Spec == Init /\ [][Next]_vars

-----------------------------------------------------------------------------
\* Each condition on the wire has exactly the parameters its caller asked for,
\* under the daemon's names, each with a value the caller gave it; no friendly
\* name leaks and no parameter moves to another (normalizeCondition,
\* query.go:139-163).
ConditionsMeanWhatWasAsked ==
  \A i \in DOMAIN asked :
    LET type == asked[i].type
        given == asked[i].params
        wire == builder.conditions[i].params
    IN  /\ DOMAIN wire =
             {w \in WireKeys(type) : Spellings(w) \intersect DOMAIN given # {}}
        /\ \A w \in DOMAIN wire :
             \E k \in Spellings(w) \intersect DOMAIN given : wire[w] = given[k]

\* Truncated tells of the rows the caller last received whether the daemon
\* capped them, also when an earlier execution of the builder was capped and
\* this one is not (Execute, query.go:106-111).
TruncatedTellsOfLastRows == result.ok => Truncated = result.capped

\* What SECURITY.md says of the query builder: invalid column ids and numeric
\* ranges are rejected before any request is sent.
InvalidIsNeverSent ==
  sent # Nil /\ sent.conditions # Nil =>
    \A i \in DOMAIN sent.conditions :
      LET p == sent.conditions[i].params
      IN  /\ "column_id" \in DOMAIN p => p.column_id > 0
          /\ {"lo", "hi"} \subseteq DOMAIN p => p.lo <= p.hi
=============================================================================
