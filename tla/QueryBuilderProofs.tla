------------------------- MODULE QueryBuilderProofs -------------------------
(***************************************************************************)
(* For every use of a builder, with any conditions, projections, bounds    *)
(* and exchanges, refined and executed in any order: what Truncated tells, *)
(* and what the conditions on the wire mean.                               *)
(***************************************************************************)
EXTENDS QueryBuilder, SequenceProofs

\* A documented name is translated to the parameter it is a name of, and to no
\* other.
LEMMA CanonicalMeans ==
  ASSUME NEW type \in ConditionTypes, NEW v \in WireKeys(type), NEW key \in Spellings(v)
  PROVE  /\ CanonicalOf(type, key) = v
         /\ \A w \in WireKeys(type) : key \in Spellings(w) => w = v
<1> USE DEF ConditionTypes, WireKeys, Spellings, CanonicalOf, Aliases, TextAliases, GenericAliases
<1>1. CASE type \in {"pk", "bitmap_eq", "bitmap_in"}
  BY <1>1 DEF Ranges, Nulls, TextTypes, Nearest
<1>2. CASE type \in Ranges
  BY <1>2 DEF Ranges, Nulls, TextTypes, Nearest
<1>3. CASE type \in Nulls
  BY <1>3 DEF Ranges, Nulls, TextTypes, Nearest
<1>4. CASE type \in TextTypes
  BY <1>4 DEF Ranges, Nulls, TextTypes, Nearest
<1>5. CASE type \in Nearest
  BY <1>5 DEF Ranges, Nulls, TextTypes, Nearest
<1> QED BY <1>1, <1>2, <1>3, <1>4, <1>5

\* The wire says what was asked for.
Means(type, given, wire) ==
  /\ DOMAIN wire = {w \in WireKeys(type) : Spellings(w) \intersect DOMAIN given # {}}
  /\ \A w \in DOMAIN wire : \E k \in Spellings(w) \intersect DOMAIN given : wire[w] = given[k]

\* Whatever the order in which the parameters are visited.
LEMMA NormalizedMeans ==
  ASSUME NEW a \in Asked, NEW order \in SetToSeqs(DOMAIN a.params)
  PROVE  Means(a.type, a.params, NormalizeCondition(a.type, a.params, order))
<1> DEFINE type == a.type
           given == a.params
           keys == DOMAIN a.params
           Visits(name) == {i \in DOMAIN order : CanonicalOf(type, order[i]) = name}
           names == {CanonicalOf(type, key) : key \in keys}
           wire == NormalizeCondition(type, given, order)
<1>1. /\ type \in ConditionTypes /\ IsFiniteSet(keys)
      /\ \A key \in keys : \E w \in WireKeys(type) : key \in Spellings(w)
  BY AskedAssumption
<1>2. ToSet(order) = keys /\ DOMAIN order = 1..Cardinality(keys) /\ Cardinality(keys) \in Nat
  BY <1>1, OrdersList, FS_CardinalityType DEF SetToSeqs
<1>3. wire = [name \in names |-> given[order[Max(Visits(name))]]]
  BY <1>2 DEF NormalizeCondition
<1> HIDE DEF wire, type, given, keys
<1>4. \A key \in keys :
        CanonicalOf(type, key) \in WireKeys(type) /\ key \in Spellings(CanonicalOf(type, key))
  BY <1>1, CanonicalMeans
<1>5. \A w \in WireKeys(type) : \A key \in Spellings(w) : CanonicalOf(type, key) = w
  BY <1>1, CanonicalMeans
<1>6. names = {w \in WireKeys(type) : Spellings(w) \intersect keys # {}}
  BY <1>4, <1>5
<1>7. ASSUME NEW name \in names
      PROVE  \E k \in Spellings(name) \intersect keys : given[order[Max(Visits(name))]] = given[k]
  <2> DEFINE V == Visits(name)
  <2>1. V \in SUBSET Int /\ IsFiniteSet(V)
    BY <1>2, FS_Interval, FS_Subset
  <2>2. V # {}
    BY <1>2 DEF ToSet
  <2>3. Max(V) \in V
    <3> HIDE DEF V
    <3> QED BY <2>1, <2>2, MaxIsMember
  <2>4. order[Max(V)] \in keys /\ CanonicalOf(type, order[Max(V)]) = name
    BY <1>2, <2>3 DEF ToSet
  <2> HIDE DEF V
  <2>5. order[Max(V)] \in Spellings(name)
    BY <1>4, <2>4
  <2> QED BY <2>4, <2>5 DEF V
<1> QED BY <1>3, <1>6, <1>7 DEF Means, wire, type, given, keys

-----------------------------------------------------------------------------
BuilderFields == {"conditions", "projection", "limit", "offset", "lastTrunc"}

Encodings(a) ==
  {[type |-> a.type, params |-> NormalizeCondition(a.type, a.params, order)] :
     order \in SetToSeqs(DOMAIN a.params)}

\* Each condition of the builder encodes what the Where call at its place asked
\* for.
Encoded ==
  /\ asked \in Seq(Asked)
  /\ builder.conditions \in Seq(UNION {Encodings(a) : a \in Asked})
  /\ Len(builder.conditions) = Len(asked)
  /\ \A i \in 1..Len(asked) : builder.conditions[i] \in Encodings(asked[i])

IInv ==
  /\ builder = [field \in BuilderFields |-> builder[field]]
  /\ Encoded
  /\ TruncatedTellsOfLastRows

LEMMA SetInv ==
  ASSUME IInv, NEW field \in BuilderFields \ {"lastTrunc", "conditions"}, NEW value,
         Set(field, value)
  PROVE  IInv'
<1>1. /\ builder' = [f \in BuilderFields |-> builder'[f]]
      /\ builder'.conditions = builder.conditions /\ builder'.lastTrunc = builder.lastTrunc
      /\ asked' = asked /\ result' = result
  BY DEF IInv, Set, BuilderFields
<1> QED BY <1>1 DEF IInv, Encoded, TruncatedTellsOfLastRows, Truncated

LEMMA WhereInv ==
  ASSUME IInv, NEW a \in Asked, Where(a)
  PROVE  IInv'
<1> DEFINE S == UNION {Encodings(b) : b \in Asked}
           have == builder.conditions
<1>1. PICK order \in SetToSeqs(DOMAIN a.params) :
        builder' = [builder EXCEPT !.conditions =
          Append(@, [type |-> a.type, params |-> NormalizeCondition(a.type, a.params, order)])]
  BY DEF Where
<1> DEFINE c == [type |-> a.type, params |-> NormalizeCondition(a.type, a.params, order)]
<1>2. c \in Encodings(a) /\ c \in S
  BY DEF Encodings
<1>3. result' = result /\ asked' = Append(asked, a)
  BY DEF Where
<1> HIDE DEF c
<1>4. /\ builder' = [f \in BuilderFields |-> builder'[f]]
      /\ builder'.conditions = Append(have, c) /\ builder'.lastTrunc = builder.lastTrunc
  BY <1>1 DEF IInv, BuilderFields, c
<1>5. /\ asked \in Seq(Asked) /\ have \in Seq(S) /\ Len(have) = Len(asked)
      /\ \A i \in 1..Len(asked) : have[i] \in Encodings(asked[i])
  BY DEF IInv, Encoded
<1> HIDE DEF S, have
<1>6. /\ Append(asked, a) \in Seq(Asked) /\ Append(have, c) \in Seq(S)
      /\ Len(Append(have, c)) = Len(Append(asked, a))
      /\ \A i \in 1..Len(Append(asked, a)) : Append(have, c)[i] \in Encodings(Append(asked, a)[i])
  BY <1>2, <1>5
<1>7. Encoded'
  BY <1>3, <1>4, <1>6 DEF Encoded, S
<1> QED
  BY <1>3, <1>4, <1>7 DEF IInv, TruncatedTellsOfLastRows, Truncated

LEMMA ExecuteInv ==
  ASSUME IInv, NEW x \in Exchanges, Execute(x)
  PROVE  IInv'
<1>1. asked' = asked
  BY DEF Execute
<1>2. CASE result' = ExecuteFailed /\ builder' = builder
  BY <1>1, <1>2 DEF IInv, Encoded, TruncatedTellsOfLastRows, ExecuteFailed
<1>3. CASE \E capped : result' = Rows(capped) /\ builder' = [builder EXCEPT !.lastTrunc = capped]
  <2>1. PICK capped : result' = Rows(capped) /\ builder' = [builder EXCEPT !.lastTrunc = capped]
    BY <1>3
  <2>2. /\ builder' = [f \in BuilderFields |-> builder'[f]]
        /\ builder'.conditions = builder.conditions /\ builder'.lastTrunc = capped
    BY <2>1 DEF IInv, BuilderFields
  <2> QED
    BY <1>1, <2>1, <2>2 DEF IInv, Encoded, TruncatedTellsOfLastRows, Truncated, Rows
<1> QED
  BY <1>2, <1>3 DEF Execute

\* Each condition is the encoding of one that was asked for, and the flag that of
\* the last answer, however the builder is used.
THEOREM Inductive == Spec => []IInv
<1>1. Init => IInv
  BY DEF Init, NotExecuted, IInv, Encoded, TruncatedTellsOfLastRows, BuilderFields
<1>2. IInv /\ [Next]_vars => IInv'
  <2>1. SUFFICES ASSUME IInv, [Next]_vars PROVE IInv'
    OBVIOUS
  <2>2. CASE UNCHANGED vars
    BY <2>1, <2>2 DEF vars, IInv, Encoded, TruncatedTellsOfLastRows, Truncated
  <2>3. CASE \E a \in Asked : Where(a)
    BY <2>1, <2>3, WhereInv
  <2>4. CASE Projection \/ Limit \/ Offset
    BY <2>1, <2>4, SetInv DEF Projection, Limit, Offset, BuilderFields
  <2>5. CASE \E x \in Exchanges : Execute(x)
    BY <2>1, <2>5, ExecuteInv
  <2> QED
    BY <2>1, <2>2, <2>3, <2>4, <2>5 DEF Next
<1> QED
  BY <1>1, <1>2, PTL DEF Spec

-----------------------------------------------------------------------------
\* Truncated tells of the rows last received, whatever the builder was used
\* for before (Execute, query.go:93-120).
THEOREM TruncatedTells == Spec => []TruncatedTellsOfLastRows
<1>1. IInv => TruncatedTellsOfLastRows
  BY DEF IInv
<1> QED
  BY <1>1, Inductive, PTL

\* The daemon is asked what the caller asked for, in whatever order Go ranges
\* over the parameters (Where, normalizeCondition, query.go:31-52, 139-163).
THEOREM ConditionsMean == Spec => []ConditionsMeanWhatWasAsked
<1>1. IInv => ConditionsMeanWhatWasAsked
  <2> SUFFICES ASSUME IInv, NEW i \in DOMAIN asked
               PROVE  Means(asked[i].type, asked[i].params, builder.conditions[i].params)
    BY DEF ConditionsMeanWhatWasAsked, Means
  <2>1. asked[i] \in Asked /\ builder.conditions[i] \in Encodings(asked[i])
    BY DEF IInv, Encoded
  <2> QED BY <2>1, NormalizedMeans DEF Encodings
<1> QED
  BY <1>1, Inductive, PTL
=============================================================================
