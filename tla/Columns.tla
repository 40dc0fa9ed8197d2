------------------------------ MODULE Columns ------------------------------
(***************************************************************************)
(* Column.MarshalJSON: the default of a column in CREATE TABLE can be given *)
(* as a string, as any static JSON scalar, or as an expression.  The        *)
(* optional fields of the struct are emitted only when set.                 *)
(***************************************************************************)
CONSTANTS
  Unset,     \* a nil pointer, a nil interface, or an empty slice
  Scalars    \* static defaults, the zero values FALSE, 0 and "" among them

Columns ==
  [DefaultValue : Scalars \union {Unset}, DefaultValueJSON : Scalars \union {Unset},
   DefaultExpr : {"now", Unset}, EnumVariants : {"variants", Unset},
   EmbeddingSource : {"source", Unset}]

\* A plausible slip: an expression does not take the static default back.
StaticDefaultBesideExpr(c) ==
  IF c.DefaultValueJSON # Unset THEN c.DefaultValueJSON ELSE c.DefaultValue

StaticDefault(c) ==
  CASE c.DefaultExpr # Unset -> Unset
    [] c.DefaultExpr = Unset /\ c.DefaultValueJSON # Unset -> c.DefaultValueJSON
    [] OTHER -> c.DefaultValue

\* The outer default_value hides the embedded one, also when it is left out.
MarshalJSON(c) ==
  LET field == [default_value |-> StaticDefault(c), default_expr |-> c.DefaultExpr,
                enum_variants |-> c.EnumVariants, embedding_source |-> c.EmbeddingSource]
  IN  [f \in {g \in DOMAIN field : field[g] # Unset} |-> field[f]]
=============================================================================
