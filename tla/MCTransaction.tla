--------------------------- MODULE MCTransaction ---------------------------
(***************************************************************************)
(* Small instances of Transaction.                                         *)
(***************************************************************************)
EXTENDS Transaction

CONSTANTS v1, v2

\* One map with two columns: Go may range over it in two orders.
TwoColumns == {1 :> v1 @@ 2 :> v2}

\* Two one-column maps: different batches to reuse a key for.
TwoRows == {1 :> v1, 1 :> v2}

OneRow == {1 :> v1}

NoMaps == {}

\* DO NOTHING, or an update of the second column.
Nothing == {Nil}
NothingOrColumn == {Nil, 2 :> v2}

Symmetry == Permutations(ReqIds) \union Permutations(Txns)
=============================================================================
