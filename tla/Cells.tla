------------------------------- MODULE Cells -------------------------------
(***************************************************************************)
(* flattenCells: a Cells map (column id -> value) as the flat wire array   *)
(* <<id, value, id, value, ...>>.  The daemon ties an idempotency key to a *)
(* hash of the whole payload, so the array must not depend on the order in *)
(* which Go happens to range over the map.                                 *)
(***************************************************************************)
EXTENDS Sorting, SequencesExt

\* A Go map has finitely many keys; those of Cells are numbers.
IsCells(cells) ==
  /\ cells = [id \in DOMAIN cells |-> cells[id]]
  /\ DOMAIN cells \in SUBSET Int
  /\ IsFiniteSet(DOMAIN cells)

\* The orders in which `for id := range cells` may visit the map.
RangeOrders(cells) == SetToSeqs(DOMAIN cells)

ValuesOf(ids, cells) == [i \in DOMAIN ids |-> cells[ids[i]]]

\* What `append(flat, id, cells[id])` builds: each id, and its value behind it.
Pairwise(ids, values) ==
  [i \in 1..(2 * Len(ids)) |-> IF i % 2 = 1 THEN ids[(i + 1) \div 2] ELSE values[i \div 2]]

\* A plausible slip: the ids are emitted as the map yields them.
FlattenUnsorted(cells, order) == Pairwise(order, ValuesOf(order, cells))

\* A plausible slip: the ids are sorted after the values were looked up.
FlattenSortsIdsOnly(cells, order) == Pairwise(Sorted(ToSet(order)), ValuesOf(order, cells))

\* Collect the ids in iteration order, sort them, emit the pairs.
FlattenCells(cells, order) ==
  LET ids == Sorted(ToSet(order))
  IN  Pairwise(ids, ValuesOf(ids, cells))

(***************************************************************************)
(* What a flat array says, as the daemon reads it: a set of id/value pairs.*)
(***************************************************************************)
PairsOf(flat) == {<<flat[2 * i - 1], flat[2 * i]>> : i \in 1..(Len(flat) \div 2)}
=============================================================================
