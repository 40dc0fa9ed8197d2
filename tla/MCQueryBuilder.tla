--------------------------- MODULE MCQueryBuilder ---------------------------
(***************************************************************************)
(* A builder that is refined and executed again and again.  The conditions *)
(* include one with both spellings of a parameter, and one whose range is  *)
(* empty.                                                                  *)
(***************************************************************************)
EXTENDS QueryBuilder

Conditions ==
  {[type |-> "pk", params |-> [value |-> 7]],
   [type |-> "bitmap_eq", params |-> [column |-> 2, value |-> 7]],
   [type |-> "range", params |-> [column |-> 3, min |-> 1, lo |-> 2]],
   [type |-> "range", params |-> [column_id |-> 3, min |-> 5, max |-> 1]],
   [type |-> "fm_contains", params |-> [column |-> 2, value |-> 7]],
   [type |-> "fm_contains", params |-> [column_id |-> 2, pattern |-> 8]],
   [type |-> "ann", params |-> [column |-> 2, query |-> 9, k |-> 1]]}

Lists == {<<>>, <<1, 2>>}

NoBody ==
  [lead |-> "none", object |-> FALSE, text |-> "plain", nested |-> Undecodable, flat |-> Undecodable]

\* Whole answers with rows, capped or not; an empty and a garbled body; a cut
\* body, no response, an error answer; a request that cannot be encoded.
Whole(says) ==
  [encodes |-> TRUE, builds |-> TRUE, replied |-> TRUE, status |-> 200,
   size |-> 2, got |-> 2, body |-> NoBody, says |-> says]

RoundTrips ==
  {Whole(TRUE), Whole(FALSE), Whole(Undecodable),
   [Whole(FALSE) EXCEPT !.size = 0, !.got = 0],
   [Whole(TRUE) EXCEPT !.got = 1],
   [Whole(TRUE) EXCEPT !.size = 3, !.got = 3],
   [Whole(TRUE) EXCEPT !.status = 400],
   [Whole(FALSE) EXCEPT !.replied = FALSE],
   [Whole(FALSE) EXCEPT !.encodes = FALSE]}
=============================================================================
