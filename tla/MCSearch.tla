------------------------------ MODULE MCSearch ------------------------------
(***************************************************************************)
(* Four rows, two filters, pages of one, two and more hits, and limits no  *)
(* request may carry.                                                      *)
(***************************************************************************)
EXTENDS Search

Table == 1..4
Filtered == [even |-> {2, 4}, notFirst |-> {2, 3, 4}]
SomeLimits == {-1, 0, 1, 2}
SomeProjections == {Nil, <<>>, <<1>>}

NoBody ==
  [lead |-> "none", object |-> FALSE, text |-> "plain", nested |-> Undecodable, flat |-> Undecodable]

Whole(form) ==
  [encodes |-> TRUE, builds |-> TRUE, replied |-> TRUE, status |-> 200,
   size |-> 2, got |-> 2, body |-> NoBody, form |-> form, ended |-> FALSE]

\* A page, an empty and a garbled body; a cut body, no response, an error answer.
RoundTrips ==
  {Whole("value"), Whole("empty"), Whole("garbled"), [Whole("value") EXCEPT !.got = 1],
   [Whole("value") EXCEPT !.replied = FALSE], [Whole("value") EXCEPT !.status = 500]}
=============================================================================
