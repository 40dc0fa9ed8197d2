---------------------------- MODULE MCObservers ----------------------------
(***************************************************************************)
(* One caller among others: callers share no state of the client, so what  *)
(* the others do is what the daemon's own steps do.  Windows shorter and   *)
(* longer than the epochs written, and a query of several statements.      *)
(***************************************************************************)
EXTENDS Observers

NoBody ==
  [lead |-> "none", object |-> FALSE, text |-> "plain", nested |-> Undecodable, flat |-> Undecodable]

Whole(form) ==
  [encodes |-> TRUE, builds |-> TRUE, replied |-> TRUE, status |-> 200,
   size |-> 2, got |-> 2, body |-> NoBody, form |-> form, ended |-> FALSE]

\* The daemon's answer; an empty and a garbled body, a cut one, an error answer.
RoundTrips ==
  {Whole("value"), Whole("empty"), Whole("garbled"), [Whole("value") EXCEPT !.got = 1],
   [Whole("value") EXCEPT !.status = 500]}
=============================================================================
