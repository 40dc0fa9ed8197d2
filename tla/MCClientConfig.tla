--------------------------- MODULE MCClientConfig ---------------------------
(***************************************************************************)
(* Two Clients made at the same time, an http.Client of the application    *)
(* either or both may be given, empty credentials, and no timeout at all.  *)
(***************************************************************************)
EXTENDS ClientConfig, TLC

CONSTANTS c1, c2, h, u, w

BothClients == {c1, c2}
Swap == Permutations(BothClients)
OneMinute == h :> 60
SomeTokens == {None, u}
SomeUsers == {None, u}
SomePasswords == {u, w}
=============================================================================
