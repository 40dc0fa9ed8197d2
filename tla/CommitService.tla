--------------------------- MODULE CommitService ---------------------------
(***************************************************************************)
(* What an application that writes through this client may rely on, with   *)
(* nothing said about HTTP, payloads or retries.  A call submits a batch,  *)
(* perhaps under an idempotency key, and ends in one of three ways:        *)
(*                                                                         *)
(*   ok        the batch is durable                                        *)
(*   rejected  this call's batch is not durable and never will be          *)
(*   unknown   nothing is known: it may be durable, now or later           *)
(***************************************************************************)
CONSTANTS Calls, Batches, Keys, NoKey

VARIABLES
  call,     \* what each call asked for and what it was told
  durable   \* the calls whose batch has been applied

vars == <<call, durable>>

NotMade == [st |-> "none"]

TypeOK ==
  /\ call \in [Calls -> {NotMade} \union
                 [st : {"open", "ok", "rejected", "unknown"},
                  key : Keys \union {NoKey}, batch : Batches]]
  /\ durable \subseteq Calls

\* Two calls that the caller declared to be one: same key, same batch.
SameCommit(c, d) ==
  /\ call[c].batch = call[d].batch
  /\ c = d \/ (call[c].key = call[d].key /\ call[c].key # NoKey)

-----------------------------------------------------------------------------
Init == call = [c \in Calls |-> NotMade] /\ durable = {}

Submitted == [st : {"open"}, key : Keys \union {NoKey}, batch : Batches]

Submit(c) ==
  /\ call[c] = NotMade
  /\ call'[c] \in Submitted
  /\ call' = [call EXCEPT ![c] = call'[c]]
  /\ UNCHANGED durable

\* A batch becomes durable while its call is open or after the caller gave up,
\* at most once for a key, and never after a rejection.
Apply(c) ==
  /\ call[c].st \in {"open", "unknown"}
  /\ c \notin durable
  /\ \A d \in durable : call[d].key = call[c].key => call[c].key = NoKey
  /\ durable' = durable \union {c}
  /\ UNCHANGED call

Acknowledge(c) ==
  /\ call[c].st = "open"
  /\ \E d \in durable : SameCommit(c, d)
  /\ call' = [call EXCEPT ![c].st = "ok"]
  /\ UNCHANGED durable

Reject(c) ==
  /\ call[c].st = "open"
  /\ c \notin durable
  /\ call' = [call EXCEPT ![c].st = "rejected"]
  /\ UNCHANGED durable

GiveUp(c) ==
  /\ call[c].st = "open"
  /\ call' = [call EXCEPT ![c].st = "unknown"]
  /\ UNCHANGED durable

Next == \E c \in Calls : Submit(c) \/ Apply(c) \/ Acknowledge(c) \/ Reject(c) \/ GiveUp(c)

Spec == Init /\ [][Next]_vars

-----------------------------------------------------------------------------
\* What the three outcomes are good for.  A rejected batch is never durable, a
\* key makes at most one call durable, and a call that ended ok is durable, or
\* one its caller declared to be the same is.
Promise ==
  /\ \A c \in durable : call[c] # NotMade /\ call[c].st # "rejected"
  /\ \A c, d \in durable : call[c].key = call[d].key /\ call[c].key # NoKey => c = d
  /\ \A c \in Calls : call[c].st = "ok" => \E d \in durable : SameCommit(c, d)
=============================================================================
