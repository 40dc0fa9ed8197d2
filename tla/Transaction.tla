---------------------------- MODULE Transaction ----------------------------
(***************************************************************************)
(* The write path of the client.  Transactions stage operations locally    *)
(* and send them in one POST /kit/txn; Client.Put, Upsert, Delete and      *)
(* DeleteByPK send one operation each, at once.  Requests outlive the call *)
(* that sent them: a caller that timed out knows nothing of a request the  *)
(* daemon may still handle, and it may retry meanwhile.                    *)
(*                                                                         *)
(* The client's own actions come first; then what happens to a request on  *)
(* its way; then the daemon, which is not part of this repository and is   *)
(* modelled from what the client's code relies on.                         *)
(*                                                                         *)
(* A Transaction carries no lock.  Most are used by one goroutine at a     *)
(* time, the one that blocks in its Commit; the Shared ones are committed  *)
(* by several at once.  Different transactions and direct calls run        *)
(* concurrently over one Client.                                           *)
(***************************************************************************)
EXTENDS HttpDo, Cells

CONSTANTS
  Txns,             \* transactions from Client.Begin
  Shared,           \* those whose Commit several goroutines call at once
  Direct,           \* stands for a transaction in a call made on the Client itself
  ReqIds, Unused,   \* requests ever sent, and one not sent yet
  Keys, NoKey,      \* idempotency keys, and the empty string
  Nobody,           \* no request holds a key yet
  CellMaps,         \* cells a caller writes
  UpdateMaps,       \* update cells of an upsert: maps, or Nil for DO NOTHING
  RowIds, PKs,      \* arguments of Delete and of DeleteByPK
  Returnings,       \* values of `returning` a transaction is staged with
  MaxOps,           \* bound: operations staged in one transaction
  RefusalStatuses   \* statuses with which a batch is refused

ASSUME TransactionAssumption ==
  /\ Direct \notin Txns
  /\ NoKey \notin Keys
  /\ Nobody \notin ReqIds
  /\ MaxOps \in Nat
  /\ Returnings \subseteq BOOLEAN
  /\ RefusalStatuses \subseteq {s \in Nat : ~IsSuccess(s)}

VARIABLES
  txn,        \* each Transaction: its staged ops and its committed flag
  promised,   \* history: the operations t's successful Commit was made of
  last,       \* what t's last Commit or Rollback returned
  req,        \* every POST /kit/txn ever sent
  applied,    \* daemon: the requests whose operations it applied
  held        \* daemon: the request whose answer a key replays

vars == <<txn, promised, last, req, applied, held>>

-----------------------------------------------------------------------------
(* Operations as they are staged and sent. *)

FlatsOf(maps) == UNION {{FlattenCells(c, o) : o \in RangeOrders(c)} : c \in maps}

PutOp(flat, b) == [op |-> "put", cells |-> flat, returning |-> b]
UpsertOp(flat, update, b) ==
  [op |-> "upsert", cells |-> flat, returning |-> b, update_cells |-> update]

\* A plausible slip: the row id travels in the field of a primary key.
DeleteOpNamesPK(id) == [op |-> "delete", pk |-> id]

DeleteOp(id) == [op |-> "delete", row_id |-> id]
DeleteByPKOp(pk) == [op |-> "delete_by_pk", pk |-> pk]

\* Only Transaction's methods set `returning`; only a non-nil update is sent.
Updates == FlatsOf(UpdateMaps \ {Nil}) \union (UpdateMaps \intersect {Nil})
WireOps ==
  [op : {"put"}, cells : FlatsOf(CellMaps), returning : Returnings \union {Nil}] \union
  [op : {"upsert"}, cells : FlatsOf(CellMaps), returning : Returnings \union {Nil},
   update_cells : Updates] \union
  [op : {"delete"}, row_id : RowIds] \union
  [op : {"delete_by_pk"}, pk : PKs]

\* Nil is the missing map: no array, and nothing an array says.
ASSUME MapsAssumption ==
  /\ \A c \in CellMaps \union (UpdateMaps \ {Nil}) : IsCells(c)
  /\ \A f \in FlatsOf(CellMaps \union (UpdateMaps \ {Nil})) : f # Nil /\ PairsOf(f) # Nil

KeyArgs == Keys \union {NoKey}

\* A plausible slip: the key is not copied into the payload.
CommitTxnPayloadDropsKey(ops, key) == [ops |-> ops, key |-> NoKey]

\* The body of POST /kit/txn; an empty key leaves the field out.
CommitTxnPayload(ops, key) == [ops |-> ops, key |-> key]
CommitOnePayload(op, key) == [ops |-> <<op>>, key |-> key]

-----------------------------------------------------------------------------
(* One round trip of /kit/txn as its caller sees it. *)

\* Answers arrive whole, longer than the cap, or cut short.
Arrivals ==
  {[size |-> MaxResponseBytes, got |-> MaxResponseBytes],
   [size |-> MaxResponseBytes + 1, got |-> MaxResponseBytes + 1],
   [size |-> MaxResponseBytes + 1, got |-> MaxResponseBytes]}

\* The shapes decodeResults tells apart in a 2xx body.
ResultForms == {"results", "blank", "garbled"}

BodySaying(text) ==
  [lead |-> "none", object |-> TRUE, text |-> "plain", flat |-> Undecodable,
   nested |-> [message |-> text, code |-> "", opIndex |-> Nil]]

Exchange(status, text, arrival) ==
  [encodes |-> TRUE, builds |-> TRUE, replied |-> TRUE, status |-> status,
   size |-> arrival.size, got |-> arrival.got, body |-> BodySaying(text)]

\* http.Client.Do returned no response: refused, reset, timed out or cancelled.
NoResponse == [Exchange(200, "plain", [size |-> 0, got |-> 0]) EXCEPT !.replied = FALSE]

\* The request never leaves: a cell value json.Marshal rejects, or a bad URL.
Unsent ==
  {[NoResponse EXCEPT !.encodes = FALSE], [NoResponse EXCEPT !.builds = FALSE]}

DecodeResults(form) ==
  IF form = "garbled" THEN Failed("decode", "none") ELSE Returned(0)

\* CommitTxn and commitOne, once the payload is built.
CommitTxn(x, form) == IF Do(x).ok THEN DecodeResults(form) ELSE Do(x)

\* What errors.Is can tell about the outcome.
Verdict(outcome) == IF outcome.ok THEN "ok" ELSE outcome.sentinel

Verdicts == {"ok", "none"} \union Sentinels
Refusals == {"ErrAuth", "ErrNotFound", "ErrConflict"}

-----------------------------------------------------------------------------
NotAnswered == [status |-> 0]
OkReply == [text |-> "plain", status |-> 200, mismatch |-> FALSE]
ReuseReply == [text |-> "plain", status |-> 409, mismatch |-> TRUE]
RefusalReply(status, text) == [text |-> text, status |-> status, mismatch |-> FALSE]
Replies == [text : {"plain", "not found:"}, status : Nat, mismatch : BOOLEAN]

Requests ==
  [txn : Txns \union {Direct}, key : KeyArgs,
   payload : [ops : Seq(WireOps), key : KeyArgs],
   reply : Replies \union {NotAnswered}, told : Verdicts \union {"waiting"}]

ASSUME UnusedAssumption == Unused \notin Requests

Sent(r) == req[r] # Unused
Waiting(r) == Sent(r) /\ req[r].told = "waiting"
Answered(r) == Sent(r) /\ req[r].reply # NotAnswered

\* No Commit of t is in progress: its goroutine is free to use it.
Idle(t) == \A r \in ReqIds : Waiting(r) => req[r].txn # t

\* A goroutine is free to commit t. Nothing in Commit excludes a second one.
Free(t) == t \in Shared \/ Idle(t)

Init ==
  /\ txn = [t \in Txns |-> [ops |-> <<>>, committed |-> FALSE]]
  /\ promised = [t \in Txns |-> <<>>]
  /\ last = [t \in Txns |-> "none"]
  /\ req = [r \in ReqIds |-> Unused]
  /\ applied = {}
  /\ held = [k \in Keys |-> Nobody]

-----------------------------------------------------------------------------
(* Staging. A method appends whatever the state of the transaction is. *)

Stage(t, op) ==
  /\ Idle(t)
  /\ Len(txn[t].ops) < MaxOps
  /\ txn' = [txn EXCEPT ![t].ops = Append(@, op)]
  /\ UNCHANGED <<promised, last, req, applied, held>>

Put(t) == \E f \in FlatsOf(CellMaps), b \in Returnings : Stage(t, PutOp(f, b))
Upsert(t) ==
  \E f \in FlatsOf(CellMaps), u \in Updates, b \in Returnings : Stage(t, UpsertOp(f, u, b))
Delete(t) == \E id \in RowIds : Stage(t, DeleteOp(id))
DeleteByPK(t) == \E pk \in PKs : Stage(t, DeleteByPKOp(pk))

-----------------------------------------------------------------------------
(* Commit and Rollback. *)

\* A plausible slip: a committed transaction is sent again.
MayResend(t) == TRUE

MaySend(t) == ~txn[t].committed

\* Transaction.Commit finds the transaction committed.
CommitRefused(t) ==
  /\ Free(t)
  /\ ~MaySend(t)
  /\ last' = [last EXCEPT ![t] = "ErrTxnCommitted"]
  /\ UNCHANGED <<txn, promised, req, applied, held>>

\* An empty transaction commits without a request.
CommitEmpty(t) ==
  /\ Free(t)
  /\ MaySend(t)
  /\ txn[t].ops = <<>>
  /\ txn' = [txn EXCEPT ![t].committed = TRUE]
  /\ last' = [last EXCEPT ![t] = "ok"]
  /\ UNCHANGED <<promised, req, applied, held>>

\* The request could not even be encoded or built.
CommitUnsent(t) ==
  /\ Free(t)
  /\ MaySend(t)
  /\ txn[t].ops # <<>>
  /\ \E x \in Unsent : ~CommitTxn(x, "results").ok
  /\ last' = [last EXCEPT ![t] = "failed"]
  /\ UNCHANGED <<txn, promised, req, applied, held>>

Post(r, t, key, payload) ==
  /\ ~Sent(r)
  /\ req' = [req EXCEPT ![r] = [txn |-> t, key |-> key, payload |-> payload,
                                reply |-> NotAnswered, told |-> "waiting"]]
  /\ UNCHANGED <<last, applied, held>>

Mark(t) ==
  /\ txn' = [txn EXCEPT ![t].committed = TRUE]
  /\ promised' = [promised EXCEPT ![t] = txn[t].ops]

\* A plausible slip: the flag is set before the daemon has confirmed.
MarkFirst(t) == Mark(t)

\* Nothing is marked before the daemon has confirmed.
MarkLater(t) == UNCHANGED <<txn, promised>>

\* Transaction.Commit sends the staged operations and blocks in the call.
Commit(t, r, key) ==
  /\ Free(t)
  /\ MaySend(t)
  /\ txn[t].ops # <<>>
  /\ Post(r, t, key, CommitTxnPayload(txn[t].ops, key))
  /\ MarkLater(t)

Rollback(t) ==
  /\ Idle(t)
  /\ ~txn[t].committed
  /\ txn' = [txn EXCEPT ![t].ops = <<>>]
  /\ last' = [last EXCEPT ![t] = "rolled back"]
  /\ UNCHANGED <<promised, req, applied, held>>

RollbackRefused(t) ==
  /\ Idle(t)
  /\ txn[t].committed
  /\ last' = [last EXCEPT ![t] = "ErrTxnCommitted"]
  /\ UNCHANGED <<txn, promised, req, applied, held>>

-----------------------------------------------------------------------------
(* Client.Put, Upsert, Delete and DeleteByPK: one operation through
   commitOne. The deletes take no key. *)

PostOne(r, op, key) ==
  Post(r, Direct, key, CommitOnePayload(op, key)) /\ UNCHANGED <<txn, promised>>

ClientPut(r, key) == \E f \in FlatsOf(CellMaps) : PostOne(r, PutOp(f, Nil), key)
ClientUpsert(r, key) ==
  \E f \in FlatsOf(CellMaps), u \in Updates : PostOne(r, UpsertOp(f, u, Nil), key)
ClientDelete(r) == \E id \in RowIds : PostOne(r, DeleteOp(id), NoKey)
ClientDeleteByPK(r) == \E pk \in PKs : PostOne(r, DeleteByPKOp(pk), NoKey)

-----------------------------------------------------------------------------
(* The end of a call. CommitTxn returns to Transaction.Commit, which marks
   the transaction only on success; commitOne returns to the caller. *)

\* A plausible slip: the flag is set whatever CommitTxn returned.
MarksAlways(t, outcome) == t # Direct

Marks(t, outcome) == t # Direct /\ outcome.ok

Settle(r, outcome) ==
  LET t == req[r].txn IN
  /\ req' = [req EXCEPT ![r].told = Verdict(outcome)]
  /\ last' = IF t = Direct THEN last
             ELSE [last EXCEPT ![t] = IF outcome.ok THEN "ok" ELSE "failed"]
  /\ IF Marks(t, outcome) THEN Mark(t) ELSE UNCHANGED <<txn, promised>>
  /\ UNCHANGED <<applied, held>>

\* The daemon's answer reaches the caller, whole or not.
Receive(r) ==
  /\ Waiting(r) /\ Answered(r)
  /\ \E arrival \in Arrivals, form \in ResultForms :
       Settle(r, CommitTxn(Exchange(req[r].reply.status, req[r].reply.text, arrival), form))

\* A plausible slip: a client without a timeout.
NoTimeout == 0

\* Seconds before http.Client gives up, as NewClient configures it.
ClientTimeout == 30

TimeoutFires(r) ==
  /\ Waiting(r)
  /\ ClientTimeout > 0
  /\ Settle(r, CommitTxn(NoResponse, "results"))

\* Cancelled context, refused or broken connection: the request may have
\* reached the daemon or not.
ConnectionFails(r) == Waiting(r) /\ Settle(r, CommitTxn(NoResponse, "results"))

\* Something between client and daemon answers in the daemon's place.
GatewayAnswers(r) ==
  /\ Waiting(r)
  /\ \E arrival \in Arrivals :
       Settle(r, CommitTxn(Exchange(504, "plain", arrival), "results"))

-----------------------------------------------------------------------------
(* The daemon, as the client's code relies on it: a batch is applied whole
   or not at all, durably, and at most once for a key; a key is bound to the
   payload it was first applied with. It may handle a request at any time
   after it was sent, or never. *)

Handle(r, reply) ==
  /\ Sent(r) /\ ~Answered(r)
  /\ req' = [req EXCEPT ![r].reply = reply]
  /\ UNCHANGED <<txn, promised, last>>

Holder(r) == held[req[r].payload.key]
Keyed(r) == req[r].payload.key # NoKey

DaemonApplies(r) ==
  /\ Handle(r, OkReply)
  /\ Keyed(r) => Holder(r) = Nobody
  /\ applied' = applied \union {r}
  /\ held' = IF Keyed(r) THEN [held EXCEPT ![req[r].payload.key] = r] ELSE held

\* The original answer again, for the same payload under the same key.
DaemonReplays(r) ==
  /\ Handle(r, OkReply)
  /\ Keyed(r) /\ Holder(r) # Nobody
  /\ req[Holder(r)].payload = req[r].payload
  /\ UNCHANGED <<applied, held>>

\* 409 IDEMPOTENCY_KEY_REUSE_MISMATCH
DaemonReportsReuse(r) ==
  /\ Handle(r, ReuseReply)
  /\ Keyed(r) /\ Holder(r) # Nobody
  /\ req[Holder(r)].payload # req[r].payload
  /\ UNCHANGED <<applied, held>>

\* A constraint, bad credentials, a missing table, a malformed batch, a fault.
DaemonRefuses(r) ==
  /\ \E s \in RefusalStatuses, text \in {"plain", "not found:"} :
       Handle(r, RefusalReply(s, text))
  /\ UNCHANGED <<applied, held>>

-----------------------------------------------------------------------------
TxnNext(t) ==
  \/ Put(t) \/ Upsert(t) \/ Delete(t) \/ DeleteByPK(t)
  \/ CommitRefused(t) \/ CommitEmpty(t) \/ CommitUnsent(t)
  \/ Rollback(t) \/ RollbackRefused(t)
  \/ \E r \in ReqIds, key \in KeyArgs : Commit(t, r, key)

ClientNext(r) ==
  \/ \E key \in KeyArgs : ClientPut(r, key) \/ ClientUpsert(r, key)
  \/ ClientDelete(r) \/ ClientDeleteByPK(r)
  \/ Receive(r) \/ TimeoutFires(r) \/ ConnectionFails(r) \/ GatewayAnswers(r)

DaemonNext(r) ==
  DaemonApplies(r) \/ DaemonReplays(r) \/ DaemonReportsReuse(r) \/ DaemonRefuses(r)

Next == (\E t \in Txns : TxnNext(t)) \/ (\E r \in ReqIds : ClientNext(r) \/ DaemonNext(r))

Spec == Init /\ [][Next]_vars

\* The timer of http.Client runs for every request; nothing else is promised.
Fairness == \A r \in ReqIds : WF_vars(TimeoutFires(r))

FairSpec == Spec /\ Fairness

-----------------------------------------------------------------------------
TypeOK ==
  /\ txn \in [Txns -> [ops : Seq(WireOps), committed : BOOLEAN]]
  /\ promised \in [Txns -> Seq(WireOps)]
  /\ last \in [Txns -> {"none", "ok", "failed", "rolled back", "ErrTxnCommitted"}]
  /\ req \in [ReqIds -> Requests \union {Unused}]
  /\ applied \subseteq ReqIds
  /\ held \in [Keys -> ReqIds \union {Nobody}]

\* r and d are one commit for their callers: same operations and same key.
SameCommit(r, d) ==
  /\ req[r].payload.ops = req[d].payload.ops
  /\ r = d \/ (req[r].key = req[d].key /\ req[r].key # NoKey)

\* Retrying with an idempotency key is safe: whatever was lost, late or sent
\* twice, the daemon has applied at most one batch for the key the callers
\* passed (Transaction.Commit's doc comment, transaction.go:85-86).
AtMostOncePerKey ==
  \A r, d \in applied : req[r].key = req[d].key => r = d \/ req[r].key = NoKey

\* A call that reported success has its operations durable, by itself or by
\* an earlier attempt under the same key; no cut, garbled, oversized or
\* non-2xx answer is ever taken for success (do, client.go:573-584).
AckedIsDurable ==
  \A r \in ReqIds : Sent(r) /\ req[r].told = "ok" => \E d \in applied : SameCommit(r, d)

\* A transaction is marked committed only once all it sent is durable: send
\* first, mark after the daemon confirmed (Commit, transaction.go:97-104).
CommittedMeansDurable ==
  \A t \in Txns : txn[t].committed /\ promised[t] # <<>> =>
    \E r \in applied : req[r].payload.ops = promised[t]

\* However its calls are ordered, a transaction of one goroutine is acknowledged at
\* most once: after a success it never sends again (Commit, transaction.go:90-92).
OneAckPerTransaction ==
  \A r, d \in ReqIds :
    /\ Sent(r) /\ req[r].told = "ok"
    /\ Sent(d) /\ req[d].told = "ok"
    /\ req[r].txn = req[d].txn
    => r = d \/ req[r].txn \in Shared \union {Direct}

\* After a failed Commit the transaction can be retried: it is not marked, and
\* the next Commit is not refused, unless another goroutine's Commit of a shared
\* one succeeded meanwhile (Commit, transaction.go:97-103).
FailedStaysRetryable == \A t \in Txns \ Shared : last[t] = "failed" => ~txn[t].committed

\* What docs/transactions.md says of Rollback after a failed Commit: it returns
\* ErrTxnCommitted, because the transaction entered the committed state when
\* Commit ran.
RollbackAfterFailureRefused ==
  [][\A t \in Txns : last[t] = "failed" => last'[t] # "rolled back"]_vars

\* ErrConflict, ErrAuth and ErrNotFound are definite: the batch of that request
\* was not applied and never will be. That is about the request: an earlier one
\* of unknown outcome under the same key may still be applied
\* (newResponseError, errors.go:84-93).
RefusalMeansNotApplied ==
  \A r \in ReqIds : Sent(r) /\ req[r].told \in Refusals => r \notin applied

\* The operations of a batch, read as the daemon reads them.
MeaningOf(op) ==
  [f \in DOMAIN op |->
     IF f \in {"cells", "update_cells"} /\ op[f] # Nil THEN PairsOf(op[f]) ELSE op[f]]
Meaning(ops) == [i \in DOMAIN ops |-> MeaningOf(ops[i])]

\* A retry of the same operations under the same key is never mistaken for a
\* reuse of the key: the daemon reports reuse only to a caller who really
\* changed the batch (flattenCells, client.go:621-625).
NoSpuriousMismatch ==
  \A r \in ReqIds : Answered(r) /\ req[r].reply.status = 409 /\ req[r].reply.mismatch =>
    \E d \in applied : req[d].key = req[r].key
                       /\ Meaning(req[d].payload.ops) # Meaning(req[r].payload.ops)

\* Every call returns: even when the daemon never answers, the timeout NewClient
\* configures ends it (NewClient, client.go:184).
EveryCallReturns == \A r \in ReqIds : Waiting(r) ~> ~Waiting(r)

-----------------------------------------------------------------------------
(* The inductive invariant: what the safety properties above rest on. *)

\* Applied batches were sent and answered with success.
AppliedIsAnswered == \A r \in applied : Sent(r) /\ IsSuccess(req[r].reply.status)

\* The key a caller passed is the key the daemon sees.
KeyTravels == \A r \in ReqIds : Sent(r) => req[r].payload.key = req[r].key

\* The daemon's key table and the applied batches describe each other.
HeldIsApplied ==
  \A k \in Keys : held[k] # Nobody => held[k] \in applied /\ req[held[k]].key = k
AppliedIsHeld == \A r \in applied : req[r].key # NoKey => held[req[r].key] = r

\* The daemon answers success only for what is durable.
SuccessIsDurable ==
  \A r \in ReqIds : Answered(r) /\ IsSuccess(req[r].reply.status) =>
    \E d \in applied : SameCommit(r, d)

\* A caller is told success only by a success, and a definite refusal only by
\* an answer that is none.
OkIsSuccess ==
  \A r \in ReqIds : Sent(r) /\ req[r].told = "ok" => Answered(r) /\ IsSuccess(req[r].reply.status)
RefusalIsRefusal ==
  \A r \in ReqIds : Sent(r) /\ req[r].told \in Refusals =>
    Answered(r) /\ ~IsSuccess(req[r].reply.status)

\* While Commit blocks, its transaction keeps what was sent, and only another
\* Commit of a shared one can mark it.
BlockedIsFrozen ==
  \A r \in ReqIds : Waiting(r) /\ req[r].txn # Direct =>
    /\ req[r].txn \in Shared \/ ~txn[req[r].txn].committed
    /\ txn[req[r].txn].ops = req[r].payload.ops

\* A transaction of one goroutine has one Commit in progress.
OneCommitAtATime ==
  \A r, d \in ReqIds :
    Waiting(r) /\ Waiting(d) /\ req[r].txn = req[d].txn =>
      r = d \/ req[r].txn \in Shared \union {Direct}

\* An acknowledged transaction is marked.
OkMarks ==
  \A r \in ReqIds : Sent(r) /\ req[r].told = "ok" /\ req[r].txn # Direct =>
    txn[req[r].txn].committed

\* Only a marked transaction has promised anything.
PromiseMarks == \A t \in Txns : promised[t] # <<>> => txn[t].committed

DaemonInv ==
  AppliedIsAnswered /\ KeyTravels /\ HeldIsApplied /\ AppliedIsHeld /\ SuccessIsDurable

ClientInv ==
  /\ OkIsSuccess /\ RefusalIsRefusal /\ BlockedIsFrozen /\ OneCommitAtATime /\ OkMarks /\ PromiseMarks
  /\ OneAckPerTransaction /\ CommittedMeansDurable /\ FailedStaysRetryable

IInv == TypeOK /\ DaemonInv /\ ClientInv

-----------------------------------------------------------------------------
(* The write path implements CommitService. *)

StateOf(told) ==
  CASE told = "waiting" -> "open"
    [] told = "ok" -> "ok"
    [] told \in Refusals -> "rejected"
    [] OTHER -> "unknown"

callBar ==
  [r \in ReqIds |->
     IF Sent(r)
     THEN [st |-> StateOf(req[r].told), key |-> req[r].key, batch |-> req[r].payload.ops]
     ELSE [st |-> "none"]]

Service ==
  INSTANCE CommitService WITH
    Calls <- ReqIds, Batches <- Seq(WireOps), call <- callBar, durable <- applied

\* Seen from the application, calls end as CommitService allows: acknowledged
\* only when durable, rejected only when never applied, unknown otherwise.
ServiceSpec == Service!Init /\ [][Service!Next]_(Service!vars)
=============================================================================
