------------------------- MODULE TransactionProofs -------------------------
(***************************************************************************)
(* Proofs about Transaction: its inductive invariant, the safety           *)
(* properties that follow from it, and that it implements CommitService,   *)
(* for any number of transactions, requests, keys, cells, operations and   *)
(* refusal statuses and any response cap.                                  *)
(***************************************************************************)
EXTENDS Transaction, SequenceProofs

(***************************************************************************)
(* Lemmas about one exchange: what a caller can be told, and what the      *)
(* answer must have been for it.                                           *)
(***************************************************************************)

\* newResponseError always wraps one of the four sentinels.
LEMMA SentinelType ==
  ASSUME NEW status, NEW b
  PROVE  NewResponseError(status, b).sentinel \in Sentinels
<1>1. SentinelOf(status) \in Sentinels
  BY DEF SentinelOf, Sentinels
<1>2. NewResponseError(status, b).sentinel \in {"ErrNotFound", SentinelOf(status)}
  BY DEF NewResponseError
<1> QED BY <1>1, <1>2 DEF Sentinels

\* The outcomes of do: bytes for a 2xx, or an error; an error that wraps
\* anything but ErrQuery answers a status that is not 2xx.
LEMMA DoOutcome ==
  ASSUME NEW x
  PROVE  \/ Do(x) = Returned(BytesRead(x)) /\ IsSuccess(x.status) /\ x.replied
         \/ \E kind : Do(x) = Failed(kind, "none")
         \/ \E kind : Do(x) = Failed(kind, "ErrQuery")
         \/ LET s == NewResponseError(x.status, x.body).sentinel
            IN  /\ Do(x) = Failed("response", s) /\ s \in Sentinels
                /\ ~IsSuccess(x.status) /\ x.replied
<1> DEFINE e == NewResponseError(x.status, x.body).sentinel
<1>1. e \in Sentinels
  BY SentinelType
<1> HIDE DEF e
<1>2. CASE ~(x.encodes /\ x.builds /\ x.replied)
  BY <1>2 DEF Do
<1>3. CASE x.encodes /\ x.builds /\ x.replied
  <2>1. CASE ReadFails(x)
    BY <1>3, <2>1 DEF Do
  <2>2. CASE ~ReadFails(x) /\ Oversized(x)
    BY <1>3, <2>2 DEF Do
  <2>3. CASE ~ReadFails(x) /\ ~Oversized(x)
    BY <1>1, <1>3, <2>3 DEF Do, e, StatusFails, IsSuccess
  <2> QED BY <2>1, <2>2, <2>3
<1> QED BY <1>2, <1>3

\* What a caller is told of an answer: success only for a 2xx, a definite
\* refusal only for an answer that is none.
LEMMA AnswerVerdict ==
  ASSUME NEW status, NEW text, NEW arrival \in Arrivals, NEW form,
         NEW o, o = CommitTxn(Exchange(status, text, arrival), form)
  PROVE  /\ Verdict(o) \in Verdicts
         /\ o.ok <=> Verdict(o) = "ok"
         /\ Verdict(o) = "ok" => IsSuccess(status)
         /\ Verdict(o) \in Refusals => ~IsSuccess(status)
<1> DEFINE x == Exchange(status, text, arrival)
<1>1. x.status = status
  BY DEF Exchange
<1> HIDE DEF x
<1>2. o = IF Do(x).ok THEN DecodeResults(form) ELSE Do(x)
  BY DEF CommitTxn, x
<1>3. \A kind, s : ~Failed(kind, s).ok /\ Failed(kind, s).sentinel = s
  BY DEF Failed
<1>4. Returned(0).ok /\ Returned(BytesRead(x)).ok
  BY DEF Returned
<1>5. \/ o.ok /\ IsSuccess(status)
      \/ ~o.ok /\ o.sentinel \in {"none", "ErrQuery"}
      \/ ~o.ok /\ o.sentinel \in Sentinels /\ ~IsSuccess(status)
  <2>1. CASE Do(x) = Returned(BytesRead(x)) /\ IsSuccess(x.status)
    BY <1>1, <1>2, <1>3, <1>4, <2>1 DEF DecodeResults
  <2>2. CASE \E kind : Do(x) = Failed(kind, "none")
    BY <1>2, <1>3, <2>2
  <2>3. CASE \E kind : Do(x) = Failed(kind, "ErrQuery")
    BY <1>2, <1>3, <2>3
  <2>4. CASE LET s == NewResponseError(x.status, x.body).sentinel
             IN  Do(x) = Failed("response", s) /\ s \in Sentinels /\ ~IsSuccess(x.status)
    BY <1>1, <1>2, <1>3, <2>4
  <2> QED BY <1>1, <2>1, <2>2, <2>3, <2>4, DoOutcome
<1>6. "ok" \notin Sentinels /\ "ErrQuery" \in Sentinels
  BY DEF Sentinels
<1> QED BY <1>5, <1>6 DEF Verdict, Verdicts, Refusals

\* Without a response the caller learns nothing: the error wraps no sentinel.
LEMMA NoResponseVerdict ==
  ASSUME NEW form
  PROVE  LET o == CommitTxn(NoResponse, form)
         IN  ~o.ok /\ Verdict(o) = "none"
<1>1. NoResponse.encodes /\ NoResponse.builds /\ ~NoResponse.replied
  BY DEF NoResponse, Exchange
<1>2. Do(NoResponse) = Failed("transport", "none")
  BY <1>1 DEF Do
<1> QED BY <1>2 DEF CommitTxn, Failed, Verdict

\* An envelope that says only "plain" gives the message "plain".
LEMMA PlainMessage ==
  ASSUME NEW b, b.lead = "none", b.object, b.text = "plain",
         b.nested.message = "plain", b.flat = Undecodable
  PROVE  Said(b).message = "plain"
<1>1. StartsObject(b)
  BY DEF StartsObject
<1>2. Unmarshal(b, "nested") = b.nested /\ Unmarshal(b, "flat") = Undecodable
  BY DEF Unmarshal
<1>3. ~FlatFound(b)
  BY <1>2 DEF FlatFound
<1>4. CASE NestedFound(b)
  <2>1. DecodeErrorEnvelope(b) = Envelope(b.nested)
    BY <1>1, <1>2, <1>4 DEF DecodeErrorEnvelope, Preferred
  <2>2. DecodeErrorEnvelope(b).ok /\ DecodeErrorEnvelope(b).fields = b.nested
    BY <2>1 DEF Envelope
  <2> QED BY <2>2 DEF Said
<1>5. CASE ~NestedFound(b)
  <2>1. ~DecodeErrorEnvelope(b).ok
    BY <1>1, <1>3, <1>5 DEF DecodeErrorEnvelope, NotEnvelope
  <2> QED BY <2>1 DEF Said
<1> QED BY <1>4, <1>5

\* A gateway's 504 is neither a success nor a definite refusal.
LEMMA GatewayVerdict ==
  ASSUME NEW arrival \in Arrivals, NEW form
  PROVE  Verdict(CommitTxn(Exchange(504, "plain", arrival), form)) \notin {"ok"} \union Refusals
<1> DEFINE b == BodySaying("plain")
           x == Exchange(504, "plain", arrival)
<1>1. Said(b).message = "plain"
  <2>1. b.lead = "none" /\ b.object /\ b.text = "plain" /\ b.flat = Undecodable
    BY DEF BodySaying
  <2>2. b.nested.message = "plain"
    BY DEF BodySaying
  <2> QED BY ONLY <2>1, <2>2, PlainMessage
<1>2. x.status = 504 /\ x.body = b
  BY DEF Exchange
<1> HIDE DEF b, x
<1>3. NewResponseError(504, b).sentinel = "ErrQuery"
  BY <1>1 DEF NewResponseError, SentinelOf, IsNotFound
<1>4. ~IsSuccess(x.status)
  BY <1>2 DEF IsSuccess
<1>5. ~Do(x).ok /\ Do(x).sentinel \in {"none", "ErrQuery"}
  BY <1>2, <1>3, <1>4, DoOutcome DEF Failed
<1> QED BY <1>5 DEF CommitTxn, Verdict, Refusals, x

-----------------------------------------------------------------------------
(***************************************************************************)
(* The actions change the state in five ways.                              *)
(***************************************************************************)

\* A method appends an operation.
Stages(t) == \E op \in WireOps : Stage(t, op)

\* A call on a transaction that sends nothing.
Local(t) ==
  CommitRefused(t) \/ CommitEmpty(t) \/ CommitUnsent(t) \/ Rollback(t) \/ RollbackRefused(t)

\* A request is sent for a transaction that may send, or for a direct call.
Sends(r, t, key, ops) ==
  /\ Post(r, t, key, [ops |-> ops, key |-> key])
  /\ UNCHANGED <<txn, promised>>
  /\ ops \in Seq(WireOps) /\ key \in KeyArgs
  /\ \/ t = Direct
     \/ t \in Txns /\ Free(t) /\ ~txn[t].committed /\ ops = txn[t].ops

\* A call ends with a verdict its answer justifies.
Ends(r, o) ==
  /\ Waiting(r) /\ Settle(r, o)
  /\ Verdict(o) \in Verdicts
  /\ o.ok <=> Verdict(o) = "ok"
  /\ Verdict(o) = "ok" => Answered(r) /\ IsSuccess(req[r].reply.status)
  /\ Verdict(o) \in Refusals => Answered(r) /\ ~IsSuccess(req[r].reply.status)

\* The end of a call marks its transaction on success and changes none otherwise.
LEMMA EndsMarks ==
  ASSUME TypeOK, NEW r \in ReqIds, NEW o, Ends(r, o), NEW t, t = req[r].txn,
         t \in Txns \union {Direct}
  PROVE  /\ txn' \in [Txns -> [ops : Seq(WireOps), committed : BOOLEAN]]
         /\ promised' \in [Txns -> Seq(WireOps)]
         /\ \A u \in Txns \ {t} :
              txn'[u] = txn[u] /\ promised'[u] = promised[u] /\ last'[u] = last[u]
         /\ \A u \in Txns : txn'[u].ops = txn[u].ops
         /\ t # Direct /\ Verdict(o) = "ok" =>
              txn'[t].committed /\ promised'[t] = txn[t].ops /\ last'[t] = "ok"
         /\ ~(t # Direct /\ Verdict(o) = "ok") => txn' = txn /\ promised' = promised
         /\ t = Direct => last' = last
         /\ t # Direct /\ Verdict(o) # "ok" => last'[t] = "failed"
<1>1. Settle(r, o) /\ (o.ok <=> Verdict(o) = "ok")
  BY DEF Ends
<1>2. Marks(t, o) <=> t # Direct /\ Verdict(o) = "ok"
  BY <1>1 DEF Marks
<1>3. CASE t # Direct /\ Verdict(o) = "ok"
  <2>1. Mark(t)
    BY <1>1, <1>2, <1>3 DEF Settle
  <2>2. last' = [last EXCEPT ![t] = "ok"]
    BY <1>1, <1>3 DEF Settle
  <2> QED BY <1>3, <2>1, <2>2 DEF Mark, TypeOK
<1>4. CASE ~(t # Direct /\ Verdict(o) = "ok")
  <2>1. txn' = txn /\ promised' = promised
    BY <1>1, <1>2, <1>4 DEF Settle
  <2>2. t = Direct => last' = last
    BY <1>1 DEF Settle
  <2>3. t # Direct => last' = [last EXCEPT ![t] = "failed"]
    BY <1>1, <1>4 DEF Settle
  <2> QED BY <1>4, <2>1, <2>2, <2>3, TransactionAssumption DEF TypeOK
<1> QED BY <1>3, <1>4

\* Every step is of one of these kinds or is the daemon's.
LEMMA StepKinds ==
  ASSUME TypeOK, Next
  PROVE  \/ \E t \in Txns : Stages(t) \/ Local(t)
         \/ \E r \in ReqIds, t \in Txns \union {Direct} : \E key, ops : Sends(r, t, key, ops)
         \/ \E r \in ReqIds : \E o : Ends(r, o)
         \/ \E r \in ReqIds : DaemonNext(r)
<1>1. ASSUME NEW t \in Txns, TxnNext(t)
      PROVE  \/ Stages(t) \/ Local(t)
             \/ \E r \in ReqIds : \E key, ops : Sends(r, t, key, ops)
  <2>1. Put(t) => Stages(t)
    BY DEF Put, Stages, PutOp, WireOps
  <2>2. Upsert(t) => Stages(t)
    BY DEF Upsert, Stages, UpsertOp, WireOps
  <2>3. Delete(t) \/ DeleteByPK(t) => Stages(t)
    BY DEF Delete, DeleteByPK, Stages, DeleteOp, DeleteByPKOp, WireOps
  <2>4. ASSUME NEW r \in ReqIds, NEW key \in KeyArgs, Commit(t, r, key)
        PROVE  Sends(r, t, key, txn[t].ops)
    BY <2>4 DEF Commit, Sends, CommitTxnPayload, MaySend, MarkLater, TypeOK
  <2> QED BY <1>1, <2>1, <2>2, <2>3, <2>4 DEF TxnNext, Local
<1>2. ASSUME NEW r \in ReqIds, NEW op \in WireOps, NEW key \in KeyArgs, PostOne(r, op, key)
      PROVE  Sends(r, Direct, key, <<op>>)
  BY <1>2 DEF PostOne, Sends, CommitOnePayload
<1>3. ASSUME NEW r \in ReqIds, ClientNext(r)
      PROVE  (\E key, ops : Sends(r, Direct, key, ops)) \/ (\E o : Ends(r, o))
  <2>1. NoKey \in KeyArgs
    BY DEF KeyArgs
  <2>2. ASSUME NEW key \in KeyArgs, ClientPut(r, key)
        PROVE  \E op \in WireOps : PostOne(r, op, key)
    BY <2>2 DEF ClientPut, PutOp, WireOps
  <2>3. ASSUME NEW key \in KeyArgs, ClientUpsert(r, key)
        PROVE  \E op \in WireOps : PostOne(r, op, key)
    BY <2>3 DEF ClientUpsert, UpsertOp, WireOps
  <2>4. ClientDelete(r) \/ ClientDeleteByPK(r) => \E op \in WireOps : PostOne(r, op, NoKey)
    BY DEF ClientDelete, ClientDeleteByPK, DeleteOp, DeleteByPKOp, WireOps
  <2>5. Receive(r) => \E o : Ends(r, o)
    BY AnswerVerdict DEF Receive, Ends
  <2>6. TimeoutFires(r) \/ ConnectionFails(r) => \E o : Ends(r, o)
    BY NoResponseVerdict DEF TimeoutFires, ConnectionFails, Ends, Verdicts, Refusals
  <2>7. GatewayAnswers(r) => \E o : Ends(r, o)
    BY AnswerVerdict, GatewayVerdict DEF GatewayAnswers, Ends
  <2> QED BY <1>2, <1>3, <2>1, <2>2, <2>3, <2>4, <2>5, <2>6, <2>7 DEF ClientNext
<1> QED BY <1>1, <1>3 DEF Next

-----------------------------------------------------------------------------
(***************************************************************************)
(* Type correctness.                                                       *)
(***************************************************************************)

\* A sent request is a record of the declared shape.
LEMMA SentType ==
  ASSUME TypeOK, NEW r \in ReqIds, Sent(r)
  PROVE  req[r] \in Requests
  BY DEF TypeOK, Sent

LEMMA InitType == Init => TypeOK
  BY DEF Init, TypeOK

LEMMA StagesType ==
  ASSUME TypeOK, NEW t \in Txns, Stages(t)
  PROVE  TypeOK'
<1>1. PICK op \in WireOps : Stage(t, op)
  BY DEF Stages
<1>2. txn[t] \in [ops : Seq(WireOps), committed : BOOLEAN]
  BY DEF TypeOK
<1>3. Append(txn[t].ops, op) \in Seq(WireOps)
  BY <1>2
<1>4. [txn[t] EXCEPT !.ops = Append(@, op)] \in [ops : Seq(WireOps), committed : BOOLEAN]
  BY <1>2, <1>3
<1> QED BY <1>1, <1>4 DEF Stage, TypeOK

LEMMA LocalType ==
  ASSUME TypeOK, NEW t \in Txns, Local(t)
  PROVE  TypeOK'
<1>1. CASE CommitRefused(t)
  BY <1>1 DEF CommitRefused, TypeOK
<1>2. CASE CommitEmpty(t)
  BY <1>2 DEF CommitEmpty, TypeOK
<1>3. CASE CommitUnsent(t)
  BY <1>3 DEF CommitUnsent, TypeOK
<1>4. CASE Rollback(t)
  <2>1. <<>> \in Seq(WireOps)
    OBVIOUS
  <2>2. txn' \in [Txns -> [ops : Seq(WireOps), committed : BOOLEAN]]
    BY <1>4, <2>1 DEF Rollback, TypeOK
  <2> QED BY <1>4, <2>2 DEF Rollback, TypeOK
<1>5. CASE RollbackRefused(t)
  BY <1>5 DEF RollbackRefused, TypeOK
<1> QED BY <1>1, <1>2, <1>3, <1>4, <1>5 DEF Local

LEMMA SendsType ==
  ASSUME TypeOK, NEW r \in ReqIds, NEW t \in Txns \union {Direct}, NEW key, NEW ops,
         Sends(r, t, key, ops)
  PROVE  TypeOK'
<1>1. [txn |-> t, key |-> key, payload |-> [ops |-> ops, key |-> key],
       reply |-> NotAnswered, told |-> "waiting"] \in Requests
  BY DEF Sends, Requests
<1> QED BY <1>1 DEF Sends, Post, TypeOK

LEMMA EndsType ==
  ASSUME TypeOK, NEW r \in ReqIds, NEW o, Ends(r, o)
  PROVE  TypeOK'
<1>1. req[r] \in Requests /\ Verdict(o) \in Verdicts
  BY SentType DEF Ends, Waiting
<1>2. [req[r] EXCEPT !.told = Verdict(o)] \in Requests
  BY <1>1 DEF Requests
<1>3. req' \in [ReqIds -> Requests \union {Unused}]
  BY <1>1, <1>2 DEF Ends, Settle, TypeOK
<1>4. req[r].txn \in Txns \union {Direct}
  BY <1>1 DEF Requests
<1>5. last' \in [Txns -> {"none", "ok", "failed", "rolled back", "ErrTxnCommitted"}]
  BY <1>4 DEF Ends, Settle, TypeOK
<1>6. txn' \in [Txns -> [ops : Seq(WireOps), committed : BOOLEAN]]
      /\ promised' \in [Txns -> Seq(WireOps)]
  BY <1>4, EndsMarks
<1> QED BY <1>3, <1>5, <1>6 DEF Ends, Settle, TypeOK

\* The daemon's answers, and which of them are a success.
LEMMA ReplyTypes ==
  /\ OkReply \in Replies /\ IsSuccess(OkReply.status)
  /\ ReuseReply \in Replies /\ ~IsSuccess(ReuseReply.status)
  /\ \A s \in RefusalStatuses, text \in {"plain", "not found:"} :
       RefusalReply(s, text) \in Replies /\ ~IsSuccess(RefusalReply(s, text).status)
  BY TransactionAssumption DEF OkReply, ReuseReply, RefusalReply, Replies, IsSuccess

LEMMA DaemonType ==
  ASSUME TypeOK, NEW r \in ReqIds, DaemonNext(r)
  PROVE  TypeOK'
<1>1. ASSUME NEW reply \in Replies, Handle(r, reply)
      PROVE  req' \in [ReqIds -> Requests \union {Unused}] /\ UNCHANGED <<txn, promised, last>>
  <2>1. req[r] \in Requests
    BY <1>1, SentType DEF Handle
  <2>2. [req[r] EXCEPT !.reply = reply] \in Requests
    BY <2>1 DEF Requests
  <2> QED BY <1>1, <2>2 DEF Handle, TypeOK
<1>2. CASE DaemonApplies(r)
  BY <1>1, <1>2, ReplyTypes DEF DaemonApplies, TypeOK
<1>3. CASE DaemonReplays(r)
  BY <1>1, <1>3, ReplyTypes DEF DaemonReplays, TypeOK
<1>4. CASE DaemonReportsReuse(r)
  BY <1>1, <1>4, ReplyTypes DEF DaemonReportsReuse, TypeOK
<1>5. CASE DaemonRefuses(r)
  BY <1>1, <1>5, ReplyTypes DEF DaemonRefuses, TypeOK
<1> QED BY <1>2, <1>3, <1>4, <1>5 DEF DaemonNext

LEMMA NextType == TypeOK /\ [Next]_vars => TypeOK'
<1>1. ASSUME TypeOK, Next
      PROVE  TypeOK'
  BY <1>1, StepKinds, StagesType, LocalType, SendsType, EndsType, DaemonType
<1>2. TypeOK /\ UNCHANGED vars => TypeOK'
  BY DEF TypeOK, vars
<1> QED BY <1>1, <1>2

\* The variables keep their types: transactions hold sequences of wire
\* operations, requests are records of the declared shape, and the daemon's
\* tables range over requests that exist.
THEOREM TypeCorrect == Spec => []TypeOK
  BY InitType, NextType, PTL DEF Spec

-----------------------------------------------------------------------------
(***************************************************************************)
(* The daemon's half of the invariant speaks of req, applied and held only,*)
(* and of a request only what never changes once it is answered.           *)
(***************************************************************************)

\* What no step changes of a request once it is sent.
SameRequest(d) ==
  /\ Sent(d)' <=> Sent(d)
  /\ Sent(d) => /\ req'[d].txn = req[d].txn
                /\ req'[d].key = req[d].key
                /\ req'[d].payload = req[d].payload

\* A request is touched by its own send, its end and its answer only.
LEMMA SendsRequest ==
  ASSUME TypeOK, NEW r \in ReqIds, NEW t \in Txns \union {Direct}, NEW key, NEW ops,
         Sends(r, t, key, ops)
  PROVE  /\ ~Sent(r) /\ Sent(r)'
         /\ req'[r] = [txn |-> t, key |-> key, payload |-> [ops |-> ops, key |-> key],
                       reply |-> NotAnswered, told |-> "waiting"]
         /\ \A d \in ReqIds \ {r} : req'[d] = req[d]
<1>1. req'[r] = [txn |-> t, key |-> key, payload |-> [ops |-> ops, key |-> key],
                 reply |-> NotAnswered, told |-> "waiting"]
  BY DEF Sends, Post, TypeOK
<1>2. req'[r] \in Requests
  BY <1>1 DEF Sends, Requests
<1> QED BY <1>1, <1>2, UnusedAssumption DEF Sends, Post, Sent, TypeOK

LEMMA EndsRequest ==
  ASSUME TypeOK, NEW r \in ReqIds, NEW o, Ends(r, o)
  PROVE  /\ Waiting(r) /\ ~Waiting(r)'
         /\ req'[r].told = Verdict(o) /\ req'[r].reply = req[r].reply
         /\ \A d \in ReqIds : SameRequest(d)
         /\ \A d \in ReqIds \ {r} : req'[d] = req[d]
<1>1. req[r] \in Requests
  BY SentType DEF Ends, Waiting
<1>2. req'[r] = [req[r] EXCEPT !.told = Verdict(o)]
  BY DEF Ends, Settle, TypeOK
<1>3. \A d \in ReqIds \ {r} : req'[d] = req[d]
  BY DEF Ends, Settle, TypeOK
<1>4. req'[r] \in Requests
  BY <1>1, <1>2 DEF Ends, Requests
<1>5. Sent(r) /\ Sent(r)'
  BY <1>4, UnusedAssumption DEF Sent, Ends, Waiting
<1>6. SameRequest(r) /\ req'[r].told = Verdict(o) /\ req'[r].reply = req[r].reply
  BY <1>1, <1>2, <1>5 DEF SameRequest, Requests
<1>7. Verdict(o) # "waiting"
  BY DEF Ends, Verdicts, Sentinels
<1> QED BY <1>3, <1>6, <1>7 DEF SameRequest, Sent, Ends, Waiting

LEMMA HandleRequest ==
  ASSUME TypeOK, NEW r \in ReqIds, NEW reply \in Replies, Handle(r, reply)
  PROVE  /\ Sent(r) /\ ~Answered(r)
         /\ req'[r].reply = reply /\ req'[r].told = req[r].told
         /\ \A d \in ReqIds : SameRequest(d)
         /\ \A d \in ReqIds \ {r} : req'[d] = req[d]
<1>1. req[r] \in Requests
  BY SentType DEF Handle
<1>2. req'[r] = [req[r] EXCEPT !.reply = reply]
  BY DEF Handle, TypeOK
<1>3. \A d \in ReqIds \ {r} : req'[d] = req[d]
  BY DEF Handle, TypeOK
<1>4. req'[r] \in Requests
  BY <1>1, <1>2 DEF Requests
<1>5. Sent(r) /\ Sent(r)'
  BY <1>4, UnusedAssumption DEF Sent, Handle
<1>6. SameRequest(r) /\ req'[r].told = req[r].told /\ req'[r].reply = reply
  BY <1>1, <1>2, <1>5 DEF SameRequest, Requests
<1> QED BY <1>3, <1>6 DEF SameRequest, Sent, Handle

-----------------------------------------------------------------------------
(***************************************************************************)
(* The daemon's half: what is applied, held and answered.                  *)
(***************************************************************************)

LEMMA InitDaemon == Init => DaemonInv
  BY DEF Init, DaemonInv, AppliedIsAnswered, KeyTravels, HeldIsApplied, AppliedIsHeld,
         SuccessIsDurable, Answered, Sent

\* A request that answers nothing keeps the answers of all others.
LEMMA SameCommitKept ==
  ASSUME NEW r \in ReqIds, NEW d \in ReqIds, Sent(r), Sent(d), 
         SameRequest(r), SameRequest(d), SameCommit(r, d)
  PROVE  SameCommit(r, d)'
  BY DEF SameRequest, SameCommit

LEMMA SendsDaemon ==
  ASSUME TypeOK, DaemonInv, NEW r \in ReqIds, NEW t \in Txns \union {Direct}, NEW key, NEW ops,
         Sends(r, t, key, ops)
  PROVE  DaemonInv'
<1>1. /\ ~Sent(r)
      /\ req'[r] = [txn |-> t, key |-> key, payload |-> [ops |-> ops, key |-> key],
                    reply |-> NotAnswered, told |-> "waiting"]
      /\ \A d \in ReqIds \ {r} : req'[d] = req[d]
      /\ applied' = applied /\ held' = held
  <2>1. applied' = applied /\ held' = held
    BY DEF Sends, Post
  <2> QED BY <2>1, SendsRequest
<1>2. \A d \in applied : d \in ReqIds \ {r}
  BY <1>1 DEF DaemonInv, AppliedIsAnswered, TypeOK
<1>3. AppliedIsAnswered'
  BY <1>1, <1>2 DEF DaemonInv, AppliedIsAnswered, Sent
<1>4. KeyTravels'
  BY <1>1 DEF DaemonInv, KeyTravels, Sent
<1>5. HeldIsApplied' /\ AppliedIsHeld'
  BY <1>1, <1>2 DEF DaemonInv, HeldIsApplied, AppliedIsHeld
<1>6. SuccessIsDurable'
  <2>1. ASSUME NEW d \in ReqIds, Answered(d)', IsSuccess(req'[d].reply.status)
        PROVE  \E e \in applied' : SameCommit(d, e)'
    <3>1. d # r
      BY <1>1, <2>1 DEF Answered
    <3>2. PICK e \in applied : SameCommit(d, e)
      BY <1>1, <2>1, <3>1 DEF DaemonInv, SuccessIsDurable, Answered, Sent
    <3> QED BY <1>1, <1>2, <3>1, <3>2 DEF SameCommit
  <2> QED BY <2>1 DEF SuccessIsDurable
<1> QED BY <1>3, <1>4, <1>5, <1>6 DEF DaemonInv

LEMMA EndsDaemon ==
  ASSUME TypeOK, DaemonInv, NEW r \in ReqIds, NEW o, Ends(r, o)
  PROVE  DaemonInv'
<1>1. /\ \A d \in ReqIds : SameRequest(d) /\ (Sent(d) => req'[d].reply = req[d].reply)
      /\ applied' = applied /\ held' = held
  BY EndsRequest DEF Ends, Settle, Sent
<1>2. \A d \in applied : d \in ReqIds /\ Sent(d)
  BY DEF DaemonInv, AppliedIsAnswered, TypeOK
<1>3. AppliedIsAnswered'
  BY <1>1, <1>2 DEF DaemonInv, AppliedIsAnswered, SameRequest
<1>4. KeyTravels'
  BY <1>1 DEF DaemonInv, KeyTravels, SameRequest
<1>5. HeldIsApplied' /\ AppliedIsHeld'
  BY <1>1, <1>2 DEF DaemonInv, HeldIsApplied, AppliedIsHeld, SameRequest
<1>6. SuccessIsDurable'
  <2>1. ASSUME NEW d \in ReqIds, Answered(d)', IsSuccess(req'[d].reply.status)
        PROVE  \E e \in applied' : SameCommit(d, e)'
    <3>1. Answered(d) /\ IsSuccess(req[d].reply.status)
      BY <1>1, <2>1 DEF Answered, SameRequest
    <3>2. PICK e \in applied : SameCommit(d, e)
      BY <3>1 DEF DaemonInv, SuccessIsDurable
    <3> QED BY <1>1, <1>2, <3>1, <3>2, SameCommitKept DEF Answered
  <2> QED BY <2>1 DEF SuccessIsDurable
<1> QED BY <1>3, <1>4, <1>5, <1>6 DEF DaemonInv

\* Answering r leaves the other requests and what r asked for; it keeps the
\* invariant if a success has a durable batch behind it.
LEMMA HandleDaemon ==
  ASSUME TypeOK, DaemonInv, NEW r \in ReqIds, NEW reply \in Replies, Handle(r, reply),
         UNCHANGED <<applied, held>>,
         IsSuccess(reply.status) => \E e \in applied : SameCommit(r, e)
  PROVE  DaemonInv'
<1>1. /\ Sent(r) /\ ~Answered(r)
      /\ req'[r].reply = reply
      /\ \A d \in ReqIds : SameRequest(d)
      /\ \A d \in ReqIds \ {r} : req'[d] = req[d]
      /\ applied' = applied /\ held' = held
  BY HandleRequest
<1>2. \A d \in applied : d \in ReqIds \ {r} /\ Sent(d)
  <2>1. ~IsSuccess(NotAnswered.status)
    BY DEF NotAnswered, IsSuccess
  <2> QED BY <1>1, <2>1 DEF DaemonInv, AppliedIsAnswered, Answered, TypeOK
<1>3. AppliedIsAnswered'
  BY <1>1, <1>2 DEF DaemonInv, AppliedIsAnswered, Sent
<1>4. KeyTravels'
  BY <1>1 DEF DaemonInv, KeyTravels, SameRequest
<1>5. HeldIsApplied' /\ AppliedIsHeld'
  BY <1>1, <1>2 DEF DaemonInv, HeldIsApplied, AppliedIsHeld, SameRequest
<1>6. SuccessIsDurable'
  <2>1. ASSUME NEW d \in ReqIds, Answered(d)', IsSuccess(req'[d].reply.status)
        PROVE  \E e \in applied' : SameCommit(d, e)'
    <3>1. Sent(d)
      BY <1>1, <2>1 DEF Answered, SameRequest
    <3>2. PICK e \in applied : SameCommit(d, e)
      BY <1>1, <2>1 DEF DaemonInv, SuccessIsDurable, Answered, Sent
    <3> QED BY <1>1, <1>2, <3>1, <3>2, SameCommitKept
  <2> QED BY <2>1 DEF SuccessIsDurable
<1> QED BY <1>3, <1>4, <1>5, <1>6 DEF DaemonInv

LEMMA DaemonDaemon ==
  ASSUME TypeOK, DaemonInv, NEW r \in ReqIds, DaemonNext(r)
  PROVE  DaemonInv'
<1>1. CASE DaemonApplies(r)
  <2>1. Handle(r, OkReply)
    BY <1>1 DEF DaemonApplies
  <2>2. /\ Sent(r) /\ ~Answered(r)
        /\ IsSuccess(req'[r].reply.status)
        /\ \A d \in ReqIds : SameRequest(d)
        /\ \A d \in ReqIds \ {r} : req'[d] = req[d]
    BY <2>1, HandleRequest, ReplyTypes
  <2>3. \A d \in applied : d \in ReqIds \ {r} /\ Sent(d)
    <3>1. ~IsSuccess(NotAnswered.status)
      BY DEF NotAnswered, IsSuccess
    <3> QED BY <2>2, <3>1 DEF DaemonInv, AppliedIsAnswered, Answered, TypeOK
  <2>4. req[r].payload.key = req[r].key /\ req[r].key \in KeyArgs
    BY <2>2, SentType DEF DaemonInv, KeyTravels, Requests
  <2>5. /\ applied' = applied \union {r}
        /\ req[r].key = NoKey => held' = held
        /\ req[r].key # NoKey => /\ held[req[r].key] = Nobody
                                 /\ held' = [held EXCEPT ![req[r].key] = r]
    BY <1>1, <2>4 DEF DaemonApplies, Keyed, Holder
  <2>6. AppliedIsAnswered'
    BY <2>2, <2>3, <2>5 DEF DaemonInv, AppliedIsAnswered, SameRequest
  <2>7. KeyTravels'
    BY <2>2 DEF DaemonInv, KeyTravels, SameRequest
  <2>8. HeldIsApplied' /\ AppliedIsHeld'
    <3>1. CASE req[r].key = NoKey
      BY <2>2, <2>3, <2>5, <3>1 DEF DaemonInv, HeldIsApplied, AppliedIsHeld, SameRequest
    <3>2. CASE req[r].key # NoKey
      <4>1. req[r].key \in Keys
        BY <2>4, <3>2 DEF KeyArgs
      <4>2. held'[req[r].key] = r /\ \A k \in Keys \ {req[r].key} : held'[k] = held[k]
        BY <2>5, <3>2, <4>1 DEF TypeOK
      <4>3. \A d \in applied : req[d].key # req[r].key
        BY <2>3, <2>5, <3>2, <4>1, TransactionAssumption DEF DaemonInv, AppliedIsHeld, TypeOK
      <4>4. \A d \in applied : req[d].key \in KeyArgs
        BY <2>3, SentType DEF Requests
      <4>5. HeldIsApplied'
        BY <2>2, <2>3, <2>5, <4>2 DEF DaemonInv, HeldIsApplied, SameRequest
      <4>6. AppliedIsHeld'
        BY <2>2, <2>3, <2>5, <4>2, <4>3, <4>4 DEF DaemonInv, AppliedIsHeld, SameRequest, KeyArgs
      <4> QED BY <4>5, <4>6
    <3> QED BY <3>1, <3>2
  <2>9. SuccessIsDurable'
    <3>1. ASSUME NEW d \in ReqIds, Answered(d)', IsSuccess(req'[d].reply.status), d # r
          PROVE  \E e \in applied' : SameCommit(d, e)'
      <4>1. Sent(d)
        BY <2>2, <3>1 DEF Answered, SameRequest
      <4>2. PICK e \in applied : SameCommit(d, e)
        BY <2>2, <3>1 DEF DaemonInv, SuccessIsDurable, Answered, Sent
      <4> QED BY <2>2, <2>3, <2>5, <4>1, <4>2, SameCommitKept
    <3>2. r \in applied' /\ SameCommit(r, r)'
      BY <2>5 DEF SameCommit
    <3> QED BY <3>1, <3>2 DEF SuccessIsDurable
  <2> QED BY <2>6, <2>7, <2>8, <2>9 DEF DaemonInv
<1>2. CASE DaemonReplays(r)
  <2>1. /\ Handle(r, OkReply)
        /\ Keyed(r) /\ Holder(r) # Nobody
        /\ req[Holder(r)].payload = req[r].payload
        /\ UNCHANGED <<applied, held>>
    BY <1>2 DEF DaemonReplays
  <2>2. Sent(r) /\ req[r].payload.key = req[r].key /\ req[r].key \in KeyArgs
    BY <2>1, SentType DEF Handle, DaemonInv, KeyTravels, Requests
  <2>3. req[r].key \in Keys /\ Holder(r) \in applied /\ req[Holder(r)].key = req[r].key
    BY <2>1, <2>2 DEF Keyed, Holder, KeyArgs, DaemonInv, HeldIsApplied
  <2>4. SameCommit(r, Holder(r))
    BY <2>1, <2>2, <2>3 DEF SameCommit, Keyed
  <2> QED BY <2>1, <2>3, <2>4, HandleDaemon, ReplyTypes
<1>3. CASE DaemonReportsReuse(r)
  BY <1>3, HandleDaemon, ReplyTypes DEF DaemonReportsReuse
<1>4. CASE DaemonRefuses(r)
  BY <1>4, HandleDaemon, ReplyTypes DEF DaemonRefuses
<1> QED BY <1>1, <1>2, <1>3, <1>4 DEF DaemonNext

\* Actions that leave req, applied and held alone leave the daemon's half alone.
LEMMA QuietDaemon ==
  DaemonInv /\ UNCHANGED <<req, applied, held>> => DaemonInv'
  BY DEF DaemonInv, AppliedIsAnswered, KeyTravels, HeldIsApplied, AppliedIsHeld,
         SuccessIsDurable, SameCommit, Answered, Sent

LEMMA NextDaemon == TypeOK /\ DaemonInv /\ [Next]_vars => DaemonInv'
<1>1. ASSUME TypeOK, DaemonInv, NEW t \in Txns, Stages(t) \/ Local(t)
      PROVE  DaemonInv'
  <2>1. UNCHANGED <<req, applied, held>>
    BY <1>1 DEF Stages, Stage, Local, CommitRefused, CommitEmpty, CommitUnsent,
                Rollback, RollbackRefused
  <2> QED BY <1>1, <2>1, QuietDaemon
<1>2. UNCHANGED vars => UNCHANGED <<req, applied, held>>
  BY DEF vars
<1> QED BY <1>1, <1>2, QuietDaemon, StepKinds, SendsDaemon, EndsDaemon, DaemonDaemon

-----------------------------------------------------------------------------
(***************************************************************************)
(* The client's half: what callers were told and how transactions are      *)
(* marked.                                                                 *)
(***************************************************************************)

LEMMA InitClient == Init => ClientInv
  BY DEF Init, ClientInv, OkIsSuccess, RefusalIsRefusal, BlockedIsFrozen, OneCommitAtATime,
         OkMarks, PromiseMarks, OneAckPerTransaction, CommittedMeansDurable,
         FailedStaysRetryable, Waiting, Sent

\* Staging touches the operations of a transaction nobody waits for.
LEMMA StagesClient ==
  ASSUME TypeOK, ClientInv, NEW t \in Txns, Stages(t)
  PROVE  ClientInv'
<1>1. /\ Idle(t)
      /\ \A u \in Txns : txn'[u].committed = txn[u].committed
      /\ \A u \in Txns \ {t} : txn'[u] = txn[u]
      /\ UNCHANGED <<promised, last, req, applied>>
  <2>1. PICK op \in WireOps : Stage(t, op)
    BY DEF Stages
  <2>2. txn[t] \in [ops : Seq(WireOps), committed : BOOLEAN]
    BY DEF TypeOK
  <2>3. txn'[t].committed = txn[t].committed
    BY <2>1, <2>2 DEF Stage, TypeOK
  <2>4. \A u \in Txns \ {t} : txn'[u] = txn[u]
    BY <2>1 DEF Stage, TypeOK
  <2> QED BY <2>1, <2>3, <2>4 DEF Stage
<1>2. BlockedIsFrozen'
  <2>1. ASSUME NEW r \in ReqIds, Waiting(r)', req'[r].txn # Direct
        PROVE  /\ req[r].txn \in Shared \/ ~txn'[req[r].txn].committed
               /\ txn'[req[r].txn].ops = req[r].payload.ops
    <3>1. Waiting(r) /\ req[r].txn # t /\ req[r].txn \in Txns
      BY <1>1, <2>1, SentType DEF Waiting, Sent, Idle, Requests
    <3> QED BY <1>1, <2>1, <3>1 DEF ClientInv, BlockedIsFrozen
  <2> QED BY <1>1, <2>1 DEF BlockedIsFrozen
<1>3. OkMarks'
  <2>1. ASSUME NEW r \in ReqIds, Sent(r), req[r].told = "ok", req[r].txn # Direct
        PROVE  txn'[req[r].txn].committed
    <3>1. req[r].txn \in Txns
      BY <2>1, SentType DEF Requests
    <3> QED BY <1>1, <2>1, <3>1 DEF ClientInv, OkMarks
  <2> QED BY <1>1, <2>1 DEF OkMarks, Sent
<1>4. OkIsSuccess' /\ RefusalIsRefusal' /\ OneCommitAtATime' /\ OneAckPerTransaction'
  BY <1>1 DEF ClientInv, OkIsSuccess, RefusalIsRefusal, OneCommitAtATime,
              OneAckPerTransaction, Waiting, Answered, Sent
<1>5. PromiseMarks' /\ CommittedMeansDurable' /\ FailedStaysRetryable'
  BY <1>1 DEF ClientInv, PromiseMarks, CommittedMeansDurable, FailedStaysRetryable
<1> QED BY <1>2, <1>3, <1>4, <1>5 DEF ClientInv

\* A call that sends nothing changes no operations while another Commit of the
\* transaction waits; it marks the transaction only when that is empty, unmarked
\* and has promised nothing.
LEMMA LocalClient ==
  ASSUME TypeOK, ClientInv, NEW t \in Txns, Local(t)
  PROVE  ClientInv'
<1>1. /\ Idle(t) \/ (t \in Shared /\ txn'[t].ops = txn[t].ops)
      /\ txn[t].committed => txn'[t].committed
      /\ \A u \in Txns \ {t} : txn'[u] = txn[u] /\ last'[u] = last[u]
      /\ last'[t] = "failed" => ~txn'[t].committed
      /\ UNCHANGED <<promised, req, applied>>
  BY DEF Local, CommitRefused, CommitEmpty, CommitUnsent, Rollback, RollbackRefused,
         Free, MaySend, TypeOK
<1>2. BlockedIsFrozen'
  <2>1. ASSUME NEW r \in ReqIds, Waiting(r)', req'[r].txn # Direct
        PROVE  /\ req[r].txn \in Shared \/ ~txn'[req[r].txn].committed
               /\ txn'[req[r].txn].ops = req[r].payload.ops
    <3>1. Waiting(r) /\ req[r].txn \in Txns /\ req[r].txn # Direct
      BY <1>1, <2>1, SentType DEF Waiting, Sent, Requests
    <3>2. req[r].txn = t => t \in Shared /\ txn'[t].ops = txn[t].ops
      BY <1>1, <3>1 DEF Idle
    <3> QED BY <1>1, <3>1, <3>2 DEF ClientInv, BlockedIsFrozen
  <2> QED BY <1>1, <2>1 DEF BlockedIsFrozen
<1>3. OkMarks'
  <2>1. ASSUME NEW r \in ReqIds, Sent(r), req[r].told = "ok", req[r].txn # Direct
        PROVE  txn'[req[r].txn].committed
    <3>1. req[r].txn \in Txns
      BY <2>1, SentType DEF Requests
    <3> QED BY <1>1, <2>1, <3>1 DEF ClientInv, OkMarks
  <2> QED BY <1>1, <2>1 DEF OkMarks, Sent
<1>4. OkIsSuccess' /\ RefusalIsRefusal' /\ OneCommitAtATime' /\ OneAckPerTransaction'
  BY <1>1 DEF ClientInv, OkIsSuccess, RefusalIsRefusal, OneCommitAtATime,
              OneAckPerTransaction, Waiting, Answered, Sent
<1>5. PromiseMarks' /\ FailedStaysRetryable'
  BY <1>1 DEF ClientInv, PromiseMarks, FailedStaysRetryable
<1>6. CommittedMeansDurable'
  BY <1>1 DEF ClientInv, PromiseMarks, CommittedMeansDurable
<1> QED BY <1>2, <1>3, <1>4, <1>5, <1>6 DEF ClientInv

\* A new request belongs to an unmarked transaction, idle unless shared, or to none.
LEMMA SendsClient ==
  ASSUME TypeOK, DaemonInv, ClientInv, NEW r \in ReqIds, NEW t \in Txns \union {Direct},
         NEW key, NEW ops, Sends(r, t, key, ops)
  PROVE  ClientInv'
<1>1. /\ ~Sent(r) /\ Sent(r)'
      /\ req'[r] = [txn |-> t, key |-> key, payload |-> [ops |-> ops, key |-> key],
                    reply |-> NotAnswered, told |-> "waiting"]
      /\ \A d \in ReqIds \ {r} : req'[d] = req[d]
  BY SendsRequest
<1>2. /\ UNCHANGED <<txn, promised, last, applied>>
      /\ t # Direct => Free(t) /\ ~txn[t].committed /\ ops = txn[t].ops
  BY DEF Sends, Post
<1>3. req'[r].txn = t /\ req'[r].told = "waiting" /\ req'[r].payload.ops = ops
  BY <1>1
<1>4. "waiting" \notin Refusals \union {"ok"}
  BY DEF Refusals
<1>5. OkIsSuccess' /\ RefusalIsRefusal' /\ OkMarks' /\ OneAckPerTransaction'
  BY <1>1, <1>2, <1>3, <1>4 DEF ClientInv, OkIsSuccess, RefusalIsRefusal, OkMarks,
     OneAckPerTransaction, Answered, Sent
<1>6. BlockedIsFrozen'
  BY <1>1, <1>2, <1>3 DEF ClientInv, BlockedIsFrozen, Waiting, Sent
<1>7. OneCommitAtATime'
  BY <1>1, <1>2, <1>3 DEF ClientInv, OneCommitAtATime, Free, Idle, Waiting, Sent
<1>8. \A d \in applied : d \in ReqIds \ {r}
  BY <1>1 DEF DaemonInv, AppliedIsAnswered, TypeOK
<1>9. CommittedMeansDurable' /\ PromiseMarks' /\ FailedStaysRetryable'
  BY <1>1, <1>2, <1>8 DEF ClientInv, PromiseMarks, CommittedMeansDurable, FailedStaysRetryable
<1> QED BY <1>5, <1>6, <1>7, <1>9 DEF ClientInv

\* When a call ends its transaction is still frozen: it is marked exactly when
\* the call succeeded, and what it then promises is what was sent.
LEMMA EndsClient ==
  ASSUME TypeOK, DaemonInv, ClientInv, NEW r \in ReqIds, NEW o, Ends(r, o)
  PROVE  ClientInv'
<1> DEFINE t == req[r].txn
<1>1. /\ Waiting(r) /\ ~Waiting(r)'
      /\ req'[r].told = Verdict(o) /\ req'[r].reply = req[r].reply
      /\ \A d \in ReqIds : SameRequest(d)
      /\ \A d \in ReqIds \ {r} : req'[d] = req[d]
  BY EndsRequest
<1>2. /\ Sent(r) /\ t \in Txns \union {Direct}
      /\ o.ok <=> Verdict(o) = "ok"
      /\ Verdict(o) = "ok" => Answered(r) /\ IsSuccess(req[r].reply.status)
      /\ Verdict(o) \in Refusals => Answered(r) /\ ~IsSuccess(req[r].reply.status)
      /\ applied' = applied
  BY SentType DEF Ends, Settle, Waiting, Requests
<1>3. t # Direct => t \in Txns /\ txn[t].ops = req[r].payload.ops
  BY <1>1, <1>2 DEF ClientInv, BlockedIsFrozen
<1>3a. t # Direct /\ t \notin Shared => ~txn[t].committed
  BY <1>1, <1>2 DEF ClientInv, BlockedIsFrozen
<1>3b. /\ \A u \in Txns : txn'[u].ops = txn[u].ops
       /\ t # Direct /\ Verdict(o) = "ok" =>
            txn'[t].committed /\ promised'[t] = txn[t].ops /\ last'[t] = "ok"
       /\ ~(t # Direct /\ Verdict(o) = "ok") => txn' = txn /\ promised' = promised
       /\ t = Direct => last' = last
       /\ t # Direct /\ Verdict(o) # "ok" => last'[t] = "failed"
  BY <1>2, EndsMarks
<1>4. \A u \in Txns \ {t} : txn'[u] = txn[u] /\ promised'[u] = promised[u] /\ last'[u] = last[u]
  BY <1>2, EndsMarks
<1>5. OkIsSuccess' /\ RefusalIsRefusal'
  BY <1>1, <1>2 DEF ClientInv, OkIsSuccess, RefusalIsRefusal, SameRequest, Answered, Sent
<1>6. OneCommitAtATime'
  BY <1>1 DEF ClientInv, OneCommitAtATime, Waiting, Sent
<1>7. BlockedIsFrozen'
  <2>1. ASSUME NEW d \in ReqIds, Waiting(d)', req'[d].txn # Direct
        PROVE  /\ req'[d].txn \in Shared \/ ~txn'[req'[d].txn].committed
               /\ txn'[req'[d].txn].ops = req'[d].payload.ops
    <3>1. d # r /\ Waiting(d) /\ req[d].txn # Direct /\ req'[d] = req[d]
      BY <1>1, <2>1 DEF Waiting, Sent
    <3>2. req[d].txn \in Txns
      BY <3>1, SentType DEF Waiting, Requests
    <3>3. req[d].txn = t => t \in Shared
      BY <1>1, <3>1 DEF ClientInv, OneCommitAtATime
    <3>4. txn'[req[d].txn].ops = txn[req[d].txn].ops
      BY <1>3b, <3>2
    <3> QED BY <1>4, <3>1, <3>2, <3>3, <3>4 DEF ClientInv, BlockedIsFrozen
  <2> QED BY <2>1 DEF BlockedIsFrozen
<1>8. CASE t # Direct /\ Verdict(o) = "ok"
  <2>1. txn'[t].committed /\ promised'[t] = txn[t].ops /\ last'[t] = "ok"
    BY <1>8, <1>3b
  <2>2. PICK e \in applied : SameCommit(r, e)
    BY <1>2, <1>8 DEF DaemonInv, SuccessIsDurable
  <2>3. Sent(e) /\ e \in ReqIds /\ req[e].payload.ops = req[r].payload.ops
    BY <2>2 DEF DaemonInv, AppliedIsAnswered, SameCommit, TypeOK
  <2>4. req'[e].payload.ops = promised'[t]
    BY <1>1, <1>3, <1>8, <2>1, <2>3 DEF SameRequest
  <2>5. \A d \in applied : req'[d].payload = req[d].payload
    BY <1>1 DEF DaemonInv, AppliedIsAnswered, TypeOK, SameRequest
  <2>6. CommittedMeansDurable'
    BY <1>2, <1>4, <2>2, <2>4, <2>5 DEF ClientInv, CommittedMeansDurable
  <2>7. PromiseMarks' /\ FailedStaysRetryable'
    BY <1>4, <2>1 DEF ClientInv, PromiseMarks, FailedStaysRetryable
  <2>8. \A d \in ReqIds : Sent(d) /\ req[d].told = "ok" => req[d].txn # t \/ t \in Shared
    BY <1>8, <1>3a DEF ClientInv, OkMarks
  <2>9. OneAckPerTransaction' /\ OkMarks'
    <3>1. OneAckPerTransaction'
      BY <1>1, <2>8 DEF ClientInv, OneAckPerTransaction, SameRequest, Sent
    <3>2. ASSUME NEW d \in ReqIds, Sent(d)', req'[d].told = "ok", req'[d].txn # Direct
          PROVE  txn'[req'[d].txn].committed
      <4>1. CASE d = r
        BY <1>1, <1>2, <2>1, <4>1 DEF SameRequest
      <4>2. CASE d # r
        <5>1. Sent(d) /\ req[d].told = "ok" /\ req[d].txn # Direct /\ req[d].txn \in Txns
          BY <1>1, <3>2, <4>2, SentType DEF Sent, Requests
        <5> QED BY <1>1, <1>4, <2>1, <4>2, <5>1 DEF ClientInv, OkMarks
      <4> QED BY <4>1, <4>2
    <3> QED BY <3>1, <3>2 DEF OkMarks
  <2> QED BY <1>5, <1>6, <1>7, <2>6, <2>7, <2>9 DEF ClientInv
<1>9. CASE ~(t # Direct /\ Verdict(o) = "ok")
  <2>1. /\ \A u \in Txns : txn'[u] = txn[u] /\ promised'[u] = promised[u]
        /\ t # Direct => last'[t] = "failed" /\ (t \in Shared \/ ~txn[t].committed)
        /\ t = Direct => last' = last
    BY <1>9, <1>3a, <1>3b
  <2>2. \A d \in applied : req'[d].payload = req[d].payload
    BY <1>1 DEF DaemonInv, AppliedIsAnswered, TypeOK, SameRequest
  <2>3. CommittedMeansDurable' /\ PromiseMarks'
    BY <1>2, <2>1, <2>2 DEF ClientInv, CommittedMeansDurable, PromiseMarks
  <2>4. FailedStaysRetryable'
    BY <1>4, <2>1 DEF ClientInv, FailedStaysRetryable
  <2>5. t # Direct => req'[r].told # "ok"
    BY <1>1, <1>2, <1>9
  <2>6. OneAckPerTransaction'
    BY <1>1, <2>5 DEF ClientInv, OneAckPerTransaction, SameRequest, Sent
  <2>7. OkMarks'
    <3>1. ASSUME NEW d \in ReqIds, Sent(d)', req'[d].told = "ok", req'[d].txn # Direct
          PROVE  txn'[req'[d].txn].committed
      <4>1. d # r
        BY <1>1, <2>5, <3>1 DEF SameRequest
      <4>2. Sent(d) /\ req'[d] = req[d] /\ req[d].txn \in Txns
        BY <1>1, <3>1, <4>1, SentType DEF Sent, Requests
      <4> QED BY <2>1, <3>1, <4>2 DEF ClientInv, OkMarks
    <3> QED BY <3>1 DEF OkMarks
  <2> QED BY <1>5, <1>6, <1>7, <2>3, <2>4, <2>6, <2>7 DEF ClientInv
<1> QED BY <1>8, <1>9

\* The daemon only answers requests and applies batches; it never changes what
\* a caller was told.
LEMMA DaemonClient ==
  ASSUME TypeOK, DaemonInv, ClientInv, NEW r \in ReqIds, DaemonNext(r)
  PROVE  ClientInv'
<1>1. PICK reply \in Replies : Handle(r, reply)
  BY ReplyTypes DEF DaemonNext, DaemonApplies, DaemonReplays, DaemonReportsReuse, DaemonRefuses
<1>2. applied \subseteq applied'
  BY DEF DaemonNext, DaemonApplies, DaemonReplays, DaemonReportsReuse, DaemonRefuses
<1>3. UNCHANGED <<txn, promised, last>>
  BY <1>1 DEF Handle
<1>4. /\ Sent(r) /\ ~Answered(r)
      /\ req'[r].told = req[r].told
      /\ \A d \in ReqIds : SameRequest(d)
      /\ \A d \in ReqIds \ {r} : req'[d] = req[d]
  BY <1>1, HandleRequest
<1>5. \A d \in ReqIds : Sent(d) => req'[d].told = req[d].told
  BY <1>4
<1>6. req[r].told \notin Refusals \union {"ok"}
  BY <1>4 DEF ClientInv, OkIsSuccess, RefusalIsRefusal
<1>7. OkIsSuccess' /\ RefusalIsRefusal'
  BY <1>4, <1>6 DEF ClientInv, OkIsSuccess, RefusalIsRefusal, Answered, Sent
<1>8. BlockedIsFrozen' /\ OneCommitAtATime' /\ OkMarks' /\ OneAckPerTransaction'
  BY <1>3, <1>4, <1>5 DEF ClientInv, BlockedIsFrozen, OneCommitAtATime, OkMarks,
     OneAckPerTransaction, SameRequest, Waiting
<1>9. CommittedMeansDurable'
  <2>1. \A d \in applied : req'[d].payload = req[d].payload
    BY <1>4 DEF DaemonInv, AppliedIsAnswered, TypeOK, SameRequest
  <2> QED BY <1>2, <1>3, <2>1 DEF ClientInv, CommittedMeansDurable
<1>10. PromiseMarks' /\ FailedStaysRetryable'
  BY <1>3 DEF ClientInv, PromiseMarks, FailedStaysRetryable
<1> QED BY <1>7, <1>8, <1>9, <1>10 DEF ClientInv

LEMMA NextClient == TypeOK /\ DaemonInv /\ ClientInv /\ [Next]_vars => ClientInv'
<1>1. TypeOK /\ DaemonInv /\ ClientInv /\ Next => ClientInv'
  BY StepKinds, StagesClient, LocalClient, SendsClient, EndsClient, DaemonClient
<1>2. ClientInv /\ UNCHANGED vars => ClientInv'
  BY DEF vars, ClientInv, OkIsSuccess, RefusalIsRefusal, BlockedIsFrozen, OneCommitAtATime,
         OkMarks, PromiseMarks, OneAckPerTransaction, CommittedMeansDurable,
         FailedStaysRetryable, Waiting, Answered, Sent
<1> QED BY <1>1, <1>2

-----------------------------------------------------------------------------
\* The inductive invariant holds in every reachable state: the daemon's tables
\* fit the requests, and callers and transactions know no more than the answers
\* they received.
THEOREM Inductive == Spec => []IInv
<1>1. Init => IInv
  BY InitType, InitDaemon, InitClient DEF IInv
<1>2. IInv /\ [Next]_vars => IInv'
  BY NextType, NextDaemon, NextClient DEF IInv
<1> QED BY <1>1, <1>2, PTL DEF Spec

\* Retries under an idempotency key are safe (transaction.go:85-86): whatever
\* is lost, late or retried, at most one batch per key is applied.
THEOREM KeyedRetryIsSafe == Spec => []AtMostOncePerKey
<1>1. IInv => AtMostOncePerKey
  BY DEF IInv, DaemonInv, AppliedIsHeld, AtMostOncePerKey
<1> QED BY <1>1, Inductive, PTL

\* A reported success is durable (client.go:573-584): no answer but a whole
\* 2xx is taken for success.
THEOREM SuccessIsKept == Spec => []AckedIsDurable
<1>1. IInv => AckedIsDurable
  BY DEF IInv, DaemonInv, ClientInv, OkIsSuccess, SuccessIsDurable, AckedIsDurable
<1> QED BY <1>1, Inductive, PTL

\* A transaction marked committed has its operations durable
\* (transaction.go:97-104).
THEOREM MarkIsKept == Spec => []CommittedMeansDurable
<1>1. IInv => CommittedMeansDurable
  BY DEF IInv, ClientInv
<1> QED BY <1>1, Inductive, PTL

\* A transaction of one goroutine is acknowledged at most once
\* (transaction.go:90-92).
THEOREM AckOnceThenFinal == Spec => []OneAckPerTransaction
<1>1. IInv => OneAckPerTransaction
  BY DEF IInv, ClientInv
<1> QED BY <1>1, Inductive, PTL

\* A failed Commit leaves its transaction unmarked, to be retried or rolled
\* back (transaction.go:97-103).
THEOREM FailureIsRetryable == Spec => []FailedStaysRetryable
<1>1. IInv => FailedStaysRetryable
  BY DEF IInv, ClientInv
<1> QED BY <1>1, Inductive, PTL

\* ErrConflict, ErrAuth and ErrNotFound are definite (errors.go:84-93): the
\* refused request is not applied.
THEOREM RefusalIsDefinite == Spec => []RefusalMeansNotApplied
<1>1. IInv => RefusalMeansNotApplied
  BY DEF IInv, DaemonInv, ClientInv, AppliedIsAnswered, RefusalIsRefusal, RefusalMeansNotApplied
<1> QED BY <1>1, Inductive, PTL

-----------------------------------------------------------------------------
(***************************************************************************)
(* No spurious mismatch.  The wire form of a batch determines what the     *)
(* batch means and is determined by it, so two payloads that differ under  *)
(* one key mean different things.                                          *)
(***************************************************************************)

AllMaps == CellMaps \union (UpdateMaps \ {Nil})

\* The array of a map does not depend on the iteration order.
LEMMA FlatsAreWireArrays ==
  /\ \A f \in FlatsOf(CellMaps) \union Updates :
       f = Nil \/ \E c \in AllMaps : f = WireArray(c)
  /\ \A c \in AllMaps : IsCells(c) /\ WireArray(c) # Nil /\ PairsOf(WireArray(c)) # Nil
<1>1. \A c \in AllMaps : IsCells(c)
  BY MapsAssumption DEF AllMaps
<1>2. ASSUME NEW maps \in SUBSET AllMaps, NEW f \in FlatsOf(maps)
      PROVE  \E c \in AllMaps : f = WireArray(c)
  <2>1. PICK c \in maps : \E order \in RangeOrders(c) : f = FlattenCells(c, order)
    BY DEF FlatsOf
  <2> QED BY <1>1, <2>1, FlattenIsWireArray DEF IsCells
<1>3. ASSUME NEW c \in AllMaps
      PROVE  WireArray(c) \in FlatsOf(AllMaps)
  <2>1. PICK order \in RangeOrders(c) : TRUE
    BY <1>1, OrdersList DEF IsCells, RangeOrders
  <2>2. FlattenCells(c, order) = WireArray(c)
    BY <1>1, FlattenIsWireArray DEF IsCells
  <2> QED BY <2>2 DEF FlatsOf
<1>4. \A c \in AllMaps : WireArray(c) # Nil /\ PairsOf(WireArray(c)) # Nil
  BY <1>3, MapsAssumption DEF AllMaps
<1>5. \A f \in FlatsOf(CellMaps) \union Updates : f = Nil \/ \E c \in AllMaps : f = WireArray(c)
  BY <1>2 DEF Updates, AllMaps
<1> QED BY <1>1, <1>4, <1>5

\* Operations that read the same are the same on the wire.
LEMMA MeaningOfIsInjective ==
  ASSUME NEW o \in WireOps, NEW p \in WireOps, MeaningOf(o) = MeaningOf(p)
  PROVE  o = p
<1> DEFINE Maps == {"cells", "update_cells"}
<1>1. \A q \in WireOps :
        /\ q = [f \in DOMAIN q |-> q[f]]
        /\ \A f \in DOMAIN q \intersect Maps : q[f] \in FlatsOf(CellMaps) \union Updates
  BY DEF WireOps
<1>2. DOMAIN o = DOMAIN p
  BY DEF MeaningOf
<1>3. ASSUME NEW f \in DOMAIN o
      PROVE  o[f] = p[f]
  <2>1. (IF f \in Maps /\ o[f] # Nil THEN PairsOf(o[f]) ELSE o[f])
        = (IF f \in Maps /\ p[f] # Nil THEN PairsOf(p[f]) ELSE p[f])
    <3>1. MeaningOf(o)[f] = IF f \in Maps /\ o[f] # Nil THEN PairsOf(o[f]) ELSE o[f]
      BY DEF MeaningOf
    <3>2. MeaningOf(p)[f] = IF f \in Maps /\ p[f] # Nil THEN PairsOf(p[f]) ELSE p[f]
      BY <1>2 DEF MeaningOf
    <3> QED BY <3>1, <3>2
  <2>2. CASE f \notin Maps
    BY <2>1, <2>2
  <2>3. CASE f \in Maps
    <3>1. /\ o[f] = Nil \/ \E c \in AllMaps : o[f] = WireArray(c)
          /\ p[f] = Nil \/ \E c \in AllMaps : p[f] = WireArray(c)
      BY <1>1, <1>2, <2>3, FlatsAreWireArrays
    <3>2. CASE o[f] = Nil \/ p[f] = Nil
      BY <2>1, <2>3, <3>1, <3>2, FlatsAreWireArrays
    <3>3. CASE o[f] # Nil /\ p[f] # Nil
      <4>1. PICK c \in AllMaps, d \in AllMaps : o[f] = WireArray(c) /\ p[f] = WireArray(d)
        BY <3>1, <3>3
      <4>2. PairsOf(WireArray(c)) = PairsOf(WireArray(d))
        BY <2>1, <2>3, <3>3, <4>1
      <4>3. c = d
        BY <4>2, FlatsAreWireArrays, GraphDeterminesMap
      <4> QED BY <4>1, <4>3
    <3> QED BY <3>2, <3>3
  <2> QED BY <2>2, <2>3
<1> QED BY <1>1, <1>2, <1>3

\* So do batches.
LEMMA MeaningIsInjective ==
  ASSUME NEW s \in Seq(WireOps), NEW t \in Seq(WireOps), Meaning(s) = Meaning(t)
  PROVE  s = t
<1>1. DOMAIN s = DOMAIN t
  BY DEF Meaning
<1>2. ASSUME NEW i \in DOMAIN s
      PROVE  s[i] = t[i]
  <2>1. s[i] \in WireOps /\ t[i] \in WireOps
    BY <1>1
  <2>2. MeaningOf(s[i]) = MeaningOf(t[i])
    BY <1>1 DEF Meaning
  <2> QED BY <2>1, <2>2, MeaningOfIsInjective
<1> QED BY <1>1, <1>2

\* A reuse is reported only of a request whose key holds another payload.
ReuseIsReal ==
  \A r \in ReqIds : Answered(r) /\ req[r].reply.mismatch =>
    \E d \in applied : req[d].key = req[r].key /\ req[d].payload.ops # req[r].payload.ops

\* A report stands: keys and payloads do not change, nothing applied is taken
\* back, and no step but DaemonReportsReuse makes a new report.
LEMMA ReuseKept ==
  ASSUME AppliedIsAnswered, ReuseIsReal, applied \subseteq ReqIds, applied \subseteq applied',
         \A d \in ReqIds : SameRequest(d) \/ ~Sent(d),
         NEW r \in ReqIds, Answered(r), req[r].reply.mismatch
  PROVE  \E d \in applied' : req'[d].key = req'[r].key
                             /\ req'[d].payload.ops # req'[r].payload.ops
<1>1. PICK d \in applied : req[d].key = req[r].key /\ req[d].payload.ops # req[r].payload.ops
  BY DEF ReuseIsReal
<1>2. Sent(d) /\ Sent(r) /\ d \in ReqIds
  BY <1>1 DEF AppliedIsAnswered, Answered
<1> QED BY <1>1, <1>2 DEF SameRequest

LEMMA NextReuse == IInv /\ ReuseIsReal /\ [Next]_vars => ReuseIsReal'
<1>0. SUFFICES ASSUME IInv, ReuseIsReal, [Next]_vars PROVE ReuseIsReal'
  OBVIOUS
<1>1. TypeOK /\ DaemonInv /\ AppliedIsAnswered /\ KeyTravels /\ HeldIsApplied /\ applied \subseteq ReqIds
  BY <1>0 DEF IInv, DaemonInv, TypeOK
<1>2. CASE UNCHANGED <<req, applied>>
  BY <1>0, <1>2 DEF ReuseIsReal, Answered, Sent
<1>3. ASSUME NEW r \in ReqIds, NEW t \in Txns \union {Direct}, NEW key, NEW ops,
             Sends(r, t, key, ops)
      PROVE  ReuseIsReal'
  <2>1. /\ ~Sent(r) /\ req'[r].reply = NotAnswered
        /\ \A d \in ReqIds \ {r} : req'[d] = req[d]
    <3>1. /\ ~Sent(r)
          /\ req'[r] = [txn |-> t, key |-> key, payload |-> [ops |-> ops, key |-> key],
                        reply |-> NotAnswered, told |-> "waiting"]
          /\ \A d \in ReqIds \ {r} : req'[d] = req[d]
      BY <1>1, <1>3, SendsRequest
    <3> QED BY <3>1
  <2>2. applied' = applied /\ \A d \in ReqIds : SameRequest(d) \/ ~Sent(d)
    BY <1>3, <2>1 DEF Sends, Post, SameRequest, Sent
  <2>3. ASSUME NEW s \in ReqIds, Answered(s)', req'[s].reply.mismatch
        PROVE  Answered(s) /\ req[s].reply.mismatch
    BY <2>1, <2>3 DEF Answered, Sent
  <2> QED BY <1>0, <1>1, <2>2, <2>3, ReuseKept DEF ReuseIsReal
<1>4. ASSUME NEW r \in ReqIds, NEW o, Ends(r, o)
      PROVE  ReuseIsReal'
  <2>1. /\ req'[r].reply = req[r].reply
        /\ \A d \in ReqIds : SameRequest(d)
        /\ \A d \in ReqIds \ {r} : req'[d] = req[d]
    BY <1>1, <1>4, EndsRequest
  <2>2. applied' = applied
    BY <1>4 DEF Ends, Settle
  <2>3. ASSUME NEW s \in ReqIds, Answered(s)', req'[s].reply.mismatch
        PROVE  Answered(s) /\ req[s].reply.mismatch
    BY <2>1, <2>3 DEF Answered, SameRequest
  <2> QED BY <1>0, <1>1, <2>1, <2>2, <2>3, ReuseKept DEF ReuseIsReal
<1>5. ASSUME NEW r \in ReqIds, DaemonNext(r)
      PROVE  ReuseIsReal'
  <2>1. applied \subseteq applied'
    BY <1>5 DEF DaemonNext, DaemonApplies, DaemonReplays, DaemonReportsReuse, DaemonRefuses
  <2>2. PICK reply \in Replies :
          Handle(r, reply) /\ (reply.mismatch => DaemonReportsReuse(r))
    <3>1. /\ ~OkReply.mismatch
          /\ \A s, text : ~RefusalReply(s, text).mismatch
      BY DEF OkReply, RefusalReply
    <3>2. CASE DaemonApplies(r) \/ DaemonReplays(r)
      BY <3>1, <3>2, ReplyTypes DEF DaemonApplies, DaemonReplays
    <3>3. CASE DaemonReportsReuse(r)
      BY <3>3, ReplyTypes DEF DaemonReportsReuse
    <3>4. CASE DaemonRefuses(r)
      BY <3>1, <3>4, ReplyTypes DEF DaemonRefuses
    <3> QED BY <1>5, <3>2, <3>3, <3>4 DEF DaemonNext
  <2>3. /\ Sent(r) /\ req'[r].reply = reply
        /\ \A d \in ReqIds : SameRequest(d)
        /\ \A d \in ReqIds \ {r} : req'[d] = req[d]
    BY <1>1, <2>2, HandleRequest
  <2>4. ASSUME NEW s \in ReqIds \ {r}, Answered(s)', req'[s].reply.mismatch
        PROVE  Answered(s) /\ req[s].reply.mismatch
    BY <2>3, <2>4 DEF Answered, Sent
  <2>5. ASSUME DaemonReportsReuse(r)
        PROVE  \E d \in applied' : req'[d].key = req'[r].key
                                   /\ req'[d].payload.ops # req'[r].payload.ops
    <3> DEFINE d == Holder(r)
    <3>1. Keyed(r) /\ d # Nobody /\ req[d].payload # req[r].payload
      BY <2>5 DEF DaemonReportsReuse
    <3>2. req[r] \in Requests /\ req[r].payload.key = req[r].key
      BY <1>1, <2>3, SentType DEF KeyTravels
    <3>3. req[r].key \in Keys
      BY <3>1, <3>2 DEF Keyed, Requests, KeyArgs
    <3>4. d \in applied /\ req[d].key = req[r].key
      BY <1>1, <3>1, <3>2, <3>3 DEF HeldIsApplied, Holder
    <3> HIDE DEF d
    <3>5. Sent(d) /\ d \in ReqIds /\ req[d] \in Requests /\ req[d].payload.key = req[d].key
      BY <1>1, <3>4, SentType DEF AppliedIsAnswered, KeyTravels
    <3>6. req[d].payload.ops # req[r].payload.ops
      BY <3>1, <3>2, <3>4, <3>5 DEF Requests
    <3> QED BY <2>1, <2>3, <3>4, <3>5, <3>6 DEF SameRequest
  <2>6. ASSUME NEW s \in ReqIds, Answered(s)', req'[s].reply.mismatch
        PROVE  \E d \in applied' : req'[d].key = req'[s].key
                                   /\ req'[d].payload.ops # req'[s].payload.ops
    <3>1. CASE s = r
      BY <2>2, <2>3, <2>5, <2>6, <3>1
    <3>2. CASE s # r
      BY <1>0, <1>1, <2>1, <2>3, <2>4, <2>6, <3>2, ReuseKept
    <3> QED BY <3>1, <3>2
  <2> QED BY <2>6 DEF ReuseIsReal
<1>6. CASE \E t \in Txns : Stages(t) \/ Local(t)
  <2>1. UNCHANGED <<req, applied>>
    BY <1>6 DEF Stages, Stage, Local, CommitRefused, CommitEmpty, CommitUnsent, Rollback,
       RollbackRefused
  <2> QED BY <1>2, <2>1
<1>7. CASE Next
  BY <1>1, <1>3, <1>4, <1>5, <1>6, <1>7, StepKinds
<1>8. CASE UNCHANGED vars
  BY <1>2, <1>8 DEF vars
<1> QED BY <1>0, <1>7, <1>8

\* A retry of the same operations is never taken for a reuse of the key, in
\* whatever order Go ranged over their cells (client.go:621-625).
THEOREM ReuseIsReported == Spec => []NoSpuriousMismatch
<1>1. Init => ReuseIsReal
  BY DEF Init, ReuseIsReal, Answered, Sent
<1>2. IInv /\ ReuseIsReal => NoSpuriousMismatch
  <2>1. SUFFICES ASSUME IInv, ReuseIsReal, NEW r \in ReqIds, Answered(r), req[r].reply.mismatch
                 PROVE  \E d \in applied : req[d].key = req[r].key
                          /\ Meaning(req[d].payload.ops) # Meaning(req[r].payload.ops)
    BY DEF NoSpuriousMismatch
  <2>2. PICK d \in applied : req[d].key = req[r].key /\ req[d].payload.ops # req[r].payload.ops
    BY <2>1 DEF ReuseIsReal
  <2>3. Sent(d) /\ Sent(r) /\ d \in ReqIds
    BY <2>1 DEF IInv, DaemonInv, AppliedIsAnswered, Answered, TypeOK
  <2>4. req[d].payload.ops \in Seq(WireOps) /\ req[r].payload.ops \in Seq(WireOps)
    BY <2>1, <2>3, SentType DEF IInv, Requests
  <2> QED BY <2>2, <2>4, MeaningIsInjective
<1> QED BY <1>1, <1>2, NextReuse, Inductive, PTL DEF Spec
=============================================================================
