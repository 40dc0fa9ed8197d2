----------------------- MODULE TransactionRefinement -----------------------
(***************************************************************************)
(* Transaction implements CommitService: every step of the write path is,  *)
(* through callBar, a step the abstract service allows, or none.           *)
(***************************************************************************)
EXTENDS TransactionProofs

\* What a call looks like from the application, once it was made.
Seen(r) == [st |-> StateOf(req[r].told), key |-> req[r].key, batch |-> req[r].payload.ops]

LEMMA CallBar ==
  ASSUME NEW r \in ReqIds
  PROVE  /\ Sent(r) => callBar[r] = Seen(r)
         /\ ~Sent(r) => callBar[r] = [st |-> "none"]
  BY DEF callBar, Seen

\* The same, in the next state.
LEMMA CallBarNext ==
  ASSUME NEW r \in ReqIds
  PROVE  /\ Sent(r)' => callBar'[r] = Seen(r)'
         /\ ~Sent(r)' => callBar'[r] = [st |-> "none"]
  BY DEF callBar, Seen, Sent

\* A step that changes one request changes one call.
LEMMA OneCall ==
  ASSUME NEW r \in ReqIds, \A d \in ReqIds \ {r} : req'[d] = req[d]
  PROVE  callBar' = [callBar EXCEPT ![r] = callBar'[r]]
  BY DEF callBar, Sent

LEMMA StateOfTold ==
  /\ StateOf("waiting") = "open"
  /\ StateOf("ok") = "ok"
  /\ \A v \in Refusals : StateOf(v) = "rejected"
  /\ \A v \in Verdicts \ ({"ok"} \union Refusals) : StateOf(v) = "unknown"
<1>1. "waiting" \notin Verdicts /\ "waiting" \notin Refusals /\ "ok" \notin Refusals
  BY DEF Verdicts, Sentinels, Refusals
<1> QED BY <1>1 DEF StateOf, Refusals

\* Nothing is submitted in the initial state.
LEMMA InitRefines == Init => Service!Init
  BY DEF Init, Service!Init, Service!NotMade, callBar, Sent

\* Sending a request submits its batch.
LEMMA SendsRefines ==
  ASSUME TypeOK, NEW r \in ReqIds, NEW t \in Txns \union {Direct}, NEW key, NEW ops,
         Sends(r, t, key, ops)
  PROVE  Service!Submit(r)
<1>1. /\ ~Sent(r) /\ Sent(r)'
      /\ req'[r] = [txn |-> t, key |-> key, payload |-> [ops |-> ops, key |-> key],
                    reply |-> NotAnswered, told |-> "waiting"]
      /\ \A d \in ReqIds \ {r} : req'[d] = req[d]
  BY SendsRequest
<1>2. applied' = applied /\ ops \in Seq(WireOps) /\ key \in KeyArgs
  BY DEF Sends, Post
<1>3. callBar[r] = [st |-> "none"]
  BY <1>1, CallBar
<1>4. callBar'[r] = [st |-> "open", key |-> key, batch |-> ops]
  BY <1>1, CallBarNext, StateOfTold DEF Seen
<1>5. callBar'[r] \in [st : {"open"}, key : Keys \union {NoKey}, batch : Seq(WireOps)]
  BY <1>2, <1>4 DEF KeyArgs
<1> QED BY <1>1, <1>2, <1>3, <1>5, OneCall DEF Service!Submit, Service!Submitted, Service!NotMade

\* The end of a call acknowledges it, rejects it or gives it up.
LEMMA EndsRefines ==
  ASSUME IInv, NEW r \in ReqIds, NEW o, Ends(r, o)
  PROVE  Service!Acknowledge(r) \/ Service!Reject(r) \/ Service!GiveUp(r)
<1> USE DEF IInv
<1>1. /\ Waiting(r) /\ req'[r].told = Verdict(o)
      /\ SameRequest(r)
      /\ \A d \in ReqIds \ {r} : req'[d] = req[d]
  BY EndsRequest
<1>2. /\ applied' = applied /\ Verdict(o) \in Verdicts
      /\ Verdict(o) = "ok" => Answered(r) /\ IsSuccess(req[r].reply.status)
      /\ Verdict(o) \in Refusals => Answered(r) /\ ~IsSuccess(req[r].reply.status)
  BY DEF Ends, Settle
<1>3. callBar[r] = [st |-> "open", key |-> req[r].key, batch |-> req[r].payload.ops]
  BY <1>1, CallBar, StateOfTold DEF Waiting, Seen
<1>4. callBar'[r] = [callBar[r] EXCEPT !.st = StateOf(Verdict(o))]
  <2>1. callBar'[r] = [st |-> StateOf(Verdict(o)), key |-> req[r].key,
                       batch |-> req[r].payload.ops]
    BY <1>1, CallBarNext DEF SameRequest, Waiting, Seen
  <2> QED BY <1>3, <2>1
<1>5. callBar' = [callBar EXCEPT ![r].st = StateOf(Verdict(o))]
  BY <1>1, <1>4, OneCall
<1>6. callBar[r].st = "open"
  BY <1>3
<1>7. CASE Verdict(o) = "ok"
  <2>1. PICK e \in applied : SameCommit(r, e)
    BY <1>2, <1>7 DEF DaemonInv, SuccessIsDurable
  <2>2. e \in ReqIds /\ Sent(e)
    BY <2>1 DEF DaemonInv, AppliedIsAnswered, TypeOK
  <2>3. callBar[e] = [st |-> StateOf(req[e].told), key |-> req[e].key,
                      batch |-> req[e].payload.ops]
    BY <2>2, CallBar DEF Seen
  <2>4. /\ callBar[e].key = req[e].key /\ callBar[e].batch = req[e].payload.ops
        /\ callBar[r].key = req[r].key /\ callBar[r].batch = req[r].payload.ops
    BY <1>3, <2>3
  <2>5. Service!SameCommit(r, e)
    BY ONLY <2>1, <2>4 DEF Service!SameCommit, SameCommit
  <2>6. callBar' = [callBar EXCEPT ![r].st = "ok"]
    BY <1>5, <1>7, StateOfTold
  <2>7. Service!Acknowledge(r)
    BY ONLY <1>2, <1>6, <2>1, <2>5, <2>6 DEF Service!Acknowledge
  <2> QED BY ONLY <2>7
<1>8. CASE Verdict(o) \in Refusals
  <2>1. r \notin applied
    BY <1>2, <1>8 DEF DaemonInv, AppliedIsAnswered
  <2>2. callBar' = [callBar EXCEPT ![r].st = "rejected"]
    BY <1>5, <1>8, StateOfTold
  <2>3. Service!Reject(r)
    BY ONLY <1>2, <1>6, <2>1, <2>2 DEF Service!Reject
  <2> QED BY ONLY <2>3
<1>9. CASE Verdict(o) \notin {"ok"} \union Refusals
  <2>1. callBar' = [callBar EXCEPT ![r].st = "unknown"]
    BY <1>2, <1>5, <1>9, StateOfTold
  <2>2. Service!GiveUp(r)
    BY ONLY <1>2, <1>6, <2>1 DEF Service!GiveUp
  <2> QED BY ONLY <2>2
<1> QED BY ONLY <1>7, <1>8, <1>9

\* Handling a request changes nothing the application sees of any call.
LEMMA HandleUnseen ==
  ASSUME TypeOK, NEW r \in ReqIds, NEW reply \in Replies, Handle(r, reply)
  PROVE  callBar' = callBar
<1>1. /\ req'[r].told = req[r].told /\ Sent(r)
      /\ \A d \in ReqIds : SameRequest(d)
      /\ \A d \in ReqIds \ {r} : req'[d] = req[d]
  BY HandleRequest
<1>2. callBar' = [callBar EXCEPT ![r] = callBar'[r]]
  BY <1>1, OneCall
<1>3. callBar[r] = Seen(r) /\ callBar'[r] = Seen(r)'
  BY <1>1, CallBar, CallBarNext DEF SameRequest
<1>4. Seen(r)' = Seen(r)
  BY <1>1 DEF Seen, SameRequest
<1>5. callBar = [callBar EXCEPT ![r] = callBar[r]]
  BY DEF callBar
<1> QED BY <1>2, <1>3, <1>4, <1>5

\* A batch is applied while its call is open or given up, and once per key.
LEMMA AppliesRefines ==
  ASSUME IInv, NEW r \in ReqIds, DaemonApplies(r)
  PROVE  Service!Apply(r)
<1>1. TypeOK /\ DaemonInv /\ ClientInv
  BY DEF IInv
<1>2. Handle(r, OkReply) /\ applied' = applied \union {r} /\ (Keyed(r) => Holder(r) = Nobody)
  BY DEF DaemonApplies
<1>3. callBar' = callBar
  BY <1>1, <1>2, HandleUnseen, ReplyTypes
<1>4. Sent(r) /\ ~Answered(r) /\ req[r] \in Requests
  BY <1>1, <1>2, SentType DEF Handle
<1>5. callBar[r].st \in {"open", "unknown"} /\ callBar[r].key = req[r].key
  <2>1. req[r].told \notin Refusals \union {"ok"}
    BY <1>1, <1>4 DEF ClientInv, OkIsSuccess, RefusalIsRefusal
  <2>2. req[r].told \in Verdicts \union {"waiting"}
    BY <1>4 DEF Requests
  <2>3. StateOf(req[r].told) \in {"open", "unknown"}
    BY <2>1, <2>2, StateOfTold
  <2>4. callBar[r] = Seen(r)
    BY <1>4, CallBar
  <2> QED BY <2>3, <2>4 DEF Seen
<1>6. \A d \in applied : d \in ReqIds /\ Sent(d) /\ Answered(d)
  <2>1. ~IsSuccess(NotAnswered.status)
    BY DEF NotAnswered, IsSuccess
  <2> QED BY <1>1, <2>1 DEF DaemonInv, AppliedIsAnswered, Answered, TypeOK
<1>7. r \notin applied
  BY <1>4, <1>6
<1>8. ASSUME NEW d \in applied, callBar[d].key = callBar[r].key
      PROVE  callBar[r].key = NoKey
  <2>1. callBar[d].key = req[d].key
    <3>1. d \in ReqIds /\ Sent(d)
      BY <1>6
    <3>2. callBar[d] = Seen(d)
      BY <3>1, CallBar
    <3> QED BY <3>2 DEF Seen
  <2>2. req[d].key = req[r].key
    BY <1>5, <1>8, <2>1
  <2>3. req[r].payload.key = req[r].key
    BY <1>1, <1>4 DEF DaemonInv, KeyTravels
  <2>4. CASE req[r].key # NoKey
    <3>1. held[req[r].key] = Nobody
      BY <1>2, <2>3, <2>4 DEF Keyed, Holder
    <3>2. held[req[d].key] = d
      BY <1>1, <2>2, <2>4 DEF DaemonInv, AppliedIsHeld
    <3>3. d # Nobody
      BY <1>6, TransactionAssumption
    <3> QED BY <2>2, <3>1, <3>2, <3>3
  <2> QED BY <1>5, <2>4
<1>9. \A d \in applied : callBar[d].key = callBar[r].key => callBar[r].key = NoKey
  BY <1>8
<1> QED BY ONLY <1>2, <1>3, <1>5, <1>7, <1>9 DEF Service!Apply

\* The daemon's other answers change nothing the application sees.
LEMMA AnswersUnseen ==
  ASSUME TypeOK, NEW r \in ReqIds,
         DaemonReplays(r) \/ DaemonReportsReuse(r) \/ DaemonRefuses(r)
  PROVE  UNCHANGED Service!vars
<1>1. PICK reply \in Replies : Handle(r, reply)
  BY ReplyTypes DEF DaemonReplays, DaemonReportsReuse, DaemonRefuses
<1>2. applied' = applied
  BY DEF DaemonReplays, DaemonReportsReuse, DaemonRefuses
<1> QED BY <1>1, <1>2, HandleUnseen DEF Service!vars

\* Steps that send and answer nothing change nothing the application sees.
LEMMA QuietUnseen == UNCHANGED <<req, applied>> => UNCHANGED Service!vars
  BY DEF Service!vars, callBar, Sent

\* Every step of the write path is a step of the service or none.
LEMMA StepRefines == IInv /\ [Next]_vars => [Service!Next]_(Service!vars)
<1> SUFFICES ASSUME IInv, [Next]_vars PROVE [Service!Next]_(Service!vars)
  OBVIOUS
<1>1. TypeOK
  BY DEF IInv
<1>2. CASE UNCHANGED vars
  BY <1>2, QuietUnseen DEF vars
<1>3. ASSUME NEW t \in Txns, Stages(t) \/ Local(t)
      PROVE  UNCHANGED Service!vars
  <2>1. UNCHANGED <<req, applied>>
    BY <1>3 DEF Stages, Stage, Local, CommitRefused, CommitEmpty, CommitUnsent,
                Rollback, RollbackRefused
  <2> QED BY <2>1, QuietUnseen
<1>4. ASSUME NEW r \in ReqIds, NEW t \in Txns \union {Direct}, NEW key, NEW ops,
             Sends(r, t, key, ops)
      PROVE  Service!Next
  BY <1>1, <1>4, SendsRefines DEF Service!Next
<1>5. ASSUME NEW r \in ReqIds, NEW o, Ends(r, o)
      PROVE  Service!Next
  BY <1>5, EndsRefines DEF Service!Next
<1>6. ASSUME NEW r \in ReqIds, DaemonNext(r)
      PROVE  [Service!Next]_(Service!vars)
  BY <1>1, <1>6, AppliesRefines, AnswersUnseen DEF DaemonNext, Service!Next
<1>7. CASE Next
  BY <1>1, <1>3, <1>4, <1>5, <1>6, <1>7, StepKinds
<1> QED BY <1>2, <1>7

\* The write path implements CommitService for any number of callers, requests
\* and keys: an application that sees only what its calls return (nil, an error
\* that wraps a definite sentinel, any other error) may reason with the three
\* outcomes of the service (CommitTxn, client.go:601-614; Commit,
\* transaction.go:89-106).
THEOREM Implements == Spec => ServiceSpec
<1>1. Init => Service!Init
  BY InitRefines
<1>2. IInv /\ [Next]_vars => [Service!Next]_(Service!vars)
  BY StepRefines
<1> QED BY <1>1, <1>2, Inductive, PTL DEF Spec, ServiceSpec

-----------------------------------------------------------------------------
\* The service keeps its promises: what is rejected stays undone, a key counts
\* once, and ok means durable, whatever calls are open or were given up.
THEOREM ServiceKeepsPromise == ServiceSpec => [](Service!TypeOK /\ Service!Promise)
<1> DEFINE Inv == Service!TypeOK /\ Service!Promise
<1>1. Service!Init => Inv
  BY DEF Service!Init, Service!TypeOK, Service!Promise, Service!NotMade
<1>2. Inv /\ [Service!Next]_(Service!vars) => Inv'
  <2> SUFFICES ASSUME Inv, [Service!Next]_(Service!vars) PROVE Inv'
    OBVIOUS
  <2> USE DEF Service!TypeOK, Service!Promise, Service!SameCommit, Service!NotMade
  <2>1. ASSUME NEW c \in ReqIds, Service!Submit(c) PROVE Inv'
    <3>1. /\ callBar[c] = [st |-> "none"] /\ callBar'[c] \in Service!Submitted
          /\ callBar' = [callBar EXCEPT ![c] = callBar'[c]] /\ applied' = applied
      BY <2>1 DEF Service!Submit
    <3>2. \A d \in ReqIds \ {c} : callBar'[d] = callBar[d]
      BY <3>1
    <3>3. callBar'[c].st = "open" /\ c \notin applied
      BY <3>1 DEF Service!Submitted
    <3>4. Service!TypeOK'
      BY <3>1 DEF Service!Submitted
    <3>5. \A d \in applied : d # c /\ d \in ReqIds
      BY <3>3
    <3> QED BY <3>1, <3>2, <3>3, <3>4, <3>5
  <2>2. ASSUME NEW c \in ReqIds, Service!Apply(c) PROVE Inv'
    BY <2>2 DEF Service!Apply
  <2>3. ASSUME NEW c \in ReqIds, Service!Acknowledge(c) PROVE Inv'
    BY <2>3 DEF Service!Acknowledge
  <2>4. ASSUME NEW c \in ReqIds, Service!Reject(c) PROVE Inv'
    BY <2>4 DEF Service!Reject
  <2>5. ASSUME NEW c \in ReqIds, Service!GiveUp(c) PROVE Inv'
    <3>1. /\ callBar[c].st = "open" /\ callBar' = [callBar EXCEPT ![c].st = "unknown"]
          /\ applied' = applied
      BY <2>5 DEF Service!GiveUp
    <3>2. Service!TypeOK'
      BY <3>1
    <3>3. /\ \A d \in ReqIds \ {c} : callBar'[d] = callBar[d]
          /\ callBar'[c].st = "unknown" /\ callBar'[c].key = callBar[c].key
          /\ callBar'[c].batch = callBar[c].batch
      BY <3>1
    <3>4. \A d, e \in ReqIds : Service!SameCommit(d, e) => Service!SameCommit(d, e)'
      BY <3>3
    <3> QED BY <3>1, <3>2, <3>3, <3>4
  <2>6. CASE UNCHANGED Service!vars
    BY <2>6 DEF Service!vars
  <2> QED BY <2>1, <2>2, <2>3, <2>4, <2>5, <2>6 DEF Service!Next
<1>3. QED
  BY <1>1, <1>2, PTL DEF ServiceSpec

\* So the write path keeps them (transaction.go:81-106, client.go:598-614).
THEOREM PromiseKept == Spec => []Service!Promise
  BY Implements, ServiceKeepsPromise, PTL
=============================================================================
