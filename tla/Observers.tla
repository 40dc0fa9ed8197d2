----------------------------- MODULE Observers -----------------------------
(***************************************************************************)
(* Calls that read or set what changes while they run: the history         *)
(* retention window, which other clients set and every write to the        *)
(* database moves, and the recovery status of an SQL query, which commits  *)
(* statement after statement while callers poll it and may cancel it.      *)
(* Each call is one request; the daemon handles it at some moment between  *)
(* the call and its return, and the answer reaches the caller later.       *)
(*                                                                         *)
(* The daemon is not part of this repository.  The client relies on it for *)
(* one thing: an answer is taken at one moment.  The durable section of a  *)
(* query's status is then exact; the outer levels may lag behind it.       *)
(***************************************************************************)
EXTENDS Answers

CONSTANTS
  Callers,      \* goroutines, of one client or of several
  Windows,      \* history_retention_epochs ever asked for
  Exchanges,    \* how a round trip may go once the daemon has answered
  MaxEpoch,     \* bound: epochs written
  MaxStatements   \* bound: statements of the SQL query that commit

ASSUME ObserversAssumption ==
  Windows \subseteq Nat \ {0} /\ MaxEpoch \in Nat /\ MaxStatements \in Nat

\* A daemon's answer that decodes has the fields the call asks for.
ASSUME ExchangesAssumption == \A e \in Exchanges : e.form \notin {"lacks", "null"}

VARIABLES
  epoch,      \* daemon: the current epoch
  retention,  \* daemon: the retention window and the earliest epoch it keeps
  query,      \* daemon: the query, and the levels of its status that lag
  call        \* each caller's last or current call

vars == <<epoch, retention, query, call>>

NoText == ""

\* What each call tells its caller.
Tells == [HistoryRetention          |-> {"window", "earliest"},
          HistoryRetentionEpochs    |-> {"window"},
          EarliestRetainedEpoch     |-> {"earliest"},
          SetHistoryRetentionEpochs |-> {"window", "earliest"},
          QueryStatus               |-> {"hlc", "serialization"},
          CancelQuery               |-> {}]

Gets == {"HistoryRetention", "HistoryRetentionEpochs", "EarliestRetainedEpoch"}

\* What holds in the daemon.
Truth == [window |-> retention.window, earliest |-> retention.earliest,
          hlc |-> query.hlc, serialization |-> query.serialization]

Part(record, fields) == [f \in fields |-> record[f]]

Free(c) == call[c].stage \in {"none", "returned"}

Init ==
  /\ epoch = 1
  /\ retention \in [window : Windows, earliest : {1}]
  /\ query \in [hlc : {0}, serialization : {NoText}, running : {TRUE},
                outcome : {[hlc |-> 0, serialization |-> NoText]}, top : {0},
                field : {"serialization", "serialization_state"}]
  /\ call = [c \in Callers |-> [stage |-> "none"]]

-----------------------------------------------------------------------------
(* The daemon. A change is seen by every call that is running. *)

Seen(calls) ==
  call' = [c \in Callers |->
             IF Free(c) THEN calls[c]
             ELSE [calls[c] EXCEPT !.during = @ \union {Part(Truth', Tells[calls[c].op])}]]

Pruned(window, at, earliest) == IF at > window + earliest THEN at - window ELSE earliest

\* Any write to the database.
Write ==
  /\ epoch < MaxEpoch
  /\ epoch' = epoch + 1
  /\ retention' = [retention EXCEPT !.earliest = Pruned(retention.window, epoch + 1, @)]
  /\ UNCHANGED query /\ Seen(call)

SetTo(n) == [window |-> n, earliest |-> Pruned(n, epoch, retention.earliest)]

\* Another caller sets the window, or a request whose caller has given up does.
OthersSet ==
  /\ \E n \in Windows : retention' = SetTo(n)
  /\ UNCHANGED <<epoch, query>> /\ Seen(call)

StatementCommits ==
  /\ query.running /\ query.hlc < MaxStatements
  /\ query' = [query EXCEPT !.hlc = @ + 1]
  /\ UNCHANGED <<epoch, retention>> /\ Seen(call)

Ended(how) == [query EXCEPT !.running = FALSE, !.serialization = how]

\* By itself, or another caller cancels it.
QueryEnds ==
  /\ query.running
  /\ \E how \in {"succeeded", "failed", "cancelled"} : query' = Ended(how)
  /\ UNCHANGED <<epoch, retention>> /\ Seen(call)

\* An outer level catches up.
OutcomeCatchesUp ==
  /\ query' = [query EXCEPT !.outcome = [hlc |-> query.hlc, serialization |-> query.serialization]]
  /\ UNCHANGED <<epoch, retention, call>>
TopCatchesUp ==
  /\ query' = [query EXCEPT !.top = query.hlc]
  /\ UNCHANGED <<epoch, retention, call>>

\* The durable section appears with the first thing it has to say.
StatusBody ==
  [durable |->
     [present |-> query.hlc # 0 \/ query.serialization # NoText,
      hlc |-> query.hlc,
      serialization_state |->
        IF query.field = "serialization_state" THEN query.serialization ELSE NoText,
      serialization |-> query.serialization],
   outcome |-> [hlc |-> query.outcome.hlc, serialization_state |-> NoText,
                serialization |-> query.outcome.serialization],
   last_commit_hlc |-> query.top]

-----------------------------------------------------------------------------
(* QueryStatus. 0 stands for a missing HLC. *)

\* A plausible slip: the levels are asked from the outside in.
CommitHlcOuterFirst(s) ==
  IF s.last_commit_hlc # 0 THEN s.last_commit_hlc
  ELSE IF s.outcome.hlc # 0 THEN s.outcome.hlc
  ELSE IF s.durable.present THEN s.durable.hlc ELSE 0

CommitHlc(s) ==
  IF s.durable.present /\ s.durable.hlc # 0 THEN s.durable.hlc
  ELSE IF s.outcome.hlc # 0 THEN s.outcome.hlc ELSE s.last_commit_hlc

StateIn(level) ==
  IF level.serialization_state # NoText THEN level.serialization_state ELSE level.serialization

SerializationState(s) ==
  IF s.durable.present /\ StateIn(s.durable) # NoText THEN StateIn(s.durable) ELSE StateIn(s.outcome)

-----------------------------------------------------------------------------
(* A call. *)

Ask(c, op, n) ==
  /\ Free(c)
  /\ call' = [call EXCEPT ![c] =
       [stage |-> "asked", op |-> op, n |-> n, during |-> {Part(Truth, Tells[op])}, body |-> Nil]]
  /\ UNCHANGED <<epoch, retention, query>>

Answer(c, body) == [call EXCEPT ![c].stage = "answered", ![c].body = body]
Asked(c, ops) == call[c].stage = "asked" /\ call[c].op \in ops

\* GET /history/retention and GET /queries/{id}
DaemonReads(c) ==
  /\ \/ Asked(c, Gets) /\ call' = Answer(c, retention)
     \/ Asked(c, {"QueryStatus"}) /\ call' = Answer(c, StatusBody)
  /\ UNCHANGED <<epoch, retention, query>>

\* PUT /history/retention is answered with what it has become.
DaemonSets(c) ==
  /\ Asked(c, {"SetHistoryRetentionEpochs"})
  /\ retention' = SetTo(call[c].n)
  /\ UNCHANGED <<epoch, query>>
  /\ Seen(Answer(c, SetTo(call[c].n)))

\* POST /queries/{id}/cancel: too late for a query that has ended.
DaemonCancels(c) ==
  /\ Asked(c, {"CancelQuery"})
  /\ query' = IF query.running THEN Ended("cancelled") ELSE query
  /\ UNCHANGED <<epoch, retention>>
  /\ Seen(Answer(c, Nil))

RetentionIn(answer, body) ==
  IF answer.says = "value" THEN body ELSE [window |-> 0, earliest |-> 0]

StatusIn(s) == [hlc |-> CommitHlc(s), serialization |-> SerializationState(s)]

\* No value at all.
Unsaid == <<>>

Returns(c, ok, value) ==
  /\ call' = [call EXCEPT ![c] = [stage |-> "returned", op |-> call[c].op, n |-> call[c].n,
                                  during |-> call[c].during, ok |-> ok, value |-> value]]
  /\ UNCHANGED <<epoch, retention, query>>

\* HistoryRetentionEpochs and EarliestRetainedEpoch keep one field of the pair.
Receive(c) ==
  /\ call[c].stage = "answered"
  /\ \E x \in Exchanges :
       LET op == call[c].op
           answer == CASE op = "QueryStatus" -> QueryStatus(x, "q")
                       [] op = "CancelQuery" -> CancelQuery(x, "q")
                       [] OTHER -> DecodeHistoryRetention(x)
       IN  Returns(c, answer.ok,
             CASE ~answer.ok \/ op = "CancelQuery" -> Unsaid
               [] answer.ok /\ op = "QueryStatus" -> StatusIn(call[c].body)
               [] OTHER -> Part(RetentionIn(answer, call[c].body), Tells[op]))

\* The call ends without an answer, whether the daemon has handled it or not.
Fails(c) == ~Free(c) /\ Returns(c, FALSE, Unsaid)

Next ==
  \/ Write \/ OthersSet \/ StatementCommits \/ QueryEnds \/ OutcomeCatchesUp \/ TopCatchesUp
  \/ \E c \in Callers :
       \/ \E op \in Gets \union {"QueryStatus", "CancelQuery"} : Ask(c, op, 0)
       \/ \E n \in Windows : Ask(c, "SetHistoryRetentionEpochs", n)
       \/ DaemonReads(c) \/ DaemonSets(c) \/ DaemonCancels(c)
       \/ Receive(c) \/ Fails(c)

Spec == Init /\ [][Next]_vars

-----------------------------------------------------------------------------
Answered(c, ops) == call[c].stage = "returned" /\ call[c].op \in ops /\ call[c].ok

WasTrue(c) == call[c].value \in call[c].during

\* A retention a call returns is one the database had while the call ran, the
\* window and the earliest epoch at the same moment: other clients and writes
\* may change it meanwhile, and an empty or garbled answer is an error, so the
\* earliest epoch never seems to move back. An answer without the fields would
\* be returned as zeros: ExchangesAssumption says the daemon sends none
\* (client.go:229-271).
RetentionWasTrue ==
  \A c \in Callers :
    Answered(c, Gets \union {"SetHistoryRetentionEpochs"}) => WasTrue(c)

\* SetHistoryRetentionEpochs returns the state its own update left, not what
\* another client made of it meanwhile (client.go:229-235).
SetReportsItsUpdate ==
  \A c \in Callers :
    Answered(c, {"SetHistoryRetentionEpochs"}) => call[c].value.window = call[c].n

\* A status tells every statement that was durable when the call began and none
\* that was not when it ended, and how the query ended, from the same moment;
\* a level that lags behind the durable section is never preferred to it, also
\* when a cancel came too late (durable.go:59-91).
StatusWasTrue == \A c \in Callers : Answered(c, {"QueryStatus"}) => WasTrue(c)
=============================================================================
