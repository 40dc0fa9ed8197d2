--------------------------- MODULE ObserversProofs ---------------------------
(***************************************************************************)
(* What calls tell of state that changes while they run was true while     *)
(* they ran, for any number of callers, windows, epochs and statements.    *)
(* The inductive invariant follows an answer: what holds now is in the     *)
(* history of every running call, a body is of the moment it was taken     *)
(* (the levels of a status that lag have nothing to say the durable        *)
(* section does not), and a returned value is that of its body.            *)
(***************************************************************************)
EXTENDS Observers, TLAPS

HowEnded == {NoText, "succeeded", "failed", "cancelled"}

TypeInv ==
  /\ epoch \in Nat
  /\ retention \in [window : Windows, earliest : Nat]
  /\ query \in [hlc : Nat, serialization : HowEnded, running : BOOLEAN,
                outcome : [hlc : Nat, serialization : HowEnded], top : Nat,
                field : {"serialization", "serialization_state"}]
  /\ DOMAIN call = Callers

\* A level that says something does so after the durable section.
Lags ==
  /\ query.hlc = 0 => query.outcome.hlc = 0 /\ query.top = 0
  /\ query.serialization = NoText => query.outcome.serialization = NoText

Changing == Gets \union {"SetHistoryRetentionEpochs"}

\* A running call r has seen what holds now.
Sees(r) ==
  /\ DOMAIN r = {"stage", "op", "n", "during", "body"}
  /\ r.op \in DOMAIN Tells
  /\ r.op = "SetHistoryRetentionEpochs" => r.n \in Windows
  /\ Part(Truth, Tells[r.op]) \in r.during

\* The body r was answered with was true.
BodyWasTrue(r) ==
  /\ r.op \in Changing => Part(r.body, Tells[r.op]) \in r.during
  /\ r.op = "SetHistoryRetentionEpochs" => r.body.window = r.n
  /\ r.op = "QueryStatus" => StatusIn(r.body) \in r.during

\* What r returned was true.
ValueWasTrue(r) ==
  /\ r.op \in Changing \union {"QueryStatus"} => r.value \in r.during
  /\ r.op = "SetHistoryRetentionEpochs" => r.value.window = r.n

Running(r) == r.stage \notin {"none", "returned"}

CallOK(r) ==
  /\ r.stage \in {"none", "asked", "answered", "returned"}
  /\ Running(r) => Sees(r)
  /\ r.stage = "answered" => BodyWasTrue(r)
  /\ r.stage = "returned" /\ r.ok => ValueWasTrue(r)

IInv == TypeInv /\ Lags /\ \A c \in Callers : CallOK(call[c])

-----------------------------------------------------------------------------
LEMMA WindowsAreNat == \A n \in Windows : n \in Nat
BY ObserversAssumption

LEMMA PrunedIsNat ==
  ASSUME NEW window \in Nat, NEW at \in Nat, NEW earliest \in Nat
  PROVE  Pruned(window, at, earliest) \in Nat
BY DEF Pruned

\* The retention and the part of the truth a retention call tells are one.
LEMMA RetentionIsTruth ==
  ASSUME NEW op \in Changing
  PROVE  Part(retention, Tells[op]) = Part(Truth, Tells[op])
<1>1. Tells[op] \subseteq {"window", "earliest"}
  BY DEF Changing, Gets, Tells
<1>2. Truth.window = retention.window /\ Truth.earliest = retention.earliest
  BY DEF Truth
<1>3. \A f \in Tells[op] : retention[f] = Truth[f]
  BY <1>1, <1>2
<1>4. QED
  BY <1>3 DEF Part

\* Whatever the levels hold, the status read from a body is what holds in the
\* daemon (CommitHlc and SerializationState, durable.go:59-91).
LEMMA StatusIsTruth ==
  ASSUME TypeInv, Lags
  PROVE  StatusIn(StatusBody) = Part(Truth, Tells["QueryStatus"])
<1>1. /\ StatusBody.durable.present <=> query.hlc # 0 \/ query.serialization # NoText
      /\ StatusBody.durable.hlc = query.hlc
      /\ StatusBody.durable.serialization_state \in {NoText, query.serialization}
      /\ StatusBody.durable.serialization = query.serialization
      /\ StatusBody.last_commit_hlc = query.top
      /\ StatusBody.outcome.hlc = query.outcome.hlc
      /\ StatusBody.outcome.serialization_state = NoText
      /\ StatusBody.outcome.serialization = query.outcome.serialization
  BY DEF StatusBody
<1>2. CommitHlc(StatusBody) = query.hlc
  BY <1>1 DEF Lags, CommitHlc
<1>3. StateIn(StatusBody.durable) = query.serialization
  BY <1>1 DEF StateIn
<1>4. StateIn(StatusBody.outcome) = query.outcome.serialization
  BY <1>1 DEF StateIn
<1>5. SerializationState(StatusBody) = query.serialization
  BY <1>1, <1>3, <1>4 DEF Lags, SerializationState
<1>6. StatusIn(StatusBody) = [hlc |-> query.hlc, serialization |-> query.serialization]
  BY <1>2, <1>5 DEF StatusIn
<1>7. Truth.hlc = query.hlc /\ Truth.serialization = query.serialization
  BY DEF Truth
<1>8. Part(Truth, {"hlc", "serialization"}) = [hlc |-> query.hlc, serialization |-> query.serialization]
  BY <1>7 DEF Part
<1>9. Tells["QueryStatus"] = {"hlc", "serialization"}
  BY DEF Tells
<1>10. QED
  BY <1>6, <1>8, <1>9

\* After any step of the daemon, the calls that run have seen what holds now
\* and everything else about them is kept.
LEMMA SeenKeeps ==
  ASSUME NEW calls, DOMAIN calls = Callers, Seen(calls),
         NEW c \in Callers, CallOK(calls[c]), Free(c) <=> ~Running(calls[c])
  PROVE  CallOK(call[c])'
<1>1. CASE Free(c)
  <2>1. call'[c] = calls[c]
    BY <1>1 DEF Seen
  <2>2. QED
    BY <1>1, <2>1 DEF CallOK, Running, BodyWasTrue, ValueWasTrue, StatusIn, Part
<1>2. CASE ~Free(c)
  <2> DEFINE r == calls[c]
             new == Part(Truth', Tells[r.op])
  <2>1. call'[c] = [r EXCEPT !.during = @ \union {new}]
    BY <1>2 DEF Seen
  <2>2. Sees(r) /\ Running(r)
    BY <1>2 DEF CallOK
  <2>3. /\ DOMAIN r = {"stage", "op", "n", "during", "body"} /\ r.op \in DOMAIN Tells
        /\ r.op = "SetHistoryRetentionEpochs" => r.n \in Windows
    BY <2>2 DEF Sees
  <2>4. /\ DOMAIN call'[c] = DOMAIN r
        /\ call'[c].stage = r.stage /\ call'[c].op = r.op /\ call'[c].n = r.n
        /\ call'[c].body = r.body /\ call'[c].during = r.during \union {new}
    BY <2>1, <2>3
  <2>5. Sees(call[c])'
    BY <2>3, <2>4 DEF Sees, Part
  <2>6. r.stage = "answered" => BodyWasTrue(call'[c])
    BY <2>4 DEF CallOK, BodyWasTrue
  <2>7. QED
    BY <2>2, <2>4, <2>5, <2>6 DEF CallOK, Running, BodyWasTrue
<1>3. QED
  BY <1>1, <1>2

\* A call that returns while nothing else changes.
LEMMA ReturnKeeps ==
  ASSUME IInv, NEW c \in Callers, ~Free(c), NEW ok, NEW value, Returns(c, ok, value),
         ok => \/ call[c].op = "CancelQuery"
               \/ /\ value \in call[c].during
                  /\ call[c].op = "SetHistoryRetentionEpochs" => value.window = call[c].n
  PROVE  IInv'
<1>1. TypeInv' /\ Lags' /\ Truth' = Truth
  BY DEF IInv, TypeInv, Lags, Returns, Truth
<1>2. ASSUME NEW d \in Callers PROVE CallOK(call[d])'
  <2>1. CASE d # c
    <3>1. call'[d] = call[d]
      BY <2>1 DEF IInv, TypeInv, Returns
    <3>2. QED
      BY <1>1, <3>1 DEF IInv, CallOK, Running, Sees, BodyWasTrue, ValueWasTrue, StatusIn, Part
  <2>2. CASE d = c
    <3>1. call'[c] = [stage |-> "returned", op |-> call[c].op, n |-> call[c].n,
                      during |-> call[c].during, ok |-> ok, value |-> value]
      BY DEF IInv, TypeInv, Returns
    <3>2. call'[c].stage = "returned" /\ call'[c].op = call[c].op /\ call'[c].n = call[c].n
          /\ call'[c].during = call[c].during /\ (call'[c].ok <=> ok) /\ call'[c].value = value
      BY <3>1
    <3>3. QED
      BY <2>2, <3>2 DEF CallOK, Running, ValueWasTrue, Changing, Gets
  <2>3. QED
    BY <2>1, <2>2
<1>3. QED
  BY <1>1, <1>2 DEF IInv

\* A step of the daemon that every running call sees.
LEMMA DaemonKeeps ==
  ASSUME IInv, TypeInv', Lags', Seen(call)
  PROVE  IInv'
<1>1. ASSUME NEW c \in Callers PROVE CallOK(call[c])'
  BY SeenKeeps DEF IInv, TypeInv, Free, Running
<1>2. QED
  BY <1>1 DEF IInv

\* A call that is answered while nothing else changes.
LEMMA AnswerKeeps ==
  ASSUME IInv, NEW c \in Callers, NEW body, call[c].stage = "asked"
  PROVE  LET r == Answer(c, body)[c]
         IN  /\ DOMAIN Answer(c, body) = Callers
             /\ \A d \in Callers \ {c} : Answer(c, body)[d] = call[d]
             /\ r.stage = "answered" /\ r.op = call[c].op /\ r.n = call[c].n
             /\ r.during = call[c].during /\ r.body = body
             /\ DOMAIN r = DOMAIN call[c]
<1>1. DOMAIN call = Callers /\ DOMAIN call[c] = {"stage", "op", "n", "during", "body"}
  BY DEF IInv, TypeInv, CallOK, Running, Sees
<1>2. QED
  BY <1>1 DEF Answer

-----------------------------------------------------------------------------
LEMMA InitInv == Init => IInv
<1>1. SUFFICES ASSUME Init PROVE IInv
  OBVIOUS
<1>2. TypeInv
  <2>1. [hlc |-> 0, serialization |-> NoText] \in [hlc : Nat, serialization : HowEnded]
    BY DEF HowEnded
  <2>2. NoText \in HowEnded
    BY DEF HowEnded
  <2>3. query \in [hlc : Nat, serialization : HowEnded, running : BOOLEAN,
                   outcome : [hlc : Nat, serialization : HowEnded], top : Nat,
                   field : {"serialization", "serialization_state"}]
    BY <1>1, <2>1, <2>2 DEF Init
  <2>4. epoch \in Nat /\ DOMAIN call = Callers
    BY <1>1 DEF Init
  <2>5. retention \in [window : Windows, earliest : Nat]
    BY <1>1 DEF Init
  <2>6. QED
    BY <2>3, <2>4, <2>5 DEF TypeInv
<1>3. Lags
  BY <1>1 DEF Init, Lags
<1>4. ASSUME NEW c \in Callers PROVE CallOK(call[c])
  BY <1>1 DEF Init, CallOK, Running
<1>5. QED
  BY <1>2, <1>3, <1>4 DEF IInv

LEMMA SetToType ==
  ASSUME TypeInv, NEW n \in Windows
  PROVE  SetTo(n) \in [window : Windows, earliest : Nat] /\ SetTo(n).window = n
<1>1. n \in Nat /\ epoch \in Nat /\ retention.earliest \in Nat
  BY ObserversAssumption DEF TypeInv
<1>2. QED
  BY <1>1, PrunedIsNat DEF SetTo

LEMMA DaemonStepInv ==
  ASSUME IInv, Write \/ OthersSet \/ StatementCommits \/ QueryEnds \/ OutcomeCatchesUp \/ TopCatchesUp
  PROVE  IInv'
<1>1. CASE Write
  <2>1. Pruned(retention.window, epoch + 1, retention.earliest) \in Nat
    <3>1. retention.window \in Windows /\ epoch \in Nat /\ retention.earliest \in Nat
      BY DEF IInv, TypeInv
    <3>2. retention.window \in Nat
      BY <3>1, WindowsAreNat
    <3>3. epoch + 1 \in Nat
      BY <3>1
    <3>4. QED
      BY <3>1, <3>2, <3>3, PrunedIsNat
  <2>2. retention' \in [window : Windows, earliest : Nat]
    BY <1>1, <2>1 DEF Write, IInv, TypeInv
  <2>3. TypeInv' /\ Lags'
    BY <1>1, <2>2 DEF Write, IInv, TypeInv, Lags, Seen
  <2>4. QED
    BY <1>1, <2>3, DaemonKeeps DEF Write
<1>2. CASE OthersSet
  <2>1. TypeInv' /\ Lags'
    BY <1>2, SetToType DEF OthersSet, IInv, TypeInv, Lags, Seen
  <2>2. QED
    BY <1>2, <2>1, DaemonKeeps DEF OthersSet
<1>3. CASE StatementCommits
  <2>1. TypeInv'
    BY <1>3 DEF StatementCommits, IInv, TypeInv, Seen
  <2>2. Lags'
    BY <1>3 DEF StatementCommits, IInv, TypeInv, Lags
  <2>3. QED
    BY <1>3, <2>1, <2>2, DaemonKeeps DEF StatementCommits
<1>4. CASE QueryEnds
  <2>1. TypeInv'
    BY <1>4 DEF QueryEnds, Ended, IInv, TypeInv, HowEnded, Seen
  <2>2. Lags'
    BY <1>4 DEF QueryEnds, Ended, IInv, TypeInv, Lags, NoText
  <2>3. QED
    BY <1>4, <2>1, <2>2, DaemonKeeps DEF QueryEnds
<1>5. CASE OutcomeCatchesUp \/ TopCatchesUp
  <2>1. TypeInv'
    BY <1>5 DEF OutcomeCatchesUp, TopCatchesUp, IInv, TypeInv
  <2>2. Lags'
    BY <1>5 DEF OutcomeCatchesUp, TopCatchesUp, IInv, TypeInv, Lags
  <2>3. Truth' = Truth /\ call' = call
    BY <1>5 DEF OutcomeCatchesUp, TopCatchesUp, IInv, TypeInv, Truth
  <2>4. QED
    BY <2>1, <2>2, <2>3 DEF IInv, CallOK, Running, Sees, BodyWasTrue, ValueWasTrue, StatusIn, Part
<1>6. QED
  BY <1>1, <1>2, <1>3, <1>4, <1>5

LEMMA AskInv ==
  ASSUME IInv, NEW c \in Callers, NEW op \in DOMAIN Tells, NEW n, Ask(c, op, n),
         op = "SetHistoryRetentionEpochs" => n \in Windows
  PROVE  IInv'
<1>1. TypeInv' /\ Lags' /\ Truth' = Truth
  BY DEF IInv, TypeInv, Lags, Ask, Truth
<1>2. ASSUME NEW d \in Callers PROVE CallOK(call[d])'
  <2>1. CASE d # c
    <3>1. call'[d] = call[d]
      BY <2>1 DEF IInv, TypeInv, Ask
    <3>2. QED
      BY <1>1, <3>1 DEF IInv, CallOK, Running, Sees, BodyWasTrue, ValueWasTrue, StatusIn, Part
  <2>2. CASE d = c
    <3>1. call'[c] = [stage |-> "asked", op |-> op, n |-> n,
                      during |-> {Part(Truth, Tells[op])}, body |-> Nil]
      BY DEF IInv, TypeInv, Ask
    <3>2. call'[c].stage = "asked" /\ call'[c].op = op /\ call'[c].n = n
          /\ call'[c].during = {Part(Truth, Tells[op])}
          /\ DOMAIN call'[c] = {"stage", "op", "n", "during", "body"}
      BY <3>1
    <3>3. QED
      BY <1>1, <2>2, <3>2 DEF CallOK, Running, Sees, Part
  <2>3. QED
    BY <2>1, <2>2
<1>3. QED
  BY <1>1, <1>2 DEF IInv

LEMMA DaemonReadsInv ==
  ASSUME IInv, NEW c \in Callers, DaemonReads(c)
  PROVE  IInv'
<1>1. TypeInv' /\ Lags' /\ Truth' = Truth
  <2>1. DOMAIN call' = Callers
    BY AnswerKeeps DEF DaemonReads, Asked
  <2>2. QED
    BY <2>1 DEF IInv, TypeInv, Lags, DaemonReads, Truth
<1>2. call[c].stage = "asked" /\ Sees(call[c])
  BY DEF DaemonReads, Asked, IInv, CallOK, Running
<1>3. PICK body : /\ call' = Answer(c, body)
                  /\ \/ call[c].op \in Gets /\ body = retention
                     \/ call[c].op = "QueryStatus" /\ body = StatusBody
  BY DEF DaemonReads, Asked
<1>4. /\ \A d \in Callers \ {c} : call'[d] = call[d]
      /\ call'[c].stage = "answered" /\ call'[c].op = call[c].op /\ call'[c].n = call[c].n
      /\ call'[c].during = call[c].during /\ call'[c].body = body
      /\ DOMAIN call'[c] = DOMAIN call[c]
  BY <1>2, <1>3, AnswerKeeps
<1>5. BodyWasTrue(call'[c])
  <2>1. CASE call[c].op \in Gets /\ body = retention
    <3>1. Part(body, Tells[call[c].op]) \in call[c].during
      BY <1>2, <2>1, RetentionIsTruth DEF Sees, Changing
    <3>2. QED
      BY <1>4, <2>1, <3>1 DEF BodyWasTrue, Gets
  <2>2. CASE call[c].op = "QueryStatus" /\ body = StatusBody
    <3>1. StatusIn(body) \in call[c].during
      BY <1>2, <2>2, StatusIsTruth DEF Sees, IInv
    <3>2. QED
      BY <1>4, <2>2, <3>1 DEF BodyWasTrue, Changing, Gets
  <2>3. QED
    BY <1>3, <2>1, <2>2
<1>6. ASSUME NEW d \in Callers PROVE CallOK(call[d])'
  <2>1. CASE d # c
    BY <1>1, <1>4, <2>1 DEF IInv, CallOK, Running, Sees, BodyWasTrue, ValueWasTrue, StatusIn, Part
  <2>2. CASE d = c
    <3>1. Sees(call[c])'
      BY <1>1, <1>2, <1>4 DEF Sees, Part
    <3>2. QED
      BY <1>4, <1>5, <2>2, <3>1 DEF CallOK, BodyWasTrue, StatusIn, Part
  <2>3. QED
    BY <2>1, <2>2
<1>7. QED
  BY <1>1, <1>6 DEF IInv

LEMMA DaemonSetsInv ==
  ASSUME IInv, NEW c \in Callers, DaemonSets(c)
  PROVE  IInv'
<1> DEFINE new == SetTo(call[c].n)
           calls == Answer(c, new)
<1>1. /\ Seen(calls) /\ retention' = new
      /\ call[c].stage = "asked" /\ call[c].op = "SetHistoryRetentionEpochs"
  BY DEF DaemonSets, Asked
<1>2. Sees(call[c])
  BY <1>1 DEF IInv, CallOK, Running
<1>3. call[c].n \in Windows
  BY <1>1, <1>2 DEF Sees
<1>4. new \in [window : Windows, earliest : Nat] /\ new.window = call[c].n
  BY <1>3, SetToType DEF IInv
<1>5. TypeInv' /\ Lags'
  BY <1>1, <1>4 DEF DaemonSets, Seen, IInv, TypeInv, Lags
<1>6. /\ DOMAIN calls = Callers /\ \A d \in Callers \ {c} : calls[d] = call[d]
      /\ calls[c].stage = "answered" /\ calls[c].op = call[c].op /\ calls[c].n = call[c].n
      /\ calls[c].during = call[c].during /\ calls[c].body = new
      /\ DOMAIN calls[c] = DOMAIN call[c]
  BY <1>1, AnswerKeeps
<1>7. ASSUME NEW d \in Callers PROVE CallOK(call[d])'
  <2>1. CASE d # c
    BY <1>1, <1>6, <2>1, SeenKeeps DEF IInv, Free, Running
  <2>2. CASE d = c
    <3> DEFINE now == Part(Truth', Tells[call[c].op])
    <3>1. call'[c] = [calls[c] EXCEPT !.during = @ \union {now}]
      BY <1>1, <1>6 DEF Seen, Free
    <3>2. DOMAIN calls[c] = {"stage", "op", "n", "during", "body"}
      BY <1>2, <1>6 DEF Sees
    <3>3. /\ DOMAIN call'[c] = {"stage", "op", "n", "during", "body"}
          /\ call'[c].stage = "answered" /\ call'[c].op = call[c].op /\ call'[c].n = call[c].n
          /\ call'[c].body = new /\ now \in call'[c].during
      BY <3>1, <3>2, <1>6
    <3>4. now = Part(new, Tells[call[c].op])
      <4>1. Tells[call[c].op] = {"window", "earliest"}
        BY <1>1 DEF Tells
      <4>2. Truth'.window = new.window /\ Truth'.earliest = new.earliest
        BY <1>1 DEF Truth
      <4>3. QED
        BY <4>1, <4>2 DEF Part
    <3>5. Sees(call[c])'
      BY <1>1, <1>2, <1>3, <3>3 DEF Sees, Part
    <3>6. BodyWasTrue(call'[c])
      BY <1>1, <1>4, <3>3, <3>4 DEF BodyWasTrue
    <3>7. QED
      BY <2>2, <3>3, <3>5, <3>6 DEF CallOK, BodyWasTrue, StatusIn, Part
  <2>3. QED
    BY <2>1, <2>2
<1>8. QED
  BY <1>5, <1>7 DEF IInv

LEMMA DaemonCancelsInv ==
  ASSUME IInv, NEW c \in Callers, DaemonCancels(c)
  PROVE  IInv'
<1> DEFINE calls == Answer(c, Nil)
<1>1. /\ Seen(calls) /\ query' = IF query.running THEN Ended("cancelled") ELSE query
      /\ call[c].stage = "asked" /\ call[c].op = "CancelQuery"
  BY DEF DaemonCancels, Asked
<1>2. Sees(call[c])
  BY <1>1 DEF IInv, CallOK, Running
<1>3. TypeInv'
  <2>1. query' \in [hlc : Nat, serialization : HowEnded, running : BOOLEAN,
                    outcome : [hlc : Nat, serialization : HowEnded], top : Nat,
                    field : {"serialization", "serialization_state"}]
    BY <1>1 DEF Ended, IInv, TypeInv, HowEnded
  <2>2. QED
    BY <1>1, <2>1 DEF DaemonCancels, Seen, IInv, TypeInv
<1>4. Lags'
  BY <1>1 DEF Ended, IInv, TypeInv, Lags, NoText
<1>5. /\ DOMAIN calls = Callers /\ \A d \in Callers \ {c} : calls[d] = call[d]
      /\ calls[c].stage = "answered" /\ calls[c].op = call[c].op
      /\ calls[c].during = call[c].during
      /\ DOMAIN calls[c] = DOMAIN call[c]
  BY <1>1, AnswerKeeps
<1>6. CallOK(calls[c])
  <2>1. calls[c].op \notin Changing \union {"QueryStatus", "SetHistoryRetentionEpochs"}
    BY <1>1, <1>5 DEF Changing, Gets
  <2>2. Sees(calls[c])
    BY <1>1, <1>2, <1>5 DEF Sees
  <2>3. QED
    BY <1>5, <2>1, <2>2 DEF CallOK, Running, BodyWasTrue
<1>7. ASSUME NEW d \in Callers PROVE CallOK(call[d])'
  BY <1>1, <1>5, <1>6, SeenKeeps DEF IInv, Free, Running
<1>8. QED
  BY <1>3, <1>4, <1>7 DEF IInv

LEMMA ReceiveInv ==
  ASSUME IInv, NEW c \in Callers, Receive(c)
  PROVE  IInv'
<1>1. call[c].stage = "answered" /\ ~Free(c)
  BY DEF Receive, Free
<1>2. Sees(call[c]) /\ BodyWasTrue(call[c])
  BY <1>1 DEF IInv, CallOK, Running
<1>3. PICK x \in Exchanges :
        LET op == call[c].op
            answer == CASE op = "QueryStatus" -> QueryStatus(x, "q")
                        [] op = "CancelQuery" -> CancelQuery(x, "q")
                        [] OTHER -> DecodeHistoryRetention(x)
        IN  Returns(c, answer.ok,
              CASE ~answer.ok \/ op = "CancelQuery" -> Unsaid
                [] answer.ok /\ op = "QueryStatus" -> StatusIn(call[c].body)
                [] OTHER -> Part(RetentionIn(answer, call[c].body), Tells[op]))
  BY DEF Receive
<1>4. CASE call[c].op = "CancelQuery"
  <2>1. Returns(c, CancelQuery(x, "q").ok, Unsaid)
    BY <1>3, <1>4
  <2>2. QED
    BY <1>1, <1>4, <2>1, ReturnKeeps
<1>5. CASE call[c].op = "QueryStatus"
  <2>1. StatusIn(call[c].body) \in call[c].during
    BY <1>2, <1>5 DEF BodyWasTrue
  <2>2. CASE QueryStatus(x, "q").ok
    <3>1. Returns(c, QueryStatus(x, "q").ok, StatusIn(call[c].body))
      BY <1>3, <1>5, <2>2
    <3>2. QED
      BY <1>1, <1>5, <2>1, <3>1, ReturnKeeps
  <2>3. CASE ~QueryStatus(x, "q").ok
    <3>1. Returns(c, QueryStatus(x, "q").ok, Unsaid)
      BY <1>3, <1>5, <2>3
    <3>2. QED
      BY <1>1, <2>3, <3>1, ReturnKeeps
  <2>4. QED
    BY <2>2, <2>3
<1>6. CASE call[c].op \in Changing
  <2> DEFINE answer == DecodeHistoryRetention(x)
  <2>1. call[c].op # "QueryStatus" /\ call[c].op # "CancelQuery"
    BY <1>6 DEF Changing, Gets
  <2>2. CASE answer.ok
    <3>1. x.form \in OneValue /\ answer = Decoded(x.form)
      BY <2>2 DEF DecodeHistoryRetention, Read, Failed
    <3>2. answer.says = "value"
      BY <3>1, ExchangesAssumption DEF OneValue, Decoded, Value
    <3>3. Returns(c, answer.ok, Part(call[c].body, Tells[call[c].op]))
      BY <1>3, <2>1, <2>2, <3>2 DEF RetentionIn
    <3>4. Part(call[c].body, Tells[call[c].op]) \in call[c].during
      BY <1>2, <1>6 DEF BodyWasTrue
    <3>5. ASSUME call[c].op = "SetHistoryRetentionEpochs"
          PROVE  Part(call[c].body, Tells[call[c].op]).window = call[c].n
      BY <1>2, <3>5 DEF BodyWasTrue, Part, Tells
    <3>6. QED
      BY <1>1, <3>3, <3>4, <3>5, ReturnKeeps
  <2>3. CASE ~answer.ok
    <3>1. Returns(c, answer.ok, Unsaid)
      BY <1>3, <2>1, <2>3
    <3>2. QED
      BY <1>1, <2>3, <3>1, ReturnKeeps
  <2>4. QED
    BY <2>2, <2>3
<1>7. QED
  BY <1>2, <1>4, <1>5, <1>6 DEF Sees, Tells, Changing, Gets

\* Every running call has seen what holds now, and what was answered or
\* returned was true.
THEOREM Inductive == Spec => []IInv
<1>1. IInv /\ [Next]_vars => IInv'
  <2>1. SUFFICES ASSUME IInv, [Next]_vars PROVE IInv'
    OBVIOUS
  <2>2. CASE UNCHANGED vars
    BY <2>1, <2>2 DEF vars, IInv, TypeInv, Lags, CallOK, Running, Sees, BodyWasTrue,
                      ValueWasTrue, StatusIn, Part, Truth
  <2>3. CASE Write \/ OthersSet \/ StatementCommits \/ QueryEnds \/ OutcomeCatchesUp \/ TopCatchesUp
    BY <2>1, <2>3, DaemonStepInv
  <2>4. ASSUME NEW c \in Callers, NEW op \in Gets \union {"QueryStatus", "CancelQuery"}, Ask(c, op, 0)
        PROVE  IInv'
    <3>1. op \in DOMAIN Tells /\ op # "SetHistoryRetentionEpochs"
      BY <2>4 DEF Gets, Tells
    <3>2. QED
      BY <2>1, <2>4, <3>1, AskInv
  <2>5. ASSUME NEW c \in Callers, NEW n \in Windows, Ask(c, "SetHistoryRetentionEpochs", n)
        PROVE  IInv'
    <3>1. "SetHistoryRetentionEpochs" \in DOMAIN Tells
      BY DEF Tells
    <3>2. QED
      BY <2>1, <2>5, <3>1, AskInv
  <2>6. ASSUME NEW c \in Callers, DaemonReads(c) \/ DaemonSets(c) \/ DaemonCancels(c) \/ Receive(c)
        PROVE  IInv'
    BY <2>1, <2>6, DaemonReadsInv, DaemonSetsInv, DaemonCancelsInv, ReceiveInv
  <2>7. ASSUME NEW c \in Callers, Fails(c)
        PROVE  IInv'
    BY <2>1, <2>7, ReturnKeeps DEF Fails
  <2>8. QED
    BY <2>1, <2>2, <2>3, <2>4, <2>5, <2>6, <2>7 DEF Next
<1>2. QED
  BY <1>1, InitInv, PTL DEF Spec

-----------------------------------------------------------------------------
\* A retention that is returned was the database's while the call ran, both
\* numbers of it at one moment (client.go:229-271).
THEOREM RetentionTrue == Spec => []RetentionWasTrue
<1>1. IInv => RetentionWasTrue
  BY DEF IInv, CallOK, ValueWasTrue, RetentionWasTrue, Answered, WasTrue, Changing
<1>2. QED
  BY <1>1, Inductive, PTL

\* SetHistoryRetentionEpochs reports its own update (client.go:229-235).
THEOREM SetReports == Spec => []SetReportsItsUpdate
<1>1. IInv => SetReportsItsUpdate
  BY DEF IInv, CallOK, ValueWasTrue, SetReportsItsUpdate, Answered
<1>2. QED
  BY <1>1, Inductive, PTL

\* A status that is returned was the query's while the call ran, however far
\* its outer levels lag (durable.go:59-91).
THEOREM StatusTrue == Spec => []StatusWasTrue
<1>1. IInv => StatusWasTrue
  BY DEF IInv, CallOK, ValueWasTrue, StatusWasTrue, Answered, WasTrue
<1>2. QED
  BY <1>1, Inductive, PTL
=============================================================================
