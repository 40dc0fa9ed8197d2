# A verification project for the MongrelDB Go client

The repository is a client library (package `mongreldb`, about 1300 lines of Go) for a
daemon that is not part of it. This directory holds TLA+ models of the client, TLC runs that
check them on small instances, and TLAPS proofs of their safety properties for instances of
any size. Line numbers refer to the sources under `src/`.

## 1. The system

| Component | State | Operations | Works with |
|---|---|---|---|
| HTTP exchange: `do` and `get/post/put/delete` (client.go:518-585) | none | one request: encode, build, send, read at most the cap plus one byte, classify | every call goes through it |
| Error typing: `newResponseError`, `decodeErrorEnvelope` (errors.go) | none | a non-2xx status and a body become a `ResponseError` with one of four sentinels | called by `do` |
| Cells encoding: `flattenCells` (client.go:618-640) | none | a map of cells becomes a flat array, sorted by column id | every write |
| `Transaction` (transaction.go) | staged operations, `committed` flag | `Put`, `Upsert`, `Delete`, `DeleteByPK`, `Commit`, `Rollback` | `CommitTxn`, `do` |
| Direct writes (client.go:339-407) | none | `Put`, `Upsert`, `Delete`, `DeleteByPK`: one-operation batches | `commitOne`, `do` |
| `QueryBuilder` (query.go) | conditions, projection, limit, offset, last truncation flag | `Where`, `Projection`, `Limit`, `Offset`, `Build`, `Execute`, `Truncated` | `do`, `decodeJSON` |
| `SearchBuilder` (search.go) | filters, retrievers, fusion, rerank, limit, projection, explain, cursor | a setter each, validation in `Build`, `Execute`, paging by `Cursor` | `do`, `normalizeCondition` |
| Text retrieval (retrieve_text.go) | none | validate, post, decode | `do` |
| SQL and its recovery (client.go:418-446, durable.go) | none | `SQL`, `QueryStatus`, `CancelQuery`; precedence of nested outcomes | `do` |
| Tables, schema, maintenance (client.go:211-226, 273-335, 448-516) | none | calls with a decoder each; `Column.MarshalJSON` | `do`, `urlPathEscape` |
| Health, history retention (client.go:197-271) | none | `Health`; read and set the retention window | `do` |
| Configuration (client.go:125-191, 587-597) | credentials, `*http.Client` with its timeout | `NewClient` and options, `applyAuth` | read by `do` |
| Path escaping: `urlPathEscape` (client.go:677-704) | none | a table name becomes one path segment | calls that name a table |
| The daemon (external) | applied batches and idempotency keys; rows; the retention window; running queries | `POST /kit/txn`, `/kit/query`, `/kit/search`, ... | answers the client |

A `Client` is configured once and then shared by goroutines; builders and transactions are
used by one goroutine at a time. All communication is one HTTP request and one answer. What
is hard about it:

- **An answer may never come, come late, come cut, or come from something else.** A request
  outlives the call that sent it: after a timeout the daemon may still apply the batch, while
  the caller already retries.
- **A retry is safe only if** it carries the same key and byte for byte the same payload, so
  the encoding must not depend on map order, and `Commit` must leave the transaction as it was.
- **What a caller may conclude from an error** depends on the order in which `do` looks at
  the read error, the cap and the status, and on how `newResponseError` classifies.
- **Builders are reused** across executions that may fail, and a search is paged by writing
  the daemon's cursor back into the builder.
- **Every call decodes by its own rule** what an empty body, a missing field or trailing bytes
  mean, so "nothing" and "no answer" may be confused.
- **What is read changes while it is read**: the retention window, and the status of a query
  whose levels do not change together.
- **Clients share `http.Client` values**, and an option writes into them.

`PROJECT.json` lists these hazards by line, with the properties that watch each one and, for
the few that none watches, why.

### What makes each component correct

| Component | Properties | Where |
|---|---|---|
| HTTP exchange | bytes are returned exactly for a whole 2xx body within the cap; a definite refusal comes from a whole answer | `SuccessIsWhole`, `WholeIsSuccess`, `RefusalIsAnswered` |
| Error typing | sentinel and status agree; the message is never empty; the blamed operation survives decoding | `SentinelFitsStatus`, `MessageNeverEmpty`, `BlamedOperationSurvives` |
| Cells encoding | one map, one array; every cell under its own column | `OrderIndependent`, `KeepsEveryCell` |
| Writes | at most one application per key; success is durable; a refusal is final; no false reuse of a key; one acknowledgement per transaction; failures leave it retryable; the flag follows the daemon; every call returns | section 4 |
| Query builder | conditions reach the wire as asked; the truncation flag tells of the last rows | `ConditionsMeanWhatWasAsked`, `TruncatedTellsOfLastRows` |
| Search builder | the pages are those of one search, each hit once; each page that names a next one brings hits | `PagesOfTheSearch`, `EveryPageBringsHits` |
| Calls that decode | an answer is the daemon's; success of SQL and Health mean what the docs say | `AnswerIsTheDaemons`, `SQLSuccessIsTheSignal`, `HealthIsTheAnswer` |
| Encodings | one default per column; a path names its table | `OneDefault`, `PathNamesTheTable` |
| Retention, recovery | what is returned was true while the call ran | `RetentionWasTrue`, `SetReportsItsUpdate`, `StatusWasTrue` |
| Configuration | a token wins; timeouts are those that were asked for | `TokenWins`, `OwnTimeout`, `AppTimeoutIsAskedFor` |

## 2. Modules

```
ResponseErrors          errors.go
  HttpDo                do
    Answers             what each call makes of an exchange
      Search            search.go and a caller who pages           MCSearch
        SearchProofs
      Observers         retention, durable.go, other callers       MCObservers
        ObserversProofs
    QueryBuilder        query.go                                   MCQueryBuilder
      QueryBuilderProofs
    Transaction         transaction.go, direct writes, the daemon  MCTransaction
      |  refines CommitService
      TransactionProofs           inductive invariant and safety theorems
        TransactionRefinement     Transaction implements CommitService
Sorting                 increasing order (used by Search)
  Cells                 flattenCells (used by Transaction)
    SequenceProofs      facts about sequences the proofs share
Columns                 Column.MarshalJSON
PathEscape              urlPathEscape
ClientConfig            NewClient, options, applyAuth              MCClientConfig
  ClientConfigProofs
CommitService           what an application may rely on
```

`MCHttpDo` composes one exchange out of `Answers` (with `HttpDo` and `ResponseErrors` below
it), `Cells`, `Columns` and `PathEscape`: what the caller wants encoded, what happens to the
request, and what each call would return of it. `HttpDoProofs` proves what it states.

**ResponseErrors.** A body is a record of the facts errors.go looks at: what precedes its
first significant byte (`lead`), whether that byte is a brace (`object`), what it unmarshals
to as a nested and as a flat envelope, and how it reads as a text. `IsBody` excludes
combinations no byte string has. `DecodeErrorEnvelope`, `SentinelOf` and `NewResponseError`
follow the functions of those names. Texts are classes: empty, blank, plain, and beginning with
`not found:`, which are the distinctions the code makes; all default messages are one value.

**HttpDo.** One exchange is a record of everything its outcome depends on. `size` is the
length of the body, `got` how much of it arrives before the connection fails. `Do` fails in
the order of the code; an error carries the sentinel `errors.Is` finds, `"none"` if it wraps
none.

**Answers.** One operator per call that reads. An exchange has two more fields: `form`, what a
whole 2xx body is to the decoder of the call, and `ended`, whether the context has ended when
`do` returns. `json.Unmarshal` takes one value and nothing behind it, `decodeJSON` stops behind
the first; some calls take an empty body for an answer. What a call says is `value` or
`nothing`: zero values, empty maps and empty slices are not told apart.

**Columns, PathEscape.** `MarshalJSON` is a function of the optional fields of a `Column`.
`Escape` works on bytes: `Runes` is Go's `range` over a string, with the replacement character
for bytes that belong to no rune, `EscapeRune` the body of the loop. UTF-8 itself is a constant,
the set of its encodings past ASCII. `Unescape` is the reader
on the other side, and external.

**ClientConfig.** `heap` holds the timeout of every `*http.Client`, so that two Clients may
point to the same one. `NewClient`, each option it applies and its return are steps, and
Clients are made concurrently. `ApplyAuth` is the header of every later request.

**Sorting, Cells.** `Sorted(S)` puts at place `i` the member of rank `i`, the rank of a number
being how many members are not above it. `FlattenCells(cells, order)` sorts the ids that arrived in
`order`; callers choose any order, as Go does. `Search` ranks its rows with the same operator.

**Transaction.** The state:

| Variable | In the code |
|---|---|
| `txn[t].ops`, `txn[t].committed` | the fields of `Transaction` |
| `req[r]` | one `POST /kit/txn`: who sent it, the key its caller passed, the payload, the daemon's answer, and what the caller was told (`"waiting"` while it blocks in `http.Client.Do`) |
| `applied`, `held` | the daemon's: batches it applied, and the request each key is bound to |
| `promised`, `last` | history: what a successful `Commit` was made of, and what the last `Commit` or `Rollback` returned |

Each method is an action. `Commit` is an action that sends and blocks; its second half,
`Settle`, runs when `CommitTxn` returns, through `Receive`, `TimeoutFires`,
`ConnectionFails` or `GatewayAnswers`, and everything else may happen between them.
Most transactions belong to one goroutine, which is the one that blocks (`Idle`). The code has
no lock, so the `Shared` ones are committed by several at once: nothing keeps a second `Commit`
from sending between the two halves of the first. Staging and rolling back a transaction
while it is being committed is left out: that is a data race on its slice.
`Receive` passes the daemon's answer through `Do` and `DecodeResults`, with the body whole,
longer than the cap or cut, and decodable or not. `CommitRefused`, `CommitEmpty` and
`CommitUnsent` are the early returns of `Commit`. The table name is left out of operations:
it is one more field of a payload that is compared as a whole.

The daemon is external. The client's comments and docs say what it does:
it applies a batch whole or not at all (transaction.go:13-16), replays the original answer
for a duplicate (transaction.go:85-86; docs/transactions.md:74-75, "even across restarts"), and
answers `409 IDEMPOTENCY_KEY_REUSE_MISMATCH` when a key comes with another payload
(client.go:621-625). It handles a sent request at any time or never, which covers lost, delayed
and reordered requests and a daemon that is down or restarts. A request that was applied and
whose answer is lost is one that is applied and then ends in `ConnectionFails`,
`TimeoutFires` or `GatewayAnswers`. `RefusalStatuses` are the other non-2xx answers, for
which nothing was applied; an answer that fails after applying looks like `GatewayAnswers`. An
intermediary answers 504 with a plain body: that none answers 401, 403, 404 or 409 for a request
it has forwarded is an assumption of `RefusalMeansNotApplied`.

**CommitService** is the specification an application programs against: a call is submitted
under a key or without one, its batch may become durable while it is open or after the caller
gave up, at most once per key, and it ends `ok` (durable, by this call or by the same batch
under the same key), `rejected` (never durable) or `unknown`. `callBar` in `Transaction` maps
a request to a call: `nil` is `ok`, `ErrAuth`, `ErrNotFound` and `ErrConflict` are `rejected`,
any other error is `unknown`.

**QueryBuilder.** `Where` visits the parameters in any order and renames them; `Execute`
takes any exchange, updates the flag only when the answer decodes, and leaves the builder
alone when it fails. Row contents are left out. Of two spellings of one parameter the one Go
visits last wins. `Spellings` and `WireKeys` are what
the `Where` comment and docs/queries.md say of the daemon's parameters.

**Search.** The builder's fields, and a caller who executes, hands the cursor of each page back
and executes again; who may retry a failed page, change `Limit` between pages, give up, and
start again with the same builder, from the best hit or from the cursor it still has. The
daemon ranks the rows that satisfy every filter, and a cursor is a number of hits skipped.
The caller's history (`wanted`, `paging`) is what the properties compare with. Rows do not
change while it pages: what a cursor means after they did is the daemon's affair.

**Observers.** A call is asked, answered by the daemon at one moment, and returns later. In
between, writes advance the epoch and prune history, other callers set the window, the query
commits statements and ends, and the outer levels of its status catch up or do not. `during`
is the history of everything that held while a call ran. The client relies on the daemon for
answers taken at one moment, and for a durable section that is exact; `retention.earliest`
moves as the window and the epochs demand. Callers share no state of the client, so one
caller in the run stands for each, with the daemon's own steps for what others do.

Operators that a comment calls a plausible slip (`MayResend`, `ReadLimitAtCap`) stand beside
the definition they deviate from, and no run uses them. Put in the place of that definition,
each makes the property that watches it fail.

## 3. Runs

| Run | Module | What it shows | Bounds |
|---|---|---|---|
| `http_do` | MCHttpDo | one exchange: encodings keep what they were given, success is a whole 2xx body and nothing else, errors agree with themselves and with the envelope, no call invents an answer | cap 3, bodies of 0 to 6 bytes (two under the cap, at it, one, two and three past it), breaks at every byte; eight statuses on all edges of the classification; every `Bodies` record over one code and two indexes; every form of a success. 5 column ids (0, 2, 7, 10, 11: numeric and textual order differ), 2 values: 243 maps, up to 120 orders each; every column; names of up to three pieces: ASCII, three multi-byte runes, broken encodings |
| `query_builder` | MCQueryBuilder | conditions and truncation flag over repeated executions | two conditions of seven (every kind of renaming, one with both spellings), nine round trips |
| `search` | MCSearch | paging | 4 rows, 2 filters, limits -1 to 2, six round trips: up to four pages |
| `config` | MCClientConfig | options in any order, Clients made concurrently | 2 Clients, 1 `http.Client` of the application, up to 3 options each, empty credentials, no timeout |
| `observers` | MCObservers | what is read while it changes | 1 caller and the steps of others, windows 1 and 2, epochs 1 to 4, a query of 2 statements, five round trips |
| `txn_retry` | MCTransaction | three attempts: at most once, no false success, no false reuse, the refinement | 1 transaction, shared by goroutines, and direct calls, 3 requests, 1 key or none, a two-column map (two orders), refusal 307 |
| `txn_race` | MCTransaction | two transactions and direct calls share a key; the inductive invariant; every call returns | 2 transactions, one shared, 2 requests, refusal 403, fairness on the timeout |
| `txn_batch` | MCTransaction | batches of two operations of all kinds with staging between commits | 1 transaction, 2 requests, no key |
| `http_do_typed`, `health_auth`, `query_invalid`, `txn_rollback` | | disagreements of docs and code, section 6 | as above |

Three requests are the first number at which a retry of a retry exists, so an application, a
replay and a mismatch can meet under one key; two transactions suffice for the properties
that relate two of them. The response cap is a small number because only the comparison
with it matters. `MaxOps` bounds the length of a batch, `MaxConditions` that of a query,
`MaxStaged` the filters and retrievers of a search, `MaxOptions` the options of a Client, `MaxPieces`
a name, `MaxEpoch` and `MaxStatements` what the daemon does; nothing else in the models grows.
Epochs up to 4 prune with both windows, and 3 options are what a timeout before and after an
`http.Client` takes. 307 stands in for any non-2xx, non-error status; it is the one a client
that tests only for 4xx and 5xx would take for success. Runs of a machine that ends (one
exchange, a configuration) switch deadlock checking off; all others check it.

Symmetry permutes requests and transactions, and Clients, which no definition distinguishes;
`txn_race` does not use it, for liveness and because its transactions differ.

**Fairness.** `FairSpec` assumes weak fairness of `TimeoutFires` alone: `NewClient` gives
`http.Client` a timeout of 30 s (client.go:184), whose timer is started for each request and
runs whatever the daemon does. Nothing is assumed of the daemon or the network. An application
that removes the timeout, by `WithTimeout(0)` or `WithHTTPClient`, loses the property.

## 4. Properties of the write path

- `AtMostOncePerKey`: the daemon has applied at most one batch per key the callers passed.
- `AckedIsDurable`: a call that reported success has its operations applied, by itself or by
  the same batch under the same key.
- `CommittedMeansDurable`: what a transaction marked committed promised is applied, whatever
  was staged on it later.
- `OneAckPerTransaction`, `FailedStaysRetryable`: one success per transaction of one goroutine;
  until then a failed `Commit` leaves it unmarked. A shared transaction may be acknowledged
  twice; under a key that is still one application, as the other properties say for all.
- `RefusalMeansNotApplied`: a request refused with a definite sentinel is never applied. It is a
  property of one request, not of its key: the retry loop of docs/transactions.md, which stops at
  a refusal, knows that nothing was written only if it has no earlier attempt of unknown outcome,
  which may have been applied or still be.
- `NoSpuriousMismatch`: the daemon reports reuse of a key only when the operations differ in
  meaning, never because of the encoding.
- `EveryCallReturns`.
- `ServiceSpec`: all of it together, as an implementation of `CommitService`.

`NoSpuriousMismatch` counts `returning` as part of an operation's meaning: the same row written
with `Transaction.Put` and with `Client.Put` under one key has different payloads (only
the first sends `returning`), and a retry that changes the path is answered as a reuse.

## 5. Proofs

Eight modules prove theorems, for any sets of transactions, requests, keys, cells, statuses,
Clients, callers, conditions, rows and names, and for any cap and bound. Every safety invariant
the passing runs check is one of them:

| Module | Theorem | Statement |
|---|---|---|
| `TransactionProofs` | `TypeCorrect` | `Spec => []TypeOK` |
| | `Inductive` | `Spec => []IInv` |
| | `KeyedRetryIsSafe` | `Spec => []AtMostOncePerKey` |
| | `SuccessIsKept` | `Spec => []AckedIsDurable` |
| | `MarkIsKept` | `Spec => []CommittedMeansDurable` |
| | `AckOnceThenFinal`, `FailureIsRetryable` | `Spec => []OneAckPerTransaction`, `Spec => []FailedStaysRetryable` |
| | `RefusalIsDefinite` | `Spec => []RefusalMeansNotApplied` |
| | `ReuseIsReported` | `Spec => []NoSpuriousMismatch` |
| `TransactionRefinement` | `Implements` | `Spec => ServiceSpec` |
| | `ServiceKeepsPromise`, `PromiseKept` | what `CommitService` promises, and that the write path keeps it |
| `HttpDoProofs` | `SuccessWhole`, `WholeSucceeds`, `RefusalAnswered` | what `do` returns, for every size, cap and break |
| | `SentinelFits`, `MessageGiven`, `BlameSurvives` | what an error says, for every status and body |
| | `AnswerGiven`, `SQLSignals`, `HealthAnswers` | what each call makes of an exchange |
| | `OneArray`, `EveryCellKept` | `Spec => []OrderIndependent`, `Spec => []KeepsEveryCell` |
| | `TableIsNamed`, `DefaultIsOne` | `Spec => []PathNamesTheTable`, `Spec => []OneDefault` |
| `QueryBuilderProofs` | `TruncatedTells`, `ConditionsMean` | `Spec => []TruncatedTellsOfLastRows`, `Spec => []ConditionsMeanWhatWasAsked` |
| `SearchProofs` | `OneSearch`, `PagesProgress` | `Spec => []PagesOfTheSearch`, `Spec => []EveryPageBringsHits` |
| | `HitsAreAsked` | no hit twice, every hit passes every filter |
| `ClientConfigProofs` | `TokenAlwaysWins`, `TimeoutIsOwn`, `AppTimeoutAsked` | `Spec => []TokenWins`, `Spec => []OwnTimeout`, `Spec => []AppTimeoutIsAskedFor` |
| `ObserversProofs` | `RetentionTrue`, `SetReports`, `StatusTrue` | what was returned held while the call ran |
| `SequenceProofs` | | lemmas only: sorting, the wire array, flattening, recursion over sequences |

**Assumptions.** `TransactionAssumption`, `UnusedAssumption`, `ConfigAssumption`: special
values differ from ordinary ones, caps and timeouts are numbers, `RefusalStatuses` holds no
2xx, an application's `http.Client` is not one that `NewClient` makes.
`MaxResponseBytesAssumption`, `MaxSizeAssumption`, `ObserversAssumption`: sizes, windows and
bounds are numbers. `IdsAssumption`, `MapsAssumption`, `SearchAssumption`: a Go map has finitely
many keys, column ids and rows are numbers, and a table has finitely many rows.
`MultiByteAssumption`: UTF-8 encodes what is not ASCII in two to four bytes that are not ASCII.
`AskedAssumption`: callers use condition types and parameter names that docs/queries.md and the
`Where` comment list; the code passes any other name on, whatever it may mean. `ExchangesAssumption`: an answer of the daemon about retention or a query,
if it decodes, has the fields the call asks for. It is needed because an object without them
would be returned as zeros by `HistoryRetention`, which no daemon held. TLC evaluates all of
them.

**Sequences.** The library's induction theorems take a predicate as a parameter, which no
installed prover can instantiate. Two ways around it carry the proofs about data. A sorted set
needs no induction: ranks map a finite set of `n` numbers one to one into `1..n`, so
(`RankOnce`) every place has exactly one member, which is what `Sorted` chooses. From that
follow that the ids come out in increasing order whatever the iteration order
(`FlattenIsWireArray`) and that the pairs read back are the map (`WireArrayReadsBack`). Where
induction is needed, it is stated of a set of numbers (`SetInduction`: a set that has 0 and every
successor is `Nat`), which is first-order and is itself proved from the existence of maxima. With it,
`FlattenSeq` and the functions that build a sequence from its end are shown to satisfy the
equations that define them (`Flattens`, `BackwardsExists`), so that a proof may use them.

**The write path.** None of its properties is inductive. `AtMostOncePerKey` needs the daemon's
key table to describe exactly the applied batches (`HeldIsApplied`, `AppliedIsHeld`), and the
key of the payload to be the caller's (`KeyTravels`). `AckedIsDurable` needs that the daemon
answers success only for what is applied (`SuccessIsDurable`) and that callers are told success
only by such an answer (`OkIsSuccess`), which is a fact about `Do`: lemma `DoOutcome` shows that
bytes are returned only for a 2xx and a definite sentinel only for an answer that is none.
`CommittedMeansDurable` needs that the transaction a call blocks on still holds what was sent
(`BlockedIsFrozen`) and that only one call does (`OneCommitAtATime`, for transactions that are
not shared). `IInv` is `TypeOK` with these two groups, `DaemonInv` and `ClientInv`.
`StepKinds` reduces the actions to five kinds: staging, local steps, sends, ends and the daemon's.
Each group is then proved preserved by each kind, the daemon's half independently of the
client's. `ReuseIsReported` has an invariant of its own, that a reported reuse is of a key under which
other operations were applied (`ReuseIsReal`), and rests on `MeaningIsInjective`: the wire form of
a batch is determined by what it means, so different payloads mean different things. The refinement maps a send to `Submit`, `DaemonApplies` to `Apply`, an end to
`Acknowledge`, `Reject` or `GiveUp` by its verdict, and everything else to a stutter. What
`CommitService` is good for is a theorem about it alone (`Promise`: rejected is never durable, a
key counts once, ok is durable), which the write path inherits.

**One exchange.** A caller is told once, so the invariant is that what it was told is the value
of the operators at its exchange (`Told`), and the exchange is one (`IsExchange`: no more
arrives than there is, and what is no object has no nested envelope). The theorems then follow
from lemmas about `Do` (`DoIsWhole`, `WholeIsReturned`, `RefusalIsWhole`), `NewResponseError`
(`SentinelIsOfStatus`) and `Read` (`ReadIsAccepted`). For paths, a segment is a sequence of
tokens, each a byte or a percent sign with two digits; `Reads` says that it falls into tokens that
are read as given bytes. Tokens may be put behind one another (`ReadsConcat`, `ReadsFlatten`), each
rune becomes tokens that read as its bytes (`RuneRead`), and `Unescape` reads what falls into
tokens (`UnescapeReads`). So the daemon reads the runes of the name, which are the name if it is
text.

**Observers.** The invariant follows an answer: what holds now is in the history of every
running call (`Sees`), a body describes the moment it was taken (`BodyWasTrue`), and a returned
value is that of its body (`ValueWasTrue`). For a status the second part needs `Lags`: a level
other than the durable section says something only after the durable section does, so the
fallbacks of `CommitHlc` and `SerializationState` never reach a level that knows more or less
(`StatusIsTruth`).

**Paging.** `PagesOfTheSearch` is not inductive, as it says nothing of the cursor.
The invariant adds that the cursor in the builder points right behind the hits the caller has
(`CursorFollows`), which stand in the ranking one behind the other (`Collected`), and that the
ranking ends where paging ended (`EndIsEnd`). A page is then a stretch of the ranking from the
cursor, of at most `limit` hits, so it continues them. `EveryPageBringsHits` is a property
of each step and needs a positive limit, which `Build` enforces. That a caller runs out of pages is
not a theorem: it follows for one who is answered, as each page followed by another takes at least
one of finitely many hits.

**Configuration and the query builder.** The credentials of a Client are those of the last
option of their kind (`TokenIsLast`, `UserIsLast`), and its `http.Client` is its own or one it
was given (`HTTPIsKnown`), so another Client's `WithTimeout` cannot reach it, and one of the
application is only reached by Clients that were given it. Lemma `Appended`
says what one more option does to "the last of its kind". For the query builder, each condition
is an encoding of what was asked, for some map order (`Encoded`), and any such encoding means
what was asked: every friendly name is renamed to the one wire name it is a spelling of
(`CanonicalMeans`, for each of the twelve types), hence no wire name gets a value that was meant
for another (`NormalizedMeans`).

**Only model-checked.** `EveryCallReturns`, as liveness under fairness is out of the prover's
reach, and the four disagreements of section 6, which are counterexamples.

## 6. Where docs and code disagree

- `txn_rollback`: docs/transactions.md:215-216 says that `Rollback` after a failed `Commit`
  returns `ErrTxnCommitted`. `Commit` marks the transaction only on success, so `Rollback`
  succeeds, and drops a batch whose fate may be unknown.
- `http_do_typed`: SECURITY.md:56-59 says that network errors are mapped to the typed hierarchy,
  docs/errors.md:176 that `ErrQuery` covers transport failures. They wrap no sentinel.
- `health_auth`: docs/auth.md:33-44 tests the error of `Health` for `ErrAuth`, and 184-185 says
  that every call fails with it. `Health` answers a 401 with `false, nil` (client.go:205-208).
- `query_invalid`: SECURITY.md:54-55 says that the query builder rejects invalid ids and ranges
  before sending. It validates nothing.

Two more are visible in `ResponseErrors` and have no run. errors.go:38 calls `Status` the HTTP
status, and a message that begins with `not found:` makes it 404. errors.go:122 says that a
byte-order mark is tolerated; it hides the envelope, for which `BlamedOperationSurvives` makes
an exception.

## 7. What is not modelled

- Headers other than `Authorization`, the base URL and the encoding of values: no property
  depends on them. Among the encodings is that of token ids from `float64` to `uint32`
  (search.go:69): there are no floating-point numbers here.
- Redirects that `net/http` follows. `AckedIsDurable` assumes that the answer to a request is the
  answer to that request: for a 301, 302 or 303 with a `Location`, `http.Client` sends a GET
  instead of the POST, and a 2xx to that GET would count as the success of a commit. The daemon is
  not known to redirect; a proxy in front of it may. The 3xx of the runs are answers that reach `do`.
- What a server or a proxy makes of the table names `.` and `..`, which `urlPathEscape` sends as
  they are. `PathNamesTheTable` is about the segment and what unescaping it yields.
- Rows, schema descriptors and scores, which the client passes on; the trace of a search and the
  optional fields of a text retrieval likewise.
- Staging on a transaction while another goroutine commits it, and two goroutines in one
  builder: data races the code does not claim to survive.
- The daemon beyond what the client relies on. What a cursor means once rows have changed is its
  affair, and so is the order in which it prunes.
- Examples, tests, CI and the version constant.

## 8. Plan

Built, in this order: the exchange and its errors, the write path with `CommitService`, the
query builder; then transactions that goroutines share, the calls that decode, search, recovery
and retention, configuration, the encodings of columns and paths, and the proofs of section 5.

Left:

1. An abstract specification for paging (a caller who is given the ranked hits of one search, in
   stretches) and one for retention and recovery (a read returns a value that held while it
   ran), refined by `Search` and `Observers` as `Transaction` refines `CommitService`. The
   invariants they need are those of section 5.
2. `QueryStatus` polled after an SQL call of unknown outcome, as a recovery protocol with an
   abstract specification like `CommitService`. The docs call a status
   "retained" and do not say for how long, so what a caller may conclude from a missing one cannot
   be stated yet.
