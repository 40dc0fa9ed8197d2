---------------------------- MODULE HttpDoProofs ----------------------------
(***************************************************************************)
(* What a caller is told of an exchange, for every size of body, every cap *)
(* and every set of statuses, codes and operation indexes; and what is     *)
(* sent of its cells, columns and names, for every set of ids, values and   *)
(* scalars and every table of encodings.                                   *)
(* A caller is told once, and neither what it asked for nor the exchange   *)
(* changes: everything rests on Told, which says of which operators the    *)
(* answers are the value, and on the lemmas about those operators.         *)
(***************************************************************************)
EXTENDS MCHttpDo, SequenceProofs

\* What the lemmas need to know of an exchange.
IsExchange(e) ==
  /\ e.size \in Nat /\ e.got \in Nat /\ e.got <= e.size
  /\ ~e.body.object => e.body.nested = Undecodable

ErrOf(e) ==
  IF ~Do(e).ok /\ Do(e).kind = "response" THEN NewResponseError(e.status, e.body) ELSE Nil

Told ==
  told.done =>
    /\ told.outcome = Do(x)
    /\ told.err = ErrOf(x)
    /\ told.answers = AnswersOf(x)
    /\ told.rows = SQL(x)
    /\ told.health = Health(x)
    /\ told.flat = WireArray(ask.cells)
    /\ told.column = MarshalJSON(ask.column)
    /\ told.segment = Escape(ask.name)

Octets == 0..255

IInv ==
  /\ IsExchange(x)
  /\ IsCells(ask.cells) /\ ask.column \in Columns /\ ask.name \in Seq(Octets)
  /\ Told

-----------------------------------------------------------------------------
\* What do returns, for any exchange (Client.do, client.go:541-585): a success
\* is a whole 2xx body within the cap.
LEMMA DoIsWhole ==
  ASSUME NEW e, IsExchange(e), Do(e).ok
  PROVE  /\ e.replied /\ e.got = e.size /\ e.size <= MaxResponseBytes
         /\ IsSuccess(e.status) /\ Do(e).bytes = e.size
<1>1. e.encodes /\ e.builds /\ e.replied /\ ~ReadFails(e) /\ ~Oversized(e) /\ ~StatusFails(e.status)
  BY DEF Do, Failed
<1>2. Do(e) = Returned(BytesRead(e))
  BY <1>1 DEF Do
<1>3. e.got = e.size /\ e.size <= MaxResponseBytes /\ BytesRead(e) = e.size
  BY <1>1, MaxResponseBytesAssumption DEF IsExchange, ReadFails, Oversized, BytesRead, ReadLimit
<1>4. IsSuccess(e.status)
  BY <1>1 DEF IsSuccess, StatusFails
<1>5. QED
  BY <1>1, <1>2, <1>3, <1>4 DEF Returned

\* And a whole 2xx body within the cap is a success.
LEMMA WholeIsReturned ==
  ASSUME NEW e, IsExchange(e), e.encodes, e.builds, e.replied, IsSuccess(e.status),
         e.got = e.size, e.size <= MaxResponseBytes
  PROVE  Do(e).ok
<1>1. ~ReadFails(e) /\ ~Oversized(e)
  BY MaxResponseBytesAssumption DEF IsExchange, ReadFails, Oversized, BytesRead, ReadLimit
<1>2. ~StatusFails(e.status)
  BY DEF IsSuccess, StatusFails
<1>3. QED
  BY <1>1, <1>2 DEF Do, Returned

\* A refusal other than ErrQuery is a whole non-2xx answer within the cap.
LEMMA RefusalIsWhole ==
  ASSUME NEW e, IsExchange(e), ~Do(e).ok,
         Do(e).sentinel \in {"ErrAuth", "ErrNotFound", "ErrConflict"}
  PROVE  e.replied /\ ~IsSuccess(e.status) /\ e.got = e.size /\ e.size <= MaxResponseBytes
<1>1. e.encodes /\ e.builds /\ e.replied /\ ~ReadFails(e) /\ ~Oversized(e)
  BY DEF Do, Failed
<1>2. StatusFails(e.status)
  BY <1>1 DEF Do, Returned
<1>3. e.got = e.size /\ e.size <= MaxResponseBytes
  BY <1>1, MaxResponseBytesAssumption DEF IsExchange, ReadFails, Oversized, BytesRead, ReadLimit
<1>4. QED
  BY <1>1, <1>2, <1>3 DEF IsSuccess, StatusFails

\* What a call reads was in a form it accepts (client.go:212-335, 451-516).
LEMMA ReadIsAccepted ==
  ASSUME NEW e, NEW accepted, Read(e, accepted).ok
  PROVE  Do(e).ok /\ e.form \in accepted /\ Read(e, accepted) = Decoded(e.form)
BY DEF Read, Failed

\* The sentinel of an error is that of its status (newResponseError,
\* errors.go:84-111).
LEMMA SentinelIsOfStatus ==
  ASSUME NEW status, NEW b
  PROVE  LET e == NewResponseError(status, b) IN e.sentinel = SentinelOf(e.status)
<1>1. CASE IsNotFound(Said(b))
  BY <1>1 DEF NewResponseError, StatusSaid, SentinelOf
<1>2. CASE ~IsNotFound(Said(b))
  BY <1>2 DEF NewResponseError, StatusSaid
<1>3. QED
  BY <1>1, <1>2

-----------------------------------------------------------------------------
(* Paths.  A segment is read token by token: a byte, or a percent sign and *)
(* two digits.                                                             *)

\* A token of s: where it stands, the byte it is read as, where the next stands.
Token(s, i, b, next) ==
  /\ i \in 1..Len(s)
  /\ IF s[i] = Percent
     THEN next = i + 3 /\ i + 2 <= Len(s) /\ b = 16 * DigitOf(s[i + 1]) + DigitOf(s[i + 2])
     ELSE next = i + 1 /\ b = s[i]

\* A segment that falls into tokens which are read as the bytes a.
Reads(s, a) ==
  \E at \in [1..(Len(a) + 1) -> Nat] :
    /\ at[1] = 1 /\ at[Len(a) + 1] = Len(s) + 1
    /\ \A j \in 1..Len(a) : Token(s, at[j], a[j], at[j + 1])

\* What precedes or follows a token does not matter to it.
LEMMA TokenBefore ==
  ASSUME NEW s \in Seq(Int), NEW t \in Seq(Int), NEW i, NEW b, NEW next, Token(s, i, b, next)
  PROVE  Token(s \o t, i, b, next)
<1> DEFINE st == s \o t
           n == Len(s)
           k == Len(t)
<1>1. /\ Len(st) = n + k /\ n \in Nat /\ k \in Nat
      /\ \A j \in 1..n : st[j] = s[j]
  BY ConcatProperties
<1>2. i \in 1..n /\ (s[i] = Percent => i + 2 <= n)
  BY DEF Token
<1> HIDE DEF st, n, k
<1>3. i \in 1..(n + k) /\ st[i] = s[i]
  BY <1>1, <1>2
<1>4. CASE s[i] = Percent
  <2>1. i + 1 \in 1..n /\ i + 2 \in 1..n /\ i + 2 <= n + k
    BY <1>1, <1>2, <1>4
  <2>2. st[i + 1] = s[i + 1] /\ st[i + 2] = s[i + 2]
    BY <1>1, <2>1
  <2> QED BY <1>1, <1>3, <1>4, <2>1, <2>2 DEF Token, st
<1>5. CASE s[i] # Percent
  BY <1>1, <1>3, <1>5 DEF Token, st
<1> QED BY <1>4, <1>5

LEMMA TokenBehind ==
  ASSUME NEW s \in Seq(Int), NEW t \in Seq(Int), NEW i, NEW b, NEW next, Token(t, i, b, next)
  PROVE  Token(s \o t, Len(s) + i, b, Len(s) + next)
<1> DEFINE st == s \o t
           n == Len(s)
           k == Len(t)
<1>1. /\ Len(st) = n + k /\ n \in Nat /\ k \in Nat
      /\ \A j \in 1..k : st[n + j] = t[j]
  BY ConcatProperties
<1>2. i \in Int /\ i >= 1 /\ i <= k /\ (t[i] = Percent => i + 2 <= k)
  BY DEF Token
<1> HIDE DEF st, n, k
<1>3. n + i \in 1..(n + k) /\ st[n + i] = t[i]
  BY <1>1, <1>2
<1>4. CASE t[i] = Percent
  <2>1. /\ i + 1 \in 1..k /\ i + 2 \in 1..k /\ (n + i) + 2 <= n + k
        /\ (n + i) + 1 = n + (i + 1) /\ (n + i) + 2 = n + (i + 2) /\ (n + i) + 3 = n + (i + 3)
    BY <1>1, <1>2, <1>4
  <2>2. st[(n + i) + 1] = t[i + 1] /\ st[(n + i) + 2] = t[i + 2]
    BY <1>1, <2>1
  <2>3. next = i + 3 /\ b = 16 * DigitOf(t[i + 1]) + DigitOf(t[i + 2])
    BY <1>4 DEF Token
  <2>4. Token(st, n + i, b, n + next)
    BY <1>1, <1>3, <1>4, <2>1, <2>2, <2>3 DEF Token
  <2> QED BY <2>4 DEF st, n
<1>5. CASE t[i] # Percent
  <2>1. next = i + 1 /\ b = t[i] /\ n + next = (n + i) + 1
    BY <1>1, <1>2, <1>5 DEF Token
  <2>2. Token(st, n + i, b, n + next)
    BY <1>1, <1>3, <1>5, <2>1 DEF Token
  <2> QED BY <2>2 DEF st, n
<1> QED BY <1>4, <1>5

\* So segments may be put behind one another,
LEMMA ReadsConcat ==
  ASSUME NEW s \in Seq(Int), NEW t \in Seq(Int), NEW a \in Seq(Int), NEW b \in Seq(Int),
         Reads(s, a), Reads(t, b)
  PROVE  Reads(s \o t, a \o b)
<1> DEFINE n == Len(s)
           m == Len(a)
           k == Len(b)
           st == s \o t
           ab == a \o b
<1>1. PICK f \in [1..(m + 1) -> Nat] :
        /\ f[1] = 1 /\ f[m + 1] = n + 1
        /\ \A j \in 1..m : Token(s, f[j], a[j], f[j + 1])
  BY DEF Reads
<1>2. PICK g \in [1..(k + 1) -> Nat] :
        /\ g[1] = 1 /\ g[k + 1] = Len(t) + 1
        /\ \A j \in 1..k : Token(t, g[j], b[j], g[j + 1])
  BY DEF Reads
<1>3. n \in Nat /\ m \in Nat /\ k \in Nat /\ Len(t) \in Nat
  OBVIOUS
<1>4. /\ Len(st) = n + Len(t) /\ Len(ab) = m + k
      /\ \A i \in 1..m : ab[i] = a[i]
      /\ \A i \in 1..k : ab[m + i] = b[i]
  BY ConcatProperties
<1> DEFINE h == [j \in 1..(m + k + 1) |-> IF j <= m THEN f[j] ELSE n + g[j - m]]
<1> HIDE DEF n, m, k, st, ab
<1>5. h \in [1..(m + k + 1) -> Nat]
  <2> SUFFICES ASSUME NEW j \in 1..(m + k + 1)
               PROVE  (IF j <= m THEN f[j] ELSE n + g[j - m]) \in Nat
    OBVIOUS
  <2>1. CASE j <= m
    <3>1. j \in 1..(m + 1)
      BY <1>3, <2>1
    <3> QED BY <2>1, <3>1
  <2>2. CASE ~(j <= m)
    <3>1. j - m \in 1..(k + 1)
      BY <1>3, <2>2
    <3>2. g[j - m] \in Nat
      BY <3>1
    <3> QED BY <1>3, <2>2, <3>2
  <2> QED BY <2>1, <2>2
<1>6. /\ \A j \in 1..m : h[j] = f[j]
      /\ \A j \in 1..(k + 1) : h[m + j] = n + g[j]
      /\ \A j \in 1..(m + 1) : h[j] = f[j]
  <2>1. \A j \in 1..m : h[j] = f[j]
    BY <1>3
  <2>2. ASSUME NEW j \in 1..(k + 1) PROVE h[m + j] = n + g[j]
    <3>1. m + j \in 1..(m + k + 1) /\ ~(m + j <= m) /\ (m + j) - m = j
      BY <1>3
    <3> QED BY <3>1
  <2>3. h[m + 1] = f[m + 1]
    <3>1. h[m + 1] = n + g[1]
      BY <1>3, <2>2
    <3> QED BY <1>1, <1>2, <3>1
  <2>4. \A j \in 1..(m + 1) : j \in 1..m \/ j = m + 1
    BY <1>3
  <2> HIDE DEF h
  <2> QED BY <2>1, <2>2, <2>3, <2>4
<1> HIDE DEF h
<1>7. h[1] = 1 /\ h[m + k + 1] = Len(st) + 1
  <2>1. 1 \in 1..(m + 1) /\ k + 1 \in 1..(k + 1) /\ m + (k + 1) = m + k + 1
    BY <1>3
  <2>2. h[1] = f[1] /\ h[m + k + 1] = n + g[k + 1]
    BY <1>6, <2>1
  <2> QED BY <1>1, <1>2, <1>3, <1>4, <2>2
<1>8. ASSUME NEW j \in 1..m PROVE Token(st, h[j], ab[j], h[j + 1])
  <2>1. Token(s, f[j], a[j], f[j + 1])
    BY <1>1
  <2>2. j \in 1..(m + 1) /\ j + 1 \in 1..(m + 1)
    BY <1>3
  <2>3. h[j] = f[j] /\ h[j + 1] = f[j + 1] /\ ab[j] = a[j]
    BY <1>4, <1>6, <2>2
  <2>4. Token(st, f[j], a[j], f[j + 1])
    BY <2>1, TokenBefore DEF st
  <2> QED BY <2>3, <2>4
<1>9. ASSUME NEW j \in 1..k PROVE Token(st, h[m + j], ab[m + j], h[m + j + 1])
  <2>1. Token(t, g[j], b[j], g[j + 1])
    BY <1>2
  <2>2. j \in 1..(k + 1) /\ j + 1 \in 1..(k + 1) /\ m + j + 1 = m + (j + 1)
    BY <1>3
  <2>3. h[m + j] = n + g[j] /\ h[m + (j + 1)] = n + g[j + 1] /\ ab[m + j] = b[j]
    <3>1. \A i \in 1..(k + 1) : h[m + i] = n + g[i]
      BY <1>6
    <3>2. h[m + j] = n + g[j] /\ h[m + (j + 1)] = n + g[j + 1]
      BY <2>2, <3>1
    <3> QED BY <1>4, <3>2
  <2>4. Token(st, n + g[j], b[j], n + g[j + 1])
    BY <2>1, TokenBehind DEF st, n
  <2> QED BY <2>2, <2>3, <2>4
<1>10. ASSUME NEW j \in 1..(m + k) PROVE Token(st, h[j], ab[j], h[j + 1])
  <2>1. CASE j \in 1..m
    BY <1>8, <2>1
  <2>2. CASE j \notin 1..m
    <3>1. j - m \in 1..k /\ m + (j - m) = j
      BY <1>3, <2>2
    <3> QED BY <1>9, <3>1
  <2> QED BY <2>1, <2>2
<1>11. \A j \in 1..Len(ab) : Token(st, h[j], ab[j], h[j + 1])
  BY <1>4, <1>10
<1> QED BY <1>4, <1>5, <1>7, <1>11 DEF Reads, st, ab

\* and any number of them be flattened.
LEMMA ReadsFlatten ==
  ASSUME NEW p \in Seq(Seq(Int)), NEW c \in Seq(Seq(Int)), Len(p) = Len(c),
         \A i \in 1..Len(p) : Reads(p[i], c[i])
  PROVE  Reads(FlattenSeq(p), FlattenSeq(c))
<1> DEFINE n == Len(p)
<1>1. n \in Nat
  OBVIOUS
<1>2. CASE n = 0
  <2>1. FlattenSeq(p) = <<>> /\ FlattenSeq(c) = <<>>
    <3>1. FlattenSeq(p) = p
      BY <1>2, Z3 DEF FlattenSeq
    <3>2. FlattenSeq(c) = c
      BY <1>2, Z3 DEF FlattenSeq
    <3>3. p = <<>> /\ c = <<>>
      BY <1>2, EmptySeq
    <3> QED BY <3>1, <3>2, <3>3
  <2>2. Reads(<<>>, <<>>)
    <3> DEFINE at == [i \in 1..1 |-> 1]
    <3>1. /\ at \in [1..(Len(<<>>) + 1) -> Nat]
          /\ at[1] = 1 /\ at[Len(<<>>) + 1] = Len(<<>>) + 1
          /\ \A j \in 1..Len(<<>>) : Token(<<>>, at[j], <<>>[j], at[j + 1])
      OBVIOUS
    <3> HIDE DEF at
    <3> QED BY <3>1 DEF Reads
  <2> QED BY <2>1, <2>2
<1>3. CASE n # 0
  <2>1. PICK F \in [1..n -> Seq(Int)] : Flattening(F, n, p) /\ FlattenSeq(p) = F[n]
    BY <1>3, Flattens
  <2>2. PICK G \in [1..n -> Seq(Int)] : Flattening(G, n, c) /\ FlattenSeq(c) = G[n]
    BY <1>3, Flattens
  <2>3. \A i \in 1..n : Reads(p[i], c[i]) /\ p[i] \in Seq(Int) /\ c[i] \in Seq(Int)
    OBVIOUS
  <2> HIDE DEF n
  <2> DEFINE K == {k \in Nat : k + 1 <= n => Reads(F[k + 1], G[k + 1])}
  <2>4. 0 \in K
    <3>1. F[1] = p[1] /\ G[1] = c[1] /\ 1 \in 1..n
      BY <1>1, <1>3, <2>1, <2>2 DEF Flattening
    <3> QED BY <2>3, <3>1
  <2>5. ASSUME NEW k \in K PROVE k + 1 \in K
    <3> SUFFICES ASSUME (k + 1) + 1 <= n PROVE Reads(F[(k + 1) + 1], G[(k + 1) + 1])
      OBVIOUS
    <3>1. k \in Nat /\ Reads(F[k + 1], G[k + 1]) /\ k + 1 \in 1..n /\ k + 2 \in 2..n /\ k + 2 \in 1..n
          /\ (k + 2) - 1 = k + 1 /\ (k + 1) + 1 = k + 2
      BY <1>1
    <3>2. F[k + 2] = F[k + 1] \o p[k + 2] /\ G[k + 2] = G[k + 1] \o c[k + 2]
      BY <2>1, <2>2, <3>1 DEF Flattening
    <3>3. F[k + 1] \in Seq(Int) /\ G[k + 1] \in Seq(Int)
      BY <2>1, <2>2, <3>1
    <3>4. Reads(F[k + 1] \o p[k + 2], G[k + 1] \o c[k + 2])
      BY <2>3, <3>1, <3>3, ReadsConcat
    <3> QED BY <3>1, <3>2, <3>4
  <2>6. K = Nat
    <3> HIDE DEF K
    <3>1. K \in SUBSET Nat
      BY DEF K
    <3> QED BY <2>4, <2>5, <3>1, SetInduction
  <2>7. n - 1 \in Nat /\ (n - 1) + 1 = n
    BY <1>1, <1>3
  <2>8. n - 1 \in K
    <3> HIDE DEF K
    <3> QED BY <2>6, <2>7
  <2> QED BY <2>1, <2>2, <2>7, <2>8
<1> QED BY <1>2, <1>3

\* Two digits give the byte they were made of, and need no escape.
LEMMA DigitsRead ==
  ASSUME NEW b \in Octets
  PROVE  /\ HexDigit(b \div 16) \in Unreserved /\ HexDigit(b % 16) \in Unreserved
         /\ 16 * DigitOf(HexDigit(b \div 16)) + DigitOf(HexDigit(b % 16)) = b
<1>1. b \div 16 \in 0..15 /\ b % 16 \in 0..15 /\ 16 * (b \div 16) + (b % 16) = b
  BY DEF Octets
<1>2. ASSUME NEW d \in 0..15
      PROVE  HexDigit(d) \in Unreserved /\ DigitOf(HexDigit(d)) = d
  BY DEF HexDigit, DigitOf, Unreserved
<1> QED BY <1>1, <1>2

\* Escaped bytes are read back, and keep to the characters of a segment.
LEMMA BytesReadBack ==
  ASSUME NEW r \in Seq(Octets)
  PROVE  EscapeBytes(r) \in Seq(Unreserved \union {Percent}) /\ Reads(EscapeBytes(r), r)
<1> DEFINE n == Len(r)
           e == EscapeBytes(r)
           hi(j) == HexDigit(r[j] \div 16)
           lo(j) == HexDigit(r[j] % 16)
<1>1. n \in Nat /\ \A j \in 1..n : r[j] \in Octets
  OBVIOUS
<1>2. \A j \in 1..n : /\ hi(j) \in Unreserved /\ lo(j) \in Unreserved
                      /\ 16 * DigitOf(hi(j)) + DigitOf(lo(j)) = r[j]
  BY <1>1, DigitsRead
<1> HIDE DEF n
<1>3. e = [i \in 1..(3 * n) |-> CASE i % 3 = 1 -> Percent
                                  [] i % 3 = 2 -> hi((i + 2) \div 3)
                                  [] i % 3 = 0 -> lo((i + 2) \div 3)]
  BY DEF EscapeBytes, n
<1>4. \A i \in 1..(3 * n) : (i + 2) \div 3 \in 1..n /\ i % 3 \in {0, 1, 2}
  BY <1>1
<1> HIDE DEF e, hi, lo
<1>5. e \in [1..(3 * n) -> Unreserved \union {Percent}]
  BY <1>2, <1>3, <1>4
<1>6. e \in Seq(Unreserved \union {Percent}) /\ Len(e) = 3 * n
  <2>1. 3 * n \in Nat
    BY <1>1
  <2> QED BY <1>5, <2>1
<1>7. ASSUME NEW j \in 1..n
      PROVE  Token(e, 3 * j - 2, r[j], 3 * j + 1)
  <2> DEFINE i == 3 * j - 2
  <2>1. /\ i \in 1..(3 * n) /\ i + 1 \in 1..(3 * n) /\ i + 2 \in 1..(3 * n)
        /\ i % 3 = 1 /\ (i + 1) % 3 = 2 /\ (i + 2) % 3 = 0
        /\ ((i + 1) + 2) \div 3 = j /\ ((i + 2) + 2) \div 3 = j /\ 3 * j + 1 = i + 3
    BY <1>1
  <2> HIDE DEF i
  <2>2. e[i] = Percent /\ e[i + 1] = hi(j) /\ e[i + 2] = lo(j)
    <3>1. e[i] = Percent
      <4>1. i % 3 = 1 /\ i \in 1..(3 * n)
        BY <2>1
      <4>2. e[i] = CASE i % 3 = 1 -> Percent
                     [] i % 3 = 2 -> hi((i + 2) \div 3)
                     [] i % 3 = 0 -> lo((i + 2) \div 3)
        BY <1>3, <4>1, Zenon
      <4> QED BY <4>1, <4>2
    <3>2. e[i + 1] = hi(((i + 1) + 2) \div 3)
      BY <1>3, <2>1
    <3>3. e[i + 2] = lo(((i + 2) + 2) \div 3)
      BY <1>3, <2>1
    <3> QED BY <2>1, <3>1, <3>2, <3>3
  <2>3. i + 2 <= Len(e) /\ i \in 1..Len(e)
    BY <1>1, <1>6, <2>1
  <2>4. Token(e, i, r[j], 3 * j + 1)
    BY <1>2, <2>1, <2>2, <2>3 DEF Token
  <2> QED BY <2>4 DEF i
<1>8. Reads(e, r)
  <2> DEFINE at == [j \in 1..(n + 1) |-> 3 * j - 2]
  <2>1. at \in [1..(n + 1) -> Nat]
    BY <1>1
  <2>2. at[1] = 1 /\ at[n + 1] = Len(e) + 1
    BY <1>1, <1>6
  <2>3. \A j \in 1..n : at[j] = 3 * j - 2 /\ at[j + 1] = 3 * j + 1
    BY <1>1
  <2> HIDE DEF at
  <2>4. \A j \in 1..n : Token(e, at[j], r[j], at[j + 1])
    BY <1>7, <2>3
  <2> QED BY <2>1, <2>2, <2>4 DEF Reads, n
<1> QED BY <1>6, <1>8 DEF e

\* What ranging over a string yields.
RuneSet == {<<b>> : b \in 0..127} \union MultiByte \union {Replacement}

\* One rune is read back, escaped or not (urlPathEscape, client.go:684-701).
LEMMA RuneRead ==
  ASSUME NEW r \in RuneSet
  PROVE  /\ r \in Seq(Octets)
         /\ EscapeRune(r) \in Seq(Unreserved \union {Percent}) /\ Reads(EscapeRune(r), r)
<1>1. ASSUME NEW b \in 0..127, r = <<b>>
      PROVE  /\ r \in Seq(Octets)
             /\ EscapeRune(r) \in Seq(Unreserved \union {Percent}) /\ Reads(EscapeRune(r), r)
  <2>1. r \in Seq(Octets) /\ Len(r) = 1 /\ r[1] = b
    BY <1>1 DEF Octets
  <2>2. CodePoint(r) = b /\ b % 256 = b
    <3>1. CodePoint(r) = r[1]
      BY <2>1 DEF CodePoint
    <3> QED BY <2>1, <3>1
  <2>3. CASE b \in Unreserved
    <3>1. EscapeRune(r) = <<b>>
      BY <2>2, <2>3 DEF EscapeRune, Kept
    <3>2. b # Percent
      BY <2>3 DEF Unreserved, Percent
    <3>3. Reads(<<b>>, <<b>>)
      <4> DEFINE at == [j \in 1..2 |-> j]
      <4>1. /\ at \in [1..(Len(<<b>>) + 1) -> Nat] /\ at[1] = 1 /\ at[2] = 2
            /\ at[Len(<<b>>) + 1] = Len(<<b>>) + 1
        OBVIOUS
      <4> HIDE DEF at
      <4>2. \A j \in 1..Len(<<b>>) : Token(<<b>>, at[j], <<b>>[j], at[j + 1])
        BY <3>2, <4>1 DEF Token
      <4> QED BY <4>1, <4>2 DEF Reads
    <3>4. <<b>> \in Seq(Unreserved \union {Percent})
      BY <2>3
    <3> QED BY <1>1, <2>1, <3>1, <3>3, <3>4
  <2>4. CASE b \notin Unreserved
    <3>1. EscapeRune(r) = EscapeBytes(r)
      BY <2>2, <2>4 DEF EscapeRune, Kept
    <3> QED BY <2>1, <3>1, BytesReadBack
  <2> QED BY <2>3, <2>4
<1>2. ASSUME r \in Seq(Octets), CodePoint(r) >= 128, CodePoint(r) \in Int
      PROVE  EscapeRune(r) \in Seq(Unreserved \union {Percent}) /\ Reads(EscapeRune(r), r)
  <2>1. EscapeRune(r) = EscapeBytes(r)
    BY <1>2 DEF EscapeRune, Kept
  <2> QED BY <1>2, <2>1, BytesReadBack
<1>3. CASE r \in MultiByte
  <2>1. r \in Seq(128..255) /\ CodePoint(r) \in Nat /\ CodePoint(r) >= 128
    BY <1>3, MultiByteAssumption
  <2>2. r \in Seq(Octets)
    <3>1. 128..255 \in SUBSET Octets
      BY DEF Octets
    <3> QED BY <2>1, <3>1, SeqMonotonic
  <2>3. CodePoint(r) >= 128 /\ CodePoint(r) \in Int
    BY <2>1
  <2> QED BY <1>2, <2>1, <2>2, <2>3
<1>4. CASE r = Replacement
  <2>1. r \in Seq(Octets) /\ Len(r) = 3 /\ r[1] = 239 /\ r[2] = 191 /\ r[3] = 189
    BY <1>4 DEF Replacement, Octets
  <2>2. CodePoint(r) \in Int /\ CodePoint(r) >= 128
    <3>1. r[1] % 16 = 15 /\ r[2] % 64 = 63 /\ r[3] % 64 = 61
      BY <2>1
    <3>2. CodePoint(r) = 64 * (64 * (r[1] % 16) + (r[2] % 64)) + (r[3] % 64)
      BY <2>1 DEF CodePoint
    <3> QED BY <3>1, <3>2
  <2> QED BY <1>2, <2>1, <2>2
<1> QED BY <1>1, <1>3, <1>4 DEF RuneSet

\* Ranging over a string yields runes, whatever bytes it has.
LEMMA RunesType ==
  ASSUME NEW name \in Seq(Octets)
  PROVE  Runes(name) \in Seq(RuneSet)
<1> DEFINE n == Len(name)
           head == [i \in 1..n |-> RuneAt(name, i)]
           width == [i \in 1..n |-> WidthAt(name, i)]
<1>1. n \in Nat /\ \A i \in 1..n : name[i] \in Nat
  <2>1. n \in Nat /\ \A i \in 1..n : name[i] \in Octets
    OBVIOUS
  <2>2. \A b \in Octets : b \in Nat
    BY DEF Octets
  <2> QED BY <2>1, <2>2
<1>2. ASSUME NEW i \in 1..n
      PROVE  /\ RuneAt(name, i) \in RuneSet
             /\ WidthAt(name, i) \in Nat /\ WidthAt(name, i) >= 1 /\ i + WidthAt(name, i) <= n + 1
  <2>0. name[i] \in Nat
    BY <1>1
  <2>1. CASE name[i] < 128
    <3>1. name[i] \in 0..127 /\ ~(name[i] >= 128)
      <4>1. \A b \in Nat : b < 128 => b \in 0..127 /\ ~(b >= 128)
        OBVIOUS
      <4> QED BY <2>0, <2>1, <4>1
    <3>2. RuneAt(name, i) = <<name[i]>>
      BY <2>1, <3>1, Zenon DEF RuneAt
    <3>3. WidthAt(name, i) = 1
      BY <3>2 DEF WidthAt
    <3> QED BY <1>1, <3>1, <3>2, <3>3 DEF RuneSet
  <2>2. CASE name[i] >= 128 /\ EncodingsAt(name, i) # {}
    <3>1. RuneAt(name, i) = CHOOSE m \in EncodingsAt(name, i) : TRUE
      <4>1. ~(name[i] < 128)
        BY <2>0, <2>2
      <4> QED BY <2>2, <4>1, Zenon DEF RuneAt
    <3>2. RuneAt(name, i) \in EncodingsAt(name, i)
      BY <2>2, <3>1
    <3>3. RuneAt(name, i) \in MultiByte /\ Len(RuneAt(name, i)) <= Len(SubSeq(name, i, n))
      BY <3>2 DEF EncodingsAt, IsPrefix
    <3>4. Len(RuneAt(name, i)) \in 2..4
      BY <3>3, MultiByteAssumption
    <3>5. Len(SubSeq(name, i, n)) = n - i + 1
      BY <1>1
    <3>6. WidthAt(name, i) = Len(RuneAt(name, i))
      BY <2>2 DEF WidthAt
    <3> HIDE DEF n
    <3> QED BY <1>1, <3>3, <3>4, <3>5, <3>6 DEF RuneSet
  <2>3. CASE name[i] >= 128 /\ EncodingsAt(name, i) = {}
    <3>1. RuneAt(name, i) = Replacement
      <4>1. ~(name[i] < 128)
        BY <2>0, <2>3
      <4> QED BY <2>3, <4>1, Zenon DEF RuneAt
    <3>2. WidthAt(name, i) = 1
      BY <2>3 DEF WidthAt
    <3> QED BY <1>1, <3>1, <3>2 DEF RuneSet
  <2>4. name[i] < 128 \/ name[i] >= 128
    BY <2>0
  <2> QED BY <2>1, <2>2, <2>3, <2>4
<1>3. /\ head \in [1..n -> RuneSet] /\ width \in [1..n -> Nat]
      /\ \A i \in 1..n : width[i] >= 1 /\ i + width[i] <= n + 1
  BY <1>2
<1>4. PICK F \in [1..(n + 1) -> Seq(RuneSet)] : Backwards(F, n, head, width)
  <2> HIDE DEF head, width, n
  <2> QED BY <1>1, <1>3, BackwardsExists
<1> DEFINE Step(f) == [i \in 1..(n + 1) |->
                         IF i > n THEN <<>> ELSE <<RuneAt(name, i)>> \o f[i + WidthAt(name, i)]]
           G == CHOOSE f : f = Step(f)
<1>5. ASSUME NEW f
      PROVE  Backwards(f, n, head, width) <=> f = Step(f)
  <2>1. \A i \in 1..(n + 1) : ~(i > n) => i \in 1..n
    BY <1>1
  <2>2. \A i \in 1..n : head[i] = RuneAt(name, i) /\ width[i] = WidthAt(name, i)
    OBVIOUS
  <2> HIDE DEF head, width, n
  <2>3. [i \in 1..(n + 1) |-> IF i > n THEN <<>> ELSE <<head[i]>> \o f[i + width[i]]] = Step(f)
    BY <2>1, <2>2
  <2> QED BY <2>3 DEF Backwards
<1>6. G = Step(G)
  <2> HIDE DEF Step, head, width, n
  <2> QED BY <1>4, <1>5
<1>7. Backwards(G, n, head, width)
  <2> HIDE DEF G, Step, head, width
  <2> QED BY <1>5, <1>6
<1>8. Runes(name) = G[1]
  BY Zenon DEF Runes
<1>9. G[1] \in Seq(RuneSet)
  <2> HIDE DEF G, Step, head, width, n
  <2> QED BY <1>1, <1>3, <1>7, BackwardsType
<1> QED BY <1>8, <1>9

\* Unescape reads what falls into tokens.
LEMMA UnescapeReads ==
  ASSUME NEW s \in Seq(Int), NEW a \in Seq(Int), Reads(s, a)
  PROVE  Unescape(s) = a
<1> DEFINE n == Len(s)
           m == Len(a)
           head == [i \in 1..n |-> ByteAt(s, i)]
           width == [i \in 1..n |-> StepAt(s, i)]
<1>1. n \in Nat /\ m \in Nat /\ (\A i \in 1..n : s[i] \in Int) /\ (\A j \in 1..m : a[j] \in Int)
  OBVIOUS
<1>2. ASSUME NEW i \in 1..n
      PROVE  /\ ByteAt(s, i) \in Int
             /\ StepAt(s, i) \in Nat /\ StepAt(s, i) >= 1 /\ i + StepAt(s, i) <= n + 1
  <2>1. \A c \in Int : DigitOf(c) \in Int
    BY DEF DigitOf
  <2>2. CASE EscapedAt(s, i)
    <3>1. i + 2 <= n /\ i + 1 \in 1..n /\ i + 2 \in 1..n
      BY <1>1, <2>2 DEF EscapedAt
    <3>2. DigitOf(s[i + 1]) \in Int /\ DigitOf(s[i + 2]) \in Int
      BY <1>1, <2>1, <3>1
    <3>3. ByteAt(s, i) = 16 * DigitOf(s[i + 1]) + DigitOf(s[i + 2]) /\ StepAt(s, i) = 3
      BY <2>2 DEF ByteAt, StepAt
    <3> QED BY <1>1, <3>1, <3>2, <3>3
  <2>3. CASE ~EscapedAt(s, i)
    BY <1>1, <2>3 DEF ByteAt, StepAt
  <2> QED BY <2>2, <2>3
<1>3. /\ head \in [1..n -> Int] /\ width \in [1..n -> Nat]
      /\ \A i \in 1..n : width[i] >= 1 /\ i + width[i] <= n + 1
  BY <1>2
<1>4. PICK F \in [1..(n + 1) -> Seq(Int)] : Backwards(F, n, head, width)
  <2> HIDE DEF head, width, n, m
  <2> QED BY <1>1, <1>3, BackwardsExists
<1> DEFINE Step(f) == [i \in 1..(n + 1) |->
                         IF i > n THEN <<>> ELSE <<ByteAt(s, i)>> \o f[i + StepAt(s, i)]]
           G == CHOOSE f : f = Step(f)
<1>5. ASSUME NEW f
      PROVE  Backwards(f, n, head, width) <=> f = Step(f)
  <2>1. \A i \in 1..(n + 1) : ~(i > n) => i \in 1..n
    BY <1>1
  <2>2. \A i \in 1..n : head[i] = ByteAt(s, i) /\ width[i] = StepAt(s, i)
    OBVIOUS
  <2> HIDE DEF head, width, n
  <2>3. [i \in 1..(n + 1) |-> IF i > n THEN <<>> ELSE <<head[i]>> \o f[i + width[i]]] = Step(f)
    BY <2>1, <2>2
  <2> QED BY <2>3 DEF Backwards
<1>6. G = Step(G)
  <2> HIDE DEF Step, head, width, n
  <2> QED BY <1>4, <1>5
<1>7. Unescape(s) = G[1]
  BY Zenon DEF Unescape
<1>8. G[n + 1] = <<>> /\ \A i \in 1..n : G[i] = <<ByteAt(s, i)>> \o G[i + StepAt(s, i)]
  <2> HIDE DEF G
  <2>1. n + 1 \in 1..(n + 1) /\ n + 1 > n /\ \A i \in 1..n : i \in 1..(n + 1) /\ ~(i > n)
    BY <1>1
  <2> HIDE DEF n
  <2> QED BY <1>6, <2>1
<1> HIDE DEF G, Step, head, width, n
<1>9. PICK at \in [1..(m + 1) -> Nat] :
        /\ at[1] = 1 /\ at[m + 1] = n + 1
        /\ \A j \in 1..m : Token(s, at[j], a[j], at[j + 1])
  BY DEF Reads, n
<1>10. ASSUME NEW j \in 1..m
       PROVE  G[at[j]] = <<a[j]>> \o G[at[j + 1]]
  <2> DEFINE i == at[j]
  <2>1. Token(s, i, a[j], at[j + 1])
    BY <1>9
  <2>2. i \in 1..n
    BY <2>1 DEF Token, n
  <2> HIDE DEF i
  <2>3. CASE s[i] = Percent
    <3>1. EscapedAt(s, i)
      BY <2>1, <2>3 DEF Token, EscapedAt
    <3>2. ByteAt(s, i) = a[j] /\ i + StepAt(s, i) = at[j + 1]
      BY <2>1, <2>3, <3>1 DEF Token, ByteAt, StepAt
    <3> QED BY <1>8, <2>2, <3>2 DEF i
  <2>4. CASE s[i] # Percent
    <3>1. ~EscapedAt(s, i)
      BY <2>4 DEF EscapedAt
    <3>2. ByteAt(s, i) = a[j] /\ i + StepAt(s, i) = at[j + 1]
      BY <2>1, <2>4, <3>1 DEF Token, ByteAt, StepAt
    <3> QED BY <1>8, <2>2, <3>2 DEF i
  <2> QED BY <2>3, <2>4
<1> DEFINE K == {k \in Nat : k <= m => G[at[m + 1 - k]] = SubSeq(a, m + 1 - k, m)}
<1>11. 0 \in K
  <2>1. SubSeq(a, m + 1, m) = <<>> /\ m + 1 - 0 = m + 1
    BY <1>1
  <2> QED BY <1>8, <1>9, <2>1
<1>12. ASSUME NEW k \in K PROVE k + 1 \in K
  <2> DEFINE j == m - k
  <2> SUFFICES ASSUME k + 1 <= m PROVE G[at[j]] = SubSeq(a, j, m)
    <3>1. k \in Nat /\ k + 1 \in Nat /\ m + 1 - (k + 1) = j
      BY <1>1
    <3> HIDE DEF j
    <3> QED BY <3>1
  <2>1. k \in Nat /\ j \in 1..m /\ m + 1 - k = j + 1
    BY <1>1
  <2>2. G[at[j + 1]] = SubSeq(a, j + 1, m)
    BY <1>1, <2>1
  <2> HIDE DEF j
  <2>3. <<a[j]>> \o SubSeq(a, j + 1, m) = SubSeq(a, j, m)
    <3>1. m \in j..Len(a) /\ j \in 1..Len(a)
      BY <1>1, <2>1
    <3> QED BY <3>1, SubSeqRecursiveFirst
  <2> QED BY <1>10, <2>1, <2>2, <2>3
<1>13. m \in K
  <2> HIDE DEF K
  <2>1. K \in SUBSET Nat
    BY DEF K
  <2>2. K = Nat
    BY <1>11, <1>12, <2>1, SetInduction
  <2> QED BY <1>1, <2>2
<1>14. G[at[1]] = SubSeq(a, 1, m)
  BY <1>1, <1>13
<1>15. SubSeq(a, 1, m) = a
  BY <1>1
<1> QED BY <1>7, <1>9, <1>14, <1>15

\* A name is read back as the runes it has (urlPathEscape, client.go:677-704).
LEMMA EscapeReads ==
  ASSUME NEW name \in Seq(Octets)
  PROVE  /\ Escape(name) \in Seq(Unreserved \union {Percent})
         /\ Unescape(Escape(name)) = FlattenSeq(Runes(name))
<1> DEFINE runes == Runes(name)
           parts == [i \in DOMAIN runes |-> EscapeRune(runes[i])]
<1>1. runes \in Seq(RuneSet)
  BY RunesType
<1>2. Escape(name) = FlattenSeq(parts)
  BY DEF Escape
<1> HIDE DEF runes
<1>3. \A i \in 1..Len(runes) : /\ runes[i] \in Seq(Octets)
                             /\ EscapeRune(runes[i]) \in Seq(Unreserved \union {Percent})
                             /\ Reads(EscapeRune(runes[i]), runes[i])
  BY <1>1, RuneRead
<1>4. /\ parts \in Seq(Seq(Unreserved \union {Percent})) /\ Len(parts) = Len(runes)
      /\ \A i \in 1..Len(runes) : parts[i] = EscapeRune(runes[i])
  <2>1. DOMAIN runes = 1..Len(runes) /\ Len(runes) \in Nat
    BY <1>1
  <2> QED BY <1>3, <2>1
<1> HIDE DEF parts
<1>5. Escape(name) \in Seq(Unreserved \union {Percent})
  BY <1>2, <1>4, FlattenType
<1>6. Unreserved \union {Percent} \in SUBSET Int /\ Octets \in SUBSET Int
  BY DEF Unreserved, Percent, Octets
<1>7. parts \in Seq(Seq(Int)) /\ runes \in Seq(Seq(Int))
  <2>1. /\ Seq(Unreserved \union {Percent}) \in SUBSET Seq(Int)
        /\ Seq(Octets) \in SUBSET Seq(Int)
    BY <1>6, SeqMonotonic
  <2>2. runes \in Seq(Seq(Octets))
    BY <1>1, <1>3
  <2> QED BY <1>4, <2>1, <2>2, SeqMonotonic
<1>8. Reads(FlattenSeq(parts), FlattenSeq(runes))
  <2>1. \A i \in 1..Len(parts) : Reads(parts[i], runes[i])
    BY <1>3, <1>4
  <2> QED BY <1>4, <1>7, <2>1, ReadsFlatten
<1>9. FlattenSeq(parts) \in Seq(Int) /\ FlattenSeq(runes) \in Seq(Int)
  BY <1>7, FlattenType
<1>10. Unescape(FlattenSeq(parts)) = FlattenSeq(runes)
  BY <1>8, <1>9, UnescapeReads
<1> QED BY <1>2, <1>5, <1>10 DEF runes

-----------------------------------------------------------------------------
LEMMA ExchangesAreExchanges ==
  ASSUME NEW e \in Deliveries \union WholeAnswers \union Successes
  PROVE  IsExchange(e)
<1>1. CASE e \in Deliveries
  <2>1. e.size \in 0..MaxSize /\ e.got \in 0..MaxSize /\ e.got <= e.size
    BY <1>1 DEF Deliveries
  <2>2. e.body \in {Plain("plain"), Plain("not found:")}
    BY <1>1 DEF Deliveries
  <2>3. e.body.nested = Undecodable
    <3>1. \A text : Plain(text).nested = Undecodable
      BY DEF Plain
    <3>2. QED
      BY <2>2, <3>1
  <2>4. QED
    BY <2>1, <2>3, MaxSizeAssumption DEF IsExchange
<1>2. CASE e \in WholeAnswers
  <2>1. IsBody(e.body)
    BY <1>2 DEF WholeAnswers, Bodies
  <2>2. e.size = MaxResponseBytes /\ e.got = MaxResponseBytes
    BY <1>2 DEF WholeAnswers
  <2>3. ~e.body.object => e.body.nested = Undecodable
    BY <2>1 DEF IsBody
  <2>4. e.size \in Nat /\ e.got \in Nat /\ e.got <= e.size
    BY <2>2, MaxResponseBytesAssumption
  <2>5. QED
    BY <2>3, <2>4 DEF IsExchange
<1>3. CASE e \in Successes
  BY <1>3, MaxResponseBytesAssumption DEF Successes, Plain, IsExchange
<1>4. QED
  BY <1>1, <1>2, <1>3

LEMMA NamesAreBytes ==
  ASSUME NEW name \in Names
  PROVE  name \in Seq(Octets)
<1>1. PICK n \in 0..MaxPieces : \E p \in [1..n -> Pieces] : name = FlattenSeq(p)
  BY DEF Names
<1>2. PICK p \in [1..n -> Pieces] : name = FlattenSeq(p)
  BY <1>1
<1>3. Pieces \in SUBSET Seq(Octets)
  BY DEF Pieces, SomeRunes, Octets
<1>4. p \in Seq(Seq(Octets))
  <2>1. n \in Nat
    BY MaxSizeAssumption
  <2>2. p \in [1..n -> Seq(Octets)]
    BY <1>3
  <2> QED BY <2>1, <2>2
<1> QED BY <1>2, <1>4, FlattenType

LEMMA AsksAreAsks ==
  ASSUME NEW a \in Asks \union {NoAsk}
  PROVE  IsCells(a.cells) /\ a.column \in Columns /\ a.name \in Seq(Octets)
<1>1. /\ a.cells \in CellsMaps \union {NoCells}
      /\ a.column \in Columns \union {NoColumn}
      /\ a.name \in Names \union {<<>>}
  BY DEF Asks, NoAsk
<1>2. ASSUME NEW c \in CellsMaps
      PROVE  IsCells(c)
  <2>1. PICK ids \in SUBSET Ids : c \in [ids -> Values]
    BY DEF CellsMaps
  <2>2. ids \in SUBSET Int /\ IsFiniteSet(ids)
    BY IdsAssumption, FS_Subset
  <2> QED BY <2>1, <2>2 DEF IsCells
<1>3. IsCells(NoCells)
  <2>1. DOMAIN <<>> = {} /\ IsFiniteSet({})
    BY FS_EmptySet
  <2>2. <<>> = [id \in {} |-> <<>>[id]]
    OBVIOUS
  <2> QED BY <2>1, <2>2 DEF IsCells, NoCells
<1>4. NoColumn \in Columns
  BY DEF NoColumn, Columns
<1>5. <<>> \in Seq(Octets)
  OBVIOUS
<1> QED BY <1>1, <1>2, <1>3, <1>4, <1>5, NamesAreBytes

\* What a caller is told is what the operators say of its exchange.
THEOREM Inductive == Spec => []IInv
<1>1. Init => IInv
  <2>1. SUFFICES ASSUME Init PROVE IInv
    OBVIOUS
  <2>2. x \in Deliveries \union WholeAnswers \union Successes
    BY <2>1 DEF Init
  <2>3. ~told.done
    BY <2>1 DEF Init
  <2>4. ask \in Asks \union {NoAsk}
    BY <2>1 DEF Init
  <2>5. QED
    BY <2>2, <2>3, <2>4, ExchangesAreExchanges, AsksAreAsks DEF IInv, Told
<1>2. IInv /\ [RoundTrip]_vars => IInv'
  <2>1. SUFFICES ASSUME IInv, [RoundTrip]_vars PROVE IInv'
    OBVIOUS
  <2>2. CASE RoundTrip
    <3>1. x' = x /\ ask' = ask
      BY <2>2 DEF RoundTrip
    <3>2. /\ told'.outcome = Do(x) /\ told'.answers = AnswersOf(x)
          /\ told'.rows = SQL(x) /\ told'.health = Health(x)
      BY <2>2 DEF RoundTrip
    <3>3. told'.err = ErrOf(x)
      BY <2>2 DEF RoundTrip, ErrOf
    <3>4. told'.column = MarshalJSON(ask.column) /\ told'.segment = Escape(ask.name)
      BY <2>2 DEF RoundTrip
    <3>5. told'.flat = WireArray(ask.cells)
      <4>1. PICK order \in RangeOrders(ask.cells) : told'.flat = FlattenCells(ask.cells, order)
        BY <2>2 DEF RoundTrip
      <4> QED BY <2>1, <4>1, FlattenIsWireArray DEF IInv, IsCells
    <3>6. QED
      BY <2>1, <3>1, <3>2, <3>3, <3>4, <3>5 DEF IInv, Told
  <2>3. CASE UNCHANGED vars
    BY <2>1, <2>3 DEF vars, IInv, Told
  <2>4. QED
    BY <2>1, <2>2, <2>3
<1>3. QED
  BY <1>1, <1>2, PTL DEF Spec

-----------------------------------------------------------------------------
\* A caller never works on a part of an answer, whatever the cap, the size and
\* the byte at which the connection breaks (do, client.go:571-584).
THEOREM SuccessWhole == Spec => []SuccessIsWhole
<1>1. IInv => SuccessIsWhole
  BY DoIsWhole DEF IInv, Told, SuccessIsWhole
<1>2. QED
  BY <1>1, Inductive, PTL

\* Every whole 2xx answer within the cap is returned, one of exactly the cap
\* included (do, client.go:577-584).
THEOREM WholeSucceeds == Spec => []WholeIsSuccess
<1>1. IInv => WholeIsSuccess
  BY WholeIsReturned DEF IInv, Told, WholeIsSuccess
<1>2. QED
  BY <1>1, Inductive, PTL

\* A definite refusal arrived whole (do, client.go:565-583).
THEOREM RefusalAnswered == Spec => []RefusalIsAnswered
<1>1. IInv => RefusalIsAnswered
  BY RefusalIsWhole DEF IInv, Told, RefusalIsAnswered
<1>2. QED
  BY <1>1, Inductive, PTL

\* errors.Is and errors.As agree, for every status and every body
\* (newResponseError, errors.go:84-111).
THEOREM SentinelFits == Spec => []SentinelFitsStatus
<1>1. IInv => SentinelFitsStatus
  BY SentinelIsOfStatus DEF IInv, Told, ErrOf, SentinelFitsStatus, IsError
<1>2. QED
  BY <1>1, Inductive, PTL

\* Every error has a message, whatever the body (newResponseError,
\* errors.go:95-107).
THEOREM MessageGiven == Spec => []MessageNeverEmpty
<1>1. IInv => MessageNeverEmpty
  <2>1. SUFFICES ASSUME IInv, IsError PROVE told.err.message # ""
    BY DEF MessageNeverEmpty
  <2>2. told.err.message = MessageOrDefault(Said(x.body))
    BY <2>1 DEF IInv, Told, ErrOf, IsError, NewResponseError
  <2>3. QED
    BY <2>2 DEF MessageOrDefault
<1>2. QED
  BY <1>1, Inductive, PTL

\* The blamed operation survives the fallbacks between the envelopes
\* (decodeErrorEnvelope, errors.go:132-152).
THEOREM BlameSurvives == Spec => []BlamedOperationSurvives
<1>1. IInv => BlamedOperationSurvives
  <2>1. SUFFICES ASSUME IInv, IsError, x.body.lead # "bom", x.body.nested # Undecodable,
                        x.body.nested.opIndex # Nil
                 PROVE  told.err.opIndex = x.body.nested.opIndex /\ told.err.code = x.body.nested.code
    BY DEF BlamedOperationSurvives
  <2>2. told.err = NewResponseError(x.status, x.body)
    BY <2>1 DEF IInv, Told, ErrOf, IsError
  <2>3. StartsObject(x.body) /\ NestedFound(x.body)
    BY <2>1 DEF IInv, IsExchange, StartsObject, NestedFound, Unmarshal
  <2>4. Said(x.body) = x.body.nested
    BY <2>1, <2>3 DEF Said, DecodeErrorEnvelope, Envelope, Preferred, Unmarshal
  <2>5. QED
    BY <2>2, <2>4 DEF NewResponseError
<1>2. QED
  BY <1>1, Inductive, PTL

\* No call but SQL invents an answer (client.go:212-335, 451-516;
\* durable.go:94-128; search.go:188-213; retrieve_text.go:49-64).
THEOREM AnswerGiven == Spec => []AnswerIsTheDaemons
<1> DEFINE Given(says) ==
      /\ IsSuccess(x.status) /\ x.replied /\ x.got = x.size
      /\ x.form \in IF says = "value" THEN {"value", "trailing"} ELSE {"lacks", "null", "empty"}
<1>1. ASSUME IInv, NEW accepted \in SUBSET (FirstValue \union {"empty"}), Read(x, accepted).ok
      PROVE  Given(Read(x, accepted).says)
  <2>1. Do(x).ok /\ x.form \in accepted /\ Read(x, accepted) = Decoded(x.form)
    BY <1>1, ReadIsAccepted
  <2>2. IsSuccess(x.status) /\ x.replied /\ x.got = x.size
    BY <1>1, <2>1, DoIsWhole DEF IInv
  <2>3. x.form \in {"value", "trailing", "lacks", "null", "empty"}
    BY <2>1 DEF FirstValue, OneValue
  <2>4. QED
    BY <2>1, <2>2, <2>3 DEF Decoded, Value, Nothing
<1>2. ASSUME IInv, NEW call \in DOMAIN AnswersOf(x), AnswersOf(x)[call].ok
      PROVE  Given(AnswersOf(x)[call].says)
  <2>1. \E accepted \in SUBSET (FirstValue \union {"empty"}) : AnswersOf(x)[call] = Read(x, accepted)
    BY <1>2 DEF AnswersOf, TableNames, DecodeHistoryRetention, CreateTable, CreateTableWithOptions,
                Count, Schema, SchemaFor, PostDecode, QueryStatus, CancelQuery, Hits, RetrieveText,
                FirstValue, OneValue
  <2>2. QED
    BY <1>1, <1>2, <2>1
<1>3. IInv => AnswerIsTheDaemons
  BY <1>2 DEF IInv, Told, AnswerIsTheDaemons
<1>4. QED
  BY <1>3, Inductive, PTL

\* SQL succeeds exactly if its answer arrived (SQL, client.go:426-446).
THEOREM SQLSignals == Spec => []SQLSuccessIsTheSignal
<1>1. IInv => SQLSuccessIsTheSignal
  BY DEF IInv, Told, SQLSuccessIsTheSignal, SQL, Decoded, Value, Nothing
<1>2. QED
  BY <1>1, Inductive, PTL

\* Health says what the answer says (Health, client.go:197-209).
THEOREM HealthAnswers == Spec => []HealthIsTheAnswer
<1>1. IInv => HealthIsTheAnswer
  BY DEF IInv, Told, HealthIsTheAnswer, Health
<1>2. QED
  BY <1>1, Inductive, PTL

-----------------------------------------------------------------------------
\* One map, one array, in whatever order Go ranges over the map (flattenCells,
\* client.go:621-640).
THEOREM OneArray == Spec => []OrderIndependent
<1>1. IInv => OrderIndependent
  <2>1. SUFFICES ASSUME IInv PROVE OrderIndependent
    OBVIOUS
  <2>2. /\ RangeOrders(ask.cells) # {}
        /\ \A order \in RangeOrders(ask.cells) : FlattenCells(ask.cells, order) = WireArray(ask.cells)
    BY <2>1, OrdersList, FlattenIsWireArray DEF IInv, IsCells, RangeOrders
  <2>3. {FlattenCells(ask.cells, order) : order \in RangeOrders(ask.cells)} = {WireArray(ask.cells)}
    BY <2>2
  <2> QED BY <2>3, FS_Singleton DEF OrderIndependent
<1>2. QED
  BY <1>1, Inductive, PTL

\* Read back as the daemon reads it, the array is the map (flattenCells,
\* client.go:635-638).
THEOREM EveryCellKept == Spec => []KeepsEveryCell
<1>1. IInv => KeepsEveryCell
  BY WireArrayReadsBack DEF IInv, Told, KeepsEveryCell
<1>2. QED
  BY <1>1, Inductive, PTL

\* A column has at most one default on the wire, and one the caller set
\* (MarshalJSON, client.go:107-123).
THEOREM DefaultIsOne == Spec => []OneDefault
<1>1. ASSUME NEW c \in Columns
      PROVE  LET set == {f \in {"DefaultValue", "DefaultValueJSON", "DefaultExpr"} : c[f] # Unset}
                 sent == {"default_value", "default_expr"} \intersect DOMAIN MarshalJSON(c)
             IN  /\ Cardinality(sent) = IF set = {} THEN 0 ELSE 1
                 /\ \A s \in sent : MarshalJSON(c)[s] \in {c[f] : f \in set}
  <2> DEFINE set == {f \in {"DefaultValue", "DefaultValueJSON", "DefaultExpr"} : c[f] # Unset}
             wire == MarshalJSON(c)
             sent == {"default_value", "default_expr"} \intersect DOMAIN wire
  <2>1. /\ "default_value" \in DOMAIN wire <=> StaticDefault(c) # Unset
        /\ "default_expr" \in DOMAIN wire <=> c.DefaultExpr # Unset
        /\ "default_value" \in DOMAIN wire => wire["default_value"] = StaticDefault(c)
        /\ "default_expr" \in DOMAIN wire => wire["default_expr"] = c.DefaultExpr
    BY DEF MarshalJSON
  <2> HIDE DEF wire
  <2>2. CASE c.DefaultExpr # Unset
    <3>1. sent = {"default_expr"} /\ "DefaultExpr" \in set
      BY <2>1, <2>2 DEF StaticDefault
    <3> QED BY <2>1, <3>1, FS_Singleton DEF wire
  <2>3. CASE c.DefaultExpr = Unset /\ c.DefaultValueJSON # Unset
    <3>1. sent = {"default_value"} /\ "DefaultValueJSON" \in set /\ StaticDefault(c) = c.DefaultValueJSON
      BY <2>1, <2>3 DEF StaticDefault
    <3> QED BY <2>1, <3>1, FS_Singleton DEF wire
  <2>4. CASE c.DefaultExpr = Unset /\ c.DefaultValueJSON = Unset /\ c.DefaultValue # Unset
    <3>1. sent = {"default_value"} /\ "DefaultValue" \in set /\ StaticDefault(c) = c.DefaultValue
      BY <2>1, <2>4 DEF StaticDefault
    <3> QED BY <2>1, <3>1, FS_Singleton DEF wire
  <2>5. CASE c.DefaultExpr = Unset /\ c.DefaultValueJSON = Unset /\ c.DefaultValue = Unset
    <3>1. sent = {} /\ set = {}
      BY <2>1, <2>5 DEF StaticDefault
    <3> QED BY <3>1, FS_EmptySet DEF wire
  <2> QED BY <2>2, <2>3, <2>4, <2>5
<1>2. IInv => OneDefault
  BY <1>1 DEF IInv, Told, OneDefault
<1>3. QED
  BY <1>2, Inductive, PTL

\* A segment has only characters that need no escape, and the daemon reads the
\* name from it, for every name that is text, whatever the table of encodings
\* (urlPathEscape, client.go:677-704).
THEOREM TableIsNamed == Spec => []PathNamesTheTable
<1>1. IInv => PathNamesTheTable
  <2>1. SUFFICES ASSUME IInv, told.done PROVE PathNamesTheTable
    BY DEF PathNamesTheTable
  <2>2. told.segment = Escape(ask.name) /\ ask.name \in Seq(Octets)
    BY <2>1 DEF IInv, Told
  <2>3. /\ told.segment \in Seq(Unreserved \union {Percent})
        /\ Unescape(told.segment) = FlattenSeq(Runes(ask.name))
    BY <2>2, EscapeReads
  <2>4. \A i \in DOMAIN told.segment : told.segment[i] \in Unreserved \union {Percent}
    BY <2>3
  <2> QED BY <2>3, <2>4 DEF PathNamesTheTable, IsUTF8
<1>2. QED
  BY <1>1, Inductive, PTL
=============================================================================
