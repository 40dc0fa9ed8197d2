------------------------- MODULE ClientConfigProofs -------------------------
(***************************************************************************)
(* Proofs about ClientConfig: what the order of the options decides, and   *)
(* that Clients that share no http.Client do not touch each other, for any *)
(* number of Clients, options and http.Clients.                            *)
(***************************************************************************)
EXTENDS ClientConfig, TLAPS

Credentials == [token : Tokens \union {None}, username : Users \union {None},
                password : Passwords \union {None}, http : Clients \union Apps]

TypeOK ==
  /\ heap \in [Clients \union Apps -> Nat]
  /\ client \in [Clients -> Credentials]
  /\ given \in [Clients -> Seq(Options)]

\* A Client uses its own http.Client or one it was given.
HTTPIsKnown ==
  \A c \in Clients : client[c].http = c \/ \E h \in Apps : client[c].http = h /\ GivenHTTP(c, h)

\* The credentials of a Client are those of the last option of their kind.
TokenIsLast ==
  \A c \in Clients : \A i \in DOMAIN given[c] :
    LastGiven(c, i, "WithToken") => client[c].token = given[c][i].token
UserIsLast ==
  \A c \in Clients : client[c].username # None => \E i \in DOMAIN given[c] :
    /\ LastGiven(c, i, "WithBasicAuth")
    /\ client[c].username = given[c][i].username /\ client[c].password = given[c][i].password

\* AppTimeoutIsAskedFor, of one http.Client: c was given h as its i-th option
\* and then asked for the timeout h has as its j-th.
Asks(c, i, j, h) ==
  /\ given[c][i].opt = "WithHTTPClient" /\ given[c][i].h = h
  /\ i < j /\ given[c][j].opt = "WithTimeout" /\ given[c][j].d = heap[h]
AskedFor(h) ==
  heap[h] = AppTimeout[h] \/ \E c \in Clients : \E i, j \in DOMAIN given[c] : Asks(c, i, j, h)

Inv == TypeOK /\ HTTPIsKnown /\ TokenIsLast /\ UserIsLast /\ OwnTimeout /\ AppTimeoutIsAskedFor

-----------------------------------------------------------------------------
LEMMA InitInv == Init => Inv
<1> SUFFICES ASSUME Init PROVE Inv
  OBVIOUS
<1>1. \A c \in Clients : /\ given[c] = <<>> /\ heap[c] = DefaultTimeout
                         /\ client[c].username = None /\ client[c].http = c
  BY ConfigAssumption DEF Init, Blank, DefaultHTTP
<1>2. DOMAIN <<>> = {}
  OBVIOUS
<1>3. TypeOK
  BY ConfigAssumption DEF Init, TypeOK, Blank, DefaultHTTP, Credentials, DefaultTimeout
<1>4. HTTPIsKnown
  BY <1>1 DEF HTTPIsKnown
<1>5. TokenIsLast /\ UserIsLast
  BY <1>1, <1>2 DEF TokenIsLast, UserIsLast
<1>6. OwnTimeout
  BY <1>1, <1>2 DEF OwnTimeout, Timeout
<1>7. AppTimeoutIsAskedFor
  BY ConfigAssumption DEF Init, AppTimeoutIsAskedFor
<1> QED BY <1>3, <1>4, <1>5, <1>6, <1>7 DEF Inv

\* One more option, the n-th: it is the last of its kind, and the others keep
\* their place.
OneMore(c, o, n) ==
  /\ \A d \in Clients \ {c} : given'[d] = given[d]
  /\ DOMAIN given'[c] = DOMAIN given[c] \union {n} /\ n \notin DOMAIN given[c]
  /\ given'[c][n] = o
  /\ \A i \in DOMAIN given[c] : i < n /\ given'[c][i] = given[c][i]
  /\ LastGiven(c, n, o.opt)'
  /\ \A i \in DOMAIN given[c] : \A opt : LastGiven(c, i, opt)' => o.opt # opt /\ LastGiven(c, i, opt)
  /\ \A i \in DOMAIN given[c] : \A opt : o.opt # opt /\ LastGiven(c, i, opt) => LastGiven(c, i, opt)'
  /\ \A h : GivenHTTP(c, h) => GivenHTTP(c, h)'
  /\ given' \in [Clients -> Seq(Options)]

LEMMA Appended ==
  ASSUME TypeOK, NEW c \in Clients, NEW o \in Options, Option(c, o)
  PROVE  OneMore(c, o, Len(given[c]) + 1)
<1> SUFFICES ASSUME NEW n, n = Len(given[c]) + 1 PROVE OneMore(c, o, n)
  OBVIOUS
<1>1. given[c] \in Seq(Options) /\ Len(given[c]) \in Nat /\ DOMAIN given[c] = 1..Len(given[c])
  BY DEF TypeOK
<1>2. given' = [given EXCEPT ![c] = Append(given[c], o)]
  BY DEF Option
<1>3. given'[c] = Append(given[c], o) /\ \A d \in Clients \ {c} : given'[d] = given[d]
  BY <1>2 DEF TypeOK
<1>4. /\ DOMAIN given'[c] = 1..n /\ given'[c][n] = o
      /\ \A i \in 1..Len(given[c]) : given'[c][i] = given[c][i]
  BY <1>1, <1>3
<1>5. DOMAIN given'[c] = DOMAIN given[c] \union {n} /\ n \notin DOMAIN given[c]
  BY <1>1, <1>4
<1>6. \A i \in DOMAIN given[c] : i < n
  BY <1>1
<1>7. LastGiven(c, n, o.opt)'
  BY <1>1, <1>4 DEF LastGiven
<1>8. \A i \in DOMAIN given[c] : \A opt : LastGiven(c, i, opt)' => o.opt # opt /\ LastGiven(c, i, opt)
  BY <1>1, <1>4, <1>5, <1>6 DEF LastGiven
<1>9. \A i \in DOMAIN given[c] : \A opt : o.opt # opt /\ LastGiven(c, i, opt) => LastGiven(c, i, opt)'
  BY <1>1, <1>4, <1>5, <1>6 DEF LastGiven
<1>10. \A h : GivenHTTP(c, h) => GivenHTTP(c, h)'
  BY <1>1, <1>4, <1>5 DEF GivenHTTP
<1>11. given' \in [Clients -> Seq(Options)]
  BY <1>1, <1>2 DEF TypeOK
<1> QED BY <1>1, <1>3, <1>4, <1>5, <1>6, <1>7, <1>8, <1>9, <1>10, <1>11 DEF OneMore

\* What an option leaves of a Client: at most one kind of field changes.
LEMMA OptionChanges ==
  ASSUME TypeOK, NEW c \in Clients, NEW o \in Options,
         WithToken(c, o) \/ WithBasicAuth(c, o) \/ WithHTTPClient(c, o) \/ WithTimeout(c, o)
  PROVE  /\ Option(c, o)
         /\ heap' \in [Clients \union Apps -> Nat] /\ client' \in [Clients -> Credentials]
         /\ \A d \in Clients \ {c} : client'[d] = client[d]
         /\ IF o.opt = "WithToken" THEN client'[c].token = o.token
            ELSE client'[c].token = client[c].token
         /\ IF o.opt = "WithBasicAuth"
            THEN client'[c].username = o.username /\ client'[c].password = o.password
            ELSE client'[c].username = client[c].username /\ client'[c].password = client[c].password
         /\ client'[c].http = client[c].http \/
              (o.opt = "WithHTTPClient" /\ o.h \in Apps /\ client'[c].http = o.h)
         /\ IF o.opt = "WithTimeout" THEN heap' = [heap EXCEPT ![client[c].http] = o.d]
            ELSE heap' = heap
<1>1. client[c] \in Credentials
  BY DEF TypeOK
<1>2. CASE WithToken(c, o)
  <2>1. o.token \in Tokens /\ o.opt = "WithToken"
    BY <1>2 DEF WithToken, Options
  <2>2. [client[c] EXCEPT !.token = o.token] \in Credentials
    BY <1>1, <2>1 DEF Credentials
  <2> QED BY <1>1, <1>2, <2>1, <2>2 DEF WithToken, TypeOK, Credentials
<1>3. CASE WithBasicAuth(c, o)
  <2>1. o.username \in Users /\ o.password \in Passwords /\ o.opt = "WithBasicAuth"
    BY <1>3 DEF WithBasicAuth, Options
  <2>2. [client[c] EXCEPT !.username = o.username, !.password = o.password] \in Credentials
    BY <1>1, <2>1 DEF Credentials
  <2>3. client' = [client EXCEPT ![c] = [client[c] EXCEPT !.username = o.username, !.password = o.password]]
    BY <1>1, <1>3 DEF WithBasicAuth, TypeOK, Credentials
  <2> QED BY <1>1, <1>3, <2>1, <2>2, <2>3 DEF WithBasicAuth, TypeOK, Credentials
<1>4. CASE WithHTTPClient(c, o)
  <2>1. o.h \in Apps \union {NoHTTP} /\ o.opt = "WithHTTPClient"
    BY <1>4 DEF WithHTTPClient, Options
  <2>2. CASE o.h = NoHTTP
    BY <1>1, <1>4, <2>1, <2>2 DEF WithHTTPClient, TypeOK
  <2>3. CASE o.h \in Apps
    <3>1. [client[c] EXCEPT !.http = o.h] \in Credentials
      BY <1>1, <2>3 DEF Credentials
    <3>2. o.h # NoHTTP
      BY <2>3, ConfigAssumption
    <3> QED BY <1>1, <1>4, <2>1, <2>3, <3>1, <3>2 DEF WithHTTPClient, Installed, TypeOK, Credentials
  <2> QED BY <2>1, <2>2, <2>3
<1>5. CASE WithTimeout(c, o)
  <2>1. o.d \in Nat /\ o.opt = "WithTimeout"
    BY <1>5, ConfigAssumption DEF WithTimeout, Options
  <2> QED BY <1>1, <1>5, <2>1 DEF WithTimeout, TypeOK
<1> QED BY <1>2, <1>3, <1>4, <1>5

LEMMA OptionInv ==
  ASSUME Inv, NEW c \in Clients, NEW o \in Options,
         WithToken(c, o) \/ WithBasicAuth(c, o) \/ WithHTTPClient(c, o) \/ WithTimeout(c, o)
  PROVE  Inv'
<1>1. TypeOK /\ Option(c, o)
  BY OptionChanges DEF Inv
<1>2. PICK n : OneMore(c, o, n)
  BY <1>1, Appended
<1>2a. /\ \A d \in Clients \ {c} : given'[d] = given[d]
       /\ DOMAIN given'[c] = DOMAIN given[c] \union {n} /\ given'[c][n] = o
       /\ \A i \in DOMAIN given[c] : given'[c][i] = given[c][i]
       /\ given' \in [Clients -> Seq(Options)]
  BY <1>2 DEF OneMore
<1>2b. /\ LastGiven(c, n, o.opt)'
       /\ \A i \in DOMAIN given[c] : \A opt : LastGiven(c, i, opt)' =>
            o.opt # opt /\ LastGiven(c, i, opt)
       /\ \A i \in DOMAIN given[c] : \A opt : o.opt # opt /\ LastGiven(c, i, opt) =>
            LastGiven(c, i, opt)'
  BY <1>2 DEF OneMore
<1>2c. \A h : GivenHTTP(c, h) => GivenHTTP(c, h)'
  BY <1>2 DEF OneMore
<1>2d. /\ heap' \in [Clients \union Apps -> Nat] /\ client' \in [Clients -> Credentials]
       /\ \A d \in Clients \ {c} : client'[d] = client[d]
       /\ client'[c].http = client[c].http \/
            (o.opt = "WithHTTPClient" /\ o.h \in Apps /\ client'[c].http = o.h)
  BY <1>1, OptionChanges
<1>2e. IF o.opt = "WithBasicAuth"
       THEN client'[c].username = o.username /\ client'[c].password = o.password
       ELSE client'[c].username = client[c].username /\ client'[c].password = client[c].password
  BY <1>1, OptionChanges
<1>3. \A d \in Clients \ {c} :
        /\ \A i, opt : LastGiven(d, i, opt)' <=> LastGiven(d, i, opt)
        /\ \A h : GivenHTTP(d, h)' <=> GivenHTTP(d, h)
  BY <1>2a, <1>2b DEF LastGiven, GivenHTTP
<1>4. \A i, opt : LastGiven(c, i, opt)' => i \in DOMAIN given[c] \/ (i = n /\ opt = o.opt)
  BY <1>2a, <1>2b DEF LastGiven
<1>5. TypeOK'
  BY <1>1, <1>2a, <1>2b, OptionChanges DEF TypeOK
<1>6. HTTPIsKnown'
  <2>1. ASSUME NEW d \in Clients, d # c
        PROVE  client'[d].http = d \/ \E h \in Apps : client'[d].http = h /\ GivenHTTP(d, h)'
    BY <1>2d, <1>3, <2>1 DEF Inv, HTTPIsKnown
  <2>2. client'[c].http = c \/ \E h \in Apps : client'[c].http = h /\ GivenHTTP(c, h)'
    <3>1. CASE client'[c].http = client[c].http
      BY <1>2c, <3>1 DEF Inv, HTTPIsKnown
    <3>2. CASE o.opt = "WithHTTPClient" /\ o.h \in Apps /\ client'[c].http = o.h
      BY <1>2a, <3>2 DEF GivenHTTP
    <3> QED BY <1>2d, <3>1, <3>2
  <2> QED BY <2>1, <2>2 DEF HTTPIsKnown
<1>7. TokenIsLast'
  <2>1. ASSUME NEW d \in Clients, NEW i \in DOMAIN given'[d], LastGiven(d, i, "WithToken")'
        PROVE  client'[d].token = given'[d][i].token
    <3>1. CASE d # c
      BY <1>1, <1>2a, <1>2b, <1>3, <2>1, <3>1, OptionChanges DEF Inv, TokenIsLast
    <3>2. CASE d = c /\ i = n
      <4>1. o.opt = "WithToken"
        BY <1>2a, <1>2b, <1>4, <2>1, <3>2
      <4> QED BY <1>1, <1>2a, <1>2b, <3>2, <4>1, OptionChanges
    <3>3. CASE d = c /\ i \in DOMAIN given[c]
      <4>1. o.opt # "WithToken" /\ LastGiven(c, i, "WithToken")
        BY <1>2a, <1>2b, <2>1, <3>3
      <4> QED BY <1>1, <1>2a, <1>2b, <3>3, <4>1, OptionChanges DEF Inv, TokenIsLast
    <3> QED BY <1>4, <2>1, <3>1, <3>2, <3>3
  <2> QED BY <2>1 DEF TokenIsLast
<1>8. UserIsLast'
  <2>1. ASSUME NEW d \in Clients, client'[d].username # None
        PROVE  \E i \in DOMAIN given'[d] :
                 /\ LastGiven(d, i, "WithBasicAuth")'
                 /\ client'[d].username = given'[d][i].username
                 /\ client'[d].password = given'[d][i].password
    <3>1. CASE d # c
      <4>1. client'[d] = client[d] /\ given'[d] = given[d]
        BY <1>2a, <1>2d, <3>1
      <4>2. PICK i \in DOMAIN given[d] :
              /\ LastGiven(d, i, "WithBasicAuth")
              /\ client[d].username = given[d][i].username
              /\ client[d].password = given[d][i].password
        BY <2>1, <4>1 DEF Inv, UserIsLast
      <4> QED BY <1>3, <3>1, <4>1, <4>2
    <3>2. CASE d = c /\ o.opt = "WithBasicAuth"
      BY <1>2a, <1>2b, <1>2e, <3>2
    <3>3. CASE d = c /\ o.opt # "WithBasicAuth"
      <4>1. PICK i \in DOMAIN given[c] :
              /\ LastGiven(c, i, "WithBasicAuth")
              /\ client[c].username = given[c][i].username
              /\ client[c].password = given[c][i].password
        BY <1>2e, <2>1, <3>3 DEF Inv, UserIsLast
      <4> QED BY <1>2a, <1>2b, <1>2e, <3>3, <4>1
    <3> QED BY <3>1, <3>2, <3>3
  <2> QED BY <2>1 DEF UserIsLast
<1>9. OwnTimeout'
  <2>1. ASSUME NEW d \in Clients, \A h \in Apps : ~GivenHTTP(d, h)'
        PROVE  /\ \A i \in DOMAIN given'[d] :
                    LastGiven(d, i, "WithTimeout")' => Timeout(d)' = given'[d][i].d
               /\ (\A i \in DOMAIN given'[d] : given'[d][i].opt # "WithTimeout") =>
                    Timeout(d)' = DefaultTimeout
    <3>1. \A h \in Apps : ~GivenHTTP(d, h)
      BY <1>2c, <1>3, <2>1
    <3>2. client[d].http = d /\ client'[d].http = d
      BY <1>6, <2>1, <3>1 DEF Inv, HTTPIsKnown
    <3>3. Timeout(d) = heap[d] /\ Timeout(d)' = heap'[d]
      BY <3>2 DEF Timeout
    <3>4. /\ \A i \in DOMAIN given[d] : LastGiven(d, i, "WithTimeout") => heap[d] = given[d][i].d
          /\ (\A i \in DOMAIN given[d] : given[d][i].opt # "WithTimeout") => heap[d] = DefaultTimeout
      BY <3>1, <3>3 DEF Inv, OwnTimeout
    <3>5. CASE d # c
      <4>1. client[c].http # d
        BY <3>5, ConfigAssumption DEF Inv, HTTPIsKnown
      <4>2. heap'[d] = heap[d]
        BY <1>1, <4>1, OptionChanges DEF TypeOK
      <4> QED BY <1>2a, <1>2b, <1>3, <3>3, <3>4, <3>5, <4>2
    <3>6. CASE d = c /\ o.opt = "WithTimeout"
      <4>1. heap'[c] = o.d
        BY <1>1, <3>2, <3>6, OptionChanges DEF TypeOK
      <4> QED BY <1>2a, <1>2b, <1>4, <3>3, <3>6, <4>1
    <3>7. CASE d = c /\ o.opt # "WithTimeout"
      <4>1. heap'[c] = heap[c]
        BY <1>1, <3>7, OptionChanges
      <4> QED BY <1>2a, <1>2b, <1>4, <3>3, <3>4, <3>7, <4>1
    <3> QED BY <3>5, <3>6, <3>7
  <2> QED BY <2>1 DEF OwnTimeout
<1>10. AppTimeoutIsAskedFor'
  <2>1. ASSUME NEW h \in Apps, heap'[h] = heap[h]
        PROVE  AskedFor(h)'
    <3>1. AskedFor(h)
      BY DEF Inv, AppTimeoutIsAskedFor, AskedFor, Asks
    <3>2. CASE heap[h] = AppTimeout[h]
      BY <2>1, <3>2 DEF AskedFor
    <3>3. CASE \E d \in Clients : \E i, j \in DOMAIN given[d] : Asks(d, i, j, h)
      <4>1. PICK d \in Clients : \E i, j \in DOMAIN given[d] : Asks(d, i, j, h)
        BY <3>3
      <4>2. PICK i \in DOMAIN given[d], j \in DOMAIN given[d] : Asks(d, i, j, h)
        BY <4>1
      <4>3. i \in DOMAIN given'[d] /\ j \in DOMAIN given'[d]
            /\ given'[d][i] = given[d][i] /\ given'[d][j] = given[d][j]
        BY <1>2a, <4>2
      <4> QED BY <2>1, <4>1, <4>2, <4>3 DEF AskedFor, Asks
    <3> QED BY <3>1, <3>2, <3>3 DEF AskedFor
  <2>2. ASSUME NEW h \in Apps, heap'[h] # heap[h]
        PROVE  AskedFor(h)'
    <3>1. o.opt = "WithTimeout" /\ client[c].http = h /\ heap'[h] = o.d
      BY <1>1, <2>2, OptionChanges DEF TypeOK
    <3>2. PICK i \in DOMAIN given[c] : given[c][i].opt = "WithHTTPClient" /\ given[c][i].h = h
      BY <3>1, ConfigAssumption DEF Inv, HTTPIsKnown, GivenHTTP
    <3>3. i \in DOMAIN given'[c] /\ n \in DOMAIN given'[c] /\ Asks(c, i, n, h)'
      BY <1>2, <1>2a, <3>1, <3>2 DEF OneMore, Asks
    <3> QED BY <3>3 DEF AskedFor
  <2> QED BY <2>1, <2>2 DEF AppTimeoutIsAskedFor, AskedFor, Asks
<1> QED BY <1>5, <1>6, <1>7, <1>8, <1>9, <1>10 DEF Inv

LEMMA NextInv == Inv /\ [Next]_vars => Inv'
<1>1. ASSUME Inv, UNCHANGED <<heap, client, given>>
      PROVE  Inv'
  BY <1>1 DEF Inv, TypeOK, HTTPIsKnown, TokenIsLast, UserIsLast, OwnTimeout,
              AppTimeoutIsAskedFor, LastGiven,
              GivenHTTP, Timeout
<1>2. \A c \in Clients : NewClient(c) \/ Ready(c) => UNCHANGED <<heap, client, given>>
  BY DEF NewClient, Ready
<1> QED BY <1>1, <1>2, OptionInv DEF Next, vars

\* A Client's credentials are those of the last option of their kind, and its
\* http.Client is its own or one it was given (client.go:128-191).
THEOREM Inductive == Spec => []Inv
  BY InitInv, NextInv, PTL DEF Spec

\* A Client that was given no http.Client keeps the timeout it asked for,
\* whatever other Clients do (client.go:165-191).
THEOREM TimeoutIsOwn == Spec => []OwnTimeout
<1>1. Inv => OwnTimeout
  BY DEF Inv
<1> QED BY <1>1, Inductive, PTL

\* The timeout of an application's http.Client is the one it came with or one
\* that a Client asked for after it was given it (client.go:154-175).
THEOREM AppTimeoutAsked == Spec => []AppTimeoutIsAskedFor
<1>1. Inv => AppTimeoutIsAskedFor
  BY DEF Inv
<1> QED BY <1>1, Inductive, PTL

\* A token beats basic credentials in any order of the options, and a name is
\* never sent with another one's password (client.go:589-597).
THEOREM TokenAlwaysWins == Spec => []TokenWins
<1>1. ASSUME Inv PROVE TokenWins
  <2>1. ASSUME NEW c \in Clients, NEW i \in DOMAIN given[c],
               LastGiven(c, i, "WithToken"), given[c][i].token # None
        PROVE  ApplyAuth(client[c]) = Bearer(given[c][i].token)
    BY <1>1, <2>1 DEF Inv, TokenIsLast, ApplyAuth
  <2>2. ASSUME NEW c \in Clients, ApplyAuth(client[c]).scheme = "Basic"
        PROVE  \E i \in DOMAIN given[c] :
                 /\ LastGiven(c, i, "WithBasicAuth")
                 /\ ApplyAuth(client[c]) = Basic(given[c][i].username, given[c][i].password)
    <3>1. client[c].token = None /\ client[c].username # None
      BY <2>2 DEF ApplyAuth, Bearer, NoHeader
    <3> QED BY <1>1, <3>1 DEF Inv, UserIsLast, ApplyAuth
  <2> QED BY <2>1, <2>2 DEF TokenWins
<1> QED BY <1>1, Inductive, PTL
=============================================================================
