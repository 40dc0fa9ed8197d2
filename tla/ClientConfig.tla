---------------------------- MODULE ClientConfig ----------------------------
(***************************************************************************)
(* NewClient applies its options one by one, and WithTimeout writes into   *)
(* whatever *http.Client the new Client has at that moment: its own, or    *)
(* one the application passed in and may have passed to other Clients too. *)
(* Clients are made by several goroutines at once.                         *)
(***************************************************************************)
EXTENDS Naturals, Sequences

CONSTANTS
  Clients,      \* Clients ever made
  Apps,         \* the *http.Client values of the application
  NoHTTP,       \* nil where one is expected
  AppTimeout,   \* the timeouts the application gave them
  Timeouts, Tokens, Users, Passwords,   \* arguments of the options
  None,         \* the empty string
  MaxOptions    \* bound: options of one NewClient

ASSUME ConfigAssumption ==
  /\ Clients \intersect Apps = {}
  /\ NoHTTP \notin Apps
  /\ AppTimeout \in [Apps -> Nat]
  /\ Timeouts \subseteq Nat
  /\ MaxOptions \in Nat

VARIABLES
  heap,     \* the timeout of every *http.Client; a Client's own has its name
  client,   \* each Client: its credentials and its *http.Client
  given,    \* history: the options it was made with
  phase     \* "absent", "configuring" or "ready"

vars == <<heap, client, given, phase>>

Options ==
  [opt : {"WithToken"}, token : Tokens] \union
  [opt : {"WithBasicAuth"}, username : Users, password : Passwords] \union
  [opt : {"WithHTTPClient"}, h : Apps \union {NoHTTP}] \union
  [opt : {"WithTimeout"}, d : Timeouts]

-----------------------------------------------------------------------------
\* Seconds a request may take by default.
DefaultTimeout == 30

\* A plausible slip: a new Client starts with an http.Client others have too.
DefaultHTTPShared(c) == CHOOSE h \in Apps : TRUE

\* &http.Client{Timeout: 30 * time.Second}: its own.
DefaultHTTP(c) == c

Blank(c) == [token |-> None, username |-> None, password |-> None, http |-> DefaultHTTP(c)]

Init ==
  /\ heap = [h \in Clients \union Apps |-> IF h \in Apps THEN AppTimeout[h] ELSE DefaultTimeout]
  /\ client = [c \in Clients |-> Blank(c)]
  /\ given = [c \in Clients |-> <<>>]
  /\ phase = [c \in Clients |-> "absent"]

NewClient(c) ==
  /\ phase[c] = "absent"
  /\ phase' = [phase EXCEPT ![c] = "configuring"]
  /\ UNCHANGED <<heap, client, given>>

\* The next option of c is o.
Option(c, o) ==
  /\ phase[c] = "configuring"
  /\ Len(given[c]) < MaxOptions
  /\ given' = [given EXCEPT ![c] = Append(@, o)]
  /\ UNCHANGED phase

WithToken(c, o) ==
  /\ o.opt = "WithToken" /\ Option(c, o)
  /\ client' = [client EXCEPT ![c].token = o.token]
  /\ UNCHANGED heap

WithBasicAuth(c, o) ==
  /\ o.opt = "WithBasicAuth" /\ Option(c, o)
  /\ client' = [client EXCEPT ![c].username = o.username, ![c].password = o.password]
  /\ UNCHANGED heap

\* A plausible slip: the timeout asked for so far is carried over.
InstalledCarriesOver(c, h) == [heap EXCEPT ![h] = heap[client[c].http]]

\* Installing an http.Client changes none.
Installed(c, h) == heap

WithHTTPClient(c, o) ==
  /\ o.opt = "WithHTTPClient" /\ Option(c, o)
  /\ IF o.h = NoHTTP THEN UNCHANGED <<client, heap>>
     ELSE /\ client' = [client EXCEPT ![c].http = o.h]
          /\ heap' = Installed(c, o.h)

\* c.http is never nil here: NewClient has set it, and no option unsets it.
WithTimeout(c, o) ==
  /\ o.opt = "WithTimeout" /\ Option(c, o)
  /\ heap' = [heap EXCEPT ![client[c].http] = o.d]
  /\ UNCHANGED client

\* NewClient returns; from here on the Client may be used concurrently.
Ready(c) ==
  /\ phase[c] = "configuring"
  /\ phase' = [phase EXCEPT ![c] = "ready"]
  /\ UNCHANGED <<heap, client, given>>

Next ==
  \E c \in Clients :
    \/ NewClient(c) \/ Ready(c)
    \/ \E o \in Options :
         WithToken(c, o) \/ WithBasicAuth(c, o) \/ WithHTTPClient(c, o) \/ WithTimeout(c, o)

Spec == Init /\ [][Next]_vars

Bearer(token) == [scheme |-> "Bearer", token |-> token]
Basic(username, password) == [scheme |-> "Basic", username |-> username, password |-> password]
NoHeader == [scheme |-> "none"]

\* A plausible slip: the credentials are looked at in the other order.
ApplyAuthBasicFirst(k) ==
  IF k.username # None THEN Basic(k.username, k.password)
  ELSE IF k.token # None THEN Bearer(k.token) ELSE NoHeader

\* The Authorization header of every request of a Client.
ApplyAuth(k) ==
  IF k.token # None THEN Bearer(k.token)
  ELSE IF k.username # None THEN Basic(k.username, k.password) ELSE NoHeader

Timeout(c) == heap[client[c].http]

-----------------------------------------------------------------------------
\* The i-th option of c is the last of its kind.
LastGiven(c, i, opt) ==
  /\ i \in DOMAIN given[c] /\ given[c][i].opt = opt
  /\ \A j \in DOMAIN given[c] : given[c][j].opt = opt => j <= i

GivenHTTP(c, h) == \E i \in DOMAIN given[c] : given[c][i].opt = "WithHTTPClient" /\ given[c][i].h = h

\* In whatever order the options come, a token beats basic credentials, and the
\* name and the password of a header belong together: they are those of the
\* last WithBasicAuth (applyAuth, client.go:589-597; docs/auth.md:77).
TokenWins ==
  \A c \in Clients :
    LET header == ApplyAuth(client[c]) IN
    /\ \A i \in DOMAIN given[c] : LastGiven(c, i, "WithToken") /\ given[c][i].token # None =>
         header = Bearer(given[c][i].token)
    /\ header.scheme = "Basic" => \E i \in DOMAIN given[c] :
         LastGiven(c, i, "WithBasicAuth") /\ header = Basic(given[c][i].username, given[c][i].password)

\* A Client that was given no http.Client has the timeout it asked for last, or
\* 30 s, whatever other Clients are configured with meanwhile (NewClient,
\* client.go:178-191).
OwnTimeout ==
  \A c \in Clients : (\A h \in Apps : ~GivenHTTP(c, h)) =>
    /\ \A i \in DOMAIN given[c] : LastGiven(c, i, "WithTimeout") => Timeout(c) = given[c][i].d
    /\ (\A i \in DOMAIN given[c] : given[c][i].opt # "WithTimeout") => Timeout(c) = DefaultTimeout

\* The timeout of an http.Client of the application is the one it came with,
\* or one that a Client asked for after the http.Client was passed to it: a
\* timeout asked for before is dropped (WithHTTPClient, client.go:154-162).
AppTimeoutIsAskedFor ==
  \A h \in Apps : heap[h] = AppTimeout[h] \/
    \E c \in Clients : \E i, j \in DOMAIN given[c] :
      /\ given[c][i].opt = "WithHTTPClient" /\ given[c][i].h = h
      /\ i < j /\ given[c][j].opt = "WithTimeout" /\ given[c][j].d = heap[h]
=============================================================================
