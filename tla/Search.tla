------------------------------- MODULE Search -------------------------------
(***************************************************************************)
(* A SearchBuilder and the caller who pages through its hits: it executes  *)
(* the builder, hands the NextCursor of the page to Cursor, and executes   *)
(* again until there is none.  A failed page is asked for again, or the    *)
(* caller gives up and starts anew later, with the same builder.  One      *)
(* goroutine uses the builder; the rows do not change while it pages.      *)
(*                                                                         *)
(* The daemon is not part of this repository: it ranks the hits that       *)
(* satisfy every hard filter, and a cursor is where the next page starts.  *)
(***************************************************************************)
EXTENDS Answers, Sorting, SequencesExt

CONSTANTS
  Conditions,   \* hard filters, as Must normalizes them
  Rows,         \* the rows of the table, numbers in the order of their score
  Satisfying,   \* the rows that satisfy a filter
  Limits,       \* arguments of Limit
  Constants,    \* arguments of Fusion
  Projections,  \* arguments of Projection, nil included
  Exchanges,    \* how a round trip of /kit/search may go
  MaxStaged     \* bound: filters of one builder, and its retrievers

ASSUME SearchAssumption ==
  /\ Rows \in SUBSET Nat /\ IsFiniteSet(Rows)
  /\ Satisfying \in [Conditions -> SUBSET Rows]
  /\ Limits \subseteq Int

VARIABLES
  builder,   \* the SearchBuilder
  wanted,    \* history: the filters the caller gave to Must
  paging     \* the caller: where it started, the hits it has, how many pages it
             \* got that named a next one, how it ended

vars == <<builder, wanted, paging>>

Kinds == {"ann", "sparse", "min_hash"}

\* The empty cursor: of a search that starts at the best hit, and of the last
\* page. Any other is the number of hits before the next page.
NoCursor == 0

NotPaging == [state |-> "none", from |-> NoCursor, got |-> <<>>, followed |-> 0]

-----------------------------------------------------------------------------
\* The fusion constant a caller gets who asks for none.
DefaultConstant == 60

\* Client.Search
Init ==
  /\ builder = [must |-> <<>>, retrievers |-> <<>>, fusion |-> DefaultConstant, rerank |-> FALSE,
                limit |-> 10, projection |-> Nil, explain |-> FALSE, cursor |-> NoCursor]
  /\ wanted = {}
  /\ paging = NotPaging

\* A caller sets its search up before it pages; only Limit and Cursor may be
\* called between two pages.
SetUp == paging.state # "paging"

Set(field, value) == builder' = [builder EXCEPT ![field] = value]

Must(c) ==
  /\ SetUp /\ Len(builder.must) < MaxStaged
  /\ Set("must", Append(builder.must, c))
  /\ wanted' = wanted \union {c}
  /\ paging' = NotPaging

\* AnnRetriever, SparseRetriever and MinHashRetriever
Retriever(kind) ==
  /\ SetUp /\ Len(builder.retrievers) < MaxStaged
  /\ Set("retrievers", Append(builder.retrievers, kind))
  /\ UNCHANGED wanted /\ paging' = NotPaging

\* Zero asks for the default.
FusionConstant(k) == IF k = 0 THEN DefaultConstant ELSE k

Fusion(k) == SetUp /\ Set("fusion", FusionConstant(k)) /\ UNCHANGED wanted /\ paging' = NotPaging
ExactRerank == SetUp /\ Set("rerank", TRUE) /\ UNCHANGED wanted /\ paging' = NotPaging
Projection(p) == SetUp /\ Set("projection", p) /\ UNCHANGED wanted /\ paging' = NotPaging
Explain(on) == SetUp /\ Set("explain", on) /\ UNCHANGED wanted /\ paging' = NotPaging
Limit(n) == Set("limit", n) /\ UNCHANGED <<wanted, paging>>

\* A plausible slip: the empty cursor is ignored, as an empty option would be.
CursorUnlessEmpty(c) == IF c = NoCursor THEN builder.cursor ELSE c

\* What Cursor(c) leaves in the builder.
CursorOf(c) == c

-----------------------------------------------------------------------------
\* A plausible slip: only a missing retriever is refused.
ValidAnyLimit(b) == b.retrievers # <<>>

\* Build refuses any other builder.
Valid(b) == b.retrievers # <<>> /\ b.limit > 0

Always == {"retrievers", "fusion", "limit"}

\* A field left at its zero value is not sent.
Optional(b) ==
  {f \in {"must", "rerank", "projection", "explain", "cursor"} :
     CASE f = "must" -> b.must # <<>>
       [] f = "projection" -> b.projection # Nil
       [] f = "cursor" -> b.cursor # NoCursor
       [] OTHER -> b[f]}

Build(b) == [f \in Always \union Optional(b) |-> b[f]]

-----------------------------------------------------------------------------
(* The daemon. *)

Ranking(filters) == Sorted({h \in Rows : \A c \in filters : h \in Satisfying[c]})

StartOf(p) == IF "cursor" \in DOMAIN p THEN p.cursor ELSE NoCursor
FiltersOf(p) == IF "must" \in DOMAIN p THEN ToSet(p.must) ELSE {}

PageFor(p) ==
  LET ranking == Ranking(FiltersOf(p))
      end == StartOf(p) + p.limit
      more == end < Len(ranking)
  IN  [hits |-> SubSeq(ranking, StartOf(p) + 1, IF more THEN end ELSE Len(ranking)),
       next |-> IF more THEN end ELSE NoCursor]

-----------------------------------------------------------------------------
(* The caller. *)

\* It calls Cursor(c) with NoCursor or one it has been given.
Start(c) ==
  /\ SetUp
  /\ c \in {NoCursor, builder.cursor}
  /\ Set("cursor", CursorOf(c))
  /\ paging' = [NotPaging EXCEPT !.state = "paging", !.from = c]
  /\ UNCHANGED wanted

EndOf(x) == IF Hits(x).says = "value" THEN "ended" ELSE "ended empty"

\* Execute, and Cursor if there is a next page. An answer with nothing in it
\* reads as a page without hits and without a next one.
ExecutePage(x) ==
  LET page == IF Hits(x).says = "value" THEN PageFor(Build(builder))
              ELSE [hits |-> <<>>, next |-> NoCursor]
  IN  /\ paging.state = "paging"
      /\ Valid(builder) /\ Hits(x).ok
      /\ \/ /\ page.next # NoCursor
            /\ paging' = [paging EXCEPT !.got = @ \o page.hits, !.followed = @ + 1]
            /\ Set("cursor", CursorOf(page.next))
         \/ /\ page.next = NoCursor
            /\ paging' = [paging EXCEPT !.got = @ \o page.hits, !.state = EndOf(x)]
            /\ UNCHANGED builder
      /\ UNCHANGED wanted

\* Execute returns an error, before or after the request was sent; the caller
\* gives up or asks again.
ExecuteFails(x) ==
  /\ paging.state = "paging"
  /\ ~Valid(builder) \/ ~Hits(x).ok
  /\ \E state \in {"paging", "gave up"} : paging' = [paging EXCEPT !.state = state]
  /\ UNCHANGED <<builder, wanted>>

Next ==
  \/ \E c \in Conditions : Must(c)
  \/ \E kind \in Kinds : Retriever(kind)
  \/ \E k \in Constants : Fusion(k)
  \/ \E p \in Projections : Projection(p)
  \/ \E on \in BOOLEAN : Explain(on)
  \/ \E n \in Limits : Limit(n)
  \/ ExactRerank
  \/ \E c \in {NoCursor, builder.cursor} : Start(c)
  \/ \E x \in Exchanges : ExecutePage(x) \/ ExecuteFails(x)

Spec == Init /\ [][Next]_vars

-----------------------------------------------------------------------------
\* However pages fail, are retried, change their size or start again on a used
\* builder, the hits collected so far are those of one search that satisfies
\* every filter, from where the caller asked it to start, none twice and none
\* left out; and once there is no next page they are all of them, unless the
\* last answer was empty (Build, Cursor, Execute, search.go:142-213).
PagesOfTheSearch ==
  LET ranking == Ranking(wanted)
      rest == SubSeq(ranking, paging.from + 1, Len(ranking))
  IN  /\ IsPrefix(paging.got, rest)
      /\ paging.state = "ended" => paging.got = rest

\* Each page that names a next one brings at least one hit, whatever limit the
\* caller set, also between two pages: as many pages as there are hits are the
\* most a caller can follow without starting anew (Build, search.go:152-154).
EveryPageBringsHits ==
  [][paging'.followed > paging.followed => Len(paging'.got) > Len(paging.got)]_vars
=============================================================================
