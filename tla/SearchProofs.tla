---------------------------- MODULE SearchProofs ----------------------------
(***************************************************************************)
(* Paging, for any table, filters, limits and ways a page can fail: the    *)
(* cursor in the builder always points behind the hits the caller has, so  *)
(* the next page continues them, and every page that names a next one has  *)
(* brought limit hits.                                                     *)
(***************************************************************************)
EXTENDS Search, SequenceProofs

BuilderFields ==
  {"must", "retrievers", "fusion", "rerank", "limit", "projection", "explain", "cursor"}

BuilderOK ==
  /\ builder = [f \in BuilderFields |-> builder[f]]
  /\ builder.limit \in Int /\ builder.cursor \in Nat
  /\ builder.must \in Seq(Conditions)
  /\ wanted = ToSet(builder.must)

PagingOK ==
  paging \in [state : {"none", "paging", "gave up", "ended", "ended empty"}, from : Nat,
              got : Seq(Rows), followed : Nat]

\* The hits the caller has stand in the ranking one behind the other.
Collected ==
  \A i \in 1..Len(paging.got) :
    /\ paging.from + i <= Len(Ranking(wanted))
    /\ paging.got[i] = Ranking(wanted)[paging.from + i]

\* The next page starts where the last one ended.
CursorFollows == paging.state = "paging" => builder.cursor = paging.from + Len(paging.got)

EndIsEnd == paging.state = "ended" => paging.from + Len(paging.got) >= Len(Ranking(wanted))

IInv == BuilderOK /\ PagingOK /\ Collected /\ CursorFollows /\ EndIsEnd

\* What a step to a further page does.
BringsHits == paging'.followed > paging.followed => Len(paging'.got) > Len(paging.got)

-----------------------------------------------------------------------------
\* The daemon ranks rows of the table.
LEMMA RankingOfRows ==
  ASSUME NEW filters
  PROVE  /\ Ranking(filters) \in Seq(Rows)
         /\ \A i, j \in 1..Len(Ranking(filters)) :
              i < j => Ranking(filters)[i] < Ranking(filters)[j]
         /\ \A i \in 1..Len(Ranking(filters)) :
              \A c \in filters : Ranking(filters)[i] \in Satisfying[c]
<1> DEFINE S == {h \in Rows : \A c \in filters : h \in Satisfying[c]}
<1>1. S \in SUBSET Int /\ IsFiniteSet(S) /\ S \subseteq Rows
  <2>1. Rows \in SUBSET Int /\ IsFiniteSet(Rows) /\ S \in SUBSET Rows
    BY SearchAssumption
  <2> HIDE DEF S
  <2> QED BY <2>1, FS_Subset
<1>2. \A n \in S : \A c \in filters : n \in Satisfying[c]
  OBVIOUS
<1> HIDE DEF S
<1>3. /\ Sorted(S) \in Seq(S) /\ DOMAIN Sorted(S) = 1..Len(Sorted(S))
      /\ \A i, j \in 1..Len(Sorted(S)) : i < j => Sorted(S)[i] < Sorted(S)[j]
  BY <1>1, SortedEnumerates
<1>4. \A i \in 1..Len(Sorted(S)) : Sorted(S)[i] \in S
  BY <1>3
<1>5. Sorted(S) \in Seq(Rows)
  BY <1>1, <1>3, SeqMonotonic
<1> QED BY <1>2, <1>3, <1>4, <1>5 DEF Ranking, S

\* Build sends the filters, the limit and the cursor it was given, whichever
\* fields it leaves out (Build, search.go:147-177).
LEMMA BuildSends ==
  ASSUME BuilderOK
  PROVE  /\ FiltersOf(Build(builder)) = wanted
         /\ StartOf(Build(builder)) = builder.cursor
         /\ Build(builder).limit = builder.limit
<1> DEFINE p == Build(builder)
<1>1. /\ "must" \in DOMAIN p <=> builder.must # <<>>
      /\ "cursor" \in DOMAIN p <=> builder.cursor # NoCursor
      /\ "limit" \in DOMAIN p
      /\ \A f \in DOMAIN p : p[f] = builder[f]
  BY DEF Build, Always, Optional
<1> HIDE DEF p
<1>2. FiltersOf(p) = wanted
  <2>1. builder.must = <<>> => wanted = {}
    BY DEF BuilderOK, ToSet
  <2>2. "must" \in DOMAIN p => p.must = builder.must
    BY <1>1
  <2> QED BY <1>1, <2>1, <2>2 DEF FiltersOf, BuilderOK
<1>3. StartOf(p) = builder.cursor
  BY <1>1 DEF StartOf
<1> QED BY <1>1, <1>2, <1>3 DEF p

\* What a page holds.
LEMMA PageHolds ==
  ASSUME BuilderOK, builder.limit > 0
  PROVE  LET page == PageFor(Build(builder))
             end == builder.cursor + builder.limit
         IN  /\ page.hits \in Seq(Rows)
             /\ \A i \in 1..Len(page.hits) :
                  /\ builder.cursor + i <= Len(Ranking(wanted))
                  /\ page.hits[i] = Ranking(wanted)[builder.cursor + i]
             /\ page.next # NoCursor =>
                  page.next = end /\ Len(page.hits) = builder.limit
             /\ page.next = NoCursor =>
                  builder.cursor + Len(page.hits) >= Len(Ranking(wanted))
<1> DEFINE ranking == Ranking(wanted)
           c == builder.cursor
           end == c + builder.limit
           page == PageFor(Build(builder))
           upto == IF end < Len(ranking) THEN end ELSE Len(ranking)
<1>1. ranking \in Seq(Rows) /\ Len(ranking) \in Nat
  BY RankingOfRows
<1> HIDE DEF ranking
<1>2. c \in Nat /\ end \in Nat /\ end > c /\ builder.limit \in Nat
  BY DEF BuilderOK
<1>3. page = [hits |-> SubSeq(ranking, c + 1, upto),
              next |-> IF end < Len(ranking) THEN end ELSE NoCursor]
  BY BuildSends DEF PageFor, ranking
<1> HIDE DEF page, c, end
<1>4. upto \in Nat /\ upto <= Len(ranking)
  BY <1>1, <1>2
<1>5. /\ page.hits \in Seq(Rows)
      /\ Len(page.hits) = IF c + 1 <= upto THEN upto - c ELSE 0
      /\ \A i \in 1..Len(page.hits) : page.hits[i] = ranking[c + i]
  BY <1>1, <1>2, <1>3, <1>4
<1>6. \A i \in 1..Len(page.hits) : c + i <= Len(ranking)
  BY <1>1, <1>2, <1>4, <1>5
<1>7. page.next # NoCursor => page.next = end /\ Len(page.hits) = end - c
  BY <1>1, <1>2, <1>3, <1>5
<1>8. page.next = NoCursor => c + Len(page.hits) >= Len(ranking)
  BY <1>1, <1>2, <1>3, <1>5 DEF NoCursor
<1>9. end - c = builder.limit
  BY <1>2 DEF end, c
<1> QED BY <1>5, <1>6, <1>7, <1>8, <1>9 DEF ranking, page, c, end

-----------------------------------------------------------------------------
LEMMA ToSetOfAppend ==
  ASSUME NEW S, NEW s \in Seq(S), NEW e \in S
  PROVE  Append(s, e) \in Seq(S) /\ ToSet(Append(s, e)) = ToSet(s) \union {e}
<1> DEFINE t == Append(s, e)
           n == Len(s)
<1>1. /\ t \in Seq(S) /\ Len(t) = n + 1 /\ n \in Nat
      /\ \A i \in 1..n : t[i] = s[i]
      /\ t[n + 1] = e
  BY AppendProperties
<1>2. DOMAIN s = 1..n /\ DOMAIN t = 1..(n + 1)
  BY <1>1
<1> HIDE DEF t, n
<1>3. 1..(n + 1) = (1..n) \union {n + 1}
  BY <1>1
<1>4. ToSet(t) = {t[i] : i \in 1..n} \union {t[n + 1]}
  BY <1>2, <1>3 DEF ToSet
<1>5. {t[i] : i \in 1..n} = {s[i] : i \in 1..n}
  BY <1>1
<1> QED BY <1>1, <1>2, <1>4, <1>5 DEF ToSet, t

\* A call that sets the builder up drops the hits collected before.
Resets ==
  /\ paging' = NotPaging
  /\ \/ \E field \in BuilderFields \ {"must", "limit", "cursor"} : \E value :
          Set(field, value) /\ wanted' = wanted
     \/ \E c \in Conditions :
          Set("must", Append(builder.must, c)) /\ wanted' = wanted \union {c}

LEMMA ResetsInv ==
  ASSUME IInv, Resets
  PROVE  IInv'
<1>1. PagingOK' /\ Collected' /\ CursorFollows' /\ EndIsEnd'
  BY DEF Resets, NotPaging, NoCursor, PagingOK, Collected, CursorFollows, EndIsEnd
<1>2. BuilderOK'
  <2>1. CASE \E field \in BuilderFields \ {"must", "limit", "cursor"} : \E value :
               Set(field, value) /\ wanted' = wanted
    BY <2>1 DEF IInv, BuilderOK, Set, BuilderFields
  <2>2. ASSUME NEW c \in Conditions,
               Set("must", Append(builder.must, c)), wanted' = wanted \union {c}
        PROVE  BuilderOK'
    <3> DEFINE must == Append(builder.must, c)
    <3>1. builder.must \in Seq(Conditions) /\ wanted = ToSet(builder.must)
      BY DEF IInv, BuilderOK
    <3>2. must \in Seq(Conditions) /\ ToSet(must) = wanted \union {c}
      BY <3>1, ToSetOfAppend
    <3> HIDE DEF must
    <3>3. builder' = [builder EXCEPT !["must"] = must]
      BY <2>2 DEF Set, must
    <3> QED BY <2>2, <3>2, <3>3 DEF IInv, BuilderOK, BuilderFields
  <2> QED BY <2>1, <2>2 DEF Resets
<1> QED BY <1>1, <1>2 DEF IInv

LEMMA LimitInv ==
  ASSUME IInv, NEW n \in Limits, Limit(n)
  PROVE  IInv'
<1>1. n \in Int
  BY SearchAssumption
<1>2. builder' = [builder EXCEPT !["limit"] = n] /\ UNCHANGED <<wanted, paging>>
  BY DEF Limit, Set
<1>3. BuilderOK' /\ builder'.cursor = builder.cursor
  BY <1>1, <1>2 DEF IInv, BuilderOK, BuilderFields
<1> QED
  BY <1>2, <1>3 DEF IInv, PagingOK, Collected, CursorFollows, EndIsEnd

\* A start forgets the hits of an earlier search and takes its cursor from the
\* builder or from nowhere.
LEMMA StartInv ==
  ASSUME IInv, NEW c \in {NoCursor, builder.cursor}, Start(c)
  PROVE  IInv'
<1>1. c \in Nat
  BY DEF IInv, BuilderOK, NoCursor
<1>2. /\ builder' = [builder EXCEPT !["cursor"] = c]
      /\ paging' = [state |-> "paging", from |-> c, got |-> <<>>, followed |-> 0]
      /\ wanted' = wanted
  BY DEF Start, Set, CursorOf, NotPaging
<1>3. BuilderOK' /\ builder'.cursor = c
  BY <1>1, <1>2 DEF IInv, BuilderOK, BuilderFields
<1>4. paging'.state = "paging" /\ paging'.from = c /\ paging'.got = <<>> /\ paging'.followed = 0
  BY <1>2
<1>5. PagingOK'
  BY <1>1, <1>2 DEF PagingOK
<1>6. Collected' /\ CursorFollows' /\ EndIsEnd'
  BY <1>1, <1>3, <1>4 DEF Collected, CursorFollows, EndIsEnd
<1> QED
  BY <1>3, <1>5, <1>6 DEF IInv

LEMMA FailsInv ==
  ASSUME IInv, NEW x \in Exchanges, ExecuteFails(x)
  PROVE  IInv'
<1>1. PICK state \in {"paging", "gave up"} : paging' = [paging EXCEPT !.state = state]
  BY DEF ExecuteFails
<1>2. UNCHANGED <<builder, wanted>> /\ paging.state = "paging"
  BY DEF ExecuteFails
<1>3. /\ PagingOK' /\ paging'.from = paging.from /\ paging'.got = paging.got
      /\ paging'.followed = paging.followed /\ paging'.state = state
  BY <1>1 DEF IInv, PagingOK
<1> QED
  BY <1>2, <1>3 DEF IInv, BuilderOK, Collected, CursorFollows, EndIsEnd

\* Hits of a ranking, and those behind them, are hits of the ranking.
LEMMA Continues ==
  ASSUME NEW S, NEW got \in Seq(S), NEW hits \in Seq(S), NEW ranking \in Seq(S), NEW from \in Nat,
         \A i \in 1..Len(got) : from + i <= Len(ranking) /\ got[i] = ranking[from + i],
         \A i \in 1..Len(hits) :
           /\ from + Len(got) + i <= Len(ranking)
           /\ hits[i] = ranking[from + Len(got) + i]
  PROVE  /\ got \o hits \in Seq(S) /\ Len(got \o hits) = Len(got) + Len(hits)
         /\ \A i \in 1..Len(got \o hits) :
              from + i <= Len(ranking) /\ (got \o hits)[i] = ranking[from + i]
<1> DEFINE all == got \o hits
<1>1. /\ all \in Seq(S) /\ Len(all) = Len(got) + Len(hits)
      /\ \A i \in 1..Len(all) : all[i] = IF i <= Len(got) THEN got[i] ELSE hits[i - Len(got)]
  BY ConcatProperties
<1>2. Len(got) \in Nat /\ Len(hits) \in Nat
  OBVIOUS
<1> HIDE DEF all
<1>3. ASSUME NEW i \in 1..Len(all)
      PROVE  from + i <= Len(ranking) /\ all[i] = ranking[from + i]
  <2>1. CASE i <= Len(got)
    <3>1. i \in 1..Len(got) /\ all[i] = got[i]
      BY <1>1, <1>2, <2>1
    <3> QED BY <3>1
  <2>2. CASE ~(i <= Len(got))
    <3> DEFINE j == i - Len(got)
    <3>1. j \in 1..Len(hits) /\ from + Len(got) + j = from + i
      BY <1>1, <1>2, <2>2
    <3>2. all[i] = hits[j]
      BY <1>1, <2>2
    <3> HIDE DEF j
    <3>3. /\ from + Len(got) + j <= Len(ranking)
          /\ hits[j] = ranking[from + Len(got) + j]
      BY <3>1
    <3> QED BY <3>1, <3>2, <3>3
  <2> QED BY <2>1, <2>2
<1> QED BY <1>1, <1>3 DEF all

\* A page that names a next one continues the hits the caller has by at least one,
\* and the last page continues them too.
LEMMA PageInv ==
  ASSUME IInv, NEW x \in Exchanges, ExecutePage(x)
  PROVE  IInv' /\ BringsHits
<1> DEFINE page == IF Hits(x).says = "value" THEN PageFor(Build(builder))
                   ELSE [hits |-> <<>>, next |-> NoCursor]
           hits == page.hits
           next == page.next
           R == Len(Ranking(wanted))
           c == builder.cursor
           got == paging.got \o hits
<1>1. /\ BuilderOK /\ PagingOK /\ Collected
      /\ paging.state = "paging" /\ c = paging.from + Len(paging.got)
  BY DEF IInv, CursorFollows, ExecutePage
<1>2. /\ Valid(builder) /\ wanted' = wanted
      /\ \/ /\ next # NoCursor
            /\ paging' = [paging EXCEPT !.got = got, !.followed = @ + 1]
            /\ builder' = [builder EXCEPT !["cursor"] = next]
         \/ /\ next = NoCursor
            /\ paging' = [paging EXCEPT !.got = got, !.state = EndOf(x)]
            /\ builder' = builder
  BY DEF ExecutePage, Set, CursorOf
<1>3. builder.limit \in Nat /\ builder.limit > 0 /\ c \in Nat
  BY <1>1, <1>2 DEF Valid, BuilderOK
<1>4. /\ hits \in Seq(Rows)
      /\ \A i \in 1..Len(hits) : c + i <= R /\ hits[i] = Ranking(wanted)[c + i]
      /\ next # NoCursor => next = c + builder.limit /\ Len(hits) = builder.limit
      /\ next = NoCursor /\ EndOf(x) = "ended" => c + Len(hits) >= R
  <2>1. CASE Hits(x).says = "value"
    <3>1. page = PageFor(Build(builder))
      BY <2>1
    <3> HIDE DEF page
    <3> QED BY <1>1, <1>3, <3>1, PageHolds
  <2>2. CASE Hits(x).says # "value"
    <3>1. hits = <<>> /\ next = NoCursor /\ EndOf(x) # "ended"
      BY <2>2 DEF EndOf
    <3> HIDE DEF hits, next
    <3> QED BY <3>1
  <2> QED BY <2>1, <2>2
<1> HIDE DEF page, hits, next, c
<1>5. /\ paging.got \in Seq(Rows) /\ Len(paging.got) \in Nat /\ Len(hits) \in Nat
      /\ paging.from \in Nat /\ paging.followed \in Nat
      /\ paging = [f \in {"state", "from", "got", "followed"} |-> paging[f]]
  <2>1. /\ paging.got \in Seq(Rows) /\ paging.from \in Nat /\ paging.followed \in Nat
        /\ paging = [f \in {"state", "from", "got", "followed"} |-> paging[f]]
    BY <1>1 DEF PagingOK
  <2> QED BY <1>1, <1>4, <2>1
<1>6. /\ got \in Seq(Rows) /\ Len(got) = Len(paging.got) + Len(hits)
      /\ \A i \in 1..Len(got) :
           paging.from + i <= R /\ got[i] = Ranking(wanted)[paging.from + i]
  <2>1. /\ Ranking(wanted) \in Seq(Rows)
        /\ \A i \in 1..Len(paging.got) :
             paging.from + i <= R /\ paging.got[i] = Ranking(wanted)[paging.from + i]
    BY <1>1, RankingOfRows DEF Collected
  <2>2. \A i \in 1..Len(hits) :
          /\ paging.from + Len(paging.got) + i <= R
          /\ hits[i] = Ranking(wanted)[paging.from + Len(paging.got) + i]
    BY <1>1, <1>4
  <2> DEFINE ranking == Ranking(wanted)
             from == paging.from
             have == paging.got
  <2>3. /\ hits \in Seq(Rows) /\ have \in Seq(Rows) /\ ranking \in Seq(Rows) /\ from \in Nat
        /\ \A i \in 1..Len(have) : from + i <= Len(ranking) /\ have[i] = ranking[from + i]
        /\ \A i \in 1..Len(hits) :
             /\ from + Len(have) + i <= Len(ranking)
             /\ hits[i] = ranking[from + Len(have) + i]
    BY <1>4, <1>5, <2>1, <2>2
  <2> HIDE DEF ranking, from, have
  <2>4. /\ have \o hits \in Seq(Rows) /\ Len(have \o hits) = Len(have) + Len(hits)
        /\ \A i \in 1..Len(have \o hits) :
             from + i <= Len(ranking) /\ (have \o hits)[i] = ranking[from + i]
    BY <2>3, Continues
  <2> QED BY <2>4 DEF ranking, from, have
<1> HIDE DEF got
<1>7. paging'.got = got /\ paging'.from = paging.from
  BY <1>2, <1>5
<1>8. Collected'
  BY <1>2, <1>6, <1>7 DEF Collected
<1>9. CASE next # NoCursor
  <2>1. /\ paging' = [paging EXCEPT !.got = got, !.followed = @ + 1]
        /\ builder' = [builder EXCEPT !["cursor"] = next]
    BY <1>2, <1>9
  <2>2. next = c + builder.limit /\ Len(hits) = builder.limit /\ next \in Nat
    BY <1>3, <1>4, <1>9
  <2>3. BuilderOK' /\ builder'.cursor = next
    BY <1>1, <1>2, <2>1, <2>2 DEF BuilderOK, BuilderFields
  <2>4. paging'.state = "paging" /\ paging'.followed = paging.followed + 1
    BY <1>1, <1>5, <2>1
  <2>5. PagingOK'
    <3>1. paging.followed + 1 \in Nat
      BY <1>5
    <3> QED BY <1>1, <1>6, <2>1, <3>1 DEF PagingOK
  <2>6. CursorFollows'
    BY <1>1, <1>3, <1>5, <1>6, <1>7, <2>2, <2>3 DEF CursorFollows
  <2>7. EndIsEnd'
    BY <2>4 DEF EndIsEnd
  <2>8. BringsHits
    BY <1>3, <1>5, <1>6, <1>7, <2>2, <2>4 DEF BringsHits
  <2> QED BY <1>8, <2>3, <2>5, <2>6, <2>7, <2>8 DEF IInv
<1>10. CASE next = NoCursor
  <2>1. paging' = [paging EXCEPT !.got = got, !.state = EndOf(x)] /\ builder' = builder
    BY <1>2, <1>10
  <2>2. EndOf(x) \in {"ended", "ended empty"}
    BY DEF EndOf
  <2>3. paging'.state = EndOf(x) /\ paging'.followed = paging.followed
    BY <1>5, <2>1
  <2>4. PagingOK'
    BY <1>1, <1>6, <2>1, <2>2 DEF PagingOK
  <2>5. CursorFollows'
    BY <2>2, <2>3 DEF CursorFollows
  <2>6. EndIsEnd'
    BY <1>1, <1>2, <1>4, <1>5, <1>6, <1>7, <1>10, <2>3 DEF EndIsEnd
  <2>7. BringsHits
    BY <1>5, <2>3 DEF BringsHits
  <2>8. BuilderOK'
    BY <1>1, <1>2, <2>1 DEF BuilderOK
  <2> QED BY <1>8, <2>4, <2>5, <2>6, <2>7, <2>8 DEF IInv
<1> QED BY <1>9, <1>10

\* However a caller pages, what it has is a stretch of the ranking that ends at
\* the cursor.
THEOREM Inductive == Spec => []IInv
<1>1. Init => IInv
  <2>1. SUFFICES ASSUME Init PROVE IInv
    OBVIOUS
  <2>2. BuilderOK
    BY <2>1 DEF Init, BuilderOK, BuilderFields, NoCursor, ToSet
  <2>3. PagingOK /\ Collected /\ CursorFollows /\ EndIsEnd
    BY <2>1 DEF Init, NotPaging, NoCursor, PagingOK, Collected, CursorFollows, EndIsEnd
  <2> QED BY <2>2, <2>3 DEF IInv
<1>2. IInv /\ [Next]_vars => IInv'
  <2>1. SUFFICES ASSUME IInv, [Next]_vars PROVE IInv'
    OBVIOUS
  <2>2. CASE UNCHANGED vars
    BY <2>1, <2>2 DEF vars, IInv, BuilderOK, PagingOK, Collected, CursorFollows, EndIsEnd
  <2>3. CASE \/ \E c \in Conditions : Must(c)
             \/ \E kind \in Kinds : Retriever(kind)
             \/ \E k \in Constants : Fusion(k)
             \/ \E p \in Projections : Projection(p)
             \/ \E on \in BOOLEAN : Explain(on)
             \/ ExactRerank
    <3>1. Resets
      BY <2>3 DEF Resets, Must, Retriever, Fusion, Projection, Explain, ExactRerank, BuilderFields
    <3> QED BY <2>1, <3>1, ResetsInv
  <2>4. CASE \E n \in Limits : Limit(n)
    BY <2>1, <2>4, LimitInv
  <2>5. CASE \E c \in {NoCursor, builder.cursor} : Start(c)
    BY <2>1, <2>5, StartInv
  <2>6. CASE \E x \in Exchanges : ExecutePage(x) \/ ExecuteFails(x)
    BY <2>1, <2>6, PageInv, FailsInv
  <2> QED BY <2>1, <2>2, <2>3, <2>4, <2>5, <2>6 DEF Next
<1> QED BY <1>1, <1>2, PTL DEF Spec

-----------------------------------------------------------------------------
\* The hits collected are those of one search, none left out, and at the end
\* all of them (Build, Cursor, Execute, search.go:142-213).
THEOREM OneSearch == Spec => []PagesOfTheSearch
<1>1. IInv => PagesOfTheSearch
  <2> SUFFICES ASSUME IInv PROVE PagesOfTheSearch
    OBVIOUS
  <2> DEFINE ranking == Ranking(wanted)
             from == paging.from
             got == paging.got
             rest == SubSeq(ranking, from + 1, Len(ranking))
  <2>1. /\ got \in Seq(Rows) /\ from \in Nat
        /\ \A i \in 1..Len(got) : from + i <= Len(ranking) /\ got[i] = ranking[from + i]
        /\ paging.state = "ended" => from + Len(got) >= Len(ranking)
    BY DEF IInv, PagingOK, Collected, EndIsEnd
  <2>2. ranking \in Seq(Rows) /\ Len(ranking) \in Nat /\ Len(got) \in Nat
    BY <2>1, RankingOfRows
  <2> HIDE DEF ranking, got, from
  <2>3. /\ rest \in Seq(Rows)
        /\ Len(rest) = IF from + 1 <= Len(ranking) THEN Len(ranking) - from ELSE 0
        /\ \A i \in 1..Len(rest) : rest[i] = ranking[from + i]
    <3>1. \A i \in (from + 1)..Len(ranking) : ranking[i] \in Rows
      BY <2>1, <2>2
    <3>2. /\ rest \in Seq(Rows)
          /\ Len(rest) = IF from + 1 <= Len(ranking) THEN Len(ranking) - (from + 1) + 1 ELSE 0
          /\ \A i \in 1..(Len(ranking) - (from + 1) + 1) : rest[i] = ranking[(from + 1) + i - 1]
      BY <2>1, <2>2, <3>1, SubSeqProperties
    <3> HIDE DEF rest
    <3> QED BY <2>1, <2>2, <3>2
  <2> HIDE DEF rest
  <2>4. Len(got) <= Len(rest)
    <3>1. CASE Len(got) = 0
      BY <2>3, <3>1
    <3>2. CASE Len(got) > 0
      <4>1. from + Len(got) <= Len(ranking)
        BY <2>1, <2>2, <3>2
      <4> QED BY <2>1, <2>2, <2>3, <3>2, <4>1
    <3> QED BY <2>2, <3>1, <3>2
  <2>5. \A i \in 1..Len(got) : got[i] = rest[i]
    BY <2>1, <2>2, <2>3, <2>4
  <2>6. IsPrefix(got, rest)
    <3>1. SubSeq(got, 1, Len(got)) = SubSeq(rest, 1, Len(got))
      BY <2>1, <2>2, <2>3, <2>4, <2>5
    <3> QED BY <2>4, <3>1 DEF IsPrefix
  <2>7. paging.state = "ended" => got = rest
    <3>1. ASSUME paging.state = "ended" PROVE Len(got) = Len(rest)
      BY <2>1, <2>2, <2>3, <2>4, <3>1
    <3> QED BY <2>1, <2>3, <2>5, <3>1, SeqEqual
  <2> QED BY <2>6, <2>7 DEF PagesOfTheSearch, got, rest, from, ranking
<1> QED BY <1>1, Inductive, PTL

\* Whatever the limit, each page that names a next one brings hits (Build,
\* search.go:152-154).
THEOREM PagesProgress == Spec => EveryPageBringsHits
<1>1. IInv /\ [Next]_vars => [BringsHits]_vars
  <2>1. SUFFICES ASSUME IInv, Next PROVE BringsHits
    OBVIOUS
  <2>2. CASE \E x \in Exchanges : ExecutePage(x)
    BY <2>1, <2>2, PageInv
  <2>3. CASE paging'.followed \in {0, paging.followed}
    <3>1. paging.followed \in Nat
      BY <2>1 DEF IInv, PagingOK
    <3> QED BY <2>3, <3>1 DEF BringsHits
  <2>4. CASE \E x \in Exchanges : ExecuteFails(x)
    <3>1. paging'.followed = paging.followed
      BY <2>1, <2>4 DEF IInv, PagingOK, ExecuteFails
    <3> QED BY <2>3, <3>1
  <2>5. CASE \/ \E c \in Conditions : Must(c)
             \/ \E kind \in Kinds : Retriever(kind)
             \/ \E k \in Constants : Fusion(k)
             \/ \E p \in Projections : Projection(p)
             \/ \E on \in BOOLEAN : Explain(on)
             \/ ExactRerank
    <3>1. paging' = NotPaging
      BY <2>5 DEF Must, Retriever, Fusion, Projection, Explain, ExactRerank
    <3> QED BY <2>3, <3>1 DEF NotPaging
  <2>6. CASE \E n \in Limits : Limit(n)
    BY <2>3, <2>6 DEF Limit
  <2>7. CASE \E c \in {NoCursor, builder.cursor} : Start(c)
    <3>1. paging'.followed = 0
      BY <2>7 DEF Start, NotPaging
    <3> QED BY <2>3, <3>1
  <2> QED BY <2>1, <2>2, <2>4, <2>5, <2>6, <2>7 DEF Next
<1> QED BY <1>1, Inductive, PTL DEF Spec, EveryPageBringsHits, BringsHits

\* No hit comes twice, and every hit passes every filter the caller gave
\* (Must, Build, search.go:40-47, 147-177).
THEOREM HitsAreAsked ==
  Spec => [](/\ \A i, j \in 1..Len(paging.got) : i < j => paging.got[i] < paging.got[j]
             /\ \A i \in 1..Len(paging.got) : \A c \in wanted : paging.got[i] \in Satisfying[c])
<1>1. IInv => /\ \A i, j \in 1..Len(paging.got) : i < j => paging.got[i] < paging.got[j]
              /\ \A i \in 1..Len(paging.got) : \A c \in wanted : paging.got[i] \in Satisfying[c]
  <2> DEFINE ranking == Ranking(wanted)
             from == paging.from
             got == paging.got
  <2> SUFFICES ASSUME IInv, NEW i \in 1..Len(got)
               PROVE  /\ \A j \in 1..Len(got) : i < j => got[i] < got[j]
                      /\ \A c \in wanted : got[i] \in Satisfying[c]
    OBVIOUS
  <2>1. /\ from \in Nat /\ got \in Seq(Rows)
        /\ \A j \in 1..Len(got) : from + j <= Len(ranking) /\ got[j] = ranking[from + j]
    BY DEF IInv, PagingOK, Collected
  <2>2. /\ ranking \in Seq(Rows)
        /\ \A k, j \in 1..Len(ranking) : k < j => ranking[k] < ranking[j]
        /\ \A k \in 1..Len(ranking) : \A c \in wanted : ranking[k] \in Satisfying[c]
    BY RankingOfRows
  <2> HIDE DEF ranking, from, got
  <2>3. Len(got) \in Nat /\ Len(ranking) \in Nat
    BY <2>1, <2>2
  <2>4. \A j \in 1..Len(got) : from + j \in 1..Len(ranking) /\ got[j] = ranking[from + j]
    BY <2>1, <2>3
  <2>5. ASSUME NEW j \in 1..Len(got), i < j
        PROVE  got[i] < got[j]
    <3>1. from + i < from + j
      BY <2>1, <2>3, <2>5
    <3> QED BY <2>2, <2>4, <3>1
  <2> QED BY <2>2, <2>4, <2>5
<1> QED BY <1>1, Inductive, PTL
=============================================================================
