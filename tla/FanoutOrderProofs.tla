------------------------- MODULE FanoutOrderProofs -------------------------
(***************************************************************************)
(* What Fanout answers, for every number of candidates and workers, every  *)
(* budget, cap and page size: the cap is filled, unless the budget ran out *)
(* the answer is that of each candidate's ladder by itself, whatever order *)
(* upstream's answers arrive in, and a request implements BudgetedSearch.  *)
(***************************************************************************)
EXTENDS FanoutProofs

(* In a finite set that a strict total order sorts, as many elements have  *)
(* fewer than n before them as there are, up to n. The order is given by   *)
(* the set of elements before each.                                        *)
LEMMA RanksCount ==
    ASSUME NEW S, IsFiniteSet(S), NEW above \in [S -> SUBSET S],
           \A d \in S : d \notin above[d],
           \A d, e \in S : d # e =>
              \/ above[d] \subseteq above[e] /\ d \in above[e]
              \/ above[e] \subseteq above[d] /\ e \in above[d],
           NEW n \in Nat
    PROVE  Cardinality({d \in S : Cardinality(above[d]) < n})
             = Smaller(Cardinality(S), n)
<1> DEFINE m == Cardinality(S)
           rank == [d \in S |-> Cardinality(above[d])]
           T == {d \in S : rank[d] < n}
           U == 0..(Smaller(m, n) - 1)
           cut == [d \in T |-> rank[d]]
<1>1. m \in Nat
  BY FS_CardinalityType
<1>2. ASSUME NEW d \in S
      PROVE  /\ IsFiniteSet(above[d])
             /\ Cardinality(above[d]) \in 0..(m - 1)
  <2>1. above[d] \in SUBSET S /\ above[d] # S
    OBVIOUS
  <2>2. IsFiniteSet(above[d]) /\ Cardinality(above[d]) <= m
        /\ Cardinality(above[d]) # m
    BY <2>1, FS_Subset
  <2>3. Cardinality(above[d]) \in Nat
    BY <2>2, FS_CardinalityType
  <2> QED
    BY <1>1, <2>2, <2>3
<1>3. ASSUME NEW d \in S, NEW e \in S,
             above[d] \subseteq above[e], d \in above[e]
      PROVE  Cardinality(above[d]) # Cardinality(above[e])
  <2>1. above[d] # above[e]
    BY <1>3
  <2> QED
    BY <1>2, <1>3, <2>1, FS_Subset
<1>4. rank \in [S -> 0..(m - 1)]
  BY <1>2
<1>5. \A d, e \in S : rank[d] = rank[e] => d = e
  BY <1>3
<1>6. rank \in Surjection(S, 0..(m - 1))
  <2>1. rank \in Injection(S, 0..(m - 1))
    BY <1>4, <1>5 DEF Injection, IsInjective
  <2>2. IsFiniteSet(0..(m - 1)) /\ Cardinality(0..(m - 1)) = m
    BY <1>1, FS_Interval
  <2> HIDE DEF rank
  <2> QED
    BY <2>1, <2>2, FS_Injection
<1>7. \A r \in 0..(m - 1) : \E d \in S : rank[d] = r
  BY <1>6 DEF Surjection
<1> HIDE DEF rank
<1>8. cut \in Bijection(T, U)
  <2>1. \A d \in T : rank[d] \in U
    BY <1>1, <1>4 DEF Smaller
  <2>2. \A r \in U : r \in 0..(m - 1) /\ r < n
    BY <1>1 DEF Smaller
  <2>3. \A r \in U : \E d \in T : rank[d] = r
    BY <1>7, <2>2
  <2>4. cut \in Injection(T, U)
    BY <1>5, <2>1 DEF Injection, IsInjective
  <2>5. cut \in Surjection(T, U)
    BY <2>1, <2>3 DEF Surjection
  <2> QED
    BY <2>4, <2>5 DEF Bijection
<1>9. IsFiniteSet(T)
  BY FS_Subset
<1>10. Cardinality(U) = Cardinality(T)
  <2> HIDE DEF T, U, cut
  <2> QED
    BY <1>8, <1>9, FS_Bijection DEF ExistsBijection
<1>11. Cardinality(U) = Smaller(m, n)
  <2> DEFINE last == Smaller(m, n) - 1
  <2>1. last \in Int /\ last + 1 = Smaller(m, n) /\ last + 1 >= 0
    BY <1>1 DEF Smaller
  <2> HIDE DEF last
  <2>2. Cardinality(0..last) = IF 0 > last THEN 0 ELSE last - 0 + 1
    BY <2>1, FS_Interval
  <2>3. Cardinality(0..last) = last + 1
    BY <2>1, <2>2
  <2> QED
    BY <2>1, <2>3 DEF last
<1>12. T = {d \in S : Cardinality(above[d]) < n}
  BY DEF rank
<1> QED
  BY <1>10, <1>11, <1>12

(* Sorting and slicing gives n results, or all if there are fewer.         *)
LEMMA FirstCount ==
    ASSUME NEW S \in SUBSET Doc, NEW n \in Nat
    PROVE  Cardinality(First(S, n)) = Smaller(Cardinality(S), n)
<1> DEFINE above == [d \in S |-> {e \in S : Before(Record[e], Record[d])}]
<1>1. IsFiniteSet(S) /\ above \in [S -> SUBSET S]
  BY FS_Subset, FanoutConstants DEF FanoutConstants
<1>2. \A d \in S : Record[d] \in LegalResult
  BY FanoutConstants DEF FanoutConstants
<1>3. \A d \in S : d \notin above[d]
  BY <1>2, Irreflexive
<1>4. ASSUME NEW d \in S, NEW e \in S, Before(Record[d], Record[e])
      PROVE  above[d] \subseteq above[e] /\ d \in above[e]
  BY <1>2, <1>4, Transitive
<1>5. ASSUME NEW d \in S, NEW e \in S, d # e
      PROVE  \/ above[d] \subseteq above[e] /\ d \in above[e]
             \/ above[e] \subseteq above[d] /\ e \in above[d]
  <2>1. Record[d].court # Record[e].court \/ Record[d].docket # Record[e].docket
    BY <1>5, FanoutConstants DEF FanoutConstants
  <2>2. Before(Record[d], Record[e]) \/ Before(Record[e], Record[d])
    BY <1>2, <2>1, Total
  <2> QED
    BY <1>4, <2>2
<1>6. First(S, n) = {d \in S : Cardinality(above[d]) < n}
  BY DEF First
<1> HIDE DEF above
<1> QED
  BY <1>1, <1>3, <1>5, <1>6, RanksCount

(* Upstream gives the n newest documents, or all if there are fewer.       *)
LEMMA NewestCount ==
    ASSUME NEW S \in SUBSET Doc, NEW n \in Nat
    PROVE  Cardinality(Newest(S, n)) = Smaller(Cardinality(S), n)
<1> DEFINE above == [d \in S |-> {e \in S : e < d}]
<1>1. IsFiniteSet(S) /\ above \in [S -> SUBSET S]
  BY FS_Subset, FanoutConstants DEF FanoutConstants
<1>2. \A d \in S : d \notin above[d]
  BY FanoutConstants DEF FanoutConstants
<1>3. ASSUME NEW d \in S, NEW e \in S, d < e
      PROVE  above[d] \subseteq above[e] /\ d \in above[e]
  <2>1. /\ above[d] = {x \in S : x < d} /\ above[e] = {x \in S : x < e}
        /\ d \in Nat /\ e \in Nat /\ S \subseteq Nat
    BY FanoutConstants DEF FanoutConstants
  <2>2. \A x \in S : x < d => x < e
    BY <1>3, <2>1
  <2> QED
    BY <1>3, <2>1, <2>2
<1>4. ASSUME NEW d \in S, NEW e \in S, d # e
      PROVE  \/ above[d] \subseteq above[e] /\ d \in above[e]
             \/ above[e] \subseteq above[d] /\ e \in above[d]
  <2>1. d < e \/ e < d
    BY <1>4, FanoutConstants DEF FanoutConstants
  <2> QED
    BY <1>3, <2>1
<1>5. Newest(S, n) = {d \in S : Cardinality(above[d]) < n}
  BY DEF Newest
<1> HIDE DEF above
<1> QED
  BY <1>1, <1>2, <1>4, <1>5, RanksCount

(* The first n of no more than n documents are all of them.                *)
LEMMA NewestOfFew ==
    ASSUME NEW S \in SUBSET Doc, NEW n \in Nat, Cardinality(S) <= n
    PROVE  Newest(S, n) = S
<1>1. IsFiniteSet(S) /\ Cardinality(S) \in Nat
  BY FS_Subset, FS_CardinalityType, FanoutConstants DEF FanoutConstants
<1>2. Newest(S, n) \in SUBSET S
  BY DEF Newest
<1>3. Cardinality(Newest(S, n)) = Cardinality(S)
  BY <1>1, NewestCount DEF Smaller
<1> QED
  BY <1>1, <1>2, <1>3, FS_Subset

(* However many documents the candidates bring in, the response is filled  *)
(* up to the cap (sort.ts:23-34, fanout.service.ts:123).                   *)
THEOREM CapIsFilled == Spec => []CapFilled
<1>1. TypedJobs /\ Sharing => CapFilled
  <2> SUFFICES ASSUME TypedJobs, Sharing, response.status = "ok"
               PROVE  Cardinality(response.docs)
                        = Smaller(Cardinality(MergedDocs), Cap)
    BY DEF CapFilled
  <2>1. response.docs = First(MergedDocs, Cap)
    BY DEF Sharing, Answered, Merged, MergeOf, MergedDocs
  <2>2. MergedDocs \in SUBSET Doc
    BY DEF TypedJobs, TypeOK, PlannerResults, MergedDocs
  <2> QED
    BY <2>1, <2>2, FirstCount, FanoutConstants DEF FanoutConstants
<1>2. TypedJobs /\ Sharing /\ [Next]_vars => Sharing'
  BY SharingPreserved
<1> QED
  BY <1>1, <1>2, InitShares, TypeCorrect, PTL DEF Spec, TypedJobs

-----------------------------------------------------------------------------
(* The pages of a query                                                    *)

(* What the first p pages of a query's documents hold.                     *)
Fetched(S, p) == Newest(Newest(S, Cap), p * PageSize)

LEMMA PageOffsets ==
    ASSUME NEW p \in Nat
    PROVE  /\ p * PageSize \in Nat /\ (p + 1) * PageSize \in Nat
           /\ p * PageSize <= (p + 1) * PageSize
  BY FanoutConstants DEF FanoutConstants

(* Reading further keeps what was read: a larger n, or a larger set before *)
(* the cut, never loses a document of the smaller one.                     *)
LEMMA NewestGrows ==
    ASSUME NEW S \in SUBSET Doc, NEW T \in SUBSET S,
           NEW m \in Nat, NEW n \in Nat, m <= n
    PROVE  /\ Newest(S, m) \subseteq Newest(S, n)
           /\ Newest(S, m) \cap T \subseteq Newest(T, n)
<1> DEFINE Above(R, d) == {e \in R : e < d}
<1>1. IsFiniteSet(S)
  BY FS_Subset, FanoutConstants DEF FanoutConstants
<1>2. ASSUME NEW d
      PROVE  /\ Cardinality(Above(S, d)) \in Nat
             /\ Cardinality(Above(T, d)) \in Nat
             /\ Cardinality(Above(T, d)) <= Cardinality(Above(S, d))
  <2>1. Above(S, d) \subseteq S /\ Above(T, d) \subseteq Above(S, d)
    OBVIOUS
  <2> HIDE DEF Above
  <2>2. IsFiniteSet(Above(S, d)) /\ IsFiniteSet(Above(T, d))
    BY <1>1, <2>1, FS_Subset
  <2> QED
    BY <2>1, <2>2, FS_Subset, FS_CardinalityType
<1>3. /\ Newest(S, m) = {d \in S : Cardinality(Above(S, d)) < m}
      /\ Newest(S, n) = {d \in S : Cardinality(Above(S, d)) < n}
      /\ Newest(T, n) = {d \in T : Cardinality(Above(T, d)) < n}
  BY DEF Newest
<1> HIDE DEF Above
<1> QED
  BY <1>2, <1>3

(* Adding page p to the pages before it makes the first p + 1 pages: no    *)
(* document is skipped between two pages.                                  *)
LEMMA PagesAddUp ==
    ASSUME NEW S \in SUBSET Doc, NEW p \in Nat
    PROVE  Fetched(S, p) \cup Page(S, p) = Fetched(S, p + 1)
<1> DEFINE T == Newest(S, Cap)
<1>1. T \in SUBSET S /\ T \in SUBSET Doc
  BY DEF Newest
<1>2. /\ p * PageSize \in Nat /\ (p + 1) * PageSize \in Nat
      /\ p * PageSize <= (p + 1) * PageSize
  BY PageOffsets
<1>3. Page(S, p) = Newest(T, (p + 1) * PageSize) \ Newest(S, p * PageSize)
  BY DEF Page
<1>4. Fetched(S, p) = Newest(T, p * PageSize)
      /\ Fetched(S, p + 1) = Newest(T, (p + 1) * PageSize)
  BY DEF Fetched
<1> HIDE DEF T
<1>5. Newest(T, p * PageSize) \subseteq Newest(T, (p + 1) * PageSize)
  BY <1>1, <1>2, NewestGrows
<1>6. Newest(S, p * PageSize) \cap T \subseteq Newest(T, p * PageSize)
  BY <1>1, <1>2, NewestGrows
<1>7. Newest(T, (p + 1) * PageSize) \subseteq T
  BY DEF Newest
<1> QED
  BY <1>3, <1>4, <1>5, <1>6, <1>7

LEMMA NoPageFirst == ASSUME NEW S \in SUBSET Doc PROVE Fetched(S, 0) = {}
<1> DEFINE T == Newest(S, Cap)
<1>1. T \in SUBSET Doc
  BY DEF Newest
<1>2. IsFiniteSet(T) /\ Cardinality(T) \in Nat
  BY <1>1, FS_Subset, FS_CardinalityType, FanoutConstants DEF FanoutConstants
<1> HIDE DEF T
<1>3. Newest(T, 0) \in SUBSET T /\ Cardinality(Newest(T, 0)) = 0
  BY <1>1, <1>2, NewestCount DEF Newest, Smaller
<1>4. Newest(T, 0) = {}
  BY <1>2, <1>3, FS_Subset, FS_EmptySet
<1>5. 0 * PageSize = 0
  BY FanoutConstants DEF FanoutConstants
<1> QED
  BY <1>4, <1>5 DEF Fetched, T

(* When no page is needed any more, all documents up to the cap are there. *)
LEMMA AllPages ==
    ASSUME NEW S \in SUBSET Doc, NEW p \in Nat, ~(p < PagesNeeded(S))
    PROVE  Fetched(S, p) = Newest(S, Cap)
<1> DEFINE T == Newest(S, Cap)
           m == Smaller(Cardinality(S), Cap)
<1>1. T \in SUBSET Doc
  BY DEF Newest
<1>2. Cardinality(S) \in Nat
  BY FS_Subset, FS_CardinalityType, FanoutConstants DEF FanoutConstants
<1>3. m \in Nat
  BY <1>2, FanoutConstants DEF FanoutConstants, Smaller
<1>4. Cardinality(T) = m
  BY FanoutConstants, NewestCount DEF FanoutConstants
<1>5. PagesNeeded(S) = (m + PageSize - 1) \div PageSize
  BY DEF PagesNeeded
<1> HIDE DEF m, T
<1>6. m <= p * PageSize
  BY <1>3, <1>5, FanoutConstants DEF FanoutConstants
<1>7. p * PageSize \in Nat
  BY PageOffsets
<1>8. Newest(T, p * PageSize) = T
  BY <1>1, <1>4, <1>6, <1>7, NewestOfFew
<1> QED
  BY <1>8 DEF Fetched, T

(* As long as a page is needed, something is missing.                      *)
LEMMA PagesMissing ==
    ASSUME NEW S \in SUBSET Doc, NEW p \in Nat, p < PagesNeeded(S)
    PROVE  Cardinality(Fetched(S, p)) < Cardinality(S)
<1> DEFINE T == Newest(S, Cap)
           m == Smaller(Cardinality(S), Cap)
           n == p * PageSize
<1>1. T \in SUBSET Doc
  BY DEF Newest
<1>2. Cardinality(S) \in Nat
  BY FS_Subset, FS_CardinalityType, FanoutConstants DEF FanoutConstants
<1>3. m \in Nat /\ m <= Cardinality(S)
  BY <1>2, FanoutConstants DEF FanoutConstants, Smaller
<1>4. Cardinality(T) = m
  BY FanoutConstants, NewestCount DEF FanoutConstants
<1>5. PagesNeeded(S) = (m + PageSize - 1) \div PageSize
  BY DEF PagesNeeded
<1>6. n \in Nat
  BY PageOffsets
<1>7. Cardinality(Fetched(S, p)) = Smaller(m, n)
  <2> HIDE DEF m, n, T
  <2>1. Cardinality(Newest(T, n)) = Smaller(m, n)
    BY <1>1, <1>4, <1>6, NewestCount
  <2> QED
    BY <2>1 DEF Fetched, T, n
<1> HIDE DEF m, T
<1>8. n < m
  BY <1>3, <1>5, FanoutConstants DEF FanoutConstants
<1> HIDE DEF n
<1> QED
  BY <1>2, <1>3, <1>6, <1>7, <1>8 DEF Smaller

-----------------------------------------------------------------------------
(* The order of answers                                                    *)

(* Every query before step k of candidate c was too broad; and k is the    *)
(* step the planner settles on.                                            *)
Narrowed(c, k) == \A j \in 1..(k - 1) : Cardinality(match[c][j]) > Cap
SettlesOn(c, k) ==
    Narrowed(c, k) /\ (Cardinality(match[c][k]) <= Cap \/ IsLastStep(match[c], k))

(* What a planner returns that nobody else took the budget from.           *)
Own(c, k) == SettledResult(match[c][k], k, Newest(match[c][k], Cap))

(* Wherever the other workers are, a busy one is where its candidate alone *)
(* would have led it, with the first pages of the query settled on.        *)
OnTrack ==
    \A w \in Worker : Busy(w) =>
        /\ Narrowed(job[w].cand, job[w].step)
        /\ job[w].at = "page" =>
             /\ SettlesOn(job[w].cand, job[w].step)
             /\ job[w].got = Fetched(match[job[w].cand][job[w].step], job[w].page)

(* A result is the candidate's own, unless the budget was refused.         *)
Unaided ==
    ~refused => \A c \in Candidate : yield[c] # NotYet =>
        \E k \in 1..Len(match[c]) : SettlesOn(c, k) /\ yield[c] = Own(c, k)

(* A refused budget shows in the result of the candidate it was refused to.*)
RefusalShows == refused => \E c \in Candidate : yield[c].truncated

(* A ladder has one query to settle on.                                    *)
LEMMA SettledIs ==
    ASSUME TypeOK, NEW c \in Candidate, NEW k \in 1..Len(match[c]), SettlesOn(c, k)
    PROVE  Settled(match[c]) = k
<1> DEFINE Fits(j) == /\ Cardinality(match[c][j]) <= Cap \/ IsLastStep(match[c], j)
                      /\ \A i \in 1..(j - 1) : Cardinality(match[c][i]) > Cap
<1>1. /\ Len(match[c]) \in Nat \ {0}
      /\ \A j \in 1..Len(match[c]) : Cardinality(match[c][j]) \in Nat
  BY LadderType
<1>2. DOMAIN match[c] = 1..Len(match[c])
  BY FanoutConstants DEF FanoutConstants, TypeOK
<1>3. Fits(k)
  BY DEF SettlesOn, Narrowed
<1>4. ASSUME NEW j \in 1..Len(match[c]), NEW i \in 1..Len(match[c]),
             Fits(j), Fits(i), i < j
      PROVE  FALSE
  <2>1. i \in 1..(j - 1)
    BY <1>1, <1>4
  <2>2. ~(Cardinality(match[c][i]) <= Cap)
    BY <1>1, <1>4, <2>1, FanoutConstants DEF FanoutConstants
  <2>3. i = Len(match[c])
    BY <1>4, <2>2 DEF IsLastStep
  <2> QED
    BY <1>1, <1>4, <2>3
<1>5. Settled(match[c]) = CHOOSE j \in DOMAIN match[c] : Fits(j)
  BY DEF Settled
<1> HIDE DEF Fits
<1>6. Settled(match[c]) \in 1..Len(match[c]) /\ Fits(Settled(match[c]))
  BY <1>2, <1>3, <1>5
<1> QED
  BY <1>1, <1>3, <1>4, <1>6

(* Probing the next query of a ladder keeps a worker on its track.         *)
LEMMA ProbeOnTrack ==
    ASSUME TypedJobs, OnTrack, Unaided, RefusalShows, NEW w \in Worker, NEW c \in Candidate,
           NEW k \in 1..Len(match[c]), Narrowed(c, k), Probe(w, c, k),
           yield[c] = NotYet, match' = match
    PROVE  OnTrack' /\ Unaided' /\ RefusalShows'
<1>1. \A v \in Worker \ {w} : job'[v] = job[v]
  BY DEF Probe, SpendAndAwait, RefuseAndReturn, Return, TypedJobs, TypeOK
<1>2. CASE SpendAndAwait(w, Awaits("probe", c, k, 0, {}))
  <2>1. job'[w].at = "probe" /\ job'[w].cand = c /\ job'[w].step = k
    BY <1>2 DEF SpendAndAwait, Awaits, TypedJobs, TypeOK
  <2>2. OnTrack'
    BY <1>1, <2>1 DEF OnTrack, Narrowed, SettlesOn, IsLastStep, Busy
  <2>3. Unaided'
    BY <1>2 DEF SpendAndAwait, Unaided, SettlesOn, Narrowed, IsLastStep, Own, SettledResult
  <2>4. RefusalShows'
    BY <1>2 DEF SpendAndAwait, RefusalShows
  <2> QED
    BY <2>2, <2>3, <2>4
<1>3. CASE RefuseAndReturn(w, c, BudgetExhaustedResult(k))
  <2>1. job'[w].at = "pick" /\ refused'
    BY <1>3 DEF RefuseAndReturn, Return, Away, TypedJobs, TypeOK
  <2>2. OnTrack'
    BY <1>1, <2>1 DEF OnTrack, Narrowed, SettlesOn, IsLastStep, Busy
  <2>3. yield'[c] = BudgetExhaustedResult(k)
    BY <1>3 DEF RefuseAndReturn, Return, TypedJobs, TypeOK
  <2>4. RefusalShows'
    BY <2>3 DEF RefusalShows, BudgetExhaustedResult
  <2> QED
    BY <2>1, <2>2, <2>4 DEF Unaided
<1> QED
  BY <1>2, <1>3 DEF Probe

(* So does leaving the others where they are and getting no result.        *)
LEMMA StandStill ==
    ASSUME TypedJobs, OnTrack, Unaided, RefusalShows, NEW w \in Worker,
           NEW at \in {"pick", "done", "threw"},
           job' = [job EXCEPT ![w] = Away(at)],
           UNCHANGED <<match, yield, refused>>
    PROVE  OnTrack' /\ Unaided' /\ RefusalShows'
<1>1. \A v \in Worker \ {w} : job'[v] = job[v]
  BY DEF TypedJobs, TypeOK
<1>2. job'[w].at = at
  BY DEF TypedJobs, TypeOK, Away
<1>3. OnTrack'
  BY <1>1, <1>2 DEF OnTrack, Narrowed, SettlesOn, IsLastStep, Busy
<1>4. Unaided'
  BY DEF Unaided, SettlesOn, Narrowed, IsLastStep, Own, SettledResult
<1>5. RefusalShows'
  BY DEF RefusalShows
<1> QED
  BY <1>3, <1>4, <1>5

(* So does fetching a page; and without another, the result is complete.   *)
LEMMA PaginateOnTrack ==
    ASSUME TypedJobs, OnTrack, Unaided, RefusalShows, NEW w \in Worker, NEW c \in Candidate,
           NEW k \in 1..Len(match[c]), NEW p \in Nat, SettlesOn(c, k),
           Paginate(w, c, k, p, Fetched(match[c][k], p)),
           yield[c] = NotYet, match' = match
    PROVE  OnTrack' /\ Unaided' /\ RefusalShows'
<1> DEFINE got == Fetched(match[c][k], p)
<1>1. \A v \in Worker \ {w} : job'[v] = job[v]
  BY DEF Paginate, SpendAndAwait, RefuseAndReturn, Return, TypedJobs, TypeOK
<1>2. CASE SpendAndAwait(w, Awaits("page", c, k, p, got))
  <2>1. /\ job'[w].at = "page" /\ job'[w].cand = c /\ job'[w].step = k
        /\ job'[w].page = p /\ job'[w].got = got
    BY <1>2 DEF SpendAndAwait, Awaits, TypedJobs, TypeOK
  <2>2. ASSUME NEW v \in Worker, Busy(v)'
        PROVE  (/\ Narrowed(job[v].cand, job[v].step)
                /\ job[v].at = "page" =>
                     /\ SettlesOn(job[v].cand, job[v].step)
                     /\ job[v].got = Fetched(match[job[v].cand][job[v].step],
                                             job[v].page))'
    <3>1. CASE v = w
      <4>1. SettlesOn(c, k)' /\ Narrowed(c, k)'
        BY DEF SettlesOn, Narrowed, IsLastStep
      <4> QED
        BY <2>1, <3>1, <4>1
    <3>2. CASE v # w
      BY <1>1, <2>2, <3>2 DEF OnTrack, Narrowed, SettlesOn, IsLastStep, Busy
    <3> QED
      BY <3>1, <3>2
  <2>3. OnTrack'
    BY <2>2 DEF OnTrack
  <2>4. Unaided'
    BY <1>2 DEF SpendAndAwait, Unaided, SettlesOn, Narrowed, IsLastStep, Own, SettledResult
  <2>5. RefusalShows'
    BY <1>2 DEF SpendAndAwait, RefusalShows
  <2> QED
    BY <2>3, <2>4, <2>5
<1>3. ASSUME Return(w, c, SettledResult(match[c][k], k, got))
      PROVE  OnTrack'
  <2>1. job'[w].at = "pick"
    BY <1>3 DEF Return, Away, TypedJobs, TypeOK
  <2> QED
    BY <1>1, <2>1 DEF OnTrack, Narrowed, SettlesOn, IsLastStep, Busy, Fetched
<1>4. CASE /\ p < PagesNeeded(match[c][k])
           /\ RefuseAndReturn(w, c, SettledResult(match[c][k], k, got))
  <2>1. yield'[c] = SettledResult(match[c][k], k, got)
    BY <1>4 DEF RefuseAndReturn, Return, TypedJobs, TypeOK
  <2>2. Cardinality(got) < Cardinality(match[c][k])
    BY <1>4, LadderType, PagesMissing DEF TypedJobs
  <2>3. SettledResult(match[c][k], k, got).truncated
    BY <2>2 DEF SettledResult
  <2>4. RefusalShows'
    BY <2>1, <2>3 DEF RefusalShows
  <2> QED
    BY <1>3, <1>4, <2>4 DEF RefuseAndReturn, Unaided
<1>5. CASE /\ ~(p < PagesNeeded(match[c][k]))
           /\ Return(w, c, SettledResult(match[c][k], k, got))
           /\ UNCHANGED <<left, refused, http>>
  <2>1. got = Newest(match[c][k], Cap)
    BY <1>5, LadderType, AllPages DEF TypedJobs
  <2>2. yield' = [yield EXCEPT ![c] = Own(c, k)]
    BY <1>5, <2>1 DEF Return, Own
  <2>3. /\ \A d \in Candidate : \A j : SettlesOn(d, j)' <=> SettlesOn(d, j)
        /\ \A d \in Candidate : \A j : Own(d, j)' = Own(d, j)
    BY DEF SettlesOn, Narrowed, IsLastStep, Own, SettledResult, Newest
  <2>4. \A d \in Candidate \ {c} : yield'[d] = yield[d]
    BY <2>2 DEF TypedJobs, TypeOK
  <2>5. yield'[c] = Own(c, k)
    BY <2>2 DEF TypedJobs, TypeOK
  <2>6. Unaided'
    BY <1>5, <2>3, <2>4, <2>5 DEF Unaided
  <2>7. RefusalShows'
    BY <1>5, <2>4 DEF RefusalShows, NotYet
  <2> QED
    BY <1>3, <1>5, <2>6, <2>7
<1> QED
  BY <1>2, <1>4, <1>5 DEF Paginate

LEMMA AnswerOnTrack ==
    ASSUME TypedJobs, Sharing, OnTrack, Unaided, RefusalShows, NEW w \in Worker,
           ProbeAnswered(w) \/ PageAnswered(w)
    PROVE  OnTrack' /\ Unaided' /\ RefusalShows'
<1> DEFINE c == job[w].cand
           k == job[w].step
           p == job[w].page
<1>1. Busy(w) /\ match' = match
  BY DEF ProbeAnswered, PageAnswered, Busy
<1>2. /\ c \in Candidate /\ k \in 1..Len(match[c]) /\ Narrowed(c, k)
      /\ p \in Nat
  BY <1>1 DEF TypedJobs, TypeOK, Jobs, JobsInRange, OnTrack
<1>3. yield[c] = NotYet
  BY <1>1, <1>2 DEF Sharing, Unplanned, Planned
<1>4. /\ Len(match[c]) \in Nat /\ match[c][k] \in SUBSET Doc
      /\ Cardinality(match[c][k]) \in Nat
  BY <1>2, LadderType DEF TypedJobs
<1>5. CASE ProbeAnswered(w)
  <2>1. CASE Cardinality(match[c][k]) <= Cap \/ IsLastStep(match[c], k)
    <3>1. SettlesOn(c, k)
      BY <1>2, <2>1 DEF SettlesOn
    <3>2. Paginate(w, c, k, 0, {})
      BY <1>5, <2>1 DEF ProbeAnswered
    <3>3. {} = Fetched(match[c][k], 0)
      BY <1>4, NoPageFirst
    <3> HIDE DEF c, k
    <3> QED
      BY <1>1, <1>2, <1>3, <3>1, <3>2, <3>3, PaginateOnTrack
  <2>2. CASE ~(Cardinality(match[c][k]) <= Cap \/ IsLastStep(match[c], k))
    <3>1. Probe(w, c, k + 1)
      BY <1>5, <2>2 DEF ProbeAnswered
    <3>2. k + 1 \in 1..Len(match[c]) /\ k \in Int /\ k + 1 - 1 = k
      BY <1>2, <1>4, <2>2 DEF IsLastStep
    <3>3. Cardinality(match[c][k]) > Cap
      BY <1>4, <2>2, FanoutConstants DEF FanoutConstants
    <3>4. Narrowed(c, k + 1)
      BY <1>2, <3>2, <3>3 DEF Narrowed
    <3> HIDE DEF c, k
    <3> QED
      BY <1>1, <1>2, <1>3, <3>1, <3>2, <3>4, ProbeOnTrack
  <2> QED
    BY <2>1, <2>2
<1>6. CASE PageAnswered(w)
  <2>1. job[w].at = "page"
    BY <1>6 DEF PageAnswered
  <2>2. SettlesOn(c, k) /\ job[w].got = Fetched(match[c][k], p)
    BY <1>1, <2>1 DEF OnTrack
  <2>3. Paginate(w, c, k, p + 1, job[w].got \cup Page(match[c][k], p))
    BY <1>6 DEF PageAnswered
  <2>4. job[w].got \cup Page(match[c][k], p) = Fetched(match[c][k], p + 1)
    BY <1>2, <1>4, <2>2, PagesAddUp
  <2>5. p + 1 \in Nat
    BY <1>2
  <2> HIDE DEF c, k, p
  <2> QED
    BY <1>1, <1>2, <1>3, <2>2, <2>3, <2>4, <2>5, PaginateOnTrack
<1> QED
  BY <1>5, <1>6

LEMMA PickOnTrack ==
    ASSUME TypedJobs, Sharing, OnTrack, Unaided, RefusalShows, NEW w \in Worker, Pick(w)
    PROVE  OnTrack' /\ Unaided' /\ RefusalShows'
<1>1. CASE next <= N
  <2>1. next \in Candidate
    BY <1>1, FanoutConstants DEF FanoutConstants, TypedJobs, TypeOK, Candidate
  <2>2. 1 \in 1..Len(match[next])
    BY <2>1, LadderType DEF TypedJobs
  <2>3. Narrowed(next, 1)
    BY DEF Narrowed
  <2>4. Probe(w, next, 1) /\ match' = match
    BY <1>1 DEF Pick
  <2>5. yield[next] = NotYet
    BY <2>1 DEF Sharing, Unplanned, Candidate
  <2> QED
    BY <2>1, <2>2, <2>3, <2>4, <2>5, ProbeOnTrack
<1>2. CASE ~(next <= N)
  <2>1. /\ job' = [job EXCEPT ![w] = Away("done")]
        /\ UNCHANGED <<match, yield, refused>>
    BY <1>2 DEF Pick
  <2> QED
    BY <2>1, StandStill
<1> QED
  BY <1>1, <1>2

(* What a response rests on: the inductive invariant of this module.       *)
Ordered == OnTrack /\ Unaided /\ RefusalShows

LEMMA InitOrdered == Init => Ordered
<1> SUFFICES ASSUME Init PROVE Ordered
  OBVIOUS
<1>1. OnTrack
  BY DEF Init, OnTrack, Narrowed, Awaits
<1>2. Unaided /\ RefusalShows
  BY DEF Init, Unaided, RefusalShows
<1> QED
  BY <1>1, <1>2 DEF Ordered

LEMMA OrderPreserved ==
    ASSUME TypedJobs, Sharing, Ordered, [Next]_vars
    PROVE  Ordered'
<1> USE DEF Ordered
<1>1. ASSUME NEW w \in Worker, WorkerStep(w) PROVE Ordered'
  <2>1. CASE ProbeAnswered(w) \/ PageAnswered(w)
    BY <2>1, AnswerOnTrack
  <2>2. CASE SearchFails(w)
    BY <2>2, StandStill DEF SearchFails
  <2>3. CASE Pick(w)
    BY <2>3, PickOnTrack
  <2> QED
    BY <1>1, <2>1, <2>2, <2>3 DEF WorkerStep
<1>2. CASE UNCHANGED <<match, job, yield, refused>>
  BY <1>2 DEF OnTrack, Unaided, SettlesOn, Narrowed, IsLastStep, Own,
              SettledResult, Busy, RefusalShows
<1> QED
  BY <1>1, <1>2 DEF Next, Respond, vars

(* Unless the budget ran out, the response is the merge of what upstream   *)
(* holds for each candidate by itself: no order of answers, and no share   *)
(* of the candidates among the workers, shows in it (fanout.service.ts:    *)
(* 75-135, query-planner.ts:44-200).                                       *)
THEOREM OrderDoesNotMatter == Spec => []OrderIndependent
<1>1. TypedJobs /\ Sharing /\ EachCandidateOnce /\ Ordered => OrderIndependent
  <2> SUFFICES ASSUME TypedJobs, Sharing, EachCandidateOnce, Ordered,
                      response.status = "ok", ~refused
               PROVE  response = Expected
    BY DEF OrderIndependent
  <2> DEFINE Docs(c) == Newest(match[c][Settled(match[c])], Cap)
             Broad(c) == Cardinality(match[c][Settled(match[c])]) > Cap
  <2>1. ASSUME NEW c \in Candidate
        PROVE  /\ yield[c].docs = Docs(c)
               /\ yield[c].truncated <=> Broad(c)
               /\ yield[c].partial <=> Broad(c)
    <3>1. PICK k \in 1..Len(match[c]) : SettlesOn(c, k) /\ yield[c] = Own(c, k)
      BY DEF EachCandidateOnce, Ordered, Unaided
    <3>2. Settled(match[c]) = k
      BY <3>1, SettledIs DEF TypedJobs
    <3> DEFINE S == match[c][k]
    <3>3. /\ S \in SUBSET Doc
          /\ Cardinality(S) \in Nat
      BY LadderType DEF TypedJobs
    <3>4. Cardinality(Newest(S, Cap)) = Smaller(Cardinality(S), Cap)
      BY <3>3, NewestCount, FanoutConstants DEF FanoutConstants
    <3>5. Cardinality(Newest(S, Cap)) < Cardinality(S) <=> Cardinality(S) > Cap
      BY <3>3, <3>4, FanoutConstants DEF FanoutConstants, Smaller
    <3>6. /\ Own(c, k).docs = Newest(S, Cap)
          /\ Own(c, k).truncated
               <=> Cardinality(S) > Cap \/ Cardinality(Newest(S, Cap)) < Cardinality(S)
          /\ Own(c, k).partial <=> Cardinality(S) > Cap
      BY DEF Own, SettledResult
    <3> QED
      BY <3>1, <3>2, <3>5, <3>6
  <2>2. UNION {yield[c].docs : c \in Candidate} = UNION {Docs(c) : c \in Candidate}
    BY <2>1
  <2>3. response = Merged
    BY DEF Sharing, Answered
  <2>4. (\E c \in Candidate : yield[c].truncated) <=> \E c \in Candidate : Broad(c)
    BY <2>1
  <2>5. (\E c \in Candidate : yield[c].partial) <=> \E c \in Candidate : Broad(c)
    BY <2>1
  <2> QED
    BY <2>2, <2>3, <2>4, <2>5 DEF Merged, MergeOf, Expected
<1>2. TypedJobs /\ Sharing /\ Ordered /\ [Next]_vars => Sharing' /\ Ordered'
  BY SharingPreserved, OrderPreserved
<1> QED
  BY <1>1, <1>2, InitShares, InitOrdered, CandidatesShared, TypeCorrect, PTL
  DEF Spec, TypedJobs

(* A response that a refused budget had a part in says truncated, wherever *)
(* the refusal struck (query-planner.ts:87 and :176).                      *)
THEOREM BudgetHitShows == Spec => []BudgetHitIsTruncated
<1>1. Sharing /\ Ordered => BudgetHitIsTruncated
  <2> SUFFICES ASSUME Sharing, Ordered, response.status = "ok", refused
               PROVE  response.truncated
    BY DEF BudgetHitIsTruncated
  <2>1. response = Merged
    BY DEF Sharing, Answered
  <2>2. \E c \in Candidate : yield[c].truncated
    BY DEF Ordered, RefusalShows
  <2> QED
    BY <2>1, <2>2 DEF Merged, MergeOf
<1>2. TypedJobs /\ Sharing /\ Ordered /\ [Next]_vars => Sharing' /\ Ordered'
  BY SharingPreserved, OrderPreserved
<1> QED
  BY <1>1, <1>2, InitShares, InitOrdered, TypeCorrect, PTL DEF Spec, TypedJobs

-----------------------------------------------------------------------------
(* One name after the other                                                *)

(* A page is asked for as long as one is missing, and CallsHad is what the *)
(* one worker on a candidate has spent.                                    *)
InPages ==
    \A w \in Worker : job[w].at = "page" =>
        job[w].page < PagesNeeded(match[job[w].cand][job[w].step])
HadIs ==
    /\ CallsHad = [c \in Candidate |-> CallsHad[c]]
    /\ \A w \in Worker : Busy(w) => CallsHad[job[w].cand] = CallsOf(job[w])
    /\ \A c \in Candidate : ~Planned(c) => CallsHad[c] = 0

LEMMA HadIsRight == TypedJobs /\ Sharing => HadIs
<1> SUFFICES ASSUME TypedJobs, Sharing PROVE HadIs
  OBVIOUS
<1>1. ASSUME NEW w \in Worker, Busy(w)
      PROVE  CallsHad[job[w].cand] = CallsOf(job[w])
  <2> DEFINE c == job[w].cand
  <2>1. WorkersOn(c) = {w}
    BY <1>1 DEF WorkersOn, Sharing, JobsApart
  <2>2. (CHOOSE v \in WorkersOn(c) : TRUE) = w /\ WorkersOn(c) # {}
    BY <2>1
  <2>3. c \in Candidate
    BY <1>1 DEF TypedJobs, JobsInRange
  <2> QED
    BY <2>2, <2>3 DEF CallsHad
<1>2. ASSUME NEW c \in Candidate, ~Planned(c) PROVE CallsHad[c] = 0
  <2>1. WorkersOn(c) = {}
    BY <1>2 DEF Planned, WorkersOn
  <2> QED
    BY <2>1 DEF CallsHad
<1>3. CallsHad = [c \in Candidate |-> CallsHad[c]]
  BY DEF CallsHad
<1> QED
  BY <1>1, <1>2, <1>3 DEF HadIs

LEMMA PagesType ==
    ASSUME NEW S \in SUBSET Doc
    PROVE  PagesNeeded(S) \in Nat
<1>1. Cardinality(S) \in Nat
  BY FS_Subset, FS_CardinalityType, FanoutConstants DEF FanoutConstants
<1>2. Smaller(Cardinality(S), Cap) \in Nat
  BY <1>1, FanoutConstants DEF FanoutConstants, Smaller
<1> QED
  BY <1>2, FanoutConstants DEF FanoutConstants, PagesNeeded

(* A ladder has a query to settle on: the last, if every one is too broad. *)
LEMMA SettledExists ==
    ASSUME TypeOK, NEW c \in Candidate
    PROVE  /\ Settled(match[c]) \in 1..Len(match[c])
           /\ SettlesOn(c, Settled(match[c]))
<1> DEFINE n == Len(match[c])
           Fits(k) == Cardinality(match[c][k]) <= Cap \/ IsLastStep(match[c], k)
           Good == {k \in 1..n : Fits(k)}
           above == [k \in Good |-> {j \in Good : j < k}]
           First1 == {k \in Good : Cardinality(above[k]) < 1}
<1>1. /\ n \in Nat \ {0}
      /\ \A k \in 1..n : Cardinality(match[c][k]) \in Nat
  BY LadderType
<1>2. n \in Good /\ Good \in SUBSET (1..n)
  BY <1>1 DEF IsLastStep
<1>3. IsFiniteSet(Good) /\ above \in [Good -> SUBSET Good] /\ Good \subseteq Nat
  <2>1. IsFiniteSet(1..n)
    BY <1>1, FS_Interval
  <2>2. IsFiniteSet(Good)
    BY <1>2, <2>1, FS_Subset
  <2> QED
    BY <1>2, <2>2
<1>4. \A k \in Good : above[k] = {j \in Good : j < k}
  OBVIOUS
<1> HIDE DEF Good, above
<1>5. Cardinality(First1) = Smaller(Cardinality(Good), 1)
  <2>1. \A k \in Good : k \notin above[k]
    BY <1>3, <1>4
  <2>2. ASSUME NEW k \in Good, NEW j \in Good, k < j
        PROVE  above[k] \subseteq above[j] /\ k \in above[j]
    <3>1. \A i \in Good : i < k => i < j
      BY <1>3, <2>2
    <3> QED
      BY <1>4, <2>2, <3>1
  <2>3. ASSUME NEW k \in Good, NEW j \in Good, k # j
        PROVE  \/ above[k] \subseteq above[j] /\ k \in above[j]
               \/ above[j] \subseteq above[k] /\ j \in above[k]
    <3>1. k < j \/ j < k
      BY <1>3, <2>3
    <3> QED
      BY <2>2, <3>1
  <2> QED
    BY <1>3, <2>1, <2>3, RanksCount
<1>6. PICK k \in Good : above[k] = {}
  <2>1. Cardinality(Good) # 0 /\ Cardinality(Good) \in Nat
    BY <1>2, <1>3, FS_EmptySet, FS_CardinalityType
  <2>2. First1 # {}
    BY <1>5, <2>1, FS_EmptySet DEF Smaller
  <2>3. PICK k \in Good : Cardinality(above[k]) < 1
    BY <2>2
  <2>4. above[k] \in SUBSET Good
    BY <1>3
  <2>5. IsFiniteSet(above[k])
    BY <1>3, <2>4, FS_Subset
  <2>6. Cardinality(above[k]) = 0
    BY <2>3, <2>5, FS_CardinalityType
  <2> QED
    BY <2>5, <2>6, FS_EmptySet
<1>7. SettlesOn(c, k) /\ k \in 1..n
  <2>1. k \in 1..n /\ Fits(k)
    BY <1>6 DEF Good
  <2>2. ASSUME NEW j \in 1..(k - 1)
        PROVE  Cardinality(match[c][j]) > Cap
    <3>1. j \in 1..n /\ j < k
      BY <1>1, <2>1
    <3>2. j \notin Good
      BY <1>4, <1>6, <3>1
    <3> QED
      BY <1>1, <3>1, <3>2, FanoutConstants DEF FanoutConstants, Good
  <2> QED
    BY <2>1, <2>2 DEF SettlesOn, Narrowed
<1> QED
  BY <1>7, SettledIs

(* A worker that moves on its candidate, or takes the next one, moves that *)
(* name: it has called once more, or its search has ended.                 *)
At(w, c) == \/ Busy(w) /\ job[w].cand = c /\ next' = next
            \/ job[w].at = "pick" /\ c = next /\ next' = next + 1
Moves(w, c, a) ==
    /\ At(w, c)
    /\ job' = [job EXCEPT ![w] = a]
    /\ a.at \in {"probe", "page"} => a.cand = c

LEMMA MoveMaps ==
    ASSUME TypedJobs, Sharing, HadIs, HadIs', NEW w \in Worker,
           NEW c \in Candidate, NEW a, Moves(w, c, a)
    PROVE  /\ CallsHad[c] = IF Busy(w) THEN CallsOf(job[w]) ELSE 0
           /\ c \notin Ended
           /\ a.at \in {"probe", "page"} =>
                /\ CallsHad' = [CallsHad EXCEPT ![c] = CallsOf(a)]
                /\ Ended' = Ended
           /\ a.at \notin {"probe", "page"} =>
                /\ CallsHad' = [CallsHad EXCEPT ![c] = 0]
                /\ Ended' = Ended \cup {c}
<1>1. job'[w] = a /\ \A v \in Worker \ {w} : job'[v] = job[v]
  BY DEF Moves, At, TypedJobs, TypeOK
<1>2. \A v \in Worker \ {w} : Busy(v) => job[v].cand # c
  BY DEF Moves, At, Sharing, JobsApart, TypedJobs, TypeOK, JobsInRange
<1>3. ASSUME NEW d \in Candidate \ {c}
      PROVE  (Planned(d)' <=> Planned(d)) /\ CallsHad'[d] = CallsHad[d]
  <2>1. Planned(d)' <=> Planned(d)
    BY <1>1, <1>3 DEF Planned, Busy, Moves, At
  <2>2. ASSUME Planned(d) PROVE CallsHad'[d] = CallsHad[d]
    <3>1. PICK v \in Worker : Busy(v) /\ job[v].cand = d
      BY <2>2 DEF Planned
    <3>2. v # w
      BY <3>1, <1>3 DEF Moves, At, Busy
    <3>3. Busy(v)' /\ job'[v] = job[v]
      BY <1>1, <3>1, <3>2 DEF Busy
    <3>4. CallsHad'[d] = CallsOf(job[v])
      BY <3>1, <3>3 DEF HadIs, CallsOf
    <3> QED
      BY <3>1, <3>4 DEF HadIs
  <2>3. ASSUME ~Planned(d) PROVE CallsHad'[d] = CallsHad[d]
    BY <2>1, <2>3 DEF HadIs
  <2> QED
    BY <2>1, <2>2, <2>3
<1>4. /\ Ended = {d \in 1..(next - 1) : ~Planned(d)}
      /\ Ended' = {d \in 1..(next' - 1) : ~Planned(d)'}
  BY DEF Ended, WorkersOn, Planned
<1>5. /\ 1..(next - 1) \subseteq Candidate /\ 1..(next' - 1) \subseteq Candidate
      /\ next \in Nat /\ next' \in Nat /\ N \in Nat
      /\ c \in 1..(next' - 1)
      /\ \A d : d # c => (d \in 1..(next' - 1) <=> d \in 1..(next - 1))
  BY FanoutConstants
  DEF Moves, At, TypedJobs, TypeOK, JobsInRange, Candidate, FanoutConstants
<1>6. CallsHad[c] = (IF Busy(w) THEN CallsOf(job[w]) ELSE 0) /\ c \notin Ended
  <2>1. CASE Busy(w)
    <3>1. job[w].cand = c
      BY <2>1 DEF Moves, At, Busy
    <3> QED
      BY <1>4, <2>1, <3>1 DEF HadIs, Planned
  <2>2. CASE ~Busy(w)
    <3>1. c = next /\ ~Planned(c)
      BY <1>2, <2>2 DEF Moves, At, Planned
    <3> QED
      BY <1>4, <1>5, <2>2, <3>1 DEF HadIs
  <2> QED
    BY <2>1, <2>2
<1>7. ASSUME a.at \in {"probe", "page"}
      PROVE  /\ CallsHad' = [CallsHad EXCEPT ![c] = CallsOf(a)]
             /\ Ended' = Ended
  <2>1. Busy(w)' /\ job'[w].cand = c
    BY <1>1, <1>7 DEF Busy, Moves, At
  <2>2. CallsHad'[c] = CallsOf(a) /\ Planned(c)'
    BY <1>1, <2>1 DEF HadIs, CallsOf, Planned
  <2>3. CallsHad' = [CallsHad EXCEPT ![c] = CallsOf(a)]
    BY <1>3, <2>2 DEF HadIs
  <2>4. Ended' = Ended
    BY <1>3, <1>4, <1>5, <1>6, <2>2
  <2> QED
    BY <2>3, <2>4
<1>8. ASSUME a.at \notin {"probe", "page"}
      PROVE  /\ CallsHad' = [CallsHad EXCEPT ![c] = 0]
             /\ Ended' = Ended \cup {c}
  <2>1. ~Planned(c)'
    BY <1>1, <1>2, <1>8 DEF Busy, Planned
  <2>2. CallsHad'[c] = 0
    BY <2>1 DEF HadIs
  <2>3. CallsHad' = [CallsHad EXCEPT ![c] = 0]
    BY <1>3, <2>2 DEF HadIs
  <2>4. Ended' = Ended \cup {c}
    BY <1>3, <1>4, <1>5, <1>6, <2>1
  <2> QED
    BY <2>3, <2>4
<1> QED
  BY <1>6, <1>7, <1>8

(* A free worker leaves room to search one more name.                      *)
LEMMA RoomForOne ==
    ASSUME TypedJobs, HadIs, NEW w \in Worker, ~Busy(w)
    PROVE  Cardinality({c \in Candidate : CallsHad[c] # 0}) < Concurrency
<1> DEFINE S == {c \in Candidate : CallsHad[c] # 0}
           T == Worker \ {w}
           f == [c \in S |-> CHOOSE v \in T : Busy(v) /\ job[v].cand = c]
<1>1. ASSUME NEW c \in S
      PROVE  f[c] \in T /\ job[f[c]].cand = c
  <2>1. Planned(c)
    BY DEF HadIs
  <2>2. \E v \in T : Busy(v) /\ job[v].cand = c
    BY <2>1 DEF Planned
  <2> QED
    BY <2>2
<1>2. f \in Injection(S, T)
  <2>1. f \in [S -> T]
    BY <1>1
  <2> HIDE DEF S, T, f
  <2>2. \A c, d \in S : f[c] = f[d] => c = d
    BY <1>1
  <2> QED
    BY <2>1, <2>2 DEF Injection, IsInjective
<1>3. IsFiniteSet(Worker) /\ Cardinality(Worker) <= Concurrency
      /\ Cardinality(Worker) \in Nat
  BY WorkerCount, FS_Interval
<1>4. IsFiniteSet(T) /\ Cardinality(T) = Cardinality(Worker) - 1
  BY <1>3, FS_RemoveElement
<1> HIDE DEF S, T, f
<1>5. IsFiniteSet(S) /\ Cardinality(S) <= Cardinality(T)
  BY <1>2, <1>4, FS_Injection
<1>6. Cardinality(S) \in Nat
  BY <1>5, FS_CardinalityType
<1>7. Cardinality(S) < Concurrency
  BY <1>3, <1>4, <1>5, <1>6, FanoutConstants DEF FanoutConstants
<1> QED
  BY <1>7 DEF S

LEMMA CountIsCount ==
    ASSUME NEW S PROVE Searching!Cardinality(S) = Cardinality(S)
  BY DEF Searching!Cardinality, Cardinality

(* A search that is sent is a call of that name, if it needs one.          *)
LEMMA SendCalls ==
    ASSUME TypedJobs, Sharing, HadIs, HadIs', NEW w \in Worker,
           NEW c \in Candidate, NEW a, Moves(w, c, a), SpendAndAwait(w, a),
           a.at \in {"probe", "page"}, CallsOf(a) = CallsHad[c] + 1,
           CallsHad[c] < Need(match[c]), UNCHANGED <<match, response>>
    PROVE  Searching!Call(c)
<1>1. /\ c \notin Ended /\ Ended' = Ended
      /\ CallsHad' = [CallsHad EXCEPT ![c] = CallsHad[c] + 1]
  BY MoveMaps
<1>2. CallsHad[c] = 0 => Searching!Cardinality(Searching!Searched) < Concurrency
  <2> SUFFICES ASSUME CallsHad[c] = 0
               PROVE  Searching!Cardinality(Searching!Searched) < Concurrency
    OBVIOUS
  <2>1. ~Busy(w)
    <3> SUFFICES ASSUME Busy(w) PROVE FALSE
      OBVIOUS
    <3>1. CallsHad[c] = CallsOf(job[w])
      BY MoveMaps
    <3>2. job[w].step \in Nat \ {0} /\ job[w].page \in Nat
      BY LadderType DEF TypedJobs, TypeOK, Jobs, JobsInRange
    <3> QED
      BY <3>1, <3>2 DEF CallsOf
  <2>2. Searching!Searched = {d \in Candidate : CallsHad[d] # 0}
    BY DEF Searching!Searched
  <2> QED
    BY <2>1, <2>2, RoomForOne, CountIsCount
<1>3. left > 0 /\ left' = left - 1 /\ UNCHANGED yield
  BY DEF SpendAndAwait
<1> QED
  BY <1>1, <1>2, <1>3 DEF Searching!Call

(* A result that is returned ends the search of that name.                 *)
LEMMA ReturnFinishes ==
    ASSUME TypedJobs, Sharing, HadIs, HadIs', NEW w \in Worker,
           NEW c \in Candidate, Moves(w, c, Away("pick")),
           Return(w, c, After(match[c], CallsHad[c])),
           left = 0 \/ CallsHad[c] = Need(match[c]),
           UNCHANGED <<match, left, response>>
    PROVE  Searching!Finish(c)
<1>1. Away("pick").at \notin {"probe", "page"}
  BY DEF Away
<1>2. /\ c \notin Ended /\ Ended' = Ended \cup {c}
      /\ CallsHad' = [CallsHad EXCEPT ![c] = 0]
  BY <1>1, MoveMaps
<1> QED
  BY <1>2 DEF Return, Searching!Finish, Searching!Ends

(* The calls a ladder needs, from the query a planner settles on.          *)
LEMMA NeedIs ==
    ASSUME TypeOK, NEW c \in Candidate
    PROVE  /\ \A k \in 1..Len(match[c]) : SettlesOn(c, k) =>
                Need(match[c]) = k + PagesNeeded(match[c][k])
           /\ \A k \in 1..Len(match[c]) : Narrowed(c, k) =>
                k <= Settled(match[c]) /\ k - 1 < Need(match[c])
<1>1. /\ Settled(match[c]) \in 1..Len(match[c])
      /\ SettlesOn(c, Settled(match[c]))
  BY SettledExists
<1>2. /\ Len(match[c]) \in Nat
      /\ \A k \in 1..Len(match[c]) : /\ PagesNeeded(match[c][k]) \in Nat
                                     /\ Cardinality(match[c][k]) \in Nat
  BY LadderType, PagesType
<1>3. ASSUME NEW k \in 1..Len(match[c]), SettlesOn(c, k)
      PROVE  Need(match[c]) = k + PagesNeeded(match[c][k])
  BY <1>3, SettledIs DEF Need
<1>4. ASSUME NEW k \in 1..Len(match[c]), Narrowed(c, k)
      PROVE  k <= Settled(match[c])
  <2> SUFFICES ASSUME Settled(match[c]) < k PROVE FALSE
    BY <1>1, <1>2
  <2>1. Settled(match[c]) \in 1..(k - 1)
    BY <1>1, <1>2
  <2>2. ~(Cardinality(match[c][Settled(match[c])]) <= Cap)
    BY <1>1, <1>2, <1>4, <2>1, FanoutConstants DEF Narrowed, FanoutConstants
  <2>3. Settled(match[c]) = Len(match[c])
    BY <1>1, <2>2 DEF SettlesOn, IsLastStep
  <2> QED
    BY <1>2, <2>1, <2>3
<1>5. Need(match[c]) = Settled(match[c]) + PagesNeeded(match[c][Settled(match[c])])
  BY DEF Need
<1> QED
  BY <1>1, <1>2, <1>3, <1>4, <1>5

LEMMA ProbeSearches ==
    ASSUME TypedJobs, Sharing, HadIs, HadIs', NEW w \in Worker,
           NEW c \in Candidate, NEW k \in 1..Len(match[c]), At(w, c),
           Narrowed(c, k), CallsHad[c] = k - 1, Probe(w, c, k),
           UNCHANGED <<match, response>>
    PROVE  Searching!Call(c) \/ Searching!Finish(c)
<1>1. /\ k \in Nat /\ k <= Settled(match[c]) /\ k - 1 < Need(match[c])
      /\ Settled(match[c]) \in Nat
  BY LadderType, NeedIs, SettledExists DEF TypedJobs
<1>2. CASE SpendAndAwait(w, Awaits("probe", c, k, 0, {}))
  <2> DEFINE a == Awaits("probe", c, k, 0, {})
  <2>1. a.at = "probe" /\ a.cand = c /\ CallsOf(a) = k
    BY <1>1 DEF Awaits, CallsOf
  <2> HIDE DEF a
  <2>2. Moves(w, c, a) /\ SpendAndAwait(w, a)
    BY <1>2, <2>1 DEF SpendAndAwait, Moves, At, a
  <2>3. CallsOf(a) = CallsHad[c] + 1 /\ CallsHad[c] < Need(match[c])
    BY <1>1, <2>1
  <2> QED
    BY <2>1, <2>2, <2>3, SendCalls
<1>3. CASE RefuseAndReturn(w, c, BudgetExhaustedResult(k))
  <2>1. After(match[c], CallsHad[c]) = BudgetExhaustedResult(k)
    BY <1>1 DEF After
  <2>2. Return(w, c, After(match[c], CallsHad[c])) /\ left = 0
        /\ UNCHANGED left
    BY <1>3, <2>1 DEF RefuseAndReturn
  <2>3. Moves(w, c, Away("pick"))
    BY <2>2 DEF Return, Moves, At, Away
  <2> QED
    BY <2>2, <2>3, ReturnFinishes
<1> QED
  BY <1>2, <1>3 DEF Probe

LEMMA PaginateSearches ==
    ASSUME TypedJobs, Sharing, HadIs, HadIs', NEW w \in Worker,
           NEW c \in Candidate, NEW k \in 1..Len(match[c]), At(w, c),
           NEW p \in Nat, SettlesOn(c, k), CallsHad[c] = k + p,
           p <= PagesNeeded(match[c][k]),
           Paginate(w, c, k, p, Fetched(match[c][k], p)),
           UNCHANGED <<match, response>>
    PROVE  Searching!Call(c) \/ Searching!Finish(c)
<1> DEFINE S == match[c][k]
           got == Fetched(S, p)
<1>1. /\ k \in Nat /\ Need(match[c]) = k + PagesNeeded(S)
      /\ PagesNeeded(S) \in Nat /\ Settled(match[c]) = k
  BY LadderType, NeedIs, PagesType, SettledIs DEF TypedJobs
<1>2. After(match[c], CallsHad[c]) = SettledResult(S, k, got)
  <2>1. ~(k + p < k) /\ k + p - k = p
    BY <1>1
  <2> QED
    BY <1>1, <2>1 DEF After, Fetched
<1>3. ASSUME Return(w, c, SettledResult(S, k, got)), left' = left,
             left = 0 \/ ~(p < PagesNeeded(S))
      PROVE  Searching!Finish(c)
  <2>1. Moves(w, c, Away("pick"))
    BY <1>3 DEF Return, Moves, At, Away
  <2>2. Return(w, c, After(match[c], CallsHad[c]))
    BY <1>2, <1>3
  <2>3. left = 0 \/ CallsHad[c] = Need(match[c])
    BY <1>1, <1>3
  <2> QED
    BY <1>3, <2>1, <2>2, <2>3, ReturnFinishes
<1>4. CASE p < PagesNeeded(S) /\ SpendAndAwait(w, Awaits("page", c, k, p, got))
  <2> HIDE DEF got
  <2> DEFINE a == Awaits("page", c, k, p, got)
  <2>1. a.at = "page" /\ a.cand = c /\ CallsOf(a) = k + p + 1
    BY <1>1 DEF Awaits, CallsOf
  <2> HIDE DEF a
  <2>2. Moves(w, c, a) /\ SpendAndAwait(w, a)
    BY <1>4, <2>1 DEF SpendAndAwait, Moves, At, a
  <2>3. CallsOf(a) = CallsHad[c] + 1 /\ CallsHad[c] < Need(match[c])
    BY <1>1, <1>4, <2>1
  <2> QED
    BY <2>1, <2>2, <2>3, SendCalls
<1>5. CASE RefuseAndReturn(w, c, SettledResult(S, k, got))
  BY <1>3, <1>5 DEF RefuseAndReturn
<1>6. CASE /\ ~(p < PagesNeeded(S))
           /\ Return(w, c, SettledResult(S, k, got))
           /\ UNCHANGED <<left, refused, http>>
  BY <1>3, <1>6
<1> QED
  BY <1>4, <1>5, <1>6 DEF Paginate

LEMMA PagesPreserved ==
    ASSUME TypedJobs, InPages, [Next]_vars
    PROVE  InPages'
<1>1. ASSUME NEW w \in Worker, NEW a, job' = [job EXCEPT ![w] = a],
             a.at = "page" => a.page < PagesNeeded(match[a.cand][a.step]),
             match' = match
      PROVE  InPages'
  <2>1. job'[w] = a /\ \A v \in Worker \ {w} : job'[v] = job[v]
    BY <1>1 DEF TypedJobs, TypeOK
  <2> QED
    BY <1>1, <2>1 DEF InPages, PagesNeeded, Smaller
<1>2. \A at \in {"pick", "done", "threw"} : Away(at).at # "page"
  BY DEF Away
<1>3. ASSUME NEW w \in Worker, NEW c, NEW k, Probe(w, c, k), match' = match
      PROVE  InPages'
  <2>1. Awaits("probe", c, k, 0, {}).at # "page"
    BY DEF Awaits
  <2> QED
    BY <1>1, <1>2, <1>3, <2>1
    DEF Probe, SpendAndAwait, RefuseAndReturn, Return
<1>4. ASSUME NEW w \in Worker, NEW c, NEW k, NEW p, NEW got,
             Paginate(w, c, k, p, got), match' = match
      PROVE  InPages'
  <2>1. CASE /\ p < PagesNeeded(match[c][k])
             /\ SpendAndAwait(w, Awaits("page", c, k, p, got))
    <3> DEFINE a == Awaits("page", c, k, p, got)
    <3>1. a.page = p /\ a.cand = c /\ a.step = k
      BY DEF Awaits
    <3> HIDE DEF a
    <3>2. job' = [job EXCEPT ![w] = a]
      BY <2>1 DEF SpendAndAwait, a
    <3> QED
      BY <1>1, <1>4, <2>1, <3>1, <3>2
  <2>2. CASE job' = [job EXCEPT ![w] = Away("pick")]
    BY <1>1, <1>2, <1>4, <2>2
  <2> QED
    BY <1>4, <2>1, <2>2 DEF Paginate, RefuseAndReturn, Return
<1>5. ASSUME NEW w \in Worker, WorkerStep(w) PROVE InPages'
  <2>1. CASE ProbeAnswered(w)
    BY <1>3, <1>4, <2>1 DEF ProbeAnswered
  <2>2. CASE PageAnswered(w)
    BY <1>4, <2>2 DEF PageAnswered
  <2>3. CASE SearchFails(w)
    BY <1>1, <1>2, <2>3 DEF SearchFails
  <2>4. CASE Pick(w)
    BY <1>1, <1>2, <1>3, <2>4 DEF Pick
  <2> QED
    BY <1>5, <2>1, <2>2, <2>3, <2>4 DEF WorkerStep
<1>6. CASE UNCHANGED <<match, job>>
  BY <1>6 DEF InPages, PagesNeeded, Smaller
<1> QED
  BY <1>5, <1>6 DEF Next, Respond, vars

(* The invariant of the refinement.                                        *)
Serial == TypedJobs /\ Sharing /\ Ordered /\ EachCandidateOnce /\ InPages

LEMMA AnswerSearches ==
    ASSUME Serial, HadIs, HadIs', NEW w \in Worker,
           ProbeAnswered(w) \/ PageAnswered(w)
    PROVE  Searching!Call(job[w].cand) \/ Searching!Finish(job[w].cand)
<1> DEFINE c == job[w].cand
           k == job[w].step
           p == job[w].page
<1> USE DEF Serial
<1> SUFFICES Searching!Call(c) \/ Searching!Finish(c)
  OBVIOUS
<1>1. Busy(w) /\ UNCHANGED <<match, next, response>>
  BY DEF ProbeAnswered, PageAnswered, Busy
<1>2. /\ c \in Candidate /\ k \in 1..Len(match[c]) /\ Narrowed(c, k)
      /\ p \in Nat /\ At(w, c) /\ CallsHad[c] = CallsOf(job[w])
  BY <1>1 DEF TypedJobs, TypeOK, Jobs, JobsInRange, Ordered, OnTrack, At, HadIs
<1>3. /\ Len(match[c]) \in Nat /\ match[c][k] \in SUBSET Doc /\ k \in Nat
      /\ Cardinality(match[c][k]) \in Nat /\ PagesNeeded(match[c][k]) \in Nat
  BY <1>2, LadderType, PagesType DEF TypedJobs
<1>4. CASE ProbeAnswered(w)
  <2>1. CallsHad[c] = k
    BY <1>2, <1>3, <1>4 DEF CallsOf, ProbeAnswered
  <2>2. CASE Cardinality(match[c][k]) <= Cap \/ IsLastStep(match[c], k)
    <3>1. SettlesOn(c, k)
      BY <1>2, <2>2 DEF SettlesOn
    <3>2. Paginate(w, c, k, 0, {}) /\ {} = Fetched(match[c][k], 0)
      BY <1>3, <1>4, <2>2, NoPageFirst DEF ProbeAnswered
    <3>3. CallsHad[c] = k + 0 /\ 0 <= PagesNeeded(match[c][k])
      BY <1>3, <2>1
    <3> HIDE DEF c, k
    <3> QED
      BY <1>1, <1>2, <3>1, <3>2, <3>3, PaginateSearches
  <2>3. CASE ~(Cardinality(match[c][k]) <= Cap \/ IsLastStep(match[c], k))
    <3>1. Probe(w, c, k + 1)
      BY <1>4, <2>3 DEF ProbeAnswered
    <3>2. k + 1 \in 1..Len(match[c]) /\ k + 1 - 1 = k
      BY <1>2, <1>3, <2>3 DEF IsLastStep
    <3>3. Cardinality(match[c][k]) > Cap
      BY <1>3, <2>3, FanoutConstants DEF FanoutConstants
    <3>4. Narrowed(c, k + 1)
      BY <1>2, <3>2, <3>3 DEF Narrowed
    <3> HIDE DEF c, k
    <3> QED
      BY <1>1, <1>2, <2>1, <3>1, <3>2, <3>4, ProbeSearches
  <2> QED
    BY <2>2, <2>3
<1>5. CASE PageAnswered(w)
  <2>1. job[w].at = "page"
    BY <1>5 DEF PageAnswered
  <2>2. /\ SettlesOn(c, k) /\ job[w].got = Fetched(match[c][k], p)
        /\ p < PagesNeeded(match[c][k])
    BY <1>1, <2>1 DEF Ordered, OnTrack, InPages
  <2>3. CallsHad[c] = k + (p + 1)
    BY <1>2, <1>3, <2>1 DEF CallsOf
  <2>4. Paginate(w, c, k, p + 1, Fetched(match[c][k], p + 1))
    BY <1>2, <1>3, <1>5, <2>2, PagesAddUp DEF PageAnswered
  <2>5. p + 1 \in Nat /\ p + 1 <= PagesNeeded(match[c][k])
    BY <1>2, <1>3, <2>2
  <2> HIDE DEF c, k, p
  <2> QED
    BY <1>1, <1>2, <2>2, <2>3, <2>4, <2>5, PaginateSearches
<1> QED
  BY <1>4, <1>5

(* A free worker takes the next name up, or changes nothing that shows.    *)
LEMMA PickSearches ==
    ASSUME Serial, HadIs, HadIs', NEW w \in Worker, Pick(w)
    PROVE  \/ \E c \in Candidate : Searching!Call(c) \/ Searching!Finish(c)
           \/ UNCHANGED Searching!vars
<1> USE DEF Serial
<1>1. CASE next <= N
  <2>1. next \in Candidate
    BY <1>1, FanoutConstants DEF FanoutConstants, TypedJobs, TypeOK, Candidate
  <2>2. 1 \in 1..Len(match[next]) /\ Narrowed(next, 1)
    BY <2>1, LadderType DEF TypedJobs, Narrowed
  <2>3. Probe(w, next, 1) /\ At(w, next) /\ UNCHANGED <<match, response>>
    BY <1>1 DEF Pick, At
  <2>4. CallsHad[next] = 1 - 1
    BY <2>1 DEF HadIs, Planned, TypedJobs, TypeOK, JobsInRange
  <2> QED
    BY <2>1, <2>2, <2>3, <2>4, ProbeSearches
<1>2. CASE ~(next <= N)
  <2>1. /\ job[w].at = "pick" /\ job' = [job EXCEPT ![w] = Away("done")]
        /\ UNCHANGED <<match, next, yield, left, response>>
    BY <1>2 DEF Pick
  <2>2. /\ ~Busy(w) /\ ~Busy(w)'
        /\ \A v \in Worker \ {w} : job'[v] = job[v]
    BY <2>1 DEF TypedJobs, TypeOK, Busy, Away
  <2>3. \A c : Planned(c)' <=> Planned(c)
    BY <2>2 DEF Planned, Busy
  <2>4. ASSUME NEW c \in Candidate PROVE CallsHad'[c] = CallsHad[c]
    <3>1. CASE Planned(c)
      <4>1. PICK v \in Worker : Busy(v) /\ job[v].cand = c
        BY <3>1 DEF Planned
      <4>2. Busy(v)' /\ job'[v] = job[v]
        BY <2>2, <4>1 DEF Busy
      <4> QED
        BY <4>1, <4>2 DEF HadIs, CallsOf
    <3>2. CASE ~Planned(c)
      BY <2>3, <3>2 DEF HadIs
    <3> QED
      BY <3>1, <3>2
  <2>5. CallsHad' = CallsHad
    BY <2>4 DEF HadIs
  <2>6. Ended = {c \in 1..(next - 1) : ~Planned(c)}
        /\ Ended' = {c \in 1..(next' - 1) : ~Planned(c)'}
    BY DEF Ended, WorkersOn, Planned
  <2>7. Ended' = Ended
    BY <2>1, <2>3, <2>6
  <2> QED
    BY <2>1, <2>5, <2>7 DEF Searching!vars
<1> QED
  BY <1>1, <1>2

LEMMA FailureSearches ==
    ASSUME Serial, HadIs, HadIs', NEW w \in Worker, SearchFails(w)
    PROVE  Searching!Fail(job[w].cand)
<1> DEFINE c == job[w].cand
<1> USE DEF Serial
<1>1. Busy(w) /\ job' = [job EXCEPT ![w] = Away("threw")]
      /\ UNCHANGED <<match, next, yield, left>>
  BY DEF SearchFails, Busy
<1>2. c \in Candidate /\ job[w].step \in Nat \ {0} /\ job[w].page \in Nat
  BY <1>1, LadderType DEF TypedJobs, TypeOK, Jobs, JobsInRange
<1>3. Moves(w, c, Away("threw")) /\ Away("threw").at \notin {"probe", "page"}
  BY <1>1 DEF Moves, At, Away
<1>4. /\ c \notin Ended /\ Ended' = Ended \cup {c}
      /\ CallsHad' = [CallsHad EXCEPT ![c] = 0]
      /\ CallsHad[c] = CallsOf(job[w])
  BY <1>1, <1>2, <1>3, MoveMaps
<1>5. CallsHad[c] # 0
  BY <1>2, <1>4 DEF CallsOf
<1>6. IF response = Pending
      THEN response' \in {[Pending EXCEPT !.status = code] : code \in Errors}
      ELSE UNCHANGED response
  BY DEF SearchFails
<1> QED
  BY <1>1, <1>4, <1>5, <1>6 DEF Searching!Fail, Searching!Ends

LEMMA RespondAnswers ==
    ASSUME Serial, EachCandidateOnce', Respond
    PROVE  Searching!Answer
<1>1. /\ response = Pending /\ response' = MergeOf(yield)
      /\ UNCHANGED <<match, next, job, yield, left>>
  BY DEF Respond, Merged
<1>2. \A c \in Candidate : yield[c] # NotYet
  <2>1. response'.status = "ok"
    BY <1>1 DEF MergeOf
  <2> QED
    BY <1>1, <2>1 DEF EachCandidateOnce, NotYet
<1>3. Ended' = Ended /\ CallsHad' = CallsHad
  BY <1>1 DEF Ended, CallsHad, CallsOf, WorkersOn, Busy
<1> QED
  BY <1>1, <1>2, <1>3 DEF Searching!Answer

LEMMA InitSearches ==
    ASSUME Init, TypedJobs, Sharing, HadIs
    PROVE  Searching!Init
<1> DEFINE m == Cardinality(Worker)
<1>1. m \in 1..N /\ m <= Concurrency /\ Worker = 1..m /\ Worker \subseteq Candidate
  BY WorkerCount, FanoutConstants DEF Candidate, FanoutConstants
<1>2. \A w \in Worker : Busy(w) /\ job[w].cand = w /\ CallsOf(job[w]) = 1
  BY DEF Init, Busy, Awaits, CallsOf
<1>3. ASSUME NEW c \in Candidate
      PROVE  CallsHad[c] = IF c \in Worker THEN 1 ELSE 0
  <2>1. CASE c \in Worker
    BY <1>2, <2>1 DEF HadIs
  <2>2. CASE c \notin Worker
    <3>1. ~Planned(c)
      BY <1>2, <2>2 DEF Planned
    <3> QED
      BY <2>2, <3>1 DEF HadIs
  <2> QED
    BY <2>1, <2>2
<1>4. CallsHad = [c \in Candidate |-> IF c \in Worker THEN 1 ELSE 0]
  BY <1>3 DEF HadIs
<1>5. Ended = {}
  <2>1. next - 1 = m
    BY <1>1 DEF Init
  <2>2. \A c \in Worker : WorkersOn(c) # {}
    BY <1>2 DEF WorkersOn
  <2> QED
    BY <1>1, <2>1, <2>2 DEF Ended
<1>6. /\ left = Budget - Searching!Cardinality(Worker)
      /\ Searching!Cardinality(Worker) <= Concurrency
  BY <1>1, CountIsCount DEF Init
<1>7. yield = [c \in Candidate |-> NotYet] /\ response = Pending
  BY DEF Init
<1> QED
  BY <1>1, <1>4, <1>5, <1>6, <1>7 DEF Searching!Init

(* The workers of a request do what each of its names would by itself with *)
(* the calls it gets from the shared budget (fanout.service.ts:29-46 and   *)
(* 83-142, query-planner.ts:20-200).                                       *)
THEOREM RefinesBudgetedSearch == Spec => IsBudgetedSearch
<1>1. Init /\ Serial /\ HadIs => Searching!Init
  BY InitSearches DEF Serial
<1>2. Serial /\ Serial' /\ HadIs /\ HadIs' /\ [Next]_vars
        => [Searching!Next]_(Searching!vars)
  <2> SUFFICES ASSUME Serial, Serial', HadIs, HadIs', [Next]_vars
               PROVE  [Searching!Next]_(Searching!vars)
    OBVIOUS
  <2>1. ASSUME NEW w \in Worker, WorkerStep(w)
        PROVE  [Searching!Next]_(Searching!vars)
    <3>1. CASE ProbeAnswered(w) \/ PageAnswered(w)
      <4>1. job[w].cand \in Candidate
        BY <3>1 DEF Serial, TypedJobs, JobsInRange, Busy, ProbeAnswered, PageAnswered
      <4> QED
        BY <3>1, <4>1, AnswerSearches DEF Searching!Next
    <3>2. CASE SearchFails(w)
      <4>1. job[w].cand \in Candidate
        BY <3>2 DEF Serial, TypedJobs, JobsInRange, Busy, SearchFails
      <4> QED
        BY <3>2, <4>1, FailureSearches DEF Searching!Next
    <3>3. CASE Pick(w)
      BY <3>3, PickSearches DEF Searching!Next
    <3> QED
      BY <2>1, <3>1, <3>2, <3>3 DEF WorkerStep
  <2>2. CASE Respond
    BY <2>2, RespondAnswers DEF Serial, Searching!Next
  <2>3. CASE UNCHANGED vars
    BY <2>3 DEF vars, Searching!vars, Ended, CallsHad, CallsOf, WorkersOn, Busy
  <2> QED
    BY <2>1, <2>2, <2>3 DEF Next
<1>3. Init => InPages
  BY DEF Init, InPages, Awaits
<1>4. TypedJobs /\ InPages /\ [Next]_vars => InPages'
  BY PagesPreserved
<1>5. TypedJobs /\ Sharing /\ Ordered /\ [Next]_vars => Sharing' /\ Ordered'
  BY SharingPreserved, OrderPreserved
<1>6. Serial => HadIs
  BY HadIsRight DEF Serial
<1>7. Spec => []Serial
  BY <1>3, <1>4, <1>5, InitShares, InitOrdered, CandidatesShared, TypeCorrect, PTL
  DEF Spec, Serial, TypedJobs
<1> QED
  BY <1>1, <1>2, <1>6, <1>7, PTL DEF Spec, IsBudgetedSearch, Searching!Spec

-----------------------------------------------------------------------------
(* An end to the work                                                      *)

(* What a job counts for: it searches, or it is about to pick a name.      *)
Runs(j)  == IF j.at \in {"probe", "page"} THEN 1 ELSE 0
Picks(j) == IF j.at = "pick" THEN 1 ELSE 0

LEMMA CountMove ==
    ASSUME TypedJobs, NEW w \in Worker, NEW a, job' = [job EXCEPT ![w] = a]
    PROVE  /\ Cardinality(Searches) \in Nat /\ Cardinality(Searches)' \in Nat
           /\ Cardinality(Idle) \in Nat /\ Cardinality(Idle)' \in Nat
           /\ Cardinality(Searches)' + Runs(job[w])
                = Cardinality(Searches) + Runs(a)
           /\ Cardinality(Idle)' + Picks(job[w]) = Cardinality(Idle) + Picks(a)
<1>1. job'[w] = a /\ \A v \in Worker \ {w} : job'[v] = job[v]
  BY DEF TypedJobs, TypeOK
<1>2. IsFiniteSet(Worker)
  BY WorkerCount, FS_Interval
<1>3. IsFiniteSet(Searches) /\ IsFiniteSet(Idle)
  <2>1. Searches \in SUBSET Worker /\ Idle \in SUBSET Worker
    BY DEF Searches, Idle
  <2> QED
    BY <1>2, <2>1, FS_Subset
<1>4. Cardinality(Searches) \in Nat /\ Cardinality(Idle) \in Nat
  BY <1>3, FS_CardinalityType
<1>5. ASSUME NEW S, NEW T, IsFiniteSet(S),
             NEW x, T = S \cup {x} \/ T = S \ {x}
      PROVE  /\ Cardinality(T) \in Nat
             /\ Cardinality(T) + (IF x \in S THEN 1 ELSE 0)
                  = Cardinality(S) + (IF x \in T THEN 1 ELSE 0)
  <2>1. Cardinality(S) \in Nat
    BY <1>5, FS_CardinalityType
  <2>2. CASE T = S \cup {x}
    <3>1. x \in T
      BY <2>2
    <3>2. Cardinality(T)
            = IF x \in S THEN Cardinality(S) ELSE Cardinality(S) + 1
      BY <1>5, <2>2, FS_AddElement
    <3> QED
      BY <2>1, <3>1, <3>2
  <2>3. CASE T = S \ {x}
    <3>1. x \notin T /\ IsFiniteSet(T)
      BY <1>5, <2>3, FS_RemoveElement
    <3>2. Cardinality(T)
            = IF x \in S THEN Cardinality(S) - 1 ELSE Cardinality(S)
      BY <1>5, <2>3, FS_RemoveElement
    <3>3. Cardinality(T) \in Nat
      BY <3>1, FS_CardinalityType
    <3> QED
      BY <2>1, <3>1, <3>2, <3>3
  <2> QED
    BY <1>5, <2>2, <2>3
<1>6. /\ Runs(job[w]) = IF w \in Searches THEN 1 ELSE 0
      /\ Runs(a) = IF w \in Searches' THEN 1 ELSE 0
      /\ Searches' = Searches \cup {w} \/ Searches' = Searches \ {w}
  BY <1>1 DEF Searches, Busy, Runs
<1>7. /\ Picks(job[w]) = IF w \in Idle THEN 1 ELSE 0
      /\ Picks(a) = IF w \in Idle' THEN 1 ELSE 0
      /\ Idle' = Idle \cup {w} \/ Idle' = Idle \ {w}
  BY <1>1 DEF Idle, Picks
<1>8. /\ Cardinality(Searches') \in Nat
      /\ Cardinality(Searches') + (IF w \in Searches THEN 1 ELSE 0)
           = Cardinality(Searches) + (IF w \in Searches' THEN 1 ELSE 0)
  BY <1>3, <1>5, <1>6
<1>9. /\ Cardinality(Idle') \in Nat
      /\ Cardinality(Idle') + (IF w \in Idle THEN 1 ELSE 0)
           = Cardinality(Idle) + (IF w \in Idle' THEN 1 ELSE 0)
  BY <1>3, <1>5, <1>7
<1> QED
  BY <1>4, <1>6, <1>7, <1>8, <1>9

(* A move leaves less to do that spends a call, or after which the worker  *)
(* counts for less than before.                                            *)
LEMMA MoveWorks ==
    ASSUME TypedJobs, NEW w \in Worker, NEW a, job' = [job EXCEPT ![w] = a],
           left' \in Nat, next' \in Nat,
           (response = Pending)' => response = Pending,
           3 * left' + 2 * Runs(a) + Picks(a) - 2 * next'
             < 3 * left + 2 * Runs(job[w]) + Picks(job[w]) - 2 * next
    PROVE  WorkLeft' < WorkLeft
<1> DEFINE r0 == IF response = Pending THEN 1 ELSE 0
           r1 == IF (response = Pending)' THEN 1 ELSE 0
<1>1. left \in Nat /\ next \in Nat /\ N \in Nat
  BY FanoutConstants DEF FanoutConstants, TypedJobs, TypeOK
<1>2. /\ Runs(a) \in Nat /\ Runs(job[w]) \in Nat
      /\ Picks(a) \in Nat /\ Picks(job[w]) \in Nat
  BY DEF Runs, Picks
<1>3. r0 \in {0, 1} /\ r1 \in {0, 1} /\ r1 <= r0
  OBVIOUS
<1>4. WorkLeft = 3 * left + 2 * (N + 1 - next) + 2 * Cardinality(Searches)
                   + Cardinality(Idle) + r0
  BY DEF WorkLeft
<1>5. WorkLeft' = 3 * left' + 2 * (N + 1 - next') + 2 * Cardinality(Searches)'
                    + Cardinality(Idle)' + r1
  BY DEF WorkLeft
<1>6. /\ Cardinality(Searches) \in Nat /\ Cardinality(Searches)' \in Nat
      /\ Cardinality(Idle) \in Nat /\ Cardinality(Idle)' \in Nat
      /\ Cardinality(Searches)' + Runs(job[w]) = Cardinality(Searches) + Runs(a)
      /\ Cardinality(Idle)' + Picks(job[w]) = Cardinality(Idle) + Picks(a)
  BY CountMove
<1> HIDE DEF r0, r1
<1> QED
  BY <1>1, <1>2, <1>3, <1>4, <1>5, <1>6

(* What the jobs count for between which the workers move.                 *)
LEMMA JobCounts ==
    ASSUME NEW j
    PROVE  /\ j.at \in {"probe", "page"} => Runs(j) = 1 /\ Picks(j) = 0
           /\ j.at = "pick" => Runs(j) = 0 /\ Picks(j) = 1
           /\ j.at \in {"done", "threw"} => Runs(j) = 0 /\ Picks(j) = 0
  BY DEF Runs, Picks

(* Advancing a candidate spends a call or ends the search of a name.       *)
LEMMA AdvanceWorks ==
    ASSUME TypedJobs, NEW w \in Worker, NEW c \in Candidate, Advances(w, c),
           response' = response, next' \in Nat,
           \/ Busy(w) /\ next' = next
           \/ job[w].at = "pick" /\ next' = next + 1
    PROVE  WorkLeft' < WorkLeft
<1>1. left \in Nat /\ next \in Nat
  BY DEF TypedJobs, TypeOK
<1>2. (response = Pending)' => response = Pending
  BY DEF Pending
<1>3. \/ Runs(job[w]) = 1 /\ Picks(job[w]) = 0 /\ next' = next
      \/ Runs(job[w]) = 0 /\ Picks(job[w]) = 1 /\ next' = next + 1
  BY JobCounts DEF Busy
<1>4. CASE Sends(w, c)
  <2>1. PICK a \in Jobs : /\ job' = [job EXCEPT ![w] = a]
                          /\ a.at \in {"probe", "page"}
    BY <1>4, SendsEffect DEF TypedJobs
  <2>2. left > 0 /\ left' = left - 1
    BY <1>4, SendsEffect DEF TypedJobs
  <2>3. Runs(a) = 1 /\ Picks(a) = 0 /\ left' \in Nat
    BY <1>1, <2>1, <2>2, JobCounts
  <2>4. 3 * left' + 2 * Runs(a) + Picks(a) - 2 * next'
          < 3 * left + 2 * Runs(job[w]) + Picks(job[w]) - 2 * next
    BY <1>1, <1>3, <2>2, <2>3
  <2> QED
    BY <1>2, <2>1, <2>3, <2>4, MoveWorks
<1>5. CASE Returns(w, c)
  <2>1. PICK a \in Jobs : job' = [job EXCEPT ![w] = a] /\ a.at = "pick"
    BY <1>5, ReturnsEffect DEF TypedJobs
  <2>2. left' = left
    BY <1>5, ReturnsEffect DEF TypedJobs
  <2>3. Runs(a) = 0 /\ Picks(a) = 1
    BY <2>1, JobCounts
  <2>4. 3 * left' + 2 * Runs(a) + Picks(a) - 2 * next'
          < 3 * left + 2 * Runs(job[w]) + Picks(job[w]) - 2 * next
    BY <1>1, <1>3, <2>2, <2>3
  <2> QED
    BY <1>1, <1>2, <2>1, <2>2, <2>4, MoveWorks
<1> QED
  BY <1>4, <1>5 DEF Advances

(* A worker that stops, done or after an error, counts for nothing.        *)
LEMMA StopWorks ==
    ASSUME TypedJobs, NEW w \in Worker, Busy(w) \/ job[w].at = "pick",
           NEW at \in {"done", "threw"}, job' = [job EXCEPT ![w] = Away(at)],
           (response = Pending)' => response = Pending,
           UNCHANGED <<next, left>>
    PROVE  WorkLeft' < WorkLeft
<1>1. left \in Nat /\ next \in Nat
  BY DEF TypedJobs, TypeOK
<1>2. Away(at).at = at
  BY DEF Away
<1>3. Runs(Away(at)) = 0 /\ Picks(Away(at)) = 0
  BY <1>2, JobCounts
<1>4. \/ Runs(job[w]) = 1 /\ Picks(job[w]) = 0
      \/ Runs(job[w]) = 0 /\ Picks(job[w]) = 1
  BY JobCounts DEF Busy
<1>5. 3 * left' + 2 * Runs(Away(at)) + Picks(Away(at)) - 2 * next'
        < 3 * left + 2 * Runs(job[w]) + Picks(job[w]) - 2 * next
  BY <1>1, <1>3, <1>4
<1> QED
  BY <1>1, <1>5, MoveWorks

(* Every answer, also of a search nobody awaits, leaves less to do: what   *)
(* RequestSettles needs besides fairness (fanout.service.ts:38,            *)
(* query-planner.ts:75 and :172).                                          *)
THEOREM EveryStepWorks == Spec => WorkRunsOut
<1>1. TypedJobs /\ [Next]_vars => [WorkLeft' < WorkLeft]_vars
  <2> SUFFICES ASSUME TypedJobs, [Next]_vars, ~UNCHANGED vars
               PROVE  WorkLeft' < WorkLeft
    OBVIOUS
  <2>1. left \in Nat /\ next \in Nat /\ N \in Nat
    BY FanoutConstants DEF FanoutConstants, TypedJobs, TypeOK
  <2>2. ASSUME NEW w \in Worker, WorkerMoves(w) PROVE WorkLeft' < WorkLeft
    <3>1. CASE /\ Busy(w) /\ Advances(w, job[w].cand)
               /\ UNCHANGED <<match, next, response>>
      BY <2>1, <3>1, AdvanceWorks DEF TypedJobs, JobsInRange
    <3>2. CASE /\ job[w].at = "pick" /\ next \in Candidate /\ next' = next + 1
               /\ Advances(w, next)
               /\ UNCHANGED <<match, response>>
      BY <2>1, <3>2, AdvanceWorks
    <3>3. CASE /\ job[w].at = "pick" /\ next = N + 1
               /\ job' = [job EXCEPT ![w] = Away("done")]
               /\ UNCHANGED <<match, next, yield, left, refused, http, response>>
      <4>1. (response = Pending)' => response = Pending
        BY <3>3 DEF Pending
      <4> QED
        BY <3>3, <4>1, StopWorks
    <3>4. CASE SearchFails(w)
      <4>1. /\ Busy(w) /\ job' = [job EXCEPT ![w] = Away("threw")]
            /\ UNCHANGED <<next, left>>
        BY <3>4 DEF SearchFails, Busy
      <4>2. (response = Pending)' => response = Pending
        BY <3>4 DEF SearchFails, Pending
      <4> QED
        BY <4>1, <4>2, StopWorks
    <3> QED
      BY <2>2, <3>1, <3>2, <3>3, <3>4 DEF WorkerMoves
  <2>3. CASE Respond
    <3>1. UNCHANGED <<next, job, left>> /\ response = Pending
      BY <2>3 DEF Respond
    <3>2. response'.status = "ok" /\ Pending.status = "pending"
      BY <2>3 DEF Respond, Merged, MergeOf, Pending
    <3>3. ~(response = Pending)'
      BY <3>2 DEF Pending
    <3>4. Searches' = Searches /\ Idle' = Idle
      BY <3>1 DEF Searches, Idle, Busy
    <3>5. Cardinality(Searches) \in Nat /\ Cardinality(Idle) \in Nat
      <4>1. IsFiniteSet(Worker)
        BY WorkerCount, FS_Interval
      <4>2. Searches \in SUBSET Worker /\ Idle \in SUBSET Worker
        BY DEF Searches, Idle
      <4> QED
        BY <4>1, <4>2, FS_Subset, FS_CardinalityType
    <3> QED
      BY <2>1, <3>1, <3>3, <3>4, <3>5 DEF WorkLeft
  <2> QED
    BY <2>2, <2>3, StepShape
<1> QED
  BY <1>1, TypeCorrect, PTL DEF Spec, TypedJobs, WorkRunsOut
=============================================================================
