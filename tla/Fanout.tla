------------------------------- MODULE Fanout -------------------------------
(***************************************************************************)
(* One request of the service: the workers of FanoutService.execute share  *)
(* the candidate names and one call budget, and the query planner of each  *)
(* narrows a query down its ladder and pages through the answer.           *)
(*                                                                         *)
(* Source: src/src/legal-results/alias-fanout/fanout.service.ts and        *)
(* src/src/legal-results/query-planner/query-planner.ts.                   *)
(*                                                                         *)
(* Code between two awaits is one step: the answer to a search, what the   *)
(* planner computes from it and the spending and sending of the next       *)
(* search. A document stands for a (court, docket) pair, so that a set of  *)
(* them is deduplicated, and is numbered by its place upstream, which      *)
(* answers in the order -date_filed.                                       *)
(***************************************************************************)
EXTENDS CourtOrder, FiniteSets, Sequences

CONSTANTS
    N,            \* candidate names above the confidence threshold
    Concurrency,  \* of pMap, 3
    Budget,       \* PER_REQUEST_CALL_BUDGET, 30
    Cap,          \* results per query and per response, 250
    PageSize,     \* 50
    Ladders,      \* what upstream may hold for a name, one set per query
    Record,       \* court, docket and filing date of a document
    MaxAttempts,  \* requests one client.search may send, 8
    Errors        \* codes a search may be rejected with

Candidate == 1..N
Worker    == 1..(IF N < Concurrency THEN N ELSE Concurrency)
Doc       == UNION {UNION {ladder[k] : k \in DOMAIN ladder} : ladder \in Ladders}

ASSUME FanoutConstants ==
    /\ N \in Nat \ {0} /\ Concurrency \in Nat \ {0}
    /\ Cap \in Nat \ {0} /\ PageSize \in Nat \ {0}
    /\ MaxAttempts \in Nat \ {0}
    /\ Budget \in Nat /\ Budget >= Concurrency
    /\ Doc \subseteq Nat /\ IsFiniteSet(Doc)
    /\ "ok" \notin Errors /\ "pending" \notin Errors
    /\ Record \in [Doc -> LegalResult]
    /\ \A d, e \in Doc : d # e => \/ Record[d].court # Record[e].court
                                  \/ Record[d].docket # Record[e].docket
    /\ \A ladder \in Ladders : ladder \in Seq(SUBSET Doc) /\ ladder # <<>>

VARIABLES
    match,     \* upstream: the documents each candidate's queries match
    next,      \* pMap: the shared index
    job,       \* pMap: what each worker awaits
    yield,     \* PlannerResult of the candidates that have one
    left,      \* CallBudget.remaining
    refused,   \* has spend() returned false?
    http,      \* search requests sent upstream
    response   \* of execute()

vars == <<match, next, job, yield, left, refused, http, response>>

NotYet == [docs |-> {}, truncated |-> FALSE, partial |-> FALSE, step |-> 0]
Pending == [status |-> "pending", docs |-> {}, truncated |-> FALSE,
            partial |-> FALSE]

(* A worker between two candidates, or stopped.                            *)
Away(where) == [at |-> where, cand |-> 0, step |-> 0, page |-> 0, got |-> {}]

(* A worker that awaits the probe of a step, or a page of its query.       *)
Awaits(where, c, k, p, g) ==
    [at |-> where, cand |-> c, step |-> k, page |-> p, got |-> g]

(* Array.from starts the workers synchronously: each has taken a candidate *)
(* and sent the first probe before any answer can arrive.                  *)
Init ==
    /\ match \in [Candidate -> Ladders]
    /\ next = Cardinality(Worker) + 1
    /\ job = [w \in Worker |-> Awaits("probe", w, 1, 0, {})]
    /\ yield = [c \in Candidate |-> NotYet]
    /\ left = Budget - Cardinality(Worker)
    /\ refused = FALSE
    /\ http \in 0..(MaxAttempts * Cardinality(Worker))
    /\ response = Pending

-----------------------------------------------------------------------------
(* What upstream puts first.                                               *)
Newest(S, n) == {d \in S : Cardinality({e \in S : e < d}) < n}

(* Mutant: sliced before it is sorted. *)
FirstFetched(S, n) == Newest(S, n)

(* sortLegalResults(S).slice(0, n)                                         *)
First(S, n) ==
    {d \in S : Cardinality({e \in S : Before(Record[e], Record[d])}) < n}

(* The page of a query's documents that starts at offset p * PageSize; the *)
(* limit of the last page stops at the cap.                                *)
Page(S, p) ==
    Newest(Newest(S, Cap), (p + 1) * PageSize) \ Newest(S, p * PageSize)

Smaller(a, b) == IF a < b THEN a ELSE b
(* Mutant: the number of pages rounded down. *)
PagesRoundedDown(S) == Smaller(Cardinality(S), Cap) \div PageSize

PagesNeeded(S) ==
    (Smaller(Cardinality(S), Cap) + PageSize - 1) \div PageSize

IsLastStep(ladder, k) == k = Len(ladder)

Return(w, c, result) ==
    /\ yield' = [yield EXCEPT ![c] = result]
    /\ job' = [job EXCEPT ![w] = Away("pick")]

(* Mutant: a search that nobody spends budget on. *)
AwaitUnspent(w, await) ==
    /\ left > 0
    /\ \E n \in 0..MaxAttempts : http' = http + n
    /\ job' = [job EXCEPT ![w] = await]
    /\ UNCHANGED <<yield, left, refused>>

(* Mutant: spend() decrements past zero. *)
SpendPastZero(w, await) ==
    /\ left' = left - 1
    /\ \E n \in 0..MaxAttempts : http' = http + n
    /\ job' = [job EXCEPT ![w] = await]
    /\ UNCHANGED <<yield, refused>>

(* budget.spend() and the client.search after it. The retry policy and the *)
(* one-shot 401 retry may turn one search into several requests, an open   *)
(* circuit, a full bulkhead or a missing token into none.                  *)
SpendAndAwait(w, await) ==
    /\ left > 0
    /\ left' = left - 1
    /\ \E n \in 0..MaxAttempts : http' = http + n
    /\ job' = [job EXCEPT ![w] = await]
    /\ UNCHANGED <<yield, refused>>

RefuseAndReturn(w, c, result) ==
    /\ left = 0
    /\ refused' = TRUE
    /\ Return(w, c, result)
    /\ UNCHANGED <<left, http>>

(* Mutant: a budget that ran out looks like an answer without documents.   *)
ExhaustedAsEmpty(k) ==
    [docs |-> {}, truncated |-> FALSE, partial |-> FALSE, step |-> k]

BudgetExhaustedResult(k) ==
    [docs |-> {}, truncated |-> TRUE, partial |-> TRUE, step |-> k]

Probe(w, c, k) ==
    \/ SpendAndAwait(w, Awaits("probe", c, k, 0, {}))
    \/ RefuseAndReturn(w, c, BudgetExhaustedResult(k))

(* Mutant: truncated forgets the pages that were never fetched. *)
SettledByCountOnly(S, k, got) ==
    [docs |-> got, truncated |-> Cardinality(S) > Cap,
     partial |-> Cardinality(S) > Cap, step |-> k]

(* What planAndSearch returns once it has settled on a query that matches  *)
(* S. partial and unnarrowable have the same value at every return.        *)
SettledResult(S, k, got) ==
    [docs |-> got,
     truncated |-> Cardinality(S) > Cap \/ Cardinality(got) < Cardinality(S),
     partial |-> Cardinality(S) > Cap,
     step |-> k]

(* paginateQuery: fetch page p, unless there is none or no budget for it.  *)
Paginate(w, c, k, p, got) ==
    IF p < PagesNeeded(match[c][k])
    THEN \/ SpendAndAwait(w, Awaits("page", c, k, p, got))
         \/ RefuseAndReturn(w, c, SettledResult(match[c][k], k, got))
    ELSE /\ Return(w, c, SettledResult(match[c][k], k, got))
         /\ UNCHANGED <<left, refused, http>>

-----------------------------------------------------------------------------
ProbeAnswered(w) ==
    /\ job[w].at = "probe"
    /\ LET c == job[w].cand
           k == job[w].step
       IN  IF Cardinality(match[c][k]) <= Cap \/ IsLastStep(match[c], k)
           THEN Paginate(w, c, k, 0, {})
           ELSE Probe(w, c, k + 1)
    /\ UNCHANGED <<match, next, response>>

(* Mutant: a page replaces the pages before it. *)
PageReplaces(w) ==
    /\ job[w].at = "page"
    /\ LET c == job[w].cand
           k == job[w].step
           p == job[w].page
       IN  Paginate(w, c, k, p + 1, Page(match[c][k], p))
    /\ UNCHANGED <<match, next, response>>

PageAnswered(w) ==
    /\ job[w].at = "page"
    /\ LET c == job[w].cand
           k == job[w].step
           p == job[w].page
       IN  Paginate(w, c, k, p + 1, job[w].got \cup Page(match[c][k], p))
    /\ UNCHANGED <<match, next, response>>

(* Mutant: a worker's rejection reaches nobody.                            *)
SearchFailsUnseen(w) ==
    /\ job[w].at \in {"probe", "page"}
    /\ job' = [job EXCEPT ![w] = Away("threw")]
    /\ UNCHANGED <<match, next, yield, left, refused, http, response>>

(* The search is rejected: the worker's loop ends, and Promise.all rejects *)
(* the request with the first error, the other workers running on.         *)
SearchFails(w) ==
    /\ job[w].at \in {"probe", "page"}
    /\ job' = [job EXCEPT ![w] = Away("threw")]
    /\ \E code \in Errors :
         /\ code = "query_too_broad" =>
              Cardinality(match[job[w].cand][job[w].step]) > Cap
         /\ response' = IF response = Pending
                        THEN [Pending EXCEPT !.status = code]
                        ELSE response
    /\ UNCHANGED <<match, next, yield, left, refused, http>>

(* Mutant: the workers stop one candidate early. *)
PickAllButLast(w) ==
    /\ job[w].at = "pick"
    /\ IF next < N
       THEN next' = next + 1 /\ Probe(w, next, 1)
       ELSE /\ job' = [job EXCEPT ![w] = Away("done")]
            /\ UNCHANGED <<next, yield, left, refused, http>>
    /\ UNCHANGED <<match, response>>

(* const i = index++; the mapper's first probe goes out in the same step.  *)
Pick(w) ==
    /\ job[w].at = "pick"
    /\ IF next <= N
       THEN next' = next + 1 /\ Probe(w, next, 1)
       ELSE /\ job' = [job EXCEPT ![w] = Away("done")]
            /\ UNCHANGED <<next, yield, left, refused, http>>
    /\ UNCHANGED <<match, response>>

MergeOf(results) ==
    LET docs == UNION {results[c].docs : c \in Candidate}
    IN  [status |-> "ok",
         docs |-> First(docs, Cap),
         truncated |-> Cardinality(docs) > Cap
                         \/ \E c \in Candidate : results[c].truncated,
         partial |-> \E c \in Candidate : results[c].partial]

Merged == MergeOf(yield)

Respond ==
    /\ response = Pending
    /\ \A w \in Worker : job[w].at = "done"
    /\ response' = Merged
    /\ UNCHANGED <<match, next, job, yield, left, refused, http>>

WorkerStep(w) ==
    ProbeAnswered(w) \/ PageAnswered(w) \/ SearchFails(w) \/ Pick(w)

Next == Respond \/ \E w \in Worker : WorkerStep(w)

(* Every search is answered or fails (undici's timeouts), and the event    *)
(* loop runs what is ready.                                                *)
Spec == Init /\ [][Next]_vars
FairSpec == Spec /\ WF_vars(Respond) /\ \A w \in Worker : WF_vars(WorkerStep(w))

-----------------------------------------------------------------------------
(* Properties                                                              *)

Busy(w) == job[w].at \in {"probe", "page"}

Jobs == [at : {"probe", "page", "pick", "done", "threw"}, cand : 0..N,
         step : Nat, page : Nat, got : SUBSET Doc]
PlannerResults == [docs : SUBSET Doc, truncated : BOOLEAN, partial : BOOLEAN,
                   step : Nat]
Responses == [status : {"pending", "ok"} \cup Errors, docs : SUBSET Doc,
              truncated : BOOLEAN, partial : BOOLEAN]

TypeOK ==
    /\ match \in [Candidate -> Ladders]
    /\ next \in 1..(N + 1)
    /\ job \in [Worker -> Jobs]
    /\ yield \in [Candidate -> PlannerResults]
    /\ left \in 0..Budget
    /\ refused \in BOOLEAN
    /\ http \in Nat
    /\ response \in Responses

(* The request and the workers it leaves behind after an error together    *)
(* stay within the budget, each search costing no more than its retries    *)
(* (fanout.service.ts:83-92, query-planner.ts:87 and :176).                *)
BudgetBound == http <= MaxAttempts * Budget

(* The workers share out the candidates: no candidate is planned by two    *)
(* workers or planned again, and a response is not merged before every     *)
(* candidate has its result (pMap, fanout.service.ts:29-46).               *)
EachCandidateOnce ==
    /\ \A w \in Worker : Busy(w) =>
         /\ yield[job[w].cand] = NotYet
         /\ \A v \in Worker \ {w} : Busy(v) => job[v].cand # job[w].cand
    /\ response.status = "ok" => \A c \in Candidate : yield[c] # NotYet

(* A response that does not say truncated withholds nothing: it has every  *)
(* document upstream holds for the query each candidate settled on, however*)
(* the cap, the pages and the budget cut in (fanout.service.ts:117-123).   *)
HonestTruncation ==
    response.status = "ok" /\ ~response.truncated =>
        \A c \in Candidate : match[c][yield[c].step] \subseteq response.docs

(* Unless the budget ran out, the response depends on what upstream holds  *)
(* and not on the order in which the answers arrive: it is the merge of    *)
(* what each candidate's ladder gives by itself.                           *)
Settled(ladder) ==
    CHOOSE k \in DOMAIN ladder :
        /\ Cardinality(ladder[k]) <= Cap \/ IsLastStep(ladder, k)
        /\ \A j \in 1..(k - 1) : Cardinality(ladder[j]) > Cap
Expected ==
    LET docs == UNION {Newest(match[c][Settled(match[c])], Cap) : c \in Candidate}
        Broad(c) == Cardinality(match[c][Settled(match[c])]) > Cap
    IN  [status |-> "ok",
         docs |-> First(docs, Cap),
         truncated |-> Cardinality(docs) > Cap \/ \E c \in Candidate : Broad(c),
         partial |-> \E c \in Candidate : Broad(c)]
OrderIndependent ==
    response.status = "ok" /\ ~refused => response = Expected

(* However many documents the candidates bring in, the response is filled  *)
(* up to the cap: the comparator is an order also on documents without a   *)
(* date, so that sorting and slicing has one outcome (sort.ts:23-34,       *)
(* fanout.service.ts:123).                                                 *)
MergedDocs == UNION {yield[c].docs : c \in Candidate}
CapFilled ==
    response.status = "ok" =>
        Cardinality(response.docs) = Smaller(Cardinality(MergedDocs), Cap)

(* What the cap withholds is no better than what is returned: of no higher *)
(* court, and of the same court tier not newer, whichever candidate found  *)
(* it (README.md:14, sort.ts:10-35).                                       *)
BestReturned ==
    response.status = "ok" =>
        \A d \in response.docs, e \in MergedDocs \ response.docs :
            LET a == Record[d]  b == Record[e]
            IN  Tier(a) < Tier(b) \/ (Tier(a) = Tier(b) /\ a.filed >= b.filed)

(* A request that hits its budget says so: wherever the refusal struck, at *)
(* a probe or between two pages, something is missing from the response,   *)
(* which is truncated (query-planner.ts:87 and :176, "returned < what      *)
(* upstream held" of fanout.service.ts:118).                               *)
BudgetHitIsTruncated ==
    response.status = "ok" /\ refused => response.truncated

(* The workers of a request do what each of its names would by itself with *)
(* the calls it gets: no name is searched twice or more than so many at    *)
(* once, a call is drawn before it is sent, a result depends on how many   *)
(* its name had and not on when or by which worker, a name whose search    *)
(* failed brings nothing in, and the answer stays what it was first        *)
(* (fanout.service.ts:29-46 and 83-142, query-planner.ts:20-200).          *)
Need(ladder) == Settled(ladder) + PagesNeeded(ladder[Settled(ladder)])
After(ladder, calls) ==
    LET k == Settled(ladder)
        pages == Newest(Newest(ladder[k], Cap), (calls - k) * PageSize)
    IN  IF calls < k THEN BudgetExhaustedResult(calls + 1)
                     ELSE SettledResult(ladder[k], k, pages)

WorkersOn(c) == {w \in Worker : Busy(w) /\ job[w].cand = c}
CallsOf(j)   == j.step + (IF j.at = "page" THEN j.page + 1 ELSE 0)
CallsHad     == [c \in Candidate |-> IF WorkersOn(c) = {} THEN 0
                 ELSE CallsOf(job[CHOOSE w \in WorkersOn(c) : TRUE])]
Ended        == {c \in 1..(next - 1) : WorkersOn(c) = {}}
Searching == INSTANCE BudgetedSearch WITH
    Name       <- Candidate,
    AtOnce     <- Concurrency,
    Calls      <- Budget,
    Nothing    <- NotYet,
    Unanswered <- Pending,
    Failures   <- {[Pending EXCEPT !.status = code] : code \in Errors},
    Merge      <- MergeOf,
    source     <- match,
    had        <- CallsHad,
    over       <- Ended,
    found      <- yield,
    answer     <- response
IsBudgetedSearch == Searching!Spec

(* Whatever upstream answers, fails and holds, and whether or not anybody  *)
(* still awaits the workers, each answer leaves less to do: a request takes*)
(* at most 3 * Budget + 2 * N + 1 of them (the loops of fanout.service.ts: *)
(* 38, query-planner.ts:75 and :172).                                      *)
Searches == {w \in Worker : Busy(w)}
Idle     == {w \in Worker : job[w].at = "pick"}
WorkLeft ==
    3 * left + 2 * (N + 1 - next) + 2 * Cardinality(Searches)
        + Cardinality(Idle) + (IF response = Pending THEN 1 ELSE 0)
WorkRunsOut == [][WorkLeft' < WorkLeft]_vars

(* Every request is answered and leaves no worker running for ever, also   *)
(* after an error, when nobody awaits the other workers any more.          *)
RequestSettles ==
    <>[](/\ response # Pending
         /\ \A w \in Worker : job[w].at \in {"done", "threw"})

(* README.md:17: a request that hits its budget "short-circuits with       *)
(* `partial: true, unnarrowable: true`".                                   *)
BudgetHitIsFlagged ==
    response.status = "ok" /\ refused => response.partial
=============================================================================
