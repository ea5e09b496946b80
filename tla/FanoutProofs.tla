---------------------------- MODULE FanoutProofs ----------------------------
(***************************************************************************)
(* What Fanout promises for every number of candidates and workers, every  *)
(* budget, cap and page size, and everything upstream may hold: its type   *)
(* invariant, the bound on requests, the sharing of the candidates and the *)
(* honesty of `truncated`, and which documents the cap keeps.              *)
(***************************************************************************)
EXTENDS Fanout, CourtOrderProofs, FiniteSetTheorems, TLAPS

(* What a planner that has settled may return for candidate c.             *)
HonestResult(c, r) ==
    /\ r \in PlannerResults
    /\ r.step \in 1..Len(match[c])
    /\ ~r.truncated => match[c][r.step] \subseteq r.docs

(* One search sent for candidate c, or the planner's return for it.        *)
Sends(w, c) ==
    \E at \in {"probe", "page"}, k \in 1..Len(match[c]), p \in Nat :
        \E g \in SUBSET match[c][k] : SpendAndAwait(w, Awaits(at, c, k, p, g))
Returns(w, c) ==
    /\ \E r : HonestResult(c, r) /\ Return(w, c, r)
    /\ refused' \in BOOLEAN
    /\ UNCHANGED <<left, http>>
Advances(w, c) == Sends(w, c) \/ Returns(w, c)

JobsInRange ==
    \A w \in Worker : Busy(w) =>
        /\ job[w].cand \in Candidate /\ job[w].cand < next
        /\ job[w].step \in 1..Len(match[job[w].cand])
        /\ job[w].got \subseteq match[job[w].cand][job[w].step]

-----------------------------------------------------------------------------
(* Upstream's answers, pages and the records built from them stay in Doc.  *)
LEMMA LadderType ==
    ASSUME TypeOK, NEW c \in Candidate
    PROVE  /\ Len(match[c]) \in Nat \ {0}
           /\ \A k \in 1..Len(match[c]) :
                 /\ match[c][k] \subseteq Doc
                 /\ IsFiniteSet(match[c][k])
                 /\ Cardinality(match[c][k]) \in Nat
<1>1. match[c] \in Seq(SUBSET Doc) /\ match[c] # <<>>
  BY FanoutConstants DEF FanoutConstants, TypeOK
<1>2. Len(match[c]) \in Nat \ {0}
  BY <1>1
<1>3. ASSUME NEW k \in 1..Len(match[c])
      PROVE  match[c][k] \subseteq Doc
  BY <1>1, <1>3
<1>4. ASSUME NEW k \in 1..Len(match[c])
      PROVE  IsFiniteSet(match[c][k]) /\ Cardinality(match[c][k]) \in Nat
  BY <1>3, FS_Subset, FS_CardinalityType, FanoutConstants DEF FanoutConstants
<1> QED
  BY <1>2, <1>3, <1>4

LEMMA AwaitsType ==
    ASSUME NEW c \in Candidate, NEW at \in {"probe", "page"}, NEW k \in Nat,
           NEW p \in Nat, NEW g \in SUBSET Doc
    PROVE  Awaits(at, c, k, p, g) \in Jobs
  BY FanoutConstants DEF FanoutConstants, Awaits, Jobs, Candidate

LEMMA AwayType ==
    ASSUME NEW at \in {"pick", "done", "threw"}
    PROVE  Away(at) \in Jobs
  BY FanoutConstants DEF FanoutConstants, Away, Jobs

(* A planner that settles with what it fetched so far is honest about it.  *)
LEMMA SettledHonest ==
    ASSUME TypeOK, NEW c \in Candidate, NEW k \in 1..Len(match[c]),
           NEW g \in SUBSET match[c][k]
    PROVE  HonestResult(c, SettledResult(match[c][k], k, g))
<1> DEFINE r == SettledResult(match[c][k], k, g)
<1>1. /\ match[c][k] \subseteq Doc
      /\ IsFiniteSet(match[c][k])
      /\ Cardinality(match[c][k]) \in Nat
  BY LadderType
<1>2. Cardinality(g) <= Cardinality(match[c][k]) /\ Cardinality(g) \in Nat
      /\ (Cardinality(g) = Cardinality(match[c][k]) => g = match[c][k])
  BY <1>1, FS_Subset, FS_CardinalityType
<1>3. r \in PlannerResults
  BY <1>1 DEF SettledResult, PlannerResults
<1>4. r.step = k /\ r.docs = g
      /\ (~r.truncated => ~(Cardinality(g) < Cardinality(match[c][k])))
  BY DEF SettledResult
<1>5. ~r.truncated => match[c][k] \subseteq g
  BY <1>1, <1>2, <1>4
<1> QED
  BY <1>3, <1>4, <1>5 DEF HonestResult

LEMMA ExhaustedHonest ==
    ASSUME NEW c \in Candidate, NEW k \in 1..Len(match[c]),
           Len(match[c]) \in Nat
    PROVE  HonestResult(c, BudgetExhaustedResult(k))
<1>1. BudgetExhaustedResult(k) \in PlannerResults
  BY DEF BudgetExhaustedResult, PlannerResults
<1> QED
  BY <1>1 DEF HonestResult, BudgetExhaustedResult

(* Probing a step sends one search or returns the exhausted result.        *)
LEMMA ProbeAdvances ==
    ASSUME TypeOK, NEW w \in Worker, NEW c \in Candidate,
           NEW k \in 1..Len(match[c]), Probe(w, c, k)
    PROVE  Advances(w, c)
<1>1. Len(match[c]) \in Nat
  BY LadderType
<1>2. CASE SpendAndAwait(w, Awaits("probe", c, k, 0, {}))
  BY <1>2 DEF Advances, Sends
<1>3. CASE RefuseAndReturn(w, c, BudgetExhaustedResult(k))
  BY <1>1, <1>3, ExhaustedHonest DEF Advances, Returns, RefuseAndReturn
<1> QED
  BY <1>2, <1>3 DEF Probe

(* So does fetching a page, or it returns what is fetched already.         *)
LEMMA PaginateAdvances ==
    ASSUME TypeOK, NEW w \in Worker, NEW c \in Candidate,
           NEW k \in 1..Len(match[c]), NEW p \in Nat,
           NEW g \in SUBSET match[c][k], Paginate(w, c, k, p, g)
    PROVE  Advances(w, c)
<1>1. HonestResult(c, SettledResult(match[c][k], k, g))
  BY SettledHonest
<1>2. CASE SpendAndAwait(w, Awaits("page", c, k, p, g))
  BY <1>2 DEF Advances, Sends
<1>3. CASE RefuseAndReturn(w, c, SettledResult(match[c][k], k, g))
  BY <1>1, <1>3 DEF Advances, Returns, RefuseAndReturn
<1>4. CASE /\ Return(w, c, SettledResult(match[c][k], k, g))
           /\ UNCHANGED <<left, refused, http>>
  BY <1>1, <1>4 DEF Advances, Returns, TypeOK
<1> QED
  BY <1>2, <1>3, <1>4 DEF Paginate

(* Every answer to a worker's search advances the candidate it is on.      *)
LEMMA AnswerAdvances ==
    ASSUME TypeOK, JobsInRange, NEW w \in Worker,
           ProbeAnswered(w) \/ PageAnswered(w)
    PROVE  /\ Busy(w)
           /\ Advances(w, job[w].cand)
           /\ UNCHANGED <<match, next, response>>
<1> DEFINE c == job[w].cand
           k == job[w].step
<1>1. Busy(w) /\ UNCHANGED <<match, next, response>>
  BY DEF ProbeAnswered, PageAnswered, Busy
<1>2. /\ c \in Candidate /\ k \in 1..Len(match[c])
      /\ job[w].got \subseteq match[c][k]
  BY <1>1 DEF JobsInRange
<1>3. Len(match[c]) \in Nat \ {0}
  BY <1>2, LadderType
<1>4. CASE ProbeAnswered(w)
  <2>1. CASE Cardinality(match[c][k]) <= Cap \/ IsLastStep(match[c], k)
    <3>1. Paginate(w, c, k, 0, {})
      BY <1>4, <2>1 DEF ProbeAnswered
    <3> QED
      BY <1>1, <1>2, <3>1, PaginateAdvances
  <2>2. CASE ~(Cardinality(match[c][k]) <= Cap \/ IsLastStep(match[c], k))
    <3>1. Probe(w, c, k + 1)
      BY <1>4, <2>2 DEF ProbeAnswered
    <3>2. k + 1 \in 1..Len(match[c])
      BY <1>2, <1>3, <2>2 DEF IsLastStep
    <3> QED
      BY <1>1, <1>2, <3>1, <3>2, ProbeAdvances
  <2> QED
    BY <2>1, <2>2
<1>5. CASE PageAnswered(w)
  <2> DEFINE p == job[w].page
             g == job[w].got \cup Page(match[c][k], p)
  <2>1. Paginate(w, c, k, p + 1, g)
    BY <1>5 DEF PageAnswered
  <2>2. g \in SUBSET match[c][k]
    BY <1>2 DEF Page, Newest
  <2>3. p + 1 \in Nat
    BY DEF TypeOK, Jobs
  <2> HIDE DEF g
  <2> QED
    BY <1>1, <1>2, <2>1, <2>2, <2>3, PaginateAdvances
<1> QED
  BY <1>4, <1>5

(* A free worker takes the next candidate and advances it, or is done.     *)
LEMMA PickAdvances ==
    ASSUME TypeOK, NEW w \in Worker, Pick(w)
    PROVE  /\ job[w].at = "pick"
           /\ UNCHANGED <<match, response>>
           /\ \/ /\ next \in Candidate /\ next' = next + 1
                 /\ Advances(w, next)
              \/ /\ next = N + 1
                 /\ job' = [job EXCEPT ![w] = Away("done")]
                 /\ UNCHANGED <<next, yield, left, refused, http>>
<1>1. CASE next <= N
  <2>1. next \in Candidate
    BY <1>1, FanoutConstants DEF FanoutConstants, TypeOK, Candidate
  <2>2. 1 \in 1..Len(match[next])
    BY <2>1, LadderType
  <2>3. Probe(w, next, 1) /\ next' = next + 1
    BY <1>1 DEF Pick
  <2> QED
    BY <2>1, <2>2, <2>3, ProbeAdvances DEF Pick
<1>2. CASE ~(next <= N)
  BY <1>2, FanoutConstants DEF FanoutConstants, TypeOK, Pick
<1> QED
  BY <1>1, <1>2

-----------------------------------------------------------------------------
(* The fields of the records that the steps build.                         *)
LEMMA AwaitsFields ==
    ASSUME NEW at, NEW c, NEW k, NEW p, NEW g
    PROVE  LET a == Awaits(at, c, k, p, g)
           IN  a.at = at /\ a.cand = c /\ a.step = k /\ a.got = g
  BY DEF Awaits

(* A worker that sends is busy with that candidate, in range.              *)
LEMMA SendsEffect ==
    ASSUME TypeOK, NEW w \in Worker, NEW c \in Candidate, Sends(w, c)
    PROVE  /\ \E a \in Jobs :
                /\ job' = [job EXCEPT ![w] = a]
                /\ a.at \in {"probe", "page"} /\ a.cand = c
                /\ a.step \in 1..Len(match[c])
                /\ a.got \subseteq match[c][a.step]
           /\ left > 0 /\ left' = left - 1
           /\ \E n \in 0..MaxAttempts : http' = http + n
           /\ UNCHANGED <<yield, refused>>
<1>1. PICK at \in {"probe", "page"}, k \in 1..Len(match[c]), p \in Nat :
        \E g \in SUBSET match[c][k] : SpendAndAwait(w, Awaits(at, c, k, p, g))
  BY DEF Sends
<1>2. PICK g \in SUBSET match[c][k] : SpendAndAwait(w, Awaits(at, c, k, p, g))
  BY <1>1
<1> DEFINE a == Awaits(at, c, k, p, g)
<1>3. Len(match[c]) \in Nat \ {0} /\ match[c][k] \subseteq Doc
  BY LadderType
<1>4. a \in Jobs
  BY <1>3, AwaitsType
<1>5. a.at = at /\ a.cand = c /\ a.step = k /\ a.got = g
  BY AwaitsFields
<1> HIDE DEF a
<1>6. SpendAndAwait(w, a)
  BY <1>2 DEF a
<1> QED
  BY <1>4, <1>5, <1>6 DEF SpendAndAwait

(* A worker whose planner returned is free; the result is no NotYet.       *)
LEMMA ReturnsEffect ==
    ASSUME TypeOK, NEW w \in Worker, NEW c \in Candidate, Returns(w, c)
    PROVE  /\ \E r \in PlannerResults :
                /\ yield' = [yield EXCEPT ![c] = r]
                /\ HonestResult(c, r) /\ r # NotYet
           /\ \E a \in Jobs :
                job' = [job EXCEPT ![w] = a] /\ a.at = "pick"
           /\ refused' \in BOOLEAN
           /\ UNCHANGED <<left, http>>
<1>1. PICK r : HonestResult(c, r) /\ Return(w, c, r)
  BY DEF Returns
<1>2. r \in PlannerResults
  BY <1>1 DEF HonestResult
<1>3. r.step # 0
  BY <1>1, LadderType DEF HonestResult
<1>4. r # NotYet
  BY <1>3 DEF NotYet
<1>5. Away("pick") \in Jobs /\ Away("pick").at = "pick"
  BY AwayType DEF Away
<1>6. UNCHANGED <<left, http>> /\ refused' \in BOOLEAN
  BY DEF Returns
<1> QED
  BY <1>1, <1>2, <1>4, <1>5, <1>6 DEF Return

(* Types and ranges, one invariant: pages come from the candidate's query. *)
TypedJobs == TypeOK /\ JobsInRange

(* A worker's advance keeps types and ranges.                              *)
LEMMA AdvanceTyped ==
    ASSUME TypedJobs, NEW w \in Worker, NEW c \in Candidate, Advances(w, c),
           match' = match, response' = response,
           next' \in 1..(N + 1), next <= next', c < next'
    PROVE  TypedJobs'
<1>1. CASE Sends(w, c)
  <2>1. PICK a \in Jobs :
          /\ job' = [job EXCEPT ![w] = a]
          /\ a.at \in {"probe", "page"} /\ a.cand = c
          /\ a.step \in 1..Len(match[c])
          /\ a.got \subseteq match[c][a.step]
    BY <1>1, SendsEffect DEF TypedJobs
  <2>2. /\ left' \in 0..Budget /\ http' \in Nat
        /\ UNCHANGED <<yield, refused>>
    BY <1>1, SendsEffect, FanoutConstants DEF TypedJobs, TypeOK, FanoutConstants
  <2>3. TypeOK'
    BY <2>1, <2>2 DEF TypedJobs, TypeOK
  <2>4. JobsInRange'
    BY <2>1 DEF TypedJobs, TypeOK, JobsInRange, Busy, Candidate
  <2> QED
    BY <2>3, <2>4 DEF TypedJobs
<1>2. CASE Returns(w, c)
  <2>1. PICK r \in PlannerResults : yield' = [yield EXCEPT ![c] = r]
    BY <1>2, ReturnsEffect DEF TypedJobs
  <2>2. PICK a \in Jobs : job' = [job EXCEPT ![w] = a] /\ a.at = "pick"
    BY <1>2, ReturnsEffect DEF TypedJobs
  <2>3. refused' \in BOOLEAN /\ UNCHANGED <<left, http>>
    BY <1>2, ReturnsEffect DEF TypedJobs
  <2>4. TypeOK'
    BY <2>1, <2>2, <2>3 DEF TypedJobs, TypeOK
  <2>5. JobsInRange'
    BY <2>2 DEF TypedJobs, TypeOK, JobsInRange, Busy, Candidate
  <2> QED
    BY <2>4, <2>5 DEF TypedJobs
<1> QED
  BY <1>1, <1>2 DEF Advances

(* As many workers start as there are candidates, up to the concurrency.   *)
LEMMA WorkerCount ==
    /\ Cardinality(Worker) \in 1..N /\ Cardinality(Worker) <= Concurrency
    /\ Worker = 1..Cardinality(Worker)
<1> DEFINE m == IF N < Concurrency THEN N ELSE Concurrency
<1>1. m \in 1..N /\ m <= Concurrency /\ m \in Nat
  BY FanoutConstants DEF FanoutConstants
<1>2. Cardinality(1..m) = m
  BY <1>1, FS_Interval
<1> QED
  BY <1>1, <1>2 DEF Worker

LEMMA InitTyped == Init => TypedJobs
<1> SUFFICES ASSUME Init PROVE TypedJobs
  OBVIOUS
<1> USE FanoutConstants DEF FanoutConstants
<1>1. \A w \in Worker : w \in Candidate
  BY WorkerCount DEF Candidate
<1>2. \A c \in Candidate : match[c] \in Seq(SUBSET Doc) /\ match[c] # <<>>
  BY DEF Init
<1>3. \A c \in Candidate : Len(match[c]) \in Nat \ {0}
  BY <1>2
<1>4. /\ next \in 1..(N + 1) /\ left \in 0..Budget
      /\ http \in Nat
  BY WorkerCount DEF Init
<1>5. job \in [Worker -> Jobs]
  <2>1. \A w \in Worker : Awaits("probe", w, 1, 0, {}) \in Jobs
    BY <1>1, AwaitsType
  <2> QED
    BY <2>1 DEF Init
<1>6. NotYet \in PlannerResults /\ Pending \in Responses
  BY DEF NotYet, Pending, PlannerResults, Responses
<1>7. refused \in BOOLEAN
  BY Zenon DEF Init
<1>8. TypeOK
  BY <1>4, <1>5, <1>6, <1>7 DEF Init, TypeOK
<1>9. ASSUME NEW w \in Worker
      PROVE  /\ job[w].cand = w /\ job[w].step = 1 /\ job[w].got = {}
             /\ w < next /\ w \in Candidate
  BY <1>1, WorkerCount DEF Init, Awaits
<1>10. JobsInRange
  BY <1>3, <1>9 DEF JobsInRange
<1> QED
  BY <1>8, <1>10 DEF TypedJobs

(* What a worker leaves behind when its search fails or it finds no work.  *)
LEMMA AwayTyped ==
    ASSUME TypedJobs, NEW w \in Worker, NEW at \in {"pick", "done", "threw"},
           job' = [job EXCEPT ![w] = Away(at)], response' \in Responses,
           UNCHANGED <<match, next, yield, left, refused, http>>
    PROVE  TypedJobs'
<1>1. Away(at) \in Jobs /\ Away(at).at = at
  BY AwayType DEF Away
<1>2. TypeOK'
  BY <1>1 DEF TypedJobs, TypeOK
<1>3. JobsInRange'
  BY <1>1 DEF TypedJobs, TypeOK, JobsInRange, Busy
<1> QED
  BY <1>2, <1>3 DEF TypedJobs

LEMMA FailureResponse ==
    ASSUME TypeOK, NEW w \in Worker, SearchFails(w)
    PROVE  response' \in Responses
<1>1. ASSUME NEW code \in Errors
      PROVE  [Pending EXCEPT !.status = code] \in Responses
  BY <1>1 DEF Pending, Responses
<1> QED
  BY <1>1 DEF SearchFails, TypeOK

LEMMA MergedType == TypeOK => Merged \in Responses
<1> SUFFICES ASSUME TypeOK PROVE Merged \in Responses
  OBVIOUS
<1> DEFINE docs == UNION {yield[c].docs : c \in Candidate}
<1>1. docs \subseteq Doc
  BY DEF TypeOK, PlannerResults
<1>2. First(docs, Cap) \subseteq Doc
  BY <1>1 DEF First
<1> QED
  BY <1>2 DEF Merged, MergeOf, Responses

(* Every reachable state has the declared types, and what a worker has     *)
(* fetched always belongs to the query it is on (query-planner.ts:44-200). *)
THEOREM TypeCorrect == Spec => [](TypeOK /\ JobsInRange)
<1>1. TypedJobs /\ [Next]_vars => TypedJobs'
  <2> SUFFICES ASSUME TypedJobs, [Next]_vars PROVE TypedJobs'
    OBVIOUS
  <2>1. ASSUME NEW w \in Worker, ProbeAnswered(w) \/ PageAnswered(w)
        PROVE  TypedJobs'
    <3>1. Busy(w) /\ Advances(w, job[w].cand)
          /\ UNCHANGED <<match, next, response>>
      BY <2>1, AnswerAdvances DEF TypedJobs
    <3>2. job[w].cand \in Candidate /\ job[w].cand < next
          /\ next \in 1..(N + 1)
      BY <3>1 DEF TypedJobs, JobsInRange, TypeOK
    <3>3. next <= next' /\ next' \in 1..(N + 1) /\ job[w].cand < next'
      BY <3>1, <3>2
    <3> QED
      BY <3>1, <3>2, <3>3, AdvanceTyped
  <2>2. ASSUME NEW w \in Worker, SearchFails(w) PROVE TypedJobs'
    <3>1. response' \in Responses
      BY <2>2, FailureResponse DEF TypedJobs
    <3> QED
      BY <2>2, <3>1, AwayTyped DEF SearchFails
  <2>3. ASSUME NEW w \in Worker, Pick(w) PROVE TypedJobs'
    <3>1. UNCHANGED <<match, response>>
      BY <2>3 DEF Pick
    <3>2. CASE next \in Candidate /\ next' = next + 1 /\ Advances(w, next)
      <4>1. next <= next' /\ next' \in 1..(N + 1) /\ next < next'
        BY <3>2, FanoutConstants DEF FanoutConstants, Candidate
      <4> QED
        BY <3>1, <3>2, <4>1, AdvanceTyped
    <3>3. CASE /\ job' = [job EXCEPT ![w] = Away("done")]
               /\ UNCHANGED <<next, yield, left, refused, http>>
      <4>1. response' \in Responses
        BY <3>1 DEF TypedJobs, TypeOK
      <4> QED
        BY <3>1, <3>3, <4>1, AwayTyped
    <3> QED
      BY <2>3, <3>2, <3>3, PickAdvances DEF TypedJobs
  <2>4. CASE Respond
    BY <2>4, MergedType DEF Respond, TypedJobs, TypeOK, JobsInRange, Busy
  <2>5. CASE UNCHANGED vars
    BY <2>5 DEF vars, TypedJobs, TypeOK, JobsInRange, Busy
  <2> QED
    BY <2>1, <2>2, <2>3, <2>4, <2>5 DEF Next, WorkerStep
<1> QED
  BY <1>1, InitTyped, PTL DEF Spec, TypedJobs

-----------------------------------------------------------------------------
(* What a step of the system is to the invariants below.                   *)
WorkerMoves(w) ==
    \/ /\ Busy(w) /\ Advances(w, job[w].cand)
       /\ UNCHANGED <<match, next, response>>
    \/ /\ job[w].at = "pick" /\ next \in Candidate /\ next' = next + 1
       /\ Advances(w, next)
       /\ UNCHANGED <<match, response>>
    \/ /\ job[w].at = "pick" /\ next = N + 1
       /\ job' = [job EXCEPT ![w] = Away("done")]
       /\ UNCHANGED <<match, next, yield, left, refused, http, response>>
    \/ SearchFails(w)

LEMMA StepShape ==
    ASSUME TypedJobs, [Next]_vars
    PROVE  (\E w \in Worker : WorkerMoves(w)) \/ Respond \/ UNCHANGED vars
<1>1. ASSUME NEW w \in Worker, ProbeAnswered(w) \/ PageAnswered(w)
      PROVE  WorkerMoves(w)
  BY <1>1, AnswerAdvances DEF TypedJobs, WorkerMoves
<1>2. ASSUME NEW w \in Worker, Pick(w) PROVE WorkerMoves(w)
  BY <1>2, PickAdvances DEF TypedJobs, WorkerMoves
<1>3. ASSUME NEW w \in Worker, SearchFails(w) PROVE WorkerMoves(w)
  BY <1>3 DEF WorkerMoves
<1> QED
  BY <1>1, <1>2, <1>3 DEF Next, WorkerStep

(* Each search spends one unit and sends at most MaxAttempts requests.     *)
SpentBound == http <= MaxAttempts * (Budget - left)

LEMMA AdvanceSpends ==
    ASSUME TypedJobs, SpentBound, NEW w \in Worker, NEW c \in Candidate,
           Advances(w, c)
    PROVE  SpentBound'
<1>1. CASE Sends(w, c)
  <2>1. /\ left' = left - 1
        /\ \E n \in 0..MaxAttempts : http' = http + n
    BY <1>1, SendsEffect DEF TypedJobs
  <2>2. http' <= http + MaxAttempts
    BY <2>1, FanoutConstants DEF FanoutConstants, TypedJobs, TypeOK
  <2>3. MaxAttempts * (Budget - left') = MaxAttempts * (Budget - left) + MaxAttempts
    BY <2>1, FanoutConstants DEF FanoutConstants, TypedJobs, TypeOK
  <2>4. MaxAttempts * (Budget - left) \in Int /\ http' \in Int
    BY <2>1, FanoutConstants DEF FanoutConstants, TypedJobs, TypeOK
  <2> QED
    BY <2>2, <2>3, <2>4, FanoutConstants
    DEF FanoutConstants, SpentBound, TypedJobs, TypeOK
<1>2. CASE Returns(w, c)
  BY <1>2, ReturnsEffect DEF TypedJobs, SpentBound
<1> QED
  BY <1>1, <1>2 DEF Advances

(* A request never sends more than its budget of searches, each with its   *)
(* retries, counting what its workers do after it failed                   *)
(* (query-planner.ts:23-33, :87, :176).                                    *)
THEOREM WithinBudget == Spec => []BudgetBound
<1>1. Init => SpentBound
  <2> SUFFICES ASSUME Init PROVE SpentBound
    OBVIOUS
  <2>1. Budget - left = Cardinality(Worker)
    BY WorkerCount, FanoutConstants DEF Init, FanoutConstants
  <2> QED
    BY <2>1, WorkerCount, FanoutConstants DEF Init, SpentBound, FanoutConstants
<1>2. TypedJobs /\ SpentBound /\ [Next]_vars => SpentBound'
  <2> SUFFICES ASSUME TypedJobs, SpentBound, [Next]_vars PROVE SpentBound'
    OBVIOUS
  <2>1. ASSUME NEW w \in Worker, WorkerMoves(w) PROVE SpentBound'
    <3>1. CASE Busy(w) /\ Advances(w, job[w].cand)
      BY <3>1, AdvanceSpends DEF TypedJobs, JobsInRange
    <3>2. CASE next \in Candidate /\ Advances(w, next)
      BY <3>2, AdvanceSpends
    <3>3. CASE UNCHANGED <<left, http>>
      BY <3>3 DEF SpentBound
    <3> QED
      BY <2>1, <3>1, <3>2, <3>3 DEF WorkerMoves, SearchFails
  <2>2. CASE Respond \/ UNCHANGED vars
    BY <2>2 DEF Respond, vars, SpentBound
  <2> QED
    BY <2>1, <2>2, StepShape
<1>3. TypedJobs /\ SpentBound => BudgetBound
  <2> SUFFICES ASSUME TypedJobs, SpentBound PROVE BudgetBound
    OBVIOUS
  <2>1. Budget - left <= Budget /\ Budget - left \in Nat
    BY FanoutConstants DEF FanoutConstants, TypedJobs, TypeOK
  <2>2. MaxAttempts * (Budget - left) <= MaxAttempts * Budget
    BY <2>1, FanoutConstants DEF FanoutConstants
  <2> QED
    BY <2>1, <2>2, FanoutConstants
    DEF FanoutConstants, BudgetBound, SpentBound, TypedJobs, TypeOK
<1> QED
  BY <1>1, <1>2, <1>3, TypeCorrect, PTL DEF Spec, TypedJobs

-----------------------------------------------------------------------------
(* How the workers share out the candidates: each one below the index has  *)
(* a worker, a result or a failed request; and what a response rests on.   *)
Planned(c) == \E w \in Worker : Busy(w) /\ job[w].cand = c
JobsApart ==
    \A v, w \in Worker : Busy(v) /\ Busy(w) /\ job[v].cand = job[w].cand => v = w
Unplanned ==
    \A c \in Candidate : c >= next \/ Planned(c) => yield[c] = NotYet
NoneLost ==
    \A c \in Candidate :
        c < next /\ yield[c] = NotYet => Planned(c) \/ response.status \in Errors
DoneAtEnd == \A w \in Worker : job[w].at = "done" => next = N + 1
Answered ==
    /\ response.status = "pending" => response = Pending
    /\ response.status = "ok" =>
         response = Merged /\ \A w \in Worker : job[w].at = "done"
Sharing == JobsApart /\ Unplanned /\ NoneLost /\ DoneAtEnd /\ Answered

LEMMA InitShares == Init => Sharing
<1> SUFFICES ASSUME Init PROVE Sharing
  OBVIOUS
<1>1. \A w \in Worker : Busy(w) /\ job[w].cand = w /\ job[w].at = "probe"
  BY DEF Init, Awaits, Busy
<1>2. \A c \in Candidate : yield[c] = NotYet
  BY DEF Init
<1>3. \A c \in Candidate : c < next => c \in Worker
  BY WorkerCount, FanoutConstants DEF Init, Candidate, FanoutConstants
<1>4. JobsApart
  BY <1>1 DEF JobsApart
<1>5. Unplanned
  BY <1>2 DEF Unplanned
<1>6. NoneLost
  BY <1>1, <1>3 DEF NoneLost, Planned
<1>7. DoneAtEnd
  BY <1>1 DEF DoneAtEnd
<1>8. Answered
  BY DEF Init, Pending, Answered
<1> QED
  BY <1>4, <1>5, <1>6, <1>7, <1>8 DEF Sharing

(* An advance on a candidate that is the worker's, or the next one.        *)
LEMMA AdvanceShares ==
    ASSUME TypedJobs, Sharing, NEW w \in Worker, NEW c \in Candidate,
           Advances(w, c), UNCHANGED <<match, response>>,
           \/ Busy(w) /\ job[w].cand = c /\ next' = next
           \/ job[w].at = "pick" /\ c = next /\ next' = next + 1
    PROVE  Sharing'
<1> USE DEF TypedJobs
<1>1. c < next' /\ next <= next' /\ next' \in Int /\ next \in Int
      /\ \A d \in Candidate : d \in Int /\ (d < next' /\ d # c => d < next)
  BY DEF TypeOK, JobsInRange, Candidate
<1>2. \A v \in Worker \ {w} : Busy(v) => job[v].cand # c
  BY DEF Sharing, JobsApart, JobsInRange, TypeOK, Busy
<1>3. yield[c] = NotYet
  BY DEF Sharing, Unplanned, Planned, TypeOK
<1>4. \A v \in Worker \ {w} : job'[v] = job[v]
  BY SendsEffect, ReturnsEffect DEF Advances, TypeOK
<1>5. ASSUME NEW v \in Worker \ {w}
      PROVE  Busy(v)' <=> Busy(v)
  BY <1>4 DEF Busy
<1>6. job'[w].at # "done" /\ job[w].at # "done"
  BY SendsEffect, ReturnsEffect DEF Advances, TypeOK, Busy
<1>7. Answered' /\ response.status # "ok"
  BY <1>6 DEF Sharing, Answered
<1>8. DoneAtEnd'
  <2> SUFFICES ASSUME NEW v \in Worker, job'[v].at = "done"
               PROVE  next' = N + 1
    BY DEF DoneAtEnd
  <2>1. v # w /\ job[v].at = "done"
    BY <1>4, <1>6
  <2>2. next = N + 1
    BY <2>1 DEF Sharing, DoneAtEnd
  <2> QED
    BY <1>1, <2>2, FanoutConstants DEF FanoutConstants, Candidate
<1>9. CASE Sends(w, c)
  <2>1. Busy(w)' /\ job'[w].cand = c /\ yield' = yield
    BY <1>9, SendsEffect DEF TypeOK, Busy
  <2>2. \A d \in Candidate : Planned(d)' <=> (Planned(d) \/ d = c)
    BY <1>4, <1>5, <2>1 DEF Planned, Busy
  <2>3. JobsApart'
    BY <1>2, <1>4, <1>5, <2>1 DEF Sharing, JobsApart
  <2>4. Unplanned'
    BY <1>1, <1>3, <2>1, <2>2 DEF Sharing, Unplanned
  <2>5. NoneLost'
    BY <1>1, <2>1, <2>2 DEF Sharing, NoneLost
  <2> QED
    BY <1>7, <1>8, <2>3, <2>4, <2>5 DEF Sharing
<1>10. CASE Returns(w, c)
  <2>1. ~Busy(w)'
    BY <1>10, ReturnsEffect DEF TypeOK, Busy
  <2>2. yield'[c] # NotYet /\ \A d \in Candidate \ {c} : yield'[d] = yield[d]
    BY <1>10, ReturnsEffect DEF TypeOK
  <2>3. \A d \in Candidate : Planned(d)' <=> (Planned(d) /\ d # c)
    BY <1>2, <1>4, <1>5, <2>1 DEF Planned, Busy
  <2>4. JobsApart'
    BY <1>4, <1>5, <2>1 DEF Sharing, JobsApart
  <2>5. Unplanned'
    BY <1>1, <2>2, <2>3 DEF Sharing, Unplanned
  <2>6. NoneLost'
    BY <1>1, <2>2, <2>3 DEF Sharing, NoneLost
  <2> QED
    BY <1>7, <1>8, <2>4, <2>5, <2>6 DEF Sharing
<1> QED
  BY <1>9, <1>10 DEF Advances

(* The two ways a worker stops: its search failed, or no candidate is left.*)
LEMMA FailureShares ==
    ASSUME TypedJobs, Sharing, NEW w \in Worker, SearchFails(w)
    PROVE  Sharing'
<1> USE DEF TypedJobs
<1>1. Busy(w) /\ job[w].at # "done" /\ response.status # "ok"
  BY DEF SearchFails, Busy, Sharing, Answered
<1>2. response'.status \in Errors
  <2>1. CASE response = Pending
    <3>1. \A code \in Errors : [Pending EXCEPT !.status = code].status = code
      BY DEF Pending
    <3> QED
      BY <2>1, <3>1 DEF SearchFails
  <2>2. CASE response # Pending
    <3>1. response.status \in {"pending", "ok"} \cup Errors
      BY DEF TypeOK, Responses
    <3> QED
      BY <1>1, <2>2, <3>1 DEF SearchFails, Sharing, Answered
  <2> QED
    BY <2>1, <2>2
<1>3. response'.status # "ok" /\ response'.status # "pending"
  BY <1>2, FanoutConstants DEF FanoutConstants
<1>4. \A v \in Worker \ {w} : job'[v] = job[v]
  BY DEF SearchFails, TypeOK
<1>5. job'[w].at = "threw"
  BY DEF SearchFails, TypeOK, Away
<1>6. UNCHANGED <<next, yield>>
  BY DEF SearchFails
<1>7. JobsApart'
  BY <1>4, <1>5 DEF Sharing, JobsApart, Busy
<1>8. Unplanned'
  BY <1>4, <1>5, <1>6 DEF Sharing, Unplanned, Planned, Busy
<1>9. NoneLost'
  BY <1>2 DEF NoneLost
<1>10. DoneAtEnd'
  BY <1>4, <1>5, <1>6 DEF Sharing, DoneAtEnd
<1>11. Answered'
  BY <1>3 DEF Answered
<1> QED
  BY <1>7, <1>8, <1>9, <1>10, <1>11 DEF Sharing

LEMMA DoneShares ==
    ASSUME TypedJobs, Sharing, NEW w \in Worker,
           job[w].at = "pick", next = N + 1,
           job' = [job EXCEPT ![w] = Away("done")],
           UNCHANGED <<match, next, yield, left, refused, http, response>>
    PROVE  Sharing'
<1> USE DEF TypedJobs
<1>1. \A v \in Worker \ {w} : job'[v] = job[v]
  BY DEF TypeOK
<1>2. job'[w].at = "done" /\ ~Busy(w)
  BY DEF TypeOK, Away, Busy
<1>3. response.status # "ok"
  BY DEF Sharing, Answered
<1>4. JobsApart'
  BY <1>1, <1>2 DEF Sharing, JobsApart, Busy
<1>5. \A c \in Candidate : Planned(c)' <=> Planned(c)
  BY <1>1, <1>2 DEF Planned, Busy
<1>6. Unplanned' /\ NoneLost'
  BY <1>5 DEF Sharing, Unplanned, NoneLost
<1>7. DoneAtEnd' /\ Answered'
  BY <1>3 DEF DoneAtEnd, Sharing, Answered
<1> QED
  BY <1>4, <1>6, <1>7 DEF Sharing

LEMMA RespondShares ==
    ASSUME TypedJobs, Sharing, Respond
    PROVE  Sharing'
<1> USE DEF TypedJobs
<1>1. \A w \in Worker : job[w].at = "done"
  BY DEF Respond
<1>2. \A c \in Candidate : ~Planned(c)
  BY <1>1 DEF Planned, Busy
<1>3. response.status \notin Errors
  BY FanoutConstants DEF FanoutConstants, Respond, Pending
<1>4. response' = Merged /\ Merged' = Merged /\ Merged.status = "ok"
  BY DEF Respond, Merged, MergeOf
<1>5. UNCHANGED <<next, job, yield>>
  BY DEF Respond
<1>6. \A c \in Candidate : c < next => yield[c] # NotYet
  BY <1>2, <1>3 DEF Sharing, NoneLost
<1>7. JobsApart' /\ Unplanned' /\ DoneAtEnd'
  BY <1>5 DEF Sharing, JobsApart, Unplanned, Planned, DoneAtEnd, Busy
<1>8. NoneLost'
  BY <1>5, <1>6 DEF NoneLost
<1>9. Answered'
  BY <1>1, <1>4, <1>5 DEF Answered
<1> QED
  BY <1>7, <1>8, <1>9 DEF Sharing

LEMMA SharingPreserved ==
    ASSUME TypedJobs, Sharing, [Next]_vars
    PROVE  Sharing'
<1>1. ASSUME NEW w \in Worker, WorkerMoves(w) PROVE Sharing'
  <2>1. CASE /\ Busy(w) /\ Advances(w, job[w].cand)
             /\ UNCHANGED <<match, next, response>>
    <3>1. job[w].cand \in Candidate
      BY <2>1 DEF TypedJobs, JobsInRange
    <3> QED
      BY <2>1, <3>1, AdvanceShares
  <2>2. CASE /\ job[w].at = "pick" /\ next \in Candidate /\ next' = next + 1
             /\ Advances(w, next)
             /\ UNCHANGED <<match, response>>
    BY <2>2, AdvanceShares
  <2>3. CASE /\ job[w].at = "pick" /\ next = N + 1
             /\ job' = [job EXCEPT ![w] = Away("done")]
             /\ UNCHANGED <<match, next, yield, left, refused, http, response>>
    BY <2>3, DoneShares
  <2>4. CASE SearchFails(w)
    BY <2>4, FailureShares
  <2> QED
    BY <1>1, <2>1, <2>2, <2>3, <2>4 DEF WorkerMoves
<1>2. CASE Respond
  BY <1>2, RespondShares
<1>3. CASE UNCHANGED vars
  BY <1>3 DEF vars, Sharing, JobsApart, Unplanned, NoneLost, Planned,
              DoneAtEnd, Answered, Merged, MergeOf, Busy
<1> QED
  BY <1>1, <1>2, <1>3, StepShape

(* Each candidate is planned once, by one worker, and none is missing from *)
(* a response (pMap, fanout.service.ts:29-46).                             *)
THEOREM CandidatesShared == Spec => []EachCandidateOnce
<1>1. TypedJobs /\ Sharing => EachCandidateOnce
  <2> SUFFICES ASSUME TypedJobs, Sharing PROVE EachCandidateOnce
    OBVIOUS
  <2>1. ASSUME NEW w \in Worker, Busy(w)
        PROVE  /\ yield[job[w].cand] = NotYet
               /\ \A v \in Worker \ {w} : Busy(v) => job[v].cand # job[w].cand
    BY <2>1 DEF TypedJobs, JobsInRange, Sharing, Unplanned, Planned, JobsApart
  <2>2. ASSUME response.status = "ok", NEW c \in Candidate
        PROVE  yield[c] # NotYet
    <3>1. \A w \in Worker : job[w].at = "done"
      BY <2>2 DEF Sharing, Answered
    <3>2. 1 \in Worker
      BY WorkerCount
    <3>3. c < next
      BY <3>1, <3>2, FanoutConstants
      DEF FanoutConstants, Sharing, DoneAtEnd, Candidate
    <3>4. ~Planned(c)
      BY <3>1 DEF Planned, Busy
    <3>5. response.status \notin Errors
      BY <2>2, FanoutConstants DEF FanoutConstants
    <3> QED
      BY <3>3, <3>4, <3>5 DEF Sharing, NoneLost
  <2> QED
    BY <2>1, <2>2 DEF EachCandidateOnce
<1>2. TypedJobs /\ Sharing /\ [Next]_vars => Sharing'
  BY SharingPreserved
<1> QED
  BY <1>1, <1>2, InitShares, TypeCorrect, PTL DEF Spec, TypedJobs

-----------------------------------------------------------------------------
(* Every result a planner has returned is honest about what it leaves out. *)
HonestYields ==
    \A c \in Candidate : yield[c] = NotYet \/ HonestResult(c, yield[c])

LEMMA FirstOfFew ==
    ASSUME NEW S \in SUBSET Doc, Cardinality(S) <= Cap
    PROVE  First(S, Cap) = S
<1>1. IsFiniteSet(S) /\ Cardinality(S) \in Nat
  BY FS_Subset, FS_CardinalityType, FanoutConstants DEF FanoutConstants
<1>2. ASSUME NEW d \in S
      PROVE  Cardinality({e \in S : Before(Record[e], Record[d])}) < Cap
  <2> DEFINE T == {e \in S : Before(Record[e], Record[d])}
  <2>1. T \in SUBSET S /\ d \notin T
    BY Irreflexive, FanoutConstants DEF FanoutConstants
  <2> HIDE DEF T
  <2>2. T # S
    BY <2>1
  <2>3. /\ IsFiniteSet(T) /\ Cardinality(T) <= Cardinality(S)
        /\ Cardinality(T) # Cardinality(S) /\ Cardinality(T) \in Nat
    BY <1>1, <2>1, <2>2, FS_Subset, FS_CardinalityType
  <2>4. Cardinality(T) < Cap
    BY <1>1, <2>3, FanoutConstants DEF FanoutConstants
  <2> QED
    BY <2>4 DEF T
<1> QED
  BY <1>2 DEF First

(* A response that does not say truncated has everything upstream holds    *)
(* for the queries it settled on (fanout.service.ts:117-123).              *)
THEOREM HonestlyTruncated == Spec => []HonestTruncation
<1>1. Init => HonestYields
  BY DEF Init, HonestYields
<1>2. TypedJobs /\ HonestYields /\ [Next]_vars => HonestYields'
  <2> SUFFICES ASSUME TypedJobs, HonestYields, [Next]_vars
               PROVE  HonestYields'
    OBVIOUS
  <2>1. ASSUME NEW w \in Worker, NEW c \in Candidate, Advances(w, c),
               match' = match
        PROVE  HonestYields'
    <3>1. CASE Sends(w, c)
      BY <2>1, <3>1, SendsEffect DEF TypedJobs, HonestYields, HonestResult
    <3>2. CASE Returns(w, c)
      <4>1. PICK r \in PlannerResults :
              yield' = [yield EXCEPT ![c] = r] /\ HonestResult(c, r)
        BY <3>2, ReturnsEffect DEF TypedJobs
      <4> QED
        BY <2>1, <4>1 DEF TypedJobs, TypeOK, HonestYields, HonestResult
    <3> QED
      BY <2>1, <3>1, <3>2 DEF Advances
  <2>2. CASE UNCHANGED <<match, yield>>
    BY <2>2 DEF HonestYields, HonestResult
  <2>3. ASSUME NEW w \in Worker, WorkerMoves(w) PROVE HonestYields'
    BY <2>1, <2>2, <2>3 DEF WorkerMoves, SearchFails, TypedJobs, JobsInRange
  <2> QED
    BY <2>2, <2>3, StepShape DEF Respond, vars
<1>3. TypedJobs /\ Sharing /\ EachCandidateOnce /\ HonestYields
        => HonestTruncation
  <2> SUFFICES ASSUME TypedJobs, Sharing, EachCandidateOnce, HonestYields,
                      response.status = "ok", ~response.truncated,
                      NEW c \in Candidate
               PROVE  match[c][yield[c].step] \subseteq response.docs
    BY DEF HonestTruncation
  <2> DEFINE docs == UNION {yield[d].docs : d \in Candidate}
  <2>1. response = Merged
    BY DEF Sharing, Answered
  <2>2. response.docs = First(docs, Cap)
    BY <2>1 DEF Merged, MergeOf
  <2>3. ~(Cardinality(docs) > Cap) /\ ~yield[c].truncated
    BY <2>1 DEF Merged, MergeOf
  <2>4. match[c][yield[c].step] \subseteq yield[c].docs
    BY <2>3 DEF EachCandidateOnce, HonestYields, HonestResult
  <2>5. docs \in SUBSET Doc
    BY DEF TypedJobs, TypeOK, PlannerResults
  <2>6. Cardinality(docs) \in Nat
    BY <2>5, FS_Subset, FS_CardinalityType, FanoutConstants DEF FanoutConstants
  <2>7. yield[c].docs \subseteq docs
    OBVIOUS
  <2> HIDE DEF docs
  <2>8. First(docs, Cap) = docs
    BY <2>3, <2>5, <2>6, FirstOfFew, FanoutConstants DEF FanoutConstants
  <2> QED
    BY <2>2, <2>4, <2>7, <2>8
<1>4. TypedJobs /\ Sharing /\ [Next]_vars => Sharing'
  BY SharingPreserved
<1> QED
  BY <1>1, <1>2, <1>3, <1>4, InitShares, CandidatesShared, TypeCorrect, PTL
  DEF Spec, TypedJobs

-----------------------------------------------------------------------------
(* What a cap withholds comes after all it lets through.                   *)
LEMMA FirstAreFirst ==
    ASSUME NEW S \in SUBSET Doc, NEW d \in First(S, Cap), NEW e \in S \ First(S, Cap)
    PROVE  Before(Record[d], Record[e])
<1> DEFINE Above(x) == {y \in S : Before(Record[y], Record[x])}
<1>1. d \in S /\ d # e /\ Cardinality(Above(d)) < Cap /\ ~(Cardinality(Above(e)) < Cap)
  BY DEF First
<1>2. /\ \A x \in S : Record[x] \in LegalResult
      /\ Record[d].court # Record[e].court \/ Record[d].docket # Record[e].docket
  BY <1>1, FanoutConstants DEF FanoutConstants
<1>3. ~Before(Record[e], Record[d])
  <2> SUFFICES ASSUME Before(Record[e], Record[d]) PROVE FALSE
    OBVIOUS
  <2>1. Above(e) \subseteq Above(d)
    BY <1>1, <1>2, Transitive
  <2>2. Above(d) \subseteq S
    OBVIOUS
  <2> HIDE DEF Above
  <2>3. IsFiniteSet(Above(d))
    BY <2>2, FS_Subset, FanoutConstants DEF FanoutConstants
  <2>4. Cardinality(Above(e)) <= Cardinality(Above(d)) /\ IsFiniteSet(Above(e))
    BY <2>1, <2>3, FS_Subset
  <2>5. Cardinality(Above(e)) \in Nat /\ Cardinality(Above(d)) \in Nat /\ Cap \in Nat
    BY <2>3, <2>4, FS_CardinalityType, FanoutConstants DEF FanoutConstants
  <2> QED
    BY <1>1, <2>4, <2>5
<1> QED
  BY <1>1, <1>2, <1>3, Total

(* A response keeps the best of what the candidates found: the courts of   *)
(* the highest tier, and the newest of a tier (fanout.service.ts:115-123). *)
THEOREM BestKept == Spec => []BestReturned
<1>1. TypedJobs /\ Sharing => BestReturned
  <2> SUFFICES ASSUME TypedJobs, Sharing, response.status = "ok",
                      NEW d \in response.docs, NEW e \in MergedDocs \ response.docs
               PROVE  LET a == Record[d]  b == Record[e]
                      IN  Tier(a) < Tier(b) \/ (Tier(a) = Tier(b) /\ a.filed >= b.filed)
    BY DEF BestReturned
  <2>1. response.docs = First(MergedDocs, Cap)
    BY DEF Sharing, Answered, Merged, MergeOf, MergedDocs
  <2>2. MergedDocs \in SUBSET Doc
    BY DEF TypedJobs, TypeOK, PlannerResults, MergedDocs
  <2>3. Before(Record[d], Record[e])
    BY <2>1, <2>2, FirstAreFirst
  <2>4. d \in Doc /\ e \in Doc
    BY <2>1, <2>2 DEF First
  <2>5. Record[d].filed \in Nat /\ Record[e].filed \in Nat
    BY <2>4, FanoutConstants, RecordsAreNumbers DEF FanoutConstants
  <2> QED
    BY <2>3, <2>5 DEF Before
<1>2. TypedJobs /\ Sharing /\ [Next]_vars => Sharing'
  BY SharingPreserved
<1> QED
  BY <1>1, <1>2, InitShares, TypeCorrect, PTL DEF Spec, TypedJobs
=============================================================================
