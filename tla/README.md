# Verification of the legal-results service

TLA+ models of the service that answers `POST /api/v1/legal_results` from the
DocketAlarm search API: the token and the rate its pods share, the policy around
every call, the fan-out of one request, the cache in front of it, and the way a
pod goes down. TLC checks the models on small instances, TLAPS proves every
safety property of theirs and four refinements for every value of the constants. Source paths are
relative to `src/src/`; line numbers are those of the commit in `src/`.

## The system

A request is validated, looked up in the result cache, and on a miss fanned out
over the candidate names of the entity. Each name is narrowed down a ladder of
queries and paged by a query planner. Each search goes through a cluster-wide
limiter and a resilience policy to the client, which needs a token that all
pods share through Redis.

| Component | State it keeps | Operations | What makes it correct |
|---|---|---|---|
| Token service (`docket-alarm/docket-alarm.token.service.ts`) | Redis `da:token`, `da:token:refresh`; channel `da:token:new`; waiters per pod | `getToken`, `refreshToken`, `waitForToken`, `invalidateToken`, `executeLogin` | one refresher at a time, no orphaned lock, tokens only move forward, every caller ends |
| Client (`docket-alarm.client.ts`) | none | `search`, `executeSearch` | one retry after a 401; each 429 reported to the limiter |
| Limiter (`docket-alarm.limiter.ts`) | Redis reservoir and refresh amount; ceiling, last 429 and interval per pod; login limiter | `scheduleSearch`, `scheduleLogin`, `handle429`, `attemptLinearIncrease` | the shared rate follows AIMD and recovers |
| Policy (`docket-alarm.policy.ts`) | bulkhead queue, breaker state, per pod | `execute` | bounded retries, no call left halted, breaker opens and closes again |
| Fan-out (`legal-results/alias-fanout`) | call budget, shared index, results, of one request | `execute`, `pMap`, `dedupResults` | every candidate once, budget kept, honest flags, order of answers irrelevant |
| Query planner (`legal-results/query-planner`) | current query, pages fetched | `planAndSearch`, `paginateQuery` | settles on the first query under the cap, fetches all of it |
| Court classifier, address parser, state courts, sorting | none | pure functions | a total, deterministic order; the right courts |
| Result cache (`legal-results/cache`) | Redis entries, in-process single-flight map | `getLegalResults`, bypass | one promise per key and pod, never the answer of another entity |
| Validation, controller, error mapping, configuration | none | pure functions | every failure has the documented status, and is tried again if another try may help |
| Shutdown and health (`main.ts`, `shared/health`) | readiness flag, shutdown guard | drain on SIGTERM, probes | one drain, which ends; in-flight requests end before Redis is closed; no new poll takes a draining pod back |
| Redis service, HTTP agent, observability | connections | plumbing | - |

Calls go down this list of layers: controller, cache, fan-out, planner, client
(through limiter, then policy), token service (through the login limiter, then
the same policy again), Redis and upstream. The only shared state across pods is in
Redis. Across requests of one pod, it is the waiters, the limiter's ceiling, the
breaker and the single-flight map. Across the workers of one request, it is the
index and the budget. `PROJECT.json` lists the hazards of each at the line where they bite.

## The models

**`TokenElection`**: any number of `executeSearch` calls and background
refreshes in several pods. `pc[p]` is the await an invocation is in; one action
runs from one await to the next.

| Code | Actions |
|---|---|
| `getToken` :50-81 | `Begin`, `ReadUsable` (with the coin of the warm window), `ReadUnusable` |
| `refreshToken` :83-117 | `AcquireLock`/`LoseElection` (SET NX PX), `StartLogin`, `StoreToken`, `PublishToken`, `CheckLock` and `ReleaseLock` (the GET and the DEL of the finally) |
| `executeLogin` :143-189 | `LoginSucceeds`, `LoginFails` |
| `waitForToken` :124-141, `onModuleInit` :34-48 | `PollTimer`, `DeliverNotice`, `RereadToken` |
| `executeSearch`, client.ts:36-145 | `SearchAnswered`, `Invalidate` |
| the environment | `AgeToken`, `RevokeToken`, `Tick`, `Crash`, `LoseReply` |

`Tick` counts down the lock's PX, the limiter's refill and the waiters'
deadline. An invocation may be arbitrarily slow between two ticks. That covers
the work the 20 s policy timeout gives up on: the abort signal is not
passed on, so a search or a login whose caller is gone runs on, and the model
just lets it. What an abandoned login does upstream to older tokens is covered
by `RevokeToken`. `LoseReply` is ioredis sending a command again after a
broken connection (`maxRetriesPerRequest: null`, redis.service.ts:12-16). A
dead pod's login job is taken to free its Bottleneck slot at once.

`TokenRotation` is the abstract specification: a register of one token, with one
elected writer at a time, which logs in once, stores nothing but the newest
token and steps down with it; readers that work with what the register held when
they read it; and, once the election is overrun (a lease lapsed under its owner,
or a DEL was sent twice), no more than that every token comes from a login. The refinement maps `elected` to those in the
section between SET NX and the end of the finally (`Leading`), `bearer` to the one among
them that has logged in (`Bearers`), `stored` to the token in `da:token`, `using` to the token of a
search that is calling upstream (`Using`). The lock, the limiter, the waiters and the
messages are invisible to it; a crash is `Leave` of all that ran in the pod; a
lost reply is the same `Store` or `Drop` once more.

**`Fanout`**: one request. `job[w]` is what a worker of `pMap` awaits, `next`
the shared index, `left` the `CallBudget`. One action is the answer to a search
with all the planner computes from it, up to the next search it sends (two
awaits have nothing between them that others could see). `match[c]` is what
upstream holds for each query of candidate c's ladder; it is chosen at the start
and stands still. A document stands for a (court, docket) pair, so that union
deduplicates, and has a court, docket and date in `Record`. `partial`
stands for `unnarrowable` as well: the planner gives both the same value at
every return. The order is that of `CourtOrder`. `upstreamCount` and the step names are left out.

`BudgetedSearch` is the abstract specification: each name is searched by itself,
with calls drawn one by one from a shared budget and only so many names at once; a name ends when it has had
all the calls it needs, or as soon as the budget is empty, with what the calls it had bring in; the answer merges
what all names brought in, or is the first error, and stays. The refinement (`Searching`) computes the calls a
candidate has had from where its worker is (`CallsHad`: probes by the step, pages by the page); `Need` and `After`
say, of a ladder by itself, how many calls a search takes and what it returns after
fewer. Which worker searches a name, the shared index, whether an answer is a probe's or a page's, and
the requests behind a call are invisible to it; so is a worker that runs on after the request has failed,
except that the names it searches still draw on the budget.

**`AimdLimiter`**: the search limiter. Pods assign their ceiling at once
and send `updateSettings` to Redis, where it is executed later, in order per pod.
`RefreshReservoir` may happen at any time, which covers every phase of the 10 s
window against the 60 s interval. Bottleneck itself (reservoir, slots,
settings that survive its clients) is modelled from the options
at limiter.ts:20-29: options of a later client do not overwrite
stored settings. An `updateSettings` that Redis rejects is not modelled: the ceiling is assigned before it
(limiter.ts:65-70, :99-103), so that `LastWordIsCeiling` and `AdditiveUpHalfDown` would both fail until the
pod's next update.

**`ResultCache`**: requests of several pods. An entity is kept as the names and
addresses the key (`normalizedEntityHash`, :22-64) and the queries (`Asks`: the
ladders and `parseStateCodes`) are made of, so that the model knows which
entities share a key and which of them ask different things. A name counts if it is
confident and not blank (`Names`), an address likewise (`Located`); `Valid` and
`Invalid` are `validateAndNormalizeEntityRequest`, and both hold of an entity
whose most confident names tie, one of two words and one of fewer, because the code looks at the first
of them and the model keeps no order. The text of an address is reduced to the
state names it contains and the code it falls back to; `ExtractState` takes the first name of the code's
table. `pc[r]` is what a
request awaits; the promise async-cache-dedupe holds per pod and key is the
request that began it (`Flying`), and the others of its key wait for it.

| Code | Actions |
|---|---|
| request.dto.ts, controller | `Refuse` |
| `getLegalResults` :166-176 with the cached function :131-133 | `Begin`, `Hit`, `Miss`, `FanoutAnswers`, `FanoutFails`, `Resolve` |
| `stale` :129 | `Refresh`, the computation behind a stale hit, which nobody shares |
| the bypass :146-164 | `BeginBypass`, `BypassAnswers`, `BypassFails` |
| Redis | `ExecuteWrite` (a `SET` on its way, executed later or failed), `Tick` |

The library itself is not in the repository; what the model takes from
it is: one promise per key, an entry that lives for `ttl` plus `stale` (for `ttl`
when written by `set`, as the bypass does), and a refresh in the stale part, which is outside the
promise: each stale hit searches anew, beside other refreshes and beside a miss. Whether
the library settles the promise before or after its `SET` is left open.
`OneAnswer` is the abstract specification: a service that tells each client once, a
right answer to its question or an error, and tells those it tells together the same. The
refinement maps a request's question to `Asks` of its entity and its answer to what it
has got once it has ended; entries, promises, writes and refreshes are invisible to it.

**`ResiliencePolicy`**, on top of **`ErrorMapping`**: the calls of one pod, the
search slots of the limiter and the one login, through breaker, retry and timeout.
One action is one event for the policy: a call enters, a token or an answer
arrives, a timer fires.

| Code | Actions |
|---|---|
| `execute`, policy.ts:93, the breaker :61-67 | `Begin`, `BeginLogin`, `Resume` (all `Enter`); `Success`, `Failure`, `Unhandled` when it ends |
| retry :51-59 | `RetryLater`, `TryAgain`, `Rejects` |
| timeout :49, `halfOpenAfter` :64 | `Timeout` (`GivesUp`), `Cool` |
| `executeSearch` client.ts:36-145 | `Send`, `SearchAnswered`, `Unauthorized` (the one-shot 401 retry); `StraySends`, `StrayEnds` of an abandoned try |
| `getToken`, `refreshToken` token.service.ts:50-117 | `Elects`, `ElectsBehind`, `Denied`, `LoginAnswered` |
| the environment | `Upstream` |

cockatiel is not in the repository: what it does beyond the options is modelled from
the way its policies nest here. A call that finds the circuit half-open is halted until the test it
found has ended, and then enters anew; an error the breaker does not handle lets a
test pass; a call let in earlier keeps counting, so that a late failure may open
the circuit beside its test. The bulkhead has no state: the limiters start at most
8 searches and one login, and `PolicyConstants` says that these fit into its 20
places. An answer is a status and what its body says as far as
`mapDocketAlarmError` looks. The timeout rejects its caller and nothing else (the signal is not
passed to `executeSearch`), so that the try it gives up on runs on when its slot has another search and the circuit
has opened: it may await a login for longer than the 20 s, send, and send once more after a 401. To the policy all this is
invisible, but for a login it may schedule (`ElectsBehind`); what it sends is counted for one call of
one slot, which is followed to its very end: `Watched` is the slot, any of them,
`followed` that call, `stray` the requests its abandoned try may yet send, and `leak`
what it has sent past a circuit that is not closed, since the circuit was last closed. `gaveUp`, `followed`
and `leak` are history variables. `IsRetryableError` leaves out the network codes of policy.ts:27-38:
`executeSearch` wraps whatever the agent throws (client.ts:122-133), so that they do not reach it. `Circuit` is
the abstract specification: the three states of the gauge and the moves between them.

**`CourtOrder`**: `sortLegalResults` and `classifyCourt`, as operators. Which of
the four pattern lists a court name has a pattern of is a constant (`Says`), their precedence
is `ClassifyCourt`. `Fanout` EXTENDS it and gives every document a record (`Record`), so
that the cap is filled in the order of the comparator.

**`Shutdown`**: one pod and the load balancer in front of it.

| Code | Actions |
|---|---|
| `handleShutdown` main.ts:30-83 | `Signal` (`HandleShutdown`), `WindowOver`, `ExitDrained`, `DrainTimeout` |
| Nest's hooks, main.ts:27 | `Signal` (`NestHears`), `ClientsClosed`, `CloseServer`, `ServerClosed`, `KilledByNest` |
| `/health/ready` health.controller.ts:45-76 | `Poll` (`CheckReadiness`, the flag at :48), `Ping` (the answer to the ping at :58) |
| requests, Redis, the orchestrator | `Arrive`, `Answer`, `Fail`, `Redis`, `Kill` |

Nest 11 (external) answers a signal itself: it runs every `onModuleDestroy`, then closes the HTTP server,
then kills the process with that signal. `app.close()` runs the same hooks, so that the
model has one state of the clients and of the server for both; the two differ in when they begin
and in how the process ends. docker-compose.yml sets no
`stop_grace_period`, so that SIGKILL may come after 10 s (`Kill`). A poll reads the flag and then awaits its
ping, which hangs while Redis is down (`maxRetriesPerRequest: null`, redis.service.ts:13): `pings` are the polls
in between, requests in flight for the server.

## The runs

| Run | Instance | Shows |
|---|---|---|
| `token_safety` | 2 searches, 2 pods, 1 background refresh, 3 tokens | `TypeOK`, `ExclusiveUnlessOverrun`, `OneShotRetry`, `StoresNewest` |
| `token_faults` | 2 searches, 2 pods, 2 tokens, 1 crash, 1 lost reply, fairness | `ExclusiveUnlessOverrun`, `LockHasReleaser`; `IsRotation`, `EverySearchEnds`, `LockAlwaysFreed` |
| `token_rotation` | violation | `SeamlessRotation`: a late 401 deletes the fresh token |
| `fanout_core` | 3 names, 2 workers, budget 6, 2 attempts, fairness | `TypeOK`, `BudgetBound`, `EachCandidateOnce`, `HonestTruncation`, `OrderIndependent`, `CapFilled`, `BestReturned`, `BudgetHitIsTruncated`; `RequestSettles`, `IsBudgetedSearch`, `WorkRunsOut` |
| `fanout_flag` | violation | `BudgetHitIsFlagged`: not when the budget runs out between pages |
| `aimd_core` | 2 pods, 2 updates each under way, 1 restart, fairness | `TypeOK`, `LastWordIsCeiling`; `AdditiveUpHalfDown`, `LivePodsRecover` |
| `aimd_restart` | violation | `RateRecovers` fails after a restart |
| `cache_core` | 3 requests in 2 pods, 4 entities of 2 keys, fairness | `TypeOK`, `OwnAnswer`, `OneSharedPromise`; `IsOneAnswer`, `EveryRequestEnds` |
| `cache_doubtful` | violation | `OwnAnswer` fails for persons with low-confidence addresses only |
| `policy_core` | 2 slots and the login, 2 tries, threshold 2, fairness | `TypeOK`, `HalfOpenIsTested`, `LeakBound`, `ToldAfterRetries`; `IsCircuit`, `EveryCallEnds`, `CircuitRecovers` |
| `shutdown_core` | 2 requests, 3 signals, Redis down and up, fairness | `TypeOK`, `CutOnlyByTimeout`; `StaysOut`, `DrainEnds` |
| `shutdown_drain` | violation | `ClientsOutliveRequests`: Nest closes the clients at the first SIGTERM |

The violation runs are disagreements between the code and its README or its own
comments. `PROJECT.json` quotes the sentence each one refutes.

### Bounds

- *Token election.* Two searches in two pods are the fewest that contend in
  Redis; the background refresh shares the pod, and so the wake-up, of the first.
  Three tokens in `token_safety` give an old, a current and a newer one. `LockTtl = 2` there lets
  the lease lapse after the waiters' deadline and the limiter's refill, and, since an invocation may be arbitrarily slow,
  before any step of its owner. In `token_faults` the deadlines are 1 and the logins 2:
  what a crash or a lost reply leaves behind does not depend on how long the lease is, and a crash and a
  lost reply may strike in one behaviour. `token_rotation` keeps the real
  order of 5 s, 30 s and 60 s (1, 2, 4) and prompt answers, so that its violation is none of slowness.
- *Fan-out.* A cap of 3 and pages of 2 for 250 and 50: one full page and one
  short one. The six ladders of `MCFanout` are every outcome of narrowing. Two
  workers over three names make one of them come back for more, while the other is anywhere in its own. Budget 6 runs out in
  some assignments at a probe, in some between pages, and in some not at all.
  `MaxAttempts` is 2 (1 in `fanout_flag`) for the code's 8 (four tries, each possibly doubled by a 401).
  The four documents are of federal and state courts, one of which says both, and two of them have no date.
- *Limiter.* A ceiling of 4 or 5 and a floor of 1 for 20 and 2: odd and even
  ceilings, and the floor is reached and hit again. `MaxSent` bounds the updates under way.
- *Cache.* Two requests of one pod and one of another: the fewest that share a
  promise and an entry. Two of the four entities of `cache_core` share a key
  although one has a doubtful and a blank address besides; the third has a key of its own and is
  asked in another state than its second address says; the last is refused.
  `LongTtl = 2`, `ShortTtl = 1`, `Stale = 1`: a hit may be fresh, stale or gone.
- *Policy.* Two slots and the login are a test, a call it halts and a late
  failure beside it. Two tries and a threshold of two are the smallest with a retry and
  with a count that a success can interrupt; answers are all 25 pairs of status and body. One call at a time
  is followed, of one slot; a call let in while an earlier one's abandoned try runs on is not, which loses
  nothing, since that try may as well have ended before (`StrayEnds`) and nothing depends on it.
- *Shutdown.* Two requests: one may be in flight while another arrives. Signals come
  in any number and order. `MaxPings = 2`: polls that await their ping may take the pod back twice.

`CHECK_DEADLOCK FALSE` is set for `Fanout` only: a request ends.

### Fairness

`TokenElection!Fairness`: every continuation of the event loop runs, undici's
timeouts answer or fail each request (docket-alarm.http.ts:23-24), Redis replies, time
passes. Nothing is assumed of requests arriving, tokens ageing,
revocation, crashes, lost replies or of pub/sub delivery: the 500 ms
poll is enough. `Fanout!FairSpec`: every search is answered or fails.
`AimdLimiter!FairSpec`: time passes, interval callbacks run, Redis executes
updates; nothing is assumed of searches or of 429s, and `RateRecovers` speaks of the
case that the 429s stop (`LivePodsRecover` of the behaviours without a restart among these).
`ResultCache!FairSpec`: Redis answers a GET and every fan-out ends, as `RequestSettles` says it does.
`ResiliencePolicy!FairSpec`: the event loop runs every continuation and the two timers
fire; nothing is assumed of upstream, which may leave each request to its timeout.
`CircuitRecovers` speaks of the case that upstream has recovered for good and that
searches keep coming once the 10 s are over: the breaker has no timer that tests by itself.
`Shutdown!FairSpec`: the 5 s and the 25 s pass; nothing is assumed of Redis,
of the requests or of the load balancer.

## The proofs

All for every value of the constants allowed by `ConstantsOK`,
`FanoutConstants`, `CourtConstants`, `LimiterConstants`, `CacheConstants`, `NoneApart`,
`PolicyConstants` and `ShutdownConstants`.

- **`TokenElectionProofs`**. `TypeCorrect`. `Exclusive` rests on
  `ElectedOwnsLock`: until it is overrun, whoever is in the section between SET
  NX and the end of the finally is the owner in Redis. Mutual exclusion alone is not
  inductive: `ReleaseLock` deletes the key without looking, and only this
  invariant says that the key is its own. `Releaser` and `NewestStored` follow step by step
  (the second uses that only an elected invocation logs in). `TwoRequests` counts
  requests by stage (`CallsByStage`): one per attempt answered. `RefinesRotation` (`Spec => IsRotation`) needs
  two more invariants: nobody has or stores a token that was not issued (`TokensIssued`, which holds of an
  overrun election as well), and a refresher that has a token has the newest one (`BearersNewest`, which rests on
  `ElectedOwnsLock`: nobody else was elected, so nobody else logged in). `RotationStep` then takes the actions
  one by one, by who takes them (`SearchRotates`, `WaiterRotates`, `LeaderRotates`, `LostReplyRotates`,
  `WorldRotates`); that the leader is alone (`OneLeader`) is what makes its steps those of the one writer.
- **`FanoutProofs`**. `TypeCorrect` carries `JobsInRange` along: every busy worker is at
  a step of its own candidate's ladder and holds only documents of that query.
  `WithinBudget` bounds the requests by what has been spent. `CandidatesShared`
  needs that each name below the index has a worker, a result or a failed
  request. `HonestlyTruncated` combines that with what a planner returns
  (`SettledHonest`, by cardinality) and with the cap (`FirstOfFew`). `BestKept` follows
  from how `First` picks and from the order alone.
- **`FanoutOrderProofs`**. In a finite set under a strict total order the number of elements before each is a
  bijection with 0..n-1, so that exactly as many have fewer than m before them as there are, up to m (`RanksCount`). With
  the comparator as the order that is `CapIsFilled`; with upstream's it says what a page holds
  (`PageOffsets`), how the pages add up (`PagesAddUp`) and that the last one completes the query
  (`AllPages`), without induction. `OrderDoesNotMatter` rests on the invariant `Ordered`:
  every worker has got exactly the pages before the one it awaits, of a query all of whose predecessors are above
  the cap (`OnTrack`), and as long as nothing was refused each result is the one of `Expected`
  (`Unaided`). Equality of the responses alone is not inductive: it says nothing until the last answer.
  `BudgetHitShows` needs the third part, `RefusalShows`: a refusal has left a
  result flagged truncated behind (between pages because those fetched so far are fewer than
  the count, `PagesMissing`). `RefinesBudgetedSearch` (`Spec => IsBudgetedSearch`) adds `InPages`, that only missing
  pages are asked for, and `HadIs`, that `CallsHad` is what the one worker of a candidate has spent (one, by
  `JobsApart`). `MoveMaps` says what a move of a worker is to its name; every answer is then a `Call`
  or a `Finish` of that name (`ProbeSearches`, `PaginateSearches`), where `OnTrack` gives what is returned and `NeedIs`
  when: a planner is never past the query its ladder settles on (`SettledExists`: there is a first one that fits, by
  `RanksCount` again). That only so many names are searched
  at once is an injection of the names into the workers (`RoomForOne`).
  `EveryStepWorks` is the safety half of `RequestSettles`: three for every call left, two for every name not yet taken
  and every search under way, one for every idle worker and for the response add up to a number that every step makes
  smaller (`CountMove` counts the workers, `MoveWorks` adds up).
- **`CourtOrderProofs`**. `Irreflexive`, `Transitive` and `Total` make the comparator a strict
  order, total on documents of different court or docket: what `Array.prototype.sort` needs to
  give one result whatever the order it is handed. Each splits a comparison into tier, date
  and tie-break, with `Undated` as the date before all others.
- **`AimdLimiterProofs`**. `TypeCorrect`: every rate stays between floor and
  ceiling. `OfOneMind` is strengthened by `LastSentIsCeiling`: the last update under way carries
  the ceiling. `AimdSteps` rests on `Chained`: the updates of a pod
  under way form a chain of AIMD steps that ends at its ceiling and, for the pod
  with the last word, begins at what Redis holds. Across a change of speaker there is no such
  chain: each pod computes from its own ceiling.
- **`ResultCacheProofs`**. `TypeCorrect`, with `InProgress`: who waits, waits for a request
  of its own key. `PromiseShared` is two invariants: `OneFlight`, that promises of one pod differ in their
  keys, and `Awaited`, that who waits has a promise under way, which what settles a promise keeps because it lets
  go of all its `Callers`. `OwnAnswers`
  rests on `Faithful` (whatever is stored, under way or held answers the question of its key) and on
  `LocatedKeyDecides`: equal keys mean equal questions if no entity has an address more confident than
  all that count for the key (`ConfidentlyLocated`). That assumption is what `cache_doubtful` drops.
  `Refines` (`Spec => IsOneAnswer`, under the same assumption) maps every action: `Begin` asks,
  `Refuse` asks and is refused, what settles a promise tells all its callers one answer
  (`Telling`, with `Faithful` for its being right), everything else is a stutter (`Stutter`).
- **`ResiliencePolicyProofs`**. `Inv` adds to the properties that whatever was let in as a test
  is running (`Tested`), and what the tries of the followed call have cost so far (`Leaks`, by `Spent`:
  two requests for a finished try, at most one and the current for the running one, and for an
  abandoned one what it may yet send, `MaySendFacts`). `MoveFacts` is what the end
  of a call does to the breaker; with it each action is one step of the proof. `HalfOpenIsTested`
  alone is not inductive: that the call halted callers wait for is still running needs to know
  that only tests are waited for and that an ending test releases its callers. `RefinesCircuit`: each action moves the circuit as
  `Circuit` does or not at all.
- **`ShutdownProofs`**. `Inv`: a closed server has nothing left to work on, and the flag falls with
  the first draining signal. `OnlyTimeoutsCut` and `DrainingStaysOut` follow: the flag lets no
  poll of a draining pod get as far as its ping, so that only those under way can end well.

Only model-checked: the liveness properties (`EverySearchEnds`, `LockAlwaysFreed`, `RequestSettles`,
`LivePodsRecover`, `EveryRequestEnds`, `EveryCallEnds`, `CircuitRecovers`, `DrainEnds`), which need
fairness and are outside the prover's reach. Every invariant and every action property the passing runs check is a
theorem. Of `RequestSettles`, only that some step can be taken until all have ended is left to TLC.

## Not modelled

- The ladders of `ladder.ts` as text, the regular expressions of the address
  parser and of the court classifier, the table of courts, the zod schemas of
  request and configuration: conversions of strings, which the models take as
  constants (which patterns a name contains, which documents a query matches).
- Observability, logging, entities and wiring: no state the program reads back. The
  hit/miss label of the cache is kept per request by `nestjs-cls` and only
  reported, in a metric and in the response.
- Redis commands answered with an error: most reject the call like any failure the
  models have, a rejected `updateSettings` separates ceiling and rate (see `AimdLimiter`).
- What an abandoned try costs the limiter: its slot is free when the timeout has rejected its
  caller, so that more requests than `maxConcurrent` may be under way.
- Documents filed while a request is paging, and `Retry-After`, which
  is logged and passed to the caller but changes nothing in the limiter.
- The signal listener of OpenTelemetry (`otel.ts`), which shuts the SDK down.
- Composition of the policy with the election across pods: `TokenElection` lets a search or a
  login fail or take arbitrarily long at any time, which is all it could see of the
  policy, and `ResiliencePolicy` lets a token arrive or be denied at any time.

What is left to do: documents that move while a request is paging.

## Known disagreements without a run

Met while modelling; the models follow the code.

- The lock of the election lasts 30 s (token.service.ts:87), but the login behind it may queue for
  60 s behind the login limiter (limiter.ts:39-42): a second refresher is elected
  although nothing was slow. `ExclusiveUnlessOverrun` says what holds.
- `handle429` halves the pod's own ceiling, not the shared rate (limiter.ts:61-65): the first
  429 of one pod can raise the rate another has lowered. `AdditiveUpHalfDown` says what holds.
  A 429 also sets the permits of the running window, when fewer were left as well (limiter.ts:68).
- The budget of `fanout.service.ts:12`, a "hard upper bound on DA upstream calls", counts searches
  and not their retries (`BudgetBound`). The refusal at fanout.service.ts:66 is never reached: validation
  has refused the same entities before.
- `truncated` compares the number of rows fetched, repeated ones included, with the count of the probe
  (query-planner.ts:109). A document filed between two pages shifts the rest by one: a row is fetched twice and
  the oldest not at all, and the response is not truncated, although fanout.service.ts:118 says that it means
  "returned < what upstream held".
- A probe that upstream refuses as too broad fails the request (query-planner.ts:91) with a 400; README.md:266
  says "never a hard failure".
- README.md:10 promises an "in-process Promise single-flight", and README.md:57-58 a "Single-Flight Lock" for "Key
  Null / Stale". The refresh behind a stale hit is outside the promise (result-cache.service.ts:129-133): two stale
  hits one after the other, or a stale hit and then a miss, search upstream for one pod and key at the same
  time. `OneSharedPromise` says what holds.
- README.md:19 and :187 say that readiness flips to 503 during the drain. A poll that has read the flag before the
  signal and whose ping hangs is answered 200 when Redis comes back during the drain
  (health.controller.ts:48-58). `StaysOut` says what holds: no other poll is.
- README.md:18 counts the circuit signal and the single-flight lock among what lives in Redis; both are
  in the memory of each pod.
- token.service.ts:95 speaks of "retry+timeout+breaker" for the login; `executeLogin` turns every failure into
  `UpstreamAuthFailed`, which the policy neither retries nor counts.
- The test of a half-open circuit that needs a login of its own pod waits for itself: the
  login is halted behind it until its 20 s timeout, which then closes the circuit without any answer
  of upstream (`EveryCallEnds` holds because of the timeout).
- An open circuit and a timeout reach the client as 500 `internal`, not as an upstream error:
  the exception filter does not know them.
- Besides closing the clients at once, Nest closes the server as soon as they are closed, within
  the 5 s the load balancer is given (main.ts:41-46); and SIGHUP shuts the pod down with no readiness
  flip and no timeout, since main.ts listens to two signals and Nest to all.
- An address text with "West Virginia" is located in Virginia (address-parser.ts:54-60: the table is searched
  in order); "Kansas City, MO" is in Kansas and "Washington, DC" in the state of Washington.
- The key is made of lower-cased texts with single spaces, while the code fallback of the address parser
  looks at case and spacing, and a blank address is not in the key but may be the most
  confident one: two more ways for one key to stand for two questions.
- The classifier finds "circuit" and "district court" federal and knows a state court by "state,",
  "state court", "superior court" and "state supreme" only (court-classifier.ts:13-27): "Florida Circuit Court" and "Texas District Court" are FEDERAL, and
  so sorted first.
- `DA_TEST_MODE` is `z.coerce.boolean()` (config.schema.ts:15): the text `false` means true.
