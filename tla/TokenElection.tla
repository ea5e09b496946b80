--------------------------- MODULE TokenElection ---------------------------
(***************************************************************************)
(* The shared DocketAlarm token: how the pods of the service read it from  *)
(* Redis, elect one of themselves to log in again, wait for each other,    *)
(* and drop it when the upstream answers 401.                              *)
(*                                                                         *)
(* Source: src/src/docket-alarm/docket-alarm.token.service.ts and the      *)
(* token handling of executeSearch in docket-alarm.client.ts.              *)
(*                                                                         *)
(* Every `await` on Redis or on the upstream ends a step, so other         *)
(* processes may run between any two commands. Time is a Tick that counts  *)
(* down the Redis PX of the election lock, the login limiter's refill and  *)
(* the waiters' deadline; a process may be arbitrarily slow between ticks, *)
(* unless Prompt says that Redis and the upstream answer within a tick.    *)
(***************************************************************************)
EXTENDS Naturals

CONSTANTS
    Search,       \* invocations of executeSearch
    Background,   \* un-awaited refreshToken() calls started by getToken
    Pod,          \* processes of the service
    PodOf,        \* the pod each invocation runs in
    None,         \* no lock owner
    LockTtl,      \* PX of da:token:refresh, 30 s
    WaitMax,      \* maxWaitMs of waitForToken, 5 s
    RefillEvery,  \* reservoirRefreshInterval of the login limiter, 60 s
    MaxLogins,    \* bound: tokens the upstream ever issues
    MaxCrashes,   \* bound: pod crashes
    MaxLost,      \* bound: Redis replies lost with their connection
    Prompt        \* do Redis and the upstream answer within a tick?

Proc == Search \cup Background

ASSUME ConstantsOK ==
    /\ Search \cap Background = {}
    /\ None \notin Proc
    /\ PodOf \in [Proc -> Pod]
    /\ LockTtl \in Nat \ {0}
    /\ WaitMax \in Nat
    /\ RefillEvery \in Nat \ {0}
    /\ MaxLogins \in Nat \ {0}
    /\ MaxCrashes \in Nat
    /\ MaxLost \in Nat
    /\ Prompt \in BOOLEAN

VARIABLES
    pc,       \* where each invocation is
    tok,      \* the token it works with; 0 is none
    waited,   \* ticks spent in waitForToken, up to WaitMax
    retried,  \* searches past their one 401 (isRetryAfter401)
    calls,    \* search requests sent upstream, per search
    lock,     \* Redis: owner of da:token:refresh
    ttl,      \* Redis: ticks left of the PX of da:token:refresh
    token,    \* Redis: da:token, with the age of its expiresAt
    live,     \* upstream: tokens it still accepts
    issued,   \* upstream: tokens issued so far, numbered 1, 2, ...
    permits,  \* login limiter: reservoir (1)
    refill,   \* login limiter: ticks until the reservoir is refilled
    notice,   \* pods with an undelivered da:token:new message
    overran,  \* history: a refresher outlived its lock, or DELeted it twice
    stranded, \* invocations that own the lock without having been told
    crashes, lost

procVars     == <<pc, tok, waited, retried, calls>>
redisVars    == <<lock, ttl, token, notice>>
upstreamVars == <<live, issued>>
limiterVars  == <<permits, refill>>
historyVars  == <<overran, stranded, crashes, lost>>
vars == <<procVars, redisVars, upstreamVars, limiterVars, historyVars>>

(* An entry past its expiresAt is as good as none to every reader, so it   *)
(* counts as Absent from then on, evicted by Redis or not.                 *)
Absent == [tok |-> 0, phase |-> "absent"]
TokenRecords == [tok : 0..MaxLogins, phase : {"absent", "fresh", "warm"}]
Usable == token.phase \in {"fresh", "warm"}

(* The lines between the SET NX and the end of refreshToken's finally.     *)
ElectedPc  == {"queued", "login", "store", "publish", "check", "release"}
Elected(p) == pc[p] \in ElectedPc
Ended      == {"done", "failed", "crashed"}

Pcs == {"idle", "get", "acquire", "wait", "woken", "call", "invalidate"}
         \cup ElectedPc \cup Ended

Init ==
    /\ pc = [p \in Proc |-> "idle"]
    /\ tok = [p \in Proc |-> 0]
    /\ waited = [p \in Proc |-> 0]
    /\ retried = {}
    /\ calls = [s \in Search |-> 0]
    /\ lock = None
    /\ ttl = 0
    /\ token \in {Absent, [tok |-> 1, phase |-> "fresh"]}
    /\ live = {1}
    /\ issued = 1
    /\ permits = 1
    /\ refill = RefillEvery
    /\ notice = {}
    /\ overran = FALSE
    /\ stranded = {}
    /\ crashes = 0
    /\ lost = 0

-----------------------------------------------------------------------------
(* getToken                                                                *)

Begin(s) ==
    /\ pc[s] = "idle"
    /\ pc' = [pc EXCEPT ![s] = "get"]
    /\ UNCHANGED <<tok, waited, retried, calls, redisVars, upstreamVars,
                   limiterVars, historyVars>>

(* In the warm window the cached token is returned all the same, and a     *)
(* coin decides whether a refresh is left running behind the caller's back.*)
ReadUsable(s) ==
    /\ pc[s] = "get"
    /\ Usable
    /\ tok' = [tok EXCEPT ![s] = token.tok]
    /\ \/ pc' = [pc EXCEPT ![s] = "call"]
       \/ /\ token.phase = "warm"
          /\ \E b \in Background :
               /\ pc[b] = "idle"
               /\ PodOf[b] = PodOf[s]
               /\ pc' = [pc EXCEPT ![s] = "call", ![b] = "acquire"]
    /\ UNCHANGED <<waited, retried, calls, redisVars, upstreamVars,
                   limiterVars, historyVars>>

ReadUnusable(s) ==
    /\ pc[s] = "get"
    /\ ~Usable
    /\ pc' = [pc EXCEPT ![s] = "acquire"]
    /\ UNCHANGED <<tok, waited, retried, calls, redisVars, upstreamVars,
                   limiterVars, historyVars>>

-----------------------------------------------------------------------------
(* refreshToken                                                            *)

(* refreshToken (or waitForToken) resolves with t, or throws when t is 0:  *)
(* a search goes on with t or fails, a background refresh only logs.       *)
Resolve(p, t) ==
    /\ pc' = [pc EXCEPT ![p] = IF p \in Background THEN "idle"
                               ELSE IF t = 0 THEN "failed" ELSE "call"]
    /\ tok' = [tok EXCEPT ![p] = IF p \in Background THEN 0 ELSE t]
    /\ waited' = [waited EXCEPT ![p] = 0]

(* Mutant: SET without NX. *)
AcquireLockWithoutNX(p) ==
    /\ pc[p] = "acquire"
    /\ lock' = p
    /\ ttl' = LockTtl
    /\ stranded' = stranded \ {p}
    /\ pc' = [pc EXCEPT ![p] = "queued"]
    /\ UNCHANGED <<tok, waited, retried, calls, token, notice, upstreamVars,
                   limiterVars, overran, crashes, lost>>

AcquireLock(p) ==
    /\ pc[p] = "acquire"
    /\ lock = None
    /\ lock' = p
    /\ ttl' = LockTtl
    /\ stranded' = stranded \ {p}
    /\ pc' = [pc EXCEPT ![p] = "queued"]
    /\ UNCHANGED <<tok, waited, retried, calls, token, notice, upstreamVars,
                   limiterVars, overran, crashes, lost>>

LoseElection(p) ==
    /\ pc[p] = "acquire"
    /\ lock # None
    /\ pc' = [pc EXCEPT ![p] = "wait"]
    /\ UNCHANGED <<tok, waited, retried, calls, redisVars, upstreamVars,
                   limiterVars, historyVars>>

(* Mutant: the login limiter without a reservoir. *)
StartsAnyLogin == \A q \in Proc : pc[q] # "login"

(* The login limiter: one job at a time in the cluster, one permit.        *)
CanStartLogin == permits > 0 /\ \A q \in Proc : pc[q] # "login"

StartLogin(p) ==
    /\ pc[p] = "queued"
    /\ CanStartLogin
    /\ permits' = permits - 1
    /\ pc' = [pc EXCEPT ![p] = "login"]
    /\ UNCHANGED <<tok, waited, retried, calls, redisVars, upstreamVars,
                   refill, historyVars>>

(* The upstream may or may not keep honouring the tokens it issued before. *)
LoginSucceeds(p) ==
    /\ pc[p] = "login"
    /\ issued < MaxLogins
    /\ issued' = issued + 1
    /\ \E kept \in {live, {}} : live' = kept \cup {issued + 1}
    /\ tok' = [tok EXCEPT ![p] = issued + 1]
    /\ pc' = [pc EXCEPT ![p] = "store"]
    /\ UNCHANGED <<waited, retried, calls, redisVars, limiterVars,
                   historyVars>>

(* Mutant: a failed login throws past the finally. *)
LoginFailsWithoutFinally(p) ==
    /\ pc[p] = "login"
    /\ Resolve(p, 0)
    /\ UNCHANGED <<retried, calls, redisVars, upstreamVars, limiterVars,
                   historyVars>>

(* Mutant: a login that failed falls back on the cached token. *)
LoginFallsBack(p) ==
    /\ pc[p] = "login"
    /\ tok' = [tok EXCEPT ![p] = token.tok]
    /\ pc' = [pc EXCEPT ![p] = IF Usable THEN "store" ELSE "check"]
    /\ UNCHANGED <<waited, retried, calls, redisVars, upstreamVars,
                   limiterVars, historyVars>>

(* Bad answer, transport error, policy timeout or open circuit: executeLogin *)
(* or the policy around it throws, and control passes to the finally. What   *)
(* a login nobody waits for does to the older tokens is RevokeToken.         *)
LoginFails(p) ==
    /\ pc[p] = "login"
    /\ tok' = [tok EXCEPT ![p] = 0]
    /\ pc' = [pc EXCEPT ![p] = "check"]
    /\ UNCHANGED <<waited, retried, calls, redisVars, upstreamVars,
                   limiterVars, historyVars>>

StoreToken(p) ==
    /\ pc[p] = "store"
    /\ token' = [tok |-> tok[p], phase |-> "fresh"]
    /\ pc' = [pc EXCEPT ![p] = "publish"]
    /\ UNCHANGED <<tok, waited, retried, calls, lock, ttl, notice,
                   upstreamVars, limiterVars, historyVars>>

PublishToken(p) ==
    /\ pc[p] = "publish"
    /\ notice' = Pod
    /\ pc' = [pc EXCEPT ![p] = "check"]
    /\ UNCHANGED <<tok, waited, retried, calls, lock, ttl, token,
                   upstreamVars, limiterVars, historyVars>>

(* finally: GET the lock, and only when it is ours, DEL it - two commands. *)
CheckLock(p) ==
    /\ pc[p] = "check"
    /\ \/ /\ lock = p
          /\ pc' = [pc EXCEPT ![p] = "release"]
          /\ UNCHANGED <<tok, waited>>
       \/ lock # p /\ Resolve(p, tok[p])
    /\ UNCHANGED <<retried, calls, redisVars, upstreamVars, limiterVars,
                   historyVars>>

ReleaseLock(p) ==
    /\ pc[p] = "release"
    /\ lock' = None
    /\ ttl' = 0
    /\ Resolve(p, tok[p])
    /\ UNCHANGED <<retried, calls, token, notice, upstreamVars, limiterVars,
                   historyVars>>

-----------------------------------------------------------------------------
(* waitForToken: woken by the pub/sub message or by the 500 ms timer       *)

(* Mutant: no poll fallback beside the pub/sub message. *)
NoPollTimer(p) == pc[p] = "wait" /\ FALSE /\ UNCHANGED vars

PollTimer(p) ==
    /\ pc[p] = "wait"
    /\ pc' = [pc EXCEPT ![p] = "woken"]
    /\ UNCHANGED <<tok, waited, retried, calls, redisVars, upstreamVars,
                   limiterVars, historyVars>>

DeliverNotice(d) ==
    /\ d \in notice
    /\ notice' = notice \ {d}
    /\ pc' = [p \in Proc |-> IF pc[p] = "wait" /\ PodOf[p] = d
                             THEN "woken" ELSE pc[p]]
    /\ UNCHANGED <<tok, waited, retried, calls, lock, ttl, token,
                   upstreamVars, limiterVars, historyVars>>

(* Mutant: a waiter that gives up logs in by itself, without the lock. *)
RereadTokenThenLogin(p) ==
    /\ pc[p] = "woken"
    /\ \/ Usable /\ Resolve(p, token.tok)
       \/ /\ ~Usable
          /\ pc' = [pc EXCEPT ![p] = IF waited[p] >= WaitMax THEN "queued"
                                     ELSE "wait"]
          /\ UNCHANGED <<tok, waited>>
    /\ UNCHANGED <<retried, calls, redisVars, upstreamVars, limiterVars,
                   historyVars>>

RereadToken(p) ==
    /\ pc[p] = "woken"
    /\ \/ Usable /\ Resolve(p, token.tok)
       \/ ~Usable /\ waited[p] >= WaitMax /\ Resolve(p, 0)
       \/ /\ ~Usable /\ waited[p] < WaitMax
          /\ pc' = [pc EXCEPT ![p] = "wait"]
          /\ UNCHANGED <<tok, waited>>
    /\ UNCHANGED <<retried, calls, redisVars, upstreamVars, limiterVars,
                   historyVars>>

-----------------------------------------------------------------------------
(* executeSearch: the answer to a request sent with tok[s]                 *)

SearchAnswered(s) ==
    /\ pc[s] = "call"
    /\ calls' = [calls EXCEPT ![s] = @ + 1]
    /\ tok' = [tok EXCEPT ![s] = 0]
    /\ \/ tok[s] \in live /\ pc' = [pc EXCEPT ![s] = "done"]
       \/ tok[s] \notin live /\ pc' = [pc EXCEPT ![s] = "invalidate"]
       \/ pc' = [pc EXCEPT ![s] = "failed"]       \* any other error
    /\ UNCHANGED <<waited, retried, redisVars, upstreamVars, limiterVars,
                   historyVars>>

(* Mutant: the retry is not told that it is one. *)
InvalidateForgetful(s) ==
    /\ pc[s] = "invalidate"
    /\ token' = Absent
    /\ pc' = [pc EXCEPT ![s] = IF s \in retried THEN "failed" ELSE "get"]
    /\ UNCHANGED <<tok, waited, retried, calls, lock, ttl, notice,
                   upstreamVars, limiterVars, historyVars>>

(* invalidateToken deletes whatever da:token holds by now; the search then *)
(* runs once more from getToken, or gives up if it already has.            *)
Invalidate(s) ==
    /\ pc[s] = "invalidate"
    /\ token' = Absent
    /\ pc' = [pc EXCEPT ![s] = IF s \in retried THEN "failed" ELSE "get"]
    /\ retried' = retried \cup {s}
    /\ UNCHANGED <<tok, waited, calls, lock, ttl, notice, upstreamVars,
                   limiterVars, historyVars>>

-----------------------------------------------------------------------------
(* The environment                                                         *)

(* The 90 minutes of a token pass: warm window, then expiresAt.            *)
AgeToken ==
    /\ \/ token.phase = "fresh" /\ token' = [token EXCEPT !.phase = "warm"]
       \/ token.phase = "warm" /\ token' = Absent
    /\ UNCHANGED <<procVars, lock, ttl, notice, upstreamVars, limiterVars,
                   historyVars>>

RevokeToken ==
    /\ \E t \in live : live' = live \ {t}
    /\ UNCHANGED <<procVars, redisVars, issued, limiterVars, historyVars>>

(* Work that ends within a tick when Redis and the upstream are prompt.    *)
Urgent ==
    \E p \in Proc :
        \/ pc[p] \in {"get", "acquire", "woken", "call", "invalidate"}
        \/ pc[p] \in ElectedPc \ {"queued"}
        \/ pc[p] = "queued" /\ CanStartLogin

(* Mutant: the lock is set without PX. *)
NeverLapses == FALSE

LeaseLapses == lock # None /\ ttl = 1

Tick ==
    /\ Prompt => ~Urgent
    /\ ttl' = IF ttl > 0 THEN ttl - 1 ELSE 0
    /\ lock' = IF LeaseLapses THEN None ELSE lock
    /\ overran' = (overran \/ (LeaseLapses /\ Elected(lock)))
    /\ waited' = [p \in Proc |->
                    IF pc[p] \in {"wait", "woken"} /\ waited[p] < WaitMax
                    THEN waited[p] + 1 ELSE waited[p]]
    /\ refill' = IF refill = 1 THEN RefillEvery ELSE refill - 1
    /\ permits' = IF refill = 1 THEN 1 ELSE permits
    /\ UNCHANGED <<pc, tok, retried, calls, token, notice, upstreamVars,
                   stranded, crashes, lost>>

(* A pod dies: its invocations stop where they are, its lock stays in      *)
(* Redis, its pub/sub subscription and its login job are gone.             *)
Crash(d) ==
    /\ crashes < MaxCrashes
    /\ crashes' = crashes + 1
    /\ pc' = [p \in Proc |->
                IF PodOf[p] = d /\ pc[p] \notin Ended \cup {"idle"}
                THEN "crashed" ELSE pc[p]]
    /\ tok' = [p \in Proc |-> IF PodOf[p] = d THEN 0 ELSE tok[p]]
    /\ notice' = notice \ {d}
    /\ UNCHANGED <<waited, retried, calls, lock, ttl, token, upstreamVars,
                   limiterVars, overran, stranded, lost>>

(* The connection breaks after Redis executed a command and before its     *)
(* reply arrived. With maxRetriesPerRequest null the client never gives    *)
(* up: it sends the command again, so p stays where it is.                 *)
LoseReply(p) ==
    /\ lost < MaxLost
    /\ lost' = lost + 1
    /\ \/ /\ pc[p] = "acquire" /\ lock = None
          /\ lock' = p /\ ttl' = LockTtl /\ stranded' = stranded \cup {p}
          /\ UNCHANGED <<token, notice, overran>>
       \/ /\ pc[p] = "store"
          /\ token' = [tok |-> tok[p], phase |-> "fresh"]
          /\ UNCHANGED <<lock, ttl, notice, stranded, overran>>
       \/ /\ pc[p] = "publish"
          /\ notice' = Pod
          /\ UNCHANGED <<lock, ttl, token, stranded, overran>>
       \/ /\ pc[p] = "release"
          /\ lock' = None /\ ttl' = 0 /\ overran' = TRUE
          /\ UNCHANGED <<token, notice, stranded>>
       \/ /\ pc[p] = "invalidate"
          /\ token' = Absent
          /\ UNCHANGED <<lock, ttl, notice, stranded, overran>>
    /\ UNCHANGED <<procVars, upstreamVars, limiterVars, crashes>>

-----------------------------------------------------------------------------
SearchStep(s) ==
    \/ ReadUsable(s) \/ ReadUnusable(s) \/ SearchAnswered(s) \/ Invalidate(s)

RefreshStep(p) ==
    \/ AcquireLock(p) \/ LoseElection(p) \/ StartLogin(p)
    \/ LoginSucceeds(p) \/ LoginFails(p) \/ StoreToken(p) \/ PublishToken(p)
    \/ CheckLock(p) \/ ReleaseLock(p) \/ PollTimer(p) \/ RereadToken(p)

Next ==
    \/ \E s \in Search : Begin(s) \/ SearchStep(s)
    \/ \E p \in Proc : RefreshStep(p) \/ LoseReply(p)
    \/ \E d \in Pod : DeliverNotice(d) \/ Crash(d)
    \/ AgeToken \/ RevokeToken \/ Tick

(* The event loop runs every continuation, undici times every request out, *)
(* Redis delivers, and time passes. Nobody promises that a request starts, *)
(* a token ages or is revoked, a pod crashes or a connection breaks.       *)
Fairness ==
    /\ \A s \in Search : WF_vars(SearchStep(s))
    /\ \A p \in Proc : WF_vars(RefreshStep(p))
    /\ WF_vars(Tick)

Spec     == Init /\ [][Next]_vars
FairSpec == Spec /\ Fairness

-----------------------------------------------------------------------------
(* Properties                                                              *)

TypeOK ==
    /\ pc \in [Proc -> Pcs]
    /\ tok \in [Proc -> 0..MaxLogins]
    /\ waited \in [Proc -> 0..WaitMax]
    /\ retried \in SUBSET Search
    /\ calls \in [Search -> Nat]
    /\ lock \in Proc \cup {None}
    /\ ttl \in 0..LockTtl
    /\ token \in TokenRecords
    /\ live \in SUBSET (1..MaxLogins)
    /\ issued \in 1..MaxLogins
    /\ permits \in 0..1
    /\ refill \in 1..RefillEvery
    /\ notice \in SUBSET Pod
    /\ overran \in BOOLEAN
    /\ stranded \in SUBSET Proc
    /\ crashes \in 0..MaxCrashes
    /\ lost \in 0..MaxLost

(* The election elects one refresher at a time, for as long as no lease    *)
(* ever lapsed under a refresher still at work and no DEL was sent twice   *)
(* (token.service.ts:87, the SET ... PX 30000 NX): after either, the       *)
(* GET/DEL of a late finally can delete another's lock, and the promise    *)
(* is void.                                                                *)
ExclusiveUnlessOverrun ==
    ~overran => \A p, q \in Proc : Elected(p) /\ Elected(q) => p = q

(* The lock left in Redis always has somebody who will delete it, except   *)
(* where its owner crashed or was never told that it won, and only PX is   *)
(* left to do it: no path through refreshToken, the failing ones included, *)
(* skips its finally (token.service.ts:111).                               *)
LockHasReleaser ==
    lock # None =>
        Elected(lock) \/ pc[lock] = "crashed" \/ lock \in stranded

(* Unless the election was overrun, da:token only moves forward: what a    *)
(* refresher is about to store (token.service.ts:102) is the newest token  *)
(* there is, so no slow refresher overwrites the token of a later login.   *)
StoresNewest ==
    ~overran => \A p \in Proc : pc[p] = "store" => tok[p] = issued

(* The pods rotate da:token as one register with one writer at a time,     *)
(* until the election is overrun: whoever is elected logs in at most once  *)
(* and writes nothing but the newest token, whatever crashes, lost replies *)
(* and invalidations come between; every search works with what it read    *)
(* or with the token it has brought itself (token.service.ts:50-117).      *)
Leading == {p \in Proc : Elected(p)}
Bearers == {p \in Leading : pc[p] \notin {"queued", "login"} /\ tok[p] # 0}
Using   == [s \in Search |-> IF pc[s] = "call" THEN tok[s] ELSE 0]
Rotation == INSTANCE TokenRotation WITH
    Client    <- Search,
    Refresher <- Proc,
    elected   <- Leading,
    bearer    <- Bearers,
    newest    <- issued,
    stored    <- token.tok,
    using     <- Using,
    overrun   <- overran
IsRotation == Rotation!Spec

(* A 401 is retried once: one executeSearch costs at most two upstream     *)
(* requests, however often its tokens are revoked (client.ts:81).          *)
OneShotRetry == \A s \in Search : calls[s] <= 2

(* Every search that asks for a token ends, whatever happens to the        *)
(* refresher it waits for: crash, failed login, lost message or reply.     *)
EverySearchEnds == <>[](\A s \in Search : pc[s] \in {"idle"} \cup Ended)

(* No owner keeps the election lock for ever, not even a crashed one       *)
(* or one that was never told that it won.                                 *)
LockAlwaysFreed == \A p \in Proc : []<>(lock # p)

(* README.md:13 promises a seamless token rotation: the 401 of an old      *)
(* token does not throw away the token another search rotated in.          *)
SeamlessRotation ==
    [][\A s \in Search : Invalidate(s) => token.tok \notin live]_vars
=============================================================================
