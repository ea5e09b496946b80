---------------------------- MODULE AimdLimiter ----------------------------
(***************************************************************************)
(* The search rate limiter: a reservoir in Redis that all pods draw from,  *)
(* and the AIMD adaptation that each pod computes from a ceiling in its    *)
(* own memory and sends to Redis with updateSettings.                      *)
(*                                                                         *)
(* Source: src/src/docket-alarm/docket-alarm.limiter.ts and its caller in  *)
(* docket-alarm.client.ts. A pod assigns its ceiling in one step and the   *)
(* update reaches Redis in a later one; the updates of a pod share one     *)
(* connection and keep their order, those of two pods do not.              *)
(***************************************************************************)
EXTENDS Naturals, Sequences

CONSTANTS
    Pod,          \* processes of the service
    None,         \* no pod has sent an update yet
    MaxCeiling,   \* maxReservoirCeiling, 20
    MinFloor,     \* minReservoirFloor, 2
    Quiet,        \* 60 s, the recovery interval and the quiet time it asks for
    Slot,         \* maxConcurrent of the search limiter, 8 slots
    MaxSent,      \* bound: updates of a pod on their way to Redis
    MaxRestarts   \* bound: pod restarts

ASSUME LimiterConstants ==
    /\ None \notin Pod
    /\ MaxCeiling \in Nat /\ MinFloor \in Nat \ {0} /\ MinFloor <= MaxCeiling
    /\ Quiet \in Nat \ {0}
    /\ MaxSent \in Nat \ {0}
    /\ MaxRestarts \in Nat

VARIABLES
    ceiling,    \* currentReservoirCeiling of each pod
    since,      \* ticks since the pod's last 429, up to Quiet
    timer,      \* ticks until the pod's recoveryInterval fires
    sent,       \* updateSettings of each pod not yet executed by Redis
    holder,     \* Redis: the pod whose search job holds a slot
    reservoir,  \* Redis: permits left in this 10 s window
    amount,     \* Redis: reservoirRefreshAmount
    writer,     \* history: whose update Redis executed last
    restarts

podVars   == <<ceiling, since, timer>>
redisVars == <<reservoir, amount, writer>>
vars == <<podVars, sent, holder, redisVars, restarts>>

Update == [kind : {"halve", "grow"}, amount : MinFloor..MaxCeiling]

Init ==
    /\ ceiling = [p \in Pod |-> MaxCeiling]
    /\ since = [p \in Pod |-> Quiet]          \* last429Timestamp = 0
    /\ timer = [p \in Pod |-> Quiet]
    /\ sent = [p \in Pod |-> <<>>]
    /\ holder = [s \in Slot |-> None]
    /\ reservoir = MaxCeiling
    /\ amount = MaxCeiling
    /\ writer = None
    /\ restarts = 0

-----------------------------------------------------------------------------
(* The search jobs and the reservoir                                       *)

Running(p) == \E slot \in Slot : holder[slot] = p

(* maxConcurrent and the reservoir count the jobs of all pods.             *)
StartSearch(p) ==
    /\ reservoir > 0
    /\ reservoir' = reservoir - 1
    /\ \E slot \in Slot :
         /\ holder[slot] = None
         /\ holder' = [holder EXCEPT ![slot] = p]
    /\ UNCHANGED <<podVars, sent, amount, writer, restarts>>

EndSearch(p) ==
    /\ \E slot \in Slot :
         /\ holder[slot] = p
         /\ holder' = [holder EXCEPT ![slot] = None]
    /\ UNCHANGED <<podVars, sent, redisVars, restarts>>

RefreshReservoir ==
    /\ reservoir' = amount
    /\ UNCHANGED <<podVars, sent, holder, amount, writer, restarts>>

-----------------------------------------------------------------------------
(* The adaptation                                                          *)

Larger(a, b) == IF a > b THEN a ELSE b

(* Mutant: halved without the floor. *)
HalvedToNothing(n) == n \div 2

Halved(n) == Larger(MinFloor, n \div 2)

Send(p, kind, n) ==
    /\ Len(sent[p]) < MaxSent
    /\ sent' = [sent EXCEPT ![p] = Append(@, [kind |-> kind, amount |-> n])]

(* Mutant: the halved ceiling is sent but not remembered. *)
Handle429Forgetful(p) ==
    /\ Running(p)
    /\ Send(p, "halve", Halved(ceiling[p]))
    /\ since' = [since EXCEPT ![p] = 0]
    /\ UNCHANGED <<ceiling, timer, holder, redisVars, restarts>>

(* A running search is answered 429. It goes on running: the policy inside *)
(* the job retries it without another permit, or gives up (EndSearch).     *)
Handle429(p) ==
    /\ Running(p)
    /\ ceiling' = [ceiling EXCEPT ![p] = Halved(ceiling[p])]
    /\ Send(p, "halve", Halved(ceiling[p]))
    /\ since' = [since EXCEPT ![p] = 0]
    /\ UNCHANGED <<timer, holder, redisVars, restarts>>

(* Mutant: a quiet minute gives the whole rate back. *)
RecoverAtOnce(p) ==
    /\ timer[p] = 0
    /\ timer' = [timer EXCEPT ![p] = Quiet]
    /\ IF since[p] >= Quiet /\ ceiling[p] < MaxCeiling
       THEN /\ ceiling' = [ceiling EXCEPT ![p] = MaxCeiling]
            /\ Send(p, "grow", MaxCeiling)
       ELSE UNCHANGED <<ceiling, sent>>
    /\ UNCHANGED <<since, holder, redisVars, restarts>>

(* The recovery interval fires.                                            *)
AttemptLinearIncrease(p) ==
    /\ timer[p] = 0
    /\ timer' = [timer EXCEPT ![p] = Quiet]
    /\ IF since[p] >= Quiet /\ ceiling[p] < MaxCeiling
       THEN /\ ceiling' = [ceiling EXCEPT ![p] = @ + 1]
            /\ Send(p, "grow", ceiling[p] + 1)
       ELSE UNCHANGED <<ceiling, sent>>
    /\ UNCHANGED <<since, holder, redisVars, restarts>>

(* Redis executes the update: a decrease sets the permits of the current   *)
(* window too, an increase only those of the windows to come.              *)
ExecuteUpdate(p) ==
    /\ sent[p] # <<>>
    /\ LET update == Head(sent[p])
       IN  /\ amount' = update.amount
           /\ reservoir' = IF update.kind = "halve" THEN update.amount
                           ELSE reservoir
    /\ writer' = p
    /\ sent' = [sent EXCEPT ![p] = Tail(@)]
    /\ UNCHANGED <<podVars, holder, restarts>>

(* Mutant: time passes for the interval but not for last429Timestamp. *)
TickForTimersOnly ==
    /\ timer' = [p \in Pod |-> IF timer[p] > 0 THEN timer[p] - 1 ELSE 0]
    /\ UNCHANGED <<ceiling, since, sent, holder, redisVars, restarts>>

Tick ==
    /\ since' = [p \in Pod |-> IF since[p] < Quiet THEN since[p] + 1 ELSE Quiet]
    /\ timer' = [p \in Pod |-> IF timer[p] > 0 THEN timer[p] - 1 ELSE 0]
    /\ UNCHANGED <<ceiling, sent, holder, redisVars, restarts>>

(* A pod dies and another takes its place: a new limiter with the ceiling  *)
(* of the constructor. Redis keeps the settings it holds.                  *)
Restart(p) ==
    /\ restarts < MaxRestarts
    /\ restarts' = restarts + 1
    /\ ceiling' = [ceiling EXCEPT ![p] = MaxCeiling]
    /\ since' = [since EXCEPT ![p] = Quiet]
    /\ timer' = [timer EXCEPT ![p] = Quiet]
    /\ sent' = [sent EXCEPT ![p] = <<>>]
    /\ holder' = [s \in Slot |-> IF holder[s] = p THEN None ELSE holder[s]]
    /\ writer' = IF writer = p THEN None ELSE writer
    /\ UNCHANGED <<reservoir, amount>>

Hit == \E p \in Pod : Handle429(p)

Next ==
    \/ Hit \/ Tick \/ RefreshReservoir
    \/ \E p \in Pod :
         \/ StartSearch(p) \/ EndSearch(p)
         \/ AttemptLinearIncrease(p) \/ ExecuteUpdate(p) \/ Restart(p)

Spec == Init /\ [][Next]_vars

(* Time passes, interval callbacks run and Redis executes what it is sent. *)
FairSpec ==
    /\ Spec
    /\ WF_vars(Tick)
    /\ \A p \in Pod : /\ WF_vars(AttemptLinearIncrease(p))
                      /\ WF_vars(ExecuteUpdate(p))

-----------------------------------------------------------------------------
(* Properties                                                              *)

TypeOK ==
    /\ ceiling \in [Pod -> MinFloor..MaxCeiling]
    /\ since \in [Pod -> 0..Quiet]
    /\ timer \in [Pod -> 0..Quiet]
    /\ sent \in [Pod -> Seq(Update)]
    /\ holder \in [Slot -> Pod \cup {None}]
    /\ reservoir \in 0..MaxCeiling
    /\ amount \in MinFloor..MaxCeiling
    /\ writer \in Pod \cup {None}
    /\ restarts \in 0..MaxRestarts

(* A pod whose update was the last word in Redis, and which has none under *)
(* way, is of one mind with Redis: its ceiling is what the cluster refills *)
(* to, however its 429s and its increases interleaved (limiter.ts:65-70    *)
(* and :99-103).                                                           *)
LastWordIsCeiling ==
    \A p \in Pod : writer = p /\ sent[p] = <<>> => amount = ceiling[p]

(* As long as no other pod speaks in between, what Redis refills to goes   *)
(* up by one and down by half (README.md:12, AIMD), no matter how many of  *)
(* the pod's updates are under way and what restarts and other pods did    *)
(* before.                                                                 *)
AdditiveUpHalfDown ==
    [][\A p \in Pod :
         writer = p /\ writer' = p /\ amount' # amount =>
             amount' \in {amount + 1, Halved(amount)}]_vars

(* Once the 429s are over, the cluster gets its full rate back: the        *)
(* "Additive Increase" of README.md:12, of a limiter whose state, says     *)
(* README.md:18, "lives in Redis".                                         *)
RateRecovers == []<><<Hit>>_vars \/ <>[](amount = MaxCeiling)

(* The same for pods that live: a ceiling that is not lost with its pod    *)
(* brings the rate back, whatever the other pods did to it meanwhile.      *)
LivePodsRecover == RateRecovers \/ <>(restarts > 0)
=============================================================================
