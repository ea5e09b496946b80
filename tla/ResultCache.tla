---------------------------- MODULE ResultCache ----------------------------
(***************************************************************************)
(* The result cache: requests of several pods that are answered from one   *)
(* Redis entry per key, from a computation of their own pod that is under  *)
(* way (single-flight), or from a fan-out of their own.                    *)
(*                                                                         *)
(* Source: src/src/legal-results/cache/result-cache.service.ts, the        *)
(* validation in src/src/legal-results/dto/request.dto.ts before it and    *)
(* the address parser behind it. The library, async-cache-dedupe, is       *)
(* modelled from the options and calls there: it shares one promise per    *)
(* pod and key, keeps an answer for its ttl plus the stale time, and       *)
(* computes it anew behind a hit of the stale time.                        *)
(***************************************************************************)
EXTENDS Naturals

CONSTANTS
    Request,    \* requests
    Pod,
    PodOf,      \* the pod that serves a request
    Entity,     \* the entities asked for
    None,       \* no entity, no answer, no entry, no state
    Threshold,  \* ALIAS_CONFIDENCE_THRESHOLD
    LongTtl,    \* CACHE_TTL_SECONDS
    ShortTtl,   \* 60 s
    Stale       \* CACHE_STALE_SECONDS

(* A name is taken as trimmed, with the number of its words. The text of   *)
(* an address is blank, or names states and may end in the code of one;    *)
(* states are numbered by their place in STATE_NAME_TO_CODE.               *)
ASSUME CacheConstants ==
    /\ PodOf \in [Request -> Pod]
    /\ None \notin Entity /\ None \notin Request
    /\ Threshold \in Nat
    /\ LongTtl \in Nat \ {0} /\ ShortTtl \in Nat \ {0}
    /\ Stale \in Nat /\ Stale <= LongTtl
    /\ \A e \in Entity :
         /\ e.kind \in {"Person", "Company"}
         /\ \A n \in e.names : n.confidence \in Nat /\ n.words \in Nat
         /\ \A a \in e.addresses : a.confidence \in Nat

-----------------------------------------------------------------------------
(* What the key and the fan-out take from an entity                        *)

Confident(candidates) == {c \in candidates : c.confidence >= Threshold}

(* The candidates that count: confident, and not blank.                    *)
Names(e)   == {n \in Confident(e.names) : n.words > 0}
Located(e) == {a \in Confident(e.addresses) : ~a.text.blank}

(* validateAndNormalizeEntityRequest: a name counts, and a person has two  *)
(* words in the most confident of them, of several in the first given.     *)
Valid(e) ==
    \E top \in Names(e) :
        /\ \A n \in Names(e) : n.confidence <= top.confidence
        /\ e.kind = "Person" => top.words >= 2
Invalid(e) ==
    \/ Names(e) = {}
    \/ \E top \in Names(e) :
         /\ \A n \in Names(e) : n.confidence <= top.confidence
         /\ e.kind = "Person" /\ top.words < 2

(* Mutant: the key forgets the addresses. *)
KeyOfNames(e) == [kind |-> e.kind, names |-> Names(e), addresses |-> {}]

(* normalizedEntityHash; the digest is taken to be injective.              *)
Key(e) == [kind |-> e.kind, names |-> Names(e), addresses |-> Located(e)]

(* extractStateFromText: the first name of the table wins over any code,   *)
(* so that West Virginia is in Virginia.                                   *)
ExtractState(text) ==
    IF text.names = {} THEN text.code
    ELSE CHOOSE s \in text.names : \A t \in text.names : s <= t

(* parseStateCodes: the states of the most confident addresses, confident  *)
(* enough or not.                                                          *)
Top(addresses) ==
    {a \in addresses : /\ a.confidence > 0
                       /\ \A b \in addresses : b.confidence <= a.confidence}
StateCodes(addresses) ==
    {ExtractState(a.text) : a \in {b \in Top(addresses) : ~b.text.blank}} \ {None}

(* The queries of the ladders: a person is narrowed by state, a company by *)
(* its type.                                                               *)
Asks(e) ==
    IF e.kind = "Person"
    THEN [kind |-> "Person",
          names |-> {n.full : n \in Names(e)},
          states |-> StateCodes(e.addresses)]
    ELSE [kind |-> "Company",
          names |-> {<<n.full, n.type>> : n \in Names(e)},
          states |-> {}]

Keys      == {Key(e) : e \in Entity}
Questions == {Asks(e) : e \in Entity}
Answers   == [asks : Questions, unnarrowable : BOOLEAN]
Rejection == [asks |-> None, unnarrowable |-> FALSE]

ASSUME NoneApart == None \notin Questions \cup Answers \cup {Rejection}

-----------------------------------------------------------------------------
VARIABLES
    pc,      \* where each request is
    ent,     \* the entity it asks for
    leader,  \* the request whose promise it waits for
    got,     \* the answer it has
    behind,  \* it was a stale hit, and its refresh is under way
    writes,  \* SETs on their way to Redis
    entry    \* Redis: per key, an answer and the ticks it has left

vars == <<pc, ent, leader, got, behind, writes, entry>>

Init ==
    /\ pc = [r \in Request |-> "idle"]
    /\ ent = [r \in Request |-> None]
    /\ leader = [r \in Request |-> None]
    /\ got = [r \in Request |-> None]
    /\ behind = [r \in Request |-> FALSE]
    /\ writes = {}
    /\ entry = [k \in Keys |-> None]

KeyOf(r) == Key(ent[r])

(* The library holds the promise of r from the call until it settles.      *)
Flying(r) == pc[r] \in {"get", "fanout", "resolve"}

(* Those who share the promise of r, itself included.                      *)
Callers(r) == {r} \cup {q \in Request : pc[q] = "wait" /\ leader[q] = r}

(* Mutant: the stale time is part of the ttl already. *)
TtlWithStale(answer) == (IF answer.unnarrowable THEN ShortTtl ELSE LongTtl) + Stale

Ttl(answer) == IF answer.unnarrowable THEN ShortTtl ELSE LongTtl

(* What a fan-out for e may answer.                                        *)
AnswersTo(e) == [asks : {Asks(e)}, unnarrowable : BOOLEAN]

Write(e, answer, ttl) ==
    writes' = writes \cup {[key |-> Key(e), answer |-> answer, ttl |-> ttl]}

-----------------------------------------------------------------------------
(* A request that is refused before it gets to the cache                   *)

Refuse(r, e) ==
    /\ pc[r] = "idle" /\ Invalid(e)
    /\ ent' = [ent EXCEPT ![r] = e]
    /\ pc' = [pc EXCEPT ![r] = "failed"]
    /\ UNCHANGED <<leader, got, behind, writes, entry>>

-----------------------------------------------------------------------------
(* An ordinary request                                                     *)

(* Mutant: every request computes its own answer. *)
BeginAlone(r, e) ==
    /\ pc[r] = "idle" /\ Valid(e)
    /\ ent' = [ent EXCEPT ![r] = e]
    /\ pc' = [pc EXCEPT ![r] = "get"]
    /\ UNCHANGED <<leader, got, behind, writes, entry>>

Begin(r, e) ==
    /\ pc[r] = "idle" /\ Valid(e)
    /\ ent' = [ent EXCEPT ![r] = e]
    /\ LET shared == {l \in Request : /\ Flying(l) /\ PodOf[l] = PodOf[r]
                                      /\ KeyOf(l) = Key(e)}
       IN  \/ /\ shared = {}
              /\ pc' = [pc EXCEPT ![r] = "get"]
              /\ UNCHANGED leader
           \/ \E l \in shared :
                /\ pc' = [pc EXCEPT ![r] = "wait"]
                /\ leader' = [leader EXCEPT ![r] = l]
    /\ UNCHANGED <<got, behind, writes, entry>>

Hit(r) ==
    /\ pc[r] = "get"
    /\ entry[KeyOf(r)] # None
    /\ got' = [got EXCEPT ![r] = entry[KeyOf(r)].answer]
    /\ behind' = [behind EXCEPT ![r] = entry[KeyOf(r)].ttl <= Stale]
    /\ pc' = [pc EXCEPT ![r] = "resolve"]
    /\ UNCHANGED <<ent, leader, writes, entry>>

Miss(r) ==
    /\ pc[r] = "get"
    /\ entry[KeyOf(r)] = None
    /\ pc' = [pc EXCEPT ![r] = "fanout"]
    /\ UNCHANGED <<ent, leader, got, behind, writes, entry>>

FanoutAnswers(r) ==
    /\ pc[r] = "fanout"
    /\ \E answer \in AnswersTo(ent[r]) :
         /\ got' = [got EXCEPT ![r] = answer]
         /\ Write(ent[r], answer, Ttl(answer) + Stale)
    /\ pc' = [pc EXCEPT ![r] = "resolve"]
    /\ UNCHANGED <<ent, leader, behind, entry>>

(* Mutant: nobody tells the others. *)
FanoutFailsAlone(r) ==
    /\ pc[r] = "fanout"
    /\ pc' = [pc EXCEPT ![r] = "failed"]
    /\ UNCHANGED <<ent, leader, got, behind, writes, entry>>

FanoutFails(r) ==
    /\ pc[r] = "fanout"
    /\ pc' = [q \in Request |-> IF q \in Callers(r) THEN "failed" ELSE pc[q]]
    /\ UNCHANGED <<ent, leader, got, behind, writes, entry>>

(* The promise settles, before or after its SET is executed.               *)
Resolve(r) ==
    /\ pc[r] = "resolve"
    /\ pc' = [q \in Request |-> IF q \in Callers(r) THEN "ok" ELSE pc[q]]
    /\ got' = [q \in Request |-> IF q \in Callers(r) THEN got[r] ELSE got[q]]
    /\ UNCHANGED <<ent, leader, behind, writes, entry>>

(* Mutant: a refresh that fails rejects the request it runs behind. *)
RefreshRejects(r) ==
    /\ behind[r]
    /\ behind' = [behind EXCEPT ![r] = FALSE]
    /\ \/ /\ \E answer \in AnswersTo(ent[r]) :
               Write(ent[r], answer, Ttl(answer) + Stale)
          /\ UNCHANGED pc
       \/ pc' = [pc EXCEPT ![r] = "failed"] /\ UNCHANGED writes
    /\ UNCHANGED <<ent, leader, got, entry>>

(* The refresh behind a stale hit searches anew, whoever else searches for *)
(* its key, and answers, or fails and is forgotten.                        *)
Refresh(r) ==
    /\ behind[r]
    /\ behind' = [behind EXCEPT ![r] = FALSE]
    /\ \/ \E answer \in AnswersTo(ent[r]) :
            Write(ent[r], answer, Ttl(answer) + Stale)
       \/ UNCHANGED writes
    /\ UNCHANGED <<pc, ent, leader, got, entry>>

-----------------------------------------------------------------------------
(* A request with x-cache-bypass, outside production                       *)

BeginBypass(r, e) ==
    /\ pc[r] = "idle" /\ Valid(e)
    /\ ent' = [ent EXCEPT ![r] = e]
    /\ pc' = [pc EXCEPT ![r] = "bypass"]
    /\ UNCHANGED <<leader, got, behind, writes, entry>>

(* It is answered at once, and its SET is not awaited.                     *)
BypassAnswers(r) ==
    /\ pc[r] = "bypass"
    /\ \E answer \in AnswersTo(ent[r]) :
         /\ got' = [got EXCEPT ![r] = answer]
         /\ Write(ent[r], answer, Ttl(answer))
    /\ pc' = [pc EXCEPT ![r] = "ok"]
    /\ UNCHANGED <<ent, leader, behind, entry>>

BypassFails(r) ==
    /\ pc[r] = "bypass"
    /\ pc' = [pc EXCEPT ![r] = "failed"]
    /\ UNCHANGED <<ent, leader, got, behind, writes, entry>>

-----------------------------------------------------------------------------
(* Redis                                                                   *)

(* A SET is executed, whatever has been stored meanwhile, or fails.        *)
ExecuteWrite(w) ==
    /\ writes' = writes \ {w}
    /\ \/ entry' = [entry EXCEPT ![w.key] = [answer |-> w.answer, ttl |-> w.ttl]]
       \/ UNCHANGED entry
    /\ UNCHANGED <<pc, ent, leader, got, behind>>

Tick ==
    /\ entry' = [k \in Keys |->
                   IF entry[k] = None \/ entry[k].ttl = 1 THEN None
                   ELSE [entry[k] EXCEPT !.ttl = @ - 1]]
    /\ UNCHANGED <<pc, ent, leader, got, behind, writes>>

Step(r) ==
    \/ Hit(r) \/ Miss(r) \/ FanoutAnswers(r) \/ FanoutFails(r) \/ Resolve(r)
    \/ Refresh(r) \/ BypassAnswers(r) \/ BypassFails(r)

Next ==
    \/ \E r \in Request :
         \/ Step(r)
         \/ \E e \in Entity : Refuse(r, e) \/ Begin(r, e) \/ BeginBypass(r, e)
    \/ \E w \in writes : ExecuteWrite(w)
    \/ Tick

Spec == Init /\ [][Next]_vars

(* Redis answers and every fan-out ends; nothing is assumed of requests    *)
(* arriving, of writes or of time.                                         *)
FairSpec == Spec /\ \A r \in Request : WF_vars(Step(r))

-----------------------------------------------------------------------------
(* Properties                                                              *)

Lifetimes == 1..(LongTtl + Stale) \cup 1..(ShortTtl + Stale)

TypeOK ==
    /\ pc \in [Request -> {"idle", "get", "wait", "fanout", "resolve",
                           "bypass", "ok", "failed"}]
    /\ ent \in [Request -> Entity \cup {None}]
    /\ leader \in [Request -> Request \cup {None}]
    /\ got \in [Request -> Answers \cup {None}]
    /\ behind \in [Request -> BOOLEAN]
    /\ writes \subseteq [key : Keys, answer : Answers, ttl : Lifetimes]
    /\ entry \in [Keys -> {None} \cup [answer : Answers, ttl : Lifetimes]]

(* Whoever is answered is answered what its own entity asks, although the  *)
(* answer may be another request's, of this pod or from Redis, and the two *)
(* share no more than the key (result-cache.service.ts:22-63, :168).        *)
OwnAnswer == \A r \in Request : pc[r] = "ok" => got[r].asks = Asks(ent[r])

(* The cache is no more than a way to answer: every request is told once,  *)
(* a right answer to its own question or an error, and what is shared, kept*)
(* stale or refreshed behind it changes nothing of what it was told        *)
(* (result-cache.service.ts:139-177).                                      *)
Asked == [r \in Request |-> IF pc[r] = "idle" THEN None ELSE Asks(ent[r])]
Told  == [r \in Request |-> IF pc[r] = "ok" THEN got[r]
                            ELSE IF pc[r] = "failed" THEN Rejection ELSE None]
RightAnswers == [q \in Questions |-> [asks : {q}, unnarrowable : BOOLEAN]]
Service == INSTANCE OneAnswer WITH
    Client   <- Request,
    Question <- Questions,
    Right    <- RightAnswers,
    Error    <- Rejection,
    question <- Asked,
    answer   <- Told
IsOneAnswer == Service!Spec

(* A pod holds one promise per key at most, and whoever waits, waits for   *)
(* the promise of its own pod and key, which has not settled. The searches *)
(* behind stale hits are no part of it: nobody shares or awaits them, and  *)
(* they run beside the promise and beside each other                       *)
(* (result-cache.service.ts:129-133, :168).                                *)
OneSharedPromise ==
    /\ \A r, q \in Request :
          r # q /\ Flying(r) /\ Flying(q) /\ PodOf[r] = PodOf[q]
          => KeyOf(r) # KeyOf(q)
    /\ \A r \in Request : pc[r] = "wait" =>
          LET l == leader[r]
          IN  Flying(l) /\ PodOf[l] = PodOf[r] /\ KeyOf(l) = KeyOf(r)

(* Nobody waits for ever for a promise that has settled or failed: in the  *)
(* end every request there was is answered or rejected.                    *)
EveryRequestEnds ==
    <>[](\A r \in Request : pc[r] \in {"idle", "ok", "failed"})
=============================================================================
