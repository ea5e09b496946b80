------------------------- MODULE ResultCacheProofs -------------------------
(***************************************************************************)
(* What ResultCache promises for any requests, pods and entities: its type *)
(* invariant, one shared promise per pod and key, and, where the key decides what  *)
(* an entity asks, that nobody gets the answer to another question. The    *)
(* key decides it for entities with no address above those that count.     *)
(***************************************************************************)
EXTENDS ResultCache, TLAPS

-----------------------------------------------------------------------------
(* The key and the question                                                *)

KeyDecides == \A e, f \in Entity : Key(e) = Key(f) => Asks(e) = Asks(f)

(* No entity has an address above those the key has: one that is blank, or *)
(* one below the threshold when no address counts.                         *)
ConfidentlyLocated ==
    \A e \in Entity : \A a \in e.addresses :
        \E b \in Located(e) : b.confidence >= a.confidence

(* Then the states are those of the most confident addresses in the key.   *)
LEMMA StatesOfLocated ==
    ASSUME ConfidentlyLocated, NEW e \in Entity
    PROVE  StateCodes(e.addresses) = StateCodes(Located(e))
<1>1. Threshold \in Nat /\ \A a \in e.addresses : a.confidence \in Nat
  BY CacheConstants DEF CacheConstants
<1>2. \A b \in Located(e) : /\ b \in e.addresses /\ ~b.text.blank
                            /\ b.confidence >= Threshold
  BY DEF Located, Confident
<1>3. ASSUME NEW a \in Top(e.addresses), ~a.text.blank
      PROVE  a \in Top(Located(e))
  <2>1. a \in e.addresses /\ a.confidence > 0
        /\ \A b \in e.addresses : b.confidence <= a.confidence
    BY <1>3 DEF Top
  <2>2. PICK b \in Located(e) : b.confidence >= a.confidence
    BY <2>1 DEF ConfidentlyLocated
  <2>3. a.confidence >= Threshold
    BY <1>1, <1>2, <2>1, <2>2
  <2>4. a \in Located(e)
    BY <1>3, <2>1, <2>3 DEF Located, Confident
  <2> QED
    BY <1>2, <2>1, <2>4 DEF Top
<1>4. ASSUME NEW a \in Top(Located(e)) PROVE a \in Top(e.addresses)
  <2>1. a \in Located(e) /\ a.confidence > 0
        /\ \A b \in Located(e) : b.confidence <= a.confidence
    BY <1>4 DEF Top
  <2>2. ASSUME NEW c \in e.addresses PROVE c.confidence <= a.confidence
    <3>1. PICK b \in Located(e) : b.confidence >= c.confidence
      BY DEF ConfidentlyLocated
    <3> QED
      BY <1>1, <1>2, <2>1, <3>1
  <2> QED
    BY <1>2, <2>1, <2>2 DEF Top
<1>5. \A a \in Top(Located(e)) : ~a.text.blank
  BY <1>2 DEF Top
<1>6. {b \in Top(e.addresses) : ~b.text.blank}
        = {b \in Top(Located(e)) : ~b.text.blank}
  BY <1>3, <1>4, <1>5
<1> QED
  BY <1>6 DEF StateCodes

(* Then two entities of one key ask the same queries, although the key     *)
(* knows nothing of the other candidates.                                  *)
LEMMA LocatedKeyDecides == ASSUME ConfidentlyLocated PROVE KeyDecides
<1> SUFFICES ASSUME NEW e \in Entity, NEW f \in Entity, Key(e) = Key(f)
             PROVE  Asks(e) = Asks(f)
  BY DEF KeyDecides
<1>1. e.kind = f.kind /\ Names(e) = Names(f) /\ Located(e) = Located(f)
  BY DEF Key
<1>2. StateCodes(e.addresses) = StateCodes(f.addresses)
  BY <1>1, StatesOfLocated
<1> QED
  BY <1>1, <1>2 DEF Asks

-----------------------------------------------------------------------------
(* Who has begun asks for an entity; who waits, waits for a request of its *)
(* own key.                                                                *)
InProgress ==
    \A r \in Request :
        /\ pc[r] # "idle" => ent[r] \in Entity
        /\ pc[r] = "wait" => /\ leader[r] \in Request
                             /\ pc[leader[r]] # "idle"
                             /\ KeyOf(leader[r]) = KeyOf(r)

TypeInv == TypeOK /\ InProgress /\ (\A r \in Request : behind[r] => pc[r] # "idle")
                  /\ (\A r \in Request : pc[r] = "resolve" => got[r] \in Answers)

(* Lifetimes of what the cache writes.                                     *)
LEMMA WriteTypes ==
    ASSUME NEW e \in Entity, NEW answer \in AnswersTo(e)
    PROVE  /\ answer \in Answers /\ answer.asks = Asks(e)
           /\ [key |-> Key(e), answer |-> answer, ttl |-> Ttl(answer)]
                \in [key : Keys, answer : Answers, ttl : Lifetimes]
           /\ [key |-> Key(e), answer |-> answer, ttl |-> Ttl(answer) + Stale]
                \in [key : Keys, answer : Answers, ttl : Lifetimes]
<1>1. answer \in Answers /\ answer.asks = Asks(e)
  BY DEF AnswersTo, Answers, Questions
<1>2. Ttl(answer) \in Lifetimes /\ Ttl(answer) + Stale \in Lifetimes
  BY CacheConstants DEF CacheConstants, Ttl, Lifetimes
<1>3. Key(e) \in Keys
  BY DEF Keys
<1> QED
  BY <1>1, <1>2, <1>3

(* Every reachable state has the declared types: nothing in Redis outlives *)
(* its ttl and the stale time, and whoever waits has someone to wait for.  *)
LEMMA TypeInvariant == Spec => []TypeInv
<1>1. Init => TypeInv
  BY DEF Init, TypeInv, TypeOK, InProgress
<1>2. TypeInv /\ [Next]_vars => TypeInv'
  <2> SUFFICES ASSUME TypeInv, [Next]_vars PROVE TypeInv'
    OBVIOUS
  <2> USE DEF TypeInv, InProgress, KeyOf
  <2>1. ASSUME NEW r \in Request, NEW e \in Entity, Begin(r, e) PROVE TypeInv'
    <3>1. pc[r] = "idle" /\ ent' = [ent EXCEPT ![r] = e]
          /\ UNCHANGED <<got, behind, writes, entry>>
      BY <2>1 DEF Begin
    <3>2. CASE pc' = [pc EXCEPT ![r] = "get"] /\ UNCHANGED leader
      BY <3>1, <3>2 DEF TypeOK
    <3>3. ASSUME NEW l \in Request, Flying(l), KeyOf(l) = Key(e),
                 pc' = [pc EXCEPT ![r] = "wait"],
                 leader' = [leader EXCEPT ![r] = l]
          PROVE  TypeInv'
      <4>1. l # r /\ pc[l] # "idle"
        BY <3>1, <3>3 DEF Flying
      <4> QED
        BY <3>1, <3>3, <4>1 DEF TypeOK
    <3> QED
      BY <2>1, <3>2, <3>3 DEF Begin
  <2>2. ASSUME NEW r \in Request, Hit(r) PROVE TypeInv'
    <3>1. KeyOf(r) \in Keys
      BY <2>2 DEF Hit, Keys
    <3>2. entry[KeyOf(r)].answer \in Answers
      BY <2>2, <3>1 DEF Hit, TypeOK
    <3>3. (entry[KeyOf(r)].ttl <= Stale) \in BOOLEAN
      OBVIOUS
    <3>4. /\ got' = [got EXCEPT ![r] = entry[KeyOf(r)].answer]
          /\ behind' = [behind EXCEPT ![r] = entry[KeyOf(r)].ttl <= Stale]
          /\ pc' = [pc EXCEPT ![r] = "resolve"] /\ pc[r] = "get"
          /\ UNCHANGED <<ent, leader, writes, entry>>
      BY <2>2 DEF Hit
    <3> HIDE DEF KeyOf
    <3>5. TypeOK'
      BY <3>2, <3>3, <3>4 DEF TypeOK
    <3> USE DEF KeyOf
    <3>6. InProgress'
      BY <3>4 DEF TypeOK
    <3> QED
      BY <3>2, <3>4, <3>5, <3>6 DEF TypeOK
  <2>3. ASSUME NEW r \in Request, Miss(r) PROVE TypeInv'
    BY <2>3 DEF Miss, TypeOK
  <2>4. ASSUME NEW r \in Request, FanoutAnswers(r) \/ BypassAnswers(r)
        PROVE  TypeInv'
    <3>1. ent[r] \in Entity
      BY <2>4 DEF FanoutAnswers, BypassAnswers
    <3>2. PICK answer \in AnswersTo(ent[r]) :
             /\ got' = [got EXCEPT ![r] = answer]
             /\ \/ Write(ent[r], answer, Ttl(answer) + Stale)
                \/ Write(ent[r], answer, Ttl(answer))
      BY <2>4 DEF FanoutAnswers, BypassAnswers
    <3>3. answer \in Answers
          /\ writes' \subseteq [key : Keys, answer : Answers, ttl : Lifetimes]
      BY <3>1, <3>2, WriteTypes DEF Write, TypeOK
    <3>4. /\ pc[r] \in {"fanout", "bypass"}
          /\ \/ pc' = [pc EXCEPT ![r] = "resolve"]
             \/ pc' = [pc EXCEPT ![r] = "ok"]
          /\ UNCHANGED <<ent, leader, behind, entry>>
      BY <2>4 DEF FanoutAnswers, BypassAnswers
    <3>5. TypeOK'
      BY <3>2, <3>3, <3>4 DEF TypeOK
    <3>6. InProgress'
      BY <3>4 DEF TypeOK
    <3> QED
      BY <3>2, <3>3, <3>4, <3>5, <3>6 DEF TypeOK
  <2>5. ASSUME NEW r \in Request, FanoutFails(r) PROVE TypeInv'
    BY <2>5 DEF FanoutFails, Callers, TypeOK
  <2>6. ASSUME NEW r \in Request, Resolve(r) PROVE TypeInv'
    <3>1. got[r] \in Answers
      BY <2>6 DEF Resolve
    <3> QED
      BY <2>6, <3>1 DEF Resolve, Callers, TypeOK
  <2>7. ASSUME NEW r \in Request, Refresh(r) PROVE TypeInv'
    <3>1. ent[r] \in Entity
      BY <2>7 DEF Refresh
    <3>2. writes' \subseteq [key : Keys, answer : Answers, ttl : Lifetimes]
      BY <2>7, <3>1, WriteTypes DEF Refresh, Write, TypeOK
    <3>3. behind' = [behind EXCEPT ![r] = FALSE]
          /\ UNCHANGED <<pc, ent, leader, got, entry>>
      BY <2>7 DEF Refresh
    <3> QED
      BY <3>2, <3>3 DEF TypeOK
  <2>8. ASSUME NEW r \in Request, NEW e \in Entity,
               BeginBypass(r, e) \/ Refuse(r, e)
        PROVE  TypeInv'
    BY <2>8 DEF BeginBypass, Refuse, TypeOK
  <2>9. ASSUME NEW r \in Request, BypassFails(r) PROVE TypeInv'
    BY <2>9 DEF BypassFails, TypeOK
  <2>10. ASSUME NEW w \in writes, ExecuteWrite(w) PROVE TypeInv'
    <3>1. w.answer \in Answers /\ w.ttl \in Lifetimes
      BY DEF TypeOK
    <3>2. entry' \in [Keys -> {None} \cup [answer : Answers, ttl : Lifetimes]]
      BY <2>10, <3>1 DEF ExecuteWrite, TypeOK
    <3>3. writes' \subseteq writes /\ UNCHANGED <<pc, ent, leader, got, behind>>
      BY <2>10 DEF ExecuteWrite
    <3> QED
      BY <3>2, <3>3 DEF TypeOK
  <2>11. CASE Tick
    <3>1. ASSUME NEW k \in Keys, entry[k] # None, entry[k].ttl # 1
          PROVE  [entry[k] EXCEPT !.ttl = @ - 1]
                   \in [answer : Answers, ttl : Lifetimes]
      <4>1. entry[k] \in [answer : Answers, ttl : Lifetimes]
        BY <3>1 DEF TypeOK
      <4>2. entry[k].ttl - 1 \in Lifetimes
        BY <3>1, <4>1, CacheConstants DEF CacheConstants, Lifetimes
      <4> QED
        BY <4>1, <4>2
    <3>2. entry' \in [Keys -> {None} \cup [answer : Answers, ttl : Lifetimes]]
      BY <2>11, <3>1 DEF Tick
    <3>3. UNCHANGED <<pc, ent, leader, got, behind, writes>>
      BY <2>11 DEF Tick
    <3> QED
      BY <3>2, <3>3 DEF TypeOK
  <2>12. CASE UNCHANGED vars
    BY <2>12 DEF vars, TypeOK
  <2> QED
    BY <2>1, <2>2, <2>3, <2>4, <2>5, <2>6, <2>7, <2>8, <2>9, <2>10, <2>11,
       <2>12 DEF Next, Step
<1> QED
  BY <1>1, <1>2, PTL DEF Spec

(* The type invariant of the cache (result-cache.service.ts:123-129): no   *)
(* entry lives longer than its ttl and the stale time.                     *)
THEOREM TypeCorrect == Spec => []TypeOK
<1>1. TypeInv => TypeOK
  BY DEF TypeInv
<1> QED
  BY <1>1, TypeInvariant, PTL

-----------------------------------------------------------------------------
(* The two halves of OneSharedPromise: one promise per pod and key, and a  *)
(* promise for everybody who waits.                                        *)
OneFlight ==
    \A r, q \in Request :
        r # q /\ Flying(r) /\ Flying(q) /\ PodOf[r] = PodOf[q]
        => KeyOf(r) # KeyOf(q)

Awaited ==
    \A r \in Request : pc[r] = "wait" =>
        LET l == leader[r]
        IN  Flying(l) /\ PodOf[l] = PodOf[r] /\ KeyOf(l) = KeyOf(r)

LEMMA OneFlightInvariant == Spec => []OneFlight
<1>1. Init => OneFlight
  BY DEF Init, OneFlight, Flying
<1>2. TypeInv /\ OneFlight /\ [Next]_vars => OneFlight'
  <2> SUFFICES ASSUME TypeInv, OneFlight, [Next]_vars,
                      NEW r \in Request, NEW q \in Request, r # q,
                      PodOf[r] = PodOf[q], Flying(r)', Flying(q)'
               PROVE  KeyOf(r)' # KeyOf(q)'
    BY DEF OneFlight
  <2>1. ASSUME NEW x \in Request, NEW e \in Entity, Begin(x, e)
        PROVE  KeyOf(r)' # KeyOf(q)'
    <3>1. /\ pc[x] = "idle"
          /\ \A y \in Request \ {x} : pc'[y] = pc[y] /\ ent'[y] = ent[y]
          /\ ent'[x] = e
      BY <2>1 DEF Begin, TypeInv, TypeOK
    <3>2. ASSUME pc'[x] = "get", NEW y \in Request \ {x}, Flying(y),
                 PodOf[y] = PodOf[x]
          PROVE  KeyOf(y) # Key(e)
      <4>1. pc' # [pc EXCEPT ![x] = "wait"]
        BY <3>2 DEF TypeInv, TypeOK
      <4> QED
        BY <2>1, <3>2, <4>1 DEF Begin
    <3>3. Flying(x)' => pc'[x] = "get"
      <4>1. pc'[x] \in {"get", "wait"}
        BY <2>1 DEF Begin, TypeInv, TypeOK
      <4> QED
        BY <4>1 DEF Flying
    <3>4. CASE r = x
      BY <3>1, <3>2, <3>3, <3>4 DEF Flying, KeyOf
    <3>5. CASE q = x
      BY <3>1, <3>2, <3>3, <3>5 DEF Flying, KeyOf
    <3>6. CASE r # x /\ q # x
      BY <3>1, <3>6 DEF OneFlight, Flying, KeyOf
    <3> QED
      BY <3>4, <3>5, <3>6
  <2>2. ASSUME UNCHANGED ent, Flying(r), Flying(q)
        PROVE  KeyOf(r)' # KeyOf(q)'
    BY <2>2 DEF OneFlight, KeyOf
  <2>3. ASSUME NEW x \in Request, Step(x)
        PROVE  UNCHANGED ent /\ Flying(r) /\ Flying(q)
    <3>1. UNCHANGED ent
      BY <2>3 DEF Step, Hit, Miss, FanoutAnswers, FanoutFails, Resolve,
                  Refresh, BypassAnswers, BypassFails
    <3>2. ASSUME NEW y \in Request, Flying(y)' PROVE Flying(y)
      <4>1. CASE FanoutFails(x) \/ Resolve(x)
        BY <3>2, <4>1 DEF FanoutFails, Resolve, Flying
      <4>2. CASE \/ Hit(x) \/ Miss(x) \/ FanoutAnswers(x)
                 \/ BypassAnswers(x) \/ BypassFails(x)
        BY <3>2, <4>2 DEF Hit, Miss, FanoutAnswers, BypassAnswers,
                          BypassFails, Flying, TypeInv, TypeOK
      <4>3. CASE Refresh(x)
        BY <3>2, <4>3 DEF Refresh, Flying
      <4> QED
        BY <2>3, <4>1, <4>2, <4>3 DEF Step
    <3> QED
      BY <3>1, <3>2
  <2>4. ASSUME NEW x \in Request, NEW e \in Entity,
               BeginBypass(x, e) \/ Refuse(x, e)
        PROVE  KeyOf(r)' # KeyOf(q)'
    <3>1. \A y \in Request : Flying(y)' => y # x /\ Flying(y) /\ ent'[y] = ent[y]
      BY <2>4 DEF BeginBypass, Refuse, Flying, TypeInv, TypeOK
    <3> QED
      BY <3>1 DEF OneFlight, KeyOf
  <2>5. CASE Tick \/ (\E w \in writes : ExecuteWrite(w)) \/ UNCHANGED vars
    <3>1. UNCHANGED <<pc, ent>>
      BY <2>5 DEF Tick, ExecuteWrite, vars
    <3> QED
      BY <2>2, <3>1 DEF Flying
  <2> QED
    BY <2>1, <2>2, <2>3, <2>4, <2>5 DEF Next
<1> QED
  BY <1>1, <1>2, TypeInvariant, PTL DEF Spec

(* A promise that settles or fails lets go of everybody who waits for it.  *)
LEMMA AwaitedInvariant == Spec => []Awaited
<1>1. Init => Awaited
  BY DEF Init, Awaited
<1>2. TypeInv /\ Awaited /\ [Next]_vars => Awaited'
  <2> SUFFICES ASSUME TypeInv, Awaited, [Next]_vars,
                      NEW r \in Request, pc'[r] = "wait"
               PROVE  /\ Flying(leader[r])' /\ PodOf[leader'[r]] = PodOf[r]
                      /\ KeyOf(leader[r])' = KeyOf(r)'
    BY DEF Awaited
  <2>0. pc[r] = "wait" =>
          /\ leader[r] \in Request /\ leader[r] # r
          /\ Flying(leader[r]) /\ PodOf[leader[r]] = PodOf[r]
          /\ KeyOf(leader[r]) = KeyOf(r)
    BY DEF Awaited, TypeInv, InProgress, Flying
  <2>1. ASSUME NEW x \in Request, NEW e \in Entity,
               Begin(x, e) \/ BeginBypass(x, e) \/ Refuse(x, e)
        PROVE  /\ Flying(leader[r])' /\ PodOf[leader'[r]] = PodOf[r]
               /\ KeyOf(leader[r])' = KeyOf(r)'
    <3>1. /\ pc[x] = "idle" /\ ent'[x] = e
          /\ \A y \in Request \ {x} :
               pc'[y] = pc[y] /\ ent'[y] = ent[y] /\ leader'[y] = leader[y]
      BY <2>1 DEF Begin, BeginBypass, Refuse, TypeInv, TypeOK
    <3>2. CASE r = x
      <4>1. PICK l \in Request : /\ Flying(l) /\ PodOf[l] = PodOf[r]
                                 /\ KeyOf(l) = Key(e)
                                 /\ leader' = [leader EXCEPT ![r] = l]
        BY <2>1, <3>2 DEF Begin, BeginBypass, Refuse, TypeInv, TypeOK
      <4>2. l # x /\ leader'[r] = l
        BY <3>1, <4>1 DEF Flying, TypeInv, TypeOK
      <4> QED
        BY <3>1, <3>2, <4>1, <4>2 DEF Flying, KeyOf
    <3>3. CASE r # x
      <4>1. pc[r] = "wait" /\ leader'[r] = leader[r] /\ leader[r] # x
        BY <2>0, <3>1, <3>3 DEF Flying
      <4> QED
        BY <2>0, <3>1, <3>3, <4>1 DEF Flying, KeyOf
    <3> QED
      BY <3>2, <3>3
  <2>2. ASSUME UNCHANGED <<ent, leader>>, pc[r] = "wait", Flying(leader[r])'
        PROVE  /\ Flying(leader[r])' /\ PodOf[leader'[r]] = PodOf[r]
               /\ KeyOf(leader[r])' = KeyOf(r)'
    BY <2>0, <2>2 DEF KeyOf
  <2>3. ASSUME NEW x \in Request, Step(x)
        PROVE  UNCHANGED <<ent, leader>> /\ pc[r] = "wait" /\ Flying(leader[r])'
    <3>1. UNCHANGED <<ent, leader>>
      BY <2>3 DEF Step, Hit, Miss, FanoutAnswers, FanoutFails, Resolve,
                  Refresh, BypassAnswers, BypassFails
    <3>2. CASE FanoutFails(x) \/ Resolve(x)
      <4>1. pc[r] = "wait" /\ r \notin Callers(x)
        BY <3>2 DEF FanoutFails, Resolve
      <4>2. leader[r] # x /\ leader[r] \notin Callers(x)
        BY <2>0, <4>1 DEF Callers, Flying
      <4> QED
        BY <2>0, <3>1, <3>2, <4>1, <4>2 DEF FanoutFails, Resolve, Flying
    <3>3. CASE Hit(x) \/ Miss(x) \/ FanoutAnswers(x)
      BY <2>0, <3>1, <3>3 DEF Hit, Miss, FanoutAnswers, Flying, TypeInv, TypeOK
    <3>4. CASE BypassAnswers(x) \/ BypassFails(x) \/ Refresh(x)
      BY <2>0, <3>1, <3>4 DEF BypassAnswers, BypassFails, Refresh, Flying, TypeInv, TypeOK
    <3> QED
      BY <2>3, <3>2, <3>3, <3>4 DEF Step
  <2>4. CASE Tick \/ (\E w \in writes : ExecuteWrite(w)) \/ UNCHANGED vars
    <3>1. UNCHANGED <<pc, ent, leader>>
      BY <2>4 DEF Tick, ExecuteWrite, vars
    <3> QED
      BY <2>0, <2>2, <3>1 DEF Flying
  <2> QED
    BY <2>1, <2>2, <2>3, <2>4 DEF Next
<1> QED
  BY <1>1, <1>2, TypeInvariant, PTL DEF Spec

(* A pod holds one promise per key, and nobody waits for one that has      *)
(* settled (result-cache.service.ts:168).                                  *)
THEOREM PromiseShared == Spec => []OneSharedPromise
<1>1. OneFlight /\ Awaited => OneSharedPromise
  BY DEF OneFlight, Awaited, OneSharedPromise
<1> QED
  BY <1>1, OneFlightInvariant, AwaitedInvariant, PTL

-----------------------------------------------------------------------------
(* Whatever is stored, or on its way, answers what the entities of its key *)
(* ask, and so does whatever a request has.                                *)
Answering(k, answer) == \E e \in Entity : Key(e) = k /\ answer.asks = Asks(e)

Faithful ==
    /\ \A w \in writes : Answering(w.key, w.answer)
    /\ \A k \in Keys : entry[k] # None => Answering(k, entry[k].answer)
    /\ \A r \in Request : pc[r] \in {"resolve", "ok"} => got[r].asks = Asks(ent[r])

LEMMA FaithfulInvariant == ASSUME ConfidentlyLocated PROVE Spec => []Faithful
<1>1. Init => Faithful
  BY DEF Init, Faithful
<1>2. TypeInv /\ Faithful /\ [Next]_vars => Faithful'
  <2> SUFFICES ASSUME TypeInv, Faithful, [Next]_vars PROVE Faithful'
    OBVIOUS
  <2>0. KeyDecides
    BY LocatedKeyDecides
  <2>1. ASSUME NEW r \in Request, NEW e \in Entity, Begin(r, e) PROVE Faithful'
    <3>1. /\ pc[r] = "idle" /\ ent' = [ent EXCEPT ![r] = e]
          /\ \/ pc' = [pc EXCEPT ![r] = "get"]
             \/ pc' = [pc EXCEPT ![r] = "wait"]
          /\ UNCHANGED <<got, writes, entry>>
      BY <2>1 DEF Begin
    <3> QED
      BY <3>1 DEF Faithful, TypeInv, TypeOK
  <2>2. ASSUME NEW r \in Request, Hit(r) PROVE Faithful'
    <3>1. ent[r] \in Entity /\ KeyOf(r) \in Keys /\ entry[KeyOf(r)] # None
      BY <2>2 DEF Hit, TypeInv, InProgress, KeyOf, Keys
    <3>2. PICK e \in Entity : Key(e) = KeyOf(r)
                              /\ entry[KeyOf(r)].answer.asks = Asks(e)
      BY <3>1 DEF Faithful, Answering
    <3>3. entry[KeyOf(r)].answer.asks = Asks(ent[r])
      BY <2>0, <3>1, <3>2 DEF KeyDecides, KeyOf
    <3>4. /\ got' = [got EXCEPT ![r] = entry[KeyOf(r)].answer]
          /\ pc' = [pc EXCEPT ![r] = "resolve"]
          /\ UNCHANGED <<ent, writes, entry>>
      BY <2>2 DEF Hit
    <3> QED
      BY <3>3, <3>4 DEF Faithful, TypeInv, TypeOK
  <2>3. ASSUME NEW r \in Request, FanoutAnswers(r) \/ BypassAnswers(r)
        PROVE  Faithful'
    <3>1. ent[r] \in Entity
      BY <2>3 DEF FanoutAnswers, BypassAnswers, TypeInv, InProgress
    <3>2. PICK answer \in AnswersTo(ent[r]) :
             /\ got' = [got EXCEPT ![r] = answer]
             /\ \/ Write(ent[r], answer, Ttl(answer) + Stale)
                \/ Write(ent[r], answer, Ttl(answer))
      BY <2>3 DEF FanoutAnswers, BypassAnswers
    <3>3. answer.asks = Asks(ent[r])
      BY <3>1, WriteTypes
    <3>4. \A w \in writes' : Answering(w.key, w.answer)
      BY <3>1, <3>2, <3>3 DEF Write, Answering, Faithful
    <3>5. /\ \/ pc' = [pc EXCEPT ![r] = "resolve"]
             \/ pc' = [pc EXCEPT ![r] = "ok"]
          /\ UNCHANGED <<ent, entry>>
      BY <2>3 DEF FanoutAnswers, BypassAnswers
    <3> QED
      BY <3>2, <3>3, <3>4, <3>5 DEF Faithful, TypeInv, TypeOK
  <2>4. ASSUME NEW r \in Request, Resolve(r) PROVE Faithful'
    <3>1. ent[r] \in Entity /\ got[r].asks = Asks(ent[r])
      BY <2>4 DEF Resolve, TypeInv, InProgress, Faithful
    <3>2. ASSUME NEW q \in Callers(r) PROVE got[r].asks = Asks(ent[q])
      <4>1. q = r \/ (ent[q] \in Entity /\ KeyOf(r) = KeyOf(q))
        BY <3>2 DEF Callers, TypeInv, InProgress
      <4> QED
        BY <2>0, <3>1, <4>1 DEF KeyDecides, KeyOf
    <3>3. /\ pc' = [q \in Request |-> IF q \in Callers(r) THEN "ok" ELSE pc[q]]
          /\ got' = [q \in Request |-> IF q \in Callers(r) THEN got[r] ELSE got[q]]
          /\ UNCHANGED <<ent, writes, entry>>
      BY <2>4 DEF Resolve
    <3> QED
      BY <3>2, <3>3 DEF Faithful
  <2>5. ASSUME NEW r \in Request, Refresh(r) PROVE Faithful'
    <3>1. ent[r] \in Entity
      BY <2>5 DEF Refresh, TypeInv, InProgress
    <3>2. \A answer \in AnswersTo(ent[r]) : answer.asks = Asks(ent[r])
      BY <3>1, WriteTypes
    <3>3. \A w \in writes' : Answering(w.key, w.answer)
      BY <2>5, <3>1, <3>2 DEF Refresh, Write, Answering, Faithful
    <3> QED
      BY <2>5, <3>3 DEF Refresh, Faithful
  <2>6. ASSUME NEW r \in Request, Miss(r) \/ BypassFails(r) PROVE Faithful'
    BY <2>6 DEF Miss, BypassFails, Faithful, TypeInv, TypeOK
  <2>7. ASSUME NEW r \in Request, FanoutFails(r) PROVE Faithful'
    BY <2>7 DEF FanoutFails, Faithful
  <2>8. ASSUME NEW r \in Request, NEW e \in Entity,
               BeginBypass(r, e) \/ Refuse(r, e)
        PROVE  Faithful'
    BY <2>8 DEF BeginBypass, Refuse, Faithful, TypeInv, TypeOK
  <2>9. ASSUME NEW w \in writes, ExecuteWrite(w) PROVE Faithful'
    <3>1. \A k \in Keys :
             entry'[k] = entry[k] \/ (k = w.key /\ entry'[k].answer = w.answer)
      BY <2>9 DEF ExecuteWrite, TypeInv, TypeOK
    <3>2. writes' \subseteq writes /\ UNCHANGED <<pc, ent, got>>
      BY <2>9 DEF ExecuteWrite
    <3> QED
      BY <3>1, <3>2 DEF Faithful
  <2>10. CASE Tick
    <3>1. \A k \in Keys : entry'[k] # None =>
             entry[k] # None /\ entry'[k].answer = entry[k].answer
      BY <2>10 DEF Tick, TypeInv, TypeOK
    <3> QED
      BY <2>10, <3>1 DEF Tick, Faithful
  <2>11. CASE UNCHANGED vars
    BY <2>11 DEF vars, Faithful
  <2> QED
    BY <2>1, <2>2, <2>3, <2>4, <2>5, <2>6, <2>7, <2>8, <2>9, <2>10, <2>11
    DEF Next, Step
<1> QED
  BY <1>1, <1>2, TypeInvariant, PTL DEF Spec

(* Nobody gets the answer to another question, from its own pod or from    *)
(* Redis, as long as no entity has an address above those that count       *)
(* (result-cache.service.ts:39-41, address-parser.ts:31-36).               *)
THEOREM OwnAnswers == ASSUME ConfidentlyLocated PROVE Spec => []OwnAnswer
<1>1. Faithful => OwnAnswer
  BY DEF Faithful, OwnAnswer
<1> QED
  BY <1>1, FaithfulInvariant, PTL

-----------------------------------------------------------------------------
(* The cache implements OneAnswer                                          *)

LEMMA ServiceInit == Init => Service!Init
BY DEF Init, Service!Init, Asked, Told

(* A step in which nobody is told anything and nobody asks is a stutter.   *)
LEMMA Stutter ==
    ASSUME UNCHANGED ent,
           \A r \in Request : /\ pc'[r] = "idle" <=> pc[r] = "idle"
                              /\ pc'[r] = "ok" <=> pc[r] = "ok"
                              /\ pc'[r] = "failed" <=> pc[r] = "failed"
                              /\ pc[r] = "ok" => got'[r] = got[r]
    PROVE  UNCHANGED Service!vars
<1>1. UNCHANGED Asked
  BY DEF Asked
<1>2. UNCHANGED Told
  BY DEF Told
<1> QED
  BY <1>1, <1>2 DEF Service!vars

(* A step in which requests are told one answer, right for each of them.   *)
LEMMA Telling ==
    ASSUME TypeInv, UNCHANGED ent, NEW S \in SUBSET Request, NEW answer,
           \A r \in Request : pc'[r] = "idle" <=> pc[r] = "idle",
           \A r \in S : pc[r] \notin {"idle", "ok", "failed"} /\ Told'[r] = answer,
           \A r \in Request \ S : Told'[r] = Told[r],
           \A r \in S : answer \in {Rejection} \cup RightAnswers[Asks(ent[r])]
    PROVE  Service!Tell
<1>1. UNCHANGED Asked
  BY DEF Asked
<1>2. \A r \in Request : Told'[r] # Told[r] => r \in S
  OBVIOUS
<1>3. \A r \in S : Told[r] = None /\ Asked[r] = Asks(ent[r]) /\ Asked[r] # None
  BY NoneApart DEF Told, Asked, TypeInv, InProgress, Questions
<1>4. Told' = [r \in Request |-> Told'[r]]
  BY DEF Told
<1> QED
  BY <1>1, <1>2, <1>3, <1>4 DEF Service!Tell, Service!Told

(* Every step of the cache is one of OneAnswer, or a stutter.              *)
LEMMA ServiceStep ==
    ASSUME TypeInv, Faithful, Faithful', [Next]_vars
    PROVE  [Service!Next]_(Service!vars)
<1>1. ASSUME NEW r \in Request, NEW e \in Entity,
             Begin(r, e) \/ BeginBypass(r, e) \/ Refuse(r, e)
      PROVE  Service!Next
  <2>1. /\ pc[r] = "idle" /\ ent' = [ent EXCEPT ![r] = e] /\ UNCHANGED got
        /\ \/ \E s \in {"get", "wait", "bypass"} : pc' = [pc EXCEPT ![r] = s]
           \/ pc' = [pc EXCEPT ![r] = "failed"]
    BY <1>1 DEF Begin, BeginBypass, Refuse
  <2>2. Service!Asks(r)
    <3>1. Asked[r] = None /\ Asked'[r] = Asks(e) /\ Asks(e) \in Questions
      BY <2>1 DEF Asked, TypeInv, TypeOK, Questions
    <3>2. Asked' = [Asked EXCEPT ![r] = Asked'[r]]
      BY <2>1 DEF Asked, TypeInv, TypeOK
    <3> QED
      BY <3>1, <3>2 DEF Service!Asks
  <2>3. CASE \E s \in {"get", "wait", "bypass"} : pc' = [pc EXCEPT ![r] = s]
    <3>1. UNCHANGED Told
      BY <2>1, <2>3 DEF Told, TypeInv, TypeOK
    <3> QED
      BY <2>2, <3>1 DEF Service!Next, Service!Ask
  <2>4. CASE pc' = [pc EXCEPT ![r] = "failed"]
    <3>1. Told' = [Told EXCEPT ![r] = Rejection]
      BY <2>1, <2>4 DEF Told, TypeInv, TypeOK
    <3> QED
      BY <2>2, <3>1 DEF Service!Next, Service!Refuse
  <2> QED
    BY <2>1, <2>3, <2>4
<1>2. ASSUME NEW r \in Request, Hit(r) \/ Miss(r) \/ FanoutAnswers(r)
      PROVE  UNCHANGED Service!vars
  <2>1. /\ pc[r] \in {"get", "fanout"} /\ UNCHANGED ent
        /\ \E s \in {"resolve", "fanout"} : pc' = [pc EXCEPT ![r] = s]
        /\ \A q \in Request \ {r} : got'[q] = got[q]
    BY <1>2 DEF Hit, Miss, FanoutAnswers, TypeInv, TypeOK
  <2> QED
    BY <2>1, Stutter DEF TypeInv, TypeOK
<1>3. ASSUME NEW r \in Request, Refresh(r) PROVE UNCHANGED Service!vars
  BY <1>3, Stutter DEF Refresh
<1>4. ASSUME NEW r \in Request, FanoutFails(r) PROVE Service!Tell
  <2>1. pc[r] = "fanout" /\ UNCHANGED <<ent, got>>
        /\ pc' = [q \in Request |-> IF q \in Callers(r) THEN "failed" ELSE pc[q]]
    BY <1>4 DEF FanoutFails
  <2>2. Callers(r) \in SUBSET Request
        /\ \A q \in Callers(r) : pc[q] \in {"fanout", "wait"}
    BY <2>1 DEF Callers
  <2>3. /\ \A q \in Callers(r) : Told'[q] = Rejection
        /\ \A q \in Request \ Callers(r) : Told'[q] = Told[q]
    BY <2>1, <2>2 DEF Told
  <2> QED
    BY <2>1, <2>2, <2>3, Telling
<1>5. ASSUME NEW r \in Request, Resolve(r) PROVE Service!Tell
  <2>1. /\ pc[r] = "resolve" /\ UNCHANGED ent
        /\ pc' = [q \in Request |-> IF q \in Callers(r) THEN "ok" ELSE pc[q]]
        /\ got' = [q \in Request |-> IF q \in Callers(r) THEN got[r] ELSE got[q]]
    BY <1>5 DEF Resolve
  <2>2. Callers(r) \in SUBSET Request
        /\ \A q \in Callers(r) : pc[q] \in {"resolve", "wait"}
    BY <2>1 DEF Callers
  <2>3. /\ \A q \in Callers(r) : Told'[q] = got[r]
        /\ \A q \in Request \ Callers(r) : Told'[q] = Told[q]
    BY <2>1, <2>2 DEF Told
  <2>4. ASSUME NEW q \in Callers(r)
        PROVE  got[r] \in RightAnswers[Asks(ent[q])]
    <3>1. got[r].asks = Asks(ent[q])
      BY <2>1, <2>2 DEF Faithful
    <3>2. got[r] \in Answers /\ Asks(ent[q]) \in Questions
      BY <2>1, <2>2 DEF TypeInv, InProgress, Questions
    <3> QED
      BY <3>1, <3>2 DEF RightAnswers, Answers
  <2>5. \A q \in Request : pc'[q] = "idle" <=> pc[q] = "idle"
    BY <2>1, <2>2
  <2>6. \A q \in Callers(r) : got[r] \in {Rejection} \cup RightAnswers[Asks(ent[q])]
    BY <2>4
  <2>7. UNCHANGED ent /\ \A q \in Callers(r) : pc[q] \notin {"idle", "ok", "failed"}
    BY <2>1, <2>2
  <2> QED
    BY <2>2, <2>3, <2>5, <2>6, <2>7, Telling
<1>6. ASSUME NEW r \in Request, BypassAnswers(r) \/ BypassFails(r)
      PROVE  Service!Tell
  <2>1. pc[r] = "bypass" /\ UNCHANGED ent
    BY <1>6 DEF BypassAnswers, BypassFails
  <2>2. PICK answer \in {Rejection} \cup AnswersTo(ent[r]) :
           /\ Told'[r] = answer
           /\ \A q \in Request \ {r} : Told'[q] = Told[q] /\ pc'[q] = pc[q]
           /\ pc'[r] # "idle"
    <3>1. CASE BypassAnswers(r)
      <4>1. PICK answer \in AnswersTo(ent[r]) : got' = [got EXCEPT ![r] = answer]
        BY <3>1 DEF BypassAnswers
      <4>2. pc' = [pc EXCEPT ![r] = "ok"]
        BY <3>1 DEF BypassAnswers
      <4> QED
        BY <4>1, <4>2 DEF Told, TypeInv, TypeOK
    <3>2. CASE BypassFails(r)
      BY <3>2 DEF BypassFails, Told, TypeInv, TypeOK
    <3> QED
      BY <1>6, <3>1, <3>2
  <2>3. answer \in {Rejection} \cup RightAnswers[Asks(ent[r])]
    BY <2>1, <2>2 DEF AnswersTo, RightAnswers, TypeInv, InProgress, Questions
  <2>4. /\ {r} \in SUBSET Request
        /\ \A q \in Request : pc'[q] = "idle" <=> pc[q] = "idle"
        /\ \A q \in {r} : /\ pc[q] \notin {"idle", "ok", "failed"}
                          /\ Told'[q] = answer
                          /\ answer \in {Rejection} \cup RightAnswers[Asks(ent[q])]
        /\ \A q \in Request \ {r} : Told'[q] = Told[q]
    BY <2>1, <2>2, <2>3
  <2> QED
    BY <2>1, <2>4, Telling
<1>7. ASSUME Tick \/ (\E w \in writes : ExecuteWrite(w)) \/ UNCHANGED vars
      PROVE  UNCHANGED Service!vars
  <2>1. UNCHANGED <<pc, ent, got>>
    BY <1>7 DEF Tick, ExecuteWrite, vars
  <2> QED
    BY <2>1, Stutter
<1> QED
  BY <1>1, <1>2, <1>3, <1>4, <1>5, <1>6, <1>7
  DEF Next, Step, Service!Next

(* The cache is OneAnswer: under the same condition, sharing, keeping and  *)
(* refreshing answers is invisible to those who ask                        *)
(* (result-cache.service.ts:139-177).                                      *)
THEOREM Refines == ASSUME ConfidentlyLocated PROVE Spec => IsOneAnswer
<1> QED
  BY ServiceInit, ServiceStep, TypeInvariant, FaithfulInvariant, PTL
  DEF Spec, IsOneAnswer, Service!Spec
=============================================================================
