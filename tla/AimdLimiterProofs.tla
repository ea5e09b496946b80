------------------------- MODULE AimdLimiterProofs -------------------------
(***************************************************************************)
(* What AimdLimiter promises for every number of pods and slots and every  *)
(* ceiling, floor and interval: its type invariant, the agreement of the   *)
(* last pod to speak with Redis, and additive increase and multiplicative  *)
(* decrease as long as no other pod speaks in between.                     *)
(***************************************************************************)
EXTENDS AimdLimiter, SequenceTheorems, TLAPS

(* The last of the updates of p under way.                                 *)
LastSent(p) == sent[p][Len(sent[p])].amount

(* The strengthening of LastWordIsCeiling: as long as updates are under    *)
(* way, the last of them carries the ceiling.                              *)
LastSentIsCeiling == \A p \in Pod : sent[p] # <<>> => LastSent(p) = ceiling[p]

-----------------------------------------------------------------------------
(* Arithmetic of the adaptation: half, with the floor, stays in range.     *)
LEMMA HalvedRange ==
    ASSUME NEW n \in MinFloor..MaxCeiling
    PROVE  Halved(n) \in MinFloor..MaxCeiling
<1>1. n \div 2 \in Nat /\ n \div 2 <= n
  BY LimiterConstants DEF LimiterConstants
<1> QED
  BY <1>1, LimiterConstants DEF LimiterConstants, Halved, Larger

(* What sending an update does to the pod's queue, and only to its queue.  *)
LEMMA SendEffect ==
    ASSUME TypeOK, NEW p \in Pod, NEW kind \in {"halve", "grow"},
           NEW n \in MinFloor..MaxCeiling, Send(p, kind, n)
    PROVE  /\ sent' \in [Pod -> Seq(Update)]
           /\ sent'[p] = Append(sent[p], [kind |-> kind, amount |-> n])
           /\ sent'[p] # <<>>
           /\ Len(sent'[p]) = Len(sent[p]) + 1
           /\ sent'[p][Len(sent'[p])] = [kind |-> kind, amount |-> n]
           /\ sent'[p][Len(sent'[p])].amount = n
           /\ \A q \in Pod \ {p} : sent'[q] = sent[q]
<1> DEFINE u == [kind |-> kind, amount |-> n]
<1>1. u \in Update
  BY DEF Update
<1>2. sent[p] \in Seq(Update) /\ sent' = [sent EXCEPT ![p] = Append(sent[p], u)]
  BY DEF TypeOK, Send
<1>3. Append(sent[p], u) \in Seq(Update)
      /\ Append(sent[p], u) # <<>>
      /\ Len(Append(sent[p], u)) = Len(sent[p]) + 1
      /\ Append(sent[p], u)[Len(sent[p]) + 1] = u
      /\ u.amount = n
  BY <1>1, <1>2
<1> QED
  BY <1>2, <1>3 DEF TypeOK

(* What Redis executing an update does to the queue.                       *)
LEMMA ExecuteEffect ==
    ASSUME TypeOK, NEW p \in Pod, ExecuteUpdate(p)
    PROVE  /\ Head(sent[p]) \in Update /\ Head(sent[p]) = sent[p][1]
           /\ Len(sent[p]) \in Nat \ {0}
           /\ sent' \in [Pod -> Seq(Update)]
           /\ sent'[p] = Tail(sent[p])
           /\ Len(sent'[p]) = Len(sent[p]) - 1
           /\ \A i \in 1..Len(sent'[p]) : sent'[p][i] = sent[p][i + 1]
           /\ \A q \in Pod \ {p} : sent'[q] = sent[q]
<1>1. sent[p] \in Seq(Update) /\ sent[p] # <<>>
  BY DEF TypeOK, ExecuteUpdate
<1>2. /\ Head(sent[p]) \in Update /\ Head(sent[p]) = sent[p][1]
      /\ Len(sent[p]) \in Nat \ {0}
      /\ Tail(sent[p]) \in Seq(Update)
      /\ Len(Tail(sent[p])) = Len(sent[p]) - 1
      /\ \A i \in 1..Len(Tail(sent[p])) : Tail(sent[p])[i] = sent[p][i + 1]
  BY <1>1
<1>3. sent' = [sent EXCEPT ![p] = Tail(sent[p])]
  BY DEF ExecuteUpdate
<1> QED
  BY <1>2, <1>3 DEF TypeOK

(* The recovery interval either raises the ceiling and sends it, or leaves *)
(* both alone.                                                             *)
LEMMA IncreaseEffect ==
    ASSUME TypeOK, NEW p \in Pod, AttemptLinearIncrease(p)
    PROVE  /\ UNCHANGED <<since, holder, reservoir, amount, writer, restarts>>
           /\ timer' \in [Pod -> 0..Quiet]
           /\ \/ /\ ceiling[p] + 1 \in MinFloor..MaxCeiling
                 /\ ceiling' = [ceiling EXCEPT ![p] = ceiling[p] + 1]
                 /\ Send(p, "grow", ceiling[p] + 1)
              \/ UNCHANGED <<ceiling, sent>>
<1>1. UNCHANGED <<since, holder, reservoir, amount, writer, restarts>>
  BY DEF AttemptLinearIncrease, redisVars
<1>2. Quiet \in 0..Quiet
  BY LimiterConstants DEF LimiterConstants
<1>3. timer' \in [Pod -> 0..Quiet]
  BY <1>2 DEF AttemptLinearIncrease, TypeOK
<1>4. CASE since[p] >= Quiet /\ ceiling[p] < MaxCeiling
  <2>1. ceiling[p] \in MinFloor..MaxCeiling
    BY DEF TypeOK
  <2>2. ceiling[p] + 1 \in MinFloor..MaxCeiling
    BY <1>4, <2>1, LimiterConstants DEF LimiterConstants
  <2>3. /\ ceiling' = [ceiling EXCEPT ![p] = ceiling[p] + 1]
        /\ Send(p, "grow", ceiling[p] + 1)
    BY <1>4 DEF AttemptLinearIncrease
  <2> QED
    BY <1>1, <1>3, <2>2, <2>3
<1>5. CASE ~(since[p] >= Quiet /\ ceiling[p] < MaxCeiling)
  BY <1>1, <1>3, <1>5 DEF AttemptLinearIncrease
<1> QED
  BY <1>4, <1>5

-----------------------------------------------------------------------------
(* Every reachable state has the declared types: no rate below the floor   *)
(* or above the ceiling, in memory, under way or in Redis.                 *)
THEOREM TypeCorrect == Spec => []TypeOK
<1>1. Init => TypeOK
  <2>1. <<>> \in Seq(Update)
    OBVIOUS
  <2> QED
    BY <2>1, LimiterConstants DEF LimiterConstants, Init, TypeOK
<1>2. TypeOK /\ [Next]_vars => TypeOK'
  <2> SUFFICES ASSUME TypeOK, [Next]_vars PROVE TypeOK'
    OBVIOUS
  <2> USE LimiterConstants DEF LimiterConstants, podVars, redisVars
  <2>1. ASSUME NEW p \in Pod, StartSearch(p) PROVE TypeOK'
    BY <2>1 DEF TypeOK, StartSearch
  <2>2. ASSUME NEW p \in Pod, EndSearch(p) PROVE TypeOK'
    BY <2>2 DEF TypeOK, EndSearch
  <2>3. CASE RefreshReservoir
    <3>1. reservoir' \in 0..MaxCeiling
      BY <2>3 DEF TypeOK, RefreshReservoir
    <3> QED
      BY <2>3, <3>1 DEF TypeOK, RefreshReservoir
  <2>4. ASSUME NEW p \in Pod, Handle429(p) PROVE TypeOK'
    <3>1. Halved(ceiling[p]) \in MinFloor..MaxCeiling
      BY HalvedRange DEF TypeOK
    <3>2. sent' \in [Pod -> Seq(Update)]
      BY <2>4, <3>1, SendEffect DEF Handle429
    <3>3. ceiling' \in [Pod -> MinFloor..MaxCeiling] /\ since' \in [Pod -> 0..Quiet]
      BY <2>4, <3>1 DEF TypeOK, Handle429
    <3>4. UNCHANGED <<timer, holder, reservoir, amount, writer, restarts>>
      BY <2>4 DEF Handle429
    <3> QED
      BY <3>2, <3>3, <3>4 DEF TypeOK
  <2>5. ASSUME NEW p \in Pod, AttemptLinearIncrease(p) PROVE TypeOK'
    <3>1. /\ UNCHANGED <<since, holder, reservoir, amount, writer, restarts>>
          /\ timer' \in [Pod -> 0..Quiet]
      BY <2>5, IncreaseEffect
    <3>2. /\ ceiling' \in [Pod -> MinFloor..MaxCeiling]
          /\ sent' \in [Pod -> Seq(Update)]
      <4>1. CASE UNCHANGED <<ceiling, sent>>
        BY <4>1 DEF TypeOK
      <4>2. CASE /\ ceiling[p] + 1 \in MinFloor..MaxCeiling
                 /\ ceiling' = [ceiling EXCEPT ![p] = ceiling[p] + 1]
                 /\ Send(p, "grow", ceiling[p] + 1)
        BY <4>2, SendEffect DEF TypeOK
      <4> QED
        BY <2>5, <4>1, <4>2, IncreaseEffect
    <3> QED
      BY <3>1, <3>2 DEF TypeOK
  <2>6. ASSUME NEW p \in Pod, ExecuteUpdate(p) PROVE TypeOK'
    <3>1. Head(sent[p]) \in Update /\ sent' \in [Pod -> Seq(Update)]
      BY <2>6, ExecuteEffect
    <3>2. Head(sent[p]).amount \in MinFloor..MaxCeiling
      BY <3>1 DEF Update
    <3>3. amount' \in MinFloor..MaxCeiling
      BY <2>6, <3>2 DEF ExecuteUpdate
    <3>4. reservoir' \in 0..MaxCeiling
      BY <2>6, <3>2 DEF TypeOK, ExecuteUpdate
    <3>5. writer' = p /\ UNCHANGED <<ceiling, since, timer, holder, restarts>>
      BY <2>6 DEF ExecuteUpdate
    <3> QED
      BY <3>1, <3>3, <3>4, <3>5 DEF TypeOK
  <2>7. CASE Tick
    BY <2>7 DEF TypeOK, Tick
  <2>8. ASSUME NEW p \in Pod, Restart(p) PROVE TypeOK'
    <3>1. <<>> \in Seq(Update)
      OBVIOUS
    <3> QED
      BY <2>8, <3>1 DEF TypeOK, Restart
  <2>9. CASE UNCHANGED vars
    BY <2>9 DEF TypeOK, vars
  <2> QED
    BY <2>1, <2>2, <2>3, <2>4, <2>5, <2>6, <2>7, <2>8, <2>9 DEF Next, Hit
<1> QED
  BY <1>1, <1>2, PTL DEF Spec

-----------------------------------------------------------------------------
Agreement == LastSentIsCeiling /\ LastWordIsCeiling

LEMMA AgreementInvariant == Spec => []Agreement
<1>1. Init => Agreement
  BY LimiterConstants
  DEF LimiterConstants, Init, Agreement, LastSentIsCeiling, LastWordIsCeiling
<1>2. TypeOK /\ Agreement /\ [Next]_vars => Agreement'
  <2> SUFFICES ASSUME TypeOK, Agreement, [Next]_vars PROVE Agreement'
    OBVIOUS
  <2> USE DEF Agreement, LastSentIsCeiling, LastWordIsCeiling, LastSent,
              podVars, redisVars
  <2>1. ASSUME NEW p \in Pod, Handle429(p) PROVE Agreement'
    <3>1. Halved(ceiling[p]) \in MinFloor..MaxCeiling
      BY HalvedRange DEF TypeOK
    <3>2. ceiling'[p] = Halved(ceiling[p])
          /\ \A q \in Pod \ {p} : ceiling'[q] = ceiling[q]
      BY <2>1 DEF Handle429, TypeOK
    <3>3. sent'[p] # <<>> /\ sent'[p][Len(sent'[p])].amount = ceiling'[p]
          /\ \A q \in Pod \ {p} : sent'[q] = sent[q]
      BY <2>1, <3>1, <3>2, SendEffect DEF Handle429
    <3>4. UNCHANGED <<amount, writer>>
      BY <2>1 DEF Handle429
    <3> QED
      BY <3>2, <3>3, <3>4
  <2>2. ASSUME NEW p \in Pod, AttemptLinearIncrease(p) PROVE Agreement'
    <3>1. CASE UNCHANGED <<ceiling, sent>>
      BY <2>2, <3>1, IncreaseEffect
    <3>2. CASE /\ ceiling[p] + 1 \in MinFloor..MaxCeiling
               /\ ceiling' = [ceiling EXCEPT ![p] = ceiling[p] + 1]
               /\ Send(p, "grow", ceiling[p] + 1)
      <4>1. ceiling'[p] = ceiling[p] + 1
            /\ \A q \in Pod \ {p} : ceiling'[q] = ceiling[q]
        BY <3>2 DEF TypeOK
      <4>2. sent'[p] # <<>> /\ sent'[p][Len(sent'[p])].amount = ceiling[p] + 1
            /\ \A q \in Pod \ {p} : sent'[q] = sent[q]
        BY <3>2, SendEffect
      <4>3. UNCHANGED <<amount, writer>>
        BY <2>2, IncreaseEffect
      <4>4. \A q \in Pod : q = p \/ q \in Pod \ {p}
        OBVIOUS
      <4> QED
        BY <4>1, <4>2, <4>3, <4>4
    <3> QED
      BY <2>2, <3>1, <3>2, IncreaseEffect
  <2>3. ASSUME NEW p \in Pod, ExecuteUpdate(p) PROVE Agreement'
    <3>1. amount' = sent[p][1].amount /\ writer' = p /\ ceiling' = ceiling
      BY <2>3, ExecuteEffect DEF ExecuteUpdate
    <3>2. /\ Len(sent[p]) \in Nat \ {0}
          /\ sent'[p] \in Seq(Update)
          /\ Len(sent'[p]) = Len(sent[p]) - 1
          /\ \A i \in 1..Len(sent'[p]) : sent'[p][i] = sent[p][i + 1]
          /\ \A q \in Pod \ {p} : sent'[q] = sent[q]
      BY <2>3, ExecuteEffect
    <3>3. sent[p][Len(sent[p])].amount = ceiling[p]
      BY <2>3 DEF ExecuteUpdate
    <3>4. ASSUME sent'[p] = <<>> PROVE amount' = ceiling'[p]
      <4>1. Len(sent[p]) = 1
        BY <3>2, <3>4
      <4> QED
        BY <3>1, <3>3, <4>1
    <3>5. ASSUME sent'[p] # <<>>
          PROVE  sent'[p][Len(sent'[p])].amount = ceiling'[p]
      <4>1. Len(sent'[p]) \in 1..Len(sent'[p])
        BY <3>2, <3>5
      <4>2. sent'[p][Len(sent'[p])] = sent[p][Len(sent'[p]) + 1]
        BY <3>2, <4>1
      <4>3. Len(sent'[p]) + 1 = Len(sent[p])
        BY <3>2
      <4> QED
        BY <3>1, <3>3, <4>2, <4>3
    <3> QED
      BY <3>1, <3>2, <3>4, <3>5
  <2>4. ASSUME NEW p \in Pod, Restart(p) PROVE Agreement'
    BY <2>4, LimiterConstants DEF Restart, TypeOK, LimiterConstants
  <2>5. CASE UNCHANGED <<ceiling, sent, amount, writer>>
    BY <2>5
  <2>6. ASSUME NEW p \in Pod, StartSearch(p) \/ EndSearch(p)
        PROVE  UNCHANGED <<ceiling, sent, amount, writer>>
    BY <2>6 DEF StartSearch, EndSearch
  <2>7. CASE RefreshReservoir \/ Tick \/ UNCHANGED vars
    BY <2>5, <2>7 DEF RefreshReservoir, Tick, vars
  <2> QED
    BY <2>1, <2>2, <2>3, <2>4, <2>5, <2>6, <2>7 DEF Next, Hit
<1> QED
  BY <1>1, <1>2, TypeCorrect, PTL DEF Spec

(* The last pod to speak agrees with Redis (limiter.ts:65-70, :99-103).    *)
THEOREM OfOneMind == Spec => []LastWordIsCeiling
<1>1. Agreement => LastWordIsCeiling
  BY DEF Agreement
<1> QED
  BY <1>1, AgreementInvariant, PTL

-----------------------------------------------------------------------------
(* The updates of a pod under way form a chain that ends at its ceiling,   *)
(* each one up by one or down by half from the one before. The chain of    *)
(* the pod with the last word begins at what Redis holds.                  *)
AimdStep(m, n) == n \in {m + 1, Halved(m)}

Before(p, i) == IF i = 1 THEN amount ELSE sent[p][i - 1].amount

Linked(p, i) == i # 1 \/ writer = p =>
                    AimdStep(Before(p, i), sent[p][i].amount)

Chained == \A p \in Pod : \A i \in 1..Len(sent[p]) : Linked(p, i)

(* A pod that neither sends nor speaks keeps its links.                    *)
LEMMA BystanderLinks ==
    ASSUME TypeOK, Chained, NEW q \in Pod, sent'[q] = sent[q],
           (writer = q /\ amount' = amount) \/ writer' # q
    PROVE  \A i \in 1..Len(sent'[q]) : Linked(q, i)'
<1> SUFFICES ASSUME NEW i \in 1..Len(sent[q]), i # 1 \/ writer' = q
             PROVE  AimdStep(Before(q, i)', sent[q][i].amount)
  BY DEF Linked, AimdStep, Halved, Larger
<1>1. Linked(q, i)
  BY DEF Chained
<1>2. Before(q, i)' = Before(q, i)
  BY DEF Before
<1> QED
  BY <1>1, <1>2 DEF Linked

(* Sending the ceiling's next value lengthens the chain.                   *)
LEMMA SendChains ==
    ASSUME TypeOK, Agreement, Chained, UNCHANGED <<amount, writer>>,
           NEW p \in Pod, NEW kind \in {"halve", "grow"},
           NEW n \in MinFloor..MaxCeiling,
           Send(p, kind, n), AimdStep(ceiling[p], n)
    PROVE  Chained'
<1>0. sent[p] \in Seq(Update) /\ Len(sent[p]) \in Nat
  BY DEF TypeOK
<1>1. /\ sent'[p] = Append(sent[p], [kind |-> kind, amount |-> n])
      /\ Len(sent'[p]) = Len(sent[p]) + 1
      /\ sent'[p][Len(sent'[p])].amount = n
      /\ \A q \in Pod \ {p} : sent'[q] = sent[q]
  BY SendEffect
<1>2. \A i \in 1..Len(sent[p]) : sent'[p][i] = sent[p][i]
  BY <1>0, <1>1
<1>3. ASSUME NEW i \in 1..Len(sent[p]) PROVE Linked(p, i)'
  <2>1. sent'[p][i] = sent[p][i] /\ Linked(p, i)
    BY <1>2 DEF Chained
  <2>2. CASE i = 1
    BY <2>1, <2>2 DEF Linked, Before, AimdStep, Halved, Larger
  <2>3. CASE i # 1
    <3>1. i - 1 \in 1..Len(sent[p])
      BY <1>0, <2>3
    <3>2. sent'[p][i - 1] = sent[p][i - 1]
      BY <1>2, <3>1
    <3> QED
      BY <2>1, <2>3, <3>2 DEF Linked, Before, AimdStep, Halved, Larger
  <2> QED
    BY <2>2, <2>3
<1> PICK last \in Nat : last = Len(sent[p])
  BY <1>0
<1>4. Linked(p, last + 1)'
  <2>1. Before(p, last + 1)' = ceiling[p] \/ ~(last + 1 # 1 \/ writer = p)
    <3>1. CASE last = 0
      <4>1. sent[p] = <<>>
        BY <1>0, <3>1, EmptySeq
      <4> QED
        BY <3>1, <4>1 DEF Agreement, LastWordIsCeiling, Before
    <3>2. CASE last # 0
      <4>1. sent[p] # <<>> /\ last \in 1..Len(sent[p])
            /\ last + 1 # 1 /\ (last + 1) - 1 = last
        BY <1>0, <3>2
      <4>2. sent'[p][last].amount = ceiling[p]
        BY <1>2, <4>1 DEF Agreement, LastSentIsCeiling, LastSent
      <4> QED
        BY <4>1, <4>2 DEF Before
    <3> QED
      BY <3>1, <3>2
  <2>2. sent'[p][last + 1].amount = n
    BY <1>1
  <2> QED
    BY <2>1, <2>2 DEF Linked, AimdStep, Halved, Larger
<1>5. ASSUME NEW q \in Pod \ {p}
      PROVE  \A i \in 1..Len(sent'[q]) : Linked(q, i)'
  BY <1>1, <1>5, BystanderLinks
<1>6. \A i \in 1..Len(sent'[p]) : i \in 1..Len(sent[p]) \/ i = last + 1
  BY <1>0, <1>1
<1>7. \A i \in 1..Len(sent'[p]) : Linked(p, i)'
  BY <1>3, <1>4, <1>6
<1>8. \A q \in Pod : q = p \/ q \in Pod \ {p}
  OBVIOUS
<1> QED
  BY <1>5, <1>7, <1>8 DEF Chained

(* Redis executing the first update takes the chain's first step.          *)
LEMMA ExecuteChains ==
    ASSUME TypeOK, Chained, NEW p \in Pod, ExecuteUpdate(p)
    PROVE  Chained' /\ (writer = p => AimdStep(amount, amount'))
<1>1. /\ Len(sent[p]) \in Nat \ {0}
      /\ Len(sent'[p]) = Len(sent[p]) - 1
      /\ \A i \in 1..Len(sent'[p]) : sent'[p][i] = sent[p][i + 1]
      /\ \A q \in Pod \ {p} : sent'[q] = sent[q]
      /\ amount' = sent[p][1].amount /\ writer' = p
  BY ExecuteEffect DEF ExecuteUpdate
<1>2. writer = p => AimdStep(amount, amount')
  <2>1. 1 \in 1..Len(sent[p]) /\ Before(p, 1) = amount
    BY <1>1 DEF Before
  <2> QED
    BY <1>1, <2>1 DEF Chained, Linked
<1>3. ASSUME NEW i \in 1..Len(sent'[p]) PROVE Linked(p, i)'
  <2>1. i + 1 \in 1..Len(sent[p]) /\ i + 1 # 1 /\ (i + 1) - 1 = i /\ i \in Nat
    BY <1>1
  <2>2. AimdStep(sent[p][i].amount, sent[p][i + 1].amount)
    BY <2>1 DEF Chained, Linked, Before
  <2>3. Before(p, i)' = sent[p][i].amount
    <3>1. CASE i = 1
      BY <1>1, <3>1 DEF Before
    <3>2. CASE i # 1
      <4>1. i - 1 \in 1..Len(sent'[p]) /\ (i - 1) + 1 = i
        BY <1>1, <3>2
      <4>2. sent'[p][i - 1] = sent[p][i]
        BY <1>1, <4>1
      <4> QED
        BY <3>2, <4>2 DEF Before
    <3> QED
      BY <3>1, <3>2
  <2> QED
    BY <1>1, <2>2, <2>3 DEF Linked, AimdStep, Halved, Larger
<1>4. ASSUME NEW q \in Pod \ {p}
      PROVE  \A i \in 1..Len(sent'[q]) : Linked(q, i)'
  BY <1>1, <1>4, BystanderLinks
<1> QED
  BY <1>2, <1>3, <1>4 DEF Chained

(* Every step keeps the chains, and changes what the pod with the last     *)
(* word put into Redis as AIMD does, if that pod changes it itself.        *)
LEMMA ChainStep ==
    ASSUME TypeOK, Agreement, Chained, [Next]_vars
    PROVE  /\ Chained'
           /\ \A p \in Pod : writer = p /\ writer' = p /\ amount' # amount =>
                 AimdStep(amount, amount')
<1> USE DEF podVars, redisVars
<1>1. CASE UNCHANGED <<sent, amount, writer>>
  BY <1>1 DEF Chained, Linked, Before, AimdStep, Halved, Larger
<1>2. ASSUME NEW p \in Pod, Handle429(p)
      PROVE  Chained' /\ amount' = amount
  <2>1. Halved(ceiling[p]) \in MinFloor..MaxCeiling
    BY HalvedRange DEF TypeOK
  <2>2. UNCHANGED <<amount, writer>> /\ Send(p, "halve", Halved(ceiling[p]))
    BY <1>2 DEF Handle429
  <2>3. AimdStep(ceiling[p], Halved(ceiling[p]))
    BY DEF AimdStep
  <2>4. Chained'
    BY <2>1, <2>2, <2>3, SendChains
  <2> QED
    BY <2>2, <2>4
<1>3. ASSUME NEW p \in Pod, AttemptLinearIncrease(p)
      PROVE  Chained' /\ amount' = amount
  <2>1. UNCHANGED <<amount, writer>>
    BY <1>3, IncreaseEffect
  <2>2. CASE UNCHANGED <<ceiling, sent>>
    BY <1>1, <2>1, <2>2
  <2>3. CASE /\ ceiling[p] + 1 \in MinFloor..MaxCeiling
             /\ Send(p, "grow", ceiling[p] + 1)
    <3>1. AimdStep(ceiling[p], ceiling[p] + 1)
      BY DEF AimdStep
    <3>2. Chained'
      BY <2>1, <2>3, <3>1, SendChains
    <3> QED
      BY <2>1, <3>2
  <2> QED
    BY <1>3, <2>2, <2>3, IncreaseEffect
<1>4. ASSUME NEW p \in Pod, ExecuteUpdate(p)
      PROVE  Chained' /\ writer' = p /\ (writer = p => AimdStep(amount, amount'))
  BY <1>4, ExecuteChains DEF ExecuteUpdate
<1>5. ASSUME NEW p \in Pod, Restart(p)
      PROVE  Chained' /\ amount' = amount
  <2>1. /\ sent'[p] = <<>> /\ \A q \in Pod \ {p} : sent'[q] = sent[q]
        /\ amount' = amount /\ writer' \in {writer, None}
    BY <1>5 DEF Restart, TypeOK
  <2>2. ASSUME NEW q \in Pod \ {p}
        PROVE  \A i \in 1..Len(sent'[q]) : Linked(q, i)'
    <3>1. (writer = q /\ amount' = amount) \/ writer' # q
      BY <2>1, <2>2, LimiterConstants DEF LimiterConstants
    <3> QED
      BY <2>1, <2>2, <3>1, BystanderLinks
  <2>3. \A i \in 1..Len(sent'[p]) : Linked(p, i)'
    BY <2>1
  <2> QED
    BY <2>1, <2>2, <2>3 DEF Chained
<1>6. ASSUME NEW p \in Pod, StartSearch(p) \/ EndSearch(p)
      PROVE  UNCHANGED <<sent, amount, writer>>
  BY <1>6 DEF StartSearch, EndSearch
<1>7. CASE Tick \/ RefreshReservoir \/ UNCHANGED vars
  BY <1>1, <1>7 DEF Tick, RefreshReservoir, vars
<1> QED
  BY <1>1, <1>2, <1>3, <1>4, <1>5, <1>6, <1>7 DEF Next, Hit

(* As long as no other pod speaks in between, the rate moves by AIMD steps *)
(* only, however the updates are delayed (limiter.ts:59-71, :95-103).      *)
THEOREM AimdSteps == Spec => AdditiveUpHalfDown
<1> DEFINE Step ==
      \A p \in Pod : writer = p /\ writer' = p /\ amount' # amount =>
          amount' \in {amount + 1, Halved(amount)}
<1>1. Init => Chained
  BY DEF Init, Chained
<1>2. TypeOK /\ Agreement /\ Chained /\ [Next]_vars => Chained' /\ [Step]_vars
  BY ChainStep DEF AimdStep
<1>3. Spec => [][Step]_vars
  BY <1>1, <1>2, TypeCorrect, AgreementInvariant, PTL DEF Spec
<1> QED
  BY <1>3 DEF AdditiveUpHalfDown
=============================================================================
