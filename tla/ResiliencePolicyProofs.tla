----------------------- MODULE ResiliencePolicyProofs -----------------------
(***************************************************************************)
(* What ResiliencePolicy promises for any slots, tries and threshold: its  *)
(* types, that a half-open circuit is being tested, how much leaks past an *)
(* open one, that retryable failures are reported only after all tries,    *)
(* and that it is a circuit breaker.                                       *)
(***************************************************************************)
EXTENDS ResiliencePolicy, TLAPS

(* The last call let in as a test runs, and a search that is elected waits *)
(* for the login.                                                          *)
Tested ==
    /\ HalfOpenIsTested
    /\ \A c \in Call : admitted[c] = "test" => Runs(c)
    /\ elector # None => pc[elector] = "elects"

(* The requests the tries of s have cost at most.                          *)
Spent(s) ==
    IF pc[s] = "backoff" THEN 2 * tries[s]
    ELSE 2 * (tries[s] - 1) + (IF again[s] THEN 1 ELSE 0)
           + (IF pc[s] = "request" THEN 1 ELSE 0)

(* What is followed to its end is a running search or its abandoned try,   *)
(* and has cost no more than its tries allow.                              *)
Leaks ==
    /\ \A s \in Slot : Runs(s) =>
         tries[s] >= 1 /\ (pc[s] = "backoff" => tries[s] < MaxTries)
    /\ followed # Orphan => stray = 0
    /\ followed = None => leak = 0
    /\ followed = Watched => Runs(Watched) /\ leak <= Spent(Watched)
    /\ followed = Orphan => leak + stray <= 2 * MaxTries

Inv == TypeOK /\ Tested /\ Leaks /\ ToldAfterRetries

(* Whatever upstream answers is one of the four errors of the domain.      *)
LEMMA ThrownAreDomainErrors ==
    \A retry \in BOOLEAN : Thrown[retry] \subseteq DomainError
BY DEF Thrown, MapDocketAlarmError, DomainError

-----------------------------------------------------------------------------
(* What the end of a call does to the breaker.                             *)
Move(c) == Success(c) \/ Failure(c) \/ Unhandled(c)

LEMMA MoveFacts ==
    ASSUME TypeOK, Tested, NEW c \in Call, Move(c)
    PROVE  /\ circuit' \in {"closed", "open", "half"}
           /\ test' \in Call \cup {None}
           /\ failures' \in 0..Threshold
           /\ cooled' \in BOOLEAN
           /\ circuit' = "half" =>
                circuit = "half" /\ test' = test /\ admitted[c] = "closed"
<1>1. Threshold \in Nat \ {0}
  BY PolicyConstants DEF PolicyConstants
<1>2. /\ circuit \in {"closed", "open", "half"} /\ test \in Call \cup {None}
      /\ cooled \in BOOLEAN /\ failures \in 0..Threshold
      /\ admitted[c] \in {"closed", "test"}
  BY DEF TypeOK
<1>3. failures' \in 0..Threshold
  BY <1>1, <1>2 DEF Move, Success, Failure, CountFailure, Unhandled, Close, Keep, breakerVars
<1>4. CASE Success(c)
  BY <1>2, <1>3, <1>4 DEF Success, Close
<1>5. CASE Failure(c)
  BY <1>2, <1>3, <1>5 DEF Failure, Open
<1>6. CASE Unhandled(c)
  BY <1>2, <1>3, <1>6 DEF Unhandled, Close, Keep, breakerVars
<1> QED
  BY <1>4, <1>5, <1>6 DEF Move

(* Where the calls are after the end of c.                                 *)
LEMMA LeaveFacts ==
    ASSUME TypeOK, Tested, NEW c \in Call, NEW status, NEW heir, Leave(c, status, heir)
    PROVE  /\ pc'[c] = "idle" /\ admitted'[c] = "closed" /\ ~Runs(c)'
           /\ \A d \in Call \ {c} :
                /\ UNCHANGED <<tries[d], again[d], admitted[d]>>
                /\ Runs(d) <=> Runs(d)'
                /\ pc[d] = "request" <=> pc'[d] = "request"
                /\ pc[d] = "backoff" <=> pc'[d] = "backoff"
                /\ pc'[d] = "halted" =>
                     pc[d] = "halted" /\ on[d] # c /\ on'[d] = on[d]
           /\ pc' \in [Call -> {"idle", "queued", "halted", "resumes", "token",
                        "elects", "denied", "ready", "request", "backoff"}]
           /\ elector' # None => elector' # c /\ pc'[elector'] = "elects"
<1>1. None \notin Call
  BY PolicyConstants DEF PolicyConstants
<1>2. elector # None => elector \in Call /\ pc[elector] = "elects"
  BY DEF TypeOK, Tested, Call
<1>3. pc'[c] = "idle" /\ admitted'[c] = "closed"
  BY DEF Leave, Released, TypeOK
<1>4. ASSUME NEW d \in Call \ {c}
      PROVE  /\ UNCHANGED <<tries[d], again[d], admitted[d]>>
             /\ on'[d] = IF on[d] = c THEN None ELSE on[d]
             /\ pc'[d] = IF pc[d] = "halted" /\ on[d] = c THEN "resumes"
                         ELSE IF c = Login /\ d = elector
                              THEN IF status = 200 THEN "ready" ELSE "denied"
                         ELSE pc[d]
  BY <1>4 DEF Leave, Released, TypeOK
<1>5. pc' \in [Call -> {"idle", "queued", "halted", "resumes", "token",
                        "elects", "denied", "ready", "request", "backoff"}]
  BY DEF Leave, Released, TypeOK
<1>6. elector' # None => elector' # c /\ pc'[elector'] = "elects"
  <2> SUFFICES ASSUME elector' # None PROVE elector' # c /\ pc'[elector'] = "elects"
    OBVIOUS
  <2>1. elector' = elector /\ elector # c /\ c # Login
    BY DEF Leave
  <2>2. elector \in Call \ {c} /\ pc[elector] = "elects"
    BY <1>2, <2>1
  <2> QED
    BY <1>4, <2>1, <2>2
<1>7. ~Runs(c)'
  BY <1>3 DEF Runs, InTry
<1>8. ASSUME NEW d \in Call \ {c}
      PROVE  /\ Runs(d) <=> Runs(d)'
             /\ pc[d] = "request" <=> pc'[d] = "request"
             /\ pc[d] = "backoff" <=> pc'[d] = "backoff"
             /\ pc'[d] = "halted" =>
                  pc[d] = "halted" /\ on[d] # c /\ on'[d] = on[d]
  BY <1>1, <1>2, <1>4, <1>8 DEF Runs, InTry
<1> QED
  BY <1>3, <1>4, <1>5, <1>6, <1>7, <1>8

(* Each request a try may yet send is one that Spent has room for.         *)
LEMMA MaySendFacts ==
    ASSUME Inv, NEW s \in Slot, InTry(s)
    PROVE  /\ MaySend(s) \in 0..2 /\ Spent(s) \in Nat
           /\ Spent(s) + MaySend(s) <= 2 * MaxTries
<1>1. MaxTries \in Nat /\ tries[s] \in 1..MaxTries /\ again[s] \in BOOLEAN
  BY PolicyConstants DEF PolicyConstants, Inv, TypeOK, Leaks, Runs, Call
<1>2. pc[s] # "backoff"
  BY DEF InTry
<1> QED
  BY <1>1, <1>2 DEF Spent, MaySend

(* A call ends, and the breaker hears of it. What is followed goes on as   *)
(* its abandoned try, or not at all.                                       *)
LEMMA LeaveKeepsInv ==
    ASSUME Inv, NEW c \in Call, NEW status, NEW heir \in {None, Orphan},
           Leave(c, status, heir), Move(c),
           heir = Orphan => InTry(c),
           stray' = IF heir = Orphan /\ c = followed THEN MaySend(c) ELSE stray,
           UNCHANGED up, status \in {429, 503} => tries[c] = MaxTries
    PROVE  Inv'
<1> USE DEF Inv
<1> USE MoveFacts, LeaveFacts
<1>0. /\ MaxTries \in Nat /\ Watched \in Slot /\ Watched \in Call
      /\ Watched # Orphan /\ Watched # None /\ None # Orphan
  BY PolicyConstants DEF PolicyConstants, Call
<1>a. c = followed => c = Watched
  BY PolicyConstants DEF PolicyConstants, TypeOK
<1>b. stray' \in 0..2 /\ leak' \in {0, leak} /\ leak \in Nat
  BY <1>0, <1>a, MaySendFacts DEF TypeOK, Leave
<1>1. TypeOK'
  <2>1. /\ tries' \in [Call -> 0..MaxTries] /\ again' \in [Call -> BOOLEAN]
        /\ admitted' \in [Call -> {"closed", "test"}]
        /\ on' \in [Call -> Call \cup {None}]
        /\ elector' \in Slot \cup {None}
        /\ gaveUp' \in 0..MaxTries
        /\ followed' \in {Watched, Orphan, None}
    BY <1>0 DEF Leave, TypeOK
  <2> QED
    BY <1>b, <2>1 DEF TypeOK
<1>2. Tested'
  <2>1. circuit' = "half" => /\ test' \in Call
                             /\ Runs(test)' /\ admitted'[test'] = "test"
    <3> SUFFICES ASSUME circuit' = "half"
                 PROVE  /\ test' \in Call
                        /\ Runs(test)' /\ admitted'[test'] = "test"
      OBVIOUS
    <3>1. test' = test /\ test \in Call \ {c} /\ admitted[test] = "test" /\ Runs(test)
      BY DEF Tested, HalfOpenIsTested
    <3>2. admitted'[test] = "test" /\ (Runs(test) <=> pc'[test] \in {"token", "elects", "denied", "ready", "request", "backoff"})
      BY <3>1 DEF Runs, InTry
    <3> QED
      BY <3>1, <3>2 DEF Runs, InTry
  <2>2. ASSUME NEW d \in Call, pc'[d] = "halted"
        PROVE  on'[d] \in Call /\ Runs(on[d])' /\ admitted'[on'[d]] = "test"
    <3>1. d # c /\ pc[d] = "halted" /\ on[d] # c /\ on'[d] = on[d]
      BY <2>2
    <3>2. on[d] \in Call \ {c} /\ Runs(on[d]) /\ admitted[on[d]] = "test"
      BY <3>1 DEF Tested, HalfOpenIsTested
    <3>3. admitted'[on[d]] = "test" /\ (Runs(on[d]) <=> pc'[on[d]] \in {"token", "elects", "denied", "ready", "request", "backoff"})
      BY <3>2 DEF Runs, InTry
    <3> QED
      BY <3>1, <3>2, <3>3 DEF Runs, InTry
  <2> QED
    BY <2>1, <2>2 DEF Tested, HalfOpenIsTested
<1>3. Leaks'
  <2>1. ASSUME NEW s \in Slot, Runs(s)'
        PROVE  /\ s \in Call \ {c} /\ Runs(s)
               /\ tries'[s] >= 1 /\ (pc'[s] = "backoff" => tries'[s] < MaxTries)
    <3>1. s \in Call \ {c} /\ Runs(s)
      BY <2>1 DEF Call
    <3> QED
      BY <3>1 DEF Leaks
  <2>2. CASE c = followed /\ heir = Orphan
    <3>1. /\ leak <= Spent(c) /\ Spent(c) \in Nat /\ MaySend(c) \in 0..2
          /\ Spent(c) + MaySend(c) <= 2 * MaxTries
      BY <1>0, <1>a, <2>2, MaySendFacts DEF Leaks
    <3>2. followed' = Orphan /\ stray' = MaySend(c)
      BY <2>2 DEF Leave
    <3> QED
      BY <1>0, <1>b, <2>1, <3>1, <3>2 DEF Leaks
  <2>3. CASE c = followed /\ heir = None
    <3>1. followed' = None /\ leak' = 0 /\ stray' = 0
      BY <1>0, <1>a, <2>3 DEF Leave, Leaks
    <3> QED
      BY <1>0, <2>1, <3>1 DEF Leaks
  <2>4. CASE c # followed
    <3>1. followed' = followed /\ stray' = stray
      BY <2>4 DEF Leave
    <3>2. followed = None => leak' = 0
      BY <3>1 DEF Leave
    <3>3. followed = Watched => Runs(Watched)' /\ leak' <= Spent(Watched)'
      <4> SUFFICES ASSUME followed = Watched
                   PROVE  Runs(Watched)' /\ leak' <= Spent(Watched)'
        OBVIOUS
      <4>1. Watched \in Call \ {c} /\ Runs(Watched) /\ leak <= Spent(Watched)
        BY <1>0, <2>4 DEF Leaks
      <4>2. Runs(Watched)' /\ pc[Watched] \notin {"halted", "idle"}
        BY <4>1 DEF Runs, InTry
      <4>3. Spent(Watched)' = Spent(Watched)
        BY <4>1 DEF Spent
      <4>4. Spent(Watched) \in Nat
        <5>1. tries[Watched] \in 1..MaxTries /\ again[Watched] \in BOOLEAN
          BY <1>0, <4>1 DEF Leaks, TypeOK
        <5> QED
          BY <1>0, <5>1 DEF Spent
      <4> QED
        BY <1>b, <4>1, <4>2, <4>3, <4>4
    <3>4. followed = Orphan => leak' + stray <= 2 * MaxTries
      <4>1. stray \in Nat /\ (followed = Orphan => leak + stray <= 2 * MaxTries)
        BY DEF Leaks, TypeOK
      <4>2. CASE leak' = leak
        BY <4>1, <4>2
      <4>3. CASE leak' = 0
        BY <1>b, <4>1, <4>3, <1>0
      <4> QED
        BY <1>b, <4>2, <4>3
    <3> QED
      BY <2>1, <3>1, <3>2, <3>3, <3>4 DEF Leaks
  <2> QED
    BY <2>2, <2>3, <2>4
<1>4. ToldAfterRetries'
  BY DEF ToldAfterRetries, Leave
<1> QED
  BY <1>1, <1>2, <1>3, <1>4

(* A call ends without leaving a try behind.                               *)
LEMMA EndKeepsInv ==
    ASSUME Inv, NEW c \in Call, NEW status, End(c, status), Move(c),
           UNCHANGED up, status \in {429, 503} => tries[c] = MaxTries
    PROVE  Inv'
BY LeaveKeepsInv, PolicyConstants DEF End, PolicyConstants

(* A call enters the policy.                                               *)
LEMMA EnterKeepsInv ==
    ASSUME Inv, NEW c \in Call, ~Runs(c), Enter(c), UNCHANGED up
    PROVE  Inv'
<1>1. /\ admitted[c] = "closed" /\ elector # c /\ MaxTries \in Nat \ {0}
      /\ FirstStep(c) \in {"token", "request"} /\ (c \in Slot => FirstStep(c) = "token")
  BY PolicyConstants
  DEF PolicyConstants, Inv, TypeOK, Tested, Runs, InTry, FirstStep
<1>0. /\ Watched \in Slot /\ Watched \in Call
      /\ Watched # Orphan /\ Watched # None /\ None # Orphan
  BY PolicyConstants DEF PolicyConstants, Call
<1>2. CASE circuit = "open" /\ ~cooled /\ Keep /\ End(c, StatusOf("BrokenCircuit"))
  <2>1. StatusOf("BrokenCircuit") = 500
    BY DEF StatusOf, PolicyError
  <2> QED
    BY <1>1, <1>2, <2>1, EndKeepsInv DEF Move, Unhandled
<1>3. CASE \/ circuit = "closed" /\ Admit(c, "closed") /\ Keep
           \/ circuit = "open" /\ cooled /\ Admit(c, "test") /\ HalfOpen(c)
  <2>1. TypeOK'
    <3>1. /\ pc' \in [Call -> {"idle", "queued", "halted", "resumes", "token",
                        "elects", "denied", "ready", "request", "backoff"}]
          /\ tries' \in [Call -> 0..MaxTries]
          /\ again' \in [Call -> BOOLEAN]
          /\ admitted' \in [Call -> {"closed", "test"}]
      <4>1. PICK how \in {"closed", "test"} : Admit(c, how)
        BY <1>3
      <4>2. 1 \in 0..MaxTries
        BY <1>1
      <4> QED
        BY <1>1, <4>1, <4>2 DEF Inv, TypeOK, Admit
    <3>2. /\ circuit' \in {"closed", "open", "half"}
          /\ test' \in Call \cup {None}
          /\ followed' \in {Watched, Orphan, None}
          /\ UNCHANGED <<on, elector, gaveUp, failures, cooled, leak, stray, up>>
      BY <1>3 DEF Inv, TypeOK, Admit, HalfOpen, Keep, breakerVars
    <3> QED
      BY <3>1, <3>2 DEF Inv, TypeOK
  <2>2. /\ pc' = [pc EXCEPT ![c] = FirstStep(c)] /\ Runs(c)'
        /\ \A d \in Call \ {c} : Runs(d) => Runs(d)'
    BY <1>1, <1>3 DEF Admit, Inv, TypeOK, Runs, InTry
  <2>3. Tested'
    BY <1>1, <1>3, <2>2
    DEF Inv, TypeOK, Tested, HalfOpenIsTested, Admit, HalfOpen, Keep, breakerVars
  <2>4. Leaks'
    <3>1. leak' = leak /\ stray' = stray
      BY <1>3 DEF Admit
    <3>2. tries'[c] = 1 /\ again'[c] \in BOOLEAN /\ pc'[c] = FirstStep(c)
      BY <1>1, <1>3 DEF Admit, Inv, TypeOK
    <3>3. \A s \in Call \ {c} : UNCHANGED <<tries[s], again[s], pc[s]>>
      BY <1>3 DEF Admit, Inv, TypeOK
    <3>4. \A s \in Slot : Runs(s)' =>
            tries'[s] >= 1 /\ (pc'[s] = "backoff" => tries'[s] < MaxTries)
      BY <1>1, <3>2, <3>3 DEF Inv, Leaks, Runs, InTry, Call
    <3>5. CASE followed' = followed
      <4>1. followed = Watched =>
              Watched # c /\ Runs(Watched)' /\ Spent(Watched)' = Spent(Watched)
        BY <1>0, <3>3 DEF Inv, Leaks, Runs, InTry, Spent
      <4> QED
        BY <3>1, <3>4, <3>5, <4>1 DEF Inv, Leaks
    <3>6. CASE followed' # followed
      <4>1. followed = None /\ c = Watched /\ followed' = Watched
        BY <1>3, <3>6 DEF Admit
      <4>2. Spent(c)' \in Nat
        BY <1>1, <3>2, <4>1, <1>0 DEF Spent
      <4> QED
        BY <1>0, <2>2, <3>1, <3>4, <4>1, <4>2 DEF Inv, Leaks
    <3> QED
      BY <3>5, <3>6
  <2>5. ToldAfterRetries'
    BY <1>3 DEF Inv, ToldAfterRetries, Admit
  <2> QED
    BY <2>1, <2>3, <2>4, <2>5 DEF Inv
<1>4. CASE /\ circuit = "half"
           /\ pc' = [pc EXCEPT ![c] = "halted"]
           /\ on' = [on EXCEPT ![c] = test]
           /\ Keep /\ UNCHANGED <<again, tries, admitted, elector, gaveUp, traceVars>>
  <2>1. TypeOK'
    BY <1>4 DEF Inv, TypeOK, Keep, breakerVars, traceVars
  <2>2. ~Runs(c)' /\ \A d \in Call \ {c} : UNCHANGED pc[d] /\ (Runs(d)' <=> Runs(d))
    BY <1>4 DEF Inv, TypeOK, Runs, InTry
  <2>3. Tested'
    <3>1. test \in Call \ {c} /\ Runs(test) /\ admitted[test] = "test"
      BY <1>4 DEF Inv, Tested, HalfOpenIsTested
    <3>2. ASSUME NEW d \in Call, pc'[d] = "halted"
          PROVE  on'[d] \in Call \ {c} /\ Runs(on'[d]) /\ admitted[on'[d]] = "test"
      BY <1>4, <2>2, <3>1, <3>2 DEF Inv, TypeOK, Tested, HalfOpenIsTested
    <3> QED
      BY <1>1, <1>4, <2>2, <3>1, <3>2
      DEF Inv, TypeOK, Tested, HalfOpenIsTested, Keep, breakerVars
  <2>4. Leaks'
    <3>1. \A s \in Slot : Runs(s)' => Runs(s) /\ UNCHANGED <<pc[s], tries[s]>>
      BY <1>4, <2>2 DEF Call
    <3>2. followed = Watched => Runs(Watched)' /\ Spent(Watched)' = Spent(Watched)
      BY <1>0, <1>4, <2>2 DEF Spent, Inv, Leaks
    <3> QED
      BY <1>4, <3>1, <3>2 DEF Inv, Leaks, traceVars
  <2>5. ToldAfterRetries'
    BY <1>4 DEF Inv, ToldAfterRetries
  <2> QED
    BY <2>1, <2>3, <2>4, <2>5 DEF Inv
<1> QED
  BY <1>2, <1>3, <1>4 DEF Enter

-----------------------------------------------------------------------------
(* A running call goes on running, and nobody enters or leaves the policy. *)
LEMMA InsideKeepsTested ==
    ASSUME TypeOK, Tested, NEW c \in Call, Runs(c), Runs(c)',
           \A d \in Call \ {c} :
             pc'[d] = pc[d] \/ (pc[d] = "idle" /\ pc'[d] = "queued"),
           elector' # None => pc'[elector'] = "elects",
           UNCHANGED <<admitted, on, circuit, test>>
    PROVE  Tested'
<1>1. \A d \in Call : Runs(d) => Runs(d)'
  BY DEF Runs, InTry
<1>2. \A d \in Call : pc'[d] = "halted" => pc[d] = "halted"
  BY DEF Runs, InTry
<1> QED
  BY <1>1, <1>2 DEF TypeOK, Tested, HalfOpenIsTested

(* What it costs goes up by what leaks.                                    *)
LEMMA InsideKeepsLeaks ==
    ASSUME TypeOK, Leaks, NEW c \in Call, Runs(c), Runs(c)',
           \A s \in Slot \ {c} : UNCHANGED <<pc[s], tries[s], again[s]>>,
           c \in Slot => /\ tries'[c] >= 1
                         /\ pc'[c] = "backoff" => tries'[c] < MaxTries
                         /\ Spent(c) \in Int /\ Spent(c)' \in Int
                         /\ \/ UNCHANGED leak /\ Spent(c) <= Spent(c)'
                            \/ /\ c = followed /\ leak' = leak + 1
                               /\ Spent(c) + 1 <= Spent(c)',
           c \notin Slot => UNCHANGED leak,
           UNCHANGED <<followed, stray>>
    PROVE  Leaks'
<1>1. /\ Watched \in Slot /\ Watched # Orphan /\ Watched # None /\ None # Orphan
      /\ Orphan \notin Slot /\ None \notin Slot
  BY PolicyConstants DEF PolicyConstants, Call
<1>2. leak \in Nat /\ (c # followed => UNCHANGED leak)
  BY DEF TypeOK
<1>3. \A s \in Slot : Runs(s)' =>
        tries'[s] >= 1 /\ (pc'[s] = "backoff" => tries'[s] < MaxTries)
  BY DEF Leaks, Runs, InTry
<1>4. ASSUME followed = Watched
      PROVE  Runs(Watched)' /\ leak' <= Spent(Watched)'
  <2>1. CASE c = Watched
    BY <1>1, <1>2, <1>4, <2>1 DEF Leaks
  <2>2. CASE c # Watched
    <3>1. Spent(Watched)' = Spent(Watched) /\ leak' = leak
      BY <1>1, <1>2, <1>4, <2>2 DEF Spent
    <3>2. Runs(Watched)'
      BY <1>1, <1>4, <2>2 DEF Leaks, Runs, InTry
    <3> QED
      BY <1>4, <3>1, <3>2 DEF Leaks
  <2> QED
    BY <2>1, <2>2
<1>5. followed \in {None, Orphan} => leak' = leak
  BY <1>1, <1>2
<1> QED
  BY <1>1, <1>3, <1>4, <1>5 DEF Leaks

(* A search sends its request.                                             *)
LEMMA SendKeepsInv ==
    ASSUME Inv, NEW s \in Slot, Send(s)
    PROVE  Inv'
<1>1. s \in Call /\ MaxTries \in Nat /\ pc[s] \in {"token", "ready"} /\ Runs(s)
  BY PolicyConstants DEF PolicyConstants, Send, Call, Runs, InTry
<1>2. /\ pc' = [pc EXCEPT ![s] = "request"] /\ Runs(s)'
      /\ UNCHANGED <<tries, again, admitted, on, gaveUp, up, elector, circuit,
                     test, failures, cooled>>
  BY <1>1 DEF Send, Goto, breakerVars, Inv, TypeOK, Runs, InTry
<1>3. TypeOK'
  <2>1. leak' \in Nat /\ UNCHANGED <<followed, stray>>
    BY DEF Send, Goto, Inv, TypeOK
  <2> QED
    BY <1>2, <2>1 DEF Inv, TypeOK
<1>4. Tested'
  <2>1. elector # None => elector \in Call \ {s} /\ pc[elector] = "elects"
    BY <1>1 DEF Inv, TypeOK, Tested, Call
  <2>2. \A d \in Call \ {s} : pc'[d] = pc[d]
    BY <1>2 DEF Inv, TypeOK
  <2>3. elector' # None => pc'[elector'] = "elects"
    BY <1>2, <2>1, <2>2
  <2> QED
    BY <1>1, <1>2, <2>2, <2>3, InsideKeepsTested DEF Inv
<1>5. Leaks'
  <2>1. /\ tries[s] \in 1..MaxTries /\ again[s] \in BOOLEAN
        /\ pc'[s] = "request" /\ tries'[s] = tries[s] /\ again'[s] = again[s]
    BY <1>1, <1>2 DEF Inv, TypeOK, Leaks
  <2>2. Spent(s) \in Int /\ Spent(s)' = Spent(s) + 1
    BY <1>1, <2>1 DEF Spent
  <2>3. /\ UNCHANGED leak \/ (s = followed /\ leak' = leak + 1)
        /\ UNCHANGED <<followed, stray>>
    BY DEF Send, Goto
  <2>4. \A d \in Slot \ {s} : UNCHANGED <<pc[d], tries[d], again[d]>>
    BY <1>2 DEF Inv, TypeOK, Call
  <2> QED
    BY <1>1, <1>2, <2>1, <2>2, <2>3, <2>4, InsideKeepsLeaks DEF Inv
<1> QED
  BY <1>2, <1>3, <1>4, <1>5 DEF Inv, ToldAfterRetries

(* Any other step of a running call that stays in the policy.              *)
LEMMA StayKeepsInv ==
    ASSUME Inv, NEW c \in Call, Runs(c), Runs(c)',
           pc' \in [Call -> {"idle", "queued", "halted", "resumes", "token",
                        "elects", "denied", "ready", "request", "backoff"}],
           tries' \in [Call -> 0..MaxTries], again' \in [Call -> BOOLEAN],
           elector' \in Slot \cup {None},
           \A d \in Call \ {c} :
             /\ pc'[d] = pc[d] \/ (pc[d] = "idle" /\ pc'[d] = "queued")
             /\ UNCHANGED <<tries[d], again[d]>>,
           elector' # None => pc'[elector'] = "elects",
           c \in Slot => /\ tries'[c] >= 1
                         /\ pc'[c] = "backoff" => tries'[c] < MaxTries
                         /\ Spent(c) <= Spent(c)'
                         /\ Spent(c) \in Int /\ Spent(c)' \in Int,
           \A s \in Slot \ {c} : pc'[s] = pc[s],
           UNCHANGED <<admitted, on, gaveUp, traceVars, breakerVars, up>>
    PROVE  Inv'
<1>1. TypeOK'
  BY DEF Inv, TypeOK, breakerVars, traceVars
<1>2. Tested'
  BY InsideKeepsTested DEF Inv, breakerVars
<1>3. Leaks'
  BY InsideKeepsLeaks DEF Inv, traceVars, Call
<1> QED
  BY <1>1, <1>2, <1>3 DEF Inv, ToldAfterRetries

LEMMA SearchStaysKeepsInv ==
    ASSUME Inv, NEW s \in Slot,
           \/ Elects(s)
           \/ TryAgain(s)
           \/ pc[s] = "request" /\ UNCHANGED up /\ Unauthorized(s)
           \/ /\ pc[s] = "request" /\ UNCHANGED up
              /\ \E e \in DomainError : RetryLater(s, e)
    PROVE  Inv'
<1>1. /\ s \in Call /\ s # Login /\ Login \in Call /\ None \notin Call
      /\ MaxTries \in Nat \ {0}
  BY PolicyConstants DEF PolicyConstants, Call
<1>2. elector # None => elector \in Call /\ pc[elector] = "elects"
  BY DEF Inv, TypeOK, Tested, Call
<1>3. tries[s] \in 0..MaxTries /\ again[s] \in BOOLEAN
  BY <1>1 DEF Inv, TypeOK
<1>4. Runs(s) => tries[s] >= 1 /\ (pc[s] = "backoff" => tries[s] < MaxTries)
  BY DEF Inv, Leaks
<1>5. CASE Elects(s)
  <2>1. /\ pc' = [pc EXCEPT ![s] = "elects", ![Login] = "queued"]
        /\ elector' = s /\ UNCHANGED <<tries, again>>
        /\ pc[s] = "token" /\ pc[Login] = "idle"
    BY <1>5 DEF Elects
  <2>2. pc'[s] = "elects" /\ Runs(s) /\ Runs(s)'
    BY <1>1, <2>1 DEF Inv, TypeOK, Runs, InTry
  <2>3. Spent(s)' = Spent(s) /\ Spent(s) \in Int
    BY <1>1, <1>3, <1>4, <2>1, <2>2 DEF Spent
  <2>4. pc' \in [Call -> {"idle", "queued", "halted", "resumes", "token",
                        "elects", "denied", "ready", "request", "backoff"}]
    BY <1>1, <2>1 DEF Inv, TypeOK
  <2>5. \A d \in Call \ {s} : pc'[d] = pc[d] \/ (pc[d] = "idle" /\ pc'[d] = "queued")
    BY <1>1, <2>1 DEF Inv, TypeOK
  <2>9. \A d \in Slot \ {s} : pc'[d] = pc[d]
    BY <1>1, <2>1, PolicyConstants DEF PolicyConstants, Inv, TypeOK, Call
  <2>6. /\ tries' \in [Call -> 0..MaxTries] /\ again' \in [Call -> BOOLEAN]
        /\ tries'[s] >= 1 /\ pc'[s] # "backoff"
    BY <1>4, <2>1, <2>2 DEF Inv, TypeOK
  <2>7. UNCHANGED <<admitted, on, gaveUp, traceVars, breakerVars, up>>
    BY <1>5 DEF Elects
  <2>8. /\ Spent(s) <= Spent(s)' /\ Spent(s) \in Int /\ Spent(s)' \in Int
        /\ elector' \in Slot \cup {None} /\ (elector' # None => pc'[elector'] = "elects")
        /\ \A d \in Call \ {s} : UNCHANGED <<tries[d], again[d]>>
    BY <2>1, <2>2, <2>3
  <2> QED
    BY <1>1, <2>1, <2>2, <2>3, <2>4, <2>5, <2>6, <2>7, <2>8, <2>9, StayKeepsInv
<1>6. CASE TryAgain(s)
  <2>1. /\ pc' = [pc EXCEPT ![s] = "token"]
        /\ tries' = [tries EXCEPT ![s] = @ + 1] /\ again' = [again EXCEPT ![s] = FALSE]
        /\ pc[s] = "backoff" /\ UNCHANGED <<admitted, on, elector, gaveUp, traceVars, breakerVars, up>>
    BY <1>1, <1>6 DEF TryAgain, FirstStep
  <2>2. pc'[s] = "token" /\ Runs(s) /\ Runs(s)'
    BY <1>1, <2>1 DEF Inv, TypeOK, Runs, InTry
  <2>3. tries'[s] \in 1..MaxTries /\ tries'[s] = tries[s] + 1 /\ again'[s] = FALSE
    BY <1>1, <1>3, <1>4, <2>1, <2>2 DEF Inv, TypeOK
  <2>4. Spent(s) <= Spent(s)' /\ Spent(s) \in Int /\ Spent(s)' \in Int
    BY <1>1, <1>3, <2>1, <2>2, <2>3 DEF Spent
  <2>5. /\ pc' \in [Call -> {"idle", "queued", "halted", "resumes", "token",
                        "elects", "denied", "ready", "request", "backoff"}]
        /\ tries' \in [Call -> 0..MaxTries] /\ again' \in [Call -> BOOLEAN]
    BY <1>1, <2>1, <2>3 DEF Inv, TypeOK
  <2>6. \A d \in Call \ {s} : UNCHANGED <<pc[d], tries[d], again[d]>>
    BY <1>1, <2>1 DEF Inv, TypeOK
  <2>7. elector' # None => pc'[elector'] = "elects"
    BY <1>2, <2>1, <2>6
  <2>8. elector' \in Slot \cup {None} /\ tries'[s] >= 1
    BY <1>1, <2>1, <2>3 DEF Inv, TypeOK
  <2>9. \A d \in Slot \ {s} : pc'[d] = pc[d]
    BY <1>1, <2>1 DEF Inv, TypeOK, Call
  <2> QED
    BY <1>1, <2>1, <2>2, <2>4, <2>5, <2>6, <2>7, <2>8, <2>9, StayKeepsInv
<1>7. ASSUME pc[s] = "request", UNCHANGED up,
             Unauthorized(s)
      PROVE  Inv'
  <2>1. /\ pc' = [pc EXCEPT ![s] = "token"] /\ again' = [again EXCEPT ![s] = TRUE]
        /\ again[s] = FALSE
        /\ UNCHANGED <<tries, admitted, on, elector, gaveUp, traceVars, breakerVars, up>>
    BY <1>3, <1>7 DEF Unauthorized, Keep
  <2>2. pc'[s] = "token" /\ Runs(s) /\ Runs(s)'
    BY <1>1, <1>7, <2>1 DEF Inv, TypeOK, Runs, InTry
  <2>3. again'[s] = TRUE /\ tries'[s] = tries[s]
    BY <1>1, <2>1 DEF Inv, TypeOK
  <2>4. Spent(s) <= Spent(s)' /\ Spent(s) \in Int /\ Spent(s)' \in Int
    BY <1>1, <1>3, <1>4, <1>7, <2>1, <2>2, <2>3 DEF Spent
  <2>5. /\ pc' \in [Call -> {"idle", "queued", "halted", "resumes", "token",
                        "elects", "denied", "ready", "request", "backoff"}]
        /\ again' \in [Call -> BOOLEAN]
    BY <1>1, <2>1 DEF Inv, TypeOK
  <2>6. \A d \in Call \ {s} : UNCHANGED <<pc[d], tries[d], again[d]>>
    BY <1>1, <2>1 DEF Inv, TypeOK
  <2>7. elector' # None => pc'[elector'] = "elects"
    BY <1>2, <1>7, <2>1, <2>6
  <2>9. \A d \in Slot \ {s} : pc'[d] = pc[d]
    BY <1>1, <2>1 DEF Inv, TypeOK, Call
  <2> QED
    BY <1>1, <1>4, <2>1, <2>2, <2>3, <2>4, <2>5, <2>6, <2>7, <2>9, StayKeepsInv
    DEF Inv, TypeOK
<1>8. ASSUME pc[s] = "request", UNCHANGED up,
             NEW e \in DomainError, RetryLater(s, e)
      PROVE  Inv'
  <2>1. /\ pc' = [pc EXCEPT ![s] = "backoff"] /\ tries[s] < MaxTries
        /\ UNCHANGED <<tries, again, admitted, on, elector, gaveUp, traceVars, breakerVars, up>>
    BY <1>8 DEF RetryLater, Keep
  <2>2. pc'[s] = "backoff" /\ Runs(s) /\ Runs(s)'
    BY <1>1, <1>8, <2>1 DEF Inv, TypeOK, Runs, InTry
  <2>3. Spent(s) <= Spent(s)' /\ Spent(s) \in Int /\ Spent(s)' \in Int
    BY <1>1, <1>3, <1>4, <1>8, <2>1, <2>2 DEF Spent
  <2>4. pc' \in [Call -> {"idle", "queued", "halted", "resumes", "token",
                        "elects", "denied", "ready", "request", "backoff"}]
    BY <1>1, <2>1 DEF Inv, TypeOK
  <2>5. \A d \in Call \ {s} : UNCHANGED <<pc[d], tries[d], again[d]>>
    BY <1>1, <2>1 DEF Inv, TypeOK
  <2>6. elector' # None => pc'[elector'] = "elects"
    BY <1>2, <1>8, <2>1, <2>5
  <2>9. \A d \in Slot \ {s} : pc'[d] = pc[d]
    BY <1>1, <2>1 DEF Inv, TypeOK, Call
  <2> QED
    BY <1>1, <1>4, <2>1, <2>2, <2>3, <2>4, <2>5, <2>6, <2>9, StayKeepsInv
    DEF Inv, TypeOK
<1> QED
  BY <1>5, <1>6, <1>7, <1>8

-----------------------------------------------------------------------------
LEMMA InitInv == Init => Inv
<1> MaxTries \in Nat \ {0} /\ Threshold \in Nat
  BY PolicyConstants DEF PolicyConstants
<1> SUFFICES ASSUME Init PROVE Inv
  OBVIOUS
<1>1. TypeOK
  <2>1. 0 \in 0..MaxTries /\ MaxTries \in 0..MaxTries /\ 0 \in 0..Threshold
    OBVIOUS
  <2>2. 0 \in 0..2 /\ 0 \in Nat
    OBVIOUS
  <2> QED
    BY <2>1, <2>2 DEF Init, TypeOK
<1>2. \A c \in Call : ~Runs(c)
  BY DEF Init, Runs, InTry
<1>3. Tested /\ Leaks /\ ToldAfterRetries
  BY <1>2, PolicyConstants
  DEF PolicyConstants, Init, Tested, HalfOpenIsTested, Leaks, ToldAfterRetries, Call
<1> QED
  BY <1>1, <1>3 DEF Inv

LEMMA StepKeepsInv == Inv /\ [Next]_vars => Inv'
<1> SUFFICES ASSUME Inv, [Next]_vars PROVE Inv'
  OBVIOUS
<1>0. StatusOf("UpstreamAuthFailed") = 502 /\ \A e \in PolicyError : StatusOf(e) = 500
  BY DEF StatusOf, PolicyError
<1>1. CASE UNCHANGED vars
  BY <1>1 DEF Inv, TypeOK, Tested, HalfOpenIsTested, Runs, InTry, Leaks,
              Spent, ToldAfterRetries, vars, callVars, traceVars, breakerVars
<1>2. ASSUME NEW c \in Call,
             (c \in Slot /\ Begin(c)) \/ (c = Login /\ BeginLogin) \/ Resume(c)
      PROVE  Inv'
  <2>1. pc[c] \in {"idle", "queued", "resumes"} /\ Enter(c) /\ UNCHANGED up
    BY <1>2 DEF Begin, BeginLogin, Resume
  <2>2. ~Runs(c)
    BY <2>1 DEF Runs, InTry
  <2> QED
    BY <2>1, <2>2, EnterKeepsInv
<1>3. ASSUME NEW c \in Call, Timeout(c)
      PROVE  Inv'
  <2>1. StatusOf("TaskCancelled") = 500
    BY <1>0 DEF PolicyError
  <2>2. /\ InTry(c) /\ Leave(c, StatusOf("TaskCancelled"), Orphan)
        /\ Move(c) /\ UNCHANGED up
        /\ stray' = IF c = followed THEN MaySend(c) ELSE stray
    BY <1>3 DEF Timeout, GivesUp, Move
  <2> QED
    BY <2>1, <2>2, LeaveKeepsInv
<1>4. ASSUME NEW s \in Slot, SearchStep(s)
      PROVE  Inv'
  <2>0. s \in Call
    BY DEF Call
  <2>1. CASE Elects(s) \/ TryAgain(s)
    BY <2>1, SearchStaysKeepsInv
  <2>2. CASE Send(s)
    BY <2>2, SendKeepsInv
  <2>3. CASE Denied(s)
    <3>1. PICK e \in {"UpstreamAuthFailed"} \cup PolicyError : End(s, StatusOf(e))
      BY <2>3 DEF Denied
    <3> QED
      BY <1>0, <2>0, <2>3, <3>1, EndKeepsInv DEF Denied, Move
  <2>4. CASE SearchAnswered(s)
    <3>1. pc[s] = "request" /\ UNCHANGED up
      BY <2>4 DEF SearchAnswered
    <3>2. Thrown[again[s]] \subseteq DomainError
      BY <2>0, ThrownAreDomainErrors DEF Inv, TypeOK
    <3>3. CASE Success(s) /\ End(s, 200)
      BY <2>0, <3>1, <3>3, EndKeepsInv DEF Move
    <3>4. CASE Unauthorized(s)
      BY <3>1, <3>4, SearchStaysKeepsInv
    <3>5. ASSUME NEW e \in DomainError, RetryLater(s, e)
          PROVE  Inv'
      BY <3>1, <3>5, SearchStaysKeepsInv
    <3>6. ASSUME NEW e \in DomainError, Rejects(s, e)
          PROVE  Inv'
      <4>1. ~IsRetryableError(e) => StatusOf(e) \notin {429, 503}
        BY DEF IsRetryableError, StatusOf, DomainError, PolicyError
      <4> QED
        BY <2>0, <3>1, <3>6, <4>1, EndKeepsInv DEF Move, Rejects
    <3> QED
      BY <2>4, <3>2, <3>3, <3>4, <3>5, <3>6 DEF SearchAnswered
  <2> QED
    BY <1>4, <2>1, <2>2, <2>3, <2>4 DEF SearchStep
<1>5. CASE LoginAnswered
  <2>1. Login \in Call
    BY DEF Call
  <2> QED
    BY <1>0, <1>5, <2>1, EndKeepsInv DEF LoginAnswered, Move
<1>6. CASE ElectsBehind
  <2>1. /\ pc[Login] = "idle" /\ pc' = [pc EXCEPT ![Login] = "queued"]
        /\ UNCHANGED <<tries, again, admitted, on, gaveUp, up, elector, traceVars, breakerVars>>
    BY <1>6 DEF ElectsBehind, Goto, traceVars, Keep
  <2>2. Login \in Call /\ Login \notin Slot /\ None \notin Call
    BY PolicyConstants DEF PolicyConstants, Call
  <2>3. /\ \A d \in Call \ {Login} : UNCHANGED pc[d]
        /\ \A d \in Call : Runs(d)' <=> Runs(d)
    BY <2>1, <2>2 DEF Inv, TypeOK, Runs, InTry
  <2>4. TypeOK'
    BY <2>1, <2>2 DEF Inv, TypeOK, breakerVars, traceVars
  <2>5. elector' # None => pc'[elector'] = "elects"
    BY <2>1, <2>2, <2>3 DEF Inv, TypeOK, Tested, Call
  <2>6. \A d \in Call : pc'[d] = "halted" => pc[d] = "halted"
    BY <2>1, <2>2, <2>3 DEF Inv, TypeOK
  <2>7. Tested'
    BY <2>1, <2>3, <2>5, <2>6 DEF Inv, TypeOK, Tested, HalfOpenIsTested, breakerVars
  <2>8. Leaks'
    <3>1. \A s \in Slot : UNCHANGED pc[s] /\ Spent(s)' = Spent(s)
      BY <2>1, <2>2, <2>3 DEF Spent, Call
    <3> QED
      BY <2>1, <2>3, <3>1, PolicyConstants
      DEF PolicyConstants, Inv, Leaks, traceVars, breakerVars, Call
  <2> QED
    BY <2>1, <2>4, <2>7, <2>8 DEF Inv, ToldAfterRetries
<1>7. CASE Cool \/ Upstream
  <2>1. cooled' \in BOOLEAN /\ up' \in BOOLEAN /\ UNCHANGED <<callVars, circuit, test, failures>>
    BY <1>7 DEF Cool, Upstream, breakerVars, Inv, TypeOK
  <2>2. TypeOK'
    BY <2>1 DEF Inv, TypeOK, callVars, traceVars
  <2>3. Tested' /\ Leaks' /\ ToldAfterRetries'
    BY <2>1 DEF Inv, Tested, HalfOpenIsTested, Runs, InTry, Leaks, Spent,
                ToldAfterRetries, callVars, traceVars
  <2> QED
    BY <2>2, <2>3 DEF Inv
<1>8. CASE StraySends \/ StrayEnds
  <2>1. /\ UNCHANGED <<pc, again, tries, admitted, on, elector, gaveUp, breakerVars, up>>
        /\ \A s \in Slot : Spent(s)' = Spent(s)
    BY <1>8 DEF StraySends, StrayEnds, Spent
  <2>2. MaxTries \in Nat /\ Watched \notin {Orphan, None} /\ Orphan # None
    BY PolicyConstants DEF PolicyConstants, Call
  <2>3. /\ followed' \in {Watched, Orphan, None} /\ stray' \in 0..2 /\ leak' \in Nat
        /\ followed' # Orphan => stray' = 0
        /\ followed' = None => leak' = 0
        /\ followed' # Watched
        /\ followed' = Orphan => leak' + stray' <= 2 * MaxTries
    BY <1>8, <2>2 DEF StraySends, StrayEnds, Inv, TypeOK, Leaks
  <2>4. TypeOK' /\ Tested' /\ ToldAfterRetries'
    BY <2>1, <2>3 DEF Inv, TypeOK, Tested, HalfOpenIsTested, Runs, InTry,
                      ToldAfterRetries, breakerVars
  <2>5. Leaks'
    BY <2>1, <2>3 DEF Inv, Leaks, Runs, InTry
  <2> QED
    BY <2>4, <2>5 DEF Inv
<1> QED
  BY <1>1, <1>2, <1>3, <1>4, <1>5, <1>6, <1>7, <1>8 DEF Next, CallStep, Call

THEOREM Invariance == Spec => []Inv
BY InitInv, StepKeepsInv, PTL DEF Spec

(* Every variable keeps its type.                                          *)
THEOREM TypeCorrect == Spec => []TypeOK
<1>1. Inv => TypeOK
  BY DEF Inv
<1> QED
  BY <1>1, Invariance, PTL

(* A half-open circuit is being tested, and what is halted waits for a     *)
(* test under way.                                                         *)
THEOREM CircuitTested == Spec => []HalfOpenIsTested
<1>1. Inv => HalfOpenIsTested
  BY DEF Inv, Tested
<1> QED
  BY <1>1, Invariance, PTL

(* No search sends more than two requests for each of its tries past a     *)
(* circuit that is not closed, what its timeout abandons included.         *)
THEOREM LeakBounded == Spec => []LeakBound
<1>1. ASSUME Inv PROVE LeakBound
  <2>1. /\ MaxTries \in Nat /\ Watched \in Call /\ Watched \in Slot
        /\ leak \in Nat /\ stray \in Nat /\ followed \in {Watched, Orphan, None}
    BY <1>1, PolicyConstants DEF PolicyConstants, Inv, TypeOK, Call
  <2>2. CASE followed = Watched
    <3>1. tries[Watched] \in 1..MaxTries /\ again[Watched] \in BOOLEAN
          /\ (pc[Watched] = "backoff" => tries[Watched] < MaxTries)
      BY <1>1, <2>1, <2>2 DEF Inv, TypeOK, Leaks
    <3>2. Spent(Watched) <= 2 * MaxTries /\ Spent(Watched) \in Int
      BY <2>1, <3>1 DEF Spent
    <3> QED
      BY <1>1, <2>1, <2>2, <3>2 DEF Inv, Leaks, LeakBound
  <2>3. CASE followed # Watched
    BY <1>1, <2>1, <2>3 DEF Inv, Leaks, LeakBound
  <2> QED
    BY <2>2, <2>3
<1> QED
  BY <1>1, Invariance, PTL

(* A client is told 429 or 503 only after all tries.                       *)
THEOREM AfterAllTries == Spec => []ToldAfterRetries
<1>1. Inv => ToldAfterRetries
  BY DEF Inv
<1> QED
  BY <1>1, Invariance, PTL

(* The circuit is one that opens, is tested and closes in that order.      *)
THEOREM RefinesCircuit == Spec => IsCircuit
<1>1. Init => C!Init
  BY DEF Init, C!Init
<1>2. ASSUME TypeOK, [Next]_vars
      PROVE  [C!Break \/ C!HalfOpen \/ C!Reset]_circuit
  <2> USE DEF C!Break, C!HalfOpen, C!Reset
  <2>1. ASSUME NEW c \in Call, Move(c)
        PROVE  C!Break \/ C!Reset \/ UNCHANGED circuit
    BY <1>2, <2>1 DEF TypeOK, Move, Success, Failure, Unhandled, Open, Close,
                      Keep, breakerVars
  <2>2. ASSUME NEW c \in Call, Enter(c)
        PROVE  C!HalfOpen \/ UNCHANGED circuit
    BY <2>2 DEF Enter, HalfOpen, Keep, breakerVars
  <2>3. ASSUME NEW s \in Slot, SearchStep(s)
        PROVE  C!Break \/ C!Reset \/ UNCHANGED circuit
    <3>1. CASE Move(s)
      BY <2>1, <3>1 DEF Call
    <3>2. CASE UNCHANGED circuit
      BY <3>2
    <3> QED
      BY <2>3, <3>1, <3>2
      DEF SearchStep, Elects, Denied, Send, Goto, SearchAnswered, TryAgain, Unauthorized,
          RetryLater, Rejects, Move, Keep, breakerVars
  <2>4. ASSUME NEW c \in Call, Timeout(c) \/ (c = Login /\ LoginAnswered)
        PROVE  C!Break \/ C!Reset \/ UNCHANGED circuit
    BY <2>1, <2>4 DEF Timeout, GivesUp, LoginAnswered, Move
  <2>5. CASE ElectsBehind \/ Cool \/ Upstream \/ StraySends \/ StrayEnds \/ UNCHANGED vars
    BY <2>5 DEF ElectsBehind, Goto, Cool, Upstream, StraySends, StrayEnds, Keep, vars,
                breakerVars
  <2> QED
    BY <1>2, <2>2, <2>3, <2>4, <2>5
    DEF Next, CallStep, Begin, BeginLogin, Resume, Call
<1> QED
  BY <1>1, <1>2, TypeCorrect, PTL DEF Spec, IsCircuit, C!Spec
=============================================================================
