--------------------------- MODULE ShutdownProofs ---------------------------
(***************************************************************************)
(* What Shutdown promises for any requests: its types, with the one pass   *)
(* of handleShutdown through its guard, that only the two timeouts cut     *)
(* requests, and that only polls begun before it take a draining pod back. *)
(***************************************************************************)
EXTENDS Shutdown, TLAPS

(* A closed server has nothing left to work on; the flag falls with the    *)
(* first draining signal, and the guard counts it.                         *)
Inv ==
    /\ TypeOK
    /\ CutOnlyByTimeout
    /\ server = "closed" => Working = {}
    /\ drain = "idle" => drains = 0
    /\ drain # "idle" => ready = FALSE

LEMMA InitInv == Init => Inv
BY ShutdownConstants DEF ShutdownConstants, Init, Inv, TypeOK, CutOnlyByTimeout, Working

(* The process ends.                                                       *)
LEMMA EndsKeepsInv ==
    ASSUME Inv, NEW how \in Signals \cup {"0", "1", "SIGKILL"}, Ends(how), Alive,
           Working = {} \/ how \in {"1", "SIGKILL"}
    PROVE  Inv'
<1>1. TypeOK'
  BY DEF Inv, TypeOK, Ends
<1>2. Working' = {}
  BY DEF Inv, TypeOK, Ends, Working
<1>3. CutOnlyByTimeout'
  <2>1. ~\E r \in Request : req[r] = "cut"
    BY ShutdownConstants DEF ShutdownConstants, Inv, CutOnlyByTimeout, Alive
  <2> QED
    BY <2>1 DEF CutOnlyByTimeout, Ends
<1> QED
  BY <1>1, <1>2, <1>3 DEF Inv, Ends

LEMMA StepKeepsInv == Inv /\ [Next]_vars => Inv'
<1> SUFFICES ASSUME Inv, [Next]_vars PROVE Inv'
  OBVIOUS
<1>1. CASE UNCHANGED vars
  BY <1>1 DEF Inv, TypeOK, CutOnlyByTimeout, Working, vars
<1>2. CASE Poll \/ Ping \/ Redis
  <2>1. pings' \in 0..MaxPings /\ routes' \in BOOLEAN /\ redisUp' \in BOOLEAN
    <3>1. /\ MaxPings \in Nat /\ pings \in 0..MaxPings
          /\ routes \in BOOLEAN /\ redisUp \in BOOLEAN
      BY ShutdownConstants DEF ShutdownConstants, Inv, TypeOK
    <3>2. \/ pings < MaxPings /\ pings' = pings + 1
          \/ pings > 0 /\ pings' = pings - 1
          \/ pings' = pings
      BY <1>2 DEF Poll, Ping, Redis
    <3>3. pings' \in 0..MaxPings
      BY <3>1, <3>2
    <3>4. /\ UNCHANGED routes \/ routes' = FALSE \/ routes' = TRUE
          /\ UNCHANGED redisUp \/ redisUp' = ~redisUp
      BY <1>2, Zenon DEF Poll, Ping, Redis
    <3> QED
      BY <3>1, <3>3, <3>4, Zenon
  <2>2. UNCHANGED <<req, ready, clients, server, nest, drain, drains, exit>>
    BY <1>2 DEF Poll, Ping, Redis
  <2> QED
    BY <2>1, <2>2 DEF Inv, TypeOK, CutOnlyByTimeout, Working
<1>3. ASSUME NEW r \in Request, Arrive(r)
      PROVE  Inv'
  <2>1. PICK what \in {"working", "refused"} :
          /\ req' = [req EXCEPT ![r] = what]
          /\ what = "working" => Alive /\ server = "listening"
          /\ UNCHANGED <<routes, pings, ready, redisUp, clients, server, nest, drain, drains, exit>>
    BY <1>3 DEF Arrive
  <2>2. TypeOK' /\ CutOnlyByTimeout'
    BY <2>1 DEF Inv, TypeOK, CutOnlyByTimeout
  <2>3. server' = "closed" => Working' = {}
    BY <2>1 DEF Inv, TypeOK, Working
  <2> QED
    BY <2>1, <2>2, <2>3 DEF Inv
<1>4. ASSUME NEW r \in Request, Answer(r) \/ Fail(r)
      PROVE  Inv'
  BY <1>4 DEF Answer, Fail, Inv, TypeOK, CutOnlyByTimeout, Working
<1>5. ASSUME NEW sig \in Signals, Signal(sig)
      PROVE  Inv'
  <2>1. UNCHANGED <<req, routes, pings, redisUp, server, exit>>
    BY <1>5 DEF Signal
  <2>2. nest' \in Signals \cup {None} /\ clients' \in {"open", "closing", "closed"}
    BY <1>5 DEF Signal, NestHears, Inv, TypeOK
  <2>3. /\ drain' \in {"idle", "window", "closing"} /\ drains' \in 0..1 /\ ready' \in BOOLEAN
        /\ drain' = "idle" => drains' = 0
        /\ drain' # "idle" => ready' = FALSE
    <3>1. HandleShutdown(sig) /\ (drain = "idle" => drains = 0) /\ drains \in 0..1
      BY <1>5 DEF Signal, Inv, TypeOK
    <3>2. CASE sig \in Drains /\ drain = "idle"
      <4>1. drain' = "window" /\ drains' = drains + 1 /\ ready' = FALSE
        BY <3>1, <3>2, Zenon DEF HandleShutdown
      <4>2. drains' \in 0..1
        BY <3>1, <3>2, <4>1
      <4>3. ready' \in BOOLEAN
        BY <4>1
      <4> QED
        BY <4>1, <4>2, <4>3, Zenon
    <3>3. CASE ~(sig \in Drains /\ drain = "idle")
      BY <3>1, <3>3 DEF HandleShutdown, Inv, TypeOK
    <3> QED
      BY <3>2, <3>3
  <2> QED
    BY <2>1, <2>2, <2>3 DEF Inv, TypeOK, CutOnlyByTimeout, Working
<1>6. CASE ClientsClosed \/ CloseServer \/ ServerClosed \/ WindowOver
  BY <1>6 DEF ClientsClosed, CloseServer, ServerClosed, WindowOver, Inv, TypeOK,
              CutOnlyByTimeout, Working
<1>7. CASE KilledByNest
  BY <1>7, EndsKeepsInv DEF KilledByNest, Inv, TypeOK
<1>8. CASE ExitDrained
  BY <1>8, EndsKeepsInv DEF ExitDrained, Inv
<1>9. CASE DrainTimeout \/ Kill
  BY <1>9, EndsKeepsInv DEF DrainTimeout, Kill
<1> QED
  BY <1>1, <1>2, <1>3, <1>4, <1>5, <1>6, <1>7, <1>8, <1>9 DEF Next

THEOREM Invariance == Spec => []Inv
BY InitInv, StepKeepsInv, PTL DEF Spec

(* Every variable keeps its type, and one signal starts the drain.         *)
THEOREM TypeCorrect == Spec => []TypeOK
<1>1. Inv => TypeOK
  BY DEF Inv
<1> QED
  BY <1>1, Invariance, PTL

(* Requests are cut short by a timeout only.                               *)
THEOREM OnlyTimeoutsCut == Spec => []CutOnlyByTimeout
<1>1. Inv => CutOnlyByTimeout
  BY DEF Inv
<1> QED
  BY <1>1, Invariance, PTL

(* A draining pod is taken back by polls that are past the flag only.      *)
THEOREM DrainingStaysOut == Spec => StaysOut
<1>1. ASSUME Inv, [Next]_vars
      PROVE  [drain # "idle" =>
                pings' <= pings /\ (~routes /\ routes' => pings' < pings)]_vars
  <2>1. pings \in Nat
    BY <1>1 DEF Inv, TypeOK
  <2>2. CASE Poll
    BY <1>1, <2>1, <2>2 DEF Poll, CheckReadiness, Inv
  <2>3. CASE Ping
    BY <2>1, <2>3 DEF Ping
  <2>4. CASE UNCHANGED <<routes, pings>>
    BY <2>1, <2>4
  <2> QED
    BY <1>1, <2>2, <2>3, <2>4
    DEF Next, vars, Redis, Arrive, Answer, Fail, Signal, ClientsClosed, CloseServer,
        ServerClosed, KilledByNest, WindowOver, ExitDrained, DrainTimeout, Kill, Ends
<1> QED
  BY <1>1, Invariance, PTL DEF Spec, StaysOut
=============================================================================
