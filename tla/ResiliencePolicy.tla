-------------------------- MODULE ResiliencePolicy --------------------------
(***************************************************************************)
(* The policy of one pod around every call of DocketAlarm: a circuit       *)
(* breaker around a retry around a timeout. Searches and the login run     *)
(* through the same breaker, and a search that needs a token awaits a      *)
(* login inside its own try.                                               *)
(*                                                                         *)
(* Source: src/src/docket-alarm/docket-alarm.policy.ts, with executeSearch *)
(* of docket-alarm.client.ts and refreshToken of                           *)
(* docket-alarm.token.service.ts as the calls it runs. cockatiel, which    *)
(* implements the policies, is modelled from the options and the nesting   *)
(* there. The timeout only rejects its caller: the try it gives up on goes *)
(* on, unheard by the policy, and may yet send and go on after a 401 while *)
(* its slot serves another call.                                           *)
(***************************************************************************)
EXTENDS ErrorMapping

CONSTANTS
    Slot,       \* searches the limiter runs at once, 8
    Watched,    \* the slot whose calls are followed, one at a time
    Orphan,     \* the try of the followed call, once its timeout has given up
    Login,      \* the one call the login limiter runs at once
    None,
    Bulkhead,   \* calls the bulkhead lets through, 20
    SlotCount,  \* maxConcurrent of the search limiter
    MaxTries,   \* a first try and maxAttempts retries, 4
    Threshold   \* consecutive failures that open the circuit, 5

Call == Slot \cup {Login}

(* The slots and the login fit into the bulkhead, which therefore never    *)
(* queues a call, and above all no login behind the searches that await it.*)
ASSUME PolicyConstants ==
    /\ Login \notin Slot /\ Watched \in Slot
    /\ Orphan \notin Call /\ None \notin Call \cup {Orphan}
    /\ SlotCount \in Nat /\ Bulkhead \in Nat /\ SlotCount + 1 <= Bulkhead
    /\ MaxTries \in Nat \ {0} /\ Threshold \in Nat \ {0}

VARIABLES
    pc,        \* where each call is
    again,     \* is its try past its one 401 (isRetryAfter401)?
    tries,     \* the tries a call has begun
    admitted,  \* how the breaker let it in: "closed" or "test"
    on,        \* the call a halted call waits for
    elector,   \* the search that awaits the login
    gaveUp,    \* history: tries before a client was last told 429 or 503
    followed,  \* history: the one call that is followed to its very end
    stray,     \* requests its try may yet send, abandoned by the timeout
    leak,      \* history: what it has sent since the circuit was closed
    circuit,   \* state of the breaker: "closed", "open" or "half"
    test,      \* the call that tests a half-open circuit
    failures,  \* consecutive failures, up to Threshold
    cooled,    \* have 10 s passed since the circuit opened?
    up         \* does upstream answer without retryable failures?

traceVars   == <<followed, stray, leak>>
callVars    == <<pc, again, tries, admitted, on, elector, gaveUp, traceVars>>
breakerVars == <<circuit, test, failures, cooled>>
vars == <<callVars, breakerVars, up>>

(* Inside a try of the retry policy, and so under its 20 s timeout.        *)
InTry(c) == pc[c] \in {"token", "elects", "denied", "ready", "request"}
Runs(c)  == InTry(c) \/ pc[c] = "backoff"

Init ==
    /\ pc = [c \in Call |-> "idle"]
    /\ again = [c \in Call |-> FALSE]
    /\ tries = [c \in Call |-> 0]
    /\ admitted = [c \in Call |-> "closed"]
    /\ on = [c \in Call |-> None]
    /\ elector = None
    /\ gaveUp = MaxTries
    /\ followed = None /\ stray = 0 /\ leak = 0
    /\ circuit = "closed"
    /\ test = None
    /\ failures = 0
    /\ cooled = FALSE
    /\ up = TRUE

-----------------------------------------------------------------------------
(* The breaker                                                             *)

Keep == UNCHANGED breakerVars

Open  == circuit' = "open" /\ test' = None /\ cooled' = FALSE

Close == circuit' = "closed" /\ test' = None /\ cooled' = FALSE

(* Mutant: a half-open circuit is reported as closed. *)
HalfOpenAsClosed(c) ==
    /\ circuit' = "closed" /\ test' = c
    /\ UNCHANGED <<failures, cooled>>

HalfOpen(c) ==
    /\ circuit' = "half" /\ test' = c
    /\ UNCHANGED <<failures, cooled>>

CountFailure == failures' = IF failures < Threshold THEN failures + 1 ELSE failures

(* A success resets the count, also when it comes late; only the success   *)
(* of a test closes the circuit.                                           *)
Success(c) ==
    /\ failures' = 0
    /\ IF admitted[c] = "test" /\ circuit = "half"
       THEN Close
       ELSE UNCHANGED <<circuit, test, cooled>>

(* A failure the breaker handles. A call let in earlier counts as well and *)
(* may open a half-open circuit beside its test.                           *)
Failure(c) ==
    /\ CountFailure
    /\ IF circuit # "open" /\ (admitted[c] = "test" \/ failures' = Threshold)
       THEN Open
       ELSE UNCHANGED <<circuit, test, cooled>>

(* Any other error passes the breaker by, but counts as a passed test.     *)
Unhandled(c) ==
    IF admitted[c] = "test" /\ circuit = "half"
    THEN Close /\ UNCHANGED failures
    ELSE Keep

-----------------------------------------------------------------------------
(* A call enters the policy, and leaves it                                 *)

FirstStep(c) == IF c = Login THEN "request" ELSE "token"

(* Where all are once c has ended: those that waited for its test go on,   *)
(* and so does the search that awaited the login.                          *)
Released(c, ok) ==
    [d \in Call |->
       IF d = c THEN "idle"
       ELSE IF pc[d] = "halted" /\ on[d] = c THEN "resumes"
       ELSE IF c = Login /\ d = elector THEN IF ok THEN "ready" ELSE "denied"
       ELSE pc[d]]

(* The call is over, and so is what it has sent past the circuit when its  *)
(* end closes it. The heir is what is left of a followed call: its try.    *)
Leave(c, status, heir) ==
    /\ pc' = Released(c, status = 200)
    /\ elector' = IF c \in {elector, Login} THEN None ELSE elector
    /\ followed' = IF c = followed THEN heir ELSE followed
    /\ leak' = IF followed' = None \/ circuit' = "closed" THEN 0 ELSE leak
    /\ gaveUp' = IF status \in {429, 503} THEN tries[c] ELSE gaveUp
    /\ tries' = [tries EXCEPT ![c] = 0]
    /\ again' = [again EXCEPT ![c] = FALSE]
    /\ admitted' = [admitted EXCEPT ![c] = "closed"]
    /\ on' = [d \in Call |-> IF d = c \/ on[d] = c THEN None ELSE on[d]]

End(c, status) == Leave(c, status, None) /\ UNCHANGED stray

Admit(c, how) ==
    /\ pc' = [pc EXCEPT ![c] = FirstStep(c)]
    /\ tries' = [tries EXCEPT ![c] = 1]
    /\ admitted' = [admitted EXCEPT ![c] = how]
    /\ followed' = IF followed = None /\ c = Watched THEN c ELSE followed
    /\ UNCHANGED <<again, on, elector, gaveUp, stray, leak>>

(* CircuitBreakerPolicy.execute                                            *)
Enter(c) ==
    \/ circuit = "closed" /\ Admit(c, "closed") /\ Keep
    \/ circuit = "open" /\ cooled /\ Admit(c, "test") /\ HalfOpen(c)
    \/ circuit = "open" /\ ~cooled /\ Keep /\ End(c, StatusOf("BrokenCircuit"))
    \/ /\ circuit = "half"
       /\ pc' = [pc EXCEPT ![c] = "halted"]
       /\ on' = [on EXCEPT ![c] = test]
       /\ Keep /\ UNCHANGED <<again, tries, admitted, elector, gaveUp, traceVars>>

(* The continuations of an ended test are microtasks: no search begins and *)
(* no time passes before them.                                             *)
Settled == \A c \in Call : pc[c] # "resumes"

Begin(s) ==
    /\ Settled /\ pc[s] = "idle"
    /\ Enter(s)
    /\ UNCHANGED up

(* The login limiter starts a login that was scheduled.                    *)
BeginLogin ==
    /\ pc[Login] = "queued"
    /\ Enter(Login)
    /\ UNCHANGED up

Resume(c) ==
    /\ pc[c] = "resumes"
    /\ Enter(c)
    /\ UNCHANGED up

-----------------------------------------------------------------------------
(* getToken inside a try of a search                                       *)

Goto(c, where) ==
    /\ pc' = [pc EXCEPT ![c] = where]
    /\ UNCHANGED <<again, tries, admitted, on, gaveUp, followed, stray, breakerVars, up>>

(* The search wins the election and schedules the login it then awaits.    *)
Elects(s) ==
    /\ pc[s] = "token" /\ pc[Login] = "idle"
    /\ pc' = [pc EXCEPT ![s] = "elects", ![Login] = "queued"]
    /\ elector' = s
    /\ UNCHANGED <<again, tries, admitted, on, gaveUp, traceVars, breakerVars, up>>

(* The refresh getToken leaves running behind a search wins the election.  *)
ElectsBehind ==
    /\ pc[Login] = "idle" /\ Goto(Login, "queued") /\ UNCHANGED <<leak, elector>>

(* getToken throws: a nested login did, or nobody delivered a token within *)
(* 5 s. It is called outside executeSearch's try: whatever it throws is    *)
(* neither tried again nor counted.                                        *)
Denied(s) ==
    /\ pc[s] \in {"token", "denied"}
    /\ Unhandled(s)
    /\ \E e \in {"UpstreamAuthFailed"} \cup PolicyError : End(s, StatusOf(e))
    /\ UNCHANGED up

-----------------------------------------------------------------------------
(* Requests                                                                *)

(* The search has a token: cached, delivered by another pod or its own.    *)
(* Nobody asks the circuit again.                                          *)
Send(s) ==
    /\ pc[s] \in {"token", "ready"}
    /\ Goto(s, "request")
    /\ leak' = IF s = followed /\ circuit # "closed" /\ s # test THEN leak + 1 ELSE leak
    /\ UNCHANGED elector

(* A 401 runs executeSearch once more, from getToken.                      *)
Unauthorized(s) ==
    /\ ~again[s]
    /\ pc' = [pc EXCEPT ![s] = "token"]
    /\ again' = [again EXCEPT ![s] = TRUE]
    /\ Keep /\ UNCHANGED <<tries, admitted, on, elector, gaveUp, traceVars>>

(* Mutant: maxAttempts counts one try too many. *)
RetryOnceMore(s, e) ==
    /\ IsRetryableError(e) /\ tries[s] <= MaxTries
    /\ pc' = [pc EXCEPT ![s] = "backoff"]
    /\ Keep /\ UNCHANGED <<again, tries, admitted, on, elector, gaveUp, traceVars>>

(* Mutant: the retries are around the breaker, and a failed try leaves it. *)
RetryOutside(s, e) ==
    /\ IsRetryableError(e) /\ tries[s] < MaxTries
    /\ pc' = [pc EXCEPT ![s] = "backoff"]
    /\ admitted' = [admitted EXCEPT ![s] = "closed"]
    /\ Keep /\ UNCHANGED <<again, tries, on, elector, gaveUp, traceVars>>

RetryLater(s, e) ==
    /\ IsRetryableError(e) /\ tries[s] < MaxTries
    /\ pc' = [pc EXCEPT ![s] = "backoff"]
    /\ Keep /\ UNCHANGED <<again, tries, admitted, on, elector, gaveUp, traceVars>>

Rejects(s, e) ==
    \/ IsRetryableError(e) /\ tries[s] = MaxTries /\ Failure(s) /\ End(s, StatusOf(e))
    \/ ~IsRetryableError(e) /\ Unhandled(s) /\ End(s, StatusOf(e))

SearchAnswered(s) ==
    /\ pc[s] = "request"
    /\ \/ Success(s) /\ End(s, 200)
       \/ Unauthorized(s)
       \/ \E e \in Thrown[again[s]] :
            /\ up => ~IsRetryableError(e)
            /\ RetryLater(s, e) \/ Rejects(s, e)
    /\ UNCHANGED up

(* executeLogin throws UpstreamAuthFailed for everything that goes wrong,  *)
(* which the policy neither retries nor counts.                            *)
LoginAnswered ==
    /\ pc[Login] = "request"
    /\ \/ Success(Login) /\ End(Login, 200)
       \/ Unhandled(Login) /\ End(Login, StatusOf("UpstreamAuthFailed"))
    /\ UNCHANGED up

TryAgain(c) ==
    /\ pc[c] = "backoff"
    /\ pc' = [pc EXCEPT ![c] = FirstStep(c)]
    /\ tries' = [tries EXCEPT ![c] = @ + 1]
    /\ again' = [again EXCEPT ![c] = FALSE]
    /\ UNCHANGED <<admitted, on, elector, gaveUp, traceVars, breakerVars, up>>

(* What a try of s may yet send: its request, unless that is under way,    *)
(* and another one after its one 401.                                      *)
MaySend(s) ==
    (IF pc[s] = "request" THEN 0 ELSE 1) + (IF again[s] THEN 0 ELSE 1)

GivesUp(c) ==
    /\ Unhandled(c)
    /\ Leave(c, StatusOf("TaskCancelled"), Orphan)
    /\ stray' = IF c = followed THEN MaySend(c) ELSE stray
    /\ UNCHANGED up

(* Mutant: only the request is under the timeout. *)
TimeoutOfRequest(c) == pc[c] = "request" /\ GivesUp(c)

(* 20 s are over: the call ends, a TaskCancelledError is not retryable. Its*)
(* try does not.                                                           *)
Timeout(c) == InTry(c) /\ GivesUp(c)

(* An abandoned try gets its token and sends, whatever has become of the   *)
(* circuit.                                                                *)
StraySends ==
    /\ stray > 0
    /\ stray' = stray - 1
    /\ leak' = IF circuit # "closed" THEN leak + 1 ELSE leak
    /\ UNCHANGED <<pc, again, tries, admitted, on, elector, gaveUp, followed,
                   breakerVars, up>>

(* It gets no token, or an answer. Nobody hears of it.                     *)
StrayEnds ==
    /\ followed = Orphan
    /\ followed' = None /\ stray' = 0 /\ leak' = 0
    /\ UNCHANGED <<pc, again, tries, admitted, on, elector, gaveUp, breakerVars, up>>

Cool ==
    /\ Settled /\ circuit = "open" /\ ~cooled
    /\ cooled' = TRUE
    /\ UNCHANGED <<callVars, circuit, test, failures, up>>

Upstream ==
    /\ up' = ~up
    /\ UNCHANGED <<callVars, breakerVars>>

-----------------------------------------------------------------------------
SearchStep(s) ==
    \/ Elects(s) \/ Denied(s) \/ Send(s) \/ SearchAnswered(s) \/ TryAgain(s)

CallStep(c) ==
    \/ Resume(c) \/ Timeout(c)
    \/ c \in Slot /\ SearchStep(c)
    \/ c = Login /\ (BeginLogin \/ LoginAnswered)

Next ==
    \/ \E s \in Slot : Begin(s)
    \/ \E c \in Call : CallStep(c)
    \/ StraySends \/ StrayEnds
    \/ ElectsBehind \/ Cool \/ Upstream

(* Timers fire and the event loop runs every continuation. Nothing is      *)
(* assumed of upstream, which may leave every request to its timeout, and  *)
(* nothing of searches arriving or of abandoned tries going on.            *)
Spec     == Init /\ [][Next]_vars
FairSpec == Spec /\ WF_vars(Cool) /\ \A c \in Call : WF_vars(CallStep(c))

-----------------------------------------------------------------------------
(* Properties                                                              *)

TypeOK ==
    /\ pc \in [Call -> {"idle", "queued", "halted", "resumes", "token",
                        "elects", "denied", "ready", "request", "backoff"}]
    /\ again \in [Call -> BOOLEAN]
    /\ tries \in [Call -> 0..MaxTries]
    /\ admitted \in [Call -> {"closed", "test"}]
    /\ on \in [Call -> Call \cup {None}]
    /\ elector \in Slot \cup {None}
    /\ gaveUp \in 0..MaxTries
    /\ followed \in {Watched, Orphan, None}
    /\ stray \in 0..2 /\ leak \in Nat
    /\ circuit \in {"closed", "open", "half"}
    /\ test \in Call \cup {None}
    /\ failures \in 0..Threshold
    /\ cooled \in BOOLEAN
    /\ up \in BOOLEAN

(* A half-open circuit is being tested, and every halted call waits for a  *)
(* test that is under way: no call is left waiting for a promise that has  *)
(* settled, although late failures may open the circuit beside its test    *)
(* and another test may begin before the first has ended (policy.ts:64).   *)
HalfOpenIsTested ==
    /\ circuit = "half" => /\ test \in Call
                           /\ Runs(test) /\ admitted[test] = "test"
    /\ \A c \in Call : pc[c] = "halted" =>
         on[c] \in Call /\ Runs(on[c]) /\ admitted[on[c]] = "test"

(* The circuit is asked once, when a call enters: the call goes on trying  *)
(* when it has opened, and the try its timeout abandons goes on when the   *)
(* slot has long been given to another call, or the circuit to another     *)
(* test. All that one call sends past a circuit that is not closed, the    *)
(* abandoned try included, is two requests for each of its tries           *)
(* (policy.ts:49, :83-88, client.ts:81).                                   *)
LeakBound == leak <= 2 * MaxTries

(* A client is told 429 or 503 only after the search has used up its       *)
(* tries: every answer mapped to one of them is retried, whatever made it  *)
(* one, its status or its text (errors.ts:58-75, policy.ts:20-41).         *)
ToldAfterRetries == gaveUp = MaxTries

(* README.md:317, the gauge 0, 1, 2: the circuit opens, is tested and      *)
(* closes only in that order, whatever late answers, timeouts and nested   *)
(* logins do.                                                              *)
C == INSTANCE Circuit WITH state <- circuit
IsCircuit == C!Spec

(* Every search and every login ends: no call waits for ever for a test    *)
(* that waits for it, as a test that needs a token does, whose login is    *)
(* halted by the very circuit the test keeps half-open, until its 20 s are *)
(* over (policy.ts:49, token.service.ts:96).                               *)
EveryCallEnds == \A c \in Call : []<>(pc[c] = "idle")

(* Once upstream has recovered, the circuit does not stay open or half for *)
(* ever, as long as searches keep coming.                                  *)
CircuitRecovers ==
    <>[]up /\ (\A s \in Slot : WF_vars(cooled /\ Begin(s))) => []<>(circuit = "closed")
=============================================================================
