---------------------------- MODULE ErrorMapping ----------------------------
(***************************************************************************)
(* From an answer of DocketAlarm to the exception executeSearch throws, to *)
(* whether the policy tries again, to what the client of the service gets. *)
(*                                                                         *)
(* Source: src/src/docket-alarm/docket-alarm.errors.ts, the error paths of *)
(* executeSearch in docket-alarm.client.ts, isRetryableError in            *)
(* docket-alarm.policy.ts and src/src/shared/errors/.                      *)
(***************************************************************************)
EXTENDS Integers

(* What the body of an answer says, as far as mapDocketAlarmError looks:   *)
(* one of its phrases, the results asked for, or anything else.            *)
Phrase == {"too broad", "invalid token", "rate limit"}
Says   == Phrase \cup {"results", "else"}

(* A connection that fails is mapped as a 500 (client.ts:131).             *)
Answer == [status : {200, 400, 401, 429, 500}, says : Says]

MapDocketAlarmError(a) ==
    IF a.says = "too broad" THEN "QueryTooBroad"
    ELSE IF a.status = 401 \/ a.says = "invalid token" THEN "UpstreamAuthFailed"
    ELSE IF a.status = 429 \/ a.says = "rate limit" THEN "UpstreamRateLimited"
    ELSE "UpstreamUnavailable"

IsResult(a) == a.status = 200 /\ a.says = "results"

(* What executeSearch throws, by isRetryAfter401: a first 401 is none of it*)
(* yet.                                                                    *)
Thrown ==
    [again \in BOOLEAN |->
       {MapDocketAlarmError(a) : a \in {b \in Answer : /\ ~IsResult(b)
                                                      /\ b.status = 401 => again}}]

(* What the policy throws beside what the search threw.                    *)
PolicyError == {"BrokenCircuit", "TaskCancelled"}
DomainError == {"QueryTooBroad", "UpstreamAuthFailed", "UpstreamRateLimited",
                "UpstreamUnavailable"}

(* Mutant: a rate limit is not tried again. *)
RetryUnavailableOnly(e) == e = "UpstreamUnavailable"

IsRetryableError(e) == e \in {"UpstreamUnavailable", "UpstreamRateLimited"}

(* AllExceptionsFilter: a DomainException has its status, what it does not *)
(* know is an internal error.                                              *)
StatusOf(e) ==
    CASE e = "QueryTooBroad"       -> 400
      [] e = "UpstreamRateLimited" -> 429
      [] e = "UpstreamAuthFailed"  -> 502
      [] e = "UpstreamUnavailable" -> 503
      [] e \in PolicyError         -> 500
=============================================================================
