------------------------------- MODULE HttpRetry -------------------------------
(***************************************************************************)
(* The requests one operation sends to the amoCRM API: DoRequestWithRetry  *)
(* (http_retry.go), its caller, and as much of net/http and of amoCRM as   *)
(* decides what a retry does.  req.Clone copies a request but shares its   *)
(* body, so a body that one attempt has read is empty for the next one.    *)
(***************************************************************************)
EXTENDS Integers

CONSTANTS
    MaxRetries,        (* RetryConfig.MaxRetries                            *)
    InitialBackoff,    (* RetryConfig.InitialBackoff                        *)
    MaxBackoff,        (* RetryConfig.MaxBackoff                            *)
    Timeout,           (* http.Client.Timeout                               *)
    Preparation,       (* longest time from the token check to the request  *)
    MaxCalls,          (* requests of one operation, one after the other    *)
    RefreshThreshold   (* refreshThreshold of ensureValidToken              *)

(* The longest time one request takes.                                     *)
Budget == (MaxRetries + 1) * Timeout + MaxRetries * MaxBackoff

ASSUME RetryAssumption ==
    /\ MaxRetries \in Nat
    /\ InitialBackoff \in Nat
    /\ MaxBackoff \in Nat
    /\ Timeout \in Nat
    /\ Preparation \in Nat
    /\ MaxCalls \in Nat \ {0}
    /\ RefreshThreshold \in Nat
    /\ Preparation + MaxCalls * Budget < RefreshThreshold

VARIABLES
    pc,        (* where DoRequestWithRetry or its caller is               *)
    attempt,   (* the loop variable of DoRequestWithRetry                 *)
    call,      (* which request of the operation this is                  *)
    body,      (* "none" (GET), "unread", or "read" by an attempt         *)
    inflight,  (* whole copies of the request amoCRM may still execute    *)
    effects,   (* how often amoCRM has executed the request               *)
    open,      (* responses whose body is not closed                      *)
    outcome,   (* what DoRequestWithRetry returned                        *)
    elapsed    (* time since the token was checked                        *)

vars == <<pc, attempt, call, body, inflight, effects, open, outcome, elapsed>>

TypeOK ==
    /\ pc \in {"send", "backoff", "received", "done"}
    /\ attempt \in 0 .. MaxRetries
    /\ call \in 1 .. MaxCalls
    /\ body \in {"none", "unread", "read"}
    /\ inflight \in Nat
    /\ effects \in Nat
    /\ open \in Nat
    /\ outcome \in {"none", "response", "unauthorized", "error"}
    /\ elapsed \in Nat

Init ==
    /\ pc = "send"
    /\ attempt = 0
    /\ call = 1
    /\ body \in {"none", "unread"}
    /\ inflight = 0
    /\ effects = 0
    /\ open = 0
    /\ outcome = "none"
    /\ elapsed \in 0 .. Preparation

-----------------------------------------------------------------------------
(* Helpers.                                                                *)

(* The wait before an attempt.                                             *)
Backoff(n) == IF n * InitialBackoff > MaxBackoff THEN MaxBackoff
              ELSE n * InitialBackoff

(* An attempt lasts at most as long as the client's timeout.               *)
AttemptLasts == \E d \in 0 .. Timeout : elapsed' = elapsed + d

(* Defect: every attempt gets a body of its own (req.GetBody).             *)
Rewound == body' = body

(* An attempt has sent the body, if there is one.                          *)
Consumed == body' = IF body = "none" THEN "none" ELSE "read"

(* amoCRM has a whole copy of the request, or it was lost on the way.      *)
PerhapsInFlight == inflight' \in {inflight, inflight + 1}

Return(result) ==
    /\ pc' = "done"
    /\ outcome' = result
    /\ UNCHANGED attempt

(* Defect: one attempt too many.                                           *)
RetryOnceMore ==
    \/ /\ attempt <= MaxRetries
       /\ pc' = "backoff"
       /\ attempt' = attempt + 1
       /\ UNCHANGED outcome
    \/ /\ attempt > MaxRetries
       /\ Return("error")

(* isRetryableError(err): the loop goes on while attempts are left.        *)
Retry ==
    \/ /\ attempt < MaxRetries
       /\ pc' = "backoff"
       /\ attempt' = attempt + 1
       /\ UNCHANGED outcome
    \/ /\ attempt = MaxRetries
       /\ Return("error")

-----------------------------------------------------------------------------
(* DoRequestWithRetry.                                                     *)

BackOff ==
    /\ pc = "backoff"
    /\ elapsed' = elapsed + Backoff(attempt)
    /\ pc' = "send"
    /\ UNCHANGED <<attempt, call, body, inflight, effects, open, outcome>>

(* ctx.Done() while it waits.                                              *)
Cancelled ==
    /\ pc = "backoff"
    /\ \E d \in 0 .. Backoff(attempt) : elapsed' = elapsed + d
    /\ Return("error")
    /\ UNCHANGED <<call, body, inflight, effects, open>>

(* No connection in time: nothing of the body was read.                    *)
ConnectTimesOut ==
    /\ pc = "send"
    /\ AttemptLasts
    /\ Retry
    /\ UNCHANGED <<call, body, inflight, effects, open>>

(* The request was sent but no answer came in time.                        *)
AnswerTimesOut ==
    /\ pc = "send" /\ body # "read"
    /\ AttemptLasts
    /\ Consumed
    /\ PerhapsInFlight
    /\ Retry
    /\ UNCHANGED <<call, effects, open>>

(* An error that is not retried, before or after the request was sent.     *)
ConnectionFails ==
    /\ pc = "send"
    /\ AttemptLasts
    /\ \/ UNCHANGED <<body, inflight>>
       \/ body # "read" /\ Consumed /\ PerhapsInFlight
    /\ Return("error")
    /\ UNCHANGED <<call, effects, open>>

(* An answer other than 401; amoCRM may have refused the request in it.    *)
Answered ==
    /\ pc = "send" /\ body # "read"
    /\ AttemptLasts
    /\ Consumed
    /\ effects' \in {effects, effects + 1}
    /\ pc' = "received"
    /\ outcome' = "response"
    /\ open' = open + 1
    /\ UNCHANGED <<attempt, call, inflight>>

(* A request without the body it announces is refused.                     *)
TruncatedRefused ==
    /\ pc = "send" /\ body = "read"
    /\ AttemptLasts
    /\ pc' = "received"
    /\ outcome' = "response"
    /\ open' = open + 1
    /\ UNCHANGED <<attempt, call, body, inflight, effects>>

(* 401: the loop ends, with the response and an error.                     *)
Unauthorized ==
    /\ pc = "send"
    /\ AttemptLasts
    /\ Consumed
    /\ Return("unauthorized")
    /\ open' = open + 1
    /\ UNCHANGED <<call, inflight, effects>>

-----------------------------------------------------------------------------
(* The caller.                                                             *)

(* Defect: the caller drops the response.                                  *)
DropBody ==
    /\ pc = "received"
    /\ pc' = "done"
    /\ UNCHANGED <<attempt, call, body, inflight, effects, open, outcome, elapsed>>

(* Without an error it reads the body and closes it; with an error it      *)
(* returns and drops the response.                                         *)
CloseBody ==
    /\ pc = "received"
    /\ open' = open - 1
    /\ pc' = "done"
    /\ UNCHANGED <<attempt, call, body, inflight, effects, outcome, elapsed>>

(* SetMarusiaSource after CreateContact.  What amoCRM still does with the  *)
(* request before is followed no longer.                                   *)
NextCall ==
    /\ pc = "done" /\ outcome = "response"
    /\ call < MaxCalls
    /\ call' = call + 1
    /\ pc' = "send"
    /\ attempt' = 0
    /\ body' \in {"none", "unread"}
    /\ inflight' = 0
    /\ effects' = 0
    /\ outcome' = "none"
    /\ UNCHANGED <<open, elapsed>>

(* amoCRM executes a request nobody waits for any more.                    *)
LateExecution ==
    /\ inflight > 0
    /\ inflight' = inflight - 1
    /\ effects' = effects + 1
    /\ UNCHANGED <<pc, attempt, call, body, open, outcome, elapsed>>

Next ==
    \/ BackOff
    \/ Cancelled
    \/ ConnectTimesOut
    \/ AnswerTimesOut
    \/ ConnectionFails
    \/ Answered
    \/ TruncatedRefused
    \/ Unauthorized
    \/ CloseBody
    \/ NextCall
    \/ LateExecution

Spec == Init /\ [][Next]_vars

-----------------------------------------------------------------------------
(* Properties.                                                             *)

(* A request that changes something is executed at most once, although     *)
(* timeouts are retried and a request that timed out may still be on its   *)
(* way: it is the shared body that prevents a second whole request.        *)
AtMostOnceEffect == body # "none" => effects <= 1

(* An access token that passed the check of ensureValidToken is valid      *)
(* until the last attempt of the last request of the operation has ended.  *)
TokenOutlivesCall == elapsed < RefreshThreshold

(* The caller closes every response, except the one that comes together    *)
(* with the error of a 401.                                                *)
OnlyUnauthorizedLeaks == pc = "done" /\ open > 0 => outcome = "unauthorized"
=============================================================================
