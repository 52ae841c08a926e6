---------------------------- MODULE HttpRetryProofs ----------------------------
(***************************************************************************)
(* Proofs about HttpRetry for every number of attempts and calls, every    *)
(* timeout and every backoff that satisfy RetryAssumption.                 *)
(***************************************************************************)
EXTENDS HttpRetry, TLAPS

(* The time spent when call c has behind it a attempts and their waits.    *)
Spent(c, a) == Preparation + (c - 1) * Budget + a * (Timeout + MaxBackoff)

(* The time spent when call c has ended.                                   *)
SpentAfter(c) == Preparation + c * Budget

(* A request with a body that no attempt has read has left no trace, and   *)
(* one that was read has left one: under way or executed.                  *)
OneCopy ==
    /\ body = "unread" => inflight = 0 /\ effects = 0
    /\ body = "read" => inflight + effects <= 1

(* A received response is still open: CloseBody closes nothing twice.      *)
ReceivedIsOpen == pc = "received" => open > 0

(* What each state of the loop has spent at most.                          *)
WithinBudget ==
    /\ pc = "send" => elapsed <= Spent(call, attempt)
    /\ pc = "backoff" => elapsed + MaxBackoff <= Spent(call, attempt)
    /\ pc \in {"received", "done"} => elapsed <= SpentAfter(call)

-----------------------------------------------------------------------------
(* Lemmas.                                                                 *)

(* Multiplication is monotone.                                             *)
LEMMA Monotone ==
    ASSUME NEW a \in Nat, NEW b \in Nat, NEW k \in Nat, a <= b
    PROVE  a * k <= b * k
<1>1. b * k = a * k + (b - a) * k  BY SMT
<1>2. (b - a) * k \in Nat  BY SMT
<1>3. a * k \in Int /\ b * k \in Int  BY SMT
<1> QED  BY <1>1, <1>2, <1>3

(* No wait is longer than the maximum.                                     *)
LEMMA BackoffBounded ==
    ASSUME NEW n \in Nat
    PROVE  Backoff(n) \in Nat /\ Backoff(n) <= MaxBackoff
<1>1. n * InitialBackoff \in Nat  BY RetryAssumption
<1> QED  BY <1>1, RetryAssumption DEF Backoff

(* Budgets are natural numbers.                                            *)
LEMMA BudgetNat == Budget \in Nat
<1>1. (MaxRetries + 1) * Timeout \in Nat /\ MaxRetries * MaxBackoff \in Nat
  BY RetryAssumption
<1> QED  BY <1>1 DEF Budget

(* Times are natural numbers.                                              *)
LEMMA SpentNat ==
    ASSUME NEW c \in 1 .. MaxCalls, NEW a \in 0 .. MaxRetries
    PROVE  Spent(c, a) \in Nat /\ SpentAfter(c) \in Nat
<1>1. (c - 1) * Budget \in Nat /\ c * Budget \in Nat  BY BudgetNat, RetryAssumption
<1>2. a * (Timeout + MaxBackoff) \in Nat  BY RetryAssumption
<1> QED  BY <1>1, <1>2, RetryAssumption DEF Spent, SpentAfter

(* One more attempt with its wait.                                         *)
LEMMA SpentNext ==
    ASSUME NEW c \in 1 .. MaxCalls, NEW a \in 0 .. MaxRetries
    PROVE  Spent(c, a + 1) = Spent(c, a) + Timeout + MaxBackoff
<1> DEFINE step == Timeout + MaxBackoff
<1>1. step \in Nat /\ a \in Nat  BY RetryAssumption
<1>2. (a + 1) * step = a * step + step /\ a * step \in Nat  BY <1>1
<1>3. (c - 1) * Budget \in Nat  BY BudgetNat, RetryAssumption
<1> QED  BY <1>1, <1>2, <1>3, RetryAssumption DEF Spent

(* The last attempt ends within the budget of its call.                    *)
LEMMA SpentLast ==
    ASSUME NEW c \in 1 .. MaxCalls, NEW a \in 0 .. MaxRetries
    PROVE  Spent(c, a) + Timeout <= SpentAfter(c)
<1> DEFINE step == Timeout + MaxBackoff
<1>1. a * step <= MaxRetries * step  BY Monotone, RetryAssumption
<1>2. MaxRetries * step + Timeout = Budget
  BY RetryAssumption DEF Budget
<1>3. c * Budget = (c - 1) * Budget + Budget  BY BudgetNat, RetryAssumption
<1>4. a * step \in Nat /\ MaxRetries * step \in Nat /\ (c - 1) * Budget \in Nat
  BY BudgetNat, RetryAssumption
<1> HIDE DEF step
<1>5. a * step + Timeout <= Budget  BY <1>1, <1>2, <1>4, RetryAssumption
<1>6. Spent(c, a) = Preparation + (c - 1) * Budget + a * step  BY DEF Spent, step
<1> QED  BY <1>3, <1>4, <1>5, <1>6, BudgetNat, RetryAssumption DEF SpentAfter

(* A call begins where the one before it ended.                            *)
LEMMA SpentFirst ==
    ASSUME NEW c \in 1 .. MaxCalls
    PROVE  Spent(c + 1, 0) = SpentAfter(c)
<1>1. 0 * (Timeout + MaxBackoff) = 0 /\ (c + 1) - 1 = c  BY RetryAssumption
<1>2. c * Budget \in Nat  BY BudgetNat, RetryAssumption
<1> QED  BY <1>1, <1>2, RetryAssumption DEF Spent, SpentAfter

(* All calls end before the threshold.                                     *)
LEMMA SpentBelowThreshold ==
    ASSUME NEW c \in 1 .. MaxCalls
    PROVE  SpentAfter(c) < RefreshThreshold
<1>1. c * Budget <= MaxCalls * Budget  BY Monotone, BudgetNat, RetryAssumption
<1>2. c * Budget \in Nat /\ MaxCalls * Budget \in Nat  BY BudgetNat, RetryAssumption
<1> QED  BY <1>1, <1>2, RetryAssumption DEF SpentAfter

-----------------------------------------------------------------------------
(* Type correctness.                                                       *)

(* An attempt's duration keeps the clock a natural number.                 *)
LEMMA AttemptTyped ==
    ASSUME elapsed \in Nat, AttemptLasts
    PROVE  elapsed' \in Nat /\ elapsed' <= elapsed + Timeout
BY RetryAssumption DEF AttemptLasts

(* Whether a failed attempt is followed by another one keeps the types.    *)
LEMMA RetryTyped ==
    ASSUME TypeOK, Retry
    PROVE  /\ pc' \in {"backoff", "done"}
           /\ attempt' \in 0 .. MaxRetries
           /\ outcome' \in {"none", "response", "unauthorized", "error"}
           /\ pc' = "backoff" => attempt' = attempt + 1
<1>1. CASE attempt < MaxRetries /\ pc' = "backoff" /\ attempt' = attempt + 1
           /\ outcome' = outcome
  BY <1>1, RetryAssumption DEF TypeOK
<1>2. CASE attempt = MaxRetries /\ Return("error")
  BY <1>2 DEF TypeOK, Return
<1> QED  BY <1>1, <1>2 DEF Retry

(* Every variable keeps its type, for all values of the constants that     *)
(* satisfy RetryAssumption.                                                *)
THEOREM TypeCorrect == Spec => []TypeOK
<1>1. Init => TypeOK /\ ReceivedIsOpen
  BY RetryAssumption DEF Init, TypeOK, ReceivedIsOpen
<1>2. TypeOK /\ ReceivedIsOpen /\ [Next]_vars => (TypeOK /\ ReceivedIsOpen)'
  <2> SUFFICES ASSUME TypeOK, ReceivedIsOpen, [Next]_vars
               PROVE  TypeOK' /\ ReceivedIsOpen'
    OBVIOUS
  <2>1. CASE BackOff
    <3>1. elapsed' \in Nat  BY <2>1, BackoffBounded DEF BackOff, TypeOK, ReceivedIsOpen
    <3> QED  BY <2>1, <3>1 DEF BackOff, TypeOK, ReceivedIsOpen
  <2>2. CASE Cancelled
    <3>1. elapsed' \in Nat  BY <2>2, BackoffBounded DEF Cancelled, TypeOK, ReceivedIsOpen
    <3> QED  BY <2>2, <3>1 DEF Cancelled, Return, TypeOK, ReceivedIsOpen
  <2>3. CASE ConnectTimesOut
    BY <2>3, AttemptTyped, RetryTyped DEF ConnectTimesOut, TypeOK, ReceivedIsOpen
  <2>4. CASE AnswerTimesOut
    BY <2>4, AttemptTyped, RetryTyped
    DEF AnswerTimesOut, Consumed, PerhapsInFlight, TypeOK, ReceivedIsOpen
  <2>5. CASE ConnectionFails
    BY <2>5, AttemptTyped DEF ConnectionFails, Consumed, PerhapsInFlight, Return, TypeOK, ReceivedIsOpen
  <2>6. CASE Answered
    BY <2>6, AttemptTyped DEF Answered, Consumed, TypeOK, ReceivedIsOpen
  <2>7. CASE TruncatedRefused
    BY <2>7, AttemptTyped DEF TruncatedRefused, TypeOK, ReceivedIsOpen
  <2>8. CASE Unauthorized
    BY <2>8, AttemptTyped DEF Unauthorized, Consumed, Return, TypeOK, ReceivedIsOpen
  <2>9. CASE CloseBody
    BY <2>9 DEF CloseBody, TypeOK, ReceivedIsOpen
  <2>10. CASE NextCall
    BY <2>10, RetryAssumption DEF NextCall, TypeOK, ReceivedIsOpen
  <2>11. CASE LateExecution
    BY <2>11 DEF LateExecution, TypeOK, ReceivedIsOpen
  <2>12. CASE UNCHANGED vars
    BY <2>12 DEF vars, TypeOK, ReceivedIsOpen
  <2> QED  BY <2>1, <2>2, <2>3, <2>4, <2>5, <2>6, <2>7, <2>8, <2>9, <2>10, <2>11,
              <2>12 DEF Next
<1> QED  BY <1>1, <1>2, PTL DEF Spec

-----------------------------------------------------------------------------
(* At most once.                                                           *)

(* An attempt that reads the body leaves at most one copy behind.          *)
LEMMA ConsumedOnce ==
    ASSUME TypeOK, OneCopy, body # "read", Consumed, PerhapsInFlight,
           effects' = effects
    PROVE  OneCopy'
<1>1. body \in {"none", "unread"} /\ inflight \in Nat /\ effects \in Nat
  BY DEF TypeOK
<1>2. CASE body = "none"
  BY <1>2 DEF Consumed, OneCopy
<1>3. CASE body = "unread"
  <2>1. inflight = 0 /\ effects' = 0 /\ body' = "read"
    BY <1>3 DEF Consumed, OneCopy
  <2>2. inflight' = 0 \/ inflight' = 1
    BY <2>1 DEF PerhapsInFlight
  <2>3. inflight' + effects' <= 1
    BY <2>1, <2>2
  <2> QED  BY <2>1, <2>3 DEF OneCopy
<1> QED  BY <1>1, <1>2, <1>3

(* At most one copy of the request is under way or executed.               *)
LEMMA OneCopyHolds == Spec => [](TypeOK /\ OneCopy)
<1>1. Init => OneCopy
  BY DEF Init, OneCopy
<1>2. TypeOK /\ TypeOK' /\ OneCopy /\ [Next]_vars => OneCopy'
  <2> SUFFICES ASSUME TypeOK, TypeOK', OneCopy, [Next]_vars
               PROVE  OneCopy'
    OBVIOUS
  <2>1. CASE body' = body /\ inflight' = inflight /\ effects' = effects
    BY <2>1 DEF OneCopy
  <2>2. CASE AnswerTimesOut
    BY <2>2, ConsumedOnce DEF AnswerTimesOut
  <2>3. CASE ConnectionFails
    <3>1. CASE body' = body /\ inflight' = inflight /\ effects' = effects
      BY <2>1, <3>1
    <3>2. CASE body # "read" /\ Consumed /\ PerhapsInFlight
      BY <2>3, <3>2, ConsumedOnce DEF ConnectionFails
    <3> QED  BY <2>3, <3>1, <3>2 DEF ConnectionFails
  <2>4. CASE Answered
    <3>1. CASE body = "none"
      BY <2>4, <3>1 DEF Answered, Consumed, OneCopy
    <3>2. CASE body = "unread"
      <4>1. inflight' = 0 /\ body' = "read"
        BY <2>4, <3>2 DEF Answered, Consumed, OneCopy
      <4>2. effects' = 0 \/ effects' = 1
        BY <2>4, <3>2 DEF Answered, OneCopy
      <4>3. inflight' + effects' <= 1
        BY <4>1, <4>2
      <4> QED  BY <4>1, <4>3 DEF OneCopy
    <3> QED  BY <2>4, <3>1, <3>2 DEF Answered, TypeOK
  <2>5. CASE Unauthorized
    BY <2>5 DEF Unauthorized, Consumed, OneCopy, TypeOK
  <2>6. CASE NextCall
    BY <2>6 DEF NextCall, OneCopy
  <2>7. CASE LateExecution
    BY <2>7 DEF LateExecution, OneCopy, TypeOK
  <2> QED
    BY <2>1, <2>2, <2>3, <2>4, <2>5, <2>6, <2>7
    DEF Next, vars, BackOff, Cancelled, ConnectTimesOut, TruncatedRefused, CloseBody
<1> QED  BY <1>1, <1>2, TypeCorrect, PTL DEF Spec

(* A request that changes something is executed at most once, for every    *)
(* number of attempts and every timeout.                                   *)
THEOREM AtMostOnce == Spec => []AtMostOnceEffect
<1>1. TypeOK /\ OneCopy => AtMostOnceEffect
  BY DEF TypeOK, OneCopy, AtMostOnceEffect
<1> QED  BY <1>1, OneCopyHolds, PTL

-----------------------------------------------------------------------------
(* Responses are closed.                                                   *)

(* Where a response may be open, and how many.                             *)
OpenWhere ==
    /\ pc \in {"send", "backoff"} => open = 0
    /\ pc = "received" => open = 1 /\ outcome = "response"
    /\ pc = "done" => open = 0 \/ outcome = "unauthorized"

(* The caller closes every response but that of a 401, for every number of *)
(* attempts and calls.                                                     *)
THEOREM ResponsesClosed == Spec => []OnlyUnauthorizedLeaks
<1>1. Init => OpenWhere
  BY DEF Init, OpenWhere
<1>2. TypeOK /\ OpenWhere /\ [Next]_vars => OpenWhere'
  <2> SUFFICES ASSUME TypeOK, OpenWhere, [Next]_vars PROVE OpenWhere'
    OBVIOUS
  <2> USE DEF OpenWhere
  <2>1. CASE BackOff \/ Cancelled
    BY <2>1 DEF BackOff, Cancelled, Return
  <2>2. CASE ConnectTimesOut \/ AnswerTimesOut
    BY <2>2 DEF ConnectTimesOut, AnswerTimesOut, Retry, Return
  <2>3. CASE ConnectionFails \/ Unauthorized
    BY <2>3 DEF ConnectionFails, Unauthorized, Return
  <2>4. CASE Answered \/ TruncatedRefused
    BY <2>4 DEF Answered, TruncatedRefused
  <2>5. CASE CloseBody
    BY <2>5 DEF CloseBody, TypeOK
  <2>6. CASE NextCall
    BY <2>6 DEF NextCall
  <2>7. CASE LateExecution
    BY <2>7 DEF LateExecution
  <2>8. CASE UNCHANGED vars
    BY <2>8 DEF vars
  <2> QED  BY <2>1, <2>2, <2>3, <2>4, <2>5, <2>6, <2>7, <2>8 DEF Next
<1>3. OpenWhere => OnlyUnauthorizedLeaks
  BY DEF OpenWhere, OnlyUnauthorizedLeaks
<1> QED  BY <1>1, <1>2, <1>3, TypeCorrect, PTL DEF Spec

-----------------------------------------------------------------------------
(* The token outlives the operation.                                       *)

(* A failed attempt leaves time for the wait, or for the end of the call.  *)
LEMMA FailureWithinBudget ==
    ASSUME TypeOK, WithinBudget, pc = "send", AttemptLasts, call' = call,
           Retry \/ Return("error") \/ Return("unauthorized")
    PROVE  WithinBudget'
<1>1. /\ elapsed \in Nat /\ elapsed <= Spent(call, attempt)
      /\ call \in 1 .. MaxCalls /\ attempt \in 0 .. MaxRetries
  BY DEF TypeOK, WithinBudget
<1>2. elapsed' \in Nat /\ elapsed' <= elapsed + Timeout
  BY <1>1, AttemptTyped
<1>3. Spent(call, attempt) \in Nat /\ SpentAfter(call) \in Nat
  BY <1>1, SpentNat
<1>4. CASE pc' = "backoff" /\ attempt' = attempt + 1
  <2>1. Spent(call, attempt + 1) = Spent(call, attempt) + Timeout + MaxBackoff
    BY <1>1, SpentNext
  <2>2. elapsed' + MaxBackoff <= Spent(call, attempt + 1)
    BY <1>1, <1>2, <1>3, <2>1, RetryAssumption
  <2> QED  BY <1>4, <2>2 DEF WithinBudget
<1>5. CASE pc' = "done"
  <2>1. elapsed' <= SpentAfter(call)
    BY <1>1, <1>2, <1>3, SpentLast, RetryAssumption
  <2> QED  BY <1>5, <2>1, call' = call DEF WithinBudget
<1> QED  BY <1>4, <1>5 DEF Retry, Return

(* A token that passed the check is valid until the operation has ended,   *)
(* for all values of the constants that satisfy RetryAssumption.           *)
THEOREM TokenOutlives == Spec => []TokenOutlivesCall
<1>1. Init => WithinBudget
  <2> SUFFICES ASSUME Init PROVE WithinBudget
    OBVIOUS
  <2>1. Spent(1, 0) = Preparation
    BY BudgetNat, RetryAssumption DEF Spent
  <2> QED  BY <2>1, RetryAssumption DEF Init, WithinBudget
<1>2. TypeOK /\ TypeOK' /\ WithinBudget /\ [Next]_vars => WithinBudget'
  <2> SUFFICES ASSUME TypeOK, TypeOK', WithinBudget, [Next]_vars
               PROVE  WithinBudget'
    OBVIOUS
  <2>1. /\ elapsed \in Nat /\ elapsed' \in Nat
        /\ call \in 1 .. MaxCalls /\ attempt \in 0 .. MaxRetries
    BY DEF TypeOK
  <2>2. /\ Spent(call, attempt) \in Nat /\ SpentAfter(call) \in Nat
        /\ Spent(call, attempt) + Timeout <= SpentAfter(call)
        /\ Spent(call, attempt) <= SpentAfter(call)
    BY <2>1, SpentNat, SpentLast, RetryAssumption
  <2>3. CASE BackOff
    <3>1. elapsed' = elapsed + Backoff(attempt) /\ Backoff(attempt) \in Nat
          /\ Backoff(attempt) <= MaxBackoff
      BY <2>1, <2>3, BackoffBounded, RetryAssumption DEF BackOff
    <3>2. elapsed + MaxBackoff <= Spent(call, attempt)
      BY <2>3 DEF BackOff, WithinBudget
    <3>3. elapsed' <= Spent(call, attempt)
      BY <2>1, <2>2, <3>1, <3>2, RetryAssumption
    <3> QED  BY <2>3, <3>3 DEF BackOff, WithinBudget
  <2>4. CASE Cancelled
    <3>1. Backoff(attempt) \in Nat /\ Backoff(attempt) <= MaxBackoff
      BY <2>1, BackoffBounded, RetryAssumption
    <3>2. elapsed' <= elapsed + Backoff(attempt)
      BY <2>1, <2>4, <3>1 DEF Cancelled
    <3>3. elapsed + MaxBackoff <= Spent(call, attempt)
      BY <2>4 DEF Cancelled, WithinBudget
    <3>4. elapsed' <= SpentAfter(call)
      BY <2>1, <2>2, <3>1, <3>2, <3>3, RetryAssumption
    <3> QED  BY <2>4, <3>4 DEF Cancelled, Return, WithinBudget
  <2>5. CASE ConnectTimesOut
    BY <2>5, FailureWithinBudget DEF ConnectTimesOut
  <2>6. CASE AnswerTimesOut
    BY <2>6, FailureWithinBudget DEF AnswerTimesOut
  <2>7. CASE ConnectionFails
    BY <2>7, FailureWithinBudget DEF ConnectionFails
  <2>8. CASE Unauthorized
    BY <2>8, FailureWithinBudget DEF Unauthorized
  <2>9. CASE pc = "send" /\ AttemptLasts /\ pc' = "received" /\ call' = call
    <3>1. elapsed' <= elapsed + Timeout  BY <2>1, <2>9, AttemptTyped
    <3>2. elapsed <= Spent(call, attempt)  BY <2>9 DEF WithinBudget
    <3>3. elapsed' <= SpentAfter(call)
      BY <2>1, <2>2, <3>1, <3>2, RetryAssumption
    <3> QED  BY <2>9, <3>3 DEF WithinBudget
  <2>10. CASE CloseBody
    BY <2>10 DEF CloseBody, WithinBudget
  <2>11. CASE NextCall
    <3>1. Spent(call + 1, 0) = SpentAfter(call)  BY <2>1, SpentFirst
    <3> QED  BY <2>11, <3>1 DEF NextCall, WithinBudget
  <2>12. CASE UNCHANGED <<pc, attempt, call, elapsed>>
    BY <2>12 DEF WithinBudget
  <2> QED
    BY <2>3, <2>4, <2>5, <2>6, <2>7, <2>8, <2>9, <2>10, <2>11, <2>12
    DEF Next, vars, Answered, TruncatedRefused, LateExecution
<1>3. TypeOK /\ WithinBudget => TokenOutlivesCall
  <2> SUFFICES ASSUME TypeOK, WithinBudget PROVE TokenOutlivesCall
    OBVIOUS
  <2>1. /\ elapsed \in Nat /\ call \in 1 .. MaxCalls
        /\ attempt \in 0 .. MaxRetries
        /\ pc \in {"send", "backoff", "received", "done"}
    BY DEF TypeOK
  <2>2. /\ Spent(call, attempt) \in Nat /\ SpentAfter(call) \in Nat
        /\ Spent(call, attempt) <= SpentAfter(call)
    BY <2>1, SpentNat, SpentLast, RetryAssumption
  <2>3. elapsed <= SpentAfter(call)
    BY <2>1, <2>2, RetryAssumption DEF WithinBudget
  <2>4. SpentAfter(call) < RefreshThreshold  BY <2>1, SpentBelowThreshold
  <2> QED  BY <2>1, <2>2, <2>3, <2>4, RetryAssumption DEF TokenOutlivesCall
<1> QED  BY <1>1, <1>2, <1>3, TypeCorrect, PTL DEF Spec
=============================================================================
