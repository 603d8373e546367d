---------------------------- MODULE GatewayCalls ----------------------------
(***************************************************************************)
(* The HTTP client with which the admin and the streaming service call the *)
(* gateway (crates/common: antd/mod.rs, resilience.rs): retries, the       *)
(* fall-back from the raw endpoint to the JSON one, and the circuit        *)
(* breaker that all calls of a process share.                              *)
(*                                                                         *)
(* The 30 s of an open circuit and the backoff between attempts are        *)
(* abstracted to the moment they end.  The breaker is two atomics that are *)
(* written one after the other without a lock, so recording a result takes *)
(* up to two steps.                                                        *)
(***************************************************************************)
EXTENDS Naturals

CONSTANTS
  Caller,            \* tasks that may have a call to the gateway under way
  Attempts,          \* attempts of each kind of call: FETCH_ATTEMPTS, upload_retries, ...
  FailureThreshold   \* CircuitBreaker::FAILURE_THRESHOLD

\* data_get_public of the streaming service; the calls with retries on a JSON
\* answer (its health, data_cost_for_size); file_put_public; every other call.
Kind == {"download", "retried", "file", "single"}

ASSUME CallAssumption ==
  /\ Attempts \in [Kind -> Nat \ {0}]
  /\ Attempts["single"] = 1
  /\ FailureThreshold \in Nat \ {0}

VARIABLES
  circuit,   \* consecutive_failures; whether opened_until_epoch_ms is in the future
  call,      \* the call each caller is waiting for
  healthy    \* whether the gateway answers properly (external)

vars == <<circuit, call, healthy>>

-----------------------------------------------------------------------------

\* What one HTTP request can come back with: a good answer, 404 or 405, another
\* error that is final, a good answer whose base64 is invalid, and the errors
\* that is_retryable_antd_error accepts.
Outcome == {"ok", "missing", "refused", "undecodable", "retryable"}

NoCall == [step |-> "none", kind |-> "single", raw |-> FALSE, attempt |-> 1, outcome |-> "ok"]
Ended(how) == [NoCall EXCEPT !.step = how]

\* A caller starts a call.  A download asks the raw endpoint first.
Begin(k, kind) ==
  /\ call[k] = NoCall
  /\ call' = [call EXCEPT ![k] = [NoCall EXCEPT !.step = "check", !.kind = kind,
                                                !.raw = kind = "download"]]
  /\ UNCHANGED <<circuit, healthy>>

\* The breaker refuses while the count is high.
CheckLatched(k) ==
  /\ call[k].step = "check"
  /\ call' = [call EXCEPT ![k] = IF circuit.failures >= FailureThreshold THEN Ended("failed")
                                 ELSE [@ EXCEPT !.step = "sent"]]
  /\ UNCHANGED <<circuit, healthy>>

\* CircuitBreaker::check, at the start of every attempt.  The error is not
\* retryable, so it ends the call.
Check(k) ==
  /\ call[k].step = "check"
  /\ call' = [call EXCEPT ![k] = IF circuit.open THEN Ended("failed")
                                 ELSE [@ EXCEPT !.step = "sent"]]
  /\ UNCHANGED <<circuit, healthy>>

\* sha256_file_async, before the first attempt and its check, and send_file: the file
\* cannot be read; nothing is recorded.  file_cost is a single call with a file.
FileMissing(k) ==
  /\ call[k].step = "check" /\ call[k].kind \in {"file", "single"}
  /\ call[k].attempt = 1 \/ ~circuit.open
  /\ call' = [call EXCEPT ![k] = Ended("unread")]
  /\ UNCHANGED <<circuit, healthy>>

\* record_result, first store: consecutive_failures (counted up to the threshold).
Counted(failures, o) ==
  IF o # "retryable" THEN 0
  ELSE IF failures < FailureThreshold THEN failures + 1 ELSE failures

\* record_result, whether opened_until_epoch_ms is stored too.
StoresOpenedUntil(failures, o) ==
  \/ o \in {"ok", "undecodable"}
  \/ o = "retryable" /\ failures >= FailureThreshold

\* The retry loops, whether another attempt is left: of get_bytes_retry, of
\* get_json_retry and data_cost_for_size, and of file_put_public, which sends the
\* whole file again.
GetBytesRetry(c) == c.kind = "download" /\ c.raw /\ c.attempt < Attempts[c.kind]
GetJsonRetry(c) == c.kind \in {"download", "retried"} /\ ~c.raw /\ c.attempt < Attempts[c.kind]
FilePutPublic(c) == c.kind = "file" /\ c.attempt < Attempts[c.kind]
Retries(c) == GetBytesRetry(c) \/ GetJsonRetry(c) \/ FilePutPublic(c)

\* The fall-back: the raw endpoint is asked again, and the JSON one.
FallenBackRaw(c) == [c EXCEPT !.step = "check", !.attempt = 1]
FallenBack(c) == [c EXCEPT !.step = "check", !.attempt = 1, !.raw = FALSE]

\* The retry loops and the fall-back of data_get_public: what a call does after
\* outcome o has been recorded.
Resumed(c, o) ==
  CASE o = "ok" -> Ended("done")
    [] o = "retryable" /\ Retries(c) ->
         [c EXCEPT !.step = "check", !.attempt = @ + 1, !.outcome = "ok"]
    [] o = "missing" /\ c.raw -> FallenBack(c)
    [] OTHER -> Ended("failed")

\* What the result of one request can be: get_bytes_once, send_file and request_json,
\* whose answer to a download (data_get_public of either service) is base64.
GetBytesOnce == Outcome \ {"undecodable"}
SendFile == Outcome \ {"undecodable"}
RequestJson(c) == IF c.kind = "retried" THEN Outcome \ {"undecodable"} ELSE Outcome
Outcomes(c) == IF c.raw THEN GetBytesOnce ELSE IF c.kind = "file" THEN SendFile ELSE RequestJson(c)

\* The answer to a request arrives, or its timeout does.
Answer(k, o) ==
  /\ call[k].step = "sent"
  /\ o \in Outcomes(call[k])
  /\ healthy => o = "ok"
  /\ circuit' = [circuit EXCEPT !.failures = Counted(@, o)]
  /\ call' = [call EXCEPT ![k] =
                IF StoresOpenedUntil(circuit'.failures, o)
                THEN [@ EXCEPT !.step = "record", !.outcome = o]
                ELSE Resumed(@, o)]
  /\ UNCHANGED healthy

\* record_result, second store: opened_until_epoch_ms.
Record(k) ==
  /\ call[k].step = "record"
  /\ circuit' = [circuit EXCEPT !.open = call[k].outcome = "retryable"]
  /\ call' = [call EXCEPT ![k] = Resumed(@, @.outcome)]
  /\ UNCHANGED healthy

\* The caller takes the result.
Take(k) ==
  /\ call[k].step \in {"done", "failed", "unread"}
  /\ call' = [call EXCEPT ![k] = NoCall]
  /\ UNCHANGED <<circuit, healthy>>

\* The caller is dropped (a request that timed out, a worker that lost its job),
\* and its call with it, between two stores at most.
Drop(k) ==
  /\ call[k].step \in {"check", "sent"}
  /\ call' = [call EXCEPT ![k] = NoCall]
  /\ UNCHANGED <<circuit, healthy>>

\* OPEN_DURATION has passed.
Elapse ==
  /\ circuit.open
  /\ circuit' = [circuit EXCEPT !.open = FALSE]
  /\ UNCHANGED <<call, healthy>>

\* The gateway goes down or comes back.
ToggleGateway ==
  /\ healthy' = ~healthy
  /\ UNCHANGED <<circuit, call>>

Init ==
  /\ circuit = [failures |-> 0, open |-> FALSE]
  /\ call = [k \in Caller |-> NoCall]
  /\ healthy \in BOOLEAN

Step(k) == Check(k) \/ FileMissing(k) \/ (\E o \in Outcome : Answer(k, o)) \/ Record(k) \/ Take(k)

Next ==
  \/ \E k \in Caller : (\E kind \in Kind : Begin(k, kind)) \/ Step(k) \/ Drop(k)
  \/ Elapse
  \/ ToggleGateway

Spec == Init /\ [][Next]_vars

\* tokio runs every task that is ready, every HTTP request and every backoff is
\* bounded by a timeout, and the clock goes on.
Fairness == (\A k \in Caller : WF_vars(Step(k))) /\ WF_vars(Elapse)

FairSpec == Spec /\ Fairness

-----------------------------------------------------------------------------

\* Types of the state: the breaker, the calls under way and the gateway.
TypeOK ==
  /\ circuit \in [failures : 0..FailureThreshold, open : BOOLEAN]
  /\ \A k \in Caller :
       /\ call[k] \in [step : {"none", "check", "sent", "record", "done", "failed", "unread"},
                       kind : Kind, raw : BOOLEAN, attempt : Nat, outcome : Outcome]
       /\ call[k].attempt \in 1..Attempts[call[k].kind]
  /\ healthy \in BOOLEAN

\* Every call ends (or is dropped), whatever the gateway answers, through all its
\* retries (get_json_retry, get_bytes_retry, file_put_public), the fall-back and
\* the circuit that other calls open and close meanwhile.
CallsEnd ==
  \A k \in Caller :
    call[k].step = "check" ~> call[k].step \in {"none", "done", "failed", "unread"}

\* Once the gateway answers for good, the circuit closes for good and calls
\* succeed again, although results of calls that were sent before (record_result)
\* may still open it late.
Recovers == <>[]healthy => <>[](~circuit.open /\ \A k \in Caller : call[k].step # "failed")

=============================================================================
