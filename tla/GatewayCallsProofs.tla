------------------------- MODULE GatewayCallsProofs -------------------------
(***************************************************************************)
(* Theorems about GatewayCalls, for any number of callers, attempts and    *)
(* failures: the state keeps its shape, and every step of a call brings it *)
(* closer to its end, whatever other calls do to the circuit.              *)
(***************************************************************************)
EXTENDS GatewayCalls, TLAPS

Over == {"none", "done", "failed", "unread"}
CallType == [step : Over \cup {"check", "sent", "record"}, kind : Kind, raw : BOOLEAN,
             attempt : Nat, outcome : Outcome]

\* A call under way.
CallOK(c) == c \in CallType /\ c.attempt \in 1..Attempts[c.kind]

\* `call` is a function: TypeOK leaves its domain open.
IInv ==
  /\ circuit \in [failures : 0..FailureThreshold, open : BOOLEAN]
  /\ call \in [Caller -> CallType]
  /\ \A k \in Caller : CallOK(call[k])
  /\ healthy \in BOOLEAN

\* Steps that a call has left at most: three for each attempt, and all attempts once
\* more after the raw endpoint.
Position(c) == CASE c.step = "check" -> 3 [] c.step = "sent" -> 2 [] OTHER -> 1
Left(c) ==
  IF c.step \in Over THEN 0
  ELSE Position(c) + 3 * (Attempts[c.kind] - c.attempt) + (IF c.raw THEN 3 * Attempts[c.kind] ELSE 0)

\* No step of a call under way, its own or another caller's, takes it back.
Closer == [][\A k \in Caller :
               call[k].step \notin Over /\ call'[k] # call[k] => Left(call'[k]) < Left(call[k])]_vars

-----------------------------------------------------------------------------

\* The call of a caller without one, and of one whose call is over.
LEMMA EndedOK ==
  ASSUME NEW how \in Over
  PROVE  CallOK(Ended(how)) /\ Ended(how).step = how
<1> DEFINE d == Ended(how)
<1>1. NoCall \in CallType /\ NoCall.attempt = 1
  BY DEF CallType, NoCall, Kind, Outcome, Over
<1>2. d \in CallType /\ d.step = how /\ d.attempt = 1
  BY <1>1 DEF CallType, Ended
<1> HIDE DEF d
<1>3. Attempts[d.kind] \in Nat \ {0}
  BY <1>2, CallAssumption DEF CallType
<1>4. QED
  BY <1>2, <1>3 DEF CallOK, d

\* A call that is over has no step left, any other has one.
LEMMA LeftBounds ==
  ASSUME NEW c, CallOK(c)
  PROVE  /\ Left(c) \in Nat
         /\ c.step \in Over <=> Left(c) = 0
<1> DEFINE n == Attempts[c.kind]
<1>1. n \in Nat /\ c.attempt \in 1..n
  BY CallAssumption DEF CallOK, CallType
<1>2. 3 * (n - c.attempt) \in Nat /\ 3 * n \in Nat
  BY <1>1
<1>3. Position(c) \in {1, 2, 3}
  BY DEF Position
<1> DEFINE rest == 3 * (n - c.attempt) + (IF c.raw THEN 3 * n ELSE 0)
<1>4. rest \in Nat
  BY <1>2
<1>5. Left(c) = IF c.step \in Over THEN 0 ELSE Position(c) + rest
  BY <1>1, <1>2, <1>3 DEF Left
<1> HIDE DEF rest
<1> QED BY <1>3, <1>4, <1>5

\* What a call does after its outcome was recorded: it ends, or goes on closer to its end.
LEMMA ResumedOK ==
  ASSUME NEW c, CallOK(c), c.step \in {"sent", "record"}, NEW o \in Outcome
  PROVE  CallOK(Resumed(c, o)) /\ Left(Resumed(c, o)) < Left(c)
<1>1. c \in CallType /\ Attempts[c.kind] \in Nat /\ c.attempt \in 1..Attempts[c.kind]
  BY CallAssumption DEF CallOK, CallType
<1>2. Left(c) \in Nat /\ Left(c) > 0
  BY LeftBounds DEF Over
<1>3. CASE \E how \in {"done", "failed"} : Resumed(c, o) = Ended(how)
  <2>1. PICK how \in {"done", "failed"} : Resumed(c, o) = Ended(how)
    BY <1>3
  <2>2. how \in Over
    BY DEF Over
  <2>3. CallOK(Ended(how)) /\ Left(Ended(how)) = 0
    BY <2>2, EndedOK, LeftBounds
  <2> QED BY <1>2, <2>1, <2>3
<1>4. CASE /\ Retries(c)
           /\ Resumed(c, o) = [c EXCEPT !.step = "check", !.attempt = @ + 1, !.outcome = "ok"]
  <2> DEFINE d == Resumed(c, o)
  <2>1. c.attempt < Attempts[c.kind] /\ c.attempt + 1 \in Nat
    BY <1>1, <1>4 DEF Retries, GetBytesRetry, GetJsonRetry, FilePutPublic
  <2>2. /\ d \in CallType /\ d.step = "check" /\ d.attempt = c.attempt + 1
        /\ d.kind = c.kind /\ d.raw = c.raw
    BY <1>1, <1>4, <2>1 DEF CallType, Outcome
  <2> HIDE DEF d
  <2>3. CallOK(d)
    BY <1>1, <2>1, <2>2 DEF CallOK
  <2>4. Left(d) < Left(c)
    BY <1>1, <2>1, <2>2 DEF Left, Position, Over
  <2> QED BY <2>3, <2>4 DEF d
<1>5. CASE c.raw /\ Resumed(c, o) = FallenBack(c)
  <2> DEFINE d == FallenBack(c)
  <2>1. /\ d \in CallType /\ d.step = "check" /\ d.attempt = 1 /\ d.kind = c.kind /\ ~d.raw
    BY <1>1 DEF CallType, FallenBack
  <2> HIDE DEF d
  <2>2. CallOK(d)
    BY <1>1, <2>1 DEF CallOK
  <2>3. Left(d) < Left(c)
    BY <1>1, <1>5, <2>1 DEF Left, Position, Over
  <2> QED BY <1>5, <2>2, <2>3 DEF d
<1> QED BY <1>3, <1>4, <1>5 DEF Resumed

\* The call of one caller changes.
LEMMA CallChanges ==
  ASSUME IInv, NEW k \in Caller, NEW d, CallOK(d), call' = [call EXCEPT ![k] = d],
         circuit' \in [failures : 0..FailureThreshold, open : BOOLEAN], healthy' \in BOOLEAN,
         call[k].step \in Over \/ Left(d) < Left(call[k])
  PROVE  /\ IInv'
         /\ \A j \in Caller : call[j].step \notin Over /\ call'[j] # call[j]
                                => Left(call'[j]) < Left(call[j])
<1>1. call'[k] = d /\ \A j \in Caller : j # k => call'[j] = call[j]
  BY DEF IInv
<1>2. call' \in [Caller -> CallType]
  BY DEF IInv, CallOK
<1> QED BY <1>1, <1>2 DEF IInv

\* No call is under way.
LEMMA InitIInv == Init => IInv
<1> SUFFICES ASSUME Init PROVE IInv
  OBVIOUS
<1>1. CallOK(NoCall)
  BY CallAssumption DEF CallOK, CallType, NoCall, Kind, Outcome, Over
<1>2. call \in [Caller -> CallType] /\ \A k \in Caller : CallOK(call[k])
  BY <1>1 DEF Init, CallOK
<1> QED BY <1>2, CallAssumption DEF Init, IInv

\* Every step keeps the shape of the state, and brings the calls it changes closer to
\* their end.
LEMMA NextIInv ==
  ASSUME IInv, [Next]_vars
  PROVE  /\ IInv'
         /\ \A j \in Caller : call[j].step \notin Over /\ call'[j] # call[j]
                                => Left(call'[j]) < Left(call[j])
<1> USE CallAssumption
<1>0. /\ \A k \in Caller : CallOK(call[k]) /\ call[k] \in CallType
      /\ circuit \in [failures : 0..FailureThreshold, open : BOOLEAN] /\ healthy \in BOOLEAN
  BY DEF IInv
<1>1. ASSUME NEW k \in Caller, NEW kind \in Kind, Begin(k, kind)
      PROVE  IInv' /\ \A j \in Caller : call[j].step \notin Over /\ call'[j] # call[j]
                                          => Left(call'[j]) < Left(call[j])
  <2> DEFINE d == [NoCall EXCEPT !.step = "check", !.kind = kind, !.raw = kind = "download"]
  <2>1. CallOK(d)
    <3>1. NoCall \in CallType /\ NoCall.attempt = 1
      BY DEF CallType, NoCall, Kind, Outcome, Over
    <3>2. d \in CallType /\ d.kind = kind /\ d.attempt = 1
      BY <3>1 DEF CallType
    <3> HIDE DEF d
    <3> QED BY <3>2 DEF CallOK
  <2>2. call' = [call EXCEPT ![k] = d] /\ UNCHANGED <<circuit, healthy>> /\ call[k] = NoCall
    BY <1>1 DEF Begin
  <2>3. call[k].step \in Over
    BY <2>2 DEF NoCall, Over
  <2> HIDE DEF d
  <2> QED BY <1>0, <2>1, <2>2, <2>3, CallChanges
<1>2. ASSUME NEW k \in Caller, NEW how \in Over, call' = [call EXCEPT ![k] = Ended(how)],
             UNCHANGED <<circuit, healthy>>
      PROVE  IInv' /\ \A j \in Caller : call[j].step \notin Over /\ call'[j] # call[j]
                                          => Left(call'[j]) < Left(call[j])
  <2>1. CallOK(Ended(how)) /\ Left(Ended(how)) = 0
    BY EndedOK, LeftBounds
  <2>2. call[k].step \in Over \/ Left(Ended(how)) < Left(call[k])
    BY <1>0, <2>1, LeftBounds
  <2> QED BY <1>0, <1>2, <2>1, <2>2, CallChanges
<1>3. ASSUME NEW k \in Caller, Check(k)
      PROVE  IInv' /\ \A j \in Caller : call[j].step \notin Over /\ call'[j] # call[j]
                                          => Left(call'[j]) < Left(call[j])
  <2>1. CASE circuit.open
    <3>1. call' = [call EXCEPT ![k] = Ended("failed")] /\ UNCHANGED <<circuit, healthy>>
      BY <1>3, <2>1 DEF Check
    <3>2. "failed" \in Over
      BY DEF Over
    <3> QED BY <1>2, <3>1, <3>2
  <2>2. CASE ~circuit.open
    <3> DEFINE d == [call[k] EXCEPT !.step = "sent"]
    <3>1. /\ call' = [call EXCEPT ![k] = d] /\ UNCHANGED <<circuit, healthy>>
          /\ call[k].step = "check"
      BY <1>3, <2>2 DEF Check
    <3>2. /\ d \in CallType /\ d.step = "sent" /\ d.kind = call[k].kind /\ d.raw = call[k].raw
          /\ d.attempt = call[k].attempt
      BY <1>0 DEF CallType
    <3> HIDE DEF d
    <3>3. CallOK(d) /\ Left(d) < Left(call[k])
      BY <1>0, <3>1, <3>2 DEF CallOK, CallType, Left, Position, Over
    <3> QED BY <1>0, <3>1, <3>3, CallChanges
  <2> QED BY <2>1, <2>2
<1>4. ASSUME NEW k \in Caller, FileMissing(k) \/ Take(k) \/ Drop(k)
      PROVE  IInv' /\ \A j \in Caller : call[j].step \notin Over /\ call'[j] # call[j]
                                          => Left(call'[j]) < Left(call[j])
  <2>1. Ended("none") = NoCall /\ "none" \in Over /\ "unread" \in Over
    BY DEF Ended, NoCall, Over
  <2> QED BY <1>2, <1>4, <2>1 DEF FileMissing, Take, Drop
<1>5. ASSUME NEW k \in Caller, NEW o \in Outcome, Answer(k, o)
      PROVE  IInv' /\ \A j \in Caller : call[j].step \notin Over /\ call'[j] # call[j]
                                          => Left(call'[j]) < Left(call[j])
  <2>1. /\ call[k].step = "sent" /\ UNCHANGED healthy
        /\ circuit' = [circuit EXCEPT !.failures = Counted(circuit.failures, o)]
    BY <1>5 DEF Answer
  <2>2. Counted(circuit.failures, o) \in 0..FailureThreshold
    BY <1>0 DEF Counted
  <2>3. circuit' \in [failures : 0..FailureThreshold, open : BOOLEAN]
    BY <1>0, <2>1, <2>2
  <2>4. CASE StoresOpenedUntil(circuit'.failures, o)
    <3> DEFINE d == [call[k] EXCEPT !.step = "record", !.outcome = o]
    <3>1. call' = [call EXCEPT ![k] = d]
      BY <1>5, <2>4 DEF Answer
    <3>2. /\ d \in CallType /\ d.step = "record" /\ d.kind = call[k].kind
          /\ d.raw = call[k].raw /\ d.attempt = call[k].attempt
      BY <1>0 DEF CallType
    <3> HIDE DEF d
    <3>3. CallOK(d) /\ Left(d) < Left(call[k])
      BY <1>0, <2>1, <3>2 DEF CallOK, CallType, Left, Position, Over
    <3> QED BY <1>0, <2>1, <2>3, <3>1, <3>3, CallChanges
  <2>5. CASE ~StoresOpenedUntil(circuit'.failures, o)
    <3>1. call' = [call EXCEPT ![k] = Resumed(call[k], o)]
      BY <1>5, <2>5 DEF Answer
    <3>2. CallOK(Resumed(call[k], o)) /\ Left(Resumed(call[k], o)) < Left(call[k])
      BY <1>0, <2>1, ResumedOK
    <3> QED BY <1>0, <2>1, <2>3, <3>1, <3>2, CallChanges
  <2> QED BY <2>4, <2>5
<1>6. ASSUME NEW k \in Caller, Record(k)
      PROVE  IInv' /\ \A j \in Caller : call[j].step \notin Over /\ call'[j] # call[j]
                                          => Left(call'[j]) < Left(call[j])
  <2>1. /\ call[k].step = "record" /\ UNCHANGED healthy
        /\ circuit' = [circuit EXCEPT !.open = call[k].outcome = "retryable"]
        /\ call' = [call EXCEPT ![k] = Resumed(call[k], call[k].outcome)]
    BY <1>6 DEF Record
  <2>2. circuit' \in [failures : 0..FailureThreshold, open : BOOLEAN]
    BY <1>0, <2>1
  <2>3. call[k].outcome \in Outcome
    BY <1>0 DEF CallType
  <2>4. /\ CallOK(Resumed(call[k], call[k].outcome))
        /\ Left(Resumed(call[k], call[k].outcome)) < Left(call[k])
    BY <1>0, <2>1, <2>3, ResumedOK
  <2> QED BY <1>0, <2>1, <2>2, <2>4, CallChanges
<1>7. CASE Elapse \/ ToggleGateway \/ UNCHANGED vars
  BY <1>0, <1>7 DEF Elapse, ToggleGateway, vars, IInv
<1> QED BY <1>1, <1>3, <1>4, <1>5, <1>6, <1>7 DEF Next, Step

\* The count of failures never passes the threshold, and no call makes more attempts than
\* its loop allows (CircuitBreaker, get_bytes_retry, get_json_retry, file_put_public).
THEOREM CallTypes == Spec => []TypeOK
<1>1. Spec => []IInv
  BY InitIInv, NextIInv, PTL DEF Spec
<1>2. IInv => TypeOK
  BY DEF IInv, CallOK, CallType, TypeOK, Over
<1> QED BY <1>1, <1>2, PTL

\* Every step of a call brings it closer to its end: the retries and the fall-back of
\* data_get_public end after twice the attempts at most, with any results, any circuit
\* and any other callers.  With the fairness of its steps that is why every call ends.
THEOREM CallsGetCloser == Spec => Closer
<1>1. Spec => []IInv
  BY InitIInv, NextIInv, PTL DEF Spec
<1>2. IInv /\ [Next]_vars =>
        \A k \in Caller : call[k].step \notin Over /\ call'[k] # call[k]
                            => Left(call'[k]) < Left(call[k])
  BY NextIInv
<1> QED BY <1>1, <1>2, PTL DEF Spec, Closer
=============================================================================
