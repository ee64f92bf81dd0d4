------------------------ MODULE AsyncTCPClientProofs ------------------------
(***************************************************************************)
(* Proofs about AsyncTCPClient, for any number of requests, identifiers,   *)
(* callers and pool threads: its typing and the two invariants that relate *)
(* the map of active sessions to what each session does.                   *)
(***************************************************************************)
EXTENDS AsyncTCPClient, TLAPS

(***************************************************************************)
(* The inductive invariant.                                                *)
(***************************************************************************)
\* What a session does agrees with the stage it has reached: before the first
\* operation and after the report nothing is in flight; in between there is one
\* operation or one handler, never both.
InStep(s) ==
  /\ stage[s] \in {"new", "registered", "done"} => op[s] = "none" /\ handler[s] = "none"
  /\ stage[s] \in {"connect", "write", "read"} => (op[s] = "none" <=> handler[s] # "none")
  /\ reported[s] = <<>> <=> stage[s] # "done"
  /\ Len(reported[s]) \in 0 .. 1

\* The map leads from an identifier to a request in progress, and to it if no
\* other request has its identifier.
Mapped(s) ==
  /\ Active(s) => InProgress(s)
  /\ InProgress(s) /\ Alone(s) => Active(s)

\* A caller that has found a session holds the map's mutex, so the session is
\* still in the map when the caller sets its flag.
Held(k) ==
  /\ target[k] # None => sessionsGuard = k
  /\ sessionsGuard = k => target[k] \in Sessions /\ Active(target[k])

\* No cancelled request has been reported as a success.
Honoured(s) == cancelled[s] => \A i \in DOMAIN reported[s] : reported[s][i] # "ok"

IInv ==
  /\ TypeOK
  /\ \A s \in Sessions : InStep(s) /\ Mapped(s) /\ Honoured(s)
  /\ \A k \in Callers : Held(k)

(***************************************************************************)
(* Each action preserves it.                                               *)
(***************************************************************************)
\* A request that enters the map takes the place of another one with its id:
\* that one is no longer alone.
LEMMA RegisterStep ==
  ASSUME IInv, NEW s \in Sessions, Register(s)
  PROVE  IInv'
<1> USE ClientAssumption DEF IInv
<1>1. TypeOK'
  BY DEF TypeOK, Register, Stage
<1>2. ASSUME NEW r \in Sessions PROVE InStep(r)'
  BY DEF InStep, Register, TypeOK
<1>3. ASSUME NEW r \in Sessions PROVE Mapped(r)'
  BY DEF Mapped, Register, TypeOK, Active, InProgress, Alone, InStep
<1>4. ASSUME NEW r \in Sessions PROVE Honoured(r)'
  BY DEF Honoured, Register, TypeOK
<1>5. ASSUME NEW k \in Callers PROVE Held(k)'
  BY DEF Held, Register, TypeOK, Active
<1> QED BY <1>1, <1>2, <1>3, <1>4, <1>5

LEMMA StartConnectStep ==
  ASSUME IInv, NEW s \in Sessions, StartConnect(s)
  PROVE  IInv'
<1> USE ClientAssumption DEF IInv
<1>1. TypeOK'
  BY DEF TypeOK, StartConnect, Stage, OpState
<1>2. ASSUME NEW r \in Sessions PROVE InStep(r)'
  BY DEF InStep, StartConnect, TypeOK, Stage
<1>3. ASSUME NEW r \in Sessions PROVE Mapped(r)'
  BY DEF Mapped, StartConnect, TypeOK, Active, InProgress, Alone, Stage
<1>4. ASSUME NEW r \in Sessions PROVE Honoured(r)'
  BY DEF Honoured, StartConnect
<1>5. ASSUME NEW k \in Callers PROVE Held(k)'
  BY DEF Held, StartConnect, Active
<1> QED BY <1>1, <1>2, <1>3, <1>4, <1>5

LEMMA AnswerStep ==
  ASSUME IInv, NEW s \in Sessions, Answer(s)
  PROVE  IInv'
<1> USE ClientAssumption DEF IInv
<1>1. PICK e \in {"ok", "failed"} : op' = [op EXCEPT ![s] = e]
  BY DEF Answer
<1>2. TypeOK'
  BY <1>1 DEF TypeOK, Answer, OpState
<1>3. ASSUME NEW r \in Sessions PROVE InStep(r)'
  BY <1>1 DEF InStep, Answer, TypeOK
<1>4. ASSUME NEW r \in Sessions PROVE Mapped(r)' /\ Honoured(r)'
  BY DEF Mapped, Honoured, Answer, Active, InProgress, Alone
<1>5. ASSUME NEW k \in Callers PROVE Held(k)'
  BY DEF Held, Answer, Active
<1> QED BY <1>2, <1>3, <1>4, <1>5

\* Between two parts of a composed operation nothing but op changes.
LEMMA PartSteps ==
  ASSUME IInv, NEW s \in Sessions, Part(s) \/ Continue(s)
  PROVE  IInv'
<1> USE ClientAssumption DEF IInv, Part, Continue
<1>1. TypeOK'
  BY DEF TypeOK, OpState
<1>2. ASSUME NEW r \in Sessions PROVE InStep(r)'
  BY DEF InStep, TypeOK
<1>3. ASSUME NEW r \in Sessions PROVE Mapped(r)' /\ Honoured(r)'
  BY DEF Mapped, Honoured, Active, InProgress, Alone
<1>4. ASSUME NEW k \in Callers PROVE Held(k)'
  BY DEF Held, Active
<1> QED BY <1>1, <1>2, <1>3, <1>4

\* A handler up to the point where it starts the next operation or completes:
\* it stays in progress and does not touch the map.
LEMMA HandlerSteps ==
  ASSUME IInv, NEW s \in Sessions,
         BeginHandler(s) \/ LockCancelGuard(s) \/ StopHere(s) \/ GoOn(s)
  PROVE  IInv'
<1> USE ClientAssumption DEF IInv
<1> USE DEF BeginHandler, LockCancelGuard, StopHere, GoOn
<1>1. TypeOK'
  BY DEF TypeOK, Stage, OpState, HandlerState, Code
<1>2. ASSUME NEW r \in Sessions PROVE InStep(r)'
  BY DEF InStep, TypeOK, Stage, Code
<1>3. /\ stage[s] \in {"connect", "write", "read"} /\ handler[s] # "report"
      /\ UNCHANGED <<id, active>>
  BY DEF InStep, TypeOK, Stage, Code
<1>4. /\ stage'[s] \in {"connect", "write", "read"} /\ handler'[s] # "report"
      /\ \A r \in Sessions \ {s} : stage'[r] = stage[r] /\ handler'[r] = handler[r]
  BY <1>3 DEF TypeOK
<1>5. ASSUME NEW r \in Sessions PROVE Mapped(r)'
  BY <1>3, <1>4 DEF Mapped, Active, InProgress, Alone
<1>6. ASSUME NEW r \in Sessions PROVE Honoured(r)'
  BY DEF Honoured
<1>7. ASSUME NEW k \in Callers PROVE Held(k)'
  BY DEF Held, Active
<1> QED BY <1>1, <1>2, <1>5, <1>6, <1>7

\* The entry a session erases may be another's, of the same id: neither is
\* alone then.  No caller holds the map's mutex, so none has found either.
LEMMA EraseStep ==
  ASSUME IInv, NEW s \in Sessions, Erase(s)
  PROVE  IInv'
<1> USE ClientAssumption DEF IInv
<1>1. TypeOK'
  BY DEF TypeOK, Erase, HandlerState
<1>2. ASSUME NEW r \in Sessions PROVE InStep(r)'
  BY DEF InStep, Erase, TypeOK, Stage
<1>3. ASSUME NEW r \in Sessions PROVE Mapped(r)'
  BY DEF Mapped, Erase, TypeOK, Active, InProgress, Alone, InStep, Stage
<1>4. ASSUME NEW r \in Sessions PROVE Honoured(r)'
  BY DEF Honoured, Erase
<1>5. ASSUME NEW k \in Callers PROVE Held(k)'
  BY DEF Held, Erase, TypeOK, Active
<1> QED BY <1>1, <1>2, <1>3, <1>4, <1>5

LEMMA ReportStep ==
  ASSUME IInv, NEW s \in Sessions, Report(s)
  PROVE  IInv'
<1> USE ClientAssumption DEF IInv
<1>1. stage[s] \in {"connect", "write", "read"} /\ reported[s] = <<>> /\ ~Active(s)
  BY DEF TypeOK, Report, InStep, Mapped, InProgress, Stage
<1> DEFINE e == IF code[s] = "ok" /\ cancelled[s] THEN "aborted" ELSE code[s]
<1>2. /\ e \in Code /\ (cancelled[s] => e # "ok")
      /\ reported' = [reported EXCEPT ![s] = <<e>>]
  <2>1. e \in Code /\ (cancelled[s] => e # "ok")
    BY DEF TypeOK, Code
  <2>2. Append(reported[s], e) = <<e>>
    BY <1>1
  <2>3. reported \in [Sessions -> Seq(Code)]
    BY DEF TypeOK
  <2> QED BY <2>1, <2>2, <2>3 DEF Report
<1> HIDE DEF e
<1>3. TypeOK'
  <2>1. reported' \in [Sessions -> Seq(Code)]
    BY <1>2 DEF TypeOK
  <2> QED BY <2>1 DEF TypeOK, Report, Stage, HandlerState
<1>4. ASSUME NEW r \in Sessions PROVE InStep(r)'
  BY <1>1, <1>2 DEF InStep, Report, TypeOK, Stage
<1>5. ASSUME NEW r \in Sessions PROVE Mapped(r)'
  BY <1>1 DEF Mapped, Report, TypeOK, Active, InProgress, Alone, Stage
<1>6. ASSUME NEW r \in Sessions PROVE Honoured(r)'
  BY <1>2 DEF Honoured, Report, TypeOK
<1>7. ASSUME NEW k \in Callers PROVE Held(k)'
  BY DEF Held, Report, Active
<1> QED BY <1>3, <1>4, <1>5, <1>6, <1>7

\* Finding a session takes the map's mutex.
LEMMA FindStep ==
  ASSUME IInv, NEW k \in Callers, NEW s \in Sessions, Find(k, s)
  PROVE  IInv'
<1> USE ClientAssumption DEF IInv
<1>1. TypeOK'
  BY DEF TypeOK, Find
<1>2. ASSUME NEW r \in Sessions PROVE InStep(r)' /\ Mapped(r)' /\ Honoured(r)'
  BY DEF InStep, Mapped, Honoured, Find, Active, InProgress, Alone
<1>3. ASSUME NEW j \in Callers PROVE Held(j)'
  BY DEF Held, Find, TypeOK, Active
<1> QED BY <1>1, <1>2, <1>3

\* The session whose flag is set is in the map, hence not reported yet.
LEMMA MarkStep ==
  ASSUME IInv, NEW k \in Callers, Mark(k)
  PROVE  IInv'
<1> USE ClientAssumption DEF IInv
<1> DEFINE s == target[k]
<1>1. s \in Sessions /\ InProgress(s) /\ reported[s] = <<>>
  BY DEF Mark, Held, Mapped, InStep, InProgress
<1>2. TypeOK'
  BY <1>1 DEF TypeOK, Mark, OpState
<1>3. ASSUME NEW r \in Sessions PROVE InStep(r)'
  BY <1>1 DEF InStep, Mark, TypeOK
<1>4. ASSUME NEW r \in Sessions PROVE Mapped(r)'
  BY DEF Mapped, Mark, Active, InProgress, Alone
<1>5. ASSUME NEW r \in Sessions PROVE Honoured(r)'
  BY <1>1 DEF Honoured, Mark, TypeOK
<1>6. ASSUME NEW j \in Callers PROVE Held(j)'
  BY DEF Held, Mark, TypeOK, Active
<1> QED BY <1>2, <1>3, <1>4, <1>5, <1>6

LEMMA InitInv == Init => IInv
<1> SUFFICES ASSUME Init PROVE IInv
  OBVIOUS
<1> USE ClientAssumption DEF Init
<1>1. TypeOK
  <2>1. /\ stage \in [Sessions -> Stage] /\ op \in [Sessions -> OpState]
        /\ handler \in [Sessions -> HandlerState] /\ code \in [Sessions -> Code]
    BY DEF Stage, OpState, HandlerState, Code
  <2>2. reported \in [Sessions -> Seq(Code)]
    OBVIOUS
  <2>3. cancels \in [Sessions -> 0 .. MaxCancels]
    OBVIOUS
  <2> QED BY <2>1, <2>2, <2>3 DEF TypeOK
<1>2. ASSUME NEW s \in Sessions PROVE InStep(s) /\ Mapped(s) /\ Honoured(s)
  BY DEF InStep, Mapped, Honoured, Active, InProgress
<1>3. ASSUME NEW k \in Callers PROVE Held(k)
  BY DEF Held
<1> QED BY <1>1, <1>2, <1>3 DEF IInv

LEMMA NextInv == IInv /\ [Next]_vars => IInv'
<1> SUFFICES ASSUME IInv, [Next]_vars PROVE IInv'
  OBVIOUS
<1>1. CASE UNCHANGED vars
  BY <1>1 DEF vars, IInv, TypeOK, InStep, Mapped, Held, Honoured, Active, InProgress, Alone
<1>2. CASE Close
  BY <1>2 DEF Close, IInv, TypeOK, InStep, Mapped, Held, Honoured, Active, InProgress, Alone
<1>3. ASSUME NEW s \in Sessions, Register(s) PROVE IInv'
  BY <1>3, RegisterStep
<1>4. ASSUME NEW s \in Sessions, StartConnect(s) \/ Answer(s) \/ Part(s) PROVE IInv'
  BY <1>4, StartConnectStep, AnswerStep, PartSteps
<1>5. ASSUME NEW s \in Sessions, HandlerStep(s) PROVE IInv'
  BY <1>5, PartSteps, HandlerSteps, EraseStep, ReportStep DEF HandlerStep
<1>6. ASSUME NEW k \in Callers, Mark(k) PROVE IInv'
  BY <1>6, MarkStep
<1>7. ASSUME NEW k \in Callers, NEW s \in Sessions, Find(k, s) PROVE IInv'
  BY <1>7, FindStep
<1> QED BY <1>1, <1>2, <1>3, <1>4, <1>5, <1>6, <1>7 DEF Next

LEMMA Invariance == Spec => []IInv
  BY InitInv, NextInv, PTL DEF Spec

(***************************************************************************)
(* The theorems.                                                           *)
(***************************************************************************)
\* Every variable of the client keeps its type.
THEOREM TypeCorrect == Spec => []TypeOK
<1>1. IInv => TypeOK
  BY DEF IInv
<1> QED BY <1>1, Invariance, PTL

\* The map holds requests in progress only; one that shares its id with no
\* other can be found until it completes; a request always has exactly one
\* operation or handler under way until it is reported, and is reported once.
THEOREM RequestsCancellable == Spec => []Cancellable
<1>1. IInv => Cancellable
  <2> SUFFICES ASSUME IInv, NEW s \in Sessions
               PROVE  /\ Active(s) => InProgress(s)
                      /\ InProgress(s) /\ Alone(s) => Active(s)
                      /\ stage[s] \in {"connect", "write", "read"} => InFlight(s)
                      /\ Len(reported[s]) = IF stage[s] = "done" THEN 1 ELSE 0
    BY DEF Cancellable
  <2>1. reported[s] \in Seq(Code) /\ InStep(s) /\ Mapped(s)
    BY DEF IInv, TypeOK
  <2>2. Len(reported[s]) = IF stage[s] = "done" THEN 1 ELSE 0
    <3>1. CASE stage[s] = "done"
      BY <2>1, <3>1 DEF InStep
    <3>2. CASE stage[s] # "done"
      BY <2>1, <3>2 DEF InStep
    <3> QED BY <3>1, <3>2
  <2> QED BY <2>1, <2>2 DEF Mapped, InStep, InFlight
<1> QED BY <1>1, Invariance, PTL

\* onRequestComplete reads m_was_cancelled without its mutex (lines 218-221):
\* no interleaving reports a cancelled request as a success.
THEOREM CancelledNeverSucceeds == Spec => []CancelHonoured
<1>1. IInv => CancelHonoured
  BY DEF IInv, Honoured, CancelHonoured
<1> QED BY <1>1, Invariance, PTL
=============================================================================
