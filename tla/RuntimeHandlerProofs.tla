------------------------- MODULE RuntimeHandlerProofs ------------------------
(***************************************************************************)
(* Proofs about RuntimeHandler for every set of cases and any number of    *)
(* them: no request that is at fault reaches a worker, and the loop over   *)
(* the cases does what the README of the program says.  LoopInv says how   *)
(* far the loop has come.                                                  *)
(***************************************************************************)
EXTENDS RuntimeHandler, SequenceTheorems, WellFoundedInduction, TLAPS

Problems ==
    {"unauthorised", "unreadable", "method", "command", "empty", "unparsable",
     "unconvertible", "invalid"}
Codes == {400, 401, 405, 422, 500}
Results ==
    [kind : {"none", "result", "error", "empty", "ok"}, correct : BOOLEAN,
     feedback : Seq({"case", "evaluation"} \X Nat), matched : 0 .. MaxCases,
     warnings : SUBSET Nat]

\* TypeOK, which is inductive only if a case that is tried exists.
TypeInv ==
    /\ TypeOK
    /\ result \in Results
    /\ pc \in {"evaluatingCase", "matched"} => index <= Len(request.cases)

\* What has been sent and found when the loop is at case index.  Until a case
\* matches, the evaluation is as the worker gave it.
LoopInv ==
    /\ pc = "received" => sent = <<>>
    /\ pc \in {"evaluating", "cases", "evaluatingCase", "matched"} => Len(sent) > 0
    /\ pc \in {"received", "evaluating"} =>
        /\ index = 1 /\ result.matched = 0 /\ result.kind = "none"
        /\ \A i \in DOMAIN sent : sent[i] = 0
    /\ pc \in {"cases", "evaluatingCase", "matched"} =>
        /\ result.kind = "result" /\ ~result.correct /\ result.matched = 0
        /\ result.feedback = << <<"evaluation", 0>> >>
    /\ \A i \in DOMAIN sent : sent[i] <= index
    /\ pc \in {"received", "evaluating", "cases"} =>
        \A i \in DOMAIN sent : sent[i] < index
    /\ \A j \in DOMAIN verdict :
        /\ j > index => verdict[j] = "none"
        /\ j = index => verdict[j] \in {"none", "correct"}
        /\ verdict[j] = "correct" => j = index /\ pc \in {"matched", "answered", "crashed"}
    /\ pc = "matched" => verdict[index] = "correct"
    /\ result.warnings = {i \in DOMAIN verdict : verdict[i] = "failed"}

-----------------------------------------------------------------------------
(* Lemmas on the operators of the model.                                    *)

\* A set of naturals that is not empty has a minimum, which Min is.
LEMMA MinLemma ==
    ASSUME NEW S \in SUBSET Nat, S # {}
    PROVE  Min(S) \in S
<1> DEFINE Less == {p \in Nat \X Nat : p[1] < p[2]}
<1>1. IsWellFoundedOn(Less, Nat)
  BY NatLessThanWellFounded, Zenon DEF OpToRel
<1> HIDE DEF Less
<1>2. PICK x \in S : \A y \in S : ~(<<y, x>> \in Less)
  BY <1>1, WFMin
<1>3. \A y \in S : x <= y
  <2> SUFFICES ASSUME NEW y \in S PROVE x <= y
    OBVIOUS
  <2>1. x \in Nat /\ y \in Nat /\ <<y, x>> \in Nat \X Nat
    OBVIOUS
  <2>2. ~(<<y, x>>[1] < <<y, x>>[2])
    BY <1>2, <2>1 DEF Less
  <2> QED
    BY <2>1, <2>2
<1> QED
  BY <1>3 DEF Min

\* Every check has the code of an error.
LEMMA CheckCodes ==
    ASSUME NEW r \in {"legacy", "evaluate", "health", "alive"}
    PROVE  Checks[r] \in Seq(Problems \X Codes)
<1> DEFINE S == Problems \X Codes
<1>1. \A p \in Problems, c \in Codes : <<p, c>> \in S
  OBVIOUS
<1>2. {400, 401, 405, 422, 500} \subseteq Codes /\ FailureStatus("request") = 422
  BY DEF FailureStatus, Codes
<1> HIDE DEF S
<1>3. CommandHandlerChecks \in Seq(S)
  BY <1>1, <1>2 DEF CommandHandlerChecks, Problems
<1>4. RuntimeChecks \in Seq(S)
  BY <1>1, <1>2 DEF RuntimeChecks, Problems
<1>5. EvaluateChecks \in Seq(S)
  BY <1>1, <1>2 DEF EvaluateChecks, Problems
<1>6. HealthChecks \in Seq(S)
  BY <1>1, <1>2 DEF HealthChecks, Problems
<1>7. CommandHandlerChecks \o RuntimeChecks \in Seq(S) /\ <<>> \in Seq(S)
  BY <1>3, <1>4, ConcatProperties
<1>8. Checks["legacy"] \in Seq(S) /\ Checks["evaluate"] \in Seq(S)
      /\ Checks["health"] \in Seq(S) /\ Checks["alive"] \in Seq(S)
  BY <1>5, <1>6, <1>7 DEF Checks
<1> QED
  BY <1>8 DEF S

\* What every request is.
LEMMA RequestShape ==
    ASSUME NEW r \in Requests
    PROVE  /\ r.route \in {"legacy", "evaluate", "health", "alive"}
           /\ r.cases \in Seq(Cases) /\ Len(r.cases) <= MaxCases
           /\ r.problems \subseteq ProblemsOf(r.route)
<1>1. ASSUME NEW path \in Paths
      PROVE  Route(path) \in {"legacy", "evaluate", "health", "alive"}
  BY <1>1 DEF Paths, Route
<1>2. <<>> \in Seq(Cases) /\ Len(<<>>) <= MaxCases
  BY CasesAssumption
<1>3. ASSUME NEW s \in SeqOf(Cases, MaxCases)
      PROVE  s \in Seq(Cases) /\ Len(s) <= MaxCases
  BY <1>3, CasesAssumption DEF SeqOf
<1>4. CASE r \in [route : {"legacy", "evaluate"}, command : {"eval"},
                  cases : SeqOf(Cases, MaxCases), problems : {{}}]
  BY <1>4, <1>3
<1>5. CASE \E path \in Paths :
             r \in [route : {Route(path)}, command : Commands[Route(path)], cases : {<<>>},
                    problems : SUBSET ProblemsOf(Route(path))]
  BY <1>5, <1>1, <1>2
<1> QED
  BY <1>4, <1>5 DEF Requests

\* What the handlers make of a result is a result.
LEMMA ResultFields ==
    ASSUME NEW r \in Results
    PROVE  /\ r.kind \in {"none", "result", "error", "empty", "ok"}
           /\ r.correct \in BOOLEAN /\ r.matched \in 0 .. MaxCases
           /\ \A k \in {"none", "result", "error", "empty", "ok"} :
                [r EXCEPT !.kind = k] \in Results
           /\ \A w \in SUBSET Nat : [r EXCEPT !.warnings = w] \in Results
           /\ r.warnings \in SUBSET Nat
<1>1. r.warnings \in SUBSET Nat
  BY DEF Results
<1> QED
  BY <1>1 DEF Results

\* The evaluation's result.
LEMMA EvaluationFields ==
    ASSUME NEW r \in Results, NEW c \in BOOLEAN
    PROVE  [r EXCEPT !.kind = "result", !.correct = c,
                     !.feedback = << <<"evaluation", 0>> >>] \in Results
<1>1. << <<"evaluation", 0>> >> \in Seq({"case", "evaluation"} \X Nat)
  OBVIOUS
<1> QED
  BY <1>1 DEF Results

\* The matching case's result.
LEMMA MatchFields ==
    ASSUME NEW r \in Results, NEW c \in BOOLEAN, NEW m \in 0 .. MaxCases,
           NEW f \in Seq({"case", "evaluation"} \X Nat)
    PROVE  [r EXCEPT !.correct = c, !.feedback = f, !.matched = m] \in Results
BY DEF Results

-----------------------------------------------------------------------------
\* Every variable keeps its type; in particular the status of an answer is one
\* of those the API has, and the loop stays within the cases.
LEMMA TypeInvCorrect == Spec => []TypeInv
<1>1. Init => TypeInv
  <2> SUFFICES ASSUME Init PROVE TypeInv
    OBVIOUS
  <2>1. Len(request.cases) \in Nat
    BY RequestShape DEF Init
  <2>2. result \in Results
    BY CasesAssumption DEF Init, Results
  <2>3. TypeOK
    BY <2>1, CasesAssumption DEF Init, TypeOK
  <2> QED
    BY <2>2, <2>3 DEF TypeInv, Init
<1>2. TypeInv /\ [Next]_vars => TypeInv'
  <2> SUFFICES ASSUME TypeInv, [Next]_vars PROVE TypeInv'
    OBVIOUS
  <2>0. /\ Len(request.cases) \in Nat /\ Len(request.cases) <= MaxCases
        /\ request.cases \in Seq(Cases) /\ MaxCases \in Nat
        /\ request.route \in {"legacy", "evaluate", "health", "alive"}
    BY RequestShape, CasesAssumption DEF TypeInv, TypeOK
  <2> DEFINE Rest ==
        /\ request \in Requests
        /\ pc \in {"received", "evaluating", "cases", "evaluatingCase", "matched",
                   "answered", "crashed"}
        /\ index \in 1 .. Len(request.cases) + 1
        /\ sent \in Seq(0 .. MaxCases)
        /\ verdict \in [1 .. Len(request.cases) ->
                            {"none", "correct", "incorrect", "failed"}]
        /\ status \in {0, 200, 400, 401, 405, 422, 500}
        /\ status # 0 <=> pc = "answered"
        /\ pc \in {"evaluatingCase", "matched"} => index <= Len(request.cases)
  <2>a. Rest /\ result \in Results
    BY DEF TypeInv, TypeOK
  <2>b. Rest' /\ result' \in Results => TypeInv'
    <3>1. result' \in Results => /\ result'.kind \in {"none", "result", "error", "empty", "ok"}
                                 /\ result'.correct \in BOOLEAN /\ result'.matched \in 0 .. MaxCases
      BY ResultFields
    <3> QED
      BY <3>1 DEF TypeInv, TypeOK
  <2>c. SUFFICES Rest' /\ result' \in Results
    BY <2>b
  <2>d. Error \in Results
    BY <2>a, ResultFields DEF Error
  <2>1. ASSUME NEW code \in {200, 400, 401, 405, 422, 500}, NEW res \in Results, Answer(code, res),
               UNCHANGED <<request, index, sent, verdict>>
        PROVE  Rest' /\ result' \in Results
    BY <2>1, <2>a DEF Answer
  <2>2. CASE Refuse
    <3> DEFINE code == Checks[request.route][Min(Refused)][2]
    <3>1. Checks[request.route] \in Seq(Problems \X Codes)
      BY <2>0, CheckCodes
    <3>2. Refused # {} /\ Refused \subseteq DOMAIN Checks[request.route]
      BY <2>2 DEF Refuse, Refused
    <3>3. Refused \in SUBSET Nat
      BY <3>1, <3>2
    <3>4. Min(Refused) \in Refused
      BY <3>2, <3>3, MinLemma
    <3>5. Checks[request.route][Min(Refused)] \in Problems \X Codes
      BY <3>1, <3>2, <3>4, ElementOfSeq, LenProperties
    <3>6. code \in {200, 400, 401, 405, 422, 500}
      BY <3>5 DEF Codes
    <3>7. Answer(code, Error) /\ UNCHANGED <<request, index, sent, verdict>>
      BY <2>2 DEF Refuse
    <3> QED
      BY <2>1, <2>d, <3>6, <3>7
  <2>3. CASE HealthHandler
    <3>1. [result EXCEPT !.kind = "ok"] \in Results
      BY <2>a, ResultFields
    <3>2. /\ Answer(200, [result EXCEPT !.kind = "ok"])
          /\ UNCHANGED <<request, index, sent, verdict>>
      BY <2>3 DEF HealthHandler
    <3> QED
      BY <2>1, <3>1, <3>2
  <2>4. CASE EvaluationFails
    <3>1. PICK err \in {"runtime", "response"} : Answer(FailureStatus(err), Error)
      BY <2>4 DEF EvaluationFails
    <3>2. FailureStatus(err) = 500
      BY DEF FailureStatus
    <3>3. UNCHANGED <<request, index, sent, verdict>>
      BY <2>4 DEF EvaluationFails
    <3> QED
      BY <2>1, <2>d, <3>1, <3>2, <3>3
  <2>5. CASE ErrorReported
    <3>1. [result EXCEPT !.kind = "empty"] \in Results
      BY <2>a, ResultFields
    <3>2. Answer(200, [result EXCEPT !.kind = "empty"]) \/ Answer(500, Error)
      BY <2>5 DEF ErrorReported
    <3>3. UNCHANGED <<request, index, sent, verdict>>
      BY <2>5 DEF ErrorReported
    <3> QED
      BY <2>1, <2>d, <3>1, <3>2, <3>3
  <2>6. CASE Evaluated
    <3>1. PICK correct \in BOOLEAN :
            LET evaluation == [result EXCEPT !.kind = "result", !.correct = correct,
                                             !.feedback = << <<"evaluation", 0>> >>]
            IN  \/ pc' = "cases" /\ result' = evaluation /\ UNCHANGED status
                \/ Answer(200, evaluation)
      BY <2>6 DEF Evaluated
    <3> DEFINE evaluation == [result EXCEPT !.kind = "result", !.correct = correct,
                                            !.feedback = << <<"evaluation", 0>> >>]
    <3>2. evaluation \in Results
      BY <2>a, EvaluationFields
    <3> HIDE DEF evaluation
    <3>3. \/ pc' = "cases" /\ result' = evaluation /\ UNCHANGED status
          \/ Answer(200, evaluation)
      BY <3>1 DEF evaluation
    <3>4. pc = "evaluating" /\ UNCHANGED <<request, index, sent, verdict>>
      BY <2>6 DEF Evaluated
    <3> QED
      BY <2>1, <3>2, <3>3, <3>4, <2>a, <2>0
  <2>7. CASE CaseCrashes \/ MatchCrashes
    BY <2>7, <2>a DEF CaseCrashes, MatchCrashes, AtCase
  <2>8. ASSUME NEW v \in {"failed", "incorrect"}, NextCase(v), index <= Len(request.cases),
               UNCHANGED sent, pc # "answered"
        PROVE  Rest' /\ result' \in Results
    <3>1. index \in Nat
      BY <2>a, <2>0
    <3> DEFINE w == IF v = "failed" THEN result.warnings \cup {index} ELSE result.warnings
    <3>2. w \in SUBSET Nat
      <4>1. result.warnings \in SUBSET Nat
        BY <2>a, ResultFields
      <4>2. result.warnings \cup {index} \in SUBSET Nat
        BY <3>1, <4>1
      <4> QED
        BY <4>1, <4>2
    <3>3. result' = [result EXCEPT !.warnings = w]
      BY <2>8 DEF NextCase
    <3> HIDE DEF w
    <3>4. result' \in Results
      BY <2>a, <3>2, <3>3, ResultFields
    <3> QED
      BY <2>8, <2>a, <2>0, <3>4 DEF NextCase
  <2>9. CASE SkipCase \/ CaseFails \/ CaseIncorrect
    BY <2>8, <2>9, <2>a DEF SkipCase, AtCase, CaseFails, CaseIncorrect
  <2>10. CASE SendCase
    BY <2>10, <2>a, <2>0 DEF SendCase, AtCase
  <2>11. CASE CaseMatches
    BY <2>11, <2>a, <2>0 DEF CaseMatches
  <2>12. CASE NoMatch
    BY <2>1, <2>12, <2>a DEF NoMatch
  <2>13. CASE UseMatch
    <3>1. CaseFeedback \in Seq({"case", "evaluation"} \X Nat)
      <4>1. <<"case", index>> \in {"case", "evaluation"} \X Nat
            /\ <<"evaluation", index>> \in {"case", "evaluation"} \X Nat
        BY <2>a, <2>0
      <4>2. CASE Case.override
        BY <4>1, <4>2 DEF CaseFeedback
      <4>3. CASE ~Case.override
        BY <4>1, <4>3 DEF CaseFeedback
      <4> QED
        BY <4>2, <4>3
    <3>2. (Case.mark = "one") \in BOOLEAN
      OBVIOUS
    <3>3. index \in 0 .. MaxCases
      BY <2>13, <2>0, <2>a DEF UseMatch
    <3> HIDE DEF Rest
    <3>4. [result EXCEPT !.correct = (Case.mark = "one"), !.feedback = CaseFeedback,
                         !.matched = index] \in Results
      BY <2>a, <3>1, <3>2, <3>3, MatchFields
    <3> QED
      BY <2>1, <2>13, <3>4 DEF UseMatch
  <2>14. CASE Forward
    BY <2>14, <2>a, <2>0 DEF Forward
  <2>15. CASE UNCHANGED vars
    BY <2>15, <2>a DEF vars
  <2> QED
    BY <2>2, <2>3, <2>4, <2>5, <2>6, <2>7, <2>9, <2>10, <2>11, <2>12, <2>13, <2>14, <2>15
       DEF Next
<1> QED
  BY <1>1, <1>2, PTL DEF Spec

\* Every variable keeps its type.
THEOREM TypeCorrect == Spec => []TypeOK
<1>1. TypeInv => TypeOK
  BY DEF TypeInv
<1> QED
  BY <1>1, TypeInvCorrect, PTL

-----------------------------------------------------------------------------
\* How far the loop over the cases has come, at every point of it.
LEMMA LoopInvCorrect == Spec => []LoopInv
<1>1. Init => LoopInv
  <2> SUFFICES ASSUME Init PROVE LoopInv
    OBVIOUS
  <2>1. pc = "received" /\ index = 1 /\ sent = <<>> /\ DOMAIN sent = {}
    BY DEF Init
  <2>2. verdict = [i \in 1 .. Len(request.cases) |-> "none"]
    BY DEF Init
  <2>3. result.matched = 0 /\ result.kind = "none" /\ result.warnings = {}
    BY DEF Init
  <2> QED
    BY <2>1, <2>2, <2>3 DEF LoopInv
<1>2. TypeInv /\ LoopInv /\ [Next]_vars => LoopInv'
  <2> SUFFICES ASSUME TypeInv, LoopInv, [Next]_vars PROVE LoopInv'
    OBVIOUS
  <2>0. /\ Len(request.cases) \in Nat
        /\ index \in 1 .. Len(request.cases) + 1
        /\ sent \in Seq(0 .. MaxCases) /\ DOMAIN sent = 1 .. Len(sent)
        /\ verdict \in [1 .. Len(request.cases) ->
                            {"none", "correct", "incorrect", "failed"}]
        /\ result \in Results
        /\ pc \in {"evaluatingCase", "matched"} => index <= Len(request.cases)
        /\ MaxCases \in Nat
    BY RequestShape, CasesAssumption DEF TypeInv, TypeOK
  <2>1. ASSUME NEW code, NEW res, Answer(code, res), res.warnings = result.warnings,
               UNCHANGED <<request, index, sent, verdict>>,
               pc \in {"received", "evaluating", "cases", "matched"}
        PROVE  LoopInv'
    BY <2>1, <2>0 DEF Answer, LoopInv
  <2>2. Error.warnings = result.warnings
    BY <2>0 DEF Error, Results
  <2>3. CASE Refuse \/ EvaluationFails
    BY <2>1, <2>2, <2>3 DEF Refuse, EvaluationFails
  <2>4. CASE HealthHandler
    BY <2>1, <2>0, <2>4 DEF HealthHandler, Results
  <2>5. CASE ErrorReported
    BY <2>1, <2>2, <2>0, <2>5 DEF ErrorReported, Results
  <2>6. CASE Evaluated
    <3>1. PICK correct \in BOOLEAN :
            LET evaluation == [result EXCEPT !.kind = "result", !.correct = correct,
                                             !.feedback = << <<"evaluation", 0>> >>]
            IN  \/ ~correct /\ pc' = "cases" /\ result' = evaluation
                \/ Answer(200, evaluation)
      BY <2>6 DEF Evaluated
    <3> DEFINE evaluation == [result EXCEPT !.kind = "result", !.correct = correct,
                                            !.feedback = << <<"evaluation", 0>> >>]
    <3>2. /\ evaluation.kind = "result" /\ evaluation.correct = correct
          /\ evaluation.feedback = << <<"evaluation", 0>> >>
          /\ evaluation.matched = result.matched
          /\ evaluation.warnings = result.warnings
      BY <2>0 DEF Results
    <3> HIDE DEF evaluation
    <3>3. \/ ~correct /\ pc' = "cases" /\ result' = evaluation
          \/ Answer(200, evaluation)
      BY <3>1 DEF evaluation
    <3>4. pc = "evaluating" /\ UNCHANGED <<request, index, sent, verdict>>
      BY <2>6 DEF Evaluated
    <3>5. CASE Answer(200, evaluation)
      BY <2>1, <3>2, <3>4, <3>5
    <3>6. CASE ~correct /\ pc' = "cases" /\ result' = evaluation
      BY <2>0, <3>2, <3>4, <3>6 DEF LoopInv
    <3> QED
      BY <3>3, <3>5, <3>6
  <2>7. CASE Forward
    BY <2>7, <2>0 DEF Forward, LoopInv
  <2>8. CASE CaseCrashes \/ MatchCrashes
    BY <2>8, <2>0 DEF CaseCrashes, MatchCrashes, AtCase, LoopInv
  <2>9. ASSUME NEW v \in {"failed", "incorrect"}, NextCase(v), UNCHANGED sent,
               pc \in {"cases", "evaluatingCase"}, index <= Len(request.cases)
        PROVE  LoopInv'
    <3>1. result' = [result EXCEPT !.warnings = IF v = "failed" THEN @ \cup {index} ELSE @]
      BY <2>9 DEF NextCase
    <3>2. /\ result'.kind = result.kind /\ result'.correct = result.correct
          /\ result'.matched = result.matched /\ result'.feedback = result.feedback
      BY <2>0, <3>1 DEF Results
    <3>3. result'.warnings = IF v = "failed" THEN result.warnings \cup {index}
                             ELSE result.warnings
      BY <2>0, <3>1 DEF Results
    <3>4. /\ verdict' = [verdict EXCEPT ![index] = v] /\ index \in DOMAIN verdict
          /\ DOMAIN verdict = 1 .. Len(request.cases) /\ DOMAIN verdict' = DOMAIN verdict
      BY <2>9, <2>0 DEF NextCase
    <3>5. verdict[index] \in {"none", "correct"} /\ verdict[index] # "correct"
      BY <2>9, <3>4 DEF LoopInv
    <3>6. result'.warnings = {i \in DOMAIN verdict' : verdict'[i] = "failed"}
      BY <2>0, <3>3, <3>4, <3>5 DEF LoopInv
    <3>7. index' = index + 1 /\ pc' = "cases"
      BY <2>9 DEF NextCase
    <3>8. ASSUME NEW j \in DOMAIN verdict'
          PROVE  /\ j > index' => verdict'[j] = "none"
                 /\ j = index' => verdict'[j] \in {"none", "correct"}
                 /\ verdict'[j] # "correct"
      <4>1. CASE j = index
        BY <4>1, <3>4, <3>7, <2>0, <2>9
      <4>2. CASE j # index
        <5>1. verdict'[j] = verdict[j] /\ j \in DOMAIN verdict
          BY <4>2, <3>4, <2>0
        <5>2. verdict[j] # "correct" /\ (j > index => verdict[j] = "none")
          BY <5>1, <4>2 DEF LoopInv
        <5> QED
          BY <5>1, <5>2, <3>4, <3>7, <2>0
      <4> QED
        BY <4>1, <4>2
    <3>9. \A i \in DOMAIN sent' : sent'[i] < index'
      <4>1. \A i \in DOMAIN sent : sent[i] <= index /\ sent[i] \in Nat
        BY <2>0 DEF LoopInv
      <4> QED
        BY <4>1, <2>9, <3>7, <2>0
    <3>10. result'.kind = "result" /\ ~result'.correct /\ result'.matched = 0
           /\ result'.feedback = << <<"evaluation", 0>> >>
      BY <3>2, <2>9 DEF LoopInv
    <3>11. \A i \in DOMAIN sent' : sent'[i] <= index'
      BY <3>9, <3>7, <2>0, <2>9
    <3>12. Len(sent') > 0
      BY <2>9 DEF LoopInv
    <3> QED
      BY <3>6, <3>7, <3>8, <3>9, <3>10, <3>11, <3>12 DEF LoopInv
  <2>10. CASE SkipCase \/ CaseFails \/ CaseIncorrect
    BY <2>9, <2>10, <2>0 DEF SkipCase, AtCase, CaseFails, CaseIncorrect
  <2>11. CASE SendCase
    BY <2>11, <2>0 DEF SendCase, AtCase, LoopInv
  <2>12. CASE CaseMatches
    BY <2>12, <2>0 DEF CaseMatches, LoopInv
  <2>13. CASE NoMatch
    BY <2>1, <2>13 DEF NoMatch
  <2>14. CASE UseMatch
    <3>1. [result EXCEPT !.correct = (Case.mark = "one"), !.feedback = CaseFeedback,
                         !.matched = index].warnings = result.warnings
      BY <2>0 DEF Results
    <3> QED
      BY <2>1, <2>14, <3>1 DEF UseMatch
  <2>15. CASE UNCHANGED vars
    BY <2>15 DEF vars, LoopInv
  <2> QED
    BY <2>3, <2>4, <2>5, <2>6, <2>7, <2>8, <2>10, <2>11, <2>12, <2>13, <2>14, <2>15 DEF Next
<1> QED
  BY <1>1, <1>2, TypeInvCorrect, PTL DEF Spec

\* A status of the client's fault means that no worker has been asked, and a
\* request with a fault of the client's never reaches one: neither a response
\* the schema refuses nor a failing case is blamed on the client.
THEOREM Unsent == Spec => []ClientErrorsUnsent
<1>1. Init => ClientErrorsUnsent
  BY DEF Init, ClientErrorsUnsent
<1>2. TypeInv /\ LoopInv /\ ClientErrorsUnsent /\ [Next]_vars => ClientErrorsUnsent'
  <2> SUFFICES ASSUME TypeInv, LoopInv, ClientErrorsUnsent, [Next]_vars
               PROVE  ClientErrorsUnsent'
    OBVIOUS
  <2>1. CASE Refuse \/ HealthHandler
    <3>1. pc = "received" /\ UNCHANGED <<request, sent>>
      BY <2>1 DEF Refuse, HealthHandler
    <3> QED
      BY <3>1 DEF LoopInv, Fault, ClientErrorsUnsent
  <2>2. CASE EvaluationFails \/ ErrorReported \/ Evaluated \/ NoMatch \/ UseMatch
    <3>1. status' \in {0, 200, 500} /\ UNCHANGED <<request, sent>>
      <4>1. CASE EvaluationFails
        BY <4>1 DEF EvaluationFails, Answer, FailureStatus
      <4>2. CASE ErrorReported
        BY <4>2 DEF ErrorReported, Answer
      <4>3. CASE Evaluated
        BY <4>3 DEF Evaluated, Answer, TypeInv, TypeOK
      <4>4. CASE NoMatch \/ UseMatch
        BY <4>4 DEF NoMatch, UseMatch, Answer
      <4> QED
        BY <2>2, <4>1, <4>2, <4>3, <4>4
    <3>2. status' \notin 400 .. 499
      BY <3>1
    <3> QED
      BY <3>1, <3>2 DEF Fault, ClientErrorsUnsent
  <2>3. CASE Forward
    <3>1. request \in Requests /\ status = 0
      BY <2>3 DEF TypeInv, TypeOK, Forward
    <3>2. ASSUME NEW p \in request.problems
          PROVE  ~Fault(p)
      <4>1. PICK i \in DOMAIN Checks[request.route] : p = Checks[request.route][i][1]
        BY <3>1, <3>2, RequestShape DEF ProblemsOf
      <4>2. ~Applies(p)
        BY <4>1, <2>3 DEF Forward, Refused
      <4> QED
        BY <4>2, <3>2 DEF Applies, Fault
    <3> QED
      BY <2>3, <3>1, <3>2 DEF Forward, Fault, ClientErrorsUnsent
  <2>4. CASE SendCase
    <3>1. status = 0 /\ status' = 0 /\ request' = request
      BY <2>4 DEF SendCase, AtCase, TypeInv, TypeOK
    <3>2. Len(sent) > 0
      BY <2>4 DEF SendCase, AtCase, LoopInv
    <3>3. sent # <<>>
      BY <3>2
    <3> QED
      BY <3>1, <3>3 DEF Fault, ClientErrorsUnsent
  <2>5. CASE CaseCrashes \/ SkipCase \/ CaseFails \/ CaseIncorrect \/ CaseMatches
             \/ MatchCrashes \/ UNCHANGED vars
    <3>1. UNCHANGED <<request, sent, status>>
      BY <2>5 DEF CaseCrashes, SkipCase, CaseFails, CaseIncorrect, CaseMatches, MatchCrashes,
                  NextCase, vars
    <3> QED
      BY <3>1 DEF Fault, ClientErrorsUnsent
  <2> QED
    BY <2>1, <2>2, <2>3, <2>4, <2>5 DEF Next
<1> QED
  BY <1>1, <1>2, TypeInvCorrect, LoopInvCorrect, PTL DEF Spec

\* The cases of a request are tried in order, each at most once, until the first
\* whose evaluation is correct, and the answer is made from that one alone
\* (FindFirstMatchingCase, ProcessEval; README.md:151-153).
THEOREM CasesInOrder == Spec => []CasesAsSpecified
<1> DEFINE Ordered == \A i, j \in DOMAIN sent : i < j => sent[i] < sent[j]
<1> DEFINE Matching == {i \in DOMAIN verdict : verdict[i] = "correct"}
<1> DEFINE Told ==
      status = 200 /\ result.kind = "result" =>
        /\ result.warnings = {i \in DOMAIN verdict : verdict[i] = "failed"}
        /\ Matching = {} =>
            /\ result.matched = 0 /\ result.feedback = << <<"evaluation", 0>> >>
            /\ (\E i \in DOMAIN sent : sent[i] > 0) => ~result.correct
        /\ \A m \in Matching :
            /\ result.matched = m
            /\ result.feedback[1] = <<"case", m>>
            /\ result.correct <=> request.cases[m].mark = "one"
<1>1. Init => Ordered /\ Told
  BY DEF Init
<1>2. TypeInv /\ LoopInv /\ Ordered /\ [Next]_vars => Ordered'
  <2> SUFFICES ASSUME TypeInv, LoopInv, Ordered, [Next]_vars PROVE Ordered'
    OBVIOUS
  <2>1. sent \in Seq(0 .. MaxCases) /\ index \in Nat
    BY RequestShape DEF TypeInv, TypeOK
  <2>2. CASE SendCase
    <3>1. sent' = Append(sent, index) /\ \A i \in DOMAIN sent : sent[i] < index
      BY <2>2 DEF SendCase, AtCase, LoopInv
    <3> QED
      BY <3>1, <2>1
  <2>3. CASE Forward
    BY <2>3 DEF Forward
  <2>4. CASE UNCHANGED sent
    BY <2>4
  <2> QED
    BY <2>2, <2>3, <2>4 DEF Next, vars, Refuse, HealthHandler, EvaluationFails, ErrorReported,
       Evaluated, CaseCrashes, SkipCase, CaseFails, CaseIncorrect, CaseMatches, NoMatch,
       UseMatch, MatchCrashes
<1>3. TypeInv /\ LoopInv /\ Told /\ [Next]_vars => Told'
  <2> SUFFICES ASSUME TypeInv, LoopInv, Told, [Next]_vars PROVE Told'
    OBVIOUS
  <2>0. /\ Len(request.cases) \in Nat
        /\ index \in 1 .. Len(request.cases) + 1
        /\ sent \in Seq(0 .. MaxCases) /\ DOMAIN sent = 1 .. Len(sent)
        /\ verdict \in [1 .. Len(request.cases) ->
                            {"none", "correct", "incorrect", "failed"}]
        /\ result \in Results
        /\ status = 0 <=> pc # "answered"
        /\ pc \in {"evaluatingCase", "matched"} => index <= Len(request.cases)
    BY RequestShape DEF TypeInv, TypeOK
  <2>1. CASE status' # 200
    BY <2>1
  <2>2. CASE result'.kind # "result"
    BY <2>2
  <2>3. CASE Evaluated /\ pc' = "answered"
    <3>1. PICK correct \in BOOLEAN :
            result' = [result EXCEPT !.kind = "result", !.correct = correct,
                                     !.feedback = << <<"evaluation", 0>> >>]
      BY <2>3 DEF Evaluated, Answer
    <3>2. /\ result'.feedback = << <<"evaluation", 0>> >>
          /\ result'.matched = result.matched /\ result'.warnings = result.warnings
      BY <3>1, <2>0 DEF Results
    <3>3. pc = "evaluating" /\ UNCHANGED <<request, index, sent, verdict>>
      BY <2>3 DEF Evaluated
    <3>4. result.matched = 0 /\ \A i \in DOMAIN sent : sent[i] = 0
      BY <3>3 DEF LoopInv
    <3>5. \A i \in DOMAIN verdict : verdict[i] # "correct"
      BY <3>3 DEF LoopInv
    <3>6. result.warnings = {i \in DOMAIN verdict : verdict[i] = "failed"}
      BY DEF LoopInv
    <3> QED
      BY <3>2, <3>3, <3>4, <3>5, <3>6
  <2>4. CASE NoMatch
    <3>1. pc = "cases" /\ result' = result /\ UNCHANGED <<request, index, sent, verdict>>
      BY <2>4 DEF NoMatch, Answer
    <3>2. \A i \in DOMAIN verdict : verdict[i] # "correct"
      BY <3>1 DEF LoopInv
    <3>3. ~result.correct /\ result.matched = 0 /\ result.feedback = << <<"evaluation", 0>> >>
          /\ result.warnings = {i \in DOMAIN verdict : verdict[i] = "failed"}
      BY <3>1 DEF LoopInv
    <3> QED
      BY <3>1, <3>2, <3>3
  <2>5. CASE UseMatch
    <3>1. pc = "matched" /\ UNCHANGED <<request, index, sent, verdict>>
      BY <2>5 DEF UseMatch
    <3>2. result' = [result EXCEPT !.correct = (Case.mark = "one"), !.feedback = CaseFeedback,
                                   !.matched = index]
      BY <2>5 DEF UseMatch, Answer
    <3>3. /\ result'.correct = (Case.mark = "one") /\ result'.feedback = CaseFeedback
          /\ result'.matched = index /\ result'.warnings = result.warnings
      BY <3>2, <2>0 DEF Results
    <3>4. CaseFeedback[1] = <<"case", index>>
      BY DEF CaseFeedback
    <3>5. Matching = {index}
      BY <3>1, <2>0 DEF LoopInv
    <3>6. result.warnings = {i \in DOMAIN verdict : verdict[i] = "failed"}
      BY DEF LoopInv
    <3>7. Matching' = {index}
      BY <3>1, <3>5
    <3>8. /\ result'.matched = index
          /\ result'.feedback[1] = <<"case", index>>
          /\ result'.correct <=> request'.cases[index].mark = "one"
      BY <3>1, <3>3, <3>4 DEF Case
    <3>9. result'.warnings = {i \in DOMAIN verdict' : verdict'[i] = "failed"}
      BY <3>1, <3>3, <3>6
    <3> HIDE DEF Matching
    <3> QED
      BY <3>7, <3>8, <3>9
  <2>6. CASE UNCHANGED <<request, sent, verdict, result, status>>
    BY <2>6
  <2>7. status' = 200 /\ result'.kind = "result"
        => \/ (Evaluated /\ pc' = "answered") \/ NoMatch \/ UseMatch
           \/ UNCHANGED <<request, sent, verdict, result, status>>
    <3> SUFFICES ASSUME status' = 200, result'.kind = "result"
                 PROVE  \/ (Evaluated /\ pc' = "answered") \/ NoMatch \/ UseMatch
                        \/ UNCHANGED <<request, sent, verdict, result, status>>
      OBVIOUS
    <3>1. Error.kind = "error"
      BY <2>0 DEF Error, Results
    <3>2. [result EXCEPT !.kind = "ok"].kind = "ok" /\ [result EXCEPT !.kind = "empty"].kind = "empty"
      BY <2>0 DEF Results
    <3>3. ~Refuse /\ ~HealthHandler /\ ~EvaluationFails /\ ~ErrorReported
      BY <3>1, <3>2 DEF Refuse, HealthHandler, EvaluationFails, ErrorReported, Answer
    <3>4. ~Forward /\ ~SkipCase /\ ~SendCase /\ ~CaseFails /\ ~CaseIncorrect /\ ~CaseMatches
      BY <2>0 DEF Forward, SkipCase, SendCase, CaseFails, CaseIncorrect, CaseMatches, NextCase, AtCase
    <3>5. Evaluated => pc' = "answered"
      BY <2>0 DEF Evaluated, Answer
    <3> QED
      BY <3>3, <3>4, <3>5 DEF Next, CaseCrashes, MatchCrashes, vars
  <2> QED
    BY <2>1, <2>2, <2>3, <2>4, <2>5, <2>6, <2>7
<1>4. TypeInv /\ LoopInv /\ Ordered /\ Told => CasesAsSpecified
  <2> SUFFICES ASSUME TypeInv, LoopInv, Ordered, Told PROVE CasesAsSpecified
    OBVIOUS
  <2>1. Matching \subseteq {index} /\ index \in Nat
    BY DEF LoopInv, TypeInv, TypeOK
  <2>2. Matching # {} => Min(Matching) \in Matching
    BY <2>1, MinLemma
  <2>3. \A i \in Matching : \A j \in DOMAIN verdict : j > i => verdict[j] = "none"
    BY <2>1 DEF LoopInv
  <2> QED
    BY <2>2, <2>3 DEF CasesAsSpecified
<1> HIDE DEF Ordered, Told
<1> QED
  BY <1>1, <1>2, <1>3, <1>4, TypeInvCorrect, LoopInvCorrect, PTL DEF Spec
=============================================================================
