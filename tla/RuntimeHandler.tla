---------------------------- MODULE RuntimeHandler ---------------------------
(***************************************************************************)
(* From a request to its answer: the HTTP handlers (handler/handler.go,    *)
(* handler/mued.go) check it, the runtime handler (runtime/handler.go)     *)
(* validates it, has the evaluation function answer it, validates that     *)
(* answer, and tries the cases of an "eval" request whose answer is not    *)
(* correct, one message after the other.                                   *)
(*                                                                         *)
(* Requests do not share anything here, so there is one of them.  A body   *)
(* is known by what is wrong with it and by its cases, a feedback by the   *)
(* texts it is put together from.                                          *)
(***************************************************************************)
EXTENDS Naturals, SequencesExt, FiniteSetsExt

CONSTANTS
    Cases,      \* the cases a request may have
    MaxCases    \* how many of them at most

ASSUME CasesAssumption ==
    /\ MaxCases \in Nat
    /\ \A c \in Cases :
        /\ c.kind \in {"object", "scalar"}
        /\ c.answer \in {"given", "null", "missing"}
        /\ c.feedback \in {"text", "other", "missing"}
        /\ c.override \in BOOLEAN
        /\ c.mark \in {"none", "zero", "one"}

VARIABLES
    request,    \* route, command, problems and cases of the request
    pc,         \* where its handler is
    index,      \* the case FindFirstMatchingCase is at
    sent,       \* the messages sent to the worker: 0, then the numbers of cases
    verdict,    \* verdict[i]: what EvaluateCase found for case i
    result,     \* the "result" object of the answer under construction
    status      \* the status code, 0 before the answer

vars == <<request, pc, index, sent, verdict, result, status>>

\* A path is known by how it ends and whether something comes before that:
\* API Gateway may put the name of the function there, which NormalizePath
\* takes away from the muEd paths only.
Paths == [prefixed : BOOLEAN, end : {"/evaluate", "/evaluate/health", "/health", "/"}]

Route(path) ==
    CASE path.end = "/evaluate" -> "evaluate"
      [] path.end = "/evaluate/health" -> "health"
      [] path.end = "/health" /\ ~path.prefixed -> "alive"
      [] OTHER -> "legacy"

\* Mutant of FailureStatus: every validation error is the client's.
FailureBlamesClient(err) == IF err = "runtime" THEN 500 ELSE 422

\* getErrorStatusCode: a request the schema refuses, data that cannot be
\* validated at all, a response the schema refuses, or an error of the runtime.
FailureStatus(err) ==
    CASE err = "request" -> 422 [] err = "unvalidated" -> 400 [] OTHER -> 500

\* What is checked before anything is sent, in the order of the code, and the
\* status it is answered with.  "empty" is a request without a body,
\* "unparsable" one with another body that is no JSON object, "invalid" what the
\* request schema refuses, "unconvertible" a muEd submission without content or
\* reference solution.
CommandHandlerChecks == << <<"unauthorised", 401>>, <<"unreadable", 400>> >>

RuntimeChecks ==
    << <<"method", 405>>, <<"command", 400>>, <<"empty", 500>>, <<"unparsable", 500>>,
       <<"invalid", FailureStatus("request")>> >>

\* The runtime's other checks cannot fail here.
EvaluateChecks ==
    << <<"unauthorised", 401>>, <<"method", 405>>, <<"unreadable", 400>>,
       <<"empty", 400>>, <<"unparsable", 400>>, <<"unconvertible", 400>>,
       <<"invalid", FailureStatus("request")>> >>

HealthChecks == << <<"unauthorised", 401>>, <<"method", 405>> >>

Checks == [legacy |-> CommandHandlerChecks \o RuntimeChecks, evaluate |-> EvaluateChecks,
           health |-> HealthChecks, alive |-> <<>>]

Commands == [legacy |-> {"eval", "preview", "healthcheck"}, evaluate |-> {"eval", "preview"},
             health |-> {"healthcheck"}, alive |-> {"none"}]

ProblemsOf(route) == {Checks[route][i][1] : i \in DOMAIN Checks[route]}

Requests ==
    (UNION {[route : {r}, command : Commands[r], cases : {<<>>}, problems : SUBSET ProblemsOf(r)]
            : r \in {Route(path) : path \in Paths}})
    \cup [route : {"legacy", "evaluate"}, command : {"eval"},
          cases : SeqOf(Cases, MaxCases), problems : {{}}]

TypeOK ==
    /\ request \in Requests
    /\ pc \in {"received", "evaluating", "cases", "evaluatingCase", "matched",
               "answered", "crashed"}
    /\ index \in 1 .. Len(request.cases) + 1
    /\ sent \in Seq(0 .. MaxCases)
    /\ verdict \in [1 .. Len(request.cases) ->
                        {"none", "correct", "incorrect", "failed"}]
    /\ result.correct \in BOOLEAN /\ result.matched \in 0 .. MaxCases
    /\ result.kind \in {"none", "result", "error", "empty", "ok"}
    /\ status \in {0, 200, 400, 401, 405, 422, 500}
    /\ status # 0 <=> pc = "answered"

Init ==
    /\ request \in Requests
    /\ pc = "received" /\ index = 1 /\ sent = <<>> /\ status = 0
    /\ verdict = [i \in 1 .. Len(request.cases) |-> "none"]
    /\ result = [kind |-> "none", correct |-> FALSE, feedback |-> <<>>, matched |-> 0,
                 warnings |-> {}]

-----------------------------------------------------------------------------
\* Mutant of Answer: the status is not set.
AnswerWithoutStatus(code, res) == pc' = "answered" /\ result' = res /\ UNCHANGED status

Answer(code, res) ==
    /\ pc' = "answered"
    /\ status' = code
    /\ result' = res

Error == [result EXCEPT !.kind = "error"]

\* The request schema is not applied to a healthcheck.
Applies(problem) ==
    problem \in request.problems /\ ~(problem = "invalid" /\ request.command = "healthcheck")

Refused == {i \in DOMAIN Checks[request.route] : Applies(Checks[request.route][i][1])}

\* The first check that fails decides.
Refuse ==
    /\ pc = "received" /\ Refused # {}
    /\ Answer(Checks[request.route][Min(Refused)][2], Error)
    /\ UNCHANGED <<request, index, sent, verdict>>

\* GET /health says that the shim runs, to anyone.
HealthHandler ==
    /\ pc = "received" /\ request.route = "alive"
    /\ Answer(200, [result EXCEPT !.kind = "ok"])
    /\ UNCHANGED <<request, index, sent, verdict>>

\* SendCommand: the request becomes a message to the worker.
Forward ==
    /\ pc = "received" /\ request.route # "alive" /\ Refused = {}
    /\ pc' = "evaluating"
    /\ sent' = <<0>>
    /\ UNCHANGED <<request, index, verdict, result, status>>

\* SendCommand fails.  GET /evaluate/health does not validate the response.  A
\* response can always be validated, as every interface decodes it from JSON.
EvaluationFails ==
    /\ pc = "evaluating"
    /\ \E err \in {"runtime", "response"} :
        /\ err = "response" => request.route # "health"
        /\ Answer(FailureStatus(err), Error)
    /\ UNCHANGED <<request, index, sent, verdict>>

\* A valid response with an "error" and no "result": handle returns neither
\* data nor an error; the muEd handlers notice that the result is missing.
ErrorReported ==
    /\ pc = "evaluating"
    /\ IF request.route = "legacy" THEN Answer(200, [result EXCEPT !.kind = "empty"])
       ELSE Answer(500, Error)
    /\ UNCHANGED <<request, index, sent, verdict>>

\* A response with a result, which ProcessEval looks at if it is one of "eval".
Evaluated ==
    /\ pc = "evaluating"
    /\ \E correct \in BOOLEAN :
        LET evaluation == [result EXCEPT !.kind = "result", !.correct = correct,
                                         !.feedback = << <<"evaluation", 0>> >>]
        IN  IF request.command = "eval" /\ ~correct /\ request.cases # <<>>
            THEN pc' = "cases" /\ result' = evaluation /\ UNCHANGED status
            ELSE Answer(200, evaluation)
    /\ UNCHANGED <<request, index, sent, verdict>>

-----------------------------------------------------------------------------
(* The cases.                                                               *)

Case == request.cases[index]
AtCase == pc = "cases" /\ index <= Len(request.cases)

\* The case does not match; a failure leaves a warning.
NextCase(v) ==
    /\ verdict' = [verdict EXCEPT ![index] = v]
    /\ result' = [result EXCEPT !.warnings = IF v = "failed" THEN @ \cup {index} ELSE @]
    /\ index' = index + 1
    /\ pc' = "cases"
    /\ UNCHANGED <<request, status>>

\* c.(map[string]interface{}) panics, and nothing recovers from it.
CaseCrashes ==
    /\ AtCase /\ Case.kind = "scalar"
    /\ pc' = "crashed"
    /\ UNCHANGED <<request, index, sent, verdict, result, status>>

\* Without an answer or a feedback a case is not evaluated; null is an answer
\* until the request schema refuses it.
SkipCase ==
    /\ AtCase /\ Case.kind = "object"
    /\ Case.answer # "given" \/ Case.feedback = "missing"
    /\ NextCase("failed")
    /\ UNCHANGED sent

SendCase ==
    /\ AtCase /\ Case.kind = "object" /\ Case.answer = "given" /\ Case.feedback # "missing"
    /\ sent' = Append(sent, index)
    /\ pc' = "evaluatingCase"
    /\ UNCHANGED <<request, index, verdict, result, status>>

CaseFails == pc = "evaluatingCase" /\ NextCase("failed") /\ UNCHANGED sent

CaseIncorrect == pc = "evaluatingCase" /\ NextCase("incorrect") /\ UNCHANGED sent

\* Mutant of CaseMatches: the loop goes on behind a match.
CaseMatchesAll == pc = "evaluatingCase" /\ NextCase("correct") /\ UNCHANGED sent

\* The first case that is correct ends the loop.
CaseMatches ==
    /\ pc = "evaluatingCase"
    /\ verdict' = [verdict EXCEPT ![index] = "correct"]
    /\ pc' = "matched"
    /\ UNCHANGED <<request, index, sent, result, status>>

NoMatch ==
    /\ pc = "cases" /\ index > Len(request.cases)
    /\ Answer(200, result)
    /\ UNCHANGED <<request, index, sent, verdict>>

\* The feedback of the case's own evaluation goes behind the case's.
CaseFeedback ==
    << <<"case", index>> >> \o IF Case.override THEN << <<"evaluation", index>> >> ELSE <<>>

\* ProcessEval replaces what the evaluation said.
UseMatch ==
    /\ pc = "matched" /\ (Case.override => Case.feedback = "text")
    /\ Answer(200, [result EXCEPT
            !.correct = (Case.mark = "one"),
            !.feedback = CaseFeedback,
            !.matched = index])
    /\ UNCHANGED <<request, index, sent, verdict>>

\* match["feedback"].(string) panics.
MatchCrashes ==
    /\ pc = "matched" /\ Case.override /\ Case.feedback # "text"
    /\ pc' = "crashed"
    /\ UNCHANGED <<request, index, sent, verdict, result, status>>

Next ==
    \/ Refuse \/ HealthHandler \/ Forward \/ EvaluationFails \/ ErrorReported \/ Evaluated
    \/ CaseCrashes \/ SkipCase \/ SendCase \/ CaseFails \/ CaseIncorrect
    \/ CaseMatches \/ NoMatch \/ UseMatch \/ MatchCrashes

Spec == Init /\ [][Next]_vars

-----------------------------------------------------------------------------
(* Properties.                                                              *)

\* What is the client's fault: a healthcheck has no request schema, and needs
\* no body (README.md:100), although the code refuses one without.
Fault(problem) == ~(request.command = "healthcheck" /\ problem \in {"invalid", "empty"})

\* A status of the client's fault means that no worker has been asked, and a
\* request with a fault of the client's never reaches one: not even a response
\* that fails validation, or a case that is no valid request, is blamed on the
\* client (getErrorStatusCode, handler_response.go:9).
ClientErrorsUnsent ==
    /\ status \in 400 .. 499 => sent = <<>>
    /\ sent # <<>> => \A p \in request.problems : ~Fault(p)

\* README.md:151-153, on the whole loop: after the request itself the cases are
\* tried in order, each at most once, until the first whose evaluation is
\* correct; only an evaluation that was incorrect can be changed, its feedback
\* and verdict then come from that case and its mark, and nothing is changed if
\* none matches.
CasesAsSpecified ==
    LET matching == {i \in DOMAIN verdict : verdict[i] = "correct"}
        match == Min(matching)
    IN  /\ \A i, j \in DOMAIN sent : i < j => sent[i] < sent[j]
        /\ \A i \in matching : \A j \in DOMAIN verdict : j > i => verdict[j] = "none"
        /\ status = 200 /\ result.kind = "result" =>
            /\ result.warnings = {i \in DOMAIN verdict : verdict[i] = "failed"}
            /\ IF matching = {}
               THEN result.matched = 0 /\ result.feedback = << <<"evaluation", 0>> >>
                    /\ ((\E i \in DOMAIN sent : sent[i] > 0) => ~result.correct)
               ELSE /\ result.matched = match
                    /\ result.feedback[1] = <<"case", match>>
                    /\ result.correct <=> request.cases[match].mark = "one"
=============================================================================
