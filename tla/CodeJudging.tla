----------------------------- MODULE CodeJudging -----------------------------
(***************************************************************************)
(* What the execution of a code submission concludes (execute_practice):   *)
(* every test is one container or one call of the runner service, its      *)
(* answer is put through the result contract, and the first test that is   *)
(* not passed decides.  Texts, times and memory are left out, and no       *)
(* problem has more tests than MAX_TESTS_PER_EXECUTION.                    *)
(***************************************************************************)
EXTENDS Naturals, Sequences, FiniteSetsExt

CONSTANTS Public, Hidden,  \* numbers of public and hidden tests of a problem
          Remote           \* whether the process runs code through the service

TestStatuses == {"ok", "syntax_error", "runtime_error", "time_limit", "sandbox_unavailable"}
TestVerdicts == (TestStatuses \ {"ok"}) \cup {"accepted", "wrong_answer", "internal_error"}

\* What an executor answers for a test: actual compares the value the
\* learner's function returned with the expected one, "missing" without one.
TestAnswer(status, verdict, actual) ==
    [status |-> status, verdict |-> verdict, actual |-> actual]
Internal == TestAnswer("ok", "internal_error", "missing")

\* _validate_worker_result; "" is an absent verdict.
Validated(a) ==
    IF \/ a.status \notin TestStatuses
       \/ a.verdict \notin TestVerdicts \cup {""}
       \/ a.status = "ok" /\ a.actual = "missing"
    THEN Internal
    ELSE IF a.status = "ok" \/ a.verdict # "" THEN a
    ELSE [a EXCEPT !.verdict = a.status]

\* DockerSandboxExecutor: how the container of a test may end.
Ends == {"no docker", "not started", "exit 125", "bad arguments", "silent", "garbled",
         "timeout", "exit 100", "other exit", "right", "wrong"}
DockerAnswer(end) ==
    CASE end \in {"no docker", "not started", "exit 125"} -> TestAnswer("sandbox_unavailable", "", "missing")
      [] end \in {"bad arguments", "silent", "garbled"} -> Internal
      [] end = "timeout" -> TestAnswer("ok", "time_limit", "missing")
      [] end = "exit 100" -> TestAnswer("syntax_error", "syntax_error", "missing")
      [] end = "other exit" -> TestAnswer("runtime_error", "runtime_error", "missing")
      [] end \in {"right", "wrong"} -> Validated(TestAnswer("ok", "", end))

\* RemoteSandboxExecutor: the service is away or answers, well or ill formed.
Replies == [status : TestStatuses \cup {"?"}, verdict : TestVerdicts \cup {"", "?"},
            actual : {"right", "wrong", "missing"}]
RemoteAnswers ==
    {Internal, TestAnswer("sandbox_unavailable", "", "missing")} \cup {Validated(a) : a \in Replies}

\* The answers of the executor the process was started with.
Answers == {Validated(a) : a \in IF Remote THEN RemoteAnswers ELSE {DockerAnswer(e) : e \in Ends}}

\* One turn of the loop of execute_practice.
Failures == {"syntax_error", "runtime_error", "time_limit", "internal_error"}
VerdictOn(a) ==
    IF a.status = "ok" /\ a.verdict \notin Failures \cup {"sandbox_unavailable"}
    THEN IF a.actual = "right" THEN "accepted" ELSE "wrong_answer"
    ELSE IF a.verdict \in Failures THEN a.verdict ELSE "internal_error"

\* The loop ends without a result at a test the sandbox was away for.
Judged(answers) ==
    LET failed == {k \in DOMAIN answers : VerdictOn(answers[k]) # "accepted"}
    IN  IF failed = {} THEN "accepted"
        ELSE IF answers[Min(failed)].status = "sandbox_unavailable" THEN "no result"
        ELSE VerdictOn(answers[Min(failed)])

\* Every way the tests of a submission may come out.
Runs == [1 .. Public + Hidden -> Answers]
Receipts == {Judged(answers) : answers \in Runs} \ {"no result"}

-----------------------------------------------------------------------------
\* A submission whose first test runs out of its time is told so
\* (DockerSandboxExecutor.execute, test_code_practice_service.py:484).
SlowCodeIsTimedOut ==
    \A answers \in Runs :
        answers[1] = Validated(DockerAnswer("timeout")) => Judged(answers) = "time_limit"
=============================================================================
