------------------------------ MODULE TestThreads ------------------------------
(***************************************************************************)
(* The test thread (RunTests) and the workers it starts and stops for each *)
(* measurement.  Modules TestUm and TestDriver supply what differs between *)
(* the hosts: KeInitializeEvent, the wait for a thread by its handle,      *)
(* FlushLogToFile, and whatever sets g_lAbortTests from outside.           *)
(***************************************************************************)
EXTENDS Integers, FiniteSetsExt

CONSTANTS
    MAX_TEST_THREADS,   \* entries of TEST_THREAD_MANAGER (64)
    Requested,          \* the ulCount of StartThreads (1)
    PCores, ActiveProcs,\* sets: processor counts the system may report
    Iterations,         \* nSleepSeconds * 100 turns of the poll loop (200)
    Tests, Tiers        \* correctness tests and performance tiers to run

ASSUME CountsAssumption ==
    /\ MAX_TEST_THREADS \in Nat \ {0} /\ Requested \in Nat \ {0}
    /\ PCores \subseteq Nat /\ ActiveProcs \subseteq Nat
    /\ Iterations \in Nat /\ Tests \in Nat /\ Tiers \in Nat

VARIABLES
    mpc,            \* where the test thread is
    left,           \* tests or tiers still to run
    kind,           \* "path": a literal is searched; "text": an allocated text
    mode,           \* "MatchAll" or "MatchFirst"
    bTierSuccess, ulFailed,
    tierFailed,     \* history: some tier returned FALSE
    live,           \* what is allocated or in scope: text, patterns, spm, mgr, ctx
    index,          \* the loop counter of StartThreads and StopAndWaitThreads
    ulThreadCount, pThreads, lStopFlag,                \* TEST_THREAD_MANAGER
    StartEvent,     \* a wait for the start event returns
    lStartFlag, lTestFailed,                           \* PerfWorkerCtx
    handles,        \* open handles and references to worker threads
    wpc,            \* where every worker is
    g_lAbortTests,
    verdict,        \* the last line RunAllPerformanceTests logs
    wrong           \* history: some worker saw a wrong search result

suiteVars   == << left, ulFailed, tierFailed, verdict >>
tierVars    == << kind, mode, bTierSuccess >>
managerVars == << index, ulThreadCount, pThreads, lStopFlag, StartEvent >>
ctxVars     == << lStartFlag, lTestFailed >>
threadVars  == << handles, wpc >>
vars == << mpc, suiteVars, tierVars, live, managerVars, ctxVars, threadVars,
           g_lAbortTests, wrong >>

Workers == 0 .. MAX_TEST_THREADS - 1
Modes   == {"MatchAll", "MatchFirst"}

Init ==
    /\ mpc = "absent" /\ left = Tests /\ kind = "path" /\ mode = "MatchAll"
    /\ bTierSuccess = TRUE /\ ulFailed = 0 /\ tierFailed = FALSE /\ live = {} /\ index = 0
    /\ ulThreadCount = 0 /\ pThreads = [t \in Workers |-> FALSE]
    /\ lStopFlag = 0 /\ StartEvent = FALSE /\ lStartFlag = 0 /\ lTestFailed = 0
    /\ handles = {} /\ wpc = [t \in Workers |-> "absent"]
    /\ g_lAbortTests = 0 /\ verdict = "none" /\ wrong = FALSE

-----------------------------------------------------------------------------
\* RunAllCorrectnessTests: one test, whatever it finds, aborted or not.
CorrectnessTest ==
    /\ mpc = "correctness" /\ left > 0
    /\ left' = left - 1
    /\ UNCHANGED << mpc, ulFailed, tierFailed, verdict, tierVars, live, managerVars, ctxVars,
                    threadVars, g_lAbortTests, wrong >>

CorrectnessDone ==
    /\ mpc = "correctness" /\ left = 0
    /\ mpc' = "tier" /\ left' = Tiers
    /\ UNCHANGED << ulFailed, tierFailed, verdict, tierVars, live, managerVars, ctxVars,
                    threadVars, g_lAbortTests, wrong >>

\* A tier returns after it freed some of its memory; the engine is destroyed
\* with its scope.  CheckTest counts the result unless the run is aborted.
ReturnFromTier(success, freed) ==
    /\ mpc' = "tier" /\ left' = left - 1
    /\ live' = live \ (freed \cup {"spm"})
    /\ tierFailed' = (tierFailed \/ ~success)
    /\ ulFailed' = IF g_lAbortTests = 0 /\ ~success THEN ulFailed + 1 ELSE ulFailed
    /\ UNCHANGED << verdict, tierVars, managerVars, ctxVars, threadVars,
                    g_lAbortTests, wrong >>

TierAborted == mpc = "tier" /\ left > 0 /\ g_lAbortTests = 1 /\ ReturnFromTier(FALSE, {})

\* RunRealisticPathPerformanceTier searches a literal; the three other tiers
\* allocate a text.
BeginTier(k, next) ==
    /\ mpc = "tier" /\ left > 0 /\ g_lAbortTests = 0
    /\ kind' = k /\ live' = live \cup {"spm"}
    /\ bTierSuccess' = TRUE /\ mode' = "MatchAll" /\ mpc' = next
    /\ UNCHANGED << suiteVars, managerVars, ctxVars, threadVars, g_lAbortTests, wrong >>

BeginPathTier == BeginTier("path", "patterns")
BeginTextTier == BeginTier("text", "text")

\* pwsText and pStrArray, in this order.
Allocate(object, next) ==
    /\ mpc = object /\ mpc' = next
    /\ live' = live \cup {object}
    /\ UNCHANGED << suiteVars, tierVars, managerVars, ctxVars, threadVars,
                    g_lAbortTests, wrong >>

AllocateText     == Allocate("text", "patterns")
AllocatePatterns == Allocate("patterns", "add")

Text == IF kind = "text" THEN {"text"} ELSE {}

TextFails     == mpc = "text" /\ ReturnFromTier(FALSE, {})
PatternsFail  == mpc = "patterns" /\ ReturnFromTier(FALSE, Text)

\* AddPattern refuses one of the patterns, or takes them all.
AddFailsKeepsText == mpc = "add" /\ ReturnFromTier(FALSE, {"patterns"})    \* mutant
AddFails          == mpc = "add" /\ ReturnFromTier(FALSE, {"patterns"} \cup Text)

PatternsAdded ==
    /\ mpc = "add" /\ mpc' = "mode"
    /\ UNCHANGED << suiteVars, tierVars, live, managerVars, ctxVars, threadVars,
                    g_lAbortTests, wrong >>

\* RunMode returned: MatchFirst follows a MatchAll that succeeded, and its own
\* result is ignored.
AfterMode(success) ==
    /\ mpc' = IF mode = "MatchAll" /\ success THEN "mode" ELSE "free"
    /\ mode' = IF mode = "MatchAll" /\ success THEN "MatchFirst" ELSE mode
    /\ bTierSuccess' = IF mode = "MatchAll" /\ ~success THEN FALSE ELSE bTierSuccess
    /\ UNCHANGED kind

\* RunMode finds the abort flag set, or no memory for the thread manager.
ModeFails ==
    /\ mpc = "mode"
    /\ AfterMode(FALSE)
    /\ UNCHANGED << suiteVars, live, managerVars, ctxVars, threadVars,
                    g_lAbortTests, wrong >>

\* StartThreads takes no more threads than there are processors, or entries.
Clamp(n, pCores, procs) ==
    LET limit == IF pCores > 0 THEN pCores ELSE IF procs > 0 THEN procs ELSE n
    IN Min({n, limit, MAX_TEST_THREADS})

BeginMode ==
    /\ mpc = "mode" /\ g_lAbortTests = 0
    /\ live' = live \cup {"mgr", "ctx"}
    /\ lStartFlag' = 0 /\ lTestFailed' = 0
    /\ \E pCores \in PCores, procs \in ActiveProcs :
         ulThreadCount' = Clamp(Requested, pCores, procs)
    /\ pThreads' = [t \in Workers |-> FALSE]
    /\ lStopFlag' = 0 /\ index' = 0
    /\ mpc' = "event"
    /\ UNCHANGED << suiteVars, tierVars, StartEvent, threadVars, g_lAbortTests, wrong >>

\* KeInitializeEvent, of which the host says what a wait for the event does.
InitializeEvent(signaled) ==
    /\ mpc = "event" /\ mpc' = "create"
    /\ StartEvent' = signaled
    /\ UNCHANGED << suiteVars, tierVars, live, index, ulThreadCount, pThreads, lStopFlag,
                    ctxVars, threadVars, g_lAbortTests, wrong >>

-----------------------------------------------------------------------------
\* The loop of StartThreads.  A worker runs as soon as it is created.
CreateFails ==
    /\ mpc = "create" /\ index < ulThreadCount
    /\ pThreads' = [pThreads EXCEPT ![index] = FALSE]
    /\ index' = index + 1
    /\ UNCHANGED << mpc, suiteVars, tierVars, live, ulThreadCount, lStopFlag, StartEvent,
                    ctxVars, threadVars, g_lAbortTests, wrong >>

CreateThread ==
    /\ mpc = "create" /\ index < ulThreadCount
    /\ wpc' = [wpc EXCEPT ![index] = "new"]
    /\ handles' = handles \cup {<< "handle", index >>}
    /\ mpc' = "reference"
    /\ UNCHANGED << suiteVars, tierVars, live, managerVars, ctxVars, g_lAbortTests, wrong >>

ReferenceThread ==
    /\ mpc = "reference"
    /\ pThreads' = [pThreads EXCEPT ![index] = TRUE]
    /\ handles' = (handles \ {<< "handle", index >>}) \cup {<< "object", index >>}
    /\ index' = index + 1 /\ mpc' = "create"
    /\ UNCHANGED << suiteVars, tierVars, live, ulThreadCount, lStopFlag, StartEvent,
                    ctxVars, wpc, g_lAbortTests, wrong >>

\* The thread cannot be referenced: it is told to stop, which it sees only
\* through g_lAbortTests as long as lStartFlag is not set.  Then StartThreads
\* passes its handle to KeWaitForSingleObject, which is the host's to answer.
ReferenceFails ==
    /\ mpc = "reference"
    /\ pThreads' = [pThreads EXCEPT ![index] = FALSE]
    /\ lStopFlag' = 1 /\ mpc' = "refAbort"
    /\ UNCHANGED << suiteVars, tierVars, live, index, ulThreadCount, StartEvent,
                    ctxVars, threadVars, g_lAbortTests, wrong >>

ReferenceSkipsAbort ==    \* mutant: lStopFlag would be enough
    /\ mpc = "refAbort" /\ mpc' = "refEvent"
    /\ UNCHANGED << suiteVars, tierVars, live, managerVars, ctxVars, threadVars,
                    g_lAbortTests, wrong >>

ReferenceAborts ==
    /\ mpc = "refAbort"
    /\ g_lAbortTests' = 1 /\ mpc' = "refEvent"
    /\ UNCHANGED << suiteVars, tierVars, live, managerVars, ctxVars, threadVars, wrong >>

ReferenceSetsEvent ==
    /\ mpc = "refEvent"
    /\ StartEvent' = TRUE /\ mpc' = "refWait"
    /\ UNCHANGED << suiteVars, tierVars, live, index, ulThreadCount, pThreads, lStopFlag,
                    ctxVars, threadVars, g_lAbortTests, wrong >>

\* The end of StartThreads.
SetStartEvent ==
    /\ mpc = "create" /\ index >= ulThreadCount
    /\ StartEvent' = TRUE /\ mpc' = "delay"
    /\ UNCHANGED << suiteVars, tierVars, live, index, ulThreadCount, pThreads, lStopFlag,
                    ctxVars, threadVars, g_lAbortTests, wrong >>

\* RunMode, after its delay; index is now the turn of the poll loop.
SetStartFlag ==
    /\ mpc = "delay"
    /\ lStartFlag' = 1 /\ mpc' = "poll" /\ index' = 0
    /\ UNCHANGED << suiteVars, tierVars, live, ulThreadCount, pThreads, lStopFlag, StartEvent,
                    lTestFailed, threadVars, g_lAbortTests, wrong >>

-----------------------------------------------------------------------------
\* StopAndWaitThreads: poll for an abort, stop the workers, wait for each.
Poll ==
    /\ mpc = "poll" /\ index < Iterations /\ g_lAbortTests = 0
    /\ index' = index + 1
    /\ UNCHANGED << mpc, suiteVars, tierVars, live, ulThreadCount, pThreads, lStopFlag,
                    StartEvent, ctxVars, threadVars, g_lAbortTests, wrong >>

SetStopFlag ==
    /\ mpc = "poll" /\ (index >= Iterations \/ g_lAbortTests = 1)
    /\ lStopFlag' = 1 /\ index' = 0 /\ mpc' = "join"
    /\ UNCHANGED << suiteVars, tierVars, live, ulThreadCount, pThreads, StartEvent,
                    ctxVars, threadVars, g_lAbortTests, wrong >>

JoinWithoutWait ==    \* mutant
    /\ mpc = "join" /\ index < ulThreadCount
    /\ handles' = handles \ {<< "object", index >>}
    /\ index' = index + 1
    /\ UNCHANGED << mpc, suiteVars, tierVars, live, ulThreadCount, pThreads, lStopFlag,
                    StartEvent, ctxVars, wpc, g_lAbortTests, wrong >>

JoinKeepsReference ==    \* mutant: no ObDereferenceObject
    /\ mpc = "join" /\ index < ulThreadCount
    /\ pThreads[index] => wpc[index] = "done"
    /\ index' = index + 1
    /\ UNCHANGED << mpc, suiteVars, tierVars, live, ulThreadCount, pThreads, lStopFlag,
                    StartEvent, ctxVars, threadVars, g_lAbortTests, wrong >>

JoinThread ==
    /\ mpc = "join" /\ index < ulThreadCount
    /\ pThreads[index] => wpc[index] = "done"
    /\ handles' = handles \ {<< "object", index >>}
    /\ index' = index + 1
    /\ UNCHANGED << mpc, suiteVars, tierVars, live, ulThreadCount, pThreads, lStopFlag,
                    StartEvent, ctxVars, wpc, g_lAbortTests, wrong >>

FinishWithoutAbort ==    \* mutant: a wrong result fails the mode only
    /\ mpc = "join" /\ index >= ulThreadCount
    /\ live' = live \ {"mgr", "ctx"}
    /\ AfterMode(lTestFailed = 0)
    /\ UNCHANGED << suiteVars, managerVars, ctxVars, threadVars, g_lAbortTests, wrong >>

\* RunMode after the workers are gone: an unexpected result aborts all tests.
FinishMode ==
    /\ mpc = "join" /\ index >= ulThreadCount
    /\ g_lAbortTests' = IF lTestFailed = 1 THEN 1 ELSE g_lAbortTests
    /\ live' = live \ {"mgr", "ctx"}
    /\ AfterMode(lTestFailed = 0)
    /\ UNCHANGED << suiteVars, managerVars, ctxVars, threadVars, wrong >>

FreeTier == mpc = "free" /\ ReturnFromTier(bTierSuccess, {"patterns"} \cup Text)

\* The end of RunAllPerformanceTests, then FlushLogToFile (the host's).
Summary ==
    /\ mpc = "tier" /\ left = 0
    /\ verdict' = IF g_lAbortTests = 1 THEN "aborted"
                  ELSE IF ulFailed = 0 THEN "succeeded" ELSE "failed"
    /\ mpc' = "flush"
    /\ UNCHANGED << left, ulFailed, tierFailed, tierVars, live, managerVars, ctxVars, threadVars,
                    g_lAbortTests, wrong >>

TerminateTests ==
    /\ mpc = "exit" /\ mpc' = "done"
    /\ UNCHANGED << suiteVars, tierVars, live, managerVars, ctxVars, threadVars,
                    g_lAbortTests, wrong >>

TestThreadStep ==
    \/ CorrectnessTest \/ CorrectnessDone
    \/ TierAborted \/ BeginPathTier \/ BeginTextTier
    \/ AllocateText \/ TextFails \/ AllocatePatterns \/ PatternsFail
    \/ AddFails \/ PatternsAdded \/ ModeFails \/ BeginMode
    \/ CreateFails \/ CreateThread \/ ReferenceThread
    \/ ReferenceFails \/ ReferenceAborts \/ ReferenceSetsEvent
    \/ SetStartEvent \/ SetStartFlag
    \/ Poll \/ SetStopFlag \/ JoinThread \/ FinishMode \/ FreeTier
    \/ Summary \/ TerminateTests

-----------------------------------------------------------------------------
\* PerfWorkerT, the worker of every tier.
Go(t, from, to) ==
    /\ wpc[t] = from
    /\ wpc' = [wpc EXCEPT ![t] = to]
    /\ UNCHANGED << mpc, suiteVars, tierVars, live, managerVars, lStartFlag, handles,
                    g_lAbortTests >>

WaitForStart(t) == StartEvent /\ Go(t, "new", "spin") /\ UNCHANGED << lTestFailed, wrong >>

\* The worker spins until lStartFlag is set; only an abort ends this without
\* any search.
SpinSeesAbort == g_lAbortTests = 1

Spin(t) == wpc[t] = "spin" /\ lStartFlag = 0 /\ ~SpinSeesAbort /\ UNCHANGED vars

SpinAborted(t) ==
    /\ lStartFlag = 0 /\ SpinSeesAbort
    /\ Go(t, "spin", "exit") /\ UNCHANGED << lTestFailed, wrong >>

SpinEnds(t) == lStartFlag = 1 /\ Go(t, "spin", "work") /\ UNCHANGED << lTestFailed, wrong >>

WorkStops(t) ==
    /\ lStopFlag = 1 \/ g_lAbortTests = 1
    /\ Go(t, "work", "report") /\ UNCHANGED << lTestFailed, wrong >>

BeginSearch(t) ==
    /\ lStopFlag = 0 /\ g_lAbortTests = 0
    /\ Go(t, "work", "search") /\ UNCHANGED << lTestFailed, wrong >>

SearchExpected(t) == Go(t, "search", "work") /\ UNCHANGED << lTestFailed, wrong >>

SearchUnexpected(t) ==
    /\ Go(t, "search", "report")
    /\ lTestFailed' = 1 /\ wrong' = TRUE

\* The rate is added to the context, then the thread ends.
Report(t) == Go(t, "report", "exit") /\ UNCHANGED << lTestFailed, wrong >>
Exit(t)   == Go(t, "exit", "done") /\ UNCHANGED << lTestFailed, wrong >>

WorkerStep(t) ==
    \/ WaitForStart(t) \/ Spin(t) \/ SpinAborted(t) \/ SpinEnds(t) \/ WorkStops(t)
    \/ BeginSearch(t) \/ SearchExpected(t) \/ SearchUnexpected(t)
    \/ Report(t) \/ Exit(t)

-----------------------------------------------------------------------------
Running(t) == wpc[t] \notin {"absent", "done"}

\* A worker that runs finds everything it reaches through its context still
\* there: the manager with its flags, RunMode's PerfWorkerCtx, the engine and
\* the text.  RunMode and the tiers free them only after every worker ended.
NoUseAfterFree ==
    \A t \in Workers : Running(t) =>
      {"mgr", "ctx", "spm"} \cup Text \subseteq live

\* Where no tier runs.
BetweenTiers == mpc \in {"tier", "flush", "flushing", "exit", "done"}

\* A worker that saw a wrong result makes the whole run "aborted": it is
\* never reported as succeeded or merely failed, in MatchFirst mode neither,
\* whose result the tiers ignore.  A tier whose set-up or whose MatchAll mode
\* failed is never reported as succeeded, although CheckTest does not count
\* the tiers that return after an abort.
FailureReported ==
    verdict # "none" =>
      /\ wrong => verdict = "aborted"
      /\ tierFailed => verdict # "succeeded"
===============================================================================
