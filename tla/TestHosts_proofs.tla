--------------------------- MODULE TestHosts_proofs ---------------------------
(***************************************************************************)
(* Proofs about the test harness in both of its hosts, for every number of *)
(* threads, tests and tiers, every length of the poll loop and every size  *)
(* of the log.                                                             *)
(***************************************************************************)
EXTENDS TestHosts, TLAPS

\* Where the test thread is between the creation of the first worker and the
\* end of the last one, and where it handles a worker that has no reference.
InMode == {"event", "create", "reference", "refAbort", "refEvent", "refWait", "stopped",
           "delay", "poll", "join"}
Referencing == {"reference", "refAbort", "refEvent", "refWait", "stopped"}
Outside == {"absent", "correctness", "tier", "flush", "flushing", "exit", "done"}

\* A tier before its first mode, while it allocates and adds the patterns.
Setup == {"text", "patterns", "add"}

WorkerPlaces == {"absent", "new", "spin", "work", "search", "report", "exit", "done"}

ThreadType ==
    /\ mpc \in InMode \cup Outside \cup Setup \cup {"mode", "free"}
    /\ kind \in {"path", "text"} /\ (mpc = "text" => kind = "text")
    /\ ulFailed \in Nat /\ tierFailed \in BOOLEAN
    /\ index \in Nat /\ ulThreadCount \in 0 .. MAX_TEST_THREADS
    /\ pThreads \in [Workers -> BOOLEAN] /\ wpc \in [Workers -> WorkerPlaces]
    /\ g_lAbortTests \in {0, 1} /\ lTestFailed \in {0, 1} /\ wrong \in BOOLEAN

\* What is allocated follows from where the test thread is.
TierObjects == {"spm", "patterns"} \cup Text
Allocated ==
    live = IF mpc \in Outside THEN {}
           ELSE IF mpc = "text" THEN {"spm"}
           ELSE IF mpc = "patterns" THEN {"spm"} \cup Text
           ELSE IF mpc \in InMode THEN TierObjects \cup {"mgr", "ctx"}
           ELSE TierObjects

\* The workers the test thread has still to wait for: those with a reference
\* that were not joined yet.
Referenced == {t \in Workers : pThreads[t] /\ (mpc = "join" => t >= index)}

\* Every open handle belongs to one of them, or to the worker being created;
\* no other worker runs.
Accounted ==
    IF mpc \notin InMode THEN handles = {} /\ \A t \in Workers : ~Running(t)
    ELSE /\ handles = {<< "object", t >> : t \in Referenced}
                      \cup (IF mpc \in Referencing THEN {<< "handle", index >>} ELSE {})
         /\ \A t \in Workers :
              Running(t) => t \in Referenced \/ (mpc \in Referencing /\ t = index)

\* How far the loops of StartThreads and StopAndWaitThreads have come.
Started ==
    /\ mpc \in InMode => \A t \in Workers : pThreads[t] => t < ulThreadCount
    /\ mpc \in Referencing => index < ulThreadCount
    /\ mpc \in Referencing \cup {"event", "create"} =>
         index <= ulThreadCount /\ \A t \in Workers : pThreads[t] => t < index

\* A wrong result is remembered by the context until the mode has ended, and
\* by the abort flag from then on; a tier that failed is counted, unless the
\* abort flag was set.
Remembered ==
    /\ wrong => g_lAbortTests = 1 \/ (mpc \in InMode /\ lTestFailed = 1)
    /\ verdict # "none" => mpc \in {"flush", "flushing", "exit", "done"}
    /\ wrong /\ verdict # "none" => verdict = "aborted"
    /\ tierFailed => ulFailed > 0 \/ g_lAbortTests = 1
    /\ tierFailed => verdict # "succeeded"

TInv == ThreadType /\ Allocated /\ Accounted /\ Started /\ Remembered

-----------------------------------------------------------------------------
\* The driver's part: the tests run only while a reference to their thread
\* keeps the unload waiting, and the log buffer exists as long as they run.
Over == mpc \in {"absent", "done"}
LoaderPlaces == {"entry", "create", "reference", "loaded", "wait", "freeLog",
                 "clearLog", "logUnloaded", "unloaded"}
LogPlaces == {"out", "lock", "check", "copy", "unlock", "logged"}

LoaderInv ==
    /\ loader \in LoaderPlaces /\ g_pMasterBenchmarkThread \in BOOLEAN
    /\ loader \in {"entry", "create"} => mpc = "absent"
    /\ loader \in {"loaded", "wait"} => g_pMasterBenchmarkThread \/ mpc = "absent"
    /\ loader \in {"freeLog", "clearLog", "logUnloaded", "unloaded"} => Over

LogInv ==
    /\ logPool \in BOOLEAN /\ g_pLogBuffer \in BOOLEAN
    /\ g_cbLogBufferOffset \in Nat
    /\ logpc \in [Callers -> LogPlaces] /\ line \in [Callers -> Nat]
    /\ loader \notin {"clearLog"} => (g_pLogBuffer <=> logPool)
    /\ loader \in {"clearLog", "logUnloaded", "unloaded"} => ~logPool
    /\ mpc = "flushing" => logPool
    /\ logpc["tests"] \notin {"out", "logged"} => TestsLog
    /\ logpc["loader"] # "out" => loader \in {"logUnloaded", "unloaded"}
    /\ logpc["loader"] # "copy"
    /\ logpc["tests"] = "copy" => logPool /\ Fits("tests")

DriverInv == main = "none" /\ LoaderInv /\ LogInv

\* The user mode program's part.
MainInv ==
    /\ main \in {"create", "reference", "wait", "exiting", "exited"}
    /\ main = "create" => mpc = "absent"
    /\ main \in {"exiting", "exited"} => Over
    /\ mpc # "flushing" /\ loader = "entry"
    /\ \A c \in Callers : logpc[c] = "out"

-----------------------------------------------------------------------------
\* StartThreads starts at least one thread and no more than there are entries
\* to keep them in, whatever the system reports of its processors.
LEMMA ClampInRange ==
    ASSUME NEW p \in PCores, NEW q \in ActiveProcs
    PROVE  Clamp(Requested, p, q) \in 1 .. MAX_TEST_THREADS
<1> DEFINE limit == IF p > 0 THEN p ELSE IF q > 0 THEN q ELSE Requested
           S == {Requested, limit, MAX_TEST_THREADS}
<1>1. S \subseteq Nat \ {0} /\ MAX_TEST_THREADS \in S
  BY CountsAssumption
<1>2. \E x \in S : \A y \in S : x <= y
  BY CountsAssumption
<1>3. Min(S) \in S /\ \A y \in S : Min(S) <= y
  BY <1>2, Zenon DEF Min
<1> HIDE DEF S
<1>4. ASSUME NEW m \in S, m <= MAX_TEST_THREADS PROVE m \in 1 .. MAX_TEST_THREADS
  BY <1>1, <1>4, CountsAssumption
<1>5. Min(S) \in 1 .. MAX_TEST_THREADS
  BY <1>1, <1>3, <1>4, Zenon
<1> QED BY <1>5, Zenon DEF Clamp, S

\* Every step of the test thread keeps TInv: what it frees is no longer used,
\* and it leaves no worker behind that it has no reference to.
LEMMA TestThreadKeeps ==
    ASSUME TInv, TestThreadStep
    PROVE  TInv'
<1> USE CountsAssumption DEF TInv, InMode, Outside, Referencing, WorkerPlaces, Workers,
        Setup, TierObjects, Text, suiteVars, tierVars, managerVars, ctxVars, threadVars
<1>1. CASE CorrectnessTest
  BY <1>1
  DEF CorrectnessTest, ThreadType, Allocated, Accounted, Referenced, Running, Started,
      Remembered
<1>2. CASE CorrectnessDone
  BY <1>2
  DEF CorrectnessDone, ThreadType, Allocated, Accounted, Referenced, Running, Started,
      Remembered
<1>3. CASE TierAborted
  BY <1>3
  DEF TierAborted, ReturnFromTier, ThreadType, Allocated, Accounted, Referenced, Running, Started,
      Remembered
<1>4. CASE BeginPathTier
  BY <1>4
  DEF BeginPathTier, BeginTier, ThreadType, Allocated, Accounted, Referenced, Running, Started,
      Remembered
<1>5. CASE BeginTextTier
  BY <1>5
  DEF BeginTextTier, BeginTier, ThreadType, Allocated, Accounted, Referenced, Running, Started,
      Remembered
<1>24. CASE AllocateText
  BY <1>24
  DEF AllocateText, Allocate, ThreadType, Allocated, Accounted, Referenced, Running, Started,
      Remembered
<1>25. CASE AllocatePatterns
  BY <1>25
  DEF AllocatePatterns, Allocate, ThreadType, Allocated, Accounted, Referenced, Running, Started,
      Remembered
<1>26. CASE TextFails
  BY <1>26
  DEF TextFails, ReturnFromTier, ThreadType, Allocated, Accounted, Referenced, Running, Started,
      Remembered
<1>27. CASE PatternsFail
  BY <1>27
  DEF PatternsFail, ReturnFromTier, ThreadType, Allocated, Accounted, Referenced, Running, Started,
      Remembered
<1>28. CASE AddFails
  BY <1>28
  DEF AddFails, ReturnFromTier, ThreadType, Allocated, Accounted, Referenced, Running, Started,
      Remembered
<1>29. CASE PatternsAdded
  BY <1>29
  DEF PatternsAdded, ThreadType, Allocated, Accounted, Referenced, Running, Started,
      Remembered
<1>6. CASE ModeFails
  BY <1>6
  DEF ModeFails, AfterMode, ThreadType, Allocated, Accounted, Referenced, Running, Started,
      Remembered
<1>7. CASE BeginMode
  <2>1. ulThreadCount' \in 1 .. MAX_TEST_THREADS
    BY <1>7, ClampInRange DEF BeginMode
  <2>2. ThreadType'
    BY <1>7, <2>1 DEF BeginMode, ThreadType
  <2>3. Allocated' /\ Accounted'
    BY <1>7 DEF BeginMode, ThreadType, Allocated, Accounted, Referenced, Running
  <2>4. Started'
    BY <1>7, <2>1 DEF BeginMode, Started
  <2>5. Remembered'
    BY <1>7 DEF BeginMode, Remembered
  <2> QED BY <2>2, <2>3, <2>4, <2>5
<1>8. CASE CreateFails
  <2>1. ~pThreads[index] /\ pThreads' = pThreads
    BY <1>8 DEF CreateFails, ThreadType, Started
  <2> QED BY <1>8, <2>1
          DEF CreateFails, ThreadType, Allocated, Accounted, Referenced, Running, Started,
              Remembered
<1>9. CASE CreateThread
  BY <1>9
  DEF CreateThread, ThreadType, Allocated, Accounted, Referenced, Running, Started,
      Remembered
<1>10. CASE ReferenceThread
  <2>1. index \in Workers
    BY <1>10 DEF ReferenceThread, ThreadType, Started
  <2>2. ThreadType' /\ Allocated' /\ Remembered'
    BY <1>10, <2>1 DEF ReferenceThread, ThreadType, Allocated, Remembered
  <2>3. \A t \in Workers : pThreads'[t] <=> pThreads[t] \/ t = index
    BY <1>10, <2>1 DEF ReferenceThread, ThreadType
  <2>4. Accounted'
    BY <1>10, <2>1, <2>3 DEF ReferenceThread, ThreadType, Accounted, Referenced, Running
  <2>5. ASSUME NEW t \in Workers, pThreads'[t] PROVE t < index'
    BY <1>10, <2>3, <2>5 DEF ReferenceThread, ThreadType, Started
  <2>6. index' <= ulThreadCount'
    BY <1>10 DEF ReferenceThread, ThreadType, Started
  <2>7. ASSUME NEW t \in Workers, pThreads'[t] PROVE t < ulThreadCount'
    BY <1>10, <2>3, <2>7 DEF ReferenceThread, ThreadType, Started
  <2>8. Started'
    BY <1>10, <2>5, <2>6, <2>7 DEF ReferenceThread, Started
  <2> QED BY <2>2, <2>4, <2>8
<1>11. CASE ReferenceFails
  <2>1. ~pThreads[index] /\ pThreads' = pThreads
    BY <1>11 DEF ReferenceFails, ThreadType, Started
  <2> QED BY <1>11, <2>1
          DEF ReferenceFails, ThreadType, Allocated, Accounted, Referenced, Running, Started,
              Remembered
<1>12. CASE ReferenceAborts
  BY <1>12
  DEF ReferenceAborts, ThreadType, Allocated, Accounted, Referenced, Running, Started,
      Remembered
<1>13. CASE ReferenceSetsEvent
  BY <1>13
  DEF ReferenceSetsEvent, ThreadType, Allocated, Accounted, Referenced, Running, Started,
      Remembered
<1>15. CASE SetStartEvent
  BY <1>15
  DEF SetStartEvent, ThreadType, Allocated, Accounted, Referenced, Running, Started,
      Remembered
<1>16. CASE SetStartFlag
  BY <1>16
  DEF SetStartFlag, ThreadType, Allocated, Accounted, Referenced, Running, Started,
      Remembered
<1>17. CASE Poll
  <2>1. ThreadType' /\ Allocated' /\ Started' /\ Remembered'
    BY <1>17 DEF Poll, ThreadType, Allocated, Started, Remembered
  <2>2. Accounted'
    BY <1>17 DEF Poll, ThreadType, Accounted, Referenced, Running
  <2> QED BY <2>1, <2>2
<1>18. CASE SetStopFlag
  <2>1. ThreadType' /\ Allocated' /\ Started' /\ Remembered'
    BY <1>18 DEF SetStopFlag, ThreadType, Allocated, Started, Remembered
  <2>2. Accounted'
    BY <1>18 DEF SetStopFlag, ThreadType, Accounted, Referenced, Running
  <2> QED BY <2>1, <2>2
<1>19. CASE JoinThread
  <2>1. index \in Workers
    BY <1>19 DEF JoinThread, ThreadType
  <2>2. ThreadType' /\ Allocated' /\ Started' /\ Remembered'
    BY <1>19 DEF JoinThread, ThreadType, Allocated, Started, Remembered
  <2>3. ~Running(index) \/ ~pThreads[index]
    BY <1>19 DEF JoinThread, Running
  <2>4. Referenced' = Referenced \ {index}
    BY <1>19, <2>1 DEF JoinThread, ThreadType, Referenced
  <2>5. \A t \in Workers : Running(t)' => t \in Referenced'
    BY <1>19, <2>3, <2>4 DEF JoinThread, Accounted, Referenced, Running
  <2>6. handles = {<< "object", t >> : t \in Referenced}
    BY <1>19 DEF JoinThread, Accounted
  <2>7. handles' = {<< "object", t >> : t \in Referenced'}
    BY <1>19, <2>4, <2>6 DEF JoinThread
  <2>8. Accounted'
    BY <1>19, <2>5, <2>7 DEF JoinThread, Accounted
  <2> QED BY <2>2, <2>8
<1>20. CASE FinishMode
  BY <1>20
  DEF FinishMode, AfterMode, ThreadType, Allocated, Accounted, Referenced, Running, Started,
      Remembered
<1>21. CASE FreeTier
  BY <1>21
  DEF FreeTier, ReturnFromTier, ThreadType, Allocated, Accounted, Referenced, Running, Started,
      Remembered
<1>22. CASE Summary
  BY <1>22
  DEF Summary, ThreadType, Allocated, Accounted, Referenced, Running, Started,
      Remembered
<1>23. CASE TerminateTests
  BY <1>23
  DEF TerminateTests, ThreadType, Allocated, Accounted, Referenced, Running, Started,
      Remembered
<1> QED BY <1>1, <1>2, <1>3, <1>4, <1>5, <1>6, <1>7, <1>8, <1>9, <1>10, <1>11, <1>12, <1>13, <1>15, <1>16, <1>17, <1>18, <1>19, <1>20, <1>21, <1>22, <1>23,
  <1>24, <1>25, <1>26, <1>27, <1>28, <1>29 DEF TestThreadStep

\* A worker's step: it frees nothing, and a wrong result is remembered.
LEMMA WorkerKeeps ==
    ASSUME TInv, NEW t \in Workers, WorkerStep(t)
    PROVE  TInv'
<1> USE CountsAssumption DEF TInv, InMode, Outside, Referencing, WorkerPlaces,
        suiteVars, tierVars, managerVars
<1>1. ASSUME vars' = vars PROVE TInv'
  BY <1>1 DEF vars, ThreadType, Allocated, TierObjects, Text, Accounted, Referenced, Running,
     Started, Remembered, ctxVars, threadVars
<1>2. ASSUME NEW from \in WorkerPlaces \ {"absent", "done"},
             NEW to \in WorkerPlaces, Go(t, from, to),
             \/ UNCHANGED << lTestFailed, wrong >>
             \/ lTestFailed' = 1 /\ wrong' = TRUE
      PROVE  TInv'
  <2>1. Running(t) /\ \A u \in Workers : Running(u)' => Running(u)
    BY <1>2 DEF Go, ThreadType, Running
  <2>2. UNCHANGED << mpc, kind, live, ulFailed, tierFailed, index, ulThreadCount, pThreads,
                     g_lAbortTests >>
    BY <1>2 DEF Go
  <2>6. wpc' \in [Workers -> WorkerPlaces] /\ lTestFailed' \in {0, 1} /\ wrong' \in BOOLEAN
    BY <1>2 DEF Go, ThreadType
  <2>7. ThreadType'
    BY <2>2, <2>6 DEF ThreadType
  <2>8. Allocated' /\ Started'
    BY <2>2 DEF Allocated, TierObjects, Text, Started
  <2>3. Accounted'
    BY <1>2, <2>1 DEF Go, Accounted, Referenced
  <2>4. mpc \in InMode
    BY <2>1 DEF Accounted
  <2>5. Remembered'
    BY <1>2, <2>4 DEF Go, Remembered
  <2> QED BY <2>3, <2>5, <2>7, <2>8
<1>3. \/ vars' = vars
      \/ \E from \in WorkerPlaces \ {"absent", "done"}, to \in WorkerPlaces :
           /\ Go(t, from, to)
           /\ \/ UNCHANGED << lTestFailed, wrong >>
              \/ lTestFailed' = 1 /\ wrong' = TRUE
  BY DEF WorkerStep, WaitForStart, Spin, SpinAborted, SpinEnds, WorkStops, BeginSearch,
     SearchExpected, SearchUnexpected, Report, Exit
<1> QED BY <1>1, <1>2, <1>3

\* What the hosts supply: the event, the user mode program's wait for a thread
\* by its handle, and the end of the system in the driver.
LEMMA EventKeeps ==
    ASSUME TInv, NEW b \in BOOLEAN, InitializeEvent(b)
    PROVE  TInv'
BY DEF InitializeEvent, TInv, ThreadType, Allocated, TierObjects, Text, Accounted, Referenced,
   Running, Started, Remembered, InMode, Outside, Referencing, Setup, Workers, suiteVars,
   tierVars, managerVars, ctxVars, threadVars

LEMMA WaitKeeps ==
    ASSUME TInv, Um!ReferenceWaits
    PROVE  TInv'
BY DEF Um!ReferenceWaits, TInv, ThreadType, Allocated, TierObjects, Text, Accounted, Referenced,
   Running, Started, Remembered, InMode, Outside, Referencing, Setup, Workers, Um!suiteVars,
   Um!tierVars, Um!ctxVars

LEMMA StopKeeps ==
    ASSUME TInv, ReferenceStops
    PROVE  TInv'
BY DEF ReferenceStops, TInv, ThreadType, Allocated, TierObjects, Text, Accounted, Referenced,
   Running, Started, Remembered, InMode, Outside, Referencing, Setup, Workers, suiteVars,
   tierVars, managerVars, ctxVars, threadVars

\* A step of the hosts that moves nothing but the test thread, between places
\* where no worker runs and nothing is allocated.
HostMoves ==
    /\ << mpc, mpc' >> \in {<< "absent", "correctness" >>, << "flush", "flushing" >>,
                            << "flush", "exit" >>, << "flushing", "exit" >>}
    /\ UNCHANGED << suiteVars, tierVars, live, managerVars, ctxVars, threadVars,
                    g_lAbortTests, wrong >>

LEMMA HostKeeps ==
    ASSUME TInv, HostMoves
    PROVE  TInv'
BY DEF TInv, HostMoves, InMode, Outside, Referencing, suiteVars, tierVars, managerVars,
   ctxVars, threadVars, ThreadType, Allocated, Accounted, Running, Started, Remembered

\* The abort of an unload, which may come at any time.
LEMMA AbortKeeps ==
    ASSUME TInv, UnloadAborts
    PROVE  TInv'
BY DEF TInv, UnloadAborts, ThreadType, Allocated, TierObjects, Text, Accounted, Referenced,
   Running, Started, Remembered, suiteVars, tierVars, managerVars, ctxVars, threadVars

LEMMA StutterKeeps ==
    ASSUME TInv, UNCHANGED vars
    PROVE  TInv'
BY DEF TInv, vars, ThreadType, Allocated, TierObjects, Text, Accounted, Referenced, Running,
   Started, Remembered, suiteVars, tierVars, managerVars, ctxVars, threadVars

-----------------------------------------------------------------------------
\* The user mode program runs the same test thread and the same workers.
LEMMA UmThreads ==
    /\ UNCHANGED Um!vars <=> UNCHANGED vars
    /\ Um!Workers = Workers
    /\ Um!TestThreadStep <=> TestThreadStep
    /\ \A b \in BOOLEAN : Um!InitializeEvent(b) <=> InitializeEvent(b)
    /\ \A t \in Workers : Um!WorkerStep(t) <=> WorkerStep(t)
    /\ \A t \in Workers : Um!Running(t) <=> Running(t)
<1>1. (UNCHANGED Um!vars <=> UNCHANGED vars) /\ Um!Workers = Workers
  BY DEF suiteVars, Um!suiteVars, tierVars, Um!tierVars, managerVars,
         Um!managerVars, ctxVars, Um!ctxVars, threadVars, Um!threadVars, vars,
         Um!vars, Workers, Um!Workers
<1>2. Um!TestThreadStep <=> TestThreadStep
  BY <1>1 DEF
       TestThreadStep, Um!TestThreadStep, CorrectnessTest, Um!CorrectnessTest,
       CorrectnessDone, Um!CorrectnessDone, TierAborted, Um!TierAborted, BeginPathTier,
       Um!BeginPathTier, BeginTextTier, Um!BeginTextTier, Allocate, Um!Allocate,
       AllocateText, Um!AllocateText, AllocatePatterns, Um!AllocatePatterns,
       TextFails, Um!TextFails, PatternsFail, Um!PatternsFail, AddFails, Um!AddFails,
       PatternsAdded, Um!PatternsAdded, Text, Um!Text, ModeFails, Um!ModeFails,
       BeginMode, Um!BeginMode, CreateFails, Um!CreateFails, CreateThread,
       Um!CreateThread, ReferenceThread, Um!ReferenceThread, ReferenceFails,
       Um!ReferenceFails, ReferenceAborts, Um!ReferenceAborts, ReferenceSetsEvent,
       Um!ReferenceSetsEvent, SetStartEvent, Um!SetStartEvent, SetStartFlag, Um!SetStartFlag, Poll, Um!Poll, SetStopFlag,
       Um!SetStopFlag, JoinThread, Um!JoinThread, FinishMode, Um!FinishMode,
       FreeTier, Um!FreeTier, Summary, Um!Summary, TerminateTests,
       Um!TerminateTests, ReturnFromTier, Um!ReturnFromTier, BeginTier,
       Um!BeginTier, AfterMode, Um!AfterMode, Clamp, Um!Clamp, Min, Um!Min,
       suiteVars, Um!suiteVars, tierVars, Um!tierVars, managerVars, Um!managerVars,
       ctxVars, Um!ctxVars, threadVars, Um!threadVars, vars, Um!vars, Workers,
       Um!Workers
<1>3. ASSUME NEW t \in Workers PROVE Um!WorkerStep(t) <=> WorkerStep(t)
  BY <1>1 DEF
       WorkerStep, Um!WorkerStep, Go, Um!Go, WaitForStart, Um!WaitForStart, Spin,
       Um!Spin, SpinSeesAbort, Um!SpinSeesAbort, SpinAborted, Um!SpinAborted,
       SpinEnds, Um!SpinEnds, WorkStops, Um!WorkStops, BeginSearch, Um!BeginSearch,
       SearchExpected, Um!SearchExpected, SearchUnexpected, Um!SearchUnexpected,
       Report, Um!Report, Exit, Um!Exit, suiteVars, Um!suiteVars, tierVars,
       Um!tierVars, managerVars, Um!managerVars, ctxVars, Um!ctxVars, threadVars,
       Um!threadVars, vars, Um!vars
<1>4. ASSUME NEW t \in Workers PROVE Um!Running(t) <=> Running(t)
  BY DEF Running, Um!Running
<1>5. ASSUME NEW b \in BOOLEAN PROVE Um!InitializeEvent(b) <=> InitializeEvent(b)
  BY DEF InitializeEvent, Um!InitializeEvent, suiteVars, Um!suiteVars, tierVars, Um!tierVars,
     ctxVars, Um!ctxVars, threadVars, Um!threadVars
<1> QED BY <1>1, <1>2, <1>3, <1>4, <1>5

\* The test thread moves only between its start and its end, and only the
\* driver's FlushLogToFile takes it to "flushing"; the workers do not move it.
LEMMA TestThreadMoves ==
    ASSUME TestThreadStep
    PROVE  /\ mpc \notin {"absent", "flush", "flushing", "done", "stopped"}
           /\ mpc' \notin {"absent", "flushing", "stopped"}
BY DEF TestThreadStep, CorrectnessTest, CorrectnessDone, TierAborted, BeginPathTier, BeginTextTier,
   Allocate, AllocateText, AllocatePatterns, TextFails, PatternsFail, AddFails, PatternsAdded,
   ModeFails, BeginMode, CreateFails, CreateThread, ReferenceThread,
   ReferenceFails, ReferenceAborts, ReferenceSetsEvent,
   SetStartEvent, SetStartFlag, Poll, SetStopFlag, JoinThread, FinishMode,
   FreeTier, Summary, TerminateTests, ReturnFromTier, BeginTier, AfterMode

LEMMA WorkerMoves ==
    ASSUME NEW t \in Workers, WorkerStep(t)
    PROVE  mpc' = mpc
BY DEF WorkerStep, Go, WaitForStart, Spin, SpinAborted, SpinEnds, WorkStops, BeginSearch,
   SearchExpected, SearchUnexpected, Report, Exit, vars

LEMMA WorkerLeaves ==
    ASSUME NEW t \in Workers, WorkerStep(t)
    PROVE  UNCHANGED << mpc, left, mode >>
BY DEF WorkerStep, Go, WaitForStart, Spin, SpinAborted, SpinEnds, WorkStops, BeginSearch,
   SearchExpected, SearchUnexpected, Report, Exit, vars, suiteVars, tierVars

-----------------------------------------------------------------------------
\* The tests are not started before the host has created their thread.
Unstarted ==
    /\ host \in {"driver", "um"}
    /\ host = "driver" /\ loader \in {"entry", "create"} => mpc = "absent"
    /\ host = "um" /\ main = "create" => mpc = "absent"

\* The modes that the running tier has begun, and the event handles: no more
\* than one for each of them and two for each tier before.
Begun ==
    IF mpc = "free" \/ (mpc \in InMode \ {"event"} /\ mode = "MatchFirst") THEN 2
    ELSE IF mpc \in InMode \ {"event"} \/ (mpc \in {"mode", "event"} /\ mode = "MatchFirst") THEN 1
    ELSE 0

EventsLeft ==
    /\ mode \in Modes /\ hEvents \in Nat
    /\ host = "driver" \/ mpc \in {"absent", "correctness"} => hEvents = 0
    /\ mpc \in {"absent", "correctness"} => left \in Nat
    /\ mpc \notin {"absent", "correctness"} =>
         /\ left \in 0 .. Tiers /\ (mpc \notin Outside => left > 0)
         /\ hEvents <= 2 * (Tiers - left) + Begun

AnyInv == TInv /\ Unstarted /\ EventsLeft

HInv ==
    /\ AnyInv
    /\ \/ host = "driver" /\ DriverInv
       \/ host = "um" /\ MainInv

LEMMA InitAny ==
    HostInit => AnyInv
<1> SUFFICES ASSUME HostInit PROVE AnyInv
  OBVIOUS
<1> USE CountsAssumption DEF HostInit, DriverInit, Init
<1>1. ThreadType
  <2>1. pThreads \in [Workers -> BOOLEAN] /\ wpc \in [Workers -> WorkerPlaces]
    BY DEF WorkerPlaces
  <2>2. index \in Nat /\ ulThreadCount \in 0 .. MAX_TEST_THREADS
    OBVIOUS
  <2>3. wrong \in BOOLEAN
    BY Zenon
  <2> QED BY <2>1, <2>2, <2>3 DEF ThreadType, InMode, Outside
<1>2. Allocated /\ Accounted /\ Started /\ Remembered
  BY DEF Allocated, Accounted, Running, Started, Remembered, InMode, Outside, Referencing
<1>3. Unstarted
  BY DEF Unstarted
<1>4. EventsLeft
  BY DEF EventsLeft, Modes, Um!MainInit
<1> QED BY <1>1, <1>2, <1>3, <1>4 DEF AnyInv, TInv

\* The test thread gives its tiers back one by one, and each begins no more
\* than two modes.
LEMMA EventsKeep ==
    ASSUME TInv, EventsLeft, TestThreadStep, UNCHANGED << host, hEvents >>
    PROVE  EventsLeft'
<1> USE CountsAssumption DEF EventsLeft, Begun, InMode, Outside, Modes, suiteVars, tierVars
<1>1. CASE CorrectnessTest
  BY <1>1 DEF CorrectnessTest
<1>2. CASE CorrectnessDone
  BY <1>2 DEF CorrectnessDone
<1>3. CASE TierAborted \/ TextFails \/ PatternsFail \/ AddFails \/ FreeTier
  <2>1. /\ mpc \notin {"absent", "correctness"} /\ left > 0
        /\ mpc' = "tier" /\ left' = left - 1 /\ mode' = mode
    BY <1>3 DEF TierAborted, TextFails, PatternsFail, AddFails, FreeTier, ReturnFromTier
  <2>2. Begun \in 0 .. 2 /\ Begun' = 0
    BY <2>1
  <2> HIDE DEF Begun
  <2>3. hEvents <= 2 * (Tiers - left) + 2
    BY <2>1, <2>2
  <2> QED BY <2>1, <2>2, <2>3
<1>4. CASE BeginPathTier \/ BeginTextTier
  BY <1>4 DEF BeginPathTier, BeginTextTier, BeginTier
<1>5. CASE AllocateText \/ AllocatePatterns \/ PatternsAdded
  <2>1. /\ mpc \in {"text", "patterns", "add"} /\ mpc' \in {"patterns", "add", "mode"}
        /\ UNCHANGED << left, mode >>
    BY <1>5 DEF AllocateText, AllocatePatterns, Allocate, PatternsAdded
  <2>2. Begun = 0 /\ Begun' \in Nat
    BY <2>1
  <2> HIDE DEF Begun
  <2>3. left > 0 /\ left' = left /\ hEvents <= 2 * (Tiers - left')
    BY <2>1, <2>2
  <2>4. hEvents' <= 2 * (Tiers - left') + Begun'
    BY <2>1, <2>2, <2>3
  <2> QED BY <2>1, <2>3, <2>4
<1>6. CASE ModeFails
  BY <1>6 DEF ModeFails, AfterMode
<1>7. CASE BeginMode
  BY <1>7 DEF BeginMode
<1>8. CASE FinishMode
  BY <1>8 DEF FinishMode, AfterMode
<1>9. CASE Summary
  BY <1>9 DEF Summary
<1>10. CASE TerminateTests
  BY <1>10 DEF TerminateTests
<1>11. CASE \/ CreateFails \/ CreateThread \/ ReferenceThread \/ ReferenceFails
            \/ ReferenceAborts \/ ReferenceSetsEvent \/ SetStartEvent \/ SetStartFlag
            \/ Poll \/ SetStopFlag \/ JoinThread
  <2>1. /\ {mpc, mpc'} \subseteq InMode \ {"event"} /\ UNCHANGED << left, mode >>
    BY <1>11 DEF CreateFails, CreateThread, ReferenceThread, ReferenceFails, ReferenceAborts,
       ReferenceSetsEvent, SetStartEvent, SetStartFlag, Poll, SetStopFlag, JoinThread
  <2>2. Begun' = Begun
    BY <2>1
  <2> HIDE DEF Begun
  <2> QED BY <2>1, <2>2
<1> QED BY <1>1, <1>2, <1>3, <1>4, <1>5, <1>6, <1>7, <1>8, <1>9, <1>10, <1>11
       DEF TestThreadStep

\* What a host's own step does to the events: the user mode program opens one
\* for a mode, and closes all when it ends.
LEMMA EventsFollow ==
    ASSUME TInv, EventsLeft, UNCHANGED << host, left, mode >>, hEvents' \in Nat,
           \/ mpc' = mpc /\ hEvents' <= hEvents
           \/ /\ mpc = "event" /\ mpc' = "create"
              /\ hEvents' = hEvents \/ (host = "um" /\ hEvents' = hEvents + 1)
           \/ << mpc, mpc' >> = << "refWait", "create" >> /\ hEvents' = hEvents
           \/ << mpc, mpc' >> = << "refWait", "stopped" >> /\ hEvents' = hEvents
           \/ HostMoves /\ hEvents' = hEvents
    PROVE  EventsLeft'
BY CountsAssumption
DEF EventsLeft, Begun, InMode, Outside, Modes, HostMoves, suiteVars, tierVars

\* A step of the driver, seen by the test thread and its workers.
LEMMA DriverSteps ==
    ASSUME InDriver(DriverNext), Unstarted
    PROVE  \/ UNCHANGED vars
           \/ HostMoves
           \/ UnloadAborts
           \/ InitializeEvent(FALSE)
           \/ ReferenceStops
           \/ TestThreadStep
           \/ \E t \in Workers : WorkerStep(t)
<1> USE DEF InDriver
<1>1. CASE EntryCreates
  BY <1>1 DEF EntryCreates, HostMoves, Unstarted, vars
<1>2. CASE LoaderStep /\ ~EntryCreates
  BY <1>2 DEF LoaderStep, EntryAllocatesLog, EntryReferences, UnloadWaits, UnloadFreesLog,
     UnloadClearsLog, UnloadLogs, UnloadReturns
<1>3. CASE FlushLogToFile
  BY <1>3 DEF FlushLogToFile, FlushBegins, FlushWrites, HostMoves
<1>4. CASE TestsRecord \/ TestsProceed \/ Unloaded \/ Halted
  BY <1>4 DEF TestsRecord, TestsProceed, Unloaded, Halted, allVars
<1>5. CASE \E t \in Workers : PoolStep(t)
  BY <1>5 DEF PoolStep
<1>6. CASE KeInitializeEvent \/ ReferenceStops
  BY <1>6 DEF KeInitializeEvent
<1> QED BY <1>1, <1>2, <1>3, <1>4, <1>5, <1>6 DEF DriverNext, ThreadStep

\* The same for the user mode program.
LEMMA UmSteps ==
    ASSUME InUm(Um!MainNext), Unstarted
    PROVE  \/ UNCHANGED vars
           \/ HostMoves
           \/ \E b \in BOOLEAN : InitializeEvent(b)
           \/ Um!ReferenceWaits
           \/ TestThreadStep
           \/ \E t \in Workers : WorkerStep(t)
<1> USE DEF InUm
<1>1. CASE Um!MainCreates
  BY <1>1 DEF Um!MainCreates, HostMoves, Unstarted, vars,
     Um!suiteVars, Um!tierVars, Um!managerVars, Um!ctxVars, Um!threadVars,
     suiteVars, tierVars, managerVars, ctxVars, threadVars
<1>2. CASE Um!MainReferences \/ Um!MainWaits \/ Um!MainReturns
  BY <1>2, UmThreads DEF Um!MainReferences, Um!MainWaits, Um!MainReturns
<1>3. CASE Um!FlushLogToFile
  BY <1>3 DEF Um!FlushLogToFile, HostMoves,
     Um!suiteVars, Um!tierVars, Um!managerVars, Um!ctxVars, Um!threadVars,
     suiteVars, tierVars, managerVars, ctxVars, threadVars
<1>4. CASE Um!Exited
  BY <1>4, UmThreads DEF Um!Exited, Um!allVars
<1>5. CASE \E t \in Workers : Um!PoolStep(t)
  BY <1>5, UmThreads DEF Um!PoolStep
<1>6. CASE Um!TestThreadStep
  BY <1>6, UmThreads
<1>7. CASE Um!KeInitializeEvent
  BY <1>7, UmThreads DEF Um!KeInitializeEvent
<1>8. CASE Um!ReferenceWaits
  BY <1>8
<1> QED
  BY <1>1, <1>2, <1>3, <1>4, <1>5, <1>6, <1>7, <1>8, UmThreads DEF Um!MainNext, Um!MainStep, Um!ThreadStep

\* What each of those steps does to the event handles.
LEMMA UmEvents ==
    ASSUME InUm(Um!MainNext), Unstarted
    PROVE  \/ TestThreadStep /\ UNCHANGED hEvents
           \/ /\ UNCHANGED vars \/ \E t \in Workers : WorkerStep(t)
              /\ hEvents' = hEvents \/ hEvents' = 0
           \/ Um!KeInitializeEvent
           \/ Um!ReferenceWaits /\ UNCHANGED hEvents
           \/ HostMoves /\ UNCHANGED hEvents
<1> USE DEF InUm
<1>1. CASE Um!MainCreates
  BY <1>1 DEF Um!MainCreates, HostMoves, Unstarted, vars,
     Um!suiteVars, Um!tierVars, Um!managerVars, Um!ctxVars, Um!threadVars,
     suiteVars, tierVars, managerVars, ctxVars, threadVars
<1>2. CASE Um!MainReferences \/ Um!MainWaits \/ Um!MainReturns
  BY <1>2, UmThreads DEF Um!MainReferences, Um!MainWaits, Um!MainReturns
<1>3. CASE Um!ThreadStep
  BY <1>3, UmThreads DEF Um!ThreadStep, Um!FlushLogToFile, HostMoves,
     Um!suiteVars, Um!tierVars, Um!managerVars, Um!ctxVars, Um!threadVars,
     suiteVars, tierVars, managerVars, ctxVars, threadVars
<1>4. CASE Um!Exited
  BY <1>4, UmThreads DEF Um!Exited, Um!allVars, Um!mainVars
<1>5. CASE \E t \in Workers : Um!PoolStep(t)
  BY <1>5, UmThreads DEF Um!PoolStep, Um!mainVars
<1> QED BY <1>1, <1>2, <1>3, <1>4, <1>5, UmThreads DEF Um!MainNext, Um!MainStep

LEMMA StepAny ==
    AnyInv /\ [HostNext]_hostVars => AnyInv'
<1> SUFFICES ASSUME AnyInv, [HostNext]_hostVars PROVE AnyInv'
  OBVIOUS
<1>1. CASE UNCHANGED hostVars
  <2>1. UNCHANGED vars
    BY <1>1 DEF hostVars, allVars
  <2>2. Unstarted'
    BY <1>1 DEF AnyInv, Unstarted, hostVars, allVars, vars, driverVars
  <2>3. EventsLeft'
    BY <1>1, EventsFollow DEF AnyInv, EventsLeft, hostVars, allVars, vars, suiteVars, tierVars
  <2> QED BY <2>1, <2>2, <2>3, StutterKeeps DEF AnyInv
<1>2. CASE InDriver(DriverNext)
  <2>1. TInv'
    BY <1>2, DriverSteps, StutterKeeps, HostKeeps, AbortKeeps, EventKeeps, StopKeeps,
       TestThreadKeeps, WorkerKeeps DEF AnyInv
  <2>2. Unstarted'
    <3> USE <1>2 DEF AnyInv, Unstarted, InDriver
    <3>1. CASE LoaderStep
      BY <3>1 DEF LoaderStep, EntryAllocatesLog, EntryCreates, EntryReferences, UnloadWaits,
         UnloadFreesLog, UnloadClearsLog, UnloadLogs, UnloadReturns, vars
    <3>2. CASE UnloadAborts \/ Unloaded
      BY <3>2 DEF UnloadAborts, Unloaded, allVars, vars, driverVars
    <3>3. CASE TestsRecord \/ FlushLogToFile \/ KeInitializeEvent \/ ReferenceStops \/ Halted
      BY <3>3 DEF TestsRecord, TestsLog, FlushLogToFile, FlushBegins, FlushWrites,
         KeInitializeEvent, InitializeEvent, ReferenceStops, Halted, Stopped, vars, allVars,
         driverVars
    <3>4. CASE TestsProceed
      BY <3>4, TestThreadMoves DEF TestsProceed
    <3>5. CASE \E t \in Workers : PoolStep(t)
      BY <3>5, WorkerMoves DEF PoolStep, driverVars
    <3> QED BY <3>1, <3>2, <3>3, <3>4, <3>5 DEF DriverNext, ThreadStep
  <2>3. EventsLeft'
    <3>1. UNCHANGED << host, hEvents >> /\ hEvents \in Nat
      BY <1>2 DEF InDriver, AnyInv, EventsLeft
    <3>2. CASE TestThreadStep
      BY <3>1, <3>2, EventsKeep DEF AnyInv
    <3>3. CASE UNCHANGED vars \/ UnloadAborts \/ \E t \in Workers : WorkerStep(t)
      <4>1. UNCHANGED << mpc, left, mode >>
        BY <3>3, WorkerLeaves DEF vars, UnloadAborts, suiteVars, tierVars
      <4> QED BY <3>1, <4>1, EventsFollow DEF AnyInv
    <3>4. CASE InitializeEvent(FALSE) \/ ReferenceStops
      BY <3>1, <3>4, EventsFollow
      DEF AnyInv, InitializeEvent, ReferenceStops, suiteVars, tierVars
    <3>5. CASE HostMoves
      BY <3>1, <3>5, EventsFollow DEF AnyInv, HostMoves, suiteVars, tierVars
    <3> QED BY <1>2, <3>2, <3>3, <3>4, <3>5, DriverSteps DEF AnyInv
  <2> QED BY <2>1, <2>2, <2>3 DEF AnyInv
<1>3. CASE InUm(Um!MainNext)
  <2>1. TInv'
    BY <1>3, UmSteps, StutterKeeps, HostKeeps, EventKeeps, WaitKeeps, TestThreadKeeps,
       WorkerKeeps DEF AnyInv
  <2>2. Unstarted'
    <3> USE <1>3 DEF AnyInv, Unstarted, InUm
    <3>1. CASE Um!MainStep
      BY <3>1 DEF Um!MainStep, Um!MainCreates, Um!MainReferences, Um!MainWaits, Um!MainReturns
    <3>2. CASE Um!Exited
      BY <3>2 DEF Um!Exited, Um!allVars, Um!mainVars
    <3>3. CASE Um!ThreadStep
      BY <3>3, UmThreads, TestThreadMoves DEF Um!ThreadStep, Um!FlushLogToFile,
         Um!KeInitializeEvent, InitializeEvent, Um!ReferenceWaits
    <3>4. CASE \E t \in Workers : Um!PoolStep(t)
      BY <3>4, UmThreads, WorkerMoves DEF Um!PoolStep, Um!mainVars
    <3> QED BY <3>1, <3>2, <3>3, <3>4, UmThreads DEF Um!MainNext
  <2>3. EventsLeft'
    <3> USE DEF InUm, AnyInv
    <3>1. UNCHANGED host /\ host = "um" /\ hEvents \in Nat
      BY <1>3 DEF EventsLeft
    <3>2. CASE TestThreadStep /\ UNCHANGED hEvents
      BY <3>1, <3>2, EventsKeep
    <3>3. CASE /\ UNCHANGED vars \/ \E t \in Workers : WorkerStep(t)
               /\ hEvents' = hEvents \/ hEvents' = 0
      <4>1. UNCHANGED << mpc, left, mode >>
        BY <3>3, WorkerLeaves DEF vars, suiteVars, tierVars
      <4>2. hEvents' \in Nat /\ hEvents' <= hEvents
        BY <3>1, <3>3
      <4> QED BY <3>1, <4>1, <4>2, EventsFollow
    <3>4. CASE Um!KeInitializeEvent
      <4>1. \E b \in BOOLEAN : InitializeEvent(b)
        BY <3>4, UmThreads DEF Um!KeInitializeEvent
      <4>2. UNCHANGED << left, mode >> /\ mpc = "event" /\ mpc' = "create"
        BY <4>1 DEF InitializeEvent, suiteVars, tierVars
      <4>3. hEvents' = hEvents \/ hEvents' = hEvents + 1
        BY <3>4 DEF Um!KeInitializeEvent
      <4> QED BY <3>1, <4>2, <4>3, EventsFollow
    <3>5. CASE Um!ReferenceWaits /\ UNCHANGED hEvents
      BY <3>1, <3>5, EventsFollow DEF Um!ReferenceWaits, Um!suiteVars, Um!tierVars
    <3>6. CASE HostMoves /\ UNCHANGED hEvents
      BY <3>1, <3>6, EventsFollow DEF HostMoves, suiteVars, tierVars
    <3> QED BY <1>3, <3>2, <3>3, <3>4, <3>5, <3>6, UmEvents
  <2> QED BY <2>1, <2>2, <2>3 DEF AnyInv
<1> QED BY <1>1, <1>2, <1>3 DEF HostNext

\* In both hosts, and whatever fails on the way: the state of the test thread
\* says what is allocated, who runs, which handles are open and whether a
\* wrong result is still remembered.
THEOREM HarnessInvariant == HostSpec => []AnyInv
<1>1. HostInit => AnyInv
  BY InitAny
<1>2. AnyInv /\ [HostNext]_hostVars => AnyInv'
  BY StepAny
<1> QED BY <1>1, <1>2, PTL DEF HostSpec

\* No worker ever runs without the manager, the context, the engine and the
\* text that PerfWorkerT reaches through its context, for every number of
\* threads, tests and tiers and every failure of a creation or a reference.
THEOREM NoUseAfterFreeHolds == HostSpec => []NoUseAfterFree
<1>1. AnyInv => NoUseAfterFree
  BY DEF AnyInv, TInv, ThreadType, Accounted, Allocated, TierObjects, InMode, Outside,
     NoUseAfterFree
<1> QED BY <1>1, HarnessInvariant, PTL

\* Between tiers and after the tests, by whichever way each tier ended: no
\* worker runs, no handle of one is open, everything a tier allocated was freed,
\* and no more events are left than the two of every tier of the user mode
\* program.
THEOREM NothingLeftHolds == HostSpec => []NothingLeft
<1>1. AnyInv => NothingLeft
  <2> SUFFICES ASSUME AnyInv, BetweenTiers PROVE NothingLeft
    BY DEF NothingLeft
  <2>1. mpc \in Outside /\ mpc \notin {"absent", "correctness"} \cup InMode
    BY DEF BetweenTiers, Outside, InMode
  <2>2. (\A t \in Workers : ~Running(t)) /\ handles = {} /\ live = {}
    BY <2>1 DEF AnyInv, TInv, Accounted, Allocated
  <2>3. Begun = 0 /\ host \in {"driver", "um"} /\ left \in 0 .. Tiers
    BY <2>1 DEF Begun, BetweenTiers, InMode, AnyInv, Unstarted, EventsLeft
  <2>4. hEvents <= (IF host = "um" THEN 2 * (Tiers - left) ELSE 0)
    BY <2>1, <2>3, CountsAssumption DEF AnyInv, EventsLeft
  <2> QED BY <2>2, <2>4 DEF NothingLeft
<1> QED BY <1>1, HarnessInvariant, PTL

\* A wrong search result seen by any worker makes the verdict "aborted", and
\* a tier that returned FALSE, because its set-up or its MatchAll mode failed or
\* because of an abort, keeps it from being "succeeded".
THEOREM FailureReportedHolds == HostSpec => []FailureReported
<1>1. AnyInv => FailureReported
  BY DEF AnyInv, TInv, Remembered, FailureReported
<1> QED BY <1>1, HarnessInvariant, PTL

-----------------------------------------------------------------------------
\* What follows takes the reference to the test thread for granted: that
\* neither host copes with its failure is what the run driver_reference shows.
LEMMA InitHInv ==
    HostInit => HInv
<1> SUFFICES ASSUME HostInit PROVE HInv
  OBVIOUS
<1>1. AnyInv
  BY InitAny
<1>2. CASE host = "driver" /\ main = "none"
  <2>1. LoaderInv
    BY DEF HostInit, DriverInit, Init, LoaderInv, LoaderPlaces
  <2>2. /\ logPool = FALSE /\ g_pLogBuffer = FALSE
        /\ logpc \in [Callers -> LogPlaces] /\ line \in [Callers -> Nat]
        /\ \A c \in Callers : logpc[c] = "out"
    BY DEF HostInit, DriverInit, LogPlaces
  <2>3. LogInv
    BY <2>2 DEF HostInit, DriverInit, Init, LogInv, Callers
  <2> QED BY <1>1, <1>2, <2>1, <2>3 DEF HInv, DriverInv
<1>3. CASE host = "um" /\ Um!MainInit
  <2>1. MainInv
    BY <1>3 DEF HostInit, DriverInit, Init, Um!MainInit, MainInv
  <2> QED BY <1>1, <1>3, <2>1 DEF HInv
<1> QED BY <1>2, <1>3 DEF HostInit

\* The steps of DriverEntry and DriverUnload.
LEMMA LoaderKeeps ==
    ASSUME MasterReferenceMayFail = FALSE, TInv, DriverInv,
           LoaderStep \/ UnloadAborts, UNCHANGED main
    PROVE  DriverInv'
<1> USE DEF DriverInv, LoaderPlaces, Over
<1>1. CASE EntryAllocatesLog
  BY <1>1 DEF EntryAllocatesLog, LoaderInv, LogInv, TestsLog, Fits, vars
<1>2. CASE EntryCreates
  BY <1>2 DEF EntryCreates, LoaderInv, LogInv, logVars, TestsLog, Fits
<1>3. CASE EntryReferences
  BY <1>3 DEF EntryReferences, LoaderInv, LogInv, logVars, vars, TestsLog, Fits
<1>4. CASE UnloadAborts
  BY <1>4 DEF UnloadAborts, LoaderInv, LogInv, logVars, TestsLog, Fits
<1>5. CASE UnloadWaits
  BY <1>5 DEF UnloadWaits, LoaderInv, LogInv, logVars, vars, TestsLog, Fits
<1>6. CASE UnloadFreesLog
  BY <1>6 DEF UnloadFreesLog, LoaderInv, LogInv, vars, TestsLog, Fits
<1>7. CASE UnloadClearsLog
  BY <1>7 DEF UnloadClearsLog, LoaderInv, LogInv, vars, TestsLog, Fits
<1>8. CASE UnloadLogs
  <2> USE <1>8 DEF UnloadLogs
  <2>1. LoaderInv'
    BY DEF LoaderInv, vars
  <2>2. ~logPool /\ ~g_pLogBuffer /\ ~TestsLog
    BY DEF LoaderInv, LogInv, TestsLog
  <2>3. CASE RecordLogFormats("loader")
    BY <2>1, <2>2, <2>3, LogAssumption
    DEF RecordLogFormats, LogInv, Callers, LogPlaces, vars, TestsLog, Fits
  <2>4. CASE RecordLogLocks("loader") \/ RecordLogChecks("loader") \/ RecordLogUnlocks("loader")
    BY <2>1, <2>2, <2>4
    DEF RecordLogLocks, RecordLogChecks, RecordLogUnlocks, LogInv, Callers, LogPlaces,
        vars, TestsLog, Fits
  <2>5. ~RecordLogCopies("loader")
    BY DEF RecordLogCopies, LogInv
  <2> QED BY <2>1, <2>3, <2>4, <2>5 DEF RecordLog
<1>9. CASE UnloadReturns
  BY <1>9 DEF UnloadReturns, LoaderInv, LogInv, logVars, vars, TestsLog, Fits
<1> QED BY <1>1, <1>2, <1>3, <1>4, <1>5, <1>6, <1>7, <1>8, <1>9 DEF LoaderStep

\* The steps of the test thread and of the workers in the driver.
LEMMA DriverThreadsKeep ==
    ASSUME TInv, DriverInv, UNCHANGED main,
           ThreadStep \/ Unloaded \/ Halted \/ \E t \in Workers : PoolStep(t)
    PROVE  DriverInv'
<1> USE DEF DriverInv, LoaderPlaces, Over
<1>1. CASE TestsRecord
  <2> USE <1>1 DEF TestsRecord
  <2>1. LoaderInv'
    BY DEF LoaderInv, vars
  <2>2. TestsLog' /\ mpc' = mpc /\ loader' = loader
    BY DEF TestsLog, vars
  <2>3. CASE RecordLogFormats("tests")
    BY <2>1, <2>2, <2>3, LogAssumption DEF RecordLogFormats, LogInv, Callers, LogPlaces
  <2>4. CASE RecordLogLocks("tests")
    BY <2>1, <2>2, <2>4 DEF RecordLogLocks, LogInv, Callers, LogPlaces
  <2>5. CASE RecordLogChecks("tests")
    <3>1. g_pLogBuffer <=> logPool
      BY DEF LoaderInv, LogInv, TestsLog
    <3>2. logpc' \in [Callers -> LogPlaces] /\ logpc'["loader"] = logpc["loader"]
      BY <2>5 DEF RecordLogChecks, LogInv, Callers, LogPlaces
    <3>3. logpc'["tests"] = "copy" => logPool' /\ Fits("tests")'
      BY <2>5, <3>1 DEF RecordLogChecks, LogInv, Callers, LogPlaces, Fits
    <3> QED BY <2>1, <2>2, <2>5, <3>2, <3>3 DEF RecordLogChecks, LogInv
  <2>6. CASE RecordLogCopies("tests")
    BY <2>1, <2>2, <2>6 DEF RecordLogCopies, LogInv, Callers, LogPlaces
  <2>7. CASE RecordLogUnlocks("tests")
    BY <2>1, <2>2, <2>7 DEF RecordLogUnlocks, LogInv, Callers, LogPlaces
  <2> QED BY <2>1, <2>3, <2>4, <2>5, <2>6, <2>7 DEF RecordLog
<1>2. CASE TestsProceed
  <2>1. LoaderInv' /\ ~Over
    BY <1>2, TestThreadMoves DEF TestsProceed, LoaderInv
  <2>2. mpc' # "flushing"
    BY <1>2, TestThreadMoves DEF TestsProceed
  <2>3. logpc \in [Callers -> LogPlaces] /\ logpc' = [logpc EXCEPT !["tests"] = "out"]
    BY <1>2 DEF TestsProceed, LogNext, LogInv
  <2>4. LogInv'
    BY <1>2, <2>2, <2>3 DEF TestsProceed, LogNext, LogInv, Callers, LogPlaces
  <2> QED BY <1>2, <2>1, <2>4
<1>3. CASE FlushLogToFile
  BY <1>3 DEF FlushLogToFile, FlushBegins, FlushWrites, LoaderInv, LogInv, TestsLog, Fits,
     driverVars, logVars
<1>4. CASE Unloaded
  BY <1>4 DEF Unloaded, allVars, driverVars, logVars, vars, LoaderInv, LogInv, TestsLog, Fits
<1>5. CASE \E t \in Workers : PoolStep(t)
  BY <1>5, WorkerMoves DEF PoolStep, driverVars, logVars, LoaderInv, LogInv, TestsLog, Fits
<1>6. CASE KeInitializeEvent \/ ReferenceStops
  BY <1>6 DEF KeInitializeEvent, InitializeEvent, ReferenceStops, driverVars, logVars, LoaderInv,
     LogInv, TestsLog, Fits
<1>7. CASE Halted
  BY <1>7 DEF Halted, allVars, driverVars, logVars, vars, LoaderInv, LogInv, TestsLog, Fits
<1> QED BY <1>1, <1>2, <1>3, <1>4, <1>5, <1>6, <1>7 DEF ThreadStep

\* The steps of the user mode program.
LEMMA UmKeeps ==
    ASSUME MasterReferenceMayFail = FALSE, TInv, MainInv, InUm(Um!MainNext)
    PROVE  MainInv'
<1> USE DEF InUm, MainInv, logVars, Over
<1>1. CASE Um!MainStep
  BY <1>1, UmThreads DEF Um!MainStep, Um!MainCreates, Um!MainReferences, Um!MainWaits,
     Um!MainReturns, vars
<1>2. CASE Um!ThreadStep
  BY <1>2, UmThreads, TestThreadMoves DEF Um!ThreadStep, Um!FlushLogToFile,
     Um!KeInitializeEvent, InitializeEvent, Um!ReferenceWaits
<1>3. CASE Um!Exited
  BY <1>3, UmThreads DEF Um!Exited, Um!allVars, Um!mainVars, vars
<1>4. CASE \E t \in Workers : Um!PoolStep(t)
  BY <1>4, UmThreads, WorkerMoves DEF Um!PoolStep, Um!mainVars
<1> QED BY <1>1, <1>2, <1>3, <1>4, UmThreads DEF Um!MainNext

LEMMA StepHInv ==
    ASSUME MasterReferenceMayFail = FALSE
    PROVE  HInv /\ [HostNext]_hostVars => HInv'
<1> SUFFICES ASSUME HInv, [HostNext]_hostVars PROVE HInv'
  OBVIOUS
<1>1. AnyInv'
  BY StepAny DEF HInv
<1>2. CASE UNCHANGED hostVars
  <2>1. DriverInv => DriverInv'
    BY <1>2 DEF hostVars, allVars, driverVars, logVars, vars, DriverInv, LoaderInv, LogInv,
       TestsLog, Fits, Over
  <2>2. MainInv => MainInv'
    BY <1>2 DEF hostVars, allVars, driverVars, logVars, vars, MainInv, Over
  <2> QED BY <1>1, <1>2, <2>1, <2>2 DEF HInv, hostVars
<1>3. CASE InDriver(DriverNext)
  <2>1. host = "driver" /\ host' = "driver" /\ UNCHANGED main /\ DriverInv
    BY <1>3 DEF InDriver, HInv
  <2>2. DriverInv'
    BY <1>3, <2>1, LoaderKeeps, DriverThreadsKeep DEF InDriver, DriverNext, HInv, AnyInv
  <2> QED BY <1>1, <2>1, <2>2 DEF HInv
<1>4. CASE InUm(Um!MainNext)
  BY <1>1, <1>4, UmKeeps DEF InUm, HInv, AnyInv
<1> QED BY <1>2, <1>3, <1>4 DEF HostNext

\* The tests run only while a reference keeps their host waiting.
THEOREM HostInvariant ==
    ASSUME MasterReferenceMayFail = FALSE
    PROVE  HostSpec => []HInv
<1>1. HostInit => HInv
  BY InitHInv
<1>2. HInv /\ [HostNext]_hostVars => HInv'
  BY StepHInv
<1> QED BY <1>1, <1>2, PTL DEF HostSpec

\* Neither DriverUnload nor main returns before the test thread and every
\* worker have ended, as long as the test thread can be referenced.
THEOREM LeftSafelyHolds ==
    ASSUME MasterReferenceMayFail = FALSE
    PROVE  HostSpec => []LeftSafely
<1>1. HInv => LeftSafely
  <2> SUFFICES ASSUME HInv PROVE LeftSafely
    OBVIOUS
  <2>1. Over => \A t \in Workers : ~Running(t)
    BY DEF HInv, AnyInv, TInv, Accounted, Over, InMode
  <2>2. loader = "unloaded" \/ main = "exited" => Over
    BY DEF HInv, DriverInv, LoaderInv, MainInv
  <2> QED BY <2>1, <2>2, UmThreads DEF LeftSafely, UnloadedSafely, Um!ExitedSafely, Over
<1> QED BY <1>1, HostInvariant, PTL

\* RecordLog and FlushLogToFile touch the log buffer only while it is
\* allocated, and a copied line with its terminating zero fits, for every
\* size of the buffer and of the lines: DriverUnload frees it without the
\* mutex, but only after the test thread ended.
THEOREM LogBufferValidHolds ==
    ASSUME MasterReferenceMayFail = FALSE
    PROVE  HostSpec => []LogBufferValid
<1>1. HInv => LogBufferValid
  BY LogAssumption DEF HInv, DriverInv, LogInv, MainInv, LogBufferValid, Fits, Callers
<1> QED BY <1>1, HostInvariant, PTL
===============================================================================
