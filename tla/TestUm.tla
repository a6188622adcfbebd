-------------------------------- MODULE TestUm --------------------------------
(***************************************************************************)
(* The user mode program: main starts the test thread and waits for it.    *)
(* Nothing aborts the tests but the tests themselves; FlushLogToFile does  *)
(* nothing.                                                                *)
(***************************************************************************)
EXTENDS TestThreads

CONSTANT MasterReferenceMayFail    \* DuplicateHandle of the test thread

VARIABLES
    main, g_pMasterBenchmarkThread,
    hEvents     \* number of open event handles

mainVars == << main, g_pMasterBenchmarkThread, hEvents >>
allVars == << vars, mainVars >>

MainInit == Init /\ main = "create" /\ g_pMasterBenchmarkThread = FALSE /\ hEvents = 0

MainCreates ==
    /\ main = "create"
    /\ \/ main' = "exiting" /\ mpc' = mpc
       \/ main' = "reference" /\ mpc' = "correctness"
    /\ UNCHANGED << suiteVars, tierVars, live, managerVars, ctxVars, threadVars,
                    g_lAbortTests, wrong, g_pMasterBenchmarkThread, hEvents >>

MainReferences ==
    /\ main = "reference"
    /\ g_pMasterBenchmarkThread' \in {TRUE} \cup {~MasterReferenceMayFail}
    /\ main' = IF g_pMasterBenchmarkThread' THEN "wait" ELSE "exiting"
    /\ UNCHANGED << vars, hEvents >>

MainWaits ==
    /\ main = "wait" /\ mpc = "done"
    /\ g_pMasterBenchmarkThread' = FALSE
    /\ main' = "exiting"
    /\ UNCHANGED << vars, hEvents >>

\* main logs that it exited safely; its return ends every other thread and
\* closes every handle.
MainReturns ==
    /\ main = "exiting" /\ main' = "exited" /\ hEvents' = 0
    /\ UNCHANGED << vars, g_pMasterBenchmarkThread >>

FlushLogToFile ==
    /\ mpc = "flush" /\ mpc' = "exit"
    /\ UNCHANGED << suiteVars, tierVars, live, managerVars, ctxVars, threadVars,
                    g_lAbortTests, wrong >>

\* CreateEventW gives a handle that nothing closes before the process ends.
\* When it fails, a wait for the null handle returns at once.
KeInitializeEvent ==
    \/ InitializeEvent(FALSE) /\ hEvents' = hEvents + 1
    \/ InitializeEvent(TRUE) /\ hEvents' = hEvents

\* A thread can be waited for by its handle, which is closed then.
ReferenceWaits ==
    /\ mpc = "refWait" /\ wpc[index] = "done"
    /\ handles' = handles \ {<< "handle", index >>}
    /\ index' = index + 1 /\ mpc' = "create"
    /\ UNCHANGED << suiteVars, tierVars, live, ulThreadCount, pThreads, lStopFlag, StartEvent,
                    ctxVars, wpc, g_lAbortTests, wrong >>

MainStep == MainCreates \/ MainReferences \/ MainWaits \/ MainReturns

ThreadStep ==
    /\ main # "exited"
    /\ \/ KeInitializeEvent
       \/ TestThreadStep /\ UNCHANGED hEvents
       \/ ReferenceWaits /\ UNCHANGED hEvents
       \/ FlushLogToFile /\ UNCHANGED hEvents
    /\ UNCHANGED << main, g_pMasterBenchmarkThread >>

PoolStep(t) == main # "exited" /\ WorkerStep(t) /\ UNCHANGED mainVars

\* The process is over.
Exited == main = "exited" /\ UNCHANGED allVars

MainNext ==
    \/ MainStep \/ ThreadStep \/ Exited
    \/ \E t \in Workers : PoolStep(t)

\* Every thread is scheduled again and again.
MainSpec ==
    /\ MainInit /\ [][MainNext]_allVars
    /\ WF_allVars(MainStep) /\ WF_allVars(ThreadStep)
    /\ \A t \in Workers : WF_allVars(PoolStep(t))

-----------------------------------------------------------------------------
\* main returns only when the tests are over, so that their last lines are
\* printed and no worker is cut off in the middle of a search.
ExitedSafely ==
    main = "exited" => mpc \in {"absent", "done"} /\ \A t \in Workers : ~Running(t)
===============================================================================
