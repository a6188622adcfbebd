------------------------------ MODULE TestDriver ------------------------------
(***************************************************************************)
(* The test driver: DriverEntry starts the test thread, DriverUnload       *)
(* aborts it at any time and waits for it; both log into a pool buffer     *)
(* under a mutex.  Offsets are in log lines' lengths.                      *)
(***************************************************************************)
EXTENDS TestThreads

CONSTANTS
    MasterReferenceMayFail,   \* ObReferenceObjectByHandle of the test thread
    LogMax,                   \* g_cbLogBufferMax
    LineLengths               \* lengths of formatted lines

ASSUME LogAssumption == LogMax \in Nat \ {0} /\ LineLengths \subseteq Nat

VARIABLES
    loader,                   \* where DriverEntry or DriverUnload is
    g_pMasterBenchmarkThread,
    g_pLogBuffer, g_cbLogBufferOffset,
    logPool,                  \* the log buffer's memory is allocated
    g_LogMutex,               \* its owner, "none" if free
    logpc,                    \* where RecordLog is, for each caller
    line                      \* the line's length, for each caller

logVars == << g_pLogBuffer, g_cbLogBufferOffset, logPool, g_LogMutex, logpc, line >>
driverVars == << loader, g_pMasterBenchmarkThread, logVars >>
allVars == << vars, driverVars >>

Callers == {"tests", "loader"}

\* A bug check halted the whole system.
Stopped == mpc = "stopped"

\* The test thread logs before it leaves these places.
TestsLog == mpc \in {"correctness", "mode", "free", "tier"}
Logged(c) == logpc[c] = "logged"

DriverInit ==
    /\ Init
    /\ loader = "entry" /\ g_pMasterBenchmarkThread = FALSE
    /\ g_pLogBuffer = FALSE /\ g_cbLogBufferOffset = 0 /\ logPool = FALSE
    /\ g_LogMutex = "none" /\ logpc = [c \in Callers |-> "out"]
    /\ line = [c \in Callers |-> 0]

-----------------------------------------------------------------------------
\* RecordLog.  A line that cannot be formatted is dropped.
RecordLogFormats(c) ==
    /\ logpc[c] = "out"
    /\ \/ /\ logpc' = [logpc EXCEPT ![c] = "logged"]
          /\ line' = line
       \/ /\ logpc' = [logpc EXCEPT ![c] = "lock"]
          /\ line' \in {[line EXCEPT ![c] = n] : n \in LineLengths}
    /\ UNCHANGED << g_pLogBuffer, g_cbLogBufferOffset, logPool, g_LogMutex >>

RecordLogLocks(c) ==
    /\ logpc[c] = "lock" /\ g_LogMutex = "none"
    /\ g_LogMutex' = c
    /\ logpc' = [logpc EXCEPT ![c] = "check"]
    /\ UNCHANGED << g_pLogBuffer, g_cbLogBufferOffset, logPool, line >>

FitsWithoutEnd(c) == g_cbLogBufferOffset + line[c] <= LogMax    \* mutant
Fits(c) == g_cbLogBufferOffset + line[c] < LogMax

RecordLogChecks(c) ==
    /\ logpc[c] = "check"
    /\ logpc' = [logpc EXCEPT ![c] = IF g_pLogBuffer /\ Fits(c) THEN "copy" ELSE "unlock"]
    /\ UNCHANGED << g_pLogBuffer, g_cbLogBufferOffset, logPool, g_LogMutex, line >>

\* The line and, behind it, a terminating zero.
RecordLogCopies(c) ==
    /\ logpc[c] = "copy"
    /\ g_cbLogBufferOffset' = g_cbLogBufferOffset + line[c]
    /\ logpc' = [logpc EXCEPT ![c] = "unlock"]
    /\ UNCHANGED << g_pLogBuffer, logPool, g_LogMutex, line >>

RecordLogKeepsMutex(c) ==    \* mutant
    /\ logpc[c] = "unlock"
    /\ logpc' = [logpc EXCEPT ![c] = "logged"]
    /\ UNCHANGED << g_pLogBuffer, g_cbLogBufferOffset, logPool, g_LogMutex, line >>

RecordLogUnlocks(c) ==
    /\ logpc[c] = "unlock"
    /\ g_LogMutex' = "none"
    /\ logpc' = [logpc EXCEPT ![c] = "logged"]
    /\ UNCHANGED << g_pLogBuffer, g_cbLogBufferOffset, logPool, line >>

RecordLog(c) ==
    \/ RecordLogFormats(c) \/ RecordLogLocks(c) \/ RecordLogChecks(c)
    \/ RecordLogCopies(c) \/ RecordLogUnlocks(c)

\* The caller goes on; its next line is another call.
LogNext(c) ==
    /\ logpc' = [logpc EXCEPT ![c] = "out"]
    /\ UNCHANGED << g_pLogBuffer, g_cbLogBufferOffset, logPool, g_LogMutex, line >>

-----------------------------------------------------------------------------
EntryAllocatesLog ==
    /\ loader = "entry" /\ loader' = "create"
    /\ logPool' \in BOOLEAN /\ g_pLogBuffer' = logPool'
    /\ UNCHANGED << vars, g_pMasterBenchmarkThread, g_cbLogBufferOffset, g_LogMutex,
                    logpc, line >>

EntryCreates ==
    /\ loader = "create"
    /\ \/ loader' = "loaded" /\ mpc' = mpc
       \/ loader' = "reference" /\ mpc' = "correctness"
    /\ UNCHANGED << suiteVars, tierVars, live, managerVars, ctxVars, threadVars,
                    g_lAbortTests, wrong, g_pMasterBenchmarkThread, logVars >>

\* The status is not looked at.
EntryReferences ==
    /\ loader = "reference" /\ loader' = "loaded"
    /\ g_pMasterBenchmarkThread' \in {TRUE} \cup {~MasterReferenceMayFail}
    /\ UNCHANGED << vars, logVars >>

\* The driver may be unloaded at any time once it is loaded.
UnloadAborts ==
    /\ loader = "loaded" /\ loader' = "wait"
    /\ g_lAbortTests' = 1
    /\ UNCHANGED << mpc, suiteVars, tierVars, live, managerVars, ctxVars, threadVars,
                    wrong, g_pMasterBenchmarkThread, logVars >>

UnloadDoesNotWait ==    \* mutant
    /\ loader = "wait" /\ loader' = "freeLog"
    /\ g_pMasterBenchmarkThread' = FALSE
    /\ UNCHANGED << vars, logVars >>

UnloadWaits ==
    /\ loader = "wait" /\ loader' = "freeLog"
    /\ g_pMasterBenchmarkThread => mpc = "done"
    /\ g_pMasterBenchmarkThread' = FALSE
    /\ UNCHANGED << vars, logVars >>

\* The buffer is freed, without the mutex, before its pointer is cleared.
UnloadFreesLog ==
    /\ loader = "freeLog" /\ loader' = "clearLog"
    /\ logPool' = FALSE
    /\ UNCHANGED << vars, g_pMasterBenchmarkThread, g_pLogBuffer, g_cbLogBufferOffset,
                    g_LogMutex, logpc, line >>

UnloadClearsLog ==
    /\ loader = "clearLog" /\ loader' = "logUnloaded"
    /\ g_pLogBuffer' = FALSE
    /\ UNCHANGED << vars, g_pMasterBenchmarkThread, g_cbLogBufferOffset, logPool,
                    g_LogMutex, logpc, line >>

UnloadLogs ==
    /\ loader = "logUnloaded" /\ RecordLog("loader")
    /\ UNCHANGED << vars, loader, g_pMasterBenchmarkThread >>

UnloadReturns ==
    /\ loader = "logUnloaded" /\ Logged("loader") /\ loader' = "unloaded"
    /\ UNCHANGED << vars, g_pMasterBenchmarkThread, logVars >>

LoaderStep ==
    /\ ~Stopped
    /\ \/ EntryAllocatesLog \/ EntryCreates \/ EntryReferences
       \/ UnloadWaits \/ UnloadFreesLog \/ UnloadClearsLog \/ UnloadLogs \/ UnloadReturns

-----------------------------------------------------------------------------
\* The event is part of the manager.
KeInitializeEvent ==
    /\ InitializeEvent(FALSE)
    /\ UNCHANGED driverVars

\* The kernel's wait takes a pointer to an object and gets a handle: it reads
\* the handle's number as an address, at which nothing is mapped.
ReferenceStops ==
    /\ mpc = "refWait" /\ mpc' = "stopped"
    /\ UNCHANGED << suiteVars, tierVars, live, managerVars, ctxVars, threadVars,
                    g_lAbortTests, wrong, driverVars >>

\* FlushLogToFile looks at the buffer without the mutex, then writes it.
FlushBegins ==
    /\ mpc = "flush"
    /\ mpc' = IF g_pLogBuffer /\ g_cbLogBufferOffset # 0 THEN "flushing" ELSE "exit"

FlushWrites == mpc = "flushing" /\ mpc' = "exit"

FlushLogToFile ==
    /\ FlushBegins \/ FlushWrites
    /\ UNCHANGED << suiteVars, tierVars, live, managerVars, ctxVars, threadVars,
                    g_lAbortTests, wrong, driverVars >>

\* The test thread logs, or takes a step; it logs before it leaves a place
\* where it does.
TestsRecord ==
    /\ TestsLog /\ RecordLog("tests")
    /\ UNCHANGED << vars, loader, g_pMasterBenchmarkThread >>

TestsProceed ==
    /\ TestsLog => Logged("tests")
    /\ TestThreadStep /\ LogNext("tests")
    /\ UNCHANGED << loader, g_pMasterBenchmarkThread >>

ThreadStep ==
    \/ TestsRecord \/ TestsProceed
    \/ KeInitializeEvent \/ ReferenceStops \/ FlushLogToFile

PoolStep(t) == ~Stopped /\ WorkerStep(t) /\ UNCHANGED driverVars

\* The image is gone from memory, or the system has halted.
Unloaded == loader = "unloaded" /\ UNCHANGED allVars
Halted   == Stopped /\ UNCHANGED allVars

DriverNext ==
    \/ LoaderStep \/ (~Stopped /\ UnloadAborts) \/ ThreadStep \/ Unloaded \/ Halted
    \/ \E t \in Workers : PoolStep(t)

\* Every thread is scheduled again and again; that somebody unloads the
\* driver is not assumed.
DriverSpec ==
    /\ DriverInit /\ [][DriverNext]_allVars
    /\ WF_allVars(LoaderStep) /\ WF_allVars(ThreadStep)
    /\ \A t \in Workers : WF_allVars(PoolStep(t))

-----------------------------------------------------------------------------
\* "Driver Unloaded Safely": when DriverUnload returns and the image goes, the
\* test thread and its workers have ended.
UnloadedSafely ==
    loader = "unloaded" => mpc \in {"absent", "done"} /\ \A t \in Workers : ~Running(t)

\* RecordLog and FlushLogToFile use the log buffer only while it is allocated,
\* although DriverUnload frees it without the mutex, and the line being copied
\* leaves room for the terminating zero.
LogBufferValid ==
    /\ mpc = "flushing" => logPool
    /\ \A c \in Callers : logpc[c] = "copy" =>
         logPool /\ g_cbLogBufferOffset + line[c] + 1 <= LogMax

\* An unload ends: the aborted tests stop wherever they are, their workers
\* too, and the log's mutex is not held forever; unless a worker could not be
\* referenced, which halts the system.
UnloadEnds == loader = "wait" ~> loader = "unloaded" \/ Stopped
===============================================================================
