------------------------------- MODULE TestHosts -------------------------------
(***************************************************************************)
(* The test thread in either of its hosts: the driver, which aborts it when*)
(* it is unloaded, or the user mode program, which waits for it.           *)
(***************************************************************************)
EXTENDS TestDriver

VARIABLES
    host,     \* "driver" or "um"
    main,     \* where main is; the other host's loader stays at "entry"
    hEvents   \* event handles of the user mode program

hostVars == << allVars, host, main, hEvents >>

Um == INSTANCE TestUm

HostInit ==
    /\ DriverInit
    /\ \/ host = "driver" /\ main = "none" /\ hEvents = 0
       \/ host = "um" /\ Um!MainInit

InDriver(A) == host = "driver" /\ A /\ UNCHANGED << host, main, hEvents >>
InUm(A)     == host = "um" /\ A /\ UNCHANGED << host, loader, logVars >>

HostNext == InDriver(DriverNext) \/ InUm(Um!MainNext)

HostSpec ==
    /\ HostInit /\ [][HostNext]_hostVars
    /\ WF_hostVars(InDriver(LoaderStep)) /\ WF_hostVars(InDriver(ThreadStep))
    /\ \A t \in Workers : WF_hostVars(InDriver(PoolStep(t)))
    /\ WF_hostVars(InUm(Um!MainStep)) /\ WF_hostVars(InUm(Um!ThreadStep))
    /\ \A t \in Workers : WF_hostVars(InUm(Um!PoolStep(t)))

-----------------------------------------------------------------------------
\* Neither host goes away under its threads: when DriverUnload has returned,
\* or main has, the test thread and every worker have ended.
LeftSafely == UnloadedSafely /\ Um!ExitedSafely

\* Between tiers and after the tests, whichever step failed on the way: no
\* worker runs, none of its handles and references is open, and the text, the
\* patterns, the engine and the manager, which each way out of a tier frees on
\* its own, are gone.  Only the events stay: ntddk.h has nothing that closes the
\* handle of its KeInitializeEvent, so that the user mode program keeps up to
\* two of them for each tier, until it ends, and the driver none.
NothingLeft ==
    BetweenTiers =>
      /\ \A t \in Workers : ~Running(t)
      /\ handles = {} /\ live = {}
      /\ hEvents <= (IF host = "um" THEN 2 * (Tiers - left) ELSE 0)

\* Everything that is started ends.  The user mode program: the tests and main,
\* whatever fails to be created or referenced.  The driver: the tests and an
\* unload, whenever it comes and whatever fails to be created; a worker that
\* cannot be referenced halts the system instead, because StartThreads waits
\* for its handle.
HarnessEnds ==
    /\ host = "um" /\ mpc = "correctness" ~> mpc = "done"
    /\ host = "um" ~> main = "exited"
    /\ host = "driver" /\ mpc = "correctness" ~> mpc = "done" \/ Stopped
    /\ UnloadEnds
===============================================================================
