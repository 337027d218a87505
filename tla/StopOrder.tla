-------------------------------- MODULE StopOrder ------------------------------
(***************************************************************************)
(* What baseEngine.stop (rules/engine.go) promises of the goroutines of an *)
(* engine: they end one after the other, for good, and in the direction in *)
(* which work flows.  First the crawler, then the watchers, then the       *)
(* workers; the engine says it has stopped when all of them are gone.      *)
(* Shutdown.tla is how the code does it, and implements this module.       *)
(***************************************************************************)
CONSTANTS
    WatcherIds,     \* e.watchers
    WorkerIds       \* e.workers

VARIABLES
    crawling,       \* the crawler's goroutine has not ended
    watching,       \* the watchers whose goroutines have not
    working,        \* the workers
    stopped         \* baseEngine.stopped

orderVars == <<crawling, watching, working, stopped>>

Init ==
    /\ crawling = TRUE
    /\ watching = WatcherIds
    /\ working = WorkerIds
    /\ stopped = FALSE

\* stopstoppables(e.crawlers)
CrawlerEnds ==
    /\ crawling
    /\ crawling' = FALSE
    /\ UNCHANGED <<watching, working, stopped>>

\* stopstoppables(e.watchers)
WatcherEnds(i) ==
    /\ ~crawling
    /\ i \in watching
    /\ watching' = watching \ {i}
    /\ UNCHANGED <<crawling, working, stopped>>

\* worker.stop, and stopstoppables(e.workers)
WorkerEnds(i) ==
    /\ ~crawling /\ watching = {}
    /\ i \in working
    /\ working' = working \ {i}
    /\ UNCHANGED <<crawling, watching, stopped>>

\* atomicSet(&e.stopped, true)
Stopped ==
    /\ ~crawling /\ watching = {} /\ working = {}
    /\ stopped' = TRUE
    /\ UNCHANGED <<crawling, watching, working>>

Next ==
    \/ CrawlerEnds
    \/ \E i \in WatcherIds : WatcherEnds(i)
    \/ \E i \in WorkerIds : WorkerEnds(i)
    \/ Stopped

Spec == Init /\ [][Next]_orderVars
================================================================================
