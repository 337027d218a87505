-------------------------------- MODULE Shutdown -------------------------------
(***************************************************************************)
(* How an engine stops: baseEngine.stop (rules/engine.go) and the          *)
(* goroutines it stops, each with its stopping and stopped flags and the   *)
(* channel it is woken by.  What the goroutines work on is abstracted to   *)
(* the number of elements in the channels between them.                    *)
(***************************************************************************)
EXTENDS Naturals

CONSTANTS
    Stoppers,       \* goroutines running stop: one for each Stop or Shutdown
    Watchers,       \* len(e.watchers)
    Workers,        \* len(e.workers)
    KeyWorkers,     \* goroutines running keyWorker, which nobody stops
    KPBuffer,       \* capacity of kpChannel
    WorkBuffer,     \* capacity of workChannel
    MaxBatch,       \* bound on the events of one watch response
    MaxRules        \* bound on the satisfied rules of one key

ASSUME ShutdownAssumption ==
    /\ Watchers \in Nat /\ Workers \in Nat
    /\ KPBuffer \in Nat \ {0} /\ WorkBuffer \in Nat
    /\ MaxBatch \in Nat \ {0} /\ MaxRules \in Nat

VARIABLES
    spc, idx,           \* stop(): where, and at which element of the slice
    engineStopped,      \* baseEngine.stopped
    cpc, cstopping,     \* the crawler; it is stopped when cpc is "stopped"
    wpc, wstopping,     \* the watchers
    events,             \* etcdV3KeyWatcher.events: how many are left
    kp,                 \* how many keys kpChannel holds
    pending,            \* how many rules each key worker has yet to dispatch
    work,               \* how many works workChannel holds
    pc, stopping,       \* the workers
    done                \* how many elements each worker's done channel holds

stoppers == <<spc, idx, engineStopped>>
crawler == <<cpc, cstopping>>
watchers == <<wpc, wstopping, events>>
workers == <<pc, stopping, done>>
vars == <<stoppers, crawler, watchers, kp, pending, work, workers>>

StopPCs == {"idle", "crawlers", "crawlersWait", "watcher", "watcherCancel", "watchersWait",
            "worker", "workerDone", "worker2", "workerDone2", "workersWait", "returned"}

TypeOK ==
    /\ spc \in [Stoppers -> StopPCs]
    /\ idx \in [Stoppers -> Nat]
    /\ engineStopped \in BOOLEAN
    /\ cpc \in {"top", "run", "submit", "pause", "stopped"}
    /\ cstopping \in BOOLEAN
    /\ wpc \in [1 .. Watchers -> {"top", "next", "submit", "sleep", "stopped"}]
    /\ wstopping \in [1 .. Watchers -> BOOLEAN]
    /\ events \in [1 .. Watchers -> 0 .. MaxBatch - 1]
    /\ kp \in 0 .. KPBuffer
    /\ pending \in [KeyWorkers -> 0 .. MaxRules]
    /\ work \in 0 .. WorkBuffer
    /\ pc \in [1 .. Workers -> {"top", "select", "got", "work", "locked", "callback", "stopped"}]
    /\ stopping \in [1 .. Workers -> BOOLEAN]
    /\ done \in [1 .. Workers -> 0 .. 1]

\* Run has started every goroutine.
Init ==
    /\ spc = [s \in Stoppers |-> "idle"]
    /\ idx = [s \in Stoppers |-> 0]
    /\ engineStopped = FALSE
    /\ cpc = "top"
    /\ cstopping = FALSE
    /\ wpc = [i \in 1 .. Watchers |-> "top"]
    /\ wstopping = [i \in 1 .. Watchers |-> FALSE]
    /\ events = [i \in 1 .. Watchers |-> 0]
    /\ kp = 0
    /\ pending = [q \in KeyWorkers |-> 0]
    /\ work = 0
    /\ pc = [i \in 1 .. Workers |-> "top"]
    /\ stopping = [i \in 1 .. Workers |-> FALSE]
    /\ done = [i \in 1 .. Workers |-> 0]

--------------------------------------------------------------------------------
(* The crawler: intCrawler.run *)

CrawlerMoves(from, to) ==
    /\ cpc = from
    /\ cpc' = to
    /\ UNCHANGED <<cstopping, stoppers, watchers, pending, work, workers>>

\* (Wrong on purpose: the loop does not look at stopping.)
CrawlerTopForever ==
    /\ CrawlerMoves("top", "run")
    /\ UNCHANGED kp

\* for !ic.isStopping()
CrawlerTop ==
    /\ CrawlerMoves("top", IF cstopping THEN "stopped" ELSE "run")
    /\ UNCHANGED kp

\* A run, and processData, end early when the crawler is stopping.
CrawlerKey ==
    /\ ~cstopping
    /\ CrawlerMoves("run", "submit")
    /\ UNCHANGED kp

CrawlerSubmit ==
    /\ kp < KPBuffer
    /\ kp' = kp + 1
    /\ CrawlerMoves("submit", "run")

CrawlerRunEnds == CrawlerMoves("run", "pause") /\ UNCHANGED kp

CrawlerPaused == CrawlerMoves("pause", "top") /\ UNCHANGED kp

--------------------------------------------------------------------------------
(* Watchers: watcher.run, singleRun, etcdV3KeyWatcher.next *)

WatcherMoves(i, from, to) ==
    /\ wpc[i] = from
    /\ wpc' = [wpc EXCEPT ![i] = to]
    /\ UNCHANGED <<wstopping, crawler, pending, work, workers>>

\* for !is(&w.stopping)
WatcherTop(i) ==
    /\ WatcherMoves(i, "top", IF wstopping[i] THEN "stopped" ELSE "next")
    /\ UNCHANGED <<stoppers, events, kp>>

\* Events left over from the last response are returned without a select.
WatcherBuffered(i) ==
    /\ events[i] > 0
    /\ WatcherMoves(i, "next", "submit")
    /\ events' = [events EXCEPT ![i] = @ - 1]
    /\ UNCHANGED <<stoppers, kp>>

\* The select receives a response ...
WatcherEvents(i) ==
    /\ events[i] = 0
    /\ WatcherMoves(i, "next", "submit")
    /\ \E n \in 1 .. MaxBatch : events' = [events EXCEPT ![i] = n - 1]
    /\ UNCHANGED <<stoppers, kp>>

\* ... or finds the channel closed: next resets the watch and fails.
WatcherError(i) ==
    /\ events[i] = 0
    /\ WatcherMoves(i, "next", "sleep")
    /\ UNCHANGED <<stoppers, events, kp>>

\* processKey, after processDelay
WatcherSubmit(i) ==
    /\ kp < KPBuffer
    /\ kp' = kp + 1
    /\ WatcherMoves(i, "submit", "top")
    /\ UNCHANGED <<stoppers, events>>

WatcherSlept(i) ==
    /\ WatcherMoves(i, "sleep", "top")
    /\ UNCHANGED <<stoppers, events, kp>>

--------------------------------------------------------------------------------
(* Workers: v3Worker.run, singleRun, doWork *)

WorkerMoves(i, from, to) ==
    /\ pc[i] = from
    /\ pc' = [pc EXCEPT ![i] = to]
    /\ UNCHANGED <<stopping, stoppers, crawler, watchers, kp>>

\* for !is(&w.stopping)
WorkerTop(i) ==
    /\ WorkerMoves(i, "top", IF stopping[i] THEN "stopped" ELSE "select")
    /\ UNCHANGED <<done, pending, work>>

\* The select receives from done ...
WorkerWoken(i) ==
    /\ done[i] > 0
    /\ done' = [done EXCEPT ![i] = @ - 1]
    /\ WorkerMoves(i, "select", "top")
    /\ UNCHANGED <<pending, work>>

\* ... or from workChannel.
WorkerReceives(i) ==
    /\ work > 0
    /\ work' = work - 1
    /\ WorkerMoves(i, "select", "got")
    /\ UNCHANGED <<done, pending>>

\* Work received by a worker that is stopping is dropped.
WorkerStarts(i) ==
    /\ WorkerMoves(i, "got", IF stopping[i] THEN "top" ELSE "work")
    /\ UNCHANGED <<done, pending, work>>

\* doWork returns before the lock: not satisfied, an error, or stopping.
WorkerGivesUp(i) ==
    /\ WorkerMoves(i, "work", "top")
    /\ UNCHANGED <<done, pending, work>>

WorkerLocks(i) ==
    /\ ~stopping[i]
    /\ WorkerMoves(i, "work", "locked")
    /\ UNCHANGED <<done, pending, work>>

WorkerCallback(i) ==
    /\ ~stopping[i]
    /\ WorkerMoves(i, "locked", "callback")
    /\ UNCHANGED <<done, pending, work>>

\* doWork returns, with its deferred Unlock.
WorkerReturns(i) ==
    /\ WorkerMoves(i, "locked", "top") \/ WorkerMoves(i, "callback", "top")
    /\ UNCHANGED <<done, pending, work>>

--------------------------------------------------------------------------------
(* Key workers: keyWorker, processKey, dispatchWork *)

KeyWorkerReceives(q) ==
    /\ pending[q] = 0
    /\ kp > 0
    /\ kp' = kp - 1
    /\ \E n \in 0 .. MaxRules : pending' = [pending EXCEPT ![q] = n]
    /\ UNCHANGED <<stoppers, crawler, watchers, work, workers>>

\* dispatchWork: room in the channel, or a worker waiting at an empty one.
KeyWorkerSends(q) ==
    /\ pending[q] > 0
    /\ pending' = [pending EXCEPT ![q] = @ - 1]
    /\ work < WorkBuffer
    /\ work' = work + 1
    /\ UNCHANGED <<stoppers, crawler, watchers, kp, workers>>

KeyWorkerHandsOver(q) ==
    /\ pending[q] > 0
    /\ pending' = [pending EXCEPT ![q] = @ - 1]
    /\ work = 0
    /\ \E i \in 1 .. Workers : WorkerMoves(i, "select", "got")
    /\ UNCHANGED <<work, done>>

--------------------------------------------------------------------------------
(* baseEngine.stop, stopstoppables *)

StopperMoves(s, from, to, i) ==
    /\ spc[s] = from
    /\ spc' = [spc EXCEPT ![s] = to]
    /\ idx' = [idx EXCEPT ![s] = i]

\* Stop and Shutdown start a goroutine that runs stop.
StopCalled(s) ==
    /\ StopperMoves(s, "idle", "crawlers", 0)
    /\ UNCHANGED <<engineStopped, crawler, watchers, kp, pending, work, workers>>

\* intCrawler.stop
StopCrawlers(s) ==
    /\ StopperMoves(s, "crawlers", "crawlersWait", 0)
    /\ cstopping' = TRUE
    /\ UNCHANGED <<engineStopped, cpc, watchers, kp, pending, work, workers>>

\* (Wrong on purpose: the crawler has been asked, and is not waited for.)
CrawlersNotAwaited(s) ==
    /\ StopperMoves(s, "crawlersWait", "watcher", 1)
    /\ UNCHANGED <<engineStopped, crawler, watchers, kp, pending, work, workers>>

CrawlersStopped(s) ==
    /\ cpc = "stopped"
    /\ StopperMoves(s, "crawlersWait", "watcher", 1)
    /\ UNCHANGED <<engineStopped, crawler, watchers, kp, pending, work, workers>>

\* (Wrong on purpose: watcher.stop without kw.cancel.)
StopWatcherUnwoken(s) ==
    /\ idx[s] <= Watchers
    /\ StopperMoves(s, "watcher", "watcher", idx[s] + 1)
    /\ wstopping' = [wstopping EXCEPT ![idx[s]] = TRUE]
    /\ UNCHANGED <<engineStopped, crawler, wpc, events, kp, pending, work, workers>>

\* watcher.stop: set the flag ...
StopWatcher(s) ==
    /\ idx[s] <= Watchers
    /\ StopperMoves(s, "watcher", "watcherCancel", idx[s])
    /\ wstopping' = [wstopping EXCEPT ![idx[s]] = TRUE]
    /\ UNCHANGED <<engineStopped, crawler, wpc, events, kp, pending, work, workers>>

\* (Wrong on purpose: a send that is given up when the watcher is not in its
\* select, though it may be about to enter it.)
WatcherCancelGivenUp(s) ==
    /\ StopperMoves(s, "watcherCancel", "watcher", idx[s] + 1)
    /\ UNCHANGED <<engineStopped, crawler, watchers, kp, pending, work, workers>>

\* ... and send on stopCh, which has no buffer: the watcher has to be in its
\* select.  It closes its watch, sleeps and goes on.
WatcherCancelled(s) ==
    /\ StopperMoves(s, "watcherCancel", "watcher", idx[s] + 1)
    /\ events[idx[s]] = 0
    /\ WatcherMoves(idx[s], "next", "sleep")
    /\ UNCHANGED <<engineStopped, events, kp>>

WatchersAsked(s) ==
    /\ idx[s] > Watchers
    /\ StopperMoves(s, "watcher", "watchersWait", 0)
    /\ UNCHANGED <<engineStopped, crawler, watchers, kp, pending, work, workers>>

\* (Wrong on purpose: the watchers have been asked, and are not waited for.)
WatchersNotAwaited(s) ==
    /\ StopperMoves(s, "watchersWait", "worker", 1)
    /\ UNCHANGED <<engineStopped, crawler, watchers, kp, pending, work, workers>>

\* The second loop of stopstoppables polls until all of them have stopped.
WatchersStopped(s) ==
    /\ \A i \in 1 .. Watchers : wpc[i] = "stopped"
    /\ StopperMoves(s, "watchersWait", "worker", 1)
    /\ UNCHANGED <<engineStopped, crawler, watchers, kp, pending, work, workers>>

\* (Wrong on purpose: baseWorker.stop without the send.)
StopWorkerUnwoken(s) ==
    /\ idx[s] <= Workers
    /\ \/ StopperMoves(s, "worker", "worker", idx[s] + 1)
       \/ StopperMoves(s, "worker2", "worker2", idx[s] + 1)
    /\ stopping' = [stopping EXCEPT ![idx[s]] = TRUE]
    /\ UNCHANGED <<engineStopped, crawler, watchers, kp, pending, work, pc, done>>

\* baseWorker.stop, called twice for each worker: set the flag ...
StopWorker(s) ==
    /\ idx[s] <= Workers
    /\ \/ StopperMoves(s, "worker", "workerDone", idx[s])
       \/ StopperMoves(s, "worker2", "workerDone2", idx[s])
    /\ stopping' = [stopping EXCEPT ![idx[s]] = TRUE]
    /\ UNCHANGED <<engineStopped, crawler, watchers, kp, pending, work, pc, done>>

\* (Wrong on purpose: a send that never blocks.)
WorkerDoneUnbounded(s) ==
    /\ \/ StopperMoves(s, "workerDone", "worker", idx[s] + 1)
       \/ StopperMoves(s, "workerDone2", "worker2", idx[s] + 1)
    /\ done' = [done EXCEPT ![idx[s]] = @ + 1]
    /\ UNCHANGED <<engineStopped, crawler, watchers, kp, pending, work, pc, stopping>>

\* ... and send on done, which has a buffer of one.
WorkerDone(s) ==
    /\ \/ StopperMoves(s, "workerDone", "worker", idx[s] + 1)
       \/ StopperMoves(s, "workerDone2", "worker2", idx[s] + 1)
    /\ done[idx[s]] < 1
    /\ done' = [done EXCEPT ![idx[s]] = @ + 1]
    /\ UNCHANGED <<engineStopped, crawler, watchers, kp, pending, work, pc, stopping>>

WorkersAsked(s) ==
    /\ idx[s] > Workers
    /\ StopperMoves(s, "worker", "worker2", 1) \/ StopperMoves(s, "worker2", "workersWait", 0)
    /\ UNCHANGED <<engineStopped, crawler, watchers, kp, pending, work, workers>>

\* (Wrong on purpose: the workers have been asked, and are not waited for.)
WorkersNotAwaited(s) ==
    /\ StopperMoves(s, "workersWait", "returned", 0)
    /\ engineStopped' = TRUE
    /\ UNCHANGED <<crawler, watchers, kp, pending, work, workers>>

\* stop is over when every worker has stopped.
WorkersStopped(s) ==
    /\ \A i \in 1 .. Workers : pc[i] = "stopped"
    /\ StopperMoves(s, "workersWait", "returned", 0)
    /\ engineStopped' = TRUE
    /\ UNCHANGED <<crawler, watchers, kp, pending, work, workers>>

--------------------------------------------------------------------------------
Crawler == CrawlerTop \/ CrawlerKey \/ CrawlerSubmit \/ CrawlerRunEnds \/ CrawlerPaused

Watcher(i) ==
    \/ WatcherTop(i) \/ WatcherBuffered(i) \/ WatcherEvents(i)
    \/ WatcherError(i) \/ WatcherSubmit(i) \/ WatcherSlept(i)

Worker(i) ==
    \/ WorkerTop(i) \/ WorkerWoken(i) \/ WorkerReceives(i) \/ WorkerStarts(i)
    \/ WorkerGivesUp(i) \/ WorkerLocks(i) \/ WorkerCallback(i) \/ WorkerReturns(i)

KeyWorker(q) == KeyWorkerReceives(q) \/ KeyWorkerSends(q) \/ KeyWorkerHandsOver(q)

StopStep(s) ==
    \/ StopCrawlers(s) \/ CrawlersStopped(s)
    \/ StopWatcher(s) \/ WatcherCancelled(s) \/ WatchersAsked(s) \/ WatchersStopped(s)
    \/ StopWorker(s) \/ WorkerDone(s) \/ WorkersAsked(s) \/ WorkersStopped(s)

Next ==
    \/ Crawler
    \/ \E i \in 1 .. Watchers : Watcher(i)
    \/ \E i \in 1 .. Workers : Worker(i)
    \/ \E q \in KeyWorkers : KeyWorker(q)
    \/ \E s \in Stoppers : StopCalled(s) \/ StopStep(s)

Spec == Init /\ [][Next]_vars

\* Goroutines that can go on do, a crawler run and a callback end, and those
\* blocked on a channel are served in order.  Nobody has to call Stop, and no
\* event has to come.
Fairness ==
    /\ WF_vars(CrawlerTop) /\ WF_vars(CrawlerRunEnds) /\ WF_vars(CrawlerPaused)
    /\ SF_vars(CrawlerSubmit)
    /\ \A i \in 1 .. Watchers :
        /\ WF_vars(WatcherTop(i) \/ WatcherBuffered(i) \/ WatcherSlept(i))
        /\ SF_vars(WatcherSubmit(i))
    /\ \A i \in 1 .. Workers : WF_vars(Worker(i))
    /\ \A q \in KeyWorkers :
        WF_vars(KeyWorkerReceives(q)) /\ SF_vars(KeyWorkerSends(q) \/ KeyWorkerHandsOver(q))
    /\ \A s \in Stoppers : SF_vars(StopStep(s))

FairSpec == Spec /\ Fairness

\* The same, of which only the end of each goroutine is seen.
SO == INSTANCE StopOrder WITH
    WatcherIds <- 1 .. Watchers,
    WorkerIds <- 1 .. Workers,
    crawling <- (cpc # "stopped"),
    watching <- {i \in 1 .. Watchers : wpc[i] # "stopped"},
    working <- {i \in 1 .. Workers : pc[i] # "stopped"},
    stopped <- engineStopped

--------------------------------------------------------------------------------
(* Properties *)

\* However many calls of stop run at once, the engine's goroutines end in
\* stop's order and none comes back: a watcher only after the crawler, a
\* worker only after all watchers, and IsStopped says so after all of them.
StopsInOrder == SO!Spec

\* stop wakes whom it asks to stop: a worker or a watcher that is asked while
\* it waits in its select has a message in its channel, or one is about to be
\* sent by a call of stop.
NoLostWakeup ==
    /\ \A i \in 1 .. Workers :
        stopping[i] /\ pc[i] = "select" =>
            \/ done[i] > 0
            \/ \E s \in Stoppers : spc[s] \in {"workerDone", "workerDone2"} /\ idx[s] = i
    /\ \A i \in 1 .. Watchers :
        wstopping[i] /\ wpc[i] = "next" =>
            \E s \in Stoppers : spc[s] = "watcherCancel" /\ idx[s] = i

\* When IsStopped says so, and Shutdown returns nil, nothing of the engine
\* runs any more: no crawler, no watcher, no worker and so no callback.
StoppedIsQuiet ==
    engineStopped =>
        /\ cpc = "stopped"
        /\ \A i \in 1 .. Watchers : wpc[i] = "stopped"
        /\ \A i \in 1 .. Workers : pc[i] = "stopped"

\* Workers are only asked to stop when nothing produces work any more, so no
\* crawler or watcher is left blocked on a channel that nobody empties.
ProducersFirst ==
    (\E i \in 1 .. Workers : stopping[i]) =>
        cpc = "stopped" /\ \A i \in 1 .. Watchers : wpc[i] = "stopped"

\* A crawler that is asked to stop does stop, even if it is pausing or blocked
\* on kpChannel (intCrawler.run).
CrawlerStops == cstopping ~> (cpc = "stopped")

\* A watcher that is asked to stop does stop, even if it is sleeping, waiting
\* for an event or blocked on kpChannel (watcher.run).
WatchersStop == \A i \in 1 .. Watchers : wstopping[i] ~> (wpc[i] = "stopped")

\* A worker that is asked to stop does stop, even if it is in a callback or
\* waiting for work (baseWorker, v3Worker.run).
WorkersStop == \A i \in 1 .. Workers : stopping[i] ~> (pc[i] = "stopped")

\* stop gets past the watchers: Shutdown "waits for termination to complete"
\* (engine.go), and the watchers do terminate.
WatcherStopReturns ==
    \A s \in Stoppers : (spc[s] = "watcherCancel") ~> (spc[s] # "watcherCancel")

\* Calling a worker's stop a second time returns: "the "stop" method is called
\* again, but that is idempotent" (engine.go).
WorkerStopIdempotent ==
    \A s \in Stoppers : (spc[s] = "workerDone2") ~> (spc[s] # "workerDone2")
================================================================================
