----------------------------- MODULE ShutdownProofs ----------------------------
(***************************************************************************)
(* StoppedIsQuiet, ProducersFirst, NoLostWakeup and StopsInOrder for any   *)
(* number of watchers, workers, key workers, concurrent calls of stop, and *)
(* any channel capacities.                                                 *)
(***************************************************************************)
EXTENDS Shutdown, TLAPS

Quiet == \A i \in 1 .. Watchers : wpc[i] = "stopped"

\* Where a call of stop is when it has seen the crawler, and all watchers,
\* stopped.
AfterCrawlers == {"watcher", "watcherCancel", "watchersWait", "worker", "workerDone",
                  "worker2", "workerDone2", "workersWait", "returned"}
AfterWatchers == {"worker", "workerDone", "worker2", "workerDone2", "workersWait", "returned"}

\* The inductive invariant: what a call of stop has seen remains so, although
\* other calls of stop run at the same time.
ShutdownInv ==
    /\ TypeOK
    /\ \A s \in Stoppers : spc[s] \in AfterCrawlers => cpc = "stopped"
    /\ \A s \in Stoppers : spc[s] \in AfterWatchers => Quiet
    /\ StoppedIsQuiet
    /\ ProducersFirst

\* TypeOK in five parts, which most actions change one of.
StopTypes ==
    /\ spc \in [Stoppers -> StopPCs]
    /\ idx \in [Stoppers -> Nat]
    /\ engineStopped \in BOOLEAN

CrawlerTypes ==
    /\ cpc \in {"top", "run", "submit", "pause", "stopped"}
    /\ cstopping \in BOOLEAN

WatcherTypes ==
    /\ wpc \in [1 .. Watchers -> {"top", "next", "submit", "sleep", "stopped"}]
    /\ wstopping \in [1 .. Watchers -> BOOLEAN]
    /\ events \in [1 .. Watchers -> 0 .. MaxBatch - 1]

ChannelTypes ==
    /\ kp \in 0 .. KPBuffer
    /\ pending \in [KeyWorkers -> 0 .. MaxRules]
    /\ work \in 0 .. WorkBuffer

WorkerTypes ==
    /\ pc \in [1 .. Workers -> {"top", "select", "got", "work", "locked", "callback", "stopped"}]
    /\ stopping \in [1 .. Workers -> BOOLEAN]
    /\ done \in [1 .. Workers -> 0 .. 1]

\* The parts are all of it.
LEMMA Types ==
    TypeOK <=> StopTypes /\ CrawlerTypes /\ WatcherTypes /\ ChannelTypes /\ WorkerTypes
BY Zenon DEF TypeOK, StopTypes, CrawlerTypes, WatcherTypes, ChannelTypes, WorkerTypes

\* All flags are down at first.
LEMMA ShutdownInit == Init => ShutdownInv
<1> SUFFICES ASSUME Init PROVE ShutdownInv
  OBVIOUS
<1>1. TypeOK
  <2> USE ShutdownAssumption DEF Init
  <2>1. StopTypes
    BY Zenon DEF StopTypes, StopPCs
  <2>2. CrawlerTypes
    BY Zenon DEF CrawlerTypes
  <2>3. WatcherTypes
    BY DEF WatcherTypes
  <2>4. ChannelTypes /\ WorkerTypes
    BY DEF ChannelTypes, WorkerTypes
  <2> QED
    BY <2>1, <2>2, <2>3, <2>4, Types
<1>2. \A s \in Stoppers : spc[s] \notin AfterCrawlers /\ spc[s] \notin AfterWatchers
  BY Zenon DEF Init, AfterCrawlers, AfterWatchers
<1>3. StoppedIsQuiet /\ ProducersFirst
  BY DEF Init, StoppedIsQuiet, ProducersFirst
<1> QED
  BY <1>1, <1>2, <1>3 DEF ShutdownInv

\* Every step keeps the types, channel capacities included.
LEMMA TypeStep == TypeOK /\ [Next]_vars => TypeOK'
<1> SUFFICES ASSUME TypeOK, [Next]_vars PROVE TypeOK'
  OBVIOUS
<1> USE ShutdownAssumption
<1>0. StopTypes /\ CrawlerTypes /\ WatcherTypes /\ ChannelTypes /\ WorkerTypes
  BY Types
<1>a. /\ UNCHANGED stoppers => StopTypes'
      /\ UNCHANGED crawler => CrawlerTypes'
      /\ UNCHANGED watchers => WatcherTypes'
      /\ UNCHANGED <<kp, pending, work>> => ChannelTypes'
      /\ UNCHANGED workers => WorkerTypes'
  BY <1>0 DEF StopTypes, CrawlerTypes, WatcherTypes, ChannelTypes, WorkerTypes,
      stoppers, crawler, watchers, workers
<1>b. StopTypes' /\ CrawlerTypes' /\ WatcherTypes' /\ ChannelTypes' /\ WorkerTypes' => TypeOK'
  BY Zenon DEF TypeOK, StopTypes, CrawlerTypes, WatcherTypes, ChannelTypes, WorkerTypes
<1>1. CASE Crawler
  <2>1. UNCHANGED <<stoppers, watchers, workers>>
    BY <1>1 DEF Crawler, CrawlerTop, CrawlerKey, CrawlerSubmit, CrawlerRunEnds, CrawlerPaused, CrawlerMoves
  <2>2. CrawlerTypes' /\ ChannelTypes'
    BY <1>0, <1>1 DEF Crawler, CrawlerTop, CrawlerKey, CrawlerSubmit, CrawlerRunEnds, CrawlerPaused,
        CrawlerMoves, CrawlerTypes, ChannelTypes
  <2> QED
    BY <1>a, <1>b, <2>1, <2>2
<1>2. ASSUME NEW i \in 1 .. Watchers, Watcher(i) PROVE TypeOK'
  <2> USE <1>2 DEF Watcher, WatcherTop, WatcherBuffered, WatcherEvents, WatcherError, WatcherSubmit,
        WatcherSlept, WatcherMoves
  <2>1. UNCHANGED <<stoppers, crawler, workers>>
    OBVIOUS
  <2>2. WatcherTypes'
    <3>1. wpc' \in [1 .. Watchers -> {"top", "next", "submit", "sleep", "stopped"}]
      BY <1>0 DEF WatcherTypes
    <3>2. wstopping' \in [1 .. Watchers -> BOOLEAN]
      BY <1>0 DEF WatcherTypes
    <3>3. events' \in [1 .. Watchers -> 0 .. MaxBatch - 1]
      BY <1>0, SMTT(60) DEF WatcherTypes
    <3> QED
      BY <3>1, <3>2, <3>3 DEF WatcherTypes
  <2>3. ChannelTypes'
    BY <1>0 DEF ChannelTypes
  <2> QED
    BY <1>a, <1>b, <2>1, <2>2, <2>3
<1>3. ASSUME NEW i \in 1 .. Workers, Worker(i) PROVE TypeOK'
  <2> USE <1>3 DEF Worker, WorkerTop, WorkerWoken, WorkerReceives, WorkerStarts, WorkerGivesUp,
        WorkerLocks, WorkerCallback, WorkerReturns, WorkerMoves
  <2>1. UNCHANGED <<stoppers, crawler, watchers>>
    OBVIOUS
  <2>2. WorkerTypes'
    BY <1>0 DEF WorkerTypes
  <2>3. ChannelTypes'
    BY <1>0 DEF ChannelTypes
  <2> QED
    BY <1>a, <1>b, <2>1, <2>2, <2>3
<1>4. ASSUME NEW q \in KeyWorkers, KeyWorker(q) PROVE TypeOK'
  <2> USE <1>4 DEF KeyWorker, KeyWorkerReceives, KeyWorkerSends, KeyWorkerHandsOver, WorkerMoves
  <2>1. UNCHANGED <<stoppers, crawler, watchers>>
    OBVIOUS
  <2>2. WorkerTypes'
    BY <1>0 DEF WorkerTypes, workers
  <2>3. ChannelTypes'
    BY <1>0 DEF ChannelTypes
  <2> QED
    BY <1>a, <1>b, <2>1, <2>2, <2>3
<1>5. ASSUME NEW s \in Stoppers, StopCalled(s) \/ StopStep(s) PROVE TypeOK'
  <2> USE <1>5 DEF StopStep, StopCalled, StopCrawlers, CrawlersStopped, StopWatcher,
        WatcherCancelled, WatchersAsked, WatchersStopped, StopWorker, WorkerDone, WorkersAsked,
        WorkersStopped
  <2>1. UNCHANGED <<kp, pending, work>>
    BY DEF WatcherMoves
  <2>2. StopTypes'
    <3>1. spc' \in [Stoppers -> StopPCs]
      BY <1>0 DEF StopTypes, StopPCs, StopperMoves
    <3>2. idx' \in [Stoppers -> Nat]
      BY <1>0 DEF StopTypes, StopperMoves
    <3>3. engineStopped' \in BOOLEAN
      BY <1>0, Zenon DEF StopTypes
    <3> QED
      BY <3>1, <3>2, <3>3 DEF StopTypes
  <2>3. CrawlerTypes'
    BY <1>0, Zenon DEF CrawlerTypes, crawler, WatcherMoves
  <2>4. WatcherTypes'
    BY <1>0, Zenon DEF WatcherTypes, watchers, WatcherMoves
  <2>5. WorkerTypes'
    <3>1. pc' = pc
      BY DEF workers, WatcherMoves
    <3>2. stopping' \in [1 .. Workers -> BOOLEAN]
      BY <1>0, Zenon DEF WorkerTypes, workers, WatcherMoves
    <3>3. done' \in [1 .. Workers -> 0 .. 1]
      BY <1>0 DEF WorkerTypes, workers, WatcherMoves
    <3> QED
      BY <1>0, <3>1, <3>2, <3>3 DEF WorkerTypes
  <2> QED
    BY <1>a, <1>b, <2>1, <2>2, <2>3, <2>4, <2>5
<1>6. CASE UNCHANGED vars
  BY <1>6, <1>a, <1>b DEF vars
<1> QED
  BY <1>1, <1>2, <1>3, <1>4, <1>5, <1>6 DEF Next

\* What has stopped remains stopped: nothing starts a goroutine again.
LEMMA StoppedForGood ==
    ASSUME TypeOK, [Next]_vars
    PROVE  /\ cpc = "stopped" => cpc' = "stopped"
           /\ \A i \in 1 .. Watchers : wpc[i] = "stopped" => wpc'[i] = "stopped"
           /\ \A i \in 1 .. Workers : pc[i] = "stopped" => pc'[i] = "stopped"
<1>1. CASE Crawler
  BY <1>1 DEF Crawler, CrawlerTop, CrawlerKey, CrawlerSubmit, CrawlerRunEnds, CrawlerPaused,
      CrawlerMoves, watchers, workers
<1>2. ASSUME NEW i \in 1 .. Watchers, Watcher(i)
      PROVE  /\ cpc' = cpc /\ pc' = pc
             /\ \A j \in 1 .. Watchers : wpc[j] = "stopped" => wpc'[j] = "stopped"
  BY <1>2, Zenon DEF Watcher, WatcherTop, WatcherBuffered, WatcherEvents, WatcherError, WatcherSubmit,
      WatcherSlept, WatcherMoves, TypeOK, crawler, workers
<1>3. ASSUME NEW i \in 1 .. Workers, Worker(i)
      PROVE  /\ cpc' = cpc /\ wpc' = wpc
             /\ \A j \in 1 .. Workers : pc[j] = "stopped" => pc'[j] = "stopped"
  BY <1>3, Zenon DEF Worker, WorkerTop, WorkerWoken, WorkerReceives, WorkerStarts, WorkerGivesUp,
      WorkerLocks, WorkerCallback, WorkerReturns, WorkerMoves, TypeOK, crawler, watchers
<1>4. ASSUME NEW q \in KeyWorkers, KeyWorker(q)
      PROVE  /\ cpc' = cpc /\ wpc' = wpc
             /\ \A j \in 1 .. Workers : pc[j] = "stopped" => pc'[j] = "stopped"
  BY <1>4, Zenon DEF KeyWorker, KeyWorkerReceives, KeyWorkerSends, KeyWorkerHandsOver, WorkerMoves,
      TypeOK, crawler, watchers, workers
<1>5. ASSUME NEW s \in Stoppers, StopCalled(s) \/ StopStep(s)
      PROVE  /\ cpc' = cpc /\ pc' = pc
             /\ \A j \in 1 .. Watchers : wpc[j] = "stopped" => wpc'[j] = "stopped"
  BY <1>5, Zenon DEF StopStep, StopCalled, StopCrawlers, CrawlersStopped, StopWatcher, WatcherCancelled,
      WatchersAsked, WatchersStopped, StopWorker, WorkerDone, WorkersAsked, WorkersStopped,
      WatcherMoves, TypeOK, crawler, watchers, workers
<1>6. CASE UNCHANGED vars
  BY <1>6 DEF vars, crawler, watchers, workers
<1> QED
  BY <1>1, <1>2, <1>3, <1>4, <1>5, <1>6 DEF Next

\* A call of stop gets past the crawler and the watchers only when it sees
\* them stopped, and only then asks a worker to stop.
LEMMA StopperStep ==
    ASSUME ShutdownInv, NEW s \in Stoppers, StopCalled(s) \/ StopStep(s)
    PROVE  /\ \A t \in Stoppers : spc'[t] \in AfterCrawlers => cpc = "stopped"
           /\ \A t \in Stoppers : spc'[t] \in AfterWatchers => Quiet
           /\ engineStopped' => engineStopped \/ (/\ spc[s] \in AfterWatchers
                                                  /\ \A i \in 1 .. Workers : pc[i] = "stopped")
           /\ stopping' = stopping \/ spc[s] \in AfterWatchers
<1> USE DEF ShutdownInv, TypeOK, StopperMoves, AfterCrawlers, AfterWatchers, stoppers, workers
<1>1. CASE StopCalled(s) \/ StopCrawlers(s) \/ CrawlersStopped(s)
  BY <1>1 DEF StopCalled, StopCrawlers, CrawlersStopped
<1>2. CASE StopWatcher(s) \/ WatcherCancelled(s)
  BY <1>2 DEF StopWatcher, WatcherCancelled, WatcherMoves
<1>3. CASE WatchersAsked(s) \/ WatchersStopped(s)
  BY <1>3 DEF WatchersAsked, WatchersStopped, Quiet
<1>4. CASE StopWorker(s) \/ WorkerDone(s)
  BY <1>4 DEF StopWorker, WorkerDone
<1>5. CASE WorkersAsked(s) \/ WorkersStopped(s)
  BY <1>5 DEF WorkersAsked, WorkersStopped
<1> QED
  BY <1>1, <1>2, <1>3, <1>4, <1>5 DEF StopStep

\* The goroutines that are stopped touch neither stop's variables nor the
\* workers' stopping flags.
LEMMA GoroutineStep ==
    ASSUME [Next]_vars, \A s \in Stoppers : ~ (StopCalled(s) \/ StopStep(s))
    PROVE  UNCHANGED <<spc, engineStopped, stopping>>
BY DEF Next, vars, Crawler, CrawlerTop, CrawlerKey, CrawlerSubmit, CrawlerRunEnds, CrawlerPaused,
    CrawlerMoves, Watcher, WatcherTop, WatcherBuffered, WatcherEvents, WatcherError,
    WatcherSubmit, WatcherSlept, WatcherMoves, Worker, WorkerTop, WorkerWoken, WorkerReceives,
    WorkerStarts, WorkerGivesUp, WorkerLocks, WorkerCallback, WorkerReturns, WorkerMoves,
    KeyWorker, KeyWorkerReceives, KeyWorkerSends, KeyWorkerHandsOver, stoppers, workers

\* The invariant is inductive.
LEMMA ShutdownNext == ShutdownInv /\ [Next]_vars => ShutdownInv'
<1> SUFFICES ASSUME ShutdownInv, [Next]_vars PROVE ShutdownInv'
  OBVIOUS
<1>1. TypeOK /\ TypeOK'
  BY TypeStep DEF ShutdownInv
<1>2. /\ cpc = "stopped" => cpc' = "stopped"
      /\ Quiet => Quiet'
      /\ \A i \in 1 .. Workers : pc[i] = "stopped" => pc'[i] = "stopped"
  BY <1>1, StoppedForGood DEF Quiet
<1>3. CASE \E s \in Stoppers : StopCalled(s) \/ StopStep(s)
  <2>1. PICK s \in Stoppers : StopCalled(s) \/ StopStep(s)
    BY <1>3
  <2>2. /\ \A t \in Stoppers : spc'[t] \in AfterCrawlers => cpc = "stopped"
        /\ \A t \in Stoppers : spc'[t] \in AfterWatchers => Quiet
        /\ engineStopped' => engineStopped \/ (/\ spc[s] \in AfterWatchers
                                               /\ \A i \in 1 .. Workers : pc[i] = "stopped")
        /\ stopping' = stopping \/ spc[s] \in AfterWatchers
    BY <2>1, StopperStep
  <2>3. spc[s] \in AfterWatchers => cpc = "stopped" /\ Quiet
    BY DEF ShutdownInv, AfterWatchers, AfterCrawlers
  <2>4. StoppedIsQuiet'
    BY <1>2, <2>2, <2>3 DEF ShutdownInv, StoppedIsQuiet, Quiet
  <2>5. ProducersFirst'
    BY <1>2, <2>2, <2>3 DEF ShutdownInv, ProducersFirst, Quiet
  <2> QED
    BY <1>1, <1>2, <2>2, <2>4, <2>5 DEF ShutdownInv
<1>4. CASE \A s \in Stoppers : ~ (StopCalled(s) \/ StopStep(s))
  <2>1. UNCHANGED <<spc, engineStopped, stopping>>
    BY <1>4, GoroutineStep
  <2> QED
    BY <1>1, <1>2, <2>1 DEF ShutdownInv, StoppedIsQuiet, ProducersFirst, Quiet
<1> QED
  BY <1>3, <1>4

\* The types, with every channel within its capacity.
THEOREM ShutdownTypes == Spec => []TypeOK
<1>1. ShutdownInv => TypeOK
  BY DEF ShutdownInv
<1> QED
  BY <1>1, ShutdownInit, ShutdownNext, PTL DEF Spec

\* When the engine says it has stopped, its crawler, its watchers and its
\* workers have: no callback runs after Shutdown has returned nil, however
\* many calls of Stop and Shutdown ran at the same time.
THEOREM StoppedQuiet == Spec => []StoppedIsQuiet
<1>1. ShutdownInv => StoppedIsQuiet
  BY DEF ShutdownInv
<1> QED
  BY <1>1, ShutdownInit, ShutdownNext, PTL DEF Spec

\* No worker is asked to stop before everything that produces work has
\* stopped: stop's order holds for concurrent calls of it, too.
THEOREM ProducersStopFirst == Spec => []ProducersFirst
<1>1. ShutdownInv => ProducersFirst
  BY DEF ShutdownInv
<1> QED
  BY <1>1, ShutdownInit, ShutdownNext, PTL DEF Spec

--------------------------------------------------------------------------------
(* Wakeups *)

\* What NoLostWakeup says of one worker and of one watcher.
WorkerWillWake(i) ==
    stopping[i] /\ pc[i] = "select" =>
        \/ done[i] > 0
        \/ \E s \in Stoppers : spc[s] \in {"workerDone", "workerDone2"} /\ idx[s] = i

WatcherWillWake(i) ==
    wstopping[i] /\ wpc[i] = "next" =>
        \E s \in Stoppers : spc[s] = "watcherCancel" /\ idx[s] = i

\* The parts are the whole, now and after a step.
LEMMA WakeupParts ==
    /\ NoLostWakeup <=> /\ \A i \in 1 .. Workers : WorkerWillWake(i)
                        /\ \A i \in 1 .. Watchers : WatcherWillWake(i)
    /\ NoLostWakeup' <=> /\ \A i \in 1 .. Workers : WorkerWillWake(i)'
                         /\ \A i \in 1 .. Watchers : WatcherWillWake(i)'
BY Zenon DEF NoLostWakeup, WorkerWillWake, WatcherWillWake

\* A goroutine keeps what it has in its channel, and what is about to come,
\* when only others move.
LEMMA WakeupKept ==
    ASSUME UNCHANGED <<spc, idx>>
    PROVE  /\ \A i \in 1 .. Workers :
                WorkerWillWake(i) /\ stopping'[i] = stopping[i]
                /\ (pc'[i] = "select" => ~stopping[i] \/ (pc[i] = "select" /\ done'[i] = done[i]))
                => WorkerWillWake(i)'
           /\ \A i \in 1 .. Watchers :
                WatcherWillWake(i) /\ wstopping'[i] = wstopping[i]
                /\ (wpc'[i] = "next" => wpc[i] = "next" \/ ~wstopping[i])
                => WatcherWillWake(i)'
BY Zenon DEF WorkerWillWake, WatcherWillWake

\* The stopped goroutines enter their selects only when they have not been
\* asked to stop, and a worker that takes the message leaves its select.
LEMMA WakeupGoroutineStep ==
    ASSUME TypeOK, NoLostWakeup, [Next]_vars, \A s \in Stoppers : ~ (StopCalled(s) \/ StopStep(s))
    PROVE  NoLostWakeup'
<1>1. CASE Crawler
  BY <1>1 DEF NoLostWakeup, Crawler, CrawlerTop, CrawlerKey, CrawlerSubmit, CrawlerRunEnds, CrawlerPaused,
      CrawlerMoves, stoppers, watchers, workers
<1>2. ASSUME NEW i \in 1 .. Watchers, Watcher(i) PROVE NoLostWakeup'
  <2>1. UNCHANGED <<spc, idx, pc, stopping, done, wstopping>>
    BY <1>2 DEF Watcher, WatcherTop, WatcherBuffered, WatcherEvents, WatcherError, WatcherSubmit, WatcherSlept,
        WatcherMoves, stoppers, workers
  <2>2. \A j \in 1 .. Watchers : wpc'[j] = "next" => wpc[j] = "next" \/ ~wstopping[j]
    BY <1>2, Zenon DEF TypeOK, Watcher, WatcherTop, WatcherBuffered, WatcherEvents, WatcherError, WatcherSubmit,
        WatcherSlept, WatcherMoves
  <2> QED
    BY <2>1, <2>2, WakeupParts, WakeupKept, Zenon
<1>3. ASSUME NEW i \in 1 .. Workers, Worker(i) PROVE NoLostWakeup'
  <2>1. UNCHANGED <<spc, idx, wpc, stopping, wstopping>>
    BY <1>3 DEF Worker, WorkerTop, WorkerWoken, WorkerReceives, WorkerStarts, WorkerGivesUp, WorkerLocks,
        WorkerCallback, WorkerReturns, WorkerMoves, stoppers, watchers
  <2>2. \A j \in 1 .. Workers : pc'[j] = "select" => ~stopping[j] \/ (pc[j] = "select" /\ done'[j] = done[j])
    BY <1>3, Zenon DEF TypeOK, Worker, WorkerTop, WorkerWoken, WorkerReceives, WorkerStarts, WorkerGivesUp, WorkerLocks,
        WorkerCallback, WorkerReturns, WorkerMoves
  <2> QED
    BY <2>1, <2>2, WakeupParts, WakeupKept, Zenon
<1>4. ASSUME NEW q \in KeyWorkers, KeyWorker(q) PROVE NoLostWakeup'
  <2>1. UNCHANGED <<spc, idx, wpc, stopping, wstopping, done>>
    BY <1>4 DEF KeyWorker, KeyWorkerReceives, KeyWorkerSends, KeyWorkerHandsOver, WorkerMoves, stoppers, watchers,
        workers
  <2>2. \A j \in 1 .. Workers : pc'[j] = "select" => pc[j] = "select"
    BY <1>4, Zenon DEF TypeOK, KeyWorker, KeyWorkerReceives, KeyWorkerSends, KeyWorkerHandsOver, WorkerMoves, workers
  <2> QED
    BY <2>1, <2>2, WakeupParts, WakeupKept, Zenon
<1>5. CASE UNCHANGED vars
  BY <1>5, Zenon DEF NoLostWakeup, vars, stoppers, watchers, workers
<1> QED
  BY <1>1, <1>2, <1>3, <1>4, <1>5 DEF Next

\* A call of stop that sets a flag is the one that is about to wake, and it
\* goes on to the next only when the message is in the channel or taken.
LEMMA WakeupStopperStep ==
    ASSUME TypeOK, NoLostWakeup, NEW s \in Stoppers, StopCalled(s) \/ StopStep(s)
    PROVE  NoLostWakeup'
<1>1. CASE \/ StopCalled(s) \/ StopCrawlers(s) \/ CrawlersStopped(s) \/ WatchersAsked(s) \/ WatchersStopped(s)
           \/ WorkersAsked(s) \/ WorkersStopped(s)
  <2>1. /\ UNCHANGED <<wpc, wstopping, pc, stopping, done>>
        /\ spc[s] \notin {"watcherCancel", "workerDone", "workerDone2"}
        /\ \E to : spc' = [spc EXCEPT ![s] = to]
        /\ \E n : idx' = [idx EXCEPT ![s] = n]
    BY <1>1 DEF StopCalled, StopCrawlers, CrawlersStopped, WatchersAsked, WatchersStopped, WorkersAsked,
        WorkersStopped, StopperMoves, watchers, workers
  <2>2. \A t \in Stoppers : spc[t] \in {"watcherCancel", "workerDone", "workerDone2"} =>
            spc'[t] = spc[t] /\ idx'[t] = idx[t]
    BY <2>1 DEF TypeOK
  <2> QED
    BY <2>1, <2>2 DEF NoLostWakeup
<1>2. CASE StopWatcher(s)
  <2>1. /\ UNCHANGED <<wpc, pc, stopping, done>>
        /\ spc[s] = "watcher"
        /\ spc' = [spc EXCEPT ![s] = "watcherCancel"]
        /\ idx' = [idx EXCEPT ![s] = idx[s]]
        /\ wstopping' = [wstopping EXCEPT ![idx[s]] = TRUE]
    BY <1>2 DEF StopWatcher, StopperMoves, workers
  <2>2. \A t \in Stoppers : idx'[t] = idx[t] /\ (t # s => spc'[t] = spc[t])
    BY <2>1 DEF TypeOK
  <2>3. spc'[s] = "watcherCancel"
    BY <2>1 DEF TypeOK
  <2>4. \A i \in 1 .. Watchers : i # idx[s] => wstopping'[i] = wstopping[i]
    BY <2>1 DEF TypeOK
  <2> QED
    BY <2>1, <2>2, <2>3, <2>4 DEF NoLostWakeup
<1>3. CASE WatcherCancelled(s)
  <2>1. /\ UNCHANGED <<wstopping, pc, stopping, done>>
        /\ spc[s] = "watcherCancel"
        /\ spc' = [spc EXCEPT ![s] = "watcher"]
        /\ idx' = [idx EXCEPT ![s] = idx[s] + 1]
        /\ wpc' = [wpc EXCEPT ![idx[s]] = "sleep"]
    BY <1>3 DEF WatcherCancelled, StopperMoves, WatcherMoves, workers
  <2>2. \A t \in Stoppers : t # s => spc'[t] = spc[t] /\ idx'[t] = idx[t]
    BY <2>1 DEF TypeOK
  <2>3. \A i \in 1 .. Watchers : IF i = idx[s] THEN wpc'[i] = "sleep" ELSE wpc'[i] = wpc[i]
    BY <2>1 DEF TypeOK
  <2> QED
    BY <2>1, <2>2, <2>3 DEF NoLostWakeup
<1>4. CASE StopWorker(s)
  <2>1. /\ UNCHANGED <<wpc, wstopping, pc, done>>
        /\ spc[s] \in {"worker", "worker2"}
        /\ \E to \in {"workerDone", "workerDone2"} : spc' = [spc EXCEPT ![s] = to]
        /\ idx' = [idx EXCEPT ![s] = idx[s]]
        /\ stopping' = [stopping EXCEPT ![idx[s]] = TRUE]
    BY <1>4 DEF StopWorker, StopperMoves, watchers
  <2>2. \A t \in Stoppers : idx'[t] = idx[t] /\ (t # s => spc'[t] = spc[t])
    BY <2>1 DEF TypeOK
  <2>3. spc'[s] \in {"workerDone", "workerDone2"}
    BY <2>1 DEF TypeOK
  <2>4. \A i \in 1 .. Workers : i # idx[s] => stopping'[i] = stopping[i]
    BY <2>1 DEF TypeOK
  <2> QED
    BY <2>1, <2>2, <2>3, <2>4 DEF NoLostWakeup
<1>5. CASE WorkerDone(s)
  <2>1. /\ UNCHANGED <<wpc, wstopping, pc, stopping>>
        /\ spc[s] \in {"workerDone", "workerDone2"}
        /\ \E to \in {"worker", "worker2"} : spc' = [spc EXCEPT ![s] = to]
        /\ idx' = [idx EXCEPT ![s] = idx[s] + 1]
        /\ done' = [done EXCEPT ![idx[s]] = @ + 1]
    BY <1>5 DEF WorkerDone, StopperMoves, watchers
  <2>2. \A t \in Stoppers : t # s => spc'[t] = spc[t] /\ idx'[t] = idx[t]
    BY <2>1 DEF TypeOK
  <2>3. \A i \in 1 .. Workers : IF i = idx[s] THEN done'[i] > 0 ELSE done'[i] = done[i]
    BY <2>1 DEF TypeOK
  <2> QED
    BY <2>1, <2>2, <2>3 DEF NoLostWakeup
<1> QED
  BY <1>1, <1>2, <1>3, <1>4, <1>5, Zenon DEF StopStep

\* No worker and no watcher that is asked to stop waits in its select for
\* ever: baseWorker.stop and watcher.stop set the flag before they send, so
\* the message comes after the last look at the flag, whoever else calls stop.
THEOREM WakeupsKept == Spec => []NoLostWakeup
<1>1. Init => NoLostWakeup
  BY DEF Init, NoLostWakeup
<1>2. ShutdownInv /\ NoLostWakeup /\ [Next]_vars => NoLostWakeup'
  <2>1. ShutdownInv => TypeOK
    BY DEF ShutdownInv
  <2> QED
    BY <2>1, WakeupGoroutineStep, WakeupStopperStep
<1> QED
  BY <1>1, <1>2, ShutdownInit, ShutdownNext, PTL DEF Spec

--------------------------------------------------------------------------------
(* Shutdown implements StopOrder *)

\* A watcher is asked to stop only when the crawler has stopped.
CrawlerFirst == (\E i \in 1 .. Watchers : wstopping[i]) => cpc = "stopped"

OrderInv == ShutdownInv /\ CrawlerFirst

\* At the start nobody is asked.
LEMMA OrderInit == Init => OrderInv
BY ShutdownInit DEF OrderInv, CrawlerFirst, Init

\* Only stop sets a watcher's flag, and it is past the crawler then.
LEMMA OrderNext == OrderInv /\ [Next]_vars => OrderInv'
<1> SUFFICES ASSUME OrderInv, [Next]_vars PROVE CrawlerFirst'
  BY ShutdownNext DEF OrderInv
<1>1. cpc = "stopped" => cpc' = "stopped"
  BY StoppedForGood DEF OrderInv, ShutdownInv
<1>2. wstopping' = wstopping \/ cpc = "stopped"
  <2>1. CASE \E s \in Stoppers : StopWatcher(s)
    BY <2>1, SMTT(60) DEF StopWatcher, StopperMoves, OrderInv, ShutdownInv, AfterCrawlers
  <2>2. CASE ~ \E s \in Stoppers : StopWatcher(s)
    BY <2>2 DEF Next, vars, Crawler, CrawlerTop, CrawlerKey, CrawlerSubmit, CrawlerRunEnds, CrawlerPaused,
        CrawlerMoves, Watcher, WatcherTop, WatcherBuffered, WatcherEvents, WatcherError,
        WatcherSubmit, WatcherSlept, WatcherMoves, Worker, WorkerTop, WorkerWoken, WorkerReceives,
        WorkerStarts, WorkerGivesUp, WorkerLocks, WorkerCallback, WorkerReturns, WorkerMoves,
        KeyWorker, KeyWorkerReceives, KeyWorkerSends, KeyWorkerHandsOver, StopCalled, StopStep,
        StopCrawlers, CrawlersStopped, WatcherCancelled, WatchersAsked, WatchersStopped, StopWorker,
        WorkerDone, WorkersAsked, WorkersStopped, watchers
  <2> QED
    BY <2>1, <2>2
<1> QED
  BY <1>1, <1>2 DEF OrderInv, CrawlerFirst

\* Nothing that StopOrder shows has changed.
OrderKept == /\ (cpc' = "stopped") <=> (cpc = "stopped")
             /\ \A i \in 1 .. Watchers : wpc'[i] = "stopped" <=> wpc[i] = "stopped"
             /\ \A i \in 1 .. Workers : pc'[i] = "stopped" <=> pc[i] = "stopped"
             /\ engineStopped' = engineStopped

\* Steps after which the same goroutines run are StopOrder's stuttering.
LEMMA KeptIsStutter == OrderKept => UNCHANGED SO!orderVars
<1> SUFFICES ASSUME OrderKept PROVE UNCHANGED SO!orderVars
  OBVIOUS
<1>1. (cpc # "stopped")' = (cpc # "stopped")
  BY Zenon DEF OrderKept
<1>2. {i \in 1 .. Watchers : wpc[i] # "stopped"}' = {i \in 1 .. Watchers : wpc[i] # "stopped"}
  BY Zenon DEF OrderKept
<1>3. {i \in 1 .. Workers : pc[i] # "stopped"}' = {i \in 1 .. Workers : pc[i] # "stopped"}
  BY Zenon DEF OrderKept
<1> QED
  BY <1>1, <1>2, <1>3, Zenon DEF OrderKept, SO!orderVars

\* The crawler ends when it sees its flag, and nothing else does then.
LEMMA CrawlerOrder == ASSUME OrderInv, Crawler PROVE [SO!Next]_SO!orderVars
<1>1. UNCHANGED <<wpc, pc, engineStopped>>
  BY DEF Crawler, CrawlerTop, CrawlerKey, CrawlerSubmit, CrawlerRunEnds, CrawlerPaused, CrawlerMoves,
      stoppers, watchers, workers
<1>2. cpc # "stopped"
  BY DEF Crawler, CrawlerTop, CrawlerKey, CrawlerSubmit, CrawlerRunEnds, CrawlerPaused, CrawlerMoves
<1>3. CASE cpc' = "stopped"
  <2>1. SO!CrawlerEnds
    BY <1>1, <1>2, <1>3, Zenon DEF SO!CrawlerEnds
  <2> QED
    BY <2>1 DEF SO!Next
<1>4. CASE cpc' # "stopped"
  BY <1>1, <1>2, <1>4, KeptIsStutter DEF OrderKept
<1> QED
  BY <1>3, <1>4

\* A watcher ends when it sees its flag: the crawler has stopped.
LEMMA WatcherOrder ==
    ASSUME OrderInv, NEW i \in 1 .. Watchers, Watcher(i) PROVE [SO!Next]_SO!orderVars
<1>1. UNCHANGED <<cpc, pc, engineStopped>>
  BY DEF Watcher, WatcherTop, WatcherBuffered, WatcherEvents, WatcherError, WatcherSubmit, WatcherSlept,
      WatcherMoves, crawler, stoppers, workers
<1>2. wpc[i] # "stopped" /\ (wpc'[i] = "stopped" => wstopping[i])
  BY Zenon DEF OrderInv, ShutdownInv, TypeOK, Watcher, WatcherTop, WatcherBuffered, WatcherEvents, WatcherError,
      WatcherSubmit, WatcherSlept, WatcherMoves
<1>3. \A j \in 1 .. Watchers : j # i => wpc'[j] = wpc[j]
  BY Zenon DEF OrderInv, ShutdownInv, TypeOK, Watcher, WatcherTop, WatcherBuffered, WatcherEvents, WatcherError,
      WatcherSubmit, WatcherSlept, WatcherMoves
<1>4. CASE wpc'[i] = "stopped"
  <2>1. cpc = "stopped"
    BY <1>2, <1>4 DEF OrderInv, CrawlerFirst
  <2>2. {j \in 1 .. Watchers : wpc[j] # "stopped"}' = {j \in 1 .. Watchers : wpc[j] # "stopped"} \ {i}
    BY <1>3, <1>4, Zenon
  <2>3. SO!WatcherEnds(i)
    BY <1>1, <1>2, <2>1, <2>2, Zenon DEF SO!WatcherEnds
  <2> QED
    BY <2>3 DEF SO!Next
<1>5. CASE wpc'[i] # "stopped"
  BY <1>1, <1>2, <1>3, <1>5, KeptIsStutter, Zenon DEF OrderKept
<1> QED
  BY <1>4, <1>5

\* A worker ends when it sees its flag: all watchers have stopped.
LEMMA WorkerOrder ==
    ASSUME OrderInv, NEW i \in 1 .. Workers, Worker(i) PROVE [SO!Next]_SO!orderVars
<1>1. UNCHANGED <<cpc, wpc, engineStopped>>
  BY DEF Worker, WorkerTop, WorkerWoken, WorkerReceives, WorkerStarts, WorkerGivesUp, WorkerLocks,
      WorkerCallback, WorkerReturns, WorkerMoves, crawler, stoppers, watchers
<1>2. pc[i] # "stopped" /\ (pc'[i] = "stopped" => stopping[i])
  BY Zenon DEF OrderInv, ShutdownInv, TypeOK, Worker, WorkerTop, WorkerWoken, WorkerReceives, WorkerStarts,
      WorkerGivesUp, WorkerLocks, WorkerCallback, WorkerReturns, WorkerMoves
<1>3. \A j \in 1 .. Workers : j # i => pc'[j] = pc[j]
  BY Zenon DEF OrderInv, ShutdownInv, TypeOK, Worker, WorkerTop, WorkerWoken, WorkerReceives, WorkerStarts,
      WorkerGivesUp, WorkerLocks, WorkerCallback, WorkerReturns, WorkerMoves
<1>4. CASE pc'[i] = "stopped"
  <2>1. cpc = "stopped" /\ \A j \in 1 .. Watchers : wpc[j] = "stopped"
    BY <1>2, <1>4 DEF OrderInv, ShutdownInv, ProducersFirst
  <2>2. {j \in 1 .. Workers : pc[j] # "stopped"}' = {j \in 1 .. Workers : pc[j] # "stopped"} \ {i}
    BY <1>3, <1>4, Zenon
  <2>3. {j \in 1 .. Watchers : wpc[j] # "stopped"} = {}
    BY <2>1, Zenon
  <2>4. SO!WorkerEnds(i)
    BY <1>1, <1>2, <2>1, <2>2, <2>3, Zenon DEF SO!WorkerEnds
  <2> QED
    BY <2>4 DEF SO!Next
<1>5. CASE pc'[i] # "stopped"
  BY <1>1, <1>2, <1>3, <1>5, KeptIsStutter, Zenon DEF OrderKept
<1> QED
  BY <1>4, <1>5

\* A key worker may hand work to a worker, which goes on.
LEMMA KeyWorkerOrder ==
    ASSUME OrderInv, NEW q \in KeyWorkers, KeyWorker(q) PROVE [SO!Next]_SO!orderVars
<1>1. UNCHANGED <<cpc, wpc, engineStopped>>
  BY DEF KeyWorker, KeyWorkerReceives, KeyWorkerSends, KeyWorkerHandsOver, WorkerMoves, crawler, stoppers, watchers
<1>2. \A j \in 1 .. Workers : pc'[j] = "stopped" <=> pc[j] = "stopped"
  BY Zenon DEF OrderInv, ShutdownInv, TypeOK, KeyWorker, KeyWorkerReceives, KeyWorkerSends, KeyWorkerHandsOver,
      WorkerMoves, workers
<1> QED
  BY <1>1, <1>2, KeptIsStutter DEF OrderKept

\* stop ends no goroutine itself, and says the engine has stopped at its end.
LEMMA StopperOrder ==
    ASSUME OrderInv, NEW s \in Stoppers, StopCalled(s) \/ StopStep(s) PROVE [SO!Next]_SO!orderVars
<1>1. UNCHANGED <<cpc, pc>>
  BY DEF StopCalled, StopStep, StopCrawlers, CrawlersStopped, StopWatcher, WatcherCancelled, WatchersAsked,
      WatchersStopped, StopWorker, WorkerDone, WorkersAsked, WorkersStopped, WatcherMoves, crawler, workers
<1>2. \A j \in 1 .. Watchers : wpc'[j] = "stopped" <=> wpc[j] = "stopped"
  <2>1. CASE WatcherCancelled(s)
    BY <2>1 DEF WatcherCancelled, WatcherMoves, OrderInv, ShutdownInv, TypeOK
  <2>2. CASE ~WatcherCancelled(s)
    BY <2>2 DEF StopCalled, StopStep, StopCrawlers, CrawlersStopped, StopWatcher, WatchersAsked,
        WatchersStopped, StopWorker, WorkerDone, WorkersAsked, WorkersStopped, watchers
  <2> QED
    BY <2>1, <2>2
<1>3. CASE WorkersStopped(s)
  <2>1. engineStopped' = TRUE /\ \A j \in 1 .. Workers : pc[j] = "stopped"
    BY <1>3 DEF WorkersStopped
  <2>2. cpc = "stopped" /\ \A j \in 1 .. Watchers : wpc[j] = "stopped"
    BY <1>3 DEF WorkersStopped, StopperMoves, OrderInv, ShutdownInv, AfterCrawlers, AfterWatchers, Quiet
  <2>3. /\ {j \in 1 .. Watchers : wpc[j] # "stopped"} = {}
        /\ {j \in 1 .. Watchers : wpc[j] # "stopped"}' = {}
        /\ {j \in 1 .. Workers : pc[j] # "stopped"} = {}
        /\ {j \in 1 .. Workers : pc[j] # "stopped"}' = {}
    BY <1>1, <1>2, <2>1, <2>2
  <2>4. SO!Stopped
    BY <1>1, <2>1, <2>2, <2>3, Zenon DEF SO!Stopped
  <2> QED
    BY <2>4 DEF SO!Next
<1>4. CASE ~WorkersStopped(s)
  <2>1. engineStopped' = engineStopped
    BY <1>4 DEF StopCalled, StopStep, StopCrawlers, CrawlersStopped, StopWatcher, WatcherCancelled, WatchersAsked,
        WatchersStopped, StopWorker, WorkerDone, WorkersAsked
  <2> QED
    BY <1>1, <1>2, <2>1, KeptIsStutter DEF OrderKept
<1> QED
  BY <1>3, <1>4

\* The engine's goroutines end in stop's order, for good, and the engine says
\* it has stopped last, whatever the numbers of watchers, workers and of
\* concurrent calls of stop.
THEOREM StopRefinement == Spec => StopsInOrder
<1>1. Init => SO!Init
  <2> SUFFICES ASSUME Init PROVE SO!Init
    OBVIOUS
  <2>1. {i \in 1 .. Watchers : wpc[i] # "stopped"} = 1 .. Watchers
    BY DEF Init
  <2>2. {i \in 1 .. Workers : pc[i] # "stopped"} = 1 .. Workers
    BY DEF Init
  <2>3. cpc # "stopped" /\ engineStopped = FALSE
    BY DEF Init
  <2> QED
    BY <2>1, <2>2, <2>3, Zenon DEF SO!Init
<1>2. OrderInv /\ [Next]_vars => [SO!Next]_SO!orderVars
  <2> SUFFICES ASSUME OrderInv, [Next]_vars PROVE [SO!Next]_SO!orderVars
    OBVIOUS
  <2>1. CASE UNCHANGED vars
    BY <2>1, KeptIsStutter DEF OrderKept, vars, crawler, watchers, workers, stoppers
  <2> QED
    BY <2>1, CrawlerOrder, WatcherOrder, WorkerOrder, KeyWorkerOrder, StopperOrder, Zenon DEF Next
<1> QED
  BY <1>1, <1>2, OrderInit, OrderNext, PTL DEF Spec, StopsInOrder, SO!Spec
================================================================================
