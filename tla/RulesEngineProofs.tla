--------------------------- MODULE RulesEngineProofs ---------------------------
(***************************************************************************)
(* CallbacksExclusive, LockedWhileWorking and CrawlersExclusive for any    *)
(* number of engines, workers and rules, any store, any capacities of the  *)
(* channels and any number of faults.                                      *)
(***************************************************************************)
EXTENDS RulesEngine, TLAPS

Clients == Workers \cup Engines

WorkerPCs == {"idle", "check", "lock", "recheck", "callback", "unlock"}

WorkerTypes ==
    /\ pc \in [Workers -> WorkerPCs]
    /\ job \in [Workers -> Rules \cup {NoRule}]
    /\ \A w \in Workers : pc[w] # "idle" => job[w] \in Rules
    /\ holding \in [Clients -> LockKeys \cup {NoKey}]

\* What waits for a worker is a rule.
WorkTypes ==
    /\ todo \in [KeyWorkers -> SUBSET Rules]
    /\ work \in [Engines -> Seq(Rules)]

\* The promise of the locker: a lock key has one valid holder.
OneValidHolder ==
    \A c, d \in valid : holding[c] # NoKey /\ (c # d => holding[c] # holding[d])

\* The inductive invariant: CallbacksExclusive follows from what workers hold
\* while they work and from the locker's promise.
EngineInv ==
    /\ WorkerTypes
    /\ valid \subseteq Clients
    /\ LockedWhileWorking
    /\ OneValidHolder

\* Nobody holds anything at first.
LEMMA EngineInit == Init => EngineInv
BY RulesEngineAssumption
DEF Init, LS!Init, EngineInv, WorkerTypes, WorkerPCs, Clients, LockedWhileWorking, OneValidHolder

\* Steps that touch neither a worker nor a lock.
LEMMA Elsewhere == EngineInv /\ UNCHANGED <<workers, locks>> => EngineInv'
BY DEF EngineInv, WorkerTypes, LockedWhileWorking, OneValidHolder, workers, locks

\* A job starts, ends before the lock is taken, or goes from one of the
\* stages before, or under, the lock to another.
LEMMA JobStep ==
    ASSUME EngineInv, NEW w \in Workers, UNCHANGED locks,
           \/ \E r \in Rules : pc[w] = "idle" /\ StartJob(w, r)
           \/ pc[w] \in {"check", "lock"} /\ EndJob(w)
           \/ pc[w] = "check" /\ Goto(w, "lock")
           \/ pc[w] \in {"recheck", "callback"} /\ (Goto(w, "callback") \/ Goto(w, "unlock"))
    PROVE  EngineInv'
<1>1. WorkerTypes'
  BY DEF EngineInv, WorkerTypes, WorkerPCs, StartJob, EndJob, Goto, locks
<1>2. LockedWhileWorking'
  BY DEF EngineInv, WorkerTypes, WorkerPCs, StartJob, EndJob, Goto, locks, LockedWhileWorking
<1> QED
  BY <1>1, <1>2 DEF EngineInv, OneValidHolder, locks

\* The locker gives a lock to a client that holds none.
LEMMA AcquireKeeps ==
    ASSUME EngineInv, NEW c \in Clients, NEW k \in LockKeys \ {NoKey}, LS!Acquire(c, k)
    PROVE  /\ holding' = [holding EXCEPT ![c] = k]
           /\ holding' \in [Clients -> LockKeys \cup {NoKey}]
           /\ valid' \subseteq Clients
           /\ OneValidHolder'
<1>1. /\ holding' = [holding EXCEPT ![c] = k]
      /\ valid' = valid \cup {c}
      /\ \A d \in valid : holding[d] # k
      /\ holding[c] = NoKey
  BY DEF LS!Acquire, LS!Free
<1>2. /\ holding' \in [Clients -> LockKeys \cup {NoKey}]
      /\ valid' \subseteq Clients
  BY <1>1 DEF EngineInv, WorkerTypes
<1>3. OneValidHolder'
  BY <1>1 DEF EngineInv, WorkerTypes, OneValidHolder
<1> QED
  BY <1>1, <1>2, <1>3

\* A client gives its lock back.
LEMMA ReleaseKeeps ==
    ASSUME EngineInv, NEW c \in Clients, LS!Release(c)
    PROVE  /\ holding' = [holding EXCEPT ![c] = NoKey]
           /\ holding' \in [Clients -> LockKeys \cup {NoKey}]
           /\ valid' \subseteq Clients
           /\ OneValidHolder'
BY DEF LS!Release, EngineInv, WorkerTypes, OneValidHolder

\* A worker's step keeps the invariant.
LEMMA WorkerStep == ASSUME EngineInv, WorkTypes, NEW w \in Workers, Worker(w) PROVE EngineInv'
<1> USE RulesEngineAssumption
<1>1. CASE Receive(w)
  <2>1. PICK r \in Rules : r = Head(work[EngineOf[w]])
    BY <1>1 DEF Receive, WorkTypes
  <2>2. pc[w] = "idle" /\ UNCHANGED locks /\ StartJob(w, r)
    BY <1>1, <2>1 DEF Receive, Idle, StartJob
  <2> QED
    BY <2>2, JobStep
<1>2. CASE Check(w) \/ LockFails(w) \/ Recheck(w) \/ CallbackReturns(w)
  BY <1>2, JobStep DEF Check, LockFails, Recheck, CallbackReturns
<1>3. CASE Lock(w)
  <2>1. PICK k \in LockKeys \ {NoKey} : k = LockKey(job[w])
    BY <1>3 DEF Lock, EngineInv, WorkerTypes, LockKeys
  <2>2. LS!Acquire(w, k)
    BY <1>3, <2>1 DEF Lock, LS!Acquire, LS!Free
  <2>3. /\ holding' = [holding EXCEPT ![w] = k]
        /\ holding' \in [Clients -> LockKeys \cup {NoKey}]
        /\ valid' \subseteq Clients
        /\ OneValidHolder'
    BY <2>2, AcquireKeeps, SMTT(60) DEF Clients
  <2>4. WorkerTypes'
    BY <1>3, <2>3 DEF Lock, Goto, EngineInv, WorkerTypes, WorkerPCs
  <2>5. LockedWhileWorking'
    BY <1>3, <2>1, <2>3 DEF Lock, Goto, EngineInv, WorkerTypes, LockedWhileWorking, Clients
  <2> QED
    BY <2>3, <2>4, <2>5 DEF EngineInv
<1>4. CASE Unlock(w)
  <2>1. /\ holding' = [holding EXCEPT ![w] = NoKey]
        /\ holding' \in [Clients -> LockKeys \cup {NoKey}]
        /\ valid' \subseteq Clients
        /\ OneValidHolder'
    BY <1>4, ReleaseKeeps DEF Unlock, Clients
  <2>2. WorkerTypes'
    BY <1>4, <2>1 DEF Unlock, EndJob, EngineInv, WorkerTypes, WorkerPCs
  <2>3. LockedWhileWorking'
    BY <1>4, <2>1 DEF Unlock, EndJob, EngineInv, WorkerTypes, LockedWhileWorking, Clients
  <2> QED
    BY <2>1, <2>2, <2>3 DEF EngineInv
<1> QED
  BY <1>1, <1>2, <1>3, <1>4 DEF Worker

\* So does a key worker's, which may start a worker's job.
LEMMA KeyWorkerStep ==
    ASSUME EngineInv, WorkTypes, NEW q \in KeyWorkers, KeyWorker(q) PROVE EngineInv'
<1>1. CASE KeyEval(q) \/ Dispatch(q)
  BY <1>1, Elsewhere DEF KeyEval, Dispatch
<1>2. CASE HandOver(q)
  <2>1. PICK r \in todo[q], w \in Workers : Idle(w) /\ StartJob(w, r) /\ UNCHANGED locks
    BY <1>2 DEF HandOver
  <2>2. r \in Rules
    BY <2>1 DEF WorkTypes
  <2> QED
    BY <2>1, <2>2, JobStep DEF Idle
<1> QED
  BY <1>1, <1>2 DEF KeyWorker

\* A crawler takes and gives back the mutex, and touches no worker.
LEMMA CrawlerStep == ASSUME EngineInv, NEW e \in Engines, Crawler(e) PROVE EngineInv'
<1>1. CASE UNCHANGED locks
  BY <1>1, Elsewhere DEF Crawler, CrawlStart, CrawlGet, CrawlGetFails, CrawlKey, CrawlProcessed, CrawlEnd
<1>2. CASE CrawlMutex # NoKey /\ (LS!Acquire(e, CrawlMutex) \/ LS!Release(e))
  <2>1. UNCHANGED workers
    BY DEF Crawler, CrawlStart, CrawlGet, CrawlGetFails, CrawlKey, CrawlProcessed, CrawlEnd
  <2>2. PICK k \in LockKeys \cup {NoKey} :
          /\ holding' = [holding EXCEPT ![e] = k]
          /\ holding' \in [Clients -> LockKeys \cup {NoKey}]
          /\ valid' \subseteq Clients
          /\ OneValidHolder'
    <3>1. CASE LS!Acquire(e, CrawlMutex)
      BY <1>2, <3>1, AcquireKeeps, SMTT(60) DEF Clients, LockKeys
    <3>2. CASE LS!Release(e)
      BY <3>2, ReleaseKeeps DEF Clients
    <3> QED
      BY <1>2, <3>1, <3>2
  <2>3. \A w \in Workers : holding'[w] = holding[w]
    BY <2>2, RulesEngineAssumption DEF EngineInv, WorkerTypes, Clients
  <2> QED
    BY <2>1, <2>2, <2>3 DEF EngineInv, WorkerTypes, LockedWhileWorking, workers
<1> QED
  BY <1>1, <1>2 DEF Crawler, CrawlStart, CrawlGet, CrawlGetFails, CrawlKey, CrawlProcessed, CrawlEnd

\* A crash ends the jobs of the engine's workers and frees what they hold.
LEMMA CrashStep == ASSUME EngineInv, NEW e \in Engines, Crash(e) PROVE EngineInv'
<1> DEFINE mine == {g \in Workers \cup KeyWorkers : EngineOf[g] = e}
           dead == (mine \cap Workers) \cup {e}
<1>1. /\ pc' = [w \in Workers |-> IF w \in mine \cup {e} THEN "idle" ELSE pc[w]]
      /\ job' = [w \in Workers |-> IF w \in mine \cup {e} THEN NoRule ELSE job[w]]
  BY DEF Crash, EngineInv, WorkerTypes
<1>2. /\ holding' = [c \in Clients |-> IF c \in dead THEN NoKey ELSE holding[c]]
      /\ valid' = valid \ dead
  BY DEF Crash, LS!ReleaseAll, Clients
<1>3. \A w \in Workers : w \in mine \cup {e} <=> w \in dead
  OBVIOUS
<1> HIDE DEF mine, dead
<1>4. WorkerTypes'
  BY <1>1, <1>2 DEF EngineInv, WorkerTypes, WorkerPCs
<1>5. LockedWhileWorking'
  BY <1>1, <1>2, <1>3 DEF EngineInv, LockedWhileWorking, Clients
<1>6. OneValidHolder' /\ valid' \subseteq Clients
  BY <1>2, SMTT(60) DEF EngineInv, OneValidHolder
<1> QED
  BY <1>4, <1>5, <1>6 DEF EngineInv

\* What waits for a worker remains rules: only satisfied rules are queued.
LEMMA WorkTypesStep == ASSUME WorkTypes, [Next]_vars PROVE WorkTypes'
<1> USE RulesEngineAssumption
<1>1. CASE UNCHANGED <<todo, work>>
  BY <1>1 DEF WorkTypes
<1>2. ASSUME NEW q \in KeyWorkers, KeyWorker(q) PROVE WorkTypes'
  <2>1. CASE KeyEval(q)
    <3>1. PICK R \in SUBSET Rules : todo' = [todo EXCEPT ![q] = R] \/ todo' = todo
      <4> DEFINE R == {r \in RulesFor(Head(kp[EngineOf[q]])) : Satisfied(r, store)}
      <4>1. R \in SUBSET Rules
        BY DEF RulesFor
      <4>2. todo' = [todo EXCEPT ![q] = R] \/ todo' = todo
        BY <2>1 DEF KeyEval
      <4> HIDE DEF R
      <4> QED
        BY <4>1, <4>2
    <3>2. work' = work
      BY <2>1 DEF KeyEval
    <3> QED
      BY <3>1, <3>2, SMTT(60) DEF WorkTypes
  <2>2. CASE Dispatch(q)
    BY <2>2 DEF Dispatch, WorkTypes
  <2>3. CASE HandOver(q)
    BY <2>3 DEF HandOver, WorkTypes
  <2> QED
    BY <1>2, <2>1, <2>2, <2>3 DEF KeyWorker
<1>3. ASSUME NEW w \in Workers, Worker(w) PROVE WorkTypes'
  <2>1. CASE Receive(w)
    BY <2>1 DEF Receive, WorkTypes
  <2>2. CASE Check(w) \/ Lock(w) \/ LockFails(w) \/ Recheck(w) \/ CallbackReturns(w) \/ Unlock(w)
    <3>1. UNCHANGED <<todo, work>>
      BY <2>2 DEF Check, Lock, LockFails, Recheck, CallbackReturns, Unlock, pipeline
    <3> QED
      BY <1>1, <3>1, SMTT(60)
  <2> QED
    BY <1>3, <2>1, <2>2 DEF Worker
<1>4. ASSUME NEW e \in Engines, Crash(e) PROVE WorkTypes'
  BY <1>4 DEF Crash, WorkTypes
<1> QED
  BY <1>1, <1>2, <1>3, <1>4, Zenon DEF Next, ExternalWrite, Watcher, WatchNext, WatchReset, WatchSubmit,
      Crawler, CrawlStart, CrawlGet, CrawlGetFails, CrawlKey, CrawlProcessed, CrawlEnd, Lapse,
      pipeline, vars

\* The invariant is inductive.
LEMMA EngineNext == EngineInv /\ WorkTypes /\ [Next]_vars => EngineInv' /\ WorkTypes'
<1> SUFFICES ASSUME EngineInv, WorkTypes, [Next]_vars PROVE EngineInv'
  BY WorkTypesStep
<1>1. CASE ExternalWrite \/ UNCHANGED vars
  BY <1>1, Elsewhere DEF ExternalWrite, vars
<1>2. ASSUME NEW e \in Engines, NEW p \in Prefixes, Watcher(e, p) PROVE EngineInv'
  BY <1>2, Elsewhere DEF Watcher, WatchNext, WatchReset, WatchSubmit
<1>3. ASSUME NEW c \in Workers \cup Engines, Lapse(c) PROVE EngineInv'
  BY <1>3 DEF Lapse, LS!Lapse, EngineInv, WorkerTypes, LockedWhileWorking, OneValidHolder, workers
<1> QED
  BY <1>1, <1>2, <1>3, KeyWorkerStep, WorkerStep, CrawlerStep, CrashStep DEF Next

\* A worker holds its rule's lock from the second check to the end of its job,
\* and nothing else ever: no error path of doWork leaves a lock behind.
THEOREM LocksBalanced == Spec => []LockedWhileWorking
<1>1. Init => WorkTypes
  BY DEF Init, WorkTypes
<1>2. EngineInv => LockedWhileWorking
  BY DEF EngineInv
<1> QED
  BY <1>1, <1>2, EngineInit, EngineNext, PTL DEF Spec

\* Callbacks under one lock key never overlap while their leases are alive,
\* whatever the engines, the watchers, the crawlers and the faults do.
THEOREM CallbacksAlone == Spec => []CallbacksExclusive
<1>1. Init => WorkTypes
  BY DEF Init, WorkTypes
<1>2. EngineInv => CallbacksExclusive
  BY DEF EngineInv, LockedWhileWorking, OneValidHolder, CallbacksExclusive
<1> QED
  BY <1>1, <1>2, EngineInit, EngineNext, PTL DEF Spec

--------------------------------------------------------------------------------
(* The crawlers' mutex *)

\* A crawler holds the mutex during its run, and only then.
MutexHeld ==
    /\ cpc \in [Engines -> {"pause", "query", "process", "unlock"}]
    /\ \A e \in Engines : holding[e] = IF cpc[e] = "pause" THEN NoKey ELSE CrawlMutex

\* Steps that change neither a crawler's place nor what crawlers hold.
LEMMA MutexElsewhere ==
    MutexHeld /\ UNCHANGED cpc /\ (\A e \in Engines : holding'[e] = holding[e]) => MutexHeld'
BY DEF MutexHeld

\* The locks of workers are not those of crawlers.
LEMMA MutexWorker ==
    ASSUME EngineInv, MutexHeld, NEW w \in Workers, Worker(w)
    PROVE  MutexHeld'
<1>1. UNCHANGED cpc
  BY Zenon DEF Worker, Receive, Check, Lock, LockFails, Recheck, CallbackReturns, Unlock, crawlers
<1>2. CASE UNCHANGED holding
  BY <1>1, <1>2, MutexElsewhere
<1>3. CASE Lock(w) \/ Unlock(w)
  <2>1. \E k : holding' = [holding EXCEPT ![w] = k]
    BY <1>3, Zenon DEF Lock, Unlock, LS!Acquire, LS!Release
  <2>2. \A e \in Engines : holding'[e] = holding[e]
    BY <2>1, RulesEngineAssumption DEF EngineInv, WorkerTypes, Clients
  <2> QED
    BY <1>1, <2>2, MutexElsewhere
<1> QED
  BY <1>2, <1>3, Zenon DEF Worker, Receive, Check, LockFails, Recheck, CallbackReturns, locks

\* A run starts with the mutex and ends without it.
LEMMA MutexCrawler ==
    ASSUME EngineInv, MutexHeld, NEW e \in Engines, Crawler(e)
    PROVE  MutexHeld'
<1>1. CASE CrawlStart(e)
  <2>1. cpc' = [cpc EXCEPT ![e] = "query"]
    BY <1>1 DEF CrawlStart
  <2>2. holding' = [holding EXCEPT ![e] = CrawlMutex]
    BY <1>1 DEF CrawlStart, LS!Acquire, locks, MutexHeld, EngineInv, WorkerTypes, Clients
  <2> QED
    BY <2>1, <2>2 DEF MutexHeld, EngineInv, WorkerTypes, Clients
<1>2. CASE CrawlEnd(e)
  <2>1. cpc' = [cpc EXCEPT ![e] = "pause"]
    BY <1>2 DEF CrawlEnd
  <2>2. holding' = [holding EXCEPT ![e] = NoKey]
    BY <1>2 DEF CrawlEnd, LS!Release, locks, MutexHeld, EngineInv, WorkerTypes, Clients
  <2> QED
    BY <2>1, <2>2 DEF MutexHeld, EngineInv, WorkerTypes, Clients
<1>3. CASE CrawlGet(e) \/ CrawlGetFails(e) \/ CrawlKey(e) \/ CrawlProcessed(e)
  <2>1. UNCHANGED holding /\ cpc[e] # "pause"
    BY <1>3 DEF CrawlGet, CrawlGetFails, CrawlKey, CrawlProcessed, locks
  <2>2. cpc' = cpc \/ cpc' = [cpc EXCEPT ![e] = "process"] \/ cpc' = [cpc EXCEPT ![e] = "unlock"]
    BY <1>3, Zenon DEF CrawlGet, CrawlGetFails, CrawlKey, CrawlProcessed
  <2> QED
    BY <2>1, <2>2 DEF MutexHeld
<1> QED
  BY <1>1, <1>2, <1>3, Zenon DEF Crawler

\* A crash ends the crawler's run and frees the mutex.
LEMMA MutexCrash ==
    ASSUME EngineInv, MutexHeld, NEW e \in Engines, Crash(e)
    PROVE  MutexHeld'
<1> DEFINE mine == {g \in Workers \cup KeyWorkers : EngineOf[g] = e}
<1>1. \A d \in Engines : d \in mine \cup {e} <=> d = e
  BY RulesEngineAssumption
<1>2. cpc' = [d \in Engines |-> IF d \in mine \cup {e} THEN "pause" ELSE cpc[d]]
  BY DEF Crash, MutexHeld
<1>3. holding' = [c \in Clients |-> IF c \in (mine \cap Workers) \cup {e} THEN NoKey ELSE holding[c]]
  BY DEF Crash, LS!ReleaseAll, Clients
<1>4. \A d \in Engines : d \in (mine \cap Workers) \cup {e} <=> d = e
  BY RulesEngineAssumption
<1> HIDE DEF mine
<1> QED
  BY <1>1, <1>2, <1>3, <1>4 DEF MutexHeld, Clients

\* MutexHeld is inductive with EngineInv.
LEMMA MutexNext == EngineInv /\ MutexHeld /\ [Next]_vars => MutexHeld'
<1> SUFFICES ASSUME EngineInv, MutexHeld, [Next]_vars PROVE MutexHeld'
  OBVIOUS
<1>1. CASE \/ ExternalWrite \/ UNCHANGED vars
           \/ \E e \in Engines, p \in Prefixes : Watcher(e, p)
           \/ \E q \in KeyWorkers : KeyWorker(q)
           \/ \E c \in Workers \cup Engines : Lapse(c)
  <2>1. UNCHANGED <<cpc, holding>>
    BY <1>1, Zenon DEF ExternalWrite, vars, Watcher, WatchNext, WatchReset, WatchSubmit, KeyWorker, KeyEval,
        Dispatch, HandOver, Lapse, LS!Lapse, crawlers, locks
  <2> QED
    BY <2>1, MutexElsewhere
<1> QED
  BY <1>1, MutexWorker, MutexCrawler, MutexCrash, Zenon DEF Next

\* The crawlers' mutex is held during a run and only then, on every path out of
\* intCrawler.singleRun, and the runs of two engines do not overlap while
\* their leases are alive.
THEOREM CrawlersAlone == Spec => []CrawlersExclusive
<1>1. Init => WorkTypes /\ MutexHeld
  BY DEF Init, WorkTypes, MutexHeld, LS!Init
<1>2. EngineInv /\ MutexHeld => CrawlersExclusive
  BY DEF EngineInv, OneValidHolder, MutexHeld, CrawlersExclusive
<1> QED
  BY <1>1, <1>2, EngineInit, EngineNext, MutexNext, PTL DEF Spec
================================================================================
