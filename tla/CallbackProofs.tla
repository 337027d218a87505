---------------------------- MODULE CallbackProofs ----------------------------
(***************************************************************************)
(* CallbackJustified and RulesAreGuarded for any number of engines,        *)
(* workers and rules and any faults but lapsed leases, from what the rules *)
(* and the writes to the store have to be for that: no write makes a rule  *)
(* unsatisfied but the write of a callback under the same lock.            *)
(***************************************************************************)
EXTENDS RulesEngineProofs

\* No lease has lapsed: who holds a lock holds it validly.
HoldersValid ==
    \A w \in Workers : pc[w] \in {"recheck", "callback", "unlock"} => w \in valid

\* The inductive invariant: the locks keep away the callbacks that could undo
\* what the second check has seen.
JustifiedInv ==
    /\ EngineInv
    /\ WorkTypes
    /\ store \in Stores
    /\ HoldersValid
    /\ CallbackJustified

\* A write keeps the store a store.
LEMMA WriteType ==
    ASSUME NEW s \in Stores, NEW kv \in Keys \X (Values \cup {Nil})
    PROVE  Write(s, kv) \in Stores
BY DEF Write, Stores

\* Steps that change neither the store nor a worker, and take no lock away.
LEMMA JustifiedElsewhere ==
    ASSUME JustifiedInv, UNCHANGED <<store, workers>>, \A w \in Workers : w \in valid => w \in valid'
    PROVE  store' \in Stores /\ HoldersValid' /\ CallbackJustified'
BY DEF JustifiedInv, HoldersValid, CallbackJustified, workers

\* Another program's write.
LEMMA JustifiedExternal ==
    ASSUME JustifiedInv, NoInterference, ExternalWrite
    PROVE  store' \in Stores /\ HoldersValid' /\ CallbackJustified'
<1>1. PICK kv \in External(store) : store' = Write(store, kv)
  BY Zenon DEF ExternalWrite, Put, Write
<1>2. kv \in Keys \X (Values \cup {Nil})
  BY <1>1, RulesEngineAssumption DEF JustifiedInv
<1>3. store' \in Stores
  BY <1>1, <1>2, WriteType DEF JustifiedInv
<1>4. UNCHANGED <<pc, job, valid>>
  BY DEF ExternalWrite, workers, locks
<1>5. HoldersValid'
  BY <1>4 DEF JustifiedInv, HoldersValid
<1>6. CallbackJustified'
  BY <1>1, <1>4 DEF JustifiedInv, EngineInv, WorkerTypes, CallbackJustified, NoInterference
<1> QED
  BY <1>3, <1>5, <1>6

\* A job of a worker that holds no lock starts, goes on or ends.
LEMMA JustifiedJob ==
    ASSUME JustifiedInv, NEW w \in Workers, UNCHANGED <<store, valid>>,
           \/ \E r \in Rules : StartJob(w, r)
           \/ EndJob(w)
           \/ Goto(w, "lock")
           \/ pc[w] \in {"recheck", "callback"} /\ Goto(w, "unlock")
           \/ pc[w] = "recheck" /\ Satisfied(job[w], store) /\ Goto(w, "callback")
    PROVE  store' \in Stores /\ HoldersValid' /\ CallbackJustified'
<1>1. HoldersValid'
  BY DEF JustifiedInv, EngineInv, WorkerTypes, HoldersValid, StartJob, EndJob, Goto
<1>2. CallbackJustified'
  BY DEF JustifiedInv, EngineInv, WorkerTypes, CallbackJustified, StartJob, EndJob, Goto
<1> QED
  BY <1>1, <1>2 DEF JustifiedInv

\* The write of a callback may undo the rules under its lock, but no other
\* callback is running under it.
LEMMA JustifiedCallback ==
    ASSUME JustifiedInv, NoInterference, NEW w \in Workers, CallbackReturns(w)
    PROVE  store' \in Stores /\ HoldersValid' /\ CallbackJustified'
<1>1. CASE UNCHANGED store
  BY <1>1, JustifiedJob DEF CallbackReturns, locks
<1>2. CASE Put(CallbackPut(job[w])[1], CallbackPut(job[w])[2])
  <2>1. /\ pc[w] = "callback" /\ job[w] \in Rules /\ Satisfied(job[w], store)
        /\ pc' = [pc EXCEPT ![w] = "unlock"] /\ UNCHANGED <<job, valid>>
    BY DEF CallbackReturns, Goto, locks, JustifiedInv, EngineInv, WorkerTypes, CallbackJustified
  <2>2. store' = Write(store, CallbackPut(job[w]))
    BY <1>2 DEF Put, Write
  <2>3. store' \in Stores
    BY <2>1, <2>2, WriteType, RulesEngineAssumption DEF JustifiedInv
  <2>4. HoldersValid'
    BY <2>1 DEF JustifiedInv, EngineInv, WorkerTypes, HoldersValid
  <2>5. ASSUME NEW v \in Workers, pc'[v] = "callback"
        PROVE  Satisfied(job'[v], store')
    <3>1. v # w /\ pc[v] = "callback" /\ job[v] \in Rules /\ job'[v] = job[v]
      BY <2>1, <2>5 DEF JustifiedInv, EngineInv, WorkerTypes
    <3>2. Satisfied(job[v], store)
      BY <3>1 DEF JustifiedInv, CallbackJustified
    <3>3. LockKey(job[v]) # LockKey(job[w])
      BY <2>1, <3>1 DEF JustifiedInv, EngineInv, HoldersValid, LockedWhileWorking, OneValidHolder
    <3> QED
      BY <2>1, <2>2, <3>1, <3>2, <3>3 DEF NoInterference, JustifiedInv
  <2> QED
    BY <2>3, <2>4, <2>5 DEF CallbackJustified
<1> QED
  BY <1>1, <1>2 DEF CallbackReturns

\* A worker's step.
LEMMA JustifiedWorker ==
    ASSUME JustifiedInv, NoInterference, NEW w \in Workers, Worker(w)
    PROVE  store' \in Stores /\ HoldersValid' /\ CallbackJustified'
<1>1. CASE Receive(w)
  <2>1. Head(work[EngineOf[w]]) \in Rules
    BY <1>1, RulesEngineAssumption DEF Receive, JustifiedInv, WorkTypes
  <2> QED
    BY <1>1, <2>1, JustifiedJob DEF Receive, locks
<1>2. CASE Check(w) \/ LockFails(w) \/ Recheck(w)
  BY <1>2, JustifiedJob DEF Check, LockFails, Recheck, locks
<1>3. CASE Lock(w)
  <2>1. store' = store /\ job' = job /\ pc' = [pc EXCEPT ![w] = "recheck"] /\ valid' = valid \cup {w}
    BY <1>3 DEF Lock, Goto, LS!Acquire
  <2> QED
    BY <2>1 DEF JustifiedInv, EngineInv, WorkerTypes, HoldersValid, CallbackJustified
<1>4. CASE CallbackReturns(w)
  BY <1>4, JustifiedCallback
<1>5. CASE Unlock(w)
  <2>1. /\ store' = store /\ valid' = valid \ {w}
        /\ pc' = [pc EXCEPT ![w] = "idle"] /\ job' = [job EXCEPT ![w] = NoRule]
    BY <1>5 DEF Unlock, EndJob, LS!Release
  <2> QED
    BY <2>1 DEF JustifiedInv, EngineInv, WorkerTypes, HoldersValid, CallbackJustified
<1> QED
  BY <1>1, <1>2, <1>3, <1>4, <1>5 DEF Worker

\* The steps of watchers and crawlers, and those of key workers, which may
\* start a job.
LEMMA JustifiedOthers ==
    ASSUME JustifiedInv,
           \/ \E e \in Engines, p \in Prefixes : Watcher(e, p)
           \/ \E e \in Engines : Crawler(e)
           \/ \E q \in KeyWorkers : KeyWorker(q)
           \/ UNCHANGED vars
    PROVE  store' \in Stores /\ HoldersValid' /\ CallbackJustified'
<1>1. CASE UNCHANGED <<store, workers, locks>>
  BY <1>1, JustifiedElsewhere DEF locks
<1>2. CASE \E q \in KeyWorkers : HandOver(q)
  <2>1. PICK q \in KeyWorkers, w \in Workers :
          \E r \in todo[q] : StartJob(w, r) /\ UNCHANGED <<store, valid>>
    BY <1>2 DEF HandOver, locks
  <2>2. \E r \in Rules : StartJob(w, r) /\ UNCHANGED <<store, valid>>
    BY <2>1 DEF JustifiedInv, WorkTypes
  <2> QED
    BY <2>2, JustifiedJob
<1>3. CASE \E e \in Engines : CrawlStart(e) \/ CrawlEnd(e)
  <2>1. PICK e \in Engines : CrawlStart(e) \/ CrawlEnd(e)
    BY <1>3
  <2>2. UNCHANGED <<store, workers>>
    BY <2>1 DEF CrawlStart, CrawlEnd
  <2>3. \A w \in Workers : w \in valid => w \in valid'
    BY <2>1, RulesEngineAssumption DEF CrawlStart, CrawlEnd, LS!Acquire, LS!Release, locks
  <2> QED
    BY <2>2, <2>3, JustifiedElsewhere
<1> QED
  BY <1>1, <1>2, <1>3 DEF Watcher, WatchNext, WatchReset, WatchSubmit, Crawler, CrawlGet, CrawlGetFails,
      CrawlKey, CrawlProcessed, KeyWorker, KeyEval, Dispatch, vars

\* A crash takes the locks of the workers it ends, and no others.
LEMMA JustifiedCrash ==
    ASSUME JustifiedInv, NEW e \in Engines, Crash(e)
    PROVE  store' \in Stores /\ HoldersValid' /\ CallbackJustified'
<1> DEFINE mine == {g \in Workers \cup KeyWorkers : EngineOf[g] = e}
<1>1. /\ pc' = [w \in Workers |-> IF w \in mine \cup {e} THEN "idle" ELSE pc[w]]
      /\ job' = [w \in Workers |-> IF w \in mine \cup {e} THEN NoRule ELSE job[w]]
  BY DEF Crash, JustifiedInv, EngineInv, WorkerTypes
<1>2. valid' = valid \ ((mine \cap Workers) \cup {e}) /\ store' = store
  BY DEF Crash, LS!ReleaseAll
<1> HIDE DEF mine
<1>3. HoldersValid'
  BY <1>1, <1>2 DEF JustifiedInv, HoldersValid
<1>4. CallbackJustified'
  BY <1>1, <1>2 DEF JustifiedInv, CallbackJustified
<1> QED
  BY <1>2, <1>3, <1>4 DEF JustifiedInv

\* The invariant is inductive if leases do not lapse.
LEMMA JustifiedNext ==
    ASSUME NoInterference, ~Lapses, JustifiedInv, [Next]_vars
    PROVE  JustifiedInv'
<1>1. EngineInv' /\ WorkTypes'
  BY EngineNext DEF JustifiedInv
<1>2. store' \in Stores /\ HoldersValid' /\ CallbackJustified'
  <2>1. \A c : ~Lapse(c)
    BY DEF Lapse
  <2> QED
    BY <2>1, JustifiedExternal, JustifiedWorker, JustifiedOthers, JustifiedCrash DEF Next
<1> QED
  BY <1>1, <1>2 DEF JustifiedInv

\* Nothing is under way at first.
LEMMA JustifiedInit == Init => JustifiedInv
<1> SUFFICES ASSUME Init PROVE JustifiedInv
  OBVIOUS
<1>1. WorkTypes /\ store \in Stores
  BY RulesEngineAssumption DEF Init, WorkTypes
<1>2. HoldersValid /\ CallbackJustified
  BY DEF Init, HoldersValid, CallbackJustified
<1> QED
  BY <1>1, <1>2, EngineInit DEF JustifiedInv

\* A callback runs only while its rule is satisfied, for every set of rules
\* whose writes do not interfere across locks: doWork's second check, the lock
\* around it and the one kept until the callback has returned are enough.
THEOREM CallbacksJustified ==
    ASSUME NoInterference, ~Lapses
    PROVE  Spec => []CallbackJustified
<1>1. JustifiedInv /\ [Next]_vars => JustifiedInv'
  BY JustifiedNext
<1>2. JustifiedInv => CallbackJustified
  BY DEF JustifiedInv
<1> QED
  BY <1>1, <1>2, JustifiedInit, PTL DEF Spec

--------------------------------------------------------------------------------
(* RulesEngine implements GuardedRules *)

\* Nothing that GuardedRules shows has changed.
LEMMA GuardStutter ==
    ASSUME UNCHANGED store,
           \A w \in Workers : (pc'[w] = "callback" <=> pc[w] = "callback") /\ (pc[w] = "callback" => job'[w] = job[w])
    PROVE  UNCHANGED GR!guardVars
<1>1. Running' = Running
  BY Zenon DEF Running
<1> QED
  BY <1>1, Zenon DEF GR!guardVars

\* Two callbacks run under two locks, so of two rules.
LEMMA RunningApart ==
    ASSUME JustifiedInv, NEW v \in Workers, NEW w \in Workers, v # w,
           pc[v] \in {"recheck", "callback"}, pc[w] \in {"recheck", "callback"}
    PROVE  LockKey(job[v]) # LockKey(job[w]) /\ job[v] # job[w]
<1>1. v \in valid /\ w \in valid
  BY DEF JustifiedInv, HoldersValid
<1>2. holding[v] = LockKey(job[v]) /\ holding[w] = LockKey(job[w])
  BY DEF JustifiedInv, EngineInv, LockedWhileWorking
<1>3. holding[v] # holding[w]
  BY <1>1 DEF JustifiedInv, EngineInv, OneValidHolder
<1> QED
  BY <1>2, <1>3, Zenon

\* The second check succeeds: the callback begins.
LEMMA BeginStep ==
    ASSUME JustifiedInv, NEW w \in Workers, pc[w] = "recheck", Satisfied(job[w], store), Goto(w, "callback"),
           UNCHANGED store
    PROVE  [GR!Next]_GR!guardVars
<1>1. job[w] \in Rules /\ job' = job
  BY DEF JustifiedInv, EngineInv, WorkerTypes, Goto
<1>2. \A v \in Workers : pc'[v] = IF v = w THEN "callback" ELSE pc[v]
  BY DEF JustifiedInv, EngineInv, WorkerTypes, Goto
<1>3. Running' = Running \cup {job[w]}
  BY <1>1, <1>2, Zenon DEF Running
<1>4. \A q \in Running : LockKey(q) # LockKey(job[w])
  <2> SUFFICES ASSUME NEW v \in Workers, pc[v] = "callback" PROVE LockKey(job[v]) # LockKey(job[w])
    BY Zenon DEF Running
  <2>1. v # w
    OBVIOUS
  <2> QED
    BY <2>1, RunningApart
<1>5. GR!Begin(job[w])
  BY <1>3, <1>4, Zenon DEF GR!Begin
<1> QED
  BY <1>1, <1>5, Zenon DEF GR!Next

\* A callback ends, and no other of the same rule is running.
LEMMA RunningEnds ==
    ASSUME JustifiedInv, NEW w \in Workers, pc[w] = "callback", Goto(w, "unlock")
    PROVE  Running' = Running \ {job[w]}
<1>1. job' = job
  BY DEF Goto
<1>2. \A v \in Workers : pc'[v] = IF v = w THEN "unlock" ELSE pc[v]
  BY DEF JustifiedInv, EngineInv, WorkerTypes, Goto
<1>3. \A v \in Workers : v # w /\ pc[v] = "callback" => job[v] # job[w]
  BY RunningApart
<1>4. \A v \in Workers : pc'[v] = "callback" => v # w /\ pc[v] = "callback"
  BY <1>2
<1>5. \A v \in Workers : v # w /\ pc[v] = "callback" => pc'[v] = "callback"
  BY <1>2
<1> QED
  BY <1>1, <1>3, <1>4, <1>5, Zenon DEF Running

\* It has written, or failed.
LEMMA FinishStep ==
    ASSUME JustifiedInv, NEW w \in Workers, CallbackReturns(w)
    PROVE  [GR!Next]_GR!guardVars
<1>1. pc[w] = "callback" /\ Goto(w, "unlock")
  BY DEF CallbackReturns
<1>2. job[w] \in Rules /\ Satisfied(job[w], store)
  BY <1>1 DEF JustifiedInv, EngineInv, WorkerTypes, CallbackJustified
<1>3. job[w] \in Running
  BY <1>1, Zenon DEF Running
<1>4. Running' = Running \ {job[w]}
  BY <1>1, RunningEnds
<1>5. CASE Put(CallbackPut(job[w])[1], CallbackPut(job[w])[2])
  <2>1. GR!Finish(job[w])
    BY <1>2, <1>3, <1>4, <1>5, Zenon DEF GR!Finish, GR!Written, Put
  <2> QED
    BY <1>2, <2>1, Zenon DEF GR!Next
<1>6. CASE UNCHANGED store
  <2>1. GR!Abort({job[w]}) /\ {job[w]} \in SUBSET Rules
    BY <1>2, <1>3, <1>4, <1>6, Zenon DEF GR!Abort
  <2> QED
    BY <2>1, Zenon DEF GR!Next
<1> QED
  BY <1>5, <1>6, Zenon DEF CallbackReturns

\* A job that is not in its callback starts, goes on or ends.
LEMMA GuardJob ==
    ASSUME JustifiedInv, NEW w \in Workers, UNCHANGED store, pc[w] # "callback",
           \/ \E r \in Rules : StartJob(w, r)
           \/ EndJob(w)
           \/ Goto(w, "lock") \/ Goto(w, "recheck") \/ Goto(w, "unlock")
    PROVE  UNCHANGED GR!guardVars
<1>1. \A v \in Workers : /\ pc'[v] = "callback" <=> pc[v] = "callback"
                         /\ pc[v] = "callback" => job'[v] = job[v]
  BY DEF JustifiedInv, EngineInv, WorkerTypes, StartJob, EndJob, Goto
<1> QED
  BY <1>1, GuardStutter

\* A worker's step begins, finishes or aborts a callback, or is not seen.
LEMMA GuardWorker ==
    ASSUME JustifiedInv, NEW w \in Workers, Worker(w)
    PROVE  [GR!Next]_GR!guardVars
<1>1. CASE Receive(w)
  <2>1. Head(work[EngineOf[w]]) \in Rules
    BY <1>1, RulesEngineAssumption DEF Receive, JustifiedInv, WorkTypes
  <2>2. \E r \in Rules : StartJob(w, r)
    BY <1>1, <2>1 DEF Receive
  <2> QED
    BY <1>1, <2>2, GuardJob DEF Receive, Idle
<1>2. CASE Check(w) \/ LockFails(w)
  BY <1>2, GuardJob DEF Check, LockFails
<1>3. CASE Lock(w)
  BY <1>3, GuardJob DEF Lock
<1>4. CASE Recheck(w)
  <2>1. CASE Goto(w, "unlock")
    BY <1>4, <2>1, GuardJob DEF Recheck
  <2>2. CASE Satisfied(job[w], store) /\ Goto(w, "callback")
    BY <1>4, <2>2, BeginStep DEF Recheck
  <2> QED
    BY <1>4, <2>1, <2>2 DEF Recheck
<1>5. CASE CallbackReturns(w)
  BY <1>5, FinishStep
<1>6. CASE Unlock(w)
  BY <1>6, GuardJob DEF Unlock
<1> QED
  BY <1>1, <1>2, <1>3, <1>4, <1>5, <1>6 DEF Worker

\* Watchers, crawlers and key workers do not run callbacks.
LEMMA GuardOthers ==
    ASSUME JustifiedInv,
           \/ \E e \in Engines, p \in Prefixes : Watcher(e, p)
           \/ \E e \in Engines : Crawler(e)
           \/ \E q \in KeyWorkers : KeyWorker(q)
           \/ UNCHANGED vars
    PROVE  UNCHANGED GR!guardVars
<1>1. CASE UNCHANGED <<store, workers>>
  BY <1>1, GuardStutter DEF workers
<1>2. CASE \E q \in KeyWorkers : HandOver(q)
  <2>1. PICK q \in KeyWorkers, w \in Workers :
          \E r \in todo[q] : Idle(w) /\ StartJob(w, r) /\ UNCHANGED store
    BY <1>2, Zenon DEF HandOver
  <2>2. \E r \in Rules : StartJob(w, r)
    BY <2>1 DEF JustifiedInv, WorkTypes
  <2> QED
    BY <2>1, <2>2, GuardJob DEF Idle
<1> QED
  BY <1>1, <1>2 DEF Watcher, WatchNext, WatchReset, WatchSubmit, Crawler, CrawlStart, CrawlGet, CrawlGetFails,
      CrawlKey, CrawlProcessed, CrawlEnd, KeyWorker, KeyEval, Dispatch, vars

\* A crash ends callbacks before they have written.
LEMMA GuardCrash ==
    ASSUME JustifiedInv, NEW e \in Engines, Crash(e)
    PROVE  [GR!Next]_GR!guardVars
<1> DEFINE mine == {g \in Workers \cup KeyWorkers : EngineOf[g] = e}
           ended == {job[w] : w \in {w \in Workers : pc[w] = "callback" /\ w \in mine \cup {e}}}
<1>1. /\ pc' = [w \in Workers |-> IF w \in mine \cup {e} THEN "idle" ELSE pc[w]]
      /\ job' = [w \in Workers |-> IF w \in mine \cup {e} THEN NoRule ELSE job[w]]
  BY DEF Crash, JustifiedInv, EngineInv, WorkerTypes
<1>2. store' = store
  BY DEF Crash
<1> HIDE DEF mine
<1>3. \A w \in Workers : /\ pc'[w] = "callback" <=> pc[w] = "callback" /\ w \notin mine \cup {e}
                         /\ pc'[w] = "callback" => job'[w] = job[w]
  BY <1>1
<1>4. \A v, w \in Workers : v # w /\ pc[v] = "callback" /\ pc[w] = "callback" => job[v] # job[w]
  BY RunningApart
<1>5. ended \subseteq Running
  BY Zenon DEF Running
<1>6. Running' = Running \ ended
  BY <1>3, <1>4, Zenon DEF Running
<1>7. ended \in SUBSET Rules
  BY DEF JustifiedInv, EngineInv, WorkerTypes
<1> HIDE DEF ended
<1>8. GR!Abort(ended)
  BY <1>2, <1>5, <1>6, Zenon DEF GR!Abort
<1> QED
  BY <1>7, <1>8, Zenon DEF GR!Next

\* Seen from the store, the engines execute guarded commands: every callback
\* begins, and writes, while its rule is satisfied, and alone under its lock,
\* however many engines and workers there are and whatever fails but a lease.
THEOREM GuardRefinement ==
    ASSUME NoInterference, ~Lapses
    PROVE  Spec => RulesAreGuarded
<1>1. Init => GR!Init
  <2> SUFFICES ASSUME Init PROVE GR!Init
    OBVIOUS
  <2>1. Running = {}
    BY DEF Init, Running
  <2>2. store = InitialStore
    BY DEF Init
  <2> QED
    BY <2>1, <2>2, Zenon DEF GR!Init
<1>2. JustifiedInv /\ [Next]_vars => [GR!Next]_GR!guardVars
  <2> SUFFICES ASSUME JustifiedInv, [Next]_vars PROVE [GR!Next]_GR!guardVars
    OBVIOUS
  <2>1. CASE ExternalWrite
    <3>1. Running' = Running
      BY <2>1, Zenon DEF ExternalWrite, Running, workers
    <3>2. GR!Others
      BY <2>1, <3>1, Zenon DEF ExternalWrite, Put, GR!Others, GR!Written
    <3> QED
      BY <3>2, Zenon DEF GR!Next
  <2>2. \A c : ~Lapse(c)
    BY DEF Lapse
  <2> QED
    BY <2>1, <2>2, GuardWorker, GuardOthers, GuardCrash, Zenon DEF Next
<1>3. JustifiedInv /\ [Next]_vars => JustifiedInv'
  BY JustifiedNext
<1> QED
  BY <1>1, <1>2, <1>3, JustifiedInit, PTL DEF Spec, RulesAreGuarded, GR!Spec
================================================================================
