----------------------------- MODULE PollingProofs -----------------------------
(***************************************************************************)
(* PollKept, PollDelay and the types for any number of engines and         *)
(* workers, any TTL, cool-off, pause and jitter, and any number of faults. *)
(***************************************************************************)
EXTENDS Polling, TLAPS

Clients == Workers \cup Engines

PCs == {"idle", "check", "lock", "etcd", "recheck", "callback", "grant", "put", "unlock"}

PollTypes ==
    /\ ttlLeft \in Nat
    /\ due \in Nat
    /\ granted \in [Workers -> Nat]
    /\ pc \in [Workers -> PCs]
    /\ holding \in [Clients -> LockKeys \cup {NoKey}]
    /\ valid \subseteq Clients

\* A worker holds the rule's lock from before the recheck to the unlock.
PollLocked ==
    \A w \in Workers :
        pc[w] \in {"recheck", "callback", "grant", "put", "unlock"} => holding[w] = RuleLock /\ w \in valid

OneHolder == \A c, d \in valid : holding[c] # NoKey /\ (c # d => holding[c] # holding[d])

\* The lease of the TTL key ends no earlier than the TTLs that are running,
\* and while a poll is under way none is: its Put cannot cut one short.
LeaseLongest ==
    /\ due > 0 => ttlKey /\ due <= ttlLeft
    /\ \A w \in Workers : Polling(w) => due = 0

PollInv == PollTypes /\ PollLocked /\ OneHolder /\ LeaseLongest

\* At first there is no TTL key, and nobody holds a lock.
LEMMA PollInit == Init => PollInv
<1> SUFFICES ASSUME Init PROVE PollInv
  OBVIOUS
<1>1. PollTypes
  BY DEF Init, LS!Init, PollTypes, PCs, Clients
<1>2. PollLocked /\ OneHolder
  BY DEF Init, LS!Init, PollLocked, OneHolder
<1>3. LeaseLongest
  BY DEF Init, LeaseLongest
<1> QED
  BY <1>1, <1>2, <1>3 DEF PollInv

\* At most one worker polls at a time.
LEMMA PollAlone ==
    ASSUME PollInv, NEW v \in Workers, NEW w \in Workers, v # w, Polling(v)
    PROVE  pc[w] \notin {"recheck", "callback", "grant", "put", "unlock"}
BY PollingAssumption DEF PollInv, PollLocked, OneHolder, Polling

\* Steps that touch neither the TTL key, nor a worker, nor a lock.
LEMMA PollElsewhere ==
    PollInv /\ UNCHANGED <<ttlKey, ttlLeft, due, workers, holding, valid>> => PollInv'
BY DEF PollInv, PollTypes, PollLocked, OneHolder, LeaseLongest, Polling, workers

\* Time shortens the key's lease and the running TTLs alike.
LEMMA TickStep == PollInv /\ Tick => PollInv'
<1> SUFFICES ASSUME PollInv, Tick PROVE PollInv'
  OBVIOUS
<1>1. ttlLeft' \in Nat /\ due' \in Nat /\ granted' \in [Workers -> Nat]
  BY DEF PollInv, PollTypes, Tick, Less
<1>2. LeaseLongest'
  BY DEF PollInv, PollTypes, LeaseLongest, Polling, Tick, Less
<1> QED
  BY <1>1, <1>2 DEF PollInv, PollTypes, PollLocked, OneHolder, Tick

\* etcd ends a lease at 0: no TTL is running then.
LEMMA ExpireStep == PollInv /\ Expire => PollInv'
BY DEF PollInv, PollTypes, PollLocked, OneHolder, LeaseLongest, Polling, Expire, workers, locks

\* A worker goes on without a change of the locks or the TTL key.
LEMMA GoStep ==
    ASSUME PollInv, NEW w \in Workers, NEW p \in PCs, Goto(w, p),
           UNCHANGED <<ttlKey, ttlLeft, due, holding, valid>>, granted' \in [Workers -> Nat],
           \/ p \in {"idle", "check", "lock", "etcd"}
           \/ pc[w] = "recheck" /\ p = "callback" /\ ~ttlKey
           \/ pc[w] \in {"recheck", "callback", "grant"} /\ p = "unlock"
           \/ Polling(w) /\ p \in {"grant", "put"}
    PROVE  PollInv'
<1>1. PollTypes'
  BY Zenon DEF PollInv, PollTypes, PCs, Goto
<1>2. PollLocked'
  BY DEF PollInv, PollTypes, PollLocked, Goto, Polling
<1>3. LeaseLongest'
  BY DEF PollInv, PollTypes, LeaseLongest, Goto, Polling
<1> QED
  BY <1>1, <1>2, <1>3 DEF PollInv, OneHolder

\* Put moves the TTL key to a lease no TTL outlasts.
LEMMA PutStep == ASSUME PollInv, NEW w \in Workers, Put(w) PROVE PollInv'
<1>1. pc[w] = "put" /\ due = 0
  BY DEF PollInv, LeaseLongest, Polling, Put
<1>2. /\ Goto(w, "unlock") /\ UNCHANGED <<holding, valid>>
      /\ granted' \in [Workers -> Nat]
      /\ \/ ttlKey' = TRUE /\ ttlLeft' = granted[w] /\ due' \in {due, granted[w]}
         \/ UNCHANGED <<ttlKey, ttlLeft, due>>
  BY <1>1 DEF PollInv, PollTypes, Put, SetTTLKey, Longer, store, locks
<1>3. PollTypes'
  BY <1>2 DEF PollInv, PollTypes, PCs, Goto
<1>4. PollLocked'
  BY <1>1, <1>2 DEF PollInv, PollTypes, PollLocked, Goto
<1>5. \A v \in Workers : ~Polling(v)'
  <2> SUFFICES ASSUME NEW v \in Workers PROVE ~Polling(v)'
    OBVIOUS
  <2>1. CASE v = w
    BY <1>2, <2>1 DEF PollInv, PollTypes, Goto, Polling
  <2>2. CASE v # w
    BY <1>1, <1>2, <2>2, PollAlone DEF PollInv, PollTypes, Goto, Polling
  <2> QED
    BY <2>1, <2>2
<1>6. LeaseLongest'
  BY <1>1, <1>2, <1>5 DEF PollInv, PollTypes, LeaseLongest
<1> QED
  BY <1>2, <1>3, <1>4, <1>6 DEF PollInv, OneHolder

\* A client takes a lock that is free, and a worker the rule's.
LEMMA TakeStep ==
    ASSUME PollInv, NEW c \in Clients, NEW k \in LockKeys, LS!Acquire(c, k),
           UNCHANGED <<ttlKey, ttlLeft, due, granted>>,
           \/ c \in Engines /\ UNCHANGED pc
           \/ c \in Workers /\ k = RuleLock /\ Goto(c, "recheck")
    PROVE  PollInv'
<1>1. PollTypes'
  BY DEF PollInv, PollTypes, PCs, LS!Acquire, Goto
<1>2. PollLocked'
  BY PollingAssumption DEF PollInv, PollTypes, PollLocked, LS!Acquire, Goto, Clients
<1>3. OneHolder'
  BY PollingAssumption DEF PollInv, PollTypes, OneHolder, LS!Acquire, LS!Free
<1>4. LeaseLongest'
  BY DEF PollInv, PollTypes, LeaseLongest, Polling, Goto
<1> QED
  BY <1>1, <1>2, <1>3, <1>4 DEF PollInv

\* A client gives its lock back.
LEMMA GiveStep ==
    ASSUME PollInv, NEW c \in Clients, LS!Release(c),
           UNCHANGED <<ttlKey, ttlLeft, due, granted>>,
           \/ c \in Engines /\ UNCHANGED pc
           \/ c \in Workers /\ Goto(c, "idle")
    PROVE  PollInv'
<1>1. PollTypes'
  BY DEF PollInv, PollTypes, PCs, LS!Release, Goto
<1>2. PollLocked'
  BY PollingAssumption DEF PollInv, PollTypes, PollLocked, LS!Release, Goto, Clients
<1>3. OneHolder'
  BY DEF PollInv, PollTypes, OneHolder, LS!Release
<1>4. LeaseLongest'
  BY DEF PollInv, PollTypes, LeaseLongest, Polling, Goto
<1> QED
  BY <1>1, <1>2, <1>3, <1>4 DEF PollInv

\* The steps of doWork and doRule.
LEMMA PollWorkerStep == ASSUME PollInv, NEW w \in Workers, Worker(w) PROVE PollInv'
<1>1. CASE Receive(w)
  BY <1>1, GoStep DEF PollInv, PollTypes, PCs, Receive, store, locks
<1>2. CASE Check(w)
  <2>1. \/ Goto(w, "lock") \/ Goto(w, "idle")
    BY <1>2 DEF Check
  <2> QED
    BY <1>2, <2>1, GoStep DEF PollInv, PollTypes, PCs, Check, store, locks
<1>3. CASE LockCoolOff(w)
  <2>1. \/ Goto(w, "etcd") \/ Goto(w, "idle")
    BY <1>3 DEF LockCoolOff
  <2> QED
    BY <1>3, <2>1, GoStep DEF PollInv, PollTypes, PCs, LockCoolOff, store, locks
<1>4. CASE Lock(w)
  BY <1>4, TakeStep DEF Lock, store, Clients, LockKeys
<1>5. CASE LockFails(w)
  BY <1>5, GoStep DEF PollInv, PollTypes, PCs, LockFails, store, locks
<1>6. CASE Recheck(w)
  <2>1. pc[w] = "recheck" /\ ((Goto(w, "callback") /\ ~ttlKey) \/ Goto(w, "unlock"))
    BY <1>6 DEF Recheck, Satisfied
  <2> QED
    BY <1>6, <2>1, GoStep DEF PollInv, PollTypes, PCs, Recheck, store, locks
<1>7. CASE CallbackReturns(w)
  <2>1. pc[w] = "callback" /\ (Goto(w, "grant") \/ Goto(w, "unlock"))
    BY <1>7 DEF CallbackReturns
  <2> QED
    BY <1>7, <2>1, GoStep DEF PollInv, PollTypes, PCs, CallbackReturns, Polling, store, locks
<1>8. CASE Grant(w)
  <2>1. pc[w] = "grant" /\ (Goto(w, "put") \/ Goto(w, "unlock"))
    BY <1>8 DEF Grant
  <2>2. granted' \in [Workers -> Nat]
    BY <1>8, PollingAssumption DEF PollInv, PollTypes, Grant
  <2> QED
    BY <1>8, <2>1, <2>2, GoStep DEF PCs, Grant, Polling, store, locks
<1>9. CASE Put(w)
  BY <1>9, PutStep
<1>10. CASE Unlock(w)
  BY <1>10, GiveStep DEF Unlock, store, Clients
<1> QED
  BY <1>1, <1>2, <1>3, <1>4, <1>5, <1>6, <1>7, <1>8, <1>9, <1>10 DEF Worker

\* The crawler's steps: its mutex is not the rule's lock.
LEMMA PollCrawlerStep == ASSUME PollInv, NEW e \in Engines, Crawler(e) PROVE PollInv'
<1>1. CASE CrawlLocked(e)
  BY <1>1, TakeStep DEF CrawlLocked, store, workers, Clients, LockKeys
<1>2. CASE CrawlUnlock(e)
  BY <1>2, GiveStep DEF CrawlUnlock, store, workers, Clients
<1>3. CASE CrawlLock(e) \/ CrawlLockFails(e) \/ CrawlGet(e) \/ CrawlKey(e) \/ CrawlProcessed(e)
  BY <1>3, PollElsewhere DEF CrawlLock, CrawlLockFails, CrawlGet, CrawlKey, CrawlProcessed, store, locks
<1> QED
  BY <1>1, <1>2, <1>3 DEF Crawler

\* A crash takes the workers of an engine back to idle, and their locks.
LEMMA PollCrashStep == ASSUME PollInv, NEW e \in Engines, Crash(e) PROVE PollInv'
<1>1. PollTypes'
  BY DEF PollInv, PollTypes, PCs, Crash, LS!ReleaseAll, Clients, store
<1>2. PollLocked'
  BY PollingAssumption DEF PollInv, PollTypes, PollLocked, Crash, LS!ReleaseAll, Clients
<1>3. OneHolder'
  BY DEF PollInv, PollTypes, OneHolder, Crash, LS!ReleaseAll, Clients
<1>4. LeaseLongest'
  BY DEF PollInv, PollTypes, LeaseLongest, Polling, Crash, store
<1> QED
  BY <1>1, <1>2, <1>3, <1>4 DEF PollInv

\* PollInv is inductive.
LEMMA PollNext == PollInv /\ [Next]_vars => PollInv'
<1> SUFFICES ASSUME PollInv, [Next]_vars PROVE PollInv'
  OBVIOUS
<1>1. CASE Tick
  BY <1>1, TickStep
<1>2. CASE ChangePre
  BY <1>2, PollElsewhere DEF ChangePre, locks
<1>3. CASE Expire
  BY <1>3, ExpireStep
<1>4. CASE \E e \in Engines : WatchEvent(e)
  BY <1>4, PollElsewhere DEF WatchEvent, store, locks
<1>5. CASE \E e \in Engines : Crawler(e)
  BY <1>5, PollCrawlerStep
<1>6. CASE \E e \in Engines : Crash(e)
  BY <1>6, PollCrashStep
<1>7. CASE \E w \in Workers : Worker(w)
  BY <1>7, PollWorkerStep
<1>8. CASE UNCHANGED vars
  BY <1>8, PollElsewhere DEF vars, store, locks
<1> QED
  BY <1>1, <1>2, <1>3, <1>4, <1>5, <1>6, <1>7, <1>8 DEF Next

\* The TTL key of a poll that succeeded outlives the TTL counted from doRule's
\* Grant.
THEOREM PollsKept == Spec => []PollKept
<1>1. PollInv => PollKept
  BY DEF PollInv, LeaseLongest, PollKept
<1> QED
  BY <1>1, PollInit, PollNext, PTL DEF Spec

\* A callback starts when every TTL is over and no other poll is under way.
THEOREM PollsDelayed == Spec => PollDelay
<1>1. ASSUME PollInv, Next, NEW w \in Workers, StartsPoll(w)
      PROVE  NoPollRuns(w)
  <2>1. PICK v \in Workers : Worker(v)
    <3>1. ~UNCHANGED pc /\ ~(\E e \in Engines : Crash(e))
      BY <1>1, Zenon DEF StartsPoll, Polling, Crash
    <3>2. ~(\E e \in Engines : WatchEvent(e) \/ Crawler(e))
      BY <3>1 DEF WatchEvent, Crawler, CrawlLock, CrawlLocked, CrawlLockFails, CrawlGet, CrawlKey,
                  CrawlProcessed, CrawlUnlock, workers
    <3> QED
      BY <1>1, <3>1, <3>2 DEF Next, Tick, ChangePre, Expire, workers
  <2>2. v = w
    BY <1>1, <2>1, SMTT(60) DEF Worker, Receive, Check, LockCoolOff, Lock, LockFails, Recheck, CallbackReturns, Grant,
                      Put, Unlock, Goto, StartsPoll, Polling, PollInv, PollTypes
  <2>3. Recheck(w) /\ Satisfied
    BY <1>1, <2>1, <2>2 DEF Worker, Receive, Check, LockCoolOff, Lock, LockFails, Recheck, CallbackReturns,
                            Grant, Put, Unlock, Goto, StartsPoll, Polling, PollInv, PollTypes
  <2>4. due = 0
    BY <1>1, <2>3 DEF PollInv, PollTypes, LeaseLongest, Satisfied
  <2>5. \A u \in Workers \ {w} : ~Polling(u)
    BY <1>1, <2>3, PollAlone DEF Recheck
  <2> QED
    BY <2>4, <2>5 DEF NoPollRuns
<1>2. PollInv /\ [Next]_vars => [\A w \in Workers : StartsPoll(w) => NoPollRuns(w)]_vars
  BY <1>1
<1> QED
  BY <1>2, PollInit, PollNext, PTL DEF Spec, PollDelay

--------------------------------------------------------------------------------
(* The types: every timer, counter and channel within its bounds *)

StoreTypes == ttlLeft \in 0 .. TTL /\ due \in 0 .. TTL
FlagTypes == pre \in BOOLEAN /\ ttlKey \in BOOLEAN
WorkerTypes == granted \in [Workers -> 0 .. TTL] /\ pc \in [Workers -> PCs]
WorkTypes == event \in SUBSET Engines /\ work \in [Engines -> 0 .. WorkBuffer]
CrawlerTypes ==
    /\ cpc \in [Engines -> {"pause", "etcd", "get", "process", "unlock"}]
    /\ sleep \in [Engines -> 0 .. MaxPause]
    /\ visit \in [Engines -> 0 .. PreKeys]
HolderTypes == holding \in [Clients -> LockKeys \cup {NoKey}] /\ valid \in SUBSET Clients
CoolTypes == cool \in [Engines -> [LockKeys -> 0 .. CoolOff + 1]]
BoundTypes == faults \in 0 .. MaxFaults /\ writes \in 0 .. MaxWrites

\* The parts are all of TypeOK.
LEMMA PollTypeParts ==
    TypeOK <=> /\ StoreTypes /\ FlagTypes /\ WorkerTypes /\ WorkTypes
               /\ CrawlerTypes /\ HolderTypes /\ CoolTypes /\ BoundTypes
BY Zenon DEF TypeOK, StoreTypes, FlagTypes, WorkerTypes, WorkTypes, CrawlerTypes, HolderTypes, CoolTypes,
    BoundTypes, LS!ServiceTypeOK, CO!CoolOffTypeOK, PCs, Clients

\* The same in the next state.
LEMMA PollTypePartsNext ==
    /\ StoreTypes' /\ FlagTypes' /\ WorkerTypes' /\ WorkTypes'
    /\ CrawlerTypes' /\ HolderTypes' /\ CoolTypes' /\ BoundTypes'
    => TypeOK'
BY Zenon DEF TypeOK, StoreTypes, FlagTypes, WorkerTypes, WorkTypes, CrawlerTypes, HolderTypes, CoolTypes,
    BoundTypes, LS!ServiceTypeOK, CO!CoolOffTypeOK, PCs, Clients

\* What the duration generator gives, cut to seconds, is never negative and
\* never more than twice the interval: the jitter is at most the whole of it.
LEMMA PausesBounded == Pauses \subseteq 0 .. MaxPause
<1> DEFINE low == SyncInterval * (100 - JitterPercent)
           high == SyncInterval * (100 + JitterPercent)
<1>1. /\ SyncInterval \in Nat /\ JitterPercent \in 0 .. 100
      /\ low \in Nat /\ high \in Nat /\ high <= 200 * SyncInterval
  BY PollingAssumption, SMTT(60)
<1>2. (low \div 100) \in Nat
  BY <1>1
<1>3. (high + 100 - 1) \div 100 <= 2 * SyncInterval
  BY <1>1, SMTT(60)
<1> HIDE DEF low, high
<1>4. SyncInterval \in 0 .. MaxPause
  BY <1>1 DEF MaxPause
<1>5. (high + 100 - 1) \div 100 \in Nat
  BY <1>1
<1>6. (low \div 100) .. ((high + 100 - 1) \div 100) - 1 \subseteq 0 .. MaxPause
  BY <1>1, <1>2, <1>3, <1>5 DEF MaxPause
<1> QED
  BY <1>4, <1>6, Zenon DEF Pauses, CeilDiv, low, high

\* Time takes one off every counter and never goes below 0.
LEMMA PollTickTypes == TypeOK /\ Tick => TypeOK'
<1> SUFFICES ASSUME TypeOK, Tick PROVE TypeOK'
  BY SMTT(60)
<1>1. StoreTypes'
  BY PollTypeParts, PollingAssumption DEF StoreTypes, Tick, Less
<1>2. WorkerTypes'
  <2>1. granted' \in [Workers -> 0 .. TTL]
    BY PollTypeParts, PollingAssumption DEF WorkerTypes, Tick, Less
  <2> QED
    BY <2>1, PollTypeParts, Zenon DEF WorkerTypes, Tick
<1>3. CrawlerTypes'
  <2>1. sleep' \in [Engines -> 0 .. MaxPause]
    BY PollTypeParts, PollingAssumption DEF CrawlerTypes, Tick, Less, MaxPause
  <2> QED
    BY <2>1, PollTypeParts, Zenon DEF CrawlerTypes, Tick
<1>4. CoolTypes'
  BY PollTypeParts, PollingAssumption DEF CoolTypes, Tick, CO!Tick
<1>5. FlagTypes' /\ WorkTypes' /\ HolderTypes' /\ BoundTypes'
  BY PollTypeParts, Zenon DEF FlagTypes, WorkTypes, HolderTypes, BoundTypes, Tick, bounds
<1> QED
  BY <1>1, <1>2, <1>3, <1>4, <1>5, PollTypePartsNext, Zenon

\* A fault is counted up to its bound.
LEMMA FaultTypes == TypeOK /\ (Fault \/ UNCHANGED bounds) => BoundTypes'
BY PollTypeParts, PollingAssumption DEF BoundTypes, Fault, bounds

\* A key worker sends on workChannel only when there is room.
LEMMA DispatchTypes ==
    ASSUME TypeOK, NEW e \in Engines, Dispatch(e)
    PROVE  work' \in [Engines -> 0 .. WorkBuffer]
BY PollTypeParts, PollingAssumption DEF WorkTypes, Dispatch

\* The cool-off counts from one more than the cool-off.
LEMMA AttemptTypes ==
    ASSUME TypeOK, NEW e \in Engines, NEW k \in LockKeys, CO!Attempt(e, k)
    PROVE  CoolTypes'
BY PollTypeParts, PollingAssumption DEF CoolTypes, CO!Attempt

\* Taking and giving back locks.
LEMMA HolderStep ==
    ASSUME TypeOK, NEW c \in Clients, NEW k \in LockKeys, LS!Acquire(c, k) \/ LS!Release(c)
    PROVE  HolderTypes'
BY PollTypeParts DEF HolderTypes, LS!Acquire, LS!Release

\* A crawler ends its run with a pause the duration generator can give.
LEMMA PauseTypes ==
    ASSUME TypeOK, NEW e \in Engines, Pause(e), UNCHANGED visit
    PROVE  CrawlerTypes'
BY PollTypeParts, PausesBounded DEF CrawlerTypes, Pause, CrawlerGoto

\* Every step of a worker.
LEMMA PollWorkerTypes == ASSUME TypeOK, NEW w \in Workers, Worker(w) PROVE TypeOK'
<1>1. StoreTypes'
  BY PollTypeParts, PollingAssumption
     DEF StoreTypes, WorkerTypes, Worker, Receive, Check, LockCoolOff, Lock, LockFails, Recheck,
         CallbackReturns, Grant, Put, Unlock, SetTTLKey, Longer, store
<1>2. FlagTypes'
  BY PollTypeParts, Zenon
     DEF FlagTypes, Worker, Receive, Check, LockCoolOff, Lock, LockFails, Recheck,
         CallbackReturns, Grant, Put, Unlock, SetTTLKey, store
<1>3. WorkerTypes'
  <2>1. PICK p \in PCs : Goto(w, p)
    BY DEF Worker, Receive, Check, LockCoolOff, Lock, LockFails, Recheck, CallbackReturns, Grant, Put, Unlock, PCs
  <2>2. pc' \in [Workers -> PCs]
    BY <2>1, PollTypeParts, SMTT(60) DEF WorkerTypes, Goto
  <2>3. granted' \in [Workers -> 0 .. TTL]
    BY PollTypeParts, PollingAssumption
       DEF WorkerTypes, Worker, Receive, Check, LockCoolOff, Lock, LockFails, Recheck,
           CallbackReturns, Grant, Put, Unlock
  <2> QED
    BY <2>2, <2>3, SMTT(60) DEF WorkerTypes
<1>4. WorkTypes'
  <2>1. work' \in [Engines -> 0 .. WorkBuffer]
    BY PollTypeParts, PollingAssumption
       DEF WorkTypes, Worker, Receive, Check, LockCoolOff, Lock, LockFails, Recheck,
           CallbackReturns, Grant, Put, Unlock
  <2>2. event' \in {event, Engines}
    BY Zenon DEF Worker, Receive, Check, LockCoolOff, Lock, LockFails, Recheck,
           CallbackReturns, Grant, Put, Unlock, SetTTLKey
  <2> QED
    BY <2>1, <2>2, PollTypeParts, SMTT(60) DEF WorkTypes
<1>5. CrawlerTypes'
  <2>1. UNCHANGED crawlers
    BY Zenon DEF Worker, Receive, Check, LockCoolOff, Lock, LockFails, Recheck,
           CallbackReturns, Grant, Put, Unlock
  <2> QED
    BY <2>1, PollTypeParts, Zenon DEF CrawlerTypes, crawlers
<1>6. HolderTypes'
  <2>1. CASE Lock(w) \/ Unlock(w)
    BY <2>1, HolderStep DEF Lock, Unlock, Clients, LockKeys
  <2>2. CASE ~(Lock(w) \/ Unlock(w))
    <3>1. UNCHANGED <<holding, valid>>
      BY <2>2, Zenon DEF Worker, Receive, Check, LockCoolOff, LockFails, Recheck, CallbackReturns, Grant, Put, locks
    <3> QED
      BY <3>1, PollTypeParts, Zenon DEF HolderTypes
  <2> QED
    BY <2>1, <2>2
<1>7. CoolTypes'
  <2>1. CASE LockCoolOff(w)
    BY <2>1, AttemptTypes, PollingAssumption DEF LockCoolOff, CO!Passes, CO!Refuses, LockKeys
  <2>2. CASE ~LockCoolOff(w)
    <3>1. UNCHANGED cool
      BY <2>2, Zenon DEF Worker, Receive, Check, Lock, LockFails, Recheck, CallbackReturns, Grant, Put, Unlock, locks
    <3> QED
      BY <3>1, PollTypeParts, Zenon DEF CoolTypes
  <2> QED
    BY <2>1, <2>2
<1>8. BoundTypes'
  <2>1. Fault \/ UNCHANGED bounds
    BY Zenon DEF Worker, Receive, Check, LockCoolOff, Lock, LockFails, Recheck,
           CallbackReturns, Grant, Put, Unlock
  <2> QED
    BY <2>1, FaultTypes
<1> QED
  BY <1>1, <1>2, <1>3, <1>4, <1>5, <1>6, <1>7, <1>8, PollTypePartsNext, Zenon

\* Every step of a crawler.
LEMMA PollCrawlerTypes == ASSUME TypeOK, NEW e \in Engines, Crawler(e) PROVE TypeOK'
<1>1. StoreTypes' /\ FlagTypes' /\ WorkerTypes'
  <2>1. UNCHANGED <<store, workers>>
    BY Zenon DEF Crawler, CrawlLock, CrawlLocked, CrawlLockFails, CrawlGet, CrawlKey, CrawlProcessed, CrawlUnlock
  <2> QED
    BY <2>1, PollTypeParts, Zenon DEF StoreTypes, FlagTypes, WorkerTypes, store, workers
<1>2. WorkTypes'
  <2>1. UNCHANGED event /\ (Dispatch(e) \/ UNCHANGED work)
    BY Zenon DEF Crawler, CrawlLock, CrawlLocked, CrawlLockFails, CrawlGet, CrawlKey, CrawlProcessed, CrawlUnlock
  <2> QED
    BY <2>1, DispatchTypes, PollTypeParts DEF WorkTypes
<1>3. CrawlerTypes'
  <2>1. CASE CrawlKey(e)
    BY <2>1, PollTypeParts, PollingAssumption DEF CrawlerTypes, CrawlKey
  <2>2. CASE CrawlGet(e)
    BY <2>2, PollTypeParts, PollingAssumption DEF CrawlerTypes, CrawlGet, CrawlerGoto
  <2>3. CASE Pause(e) /\ UNCHANGED visit
    BY <2>3, PauseTypes
  <2>4. CASE /\ CrawlerGoto(e, "etcd") \/ CrawlerGoto(e, "get") \/ CrawlerGoto(e, "unlock")
             /\ UNCHANGED <<sleep, visit>>
    BY <2>4, PollTypeParts DEF CrawlerTypes, CrawlerGoto
  <2> QED
    BY <2>1, <2>2, <2>3, <2>4, Zenon
       DEF Crawler, CrawlLock, CrawlLocked, CrawlLockFails, CrawlProcessed, CrawlUnlock, CrawlSkipped
<1>4. HolderTypes'
  <2>1. CASE CrawlLocked(e) \/ CrawlUnlock(e)
    BY <2>1, HolderStep DEF CrawlLocked, CrawlUnlock, Clients, LockKeys
  <2>2. CASE ~(CrawlLocked(e) \/ CrawlUnlock(e))
    <3>1. UNCHANGED <<holding, valid>>
      BY <2>2, Zenon DEF Crawler, CrawlLock, CrawlLockFails, CrawlGet, CrawlKey, CrawlProcessed, locks
    <3> QED
      BY <3>1, PollTypeParts, Zenon DEF HolderTypes
  <2> QED
    BY <2>1, <2>2
<1>5. CoolTypes'
  <2>1. CASE CrawlLock(e)
    BY <2>1, AttemptTypes DEF CrawlLock, CO!Passes, CO!Refuses, LockKeys
  <2>2. CASE ~CrawlLock(e)
    <3>1. UNCHANGED cool
      BY <2>2, Zenon DEF Crawler, CrawlLocked, CrawlLockFails, CrawlGet, CrawlKey, CrawlProcessed, CrawlUnlock, locks
    <3> QED
      BY <3>1, PollTypeParts, Zenon DEF CoolTypes
  <2> QED
    BY <2>1, <2>2
<1>6. BoundTypes'
  <2>1. Fault \/ UNCHANGED bounds
    BY Zenon DEF Crawler, CrawlLock, CrawlLocked, CrawlLockFails, CrawlGet, CrawlKey, CrawlProcessed, CrawlUnlock
  <2> QED
    BY <2>1, FaultTypes
<1> QED
  BY <1>1, <1>2, <1>3, <1>4, <1>5, <1>6, PollTypePartsNext, Zenon

\* A crash sets what belongs to one engine back to where it started.
LEMMA PollCrashTypes == ASSUME TypeOK, NEW e \in Engines, Crash(e) PROVE TypeOK'
<1>1. StoreTypes' /\ FlagTypes'
  BY PollTypeParts, Zenon DEF StoreTypes, FlagTypes, Crash, store
<1>2. WorkerTypes'
  BY PollTypeParts, PollingAssumption DEF WorkerTypes, Crash, PCs
<1>3. WorkTypes' /\ CrawlerTypes'
  BY PollTypeParts, PollingAssumption DEF WorkTypes, CrawlerTypes, Crash, CrawlerGoto, MaxPause
<1>4. HolderTypes'
  BY PollTypeParts DEF HolderTypes, Crash, LS!ReleaseAll, Clients
<1>5. CoolTypes'
  BY PollTypeParts, PollingAssumption DEF CoolTypes, Crash, CO!Forget, CO!NoEntries
<1>6. BoundTypes'
  BY FaultTypes DEF Crash
<1> QED
  BY <1>1, <1>2, <1>3, <1>4, <1>5, <1>6, PollTypePartsNext, Zenon

\* TypeOK is inductive.
LEMMA PollTypesNext == TypeOK /\ [Next]_vars => TypeOK'
<1> SUFFICES ASSUME TypeOK, [Next]_vars PROVE TypeOK'
  OBVIOUS
<1>1. CASE Tick
  BY <1>1, PollTickTypes
<1>2. CASE ChangePre \/ Expire
  <2>1. FlagTypes'
    BY <1>2, PollTypeParts, Zenon DEF FlagTypes, ChangePre, Expire
  <2>2. WorkTypes' /\ BoundTypes'
    BY <1>2, PollTypeParts, PollingAssumption DEF WorkTypes, BoundTypes, ChangePre, Expire, bounds
  <2>3. StoreTypes' /\ WorkerTypes' /\ CrawlerTypes' /\ HolderTypes' /\ CoolTypes'
    BY <1>2, PollTypeParts, Zenon DEF StoreTypes, WorkerTypes, CrawlerTypes, HolderTypes, CoolTypes,
        ChangePre, Expire, workers, crawlers, locks
  <2> QED
    BY <2>1, <2>2, <2>3, PollTypePartsNext, Zenon
<1>3. CASE \E e \in Engines : WatchEvent(e)
  <2>1. PICK e \in Engines : WatchEvent(e)
    BY <1>3
  <2>2. WorkTypes' /\ BoundTypes'
    BY <2>1, PollTypeParts, DispatchTypes, FaultTypes DEF WorkTypes, WatchEvent
  <2>3. /\ StoreTypes' /\ FlagTypes' /\ WorkerTypes'
        /\ CrawlerTypes' /\ HolderTypes' /\ CoolTypes'
    BY <2>1, PollTypeParts, Zenon DEF StoreTypes, FlagTypes, WorkerTypes, CrawlerTypes, HolderTypes, CoolTypes,
        WatchEvent, store, workers, crawlers, locks
  <2> QED
    BY <2>2, <2>3, PollTypePartsNext, Zenon
<1>4. CASE \E e \in Engines : Crawler(e)
  BY <1>4, PollCrawlerTypes
<1>5. CASE \E e \in Engines : Crash(e)
  BY <1>5, PollCrashTypes
<1>6. CASE \E w \in Workers : Worker(w)
  BY <1>6, PollWorkerTypes
<1>7. CASE UNCHANGED vars
  <2>1. /\ StoreTypes' /\ FlagTypes' /\ WorkerTypes' /\ WorkTypes'
        /\ CrawlerTypes' /\ HolderTypes' /\ CoolTypes' /\ BoundTypes'
    BY <1>7, PollTypeParts, Zenon DEF StoreTypes, FlagTypes, WorkerTypes, WorkTypes, CrawlerTypes,
        HolderTypes, CoolTypes, BoundTypes, vars, store, workers, crawlers, locks, bounds
  <2> QED
    BY <2>1, PollTypePartsNext, Zenon
<1> QED
  BY <1>1, <1>2, <1>3, <1>4, <1>5, <1>6, <1>7, Zenon DEF Next

\* The types and bounds of the polling model hold whatever the TTL, the
\* cool-off, the pauses and the jitter are: workChannel never holds more than
\* its buffer, and no pause, lease or cool-off is negative or longer than the
\* code asks for.
THEOREM PollingTypes == Spec => []TypeOK
<1>1. Init => TypeOK
  <2> SUFFICES ASSUME Init PROVE TypeOK
    OBVIOUS
  <2>1. StoreTypes /\ WorkerTypes /\ WorkTypes /\ CrawlerTypes /\ BoundTypes
    BY PollingAssumption DEF Init, StoreTypes, WorkerTypes, WorkTypes, CrawlerTypes, BoundTypes, PCs, MaxPause
  <2>2. FlagTypes
    BY Zenon DEF Init, FlagTypes
  <2>3. HolderTypes
    BY DEF Init, LS!Init, HolderTypes, Clients
  <2>4. CoolTypes
    BY PollingAssumption DEF Init, CO!Init, CO!NoEntries, CoolTypes
  <2> QED
    BY <2>1, <2>2, <2>3, <2>4, PollTypeParts, Zenon
<1> QED
  BY <1>1, PollTypesNext, PTL DEF Spec
================================================================================
