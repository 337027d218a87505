--------------------------- MODULE EngineTypeProofs ---------------------------
(***************************************************************************)
(* TypeOK of RulesEngine, the capacities of the channels included, for any *)
(* engines, keys and rules.                                                *)
(***************************************************************************)
EXTENDS RulesEngineProofs

StoreTypes == store \in Stores /\ writes \in 0 .. MaxWrites /\ faults \in 0 .. MaxFaults

StreamTypes ==
    /\ stream \in [Engines -> [Prefixes -> Seq(Keys)]]
    /\ event \in [Engines -> [Prefixes -> Keys \cup {NoKey}]]

ChannelTypes ==
    /\ kp \in [Engines -> Seq(Keys)]
    /\ \A e \in Engines : Len(kp[e]) <= KPBuffer
    /\ \A e \in Engines : Len(work[e]) <= WorkBuffer

JobTypes == \A w \in Workers : pc[w] = "idle" <=> job[w] = NoRule

CrawlTypes ==
    /\ cpc \in [Engines -> {"pause", "query", "process", "unlock"}]
    /\ unread \in [Engines -> SUBSET Prefixes]
    /\ values \in [Engines -> Stores]
    /\ visit \in [Engines -> SUBSET Keys]

TypeInv ==
    EngineInv /\ WorkTypes /\ StoreTypes /\ StreamTypes /\ ChannelTypes /\ JobTypes /\ CrawlTypes

\* TypeInv says what TypeOK says.
LEMMA TypeInvTypeOK == TypeInv => TypeOK
<1> SUFFICES ASSUME TypeInv PROVE TypeOK
  OBVIOUS
<1>1. LS!ServiceTypeOK
  BY DEF TypeInv, EngineInv, WorkerTypes, Clients, LS!ServiceTypeOK
<1> QED
  BY <1>1 DEF TypeInv, EngineInv, WorkTypes, WorkerTypes, WorkerPCs, StoreTypes, StreamTypes, ChannelTypes,
              JobTypes, CrawlTypes, TypeOK

\* Everything is empty at first.
LEMMA TypeInit == Init => TypeInv
<1> SUFFICES ASSUME Init PROVE TypeInv
  OBVIOUS
<1> USE RulesEngineAssumption
<1>1. StoreTypes
  BY DEF Init, StoreTypes
<1>2. StreamTypes
  BY DEF Init, StreamTypes
<1>3. ChannelTypes /\ WorkTypes
  BY DEF Init, ChannelTypes, WorkTypes
<1>4. JobTypes
  BY DEF Init, JobTypes
<1>5. CrawlTypes
  BY DEF Init, CrawlTypes, Empty, Stores
<1> QED
  BY <1>1, <1>2, <1>3, <1>4, <1>5, EngineInit DEF TypeInv

\* A write of a value to a key.
LEMMA PutTypes ==
    ASSUME TypeInv, NEW kv \in Keys \X (Values \cup {Nil}), Put(kv[1], kv[2])
    PROVE  store' \in Stores /\ stream' \in [Engines -> [Prefixes -> Seq(Keys)]]
<1>1. PICK k \in Keys, v \in Values \cup {Nil} : k = kv[1] /\ v = kv[2]
  OBVIOUS
<1>2. store' \in Stores
  BY <1>1 DEF TypeInv, StoreTypes, Put, Stores
<1>3. ASSUME NEW e \in Engines
      PROVE  [stream[e] EXCEPT ![PrefixOf[k]] = Append(@, k)] \in [Prefixes -> Seq(Keys)]
  <2>1. PICK p \in Prefixes : p = PrefixOf[k]
    BY DEF Prefixes
  <2>2. PICK f \in [Prefixes -> Seq(Keys)] : f = stream[e]
    BY DEF TypeInv, StreamTypes
  <2>3. Append(f[p], k) \in Seq(Keys)
    OBVIOUS
  <2> QED
    BY <2>1, <2>2, <2>3
<1> QED
  BY <1>1, <1>2, <1>3 DEF Put

\* The store, and the counts of writes and faults.
LEMMA StoreStep == ASSUME TypeInv, [Next]_vars PROVE StoreTypes'
<1> USE RulesEngineAssumption
<1>1. ASSUME Fault PROVE faults' \in 0 .. MaxFaults
  BY <1>1 DEF TypeInv, StoreTypes, Fault
<1>2. CASE ExternalWrite
  <2>1. PICK kv \in External(store) : Put(kv[1], kv[2])
    BY <1>2 DEF ExternalWrite
  <2>2. kv \in Keys \X (Values \cup {Nil})
    BY <2>1 DEF TypeInv, StoreTypes
  <2> QED
    BY <1>2, <2>1, <2>2, PutTypes DEF ExternalWrite, TypeInv, StoreTypes
<1>3. ASSUME NEW w \in Workers, CallbackReturns(w) PROVE StoreTypes'
  <2>1. job[w] \in Rules
    BY <1>3 DEF TypeInv, EngineInv, WorkerTypes, CallbackReturns
  <2> QED
    BY <1>1, <1>3, <2>1, PutTypes DEF CallbackReturns, TypeInv, StoreTypes
<1>4. CASE UNCHANGED <<store, writes>> /\ (Fault \/ UNCHANGED faults)
  BY <1>1, <1>4 DEF TypeInv, StoreTypes
<1> QED
  BY <1>2, <1>3, <1>4, Zenon DEF Next, Watcher, WatchNext, WatchReset, WatchSubmit, KeyWorker, KeyEval, Dispatch, HandOver,
      Worker, Receive, Check, Lock, LockFails, Recheck, Unlock, Crawler, CrawlStart, CrawlGet, CrawlGetFails,
      CrawlKey, CrawlProcessed, CrawlEnd, Crash, Lapse, vars

\* What watchers have received and what they have not.
LEMMA StreamStep == ASSUME TypeInv, [Next]_vars PROVE StreamTypes'
<1> USE RulesEngineAssumption
<1>1. ASSUME NEW kv \in Keys \X (Values \cup {Nil}), Put(kv[1], kv[2]), UNCHANGED event
      PROVE  StreamTypes'
  BY <1>1, PutTypes DEF TypeInv, StreamTypes
<1>2. CASE ExternalWrite
  BY <1>1, <1>2 DEF ExternalWrite, TypeInv, StoreTypes
<1>3. ASSUME NEW w \in Workers, CallbackReturns(w) PROVE StreamTypes'
  <2>1. job[w] \in Rules
    BY <1>3 DEF TypeInv, EngineInv, WorkerTypes, CallbackReturns
  <2> QED
    BY <1>1, <1>3, <2>1, Zenon DEF CallbackReturns, TypeInv, StreamTypes
<1>4. ASSUME NEW e \in Engines, NEW p \in Prefixes, Watcher(e, p) PROVE StreamTypes'
  <2>1. stream[e][p] \in Seq(Keys)
    BY DEF TypeInv, StreamTypes
  <2>2. CASE WatchNext(e, p)
    <3>1. Head(stream[e][p]) \in Keys /\ Tail(stream[e][p]) \in Seq(Keys)
      BY <2>1, <2>2 DEF WatchNext
    <3> QED
      BY <2>2, <3>1 DEF WatchNext, TypeInv, StreamTypes
  <2>3. CASE WatchReset(e, p)
    BY <2>3 DEF WatchReset, TypeInv, StreamTypes
  <2>4. CASE WatchSubmit(e, p)
    BY <2>4 DEF WatchSubmit, TypeInv, StreamTypes
  <2> QED
    BY <1>4, <2>2, <2>3, <2>4 DEF Watcher
<1>5. ASSUME NEW e \in Engines, Crash(e) PROVE StreamTypes'
  BY <1>5 DEF Crash, TypeInv, StreamTypes
<1>6. CASE UNCHANGED <<stream, event>>
  BY <1>6 DEF TypeInv, StreamTypes
<1> QED
  BY <1>2, <1>3, <1>4, <1>5, <1>6, Zenon DEF Next, KeyWorker, KeyEval, Dispatch, HandOver,
      Worker, Receive, Check, Lock, LockFails, Recheck, Unlock, Crawler, CrawlStart, CrawlGet, CrawlGetFails,
      CrawlKey, CrawlProcessed, CrawlEnd, Lapse, pipeline, vars

\* The channels hold what they hold and no more than they have room for.
LEMMA ChannelStep == ASSUME TypeInv, [Next]_vars PROVE ChannelTypes'
<1> USE RulesEngineAssumption
<1>1. ASSUME NEW e \in Engines, NEW k \in Keys, Submit(e, k), UNCHANGED work PROVE ChannelTypes'
  BY <1>1 DEF Submit, TypeInv, ChannelTypes
<1>2. ASSUME NEW e \in Engines, NEW p \in Prefixes, WatchSubmit(e, p) PROVE ChannelTypes'
  <2>1. event[e][p] \in Keys
    BY <1>2 DEF WatchSubmit, TypeInv, StreamTypes
  <2> QED
    BY <1>1, <1>2, <2>1 DEF WatchSubmit
<1>3. ASSUME NEW e \in Engines, CrawlKey(e) PROVE ChannelTypes'
  <2>1. PICK k \in Keys : Submit(e, k) \/ UNCHANGED kp
    BY <1>3 DEF CrawlKey, TypeInv, CrawlTypes
  <2>2. UNCHANGED work
    BY <1>3 DEF CrawlKey
  <2> QED
    BY <1>1, <2>1, <2>2 DEF TypeInv, ChannelTypes
<1>4. ASSUME NEW q \in KeyWorkers, KeyEval(q) PROVE ChannelTypes'
  <2>1. EngineOf[q] \in Engines
    OBVIOUS
  <2>2. kp' = [kp EXCEPT ![EngineOf[q]] = Tail(@)] /\ kp[EngineOf[q]] # <<>> /\ UNCHANGED work
    BY <1>4 DEF KeyEval
  <2> QED
    BY <2>1, <2>2 DEF TypeInv, ChannelTypes
<1>5. ASSUME NEW q \in KeyWorkers, Dispatch(q) PROVE ChannelTypes'
  <2>1. EngineOf[q] \in Engines
    OBVIOUS
  <2>2. PICK r \in Rules : /\ Len(work[EngineOf[q]]) < WorkBuffer
                          /\ work' = [work EXCEPT ![EngineOf[q]] = Append(@, r)]
    BY <1>5, Zenon DEF Dispatch, TypeInv, WorkTypes
  <2>3. UNCHANGED kp
    BY <1>5 DEF Dispatch
  <2> QED
    BY <2>1, <2>2, <2>3 DEF TypeInv, ChannelTypes, WorkTypes
<1>6. ASSUME NEW w \in Workers, Receive(w) PROVE ChannelTypes'
  <2>1. EngineOf[w] \in Engines
    OBVIOUS
  <2>2. /\ work[EngineOf[w]] # <<>> /\ UNCHANGED kp
        /\ work' = [work EXCEPT ![EngineOf[w]] = Tail(@)]
    BY <1>6 DEF Receive
  <2> QED
    BY <2>1, <2>2 DEF TypeInv, ChannelTypes, WorkTypes
<1>7. ASSUME NEW e \in Engines, Crash(e) PROVE ChannelTypes'
  BY <1>7 DEF Crash, TypeInv, ChannelTypes, WorkTypes
<1>8. CASE UNCHANGED <<kp, work>>
  BY <1>8 DEF TypeInv, ChannelTypes
<1> QED
  BY <1>2, <1>3, <1>4, <1>5, <1>6, <1>7, <1>8, Zenon DEF Next, ExternalWrite, Watcher, WatchNext, WatchReset,
      KeyWorker, HandOver, Worker, Check, Lock, LockFails, Recheck, CallbackReturns, Unlock, Crawler, CrawlStart,
      CrawlGet, CrawlGetFails, CrawlProcessed, CrawlEnd, Lapse, pipeline, vars

\* A worker has a job exactly when it is not idle.
LEMMA JobTypesStep == ASSUME TypeInv, [Next]_vars PROVE JobTypes'
<1>1. ASSUME NEW w \in Workers,
             \/ EndJob(w)
             \/ \E r \in Rules : StartJob(w, r)
             \/ \E p \in WorkerPCs \ {"idle"} : pc[w] # "idle" /\ Goto(w, p)
      PROVE  JobTypes'
  BY <1>1, RulesEngineAssumption DEF TypeInv, EngineInv, WorkerTypes, JobTypes, EndJob, StartJob, Goto
<1>2. ASSUME NEW w \in Workers, Worker(w) PROVE JobTypes'
  <2>1. CASE Receive(w)
    <3>1. Head(work[EngineOf[w]]) \in Rules
      BY <2>1, RulesEngineAssumption DEF Receive, TypeInv, WorkTypes
    <3> QED
      BY <1>1, <2>1, <3>1 DEF Receive
  <2>2. CASE Check(w) \/ Lock(w) \/ LockFails(w) \/ Recheck(w) \/ CallbackReturns(w) \/ Unlock(w)
    BY <1>1, <2>2 DEF Check, Lock, LockFails, Recheck, CallbackReturns, Unlock, WorkerPCs
  <2> QED
    BY <1>2, <2>1, <2>2 DEF Worker
<1>3. ASSUME NEW q \in KeyWorkers, HandOver(q) PROVE JobTypes'
  BY <1>1, <1>3, SMTT(60) DEF HandOver, TypeInv, WorkTypes
<1>4. ASSUME NEW e \in Engines, Crash(e) PROVE JobTypes'
  BY <1>4 DEF Crash, TypeInv, EngineInv, WorkerTypes, JobTypes
<1>5. CASE UNCHANGED workers
  BY <1>5 DEF TypeInv, JobTypes, workers
<1> QED
  BY <1>2, <1>3, <1>4, <1>5, Zenon DEF Next, ExternalWrite, Watcher, WatchNext, WatchReset, WatchSubmit, KeyWorker,
      KeyEval, Dispatch, Crawler, CrawlStart, CrawlGet, CrawlGetFails, CrawlKey, CrawlProcessed, CrawlEnd,
      Lapse, vars

\* What a crawler has read and has yet to visit.
LEMMA CrawlTypesStep == ASSUME TypeInv, [Next]_vars PROVE CrawlTypes'
<1>1. ASSUME NEW e \in Engines, CrawlGet(e) PROVE CrawlTypes'
  <2>1. PICK p \in unread[e] :
          /\ values' = [values EXCEPT ![e] = [k \in Keys |-> IF PrefixOf[k] = p THEN store[k] ELSE @[k]]]
          /\ unread' = [unread EXCEPT ![e] = @ \ {p}]
          /\ \/ /\ cpc' = [cpc EXCEPT ![e] = "process"]
                /\ visit' = [visit EXCEPT ![e] = {k \in Keys : values'[e][k] # Nil}]
             \/ UNCHANGED <<cpc, visit>>
    BY <1>1, Zenon DEF CrawlGet
  <2>2. [k \in Keys |-> IF PrefixOf[k] = p THEN store[k] ELSE values[e][k]] \in Stores
    BY DEF TypeInv, CrawlTypes, StoreTypes, Stores
  <2>3. values' \in [Engines -> Stores]
    BY <2>1, <2>2 DEF TypeInv, CrawlTypes
  <2>4. unread' \in [Engines -> SUBSET Prefixes]
    BY <2>1 DEF TypeInv, CrawlTypes
  <2>5. visit' \in [Engines -> SUBSET Keys] /\ cpc' \in [Engines -> {"pause", "query", "process", "unlock"}]
    BY <2>1, Zenon DEF TypeInv, CrawlTypes
  <2> QED
    BY <2>3, <2>4, <2>5 DEF CrawlTypes
<1>2. Empty \in Stores
  BY DEF Empty, Stores
<1>3. ASSUME NEW e \in Engines, CrawlEnd(e) \/ Crash(e) PROVE CrawlTypes'
  <2>1. CASE CrawlEnd(e)
    BY <1>2, <2>1 DEF CrawlEnd, TypeInv, CrawlTypes
  <2>2. CASE Crash(e)
    BY <1>2, <2>2 DEF Crash, TypeInv, CrawlTypes
  <2> QED
    BY <1>3, <2>1, <2>2
<1>4. ASSUME NEW e \in Engines, CrawlStart(e) \/ CrawlGetFails(e) \/ CrawlKey(e) \/ CrawlProcessed(e)
      PROVE  CrawlTypes'
  BY <1>4 DEF CrawlStart, CrawlGetFails, CrawlKey, CrawlProcessed, TypeInv, CrawlTypes
<1>5. CASE UNCHANGED crawlers
  BY <1>5 DEF TypeInv, CrawlTypes, crawlers
<1> QED
  BY <1>1, <1>3, <1>4, <1>5, Zenon DEF Next, ExternalWrite, Watcher, WatchNext, WatchReset, WatchSubmit, KeyWorker,
      KeyEval, Dispatch, HandOver, Worker, Receive, Check, Lock, LockFails, Recheck, CallbackReturns, Unlock,
      Crawler, Lapse, vars

\* Every variable of the pipeline keeps its type, and no channel of an engine
\* ever holds more than its capacity.
THEOREM EngineTypes == Spec => []TypeOK
<1>1. TypeInv /\ [Next]_vars => TypeInv'
  BY EngineNext, StoreStep, StreamStep, ChannelStep, JobTypesStep, CrawlTypesStep DEF TypeInv
<1> QED
  BY <1>1, TypeInit, TypeInvTypeOK, PTL DEF Spec
===============================================================================
