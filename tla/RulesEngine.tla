------------------------------ MODULE RulesEngine ------------------------------
(***************************************************************************)
(* The pipeline of the engines that share an etcd cluster: watchers and    *)
(* crawlers put keys on the kpChannel of their engine; key workers take    *)
(* them, read the keys of the rules concerned and put the satisfied rules  *)
(* on the workChannel; workers check the rule, lock, check it again, run   *)
(* the callback and unlock.  All of it runs concurrently, with the other   *)
(* engines and with other writers of the store.                            *)
(*                                                                         *)
(* A rule of this module is a static rule: its keys, a predicate on the    *)
(* store, a lock key and what its callback does to the store.  The locker  *)
(* is LockService, which RuleLocker implements.                            *)
(*                                                                         *)
(* Faults (failed reads and calls, lost watch channels, panics, crashes,   *)
(* lapsed leases) may happen at any time, MaxFaults times.                 *)
(***************************************************************************)
EXTENDS Naturals, Sequences

CONSTANTS
    Engines,        \* engine processes
    Workers,        \* v3Workers
    KeyWorkers,     \* goroutines running keyWorker
    EngineOf,       \* the engine of each worker and key worker
    Keys,           \* etcd keys
    PrefixOf,       \* the watched prefix each key is under
    Values,
    Nil,            \* the value of a key that does not exist
    InitialStore,   \* the store when the engines start
    External(_),    \* <<key, value>> writes other programs may do in a store
    Rules,
    RuleKeys(_),            \* staticRule.getKeys
    Satisfied(_, _),        \* staticRule.satisfied, on the values of a store
    CallbackPut(_),         \* the <<key, value>> the rule's callback writes
    LockKey(_),             \* the rule's lock key
    CrawlMutex,     \* the lock key of the crawlers, or NoKey for no mutex
    KPBuffer,       \* capacity of kpChannel
    WorkBuffer,     \* capacity of workChannel
    MaxWrites,      \* bound on External writes
    MaxFaults,      \* bound on faults
    Lapses,         \* whether leases of held locks may lapse
    NoKey, NoRule

Prefixes == {PrefixOf[k] : k \in Keys}
LockKeys == {LockKey(r) : r \in Rules} \cup ({CrawlMutex} \ {NoKey})
Stores == [Keys -> Values \cup {Nil}]

ASSUME RulesEngineAssumption ==
    /\ EngineOf \in [Workers \cup KeyWorkers -> Engines]
    /\ InitialStore \in Stores
    /\ KPBuffer \in Nat \ {0}
    /\ WorkBuffer \in Nat
    /\ MaxWrites \in Nat
    /\ MaxFaults \in Nat
    /\ Lapses \in BOOLEAN
    /\ NoRule \notin Rules
    /\ \A r \in Rules : LockKey(r) # NoKey
    /\ (Workers \cup KeyWorkers) \cap Engines = {}
    /\ \A s \in Stores : External(s) \subseteq Keys \X (Values \cup {Nil})
    /\ \A r \in Rules : CallbackPut(r) \in Keys \X (Values \cup {Nil})

VARIABLES
    store,      \* etcd
    writes,     \* External writes so far
    faults,     \* faults so far
    stream,     \* for each engine and prefix, the watch events not yet received
    event,      \* ... and the key its watcher is submitting, or NoKey
    kp,         \* kpChannel of each engine
    todo,       \* the satisfied rules each key worker has yet to dispatch
    work,       \* workChannel of each engine
    pc, job,    \* where each worker is, and the rule it is working on
    cpc,        \* where each engine's crawler is
    unread,     \* the prefixes it has yet to get in this run
    values,     \* what it has got
    visit,      \* the keys of values it has yet to process
    holding, valid      \* LockService

pipeline == <<stream, event, kp, todo, work>>
workers == <<pc, job>>
crawlers == <<cpc, unread, values, visit>>
locks == <<holding, valid>>
vars == <<store, writes, faults, pipeline, workers, crawlers, locks>>

\* A crawler locks too; it is named after its engine.
LS == INSTANCE LockService WITH Clients <- Workers \cup Engines

Empty == [k \in Keys |-> Nil]

TypeOK ==
    /\ store \in Stores
    /\ writes \in 0 .. MaxWrites
    /\ faults \in 0 .. MaxFaults
    /\ stream \in [Engines -> [Prefixes -> Seq(Keys)]]
    /\ event \in [Engines -> [Prefixes -> Keys \cup {NoKey}]]
    /\ kp \in [Engines -> Seq(Keys)]
    /\ \A e \in Engines : Len(kp[e]) <= KPBuffer
    /\ todo \in [KeyWorkers -> SUBSET Rules]
    /\ work \in [Engines -> Seq(Rules)]
    /\ \A e \in Engines : Len(work[e]) <= WorkBuffer
    /\ pc \in [Workers -> {"idle", "check", "lock", "recheck", "callback", "unlock"}]
    /\ job \in [Workers -> Rules \cup {NoRule}]
    /\ \A w \in Workers : pc[w] = "idle" <=> job[w] = NoRule
    /\ cpc \in [Engines -> {"pause", "query", "process", "unlock"}]
    /\ unread \in [Engines -> SUBSET Prefixes]
    /\ values \in [Engines -> Stores]
    /\ visit \in [Engines -> SUBSET Keys]
    /\ LS!ServiceTypeOK

Init ==
    /\ store = InitialStore
    /\ writes = 0
    /\ faults = 0
    /\ stream = [e \in Engines |-> [p \in Prefixes |-> <<>>]]
    /\ event = [e \in Engines |-> [p \in Prefixes |-> NoKey]]
    /\ kp = [e \in Engines |-> <<>>]
    /\ todo = [q \in KeyWorkers |-> {}]
    /\ work = [e \in Engines |-> <<>>]
    /\ pc = [w \in Workers |-> "idle"]
    /\ job = [w \in Workers |-> NoRule]
    /\ cpc = [e \in Engines |-> "pause"]
    /\ unread = [e \in Engines |-> {}]
    /\ values = [e \in Engines |-> Empty]
    /\ visit = [e \in Engines |-> {}]
    /\ LS!Init

--------------------------------------------------------------------------------
(* The store and its watch streams *)

\* A write is an event for the watcher of every engine; a delete is a write
\* of Nil.
Put(k, v) ==
    /\ store' = [store EXCEPT ![k] = v]
    /\ stream' = [e \in Engines |-> [stream[e] EXCEPT ![PrefixOf[k]] = Append(@, k)]]

\* Another program writes, or a key's lease expires.
ExternalWrite ==
    /\ writes < MaxWrites
    /\ writes' = writes + 1
    /\ \E kv \in External(store) : Put(kv[1], kv[2])
    /\ UNCHANGED <<faults, event, kp, todo, work, workers, crawlers, locks>>

Fault ==
    /\ faults < MaxFaults
    /\ faults' = faults + 1

--------------------------------------------------------------------------------
(* Watchers: watcher.singleRun with etcdV3KeyWatcher.next *)

\* next() returns an event.
WatchNext(e, p) ==
    /\ event[e][p] = NoKey
    /\ stream[e][p] # <<>>
    /\ event' = [event EXCEPT ![e][p] = Head(stream[e][p])]
    /\ stream' = [stream EXCEPT ![e][p] = Tail(@)]
    /\ UNCHANGED <<store, writes, faults, kp, todo, work, workers, crawlers, locks>>

\* next() finds its channel closed: the new one starts at the current
\* revision, and what the old one had not delivered is lost.
WatchReset(e, p) ==
    /\ event[e][p] = NoKey
    /\ Fault
    /\ stream' = [stream EXCEPT ![e][p] = <<>>]
    /\ UNCHANGED <<store, writes, event, kp, todo, work, workers, crawlers, locks>>

\* (Wrong on purpose: the channel takes any number of keys.)
SubmitUnbounded(e, k) == kp' = [kp EXCEPT ![e] = Append(@, k)]

\* processKey blocks until the channel has room.
Submit(e, k) ==
    /\ Len(kp[e]) < KPBuffer
    /\ kp' = [kp EXCEPT ![e] = Append(@, k)]

WatchSubmit(e, p) ==
    /\ event[e][p] # NoKey
    /\ Submit(e, event[e][p])
    /\ event' = [event EXCEPT ![e][p] = NoKey]
    /\ UNCHANGED <<store, writes, faults, stream, todo, work, workers, crawlers, locks>>

--------------------------------------------------------------------------------
(* Key workers: keyWorker, baseKeyProcessor.processKey, dispatchWork *)

\* ruleManager.getStaticRules
RulesFor(k) == {r \in Rules : k \in RuleKeys(r)}

\* Take a key and read, in one transaction, the keys of its rules.
KeyEval(q) ==
    LET e == EngineOf[q] IN
    /\ todo[q] = {}
    /\ kp[e] # <<>>
    /\ kp' = [kp EXCEPT ![e] = Tail(@)]
    /\ \/ /\ todo' = [todo EXCEPT ![q] = {r \in RulesFor(Head(kp[e])) : Satisfied(r, store)}]
          /\ UNCHANGED faults
       \/ Fault /\ UNCHANGED todo
    /\ UNCHANGED <<store, writes, stream, event, work, workers, crawlers, locks>>

Idle(w) == pc[w] = "idle"

StartJob(w, r) ==
    /\ pc' = [pc EXCEPT ![w] = "check"]
    /\ job' = [job EXCEPT ![w] = r]

\* The channel takes the work when it has room for it ...
Dispatch(q) ==
    \E r \in todo[q] :
        /\ Len(work[EngineOf[q]]) < WorkBuffer
        /\ work' = [work EXCEPT ![EngineOf[q]] = Append(@, r)]
        /\ todo' = [todo EXCEPT ![q] = @ \ {r}]
        /\ UNCHANGED <<store, writes, faults, stream, event, kp, workers, crawlers, locks>>

\* ... and when nothing is queued a worker that waits takes it at once.
HandOver(q) ==
    \E r \in todo[q], w \in Workers :
        /\ EngineOf[w] = EngineOf[q] /\ Idle(w)
        /\ work[EngineOf[q]] = <<>>
        /\ StartJob(w, r)
        /\ todo' = [todo EXCEPT ![q] = @ \ {r}]
        /\ UNCHANGED <<store, writes, faults, stream, event, kp, work, crawlers, locks>>

--------------------------------------------------------------------------------
(* Workers: v3Worker.singleRun, baseWorker.doWork *)

Receive(w) ==
    LET e == EngineOf[w] IN
    /\ Idle(w)
    /\ work[e] # <<>>
    /\ StartJob(w, Head(work[e]))
    /\ work' = [work EXCEPT ![e] = Tail(@)]
    /\ UNCHANGED <<store, writes, faults, stream, event, kp, todo, crawlers, locks>>

EndJob(w) ==
    /\ pc' = [pc EXCEPT ![w] = "idle"]
    /\ job' = [job EXCEPT ![w] = NoRule]

Goto(w, p) ==
    /\ pc' = [pc EXCEPT ![w] = p]
    /\ UNCHANGED job

\* The first check: work that is no longer satisfied is dropped, and so is
\* work whose keys cannot be read.
Check(w) ==
    /\ pc[w] = "check"
    /\ \/ Satisfied(job[w], store) /\ Goto(w, "lock") /\ UNCHANGED faults
       \/ ~ Satisfied(job[w], store) /\ EndJob(w) /\ UNCHANGED faults
       \/ Fault /\ EndJob(w)
    /\ UNCHANGED <<store, writes, pipeline, crawlers, locks>>

\* (Wrong on purpose: the error of Lock is ignored.)
LockErrorIgnored(w) ==
    /\ pc[w] = "lock"
    /\ holding' = [holding EXCEPT ![w] = LockKey(job[w])]
    /\ valid' = valid \cup {w}
    /\ Goto(w, "recheck")
    /\ UNCHANGED <<store, writes, faults, pipeline, crawlers>>

\* The locker gives the lock: nobody else holds it, or no longer validly.
Lock(w) ==
    /\ pc[w] = "lock"
    /\ LS!Acquire(w, LockKey(job[w]))
    /\ Goto(w, "recheck")
    /\ UNCHANGED <<store, writes, faults, pipeline, crawlers>>

\* The lock is taken, locally or in etcd, or the call fails: the work is
\* dropped.
LockFails(w) ==
    /\ pc[w] = "lock"
    /\ \/ ~ LS!Free(LockKey(job[w])) /\ UNCHANGED faults
       \/ Fault
    /\ EndJob(w)
    /\ UNCHANGED <<store, writes, pipeline, crawlers, locks>>

\* (Wrong on purpose: no second check ...)
RecheckSkipped(w) ==
    /\ pc[w] = "recheck"
    /\ Goto(w, "callback")
    /\ UNCHANGED <<store, writes, faults, pipeline, crawlers, locks>>

\* (... and a second check that returns without unlocking when a read fails.)
RecheckWithoutUnlock(w) ==
    /\ pc[w] = "recheck"
    /\ \/ Satisfied(job[w], store) /\ Goto(w, "callback") /\ UNCHANGED faults
       \/ ~ Satisfied(job[w], store) /\ Goto(w, "unlock") /\ UNCHANGED faults
       \/ Fault /\ EndJob(w)
    /\ UNCHANGED <<store, writes, pipeline, crawlers, locks>>

\* "Check for a second time, since checking and locking are not atomic."
Recheck(w) ==
    /\ pc[w] = "recheck"
    /\ \/ Satisfied(job[w], store) /\ Goto(w, "callback") /\ UNCHANGED faults
       \/ ~ Satisfied(job[w], store) /\ Goto(w, "unlock") /\ UNCHANGED faults
       \/ Fault /\ Goto(w, "unlock")
    /\ UNCHANGED <<store, writes, pipeline, crawlers, locks>>

\* (Wrong on purpose: a callback that has written is called again.)
CallbackRetried(w) ==
    /\ pc[w] = "callback"
    /\ Put(CallbackPut(job[w])[1], CallbackPut(job[w])[2])
    /\ Goto(w, "callback") \/ Goto(w, "unlock")
    /\ UNCHANGED <<writes, faults, event, kp, todo, work, crawlers, locks>>

\* The callback writes, or fails or panics before it does.
CallbackReturns(w) ==
    /\ pc[w] = "callback"
    /\ \/ Put(CallbackPut(job[w])[1], CallbackPut(job[w])[2]) /\ UNCHANGED faults
       \/ Fault /\ UNCHANGED <<store, stream>>
    /\ Goto(w, "unlock")
    /\ UNCHANGED <<writes, event, kp, todo, work, crawlers, locks>>

\* The deferred Unlock, on every path out of doWork.
Unlock(w) ==
    /\ pc[w] = "unlock"
    /\ LS!Release(w)
    /\ EndJob(w)
    /\ UNCHANGED <<store, writes, faults, pipeline, crawlers>>

--------------------------------------------------------------------------------
(* Crawlers: intCrawler.run, singleRun, processData *)

\* (Wrong on purpose: the error of the mutex is ignored.)
CrawlStartAnyway(e) ==
    /\ cpc[e] = "pause"
    /\ holding' = [holding EXCEPT ![e] = CrawlMutex]
    /\ valid' = valid \cup {e}
    /\ cpc' = [cpc EXCEPT ![e] = "query"]
    /\ unread' = [unread EXCEPT ![e] = Prefixes]
    /\ UNCHANGED <<store, writes, faults, pipeline, workers, values, visit>>

\* A run starts when the pause is over and the mutex, if any, is obtained; a
\* run that cannot get the mutex is skipped.
CrawlStart(e) ==
    /\ cpc[e] = "pause"
    /\ IF CrawlMutex = NoKey THEN UNCHANGED locks ELSE LS!Acquire(e, CrawlMutex)
    /\ cpc' = [cpc EXCEPT ![e] = "query"]
    /\ unread' = [unread EXCEPT ![e] = Prefixes]
    /\ UNCHANGED <<store, writes, faults, pipeline, workers, values, visit>>

\* One Get per prefix: what values holds in the end was never the store.
CrawlGet(e) ==
    /\ cpc[e] = "query"
    /\ \E p \in unread[e] :
        /\ values' = [values EXCEPT ![e] = [k \in Keys |-> IF PrefixOf[k] = p THEN store[k] ELSE @[k]]]
        /\ unread' = [unread EXCEPT ![e] = @ \ {p}]
        /\ IF unread'[e] = {}
           THEN /\ cpc' = [cpc EXCEPT ![e] = "process"]
                /\ visit' = [visit EXCEPT ![e] = {k \in Keys : values'[e][k] # Nil}]
           ELSE UNCHANGED <<cpc, visit>>
    /\ UNCHANGED <<store, writes, faults, pipeline, workers, locks>>

\* A Get fails: the run is over.
CrawlGetFails(e) ==
    /\ cpc[e] = "query"
    /\ Fault
    /\ cpc' = [cpc EXCEPT ![e] = "unlock"]
    /\ unread' = [unread EXCEPT ![e] = {}]
    /\ UNCHANGED <<store, writes, pipeline, workers, values, visit, locks>>

\* (Wrong on purpose: a key is work only if every rule of it is satisfied.)
IsWorkForAll(e, k) == \A r \in RulesFor(k) : Satisfied(r, values[e])

\* baseKeyProcessor.isWork, on the crawler's values
IsWork(e, k) == \E r \in RulesFor(k) : Satisfied(r, values[e])

\* (Wrong on purpose: only a key that is submitted is done with.)
CrawlKeyKept(e) ==
    /\ cpc[e] = "process"
    /\ \E k \in visit[e] :
        IF IsWork(e, k) THEN Submit(e, k) /\ visit' = [visit EXCEPT ![e] = @ \ {k}]
                        ELSE UNCHANGED <<kp, visit>>
    /\ UNCHANGED <<store, writes, faults, stream, event, todo, work, workers, cpc, unread, values, locks>>

\* Keys of satisfied rules are submitted, the others passed over.
CrawlKey(e) ==
    /\ cpc[e] = "process"
    /\ \E k \in visit[e] :
        /\ IF IsWork(e, k) THEN Submit(e, k) ELSE UNCHANGED kp
        /\ visit' = [visit EXCEPT ![e] = @ \ {k}]
    /\ UNCHANGED <<store, writes, faults, stream, event, todo, work, workers, cpc, unread, values, locks>>

CrawlProcessed(e) ==
    /\ cpc[e] = "process"
    /\ visit[e] = {}
    /\ cpc' = [cpc EXCEPT ![e] = "unlock"]
    /\ UNCHANGED <<store, writes, faults, pipeline, workers, unread, values, visit, locks>>

\* The end of a run, after which the crawler pauses.
CrawlEnd(e) ==
    /\ cpc[e] = "unlock"
    /\ IF CrawlMutex = NoKey THEN UNCHANGED locks ELSE LS!Release(e)
    /\ cpc' = [cpc EXCEPT ![e] = "pause"]
    /\ values' = [values EXCEPT ![e] = Empty]
    /\ UNCHANGED <<store, writes, faults, pipeline, workers, unread, visit>>

--------------------------------------------------------------------------------
\* The engine's process dies with everything in memory, and starts again: its
\* watchers see only what is written from now on.
Crash(e) ==
    LET mine == {g \in Workers \cup KeyWorkers : EngineOf[g] = e}
        Reset(f, v) == [g \in DOMAIN f |-> IF g \in mine \cup {e} THEN v ELSE f[g]]
    IN  /\ Fault
        /\ stream' = Reset(stream, [p \in Prefixes |-> <<>>])
        /\ event' = Reset(event, [p \in Prefixes |-> NoKey])
        /\ kp' = Reset(kp, <<>>)
        /\ todo' = Reset(todo, {})
        /\ work' = Reset(work, <<>>)
        /\ pc' = Reset(pc, "idle")
        /\ job' = Reset(job, NoRule)
        /\ cpc' = Reset(cpc, "pause")
        /\ unread' = Reset(unread, {})
        /\ values' = Reset(values, Empty)
        /\ visit' = Reset(visit, {})
        /\ LS!ReleaseAll((mine \cap Workers) \cup {e})
        /\ UNCHANGED <<store, writes>>

\* The lease under a held lock lapses; its holder does not notice.
Lapse(c) ==
    /\ Lapses
    /\ Fault
    /\ LS!Lapse({c})
    /\ UNCHANGED <<store, writes, pipeline, workers, crawlers>>

Watcher(e, p) == WatchNext(e, p) \/ WatchSubmit(e, p) \/ WatchReset(e, p)

KeyWorker(q) == KeyEval(q) \/ Dispatch(q) \/ HandOver(q)

Worker(w) ==
    \/ Receive(w) \/ Check(w) \/ Lock(w) \/ LockFails(w)
    \/ Recheck(w) \/ CallbackReturns(w) \/ Unlock(w)

Crawler(e) ==
    \/ CrawlStart(e) \/ CrawlGet(e) \/ CrawlGetFails(e)
    \/ CrawlKey(e) \/ CrawlProcessed(e) \/ CrawlEnd(e)

Next ==
    \/ ExternalWrite
    \/ \E e \in Engines, p \in Prefixes : Watcher(e, p)
    \/ \E q \in KeyWorkers : KeyWorker(q)
    \/ \E w \in Workers : Worker(w)
    \/ \E e \in Engines : Crawler(e) \/ Crash(e)
    \/ \E c \in Workers \cup Engines : Lapse(c)

Spec == Init /\ [][Next]_vars

\* Every goroutine that can go on does, callbacks end, and the Go runtime
\* serves the senders blocked on a channel in order.  Faults, crashes and
\* writes need not happen.
Fairness ==
    /\ \A e \in Engines, p \in Prefixes :
        WF_vars(WatchNext(e, p)) /\ SF_vars(WatchSubmit(e, p))
    /\ \A q \in KeyWorkers : WF_vars(KeyEval(q)) /\ SF_vars(Dispatch(q) \/ HandOver(q))
    /\ \A w \in Workers : WF_vars(Worker(w))
    /\ \A e \in Engines :
        /\ WF_vars(CrawlStart(e) \/ CrawlGet(e) \/ CrawlProcessed(e) \/ CrawlEnd(e))
        /\ SF_vars(CrawlKey(e))

FairSpec == Spec /\ Fairness

\* The rules whose callbacks are running, and the engines as seen from the
\* store.
Running == {job[w] : w \in {w \in Workers : pc[w] = "callback"}}
GR == INSTANCE GuardedRules WITH running <- Running

--------------------------------------------------------------------------------
(* Properties *)

Write(s, kv) == [s EXCEPT ![kv[1]] = kv[2]]

\* What CallbackJustified asks of the rules: other programs and the callbacks
\* under other locks leave a satisfied rule satisfied.
NoInterference ==
    /\ \A s \in Stores : \A kv \in External(s) : \A r \in Rules :
        Satisfied(r, s) => Satisfied(r, Write(s, kv))
    /\ \A q, r \in Rules : LockKey(q) # LockKey(r) =>
        \A s \in Stores : Satisfied(q, s) /\ Satisfied(r, s) => Satisfied(r, Write(s, CallbackPut(q)))

\* A callback runs only while its rule is satisfied, so that one enabling of
\* a rule is served once, however often watchers and crawlers of however many
\* engines have queued it: what the second check in doWork is for.  (If
\* NoInterference holds and leases do not lapse.)
CallbackJustified ==
    \A w \in Workers : pc[w] = "callback" => Satisfied(job[w], store)

\* Callbacks under one lock never overlap, in one engine or in two, as long as
\* the leases behind their locks are alive.
CallbacksExclusive ==
    \A v, w \in valid \cap Workers :
        v # w /\ pc[v] = "callback" /\ pc[w] = "callback" => LockKey(job[v]) # LockKey(job[w])

\* Seen from the store, the engines execute the rules as guarded commands: a
\* callback begins only while its rule is satisfied and no other runs under
\* its lock, and the rule is still satisfied when it writes.  (If
\* NoInterference holds and leases do not lapse.)
RulesAreGuarded == GR!Spec

\* A crawler holds the crawlers' mutex, if there is one, during its run and
\* only then, so the crawlers of two engines do not run at the same time as
\* long as the leases behind their locks are alive.
CrawlersExclusive ==
    /\ \A e \in Engines : holding[e] = IF cpc[e] = "pause" THEN NoKey ELSE CrawlMutex
    /\ CrawlMutex # NoKey =>
        \A d, e \in valid \cap Engines : cpc[d] # "pause" /\ cpc[e] # "pause" => d = e

\* A worker holds the lock of its rule from the second check to the end of
\* its job and no other lock at any time, whatever failed in between.
LockedWhileWorking ==
    \A w \in Workers :
        holding[w] = IF pc[w] \in {"recheck", "callback", "unlock"} THEN LockKey(job[w]) ELSE NoKey

\* A satisfied rule is served in the end, although events, work and whole
\* engines get lost: what the crawler is for.
Served ==
    \A r \in Rules : Satisfied(r, store) ~> ~ Satisfied(r, store)

\* A crawler's run ends, although the channel it submits to may be full.
CrawlEnds ==
    \A e \in Engines : (cpc[e] = "process") ~> (cpc[e] = "pause")
================================================================================
