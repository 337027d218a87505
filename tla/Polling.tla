-------------------------------- MODULE Polling --------------------------------
(***************************************************************************)
(* A polling rule (v3Engine.AddPolling) over time: its callback runs when  *)
(* the preconditions hold and the TTL key is not there, and then the TTL   *)
(* key is put under a new lease, so that the callback runs again when the  *)
(* lease has run out.  Engines share the rule, each with a crawler and     *)
(* workers behind the lock stack: a cool-off locker of its own around a    *)
(* lock service (LockService, which RuleLocker implements).                *)
(*                                                                         *)
(* A tick is a second.  Clocks are not modelled: what counts is the time   *)
(* that is left of a lease, a cool-off or a pause.  Any step may take any  *)
(* time.  The leases behind the locks do not lapse here, and nobody else   *)
(* writes the TTL key.  RulesEngine has the pipeline between watchers,     *)
(* crawlers and workers in full; here it is a channel of work.             *)
(***************************************************************************)
EXTENDS Naturals

CONSTANTS
    Engines,
    Workers,        \* worker goroutines
    EngineOf,       \* the engine of each worker
    CoolOff,        \* opts.lockCoolOff, 0 for none
    SyncInterval,   \* the base of opts.syncInterval
    JitterPercent,  \* 100 * syncJitterPercent
    TTL,            \* the ttl of AddPolling
    PreKeys,        \* how many keys make the preconditions hold
    WorkBuffer,     \* capacity of workChannel, with what its senders hold
    RuleLock,       \* the rule's lock key
    CrawlMutex,     \* the crawler's, "/crawler/" + *opts.crawlMutex
    NoKey,
    MaxFaults,      \* bound on crashes, lost events and failed calls
    MaxWrites       \* bound on the changes of the preconditions

LockKeys == {RuleLock, CrawlMutex}

ASSUME PollingAssumption ==
    /\ EngineOf \in [Workers -> Engines]
    /\ Workers \cap Engines = {}
    /\ CoolOff \in Nat /\ SyncInterval \in Nat /\ JitterPercent \in 0 .. 100
    /\ TTL \in Nat \ {0} /\ PreKeys \in Nat \ {0} /\ WorkBuffer \in Nat \ {0}
    /\ RuleLock # CrawlMutex /\ NoKey \notin LockKeys
    /\ MaxFaults \in Nat /\ MaxWrites \in Nat

VARIABLES
    pre,        \* the preconditions hold
    ttlKey,     \* the TTL key is there
    ttlLeft,    \* what is left of its lease: at 0 etcd may expire it
    due,        \* what is left of the TTLs of the polls that succeeded
    granted,    \* what is left of the lease each worker was granted
    event,      \* engines whose watchers have not seen the last change yet
    work,       \* len(workChannel) of each engine
    pc,         \* where each worker is in doWork and doRule
    cpc,        \* where each crawler is
    sleep,      \* what is left of each crawler's pause
    visit,      \* how many keys of the rule it has yet to process
    holding,    \* the locks, of LockService
    valid,
    cool,       \* the cool-offs, of CoolOffLocker
    faults, writes

store == <<pre, ttlKey, ttlLeft, due>>
workers == <<pc, granted>>
crawlers == <<cpc, sleep, visit>>
locks == <<holding, valid, cool>>
bounds == <<faults, writes>>
vars == <<store, workers, event, work, crawlers, locks, bounds>>

LS == INSTANCE LockService WITH Clients <- Workers \cup Engines
CO == INSTANCE CoolOffLocker

--------------------------------------------------------------------------------
(* Durations *)

CeilDiv(x, d) == (x + d - 1) \div d

\* int(DurationGenerator.Generate().Seconds()): base - base * p inclusive to
\* base + base * p exclusive, cut to seconds.
Pauses ==
    IF SyncInterval * JitterPercent = 0
    THEN {SyncInterval}
    ELSE (SyncInterval * (100 - JitterPercent)) \div 100
            .. CeilDiv(SyncInterval * (100 + JitterPercent), 100) - 1

MaxPause == 2 * SyncInterval

Less(n) == IF n = 0 THEN 0 ELSE n - 1
Longer(m, n) == IF m < n THEN n ELSE m

TypeOK ==
    /\ pre \in BOOLEAN /\ ttlKey \in BOOLEAN
    /\ ttlLeft \in 0 .. TTL /\ due \in 0 .. TTL
    /\ granted \in [Workers -> 0 .. TTL]
    /\ event \in SUBSET Engines
    /\ work \in [Engines -> 0 .. WorkBuffer]
    /\ pc \in [Workers -> {"idle", "check", "lock", "etcd", "recheck", "callback", "grant", "put", "unlock"}]
    /\ cpc \in [Engines -> {"pause", "etcd", "get", "process", "unlock"}]
    /\ sleep \in [Engines -> 0 .. MaxPause]
    /\ visit \in [Engines -> 0 .. PreKeys]
    /\ LS!ServiceTypeOK /\ CO!CoolOffTypeOK
    /\ faults \in 0 .. MaxFaults /\ writes \in 0 .. MaxWrites

Init ==
    /\ pre = FALSE /\ ttlKey = FALSE /\ ttlLeft = 0 /\ due = 0
    /\ granted = [w \in Workers |-> 0]
    /\ event = {}
    /\ work = [e \in Engines |-> 0]
    /\ pc = [w \in Workers |-> "idle"]
    /\ cpc = [e \in Engines |-> "pause"]
    /\ sleep = [e \in Engines |-> 0]
    /\ visit = [e \in Engines |-> 0]
    /\ LS!Init /\ CO!Init
    /\ faults = 0 /\ writes = 0

\* AddPolling's rule: the preconditions, and no TTL key.
Satisfied == pre /\ ~ttlKey

Fault ==
    /\ faults < MaxFaults
    /\ faults' = faults + 1
    /\ UNCHANGED writes

--------------------------------------------------------------------------------
(* etcd and time *)

\* A second goes by: leases, cool-offs and pauses get shorter.
Tick ==
    /\ ttlLeft' = Less(ttlLeft)
    /\ due' = Less(due)
    /\ granted' = [w \in Workers |-> Less(granted[w])]
    /\ sleep' = [e \in Engines |-> Less(sleep[e])]
    /\ CO!Tick
    /\ UNCHANGED <<pre, ttlKey, pc, event, work, cpc, visit, holding, valid, bounds>>

\* Another program changes whether the preconditions hold.
ChangePre ==
    /\ writes < MaxWrites
    /\ writes' = writes + 1
    /\ pre' = ~pre
    /\ event' = Engines
    /\ UNCHANGED <<ttlKey, ttlLeft, due, workers, work, crawlers, locks, faults>>

\* The TTL key's lease has run out; its watchers are told.
Expire ==
    /\ ttlKey /\ ttlLeft = 0
    /\ ttlKey' = FALSE
    /\ event' = Engines
    /\ UNCHANGED <<pre, ttlLeft, due, workers, work, crawlers, locks, bounds>>

--------------------------------------------------------------------------------
(* Watchers and crawlers *)

\* (Wrong on purpose: workChannel has room for anything.)
DispatchUnbounded(e) == work' = [work EXCEPT ![e] = IF Satisfied THEN @ + 1 ELSE @]

Dispatch(e) == IF Satisfied THEN work[e] < WorkBuffer /\ work' = [work EXCEPT ![e] = @ + 1]
                            ELSE UNCHANGED work

\* A watcher passes the change on, and a key worker evaluates the rule; or the
\* event is lost, or the rule's keys cannot be read.
WatchEvent(e) ==
    /\ e \in event
    /\ event' = event \ {e}
    /\ \/ Dispatch(e) /\ UNCHANGED bounds
       \/ Fault /\ UNCHANGED work
    /\ UNCHANGED <<store, workers, crawlers, locks>>

CrawlerGoto(e, p) == cpc' = [cpc EXCEPT ![e] = p]

\* The end of a run: the crawler pauses.
Pause(e) ==
    /\ CrawlerGoto(e, "pause")
    /\ \E n \in Pauses : sleep' = [sleep EXCEPT ![e] = n]

\* (Wrong on purpose: a run that is skipped is tried again at once.)
CrawlSkippedAtOnce(e) ==
    /\ CrawlerGoto(e, "pause")
    /\ UNCHANGED sleep

\* "Could not obtain mutex; skipping crawler run"
CrawlSkipped(e) == Pause(e)

\* The pause is over: the crawler's mutex goes through the cool-off too.
CrawlLock(e) ==
    /\ cpc[e] = "pause" /\ sleep[e] = 0
    /\ \/ CO!Passes(e, CrawlMutex) /\ CrawlerGoto(e, "etcd") /\ UNCHANGED sleep
       \/ CO!Refuses(e, CrawlMutex) /\ CrawlSkipped(e)
    /\ UNCHANGED <<store, workers, event, work, visit, holding, valid, bounds>>

CrawlLocked(e) ==
    /\ cpc[e] = "etcd"
    /\ LS!Acquire(e, CrawlMutex)
    /\ CrawlerGoto(e, "get")
    /\ UNCHANGED <<store, workers, event, work, sleep, visit, cool, bounds>>

CrawlLockFails(e) ==
    /\ cpc[e] = "etcd"
    /\ IF LS!Free(CrawlMutex) THEN Fault ELSE UNCHANGED bounds
    /\ CrawlSkipped(e)
    /\ UNCHANGED <<store, workers, event, work, visit, locks>>

\* The crawler reads everything, or fails to.
CrawlGet(e) ==
    /\ cpc[e] = "get"
    /\ \/ /\ CrawlerGoto(e, "process")
          /\ visit' = [visit EXCEPT ![e] = IF Satisfied THEN PreKeys ELSE 0]
          /\ UNCHANGED bounds
       \/ Fault /\ CrawlerGoto(e, "unlock") /\ UNCHANGED visit
    /\ UNCHANGED <<store, workers, event, work, sleep, locks>>

\* Every key of a rule that is satisfied by what was read is processed: the
\* rule is evaluated once more.
CrawlKey(e) ==
    /\ cpc[e] = "process" /\ visit[e] > 0
    /\ Dispatch(e)
    /\ visit' = [visit EXCEPT ![e] = @ - 1]
    /\ UNCHANGED <<store, workers, event, cpc, sleep, locks, bounds>>

CrawlProcessed(e) ==
    /\ cpc[e] = "process" /\ visit[e] = 0
    /\ CrawlerGoto(e, "unlock")
    /\ UNCHANGED <<store, workers, event, work, sleep, visit, locks, bounds>>

CrawlUnlock(e) ==
    /\ cpc[e] = "unlock"
    /\ LS!Release(e)
    /\ Pause(e)
    /\ UNCHANGED <<store, workers, event, work, visit, cool, bounds>>

--------------------------------------------------------------------------------
(* Workers *)

Goto(w, p) == pc' = [pc EXCEPT ![w] = p]

Receive(w) ==
    /\ pc[w] = "idle"
    /\ work[EngineOf[w]] > 0
    /\ work' = [work EXCEPT ![EngineOf[w]] = @ - 1]
    /\ Goto(w, "check")
    /\ UNCHANGED <<store, granted, event, crawlers, locks, bounds>>

\* doWork reads the rule's keys, and goes on if the rule is satisfied.
Check(w) ==
    /\ pc[w] = "check"
    /\ \/ Goto(w, IF Satisfied THEN "lock" ELSE "idle") /\ UNCHANGED bounds
       \/ Fault /\ Goto(w, "idle")
    /\ UNCHANGED <<store, granted, event, work, crawlers, locks>>

\* nestedLocker.Lock: the cool-off first.
LockCoolOff(w) ==
    /\ pc[w] = "lock"
    /\ \/ CO!Passes(EngineOf[w], RuleLock) /\ Goto(w, "etcd")
       \/ CO!Refuses(EngineOf[w], RuleLock) /\ Goto(w, "idle")
    /\ UNCHANGED <<store, granted, event, work, crawlers, holding, valid, bounds>>

Lock(w) ==
    /\ pc[w] = "etcd"
    /\ LS!Acquire(w, RuleLock)
    /\ Goto(w, "recheck")
    /\ UNCHANGED <<store, granted, event, work, crawlers, cool, bounds>>

\* (Wrong on purpose: a failed lock is taken for a lock.)
LockErrorIgnored(w) ==
    /\ pc[w] = "etcd"
    /\ IF LS!Free(RuleLock) THEN Fault ELSE UNCHANGED bounds
    /\ Goto(w, "recheck")
    /\ UNCHANGED <<store, granted, event, work, crawlers, locks>>

LockFails(w) ==
    /\ pc[w] = "etcd"
    /\ IF LS!Free(RuleLock) THEN Fault ELSE UNCHANGED bounds
    /\ Goto(w, "idle")
    /\ UNCHANGED <<store, granted, event, work, crawlers, locks>>

\* The rule is checked again under the lock; the callback starts.
Recheck(w) ==
    /\ pc[w] = "recheck"
    /\ \/ Goto(w, IF Satisfied THEN "callback" ELSE "unlock") /\ UNCHANGED bounds
       \/ Fault /\ Goto(w, "unlock")
    /\ UNCHANGED <<store, granted, event, work, crawlers, locks>>

\* The user's callback returns to doRule, or panics.
CallbackReturns(w) ==
    /\ pc[w] = "callback"
    /\ \/ Goto(w, "grant") /\ UNCHANGED bounds
       \/ Fault /\ Goto(w, "unlock")
    /\ UNCHANGED <<store, granted, event, work, crawlers, locks>>

\* doRule asks for a lease; without one it returns.
Grant(w) ==
    /\ pc[w] = "grant"
    /\ \/ Goto(w, "put") /\ granted' = [granted EXCEPT ![w] = TTL] /\ UNCHANGED bounds
       \/ Fault /\ Goto(w, "unlock") /\ UNCHANGED granted
    /\ UNCHANGED <<store, event, work, crawlers, locks>>

SetTTLKey(w) ==
    /\ ttlKey' = TRUE
    /\ ttlLeft' = granted[w]
    /\ event' = Engines
    /\ UNCHANGED pre

\* doRule puts the TTL key under the lease.  The call may fail, applied or
\* not, and it does fail if the lease has run out.
Put(w) ==
    /\ pc[w] = "put"
    /\ \/ SetTTLKey(w) /\ due' = Longer(due, granted[w]) /\ UNCHANGED bounds
       \/ SetTTLKey(w) /\ Fault /\ UNCHANGED due
       \/ Fault /\ UNCHANGED <<store, event>>
       \/ granted[w] = 0 /\ UNCHANGED <<store, event, bounds>>
    /\ granted' = [granted EXCEPT ![w] = 0]
    /\ Goto(w, "unlock")
    /\ UNCHANGED <<work, crawlers, locks>>

\* (Wrong on purpose: doWork returns without its deferred Unlock.)
UnlockForgotten(w) ==
    /\ pc[w] = "unlock"
    /\ Goto(w, "idle")
    /\ UNCHANGED <<store, granted, event, work, crawlers, locks, bounds>>

Unlock(w) ==
    /\ pc[w] = "unlock"
    /\ LS!Release(w)
    /\ Goto(w, "idle")
    /\ UNCHANGED <<store, granted, event, work, crawlers, cool, bounds>>

\* An engine's process dies and starts again: the TTL key stays in etcd, the
\* cool-offs and the work are gone.
Crash(e) ==
    /\ Fault
    /\ LS!ReleaseAll({w \in Workers : EngineOf[w] = e} \cup {e})
    /\ CO!Forget(e)
    /\ pc' = [w \in Workers |-> IF EngineOf[w] = e THEN "idle" ELSE pc[w]]
    /\ granted' = [w \in Workers |-> IF EngineOf[w] = e THEN 0 ELSE granted[w]]
    /\ event' = event \ {e}
    /\ work' = [work EXCEPT ![e] = 0]
    /\ CrawlerGoto(e, "pause")
    /\ sleep' = [sleep EXCEPT ![e] = 0]
    /\ visit' = [visit EXCEPT ![e] = 0]
    /\ UNCHANGED store

--------------------------------------------------------------------------------
Crawler(e) ==
    \/ CrawlLock(e) \/ CrawlLocked(e) \/ CrawlLockFails(e)
    \/ CrawlGet(e) \/ CrawlKey(e) \/ CrawlProcessed(e) \/ CrawlUnlock(e)

Worker(w) ==
    \/ Receive(w) \/ Check(w) \/ LockCoolOff(w) \/ Lock(w) \/ LockFails(w)
    \/ Recheck(w) \/ CallbackReturns(w) \/ Grant(w) \/ Put(w) \/ Unlock(w)

Next ==
    \/ Tick
    \/ ChangePre
    \/ Expire
    \/ \E e \in Engines : WatchEvent(e) \/ Crawler(e) \/ Crash(e)
    \/ \E w \in Workers : Worker(w)

Spec == Init /\ [][Next]_vars

\* Time goes on, etcd ends leases that have run out, goroutines are scheduled,
\* and the senders that wait for room in a channel are served in turn.
FairSpec ==
    /\ Spec
    /\ WF_vars(Tick) /\ WF_vars(Expire)
    /\ \A e \in Engines : WF_vars(WatchEvent(e)) /\ SF_vars(Crawler(e))
    /\ \A w \in Workers : WF_vars(Worker(w))

--------------------------------------------------------------------------------
(* Properties *)

Polling(w) == pc[w] \in {"callback", "grant", "put"}
StartsPoll(w) == ~Polling(w) /\ Polling(w)'
NoPollRuns(w) == due = 0 /\ \A v \in Workers \ {w} : ~Polling(v)

\* The TTL key of a poll that succeeded is there until the TTL, counted from
\* the Grant of doRule, is over: no later Put moves it to a lease that ends
\* earlier.
PollKept == due > 0 => ttlKey

\* doRule is "to retrigger the callback after a delay": when a callback
\* starts, on any engine, the TTL of every poll that succeeded is over, and
\* no other worker is between its callback and its Put.
PollDelay == [][\A w \in Workers : StartsPoll(w) => NoPollRuns(w)]_vars

\* A poll comes round: while the preconditions hold the callback runs again
\* and again, however polls, crawls and events failed before.  (Every attempt
\* renews the cool-off, so they must not come faster than it for good: the
\* shortest pause is longer than the cool-off, and PreKeys is 1.)
PolledAgain == pre ~> (~pre \/ \E w \in Workers : pc[w] = "callback")

\* The cool-off does not lock the crawlers out: their mutex is obtained and the
\* store read again and again, though every attempt renews the cool-off.  (The
\* shortest pause has to be longer than the cool-off.)
CrawlsAgain == []<>(\E e \in Engines : cpc[e] = "get")
================================================================================
