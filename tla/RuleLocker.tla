------------------------------- MODULE RuleLocker ------------------------------
(***************************************************************************)
(* The lock stack newV3Engine builds (rules/engine.go) out of rules/lock:  *)
(* with a shared lock session (the default), an in-memory map locker       *)
(* nested around an etcd locker whose session comes from the engine's      *)
(* SessionManager; otherwise the etcd locker alone, one session an attempt.*)
(* Engines configured either way share one etcd.  The cool-off locker, a   *)
(* further optional layer, is in CoolOffLocker.                            *)
(*                                                                         *)
(* etcd is external.  A lock key is the etcd key <lock key>/<lease>, so    *)
(* there is at most one per session; the session whose key was created     *)
(* first owns the lock; a lease that ends takes its keys with it.  A call  *)
(* that fails may or may not have been applied, but is not applied later.  *)
(***************************************************************************)
EXTENDS FiniteSets

CONSTANTS
    Engines,        \* engine processes
    Workers,        \* goroutines that lock: workers and crawlers
    EngineOf,       \* the engine of each worker
    LockKeys,       \* lock key strings
    Sessions,       \* etcd sessions (leases)
    Home,           \* the engine that may create each session
    Shared,         \* ~opts.dontUseSharedLockSession, for each engine
    UseTryLock,     \* opts.useTryLock
    NoKey,
    NoSession

ASSUME RuleLockerAssumption ==
    /\ EngineOf \in [Workers -> Engines]
    /\ Home \in [Sessions -> Engines]
    /\ Shared \in [Engines -> BOOLEAN]
    /\ UseTryLock \in BOOLEAN
    /\ NoKey \notin LockKeys
    /\ NoSession \notin Sessions

VARIABLES
    pc,         \* where each worker is in Lock / Unlock
    key,        \* the lock key it is locking or holding, or NoKey
    sess,       \* the session its mutex was made with, or NoSession
    locked,     \* mapLocker.m, for each engine
    current,    \* SessionManager.session, for each engine
    kept,       \* sessions whose keepalive goroutine is running
    alive,      \* leases etcd has neither revoked nor expired
    queue,      \* for each lock key, the sessions that have a key under it
    before      \* ... and for each of them, those whose key is older

vars == <<pc, key, sess, locked, current, kept, alive, queue, before>>
etcdVars == <<alive, queue, before>>

PCs == {"idle", "session", "new", "txn", "wait", "check", "held", "close", "mapUnlock"}

TypeOK ==
    /\ pc \in [Workers -> PCs]
    /\ key \in [Workers -> LockKeys \cup {NoKey}]
    /\ sess \in [Workers -> Sessions \cup {NoSession}]
    /\ locked \in [Engines -> SUBSET LockKeys]
    /\ current \in [Engines -> Sessions \cup {NoSession}]
    /\ kept \in SUBSET Sessions
    /\ alive \in SUBSET Sessions
    /\ queue \in [LockKeys -> SUBSET Sessions]
    /\ before \in [LockKeys -> [Sessions -> SUBSET Sessions]]
    /\ \A w \in Workers : pc[w] # "idle" => key[w] \in LockKeys
    /\ \A w \in Workers : pc[w] \in {"txn", "wait", "check", "held", "close"} => sess[w] \in Sessions

Init ==
    /\ pc = [w \in Workers |-> "idle"]
    /\ key = [w \in Workers |-> NoKey]
    /\ sess = [w \in Workers |-> NoSession]
    /\ locked = [e \in Engines |-> {}]
    /\ current = [e \in Engines |-> NoSession]
    /\ kept = {}
    /\ alive = {}
    /\ queue = [k \in LockKeys |-> {}]
    /\ before = [k \in LockKeys |-> [s \in Sessions |-> {}]]

--------------------------------------------------------------------------------
(* etcd *)

\* (Wrong on purpose: whoever has a key owns the lock.)
CreateKeyUnordered(k, s) ==
    /\ queue' = [queue EXCEPT ![k] = @ \cup {s}]
    /\ UNCHANGED before

\* The transaction of concurrency.Mutex.tryAcquire: create the session's key
\* under k unless it is already there (the lock is reentrant in a session).
CreateKey(k, s) ==
    IF s \in queue[k]
    THEN UNCHANGED <<queue, before>>
    ELSE /\ queue' = [queue EXCEPT ![k] = @ \cup {s}]
         /\ before' = [before EXCEPT ![k][s] = queue[k]]

\* The session's keys under the lock keys K are deleted.
DeleteKeys(K, s) ==
    /\ queue' = [k \in LockKeys |-> IF k \in K THEN queue[k] \ {s} ELSE queue[k]]
    /\ before' = [k \in LockKeys |->
                    IF k \in K
                    THEN [t \in Sessions |-> IF t = s THEN {} ELSE before[k][t] \ {s}]
                    ELSE before[k]]

\* A call that deletes one key, and may fail without having done so.
TryDeleteKey(k, s) == DeleteKeys({k}, s) \/ UNCHANGED <<queue, before>>

\* The session has the oldest key under k: it owns the lock.
Owns(k, s) == s \in queue[k] /\ before[k][s] = {}

\* A lease ends and its keys are deleted.
EndLease(s) ==
    /\ alive' = alive \ {s}
    /\ DeleteKeys(LockKeys, s)

\* A session that is not in use anywhere: lease identifiers are never reused
\* by etcd, and reusing one that everybody has forgotten makes no difference.
Fresh(e, s) ==
    /\ Home[s] = e
    /\ s \notin alive \cup kept
    /\ \A w \in Workers : sess[w] # s
    /\ \A f \in Engines : current[f] # s

\* concurrency.NewSession: grant a lease and start to keep it alive.
NewSession(e, s) ==
    /\ Fresh(e, s)
    /\ alive' = alive \cup {s}
    /\ kept' = kept \cup {s}

\* The server expires a lease: nobody keeps it alive, or the keepalives of
\* its engine do not get through in time.
LeaseExpires(s) ==
    /\ s \in alive
    /\ EndLease(s)
    /\ UNCHANGED <<pc, key, sess, locked, current, kept>>

\* The client gives up on keeping a lease alive and closes Session.Done.
KeepAliveEnds(s) ==
    /\ s \in kept
    /\ kept' = kept \ {s}
    /\ UNCHANGED <<pc, key, sess, locked, current, alive, queue, before>>

--------------------------------------------------------------------------------
SharesSession(w) == Shared[EngineOf[w]]

(* Lock: nestedLocker.Lock around mapLocker.toggle and lockWithTimeout *)

\* (Wrong on purpose: the error path of nestedLocker.Lock without its Unlock.)
FailWithoutUnlock(w) ==
    /\ pc' = [pc EXCEPT ![w] = "idle"]
    /\ key' = [key EXCEPT ![w] = NoKey]
    /\ sess' = [sess EXCEPT ![w] = NoSession]

\* Where an attempt that failed in the etcd locker goes on: nestedLocker
\* releases its own lock; the etcd locker alone just returns the error.
Fail(w) ==
    /\ pc' = [pc EXCEPT ![w] = IF SharesSession(w) THEN "mapUnlock" ELSE "idle"]
    /\ key' = [key EXCEPT ![w] = IF SharesSession(w) THEN @ ELSE NoKey]
    /\ sess' = [sess EXCEPT ![w] = NoSession]

\* (Wrong on purpose: the result of toggle is ignored.)
LockUnguarded(w, k) ==
    /\ pc[w] = "idle"
    /\ locked' = [locked EXCEPT ![EngineOf[w]] = @ \cup {k}]
    /\ pc' = [pc EXCEPT ![w] = "session"]
    /\ key' = [key EXCEPT ![w] = k]
    /\ UNCHANGED <<sess, current, kept, alive, queue, before>>

\* The map locker is taken first; a key locked locally is refused and the
\* attempt leaves no trace.
Lock(w, k) ==
    /\ pc[w] = "idle"
    /\ IF SharesSession(w)
       THEN /\ k \notin locked[EngineOf[w]]
            /\ locked' = [locked EXCEPT ![EngineOf[w]] = @ \cup {k}]
       ELSE UNCHANGED locked
    /\ pc' = [pc EXCEPT ![w] = "session"]
    /\ key' = [key EXCEPT ![w] = k]
    /\ UNCHANGED <<sess, current, kept, alive, queue, before>>

\* SessionManager.sessionMutex: who holds it is making a session.
SessionMutexFree(e) ==
    \A w \in Workers : ~ (EngineOf[w] = e /\ SharesSession(w) /\ pc[w] = "new")

\* (Wrong on purpose: the singleton is not compared with nil.)
GetCurrentSessionUnchecked(w) ==
    /\ pc[w] = "session"
    /\ SharesSession(w)
    /\ SessionMutexFree(EngineOf[w])
    /\ sess' = [sess EXCEPT ![w] = current[EngineOf[w]]]
    /\ pc' = [pc EXCEPT ![w] = "txn"]
    /\ UNCHANGED <<key, locked, current, kept, alive, queue, before>>

\* GetSession hands out the singleton as it is, whether or not its lease is
\* alive.
GetCurrentSession(w) ==
    /\ pc[w] = "session"
    /\ SharesSession(w)
    /\ SessionMutexFree(EngineOf[w])
    /\ current[EngineOf[w]] # NoSession
    /\ sess' = [sess EXCEPT ![w] = current[EngineOf[w]]]
    /\ pc' = [pc EXCEPT ![w] = "txn"]
    /\ UNCHANGED <<key, locked, current, kept, alive, queue, before>>

\* GetSession has no singleton and makes one, with the mutex held; the etcd
\* locker alone makes a session of its own.
CallNewSession(w) ==
    /\ pc[w] = "session"
    /\ SharesSession(w) => SessionMutexFree(EngineOf[w]) /\ current[EngineOf[w]] = NoSession
    /\ pc' = [pc EXCEPT ![w] = "new"]
    /\ UNCHANGED <<key, sess, locked, current, kept, alive, queue, before>>

\* concurrency.NewSession returns a session ...
NewSessionReturns(w) ==
    /\ pc[w] = "new"
    /\ \E s \in Sessions :
        /\ NewSession(EngineOf[w], s)
        /\ current' = IF SharesSession(w) THEN [current EXCEPT ![EngineOf[w]] = s] ELSE current
        /\ sess' = [sess EXCEPT ![w] = s]
    /\ pc' = [pc EXCEPT ![w] = "txn"]
    /\ UNCHANGED <<key, locked, queue, before>>

\* ... or an error.
NewSessionFails(w) ==
    /\ pc[w] = "new"
    /\ Fail(w)
    /\ UNCHANGED <<locked, current, kept, alive, queue, before>>

\* Mutex.Lock and Mutex.TryLock start alike: create the key and see who owns
\* the lock.
TryAcquire(w) ==
    /\ pc[w] = "txn"
    /\ sess[w] \in alive
    /\ CreateKey(key[w], sess[w])
    /\ pc' = [pc EXCEPT ![w] = IF before'[key[w]][sess[w]] = {} THEN "held" ELSE "wait"]
    /\ UNCHANGED <<key, sess, locked, current, kept, alive>>

\* The transaction reports an error (a dead lease, a timeout); when the lease
\* is alive it may have been applied all the same.
TryAcquireFails(w) ==
    /\ pc[w] = "txn"
    /\ \/ UNCHANGED <<queue, before>>
       \/ sess[w] \in alive /\ CreateKey(key[w], sess[w])
    /\ Fail(w)
    /\ UNCHANGED <<locked, current, kept, alive>>

\* (Wrong on purpose: the older keys are not waited for.)
WaitDeletesAtOnce(w) ==
    /\ pc[w] = "wait"
    /\ ~UseTryLock
    /\ pc' = [pc EXCEPT ![w] = "check"]
    /\ UNCHANGED <<key, sess, locked, current, kept, alive, queue, before>>

\* Mutex.Lock waits until the older keys are gone.  (A session whose own key
\* is gone may stop waiting early here: all it can do then is fail.)
WaitDeletes(w) ==
    /\ pc[w] = "wait"
    /\ ~UseTryLock
    /\ before[key[w]][sess[w]] = {}
    /\ pc' = [pc EXCEPT ![w] = "check"]
    /\ UNCHANGED <<key, sess, locked, current, kept, alive, queue, before>>

\* (Wrong on purpose: the key is not read again.)
CheckKeyBlindly(w) ==
    /\ pc[w] = "check"
    /\ pc' = [pc EXCEPT ![w] = "held"]
    /\ UNCHANGED <<key, sess, locked, current, kept, alive, queue, before>>

\* Mutex.Lock then reads its key once more.
CheckKey(w) ==
    /\ pc[w] = "check"
    /\ sess[w] \in queue[key[w]]
    /\ pc' = [pc EXCEPT ![w] = "held"]
    /\ UNCHANGED <<key, sess, locked, current, kept, alive, queue, before>>

\* (Wrong on purpose: the wait has no timeout.)
AbandonWithoutTimeout(w) ==
    /\ pc[w] = "check"
    /\ TryDeleteKey(key[w], sess[w])
    /\ Fail(w)
    /\ UNCHANGED <<locked, current, kept, alive>>

\* Mutex.Lock times out or finds its key gone, or Mutex.TryLock is not the
\* owner: it deletes its key if it can and returns an error.
Abandon(w) ==
    /\ pc[w] \in {"wait", "check"}
    /\ TryDeleteKey(key[w], sess[w])
    /\ Fail(w)
    /\ UNCHANGED <<locked, current, kept, alive>>

--------------------------------------------------------------------------------
(* Unlock: nestedLock.Unlock around v3Lock.Unlock and mapLocker.toggle *)

\* The etcd part.  It is tried unlockMaxRetries times; whether it succeeds or
\* gives up, the session is closed if it is the lock's own, and the map lock
\* released otherwise.
Unlock(w) ==
    /\ pc[w] = "held"
    /\ TryDeleteKey(key[w], sess[w])
    /\ pc' = [pc EXCEPT ![w] = IF SharesSession(w) THEN "mapUnlock" ELSE "close"]
    /\ UNCHANGED <<key, sess, locked, current, kept, alive>>

\* (Wrong on purpose: a lease that could not be revoked is kept alive.)
CloseSessionKeptAlive(w) ==
    /\ pc[w] = "close"
    /\ ~SharesSession(w)
    /\ EndLease(sess[w]) \/ UNCHANGED etcdVars
    /\ pc' = [pc EXCEPT ![w] = "idle"]
    /\ key' = [key EXCEPT ![w] = NoKey]
    /\ sess' = [sess EXCEPT ![w] = NoSession]
    /\ UNCHANGED <<locked, current, kept>>

\* Session.Close, of a session that is the lock's own, stops the keepalives
\* and revokes the lease if it can.
CloseSession(w) ==
    /\ pc[w] = "close"
    /\ ~SharesSession(w)
    /\ kept' = kept \ {sess[w]}
    /\ EndLease(sess[w]) \/ UNCHANGED etcdVars
    /\ pc' = [pc EXCEPT ![w] = "idle"]
    /\ key' = [key EXCEPT ![w] = NoKey]
    /\ sess' = [sess EXCEPT ![w] = NoSession]
    /\ UNCHANGED <<locked, current>>

\* toggle(key, false), at the end of Unlock or after a failed inner Lock.
MapUnlock(w) ==
    /\ pc[w] = "mapUnlock"
    /\ locked' = [locked EXCEPT ![EngineOf[w]] = @ \ {key[w]}]
    /\ pc' = [pc EXCEPT ![w] = "idle"]
    /\ key' = [key EXCEPT ![w] = NoKey]
    /\ sess' = [sess EXCEPT ![w] = NoSession]
    /\ UNCHANGED <<current, kept, alive, queue, before>>

\* (Wrong on purpose: the goroutine does not wait for Done.)
ClearSessionEarly(e) ==
    /\ SessionMutexFree(e)
    /\ current[e] # NoSession
    /\ current' = [current EXCEPT ![e] = NoSession]
    /\ UNCHANGED <<pc, key, sess, locked, kept, alive, queue, before>>

\* The goroutine GetSession starts for its session clears the singleton.
ClearSession(e) ==
    /\ SessionMutexFree(e)
    /\ current[e] # NoSession
    /\ current[e] \notin kept
    /\ current' = [current EXCEPT ![e] = NoSession]
    /\ UNCHANGED <<pc, key, sess, locked, kept, alive, queue, before>>

\* The engine's process dies, and starts again with nothing.
Crash(e) ==
    LET mine == {w \in Workers : EngineOf[w] = e}
    IN  /\ pc' = [w \in Workers |-> IF w \in mine THEN "idle" ELSE pc[w]]
        /\ key' = [w \in Workers |-> IF w \in mine THEN NoKey ELSE key[w]]
        /\ sess' = [w \in Workers |-> IF w \in mine THEN NoSession ELSE sess[w]]
        /\ locked' = [locked EXCEPT ![e] = {}]
        /\ current' = [current EXCEPT ![e] = NoSession]
        /\ kept' = {s \in kept : Home[s] # e}
        /\ UNCHANGED <<alive, queue, before>>

--------------------------------------------------------------------------------
\* The steps of Lock and Unlock up to and after the call of NewSession ...
LockProgress(w) ==
    \/ GetCurrentSession(w) \/ CallNewSession(w)
    \/ TryAcquire(w) \/ TryAcquireFails(w)
    \/ WaitDeletes(w) \/ CheckKey(w) \/ Abandon(w)
    \/ Unlock(w) \/ CloseSession(w) \/ MapUnlock(w)

\* ... and its return.
SessionProgress(w) == NewSessionReturns(w) \/ NewSessionFails(w)

WorkerProgress(w) == LockProgress(w) \/ SessionProgress(w)

Next ==
    \/ \E w \in Workers : WorkerProgress(w) \/ \E k \in LockKeys : Lock(w, k)
    \/ \E s \in Sessions : LeaseExpires(s) \/ KeepAliveEnds(s)
    \/ \E e \in Engines : ClearSession(e) \/ Crash(e)

Spec == Init /\ [][Next]_vars

\* Every call of the lock stack that has a timeout comes back, a callback
\* ends, so its lock is unlocked, a lease nobody keeps alive expires, and a
\* session mutex that is free again and again is given to who waits for it
\* (Go's mutexes do not starve anybody).  Nobody has to lock, and no call has
\* to succeed.
TimedFairness ==
    /\ \A w \in Workers : SF_vars(LockProgress(w))
    /\ \A s \in Sessions : WF_vars(s \notin kept /\ LeaseExpires(s))
    /\ \A e \in Engines : WF_vars(ClearSession(e))

\* concurrency.NewSession is called without a timeout: that it returns is an
\* assumption about etcd and its client, which this specification makes ...
FairSpec == Spec /\ TimedFairness /\ \A w \in Workers : WF_vars(SessionProgress(w))

\* ... and this one does not.
TimedSpec == Spec /\ TimedFairness

--------------------------------------------------------------------------------
(* Properties *)

Holds(w, k) == pc[w] = "held" /\ key[w] = k

\* Two goroutines, of one engine or of two, never both hold a lock whose
\* leases are alive: the sessions of RuleLocker.Lock are reentrant, leases
\* expire and calls fail half way, and still a rule's callback is alone as
\* long as its lease is.
MutualExclusion ==
    \A v, w \in Workers, k \in LockKeys :
        v # w /\ Holds(v, k) /\ Holds(w, k) => ~ {sess[v], sess[w]} \subseteq alive

\* With a shared session, two goroutines of one engine are never both between
\* Lock and Unlock of one key, whatever happens to leases: the protection that
\* the comment of NewSessionLocker says a reentrant session needs.
LocalExclusion ==
    \A v, w \in Workers :
        v # w /\ SharesSession(v) /\ EngineOf[v] = EngineOf[w] /\ pc[v] # "idle" /\ pc[w] # "idle"
            => key[v] # key[w]

\* While a goroutine holds a lock and its lease is alive, its key is in etcd
\* and is the oldest: no abandoned attempt, late unlock or closed session of
\* another goroutine deletes it.
HeldKeyBacked ==
    \A w \in Workers : pc[w] = "held" /\ sess[w] \in alive => Owns(key[w], sess[w])

\* Every key locked in the map locker belongs to a goroutine on its way to
\* unlock it: no error path of nestedLocker.Lock leaves a key locked locally.
NoLocalLeak ==
    \A e \in {f \in Engines : Shared[f]} :
        locked[e] = {key[w] : w \in {v \in Workers : EngineOf[v] = e /\ pc[v] # "idle"}}

\* A session the SessionManager made and that is still kept alive is its
\* singleton: neither goroutines that find none at the same time nor the one
\* that clears a dead session make it lose a session it would keep alive.
SingleSession ==
    \A e \in Engines, s \in kept : Shared[e] /\ Home[s] = e => current[e] = s

(* The inductive invariant that MutualExclusion and HeldKeyBacked rest on. *)

\* Lock keys are gone with their lease, and of two keys one is older.
QueueInv ==
    \A k \in LockKeys :
        /\ queue[k] \subseteq alive
        /\ \A s, t \in queue[k] : s = t \/ s \in before[k][t] \/ t \in before[k][s]

\* A session belongs to the engine that uses it and, unless it is shared, to
\* one goroutine.
SessionInv ==
    /\ \A w \in Workers : sess[w] \in Sessions => Home[sess[w]] = EngineOf[w]
    /\ \A e \in Engines : current[e] \in Sessions => Home[current[e]] = e
    /\ \A v, w \in Workers :
        ~SharesSession(v) /\ sess[v] \in Sessions /\ sess[v] = sess[w] => v = w

\* A goroutine in the etcd locker has its key locked locally, and is alone.
MapInv ==
    /\ \A w \in Workers : SharesSession(w) /\ pc[w] # "idle" => key[w] \in locked[EngineOf[w]]
    /\ LocalExclusion

\* Who finished waiting is first in line as long as its key is there.
HeldInv ==
    /\ HeldKeyBacked
    /\ \A w \in Workers :
        pc[w] = "check" /\ sess[w] \in queue[key[w]] => Owns(key[w], sess[w])

LockInv == TypeOK /\ QueueInv /\ SessionInv /\ MapInv /\ HeldInv

\* The inductive invariant of SingleSession: who makes the singleton is alone,
\* and there is none.
ManagerInv ==
    /\ SingleSession
    /\ \A w \in Workers : SharesSession(w) /\ pc[w] = "new" => current[EngineOf[w]] = NoSession
    /\ \A v, w \in Workers :
        SharesSession(v) /\ EngineOf[v] = EngineOf[w] /\ pc[v] = "new" /\ pc[w] = "new" => v = w

\* The lock stack provides what LockService specifies.
LS == INSTANCE LockService WITH
        Clients <- Workers,
        holding <- [w \in Workers |-> IF pc[w] = "held" THEN key[w] ELSE NoKey],
        valid <- {w \in Workers : pc[w] = "held" /\ sess[w] \in alive}

ImplementsLockService == LS!Spec

\* RuleLocker.Lock always returns, with the lock or with an error, and after
\* an error the goroutine has let go of the local lock.
LockReturns ==
    \A w \in Workers : (pc[w] # "idle") ~> (pc[w] \in {"idle", "held"})

\* "GetSession provides the singleton session or times out if a session cannot
\* be obtained" (SessionManager.GetSession): who asks for a session with the
\* deadline of lockWithTimeout is not left waiting for who makes one.
GetSessionReturns ==
    \A w \in Workers : (pc[w] = "session") ~> (pc[w] # "session")

\* A lock that was held is given up in etcd in the end, even if every attempt
\* to unlock it fails: what the comment in v3Lock.Unlock expects of closing
\* the session.
UnlockFrees ==
    \A w \in {v \in Workers : ~SharesSession(v)}, k \in LockKeys, s \in Sessions :
        (Holds(w, k) /\ sess[w] = s) ~> (s \notin queue[k])

\* A lock key nobody is locking or holding.
Orphan(k, s) ==
    /\ s \in queue[k]
    /\ \A w \in Workers : ~ (pc[w] # "idle" /\ key[w] = k /\ sess[w] = s)

\* A lock key that outlives its lock is removed: "If the nested lock persists
\* due to an error, it should be cleared with separate logic"
\* (nestedLock.Unlock).
OrphanCleared ==
    \A k \in LockKeys, s \in Sessions : Orphan(k, s) ~> ~ Orphan(k, s)

\* A session that is kept alive is in use by the attempt or the lock it was
\* made for: NewV3Locker's sessions are closed when they are done with.
SessionsClosed ==
    \A s \in kept : \E w \in Workers : sess[w] = s
================================================================================
