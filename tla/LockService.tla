------------------------------ MODULE LockService ------------------------------
(***************************************************************************)
(* What the engine's locker promises to the goroutines that use it         *)
(* (lock.RuleLocker / lock.RuleLock in rules/lock/lock.go): a client that  *)
(* holds a lock key is its only valid holder until it releases it or the   *)
(* lease behind the lock lapses.  A client is never told of a lapse: it    *)
(* goes on as a stale holder, and somebody else may acquire the key.       *)
(* RuleLocker.tla is the locker the code builds; it implements this        *)
(* module.  RulesEngine.tla uses this module as its locker.                *)
(***************************************************************************)
CONSTANTS
    Clients,    \* goroutines that lock: workers, and the crawlers
    LockKeys,   \* lock key strings
    NoKey       \* not a lock key

VARIABLES
    holding,    \* the key each client believes it holds, or NoKey
    valid       \* the clients whose belief is still backed by a lease

lockVars == <<holding, valid>>

ServiceTypeOK ==
    /\ holding \in [Clients -> LockKeys \cup {NoKey}]
    /\ valid \in SUBSET Clients

Init ==
    /\ holding = [c \in Clients |-> NoKey]
    /\ valid = {}

\* Nobody holds k under a lease that is still alive.
Free(k) == \A c \in valid : holding[c] # k

\* A successful RuleLocker.Lock.
Acquire(c, k) ==
    /\ holding[c] = NoKey
    /\ Free(k)
    /\ holding' = [holding EXCEPT ![c] = k]
    /\ valid' = valid \cup {c}

\* RuleLock.Unlock, or the holder's process dies.
Release(c) ==
    /\ holding[c] # NoKey
    /\ holding' = [holding EXCEPT ![c] = NoKey]
    /\ valid' = valid \ {c}

\* Leases lapse under a set of holders, which do not notice.
Lapse(C) ==
    /\ C \subseteq valid
    /\ valid' = valid \ C
    /\ UNCHANGED holding

\* An engine process dies with all its clients.
ReleaseAll(C) ==
    /\ holding' = [c \in Clients |-> IF c \in C THEN NoKey ELSE holding[c]]
    /\ valid' = valid \ C

Next ==
    \/ \E c \in Clients, k \in LockKeys : Acquire(c, k)
    \/ \E c \in Clients : Release(c)
    \/ \E C \in SUBSET Clients : Lapse(C) \/ ReleaseAll(C)

Spec == Init /\ [][Next]_lockVars
================================================================================
