------------------------------ MODULE GuardedRules -----------------------------
(***************************************************************************)
(* What the engines promise to who writes rules and callbacks: seen from   *)
(* the store, a rule is a guarded command.  However many engines, workers, *)
(* watchers and crawlers are at work, a callback begins only while its     *)
(* rule is satisfied and no callback under the same lock is running, and   *)
(* the rule is still satisfied when the callback writes.  RulesEngine.tla  *)
(* is how the code does it, and implements this module.                    *)
(***************************************************************************)
CONSTANTS
    Rules,
    InitialStore,       \* the store when the engines start
    External(_),        \* <<key, value>> writes other programs may do in a store
    Satisfied(_, _),    \* staticRule.satisfied
    CallbackPut(_),     \* the <<key, value>> the rule's callback writes
    LockKey(_)          \* the rule's lock key

VARIABLES
    store,              \* etcd
    running             \* the rules whose callbacks are running

guardVars == <<store, running>>

Written(kv) == store' = [store EXCEPT ![kv[1]] = kv[2]]

Init ==
    /\ store = InitialStore
    /\ running = {}

\* Another program writes.
Others ==
    /\ \E kv \in External(store) : Written(kv)
    /\ UNCHANGED running

\* doWork calls the callback.
Begin(r) ==
    /\ Satisfied(r, store)
    /\ \A q \in running : LockKey(q) # LockKey(r)
    /\ running' = running \cup {r}
    /\ UNCHANGED store

\* The callback has written.
Finish(r) ==
    /\ r \in running
    /\ Satisfied(r, store)
    /\ Written(CallbackPut(r))
    /\ running' = running \ {r}

\* Callbacks fail, panic or die with their process.
Abort(R) ==
    /\ R \subseteq running
    /\ running' = running \ R
    /\ UNCHANGED store

Next ==
    \/ Others
    \/ \E r \in Rules : Begin(r) \/ Finish(r)
    \/ \E R \in SUBSET Rules : Abort(R)

Spec == Init /\ [][Next]_guardVars
================================================================================
