----------------------------- MODULE CoolOffLocker -----------------------------
(***************************************************************************)
(* The cool-off locker (rules/lock/cooloff_lock.go), the outermost layer of*)
(* an engine's lock stack when EngineLockCoolOff is set: an attempt to lock*)
(* a key fails if there was another one, successful or not, less than the  *)
(* cool-off ago.  Its locks are never held: they expire.                   *)
(*                                                                         *)
(* coolOffLocker.locks maps keys to instants.  Here it maps them to the    *)
(* time that is left until the entry is dropped, and a tick of the clock   *)
(* takes one off.                                                          *)
(***************************************************************************)
EXTENDS Naturals

CONSTANTS
    Engines,    \* each has a cool-off locker of its own
    LockKeys,   \* lock key strings
    CoolOff     \* opts.lockCoolOff in ticks; 0 means no cool-off locker

VARIABLE
    cool        \* coolOffLocker.locks of each engine, 0 for no entry

CoolOffTypeOK == cool \in [Engines -> [LockKeys -> 0 .. CoolOff + 1]]

NoEntries == [k \in LockKeys |-> 0]

Init == cool = [e \in Engines |-> NoEntries]

\* "Failed attempts to get the lock should also update the cooloff": every
\* attempt does.  An entry is dropped when its instant has passed, a tick
\* after it is reached.
Attempt(e, k) == cool' = [cool EXCEPT ![e][k] = IF CoolOff = 0 THEN 0 ELSE CoolOff + 1]

\* coolOffLocker.Lock gives the lock ...
Passes(e, k) ==
    /\ cool[e][k] = 0
    /\ Attempt(e, k)

\* ... or an error.
Refuses(e, k) ==
    /\ cool[e][k] # 0
    /\ Attempt(e, k)

Tick == cool' = [e \in Engines |-> [k \in LockKeys |-> IF cool[e][k] = 0 THEN 0 ELSE cool[e][k] - 1]]

\* The engine's process starts again.
Forget(e) == cool' = [cool EXCEPT ![e] = NoEntries]
================================================================================
