---------------------------- MODULE RuleLockerProofs ---------------------------
(***************************************************************************)
(* For any engines, goroutines, lock keys and sessions: the lock stack of  *)
(* RuleLocker is well formed, keeps its locks exclusive while their leases *)
(* live, and implements LockService.                                       *)
(***************************************************************************)
EXTENDS RuleLocker, TLAPS

\* Creating a key touches only that key, keeps the keys of live leases
\* ordered, and does not put anything before a key that is already there.
LEMMA CreateKeyLemma ==
    ASSUME TypeOK, QueueInv, NEW k \in LockKeys, NEW s \in Sessions, s \in alive,
           CreateKey(k, s), UNCHANGED alive
    PROVE  /\ queue' \in [LockKeys -> SUBSET Sessions]
           /\ before' \in [LockKeys -> [Sessions -> SUBSET Sessions]]
           /\ QueueInv'
           /\ s \in queue'[k]
           /\ \A l \in LockKeys, t \in Sessions :
                <<l, t>> # <<k, s>> => (t \in queue'[l] <=> t \in queue[l]) /\ before'[l][t] = before[l][t]
           /\ \A l \in LockKeys, t \in Sessions : Owns(l, t) => Owns(l, t)'
  <1>1. CASE s \in queue[k]
    BY <1>1 DEF CreateKey, TypeOK, QueueInv, Owns
  <1>2. CASE s \notin queue[k]
    <2>1. /\ queue' = [queue EXCEPT ![k] = @ \cup {s}]
          /\ before' = [before EXCEPT ![k][s] = queue[k]]
      BY <1>2 DEF CreateKey
    <2>2. /\ queue' \in [LockKeys -> SUBSET Sessions]
          /\ before' \in [LockKeys -> [Sessions -> SUBSET Sessions]]
      BY <2>1 DEF TypeOK
    <2>3. \A l \in LockKeys, t \in Sessions :
            <<l, t>> # <<k, s>> => (t \in queue'[l] <=> t \in queue[l]) /\ before'[l][t] = before[l][t]
      BY <2>1 DEF TypeOK
    <2>4. queue'[k] = queue[k] \cup {s} /\ before'[k][s] = queue[k]
      BY <2>1 DEF TypeOK
    <2>5. QueueInv'
      BY <2>1, <2>2, <2>3, <2>4 DEF TypeOK, QueueInv
    <2> QED  BY <1>2, <2>2, <2>3, <2>4, <2>5 DEF Owns
  <1> QED  BY <1>1, <1>2

\* Deleting a session's keys touches no other key and leaves the owners of
\* the remaining ones owners.
LEMMA DeleteKeysLemma ==
    ASSUME TypeOK, QueueInv, NEW K \in SUBSET LockKeys, NEW s \in Sessions, DeleteKeys(K, s),
           \/ alive' = alive
           \/ alive' = alive \ {s} /\ K = LockKeys
    PROVE  /\ queue' \in [LockKeys -> SUBSET Sessions]
           /\ before' \in [LockKeys -> [Sessions -> SUBSET Sessions]]
           /\ QueueInv'
           /\ \A l \in LockKeys : queue'[l] \subseteq queue[l]
           /\ \A l \in LockKeys, t \in Sessions :
                Owns(l, t) /\ ~(l \in K /\ t = s) => Owns(l, t)'
  <1>1. /\ queue' = [k \in LockKeys |-> IF k \in K THEN queue[k] \ {s} ELSE queue[k]]
        /\ before' = [k \in LockKeys |->
                        IF k \in K
                        THEN [t \in Sessions |-> IF t = s THEN {} ELSE before[k][t] \ {s}]
                        ELSE before[k]]
    BY DEF DeleteKeys
  <1>2. /\ queue' \in [LockKeys -> SUBSET Sessions]
        /\ before' \in [LockKeys -> [Sessions -> SUBSET Sessions]]
    BY <1>1 DEF TypeOK
  <1>3. \A l \in LockKeys : queue'[l] = IF l \in K THEN queue[l] \ {s} ELSE queue[l]
    BY <1>1
  <1>4. \A l \in LockKeys, t \in Sessions :
            before'[l][t] = IF l \in K THEN IF t = s THEN {} ELSE before[l][t] \ {s} ELSE before[l][t]
    BY <1>1
  <1>5. QueueInv'
    <2> SUFFICES ASSUME NEW l \in LockKeys
                 PROVE  /\ queue'[l] \subseteq alive'
                        /\ \A t, u \in queue'[l] : t = u \/ t \in before'[l][u] \/ u \in before'[l][t]
      BY DEF QueueInv
    <2>1. queue[l] \subseteq Sessions /\ queue[l] \subseteq alive
      BY DEF TypeOK, QueueInv
    <2>2. queue'[l] = queue[l] \/ (queue'[l] = queue[l] \ {s} /\ l \in K)
      BY <1>3, Zenon
    <2>3. queue'[l] \subseteq alive'
      BY <2>1, <2>2, <1>3, Zenon
    <2>4. ASSUME NEW t \in queue'[l], NEW u \in queue'[l]
          PROVE  t = u \/ t \in before'[l][u] \/ u \in before'[l][t]
      <3>1. t \in queue[l] /\ u \in queue[l] /\ t \in Sessions /\ u \in Sessions
        BY <2>1, <2>2
      <3>2. t = u \/ t \in before[l][u] \/ u \in before[l][t]
        BY <3>1 DEF QueueInv
      <3>3. l \in K => t # s /\ u # s
        BY <1>3, Zenon
      <3> QED  BY <1>4, <3>1, <3>2, <3>3, Zenon
    <2> QED  BY <2>3, <2>4
  <1>6. \A l \in LockKeys, t \in Sessions :
            Owns(l, t) /\ ~(l \in K /\ t = s) => Owns(l, t)'
    BY <1>3, <1>4, ZenonT(60) DEF Owns
  <1> QED  BY <1>2, <1>3, <1>5, <1>6

\* Two goroutines never use one session for one key.
LEMMA Distinct ==
    ASSUME LockInv, NEW v \in Workers, NEW w \in Workers, v # w,
           pc[v] # "idle", pc[w] # "idle", sess[v] \in Sessions, key[v] = key[w]
    PROVE  sess[v] # sess[w]
  <1>1. CASE SharesSession(v)
    BY <1>1 DEF LockInv, SessionInv, MapInv, LocalExclusion
  <1>2. CASE ~SharesSession(v)
    BY <1>2 DEF LockInv, SessionInv
  <1> QED  BY <1>1, <1>2

\* A step does not disturb what goroutine v holds ...
Keeps(v) ==
    pc[v] \in {"held", "check"} =>
        /\ sess[v] \in alive' => sess[v] \in alive
        /\ sess[v] \in queue'[key[v]] => sess[v] \in queue[key[v]]
        /\ Owns(key[v], sess[v]) /\ sess[v] \in alive'
            => sess[v] \in queue'[key[v]] /\ before'[key[v]][sess[v]] = {}

\* ... nor what any goroutine but w holds.
OthersKeep(w) == \A v \in Workers \ {w} : Keeps(v)

\* A goroutine that creates its own key does not disturb the others.
LEMMA CreateKeepsOthers ==
    ASSUME LockInv, NEW w \in Workers, pc[w] # "idle", sess[w] \in alive,
           CreateKey(key[w], sess[w]), UNCHANGED alive
    PROVE  OthersKeep(w)
  <1> SUFFICES ASSUME NEW v \in Workers \ {w}, pc[v] \in {"held", "check"}
               PROVE  /\ sess[v] \in queue'[key[v]] => sess[v] \in queue[key[v]]
                      /\ Owns(key[v], sess[v]) => sess[v] \in queue'[key[v]] /\ before'[key[v]][sess[v]] = {}
    BY DEF OthersKeep, Keeps
  <1>1. /\ key[v] \in LockKeys /\ sess[v] \in Sessions /\ key[w] \in LockKeys /\ sess[w] \in Sessions
        /\ TypeOK /\ QueueInv
    BY DEF LockInv, TypeOK
  <1>2. <<key[v], sess[v]>> # <<key[w], sess[w]>>
    BY <1>1, Distinct
  <1> QED  BY <1>1, <1>2, CreateKeyLemma, SMTT(60) DEF Owns

\* A goroutine that deletes its own key, or fails to, does not disturb the
\* others.
LEMMA DeleteKeepsOthers ==
    ASSUME LockInv, NEW w \in Workers, pc[w] # "idle", sess[w] \in Sessions,
           TryDeleteKey(key[w], sess[w]), UNCHANGED alive
    PROVE  /\ OthersKeep(w) /\ QueueInv'
           /\ queue' \in [LockKeys -> SUBSET Sessions]
           /\ before' \in [LockKeys -> [Sessions -> SUBSET Sessions]]
  <1>1. TypeOK /\ QueueInv /\ key[w] \in LockKeys
    BY DEF LockInv, TypeOK
  <1>2. CASE UNCHANGED <<queue, before>>
    BY <1>1, <1>2 DEF OthersKeep, Keeps, Owns, QueueInv, TypeOK
  <1>3. CASE DeleteKeys({key[w]}, sess[w])
    <2>1. /\ QueueInv'
          /\ queue' \in [LockKeys -> SUBSET Sessions]
          /\ before' \in [LockKeys -> [Sessions -> SUBSET Sessions]]
          /\ \A l \in LockKeys : queue'[l] \subseteq queue[l]
          /\ \A l \in LockKeys, t \in Sessions :
                Owns(l, t) /\ ~(l \in {key[w]} /\ t = sess[w]) => Owns(l, t)'
      BY <1>1, <1>3, DeleteKeysLemma, Zenon
    <2>2. OthersKeep(w)
      <3> SUFFICES ASSUME NEW v \in Workers \ {w}, pc[v] \in {"held", "check"}
                   PROVE  /\ sess[v] \in queue'[key[v]] => sess[v] \in queue[key[v]]
                          /\ Owns(key[v], sess[v]) => sess[v] \in queue'[key[v]] /\ before'[key[v]][sess[v]] = {}
        BY DEF OthersKeep, Keeps
      <3>1. key[v] \in LockKeys /\ sess[v] \in Sessions
        BY <1>1 DEF TypeOK
      <3>2. ~(key[v] \in {key[w]} /\ sess[v] = sess[w])
        BY <3>1, Distinct
      <3> QED  BY <3>1, <3>2, <2>1 DEF Owns
    <2> QED  BY <2>1, <2>2
  <1> QED  BY <1>2, <1>3 DEF TryDeleteKey

\* To show HeldInv' it is enough to look at the goroutine that moves.
LEMMA OthersHeld ==
    ASSUME LockInv, NEW w \in Workers,
           \A v \in Workers \ {w} : pc'[v] = pc[v] /\ key'[v] = key[v] /\ sess'[v] = sess[v],
           OthersKeep(w), QueueInv', TypeOK',
           pc'[w] = "held" /\ sess'[w] \in alive' => Owns(key[w], sess[w])',
           pc'[w] = "check" /\ sess'[w] \in queue'[key'[w]] => Owns(key[w], sess[w])'
    PROVE  HeldInv'
  <1>1. ASSUME NEW v \in Workers, pc'[v] = "held", sess'[v] \in alive'
        PROVE  Owns(key[v], sess[v])'
    BY <1>1 DEF LockInv, HeldInv, HeldKeyBacked, Owns, OthersKeep, Keeps
  <1>2. ASSUME NEW v \in Workers, pc'[v] = "check", sess'[v] \in queue'[key'[v]]
        PROVE  Owns(key[v], sess[v])'
    <2>1. sess'[v] \in alive'
      BY <1>2 DEF QueueInv, TypeOK
    <2> QED  BY <1>2, <2>1 DEF LockInv, HeldInv, Owns, OthersKeep, Keeps
  <1> QED  BY <1>1, <1>2 DEF HeldInv, HeldKeyBacked

--------------------------------------------------------------------------------
(* The invariant is preserved: one lemma for each action. *)

\* A goroutine that locks its key locally has it to itself in its engine.
LEMMA LockStep ==
    ASSUME LockInv, NEW w \in Workers, NEW k \in LockKeys, Lock(w, k)
    PROVE  LockInv'
  <1> USE DEF LockInv
  <1>1. /\ \A v \in Workers \ {w} : pc'[v] = pc[v] /\ key'[v] = key[v] /\ sess'[v] = sess[v]
        /\ pc'[w] = "session" /\ key'[w] = k /\ sess'[w] = sess[w]
    BY DEF Lock, TypeOK
  <1>2. TypeOK'
    BY RuleLockerAssumption, <1>1 DEF Lock, TypeOK, PCs
  <1>3. QueueInv' /\ SessionInv'
    BY DEF Lock, QueueInv, SessionInv
  <1>4. MapInv'
    <2>1. CASE SharesSession(w)
      <3>1. /\ k \notin locked[EngineOf[w]]
            /\ \A e \in Engines : locked'[e] = IF e = EngineOf[w] THEN locked[e] \cup {k} ELSE locked[e]
        BY <2>1, RuleLockerAssumption DEF Lock, TypeOK
      <3>2. \A v \in Workers : EngineOf[v] \in Engines
        BY RuleLockerAssumption
      <3>3. \A v \in Workers : SharesSession(v) /\ pc'[v] # "idle" => key'[v] \in locked'[EngineOf[v]]
        BY <2>1, <3>1, <3>2, <1>1, Zenon DEF MapInv
      <3>4. \A v \in Workers \ {w} : EngineOf[v] = EngineOf[w] /\ pc[v] # "idle" => key[v] # k
        BY <2>1, <3>1, <3>2 DEF MapInv, SharesSession
      <3>5. LocalExclusion'
        BY <3>4, <1>1 DEF MapInv, LocalExclusion, SharesSession
      <3> QED  BY <3>3, <3>5 DEF MapInv
    <2>2. CASE ~SharesSession(w)
      BY <2>2, <1>1 DEF Lock, MapInv, LocalExclusion, SharesSession
    <2> QED  BY <2>1, <2>2
  <1>5. HeldInv'
    BY OthersHeld, <1>1, <1>2, <1>3 DEF Lock, Owns, OthersKeep, Keeps
  <1> QED  BY <1>2, <1>3, <1>4, <1>5

\* A session handed out is the engine's own and, unless shared, nobody else's.
LEMMA GetSessionStep ==
    ASSUME LockInv, NEW w \in Workers, GetCurrentSession(w) \/ NewSessionReturns(w)
    PROVE  LockInv'
  <1> USE DEF LockInv
  <1>0. EngineOf[w] \in Engines
    BY RuleLockerAssumption
  <1>1. PICK s \in Sessions :
            /\ sess' = [sess EXCEPT ![w] = s]
            /\ Home[s] = EngineOf[w]
            /\ \/ UNCHANGED <<current, kept, alive>> /\ SharesSession(w)
               \/ /\ \A v \in Workers : sess[v] # s
                  /\ current' = IF SharesSession(w) THEN [current EXCEPT ![EngineOf[w]] = s] ELSE current
                  /\ alive' = alive \cup {s}
                  /\ kept' = kept \cup {s}
    <2>1. CASE GetCurrentSession(w)
      BY <2>1, <1>0, ZenonT(60) DEF GetCurrentSession, TypeOK, SessionInv
    <2>2. CASE NewSessionReturns(w)
      BY <2>2, Zenon DEF NewSessionReturns, NewSession, Fresh
    <2> QED  BY <2>1, <2>2
  <1>2. /\ pc' = [pc EXCEPT ![w] = "txn"]
        /\ UNCHANGED <<key, locked, queue, before>>
        /\ pc[w] \in {"session", "new"}
    BY DEF GetCurrentSession, NewSessionReturns
  <1>3. /\ \A v \in Workers \ {w} : pc'[v] = pc[v] /\ key'[v] = key[v] /\ sess'[v] = sess[v]
        /\ pc'[w] = "txn" /\ key'[w] = key[w] /\ sess'[w] = s
    BY <1>1, <1>2 DEF TypeOK
  <1>4. TypeOK'
    BY <1>0, <1>1, <1>2, <1>3 DEF TypeOK, PCs
  <1>5. QueueInv'
    BY <1>1, <1>2 DEF QueueInv
  <1>6. SessionInv'
    <2>1. \A v \in Workers : sess'[v] \in Sessions => Home[sess'[v]] = EngineOf[v]
      BY <1>1, <1>3 DEF SessionInv
    <2>2. \A e \in Engines : current'[e] \in Sessions => Home[current'[e]] = e
      BY <1>0, <1>1 DEF SessionInv, TypeOK
    <2>3. ASSUME NEW u \in Workers, NEW v \in Workers, ~SharesSession(u), sess'[u] \in Sessions,
                 sess'[u] = sess'[v], u # v
          PROVE  FALSE
      <3>1. CASE u # w /\ v # w
        BY <2>3, <3>1, <1>3 DEF SessionInv
      <3>2. CASE u = w
        BY <2>3, <3>2, <1>1, <1>3
      <3>3. CASE v = w
        <4>1. sess[u] = s /\ u # w
          BY <2>3, <3>3, <1>3
        <4>2. SharesSession(w) /\ EngineOf[u] = EngineOf[w]
          BY <4>1, <1>1 DEF SessionInv
        <4> QED  BY <2>3, <4>2 DEF SharesSession
      <3> QED  BY <3>1, <3>2, <3>3
    <2> QED  BY <2>1, <2>2, <2>3 DEF SessionInv
  <1>7. MapInv'
    BY <1>2, <1>3 DEF MapInv, LocalExclusion
  <1>8. HeldInv'
    <2>1. OthersKeep(w)
      BY <1>1, <1>2, <1>3 DEF Owns, OthersKeep, Keeps
    <2> QED  BY <2>1, OthersHeld, <1>3, <1>4, <1>5
  <1> QED  BY <1>4, <1>5, <1>6, <1>7, <1>8

\* Every failed attempt ends alike.
LEMMA FailStep ==
    ASSUME LockInv, NEW w \in Workers, pc[w] # "idle", Fail(w),
           UNCHANGED <<locked, current, kept, alive>>,
           queue' \in [LockKeys -> SUBSET Sessions],
           before' \in [LockKeys -> [Sessions -> SUBSET Sessions]],
           QueueInv', OthersKeep(w)
    PROVE  LockInv'
  <1> USE DEF LockInv
  <1>1. /\ \A v \in Workers \ {w} : pc'[v] = pc[v] /\ key'[v] = key[v] /\ sess'[v] = sess[v]
        /\ SharesSession(w) => pc'[w] = "mapUnlock" /\ key'[w] = key[w]
        /\ ~SharesSession(w) => pc'[w] = "idle" /\ key'[w] = NoKey
        /\ sess'[w] = NoSession
    BY DEF Fail, TypeOK
  <1>2. /\ pc' \in [Workers -> PCs]
        /\ key' \in [Workers -> LockKeys \cup {NoKey}]
        /\ sess' \in [Workers -> Sessions \cup {NoSession}]
    BY DEF Fail, TypeOK, PCs
  <1>3. TypeOK'
    BY <1>1, <1>2, Zenon DEF TypeOK
  <1>4. SessionInv'
    BY <1>1, RuleLockerAssumption, SMTT(60) DEF SessionInv
  <1>5. MapInv'
    BY <1>1 DEF MapInv, LocalExclusion
  <1>6. HeldInv'
    BY <1>1, <1>3, OthersHeld
  <1> QED  BY <1>3, <1>4, <1>5, <1>6

\* An attempt without a session holds nothing in etcd.
LEMMA NewSessionFailsStep ==
    ASSUME LockInv, NEW w \in Workers, NewSessionFails(w)
    PROVE  LockInv'
  <1>1. QueueInv' /\ OthersKeep(w)
    BY DEF NewSessionFails, LockInv, QueueInv, OthersKeep, Keeps, Owns
  <1> QED  BY <1>1, FailStep DEF NewSessionFails, LockInv, TypeOK

\* A transaction that reports an error may have queued a key, behind the others.
LEMMA TryAcquireFailsStep ==
    ASSUME LockInv, NEW w \in Workers, TryAcquireFails(w)
    PROVE  LockInv'
  <1>1. pc[w] = "txn" /\ TypeOK /\ QueueInv /\ key[w] \in LockKeys /\ sess[w] \in Sessions
    BY DEF TryAcquireFails, LockInv, TypeOK
  <1>2. CASE UNCHANGED <<queue, before>>
    <2>1. QueueInv' /\ OthersKeep(w)
      BY <1>1, <1>2 DEF TryAcquireFails, QueueInv, OthersKeep, Keeps, Owns
    <2> QED  BY <1>1, <1>2, <2>1, FailStep DEF TryAcquireFails, TypeOK
  <1>3. CASE sess[w] \in alive /\ CreateKey(key[w], sess[w])
    <2>1. /\ QueueInv'
          /\ queue' \in [LockKeys -> SUBSET Sessions]
          /\ before' \in [LockKeys -> [Sessions -> SUBSET Sessions]]
      BY <1>1, <1>3, CreateKeyLemma DEF TryAcquireFails
    <2>2. OthersKeep(w)
      BY <1>1, <1>3, CreateKeepsOthers DEF TryAcquireFails
    <2> QED  BY <1>1, <2>1, <2>2, FailStep DEF TryAcquireFails
  <1> QED  BY <1>2, <1>3 DEF TryAcquireFails

\* An attempt that gives up deletes no key but its own session's, which nobody
\* else of its engine holds.
LEMMA AbandonStep ==
    ASSUME LockInv, NEW w \in Workers, Abandon(w)
    PROVE  LockInv'
  <1>1. pc[w] # "idle" /\ sess[w] \in Sessions
    BY DEF Abandon, LockInv, TypeOK
  <1>2. /\ OthersKeep(w) /\ QueueInv'
        /\ queue' \in [LockKeys -> SUBSET Sessions]
        /\ before' \in [LockKeys -> [Sessions -> SUBSET Sessions]]
    BY <1>1, DeleteKeepsOthers DEF Abandon
  <1> QED  BY <1>1, <1>2, FailStep DEF Abandon

\* A goroutine that only moves its program counter, neither from nor to idle.
LEMMA MoveKeeps ==
    ASSUME LockInv, NEW w \in Workers, NEW p \in PCs, pc[w] # "idle", p # "idle",
           pc' = [pc EXCEPT ![w] = p],
           UNCHANGED <<key, sess, locked, current, kept, alive>>,
           p \in {"txn", "wait", "check", "held", "close"} => sess[w] \in Sessions,
           queue' \in [LockKeys -> SUBSET Sessions],
           before' \in [LockKeys -> [Sessions -> SUBSET Sessions]]
    PROVE  /\ TypeOK' /\ SessionInv' /\ MapInv'
           /\ \A v \in Workers \ {w} : pc'[v] = pc[v] /\ key'[v] = key[v] /\ sess'[v] = sess[v]
           /\ pc'[w] = p
  <1>1. (\A v \in Workers \ {w} : pc'[v] = pc[v] /\ key'[v] = key[v] /\ sess'[v] = sess[v]) /\ pc'[w] = p
    BY DEF LockInv, TypeOK
  <1>2. TypeOK'
    BY <1>1 DEF LockInv, TypeOK
  <1>3. SessionInv'
    BY DEF LockInv, SessionInv
  <1>4. MapInv'
    BY <1>1 DEF LockInv, MapInv, LocalExclusion
  <1> QED  BY <1>1, <1>2, <1>3, <1>4

\* Who goes on to make a session has none yet.
LEMMA CallNewSessionStep ==
    ASSUME LockInv, NEW w \in Workers, CallNewSession(w)
    PROVE  LockInv'
  <1>1. pc[w] = "session" /\ TypeOK
    BY DEF CallNewSession, LockInv
  <1>2. QueueInv' /\ OthersKeep(w)
    BY DEF CallNewSession, LockInv, QueueInv, OthersKeep, Keeps, Owns
  <1>3. /\ TypeOK' /\ SessionInv' /\ MapInv'
        /\ \A v \in Workers \ {w} : pc'[v] = pc[v] /\ key'[v] = key[v] /\ sess'[v] = sess[v]
        /\ pc'[w] = "new"
    BY <1>1, MoveKeeps, Zenon DEF CallNewSession, PCs, TypeOK
  <1>4. HeldInv'
    BY <1>2, <1>3, OthersHeld
  <1> QED  BY <1>2, <1>3, <1>4 DEF LockInv

\* Who finds no older key owns the lock.
LEMMA TryAcquireStep ==
    ASSUME LockInv, NEW w \in Workers, TryAcquire(w)
    PROVE  LockInv'
  <1> DEFINE p == IF before'[key[w]][sess[w]] = {} THEN "held" ELSE "wait"
  <1>1. /\ pc[w] = "txn" /\ TypeOK /\ QueueInv /\ key[w] \in LockKeys /\ sess[w] \in Sessions
        /\ UNCHANGED <<key, sess, locked, current, kept, alive>>
    BY DEF TryAcquire, LockInv, TypeOK
  <1>2. /\ QueueInv' /\ sess[w] \in queue'[key[w]]
        /\ queue' \in [LockKeys -> SUBSET Sessions]
        /\ before' \in [LockKeys -> [Sessions -> SUBSET Sessions]]
    BY <1>1, CreateKeyLemma DEF TryAcquire
  <1>3. OthersKeep(w)
    BY <1>1, CreateKeepsOthers DEF TryAcquire
  <1>4. p \in PCs /\ p # "idle" /\ p # "check" /\ pc' = [pc EXCEPT ![w] = p]
    BY DEF TryAcquire, PCs
  <1> HIDE DEF p
  <1>5. /\ TypeOK' /\ SessionInv' /\ MapInv'
        /\ \A v \in Workers \ {w} : pc'[v] = pc[v] /\ key'[v] = key[v] /\ sess'[v] = sess[v]
        /\ pc'[w] = p
    BY <1>1, <1>2, <1>4, MoveKeeps, Zenon
  <1>6. p = "held" => Owns(key[w], sess[w])'
    BY <1>1, <1>2 DEF p, Owns
  <1>7. HeldInv'
    BY <1>2, <1>3, <1>4, <1>5, <1>6, OthersHeld
  <1> QED  BY <1>2, <1>5, <1>7 DEF LockInv

\* Who has waited is first in line if its key is still there.
LEMMA WaitDeletesStep ==
    ASSUME LockInv, NEW w \in Workers, WaitDeletes(w)
    PROVE  LockInv'
  <1>1. pc[w] = "wait" /\ TypeOK /\ sess[w] \in Sessions /\ before[key[w]][sess[w]] = {}
    BY DEF WaitDeletes, LockInv, TypeOK
  <1>2. QueueInv' /\ OthersKeep(w)
    BY DEF WaitDeletes, LockInv, QueueInv, OthersKeep, Keeps, Owns
  <1>3. /\ TypeOK' /\ SessionInv' /\ MapInv'
        /\ \A v \in Workers \ {w} : pc'[v] = pc[v] /\ key'[v] = key[v] /\ sess'[v] = sess[v]
        /\ pc'[w] = "check"
    BY <1>1, MoveKeeps, Zenon DEF WaitDeletes, PCs, TypeOK
  <1>4. HeldInv'
    BY <1>1, <1>2, <1>3, OthersHeld DEF WaitDeletes, Owns
  <1> QED  BY <1>2, <1>3, <1>4 DEF LockInv

\* Who finds its key after waiting owns the lock.
LEMMA CheckKeyStep ==
    ASSUME LockInv, NEW w \in Workers, CheckKey(w)
    PROVE  LockInv'
  <1>1. pc[w] = "check" /\ TypeOK /\ sess[w] \in Sessions /\ Owns(key[w], sess[w])
    BY DEF CheckKey, LockInv, TypeOK, HeldInv
  <1>2. QueueInv' /\ OthersKeep(w)
    BY DEF CheckKey, LockInv, QueueInv, OthersKeep, Keeps, Owns
  <1>3. /\ TypeOK' /\ SessionInv' /\ MapInv'
        /\ \A v \in Workers \ {w} : pc'[v] = pc[v] /\ key'[v] = key[v] /\ sess'[v] = sess[v]
        /\ pc'[w] = "held"
    BY <1>1, MoveKeeps, Zenon DEF CheckKey, PCs, TypeOK
  <1>4. HeldInv'
    BY <1>1, <1>2, <1>3, OthersHeld DEF CheckKey, Owns
  <1> QED  BY <1>2, <1>3, <1>4 DEF LockInv

\* An unlock deletes no key another goroutine holds.
LEMMA UnlockStep ==
    ASSUME LockInv, NEW w \in Workers, Unlock(w)
    PROVE  LockInv'
  <1> DEFINE p == IF SharesSession(w) THEN "mapUnlock" ELSE "close"
  <1>1. pc[w] = "held" /\ sess[w] \in Sessions
    BY DEF Unlock, LockInv, TypeOK
  <1>2. /\ OthersKeep(w) /\ QueueInv'
        /\ queue' \in [LockKeys -> SUBSET Sessions]
        /\ before' \in [LockKeys -> [Sessions -> SUBSET Sessions]]
    BY <1>1, DeleteKeepsOthers DEF Unlock
  <1>3. /\ p \in PCs \ {"idle", "held", "check"} /\ pc' = [pc EXCEPT ![w] = p]
        /\ UNCHANGED <<key, sess, locked, current, kept, alive>>
    BY DEF Unlock, PCs
  <1> HIDE DEF p
  <1>4. /\ TypeOK' /\ SessionInv' /\ MapInv'
        /\ \A v \in Workers \ {w} : pc'[v] = pc[v] /\ key'[v] = key[v] /\ sess'[v] = sess[v]
        /\ pc'[w] = p
    BY <1>1, <1>2, <1>3, MoveKeeps, Zenon
  <1>5. HeldInv'
    BY <1>2, <1>3, <1>4, OthersHeld
  <1> QED  BY <1>2, <1>4, <1>5 DEF LockInv

\* The end of a lease disturbs only those who hold under it, and they no
\* longer count.
LEMMA EndLeaseKeeps ==
    ASSUME LockInv, NEW s \in Sessions, EndLease(s)
    PROVE  /\ \A v \in Workers : Keeps(v)
           /\ QueueInv'
           /\ alive' \in SUBSET Sessions
           /\ queue' \in [LockKeys -> SUBSET Sessions]
           /\ before' \in [LockKeys -> [Sessions -> SUBSET Sessions]]
  <1>1. TypeOK /\ QueueInv /\ alive' = alive \ {s} /\ DeleteKeys(LockKeys, s)
    BY DEF LockInv, EndLease
  <1>2. /\ QueueInv'
        /\ queue' \in [LockKeys -> SUBSET Sessions]
        /\ before' \in [LockKeys -> [Sessions -> SUBSET Sessions]]
        /\ \A l \in LockKeys : queue'[l] \subseteq queue[l]
        /\ \A l \in LockKeys, t \in Sessions :
                Owns(l, t) /\ ~(l \in LockKeys /\ t = s) => Owns(l, t)'
    BY <1>1, DeleteKeysLemma, Zenon
  <1>3. ASSUME NEW v \in Workers PROVE Keeps(v)
    <2> SUFFICES ASSUME pc[v] \in {"held", "check"}
                 PROVE  /\ sess[v] \in queue'[key[v]] => sess[v] \in queue[key[v]]
                        /\ Owns(key[v], sess[v]) /\ sess[v] \in alive'
                            => sess[v] \in queue'[key[v]] /\ before'[key[v]][sess[v]] = {}
      BY <1>1 DEF Keeps
    <2>1. key[v] \in LockKeys /\ sess[v] \in Sessions
      BY <1>1 DEF TypeOK
    <2> QED  BY <1>1, <1>2, <2>1 DEF Owns
  <1> QED  BY <1>1, <1>2, <1>3 DEF TypeOK

\* A lease that ends takes only the keys of its own session.
LEMMA LeaseExpiresStep ==
    ASSUME LockInv, NEW s \in Sessions, LeaseExpires(s)
    PROVE  LockInv'
  <1> USE DEF LockInv
  <1>1. /\ \A v \in Workers : Keeps(v)
        /\ QueueInv'
        /\ alive' \in SUBSET Sessions
        /\ queue' \in [LockKeys -> SUBSET Sessions]
        /\ before' \in [LockKeys -> [Sessions -> SUBSET Sessions]]
    BY EndLeaseKeeps DEF LeaseExpires
  <1>2. TypeOK'
    BY <1>1 DEF LeaseExpires, TypeOK
  <1>3. SessionInv' /\ MapInv'
    BY DEF LeaseExpires, SessionInv, MapInv, LocalExclusion
  <1>4. \A v \in Workers : pc[v] = "held" /\ sess[v] \in alive' => Owns(key[v], sess[v])'
    BY <1>1, ZenonT(60) DEF LeaseExpires, Keeps, HeldInv, HeldKeyBacked, Owns
  <1>5. \A v \in Workers : pc[v] = "check" /\ sess[v] \in queue'[key[v]] => Owns(key[v], sess[v])'
    BY <1>1, <1>2, SMTT(60) DEF LeaseExpires, Keeps, HeldInv, QueueInv, TypeOK, Owns
  <1>6. HeldInv'
    BY <1>4, <1>5 DEF LeaseExpires, HeldInv, HeldKeyBacked
  <1> QED  BY <1>1, <1>2, <1>3, <1>6

\* Closing a session of one's own takes no key another goroutine holds.
LEMMA CloseSessionStep ==
    ASSUME LockInv, NEW w \in Workers, CloseSession(w)
    PROVE  LockInv'
  <1> USE DEF LockInv
  <1>1. pc[w] = "close" /\ sess[w] \in Sessions /\ UNCHANGED <<locked, current>>
    BY DEF CloseSession, TypeOK
  <1>2. /\ \A v \in Workers : Keeps(v)
        /\ QueueInv'
        /\ alive' \in SUBSET Sessions
        /\ queue' \in [LockKeys -> SUBSET Sessions]
        /\ before' \in [LockKeys -> [Sessions -> SUBSET Sessions]]
    <2>1. CASE EndLease(sess[w])
      BY <1>1, <2>1, EndLeaseKeeps
    <2>2. CASE UNCHANGED etcdVars
      BY <2>2 DEF etcdVars, QueueInv, TypeOK, Keeps, Owns
    <2> QED  BY <2>1, <2>2 DEF CloseSession
  <1>3. /\ \A v \in Workers \ {w} : pc'[v] = pc[v] /\ key'[v] = key[v] /\ sess'[v] = sess[v]
        /\ pc'[w] = "idle" /\ key'[w] = NoKey /\ sess'[w] = NoSession
    BY DEF CloseSession, TypeOK
  <1>4. TypeOK'
    BY <1>1, <1>2, <1>3, SMTT(60) DEF CloseSession, TypeOK, PCs
  <1>5. SessionInv'
    BY <1>1, <1>3, RuleLockerAssumption DEF SessionInv
  <1>6. MapInv'
    BY <1>1, <1>3 DEF MapInv, LocalExclusion
  <1>7. HeldInv'
    BY <1>2, <1>3, <1>4, OthersHeld DEF OthersKeep
  <1> QED  BY <1>2, <1>4, <1>5, <1>6, <1>7

\* The local lock is let go when its goroutine has nothing left in etcd to do.
LEMMA MapUnlockStep ==
    ASSUME LockInv, NEW w \in Workers, MapUnlock(w)
    PROVE  LockInv'
  <1> USE DEF LockInv
  <1>1. /\ \A v \in Workers \ {w} : pc'[v] = pc[v] /\ key'[v] = key[v] /\ sess'[v] = sess[v]
        /\ pc'[w] = "idle" /\ key'[w] = NoKey /\ sess'[w] = NoSession /\ pc[w] # "idle"
    BY DEF MapUnlock, TypeOK
  <1>2. \A v \in Workers : EngineOf[v] \in Engines
    BY RuleLockerAssumption
  <1>3. TypeOK'
    BY <1>1, <1>2 DEF MapUnlock, TypeOK, PCs
  <1>4. QueueInv' /\ OthersKeep(w)
    BY DEF MapUnlock, QueueInv, OthersKeep, Keeps, Owns
  <1>5. SessionInv'
    BY <1>1, RuleLockerAssumption DEF MapUnlock, SessionInv
  <1>6. MapInv'
    <2>1. \A e \in Engines : locked'[e] = IF e = EngineOf[w] THEN locked[e] \ {key[w]} ELSE locked[e]
      BY <1>2, Zenon DEF MapUnlock, TypeOK
    <2>2. LocalExclusion'
      BY <1>1 DEF MapInv, LocalExclusion
    <2>3. ASSUME NEW v \in Workers, SharesSession(v), pc'[v] # "idle"
          PROVE  key'[v] \in locked'[EngineOf[v]]
      <3>1. v # w /\ pc[v] # "idle" /\ key'[v] = key[v] /\ key[v] \in locked[EngineOf[v]]
        BY <1>1, <2>3 DEF MapInv
      <3>2. EngineOf[v] = EngineOf[w] => key[v] # key[w]
        BY <1>1, <2>3, <3>1 DEF MapInv, LocalExclusion
      <3> QED  BY <1>2, <2>1, <3>1, <3>2, Zenon
    <2> QED  BY <2>2, <2>3 DEF MapInv
  <1>7. HeldInv'
    BY <1>1, <1>3, <1>4, OthersHeld
  <1> QED  BY <1>3, <1>4, <1>5, <1>6, <1>7

\* Steps of the session manager and the keepalives touch no mutex.
LEMMA SessionStep ==
    ASSUME LockInv, (\E s \in Sessions : KeepAliveEnds(s)) \/ (\E e \in Engines : ClearSession(e))
    PROVE  LockInv'
  <1> USE DEF LockInv
  <1>1. ASSUME NEW s \in Sessions, KeepAliveEnds(s)
        PROVE  LockInv'
    BY <1>1 DEF KeepAliveEnds, TypeOK, QueueInv, SessionInv, MapInv, LocalExclusion, HeldInv, HeldKeyBacked, Owns
  <1>2. ASSUME NEW e \in Engines, ClearSession(e)
        PROVE  LockInv'
    <2>1. TypeOK'
      BY <1>2 DEF ClearSession, TypeOK
    <2>2. SessionInv'
      BY <1>2, RuleLockerAssumption, SMTT(60) DEF ClearSession, SessionInv, TypeOK
    <2>3. QueueInv' /\ HeldInv'
      BY <1>2, ZenonT(60) DEF ClearSession, QueueInv, HeldInv, HeldKeyBacked, Owns
    <2>4. MapInv'
      BY <1>2 DEF ClearSession, MapInv, LocalExclusion
    <2> QED  BY <2>1, <2>2, <2>3, <2>4
  <1> QED  BY <1>1, <1>2, SMTT(60)

\* A crash forgets all of an engine and changes nothing in etcd.
LEMMA CrashStep ==
    ASSUME LockInv, NEW e \in Engines, Crash(e)
    PROVE  LockInv'
  <1> USE DEF LockInv
  <1>1. /\ \A v \in Workers : EngineOf[v] = e => pc'[v] = "idle" /\ key'[v] = NoKey /\ sess'[v] = NoSession
        /\ \A v \in Workers : EngineOf[v] # e => pc'[v] = pc[v] /\ key'[v] = key[v] /\ sess'[v] = sess[v]
    BY Zenon DEF Crash
  <1>2. /\ pc' \in [Workers -> PCs]
        /\ key' \in [Workers -> LockKeys \cup {NoKey}]
        /\ sess' \in [Workers -> Sessions \cup {NoSession}]
    BY DEF Crash, TypeOK, PCs
  <1>3. TypeOK'
    BY <1>1, <1>2, SMTT(60) DEF Crash, TypeOK
  <1>4. QueueInv'
    BY DEF Crash, QueueInv
  <1>5. SessionInv'
    <2>1. \A f \in Engines : current'[f] = IF f = e THEN NoSession ELSE current[f]
      BY DEF Crash, TypeOK
    <2> QED  BY <1>1, <2>1, RuleLockerAssumption DEF SessionInv
  <1>6. MapInv'
    <2>1. \A f \in Engines : f # e => locked'[f] = locked[f]
      BY DEF Crash, TypeOK
    <2>2. \A v \in Workers : EngineOf[v] \in Engines
      BY RuleLockerAssumption, SMTT(60)
    <2> QED  BY <1>1, <2>1, <2>2 DEF MapInv, LocalExclusion
  <1>7. HeldInv'
    BY <1>1, Zenon DEF Crash, HeldInv, HeldKeyBacked, Owns
  <1> QED  BY <1>3, <1>4, <1>5, <1>6, <1>7

--------------------------------------------------------------------------------

\* The invariant holds when no session has been made.
LEMMA InitInv == Init => LockInv
  BY RuleLockerAssumption
     DEF Init, LockInv, TypeOK, PCs, QueueInv, SessionInv, MapInv, LocalExclusion,
         HeldInv, HeldKeyBacked

\* The invariant is inductive.
LEMMA NextInv == LockInv /\ [Next]_vars => LockInv'
  <1> SUFFICES ASSUME LockInv, [Next]_vars PROVE LockInv'
    OBVIOUS
  <1>1. ASSUME NEW w \in Workers, NEW k \in LockKeys, Lock(w, k) PROVE LockInv'
    BY <1>1, LockStep
  <1>2. ASSUME NEW w \in Workers, WorkerProgress(w) PROVE LockInv'
    BY <1>2, GetSessionStep, CallNewSessionStep, NewSessionFailsStep, TryAcquireStep, TryAcquireFailsStep,
       WaitDeletesStep, CheckKeyStep, AbandonStep, UnlockStep, CloseSessionStep, MapUnlockStep
       DEF WorkerProgress, LockProgress, SessionProgress
  <1>3. ASSUME NEW s \in Sessions, LeaseExpires(s) \/ KeepAliveEnds(s) PROVE LockInv'
    BY <1>3, LeaseExpiresStep, SessionStep
  <1>4. ASSUME NEW e \in Engines, ClearSession(e) \/ Crash(e) PROVE LockInv'
    BY <1>4, SessionStep, CrashStep, SMTT(60)
  <1>5. CASE UNCHANGED vars
    <2>1. TypeOK' /\ QueueInv'
      BY <1>5 DEF vars, LockInv, TypeOK, QueueInv
    <2>2. SessionInv' /\ MapInv'
      BY <1>5 DEF vars, LockInv, SessionInv, MapInv, LocalExclusion
    <2>3. HeldInv'
      BY <1>5 DEF vars, LockInv, HeldInv, HeldKeyBacked, Owns
    <2> QED  BY <2>1, <2>2, <2>3 DEF LockInv
  <1> QED  BY <1>1, <1>2, <1>3, <1>4, <1>5 DEF Next

\* LockInv holds in every reachable state.
THEOREM Invariance == Spec => []LockInv
  BY InitInv, NextInv, PTL DEF Spec

\* The lock stack never leaves the states it is written for: a goroutine past
\* GetSession has a session, one past Lock has a key.
THEOREM TypeCorrect == Spec => []TypeOK
  BY Invariance, PTL DEF LockInv

\* While its lease is alive the holder of a lock owns the oldest etcd key, with
\* or without a shared session, whatever other goroutines and engines do.
THEOREM HeldBacked == Spec => []HeldKeyBacked
  BY Invariance, PTL DEF LockInv, HeldInv

\* With a shared session two goroutines of one engine are never both between
\* Lock and Unlock of one key.
THEOREM LocallyExclusive == Spec => []LocalExclusion
  BY Invariance, PTL DEF LockInv, MapInv

\* Two goroutines never both hold a lock key under live leases.
THEOREM MutuallyExclusive == Spec => []MutualExclusion
  <1>1. LockInv => MutualExclusion
    <2> SUFFICES ASSUME LockInv, NEW v \in Workers, NEW w \in Workers, NEW k \in LockKeys,
                        v # w, Holds(v, k), Holds(w, k), sess[v] \in alive, sess[w] \in alive
                 PROVE  FALSE
      BY DEF MutualExclusion
    <2>1. sess[v] \in Sessions /\ sess[w] \in Sessions
      BY DEF LockInv, TypeOK, Holds
    <2>2. sess[v] # sess[w]
      BY <2>1, Distinct DEF Holds
    <2>3. Owns(k, sess[v]) /\ Owns(k, sess[w])
      BY DEF LockInv, HeldInv, HeldKeyBacked, Holds
    <2> QED  BY <2>2, <2>3 DEF LockInv, QueueInv, Owns
  <1> QED  BY <1>1, Invariance, PTL

--------------------------------------------------------------------------------
(* No error path leaves a key locked in the map locker. *)

MapOwned ==
    \A e \in {f \in Engines : Shared[f]} : \A k \in locked[e] :
        \E w \in Workers : EngineOf[w] = e /\ pc[w] # "idle" /\ key[w] = k

\* Steps that leave the map and the keys alone and make nobody idle.
LEMMA StillOwned ==
    ASSUME MapOwned, UNCHANGED locked,
           \A w \in Workers : SharesSession(w) /\ pc[w] # "idle" => pc'[w] # "idle" /\ key'[w] = key[w]
    PROVE  MapOwned'
  BY DEF MapOwned, SharesSession

\* Every key locked locally has a goroutine that will unlock it: inductive.
LEMMA MapOwnedStep == LockInv /\ MapOwned /\ [Next]_vars => MapOwned'
  <1> SUFFICES ASSUME LockInv, MapOwned, [Next]_vars PROVE MapOwned'
    OBVIOUS
  <1>0. TypeOK /\ \A w \in Workers : EngineOf[w] \in Engines
    BY RuleLockerAssumption, SMTT(60) DEF LockInv
  <1>1. ASSUME NEW w \in Workers, NEW k \in LockKeys, Lock(w, k) PROVE MapOwned'
    <2>1. /\ \A e \in Engines : Shared[e] =>
                locked'[e] = IF e = EngineOf[w] THEN locked[e] \cup {k} ELSE locked[e]
          /\ pc[w] = "idle" /\ pc'[w] # "idle" /\ key'[w] = k
          /\ \A v \in Workers \ {w} : pc'[v] = pc[v] /\ key'[v] = key[v]
      BY <1>0, <1>1, Zenon DEF Lock, TypeOK, SharesSession
    <2> SUFFICES ASSUME NEW e \in Engines, Shared[e], NEW l \in locked'[e]
                 PROVE  \E v \in Workers : EngineOf[v] = e /\ pc'[v] # "idle" /\ key'[v] = l
      BY SMTT(60) DEF MapOwned
    <2>2. CASE l \in locked[e]
      BY <2>1, <2>2 DEF MapOwned
    <2>3. CASE l \notin locked[e]
      <3>1. e = EngineOf[w] /\ l = k
        BY <2>1, <2>3, ZenonT(60)
      <3> QED  BY <2>1, <3>1
    <2> QED  BY <2>2, <2>3
  <1>2. ASSUME NEW w \in Workers, MapUnlock(w) PROVE MapOwned'
    <2>1. /\ \A e \in Engines : locked'[e] = IF e = EngineOf[w] THEN locked[e] \ {key[w]} ELSE locked[e]
          /\ \A v \in Workers \ {w} : pc'[v] = pc[v] /\ key'[v] = key[v]
      BY <1>0, <1>2, Zenon DEF MapUnlock, TypeOK
    <2> SUFFICES ASSUME NEW e \in Engines, Shared[e], NEW k \in locked'[e]
                 PROVE  \E v \in Workers : EngineOf[v] = e /\ pc'[v] # "idle" /\ key'[v] = k
      BY DEF MapOwned
    <2>2. k \in locked[e] /\ (e = EngineOf[w] => k # key[w])
      BY <2>1, ZenonT(60)
    <2>3. PICK v \in Workers : EngineOf[v] = e /\ pc[v] # "idle" /\ key[v] = k
      BY <2>2 DEF MapOwned
    <2>4. v # w
      BY <2>2, <2>3
    <2> QED  BY <2>1, <2>3, <2>4
  <1>3. ASSUME NEW w \in Workers, Fail(w), UNCHANGED locked PROVE MapOwned'
    BY <1>0, <1>3, StillOwned DEF Fail, TypeOK
  <1>4. ASSUME NEW w \in Workers, NEW p \in PCs \ {"idle"}, pc' = [pc EXCEPT ![w] = p], UNCHANGED <<key, locked>>
        PROVE  MapOwned'
    BY <1>0, <1>4, StillOwned DEF TypeOK
  <1>5. ASSUME NEW w \in Workers, WorkerProgress(w) PROVE MapOwned'
    <2>1. CASE NewSessionFails(w) \/ TryAcquireFails(w) \/ Abandon(w)
      BY <1>3, <2>1 DEF NewSessionFails, TryAcquireFails, Abandon
    <2>2. CASE \/ GetCurrentSession(w) \/ CallNewSession(w) \/ NewSessionReturns(w)
               \/ TryAcquire(w) \/ WaitDeletes(w) \/ CheckKey(w) \/ Unlock(w)
      <3>1. \E p \in PCs \ {"idle"} : pc' = [pc EXCEPT ![w] = p]
        BY <2>2, SMTT(60) DEF GetCurrentSession, CallNewSession, NewSessionReturns, TryAcquire, WaitDeletes, CheckKey,
                    Unlock, PCs
      <3>2. UNCHANGED <<key, locked>>
        BY <2>2 DEF GetCurrentSession, CallNewSession, NewSessionReturns, TryAcquire, WaitDeletes, CheckKey,
                    Unlock
      <3> QED  BY <1>4, <3>1, <3>2, ZenonT(60)
    <2>3. CASE CloseSession(w)
      <3>1. UNCHANGED locked /\ \A v \in Workers \ {w} : pc'[v] = pc[v] /\ key'[v] = key[v]
        BY <1>0, <2>3 DEF CloseSession, TypeOK
      <3> QED  BY <2>3, <3>1, StillOwned DEF CloseSession
    <2> QED  BY <1>2, <1>5, <2>1, <2>2, <2>3, SMTT(60) DEF WorkerProgress, LockProgress, SessionProgress
  <1>6. ASSUME NEW e \in Engines, Crash(e) PROVE MapOwned'
    <2>1. \A f \in Engines : locked'[f] = IF f = e THEN {} ELSE locked[f]
      BY <1>0, <1>6, SMTT(60) DEF Crash, TypeOK
    <2>2. \A w \in Workers : EngineOf[w] # e => pc'[w] = pc[w] /\ key'[w] = key[w]
      BY <1>6, SMTT(60) DEF Crash
    <2> QED  BY <2>1, <2>2 DEF MapOwned
  <1>7. CASE \/ \E s \in Sessions : LeaseExpires(s) \/ KeepAliveEnds(s)
             \/ \E e \in Engines : ClearSession(e)
             \/ UNCHANGED vars
    BY <1>7, StillOwned DEF LeaseExpires, KeepAliveEnds, ClearSession, vars
  <1> QED  BY <1>1, <1>5, <1>6, <1>7 DEF Next

\* With a shared session the map locker holds exactly the keys of goroutines
\* that are on their way to unlock them.
THEOREM NoLeak == Spec => []NoLocalLeak
  <1>1. Init => MapOwned
    BY SMTT(60) DEF Init, MapOwned
  <1>2. LockInv /\ MapOwned => NoLocalLeak
    <2> SUFFICES ASSUME LockInv, MapOwned, NEW e \in Engines, Shared[e]
                 PROVE  locked[e] = {key[w] : w \in {v \in Workers : EngineOf[v] = e /\ pc[v] # "idle"}}
      BY SMTT(60) DEF NoLocalLeak
    <2>1. \A k \in locked[e] : \E w \in Workers : EngineOf[w] = e /\ pc[w] # "idle" /\ key[w] = k
      BY SMTT(60) DEF MapOwned
    <2>2. \A w \in Workers : EngineOf[w] = e /\ pc[w] # "idle" => key[w] \in locked[e]
      BY DEF LockInv, MapInv, SharesSession
    <2> QED  BY <2>1, <2>2, SMTT(60)
  <1> QED  BY <1>1, <1>2, MapOwnedStep, Invariance, PTL DEF Spec

--------------------------------------------------------------------------------
(* The session manager loses no session. *)

\* A worker's step that makes no session and does not go to make one.
LEMMA ManagerElsewhere ==
    ASSUME ManagerInv, kept' \subseteq kept, UNCHANGED current,
           \A w \in Workers : pc'[w] = "new" => pc[w] = "new"
    PROVE  ManagerInv'
  BY DEF ManagerInv, SingleSession

\* Who makes the singleton is alone: inductive.
LEMMA ManagerStep == LockInv /\ ManagerInv /\ [Next]_vars => ManagerInv'
  <1> SUFFICES ASSUME LockInv, ManagerInv, [Next]_vars PROVE ManagerInv'
    OBVIOUS
  <1>0. TypeOK /\ \A w \in Workers : EngineOf[w] \in Engines
    BY RuleLockerAssumption, SMTT(60) DEF LockInv
  <1>1. ASSUME NEW w \in Workers, CallNewSession(w) PROVE ManagerInv'
    <2>1. /\ \A v \in Workers \ {w} : pc'[v] = pc[v]
          /\ UNCHANGED <<current, kept>>
          /\ SharesSession(w) => SessionMutexFree(EngineOf[w]) /\ current[EngineOf[w]] = NoSession
      BY <1>0, <1>1 DEF CallNewSession, TypeOK
    <2> QED  BY <2>1 DEF ManagerInv, SingleSession, SessionMutexFree, SharesSession
  <1>2. ASSUME NEW w \in Workers, NewSessionReturns(w) PROVE ManagerInv'
    <2>1. PICK s \in Sessions :
            /\ Home[s] = EngineOf[w] /\ kept' = kept \cup {s}
            /\ current' = IF SharesSession(w) THEN [current EXCEPT ![EngineOf[w]] = s] ELSE current
      BY <1>2 DEF NewSessionReturns, NewSession, Fresh
    <2>2. /\ \A v \in Workers \ {w} : pc'[v] = pc[v]
          /\ pc[w] = "new" /\ pc'[w] = "txn"
      BY <1>0, <1>2, SMTT(60) DEF NewSessionReturns, TypeOK
    <2>3. CASE SharesSession(w)
      <3>1. \A e \in Engines : current'[e] = IF e = EngineOf[w] THEN s ELSE current[e]
        BY <1>0, <2>1, <2>3 DEF TypeOK
      <3>2. \A t \in kept : Home[t] # EngineOf[w]
        BY <1>0, <2>2, <2>3, RuleLockerAssumption DEF ManagerInv, SingleSession, SharesSession, TypeOK
      <3>3. SingleSession'
        BY <2>1, <3>1, <3>2 DEF ManagerInv, SingleSession
      <3>4. \A v \in Workers : SharesSession(v) /\ pc'[v] = "new" => EngineOf[v] # EngineOf[w]
        BY <2>2, <2>3 DEF ManagerInv
      <3> QED  BY <1>0, <2>2, <3>1, <3>3, <3>4 DEF ManagerInv
    <2>4. CASE ~SharesSession(w)
      <3>1. SingleSession'
        BY <2>1, <2>4 DEF ManagerInv, SingleSession, SharesSession
      <3> QED  BY <2>1, <2>2, <2>4, <3>1 DEF ManagerInv
    <2> QED  BY <2>3, <2>4, SMTT(60)
  <1>3. ASSUME NEW e \in Engines, ClearSession(e) PROVE ManagerInv'
    <2>1. /\ current[e] \notin kept /\ UNCHANGED <<pc, kept>>
          /\ \A f \in Engines : current'[f] = IF f = e THEN NoSession ELSE current[f]
      BY <1>0, <1>3, SMTT(60) DEF ClearSession, TypeOK
    <2> QED  BY <1>0, <2>1 DEF ManagerInv, SingleSession
  <1>4. ASSUME NEW e \in Engines, Crash(e) PROVE ManagerInv'
    <2>1. /\ kept' = {s \in kept : Home[s] # e}
          /\ \A f \in Engines : current'[f] = IF f = e THEN NoSession ELSE current[f]
          /\ \A w \in Workers : pc'[w] = "new" => pc[w] = "new" /\ EngineOf[w] # e
      BY <1>0, <1>4 DEF Crash, TypeOK
    <2> QED  BY <1>0, <2>1 DEF ManagerInv, SingleSession
  <1>5. ASSUME NEW w \in Workers, NEW k \in LockKeys, Lock(w, k) PROVE ManagerInv'
    BY <1>0, <1>5, ManagerElsewhere DEF Lock, TypeOK
  <1>6. ASSUME NEW w \in Workers,
               \/ GetCurrentSession(w) \/ NewSessionFails(w) \/ TryAcquire(w) \/ TryAcquireFails(w)
               \/ WaitDeletes(w) \/ CheckKey(w) \/ Abandon(w)
               \/ Unlock(w) \/ CloseSession(w) \/ MapUnlock(w)
        PROVE  ManagerInv'
    <2>1. UNCHANGED current /\ kept' \subseteq kept
      BY <1>6, Zenon DEF GetCurrentSession, NewSessionFails, TryAcquire, TryAcquireFails, WaitDeletes, CheckKey,
                  Abandon, Unlock, CloseSession, MapUnlock
    <2>2. PICK p \in PCs \ {"new"} : pc' = [pc EXCEPT ![w] = p]
      BY <1>6 DEF GetCurrentSession, NewSessionFails, TryAcquire, TryAcquireFails, WaitDeletes, CheckKey,
                  Abandon, Unlock, CloseSession, MapUnlock, Fail, PCs
    <2>3. \A v \in Workers : pc'[v] = "new" => pc[v] = "new"
      BY <1>0, <2>2 DEF TypeOK
    <2> QED  BY <2>1, <2>3, ManagerElsewhere
  <1>7. CASE (\E s \in Sessions : LeaseExpires(s) \/ KeepAliveEnds(s)) \/ UNCHANGED vars
    BY <1>7, ManagerElsewhere DEF LeaseExpires, KeepAliveEnds, vars
  <1> QED  BY <1>1, <1>2, <1>3, <1>4, <1>5, <1>6, <1>7
              DEF Next, WorkerProgress, LockProgress, SessionProgress

\* Whatever goroutines ask for a session at the same time and whenever its
\* lease or its keepalives end, the session manager keeps one session alive.
THEOREM SessionsSingle == Spec => []SingleSession
  <1>1. Init => ManagerInv
    BY DEF Init, ManagerInv, SingleSession
  <1>2. ManagerInv => SingleSession
    BY DEF ManagerInv
  <1> QED  BY <1>1, <1>2, ManagerStep, Invariance, PTL DEF Spec

--------------------------------------------------------------------------------
(* The lock stack implements LockService. *)

\* At first nobody holds a lock in either specification.
LEMMA RefinementInit == Init => LS!Init
  BY SMTT(60) DEF Init, LS!Init

\* A goroutine that ends up with the lock is the only valid holder.
LEMMA AcquireRefines ==
    ASSUME LockInv, LockInv', NEW w \in Workers, pc[w] # "held", pc'[w] = "held",
           pc' = [pc EXCEPT ![w] = "held"], UNCHANGED <<key, sess, alive>>,
           sess[w] \in alive
    PROVE  \E k \in LockKeys : LS!Acquire(w, k)
  <1>1. key[w] \in LockKeys /\ TypeOK
    BY SMTT(60) DEF LockInv, TypeOK
  <1>2. ASSUME NEW v \in Workers, v # w, pc[v] = "held", sess[v] \in alive
        PROVE  key[v] # key[w]
    <2> SUFFICES ASSUME key[v] = key[w] PROVE FALSE
      BY SMTT(60)
    <2>1. sess[v] \in Sessions /\ sess[w] \in Sessions /\ pc'[v] = "held" /\ pc'[w] = "held"
      BY <1>1, <1>2, SMTT(60) DEF TypeOK, LockInv
    <2>2. Owns(key[v], sess[v])' /\ Owns(key[w], sess[w])'
      BY <1>2, <2>1 DEF LockInv, HeldInv, HeldKeyBacked
    <2>3. sess'[v] # sess'[w]
      <3>1. CASE SharesSession(v)
        BY <1>1, <1>2, <2>1, <3>1, SMTT(60) DEF LockInv, SessionInv, MapInv, LocalExclusion
      <3>2. CASE ~SharesSession(v)
        BY <1>2, <2>1, <3>2 DEF LockInv, SessionInv
      <3> QED  BY <3>1, <3>2, SMTT(60)
    <2> QED  BY <1>1, <2>2, <2>3, Zenon DEF LockInv, QueueInv, Owns
  <1>3. PICK k \in LockKeys : k = key[w]
    BY <1>1
  <1>4. LS!Free(k)
    BY <1>2, <1>3 DEF LS!Free
  <1>5. LS!Acquire(w, k)
    BY <1>1, <1>3, <1>4, Zenon DEF LS!Acquire, TypeOK
  <1> QED  BY <1>5, SMTT(60)

\* Steps that LockService does not see.
LEMMA StutterRefines ==
    ASSUME \A v \in Workers : pc'[v] = "held" <=> pc[v] = "held",
           \A v \in Workers : pc[v] = "held" =>
                key'[v] = key[v] /\ sess'[v] = sess[v] /\ (sess[v] \in alive' <=> sess[v] \in alive)
    PROVE  UNCHANGED LS!lockVars
  BY DEF LS!lockVars

\* A worker's step that neither ends nor starts at "held" and leaves the leases alone.
LEMMA WorkerStutter ==
    ASSUME TypeOK, NEW w \in Workers, NEW p, p # "held", pc[w] # "held",
           pc' = [pc EXCEPT ![w] = p],
           \A v \in Workers \ {w} : key'[v] = key[v] /\ sess'[v] = sess[v],
           \A v \in Workers \ {w} : pc[v] = "held" => (sess[v] \in alive' <=> sess[v] \in alive)
    PROVE  UNCHANGED LS!lockVars
  BY StutterRefines DEF TypeOK

\* A goroutine's step acquires or releases one lock of LockService, or nothing.
LEMMA WorkerRefines ==
    ASSUME LockInv, LockInv', NEW w \in Workers, WorkerProgress(w)
    PROVE  LS!Next \/ UNCHANGED LS!lockVars
  <1>0. TypeOK
    BY DEF LockInv
  <1>1. CASE GetCurrentSession(w) \/ CallNewSession(w) \/ NewSessionReturns(w)
    <2>1. PICK p \in {"new", "txn"} :
            /\ pc[w] # "held" /\ pc' = [pc EXCEPT ![w] = p] /\ key' = key
            /\ \A v \in Workers \ {w} : sess'[v] = sess[v]
      BY <1>0, <1>1, SMTT(60) DEF GetCurrentSession, CallNewSession, NewSessionReturns, TypeOK
    <2>2. \A v \in Workers \ {w} : sess[v] \in alive' <=> sess[v] \in alive
      BY <1>1 DEF GetCurrentSession, CallNewSession, NewSessionReturns, NewSession, Fresh
    <2> QED  BY <1>0, <2>1, <2>2, WorkerStutter, Zenon
  <1>2. CASE NewSessionFails(w) \/ TryAcquireFails(w) \/ Abandon(w)
    <2>1. /\ pc[w] # "held" /\ alive' = alive
          /\ pc' = [pc EXCEPT ![w] = IF SharesSession(w) THEN "mapUnlock" ELSE "idle"]
          /\ \A v \in Workers \ {w} : key'[v] = key[v] /\ sess'[v] = sess[v]
      BY <1>0, <1>2 DEF NewSessionFails, TryAcquireFails, Abandon, Fail, TypeOK
    <2>2. (IF SharesSession(w) THEN "mapUnlock" ELSE "idle") # "held"
      OBVIOUS
    <2> QED  BY <1>0, <2>1, <2>2, WorkerStutter, Zenon
  <1>3. CASE TryAcquire(w)
    <2>1. CASE before'[key[w]][sess[w]] = {}
      <3>1. \E k \in LockKeys : LS!Acquire(w, k)
        BY <1>0, <1>3, <2>1, AcquireRefines, ZenonT(60) DEF TryAcquire, TypeOK
      <3> QED  BY <3>1 DEF LS!Next
    <2>2. CASE before'[key[w]][sess[w]] # {}
      BY <1>0, <1>3, <2>2, WorkerStutter, Zenon DEF TryAcquire
    <2> QED  BY <2>1, <2>2
  <1>4. CASE WaitDeletes(w)
    BY <1>0, <1>4, WorkerStutter, ZenonT(60) DEF WaitDeletes
  <1>5. CASE CheckKey(w)
    <2>1. sess[w] \in alive
      BY <1>0, <1>5, ZenonT(60) DEF CheckKey, LockInv, QueueInv, TypeOK
    <2>2. \E k \in LockKeys : LS!Acquire(w, k)
      BY <1>0, <1>5, <2>1, AcquireRefines, Zenon DEF CheckKey, TypeOK
    <2> QED  BY <2>2 DEF LS!Next
  <1>6. CASE Unlock(w)
    <2>1. /\ pc[w] = "held" /\ key[w] \in LockKeys /\ UNCHANGED <<key, sess, alive>>
          /\ pc' = [pc EXCEPT ![w] = IF SharesSession(w) THEN "mapUnlock" ELSE "close"]
      BY <1>0, <1>6 DEF Unlock, TypeOK
    <2>2. pc'[w] # "held" /\ \A v \in Workers \ {w} : pc'[v] = pc[v]
      BY <1>0, <2>1 DEF TypeOK
    <2>3. LS!Release(w)
      BY <2>1, <2>2, RuleLockerAssumption, Zenon DEF LS!Release
    <2> QED  BY <2>3 DEF LS!Next
  <1>7. CASE CloseSession(w)
    <2>1. /\ pc[w] = "close" /\ pc' = [pc EXCEPT ![w] = "idle"] /\ sess[w] \in Sessions /\ ~SharesSession(w)
          /\ \A v \in Workers \ {w} : key'[v] = key[v] /\ sess'[v] = sess[v]
      BY <1>0, <1>7, SMTT(60) DEF CloseSession, TypeOK
    <2>2. \A v \in Workers \ {w} : sess[v] # sess[w]
      BY <2>1, Zenon DEF LockInv, SessionInv
    <2>3. \A v \in Workers \ {w} : sess[v] \in alive' <=> sess[v] \in alive
      BY <1>7, <2>2 DEF CloseSession, EndLease, etcdVars
    <2> QED  BY <1>0, <2>1, <2>3, WorkerStutter, Zenon
  <1>8. CASE MapUnlock(w)
    <2>1. /\ pc[w] # "held" /\ pc' = [pc EXCEPT ![w] = "idle"] /\ alive' = alive
          /\ \A v \in Workers \ {w} : key'[v] = key[v] /\ sess'[v] = sess[v]
      BY <1>0, <1>8 DEF MapUnlock, TypeOK
    <2> QED  BY <1>0, <2>1, WorkerStutter, Zenon
  <1> QED  BY <1>1, <1>2, <1>3, <1>4, <1>5, <1>6, <1>7, <1>8 DEF WorkerProgress, LockProgress, SessionProgress

\* Every step is a step of LockService or changes nothing of it.
LEMMA RefinementStep == LockInv /\ LockInv' /\ [Next]_vars => [LS!Next]_(LS!lockVars)
  <1> SUFFICES ASSUME LockInv, LockInv', [Next]_vars PROVE LS!Next \/ UNCHANGED LS!lockVars
    OBVIOUS
  <1>0. TypeOK
    BY DEF LockInv
  <1>1. ASSUME NEW w \in Workers, NEW k \in LockKeys, Lock(w, k) PROVE UNCHANGED LS!lockVars
    BY <1>0, <1>1, WorkerStutter, Zenon DEF Lock, TypeOK
  <1>2. ASSUME NEW s \in Sessions, LeaseExpires(s) PROVE LS!Next
    <2>1. PICK C \in SUBSET Workers : C = {v \in Workers : pc[v] = "held" /\ sess[v] \in alive /\ sess[v] = s}
      BY Zenon
    <2>2. LS!Lapse(C)
      BY <1>2, <2>1 DEF LeaseExpires, EndLease, LS!Lapse
    <2> QED  BY <2>2 DEF LS!Next
  <1>3. ASSUME NEW e \in Engines, Crash(e) PROVE LS!Next
    <2> DEFINE C == {v \in Workers : EngineOf[v] = e}
    <2>1. \A v \in Workers : IF v \in C THEN pc'[v] = "idle"
                             ELSE pc'[v] = pc[v] /\ key'[v] = key[v] /\ sess'[v] = sess[v]
      BY <1>3 DEF Crash
    <2>2. alive' = alive
      BY <1>3, SMTT(60) DEF Crash
    <2>3. LS!ReleaseAll(C)
      BY <2>1, <2>2 DEF LS!ReleaseAll
    <2>4. C \in SUBSET Workers
      BY SMTT(60)
    <2> QED  BY <2>3, <2>4 DEF LS!Next
  <1>4. CASE \/ \E s \in Sessions : KeepAliveEnds(s)
             \/ \E e \in Engines : ClearSession(e)
             \/ UNCHANGED vars
    BY <1>4, StutterRefines DEF KeepAliveEnds, ClearSession, vars
  <1> QED  BY <1>1, <1>2, <1>3, <1>4, WorkerRefines DEF Next

\* The lock stack, with its sessions, leases, failures and crashes, is a lock
\* service: every step is one of LockService's or invisible to it.
THEOREM Refinement == Spec => ImplementsLockService
  BY RefinementInit, RefinementStep, Invariance, PTL DEF Spec, ImplementsLockService, LS!Spec
================================================================================
