------------------------- MODULE SyncDeliveryProofs -------------------------
(***************************************************************************)
(* Proofs about SyncDelivery, for any messages, deliverers and bounds.     *)
(***************************************************************************)
EXTENDS SyncDelivery, FiniteSetTheorems, SequenceTheorems, TLAPS

USE DEF Deliverers

-----------------------------------------------------------------------------
\* A batch has a natural number of messages.
LEMMA BatchSizeNat ==
    ASSUME outbox \subseteq Messages
    PROVE  BatchSize \in Nat
<1>1. IsFiniteSet(Pending)
    BY MessagesAssumption, FS_Subset DEF Pending
<1>2. Cardinality(Pending) \in Nat
    BY <1>1, FS_CardinalityType
<1> QED
    BY <1>2, BoundsAssumption DEF BatchSize

\* A function on 1 .. n is a sequence.
LEMMA FunctionIsSeq ==
    ASSUME NEW S, NEW n \in Nat, NEW T \in SUBSET S, NEW s \in [1 .. n -> T]
    PROVE  s \in Seq(S)
BY SeqDef

\* The only steps that change what a deliverer is doing leave its messages
\* and its place in the batch well-typed.
LEMMA AdvanceType ==
    ASSUME TypeOK, NEW d \in Deliverers, ids[d] # <<>>, Advance(d)
    PROVE  /\ pc' \in [Deliverers -> {"idle", "next", "apply", "duplicate", "record"}]
           /\ ids' \in [Deliverers -> Seq(Messages)]
           /\ \A c \in Deliverers :
                  pc'[c] \in {"apply", "duplicate", "record"} => ids'[c] # <<>>
           /\ view' \in [Deliverers -> Nat]
           /\ batch' \in [Deliverers -> SUBSET (Messages \X Nat)]
<1>1. ids[d] \in Seq(Messages)
    BY DEF TypeOK
<1>2. Tail(ids[d]) \in Seq(Messages)
    BY <1>1
<1> QED
    BY <1>2 DEF TypeOK, Advance

LEMMA StopPassType ==
    ASSUME TypeOK, NEW d \in Deliverers, StopPass(d)
    PROVE  /\ pc' \in [Deliverers -> {"idle", "next", "apply", "duplicate", "record"}]
           /\ ids' \in [Deliverers -> Seq(Messages)]
           /\ \A c \in Deliverers :
                  pc'[c] \in {"apply", "duplicate", "record"} => ids'[c] # <<>>
           /\ view' \in [Deliverers -> Nat]
           /\ batch' \in [Deliverers -> SUBSET (Messages \X Nat)]
<1>1. <<>> \in Seq(Messages)
    OBVIOUS
<1> QED
    BY <1>1 DEF TypeOK, StopPass

LEMMA HeadType ==
    ASSUME TypeOK, NEW d \in Deliverers, ids[d] # <<>>
    PROVE  Head(ids[d]) \in Messages
BY DEF TypeOK

LEMMA EffectiveSeqNat ==
    ASSUME TypeOK, NEW m \in Messages
    PROVE  EffectiveSeq(m) \in Nat
BY DEF TypeOK, EffectiveSeq

-----------------------------------------------------------------------------
LEMMA InitType == Init => TypeOK
BY MessagesAssumption, BoundsAssumption DEF Init, TypeOK, NotFailed

LEMMA NextType == TypeOK /\ [Next]_vars => TypeOK'
<1> SUFFICES ASSUME TypeOK, [Next]_vars PROVE TypeOK'
    OBVIOUS
<1> USE MessagesAssumption, BoundsAssumption DEF queueVars,
       receiverVars, passVars, envVars, enqueueVars, NotFailed
<1>1. ASSUME NEW t \in 0 .. MaxTime, SetClock(t) PROVE TypeOK'
    BY <1>1 DEF TypeOK, SetClock
<1>2. CASE ToggleLink
  <2>1. link' \in BOOLEAN
    BY <1>2 DEF ToggleLink
  <2>2. toggles' \in 0 .. MaxToggles
    BY <1>2 DEF TypeOK, ToggleLink
  <2> QED
    BY <1>2, <2>1, <2>2 DEF TypeOK, ToggleLink
<1>3. CASE RealTime
  <2>1. failedFor' \in [Messages -> NotFailed .. Window]
    <3>1. ASSUME NEW m \in Messages, Counting(m)
          PROVE  failedFor[m] + 1 \in NotFailed .. Window
        BY <3>1 DEF TypeOK, Counting
    <3>2. ASSUME NEW m \in Messages PROVE failedFor[m] \in NotFailed .. Window
        BY DEF TypeOK
    <3>3. failedFor' = [m \in Messages |->
                          IF Counting(m) THEN failedFor[m] + 1 ELSE failedFor[m]]
        BY <1>3 DEF RealTime
    <3> HIDE DEF NotFailed
    <3> QED
        BY <3>1, <3>2, <3>3
  <2> QED
    BY <1>3, <2>1 DEF TypeOK, RealTime
<1>4. ASSUME NEW m \in Messages, Enqueue(m) PROVE TypeOK'
  <2>1. nextSeq \in Nat /\ nextSeq' \in 1 .. MaxSeq + 1
    BY <1>4 DEF TypeOK, Enqueue
  <2>2. seq' \in [Messages -> Nat] /\ firstSeq' \in [Messages -> Nat]
    BY <1>4, <2>1 DEF TypeOK, Enqueue
  <2>3. createdAt' \in [Messages -> 0 .. MaxTime]
    BY <1>4 DEF TypeOK, Enqueue
  <2> QED
    BY <1>4, <2>1, <2>2, <2>3 DEF TypeOK, Enqueue
<1>5. ASSUME NEW m \in Messages, CommitEnqueue(m) PROVE TypeOK'
    BY <1>5 DEF TypeOK, CommitEnqueue
<1>6. ASSUME NEW m \in Messages, AbortEnqueue(m) PROVE TypeOK'
    BY <1>6 DEF TypeOK, AbortEnqueue
<1>7. ASSUME NEW m \in Messages, Retry(m) PROVE TypeOK'
  <2>1. nextSeq \in Nat /\ nextSeq' \in 1 .. MaxSeq + 1
    BY <1>7 DEF TypeOK, Retry
  <2>2. seq' \in [Messages -> Nat] /\ replaySeq' \in [Messages -> Nat]
    BY <1>7, <2>1 DEF TypeOK, Retry
  <2>3. failedFor' \in [Messages -> NotFailed .. Window]
    BY <1>7 DEF TypeOK, Retry
  <2>4. retries' \in [Messages -> 0 .. MaxRetries]
    <3>1. retries[m] + 1 \in 0 .. MaxRetries
        BY <1>7 DEF TypeOK, Retry
    <3>2. retries' = [retries EXCEPT ![m] = retries[m] + 1]
        BY <1>7 DEF Retry
    <3> QED
        BY <3>1, <3>2 DEF TypeOK
  <2> QED
    BY <1>7, <2>1, <2>2, <2>3, <2>4 DEF TypeOK, Retry
<1>8. ASSUME NEW d \in Deliverers, BeginPass(d) PROVE TypeOK'
  <2>1. PICK s \in [1 .. BatchSize -> Pending] :
            /\ ids' = [ids EXCEPT ![d] = s]
            /\ batch' = [batch EXCEPT ![d] = {<<s[i], seq[s[i]]>> : i \in DOMAIN s}]
    BY <1>8 DEF BeginPass
  <2>2. BatchSize \in Nat /\ Pending \subseteq Messages
    BY BatchSizeNat DEF TypeOK, Pending
  <2>3. s \in Seq(Messages)
    BY <2>2, FunctionIsSeq
  <2>4. {<<s[i], seq[s[i]]>> : i \in DOMAIN s} \subseteq Messages \X Nat
    BY <2>2 DEF TypeOK
  <2>5. ids' \in [Deliverers -> Seq(Messages)]
    BY <2>1, <2>3 DEF TypeOK
  <2>6. batch' \in [Deliverers -> SUBSET (Messages \X Nat)]
    BY <2>1, <2>4 DEF TypeOK
  <2>7. /\ pc' = [pc EXCEPT ![d] = "next"]
        /\ \A c \in Deliverers \ {d} : ids'[c] = ids[c]
    BY <1>8, <2>1 DEF BeginPass, TypeOK
  <2> QED
    BY <1>8, <2>5, <2>6, <2>7 DEF TypeOK, BeginPass
<1>9. ASSUME NEW d \in Deliverers, EndPass(d) PROVE TypeOK'
    BY <1>9, StopPassType DEF TypeOK, EndPass
<1>10. ASSUME NEW d \in Deliverers, SkipDelivered(d) PROVE TypeOK'
    BY <1>10, AdvanceType DEF TypeOK, SkipDelivered
<1>11. ASSUME NEW d \in Deliverers, Take(d) PROVE TypeOK'
    BY <1>11, HeadType DEF TypeOK, Take
<1>12. ASSUME NEW d \in Deliverers, ApplyDuplicate(d) PROVE TypeOK'
  <2>1. ids[d] # <<>>
    BY <1>12 DEF TypeOK, ApplyDuplicate
  <2> QED
    BY <1>12, <2>1, AdvanceType, HeadType DEF TypeOK, ApplyDuplicate
<1>13. ASSUME NEW d \in Deliverers, Apply(d) PROVE TypeOK'
  <2> DEFINE m == Head(ids[d])
  <2>1. ids[d] # <<>>
    BY <1>13 DEF TypeOK, Apply
  <2>2. m \in Messages
    BY <2>1, HeadType
  <2>3. EffectiveSeq(m) \in Nat
    BY <2>2, EffectiveSeqNat
  <2> HIDE DEF m
  <2>4. /\ row' = IF EffectiveSeq(m) > view[d]
                  THEN [row EXCEPT ![EntityOf[m]] = [msg |-> m, syncSeq |-> EffectiveSeq(m)]]
                  ELSE row
        /\ inbox' = [inbox EXCEPT ![m] = EffectiveSeq(m)]
        /\ applied' = [applied EXCEPT ![m] = @ + 1]
        /\ delivered' = delivered \cup {m}
    BY <1>13 DEF Apply, m
  <2>5. row' \in [Entities -> [msg : Messages \cup {None}, syncSeq : Nat]]
    <3> DEFINE r == [msg |-> m, syncSeq |-> EffectiveSeq(m)]
    <3>1. r \in [msg : Messages \cup {None}, syncSeq : Nat]
        BY <2>2, <2>3
    <3> HIDE DEF r
    <3>2. row' = row \/ row' = [row EXCEPT ![EntityOf[m]] = r]
        BY <2>4 DEF r
    <3> QED
        BY <3>1, <3>2 DEF TypeOK
  <2>6. /\ inbox' \in [Messages -> Nat] /\ applied' \in [Messages -> Nat]
        /\ delivered' \subseteq Messages
    <3>1. applied[m] + 1 \in Nat
      <4>1. applied \in [Messages -> Nat]
        BY DEF TypeOK
      <4>2. applied[m] \in Nat
        BY <2>2, <4>1
      <4> QED
        BY <4>2
    <3>2. inbox' \in [Messages -> Nat]
        BY <2>3, <2>4 DEF TypeOK
    <3>3. applied' \in [Messages -> Nat]
      <4>1. applied' = [applied EXCEPT ![m] = applied[m] + 1]
        BY <2>4
      <4> QED
        BY <4>1, <3>1 DEF TypeOK
    <3> QED
        BY <2>2, <2>4, <3>2, <3>3 DEF TypeOK
  <2>7. Advance(d)
    BY <1>13 DEF Apply
  <2> QED
    BY <1>13, <2>1, <2>5, <2>6, <2>7, AdvanceType DEF TypeOK, Apply
<1>14. ASSUME NEW d \in Deliverers, Fail(d) PROVE TypeOK'
    BY <1>14 DEF TypeOK, Fail
<1>15. ASSUME NEW d \in Deliverers, RecordFailure(d) PROVE TypeOK'
  <2> DEFINE m == Head(ids[d])
  <2>1. m \in Messages /\ StopPass(d)
    BY <1>15, HeadType DEF TypeOK, RecordFailure
  <2>2. failedFor' = failedFor \/ failedFor' = [failedFor EXCEPT ![m] = 0]
    BY <1>15 DEF RecordFailure
  <2>3. failedFor' \in [Messages -> NotFailed .. Window]
    <3>1. 0 \in NotFailed .. Window
        OBVIOUS
    <3>2. failedFor \in [Messages -> NotFailed .. Window]
        BY DEF TypeOK
    <3> HIDE DEF NotFailed
    <3> QED
        BY <2>1, <2>2, <3>1, <3>2
  <2>4. backoff' \in [Workers -> SUBSET Messages]
    BY <1>15, <2>1 DEF TypeOK, RecordFailure, HoldBack
  <2> QED
    BY <1>15, <2>1, <2>3, <2>4, StopPassType DEF TypeOK, RecordFailure
<1>16. ASSUME NEW d \in Deliverers, DeadLetter(d) PROVE TypeOK'
  <2>1. ids[d] # <<>>
    BY <1>16 DEF TypeOK, DeadLetter
  <2> QED
    BY <1>16, <2>1, AdvanceType, HeadType DEF TypeOK, DeadLetter, MoveToDead
<1>17. ASSUME NEW d \in Deliverers, Crash(d) PROVE TypeOK'
  <2>1. backoff' \in [Workers -> SUBSET Messages]
    BY <1>17 DEF TypeOK, Crash
  <2>2. crashes' \in 0 .. MaxCrashes
    BY <1>17 DEF TypeOK, Crash
  <2> QED
    BY <1>17, <2>1, <2>2, StopPassType DEF TypeOK, Crash
<1>18. ASSUME NEW w \in Workers, NEW m \in Messages, BackoffEnds(w, m) PROVE TypeOK'
    BY <1>18 DEF TypeOK, BackoffEnds
<1>19. CASE UNCHANGED vars
    BY <1>19 DEF TypeOK, vars
<1> QED
    BY <1>1, <1>2, <1>3, <1>4, <1>5, <1>6, <1>7, <1>8, <1>9, <1>10, <1>11,
       <1>12, <1>13, <1>14, <1>15, <1>16, <1>17, <1>18, <1>19 DEF Next, Deliver

\* Every variable keeps its type.
THEOREM TypeCorrect == Spec => []TypeOK
BY InitType, NextType, PTL DEF Spec

-----------------------------------------------------------------------------
\* A step that leaves the tables alone and takes d out of its transaction, if
\* it was in one, keeps the invariant.
LEMMA Release ==
    ASSUME TypeOK, DeliveryInv, NEW d \in Deliverers,
           pc'[d] \notin {"apply", "duplicate"},
           \A c \in Deliverers \ {d} : pc'[c] = pc[c] /\ ids'[c] = ids[c],
           UNCHANGED <<outbox, delivered, dead, open, seq, inbox, applied>>
    PROVE  DeliveryInv'
<1>1. QueueInv' /\ DeliveredIsApplied'
    BY DEF DeliveryInv, QueueInv, DeliveredIsApplied
<1>2. \A c \in Deliverers : InTransaction(c)' =>
            c # d /\ InTransaction(c) /\ ids'[c] = ids[c] /\ pc'[c] = pc[c]
    BY DEF InTransaction
<1>3. Pending' = Pending
    BY DEF Pending
<1>4. LockInv'
    BY <1>2, <1>3 DEF DeliveryInv, LockInv
<1> QED
    BY <1>1, <1>4 DEF DeliveryInv

LEMMA Frame ==
    ASSUME DeliveryInv,
           UNCHANGED <<outbox, delivered, dead, open, seq, inbox, applied, pc, ids>>
    PROVE  DeliveryInv'
BY DEF DeliveryInv, QueueInv, DeliveredIsApplied, LockInv, InTransaction, Pending

\* A step on rows that no deliverer holds keeps every lock.
LEMMA UnlockedRows ==
    ASSUME LockInv, UNCHANGED <<pc, ids, inbox>>,
           \A d \in Deliverers : InTransaction(d) => Head(ids[d]) \in Pending'
    PROVE  LockInv'
BY DEF LockInv, InTransaction

LEMMA InitDelivery == Init => DeliveryInv
BY DEF Init, DeliveryInv, QueueInv, DeliveredIsApplied, LockInv, InTransaction

LEMMA NextDelivery == TypeOK /\ DeliveryInv /\ [Next]_vars => DeliveryInv'
<1> SUFFICES ASSUME TypeOK, DeliveryInv, [Next]_vars PROVE DeliveryInv'
    OBVIOUS
<1> USE DEF queueVars, receiverVars, passVars, envVars, enqueueVars
<1>1. ASSUME NEW t \in 0 .. MaxTime, SetClock(t) PROVE DeliveryInv'
    BY <1>1, Frame DEF SetClock
<1>2. CASE ToggleLink
    BY <1>2, Frame DEF ToggleLink
<1>3. CASE RealTime
    BY <1>3, Frame DEF RealTime
<1>4. ASSUME NEW m \in Messages, Enqueue(m) PROVE DeliveryInv'
  <2>1. /\ open' = open \cup {m} /\ m \notin open \cup outbox \cup dead
        /\ seq' = [seq EXCEPT ![m] = nextSeq]
        /\ UNCHANGED <<outbox, delivered, dead, inbox, applied, pc, ids>>
    BY <1>4 DEF Enqueue
  <2>2. \A n \in open' \cup outbox' \cup dead' : seq'[n] > 0
    BY <2>1 DEF TypeOK, DeliveryInv, QueueInv
  <2>3. QueueInv'
    BY <2>1, <2>2 DEF DeliveryInv, QueueInv
  <2>4. DeliveredIsApplied'
    BY <2>1 DEF DeliveryInv, DeliveredIsApplied
  <2>5. LockInv'
    BY <2>1 DEF DeliveryInv, LockInv, InTransaction, Pending
  <2> QED
    BY <2>3, <2>4, <2>5 DEF DeliveryInv
<1>5. ASSUME NEW m \in Messages, CommitEnqueue(m) PROVE DeliveryInv'
  <2>1. QueueInv' /\ DeliveredIsApplied'
    BY <1>5 DEF CommitEnqueue, DeliveryInv, QueueInv, DeliveredIsApplied
  <2>2. Pending \subseteq Pending'
    BY <1>5 DEF CommitEnqueue, Pending
  <2>3. LockInv'
    BY <1>5, <2>2, UnlockedRows DEF CommitEnqueue, DeliveryInv, LockInv
  <2> QED
    BY <2>1, <2>3 DEF DeliveryInv
<1>6. ASSUME NEW m \in Messages, AbortEnqueue(m) PROVE DeliveryInv'
    BY <1>6 DEF AbortEnqueue, DeliveryInv, QueueInv, DeliveredIsApplied, LockInv,
        InTransaction, Pending
<1>7. ASSUME NEW m \in Messages, Retry(m) PROVE DeliveryInv'
  <2>1. /\ m \in dead /\ dead' = dead \ {m} /\ outbox' = outbox \cup {m}
        /\ seq' = [seq EXCEPT ![m] = nextSeq]
        /\ UNCHANGED <<delivered, open, inbox, applied, pc, ids>>
    BY <1>7 DEF Retry
  <2>2. \A n \in open' \cup outbox' \cup dead' : seq'[n] > 0
    BY <2>1 DEF TypeOK, DeliveryInv, QueueInv
  <2>3. QueueInv' /\ DeliveredIsApplied'
    BY <2>1, <2>2 DEF DeliveryInv, QueueInv, DeliveredIsApplied
  <2>4. Pending \subseteq Pending'
    BY <2>1 DEF Pending
  <2>5. LockInv'
    BY <2>1, <2>4, UnlockedRows DEF DeliveryInv, LockInv
  <2> QED
    BY <2>3, <2>5 DEF DeliveryInv
<1>8. ASSUME NEW d \in Deliverers, BeginPass(d) PROVE DeliveryInv'
  <2>1. /\ pc'[d] = "next"
        /\ \A c \in Deliverers \ {d} : pc'[c] = pc[c] /\ ids'[c] = ids[c]
    BY <1>8 DEF BeginPass, TypeOK
  <2> QED
    BY <1>8, <2>1, Release DEF BeginPass
<1>9. ASSUME NEW d \in Deliverers, EndPass(d) PROVE DeliveryInv'
    BY <1>9, Release DEF EndPass, StopPass, TypeOK
<1>10. ASSUME NEW d \in Deliverers, SkipDelivered(d) PROVE DeliveryInv'
    BY <1>10, Release DEF SkipDelivered, Advance, TypeOK
<1>11. ASSUME NEW d \in Deliverers, Take(d) PROVE DeliveryInv'
  <2> DEFINE m == Head(ids[d])
  <2>1. /\ Takes(d, m)
        /\ pc' = [pc EXCEPT ![d] = IF IsDuplicate(m) THEN "duplicate" ELSE "apply"]
        /\ UNCHANGED <<ids, outbox, delivered, dead, open, seq, inbox, applied>>
    BY <1>11 DEF Take
  <2>2. QueueInv' /\ DeliveredIsApplied'
    BY <2>1 DEF DeliveryInv, QueueInv, DeliveredIsApplied
  <2>3. m \in Pending /\ \A c \in Deliverers \ {d} : InTransaction(c) => Head(ids[c]) # m
    BY <2>1 DEF Takes, StopsAt, LockedByOther, Locks, Pending
  <2>4. /\ pc'[d] = IF inbox[m] # 0 THEN "duplicate" ELSE "apply"
        /\ \A c \in Deliverers \ {d} : pc'[c] = pc[c]
    BY <2>1 DEF TypeOK, IsDuplicate
  <2>5. ids' = ids /\ inbox' = inbox /\ Pending' = Pending
    BY <2>1 DEF Pending
  <2>6. \A c \in Deliverers \ {d} : InTransaction(c)' <=> InTransaction(c)
    BY <2>4 DEF InTransaction
  <2> HIDE DEF m
  <2>7. m = Head(ids[d])
    BY DEF m
  <2>8. LockInv'
    BY <2>3, <2>4, <2>5, <2>6, <2>7 DEF DeliveryInv, LockInv
  <2> QED
    BY <2>2, <2>8 DEF DeliveryInv
<1>12. ASSUME NEW d \in Deliverers, ApplyDuplicate(d) PROVE DeliveryInv'
  <2> DEFINE m == Head(ids[d])
  <2>1. /\ pc[d] = "duplicate" /\ delivered' = delivered \cup {m}
        /\ UNCHANGED <<outbox, dead, open, seq, inbox, applied>>
    BY <1>12 DEF ApplyDuplicate
  <2>2. /\ m \in Pending /\ inbox[m] # 0
        /\ \A c \in Deliverers \ {d} : InTransaction(c) => Head(ids[c]) # m
    BY <2>1 DEF DeliveryInv, LockInv, InTransaction
  <2>3. /\ pc'[d] = "next"
        /\ \A c \in Deliverers \ {d} : pc'[c] = pc[c] /\ ids'[c] = ids[c]
    BY <1>12 DEF ApplyDuplicate, Advance, TypeOK
  <2> HIDE DEF m
  <2>4. QueueInv' /\ DeliveredIsApplied'
    BY <2>1, <2>2 DEF DeliveryInv, QueueInv, DeliveredIsApplied, Pending
  <2>5. \A c \in Deliverers : InTransaction(c)' => c # d /\ InTransaction(c)
    BY <2>3 DEF InTransaction
  <2>6. Pending' = Pending \ {m}
    BY <2>1 DEF Pending
  <2>7. LockInv'
    BY <2>1, <2>2, <2>3, <2>5, <2>6 DEF DeliveryInv, LockInv
  <2> QED
    BY <2>4, <2>7 DEF DeliveryInv
<1>13. ASSUME NEW d \in Deliverers, Apply(d) PROVE DeliveryInv'
  <2> DEFINE m == Head(ids[d])
  <2>1. /\ pc[d] = "apply" /\ delivered' = delivered \cup {m}
        /\ inbox' = [inbox EXCEPT ![m] = EffectiveSeq(m)]
        /\ applied' = [applied EXCEPT ![m] = @ + 1]
        /\ UNCHANGED <<outbox, dead, open, seq>>
    BY <1>13 DEF Apply
  <2>2. /\ m \in Pending /\ inbox[m] = 0
        /\ \A c \in Deliverers \ {d} : InTransaction(c) => Head(ids[c]) # m
    BY <2>1 DEF DeliveryInv, LockInv, InTransaction
  <2>3. /\ pc'[d] = "next"
        /\ \A c \in Deliverers \ {d} : pc'[c] = pc[c] /\ ids'[c] = ids[c]
    BY <1>13 DEF Apply, Advance, TypeOK
  <2> HIDE DEF m
  <2>4. m \in Messages /\ EffectiveSeq(m) > 0
    BY <2>2 DEF TypeOK, Pending, EffectiveSeq, DeliveryInv, QueueInv
  <2>5. inbox'[m] # 0 /\ \A n \in Messages \ {m} : inbox'[n] = inbox[n]
    BY <2>1, <2>4 DEF TypeOK
  <2>6. applied'[m] = 1 /\ \A n \in Messages \ {m} : applied'[n] = applied[n]
    BY <2>1, <2>2, <2>4 DEF TypeOK, DeliveryInv, QueueInv
  <2>7. QueueInv'
    BY <2>1, <2>2, <2>5, <2>6 DEF DeliveryInv, QueueInv, Pending
  <2>8. DeliveredIsApplied'
    BY <2>1, <2>5 DEF DeliveryInv, DeliveredIsApplied, TypeOK
  <2>9. \A c \in Deliverers : InTransaction(c)' => c # d /\ InTransaction(c)
    BY <2>3 DEF InTransaction
  <2>10. Pending' = Pending \ {m} /\ Pending \subseteq Messages
    BY <2>1 DEF Pending, TypeOK
  <2>11. LockInv'
    BY <2>2, <2>3, <2>5, <2>9, <2>10 DEF DeliveryInv, LockInv
  <2> QED
    BY <2>7, <2>8, <2>11 DEF DeliveryInv
<1>14. ASSUME NEW d \in Deliverers, Fail(d) PROVE DeliveryInv'
    BY <1>14, Release DEF Fail, TypeOK
<1>15. ASSUME NEW d \in Deliverers, RecordFailure(d) PROVE DeliveryInv'
    BY <1>15, Release DEF RecordFailure, StopPass, TypeOK
<1>16. ASSUME NEW d \in Deliverers, DeadLetter(d) PROVE DeliveryInv'
  <2> DEFINE m == Head(ids[d])
  <2>1. /\ pc[d] = "record" /\ m \in outbox /\ ~LockedByOther(d, m)
        /\ dead' = dead \cup {m} /\ outbox' = outbox \ {m}
        /\ delivered' = delivered \ {m}
        /\ UNCHANGED <<open, seq, inbox, applied>>
    BY <1>16 DEF DeadLetter, MoveToDead
  <2>2. \A c \in Deliverers : InTransaction(c) => c # d /\ Head(ids[c]) # m
    BY <2>1 DEF LockedByOther, Locks, InTransaction
  <2>3. /\ pc'[d] = "next"
        /\ \A c \in Deliverers \ {d} : pc'[c] = pc[c] /\ ids'[c] = ids[c]
    BY <1>16 DEF DeadLetter, Advance, TypeOK
  <2> HIDE DEF m
  <2>4. QueueInv' /\ DeliveredIsApplied'
    BY <2>1 DEF DeliveryInv, QueueInv, DeliveredIsApplied
  <2>5. \A c \in Deliverers : InTransaction(c)' => c # d /\ InTransaction(c)
    BY <2>3 DEF InTransaction
  <2>6. Pending' = Pending \ {m}
    BY <2>1 DEF Pending
  <2>7. LockInv'
    BY <2>1, <2>2, <2>3, <2>5, <2>6 DEF DeliveryInv, LockInv
  <2> QED
    BY <2>4, <2>7 DEF DeliveryInv
<1>17. ASSUME NEW d \in Deliverers, Crash(d) PROVE DeliveryInv'
    BY <1>17, Release DEF Crash, StopPass, TypeOK
<1>18. ASSUME NEW w \in Workers, NEW m \in Messages, BackoffEnds(w, m) PROVE DeliveryInv'
    BY <1>18, Frame DEF BackoffEnds
<1>19. CASE UNCHANGED vars
    BY <1>19, Frame DEF vars
<1> QED
    BY <1>1, <1>2, <1>3, <1>4, <1>5, <1>6, <1>7, <1>8, <1>9, <1>10, <1>11,
       <1>12, <1>13, <1>14, <1>15, <1>16, <1>17, <1>18, <1>19 DEF Next, Deliver

\* Locks are exclusive and the tables agree, whatever deliverers interleave.
THEOREM DeliveryCorrect == Spec => []DeliveryInv
<1>1. Init => TypeOK /\ DeliveryInv
    BY InitType, InitDelivery
<1>2. TypeOK /\ DeliveryInv /\ [Next]_vars => (TypeOK /\ DeliveryInv)'
    BY NextType, NextDelivery
<1> QED
    BY <1>1, <1>2, PTL DEF Spec

\* No message takes effect twice.
THEOREM ExactlyOnce == Spec => []AppliedOnce
<1>1. DeliveryInv => AppliedOnce
    BY DEF DeliveryInv, QueueInv, AppliedOnce
<1> QED
    BY <1>1, DeliveryCorrect, PTL

\* No row is marked delivered unless its message was applied.
THEOREM DeliveredCorrect == Spec => []DeliveredIsApplied
<1>1. DeliveryInv => DeliveredIsApplied
    BY DEF DeliveryInv
<1> QED
    BY <1>1, DeliveryCorrect, PTL

\* No step removes a committed message from both tables, or leaves it in both.
THEOREM NoMessageLost == Spec => NothingLost
<1>1. TypeOK /\ DeliveryInv /\ [Next]_vars
        => [/\ (outbox \cup dead) \subseteq (outbox' \cup dead')
            /\ outbox' \cap dead' = {}]_vars
  <2> SUFFICES ASSUME TypeOK, DeliveryInv, Next
               PROVE  /\ (outbox \cup dead) \subseteq (outbox' \cup dead')
                      /\ outbox' \cap dead' = {}
    OBVIOUS
  <2>1. outbox' \cap dead' = {}
    BY NextDelivery DEF DeliveryInv, QueueInv
  <2>2. ASSUME NEW m \in outbox \cup dead PROVE m \in outbox' \cup dead'
    BY DEF Next, Deliver, SetClock, ToggleLink, RealTime, Enqueue, CommitEnqueue,
        AbortEnqueue, Retry, BeginPass, EndPass, SkipDelivered, Take, ApplyDuplicate,
        Apply, Fail, RecordFailure, DeadLetter, MoveToDead, BackoffEnds, Crash, queueVars
  <2> QED
    BY <2>1, <2>2
<1> QED
    BY <1>1, TypeCorrect, DeliveryCorrect, PTL DEF Spec, NothingLost

-----------------------------------------------------------------------------
(***************************************************************************)
(* The order of delivery.  A message keeps the place in the order it got   *)
(* when it was queued as long as replay_seq names that sequence, which the *)
(* first retry sees to and a second one does not.                          *)
(***************************************************************************)

\* The sequences a message has had.
NumberInv ==
    /\ \A m \in open \cup outbox \cup dead : seq[m] < nextSeq /\ firstSeq[m] > 0
    /\ \A m \in Messages \ (outbox \cup dead) : replaySeq[m] = 0 /\ retries[m] = 0
    /\ \A m \in open \cup outbox \cup dead :
            retries[m] = 0 => (replaySeq[m] = 0 /\ seq[m] = firstSeq[m])
    /\ \A m \in Messages : retries[m] = 1 => replaySeq[m] = firstSeq[m]

OneDeliverer == \A c, d \in Deliverers : c = d

\* Nothing changes the place of a message in a pass under way.
PlacesKept == MaxRetries <= 1 \/ OneDeliverer

\* What is left of d's batch is in order, and holds every row of the batch
\* that is still waiting as the row it was.
PassOf(d) ==
    /\ \A i \in DOMAIN ids[d] : ids[d][i] \in outbox \cup dead
    /\ OneDeliverer => \A i \in DOMAIN ids[d] : ids[d][i] \in outbox
    /\ \A i, j \in DOMAIN ids[d] : i < j => Before(ids[d][i], ids[d][j])
    /\ \A b \in batch[d] : b[1] \in outbox \cup dead /\ b[2] < nextSeq
    /\ \A n \in Pending : <<n, seq[n]>> \in batch[d]
            => \E i \in DOMAIN ids[d] : ids[d][i] = n

OrderInv == NumberInv /\ \A d \in Deliverers : PassOf(d)

\* One retry at most: the place of a message is where it was first queued.
LEMMA PlaceIsFirst ==
    ASSUME TypeOK, NumberInv, MaxRetries <= 1, NEW m \in outbox \cup dead
    PROVE  EffectiveSeq(m) = firstSeq[m]
<1>1. m \in Messages /\ retries[m] \in 0 .. MaxRetries /\ firstSeq[m] \in Nat
    BY DEF TypeOK
<1>2. retries[m] = 0 \/ retries[m] = 1
    BY <1>1, BoundsAssumption
<1> QED
    BY <1>1, <1>2 DEF NumberInv, EffectiveSeq

LEMMA InitOrder == Init => OrderInv
<1> SUFFICES ASSUME Init PROVE OrderInv
    OBVIOUS
<1>1. NumberInv
    BY DEF Init, NumberInv
<1>2. ASSUME NEW d \in Deliverers PROVE PassOf(d)
  <2>1. ids[d] = <<>> /\ batch[d] = {} /\ DOMAIN ids[d] = {}
    BY <1>2 DEF Init
  <2> QED
    BY <2>1 DEF PassOf
<1> QED
    BY <1>1, <1>2 DEF OrderInv

\* Of the steps only those that queue or retry a message touch its numbers.
LEMMA NumberFrame ==
    ASSUME NumberInv, UNCHANGED <<seq, replaySeq, firstSeq, retries, nextSeq>>,
           open' \cup outbox' \cup dead' \subseteq open \cup outbox \cup dead,
           outbox \cup dead \subseteq outbox' \cup dead'
    PROVE  NumberInv'
BY DEF NumberInv

LEMMA NextNumber == TypeOK /\ DeliveryInv /\ NumberInv /\ [Next]_vars => NumberInv'
<1> SUFFICES ASSUME TypeOK, DeliveryInv, NumberInv, [Next]_vars PROVE NumberInv'
    OBVIOUS
<1> USE DEF queueVars, receiverVars, passVars, envVars, enqueueVars
<1>1. ASSUME NEW m \in Messages, Enqueue(m) PROVE NumberInv'
  <2>1. /\ m \notin open \cup outbox \cup dead /\ open' = open \cup {m}
        /\ seq' = [seq EXCEPT ![m] = nextSeq]
        /\ firstSeq' = [firstSeq EXCEPT ![m] = nextSeq]
        /\ nextSeq' = nextSeq + 1
        /\ UNCHANGED <<outbox, dead, replaySeq, retries>>
    BY <1>1 DEF Enqueue
  <2>2. /\ seq \in [Messages -> Nat] /\ firstSeq \in [Messages -> Nat]
        /\ nextSeq \in Nat /\ nextSeq > 0
        /\ open \subseteq Messages /\ outbox \subseteq Messages /\ dead \subseteq Messages
    BY BoundsAssumption DEF TypeOK
  <2>3. /\ seq'[m] = nextSeq /\ firstSeq'[m] = nextSeq
        /\ \A n \in Messages \ {m} : seq'[n] = seq[n] /\ firstSeq'[n] = firstSeq[n]
    BY <2>1, <2>2
  <2> QED
    BY <2>1, <2>2, <2>3 DEF NumberInv
<1>2. ASSUME NEW m \in Messages, Retry(m) PROVE NumberInv'
  <2>1. /\ m \in dead /\ seq[m] > 0
        /\ outbox' = outbox \cup {m} /\ dead' = dead \ {m}
        /\ replaySeq' = [replaySeq EXCEPT ![m] = seq[m]]
        /\ seq' = [seq EXCEPT ![m] = nextSeq]
        /\ nextSeq' = nextSeq + 1
        /\ retries' = [retries EXCEPT ![m] = retries[m] + 1]
        /\ UNCHANGED <<open, firstSeq>>
    BY <1>2 DEF Retry
  <2>2. /\ seq \in [Messages -> Nat] /\ replaySeq \in [Messages -> Nat]
        /\ \A n \in Messages : retries[n] \in Nat
        /\ retries \in [Messages -> 0 .. MaxRetries]
        /\ nextSeq \in Nat
        /\ open \subseteq Messages /\ outbox \subseteq Messages /\ dead \subseteq Messages
    BY BoundsAssumption DEF TypeOK
  <2>3. /\ seq'[m] = nextSeq /\ replaySeq'[m] = seq[m] /\ retries'[m] = retries[m] + 1
        /\ \A n \in Messages \ {m} :
              seq'[n] = seq[n] /\ replaySeq'[n] = replaySeq[n] /\ retries'[n] = retries[n]
    BY <2>1, <2>2
  <2>4. retries'[m] = 1 => replaySeq'[m] = firstSeq'[m]
    BY <2>1, <2>2, <2>3 DEF NumberInv
  <2>5. retries'[m] # 0
    BY <2>2, <2>3
  <2> QED
    BY <2>1, <2>2, <2>3, <2>4, <2>5 DEF NumberInv
<1>3. CASE ~\E m \in Messages : Enqueue(m) \/ Retry(m)
  <2>1. UNCHANGED <<seq, replaySeq, firstSeq, retries, nextSeq>>
    BY <1>3 DEF Next, Deliver, SetClock, ToggleLink, RealTime, CommitEnqueue,
        AbortEnqueue, BeginPass, EndPass, SkipDelivered, Take, ApplyDuplicate,
        Apply, Fail, RecordFailure, DeadLetter, BackoffEnds, Crash, vars
  <2>2. /\ open' \cup outbox' \cup dead' \subseteq open \cup outbox \cup dead
        /\ outbox \cup dead \subseteq outbox' \cup dead'
    BY <1>3 DEF Next, Deliver, SetClock, ToggleLink, RealTime, CommitEnqueue,
        AbortEnqueue, BeginPass, EndPass, SkipDelivered, Take, ApplyDuplicate,
        Apply, Fail, RecordFailure, DeadLetter, MoveToDead, BackoffEnds, Crash, vars
  <2> QED
    BY <2>1, <2>2, NumberFrame
<1> QED
    BY <1>1, <1>2, <1>3

-----------------------------------------------------------------------------
\* A step that leaves a pass alone, moves none of its messages in the order
\* and makes no row of its batch pending keeps its order.
LEMMA PassFrame ==
    ASSUME NEW d \in Deliverers, PassOf(d),
           ids'[d] = ids[d], batch'[d] = batch[d],
           nextSeq \in Nat, nextSeq' \in Nat, nextSeq <= nextSeq',
           \A b \in batch[d] : b[2] \in Nat,
           outbox \cup dead \subseteq outbox' \cup dead',
           OneDeliverer => \A i \in DOMAIN ids[d] : ids[d][i] \in outbox',
           \A i \in DOMAIN ids[d] :
                /\ createdAt'[ids[d][i]] = createdAt[ids[d][i]]
                /\ EffectiveSeq(ids[d][i])' = EffectiveSeq(ids[d][i]),
           \A n \in Pending' : <<n, seq'[n]>> \in batch[d]
                => n \in Pending /\ seq'[n] = seq[n]
    PROVE  PassOf(d)'
<1>1. \A i, j \in DOMAIN ids[d] : i < j => Before(ids[d][i], ids[d][j])'
    BY DEF PassOf, Before
<1>2. \A b \in batch[d] : b[1] \in outbox' \cup dead' /\ b[2] < nextSeq'
    BY DEF PassOf
<1> QED
    BY <1>1, <1>2 DEF PassOf, OneDeliverer

\* The tail of a pass is in order; a row of the batch that is not in the tail
\* was the head.
LEMMA AdvancePass ==
    ASSUME TypeOK, NEW d \in Deliverers, PassOf(d), ids[d] # <<>>, Advance(d),
           UNCHANGED <<seq, replaySeq, createdAt, nextSeq>>,
           outbox \cup dead \subseteq outbox' \cup dead',
           outbox \ {Head(ids[d])} \subseteq outbox',
           Pending' \subseteq Pending \ {Head(ids[d])}
    PROVE  PassOf(d)'
<1> DEFINE s == ids[d]
<1>1. s \in Seq(Messages) /\ s # <<>> /\ Head(s) = s[1]
    BY DEF TypeOK
<1>2. /\ DOMAIN Tail(s) = 1 .. Len(s) - 1 /\ DOMAIN s = 1 .. Len(s)
      /\ \A i \in DOMAIN Tail(s) : i + 1 \in DOMAIN s /\ Tail(s)[i] = s[i + 1]
      /\ \A i \in DOMAIN s : i # 1 => i - 1 \in DOMAIN Tail(s) /\ Tail(s)[i - 1] = s[i]
      /\ 1 \in DOMAIN s /\ \A i \in DOMAIN Tail(s) : i \in Int
    BY <1>1
<1>3. ids'[d] = Tail(s) /\ batch'[d] = batch[d]
    BY DEF Advance, TypeOK
<1> HIDE DEF s
<1>4. PassOf(d) <=> /\ \A i \in DOMAIN s : s[i] \in outbox \cup dead
                    /\ OneDeliverer => \A i \in DOMAIN s : s[i] \in outbox
                    /\ \A i, j \in DOMAIN s : i < j => Before(s[i], s[j])
                    /\ \A b \in batch[d] : b[1] \in outbox \cup dead /\ b[2] < nextSeq
                    /\ \A n \in Pending : <<n, seq[n]>> \in batch[d]
                            => \E i \in DOMAIN s : s[i] = n
    BY DEF PassOf, s
<1>5. ASSUME NEW i \in DOMAIN Tail(s), NEW j \in DOMAIN Tail(s), i < j
      PROVE  Before(ids[d][i], ids[d][j])'
  <2>1. Before(s[i + 1], s[j + 1])
    BY <1>2, <1>4, <1>5
  <2>2. ids'[d][i] = s[i + 1] /\ ids'[d][j] = s[j + 1]
    BY <1>2, <1>3
  <2> QED
    BY <2>1, <2>2 DEF Before, EffectiveSeq
<1>6. \A i \in DOMAIN Tail(s) : Tail(s)[i] # s[1]
  <2> SUFFICES ASSUME NEW i \in DOMAIN Tail(s), Tail(s)[i] = s[1] PROVE FALSE
    OBVIOUS
  <2>1. i + 1 \in DOMAIN s /\ s[i + 1] = s[1] /\ 1 < i + 1
    BY <1>2
  <2>2. Before(s[1], s[1])
    BY <1>2, <1>4, <2>1
  <2>3. s[1] \in Messages
    BY <1>1, <1>2
  <2>4. EffectiveSeq(s[1]) \in Nat
    BY <2>3, EffectiveSeqNat
  <2>5. createdAt[s[1]] \in Int
    BY <2>3, BoundsAssumption DEF TypeOK
  <2> QED
    BY <2>2, <2>4, <2>5 DEF Before
<1>7. \A i \in DOMAIN Tail(s) : Tail(s)[i] \in outbox' \cup dead'
    BY <1>2, <1>4
<1>8. OneDeliverer => \A i \in DOMAIN Tail(s) : Tail(s)[i] \in outbox'
    BY <1>1, <1>2, <1>4, <1>6 DEF s
<1>9. ASSUME NEW n \in Pending', <<n, seq'[n]>> \in batch[d]
       PROVE  \E i \in DOMAIN Tail(s) : Tail(s)[i] = n
  <2>1. n \in Pending /\ n # s[1]
    BY <1>1, <1>9 DEF s
  <2>2. PICK i \in DOMAIN s : s[i] = n
    BY <1>4, <1>9, <2>1
  <2>3. i - 1 \in DOMAIN Tail(s) /\ Tail(s)[i - 1] = n
    BY <1>2, <2>1, <2>2
  <2> QED
    BY <2>3
<1>10. \A b \in batch'[d] : b[1] \in outbox' \cup dead' /\ b[2] < nextSeq'
    BY <1>3, <1>4
<1>11. \A i, j \in DOMAIN ids'[d] : i < j => Before(ids[d][i], ids[d][j])'
    BY <1>3, <1>5
<1> QED
    BY <1>3, <1>7, <1>8, <1>9, <1>10, <1>11 DEF PassOf, OneDeliverer

LEMMA StopPassOrder ==
    ASSUME TypeOK, NEW d \in Deliverers, StopPass(d)
    PROVE  PassOf(d)'
<1>1. ids'[d] = <<>> /\ batch'[d] = {} /\ DOMAIN ids'[d] = {}
    BY DEF StopPass, TypeOK
<1> QED
    BY <1>1 DEF PassOf

\* A pass begins with the pending rows it read, in order.
LEMMA BeginOrder ==
    ASSUME TypeOK, NumberInv, NEW d \in Deliverers, BeginPass(d)
    PROVE  PassOf(d)'
<1>1. PICK s \in [1 .. BatchSize -> Pending] :
            /\ IsBatch(s)
            /\ ids' = [ids EXCEPT ![d] = s]
            /\ batch' = [batch EXCEPT ![d] = {<<s[i], seq[s[i]]>> : i \in DOMAIN s}]
    BY DEF BeginPass
<1>2. /\ UNCHANGED <<outbox, delivered, dead, seq, replaySeq, createdAt, nextSeq>>
      /\ ids'[d] = s /\ batch'[d] = {<<s[i], seq[s[i]]>> : i \in DOMAIN s}
    BY <1>1 DEF BeginPass, queueVars, enqueueVars, TypeOK
<1>3. \A i \in DOMAIN s : s[i] \in Pending
    BY <1>1
<1>4. Pending \subseteq outbox /\ Pending' = Pending
    BY <1>2 DEF Pending
<1>5. ASSUME NEW i \in DOMAIN ids'[d], NEW j \in DOMAIN ids'[d], i < j
      PROVE  Before(ids[d][i], ids[d][j])'
  <2>1. Before(s[i], s[j])
    BY <1>1, <1>2, <1>5 DEF IsBatch
  <2> QED
    BY <1>2, <2>1 DEF Before, EffectiveSeq
<1>6. \A b \in batch'[d] : b[1] \in outbox' \cup dead' /\ b[2] < nextSeq'
    BY <1>2, <1>3, <1>4 DEF NumberInv
<1>7. ASSUME NEW n \in Pending', <<n, seq'[n]>> \in batch'[d]
      PROVE  \E i \in DOMAIN ids'[d] : ids'[d][i] = n
  <2>1. PICK i \in DOMAIN s : <<n, seq'[n]>> = <<s[i], seq[s[i]]>>
    BY <1>2, <1>7
  <2> QED
    BY <1>2, <2>1
<1> QED
    BY <1>2, <1>3, <1>4, <1>5, <1>6, <1>7 DEF PassOf

LEMMA BatchNumbers ==
    ASSUME TypeOK, NEW d \in Deliverers
    PROVE  nextSeq \in Nat /\ \A b \in batch[d] : b[2] \in Nat
BY BoundsAssumption DEF TypeOK

\* A step of another deliverer, or of nobody, that changes no number.
LEMMA OtherPass ==
    ASSUME TypeOK, NEW d \in Deliverers, PassOf(d), ids'[d] = ids[d], batch'[d] = batch[d],
           UNCHANGED <<seq, replaySeq, createdAt, nextSeq>>,
           outbox \cup dead \subseteq outbox' \cup dead', Pending' \subseteq Pending,
           OneDeliverer => outbox \subseteq outbox'
    PROVE  PassOf(d)'
<1>1. OneDeliverer => \A i \in DOMAIN ids[d] : ids[d][i] \in outbox'
    BY DEF PassOf
<1>2. \A m : createdAt'[m] = createdAt[m]
    OBVIOUS
<1>3. \A i \in DOMAIN ids[d] : EffectiveSeq(ids[d][i])' = EffectiveSeq(ids[d][i])
    BY DEF EffectiveSeq
<1>4. nextSeq' \in Nat /\ nextSeq <= nextSeq'
    BY BatchNumbers
<1> QED
    BY <1>1, <1>2, <1>3, <1>4, BatchNumbers, PassFrame

LEMMA EnqueueOrder ==
    ASSUME TypeOK, OrderInv, NEW m \in Messages, Enqueue(m), NEW d \in Deliverers
    PROVE  PassOf(d)'
<1>1. /\ m \notin open \cup outbox \cup dead
      /\ seq' = [seq EXCEPT ![m] = nextSeq]
      /\ createdAt' = [createdAt EXCEPT ![m] = clock]
      /\ nextSeq' = nextSeq + 1
      /\ UNCHANGED <<outbox, delivered, dead, replaySeq, ids, batch>>
    BY DEF Enqueue, passVars
<1>2. PassOf(d) /\ nextSeq \in Nat /\ nextSeq' \in Nat /\ nextSeq <= nextSeq'
    BY <1>1, BatchNumbers DEF OrderInv
<1>3. \A n \in Messages \ {m} : seq'[n] = seq[n] /\ createdAt'[n] = createdAt[n]
    BY <1>1 DEF TypeOK
<1>4. /\ outbox \cup dead \subseteq Messages \ {m} /\ Pending' = Pending
      /\ Pending \subseteq outbox
    BY <1>1 DEF TypeOK, Pending
<1>5. \A i \in DOMAIN ids[d] : ids[d][i] \in Messages \ {m}
    BY <1>2, <1>4 DEF PassOf
<1>6. \A i \in DOMAIN ids[d] :
            /\ createdAt'[ids[d][i]] = createdAt[ids[d][i]]
            /\ EffectiveSeq(ids[d][i])' = EffectiveSeq(ids[d][i])
    BY <1>1, <1>3, <1>5 DEF EffectiveSeq
<1>7. \A n \in Pending' : <<n, seq'[n]>> \in batch[d] => n \in Pending /\ seq'[n] = seq[n]
    BY <1>3, <1>4
<1>8. OneDeliverer => \A i \in DOMAIN ids[d] : ids[d][i] \in outbox'
    BY <1>1, <1>2 DEF PassOf
<1> QED
    BY <1>1, <1>2, <1>6, <1>7, <1>8, BatchNumbers, PassFrame

\* A message put back is a new row, in its old place.
LEMMA RetryOrder ==
    ASSUME TypeOK, DeliveryInv, OrderInv, PlacesKept,
           NEW m \in Messages, Retry(m), NEW d \in Deliverers
    PROVE  PassOf(d)'
<1>1. /\ m \in dead /\ outbox' = outbox \cup {m} /\ dead' = dead \ {m}
      /\ replaySeq' = [replaySeq EXCEPT ![m] = seq[m]]
      /\ seq' = [seq EXCEPT ![m] = nextSeq]
      /\ nextSeq' = nextSeq + 1
      /\ UNCHANGED <<delivered, createdAt, firstSeq, ids, batch>>
    BY DEF Retry, passVars
<1>2. PassOf(d) /\ nextSeq \in Nat /\ nextSeq' \in Nat /\ nextSeq <= nextSeq'
    BY <1>1, BatchNumbers DEF OrderInv
<1>3. \A n \in Messages \ {m} : seq'[n] = seq[n] /\ replaySeq'[n] = replaySeq[n]
    BY <1>1 DEF TypeOK
<1>4. ASSUME NEW i \in DOMAIN ids[d]
      PROVE  EffectiveSeq(ids[d][i])' = EffectiveSeq(ids[d][i])
  <2> DEFINE n == ids[d][i]
  <2>1. n \in outbox \cup dead /\ n \in Messages
    BY <1>2 DEF PassOf, TypeOK
  <2>2. CASE n # m
    BY <1>1, <1>3, <2>1, <2>2 DEF EffectiveSeq
  <2>3. CASE n = m
    <3>1. ~OneDeliverer
      BY <1>1, <1>2, <2>3 DEF PassOf, DeliveryInv, QueueInv
    <3>2. MaxRetries <= 1
      BY <3>1 DEF PlacesKept
    <3>3. retries[m] = 0
      <4>1. retries[m] \in 0 .. MaxRetries /\ retries[m] < MaxRetries
        BY DEF Retry, TypeOK
      <4> QED
        BY <3>2, <4>1, BoundsAssumption
    <3>4. replaySeq[m] = 0 /\ seq[m] > 0
      BY <1>1, <3>3 DEF OrderInv, NumberInv, DeliveryInv, QueueInv
    <3>5. replaySeq'[m] = seq[m]
      BY <1>1 DEF TypeOK
    <3> QED
      BY <1>1, <2>3, <3>4, <3>5 DEF EffectiveSeq
  <2> QED
    BY <2>2, <2>3
<1>5. \A n \in Pending' : <<n, seq'[n]>> \in batch[d] => n \in Pending /\ seq'[n] = seq[n]
  <2> SUFFICES ASSUME NEW n \in Pending', <<n, seq'[n]>> \in batch[d]
               PROVE  n \in Pending /\ seq'[n] = seq[n]
    OBVIOUS
  <2>1. seq'[n] < nextSeq
    BY <1>2 DEF PassOf
  <2>2. n # m
    BY <1>1, <1>2, <2>1 DEF TypeOK
  <2> QED
    BY <1>1, <1>3, <2>2 DEF Pending, TypeOK
<1>6. OneDeliverer => \A i \in DOMAIN ids[d] : ids[d][i] \in outbox'
    BY <1>1, <1>2 DEF PassOf
<1>7. outbox \cup dead \subseteq outbox' \cup dead'
    BY <1>1
<1> QED
    BY <1>1, <1>2, <1>4, <1>5, <1>6, <1>7, BatchNumbers, PassFrame

LEMMA NextOrder ==
    TypeOK /\ DeliveryInv /\ OrderInv /\ PlacesKept /\ [Next]_vars => OrderInv'
<1> SUFFICES ASSUME TypeOK, DeliveryInv, OrderInv, PlacesKept, [Next]_vars PROVE OrderInv'
    OBVIOUS
<1> USE DEF queueVars, receiverVars, passVars, envVars, enqueueVars
<1>1. NumberInv'
    BY NextNumber DEF OrderInv
<1> SUFFICES ASSUME NEW d \in Deliverers PROVE PassOf(d)'
    BY <1>1 DEF OrderInv
<1>2. PassOf(d)
    BY DEF OrderInv
<1>3. ASSUME NEW m \in Messages, Enqueue(m) PROVE PassOf(d)'
    BY <1>3, EnqueueOrder
<1>4. ASSUME NEW m \in Messages, Retry(m) PROVE PassOf(d)'
    BY <1>4, RetryOrder
<1>5. ASSUME NEW m \in Messages, CommitEnqueue(m) PROVE PassOf(d)'
  <2>1. /\ m \in open /\ outbox' = outbox \cup {m} /\ ids' = ids /\ batch' = batch
        /\ UNCHANGED <<delivered, dead, seq, replaySeq, createdAt, nextSeq>>
    BY <1>5 DEF CommitEnqueue
  <2>2. m \notin outbox \cup dead
    BY <2>1 DEF DeliveryInv, QueueInv
  <2>3. \A n \in Pending' : <<n, seq'[n]>> \in batch[d] => n \in Pending /\ seq'[n] = seq[n]
    BY <1>2, <2>1, <2>2 DEF PassOf, Pending
  <2>4. \A i \in DOMAIN ids[d] : EffectiveSeq(ids[d][i])' = EffectiveSeq(ids[d][i])
    BY <2>1 DEF EffectiveSeq
  <2>5. OneDeliverer => \A i \in DOMAIN ids[d] : ids[d][i] \in outbox'
    BY <1>2, <2>1 DEF PassOf
  <2>6. nextSeq' \in Nat /\ nextSeq <= nextSeq'
    BY <2>1, BatchNumbers
  <2> QED
    BY <1>2, <2>1, <2>3, <2>4, <2>5, <2>6, BatchNumbers, PassFrame
<1>6. ASSUME NEW c \in Deliverers, Deliver(c) \/ Crash(c) PROVE PassOf(d)'
  <2>1. CASE BeginPass(c)
    <3>1. CASE c = d
      BY <2>1, <3>1, BeginOrder DEF OrderInv
    <3>2. CASE c # d
      BY <1>2, <2>1, <3>2, OtherPass DEF BeginPass, TypeOK, Pending
    <3> QED
      BY <3>1, <3>2
  <2>2. CASE EndPass(c) \/ RecordFailure(c) \/ Crash(c)
    <3>1. /\ StopPass(c)
          /\ UNCHANGED <<outbox, delivered, dead, seq, replaySeq, createdAt, nextSeq>>
      BY <2>2 DEF EndPass, RecordFailure, Crash
    <3>2. CASE c = d
      BY <3>1, <3>2, StopPassOrder
    <3>3. CASE c # d
      BY <1>2, <3>1, <3>3, OtherPass DEF StopPass, TypeOK, Pending
    <3> QED
      BY <3>2, <3>3
  <2>3. CASE Take(c) \/ Fail(c)
    <3>1. UNCHANGED <<ids, batch, outbox, delivered, dead, seq, replaySeq, createdAt, nextSeq>>
      BY <2>3 DEF Take, Fail
    <3> QED
      BY <1>2, <3>1, OtherPass DEF Pending
  <2>4. CASE SkipDelivered(c) \/ ApplyDuplicate(c) \/ Apply(c) \/ DeadLetter(c)
    <3>1. /\ Advance(c) /\ ids[c] # <<>>
          /\ UNCHANGED <<seq, replaySeq, createdAt, nextSeq>>
      BY <2>4 DEF SkipDelivered, ApplyDuplicate, Apply, DeadLetter, TypeOK
    <3>2. outbox \cup dead \subseteq outbox' \cup dead'
      BY <2>4 DEF SkipDelivered, ApplyDuplicate, Apply, DeadLetter, MoveToDead
    <3>3. outbox \ {Head(ids[c])} \subseteq outbox'
      BY <2>4 DEF SkipDelivered, ApplyDuplicate, Apply, DeadLetter, MoveToDead
    <3>4. Pending' \subseteq Pending \ {Head(ids[c])}
      <4>1. CASE SkipDelivered(c)
        BY <4>1 DEF SkipDelivered, Skips, Pending
      <4>2. CASE ApplyDuplicate(c) \/ Apply(c)
        BY <4>2 DEF ApplyDuplicate, Apply, Pending
      <4>3. CASE DeadLetter(c)
        BY <4>3 DEF DeadLetter, MoveToDead, Pending
      <4> QED
        BY <2>4, <4>1, <4>2, <4>3
    <3>5. CASE c = d
      BY <1>2, <3>1, <3>2, <3>3, <3>4, <3>5, AdvancePass
    <3>6. CASE c # d
      <4>1. ids'[d] = ids[d] /\ batch'[d] = batch[d] /\ ~OneDeliverer
        BY <3>1, <3>6 DEF Advance, TypeOK, OneDeliverer
      <4> QED
        BY <1>2, <3>1, <3>2, <3>4, <4>1, OtherPass
    <3> QED
      BY <3>5, <3>6
  <2> QED
    BY <1>6, <2>1, <2>2, <2>3, <2>4 DEF Deliver
<1>7. CASE \/ \E t \in 0 .. MaxTime : SetClock(t)
           \/ ToggleLink \/ RealTime
           \/ \E m \in Messages : AbortEnqueue(m)
           \/ \E w \in Workers, m \in Messages : BackoffEnds(w, m)
           \/ UNCHANGED vars
  <2>1. UNCHANGED <<ids, batch, outbox, delivered, dead, seq, replaySeq, createdAt, nextSeq>>
    BY <1>7 DEF SetClock, ToggleLink, RealTime, AbortEnqueue, BackoffEnds, vars
  <2> QED
    BY <1>2, <2>1, OtherPass DEF Pending
<1> QED
    BY <1>3, <1>4, <1>5, <1>6, <1>7 DEF Next

\* The head of a pass in order comes before whatever else of its batch waits.
LEMMA HeadFirst ==
    ASSUME TypeOK, OrderInv, NEW d \in Deliverers, pc[d] = "apply",
           NEW n \in Pending, <<n, seq[n]>> \in batch[d]
    PROVE  ~Before(n, Head(ids[d]))
<1>1. ids[d] \in Seq(Messages) /\ ids[d] # <<>>
    BY DEF TypeOK
<1>2. Head(ids[d]) = ids[d][1] /\ 1 \in DOMAIN ids[d] /\ DOMAIN ids[d] \subseteq Nat
      /\ \A i \in DOMAIN ids[d] : i # 1 => 1 < i
    BY <1>1
<1>3. PICK i \in DOMAIN ids[d] : ids[d][i] = n
    BY DEF OrderInv, PassOf
<1>4. n \in Messages /\ ids[d][1] \in Messages
    BY <1>1, <1>2, <1>3
<1>5. /\ EffectiveSeq(n) \in Nat /\ EffectiveSeq(ids[d][1]) \in Nat
      /\ createdAt[n] \in Int /\ createdAt[ids[d][1]] \in Int
  <2>1. EffectiveSeq(n) \in Nat
    BY <1>4, EffectiveSeqNat
  <2>2. EffectiveSeq(ids[d][1]) \in Nat
    BY <1>4, EffectiveSeqNat
  <2>3. createdAt[n] \in Int /\ createdAt[ids[d][1]] \in Int
    BY <1>4, BoundsAssumption DEF TypeOK
  <2> QED
    BY <2>1, <2>2, <2>3
<1>6. CASE i = 1
    BY <1>2, <1>3, <1>5, <1>6 DEF Before
<1>7. CASE i # 1
  <2>1. Before(ids[d][1], n)
    BY <1>2, <1>3, <1>7 DEF OrderInv, PassOf
  <2> QED
    BY <1>2, <1>5, <2>1 DEF Before
<1> QED
    BY <1>6, <1>7

\* Where the place of a message cannot change during a pass (one retry of a
\* message at most, or a single deliverer), no waiting row of a batch is
\* overtaken (worker.py: "Stop rather than skip ahead, so order is kept").
THEOREM InOrder == PlacesKept => (Spec => NoOvertaking)
<1>1. CASE PlacesKept
  <2>1. TypeOK /\ DeliveryInv /\ OrderInv /\ [Next]_vars => OrderInv'
    BY <1>1, NextOrder
  <2>2. TypeOK /\ OrderInv /\ [Next]_vars
          => [\A d \in Deliverers : pc[d] = "apply" =>
                LET m == Head(ids[d]) IN
                  applied'[m] # applied[m] =>
                      \A n \in Pending : <<n, seq[n]>> \in batch[d] => ~Before(n, m)]_vars
    BY HeadFirst
  <2> QED
    BY <2>1, <2>2, InitOrder, TypeCorrect, DeliveryCorrect, PTL DEF Spec, NoOvertaking
<1>2. CASE ~PlacesKept
    BY <1>2
<1> QED
    BY <1>1, <1>2

-----------------------------------------------------------------------------
(***************************************************************************)
(* What the receiving rows hold.                                           *)
(***************************************************************************)

\* A row carries the sequence its message was first queued with, and a single
\* deliverer's handler has read it as it is.
RowInv ==
    /\ \A e \in Entities :
            /\ row[e].syncSeq = FirstSeqOf(row[e])
            /\ row[e].msg \in outbox \cup dead \cup {None}
    /\ \A m \in Messages : inbox[m] # 0 => m \in outbox \cup dead
    /\ \A d \in Deliverers : pc[d] = "apply" =>
            view[d] = row[EntityOf[Head(ids[d])]].syncSeq
    /\ NewestApplied

LEMMA InitRows == Init => RowInv
BY DEF Init, RowInv, FirstSeqOf, NewestApplied

\* The rows do not change, and no queued message's numbers do.
LEMMA RowFrame ==
    ASSUME TypeOK, RowInv, UNCHANGED <<row, inbox>>,
           outbox \cup dead \subseteq outbox' \cup dead',
           \A m \in outbox \cup dead : firstSeq'[m] = firstSeq[m],
           \A d \in Deliverers : pc'[d] = "apply" =>
                view'[d] = row[EntityOf[Head(ids'[d])]].syncSeq
    PROVE  RowInv'
<1>1. \A e \in Entities : FirstSeqOf(row[e])' = FirstSeqOf(row[e])
    BY DEF RowInv, FirstSeqOf
<1>2. \A m \in Messages : EntityOf[m] \in Entities
    BY MessagesAssumption
<1>3. NewestApplied'
    BY <1>1, <1>2 DEF RowInv, NewestApplied
<1> QED
    BY <1>1, <1>3 DEF RowInv

\* The newest of the messages applied to a row stays there.
LEMMA ApplyRow ==
    ASSUME TypeOK, DeliveryInv, OrderInv, RowInv, MaxRetries <= 1, OneDeliverer,
           NEW d \in Deliverers, Apply(d)
    PROVE  RowInv'
<1> DEFINE m == Head(ids[d])
           e == EntityOf[m]
<1>1. /\ pc[d] = "apply"
      /\ row' = IF EffectiveSeq(m) > view[d]
                THEN [row EXCEPT ![e] = [msg |-> m, syncSeq |-> EffectiveSeq(m)]]
                ELSE row
      /\ inbox' = [inbox EXCEPT ![m] = EffectiveSeq(m)]
      /\ UNCHANGED <<outbox, dead, firstSeq>>
    BY DEF Apply, enqueueVars
<1>2. m \in outbox /\ m \in Messages /\ e \in Entities
    BY <1>1, MessagesAssumption DEF DeliveryInv, LockInv, InTransaction, Pending, TypeOK
<1>3. EffectiveSeq(m) = firstSeq[m] /\ firstSeq[m] \in Nat
    BY <1>2, PlaceIsFirst DEF OrderInv, TypeOK
<1>4. view[d] = row[e].syncSeq /\ row[e].syncSeq = FirstSeqOf(row[e]) /\ row[e].syncSeq \in Nat
    BY <1>1, <1>2 DEF RowInv, TypeOK
<1>5. pc' = [pc EXCEPT ![d] = "next"] /\ \A c \in Deliverers : c = d
    BY DEF Apply, Advance, OneDeliverer
<1> HIDE DEF m, e
<1>6. \A c \in Deliverers : pc'[c] # "apply"
    BY <1>5 DEF TypeOK
<1>7. m # None
    BY <1>2, MessagesAssumption
<1>8. \A r \in Entities : row'[r] = row[r] \/ (r = e /\ row'[r] = [msg |-> m, syncSeq |-> firstSeq[m]])
    BY <1>1, <1>2, <1>3 DEF TypeOK
<1>9. ASSUME NEW r \in Entities
      PROVE  row'[r].syncSeq = FirstSeqOf(row[r])' /\ row'[r].msg \in outbox' \cup dead' \cup {None}
    BY <1>1, <1>2, <1>7, <1>8 DEF RowInv, FirstSeqOf
<1>10. \A r \in Entities : row[r].syncSeq <= row'[r].syncSeq
  <2> SUFFICES ASSUME NEW r \in Entities PROVE row[r].syncSeq <= row'[r].syncSeq
    OBVIOUS
  <2>1. row[r].syncSeq \in Nat
    BY DEF TypeOK
  <2>2. CASE r # e
    BY <1>8, <2>1, <2>2
  <2>3. CASE r = e
    BY <1>1, <1>2, <1>3, <1>4, <2>1, <2>3 DEF TypeOK
  <2> QED
    BY <2>2, <2>3
<1>11. firstSeq[m] <= row'[e].syncSeq
  <2>1. CASE firstSeq[m] > view[d]
    <3>1. row' = [row EXCEPT ![e] = [msg |-> m, syncSeq |-> firstSeq[m]]]
      BY <1>1, <1>3, <2>1
    <3>2. row'[e].syncSeq = firstSeq[m]
      BY <1>2, <3>1 DEF TypeOK
    <3> QED
      BY <1>3, <3>2
  <2>2. CASE ~(firstSeq[m] > view[d])
    BY <1>1, <1>3, <1>4, <2>2
  <2> QED
    BY <2>1, <2>2
<1>12. ASSUME NEW n \in Messages, inbox'[n] # 0
       PROVE  firstSeq'[n] <= FirstSeqOf(row[EntityOf[n]])'
  <2>1. EntityOf[n] \in Entities /\ EntityOf'[n] = EntityOf[n]
    BY MessagesAssumption
  <2>2. FirstSeqOf(row[EntityOf[n]])' = row'[EntityOf[n]].syncSeq
    BY <1>9, <2>1
  <2>3. CASE n = m
    BY <1>1, <1>11, <2>2, <2>3 DEF e
  <2>4. CASE n # m
    <3>1. inbox[n] # 0
      BY <1>1, <1>12, <2>4 DEF TypeOK
    <3>2. firstSeq[n] <= row[EntityOf[n]].syncSeq
      BY <2>1, <3>1 DEF RowInv, NewestApplied
    <3>3. /\ firstSeq[n] \in Nat /\ row[EntityOf[n]].syncSeq \in Nat
          /\ row[EntityOf[n]].syncSeq <= row'[EntityOf[n]].syncSeq
      BY <1>10, <2>1 DEF TypeOK
    <3>4. row'[EntityOf[n]].syncSeq \in Nat
      BY <1>3, <1>8, <2>1, <3>3
    <3> QED
      BY <1>1, <2>2, <3>2, <3>3, <3>4
  <2> QED
    BY <2>3, <2>4
<1>13. \A n \in Messages : inbox'[n] # 0 => n \in outbox' \cup dead'
    BY <1>1, <1>2 DEF RowInv, TypeOK
<1> QED
    BY <1>6, <1>9, <1>12, <1>13 DEF RowInv, NewestApplied

LEMMA NextRows ==
    /\ TypeOK /\ DeliveryInv /\ OrderInv /\ RowInv /\ MaxRetries <= 1 /\ OneDeliverer
    /\ [Next]_vars
    => RowInv'
<1> SUFFICES ASSUME TypeOK, DeliveryInv, OrderInv, RowInv, MaxRetries <= 1, OneDeliverer,
                    [Next]_vars
             PROVE  RowInv'
    OBVIOUS
<1> USE DEF queueVars, receiverVars, passVars, envVars, enqueueVars
<1>1. ASSUME NEW d \in Deliverers, Apply(d) PROVE RowInv'
    BY <1>1, ApplyRow
<1>2. ASSUME NEW d \in Deliverers, Take(d) PROVE RowInv'
  <2>1. /\ UNCHANGED <<row, inbox, outbox, dead, firstSeq, ids>>
        /\ view' = [view EXCEPT ![d] = row[EntityOf[Head(ids[d])]].syncSeq]
    BY <1>2 DEF Take
  <2>2. \A c \in Deliverers : view'[c] = row[EntityOf[Head(ids'[c])]].syncSeq
    BY <2>1 DEF TypeOK, OneDeliverer
  <2> QED
    BY <2>1, <2>2, RowFrame
<1>3. ASSUME NEW d \in Deliverers,
             \/ BeginPass(d) \/ EndPass(d) \/ SkipDelivered(d) \/ ApplyDuplicate(d)
             \/ Fail(d) \/ RecordFailure(d) \/ DeadLetter(d) \/ Crash(d)
      PROVE  RowInv'
  <2>1. UNCHANGED <<row, inbox, firstSeq>>
    BY <1>3 DEF BeginPass, EndPass, SkipDelivered, ApplyDuplicate, Fail, RecordFailure,
        DeadLetter, Crash
  <2>2. outbox \cup dead \subseteq outbox' \cup dead'
    BY <1>3 DEF BeginPass, EndPass, SkipDelivered, ApplyDuplicate, Fail, RecordFailure,
        DeadLetter, MoveToDead, Crash
  <2>3. pc'[d] # "apply"
    BY <1>3 DEF BeginPass, EndPass, SkipDelivered, ApplyDuplicate, Fail, RecordFailure,
        DeadLetter, Crash, StopPass, Advance, TypeOK
  <2>4. \A c \in Deliverers : pc'[c] # "apply"
    BY <2>3 DEF OneDeliverer
  <2> QED
    BY <2>1, <2>2, <2>4, RowFrame
<1>4. ASSUME NEW m \in Messages, Enqueue(m) PROVE RowInv'
  <2>1. /\ m \notin outbox \cup dead /\ firstSeq' = [firstSeq EXCEPT ![m] = nextSeq]
        /\ UNCHANGED <<row, inbox, outbox, dead, ids, pc, view>>
    BY <1>4 DEF Enqueue
  <2>2. \A n \in outbox \cup dead : firstSeq'[n] = firstSeq[n]
    BY <2>1 DEF TypeOK
  <2>3. \A d \in Deliverers : pc'[d] = "apply" => view'[d] = row[EntityOf[Head(ids'[d])]].syncSeq
    BY <2>1 DEF RowInv
  <2> QED
    BY <2>1, <2>2, <2>3, RowFrame
<1>5. CASE \/ \E t \in 0 .. MaxTime : SetClock(t)
           \/ ToggleLink \/ RealTime
           \/ \E m \in Messages : CommitEnqueue(m) \/ AbortEnqueue(m) \/ Retry(m)
           \/ \E w \in Workers, m \in Messages : BackoffEnds(w, m)
           \/ UNCHANGED vars
  <2>1. /\ UNCHANGED <<row, inbox, firstSeq, ids, pc, view>>
        /\ outbox \cup dead \subseteq outbox' \cup dead'
    BY <1>5 DEF SetClock, ToggleLink, RealTime, CommitEnqueue, AbortEnqueue, Retry,
        BackoffEnds, vars
  <2>2. \A d \in Deliverers : pc'[d] = "apply" => view'[d] = row[EntityOf[Head(ids'[d])]].syncSeq
    BY <2>1 DEF RowInv
  <2> QED
    BY <2>1, <2>2, RowFrame
<1> QED
    BY <1>1, <1>2, <1>3, <1>4, <1>5 DEF Next, Deliver

\* With one deliverer and at most one retry of a message, a receiving row
\* holds the newest message applied to it (cloud_to_edge.py: "late or repeated
\* messages never undo newer data").
THEOREM NewestStays == MaxRetries <= 1 /\ OneDeliverer => (Spec => []NewestApplied)
<1>1. CASE MaxRetries <= 1 /\ OneDeliverer
  <2>1. TypeOK /\ DeliveryInv /\ OrderInv /\ [Next]_vars => OrderInv'
    BY <1>1, NextOrder DEF PlacesKept
  <2>2. TypeOK /\ DeliveryInv /\ OrderInv /\ RowInv /\ [Next]_vars => RowInv'
    BY <1>1, NextRows
  <2>3. RowInv => NewestApplied
    BY DEF RowInv
  <2> QED
    BY <2>1, <2>2, <2>3, InitOrder, InitRows, TypeCorrect, DeliveryCorrect, PTL DEF Spec
<1>2. CASE ~(MaxRetries <= 1 /\ OneDeliverer)
    BY <1>2
<1> QED
    BY <1>1, <1>2

=============================================================================
