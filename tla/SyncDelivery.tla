---------------------------- MODULE SyncDelivery ----------------------------
(***************************************************************************)
(* One direction of the sync service: messages queued in an outbox table,  *)
(* delivered in order to the other tier, applied at most once, moved to a  *)
(* dead-letter table when they keep failing and put back by an admin.      *)
(* Translated from app/sync/worker.py, app/sync/outbox.py and the guarded  *)
(* row handlers of app/sync/handlers.                                      *)
(*                                                                         *)
(* A message is its message_id, which identifies its idempotency key too:  *)
(* both are created together and neither ever changes.  Deliverers are the *)
(* app's SyncWorker (Workers) and scripts that call deliver_all (Scripts); *)
(* each database transaction of theirs is one or two actions, at the       *)
(* points where PostgreSQL lets another transaction in.                    *)
(***************************************************************************)
EXTENDS Integers, FiniteSets, Sequences

CONSTANTS
    Messages,         \* every message this direction may carry
    Entities,         \* rows of the receiving tier
    EntityOf,         \* the row a message updates
    None,             \* no message has written the row yet
    Workers,          \* SyncWorker loops: gated by the link and by backoff
    Scripts,          \* deliver_all callers: neither gate applies
    Poison,           \* messages whose handler always raises
    Flaky,            \* messages whose handler may raise
    Batch,            \* _BATCH_SIZE
    Window,           \* the dead-letter window, in units of real time
    ClockMayRegress,  \* set_sim_time is called with an earlier timestamp
    MaxTime,          \* bound: simulation timestamps
    MaxSeq,           \* bound: outbox sequence numbers handed out
    MaxRetries,       \* bound: admin retries of one message
    MaxCrashes,       \* bound: process restarts
    MaxToggles        \* bound: changes of the cloud link

Deliverers == Workers \cup Scripts

ASSUME MessagesAssumption ==
    /\ IsFiniteSet(Messages)
    /\ None \notin Messages
    /\ EntityOf \in [Messages -> Entities]
    /\ Poison \subseteq Messages
    /\ Flaky \subseteq Messages

ASSUME BoundsAssumption ==
    /\ Batch \in Nat \ {0}
    /\ Window \in Nat \ {0}
    /\ ClockMayRegress \in BOOLEAN
    /\ MaxTime \in Nat
    /\ MaxSeq \in Nat
    /\ MaxRetries \in Nat
    /\ MaxCrashes \in Nat
    /\ MaxToggles \in Nat

NotFailed == -1

VARIABLES
    clock,        \* sim_now()
    link,         \* is_cloud_reachable()
    nextSeq,      \* next value of the outbox identity column
    open,         \* messages added by a transaction that has not committed
    outbox,       \* committed outbox rows, delivered ones included
    delivered,    \* rows with delivered_at set
    dead,         \* dead-letter rows
    seq,          \* seq of a message's outbox or dead-letter row
    replaySeq,    \* replay_seq, 0 when null
    createdAt,    \* created_at
    failedFor,    \* real time since first_failed_at, NotFailed when null
    inbox,        \* receiving inbox: the sequence a key was applied with, or 0
    row,          \* receiving rows: the message that wrote one, its sync_seq
    pc,           \* what each deliverer is doing
    ids,          \* the ids left of a deliverer's batch, in order
    view,         \* sync_seq of the row as the open handler read it
    backoff,      \* messages a worker's _retry_at holds back
    retries,      \* admin retries of each message
    crashes,
    toggles,
    \* History, read by the properties only
    firstSeq,     \* the seq a message was first queued with
    applied,      \* how many times a handler's effect was committed
    batch         \* the rows <<id, seq>> a deliverer read when its pass began

queueVars    == <<outbox, delivered, dead, seq, replaySeq, createdAt>>
receiverVars == <<inbox, row, applied>>
passVars     == <<pc, ids, view, batch>>
envVars      == <<clock, link, toggles>>
enqueueVars  == <<nextSeq, open, firstSeq>>
vars == <<queueVars, failedFor, receiverVars, passVars, envVars, enqueueVars,
          backoff, retries, crashes>>

-----------------------------------------------------------------------------
Pending == outbox \ delivered

\* The order of a direction: sim timestamp, then the original sequence.
IgnoreReplaySeq(m) == seq[m]   \* mutant
EffectiveSeq(m) == IF replaySeq[m] # 0 THEN replaySeq[m] ELSE seq[m]

Before(m, n) ==
    \/ createdAt[m] < createdAt[n]
    \/ createdAt[m] = createdAt[n] /\ EffectiveSeq(m) < EffectiveSeq(n)

\* A row lock lasts from the FOR UPDATE read to the commit or rollback.
InTransaction(d) == pc[d] \in {"apply", "duplicate"}
Locks(d, m) == InTransaction(d) /\ Head(ids[d]) = m
LockedByOther(d, m) == \E other \in Deliverers \ {d} : Locks(other, m)

\* The first Batch pending messages in order.
BatchSize == IF Cardinality(Pending) < Batch THEN Cardinality(Pending) ELSE Batch

IsBatch(s) ==
    /\ \A i, j \in DOMAIN s : i < j => Before(s[i], s[j])
    /\ \A m \in Pending : (\A i \in DOMAIN s : s[i] # m)
                              => \A i \in DOMAIN s : Before(s[i], m)

-----------------------------------------------------------------------------
Init ==
    /\ clock = 0 /\ link = TRUE /\ toggles = 0
    /\ nextSeq = 1 /\ open = {} /\ firstSeq = [m \in Messages |-> 0]
    /\ outbox = {} /\ delivered = {} /\ dead = {}
    /\ seq = [m \in Messages |-> 0]
    /\ replaySeq = [m \in Messages |-> 0]
    /\ createdAt = [m \in Messages |-> 0]
    /\ failedFor = [m \in Messages |-> NotFailed]
    /\ inbox = [m \in Messages |-> 0]
    /\ row = [e \in Entities |-> [msg |-> None, syncSeq |-> 0]]
    /\ applied = [m \in Messages |-> 0]
    /\ pc = [d \in Deliverers |-> "idle"]
    /\ ids = [d \in Deliverers |-> <<>>]
    /\ view = [d \in Deliverers |-> 0]
    /\ batch = [d \in Deliverers |-> {}]
    /\ backoff = [w \in Workers |-> {}]
    /\ retries = [m \in Messages |-> 0]
    /\ crashes = 0

-----------------------------------------------------------------------------
\* The surroundings: the simulation clock, the link, real time.

SetClock(t) ==
    /\ t # clock /\ (t > clock \/ ClockMayRegress)
    /\ clock' = t
    /\ UNCHANGED <<link, toggles, queueVars, failedFor, receiverVars,
                   passVars, enqueueVars, backoff, retries, crashes>>

ToggleLink ==
    /\ toggles < MaxToggles
    /\ link' = ~link
    /\ toggles' = toggles + 1
    /\ UNCHANGED <<clock, queueVars, failedFor, receiverVars, passVars,
                   enqueueVars, backoff, retries, crashes>>

Counting(m) == m \in outbox /\ failedFor[m] # NotFailed /\ failedFor[m] < Window

\* wall_clock_now advances for every message that has failed; the counters
\* stop at Window, where the code stops telling the values apart.
RealTime ==
    /\ \E m \in Messages : Counting(m)
    /\ failedFor' = [m \in Messages |->
                        IF Counting(m) THEN failedFor[m] + 1 ELSE failedFor[m]]
    /\ UNCHANGED <<queueVars, receiverVars, passVars, envVars, enqueueVars,
                   backoff, retries, crashes>>

-----------------------------------------------------------------------------
\* Queueing: enqueue adds a row in the caller's transaction.  The identity
\* column numbers it there and then; other transactions see it at the commit.

Enqueue(m) ==
    /\ m \notin open \cup outbox \cup dead
    /\ nextSeq <= MaxSeq
    /\ open' = open \cup {m}
    /\ seq' = [seq EXCEPT ![m] = nextSeq]
    /\ firstSeq' = [firstSeq EXCEPT ![m] = nextSeq]
    /\ createdAt' = [createdAt EXCEPT ![m] = clock]
    /\ nextSeq' = nextSeq + 1
    /\ UNCHANGED <<outbox, delivered, dead, replaySeq, failedFor, receiverVars,
                   passVars, envVars, backoff, retries, crashes>>

CommitEnqueue(m) ==
    /\ m \in open
    /\ open' = open \ {m}
    /\ outbox' = outbox \cup {m}
    /\ UNCHANGED <<nextSeq, firstSeq, delivered, dead, seq, replaySeq, createdAt,
                   failedFor, receiverVars, passVars, envVars, backoff,
                   retries, crashes>>

\* The caller's transaction fails: the row goes, its number is not reused.
AbortEnqueue(m) ==
    /\ m \in open
    /\ open' = open \ {m}
    /\ UNCHANGED <<nextSeq, firstSeq, queueVars, failedFor, receiverVars,
                   passVars, envVars, backoff, retries, crashes>>

-----------------------------------------------------------------------------
\* Delivery: deliver_pending, one database transaction after the other.

\* run_once reads the link once, when its pass starts.
BeginPass(d) ==
    /\ pc[d] = "idle"
    /\ d \in Workers => link
    /\ Pending # {}
    /\ \E s \in [1 .. BatchSize -> Pending] :
            /\ IsBatch(s)
            /\ ids' = [ids EXCEPT ![d] = s]
            /\ batch' = [batch EXCEPT ![d] = {<<s[i], seq[s[i]]>> : i \in DOMAIN s}]
    /\ pc' = [pc EXCEPT ![d] = "next"]
    /\ UNCHANGED <<view, queueVars, failedFor, receiverVars, envVars,
                   enqueueVars, backoff, retries, crashes>>

HeldBack(d, m) == d \in Workers /\ m \in backoff[d]

\* A deliverer stops at a message in backoff, or whose row is locked or gone.
StopsAt(d, m) == HeldBack(d, m) \/ m \notin outbox \/ LockedByOther(d, m)

SkipLocked(d, m) == m \in delivered \/ LockedByOther(d, m)   \* mutant
Skips(d, m) == ~StopsAt(d, m) /\ m \in delivered
Takes(d, m) == ~StopsAt(d, m) /\ m \notin delivered

NeverDuplicate(m) == FALSE                                                 \* mutant
IsDuplicate(m) == inbox[m] # 0

StopPass(d) ==
    /\ pc' = [pc EXCEPT ![d] = "idle"]
    /\ ids' = [ids EXCEPT ![d] = <<>>]
    /\ batch' = [batch EXCEPT ![d] = {}]
    /\ view' = [view EXCEPT ![d] = 0]

Advance(d) ==
    /\ pc' = [pc EXCEPT ![d] = "next"]
    /\ ids' = [ids EXCEPT ![d] = Tail(ids[d])]
    /\ view' = [view EXCEPT ![d] = 0]
    /\ UNCHANGED batch

\* The pass ends: nothing left, or a message to stop at rather than skip.
EndPass(d) ==
    /\ pc[d] = "next"
    /\ \/ ids[d] = <<>>
       \/ ids[d] # <<>> /\ StopsAt(d, Head(ids[d]))
    /\ StopPass(d)
    /\ UNCHANGED <<queueVars, failedFor, receiverVars, envVars, enqueueVars,
                   backoff, retries, crashes>>

SkipDelivered(d) ==
    /\ pc[d] = "next" /\ ids[d] # <<>>
    /\ Skips(d, Head(ids[d]))
    /\ Advance(d)
    /\ UNCHANGED <<queueVars, failedFor, receiverVars, envVars, enqueueVars,
                   backoff, retries, crashes>>

\* Lock the row, look its key up in the inbox, let the handler read its row.
Take(d) ==
    /\ pc[d] = "next" /\ ids[d] # <<>>
    /\ LET m == Head(ids[d]) IN
            /\ Takes(d, m)
            /\ pc' = [pc EXCEPT ![d] = IF IsDuplicate(m) THEN "duplicate" ELSE "apply"]
            /\ view' = [view EXCEPT ![d] = row[EntityOf[m]].syncSeq]
    /\ UNCHANGED <<ids, batch, queueVars, failedFor, receiverVars, envVars,
                   enqueueVars, backoff, retries, crashes>>

\* A key already in the inbox: mark the row delivered, nothing else.
ApplyDuplicate(d) ==
    /\ pc[d] = "duplicate"
    /\ delivered' = delivered \cup {Head(ids[d])}
    /\ Advance(d)
    /\ UNCHANGED <<outbox, dead, seq, replaySeq, createdAt, failedFor,
                   receiverVars, envVars, enqueueVars, backoff, retries, crashes>>

\* The handler inserts the row if it read none, so an insert that another
\* transaction got in first violates the primary key.
InsertCollides(d, m) == view[d] = 0 /\ row[EntityOf[m]].syncSeq # 0

\* apply_shift_record and apply_incident: write unless the row that was read
\* is newer.  The write, the inbox key and delivered_at commit together.
Apply(d) ==
    /\ pc[d] = "apply"
    /\ LET m == Head(ids[d])
           e == EntityOf[m]
           s == EffectiveSeq(m)
       IN  /\ m \notin Poison
           /\ ~InsertCollides(d, m)
           /\ row' = IF s > view[d] THEN [row EXCEPT ![e] = [msg |-> m, syncSeq |-> s]]
                                    ELSE row
           /\ inbox' = [inbox EXCEPT ![m] = s]
           /\ applied' = [applied EXCEPT ![m] = @ + 1]
           /\ delivered' = delivered \cup {m}
    /\ Advance(d)
    /\ UNCHANGED <<outbox, dead, seq, replaySeq, createdAt, failedFor, envVars,
                   enqueueVars, backoff, retries, crashes>>

\* Mutant: the message is taken off the batch before its failure is recorded.
FailTakenOff(d) ==
    /\ pc[d] = "apply"
    /\ LET m == Head(ids[d]) IN m \in Poison \cup Flaky \/ InsertCollides(d, m)
    /\ pc' = [pc EXCEPT ![d] = "record"]
    /\ ids' = [ids EXCEPT ![d] = Tail(@)]
    /\ UNCHANGED <<view, batch, queueVars, failedFor, receiverVars, envVars,
                   enqueueVars, backoff, retries, crashes>>

\* The handler raises: the transaction rolls back and its lock is gone.
Fail(d) ==
    /\ pc[d] = "apply"
    /\ LET m == Head(ids[d]) IN m \in Poison \cup Flaky \/ InsertCollides(d, m)
    /\ pc' = [pc EXCEPT ![d] = "record"]
    /\ UNCHANGED <<ids, view, batch, queueVars, failedFor, receiverVars, envVars,
                   enqueueVars, backoff, retries, crashes>>

NeverOver(m) == FALSE   \* mutant
WindowOver(m) == failedFor[m] = Window

\* mutant
DeleteOnly(m) == dead' = dead /\ outbox' = outbox \ {m} /\ delivered' = delivered \ {m}

\* The dead letter keeps the row's own seq, not its replay_seq.
MoveToDead(m) ==
    /\ dead' = dead \cup {m}
    /\ outbox' = outbox \ {m}
    /\ delivered' = delivered \ {m}

\* run_once schedules a retry for the message a pass stopped at.
HoldBack(d, m) ==
    backoff' = IF d \in Workers THEN [backoff EXCEPT ![d] = @ \cup {m}] ELSE backoff

\* _record_failure in its own transaction, which does not lock the row: by
\* now another deliverer may have applied the message or moved it away.
\* Writing the row waits for a deliverer that has locked it again.
RecordFailure(d) ==
    /\ pc[d] = "record"
    /\ LET m == Head(ids[d]) IN
            /\ ~LockedByOther(d, m)
            /\ \/ m \notin outbox
               \/ ~WindowOver(m)
            /\ failedFor' = IF m \in outbox /\ failedFor[m] = NotFailed
                            THEN [failedFor EXCEPT ![m] = 0] ELSE failedFor
            /\ HoldBack(d, m)
    /\ StopPass(d)
    /\ UNCHANGED <<queueVars, receiverVars, envVars, enqueueVars,
                   retries, crashes>>

\* Failing for the whole window: the row moves, delivery continues.
DeadLetter(d) ==
    /\ pc[d] = "record"
    /\ LET m == Head(ids[d]) IN
            /\ ~LockedByOther(d, m)
            /\ m \in outbox
            /\ WindowOver(m)
            /\ MoveToDead(m)
    /\ Advance(d)
    /\ UNCHANGED <<seq, replaySeq, createdAt, failedFor, receiverVars, envVars,
                   enqueueVars, backoff, retries, crashes>>

BackoffEnds(w, m) ==
    /\ m \in backoff[w]
    /\ backoff' = [backoff EXCEPT ![w] = @ \ {m}]
    /\ UNCHANGED <<queueVars, failedFor, receiverVars, passVars, envVars,
                   enqueueVars, retries, crashes>>

\* The process stops: open transactions roll back, memory is lost.
Crash(d) ==
    /\ crashes < MaxCrashes
    /\ pc[d] # "idle"
    /\ StopPass(d)
    /\ backoff' = IF d \in Workers THEN [backoff EXCEPT ![d] = {}] ELSE backoff
    /\ crashes' = crashes + 1
    /\ UNCHANGED <<queueVars, failedFor, receiverVars, envVars, enqueueVars, retries>>

-----------------------------------------------------------------------------
\* retry_dead_letter: the same id, key and timestamp in a new outbox row,
\* with the sequence of the dead letter as its replay_seq.
Retry(m) ==
    /\ m \in dead
    /\ seq[m] > 0
    /\ retries[m] < MaxRetries /\ nextSeq <= MaxSeq
    /\ dead' = dead \ {m}
    /\ outbox' = outbox \cup {m}
    /\ replaySeq' = [replaySeq EXCEPT ![m] = seq[m]]
    /\ seq' = [seq EXCEPT ![m] = nextSeq]
    /\ nextSeq' = nextSeq + 1
    /\ failedFor' = [failedFor EXCEPT ![m] = NotFailed]
    /\ retries' = [retries EXCEPT ![m] = @ + 1]
    /\ UNCHANGED <<delivered, createdAt, open, firstSeq, receiverVars, passVars,
                   envVars, backoff, crashes>>

-----------------------------------------------------------------------------
Deliver(d) ==
    \/ BeginPass(d) \/ EndPass(d) \/ SkipDelivered(d) \/ Take(d)
    \/ ApplyDuplicate(d) \/ Apply(d) \/ Fail(d)
    \/ RecordFailure(d) \/ DeadLetter(d)

Next ==
    \/ \E t \in 0 .. MaxTime : SetClock(t)
    \/ ToggleLink
    \/ RealTime
    \/ \E m \in Messages : Enqueue(m) \/ CommitEnqueue(m) \/ AbortEnqueue(m) \/ Retry(m)
    \/ \E d \in Deliverers : Deliver(d) \/ Crash(d)
    \/ \E w \in Workers, m \in Messages : BackoffEnds(w, m)

Spec == Init /\ [][Next]_vars

\* The worker polls for ever; a script that has begun a pass carries on; real
\* time passes.  Nothing makes the clock move, the link come up, an admin
\* retry or a script start.
FairSpec ==
    /\ Spec
    /\ \A w \in Workers : WF_vars(Deliver(w))
    /\ \A s \in Scripts : WF_vars(Deliver(s) /\ pc[s] # "idle")
    /\ \A w \in Workers, m \in Messages : WF_vars(BackoffEnds(w, m))
    /\ WF_vars(RealTime)

-----------------------------------------------------------------------------
TypeOK ==
    /\ clock \in 0 .. MaxTime /\ link \in BOOLEAN /\ toggles \in 0 .. MaxToggles
    /\ nextSeq \in 1 .. MaxSeq + 1
    /\ firstSeq \in [Messages -> Nat]
    /\ open \subseteq Messages /\ outbox \subseteq Messages
    /\ delivered \subseteq Messages /\ dead \subseteq Messages
    /\ seq \in [Messages -> Nat] /\ replaySeq \in [Messages -> Nat]
    /\ createdAt \in [Messages -> 0 .. MaxTime]
    /\ failedFor \in [Messages -> NotFailed .. Window]
    /\ inbox \in [Messages -> Nat] /\ applied \in [Messages -> Nat]
    /\ row \in [Entities -> [msg : Messages \cup {None}, syncSeq : Nat]]
    /\ pc \in [Deliverers -> {"idle", "next", "apply", "duplicate", "record"}]
    /\ ids \in [Deliverers -> Seq(Messages)]
    /\ \A d \in Deliverers :
            pc[d] \in {"apply", "duplicate", "record"} => ids[d] # <<>>
    /\ view \in [Deliverers -> Nat]
    /\ batch \in [Deliverers -> SUBSET (Messages \X Nat)]
    /\ backoff \in [Workers -> SUBSET Messages]
    /\ retries \in [Messages -> 0 .. MaxRetries]
    /\ crashes \in 0 .. MaxCrashes

\* A message takes effect at most once, whatever deliverers, failures,
\* restarts and admin retries do (worker.py: "never applied twice").
AppliedOnce == \A m \in Messages : applied[m] <= 1

\* A row marked delivered has its key in the inbox: nothing is ticked off
\* whose effect did not commit.
DeliveredIsApplied == \A m \in delivered : inbox[m] # 0

\* What keeps it so.  A row is in one table, delivered rows and applied keys
\* agree, and every number drawn for a queued row is positive.
QueueInv ==
    /\ outbox \cap dead = {} /\ open \cap (outbox \cup dead) = {}
    /\ delivered \subseteq outbox
    /\ \A m \in open \cup outbox \cup dead : seq[m] > 0
    /\ \A m \in Messages : applied[m] = IF inbox[m] = 0 THEN 0 ELSE 1

\* A deliverer in a transaction holds a pending row no other one holds, and
\* what it read of the inbox is still so: _record_failure of another
\* deliverer cannot move the row away meanwhile, nor can its key be applied.
LockInv ==
    /\ \A d \in Deliverers : InTransaction(d) =>
            /\ Head(ids[d]) \in Pending
            /\ inbox[Head(ids[d])] = 0 <=> pc[d] = "apply"
    /\ \A c, d \in Deliverers :
            c # d /\ InTransaction(c) /\ InTransaction(d) => Head(ids[c]) # Head(ids[d])

DeliveryInv == QueueInv /\ DeliveredIsApplied /\ LockInv

\* The receiving row holds the newest of the messages applied to it, in the
\* order they were first queued (cloud_to_edge.py: "late or repeated messages
\* never undo newer data").
FirstSeqOf(r) == IF r.msg = None THEN 0 ELSE firstSeq[r.msg]

NewestApplied ==
    \A m \in Messages : inbox[m] # 0 => firstSeq[m] <= FirstSeqOf(row[EntityOf[m]])

\* A committed message is in the outbox or in the dead letters, in exactly one
\* of them, for ever after: deliver, dead-letter and retry only move it.
NothingLost ==
    [][/\ (outbox \cup dead) \subseteq (outbox' \cup dead')
       /\ outbox' \cap dead' = {}]_vars

\* A deliverer applies its batch in order: a row it read before m's and that
\* is still waiting is never overtaken (worker.py: "Stop rather than skip
\* ahead, so order is kept").  A dead letter put back is a new row.
NoOvertaking ==
    [][\A d \in Deliverers : pc[d] = "apply" =>
          LET m == Head(ids[d]) IN
            applied'[m] # applied[m] =>
                \A n \in Pending : <<n, seq[n]>> \in batch[d] => ~Before(n, m)]_vars

\* Once the link stays up, every queued message is delivered or set aside for
\* the admin: one that fails for ever cannot hold up the rest for ever.
EventuallySettled ==
    <>[]link => \A m \in Messages : m \in outbox ~> m \in delivered \cup dead

=============================================================================
