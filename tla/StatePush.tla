------------------------------ MODULE StatePush ------------------------------
(***************************************************************************)
(* How the console's view of a machine is kept: a client registers, is     *)
(* sent a snapshot, then the updates held back while it was read, then     *)
(* every update as it is broadcast; requests and ticks broadcast what they *)
(* committed, after the commit; the sync worker commits and broadcasts     *)
(* nothing.  Translated from app/api/ws/manager.py, operator_ws.py, the    *)
(* broadcasts of the operator routes and the handlers of cloud_to_edge.py. *)
(*                                                                         *)
(* An item's version is of what an update of it carries: the status and    *)
(* quantities of a task, the severity and status of an incident.  What     *)
(* only the snapshot carries (schedule, ETA, acknowledged at) is left out. *)
(*                                                                         *)
(* An action is what happens between two awaits; the registry's lock is    *)
(* never held over one.                                                    *)
(***************************************************************************)
EXTENDS Integers, Sequences, FiniteSets

CONSTANTS
    Items,        \* what the view shows: the shift, tasks, incidents, coaching
    Delivered,    \* those the sync worker may change: the shift and its tasks
    Clients,
    Writers,      \* requests and ticks that may be at work at once
    MaxChanges,   \* bound: of each item
    MaxConnects   \* bound: of each client

ASSUME PushAssumption ==
    /\ IsFiniteSet(Items) /\ IsFiniteSet(Clients) /\ IsFiniteSet(Writers)
    /\ Delivered \subseteq Items
    /\ MaxChanges \in Nat /\ MaxConnects \in Nat

VARIABLES
    stored,     \* each item's committed version
    writing,    \* each writer: idle, "committed", or "sending" to the rest of some clients
    link,       \* each client: "off", "reading" the snapshot, "catching up", "live"
    held,       \* ConnectionManager._held
    sending,    \* held updates taken off the registry and being sent
    snapshot,   \* what has been read of the snapshot
    view,       \* what the client has been shown
    connects,   \* connections made by each client
    \* History
    overtaken,  \* items changed again before the last change was broadcast
    untold      \* each client: items the worker has changed since it connected, and no
                \* broadcast change since

pushVars ==
    <<stored, writing, link, held, sending, snapshot, view, connects, overtaken, untold>>

Unread == -1
Blank == [i \in Items |-> Unread]
IdleWriter == [step |-> "idle"]

PushInit ==
    /\ stored = [i \in Items |-> 0]
    /\ writing = [w \in Writers |-> IdleWriter]
    /\ link = [c \in Clients |-> "off"]
    /\ held = [c \in Clients |-> <<>>] /\ sending = [c \in Clients |-> <<>>]
    /\ snapshot = [c \in Clients |-> Blank]
    /\ view = [c \in Clients |-> Blank]
    /\ connects = [c \in Clients |-> 0]
    /\ overtaken = {} /\ untold = [c \in Clients |-> {}]

-----------------------------------------------------------------------------
\* A request or a tick commits a change and then broadcasts it.

Pending(i) == {w \in Writers : writing[w] # IdleWriter /\ writing[w].item = i}

Change(w, i) ==
    /\ writing[w] = IdleWriter
    /\ stored[i] < MaxChanges
    /\ stored' = [stored EXCEPT ![i] = @ + 1]
    /\ writing' = [writing EXCEPT ![w] =
                      [step |-> "committed", item |-> i, version |-> stored'[i]]]
    /\ overtaken' = IF Pending(i) = {} THEN overtaken ELSE overtaken \cup {i}
    /\ untold' = [c \in Clients |-> untold[c] \ {i}]
    /\ UNCHANGED <<link, held, sending, snapshot, view, connects>>

Waiting(c) == link[c] \in {"reading", "catching up"}
Connected(c) == link[c] # "off"

\* apply_shift_record, apply_task_assignment, apply_task_cancelled, and the commit.
Deliver(i) ==
    /\ i \in Delivered
    /\ stored[i] < MaxChanges
    /\ stored' = [stored EXCEPT ![i] = @ + 1]
    /\ overtaken' = IF Pending(i) = {} THEN overtaken ELSE overtaken \cup {i}
    /\ untold' = [c \in Clients |-> IF Connected(c) THEN untold[c] \cup {i} ELSE untold[c]]
    /\ UNCHANGED <<writing, link, held, sending, snapshot, view, connects>>

\* broadcast, under the lock: held for those still waiting, to send to the others.
HeldBack(c, m) == IF Waiting(c) THEN Append(held[c], m) ELSE held[c]

Route(w) ==
    /\ writing[w].step = "committed"
    /\ LET m == [item |-> writing[w].item, version |-> writing[w].version]
           rest == {c \in Clients : link[c] = "live"}
       IN  /\ held' = [c \in Clients |-> HeldBack(c, m)]
           /\ writing' = [writing EXCEPT ![w] =
                 IF rest = {} THEN IdleWriter
                 ELSE [step |-> "sending", item |-> m.item, version |-> m.version, to |-> rest]]
    /\ UNCHANGED <<stored, link, sending, snapshot, view, connects, overtaken, untold>>

Unsent(w, c) ==
    LET rest == writing[w].to \ {c}
    IN  IF rest = {} THEN IdleWriter ELSE [writing[w] EXCEPT !.to = rest]

Send(w, c) ==
    /\ writing[w].step = "sending" /\ c \in writing[w].to
    /\ view' = [view EXCEPT ![c][writing[w].item] = writing[w].version]
    /\ writing' = [writing EXCEPT ![w] = Unsent(w, c)]
    /\ UNCHANGED <<stored, link, held, sending, snapshot, connects, overtaken, untold>>

-----------------------------------------------------------------------------
\* A client: connect registers before the snapshot is read.

Connect(c) ==
    /\ ~Connected(c)
    /\ connects[c] < MaxConnects
    /\ connects' = [connects EXCEPT ![c] = @ + 1]
    /\ link' = [link EXCEPT ![c] = "reading"]
    /\ held' = [held EXCEPT ![c] = <<>>]
    /\ snapshot' = [snapshot EXCEPT ![c] = Blank]
    /\ view' = [view EXCEPT ![c] = Blank]
    /\ untold' = [untold EXCEPT ![c] = {}]
    /\ UNCHANGED <<stored, writing, sending, overtaken>>

\* build_snapshot: one query after the other.
ReadItem(c, i) ==
    /\ link[c] = "reading"
    /\ snapshot[c][i] = Unread
    /\ snapshot' = [snapshot EXCEPT ![c][i] = stored[i]]
    /\ UNCHANGED <<stored, writing, link, held, sending, view, connects, overtaken, untold>>

\* send_state_snapshot: the state, then what was held, until nothing more is.
SendSnapshot(c) ==
    /\ link[c] = "reading"
    /\ \A i \in Items : snapshot[c][i] # Unread
    /\ view' = [view EXCEPT ![c] = snapshot[c]]
    /\ link' = [link EXCEPT ![c] = "catching up"]
    /\ UNCHANGED <<stored, writing, held, sending, snapshot, connects, overtaken, untold>>

CaughtUpAtOnce(c) == TRUE   \* mutant
CaughtUp(c) == held[c] = <<>>

TakeHeld(c) ==
    /\ link[c] = "catching up" /\ sending[c] = <<>>
    /\ sending' = [sending EXCEPT ![c] = held[c]]
    /\ held' = [held EXCEPT ![c] = <<>>]
    /\ link' = IF CaughtUp(c) THEN [link EXCEPT ![c] = "live"] ELSE link
    /\ UNCHANGED <<stored, writing, snapshot, view, connects, overtaken, untold>>

SendHeld(c) ==
    /\ sending[c] # <<>>
    /\ view' = [view EXCEPT ![c][Head(sending[c]).item] = Head(sending[c]).version]
    /\ sending' = [sending EXCEPT ![c] = Tail(@)]
    /\ UNCHANGED <<stored, writing, link, held, snapshot, connects, overtaken, untold>>

\* The connection is lost: sends to it fail and it is taken off the registry.
Disconnect(c) ==
    /\ Connected(c)
    /\ link' = [link EXCEPT ![c] = "off"]
    /\ held' = [held EXCEPT ![c] = <<>>]
    /\ sending' = [sending EXCEPT ![c] = <<>>]
    /\ writing' = [w \in Writers |->
          IF writing[w].step = "sending" /\ c \in writing[w].to THEN Unsent(w, c) ELSE writing[w]]
    /\ UNCHANGED <<stored, snapshot, view, connects, overtaken, untold>>

PushNext ==
    \/ \E w \in Writers :
          \/ \E i \in Items : Change(w, i)
          \/ Route(w)
          \/ \E c \in Clients : Send(w, c)
    \/ \E i \in Items : Deliver(i)
    \/ \E c \in Clients :
          \/ Connect(c)
          \/ \E i \in Items : ReadItem(c, i)
          \/ SendSnapshot(c) \/ TakeHeld(c) \/ SendHeld(c)
          \/ Disconnect(c)

PushSpec == PushInit /\ [][PushNext]_pushVars

-----------------------------------------------------------------------------
\* A client that is live is shown what is stored, whenever it connected and however
\* the reads of its snapshot fell between the changes (manager.py: "so nothing that
\* happens while the snapshot is read is lost"), but for two kinds of items: those
\* changed again before the last change was broadcast, as the registry is unlocked
\* before an update is sent and the older one may come last; and those the sync
\* worker has changed since the client connected, until a request or a tick changes
\* them.
ViewCurrent ==
    \A c \in Clients, i \in Items :
        /\ link[c] = "live" /\ sending[c] = <<>>
        /\ Pending(i) = {} /\ i \notin overtaken /\ i \notin untold[c]
        => view[c][i] = stored[i]

=============================================================================
