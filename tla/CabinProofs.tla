----------------------------- MODULE CabinProofs -----------------------------
(***************************************************************************)
(* What the operator in the cab rests on, for every value of the           *)
(* constants: the view of a client that follows the pushes (StatePush),    *)
(* signing in without the cloud (SignIn), the work on a task (EtaTask),    *)
(* the two reports of a shift (ShiftRecords) and a safety rule             *)
(* (RuleStateMachine).  The five share no variable, and each theorem is    *)
(* about the specification of one.                                         *)
(***************************************************************************)
EXTENDS StatePush, SignIn, EtaTask, ShiftRecords, RuleStateMachine, SequenceTheorems,
        FiniteSetTheorems, TLAPS

-----------------------------------------------------------------------------
(***************************************************************************)
(* StatePush.  Of an item that no two writers were changing at once, and   *)
(* that the sync worker has not changed behind the client's back, the      *)
(* last of what a client is still to be sent is what is stored: the end of *)
(* what is held, else of what is being sent, else what it has been shown,  *)
(* or read of its snapshot; unless a writer still owes it the update, and  *)
(* then that writer has what is stored.                                    *)
(***************************************************************************)
Updates == [item : Items, version : Nat]
WriterType ==
    {IdleWriter} \cup [step : {"committed"}, item : Items, version : Nat]
        \cup [step : {"sending"}, item : Items, version : Nat, to : SUBSET Clients]

StoredType == stored \in [Items -> Nat]
WritingType == writing \in [Writers -> WriterType]
LinkType == link \in [Clients -> {"off", "reading", "catching up", "live"}]
QueueType == held \in [Clients -> Seq(Updates)] /\ sending \in [Clients -> Seq(Updates)]
ViewType == snapshot \in [Clients -> [Items -> Int]] /\ view \in [Clients -> [Items -> Int]]
UntoldType == untold \in [Clients -> SUBSET Items]
PushType == StoredType /\ WritingType /\ LinkType /\ QueueType /\ ViewType /\ UntoldType

\* What the registry holds for a client goes with the client's step.
Registry ==
    /\ \A w \in Writers : writing[w].step = "sending" => \A c \in writing[w].to : link[c] = "live"
    /\ \A c \in Clients : link[c] # "catching up" => sending[c] = <<>>
    /\ \A c \in Clients : link[c] \in {"off", "live"} => held[c] = <<>>

\* One writer at a time, with the newest version, unless the item was overtaken.
OneWriter ==
    \A i \in Items \ overtaken : \A w \in Pending(i) :
        writing[w].version = stored[i] /\ \A v \in Pending(i) : v = w

Owed(c, i) == \E w \in Pending(i) : writing[w].step = "sending" => c \in writing[w].to

\* The last update of an item in a sequence is to version v; there is none.
Ends(s, i, v) ==
    \E k \in DOMAIN s : s[k].item = i /\ s[k].version = v /\ \A l \in DOMAIN s : l > k => s[l].item # i
Silent(s, i) == \A k \in DOMAIN s : s[k].item # i

Shown(c, i) ==
    IF link[c] = "reading" THEN snapshot[c][i] \in {Unread, stored[i]} ELSE view[c][i] = stored[i]
WillShow(c, i) ==
    \/ Ends(held[c], i, stored[i])
    \/ /\ Silent(held[c], i)
       /\ \/ Ends(sending[c], i, stored[i])
          \/ Silent(sending[c], i) /\ Shown(c, i)

AllShown ==
    \A c \in Clients, i \in Items \ overtaken :
        Connected(c) /\ i \notin untold[c] /\ ~Owed(c, i) => WillShow(c, i)

PushInv == PushType /\ Registry /\ OneWriter /\ AllShown

\* A function changed at one argument, or in one cell.
LEMMA ChangedAt ==
    ASSUME NEW D, NEW R, NEW f \in [D -> R], NEW c \in D, NEW x \in R, NEW g,
           g = [f EXCEPT ![c] = x]
    PROVE  g \in [D -> R] /\ g[c] = x /\ \A d \in D \ {c} : g[d] = f[d]
  OBVIOUS

LEMMA ChangedCell ==
    ASSUME NEW D, NEW E, NEW R, NEW f \in [D -> [E -> R]], NEW c \in D, NEW e \in E, NEW x \in R,
           NEW g, g = [f EXCEPT ![c][e] = x]
    PROVE  /\ g \in [D -> [E -> R]] /\ g[c][e] = x
           /\ \A b \in E \ {e} : g[c][b] = f[c][b]
           /\ \A d \in D \ {c} : g[d] = f[d]
  <1>1. g = [f EXCEPT ![c] = [f[c] EXCEPT ![e] = x]]
    OBVIOUS
  <1>2. f[c] \in [E -> R]
    OBVIOUS
  <1>3. PICK h : h = [f[c] EXCEPT ![e] = x]
    OBVIOUS
  <1>4. h \in [E -> R] /\ h[e] = x /\ \A b \in E \ {e} : h[b] = f[c][b]
    BY <1>2, <1>3, ChangedAt
  <1>5. g \in [D -> [E -> R]] /\ g[c] = h /\ \A d \in D \ {c} : g[d] = f[d]
    BY <1>1, <1>3, <1>4, ChangedAt
  <1> QED
    BY <1>4, <1>5

LEMMA EmptySilent == \A i, v : Silent(<<>>, i) /\ ~Ends(<<>>, i, v)
  BY DEF Silent, Ends

LEMMA AppendEnds ==
    ASSUME NEW s \in Seq(Updates), NEW m \in Updates, NEW i, NEW v
    PROVE  /\ m.item = i => Ends(Append(s, m), i, m.version)
           /\ m.item # i /\ Ends(s, i, v) => Ends(Append(s, m), i, v)
           /\ m.item # i /\ Silent(s, i) => Silent(Append(s, m), i)
  <1> DEFINE n == Len(s)
             t == Append(s, m)
  <1>1. /\ n \in Nat /\ DOMAIN s = 1 .. n /\ DOMAIN t = 1 .. n + 1 /\ t[n + 1] = m
        /\ \A k \in 1 .. n : t[k] = s[k]
    BY AppendProperties
  <1> HIDE DEF n, t
  <1>2. m.item = i => Ends(t, i, m.version)
    BY <1>1 DEF Ends
  <1>3. ASSUME m.item # i, Ends(s, i, v) PROVE Ends(t, i, v)
    <2>1. PICK k \in 1 .. n : s[k].item = i /\ s[k].version = v /\ \A l \in 1 .. n : l > k => s[l].item # i
      BY <1>1, <1>3 DEF Ends
    <2>2. k \in DOMAIN t /\ t[k] = s[k]
      BY <1>1, <2>1
    <2>3. \A l \in DOMAIN t : l > k => t[l].item # i
      BY <1>1, <1>3, <2>1
    <2> QED
      BY <2>1, <2>2, <2>3 DEF Ends
  <1>4. m.item # i /\ Silent(s, i) => Silent(t, i)
    BY <1>1 DEF Silent
  <1> QED
    BY <1>2, <1>3, <1>4 DEF t

LEMMA TailEnds ==
    ASSUME NEW s \in Seq(Updates), s # <<>>, NEW i, NEW v
    PROVE  /\ Head(s) \in Updates /\ Tail(s) \in Seq(Updates)
           /\ Ends(s, i, v) => \/ Ends(Tail(s), i, v)
                               \/ Silent(Tail(s), i) /\ Head(s).item = i /\ Head(s).version = v
           /\ Silent(s, i) => Silent(Tail(s), i) /\ Head(s).item # i
  <1> DEFINE n == Len(s)
             t == Tail(s)
  <1>1. /\ n \in Nat /\ n >= 1 /\ DOMAIN s = 1 .. n /\ t \in Seq(Updates) /\ DOMAIN t = 1 .. n - 1
        /\ \A k \in 1 .. n - 1 : t[k] = s[k + 1]
        /\ Head(s) = s[1] /\ Head(s) \in Updates
    BY HeadTailProperties
  <1> HIDE DEF n, t
  <1>2. Silent(s, i) => Silent(t, i) /\ s[1].item # i
    BY <1>1 DEF Silent
  <1>3. ASSUME Ends(s, i, v) PROVE Ends(t, i, v) \/ (Silent(t, i) /\ s[1].item = i /\ s[1].version = v)
    <2>1. PICK k \in 1 .. n : s[k].item = i /\ s[k].version = v /\ \A l \in 1 .. n : l > k => s[l].item # i
      BY <1>1, <1>3 DEF Ends
    <2>2. CASE k = 1
      <3>1. Silent(t, i)
        BY <1>1, <2>1, <2>2 DEF Silent
      <3> QED
        BY <2>1, <2>2, <3>1
    <2>3. CASE k # 1
      <3>1. k - 1 \in DOMAIN t /\ t[k - 1] = s[k]
        BY <1>1, <2>1, <2>3
      <3>2. \A l \in DOMAIN t : l > k - 1 => t[l].item # i
        BY <1>1, <2>1
      <3> QED
        BY <2>1, <3>1, <3>2 DEF Ends
    <2> QED
      BY <2>2, <2>3
  <1> QED
    BY <1>1, <1>2, <1>3 DEF t

LEMMA WriterFacts ==
    ASSUME PushType, NEW w \in Writers
    PROVE  /\ writing[w] = IdleWriter <=> writing[w].step = "idle"
           /\ writing[w].step \in {"idle", "committed", "sending"}
           /\ writing[w].step # "idle" => writing[w].item \in Items /\ writing[w].version \in Nat
           /\ writing[w].step = "sending" => writing[w].to \subseteq Clients
           /\ \A i : w \in Pending(i) <=> writing[w].step # "idle" /\ writing[w].item = i
  <1>1. writing[w] \in WriterType
    BY DEF PushType, WritingType
  <1>2. PICK r : r = writing[w]
    OBVIOUS
  <1>3. /\ r = IdleWriter <=> r.step = "idle"
        /\ r.step \in {"idle", "committed", "sending"}
        /\ r.step # "idle" => r.item \in Items /\ r.version \in Nat
        /\ r.step = "sending" => r.to \subseteq Clients
    BY <1>1, <1>2 DEF WriterType, IdleWriter
  <1> QED
    BY <1>2, <1>3 DEF Pending

LEMMA UnsentIs ==
    ASSUME PushType, NEW w \in Writers, NEW c, writing[w].step = "sending"
    PROVE  /\ Unsent(w, c) \in WriterType
           /\ Unsent(w, c).step \in {"idle", "sending"}
           /\ Unsent(w, c).step = "idle" => writing[w].to \subseteq {c}
           /\ Unsent(w, c).step = "sending" =>
                 /\ Unsent(w, c).item = writing[w].item /\ Unsent(w, c).version = writing[w].version
                 /\ Unsent(w, c).to = writing[w].to \ {c}
  <1>1. writing[w] \in WriterType
    BY DEF PushType, WritingType
  <1>2. PICK r : r = writing[w]
    OBVIOUS
  <1>3. r \in [step : {"sending"}, item : Items, version : Nat, to : SUBSET Clients]
    BY <1>1, <1>2 DEF WriterType, IdleWriter
  <1>4. PICK u : u = [r EXCEPT !.to = r.to \ {c}]
    OBVIOUS
  <1>5. /\ u \in [step : {"sending"}, item : Items, version : Nat, to : SUBSET Clients]
        /\ u.step = "sending" /\ u.item = r.item /\ u.version = r.version /\ u.to = r.to \ {c}
    BY <1>3, <1>4
  <1>6. Unsent(w, c) = IF r.to \ {c} = {} THEN IdleWriter ELSE u
    BY <1>2, <1>4 DEF Unsent
  <1>7. IdleWriter.step = "idle" /\ IdleWriter \in WriterType /\ u \in WriterType
    BY <1>5 DEF IdleWriter, WriterType
  <1> QED
    BY <1>2, <1>5, <1>6, <1>7

\* Nothing changes for a client and an item.
LEMMA ShowFrame ==
    ASSUME NEW c, NEW i, WillShow(c, i), stored'[i] = stored[i],
           held'[c] = held[c], sending'[c] = sending[c], link'[c] = link[c],
           snapshot'[c][i] = snapshot[c][i], view'[c][i] = view[c][i]
    PROVE  WillShow(c, i)'
  BY DEF WillShow, Shown, Ends, Silent

\* Some sends of some updates are done or given up: what is owed to a client that had
\* none of them stays owed.
LEMMA SomeSent ==
    ASSUME PushInv, NEW c \in Clients, UNCHANGED <<stored, overtaken, untold>>,
           writing' \in [Writers -> WriterType],
           \A w \in Writers : \/ writing'[w] = writing[w]
                              \/ /\ writing[w].step = "sending" /\ c \in writing[w].to
                                 /\ writing'[w] = Unsent(w, c)
    PROVE  /\ OneWriter'
           /\ \A d \in Clients \ {c}, i \in Items : Owed(d, i) => Owed(d, i)'
           /\ \A w \in Writers : writing'[w].step = "sending" =>
                 writing[w].step = "sending" /\ writing'[w].to \subseteq writing[w].to
  <1>1. ASSUME NEW w \in Writers
        PROVE  /\ writing'[w].step = "sending" =>
                     writing[w].step = "sending" /\ writing'[w].to \subseteq writing[w].to
               /\ \A i \in Items : w \in Pending(i)' =>
                     w \in Pending(i) /\ writing'[w].version = writing[w].version
               /\ \A d \in Clients \ {c}, i \in Items :
                     w \in Pending(i) /\ (writing[w].step = "sending" => d \in writing[w].to) =>
                        w \in Pending(i)' /\ (writing'[w].step = "sending" => d \in writing'[w].to)
    <2>1. \A i : w \in Pending(i)' <=> writing'[w].step # "idle" /\ writing'[w].item = i
      BY DEF Pending, WriterType, IdleWriter
    <2> QED
      BY <2>1, UnsentIs, WriterFacts DEF PushInv
  <1>2. OneWriter'
    <2>1. \A i \in Items : Pending(i)' \subseteq Writers
      BY DEF Pending
    <2> QED
      BY <1>1, <2>1 DEF OneWriter, PushInv
  <1>3. \A d \in Clients \ {c}, i \in Items : Owed(d, i) => Owed(d, i)'
    BY <1>1 DEF Owed, Pending
  <1> QED
    BY <1>1, <1>2, <1>3

LEMMA PushStart == PushInit => PushInv
  <1> SUFFICES ASSUME PushInit PROVE PushInv
    OBVIOUS
  <1>1. PushType
    BY DEF PushInit, PushType, StoredType, WritingType, LinkType, QueueType, ViewType,
           UntoldType, Blank, Unread, WriterType
  <1>2. Registry /\ AllShown /\ OneWriter
    BY DEF PushInit, Registry, AllShown, OneWriter, Pending, Connected, IdleWriter
  <1> QED
    BY <1>1, <1>2 DEF PushInv

LEMMA ChangeKeeps ==
    ASSUME PushInv, NEW w \in Writers, NEW i \in Items, Change(w, i) PROVE PushInv'
  <1>1. /\ writing[w] = IdleWriter
        /\ stored' = [stored EXCEPT ![i] = stored[i] + 1]
        /\ writing' = [writing EXCEPT ![w] =
                          [step |-> "committed", item |-> i, version |-> stored'[i]]]
        /\ overtaken' = IF Pending(i) = {} THEN overtaken ELSE overtaken \cup {i}
        /\ untold' = [c \in Clients |-> untold[c] \ {i}]
        /\ UNCHANGED <<link, held, sending, snapshot, view>>
    BY DEF Change
  <1>2. PushType
    BY DEF PushInv
  <1>3. stored'[i] \in Nat /\ stored' \in [Items -> Nat] /\ \A j \in Items \ {i} : stored'[j] = stored[j]
    BY <1>1, <1>2 DEF PushType, StoredType
  <1>4. PushType'
    <2>1. [step |-> "committed", item |-> i, version |-> stored'[i]] \in WriterType
      BY <1>3 DEF WriterType
    <2>2. WritingType'
      BY <1>1, <1>2, <2>1 DEF PushType, WritingType
    <2>3. UntoldType'
      BY <1>1, <1>2 DEF PushType, UntoldType
    <2> QED
      BY <1>1, <1>2, <1>3, <2>2, <2>3 DEF PushType, StoredType, LinkType, QueueType, ViewType
  <1>5. /\ writing'[w].step = "committed" /\ writing'[w].item = i /\ writing'[w].version = stored'[i]
        /\ \A v \in Writers \ {w} : writing'[v] = writing[v]
    BY <1>1, <1>2 DEF PushType, WritingType
  <1>6. \A j \in Items \ {i} : Pending(j)' = Pending(j)
    BY <1>1, <1>5 DEF Pending, IdleWriter
  <1>7. Pending(i)' = Pending(i) \cup {w}
    BY <1>1, <1>5 DEF Pending, IdleWriter
  <1>8. w \notin Pending(i) /\ \A j \in Items : w \notin Pending(j)
    BY <1>1 DEF Pending
  <1>9. OneWriter'
    <2>1. ASSUME NEW j \in Items \ overtaken', NEW v \in Pending(j)'
          PROVE  writing'[v].version = stored'[j] /\ \A u \in Pending(j)' : u = v
      <3>1. CASE j = i
        BY <1>1, <1>5, <1>7, <2>1, <3>1
      <3>2. CASE j # i
        BY <1>1, <1>3, <1>5, <1>6, <1>8, <2>1, <3>2 DEF OneWriter, PushInv, Pending
      <3> QED
        BY <3>1, <3>2
    <2> QED
      BY <2>1 DEF OneWriter
  <1>10. Registry'
    BY <1>1, <1>5 DEF PushInv, Registry
  <1>11. AllShown'
    <2> SUFFICES ASSUME NEW c \in Clients, NEW j \in Items \ overtaken', Connected(c)', j \notin untold'[c],
                        ~Owed(c, j)'
                 PROVE  WillShow(c, j)'
      BY DEF AllShown
    <2>1. j # i
      BY <1>5, <1>7 DEF Owed
    <2>2. ~Owed(c, j)
      BY <1>5, <1>6, <1>8, <2>1 DEF Owed, Pending
    <2>3. j \notin untold[c] /\ j \notin overtaken
      BY <1>1, <2>1
    <2>4. WillShow(c, j)
      BY <1>1, <2>2, <2>3 DEF AllShown, PushInv, Connected
    <2> QED
      BY <1>1, <1>3, <2>1, <2>4, ShowFrame
  <1> QED
    BY <1>4, <1>9, <1>10, <1>11 DEF PushInv

\* What the worker delivers, no connected client is told.
LEMMA DeliverKeeps == ASSUME PushInv, NEW i \in Items, Deliver(i) PROVE PushInv'
  <1>1. /\ stored' = [stored EXCEPT ![i] = stored[i] + 1]
        /\ overtaken' = IF Pending(i) = {} THEN overtaken ELSE overtaken \cup {i}
        /\ untold' = [c \in Clients |-> IF Connected(c) THEN untold[c] \cup {i} ELSE untold[c]]
        /\ UNCHANGED <<writing, link, held, sending, snapshot, view>>
    BY DEF Deliver
  <1>2. PushType
    BY DEF PushInv
  <1>3. stored' \in [Items -> Nat] /\ \A j \in Items \ {i} : stored'[j] = stored[j]
    BY <1>1, <1>2 DEF PushType, StoredType
  <1>4. PushType'
    <2>1. UntoldType'
      BY <1>1, <1>2 DEF PushType, UntoldType
    <2> QED
      BY <1>1, <1>2, <1>3, <2>1 DEF PushType, StoredType, WritingType, LinkType, QueueType, ViewType
  <1>5. Registry'
    BY <1>1 DEF PushInv, Registry
  <1>6. \A j \in Items : Pending(j)' = Pending(j)
    BY <1>1 DEF Pending
  <1>7. OneWriter'
    <2> SUFFICES ASSUME NEW j \in Items \ overtaken', NEW v \in Pending(j)
                 PROVE  writing'[v].version = stored'[j] /\ \A u \in Pending(j) : u = v
      BY <1>6 DEF OneWriter
    <2>1. j # i /\ j \notin overtaken
      BY <1>1
    <2> QED
      BY <1>1, <1>3, <2>1 DEF PushInv, OneWriter
  <1>8. AllShown'
    <2> SUFFICES ASSUME NEW c \in Clients, NEW j \in Items \ overtaken', Connected(c)',
                        j \notin untold'[c], ~Owed(c, j)'
                 PROVE  WillShow(c, j)'
      BY DEF AllShown
    <2>1. Connected(c) /\ untold'[c] = untold[c] \cup {i}
      BY <1>1 DEF Connected
    <2>2. j # i /\ j \notin untold[c] /\ j \notin overtaken /\ ~Owed(c, j)
      BY <1>1, <1>6, <2>1 DEF Owed
    <2>3. WillShow(c, j)
      BY <2>1, <2>2 DEF AllShown, PushInv
    <2> QED
      BY <1>1, <1>3, <2>2, <2>3, ShowFrame
  <1> QED
    BY <1>4, <1>5, <1>7, <1>8 DEF PushInv

LEMMA RouteKeeps ==
    ASSUME PushInv, NEW w \in Writers, Route(w) PROVE PushInv'
  <1> DEFINE m == [item |-> writing[w].item, version |-> writing[w].version]
             rest == {c \in Clients : link[c] = "live"}
  <1>1. /\ writing[w].step = "committed"
        /\ held' = [c \in Clients |-> HeldBack(c, m)]
        /\ writing' = [writing EXCEPT ![w] =
                 IF rest = {} THEN IdleWriter
                 ELSE [step |-> "sending", item |-> m.item, version |-> m.version, to |-> rest]]
        /\ UNCHANGED <<stored, link, sending, snapshot, view, overtaken, untold>>
    BY DEF Route
  <1>2. PushType
    BY DEF PushInv
  <1>3. m \in Updates /\ m.item = writing[w].item /\ m.version = writing[w].version
    BY <1>1, <1>2, WriterFacts DEF Updates
  <1>4. /\ rest = {} => writing'[w] = IdleWriter
        /\ rest # {} => /\ writing'[w].step = "sending" /\ writing'[w].item = m.item
                        /\ writing'[w].version = m.version /\ writing'[w].to = rest
        /\ \A v \in Writers \ {w} : writing'[v] = writing[v]
    BY <1>1, <1>2 DEF PushType, WritingType
  <1>5. \A c \in Clients : held'[c] = IF Waiting(c) THEN Append(held[c], m) ELSE held[c]
    BY <1>1 DEF HeldBack
  <1>6. PushType'
    <2>1. \A c \in Clients : held[c] \in Seq(Updates) /\ Append(held[c], m) \in Seq(Updates)
      BY <1>2, <1>3, AppendProperties DEF PushType, QueueType
    <2>2. \A c \in Clients : HeldBack(c, m) \in Seq(Updates)
      BY <2>1 DEF HeldBack
    <2>3. QueueType'
      <3> HIDE DEF m
      <3> QED
        BY <1>1, <1>2, <2>2 DEF PushType, QueueType
    <2>4. /\ IdleWriter \in WriterType
          /\ [step |-> "sending", item |-> m.item, version |-> m.version, to |-> rest] \in WriterType
      BY <1>3 DEF WriterType, Updates
    <2>5. WritingType'
      <3> HIDE DEF m, rest
      <3> QED
        BY <1>1, <1>2, <2>4 DEF PushType, WritingType
    <2> QED
      BY <1>1, <1>2, <2>3, <2>5 DEF PushType, StoredType, LinkType, ViewType, UntoldType
  <1> HIDE DEF m
  <1>7. Registry'
    <2>1. \A c \in Clients : /\ link[c] # "catching up" => sending[c] = <<>>
                             /\ link[c] \in {"off", "live"} => held[c] = <<>>
      BY DEF PushInv, Registry
    <2>2. \A c \in Clients : link[c] \in {"off", "live"} => held'[c] = held[c]
      BY <1>5 DEF Waiting
    <2>3. \A v \in Writers : writing'[v].step = "sending" => \A c \in writing'[v].to : link[c] = "live"
      <3> SUFFICES ASSUME NEW v \in Writers, writing'[v].step = "sending", NEW c \in writing'[v].to
                   PROVE  link[c] = "live"
        OBVIOUS
      <3>1. CASE v = w
        BY <1>4, <3>1 DEF IdleWriter
      <3>2. CASE v # w
        BY <1>4, <3>2 DEF PushInv, Registry
      <3> QED
        BY <3>1, <3>2
    <2> QED
      BY <1>1, <2>1, <2>2, <2>3 DEF Registry
  <1>8. \A j \in Items : /\ \A v \in Pending(j)' : v \in Pending(j) /\ writing'[v].version = writing[v].version
                         /\ \A v \in Pending(j) \ {w} : v \in Pending(j)' /\ writing'[v] = writing[v]
                         /\ w \in Pending(j) <=> m.item = j
    BY <1>1, <1>2, <1>3, <1>4, WriterFacts DEF Pending, IdleWriter
  <1>9. OneWriter'
    BY <1>1, <1>8 DEF OneWriter, PushInv
  <1>10. AllShown'
    <2> SUFFICES ASSUME NEW c \in Clients, NEW j \in Items \ overtaken, Connected(c), j \notin untold[c],
                        ~Owed(c, j)'
                 PROVE  WillShow(c, j)'
      BY <1>1 DEF AllShown, Connected
    <2>1. CASE m.item = j /\ Waiting(c)
      <3>1. m.version = stored[j]
        BY <1>3, <1>8, <2>1 DEF OneWriter, PushInv
      <3>2. held[c] \in Seq(Updates) /\ held'[c] = Append(held[c], m)
        BY <1>2, <1>5, <2>1 DEF PushType, QueueType
      <3>3. Ends(held'[c], j, m.version)
        BY <1>3, <2>1, <3>2, AppendEnds
      <3> QED
        BY <1>1, <3>1, <3>3 DEF WillShow, Ends
    <2>2. CASE m.item = j /\ ~Waiting(c)
      <3>1. c \in rest
        BY <1>2, <2>2 DEF PushType, LinkType, Waiting, Connected
      <3>2. w \in Pending(j)' /\ writing'[w].to = rest
        BY <1>4, <2>2, <3>1 DEF Pending, IdleWriter
      <3> QED
        BY <3>1, <3>2 DEF Owed
    <2>3. CASE m.item # j
      <3>1. ~Owed(c, j)
        BY <1>8, <2>3 DEF Owed
      <3>2. WillShow(c, j)
        BY <3>1 DEF AllShown, PushInv
      <3>3. CASE Waiting(c)
        <4>1. /\ \A v : Ends(held[c], j, v) => Ends(held'[c], j, v)
              /\ Silent(held[c], j) => Silent(held'[c], j)
          <5>1. held[c] \in Seq(Updates) /\ held'[c] = Append(held[c], m)
            BY <1>2, <1>5, <3>3 DEF PushType, QueueType
          <5> QED
            BY <1>3, <2>3, <5>1, AppendEnds
        <4> QED
          BY <1>1, <3>2, <4>1 DEF WillShow, Shown, Ends, Silent
      <3>4. CASE ~Waiting(c)
        BY <1>1, <1>5, <3>2, <3>4, ShowFrame
      <3> QED
        BY <3>3, <3>4
    <2> QED
      BY <2>1, <2>2, <2>3
  <1> QED
    BY <1>6, <1>7, <1>9, <1>10 DEF PushInv

LEMMA SendUpdateKeeps ==
    ASSUME PushInv, NEW w \in Writers, NEW c \in Clients, Send(w, c) PROVE PushInv'
  <1>1. /\ writing[w].step = "sending" /\ c \in writing[w].to
        /\ view' = [view EXCEPT ![c][writing[w].item] = writing[w].version]
        /\ writing' = [writing EXCEPT ![w] = Unsent(w, c)]
        /\ UNCHANGED <<stored, link, held, sending, snapshot, overtaken, untold>>
    BY DEF Send
  <1>2. PushType
    BY DEF PushInv
  <1>3. writing[w].item \in Items /\ writing[w].version \in Nat
    BY <1>1, <1>2, WriterFacts
  <1>4. /\ view'[c][writing[w].item] = writing[w].version
        /\ \A d \in Clients, i \in Items : d # c \/ i # writing[w].item => view'[d][i] = view[d][i]
        /\ view' \in [Clients -> [Items -> Int]]
    <2>1. view \in [Clients -> [Items -> Int]] /\ writing[w].version \in Int
      BY <1>2, <1>3 DEF PushType, ViewType
    <2>2. /\ view' \in [Clients -> [Items -> Int]] /\ view'[c][writing[w].item] = writing[w].version
          /\ \A i \in Items \ {writing[w].item} : view'[c][i] = view[c][i]
          /\ \A d \in Clients \ {c} : view'[d] = view[d]
      BY <1>1, <1>3, <2>1, ChangedCell
    <2> QED
      BY <2>2
  <1>5. writing' \in [Writers -> WriterType] /\ \A v \in Writers \ {w} : writing'[v] = writing[v]
    BY <1>1, <1>2, UnsentIs DEF PushType, WritingType
  <1>6. writing'[w] = Unsent(w, c)
    BY <1>1, <1>2 DEF PushType, WritingType
  <1>7. /\ OneWriter'
        /\ \A d \in Clients \ {c}, i \in Items : Owed(d, i) => Owed(d, i)'
        /\ \A v \in Writers : writing'[v].step = "sending" =>
                 writing[v].step = "sending" /\ writing'[v].to \subseteq writing[v].to
    BY <1>1, <1>5, <1>6, SomeSent
  <1>8. PushType' /\ Registry'
    <2>1. PushType'
      BY <1>1, <1>2, <1>4, <1>5 DEF PushType, StoredType, WritingType, LinkType, QueueType, ViewType, UntoldType
    <2>2. Registry'
      BY <1>1, <1>7 DEF Registry, PushInv
    <2> QED
      BY <2>1, <2>2
  <1>9. AllShown'
    <2> SUFFICES ASSUME NEW d \in Clients, NEW i \in Items \ overtaken, Connected(d), i \notin untold[d],
                        ~Owed(d, i)'
                 PROVE  WillShow(d, i)'
      BY <1>1 DEF AllShown, Connected
    <2>1. CASE d = c /\ i = writing[w].item
      <3>1. w \in Pending(i) /\ writing[w].version = stored[i]
        BY <1>1, <1>2, <2>1, WriterFacts DEF OneWriter, PushInv
      <3>2. link[c] = "live" /\ held[c] = <<>> /\ sending[c] = <<>>
        BY <1>1 DEF PushInv, Registry
      <3>3. Silent(held'[c], i) /\ Silent(sending'[c], i)
        BY <1>1, <3>2, EmptySilent
      <3>4. Shown(c, i)'
        BY <1>1, <1>4, <2>1, <3>1, <3>2 DEF Shown
      <3> QED
        BY <2>1, <3>3, <3>4 DEF WillShow, Silent
    <2>2. CASE d # c \/ i # writing[w].item
      <3>1. ~Owed(d, i)
        <4>1. CASE d # c
          BY <1>7, <4>1
        <4>2. CASE i # writing[w].item
          BY <1>5, <4>2 DEF Owed, Pending
        <4> QED
          BY <2>2, <4>1, <4>2
      <3>2. WillShow(d, i)
        BY <3>1 DEF AllShown, PushInv
      <3> QED
        BY <1>1, <1>4, <2>2, <3>2, ShowFrame
    <2> QED
      BY <2>1, <2>2
  <1> QED
    BY <1>7, <1>8, <1>9 DEF PushInv

\* A client's own step: what it does not touch stays, for it and for the others.
LEMMA ClientKeeps ==
    ASSUME PushInv, NEW c \in Clients, UNCHANGED <<stored, writing, overtaken>>, PushType', Registry',
           \A d \in Clients \ {c} : /\ held'[d] = held[d] /\ sending'[d] = sending[d]
                                    /\ link'[d] = link[d] /\ view'[d] = view[d]
                                    /\ snapshot'[d] = snapshot[d] /\ untold'[d] = untold[d],
           \A i \in Items \ overtaken :
              Connected(c)' /\ i \notin untold'[c] /\ ~Owed(c, i) => WillShow(c, i)'
    PROVE  PushInv'
  <1>1. OneWriter'
    BY DEF PushInv, OneWriter, Pending
  <1>2. AllShown'
    <2> SUFFICES ASSUME NEW d \in Clients, NEW i \in Items \ overtaken, Connected(d)', i \notin untold'[d],
                        ~Owed(d, i)'
                 PROVE  WillShow(d, i)'
      BY DEF AllShown
    <2>1. ~Owed(d, i)
      BY DEF Owed, Pending
    <2>2. CASE d = c
      BY <2>1, <2>2
    <2>3. CASE d # c
      <3>1. WillShow(d, i)
        BY <2>1, <2>3 DEF AllShown, PushInv, Connected
      <3> QED
        BY <2>3, <3>1, ShowFrame
    <2> QED
      BY <2>2, <2>3
  <1> QED
    BY <1>1, <1>2 DEF PushInv

LEMMA ConnectKeeps == ASSUME PushInv, NEW c \in Clients, Connect(c) PROVE PushInv'
  <1>1. /\ link[c] = "off" /\ link' = [link EXCEPT ![c] = "reading"]
        /\ held' = [held EXCEPT ![c] = <<>>]
        /\ snapshot' = [snapshot EXCEPT ![c] = Blank]
        /\ view' = [view EXCEPT ![c] = Blank]
        /\ untold' = [untold EXCEPT ![c] = {}]
        /\ UNCHANGED <<stored, writing, sending, overtaken>>
    BY DEF Connect, Connected
  <1>2. PushType
    BY DEF PushInv
  <1>3. Blank \in [Items -> Int] /\ \A i \in Items : Blank[i] = Unread
    BY DEF Blank, Unread
  <1>4. /\ PushType'
        /\ link'[c] = "reading" /\ held'[c] = <<>> /\ snapshot'[c] = Blank
        /\ \A d \in Clients \ {c} : /\ held'[d] = held[d] /\ sending'[d] = sending[d]
                                    /\ link'[d] = link[d] /\ view'[d] = view[d]
                                    /\ snapshot'[d] = snapshot[d] /\ untold'[d] = untold[d]
    <2>1. /\ link' \in [Clients -> {"off", "reading", "catching up", "live"}]
          /\ link'[c] = "reading" /\ \A d \in Clients \ {c} : link'[d] = link[d]
      BY <1>1, <1>2 DEF PushType, LinkType
    <2>2. /\ held' \in [Clients -> Seq(Updates)]
          /\ held'[c] = <<>> /\ \A d \in Clients \ {c} : held'[d] = held[d]
      <3>1. held \in [Clients -> Seq(Updates)] /\ <<>> \in Seq(Updates)
        BY <1>2, EmptySeq DEF PushType, QueueType
      <3> QED
        BY <1>1, <3>1, ChangedAt
    <2>3. /\ snapshot' \in [Clients -> [Items -> Int]]
          /\ snapshot'[c] = Blank /\ \A d \in Clients \ {c} : snapshot'[d] = snapshot[d]
      BY <1>1, <1>2, <1>3, ChangedAt DEF PushType, ViewType
    <2>4. view' \in [Clients -> [Items -> Int]] /\ \A d \in Clients \ {c} : view'[d] = view[d]
      BY <1>1, <1>2, <1>3, ChangedAt DEF PushType, ViewType
    <2>5. UntoldType' /\ \A d \in Clients \ {c} : untold'[d] = untold[d]
      BY <1>1, <1>2, ChangedAt DEF PushType, UntoldType
    <2> QED
      BY <1>1, <1>2, <2>1, <2>2, <2>3, <2>4, <2>5
         DEF PushType, StoredType, WritingType, LinkType, QueueType, ViewType
  <1>5. Registry'
    BY <1>1, <1>2, <1>4, WriterFacts DEF PushInv, Registry
  <1>6. ASSUME NEW i \in Items PROVE WillShow(c, i)'
    <2>1. Silent(held'[c], i) /\ Silent(sending'[c], i)
      BY <1>1, <1>4, EmptySilent DEF PushInv, Registry
    <2>2. Shown(c, i)'
      BY <1>3, <1>4 DEF Shown
    <2> QED
      BY <2>1, <2>2 DEF WillShow, Silent
  <1> QED
    BY <1>1, <1>4, <1>5, <1>6, ClientKeeps

LEMMA ReadItemKeeps ==
    ASSUME PushInv, NEW c \in Clients, NEW i \in Items, ReadItem(c, i) PROVE PushInv'
  <1>1. /\ link[c] = "reading" /\ snapshot' = [snapshot EXCEPT ![c][i] = stored[i]]
        /\ UNCHANGED <<stored, writing, link, held, sending, view, overtaken, untold>>
    BY DEF ReadItem
  <1>2. PushType
    BY DEF PushInv
  <1>3. /\ PushType' /\ snapshot'[c][i] = stored[i]
        /\ \A j \in Items \ {i} : snapshot'[c][j] = snapshot[c][j]
        /\ \A d \in Clients \ {c} : snapshot'[d] = snapshot[d]
    <2>1. snapshot \in [Clients -> [Items -> Int]] /\ stored[i] \in Int
      BY <1>2 DEF PushType, ViewType, StoredType
    <2>2. /\ snapshot' \in [Clients -> [Items -> Int]] /\ snapshot'[c][i] = stored[i]
          /\ \A j \in Items \ {i} : snapshot'[c][j] = snapshot[c][j]
          /\ \A d \in Clients \ {c} : snapshot'[d] = snapshot[d]
      BY <1>1, <2>1, ChangedCell
    <2> QED
      BY <1>1, <1>2, <2>2 DEF PushType, StoredType, WritingType, LinkType, QueueType, ViewType, UntoldType
  <1>4. Registry'
    BY <1>1 DEF PushInv, Registry
  <1>5. ASSUME NEW j \in Items \ overtaken, Connected(c)', j \notin untold[c], ~Owed(c, j)
        PROVE  WillShow(c, j)'
    <2>1. WillShow(c, j)
      BY <1>1, <1>5 DEF AllShown, PushInv, Connected
    <2>2. Shown(c, j) => Shown(c, j)'
      BY <1>1, <1>3 DEF Shown
    <2> QED
      BY <1>1, <2>1, <2>2 DEF WillShow, Ends, Silent
  <1> QED
    BY <1>1, <1>3, <1>4, <1>5, ClientKeeps

LEMMA SendSnapshotKeeps == ASSUME PushInv, NEW c \in Clients, SendSnapshot(c) PROVE PushInv'
  <1>1. /\ link[c] = "reading" /\ \A i \in Items : snapshot[c][i] # Unread
        /\ view' = [view EXCEPT ![c] = snapshot[c]]
        /\ link' = [link EXCEPT ![c] = "catching up"]
        /\ UNCHANGED <<stored, writing, held, sending, snapshot, overtaken, untold>>
    BY DEF SendSnapshot
  <1>2. PushType
    BY DEF PushInv
  <1>3. /\ PushType' /\ view'[c] = snapshot[c] /\ link'[c] = "catching up"
        /\ \A d \in Clients \ {c} : view'[d] = view[d] /\ link'[d] = link[d]
    <2>1. LinkType' /\ link'[c] = "catching up" /\ \A d \in Clients \ {c} : link'[d] = link[d]
      BY <1>1, <1>2 DEF PushType, LinkType
    <2>2. ViewType' /\ view'[c] = snapshot[c] /\ \A d \in Clients \ {c} : view'[d] = view[d]
      BY <1>1, <1>2 DEF PushType, ViewType
    <2> QED
      BY <1>1, <1>2, <2>1, <2>2 DEF PushType, StoredType, WritingType, QueueType, UntoldType
  <1>4. Registry'
    <2>1. Registry
      BY DEF PushInv
    <2>2. ASSUME NEW w \in Writers, writing'[w].step = "sending", NEW d \in writing'[w].to
          PROVE  link'[d] = "live"
      <3>1. writing[w].step = "sending" /\ d \in writing[w].to
        BY <1>1, <2>2
      <3>2. d \in Clients /\ link[d] = "live"
        BY <1>2, <2>1, <3>1, WriterFacts DEF Registry
      <3> QED
        BY <1>1, <1>3, <3>2
    <2>3. ASSUME NEW d \in Clients
          PROVE  /\ link'[d] # "catching up" => sending'[d] = <<>>
                 /\ link'[d] \in {"off", "live"} => held'[d] = <<>>
      <3>1. CASE d = c
        BY <1>3, <3>1
      <3>2. CASE d # c
        <4>1. link'[d] = link[d] /\ sending' = sending /\ held' = held
          BY <1>1, <1>3, <3>2
        <4> QED
          BY <2>1, <4>1 DEF Registry
      <3> QED
        BY <3>1, <3>2
    <2> QED
      BY <2>2, <2>3 DEF Registry
  <1>5. ASSUME NEW j \in Items \ overtaken, Connected(c)', j \notin untold[c], ~Owed(c, j)
        PROVE  WillShow(c, j)'
    <2>1. WillShow(c, j)
      BY <1>1, <1>5 DEF AllShown, PushInv, Connected
    <2>2. Shown(c, j) => Shown(c, j)'
      BY <1>1, <1>3 DEF Shown
    <2> QED
      BY <1>1, <2>1, <2>2 DEF WillShow, Ends, Silent
  <1> QED
    BY <1>1, <1>3, <1>4, <1>5, ClientKeeps

LEMMA TakeHeldKeeps == ASSUME PushInv, NEW c \in Clients, TakeHeld(c) PROVE PushInv'
  <1>1. /\ link[c] = "catching up" /\ sending[c] = <<>>
        /\ sending' = [sending EXCEPT ![c] = held[c]]
        /\ held' = [held EXCEPT ![c] = <<>>]
        /\ link' = IF held[c] = <<>> THEN [link EXCEPT ![c] = "live"] ELSE link
        /\ UNCHANGED <<stored, writing, snapshot, view, overtaken, untold>>
    BY DEF TakeHeld, CaughtUp
  <1>2. PushType
    BY DEF PushInv
  <1>3. /\ PushType' /\ sending'[c] = held[c] /\ held'[c] = <<>>
        /\ link'[c] = IF held[c] = <<>> THEN "live" ELSE "catching up"
        /\ \A d \in Clients \ {c} : held'[d] = held[d] /\ sending'[d] = sending[d] /\ link'[d] = link[d]
    <2>1. /\ LinkType' /\ link'[c] = IF held[c] = <<>> THEN "live" ELSE "catching up"
          /\ \A d \in Clients \ {c} : link'[d] = link[d]
      BY <1>1, <1>2 DEF PushType, LinkType
    <2>2. /\ held \in [Clients -> Seq(Updates)] /\ sending \in [Clients -> Seq(Updates)]
          /\ <<>> \in Seq(Updates) /\ held[c] \in Seq(Updates)
      BY <1>2, EmptySeq DEF PushType, QueueType
    <2>3. /\ held' \in [Clients -> Seq(Updates)] /\ held'[c] = <<>>
          /\ \A d \in Clients \ {c} : held'[d] = held[d]
      BY <1>1, <2>2, ChangedAt
    <2>4. /\ sending' \in [Clients -> Seq(Updates)] /\ sending'[c] = held[c]
          /\ \A d \in Clients \ {c} : sending'[d] = sending[d]
      BY <1>1, <2>2, ChangedAt
    <2> QED
      BY <1>1, <1>2, <2>1, <2>3, <2>4 DEF PushType, StoredType, WritingType, QueueType, ViewType, UntoldType
  <1>4. Registry'
    BY <1>1, <1>2, <1>3, WriterFacts DEF PushInv, Registry
  <1>5. ASSUME NEW j \in Items \ overtaken, Connected(c)', j \notin untold[c], ~Owed(c, j)
        PROVE  WillShow(c, j)'
    <2>1. WillShow(c, j)
      BY <1>1, <1>5 DEF AllShown, PushInv, Connected
    <2>2. Shown(c, j) => Shown(c, j)'
      <3>1. link'[c] \in {"live", "catching up"}
        BY <1>3, Zenon
      <3>2. link'[c] # "reading" /\ link[c] # "reading"
        BY <1>1, <3>1
      <3> QED
        BY <1>1, <3>2 DEF Shown
    <2>3. Silent(held'[c], j)
      BY <1>3, EmptySilent
    <2>4. ~Ends(sending[c], j, stored[j])
      BY <1>1, EmptySilent
    <2>5. Ends(sending'[c], j, stored[j]) \/ (Silent(sending'[c], j) /\ Shown(c, j)')
      BY <1>3, <2>1, <2>2, <2>4 DEF WillShow
    <2> QED
      BY <1>1, <2>3, <2>5 DEF WillShow, Ends, Silent
  <1> QED
    BY <1>1, <1>3, <1>4, <1>5, ClientKeeps

LEMMA SendHeldKeeps == ASSUME PushInv, NEW c \in Clients, SendHeld(c) PROVE PushInv'
  <1> DEFINE m == Head(sending[c])
  <1>1. /\ sending[c] # <<>>
        /\ view' = [view EXCEPT ![c][m.item] = m.version]
        /\ sending' = [sending EXCEPT ![c] = Tail(sending[c])]
        /\ UNCHANGED <<stored, writing, link, held, snapshot, overtaken, untold>>
    BY DEF SendHeld
  <1>2. PushType /\ link[c] = "catching up" /\ sending[c] \in Seq(Updates)
    BY <1>1 DEF PushInv, Registry, PushType, QueueType
  <1>3. m \in Updates /\ Tail(sending[c]) \in Seq(Updates)
    BY <1>1, <1>2, TailEnds
  <1>4. m.item \in Items /\ m.version \in Int
    BY <1>3 DEF Updates
  <1> HIDE DEF m
  <1>5. /\ view'[c][m.item] = m.version /\ view' \in [Clients -> [Items -> Int]]
        /\ \A i \in Items \ {m.item} : view'[c][i] = view[c][i]
        /\ \A d \in Clients \ {c} : view'[d] = view[d]
    <2>1. view \in [Clients -> [Items -> Int]]
      BY <1>2 DEF PushType, ViewType
    <2> QED
      BY <1>1, <1>4, <2>1, ChangedCell
  <1>6. /\ sending'[c] = Tail(sending[c]) /\ sending' \in [Clients -> Seq(Updates)]
        /\ \A d \in Clients \ {c} : sending'[d] = sending[d]
    <2>1. sending \in [Clients -> Seq(Updates)]
      BY <1>2 DEF PushType, QueueType
    <2> QED
      BY <1>1, <1>3, <2>1, ChangedAt
  <1>7. PushType' /\ Registry'
    <2>1. PushType'
      BY <1>1, <1>2, <1>5, <1>6 DEF PushType, StoredType, WritingType, LinkType, QueueType, ViewType, UntoldType
    <2>2. Registry'
      BY <1>1, <1>2, <1>6 DEF PushInv, Registry
    <2> QED
      BY <2>1, <2>2
  <1>8. ASSUME NEW j \in Items \ overtaken, Connected(c)', j \notin untold[c], ~Owed(c, j)
        PROVE  WillShow(c, j)'
    <2>1. WillShow(c, j)
      BY <1>1, <1>8 DEF AllShown, PushInv, Connected
    <2>2. CASE Ends(held[c], j, stored[j])
      BY <1>1, <2>2 DEF WillShow, Ends
    <2>3. CASE Silent(held[c], j) /\ Ends(sending[c], j, stored[j])
      <3>1. \/ Ends(sending'[c], j, stored[j])
            \/ Silent(sending'[c], j) /\ m.item = j /\ m.version = stored[j]
        BY <1>1, <1>2, <1>6, <2>3, TailEnds DEF m
      <3>2. m.item = j /\ m.version = stored[j] => Shown(c, j)'
        BY <1>1, <1>2, <1>5 DEF Shown
      <3> QED
        BY <1>1, <2>3, <3>1, <3>2 DEF WillShow, Ends, Silent
    <2>4. CASE Silent(held[c], j) /\ Silent(sending[c], j) /\ Shown(c, j)
      <3>1. Silent(sending'[c], j) /\ m.item # j
        BY <1>1, <1>2, <1>6, <2>4, TailEnds DEF m
      <3>2. Shown(c, j)'
        BY <1>1, <1>2, <1>5, <2>4, <3>1 DEF Shown
      <3> QED
        BY <1>1, <2>4, <3>1, <3>2 DEF WillShow, Ends, Silent
    <2> QED
      BY <2>1, <2>2, <2>3, <2>4 DEF WillShow
  <1> QED
    BY <1>1, <1>5, <1>6, <1>7, <1>8, ClientKeeps

LEMMA DisconnectKeeps == ASSUME PushInv, NEW c \in Clients, Disconnect(c) PROVE PushInv'
  <1>1. /\ link' = [link EXCEPT ![c] = "off"]
        /\ held' = [held EXCEPT ![c] = <<>>]
        /\ sending' = [sending EXCEPT ![c] = <<>>]
        /\ writing' = [w \in Writers |->
              IF writing[w].step = "sending" /\ c \in writing[w].to THEN Unsent(w, c) ELSE writing[w]]
        /\ UNCHANGED <<stored, snapshot, view, overtaken, untold>>
    BY DEF Disconnect
  <1>2. PushType
    BY DEF PushInv
  <1>3. /\ \A w \in Writers : \/ writing'[w] = writing[w]
                              \/ /\ writing[w].step = "sending" /\ c \in writing[w].to
                                 /\ writing'[w] = Unsent(w, c)
        /\ writing' \in [Writers -> WriterType]
    <2>1. writing \in [Writers -> WriterType]
      BY <1>2 DEF PushType, WritingType
    <2>2. \A w \in Writers : writing[w].step = "sending" => Unsent(w, c) \in WriterType
      BY <1>2, UnsentIs
    <2> QED
      BY <1>1, <2>1, <2>2
  <1>4. /\ OneWriter'
        /\ \A d \in Clients \ {c}, i \in Items : Owed(d, i) => Owed(d, i)'
        /\ \A v \in Writers : writing'[v].step = "sending" =>
                 writing[v].step = "sending" /\ writing'[v].to \subseteq writing[v].to
    BY <1>1, <1>3, SomeSent
  <1>5. \A w \in Writers : writing'[w].step = "sending" => c \notin writing'[w].to
    BY <1>1, <1>2, UnsentIs
  <1>6. /\ PushType' /\ link'[c] = "off" /\ held'[c] = <<>> /\ sending'[c] = <<>>
        /\ \A d \in Clients \ {c} : held'[d] = held[d] /\ sending'[d] = sending[d] /\ link'[d] = link[d]
    <2>1. /\ held \in [Clients -> Seq(Updates)] /\ sending \in [Clients -> Seq(Updates)]
          /\ <<>> \in Seq(Updates)
      BY <1>2, EmptySeq DEF PushType, QueueType
    <2>2. /\ held' \in [Clients -> Seq(Updates)] /\ held'[c] = <<>>
          /\ \A d \in Clients \ {c} : held'[d] = held[d]
      BY <1>1, <2>1, ChangedAt
    <2>3. /\ sending' \in [Clients -> Seq(Updates)] /\ sending'[c] = <<>>
          /\ \A d \in Clients \ {c} : sending'[d] = sending[d]
      BY <1>1, <2>1, ChangedAt
    <2>4. /\ link' \in [Clients -> {"off", "reading", "catching up", "live"}] /\ link'[c] = "off"
          /\ \A d \in Clients \ {c} : link'[d] = link[d]
      BY <1>1, <1>2 DEF PushType, LinkType
    <2> QED
      BY <1>1, <1>2, <1>3, <2>2, <2>3, <2>4
         DEF PushType, StoredType, WritingType, LinkType, QueueType, ViewType, UntoldType
  <1>7. Registry'
    <2>1. \A w \in Writers : writing'[w].step = "sending" =>
             \A d \in writing'[w].to : d \in Clients \ {c} /\ link[d] = "live"
      <3> SUFFICES ASSUME NEW w \in Writers, writing'[w].step = "sending", NEW d \in writing'[w].to
                   PROVE  d \in Clients \ {c} /\ link[d] = "live"
        OBVIOUS
      <3>1. writing[w].step = "sending" /\ d \in writing[w].to /\ d # c
        BY <1>4, <1>5
      <3>2. d \in Clients
        BY <1>2, <3>1, WriterFacts
      <3> QED
        BY <3>1, <3>2 DEF PushInv, Registry
    <2> QED
      BY <1>6, <2>1 DEF PushInv, Registry
  <1>8. AllShown'
    <2> SUFFICES ASSUME NEW d \in Clients \ {c}, NEW i \in Items \ overtaken, Connected(d), i \notin untold[d],
                        ~Owed(d, i)
                 PROVE  WillShow(d, i)'
      BY <1>1, <1>4, <1>6 DEF AllShown, Connected
    <2>1. WillShow(d, i)
      BY DEF AllShown, PushInv
    <2> QED
      BY <1>1, <1>6, <2>1, ShowFrame
  <1> QED
    BY <1>4, <1>6, <1>7, <1>8 DEF PushInv

LEMMA PushStep == PushInv /\ [PushNext]_pushVars => PushInv'
  <1> SUFFICES ASSUME PushInv, [PushNext]_pushVars PROVE PushInv'
    OBVIOUS
  <1>1. CASE UNCHANGED pushVars
    <2>1. UNCHANGED <<stored, writing, link, held, sending, snapshot, view, overtaken, untold>>
      BY <1>1 DEF pushVars
    <2>2. PushType' /\ Registry' /\ OneWriter'
      <3>1. PushType'
        BY <2>1 DEF PushInv, PushType, StoredType, WritingType, LinkType, QueueType, ViewType, UntoldType
      <3>2. Registry'
        BY <2>1 DEF PushInv, Registry
      <3>3. \A i : Pending(i)' = Pending(i)
        BY <2>1 DEF Pending
      <3>4. OneWriter'
        BY <2>1, <3>3 DEF PushInv, OneWriter
      <3> QED
        BY <3>1, <3>2, <3>4
    <2>3. \A c, i : Connected(c)' = Connected(c) /\ Owed(c, i)' = Owed(c, i)
      BY <2>1 DEF Connected, Owed, Pending
    <2>4. \A c, i : WillShow(c, i)' = WillShow(c, i)
      BY <2>1 DEF WillShow, Shown, Ends, Silent
    <2>5. AllShown'
      BY <2>1, <2>3, <2>4 DEF AllShown, PushInv
    <2> QED
      BY <2>2, <2>5 DEF PushInv
  <1>2. CASE PushNext
    BY <1>2, ChangeKeeps, DeliverKeeps, RouteKeeps, SendUpdateKeeps, ConnectKeeps, ReadItemKeeps,
       SendSnapshotKeeps, TakeHeldKeeps, SendHeldKeeps, DisconnectKeeps DEF PushNext
  <1> QED
    BY <1>1, <1>2

\* A client that is live and owed nothing is shown what is stored, for any number of
\* clients, items and writers and however often it connects, of every item that no two
\* writers were changing at once and that the sync worker, which broadcasts nothing, has
\* not changed since the client connected (or a request or tick has since).
THEOREM LiveViewsCurrent == PushSpec => []ViewCurrent
  <1>1. PushInv => ViewCurrent
    <2> SUFFICES ASSUME PushInv, NEW c \in Clients, NEW i \in Items,
                        link[c] = "live", Pending(i) = {}, i \notin overtaken, i \notin untold[c]
                 PROVE  view[c][i] = stored[i]
      BY DEF ViewCurrent
    <2>1. WillShow(c, i)
      BY DEF PushInv, AllShown, Connected, Owed
    <2>2. held[c] = <<>> /\ sending[c] = <<>>
      BY DEF PushInv, Registry
    <2>3. Shown(c, i)
      BY <2>1, <2>2, EmptySilent DEF WillShow
    <2> QED
      BY <2>3 DEF Shown
  <1> QED
    BY <1>1, PushStart, PushStep, PTL DEF PushSpec
-----------------------------------------------------------------------------
(***************************************************************************)
(* SignIn.  A shift that was not created across its operator's account     *)
(* has a credential; an account no other was created with is in every      *)
(* roster from its own on, because rosters are numbered in the order the   *)
(* accounts were created; and what the cloud has is at the edge or on its  *)
(* way.                                                                    *)
(***************************************************************************)
InTransit(kind) == {m \in toEdge : m.kind = kind}
Rosters == {roster} \cup InTransit("roster")
Making(a) == admin[a].step \in {"account", "issue"}
Undisturbed == planned \ (crossed \cup expired)

SignTypes ==
    /\ hour \in Nat /\ planned \subseteq Shifts
    /\ DOMAIN admin = Admins /\ \A a \in Admins : admin[a].step \in {"ready", "shift", "account", "issue"}
    /\ \A a \in Admins : admin[a].step = "shift" => admin[a].shift \in Shifts
    /\ nextRoster \in Nat /\ \A m \in Rosters : m.seq \in Nat /\ m.seq < nextRoster
    /\ \A a \in InHand("issue") : admin[a].seq \in Nat /\ admin[a].seq < nextRoster

Travels ==
    /\ edgeShifts \subseteq planned /\ \A m \in InTransit("shift") : m.shift \in planned
    /\ \A s \in planned : s \in edgeShifts \/ \E m \in InTransit("shift") : m.shift = s
    /\ \A s \in credentials : s \in edgeCredentials \/ \E m \in InTransit("credential") : m.shift = s

Issued ==
    /\ \A s \in Undisturbed : s.operator \in accounts => s \in credentials
    /\ \A a \in InHand("issue") : \A s \in Undisturbed :
          s.operator = admin[a].operator => s \in admin[a].shifts
    /\ \A a \in InHand("shift") : admin[a].shift \notin crossed =>
          /\ \A b \in InHand("issue") : admin[b].operator # admin[a].shift.operator
          /\ ~admin[a].issues => admin[a].shift.operator \notin accounts

Alone ==
    \A a, b \in Admins : Making(a) /\ Making(b) /\ a # b => admin[a].operator \in together

Listed ==
    \A o \in accounts \ together :
        /\ \A a \in Admins : Making(a) => o \in admin[a].sees
        /\ \E m \in Rosters : \A n \in Rosters : n.seq >= m.seq => o \in n.operators

RostersNumbered ==
    /\ \A a \in InHand("issue") : admin[a].operator \notin together =>
          \A m \in Rosters : m.seq < admin[a].seq
    /\ \A a \in Admins : Making(a) => admin[a].operator \in admin[a].sees

SignInv == SignTypes /\ Travels /\ Issued /\ Alone /\ Listed /\ RostersNumbered

LEMMA SignStart == SignInInit => SignInv
  <1> SUFFICES ASSUME SignInInit PROVE SignInv
    OBVIOUS
  <1> USE DEF SignInInit, Ready
  <1>1. /\ \A kind : InTransit(kind) = {}
        /\ Rosters = {roster} /\ roster.seq = 0
        /\ \A a \in Admins : admin[a].step = "ready"
    BY DEF InTransit, Rosters
  <1>2. InHand("issue") = {} /\ InHand("shift") = {} /\ \A a \in Admins : ~Making(a)
    BY <1>1 DEF InHand, Making
  <1>3. SignTypes
    BY <1>1, <1>2 DEF SignTypes
  <1>4. Travels /\ Issued /\ Alone /\ Listed /\ RostersNumbered
    BY <1>1, <1>2 DEF Travels, Issued, Alone, Listed, RostersNumbered, Undisturbed
  <1> QED
    BY <1>3, <1>4 DEF SignInv

\* What one admin does leaves the others' requests alone.
LEMMA AdminChanges ==
    ASSUME DOMAIN admin = Admins, NEW a \in Admins, NEW x, admin' = [admin EXCEPT ![a] = x]
    PROVE  DOMAIN admin' = Admins /\ admin'[a] = x /\ \A b \in Admins \ {a} : admin'[b] = admin[b]
  OBVIOUS

LEMMA InHandIs ==
    \A step, a : a \in InHand(step) <=> a \in Admins /\ admin[a].step = step
  BY DEF InHand

LEMMA BeingMadeIs ==
    \A a \in Admins : Making(a) => admin[a].operator \in BeingMade
  BY DEF Making, BeingMade, InHand

LEMMA BeginShiftKeeps ==
    ASSUME SignInv, NEW a \in Admins, NEW s \in Shifts, BeginShift(a, s) PROVE SignInv'
  <1> DEFINE x == [step |-> "shift", shift |-> s, issues |-> s.operator \in accounts]
  <1>1. /\ admin[a] = Ready /\ s \notin planned
        /\ admin' = [admin EXCEPT ![a] = x]
        /\ crossed' = IF \E b \in InHand("issue") : admin[b].operator = s.operator
                      THEN crossed \cup {s} ELSE crossed
        /\ UNCHANGED <<hour, accounts, planned, credentials, toEdge, nextRoster, roster,
                       edgeShifts, edgeCredentials, together, expired>>
    BY DEF BeginShift, edgeVars
  <1>2. x.step = "shift" /\ x.shift = s /\ (x.issues <=> s.operator \in accounts)
    OBVIOUS
  <1> HIDE DEF x
  <1>3. DOMAIN admin' = Admins /\ admin'[a] = x /\ \A b \in Admins \ {a} : admin'[b] = admin[b]
    BY <1>1, AdminChanges DEF SignInv, SignTypes
  <1>4. admin[a].step = "ready"
    BY <1>1 DEF Ready
  <1>5. /\ \A b \in Admins : Making(b)' <=> Making(b)
        /\ \A b \in Admins : Making(b) => admin'[b] = admin[b]
        /\ InHand("issue")' = InHand("issue") /\ InHand("shift")' = InHand("shift") \cup {a}
        /\ \A b \in InHand("issue") : admin'[b] = admin[b]
        /\ a \notin InHand("shift")
    BY <1>2, <1>3, <1>4 DEF Making, InHand
  <1>6. Rosters' = Rosters /\ \A kind : InTransit(kind)' = InTransit(kind)
    BY <1>1 DEF Rosters, InTransit
  <1>7. SignTypes'
    BY <1>1, <1>2, <1>3, <1>5, <1>6 DEF SignInv, SignTypes
  <1>8. Travels' /\ Listed' /\ RostersNumbered'
    BY <1>1, <1>5, <1>6 DEF SignInv, Travels, Listed, RostersNumbered
  <1>9. Alone'
    BY <1>1, <1>5 DEF SignInv, Alone
  <1>10. Issued'
    <2>1. Undisturbed' \subseteq Undisturbed /\ crossed \subseteq crossed'
      BY <1>1 DEF Undisturbed
    <2>2. ASSUME NEW b \in InHand("shift")', admin'[b].shift \notin crossed'
          PROVE  /\ \A c \in InHand("issue")' : admin'[c].operator # admin'[b].shift.operator
                 /\ ~admin'[b].issues => admin'[b].shift.operator \notin accounts
      <3>1. CASE b = a
        BY <1>1, <1>2, <1>3, <1>5, <2>2, <3>1
      <3>2. CASE b # a
        <4>1. b \in InHand("shift") /\ admin'[b] = admin[b]
          BY <1>3, <1>5, <3>2 DEF InHand
        <4> QED
          BY <1>5, <2>1, <2>2, <4>1 DEF SignInv, Issued
      <3> QED
        BY <3>1, <3>2
    <2>3. \A b \in InHand("issue")' : \A u \in Undisturbed' :
              u.operator = admin'[b].operator => u \in admin'[b].shifts
      BY <1>5, <2>1 DEF SignInv, Issued
    <2>4. \A u \in Undisturbed' : u.operator \in accounts' => u \in credentials'
      BY <1>1, <2>1 DEF SignInv, Issued
    <2> QED
      BY <1>1, <2>2, <2>3, <2>4 DEF Issued
  <1> QED
    BY <1>7, <1>8, <1>9, <1>10 DEF SignInv

LEMMA CommitShiftKeeps ==
    ASSUME SignInv, NEW a \in Admins, CommitShift(a) PROVE SignInv'
  <1> DEFINE s == admin[a].shift
             issued == IF admin[a].issues THEN {s} ELSE {}
             x == [kind |-> "shift", shift |-> s]
             y == [kind |-> "credential", shift |-> s]
  <1>1. /\ admin[a].step = "shift"
        /\ planned' = planned \cup {s} /\ credentials' = credentials \cup issued
        /\ toEdge' = toEdge \cup {x} \cup CredentialMessages(issued)
        /\ admin' = [admin EXCEPT ![a] = Ready]
        /\ UNCHANGED <<hour, accounts, nextRoster, roster, edgeShifts, edgeCredentials,
                       together, crossed, expired>>
    BY DEF CommitShift, edgeVars
  <1>2. x.kind = "shift" /\ x.shift = s /\ y.kind = "credential" /\ y.shift = s
    OBVIOUS
  <1>3. CredentialMessages(issued) = IF admin[a].issues THEN {y} ELSE {}
    BY DEF CredentialMessages
  <1>4. a \in InHand("shift") /\ s \in Shifts
    BY <1>1 DEF SignInv, SignTypes, InHand
  <1>5. s \in issued <=> admin[a].issues
    OBVIOUS
  <1>6. issued \subseteq {s}
    OBVIOUS
  <1> HIDE DEF x, y, s, issued
  <1>7. /\ DOMAIN admin' = Admins /\ admin'[a].step = "ready"
        /\ \A b \in Admins \ {a} : admin'[b] = admin[b]
    BY <1>1, AdminChanges DEF SignInv, SignTypes, Ready
  <1>8. /\ \A b \in Admins : Making(b)' <=> Making(b)
        /\ \A b \in Admins : Making(b) => admin'[b] = admin[b]
        /\ InHand("issue")' = InHand("issue") /\ InHand("shift")' = InHand("shift") \ {a}
        /\ \A b \in InHand("issue") \cup InHand("shift")' : admin'[b] = admin[b]
    BY <1>1, <1>7 DEF Making, InHand
  <1>9. /\ InTransit("roster")' = InTransit("roster")
        /\ InTransit("shift")' = InTransit("shift") \cup {x}
        /\ InTransit("credential")' =
              InTransit("credential") \cup (IF admin[a].issues THEN {y} ELSE {})
    BY <1>1, <1>2, <1>3 DEF InTransit
  <1>10. Rosters' = Rosters
    BY <1>1, <1>9 DEF Rosters
  <1>11. SignTypes'
    BY <1>1, <1>4, <1>7, <1>8, <1>10 DEF SignInv, SignTypes, InHand
  <1>12. Travels'
    <2>1. \A u \in planned' : u \in edgeShifts' \/ \E m \in InTransit("shift")' : m.shift = u
      BY <1>1, <1>2, <1>9 DEF SignInv, Travels
    <2>2. \A u \in credentials' : u \in edgeCredentials' \/ \E m \in InTransit("credential")' : m.shift = u
      BY <1>1, <1>2, <1>5, <1>6, <1>9 DEF SignInv, Travels
    <2> QED
      BY <1>1, <1>2, <1>9, <2>1, <2>2 DEF SignInv, Travels
  <1>13. Listed' /\ RostersNumbered'
    BY <1>1, <1>8, <1>10 DEF SignInv, Listed, RostersNumbered
  <1>14. Alone'
    BY <1>1, <1>8 DEF SignInv, Alone
  <1>15. Issued'
    <2>1. Undisturbed' \subseteq Undisturbed \cup {s} /\ (s \in Undisturbed' => s \notin crossed)
      BY <1>1 DEF Undisturbed
    <2>2. s \notin crossed =>
              /\ \A b \in InHand("issue") : admin[b].operator # s.operator
              /\ s.operator \in accounts => s \in credentials'
      BY <1>1, <1>4, <1>5 DEF SignInv, Issued, s
    <2>3. \A u \in Undisturbed' : u.operator \in accounts' => u \in credentials'
      BY <1>1, <2>1, <2>2 DEF SignInv, Issued
    <2>4. \A b \in InHand("issue")' : \A u \in Undisturbed' :
              u.operator = admin'[b].operator => u \in admin'[b].shifts
      BY <1>8, <2>1, <2>2 DEF SignInv, Issued
    <2>5. \A b \in InHand("shift")' : admin'[b].shift \notin crossed' =>
              /\ \A c \in InHand("issue")' : admin'[c].operator # admin'[b].shift.operator
              /\ ~admin'[b].issues => admin'[b].shift.operator \notin accounts'
      BY <1>1, <1>8 DEF SignInv, Issued
    <2> QED
      BY <2>3, <2>4, <2>5 DEF Issued
  <1> QED
    BY <1>11, <1>12, <1>13, <1>14, <1>15 DEF SignInv

LEMMA BeginAccountKeeps ==
    ASSUME SignInv, NEW a \in Admins, NEW o \in Operators, BeginAccount(a, o) PROVE SignInv'
  <1> DEFINE x == [step |-> "account", operator |-> o, sees |-> RosterWith(o)]
  <1>1. /\ admin[a] = Ready /\ o \notin accounts
        /\ admin' = [admin EXCEPT ![a] = x]
        /\ together' = IF BeingMade = {} THEN together ELSE together \cup BeingMade \cup {o}
        /\ UNCHANGED <<hour, accounts, planned, credentials, toEdge, nextRoster, roster,
                       edgeShifts, edgeCredentials, crossed, expired>>
    BY DEF BeginAccount, edgeVars
  <1>2. x.step = "account" /\ x.operator = o /\ x.sees = accounts \cup {o}
    BY DEF RosterWith
  <1> HIDE DEF x
  <1>3. DOMAIN admin' = Admins /\ admin'[a] = x /\ \A b \in Admins \ {a} : admin'[b] = admin[b]
    BY <1>1, AdminChanges DEF SignInv, SignTypes
  <1>4. admin[a].step = "ready"
    BY <1>1 DEF Ready
  <1>5. /\ \A b \in Admins : Making(b)' <=> (Making(b) \/ b = a)
        /\ ~Making(a) /\ \A b \in Admins : Making(b) => admin'[b] = admin[b]
        /\ InHand("issue")' = InHand("issue") /\ InHand("shift")' = InHand("shift")
        /\ \A b \in InHand("issue") \cup InHand("shift") : admin'[b] = admin[b]
    BY <1>2, <1>3, <1>4 DEF Making, InHand
  <1>6. Rosters' = Rosters /\ \A kind : InTransit(kind)' = InTransit(kind)
    BY <1>1 DEF Rosters, InTransit
  <1>7. SignTypes'
    <2>1. \A b \in Admins : admin'[b].step \in {"ready", "shift", "account", "issue"}
      BY <1>2, <1>3 DEF SignInv, SignTypes
    <2>2. \A b \in Admins : admin'[b].step = "shift" => admin'[b].shift \in Shifts
      BY <1>2, <1>3 DEF SignInv, SignTypes
    <2> QED
      BY <1>1, <1>3, <1>5, <1>6, <2>1, <2>2 DEF SignInv, SignTypes
  <1>8. Travels'
    BY <1>1, <1>6 DEF SignInv, Travels
  <1>9. Issued'
    <2>1. Undisturbed' = Undisturbed
      BY <1>1 DEF Undisturbed
    <2> QED
      BY <1>1, <1>5, <2>1 DEF SignInv, Issued
  <1>10. together \subseteq together'
    BY <1>1
  <1>11. Alone'
    <2> SUFFICES ASSUME NEW b \in Admins, NEW c \in Admins, Making(b)', Making(c)', b # c
                 PROVE  admin'[b].operator \in together'
      BY DEF Alone
    <2>1. CASE b # a /\ c # a
      BY <1>5, <1>10, <2>1 DEF SignInv, Alone
    <2>2. CASE b = a
      <3>1. Making(c) /\ admin[c].operator \in BeingMade
        BY <1>5, <2>2, BeingMadeIs
      <3> QED
        BY <1>1, <1>2, <1>3, <2>2, <3>1
    <2>3. CASE c = a
      <3>1. Making(b) /\ admin[b].operator \in BeingMade /\ admin'[b] = admin[b]
        BY <1>5, <2>3, BeingMadeIs
      <3> QED
        BY <1>1, <3>1
    <2> QED
      BY <2>1, <2>2, <2>3
  <1>12. Listed'
    BY <1>1, <1>2, <1>3, <1>5, <1>6, <1>10 DEF SignInv, Listed
  <1>13. RostersNumbered'
    BY <1>2, <1>3, <1>5, <1>6, <1>10 DEF SignInv, RostersNumbered
  <1> QED
    BY <1>7, <1>8, <1>9, <1>11, <1>12, <1>13 DEF SignInv

LEMMA IssueCredentialsKeeps ==
    ASSUME SignInv, NEW a \in Admins, IssueCredentials(a) PROVE SignInv'
  <1> DEFINE o == admin[a].operator
             x == [step |-> "issue", operator |-> o, sees |-> admin[a].sees, seq |-> nextRoster,
                   shifts |-> StillValid(o)]
  <1>1. /\ admin[a].step = "account"
        /\ admin' = [admin EXCEPT ![a] = x]
        /\ expired' = expired \cup {s \in planned : s.operator = o /\ hour >= Expiry(s)}
        /\ crossed' = crossed \cup {admin[b].shift : b \in
                  {c \in InHand("shift") : admin[c].shift.operator = o}}
        /\ nextRoster' = nextRoster + 1
        /\ UNCHANGED <<hour, accounts, planned, credentials, toEdge, roster, edgeShifts,
                       edgeCredentials, together>>
    BY DEF IssueCredentials, edgeVars
  <1>2. /\ x.step = "issue" /\ x.operator = o /\ x.sees = admin[a].sees /\ x.seq = nextRoster
        /\ x.shifts = StillValid(o)
    OBVIOUS
  <1> HIDE DEF x
  <1>3. DOMAIN admin' = Admins /\ admin'[a] = x /\ \A b \in Admins \ {a} : admin'[b] = admin[b]
    BY <1>1, AdminChanges DEF SignInv, SignTypes
  <1>4. /\ \A b \in Admins : Making(b)' <=> Making(b)
        /\ Making(a)
        /\ \A b \in Admins : Making(b) =>
              admin'[b].operator = admin[b].operator /\ admin'[b].sees = admin[b].sees
        /\ InHand("issue")' = InHand("issue") \cup {a} /\ a \notin InHand("issue")
        /\ InHand("shift")' = InHand("shift")
        /\ \A b \in InHand("issue") \cup InHand("shift") : admin'[b] = admin[b]
    BY <1>1, <1>2, <1>3 DEF Making, InHand
  <1>5. Rosters' = Rosters /\ \A kind : InTransit(kind)' = InTransit(kind)
    BY <1>1 DEF Rosters, InTransit
  <1>6. nextRoster \in Nat /\ nextRoster' \in Nat /\ nextRoster < nextRoster'
        /\ \A n \in Nat : n < nextRoster => n < nextRoster'
    BY <1>1 DEF SignInv, SignTypes
  <1>7. SignTypes'
    <2>1. \A b \in Admins : admin'[b].step \in {"ready", "shift", "account", "issue"}
      BY <1>2, <1>3 DEF SignInv, SignTypes
    <2>2. \A b \in Admins : admin'[b].step = "shift" => admin'[b].shift \in Shifts
      BY <1>2, <1>3 DEF SignInv, SignTypes
    <2>3. \A b \in InHand("issue")' : admin'[b].seq \in Nat /\ admin'[b].seq < nextRoster'
      BY <1>2, <1>3, <1>4, <1>6 DEF SignInv, SignTypes
    <2> QED
      BY <1>1, <1>3, <1>5, <1>6, <2>1, <2>2, <2>3 DEF SignInv, SignTypes
  <1>8. Travels'
    BY <1>1, <1>5 DEF SignInv, Travels
  <1>9. Alone'
    BY <1>1, <1>4 DEF SignInv, Alone
  <1>10. Listed'
    BY <1>1, <1>4, <1>5 DEF SignInv, Listed
  <1>11. RostersNumbered'
    BY <1>1, <1>2, <1>3, <1>4, <1>5 DEF SignInv, RostersNumbered, SignTypes
  <1>12. Issued'
    <2>1. Undisturbed' \subseteq Undisturbed /\ crossed \subseteq crossed'
      BY <1>1 DEF Undisturbed
    <2>2. \A s \in Undisturbed' : s.operator = o => s \in StillValid(o)
      <3> SUFFICES ASSUME NEW s \in Undisturbed', s.operator = o PROVE s \in StillValid(o)
        OBVIOUS
      <3>1. s \in planned /\ ~(hour >= Expiry(s)) /\ s \in Shifts
        BY <1>1 DEF Undisturbed, SignInv, SignTypes
      <3>2. hour \in Nat /\ s.end \in Nat /\ Grace \in Nat
        BY <3>1, SignInAssumption DEF SignInv, SignTypes
      <3>3. s.end > hour - Grace
        BY <3>1, <3>2 DEF Expiry
      <3> QED
        BY <3>1, <3>3 DEF StillValid
    <2>3. \A s \in Undisturbed' : s.operator \in accounts' => s \in credentials'
      BY <1>1, <2>1 DEF SignInv, Issued
    <2>4. \A b \in InHand("issue")' : \A s \in Undisturbed' :
              s.operator = admin'[b].operator => s \in admin'[b].shifts
      BY <1>2, <1>3, <1>4, <2>1, <2>2 DEF SignInv, Issued
    <2>5. \A b \in InHand("shift") : admin[b].shift \notin crossed' => admin[b].shift.operator # o
      BY <1>1
    <2>6. \A b \in InHand("shift")' : admin'[b].shift \notin crossed' =>
              /\ \A c \in InHand("issue")' : admin'[c].operator # admin'[b].shift.operator
              /\ ~admin'[b].issues => admin'[b].shift.operator \notin accounts'
      BY <1>1, <1>2, <1>3, <1>4, <2>1, <2>5 DEF SignInv, Issued
    <2> QED
      BY <2>3, <2>4, <2>6 DEF Issued
  <1> QED
    BY <1>7, <1>8, <1>9, <1>10, <1>11, <1>12 DEF SignInv

LEMMA CommitAccountKeeps ==
    ASSUME SignInv, NEW a \in Admins, CommitAccount(a) PROVE SignInv'
  <1> DEFINE t == admin[a]
             x == [kind |-> "roster", seq |-> t.seq, operators |-> t.sees]
  <1>1. /\ t.step = "issue"
        /\ accounts' = accounts \cup {t.operator} /\ credentials' = credentials \cup t.shifts
        /\ toEdge' = toEdge \cup CredentialMessages(t.shifts) \cup {x}
        /\ admin' = [admin EXCEPT ![a] = Ready]
        /\ UNCHANGED <<hour, planned, nextRoster, roster, edgeShifts, edgeCredentials,
                       together, crossed, expired>>
    BY DEF CommitAccount, edgeVars
  <1>2. x.kind = "roster" /\ x.seq = t.seq /\ x.operators = t.sees
    OBVIOUS
  <1> HIDE DEF x
  <1>3. /\ DOMAIN admin' = Admins /\ admin'[a].step = "ready"
        /\ \A b \in Admins \ {a} : admin'[b] = admin[b]
    BY <1>1, AdminChanges DEF SignInv, SignTypes, Ready
  <1>4. /\ \A b \in Admins : Making(b)' <=> (Making(b) /\ b # a)
        /\ Making(a) /\ a \in InHand("issue")
        /\ InHand("issue")' = InHand("issue") \ {a} /\ InHand("shift")' = InHand("shift")
        /\ a \notin InHand("shift")
        /\ \A b \in Admins \ {a} : admin'[b] = admin[b]
    BY <1>1, <1>3 DEF Making, InHand
  <1>5. \A m \in CredentialMessages(t.shifts) : m.kind = "credential" /\ m.shift \in t.shifts
    BY DEF CredentialMessages
  <1>6. \A s \in t.shifts : \E m \in CredentialMessages(t.shifts) : m.shift = s
    <2> SUFFICES ASSUME NEW s \in t.shifts
                 PROVE  \E m \in CredentialMessages(t.shifts) : m.shift = s
      OBVIOUS
    <2> DEFINE m == [kind |-> "credential", shift |-> s]
    <2>1. m \in CredentialMessages(t.shifts)
      BY DEF CredentialMessages
    <2>2. m.shift = s
      OBVIOUS
    <2> QED
      BY <2>1, <2>2
  <1>7. /\ InTransit("roster")' = InTransit("roster") \cup {x}
        /\ InTransit("shift")' = InTransit("shift")
        /\ InTransit("credential")' = InTransit("credential") \cup CredentialMessages(t.shifts)
    BY <1>1, <1>2, <1>5 DEF InTransit
  <1>8. Rosters' = Rosters \cup {x}
    BY <1>1, <1>7 DEF Rosters
  <1>9. SignTypes'
    <2>1. t.seq \in Nat /\ t.seq < nextRoster
      BY <1>4 DEF SignInv, SignTypes
    <2>2. \A b \in Admins : admin'[b].step \in {"ready", "shift", "account", "issue"}
      BY <1>3 DEF SignInv, SignTypes
    <2>3. \A b \in Admins : admin'[b].step = "shift" => admin'[b].shift \in Shifts
      BY <1>3 DEF SignInv, SignTypes
    <2>4. \A b \in InHand("issue")' : admin'[b].seq \in Nat /\ admin'[b].seq < nextRoster'
      BY <1>1, <1>4 DEF SignInv, SignTypes, InHand
    <2>5. \A m \in Rosters' : m.seq \in Nat /\ m.seq < nextRoster'
      BY <1>1, <1>2, <1>8, <2>1 DEF SignInv, SignTypes
    <2> QED
      BY <1>1, <1>3, <2>2, <2>3, <2>4, <2>5 DEF SignInv, SignTypes
  <1>10. Travels'
    <2>1. \A s \in credentials' : s \in edgeCredentials' \/ \E m \in InTransit("credential")' : m.shift = s
      BY <1>1, <1>6, <1>7 DEF SignInv, Travels
    <2> QED
      BY <1>1, <1>7, <2>1 DEF SignInv, Travels
  <1>11. Issued'
    <2>1. Undisturbed' = Undisturbed
      BY <1>1 DEF Undisturbed
    <2>2. \A s \in Undisturbed' : s.operator \in accounts' => s \in credentials'
      BY <1>1, <1>4, <2>1 DEF SignInv, Issued
    <2>3. \A b \in InHand("issue")' : b # a /\ b \in InHand("issue") /\ admin'[b] = admin[b]
      BY <1>4 DEF InHand
    <2>4. \A b \in InHand("issue")' : \A s \in Undisturbed' :
              s.operator = admin'[b].operator => s \in admin'[b].shifts
      BY <2>1, <2>3 DEF SignInv, Issued
    <2>5. \A b \in InHand("shift")' : b \in InHand("shift") /\ admin'[b] = admin[b]
      BY <1>4 DEF InHand
    <2>6. \A b \in InHand("shift")' : admin'[b].shift \notin crossed' =>
              /\ \A c \in InHand("issue")' : admin'[c].operator # admin'[b].shift.operator
              /\ ~admin'[b].issues => admin'[b].shift.operator \notin accounts'
      BY <1>1, <1>4, <2>3, <2>5 DEF SignInv, Issued
    <2> QED
      BY <2>2, <2>4, <2>6 DEF Issued
  <1>12. Alone'
    BY <1>1, <1>4 DEF SignInv, Alone
  <1>13. Listed'
    <2> SUFFICES ASSUME NEW o \in accounts', o \notin together
                 PROVE  /\ \A b \in Admins : Making(b)' => o \in admin'[b].sees
                        /\ \E m \in Rosters' : \A n \in Rosters' : n.seq >= m.seq => o \in n.operators
      BY <1>1 DEF Listed
    <2>1. CASE o \in accounts
      <3>1. \A b \in Admins : Making(b)' => o \in admin'[b].sees
        BY <1>4, <2>1 DEF SignInv, Listed
      <3>2. o \in x.operators
        BY <1>2, <1>4, <2>1 DEF SignInv, Listed
      <3>3. PICK m \in Rosters : \A n \in Rosters : n.seq >= m.seq => o \in n.operators
        BY <2>1 DEF SignInv, Listed
      <3> QED
        BY <1>8, <3>1, <3>2, <3>3
    <2>2. CASE o = t.operator
      <3>1. \A b \in Admins : ~Making(b)'
        BY <1>4, <2>2 DEF SignInv, Alone
      <3>2. o \in x.operators
        BY <1>2, <1>4, <2>2 DEF SignInv, RostersNumbered
      <3>3. \A n \in Rosters : n.seq < x.seq /\ n.seq \in Nat /\ x.seq \in Nat
        BY <1>2, <1>4, <2>2 DEF SignInv, RostersNumbered, SignTypes
      <3>4. \A n \in Rosters' : n.seq >= x.seq => o \in n.operators
        BY <1>8, <3>2, <3>3
      <3> QED
        BY <1>8, <3>1, <3>4
    <2> QED
      BY <1>1, <2>1, <2>2
  <1>14. RostersNumbered'
    <2>1. \A b \in InHand("issue")' : admin'[b].operator \in together
      <3> SUFFICES ASSUME NEW b \in InHand("issue")' PROVE admin'[b].operator \in together
        OBVIOUS
      <3>1. b \in Admins /\ b # a /\ Making(b) /\ admin'[b] = admin[b]
        BY <1>4 DEF InHand, Making
      <3> QED
        BY <1>4, <3>1 DEF SignInv, Alone
    <2>2. \A b \in Admins : Making(b)' => admin'[b].operator \in admin'[b].sees
      BY <1>4 DEF SignInv, RostersNumbered
    <2> QED
      BY <1>1, <2>1, <2>2 DEF RostersNumbered
  <1> QED
    BY <1>9, <1>10, <1>11, <1>12, <1>13, <1>14 DEF SignInv

\* The messages of a kind, after one was applied.
LEMMA TakenOut ==
    ASSUME NEW m \in toEdge, toEdge' = toEdge \ {m}
    PROVE  \A kind : InTransit(kind)' = IF m.kind = kind THEN InTransit(kind) \ {m} ELSE InTransit(kind)
  BY DEF InTransit

LEMMA ApplyRosterKeeps ==
    ASSUME SignInv, NEW m \in toEdge, ApplyRoster(m) PROVE SignInv'
  <1>1. /\ m.kind = "roster" /\ toEdge' = toEdge \ {m}
        /\ roster' = IF m.seq < roster.seq THEN roster
                     ELSE [seq |-> m.seq, operators |-> m.operators]
        /\ UNCHANGED <<hour, accounts, planned, credentials, nextRoster, crossed, expired,
                       admin, edgeShifts, edgeCredentials, together>>
    BY DEF ApplyRoster, NewestRoster, cloudVars
  <1>2. /\ InTransit("roster")' = InTransit("roster") \ {m} /\ m \in InTransit("roster")
        /\ InTransit("shift")' = InTransit("shift")
        /\ InTransit("credential")' = InTransit("credential")
    BY <1>1, TakenOut DEF InTransit
  <1>3. /\ \A b : Making(b)' <=> Making(b)
        /\ \A step : InHand(step)' = InHand(step)
        /\ Undisturbed' = Undisturbed
    BY <1>1 DEF Making, InHand, Undisturbed
  <1>4. m \in Rosters /\ roster \in Rosters /\ \A n \in Rosters : n.seq \in Nat
    BY <1>2 DEF Rosters, SignInv, SignTypes
  <1>5. /\ roster' \in Rosters'
        /\ \/ roster'.seq = roster.seq /\ roster'.operators = roster.operators
           \/ roster'.seq = m.seq /\ roster'.operators = m.operators
        /\ m.seq <= roster'.seq /\ roster.seq <= roster'.seq
    <2>1. roster' \in Rosters'
      BY DEF Rosters
    <2>2. m.seq \in Nat /\ roster.seq \in Nat
      BY <1>4
    <2>3. CASE m.seq < roster.seq
      <3>1. roster' = roster
        BY <1>1, <2>3
      <3> QED
        BY <2>1, <2>2, <2>3, <3>1
    <2>4. CASE ~(m.seq < roster.seq)
      <3>1. roster' = [seq |-> m.seq, operators |-> m.operators]
        BY <1>1, <2>4
      <3>2. roster'.seq = m.seq /\ roster'.operators = m.operators
        BY <3>1
      <3> QED
        BY <2>1, <2>2, <2>4, <3>2
    <2> QED
      BY <2>3, <2>4
  <1>6. \A n \in Rosters' : \E k \in Rosters : n.seq = k.seq /\ n.operators = k.operators
    BY <1>2, <1>4, <1>5 DEF Rosters
  <1>7. \A k \in Rosters : k \in Rosters' \/ k.seq <= roster'.seq
    BY <1>2, <1>5 DEF Rosters
  <1>8. SignTypes'
    <2>1. \A n \in Rosters' : n.seq \in Nat /\ n.seq < nextRoster
      BY <1>6 DEF SignInv, SignTypes
    <2> QED
      BY <1>1, <1>3, <2>1 DEF SignInv, SignTypes
  <1>9. Travels' /\ Issued' /\ Alone'
    BY <1>1, <1>2, <1>3 DEF SignInv, Travels, Issued, Alone
  <1>10. Listed'
    <2> SUFFICES ASSUME NEW o \in accounts \ together
                 PROVE  /\ \A b \in Admins : Making(b) => o \in admin[b].sees
                        /\ \E k \in Rosters' : \A n \in Rosters' : n.seq >= k.seq => o \in n.operators
      BY <1>1, <1>3 DEF Listed
    <2>1. \A b \in Admins : Making(b) => o \in admin[b].sees
      BY DEF SignInv, Listed
    <2>2. PICK k \in Rosters : \A n \in Rosters : n.seq >= k.seq => o \in n.operators
      BY DEF SignInv, Listed
    <2>3. \A n \in Rosters' : n.seq >= k.seq => o \in n.operators
      BY <1>6, <2>2
    <2>4. CASE k \in Rosters'
      BY <2>1, <2>3, <2>4
    <2>5. CASE k.seq <= roster'.seq
      <3>1. \A n \in Rosters' : n.seq \in Nat
        BY <1>4, <1>6
      <3>2. \A n \in Rosters' : n.seq >= roster'.seq => n.seq >= k.seq
        BY <1>4, <1>5, <2>5, <3>1
      <3> QED
        BY <1>5, <2>1, <2>3, <3>2
    <2> QED
      BY <1>7, <2>4, <2>5
  <1>11. RostersNumbered'
    <2>1. \A b \in InHand("issue") : admin[b].operator \notin together =>
              \A n \in Rosters' : n.seq < admin[b].seq
      BY <1>6 DEF SignInv, RostersNumbered
    <2> QED
      BY <1>1, <1>3, <2>1 DEF SignInv, RostersNumbered
  <1> QED
    BY <1>8, <1>9, <1>10, <1>11 DEF SignInv

\* A shift or a credential reaches the edge.
LEMMA ApplyOtherKeeps ==
    ASSUME SignInv, NEW m \in toEdge, ApplyShift(m) \/ ApplyCredential(m) PROVE SignInv'
  <1>1. /\ toEdge' = toEdge \ {m}
        /\ UNCHANGED <<hour, accounts, planned, credentials, nextRoster, crossed, expired,
                       admin, roster, together>>
        /\ \/ /\ m.kind = "shift" /\ edgeShifts' = edgeShifts \cup {m.shift}
              /\ edgeCredentials' = edgeCredentials
           \/ /\ m.kind = "credential" /\ edgeCredentials' = edgeCredentials \cup {m.shift}
              /\ edgeShifts' = edgeShifts
    BY DEF ApplyShift, ApplyCredential, cloudVars
  <1>2. /\ \A b : Making(b)' <=> Making(b)
        /\ \A step : InHand(step)' = InHand(step)
        /\ Undisturbed' = Undisturbed
    BY <1>1 DEF Making, InHand, Undisturbed
  <1>3. \A kind : InTransit(kind)' = IF m.kind = kind THEN InTransit(kind) \ {m} ELSE InTransit(kind)
    BY <1>1, TakenOut
  <1>4. Rosters' = Rosters
    BY <1>1, <1>3 DEF Rosters
  <1>5. m.kind = "shift" => m \in InTransit("shift")
    BY DEF InTransit
  <1>6. Travels'
    BY <1>1, <1>3, <1>5 DEF SignInv, Travels
  <1>7. SignTypes' /\ RostersNumbered' /\ Listed'
    BY <1>1, <1>2, <1>4 DEF SignInv, SignTypes, RostersNumbered, Listed
  <1>8. Issued' /\ Alone'
    BY <1>1, <1>2 DEF SignInv, Issued, Alone
  <1> QED
    BY <1>6, <1>7, <1>8 DEF SignInv

LEMMA SetHourKeeps ==
    ASSUME SignInv, hour' \in Nat,
           UNCHANGED <<cloudVars, admin, toEdge, edgeVars, together>>
    PROVE  SignInv'
  <1>1. UNCHANGED <<accounts, planned, credentials, nextRoster, crossed, expired, admin, toEdge,
                    roster, edgeShifts, edgeCredentials, together>>
    BY DEF cloudVars, edgeVars
  <1>2. /\ \A b : Making(b)' <=> Making(b)
        /\ \A step : InHand(step)' = InHand(step) /\ \A kind : InTransit(kind)' = InTransit(kind)
        /\ Undisturbed' = Undisturbed /\ Rosters' = Rosters
    BY <1>1 DEF Making, InHand, InTransit, Undisturbed, Rosters
  <1>3. SignTypes' /\ RostersNumbered' /\ Listed'
    BY <1>1, <1>2 DEF SignInv, SignTypes, RostersNumbered, Listed
  <1>4. Travels' /\ Issued' /\ Alone'
    BY <1>1, <1>2 DEF SignInv, Travels, Issued, Alone
  <1> QED
    BY <1>3, <1>4 DEF SignInv

LEMMA SignStep == SignInv /\ [SignInNext]_signVars => SignInv'
  <1> SUFFICES ASSUME SignInv, [SignInNext]_signVars PROVE SignInv'
    OBVIOUS
  <1>1. ASSUME UNCHANGED signVars PROVE SignInv'
    <2>1. hour' \in Nat /\ UNCHANGED <<cloudVars, admin, toEdge, edgeVars, together>>
      BY <1>1 DEF signVars, cloudVars, edgeVars, SignInv, SignTypes
    <2> QED
      BY <2>1, SetHourKeeps
  <1>2. ASSUME NEW h \in 0 .. MaxHour, SetHour(h) PROVE SignInv'
    <2>1. hour' \in Nat
      BY <1>2, SignInAssumption DEF SetHour
    <2> QED
      BY <1>2, <2>1, SetHourKeeps DEF SetHour
  <1> QED
    BY <1>1, <1>2, BeginShiftKeeps, CommitShiftKeeps, BeginAccountKeeps, IssueCredentialsKeeps,
       CommitAccountKeeps, ApplyRosterKeeps, ApplyOtherKeeps DEF SignInNext

\* Of an operator's shifts, which do not overlap, the first not over is current.
LEMMA TheCurrentShift ==
    ASSUME NEW own \in SUBSET Shifts, NEW s \in own, hour \in Nat,
           \A u \in own : u.operator = s.operator,
           hour < s.end, \A u \in own : hour < u.end => s.start <= u.start
    PROVE  CurrentOf(own) = s
  <1> DEFINE now == {u \in own : u.start <= hour /\ hour < u.end}
             next == {u \in own : u.start > hour}
  <1>1. \A u \in own : u.start \in Nat /\ u.end \in Nat /\ u.start < u.end
    BY SignInAssumption
  <1>2. \A u \in own : u # s => u.end <= s.start \/ s.end <= u.start
    BY SignInAssumption
  <1>3. \A u \in own : u.start = s.start => u = s
    BY <1>1, <1>2
  <1>4. CASE s.start <= hour
    <2>1. now = {s}
      BY <1>1, <1>2, <1>4
    <2>2. {u.start : u \in now} = {s.start}
      BY <2>1
    <2>3. Max({s.start}) = s.start
      BY <1>1 DEF Max
    <2>4. CurrentOf(own) = CHOOSE u \in own : u.start = s.start
      BY <2>1, <2>2, <2>3 DEF CurrentOf
    <2> QED
      BY <1>3, <2>4
  <1>5. CASE s.start > hour
    <2>1. now = {}
      BY <1>1, <1>5
    <2>2. s \in next /\ \A u \in next : u \in own /\ u.start \in Nat /\ s.start <= u.start
      BY <1>1, <1>5
    <2> HIDE DEF next
    <2>3. s.start \in {u.start : u \in next} /\ \A m \in {u.start : u \in next} : s.start <= m
      BY <2>2
    <2>4. \A n \in {u.start : u \in next} : (\A m \in {u.start : u \in next} : n <= m) => n = s.start
      BY <2>2, <2>3
    <2>5. Min({u.start : u \in next}) = s.start
      BY <2>3, <2>4 DEF Min
    <2>6. CurrentOf(own) = CHOOSE u \in own : u.start = s.start
      BY <2>1, <2>2, <2>5 DEF CurrentOf, next
    <2> QED
      BY <1>3, <2>6
  <1> QED
    BY <1>1, <1>4, <1>5

\* An operator whose account was created alone, and whose shift did not cross it,
\* signs in at the machine for the shift being worked, or for the next one in advance:
\* for any operators, shifts and admins, any order of the messages and any movement of
\* the clock.
THEOREM OfflineSignIn == SignInSpec => []SignInReady
  <1>1. SignInv => SignInReady
    <2> SUFFICES ASSUME SignInv, NEW o \in Operators, Settled(o), NEW s \in Undisturbed,
                        s.operator = o, FirstNotOver(s)
                 PROVE  MaySignIn(o)
      BY DEF SignInReady, Undisturbed
    <2>1. o \in accounts \ together /\ toEdge = {}
      BY DEF Settled
    <2>2. Rosters = {roster} /\ \A kind : InTransit(kind) = {}
      BY <2>1 DEF Rosters, InTransit
    <2>3. roster.seq \in Nat
      BY <2>2 DEF SignInv, SignTypes
    <2>4. o \in roster.operators
      BY <2>1, <2>2, <2>3 DEF SignInv, Listed
    <2>5. s \in planned /\ s \in credentials
      BY <2>1 DEF SignInv, Issued, Undisturbed
    <2>6. s \in edgeShifts /\ s \in edgeCredentials
      BY <2>2, <2>5 DEF SignInv, Travels
    <2>7. s \in EdgeShiftsOf(o) /\ EdgeShiftsOf(o) \subseteq Shifts
          /\ \A u \in EdgeShiftsOf(o) : u.operator = s.operator
      BY <2>6 DEF EdgeShiftsOf, SignInv, SignTypes, Travels
    <2>8. CurrentOf(EdgeShiftsOf(o)) = s
      <3>1. hour < s.end /\ \A u \in EdgeShiftsOf(o) : hour < u.end => s.start <= u.start
        BY DEF FirstNotOver, EdgeShiftsOf, SignInv, Travels
      <3> QED
        BY <2>7, <3>1, TheCurrentShift DEF SignInv, SignTypes
    <2>9. Unexpired(s)
      <3>1. s.end \in Nat /\ Grace \in Nat /\ hour \in Nat
        BY <2>7, SignInAssumption DEF SignInv, SignTypes
      <3>2. hour < s.end
        BY DEF FirstNotOver
      <3> QED
        BY <3>1, <3>2 DEF Unexpired, Expiry
    <2> QED
      BY <2>4, <2>6, <2>7, <2>8, <2>9 DEF MaySignIn
  <1> QED
    BY <1>1, SignStart, SignStep, PTL DEF SignInSpec
-----------------------------------------------------------------------------
(***************************************************************************)
(* EtaTask.  A request changes the status and the times of a task, a tick  *)
(* its progress, and each writes the columns it changed over what the      *)
(* other has written; there is one tick at a time.  On a task no two       *)
(* requests have overlapped, a request has read what it writes over, and   *)
(* the times add up in every status.                                       *)
(***************************************************************************)
Columns == {"status", "start", "end", "hold", "paused", "blocked", "quantity", "revised",
            "revisedAt", "reason"}

\* A row of edge.task; what the ETA is revised to plays no part.
IsRow(r) ==
    /\ r = [c \in Columns |-> r[c]]
    /\ r.status \in {"assigned", "in_progress", "paused", "blocked", "done"}
    /\ r.start \in Int /\ r.end \in Int /\ r.hold \in Int
    /\ r.paused \in Int /\ r.blocked \in Int /\ r.quantity \in Int

\* The columns a request may change.
SameWork(r, s) ==
    /\ r.status = s.status /\ r.start = s.start /\ r.end = s.end /\ r.hold = s.hold
    /\ r.paused = s.paused /\ r.blocked = s.blocked

RowsKept ==
    /\ DOMAIN row = Tasks /\ DOMAIN pressed = Tasks /\ DOMAIN counted = Tasks
    /\ \A t \in Tasks : IsRow(row[t]) /\ counted[t] \in Int

ClockKept == minute \in Nat /\ (tick.open /\ ~tick.read => tick.at \in Nat)

OfRequest(a) ==
    /\ a.task \in Tasks /\ a.at \in Nat
    /\ IsRow(a.old) /\ Offered(a.action, a.old.status) /\ a.new = Acted(a.old, a.action, a.at)

RequestsKept ==
    /\ DOMAIN request = Requests
    /\ \A q \in Requests : request[q].open => OfRequest(request[q])

TickKept ==
    tick.open =>
        /\ tick.task \in Tasks /\ tick.loads \in Int
        /\ tick.read => IsRow(tick.old) /\ tick.old.quantity = row[tick.task].quantity

\* The request has read the work it writes over.
Fresh ==
    \A q \in Requests : request[q].open /\ request[q].task \notin raced =>
        SameWork(request[q].old, row[request[q].task])

HistoryKept ==
    /\ DOMAIN worked = Tasks /\ DOMAIN since = Tasks /\ DOMAIN clipped = Tasks
    /\ \A t \in Tasks : worked[t] \in Int /\ since[t] \in Int /\ clipped[t] \in Int

\* The periods of a task's row, against the time worked, at the last change.
AddsUp(r, w, s, c) ==
    /\ r.status = "assigned" =>
          r.hold = NoTime /\ r.paused = 0 /\ r.blocked = 0 /\ w = 0 /\ c = 0
    /\ r.status = "in_progress" => r.hold = NoTime /\ Counted(r, s) = w - c
    /\ r.status \in {"paused", "blocked"} => r.hold # NoTime /\ Counted(r, r.hold) = w - c
    /\ r.status = "done" => Counted(r, r.end) = w - c

TimesAddUp ==
    \A t \in Tasks \ raced : AddsUp(row[t], worked[t], since[t], clipped[t])

TaskInv == RowsKept /\ ClockKept /\ RequestsKept /\ TickKept /\ NothingUndone
TimeInv == HistoryKept /\ Fresh /\ TimesAddUp

\* A row is a record with the columns as fields, and an update of one changes it alone.
LEMMA RowFields ==
    ASSUME NEW r, IsRow(r), NEW old, IsRow(old), NEW new, IsRow(new)
    PROVE  LET m == Merge(r, old, new)
           IN  /\ m.status = IF new.status # old.status THEN new.status ELSE r.status
               /\ m.start = IF new.start # old.start THEN new.start ELSE r.start
               /\ m.end = IF new.end # old.end THEN new.end ELSE r.end
               /\ m.hold = IF new.hold # old.hold THEN new.hold ELSE r.hold
               /\ m.paused = IF new.paused # old.paused THEN new.paused ELSE r.paused
               /\ m.blocked = IF new.blocked # old.blocked THEN new.blocked ELSE r.blocked
               /\ m.quantity = IF new.quantity # old.quantity THEN new.quantity ELSE r.quantity
  <1>1. DOMAIN r = Columns
    BY DEF IsRow
  <1> QED
    BY <1>1 DEF Merge, Columns

\* What is written over a row is a row.
LEMMA MergedRow ==
    ASSUME NEW r, IsRow(r), NEW old, IsRow(old), NEW new, IsRow(new)
    PROVE  IsRow(Merge(r, old, new))
  <1> DEFINE m == Merge(r, old, new)
  <1>1. DOMAIN r = Columns
    BY DEF IsRow
  <1>2. m = [c \in Columns |-> IF new[c] # old[c] THEN new[c] ELSE r[c]]
    BY <1>1 DEF Merge
  <1>3. m = [c \in Columns |-> m[c]]
    BY <1>2
  <1>4. /\ m.status \in {"assigned", "in_progress", "paused", "blocked", "done"}
        /\ m.start \in Int /\ m.end \in Int /\ m.hold \in Int
        /\ m.paused \in Int /\ m.blocked \in Int /\ m.quantity \in Int
    BY RowFields DEF IsRow
  <1> QED
    BY <1>3, <1>4 DEF IsRow

\* A request leaves a row, with the progress it read and another status.
LEMMA ActedRow ==
    ASSUME NEW r, IsRow(r), NEW action, Offered(action, r.status), NEW at \in Nat
    PROVE  /\ IsRow(Acted(r, action, at)) /\ Acted(r, action, at).status # r.status
           /\ Acted(r, action, at).quantity = r.quantity
  <1> DEFINE n == Acted(r, action, at)
  <1> SUFFICES IsRow(n) /\ n.status # r.status /\ n.quantity = r.quantity
    OBVIOUS
  <1>1. r = [c \in Columns |-> r[c]] /\ DOMAIN r = Columns
    BY DEF IsRow
  <1>2. Held(r, at) \in Int
    BY DEF Held, NotBelow, IsRow
  <1>3. CASE action = "start" /\ r.status = "assigned"
    <2>1. n = [r EXCEPT !.status = "in_progress", !.start = at]
      BY <1>3 DEF Acted
    <2>2. n = [c \in Columns |-> n[c]]
      BY <1>1, <2>1
    <2> HIDE DEF n
    <2>3. /\ n.status = "in_progress" /\ n.start = at /\ n.end = r.end /\ n.hold = r.hold
          /\ n.paused = r.paused /\ n.blocked = r.blocked /\ n.quantity = r.quantity
      BY <1>1, <2>1 DEF Columns
    <2> QED
      BY <1>2, <1>3, <2>2, <2>3 DEF IsRow, NoTime
  <1>4. CASE action = "pause" /\ r.status = "in_progress"
    <2>1. n = [r EXCEPT !.status = "paused", !.hold = at]
      BY <1>4 DEF Acted
    <2>2. n = [c \in Columns |-> n[c]]
      BY <1>1, <2>1
    <2> HIDE DEF n
    <2>3. /\ n.status = "paused" /\ n.start = r.start /\ n.end = r.end /\ n.hold = at
          /\ n.paused = r.paused /\ n.blocked = r.blocked /\ n.quantity = r.quantity
      BY <1>1, <2>1 DEF Columns
    <2> QED
      BY <1>2, <1>4, <2>2, <2>3 DEF IsRow, NoTime
  <1>5. CASE action = "block" /\ r.status = "in_progress"
    <2>1. n = [r EXCEPT !.status = "blocked", !.hold = at]
      BY <1>5 DEF Acted
    <2>2. n = [c \in Columns |-> n[c]]
      BY <1>1, <2>1
    <2> HIDE DEF n
    <2>3. /\ n.status = "blocked" /\ n.start = r.start /\ n.end = r.end /\ n.hold = at
          /\ n.paused = r.paused /\ n.blocked = r.blocked /\ n.quantity = r.quantity
      BY <1>1, <2>1 DEF Columns
    <2> QED
      BY <1>2, <1>5, <2>2, <2>3 DEF IsRow, NoTime
  <1>6. CASE action = "complete" /\ r.status = "in_progress"
    <2>1. n = [r EXCEPT !.status = "done", !.end = at]
      BY <1>6 DEF Acted
    <2>2. n = [c \in Columns |-> n[c]]
      BY <1>1, <2>1
    <2> HIDE DEF n
    <2>3. /\ n.status = "done" /\ n.start = r.start /\ n.end = at /\ n.hold = r.hold
          /\ n.paused = r.paused /\ n.blocked = r.blocked /\ n.quantity = r.quantity
      BY <1>1, <2>1 DEF Columns
    <2> QED
      BY <1>2, <1>6, <2>2, <2>3 DEF IsRow, NoTime
  <1>7. CASE action = "resume" /\ r.status = "paused"
    <2>1. n = [r EXCEPT !.status = "in_progress", !.paused = @ + Held(r, at), !.hold = NoTime]
      BY <1>7 DEF Acted, Release
    <2>2. n = [c \in Columns |-> n[c]]
      BY <1>1, <2>1
    <2> HIDE DEF n
    <2>3. /\ n.status = "in_progress" /\ n.start = r.start /\ n.end = r.end /\ n.hold = NoTime
          /\ n.paused = r.paused + Held(r, at) /\ n.blocked = r.blocked /\ n.quantity = r.quantity
      BY <1>1, <2>1 DEF Columns
    <2> QED
      BY <1>2, <1>7, <2>2, <2>3 DEF IsRow, NoTime
  <1>8. CASE action = "unblock" /\ r.status = "blocked"
    <2>1. n = [r EXCEPT !.status = "in_progress", !.blocked = @ + Held(r, at), !.hold = NoTime]
      BY <1>8 DEF Acted, Release
    <2>2. n = [c \in Columns |-> n[c]]
      BY <1>1, <2>1
    <2> HIDE DEF n
    <2>3. /\ n.status = "in_progress" /\ n.start = r.start /\ n.end = r.end /\ n.hold = NoTime
          /\ n.paused = r.paused /\ n.blocked = r.blocked + Held(r, at) /\ n.quantity = r.quantity
      BY <1>1, <2>1 DEF Columns
    <2> QED
      BY <1>2, <1>8, <2>2, <2>3 DEF IsRow, NoTime
  <1> QED
    BY <1>3, <1>4, <1>5, <1>6, <1>7, <1>8 DEF Offered

\* A tick leaves a row, with its loads counted and the rest of the work as it read it.
LEMMA ProgressedRow ==
    ASSUME NEW k, IsRow(k.old), k.loads \in Int
    PROVE  /\ IsRow(Progressed(k)) /\ Progressed(k).quantity = k.old.quantity + k.loads
           /\ SameWork(Progressed(k), k.old)
  <1> DEFINE n == Progressed(k)
             q == [k.old EXCEPT !.quantity = @ + k.loads]
  <1> SUFFICES IsRow(n) /\ n.quantity = k.old.quantity + k.loads /\ SameWork(n, k.old)
    OBVIOUS
  <1>1. k.old = [c \in Columns |-> k.old[c]] /\ DOMAIN k.old = Columns
    BY DEF IsRow
  <1>2. q = [c \in Columns |-> q[c]] /\ DOMAIN q = Columns
    BY <1>1
  <1>3. IsRow(q) /\ q.quantity = k.old.quantity + k.loads /\ SameWork(q, k.old)
    BY <1>1, <1>2 DEF IsRow, SameWork, Columns
  <1>4. n = q \/ \E x, y, z : n = [q EXCEPT !.revised = x, !.revisedAt = y, !.reason = z]
    BY DEF Progressed, Revised
  <1> HIDE DEF q, n
  <1>5. ASSUME NEW x, NEW y, NEW z, n = [q EXCEPT !.revised = x, !.revisedAt = y, !.reason = z]
        PROVE  IsRow(n) /\ n.quantity = q.quantity /\ SameWork(n, q)
    <2>1. n = [c \in Columns |-> n[c]]
      BY <1>2, <1>5
    <2> QED
      BY <1>2, <1>3, <1>5, <2>1 DEF IsRow, SameWork, Columns
  <1>6. CASE n = q
    BY <1>3, <1>6
  <1>7. CASE n # q
    <2>1. PICK x, y, z : n = [q EXCEPT !.revised = x, !.revisedAt = y, !.reason = z]
      BY <1>4, <1>7
    <2>2. IsRow(n) /\ n.quantity = q.quantity /\ SameWork(n, q)
      BY <1>5, <2>1
    <2> QED
      BY <1>3, <2>2 DEF SameWork
  <1> QED
    BY <1>6, <1>7

LEMMA TaskStart == TaskInit => TaskInv /\ TimeInv
  <1> SUFFICES ASSUME TaskInit PROVE TaskInv /\ TimeInv
    OBVIOUS
  <1> USE DEF TaskInit, Closed
  <1>1. IsRow(NewRow)
    BY DEF IsRow, NewRow, Columns, NoTime
  <1>2. RowsKept
    BY <1>1 DEF RowsKept
  <1>3. ClockKept /\ RequestsKept /\ TickKept /\ Fresh
    BY DEF ClockKept, RequestsKept, TickKept, Fresh
  <1>4. NothingUndone
    BY DEF NothingUndone, NewRow
  <1>5. HistoryKept
    BY DEF HistoryKept, NoTime
  <1>6. TimesAddUp
    BY DEF TimesAddUp, AddsUp, NewRow
  <1> QED
    BY <1>2, <1>3, <1>4, <1>5, <1>6 DEF TaskInv, TimeInv

\* A request is begun.
LEMMA BeginActionKeeps ==
    ASSUME TaskInv, TimeInv, NEW q \in Requests, NEW t \in Tasks, NEW action,
           BeginAction(q, t, action)
    PROVE  TaskInv' /\ TimeInv'
  <1> DEFINE a == [open |-> TRUE, task |-> t, action |-> action, at |-> minute,
                   old |-> row[t], new |-> Acted(row[t], action, minute)]
  <1>1. /\ Offered(action, row[t].status) /\ request' = [request EXCEPT ![q] = a]
        /\ UNCHANGED <<minute, weather, row, stream, tick, worked, since, clipped, raced,
                       pressed, counted>>
    BY DEF BeginAction, periods
  <1>2. OfRequest(a)
    BY <1>1 DEF OfRequest, TaskInv, RowsKept, ClockKept
  <1>3. a.open /\ a.task = t /\ a.old = row[t]
    OBVIOUS
  <1> HIDE DEF a
  <1>4. /\ DOMAIN request' = Requests /\ request'[q] = a
        /\ \A p \in Requests \ {q} : request'[p] = request[p]
    BY <1>1 DEF TaskInv, RequestsKept
  <1>5. RequestsKept'
    BY <1>2, <1>4 DEF TaskInv, RequestsKept, OfRequest
  <1>6. RowsKept' /\ ClockKept' /\ TickKept' /\ NothingUndone'
    BY <1>1 DEF TaskInv, RowsKept, ClockKept, TickKept, NothingUndone
  <1>7. SameWork(row[t], row[t])
    BY DEF SameWork
  <1>8. Fresh'
    <2> SUFFICES ASSUME NEW p \in Requests, request'[p].open, request'[p].task \notin raced
                 PROVE  SameWork(request'[p].old, row[request'[p].task])
      BY <1>1 DEF Fresh
    <2>1. CASE p = q
      BY <1>3, <1>4, <1>7, <2>1
    <2>2. CASE p # q
      BY <1>4, <2>2 DEF TimeInv, Fresh
    <2> QED
      BY <2>1, <2>2
  <1>9. HistoryKept' /\ TimesAddUp'
    BY <1>1 DEF TimeInv, HistoryKept, TimesAddUp
  <1> QED
    BY <1>5, <1>6, <1>8, <1>9 DEF TaskInv, TimeInv

\* Whatever a request or a tick writes over the row of a task, the others keep theirs.
LEMMA Flushed ==
    ASSUME RowsKept, NEW t \in Tasks, NEW old, NEW new, Flush(t, old, new)
    PROVE  /\ DOMAIN row' = Tasks /\ row'[t] = Merge(row[t], old, new)
           /\ \A u \in Tasks \ {t} : row'[u] = row[u]
  BY DEF Flush, RowsKept

\* The times of a row whose work is the same add up to the same.
LEMMA SameAddsUp ==
    ASSUME NEW r, NEW s, SameWork(r, s), NEW w, NEW b, NEW c, AddsUp(s, w, b, c)
    PROVE  AddsUp(r, w, b, c)
  BY DEF SameWork, AddsUp, Counted

\* What an action adds to a row's pauses and blocks is what Account takes for worked
\* and for hidden.
LEMMA ActedAddsUp ==
    ASSUME NEW r, IsRow(r), NEW action, Offered(action, r.status), NEW at \in Nat,
           NEW w \in Int, NEW b \in Int, NEW c \in Int, AddsUp(r, w, b, c)
    PROVE  AddsUp(Acted(r, action, at),
                  IF action \in {"pause", "block", "complete"} THEN w + at - b ELSE w,
                  IF action \in {"start", "resume", "unblock"} THEN at ELSE b,
                  IF action \in {"resume", "unblock"} THEN c + NotBelow(0, r.hold - at) ELSE c)
  <1> DEFINE n == Acted(r, action, at)
             wn == IF action \in {"pause", "block", "complete"} THEN w + at - b ELSE w
             bn == IF action \in {"start", "resume", "unblock"} THEN at ELSE b
             cn == IF action \in {"resume", "unblock"} THEN c + NotBelow(0, r.hold - at) ELSE c
  <1> SUFFICES AddsUp(n, wn, bn, cn)
    OBVIOUS
  <1>1. DOMAIN r = Columns
    BY DEF IsRow
  <1>2. /\ r.start \in Int /\ r.end \in Int /\ r.hold \in Int /\ r.paused \in Int
        /\ r.blocked \in Int
    BY DEF IsRow
  <1>3. CASE action = "start" /\ r.status = "assigned"
    <2>1. n = [r EXCEPT !.status = "in_progress", !.start = at]
      BY <1>3 DEF Acted
    <2>2. /\ n.status = "in_progress" /\ n.start = at /\ n.hold = r.hold /\ n.paused = r.paused
          /\ n.blocked = r.blocked
      BY <1>1, <2>1 DEF Columns
    <2>3. wn = w /\ bn = at /\ cn = c
      BY <1>3
    <2> HIDE DEF n, wn, bn, cn
    <2> QED
      BY <1>1, <1>2, <1>3, <2>2, <2>3 DEF AddsUp, Counted
  <1>4. CASE action = "pause" /\ r.status = "in_progress"
    <2>1. n = [r EXCEPT !.status = "paused", !.hold = at]
      BY <1>4 DEF Acted
    <2>2. /\ n.status = "paused" /\ n.start = r.start /\ n.hold = at /\ n.paused = r.paused
          /\ n.blocked = r.blocked
      BY <1>1, <2>1 DEF Columns
    <2>3. wn = w + at - b /\ bn = b /\ cn = c
      BY <1>4
    <2>4. b - r.start - r.paused - r.blocked = w - c
      BY <1>4 DEF AddsUp, Counted
    <2>5. at - r.start - r.paused - r.blocked = w + at - b - c
      <3>1. at - r.start - r.paused - r.blocked
                = (b - r.start - r.paused - r.blocked) + (at - b)
        BY <1>2
      <3>2. @ = (w - c) + (at - b)
        BY <2>4
      <3> QED
        BY <3>1, <3>2
    <2> HIDE DEF n, wn, bn, cn
    <2> QED
      BY <2>2, <2>3, <2>5 DEF AddsUp, Counted, NoTime
  <1>5. CASE action = "block" /\ r.status = "in_progress"
    <2>1. n = [r EXCEPT !.status = "blocked", !.hold = at]
      BY <1>5 DEF Acted
    <2>2. /\ n.status = "blocked" /\ n.start = r.start /\ n.hold = at /\ n.paused = r.paused
          /\ n.blocked = r.blocked
      BY <1>1, <2>1 DEF Columns
    <2>3. wn = w + at - b /\ bn = b /\ cn = c
      BY <1>5
    <2>4. b - r.start - r.paused - r.blocked = w - c
      BY <1>5 DEF AddsUp, Counted
    <2>5. at - r.start - r.paused - r.blocked = w + at - b - c
      <3>1. at - r.start - r.paused - r.blocked
                = (b - r.start - r.paused - r.blocked) + (at - b)
        BY <1>2
      <3>2. @ = (w - c) + (at - b)
        BY <2>4
      <3> QED
        BY <3>1, <3>2
    <2> HIDE DEF n, wn, bn, cn
    <2> QED
      BY <2>2, <2>3, <2>5 DEF AddsUp, Counted, NoTime
  <1>6. CASE action = "complete" /\ r.status = "in_progress"
    <2>1. n = [r EXCEPT !.status = "done", !.end = at]
      BY <1>6 DEF Acted
    <2>2. /\ n.status = "done" /\ n.start = r.start /\ n.end = at /\ n.paused = r.paused
          /\ n.blocked = r.blocked
      BY <1>1, <2>1 DEF Columns
    <2>3. wn = w + at - b /\ bn = b /\ cn = c
      BY <1>6
    <2>4. b - r.start - r.paused - r.blocked = w - c
      BY <1>6 DEF AddsUp, Counted
    <2>5. at - r.start - r.paused - r.blocked = w + at - b - c
      <3>1. at - r.start - r.paused - r.blocked
                = (b - r.start - r.paused - r.blocked) + (at - b)
        BY <1>2
      <3>2. @ = (w - c) + (at - b)
        BY <2>4
      <3> QED
        BY <3>1, <3>2
    <2> HIDE DEF n, wn, bn, cn
    <2> QED
      BY <2>2, <2>3, <2>5 DEF AddsUp, Counted
  <1>7. CASE action = "resume" /\ r.status = "paused"
    <2>1. n = [r EXCEPT !.status = "in_progress", !.paused = @ + Held(r, at), !.hold = NoTime]
      BY <1>7 DEF Acted, Release
    <2> DEFINE h == Held(r, at)
               hidden == NotBelow(0, r.hold - at)
    <2>2. /\ n.status = "in_progress" /\ n.start = r.start /\ n.hold = NoTime
          /\ n.paused = r.paused + h /\ n.blocked = r.blocked
      BY <1>1, <2>1 DEF Columns
    <2>3. wn = w /\ bn = at /\ cn = c + hidden
      BY <1>7
    <2>4. h \in Int /\ hidden \in Int /\ h - hidden = at - r.hold
      BY <1>1, <1>2, <1>7 DEF AddsUp, Held, NotBelow
    <2>5. r.hold - r.start - r.paused - r.blocked = w - c
      BY <1>7 DEF AddsUp, Counted
    <2> HIDE DEF n, wn, bn, cn, h, hidden
    <2>6. bn - n.start - n.paused - n.blocked = wn - cn
      <3>1. at - r.start - (r.paused + h) - r.blocked = w - (c + hidden)
        <4>1. at - r.start - (r.paused + h) - r.blocked
                  = (r.hold - r.start - r.paused - r.blocked) + (at - r.hold) - h
          BY <1>2, <2>4
        <4>2. @ = (w - c) + (h - hidden) - h
          BY <2>4, <2>5
        <4>3. @ = w - (c + hidden)
          BY <2>4
        <4> QED
          BY <4>1, <4>2, <4>3
      <3> QED
        BY <2>2, <2>3, <3>1
    <2> QED
      BY <2>2, <2>6 DEF AddsUp, Counted
  <1>8. CASE action = "unblock" /\ r.status = "blocked"
    <2>1. n = [r EXCEPT !.status = "in_progress", !.blocked = @ + Held(r, at), !.hold = NoTime]
      BY <1>8 DEF Acted, Release
    <2> DEFINE h == Held(r, at)
               hidden == NotBelow(0, r.hold - at)
    <2>2. /\ n.status = "in_progress" /\ n.start = r.start /\ n.hold = NoTime
          /\ n.blocked = r.blocked + h /\ n.paused = r.paused
      BY <1>1, <2>1 DEF Columns
    <2>3. wn = w /\ bn = at /\ cn = c + hidden
      BY <1>8
    <2>4. h \in Int /\ hidden \in Int /\ h - hidden = at - r.hold
      BY <1>1, <1>2, <1>8 DEF AddsUp, Held, NotBelow
    <2>5. r.hold - r.start - r.paused - r.blocked = w - c
      BY <1>8 DEF AddsUp, Counted
    <2> HIDE DEF n, wn, bn, cn, h, hidden
    <2>6. bn - n.start - n.paused - n.blocked = wn - cn
      <3>1. at - r.start - r.paused - (r.blocked + h) = w - (c + hidden)
        <4>1. at - r.start - r.paused - (r.blocked + h)
                  = (r.hold - r.start - r.paused - r.blocked) + (at - r.hold) - h
          BY <1>2, <2>4
        <4>2. @ = (w - c) + (h - hidden) - h
          BY <2>4, <2>5
        <4>3. @ = w - (c + hidden)
          BY <2>4
        <4> QED
          BY <4>1, <4>2, <4>3
      <3> QED
        BY <2>2, <2>3, <3>1
    <2> QED
      BY <2>2, <2>6 DEF AddsUp, Counted
  <1> QED
    BY <1>3, <1>4, <1>5, <1>6, <1>7, <1>8 DEF Offered

\* A request writes a row with the status it was pressed for and the progress ticks
\* have made.
LEMMA CommittedRow ==
    ASSUME TaskInv, NEW q \in Requests, CommitAction(q)
    PROVE  LET a == request[q]
           IN  /\ a.task \in Tasks /\ IsRow(row'[a.task])
               /\ row'[a.task].status = a.new.status
               /\ row'[a.task].quantity = row[a.task].quantity
               /\ SameWork(a.old, row[a.task]) => SameWork(row'[a.task], a.new)
  <1> DEFINE a == request[q]
             t == a.task
  <1> SUFFICES /\ t \in Tasks /\ IsRow(row'[t])
               /\ row'[t].status = a.new.status /\ row'[t].quantity = row[t].quantity
               /\ SameWork(a.old, row[t]) => SameWork(row'[t], a.new)
    OBVIOUS
  <1>1. OfRequest(a) /\ Flush(t, a.old, a.new)
    BY DEF CommitAction, TaskInv, RequestsKept
  <1> HIDE DEF a
  <1>2. t \in Tasks /\ IsRow(row[t]) /\ IsRow(a.old) /\ RowsKept
    BY <1>1 DEF OfRequest, TaskInv, RowsKept
  <1>3. IsRow(a.new) /\ a.new.status # a.old.status /\ a.new.quantity = a.old.quantity
    BY <1>1, ActedRow DEF OfRequest
  <1>4. row'[t] = Merge(row[t], a.old, a.new)
    BY <1>1, <1>2, Flushed
  <1>5. IsRow(row'[t])
    BY <1>2, <1>3, <1>4, MergedRow
  <1>6. row'[t].status = a.new.status /\ row'[t].quantity = row[t].quantity
    BY <1>2, <1>3, <1>4, RowFields
  <1>7. SameWork(a.old, row[t]) => SameWork(row'[t], a.new)
    BY <1>2, <1>3, <1>4, RowFields DEF SameWork
  <1> QED
    BY <1>2, <1>5, <1>6, <1>7

LEMMA CommitActionKeeps ==
    ASSUME TaskInv, TimeInv, NEW q \in Requests, CommitAction(q)
    PROVE  TaskInv' /\ TimeInv'
  <1> DEFINE a == request[q]
             t == a.task
             Raced == \E p \in Requests \ {q} : request[p].open /\ request[p].task = t
  <1>1. /\ a.open /\ Flush(t, a.old, a.new)
        /\ pressed' = [pressed EXCEPT ![t] = a.new.status]
        /\ raced' = IF Raced THEN raced \cup {t} ELSE raced
        /\ request' = [request EXCEPT ![q] = Closed]
        /\ UNCHANGED <<minute, weather, stream, tick, counted>>
    BY DEF CommitAction
  <1>2. IF t \in raced' THEN UNCHANGED <<worked, since, clipped>> ELSE Account(t, a.old, a.action, a.at)
    BY DEF CommitAction
  <1>3. OfRequest(a) /\ RowsKept
    BY <1>1 DEF TaskInv, RequestsKept
  <1>4. /\ t \in Tasks /\ IsRow(row'[t]) /\ row'[t].status = a.new.status
        /\ row'[t].quantity = row[t].quantity
        /\ SameWork(a.old, row[t]) => SameWork(row'[t], a.new)
    BY CommittedRow
  <1>5. t \notin raced => SameWork(a.old, row[t])
    BY <1>1 DEF TimeInv, Fresh
  <1>6. /\ DOMAIN request' = Requests /\ ~request'[q].open
        /\ \A p \in Requests \ {q} : request'[p] = request[p]
    BY <1>1 DEF TaskInv, RequestsKept, Closed
  <1>7. t \notin raced' => \A p \in Requests : request'[p].open => request'[p].task # t
    BY <1>1, <1>6
  <1>8. raced \subseteq raced'
    BY <1>1
  <1> HIDE DEF a, Raced
  <1>9. DOMAIN row' = Tasks /\ \A u \in Tasks \ {t} : row'[u] = row[u]
    BY <1>1, <1>3, <1>4, Flushed
  <1>10. /\ DOMAIN pressed' = Tasks /\ pressed'[t] = a.new.status
         /\ \A u \in Tasks \ {t} : pressed'[u] = pressed[u]
    BY <1>1, <1>3, <1>4 DEF RowsKept
  <1>11. \A u \in Tasks : row'[u].quantity = row[u].quantity
    BY <1>4, <1>9
  <1>12. RowsKept' /\ NothingUndone'
    BY <1>1, <1>4, <1>9, <1>10 DEF TaskInv, RowsKept, NothingUndone
  <1>13. ClockKept' /\ RequestsKept' /\ TickKept'
    BY <1>1, <1>6, <1>11 DEF TaskInv, ClockKept, RequestsKept, TickKept, OfRequest
  <1>14. Fresh'
    <2> SUFFICES ASSUME NEW p \in Requests, request'[p].open, request'[p].task \notin raced'
                 PROVE  SameWork(request'[p].old, row'[request'[p].task])
      BY DEF Fresh
    <2>1. p # q /\ request'[p] = request[p] /\ request[p].task # t
      BY <1>6, <1>7
    <2>2. request[p].task \in Tasks /\ request[p].task \notin raced
      BY <1>8, <2>1 DEF TaskInv, RequestsKept, OfRequest
    <2>3. SameWork(request[p].old, row[request[p].task])
      BY <2>1, <2>2 DEF TimeInv, Fresh
    <2> QED
      BY <1>9, <2>1, <2>2, <2>3
  <1>15. HistoryKept /\ IsRow(a.old) /\ Offered(a.action, a.old.status) /\ a.at \in Nat
         /\ a.old.hold \in Int /\ a.new = Acted(a.old, a.action, a.at)
    BY <1>3 DEF TimeInv, OfRequest, IsRow
  <1>16. CASE t \in raced'
    <2>1. UNCHANGED <<worked, since, clipped>>
      BY <1>2, <1>16
    <2>2. HistoryKept'
      BY <1>15, <2>1 DEF HistoryKept
    <2>3. \A u \in Tasks \ raced' : u # t /\ u \in Tasks \ raced
      BY <1>8, <1>16
    <2>4. TimesAddUp'
      BY <1>9, <2>1, <2>3 DEF TimeInv, TimesAddUp
    <2> QED
      BY <1>12, <1>13, <1>14, <2>2, <2>4 DEF TaskInv, TimeInv
  <1>17. CASE t \notin raced'
    <2> DEFINE w == IF a.action \in {"pause", "block", "complete"}
                    THEN worked[t] + a.at - since[t] ELSE worked[t]
               b == IF a.action \in {"start", "resume", "unblock"} THEN a.at ELSE since[t]
               c == IF a.action \in {"resume", "unblock"}
                    THEN clipped[t] + NotBelow(0, a.old.hold - a.at) ELSE clipped[t]
    <2>1. t \notin raced /\ SameWork(a.old, row[t])
      BY <1>5, <1>8, <1>17
    <2>2. worked[t] \in Int /\ since[t] \in Int /\ clipped[t] \in Int
      BY <1>4, <1>15 DEF HistoryKept
    <2>3. AddsUp(row[t], worked[t], since[t], clipped[t])
      BY <1>4, <2>1 DEF TimeInv, TimesAddUp
    <2>4. AddsUp(a.old, worked[t], since[t], clipped[t])
      BY <2>1, <2>3, SameAddsUp
    <2>5. AddsUp(a.new, w, b, c)
      <3>1. AddsUp(Acted(a.old, a.action, a.at), w, b, c)
        BY <1>15, <2>2, <2>4, ActedAddsUp
      <3> QED
        BY <1>15, <3>1
    <2>6. w \in Int /\ b \in Int /\ c \in Int
      BY <1>15, <2>2 DEF NotBelow
    <2>7. Account(t, a.old, a.action, a.at)
      BY <1>2, <1>17
    <2>8. /\ DOMAIN worked' = Tasks /\ worked'[t] = w /\ \A u \in Tasks \ {t} : worked'[u] = worked[u]
          /\ DOMAIN since' = Tasks /\ since'[t] = b /\ \A u \in Tasks \ {t} : since'[u] = since[u]
      BY <1>4, <1>15, <2>7 DEF Account, HistoryKept
    <2>9. /\ DOMAIN clipped' = Tasks /\ clipped'[t] = c
          /\ \A u \in Tasks \ {t} : clipped'[u] = clipped[u]
      BY <1>4, <1>15, <2>7 DEF Account, HistoryKept
    <2> HIDE DEF w, b, c
    <2>10. HistoryKept'
      BY <1>15, <2>6, <2>8, <2>9 DEF HistoryKept
    <2>11. SameWork(row'[t], a.new)
      BY <1>4, <2>1
    <2>12. AddsUp(row'[t], worked'[t], since'[t], clipped'[t])
      BY <2>5, <2>8, <2>9, <2>11, SameAddsUp
    <2>13. \A u \in Tasks \ raced' : u # t => u \in Tasks \ raced
      BY <1>8
    <2>14. TimesAddUp'
      BY <1>9, <2>8, <2>9, <2>12, <2>13 DEF TimeInv, TimesAddUp
    <2> QED
      BY <1>12, <1>13, <1>14, <2>10, <2>14 DEF TaskInv, TimeInv
  <1> QED
    BY <1>16, <1>17

\* A tick that commits after a request writes only the progress.
LEMMA CommitTickKeeps ==
    ASSUME TaskInv, TimeInv, CommitTick PROVE TaskInv' /\ TimeInv'
  <1> DEFINE t == tick.task
             n == Progressed(tick)
  <1>1. /\ tick.open /\ tick.read /\ tick' = Closed
        /\ UNCHANGED <<minute, weather, stream, request, worked, since, clipped, raced, pressed>>
    BY DEF CommitTick, periods
  <1>2. ClockKept' /\ TickKept' /\ HistoryKept' /\ RequestsKept'
    BY <1>1 DEF TaskInv, TimeInv, ClockKept, TickKept, HistoryKept, RequestsKept, OfRequest, Closed
  <1>3. CASE UNCHANGED <<row, counted>>
    BY <1>1, <1>2, <1>3 DEF TaskInv, TimeInv, RowsKept, NothingUndone, Fresh, TimesAddUp
  <1>4. CASE /\ Flush(t, tick.old, n)
             /\ counted' = [counted EXCEPT ![t] = @ + tick.loads]
    <2>1. /\ t \in Tasks /\ tick.loads \in Int /\ IsRow(tick.old) /\ RowsKept
          /\ tick.old.quantity = row[t].quantity
      BY <1>1 DEF TaskInv, TickKept
    <2>2. IsRow(n) /\ n.quantity = tick.old.quantity + tick.loads /\ SameWork(n, tick.old)
      BY <2>1, ProgressedRow
    <2> HIDE DEF n
    <2>3. DOMAIN row' = Tasks /\ row'[t] = Merge(row[t], tick.old, n)
          /\ \A u \in Tasks \ {t} : row'[u] = row[u]
      BY <1>4, <2>1, Flushed
    <2>4. IsRow(row[t]) /\ row[t].quantity \in Int
      BY <2>1 DEF RowsKept, IsRow
    <2>5. IsRow(row'[t])
      BY <2>1, <2>2, <2>3, <2>4, MergedRow
    <2>6. SameWork(row'[t], row[t])
      BY <2>1, <2>2, <2>3, <2>4, RowFields DEF SameWork
    <2>7. row'[t].quantity = row[t].quantity + tick.loads
      BY <2>1, <2>2, <2>3, <2>4, RowFields
    <2>8. /\ DOMAIN counted' = Tasks /\ counted'[t] = counted[t] + tick.loads
          /\ \A u \in Tasks \ {t} : counted'[u] = counted[u]
      BY <1>4, <2>1 DEF RowsKept
    <2>9. RowsKept'
      BY <1>1, <2>1, <2>3, <2>5, <2>8 DEF RowsKept
    <2>10. NothingUndone'
      BY <1>1, <2>1, <2>3, <2>6, <2>7, <2>8 DEF TaskInv, NothingUndone, SameWork
    <2>11. \A u \in Tasks : SameWork(row'[u], row[u])
      BY <2>3, <2>6 DEF SameWork
    <2>12. TimesAddUp'
      BY <1>1, <2>11, SameAddsUp DEF TimeInv, TimesAddUp
    <2>13. Fresh'
      BY <1>1, <2>11 DEF TaskInv, TimeInv, RequestsKept, OfRequest, Fresh, SameWork
    <2> QED
      BY <1>2, <2>9, <2>10, <2>12, <2>13 DEF TaskInv, TimeInv
  <1> QED
    BY <1>3, <1>4 DEF CommitTick

\* The rest of the tick's way, and the clock, leave the tasks alone.
LEMMA TickOnItsWay ==
    ASSUME TaskInv, TimeInv, ClockKept', TickKept',
           UNCHANGED <<row, request, periods, counted>>
    PROVE  TaskInv' /\ TimeInv'
  <1>1. UNCHANGED <<row, request, worked, since, clipped, raced, pressed, counted>>
    BY DEF periods
  <1>2. RowsKept' /\ RequestsKept' /\ NothingUndone'
    BY <1>1 DEF TaskInv, RowsKept, RequestsKept, OfRequest, NothingUndone
  <1>3. HistoryKept' /\ Fresh' /\ TimesAddUp'
    BY <1>1 DEF TimeInv, HistoryKept, Fresh, TimesAddUp
  <1> QED
    BY <1>2, <1>3 DEF TaskInv, TimeInv

LEMMA TaskStep == TaskInv /\ TimeInv /\ [TaskNext]_taskVars => TaskInv' /\ TimeInv'
  <1> SUFFICES ASSUME TaskInv, TimeInv, [TaskNext]_taskVars PROVE TaskInv' /\ TimeInv'
    OBVIOUS
  <1>1. ASSUME UNCHANGED taskVars PROVE TaskInv' /\ TimeInv'
    <2>1. UNCHANGED <<minute, row, tick, request, worked, since, clipped, raced, pressed, counted>>
      BY <1>1 DEF taskVars
    <2>2. ClockKept' /\ TickKept' /\ UNCHANGED periods
      BY <2>1 DEF TaskInv, ClockKept, TickKept, periods
    <2> QED
      BY <2>1, <2>2, TickOnItsWay
  <1>2. ASSUME NEW t \in Tasks, NEW scenario, MakeTick(t, scenario) PROVE TaskInv' /\ TimeInv'
    <2>1. /\ \E n \in {0, 1} : tick' = [open |-> TRUE, read |-> FALSE, task |-> t, at |-> minute,
                                        loads |-> n]
          /\ UNCHANGED <<minute, row, request, periods, counted>>
      BY <1>2 DEF MakeTick
    <2>2. ClockKept' /\ TickKept'
      BY <2>1 DEF TaskInv, ClockKept, TickKept
    <2> QED
      BY <2>1, <2>2, TickOnItsWay
  <1>3. ASSUME ReadTask PROVE TaskInv' /\ TimeInv'
    <2>1. /\ tick.open /\ ~tick.read /\ minute' = tick.at
          /\ tick' = [open |-> TRUE, read |-> TRUE, task |-> tick.task, loads |-> tick.loads,
                      old |-> row[tick.task]]
          /\ UNCHANGED <<row, request, periods, counted>>
      BY <1>3 DEF ReadTask
    <2>2. tick.task \in Tasks /\ tick.loads \in Int /\ IsRow(row[tick.task])
      BY <2>1 DEF TaskInv, TickKept, RowsKept
    <2>3. ClockKept' /\ TickKept'
      BY <2>1, <2>2 DEF TaskInv, ClockKept, TickKept
    <2> QED
      BY <2>1, <2>3, TickOnItsWay
  <1>4. ASSUME FailTick PROVE TaskInv' /\ TimeInv'
    <2>1. tick' = Closed /\ UNCHANGED <<minute, row, request, periods, counted>>
      BY <1>4 DEF FailTick
    <2>2. ClockKept' /\ TickKept'
      BY <2>1 DEF TaskInv, ClockKept, TickKept, Closed
    <2> QED
      BY <2>1, <2>2, TickOnItsWay
  <1>5. ASSUME PassMinute PROVE TaskInv' /\ TimeInv'
    <2>1. minute' = minute + 1 /\ UNCHANGED <<row, tick, request, periods, counted>>
      BY <1>5 DEF PassMinute
    <2>2. ClockKept' /\ TickKept'
      BY <2>1 DEF TaskInv, ClockKept, TickKept
    <2> QED
      BY <2>1, <2>2, TickOnItsWay
  <1> QED
    BY <1>1, <1>2, <1>3, <1>4, <1>5, BeginActionKeeps, CommitActionKeeps, CommitTickKeeps
       DEF TaskNext

\* Nothing of a task is undone by what overlapped with it: its status is the one the
\* last committed request gave it, whatever tick read the row before and committed
\* after, and its progress is the loads that committed ticks counted
\* (EdgePipeline.process keeps the row it read over the whole tick).
THEOREM WorkIsKept == TaskSpec => []NothingUndone
  <1>1. TaskInv => NothingUndone
    BY DEF TaskInv
  <1> QED
    BY <1>1, TaskStart, TaskStep, PTL DEF TaskSpec

\* The time a task's row amounts to, however often the task was paused, blocked and
\* resumed and whenever the clock was set back, is the time it was in progress, short
\* of what a setback hid of a hold, on every task no two requests overlapped on
\* (elapsed_working_minutes, _held_minutes).
THEOREM TimeIsWorked == TaskSpec => []ElapsedIsWorked
  <1>1. TaskInv /\ TimeInv => ElapsedIsWorked
    <2> SUFFICES ASSUME TaskInv, TimeInv, NEW t \in Tasks \ raced
                 PROVE  LET r == row[t] IN
                        /\ r.status = "in_progress" =>
                              Counted(r, minute) = worked[t] + (minute - since[t]) - clipped[t]
                        /\ r.status \in {"paused", "blocked"} =>
                              Counted(r, r.hold) = worked[t] - clipped[t]
                        /\ r.status = "done" => Counted(r, r.end) = worked[t] - clipped[t]
      BY DEF ElapsedIsWorked
    <2>1. AddsUp(row[t], worked[t], since[t], clipped[t])
      BY DEF TimeInv, TimesAddUp
    <2>2. /\ row[t].start \in Int /\ row[t].paused \in Int /\ row[t].blocked \in Int
          /\ worked[t] \in Int /\ since[t] \in Int /\ clipped[t] \in Int /\ minute \in Int
      BY DEF TaskInv, TimeInv, RowsKept, HistoryKept, ClockKept, IsRow
    <2> QED
      BY <2>1, <2>2 DEF AddsUp, Counted
  <1> QED
    BY <1>1, TaskStart, TaskStep, PTL DEF TaskSpec
-----------------------------------------------------------------------------
(***************************************************************************)
(* ShiftRecords.  Of every incident the newest version is on its way or    *)
(* has arrived, numbered above every other; of the rest each copy is what  *)
(* the edge recorded; and while nothing failed and the catalogs agreed,    *)
(* what the edge recommended is what its records map to.                   *)
(***************************************************************************)
Kinds == {"incidents", "events", "results"}
Once == {"events", "results"}   \* recorded once, and never changed

IsFcn(f) == f = [x \in DOMAIN f |-> f[x]]

RecordTypes ==
    /\ DOMAIN edge = Kinds /\ DOMAIN cloud = Kinds
    /\ \A kind \in Kinds : IsFcn(edge[kind]) /\ IsFcn(cloud[kind])
    /\ \A i \in DOMAIN edge.incidents : DOMAIN edge.incidents[i] = {"type", "severity"}
    /\ nextSeq \in Nat
    /\ failed \in BOOLEAN /\ behind \in BOOLEAN

\* Only what the edge has was sent, under the numbers used.
SentFromEdge ==
    /\ \A m \in outbox : m.kind \in Kinds /\ m.id \in DOMAIN edge[m.kind]
                         /\ m.seq \in Nat /\ m.seq < nextSeq
    /\ \A kind \in Kinds : DOMAIN cloud[kind] \subseteq DOMAIN edge[kind]
    /\ \A i \in DOMAIN cloud.incidents :
          cloud.incidents[i].seq \in Nat /\ cloud.incidents[i].seq < nextSeq

\* The versions of an incident on their way and in the cloud.
Versions(i) ==
    {[row |-> m.value, seq |-> m.seq] : m \in {n \in outbox : n.kind = "incidents" /\ n.id = i}}
    \cup {[row |-> cloud.incidents[j].row, seq |-> cloud.incidents[j].seq] :
             j \in DOMAIN cloud.incidents \cap {i}}

NewestTravels ==
    \A i \in DOMAIN edge.incidents :
        \E v \in Versions(i) : /\ v.row = edge.incidents[i]
                               /\ \A w \in Versions(i) : w = v \/ w.seq < v.seq

OnceTravels ==
    \A kind \in Once :
        /\ \A m \in outbox : m.kind = kind => m.value = edge[kind][m.id]
        /\ \A k \in DOMAIN cloud[kind] : cloud[kind][k] = edge[kind][k]
        /\ \A k \in DOMAIN edge[kind] :
              k \in DOMAIN cloud[kind] \/ \E m \in outbox : m.kind = kind /\ m.id = k

\* What calls for training, and the modules a catalog has for it.
SeenIn(incidents, events) ==
    {t \in Sources :
        \/ t[1] = "incident" /\ \E i \in DOMAIN incidents : incidents[i].type = t[2]
        \/ t[1] = "behavior" /\ \E e \in DOMAIN events : events[e] = t[2]}
TrainingFor(map, seen) == {map[s] : s \in seen} \ {NoModule}

TrainingSound ==
    ~failed /\ ~behind => recommended = TrainingFor(catalog, SeenIn(edge.incidents, edge.events))

RecordsInv == RecordTypes /\ SentFromEdge /\ NewestTravels /\ OnceTravels /\ TrainingSound

\* Functions are equal when they agree.
LEMMA SameFcn ==
    ASSUME NEW f, NEW g, IsFcn(f), IsFcn(g), DOMAIN f = DOMAIN g, \A x \in DOMAIN f : f[x] = g[x]
    PROVE  f = g
  BY DEF IsFcn

\* A version is a message or the cloud's copy.
LEMMA VersionIs ==
    \A i : /\ \A v \in Versions(i) :
                 \/ \E m \in outbox : m.kind = "incidents" /\ m.id = i /\ v.row = m.value /\ v.seq = m.seq
                 \/ /\ i \in DOMAIN cloud.incidents
                    /\ v.row = cloud.incidents[i].row /\ v.seq = cloud.incidents[i].seq
           /\ \A m \in outbox : m.kind = "incidents" /\ m.id = i =>
                 [row |-> m.value, seq |-> m.seq] \in Versions(i)
           /\ i \in DOMAIN cloud.incidents =>
                 [row |-> cloud.incidents[i].row, seq |-> cloud.incidents[i].seq] \in Versions(i)
  BY DEF Versions

LEMMA RecordsStart == RecordsInit => RecordsInv
  <1> SUFFICES ASSUME RecordsInit PROVE RecordsInv
    OBVIOUS
  <1>1. /\ outbox = {} /\ nextSeq = 1 /\ recommended = {} /\ failed = FALSE /\ behind = FALSE
        /\ edge = NoRecords /\ cloud = NoRecords
    BY DEF RecordsInit
  <1>2. DOMAIN NoRecords = Kinds /\ \A kind \in Kinds : DOMAIN NoRecords[kind] = {} /\ IsFcn(NoRecords[kind])
    BY DEF NoRecords, Kinds, IsFcn
  <1>3. \A kind \in Kinds : DOMAIN edge[kind] = {} /\ DOMAIN cloud[kind] = {}
    BY <1>1, <1>2
  <1>4. DOMAIN edge.incidents = {} /\ DOMAIN edge.events = {} /\ DOMAIN cloud.incidents = {}
    BY <1>3 DEF Kinds
  <1>5. RecordTypes
    BY <1>1, <1>2, <1>4 DEF RecordTypes
  <1>6. SentFromEdge
    BY <1>1, <1>3, <1>4 DEF SentFromEdge
  <1>7. NewestTravels
    BY <1>4 DEF NewestTravels
  <1>8. OnceTravels
    BY <1>1, <1>3 DEF OnceTravels, Once, Kinds
  <1>9. SeenIn(edge.incidents, edge.events) = {}
    BY <1>4 DEF SeenIn
  <1>10. TrainingSound
    BY <1>1, <1>9 DEF TrainingSound, TrainingFor
  <1> QED
    BY <1>5, <1>6, <1>7, <1>8, <1>10 DEF RecordsInv

\* The edge writes a record and queues it.
LEMMA Written ==
    ASSUME RecordsInv, NEW kind \in Kinds, NEW k, NEW x,
           edge' = [edge EXCEPT ![kind] = With(@, k, x)], Queue(kind, k, x), cloud' = cloud
    PROVE  /\ DOMAIN edge' = Kinds /\ \A c \in Kinds \ {kind} : edge'[c] = edge[c]
           /\ DOMAIN edge'[kind] = DOMAIN edge[kind] \cup {k} /\ edge'[kind][k] = x
           /\ \A j \in DOMAIN edge[kind] \ {k} : edge'[kind][j] = edge[kind][j]
           /\ IsFcn(edge'[kind])
           /\ nextSeq' = nextSeq + 1
  <1>1. DOMAIN edge = Kinds
    BY DEF RecordsInv, RecordTypes
  <1>2. /\ DOMAIN edge' = Kinds /\ edge'[kind] = With(edge[kind], k, x)
        /\ \A c \in Kinds \ {kind} : edge'[c] = edge[c]
    BY <1>1
  <1> DEFINE f == With(edge[kind], k, x)
  <1>3. /\ DOMAIN f = DOMAIN edge[kind] \cup {k} /\ f[k] = x /\ IsFcn(f)
        /\ \A j \in DOMAIN edge[kind] \ {k} : f[j] = edge[kind][j]
    BY DEF With, IsFcn
  <1> HIDE DEF f
  <1>4. nextSeq' = nextSeq + 1
    BY DEF Queue
  <1>5. edge'[kind] = f
    BY <1>2 DEF f
  <1> QED
    BY <1>2, <1>3, <1>4, <1>5

\* The message it queues.
LEMMA Queued ==
    ASSUME NEW kind, NEW k, NEW x, Queue(kind, k, x)
    PROVE  \E n : /\ outbox' = outbox \cup {n}
                  /\ n.kind = kind /\ n.id = k /\ n.seq = nextSeq /\ n.value = x
  <1> DEFINE n == [kind |-> kind, id |-> k, seq |-> nextSeq, value |-> x]
  <1>1. outbox' = outbox \cup {n}
    BY DEF Queue
  <1>2. n.kind = kind /\ n.id = k /\ n.seq = nextSeq /\ n.value = x
    OBVIOUS
  <1> HIDE DEF n
  <1> QED
    BY <1>1, <1>2

LEMMA WrittenSent ==
    ASSUME RecordsInv, NEW kind \in Kinds, NEW k, NEW x,
           edge' = [edge EXCEPT ![kind] = With(@, k, x)], Queue(kind, k, x), cloud' = cloud
    PROVE  SentFromEdge'
  <1>1. /\ \A c \in Kinds \ {kind} : edge'[c] = edge[c]
        /\ DOMAIN edge'[kind] = DOMAIN edge[kind] \cup {k}
        /\ nextSeq' = nextSeq + 1 /\ nextSeq \in Nat
    BY Written DEF RecordsInv, RecordTypes
  <1>2. PICK n : outbox' = outbox \cup {n} /\ n.kind = kind /\ n.id = k /\ n.seq = nextSeq
    BY Queued
  <1>3. \A c \in Kinds : DOMAIN edge[c] \subseteq DOMAIN edge'[c]
    BY <1>1
  <1>4. \A m \in outbox' : m.kind \in Kinds /\ m.id \in DOMAIN edge'[m.kind]
                           /\ m.seq \in Nat /\ m.seq < nextSeq'
    <2> SUFFICES ASSUME NEW m \in outbox'
                 PROVE  m.kind \in Kinds /\ m.id \in DOMAIN edge'[m.kind]
                        /\ m.seq \in Nat /\ m.seq < nextSeq'
      OBVIOUS
    <2>1. CASE m \in outbox
      BY <1>1, <1>3, <2>1 DEF RecordsInv, SentFromEdge
    <2>2. CASE m = n
      BY <1>1, <1>2, <2>2
    <2> QED
      BY <1>2, <2>1, <2>2
  <1>5. \A c \in Kinds : DOMAIN cloud'[c] \subseteq DOMAIN edge'[c]
    BY <1>3 DEF RecordsInv, SentFromEdge
  <1>6. \A i \in DOMAIN cloud'.incidents :
            cloud'.incidents[i].seq \in Nat /\ cloud'.incidents[i].seq < nextSeq'
    BY <1>1 DEF RecordsInv, SentFromEdge
  <1> QED
    BY <1>4, <1>5, <1>6 DEF SentFromEdge

\* An incident is opened, escalated or reported: its newest version is on its way.
LEMMA IncidentWritten ==
    ASSUME RecordsInv, NEW i, NEW x, DOMAIN x = {"type", "severity"},
           edge' = [edge EXCEPT !.incidents = With(@, i, x)], Queue("incidents", i, x),
           cloud' = cloud, failed' \in BOOLEAN, behind' \in BOOLEAN
    PROVE  RecordTypes' /\ SentFromEdge' /\ NewestTravels' /\ OnceTravels'
  <1> DEFINE kind == "incidents"
  <1>1. kind \in Kinds /\ kind \notin Once /\ Once \subseteq Kinds
    BY DEF Kinds, Once
  <1>2. edge' = [edge EXCEPT ![kind] = With(@, i, x)] /\ Queue(kind, i, x)
    OBVIOUS
  <1>3. /\ DOMAIN edge' = Kinds /\ \A c \in Kinds \ {kind} : edge'[c] = edge[c]
        /\ DOMAIN edge'.incidents = DOMAIN edge.incidents \cup {i} /\ edge'.incidents[i] = x
        /\ \A j \in DOMAIN edge.incidents \ {i} : edge'.incidents[j] = edge.incidents[j]
        /\ IsFcn(edge'.incidents) /\ nextSeq' = nextSeq + 1
    BY <1>1, <1>2, Written
  <1>4. PICK n : /\ outbox' = outbox \cup {n}
                 /\ n.kind = kind /\ n.id = i /\ n.seq = nextSeq /\ n.value = x
    BY <1>2, Queued
  <1>5. RecordTypes'
    <2>1. \A c \in Kinds : IsFcn(edge'[c]) /\ IsFcn(cloud'[c])
      BY <1>1, <1>3 DEF RecordsInv, RecordTypes
    <2>2. \A j \in DOMAIN edge'.incidents : DOMAIN edge'.incidents[j] = {"type", "severity"}
      BY <1>3 DEF RecordsInv, RecordTypes
    <2> QED
      BY <1>3, <2>1, <2>2 DEF RecordsInv, RecordTypes
  <1>6. SentFromEdge'
    BY <1>1, WrittenSent
  <1>7. OnceTravels'
    BY <1>1, <1>3, <1>4 DEF RecordsInv, OnceTravels
  <1>8. \A j : \A w \in Versions(j)' : w \in Versions(j) \/ (j = i /\ w = [row |-> x, seq |-> nextSeq])
    BY <1>4 DEF Versions
  <1>9. \A j : Versions(j) \subseteq Versions(j)'
    BY <1>4 DEF Versions
  <1>10. [row |-> x, seq |-> nextSeq] \in Versions(i)'
    BY <1>4 DEF Versions
  <1>11. \A w \in Versions(i) : w.seq < nextSeq
    <2>1. /\ \A m \in outbox : m.seq < nextSeq
          /\ \A j \in DOMAIN cloud.incidents : cloud.incidents[j].seq < nextSeq
      BY DEF RecordsInv, SentFromEdge
    <2> SUFFICES ASSUME NEW w \in Versions(i) PROVE w.seq < nextSeq
      OBVIOUS
    <2>2. \/ \E m \in outbox : w.seq = m.seq
          \/ i \in DOMAIN cloud.incidents /\ w.seq = cloud.incidents[i].seq
      BY VersionIs
    <2> QED
      BY <2>1, <2>2
  <1>12. NewestTravels'
    <2> SUFFICES ASSUME NEW j \in DOMAIN edge'.incidents
                 PROVE  \E v \in Versions(j)' : /\ v.row = edge'.incidents[j]
                                                /\ \A w \in Versions(j)' : w = v \/ w.seq < v.seq
      BY DEF NewestTravels
    <2>1. CASE j = i
      <3> DEFINE v == [row |-> x, seq |-> nextSeq]
      <3>1. v.row = edge'.incidents[j] /\ v.seq = nextSeq
        BY <1>3, <2>1
      <3>2. \A w \in Versions(j)' : w = v \/ w.seq < v.seq
        BY <1>8, <1>11, <2>1, <3>1
      <3> QED
        BY <1>10, <2>1, <3>1, <3>2
    <2>2. CASE j # i
      <3>1. j \in DOMAIN edge.incidents /\ edge'.incidents[j] = edge.incidents[j]
        BY <1>3, <2>2
      <3>2. Versions(j)' = Versions(j)
        BY <1>8, <1>9, <2>2
      <3> QED
        BY <3>1, <3>2 DEF RecordsInv, NewestTravels
    <2> QED
      BY <2>1, <2>2
  <1> QED
    BY <1>5, <1>6, <1>7, <1>12

\* A habit or a result is recorded, once: it is on its way.
LEMMA OnceWritten ==
    ASSUME RecordsInv, NEW kind \in Once, NEW k, NEW x, k \notin DOMAIN edge[kind],
           edge' = [edge EXCEPT ![kind] = With(@, k, x)], Queue(kind, k, x),
           cloud' = cloud, failed' \in BOOLEAN, behind' \in BOOLEAN
    PROVE  RecordTypes' /\ SentFromEdge' /\ NewestTravels' /\ OnceTravels'
  <1>1. kind \in Kinds /\ kind # "incidents" /\ "incidents" \in Kinds /\ Once \subseteq Kinds
    BY DEF Kinds, Once
  <1>2. /\ DOMAIN edge' = Kinds /\ \A c \in Kinds \ {kind} : edge'[c] = edge[c]
        /\ DOMAIN edge'[kind] = DOMAIN edge[kind] \cup {k} /\ edge'[kind][k] = x
        /\ \A j \in DOMAIN edge[kind] \ {k} : edge'[kind][j] = edge[kind][j]
        /\ IsFcn(edge'[kind]) /\ nextSeq' = nextSeq + 1
    BY <1>1, Written
  <1>3. PICK n : /\ outbox' = outbox \cup {n}
                 /\ n.kind = kind /\ n.id = k /\ n.seq = nextSeq /\ n.value = x
    BY Queued
  <1>4. edge'.incidents = edge.incidents
    BY <1>1, <1>2
  <1>5. RecordTypes'
    <2>1. \A c \in Kinds : IsFcn(edge'[c]) /\ IsFcn(cloud'[c])
      BY <1>1, <1>2 DEF RecordsInv, RecordTypes
    <2> QED
      BY <1>2, <1>4, <2>1 DEF RecordsInv, RecordTypes
  <1>6. SentFromEdge'
    BY <1>1, WrittenSent
  <1>7. \A j : Versions(j)' = Versions(j)
    BY <1>1, <1>3 DEF Versions
  <1>8. NewestTravels'
    BY <1>4, <1>7 DEF RecordsInv, NewestTravels
  <1>9. OnceTravels'
    <2> SUFFICES ASSUME NEW c \in Once
                 PROVE  /\ \A m \in outbox' : m.kind = c => m.value = edge'[c][m.id]
                        /\ \A j \in DOMAIN cloud'[c] : cloud'[c][j] = edge'[c][j]
                        /\ \A j \in DOMAIN edge'[c] :
                              j \in DOMAIN cloud'[c] \/ \E m \in outbox' : m.kind = c /\ m.id = j
      BY DEF OnceTravels
    <2>1. /\ \A m \in outbox : m.kind = c => m.id \in DOMAIN edge[c] /\ m.value = edge[c][m.id]
          /\ \A j \in DOMAIN cloud[c] : j \in DOMAIN edge[c] /\ cloud[c][j] = edge[c][j]
          /\ \A j \in DOMAIN edge[c] :
                j \in DOMAIN cloud[c] \/ \E m \in outbox : m.kind = c /\ m.id = j
      BY <1>1 DEF RecordsInv, OnceTravels, SentFromEdge
    <2>2. CASE c # kind
      BY <1>1, <1>2, <1>3, <2>1, <2>2
    <2>3. CASE c = kind
      BY <1>2, <1>3, <2>1, <2>3
    <2> QED
      BY <2>2, <2>3
  <1> QED
    BY <1>5, <1>6, <1>8, <1>9

\* A catalog maps one source more, to at most one module more.
LEMMA OneMore ==
    ASSUME NEW map, NEW seen, NEW s
    PROVE  TrainingFor(map, seen \cup {s}) =
               IF map[s] = NoModule THEN TrainingFor(map, seen)
               ELSE TrainingFor(map, seen) \cup {map[s]}
  BY DEF TrainingFor

\* The training is recommended for a record, unless that fails.
LEMMA RecommendedFor ==
    ASSUME RecordsInv, NEW s, NEW fails \in BOOLEAN, RecommendOrFail(s, fails), catalog' = catalog,
           SeenIn(edge'.incidents, edge'.events) = SeenIn(edge.incidents, edge.events) \cup {s}
    PROVE  failed' \in BOOLEAN /\ behind' \in BOOLEAN /\ TrainingSound'
  <1>1. /\ failed' = (failed \/ (fails /\ Mapped(s) # NoModule))
        /\ behind' = (behind \/ edgeCatalog.map # catalog)
        /\ IF fails THEN recommended' = recommended ELSE Recommend(s)
    BY DEF RecommendOrFail
  <1>2. failed' \in BOOLEAN /\ behind' \in BOOLEAN
    BY <1>1
  <1>3. ASSUME ~failed', ~behind'
        PROVE  recommended' = TrainingFor(catalog, SeenIn(edge'.incidents, edge'.events))
    <2>1. ~failed /\ ~behind /\ edgeCatalog.map = catalog
          /\ (fails => Mapped(s) = NoModule)
      BY <1>1, <1>3
    <2>2. recommended = TrainingFor(catalog, SeenIn(edge.incidents, edge.events))
      BY <2>1 DEF RecordsInv, TrainingSound
    <2>3. Mapped(s) = catalog[s]
      BY <2>1 DEF Mapped
    <2>4. recommended' = IF catalog[s] = NoModule THEN recommended
                         ELSE recommended \cup {catalog[s]}
      BY <1>1, <2>1, <2>3 DEF Recommend
    <2>5. TrainingFor(catalog, SeenIn(edge.incidents, edge.events) \cup {s})
              = IF catalog[s] = NoModule THEN recommended ELSE recommended \cup {catalog[s]}
      BY <2>2, OneMore
    <2> QED
      BY <2>4, <2>5
  <1>4. TrainingSound'
    BY <1>3 DEF TrainingSound
  <1> QED
    BY <1>2, <1>4

\* The listeners see what is opened.
LEMMA OpenIncidentKeeps ==
    ASSUME RecordsInv, NEW i, NEW type \in IncidentTypes, NEW fails \in BOOLEAN,
           OpenIncident(i, type, fails)
    PROVE  RecordsInv'
  <1> DEFINE x == [type |-> type, severity |-> "warning"]
  <1>1. /\ i \notin DOMAIN edge.incidents
        /\ edge' = [edge EXCEPT !.incidents = With(@, i, x)] /\ Queue("incidents", i, x)
        /\ RecommendOrFail(<<"incident", type>>, fails)
        /\ catalog' = catalog /\ cloud' = cloud
    BY DEF OpenIncident, NotifyIncidentListeners, catalogVars
  <1>2. DOMAIN x = {"type", "severity"} /\ x.type = type
    OBVIOUS
  <1> HIDE DEF x
  <1>3. /\ edge'.events = edge.events
        /\ DOMAIN edge'.incidents = DOMAIN edge.incidents \cup {i}
        /\ edge'.incidents[i].type = type
        /\ \A j \in DOMAIN edge.incidents : edge'.incidents[j] = edge.incidents[j]
    <2>1. edge'.incidents = With(edge.incidents, i, x) /\ edge'.events = edge.events
      BY <1>1 DEF RecordsInv, RecordTypes, Kinds
    <2> QED
      BY <1>1, <1>2, <2>1 DEF With
  <1>4. <<"incident", type>> \in Sources
    BY DEF Sources
  <1>5. SeenIn(edge'.incidents, edge'.events)
            = SeenIn(edge.incidents, edge.events) \cup {<<"incident", type>>}
    BY <1>3, <1>4 DEF SeenIn, Sources
  <1>6. failed' \in BOOLEAN /\ behind' \in BOOLEAN /\ TrainingSound'
    BY <1>1, <1>5, RecommendedFor
  <1>7. RecordTypes' /\ SentFromEdge' /\ NewestTravels' /\ OnceTravels'
    BY <1>1, <1>2, <1>6, IncidentWritten
  <1> QED
    BY <1>6, <1>7 DEF RecordsInv

\* An escalation changes no type, and the operator's own reports call for no training.
LEMMA OtherIncidentKeeps ==
    ASSUME RecordsInv, NEW i, Escalate(i) \/ ReportIncident(i) PROVE RecordsInv'
  <1> DEFINE x == IF Escalate(i) THEN [edge.incidents[i] EXCEPT !.severity = "critical"]
                  ELSE [type |-> "manual_report", severity |-> "warning"]
  <1>1. /\ edge' = [edge EXCEPT !.incidents = With(@, i, x)] /\ Queue("incidents", i, x)
        /\ catalog' = catalog /\ cloud' = cloud
        /\ recommended' = recommended /\ failed' = failed /\ behind' = behind
        /\ \/ i \in DOMAIN edge.incidents /\ x = [edge.incidents[i] EXCEPT !.severity = "critical"]
           \/ i \notin DOMAIN edge.incidents /\ x = [type |-> "manual_report", severity |-> "warning"]
    BY DEF Escalate, ReportIncident, catalogVars
  <1> HIDE DEF x
  <1>2. /\ DOMAIN x = {"type", "severity"}
        /\ IF i \in DOMAIN edge.incidents THEN x.type = edge.incidents[i].type
                                           ELSE x.type = "manual_report"
    <2>1. CASE i \in DOMAIN edge.incidents
      <3> DEFINE r == edge.incidents[i]
      <3>1. DOMAIN r = {"type", "severity"} /\ x = [r EXCEPT !.severity = "critical"]
        BY <1>1, <2>1 DEF RecordsInv, RecordTypes
      <3> HIDE DEF r
      <3>2. DOMAIN x = {"type", "severity"} /\ x.type = r.type
        BY <3>1
      <3> QED
        BY <2>1, <3>2 DEF r
    <2>2. CASE i \notin DOMAIN edge.incidents
      <3>1. x = [type |-> "manual_report", severity |-> "warning"]
        BY <1>1, <2>2
      <3>2. DOMAIN x = {"type", "severity"} /\ x.type = "manual_report"
        BY <3>1
      <3> QED
        BY <2>2, <3>2
    <2> QED
      BY <2>1, <2>2
  <1>3. edge'.incidents = With(edge.incidents, i, x) /\ edge'.events = edge.events
    BY <1>1 DEF RecordsInv, RecordTypes, Kinds
  <1>4. /\ DOMAIN edge'.incidents = DOMAIN edge.incidents \cup {i}
        /\ edge'.incidents[i].type = x.type
        /\ \A j \in DOMAIN edge.incidents : edge'.incidents[j].type = edge.incidents[j].type
    BY <1>2, <1>3 DEF With
  <1>5. SeenIn(edge'.incidents, edge'.events) = SeenIn(edge.incidents, edge.events)
    BY <1>2, <1>3, <1>4, RecordsAssumption DEF SeenIn, Sources
  <1>6. TrainingSound'
    BY <1>1, <1>5 DEF RecordsInv, TrainingSound
  <1>7. RecordTypes' /\ SentFromEdge' /\ NewestTravels' /\ OnceTravels'
    BY <1>1, <1>2, IncidentWritten DEF RecordsInv, RecordTypes
  <1> QED
    BY <1>6, <1>7 DEF RecordsInv

LEMMA RecordEventKeeps ==
    ASSUME RecordsInv, NEW e, NEW type \in EventTypes, NEW fails \in BOOLEAN,
           RecordEvent(e, type, fails)
    PROVE  RecordsInv'
  <1>1. /\ e \notin DOMAIN edge.events
        /\ edge' = [edge EXCEPT !.events = With(@, e, type)] /\ Queue("events", e, type)
        /\ RecommendOrFail(<<"behavior", type>>, fails)
        /\ catalog' = catalog /\ cloud' = cloud
    BY DEF RecordEvent, catalogVars
  <1>2. edge'.events = With(edge.events, e, type) /\ edge'.incidents = edge.incidents
    BY <1>1 DEF RecordsInv, RecordTypes, Kinds
  <1>3. /\ DOMAIN edge'.events = DOMAIN edge.events \cup {e} /\ edge'.events[e] = type
        /\ \A j \in DOMAIN edge.events : edge'.events[j] = edge.events[j]
    BY <1>1, <1>2 DEF With
  <1>4. <<"behavior", type>> \in Sources
    BY DEF Sources
  <1>5. SeenIn(edge'.incidents, edge'.events)
            = SeenIn(edge.incidents, edge.events) \cup {<<"behavior", type>>}
    BY <1>2, <1>3, <1>4 DEF SeenIn, Sources
  <1>6. failed' \in BOOLEAN /\ behind' \in BOOLEAN /\ TrainingSound'
    BY <1>1, <1>5, RecommendedFor
  <1>7. "events" \in Once
    BY DEF Once
  <1>8. RecordTypes' /\ SentFromEdge' /\ NewestTravels' /\ OnceTravels'
    BY <1>1, <1>6, <1>7, OnceWritten
  <1> QED
    BY <1>6, <1>8 DEF RecordsInv

LEMMA SubmitQuizKeeps ==
    ASSUME RecordsInv, NEW a, NEW passed, SubmitQuiz(a, passed) PROVE RecordsInv'
  <1>1. /\ a \notin DOMAIN edge.results
        /\ edge' = [edge EXCEPT !.results = With(@, a, passed)] /\ Queue("results", a, passed)
        /\ catalog' = catalog /\ cloud' = cloud
        /\ recommended' = recommended /\ failed' = failed /\ behind' = behind
    BY DEF SubmitQuiz, StoreResult, catalogVars
  <1>2. edge'.incidents = edge.incidents /\ edge'.events = edge.events
    BY <1>1 DEF RecordsInv, RecordTypes, Kinds
  <1>3. TrainingSound'
    BY <1>1, <1>2 DEF RecordsInv, TrainingSound
  <1>4. "results" \in Once /\ failed' \in BOOLEAN /\ behind' \in BOOLEAN
    BY <1>1 DEF Once, RecordsInv, RecordTypes
  <1>5. RecordTypes' /\ SentFromEdge' /\ NewestTravels' /\ OnceTravels'
    BY <1>1, <1>4, OnceWritten
  <1> QED
    BY <1>3, <1>5 DEF RecordsInv

\* The newest copy of an incident is kept, so its newest version is not lost on arrival.
LEMMA ApplyIncidentKeeps ==
    ASSUME RecordsInv, NEW m \in outbox, m.kind = "incidents", outbox' = outbox \ {m},
           cloud' = IF NewestCopy(m)
                    THEN [cloud EXCEPT !.incidents = With(@, m.id, [row |-> m.value, seq |-> m.seq])]
                    ELSE cloud,
           edge' = edge
    PROVE  /\ DOMAIN cloud' = Kinds /\ \A c \in Kinds \ {"incidents"} : cloud'[c] = cloud[c]
           /\ IsFcn(cloud'.incidents) /\ DOMAIN cloud'.incidents \subseteq DOMAIN cloud.incidents \cup {m.id}
           /\ \A i \in DOMAIN cloud'.incidents :
                 cloud'.incidents[i].seq \in {cloud.incidents[j].seq : j \in DOMAIN cloud.incidents \cap {i}}
                                             \cup {m.seq}
           /\ NewestTravels'
  <1> DEFINE x == [row |-> m.value, seq |-> m.seq]
             i == m.id
  <1>1. DOMAIN cloud = Kinds /\ "incidents" \in Kinds /\ IsFcn(cloud.incidents)
    BY DEF RecordsInv, RecordTypes, Kinds
  <1>2. x.row = m.value /\ x.seq = m.seq
    OBVIOUS
  <1>3. x \in Versions(i)
    BY VersionIs
  <1>4. /\ \A v \in Versions(i) : v.seq \in Nat
        /\ m.seq \in Nat /\ i \in DOMAIN edge.incidents
    <2>1. /\ \A n \in outbox : n.seq \in Nat
          /\ \A j \in DOMAIN cloud.incidents : cloud.incidents[j].seq \in Nat
          /\ i \in DOMAIN edge.incidents
      BY DEF RecordsInv, SentFromEdge
    <2> SUFFICES ASSUME NEW v \in Versions(i) PROVE v.seq \in Nat
      BY <2>1
    <2>2. \/ \E n \in outbox : v.seq = n.seq
          \/ i \in DOMAIN cloud.incidents /\ v.seq = cloud.incidents[i].seq
      BY VersionIs
    <2> QED
      BY <2>1, <2>2
  <1>5. PICK v \in Versions(i) : /\ v.row = edge.incidents[i]
                                 /\ \A w \in Versions(i) : w = v \/ w.seq < v.seq
    BY <1>4 DEF RecordsInv, NewestTravels
  <1>6. CASE NewestCopy(m)
    <2>1. /\ cloud'.incidents = With(cloud.incidents, i, x) /\ DOMAIN cloud' = Kinds
          /\ \A c \in Kinds \ {"incidents"} : cloud'[c] = cloud[c]
      BY <1>1, <1>6
    <2> HIDE DEF x
    <2>2. /\ DOMAIN cloud'.incidents = DOMAIN cloud.incidents \cup {i} /\ cloud'.incidents[i] = x
          /\ \A j \in DOMAIN cloud.incidents \ {i} : cloud'.incidents[j] = cloud.incidents[j]
          /\ IsFcn(cloud'.incidents)
      BY <2>1 DEF With, IsFcn
    <2>3. \A j \in DOMAIN edge.incidents \ {i} : Versions(j)' = Versions(j)
      BY <2>2 DEF Versions
    <2>4. Versions(i)' \subseteq Versions(i)
      <3> SUFFICES ASSUME NEW w \in Versions(i)' PROVE w \in Versions(i)
        OBVIOUS
      <3>1. \/ \E n \in outbox : n.kind = "incidents" /\ n.id = i /\ w = [row |-> n.value, seq |-> n.seq]
            \/ w = [row |-> cloud'.incidents[i].row, seq |-> cloud'.incidents[i].seq]
        BY DEF Versions
      <3>2. [row |-> cloud'.incidents[i].row, seq |-> cloud'.incidents[i].seq] = x
        BY <1>2, <2>2 DEF x
      <3> QED
        BY <1>3, <3>1, <3>2 DEF Versions
    <2>5. v \in Versions(i)'
      <3>1. x \in Versions(i)'
        BY <1>2, <2>2 DEF Versions, x
      <3>2. CASE v = x
        BY <3>1, <3>2
      <3>3. CASE v # x
        <4>1. x.seq < v.seq
          BY <1>3, <1>5, <3>3
        <4>2. \/ \E n \in outbox : n.kind = "incidents" /\ n.id = i /\ v = [row |-> n.value, seq |-> n.seq]
              \/ /\ i \in DOMAIN cloud.incidents
                 /\ v = [row |-> cloud.incidents[i].row, seq |-> cloud.incidents[i].seq]
          BY DEF Versions
        <4>3. CASE i \in DOMAIN cloud.incidents /\ v = [row |-> cloud.incidents[i].row, seq |-> cloud.incidents[i].seq]
          <5>1. v.seq = cloud.incidents[i].seq /\ m.seq > cloud.incidents[i].seq
            BY <1>6, <4>3 DEF NewestCopy
          <5> QED
            BY <1>2, <1>4, <4>1, <5>1
        <4>4. CASE \E n \in outbox : n.kind = "incidents" /\ n.id = i /\ v = [row |-> n.value, seq |-> n.seq]
          <5>1. PICK n \in outbox : n.kind = "incidents" /\ n.id = i /\ v = [row |-> n.value, seq |-> n.seq]
            BY <4>4
          <5>2. n # m
            BY <1>2, <3>3, <5>1 DEF x
          <5>3. n \in outbox'
            BY <5>1, <5>2
          <5> QED
            BY <5>1, <5>3 DEF Versions
        <4> QED
          BY <4>2, <4>3, <4>4
      <3> QED
        BY <3>2, <3>3
    <2>6. NewestTravels'
      <3> SUFFICES ASSUME NEW j \in DOMAIN edge.incidents
                   PROVE  \E u \in Versions(j)' : /\ u.row = edge.incidents[j]
                                                  /\ \A w \in Versions(j)' : w = u \/ w.seq < u.seq
        BY DEF NewestTravels
      <3>1. CASE j = i
        BY <1>5, <2>4, <2>5, <3>1
      <3>2. CASE j # i
        BY <2>3, <3>2 DEF RecordsInv, NewestTravels
      <3> QED
        BY <3>1, <3>2
    <2>7. \A j \in DOMAIN cloud'.incidents :
              cloud'.incidents[j].seq \in {cloud.incidents[k].seq : k \in DOMAIN cloud.incidents \cap {j}}
                                          \cup {m.seq}
      BY <1>2, <2>2
    <2> QED
      BY <2>1, <2>2, <2>6, <2>7
  <1>7. CASE ~NewestCopy(m)
    <2>1. cloud' = cloud /\ i \in DOMAIN cloud.incidents /\ ~(m.seq > cloud.incidents[i].seq)
      BY <1>7 DEF NewestCopy
    <2> DEFINE y == [row |-> cloud.incidents[i].row, seq |-> cloud.incidents[i].seq]
    <2>2. y \in Versions(i) /\ y.seq = cloud.incidents[i].seq
      BY <2>1, VersionIs
    <2>3. \A j : Versions(j)' \subseteq Versions(j)
      BY <2>1 DEF Versions
    <2>4. \A j \in DOMAIN edge.incidents \ {i} : Versions(j)' = Versions(j)
      BY <2>1 DEF Versions
    <2>5. y \in Versions(i)'
      BY <2>1 DEF Versions
    <2> HIDE DEF x, y
    <2>6. v = y \/ v # x
      <3>1. CASE v = x
        BY <1>2, <1>4, <1>5, <2>1, <2>2, <3>1
      <3> QED
        BY <3>1
    <2>7. v \in Versions(i)'
      <3>1. CASE v # x
        <4>1. \/ \E n \in outbox : n.kind = "incidents" /\ n.id = i /\ v = [row |-> n.value, seq |-> n.seq]
              \/ v = y
          BY DEF Versions, y
        <4>2. CASE \E n \in outbox : n.kind = "incidents" /\ n.id = i /\ v = [row |-> n.value, seq |-> n.seq]
          <5>1. PICK n \in outbox : n.kind = "incidents" /\ n.id = i /\ v = [row |-> n.value, seq |-> n.seq]
            BY <4>2
          <5>2. n # m
            BY <3>1, <5>1 DEF x
          <5>3. n \in outbox'
            BY <5>1, <5>2
          <5> QED
            BY <5>1, <5>3 DEF Versions
        <4> QED
          BY <2>5, <4>1, <4>2
      <3> QED
        BY <2>5, <2>6, <3>1
    <2>8. NewestTravels'
      <3> SUFFICES ASSUME NEW j \in DOMAIN edge.incidents
                   PROVE  \E u \in Versions(j)' : /\ u.row = edge.incidents[j]
                                                  /\ \A w \in Versions(j)' : w = u \/ w.seq < u.seq
        BY DEF NewestTravels
      <3>1. CASE j = i
        BY <1>5, <2>3, <2>7, <3>1
      <3>2. CASE j # i
        BY <2>4, <3>2 DEF RecordsInv, NewestTravels
      <3> QED
        BY <3>1, <3>2
    <2> QED
      BY <1>1, <2>1, <2>8
  <1> QED
    BY <1>6, <1>7

\* A habit or a result is inserted once, and is what the edge recorded.
LEMMA ApplyOnceKeeps ==
    ASSUME RecordsInv, NEW m \in outbox, m.kind # "incidents", outbox' = outbox \ {m},
           cloud' = IF Inserts(m) THEN [cloud EXCEPT ![m.kind] = With(@, m.id, m.value)] ELSE cloud
    PROVE  /\ m.kind \in Once /\ DOMAIN cloud' = Kinds
           /\ \A c \in Kinds \ {m.kind} : cloud'[c] = cloud[c]
           /\ IsFcn(cloud'[m.kind]) /\ DOMAIN cloud'[m.kind] = DOMAIN cloud[m.kind] \cup {m.id}
           /\ \A k \in DOMAIN cloud'[m.kind] : cloud'[m.kind][k] = edge[m.kind][k]
  <1> DEFINE kind == m.kind
  <1>1. kind \in Once /\ kind \in Kinds
    BY DEF RecordsInv, SentFromEdge, Kinds, Once
  <1>2. DOMAIN cloud = Kinds /\ IsFcn(cloud[kind])
    BY <1>1 DEF RecordsInv, RecordTypes
  <1>3. /\ m.value = edge[kind][m.id]
        /\ \A k \in DOMAIN cloud[kind] : cloud[kind][k] = edge[kind][k]
    BY <1>1 DEF RecordsInv, OnceTravels
  <1>4. CASE Inserts(m)
    <2> DEFINE f == With(cloud[kind], m.id, m.value)
    <2>1. /\ DOMAIN f = DOMAIN cloud[kind] \cup {m.id} /\ f[m.id] = m.value /\ IsFcn(f)
          /\ \A k \in DOMAIN cloud[kind] \ {m.id} : f[k] = cloud[kind][k]
      BY DEF With, IsFcn
    <2>2. /\ cloud'[kind] = f /\ DOMAIN cloud' = Kinds
          /\ \A c \in Kinds \ {kind} : cloud'[c] = cloud[c]
      BY <1>1, <1>2, <1>4
    <2> HIDE DEF f
    <2>3. \A k \in DOMAIN f : f[k] = edge[kind][k]
      BY <1>3, <2>1
    <2> QED
      BY <1>1, <2>1, <2>2, <2>3
  <1>5. CASE ~Inserts(m)
    <2>1. cloud' = cloud /\ m.id \in DOMAIN cloud[kind]
      BY <1>5 DEF Inserts
    <2> QED
      BY <1>1, <1>2, <1>3, <2>1
  <1> QED
    BY <1>4, <1>5

LEMMA ApplyRecordKeeps ==
    ASSUME RecordsInv, NEW m \in outbox, ApplyRecord(m) PROVE RecordsInv'
  <1>1. /\ outbox' = outbox \ {m}
        /\ cloud' = IF m.kind = "incidents"
                    THEN IF NewestCopy(m)
                         THEN [cloud EXCEPT !.incidents = With(@, m.id, [row |-> m.value, seq |-> m.seq])]
                         ELSE cloud
                    ELSE IF Inserts(m) THEN [cloud EXCEPT ![m.kind] = With(@, m.id, m.value)]
                         ELSE cloud
        /\ edge' = edge /\ recommended' = recommended /\ nextSeq' = nextSeq
        /\ failed' = failed /\ behind' = behind /\ catalog' = catalog
    BY DEF ApplyRecord, catalogVars
  <1>2. m.kind \in Kinds /\ m.id \in DOMAIN edge[m.kind] /\ m.seq \in Nat /\ m.seq < nextSeq
    BY DEF RecordsInv, SentFromEdge
  <1>3. TrainingSound'
    BY <1>1 DEF RecordsInv, TrainingSound
  <1>4. \A n \in outbox' : n \in outbox
    BY <1>1
  <1>5. Once \subseteq Kinds /\ "incidents" \in Kinds /\ "incidents" \notin Once
    BY DEF Once, Kinds
  <1>6. CASE m.kind = "incidents"
    <2>1. /\ DOMAIN cloud' = Kinds /\ \A c \in Kinds \ {"incidents"} : cloud'[c] = cloud[c]
          /\ IsFcn(cloud'.incidents) /\ DOMAIN cloud'.incidents \subseteq DOMAIN cloud.incidents \cup {m.id}
          /\ \A i \in DOMAIN cloud'.incidents :
                cloud'.incidents[i].seq \in {cloud.incidents[j].seq : j \in DOMAIN cloud.incidents \cap {i}}
                                            \cup {m.seq}
          /\ NewestTravels'
      BY <1>1, <1>6, ApplyIncidentKeeps
    <2>2. RecordTypes'
      BY <1>1, <2>1 DEF RecordsInv, RecordTypes
    <2>3. \A i \in DOMAIN cloud'.incidents :
              cloud'.incidents[i].seq \in Nat /\ cloud'.incidents[i].seq < nextSeq
      BY <1>2, <2>1 DEF RecordsInv, SentFromEdge
    <2>4. \A c \in Kinds : DOMAIN cloud'[c] \subseteq DOMAIN edge[c]
      BY <1>2, <1>6, <2>1 DEF RecordsInv, SentFromEdge
    <2>5. SentFromEdge'
      BY <1>1, <1>4, <2>3, <2>4 DEF RecordsInv, SentFromEdge
    <2>6. OnceTravels'
      <3>1. \A c \in Once : cloud'[c] = cloud[c]
        BY <1>5, <2>1
      <3>2. \A c \in Once : \A k : (\E n \in outbox : n.kind = c /\ n.id = k)
                                   => \E n \in outbox' : n.kind = c /\ n.id = k
        BY <1>1, <1>5, <1>6
      <3> QED
        BY <1>1, <1>4, <3>1, <3>2 DEF RecordsInv, OnceTravels
    <2> QED
      BY <1>3, <2>1, <2>2, <2>5, <2>6 DEF RecordsInv
  <1>7. CASE m.kind # "incidents"
    <2>1. /\ m.kind \in Once /\ DOMAIN cloud' = Kinds
          /\ \A c \in Kinds \ {m.kind} : cloud'[c] = cloud[c]
          /\ IsFcn(cloud'[m.kind]) /\ DOMAIN cloud'[m.kind] = DOMAIN cloud[m.kind] \cup {m.id}
          /\ \A k \in DOMAIN cloud'[m.kind] : cloud'[m.kind][k] = edge[m.kind][k]
      BY <1>1, <1>7, ApplyOnceKeeps
    <2>2. cloud'.incidents = cloud.incidents
      BY <1>5, <1>7, <2>1
    <2>3. RecordTypes'
      BY <1>1, <2>1 DEF RecordsInv, RecordTypes
    <2>4. SentFromEdge'
      BY <1>1, <1>2, <1>4, <2>1, <2>2 DEF RecordsInv, SentFromEdge
    <2>5. \A i : Versions(i)' = Versions(i)
      BY <1>1, <1>7, <2>2 DEF Versions
    <2>6. NewestTravels'
      BY <1>1, <2>5 DEF RecordsInv, NewestTravels
    <2>7. OnceTravels'
      <3> SUFFICES ASSUME NEW c \in Once
                   PROVE  /\ \A n \in outbox' : n.kind = c => n.value = edge[c][n.id]
                          /\ \A k \in DOMAIN cloud'[c] : cloud'[c][k] = edge[c][k]
                          /\ \A k \in DOMAIN edge[c] :
                                k \in DOMAIN cloud'[c] \/ \E n \in outbox' : n.kind = c /\ n.id = k
        BY <1>1 DEF OnceTravels
      <3>1. /\ \A n \in outbox : n.kind = c => n.value = edge[c][n.id]
            /\ \A k \in DOMAIN cloud[c] : cloud[c][k] = edge[c][k]
            /\ \A k \in DOMAIN edge[c] :
                  k \in DOMAIN cloud[c] \/ \E n \in outbox : n.kind = c /\ n.id = k
        BY DEF RecordsInv, OnceTravels
      <3>2. CASE c = m.kind
        BY <1>1, <2>1, <3>1, <3>2
      <3>3. CASE c # m.kind
        BY <1>1, <1>5, <2>1, <3>1, <3>3
      <3> QED
        BY <3>2, <3>3
    <2> QED
      BY <1>3, <2>3, <2>4, <2>6, <2>7 DEF RecordsInv
  <1> QED
    BY <1>6, <1>7

\* The catalog's way to the edge, and where the machine is, leave the records alone.
LEMMA RecordsAside ==
    ASSUME RecordsInv, UNCHANGED <<edge, recommended, outbox, nextSeq, cloud>>,
           failed' \in BOOLEAN, behind' \in BOOLEAN, TrainingSound'
    PROVE  RecordsInv'
  <1>1. RecordTypes' /\ SentFromEdge'
    BY DEF RecordsInv, RecordTypes, SentFromEdge
  <1>2. NewestTravels'
    BY DEF RecordsInv, NewestTravels, Versions
  <1>3. OnceTravels'
    BY DEF RecordsInv, OnceTravels
  <1> QED
    BY <1>1, <1>2, <1>3 DEF RecordsInv

LEMMA PublishKeeps ==
    ASSUME RecordsInv, NEW map, PublishCatalog(map) PROVE RecordsInv'
  <1>1. /\ catalog' = map /\ failed' = failed
        /\ behind' = (behind \/ (Anything(edge) /\ map # catalog))
        /\ UNCHANGED <<edge, recommended, outbox, nextSeq, cloud>>
    BY DEF PublishCatalog
  <1>2. failed' \in BOOLEAN /\ behind' \in BOOLEAN
    BY <1>1 DEF RecordsInv, RecordTypes
  <1>3. ~Anything(edge) => SeenIn(edge.incidents, edge.events) = {}
    BY DEF Anything, SeenIn
  <1>4. SeenIn(edge.incidents, edge.events) = {} =>
            TrainingFor(map, SeenIn(edge.incidents, edge.events))
                = TrainingFor(catalog, SeenIn(edge.incidents, edge.events))
    BY DEF TrainingFor
  <1>5. ~behind' => ~behind /\ (~Anything(edge) \/ map = catalog)
    BY <1>1
  <1>6. TrainingSound'
    BY <1>1, <1>3, <1>4, <1>5 DEF RecordsInv, TrainingSound
  <1> QED
    BY <1>1, <1>2, <1>6, RecordsAside

LEMMA RecordsStep == RecordsInv /\ [RecordsNext]_recordVars => RecordsInv'
  <1> SUFFICES ASSUME RecordsInv, [RecordsNext]_recordVars PROVE RecordsInv'
    OBVIOUS
  <1>1. ASSUME UNCHANGED <<catalog, edge, recommended, outbox, nextSeq, cloud, failed, behind>>
        PROVE  RecordsInv'
    <2>1. TrainingSound' /\ failed' \in BOOLEAN /\ behind' \in BOOLEAN
      BY <1>1 DEF RecordsInv, RecordTypes, TrainingSound
    <2> QED
      BY <1>1, <2>1, RecordsAside
  <1>2. UNCHANGED recordVars =>
            UNCHANGED <<catalog, edge, recommended, outbox, nextSeq, cloud, failed, behind>>
    BY DEF recordVars
  <1>3. SeeMachine => UNCHANGED <<catalog, edge, recommended, outbox, nextSeq, cloud, failed, behind>>
    BY DEF SeeMachine, catalogVars
  <1>4. \A m \in contents : ApplyContent(m) =>
            UNCHANGED <<catalog, edge, recommended, outbox, nextSeq, cloud, failed, behind>>
    BY DEF ApplyContent
  <1> QED
    BY <1>1, <1>2, <1>3, <1>4, PublishKeeps, OpenIncidentKeeps, OtherIncidentKeeps,
       RecordEventKeeps, SubmitQuizKeeps, ApplyRecordKeeps DEF RecordsNext

\* When everything has arrived, in whatever order, the admin reads of a shift what the
\* operator reads: the counts always, the training as well unless a recommendation
\* failed, or the catalog changed or was on its way while the shift made its records
\* (edge_shift_report and cloud_shift_report).
THEOREM OneReport == RecordsSpec => []ReportsAgree
  <1>1. RecordsInv => ReportsAgree
    <2> SUFFICES ASSUME RecordsInv, outbox = {}
                 PROVE  /\ [CloudReport EXCEPT !.training = {}] = [EdgeReport EXCEPT !.training = {}]
                        /\ ~failed /\ ~behind => CloudReport.training = EdgeReport.training
                        /\ cloud.results = edge.results
      BY DEF ReportsAgree
    <2>1. \A kind \in Kinds : IsFcn(edge[kind]) /\ IsFcn(cloud[kind])
      BY DEF RecordsInv, RecordTypes
    <2>2. ASSUME NEW kind \in Once PROVE cloud[kind] = edge[kind]
      <3>1. \A k \in DOMAIN cloud[kind] : cloud[kind][k] = edge[kind][k]
        BY DEF RecordsInv, OnceTravels
      <3>2. DOMAIN edge[kind] = DOMAIN cloud[kind]
        BY DEF RecordsInv, OnceTravels, SentFromEdge, Once, Kinds
      <3>3. IsFcn(edge[kind]) /\ IsFcn(cloud[kind])
        BY <2>1 DEF Once, Kinds
      <3> QED
        BY <3>1, <3>2, <3>3, SameFcn
    <2>3. cloud.events = edge.events /\ cloud.results = edge.results
      BY <2>2 DEF Once
    <2>4. CloudIncidents = edge.incidents
      <3>1. ASSUME NEW i \in DOMAIN edge.incidents
            PROVE  i \in DOMAIN cloud.incidents /\ cloud.incidents[i].row = edge.incidents[i]
        <4>1. PICK v \in Versions(i) : v.row = edge.incidents[i]
          BY DEF RecordsInv, NewestTravels
        <4> QED
          BY <4>1, VersionIs
      <3>2. DOMAIN CloudIncidents = DOMAIN edge.incidents
        BY <3>1 DEF CloudIncidents, RecordsInv, SentFromEdge, Kinds
      <3>3. \A i \in DOMAIN edge.incidents : CloudIncidents[i] = edge.incidents[i]
        BY <3>1 DEF CloudIncidents
      <3>4. IsFcn(CloudIncidents)
        BY DEF CloudIncidents, IsFcn
      <3>5. IsFcn(edge.incidents)
        BY <2>1 DEF Kinds
      <3> QED
        BY <3>2, <3>3, <3>4, <3>5, SameFcn
    <2>5. DerivedTraining = TrainingFor(catalog, SeenIn(edge.incidents, edge.events))
      BY <2>3, <2>4 DEF DerivedTraining, TrainingFor, SeenIn
    <2>6. /\ CloudReport = ReportOf(edge.incidents, edge.events, DerivedTraining)
          /\ EdgeReport = ReportOf(edge.incidents, edge.events, recommended)
      BY <2>3, <2>4 DEF CloudReport, EdgeReport
    <2>7. ASSUME NEW t
          PROVE  /\ ReportOf(edge.incidents, edge.events, t).training = t
                 /\ [ReportOf(edge.incidents, edge.events, t) EXCEPT !.training = {}]
                        = ReportOf(edge.incidents, edge.events, {})
      <3>1. \E total, critical, types, behavior : \A u : ReportOf(edge.incidents, edge.events, u)
                = [total |-> total, critical |-> critical, types |-> types, behavior |-> behavior,
                   training |-> u]
        BY DEF ReportOf
      <3>2. PICK total, critical, types, behavior : \A u : ReportOf(edge.incidents, edge.events, u)
                = [total |-> total, critical |-> critical, types |-> types, behavior |-> behavior,
                   training |-> u]
        BY <3>1
      <3> DEFINE R(u) == [total |-> total, critical |-> critical, types |-> types,
                          behavior |-> behavior, training |-> u]
      <3>3. R(t).training = t /\ [R(t) EXCEPT !.training = {}] = R({})
        OBVIOUS
      <3>4. ReportOf(edge.incidents, edge.events, t) = R(t)
            /\ ReportOf(edge.incidents, edge.events, {}) = R({})
        BY <3>2
      <3> HIDE DEF R
      <3> QED
        BY <3>3, <3>4
    <2>8. ~failed /\ ~behind => DerivedTraining = recommended
      BY <2>5 DEF RecordsInv, TrainingSound
    <2> QED
      BY <2>3, <2>6, <2>7, <2>8
  <1> QED
    BY <1>1, RecordsStart, RecordsStep, PTL DEF RecordsSpec

-----------------------------------------------------------------------------
(***************************************************************************)
(* RuleStateMachine, for every kind of rule, every debounce, grace,        *)
(* clearing and cooldown time and every spacing of the ticks: the          *)
(* invariant RuleInv, what an open and a close have behind them, how long  *)
(* a hazard can go without an incident, that the machine keeps the         *)
(* contract of HazardLifecycle, and what raises a severity.                *)
(***************************************************************************)
Levels == {WarningClear, CriticalClear}

-----------------------------------------------------------------------------
\* What a tick does to the history of the readings.
LEMMA ObserveType ==
    ASSUME RuleInv, NEW r \in Readings, NEW dt \in Steps, Tick(r, dt)
    PROVE  /\ ts' = ts + dt /\ ts' \in Nat /\ dt \in 1 .. Longest
           /\ reading' = r /\ r \in Int
           /\ heldSince' \in Times /\ heldSince' <= ts'
           /\ below' \in [Levels -> Times] /\ \A v \in Levels : below'[v] <= ts'
           /\ lastClosed' \in Times /\ lastClosed' <= ts'
<1> USE RuleAssumption DEF Null
<1>1. ts \in Nat /\ dt \in 1 .. Longest
  BY DEF RuleInv, TypeOK
<1>2. ts' = ts + dt /\ ts' \in Nat /\ dt \in 1 .. Longest
  BY <1>1 DEF Tick
<1>3. reading' = r /\ r \in Int
  BY DEF Tick, Observe, Readings, Unknown, CriticalTrigger, Present
<1>4. heldSince' \in Times /\ heldSince' <= ts'
  BY <1>2 DEF Tick, Observe, RuleInv, TypeOK, Times
<1>5. below' \in [Levels -> Times] /\ \A v \in Levels : below'[v] <= ts'
  <2>1. DOMAIN below = Levels /\ \A v \in Levels : below[v] \in Times /\ below[v] <= ts
    BY DEF RuleInv, TypeOK, Levels
  <2>2. below' = [v \in Levels |-> IF r = Unknown \/ r >= v THEN Null
                                   ELSE IF below[v] = Null THEN ts' ELSE below[v]]
    BY <2>1 DEF Tick, Observe
  <2>3. \A v \in Levels : (IF r = Unknown \/ r >= v THEN Null
                           ELSE IF below[v] = Null THEN ts' ELSE below[v])
                               \in {x \in Times : x <= ts'}
    BY <1>1, <1>2, <2>1 DEF Times
  <2> QED BY <2>2, <2>3
<1>6. lastClosed' \in Times /\ lastClosed' <= ts'
  BY <1>2 DEF Tick, Observe, RuleInv, TypeOK, Times
<1> QED BY <1>2, <1>3, <1>4, <1>5, <1>6

\* A reading the machine takes for the hazard is past the warning trigger
\* unless an incident is open; one it takes for clear is below the clear value.
LEMMA HeldReading ==
    ASSUME RuleInv, NEW r \in Readings, NEW dt \in Steps, Tick(r, dt),
           ~InIncident, r # Unknown
    PROVE  /\ Condition(r) => /\ heldSince' # Null
                              /\ heldSince' = IF heldSince = Null THEN ts' ELSE heldSince
           /\ ~Condition(r) => heldSince' = Null
<1> USE RuleAssumption DEF Null, WarningTrigger, Present, Unknown
<1>1. ts' \in Nat /\ r \in Int
  BY ObserveType
<1>2. Condition(r) <=> r >= WarningTrigger
  BY <1>1 DEF Condition, Limit, Readings
<1> QED BY <1>1, <1>2 DEF Tick, Observe

LEMMA ClearReading ==
    ASSUME RuleInv, NEW r \in Readings, NEW dt \in Steps, Tick(r, dt),
           InIncident, r # Unknown, ~Condition(r)
    PROVE  /\ below'[ClearValue] = IF below[ClearValue] = Null THEN ts' ELSE below[ClearValue]
           /\ ~Critical(r)
           /\ Kind # "hysteresis" =>
                 \A v \in Levels : below'[v] = IF below[v] = Null THEN ts' ELSE below[v]
<1> USE RuleAssumption DEF Null, Present, Unknown, Levels, WarningClear, CriticalClear,
                           CriticalTrigger
<1>1. r \in Int /\ DOMAIN below = Levels
  BY ObserveType DEF RuleInv, TypeOK
<1>2. \A v \in Levels : below'[v] = IF r = Unknown \/ r >= v THEN Null
                                    ELSE IF below[v] = Null THEN ts' ELSE below[v]
  BY <1>1 DEF Tick, Observe
<1>3. ClearValue \in Levels
  BY DEF ClearValue
<1>4. CASE Kind = "hysteresis"
  <2>1. r < ClearValue
    BY <1>1, <1>4 DEF Condition, Limit, ClearValue
  <2>2. ~Critical(r)
    BY <1>1, <1>4, <2>1 DEF Critical, ClearValue
  <2> QED BY <1>1, <1>2, <1>3, <1>4, <2>1, <2>2
<1>5. CASE Kind # "hysteresis"
  <2>1. r = 0
    BY <1>5 DEF Condition, Readings
  <2>2. ~Critical(r)
    BY <1>5, <2>1 DEF Critical
  <2> QED BY <1>2, <1>3, <2>1, <2>2
<1> QED BY <1>4, <1>5

\* A pending hazard that is due has been held for the whole hold time.
LEMMA DueIsHeld ==
    ASSUME TypeOK, NEW t \in Nat, pendingSince \in Nat
    PROVE  Due(t) <=> t - pendingSince >= Hold
BY RuleAssumption DEF Due, Hold, TypeOK

-----------------------------------------------------------------------------
\* The invariant, one handler at a time.
StateInv == PendingInv /\ ClearingInv /\ ClosedInv /\ IdleInv

LEMMA IdleStep ==
    ASSUME RuleInv, NEW r \in Readings, NEW dt \in Steps, Tick(r, dt),
           r # Unknown, FromIdle(r, ts')
    PROVE  TypeOK' /\ StateInv'
<1> USE RuleAssumption DEF Null
<1>1. ~InIncident
  BY DEF FromIdle, InIncident
<1>2. /\ ts' = ts + dt /\ ts' \in Nat /\ dt \in 1 .. Longest /\ ts \in Nat
      /\ heldSince \in Times /\ heldSince <= ts /\ lastClosed \in Times /\ lastClosed <= ts
  BY ObserveType DEF RuleInv, TypeOK
<1>3. TypeOK'
  BY <1>2, ObserveType DEF TypeOK, RuleInv, FromIdle, Quietly, Times, Levels
<1>4. lastClosed' = lastClosed
  BY DEF Tick, Observe, FromIdle, Quietly
<1>5. CASE Condition(r)
  <2>1. heldSince' # Null /\ heldSince' = IF heldSince = Null THEN ts' ELSE heldSince
    BY <1>1, <1>5, HeldReading
  <2>2. state' = "pending" /\ pendingSince' = ts'
    BY <1>5 DEF FromIdle
  <2>3. /\ lastClosed # Null => ts >= lastClosed + Cooldown
        /\ ~SensorFails /\ heldSince # Null => ts - QuietSince <= Cooldown + Longest
    BY DEF RuleInv, IdleInv, FromIdle
  <2>4. PendingInv'
    <3>1. lastClosed' # Null => pendingSince' >= lastClosed' + Cooldown
      BY <1>2, <1>4, <2>2, <2>3 DEF Times
    <3>2. ~SensorFails => pendingSince' - QuietSince' <= Cooldown + 2 * Longest
      BY <1>2, <1>4, <2>1, <2>2, <2>3 DEF Times, QuietSince
    <3> QED BY <1>2, <2>1, <2>2, <3>1, <3>2 DEF PendingInv, Times
  <2> QED BY <1>3, <2>2, <2>4 DEF StateInv, ClearingInv, ClosedInv, IdleInv
<1>6. CASE ~Condition(r)
  <2>1. heldSince' = Null
    BY <1>1, <1>6, HeldReading
  <2>2. state' = "idle"
    BY <1>6 DEF FromIdle
  <2>3. lastClosed # Null => ts >= lastClosed + Cooldown
    BY DEF RuleInv, IdleInv, FromIdle
  <2> QED BY <1>2, <1>3, <1>4, <2>1, <2>2, <2>3
          DEF StateInv, PendingInv, ClearingInv, ClosedInv, IdleInv, Times
<1> QED BY <1>5, <1>6

LEMMA PendingStep ==
    ASSUME RuleInv, NEW r \in Readings, NEW dt \in Steps, Tick(r, dt),
           r # Unknown, FromPending(r, ts')
    PROVE  /\ TypeOK' /\ StateInv'
           /\ event' = "opened" =>
                 /\ heldSince' # Null /\ ts' - heldSince' >= Hold
                 /\ lastClosed # Null => ts' >= lastClosed + Cooldown + Hold
<1> USE RuleAssumption DEF Null
<1>1. ~InIncident /\ state = "pending"
  BY DEF FromPending, InIncident
<1>2. /\ ts' = ts + dt /\ ts' \in Nat /\ dt \in 1 .. Longest /\ ts \in Nat
      /\ heldSince \in Times /\ heldSince <= ts /\ lastClosed \in Times /\ lastClosed <= ts
      /\ Hold \in Nat
  BY ObserveType DEF RuleInv, TypeOK, Hold
<1>3. /\ pendingSince \in Nat /\ pendingSince <= ts
      /\ heldSince # Null /\ heldSince <= pendingSince
      /\ lastClosed # Null => pendingSince >= lastClosed + Cooldown
      /\ ~SensorFails => pendingSince - QuietSince <= Cooldown + 2 * Longest
  BY <1>1 DEF RuleInv, TypeOK, PendingInv, Times
<1>4. window' \subseteq Nat /\ severity' \in {"warning", "critical"}
  <2>1. RecordAndCheck(ts', OpeningSeverity(r, ts')) =>
            window' \subseteq Nat /\ severity' \in {"warning", "critical"}
    BY <1>2 DEF RecordAndCheck, Trimmed, OpeningSeverity, RuleInv, TypeOK
  <2> QED BY <2>1 DEF FromPending, RuleInv, TypeOK
<1>5. TypeOK'
  BY <1>2, <1>4, ObserveType DEF TypeOK, RuleInv, FromPending, Quietly, Times, Levels
<1>6. lastClosed' = lastClosed
  BY DEF Tick, Observe, FromPending, Quietly
<1>7. Due(ts') <=> ts' - pendingSince >= Hold
  BY <1>2, <1>3, DueIsHeld DEF RuleInv
<1>8. CASE ~Condition(r)
  <2>1. state' = "idle" /\ event' = "none" /\ heldSince' = Null
    BY <1>1, <1>8, HeldReading DEF FromPending, Quietly
  <2> QED BY <1>2, <1>3, <1>5, <1>6, <2>1
          DEF StateInv, PendingInv, ClearingInv, ClosedInv, IdleInv, Times
<1>9. CASE Condition(r) /\ ~Due(ts')
  <2>1. /\ state' = "pending" /\ event' = "none" /\ pendingSince' = pendingSince
        /\ heldSince' = heldSince
    BY <1>1, <1>3, <1>9, HeldReading DEF FromPending, Quietly
  <2>2. QuietSince' = QuietSince
    BY <1>6, <2>1 DEF QuietSince
  <2>3. PendingInv'
    BY <1>2, <1>3, <1>6, <1>7, <1>9, <2>1, <2>2 DEF PendingInv, Hold
  <2> QED BY <1>5, <2>1, <2>3 DEF StateInv, ClearingInv, ClosedInv, IdleInv
<1>10. CASE Condition(r) /\ Due(ts')
  <2>1. state' = "active" /\ heldSince' = heldSince
    BY <1>1, <1>3, <1>10, HeldReading DEF FromPending
  <2>2. ts' - heldSince' >= Hold /\ (lastClosed # Null => ts' >= lastClosed + Cooldown + Hold)
    BY <1>2, <1>3, <1>7, <1>10, <2>1 DEF Times
  <2> QED BY <1>3, <1>5, <2>1, <2>2
          DEF StateInv, PendingInv, ClearingInv, ClosedInv, IdleInv
<1> QED BY <1>8, <1>9, <1>10

LEMMA ActiveStep ==
    ASSUME RuleInv, NEW r \in Readings, NEW dt \in Steps, Tick(r, dt),
           r # Unknown, FromActive(r, ts')
    PROVE  TypeOK' /\ StateInv'
<1> USE RuleAssumption DEF Null
<1>1. InIncident /\ state = "active"
  BY DEF FromActive, InIncident
<1>2. ts' \in Nat /\ below' \in [Levels -> Times] /\ below \in [Levels -> Times] /\ ts \in Nat
  BY ObserveType DEF RuleInv, TypeOK, Levels
<1>3. TypeOK'
  BY <1>2, ObserveType DEF TypeOK, RuleInv, FromActive, Quietly, Times, Levels
<1>4. CASE Condition(r)
  BY <1>1, <1>3, <1>4
     DEF FromActive, StateInv, PendingInv, ClearingInv, ClosedInv, IdleInv
<1>5. CASE ~Condition(r)
  <2>1. state' = "clearing" /\ clearingSince' = ts'
    BY <1>5 DEF FromActive
  <2>2. below'[ClearValue'] # Null /\ below'[ClearValue'] <= ts'
    <3>1. \A v \in Levels : below[v] \in Times /\ below'[v] \in Times /\ below'[v] <= ts'
      BY ObserveType, <1>2
    <3>2. CASE Kind = "hysteresis"
      <4>1. severity' = severity
        BY <1>5, <1>1, <3>2, ClearReading DEF FromActive, Raises, CriticalDue
      <4>2. ClearValue \in Levels /\ ClearValue' = ClearValue
        BY <4>1 DEF ClearValue, Levels
      <4>3. below'[ClearValue] = IF below[ClearValue] = Null THEN ts' ELSE below[ClearValue]
        BY <1>1, <1>5, ClearReading
      <4> QED BY <1>2, <3>1, <4>2, <4>3
    <3>3. CASE Kind # "hysteresis"
      <4>1. ClearValue' \in Levels
        BY DEF ClearValue, Levels
      <4>2. \A v \in Levels : below'[v] = IF below[v] = Null THEN ts' ELSE below[v]
        BY <1>1, <1>5, <3>3, ClearReading
      <4> QED BY <1>2, <3>1, <4>1, <4>2
    <3> QED BY <3>2, <3>3
  <2> QED BY <1>2, <1>3, <2>1, <2>2
          DEF StateInv, PendingInv, ClearingInv, ClosedInv, IdleInv, Times
<1> QED BY <1>4, <1>5

LEMMA ClearingStep ==
    ASSUME RuleInv, NEW r \in Readings, NEW dt \in Steps, Tick(r, dt),
           r # Unknown, FromClearing(r, ts')
    PROVE  /\ TypeOK' /\ StateInv'
           /\ event' = "closed" =>
                 below'[ClearValue] # Null /\ ts' - below'[ClearValue] >= ClearingHold
<1> USE RuleAssumption DEF Null
<1>1. InIncident /\ state = "clearing" /\ ClearValue \in Levels /\ ClearValue' = ClearValue
  BY DEF FromClearing, InIncident, ClearValue, Levels
<1>2. ts' = ts + dt /\ ts' \in Nat /\ dt \in 1 .. Longest /\ ts \in Nat /\ below \in [Levels -> Times]
  BY ObserveType DEF RuleInv, TypeOK, Levels
<1>3. TypeOK'
  BY <1>2, ObserveType DEF TypeOK, RuleInv, FromClearing, Quietly, Times, Levels
<1>4. /\ clearingSince \in Nat /\ clearingSince <= ts
      /\ below[ClearValue] \in Nat /\ below[ClearValue] <= clearingSince
  BY <1>1, <1>2 DEF RuleInv, TypeOK, ClearingInv, Times
<1>5. CASE Condition(r)
  <2>1. state' = "active" /\ event' = "none"
    BY <1>5 DEF FromClearing, Quietly
  <2> QED BY <1>3, <2>1 DEF StateInv, PendingInv, ClearingInv, ClosedInv, IdleInv
<1>6. ASSUME ~Condition(r) PROVE below'[ClearValue] = below[ClearValue]
  <2>1. below'[ClearValue] = IF below[ClearValue] = Null THEN ts' ELSE below[ClearValue]
    BY <1>1, <1>6, ClearReading
  <2>2. below[ClearValue] # -1
    BY <1>4
  <2> QED BY <2>1, <2>2
<1>7. CASE ~Condition(r) /\ ~Cleared(ts')
  <2>1. state' = "clearing" /\ event' = "none" /\ clearingSince' = clearingSince
    BY <1>1, <1>7 DEF FromClearing, Quietly
  <2> QED BY <1>1, <1>2, <1>3, <1>4, <1>6, <1>7, <2>1
          DEF StateInv, PendingInv, ClearingInv, ClosedInv, IdleInv
<1>8. CASE ~Condition(r) /\ Cleared(ts')
  <2>1. state' = "closed" /\ closedSince' = ts' /\ lastClosed' = ts'
    BY <1>8 DEF FromClearing, Tick, Observe
  <2>2. ts' - below'[ClearValue] >= ClearingHold
    BY <1>2, <1>4, <1>6, <1>8 DEF Cleared
  <2> QED BY <1>2, <1>3, <1>4, <1>6, <1>8, <2>1, <2>2
          DEF StateInv, PendingInv, ClearingInv, ClosedInv, IdleInv
<1> QED BY <1>5, <1>7, <1>8

LEMMA ClosedStep ==
    ASSUME RuleInv, NEW r \in Readings, NEW dt \in Steps, Tick(r, dt),
           r # Unknown, FromClosed(r, ts')
    PROVE  TypeOK' /\ StateInv'
<1> USE RuleAssumption DEF Null
<1>1. /\ ts' = ts + dt /\ ts' \in Nat /\ dt \in 1 .. Longest /\ ts \in Nat
      /\ heldSince' \in Times /\ heldSince' <= ts'
  BY ObserveType DEF RuleInv, TypeOK
<1>2. TypeOK'
  BY <1>1, ObserveType DEF TypeOK, RuleInv, FromClosed, Quietly, Times, Levels
<1>3. lastClosed' = lastClosed
  BY DEF Tick, Observe, FromClosed, Quietly
<1>4. /\ closedSince \in Nat /\ closedSince = lastClosed /\ lastClosed <= ts
      /\ ~SensorFails => ts = closedSince \/ ts - closedSince < Cooldown
  BY DEF RuleInv, TypeOK, ClosedInv, FromClosed, Times
<1>5. CASE Cooled(ts')
  <2>1. state' = "idle" /\ ts' >= lastClosed' + Cooldown
    BY <1>1, <1>3, <1>4, <1>5 DEF FromClosed, Cooled
  <2>2. ~SensorFails => ts' - QuietSince' <= Cooldown + Longest
    <3>1. ~SensorFails => ts - lastClosed <= Cooldown
      BY <1>1, <1>4
    <3>2. lastClosed \in Nat /\ QuietSince' >= lastClosed /\ QuietSince' \in Nat
      BY <1>1, <1>3, <1>4 DEF QuietSince, Times
    <3>3. ~SensorFails => \A q \in Nat : q >= lastClosed => ts' - q <= Cooldown + Longest
      BY <1>1, <3>1, <3>2
    <3> QED BY <3>2, <3>3, Zenon
  <2> QED BY <1>2, <2>1, <2>2 DEF StateInv, PendingInv, ClearingInv, ClosedInv, IdleInv
<1>6. CASE ~Cooled(ts')
  <2>1. state' = "closed" /\ closedSince' = closedSince
    BY <1>6 DEF FromClosed
  <2> QED BY <1>1, <1>2, <1>3, <1>4, <1>6, <2>1
          DEF StateInv, PendingInv, ClearingInv, ClosedInv, IdleInv, Cooled
<1> QED BY <1>5, <1>6

LEMMA UnknownStep ==
    ASSUME RuleInv, NEW dt \in Steps, Unknown \in Readings, Tick(Unknown, dt), HoldUnknown
    PROVE  TypeOK' /\ StateInv'
<1> USE RuleAssumption DEF Null
<1>1. ts' = ts + dt /\ ts' \in Nat /\ dt \in 1 .. Longest /\ ts \in Nat
  BY ObserveType DEF RuleInv, TypeOK
<1>2. TypeOK'
  BY <1>1, ObserveType DEF TypeOK, RuleInv, HoldUnknown, BackToActive, Quietly, Times, Levels
<1>3. lastClosed' = lastClosed /\ heldSince' = heldSince /\ state' # "clearing"
      /\ (state' # "active" => state' = state)
      /\ pendingSince' = pendingSince /\ closedSince' = closedSince
  BY DEF Tick, Observe, HoldUnknown, BackToActive, Quietly, RuleInv, TypeOK
<1>4. SensorFails
  BY DEF Readings, Unknown, Present, CriticalTrigger
<1> QED BY <1>1, <1>2, <1>3, <1>4
        DEF RuleInv, TypeOK, StateInv, PendingInv, ClearingInv, ClosedInv, IdleInv, Times

-----------------------------------------------------------------------------
LEMMA TickStep ==
    ASSUME RuleInv, NEW r \in Readings, NEW dt \in Steps, Tick(r, dt)
    PROVE  /\ TypeOK' /\ StateInv'
           /\ event' = "opened" =>
                 /\ heldSince' # Null /\ ts' - heldSince' >= Hold
                 /\ lastClosed # Null => ts' >= lastClosed + Cooldown + Hold
           /\ event' = "closed" =>
                 below'[ClearValue] # Null /\ ts' - below'[ClearValue] >= ClearingHold
<1>1. CASE r = Unknown
  <2>1. HoldUnknown /\ event' = "none"
    BY <1>1 DEF Tick, Evaluate, HoldUnknown, Quietly
  <2> QED BY <1>1, <2>1, UnknownStep
<1>2. CASE r # Unknown /\ FromIdle(r, ts')
  BY <1>2, IdleStep DEF FromIdle, Quietly
<1>3. CASE r # Unknown /\ FromPending(r, ts')
  BY <1>3, PendingStep DEF FromPending, Quietly
<1>4. CASE r # Unknown /\ FromActive(r, ts')
  BY <1>4, ActiveStep DEF FromActive, Quietly
<1>5. CASE r # Unknown /\ FromClearing(r, ts')
  BY <1>5, ClearingStep DEF FromClearing, Quietly
<1>6. CASE r # Unknown /\ FromClosed(r, ts')
  BY <1>6, ClosedStep DEF FromClosed, Quietly
<1> QED BY <1>1, <1>2, <1>3, <1>4, <1>5, <1>6 DEF Tick, Evaluate

LEMMA InvStep == RuleInv /\ [Next]_vars => RuleInv'
<1> SUFFICES ASSUME RuleInv, [Next]_vars PROVE RuleInv'
  OBVIOUS
<1>1. ASSUME NEW r \in Readings, NEW dt \in Steps, Tick(r, dt) PROVE RuleInv'
  <2>1. heldSince' <= ts' /\ lastClosed' <= ts' /\ \A v \in DOMAIN below' : below'[v] <= ts'
    BY <1>1, ObserveType
  <2>2. TypeOK' /\ StateInv'
    BY <1>1, TickStep
  <2> QED BY <2>1, <2>2 DEF RuleInv, StateInv
<1>2. CASE Reset
  <2>1. TypeOK'
    BY <1>2 DEF Reset, RuleInv, TypeOK, Times, Null
  <2>2. heldSince' <= ts' /\ lastClosed' <= ts' /\ \A v \in DOMAIN below' : below'[v] <= ts'
    BY <1>2 DEF Reset, RuleInv, TypeOK, Null
  <2> QED BY <1>2, <2>1, <2>2
          DEF Reset, RuleInv, PendingInv, ClearingInv, ClosedInv, IdleInv
<1>3. CASE UNCHANGED vars
  BY <1>3 DEF vars, machine, RuleInv, TypeOK, PendingInv, ClearingInv, ClosedInv, IdleInv,
              QuietSince, ClearValue
<1> QED BY <1>1, <1>2, <1>3 DEF Next

LEMMA InitInv == Init => RuleInv
BY RuleAssumption
   DEF Init, RuleInv, TypeOK, PendingInv, ClearingInv, ClosedInv, IdleInv, Times, Null

\* The invariant, which contains the type invariant, holds in every state of
\* every rule the engine builds.
THEOREM RuleCorrect == Spec => []RuleInv
<1> QED BY InitInv, InvStep, PTL DEF Spec

\* An incident has a hazard behind it that was read, without a reading to the
\* contrary, for the debounce or the warning grace time.
THEOREM OpenedHeld == Spec => OpensAfterHold
<1>1. RuleInv /\ [Next]_vars =>
        [event' = "opened" => heldSince' # Null /\ ts' - heldSince' >= Hold]_vars
  BY TickStep DEF Next, Reset
<1> QED BY <1>1, RuleCorrect, PTL DEF Spec, OpensAfterHold

\* An incident closes on readings that were below its clear value for the
\* clearing time: neither a fault nor a single clear reading closes it.
THEOREM ClosedCleared == Spec => ClosesAfterClear
<1>1. RuleInv /\ [Next]_vars =>
        [event' = "closed" =>
            below'[ClearValue] # Null /\ ts' - below'[ClearValue] >= ClearingHold]_vars
  BY TickStep DEF Next, Reset
<1> QED BY <1>1, RuleCorrect, PTL DEF Spec, ClosesAfterClear

\* A hazard read by a working sensor has an incident after the cooldown, the
\* hold time and two ticks, however the readings and the ticks fall.
THEOREM HazardNoticed == Spec => []NoticedInTime
<1>1. RuleInv => NoticedInTime
  <2> SUFFICES ASSUME RuleInv, ~InIncident, heldSince # Null, ~SensorFails
               PROVE  ts - QuietSince <= Cooldown + Hold + 2 * Longest
    BY DEF NoticedInTime, QuietSince
  <2> USE RuleAssumption DEF Null
  <2>1. /\ ts \in Nat /\ heldSince \in Nat /\ lastClosed \in Times /\ Hold \in Nat
        /\ Cooldown \in Nat /\ Longest \in Nat
        /\ QuietSince \in Nat /\ QuietSince >= lastClosed
    BY DEF RuleInv, TypeOK, Times, QuietSince, Hold
  <2>2. CASE state = "idle"
    BY <2>1, <2>2 DEF RuleInv, IdleInv
  <2>3. CASE state = "pending"
    <3>1. pendingSince \in Nat /\ pendingSince - QuietSince <= Cooldown + 2 * Longest
      BY <2>3 DEF RuleInv, TypeOK, PendingInv, Times
    <3>2. ts - pendingSince <= Hold
      BY <2>1, <2>3, <3>1 DEF RuleInv, PendingInv
    <3> QED BY <2>1, <3>1, <3>2
  <2>4. CASE state = "closed"
    <3>1. lastClosed \in Nat /\ ts - lastClosed <= Cooldown
      BY <2>1, <2>4 DEF RuleInv, TypeOK, ClosedInv, Times
    <3> QED BY <2>1, <3>1
  <2> QED BY <2>2, <2>3, <2>4 DEF InIncident, RuleInv, TypeOK
<1> QED BY <1>1, RuleCorrect, PTL

\* The rule's state machine implements the lifecycle: one incident at a time,
\* whose severity only rises, and a silence of the cooldown and the hold time
\* after each close.
THEOREM KeepsContract == Spec => ImplementsLifecycle
<1> USE DEF Lifecycle!Never
<1>1. Init => Lifecycle!LInit
  BY DEF Init, Lifecycle!LInit, InIncident, Null
<1>2. RuleInv /\ [Next]_vars => [Lifecycle!LNext]_(Lifecycle!lvars)
  <2> SUFFICES ASSUME RuleInv, [Next]_vars
               PROVE  [Lifecycle!LNext]_(Lifecycle!lvars)
    OBVIOUS
  <2>1. ASSUME NEW r \in Readings, NEW dt \in Steps, Tick(r, dt) PROVE Lifecycle!LNext
    <3>1. ts \in Nat /\ ts' \in Nat /\ ts' >= ts
      BY <2>1, ObserveType DEF RuleInv, TypeOK
    <3>2. /\ event' = "opened" /\ lastClosed # Null => ts' >= lastClosed + Cooldown + Hold
          /\ lastClosed' = IF event' = "closed" THEN ts' ELSE lastClosed
      BY <2>1, TickStep DEF Tick, Observe
    <3>3. CASE Lifecycle!Wait
      BY <3>1, <3>3 DEF Lifecycle!LNext, Lifecycle!Tick
    <3>4. CASE r = Unknown
      BY <2>1, <3>2, <3>3, <3>4
         DEF Tick, Evaluate, HoldUnknown, BackToActive, Quietly, InIncident, Lifecycle!Wait
    <3>5. CASE r # Unknown /\ FromIdle(r, ts')
      BY <3>2, <3>3, <3>5 DEF FromIdle, Quietly, InIncident, Lifecycle!Wait
    <3>6. CASE r # Unknown /\ FromPending(r, ts')
      <4>1. CASE event' = "opened"
        <5>1. /\ ~InIncident /\ state' = "active" /\ severity' \in {"warning", "critical"}
              /\ lastClosed' = lastClosed
          BY <2>1, <3>2, <3>6, <4>1, TickStep DEF FromPending, InIncident, Quietly, TypeOK
        <5>2. lastClosed # Null => ts' >= lastClosed + (Cooldown + Hold)
          BY <3>1, <3>2, <4>1, RuleAssumption DEF RuleInv, TypeOK, Times, Hold, Null
        <5>3. Lifecycle!Open(ts')
          BY <5>1, <5>2 DEF Lifecycle!Open, InIncident, Null
        <5> QED BY <3>1, <5>3 DEF Lifecycle!LNext, Lifecycle!Tick
      <4>2. CASE event' # "opened"
        BY <3>2, <3>3, <3>6, <4>2 DEF FromPending, Quietly, InIncident, Lifecycle!Wait
      <4> QED BY <4>1, <4>2
    <3>7. CASE r # Unknown /\ FromActive(r, ts')
      <4>1. /\ state = "active" /\ state' \in {"active", "clearing"}
            /\ event' \in {"none", "escalated"}
        BY <3>7 DEF FromActive, Quietly
      <4>2. CASE Raises(r, ts')
        BY <3>1, <3>2, <3>7, <4>1, <4>2
           DEF FromActive, Raises, InIncident, Lifecycle!LNext, Lifecycle!Tick, Lifecycle!Escalate
      <4>3. CASE ~Raises(r, ts')
        BY <3>2, <3>3, <3>7, <4>1, <4>3 DEF FromActive, InIncident, Lifecycle!Wait
      <4> QED BY <4>2, <4>3
    <3>8. CASE r # Unknown /\ FromClearing(r, ts')
      <4>1. CASE event' = "closed"
        <5>1. InIncident /\ ~InIncident' /\ lastClosed' = ts'
          BY <3>2, <3>8, <4>1 DEF FromClearing, Quietly, InIncident
        <5>2. severity # "none"
          BY DEF RuleInv, TypeOK
        <5> QED BY <3>1, <5>1, <5>2 DEF Lifecycle!LNext, Lifecycle!Tick, Lifecycle!Close
      <4>2. CASE event' # "closed"
        BY <3>2, <3>3, <3>8, <4>2 DEF FromClearing, Quietly, InIncident, Lifecycle!Wait
      <4> QED BY <4>1, <4>2
    <3>9. CASE r # Unknown /\ FromClosed(r, ts')
      BY <3>2, <3>3, <3>9 DEF FromClosed, Quietly, InIncident, Lifecycle!Wait
    <3> QED BY <2>1, <3>4, <3>5, <3>6, <3>7, <3>8, <3>9 DEF Tick, Evaluate
  <2>2. CASE Reset
    BY <2>2 DEF Reset, InIncident, Null, Lifecycle!LNext, Lifecycle!Forget
  <2>3. CASE UNCHANGED vars
    BY <2>3 DEF vars, machine, InIncident, Lifecycle!lvars
  <2> QED BY <2>1, <2>2, <2>3 DEF Next
<1> QED BY <1>1, <1>2, RuleCorrect, PTL DEF Spec, ImplementsLifecycle, Lifecycle!LSpec

-----------------------------------------------------------------------------
\* Severity.  The incidents opened in the rolling window that ends at x, and the
\* warnings among them.
OpenedIn(x) == {p \in opened : p[1] <= x /\ p[1] >= x - RepeatWindow}
WarningsIn(x) == {p \in opened : p[2] = "warning" /\ p[1] <= x /\ p[1] >= x - RepeatWindow}

OpenedType ==
    /\ opened \subseteq Nat \X {"warning", "critical"} /\ IsFiniteSet(opened)
    /\ IsFiniteSet(window)
    /\ RepeatCount = 0 => opened = {}

\* Every incident opened has a time of its own.
TimesApart ==
    /\ \A p \in opened : p[1] <= ts
    /\ \A p, q \in opened : p[1] = q[1] => p = q

\* The tracker remembers openings only, and every warning that still counts.
Remembered ==
    /\ \A w \in window : \E p \in opened : p[1] = w
    /\ \A p \in opened : p[2] = "warning" /\ p[1] >= ts - RepeatWindow => p[1] \in window

\* No rolling window, wherever it ends, holds as many warnings as make one critical.
FewWarnings == RepeatCount > 0 => \A x \in Int : Cardinality(WarningsIn(x)) < RepeatCount

RepeatInv == RuleInv /\ OpenedType /\ TimesApart /\ Remembered /\ FewWarnings

\* The belt rule, read without faults, its ticks closer together than its grace times.
BeltRule ==
    Kind = "seatbelt" /\ ~SensorFails /\ Longest <= GraceCritical - GraceWarning

\* The belt rule opens warnings, so that the tracker remembers everything it opened.
BeltRemembered == \A p \in opened : p[1] >= ts - RepeatWindow => p[1] \in window

\* How long a belt may be unbuckled before it is an incident, and that incident critical.
Patience == Cooldown + 2 * Longest
GraceInv ==
    /\ heldSince # Null => lastClosed <= heldSince
    /\ state = "clearing" => heldSince = Null
    /\ InIncident =>
          /\ pendingSince # Null /\ pendingSince <= ts
          /\ heldSince # Null => pendingSince - heldSince <= Patience
    /\ state = "active" /\ severity = "warning" =>
          ts - pendingSince < GraceCritical \/ heldSince = ts

BeltInv == RepeatInv /\ BeltRemembered /\ GraceInv /\ OnlyRepeatsRaised

-----------------------------------------------------------------------------
\* Counting pairs by their first components.
LEMMA CountedByFirst ==
    ASSUME NEW S, NEW T, IsFiniteSet(T), \A p \in S : p[1] \in T,
           \A p, q \in S : p[1] = q[1] => p = q
    PROVE  Cardinality(S) <= Cardinality(T)
<1> DEFINE f == [p \in S |-> p[1]]
<1>1. f \in Injection(S, T)
  BY DEF Injection, IsInjective
<1> QED BY <1>1, FS_Injection

LEMMA CountedOnto ==
    ASSUME NEW S, NEW T, IsFiniteSet(S), \A p \in S : p[1] \in T,
           \A t \in T : \E p \in S : p[1] = t
    PROVE  Cardinality(T) <= Cardinality(S)
<1> DEFINE f == [p \in S |-> p[1]]
<1>1. f \in Surjection(S, T)
  BY DEF Surjection
<1> QED BY <1>1, FS_Surjection

\* An opening is the end of a pending hazard; nothing else changes what the tracker
\* remembers.
LEMMA OpeningIs ==
    ASSUME RuleInv, NEW r \in Readings, NEW dt \in Steps, Tick(r, dt), event' = "opened"
    PROVE  /\ FromPending(r, ts') /\ Condition(r) /\ Due(ts') /\ r # Unknown
           /\ RecordAndCheck(ts', OpeningSeverity(r, ts'))
<1>1. Evaluate(r, ts')
  BY DEF Tick
<1>2. r # Unknown
  BY <1>1 DEF Evaluate, HoldUnknown, Quietly
<1>3. ~FromIdle(r, ts') /\ ~FromActive(r, ts') /\ ~FromClearing(r, ts') /\ ~FromClosed(r, ts')
  BY DEF FromIdle, FromActive, FromClearing, FromClosed, Quietly
<1>4. FromPending(r, ts')
  BY <1>1, <1>2, <1>3 DEF Evaluate
<1> QED BY <1>2, <1>4 DEF FromPending, Quietly

LEMMA NothingRecorded ==
    ASSUME NEW r \in Readings, NEW dt \in Steps, Tick(r, dt), event' # "opened"
    PROVE  window' = window /\ opened' = opened
<1>1. window' = window
  BY DEF Tick, Evaluate, HoldUnknown, FromIdle, FromPending, FromActive, FromClearing,
         FromClosed
<1> QED BY <1>1 DEF Tick, Observe

LEMMA OpenedTicks ==
    ASSUME RepeatInv, NEW r \in Readings, NEW dt \in Steps, Tick(r, dt)
    PROVE  /\ ts \in Nat /\ ts' \in Nat /\ ts' > ts
           /\ RepeatCount \in Nat /\ RepeatWindow \in Nat
           /\ \A p \in opened : p[1] \in Nat /\ p[1] <= ts /\ p[2] \in {"warning", "critical"}
<1>1. \A p \in opened : p[1] \in Nat /\ p[2] \in {"warning", "critical"}
  BY DEF RepeatInv, OpenedType
<1>2. ts \in Nat /\ ts' = ts + dt /\ dt \in 1 .. Longest
  BY ObserveType DEF RepeatInv, RuleInv, TypeOK
<1> QED BY <1>1, <1>2, RuleAssumption DEF RepeatInv, TimesApart

LEMMA UnrecordedKeeps ==
    ASSUME RepeatInv, RuleInv', window' = window, opened' = opened, ts \in Nat, ts' \in Nat,
           ts' >= ts
    PROVE  RepeatInv'
<1>1. OpenedType'
  BY DEF RepeatInv, OpenedType
<1>2. RepeatWindow \in Nat /\ \A p \in opened : p[1] \in Nat
  BY RuleAssumption DEF RepeatInv, OpenedType
<1>3. TimesApart'
  BY <1>2 DEF RepeatInv, TimesApart
<1>4. \A p \in opened : p[1] >= ts' - RepeatWindow => p[1] >= ts - RepeatWindow
  BY <1>2
<1>5. Remembered'
  BY <1>4 DEF RepeatInv, Remembered
<1>6. FewWarnings'
  BY DEF RepeatInv, FewWarnings, WarningsIn
<1> QED BY <1>1, <1>3, <1>5, <1>6 DEF RepeatInv

\* What an opening adds.
LEMMA Recorded ==
    ASSUME RepeatInv, NEW r \in Readings, NEW dt \in Steps, Tick(r, dt), event' = "opened",
           RepeatCount > 0
    PROVE  /\ opened' = opened \cup {<<ts', severity'>>}
           /\ severity' \in {"warning", "critical"}
           /\ \/ OpeningSeverity(r, ts') = "warning" /\ window' = Trimmed(ts')
                    /\ severity' = IF Repeats(ts') THEN "critical" ELSE "warning"
              \/ OpeningSeverity(r, ts') = "critical" /\ window' = window
                    /\ severity' = "critical"
<1>1. RecordAndCheck(ts', OpeningSeverity(r, ts'))
  BY OpeningIs DEF RepeatInv
<1>2. OpeningSeverity(r, ts') \in {"warning", "critical"}
  BY DEF OpeningSeverity
<1>3. opened' = opened \cup {<<ts', severity'>>}
  BY DEF Tick, Observe
<1> QED BY <1>1, <1>2, <1>3 DEF RecordAndCheck

\* The window after an opening, without what has become too old.
LEMMA TrimmedIs ==
    ASSUME RepeatInv, NEW t \in Int
    PROVE  IsFiniteSet(Trimmed(t)) /\ Cardinality(Trimmed(t)) \in Nat
<1>1. IsFiniteSet(window)
  BY DEF RepeatInv, OpenedType
<1>2. {w \in window : w >= t - RepeatWindow} \in SUBSET window
  OBVIOUS
<1>3. IsFiniteSet({w \in window : w >= t - RepeatWindow})
  BY <1>1, <1>2, FS_Subset
<1>4. IsFiniteSet(Trimmed(t))
  BY <1>3, FS_AddElement DEF Trimmed
<1> QED BY <1>4, FS_CardinalityType

LEMMA RecordedKeeps ==
    ASSUME RepeatInv, RuleInv', NEW r \in Readings, NEW dt \in Steps, Tick(r, dt),
           event' = "opened", RepeatCount > 0
    PROVE  RepeatInv'
<1> DEFINE t == ts'
           new == <<t, severity'>>
<1>1. /\ ts \in Nat /\ t \in Nat /\ t > ts /\ RepeatCount \in Nat /\ RepeatWindow \in Nat
      /\ \A p \in opened : p[1] \in Nat /\ p[1] <= ts /\ p[2] \in {"warning", "critical"}
  BY OpenedTicks
<1>2. opened' = opened \cup {new} /\ severity' \in {"warning", "critical"}
  BY Recorded
<1>3. \/ window' = Trimmed(t) /\ severity' = IF Repeats(t) THEN "critical" ELSE "warning"
      \/ window' = window /\ severity' = "critical"
  BY Recorded
<1>4. new \in Nat \X {"warning", "critical"} /\ new[1] = t /\ new[2] = severity'
  BY <1>1, <1>2
<1>5. IsFiniteSet(Trimmed(t)) /\ Cardinality(Trimmed(t)) \in Nat
  BY <1>1, TrimmedIs
<1> HIDE DEF new
<1>6. OpenedType'
  <2>1. IsFiniteSet(opened')
    BY <1>2, FS_AddElement DEF RepeatInv, OpenedType
  <2>2. IsFiniteSet(window')
    BY <1>3, <1>5 DEF RepeatInv, OpenedType
  <2> QED BY <1>2, <1>4, <2>1, <2>2 DEF RepeatInv, OpenedType
<1>7. TimesApart'
  <2>1. \A p \in opened' : p[1] <= t
    BY <1>1, <1>2, <1>4
  <2>2. \A p \in opened : p[1] # t
    BY <1>1
  <2>3. \A p, q \in opened' : p[1] = q[1] => p = q
    BY <1>2, <1>4, <2>2 DEF RepeatInv, TimesApart
  <2> QED BY <2>1, <2>3 DEF TimesApart
<1>8. Remembered'
  <2>1. ASSUME NEW w \in window' PROVE \E p \in opened' : p[1] = w
    <3>1. w = t \/ w \in window
      BY <1>3, <2>1 DEF Trimmed
    <3>2. CASE w = t
      BY <1>2, <1>4, <3>2
    <3>3. CASE w \in window
      BY <1>2, <3>3 DEF RepeatInv, Remembered
    <3> QED BY <3>1, <3>2, <3>3
  <2>2. ASSUME NEW p \in opened', p[2] = "warning", p[1] >= t - RepeatWindow PROVE p[1] \in window'
    <3>1. CASE p = new
      BY <1>3, <1>4, <2>2, <3>1 DEF Trimmed
    <3>2. CASE p \in opened
      <4>1. p[1] >= ts - RepeatWindow
        BY <1>1, <2>2, <3>2
      <4>2. p[1] \in window
        BY <2>2, <3>2, <4>1 DEF RepeatInv, Remembered
      <4> QED BY <1>3, <2>2, <4>2 DEF Trimmed
    <3> QED BY <1>2, <2>2, <3>1, <3>2
  <2> QED BY <2>1, <2>2 DEF Remembered
<1>9. FewWarnings'
  <2> SUFFICES ASSUME NEW x \in Int PROVE Cardinality(WarningsIn(x)') < RepeatCount
    BY DEF FewWarnings
  <2>1. CASE severity' = "critical" \/ x < t
    <3>1. ~(new[2] = "warning" /\ new[1] <= x)
      BY <1>1, <1>4, <2>1
    <3>2. WarningsIn(x)' = WarningsIn(x)
      BY <1>2, <3>1 DEF WarningsIn
    <3> QED BY <3>2 DEF RepeatInv, FewWarnings
  <2>2. CASE severity' # "critical" /\ x >= t
    <3>1. window' = Trimmed(t) /\ ~Repeats(t)
      BY <1>3, <2>2
    <3>2. ASSUME NEW p \in WarningsIn(x)' PROVE p[1] \in Trimmed(t)
      <4>1. p \in opened' /\ p[2] = "warning" /\ p[1] >= x - RepeatWindow
        BY <3>2 DEF WarningsIn
      <4>2. p[1] \in Nat
        BY <1>1, <1>2, <1>4, <4>1
      <4>3. p[1] >= t - RepeatWindow
        BY <1>1, <2>2, <4>1, <4>2
      <4> QED BY <1>8, <3>1, <4>1, <4>3 DEF Remembered
    <3>3. \A p, q \in WarningsIn(x)' : p[1] = q[1] => p = q
      BY <1>7 DEF TimesApart, WarningsIn
    <3>4. Cardinality(WarningsIn(x)') <= Cardinality(Trimmed(t))
      BY <1>5, <3>2, <3>3, CountedByFirst
    <3>5. Cardinality(Trimmed(t)) < RepeatCount
      BY <1>1, <1>5, <3>1 DEF Repeats
    <3>6. IsFiniteSet(WarningsIn(x)')
      <4>1. WarningsIn(x)' \in SUBSET (opened')
        BY DEF WarningsIn
      <4> QED BY <1>6, <4>1, FS_Subset DEF OpenedType
    <3>7. Cardinality(WarningsIn(x)') \in Nat
      BY <3>6, FS_CardinalityType
    <3> QED BY <1>1, <1>5, <3>4, <3>5, <3>7
  <2> QED BY <1>1, <1>2, <2>1, <2>2
<1> QED BY <1>6, <1>7, <1>8, <1>9 DEF RepeatInv

LEMMA RepeatTick ==
    ASSUME RepeatInv, RuleInv', NEW r \in Readings, NEW dt \in Steps, Tick(r, dt)
    PROVE  RepeatInv'
<1>1. ts \in Nat /\ ts' \in Nat /\ ts' >= ts
  BY OpenedTicks
<1>2. CASE event' # "opened"
  BY <1>1, <1>2, NothingRecorded, UnrecordedKeeps
<1>3. CASE event' = "opened" /\ RepeatCount > 0
  BY <1>3, RecordedKeeps
<1>4. CASE event' = "opened" /\ ~(RepeatCount > 0)
  <2>1. opened' = opened
    BY <1>4 DEF Tick, Observe
  <2>2. window' = window
    BY <1>4, OpeningIs DEF RepeatInv, RecordAndCheck
  <2> QED BY <1>1, <2>1, <2>2, UnrecordedKeeps
<1> QED BY <1>2, <1>3, <1>4

LEMMA NothingOpened == ASSUME opened = {}, window = {}, RuleInv PROVE RepeatInv
<1>1. \A x \in Int : WarningsIn(x) = {}
  BY DEF WarningsIn
<1>2. FewWarnings
  BY <1>1, FS_EmptySet, RuleAssumption DEF FewWarnings
<1>3. OpenedType /\ TimesApart /\ Remembered
  BY FS_EmptySet DEF OpenedType, TimesApart, Remembered
<1> QED BY <1>2, <1>3 DEF RepeatInv

LEMMA RepeatStep == RepeatInv /\ [Next]_vars => RepeatInv'
<1> SUFFICES ASSUME RepeatInv, [Next]_vars PROVE RepeatInv'
  OBVIOUS
<1>1. RuleInv'
  BY InvStep DEF RepeatInv
<1>2. ASSUME NEW r \in Readings, NEW dt \in Steps, Tick(r, dt) PROVE RepeatInv'
  BY <1>1, <1>2, RepeatTick
<1>3. CASE Reset
  <2>1. opened' = {} /\ window' = {}
    BY <1>3 DEF Reset
  <2>2. \A x \in Int : WarningsIn(x)' = {}
    BY <2>1 DEF WarningsIn
  <2>3. FewWarnings'
    BY <2>2, FS_EmptySet, RuleAssumption DEF FewWarnings
  <2>4. OpenedType' /\ TimesApart' /\ Remembered'
    BY <2>1, FS_EmptySet DEF OpenedType, TimesApart, Remembered
  <2> QED BY <1>1, <2>3, <2>4 DEF RepeatInv
<1>4. CASE UNCHANGED vars
  BY <1>1, <1>4, UnrecordedKeeps DEF vars, machine, RepeatInv, RuleInv, TypeOK
<1> QED BY <1>2, <1>3, <1>4 DEF Next

LEMMA WarningsFew == RepeatInv => RepeatsEscalate
<1> SUFFICES ASSUME RepeatInv, NEW o \in opened
             PROVE  Cardinality(WarningsIn(o[1])) < RepeatCount
  BY DEF RepeatsEscalate, WarningsIn
<1>1. o[1] \in Int /\ RepeatCount > 0
  BY RuleAssumption DEF RepeatInv, OpenedType
<1> QED BY <1>1 DEF RepeatInv, FewWarnings

\* Of the incidents opened within any rolling window fewer are warnings than the
\* number of repeats that makes one critical, for every kind of rule, any times and
\* any spacing of the ticks (RepeatEscalationTracker.record_and_check).
THEOREM RepeatsAreRaised == Spec => []RepeatsEscalate
<1>1. Init => RepeatInv
  BY InitInv, NothingOpened DEF Init
<1> QED BY <1>1, RepeatStep, WarningsFew, PTL DEF Spec

-----------------------------------------------------------------------------
\* The belt rule.
LEMMA BeltReading ==
    ASSUME BeltRule, RuleInv, NEW r \in Readings, NEW dt \in Steps, Tick(r, dt)
    PROVE  /\ r # Unknown /\ GraceWarning \in Nat /\ GraceWarning > 0 /\ GraceCritical \in Nat
           /\ GraceCritical > 0 /\ Cooldown \in Nat /\ Longest \in Nat
           /\ Patience \in Nat /\ Hold = GraceWarning
           /\ Condition(r) => heldSince' = IF heldSince = Null THEN ts' ELSE heldSince
           /\ ~Condition(r) => heldSince' = Null
           /\ ~Critical(r)
<1> USE RuleAssumption DEF BeltRule, Unknown, Present
<1>1. r \in {0, 4}
  BY DEF Readings
<1>2. GraceWarning \in Nat /\ GraceWarning > 0 /\ GraceCritical \in Nat /\ GraceCritical > 0
  OBVIOUS
<1>3. Condition(r) <=> r = 4
  BY DEF Condition
<1>4. heldSince' = IF r < 2 THEN Null ELSE IF heldSince = Null THEN ts' ELSE heldSince
  BY <1>1 DEF Tick, Observe, WarningTrigger
<1>5. Cooldown \in Nat /\ Longest \in Nat /\ Patience \in Nat /\ Hold = GraceWarning
  BY <1>2 DEF Patience, Hold
<1> QED BY <1>1, <1>2, <1>3, <1>4, <1>5 DEF Critical

\* A belt that is due has been so for less than the critical grace time.
LEMMA BeltOpensWarning ==
    ASSUME BeltRule, RuleInv, NEW r \in Readings, NEW dt \in Steps, Tick(r, dt),
           FromPending(r, ts')
    PROVE  OpeningSeverity(r, ts') = "warning" /\ ts' - pendingSince < GraceCritical
<1>1. state = "pending"
  BY DEF FromPending
<1>2. ts \in Nat /\ ts' = ts + dt /\ dt \in 1 .. Longest /\ Longest \in Nat
  BY ObserveType, RuleAssumption DEF RuleInv, TypeOK
<1>3. pendingSince \in Nat /\ (ts = pendingSince \/ ts - pendingSince < Hold)
  BY <1>1 DEF BeltRule, RuleInv, TypeOK, PendingInv, Times, Null
<1>4. Hold = GraceWarning /\ GraceWarning \in Nat /\ GraceWarning > 0 /\ GraceCritical \in Nat
      /\ Longest <= GraceCritical - GraceWarning
  BY BeltReading DEF BeltRule
<1>5. ts' - pendingSince < GraceCritical
  BY <1>2, <1>3, <1>4
<1>6. ~CriticalDue(ts')
  BY <1>2, <1>3, <1>4, <1>5 DEF CriticalDue
<1> QED BY <1>4, <1>5, <1>6 DEF OpeningSeverity

LEMMA BeltRecordsAll ==
    ASSUME BeltRule, BeltInv, NEW r \in Readings, NEW dt \in Steps, Tick(r, dt), RepeatInv'
    PROVE  BeltRemembered' /\ OnlyRepeatsRaised'
<1>1. /\ ts \in Nat /\ ts' \in Nat /\ ts' > ts /\ RepeatCount \in Nat /\ RepeatWindow \in Nat
      /\ \A p \in opened : p[1] \in Nat /\ p[1] <= ts /\ p[2] \in {"warning", "critical"}
  BY OpenedTicks DEF BeltInv
<1>2. \A p \in opened : p[1] >= ts' - RepeatWindow => p[1] \in window
  <2>1. \A p \in opened : p[1] >= ts' - RepeatWindow => p[1] >= ts - RepeatWindow
    BY <1>1
  <2> QED BY <2>1 DEF BeltInv, BeltRemembered
<1>3. CASE window' = window /\ opened' = opened
  BY <1>2, <1>3 DEF BeltRemembered, BeltInv, OnlyRepeatsRaised
<1>4. CASE event' = "opened" /\ RepeatCount > 0
  <2> DEFINE t == ts'
             new == <<t, severity'>>
  <2>1. OpeningSeverity(r, t) = "warning"
    BY <1>4, OpeningIs, BeltOpensWarning DEF BeltInv, RepeatInv
  <2>2. /\ opened' = opened \cup {new} /\ window' = Trimmed(t)
        /\ severity' = IF Repeats(t) THEN "critical" ELSE "warning"
    BY <1>4, <2>1, Recorded DEF BeltInv
  <2>3. new[1] = t /\ new[2] = severity'
    OBVIOUS
  <2> HIDE DEF new
  <2>4. BeltRemembered'
    BY <1>1, <1>2, <2>2, <2>3 DEF BeltRemembered, Trimmed
  <2>5. ASSUME NEW o \in opened', o[2] = "critical" PROVE Cardinality(OpenedIn(o[1])') >= RepeatCount
    <3>1. CASE o \in opened
      <4>1. OpenedIn(o[1])' = OpenedIn(o[1])
        <5>1. ~(new[1] <= o[1])
          BY <1>1, <2>3, <3>1
        <5> QED BY <2>2, <5>1 DEF OpenedIn
      <4>2. Cardinality(OpenedIn(o[1])) >= RepeatCount
        BY <2>5, <3>1 DEF BeltInv, OnlyRepeatsRaised, OpenedIn
      <4> QED BY <4>1, <4>2
    <3>2. CASE o = new
      <4>1. Repeats(t)
        BY <2>2, <2>3, <2>5, <3>2
      <4> DEFINE S == {p \in opened' : p[1] <= t /\ p[1] >= t - RepeatWindow}
      <4>2. S = OpenedIn(o[1])'
        BY <2>3, <3>2 DEF OpenedIn
      <4>3. \A p \in S : p[1] \in Trimmed(t)
        BY <1>2, <2>2, <2>3 DEF Trimmed
      <4>4. ASSUME NEW w \in Trimmed(t) PROVE \E p \in S : p[1] = w
        <5>1. CASE w = t
          <6>1. t <= t /\ t >= t - RepeatWindow
            <7>1. t \in Nat /\ RepeatWindow \in Nat
              BY <1>1
            <7> HIDE DEF t, S
            <7> QED BY <7>1
          <6>2. new \in opened'
            BY <2>2
          <6> QED BY <2>3, <5>1, <6>1, <6>2
        <5>2. CASE w # t
          <6>1. w \in window /\ w >= t - RepeatWindow
            BY <4>4, <5>2 DEF Trimmed
          <6>2. PICK p \in opened : p[1] = w
            BY <6>1 DEF BeltInv, RepeatInv, Remembered
          <6>3. p[1] <= t
            BY <1>1, <6>2
          <6> QED BY <2>2, <6>1, <6>2, <6>3
        <5> QED BY <5>1, <5>2
      <4>5. IsFiniteSet(S)
        <5>1. S \in SUBSET (opened')
          OBVIOUS
        <5>2. IsFiniteSet(opened')
          BY DEF RepeatInv, OpenedType
        <5> HIDE DEF S
        <5> QED BY <5>1, <5>2, FS_Subset
      <4> HIDE DEF S
      <4>6. Cardinality(Trimmed(t)) <= Cardinality(S)
        BY <4>3, <4>4, <4>5, CountedOnto
      <4>7. Cardinality(Trimmed(t)) \in Nat /\ Cardinality(S) \in Nat
        BY <1>1, <4>5, TrimmedIs, FS_CardinalityType DEF BeltInv
      <4>8. Cardinality(Trimmed(t)) >= RepeatCount
        BY <4>1 DEF Repeats
      <4>9. Cardinality(S) >= RepeatCount
        BY <1>1, <4>6, <4>7, <4>8
      <4> QED BY <4>2, <4>9
    <3> QED BY <2>2, <3>1, <3>2
  <2>6. OnlyRepeatsRaised'
    BY <2>5 DEF OnlyRepeatsRaised, OpenedIn
  <2> QED BY <2>4, <2>6
<1>5. CASE event' = "opened" /\ ~(RepeatCount > 0)
  <2>1. opened' = opened
    BY <1>5 DEF Tick, Observe
  <2>2. window' = window
    BY <1>5, OpeningIs DEF BeltInv, RepeatInv, RecordAndCheck
  <2> QED BY <1>3, <2>1, <2>2
<1> QED BY <1>3, <1>4, <1>5, NothingRecorded

LEMMA GraceTick ==
    ASSUME BeltRule, RuleInv, GraceInv, NEW r \in Readings, NEW dt \in Steps, Tick(r, dt)
    PROVE  GraceInv'
<1> USE DEF Null
<1>1. /\ ts \in Nat /\ ts' = ts + dt /\ ts' \in Nat /\ dt \in 1 .. Longest
      /\ heldSince \in Times /\ heldSince <= ts /\ lastClosed \in Times /\ lastClosed <= ts
      /\ pendingSince \in Times
  BY ObserveType DEF RuleInv, TypeOK
<1>2. /\ r # Unknown /\ GraceCritical \in Nat /\ GraceCritical > 0 /\ Patience \in Nat
      /\ Condition(r) => heldSince' = IF heldSince = Null THEN ts' ELSE heldSince
      /\ ~Condition(r) => heldSince' = Null
      /\ ~Critical(r)
  BY BeltReading
<1>3. heldSince' # Null => lastClosed <= heldSince'
  BY <1>1, <1>2 DEF GraceInv, Times
<1>4. event' # "closed" => lastClosed' = lastClosed
  BY DEF Tick, Observe
<1>5. CASE FromIdle(r, ts')
  BY <1>3, <1>4, <1>5 DEF FromIdle, Quietly, GraceInv, InIncident
<1>6. CASE FromPending(r, ts')
  <2>1. event' # "closed" /\ pendingSince' \in {pendingSince, Null}
        /\ state' \in {"idle", "pending", "active"}
    BY <1>6 DEF FromPending, Quietly
  <2>2. CASE state' = "active"
    <3>1. Condition(r) /\ pendingSince' = pendingSince
      BY <1>6, <2>2 DEF FromPending
    <3>2. /\ pendingSince # Null /\ pendingSince <= ts /\ heldSince # Null
          /\ pendingSince - QuietSince <= Patience
      BY <1>6 DEF FromPending, RuleInv, PendingInv, BeltRule, Patience
    <3>3. pendingSince - heldSince <= Patience
      BY <1>1, <3>2 DEF GraceInv, QuietSince, Times
    <3>4. heldSince' = heldSince
      BY <1>2, <3>1, <3>2
    <3>5. ts' - pendingSince < GraceCritical
      BY <1>6, BeltOpensWarning
    <3> QED BY <1>1, <1>3, <1>4, <2>1, <2>2, <3>1, <3>2, <3>3, <3>4, <3>5 DEF GraceInv, Times
  <2>3. CASE state' # "active"
    BY <1>3, <1>4, <2>1, <2>3 DEF GraceInv, InIncident
  <2> QED BY <2>2, <2>3
<1>7. CASE FromActive(r, ts')
  <2>1. /\ state = "active" /\ pendingSince # Null /\ pendingSince <= ts
        /\ heldSince # Null => pendingSince - heldSince <= Patience
    BY <1>7 DEF FromActive, GraceInv, InIncident
  <2>2. /\ event' # "closed" /\ pendingSince' = pendingSince
        /\ Condition(r) => state' = "active"
        /\ ~Condition(r) => state' = "clearing"
    BY <1>7, <2>1 DEF FromActive, Quietly
  <2>3. severity' = "warning" => ts' - pendingSince < GraceCritical
    BY <1>1, <1>2, <1>7, <2>1 DEF FromActive, Raises, CriticalDue, Times
  <2>4. heldSince' # Null => pendingSince - heldSince' <= Patience
    BY <1>1, <1>2, <2>1 DEF Times
  <2> QED BY <1>1, <1>2, <1>3, <1>4, <2>1, <2>2, <2>3, <2>4 DEF GraceInv, Times
<1>8. CASE FromClearing(r, ts')
  <2>1. /\ state = "clearing" /\ pendingSince # Null /\ pendingSince <= ts /\ heldSince = Null
    BY <1>8 DEF FromClearing, GraceInv, InIncident
  <2>2. pendingSince' = pendingSince
    BY <1>8 DEF FromClearing
  <2>3. CASE Condition(r)
    <3>1. state' = "active" /\ event' = "none" /\ heldSince' = ts'
      BY <1>2, <1>8, <2>1, <2>3 DEF FromClearing, Quietly
    <3>2. pendingSince - ts' <= Patience
      BY <1>1, <1>2, <2>1 DEF Times
    <3> QED BY <1>1, <1>3, <1>4, <2>1, <2>2, <3>1, <3>2 DEF GraceInv, Times
  <2>4. CASE ~Condition(r)
    <3>1. heldSince' = Null /\ state' \in {"clearing", "closed"}
      BY <1>2, <1>8, <2>1, <2>4 DEF FromClearing
    <3> QED BY <1>1, <2>1, <2>2, <3>1 DEF GraceInv, Times
  <2> QED BY <2>3, <2>4
<1>9. CASE FromClosed(r, ts')
  BY <1>3, <1>4, <1>9 DEF FromClosed, Quietly, GraceInv, InIncident
<1> QED BY <1>2, <1>5, <1>6, <1>7, <1>8, <1>9 DEF Tick, Evaluate

LEMMA BeltStep == BeltRule /\ BeltInv /\ [Next]_vars => BeltInv'
<1> SUFFICES ASSUME BeltRule, BeltInv, [Next]_vars PROVE BeltInv'
  OBVIOUS
<1>1. RepeatInv'
  BY RepeatStep DEF BeltInv
<1>2. ASSUME NEW r \in Readings, NEW dt \in Steps, Tick(r, dt) PROVE BeltInv'
  <2>1. GraceInv'
    BY <1>2, GraceTick DEF BeltInv, RepeatInv
  <2>2. BeltRemembered' /\ OnlyRepeatsRaised'
    BY <1>1, <1>2, BeltRecordsAll
  <2> QED BY <1>1, <2>1, <2>2 DEF BeltInv
<1>3. CASE Reset
  BY <1>1, <1>3 DEF Reset, BeltInv, BeltRemembered, OnlyRepeatsRaised, GraceInv, InIncident
<1>4. CASE UNCHANGED vars
  BY <1>1, <1>4 DEF vars, machine, BeltInv, BeltRemembered, OnlyRepeatsRaised, GraceInv, InIncident
<1> QED BY <1>2, <1>3, <1>4 DEF Next

\* A belt that stays unbuckled is a critical incident in time.
LEMMA BeltEscalates == ASSUME BeltRule, BeltInv PROVE GraceEscalates
<1> USE RuleAssumption DEF Null
<1> SUFFICES ASSUME heldSince # Null, ts - heldSince >= Cooldown + GraceCritical + 2 * Longest
             PROVE  InIncident /\ severity = "critical"
  BY DEF GraceEscalates
<1>1. /\ ts \in Nat /\ heldSince \in Nat /\ lastClosed \in Times /\ lastClosed <= heldSince
      /\ Cooldown \in Nat /\ Longest \in Nat /\ GraceWarning \in Nat /\ GraceCritical \in Nat
      /\ GraceWarning > 0 /\ GraceCritical >= GraceWarning /\ Hold = GraceWarning
  BY DEF BeltRule, BeltInv, GraceInv, RepeatInv, RuleInv, TypeOK, Times, Hold
<1>2. QuietSince = heldSince
  BY <1>1 DEF QuietSince, Times
<1>3. state # "idle"
  <2>1. state = "idle" => ts - heldSince <= Cooldown + Longest
    BY <1>2 DEF BeltRule, BeltInv, RepeatInv, RuleInv, IdleInv
  <2> QED BY <1>1, <2>1
<1>4. state # "closed"
  <2>1. state = "closed" => ts = lastClosed \/ ts - lastClosed < Cooldown
    BY DEF BeltRule, BeltInv, RepeatInv, RuleInv, ClosedInv
  <2> QED BY <1>1, <2>1 DEF Times
<1>5. state # "pending"
  <2>1. state = "pending" => /\ pendingSince \in Nat /\ pendingSince - heldSince <= Cooldown + 2 * Longest
                             /\ ts = pendingSince \/ ts - pendingSince < GraceWarning
    BY <1>1, <1>2 DEF BeltRule, BeltInv, RepeatInv, RuleInv, TypeOK, PendingInv, Times
  <2> QED BY <1>1, <2>1
<1>6. state = "active"
  BY <1>3, <1>4, <1>5 DEF BeltInv, GraceInv, RepeatInv, RuleInv, TypeOK
<1>7. /\ InIncident /\ pendingSince \in Nat /\ pendingSince - heldSince <= Cooldown + 2 * Longest
      /\ severity = "warning" => ts - pendingSince < GraceCritical \/ heldSince = ts
      /\ severity \in {"warning", "critical"}
  BY <1>6 DEF BeltInv, GraceInv, RepeatInv, RuleInv, TypeOK, InIncident, Times, Patience
<1>8. severity # "warning"
  BY <1>1, <1>7
<1> QED BY <1>7, <1>8

\* On a belt rule that reads no faults, with ticks no further apart than its two grace
\* times: a belt left unbuckled is a critical incident within the cooldown, the
\* critical grace time and two ticks, however it was unbuckled and buckled before; and
\* of the incidents it opens as critical each is the last of as many repeats as the
\* count asks for, and no warning is (state_machine.py, escalation.py).
THEOREM BeltSeverityExplained == BeltRule => (Spec => []SeverityExplained)
<1> SUFFICES ASSUME BeltRule PROVE Spec => []SeverityExplained
  OBVIOUS
<1>1. Init => BeltInv
  BY InitInv, NothingOpened
     DEF Init, BeltInv, BeltRemembered, OnlyRepeatsRaised, GraceInv, InIncident
<1>2. BeltInv /\ [Next]_vars => BeltInv'
  BY BeltStep
<1>3. RepeatInv => RepeatsEscalate
  BY WarningsFew
<1>4. BeltInv => SeverityExplained
  BY <1>3, BeltEscalates DEF SeverityExplained, BeltInv
<1> QED BY <1>1, <1>2, <1>4, PTL DEF Spec

=============================================================================
