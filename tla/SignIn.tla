-------------------------------- MODULE SignIn --------------------------------
(***************************************************************************)
(* What an operator needs to sign in at the machine without the cloud: an  *)
(* account the edge's roster knows, a current shift, and the offline       *)
(* credential of that shift.  Accounts and shifts are created in the       *)
(* cloud, each issuing the credentials it can, and their messages reach    *)
(* the edge.  Translated from app/cloud/credentials, create_shift,         *)
(* app/cloud/publish.py, the handlers of roster, shift and credential,     *)
(* app/edge/shift.py, offline_login.py and the auth routes.                *)
(*                                                                         *)
(* Messages are applied in any order: in the outbox's, but for those set   *)
(* aside as dead letters and retried later (SyncDelivery).                 *)
(***************************************************************************)
EXTENDS Integers, FiniteSets, FiniteSetsExt

CONSTANTS
    Operators,
    Shifts,        \* shifts that may be planned; an operator's do not overlap
    Admins,        \* admin requests open at once
    Grace,         \* offline_credential_grace_minutes
    MaxHour        \* bound: the simulation clock

ASSUME SignInAssumption ==
    /\ IsFiniteSet(Operators) /\ IsFiniteSet(Shifts) /\ IsFiniteSet(Admins)
    /\ Grace \in Nat /\ MaxHour \in Nat
    /\ \A s \in Shifts : s.operator \in Operators /\ s.start \in Nat /\ s.end \in Nat
                         /\ s.start < s.end
    /\ \A s, u \in Shifts :
          s.operator = u.operator /\ s # u => s.end <= u.start \/ u.end <= s.start

VARIABLES
    hour,        \* sim_now()
    accounts,    \* operators with a user account (and so a PIN)
    planned,     \* cloud.shift
    credentials, \* shifts with an offline_credential in the cloud
    admin,       \* each admin's open request
    toEdge,      \* messages for the edge not yet applied
    nextRoster,  \* sequence of the next roster message
    roster,      \* the edge's roster: the newest applied, its operators with a username
    edgeShifts, edgeCredentials,
    \* History
    together,    \* operators whose account was created while another one was
    crossed,     \* shifts whose creation did not see the account, nor was seen by its
    expired      \* shifts found to be over when the account was created

signVars == <<hour, accounts, planned, credentials, admin, toEdge, nextRoster, roster,
              edgeShifts, edgeCredentials, together, crossed, expired>>
cloudVars == <<accounts, planned, credentials, nextRoster, crossed, expired>>
edgeVars == <<roster, edgeShifts, edgeCredentials>>

Ready == [step |-> "ready"]

SignInInit ==
    /\ hour = 0
    /\ accounts = {} /\ planned = {} /\ credentials = {}
    /\ admin = [a \in Admins |-> Ready]
    /\ toEdge = {} /\ nextRoster = 1
    /\ roster = [seq |-> 0, operators |-> {}]
    /\ edgeShifts = {} /\ edgeCredentials = {}
    /\ together = {} /\ crossed = {} /\ expired = {}

-----------------------------------------------------------------------------
\* The cloud.

Expiry(s) == s.end + Grace

CredentialMessages(ss) == {[kind |-> "credential", shift |-> s] : s \in ss}

InHand(step) == {a \in Admins : admin[a].step = step}
BeingMade == {admin[a].operator : a \in InHand("account") \cup InHand("issue")}

\* create_shift; issue_for_shift finds no PIN for an operator without an account.
BeginShift(a, s) ==
    /\ admin[a] = Ready
    /\ s \notin planned /\ \A b \in InHand("shift") : admin[b].shift # s
    /\ admin' = [admin EXCEPT ![a] = [step |-> "shift", shift |-> s,
                                      issues |-> s.operator \in accounts]]
    /\ crossed' = IF \E b \in InHand("issue") : admin[b].operator = s.operator
                  THEN crossed \cup {s} ELSE crossed
    /\ UNCHANGED <<hour, accounts, planned, credentials, toEdge, nextRoster, edgeVars,
                   together, expired>>

CommitShift(a) ==
    /\ admin[a].step = "shift"
    /\ LET s == admin[a].shift
           issued == IF admin[a].issues THEN {s} ELSE {}
       IN  /\ planned' = planned \cup {s}
           /\ credentials' = credentials \cup issued
           /\ toEdge' = toEdge \cup {[kind |-> "shift", shift |-> s]}
                               \cup CredentialMessages(issued)
    /\ admin' = [admin EXCEPT ![a] = Ready]
    /\ UNCHANGED <<hour, accounts, nextRoster, edgeVars, together, crossed, expired>>

\* queue_operator_roster: the operators with a username.
RosterWith(o) == accounts \cup {o}

\* create_operator_account: the account, then the roster as this transaction sees it.
\* Only the username is unique: two requests may make two accounts of one operator.
BeginAccount(a, o) ==
    /\ admin[a] = Ready
    /\ o \notin accounts
    /\ admin' = [admin EXCEPT ![a] = [step |-> "account", operator |-> o,
                                      sees |-> RosterWith(o)]]
    /\ together' = IF BeingMade = {} THEN together ELSE together \cup BeingMade \cup {o}
    /\ UNCHANGED <<hour, accounts, planned, credentials, toEdge, nextRoster, edgeVars,
                   crossed, expired>>

\* The query for the operator's shifts writes the roster's outbox row, which takes
\* its sequence; the shifts not yet over get a credential.
UpcomingOnly(o) == {s \in planned : s.operator = o /\ s.start > hour}   \* mutant
StillValid(o) == {s \in planned : s.operator = o /\ s.end > hour - Grace}

IssueCredentials(a) ==
    /\ admin[a].step = "account"
    /\ LET o == admin[a].operator
       IN  /\ admin' = [admin EXCEPT ![a] = [step |-> "issue", operator |-> o,
                            sees |-> admin[a].sees, seq |-> nextRoster,
                            shifts |-> StillValid(o)]]
           /\ expired' = expired \cup
                  {s \in planned : s.operator = o /\ hour >= Expiry(s)}
           /\ crossed' = crossed \cup {admin[b].shift : b \in
                  {c \in InHand("shift") : admin[c].shift.operator = o}}
    /\ nextRoster' = nextRoster + 1
    /\ UNCHANGED <<hour, accounts, planned, credentials, toEdge, edgeVars, together>>

CommitAccount(a) ==
    /\ admin[a].step = "issue"
    /\ LET t == admin[a]
       IN  /\ accounts' = accounts \cup {t.operator}
           /\ credentials' = credentials \cup t.shifts
           /\ toEdge' = toEdge \cup CredentialMessages(t.shifts)
                  \cup {[kind |-> "roster", seq |-> t.seq, operators |-> t.sees]}
    /\ admin' = [admin EXCEPT ![a] = Ready]
    /\ UNCHANGED <<hour, planned, nextRoster, edgeVars, together, crossed, expired>>

-----------------------------------------------------------------------------
\* The edge applies the messages.

NewestRoster(m) ==   \* apply_operator_roster, with _newer_snapshot_applied
    IF m.seq < roster.seq THEN roster ELSE [seq |-> m.seq, operators |-> m.operators]

ApplyRoster(m) ==
    /\ m.kind = "roster"
    /\ toEdge' = toEdge \ {m}
    /\ roster' = NewestRoster(m)
    /\ UNCHANGED <<hour, cloudVars, admin, edgeShifts, edgeCredentials, together>>

ApplyShift(m) ==
    /\ m.kind = "shift"
    /\ toEdge' = toEdge \ {m}
    /\ edgeShifts' = edgeShifts \cup {m.shift}
    /\ UNCHANGED <<hour, cloudVars, admin, roster, edgeCredentials, together>>

\* The credential of a shift is replaced by the next; there is only ever one.
ApplyCredential(m) ==
    /\ m.kind = "credential"
    /\ toEdge' = toEdge \ {m}
    /\ edgeCredentials' = edgeCredentials \cup {m.shift}
    /\ UNCHANGED <<hour, cloudVars, admin, roster, edgeShifts, together>>

-----------------------------------------------------------------------------
\* The edge: the current shift and signing in.

\* _current_shift: the shift that contains now, else the next one, else the last.
CurrentOf(own) ==
    LET now == {s \in own : s.start <= hour /\ hour < s.end}
        next == {s \in own : s.start > hour}
        best == IF now # {} THEN Max({s.start : s \in now})
                ELSE IF next # {} THEN Min({s.start : s \in next})
                ELSE Max({s.start : s \in own})
    IN  CHOOSE s \in own : s.start = best

EdgeShiftsOf(o) == {s \in edgeShifts : s.operator = o}

Unexpired(s) == hour < Expiry(s)   \* verify_offline_credential, in sim time

\* verify_offline_login; the token that follows names the operator and is not tied to
\* the shift.
MaySignIn(o) ==
    /\ o \in roster.operators
    /\ EdgeShiftsOf(o) # {}
    /\ LET s == CurrentOf(EdgeShiftsOf(o))
       IN  s \in edgeCredentials /\ Unexpired(s)

SetHour(h) ==
    /\ h # hour
    /\ hour' = h
    /\ UNCHANGED <<cloudVars, admin, toEdge, edgeVars, together>>

SignInNext ==
    \/ \E a \in Admins :
          \/ \E s \in Shifts : BeginShift(a, s)
          \/ CommitShift(a)
          \/ \E o \in Operators : BeginAccount(a, o)
          \/ IssueCredentials(a)
          \/ CommitAccount(a)
    \/ \E m \in toEdge : ApplyRoster(m) \/ ApplyShift(m) \/ ApplyCredential(m)
    \/ \E h \in 0 .. MaxHour : SetHour(h)

SignInSpec == SignInInit /\ [][SignInNext]_signVars

-----------------------------------------------------------------------------
Settled(o) ==
    /\ o \in accounts /\ o \notin together
    /\ toEdge = {} /\ \A a \in Admins : admin[a] = Ready

\* The shift an operator is working, or else the next one to come.
FirstNotOver(s) ==
    /\ hour < s.end
    /\ \A u \in planned : u.operator = s.operator /\ hour < u.end => s.start <= u.start

\* An operator with an account can sign in without the cloud for the shift being
\* worked and, between shifts, for the next one in advance, whichever was created
\* first, the account or the shift, and in whatever order the messages came.  It takes
\* two account creations that overlapped, an account that overlapped the shift, or one
\* created when the shift was over and the clock has gone back, to make it fail.
SignInReady ==
    \A o \in Operators : Settled(o) =>
        \A s \in planned \ (crossed \cup expired) : s.operator = o /\ FirstNotOver(s) => MaySignIn(o)

=============================================================================
