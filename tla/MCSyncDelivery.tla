---------------------------- MODULE MCSyncDelivery ---------------------------
(* Instances of SyncDelivery for TLC. *)
EXTENDS SyncDelivery, TLC

CONSTANTS m1, m2, m3, e1, e2

\* m1 and m2 update the same row, m3 another.
MCEntityOf == (m1 :> e1) @@ (m2 :> e1) @@ (m3 :> e2)

\* Two messages for one row.
OneRow == (m1 :> e1) @@ (m2 :> e1)

\* Three messages for one row.
AllOneRow == (m1 :> e1) @@ (m2 :> e1) @@ (m3 :> e1)

=============================================================================
