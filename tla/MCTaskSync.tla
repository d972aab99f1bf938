----------------------------- MODULE MCTaskSync -----------------------------
(* Instances of TaskSync for TLC. *)
EXTENDS TaskSync

CONSTANTS s1, s2, s3

\* The task moves on and never comes back.
Onward == {<<s1, s2>>, <<s2, s3>>}

\* It may come back to its first shift.
BackAgain == {<<s1, s2>>, <<s2, s1>>}

=============================================================================
