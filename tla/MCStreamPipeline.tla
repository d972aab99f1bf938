--------------------------- MODULE MCStreamPipeline ---------------------------
(***************************************************************************)
(* Two machines and one minute.  The machines are alike until the first    *)
(* record is spooled, so it is taken to be machine "a"'s: a behavior in    *)
(* which it is "b"'s is one of these with the names exchanged.             *)
(***************************************************************************)
EXTENDS StreamPipeline

FirstFromA ==
    \A r \in written \cup open["tick"] \cup open["request"] : r.seq = 1 => r.machine = "a"

=============================================================================
