------------------------ MODULE MCIndexingResilience ------------------------
(***************************************************************************)
(* Small instances of the resumable index build for TLC.                   *)
(***************************************************************************)
EXTENDS IndexingResilience

Setting(n, timeout, retry, sub, hard) ==
    [size |-> n, timeout |-> timeout, retry |-> retry, subprocess |-> sub,
     hard |-> hard]

(* Batches of one and of two files, with and without retries.              *)
InProcess == {Setting(2, TRUE, TRUE, FALSE, FALSE),
              Setting(1, TRUE, FALSE, FALSE, FALSE)}

(* Subprocess batches; the join is bounded by the setting, or by the       *)
(* timeout per file.                                                       *)
Bounded == {Setting(0, FALSE, TRUE, TRUE, TRUE),
            Setting(2, TRUE, TRUE, TRUE, FALSE)}

(* Both ways, settings changing from run to run. *)
Mixed == InProcess \cup Bounded

(* No timeouts, the default of the command line.                           *)
Plain == {Setting(2, FALSE, FALSE, FALSE, FALSE),
          Setting(1, FALSE, FALSE, FALSE, FALSE)}
==============================================================================
