----------------------------- MODULE MCFixWrite -----------------------------
(* FixWrite with two files and two processes.  The content "clean" has no   *)
(* fix, "clash" has two that overlap; the fix of "dirty" makes it "stained" *)
(* and that of "stained" makes it "dirty", so there is always one more.     *)
EXTENDS FixWrite

MCContents == {"dirty", "stained", "clean", "clash"}
MCFixed == [c \in MCContents |-> IF c = "dirty" THEN "stained"
                                ELSE IF c = "stained" THEN "dirty" ELSE c]
MCConflicted == {"clash"}
=============================================================================
