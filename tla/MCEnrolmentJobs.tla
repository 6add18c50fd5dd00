--------------------------- MODULE MCEnrolmentJobs ---------------------------
(* A small instance of EnrolmentJobs for TLC; the cfg gives its constants values. *)
EXTENDS EnrolmentJobs

\* The third job is there for the history to overflow; a Codex ceremony, which has no
\* descriptor, may come before, after and between the others without it.
MCOffers ==
  [j \in Jobs |-> IF j < 3 THEN {"antigravity", "codex"} ELSE {"antigravity"}]
=============================================================================
