---------------------------- MODULE MCReviewJobs ----------------------------
(* An instance of ReviewJobs: any report may be submitted.                 *)
EXTENDS ReviewJobs, TLC

Contents == [m \in MRs |-> {"sound", "thin", "risky", "unsafe"}]
=============================================================================
