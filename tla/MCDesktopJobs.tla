--------------------------- MODULE MCDesktopJobs ---------------------------
(* Values of the constants of DesktopJobs for TLC. *)
EXTENDS DesktopJobs, TLC

\* Streamers and requests are interchangeable; used where no liveness is checked.
Interchange == Permutations(Streamers) \cup Permutations(Handlers)
=============================================================================
