------------------------ MODULE MCIncidentDetection ------------------------
(* Instances of IncidentDetection for TLC: workers, requests and tasks are  *)
(* model values given in the .cfg files.                                    *)
EXTENDS IncidentDetection, TLC

\* Workers, requests and tasks are interchangeable (not in liveness runs).
Symmetry == Permutations(Workers) \cup Permutations(Requests) \cup Permutations(Tasks)
=============================================================================
