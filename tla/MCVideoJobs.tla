---------------------------- MODULE MCVideoJobs ----------------------------
(* The video plane for TLC. *)
EXTENDS VideoJobs, TLC

\* Requests and workers are interchangeable.
Symmetry == Permutations(Requests) \cup Permutations(Workers)

\* A bound for the runs about the key: no row lives to its hold's last fifteen
\* minutes or to the end of its retention (Delete drops rows there already).
YoungRows == \A j \in Requests : passed[j] \subseteq {"unsubmitted", "stale"}

====
