------------------------------- MODULE Charge -------------------------------
(***************************************************************************)
(* What the billing boundary promises of each request, whatever fails: it  *)
(* is paid for once, only after it was served; or released, and then never *)
(* paid for; or it stays owed.                                             *)
(***************************************************************************)
CONSTANT Requests
VARIABLE bill

Bills == {"open", "owed", "paid", "released"}

Init == bill = [r \in Requests |-> "open"]

\* The upstream answers.
Serve(r) == bill[r] = "open" /\ bill' = [bill EXCEPT ![r] = "owed"]

\* The request fails and its reservation is given back.
Release(r) == bill[r] = "open" /\ bill' = [bill EXCEPT ![r] = "released"]

\* The one debit.
Pay(r) == bill[r] = "owed" /\ bill' = [bill EXCEPT ![r] = "paid"]

Next == \E r \in Requests : Serve(r) \/ Release(r) \/ Pay(r)

Spec == Init /\ [][Next]_bill

====
