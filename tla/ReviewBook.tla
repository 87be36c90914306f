----------------------------- MODULE ReviewBook -----------------------------
(***************************************************************************)
(* What the review API promises of its table: each request that changes a  *)
(* review is one atomic operation.  A review is scheduled for the user of  *)
(* an application, a report settles it whatever it was, and a mark makes   *)
(* overdue exactly the user's reviews that are late and not reported on.   *)
(* Nothing else of a review ever changes.                                  *)
(***************************************************************************)
EXTENDS Integers

CONSTANTS
  Users, AppIds, ReviewIds, Reports,
  NoApp, NoReview, NoReport,
  Terms \* the numbers of days a review may be scheduled ahead

VARIABLES
  apps,    \* the applications: only read here, others change them
  reviews, \* the visit_reviews table
  today    \* the date

book == <<reviews, today>>

Init ==
  /\ reviews = [id \in ReviewIds |-> NoReview]
  /\ today = 0

Schedule(id, a, days) ==
  /\ apps[a] # NoApp
  /\ reviews[id] = NoReview
  /\ reviews' = [reviews EXCEPT ![id] =
       [app |-> a, user |-> apps[a].user, due |-> today + days, status |-> "pending",
        report |-> NoReport]]
  /\ UNCHANGED today

Report(id, report) ==
  /\ reviews[id] # NoReview
  /\ reviews' = [reviews EXCEPT ![id].status = "submitted", ![id].report = report]
  /\ UNCHANGED today

\* A review of u that is still pending after its due date.
Missed(id, u) ==
  /\ reviews[id] # NoReview
  /\ reviews[id].user = u
  /\ reviews[id].status = "pending"
  /\ reviews[id].due < today

Mark(u) ==
  /\ reviews' = [id \in ReviewIds |->
       IF Missed(id, u) THEN [reviews[id] EXCEPT !.status = "overdue"] ELSE reviews[id]]
  /\ UNCHANGED today

PassDay ==
  /\ today' = today + 1
  /\ UNCHANGED reviews

Next ==
  \/ \E id \in ReviewIds, a \in AppIds, days \in Terms : Schedule(id, a, days)
  \/ \E id \in ReviewIds, report \in Reports : Report(id, report)
  \/ \E u \in Users : Mark(u)
  \/ PassDay

Spec == Init /\ [][Next]_book
=============================================================================
