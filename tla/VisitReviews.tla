---------------------------- MODULE VisitReviews ----------------------------
(***************************************************************************)
(* Follow-up visits: an organization schedules a review of an application, *)
(* the adopter reports on it, and a review nobody reported on by its due   *)
(* date is marked overdue when the adopter next opens the task list.       *)
(* The applications themselves move as AdoptionLifecycle says.             *)
(*                                                                         *)
(* Submit reads a review and later writes the whole row back, while        *)
(* MarkOverdue is a single conditional UPDATE; both may be under way for   *)
(* the same row.  today counts calendar days: due_date is a DATE column.   *)
(***************************************************************************)
EXTENDS AdoptionStatus, Integers

CONSTANTS
  Users, Pets, AppIds, PetOrg, NoApp, SeedApps, \* as in AdoptionLifecycle
  ReviewIds,   \* ids the database may hand out to reviews (a bound)
  Reports,     \* contents a report may have: the photos and the note of one request
  NoReport,    \* no photos and no note: a new row, and a report sent empty
  NoReview,    \* the review row does not exist
  DayInputs,   \* values of scheduled_days a request may carry
  DefaultDays, \* the days a non-positive value is replaced by (30 in the code)
  LastDay,     \* the last day of the model (a bound)
  Handlers     \* request goroutines at work at the same time (a bound)

ASSUME ReviewAssumption ==
  /\ DayInputs \subseteq Int
  /\ DefaultDays \in Nat \ {0}
  /\ LastDay \in Nat

VARIABLES
  pets, apps, \* the two tables of AdoptionLifecycle
  reviews,    \* the visit_reviews table
  inflight,   \* the request each goroutine is serving
  today       \* the date of the database and of the server

\* No lookup of an earlier application fails here: a second application of a user for
\* a pet is to its reviews what the application of another user is.
Lifecycle == INSTANCE AdoptionLifecycle WITH
  pets <- pets, apps <- apps, unaware <- {},
  Users <- Users, Pets <- Pets, AppIds <- AppIds, PetOrg <- PetOrg,
  NoApp <- NoApp, SeedApps <- SeedApps

vars == <<pets, apps, reviews, inflight, today>>

ReviewStatuses == {"pending", "submitted", "overdue"}

Reviews == [app: AppIds, user: Users, due: Int, status: ReviewStatuses,
            report: Reports \cup {NoReport}]

Applications == [user: Users, pet: Pets, org: {PetOrg[p] : p \in Pets}, status: AppStatuses]

ASSUME RowsAssumption ==
  /\ SeedApps \in [AppIds -> Applications \cup {NoApp}]
  /\ NoApp \notin Applications
  /\ NoReview \notin Reviews

Idle == [op |-> "idle"]

\* A report carries the whole row it read; a listing remembers the day it marked on.
Requests ==
  {Idle} \cup [op: {"report"}, id: ReviewIds, row: Reviews, report: Reports]
         \cup [op: {"list"}, user: Users, marked: Nat]

TypeOK ==
  /\ reviews \in [ReviewIds -> Reviews \cup {NoReview}]
  /\ inflight \in [Handlers -> Requests]
  /\ today \in 0..LastDay

Live == {id \in ReviewIds : reviews[id] # NoReview}

Init ==
  /\ Lifecycle!Init
  /\ reviews = [id \in ReviewIds |-> NoReview]
  /\ inflight = [h \in Handlers |-> Idle]
  /\ today = 0

Adopt == Lifecycle!Next /\ UNCHANGED <<reviews, inflight, today>>

\* Wrong on purpose: the days are taken as they come.
DueDateAsGiven(days) == today + days

DueDate(days) == today + (IF days <= 0 THEN DefaultDays ELSE days)

\* Wrong on purpose: the organization in place of the adopter.
ReviewOfOrg(a, days) ==
  [app |-> a, user |-> apps[a].org, due |-> DueDate(days), status |-> "pending",
   report |-> NoReport]

NewReview(a, days) ==
  [app |-> a, user |-> apps[a].user, due |-> DueDate(days), status |-> "pending",
   report |-> NoReport]

\* ReviewService.Create.  Of the application it reads only columns that never change,
\* so its read and its insert are one step.
Create(id, a, days) ==
  /\ apps[a] # NoApp
  /\ reviews[id] = NoReview
  /\ reviews' = [reviews EXCEPT ![id] = NewReview(a, days)]
  /\ UNCHANGED <<pets, apps, inflight, today>>

\* ReviewService.Submit.  Nothing stops a second report on the same review.
SubmitRead(h, u, id, report) ==
  /\ inflight[h] = Idle
  /\ id \in Live
  /\ reviews[id].user = u
  /\ inflight' = [inflight EXCEPT ![h] =
       [op |-> "report", id |-> id, row |-> reviews[id], report |-> report]]
  /\ UNCHANGED <<pets, apps, reviews, today>>

SubmitWrite(h) ==
  LET r == inflight[h]
  IN  /\ r.op = "report"
      /\ reviews' = [reviews EXCEPT ![r.id] =
           [r.row EXCEPT !.status = "submitted", !.report = r.report]]
      /\ inflight' = [inflight EXCEPT ![h] = Idle]
      /\ UNCHANGED <<pets, apps, today>>

\* Wrong on purpose: late on the due date itself.
LateOnDueDate(v, u, day) == v.user = u /\ v.due <= day

Late(v, u, day) == v.user = u /\ v.due < day

\* Wrong on purpose: marks whatever is late, reported or not.
MarkedAnyway(v, u) == IF Late(v, u, today) THEN [v EXCEPT !.status = "overdue"] ELSE v

Marked(v, u) ==
  IF v.status = "pending" /\ Late(v, u, today) THEN [v EXCEPT !.status = "overdue"] ELSE v

\* ReviewService.ListByUser: mark what is late, then read the list.  A failed mark is
\* logged and the list is read all the same.
MarkOverdue(h, u) ==
  /\ inflight[h] = Idle
  /\ reviews' = [id \in ReviewIds |->
       IF id \in Live THEN Marked(reviews[id], u) ELSE NoReview]
  /\ inflight' = [inflight EXCEPT ![h] = [op |-> "list", user |-> u, marked |-> today]]
  /\ UNCHANGED <<pets, apps, today>>

\* marked is 0 when nothing was marked: no review is due before day 0.
MarkFails(h, u) ==
  /\ inflight[h] = Idle
  /\ inflight' = [inflight EXCEPT ![h] = [op |-> "list", user |-> u, marked |-> 0]]
  /\ UNCHANGED <<pets, apps, reviews, today>>

ListRead(h) ==
  /\ inflight[h].op = "list"
  /\ inflight' = [inflight EXCEPT ![h] = Idle]
  /\ UNCHANGED <<pets, apps, reviews, today>>

\* A database error ends a handler, a crash of the process ends them all.
Fail(h) ==
  /\ inflight[h] # Idle
  /\ inflight' = [inflight EXCEPT ![h] = Idle]
  /\ UNCHANGED <<pets, apps, reviews, today>>

Crash ==
  /\ \E h \in Handlers : inflight[h] # Idle
  /\ inflight' = [h \in Handlers |-> Idle]
  /\ UNCHANGED <<pets, apps, reviews, today>>

NextDay ==
  /\ today < LastDay
  /\ today' = today + 1
  /\ UNCHANGED <<pets, apps, reviews, inflight>>

Request(h) ==
  \/ \E u \in Users, id \in ReviewIds, c \in Reports : SubmitRead(h, u, id, c)
  \/ SubmitWrite(h)
  \/ \E u \in Users : MarkOverdue(h, u)
  \/ \E u \in Users : MarkFails(h, u)
  \/ ListRead(h)
  \/ Fail(h)

Next ==
  \/ Adopt
  \/ \E id \in ReviewIds, a \in AppIds, days \in DayInputs : Create(id, a, days)
  \/ \E h \in Handlers : Request(h)
  \/ Crash
  \/ NextDay

Spec == Init /\ [][Next]_vars

(***************************************************************************)
(* Properties                                                              *)
(***************************************************************************)
\* A report, once in, stays in: no listing that was racing with it marks the review
\* overdue, no write of an older row takes it back, and what it says changes only to
\* what another report of the same review says.
ReportIsKept ==
  [][\A id \in Live :
       reviews[id].status = "submitted" =>
         /\ reviews'[id].status = "submitted"
         /\ \/ reviews'[id].report = reviews[id].report
            \/ \E h \in Handlers : /\ inflight[h].op = "report" /\ inflight[h].id = id
                                   /\ reviews'[id].report = inflight[h].report]_vars

\* What a listing promises: from its mark on, every review of the user that was late
\* then is shown as overdue or submitted, whatever was created, reported or written
\* back from an older read in between.
ListingIsCurrent ==
  \A h \in Handlers :
    inflight[h].op = "list" =>
      \A id \in Live :
        Late(reviews[id], inflight[h].user, inflight[h].marked)
          => reviews[id].status # "pending"

\* A review is overdue only after its due date, and carries a report only when it is
\* submitted: no row is half of what one request wrote and half of another.
StatusTellsTheTruth ==
  \A id \in Live :
    /\ reviews[id].status = "overdue" => reviews[id].due < today
    /\ reviews[id].report # NoReport => reviews[id].status = "submitted"

\* The days a review may be due in.
Terms == {IF days <= 0 THEN DefaultDays ELSE days : days \in DayInputs}

Book == INSTANCE ReviewBook WITH
  apps <- apps, reviews <- reviews, today <- today,
  Users <- Users, AppIds <- AppIds, ReviewIds <- ReviewIds, Reports <- Reports,
  NoApp <- NoApp, NoReview <- NoReview, NoReport <- NoReport, Terms <- Terms

\* New reviews, reports and marks are atomic for every reader of the table, although a
\* report writes back a whole row that it read a while ago: the other columns of the row
\* still are what they were, and whatever its status has become, it is settled now.
ImplementsBook == Book!Spec

\* Create "schedules a review for an approved application".
ReviewsApprovedOnly ==
  [][\A id \in ReviewIds :
       reviews[id] = NoReview /\ reviews'[id] # NoReview
         => apps[reviews'[id].app].status = "approved"]_vars
=============================================================================
