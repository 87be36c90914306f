------------------------- MODULE VisitReviewsProofs -------------------------
(***************************************************************************)
(* Theorems about VisitReviews, for any users, applications, reviews, days *)
(* and number of goroutines.  What makes them inductive: the rows that     *)
(* reports carry were in the table, no review is due before the day after  *)
(* it was made, and no listing has marked later than today.  For the       *)
(* refinement of ReviewBook: a row carried by a report differs from the    *)
(* table's in its status and its report at most.                           *)
(***************************************************************************)
EXTENDS VisitReviews, TLAPS

\* Every application belongs to a user.
AppsInv == apps \in [AppIds -> Applications \cup {NoApp}]

RowTruth(v) ==
  /\ v.status = "overdue" => v.due < today
  /\ v.report # NoReport => v.status = "submitted"

DueInv ==
  /\ \A id \in Live : reviews[id].due > 0
  /\ \A h \in Handlers : inflight[h].op = "report" => inflight[h].row.due > 0

MarkedInv == \A h \in Handlers : inflight[h].op = "list" => inflight[h].marked <= today

IInv ==
  /\ TypeOK
  /\ AppsInv
  /\ StatusTellsTheTruth
  /\ DueInv
  /\ MarkedInv
  /\ ListingIsCurrent

(***************************************************************************)
(* Rows.                                                                   *)
(***************************************************************************)
\* A due date lies after today, whatever a request asks for.
LEMMA DueLater ==
  ASSUME TypeOK, NEW days \in DayInputs
  PROVE  DueDate(days) \in Int /\ DueDate(days) > today
BY ReviewAssumption DEF ReviewAssumption, TypeOK, DueDate

\* A new review is the adopter's and pending.
LEMMA NewReviewRow ==
  ASSUME TypeOK, AppsInv, NEW a \in AppIds, apps[a] # NoApp, NEW days \in DayInputs
  PROVE  /\ NewReview(a, days) \in Reviews
         /\ NewReview(a, days).status = "pending"
         /\ NewReview(a, days).report = NoReport
         /\ NewReview(a, days).due > today
<1>1. apps[a].user \in Users
  BY DEF AppsInv, Applications
<1>2. DueDate(days) \in Int /\ DueDate(days) > today
  BY DueLater
<1> QED BY <1>1, <1>2 DEF NewReview, Reviews, ReviewStatuses

\* Marking changes a review that is pending and late, and only its status.
LEMMA MarkedRow ==
  ASSUME NEW v \in Reviews, NEW u
  PROVE  /\ Marked(v, u) \in Reviews
         /\ Marked(v, u).due = v.due /\ Marked(v, u).user = v.user
         /\ Marked(v, u).app = v.app
         /\ Marked(v, u).report = v.report
         /\ Marked(v, u) = v \/ (v.status = "pending" /\ Marked(v, u).status = "overdue"
                                 /\ v.due < today)
         /\ Late(v, u, today) => Marked(v, u).status # "pending"
BY DEF Marked, Late, Reviews, ReviewStatuses

\* What a report writes is submitted.
LEMMA ReportedRow ==
  ASSUME TypeOK, NEW h \in Handlers, inflight[h].op = "report"
  PROVE  /\ inflight[h].id \in ReviewIds /\ inflight[h].report \in Reports
         /\ inflight[h].row \in Reviews
         /\ [inflight[h].row EXCEPT !.status = "submitted", !.report = inflight[h].report]
              \in Reviews
<1>1. /\ inflight[h].id \in ReviewIds /\ inflight[h].report \in Reports
      /\ inflight[h].row \in Reviews
  BY DEF TypeOK, Requests, Idle
<1> QED BY <1>1 DEF Reviews, ReviewStatuses

\* The day of a listing is a number.
LEMMA ListingDay ==
  ASSUME TypeOK, NEW h \in Handlers, inflight[h].op = "list"
  PROVE  inflight[h].marked \in Nat
BY DEF TypeOK, Requests, Idle

(***************************************************************************)
(* Steps.                                                                  *)
(***************************************************************************)
\* A step that leaves the reviews and the day alone, and starts neither report nor
\* listing.
Rests ==
  /\ AppsInv'
  /\ reviews' = reviews /\ today' = today
  /\ inflight' \in [Handlers -> Requests]
  /\ \A h \in Handlers : inflight'[h] = Idle \/ inflight'[h] = inflight[h]

\* Such a step keeps the invariant.
LEMMA RestStep == IInv /\ Rests => IInv'
<1> SUFFICES ASSUME IInv, Rests PROVE IInv'
  OBVIOUS
<1>1. Live' = Live
  BY DEF Rests, Live
<1>2. Idle.op = "idle"
  BY DEF Idle
<1>3. TypeOK' /\ AppsInv'
  BY DEF IInv, TypeOK, Rests
<1>4. StatusTellsTheTruth'
  BY <1>1 DEF IInv, StatusTellsTheTruth, Rests
<1>5. DueInv' /\ MarkedInv'
  BY <1>1, <1>2 DEF IInv, DueInv, MarkedInv, Rests
<1>6. ListingIsCurrent'
  BY <1>1, <1>2 DEF IInv, ListingIsCurrent, Late, Rests
<1> QED BY <1>3, <1>4, <1>5, <1>6 DEF IInv

\* Applications move on; nobody's user changes.
LEMMA AdoptStep == IInv /\ Adopt => IInv'
<1> SUFFICES ASSUME IInv, Adopt PROVE IInv'
  OBVIOUS
<1>1. apps \in [AppIds -> Applications \cup {NoApp}]
  BY DEF IInv, AppsInv
<1>2. ASSUME NEW u \in Users, NEW p \in Pets, NEW id \in AppIds, Lifecycle!Apply(u, p, id)
      PROVE  AppsInv'
  <2>1. [user |-> u, pet |-> p, org |-> PetOrg[p], status |-> "submitted"] \in Applications
    BY DEF Applications, AppStatuses
  <2> QED BY <1>1, <1>2, <2>1 DEF Lifecycle!Apply, AppsInv
<1>3. ASSUME NEW id \in AppIds, NEW next \in AppStatuses, Lifecycle!Advance(id, next)
      PROVE  AppsInv'
  <2>1. [apps[id] EXCEPT !.status = next] \in Applications
    BY <1>1, <1>3 DEF Lifecycle!Advance, Applications
  <2> QED BY <1>1, <1>3, <2>1 DEF Lifecycle!Advance, AppsInv
<1>4. ASSUME NEW id \in AppIds, Lifecycle!Approve(id)
      PROVE  AppsInv'
  <2>1. [apps[id] EXCEPT !.status = "approved"] \in Applications
    BY <1>1, <1>4 DEF Lifecycle!Approve, Applications, AppStatuses
  <2> QED BY <1>1, <1>4, <2>1 DEF Lifecycle!Approve, AppsInv
<1>5. ASSUME NEW p \in Pets, NEW s \in PetStatuses, Lifecycle!Reopen(p, s)
      PROVE  AppsInv'
  BY <1>1, <1>5 DEF Lifecycle!Reopen, AppsInv
<1>6. AppsInv'
  BY <1>2, <1>3, <1>4, <1>5
     DEF Adopt, Lifecycle!Next, Lifecycle!AppStatuses, Lifecycle!PetStatuses,
         AppStatuses, PetStatuses
<1>7. Rests
  BY <1>6 DEF Rests, Adopt, IInv, TypeOK
<1> QED BY <1>7, RestStep

\* A review is made: it is due later than any listing has marked.
LEMMA CreateStep ==
  ASSUME IInv, NEW id \in ReviewIds, NEW a \in AppIds, NEW days \in DayInputs,
         Create(id, a, days)
  PROVE  IInv'
<1> DEFINE v == NewReview(a, days)
<1>1. v \in Reviews /\ v.status = "pending" /\ v.report = NoReport /\ v.due > today
  BY NewReviewRow DEF IInv, Create
<1> HIDE DEF v
<1>2. /\ reviews' \in [ReviewIds -> Reviews \cup {NoReview}] /\ reviews'[id] = v
      /\ \A d \in ReviewIds : d # id => reviews'[d] = reviews[d]
      /\ UNCHANGED <<pets, apps, inflight, today>>
  BY <1>1 DEF v, Create, IInv, TypeOK
<1>3. \A d \in Live' : d = id \/ (d \in Live /\ reviews'[d] = reviews[d])
  BY <1>2 DEF Live
<1>4. TypeOK' /\ AppsInv'
  BY <1>2 DEF IInv, TypeOK, AppsInv
<1>5. today \in Nat
  BY DEF IInv, TypeOK
<1>6. StatusTellsTheTruth'
  BY <1>1, <1>2, <1>3 DEF IInv, StatusTellsTheTruth
<1>7. DueInv' /\ MarkedInv'
  <2>1. v.due \in Int
    BY <1>1 DEF Reviews
  <2> QED BY <1>1, <1>2, <1>3, <1>5, <2>1 DEF IInv, DueInv, MarkedInv
<1>8. ListingIsCurrent'
  <2> SUFFICES ASSUME NEW h \in Handlers, inflight'[h].op = "list", NEW d \in Live',
                      Late(reviews'[d], inflight'[h].user, inflight'[h].marked)
               PROVE  reviews'[d].status # "pending"
    BY DEF ListingIsCurrent, Late
  <2>1. CASE d = id
    <3>1. inflight[h].marked \in Nat /\ inflight[h].marked <= today
      BY <1>2, ListingDay DEF IInv, MarkedInv
    <3>2. v.due \in Int /\ v.due < inflight[h].marked
      BY <1>1, <1>2, <2>1 DEF Late, Reviews
    <3> QED BY <1>1, <1>5, <3>1, <3>2
  <2>2. CASE d # id
    BY <1>2, <1>3, <2>2 DEF IInv, ListingIsCurrent, Late
  <2> QED BY <2>1, <2>2
<1> QED BY <1>4, <1>6, <1>7, <1>8 DEF IInv

\* A report is begun with a row of the table.
LEMMA SubmitReadStep ==
  ASSUME IInv, NEW h \in Handlers, NEW u \in Users, NEW id \in ReviewIds,
         NEW report \in Reports, SubmitRead(h, u, id, report)
  PROVE  IInv'
<1> DEFINE r == [op |-> "report", id |-> id, row |-> reviews[id], report |-> report]
<1>1. id \in Live /\ reviews[id] \in Reviews
  BY DEF SubmitRead, Live, IInv, TypeOK
<1>2. r \in Requests /\ r.op = "report" /\ r.row = reviews[id]
  BY <1>1 DEF Requests
<1>3. inflight' = [inflight EXCEPT ![h] = r] /\ UNCHANGED <<pets, apps, reviews, today>>
  BY DEF SubmitRead
<1> HIDE DEF r
<1>4. /\ inflight' \in [Handlers -> Requests] /\ inflight'[h] = r
      /\ \A g \in Handlers : g # h => inflight'[g] = inflight[g]
  BY <1>2, <1>3 DEF IInv, TypeOK
<1>5. TypeOK' /\ AppsInv' /\ Live' = Live
  BY <1>3, <1>4 DEF IInv, TypeOK, AppsInv, Live
<1>6. StatusTellsTheTruth'
  BY <1>3, <1>5 DEF IInv, StatusTellsTheTruth
<1>7. DueInv' /\ MarkedInv'
  BY <1>1, <1>2, <1>3, <1>4, <1>5 DEF IInv, DueInv, MarkedInv
<1>8. ListingIsCurrent'
  BY <1>2, <1>3, <1>4, <1>5 DEF IInv, ListingIsCurrent, Late
<1> QED BY <1>5, <1>6, <1>7, <1>8 DEF IInv

\* A report is stored: whatever row it read, the review is submitted.
LEMMA SubmitWriteStep ==
  ASSUME IInv, NEW h \in Handlers, SubmitWrite(h)
  PROVE  IInv'
<1> DEFINE r == inflight[h]
           v == [r.row EXCEPT !.status = "submitted", !.report = r.report]
<1>1. r.op = "report" /\ r.id \in ReviewIds /\ r.row \in Reviews /\ v \in Reviews
  BY ReportedRow DEF SubmitWrite, IInv
<1>2. v.status = "submitted" /\ v.due = r.row.due
  BY <1>1 DEF Reviews
<1>3. r.row.due > 0
  BY <1>1 DEF IInv, DueInv
<1>4. /\ reviews' = [reviews EXCEPT ![r.id] = v]
      /\ inflight' = [inflight EXCEPT ![h] = Idle]
      /\ UNCHANGED <<pets, apps, today>>
  BY DEF SubmitWrite
<1> HIDE DEF r, v
<1>5. /\ reviews' \in [ReviewIds -> Reviews \cup {NoReview}] /\ reviews'[r.id] = v
      /\ \A d \in ReviewIds : d # r.id => reviews'[d] = reviews[d]
  BY <1>1, <1>4 DEF IInv, TypeOK
<1>6. \A d \in Live' : d = r.id \/ (d \in Live /\ reviews'[d] = reviews[d])
  BY <1>5 DEF Live
<1>7. /\ inflight' \in [Handlers -> Requests] /\ inflight'[h].op = "idle"
      /\ \A g \in Handlers : g # h => inflight'[g] = inflight[g]
  BY <1>4 DEF IInv, TypeOK, Requests, Idle
<1>8. TypeOK' /\ AppsInv'
  BY <1>4, <1>5, <1>7 DEF IInv, TypeOK, AppsInv
<1>9. StatusTellsTheTruth'
  BY <1>2, <1>4, <1>5, <1>6 DEF IInv, StatusTellsTheTruth
<1>10. DueInv' /\ MarkedInv'
  BY <1>2, <1>3, <1>4, <1>5, <1>6, <1>7 DEF IInv, DueInv, MarkedInv
<1>11. ListingIsCurrent'
  BY <1>2, <1>5, <1>6, <1>7 DEF IInv, ListingIsCurrent, Late
<1> QED BY <1>8, <1>9, <1>10, <1>11 DEF IInv

\* A listing marks the user's reviews that are late today.
LEMMA MarkStep ==
  ASSUME IInv, NEW h \in Handlers, NEW u \in Users, MarkOverdue(h, u)
  PROVE  IInv'
<1> DEFINE r == [op |-> "list", user |-> u, marked |-> today]
<1>1. today \in Nat
  BY DEF IInv, TypeOK
<1>2. r \in Requests /\ r.op = "list" /\ r.user = u /\ r.marked = today
  BY <1>1 DEF Requests
<1>3. inflight' = [inflight EXCEPT ![h] = r] /\ UNCHANGED <<pets, apps, today>>
  BY DEF MarkOverdue
<1> HIDE DEF r
<1>4. /\ inflight' \in [Handlers -> Requests] /\ inflight'[h] = r
      /\ \A g \in Handlers : g # h => inflight'[g] = inflight[g]
  BY <1>2, <1>3 DEF IInv, TypeOK
<1>5. \A d \in Live : reviews[d] \in Reviews /\ d \in ReviewIds
  BY DEF IInv, TypeOK, Live
<1>6. \A d \in ReviewIds :
        reviews'[d] = IF d \in Live THEN Marked(reviews[d], u) ELSE NoReview
  BY DEF MarkOverdue
<1>7. reviews' \in [ReviewIds -> Reviews \cup {NoReview}]
  <2>1. \A d \in ReviewIds : reviews'[d] \in Reviews \cup {NoReview}
    BY <1>5, <1>6, MarkedRow
  <2> QED BY <2>1 DEF MarkOverdue
<1>8. Live' = Live
  <2>1. \A d \in Live : reviews'[d] # NoReview
    BY <1>5, <1>6, MarkedRow, RowsAssumption DEF RowsAssumption
  <2> QED BY <1>6, <2>1 DEF Live
<1>9. \A d \in Live :
        /\ reviews'[d].due = reviews[d].due /\ reviews'[d].user = reviews[d].user
        /\ reviews'[d].report = reviews[d].report
        /\ reviews'[d] = reviews[d]
           \/ (reviews[d].status = "pending" /\ reviews'[d].status = "overdue"
               /\ reviews[d].due < today)
        /\ Late(reviews[d], u, today) => reviews'[d].status # "pending"
  BY <1>5, <1>6, MarkedRow
<1>10. TypeOK' /\ AppsInv'
  BY <1>3, <1>4, <1>7 DEF IInv, TypeOK, AppsInv
<1>11. StatusTellsTheTruth'
  BY <1>3, <1>8, <1>9 DEF IInv, StatusTellsTheTruth
<1>12. DueInv' /\ MarkedInv'
  BY <1>1, <1>2, <1>3, <1>4, <1>8, <1>9 DEF IInv, DueInv, MarkedInv
<1>13. ListingIsCurrent'
  <2> SUFFICES ASSUME NEW g \in Handlers, inflight'[g].op = "list", NEW d \in Live,
                      Late(reviews'[d], inflight'[g].user, inflight'[g].marked)
               PROVE  reviews'[d].status # "pending"
    BY <1>8 DEF ListingIsCurrent, Late
  <2>1. Late(reviews[d], inflight'[g].user, inflight'[g].marked)
    BY <1>9 DEF Late
  <2>2. CASE g = h
    BY <1>2, <1>4, <1>9, <2>1, <2>2
  <2>3. CASE g # h
    BY <1>4, <1>9, <2>1, <2>3 DEF IInv, ListingIsCurrent
  <2> QED BY <2>2, <2>3
<1> QED BY <1>10, <1>11, <1>12, <1>13 DEF IInv

\* A listing that could not mark promises nothing: no review is late on day 0.
LEMMA MarkFailsStep ==
  ASSUME IInv, NEW h \in Handlers, NEW u \in Users, MarkFails(h, u)
  PROVE  IInv'
<1> DEFINE r == [op |-> "list", user |-> u, marked |-> 0]
<1>1. today \in Nat
  BY DEF IInv, TypeOK
<1>2. r \in Requests /\ r.op = "list" /\ r.user = u /\ r.marked = 0
  BY DEF Requests
<1>3. inflight' = [inflight EXCEPT ![h] = r] /\ UNCHANGED <<pets, apps, reviews, today>>
  BY DEF MarkFails
<1> HIDE DEF r
<1>4. /\ inflight' \in [Handlers -> Requests] /\ inflight'[h] = r
      /\ \A g \in Handlers : g # h => inflight'[g] = inflight[g]
  BY <1>2, <1>3 DEF IInv, TypeOK
<1>5. TypeOK' /\ AppsInv' /\ Live' = Live
  BY <1>3, <1>4 DEF IInv, TypeOK, AppsInv, Live
<1>6. StatusTellsTheTruth'
  BY <1>3, <1>5 DEF IInv, StatusTellsTheTruth
<1>7. DueInv' /\ MarkedInv'
  BY <1>1, <1>2, <1>3, <1>4, <1>5 DEF IInv, DueInv, MarkedInv
<1>8. ListingIsCurrent'
  <2> SUFFICES ASSUME NEW g \in Handlers, inflight'[g].op = "list", NEW d \in Live,
                      Late(reviews[d], inflight'[g].user, inflight'[g].marked)
               PROVE  reviews[d].status # "pending"
    BY <1>3, <1>5 DEF ListingIsCurrent, Late
  <2>1. CASE g = h
    <3>1. reviews[d].due \in Int /\ reviews[d].due > 0
      BY DEF IInv, DueInv, TypeOK, Live, Reviews
    <3> QED BY <1>2, <1>4, <2>1, <3>1 DEF Late
  <2>2. CASE g # h
    BY <1>4, <2>2 DEF IInv, ListingIsCurrent
  <2> QED BY <2>1, <2>2
<1> QED BY <1>5, <1>6, <1>7, <1>8 DEF IInv

\* A day passes: what was overdue is.
LEMMA NextDayStep == IInv /\ NextDay => IInv'
<1> SUFFICES ASSUME IInv, NextDay PROVE IInv'
  OBVIOUS
<1>1. /\ UNCHANGED <<pets, apps, reviews, inflight>>
      /\ today \in Nat /\ today' = today + 1 /\ today' \in 0..LastDay
  BY ReviewAssumption DEF ReviewAssumption, NextDay, IInv, TypeOK
<1>2. TypeOK' /\ AppsInv' /\ Live' = Live
  BY <1>1 DEF IInv, TypeOK, AppsInv, Live
<1>3. StatusTellsTheTruth'
  <2>1. \A id \in Live : reviews[id].due \in Int
    BY DEF IInv, TypeOK, Live, Reviews
  <2> QED BY <1>1, <1>2, <2>1 DEF IInv, StatusTellsTheTruth
<1>4. DueInv'
  BY <1>1, <1>2 DEF IInv, DueInv
<1>5. MarkedInv'
  BY <1>1, ListingDay DEF IInv, MarkedInv
<1>6. ListingIsCurrent'
  BY <1>1, <1>2 DEF IInv, ListingIsCurrent, Late
<1> QED BY <1>2, <1>3, <1>4, <1>5, <1>6 DEF IInv

\* Every step keeps the invariant.
LEMMA ReviewsStep == IInv /\ [Next]_vars => IInv'
<1> SUFFICES ASSUME IInv, [Next]_vars PROVE IInv'
  OBVIOUS
<1>0. Idle \in Requests /\ inflight \in [Handlers -> Requests]
  BY DEF Requests, IInv, TypeOK
<1>1. CASE Adopt
  BY <1>1, AdoptStep
<1>2. ASSUME NEW id \in ReviewIds, NEW a \in AppIds, NEW days \in DayInputs,
             Create(id, a, days)
      PROVE  IInv'
  BY <1>2, CreateStep
<1>3. ASSUME NEW h \in Handlers, Request(h)
      PROVE  IInv'
  <2>1. CASE ListRead(h) \/ Fail(h)
    <3>1. Rests
      BY <1>0, <2>1 DEF ListRead, Fail, Rests, IInv, AppsInv
    <3> QED BY <3>1, RestStep
  <2> QED BY <1>3, <2>1, SubmitReadStep, SubmitWriteStep, MarkStep, MarkFailsStep DEF Request
<1>4. CASE Crash \/ UNCHANGED vars
  <2>1. Rests
    BY <1>0, <1>4 DEF Crash, vars, Rests, IInv, AppsInv
  <2> QED BY <2>1, RestStep
<1>5. CASE NextDay
  BY <1>5, NextDayStep
<1> QED BY <1>1, <1>2, <1>3, <1>4, <1>5 DEF Next

(***************************************************************************)
(* The theorems.                                                           *)
(***************************************************************************)
\* Truthful rows and current listings come from reports that write whole rows and marks
\* that are conditional, whatever interleaves, fails or crashes.
THEOREM ReviewsInvariant == Spec => []IInv
<1>1. Init => IInv
  <2> SUFFICES ASSUME Init PROVE IInv
    OBVIOUS
  <2>1. /\ apps = SeedApps /\ today = 0 /\ Live = {}
        /\ inflight = [h \in Handlers |-> Idle]
        /\ reviews \in [ReviewIds -> {NoReview}]
    BY DEF Init, Lifecycle!Init, Live
  <2>2. \A h \in Handlers : inflight[h].op = "idle"
    BY <2>1 DEF Idle
  <2>3. TypeOK /\ AppsInv
    BY <2>1, RowsAssumption, ReviewAssumption
       DEF RowsAssumption, ReviewAssumption, TypeOK, AppsInv, Requests
  <2> QED BY <2>1, <2>2, <2>3
          DEF IInv, StatusTellsTheTruth, DueInv, MarkedInv, ListingIsCurrent
<1> QED BY <1>1, ReviewsStep, PTL DEF Spec

\* Every variable keeps its type: a report writes a row that was there.
THEOREM ReviewsTypeCorrect == Spec => []TypeOK
<1>1. IInv => TypeOK
  BY DEF IInv
<1> QED BY <1>1, ReviewsInvariant, PTL

\* A listing shows no review as pending that was late when it marked.
THEOREM ListingsAreCurrent == Spec => []ListingIsCurrent
<1>1. IInv => ListingIsCurrent
  BY DEF IInv
<1> QED BY <1>1, ReviewsInvariant, PTL

\* No review is overdue before its day, or carries a report without being submitted.
THEOREM RowsTellTheTruth == Spec => []StatusTellsTheTruth
<1>1. IInv => StatusTellsTheTruth
  BY DEF IInv
<1> QED BY <1>1, ReviewsInvariant, PTL

\* The step of ReportIsKept, for one review.
Kept(id) ==
  reviews[id].status = "submitted" =>
    /\ reviews'[id].status = "submitted"
    /\ \/ reviews'[id].report = reviews[id].report
       \/ \E h \in Handlers : /\ inflight[h].op = "report" /\ inflight[h].id = id
                              /\ reviews'[id].report = inflight[h].report

\* No step takes a report back.
LEMMA KeptStep ==
  ASSUME IInv, [Next]_vars, NEW id \in Live
  PROVE  Kept(id)
<1>1. id \in ReviewIds /\ reviews[id] \in Reviews
  BY DEF IInv, TypeOK, Live
<1>2. CASE reviews' = reviews
  BY <1>2 DEF Kept
<1>3. ASSUME NEW d \in ReviewIds, NEW a \in AppIds, NEW days \in DayInputs,
             Create(d, a, days)
      PROVE  Kept(id)
  <2>1. d # id
    BY <1>3 DEF Create, Live
  <2>2. reviews'[id] = reviews[id]
    BY <1>1, <1>3, <2>1 DEF Create, IInv, TypeOK
  <2> QED BY <2>2 DEF Kept
<1>4. ASSUME NEW h \in Handlers, SubmitWrite(h)
      PROVE  Kept(id)
  <2>1. /\ inflight[h].op = "report" /\ inflight[h].row \in Reviews
        /\ reviews' = [reviews EXCEPT ![inflight[h].id] =
             [inflight[h].row EXCEPT !.status = "submitted", !.report = inflight[h].report]]
    BY <1>4, ReportedRow DEF SubmitWrite, IInv
  <2>2. CASE inflight[h].id = id
    <3>1. reviews'[id] =
            [inflight[h].row EXCEPT !.status = "submitted", !.report = inflight[h].report]
      BY <1>1, <2>1, <2>2 DEF IInv, TypeOK
    <3>2. reviews'[id].status = "submitted" /\ reviews'[id].report = inflight[h].report
      BY <2>1, <3>1 DEF Reviews
    <3> QED BY <2>1, <2>2, <3>2 DEF Kept
  <2>3. CASE inflight[h].id # id
    <3>1. reviews'[id] = reviews[id]
      BY <1>1, <2>1, <2>3 DEF IInv, TypeOK
    <3> QED BY <3>1 DEF Kept
  <2> QED BY <2>2, <2>3
<1>5. ASSUME NEW h \in Handlers, NEW u \in Users, MarkOverdue(h, u)
      PROVE  Kept(id)
  <2>1. reviews'[id] = Marked(reviews[id], u)
    BY <1>1, <1>5 DEF MarkOverdue
  <2> QED BY <1>1, <2>1, MarkedRow DEF Kept
<1>6. \/ reviews' = reviews
      \/ \E d \in ReviewIds, a \in AppIds, days \in DayInputs : Create(d, a, days)
      \/ \E h \in Handlers : SubmitWrite(h)
      \/ \E h \in Handlers, u \in Users : MarkOverdue(h, u)
  BY DEF Next, Request, Adopt, SubmitRead, MarkFails, ListRead, Fail, Crash, NextDay, vars
<1> QED BY <1>2, <1>3, <1>4, <1>5, <1>6

\* A report that is in stays in, and only another report of the same review changes it.
THEOREM ReportsAreKept == Spec => ReportIsKept
<1>1. IInv /\ [Next]_vars => [\A id \in Live : Kept(id)]_vars
  BY KeptStep
<1>2. IInv /\ [Next]_vars =>
        [\A id \in Live :
           reviews[id].status = "submitted" =>
             /\ reviews'[id].status = "submitted"
             /\ \/ reviews'[id].report = reviews[id].report
                \/ \E h \in Handlers : /\ inflight[h].op = "report" /\ inflight[h].id = id
                                       /\ reviews'[id].report = inflight[h].report]_vars
  BY <1>1 DEF Kept
<1> QED BY <1>2, ReviewsInvariant, PTL DEF Spec, ReportIsKept

(***************************************************************************)
(* The abstract specification.  A report rests on columns that nobody      *)
(* changes: the review it carries differs from the table's at most in      *)
(* status and report.                                                      *)
(***************************************************************************)
SameReview(v, w) == v.app = w.app /\ v.user = w.user /\ v.due = w.due

CarriedInv ==
  \A h \in Handlers :
    inflight[h].op = "report" =>
      /\ inflight[h].id \in Live
      /\ SameReview(inflight[h].row, reviews[inflight[h].id])

\* A step keeps what reports carry if it starts none, and makes no other review of one
\* that is there.
LEMMA CarriedOver ==
  ASSUME CarriedInv,
         \A h \in Handlers : inflight'[h].op = "report" => inflight'[h] = inflight[h],
         \A id \in Live : id \in Live' /\ SameReview(reviews[id], reviews'[id])
  PROVE  CarriedInv'
BY DEF CarriedInv, SameReview

\* A row with a report in it.
Reported(v, c) == [v EXCEPT !.status = "submitted", !.report = c]

\* A report stored over the row that was read or over the present one: the same row.
LEMMA ReportSettles ==
  ASSUME NEW v \in Reviews, NEW w \in Reviews, SameReview(v, w), NEW c \in Reports
  PROVE  Reported(v, c) = Reported(w, c)
BY DEF Reported, SameReview, Reviews

\* A report in progress, and the row it is about.
LEMMA CarriedRow ==
  ASSUME IInv, CarriedInv, NEW h \in Handlers, inflight[h].op = "report"
  PROVE  /\ inflight[h].id \in Live /\ inflight[h].report \in Reports
         /\ inflight[h].row \in Reviews /\ reviews[inflight[h].id] \in Reviews
         /\ SameReview(inflight[h].row, reviews[inflight[h].id])
BY ReportedRow DEF IInv, TypeOK, CarriedInv, Live

\* Every step keeps what reports carry.
LEMMA CarriedStep == IInv /\ CarriedInv /\ [Next]_vars => CarriedInv'
<1> SUFFICES ASSUME IInv, CarriedInv, [Next]_vars PROVE CarriedInv'
  OBVIOUS
<1>0. /\ inflight \in [Handlers -> Requests] /\ Idle.op = "idle"
      /\ reviews \in [ReviewIds -> Reviews \cup {NoReview}] /\ NoReview \notin Reviews
      /\ \A id \in Live : id \in ReviewIds /\ reviews[id] \in Reviews
  BY RowsAssumption DEF RowsAssumption, IInv, TypeOK, Live, Idle
<1>1. ASSUME NEW d \in ReviewIds, NEW a \in AppIds, NEW days \in DayInputs,
             Create(d, a, days)
      PROVE  CarriedInv'
  <2>1. \A id \in Live : id # d /\ reviews'[id] = reviews[id]
    BY <1>0, <1>1 DEF Create, Live
  <2> QED BY <1>0, <1>1, <2>1, CarriedOver DEF Create, Live, SameReview
<1>2. ASSUME NEW h \in Handlers, NEW u \in Users, NEW id \in ReviewIds,
             NEW report \in Reports, SubmitRead(h, u, id, report)
      PROVE  CarriedInv'
  <2>1. /\ inflight'[h].id = id /\ inflight'[h].row = reviews[id] /\ id \in Live
        /\ \A g \in Handlers : g # h => inflight'[g] = inflight[g]
        /\ reviews' = reviews /\ Live' = Live
    BY <1>0, <1>2 DEF SubmitRead, Live
  <2> QED BY <2>1 DEF CarriedInv, SameReview
<1>3. ASSUME NEW h \in Handlers, SubmitWrite(h)
      PROVE  CarriedInv'
  <2> DEFINE r == inflight[h]
             v == [r.row EXCEPT !.status = "submitted", !.report = r.report]
  <2>1. /\ r.id \in Live /\ r.row \in Reviews /\ v \in Reviews
        /\ SameReview(r.row, reviews[r.id])
    BY <1>3, CarriedRow, ReportedRow DEF SubmitWrite, IInv
  <2>2. SameReview(reviews[r.id], v)
    BY <2>1 DEF SameReview, Reviews
  <2>3. reviews' = [reviews EXCEPT ![r.id] = v] /\ inflight' = [inflight EXCEPT ![h] = Idle]
    BY <1>3 DEF SubmitWrite
  <2> HIDE DEF r, v
  <2>4. \A id \in Live : id \in Live' /\ SameReview(reviews[id], reviews'[id])
    BY <1>0, <2>1, <2>2, <2>3 DEF Live, SameReview
  <2> QED BY <1>0, <2>3, <2>4, CarriedOver
<1>4. ASSUME NEW h \in Handlers, NEW u \in Users, MarkOverdue(h, u)
      PROVE  CarriedInv'
  <2>1. \A id \in Live : reviews'[id] = Marked(reviews[id], u)
    BY <1>0, <1>4 DEF MarkOverdue
  <2>2. ASSUME NEW id \in Live
        PROVE  id \in Live' /\ SameReview(reviews[id], reviews'[id])
    <3>1. reviews'[id] \in Reviews /\ SameReview(reviews[id], reviews'[id])
      BY <1>0, <2>1, MarkedRow DEF SameReview
    <3> QED BY <1>0, <3>1 DEF Live
  <2>3. \A g \in Handlers : inflight'[g].op = "report" => inflight'[g] = inflight[g]
    BY <1>0, <1>4 DEF MarkOverdue
  <2> QED BY <2>2, <2>3, CarriedOver
<1>5. ASSUME NEW h \in Handlers, NEW u \in Users, MarkFails(h, u)
      PROVE  CarriedInv'
  BY <1>0, <1>5, CarriedOver DEF MarkFails, Live, SameReview
<1>6. ASSUME reviews' = reviews,
             \A g \in Handlers : inflight'[g] \in {Idle, inflight[g]}
      PROVE  CarriedInv'
  BY <1>0, <1>6, CarriedOver DEF Live, SameReview
<1>7. ASSUME NEW h \in Handlers, ListRead(h) \/ Fail(h)
      PROVE  CarriedInv'
  BY <1>0, <1>6, <1>7 DEF ListRead, Fail
<1>8. CASE Adopt \/ Crash \/ NextDay \/ UNCHANGED vars
  BY <1>0, <1>6, <1>8 DEF Adopt, Crash, NextDay, vars
<1> QED BY <1>1, <1>2, <1>3, <1>4, <1>5, <1>7, <1>8 DEF Next, Request

\* Every step is one of the abstract specification or leaves the table and the day alone.
LEMMA BookStep == IInv /\ CarriedInv /\ [Next]_vars => [Book!Next]_(Book!book)
<1> SUFFICES ASSUME IInv, CarriedInv, [Next]_vars PROVE [Book!Next]_(Book!book)
  OBVIOUS
<1>0. /\ reviews \in [ReviewIds -> Reviews \cup {NoReview}] /\ NoReview \notin Reviews
      /\ \A id \in Live : id \in ReviewIds /\ reviews[id] \in Reviews
  BY RowsAssumption DEF RowsAssumption, IInv, TypeOK, Live
<1>1. ASSUME NEW id \in ReviewIds, NEW a \in AppIds, NEW days \in DayInputs,
             Create(id, a, days)
      PROVE  Book!Next
  <2> DEFINE term == IF days <= 0 THEN DefaultDays ELSE days
  <2>1. term \in Terms
    BY DEF Terms
  <2>2. Book!Schedule(id, a, term)
    BY <1>1 DEF Create, NewReview, DueDate, Book!Schedule
  <2> QED BY <2>1, <2>2 DEF Book!Next
<1>2. ASSUME NEW h \in Handlers, SubmitWrite(h)
      PROVE  Book!Next
  <2> DEFINE r == inflight[h]
             v == reviews[r.id]
             row == r.row
             report == r.report
  <2>1. /\ r.id \in Live /\ report \in Reports /\ row \in Reviews /\ v \in Reviews
        /\ SameReview(row, v)
    BY <1>2, CarriedRow DEF SubmitWrite
  <2>2. Reported(row, report) = Reported(v, report)
    <3> HIDE DEF row, report, v
    <3> QED BY <2>1, ReportSettles
  <2>3. reviews' = [reviews EXCEPT ![r.id] = Reported(v, report)] /\ UNCHANGED today
    BY <1>2, <2>2 DEF SubmitWrite, Reported
  <2>4. Book!Report(r.id, r.report)
    BY <1>0, <2>1, <2>3 DEF Book!Report, Live, Reported
  <2> QED BY <1>0, <2>1, <2>4 DEF Book!Next
<1>3. ASSUME NEW h \in Handlers, NEW u \in Users, MarkOverdue(h, u)
      PROVE  Book!Next
  <2>1. ASSUME NEW id \in ReviewIds
        PROVE  (IF id \in Live THEN Marked(reviews[id], u) ELSE NoReview)
                 = IF Book!Missed(id, u) THEN [reviews[id] EXCEPT !.status = "overdue"]
                   ELSE reviews[id]
    BY DEF Live, Marked, Late, Book!Missed
  <2>2. Book!Mark(u)
    BY <1>3, <2>1 DEF MarkOverdue, Book!Mark
  <2> QED BY <2>2 DEF Book!Next
<1>4. CASE NextDay
  BY <1>4 DEF NextDay, Book!PassDay, Book!Next
<1>5. CASE reviews' = reviews /\ today' = today
  BY <1>5 DEF Book!book
<1> QED
  BY <1>1, <1>2, <1>3, <1>4, <1>5
     DEF Next, Request, Adopt, SubmitRead, MarkFails, ListRead, Fail, Crash, vars

\* Although a report reads a row and later writes all of it back, every reader of the
\* table sees atomic operations: nothing is lost to races with marks, other reports,
\* failures or crashes.
THEOREM ReviewsImplementBook == Spec => ImplementsBook
<1>1. Init => CarriedInv /\ Book!Init
  BY DEF Init, CarriedInv, Idle, Book!Init
<1>2. IInv /\ CarriedInv /\ [Next]_vars => [Book!Next]_(Book!book)
  BY BookStep
<1> QED
  BY <1>1, <1>2, ReviewsInvariant, CarriedStep, PTL
     DEF Spec, ImplementsBook, Book!Spec
=============================================================================
