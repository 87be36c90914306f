# Verification of the pet adoption platform

TLA+ models of the adoption platform in this repository (a Go/Gin/GORM backend
over PostgreSQL 16 and Redis, a React frontend), the TLC configurations that
check them on small instances, and TLAPS proofs of what matters most for every
value of the constants. Paths below are relative to `src/`; `internal/` stands
for `backend/internal/`.

    tlc -workers 2 -config AdoptionConcurrent.cfg MCAdoption   # one run
    tlapm AdoptionProofs.tla                                   # one proof module

`PROJECT.json` lists every run, the mutants that show each property is sensitive
to the code, the source lines behind every definition, the hazards and the
theorems.

## 1. The system

### How requests run

Every HTTP request is a goroutine. `router/router.go` chains middleware (logger,
CORS, recovery, error handler, `AuthRequired`, `RequireRole`, the limiter) before
a handler; the handler calls one service method, the service calls repositories,
and each repository call is one statement sent to PostgreSQL. Three facts
shape everything that is hard here:

* Only three service methods open a transaction (`ApplicationService.Submit`, the
  approval in `ApplicationService.UpdateStatus`, `CommentService.Create`), and only
  around their *writes*. What a request read and checked before may be stale
  by the time it writes. PostgreSQL runs at its default level, READ COMMITTED,
  and nothing takes row locks before the write.
* GORM's `Save` writes the whole row by primary key. There is no version column:
  the later of two writers wins, on all columns.
* The process restarts on failure (`docker-compose.yml`, `restart:
  unless-stopped`); whatever was committed stays, goroutines and the limiter's map
  are gone.

### Components

| Component | State | Operations that change it | Interacts with | What makes it correct |
|---|---|---|---|---|
| Adoption applications (`service/application_service.go`) | table `adoption_applications`: user, pet, org, status | `Submit`, `UpdateStatus` | pets (reserves and hands over), organizations (permission) | status follows `NextApplicationStatuses`; one application per user and pet; a pet is reserved while somebody applies, adopted exactly on approval |
| Pets (`service/pet_service.go`) | table `pets`: org, status, description | `Publish`, `UpdateStatus` | applications write its status; home page lists it | status agrees with its applications unless the organization overrides it |
| Visit reviews (`service/review_service.go`) | table `visit_reviews`: due date, status, photos, note | `Create`, `Submit`, and `ListByUser`, which marks late reviews overdue | reads applications | reports are not lost; overdue means late; a listing is as current as its mark |
| Rate limiter (`middleware/rate_limiter.go`) | in memory: IP -> (count, resetAt), under a mutex | `Limit` on every limited route | runs before handlers | bounded bursts; refusals end |
| Home page (`handler/home_handler.go`) | one Redis key with a 30 s life | `Overview` (cache-aside fill) | pets, posts, organizations | the page is never too old; it settles |
| Organizations (`service/organization_service.go`) | table `organizations`: owner, status | `Register`, `Review` | permission of everything an organization does | only approved ones publish and receive; one user, one organization it manages |
| Donations (`service/donation_service.go`) | `donations`, `donation_usages` | `Donate`, `CreateUsage` | organizations | positive amounts to approved organizations |
| Posts and comments (`service/post_service.go`, `comment_service.go`) | `community_posts` with two counters, `post_comments` | `Create`, `Like`, comment `Create` and `Delete` | home page | counters agree with rows |
| Favorites (`service/favorite_service.go`) | `favorites`, unique index | `Add`, `Remove` | the favorite button of the frontend | an answer tells the state |
| Users and tokens (`service/user_service.go`, `util/jwt.go`, `middleware/auth.go`) | `users`; a JWT held by the client | `Register`, `Login`, `UpdateProfile` | every authenticated route | profile updates are kept; a token names its user and role |
| Startup (`backend/cmd/server`, `database/init.sql`) | the whole database, the processes | `init.sql`, `migrate`, `seed`, listening, shutdown | everything | demo rows are inserted once and refer to rows that are there; servers come up and stop |
| Frontend stores (`frontend/src/stores`, `utils/request.ts`, `pages/Profile.tsx`) | token (twice), user, profile, form; the list shown | login, logout, load and save of the profile, searches | the API, other tabs through localStorage | nobody's values end in another account; a session ends for a reason |
| Upload, statistics, formatting, DTOs, logging, CORS | none of their own | - | - | unit tests cover them |

### What is hard to test

`PROJECT.json` ("hazards") lists each at its line. In short: checks made on a row
that another goroutine rewrites before the write (submissions, status changes,
reviews, publications, donations, comments, favorites); a failure or crash between two statements; a
listing that marks and then reads in two statements while reports come in; clock
readings taken before a lock; registrations that commit out of the order of
their ids; cache fills that finish out of order; a client
that asks again and again while it is refused; a seed without a transaction that
two servers start at once or that is cut off anywhere; a token kept in two places;
answers that arrive after the page, the session or the account has changed.

## 2. Modules and how they correspond to the code

| Module | Models | EXTENDS / INSTANCE |
|---|---|---|
| `AdoptionStatus` | the status vocabularies and `NextApplicationStatuses` (`constants/`) | - |
| `AdoptionLifecycle` | the abstract specification: `Submit` and `UpdateStatus` as atomic operations on the two tables | `AdoptionStatus` |
| `Adoption` | the same operations as the goroutines perform them | `AdoptionStatus`, `INSTANCE AdoptionLifecycle` |
| `AdoptionProofs` | 9 theorems about `Adoption` | `Adoption` |
| `ReviewBook` | the abstract specification of the reviews: scheduling, reporting and marking as atomic operations on the table | - |
| `VisitReviews`, `VisitReviewsProofs` | reviews, reports, overdue marks and the calendar, over applications that move as in `AdoptionLifecycle`, 5 theorems | `AdoptionStatus`, `INSTANCE AdoptionLifecycle`, `INSTANCE ReviewBook` |
| `Shelter`, `ShelterProofs` | organizations, and what approved ones publish, receive and account for, 6 theorems | - |
| `Community`, `CommunityProofs` | posts, comments, counters, favorites, 5 theorems | - |
| `RateLimiter`, `RateLimiterProofs` | the limiter with goroutines waiting for its mutex, 5 theorems | - |
| `HomeCache`, `HomeCacheProofs` | `Overview`, Redis and the changing lists, 3 theorems | - |
| `Startup`, `StartupProofs` | `init.sql`, the migration, the seed, the start and the stop of servers, 5 theorems | - |
| `Session`, `SessionProofs` | a page of the front end with its requests, tokens and the users API, 4 theorems | - |
| `MC...` | constants of the small instances | their component |

### Adoption

`pets[p]` is the column `pets.status`; `apps[id]` a row of
`adoption_applications` (questionnaire and timestamps left out: nothing reads
them); `inflight[h]` the request a goroutine is serving, with what it has read;
`trail`, `handset` and `unaware` are history variables that only properties read. A step
is a database call that matters to somebody else:

* `SubmitReadPet`, `SubmitLookup`, `SubmitWrite`: `Submit` reads the pet, looks
  for an earlier application of the user, then inserts the application and saves
  the pet in one transaction. The lookup refuses only when it *finds* a row: when
  it fails the submission goes on, and a row it inserts beside an earlier one of the same
  user is one of the `unaware`.
* `MoveRead`, `MoveWrite`: `UpdateStatus` reads the row, checks role, ownership and
  transition, and saves. `FindByUserID` takes the organization with the smallest
  id, so the owner of two manages only the first. An approval saves row and
  pet in one transaction.
* `SetPetStatus`: `PetService.UpdateStatus`. It checks only columns that never
  change and overwrites the status, so its read and write are one step.
* `Fail`: a database error or a panic ends the handler (`error_handler.go`
  recovers); an open transaction rolls back. `Crash`: every goroutine is gone.

Since after the insert only the status column of these rows ever changes, the
whole-row `Save` is an assignment of the status. A request refused at its
first read changes nothing and is no step.

`Init` has the seed's rows: `seed` inserts a submitted application past `Submit`,
so its pet is still on offer. `handset` counts that as the word of
the organization; otherwise `AppliedPetReserved` would be false from the start.

`IsolatedSpec` is the same goroutines with a guard that no two requests about the
same pet overlap (requests about different pets still do). *The code has no such
guard*: it is an assumption about the callers, true on a server with little traffic, and
it would be true of the code if each request began by locking the row of its pet. It
drops nothing else: lookups fail, handlers fail, the process crashes. So what holds there
and not under `Spec` is what is lost to overlap, and it says nothing of the hazards that
are overlap: for those there are the properties of `Spec`.

### VisitReviews

`reviews[id]` is a row of `visit_reviews`; `due` and `today` are days, as
`due_date` is a DATE. `Create` reads only constant columns of the application, so it
is one step; it checks no status. `SubmitRead`/`SubmitWrite` carry the *whole row*
read, which the write puts back with the report. `MarkOverdue` is the single
conditional UPDATE; `MarkFails` its failure, which the code only logs;
`ListRead` the SELECT after it. `ListByOrg` changes nothing and marks nothing.
A report may be empty (`NoReport`): no field of `ReviewSubmitRequest` is required.

`ReviewBook` is what the service promises: `Schedule`, `Report`, `Mark` (all the missed
reviews of one user) and `PassDay`, each at once on the table. `Book` instantiates it with the
same `apps`, `reviews` and `today`; goroutines have no counterpart in it.

Two simplifications. The code reads `time.Now()` just before the INSERT or the UPDATE that
uses it (`review_service.go:41`, `visit_review_repository.go:53`); the model reads it in
the same step, so a request that is between the two at midnight uses today's date where
the code uses yesterday's: a due date, or a mark, is a day earlier than the
model's. And lookups of an earlier application do not fail here: a second application of
one user is, to its reviews, what another user's is.

### Shelter

`orgs[o]` is a row of `organizations`, `pets[p]` the column `pets.org_id`,
`donations` and `usages` the two tables; `inflight[h]` the request a goroutine is
serving, with the organization it has checked; `given` and `late` are history.

* `RegisterInsert`, `RegisterCommit`: an INSERT takes its id from a PostgreSQL
  sequence when it runs and is visible when it commits, so two overlapping
  registrations may appear in the other order than their ids, and an id that is
  rolled back is never used again. Nothing keeps a user from registering twice.
* `FindByUserID`: GORM's `First` orders by the primary key: the smallest id of the
  user's organizations. `Publish`, `canManage` and `CreateUsage` all use it.
* `PublishCheck`/`PublishInsert`, `DonateCheck`/`DonateInsert`: the approval is read
  in one query and the row inserted in a later one. `UsageCheck`/`UsageInsert`:
  `CreateUsage` looks at the owner only, neither at the approval nor at the amount.
* `Review`: any status over any other. Nothing else of an organization ever changes,
  so its read and whole-row save are one step.
* Amounts are integers in tenths of a cent, and `Cents` is what a column of
  NUMERIC(12,2) makes of one. `SumByOrg` filters by the status "success", which
  is the only one `Donate` writes.

`Init` has the organizations of a seed that was cut off before its pets and is
never resumed (`migrate.go:34-37` skips it once a user exists). A complete seed
also has pets and donations, rows that no action changes and that add the same
amount to both sides of `TotalsAreFair`.

### Community

`posts[p]` holds the two counters of a row of `community_posts`, `comments[c]` a
row of `post_comments`, `favorites[u]` the id of the user's row for *one* target:
requests about different targets touch different rows. `deleted`, `gone` (how many of
a post's comments were deleted) and `liked` are history variables.

* `CommentCheck`, `CommentWrite`: the post is looked up, then the comment inserted and
  the counter incremented by the database in one transaction. `Like` is one UPDATE.
* `DeleteCheck`, `DeleteRow`: the author is checked (`MayDelete`) on the row as read, then
  the row deleted by id in a later query, which does not look at the author; the answer is "deleted" only if a row was affected. The counter stays.
* `Add` is one INSERT that the unique index refuses when there is a row, its
  id being lost; `RemoveFind`, `RemoveDelete`: the row is found, then deleted by the id
  that was found.

### RateLimiter

`buckets[c]` is the entry of `limits`, `waiting[h]` a goroutine between
`time.Now()` and `mu.Lock()`. Time is relative (`left` until `resetAt`, `age` of a
clock reading), so time goes on for ever over a finite state space and
liveness can be checked. Count saturates at `Reqs + 1`, since it is only compared
with `reqs`; `left` saturates where every goroutine finds the bucket expired.
`since` is a history variable: how many requests were admitted, by how long ago at most
they arrived. The counts are cumulative, so that a burst is a difference of two of them
(`Burst`) and nothing is summed up. The age of a clock reading is bounded (`MaxAge`):
`BurstBounded` is worth that much, since a goroutine that the scheduler leaves waiting
for longer brings an older reading.

### HomeCache

`cache` is the Redis entry, `filling[h]` a request that missed it. A list is
not its contents but for how long it has been outdated; every change counts.
The three lists are read by queries that ignore the request's 5 s context, so a
fill may be slow, but the SET uses that context: `InTime`. `Timeout` includes
a command already under way when the context expires. Redis itself
(`Evict`, `Tick`) is modelled from how `util/redis_client.go` uses it and marked
external where it has no line in the repository.

### Startup

`db` is the database container, `copies[i]` how often the `i`-th demo item is in the
database, `at[s]` and `pos[s]` what the process `s` is doing and at which table or
item. An item is one call of `Create` in `seed`: an account, an organization, or all
rows of a further table.

* `ScriptTable`, `ScriptInsert`, `ScriptDone`: `init.sql`, which the container runs on a
  fresh volume, one committed statement at a time, closed to the outside. If it
  dies, `DbRestart` finds a volume with data and runs nothing: the rest is left to
  `main`.
* `Start`, `MigrateTable`, `CountUsers`, `CreateSeed`, `CreateRefused`, `PingRedis`,
  `EnsureBucket`: `main` in its order. The count of users is read once; after that
  only the unique user name stops a second seed. `Fail` is any error: `main` exits
  and `restart: unless-stopped` starts it again.
* `Unstorable` are the two calls of `Create` that PostgreSQL refuses whatever happens: `seed`
  leaves `Images` of the posts and `Photos` of the review empty (`migrate.go:82-86` and
  `120-123`), and GORM inserts the empty string into a column of type `json` or `jsonb`
  (`community_post.go:12`, `visit_review.go:21`). So `seed` gets as far as the pets and
  always ends `main` at the posts (`CreateRefused`); the next start finds users and
  skips it. The rows after the pets come from `init.sql` only.
* `Register` (a visitor takes a name), `Accept`/`Finish` (requests), `Stop`, `Drained`,
  `GraceOver`, `Kill`, `Up`: SIGTERM is handled only from the moment `main` listens,
  before it ends the process at once; `Shutdown` waits five seconds at most.

The second server is an instance run beside the container; it also stands for the last
statement of a process that is dead already, which PostgreSQL may still commit while
the next process starts. Two consequences the model shows but no property forbids: without
`init.sql` the first start of every server that seeds fails at the posts, and a second one
serves an installation without demo posts, donations and applications; and a seed
that was cut off after its first account is never resumed, so that, since no code gives an
account the role `org` or `admin` except the seed, such an installation has no
shelter and no adopter account (`README.md:19` promises three).

### Session

One tab of a browser and the users API. `local` is the token in localStorage, `token`
the store's copy; `profile` the profile store, `form` the form of `Profile.tsx`;
`calls[c]` a request with the token its interceptor put on it, the form it carries or
will fill, what the server has read for it, and whether the page still waits.
Accounts keep two fields that stand for all that `UpdateProfile` merges (`bio` is in
the form but never stored). History: `typed`, what was last asked for in each field;
`missed[c]`, what others have set since the save `c` read the row, and `lost`, what a save
has put back; `seen`, the accounts whose profile the page has asked for since it was
loaded, and `exposed`, those that have signed in where another had been seen (or, in another
tab, where another was signed in).

* `Submit`, `Logout`, `Reload`, `OpenProfile`, `LeaveProfile`, `Save` are what the
  user of the page does. `OpenProfile` sends a load that carries the profile of *before*
  the load: the effect's closure fills the form with that, and no logout clears the store.
* `Deliver` is an answer: `Welcome` (login, register), `SetUser` (`fetchProfile`),
  `SetProfile` (load and save), and for a 401 of any request `SignOut`, which removes
  whatever token localStorage holds and leaves the store's.
* `Fail` is every other error and the timeout after 15 s; a request that writes may then
  go on at the server.
* `Register`, `Login`, `Deny`, `GetProfile`, `SaveRead`, `SaveWrite`, `Drop` are the server.
  A save reads the row, merges what is not empty and writes the whole row. `Expire` ends
  a token's validity; `OtherTab` signs in or out in another tab.

The page may start signed in with the user fetched and the profile shown: states it can
be in after an earlier request. Accounts change only through this page; another
device that saves the same account is another save that overlaps. After a
transient failure of `fetchProfile` the user stays null until the next reload.

### Operators marked "Wrong on purpose"

Each is the form a plausible bug would give the definition below it (a dropped
guard, a boundary off by one, a missing reset). No specification uses them;
`PROJECT.json` ("mutants") names for each property one that, put in the place of
the right definition, makes the property fail under the run's own configuration.

## 3. Runs

| Run | Asks | Bounds | Result |
|---|---|---|---|
| `adoption_concurrent` | what survives any interleaving | 1 pet, an adopter and an organization's owner, 2 application rows, 2 goroutines, lookup errors, crashes | holds (4.0 million states) |
| `adoption_isolated` | whether requests that do not overlap on a pet are the atomic operations | 2 pets, 2 rows of which one is seeded, 2 goroutines, lookup errors, crashes | holds (0.6 million) |
| `adoption_race` | whether every committed change is a transition of the state machine | as the first | violated: see findings |
| `visit_reviews` | whether reports, marks and listings spoil each other, and are atomic to a reader | 2 reviews, 2 goroutines, days 0 to 3, an empty and a full report, inputs -1 and 1 for the days, default 2 | holds (0.5 million) |
| `reviews_unapproved` | whether reviews are only for approved applications | as above | violated: see findings |
| `shelter` | what a revoked approval still lets through, who manages what, what totals show | 1 owner with up to 3 organizations, 2 pets, a donation, a usage, 2 goroutines, amounts of -0.5, 0.4 and 2.9 cents | holds (0.8 million) |
| `shelter_owners` | whether the owner of a pet's organization manages the pet | up to 2 organizations | violated: see findings |
| `community` | counters against rows, stale deletions | 2 users, a post of the seed and a new one, 3 comment and 3 favorite ids, a like each, 2 goroutines | holds (1.2 million) |
| `rate_limiter` | worst burst, order of windows, deserved refusals that end | 1 client, 3 goroutines, limit 3, window 1, readings up to 2 ticks old | holds (0.26 million) |
| `home_cache` | staleness and settling | 3 lists, 2 fills, timeout 1, life 2 | holds (0.6 million) |
| `startup` | what a cut-off or doubled start leaves behind, whether servers come up and stop | 2 servers, 12 demo items, 10 tables, 1 request each, 2 faults | holds (0.1 million) |
| `session` | overlapping saves, the form across sign-ins, what ends a session | 2 people, 2 requests at a time, 3 in all, 2 tokens | holds (2.5 million) |

Why the bounds are enough to be interesting. *Adoption*: two goroutines suffice for
every overlap of a read with another's write; two rows for a double submission (a
third, or a goroutine on its way to insert one, would be one too many for `DuplicatesOverlap`);
one pet is where they meet, and the isolated run has two pets so that requests
still interleave. The adopter, the owner and their roles reach every branch of the
permission checks but the administrator's, which allows a superset. *Reviews*: three
days past creation give a due date, the day itself and the day after for both
inputs and for the default. *Shelter*: three ids give two overlapping registrations beside an organization
that is there, in both orders; with 2 pets and a donation more rows can be late than
there are goroutines. The amounts are one that rounds to nothing, one that
rounds up and the half cent of a usage. The ids of the model may run out, since each registration
that is rolled back uses one up: `CHECK_DEADLOCK FALSE` in the two
Shelter runs is for that, and for nothing in the code. *Community*: the new post starts at
0, so its counters have nothing to spare; three favorite ids allow an
add, a removal, an add and a late deletion. *Limiter*: readings older than a whole window are
included (`MaxAge` > `Window`), so that a late goroutine can find a bucket created
after its arrival. Three goroutines and a limit of three make the worst burst
attain its bound (a bound smaller by one is violated), so it is not slack. One client is
enough: others have buckets and counts of their own and share only the goroutine slots,
and the proofs are for any number of them. *Cache*:
a fill may outlive its timeout, be overtaken by another fill and by changes
of every list. *Startup*: two servers race through the count and the first insert;
two faults cut off `init.sql` or the first seed and then the one after it; one request is
enough to hang. *Session*: two requests give overlapping saves, or an answer of one
account that arrives under the other; the third is the sign-in between them or the save
of a form that a late load has filled; two tokens are a session and the one before
it. The start from a signed-in page spares a request in each.

The bounds by name: `Users`, `Pets`, `AppIds`, `Handlers`, `ReviewIds`, `Reports`,
`LastDay`, `MaxAge`, `MaxOrg`, `PetIds`, `DonationIds`, `UsageIds`, `Amounts`,
`MaxComment`, `MaxLikes`, `MaxFavorite`, `Servers`, `MaxRequests`, `MaxFaults`,
`Calls`, `MaxTokens` in the models; `SYMMETRY` permutes goroutines and ids that no
definition tells apart, and is used only in runs without liveness.

### Properties

* `NoStageSkipped`: lost updates may move an application back or overturn a decision,
  but one that is approved has been through every stage, in committed rows.
* `AppliedPetReserved`, `RacingSubmitsBounded`: no request reopens a pet somebody
  applied for; overlapping submissions may all get through, but never more than there
  are goroutines at work.
* `ApprovalAdoptsPet`: approval and hand-over are one event in both directions.
* `DuplicatesOverlap`: what becomes of "already applied" where submissions race and lookups
  fail. A user may have several applications for a pet, but those that did not get past
  a failed lookup are one burst of goroutines, which all looked before the first of
  them inserted: once there is a row, nobody joins, however often the pet is reopened.
* `PetFollowsApplication`, `ImplementsLifecycle`: what holds in addition when requests do
  not overlap.
* `ReportIsKept`, `StatusTellsTheTruth`, `ListingIsCurrent`: races between reports, marks
  and listings do no harm. `ListingIsCurrent` is not obvious: a write of an older
  row could undo a mark; it does not, because that write also makes it submitted.
* `ImplementsBook`: a reader of the table sees the atomic operations of `ReviewBook`,
  although a report reads a row and later writes back all of it. What an interleaved mark
  did to the row is overwritten, but by the same status that the report would have given
  the marked row.
* `RevocationTakesHold`: after an approval is taken back at most as many pets and
  donations still arrive as there are goroutines, however long the organization
  tries: the check comes before the insert, and every late row uses up a check.
* `ManagerIsSettled`: `FindByUserID` may change its answer for a user who has an
  organization, but only to one whose registration was under way before, and no
  new one joins these. It rests on ids that only grow and are never reused.
* `TotalsAreFair`: the total shown differs from what was given by no more than half a cent
  per donation; donations may be stored as 0.00. The run has one donation, the theorem
  any number.
* `CountersAddUp`: what a counter shows, to the last one. Comments: the rows there are, those
  deleted since (a deletion leaves its counter), and what the seed gave the post
  without rows; likes: the requests, and what the seed gave. So the drift from the rows is
  the deletions and nothing else: no increment is lost to a race or to a rollback, and
  none is made twice.
* `OnlyAuthorsDelete`: no comment disappears but by a request of its author. The check and
  the deletion are two queries and only the id connects them; ids are never reused.
* `DeletedOnce`, `RemoveSparesNew`: of racing deletions one succeeds; a late removal
  never takes a favorite that was added after it began.
* `BurstBounded`: what a client gets through in one window's length: twice the limit,
  which a fixed window admits, and a few more, since clocks are read before the
  lock. `WindowsDoNotOverlap` is its reason, `ClientIsServed` the liveness.
* `RefusalsAreDeserved`: a client is refused only if it got its limit through since a
  window and one wait for the lock before the request; a late clock reading never
  charges a client for a window it has left behind for longer.
* `StalenessBounded`, `PageSettles`: the page is out of date for less than timeout plus
  life; once the lists rest, it shows them and stays right.

* `SeededOnce`, `ReferencesHold`: no demo row is inserted twice, by servers that start
  together, after a crash or by script and seed; none refers to a row that is missing.
* `AdminIsSeeded`: nobody can register the name `admin` before the seed does, although the
  seed has no transaction: no server listens until it has seen or made a user, and the
  administrator is the first.
* `ComesUp`, `StopEnds`: a server that is wanted listens for good once the faults are over,
  whatever half-initialised database they left; a shutdown ends even when a request hangs.
* `SavesKeepOthers`: how much a whole-row save may lose when saves overlap, one that
  the page has given up included. Every field of every account holds what was last asked
  for, but for the fields in `lost`: set by another save between this one's read and its
  write, left empty by this one, and not set again since. So of two overlapping saves
  the later keeps its own fields and loses no others than these.
* `OwnValues`: what the stale profile may spoil. The profile store outlives a logout, and the
  values of one account do reach the row of another that signs in on the same page after
  the first one's profile was asked for: that account is `exposed`. Nobody else's row ever
  holds values that are not its own, whoever signs in on the page later, whatever tab signs
  in or out, and in whatever order answers arrive; in particular not that of the
  account that was there first.
* `EndsForAReason`: a valid session ends by a logout, in another tab, or by a late answer:
  the refusal of a password or of a token from before. That last case signs out half of a
  new session (localStorage is empty, the store is not); an answer to one of the session's
  own requests never does.

### Findings

1. `adoption_race` (`application_service.go:128`). "UpdateStatus transitions an
   application along the state machine", says the comment at line 73; the
   transition is checked against the row as read and the write compares nothing. Of
   two overlapping requests, one rejecting and one advancing, the later overwrites
   the earlier: a rejected application is back in `org_review`.
2. `reviews_unapproved` (`review_service.go:29`). "Create schedules a review for an approved
   application", says line 28; the status is never looked at, and the seed itself has a
   review of a submitted application.
3. `shelter_owners` (`pet_service.go:122`). "UpdateStatus changes a pet's status (org
   owner or admin)", says line 72. `canManage` asks for the *first* organization of
   the caller. When two registrations of one user overlap, and the one with the greater id
   commits first and publishes, its pets are out of the owner's reach once the other
   has committed. The seed has the same state without a race: pets of the second
   organization of one user (`migrate.go:75-76`). (An administrator is refused
   too: the route asks for the role `org`.)

## 4. Fairness

* `RateLimiter`: `WF(Tick)`, time passes; `WF(Decide(h))`, a goroutine waiting for
  a `sync.Mutex` gets it, because its critical section is short, has no blocking
  call, and the mutex is starvation-free; `SF` of a client's
  `Arrive`: the property is about clients that never stop asking, and the goroutine slots
  are a bound of the model, so a client gets one whenever slots are freed again and
  again.
* `HomeCache`: only `WF(Tick)`. Nobody need ever ask for the page again, and a query
  without a deadline may hang for ever, so no fairness is assumed of requests.
* `Startup`: `WF` of the database container's own steps and of `Main(s)`, the steps of
  `main` that follow one another without waiting for anybody; containers are restarted
  by `docker-compose.yml`. Faults are finitely many. No fairness of requests: one
  may hang for ever, and then `GraceOver`, which is a timer, ends the shutdown.
* `Adoption`, `VisitReviews`, `Shelter`, `Community`, `Session`: none. Every step waits for somebody's request, and a
  goroutine may fail at any point, so nothing is promised to happen.

## 5. Proofs

`AdoptionProofs`, from the assumptions on the constants in `Adoption.tla` (ids of
organizations are numbers, finitely many goroutines, a seed that is what `seed`
inserts: submitted applications, no two alike):

* `TypeCorrect`. `TypeOK` is not inductive: `MoveWrite` assigns the status of a row it
  read earlier. `TypeInv` adds that an application a goroutine is moving exists.
* `StagesInOrder` (`NoStageSkipped`). `TrailInv`: each row's trail is closed under
  predecessors in the state machine, *and so is the status every goroutine is about
  to write*. A stale check stays true of the trail, because the trail only grows: that is
  why lost updates skip nothing.
* `PetStaysReserved`, `RaceIsBounded`. `BoundInv`: unless reopened, a pet with an
  application is off the market, and applications plus submissions
  under way are at most the goroutines; a submission that starts needs the pet on offer, so
  there are no applications yet and the bound is the number of slots.
* `ApprovalIsHandover`: the action property, from `TypeInv`.
* `DuplicatesAreOneBurst` (`DuplicatesOverlap`). Rows inserted after a lookup that succeeded,
  plus goroutines between such a lookup and their insert: an insert takes a goroutine out
  of the burst for the row it adds, a failed lookup adds to neither, and a lookup that
  succeeds joins the burst only while there is no row, when the burst is at most all the
  goroutines there are.
* `IsolatedImplementsLifecycle`. `IsolatedInv`: at most one request
  concerns a pet, and what it has checked is *still true*. So `SubmitWrite`
  is the atomic `Apply`, `MoveWrite` is `Advance` or `Approve`, and every other step
  leaves the tables alone. A lookup that fails makes `Apply` one that admits an application
  beside an earlier one and says so (`unaware`).
* `IsolatedPetFollows` (`PetFollowsApplication`), from the same `IsolatedInv`: the pet a
  submission found on offer still is, so it had no application; the transition a move
  checked is still the next one, so it does not start from an approval.
* `IsolatedFollowsStateMachine`: the property that `adoption_race` violates holds when
  requests do not overlap on a pet. Each operation of `AdoptionLifecycle` moves an
  application forward (`LifecycleGoesForward`), and the isolated requests are these
  operations; so the overlap is all there is to the finding.

`VisitReviewsProofs`, from `ReviewAssumption` and `RowsAssumption` (the default is at least a
day; the seed's applications are applications): `ReviewsTypeCorrect`,
`ListingsAreCurrent`, `RowsTellTheTruth`, `ReportsAreKept`, `ReviewsImplementBook`. The invariant adds what a
listing and a report rest on: no review is due on the day it is made or before
(`DueInv`, also for the rows that reports carry), and a listing has marked no later than
today (`MarkedInv`). So a review made during a listing is not late for it, and the
write of an older row is always of a submitted one. For the refinement (`ImplementsBook`,
under the identity on `apps`, `reviews` and `today`), `CarriedInv`: the row a report
carries agrees with the table in every column but status and report, whatever has
happened to the row since. So the write of the whole row is `Report` of `ReviewBook`
(`ReportSettles`); the mark is `Mark`, a new review `Schedule`, and every
other step leaves the table and the day alone.

`RateLimiterProofs`, from `LimiterAssumption`, for every number of clients and goroutines
and every limit, window and age of readings:

* `LimiterTypeCorrect`, `BucketsAreDisjoint` (`WindowsDoNotOverlap`).
* `BurstsAreBounded` (`BurstBounded`). Take any stretch of one window's length, so many
  ticks back. `BurstInv` bounds what arrived in it and was admitted, plus what
  arrived in it and still waits, by where the end of the present bucket stands: before the
  stretch, nothing of it was admitted; in it, the bucket has admitted whatever
  of it there is, but first the request that created it, which is older; less than a
  window after the stretch begins, one bucket before it may have admitted some as well;
  later still, only requests under way can add to what two buckets have admitted.
  Admission turns a waiting request into one that is counted, so the sum of
  both stays; only arrivals add, and they are younger than the stretch or fill
  a goroutine slot.
* `RefusalsDeserved` (`RefusalsAreDeserved`). `ChargedFairly`: what the present bucket
  counts was admitted after it was created, or arrived while one waits for the lock
  before that.
* `AdmissionsAreNear`, the safety under `ClientIsServed`. `AdmitsIn(c, n)`: in `n` ticks the
  client's bucket is over for every goroutine. It holds for `Window + MaxAge + 1` always; a
  step admits a request or preserves it, a tick lowers `n`, and at 0 no request is refused
  (`AdmittedOrNotProlonged`: a refusal leaves `resetAt` alone).

`HomeCacheProofs`, from `HomeAssumption`: `HomeTypeCorrect`, `CacheNeverTooOld`
(`StalenessBounded`) and `PageSettlesInTime`. `AgeInv` bounds a fill's copies by its age and the entry's copies by
what is left of its life: `lists[i] <= Timeout + TTL - ttl`. `PageSettlesInTime` is the safety
under `PageSettles`. `SettledIn(n)`: an entry with an old copy is gone in `n` ticks, and a
fill with one has at most `n` until its SET is too late and what it set is gone. It holds
for `Timeout + TTL` always (for no less: TLC violates the bound smaller by one);
nothing but a change of a list takes it away, a tick lowers `n`, and at 0 the page shows
what is. So the page does not only settle: it takes one fill's time and one entry's life.

`ShelterProofs`, from `ShelterAssumption` (ids are numbers from 1, amounts are not zero,
finitely many goroutines, a row is not `NoRow`):

* `ShelterTypeCorrect`. `TypeInv` adds that a donation under way is of more than nothing.
* `RevocationHolds` (`RevocationTakesHold`). `LateInv` bounds late rows plus requests past
  the check for *every* organization, and says that nothing is late while one is approved:
  so a check that succeeds starts from 0, and an insert turns a request
  past the check into a late row, leaving the sum.
* `ManagerSettles` (`ManagerIsSettled`). `IdsInv`: registrations under way have ids of
  their own that no organization has, none greater than the sequence's last.
  So rows are only added, and a registration that begins has a greater id than
  all there are. That a set of ids has a minimum comes from the library's
  well-foundedness of `<` on the naturals.
* `ShelterTotalsAreFair` (`TotalsAreFair`). Two sums over the donations of an organization,
  the amounts given and the amounts stored, drift apart by at most half a cent for each
  (`Received` counts them); a donation that is inserted adds its amount to the one and its
  cents to the other (`DonationCounted`), and everything else leaves both alone. The
  sums are `SumFunctionOnSet`, which the community modules define by a recursive
  function over subsets. That its value on a set is the value without one element plus
  that element's (`SumUnfolds`) needs an induction over finite sets, which the library
  states for an operator. It is replaced by the smallest counterexample: strict inclusion
  between subsets of a finite set is well-founded, so a set where something fails has a
  minimal one, and there the definition of the fold applies (`SmallestSubset`, `SumsExist`,
  `SumsAgree`).
* `ShelterRowsRefer` (`RowsRefer`): pets and donations belong to organizations that are
  there, and a usage to a donation of the organization that reports it. `init.sql` has no
  foreign key for the latter, and a database that `migrate` has made has none at all: it
  holds because requests carry what they read of rows that stay (`RequestsRefer`, `RowsStay`).
* `SingleOwnersManage`: `OwnersManage`, which `shelter_owners` violates, holds in every
  state where no user has a second organization. So what costs an owner its pets is
  registering twice, and no interleaving of anything else.

`CommunityProofs`, from `CommunityAssumption` (the seed's counters are no less than its
comments, ids start at 1):

* `CommunityTypeCorrect`. `TypeInv` adds that a comment under way has a post.
* `CommunityDeletedOnce`, `CommunityCountersAddUp`. `RowsInv`: comments belong to
  posts that exist, and ids above the sequence's last are unused and were never deleted.
  A new comment adds one to the set of a post's comments and one to its counter; a
  deletion that finds its row takes one from the set and adds one to `gone`, and one that
  finds none changes neither.
* `CommunityOnlyAuthorsDelete`. `DeletesInv`: the comment a deletion is about to take is
  gone, or still has the author that was checked. Its id is no greater than the sequence's
  last, so no comment written in between has it.
* `CommunityRemoveSparesNew`: a removal deletes by the id it found, and the index keeps
  an addition from replacing a row.

`StartupProofs`, for any number of servers, requests and faults: `StartupTypeCorrect`,
`SeedInsertedOnce`, `RowsReferToRows`, `AdministratorFirst`, `EveryStartIsBounded`. The invariant: what is in the
database is a prefix of the items, each once (`PrefixInv`); a server past its first
insert has inserted exactly what is there and is the only such one (`SeederInv`); while
the script runs nobody else is there (`ScriptInv`); a server past the seed has seen the
administrator (`AdminInv`). A prefix is closed under `RefersTo`, which points backwards.
`EveryStartIsBounded` (`StartIsBounded`) is the safety under `ComesUp`: `Remaining(s)`, at most
39, is how many steps of its own a server still needs until it listens. While the
database is up and nothing fails, each step of `main` makes it smaller and no other
step greater. A seed that is refused, as every seed is at the posts at the latest, costs a
server the whole way again; it is then
that there are users, who never go away (`UsersGrow`), and so no second seed.

`SessionProofs`, from `SessionAssumption` (at least one token; nobody is `None`), for any number
of people, requests and tokens: `SessionTypeCorrect`, `SavesAreKept`, `ValuesStayOwn`,
`SessionsEndForAReason`. The invariant says of each request under way what it carries at
its stage (`CallsInv`: the row and the form belong to the account of its token; a refusal
is of a password, of no token or of an expired one), that the row a save has read agrees
with the table in every field that is neither `missed` by it nor `lost` before
(`SavesInv`), and that an account that is not `exposed` is alone while it is signed in, so
that the stores, the form and the requests with its token hold its values only (`OwnInv`,
in three parts: `OwnRows`, `OwnPage`, `OwnCalls`). Answers are thereby harmless in any
order, because what they will do was settled when the request was sent.

Only model-checked: the liveness properties `ClientIsServed`, `PageSettles`, `ComesUp` and
`StopEnds`, since TLAPS does not do liveness under fairness here. What can be proved of the
first three is their safety: `AdmissionsAreNear`, `PageSettlesInTime` and
`EveryStartIsBounded` say for every value of the constants that there is a measure which
the steps under fairness make smaller and no other step makes greater; that these steps
are taken is what TLC checks. `StopEnds` has nothing of the kind to prove, as
the end of the grace period is one step. Every invariant and every other action
property that a run checks is also a theorem. Of the three violated properties two are
theorems under what they lack: `FollowsStateMachine` without overlap, `OwnersManage` with
one organization for each user; `ReviewsApprovedOnly` lacks a check that is not there.

Every leaf is proved with a quarter of the provers' default time, so the proofs do not hang on
the speed of a machine (`tlapm --stretch 0.25`).

## 6. Plan

Done, in this order: `AdoptionStatus`, `AdoptionLifecycle`, `Adoption` and its proofs
(the program's core), `VisitReviews`, `RateLimiter`, `HomeCache`, `Shelter`, `Community`,
`Startup`, `Session`, the proofs of `VisitReviews`, `Startup` and `Session`, the lemmas
about sums with the theorem on the totals, the bursts and refusals of the limiter,
`ReviewBook` with the proof that the reviews implement it, the measures behind three of
the liveness properties, and what the violated properties need in order to hold.

Left, if the code grows towards it: larger instances of `session` (a third account, a third
request at a time) are beyond a few minutes of TLC, and are covered by the proofs; a
model of the list stores is worth having once something is derived from a list that may
be outdated. Two components promise atomic operations, and `AdoptionLifecycle` and
`ReviewBook` are what they promise (applications only while requests do not overlap, reviews
always); the others promise less, and their properties say what.

## 7. Not modelled

* File upload: one PUT to the object store under a fresh name, and a GET.
* Statistics and formatting: pure functions and one-statement counts, unit tested.
* Logging, CORS, DTO shapes, validation messages, wording: no state that two actors share.
  Of the pipeline, recovery and the error handler are the `Fail` actions.
* Read-only listings appear only where they also write (`ListByUser`), feed the cache or
  fill a form.
* Of the frontend, the list stores (`petStore.ts` and the others) hold the answer that came
  last, which after two quick searches may not be the one asked for last; nothing is
  derived from it. `FavoriteButton` has one flag that its own clicks set one at a
  time. Rendering has no state.
* Roles are constants of `Adoption`: no operation changes one.

Of PostgreSQL, the models assume that a statement and a transaction are atomic and durable
when committed; of Redis, that GET and SET are atomic and a TTL is kept; of a browser,
that an answer is handled without interruption.
