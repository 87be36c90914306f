------------------------------ MODULE HomeCache ------------------------------
(***************************************************************************)
(* The home page: three lists read from the database one after another,    *)
(* kept in Redis for a while as one JSON body.  Nothing invalidates the    *)
(* entry when a list changes, and any number of requests may be filling    *)
(* it at once, each with lists it read a while ago.                        *)
(*                                                                         *)
(* Time is relative.  Instead of its contents, a copy of a list is known   *)
(* by how long ago the list in the database changed, so every change       *)
(* counts, one that puts an old value back included.                       *)
(***************************************************************************)
EXTENDS Integers, Sequences

CONSTANTS
  Sections, \* the lists, in the order Overview reads them
  Handlers, \* requests at work at the same time (a bound)
  Timeout,  \* ticks from the start of a request until its SET can take effect no more:
            \* its context has expired and no command it sent is under way
  TTL       \* ticks an entry lives in Redis

ASSUME HomeAssumption ==
  /\ Sections \in Seq(STRING)
  /\ Timeout \in Nat
  /\ TTL \in Nat \ {0}

VARIABLES
  cache,   \* the entry under gbadopt:home:overview
  filling  \* the requests that have missed the cache

vars == <<cache, filling>>

\* How long a copy has been outdated; Current while it is not.  Ages at the cap stand
\* for every larger one.
Current  == -1
AgeCap   == Timeout + TTL
Outdated == {Current} \cup 0..AgeCap

\* The copies in lists when the list s in the database changes, and a tick later.
AfterChange(lists, s) ==
  [i \in DOMAIN lists |-> IF i = s /\ lists[i] = Current THEN 0 ELSE lists[i]]
AfterTick(lists) ==
  [i \in DOMAIN lists |->
     IF lists[i] \in {Current, AgeCap} THEN lists[i] ELSE lists[i] + 1]

\* age counts the ticks since the context was created, up to the first past Timeout.
NoEntry == [ttl |-> 0, lists |-> <<>>]
Idle    == [started |-> FALSE, age |-> 0, lists |-> <<>>]

TypeOK ==
  /\ cache \in [ttl: 0..TTL, lists: Seq(Outdated)]
  /\ filling \in [Handlers -> [started: BOOLEAN, age: 0..(Timeout + 1),
                               lists: Seq(Outdated)]]

Init ==
  /\ cache = NoEntry
  /\ filling = [h \in Handlers |-> Idle]

\* GET the key.  A hit is served as it is; a miss, an error and a Redis that is down
\* all lead to the database.
Miss(h) ==
  /\ filling[h] = Idle
  /\ filling' = [filling EXCEPT ![h] = [started |-> TRUE, age |-> 0, lists |-> <<>>]]
  /\ UNCHANGED cache

\* The next of ListHot, ListLatest and ListApproved.  They do not use the context, so
\* they may take longer than it lives.
ReadList(h) ==
  LET f == filling[h]
  IN  /\ f.started /\ Len(f.lists) < Len(Sections)
      /\ filling' = [filling EXCEPT ![h].lists = Append(f.lists, Current)]
      /\ UNCHANGED cache

\* Wrong on purpose: the SET has a context of its own.
AtAnyTime(f) == TRUE

InTime(f) == f.age <= Timeout

\* Wrong on purpose: the timeout is added to the life of the entry.
LongEntry(f) == [ttl |-> TTL + Timeout, lists |-> f.lists]

Entry(f) == [ttl |-> TTL, lists |-> f.lists]

\* SET with the context of the request, which is refused once that has expired.
Store(h) ==
  LET f == filling[h]
  IN  /\ f.started /\ Len(f.lists) = Len(Sections)
      /\ InTime(f)
      /\ cache' = Entry(f)
      /\ filling' = [filling EXCEPT ![h] = Idle]

\* A list could not be read, the entry could not be set (an error nobody looks at),
\* or the goroutine is gone.
GiveUp(h) ==
  /\ filling[h] # Idle
  /\ filling' = [filling EXCEPT ![h] = Idle]
  /\ UNCHANGED cache

\* Some other request changes what a list shows.
Change(s) ==
  /\ cache' = [cache EXCEPT !.lists = AfterChange(@, s)]
  /\ filling' = [h \in Handlers |-> [filling[h] EXCEPT !.lists = AfterChange(@, s)]]

\* Redis restarts or evicts the entry.
Evict ==
  /\ cache # NoEntry
  /\ cache' = NoEntry
  /\ UNCHANGED filling

\* Wrong on purpose: an entry set without a life, which Redis keeps for ever.
KeptEntry(e) == [e EXCEPT !.lists = AfterTick(@)]

\* The entry a tick later; with a ttl of 0 there is none.
EntryAfterTick(e) ==
  IF e.ttl <= 1 THEN NoEntry ELSE [ttl |-> e.ttl - 1, lists |-> AfterTick(e.lists)]

Tick ==
  /\ cache' = EntryAfterTick(cache)
  /\ filling' = [h \in Handlers |->
       IF ~filling[h].started THEN Idle
       ELSE [started |-> TRUE,
             age     |-> IF filling[h].age > Timeout THEN filling[h].age
                         ELSE filling[h].age + 1,
             lists   |-> AfterTick(filling[h].lists)]]

Next ==
  \/ \E h \in Handlers : Miss(h) \/ ReadList(h) \/ Store(h) \/ GiveUp(h)
  \/ \E s \in 1..Len(Sections) : Change(s)
  \/ Evict
  \/ Tick

\* Only time is sure to go on: nobody need ever ask for the page again, and a query
\* may hang.
Spec == Init /\ [][Next]_vars /\ WF_vars(Tick)

(***************************************************************************)
(* Properties                                                              *)
(***************************************************************************)
\* No list on the cached page has been out of date for as long as a request may spend
\* before its SET plus the life of an entry, however slowly the lists were read and
\* whichever fill came last (a slow one may replace newer lists by older ones).
StalenessBounded ==
  \A i \in DOMAIN cache.lists : cache.lists[i] < Timeout + TTL

\* Once the lists stop changing, the page shows them as they are and goes on doing so:
\* no fill that is still under way brings an old list back for good.
PageSettles ==
  <>[][\A s \in 1..Len(Sections) : ~Change(s)]_vars
    => <>[](\A i \in DOMAIN cache.lists : cache.lists[i] = Current)
=============================================================================
