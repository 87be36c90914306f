------------------------------- MODULE Session -------------------------------
(***************************************************************************)
(* A page of the front end in one tab of a browser, and the users API: who *)
(* is signed in, and the profile form.                                     *)
(*                                                                         *)
(* The token lives twice: in localStorage, which all tabs share and from   *)
(* which every request takes it, and in the page's store, by which the     *)
(* page decides whether somebody is signed in.  Requests are answered in   *)
(* any order or never; the page waits fifteen seconds, and the server goes *)
(* on after that.  A profile is saved by reading the whole row and putting *)
(* the whole row back.                                                     *)
(***************************************************************************)
EXTENDS Integers, Sequences

CONSTANTS
  Users,       \* people, each with a user name
  Calls,       \* requests that may be under way at a time (a bound)
  MaxRequests, \* requests that the page sends in all (a bound)
  MaxTokens,   \* tokens that are issued in all (a bound)
  None

ASSUME SessionAssumption ==
  /\ MaxRequests \in Nat
  /\ MaxTokens \in Nat \ {0}
  /\ None \notin Users

Fields == {"nickname", "phone"}

\* What a person has typed into a field: at registration (0) or into the form (1).
Values == Users \X {0, 1}
Rows   == [Fields -> Values]

\* A form's fields may be empty.
NoValue == <<None, 0>>
Forms   == [Fields -> Values \cup {NoValue}]
Empty   == [f \in Fields |-> NoValue]

Asks    == {"login", "register"}
AsksMe  == {"me", "load", "save"}
Kinds   == Asks \cup AsksMe
Answers == {"ok", "denied"}

\* Tokens are numbered in the order of their issue; 0 is none.
Tokens == 0..MaxTokens

VARIABLES
  accounts,  \* the users table: a row, or Empty for nobody
  typed,     \* what was last asked for in each field
  lost,      \* the fields of each account that a save has put back as they had been
  missed,    \* the fields that other saves have set since a save under way read the row
  issued,    \* whose the tokens are
  expired,   \* tokens that have expired
  calls,     \* requests under way
  sent,      \* requests so far
  local,     \* the token in localStorage
  token,     \* the token in the store
  user,      \* the user in the store
  profile,   \* the row in the profile store
  form,      \* the form of the profile page
  onProfile, \* whether that page is open
  seen,      \* accounts whose profile the page has asked for since it was loaded
  exposed    \* accounts that have signed in where others had been seen

table   == <<accounts, typed, lost, missed>>
auth    == <<local, token, user>>
page    == <<profile, form, onProfile>>
history == <<seen, exposed>>
vars    == <<table, issued, expired, calls, sent, auth, page, history>>

\* A request: the token it carries, the person who signs in or is served, the fields it
\* saves or the form will be filled with, the row that was read, the token it is granted,
\* whether the page waits for it, and whether the page it fills is still open.
Call == [kind: Kinds, who: Users \cup {None}, header: Tokens, form: Forms,
         row: Rows \cup {Empty}, grants: Tokens, phase: {"sent", "read"} \cup Answers,
         waits: BOOLEAN, mounted: BOOLEAN]

Free == [kind |-> "none"]

TypeOK ==
  /\ accounts \in [Users -> Rows \cup {Empty}]
  /\ typed \in [Users -> Rows \cup {Empty}]
  /\ lost \in [Users -> SUBSET Fields]
  /\ missed \in [Calls -> SUBSET Fields]
  /\ issued \in Seq(Users) /\ Len(issued) <= MaxTokens
  /\ expired \subseteq 1..Len(issued)
  /\ calls \in [Calls -> Call \cup {Free}]
  /\ sent \in 0..MaxRequests
  /\ local \in 0..Len(issued)
  /\ token \in 0..Len(issued)
  /\ user \in Users \cup {None}
  /\ profile \in Rows \cup {Empty}
  /\ form \in Forms
  /\ onProfile \in BOOLEAN
  /\ seen \subseteq Users
  /\ exposed \subseteq Users

RegisteredRow(u) == [f \in Fields |-> <<u, 0>>]

\* People may have registered before, and one of them be signed in; the page has
\* fetched the user, and may have shown the profile.
Init ==
  /\ \E known \in SUBSET Users :
       accounts = [u \in Users |-> IF u \in known THEN RegisteredRow(u) ELSE Empty]
  /\ typed = accounts
  /\ lost = [u \in Users |-> {}] /\ missed = [c \in Calls |-> {}]
  /\ \/ issued = <<>> /\ local = 0 /\ user = None /\ profile = Empty /\ seen = {}
     \/ \E u \in Users :
          /\ accounts[u] # Empty
          /\ issued = <<u>> /\ local = 1
          /\ user = u
          /\ \/ profile = Empty /\ seen = {}
             \/ profile = accounts[u] /\ seen = {u}
  /\ token = local
  /\ expired = {}
  /\ calls = [c \in Calls |-> Free] /\ sent = 0
  /\ form = Empty /\ onProfile = FALSE
  /\ exposed = {}

(***************************************************************************)
(* The page.                                                               *)
(***************************************************************************)
\* A request as it leaves: the interceptor puts the token of localStorage on it.
Request(kind, who, fields, callsNow) ==
  /\ sent < MaxRequests
  /\ sent' = sent + 1
  /\ \E c \in Calls :
       /\ callsNow[c] = Free
       /\ calls' = [callsNow EXCEPT ![c] =
            [kind |-> kind, who |-> who, header |-> local, form |-> fields, row |-> Empty,
             grants |-> 0, phase |-> "sent", waits |-> TRUE, mounted |-> kind = "load"]]

\* What is left of a request for which the page no longer waits: the work of the server,
\* if that is to write.
Abandoned(call) ==
  IF call # Free /\ call.kind \in {"register", "save"} /\ call.phase \in {"sent", "read"}
  THEN [call EXCEPT !.waits = FALSE]
  ELSE Free

Orphaned == [c \in Calls |-> Abandoned(calls[c])]

\* Requests when the profile page is left: its form is gone.
Unmounted(now) ==
  [c \in Calls |-> IF now[c] = Free THEN Free ELSE [now[c] EXCEPT !.mounted = FALSE]]

Submit(kind, u) ==
  /\ ~onProfile
  /\ Request(kind, u, Empty, calls)
  /\ UNCHANGED <<table, issued, expired, auth, page, history>>

Logout ==
  /\ token # 0
  /\ local' = 0 /\ token' = 0 /\ user' = None
  /\ calls' = Unmounted(calls)
  /\ form' = Empty /\ onProfile' = FALSE
  /\ UNCHANGED <<table, issued, expired, sent, profile, history>>

\* Wrong on purpose: the profile store outlives the page.
KeptProfile == profile

\* The profile store of a page that has just been loaded.
FreshProfile == Empty

\* The page is loaded again: its stores are new, but the token is that of localStorage,
\* and the user is fetched if there is one.
Reload ==
  /\ token' = local /\ user' = None
  /\ profile' = FreshProfile /\ form' = Empty /\ onProfile' = FALSE
  /\ seen' = {}
  /\ IF local = 0 THEN calls' = Unmounted(Orphaned) /\ UNCHANGED sent
                  ELSE Request("me", None, Empty, Unmounted(Orphaned))
  /\ UNCHANGED <<table, issued, expired, local, exposed>>

\* The page asks for, or changes, the profile of the token's account.
Ask ==
  /\ seen' = seen \cup {issued[t] : t \in {local} \ {0}}
  /\ UNCHANGED exposed

\* The page asks for the profile; the form will be given the one it had before.
OpenProfile ==
  /\ token # 0
  /\ ~onProfile
  /\ onProfile' = TRUE
  /\ Request("load", None, profile, calls)
  /\ Ask
  /\ UNCHANGED <<table, issued, expired, auth, profile, form>>

LeaveProfile ==
  /\ onProfile
  /\ onProfile' = FALSE /\ form' = Empty
  /\ calls' = Unmounted(calls)
  /\ UNCHANGED <<table, issued, expired, sent, auth, profile, history>>

\* Whoever has signed in here types into some fields and saves them all.
Save(edited) ==
  /\ onProfile
  /\ form' = [f \in Fields |-> IF f \in edited THEN <<issued[token], 1>> ELSE form[f]]
  /\ Request("save", None, form', calls)
  /\ Ask
  /\ UNCHANGED <<table, issued, expired, auth, profile, onProfile>>

(***************************************************************************)
(* Answers.                                                                *)
(***************************************************************************)
\* Since it was loaded the page has asked for no profile but that of u.
Fresh(u) == seen \subseteq {u}

\* Nor has anybody else signed in on it.
Alone(u) == Fresh(u) /\ (token # 0 => issued[token] = u)

\* u signs in, on a page that is fit for it or not.
SignedIn(u, fit) ==
  /\ exposed' = IF fit THEN exposed ELSE exposed \cup {u}
  /\ UNCHANGED seen

Arrived(c) == [calls EXCEPT ![c] = Free]

\* login and register: the token is kept, and the page goes home.
Welcome(c) ==
  /\ calls[c].kind \in Asks
  /\ local' = calls[c].grants /\ token' = calls[c].grants /\ user' = calls[c].who
  /\ SignedIn(calls[c].who, Fresh(calls[c].who))
  /\ calls' = Unmounted(Arrived(c))
  /\ form' = Empty /\ onProfile' = FALSE
  /\ UNCHANGED <<profile>>

\* fetchProfile
SetUser(c) ==
  /\ calls[c].kind = "me"
  /\ user' = calls[c].who
  /\ calls' = Arrived(c)
  /\ UNCHANGED <<local, token, page, history>>

\* load and save set the profile; the page that has loaded it fills its form.
SetProfile(c) ==
  /\ calls[c].kind \in {"load", "save"}
  /\ profile' = calls[c].row
  /\ form' = IF calls[c].mounted /\ calls[c].form # Empty THEN calls[c].form ELSE form
  /\ calls' = Arrived(c)
  /\ UNCHANGED <<auth, onProfile, history>>

\* What the interceptor does about a 401, to whatever request: the store keeps its token.
SignOut == local' = 0 /\ user' = None /\ UNCHANGED token

Deliver(c) ==
  /\ calls[c] # Free
  /\ calls[c].phase \in Answers
  /\ \/ calls[c].phase = "ok" /\ (Welcome(c) \/ SetUser(c) \/ SetProfile(c))
     \/ calls[c].phase = "denied" /\ SignOut /\ calls' = Arrived(c)
        /\ UNCHANGED <<page, history>>
  /\ UNCHANGED <<table, issued, expired, sent>>

\* Wrong on purpose: the interceptor signs out whatever the error is.
SignOutOnError == local' = 0 /\ user' = None /\ UNCHANGED token

\* What the interceptor does about other errors: it shows the message.
OnError == UNCHANGED auth

\* The page gets an error, or fifteen seconds are over: the request was lost, limited,
\* refused (a name that is taken) or failed in the database, or the server is still busy
\* with it and goes on.
Fail(c) ==
  /\ calls[c] # Free
  /\ calls[c].waits
  /\ OnError
  /\ \E left \in {Free, Abandoned(calls[c])} : calls' = [calls EXCEPT ![c] = left]
  /\ UNCHANGED <<table, issued, expired, sent, page, history>>

(***************************************************************************)
(* The server.                                                             *)
(***************************************************************************)
\* The answer, if the page still waits for it.
Answered(c, phase) ==
  [calls EXCEPT ![c] = IF calls[c].waits THEN [@ EXCEPT !.phase = phase] ELSE Free]

Sent(c, kind) == calls[c] # Free /\ calls[c].kind = kind /\ calls[c].phase = "sent"

\* GenerateToken; the answer carries the token.
Issue(c) ==
  /\ Len(issued) < MaxTokens
  /\ issued' = Append(issued, calls[c].who)
  /\ calls' = [calls EXCEPT ![c].phase = "ok", ![c].grants = Len(issued) + 1]

\* The name is free.  A token nobody waits for is as good as none.
Register(c) ==
  /\ Sent(c, "register")
  /\ LET u == calls[c].who IN
     /\ accounts[u] = Empty
     /\ accounts' = [accounts EXCEPT ![u] = RegisteredRow(u)]
     /\ typed' = [typed EXCEPT ![u] = RegisteredRow(u)]
  /\ IF calls[c].waits THEN Issue(c) ELSE calls' = Arrived(c) /\ UNCHANGED issued
  /\ UNCHANGED <<lost, missed, expired, sent, auth, page, history>>

\* A user name nobody has, a wrong password, or a token.
Login(c) ==
  /\ Sent(c, "login")
  /\ \/ calls' = Answered(c, "denied") /\ UNCHANGED issued
     \/ accounts[calls[c].who] # Empty /\ Issue(c)
  /\ UNCHANGED <<table, expired, sent, auth, page, history>>

\* ParseToken
Valid(t) == t # 0 /\ t \notin expired

\* AuthRequired turns the request away.
Deny(c) ==
  /\ \E kind \in AsksMe : Sent(c, kind)
  /\ ~Valid(calls[c].header)
  /\ calls' = Answered(c, "denied")
  /\ UNCHANGED <<table, issued, expired, sent, auth, page, history>>

\* The account a request is served for.
Caller(c) == issued[calls[c].header]

GetProfile(c) ==
  /\ Sent(c, "me") \/ Sent(c, "load")
  /\ Valid(calls[c].header)
  /\ calls' = [calls EXCEPT ![c].phase = "ok", ![c].who = Caller(c),
                            ![c].row = accounts[Caller(c)]]
  /\ UNCHANGED <<table, issued, expired, sent, auth, page, history>>

\* FindByID
CurrentRow(u) == accounts[u]

\* The first half of UpdateProfile.
SaveRead(c) ==
  /\ Sent(c, "save")
  /\ Valid(calls[c].header)
  /\ calls' = [calls EXCEPT ![c].phase = "read", ![c].who = Caller(c),
                            ![c].row = CurrentRow(Caller(c))]
  /\ missed' = [missed EXCEPT ![c] = {}]
  /\ UNCHANGED <<accounts, typed, lost, issued, expired, sent, auth, page, history>>

\* Wrong on purpose: empty fields are set as well.
MergeAll(row, fields) == fields

\* Fields that are not empty are set.
Merge(row, fields) == [f \in Fields |-> IF fields[f] = NoValue THEN row[f] ELSE fields[f]]

\* The fields that a form changes.
Filled(fields) == {f \in Fields : fields[f] # NoValue}

Reading(c, u) == calls[c] # Free /\ calls[c].phase = "read" /\ calls[c].who = u

\* The second half: the whole row is put back, with what others have set meanwhile as it
\* had been.
SaveWrite(c) ==
  /\ calls[c] # Free
  /\ calls[c].phase = "read"
  /\ LET u == calls[c].who
         set == Filled(calls[c].form)
         new == Merge(calls[c].row, calls[c].form) IN
     /\ accounts' = [accounts EXCEPT ![u] = new]
     /\ typed' = [typed EXCEPT ![u] = [f \in Fields |->
                                        IF f \in set THEN calls[c].form[f] ELSE @[f]]]
     /\ lost' = [lost EXCEPT ![u] = (@ \cup missed[c]) \ set]
     /\ missed' = [d \in Calls |-> IF Reading(d, u) THEN missed[d] \cup set ELSE missed[d]]
     /\ calls' = [calls EXCEPT ![c] = IF @.waits THEN [@ EXCEPT !.phase = "ok", !.row = new]
                                                  ELSE Free]
  /\ UNCHANGED <<issued, expired, sent, auth, page, history>>

\* The server fails, or turns down, what nobody waits for.
Drop(c) ==
  /\ calls[c] # Free
  /\ ~calls[c].waits
  /\ calls' = Arrived(c)
  /\ UNCHANGED <<table, issued, expired, sent, auth, page, history>>

Expire(t) ==
  /\ t \in 1..Len(issued)
  /\ t \notin expired
  /\ expired' = expired \cup {t}
  /\ UNCHANGED <<table, issued, calls, sent, auth, page, history>>

\* Another tab of the browser signs in or out: localStorage changes, the store does not.
OtherTab ==
  /\ \/ local # 0 /\ local' = 0 /\ UNCHANGED <<issued, history>>
     \/ \E u \in Users :
          /\ accounts[u] # Empty
          /\ Len(issued) < MaxTokens
          /\ issued' = Append(issued, u)
          /\ local' = Len(issued) + 1
          /\ SignedIn(u, Alone(u))
  /\ UNCHANGED <<table, expired, calls, sent, token, user, page>>

Browse ==
  \/ \E kind \in Asks, u \in Users : Submit(kind, u)
  \/ Logout \/ Reload \/ OpenProfile \/ LeaveProfile
  \/ \E edited \in SUBSET Fields : Save(edited)

Serve(c) ==
  \/ Register(c) \/ Login(c) \/ Deny(c) \/ GetProfile(c)
  \/ SaveRead(c) \/ SaveWrite(c) \/ Drop(c)

Next ==
  \/ Browse
  \/ \E c \in Calls : Serve(c) \/ Deliver(c) \/ Fail(c)
  \/ \E t \in Tokens : Expire(t)
  \/ OtherTab

Spec == Init /\ [][Next]_vars

(***************************************************************************)
(* Properties.                                                             *)
(***************************************************************************)
\* Every field holds what was last asked for, however the saves of an account overlap, one
\* that was given up and goes on included; except for a field that was set between the read
\* and the write of a save that left it empty, and not again since.
SavesKeepOthers ==
  \A u \in Users : \A f \in Fields \ lost[u] : accounts[u][f] = typed[u][f]

\* All that a row or a form holds was typed by u.
OwnedBy(u, r) == \A f \in Fields : r[f] \in {<<u, 0>>, <<u, 1>>, NoValue}

\* Nobody's values end up in the account of somebody who has only ever signed in on a page
\* that had asked for no other profile since it was loaded, and, in another tab, while
\* nobody else was signed in on it: whoever else signs in, before or after.
OwnValues == \A u \in Users \ exposed : OwnedBy(u, accounts[u])

\* A session whose token is valid ends by a logout, by a new login, in another tab, or by
\* a late answer: the refusal of a password, or of a token from before the session.
Ending(c) ==
  /\ calls[c] # Free
  /\ calls[c].phase = "denied"
  /\ calls'[c] = Free
  /\ calls[c].kind = "login" \/ calls[c].header # local

EndsForAReason ==
  [][Valid(local) /\ local' = 0 =>
       \/ token' = 0
       \/ UNCHANGED <<calls, user>>
       \/ \E c \in Calls : Ending(c)]_vars
=============================================================================
