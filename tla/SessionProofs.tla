---------------------------- MODULE SessionProofs ----------------------------
(***************************************************************************)
(* Theorems about Session, for any people, requests and tokens.  The       *)
(* invariant says of every request under way what its header, its form and *)
(* its row have to do with the accounts and with who is signed in.         *)
(***************************************************************************)
EXTENDS Session, TLAPS

(***************************************************************************)
(* The invariant.                                                          *)
(***************************************************************************)
Registered(u) == accounts[u] \in Rows /\ typed[u] \in Rows

Busy == {c \in Calls : calls[c] # Free}

\* Tokens belong to accounts, and the profile page is open only to who has one.
TokensInv ==
  /\ \A u \in Users : accounts[u] # Empty => Registered(u)
  /\ \A t \in 1..Len(issued) : Registered(issued[t])
  /\ onProfile => token # 0

\* What a request carries at each stage.
CallInv(k) ==
  /\ k.header <= Len(issued) /\ k.grants <= Len(issued)
  /\ k.phase = "ok" /\ k.kind \in Asks => k.grants # 0 /\ k.who = issued[k.grants]
  /\ k.phase = "read" => /\ k.kind = "save" /\ k.header # 0
                         /\ k.who = issued[k.header] /\ k.row \in Rows
  /\ k.phase = "ok" /\ k.kind \in {"load", "save"} => k.header # 0 /\ k.waits
  /\ k.kind \in {"me", "load"} => k.waits
  /\ k.kind \in Asks => k.who \in Users
  /\ k.phase = "denied" => k.kind = "login" \/ k.header = 0 \/ k.header \in expired

CallsInv == \A c \in Busy : CallInv(calls[c])

\* What a save has read is what is there, but for the fields that other saves have set since,
\* and those that have been lost already.
SavesInv ==
  /\ \A u \in Users : \A f \in Fields \ lost[u] : accounts[u][f] = typed[u][f]
  /\ \A c \in Calls, u \in Users : Reading(c, u) =>
       \A f \in Fields \ (missed[c] \cup lost[u]) : calls[c].row[f] = accounts[u][f]

\* An account that has only signed in where it was alone holds what its owner typed.
OwnRows == \A u \in Users \ exposed : OwnedBy(u, accounts[u])

\* As long as such an account is signed in, no other profile is asked for, and the stores
\* and the form hold nothing else.
OwnPage ==
  \A u \in Users \ exposed :
    /\ local # 0 /\ issued[local] = u => Alone(u)
    /\ Fresh(u) => OwnedBy(u, profile)
    /\ Alone(u) => OwnedBy(u, form)

\* Its requests carry its values only, and the page knows whose answers it waits for.
OwnCall(k) ==
  k.kind \in {"load", "save"} /\ k.header # 0 =>
    /\ k.waits => issued[k.header] \in seen
    /\ issued[k.header] \notin exposed =>
         /\ OwnedBy(issued[k.header], k.form)
         /\ k.phase \in {"read", "ok"} => OwnedBy(issued[k.header], k.row)

OwnCalls == \A c \in Busy : OwnCall(calls[c])

OwnInv == OwnRows /\ OwnPage /\ OwnCalls

IInv == TypeOK /\ TokensInv /\ CallsInv /\ SavesInv /\ OwnInv

(***************************************************************************)
(* Rows, forms and requests.                                               *)
(***************************************************************************)
LEMMA EmptyFields ==
  /\ Empty \in Forms /\ Rows \subseteq Forms /\ Empty \notin Rows
  /\ NoValue \notin Values
  /\ \A u \in Users : RegisteredRow(u) \in Rows
<1>1. NoValue \notin Values
  BY SessionAssumption DEF SessionAssumption, NoValue, Values
<1>2. Empty \in Forms /\ Rows \subseteq Forms
  BY DEF Empty, Forms, Rows
<1>3. Empty \notin Rows
  BY <1>1 DEF Empty, Rows, Fields
<1>4. \A u \in Users : RegisteredRow(u) \in Rows
  BY DEF RegisteredRow, Rows, Values
<1> QED BY <1>1, <1>2, <1>3, <1>4

\* A merged row is a row.
LEMMA MergeRow ==
  ASSUME NEW row \in Rows, NEW fields \in Forms
  PROVE  Merge(row, fields) \in Rows
BY DEF Merge, Rows, Forms

\* Merging what belongs to u into what belongs to u adds nothing of others.
LEMMA MergeOwned ==
  ASSUME NEW u, NEW row \in Rows, NEW fields \in Forms, OwnedBy(u, row), OwnedBy(u, fields)
  PROVE  OwnedBy(u, Merge(row, fields))
BY DEF Merge, OwnedBy

\* What is empty belongs to anybody.
LEMMA EmptyOwned == \A u : OwnedBy(u, Empty)
BY DEF OwnedBy, Empty

\* A fresh account holds what its owner typed.
LEMMA RegisteredOwned == \A u \in Users : OwnedBy(u, RegisteredRow(u))
BY DEF OwnedBy, RegisteredRow

\* The types of the fields of a request.
LEMMA RequestFields ==
  ASSUME TypeOK, NEW c \in Busy
  PROVE  /\ calls[c] \in Call
         /\ calls[c].kind \in Kinds
         /\ calls[c].who \in Users \cup {None}
         /\ calls[c].header \in Nat /\ calls[c].grants \in Nat
         /\ calls[c].form \in Forms
         /\ calls[c].row \in Rows \cup {Empty}
         /\ calls[c].phase \in {"sent", "read", "ok", "denied"}
<1>1. calls[c] \in Call
  BY DEF TypeOK, Busy
<1>2. Tokens \subseteq Nat
  BY SessionAssumption DEF SessionAssumption, Tokens
<1> QED BY <1>1, <1>2 DEF Call, Answers

\* A free slot is told from a request.
LEMMA FreeIsNoCall == Free \notin Call
BY DEF Free, Call, Kinds, Asks, AsksMe

\* A request that the page has given up or whose form is gone.
Left(new, old) ==
  /\ new \in Call /\ old # Free
  /\ new.kind = old.kind /\ new.who = old.who /\ new.header = old.header
  /\ new.form = old.form /\ new.row = old.row /\ new.grants = old.grants
  /\ new.phase = old.phase
  /\ new.waits => old.waits
  /\ \/ new.waits \/ ~old.waits
     \/ new.kind \in {"register", "save"} /\ new.phase \in {"sent", "read"}

\* Giving up a request, or leaving its page, changes a flag of it only.
LEMMA Flags ==
  ASSUME NEW k \in Call
  PROVE  /\ Left(k, k)
         /\ Left([k EXCEPT !.mounted = FALSE], k)
         /\ k.kind \in {"register", "save"} /\ k.phase \in {"sent", "read"}
              => Left([k EXCEPT !.waits = FALSE], k)
         /\ ~[k EXCEPT !.waits = FALSE].waits
<1>1. k # Free
  BY FreeIsNoCall
<1>2. [k EXCEPT !.mounted = FALSE] \in Call /\ [k EXCEPT !.waits = FALSE] \in Call
  BY DEF Call
<1>3. Left(k, k)
  BY <1>1 DEF Left
<1>4. Left([k EXCEPT !.mounted = FALSE], k)
  BY <1>1, <1>2 DEF Left, Call
<1>5. ~[k EXCEPT !.waits = FALSE].waits
  BY DEF Call
<1>6. ASSUME k.kind \in {"register", "save"}, k.phase \in {"sent", "read"}
      PROVE  Left([k EXCEPT !.waits = FALSE], k)
  BY <1>1, <1>2, <1>5, <1>6 DEF Left, Call
<1> QED BY <1>3, <1>4, <1>5, <1>6

\* Leaving the profile page keeps every request.
LEMMA UnmountedCalls ==
  ASSUME NEW now \in [Calls -> Call \cup {Free}]
  PROVE  /\ Unmounted(now) \in [Calls -> Call \cup {Free}]
         /\ \A c \in Calls : Unmounted(now)[c] = Free <=> now[c] = Free
         /\ \A c \in Calls : now[c] # Free => /\ Left(Unmounted(now)[c], now[c])
                                              /\ Unmounted(now)[c].waits = now[c].waits
<1>1. ASSUME NEW c \in Calls, now[c] # Free
      PROVE  /\ Unmounted(now)[c] \in Call
             /\ Left(Unmounted(now)[c], now[c])
             /\ Unmounted(now)[c].waits = now[c].waits
  <2>1. now[c] \in Call /\ Unmounted(now)[c] = [now[c] EXCEPT !.mounted = FALSE]
    BY <1>1 DEF Unmounted
  <2>2. Left(Unmounted(now)[c], now[c])
    BY <2>1, Flags
  <2>3. Unmounted(now)[c].waits = now[c].waits
    BY <2>1 DEF Call
  <2> QED BY <2>2, <2>3 DEF Left
<1>2. ASSUME NEW c \in Calls, now[c] = Free
      PROVE  Unmounted(now)[c] = Free
  BY <1>2 DEF Unmounted
<1>3. Unmounted(now) = [c \in Calls |-> Unmounted(now)[c]]
  BY DEF Unmounted
<1>4. \A c \in Calls : Unmounted(now)[c] \in Call \cup {Free}
  BY <1>1, <1>2
<1>5. Unmounted(now) \in [Calls -> Call \cup {Free}]
  BY <1>3, <1>4
<1> QED BY <1>1, <1>2, <1>5, FreeIsNoCall

\* A reload, an error or a timeout ends a request or leaves the server's writing.
LEMMA AbandonedCalls ==
  ASSUME NEW k \in Call \cup {Free}
  PROVE  /\ Abandoned(k) \in Call \cup {Free}
         /\ Abandoned(k) # Free => /\ Left(Abandoned(k), k)
                                   /\ ~Abandoned(k).waits
                                   /\ k.kind \in {"register", "save"}
<1>1. CASE k # Free /\ k.kind \in {"register", "save"} /\ k.phase \in {"sent", "read"}
  <2>1. k \in Call /\ Abandoned(k) = [k EXCEPT !.waits = FALSE]
    BY <1>1 DEF Abandoned
  <2>2. Left(Abandoned(k), k) /\ ~Abandoned(k).waits
    BY <1>1, <2>1, Flags
  <2>3. Abandoned(k) \in Call
    BY <2>2 DEF Left
  <2> QED BY <1>1, <2>2, <2>3
<1>2. CASE ~(k # Free /\ k.kind \in {"register", "save"} /\ k.phase \in {"sent", "read"})
  BY <1>2 DEF Abandoned
<1> QED BY <1>1, <1>2

\* A request as it leaves.
New(k) ==
  /\ k \in Call
  /\ k.header = local /\ k.grants = 0 /\ k.phase = "sent" /\ k.waits
  /\ k.kind \in Asks => k.who \in Users

\* Sending adds one request, with the token of localStorage.
LEMMA RequestCalls ==
  ASSUME TypeOK, NEW kind \in Kinds, NEW who \in Users \cup {None}, NEW fields \in Forms,
         kind \in Asks => who \in Users,
         NEW callsNow \in [Calls -> Call \cup {Free}], Request(kind, who, fields, callsNow)
  PROVE  /\ calls' \in [Calls -> Call \cup {Free}]
         /\ sent' \in 0..MaxRequests
         /\ \E c \in Calls : /\ New(calls'[c]) /\ calls'[c].kind = kind
                             /\ calls'[c].form = fields
                             /\ \A d \in Calls : d # c => calls'[d] = callsNow[d]
<1>1. sent' \in 0..MaxRequests
  BY SessionAssumption DEF SessionAssumption, TypeOK, Request
<1> DEFINE k == [kind |-> kind, who |-> who, header |-> local, form |-> fields, row |-> Empty,
                 grants |-> 0, phase |-> "sent", waits |-> TRUE, mounted |-> kind = "load"]
<1>2. k \in Call
  <2>1. local \in Tokens /\ 0 \in Tokens
    BY SessionAssumption DEF SessionAssumption, TypeOK, Tokens
  <2>2. (kind = "load") \in BOOLEAN
    OBVIOUS
  <2> QED BY <2>1, <2>2 DEF Call
<1>3. New(k) /\ k.kind = kind /\ k.form = fields
  BY <1>2 DEF New
<1>4. PICK c \in Calls : calls' = [callsNow EXCEPT ![c] = k]
  BY DEF Request
<1> HIDE DEF k
<1>5. calls' \in [Calls -> Call \cup {Free}]
  BY <1>2, <1>4
<1>6. calls'[c] = k /\ \A d \in Calls : d # c => calls'[d] = callsNow[d]
  BY <1>4
<1> QED BY <1>1, <1>3, <1>5, <1>6

(***************************************************************************)
(* Steps that leave the accounts and the tokens alone: each request ends,  *)
(* or is left as it is, or is new.                                         *)
(***************************************************************************)
Quiet ==
  /\ UNCHANGED <<table, issued, expired>>
  /\ \A c \in Calls : \/ calls'[c] = Free
                      \/ calls[c] # Free /\ Left(calls'[c], calls[c])
                      \/ New(calls'[c])

\* Such a step keeps what is known of requests and saves.
LEMMA QuietStep ==
  ASSUME IInv, Quiet
  PROVE  CallsInv' /\ SavesInv'
<1>1. CallsInv'
  <2> SUFFICES ASSUME NEW c \in Calls, calls'[c] # Free
               PROVE  CallInv(calls[c])'
    BY DEF CallsInv, Busy
  <2>1. issued' = issued /\ expired' = expired
    BY DEF Quiet
  <2>2. CASE New(calls'[c])
    <3>1. Len(issued) \in Nat /\ local <= Len(issued)
      BY DEF IInv, TypeOK
    <3> QED BY <2>1, <2>2, <3>1 DEF New, CallInv
  <2>3. CASE calls[c] # Free /\ Left(calls'[c], calls[c])
    <3>1. CallInv(calls[c])
      BY <2>3 DEF IInv, CallsInv, Busy
    <3> QED BY <2>1, <2>3, <3>1 DEF Left, CallInv
  <2> QED BY <2>2, <2>3 DEF Quiet
<1>2. SavesInv'
  <2>1. accounts' = accounts /\ typed' = typed /\ lost' = lost /\ missed' = missed
    BY DEF Quiet, table
  <2>2. ASSUME NEW c \in Calls, NEW u, Reading(c, u)'
        PROVE  Reading(c, u) /\ calls'[c].row = calls[c].row
    <3>1. calls'[c] # Free /\ calls'[c].phase = "read" /\ calls'[c].who = u
      BY <2>2 DEF Reading
    <3>2. calls[c] # Free /\ Left(calls'[c], calls[c])
      BY <3>1 DEF Quiet, New
    <3> QED BY <3>1, <3>2 DEF Left, Reading
  <2> QED BY <2>1, <2>2 DEF IInv, SavesInv
<1> QED BY <1>1, <1>2

\* The same for whom things belong to, as long as the page keeps in mind what it has asked
\* for, or waits for none of it.
LEMMA QuietOwners ==
  ASSUME IInv, Quiet, exposed \subseteq exposed',
         \A c \in Calls : \/ calls'[c] = Free
                          \/ /\ calls[c] # Free /\ Left(calls'[c], calls[c])
                             /\ calls'[c].waits => seen \subseteq seen'
                          \/ OwnCall(calls[c])'
  PROVE  OwnCalls'
<1> SUFFICES ASSUME NEW c \in Calls, calls'[c] # Free
             PROVE  OwnCall(calls[c])'
  BY DEF OwnCalls, Busy
<1>1. issued' = issued
  BY DEF Quiet
<1>2. CASE /\ calls[c] # Free /\ Left(calls'[c], calls[c])
           /\ calls'[c].waits => seen \subseteq seen'
  <2>1. OwnCall(calls[c])
    BY <1>2 DEF IInv, OwnInv, OwnCalls, Busy
  <2> QED BY <1>1, <1>2, <2>1 DEF Left, OwnCall, OwnedBy
<1> QED BY <1>2

(***************************************************************************)
(* The page's steps.                                                       *)
(***************************************************************************)
TypeOfRest ==
  /\ accounts \in [Users -> Rows \cup {Empty}]
  /\ typed \in [Users -> Rows \cup {Empty}]
  /\ lost \in [Users -> SUBSET Fields]
  /\ missed \in [Calls -> SUBSET Fields]
  /\ issued \in Seq(Users) /\ Len(issued) <= MaxTokens
  /\ expired \subseteq 1..Len(issued)
  /\ calls \in [Calls -> Call \cup {Free}]
  /\ sent \in 0..MaxRequests
  /\ local \in 0..Len(issued)
  /\ token \in 0..Len(issued)
  /\ user \in Users \cup {None}
  /\ profile \in Rows \cup {Empty}
  /\ form \in Forms
  /\ seen \subseteq Users
  /\ exposed \subseteq Users

TypeOfFlags == onProfile \in BOOLEAN

\* login and register are sent.
LEMMA SubmitStep ==
  ASSUME IInv, NEW kind \in Asks, NEW u \in Users, Submit(kind, u)
  PROVE  IInv'
<1> USE DEF table, auth, page, history
<1>1. PICK c \in Calls : /\ calls' \in [Calls -> Call \cup {Free}]
                         /\ sent' \in 0..MaxRequests
                         /\ New(calls'[c]) /\ calls'[c].kind = kind
                         /\ \A d \in Calls : d # c => calls'[d] = calls[d]
  BY RequestCalls, EmptyFields DEF IInv, TypeOK, Submit, Kinds
<1>2. TypeOK'
  <2>1. TypeOfRest'
    BY <1>1 DEF Submit, IInv, TypeOK, TypeOfRest
  <2>2. TypeOfFlags'
    BY Zenon DEF Submit, IInv, TypeOK, TypeOfFlags
  <2> QED BY <2>1, <2>2, Zenon DEF TypeOK, TypeOfRest, TypeOfFlags
<1>3. Quiet
  <2>1. \A d \in Calls : calls[d] # Free => Left(calls[d], calls[d])
    BY Flags DEF IInv, TypeOK
  <2> QED BY <1>1, <2>1 DEF Submit, Quiet
<1>4. TokensInv'
  BY DEF Submit, IInv, TokensInv, Registered
<1>5. OwnInv'
  <2>1. OwnCall(calls[c])'
    BY <1>1 DEF OwnCall, Asks
  <2>2. \A d \in Calls : calls[d] # Free => Left(calls[d], calls[d])
    BY Flags DEF IInv, TypeOK
  <2>3. exposed' = exposed /\ seen' = seen
    BY DEF Submit
  <2>4. OwnCalls'
    BY <1>1, <1>3, <2>1, <2>2, <2>3, QuietOwners
  <2>5. OwnRows' /\ OwnPage'
    BY DEF Submit, IInv, OwnInv, OwnRows, OwnPage, OwnedBy, Alone, Fresh
  <2> QED BY <2>4, <2>5 DEF OwnInv
<1> QED BY <1>2, <1>3, <1>4, <1>5, QuietStep DEF IInv

\* A logout empties both copies of the token.
LEMMA LogoutStep ==
  ASSUME IInv, Logout
  PROVE  IInv'
<1> USE DEF table, auth, page, history
<1>1. /\ calls' \in [Calls -> Call \cup {Free}]
      /\ \A c \in Calls : \/ calls'[c] = Free
                          \/ calls[c] # Free /\ Left(calls'[c], calls[c])
  BY UnmountedCalls DEF Logout, IInv, TypeOK
<1>2. TypeOK'
  <2>1. TypeOfRest'
    BY <1>1, EmptyFields DEF Logout, IInv, TypeOK, TypeOfRest
  <2>2. TypeOfFlags'
    BY Zenon DEF Logout, IInv, TypeOK, TypeOfFlags
  <2> QED BY <2>1, <2>2, Zenon DEF TypeOK, TypeOfRest, TypeOfFlags
<1>3. Quiet
  BY <1>1 DEF Logout, Quiet
<1>4. TokensInv'
  BY DEF Logout, IInv, TokensInv, Registered
<1>5. OwnInv'
  <2>1. exposed' = exposed /\ seen' = seen
    BY DEF Logout
  <2>2. OwnCalls'
    BY <1>1, <1>3, <2>1, QuietOwners
  <2>3. OwnRows' /\ OwnPage'
    BY EmptyOwned DEF Logout, IInv, OwnInv, OwnRows, OwnPage, OwnedBy, Alone, Fresh
  <2> QED BY <2>2, <2>3 DEF OwnInv
<1> QED BY <1>2, <1>3, <1>4, <1>5, QuietStep DEF IInv

\* The profile page is left.
LEMMA LeaveProfileStep ==
  ASSUME IInv, LeaveProfile
  PROVE  IInv'
<1> USE DEF table, auth, page, history
<1>1. /\ calls' \in [Calls -> Call \cup {Free}]
      /\ \A c \in Calls : \/ calls'[c] = Free
                          \/ calls[c] # Free /\ Left(calls'[c], calls[c])
  BY UnmountedCalls DEF LeaveProfile, IInv, TypeOK
<1>2. TypeOK'
  <2>1. TypeOfRest'
    BY <1>1, EmptyFields DEF LeaveProfile, IInv, TypeOK, TypeOfRest
  <2>2. TypeOfFlags'
    BY Zenon DEF LeaveProfile, IInv, TypeOK, TypeOfFlags
  <2> QED BY <2>1, <2>2, Zenon DEF TypeOK, TypeOfRest, TypeOfFlags
<1>3. Quiet
  BY <1>1 DEF LeaveProfile, Quiet
<1>4. TokensInv'
  BY DEF LeaveProfile, IInv, TokensInv, Registered
<1>5. OwnInv'
  <2>1. exposed' = exposed /\ seen' = seen
    BY DEF LeaveProfile
  <2>2. OwnCalls'
    BY <1>1, <1>3, <2>1, QuietOwners
  <2>3. OwnRows' /\ OwnPage'
    BY EmptyOwned DEF LeaveProfile, IInv, OwnInv, OwnRows, OwnPage, OwnedBy, Alone, Fresh
  <2> QED BY <2>2, <2>3 DEF OwnInv
<1> QED BY <1>2, <1>3, <1>4, <1>5, QuietStep DEF IInv

\* A token is somebody's.
LEMMA AskedUsers ==
  ASSUME IInv
  PROVE  {issued[t] : t \in {local} \ {0}} \subseteq Users
BY DEF IInv, TypeOK

\* The profile page is opened; its form is to show the stored profile.
LEMMA OpenProfileStep ==
  ASSUME IInv, OpenProfile
  PROVE  IInv'
<1> USE DEF table, auth, page, history
<1>1. PICK c \in Calls : /\ calls' \in [Calls -> Call \cup {Free}]
                         /\ sent' \in 0..MaxRequests
                         /\ New(calls'[c]) /\ calls'[c].kind = "load"
                         /\ calls'[c].form = profile
                         /\ \A d \in Calls : d # c => calls'[d] = calls[d]
  <2>1. "load" \in Kinds /\ profile \in Forms
    BY EmptyFields DEF IInv, TypeOK, Kinds, AsksMe
  <2>2. TypeOK /\ calls \in [Calls -> Call \cup {Free}]
    BY DEF IInv, TypeOK
  <2>3. Request("load", None, profile, calls)
    BY DEF OpenProfile
  <2> QED BY <2>1, <2>2, <2>3, RequestCalls DEF Asks
<1>2. TypeOK'
  <2>1. TypeOfRest'
    BY <1>1, AskedUsers DEF OpenProfile, Ask, IInv, TypeOK, TypeOfRest
  <2>2. TypeOfFlags'
    BY Zenon DEF OpenProfile, IInv, TypeOK, TypeOfFlags
  <2> QED BY <2>1, <2>2, Zenon DEF TypeOK, TypeOfRest, TypeOfFlags
<1>3. \A d \in Calls : calls[d] # Free => Left(calls[d], calls[d])
  BY Flags DEF IInv, TypeOK
<1>4. Quiet
  BY <1>1, <1>3 DEF OpenProfile, Quiet
<1>5. TokensInv'
  BY DEF OpenProfile, IInv, TokensInv, Registered
<1>6. OwnInv'
  <2>1. exposed' = exposed /\ seen \subseteq seen'
        /\ seen' = seen \cup {issued[t] : t \in {local} \ {0}}
    BY DEF OpenProfile, Ask
  <2>2. OwnPage'
    BY <2>1 DEF OpenProfile, IInv, OwnInv, OwnPage, OwnedBy, Alone, Fresh
  <2>3. OwnRows'
    BY <2>1 DEF OpenProfile, IInv, OwnInv, OwnRows, OwnedBy
  <2>4. OwnCall(calls[c])'
    <3> SUFFICES ASSUME local # 0
                 PROVE  /\ issued[local] \in seen'
                        /\ issued[local] \notin exposed => OwnedBy(issued[local], profile)
      BY <1>1, <2>1 DEF New, OwnCall, OwnedBy, OpenProfile
    <3>1. issued[local] \in Users
      BY DEF IInv, TypeOK
    <3> QED BY <2>1, <3>1 DEF IInv, OwnInv, OwnPage, Alone
  <2>5. OwnCalls'
    BY <1>1, <1>3, <1>4, <2>1, <2>4, QuietOwners
  <2> QED BY <2>2, <2>3, <2>5 DEF OwnInv
<1> QED BY <1>2, <1>4, <1>5, <1>6, QuietStep DEF IInv

\* The form is sent: what is typed into it belongs to whoever has the token.
LEMMA SaveStep ==
  ASSUME IInv, NEW edited \in SUBSET Fields, Save(edited)
  PROVE  IInv'
<1> USE DEF table, auth, page, history
<1>1. token # 0 /\ issued[token] \in Users
  BY DEF Save, IInv, TokensInv, TypeOK
<1>2. form' \in Forms
  <2>1. <<issued[token], 1>> \in Values
    BY <1>1 DEF Values
  <2> QED BY <2>1 DEF Save, IInv, TypeOK, Forms
<1>3. PICK c \in Calls : /\ calls' \in [Calls -> Call \cup {Free}]
                         /\ sent' \in 0..MaxRequests
                         /\ New(calls'[c]) /\ calls'[c].kind = "save"
                         /\ calls'[c].form = form'
                         /\ \A d \in Calls : d # c => calls'[d] = calls[d]
  <2>1. "save" \in Kinds
    BY DEF Kinds, AsksMe
  <2>2. TypeOK /\ calls \in [Calls -> Call \cup {Free}]
    BY DEF IInv, TypeOK
  <2>3. Request("save", None, form', calls)
    BY DEF Save
  <2> QED BY <1>2, <2>1, <2>2, <2>3, RequestCalls DEF Asks
<1>4. TypeOK'
  <2>1. TypeOfRest'
    BY <1>2, <1>3, AskedUsers DEF Save, Ask, IInv, TypeOK, TypeOfRest
  <2>2. TypeOfFlags'
    BY Zenon DEF Save, IInv, TypeOK, TypeOfFlags
  <2> QED BY <2>1, <2>2, Zenon DEF TypeOK, TypeOfRest, TypeOfFlags
<1>5. \A d \in Calls : calls[d] # Free => Left(calls[d], calls[d])
  BY Flags DEF IInv, TypeOK
<1>6. Quiet
  BY <1>3, <1>5 DEF Save, Quiet
<1>7. TokensInv'
  BY DEF Save, IInv, TokensInv, Registered
<1>8. OwnInv'
  <2>1. exposed' = exposed /\ seen \subseteq seen'
        /\ seen' = seen \cup {issued[t] : t \in {local} \ {0}}
        /\ UNCHANGED <<issued, local, token, profile, accounts>>
    BY DEF Save, Ask
  <2>2. ASSUME NEW u \in Users \ exposed, Alone(u)
        PROVE  OwnedBy(u, form')
    <3>1. OwnedBy(u, form) /\ issued[token] = u
      BY <1>1, <2>2 DEF IInv, OwnInv, OwnPage, Alone
    <3> QED BY <3>1 DEF Save, OwnedBy
  <2>3. OwnPage'
    BY <2>1, <2>2 DEF IInv, OwnInv, OwnPage, OwnedBy, Alone, Fresh
  <2>4. OwnRows'
    BY <2>1 DEF IInv, OwnInv, OwnRows, OwnedBy
  <2>5. OwnCall(calls[c])'
    <3> SUFFICES ASSUME local # 0
                 PROVE  /\ issued[local] \in seen'
                        /\ issued[local] \notin exposed => OwnedBy(issued[local], form')
      BY <1>3, <2>1 DEF New, OwnCall, OwnedBy
    <3>1. issued[local] \in Users
      BY DEF IInv, TypeOK
    <3> QED BY <2>1, <2>2, <3>1 DEF IInv, OwnInv, OwnPage
  <2>6. OwnCalls'
    BY <1>3, <1>5, <1>6, <2>1, <2>5, QuietOwners
  <2> QED BY <2>3, <2>4, <2>6 DEF OwnInv
<1> QED BY <1>4, <1>6, <1>7, <1>8, QuietStep DEF IInv

\* Of the requests of a page that is loaded again only writers are left, unawaited.
LEMMA OrphanedCalls ==
  ASSUME TypeOK
  PROVE  /\ Unmounted(Orphaned) \in [Calls -> Call \cup {Free}]
         /\ \A c \in Calls : Unmounted(Orphaned)[c] # Free =>
              /\ calls[c] # Free
              /\ Left(Unmounted(Orphaned)[c], calls[c])
              /\ ~Unmounted(Orphaned)[c].waits
              /\ Unmounted(Orphaned)[c].kind \in {"register", "save"}
<1>1. \A c \in Calls : calls[c] \in Call \cup {Free}
  BY DEF TypeOK
<1>2. \A c \in Calls : Orphaned[c] = Abandoned(calls[c])
  BY DEF Orphaned
<1>3. Orphaned \in [Calls -> Call \cup {Free}]
  <2>1. \A c \in Calls : Abandoned(calls[c]) \in Call \cup {Free}
    BY <1>1, AbandonedCalls
  <2> QED BY <2>1 DEF Orphaned
<1>4. ASSUME NEW c \in Calls, Unmounted(Orphaned)[c] # Free
      PROVE  /\ calls[c] # Free
             /\ Left(Unmounted(Orphaned)[c], calls[c])
             /\ ~Unmounted(Orphaned)[c].waits
             /\ Unmounted(Orphaned)[c].kind \in {"register", "save"}
  <2>1. /\ Orphaned[c] # Free
        /\ Left(Unmounted(Orphaned)[c], Orphaned[c])
        /\ Unmounted(Orphaned)[c].waits = Orphaned[c].waits
    BY <1>3, <1>4, UnmountedCalls
  <2>2. /\ Left(Orphaned[c], calls[c])
        /\ ~Orphaned[c].waits
        /\ calls[c].kind \in {"register", "save"}
    BY <1>1, <1>2, <2>1, AbandonedCalls
  <2> QED BY <2>1, <2>2 DEF Left
<1> QED BY <1>3, <1>4, UnmountedCalls

\* A fresh page: its stores belong to the token of localStorage.
LEMMA ReloadStep ==
  ASSUME IInv, Reload
  PROVE  IInv'
<1> USE DEF table, auth, page, history
<1> DEFINE now == Unmounted(Orphaned)
<1>1. /\ now \in [Calls -> Call \cup {Free}]
      /\ \A d \in Calls : now[d] # Free =>
           calls[d] # Free /\ Left(now[d], calls[d]) /\ ~now[d].waits
           /\ now[d].kind \in {"register", "save"}
  BY OrphanedCalls DEF IInv
<1>2. local # 0 => local \in 1..Len(issued) /\ issued[local] \in Users
  BY DEF IInv, TypeOK
<1>3. /\ calls' \in [Calls -> Call \cup {Free}]
      /\ sent' \in 0..MaxRequests
      /\ \A d \in Calls : calls'[d] = now[d] \/ (local # 0 /\ New(calls'[d]) /\ calls'[d].kind = "me")
  <2>1. CASE local = 0
    BY <1>1, <2>1 DEF Reload, IInv, TypeOK
  <2>2. CASE local # 0
    <3>1. Request("me", None, Empty, now) /\ "me" \in Kinds /\ TypeOK
      BY <2>2 DEF Reload, Kinds, AsksMe, IInv
    <3> HIDE DEF now
    <3> QED BY <1>1, <2>2, <3>1, RequestCalls, EmptyFields DEF Asks
  <2> QED BY <2>1, <2>2
<1> HIDE DEF now
<1>4. /\ UNCHANGED <<accounts, typed, lost, missed, issued, expired, local, exposed>>
      /\ token' = local /\ user' = None
      /\ profile' = Empty /\ form' = Empty /\ onProfile' = FALSE
      /\ seen' = {}
  BY DEF Reload, FreshProfile
<1>5. TypeOK'
  <2>1. TypeOfRest'
    BY <1>2, <1>3, <1>4, EmptyFields DEF IInv, TypeOK, TypeOfRest
  <2>2. TypeOfFlags'
    BY <1>4, Zenon DEF IInv, TypeOK, TypeOfFlags
  <2> QED BY <2>1, <2>2, Zenon DEF TypeOK, TypeOfRest, TypeOfFlags
<1>6. Quiet
  BY <1>1, <1>3, <1>4 DEF Quiet
<1>7. TokensInv'
  BY <1>4 DEF IInv, TokensInv, Registered
<1>8. OwnInv'
  <2>1. OwnPage'
    BY <1>4, EmptyOwned DEF OwnPage, OwnedBy, Alone, Fresh
  <2>2. OwnRows'
    BY <1>4 DEF IInv, OwnInv, OwnRows, OwnedBy
  <2>3. ASSUME NEW d \in Calls, local # 0, New(calls'[d]), calls'[d].kind = "me"
        PROVE  OwnCall(calls[d])'
    BY <2>3 DEF OwnCall
  <2>4. \A d \in Calls : \/ calls'[d] = Free
                         \/ /\ calls[d] # Free /\ Left(calls'[d], calls[d])
                            /\ calls'[d].waits => seen \subseteq seen'
                         \/ OwnCall(calls[d])'
    BY <1>1, <1>3, <2>3
  <2>5. OwnCalls'
    BY <1>4, <1>6, <2>4, QuietOwners
  <2> QED BY <2>1, <2>2, <2>5 DEF OwnInv
<1> QED BY <1>5, <1>6, <1>7, <1>8, QuietStep DEF IInv

(***************************************************************************)
(* Answers, and requests that end.                                         *)
(***************************************************************************)
LEMMA ArrivedCalls ==
  ASSUME TypeOK, NEW c \in Calls
  PROVE  /\ Arrived(c) \in [Calls -> Call \cup {Free}]
         /\ \A d \in Calls : \/ Arrived(c)[d] = Free
                             \/ Arrived(c)[d] = calls[d] /\ calls[d] # Free
                                /\ Left(calls[d], calls[d])
BY Flags DEF TypeOK, Arrived

\* Steps by which a request ends and nothing but the page changes.
LEMMA QuietTypes ==
  ASSUME IInv, Quiet, sent' = sent,
         calls' \in [Calls -> Call \cup {Free}],
         local' \in 0..Len(issued), token' \in 0..Len(issued), user' \in Users \cup {None},
         profile' \in Rows \cup {Empty}, form' \in Forms,
         seen' \subseteq Users, exposed' \subseteq Users
  PROVE  TypeOfRest'
BY DEF IInv, TypeOK, TypeOfRest, Quiet, table

\* login and register are answered: an account is exposed where another has been seen.
LEMMA WelcomeStep ==
  ASSUME IInv, NEW c \in Calls, Deliver(c), calls[c].phase = "ok", Welcome(c)
  PROVE  IInv'
<1> USE DEF table, auth, page, history
<1>1. c \in Busy /\ CallInv(calls[c])
  BY DEF Deliver, IInv, CallsInv, Busy
<1> DEFINE k == calls[c]
<1>2. /\ k.grants \in 1..Len(issued) /\ k.who = issued[k.grants] /\ k.who \in Users
  <2>1. k.grants \in Nat /\ k.grants # 0 /\ k.grants <= Len(issued) /\ k.who = issued[k.grants]
    BY <1>1, RequestFields DEF IInv, CallInv, Welcome
  <2>2. k.grants \in 1..Len(issued)
    BY <2>1 DEF IInv, TypeOK
  <2> QED BY <2>1, <2>2 DEF IInv, TypeOK
<1>3. /\ calls' \in [Calls -> Call \cup {Free}]
      /\ \A d \in Calls : \/ calls'[d] = Free
                          \/ calls[d] # Free /\ Left(calls'[d], calls[d])
  <2>1. calls' = Unmounted(Arrived(c))
    BY DEF Welcome
  <2>2. \A d \in Calls : Arrived(c)[d] # Free => Arrived(c)[d] = calls[d]
    BY ArrivedCalls DEF IInv
  <2> QED BY <2>1, <2>2, UnmountedCalls, ArrivedCalls DEF IInv
<1>4. /\ UNCHANGED <<accounts, typed, lost, missed, issued, expired, sent, profile, seen>>
      /\ local' = k.grants /\ token' = k.grants /\ user' = k.who
      /\ form' = Empty /\ onProfile' = FALSE
  BY DEF Deliver, Welcome, SignedIn
<1>5. exposed' = IF Fresh(k.who) THEN exposed ELSE exposed \cup {k.who}
  BY DEF Welcome, SignedIn
<1> HIDE DEF k
<1>6. Quiet
  BY <1>3, <1>4 DEF Quiet
<1>7. TypeOK'
  <2>1. TypeOfRest'
    BY <1>2, <1>3, <1>4, <1>5, <1>6, QuietTypes, EmptyFields DEF IInv, TypeOK
  <2>2. onProfile' \in BOOLEAN
    BY <1>4, Zenon
  <2> QED BY <2>1, <2>2, Zenon DEF TypeOK, TypeOfRest
<1>8. TokensInv'
  BY <1>4 DEF IInv, TokensInv, Registered
<1>9. OwnInv'
  <2>1. exposed \subseteq exposed' /\ (k.who \notin exposed' => Fresh(k.who))
    BY <1>5
  <2>2. OwnCalls'
    BY <1>3, <1>4, <1>6, <2>1, QuietOwners
  <2>3. OwnRows'
    BY <1>4, <2>1 DEF IInv, OwnInv, OwnRows, OwnedBy
  <2>4. OwnPage'
    BY <1>2, <1>4, <2>1, EmptyOwned DEF IInv, OwnInv, OwnPage, OwnedBy, Alone, Fresh
  <2> QED BY <2>2, <2>3, <2>4 DEF OwnInv
<1> QED BY <1>6, <1>7, <1>8, <1>9, QuietStep DEF IInv

\* fetchProfile is answered.
LEMMA SetUserStep ==
  ASSUME IInv, NEW c \in Calls, Deliver(c), SetUser(c)
  PROVE  IInv'
<1> USE DEF table, auth, page, history
<1>1. c \in Busy
  BY DEF Deliver, Busy
<1>2. calls' = Arrived(c) /\ user' = calls[c].who
  BY DEF SetUser
<1>3. /\ calls' \in [Calls -> Call \cup {Free}]
      /\ \A d \in Calls : \/ calls'[d] = Free
                          \/ calls[d] # Free /\ Left(calls'[d], calls[d])
  BY <1>2, ArrivedCalls DEF IInv
<1>4. UNCHANGED <<accounts, typed, lost, missed, issued, expired, sent, local, token,
                  profile, form, onProfile, seen, exposed>>
  BY DEF Deliver, SetUser
<1>5. Quiet
  BY <1>3, <1>4 DEF Quiet
<1>6. TypeOK'
  <2>1. calls[c].who \in Users \cup {None}
    BY <1>1, RequestFields DEF IInv
  <2>2. TypeOfRest'
    BY <1>2, <1>3, <1>4, <1>5, <2>1, QuietTypes DEF IInv, TypeOK
  <2>3. TypeOfFlags'
    BY <1>4, Zenon DEF IInv, TypeOK, TypeOfFlags
  <2> QED BY <2>2, <2>3, Zenon DEF TypeOK, TypeOfRest, TypeOfFlags
<1>7. TokensInv'
  BY <1>4 DEF IInv, TokensInv, Registered
<1>8. OwnInv'
  <2>1. OwnCalls'
    BY <1>3, <1>4, <1>5, QuietOwners
  <2>2. OwnRows' /\ OwnPage'
    BY <1>4 DEF IInv, OwnInv, OwnRows, OwnPage, OwnedBy, Alone, Fresh
  <2> QED BY <2>1, <2>2 DEF OwnInv
<1> QED BY <1>5, <1>6, <1>7, <1>8, QuietStep DEF IInv

\* A profile arrives: its row belongs to the token that was sent.
LEMMA SetProfileStep ==
  ASSUME IInv, NEW c \in Calls, Deliver(c), calls[c].phase = "ok", SetProfile(c)
  PROVE  IInv'
<1> USE DEF table, auth, page, history
<1>1. c \in Busy /\ CallInv(calls[c])
  BY DEF Deliver, IInv, CallsInv, Busy
<1>2. /\ calls' = Arrived(c)
      /\ profile' = calls[c].row
      /\ form' \in {form, calls[c].form}
  BY DEF SetProfile
<1>3. /\ calls' \in [Calls -> Call \cup {Free}]
      /\ \A d \in Calls : \/ calls'[d] = Free
                          \/ calls[d] # Free /\ Left(calls'[d], calls[d])
  BY <1>2, ArrivedCalls DEF IInv
<1>4. UNCHANGED <<accounts, typed, lost, missed, issued, expired, sent, local, token,
                  user, onProfile, seen, exposed>>
  BY DEF Deliver, SetProfile
<1>5. Quiet
  BY <1>3, <1>4 DEF Quiet
<1>6. TypeOK'
  <2>1. calls[c].form \in Forms /\ calls[c].row \in Rows \cup {Empty}
    BY <1>1, RequestFields DEF IInv
  <2>2. TypeOfRest'
    BY <1>2, <1>3, <1>4, <1>5, <2>1, QuietTypes DEF IInv, TypeOK
  <2>3. TypeOfFlags'
    BY <1>4, Zenon DEF IInv, TypeOK, TypeOfFlags
  <2> QED BY <2>2, <2>3, Zenon DEF TypeOK, TypeOfRest, TypeOfFlags
<1>7. TokensInv'
  BY <1>4 DEF IInv, TokensInv, Registered
<1>8. OwnInv'
  <2>1. OwnCalls'
    BY <1>3, <1>4, <1>5, QuietOwners
  <2>2. OwnRows'
    BY <1>4 DEF IInv, OwnInv, OwnRows, OwnedBy
  <2>3. ASSUME NEW u \in Users \ exposed, Fresh(u)
        PROVE  OwnedBy(u, calls[c].row) /\ OwnedBy(u, calls[c].form)
    <3>1. calls[c].kind \in {"load", "save"} /\ calls[c].header # 0 /\ calls[c].waits
      BY <1>1 DEF SetProfile, CallInv
    <3>2. OwnCall(calls[c])
      BY <1>1 DEF IInv, OwnInv, OwnCalls
    <3>3. issued[calls[c].header] = u
      BY <2>3, <3>1, <3>2 DEF OwnCall, Fresh
    <3> QED BY <3>1, <3>2, <3>3 DEF OwnCall
  <2>4. OwnPage'
    BY <1>2, <1>4, <2>3 DEF IInv, OwnInv, OwnPage, OwnedBy, Alone, Fresh
  <2> QED BY <2>1, <2>2, <2>4 DEF OwnInv
<1> QED BY <1>5, <1>6, <1>7, <1>8, QuietStep DEF IInv

\* A refusal, an error, and a request that is dropped: the page keeps what it shows.
LEMMA EndStep ==
  ASSUME IInv, NEW c \in Calls,
         \/ Deliver(c) /\ calls[c].phase = "denied" /\ SignOut /\ calls' = Arrived(c)
            /\ UNCHANGED <<page, history>>
         \/ Fail(c)
         \/ Drop(c)
  PROVE  IInv'
<1> USE DEF table, auth, page, history
<1>1. /\ UNCHANGED <<accounts, typed, lost, missed, issued, expired, sent, token,
                     profile, form, onProfile, seen, exposed>>
      /\ local' \in {local, 0} /\ user' \in {user, None}
  BY DEF Deliver, SignOut, Fail, OnError, Drop
<1>2. \E left \in {Free, Abandoned(calls[c])} : calls' = [calls EXCEPT ![c] = left]
  <2>1. CASE calls' = Arrived(c)
    BY <2>1 DEF Arrived
  <2>2. CASE Fail(c)
    BY <2>2 DEF Fail
  <2>3. CASE Drop(c)
    BY <2>3, <2>1 DEF Drop
  <2> QED BY <2>1, <2>2, <2>3
<1>3. /\ calls' \in [Calls -> Call \cup {Free}]
      /\ \A d \in Calls : \/ calls'[d] = Free
                          \/ calls[d] # Free /\ Left(calls'[d], calls[d])
  <2>1. \A d \in Calls : calls[d] \in Call \cup {Free}
    BY DEF IInv, TypeOK
  <2>2. /\ Abandoned(calls[c]) \in Call \cup {Free}
        /\ Abandoned(calls[c]) # Free => Left(Abandoned(calls[c]), calls[c])
    BY <2>1, AbandonedCalls
  <2>3. calls' \in [Calls -> Call \cup {Free}]
    BY <1>2, <2>2 DEF IInv, TypeOK
  <2>4. calls'[c] # Free => calls[c] # Free /\ Left(calls'[c], calls[c])
    <3>1. calls'[c] \in {Free, Abandoned(calls[c])}
      BY <1>2 DEF IInv, TypeOK
    <3> QED BY <2>2, <3>1 DEF Left
  <2>5. \A d \in Calls : d # c => calls'[d] = calls[d]
    BY <1>2 DEF IInv, TypeOK
  <2>6. \A d \in Calls : calls[d] # Free => Left(calls[d], calls[d])
    BY <2>1, Flags
  <2> QED BY <2>3, <2>4, <2>5, <2>6
<1>4. Quiet
  BY <1>1, <1>3 DEF Quiet
<1>5. TypeOK'
  <2>1. local' \in 0..Len(issued)
    BY <1>1 DEF IInv, TypeOK
  <2>2. TypeOfRest'
    BY <1>1, <1>3, <1>4, <2>1, QuietTypes DEF IInv, TypeOK
  <2>3. TypeOfFlags'
    BY <1>1, Zenon DEF IInv, TypeOK, TypeOfFlags
  <2> QED BY <2>2, <2>3, Zenon DEF TypeOK, TypeOfRest, TypeOfFlags
<1>6. TokensInv'
  BY <1>1 DEF IInv, TokensInv, Registered
<1>7. OwnInv'
  <2>1. OwnCalls'
    BY <1>1, <1>3, <1>4, QuietOwners
  <2>2. OwnRows' /\ OwnPage'
    BY <1>1 DEF IInv, OwnInv, OwnRows, OwnPage, OwnedBy, Alone, Fresh
  <2> QED BY <2>1, <2>2 DEF OwnInv
<1> QED BY <1>4, <1>5, <1>6, <1>7, QuietStep DEF IInv

\* All answers.
LEMMA DeliverStep ==
  ASSUME IInv, NEW c \in Calls, Deliver(c)
  PROVE  IInv'
<1>1. \/ calls[c].phase = "ok" /\ (Welcome(c) \/ SetUser(c) \/ SetProfile(c))
      \/ calls[c].phase = "denied" /\ SignOut /\ calls' = Arrived(c) /\ UNCHANGED <<page, history>>
  BY DEF Deliver
<1> QED BY <1>1, WelcomeStep, SetUserStep, SetProfileStep, EndStep

(***************************************************************************)
(* The server's steps, and other tabs.  They change one request, and the   *)
(* rest of the requests is as sound as before, tokens only being added.    *)
(***************************************************************************)
Grown ==
  /\ Len(issued) <= Len(issued')
  /\ \A t \in 1..Len(issued) : issued'[t] = issued[t]
  /\ expired \subseteq expired'

\* Where no token is issued, the tokens stay as they are.
LEMMA Stays ==
  ASSUME IInv, issued' = issued, expired' = expired
  PROVE  Grown
BY DEF IInv, TypeOK, Grown

\* A token that is issued is the last, and the others keep their owners.
LEMMA Issued ==
  ASSUME IInv, Len(issued) < MaxTokens, NEW u \in Users, issued' = Append(issued, u),
         expired' = expired
  PROVE  /\ Grown
         /\ issued' \in Seq(Users) /\ Len(issued') <= MaxTokens
         /\ Len(issued') = Len(issued) + 1 /\ issued'[Len(issued) + 1] = u
         /\ expired' \subseteq 1..Len(issued')
<1>1. issued \in Seq(Users) /\ Len(issued) \in Nat
  BY DEF IInv, TypeOK
<1>2. issued' \in Seq(Users) /\ Len(issued') = Len(issued) + 1
  BY <1>1
<1>3. \A t \in 1..Len(issued) : issued'[t] = issued[t]
  BY <1>1
<1>4. issued'[Len(issued) + 1] = u
  BY <1>1
<1>5. Len(issued') <= MaxTokens
  BY <1>1, <1>2, SessionAssumption DEF SessionAssumption
<1>6. expired' \subseteq 1..Len(issued')
  BY <1>1, <1>2 DEF IInv, TypeOK
<1> QED BY <1>1, <1>2, <1>3, <1>4, <1>5, <1>6 DEF Grown

\* What is known of a request stays true when tokens are issued.
LEMMA KeptCall ==
  ASSUME IInv, Grown, Len(issued') \in Nat, seen \subseteq seen', exposed \subseteq exposed',
         NEW c \in Busy, calls'[c] = calls[c]
  PROVE  CallInv(calls[c])' /\ OwnCall(calls[c])'
<1> DEFINE k == calls[c]
<1>1. CallInv(k)
  BY DEF IInv, CallsInv
<1>2. k.header \in Nat /\ k.grants \in Nat /\ k.form \in Forms
  BY RequestFields DEF IInv
<1>3. Len(issued) \in Nat
  BY DEF IInv, TypeOK
<1>4. /\ k.header # 0 => k.header \in 1..Len(issued) /\ issued[k.header] \in Users
      /\ k.grants # 0 => k.grants \in 1..Len(issued)
  <2>1. /\ k.header # 0 => k.header \in 1..Len(issued)
        /\ k.grants # 0 => k.grants \in 1..Len(issued)
    BY <1>1, <1>2, <1>3 DEF CallInv
  <2> QED BY <2>1 DEF IInv, TypeOK
<1>5. /\ k.header # 0 => issued'[k.header] = issued[k.header]
      /\ k.grants # 0 => issued'[k.grants] = issued[k.grants]
  BY <1>4 DEF Grown
<1>6. CallInv(calls[c])'
  <2>1. k.header <= Len(issued') /\ k.grants <= Len(issued')
    BY <1>1, <1>2, <1>3 DEF CallInv, Grown
  <2>2. k.phase = "denied" => k.kind = "login" \/ k.header = 0 \/ k.header \in expired'
    BY <1>1 DEF CallInv, Grown
  <2> QED BY <1>1, <1>5, <2>1, <2>2 DEF CallInv
<1>7. OwnCall(calls[c])'
  <2>1. OwnCall(k)
    BY DEF IInv, OwnInv, OwnCalls
  <2> HIDE DEF k
  <2>2. calls'[c] = k
    BY DEF k
  <2> QED BY <1>5, <2>1, <2>2 DEF OwnCall, OwnedBy
<1> QED BY <1>6, <1>7

\* Saves are not concerned by steps that leave the table and the saves half done alone.
LEMMA KeptSaves ==
  ASSUME IInv, UNCHANGED table,
         \A c \in Calls : calls'[c] # Free /\ calls'[c].phase = "read" => calls'[c] = calls[c]
  PROVE  SavesInv'
<1>1. accounts' = accounts /\ typed' = typed /\ lost' = lost /\ missed' = missed
  BY DEF table
<1>2. ASSUME NEW c \in Calls, NEW u, Reading(c, u)'
      PROVE  Reading(c, u) /\ calls'[c] = calls[c]
  BY <1>2 DEF Reading
<1> QED BY <1>1, <1>2 DEF IInv, SavesInv

\* An answer changes the phase only, and is for a page that waits.
LEMMA AnsweredCalls ==
  ASSUME IInv, NEW c \in Busy, NEW phase \in Answers
  PROVE  /\ Answered(c, phase) \in [Calls -> Call \cup {Free}]
         /\ \A d \in Calls : d # c => Answered(c, phase)[d] = calls[d]
         /\ Answered(c, phase)[c] # Free =>
              /\ Answered(c, phase)[c] = [calls[c] EXCEPT !.phase = phase]
              /\ calls[c].waits
<1>1. c \in Calls /\ calls[c] \in Call
  BY RequestFields DEF IInv, Busy
<1>2. [calls[c] EXCEPT !.phase = phase] \in Call
  BY <1>1 DEF Call
<1>3. Answered(c, phase) \in [Calls -> Call \cup {Free}]
  BY <1>1, <1>2 DEF Answered, IInv, TypeOK
<1>4. \A d \in Calls : d # c => Answered(c, phase)[d] = calls[d]
  BY DEF Answered, IInv, TypeOK
<1>5. Answered(c, phase)[c] = IF calls[c].waits THEN [calls[c] EXCEPT !.phase = phase] ELSE Free
  BY <1>1 DEF Answered, IInv, TypeOK
<1> QED BY <1>3, <1>4, <1>5

\* Steps that change the table, one request, and issue a token at most.
LEMMA TableStep ==
  ASSUME IInv, NEW c \in Calls, Grown, UNCHANGED <<expired, sent, auth, page, history>>,
         accounts' \in [Users -> Rows \cup {Empty}], typed' \in [Users -> Rows \cup {Empty}],
         lost' \in [Users -> SUBSET Fields], missed' \in [Calls -> SUBSET Fields],
         \A u \in Users : accounts'[u] # Empty => accounts'[u] \in Rows /\ typed'[u] \in Rows,
         \A u \in Users : accounts[u] # Empty => accounts'[u] # Empty,
         \A u \in Users \ exposed : OwnedBy(u, accounts'[u]),
         issued' \in Seq(Users), Len(issued') <= MaxTokens,
         \A t \in 1..Len(issued') : accounts'[issued'[t]] # Empty,
         calls' \in [Calls -> Call \cup {Free}],
         \A d \in Calls : d # c => calls'[d] = calls[d],
         calls'[c] # Free => CallInv(calls[c])' /\ OwnCall(calls[c])',
         SavesInv'
  PROVE  IInv'
<1> USE DEF auth, page, history
<1>1. Len(issued') \in Nat /\ Len(issued) \in Nat /\ Len(issued) <= Len(issued')
  BY DEF IInv, TypeOK, Grown
<1>2. TypeOK'
  <2>1. TypeOfRest'
    BY <1>1 DEF IInv, TypeOK, TypeOfRest
  <2>2. TypeOfFlags'
    BY Zenon DEF IInv, TypeOK, TypeOfFlags
  <2> QED BY <2>1, <2>2, Zenon DEF TypeOK, TypeOfRest, TypeOfFlags
<1>3. TokensInv'
  <2>1. \A t \in 1..Len(issued') : issued'[t] \in Users
    OBVIOUS
  <2> QED BY <2>1 DEF IInv, TokensInv, Registered
<1>4. CallsInv'
  <2> SUFFICES ASSUME NEW d \in Calls, calls'[d] # Free
               PROVE  CallInv(calls[d])'
    BY DEF CallsInv, Busy
  <2>1. CASE d = c
    BY <2>1
  <2>2. CASE d # c
    BY <1>1, <2>2, KeptCall DEF Busy
  <2> QED BY <2>1, <2>2
<1>5. OwnInv'
  <2>1. OwnCalls'
    <3> SUFFICES ASSUME NEW d \in Calls, calls'[d] # Free
                 PROVE  OwnCall(calls[d])'
      BY DEF OwnCalls, Busy
    <3>1. CASE d = c
      BY <3>1
    <3>2. CASE d # c
      BY <1>1, <3>2, KeptCall DEF Busy
    <3> QED BY <3>1, <3>2
  <2>2. OwnPage'
    <3>1. /\ local # 0 => local \in 1..Len(issued)
          /\ token # 0 => token \in 1..Len(issued)
      BY DEF IInv, TypeOK
    <3>2. /\ local # 0 => issued'[local] = issued[local]
          /\ token # 0 => issued'[token] = issued[token]
      BY <3>1 DEF Grown
    <3> QED BY <3>2 DEF IInv, OwnInv, OwnPage, OwnedBy, Alone, Fresh
  <2>3. OwnRows'
    BY DEF OwnRows, OwnedBy
  <2> QED BY <2>1, <2>2, <2>3 DEF OwnInv
<1> QED BY <1>2, <1>3, <1>4, <1>5 DEF IInv

\* Steps that answer one request and issue a token at most.
LEMMA AnswerStep ==
  ASSUME IInv, NEW c \in Calls, Grown, UNCHANGED <<table, expired, sent, auth, page, history>>,
         issued' \in Seq(Users), Len(issued') <= MaxTokens,
         \A t \in 1..Len(issued') : Registered(issued'[t]),
         calls' \in [Calls -> Call \cup {Free}],
         \A d \in Calls : d # c => calls'[d] = calls[d],
         calls'[c] # Free => /\ calls'[c].phase # "read"
                             /\ CallInv(calls[c])'
                             /\ OwnCall(calls[c])'
  PROVE  IInv'
<1>1. accounts' = accounts /\ typed' = typed /\ lost' = lost /\ missed' = missed
  BY DEF table
<1>2. SavesInv'
  BY KeptSaves
<1>3. \A t \in 1..Len(issued') : accounts'[issued'[t]] # Empty
  BY <1>1, EmptyFields DEF Registered
<1>4. /\ accounts' \in [Users -> Rows \cup {Empty}] /\ typed' \in [Users -> Rows \cup {Empty}]
      /\ lost' \in [Users -> SUBSET Fields] /\ missed' \in [Calls -> SUBSET Fields]
      /\ \A u \in Users : accounts'[u] # Empty => accounts'[u] \in Rows /\ typed'[u] \in Rows
      /\ \A u \in Users \ exposed : OwnedBy(u, accounts'[u])
  BY <1>1 DEF IInv, TypeOK, TokensInv, Registered, OwnInv, OwnRows
<1> QED BY <1>1, <1>2, <1>3, <1>4, TableStep

\* AuthRequired refuses a token that is missing or expired.
LEMMA DenyStep ==
  ASSUME IInv, NEW c \in Calls, Deny(c)
  PROVE  IInv'
<1>1. c \in Busy /\ calls' = Answered(c, "denied") /\ calls[c].kind \in AsksMe
  BY DEF Deny, Sent, Busy
<1>2. calls[c].header = 0 \/ calls[c].header \in expired
  BY DEF Deny, Valid
<1>3. Grown
  BY Stays DEF Deny
<1>4. "denied" \in Answers
  BY DEF Answers
<1>5. /\ calls' \in [Calls -> Call \cup {Free}]
      /\ \A d \in Calls : d # c => calls'[d] = calls[d]
      /\ calls'[c] # Free => calls'[c] = [calls[c] EXCEPT !.phase = "denied"]
  BY <1>1, <1>4, AnsweredCalls
<1>6. CallInv(calls[c]) /\ OwnCall(calls[c]) /\ calls[c] \in Call
  BY <1>1, RequestFields DEF IInv, CallsInv, OwnInv, OwnCalls
<1>7. ASSUME calls'[c] # Free
      PROVE  /\ calls'[c].phase # "read"
             /\ CallInv(calls[c])'
             /\ OwnCall(calls[c])'
  <2>1. /\ calls'[c].phase = "denied"
        /\ calls'[c].kind = calls[c].kind /\ calls'[c].header = calls[c].header
        /\ calls'[c].grants = calls[c].grants /\ calls'[c].form = calls[c].form
        /\ calls'[c].waits = calls[c].waits /\ calls'[c].who = calls[c].who
    BY <1>5, <1>6, <1>7 DEF Call
  <2>2. issued' = issued /\ expired' = expired /\ seen' = seen /\ exposed' = exposed
    BY DEF Deny, history
  <2>3. CallInv(calls[c])'
    BY <1>1, <1>2, <1>6, <2>1, <2>2 DEF CallInv, AsksMe
  <2>4. OwnCall(calls[c])'
    BY <1>6, <2>1, <2>2 DEF OwnCall, OwnedBy
  <2> QED BY <2>1, <2>3, <2>4
<1>8. /\ issued' \in Seq(Users) /\ Len(issued') <= MaxTokens
      /\ \A t \in 1..Len(issued') : Registered(issued'[t])
  BY DEF Deny, IInv, TypeOK, TokensInv
<1> QED BY <1>3, <1>5, <1>7, <1>8, AnswerStep DEF Deny

\* The row of the token's account is sent back.
LEMMA GetProfileStep ==
  ASSUME IInv, NEW c \in Calls, GetProfile(c)
  PROVE  IInv'
<1>1. c \in Busy /\ calls[c].kind \in {"me", "load"} /\ calls[c].phase = "sent"
  BY DEF GetProfile, Sent, Busy
<1>2. CallInv(calls[c]) /\ OwnCall(calls[c]) /\ calls[c] \in Call
  BY <1>1, RequestFields DEF IInv, CallsInv, OwnInv, OwnCalls
<1>3. calls[c].header \in 1..Len(issued)
  <2>1. calls[c].header \in Nat /\ calls[c].header # 0 /\ calls[c].header <= Len(issued)
    BY <1>1, <1>2, RequestFields DEF GetProfile, Valid, IInv, CallInv
  <2> QED BY <2>1 DEF IInv, TypeOK
<1>4. Caller(c) = issued[calls[c].header] /\ Caller(c) \in Users /\ accounts[Caller(c)] \in Rows
  BY <1>3 DEF Caller, IInv, TypeOK, TokensInv, Registered
<1> DEFINE k == [calls[c] EXCEPT !.phase = "ok", !.who = Caller(c), !.row = accounts[Caller(c)]]
<1>5. calls' = [calls EXCEPT ![c] = k]
  BY DEF GetProfile
<1>6. /\ k \in Call /\ k.phase = "ok" /\ k.row = accounts[Caller(c)]
      /\ k.kind = calls[c].kind /\ k.header = calls[c].header /\ k.grants = calls[c].grants
      /\ k.form = calls[c].form /\ k.waits = calls[c].waits
  BY <1>2, <1>4 DEF Call, Answers
<1> HIDE DEF k
<1>7. /\ calls' \in [Calls -> Call \cup {Free}]
      /\ calls'[c] = k
      /\ \A d \in Calls : d # c => calls'[d] = calls[d]
  BY <1>5, <1>6 DEF IInv, TypeOK
<1>8. issued' = issued /\ expired' = expired /\ seen' = seen /\ exposed' = exposed
  BY DEF GetProfile, history
<1>9. CallInv(calls[c])'
  BY <1>1, <1>2, <1>3, <1>6, <1>7, <1>8 DEF CallInv, Asks
<1>10. OwnCall(calls[c])'
  <2>1. Caller(c) \notin exposed => OwnedBy(Caller(c), accounts[Caller(c)])
    BY <1>4 DEF IInv, OwnInv, OwnRows
  <2> QED BY <1>2, <1>4, <1>6, <1>7, <1>8, <2>1 DEF OwnCall, OwnedBy
<1>11. /\ issued' \in Seq(Users) /\ Len(issued') <= MaxTokens
       /\ \A t \in 1..Len(issued') : Registered(issued'[t])
  BY <1>8 DEF IInv, TypeOK, TokensInv
<1>12. Grown
  BY <1>8, Stays
<1> QED BY <1>6, <1>7, <1>9, <1>10, <1>11, <1>12, AnswerStep DEF GetProfile

\* The answer that carries a new token.
LEMMA IssuedAnswer ==
  ASSUME IInv, NEW c \in Busy, calls[c].kind \in Asks, calls[c].who \in Users,
         Issue(c), expired' = expired, seen' = seen /\ exposed' = exposed
  PROVE  /\ Grown
         /\ issued' \in Seq(Users) /\ Len(issued') <= MaxTokens
         /\ Len(issued') = Len(issued) + 1 /\ issued'[Len(issued) + 1] = calls[c].who
         /\ calls' \in [Calls -> Call \cup {Free}]
         /\ \A d \in Calls : d # c => calls'[d] = calls[d]
         /\ calls'[c].phase # "read"
         /\ CallInv(calls[c])'
         /\ OwnCall(calls[c])'
<1> DEFINE k == calls[c]
<1>1. /\ CallInv(k) /\ OwnCall(k) /\ k \in Call /\ k.header \in Nat /\ c \in Calls
      /\ Len(issued) \in Nat
  BY RequestFields DEF IInv, CallsInv, OwnInv, OwnCalls, TypeOK, Busy
<1>2. /\ Grown /\ issued' \in Seq(Users) /\ Len(issued') <= MaxTokens
      /\ Len(issued') = Len(issued) + 1 /\ issued'[Len(issued) + 1] = k.who
  <2>1. Len(issued) < MaxTokens /\ issued' = Append(issued, k.who)
    BY DEF Issue
  <2> QED BY <2>1, Issued
<1> DEFINE new == [k EXCEPT !.phase = "ok", !.grants = Len(issued) + 1]
<1>3. calls' = [calls EXCEPT ![c] = new]
  BY DEF Issue
<1>4. /\ new \in Call
      /\ new.phase = "ok" /\ new.grants = Len(issued) + 1 /\ new.who = k.who
      /\ new.kind = k.kind /\ new.header = k.header /\ new.waits = k.waits
  <2>1. Len(issued) + 1 \in Tokens
    BY <1>1, <1>2, SessionAssumption DEF SessionAssumption, Tokens
  <2> QED BY <1>1, <2>1 DEF Call, Answers
<1> HIDE DEF new, k
<1>5. /\ calls' \in [Calls -> Call \cup {Free}]
      /\ calls'[c] = new
      /\ \A d \in Calls : d # c => calls'[d] = calls[d]
  BY <1>1, <1>3, <1>4 DEF IInv, TypeOK
<1>6. new.kind \in Asks
  BY <1>4 DEF k
<1>7. CallInv(calls[c])'
  BY <1>1, <1>2, <1>4, <1>5, <1>6 DEF CallInv, Asks
<1>8. k.header # 0 => issued'[k.header] = issued[k.header]
  BY <1>1, <1>2 DEF Grown, CallInv
<1>9. OwnCall(calls[c])'
  BY <1>1, <1>4, <1>5, <1>6, <1>8 DEF OwnCall, OwnedBy, Asks
<1> QED BY <1>2, <1>4, <1>5, <1>7, <1>9 DEF k

\* A password is refused or a token issued.
LEMMA LoginStep ==
  ASSUME IInv, NEW c \in Calls, Login(c)
  PROVE  IInv'
<1>1. c \in Busy /\ calls[c].kind = "login" /\ calls[c].phase = "sent"
  BY DEF Login, Sent, Busy
<1>2. CallInv(calls[c]) /\ OwnCall(calls[c]) /\ calls[c] \in Call
  BY <1>1, RequestFields DEF IInv, CallsInv, OwnInv, OwnCalls
<1>3. /\ expired' = expired /\ seen' = seen /\ exposed' = exposed
      /\ accounts' = accounts /\ typed' = typed
  BY DEF Login, history, table
<1>4. CASE calls' = Answered(c, "denied") /\ UNCHANGED issued
  <2>1. "denied" \in Answers
    BY DEF Answers
  <2>2. /\ calls' \in [Calls -> Call \cup {Free}]
        /\ \A d \in Calls : d # c => calls'[d] = calls[d]
        /\ calls'[c] # Free => calls'[c] = [calls[c] EXCEPT !.phase = "denied"]
    BY <1>1, <1>4, <2>1, AnsweredCalls
  <2>3. ASSUME calls'[c] # Free
        PROVE  /\ calls'[c].phase # "read"
               /\ CallInv(calls[c])'
               /\ OwnCall(calls[c])'
    <3>1. /\ calls'[c].phase = "denied"
          /\ calls'[c].kind = calls[c].kind /\ calls'[c].header = calls[c].header
          /\ calls'[c].grants = calls[c].grants /\ calls'[c].form = calls[c].form
          /\ calls'[c].waits = calls[c].waits /\ calls'[c].who = calls[c].who
      BY <1>2, <2>2, <2>3 DEF Call
    <3>2. CallInv(calls[c])'
      BY <1>1, <1>2, <1>3, <1>4, <3>1 DEF CallInv
    <3>3. OwnCall(calls[c])'
      BY <1>2, <1>3, <1>4, <3>1 DEF OwnCall, OwnedBy
    <3> QED BY <3>1, <3>2, <3>3
  <2>4. /\ issued' \in Seq(Users) /\ Len(issued') <= MaxTokens
        /\ \A t \in 1..Len(issued') : Registered(issued'[t])
    BY <1>4 DEF IInv, TypeOK, TokensInv
  <2>5. Grown
    BY <1>3, <1>4, Stays
  <2> QED BY <2>2, <2>3, <2>4, <2>5, AnswerStep DEF Login
<1>5. CASE accounts[calls[c].who] # Empty /\ Issue(c)
  <2>1. calls[c].kind \in Asks /\ calls[c].who \in Users
    BY <1>1, <1>2 DEF CallInv, Asks
  <2>2. /\ Grown
        /\ issued' \in Seq(Users) /\ Len(issued') <= MaxTokens
        /\ Len(issued') = Len(issued) + 1 /\ issued'[Len(issued) + 1] = calls[c].who
        /\ calls' \in [Calls -> Call \cup {Free}]
        /\ \A d \in Calls : d # c => calls'[d] = calls[d]
        /\ calls'[c].phase # "read"
        /\ CallInv(calls[c])'
        /\ OwnCall(calls[c])'
    BY <1>1, <1>3, <1>5, <2>1, IssuedAnswer
  <2>3. Registered(calls[c].who)
    BY <1>5, <2>1 DEF IInv, TokensInv
  <2>4. \A t \in 1..Len(issued') : Registered(issued'[t])
    <3>1. ASSUME NEW t \in 1..Len(issued')
          PROVE  t = Len(issued) + 1 \/ t \in 1..Len(issued)
      BY <2>2 DEF IInv, TypeOK
    <3> QED BY <2>2, <2>3, <3>1 DEF IInv, TokensInv, Grown
  <2> QED BY <2>2, <2>4, AnswerStep DEF Login
<1> QED BY <1>4, <1>5 DEF Login

\* The row that a save has read is that of an account.
LEMMA ReadersRegistered ==
  ASSUME IInv, NEW c \in Calls, NEW u, Reading(c, u)
  PROVE  /\ u \in Users /\ Registered(u)
         /\ calls[c].kind = "save" /\ calls[c].row \in Rows /\ calls[c].form \in Forms
         /\ calls[c].header \in 1..Len(issued) /\ issued[calls[c].header] = u
<1>1. c \in Busy /\ CallInv(calls[c]) /\ calls[c].phase = "read" /\ calls[c].who = u
  BY DEF Reading, IInv, CallsInv, Busy
<1>2. calls[c].header \in Nat /\ calls[c].form \in Forms
  BY <1>1, RequestFields DEF IInv
<1>3. calls[c].header \in 1..Len(issued)
  BY <1>1, <1>2 DEF CallInv, IInv, TypeOK
<1>4. issued[calls[c].header] \in Users /\ Registered(issued[calls[c].header])
  BY <1>3 DEF IInv, TypeOK, TokensInv
<1> QED BY <1>1, <1>2, <1>3, <1>4 DEF CallInv

\* A row is added and a token issued.
LEMMA RegisterStep ==
  ASSUME IInv, NEW c \in Calls, Register(c)
  PROVE  IInv'
<1> DEFINE u == calls[c].who
<1>1. c \in Busy /\ calls[c].kind = "register" /\ CallInv(calls[c])
  BY DEF Register, Sent, Busy, IInv, CallsInv
<1>2. u \in Users /\ accounts[u] = Empty /\ RegisteredRow(u) \in Rows /\ RegisteredRow(u) # Empty
  BY <1>1, EmptyFields DEF Register, CallInv, Asks
<1>3. /\ accounts' = [accounts EXCEPT ![u] = RegisteredRow(u)]
      /\ typed' = [typed EXCEPT ![u] = RegisteredRow(u)]
      /\ lost' = lost /\ missed' = missed
      /\ expired' = expired /\ seen' = seen /\ exposed' = exposed
  BY DEF Register, history
<1>4. /\ Grown
      /\ issued' \in Seq(Users) /\ Len(issued') <= MaxTokens
      /\ \A t \in 1..Len(issued') : issued'[t] = u \/ t \in 1..Len(issued)
      /\ calls' \in [Calls -> Call \cup {Free}]
      /\ \A d \in Calls : d # c => calls'[d] = calls[d]
      /\ calls'[c] # Free => /\ calls'[c].phase # "read"
                             /\ CallInv(calls[c])'
                             /\ OwnCall(calls[c])'
  <2>1. CASE Issue(c)
    <3>1. calls[c].kind \in Asks
      BY <1>1 DEF Asks
    <3>2. /\ Grown
          /\ issued' \in Seq(Users) /\ Len(issued') <= MaxTokens
          /\ Len(issued') = Len(issued) + 1 /\ issued'[Len(issued) + 1] = calls[c].who
          /\ calls' \in [Calls -> Call \cup {Free}]
          /\ \A d \in Calls : d # c => calls'[d] = calls[d]
          /\ calls'[c].phase # "read"
          /\ CallInv(calls[c])'
          /\ OwnCall(calls[c])'
      BY <1>1, <1>2, <1>3, <2>1, <3>1, IssuedAnswer
    <3>3. Len(issued) \in Nat
      BY DEF IInv, TypeOK
    <3> QED BY <3>2, <3>3
  <2>2. CASE calls' = Arrived(c) /\ UNCHANGED issued
    <3>1. Grown
      BY <1>3, <2>2, Stays
    <3> QED BY <2>2, <3>1 DEF Arrived, IInv, TypeOK
  <2> QED BY <2>1, <2>2 DEF Register
<1> HIDE DEF u
<1>5. /\ accounts' \in [Users -> Rows \cup {Empty}] /\ typed' \in [Users -> Rows \cup {Empty}]
      /\ accounts'[u] = RegisteredRow(u) /\ typed'[u] = RegisteredRow(u)
      /\ \A v \in Users : v # u => accounts'[v] = accounts[v] /\ typed'[v] = typed[v]
  BY <1>2, <1>3 DEF IInv, TypeOK
<1>6. \A v \in Users : accounts'[v] # Empty => accounts'[v] \in Rows /\ typed'[v] \in Rows
  BY <1>2, <1>5 DEF IInv, TokensInv, Registered
<1>7. \A t \in 1..Len(issued') : accounts'[issued'[t]] # Empty
  <2>1. \A t \in 1..Len(issued) : issued[t] \in Users /\ accounts[issued[t]] # Empty
    BY EmptyFields DEF IInv, TypeOK, TokensInv, Registered
  <2> QED BY <1>2, <1>4, <1>5, <2>1 DEF Grown
<1>8. \A v \in Users \ exposed : OwnedBy(v, accounts'[v])
  BY <1>2, <1>5, RegisteredOwned DEF IInv, OwnInv, OwnRows
<1>9. SavesInv'
  <2>1. ASSUME NEW d \in Calls, NEW v, Reading(d, v)'
        PROVE  Reading(d, v) /\ calls'[d] = calls[d] /\ v # u /\ v \in Users
    <3>1. calls'[d] # Free /\ calls'[d].phase = "read" /\ calls'[d].who = v
      BY <2>1 DEF Reading
    <3>2. calls'[d] = calls[d] /\ Reading(d, v)
      BY <1>4, <3>1 DEF Reading
    <3>3. Registered(v) /\ v \in Users
      BY <3>2, ReadersRegistered
    <3> QED BY <1>2, <3>2, <3>3, EmptyFields DEF Registered
  <2>2. \A v \in Users : \A f \in Fields \ lost'[v] : accounts'[v][f] = typed'[v][f]
    BY <1>3, <1>5 DEF IInv, SavesInv
  <2> QED BY <1>3, <1>5, <2>1, <2>2 DEF IInv, SavesInv
<1>10. \A v \in Users : accounts[v] # Empty => accounts'[v] # Empty
  BY <1>2, <1>5
<1>11. lost' \in [Users -> SUBSET Fields] /\ missed' \in [Calls -> SUBSET Fields]
  BY <1>3 DEF IInv, TypeOK
<1> QED BY <1>4, <1>5, <1>6, <1>7, <1>8, <1>9, <1>10, <1>11, TableStep DEF Register

\* A save reads what is there.
LEMMA SaveReadStep ==
  ASSUME IInv, NEW c \in Calls, SaveRead(c)
  PROVE  IInv'
<1> DEFINE u == Caller(c)
<1>1. c \in Busy /\ calls[c].kind = "save" /\ calls[c].phase = "sent"
  BY DEF SaveRead, Sent, Busy
<1>2. CallInv(calls[c]) /\ OwnCall(calls[c]) /\ calls[c] \in Call
  BY <1>1, RequestFields DEF IInv, CallsInv, OwnInv, OwnCalls
<1>3. calls[c].header \in 1..Len(issued)
  <2>1. calls[c].header \in Nat /\ calls[c].header # 0 /\ calls[c].header <= Len(issued)
    BY <1>1, <1>2, RequestFields DEF SaveRead, Valid, IInv, CallInv
  <2> QED BY <2>1 DEF IInv, TypeOK
<1>4. u = issued[calls[c].header] /\ u \in Users /\ accounts[u] \in Rows
  BY <1>3 DEF Caller, IInv, TypeOK, TokensInv, Registered
<1> DEFINE k == [calls[c] EXCEPT !.phase = "read", !.who = u, !.row = accounts[u]]
<1>5. calls' = [calls EXCEPT ![c] = k]
  BY DEF SaveRead, CurrentRow
<1>6. /\ k \in Call /\ k.phase = "read" /\ k.row = accounts[u] /\ k.who = u
      /\ k.kind = calls[c].kind /\ k.header = calls[c].header /\ k.grants = calls[c].grants
      /\ k.form = calls[c].form /\ k.waits = calls[c].waits
  BY <1>2, <1>4 DEF Call
<1> HIDE DEF k
<1>7. /\ calls' \in [Calls -> Call \cup {Free}]
      /\ calls'[c] = k
      /\ \A d \in Calls : d # c => calls'[d] = calls[d]
  BY <1>5, <1>6 DEF IInv, TypeOK
<1>8. /\ issued' = issued /\ expired' = expired /\ seen' = seen /\ exposed' = exposed
      /\ accounts' = accounts /\ typed' = typed
  BY DEF SaveRead, history
<1>9. CallInv(calls[c])'
  BY <1>1, <1>2, <1>3, <1>4, <1>6, <1>7, <1>8 DEF CallInv, Asks
<1>10. OwnCall(calls[c])'
  <2>1. u \notin exposed => OwnedBy(u, accounts[u])
    BY <1>4 DEF IInv, OwnInv, OwnRows
  <2> QED BY <1>2, <1>4, <1>6, <1>7, <1>8, <2>1 DEF OwnCall, OwnedBy
<1>11. lost' = lost /\ missed' = [missed EXCEPT ![c] = {}]
  BY DEF SaveRead
<1> HIDE DEF u
<1>12. lost' \in [Users -> SUBSET Fields] /\ missed' \in [Calls -> SUBSET Fields]
  BY <1>11 DEF IInv, TypeOK
<1>13. SavesInv'
  <2>1. ASSUME NEW d \in Calls, NEW v \in Users, Reading(d, v)',
               NEW f \in Fields \ (missed'[d] \cup lost'[v])
        PROVE  calls'[d].row[f] = accounts'[v][f]
    <3>1. CASE d = c
      BY <1>6, <1>7, <1>8, <2>1, <3>1 DEF Reading
    <3>2. CASE d # c
      <4>1. calls'[d] = calls[d] /\ Reading(d, v) /\ missed'[d] = missed[d]
        BY <1>7, <1>11, <2>1, <3>2 DEF Reading, IInv, TypeOK
      <4> QED BY <1>8, <1>11, <2>1, <4>1 DEF IInv, SavesInv
    <3> QED BY <3>1, <3>2
  <2>2. \A v \in Users : \A f \in Fields \ lost'[v] : accounts'[v][f] = typed'[v][f]
    BY <1>8, <1>11 DEF IInv, SavesInv
  <2> QED BY <2>1, <2>2 DEF SavesInv
<1>14. /\ accounts' \in [Users -> Rows \cup {Empty}] /\ typed' \in [Users -> Rows \cup {Empty}]
       /\ \A v \in Users : accounts'[v] # Empty => accounts'[v] \in Rows /\ typed'[v] \in Rows
       /\ \A v \in Users \ exposed : OwnedBy(v, accounts'[v])
       /\ issued' \in Seq(Users) /\ Len(issued') <= MaxTokens
  BY <1>8 DEF IInv, TypeOK, TokensInv, Registered, OwnInv, OwnRows
<1>15. \A t \in 1..Len(issued') : accounts'[issued'[t]] # Empty
  BY <1>8, EmptyFields DEF IInv, TokensInv, Registered
<1>16. Grown
  BY <1>8, Stays
<1> QED BY <1>7, <1>8, <1>9, <1>10, <1>12, <1>13, <1>14, <1>15, <1>16, TableStep DEF SaveRead

\* A save writes what it has read and merged; what has been set meanwhile is lost.
LEMMA SaveWriteStep ==
  ASSUME IInv, NEW c \in Calls, SaveWrite(c)
  PROVE  IInv'
<1> DEFINE u == calls[c].who
           fields == calls[c].form
           set == Filled(fields)
           asked == [f \in Fields |-> IF f \in set THEN fields[f] ELSE typed[u][f]]
           new == Merge(calls[c].row, calls[c].form)
<1>1. c \in Busy /\ Reading(c, u)
  BY DEF SaveWrite, Busy, Reading
<1>2. /\ u \in Users /\ Registered(u) /\ calls[c].kind = "save"
      /\ calls[c].row \in Rows /\ fields \in Forms
      /\ calls[c].header \in 1..Len(issued) /\ issued[calls[c].header] = u
  BY <1>1, ReadersRegistered
<1>3. CallInv(calls[c]) /\ OwnCall(calls[c]) /\ calls[c] \in Call
  BY <1>1, RequestFields DEF IInv, CallsInv, OwnInv, OwnCalls
<1>4. new \in Rows /\ asked \in Rows
  BY <1>2, MergeRow DEF Registered, Filled, Rows, Forms
<1>5. /\ accounts' = [accounts EXCEPT ![u] = new]
      /\ typed' = [typed EXCEPT ![u] = asked]
      /\ lost' = [lost EXCEPT ![u] = (lost[u] \cup missed[c]) \ set]
      /\ missed' = [d \in Calls |-> IF Reading(d, u) THEN missed[d] \cup set ELSE missed[d]]
  BY DEF SaveWrite
<1> DEFINE k == [calls[c] EXCEPT !.phase = "ok", !.row = new]
<1>6. calls' = [calls EXCEPT ![c] = IF calls[c].waits THEN k ELSE Free]
  BY DEF SaveWrite
<1> HIDE DEF new, asked
<1>7. /\ k \in Call /\ k.phase = "ok" /\ k.row = new /\ k.who = u
      /\ k.kind = calls[c].kind /\ k.header = calls[c].header /\ k.grants = calls[c].grants
      /\ k.form = fields /\ k.waits = calls[c].waits
  BY <1>3, <1>4 DEF Call, Answers
<1> HIDE DEF k
<1>8. /\ calls' \in [Calls -> Call \cup {Free}]
      /\ calls'[c] # Free => calls'[c] = k /\ calls[c].waits
      /\ \A d \in Calls : d # c => calls'[d] = calls[d]
  BY <1>6, <1>7 DEF IInv, TypeOK
<1>9. issued' = issued /\ expired' = expired /\ seen' = seen /\ exposed' = exposed
  BY DEF SaveWrite, history
<1>10. calls'[c] # Free => CallInv(calls[c])'
  BY <1>2, <1>3, <1>7, <1>8, <1>9 DEF CallInv, Asks
<1>11. u \notin exposed => OwnedBy(u, new)
  <2>1. u \notin exposed => OwnedBy(u, calls[c].row) /\ OwnedBy(u, fields)
    BY <1>1, <1>2, <1>3 DEF OwnCall, Reading, CallInv
  <2> QED BY <1>2, <2>1, MergeOwned DEF new
<1>12. calls'[c] # Free => OwnCall(calls[c])'
  BY <1>2, <1>3, <1>7, <1>8, <1>9, <1>11 DEF OwnCall
<1>13. /\ accounts' \in [Users -> Rows \cup {Empty}] /\ typed' \in [Users -> Rows \cup {Empty}]
       /\ lost' \in [Users -> SUBSET Fields] /\ missed' \in [Calls -> SUBSET Fields]
       /\ accounts'[u] = new /\ typed'[u] = asked
       /\ lost'[u] = (lost[u] \cup missed[c]) \ set
       /\ \A v \in Users : v # u => /\ accounts'[v] = accounts[v] /\ typed'[v] = typed[v]
                                    /\ lost'[v] = lost[v]
  BY <1>2, <1>4, <1>5 DEF IInv, TypeOK, Filled
<1>14. SavesInv'
  <2>1. ASSUME NEW f \in Fields \ lost'[u], f \notin set
        PROVE  /\ f \notin lost[u] /\ accounts[u][f] = typed[u][f]
               /\ accounts'[u][f] = accounts[u][f] /\ typed'[u][f] = typed[u][f]
    <3>1. f \notin lost[u] /\ f \notin missed[c]
      BY <1>13, <2>1
    <3>2. accounts[u][f] = typed[u][f] /\ calls[c].row[f] = accounts[u][f]
      BY <1>1, <1>2, <3>1 DEF IInv, SavesInv, Busy
    <3>3. new[f] = calls[c].row[f] /\ asked[f] = typed[u][f]
      BY <2>1 DEF new, asked, Merge, Filled
    <3> QED BY <1>13, <3>1, <3>2, <3>3
  <2>2. ASSUME NEW v \in Users, NEW f \in Fields \ lost'[v]
        PROVE  accounts'[v][f] = typed'[v][f]
    <3>1. CASE v = u /\ f \in set
      BY <1>13, <3>1 DEF new, asked, Merge, Filled
    <3>2. CASE v = u /\ f \notin set
      BY <2>1, <2>2, <3>2
    <3>3. CASE v # u
      BY <1>13, <2>2, <3>3 DEF IInv, SavesInv
    <3> QED BY <3>1, <3>2, <3>3
  <2>3. ASSUME NEW d \in Calls, NEW v \in Users, Reading(d, v)',
               NEW f \in Fields \ (missed'[d] \cup lost'[v])
        PROVE  calls'[d].row[f] = accounts'[v][f]
    <3>1. d # c /\ Reading(d, v) /\ calls'[d] = calls[d]
      BY <1>7, <1>8, <2>3 DEF Reading
    <3>2. CASE v = u
      <4>1. missed'[d] = missed[d] \cup set
        BY <1>5, <3>1, <3>2
      <4>2. f \notin set /\ f \notin lost[u] /\ accounts'[u][f] = accounts[u][f]
        BY <2>1, <2>3, <3>2, <4>1
      <4> QED BY <2>3, <3>1, <3>2, <4>1, <4>2 DEF IInv, SavesInv
    <3>3. CASE v # u
      <4>1. missed'[d] = missed[d]
        BY <1>5, <3>1, <3>3 DEF Reading
      <4> QED BY <1>13, <2>3, <3>1, <3>3, <4>1 DEF IInv, SavesInv
    <3> QED BY <3>2, <3>3
  <2> QED BY <2>2, <2>3 DEF SavesInv
<1> HIDE DEF u, fields, set
<1>15. /\ \A v \in Users : accounts'[v] # Empty => accounts'[v] \in Rows /\ typed'[v] \in Rows
       /\ \A v \in Users : accounts[v] # Empty => accounts'[v] # Empty
  BY <1>2, <1>4, <1>13, EmptyFields DEF IInv, TokensInv, Registered
<1>16. \A v \in Users \ exposed : OwnedBy(v, accounts'[v])
  BY <1>2, <1>11, <1>13 DEF IInv, OwnInv, OwnRows
<1>17. \A t \in 1..Len(issued') : accounts'[issued'[t]] # Empty
  BY <1>9, <1>15, EmptyFields DEF IInv, TypeOK, TokensInv, Registered
<1>18. Grown /\ issued' \in Seq(Users) /\ Len(issued') <= MaxTokens
  BY <1>9, Stays DEF IInv, TypeOK
<1> QED BY <1>8, <1>10, <1>12, <1>13, <1>14, <1>15, <1>16, <1>17, <1>18, TableStep DEF SaveWrite

\* A token expires; it was valid when the requests under way were sent.
LEMMA ExpireStep ==
  ASSUME IInv, NEW t \in Tokens, Expire(t)
  PROVE  IInv'
<1> USE DEF table, auth, page, history
<1>1. /\ UNCHANGED <<accounts, typed, lost, missed, issued, calls, sent, local, token, user,
                     profile, form, onProfile, seen, exposed>>
      /\ expired' = expired \cup {t} /\ t \in 1..Len(issued)
  BY DEF Expire
<1>2. Grown /\ Len(issued') \in Nat
  BY <1>1 DEF Grown, IInv, TypeOK
<1>3. TypeOK'
  <2>1. TypeOfRest'
    BY <1>1 DEF IInv, TypeOK, TypeOfRest
  <2>2. TypeOfFlags'
    BY <1>1, Zenon DEF IInv, TypeOK, TypeOfFlags
  <2> QED BY <2>1, <2>2, Zenon DEF TypeOK, TypeOfRest, TypeOfFlags
<1>4. TokensInv'
  BY <1>1 DEF IInv, TokensInv, Registered
<1>5. CallsInv'
  BY <1>1, <1>2, KeptCall DEF CallsInv, Busy
<1>6. SavesInv'
  BY <1>1, KeptSaves
<1>7. OwnInv'
  BY <1>1 DEF IInv, OwnInv, OwnRows, OwnPage, Alone, Fresh, OwnCalls, OwnCall, OwnedBy, Busy
<1> QED BY <1>3, <1>4, <1>5, <1>6, <1>7 DEF IInv

\* Another tab replaces or removes the token of localStorage.
LEMMA OtherTabStep ==
  ASSUME IInv, OtherTab
  PROVE  IInv'
<1> USE DEF table, auth, page, history
<1>1. UNCHANGED <<accounts, typed, lost, missed, expired, calls, sent, token, user,
                  profile, form, onProfile>>
  BY DEF OtherTab
<1>2. CASE local # 0 /\ local' = 0 /\ UNCHANGED <<issued, history>>
  <2>1. TypeOK'
    <3>1. TypeOfRest'
      BY <1>1, <1>2 DEF IInv, TypeOK, TypeOfRest
    <3>2. TypeOfFlags'
      BY <1>1, <1>2, Zenon DEF IInv, TypeOK, TypeOfFlags
    <3> QED BY <3>1, <3>2, Zenon DEF TypeOK, TypeOfRest, TypeOfFlags
  <2>2. TokensInv'
    BY <1>1, <1>2 DEF IInv, TokensInv, Registered
  <2>3. CallsInv'
    BY <1>1, <1>2 DEF IInv, CallsInv, CallInv, Busy
  <2>4. SavesInv'
    BY <1>1, KeptSaves
  <2>5. OwnInv'
    BY <1>1, <1>2 DEF IInv, OwnInv, OwnRows, OwnPage, Alone, Fresh, OwnCalls, OwnCall, OwnedBy,
       Busy
  <2> QED BY <2>1, <2>2, <2>3, <2>4, <2>5 DEF IInv
<1>3. ASSUME NEW u \in Users, accounts[u] # Empty, Len(issued) < MaxTokens,
             issued' = Append(issued, u), local' = Len(issued) + 1, SignedIn(u, Alone(u))
      PROVE  IInv'
  <2>1. /\ Grown
        /\ issued' \in Seq(Users) /\ Len(issued') <= MaxTokens
        /\ Len(issued') = Len(issued) + 1 /\ issued'[Len(issued) + 1] = u
        /\ expired' \subseteq 1..Len(issued')
        /\ Len(issued) \in Nat /\ Len(issued') \in Nat
    BY <1>1, <1>3, Issued DEF IInv, TypeOK
  <2>2. seen' = seen /\ exposed' = IF Alone(u) THEN exposed ELSE exposed \cup {u}
    BY <1>3 DEF SignedIn
  <2>3. TypeOK'
    <3>1. local' \in 0..Len(issued') /\ token' \in 0..Len(issued')
      BY <1>1, <1>3, <2>1 DEF IInv, TypeOK
    <3>2. TypeOfRest'
      BY <1>1, <2>1, <2>2, <3>1 DEF IInv, TypeOK, TypeOfRest
    <3>3. onProfile' \in BOOLEAN
      BY <1>1, Zenon DEF IInv, TypeOK
    <3> QED BY <3>2, <3>3, Zenon DEF TypeOK, TypeOfRest
  <2>4. TokensInv'
    <3>1. Registered(u)
      BY <1>3 DEF IInv, TokensInv
    <3>2. \A t \in 1..Len(issued') : t = Len(issued) + 1 \/ t \in 1..Len(issued)
      BY <2>1
    <3>3. \A t \in 1..Len(issued') : Registered(issued'[t])
      BY <2>1, <3>1, <3>2 DEF IInv, TokensInv, Grown
    <3> QED BY <1>1, <3>3 DEF IInv, TokensInv, Registered
  <2>5. CallsInv'
    BY <1>1, <2>1, <2>2, KeptCall DEF CallsInv, Busy
  <2>6. SavesInv'
    BY <1>1, KeptSaves
  <2>7. OwnInv'
    <3>1. OwnCalls'
      BY <1>1, <2>1, <2>2, KeptCall DEF OwnCalls, Busy
    <3>2. OwnRows'
      BY <1>1, <2>2 DEF IInv, OwnInv, OwnRows, OwnedBy
    <3>3. token # 0 => issued'[token] = issued[token]
      <4>1. token # 0 => token \in 1..Len(issued)
        BY DEF IInv, TypeOK
      <4> QED BY <2>1, <4>1 DEF Grown
    <3>4. issued'[local'] = u
      BY <1>3, <2>1
    <3>5. OwnPage'
      BY <1>1, <2>2, <3>3, <3>4 DEF IInv, OwnInv, OwnPage, OwnedBy, Alone, Fresh
    <3> QED BY <3>1, <3>2, <3>5 DEF OwnInv
  <2> QED BY <2>3, <2>4, <2>5, <2>6, <2>7 DEF IInv
<1> QED BY <1>2, <1>3 DEF OtherTab

(***************************************************************************)
(* The theorems.                                                           *)
(***************************************************************************)
\* Nobody has asked for anything yet.
LEMMA SessionInit == Init => IInv
<1> SUFFICES ASSUME Init PROVE IInv
  OBVIOUS
<1>1. /\ accounts \in [Users -> Rows \cup {Empty}] /\ typed = accounts
      /\ \A u \in Users : accounts[u] # Empty => accounts[u] = RegisteredRow(u)
  BY EmptyFields DEF Init
<1>2. /\ token = local /\ expired = {} /\ exposed = {}
      /\ lost = [u \in Users |-> {}] /\ missed = [c \in Calls |-> {}]
      /\ calls = [c \in Calls |-> Free] /\ sent = 0
      /\ form = Empty /\ onProfile = FALSE
  BY DEF Init
<1>3. \A u \in Users : accounts[u] # Empty => Registered(u)
  BY <1>1, EmptyFields DEF Registered
<1>4. calls \in [Calls -> Call \cup {Free}] /\ sent \in 0..MaxRequests
  BY <1>2, SessionAssumption DEF SessionAssumption
<1>5. CallsInv /\ SavesInv
  BY <1>1, <1>2 DEF CallsInv, SavesInv, Busy, Reading
<1>6. CASE issued = <<>> /\ local = 0 /\ user = None /\ profile = Empty /\ seen = {}
  <2>1. TypeOfRest
    BY <1>1, <1>2, <1>4, <1>6, EmptyFields, SessionAssumption
       DEF TypeOfRest, SessionAssumption
  <2>2. TypeOK
    BY <1>2, <2>1, Zenon DEF TypeOK, TypeOfRest
  <2>3. TokensInv
    BY <1>2, <1>3, <1>6 DEF TokensInv
  <2>4. \A u \in Users : OwnedBy(u, accounts[u])
    BY <1>1, EmptyOwned, RegisteredOwned
  <2>5. OwnPage
    BY <1>2, <1>6, EmptyOwned DEF OwnPage
  <2>6. OwnCalls
    BY <1>2 DEF OwnCalls, Busy
  <2> QED BY <1>5, <2>2, <2>3, <2>4, <2>5, <2>6 DEF IInv, OwnInv, OwnRows
<1>7. ASSUME NEW u \in Users, accounts[u] # Empty, issued = <<u>>, local = 1, user = u,
             \/ profile = Empty /\ seen = {}
             \/ profile = accounts[u] /\ seen = {u}
      PROVE  IInv
  <2>1. /\ issued \in Seq(Users) /\ Len(issued) = 1 /\ issued[1] = u
        /\ Len(issued) <= MaxTokens
    BY <1>7, SessionAssumption DEF SessionAssumption
  <2>2. TypeOfRest
    BY <1>1, <1>2, <1>4, <1>7, <2>1, EmptyFields DEF TypeOfRest
  <2>3. TypeOK
    BY <1>2, <2>2, Zenon DEF TypeOK, TypeOfRest
  <2>4. TokensInv
    BY <1>2, <1>3, <1>7, <2>1 DEF TokensInv
  <2>5. \A v \in Users : OwnedBy(v, accounts[v])
    BY <1>1, EmptyOwned, RegisteredOwned
  <2>6. OwnPage
    BY <1>2, <1>7, <2>1, <2>5, EmptyOwned DEF OwnPage, Alone, Fresh
  <2>7. OwnCalls
    BY <1>2 DEF OwnCalls, Busy
  <2> QED BY <1>5, <2>3, <2>4, <2>5, <2>6, <2>7 DEF IInv, OwnInv, OwnRows
<1> QED BY <1>6, <1>7 DEF Init

\* Every step keeps it: what an answer or a save does was prepared when it was sent.
LEMMA SessionStep == IInv /\ [Next]_vars => IInv'
<1> SUFFICES ASSUME IInv, [Next]_vars PROVE IInv'
  OBVIOUS
<1>1. ASSUME NEW kind \in Asks, NEW u \in Users, Submit(kind, u) PROVE IInv'
  BY <1>1, SubmitStep
<1>2. CASE Logout
  BY <1>2, LogoutStep
<1>3. CASE Reload
  BY <1>3, ReloadStep
<1>4. CASE OpenProfile
  BY <1>4, OpenProfileStep
<1>5. CASE LeaveProfile
  BY <1>5, LeaveProfileStep
<1>6. ASSUME NEW edited \in SUBSET Fields, Save(edited) PROVE IInv'
  BY <1>6, SaveStep
<1>7. ASSUME NEW c \in Calls, Serve(c) PROVE IInv'
  BY <1>7, RegisterStep, LoginStep, DenyStep, GetProfileStep, SaveReadStep, SaveWriteStep,
     EndStep DEF Serve
<1>8. ASSUME NEW c \in Calls, Deliver(c) \/ Fail(c) PROVE IInv'
  BY <1>8, DeliverStep, EndStep
<1>9. ASSUME NEW t \in Tokens, Expire(t) PROVE IInv'
  BY <1>9, ExpireStep
<1>10. CASE OtherTab
  BY <1>10, OtherTabStep
<1>11. CASE UNCHANGED vars
  <2> USE <1>11 DEF vars, table, auth, page, history
  <2>1. TypeOK'
    <3>1. TypeOfRest'
      BY DEF IInv, TypeOK, TypeOfRest
    <3>2. TypeOfFlags'
      BY Zenon DEF IInv, TypeOK, TypeOfFlags
    <3> QED BY <3>1, <3>2, Zenon DEF TypeOK, TypeOfRest, TypeOfFlags
  <2>2. TokensInv' /\ CallsInv'
    BY DEF IInv, TokensInv, Registered, CallsInv, CallInv, Busy
  <2>3. SavesInv'
    BY KeptSaves
  <2>4. OwnInv'
    BY DEF IInv, OwnInv, OwnRows, OwnPage, Alone, Fresh, OwnCalls, OwnCall, OwnedBy, Busy
  <2> QED BY <2>1, <2>2, <2>3, <2>4 DEF IInv
<1> QED BY <1>1, <1>2, <1>3, <1>4, <1>5, <1>6, <1>7, <1>8, <1>9, <1>10, <1>11 DEF Next, Browse

\* Every request under way carries the token, the form and the row that its sender and the
\* server gave it, at every stage, however requests, tabs and expiries interleave.
THEOREM SessionInvariant == Spec => []IInv
BY SessionInit, SessionStep, PTL DEF Spec

\* Every variable keeps its type: no token is looked up that was never issued.
THEOREM SessionTypeCorrect == Spec => []TypeOK
<1>1. IInv => TypeOK
  BY DEF IInv
<1> QED BY <1>1, SessionInvariant, PTL

\* UpdateProfile, which puts the whole row back, loses a field only where the field was set
\* between its read and its write.
THEOREM SavesAreKept == Spec => []SavesKeepOthers
<1>1. IInv => SavesKeepOthers
  BY DEF IInv, SavesInv, SavesKeepOthers
<1> QED BY <1>1, SessionInvariant, PTL

\* No answer, late or not, carries the values of another account into a form or a row of one
\* that has only signed in on a page which had asked for no other profile since its loading.
THEOREM ValuesStayOwn == Spec => []OwnValues
<1>1. IInv => OwnValues
  BY DEF IInv, OwnInv, OwnRows, OwnValues
<1> QED BY <1>1, SessionInvariant, PTL

\* No step but those of EndsForAReason empties localStorage while its token is valid.
LEMMA EndingStep ==
  ASSUME IInv, [Next]_vars, Valid(local), local' = 0
  PROVE  \/ token' = 0
         \/ UNCHANGED <<calls, user>>
         \/ \E c \in Calls : Ending(c)
<1> USE DEF table, auth, page, history
<1>1. local # 0 /\ local \notin expired
  BY DEF Valid
<1>2. ASSUME NEW kind \in Asks, NEW u \in Users, Submit(kind, u) PROVE FALSE
  BY <1>1, <1>2 DEF Submit
<1>3. CASE Logout
  BY <1>3 DEF Logout
<1>4. CASE Reload \/ OpenProfile \/ LeaveProfile
  BY <1>1, <1>4 DEF Reload, OpenProfile, LeaveProfile
<1>5. ASSUME NEW edited \in SUBSET Fields, Save(edited) PROVE FALSE
  BY <1>1, <1>5 DEF Save
<1>6. ASSUME NEW c \in Calls, Serve(c) PROVE FALSE
  BY <1>1, <1>6
     DEF Serve, Register, Login, Deny, GetProfile, SaveRead, SaveWrite, Drop
<1>7. ASSUME NEW c \in Calls, Fail(c) PROVE FALSE
  BY <1>1, <1>7 DEF Fail, OnError
<1>8. ASSUME NEW c \in Calls, Deliver(c) PROVE Ending(c)
  <2>1. calls[c] # Free /\ CallInv(calls[c])
    BY <1>8 DEF Deliver, IInv, CallsInv, Busy
  <2>2. CASE calls[c].phase = "ok" /\ Welcome(c)
    BY <1>1, <2>1, <2>2 DEF Welcome, CallInv
  <2>3. CASE SetUser(c) \/ SetProfile(c)
    BY <1>1, <2>3 DEF SetUser, SetProfile
  <2>4. CASE calls[c].phase = "denied" /\ calls' = Arrived(c)
    <3>1. calls'[c] = Free
      BY <2>4 DEF Arrived, IInv, TypeOK
    <3>2. calls[c].kind = "login" \/ calls[c].header # local
      BY <1>1, <2>1, <2>4 DEF CallInv
    <3> QED BY <2>1, <2>4, <3>1, <3>2 DEF Ending
  <2> QED BY <1>8, <2>2, <2>3, <2>4 DEF Deliver
<1>9. ASSUME NEW t \in Tokens, Expire(t) PROVE FALSE
  BY <1>1, <1>9 DEF Expire
<1>10. CASE OtherTab
  BY <1>10 DEF OtherTab
<1>11. CASE UNCHANGED vars
  BY <1>1, <1>11 DEF vars
<1> QED BY <1>2, <1>3, <1>4, <1>5, <1>6, <1>7, <1>8, <1>9, <1>10, <1>11 DEF Next, Browse

\* A session whose token is valid ends by a logout, in another tab, or by the refusal of a
\* password or of another token; no answer to a request of its own ends it.
THEOREM SessionsEndForAReason == Spec => EndsForAReason
<1>1. IInv /\ [Next]_vars =>
        [Valid(local) /\ local' = 0 => \/ token' = 0
                                       \/ UNCHANGED <<calls, user>>
                                       \/ \E c \in Calls : Ending(c)]_vars
  BY EndingStep
<1> QED BY <1>1, SessionInvariant, PTL DEF Spec, EndsForAReason
=============================================================================
