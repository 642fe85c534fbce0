----------------------------- MODULE SessionsProofs -----------------------------
(***************************************************************************)
(* Proofs about Sessions, for any tabs, requests, sessions, logins, faults *)
(* and lifetimes.                                                          *)
(***************************************************************************)
EXTENDS Sessions, FiniteSetTheorems, TLAPS

(* A row that was ended before its time.                                   *)
Revoked(s) == sessions[s] # NONE /\ sessions[s].revoked

(* A request that may end the session it presents.                         *)
Rotating(x) == auth[x] # Nobody /\ auth[x].op \in {"refresh", "logout"}

(* What a request in flight carries at each step of its handler.           *)
RequestInv(x) ==
    auth[x] # Nobody =>
        /\ auth[x].step \in {"spending", "expiring", "revoking"} => auth[x].op = "refresh"
        /\ auth[x].step \in {"cleaning", "creating"} =>
               \/ auth[x].op = "refresh"
               \/ auth[x].op = "login" /\ userExists
        /\ auth[x].step = "ending" => auth[x].op = "logout"
        /\ Rotating(x) /\ auth[x].step \notin {"sent", "answered"} => auth[x].token # NONE
        /\ auth[x].step = "answered" => auth[x].token = NONE
        /\ auth[x].step = "spending" => auth[x].cookie \in Ids
        /\ auth[x].cookie \in Ids => auth[x].step \in {"spending", "answered"}
        /\ auth[x].why = "recovery" => x[2] \in Fetches
        /\ auth[x].token # NONE => parent[auth[x].token] # NONE
        /\ auth[x].cookie \in Ids => parent[auth[x].cookie] # NONE

(* An id is minted once: it has a parent from then on.                     *)
MintInv ==
    /\ \A s \in Ids : sessions[s] # NONE => parent[s] # NONE
    /\ jar # NONE => parent[jar] # NONE
    /\ ~ userExists => \A s \in Ids : parent[s] = NONE

(* No two requests that may end a session at a time.                       *)
Solo == \A x, y \in Callers : Rotating(x) /\ Rotating(y) => x = y

(* The cookie of an answer on its way is good, and nobody else has it yet. *)
CookieInv(x) ==
    auth[x] # Nobody /\ auth[x].cookie \in Ids =>
        /\ jar # auth[x].cookie /\ ~ Revoked(auth[x].cookie)
        /\ \A y \in Callers :
               auth[y] # Nobody /\ auth[y].cookie = auth[x].cookie => y = x
        /\ \A y \in Callers : Rotating(y) => auth[y].token # auth[x].cookie

(* The jar holds a revoked session only while the answer that replaces it  *)
(* is on its way.                                                          *)
JarInv ==
    jar # NONE /\ Revoked(jar) =>
        \E x \in Callers : Rotating(x) /\ auth[x].step = "answered" /\ auth[x].cookie # KEEP

(* Nobody presents a revoked session, so nobody is taken for a thief.      *)
TokenInv(x) ==
    /\ Rotating(x) /\ auth[x].token # NONE => ~ Revoked(auth[x].token)
    /\ auth[x].step # "revoking"

LiveSessions == {s \in Ids : Live(s)}

(* The sessions that a rotation is about to spend.                         *)
Held == {s \in Ids : \E x \in Callers :
             /\ auth[x] # Nobody /\ auth[x].op = "refresh" /\ auth[x].token = s
             /\ auth[x].step \in {"cleaning", "creating", "spending"}}

Spending == {x \in InFlight : auth[x].step = "spending"}

Books == Cardinality(LiveSessions \cup Held) <= logins + Cardinality(Spending)

CalmInv ==
    ~ disturbed =>
        /\ ~ alarmed /\ Solo /\ JarInv /\ Books
        /\ \A x \in Callers : CookieInv(x) /\ TokenInv(x)

SesInv == SesTypeOK /\ MintInv /\ CalmInv /\ \A x \in Callers : RequestInv(x)

--------------------------------------------------------------------------------
(* The bounds and the lifetimes, one by one.                               *)
LEMMA Bounds ==
  /\ MaxSessions \in Nat /\ MaxLogins \in Nat /\ MaxSessionFaults \in Nat
  /\ MaxSessionTime \in Nat /\ SessionTtl \in Nat /\ AccessTtl \in Nat
  /\ 0 < AccessTtl /\ 0 < MaxSessions
  BY SessionAssumption

(* The clock shows a number.                                               *)
LEMMA Clock == SesTypeOK => time \in Nat
  BY Bounds DEF SesTypeOK

(* No user, no session, an empty jar and nothing in flight.                *)
LEMMA SesInvInit == SesInit => SesInv
<1> SUFFICES ASSUME SesInit PROVE SesInv
  OBVIOUS
<1>1. SesTypeOK
  <2>1. 0 \in 0 .. MaxSessionTime /\ 0 \in 0 .. MaxSessionFaults
    BY Bounds
  <2>2. tab \in [Tabs -> [status : {"loading", "authenticated", "unauthenticated"}, access : Nat]]
    BY DEF SesInit
  <2>3. /\ sessions \in [Ids -> SessionRow \cup {NONE}] /\ parent \in [Ids -> Ids \cup {NONE}]
        /\ fetch \in [Tabs -> [Fetches -> {"idle", "rejected", "waiting"}]]
        /\ auth \in [Callers -> AuthRequest \cup {Nobody}]
    BY DEF SesInit
  <2> QED
    BY <2>1, <2>2, <2>3 DEF SesInit, SesTypeOK
<1>2. MintInv /\ \A x \in Callers : RequestInv(x)
  BY DEF SesInit, MintInv, RequestInv
<1>3. Solo /\ JarInv /\ \A x \in Callers : CookieInv(x) /\ TokenInv(x)
  BY DEF SesInit, Solo, JarInv, CookieInv, TokenInv, Rotating, Nobody
<1>4. Books
  <2>1. LiveSessions \cup Held = {} /\ Spending = {}
    BY DEF SesInit, LiveSessions, Live, Held, Spending, InFlight
  <2> QED
    BY <2>1, FS_EmptySet DEF Books, SesInit
<1> QED
  BY <1>1, <1>2, <1>3, <1>4 DEF SesInv, CalmInv, SesInit

(* A request in flight has the types of its fields.                        *)
LEMMA RequestFields ==
  ASSUME SesTypeOK, NEW x \in Callers, auth[x] # Nobody
  PROVE  /\ auth[x] \in AuthRequest
         /\ auth[x].op \in {"register", "login", "refresh", "logout"}
         /\ auth[x].why \in {"user", "restore", "recovery", "nobody"}
         /\ auth[x].step \in AuthSteps /\ auth[x].token \in Ids \cup {NONE}
         /\ auth[x].now \in Nat /\ auth[x].status \in Nat
         /\ auth[x].cookie \in Ids \cup {KEEP, NONE}
  BY DEF SesTypeOK, AuthRequest

(* What is somewhere in a handler is in flight.                            *)
LEMMA InHandler ==
  ASSUME NEW x \in Callers, auth[x].step \in AuthSteps
  PROVE  auth[x] # Nobody
  BY DEF Nobody, AuthSteps

(* The ids, and what is not one.                                           *)
LEMMA NotAnId == KEEP \notin Ids /\ NONE \notin Ids /\ KEEP # NONE /\ 1 \in Ids
  BY SessionAssumption DEF Ids

(* The books are about finite sets.                                        *)
LEMMA FewIds == IsFiniteSet(Ids) /\ \A S \in SUBSET Ids : IsFiniteSet(S) /\ Cardinality(S) \in Nat
<1>1. IsFiniteSet(Ids)
  BY FS_Interval, SessionAssumption DEF Ids
<1> QED
  BY <1>1, FS_Subset, FS_CardinalityType

--------------------------------------------------------------------------------
(* y is asked for nothing, or only whom it answers to changes.             *)
Same(y) ==
    IF auth[y] = Nobody THEN auth'[y] = Nobody
    ELSE /\ auth'[y] # Nobody
         /\ auth'[y].op = auth[y].op /\ auth'[y].step = auth[y].step
         /\ auth'[y].token = auth[y].token /\ auth'[y].cookie = auth[y].cookie
         /\ auth'[y].why \in {auth[y].why, "nobody"}

(* The request of x goes on, and takes no new session with it.             *)
Moved(x) ==
    /\ auth' \in [Callers -> AuthRequest \cup {Nobody}]
    /\ \A y \in Callers \ {x} : Same(y)
    /\ auth[x] # Nobody /\ auth'[x] # Nobody
    /\ auth'[x].op = auth[x].op /\ auth'[x].why = auth[x].why

(* An answer is a move to the end.                                         *)
LEMMA AnswerMove ==
  ASSUME SesTypeOK, NEW x \in Callers, auth[x] # Nobody, NEW status \in Nat,
         NEW cookie \in Ids \cup {KEEP, NONE}, Answer(x, status, cookie)
  PROVE  /\ Moved(x) /\ auth'[x].step = "answered" /\ auth'[x].token = NONE
         /\ auth'[x].cookie = cookie
<1> DEFINE q == [auth[x] EXCEPT !.step = "answered", !.token = NONE, !.now = 0,
                                !.status = status, !.cookie = cookie]
<1>1. auth[x] \in AuthRequest
  BY RequestFields
<1>2. q \in AuthRequest
  BY <1>1 DEF AuthRequest, AuthSteps
<1>3. /\ q.op = auth[x].op /\ q.why = auth[x].why /\ q.step = "answered" /\ q.token = NONE
      /\ q.cookie = cookie
  BY <1>1 DEF AuthRequest
<1>4. auth' = [auth EXCEPT ![x] = q]
  BY DEF Answer, SesTypeOK
<1>5. q # Nobody
  BY <1>3 DEF Nobody
<1> HIDE DEF q
<1>6. /\ auth' \in [Callers -> AuthRequest \cup {Nobody}] /\ auth'[x] = q
      /\ \A y \in Callers \ {x} : auth'[y] = auth[y]
  BY <1>2, <1>4 DEF SesTypeOK
<1> QED
  BY <1>3, <1>5, <1>6 DEF Moved, Same

(* So is a step of the handler.                                            *)
LEMMA ServedMove ==
  ASSUME SesTypeOK, NEW x \in Callers, auth[x] # Nobody, NEW step \in AuthSteps,
         Served(x, step)
  PROVE  /\ Moved(x) /\ auth'[x].step = step /\ auth'[x].token = auth[x].token
         /\ auth'[x].cookie = auth[x].cookie
<1> DEFINE q == [auth[x] EXCEPT !.step = step, !.now = time]
<1>1. auth[x] \in AuthRequest
  BY RequestFields
<1>2. q \in AuthRequest
  BY <1>1, Clock DEF AuthRequest
<1>3. /\ q.op = auth[x].op /\ q.why = auth[x].why /\ q.step = step
      /\ q.token = auth[x].token /\ q.cookie = auth[x].cookie
  BY <1>1 DEF AuthRequest
<1>4. auth' = [auth EXCEPT ![x] = q]
  BY DEF Served, SesTypeOK
<1>5. q # Nobody
  BY <1>1, <1>3 DEF Nobody, AuthRequest, AuthSteps
<1> HIDE DEF q
<1>6. /\ auth' \in [Callers -> AuthRequest \cup {Nobody}] /\ auth'[x] = q
      /\ \A y \in Callers \ {x} : auth'[y] = auth[y]
  BY <1>2, <1>4 DEF SesTypeOK
<1> QED
  BY <1>3, <1>5, <1>6 DEF Moved, Same

(* What another request does leaves y as it was, and sure of what it knew. *)
LEMMA SameRequest ==
  ASSUME SesTypeOK, SesTypeOK', NEW y \in Callers, RequestInv(y), Same(y),
         \A s \in Ids : parent[s] # NONE => parent'[s] # NONE,
         userExists => userExists'
  PROVE  RequestInv(y)'
<1>1. CASE auth[y] = Nobody
  BY <1>1 DEF Same, RequestInv
<1>2. CASE auth[y] # Nobody
  <2>1. /\ auth'[y] # Nobody
        /\ auth'[y].op = auth[y].op /\ auth'[y].step = auth[y].step
        /\ auth'[y].token = auth[y].token /\ auth'[y].cookie = auth[y].cookie
        /\ auth'[y].why = "recovery" => auth[y].why = "recovery"
    BY <1>2 DEF Same
  <2>2. auth[y].token \in Ids \cup {NONE}
    BY <1>2, RequestFields
  <2> QED
    BY <1>2, <2>1, <2>2 DEF RequestInv, Rotating
<1> QED
  BY <1>1, <1>2

(* Two rotations at a time do not come of a move.                          *)
LEMMA SoloMove ==
  ASSUME NEW x \in Callers, Moved(x), Solo
  PROVE  Solo' /\ \A y \in Callers : Rotating(y)' <=> Rotating(y)
<1>1. \A y \in Callers : Rotating(y)' <=> Rotating(y)
  BY DEF Moved, Same, Rotating
<1> QED
  BY <1>1 DEF Solo

(* A move that writes no new session, and ends none but the one it         *)
(* presents, leaves a calm state calm.                                     *)
LEMMA CalmMove ==
  ASSUME SesTypeOK, Solo, JarInv, \A y \in Callers : CookieInv(y) /\ TokenInv(y),
         NEW x \in Callers, Moved(x), auth[x].step # "answered", auth'[x].step # "revoking",
         auth'[x].cookie = auth[x].cookie \/ auth'[x].cookie \notin Ids,
         auth'[x].token = auth[x].token \/ auth'[x].token = NONE,
         jar' = jar,
         \A s \in Ids : Revoked(s)' =>
             \/ Revoked(s)
             \/ /\ s = auth[x].token /\ Rotating(x)
                /\ auth'[x].step = "answered" /\ auth'[x].token = NONE /\ auth'[x].cookie # KEEP
  PROVE  Solo' /\ JarInv' /\ \A y \in Callers : CookieInv(y)' /\ TokenInv(y)'
<1>1. Solo' /\ \A y \in Callers : Rotating(y)' <=> Rotating(y)
  BY SoloMove
<1>2. \A y \in Callers : auth'[y] # Nobody <=> auth[y] # Nobody
  BY DEF Moved, Same
<1>3. \A y \in Callers \ {x} : auth[y] # Nobody =>
        /\ auth'[y].step = auth[y].step /\ auth'[y].token = auth[y].token
        /\ auth'[y].cookie = auth[y].cookie
  BY DEF Moved, Same
<1>4. ASSUME NEW y \in Callers, auth'[y] # Nobody, auth'[y].cookie \in Ids
      PROVE  auth[y] # Nobody /\ auth'[y].cookie = auth[y].cookie
  BY <1>2, <1>3, <1>4
<1>5. ASSUME NEW y \in Callers PROVE CookieInv(y)'
  <2> SUFFICES ASSUME auth'[y] # Nobody, auth'[y].cookie \in Ids
               PROVE  /\ jar' # auth'[y].cookie /\ ~ Revoked(auth[y].cookie)'
                      /\ \A z \in Callers :
                            auth'[z] # Nobody /\ auth'[z].cookie = auth'[y].cookie => z = y
                      /\ \A z \in Callers : Rotating(z)' => auth'[z].token # auth'[y].cookie
    BY <1>4 DEF CookieInv, Revoked
  <2>1. auth[y] # Nobody /\ auth'[y].cookie = auth[y].cookie
    BY <1>4
  <2> DEFINE k == auth[y].cookie
  <2>2. /\ k \in Ids /\ jar # k /\ ~ Revoked(k)
        /\ \A z \in Callers : auth[z] # Nobody /\ auth[z].cookie = k => z = y
        /\ \A z \in Callers : Rotating(z) => auth[z].token # k
    BY <2>1 DEF CookieInv
  <2>3. \A z \in Callers : auth'[z] # Nobody /\ auth'[z].cookie = k => z = y
    BY <2>2, <1>4
  <2>4. ASSUME NEW z \in Callers, Rotating(z)' PROVE auth'[z].token # k
    <3>1. Rotating(z)
      BY <1>1, <2>4
    <3>2. auth'[z].token = auth[z].token \/ auth'[z].token = NONE
      BY <1>3, <3>1 DEF Rotating
    <3> QED
      BY <3>1, <3>2, <2>2, NotAnId
  <2>5. PICK j \in Ids : j = k
    BY <2>2
  <2>6. ~ Revoked(j)'
    BY <2>2, <2>5
  <2> QED
    BY <2>5, <2>1, <2>2, <2>3, <2>4, <2>6 DEF Revoked
<1>6. ASSUME NEW y \in Callers PROVE TokenInv(y)'
  <2>1. auth'[y].step # "revoking"
    <3>1. CASE auth[y] = Nobody
      BY <3>1, <1>2 DEF Nobody
    <3>2. CASE auth[y] # Nobody
      BY <3>2, <1>3 DEF TokenInv
    <3> QED
      BY <3>1, <3>2
  <2>2. ASSUME Rotating(y)', auth'[y].token # NONE PROVE ~ Revoked(auth[y].token)' /\ auth'[y].token = auth[y].token
    <3>1. Rotating(y) /\ auth'[y].token = auth[y].token
      BY <1>1, <1>3, <2>2 DEF Rotating
    <3>2. PICK s \in Ids : s = auth[y].token
      BY <2>2, <3>1, RequestFields DEF Rotating
    <3>3. ~ Revoked(s)
      BY <2>2, <3>1, <3>2 DEF TokenInv
    <3>4. ~ (Rotating(x) /\ auth'[x].token = NONE)
      BY <2>2, <3>1 DEF Solo
    <3>5. ~ Revoked(s)'
      BY <3>3, <3>4
    <3> QED
      BY <3>1, <3>2, <3>5 DEF Revoked
  <2> QED
    BY <2>1, <2>2 DEF TokenInv, Revoked
<1>7. JarInv'
  <2> SUFFICES ASSUME jar # NONE, Revoked(jar)'
               PROVE \E y \in Callers : Rotating(y)' /\ auth'[y].step = "answered" /\ auth'[y].cookie # KEEP
    BY DEF JarInv, Revoked
  <2>1. PICK s \in Ids : s = jar
    BY DEF SesTypeOK
  <2>2. Revoked(s)'
    BY <2>1 DEF Revoked
  <2>3. CASE Revoked(s)
    <3>1. PICK y \in Callers : Rotating(y) /\ auth[y].step = "answered" /\ auth[y].cookie # KEEP
      BY <2>1, <2>3, NotAnId DEF JarInv
    <3> QED
      BY <3>1, <1>1, <1>3 DEF Rotating
  <2>4. CASE ~ Revoked(s)
    BY <2>2, <2>4, <1>1
  <2> QED
    BY <2>3, <2>4
<1> QED
  BY <1>1, <1>5, <1>6, <1>7

--------------------------------------------------------------------------------
(* The books *)

Holding == {"cleaning", "creating", "spending"}

(* A rotation holds a session; the other moves hold none.                  *)
LEMMA HeldMove ==
  ASSUME NEW x \in Callers, Moved(x), NEW S,
         LiveSessions' \subseteq S, Held \subseteq S,
         Rotating(x) /\ auth'[x].step \in Holding => auth'[x].token \in S
  PROVE  (LiveSessions \cup Held)' \subseteq S
<1> SUFFICES ASSUME NEW s \in Held' PROVE s \in S
  OBVIOUS
<1>1. PICK y \in Callers :
        /\ auth'[y] # Nobody /\ auth'[y].op = "refresh" /\ auth'[y].token = s
        /\ auth'[y].step \in {"cleaning", "creating", "spending"}
  BY DEF Held
<1>2. CASE y = x
  BY <1>1, <1>2 DEF Moved, Holding, Rotating
<1>3. CASE y # x
  <2>1. /\ auth[y] # Nobody /\ auth[y].op = "refresh" /\ auth[y].token = s
        /\ auth[y].step \in {"cleaning", "creating", "spending"}
    BY <1>1, <1>3 DEF Moved, Same
  <2>2. s \in Ids
    BY DEF Held
  <2> QED
    BY <2>1, <2>2 DEF Held
<1> QED
  BY <1>2, <1>3

(* A move from and to other steps spends nothing.                          *)
LEMMA SpendingMove ==
  ASSUME NEW x \in Callers, Moved(x), auth[x].step # "spending", auth'[x].step # "spending"
  PROVE  Spending' = Spending
  BY DEF Moved, Same, Spending, InFlight

(* Alone, a rotation is the only one that is being completed.              *)
LEMMA FewSpending ==
  ASSUME Solo, \A x \in Callers : RequestInv(x)
  PROVE  /\ IsFiniteSet(Spending) /\ Cardinality(Spending) \in Nat
         /\ \A x \in Callers : Rotating(x) =>
               /\ auth[x].step = "spending" => Spending = {x}
               /\ auth[x].step # "spending" => Spending = {}
         /\ Spending # {} => \E x \in Callers : Rotating(x) /\ Spending = {x}
<1>1. \A x \in Spending : x \in Callers /\ Rotating(x) /\ auth[x].step = "spending"
  BY DEF Spending, InFlight, RequestInv, Rotating
<1>2. \A x \in Callers : Rotating(x) /\ auth[x].step = "spending" => x \in Spending
  BY DEF Spending, InFlight, Rotating
<1>3. \A x \in Callers : Rotating(x) =>
               /\ auth[x].step = "spending" => Spending = {x}
               /\ auth[x].step # "spending" => Spending = {}
  BY <1>1, <1>2 DEF Solo
<1>4. Spending # {} => \E x \in Callers : Rotating(x) /\ Spending = {x}
  BY <1>1, <1>3
<1>5. IsFiniteSet(Spending)
  BY <1>4, FS_EmptySet, FS_Singleton
<1> QED
  BY <1>3, <1>4, <1>5, FS_CardinalityType

(* The accounts balance when no session is gained and nothing is spent.    *)
LEMMA BooksKept ==
  ASSUME SesTypeOK, Books, (LiveSessions \cup Held)' \subseteq LiveSessions \cup Held,
         Spending' = Spending, Cardinality(Spending) \in Nat, logins' = logins
  PROVE  Books'
<1>1. LiveSessions \cup Held \in SUBSET Ids
  BY DEF LiveSessions, Held
<1>2. Cardinality((LiveSessions \cup Held)') <= Cardinality(LiveSessions \cup Held)
  BY <1>1, FewIds, FS_Subset
<1>3. /\ Cardinality(LiveSessions \cup Held) \in Nat
      /\ Cardinality((LiveSessions \cup Held)') \in Nat
  BY <1>1, FewIds
<1> QED
  BY <1>2, <1>3 DEF Books, SesTypeOK

--------------------------------------------------------------------------------
(* The first steps of the handlers *)

(* What a request becomes that a handler has read the session of.          *)
Begins(x) ==
    /\ Moved(x) /\ UNCHANGED sesTables /\ auth[x].step = "sent"
    /\ auth'[x].step \in {"answered", "revoking", "expiring", "ending", "cleaning"}
    /\ auth'[x].token = IF auth'[x].step = "answered" THEN NONE ELSE auth[x].token
    /\ auth'[x].cookie \notin Ids
    /\ auth'[x].step = "revoking" =>
           auth[x].op = "refresh" /\ auth[x].token # NONE /\ Revoked(auth[x].token)
    /\ auth'[x].step = "expiring" => auth[x].op = "refresh" /\ auth[x].token # NONE
    /\ auth'[x].step = "ending" => auth[x].op = "logout" /\ auth[x].token # NONE
    /\ auth'[x].step = "cleaning" =>
           \/ auth[x].op = "refresh" /\ auth[x].token # NONE /\ Live(auth[x].token)
           \/ auth[x].op = "login" /\ userExists

(* A request that has just been sent has no cookie yet.                    *)
LEMMA SentHasNone ==
  ASSUME NEW x \in Callers, RequestInv(x), auth[x].step = "sent"
  PROVE  auth[x].cookie \notin Ids /\ auth[x] # Nobody
  BY DEF RequestInv, Nobody

(* A 429, before the handler.                                              *)
LEMMA ThrottleBegins ==
  ASSUME SesInv, NEW x \in Callers, Throttle(x)
  PROVE  Begins(x)
<1>1. /\ auth[x].step = "sent" /\ Answer(x, 429, KEEP) /\ UNCHANGED sesTables
  BY DEF Throttle, Api, RowsUnchanged, sesTables
<1>2. auth[x] # Nobody
  BY <1>1, SentHasNone DEF SesInv
<1> QED
  BY <1>1, <1>2, AnswerMove, NotAnId DEF Begins, SesInv

(* rotate() reads the session of the token.                                *)
LEMMA RotateBegins ==
  ASSUME SesInv, NEW x \in Callers, Rotate(x)
  PROVE  Begins(x)
<1> DEFINE s == auth[x].token
           known == s # NONE /\ sessions[s] # NONE
<1>1. /\ auth[x].step = "sent" /\ auth[x].op = "refresh" /\ UNCHANGED sesTables
  BY DEF Rotate, Api, RowsUnchanged, sesTables
<1>2. auth[x] # Nobody /\ auth[x].cookie \notin Ids
  BY <1>1, SentHasNone DEF SesInv
<1>3. SesTypeOK
  BY DEF SesInv
<1>4. CASE Answer(x, 401, NONE)
  BY <1>1, <1>2, <1>3, <1>4, AnswerMove, NotAnId DEF Begins
<1>5. CASE known /\ sessions[s].revoked /\ Served(x, "revoking")
  <2>1. "revoking" \in AuthSteps
    BY DEF AuthSteps
  <2> QED
    BY <1>1, <1>2, <1>3, <1>5, <2>1, ServedMove DEF Begins, Revoked
<1>6. CASE known /\ Served(x, "expiring")
  <2>1. "expiring" \in AuthSteps
    BY DEF AuthSteps
  <2> QED
    BY <1>1, <1>2, <1>3, <1>6, <2>1, ServedMove DEF Begins
<1>7. CASE known /\ ~ sessions[s].revoked /\ ~ (sessions[s].expires <= time) /\ Served(x, "cleaning")
  <2>1. "cleaning" \in AuthSteps
    BY DEF AuthSteps
  <2>2. Live(s)
    <3>1. s \in Ids
      BY <1>2, <1>3, <1>7, RequestFields
    <3>2. sessions[s].expires \in Nat /\ time \in Nat
      BY <1>3, <1>7, <3>1, Clock DEF SesTypeOK, SessionRow
    <3> QED
      BY <1>7, <3>2 DEF Live
  <2> QED
    BY <1>1, <1>2, <1>3, <1>7, <2>1, <2>2, ServedMove DEF Begins
<1>8. \/ ~ known /\ Answer(x, 401, NONE)
      \/ known /\ sessions[s].revoked /\ sessions[s].expires <= time /\ Answer(x, 401, NONE)
      \/ known /\ sessions[s].revoked /\ sessions[s].expires > time /\ Served(x, "revoking")
      \/ known /\ ~ sessions[s].revoked
         /\ Served(x, IF sessions[s].expires <= time THEN "expiring" ELSE "cleaning")
  BY DEF Rotate
<1> QED
  BY <1>4, <1>5, <1>6, <1>7, <1>8

(* revoke() reads it too.                                                  *)
LEMMA LogoutBegins ==
  ASSUME SesInv, NEW x \in Callers, Logout(x)
  PROVE  Begins(x)
<1> DEFINE s == auth[x].token
<1>1. /\ auth[x].step = "sent" /\ auth[x].op = "logout" /\ UNCHANGED sesTables
  BY DEF Logout, Api, RowsUnchanged, sesTables
<1>2. auth[x] # Nobody /\ auth[x].cookie \notin Ids /\ SesTypeOK
  BY <1>1, SentHasNone DEF SesInv
<1>3. CASE s # NONE /\ Served(x, "ending")
  <2>1. "ending" \in AuthSteps
    BY DEF AuthSteps
  <2> QED
    BY <1>1, <1>2, <1>3, <2>1, ServedMove DEF Begins
<1>4. CASE Answer(x, 204, NONE)
  BY <1>1, <1>2, <1>4, AnswerMove, NotAnId DEF Begins
<1> QED
  BY <1>3, <1>4 DEF Logout

(* login() reads the user.                                                 *)
LEMMA LoginBegins ==
  ASSUME SesInv, NEW x \in Callers, Login(x)
  PROVE  Begins(x)
<1>1. /\ auth[x].step = "sent" /\ auth[x].op = "login" /\ UNCHANGED sesTables
  BY DEF Login, Api, RowsUnchanged, sesTables
<1>2. auth[x] # Nobody /\ auth[x].cookie \notin Ids /\ SesTypeOK
  BY <1>1, SentHasNone DEF SesInv
<1>3. CASE userExists /\ Served(x, "cleaning")
  <2>1. "cleaning" \in AuthSteps
    BY DEF AuthSteps
  <2> QED
    BY <1>1, <1>2, <1>3, <2>1, ServedMove DEF Begins
<1>4. CASE Answer(x, 401, KEEP)
  BY <1>1, <1>2, <1>4, AnswerMove, NotAnId DEF Begins
<1> QED
  BY <1>3, <1>4 DEF Login

(* A second registration ends with its first read.                         *)
LEMMA RegisterTakenBegins ==
  ASSUME SesInv, NEW x \in Callers, Register(x), userExists
  PROVE  Begins(x)
<1>1. /\ auth[x].step = "sent" /\ Answer(x, 409, KEEP) /\ UNCHANGED sesTables
  BY DEF Register, Api, RowsUnchanged, sesTables
<1>2. auth[x] # Nobody /\ SesTypeOK
  BY <1>1, SentHasNone DEF SesInv
<1> QED
  BY <1>1, <1>2, AnswerMove, NotAnId DEF Begins

(* None of these first steps disturbs anything.                            *)
LEMMA BeginKeeps ==
  ASSUME SesInv, NEW x \in Callers, Begins(x),
         UNCHANGED <<time, sesClient, sessionFaults, disturbed>>
  PROVE  SesInv'
<1> USE DEF SesInv
<1>1. /\ Moved(x) /\ UNCHANGED <<userExists, sessions, parent, logins, alarmed, doomed>>
      /\ UNCHANGED <<time, jar, tab, fetch, sessionFaults, disturbed>>
      /\ auth[x].step = "sent"
  BY DEF Begins, sesTables, sesClient
<1>2. SesTypeOK'
  BY <1>1 DEF SesTypeOK, Moved
<1>3. MintInv'
  BY <1>1 DEF MintInv
<1>4. \A y \in Callers \ {x} : RequestInv(y)'
  BY <1>1, <1>2, SameRequest DEF Moved
<1>5. RequestInv(x)'
  <2>1. /\ auth[x] # Nobody /\ auth'[x].op = auth[x].op /\ auth'[x].why = auth[x].why
    BY <1>1 DEF Moved
  <2>2. auth'[x].token # NONE => parent'[auth'[x].token] # NONE
    BY <1>1, <2>1 DEF Begins, RequestInv
  <2> QED
    BY <1>1, <2>1, <2>2 DEF Begins, RequestInv, Rotating
<1>6. ASSUME ~ disturbed' PROVE CalmInv'
  <2>1. /\ ~ alarmed /\ Solo /\ JarInv /\ Books
        /\ \A y \in Callers : CookieInv(y) /\ TokenInv(y)
    BY <1>1, <1>6 DEF CalmInv
  <2>2. auth'[x].step # "revoking"
    BY <2>1 DEF Begins, TokenInv, Rotating, Moved
  <2>3. \A s \in Ids : Revoked(s)' <=> Revoked(s)
    BY <1>1 DEF Revoked
  <2>4. Solo' /\ JarInv' /\ \A y \in Callers : CookieInv(y)' /\ TokenInv(y)'
    BY <1>1, <2>1, <2>2, <2>3, CalmMove DEF Begins
  <2>5. LiveSessions' = LiveSessions
    BY <1>1 DEF LiveSessions, Live
  <2>6. Rotating(x) /\ auth'[x].step \in Holding => auth'[x].token \in LiveSessions
    BY RequestFields DEF Begins, Holding, Rotating, LiveSessions, Moved
  <2>7. (LiveSessions \cup Held)' \subseteq LiveSessions \cup Held
    BY <1>1, <2>5, <2>6, HeldMove
  <2>8. Spending' = Spending /\ Cardinality(Spending) \in Nat
    BY <1>1, <2>1, SpendingMove, FewSpending DEF Begins
  <2>9. Books'
    BY <1>1, <2>1, <2>7, <2>8, BooksKept
  <2> QED
    BY <1>1, <2>1, <2>4, <2>9 DEF CalmInv
<1> QED
  BY <1>2, <1>3, <1>4, <1>5, <1>6 DEF CalmInv

--------------------------------------------------------------------------------
(* The browser *)

(* x is sent with the cookie in the jar; if nothing is disturbed by it, it *)
(* is the only rotation.                                                   *)
Sent(x) ==
    /\ auth' \in [Callers -> AuthRequest \cup {Nobody}]
    /\ \A y \in Callers \ {x} : Same(y)
    /\ auth[x] = Nobody /\ auth'[x] # Nobody
    /\ auth'[x].step = "sent" /\ auth'[x].token = jar /\ auth'[x].cookie = KEEP
    /\ auth'[x].why = "recovery" => x[2] \in Fetches
    /\ ~ disturbed' =>
           /\ ~ disturbed
           /\ auth'[x].op \in {"refresh", "logout"} => \A y \in Callers : ~ Rotating(y)

(* Sending keeps the invariant.                                            *)
LEMMA SentKeeps ==
  ASSUME SesInv, SesTypeOK', NEW x \in Callers, Sent(x), UNCHANGED <<time, sesTables, jar>>
  PROVE  SesInv'
<1> USE DEF SesInv
<1>1. /\ UNCHANGED <<userExists, sessions, parent, logins, alarmed, doomed>>
      /\ UNCHANGED <<time, jar>>
  BY DEF sesTables
<1>2. MintInv'
  BY <1>1 DEF MintInv
<1>3. \A y \in Callers \ {x} : RequestInv(y)'
  BY <1>1, SameRequest DEF Sent
<1>4. RequestInv(x)'
  BY <1>1, NotAnId DEF Sent, RequestInv, MintInv, Rotating
<1>5. ASSUME ~ disturbed' PROVE CalmInv'
  <2>1. /\ ~ alarmed /\ Solo /\ JarInv /\ Books
        /\ \A y \in Callers : CookieInv(y) /\ TokenInv(y)
    BY <1>5 DEF CalmInv, Sent
  <2>2. \A y \in Callers \ {x} :
          /\ auth'[y] # Nobody <=> auth[y] # Nobody
          /\ Rotating(y)' <=> Rotating(y)
          /\ auth[y] # Nobody => /\ auth'[y].step = auth[y].step /\ auth'[y].token = auth[y].token
                                 /\ auth'[y].cookie = auth[y].cookie /\ auth'[y].op = auth[y].op
    BY DEF Sent, Same, Rotating
  <2>3. auth[x] = Nobody /\ ~ Rotating(x)
    BY DEF Sent, Rotating
  <2>4. Rotating(x)' => \A y \in Callers : ~ Rotating(y)
    BY <1>5 DEF Sent, Rotating
  <2>5. Solo'
    BY <2>1, <2>2, <2>3, <2>4 DEF Solo
  <2>6. JarInv'
    <3> SUFFICES ASSUME jar # NONE, Revoked(jar)
                 PROVE \E y \in Callers : Rotating(y)' /\ auth'[y].step = "answered" /\ auth'[y].cookie # KEEP
      BY <1>1 DEF JarInv, Revoked
    <3>1. PICK y \in Callers : Rotating(y) /\ auth[y].step = "answered" /\ auth[y].cookie # KEEP
      BY <2>1 DEF JarInv
    <3> QED
      BY <3>1, <2>2, <2>3 DEF Rotating
  <2>7. ASSUME NEW y \in Callers PROVE CookieInv(y)'
    <3> SUFFICES ASSUME auth'[y] # Nobody, auth'[y].cookie \in Ids PROVE CookieInv(y)'
      BY DEF CookieInv
    <3>1. y # x
      BY NotAnId DEF Sent
    <3>2. auth[y] # Nobody /\ auth'[y].cookie = auth[y].cookie
      BY <3>1, <2>2
    <3>3. CookieInv(y)
      BY <2>1
    <3>4. \A z \in Callers : auth'[z] # Nobody /\ auth'[z].cookie = auth'[y].cookie => z = y
      BY <3>2, <3>3, <2>2, NotAnId DEF CookieInv, Sent
    <3>5. \A z \in Callers : Rotating(z)' => auth'[z].token # auth'[y].cookie
      BY <3>2, <3>3, <2>2 DEF CookieInv, Sent, Rotating
    <3> QED
      BY <1>1, <3>2, <3>3, <3>4, <3>5 DEF CookieInv, Revoked
  <2>8. \A y \in Callers \ {x} : TokenInv(y)'
    <3> TAKE y \in Callers \ {x}
    <3>1. CASE auth[y] = Nobody
      BY <3>1, <2>2 DEF TokenInv, Rotating, Nobody
    <3>2. CASE auth[y] # Nobody
      BY <3>2, <1>1, <2>1, <2>2 DEF TokenInv, Revoked
    <3> QED
      BY <3>1, <3>2
  <2>9. TokenInv(x)'
    BY <1>1, <2>1, <2>4 DEF TokenInv, Sent, JarInv, Revoked
  <2>10. LiveSessions' = LiveSessions
    BY <1>1 DEF LiveSessions, Live
  <2>11. Held' \subseteq Held
    BY <2>2 DEF Held, Sent
  <2>12. Spending' = Spending
    BY <2>2, <2>3 DEF Spending, InFlight, Sent
  <2>13. Books'
    BY <1>1, <2>1, <2>10, <2>11, <2>12, BooksKept, FewSpending
  <2> QED
    BY <1>1, <2>1, <2>5, <2>6, <2>7, <2>8, <2>9, <2>13 DEF CalmInv
<1> QED
  BY <1>2, <1>3, <1>4, <1>5 DEF CalmInv

(* A request that is recovered for is the only one of its tab.             *)
LEMMA SendSent ==
  ASSUME SesInv, NEW x \in Callers, NEW op \in {"register", "login", "refresh", "logout"},
         NEW why \in {"user", "recovery"}, Send(x, op, why),
         why = "recovery" => x[2] \in Fetches /\ ~ Recovering(x[1])
  PROVE  Sent(x)
<1> USE DEF SesInv
<1> DEFINE q == [op |-> op, why |-> why, step |-> "sent", token |-> jar, now |-> 0,
                 status |-> 200, cookie |-> KEEP]
<1>1. q \in AuthRequest
  BY DEF AuthRequest, SesTypeOK, AuthSteps
<1>2. /\ q.op = op /\ q.why = why /\ q.step = "sent" /\ q.token = jar /\ q.cookie = KEEP
      /\ q # Nobody
  BY DEF Nobody
<1>3. auth[x] = Nobody /\ auth' = [auth EXCEPT ![x] = q]
  BY DEF Send
<1>4. disturbed' = (disturbed \/
          /\ op \in {"refresh", "logout"}
          /\ \E y \in InFlight : /\ auth[y].op \in {"refresh", "logout"}
                                 /\ ~ (y[1] = x[1] /\ why = "recovery" /\ auth[y].why = "recovery"))
  BY DEF Send
<1> HIDE DEF q
<1>5. /\ auth' \in [Callers -> AuthRequest \cup {Nobody}] /\ auth'[x] = q
      /\ \A y \in Callers \ {x} : auth'[y] = auth[y]
  BY <1>1, <1>3 DEF SesTypeOK
<1>6. ASSUME ~ disturbed', op \in {"refresh", "logout"}, NEW y \in Callers, Rotating(y)
      PROVE FALSE
  <2>1. y \in InFlight /\ auth[y].op \in {"refresh", "logout"}
    BY <1>6 DEF InFlight, Rotating
  <2>2. y[1] = x[1] /\ why = "recovery" /\ auth[y].why = "recovery"
    BY <1>4, <1>6, <2>1
  <2>3. y[2] \in Fetches
    BY <2>1, <2>2 DEF RequestInv, InFlight
  <2>4. y = <<x[1], y[2]>>
    BY <2>2 DEF Callers
  <2> QED
    BY <2>1, <2>2, <2>3, <2>4 DEF Recovering, InFlight
<1>7. ~ disturbed' => ~ disturbed
  BY <1>4
<1> QED
  BY <1>2, <1>3, <1>5, <1>6, <1>7 DEF Sent, Same

(* Time passes and pages wait: neither touches a request or a session.     *)
LEMMA RestKeeps ==
  ASSUME SesInv, SesTypeOK', UNCHANGED <<sesTables, jar, auth, disturbed>>,
         time' \in Nat /\ time' >= time
  PROVE  SesInv'
<1> USE DEF SesInv
<1>1. UNCHANGED <<userExists, sessions, parent, logins, alarmed, doomed, jar, auth, disturbed>>
  BY DEF sesTables
<1>2. MintInv' /\ \A y \in Callers : RequestInv(y)'
  BY <1>1 DEF MintInv, RequestInv, Rotating
<1>3. ASSUME ~ disturbed PROVE CalmInv'
  <2>1. /\ ~ alarmed /\ Solo /\ JarInv /\ Books
        /\ \A y \in Callers : CookieInv(y) /\ TokenInv(y)
    BY <1>3 DEF CalmInv
  <2>2. Solo' /\ JarInv' /\ \A y \in Callers : CookieInv(y)' /\ TokenInv(y)'
    BY <1>1, <2>1 DEF Solo, JarInv, CookieInv, TokenInv, Rotating, Revoked
  <2>3. Held' = Held /\ Spending' = Spending
    BY <1>1 DEF Held, Spending, InFlight
  <2>4. LiveSessions' \subseteq LiveSessions
    <3> SUFFICES ASSUME NEW s \in Ids, Live(s)' PROVE Live(s)
      BY DEF LiveSessions, Live
    <3>1. sessions[s] # NONE /\ ~ sessions[s].revoked /\ sessions[s].expires > time'
      BY <1>1 DEF Live
    <3>2. sessions[s].expires \in Nat /\ time \in Nat
      BY <3>1, Clock DEF SesTypeOK, SessionRow
    <3> QED
      BY <3>1, <3>2 DEF Live
  <2>5. Books'
    BY <1>1, <2>1, <2>3, <2>4, BooksKept, FewSpending
  <2> QED
    BY <1>1, <2>1, <2>2, <2>5 DEF CalmInv
<1> QED
  BY <1>1, <1>2, <1>3 DEF CalmInv

(* The clock, a rejected request and a request that waits with another.    *)
LEMMA RestSteps ==
  ASSUME SesInv,
         \/ SesTick
         \/ \E t \in Tabs, r \in Fetches :
               Reject(t, r) \/ (RecoverSession(t, r) /\ Recovering(t))
  PROVE  SesInv'
<1> USE DEF SesInv
<1>1. CASE SesTick
  <2>1. SesTypeOK'
    BY <1>1, Bounds DEF SesTick, SesTypeOK, sesTables, sesClient
  <2>2. time' \in Nat /\ time' >= time
    BY <1>1, Clock DEF SesTick
  <2> QED
    BY <1>1, <2>1, <2>2, RestKeeps DEF SesTick, sesClient
<1>2. ASSUME NEW t \in Tabs, NEW r \in Fetches,
             Reject(t, r) \/ (RecoverSession(t, r) /\ Recovering(t))
      PROVE  SesInv'
  <2>1. /\ UNCHANGED <<time, sesTables, jar, tab, auth, sessionFaults, disturbed>>
        /\ \E f \in {"rejected", "waiting"} : fetch' = [fetch EXCEPT ![t][r] = f]
    BY <1>2 DEF Reject, RecoverSession
  <2>2. fetch' \in [Tabs -> [Fetches -> {"idle", "rejected", "waiting"}]]
    BY <2>1 DEF SesTypeOK
  <2>3. SesTypeOK'
    BY <2>1, <2>2 DEF SesTypeOK, sesTables
  <2> QED
    BY <2>1, <2>3, RestKeeps, Clock
<1> QED
  BY <1>1, <1>2

(* A 401 that asks for a recovery.                                         *)
LEMMA RecoverSessionKeeps ==
  ASSUME SesInv, NEW t \in Tabs, NEW r \in Fetches, RecoverSession(t, r)
  PROVE  SesInv'
<1> USE DEF SesInv
<1>1. CASE ~ Recovering(t)
  <2> DEFINE x == <<t, r>>
  <2>1. Send(x, "refresh", "recovery") /\ UNCHANGED <<time, sesTables, jar, tab, sessionFaults>>
        /\ fetch' = [fetch EXCEPT ![t][r] = "waiting"]
    BY <1>1 DEF RecoverSession
  <2>2. x \in Callers /\ x[1] = t /\ x[2] = r
    BY DEF Callers
  <2> HIDE DEF x
  <2>3. Sent(x)
    BY <1>1, <2>1, <2>2, SendSent
  <2>4. disturbed' \in BOOLEAN
    BY <2>1 DEF Send, SesTypeOK
  <2>5. fetch' \in [Tabs -> [Fetches -> {"idle", "rejected", "waiting"}]]
    BY <2>1 DEF SesTypeOK
  <2>6. SesTypeOK'
    BY <2>1, <2>3, <2>4, <2>5 DEF SesTypeOK, sesTables, Sent
  <2> QED
    BY <2>1, <2>2, <2>3, <2>6, SentKeeps
<1>2. CASE Recovering(t)
  BY <1>2, RestSteps
<1> QED
  BY <1>1, <1>2

(* A form is sent.                                                         *)
LEMMA SubmitKeeps ==
  ASSUME SesInv, NEW t \in Tabs, NEW op \in {"register", "login", "logout"}, Submit(t, op)
  PROVE  SesInv'
<1> USE DEF SesInv
<1> DEFINE x == <<t, "page">>
<1>1. Send(x, op, "user") /\ UNCHANGED <<time, sesTables, sesClient, sessionFaults>>
  BY DEF Submit
<1>2. x \in Callers
  BY DEF Callers
<1> HIDE DEF x
<1>3. Sent(x)
  BY <1>1, <1>2, SendSent
<1>4. disturbed' \in BOOLEAN
  BY <1>1 DEF Send, SesTypeOK
<1>5. SesTypeOK'
  BY <1>1, <1>3, <1>4 DEF SesTypeOK, sesTables, sesClient, Sent
<1> QED
  BY <1>1, <1>2, <1>3, <1>5, SentKeeps DEF sesClient

(* A page that is mounted restores its session, whatever it has left       *)
(* behind in flight.                                                       *)
LEMMA MountKeeps ==
  ASSUME SesInv, NEW t \in Tabs, Mount(t)
  PROVE  SesInv'
<1> USE DEF SesInv
<1>1. PICK slot \in {"page", "again"} :
        /\ auth[<<t, slot>>] = Nobody
        /\ auth' = [x \in Callers |->
              CASE x = <<t, slot>> -> [op |-> "refresh", why |-> "restore", step |-> "sent",
                                       token |-> jar, now |-> 0, status |-> 200, cookie |-> KEEP]
                [] x # <<t, slot>> /\ x[1] = t /\ auth[x] # Nobody -> [auth[x] EXCEPT !.why = "nobody"]
                [] OTHER -> auth[x]]
  BY DEF Mount
<1>2. PICK z \in Callers : z = <<t, slot>>
  BY DEF Callers
<1> DEFINE q == [op |-> "refresh", why |-> "restore", step |-> "sent",
                 token |-> jar, now |-> 0, status |-> 200, cookie |-> KEEP]
<1>3. q \in AuthRequest
  BY DEF AuthRequest, SesTypeOK, AuthSteps
<1>4. /\ q.op = "refresh" /\ q.why = "restore" /\ q.step = "sent" /\ q.token = jar
      /\ q.cookie = KEEP /\ q # Nobody
  BY DEF Nobody
<1>5. auth'[z] = q
  BY <1>1, <1>2
<1> HIDE DEF q
<1>6. ASSUME NEW y \in Callers, y # z PROVE Same(y) /\ auth'[y] \in AuthRequest \cup {Nobody}
  <2>1. CASE y[1] = t /\ auth[y] # Nobody
    <3>1. auth'[y] = [auth[y] EXCEPT !.why = "nobody"]
      BY <1>1, <1>2, <1>6, <2>1
    <3>2. auth[y] \in AuthRequest
      BY <2>1, RequestFields
    <3>3. /\ auth'[y] \in AuthRequest /\ auth'[y].op = auth[y].op
          /\ auth'[y].step = auth[y].step /\ auth'[y].token = auth[y].token
          /\ auth'[y].cookie = auth[y].cookie /\ auth'[y].why = "nobody"
      BY <3>1, <3>2 DEF AuthRequest
    <3>4. auth'[y] # Nobody
      BY <3>3, <3>2 DEF Nobody, AuthRequest, AuthSteps
    <3> QED
      BY <2>1, <3>3, <3>4 DEF Same
  <2>2. CASE ~ (y[1] = t /\ auth[y] # Nobody)
    <3>1. auth'[y] = auth[y]
      BY <1>1, <1>2, <1>6, <2>2
    <3> QED
      BY <3>1 DEF Same, SesTypeOK
  <2> QED
    BY <2>1, <2>2
<1>7. auth' \in [Callers -> AuthRequest \cup {Nobody}]
  <2>1. \A y \in Callers : auth'[y] \in AuthRequest \cup {Nobody}
    BY <1>3, <1>5, <1>6
  <2>2. auth' = [y \in Callers |-> auth'[y]]
    BY <1>1
  <2> QED
    BY <2>1, <2>2
<1>8. /\ disturbed' = (disturbed \/ \E x \in InFlight : auth[x].op \in {"refresh", "logout"})
      /\ tab' = [tab EXCEPT ![t] = [status |-> "loading", access |-> 0]]
      /\ fetch' = [fetch EXCEPT ![t] = [r \in Fetches |-> "idle"]]
      /\ UNCHANGED <<time, sesTables, jar>>
      /\ \/ sessionFaults < MaxSessionFaults /\ sessionFaults' = sessionFaults + 1
         \/ UNCHANGED sessionFaults
  BY DEF Mount
<1>9. ~ disturbed' => ~ disturbed /\ \A y \in Callers : ~ Rotating(y)
  BY <1>8 DEF InFlight, Rotating
<1>10. Sent(z)
  BY <1>1, <1>2, <1>4, <1>5, <1>6, <1>7, <1>9 DEF Sent
<1>11. sessionFaults' \in 0 .. MaxSessionFaults
  BY <1>8, Bounds DEF SesTypeOK
<1>12. tab' \in [Tabs -> [status : {"loading", "authenticated", "unauthenticated"}, access : Nat]]
       /\ \A u \in Tabs : tab'[u].status = "authenticated" => tab'[u].access > 0
  BY <1>8 DEF SesTypeOK
<1>13. fetch' \in [Tabs -> [Fetches -> {"idle", "rejected", "waiting"}]]
  BY <1>8 DEF SesTypeOK
<1>14. disturbed' \in BOOLEAN
  BY <1>8 DEF SesTypeOK
<1>15. SesTypeOK'
  BY <1>7, <1>8, <1>11, <1>12, <1>13, <1>14 DEF SesTypeOK, sesTables
<1> QED
  BY <1>8, <1>10, <1>15, SentKeeps

(* An answer that arrives takes its request away and gives the jar the     *)
(* cookie it carries.                                                      *)
LEMMA DeliverType ==
  ASSUME SesInv, NEW x \in Callers, auth[x] # Nobody, Deliver(x)
  PROVE  SesTypeOK'
<1> USE DEF SesInv
<1> DEFINE t == x[1]
           r == auth[x]
<1>1. t \in Tabs
  BY DEF Callers
<1>2. jar' \in Ids \cup {NONE}
  BY RequestFields DEF Deliver, SesTypeOK
<1>3. fetch' \in [Tabs -> [Fetches -> {"idle", "rejected", "waiting"}]]
  <2>1. fetch' = [fetch EXCEPT ![t] = [f \in Fetches |->
          IF r.why = "recovery" /\ (f = x[2] \/ auth[<<t, f>>] = Nobody) /\ fetch[t][f] = "waiting"
          THEN "idle" ELSE fetch[t][f]]]
    BY <1>1 DEF Deliver, SesTypeOK
  <2>2. \A f \in Fetches : fetch[t][f] \in {"idle", "rejected", "waiting"}
    BY <1>1 DEF SesTypeOK
  <2>3. [f \in Fetches |->
          IF r.why = "recovery" /\ (f = x[2] \/ auth[<<t, f>>] = Nobody) /\ fetch[t][f] = "waiting"
          THEN "idle" ELSE fetch[t][f]] \in [Fetches -> {"idle", "rejected", "waiting"}]
    BY <2>2
  <2> QED
    BY <2>1, <2>3, <1>1 DEF SesTypeOK
<1>4. PICK status \in IF r.op = "refresh" /\ r.status = 200 THEN {200, 429, 500} ELSE {r.status} :
        tab' = [tab EXCEPT ![t] = TabAfter(x, status)]
  BY Zenon DEF Deliver
<1> DEFINE after == TabAfter(x, status)
<1>5. /\ after \in [status : {"loading", "authenticated", "unauthenticated"}, access : Nat]
      /\ after.status = "authenticated" => after.access > 0
  <2> DEFINE Page(p) == /\ p \in [status : {"loading", "authenticated", "unauthenticated"}, access : Nat]
                        /\ p.status = "authenticated" => p.access > 0
  <2>1. Page(tab[t]) /\ Page(Patch(t))
    BY <1>1 DEF SesTypeOK, Patch
  <2>2. Page([status |-> "authenticated", access |-> time + AccessTtl])
    BY Clock, Bounds
  <2>3. after \in {tab[t], Patch(t), [status |-> "authenticated", access |-> time + AccessTtl]}
    BY DEF TabAfter
  <2> HIDE DEF after
  <2> QED
    BY <2>1, <2>2, <2>3
<1> HIDE DEF after
<1>6. tab' \in [Tabs -> [status : {"loading", "authenticated", "unauthenticated"}, access : Nat]]
      /\ \A u \in Tabs : tab'[u].status = "authenticated" => tab'[u].access > 0
  BY <1>1, <1>4, <1>5 DEF SesTypeOK, after
<1>7. auth' \in [Callers -> AuthRequest \cup {Nobody}]
  BY DEF Deliver, SesTypeOK
<1> QED
  BY <1>2, <1>3, <1>6, <1>7 DEF Deliver, SesTypeOK, sesTables

(* What is left is in order: the cookie was good, and no answer that would *)
(* have replaced it is overtaken.                                          *)
LEMMA DeliverKeeps ==
  ASSUME SesInv, NEW x \in Callers, auth[x] # Nobody, Deliver(x)
  PROVE  SesInv'
<1> USE DEF SesInv
<1>1. SesTypeOK'
  BY DeliverType
<1>2. /\ auth[x].step = "answered" /\ jar' = IF auth[x].cookie = KEEP THEN jar ELSE auth[x].cookie
      /\ auth'[x] = Nobody /\ \A y \in Callers \ {x} : auth'[y] = auth[y]
      /\ UNCHANGED <<userExists, sessions, parent, logins, alarmed, doomed>>
      /\ UNCHANGED <<time, sessionFaults, disturbed>>
  BY DEF Deliver, SesTypeOK, sesTables
<1>3. auth[x].cookie \in Ids \cup {KEEP, NONE}
  BY RequestFields
<1>4. MintInv'
  BY <1>2, <1>3 DEF MintInv, RequestInv
<1>5. \A y \in Callers : RequestInv(y)'
  BY <1>2 DEF RequestInv, Rotating
<1>6. ASSUME ~ disturbed PROVE CalmInv'
  <2>1. /\ ~ alarmed /\ Solo /\ JarInv /\ Books
        /\ \A y \in Callers : CookieInv(y) /\ TokenInv(y)
    BY <1>6 DEF CalmInv
  <2>2. \A y \in Callers \ {x} : Rotating(y)' <=> Rotating(y)
    BY <1>2 DEF Rotating
  <2>3. ~ Rotating(x)'
    BY <1>2 DEF Rotating
  <2>4. Solo'
    BY <2>1, <2>2, <2>3 DEF Solo
  <2>5. JarInv'
    <3>1. CASE auth[x].cookie = KEEP
      <4> SUFFICES ASSUME jar # NONE, Revoked(jar)
                   PROVE \E y \in Callers : Rotating(y)' /\ auth'[y].step = "answered" /\ auth'[y].cookie # KEEP
        BY <1>2, <3>1 DEF JarInv, Revoked
      <4>1. PICK y \in Callers : Rotating(y) /\ auth[y].step = "answered" /\ auth[y].cookie # KEEP
        BY <2>1 DEF JarInv
      <4>2. y # x
        BY <3>1, <4>1
      <4> QED
        BY <1>2, <2>2, <4>1, <4>2
    <3>2. CASE auth[x].cookie = NONE
      BY <1>2, <3>2, NotAnId DEF JarInv
    <3>3. CASE auth[x].cookie \in Ids
      <4>1. ~ Revoked(auth[x].cookie)
        BY <2>1, <3>3 DEF CookieInv
      <4>2. jar' = auth[x].cookie
        BY <1>2, <3>3, NotAnId
      <4> QED
        BY <1>2, <4>1, <4>2 DEF JarInv, Revoked
    <3> QED
      BY <1>3, <3>1, <3>2, <3>3
  <2>6. ASSUME NEW y \in Callers PROVE CookieInv(y)'
    <3> SUFFICES ASSUME auth'[y] # Nobody, auth'[y].cookie \in Ids PROVE CookieInv(y)'
      BY DEF CookieInv
    <3>1. y # x /\ auth[y] # Nobody /\ auth'[y] = auth[y]
      BY <1>2
    <3>2. CookieInv(y)
      BY <2>1
    <3>3. jar' # auth[y].cookie
      BY <1>2, <3>1, <3>2, NotAnId DEF CookieInv
    <3>4. \A z \in Callers : auth'[z] # Nobody /\ auth'[z].cookie = auth[y].cookie => z = y
      BY <1>2, <3>1, <3>2 DEF CookieInv
    <3>5. \A z \in Callers : Rotating(z)' => auth'[z].token # auth[y].cookie
      BY <1>2, <2>2, <2>3, <3>1, <3>2 DEF CookieInv
    <3> QED
      BY <1>2, <3>1, <3>2, <3>3, <3>4, <3>5 DEF CookieInv, Revoked
  <2>7. \A y \in Callers : TokenInv(y)'
    BY <1>2, <2>1 DEF TokenInv, Rotating, Revoked, Nobody
  <2>8. LiveSessions' = LiveSessions
    BY <1>2 DEF LiveSessions, Live
  <2>9. Held' \subseteq Held
    BY <1>2 DEF Held
  <2>10. Spending' = Spending
    BY <1>2 DEF Spending, InFlight
  <2>11. Books'
    BY <1>2, <2>1, <2>8, <2>9, <2>10, BooksKept, FewSpending
  <2> QED
    BY <1>2, <2>1, <2>4, <2>5, <2>6, <2>7, <2>11 DEF CalmInv
<1> QED
  BY <1>1, <1>2, <1>4, <1>5, <1>6 DEF CalmInv

(* A lost answer disturbs.                                                 *)
LEMMA BreakKeeps ==
  ASSUME SesInv, NEW x \in Callers, auth[x] # Nobody, Break(x)
  PROVE  SesInv'
<1> USE DEF SesInv
<1>1. /\ sessionFaults' = sessionFaults + 1 /\ sessionFaults < MaxSessionFaults
      /\ disturbed' = TRUE /\ Answer(x, 0, KEEP)
      /\ UNCHANGED <<userExists, sessions, parent, logins, alarmed, doomed>>
      /\ UNCHANGED <<time, jar, tab, fetch>>
  BY DEF Break, sesTables, sesClient
<1>2. Moved(x) /\ auth'[x].step = "answered" /\ auth'[x].token = NONE /\ auth'[x].cookie = KEEP
  BY <1>1, AnswerMove
<1>3. SesTypeOK'
  BY <1>1, <1>2, Bounds DEF SesTypeOK, Moved
<1>4. MintInv'
  BY <1>1 DEF MintInv
<1>5. \A y \in Callers \ {x} : RequestInv(y)'
  BY <1>1, <1>2, <1>3, SameRequest DEF Moved
<1>6. RequestInv(x)'
  BY <1>2, NotAnId DEF RequestInv, Moved, Rotating
<1> QED
  BY <1>1, <1>3, <1>4, <1>5, <1>6 DEF CalmInv

--------------------------------------------------------------------------------
(* The statements of the handlers *)

(* DELETE of the expired rows: no row is revoked or comes to life by it.   *)
LEMMA DeleteExpiredKeeps ==
  ASSUME SesInv, NEW x \in Callers, DeleteExpired(x)
  PROVE  SesInv'
<1> USE DEF SesInv
<1>1. /\ auth[x].step = "cleaning" /\ auth' = [auth EXCEPT ![x].step = "creating"]
      /\ sessions' = [s \in Ids |-> IF sessions[s] # NONE /\ Cleanable(s, auth[x].now)
                                    THEN NONE ELSE sessions[s]]
      /\ UNCHANGED <<userExists, parent, logins, alarmed, doomed>>
      /\ UNCHANGED <<time, jar, tab, fetch, sessionFaults, disturbed>>
  BY DEF DeleteExpired, Api, sesClient
<1>2. auth[x] # Nobody
  BY <1>1, InHandler DEF AuthSteps
<1>3. /\ Moved(x) /\ auth'[x].step = "creating" /\ auth'[x].token = auth[x].token
      /\ auth'[x].cookie = auth[x].cookie
  <2> DEFINE q == [auth[x] EXCEPT !.step = "creating"]
  <2>1. auth[x] \in AuthRequest
    BY <1>2, RequestFields
  <2>2. /\ q \in AuthRequest /\ q.op = auth[x].op /\ q.why = auth[x].why /\ q.step = "creating"
        /\ q.token = auth[x].token /\ q.cookie = auth[x].cookie
    BY <2>1 DEF AuthRequest, AuthSteps
  <2>3. q # Nobody
    BY <2>2 DEF Nobody
  <2>4. auth' = [auth EXCEPT ![x] = q]
    BY <1>1 DEF SesTypeOK
  <2> HIDE DEF q
  <2>5. /\ auth' \in [Callers -> AuthRequest \cup {Nobody}] /\ auth'[x] = q
        /\ \A y \in Callers \ {x} : auth'[y] = auth[y]
    BY <2>2, <2>4 DEF SesTypeOK
  <2> QED
    BY <1>2, <2>2, <2>3, <2>5 DEF Moved, Same
<1>4. \A s \in Ids : sessions'[s] = sessions[s] \/ sessions'[s] = NONE
  BY <1>1
<1>5. sessions' \in [Ids -> SessionRow \cup {NONE}]
  BY <1>1 DEF SesTypeOK
<1>6. SesTypeOK'
  BY <1>1, <1>3, <1>5 DEF SesTypeOK, Moved
<1>7. MintInv'
  BY <1>1, <1>4 DEF MintInv
<1>8. \A y \in Callers \ {x} : RequestInv(y)'
  BY <1>1, <1>3, <1>6, SameRequest DEF Moved
<1>9. RequestInv(x)'
  BY <1>1, <1>2, <1>3 DEF RequestInv, Moved, Rotating
<1>10. ASSUME ~ disturbed PROVE CalmInv'
  <2>1. /\ ~ alarmed /\ Solo /\ JarInv /\ Books
        /\ \A y \in Callers : CookieInv(y) /\ TokenInv(y)
    BY <1>10 DEF CalmInv
  <2>2. \A s \in Ids : Revoked(s)' => Revoked(s)
    BY <1>4 DEF Revoked
  <2>3. Solo' /\ JarInv' /\ \A y \in Callers : CookieInv(y)' /\ TokenInv(y)'
    BY <1>1, <1>3, <2>1, <2>2, CalmMove
  <2>4. LiveSessions' \subseteq LiveSessions
    BY <1>1, <1>4 DEF LiveSessions, Live
  <2>5. Rotating(x) /\ auth'[x].step \in Holding => auth'[x].token \in Held
    <3>1. Rotating(x) => auth[x].op = "refresh"
      BY <1>1, <1>2 DEF RequestInv, Rotating
    <3>2. Rotating(x) => auth[x].token \in Ids
      BY <1>1, <1>2, RequestFields DEF RequestInv
    <3> QED
      BY <1>1, <1>2, <1>3, <3>1, <3>2 DEF Held
  <2>6. (LiveSessions \cup Held)' \subseteq LiveSessions \cup Held
    BY <1>3, <2>4, <2>5, HeldMove
  <2>7. Spending' = Spending /\ Cardinality(Spending) \in Nat
    BY <1>1, <1>3, <2>1, SpendingMove, FewSpending
  <2>8. Books'
    BY <1>1, <2>1, <2>6, <2>7, BooksKept
  <2> QED
    BY <1>1, <2>1, <2>3, <2>8 DEF CalmInv
<1> QED
  BY <1>1, <1>6, <1>7, <1>8, <1>9, <1>10 DEF CalmInv

(* Revoking by id ends the session that was presented, and answers.        *)
LEMMA RevokeByIdKeeps ==
  ASSUME SesInv, NEW x \in Callers, RevokeById(x)
  PROVE  SesInv'
<1> USE DEF SesInv
<1>1. /\ auth[x].step \in {"expiring", "ending"}
      /\ UNCHANGED <<userExists, parent, logins, alarmed, doomed>>
      /\ UNCHANGED <<time, jar, tab, fetch, sessionFaults, disturbed>>
  BY DEF RevokeById, Api, sesClient
<1>2. auth[x] # Nobody
  BY <1>1, InHandler DEF AuthSteps
<1>3. PICK s \in Ids : s = auth[x].token
  BY <1>1, <1>2, RequestFields DEF RequestInv, Rotating
<1>4. Rotating(x) /\ auth[x].cookie \notin Ids
  BY <1>1, <1>2 DEF RequestInv, Rotating
<1>5. /\ Moved(x) /\ auth'[x].step = "answered" /\ auth'[x].token = NONE
      /\ auth'[x].cookie \in {KEEP, NONE}
      /\ sessions' # sessions => auth'[x].cookie = NONE
  <2>1. \/ Answer(x, 500, KEEP) /\ UNCHANGED sessions
        \/ Answer(x, IF auth[x].op = "logout" THEN 204 ELSE 401, NONE)
    BY DEF RevokeById
  <2>2. CASE Answer(x, 500, KEEP) /\ UNCHANGED sessions
    BY <1>2, <2>2, AnswerMove
  <2>3. CASE Answer(x, IF auth[x].op = "logout" THEN 204 ELSE 401, NONE)
    BY <1>2, <2>3, AnswerMove
  <2> QED
    BY <2>1, <2>2, <2>3
<1>6. /\ sessions' \in [Ids -> SessionRow \cup {NONE}]
      /\ \A u \in Ids \ {s} : sessions'[u] = sessions[u]
      /\ sessions'[s] = NONE <=> sessions[s] = NONE
      /\ sessions'[s] # NONE => sessions'[s].revoked
  <2>1. CASE sessions[s] = NONE
    BY <1>3, <2>1 DEF RevokeById, SesTypeOK
  <2>2. CASE sessions[s] # NONE
    <3> DEFINE row == [sessions[s] EXCEPT !.revoked = TRUE]
    <3>1. row \in SessionRow /\ row.revoked
      BY <2>2 DEF SesTypeOK, SessionRow
    <3>2. sessions' = [sessions EXCEPT ![s] = row]
      BY <1>3, <2>2 DEF RevokeById, SesTypeOK
    <3> HIDE DEF row
    <3> QED
      BY <2>2, <3>1, <3>2, NoneIsNoSession DEF SesTypeOK
  <2> QED
    BY <2>1, <2>2
<1>7. SesTypeOK'
  BY <1>1, <1>5, <1>6 DEF SesTypeOK, Moved
<1>8. MintInv'
  BY <1>1, <1>6 DEF MintInv
<1>9. \A y \in Callers \ {x} : RequestInv(y)'
  BY <1>1, <1>5, <1>7, SameRequest DEF Moved
<1>10. RequestInv(x)'
  BY <1>2, <1>5, NotAnId DEF RequestInv, Moved, Rotating
<1>11. ASSUME ~ disturbed PROVE CalmInv'
  <2>1. /\ ~ alarmed /\ Solo /\ JarInv /\ Books
        /\ \A y \in Callers : CookieInv(y) /\ TokenInv(y)
    BY <1>11 DEF CalmInv
  <2>2. \A u \in Ids : Revoked(u)' =>
          \/ Revoked(u)
          \/ /\ u = auth[x].token /\ Rotating(x)
             /\ auth'[x].step = "answered" /\ auth'[x].token = NONE /\ auth'[x].cookie # KEEP
    BY <1>3, <1>4, <1>5, <1>6, NotAnId DEF Revoked
  <2>3. Solo' /\ JarInv' /\ \A y \in Callers : CookieInv(y)' /\ TokenInv(y)'
    BY <1>1, <1>4, <1>5, <2>1, <2>2, CalmMove, NotAnId
  <2>4. LiveSessions' \subseteq LiveSessions
    BY <1>1, <1>6 DEF LiveSessions, Live
  <2>5. (LiveSessions \cup Held)' \subseteq LiveSessions \cup Held
    <3>1. auth'[x].step \notin Holding
      BY <1>5 DEF Holding
    <3> QED
      BY <1>5, <2>4, <3>1, HeldMove, ZenonT(40)
  <2>6. Spending' = Spending /\ Cardinality(Spending) \in Nat
    BY <1>1, <1>5, <2>1, SpendingMove, FewSpending
  <2>7. Books'
    BY <1>1, <2>1, <2>5, <2>6, BooksKept
  <2> QED
    BY <1>1, <2>1, <2>3, <2>7 DEF CalmInv
<1> QED
  BY <1>1, <1>7, <1>8, <1>9, <1>10, <1>11 DEF CalmInv

(* rotate() completes: the presented session is good no more, or has gone, *)
(* and the books lose what it held.                                        *)
LEMMA SpendPresentedKeeps ==
  ASSUME SesInv, NEW x \in Callers, SpendPresented(x)
  PROVE  SesInv'
<1> USE DEF SesInv
<1>1. /\ auth[x].step = "spending"
      /\ UNCHANGED <<userExists, parent, logins, alarmed, doomed>>
      /\ UNCHANGED <<time, jar, tab, fetch, sessionFaults, disturbed>>
  BY DEF SpendPresented, Api, sesClient
<1>2. auth[x] # Nobody
  BY <1>1, InHandler DEF AuthSteps
<1>3. auth[x].op = "refresh" /\ auth[x].cookie \in Ids /\ Rotating(x)
  BY <1>1, <1>2 DEF RequestInv, Rotating
<1>4. PICK s \in Ids : s = auth[x].token
  BY <1>1, <1>2, <1>3, RequestFields DEF RequestInv
<1>5. /\ Moved(x) /\ auth'[x].step = "answered" /\ auth'[x].token = NONE
      /\ auth'[x].cookie \in {auth[x].cookie, KEEP}
      /\ sessions' # sessions => auth'[x].cookie = auth[x].cookie
  <2>1. \/ Answer(x, 500, KEEP) /\ UNCHANGED sessions
        \/ Answer(x, 200, auth[x].cookie)
    BY DEF SpendPresented
  <2>2. CASE Answer(x, 500, KEEP) /\ UNCHANGED sessions
    BY <1>2, <2>2, AnswerMove
  <2>3. CASE Answer(x, 200, auth[x].cookie)
    BY <1>2, <1>3, <2>3, AnswerMove
  <2> QED
    BY <2>1, <2>2, <2>3
<1>6. /\ sessions' \in [Ids -> SessionRow \cup {NONE}]
      /\ \A u \in Ids \ {s} : sessions'[u] = sessions[u]
      /\ sessions'[s] = NONE <=> sessions[s] = NONE
      /\ sessions'[s] # NONE => sessions'[s].revoked
  <2>1. CASE sessions[s] = NONE
    BY <1>4, <2>1 DEF SpendPresented, SesTypeOK
  <2>2. CASE sessions[s] # NONE
    <3> DEFINE row == [sessions[s] EXCEPT !.revoked = TRUE]
    <3>1. row \in SessionRow /\ row.revoked
      BY <2>2 DEF SesTypeOK, SessionRow
    <3>2. sessions' = [sessions EXCEPT ![s] = row]
      BY <1>4, <2>2 DEF SpendPresented, SesTypeOK
    <3> HIDE DEF row
    <3> QED
      BY <2>2, <3>1, <3>2, NoneIsNoSession DEF SesTypeOK
  <2> QED
    BY <2>1, <2>2
<1>7. SesTypeOK'
  BY <1>1, <1>5, <1>6 DEF SesTypeOK, Moved
<1>8. MintInv'
  BY <1>1, <1>6 DEF MintInv
<1>9. \A y \in Callers \ {x} : RequestInv(y)'
  BY <1>1, <1>5, <1>7, SameRequest DEF Moved
<1>10. RequestInv(x)'
  BY <1>1, <1>2, <1>5, NotAnId DEF RequestInv, Moved, Rotating
<1>11. ASSUME ~ disturbed PROVE CalmInv'
  <2>1. /\ ~ alarmed /\ Solo /\ JarInv /\ Books
        /\ \A y \in Callers : CookieInv(y) /\ TokenInv(y)
    BY <1>11 DEF CalmInv
  <2>2. \A u \in Ids : Revoked(u)' =>
          \/ Revoked(u)
          \/ /\ u = auth[x].token /\ Rotating(x)
             /\ auth'[x].step = "answered" /\ auth'[x].token = NONE /\ auth'[x].cookie # KEEP
    BY <1>3, <1>4, <1>5, <1>6, NotAnId DEF Revoked
  <2>3. auth'[x].cookie = auth[x].cookie \/ auth'[x].cookie \notin Ids
    BY <1>5, NotAnId
  <2>4. Solo' /\ JarInv' /\ \A y \in Callers : CookieInv(y)' /\ TokenInv(y)'
    BY <1>1, <1>5, <2>1, <2>2, <2>3, CalmMove
  <2>5. LiveSessions' \subseteq LiveSessions \ {s}
    BY <1>1, <1>6 DEF LiveSessions, Live
  <2>6. Held' = {}
    <3>1. \A y \in Callers : Rotating(y)' => y = x
      BY <1>3, <1>5, <2>1, SoloMove DEF Solo
    <3> QED
      BY <1>5, <3>1 DEF Held, Rotating
  <2>7. s \in Held
    BY <1>1, <1>2, <1>3, <1>4 DEF Held
  <2>8. Spending = {x} /\ Spending' = {}
    <3>1. \A y \in Callers \ {x} : y \notin Spending
      BY <1>3, <2>1, FewSpending DEF Solo
    <3>2. Spending = {x}
      BY <1>1, <1>3, <2>1, FewSpending
    <3>3. Spending' = {}
      BY <1>5, <3>1 DEF Spending, InFlight, Moved, Same
    <3> QED
      BY <3>2, <3>3
  <2> DEFINE S == LiveSessions \cup Held
  <2>9. S \in SUBSET Ids /\ IsFiniteSet(S) /\ Cardinality(S) \in Nat
    BY FewIds DEF LiveSessions, Held
  <2>10. Cardinality(S \ {s}) = Cardinality(S) - 1 /\ IsFiniteSet(S \ {s})
    BY <2>7, <2>9, FS_RemoveElement
  <2>11. (LiveSessions \cup Held)' \subseteq S \ {s}
    BY <2>5, <2>6
  <2>12. /\ Cardinality((LiveSessions \cup Held)') <= Cardinality(S) - 1
         /\ Cardinality((LiveSessions \cup Held)') \in Nat
    BY <2>10, <2>11, FS_Subset, FS_CardinalityType
  <2>13. Cardinality(Spending) = 1 /\ Cardinality(Spending') = 0
    BY <2>8, FS_EmptySet, FS_Singleton
  <2>14. Books'
    <3>1. Cardinality(S) <= logins + 1 /\ logins \in Nat /\ logins' = logins
      BY <1>1, <2>1, <2>13 DEF Books, SesTypeOK
    <3> HIDE DEF S
    <3> QED
      BY <2>9, <2>12, <2>13, <3>1 DEF Books
  <2> QED
    BY <1>1, <2>1, <2>4, <2>14 DEF CalmInv
<1> QED
  BY <1>1, <1>7, <1>8, <1>9, <1>10, <1>11 DEF CalmInv

(* The theft response is never given in calm.                              *)
LEMMA RevokeAllForUserKeeps ==
  ASSUME SesInv, NEW x \in Callers, RevokeAllForUser(x)
  PROVE  SesInv'
<1> USE DEF SesInv
<1>1. /\ auth[x].step = "revoking" /\ Answer(x, 401, NONE) /\ alarmed' = TRUE
      /\ sessions' = [s \in Ids |-> IF sessions[s] = NONE THEN NONE
                                    ELSE [sessions[s] EXCEPT !.revoked = TRUE]]
      /\ doomed' = doomed \cup {s \in Ids : sessions[s] # NONE}
      /\ UNCHANGED <<userExists, parent, logins>>
      /\ UNCHANGED <<time, jar, tab, fetch, sessionFaults, disturbed>>
  BY DEF RevokeAllForUser, Api, sesClient
<1>2. auth[x] # Nobody
  BY <1>1, InHandler DEF AuthSteps
<1>3. /\ Moved(x) /\ auth'[x].step = "answered" /\ auth'[x].token = NONE
      /\ auth'[x].cookie = NONE
  BY <1>1, <1>2, AnswerMove
<1>4. \A s \in Ids : sessions'[s] \in SessionRow \cup {NONE}
                     /\ (sessions'[s] # NONE => sessions[s] # NONE)
  BY <1>1 DEF SesTypeOK, SessionRow
<1>5. sessions' \in [Ids -> SessionRow \cup {NONE}]
  BY <1>1, <1>4
<1>6. SesTypeOK'
  BY <1>1, <1>3, <1>5 DEF SesTypeOK, Moved
<1>7. MintInv'
  BY <1>1, <1>4 DEF MintInv
<1>8. \A y \in Callers \ {x} : RequestInv(y)'
  BY <1>1, <1>3, <1>6, SameRequest DEF Moved
<1>9. RequestInv(x)'
  BY <1>2, <1>3, NotAnId DEF RequestInv, Moved, Rotating
<1>10. disturbed
  BY <1>1 DEF CalmInv, TokenInv
<1> QED
  BY <1>1, <1>6, <1>7, <1>8, <1>9, <1>10 DEF CalmInv

--------------------------------------------------------------------------------
(* A session of its own id *)

(* The id of a new session is in no jar, on no answer and in no request.   *)
LEMMA CalmMint ==
  ASSUME SesTypeOK, MintInv, \A y \in Callers : RequestInv(y),
         Solo, JarInv, \A y \in Callers : CookieInv(y) /\ TokenInv(y),
         NEW x \in Callers, Moved(x), NEW s \in Ids,
         parent[s] = NONE, ~ Revoked(s)', \A u \in Ids \ {s} : sessions'[u] = sessions[u],
         auth'[x].cookie = s, auth[x].cookie \notin Ids,
         auth[x].step # "answered", auth'[x].step # "revoking",
         auth'[x].token = auth[x].token \/ auth'[x].token = NONE,
         jar' = jar
  PROVE  Solo' /\ JarInv' /\ \A y \in Callers : CookieInv(y)' /\ TokenInv(y)'
<1>1. Solo' /\ \A y \in Callers : Rotating(y)' <=> Rotating(y)
  BY SoloMove
<1>2. \A y \in Callers : auth'[y] # Nobody <=> auth[y] # Nobody
  BY DEF Moved, Same
<1>3. \A y \in Callers \ {x} : auth[y] # Nobody =>
        /\ auth'[y].step = auth[y].step /\ auth'[y].token = auth[y].token
        /\ auth'[y].cookie = auth[y].cookie
  BY DEF Moved, Same
<1>4. \A u \in Ids : Revoked(u)' => Revoked(u)
  BY DEF Revoked
<1>5. jar # s
  BY NotAnId DEF MintInv
<1>6. \A y \in Callers : auth[y] # Nobody => auth[y].token # s /\ auth[y].cookie # s
  BY NotAnId DEF RequestInv
<1>7. \A y \in Callers : Rotating(y)' => auth'[y].token = auth[y].token \/ auth'[y].token = NONE
  BY <1>1, <1>3 DEF Rotating
<1>8. \A y \in Callers : Rotating(y)' => auth'[y].token # s
  BY <1>1, <1>6, <1>7, NotAnId DEF Rotating
<1>9. CookieInv(x)'
  <2>1. \A z \in Callers : auth'[z] # Nobody /\ auth'[z].cookie = s => z = x
    BY <1>2, <1>3, <1>6
  <2> QED
    BY <1>5, <1>8, <2>1 DEF CookieInv, Revoked
<1>10. ASSUME NEW y \in Callers, y # x PROVE CookieInv(y)'
  <2> SUFFICES ASSUME auth'[y] # Nobody, auth'[y].cookie \in Ids PROVE CookieInv(y)'
    BY DEF CookieInv
  <2>1. auth[y] # Nobody /\ auth'[y].cookie = auth[y].cookie
    BY <1>2, <1>3, <1>10
  <2>2. PICK k \in Ids : k = auth[y].cookie
    BY <2>1
  <2>3. /\ jar # k /\ ~ Revoked(k)
        /\ \A z \in Callers : auth[z] # Nobody /\ auth[z].cookie = k => z = y
        /\ \A z \in Callers : Rotating(z) => auth[z].token # k
    BY <2>1, <2>2 DEF CookieInv
  <2>4. k # s
    BY <1>6, <2>1, <2>2
  <2>5. \A z \in Callers : auth'[z] # Nobody /\ auth'[z].cookie = k => z = y
    BY <1>2, <1>3, <2>3, <2>4
  <2>6. \A z \in Callers : Rotating(z)' => auth'[z].token # k
    BY <1>1, <1>7, <2>3, NotAnId
  <2>7. ~ Revoked(k)'
    BY <1>4, <2>3
  <2> QED
    BY <2>1, <2>2, <2>3, <2>5, <2>6, <2>7 DEF CookieInv, Revoked
<1>11. ASSUME NEW y \in Callers PROVE TokenInv(y)'
  <2>1. auth'[y].step # "revoking"
    <3>1. CASE auth[y] = Nobody
      BY <3>1, <1>2 DEF Nobody
    <3>2. CASE auth[y] # Nobody
      BY <3>2, <1>3 DEF TokenInv
    <3> QED
      BY <3>1, <3>2
  <2>2. CASE Rotating(y)' /\ auth'[y].token # NONE
    <3>1. Rotating(y) /\ auth'[y].token = auth[y].token
      BY <1>1, <1>7, <2>2
    <3>2. PICK u \in Ids : u = auth[y].token
      BY <2>2, <3>1, RequestFields DEF Rotating
    <3>3. ~ Revoked(u)'
      BY <1>4, <2>2, <3>1, <3>2 DEF TokenInv
    <3> QED
      BY <2>1, <3>1, <3>2, <3>3 DEF TokenInv, Revoked
  <2>3. CASE ~ (Rotating(y)' /\ auth'[y].token # NONE)
    BY <2>1, <2>3 DEF TokenInv
  <2> QED
    BY <2>2, <2>3
<1>12. JarInv'
  <2> SUFFICES ASSUME jar # NONE, Revoked(jar)'
               PROVE \E y \in Callers : Rotating(y)' /\ auth'[y].step = "answered" /\ auth'[y].cookie # KEEP
    BY DEF JarInv, Revoked
  <2>1. PICK j \in Ids : j = jar
    BY DEF SesTypeOK
  <2>2. Revoked(j)
    BY <1>4, <2>1 DEF Revoked
  <2>3. PICK y \in Callers : Rotating(y) /\ auth[y].step = "answered" /\ auth[y].cookie # KEEP
    BY <2>1, <2>2, NotAnId DEF JarInv
  <2> QED
    BY <2>3, <1>1, <1>3 DEF Rotating
<1> QED
  BY <1>1, <1>9, <1>10, <1>11, <1>12

(* One more session costs the books one.                                   *)
LEMMA BooksMint ==
  ASSUME SesTypeOK, NEW s \in Ids, (LiveSessions \cup Held)' \subseteq LiveSessions \cup Held \cup {s}
  PROVE  /\ Cardinality((LiveSessions \cup Held)') <= Cardinality(LiveSessions \cup Held) + 1
         /\ Cardinality((LiveSessions \cup Held)') \in Nat
         /\ Cardinality(LiveSessions \cup Held) \in Nat
<1> DEFINE S == LiveSessions \cup Held
           T == (LiveSessions \cup Held)'
<1>1. S \in SUBSET Ids /\ IsFiniteSet(S) /\ Cardinality(S) \in Nat
  BY FewIds DEF LiveSessions, Held
<1>2. /\ IsFiniteSet(S \cup {s}) /\ Cardinality(S \cup {s}) \in Nat
      /\ Cardinality(S \cup {s}) <= Cardinality(S) + 1
  <2> HIDE DEF S
  <2>1. CASE s \in S
    <3>1. S \cup {s} = S
      BY <2>1
    <3> QED
      BY <1>1, <3>1
  <2>2. CASE s \notin S
    <3>1. IsFiniteSet(S \cup {s}) /\ Cardinality(S \cup {s}) = Cardinality(S) + 1
      BY <1>1, <2>2, FS_AddElement
    <3> QED
      BY <1>1, <3>1
  <2> QED
    BY <2>1, <2>2
<1>3. T \subseteq S \cup {s}
  OBVIOUS
<1> HIDE DEF S, T
<1>4. Cardinality(T) <= Cardinality(S \cup {s}) /\ Cardinality(T) \in Nat
  BY <1>2, <1>3, FS_Subset, FS_CardinalityType
<1>5. Cardinality(T) <= Cardinality(S) + 1
  BY <1>1, <1>2, <1>4
<1> QED
  BY <1>1, <1>4, <1>5 DEF S, T

(* createForUser() writes a session with an id of its own: for a login one *)
(* more is due, and a rotation is about to spend the one it holds.         *)
LEMMA CreateSessionKeeps ==
  ASSUME SesInv, NEW x \in Callers, CreateSession(x)
  PROVE  SesInv'
<1> USE DEF SesInv
<1>1. PICK s \in Ids :
        /\ sessions[s] = NONE /\ parent[s] = NONE
        /\ sessions' = [sessions EXCEPT ![s] = [expires |-> auth[x].now + SessionTtl, revoked |-> FALSE]]
        /\ parent' = [parent EXCEPT ![s] = IF auth[x].op = "refresh" THEN auth[x].token ELSE s]
        /\ IF auth[x].op = "refresh"
           THEN auth' = [auth EXCEPT ![x].step = "spending", ![x].cookie = s]
           ELSE Answer(x, 200, s)
  <2> DEFINE fresh == {u \in Ids : sessions[u] = NONE /\ ~ \E v \in Ids : v >= u /\ (sessions[v] # NONE \/ parent[v] # NONE)}
  <2>1. PICK s \in fresh :
        /\ sessions' = [sessions EXCEPT ![s] = [expires |-> auth[x].now + SessionTtl, revoked |-> FALSE]]
        /\ parent' = [parent EXCEPT ![s] = IF auth[x].op = "refresh" THEN auth[x].token ELSE s]
        /\ IF auth[x].op = "refresh"
           THEN auth' = [auth EXCEPT ![x].step = "spending", ![x].cookie = s]
           ELSE Answer(x, 200, s)
    BY DEF CreateSession
  <2>2. s \in Ids /\ sessions[s] = NONE /\ s >= s
    BY DEF Ids
  <2>3. parent[s] = NONE
    BY <2>2
  <2> QED
    BY <2>1, <2>2, <2>3
<1>2. /\ auth[x].step = "creating"
      /\ logins' = logins + (IF auth[x].op = "refresh" THEN 0 ELSE 1)
      /\ UNCHANGED <<userExists, alarmed, doomed>>
      /\ UNCHANGED <<time, jar, tab, fetch, sessionFaults, disturbed>>
  BY DEF CreateSession, Api, sesClient
<1>3. auth[x] # Nobody
  BY <1>2, InHandler DEF AuthSteps
<1>4. auth[x] \in AuthRequest /\ auth[x].now \in Nat /\ auth[x].cookie \notin Ids
  BY <1>2, <1>3, RequestFields DEF RequestInv
<1>5. auth[x].op = "refresh" => auth[x].token \in Ids
  BY <1>2, <1>3, RequestFields DEF RequestInv, Rotating
<1>6. userExists
  <2>1. CASE auth[x].op = "refresh"
    BY <1>3, <1>5, <2>1, NotAnId DEF RequestInv, MintInv
  <2>2. CASE auth[x].op # "refresh"
    BY <1>2, <1>3, <2>2 DEF RequestInv
  <2> QED
    BY <2>1, <2>2
<1>7. /\ Moved(x) /\ auth'[x].cookie = s
      /\ auth[x].op = "refresh" => auth'[x].step = "spending" /\ auth'[x].token = auth[x].token
      /\ auth[x].op # "refresh" => auth'[x].step = "answered" /\ auth'[x].token = NONE
  <2>1. CASE auth[x].op = "refresh"
    <3> DEFINE q == [auth[x] EXCEPT !.step = "spending", !.cookie = s]
    <3>1. /\ q \in AuthRequest /\ q.op = auth[x].op /\ q.why = auth[x].why /\ q.step = "spending"
          /\ q.token = auth[x].token /\ q.cookie = s
      BY <1>4 DEF AuthRequest, AuthSteps
    <3>2. q # Nobody
      BY <3>1 DEF Nobody
    <3>3. auth' = [auth EXCEPT ![x] = q]
      BY <1>1, <2>1 DEF SesTypeOK
    <3> HIDE DEF q
    <3>4. /\ auth' \in [Callers -> AuthRequest \cup {Nobody}] /\ auth'[x] = q
          /\ \A y \in Callers \ {x} : auth'[y] = auth[y]
      BY <3>1, <3>3 DEF SesTypeOK
    <3> QED
      BY <1>3, <2>1, <3>1, <3>2, <3>4 DEF Moved, Same
  <2>2. CASE auth[x].op # "refresh"
    BY <1>1, <1>3, <2>2, AnswerMove
  <2> QED
    BY <2>1, <2>2
<1>8. /\ sessions' \in [Ids -> SessionRow \cup {NONE}]
      /\ \A u \in Ids \ {s} : sessions'[u] = sessions[u]
      /\ sessions'[s] # NONE /\ ~ sessions'[s].revoked
  <2> DEFINE row == [expires |-> auth[x].now + SessionTtl, revoked |-> FALSE]
  <2>1. row \in SessionRow /\ ~ row.revoked
    BY <1>4, Bounds DEF SessionRow
  <2>2. sessions' = [sessions EXCEPT ![s] = row]
    BY <1>1
  <2> HIDE DEF row
  <2> QED
    BY <2>1, <2>2, NoneIsNoSession DEF SesTypeOK
<1>9. /\ parent' \in [Ids -> Ids \cup {NONE}] /\ parent'[s] # NONE
      /\ \A u \in Ids \ {s} : parent'[u] = parent[u]
  BY <1>1, <1>5, NotAnId DEF SesTypeOK
<1>10. SesTypeOK'
  BY <1>2, <1>7, <1>8, <1>9 DEF SesTypeOK, Moved
<1>11. MintInv'
  BY <1>2, <1>6, <1>8, <1>9, NotAnId DEF MintInv, SesTypeOK
<1>12. \A y \in Callers \ {x} : RequestInv(y)'
  BY <1>2, <1>7, <1>9, <1>10, SameRequest DEF Moved
<1>13. RequestInv(x)'
  <2>1. auth[x].token # NONE => parent'[auth[x].token] # NONE
    BY <1>3, <1>9, RequestFields DEF RequestInv
  <2> QED
    BY <1>2, <1>3, <1>5, <1>7, <1>9, <2>1, NotAnId DEF RequestInv, Moved, Rotating
<1>14. ASSUME ~ disturbed PROVE CalmInv'
  <2>1. /\ ~ alarmed /\ Solo /\ JarInv /\ Books
        /\ \A y \in Callers : CookieInv(y) /\ TokenInv(y)
    BY <1>14 DEF CalmInv
  <2>2. ~ Revoked(s)'
    BY <1>8 DEF Revoked
  <2>3. auth'[x].step # "revoking" /\ (auth'[x].token = auth[x].token \/ auth'[x].token = NONE)
    BY <1>7
  <2>4. Solo' /\ JarInv' /\ \A y \in Callers : CookieInv(y)' /\ TokenInv(y)'
    BY <1>1, <1>2, <1>4, <1>7, <1>8, <2>1, <2>2, <2>3, CalmMint
  <2> DEFINE S == LiveSessions \cup Held \cup {s}
  <2>5. LiveSessions' \subseteq S /\ Held \subseteq S
    BY <1>2, <1>8 DEF LiveSessions, Live
  <2>6. Rotating(x) /\ auth'[x].step \in Holding => auth'[x].token \in S
    <3>1. Rotating(x) => auth[x].op = "refresh"
      BY <1>2, <1>3 DEF RequestInv, Rotating
    <3> QED
      BY <1>2, <1>3, <1>5, <1>7, <3>1 DEF Held
  <2> HIDE DEF S
  <2>7. (LiveSessions \cup Held)' \subseteq S
    BY <1>7, <2>5, <2>6, HeldMove
  <2>8. /\ Cardinality((LiveSessions \cup Held)') <= Cardinality(LiveSessions \cup Held) + 1
        /\ Cardinality((LiveSessions \cup Held)') \in Nat
        /\ Cardinality(LiveSessions \cup Held) \in Nat
    BY <2>7, BooksMint DEF S
  <2>9. logins \in Nat /\ Cardinality(Spending) \in Nat
    BY <2>1, FewSpending DEF SesTypeOK
  <2>10. CASE auth[x].op = "refresh"
    <3>1. Rotating(x)
      BY <1>3, <2>10 DEF Rotating
    <3>2. Spending = {}
      BY <1>2, <2>1, <3>1, FewSpending
    <3>3. Spending' = {x}
      BY <1>7, <2>10, <3>2 DEF Spending, InFlight, Moved, Same
    <3>4. Cardinality(Spending) = 0 /\ Cardinality(Spending') = 1
      BY <3>2, <3>3, FS_EmptySet, FS_Singleton
    <3>5. Books'
      BY <1>2, <2>1, <2>8, <2>9, <2>10, <3>4 DEF Books
    <3> QED
      BY <1>2, <2>1, <2>4, <3>5 DEF CalmInv
  <2>11. CASE auth[x].op # "refresh"
    <3>1. Spending' = Spending
      BY <1>2, <1>7, <2>11, SpendingMove
    <3>2. Books'
      BY <1>2, <2>1, <2>8, <2>9, <2>11, <3>1 DEF Books
    <3> QED
      BY <1>2, <2>1, <2>4, <3>2 DEF CalmInv
  <2> QED
    BY <2>10, <2>11
<1> QED
  BY <1>2, <1>10, <1>11, <1>12, <1>13, <1>14 DEF CalmInv

(* The first session of all comes with its user.                           *)
LEMMA RegisterKeeps ==
  ASSUME SesInv, NEW x \in Callers, Register(x), ~ userExists
  PROVE  SesInv'
<1> USE DEF SesInv
<1> DEFINE row == [expires |-> time + SessionTtl, revoked |-> FALSE]
<1>1. PICK s \in Ids : s = 1
  BY NotAnId
<1>2. /\ auth[x].step = "sent" /\ auth[x].op = "register" /\ Answer(x, 200, s)
      /\ userExists' = TRUE /\ logins' = logins + 1
      /\ sessions' = [sessions EXCEPT ![s] = row]
      /\ parent' = [parent EXCEPT ![s] = s]
      /\ UNCHANGED <<alarmed, doomed>>
      /\ UNCHANGED <<time, jar, tab, fetch, sessionFaults, disturbed>>
  BY <1>1 DEF Register, Api, sesClient
<1>3. row \in SessionRow /\ ~ row.revoked /\ row # NONE
  <2>1. row \in SessionRow
    BY Clock, Bounds DEF SessionRow
  <2> QED
    BY <2>1, NoneIsNoSession
<1> HIDE DEF row
<1>4. auth[x] # Nobody /\ auth[x].cookie \notin Ids
  BY <1>2, SentHasNone
<1>5. /\ Moved(x) /\ auth'[x].step = "answered" /\ auth'[x].token = NONE /\ auth'[x].cookie = s
  BY <1>2, <1>4, AnswerMove
<1>6. parent[s] = NONE
  BY DEF MintInv
<1>7. /\ sessions' \in [Ids -> SessionRow \cup {NONE}] /\ sessions'[s] = row
      /\ \A u \in Ids \ {s} : sessions'[u] = sessions[u]
  BY <1>2, <1>3 DEF SesTypeOK
<1>8. /\ parent' \in [Ids -> Ids \cup {NONE}] /\ parent'[s] # NONE
      /\ \A u \in Ids \ {s} : parent'[u] = parent[u]
  BY <1>2, NotAnId DEF SesTypeOK
<1>9. SesTypeOK'
  BY <1>2, <1>5, <1>7, <1>8 DEF SesTypeOK, Moved
<1>10. MintInv'
  BY <1>2, <1>7, <1>8 DEF MintInv, SesTypeOK
<1>11. \A y \in Callers \ {x} : RequestInv(y)'
  BY <1>2, <1>5, <1>8, <1>9, SameRequest DEF Moved
<1>12. RequestInv(x)'
  BY <1>2, <1>4, <1>5, <1>8 DEF RequestInv, Moved, Rotating
<1>13. ASSUME ~ disturbed PROVE CalmInv'
  <2>1. /\ ~ alarmed /\ Solo /\ JarInv /\ Books
        /\ \A y \in Callers : CookieInv(y) /\ TokenInv(y)
    BY <1>13 DEF CalmInv
  <2>2. ~ Revoked(s)'
    BY <1>3, <1>7 DEF Revoked
  <2>3. Solo' /\ JarInv' /\ \A y \in Callers : CookieInv(y)' /\ TokenInv(y)'
    BY <1>2, <1>4, <1>5, <1>6, <1>7, <2>1, <2>2, CalmMint
  <2> DEFINE S == LiveSessions \cup Held \cup {s}
  <2>4. LiveSessions' \subseteq S /\ Held \subseteq S
    BY <1>2, <1>7 DEF LiveSessions, Live
  <2> HIDE DEF S
  <2>5. ~ Rotating(x)
    BY <1>2 DEF Rotating
  <2>6. (LiveSessions \cup Held)' \subseteq S
    BY <1>5, <2>4, <2>5, HeldMove
  <2>7. /\ Cardinality((LiveSessions \cup Held)') <= Cardinality(LiveSessions \cup Held) + 1
        /\ Cardinality((LiveSessions \cup Held)') \in Nat
        /\ Cardinality(LiveSessions \cup Held) \in Nat
    BY <2>6, BooksMint DEF S
  <2>8. logins \in Nat /\ Cardinality(Spending) \in Nat /\ Spending' = Spending
    BY <1>2, <1>5, <2>1, SpendingMove, FewSpending DEF SesTypeOK
  <2>9. Books'
    BY <1>2, <2>1, <2>7, <2>8 DEF Books
  <2> QED
    BY <1>2, <2>1, <2>3, <2>9 DEF CalmInv
<1> QED
  BY <1>2, <1>9, <1>10, <1>11, <1>12, <1>13 DEF CalmInv

--------------------------------------------------------------------------------
(* Every step keeps the invariant.                                         *)
LEMMA SesInvStep == SesInv /\ [SesNext]_sesVars => SesInv'
<1> SUFFICES ASSUME SesInv, [SesNext]_sesVars PROVE SesInv'
  OBVIOUS
<1>1. ASSUME NEW x \in Callers, SesHandler(x) PROVE SesInv'
  <2>1. SUFFICES ASSUME Throttle(x) \/ Rotate(x) \/ Logout(x) \/ Login(x) \/ (Register(x) /\ userExists)
                 PROVE SesInv'
    BY <1>1, DeleteExpiredKeeps, CreateSessionKeeps, SpendPresentedKeeps, RevokeByIdKeeps,
       RevokeAllForUserKeeps, RegisterKeeps DEF SesHandler
  <2>2. Begins(x)
    BY <2>1, ThrottleBegins, RotateBegins, LogoutBegins, LoginBegins, RegisterTakenBegins
  <2>3. UNCHANGED <<time, sesClient, sessionFaults, disturbed>>
    BY <2>1 DEF Throttle, Rotate, Logout, Login, Register, Api
  <2> QED
    BY <2>2, <2>3, BeginKeeps
<1>2. ASSUME NEW x \in InFlight, Deliver(x) \/ Break(x) PROVE SesInv'
  BY <1>2, DeliverKeeps, BreakKeeps DEF InFlight
<1>3. ASSUME NEW t \in Tabs,
             \/ Mount(t)
             \/ \E r \in Fetches : Reject(t, r) \/ RecoverSession(t, r)
             \/ \E op \in {"register", "login", "logout"} : Submit(t, op)
      PROVE SesInv'
  BY <1>3, MountKeeps, RestSteps, RecoverSessionKeeps, SubmitKeeps
<1>4. CASE SesTick
  BY <1>4, RestSteps
<1>5. CASE UNCHANGED sesVars
  <2>1. UNCHANGED <<time, sesTables, jar, tab, fetch, auth, sessionFaults, disturbed>>
    BY <1>5 DEF sesVars, sesClient
  <2>2. SesTypeOK'
    BY <2>1 DEF SesInv, SesTypeOK, sesTables
  <2> QED
    BY <2>1, <2>2, RestKeeps, Clock DEF SesInv
<1> QED
  BY <1>1, <1>2, <1>3, <1>4, <1>5 DEF SesNext, InFlight

(* Tables, tabs and requests keep their types.                             *)
THEOREM SesTypesOk == SesSpec => []SesTypeOK
<1>1. SesInv => SesTypeOK
  BY DEF SesInv
<1> QED
  BY <1>1, SesInvInit, SesInvStep, PTL DEF SesSpec

(* The recovery that all the requests of a tab share never presents a      *)
(* cookie twice, so that no alarm is raised in calm.                       *)
THEOREM NoFalseAlarm == SesSpec => []CoalescedRefreshRaisesNoAlarm
<1>1. SesInv => CoalescedRefreshRaisesNoAlarm
  BY DEF SesInv, CalmInv, CoalescedRefreshRaisesNoAlarm
<1> QED
  BY <1>1, SesInvInit, SesInvStep, PTL DEF SesSpec

(* In calm a login has one good session, however often it was rotated.     *)
THEOREM RotationReplaces == SesSpec => []OneLiveSessionPerLogin
<1>1. SesInv => OneLiveSessionPerLogin
  <2> SUFFICES ASSUME SesInv, ~ disturbed
               PROVE Cardinality({s \in Ids : Live(s)})
                       <= logins + Cardinality({x \in InFlight : auth[x].step = "spending"})
    BY DEF OneLiveSessionPerLogin
  <2>1. Solo /\ Books /\ \A x \in Callers : RequestInv(x)
    BY DEF SesInv, CalmInv
  <2>2. LiveSessions \cup Held \in SUBSET Ids
    BY DEF LiveSessions, Held
  <2>3. /\ Cardinality(LiveSessions) <= Cardinality(LiveSessions \cup Held)
        /\ Cardinality(LiveSessions) \in Nat /\ Cardinality(LiveSessions \cup Held) \in Nat
    BY <2>2, FewIds, FS_Subset, FS_CardinalityType
  <2>4. Cardinality(Spending) \in Nat /\ logins \in Nat
    BY <2>1, FewSpending DEF SesInv, SesTypeOK
  <2>5. Cardinality(LiveSessions) <= logins + Cardinality(Spending)
    BY <2>1, <2>3, <2>4 DEF Books
  <2> QED
    BY <2>5 DEF LiveSessions, Spending
<1> QED
  BY <1>1, SesInvInit, SesInvStep, PTL DEF SesSpec
================================================================================
