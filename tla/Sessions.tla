------------------------------- MODULE Sessions -------------------------------
(***************************************************************************)
(* The refresh sessions of one user: RefreshSessionService and AuthService *)
(* (apps/api/src/auth) on one side, AuthProvider and the coalesced session *)
(* recovery of the dashboard (apps/web) on the other.                      *)
(*                                                                         *)
(* The tabs of a browser share the HttpOnly cookie jar and nothing else.   *)
(* rotate() and createForUser() run on the plain client, so each of their  *)
(* statements commits by itself and is a step here.  A token is the id of  *)
(* its session row.  The jar keeps an expired cookie, which the API        *)
(* answers as it does a missing one.                                       *)
(***************************************************************************)
EXTENDS Naturals, FiniteSets, Absence

CONSTANTS Tabs,
          Fetches,     \* authenticated requests a tab has in flight at one time
          MaxSessions, \* bound of the model: session rows ever created
          MaxLogins,   \* bound of the model: logins
          MaxSessionFaults,   \* bound of the model: lost answers, crashes and reloads in mid-call
          MaxSessionTime,     \* bound of the model: clock
          SessionTtl, AccessTtl,
          KEEP         \* an answer that does not touch the cookie; NONE clears it

ASSUME SessionAssumption ==
    /\ {MaxSessions, MaxLogins, MaxSessionFaults, MaxSessionTime, SessionTtl, AccessTtl} \subseteq Nat
    /\ 0 < AccessTtl /\ AccessTtl < SessionTtl /\ 0 < MaxSessions
    /\ {KEEP, NONE} \cap (1 .. MaxSessions) = {} /\ KEEP # NONE

VARIABLES time,
          userExists,  \* the users row
          sessions,    \* refresh_sessions rows by id, NONE before they exist and after they go
          jar,         \* the refresh cookie, or NONE
          tab,         \* status and expiry of the access token of each tab
          fetch,       \* authenticated requests of each tab
          auth,        \* the /auth requests in flight, by who sent them
          parent,      \* history: the session each session was rotated from, or NONE
          logins,      \* history: logins that made a session
          sessionFaults,      \* sessionFaults so far
          disturbed,   \* history: a fault, or two uncoordinated /auth requests at once
          alarmed,     \* history: some presentation was taken for theft
          doomed       \* history: sessions that existed when a theft response ended

sesTables == <<userExists, sessions, parent, logins, alarmed, doomed>>
sesClient == <<jar, tab, fetch>>
sesVars == <<time, sesTables, sesClient, auth, sessionFaults, disturbed>>

Ids == 1 .. MaxSessions
Callers == Tabs \X (Fetches \cup {"page", "again"})
Nobody == [step |-> "none"]
AuthSteps == {"sent", "cleaning", "creating", "spending", "expiring", "revoking", "ending", "answered"}

SessionRow == [expires : Nat, revoked : BOOLEAN]
AuthRequest == [op : {"register", "login", "refresh", "logout"},
                why : {"user", "restore", "recovery", "nobody"}, step : AuthSteps,
                token : Ids \cup {NONE}, now : Nat, status : Nat, cookie : Ids \cup {KEEP, NONE}]

ASSUME NoneIsNoSession == NONE \notin SessionRow

SesTypeOK ==
    /\ time \in 0 .. MaxSessionTime /\ sessionFaults \in 0 .. MaxSessionFaults
    /\ userExists \in BOOLEAN /\ disturbed \in BOOLEAN /\ alarmed \in BOOLEAN
    /\ logins \in Nat /\ doomed \subseteq Ids
    /\ jar \in Ids \cup {NONE}
    /\ sessions \in [Ids -> SessionRow \cup {NONE}]
    /\ parent \in [Ids -> Ids \cup {NONE}]
    /\ tab \in [Tabs -> [status : {"loading", "authenticated", "unauthenticated"}, access : Nat]]
    /\ \A t \in Tabs : tab[t].status = "authenticated" => tab[t].access > 0
    /\ fetch \in [Tabs -> [Fetches -> {"idle", "rejected", "waiting"}]]
    /\ auth \in [Callers -> AuthRequest \cup {Nobody}]

SesInit ==
    /\ time = 0 /\ userExists = FALSE
    /\ sessions = [s \in Ids |-> NONE] /\ parent = [s \in Ids |-> NONE]
    /\ jar = NONE
    /\ tab = [t \in Tabs |-> [status |-> "unauthenticated", access |-> 0]]
    /\ fetch = [t \in Tabs |-> [r \in Fetches |-> "idle"]]
    /\ auth = [x \in Callers |-> Nobody]
    /\ logins = 0 /\ sessionFaults = 0
    /\ disturbed = FALSE /\ alarmed = FALSE /\ doomed = {}

Live(s) == sessions[s] # NONE /\ ~ sessions[s].revoked /\ sessions[s].expires > time
InFlight == {x \in Callers : auth[x] # Nobody}

(* A handler reads the clock once, with its first row.                     *)
Served(x, step) == auth' = [auth EXCEPT ![x].step = step, ![x].now = time]

Answer(x, status, cookie) ==
    auth' = [auth EXCEPT ![x] =
        [@ EXCEPT !.step = "answered", !.token = NONE, !.now = 0, !.status = status, !.cookie = cookie]]

--------------------------------------------------------------------------------
(* The browser *)

SesTick == time < MaxSessionTime /\ time' = time + 1
           /\ UNCHANGED <<sesTables, sesClient, auth, sessionFaults, disturbed>>

(* The cookie in the jar travels with the request.  Only the recoveries of *)
(* one tab know of each other.                                             *)
Send(x, op, why) ==
    /\ auth[x] = Nobody
    /\ auth' = [auth EXCEPT ![x] =
          [op |-> op, why |-> why, step |-> "sent", token |-> jar, now |-> 0,
           status |-> 200, cookie |-> KEEP]]
    /\ disturbed' = (disturbed \/
          /\ op \in {"refresh", "logout"}
          /\ \E y \in InFlight : /\ auth[y].op \in {"refresh", "logout"}
                                 /\ ~ (y[1] = x[1] /\ why = "recovery" /\ auth[y].why = "recovery"))

(* Mutant: every 401 starts a refresh of its own.                          *)
NeverRecovering(t) == FALSE

Recovering(t) == \E r \in Fetches : auth[<<t, r>>] # Nobody /\ auth[<<t, r>>].why = "recovery"

(* A mount, or a reload that forgets what the page was waiting for.        *)
Mount(t) ==
    /\ IF \E x \in InFlight : x[1] = t /\ auth[x].why # "nobody"
       THEN sessionFaults < MaxSessionFaults /\ sessionFaults' = sessionFaults + 1
       ELSE UNCHANGED sessionFaults
    /\ \E slot \in {"page", "again"} :
          /\ auth[<<t, slot>>] = Nobody
          /\ auth' = [x \in Callers |->
                CASE x = <<t, slot>> -> [op |-> "refresh", why |-> "restore", step |-> "sent",
                                         token |-> jar, now |-> 0, status |-> 200, cookie |-> KEEP]
                  [] x # <<t, slot>> /\ x[1] = t /\ auth[x] # Nobody -> [auth[x] EXCEPT !.why = "nobody"]
                  [] OTHER -> auth[x]]
    /\ disturbed' = (disturbed \/ \E x \in InFlight : auth[x].op \in {"refresh", "logout"})
    /\ tab' = [tab EXCEPT ![t] = [status |-> "loading", access |-> 0]]
    /\ fetch' = [fetch EXCEPT ![t] = [r \in Fetches |-> "idle"]]
    /\ UNCHANGED <<time, sesTables, jar>>

(* SessionAuthGuard turns an expired access token away.                    *)
Reject(t, r) ==
    /\ tab[t].status = "authenticated" /\ tab[t].access <= time /\ fetch[t][r] = "idle"
    /\ fetch' = [fetch EXCEPT ![t][r] = "rejected"]
    /\ UNCHANGED <<time, sesTables, jar, tab, auth, sessionFaults, disturbed>>

(* The 401 arrives: apiFetch asks for a recovery, or joins the running one. *)
RecoverSession(t, r) ==
    /\ fetch[t][r] = "rejected"
    /\ fetch' = [fetch EXCEPT ![t][r] = "waiting"]
    /\ IF Recovering(t) THEN UNCHANGED <<auth, disturbed>> ELSE Send(<<t, r>>, "refresh", "recovery")
    /\ UNCHANGED <<time, sesTables, jar, tab, sessionFaults>>

Submit(t, op) ==
    /\ auth[<<t, "page">>] = Nobody
    /\ tab[t].status = IF op = "logout" THEN "authenticated" ELSE "unauthenticated"
    /\ Send(<<t, "page">>, op, "user")
    /\ UNCHANGED <<time, sesTables, sesClient, sessionFaults>>

(* Mutant: clearSession() forgets the status.                              *)
PatchTokenOnly(t) == [tab[t] EXCEPT !.access = 0]

Patch(t) == [status |-> "unauthenticated", access |-> 0]

(* AuthProvider: what the answer of x makes of its tab.  A refresh is      *)
(* followed by GET /auth/me, which may fail in its turn.                   *)
TabAfter(x, status) ==
    LET t == x[1]
        r == auth[x]
    IN  CASE r.why = "nobody" -> tab[t]
          [] r.op = "logout" -> Patch(t)
          [] r.op # "logout" /\ status = 200 -> [status |-> "authenticated", access |-> time + AccessTtl]
          [] r.why = "restore" /\ status \notin {200, 429} -> Patch(t)
          [] r.why = "recovery" /\ status = 401 -> Patch(t)
          [] OTHER -> tab[t]

(* The answer reaches the browser, which obeys Set-Cookie first.           *)
Deliver(x) ==
    LET t == x[1]
        r == auth[x]
    IN
    /\ r.step = "answered"
    /\ jar' = IF r.cookie = KEEP THEN jar ELSE r.cookie
    /\ \E status \in IF r.op = "refresh" /\ r.status = 200 THEN {200, 429, 500} ELSE {r.status} :
          tab' = [tab EXCEPT ![t] = TabAfter(x, status)]
    /\ fetch' = [fetch EXCEPT ![t] = [f \in Fetches |->
          IF r.why = "recovery" /\ (f = x[2] \/ auth[<<t, f>>] = Nobody) /\ @[f] = "waiting"
          THEN "idle" ELSE @[f]]]
    /\ auth' = [auth EXCEPT ![x] = Nobody]
    /\ UNCHANGED <<time, sesTables, sessionFaults, disturbed>>

(* The process dies or the connection breaks: whatever has committed       *)
(* stays, and the page sees a network error.                               *)
Break(x) ==
    /\ auth[x] # Nobody /\ sessionFaults < MaxSessionFaults
    /\ auth[x].cookie # KEEP \/ auth[x].step # "answered"
    /\ sessionFaults' = sessionFaults + 1 /\ disturbed' = TRUE
    /\ Answer(x, 0, KEEP)
    /\ UNCHANGED <<time, sesTables, sesClient>>

--------------------------------------------------------------------------------
(* The API *)

Api(x, step) == auth[x].step = step /\ UNCHANGED <<time, sesClient, sessionFaults, disturbed>>

RowsUnchanged == UNCHANGED <<userExists, sessions, parent, logins, alarmed, doomed>>

(* The rate limiter turns the request away before its handler.             *)
Throttle(x) == Api(x, "sent") /\ Answer(x, 429, KEEP) /\ RowsUnchanged

Cleanable(s, now) == sessions[s].expires <= now

(* rotate(): what the row of the presented token decides.                  *)
Rotate(x) ==
    LET s == auth[x].token
        known == s # NONE /\ sessions[s] # NONE
    IN
    /\ Api(x, "sent") /\ auth[x].op = "refresh"
    /\ \/ ~ known /\ Answer(x, 401, NONE)
       \/ known /\ sessions[s].revoked /\ sessions[s].expires <= time /\ Answer(x, 401, NONE)
       \/ known /\ sessions[s].revoked /\ sessions[s].expires > time /\ Served(x, "revoking")
       \/ known /\ ~ sessions[s].revoked /\ Served(x, IF sessions[s].expires <= time THEN "expiring" ELSE "cleaning")
    /\ RowsUnchanged

(* createForUser(): the expired rows go, then the new one comes.           *)
DeleteExpired(x) ==
    /\ Api(x, "cleaning") /\ auth' = [auth EXCEPT ![x].step = "creating"]
    /\ sessions' = [s \in Ids |-> IF sessions[s] # NONE /\ Cleanable(s, auth[x].now)
                                  THEN NONE ELSE sessions[s]]
    /\ UNCHANGED <<userExists, parent, logins, alarmed, doomed>>

CreateSession(x) ==
    LET fresh == {s \in Ids : sessions[s] = NONE /\ ~ \E u \in Ids : u >= s /\ (sessions[u] # NONE \/ parent[u] # NONE)}
        r == auth[x]
    IN
    /\ Api(x, "creating") /\ fresh # {}
    /\ \E s \in fresh :
          /\ \A u \in fresh : s <= u
          /\ sessions' = [sessions EXCEPT ![s] = [expires |-> r.now + SessionTtl, revoked |-> FALSE]]
          /\ parent' = [parent EXCEPT ![s] = IF r.op = "refresh" THEN r.token ELSE s]
          /\ IF r.op = "refresh"
             THEN auth' = [auth EXCEPT ![x].step = "spending", ![x].cookie = s]
             ELSE Answer(x, 200, s)
    /\ logins' = logins + (IF r.op = "refresh" THEN 0 ELSE 1)
    /\ UNCHANGED <<userExists, alarmed, doomed>>

(* Mutant: the presented session stays good.                               *)
SpendNothing(x) == Api(x, "spending") /\ Answer(x, 200, auth[x].cookie) /\ RowsUnchanged

(* The presented session is revoked by its id; an UPDATE that finds no row *)
(* is a 500, which leaves the cookie alone.                                *)
SpendPresented(x) ==
    LET s == auth[x].token IN
    /\ Api(x, "spending")
    /\ IF sessions[s] = NONE
       THEN Answer(x, 500, KEEP) /\ UNCHANGED sessions
       ELSE Answer(x, 200, auth[x].cookie) /\ sessions' = [sessions EXCEPT ![s].revoked = TRUE]
    /\ UNCHANGED <<userExists, parent, logins, alarmed, doomed>>

(* An expired session, or one that logs out, is revoked by its id too.     *)
RevokeById(x) ==
    LET r == auth[x] IN
    /\ r.step \in {"expiring", "ending"} /\ Api(x, r.step)
    /\ IF sessions[r.token] = NONE
       THEN Answer(x, 500, KEEP) /\ UNCHANGED sessions
       ELSE /\ Answer(x, IF r.op = "logout" THEN 204 ELSE 401, NONE)
            /\ sessions' = [sessions EXCEPT ![r.token].revoked = TRUE]
    /\ UNCHANGED <<userExists, parent, logins, alarmed, doomed>>

(* revokeAllForUser(): one UPDATE over the live rows of the user.          *)
RevokeAllForUser(x) ==
    /\ Api(x, "revoking") /\ Answer(x, 401, NONE)
    /\ sessions' = [s \in Ids |-> IF sessions[s] = NONE THEN NONE ELSE [sessions[s] EXCEPT !.revoked = TRUE]]
    /\ alarmed' = TRUE
    /\ doomed' = doomed \cup {s \in Ids : sessions[s] # NONE}
    /\ UNCHANGED <<userExists, parent, logins>>

(* revoke(): only a live session is ended; the cookie goes in any case.    *)
Logout(x) ==
    LET s == auth[x].token IN
    /\ Api(x, "sent") /\ auth[x].op = "logout"
    /\ IF s # NONE /\ Live(s) THEN Served(x, "ending") ELSE Answer(x, 204, NONE)
    /\ RowsUnchanged

Login(x) ==
    /\ Api(x, "sent") /\ auth[x].op = "login" /\ logins < MaxLogins
    /\ IF userExists THEN Served(x, "cleaning") ELSE Answer(x, 401, KEEP)
    /\ RowsUnchanged

(* register(): one transaction, so the user and the session come together; *)
(* a second registration finds the email taken.                            *)
Register(x) ==
    LET first == 1 IN
    /\ Api(x, "sent") /\ auth[x].op = "register" /\ logins < MaxLogins
    /\ IF userExists
       THEN Answer(x, 409, KEEP) /\ RowsUnchanged
       ELSE /\ Answer(x, 200, first)
            /\ userExists' = TRUE /\ logins' = logins + 1
            /\ sessions' = [sessions EXCEPT ![first] = [expires |-> time + SessionTtl, revoked |-> FALSE]]
            /\ parent' = [parent EXCEPT ![first] = first]
            /\ UNCHANGED <<alarmed, doomed>>

SesHandler(x) ==
    \/ Throttle(x) \/ Rotate(x) \/ DeleteExpired(x) \/ CreateSession(x) \/ SpendPresented(x)
    \/ RevokeById(x) \/ RevokeAllForUser(x) \/ Logout(x) \/ Login(x) \/ Register(x)

SesNext ==
    \/ SesTick
    \/ \E t \in Tabs :
          \/ Mount(t)
          \/ \E r \in Fetches : Reject(t, r) \/ RecoverSession(t, r)
          \/ \E op \in {"register", "login", "logout"} : Submit(t, op)
    \/ \E x \in InFlight : Deliver(x) \/ Break(x) \/ SesHandler(x)

SesSpec == SesInit /\ [][SesNext]_sesVars

--------------------------------------------------------------------------------
(* Properties *)

(* The coalesced recovery of a tab never trips the theft response: if no   *)
(* answer was lost and no other tab, reload or logout was in flight at the *)
(* same time, no presentation of a cookie is ever taken for theft.         *)
CoalescedRefreshRaisesNoAlarm == alarmed => disturbed

(* Rotation replaces: undisturbed, a login never has two good sessions,    *)
(* but for the moment between the two statements of a rotation.            *)
OneLiveSessionPerLogin ==
    ~ disturbed => Cardinality({s \in Ids : Live(s)})
                     <= logins + Cardinality({x \in InFlight : auth[x].step = "spending"})

(* "Presenting a revoked-but-unexpired token is treated as theft: all the  *)
(* user's sessions are revoked": no good session descends from one that    *)
(* existed when the theft response ended.                                  *)
TheftResponseEndsEverySession ==
    \A s \in Ids : Live(s) => s \notin doomed /\ (parent[s] = s \/ parent[s] \notin doomed)
================================================================================
