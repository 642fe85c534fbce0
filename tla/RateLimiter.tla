------------------------------ MODULE RateLimiter ------------------------------
(***************************************************************************)
(* The fixed-window limiter (apps/api/src/rate-limiting): client identity  *)
(* behind trusted proxies, the counters in Redis with their time-out, the  *)
(* bounded store that each process falls back to, and the two guards whose *)
(* budgets share the headers of one response.  A tick is a second.         *)
(***************************************************************************)
EXTENDS Naturals, Sequences, FiniteSets, SequencesExt, Absence

CONSTANTS Processes,      \* replicas of the API
          Requests,
          Clients,        \* addresses of clients
          ProxyHops,      \* TRUST_PROXY_HOPS
          RouteClasses,   \* classes of the routes that are asked for
          Credentials,    \* API-key ids or emails
          Budget,         \* limit of a class and scope
          LimitWindow, Ceiling, SweepInterval,
          MaxSeconds, MaxRedisFaults   \* bounds of the model

Scopes == {"ip", "api_key", "account"}

ScopesForClass(class) ==
    CASE class = "auth.session-creation" -> <<"ip", "account">>
      [] class \in {"auth.refresh", "auth.read", "read"} -> <<"ip">>
      [] class \in {"write", "webhook.replay", "webhook.endpoint-create"} -> <<"ip", "api_key">>

RateLimitClasses == {"auth.session-creation", "auth.refresh", "auth.read", "read",
                     "write", "webhook.replay", "webhook.endpoint-create"}

Junk == "junk"
Proxy == "proxy"

ASSUME LimiterAssumption ==
    /\ Budget \in [RouteClasses \X Scopes -> Nat \ {0}]
    /\ {LimitWindow, Ceiling} \subseteq Nat \ {0}
    /\ {ProxyHops, SweepInterval, MaxSeconds, MaxRedisFaults} \subseteq Nat
    /\ NONE \notin Clients \cup Credentials /\ {Junk, Proxy} \cap Clients = {}
    /\ RouteClasses \subseteq RateLimitClasses /\ "redis" \notin Processes /\ IsFiniteSet(Requests)

VARIABLES seconds,
          failMode,   \* RATE_LIMIT_FAIL_MODE
          redis,      \* counters: number of attempts and end of the window, or NONE
          late,       \* commands that nobody waits for any more
          store,      \* fallback counters of each process, in the order of its Map
          sweptAt,    \* last sweep of each process
          attempt,    \* what each request has been through
          redisFaults

limiterVars == <<seconds, failMode, redis, late, store, sweptAt, attempt, redisFaults>>

Bucket == RouteClasses \X Scopes \X (Clients \cup Credentials)
Counter == [count : Nat, until : Nat]
Fallback == [bucket : Bucket, count : Nat, started : 0 .. MaxSeconds]
Unborn == [step |-> "none"]

(* What enforce() learns of one bucket, and in which window of which store.*)
BucketConsumption == [allowed : BOOLEAN, bucket : Bucket, remaining : Nat,
            window : ({"redis", "none"} \cup Processes) \X Nat]

Attempt ==
    [step : {"guard", "replied", "admitted", "rejected", "unauthorized"},
     process : Processes, class : RouteClasses, credential : Credentials \cup {NONE},
     client : Clients, identity : Clients, guard : {1, 2}, reported : BucketConsumption \cup {NONE},
     counted : Seq(BucketConsumption), reply : Counter \cup {NONE}]

ASSUME NoneIsNoCounter == NONE \notin Counter \cup BucketConsumption

LimiterTypeOK ==
    /\ seconds \in 0 .. MaxSeconds /\ redisFaults \in 0 .. MaxRedisFaults
    /\ failMode \in {"open", "closed"}
    /\ redis \in [Bucket -> Counter \cup {NONE}] /\ late \in [Bucket -> Nat]
    /\ store \in [Processes -> Seq(Fallback)] /\ sweptAt \in [Processes -> 0 .. MaxSeconds]
    /\ \A p \in Processes : Len(store[p]) <= Ceiling
    /\ attempt \in [Requests -> Attempt \cup {Unborn}]

LimiterInit ==
    /\ seconds = 0 /\ failMode \in {"open", "closed"}
    /\ redis = [b \in Bucket |-> NONE] /\ late = [b \in Bucket |-> 0]
    /\ store = [p \in Processes |-> <<>>] /\ sweptAt = [p \in Processes |-> 0]
    /\ attempt = [r \in Requests |-> Unborn] /\ redisFaults = 0

--------------------------------------------------------------------------------
(* Who is asking *)

(* The chain is walked from the right, ProxyHops entries far.              *)
Walk(chain, hops) ==
    LET found == {i \in DOMAIN chain : i + hops > Len(chain) /\ chain[i] \in Clients}
    IN  IF found = {} THEN NONE ELSE chain[Max(found)]

(* An allowlist of proxies; entries that are no address are stepped over.  *)
ResolveClientIdentity(peer, chain) ==
    IF ProxyHops = 0 \/ peer # Proxy \/ chain = <<>> \/ Last(chain) = Junk THEN peer
    ELSE IF Walk(chain, ProxyHops) # NONE THEN Walk(chain, ProxyHops)
    ELSE LET leftmost == chain[IF Len(chain) > ProxyHops THEN Len(chain) - ProxyHops + 1 ELSE 1] IN
         IF leftmost = Junk THEN "unresolved" ELSE leftmost

(* A request of a client crosses `proxies` trusted proxies, each of which  *)
(* appends its peer to whatever the header already held.                   *)
Chain(written, client, proxies) ==
    IF proxies = 0 THEN written ELSE written \o <<client>> \o [i \in 1 .. proxies - 1 |-> Proxy]

Arrive(r, p, client, class, credential) ==
    /\ attempt[r] = Unborn
    /\ \E written \in SeqOf(Clients \cup {Proxy, Junk}, 1), proxies \in 0 .. ProxyHops :
          attempt' = [attempt EXCEPT ![r] =
              [step |-> "guard", process |-> p, class |-> class, credential |-> credential,
               client |-> client, guard |-> 1, reported |-> NONE, counted |-> <<>>, reply |-> NONE,
               identity |-> ResolveClientIdentity(IF proxies = 0 THEN client ELSE Proxy,
                                                  Chain(written, client, proxies))]]
    /\ UNCHANGED <<seconds, failMode, redis, late, store, sweptAt, redisFaults>>

--------------------------------------------------------------------------------
(* The counters *)

Staged(r) ==
    LET a == attempt[r]
        scope == ScopesForClass(a.class)[a.guard]
    IN  <<a.class, scope, IF scope = "ip" THEN a.identity ELSE a.credential>>

(* The Lua script: count, open the window with the first attempt, read it. *)
Incremented(b) ==
    IF redis[b] = NONE \/ redis[b].until <= seconds
    THEN [count |-> 1, until |-> seconds + LimitWindow]
    ELSE [redis[b] EXCEPT !.count = @ + 1]

Limit(b) == Budget[<<b[1], b[2]>>]

(* Mutant: the attempt that exhausts the budget is let through once more.  *)
ConsumptionLoose(b, count, window) ==
    [allowed |-> count <= Limit(b) + 1, bucket |-> b, window |-> window,
     remaining |-> IF count < Limit(b) THEN Limit(b) - count ELSE 0]

(* What one counter says of one attempt, and the window it counted in.     *)
Consumption(b, count, window) ==
    [allowed |-> count <= Limit(b), bucket |-> b, window |-> window,
     remaining |-> IF count < Limit(b) THEN Limit(b) - count ELSE 0]

(* The bucket closest to exhaustion; a rejection reports its own.          *)
Tighter(a, consumption) ==
    \/ a.reported = NONE \/ ~ consumption.allowed
    \/ a.reported.remaining > consumption.remaining

(* enforce() has the consumption of one bucket; the next guard follows.    *)
Consumed(r, consumption) ==
    LET a == attempt[r]
        more == a.guard < Len(ScopesForClass(a.class)) /\ a.credential # NONE
    IN
    attempt' = [attempt EXCEPT ![r] =
        [a EXCEPT !.step = IF ~ consumption.allowed THEN "rejected" ELSE IF more THEN "guard" ELSE "admitted",
                  !.guard = IF consumption.allowed /\ more THEN a.guard + 1 ELSE a.guard,
                  !.reported = IF Tighter(a, consumption) THEN consumption ELSE a.reported,
                  !.counted = Append(a.counted, consumption)]]

Eval(r) ==
    LET b == Staged(r) IN
    /\ attempt[r].step = "guard"
    /\ redis' = [redis EXCEPT ![b] = Incremented(b)]
    /\ attempt' = [attempt EXCEPT ![r].step = "replied", ![r].reply = Incremented(b)]
    /\ UNCHANGED <<seconds, failMode, late, store, sweptAt, redisFaults>>

Reply(r) ==
    LET a == attempt[r] IN
    /\ a.step = "replied"
    /\ Consumed(r, Consumption(Staged(r), a.reply.count, <<"redis", a.reply.until>>))
    /\ UNCHANGED <<seconds, failMode, redis, late, store, sweptAt, redisFaults>>

(* A command that has timed out may still be executed.                     *)
LateEval(b) ==
    /\ late[b] > 0
    /\ late' = [late EXCEPT ![b] = @ - 1]
    /\ redis' = [redis EXCEPT ![b] = Incremented(b)]
    /\ UNCHANGED <<seconds, failMode, store, sweptAt, attempt, redisFaults>>

--------------------------------------------------------------------------------
(* The fallback *)

Running(entry) == seconds - entry.started < LimitWindow

(* The entries whose window still runs, in their order.                    *)
Swept(entries) ==
    LET kept == {i \in DOMAIN entries : Running(entries[i])}
        Nth(n) == CHOOSE i \in kept : Cardinality({j \in kept : j <= i}) = n
    IN  [n \in 1 .. Cardinality(kept) |-> entries[Nth(n)]]

(* evict(): the sweep at most once per interval, then the head of the Map. *)
Evicted(p) ==
    LET kept == IF seconds - sweptAt[p] >= SweepInterval THEN Swept(store[p]) ELSE store[p] IN
    IF Len(kept) >= Ceiling THEN SubSeq(kept, Len(kept) - Ceiling + 2, Len(kept)) ELSE kept

(* consumeInMemory(): a key that is there keeps its place in the Map.      *)
ConsumeInMemory(r) ==
    LET p == attempt[r].process
        b == Staged(r)
        places == {i \in DOMAIN store[p] : store[p][i].bucket = b}
        i == CHOOSE x \in places : TRUE
        current == IF places # {} /\ Running(store[p][i])
                   THEN [store[p][i] EXCEPT !.count = @ + 1]
                   ELSE [bucket |-> b, count |-> 1, started |-> seconds]
        full == places = {} /\ Len(store[p]) >= Ceiling
    IN
    /\ store' = [store EXCEPT ![p] =
          IF places # {} THEN [@ EXCEPT ![i] = current]
          ELSE Append(IF full THEN Evicted(p) ELSE @, current)]
    /\ sweptAt' = [sweptAt EXCEPT ![p] =
          IF full /\ seconds - @ >= SweepInterval THEN seconds ELSE @]
    /\ Consumed(r, Consumption(b, current.count, <<p, current.started + LimitWindow>>))

(* The command fails, or the 250 ms pass: before its execution or after.   *)
Degraded(r) ==
    LET a == attempt[r] IN
    /\ a.step \in {"guard", "replied"} /\ redisFaults < MaxRedisFaults
    /\ redisFaults' = redisFaults + 1
    /\ IF a.step = "guard" THEN late' = late \/ late' = [late EXCEPT ![Staged(r)] = @ + 1]
                          ELSE late' = late
    /\ IF failMode = "closed"
       THEN /\ Consumed(r, Consumption(Staged(r), Limit(Staged(r)) + 1, <<"none", seconds>>))
            /\ UNCHANGED <<store, sweptAt>>
       ELSE ConsumeInMemory(r)
    /\ UNCHANGED <<seconds, failMode, redis>>

(* The second guard stands behind the authentication of the key.           *)
Unauthorized(r) ==
    /\ attempt[r].step = "guard" /\ attempt[r].guard = 2 /\ Staged(r)[2] = "api_key"
    /\ attempt' = [attempt EXCEPT ![r].step = "unauthorized"]
    /\ UNCHANGED <<seconds, failMode, redis, late, store, sweptAt, redisFaults>>

LimiterTick ==
    /\ seconds < MaxSeconds /\ seconds' = seconds + 1
    /\ UNCHANGED <<failMode, redis, late, store, sweptAt, attempt, redisFaults>>

LimiterNext ==
    \/ LimiterTick
    \/ \E b \in Bucket : LateEval(b)
    \/ \E r \in Requests :
          \/ \E p \in Processes, client \in Clients, class \in RouteClasses, credential \in Credentials \cup {NONE} :
                Arrive(r, p, client, class, credential)
          \/ Eval(r) \/ Reply(r) \/ Degraded(r) \/ Unauthorized(r)

LimiterSpec == LimiterInit /\ [][LimiterNext]_limiterVars

--------------------------------------------------------------------------------
(* Properties *)

(* No window of a Redis counter lets more attempts through than its        *)
(* budget, whichever replicas count them and however many commands come    *)
(* late; and nobody is admitted past a bucket that was not counted.        *)
LetThrough(r) ==
    IF attempt[r] = Unborn THEN {} ELSE {c \in Range(attempt[r].counted) : c.allowed /\ c.window[1] = "redis"}

BudgetKept ==
    /\ \A r \in Requests : \A c \in LetThrough(r) :
          Cardinality({s \in Requests : \E x \in LetThrough(s) : x.bucket = c.bucket /\ x.window = c.window}) <= Limit(c.bucket)
    /\ \A r \in Requests : attempt[r].step = "admitted" =>
          LET a == attempt[r]
              n == IF a.credential = NONE THEN 1 ELSE Len(ScopesForClass(a.class))
          IN  [i \in DOMAIN a.counted |-> a.counted[i].bucket[2]] = SubSeq(ScopesForClass(a.class), 1, n)

================================================================================
