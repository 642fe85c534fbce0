----------------------------- MODULE Configuration -----------------------------
(***************************************************************************)
(* The configuration of the two processes (config/configuration.ts) and    *)
(* the one setting that must hold long after a boot: the destination       *)
(* policy of webhooks (webhooks/webhook-url.ts).                           *)
(*                                                                         *)
(* Operators edit environment variables; the API and the worker each load  *)
(* the environment they find when they boot, or refuse to.  An endpoint is *)
(* registered under the policy of the API and contacted under the policy   *)
(* of a worker that may have booted with another environment.              *)
(*                                                                         *)
(* A variable is absent (NONE) or has a value; an empty value counts as    *)
(* absent.  Secrets are told apart by their length only.  Addresses have   *)
(* V4Bits and V6Bits bits instead of 32 and 128.                           *)
(***************************************************************************)
EXTENDS Integers, FiniteSets, Absence

CONSTANTS
    V4Bits, V6Bits,      \* 32, 128
    V4Floor, V6Floor,    \* MIN_TRUSTED_PROXY_PREFIX, MIN_TRUSTED_PROXY_PREFIX_V6
    V6Seen,              \* the IPv6 addresses operators write
    MaxEdits             \* bound: edits of the environment

ASSUME ConfigurationAssumption ==
    /\ {V4Bits, V6Bits, V4Floor, V6Floor, MaxEdits} \subseteq Nat
    /\ V4Floor <= V4Bits /\ V4Bits < V6Bits /\ V6Floor <= V6Bits
    /\ V6Seen \subseteq 0 .. 2^V6Bits - 1
    /\ NONE \notin {"test", "long", "32 bytes"}

VARIABLES
    concern,     \* the part of the environment the operator of this behaviour edits
    environ,     \* process.env
    edits,
    config,      \* what each process loaded when it booted; NONE while it is down
    endpointHost,    \* the host of the stored endpoint, NONE before it is registered
    contacted    \* the hosts the worker reached since it booted

configurationVars == <<concern, environ, edits, config, endpointHost, contacted>>

--------------------------------------------------------------------------------
(* What an operator can write *)

Unknown == "junk"

MAX_TRUST_PROXY_HOPS == 10
MAX_WEBHOOK_MAX_ATTEMPTS == 20
RECONCILIATION_MIN_AGE_MS == 30000

(* The numbers, by the parser they go through: their default and bounds.   *)
(* The other positive integers differ from RATE_LIMIT_READ_MAX in name and *)
(* default only.                                                           *)
NoCap == 0
Numbers ==
    [PORT                              |-> [fallback |-> 3000, least |-> 1, most |-> 65535],
     TRUST_PROXY_HOPS                  |-> [fallback |-> 0, least |-> 0, most |-> MAX_TRUST_PROXY_HOPS],
     WEBHOOK_MAX_ATTEMPTS              |-> [fallback |-> 5, least |-> 1, most |-> MAX_WEBHOOK_MAX_ATTEMPTS],
     WORKER_METRICS_PORT               |-> [fallback |-> 9464, least |-> 1, most |-> 65535],
     REQUEST_LOG_RETENTION_DAYS        |-> [fallback |-> 30, least |-> 1, most |-> 3650],
     RATE_LIMIT_READ_MAX               |-> [fallback |-> 600, least |-> 1, most |-> NoCap],
     WEBHOOK_RECONCILIATION_HORIZON_MS |-> [fallback |-> 3600000, least |-> 1, most |-> NoCap]]

AroundTheBounds(name) ==
    LET of == Numbers[name] IN
    {NONE, of.least - 1, of.least}
        \cup IF of.most = NoCap THEN {RECONCILIATION_MIN_AGE_MS} ELSE {of.most, of.most + 1}

BitsOf(version) == IF version = 4 THEN V4Bits ELSE V6Bits
(* The prefix of an entry; Bare when it is an address alone, -1 when what  *)
(* follows the slash is no number of bits.                                 *)
Bare == -2
Entries ==
    {[version |-> 4, address |-> a, prefix |-> p] : a \in 0 .. 2^V4Bits - 1, p \in Bare .. V4Bits + 1}
        \cup {[version |-> 6, address |-> a, prefix |-> p] : a \in V6Seen, p \in Bare .. V6Bits + 1}

(* A host as it is spelled: in brackets, with the dot of the root.  In a   *)
(* parsed URL an IPv6 literal stands in brackets, and nothing else does.   *)
Spelled(name, bracketed, dot) == [name |-> name, bracketed |-> bracketed, dot |-> dot]
HostTexts ==
    {Spelled("v6", FALSE, FALSE), Spelled("v6", TRUE, FALSE),
     Spelled("name", FALSE, FALSE), Spelled("name", FALSE, TRUE)}
HostsInUrls == HostTexts \ {Spelled("v6", FALSE, FALSE)}

Writable ==
    [proxies      |-> [TRUST_PROXY_HOPS  |-> AroundTheBounds("TRUST_PROXY_HOPS"),
                       TRUST_PROXY_CIDRS |-> {{}} \cup {{e} : e \in Entries}],
     secrets      |-> [NODE_ENV                        |-> {NONE, "test", "production"},
                       DATABASE_URL                    |-> {NONE, "url"},
                       WEBHOOK_ENCRYPTION_KEY          |-> {NONE, "short", "32 bytes"},
                       WEBHOOK_ALLOW_INSECURE_TEST_KEY |-> {NONE, "true"},
                       JWT_SECRET                      |-> {NONE, "short", "long"}],
     surface      |-> [NODE_ENV             |-> {NONE, "production"},
                       COOKIE_SECURE        |-> {NONE, "true", "false", Unknown},
                       METRICS_ENABLED      |-> {NONE, "true", "false", Unknown},
                       METRICS_PATH         |-> {NONE, "metrics", "no path", "api/v1", "health", "docs", "ops"},
                       SWAGGER_PATH         |-> {NONE, "ops"},
                       METRICS_SCRAPE_TOKEN |-> {NONE, "short", "long"},
                       RATE_LIMIT_FAIL_MODE |-> {NONE, "open", "closed", Unknown}],
     numbers      |-> [name \in DOMAIN Numbers |-> AroundTheBounds(name)],
     destinations |-> [WEBHOOK_DESTINATION_ALLOWLIST |-> {{}} \cup {{host} : host \in HostTexts},
                       WEBHOOK_DESTINATION_DENYLIST  |-> {{}} \cup {{host} : host \in HostTexts}]]

(* A deployment with everything it needs, and a unit suite with nothing.   *)
Silent == [name \in UNION {DOMAIN Writable[part] : part \in DOMAIN Writable} |->
              IF name \in DOMAIN Writable.destinations \cup {"TRUST_PROXY_CIDRS"} THEN {} ELSE NONE]
Deployment == [Silent EXCEPT !.NODE_ENV = "production", !.DATABASE_URL = "url",
                             !.JWT_SECRET = "long", !.WEBHOOK_ENCRYPTION_KEY = "32 bytes"]
UnitSuite == [Silent EXCEPT !.NODE_ENV = "test", !.WEBHOOK_ALLOW_INSECURE_TEST_KEY = "true"]

--------------------------------------------------------------------------------
(* The parsers *)

Given(env, name, fallback) == IF env[name] = NONE THEN fallback ELSE env[name]

(* parsePortNamed, parsePositiveInt, parseBoundedInt and                   *)
(* parseBoundedNonNegativeInt.  A value that is no integer fares like one  *)
(* below the bounds.                                                       *)
parseInt(env, name) == Given(env, name, Numbers[name].fallback)
InBounds(env, name) ==
    LET of == Numbers[name] IN
    /\ parseInt(env, name) >= of.least
    /\ of.most # NoCap => parseInt(env, name) <= of.most

IsBoolean(env, name) == env[name] \in {NONE, "true", "false"}
parseBoolean(env, name, fallback) == IF env[name] = NONE THEN fallback ELSE env[name] = "true"

(* net.BlockList: the addresses that share the prefix.                     *)
Subnet(version, address, prefix) ==
    LET size == 2^(BitsOf(version) - prefix) IN
    {a \in 0 .. 2^BitsOf(version) - 1 : a \div size = address \div size}

(* ::ffff:0:0/96, the IPv4 addresses spelled as IPv6.                      *)
IPV4_MAPPED_PREFIX == V6Bits - V4Bits
IPV4_MAPPED_START == 2^V4Bits
Mapped == Subnet(6, IPV4_MAPPED_START, IPV4_MAPPED_PREFIX)

(* Mutant: only the entries inside the mapped range are looked at.         *)
InsideOnly(address, prefix) ==
    prefix >= IPV4_MAPPED_PREFIX =>
        address \notin Mapped \/ prefix - IPV4_MAPPED_PREFIX >= V4Floor

(* An entry inside the mapped range implies an IPv4 range and answers to   *)
(* the IPv4 floor; a shorter one must not reach in.                        *)
NarrowerThanIpv4Space(address, prefix) ==
    IF prefix >= IPV4_MAPPED_PREFIX
    THEN address \in Mapped => prefix - IPV4_MAPPED_PREFIX >= V4Floor
    ELSE IPV4_MAPPED_START \notin Subnet(6, address, prefix)

TrustedProxy(entry) ==
    \/ entry.prefix = Bare
    \/ /\ entry.prefix \in 0 .. BitsOf(entry.version)
       /\ entry.prefix >= IF entry.version = 4 THEN V4Floor ELSE V6Floor
       /\ entry.version = 6 => NarrowerThanIpv4Space(entry.address, entry.prefix)

(* A bare address is a block of one.                                       *)
parseTrustedProxyCidrs(entries) ==
    {[entry EXCEPT !.prefix = IF @ = Bare THEN BitsOf(entry.version) ELSE @] : entry \in entries}

RateLimitLoads(env) ==
    /\ InBounds(env, "TRUST_PROXY_HOPS")
    /\ \A entry \in env.TRUST_PROXY_CIDRS : TrustedProxy(entry)
    /\ parseInt(env, "TRUST_PROXY_HOPS") > 0 => env.TRUST_PROXY_CIDRS # {}
    /\ InBounds(env, "RATE_LIMIT_READ_MAX")
    /\ env.RATE_LIMIT_FAIL_MODE \in {NONE, "open", "closed"}

parseMetricsPath(env) == Given(env, "METRICS_PATH", "metrics")
MetricsLoad(env) ==
    /\ IsBoolean(env, "METRICS_ENABLED")
    /\ parseMetricsPath(env) \notin {"no path", "api/v1", "health", Given(env, "SWAGGER_PATH", "docs")}
    /\ env.METRICS_SCRAPE_TOKEN # "short"

(* A suite runs without a secret, and with any.                            *)
JwtResolves(env) == env.NODE_ENV = "test" \/ env.JWT_SECRET = "long"
resolveJwtSecret(env) == Given(env, "JWT_SECRET", "published")

AllowsInsecureTestKey(env) ==
    env.WEBHOOK_ALLOW_INSECURE_TEST_KEY = "true" /\ env.DATABASE_URL = NONE
EncryptionKeyResolves(env) ==
    \/ env.WEBHOOK_ENCRYPTION_KEY = "32 bytes"
    \/ env.WEBHOOK_ENCRYPTION_KEY = NONE /\ AllowsInsecureTestKey(env)
resolveWebhookEncryptionKey(env) == Given(env, "WEBHOOK_ENCRYPTION_KEY", "published")

(* provideDeliveryPolicy; both processes build it.                         *)
DeliveryPolicyBuilds(env) ==
    parseInt(env, "WEBHOOK_RECONCILIATION_HORIZON_MS") > RECONCILIATION_MIN_AGE_MS

canonicalizeWebhookHost(host) == [host EXCEPT !.bracketed = FALSE, !.dot = FALSE]
parseHostList(hosts) == {canonicalizeWebhookHost(host) : host \in hosts}

Loads(env) ==
    /\ \A name \in DOMAIN Numbers : InBounds(env, name)
    /\ JwtResolves(env)
    /\ IsBoolean(env, "COOKIE_SECURE")
    /\ EncryptionKeyResolves(env)
    /\ RateLimitLoads(env)
    /\ MetricsLoad(env)
    /\ DeliveryPolicyBuilds(env)

loadConfiguration(env) ==
    LET nodeEnv == Given(env, "NODE_ENV", "development") IN
    [nodeEnv     |-> nodeEnv,
     databaseUrl |-> Given(env, "DATABASE_URL", "localhost"),
     jwt         |-> resolveJwtSecret(env),
     secretKey   |-> resolveWebhookEncryptionKey(env),
     cookieSecure |-> parseBoolean(env, "COOKIE_SECURE", nodeEnv = "production"),
     metrics     |-> [enabled |-> parseBoolean(env, "METRICS_ENABLED", nodeEnv # "production"),
                      path    |-> parseMetricsPath(env),
                      token   |-> env.METRICS_SCRAPE_TOKEN],
     failMode    |-> Given(env, "RATE_LIMIT_FAIL_MODE", "open"),
     hops        |-> parseInt(env, "TRUST_PROXY_HOPS"),
     proxies     |-> parseTrustedProxyCidrs(env.TRUST_PROXY_CIDRS),
     maxAttempts |-> parseInt(env, "WEBHOOK_MAX_ATTEMPTS"),
     allowlist   |-> parseHostList(env.WEBHOOK_DESTINATION_ALLOWLIST),
     denylist    |-> parseHostList(env.WEBHOOK_DESTINATION_DENYLIST)]

--------------------------------------------------------------------------------
(* Operators and processes *)

Daemons == {"api", "worker"}

ConfigurationTypeOK ==
    /\ concern \in DOMAIN Writable
    /\ DOMAIN environ = DOMAIN Silent /\ edits \in 0 .. MaxEdits
    /\ DOMAIN config = Daemons
    /\ endpointHost \in HostsInUrls \cup {NONE}
    /\ contacted \subseteq HostsInUrls
    /\ config["worker"] = NONE => contacted = {}

ConfigurationInit ==
    /\ concern \in DOMAIN Writable
    /\ environ \in {Deployment, UnitSuite}
    /\ environ = UnitSuite => concern = "secrets"
    /\ edits = 0
    /\ config = [daemon \in Daemons |-> NONE]
    /\ endpointHost = NONE /\ contacted = {}

Edit ==
    /\ edits < MaxEdits /\ edits' = edits + 1
    /\ \E name \in DOMAIN Writable[concern] : \E value \in Writable[concern][name] :
           environ' = [environ EXCEPT ![name] = value]
    /\ UNCHANGED <<concern, config, endpointHost, contacted>>

(* A process starts, or starts again; without a valid environment it does  *)
(* not come up.                                                            *)
Boot(daemon) ==
    /\ config' = [config EXCEPT ![daemon] = IF Loads(environ) THEN loadConfiguration(environ) ELSE NONE]
    /\ contacted' = IF daemon = "worker" THEN {} ELSE contacted
    /\ UNCHANGED <<concern, environ, edits, endpointHost>>

(* Exact hosts, canonical on both sides; the allowlist wins.               *)
DestinationAllowed(host, policy) ==
    IF policy.allowlist # {}
    THEN canonicalizeWebhookHost(host) \in policy.allowlist
    ELSE canonicalizeWebhookHost(host) \notin policy.denylist

(* validateWebhookUrl.  The URL is http(s), has a host, and has neither    *)
(* credentials nor a fragment, or it is refused and nothing changes.       *)
RegisterEndpoint ==
    /\ concern = "destinations"
    /\ config["api"] # NONE
    /\ \E host \in HostsInUrls :
           /\ DestinationAllowed(host, config["api"])
           /\ endpointHost' = host
    /\ UNCHANGED <<concern, environ, edits, config, contacted>>

(* Mutant: what was allowed at the registration is allowed.                *)
AlwaysContact(host) == TRUE

MayContact(host) == DestinationAllowed(host, config["worker"])

(* attempt().  A denied host ends the delivery without a request: what it  *)
(* records is in WebhookDelivery.                                          *)
Contact ==
    /\ config["worker"] # NONE
    /\ endpointHost # NONE
    /\ MayContact(endpointHost)
    /\ contacted' = contacted \cup {endpointHost}
    /\ UNCHANGED <<concern, environ, edits, config, endpointHost>>

ConfigurationNext == Edit \/ (\E daemon \in Daemons : Boot(daemon)) \/ RegisterEndpoint \/ Contact

ConfigurationSpec == ConfigurationInit /\ [][ConfigurationNext]_configurationVars

--------------------------------------------------------------------------------
(* Properties *)

(* The IPv4 peers an entry puts behind the proxy gate, in either notation. *)
TrustedPeers(entry) ==
    LET block == Subnet(entry.version, entry.address, entry.prefix) IN
    IF entry.version = 4 THEN block ELSE {a \in 0 .. 2^V4Bits - 1 : IPV4_MAPPED_START + a \in block}

(* A configuration that gives nothing away: no entry of the proxy list     *)
(* trusts more IPv4 peers than the floor allows, however the entry is      *)
(* spelled; forwarded headers are read only from listed proxies; and a     *)
(* secret that is printed in the repository signs nothing outside a test   *)
(* and encrypts nothing in a database somebody named.                      *)
GivesNothingAway(c) ==
    /\ \A entry \in c.proxies : Cardinality(TrustedPeers(entry)) <= 2^(V4Bits - V4Floor)
    /\ c.hops > 0 => c.proxies # {}
    /\ c.jwt = "published" => c.nodeEnv = "test"
    /\ c.secretKey = "published" => c.databaseUrl = "localhost"

(* No process runs on an environment that gives it away.                   *)
(* (config/configuration.ts 415-518, 637-677, 761-770)                        *)
BootedIsSafe ==
    \A daemon \in Daemons : config[daemon] # NONE => GivesNothingAway(config[daemon])

(* The worker reaches only hosts that its own lists permit, whatever API   *)
(* registered the endpoint, under whatever lists, and however the host is  *)
(* spelled in the URL and in the lists.                                    *)
(* (webhooks/webhook-delivery.service.ts 107-131)                          *)
ReachesOnlyAllowed ==
    \A host \in contacted :
        LET names(list) == {listed.name : listed \in list} IN
        IF config["worker"].allowlist # {}
        THEN host.name \in names(config["worker"].allowlist)
        ELSE host.name \notin names(config["worker"].denylist)
================================================================================
