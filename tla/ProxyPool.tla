----------------------------- MODULE ProxyPool -----------------------------
(* Proxies of the scraper: one ProxyManager per worker process (pod), whose    *)
(* health map is written through to Redis, without waiting for the answer, and *)
(* refreshed from it every 15 seconds (scraper/proxy/manager.ts,               *)
(* redis-health-store.ts, runtime.ts). Requests to one domain; the handlers of *)
(* a pod have requests in flight at once. A time stamp is modelled by the time *)
(* that is left until it, which every tick lowers to no less than 0: the code  *)
(* only compares stamps with now and with each other, so nothing bounds time.  *)
(* The score of a proxy is left out: nothing reads it to choose one.           *)
EXTENDS Integers, Sequences

CONSTANTS
    Pods,
    HandlersOf,       \* HandlersOf[p]: handlers of pod p, with one request each
    TierOf,           \* TierOf[p]: "datacenter" (http worker) or "residential" (playwright)
    Datacenter,       \* the pools, sequences of proxies
    Residential,
    CooldownMs, StickyMs,
    NoProxy

Tiers == {"datacenter", "residential"}
Pool(tier) == IF tier = "datacenter" THEN Datacenter ELSE Residential
Proxies == {Datacenter[i] : i \in DOMAIN Datacenter} \cup {Residential[i] : i \in DOMAIN Residential}

ASSUME PoolAssumption ==
    /\ Datacenter # <<>> \/ Residential # <<>>
    /\ Datacenter \in Seq(Proxies) /\ Residential \in Seq(Proxies)
    /\ TierOf \in [Pods -> Tiers]
ASSUME TimesAssumption == CooldownMs \in Nat /\ StickyMs \in Nat

Workers == UNION {HandlersOf[p] : p \in Pods}
PodOf(h) == CHOOSE p \in Pods : h \in HandlersOf[p]
FallbackTier(tier) == CHOOSE t \in Tiers : t # tier

VARIABLES
    health,           \* health[p][ip]: what is left of the cooldown in pod p's map
    mirror,           \* proxy:health:{ip} in Redis
    reply,            \* reply[p]: answer of MGET on its way to pod p, <<>> for none
    sticky,           \* sticky[p]: the domain's proxy and what is left of its window
    cursor,           \* cursor[p][tier]
    flight,           \* flight[h]: proxy of handler h's request, NoProxy without one
    banned,           \* history: what is left of a proxy's latest ban on any pod
    known             \* history: the same for the latest result a pod has reported itself

poolVars == <<health, mirror, reply, sticky, cursor, flight, banned, known>>

Later(a, b) == IF a >= b THEN a ELSE b
Less(n) == IF n > 0 THEN n - 1 ELSE 0
Unstuck == [ip |-> NoProxy, left |-> 0]

----------------------------------------------------------------------------
IsHealthy(p, ip) == health[p][ip] = 0

(* pickHealthy: position in the pool, 0 when every proxy of it is cooling. *)
PickHealthy(p, tier) ==
    LET n  == Len(Pool(tier))
        At(offset) == ((cursor[p][tier] + offset) % n) + 1
        ok == {o \in 0..(n - 1) : IsHealthy(p, Pool(tier)[At(o)])}
    IN  IF ok = {} THEN 0 ELSE At(CHOOSE o \in ok : \A q \in ok : o <= q)

PoolInit ==
    /\ health = [p \in Pods |-> [ip \in Proxies |-> 0]]
    /\ mirror = [ip \in Proxies |-> 0]
    /\ reply = [p \in Pods |-> <<>>]
    /\ sticky = [p \in Pods |-> Unstuck]
    /\ cursor = [p \in Pods |-> [t \in Tiers |-> 0]]
    /\ flight = [h \in Workers |-> NoProxy]
    /\ banned = [ip \in Proxies |-> 0]
    /\ known = [p \in Pods |-> [ip \in Proxies |-> 0]]

Start(h, ip) == flight' = [flight EXCEPT ![h] = ip]

(* next, the domain's sticky proxy. *)
ReuseSticky(h) ==
    LET p == PodOf(h) IN
    /\ flight[h] = NoProxy
    /\ sticky[p].left > 0 /\ IsHealthy(p, sticky[p].ip)
    /\ Start(h, sticky[p].ip)
    /\ UNCHANGED <<health, mirror, reply, sticky, cursor, banned, known>>

(* next, the requested tier and then the other one. When both are cooling it   *)
(* throws, and the job is delayed (runtime.ts, selectProxy).                   *)
NextProxy(h) ==
    LET p   == PodOf(h)
        own == PickHealthy(p, TierOf[p])
        tier == IF own > 0 THEN TierOf[p] ELSE FallbackTier(TierOf[p])
        idx  == PickHealthy(p, tier)
        ip   == Pool(tier)[idx]
    IN
    /\ flight[h] = NoProxy
    /\ ~(sticky[p].left > 0 /\ IsHealthy(p, sticky[p].ip))
    /\ \/ /\ idx > 0
          /\ Start(h, ip)
          /\ cursor' = [cursor EXCEPT ![p][tier] = idx % Len(Pool(tier))]
          /\ sticky' = [sticky EXCEPT ![p] = [ip |-> ip, left |-> StickyMs]]
       \/ /\ idx = 0
          /\ sticky' = [sticky EXCEPT ![p] = Unstuck]
          /\ UNCHANGED <<flight, cursor>>
    /\ UNCHANGED <<health, mirror, reply, banned, known>>

(* RedisProxyHealthStore.set: the map at once, Redis if the write arrives. The *)
(* key lives a grace longer than the cooldown, and reads as healthy after it.  *)
SetHealth(p, ip, cooldown, arrives) ==
    /\ health' = [health EXCEPT ![p][ip] = cooldown]
    /\ mirror' = IF arrives THEN [mirror EXCEPT ![ip] = cooldown] ELSE mirror

(* Fault: a ban of a cooling proxy prolongs its cooldown. *)
ReportFailureAdds(h, arrives) ==
    LET p == PodOf(h)
        ip == flight[h]
    IN
    /\ SetHealth(p, ip, Later(CooldownMs, health[p][ip] + 1), arrives)
    /\ sticky' = IF sticky[p].ip = ip THEN [sticky EXCEPT ![p] = Unstuck] ELSE sticky
    /\ banned' = [banned EXCEPT ![ip] = CooldownMs]
    /\ known' = [known EXCEPT ![p][ip] = CooldownMs]

(* reportFailure: 403, 429, a CAPTCHA, or a network error reported as 0. *)
ReportFailure(h, arrives) ==
    LET p == PodOf(h)
        ip == flight[h]
    IN
    /\ SetHealth(p, ip, CooldownMs, arrives)
    /\ sticky' = IF sticky[p].ip = ip THEN [sticky EXCEPT ![p] = Unstuck] ELSE sticky
    /\ banned' = [banned EXCEPT ![ip] = CooldownMs]
    /\ known' = [known EXCEPT ![p][ip] = CooldownMs]

(* reportSuccess: every other status, also when another handler of the pod was *)
(* banned through this proxy in the meantime.                                  *)
ReportSuccess(h, arrives) ==
    LET p == PodOf(h)
        ip == flight[h]
    IN
    /\ SetHealth(p, ip, 0, arrives)
    /\ known' = [known EXCEPT ![p][ip] = 0]
    /\ UNCHANGED <<sticky, banned>>

ReportResult(h) ==
    /\ flight[h] # NoProxy
    /\ flight' = [flight EXCEPT ![h] = NoProxy]
    /\ \E arrives \in BOOLEAN : ReportFailure(h, arrives) \/ ReportSuccess(h, arrives)
    /\ UNCHANGED <<reply, cursor>>

(* refreshOnce, the MGET. An expired key has no cooldown to adopt. *)
RefreshRead(p) ==
    /\ reply[p] = <<>>
    /\ reply' = [reply EXCEPT ![p] = mirror]
    /\ UNCHANGED <<health, mirror, sticky, cursor, flight, banned, known>>

(* Fault: the refreshed value replaces the pod's own. *)
RefreshAdopt(p) ==
    /\ reply[p] # <<>>
    /\ health' = [health EXCEPT ![p] = reply[p]]
    /\ reply' = [reply EXCEPT ![p] = <<>>]
    /\ UNCHANGED <<mirror, sticky, cursor, flight, banned, known>>

(* refreshOnce, the answer: the later cooldown of the two. *)
RefreshMerge(p) ==
    /\ reply[p] # <<>>
    /\ health' = [health EXCEPT ![p] = [ip \in Proxies |-> Later(@[ip], reply[p][ip])]]
    /\ reply' = [reply EXCEPT ![p] = <<>>]
    /\ UNCHANGED <<mirror, sticky, cursor, flight, banned, known>>

PoolTick ==
    LET Tick(f) == [ip \in Proxies |-> Less(f[ip])] IN
    /\ health' = [p \in Pods |-> Tick(health[p])]
    /\ known' = [p \in Pods |-> Tick(known[p])]
    /\ mirror' = Tick(mirror)
    /\ banned' = Tick(banned)
    /\ reply' = [p \in Pods |-> IF reply[p] = <<>> THEN <<>> ELSE Tick(reply[p])]
    /\ sticky' = [p \in Pods |-> IF sticky[p].left > 1 THEN [sticky[p] EXCEPT !.left = @ - 1] ELSE Unstuck]
    /\ UNCHANGED <<cursor, flight>>

PoolNext ==
    \/ PoolTick
    \/ \E h \in Workers : ReuseSticky(h) \/ NextProxy(h) \/ ReportResult(h)
    \/ \E p \in Pods : RefreshRead(p) \/ RefreshMerge(p)

PoolSpec == PoolInit /\ [][PoolNext]_poolVars

----------------------------------------------------------------------------
PoolTypeOK ==
    LET Times == [Proxies -> 0..CooldownMs] IN
    /\ health \in [Pods -> Times] /\ known \in [Pods -> Times]
    /\ banned \in Times /\ mirror \in Times
    /\ reply \in [Pods -> {<<>>} \cup Times]
    /\ sticky \in [Pods -> [ip : Proxies \cup {NoProxy}, left : 0..StickyMs]]
    /\ \A p \in Pods, t \in Tiers : cursor[p][t] \in 0..Len(Pool(t))
    /\ flight \in [Workers -> Proxies \cup {NoProxy}]

(* A pod that was banned through a proxy, and has reported no success through  *)
(* it since, keeps it out of its rotation for the whole cooldown, whatever     *)
(* other pods write to Redis and in whatever order a refresh and the ban come  *)
(* (reportFailure, refreshOnce).                                               *)
BanSticks == \A p \in Pods, ip \in Proxies : health[p][ip] >= known[p][ip]

(* No ban outlives its cooldown: a proxy cools, in a pod, in Redis or in an    *)
(* answer of Redis, at most until the end of the latest ban any pod has had    *)
(* through it, however often the pods pass it to each other; so a pool that    *)
(* is left alone for a cooldown is whole again (reportFailure, refreshOnce).   *)
BanEnds ==
    \A ip \in Proxies :
        /\ mirror[ip] <= banned[ip]
        /\ \A p \in Pods : health[p][ip] <= banned[ip] /\ (reply[p] # <<>> => reply[p][ip] <= banned[ip])
=============================================================================
