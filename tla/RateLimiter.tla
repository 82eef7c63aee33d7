---------------------------- MODULE RateLimiter ----------------------------
(* The two gates an http job passes before it fetches from a domain: the token *)
(* bucket and the crawl delay of robots.txt (scraper/workers/rate-limiter.ts,  *)
(* used by workers/http.ts). Both are Lua scripts, hence atomic, over Redis    *)
(* keys that expire; but the time they work with is Date.now() of the worker,  *)
(* read up to MaxLag before the script runs, so calls may arrive out of order. *)
(* One domain. A delayed job is back to "waiting": it may wake at any time.    *)
EXTENDS Integers

CONSTANTS
    Handlers,      \* concurrent jobs of this domain, in any pods
    Window,        \* WINDOW_MS
    Limits,        \* limits the domain is checked with: default or override, and the Shopify tier
    Delay,         \* Crawl-delay in the domain's robots.txt, 0 for none
    ConfigTtl,     \* TTL_SECONDS of robots.ts
    MaxLag,        \* bound: age of a worker's Date.now() when its script runs
    MaxTime        \* bound: length of a behaviour

ASSUME WindowAssumption == Window \in Nat \ {0}
ASSUME LimitsAssumption == Limits # {} /\ Limits \subseteq Nat \ {0} /\ \E l \in Limits : \A k \in Limits : k <= l
ASSUME DelayAssumption  == Delay \in Nat /\ ConfigTtl \in Nat /\ MaxLag \in Nat /\ MaxTime \in Nat

VARIABLES
    clock,         \* true time
    bucket,        \* ratelimit:{domain}: tokens in 1/Window, ts, and when the key expires
    config,        \* crawl-delay:config:{domain}: when it expires (0: absent)
    last,          \* crawl-delay:last:{domain}: its value and when it expires
    stage,         \* stage[h]: "waiting", "paced" (has a token), "fetching"
    ideal,         \* history: what a bucket without expiry and with the true time would hold
    passed         \* history: true time of the last fetch the crawl gate let through, -1 for none

rateVars == <<clock, bucket, config, last, stage, ideal, passed>>

MaxLimit == CHOOSE l \in Limits : \A k \in Limits : k <= l
Least(a, b)    == IF a <= b THEN a ELSE b
Greatest(a, b) == IF a >= b THEN a ELSE b
Ceil(a, b) == (a + b - 1) \div b

----------------------------------------------------------------------------
(* evaluateTokenBucket: what the bucket holds for a caller whose clock reads t. *)
BucketLive == clock < bucket.until
TokensAt(limit, t) ==
    IF BucketLive THEN Least(limit * Window, bucket.tokens + Greatest(0, (t - bucket.ts) * limit))
                  ELSE limit * Window

(* Fault: rounded down. *)
RetryAfterFloor(limit, tokens) == (Window - tokens) \div limit

RetryAfter(limit, tokens) == Ceil(Window - tokens, limit)

(* Fault: a refused caller leaves the bucket's time as it was, but its tokens refilled. *)
TakeTokenKeepTs(limit, t, allowed) ==
    LET tokens == TokensAt(limit, t)
        again  == (clock - t) * MaxLimit
    IN
    /\ allowed <=> tokens >= Window
    /\ bucket' = [tokens |-> IF allowed THEN tokens - Window ELSE tokens,
                  ts     |-> IF allowed \/ ~BucketLive THEN t ELSE bucket.ts,
                  until  |-> clock + Window]
    /\ ideal' = Least(MaxLimit * Window, ideal - (IF allowed THEN Window ELSE 0) + again)

(* One run of RATE_LIMIT_LUA. A caller whose clock reads t < clock sets ts to  *)
(* t, and the time from t to now may refill the bucket once more.              *)
TakeToken(limit, t, allowed) ==
    LET tokens == TokensAt(limit, t)
        again  == (clock - t) * MaxLimit
    IN
    /\ allowed <=> tokens >= Window
    /\ bucket' = [tokens |-> IF allowed THEN tokens - Window ELSE tokens,
                  ts     |-> t,
                  until  |-> clock + Window]
    /\ ideal' = Least(MaxLimit * Window, ideal - (IF allowed THEN Window ELSE 0) + again)

Readings == {t \in 0..clock : clock - t <= MaxLag}

----------------------------------------------------------------------------
RateInit ==
    /\ clock = 0 /\ passed = -1
    /\ bucket = [tokens |-> 0, ts |-> 0, until |-> 0]
    /\ config = 0
    /\ last = [at |-> 0, until |-> 0]
    /\ stage = [h \in Handlers |-> "waiting"]
    /\ ideal = MaxLimit * Window

(* A probe of the domain has parsed its robots.txt. *)
ParseRobots ==
    /\ Delay > 0
    /\ config' = clock + ConfigTtl
    /\ UNCHANGED <<clock, bucket, last, stage, ideal, passed>>

(* http.ts, step 1: a refused job is moved to delayed. *)
CheckRateLimit(h) ==
    /\ stage[h] = "waiting"
    /\ \E limit \in Limits, t \in Readings, allowed \in BOOLEAN :
         /\ TakeToken(limit, t, allowed)
         /\ stage' = [stage EXCEPT ![h] = IF allowed THEN "paced" ELSE "waiting"]
    /\ UNCHANGED <<clock, config, last, passed>>

(* Fault: the stamp expires after half the delay. *)
CrawlGateShortStamp(t, allowed) ==
    /\ allowed <=> clock >= last.until \/ t - last.at >= Delay
    /\ last' = IF allowed THEN [at |-> t, until |-> clock + Delay \div 2] ELSE last
    /\ passed' = IF allowed THEN clock ELSE passed

(* One run of CRAWL_DELAY_LUA with a positive delay. *)
CrawlGate(t, allowed) ==
    /\ allowed <=> clock >= last.until \/ t - last.at >= Delay
    /\ last' = IF allowed THEN [at |-> t, until |-> clock + 2 * Delay] ELSE last
    /\ passed' = IF allowed THEN clock ELSE passed

(* http.ts, step 1b: the token is spent, whether the job passes or is delayed again. *)
EnforceCrawlDelay(h) ==
    /\ stage[h] = "paced"
    /\ \/ /\ clock < config
          /\ \E t \in Readings, allowed \in BOOLEAN :
               /\ CrawlGate(t, allowed)
               /\ stage' = [stage EXCEPT ![h] = IF allowed THEN "fetching" ELSE "waiting"]
       \/ /\ clock >= config
          /\ stage' = [stage EXCEPT ![h] = "fetching"]
          /\ UNCHANGED <<last, passed>>
    /\ UNCHANGED <<clock, bucket, config, ideal>>

(* http.ts, step 2: the fetch ends; if its headers say Shopify, the bucket is  *)
(* charged again with the Shopify tier, and a refused job is delayed.          *)
Fetched(h) ==
    /\ stage[h] = "fetching"
    /\ stage' = [stage EXCEPT ![h] = "waiting"]
    /\ \/ UNCHANGED <<bucket, ideal>>
       \/ \E t \in Readings, allowed \in BOOLEAN : TakeToken(MaxLimit, t, allowed)
    /\ UNCHANGED <<clock, config, last, passed>>

RateTick ==
    /\ clock < MaxTime
    /\ clock' = clock + 1
    /\ ideal' = Least(MaxLimit * Window, ideal + MaxLimit)
    /\ UNCHANGED <<bucket, config, last, stage, passed>>

RateNext ==
    \/ RateTick
    \/ ParseRobots
    \/ \E h \in Handlers : CheckRateLimit(h) \/ EnforceCrawlDelay(h) \/ Fetched(h)

RateSpec == RateInit /\ [][RateNext]_rateVars

----------------------------------------------------------------------------
RateTypeOK ==
    /\ clock \in 0..MaxTime /\ passed \in -1..MaxTime
    /\ bucket \in [tokens : 0..(MaxLimit * Window), ts : 0..MaxTime, until : 0..(MaxTime + Window)]
    /\ config \in 0..(MaxTime + ConfigTtl)
    /\ last \in [at : 0..MaxTime, until : 0..(MaxTime + 2 * Delay)]
    /\ stage \in [Handlers -> {"waiting", "paced", "fetching"}]
    /\ ideal \in Int

(* What a caller with the true time would find in the bucket. *)
Credit == TokensAt(MaxLimit, clock)

(* The Redis bucket is never more generous than a token bucket that is filled  *)
(* by the true time alone and never expires, plus the time that callers with   *)
(* an older clock make it count twice: so in any window at most a burst of one *)
(* limit and one limit of refill pass, although the key expires after a window *)
(* without a request, and refusals and two tiers write to it (RATE_LIMIT_LUA). *)
RateBound == ideal >= 0 /\ Credit <= ideal

(* The retryAfterMs a refused job is delayed by is exact: left alone, the      *)
(* bucket admits the job then, and not a moment earlier, and the key does not  *)
(* expire before that (evaluateTokenBucket).                                   *)
RetryIsExact ==
    \A limit \in Limits :
        LET tokens == TokensAt(limit, clock)
            wait   == RetryAfter(limit, tokens)
            After(d) == Least(limit * Window, tokens + d * limit)
        IN  tokens < Window => wait > 0 /\ wait <= Window /\ After(wait) >= Window /\ After(wait - 1) < Window

(* While the crawl delay is known, two fetches that the gate lets through are  *)
(* a delay apart, less the age of the first one's clock, whatever the handlers *)
(* and although the stamp expires after two delays (CRAWL_DELAY_LUA).          *)
CrawlSpaced ==
    [][\A h \in Handlers :
         stage[h] = "paced" /\ stage'[h] = "fetching" /\ clock < config /\ passed >= 0
           => clock - passed >= Delay - MaxLag]_rateVars
=============================================================================
