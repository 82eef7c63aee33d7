----------------------------- MODULE NodeProofs ------------------------------
(***************************************************************************)
(* What the processes of the system share through expiring keys of Redis,  *)
(* for all values of the constants: the gates of the http worker, the proxy*)
(* pool, and the signals of a merchant's cycles.                           *)
(***************************************************************************)
EXTENDS MCNode, FiniteSetTheorems, SequenceTheorems, WellFoundedInduction, TLAPS

----------------------------------------------------------------------------
(* The two gates keep their rate for every window, set of limits, delay and*)
(* age of the workers' clocks: the Redis bucket against the ideal one, and *)
(* the crawl delay.                                                        *)

LEMMA MaxLimitIsMax == MaxLimit \in Nat /\ MaxLimit \in Limits /\ \A l \in Limits : l <= MaxLimit
BY LimitsAssumption DEF MaxLimit

LEMMA ProductGrows ==
    ASSUME NEW a \in Int, NEW b \in Int, a <= b, NEW m \in Nat
    PROVE  a * m <= b * m
OBVIOUS

\* What a bucket of limit l holds after d periods, from n.
Filled(l, n, d) == Least(l * Window, n + d * l)

LEMMA FilledGrows ==
    ASSUME NEW k \in Nat, NEW l \in Nat, k <= l, NEW n \in Nat, NEW d \in Nat, NEW e \in Nat, d <= e
    PROVE  Filled(k, n, d) \in Nat /\ Filled(k, n, d) <= Filled(l, n, e)
<1>1. Window \in Nat
  BY WindowAssumption
<1>2. k * Window <= l * Window /\ k * Window \in Nat /\ l * Window \in Nat
  BY <1>1, ProductGrows
<1>3. d * k <= d * l /\ d * l <= e * l /\ d * k \in Nat /\ d * l \in Nat /\ e * l \in Nat
  BY ProductGrows
<1> QED
  BY <1>2, <1>3 DEF Filled, Least

\* The key never expires before the bucket is full again.
Stamps ==
    /\ clock \in Nat
    /\ bucket \in [tokens : Nat, ts : Nat, until : Nat]
    /\ bucket.ts <= clock
    /\ bucket.until > 0 => bucket.ts + Window <= bucket.until

RateInv == Stamps /\ ideal \in Int /\ RateBound

\* A caller with an older clock or a lower limit finds no more than Credit.
LEMMA TokensBelowCredit ==
    ASSUME Stamps, NEW limit \in Limits, NEW t \in 0..clock
    PROVE  TokensAt(limit, t) \in Nat /\ TokensAt(limit, t) <= Credit /\ Credit \in Nat
<1> DEFINE lag == Greatest(0, t - bucket.ts)
<1>1. /\ limit \in Nat /\ limit <= MaxLimit /\ MaxLimit \in Nat /\ Window \in Nat
      /\ bucket.tokens \in Nat /\ bucket.ts \in Nat /\ clock \in Nat /\ bucket.ts <= clock
  BY LimitsAssumption, WindowAssumption, MaxLimitIsMax DEF Stamps
<1>2. lag \in Nat /\ clock - bucket.ts \in Nat /\ lag <= clock - bucket.ts
  BY <1>1 DEF Greatest
<1>3. /\ limit * Window \in Nat /\ limit * Window <= MaxLimit * Window
      /\ MaxLimit * Window \in Nat
  BY <1>1, ProductGrows
<1>4. CASE BucketLive
  <2>1. Greatest(0, (t - bucket.ts) * limit) = lag * limit
    <3>1. CASE t >= bucket.ts
      <4>1. (t - bucket.ts) * limit >= 0
        BY <1>1, <3>1, ProductGrows
      <4> QED
        BY <1>1, <3>1, <4>1 DEF Greatest
    <3>2. CASE t < bucket.ts
      <4>1. (t - bucket.ts) * limit <= 0
        BY <1>1, <3>2, ProductGrows
      <4>2. lag = 0
        BY <1>1, <3>2 DEF Greatest
      <4> QED
        BY <1>1, <4>1, <4>2 DEF Greatest
    <3> QED
      BY <1>1, <3>1, <3>2
  <2>2. Greatest(0, (clock - bucket.ts) * MaxLimit) = (clock - bucket.ts) * MaxLimit
    <3>1. (clock - bucket.ts) * MaxLimit >= 0
      BY <1>1, <1>2, ProductGrows
    <3> QED
      BY <1>1, <3>1 DEF Greatest
  <2>3. TokensAt(limit, t) = Filled(limit, bucket.tokens, lag)
    BY <1>4, <2>1 DEF TokensAt, Filled
  <2>4. Credit = Filled(MaxLimit, bucket.tokens, clock - bucket.ts)
    BY <1>4, <2>2 DEF Credit, TokensAt, Filled
  <2> HIDE DEF lag
  <2>5. /\ Filled(limit, bucket.tokens, lag) \in Nat
        /\ Filled(limit, bucket.tokens, lag)
             <= Filled(MaxLimit, bucket.tokens, clock - bucket.ts)
    BY <1>1, <1>2, FilledGrows
  <2>6. Filled(MaxLimit, bucket.tokens, clock - bucket.ts) \in Nat
    <3>1. PICK d \in Nat : d = clock - bucket.ts
      BY <1>2
    <3>2. MaxLimit <= MaxLimit /\ d <= d
      BY <1>1
    <3>3. Filled(MaxLimit, bucket.tokens, d) \in Nat
      BY <1>1, <3>2, FilledGrows
    <3> QED
      BY <3>1, <3>3
  <2> QED
    BY <2>3, <2>4, <2>5, <2>6
<1>5. CASE ~BucketLive
  BY <1>3, <1>5 DEF TokensAt, Credit
<1> QED
  BY <1>4, <1>5

\* One run of the script.
LEMMA TakeTokenBound ==
    ASSUME RateInv, NEW limit \in Limits, NEW t \in Readings, NEW allowed \in BOOLEAN,
           TakeToken(limit, t, allowed), clock' = clock
    PROVE  RateInv'
<1> DEFINE tokens == TokensAt(limit, t)
           again  == (clock - t) * MaxLimit
           spent  == IF allowed THEN Window ELSE 0
<1>1. /\ t \in Nat /\ t <= clock /\ clock \in Nat /\ Window \in Nat /\ Window >= 1
      /\ MaxLimit \in Nat /\ ideal \in Int /\ Credit <= ideal
      /\ tokens \in Nat /\ tokens <= Credit /\ Credit \in Nat
  BY TokensBelowCredit, WindowAssumption, MaxLimitIsMax DEF RateInv, RateBound, Stamps, Readings
<1>2. again \in Nat /\ MaxLimit * Window \in Nat
  <2>1. clock - t \in Nat
    BY <1>1
  <2> QED
    BY <1>1, <2>1
<1>3. tokens - spent \in Nat /\ spent \in Nat
  BY <1>1 DEF TakeToken
<1>4. /\ bucket' = [tokens |-> tokens - spent, ts |-> t, until |-> clock + Window]
      /\ ideal' = Least(MaxLimit * Window, ideal - spent + again)
  BY <1>1 DEF TakeToken
<1>5. Stamps'
  BY <1>1, <1>3, <1>4 DEF Stamps
<1>6. Credit' = Least(MaxLimit * Window, tokens - spent + again)
  <2>1. BucketLive'
    BY <1>1, <1>4 DEF BucketLive
  <2>2. Greatest(0, (clock - t) * MaxLimit) = again
    BY <1>2 DEF Greatest
  <2>3. bucket'.tokens = tokens - spent /\ bucket'.ts = t
    BY <1>4
  <2>4. MaxLimit' = MaxLimit
    BY DEF MaxLimit
  <2>5. Credit' = Least(MaxLimit * Window, bucket'.tokens + Greatest(0, (clock - t) * MaxLimit))
    BY <2>1, <2>3, <2>4 DEF Credit, TokensAt
  <2> QED
    BY <2>2, <2>3, <2>5
<1> HIDE DEF tokens, again, spent
<1>7. ideal' \in Int /\ ideal' >= 0 /\ Credit' <= ideal'
  BY <1>1, <1>2, <1>3, <1>4, <1>6 DEF Least
<1> QED
  BY <1>5, <1>7 DEF RateInv, RateBound

\* A period passes; when the key expires with it the bucket was full anyway.
LEMMA TickBound ==
    ASSUME RateInv, RateTick
    PROVE  RateInv'
<1>1. /\ clock \in Nat /\ clock' = clock + 1 /\ bucket' = bucket /\ MaxLimit \in Nat
      /\ Window \in Nat /\ bucket.tokens \in Nat /\ bucket.ts \in Nat /\ bucket.until \in Nat
      /\ bucket.ts <= clock /\ ideal \in Int /\ ideal >= 0 /\ Credit <= ideal
      /\ bucket.until > 0 => bucket.ts + Window <= bucket.until
  BY WindowAssumption, MaxLimitIsMax DEF RateInv, RateBound, Stamps, RateTick
<1>2. ideal' = Least(MaxLimit * Window, ideal + MaxLimit) /\ MaxLimit * Window \in Nat
  BY <1>1 DEF RateTick
<1>3. Stamps'
  BY <1>1 DEF RateInv, Stamps
<1>4. PICK age \in Nat : age = clock - bucket.ts
  BY <1>1
<1>5. /\ age * MaxLimit \in Nat /\ (age + 1) * MaxLimit = age * MaxLimit + MaxLimit
      /\ clock' - bucket.ts = age + 1
  BY <1>1, <1>4
<1>6. BucketLive => Credit = Least(MaxLimit * Window, bucket.tokens + age * MaxLimit)
  BY <1>4, <1>5 DEF Credit, TokensAt, Greatest
<1>7. ~BucketLive => Credit = MaxLimit * Window
  BY DEF Credit, TokensAt
<1>8. Credit' <= ideal'
  <2>1. CASE BucketLive'
    <3>1. BucketLive
      BY <1>1, <2>1 DEF BucketLive
    <3>2. Greatest(0, (age + 1) * MaxLimit) = age * MaxLimit + MaxLimit
      BY <1>1, <1>5 DEF Greatest
    <3>3. Credit' = Least(MaxLimit * Window, bucket.tokens + Greatest(0, (age + 1) * MaxLimit))
      <4>1. Credit' = Least(MaxLimit * Window,
                            bucket'.tokens + Greatest(0, (clock' - bucket'.ts) * MaxLimit))
        BY <2>1 DEF Credit, TokensAt, MaxLimit
      <4> QED
        BY <1>1, <1>5, <4>1
    <3> QED
      BY <1>1, <1>2, <1>5, <1>6, <3>1, <3>2, <3>3 DEF Least
  <2>2. CASE ~BucketLive'
    <3>1. Credit' = MaxLimit * Window
      BY <2>2 DEF Credit, TokensAt, MaxLimit
    <3>2. CASE ~BucketLive
      BY <1>1, <1>2, <1>7, <3>1, <3>2 DEF Least
    <3>3. CASE BucketLive
      <4>1. Window <= age + 1
        BY <1>1, <1>4, <2>2, <3>3 DEF BucketLive
      <4>2. MaxLimit * Window <= age * MaxLimit + MaxLimit
        <5>1. Window * MaxLimit <= (age + 1) * MaxLimit
          BY <1>1, <1>4, <4>1, ProductGrows
        <5> QED
          BY <1>1, <1>5, <5>1
      <4> QED
        BY <1>1, <1>2, <1>5, <1>6, <3>1, <3>3, <4>2 DEF Least
    <3> QED
      BY <3>2, <3>3
  <2> QED
    BY <2>1, <2>2
<1>9. ideal' \in Int /\ ideal' >= 0
  BY <1>1, <1>2 DEF Least
<1> QED
  BY <1>3, <1>8, <1>9 DEF RateInv, RateBound

LEMMA RateStep ==
    ASSUME RateInv, [RateNext]_rateVars
    PROVE  RateInv'
<1>1. CASE RateTick
  BY <1>1, TickBound
<1>2. ASSUME UNCHANGED <<clock, bucket, ideal>>
      PROVE  RateInv'
  BY <1>2 DEF RateInv, RateBound, Stamps, Credit, TokensAt, BucketLive, MaxLimit
<1>3. ASSUME NEW h \in Handlers, CheckRateLimit(h)
      PROVE  RateInv'
  BY <1>3, TakeTokenBound DEF CheckRateLimit
<1>4. ASSUME NEW h \in Handlers, Fetched(h)
      PROVE  RateInv'
  BY <1>2, <1>4, TakeTokenBound, MaxLimitIsMax DEF Fetched
<1>5. ASSUME NEW h \in Handlers, EnforceCrawlDelay(h)
      PROVE  RateInv'
  BY <1>2, <1>5 DEF EnforceCrawlDelay
<1> QED
  BY <1>1, <1>2, <1>3, <1>4, <1>5 DEF RateNext, ParseRobots, rateVars

LEMMA RateInvariant == RateSpec => []RateInv
<1>1. RateInit => RateInv
  <2> SUFFICES ASSUME RateInit
               PROVE  RateInv
    OBVIOUS
  <2>1. MaxLimit * Window \in Nat
    BY MaxLimitIsMax, WindowAssumption
  <2>2. Credit = MaxLimit * Window
    BY DEF RateInit, Credit, TokensAt, BucketLive
  <2> QED
    BY <2>1, <2>2 DEF RateInit, RateInv, RateBound, Stamps
<1> QED
  BY <1>1, RateStep, PTL DEF RateSpec

\* The Redis bucket is never more generous than one that never expires and is
\* filled by the true time, but for the time that older clocks count twice.
THEOREM RateBounded == RateSpec => []RateBound
<1>1. RateInv => RateBound
  BY DEF RateInv
<1> QED
  BY <1>1, RateInvariant, PTL

-----------------------------------------------------------------------------
LEMMA CeilIsLeast ==
    ASSUME NEW a \in Nat, a > 0, NEW b \in Nat, b > 0
    PROVE  /\ Ceil(a, b) \in Nat /\ Ceil(a, b) > 0 /\ Ceil(a, b) <= a
           /\ Ceil(a, b) * b >= a /\ (Ceil(a, b) - 1) * b < a
<1>1. PICK q \in Int : q = (a + b - 1) \div b
  OBVIOUS
<1>2. b * q <= a + b - 1 /\ a + b - 1 < b * q + b
  BY <1>1
<1>3. q > 0
  <2>1. ASSUME q <= 0
        PROVE  b * q <= 0
    BY <2>1, ProductGrows
  <2> QED
    BY <1>2, <2>1
<1>4. q <= a
  <2>1. ASSUME q >= a + 1
        PROVE  (a + 1) * b <= q * b
    BY <2>1, ProductGrows
  <2>2. (a + 1) * b = a * b + b /\ a * 1 <= a * b
    OBVIOUS
  <2> QED
    BY <1>2, <2>1, <2>2
<1> QED
  BY <1>1, <1>2, <1>3, <1>4 DEF Ceil

\* A refused job that comes back when it was told to is admitted, and a moment
\* earlier it would not be.
THEOREM RetryExact == RateSpec => []RetryIsExact
<1>1. ASSUME RateInv, NEW limit \in Limits, TokensAt(limit, clock) < Window
      PROVE  LET tokens == TokensAt(limit, clock)
                 wait   == RetryAfter(limit, tokens)
                 After(d) == Least(limit * Window, tokens + d * limit)
             IN  wait > 0 /\ wait <= Window /\ After(wait) >= Window /\ After(wait - 1) < Window
  <2>1. PICK tokens \in Nat : tokens = TokensAt(limit, clock)
    <3>1. Stamps /\ clock \in 0..clock
      BY <1>1 DEF RateInv, Stamps
    <3>2. TokensAt(limit, clock) \in Nat
      BY <3>1, TokensBelowCredit
    <3> QED
      BY <3>2
  <2>2. limit \in Nat /\ limit > 0 /\ Window \in Nat /\ Window - tokens \in Nat /\ Window - tokens > 0
    BY <1>1, <2>1, LimitsAssumption, WindowAssumption
  <2>3. PICK wait : wait = RetryAfter(limit, tokens)
    OBVIOUS
  <2>4. /\ wait \in Nat /\ wait > 0 /\ wait <= Window - tokens
        /\ wait * limit >= Window - tokens /\ (wait - 1) * limit < Window - tokens
    BY <2>2, <2>3, CeilIsLeast DEF RetryAfter
  <2>5. 1 * Window <= limit * Window /\ limit * Window \in Nat
    BY <2>2, ProductGrows
  <2>6. wait * limit \in Int /\ (wait - 1) * limit \in Int
    BY <2>2, <2>4
  <2>7. Least(limit * Window, tokens + wait * limit) >= Window
    BY <2>2, <2>4, <2>5, <2>6 DEF Least
  <2>8. Least(limit * Window, tokens + (wait - 1) * limit) < Window
    BY <2>2, <2>4, <2>5, <2>6 DEF Least
  <2>9. wait > 0 /\ wait <= Window
    BY <2>2, <2>4
  <2> QED
    BY <2>1, <2>3, <2>7, <2>8, <2>9
<1>2. RateInv => RetryIsExact
  BY <1>1 DEF RetryIsExact
<1> QED
  BY <1>2, RateInvariant, PTL
-----------------------------------------------------------------------------
\* The stamp of the crawl gate is the time of the last pass, as its caller read
\* it, and outlives it by two delays.
CrawlInv ==
    /\ clock \in Nat /\ last.at \in Nat /\ last.until \in Nat /\ passed \in Int
    /\ config \in Nat
    /\ passed >= 0 => last.at >= passed - MaxLag /\ last.until = passed + 2 * Delay

LEMMA CrawlStep ==
    ASSUME CrawlInv, [RateNext]_rateVars
    PROVE  /\ CrawlInv'
           /\ \A h \in Handlers :
                 stage[h] = "paced" /\ stage'[h] = "fetching" /\ clock < config /\ passed >= 0
                   => clock - passed >= Delay - MaxLag
<1> DEFINE Spaced == \A h \in Handlers :
                        stage[h] = "paced" /\ stage'[h] = "fetching" /\ clock < config /\ passed >= 0
                          => clock - passed >= Delay - MaxLag
<1>1. CASE RateTick
  BY <1>1 DEF RateTick, CrawlInv
<1>2. CASE ParseRobots
  BY <1>2, DelayAssumption DEF ParseRobots, CrawlInv
<1>3. ASSUME NEW h \in Handlers, CheckRateLimit(h) \/ Fetched(h)
      PROVE  CrawlInv' /\ Spaced
  <2>1. PICK s \in {"paced", "waiting"} : stage' = [stage EXCEPT ![h] = s]
    BY <1>3 DEF CheckRateLimit, Fetched
  <2>2. UNCHANGED <<clock, last, passed, config>>
    BY <1>3 DEF CheckRateLimit, Fetched
  <2> QED
    BY <2>1, <2>2 DEF CrawlInv
<1>4. ASSUME NEW h \in Handlers, EnforceCrawlDelay(h)
      PROVE  CrawlInv' /\ Spaced
  <2>1. CASE clock >= config /\ UNCHANGED <<clock, last, passed>>
    BY <1>4, <2>1 DEF CrawlInv, EnforceCrawlDelay
  <2>2. ASSUME clock < config, NEW t \in Readings, NEW allowed \in BOOLEAN, CrawlGate(t, allowed),
               stage' = [stage EXCEPT ![h] = IF allowed THEN "fetching" ELSE "waiting"]
        PROVE  CrawlInv' /\ Spaced
    <3>1. /\ t \in Nat /\ t <= clock /\ clock - t <= MaxLag /\ clock' = clock /\ Delay \in Nat
          /\ config \in Nat /\ config' = config /\ MaxLag \in Nat /\ clock \in Nat
      BY <1>4, <2>2, DelayAssumption DEF Readings, EnforceCrawlDelay, CrawlInv
    <3>2. CASE allowed
      <4>1. /\ clock >= last.until \/ t - last.at >= Delay
            /\ last' = [at |-> t, until |-> clock + 2 * Delay] /\ passed' = clock
        BY <2>2, <3>2 DEF CrawlGate
      <4>2. CrawlInv'
        BY <3>1, <4>1 DEF CrawlInv
      <4>3. passed >= 0 => clock - passed >= Delay - MaxLag
        BY <3>1, <4>1 DEF CrawlInv
      <4> QED
        BY <4>2, <4>3
    <3>3. CASE ~allowed
      BY <2>2, <3>1, <3>3 DEF CrawlGate, CrawlInv
    <3> QED
      BY <3>2, <3>3
  <2> QED
    BY <1>4, <2>1, <2>2 DEF EnforceCrawlDelay
<1>5. CASE UNCHANGED rateVars
  BY <1>5 DEF rateVars, CrawlInv
<1> QED
  BY <1>1, <1>2, <1>3, <1>4, <1>5 DEF RateNext

\* Fetches through the crawl gate are a delay apart, less the age of a clock.
THEOREM CrawlIsSpaced == RateSpec => CrawlSpaced
<1>1. RateInit => CrawlInv
  BY DEF RateInit, CrawlInv
<1> QED
  BY <1>1, CrawlStep, PTL DEF RateSpec, CrawlSpaced

----------------------------------------------------------------------------
(* A ban neither wears off early nor lives on: BanSticks and BanEnds are   *)
(* inductive together with the ranges of the times, for all pods, tiers,   *)
(* pools and cooldowns.  Which proxy a handler takes does not matter.      *)

Times == [Proxies -> 0..CooldownMs]

\* The part of PoolTypeOK that speaks of cooldowns.
Cooldowns ==
    /\ health \in [Pods -> Times] /\ known \in [Pods -> Times]
    /\ banned \in Times /\ mirror \in Times
    /\ reply \in [Pods -> {<<>>} \cup Times]

BanInv == Cooldowns /\ BanSticks /\ BanEnds

\* The passing of time keeps a time in its range and two times in their order.
LEMMA LessTime ==
    ASSUME NEW m \in 0..CooldownMs, NEW n \in 0..CooldownMs
    PROVE  Less(m) \in 0..CooldownMs /\ (m <= n => Less(m) <= Less(n))
BY TimesAssumption DEF Less

\* A ban reported by a handler: the pod's map, the latest ban and the latest
\* report are set together, and Redis if the write arrives.
LEMMA FailureKeepsBans ==
    ASSUME BanInv, NEW h \in Workers, NEW arrives \in BOOLEAN, ReportFailure(h, arrives),
           UNCHANGED reply
    PROVE  BanInv'
<1> DEFINE p == PodOf(h)
           ip == flight[h]
<1>1. PICK n : n = CooldownMs
  OBVIOUS
<1>a. n \in 0..CooldownMs
  BY <1>1, TimesAssumption
<1>2. /\ health' = [health EXCEPT ![p][ip] = n]
      /\ known' = [known EXCEPT ![p][ip] = n]
      /\ banned' = [banned EXCEPT ![ip] = n]
      /\ mirror' = IF arrives THEN [mirror EXCEPT ![ip] = n] ELSE mirror
      /\ reply' = reply
  BY <1>1 DEF ReportFailure, SetHealth
<1>3. /\ health \in [Pods -> Times] /\ known \in [Pods -> Times]
      /\ banned \in Times /\ mirror \in Times
      /\ reply \in [Pods -> {<<>>} \cup Times]
  BY DEF BanInv, Cooldowns
<1> HIDE DEF p, ip
<1>4. /\ health' \in [Pods -> Times]
      /\ \A q \in Pods, i \in Proxies :
            health'[q][i] = IF q = p /\ i = ip THEN n ELSE health[q][i]
  BY <1>a, <1>2, <1>3 DEF Times
<1>5. /\ known' \in [Pods -> Times]
      /\ \A q \in Pods, i \in Proxies :
            known'[q][i] = IF q = p /\ i = ip THEN n ELSE known[q][i]
  BY <1>a, <1>2, <1>3 DEF Times
<1>6. /\ banned' \in Times
      /\ \A i \in Proxies : banned'[i] = IF i = ip THEN n ELSE banned[i]
  BY <1>a, <1>2, <1>3 DEF Times
<1>7. /\ mirror' \in Times
      /\ \A i \in Proxies : mirror'[i] = IF arrives /\ i = ip THEN n ELSE mirror[i]
  <2>1. CASE arrives
    BY <1>a, <1>2, <1>3, <2>1 DEF Times
  <2>2. CASE ~arrives
    BY <1>2, <1>3, <2>2
  <2> QED
    BY <2>1, <2>2
<1>8. Cooldowns'
  BY <1>2, <1>3, <1>4, <1>5, <1>6, <1>7 DEF Cooldowns
<1>9. BanSticks'
  BY <1>1, <1>4, <1>5, TimesAssumption DEF BanSticks, BanInv
<1>10. BanEnds'
  <2> SUFFICES ASSUME NEW i \in Proxies
               PROVE  /\ mirror'[i] <= banned'[i]
                      /\ \A q \in Pods : /\ health'[q][i] <= banned'[i]
                                         /\ reply'[q] # <<>> => reply'[q][i] <= banned'[i]
    BY DEF BanEnds
  <2>1. CASE i = ip
    <3>1. banned'[i] = CooldownMs
      BY <1>1, <1>6, <2>1
    <3>2. mirror'[i] \in 0..CooldownMs
      BY <1>7 DEF Times
    <3>3. ASSUME NEW q \in Pods
          PROVE  health'[q][i] \in 0..CooldownMs
      BY <1>4 DEF Times
    <3>4. ASSUME NEW q \in Pods, reply'[q] # <<>>
          PROVE  reply'[q][i] \in 0..CooldownMs
      BY <1>2, <1>3, <3>4 DEF Times
    <3> QED
      BY <3>1, <3>2, <3>3, <3>4
  <2>2. CASE i # ip
    BY <1>2, <1>4, <1>6, <1>7, <2>2 DEF BanEnds, BanInv
  <2> QED
    BY <2>1, <2>2
<1> QED
  BY <1>8, <1>9, <1>10 DEF BanInv

\* A success: the same with no cooldown, and the latest ban left alone.
LEMMA SuccessKeepsBans ==
    ASSUME BanInv, NEW h \in Workers, NEW arrives \in BOOLEAN, ReportSuccess(h, arrives),
           UNCHANGED reply
    PROVE  BanInv'
<1> DEFINE p == PodOf(h)
           ip == flight[h]
<1>1. PICK n : n = 0
  OBVIOUS
<1>a. n \in 0..CooldownMs
  BY <1>1, TimesAssumption
<1>2. /\ health' = [health EXCEPT ![p][ip] = n]
      /\ known' = [known EXCEPT ![p][ip] = n]
      /\ mirror' = IF arrives THEN [mirror EXCEPT ![ip] = n] ELSE mirror
      /\ reply' = reply /\ banned' = banned
  BY <1>1 DEF ReportSuccess, SetHealth
<1>3. /\ health \in [Pods -> Times] /\ known \in [Pods -> Times]
      /\ banned \in Times /\ mirror \in Times
      /\ reply \in [Pods -> {<<>>} \cup Times]
  BY DEF BanInv, Cooldowns
<1> HIDE DEF p, ip
<1>4. /\ health' \in [Pods -> Times]
      /\ \A q \in Pods, i \in Proxies :
            health'[q][i] = IF q = p /\ i = ip THEN n ELSE health[q][i]
  BY <1>a, <1>2, <1>3 DEF Times
<1>5. /\ known' \in [Pods -> Times]
      /\ \A q \in Pods, i \in Proxies :
            known'[q][i] = IF q = p /\ i = ip THEN n ELSE known[q][i]
  BY <1>a, <1>2, <1>3 DEF Times
<1>6. /\ mirror' \in Times
      /\ \A i \in Proxies : mirror'[i] = IF arrives /\ i = ip THEN n ELSE mirror[i]
  <2>1. CASE arrives
    BY <1>a, <1>2, <1>3, <2>1 DEF Times
  <2>2. CASE ~arrives
    BY <1>2, <1>3, <2>2
  <2> QED
    BY <2>1, <2>2
<1>7. Cooldowns'
  BY <1>2, <1>3, <1>4, <1>5, <1>6 DEF Cooldowns
<1>8. BanSticks'
  <2> SUFFICES ASSUME NEW q \in Pods, NEW i \in Proxies
               PROVE  health'[q][i] >= known'[q][i]
    BY DEF BanSticks
  <2>1. CASE q = p /\ i = ip
    BY <1>1, <1>4, <1>5, <2>1
  <2>2. CASE ~(q = p /\ i = ip)
    BY <1>4, <1>5, <2>2 DEF BanSticks, BanInv
  <2> QED
    BY <2>1, <2>2
<1>9. BanEnds'
  <2> SUFFICES ASSUME NEW i \in Proxies
               PROVE  /\ mirror'[i] <= banned'[i]
                      /\ \A q \in Pods : /\ health'[q][i] <= banned'[i]
                                         /\ reply'[q] # <<>> => reply'[q][i] <= banned'[i]
    BY DEF BanEnds
  <2>1. banned'[i] = banned[i] /\ banned[i] \in Nat
    BY <1>2, <1>3 DEF Times
  <2>2. mirror'[i] <= banned'[i]
    BY <1>1, <1>6, <2>1 DEF BanEnds, BanInv
  <2>3. ASSUME NEW q \in Pods
        PROVE  /\ health'[q][i] <= banned'[i]
               /\ reply'[q] # <<>> => reply'[q][i] <= banned'[i]
    BY <1>1, <1>2, <1>4, <2>1 DEF BanEnds, BanInv
  <2> QED
    BY <2>2, <2>3
<1> QED
  BY <1>7, <1>8, <1>9 DEF BanInv

\* The answer of Redis only ever lengthens a cooldown, and no further than the
\* latest ban.
LEMMA MergeKeepsBans ==
    ASSUME BanInv, NEW p \in Pods, RefreshMerge(p)
    PROVE  BanInv'
<1>1. /\ health \in [Pods -> Times] /\ reply \in [Pods -> {<<>>} \cup Times]
      /\ UNCHANGED <<mirror, banned, known>>
      /\ known \in [Pods -> Times] /\ banned \in Times /\ mirror \in Times
      /\ reply[p] # <<>>
  BY DEF BanInv, Cooldowns, RefreshMerge
<1>2. reply[p] \in Times
  BY <1>1
<1>3. reply' = [reply EXCEPT ![p] = <<>>]
  BY DEF RefreshMerge
<1>4. health' = [health EXCEPT ![p] = [ip \in Proxies |-> Later(health[p][ip], reply[p][ip])]]
  BY DEF RefreshMerge
<1>5. ASSUME NEW i \in Proxies
      PROVE  /\ health[p][i] \in 0..CooldownMs /\ reply[p][i] \in 0..CooldownMs
             /\ banned[i] \in 0..CooldownMs
  BY <1>1, <1>2 DEF Times
<1>6. [ip \in Proxies |-> Later(health[p][ip], reply[p][ip])] \in Times
  BY <1>5 DEF Times, Later
<1>7. health' \in [Pods -> Times] /\ reply' \in [Pods -> {<<>>} \cup Times]
  BY <1>1, <1>3, <1>4, <1>6
<1>8. Cooldowns'
  BY <1>1, <1>7 DEF Cooldowns
<1>9. ASSUME NEW q \in Pods, NEW i \in Proxies
      PROVE  health'[q][i] = IF q = p THEN Later(health[p][i], reply[p][i]) ELSE health[q][i]
  BY <1>1, <1>4
<1>10. BanSticks'
  <2> SUFFICES ASSUME NEW q \in Pods, NEW i \in Proxies
               PROVE  health'[q][i] >= known'[q][i]
    BY DEF BanSticks
  <2>1. health[q][i] >= known[q][i] /\ known'[q][i] = known[q][i] /\ known[q][i] \in Nat
    BY <1>1 DEF BanInv, BanSticks, Times
  <2> QED
    BY <1>5, <1>9, <2>1 DEF Later
<1>11. BanEnds'
  <2> SUFFICES ASSUME NEW i \in Proxies
               PROVE  /\ mirror'[i] <= banned'[i]
                      /\ \A q \in Pods : /\ health'[q][i] <= banned'[i]
                                         /\ reply'[q] # <<>> => reply'[q][i] <= banned'[i]
    BY DEF BanEnds
  <2>1. /\ mirror[i] <= banned[i] /\ UNCHANGED <<mirror, banned>>
        /\ \A q \in Pods : /\ health[q][i] <= banned[i]
                           /\ reply[q] # <<>> => reply[q][i] <= banned[i]
    BY <1>1 DEF BanInv, BanEnds
  <2>2. ASSUME NEW q \in Pods
        PROVE  health'[q][i] <= banned[i]
    BY <1>1, <1>5, <1>9, <2>1 DEF Later
  <2>3. ASSUME NEW q \in Pods, reply'[q] # <<>>
        PROVE  reply'[q][i] <= banned[i]
    BY <1>1, <1>3, <2>1, <2>3
  <2> QED
    BY <2>1, <2>2, <2>3
<1> QED
  BY <1>8, <1>10, <1>11 DEF BanInv

LEMMA ReadKeepsBans ==
    ASSUME BanInv, NEW p \in Pods, RefreshRead(p)
    PROVE  BanInv'
<1>1. /\ reply' = [reply EXCEPT ![p] = mirror]
      /\ UNCHANGED <<health, mirror, banned, known>>
      /\ reply \in [Pods -> {<<>>} \cup Times] /\ mirror \in Times
  BY DEF RefreshRead, BanInv, Cooldowns
<1>2. Cooldowns'
  BY <1>1 DEF BanInv, Cooldowns
<1>3. BanSticks'
  BY <1>1 DEF BanInv, BanSticks
<1>4. BanEnds'
  BY <1>1 DEF BanInv, BanEnds
<1> QED
  BY <1>2, <1>3, <1>4 DEF BanInv

\* Time runs for all copies of a cooldown at once.
LEMMA TickKeepsBans ==
    ASSUME BanInv, PoolTick
    PROVE  BanInv'
<1>1. /\ health' = [p \in Pods |-> [ip \in Proxies |-> Less(health[p][ip])]]
      /\ known' = [p \in Pods |-> [ip \in Proxies |-> Less(known[p][ip])]]
      /\ mirror' = [ip \in Proxies |-> Less(mirror[ip])]
      /\ banned' = [ip \in Proxies |-> Less(banned[ip])]
      /\ reply' = [p \in Pods |-> IF reply[p] = <<>> THEN <<>>
                                  ELSE [ip \in Proxies |-> Less(reply[p][ip])]]
  BY DEF PoolTick
<1>2. ASSUME NEW p \in Pods, NEW i \in Proxies
      PROVE  /\ health[p][i] \in 0..CooldownMs /\ known[p][i] \in 0..CooldownMs
             /\ mirror[i] \in 0..CooldownMs /\ banned[i] \in 0..CooldownMs
             /\ reply[p] # <<>> => reply[p][i] \in 0..CooldownMs
  BY DEF BanInv, Cooldowns, Times
<1>3. ASSUME NEW i \in Proxies
      PROVE  mirror[i] \in 0..CooldownMs /\ banned[i] \in 0..CooldownMs
  BY DEF BanInv, Cooldowns, Times
<1>4. Cooldowns'
  <2>1. health' \in [Pods -> Times] /\ known' \in [Pods -> Times]
    BY <1>1, <1>2, LessTime DEF Times
  <2>2. mirror' \in Times /\ banned' \in Times
    BY <1>1, <1>3, LessTime DEF Times
  <2>3. reply' \in [Pods -> {<<>>} \cup Times]
    <3>1. ASSUME NEW p \in Pods, reply[p] # <<>>
          PROVE  [ip \in Proxies |-> Less(reply[p][ip])] \in Times
      BY <1>2, <3>1, LessTime DEF Times
    <3> QED
      BY <1>1, <3>1
  <2> QED
    BY <2>1, <2>2, <2>3 DEF Cooldowns
<1>5. BanSticks'
  <2> SUFFICES ASSUME NEW q \in Pods, NEW i \in Proxies
               PROVE  health'[q][i] >= known'[q][i]
    BY DEF BanSticks
  <2>1. health'[q][i] = Less(health[q][i]) /\ known'[q][i] = Less(known[q][i])
    BY <1>1
  <2>2. known[q][i] <= health[q][i]
    BY <1>2 DEF BanInv, BanSticks
  <2> QED
    BY <1>2, <2>1, <2>2 DEF Less
<1>6. BanEnds'
  <2> SUFFICES ASSUME NEW i \in Proxies
               PROVE  /\ mirror'[i] <= banned'[i]
                      /\ \A q \in Pods : /\ health'[q][i] <= banned'[i]
                                         /\ reply'[q] # <<>> => reply'[q][i] <= banned'[i]
    BY DEF BanEnds
  <2>1. banned'[i] = Less(banned[i]) /\ mirror'[i] = Less(mirror[i])
    BY <1>1
  <2>2. mirror'[i] <= banned'[i]
    BY <1>3, <2>1, LessTime DEF BanInv, BanEnds
  <2>3. ASSUME NEW q \in Pods
        PROVE  health'[q][i] <= banned'[i]
    <3>1. health'[q][i] = Less(health[q][i]) /\ health[q][i] <= banned[i]
      BY <1>1 DEF BanInv, BanEnds
    <3> QED
      BY <1>2, <2>1, <3>1, LessTime
  <2>4. ASSUME NEW q \in Pods, reply'[q] # <<>>
        PROVE  reply'[q][i] <= banned'[i]
    <3>1. reply[q] # <<>>
      BY <1>1, <2>4
    <3>2. reply'[q][i] = Less(reply[q][i]) /\ reply[q][i] <= banned[i]
      BY <1>1, <3>1 DEF BanInv, BanEnds
    <3> QED
      BY <1>2, <2>1, <3>1, <3>2, LessTime
  <2> QED
    BY <2>2, <2>3, <2>4
<1> QED
  BY <1>4, <1>5, <1>6 DEF BanInv

LEMMA BanInit ==
    ASSUME PoolInit
    PROVE  BanInv
<1>1. Cooldowns
  BY TimesAssumption DEF PoolInit, Cooldowns, Times
<1>2. BanSticks
  BY DEF PoolInit, BanSticks
<1>3. BanEnds
  BY DEF PoolInit, BanEnds
<1> QED
  BY <1>1, <1>2, <1>3 DEF BanInv

LEMMA BanStep ==
    ASSUME BanInv, [PoolNext]_poolVars
    PROVE  BanInv'
<1>1. CASE PoolTick
  BY <1>1, TickKeepsBans
<1>2. ASSUME UNCHANGED <<health, known, banned, mirror, reply>>
      PROVE  BanInv'
  BY <1>2 DEF BanInv, Cooldowns, BanSticks, BanEnds
<1>3. ASSUME NEW h \in Workers, ReuseSticky(h) \/ NextProxy(h)
      PROVE  BanInv'
  BY <1>2, <1>3 DEF ReuseSticky, NextProxy
<1>4. ASSUME NEW h \in Workers, ReportResult(h)
      PROVE  BanInv'
  BY <1>4, FailureKeepsBans, SuccessKeepsBans DEF ReportResult
<1>5. ASSUME NEW p \in Pods, RefreshRead(p)
      PROVE  BanInv'
  BY <1>5, ReadKeepsBans
<1>6. ASSUME NEW p \in Pods, RefreshMerge(p)
      PROVE  BanInv'
  BY <1>6, MergeKeepsBans
<1>7. CASE UNCHANGED poolVars
  BY <1>2, <1>7 DEF poolVars
<1> QED
  BY <1>1, <1>3, <1>4, <1>5, <1>6, <1>7 DEF PoolNext

\* Whatever refreshes and reports other handlers and pods make, a pod keeps a
\* proxy it was banned through out of its rotation for the whole cooldown.
THEOREM BansStick == PoolSpec => []BanSticks
<1>1. BanInv => BanSticks
  BY DEF BanInv
<1> QED
  BY <1>1, BanInit, BanStep, PTL DEF PoolSpec

\* However often pods pass a ban to each other, every copy of it is over one
\* cooldown after the latest ban.
THEOREM BansEnd == PoolSpec => []BanEnds
<1>1. BanInv => BanEnds
  BY DEF BanInv
<1> QED
  BY <1>1, BanInit, BanStep, PTL DEF PoolSpec

----------------------------------------------------------------------------
(* No SKU of a cycle is forgotten, and a verdict is written at most once by*)
(* each of the cycles that overlap within its hour.                        *)

Runs == [pc : {"done", "loop", "setex"}, rest : SUBSET Skus, misses : SUBSET Skus,
         attempt : {0, 1}, queue : SUBSET Items, item : Items \cup {<<>>}, due : SUBSET Skus]

\* The SKUs that these verdicts are about.
Judged(q) == {i.key[1] : i \in q}

\* A cycle has verdicts, a call or a later sub-batch for each SKU it has not judged.
RunOK(r) ==
    /\ r.due \subseteq r.rest \cup r.misses \cup Judged(r.queue)
    /\ r.pc = "done" => r.due = {}
    /\ r.pc = "setex" => r.item \in r.queue

BatchInv ==
    /\ BatchTypeOK
    /\ run \in [Cycles -> Runs]
    /\ \A c \in Cycles : RunOK(run[c])

\* The cycles that have found the key of k absent and have not set it yet.
Poised(k) == {c \in Cycles : run[c].pc = "setex" /\ run[c].item.key = k}

\* Each cycle under way can write k once more while the key is set, and none when it
\* has looked.
HourInv ==
    \A k \in Keys :
        /\ written[k] + Cardinality(Poised(k)) <= Cardinality(Cycles)
        /\ k \notin dedup => written[k] = 0
-----------------------------------------------------------------------------
LEMMA DoneRuns == Done \in Runs /\ RunOK(Done)
BY DEF Done, Runs, RunOK

\* One verdict for each SKU.
LEMMA JudgementsOK ==
    ASSUME NEW S \in SUBSET Skus, NEW q \in Judgements(S)
    PROVE  q \subseteq Items /\ Judged(q) = S
<1>1. PICK f \in [S -> Verdicts] : q = {[key |-> <<s, f[s]>>, fresh |-> FALSE] : s \in S}
  BY DEF Judgements
<1>2. ASSUME NEW s \in S
      PROVE  /\ [key |-> <<s, f[s]>>, fresh |-> FALSE] \in Items
             /\ [key |-> <<s, f[s]>>, fresh |-> FALSE].key[1] = s
  BY DEF Items, Keys
<1>3. q \subseteq Items
  BY <1>1, <1>2
<1>4. ASSUME NEW i \in q PROVE i.key[1] \in S
  <2>1. PICK s \in S : i = [key |-> <<s, f[s]>>, fresh |-> FALSE]
    BY <1>1
  <2>2. QED
    BY <1>2, <2>1
<1>5. ASSUME NEW s \in S PROVE \E i \in q : i.key[1] = s
  BY <1>1, <1>2
<1>6. Judged(q) = S
  BY <1>4, <1>5 DEF Judged
<1>7. QED
  BY <1>3, <1>6

\* The valid items of a answer, and the rules for the rest, judge every SKU of the call.
LEMMA RepliesOK ==
    ASSUME NEW S \in SUBSET Skus, NEW answer, answer \subseteq S \X Verdicts,
           NEW q \in Judgements({s \in S : \A v \in Verdicts : <<s, v>> \notin answer})
    PROVE  /\ q \cup {[key |-> k, fresh |-> TRUE] : k \in answer} \subseteq Items
           /\ S \subseteq Judged(q \cup {[key |-> k, fresh |-> TRUE] : k \in answer})
<1> DEFINE U == {s \in S : \A v \in Verdicts : <<s, v>> \notin answer}
           A == {[key |-> k, fresh |-> TRUE] : k \in answer}
<1>1. q \subseteq Items /\ Judged(q) = U
  BY JudgementsOK
<1>2. A \subseteq Items
  <2>1. answer \subseteq Keys
    BY DEF Keys
  <2>2. ASSUME NEW k \in answer PROVE [key |-> k, fresh |-> TRUE] \in Items
    BY <2>1 DEF Items
  <2>3. QED
    BY <2>2
<1>3. ASSUME NEW s \in S, s \notin U PROVE s \in Judged(A)
  <2>1. PICK v \in Verdicts : <<s, v>> \in answer
    BY <1>3
  <2>2. PICK i \in A : i.key = <<s, v>>
    <3>1. [key |-> <<s, v>>, fresh |-> TRUE] \in A
      BY <2>1
    <3>2. QED
      BY <3>1
  <2>3. i.key[1] = s
    BY <2>2
  <2>4. QED
    BY <2>2, <2>3 DEF Judged
<1>4. Judged(q) \cup Judged(A) \subseteq Judged(q \cup A)
  BY DEF Judged
<1> HIDE DEF A
<1>5. S \subseteq Judged(q \cup A)
  BY <1>1, <1>3, <1>4
<1>6. QED
  BY <1>1, <1>2, <1>5 DEF A
-----------------------------------------------------------------------------
LEMMA BatchStarts == BatchInit => BatchInv /\ HourInv
<1> SUFFICES ASSUME BatchInit PROVE BatchInv /\ HourInv
  OBVIOUS
<1>1. run \in [Cycles -> Runs] /\ \A c \in Cycles : RunOK(run[c]) /\ run[c] = Done
  BY DoneRuns DEF BatchInit
<1>2. BatchTypeOK
  BY <1>1 DEF BatchInit, BatchTypeOK, Done
<1>3. ASSUME NEW k \in Keys PROVE Poised(k) = {}
  BY <1>1 DEF Poised, Done
<1>4. Cardinality({}) = 0 /\ Cardinality(Cycles) \in Nat
  BY FS_EmptySet, FS_CardinalityType, BatchAssumption
<1>5. HourInv
  BY <1>3, <1>4 DEF BatchInit, HourInv
<1>6. QED
  BY <1>1, <1>2, <1>5 DEF BatchInv

\* One cycle moves on.
LEMMA RunStep ==
    ASSUME BatchInv, NEW c \in Cycles, NEW r \in Runs, RunOK(r),
           run' = [run EXCEPT ![c] = r],
           dedup' \subseteq Keys, cached' \subseteq Skus, exhausted' \in BOOLEAN,
           written' \in [Keys -> Nat]
    PROVE  BatchInv'
<1>1. run' \in [Cycles -> Runs] /\ \A d \in Cycles : RunOK(run'[d])
  BY DEF BatchInv
<1>2. BatchTypeOK'
  BY <1>1 DEF BatchTypeOK, Runs, RunOK
<1>3. QED
  BY <1>1, <1>2 DEF BatchInv

LEMMA BatchStep == BatchInv /\ [BatchNext]_batchVars => BatchInv'
<1> SUFFICES ASSUME BatchInv, [BatchNext]_batchVars PROVE BatchInv'
  OBVIOUS
<1>1. /\ dedup \subseteq Keys /\ cached \subseteq Skus /\ exhausted \in BOOLEAN
      /\ written \in [Keys -> Nat] /\ run \in [Cycles -> Runs]
      /\ \A c \in Cycles : RunOK(run[c]) /\ run[c] \in Runs
  BY DEF BatchInv, BatchTypeOK
<1>2. CASE UNCHANGED batchVars
  BY <1>2 DEF batchVars, BatchInv, BatchTypeOK
<1>3. ASSUME UNCHANGED run, dedup' \subseteq Keys, cached' \subseteq Skus, exhausted' \in BOOLEAN,
             written' \in [Keys -> Nat]
      PROVE  BatchInv'
  BY <1>3 DEF BatchInv, BatchTypeOK
<1>4. ASSUME NEW k \in Keys, DedupLapses(k) PROVE BatchInv'
  BY <1>1, <1>3, <1>4 DEF DedupLapses
<1>5. ASSUME NEW s \in Skus, CacheExpires(s) PROVE BatchInv'
  BY <1>1, <1>3, <1>5 DEF CacheExpires
<1>6. CASE Midnight
  BY <1>1, <1>3, <1>6 DEF Midnight
<1>7. ASSUME NEW c \in Cycles, CycleStep(c) PROVE BatchInv'
  <2> DEFINE old == run[c]
  <2>1. old \in Runs /\ RunOK(old)
    BY <1>1
  <2>2. ASSUME NEW S \in SUBSET SkusOf[c], Begin(c, S) PROVE BatchInv'
    <3>1. S \in SUBSET Skus
      BY BatchAssumption
    <3>2. ASSUME NEW q \in Judgements(S),
                 run' = [run EXCEPT ![c] = [Done EXCEPT !.pc = "loop", !.due = S, !.queue = q]]
          PROVE  BatchInv'
      <4>1. PICK r : r = [Done EXCEPT !.pc = "loop", !.due = S, !.queue = q]
        OBVIOUS
      <4>2. r \in Runs /\ RunOK(r)
        BY <3>1, <4>1, JudgementsOK, DoneRuns DEF Runs, RunOK, Done
      <4>3. QED
        BY <1>1, <2>2, <3>2, <4>1, <4>2, RunStep DEF Begin
    <3>3. CASE run' = [run EXCEPT ![c] = [Done EXCEPT !.pc = "loop", !.due = S, !.rest = S]]
      <4>1. PICK r : r = [Done EXCEPT !.pc = "loop", !.due = S, !.rest = S]
        OBVIOUS
      <4>2. r \in Runs /\ RunOK(r)
        BY <3>1, <4>1, DoneRuns DEF Runs, RunOK, Done
      <4>3. QED
        BY <1>1, <2>2, <3>3, <4>1, <4>2, RunStep DEF Begin
    <3>4. QED
      BY <2>2, <3>2, <3>3 DEF Begin
  <2>3. ASSUME NEW chunk \in SUBSET old.rest, NEW hits \in SUBSET cached, SubBatch(c, chunk, hits)
        PROVE  BatchInv'
    <3>1. PICK q \in Judgements(hits) :
             run' = [run EXCEPT ![c].rest = old.rest \ chunk, ![c].misses = chunk \ hits,
                             ![c].attempt = 0, ![c].queue = q]
      BY <2>3 DEF SubBatch
    <3>2. PICK r : r = [old EXCEPT !.rest = old.rest \ chunk, !.misses = chunk \ hits,
                             !.attempt = 0, !.queue = q]
      OBVIOUS
    <3>3. /\ r.rest = old.rest \ chunk /\ r.misses = chunk \ hits /\ r.queue = q
          /\ r.due = old.due /\ r.pc = old.pc /\ hits \subseteq Skus
      BY <1>1, <2>1, <3>2 DEF Runs
    <3>4. q \subseteq Items /\ Judged(q) = hits
      BY <3>3, JudgementsOK
    <3>5. r \in Runs
      BY <1>1, <2>1, <3>2, <3>4 DEF Runs
    <3>6. RunOK(r)
      BY <2>1, <2>3, <3>3, <3>4 DEF SubBatch, Free, RunOK, Judged
    <3>7. run' = [run EXCEPT ![c] = r]
      BY <1>1, <2>1, <3>1, <3>2 DEF Runs
    <3>8. QED
      BY <1>1, <2>3, <3>5, <3>6, <3>7, RunStep DEF SubBatch
  <2>4. CASE TimesOut(c)
    <3>1. PICK r : r = [old EXCEPT !.attempt = 1]
      OBVIOUS
    <3>2. r \in Runs /\ RunOK(r) /\ run' = [run EXCEPT ![c] = r]
      BY <1>1, <2>1, <2>4, <3>1 DEF Runs, RunOK, TimesOut
    <3>3. QED
      BY <1>1, <2>4, <3>2, RunStep DEF TimesOut
  <2>5. ASSUME NEW q \in SUBSET Items, old.misses \subseteq Judged(q), Free(c), Answered(c, q),
               dedup' = dedup, cached' = cached, written' = written, exhausted' \in BOOLEAN
        PROVE  BatchInv'
    <3>1. PICK r : r = [old EXCEPT !.misses = {}, !.queue = q]
      OBVIOUS
    <3>2. r \in Runs /\ run' = [run EXCEPT ![c] = r]
      BY <1>1, <2>1, <2>5, <3>1 DEF Runs, Answered
    <3>3. /\ r.misses = {} /\ r.queue = q /\ r.rest = old.rest
          /\ r.due = old.due /\ r.pc = old.pc
      BY <2>1, <3>1 DEF Runs
    <3>4. RunOK(r)
      BY <2>1, <2>5, <3>3 DEF RunOK, Free, Judged
    <3>5. QED
      BY <1>1, <2>5, <3>2, <3>4, RunStep
  <2>6. CASE Fails(c)
    <3>1. PICK q \in Judgements(old.misses) : Answered(c, q)
      BY <2>6 DEF Fails
    <3>2. q \subseteq Items /\ Judged(q) = old.misses
      BY <2>1, JudgementsOK DEF Runs
    <3>3. QED
      BY <1>1, <2>5, <2>6, <3>1, <3>2 DEF Fails
  <2>7. ASSUME NEW answer \in SUBSET Keys, Replies(c, answer) PROVE BatchInv'
    <3>1. PICK q \in Judgements({s \in old.misses : \A v \in Verdicts : <<s, v>> \notin answer}) :
             Answered(c, q \cup {[key |-> k, fresh |-> TRUE] : k \in answer})
      BY <2>7 DEF Replies
    <3>2. old.misses \subseteq Skus /\ answer \subseteq old.misses \X Verdicts
      BY <2>1, <2>7 DEF Runs, Replies
    <3>3. /\ q \cup {[key |-> k, fresh |-> TRUE] : k \in answer} \subseteq Items
          /\ old.misses \subseteq Judged(q \cup {[key |-> k, fresh |-> TRUE] : k \in answer})
      BY <3>2, RepliesOK
    <3>4. QED
      BY <1>1, <2>5, <2>7, <3>1, <3>3 DEF Replies
  <2>8. ASSUME NEW item \in old.queue, NEW r,
               r = [old EXCEPT !.pc = "loop", !.item = <<>>, !.queue = old.queue \ {item},
                               !.due = old.due \ {item.key[1]}]
        PROVE  r \in Runs /\ (old.pc # "done" => RunOK(r))
    <3>1. /\ r.queue = old.queue \ {item} /\ r.rest = old.rest /\ r.misses = old.misses
          /\ r.due = old.due \ {item.key[1]} /\ r.pc = "loop"
      BY <2>1, <2>8 DEF Runs
    <3>2. Judged(old.queue) \subseteq Judged(old.queue \ {item}) \cup {item.key[1]}
      BY DEF Judged
    <3>3. r \in Runs
      BY <2>1, <2>8 DEF Runs
    <3>4. QED
      BY <2>1, <3>1, <3>2, <3>3 DEF RunOK
  <2>9. ASSUME NEW item \in old.queue, Exists(c, item) PROVE BatchInv'
    <3>1. CASE item.key \in dedup
      <4>1. PICK r : r = [old EXCEPT !.queue = old.queue \ {item}, !.due = old.due \ {item.key[1]}]
        OBVIOUS
      <4>2. /\ r.queue = old.queue \ {item} /\ r.rest = old.rest /\ r.misses = old.misses
            /\ r.due = old.due \ {item.key[1]} /\ r.pc = "loop"
        BY <2>1, <2>9, <4>1 DEF Runs, Exists
      <4>3. Judged(old.queue) \subseteq Judged(old.queue \ {item}) \cup {item.key[1]}
        BY DEF Judged
      <4>4. RunOK(r)
        BY <2>1, <4>2, <4>3 DEF RunOK
      <4>5. r \in Runs /\ run' = [run EXCEPT ![c] = r]
        BY <1>1, <2>1, <2>9, <3>1, <4>1 DEF Runs, Exists
      <4>6. QED
        BY <1>1, <2>9, <4>4, <4>5, RunStep DEF Exists
    <3>2. CASE item.key \notin dedup
      <4>1. PICK r : r = [old EXCEPT !.pc = "setex", !.item = item]
        OBVIOUS
      <4>2. r \in Runs /\ run' = [run EXCEPT ![c] = r]
        BY <1>1, <2>1, <2>9, <3>2, <4>1 DEF Runs, Exists
      <4>3. RunOK(r)
        BY <2>1, <4>1 DEF Runs, RunOK
      <4>4. QED
        BY <1>1, <2>9, <4>2, <4>3, RunStep DEF Exists
    <3>3. QED
      BY <3>1, <3>2
  <2>10. CASE SetEx(c)
    <3> DEFINE item == old.item
    <3>1. item \in old.queue /\ item.key \in Keys /\ item.key[1] \in Skus
      BY <2>1, <2>10 DEF SetEx, RunOK, Runs, Items, Keys
    <3>2. PICK r : r = [old EXCEPT !.pc = "loop", !.item = <<>>, !.queue = old.queue \ {item},
                               !.due = old.due \ {item.key[1]}]
      OBVIOUS
    <3>3. r \in Runs /\ RunOK(r)
      BY <2>8, <2>10, <3>1, <3>2 DEF SetEx
    <3>4. run' = [run EXCEPT ![c] = r]
      BY <1>1, <2>1, <2>10, <3>2 DEF SetEx, Runs
    <3>5. /\ dedup' \subseteq Keys /\ cached' \subseteq Skus /\ exhausted' \in BOOLEAN
          /\ written' \in [Keys -> Nat]
      BY <1>1, <2>10, <3>1 DEF SetEx
    <3>6. QED
      BY <3>3, <3>4, <3>5, RunStep
  <2>11. CASE Ends(c)
    <3>1. PICK r : r = [old EXCEPT !.pc = "done"]
      OBVIOUS
    <3>2. r \in Runs /\ run' = [run EXCEPT ![c] = r]
      BY <1>1, <2>1, <2>11, <3>1 DEF Runs, Ends
    <3>3. RunOK(r)
      BY <2>1, <2>11, <3>1 DEF Runs, RunOK, Ends, Free, Judged
    <3>4. QED
      BY <1>1, <2>11, <3>2, <3>3, RunStep DEF Ends
  <2>12. CASE CycleLost(c)
    BY <1>1, <2>12, DoneRuns, RunStep DEF CycleLost
  <2>13. QED
    BY <1>7, <2>2, <2>3, <2>4, <2>6, <2>7, <2>9, <2>10, <2>11, <2>12 DEF CycleStep
<1>8. QED
  BY <1>2, <1>4, <1>5, <1>6, <1>7 DEF BatchNext
-----------------------------------------------------------------------------
LEMMA PoisedFinite ==
    ASSUME NEW k
    PROVE  /\ IsFiniteSet(Poised(k)) /\ Cardinality(Poised(k)) \in Nat
           /\ Cardinality(Poised(k)) <= Cardinality(Cycles) /\ Cardinality(Cycles) \in Nat
<1>1. Poised(k) \in SUBSET Cycles
  BY DEF Poised
<1>2. QED
  BY <1>1, FS_Subset, FS_CardinalityType, BatchAssumption

\* A step after which no more cycles are poised, and nothing more is written.
LEMMA CalmStep ==
    ASSUME HourInv, written \in [Keys -> Nat], written' \in [Keys -> Nat],
           \A c \in Cycles : run'[c].pc = "setex" =>
              /\ run[c].pc = "setex" /\ run'[c].item = run[c].item,
           \A k \in Keys : \/ written'[k] = 0
                           \/ written'[k] = written[k] /\ (k \in dedup => k \in dedup')
    PROVE  HourInv'
<1>1. ASSUME NEW k \in Keys
      PROVE  /\ (written[k] + Cardinality(Poised(k)) <= Cardinality(Cycles))'
             /\ (k \notin dedup => written[k] = 0)'
  <2>1. Poised(k)' \in SUBSET Poised(k)
    BY DEF Poised
  <2>2. /\ Cardinality(Poised(k)') <= Cardinality(Poised(k))
        /\ Cardinality(Poised(k)') \in Nat
    BY <2>1, PoisedFinite, FS_Subset, FS_CardinalityType
  <2>3. /\ written[k] + Cardinality(Poised(k)) <= Cardinality(Cycles)
        /\ k \notin dedup => written[k] = 0
    BY DEF HourInv
  <2>4. written[k] \in Nat /\ written'[k] \in Nat
    BY <1>1
  <2>5. /\ Cardinality(Poised(k)) \in Nat /\ Cardinality(Cycles) \in Nat
        /\ Cardinality(Poised(k)) <= Cardinality(Cycles)
    BY PoisedFinite
  <2>6. QED
    BY <2>2, <2>3, <2>4, <2>5
<1>2. QED
  BY <1>1 DEF HourInv

LEMMA HourStep == BatchInv /\ HourInv /\ [BatchNext]_batchVars => HourInv'
<1> SUFFICES ASSUME BatchInv, HourInv, [BatchNext]_batchVars PROVE HourInv'
  OBVIOUS
<1>1. /\ dedup \subseteq Keys /\ written \in [Keys -> Nat] /\ run \in [Cycles -> Runs]
      /\ \A c \in Cycles : RunOK(run[c]) /\ run[c] \in Runs
      /\ written' \in [Keys -> Nat] /\ run' \in [Cycles -> Runs]
  BY BatchStep DEF BatchInv, BatchTypeOK
<1>2. CASE UNCHANGED batchVars
  BY <1>1, <1>2, CalmStep DEF batchVars
<1>3. ASSUME NEW k \in Keys, DedupLapses(k) PROVE HourInv'
  <2>1. ASSUME NEW j \in Keys
        PROVE  \/ written'[j] = 0
               \/ written'[j] = written[j] /\ (j \in dedup => j \in dedup')
    BY <1>1, <1>3 DEF DedupLapses
  <2>2. QED
    BY <1>1, <1>3, <2>1, CalmStep DEF DedupLapses
<1>4. ASSUME NEW s \in Skus, CacheExpires(s) PROVE HourInv'
  BY <1>1, <1>4, CalmStep DEF CacheExpires
<1>5. CASE Midnight
  BY <1>1, <1>5, CalmStep DEF Midnight
<1>6. ASSUME NEW c \in Cycles, CycleStep(c), ~SetEx(c), run'[c].pc # "setex"
      PROVE  HourInv'
  <2>1. UNCHANGED <<written, dedup>>
    BY <1>6 DEF CycleStep, Begin, SubBatch, TimesOut, Fails, Replies, Exists, Ends, CycleLost
  <2>2. \A d \in Cycles \ {c} : run'[d] = run[d]
    BY <1>1, <1>6 DEF CycleStep, Begin, SubBatch, TimesOut, Fails, Replies, Answered, Exists,
       Ends, CycleLost
  <2>3. QED
    BY <1>1, <1>6, <2>1, <2>2, CalmStep
<1>7. ASSUME NEW c \in Cycles, CycleStep(c), ~SetEx(c), run'[c].pc = "setex"
      PROVE  HourInv'
  <2>1. PICK item \in run[c].queue : Exists(c, item)
    <3>1. \A S : ~Begin(c, S)
      BY <1>1, <1>7 DEF Begin, Done
    <3>2. \A chunk, hits : ~SubBatch(c, chunk, hits)
      BY <1>1, <1>7 DEF SubBatch, Free, Runs
    <3>3. ~TimesOut(c)
      BY <1>1, <1>7 DEF TimesOut, Free, Runs
    <3>6. ASSUME NEW q, Free(c), Answered(c, q) PROVE FALSE
      <4>1. run[c] \in Runs /\ run[c].pc = "loop"
        BY <1>1, <3>6 DEF Free
      <4>2. run'[c] = [run[c] EXCEPT !.misses = {}, !.queue = q]
        BY <1>1, <3>6 DEF Answered
      <4>3. run'[c].pc = run[c].pc
        BY <4>1, <4>2 DEF Runs
      <4>4. QED
        BY <1>7, <4>1, <4>3
    <3>7. ~Fails(c) /\ \A answer : ~Replies(c, answer)
      BY <3>6 DEF Fails, Replies
    <3>4. ~Ends(c) /\ ~CycleLost(c)
      BY <1>1, <1>7 DEF Ends, CycleLost, Done, Runs
    <3>5. QED
      BY <1>7, <3>1, <3>2, <3>3, <3>4, <3>7 DEF CycleStep
  <2>2. /\ UNCHANGED <<written, dedup>> /\ item.key \notin dedup
        /\ run'[c].item = item
        /\ \A d \in Cycles \ {c} : run'[d] = run[d]
    BY <1>1, <1>7, <2>1 DEF Exists, Runs
  <2>3. ASSUME NEW k \in Keys
        PROVE  /\ (written[k] + Cardinality(Poised(k)) <= Cardinality(Cycles))'
               /\ (k \notin dedup => written[k] = 0)'
    <3>1. CASE k = item.key
      <4>1. written'[k] = 0
        BY <2>2, <3>1 DEF HourInv
      <4>2. /\ Cardinality(Poised(k)') \in Nat /\ Cardinality(Cycles) \in Nat
            /\ Cardinality(Poised(k)') <= Cardinality(Cycles)
        <5>1. Poised(k)' \in SUBSET Cycles
          BY DEF Poised
        <5>2. QED
          BY <5>1, FS_Subset, FS_CardinalityType, BatchAssumption
      <4>3. QED
        BY <2>2, <4>1, <4>2 DEF HourInv
    <3>2. CASE k # item.key
      <4>1. Poised(k)' \in SUBSET Poised(k)
        BY <2>2, <3>2 DEF Poised
      <4>2. /\ Cardinality(Poised(k)') <= Cardinality(Poised(k))
            /\ Cardinality(Poised(k)') \in Nat
        BY <4>1, PoisedFinite, FS_Subset, FS_CardinalityType
      <4>3. written[k] \in Nat /\ Cardinality(Poised(k)) \in Nat /\ Cardinality(Cycles) \in Nat
        BY <1>1, PoisedFinite
      <4>4. QED
        BY <2>2, <4>2, <4>3 DEF HourInv
    <3>3. QED
      BY <3>1, <3>2
  <2>4. QED
    BY <2>3 DEF HourInv
<1>8. ASSUME NEW c \in Cycles, SetEx(c) PROVE HourInv'
  <2> DEFINE item == run[c].item
  <2>4. run[c].pc = "setex" /\ item \in Items /\ run[c] \in Runs
    BY <1>1, <1>8 DEF SetEx, RunOK, Runs
  <2>5. run'[c].pc = "loop"
    <3>1. \E q, d : run'[c] = [run[c] EXCEPT !.pc = "loop", !.item = <<>>, !.queue = q, !.due = d]
      BY <1>1, <1>8 DEF SetEx
    <3>2. QED
      BY <2>4, <3>1 DEF Runs
  <2>1. /\ run[c].pc = "setex" /\ item.key \in Keys
        /\ dedup' = dedup \cup {item.key}
        /\ written' = [written EXCEPT ![item.key] = written[item.key] + 1]
        /\ run'[c].pc = "loop"
        /\ \A d \in Cycles \ {c} : run'[d] = run[d]
    BY <1>1, <1>8, <2>4, <2>5 DEF SetEx, Items
  <2>2. ASSUME NEW k \in Keys
        PROVE  /\ (written[k] + Cardinality(Poised(k)) <= Cardinality(Cycles))'
               /\ (k \notin dedup => written[k] = 0)'
    <3>1. written[k] \in Nat /\ Cardinality(Poised(k)) \in Nat /\ Cardinality(Cycles) \in Nat
      BY <1>1, PoisedFinite
    <3>2. CASE k = item.key
      <4>1. c \in Poised(k) /\ Poised(k)' = Poised(k) \ {c}
        BY <2>1, <3>2 DEF Poised
      <4>2. Cardinality(Poised(k)') = Cardinality(Poised(k)) - 1
        BY <4>1, PoisedFinite, FS_RemoveElement
      <4>3. written'[k] = written[k] + 1 /\ k \in dedup'
        BY <1>1, <2>1, <3>2
      <4>4. QED
        BY <3>1, <4>2, <4>3 DEF HourInv
    <3>3. CASE k # item.key
      <4>1. Poised(k)' = Poised(k)
        BY <2>1, <3>3 DEF Poised
      <4>2. written'[k] = written[k] /\ (k \in dedup' <=> k \in dedup)
        BY <1>1, <2>1, <3>3
      <4>3. QED
        BY <4>1, <4>2 DEF HourInv
    <3>4. QED
      BY <3>2, <3>3
  <2>3. QED
    BY <2>2 DEF HourInv
<1>9. QED
  BY <1>2, <1>3, <1>4, <1>5, <1>6, <1>7, <1>8 DEF BatchNext

LEMMA BatchInvHolds == BatchSpec => []BatchInv
BY BatchStarts, BatchStep, PTL DEF BatchSpec

\* Cycles, keys and caches keep their types, for any products and batch size.
THEOREM BatchTypeCorrect == BatchSpec => []BatchTypeOK
<1>1. BatchInv => BatchTypeOK
  BY DEF BatchInv
<1>2. QED
  BY <1>1, BatchInvHolds, PTL

\* process_merchant_batch: every SKU that a cycle has read is judged when it ends.
THEOREM EverySkuJudged == BatchSpec => []NoneForgotten
<1>1. BatchInv => NoneForgotten
  BY DEF BatchInv, RunOK, NoneForgotten
<1>2. QED
  BY <1>1, BatchInvHolds, PTL

\* check_and_set_dedup: between two expiries of its key a verdict on a SKU is written
\* at most once for each cycle that may run at the same time.
THEOREM VerdictsAreDeduplicated == BatchSpec => []SignalsPerHour
<1>1. BatchInv /\ HourInv => SignalsPerHour
  <2>1. ASSUME BatchInv, HourInv, NEW k \in Keys PROVE written[k] <= Cardinality(Cycles)
    <3>1. written[k] \in Nat /\ Cardinality(Poised(k)) \in Nat /\ Cardinality(Cycles) \in Nat
      BY <2>1, PoisedFinite DEF BatchInv, BatchTypeOK
    <3>2. QED
      BY <2>1, <3>1 DEF HourInv
  <2>2. QED
    BY <2>1 DEF SignalsPerHour
<1>2. QED
  BY <1>1, BatchStarts, HourStep, BatchInvHolds, PTL DEF BatchSpec

----------------------------------------------------------------------------
(* The types of the gates, and of the node as the run Node has it.         *)

\* Whatever limit it is checked with, a bucket holds at most a burst of it.
LEMMA TokensInRange ==
    ASSUME Stamps, NEW limit \in Limits, NEW t \in 0..clock
    PROVE  /\ TokensAt(limit, t) \in 0..(MaxLimit * Window)
           /\ MaxLimit * Window \in Nat
<1>1. /\ limit \in Nat /\ limit <= MaxLimit /\ MaxLimit \in Nat /\ Window \in Nat
      /\ MaxLimit \in Limits /\ clock \in 0..clock /\ clock \in Nat
  BY LimitsAssumption, WindowAssumption, MaxLimitIsMax DEF Stamps
<1>2. MaxLimit * Window \in Nat
  BY <1>1
<1>3. Credit <= MaxLimit * Window /\ Credit \in Nat
  <2>1. Credit \in Nat
    BY TokensBelowCredit
  <2>2. PICK n \in Nat : n = MaxLimit * Window
    BY <1>2
  <2>3. PICK m \in Int : m = (clock - bucket.ts) * MaxLimit
    BY <1>1 DEF Stamps
  <2>4. Credit \in {n, Least(n, bucket.tokens + Greatest(0, m))}
    BY <2>2, <2>3 DEF Credit, TokensAt
  <2>5. bucket.tokens + Greatest(0, m) \in Int
    BY DEF Stamps, Greatest
  <2> QED
    BY <2>1, <2>2, <2>4, <2>5 DEF Least
<1>4. TokensAt(limit, t) \in Nat /\ TokensAt(limit, t) <= Credit
  BY TokensBelowCredit
<1> QED
  BY <1>2, <1>3, <1>4

LEMMA TakeTokenTypes ==
    ASSUME RateInv, RateTypeOK, NEW limit \in Limits, NEW t \in Readings,
           NEW allowed \in BOOLEAN, TakeToken(limit, t, allowed)
    PROVE  bucket' \in [tokens : 0..(MaxLimit * Window), ts : 0..MaxTime,
                        until : 0..(MaxTime + Window)]
<1>1. /\ clock \in Nat /\ clock <= MaxTime /\ MaxTime \in Nat /\ Window \in Nat
      /\ t \in 0..clock
  BY WindowAssumption, DelayAssumption DEF RateTypeOK, Readings
<1>2. /\ TokensAt(limit, t) \in 0..(MaxLimit * Window)
      /\ MaxLimit * Window \in Nat
  BY <1>1, TokensInRange DEF RateInv
<1>3. PICK left : left = IF allowed THEN TokensAt(limit, t) - Window ELSE TokensAt(limit, t)
  OBVIOUS
<1>4. allowed => TokensAt(limit, t) >= Window
  BY DEF TakeToken
<1>5. left \in 0..(MaxLimit * Window)
  BY <1>1, <1>2, <1>3, <1>4
<1>6. bucket' = [tokens |-> left, ts |-> t, until |-> clock + Window]
  BY <1>3 DEF TakeToken
<1> QED
  BY <1>1, <1>5, <1>6

LEMMA RateTypeStep ==
    ASSUME RateInv, RateInv', RateTypeOK, [RateNext]_rateVars
    PROVE  RateTypeOK'
<1>0. /\ clock \in Nat /\ clock <= MaxTime /\ MaxTime \in Nat /\ ConfigTtl \in Nat
      /\ Delay \in Nat /\ ideal' \in Int /\ MaxLimit' = MaxLimit
  BY DelayAssumption DEF RateTypeOK, RateInv, MaxLimit
<1>1. CASE RateTick
  <2>1. clock' \in 0..MaxTime
    BY <1>0, <1>1 DEF RateTick
  <2> QED
    BY <1>0, <1>1, <2>1 DEF RateTick, RateTypeOK
<1>2. CASE ParseRobots
  <2>1. config' \in 0..(MaxTime + ConfigTtl)
    BY <1>0, <1>2 DEF ParseRobots
  <2> QED
    BY <1>0, <1>2, <2>1 DEF ParseRobots, RateTypeOK
<1>3. ASSUME NEW h \in Handlers, CheckRateLimit(h)
      PROVE  RateTypeOK'
  <2>1. bucket' \in [tokens : 0..(MaxLimit * Window), ts : 0..MaxTime,
                     until : 0..(MaxTime + Window)]
    BY <1>3, TakeTokenTypes DEF CheckRateLimit
  <2>2. stage' \in [Handlers -> {"waiting", "paced", "fetching"}]
    BY <1>3 DEF CheckRateLimit, RateTypeOK
  <2> QED
    BY <1>0, <1>3, <2>1, <2>2 DEF CheckRateLimit, RateTypeOK
<1>4. ASSUME NEW h \in Handlers, EnforceCrawlDelay(h)
      PROVE  RateTypeOK'
  <2>1. stage' \in [Handlers -> {"waiting", "paced", "fetching"}]
    BY <1>4 DEF EnforceCrawlDelay, RateTypeOK
  <2>2. /\ last' \in [at : 0..MaxTime, until : 0..(MaxTime + 2 * Delay)]
        /\ passed' \in -1..MaxTime
    <3>1. ASSUME NEW t \in Readings, NEW allowed \in BOOLEAN, CrawlGate(t, allowed)
          PROVE  /\ last' \in [at : 0..MaxTime, until : 0..(MaxTime + 2 * Delay)]
                 /\ passed' \in -1..MaxTime
      <4>1. t \in 0..MaxTime /\ clock + 2 * Delay \in 0..(MaxTime + 2 * Delay)
        BY <1>0 DEF Readings
      <4>2. clock \in -1..MaxTime
        BY <1>0
      <4> QED
        BY <3>1, <4>1, <4>2 DEF CrawlGate, RateTypeOK
    <3>2. CASE UNCHANGED <<last, passed>>
      BY <3>2 DEF RateTypeOK
    <3> QED
      BY <1>4, <3>1, <3>2 DEF EnforceCrawlDelay
  <2> QED
    BY <1>0, <1>4, <2>1, <2>2 DEF EnforceCrawlDelay, RateTypeOK
<1>5. ASSUME NEW h \in Handlers, Fetched(h)
      PROVE  RateTypeOK'
  <2>1. bucket' \in [tokens : 0..(MaxLimit * Window), ts : 0..MaxTime,
                     until : 0..(MaxTime + Window)]
    BY <1>5, TakeTokenTypes, MaxLimitIsMax DEF Fetched, RateTypeOK
  <2>2. stage' \in [Handlers -> {"waiting", "paced", "fetching"}]
    BY <1>5 DEF Fetched, RateTypeOK
  <2> QED
    BY <1>0, <1>5, <2>1, <2>2 DEF Fetched, RateTypeOK
<1>6. CASE UNCHANGED rateVars
  BY <1>0, <1>6 DEF RateTypeOK, rateVars
<1> QED
  BY <1>1, <1>2, <1>3, <1>4, <1>5, <1>6 DEF RateNext

\* The tokens of a bucket are never negative nor more than a burst of the
\* greatest limit, and no key outlives its time to live.
LEMMA RateTypeCorrect == RateSpec => []RateTypeOK
<1>1. RateInit => RateTypeOK
  <2> SUFFICES ASSUME RateInit PROVE RateTypeOK
    OBVIOUS
  <2>1. MaxLimit * Window \in Nat /\ Window \in Nat /\ MaxTime \in Nat /\ ConfigTtl \in Nat
        /\ Delay \in Nat
    BY MaxLimitIsMax, WindowAssumption, DelayAssumption
  <2>2. ideal \in Int
    BY <2>1 DEF RateInit
  <2> QED
    BY <2>1, <2>2 DEF RateInit, RateTypeOK
<1>2. RateInv /\ RateInv' /\ RateTypeOK /\ [RateNext]_rateVars => RateTypeOK'
  BY RateTypeStep
<1> QED
  BY <1>1, <1>2, RateInvariant, PTL DEF RateSpec

-----------------------------------------------------------------------------
\* pickHealthy: a position in the pool, or 0.
LEMMA PickIsInPool ==
    ASSUME NEW p \in Pods, NEW tier \in Tiers, cursor[p][tier] \in Nat
    PROVE  /\ PickHealthy(p, tier) \in 0..Len(Pool(tier))
           /\ PickHealthy(p, tier) > 0 => Pool(tier)[PickHealthy(p, tier)] \in Proxies
<1> DEFINE n == Len(Pool(tier))
           At(offset) == ((cursor[p][tier] + offset) % n) + 1
           ok == {o \in 0..(n - 1) : IsHealthy(p, Pool(tier)[At(o)])}
           first == CHOOSE o \in ok : \A q \in ok : o <= q
<1>1. Pool(tier) \in Seq(Proxies) /\ n \in Nat /\ DOMAIN Pool(tier) = 1..n
  BY PoolAssumption, LenProperties DEF Pool
<1>2. PickHealthy(p, tier) = IF ok = {} THEN 0 ELSE At(first)
  BY Zenon DEF PickHealthy
<1>3. ok \subseteq 0..(n - 1)
  OBVIOUS
<1>4. \A o \in 0..(n - 1) : At(o) \in 1..n
  <2> SUFFICES ASSUME NEW o \in 0..(n - 1) PROVE At(o) \in 1..n
    OBVIOUS
  <2> HIDE DEF n
  <2>1. n > 0 /\ cursor[p][tier] + o \in Nat
    BY <1>1
  <2>2. (cursor[p][tier] + o) % n \in 0..(n - 1)
    BY <1>1, <2>1
  <2> QED
    BY <1>1, <2>2
<1> HIDE DEF n, At, ok
<1>7. ok # {} => first \in ok
  <2> SUFFICES ASSUME ok # {} PROVE first \in ok
    OBVIOUS
  <2> DEFINE R == OpToRel(<, Nat)
  <2>1. ok \in SUBSET Nat
    BY <1>1, <1>3
  <2>2. \E o \in ok : \A m \in ok : ~(<<m, o>> \in R)
    <3>1. IsWellFoundedOn(R, Nat)
      BY NatLessThanWellFounded
    <3> HIDE DEF R
    <3> QED
      BY <2>1, <3>1, WFMin
  <2>3. \A m, o \in Nat : m < o => <<m, o>> \in R
    BY DEF OpToRel
  <2> HIDE DEF R
  <2>4. \E o \in ok : \A q \in ok : o <= q
    <3>1. PICK o \in ok : \A m \in ok : ~(<<m, o>> \in R)
      BY <2>2
    <3>2. ASSUME NEW q \in ok PROVE o <= q
      <4>1. q \in Nat /\ o \in Nat /\ ~(q < o)
        BY <2>1, <2>3, <3>1
      <4> QED
        BY <4>1
    <3> QED
      BY <3>2
  <2> QED
    BY <2>4
<1>8. CASE ok = {}
  <2>1. PickHealthy(p, tier) = 0
    BY <1>2, <1>8
  <2> QED
    BY <1>1, <2>1 DEF n
<1>9. CASE ok # {}
  <2>1. PickHealthy(p, tier) \in 1..n
    BY <1>2, <1>3, <1>4, <1>7, <1>9
  <2>2. Pool(tier)[PickHealthy(p, tier)] \in Proxies
    BY <1>1, <2>1, ElementOfSeq DEF n
  <2> QED
    BY <1>1, <2>1, <2>2 DEF n
<1> QED
  BY <1>8, <1>9

\* What PoolTypeOK says beyond the cooldowns.
Choices ==
    /\ sticky \in [Pods -> [ip : Proxies \cup {NoProxy}, left : 0..StickyMs]]
    /\ cursor \in [Pods -> [Tiers -> Nat]]
    /\ \A p \in Pods, t \in Tiers : cursor[p][t] <= Len(Pool(t))
    /\ flight \in [Workers -> Proxies \cup {NoProxy}]

LEMMA UnstuckIsSticky == Unstuck \in [ip : Proxies \cup {NoProxy}, left : 0..StickyMs]
BY TimesAssumption DEF Unstuck

LEMMA NextProxyChoices ==
    ASSUME Choices, NEW h \in Workers, NextProxy(h)
    PROVE  Choices'
<1>1. PICK p \in Pods : p = PodOf(h)
  BY DEF PodOf, Workers
<1>2. TierOf[p] \in Tiers /\ FallbackTier(TierOf[p]) \in Tiers
  BY PoolAssumption DEF FallbackTier, Tiers
<1>3. PICK tier \in Tiers : tier = IF PickHealthy(p, TierOf[p]) > 0 THEN TierOf[p]
                                   ELSE FallbackTier(TierOf[p])
  BY <1>2
<1>4. PICK idx : idx = PickHealthy(p, tier)
  OBVIOUS
<1>5. cursor[p][tier] \in Nat /\ Len(Pool(tier)) \in Nat
  BY PoolAssumption, LenProperties DEF Choices, Pool
<1>6. /\ idx \in 0..Len(Pool(tier))
      /\ idx > 0 => Pool(tier)[idx] \in Proxies
  BY <1>4, <1>5, PickIsInPool
<1>7. \/ /\ idx > 0
         /\ Start(h, Pool(tier)[idx])
         /\ cursor' = [cursor EXCEPT ![p][tier] = idx % Len(Pool(tier))]
         /\ sticky' = [sticky EXCEPT ![p] = [ip |-> Pool(tier)[idx], left |-> StickyMs]]
      \/ /\ idx = 0
         /\ sticky' = [sticky EXCEPT ![p] = Unstuck]
         /\ UNCHANGED <<flight, cursor>>
  BY <1>1, <1>3, <1>4 DEF NextProxy
<1>8. CASE idx = 0 /\ sticky' = [sticky EXCEPT ![p] = Unstuck] /\ UNCHANGED <<flight, cursor>>
  BY <1>8, UnstuckIsSticky DEF Choices
<1>9. ASSUME idx > 0, Start(h, Pool(tier)[idx]),
             cursor' = [cursor EXCEPT ![p][tier] = idx % Len(Pool(tier))],
             sticky' = [sticky EXCEPT ![p] = [ip |-> Pool(tier)[idx], left |-> StickyMs]]
      PROVE  Choices'
  <2>1. PICK ip \in Proxies : ip = Pool(tier)[idx]
    BY <1>6, <1>9
  <2>2. PICK next \in Nat : next = idx % Len(Pool(tier)) /\ next <= Len(Pool(tier))
    BY <1>5, <1>6, <1>9
  <2>3. flight' \in [Workers -> Proxies \cup {NoProxy}]
    BY <1>9, <2>1 DEF Choices, Start
  <2>4. [ip |-> ip, left |-> StickyMs] \in [ip : Proxies \cup {NoProxy}, left : 0..StickyMs]
    BY TimesAssumption
  <2>5. sticky' \in [Pods -> [ip : Proxies \cup {NoProxy}, left : 0..StickyMs]]
    BY <1>9, <2>1, <2>4 DEF Choices
  <2>6. /\ cursor' \in [Pods -> [Tiers -> Nat]]
        /\ \A q \in Pods, t \in Tiers :
              cursor'[q][t] = IF q = p /\ t = tier THEN next ELSE cursor[q][t]
    BY <1>9, <2>2 DEF Choices
  <2>7. \A q \in Pods, t \in Tiers : cursor'[q][t] <= Len(Pool(t))
    BY <2>2, <2>6 DEF Choices
  <2> QED
    BY <2>3, <2>5, <2>6, <2>7 DEF Choices
<1> QED
  BY <1>7, <1>8, <1>9

LEMMA ChoicesStep ==
    ASSUME Choices, [PoolNext]_poolVars
    PROVE  Choices'
<1>1. CASE PoolTick
  <2>1. sticky' = [p \in Pods |-> IF sticky[p].left > 1
                                  THEN [sticky[p] EXCEPT !.left = @ - 1] ELSE Unstuck]
        /\ UNCHANGED <<cursor, flight>>
    BY <1>1 DEF PoolTick
  <2>2. ASSUME NEW p \in Pods, sticky[p].left > 1
        PROVE  [sticky[p] EXCEPT !.left = @ - 1]
                  \in [ip : Proxies \cup {NoProxy}, left : 0..StickyMs]
    <3>1. PICK s \in [ip : Proxies \cup {NoProxy}, left : 0..StickyMs] : s = sticky[p]
      BY DEF Choices
    <3>2. s.left - 1 \in 0..StickyMs
      BY <2>2, <3>1, TimesAssumption
    <3>3. [s EXCEPT !.left = s.left - 1] \in [ip : Proxies \cup {NoProxy}, left : 0..StickyMs]
      BY <3>2
    <3> QED
      BY <3>1, <3>3
  <2>3. sticky' \in [Pods -> [ip : Proxies \cup {NoProxy}, left : 0..StickyMs]]
    BY <2>1, <2>2, UnstuckIsSticky
  <2> QED
    BY <2>1, <2>3 DEF Choices
<1>2. ASSUME NEW h \in Workers, ReuseSticky(h)
      PROVE  Choices'
  <2>1. PICK p \in Pods : p = PodOf(h)
    BY DEF PodOf, Workers
  <2>2. flight' = [flight EXCEPT ![h] = sticky[p].ip] /\ UNCHANGED <<sticky, cursor>>
    BY <1>2, <2>1 DEF ReuseSticky, Start
  <2>3. sticky[p].ip \in Proxies \cup {NoProxy}
    BY DEF Choices
  <2> QED
    BY <2>2, <2>3 DEF Choices
<1>3. ASSUME NEW h \in Workers, NextProxy(h)
      PROVE  Choices'
  BY <1>3, NextProxyChoices
<1>4. ASSUME NEW h \in Workers, ReportResult(h)
      PROVE  Choices'
  <2>1. flight' = [flight EXCEPT ![h] = NoProxy] /\ cursor' = cursor
    BY <1>4 DEF ReportResult
  <2>2. sticky' = sticky \/ \E p \in Pods : sticky' = [sticky EXCEPT ![p] = Unstuck]
    <3>1. PICK p \in Pods : p = PodOf(h)
      BY DEF PodOf, Workers
    <3>2. sticky' \in {sticky, [sticky EXCEPT ![p] = Unstuck]}
      BY <1>4, <3>1 DEF ReportResult, ReportFailure, ReportSuccess
    <3> QED
      BY <3>2
  <2>3. sticky' \in [Pods -> [ip : Proxies \cup {NoProxy}, left : 0..StickyMs]]
    BY <2>2, UnstuckIsSticky DEF Choices
  <2> QED
    BY <2>1, <2>3 DEF Choices
<1>5. ASSUME UNCHANGED <<sticky, cursor, flight>>
      PROVE  Choices'
  BY <1>5 DEF Choices
<1> QED
  BY <1>1, <1>2, <1>3, <1>4, <1>5 DEF PoolNext, RefreshRead, RefreshMerge, poolVars

LEMMA PoolTypeCorrect == PoolSpec => []PoolTypeOK
<1>1. PoolInit => Choices
  <2> SUFFICES ASSUME PoolInit PROVE Choices
    OBVIOUS
  <2>1. ASSUME NEW t \in Tiers
        PROVE  0 <= Len(Pool(t))
    BY PoolAssumption, LenProperties DEF Pool
  <2> QED
    BY <2>1, UnstuckIsSticky DEF PoolInit, Choices
<1>2. BanInv /\ Choices => PoolTypeOK
  <2> SUFFICES ASSUME BanInv, Choices PROVE PoolTypeOK
    OBVIOUS
  <2>1. ASSUME NEW p \in Pods, NEW t \in Tiers
        PROVE  cursor[p][t] \in 0..Len(Pool(t))
    <3>1. Len(Pool(t)) \in Nat
      BY PoolAssumption, LenProperties DEF Pool
    <3> QED
      BY <3>1 DEF Choices
  <2> QED
    BY <2>1 DEF BanInv, Cooldowns, Choices, PoolTypeOK, Times
<1> QED
  BY <1>1, <1>2, BanInit, BanStep, ChoicesStep, PTL DEF PoolSpec

-----------------------------------------------------------------------------
\* In the run of all three, each takes its own steps only.
LEMMA NodeComposes == Spec => RateSpec /\ PoolSpec /\ BatchSpec
<1>1. Init => RateInit /\ PoolInit /\ BatchInit
  BY DEF Init
<1>2. ASSUME [Next]_<<rateVars, poolVars, batchVars>>
      PROVE  [RateNext]_rateVars /\ [PoolNext]_poolVars /\ [BatchNext]_batchVars
  BY <1>2, Zenon DEF Next, RatePart, PoolPart, BatchPart
<1> QED
  BY <1>1, <1>2, PTL DEF Spec, RateSpec, PoolSpec, BatchSpec

\* Every variable that the workers share has its type: the token bucket is never
\* overdrawn, a proxy is chosen from the pools, a cycle judges its own SKUs.
THEOREM NodeTypeCorrect == Spec => []NodeTypeOK
BY NodeComposes, RateTypeCorrect, PoolTypeCorrect, BatchTypeCorrect, PTL DEF NodeTypeOK
=============================================================================
