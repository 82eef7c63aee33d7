---------------------------- MODULE SignalBatch ----------------------------
(***************************************************************************)
(* The signals of one merchant's cycle: generate_cycle_signals in          *)
(* signals/dispatcher.py, the batches of signals/ai_engine.py with their   *)
(* cache (signals/cache.py) and the rule-based fallback                    *)
(* (signals/fallback.py).  A sub-batch may wait for Gemini for 23 seconds, *)
(* so the cycles of a merchant may overlap, in one API process or several. *)
(*                                                                         *)
(* What a verdict says is a choice; which SKU gets one is not.             *)
(***************************************************************************)
EXTENDS Integers, FiniteSets

CONSTANTS
    Skus,        \* the merchant's products
    Cycles,      \* calls of generate_cycle_signals that may run at once
    SkusOf,      \* the products a call may find active, priced and with a snapshot
    Verdicts,    \* RAISE, LOWER, HOLD
    BATCH_SIZE

ASSUME BatchAssumption ==
    BATCH_SIZE \in Nat \ {0} /\ SkusOf \in [Cycles -> SUBSET Skus] /\ IsFiniteSet(Cycles)

VARIABLES
    dedup,      \* <<sku, verdict>> whose signal:dedup key is set
    cached,     \* SKUs with an ai:signal entry, for one market or another
    exhausted,  \* ai:quota-exhausted is set
    run,        \* the cycles
    written     \* ghost: signals written since the dedup key was last absent

batchVars == <<dedup, cached, exhausted, run, written>>

Keys == Skus \X Verdicts

\* A cycle: rest is for later sub-batches, misses for Gemini, the verdicts in queue
\* are to be written.  The ghost due holds what it has read and not yet judged.
Done == [pc |-> "done", rest |-> {}, misses |-> {}, attempt |-> 0,
         queue |-> {}, item |-> <<>>, due |-> {}]

\* One verdict for each of these SKUs, by the rules or from the cache.
Judgements(S) == {{[key |-> <<s, f[s]>>, fresh |-> FALSE] : s \in S} : f \in [S -> Verdicts]}

Free(c) == run[c].pc = "loop" /\ run[c].queue = {}

BatchInit ==
    /\ dedup = {} /\ cached = {} /\ exhausted = FALSE
    /\ run = [c \in Cycles |-> Done]
    /\ written = [k \in Keys |-> 0]
-----------------------------------------------------------------------------
(***************************************************************************)
(* generate_cycle_signals and process_merchant_batch.                      *)
(***************************************************************************)
\* The quota's flag is read once, here: then, or without AI in the plan, the rules
\* judge.
Begin(c, S) ==
    /\ run[c].pc = "done"
    /\ \/ \E q \in Judgements(S) :
             run' = [run EXCEPT ![c] = [Done EXCEPT !.pc = "loop", !.due = S, !.queue = q]]
       \/ /\ ~exhausted
          /\ run' = [run EXCEPT ![c] = [Done EXCEPT !.pc = "loop", !.due = S, !.rest = S]]
    /\ UNCHANGED <<dedup, cached, exhausted, written>>

\* _process_sub_batch up to the call: what the cache has for the market is written.
SubBatch(c, chunk, hits) ==
    /\ Free(c) /\ run[c].misses = {}
    /\ chunk # {} /\ chunk \subseteq run[c].rest
    /\ chunk = run[c].rest \/ Cardinality(chunk) = BATCH_SIZE
    /\ Cardinality(chunk) <= BATCH_SIZE
    /\ hits \subseteq chunk \cap cached
    /\ \E q \in Judgements(hits) :
          run' = [run EXCEPT ![c].rest = @ \ chunk, ![c].misses = chunk \ hits,
                             ![c].attempt = 0, ![c].queue = q]
    /\ UNCHANGED <<dedup, cached, exhausted, written>>

\* The cycle goes on with these verdicts for what the call was made for.
Answered(c, q) == run' = [run EXCEPT ![c].misses = {}, ![c].queue = q]

\* _call_gemini_batch: a first timeout is tried again.
TimesOut(c) ==
    /\ Free(c) /\ run[c].misses # {}
    /\ run[c].attempt = 0
    /\ run' = [run EXCEPT ![c].attempt = 1]
    /\ UNCHANGED <<dedup, cached, exhausted, written>>

\* A second one, an error, a rate limit or nothing valid: the rules judge.  An
\* exhausted quota sets its flag, which this batch does not read again.
Fails(c) ==
    /\ Free(c) /\ run[c].misses # {}
    /\ \E q \in Judgements(run[c].misses) : Answered(c, q)
    /\ exhausted' \in {exhausted, TRUE}
    /\ UNCHANGED <<dedup, cached, written>>

\* Fault: SKUs the reply leaves out are not given to the rules.
RepliesOnly(c, reply) ==
    /\ Free(c) /\ run[c].misses # {}
    /\ reply # {} /\ reply \subseteq run[c].misses \X Verdicts
    /\ Answered(c, {[key |-> k, fresh |-> TRUE] : k \in reply})
    /\ UNCHANGED <<dedup, cached, exhausted, written>>

\* The valid items of a reply, which may miss a SKU or hold it twice.
Replies(c, reply) ==
    /\ Free(c) /\ run[c].misses # {}
    /\ reply # {} /\ reply \subseteq run[c].misses \X Verdicts
    /\ \E q \in Judgements({s \in run[c].misses : \A v \in Verdicts : <<s, v>> \notin reply}) :
          Answered(c, q \cup {[key |-> k, fresh |-> TRUE] : k \in reply})
    /\ UNCHANGED <<dedup, cached, exhausted, written>>
-----------------------------------------------------------------------------
(***************************************************************************)
(* Writing a signal: check_and_set_dedup is two commands.                  *)
(***************************************************************************)
Exists(c, item) ==
    /\ run[c].pc = "loop" /\ item \in run[c].queue
    /\ IF item.key \in dedup
       THEN run' = [run EXCEPT ![c].queue = @ \ {item}, ![c].due = @ \ {item.key[1]}]
       ELSE run' = [run EXCEPT ![c].pc = "setex", ![c].item = item]
    /\ UNCHANGED <<dedup, cached, exhausted, written>>

\* Fault: the key is not set.
SetExNoKey(c) ==
    LET item == run[c].item
    IN  /\ run[c].pc = "setex"
        /\ written' = [written EXCEPT ![item.key] = @ + 1]
        /\ cached' = IF item.fresh THEN cached \cup {item.key[1]} ELSE cached
        /\ run' = [run EXCEPT ![c].pc = "loop", ![c].item = <<>>,
                              ![c].queue = @ \ {item}, ![c].due = @ \ {item.key[1]}]
        /\ UNCHANGED <<dedup, exhausted>>

\* SETEX, the row, and for Gemini's verdict the cache.
SetEx(c) ==
    LET item == run[c].item
    IN  /\ run[c].pc = "setex"
        /\ dedup' = dedup \cup {item.key}
        /\ written' = [written EXCEPT ![item.key] = @ + 1]
        /\ cached' = IF item.fresh THEN cached \cup {item.key[1]} ELSE cached
        /\ run' = [run EXCEPT ![c].pc = "loop", ![c].item = <<>>,
                              ![c].queue = @ \ {item}, ![c].due = @ \ {item.key[1]}]
        /\ UNCHANGED exhausted

Ends(c) ==
    /\ Free(c) /\ run[c].misses = {} /\ run[c].rest = {}
    /\ run' = [run EXCEPT ![c].pc = "done"]
    /\ UNCHANGED <<dedup, cached, exhausted, written>>

\* The transaction fails or the process dies; the keys stay.
CycleLost(c) ==
    /\ run[c].pc # "done"
    /\ run' = [run EXCEPT ![c] = Done]
    /\ UNCHANGED <<dedup, cached, exhausted, written>>

DedupLapses(k) ==
    /\ k \in dedup
    /\ dedup' = dedup \ {k}
    /\ written' = [written EXCEPT ![k] = 0]
    /\ UNCHANGED <<cached, exhausted, run>>

CacheExpires(s) ==
    /\ s \in cached
    /\ cached' = cached \ {s}
    /\ UNCHANGED <<dedup, exhausted, run, written>>

Midnight == exhausted /\ exhausted' = FALSE /\ UNCHANGED <<dedup, cached, run, written>>
-----------------------------------------------------------------------------
CycleStep(c) ==
    \/ \E S \in SUBSET SkusOf[c] \ {{}} : Begin(c, S)
    \/ \E chunk \in SUBSET run[c].rest, hits \in SUBSET cached : SubBatch(c, chunk, hits)
    \/ TimesOut(c) \/ Fails(c)
    \/ \E reply \in SUBSET Keys : Replies(c, reply)
    \/ \E item \in run[c].queue : Exists(c, item)
    \/ SetEx(c) \/ Ends(c) \/ CycleLost(c)

BatchNext ==
    \/ \E c \in Cycles : CycleStep(c)
    \/ \E k \in Keys : DedupLapses(k)
    \/ \E s \in Skus : CacheExpires(s)
    \/ Midnight

BatchSpec == BatchInit /\ [][BatchNext]_batchVars
-----------------------------------------------------------------------------
Items == [key : Keys, fresh : BOOLEAN]

BatchTypeOK ==
    /\ dedup \subseteq Keys /\ cached \subseteq Skus /\ exhausted \in BOOLEAN
    /\ \A c \in Cycles :
          /\ run[c].pc \in {"done", "loop", "setex"}
          /\ run[c].rest \cup run[c].misses \cup run[c].due \subseteq Skus
          /\ run[c].queue \subseteq Items
          /\ run[c].pc = "setex" => run[c].item \in run[c].queue
          /\ run[c].attempt \in {0, 1}
    /\ written \in [Keys -> Nat]

\* No SKU of a cycle falls between cache, Gemini and rules: when the cycle ends,
\* each that it read has been judged, whatever the sub-batches, timeouts, partial
\* replies, quota and other cycles did (ai_engine.py:187-229).
NoneForgotten == \A c \in Cycles : run[c].pc = "done" => run[c].due = {}

\* Within an hour a SKU gets a verdict once for each cycle under way, although
\* EXISTS and SETEX are two commands and keys expire between them: cycles in
\* sequence never repeat a signal (check_and_set_dedup).
SignalsPerHour == \A k \in Keys : written[k] <= Cardinality(Cycles)
=============================================================================
