------------------------------- MODULE Upstox -------------------------------
(* The broker's REST calls, which go through the limiter, and the cache of   *)
(* daily candles that spares most of them.  They share no state here.        *)
EXTENDS RateLimiter

CONSTANTS
    Readers, Window, Trading, LastDay, MaxLag, LookbackDays    \* of the cache

VARIABLES today, published, cache, call

candleVars == <<today, published, cache, call>>

Candles == INSTANCE CandleCache WITH Callers <- Readers

\* What the cache says it has of a symbol, it has, and nothing that was out when
\* a caller asked is missing from its answer.
CandlesSound == Candles!CandlesSound
=============================================================================
