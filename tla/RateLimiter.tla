------------------------------ MODULE RateLimiter ------------------------------
(* The limiter of -rate (internal/core/core.go). One goroutine takes a token per  *)
(* tick and offers it on an unbuffered channel; everybody who is about to send a  *)
(* request waits for that channel, which serves its receivers in the order of     *)
(* their arrival. Stop closes `done` when the scan returns: the goroutine leaves, *)
(* and so would anybody still in the line.                                        *)
EXTENDS Integers, FiniteSets, SequencesExt

VARIABLES
  ticker,   \* the goroutine: "sleeping" until a tick, "offering" a token, "gone",
            \* or "none" when the rate is not limited
  line,     \* who is blocked in Wait, longest first
  stopped   \* done is closed

limiterVars == <<ticker, line, stopped>>

InLine(p) == \E i \in DOMAIN line : line[i] = p

\* NewRateLimiter: no limiter for a rate of 0 or less.
LimiterInit(rate) ==
  /\ ticker = IF rate <= 0 THEN "none" ELSE "sleeping"
  /\ line = <<>> /\ stopped = FALSE

\* The ticker fires; a token that nobody takes is kept, and no second one with it.
TickFires ==
  /\ ticker = "sleeping"
  /\ ticker' = "offering"
  /\ UNCHANGED <<line, stopped>>

\* Either select of the goroutine sees done.
TickerReturns ==
  /\ stopped /\ ticker \in {"sleeping", "offering"}
  /\ ticker' = "gone"
  /\ UNCHANGED <<line, stopped>>

\* Wait: p joins the line ...
JoinLine(p) == line' = Append(line, p) /\ UNCHANGED <<ticker, stopped>>

\* ... and takes the token when it is at its head. The other case of its select,
\* done closed, is not taken by anybody: see StopFindsNobodyWaiting.
TakeToken(p) ==
  /\ \E i \in DOMAIN line :
       /\ line[i] = p
       /\ line' = RemoveAt(line, i)
       /\ \/ ticker = "none" /\ UNCHANGED ticker
          \/ ticker = "offering" /\ i = 1 /\ ticker' = "sleeping"
  /\ UNCHANGED stopped

Stop == stopped' = (ticker # "none") /\ UNCHANGED <<ticker, line>>

\* Every request waits in a worker that its module joins before it returns, so the
\* Stop that a scan defers never finds anybody in the line.
StopFindsNobodyWaiting == stopped => line = <<>>
================================================================================
