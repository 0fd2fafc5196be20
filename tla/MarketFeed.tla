----------------------------- MODULE MarketFeed -----------------------------
(***************************************************************************)
(* The client of the partner exchange's stream (internal/marketfeed): the  *)
(* loop that dials, reads, and pauses before it dials again, and the depth *)
(* snapshot of one symbol with its age.  Tickers, trades and candles pass  *)
(* through the same loop and are not kept here.                            *)
(*                                                                         *)
(* The pause is computed in integers of Width bits, as Go's Duration is in *)
(* 64 bits, and the count of failures it is computed from never goes down: *)
(* connectAndStream returns only with an error, so `attempt = 0` is dead.  *)
(***************************************************************************)
EXTENDS Integers, FiniteSets

CONSTANTS Snapshots,   \* depth snapshots the partner may send
          NoSnapshot,
          Width,       \* bits of a Duration
          Second,      \* one second as a Duration
          MaxAttempts  \* bound on the failures of the connection

ASSUME FeedBounds ==
    /\ NoSnapshot \notin Snapshots
    /\ Width \in Nat \ {0} /\ Second \in Nat \ {0} /\ MaxAttempts \in Nat

VARIABLES phase,     \* where Start is: dialing, reading, waiting or stopped
          attempt,   \* failures so far
          pause,     \* the pause before the next dial; 0 or less is none
          cancelled, \* the context is done
          snapshot,  \* Client.books of the symbol
          fresh      \* the snapshot is younger than stalenessWindow

feedVars == <<phase, attempt, pause, cancelled, snapshot, fresh>>

\* 1 << n, in integers without a width.
Power2[n \in Nat] == IF n = 0 THEN 1 ELSE 2 * Power2[n - 1]

\* Two's complement: what remains of n in Width bits.
Wrapped(n) == LET r == n % Power2[Width]
              IN  IF r < Power2[Width - 1] THEN r ELSE r - Power2[Width]

\* Mutant: the pause keeps doubling.
BackoffUncapped(n) == Wrapped(Wrapped(Power2[n]) * Second)

\* time.Duration(1<<attempt) * time.Second, at most 30 seconds.
Backoff(n) ==
    LET d == Wrapped(Wrapped(Power2[n]) * Second)
    IN  IF d > 30 * Second THEN 30 * Second ELSE d

FeedInit ==
    /\ phase \in {"dialing", "stopped"}  \* Start returns at once when the feed is disabled
    /\ attempt = 0 /\ pause = 0
    /\ cancelled = FALSE
    /\ snapshot = NoSnapshot /\ fresh = FALSE

Connect ==
    /\ phase = "dialing"
    /\ ~cancelled
    /\ phase' = "reading"
    /\ UNCHANGED <<attempt, pause, cancelled, snapshot, fresh>>

\* Dial or ReadMessage fails, or the read deadline passes.
ConnectionFails ==
    /\ phase \in {"dialing", "reading"}
    /\ \/ /\ cancelled
          /\ phase' = "stopped"
          /\ UNCHANGED <<attempt, pause>>
       \/ /\ ~cancelled
          /\ attempt < MaxAttempts
          /\ phase' = "waiting"
          /\ pause' = Backoff(attempt)
          /\ attempt' = attempt + 1
    /\ UNCHANGED <<cancelled, snapshot, fresh>>

\* Mutant: the loop does not look at the context.
KeepReading == "reading"

\* The context is looked at between two messages, not while one is awaited.
AfterMessage == IF cancelled THEN "stopped" ELSE "reading"

onDepth(s) ==
    /\ phase = "reading"
    /\ snapshot' = s
    /\ fresh' = TRUE
    /\ phase' = AfterMessage
    /\ UNCHANGED <<attempt, pause, cancelled>>

\* Any other message, also one that dispatch cannot decode.
OtherMessage ==
    /\ phase = "reading"
    /\ phase' = AfterMessage
    /\ UNCHANGED <<attempt, pause, cancelled, snapshot, fresh>>

\* The timer fires, or the context ends the wait.
WaitEnds ==
    /\ phase = "waiting"
    /\ \/ phase' = "dialing"
       \/ cancelled /\ phase' = "stopped"
    /\ UNCHANGED <<attempt, pause, cancelled, snapshot, fresh>>

\* run() cancels the workers' context.
CancelWorkers ==
    /\ ~cancelled
    /\ cancelled' = TRUE
    /\ UNCHANGED <<phase, attempt, pause, snapshot, fresh>>

\* stalenessWindow passes without a snapshot.
GrowStale ==
    /\ fresh
    /\ fresh' = FALSE
    /\ UNCHANGED <<phase, attempt, pause, cancelled, snapshot>>

\* GetOrderBook refuses a snapshot that is missing or stale.
HasOrderBook == snapshot # NoSnapshot /\ fresh

ReadReturns == (\E s \in Snapshots : onDepth(s)) \/ OtherMessage \/ (phase = "reading" /\ ConnectionFails)

FeedNext ==
    \/ Connect \/ ConnectionFails \/ WaitEnds \/ OtherMessage
    \/ \E s \in Snapshots : onDepth(s)
    \/ CancelWorkers \/ GrowStale

\* The dialer has a timeout and the timer fires.  A read returns because the partner
\* sends messages several times a second or the deadline passes.
FeedFairness ==
    /\ WF_feedVars(Connect \/ (phase = "dialing" /\ ConnectionFails))
    /\ WF_feedVars(ReadReturns)
    /\ WF_feedVars(WaitEnds)

\* The pause is never longer than 30 seconds, and there is one before every dial
\* until the doubled duration no longer fits its width (client.go Start).
BackoffIsCapped ==
    phase = "waiting" =>
        /\ pause <= 30 * Second
        /\ Power2[attempt - 1] * Second < Power2[Width - 1] => pause >= Second
=============================================================================
