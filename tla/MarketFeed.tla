----------------------------- MODULE MarketFeed -----------------------------
(***************************************************************************)
(* The feed handler (feed_handler/engine.py) over the public WebSocket     *)
(* (public_ws.py): connect, consume, reconnect with backoff, give up; a    *)
(* watchdog that closes a connection that has fallen silent; stop.         *)
(*                                                                         *)
(* The watchdog's clock is last: "fresh" until stale_threshold_seconds     *)
(* have passed without a message, None when it has just fired.             *)
(***************************************************************************)
EXTENDS Scene, Absence, Integers

CONSTANT MaxReconnects

ASSUME ReconnectAssumption == MaxReconnects \in Nat

VARIABLES
  feed,   \* run's position, attempt, _stopping, whether the watchdog task is alive
  socket, \* external: "closed", "open" (messages flow), "silent", "ended"
  last,   \* _last_message_monotonic_ns
  alerts, \* alerts published: stale feed, circuit breaker
  stopAt  \* history: where run was when stop was called

feedVars == <<feed, socket, last, alerts, stopAt>>

FeedInit ==
  /\ feed = [at |-> "connecting", attempt |-> 0, stopping |-> FALSE, watched |-> TRUE]
  /\ socket = "closed"
  /\ last = None
  /\ alerts = {}
  /\ stopAt = None

(* The head of the loop, where a stop is noticed. *)
Looped == feed' = [feed EXCEPT !.at = IF feed.stopping THEN "stopped" ELSE "connecting"]

FeedConnect ==
  /\ feed.at = "connecting"
  /\ feed' = [feed EXCEPT !.at = "consuming", !.attempt = 0]
  /\ socket' = "open"
  /\ last' = "fresh"
  /\ UNCHANGED <<alerts, stopAt>>

(* FeedDisconnectedError: backoff, or the circuit breaker after too many failures
   in a row; a full queue at its alert ends the handler with BackpressureError. *)
Failed ==
  /\ socket' = "closed"
  /\ IF feed.stopping
     THEN feed' = [feed EXCEPT !.at = "stopped"] /\ UNCHANGED alerts
     ELSE IF feed.attempt + 1 > MaxReconnects
     THEN \/ feed' = [feed EXCEPT !.at = "broken"] /\ alerts' = alerts \union {"breaker"}
          \/ feed' = [feed EXCEPT !.at = "crashed"] /\ UNCHANGED alerts
     ELSE feed' = [feed EXCEPT !.at = "backoff", !.attempt = @ + 1] /\ UNCHANGED alerts
  /\ UNCHANGED <<last, stopAt>>

FeedConnectFails == feed.at = "connecting" /\ Failed

FeedDrops == feed.at = "consuming" /\ socket # "ended" /\ Failed

FeedBackoffEnds ==
  /\ feed.at = "backoff"
  /\ Looped
  /\ UNCHANGED <<socket, last, alerts, stopAt>>

(* A message, of whatever kind; the normalizer's own errors are swallowed. *)
FeedMessage ==
  /\ feed.at = "consuming" /\ socket = "open"
  /\ last' = "fresh"
  /\ UNCHANGED <<feed, socket, alerts, stopAt>>

(* Any other exception, as BackpressureError of a publish, ends the handler. *)
FeedCrashes ==
  /\ feed.at = "consuming" /\ socket = "open"
  /\ feed' = [feed EXCEPT !.at = "crashed"]
  /\ socket' = "closed"
  /\ UNCHANGED <<last, alerts, stopAt>>

(* The connection was closed from this side: the stream of messages ends without
   an error, and the loop goes on without a delay. *)
FeedStreamEnds ==
  /\ feed.at = "consuming" /\ socket = "ended"
  /\ Looped
  /\ socket' = "closed"
  /\ UNCHANGED <<last, alerts, stopAt>>

(* connector.disconnect has nothing to close while a connection is being made. *)
Disconnected == IF socket \in {"open", "silent"} THEN "ended" ELSE socket

(* The watchdog finds that nothing has been heard for too long. *)
SeesSilence ==
  feed.watched /\ ~feed.stopping /\ feed.at \notin {"stopped", "broken", "crashed"} /\ last = "stale"

(* Mutant: a silent connection is reported, not closed. *)
WatchdogAlertsOnly ==
  /\ SeesSilence
  /\ alerts' = alerts \union {"stale"}
  /\ last' = None
  /\ UNCHANGED <<feed, socket, stopAt>>

Watchdog ==
  /\ SeesSilence
  /\ alerts' = alerts \union {"stale"}
  /\ socket' = Disconnected
  /\ last' = None
  /\ UNCHANGED <<feed, stopAt>>

(* The alert comes first: where it meets a full queue, BackpressureError ends the task
   before it disconnects, and nobody looks at the task. *)
WatchdogDies ==
  /\ SeesSilence
  /\ feed' = [feed EXCEPT !.watched = FALSE]
  /\ UNCHANGED <<socket, last, alerts, stopAt>>

(* Mutant: stop leaves the connection alone. *)
StopFlagOnly ==
  /\ ~feed.stopping
  /\ feed' = [feed EXCEPT !.stopping = TRUE]
  /\ stopAt' = feed.at
  /\ UNCHANGED <<socket, last, alerts>>

Stop ==
  /\ ~feed.stopping
  /\ feed' = [feed EXCEPT !.stopping = TRUE]
  /\ stopAt' = feed.at
  /\ socket' = Disconnected
  /\ UNCHANGED <<last, alerts>>

(* External: the connection falls silent without being closed; time passes. *)
FallsSilent ==
  /\ socket = "open"
  /\ socket' = "silent"
  /\ UNCHANGED <<feed, last, alerts, stopAt>>

ThresholdPasses ==
  /\ last = "fresh" /\ socket # "open"
  /\ last' = "stale"
  /\ UNCHANGED <<feed, socket, alerts, stopAt>>

FeedNext ==
  \/ FeedConnect \/ FeedConnectFails \/ FeedDrops \/ FeedBackoffEnds \/ FeedMessage
  \/ FeedCrashes \/ FeedStreamEnds \/ Watchdog \/ WatchdogDies \/ Stop \/ FallsSilent \/ ThresholdPasses

OnFeed == Moves("feed")

(* The handler's two tasks run, the connector's calls return and time passes. *)
FeedFair ==
  /\ WF_feedVars(OnFeed /\ FeedStreamEnds) /\ WF_feedVars(OnFeed /\ FeedBackoffEnds)
  /\ WF_feedVars(OnFeed /\ (FeedConnect \/ FeedConnectFails))
  /\ WF_feedVars(OnFeed /\ Watchdog) /\ WF_feedVars(OnFeed /\ ThresholdPasses)

----------------------------------------------------------------------------
(* A connection that falls silent is not waited on for ever, wherever the loop was when
   it did, unless the handler is being stopped or a full queue at an alert has ended the
   watchdog.  Nothing then closes a silent connection any more. *)
NoSilentFeed == []<>~(socket = "silent" /\ ~feed.stopping /\ feed.watched)

(* A stop ends the handler, unless it falls into a connect: the connection made
   after it is consumed, and nothing looks at the flag until it drops. *)
StopEnds ==
  []<>(feed.stopping /\ stopAt # "connecting" => feed.at \in {"stopped", "broken", "crashed"})
=============================================================================
