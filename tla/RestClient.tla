----------------------------- MODULE RestClient -----------------------------
(***************************************************************************)
(* The REST client (binance/rest_client.py) and its token bucket           *)
(* (order_gateways/rate_limiter.py): requests wait their turn for tokens,  *)
(* are signed with the clock offset of that moment, and a signed one that  *)
(* the venue finds out of time is signed and sent again after a look at    *)
(* the venue's clock.                                                      *)
(*                                                                         *)
(* Time is counted in ticks, in which the bucket regains Refill tokens.    *)
(* skew, the venue's clock less the local one, is what offset should be.   *)
(***************************************************************************)
EXTENDS Absence, Integers, Sequences, FiniteSetsExt, Sums

CONSTANTS
  Requests, \* requests, each made once
  Weight,   \* their weights, none above the capacity (acquire raises)
  Capacity, Refill,
  MaxDrift, \* max_clock_drift_ms
  MaxTick, MaxSkew \* bounds: time, and how far the clocks get apart

ASSUME RequestAssumption == None \notin Requests /\ "loop" \notin Requests /\ None # "loop"
ASSUME BudgetAssumption == Weight \in [Requests -> Nat] /\ Capacity \in Nat /\ Refill \in Nat

VARIABLES
  tick,    \* monotonic_ns
  bucket,  \* the tokens and when they were last refilled
  turns,   \* requests in acquire, the first with the lock
  req,     \* request -> its position, the offset it was signed with, its attempt
  clockSync, \* _resync_lock's holder and the skew when it looked at the local clock
  offset,  \* _server_time_offset_ms
  online,  \* _connected
  skew,    \* external
  grants,  \* history: the requests granted, and when
  stepped  \* history: requests since whose look at the clock the skew has changed

restVars == <<tick, bucket, turns, req, clockSync, offset, online, skew, grants, stepped>>

RestInit ==
  /\ tick = 0
  /\ bucket = [tokens |-> Capacity, at |-> 0]
  /\ turns = << >>
  /\ req = [r \in Requests |-> [at |-> "new", signed |-> 0, again |-> FALSE]]
  /\ clockSync = [by |-> None, before |-> 0]
  /\ offset = 0
  /\ online = FALSE
  /\ skew \in 0..MaxSkew
  /\ grants = << >>
  /\ stepped = {}

Reaches(r, where) == req' = [req EXCEPT ![r].at = where]

----------------------------------------------------------------------------
(* connect: the first look at the venue's clock. *)
OpenClient ==
  /\ ~online
  /\ skew \in -MaxDrift..MaxDrift     \* otherwise OrderGatewayError
  /\ online' = TRUE
  /\ offset' = skew
  /\ UNCHANGED <<tick, bucket, turns, req, clockSync, skew, grants, stepped>>

(* request: an error while not connected, or in line for the limiter's lock. *)
Request(r) ==
  /\ req[r].at = "new" /\ online
  /\ Reaches(r, "waiting")
  /\ turns' = Append(turns, r)
  /\ UNCHANGED <<tick, bucket, clockSync, offset, online, skew, grants, stepped>>

(* Mutant: the bucket fills without a bound. *)
RefilledUncapped == [tokens |-> bucket.tokens + (tick - bucket.at) * Refill, at |-> tick]

Refilled ==
  [tokens |-> Min({Capacity, bucket.tokens + (tick - bucket.at) * Refill}), at |-> tick]

Signed(r) == [req EXCEPT ![r].at = "sent", ![r].signed = offset]

(* acquire: the holder of the lock sleeps, and looks again, until its tokens are
   there; then the query is built. *)
Acquire ==
  /\ turns # << >>
  /\ LET r == Head(turns)
         full == Refilled
     IN  IF full.tokens >= Weight[r]
         THEN /\ bucket' = [full EXCEPT !.tokens = @ - Weight[r]]
              /\ turns' = Tail(turns)
              /\ req' = Signed(r)
              /\ grants' = Append(grants, [at |-> tick, weight |-> Weight[r]])
         ELSE bucket' = full /\ UNCHANGED <<turns, req, grants>>
  /\ UNCHANGED <<tick, clockSync, offset, online, skew, stepped>>

(* translate_error: a rate limit, any other code (a refusal of the key, of the order
   or of the request), or no code at all. *)
Translated == {"limited", "refused", "transport"}

(* The venue's answer: only a -1021 the first time is not the end of the request. *)
Answered(r) ==
  /\ req[r].at = "sent"
  /\ IF req[r].signed = skew
     THEN \E result \in Translated \union {"done"} : Reaches(r, result)
     ELSE \/ Reaches(r, IF req[r].again THEN "stale" ELSE "resync")
          \/ \E result \in Translated \ {"refused"} : Reaches(r, result)
  /\ UNCHANGED <<tick, bucket, turns, clockSync, offset, online, skew, grants, stepped>>

----------------------------------------------------------------------------
(* _sync_server_time under _resync_lock, for a request or for the periodic loop. *)

TakeLock(who) == clockSync.by = None /\ clockSync' = [by |-> who, before |-> skew]

SyncBegins(r) ==
  /\ req[r].at = "resync"
  /\ TakeLock(r)
  /\ stepped' = stepped \ {r}
  /\ UNCHANGED <<tick, bucket, turns, req, offset, online, skew, grants>>

LoopSyncBegins ==
  /\ online
  /\ TakeLock("loop")
  /\ UNCHANGED <<tick, bucket, turns, req, offset, online, skew, grants, stepped>>

(* The local clock is taken half way between its values before and after. *)
Measured == -((-(clockSync.before + skew)) \div 2)

(* Mutant: the request is sent again as it was signed. *)
ResignedAsBefore(r) == [req EXCEPT ![r].at = "sent", ![r].again = TRUE]

Resigned(r) == [req EXCEPT ![r].at = "sent", ![r].again = TRUE, ![r].signed = offset']

SyncEnds ==
  /\ clockSync.by # None
  /\ clockSync' = [by |-> None, before |-> 0]
  /\ \/ /\ offset' = Measured
        /\ req' = IF clockSync.by = "loop" THEN req ELSE Resigned(clockSync.by)
     \/ /\ UNCHANGED offset        \* /time fails: the request with it, the loop goes on
        /\ IF clockSync.by = "loop" THEN UNCHANGED req ELSE Reaches(clockSync.by, "transport")
  /\ UNCHANGED <<tick, bucket, turns, online, skew, grants, stepped>>

----------------------------------------------------------------------------
(* External: time passes, and the host's clock is stepped. *)

TickPasses ==
  /\ tick < MaxTick
  /\ tick' = tick + 1
  /\ UNCHANGED <<bucket, turns, req, clockSync, offset, online, skew, grants, stepped>>

ClockSteps ==
  /\ \E s \in 0..MaxSkew : s # skew /\ skew' = s
  /\ stepped' = Requests
  /\ UNCHANGED <<tick, bucket, turns, req, clockSync, offset, online, grants>>

RestNext ==
  \/ OpenClient \/ Acquire \/ LoopSyncBegins \/ SyncEnds \/ TickPasses \/ ClockSteps
  \/ \E r \in Requests : Request(r) \/ Answered(r) \/ SyncBegins(r)

RestSpec == RestInit /\ [][RestNext]_restVars

----------------------------------------------------------------------------
(* Over any stretch of time, the limiter grants no more weight than a full bucket
   and what it regains meanwhile.  (The look at the clock and the second sending
   of a request are not granted by it.) *)
Weights == [k \in DOMAIN grants |-> grants[k].weight]
Granted(i, j) == Sums(Weights)[j] - Sums(Weights)[i - 1]

WithinBudget ==
  \A i \in DOMAIN grants : \A j \in i..Len(grants) :
    Granted(i, j) <= Capacity + (grants[j].at - grants[i].at) * Refill

(* A request is given up as out of time only if the clock was stepped again after
   the client began to look at the venue's: neither another request's look nor the
   periodic one spoils its own. *)
StaleClockHeals == \A r \in Requests : req[r].at = "stale" => r \in stepped
=============================================================================
