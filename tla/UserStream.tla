----------------------------- MODULE UserStream -----------------------------
(***************************************************************************)
(* The private connection to the venue: the listen key and its keepalive   *)
(* (listen_key.py) and the session loop that streams with it               *)
(* (user_data.py).                                                         *)
(*                                                                         *)
(* A key is a number, fresh whenever one is issued.  A session on a key    *)
(* that has expired stays open and silent.  What the venue sends and what  *)
(* the frames do is left to the module that extends this one.              *)
(***************************************************************************)
EXTENDS Integers, Sequences

VARIABLES
  listen,   \* ListenKeyManager: _key, _recreation_event, a reissue under way
  validKey, \* external: the key the venue honours, 0 if it has expired
  stream,   \* BinanceUserDataStream: where its loop is, the key it streams with
  wire      \* frames received on the open connection, not yet handled

linkVars == <<listen, validKey, stream, wire>>

(* start: the key is obtained, and the event set, before the session loop. *)
FreshLink(key) ==
  /\ listen' = [key |-> key, event |-> TRUE, reissue |-> FALSE]
  /\ validKey' = key
  /\ stream' = [at |-> "waiting", key |-> 0]
  /\ wire' = << >>

LinkInit ==
  /\ listen = [key |-> 1, event |-> TRUE, reissue |-> FALSE]
  /\ validKey = 1
  /\ stream = [at |-> "waiting", key |-> 0]
  /\ wire = << >>

----------------------------------------------------------------------------
(* The keepalive loop.  A refresh that succeeds changes nothing. *)

KeepaliveFails ==
  /\ ~listen.reissue
  /\ listen' = [listen EXCEPT !.reissue = TRUE]
  /\ UNCHANGED <<validKey, stream, wire>>

(* A key the venue no longer honours is found out at the next refresh. *)
KeepaliveRefused == validKey # listen.key /\ KeepaliveFails

Reissue ==
  /\ listen.reissue
  /\ listen' = [key |-> listen.key + 1, event |-> TRUE, reissue |-> FALSE]
  /\ validKey' = listen.key + 1
  /\ UNCHANGED <<stream, wire>>

ReissueFails ==
  /\ listen.reissue
  /\ listen' = [listen EXCEPT !.reissue = FALSE]
  /\ UNCHANGED <<validKey, stream, wire>>

(* External: the venue forgets the key. *)
KeyExpires ==
  /\ validKey # 0
  /\ validKey' = 0
  /\ UNCHANGED <<listen, stream, wire>>

----------------------------------------------------------------------------
(* The session loop.  wait_for_recreation takes the event, before every
   connection and, in a task of its own, during a session. *)
TakeKey ==
  /\ stream.at = "waiting" /\ listen.event
  /\ listen' = [listen EXCEPT !.event = FALSE]
  /\ stream' = [at |-> "connecting", key |-> listen.key]
  /\ UNCHANGED <<validKey, wire>>

Connect ==
  /\ stream.at = "connecting"
  /\ stream' = [stream EXCEPT !.at = "open"]
  /\ UNCHANGED <<listen, validKey, wire>>

ConnectFails ==
  /\ stream.at = "connecting"
  /\ stream' = [stream EXCEPT !.at = "backoff"]
  /\ UNCHANGED <<listen, validKey, wire>>

(* The recreation task wins the race against recv: frames not handled yet are
   lost, and the loop is back where it waits for the event just taken. *)
Recreated ==
  /\ stream.at = "open" /\ listen.event
  /\ listen' = [listen EXCEPT !.event = FALSE]
  /\ stream' = [stream EXCEPT !.at = "waiting"]
  /\ wire' = << >>
  /\ UNCHANGED validKey

(* External: the connection drops, or the venue reports listenKeyExpired. *)
Disconnect ==
  /\ stream.at = "open"
  /\ stream' = [stream EXCEPT !.at = "backoff"]
  /\ wire' = << >>
  /\ UNCHANGED <<listen, validKey>>

(* Mutant: clear, then wait. *)
BackoffEndsCleared ==
  /\ stream.at = "backoff"
  /\ stream' = [stream EXCEPT !.at = "waiting"]
  /\ listen' = [listen EXCEPT !.event = FALSE]
  /\ UNCHANGED <<validKey, wire>>

(* asyncio.sleep(backoff) is over; how long it was does not matter here. *)
BackoffEnds ==
  /\ stream.at = "backoff"
  /\ stream' = [stream EXCEPT !.at = "waiting"]
  /\ UNCHANGED <<listen, validKey, wire>>

(* External: a frame reaches the process, if a session is open on a valid key. *)
Hears == stream.at = "open" /\ stream.key = validKey
Sends(frame) == wire' = IF Hears THEN Append(wire, frame) ELSE wire

LinkStep == TakeKey \/ Connect \/ Recreated \/ BackoffEnds
=============================================================================
