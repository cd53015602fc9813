------------------------------ MODULE KafkaBus ------------------------------
(***************************************************************************)
(* The multi-process bus (event_bus/kafka_bus.py), for one partition and   *)
(* the consumer group of one handler: the handler runs, then the offset is *)
(* committed.  An event outside the union the consumer parses with         *)
(* (core/events.py 663: CancelRejected and AmendRejected are not in it)    *)
(* cannot be read back: its offset is committed, no handler sees it.  The  *)
(* broker keeps the log and the committed offset; a crash, or a stop that  *)
(* cancels the consumer inside a handler, loses everything else.  Events   *)
(* are known by their offsets.                                             *)
(***************************************************************************)
EXTENDS Scene, Absence, Naturals

CONSTANTS
  MaxLog,      \* bound: events published
  MaxRestarts  \* bound: times the consumer goes down

VARIABLES
  log,       \* the end of the log
  unreadable, \* the events in it that do not parse
  committed, \* the group's committed offset, or None
  reader,    \* the consumer: down, up, handling or committing
  offset,    \* the offset it has read up to
  restarts,  \* times it went down
  handled,   \* history: the events the handler has been through with
  firstSaved \* history: the first offset the group ever committed, or None

kafkaVars == <<log, unreadable, committed, reader, offset, restarts, handled, firstSaved>>

KafkaInit ==
  /\ log = 0 /\ unreadable = {} /\ committed = None /\ reader = "down" /\ offset = 0 /\ restarts = 0
  /\ handled = {} /\ firstSaved = None

(* Any event can be written; whether it can be read back is a matter of its type. *)
KafkaPublish ==
  /\ log < MaxLog /\ log' = log + 1
  /\ \E odd \in SUBSET {log'} : unreadable' = unreadable \union odd
  /\ UNCHANGED <<committed, reader, offset, restarts, handled, firstSaved>>

(* A group that never committed begins at the end: auto_offset_reset is latest. *)
Subscribed ==
  /\ reader = "down"
  /\ reader' = "up"
  /\ offset' = IF committed = None THEN log ELSE committed
  /\ UNCHANGED <<log, unreadable, committed, restarts, handled, firstSaved>>

(* Mutant: the offset is committed before the handler runs. *)
ReadCommitting ==
  /\ reader = "up" /\ offset < log
  /\ offset' = offset + 1 /\ reader' = "handling"
  /\ committed' = offset'
  /\ firstSaved' = IF firstSaved = None THEN offset' ELSE firstSaved
  /\ UNCHANGED <<log, unreadable, restarts, handled>>

Read ==
  /\ reader = "up" /\ offset < log
  /\ offset' = offset + 1 /\ reader' = "handling"
  /\ UNCHANGED <<log, unreadable, committed, restarts, handled, firstSaved>>

(* The handler returns, or raises and the error callback has been told. *)
HandlerDone ==
  /\ reader = "handling" /\ offset \notin unreadable
  /\ reader' = "committing" /\ handled' = handled \union {offset}
  /\ UNCHANGED <<log, unreadable, committed, offset, restarts, firstSaved>>

(* validate_json raises: that is logged, and nobody is told but the broker. *)
SkipUnreadable ==
  /\ reader = "handling" /\ offset \in unreadable
  /\ reader' = "committing"
  /\ UNCHANGED <<log, unreadable, committed, offset, restarts, handled, firstSaved>>

Commit ==
  /\ reader = "committing"
  /\ reader' = "up" /\ committed' = offset
  /\ firstSaved' = IF firstSaved = None THEN offset ELSE firstSaved
  /\ UNCHANGED <<log, unreadable, offset, restarts, handled>>

(* A crash, a stop, or a commit that raises: that ends the consumer as well. *)
GoesDown ==
  /\ reader # "down" /\ restarts < MaxRestarts
  /\ reader' = "down" /\ restarts' = restarts + 1
  /\ UNCHANGED <<log, unreadable, committed, offset, handled, firstSaved>>

KafkaNext == KafkaPublish \/ Subscribed \/ Read \/ HandlerDone \/ SkipUnreadable \/ Commit \/ GoesDown

KafkaSpec == KafkaInit /\ [][KafkaNext]_kafkaVars

----------------------------------------------------------------------------
(* From the first commit of its group on, a handler misses no event it could read:
   whenever the consumer goes down, the handler is called again with what it had not
   been through with, perhaps twice with the last one.  Of the rest it never hears. *)
KafkaSkipsOnlyUnreadable ==
  LET seen == handled \union unreadable IN
  /\ firstSaved # None /\ reader # "down" => firstSaved..(offset - 1) \subseteq seen
  /\ firstSaved # None => firstSaved..committed \subseteq seen
=============================================================================
