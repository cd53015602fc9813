------------------------------ MODULE EventBus ------------------------------
(***************************************************************************)
(* The single-process bus (event_bus/asyncio_bus.py), for one topic: a     *)
(* bounded queue and a consumer task per subscriber, publishes that raise  *)
(* at the first full queue, and the shutdown by sentinel.  A handler that  *)
(* raises has returned, as far as the bus is concerned.  Events are        *)
(* numbered as they are published.                                         *)
(***************************************************************************)
EXTENDS Scene, Naturals, SequencesExt

CONSTANTS
  Handlers,   \* the handlers that may subscribe
  QueueSize,  \* queue_size
  MaxEvents   \* bound: publishes

ASSUME QueueAssumption == QueueSize \in Nat

VARIABLES
  bus,      \* built, running, signalling (stop puts the sentinels), waiting, stopped
  subs,     \* _subscribers of the topic, in order
  queue,    \* handler -> its queue
  task,     \* handler -> its consumer: none, waiting, busy, stuck or done
  toSignal, \* the subscriptions stop has still to put the sentinel to
  events,   \* number of events published
  heard,    \* history: handler -> the events it was called with
  owed,     \* history: handler -> the events whose publish returned
  cut       \* history: the handlers whose consumer was cancelled

busVars == <<bus, subs, queue, task, toSignal, events, heard, owed, cut>>

Sentinel == 0

BusInit ==
  /\ bus = "built" /\ subs = << >> /\ toSignal = << >> /\ events = 0 /\ cut = {}
  /\ queue = [h \in Handlers |-> << >>] /\ heard = queue
  /\ task = [h \in Handlers |-> "none"]
  /\ owed = [h \in Handlers |-> {}]

Full(h) == Len(queue[h]) = QueueSize

(* Mutant: a full queue is passed over. *)
ReachedSkipping == [to |-> ToSet(SelectSeq(subs, LAMBDA h : ~Full(h))), raised |-> FALSE]

(* The subscribers before the first full one get the event; publish raises at that
   one, BackpressureError. *)
Reached ==
  [to     |-> {subs[i] : i \in {i \in DOMAIN subs : \A j \in 1..i : ~Full(subs[j])}},
   raised |-> \E i \in DOMAIN subs : Full(subs[i])]

(* Before start the queues just fill; after stop publish raises. *)
Publish ==
  /\ bus \in {"built", "running"} /\ events < MaxEvents
  /\ events' = events + 1
  /\ queue' = [h \in Handlers |-> IF h \in Reached.to THEN Append(queue[h], events') ELSE queue[h]]
  /\ owed' = [h \in Handlers |-> IF Contains(subs, h) /\ ~Reached.raised
                                  THEN owed[h] \union {events'} ELSE owed[h]]
  /\ UNCHANGED <<bus, subs, task, toSignal, heard, cut>>

Subscribe(h) ==
  /\ bus \in {"built", "running"} /\ ~Contains(subs, h)
  /\ subs' = Append(subs, h)
  /\ task' = [task EXCEPT ![h] = IF bus = "running" THEN "waiting" ELSE "none"]
  /\ UNCHANGED <<bus, queue, toSignal, events, heard, owed, cut>>

BusStart ==
  /\ bus = "built"
  /\ bus' = "running"
  /\ task' = [h \in Handlers |-> IF Contains(subs, h) THEN "waiting" ELSE "none"]
  /\ UNCHANGED <<subs, queue, toSignal, events, heard, owed, cut>>

Consume(h) ==
  /\ task[h] = "waiting" /\ queue[h] # << >>
  /\ queue' = [queue EXCEPT ![h] = Tail(@)]
  /\ IF Head(queue[h]) = Sentinel
     THEN task' = [task EXCEPT ![h] = "done"] /\ UNCHANGED heard
     ELSE /\ task' = [task EXCEPT ![h] = "busy"]
          /\ heard' = [heard EXCEPT ![h] = Append(@, Head(queue[h]))]
  /\ UNCHANGED <<bus, subs, toSignal, events, owed, cut>>

HandlerReturns(h) ==
  /\ task[h] = "busy"
  /\ task' = [task EXCEPT ![h] = "waiting"]
  /\ UNCHANGED <<bus, subs, queue, toSignal, events, heard, owed, cut>>

(* External: the handler waits for something that never comes. *)
GetsStuck(h) ==
  /\ task[h] = "busy"
  /\ task' = [task EXCEPT ![h] = "stuck"]
  /\ UNCHANGED <<bus, subs, queue, toSignal, events, heard, owed, cut>>

----------------------------------------------------------------------------
(* stop: from now on publish and subscribe raise. *)
BusStop ==
  /\ bus \in {"built", "running"}
  /\ bus' = "signalling"
  /\ toSignal' = subs
  /\ UNCHANGED <<subs, queue, task, events, heard, owed, cut>>

(* The sentinel waits for a place in the queue. *)
PutSentinel ==
  /\ toSignal # << >>
  /\ LET h == Head(toSignal)
     IN  \/ task[h] \in {"none", "done"} /\ UNCHANGED queue
         \/ /\ task[h] \notin {"none", "done"} /\ ~Full(h)
            /\ queue' = [queue EXCEPT ![h] = Append(@, Sentinel)]
  /\ toSignal' = Tail(toSignal)
  /\ UNCHANGED <<bus, subs, task, events, heard, owed, cut>>

Running == {h \in Handlers : task[h] \notin {"none", "done"}}

JoinBegins ==
  /\ bus = "signalling" /\ toSignal = << >>
  /\ bus' = "waiting"
  /\ UNCHANGED <<subs, queue, task, toSignal, events, heard, owed, cut>>

Joined ==
  /\ bus = "waiting" /\ Running = {}
  /\ bus' = "stopped" /\ subs' = << >>
  /\ UNCHANGED <<queue, task, toSignal, events, heard, owed, cut>>

(* Mutant: the handlers that hang are only counted. *)
TimesUpWarns ==
  /\ bus = "waiting" /\ Running # {}
  /\ UNCHANGED busVars

(* Five seconds have passed: the consumers still running are cancelled. *)
TimesUp ==
  /\ bus = "waiting" /\ Running # {}
  /\ task' = [h \in Handlers |-> IF h \in Running THEN "done" ELSE task[h]]
  /\ cut' = Running
  /\ UNCHANGED <<bus, subs, queue, toSignal, events, heard, owed>>

BusNext ==
  \/ BusStart \/ Publish \/ BusStop \/ PutSentinel \/ JoinBegins \/ Joined \/ TimesUp
  \/ \E h \in Handlers : Subscribe(h) \/ Consume(h) \/ HandlerReturns(h) \/ GetsStuck(h)

BusSpec == BusInit /\ [][BusNext]_busVars

OnBus == Moves("bus")

(* The loop runs what is ready and the timeout expires; a handler that is not
   stuck returns. *)
BusFair ==
  /\ \A h \in Handlers : /\ WF_busVars(OnBus /\ Consume(h))
                         /\ WF_busVars(OnBus /\ HandlerReturns(h))
  /\ WF_busVars(OnBus /\ PutSentinel)
  /\ WF_busVars(OnBus /\ (JoinBegins \/ Joined \/ TimesUp))

----------------------------------------------------------------------------
(* A subscriber hears events in the order of the publishes, none twice, and an
   event whose publish returned is heard by every subscriber it had, before the
   sentinel of a shutdown at the latest, unless the subscriber's consumer was
   cancelled or never started. *)
BusDelivers ==
  \A h \in Handlers :
    /\ \A i, j \in DOMAIN heard[h] : i < j => heard[h][i] < heard[h][j]
    /\ owed[h] \subseteq ToSet(heard[h]) \union ToSet(queue[h])
    /\ task[h] = "done" /\ h \notin cut => owed[h] \subseteq ToSet(heard[h])

(* A stop that is still under way for ever has met a handler stuck with a full
   queue, the sentinel of which waits outside the timeout; whatever else the
   handlers do, it comes to its end. *)
StopReturns ==
  []<>(bus \in {"signalling", "waiting"} => \E h \in Handlers : task[h] = "stuck" /\ Full(h))
=============================================================================
