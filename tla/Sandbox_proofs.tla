--------------------------- MODULE Sandbox_proofs ---------------------------
(***************************************************************************)
(* What the parts of the sandbox promise by themselves: the event bus, the *)
(* Kafka bus, the clock of the backtest and the sliced half of the OMS,    *)
(* one after the other, each with the invariant that carries its promise.  *)
(***************************************************************************)
EXTENDS EventBus, KafkaBus, Replay, SlicedExecution, Sums_proofs, FiniteSetTheorems

----------------------------------------------------------------------------
(***************************************************************************)
(* What a subscriber of the bus is promised, for any handlers, any queue   *)
(* size and any number of events.  The invariant says what the queues hold *)
(* while it is kept: events in order, all later than those heard, with the *)
(* sentinels of a shutdown behind them.                                    *)
(***************************************************************************)
Among(s, e) == \E i \in 1..Len(s) : s[i] = e

Clean(q) == \A i \in 1..Len(q) : q[i] # Sentinel

Ascending(s) == \A i, j \in 1..Len(s) : i < j => s[i] < s[j]

(* A queue: events in order, then sentinels. *)
Ordered(q) ==
  \A i, j \in 1..Len(q) :
    i < j => q[j] = Sentinel \/ (q[i] # Sentinel /\ q[i] < q[j])

(* Heard s, with q still to come, of n events published. *)
Kept(s, q, n) ==
  /\ \A i \in 1..Len(s) : s[i] \in 1..n
  /\ \A i \in 1..Len(q) : q[i] \in 0..n
  /\ Ascending(s)
  /\ Ordered(q)
  /\ \A i \in 1..Len(s), j \in 1..Len(q) : q[j] = Sentinel \/ s[i] < q[j]

BusTypeOK ==
  /\ bus \in {"built", "running", "signalling", "waiting", "stopped"}
  /\ subs \in Seq(Handlers) /\ toSignal \in Seq(Handlers)
  /\ events \in Nat
  /\ queue \in [Handlers -> Seq(Nat)]
  /\ heard \in [Handlers -> Seq(Nat)]
  /\ task \in [Handlers -> {"none", "waiting", "busy", "stuck", "done"}]
  /\ owed \in [Handlers -> SUBSET (Nat \ {0})]
  /\ cut \subseteq Handlers

Open == bus \in {"built", "running"}

(* A publish still owes its event to the queue or to the history. *)
Owes(h) ==
  /\ \A e \in owed[h] : Among(heard[h], e) \/ Among(queue[h], e)
  /\ task[h] = "done" /\ h \notin cut => \A e \in owed[h] : Among(heard[h], e)

(* Consumers end, and are cut, only by a shutdown. *)
EndsLate(h) ==
  /\ task[h] = "done" => ~Open
  /\ cut # {} => bus \in {"waiting", "stopped"} /\ task[h] \in {"none", "done"}

BusInv ==
  /\ BusTypeOK
  /\ Open => toSignal = << >> /\ \A h \in Handlers : Clean(queue[h])
  /\ cut # {} => bus \in {"waiting", "stopped"}
  /\ \A h \in Handlers : Kept(heard[h], queue[h], events)
  /\ \A h \in Handlers : Owes(h) /\ EndsLate(h)

----------------------------------------------------------------------------
(* What a queue holds when one more is put to it. *)
LEMMA InAppend ==
  ASSUME NEW q \in Seq(Nat), NEW x \in Nat, NEW e
  PROVE  Among(Append(q, x), e) <=> Among(q, e) \/ e = x
<1> DEFINE r == Append(q, x)
<1>1. Len(r) = Len(q) + 1 /\ r[Len(q) + 1] = x /\ \A i \in 1..Len(q) : r[i] = q[i]
  OBVIOUS
<1>2. Len(q) \in Nat
  OBVIOUS
<1> HIDE DEF r
<1>3. (\E i \in 1..Len(r) : r[i] = e) <=> (\E i \in 1..Len(q) : q[i] = e) \/ e = x
  <2>1. ASSUME NEW i \in 1..Len(r), r[i] = e PROVE (\E k \in 1..Len(q) : q[k] = e) \/ e = x
    BY <2>1, <1>1, <1>2
  <2>2. ASSUME NEW i \in 1..Len(q), q[i] = e PROVE \E k \in 1..Len(r) : r[k] = e
    <3>1. i \in 1..Len(r) /\ r[i] = e BY <2>2, <1>1, <1>2
    <3> QED BY <3>1
  <2>3. ASSUME e = x PROVE \E k \in 1..Len(r) : r[k] = e
    <3>1. Len(q) + 1 \in 1..Len(r) /\ r[Len(q) + 1] = e BY <2>3, <1>1, <1>2
    <3> QED BY <3>1
  <2> QED BY <2>1, <2>2, <2>3
<1> QED BY <1>3 DEF Among, r

(* What it holds when its first is taken. *)
LEMMA InTail ==
  ASSUME NEW q \in Seq(Nat), q # << >>, NEW e
  PROVE  Among(q, e) => e = Head(q) \/ Among(Tail(q), e)
<1> SUFFICES ASSUME NEW i \in 1..Len(q), q[i] = e, e # Head(q) PROVE Among(Tail(q), e)
  BY DEF Among
<1>1. Len(q) \in Nat /\ Len(Tail(q)) = Len(q) - 1
  OBVIOUS
<1>2. i # 1
  OBVIOUS
<1>3. i - 1 \in 1..Len(Tail(q)) /\ Tail(q)[i - 1] = e
  BY <1>1, <1>2
<1> QED BY <1>3 DEF Among

(* A new event keeps the order: it is later than all. *)
LEMMA KeptByEvent ==
  ASSUME NEW s \in Seq(Nat), NEW q \in Seq(Nat), NEW n \in Nat, Kept(s, q, n), Clean(q)
  PROVE  Kept(s, Append(q, n + 1), n + 1) /\ Clean(Append(q, n + 1))
<1> DEFINE r == Append(q, n + 1)
<1>1. Len(r) = Len(q) + 1 /\ r[Len(q) + 1] = n + 1 /\ \A i \in 1..Len(q) : r[i] = q[i]
  OBVIOUS
<1>2. Len(q) \in Nat /\ Len(s) \in Nat
  OBVIOUS
<1>3. \A i \in 1..Len(q) : q[i] \in 1..n
  BY DEF Kept, Clean, Sentinel
<1>4. \A i, j \in 1..Len(q) : i < j => q[i] < q[j]
  BY <1>3 DEF Kept, Ordered, Sentinel
<1>5. \A i \in 1..Len(s), j \in 1..Len(q) : s[i] < q[j]
  BY <1>3 DEF Kept, Sentinel
<1> HIDE DEF r
<1>6. \A i \in 1..Len(r) : i \in 1..Len(q) \/ i = Len(q) + 1
  BY <1>1, <1>2
<1>7. \A i \in 1..Len(r) : r[i] \in 1..(n + 1)
  <2> TAKE i \in 1..Len(r)
  <2>1. CASE i \in 1..Len(q) BY <2>1, <1>1, <1>3
  <2>2. CASE i = Len(q) + 1 BY <2>2, <1>1
  <2> QED BY <2>1, <2>2, <1>6
<1>8. Ordered(r)
  <2> SUFFICES ASSUME NEW i \in 1..Len(r), NEW j \in 1..Len(r), i < j
               PROVE  r[i] # Sentinel /\ r[i] < r[j]
    BY DEF Ordered
  <2>1. i \in 1..Len(q)
    BY <1>1, <1>2
  <2>2. r[i] = q[i] /\ q[i] \in 1..n
    BY <2>1, <1>1, <1>3
  <2>3. CASE j \in 1..Len(q)
    BY <2>1, <2>2, <2>3, <1>1, <1>4 DEF Sentinel
  <2>4. CASE j = Len(q) + 1
    BY <2>2, <2>4, <1>1 DEF Sentinel
  <2> QED BY <2>3, <2>4, <1>6
<1>9. \A i \in 1..Len(s), j \in 1..Len(r) : s[i] < r[j]
  <2> SUFFICES ASSUME NEW i \in 1..Len(s), NEW j \in 1..Len(r) PROVE s[i] < r[j]
    OBVIOUS
  <2>1. s[i] \in 1..n
    BY DEF Kept
  <2>2. CASE j \in 1..Len(q)
    BY <2>2, <1>1, <1>5
  <2>3. CASE j = Len(q) + 1
    BY <2>1, <2>3, <1>1
  <2> QED BY <2>2, <2>3, <1>6
<1>10. Clean(r)
  BY <1>7 DEF Clean, Sentinel
<1>11. \A i \in 1..Len(s) : s[i] \in 1..(n + 1)
  BY DEF Kept
<1>12. \A i \in 1..Len(r) : r[i] \in 0..(n + 1)
  BY <1>7
<1> QED BY <1>8, <1>9, <1>10, <1>11, <1>12 DEF Kept, r

(* An event that goes to other queues changes nothing in this one. *)
LEMMA KeptByOthers ==
  ASSUME NEW s, NEW q, NEW n \in Nat, Kept(s, q, n)
  PROVE  Kept(s, q, n + 1)
BY DEF Kept

(* A sentinel goes behind the events. *)
LEMMA KeptBySentinel ==
  ASSUME NEW s \in Seq(Nat), NEW q \in Seq(Nat), NEW n \in Nat, Kept(s, q, n)
  PROVE  Kept(s, Append(q, Sentinel), n)
<1> DEFINE r == Append(q, Sentinel)
<1>1. Len(r) = Len(q) + 1 /\ r[Len(q) + 1] = Sentinel /\ \A i \in 1..Len(q) : r[i] = q[i]
  BY DEF Sentinel
<1>2. Len(q) \in Nat /\ Len(s) \in Nat
  OBVIOUS
<1> HIDE DEF r
<1>3. \A j \in 1..Len(r) : j \in 1..Len(q) \/ r[j] = Sentinel
  BY <1>1, <1>2
<1>4. \A i \in 1..Len(r) : r[i] \in 0..n
  BY <1>1, <1>3 DEF Kept, Sentinel
<1>5. Ordered(r)
  <2> SUFFICES ASSUME NEW i \in 1..Len(r), NEW j \in 1..Len(r), i < j, r[j] # Sentinel
               PROVE  r[i] # Sentinel /\ r[i] < r[j]
    BY DEF Ordered
  <2>1. j \in 1..Len(q) /\ i \in 1..Len(q)
    BY <1>2, <1>3
  <2> QED BY <2>1, <1>1 DEF Kept, Ordered
<1>6. \A i \in 1..Len(s), j \in 1..Len(r) : r[j] = Sentinel \/ s[i] < r[j]
  BY <1>1, <1>3 DEF Kept
<1> QED BY <1>4, <1>5, <1>6 DEF Kept, r

(* Taking the first of a queue. *)
LEMMA KeptByTaking ==
  ASSUME NEW s \in Seq(Nat), NEW q \in Seq(Nat), NEW n \in Nat, Kept(s, q, n), q # << >>
  PROVE  /\ Clean(q) => Clean(Tail(q))
         /\ Head(q) \in Nat /\ Tail(q) \in Seq(Nat)
         /\ Head(q) = Sentinel => Kept(s, Tail(q), n) /\ \A i \in 1..Len(q) : q[i] = Sentinel
         /\ Head(q) # Sentinel => Kept(Append(s, Head(q)), Tail(q), n)
<1> DEFINE r == Tail(q)
           x == Head(q)
           t == Append(s, x)
<1>1. /\ Len(q) \in Nat \ {0} /\ Len(s) \in Nat
      /\ Len(r) = Len(q) - 1 /\ \A i \in 1..Len(r) : r[i] = q[i + 1]
      /\ x = q[1] /\ x \in Nat /\ r \in Seq(Nat)
  OBVIOUS
<1>2. Len(t) = Len(s) + 1 /\ t[Len(s) + 1] = x /\ \A i \in 1..Len(s) : t[i] = s[i]
  BY <1>1
<1> HIDE DEF r, x, t
<1>3. \A i \in 1..Len(r) : i + 1 \in 1..Len(q)
  BY <1>1
<1>4. \A i \in 1..Len(r) : r[i] \in 0..n
  BY <1>1, <1>3 DEF Kept
<1>5. Ordered(r)
  <2> SUFFICES ASSUME NEW i \in 1..Len(r), NEW j \in 1..Len(r), i < j, r[j] # Sentinel
               PROVE  r[i] # Sentinel /\ r[i] < r[j]
    BY DEF Ordered
  <2>1. i + 1 \in 1..Len(q) /\ j + 1 \in 1..Len(q) /\ i + 1 < j + 1
    BY <1>3
  <2> QED BY <2>1, <1>1 DEF Kept, Ordered
<1>6. \A i \in 1..Len(s), j \in 1..Len(r) : r[j] = Sentinel \/ s[i] < r[j]
  BY <1>1, <1>3 DEF Kept
<1>7. Clean(q) => Clean(r)
  BY <1>1, <1>3 DEF Clean
<1>8. ASSUME x = Sentinel PROVE Kept(s, r, n) /\ \A i \in 1..Len(q) : q[i] = Sentinel
  <2>1. \A i \in 1..Len(q) : i = 1 \/ 1 < i
    BY <1>1
  <2>2. 1 \in 1..Len(q)
    BY <1>1
  <2>3. \A i \in 1..Len(q) : q[i] = Sentinel
    BY <2>1, <2>2, <1>1, <1>8 DEF Kept, Ordered
  <2> QED BY <2>3, <1>4, <1>5, <1>6 DEF Kept
<1>9. ASSUME x # Sentinel PROVE Kept(t, r, n)
  <2>1. x \in 1..n /\ \A i \in 1..Len(s) : s[i] < x
    BY <1>1, <1>9 DEF Kept, Sentinel
  <2>2. \A i \in 1..Len(t) : i \in 1..Len(s) \/ i = Len(s) + 1
    BY <1>1, <1>2
  <2>3. \A i \in 1..Len(t) : t[i] \in 1..n
    BY <2>1, <2>2, <1>2 DEF Kept
  <2>4. Ascending(t)
    <3> SUFFICES ASSUME NEW i \in 1..Len(t), NEW j \in 1..Len(t), i < j PROVE t[i] < t[j]
      BY DEF Ascending
    <3>1. i \in 1..Len(s) /\ t[i] = s[i]
      BY <1>1, <1>2
    <3>2. CASE j \in 1..Len(s) BY <3>1, <3>2, <1>2 DEF Kept, Ascending
    <3>3. CASE j = Len(s) + 1 BY <3>1, <3>3, <2>1, <1>2
    <3> QED BY <3>2, <3>3, <2>2
  <2>5. \A i \in 1..Len(t), j \in 1..Len(r) : r[j] = Sentinel \/ t[i] < r[j]
    <3> SUFFICES ASSUME NEW i \in 1..Len(t), NEW j \in 1..Len(r), r[j] # Sentinel
                 PROVE  t[i] < r[j]
      OBVIOUS
    <3>1. CASE i \in 1..Len(s) BY <3>1, <1>2, <1>6
    <3>2. CASE i = Len(s) + 1
      <4>1. 1 \in 1..Len(q) /\ j + 1 \in 1..Len(q) /\ 1 < j + 1 /\ r[j] = q[j + 1]
        BY <1>1, <1>3, SMTT(30)
      <4>2. q[1] < q[j + 1]
        BY <4>1 DEF Kept, Ordered
      <4> QED BY <4>1, <4>2, <3>2, <1>1, <1>2
    <3> QED BY <3>1, <3>2, <2>2
  <2> QED BY <2>3, <2>4, <2>5, <1>4, <1>5 DEF Kept
<1> QED BY <1>1, <1>7, <1>8, <1>9 DEF r, x, t

----------------------------------------------------------------------------
(* An empty bus keeps every promise. *)
LEMMA BusInitInv == BusInit => BusInv
<1> SUFFICES ASSUME BusInit PROVE BusInv
  OBVIOUS
<1>1. BusTypeOK
  BY DEF BusInit, BusTypeOK
<1>2. \A h \in Handlers : queue[h] = << >> /\ heard[h] = << >> /\ owed[h] = {} /\ task[h] = "none"
  BY DEF BusInit
<1>3. \A h \in Handlers : Clean(queue[h]) /\ Kept(heard[h], queue[h], events)
  BY <1>2 DEF Clean, Kept, Ordered, Ascending
<1> QED BY <1>1, <1>2, <1>3 DEF BusInv, BusInit, Owes, EndsLate

(* publish: the event goes behind all that is queued, and to all subscribers when
   it does not raise. *)
LEMMA PublishKeeps == BusInv /\ Publish => BusInv'
<1> SUFFICES ASSUME BusInv, Publish PROVE BusInv'
  OBVIOUS
<1>1. BusTypeOK /\ Open /\ events' = events + 1 /\ events' \in Nat \ {0} /\ toSignal = << >>
  BY DEF BusInv, BusTypeOK, Publish, Open
<1>2. UNCHANGED <<bus, subs, task, toSignal, heard, cut>>
  BY DEF Publish
<1>3. \A h \in Handlers : queue'[h] = queue[h] \/ queue'[h] = Append(queue[h], events + 1)
  BY <1>1 DEF Publish, BusTypeOK
<1>4. ASSUME NEW h \in Handlers
      PROVE  \/ owed'[h] = owed[h]
             \/ owed'[h] = owed[h] \union {events + 1} /\ queue'[h] = Append(queue[h], events + 1)
  <2> SUFFICES ASSUME owed'[h] # owed[h]
               PROVE  /\ owed'[h] = owed[h] \union {events + 1}
                      /\ queue'[h] = Append(queue[h], events + 1)
    OBVIOUS
  <2>1. Contains(subs, h) /\ ~Reached.raised /\ owed'[h] = owed[h] \union {events + 1}
    BY <1>1 DEF Publish, BusTypeOK
  <2>2. PICK k \in 1..Len(subs) : subs[k] = h
    BY <2>1 DEF Contains
  <2>3. \A i \in 1..Len(subs) : ~Full(subs[i])
    BY <2>1, <1>1 DEF Reached, BusTypeOK
  <2>4. h \in Reached.to
    <3>1. DOMAIN subs = 1..Len(subs) /\ Len(subs) \in Nat
      BY <1>1 DEF BusTypeOK
    <3>2. \A j \in 1..k : ~Full(subs[j])
      BY <2>3, <3>1
    <3>3. k \in {i \in DOMAIN subs : \A j \in 1..i : ~Full(subs[j])}
      BY <3>1, <3>2
    <3> QED BY <2>2, <3>3, Zenon DEF Reached
  <2> QED BY <2>1, <2>4, <1>1 DEF Publish, BusTypeOK
<1>5. BusTypeOK'
  <2>1. \A h \in Handlers : queue'[h] \in Seq(Nat)
    <3> TAKE h \in Handlers
    <3>1. queue[h] \in Seq(Nat) BY <1>1 DEF BusTypeOK
    <3>2. events + 1 \in Nat BY <1>1 DEF BusTypeOK
    <3>3. Append(queue[h], events + 1) \in Seq(Nat) BY <3>1, <3>2
    <3> QED BY <3>1, <3>3, <1>3
  <2>2. \A h \in Handlers : owed'[h] \in SUBSET (Nat \ {0})
    <3> TAKE h \in Handlers
    <3>1. owed[h] \in SUBSET (Nat \ {0}) BY <1>1 DEF BusTypeOK
    <3> QED BY <3>1, <1>1, <1>4
  <2>3. queue' \in [Handlers -> Seq(Nat)] /\ owed' \in [Handlers -> SUBSET (Nat \ {0})]
    BY <2>1, <2>2 DEF Publish
  <2> QED BY <1>1, <1>2, <2>3 DEF BusTypeOK
<1>6. ASSUME NEW h \in Handlers
      PROVE  Clean(queue'[h]) /\ Kept(heard'[h], queue'[h], events') /\ (Owes(h) /\ EndsLate(h))'
  <2>1. /\ Clean(queue[h]) /\ Kept(heard[h], queue[h], events) /\ Owes(h) /\ EndsLate(h)
        /\ heard[h] \in Seq(Nat) /\ queue[h] \in Seq(Nat) /\ events \in Nat
    BY <1>1 DEF BusInv, BusTypeOK
  <2>2. Clean(queue'[h]) /\ Kept(heard[h], queue'[h], events + 1)
    <3>1. Kept(heard[h], queue[h], events + 1)
      BY <2>1, KeptByOthers
    <3>2. /\ Kept(heard[h], Append(queue[h], events + 1), events + 1)
          /\ Clean(Append(queue[h], events + 1))
      BY <2>1, KeptByEvent
    <3> QED BY <3>1, <3>2, <2>1, <1>3
  <2>3. task[h] # "done"
    BY <2>1, <1>1 DEF EndsLate
  <2>4. \A e : Among(Append(queue[h], events + 1), e) <=> Among(queue[h], e) \/ e = events + 1
    BY <2>1, InAppend
  <2>5. \A e \in owed'[h] : Among(heard[h], e) \/ Among(queue'[h], e)
    BY <2>1, <2>4, <1>3, <1>4 DEF Owes
  <2>6. Owes(h)'
    BY <2>3, <2>5, <1>2 DEF Owes
  <2>7. EndsLate(h)'
    BY <2>1, <1>2 DEF EndsLate, Open
  <2> QED BY <2>2, <2>6, <2>7, <1>1, <1>2
<1> QED BY <1>1, <1>2, <1>5, <1>6 DEF BusInv, Open

(* A consumer takes the first of its queue: an event is heard, a sentinel ends it. *)
LEMMA ConsumeKeeps == ASSUME NEW g \in Handlers PROVE BusInv /\ Consume(g) => BusInv'
<1> SUFFICES ASSUME BusInv, Consume(g) PROVE BusInv'
  OBVIOUS
<1> DEFINE x == Head(queue[g])
<1>1. /\ BusTypeOK /\ task[g] = "waiting" /\ queue[g] # << >>
      /\ Kept(heard[g], queue[g], events) /\ Owes(g)
      /\ heard[g] \in Seq(Nat) /\ queue[g] \in Seq(Nat) /\ events \in Nat
  BY DEF BusInv, BusTypeOK, Consume
<1>2. UNCHANGED <<bus, subs, toSignal, events, owed, cut>>
  BY DEF Consume
<1>3. cut = {}
  BY <1>1 DEF BusInv, EndsLate
<1>4. /\ queue'[g] = Tail(queue[g])
      /\ \A h \in Handlers \ {g} : queue'[h] = queue[h] /\ task'[h] = task[h] /\ heard'[h] = heard[h]
  BY <1>1 DEF Consume, BusTypeOK
<1>5. /\ Clean(queue[g]) => Clean(Tail(queue[g]))
      /\ x \in Nat /\ Tail(queue[g]) \in Seq(Nat)
      /\ x = Sentinel => /\ Kept(heard[g], Tail(queue[g]), events)
                         /\ \A i \in 1..Len(queue[g]) : queue[g][i] = Sentinel
      /\ x # Sentinel => Kept(Append(heard[g], x), Tail(queue[g]), events)
  BY <1>1, KeptByTaking
<1>6. \A e : Among(queue[g], e) => e = x \/ Among(Tail(queue[g]), e)
  BY <1>1, InTail
<1>7. CASE x = Sentinel
  <2>1. heard' = heard /\ task' = [task EXCEPT ![g] = "done"]
    BY <1>7 DEF Consume
  <2>2. BusTypeOK'
    BY <1>1, <1>2, <1>5, <2>1 DEF BusTypeOK, Consume
  <2>3. ~Open
    <3>1. 1 \in 1..Len(queue[g]) /\ queue[g][1] = Sentinel
      BY <1>1, <1>5, <1>7
    <3> QED BY <3>1 DEF BusInv, Clean
  <2>4. \A e \in owed[g] : Among(heard[g], e)
    <3>1. \A e \in owed[g] : e # Sentinel
      BY <1>1 DEF BusTypeOK, Sentinel
    <3> QED BY <3>1, <1>1, <1>5, <1>7 DEF Owes, Among
  <2>5. ASSUME NEW h \in Handlers
        PROVE  Kept(heard'[h], queue'[h], events') /\ Owes(h)' /\ EndsLate(h)'
    <3>1. CASE h = g
      BY <3>1, <1>1, <1>2, <1>3, <1>4, <1>5, <1>7, <2>1, <2>3, <2>4 DEF Owes, EndsLate, Open
    <3>2. CASE h # g
      BY <3>2, <1>2, <1>4 DEF BusInv, Owes, EndsLate, Open
    <3> QED BY <3>1, <3>2
  <2> QED BY <2>2, <2>3, <2>5, <1>2, <1>3 DEF BusInv, Open
<1>8. CASE x # Sentinel
  <2>1. heard' = [heard EXCEPT ![g] = Append(@, x)] /\ task' = [task EXCEPT ![g] = "busy"]
    BY <1>8 DEF Consume
  <2>2. heard'[g] = Append(heard[g], x) /\ heard'[g] \in Seq(Nat) /\ task'[g] = "busy"
    BY <1>1, <1>5, <2>1 DEF BusTypeOK
  <2>3. BusTypeOK'
    BY <1>1, <1>2, <1>5, <2>1, <2>2 DEF BusTypeOK, Consume
  <2>4. \A e : Among(heard'[g], e) <=> Among(heard[g], e) \/ e = x
    BY <1>1, <1>5, <2>2, InAppend
  <2>5. ASSUME NEW h \in Handlers
        PROVE  /\ Kept(heard'[h], queue'[h], events') /\ Owes(h)' /\ EndsLate(h)'
               /\ Clean(queue[h]) => Clean(queue'[h])
    <3>1. CASE h = g
      <4>1. Kept(heard'[h], queue'[h], events')
        BY <3>1, <1>2, <1>4, <1>5, <1>8, <2>2
      <4>2. Owes(h)'
        BY <3>1, <1>1, <1>2, <1>4, <1>6, <2>2, <2>4 DEF Owes
      <4>3. EndsLate(h)'
        BY <3>1, <1>2, <1>3, <2>2 DEF EndsLate
      <4> QED BY <3>1, <4>1, <4>2, <4>3, <1>4, <1>5
    <3>2. CASE h # g
      BY <3>2, <1>2, <1>4 DEF BusInv, Owes, EndsLate, Open
    <3> QED BY <3>1, <3>2
  <2> QED BY <2>3, <2>5, <1>2 DEF BusInv, Open
<1> QED BY <1>7, <1>8

(* A sentinel goes behind what is queued. *)
LEMMA PutSentinelKeeps == BusInv /\ PutSentinel => BusInv'
<1> SUFFICES ASSUME BusInv, PutSentinel PROVE BusInv'
  OBVIOUS
<1> DEFINE g == Head(toSignal)
<1>1. /\ BusTypeOK /\ toSignal # << >> /\ ~Open
      /\ g \in Handlers /\ Tail(toSignal) \in Seq(Handlers)
  BY DEF BusInv, BusTypeOK, PutSentinel
<1>2. UNCHANGED <<bus, subs, task, events, heard, owed, cut>> /\ toSignal' = Tail(toSignal)
  BY DEF PutSentinel
<1>3. \/ queue' = queue
      \/ queue' = [queue EXCEPT ![g] = Append(@, Sentinel)]
  BY DEF PutSentinel
<1>4. \A h \in Handlers : queue'[h] = queue[h] \/ queue'[h] = Append(queue[h], Sentinel)
  BY <1>1, <1>3 DEF BusTypeOK
<1>5. \A h \in Handlers : queue'[h] \in Seq(Nat)
  <2> TAKE h \in Handlers
  <2>1. queue[h] \in Seq(Nat) /\ Sentinel \in Nat BY <1>1 DEF BusTypeOK, Sentinel
  <2>2. Append(queue[h], Sentinel) \in Seq(Nat) BY <2>1
  <2> QED BY <2>1, <2>2, <1>4
<1>6. queue' \in [Handlers -> Seq(Nat)]
  BY <1>1, <1>3, <1>5 DEF BusTypeOK
<1>7. BusTypeOK'
  BY <1>1, <1>2, <1>6 DEF BusTypeOK
<1>8. ASSUME NEW h \in Handlers
      PROVE  Kept(heard'[h], queue'[h], events') /\ Owes(h)' /\ EndsLate(h)'
  <2>1. /\ Kept(heard[h], queue[h], events) /\ Owes(h) /\ EndsLate(h)
        /\ heard[h] \in Seq(Nat) /\ queue[h] \in Seq(Nat) /\ events \in Nat /\ Sentinel \in Nat
    BY <1>1 DEF BusInv, BusTypeOK, Sentinel
  <2>2. Kept(heard[h], Append(queue[h], Sentinel), events)
    BY <2>1, KeptBySentinel
  <2>3. \A e : Among(queue[h], e) => Among(Append(queue[h], Sentinel), e)
    BY <2>1, InAppend
  <2>4. \A e : Among(queue[h], e) => Among(queue'[h], e)
    BY <2>3, <1>4
  <2>5. Owes(h)'
    BY <2>1, <2>4, <1>2 DEF Owes
  <2> QED BY <2>1, <2>2, <2>5, <1>2, <1>4 DEF EndsLate, Open
<1> QED BY <1>1, <1>2, <1>7, <1>8 DEF BusInv, Open

(* The steps that touch neither a queue nor what was heard. *)
LEMMA OthersKeep ==
  ASSUME BusInv, BusTypeOK', UNCHANGED <<queue, heard, owed, events>>,
         Open' => Open /\ toSignal' = << >>,
         cut' # {} => bus' \in {"waiting", "stopped"},
         \A h \in Handlers :
           /\ EndsLate(h)'
           /\ task'[h] = "done" /\ h \notin cut' => task[h] = "done" /\ h \notin cut
  PROVE  BusInv'
<1>1. ASSUME NEW h \in Handlers
      PROVE  Kept(heard'[h], queue'[h], events') /\ Owes(h)'
  <2>1. Kept(heard[h], queue[h], events) /\ Owes(h)
    BY DEF BusInv
  <2>2. UNCHANGED <<queue, heard, owed, events>>
    OBVIOUS
  <2> QED BY <2>1, <2>2 DEF Owes
<1> QED BY <1>1 DEF BusInv

(* Every step of the bus keeps the invariant. *)
LEMMA BusStep == BusInv /\ [BusNext]_busVars => BusInv'
<1> SUFFICES ASSUME BusInv, [BusNext]_busVars PROVE BusInv'
  OBVIOUS
<1>1. BusTypeOK /\ (Open => toSignal = << >>) /\ (cut # {} => bus \in {"waiting", "stopped"})
  BY DEF BusInv
<1>2. \A h \in Handlers : EndsLate(h)
  BY DEF BusInv
<1>3. CASE BusStart
  <2>1. BusTypeOK' BY <1>1, <1>3 DEF BusTypeOK, BusStart
  <2> QED BY <1>1, <1>2, <1>3, <2>1, OthersKeep DEF BusStart, Open, EndsLate
<1>4. CASE Publish BY <1>4, PublishKeeps
<1>5. CASE BusStop
  <2>1. BusTypeOK' BY <1>1, <1>5 DEF BusTypeOK, BusStop
  <2> QED BY <1>1, <1>2, <1>5, <2>1, OthersKeep DEF BusStop, Open, EndsLate
<1>6. CASE PutSentinel BY <1>6, PutSentinelKeeps
<1>7. CASE JoinBegins
  <2>1. BusTypeOK' BY <1>1, <1>7 DEF BusTypeOK, JoinBegins
  <2> QED BY <1>1, <1>2, <1>7, <2>1, OthersKeep DEF JoinBegins, Open, EndsLate
<1>8. CASE Joined
  <2>1. BusTypeOK' BY <1>1, <1>8 DEF BusTypeOK, Joined
  <2> QED BY <1>1, <1>2, <1>8, <2>1, OthersKeep DEF Joined, Open, EndsLate
<1>9. CASE TimesUp
  <2>1. BusTypeOK' BY <1>1, <1>9 DEF BusTypeOK, TimesUp, Running
  <2>2. cut = {}
    BY <1>2, <1>9 DEF TimesUp, Running, EndsLate
  <2>3. \A h \in Handlers : task'[h] = (IF h \in Running THEN "done" ELSE task[h])
    BY <1>9 DEF TimesUp
  <2>4. ASSUME NEW h \in Handlers
        PROVE  /\ task'[h] \in {"none", "done"}
               /\ task'[h] = "done" /\ h \notin cut' => task[h] = "done" /\ h \notin cut
    BY <1>1, <1>9, <2>2, <2>3 DEF TimesUp, Running, BusTypeOK
  <2>5. UNCHANGED <<bus, queue, heard, owed, events, toSignal>> /\ bus = "waiting"
    BY <1>9 DEF TimesUp
  <2> QED BY <2>1, <2>4, <2>5, OthersKeep DEF Open, EndsLate
<1>10. ASSUME NEW h \in Handlers, Subscribe(h) PROVE BusInv'
  <2>1. BusTypeOK' BY <1>1, <1>10 DEF BusTypeOK, Subscribe
  <2> QED BY <1>1, <1>2, <1>10, <2>1, OthersKeep DEF Subscribe, Open, EndsLate, BusTypeOK
<1>11. ASSUME NEW h \in Handlers, Consume(h) PROVE BusInv'
  BY <1>11, ConsumeKeeps
<1>12. ASSUME NEW h \in Handlers, HandlerReturns(h) PROVE BusInv'
  <2>1. BusTypeOK' BY <1>1, <1>12 DEF BusTypeOK, HandlerReturns
  <2> QED BY <1>1, <1>2, <1>12, <2>1, OthersKeep DEF HandlerReturns, Open, EndsLate, BusTypeOK
<1>13. ASSUME NEW h \in Handlers, GetsStuck(h) PROVE BusInv'
  <2>1. BusTypeOK' BY <1>1, <1>13 DEF BusTypeOK, GetsStuck
  <2> QED BY <1>1, <1>2, <1>13, <2>1, OthersKeep DEF GetsStuck, Open, EndsLate, BusTypeOK
<1>14. CASE UNCHANGED busVars
  <2>1. BusTypeOK' BY <1>1, <1>14 DEF BusTypeOK, busVars
  <2> QED BY <1>1, <1>2, <1>14, <2>1, OthersKeep DEF busVars, Open, EndsLate
<1> QED
  BY <1>3, <1>4, <1>5, <1>6, <1>7, <1>8, <1>9, <1>10, <1>11, <1>12, <1>13, <1>14 DEF BusNext

(* In order, none twice, and nothing whose publish returned is left out by a
   consumer that was let end (publish, _consume and stop of asyncio_bus.py), for
   any subscribers, queue size and number of events. *)
THEOREM BusSafe == BusSpec => []BusDelivers
<1>1. BusInv => BusDelivers
  <2> SUFFICES ASSUME BusInv, NEW h \in Handlers
               PROVE  /\ \A i, j \in DOMAIN heard[h] : i < j => heard[h][i] < heard[h][j]
                      /\ owed[h] \subseteq ToSet(heard[h]) \union ToSet(queue[h])
                      /\ task[h] = "done" /\ h \notin cut => owed[h] \subseteq ToSet(heard[h])
    BY DEF BusDelivers
  <2>1. /\ heard[h] \in Seq(Nat) /\ queue[h] \in Seq(Nat)
        /\ Kept(heard[h], queue[h], events) /\ Owes(h)
    BY DEF BusInv, BusTypeOK
  <2>2. DOMAIN heard[h] = 1..Len(heard[h]) /\ DOMAIN queue[h] = 1..Len(queue[h])
    BY <2>1
  <2>3. \A e : /\ Among(heard[h], e) => e \in ToSet(heard[h])
               /\ Among(queue[h], e) => e \in ToSet(queue[h])
    BY <2>2 DEF Among, ToSet
  <2>4. \A i, j \in DOMAIN heard[h] : i < j => heard[h][i] < heard[h][j]
    BY <2>1, <2>2 DEF Kept, Ascending
  <2> QED BY <2>1, <2>3, <2>4 DEF Owes
<1> QED BY <1>1, BusInitInv, BusStep, PTL DEF BusSpec
----------------------------------------------------------------------------
(***************************************************************************)
(* A consumer group loses no event but those that do not parse, once it    *)
(* has committed, however long the log and however often it goes down.  What the invariant adds  *)
(* to the property is where the consumer stands: between two events, all   *)
(* up to its offset has been handled; after the handler, that event has.   *)
(***************************************************************************)
KafkaTypeOK ==
  /\ log \in Nat /\ offset \in Nat /\ restarts \in Nat
  /\ committed \in Nat \union {None}
  /\ firstSaved \in Nat \union {None}
  /\ reader \in {"down", "up", "handling", "committing"}

Begun == firstSaved # None

Seen == handled \union unreadable

Consumed ==
  /\ committed # None <=> Begun
  /\ Begun => firstSaved..committed \subseteq Seen
  /\ Begun /\ reader = "up" => firstSaved..offset \subseteq Seen
  /\ Begun /\ reader # "down" => firstSaved..(offset - 1) \subseteq Seen
  /\ reader = "committing" => offset \in Seen

KafkaInv == KafkaTypeOK /\ Consumed

(* The offset of the first commit is where the handler's claim begins. *)
LEMMA KafkaInitInv == KafkaInit => KafkaInv
BY NoneAssumption DEF KafkaInit, KafkaInv, KafkaTypeOK, Consumed, Begun, Seen

(* Every step of the broker and of the consumer keeps the invariant. *)
LEMMA KafkaStep == KafkaInv /\ [KafkaNext]_kafkaVars => KafkaInv'
<1> SUFFICES ASSUME KafkaInv, [KafkaNext]_kafkaVars PROVE KafkaInv'
  OBVIOUS
<1> USE NoneAssumption DEF KafkaInv, KafkaTypeOK, Consumed, Begun, Seen
<1>1. CASE KafkaPublish BY <1>1 DEF KafkaPublish
<1>2. CASE Subscribed BY <1>2 DEF Subscribed
<1>3. CASE Read BY <1>3 DEF Read
<1>4. CASE HandlerDone BY <1>4 DEF HandlerDone
<1>5. CASE Commit
  <2>1. KafkaTypeOK' BY <1>5 DEF Commit
  <2>2. firstSaved' # None /\ committed' = offset /\ offset' = offset /\ Seen' = Seen
    BY <1>5 DEF Commit
  <2>3. firstSaved'..offset \subseteq Seen'
    <3>1. CASE firstSaved = None BY <3>1, <1>5 DEF Commit
    <3>2. CASE firstSaved # None BY <3>2, <1>5 DEF Commit
    <3> QED BY <3>1, <3>2
  <2> QED BY <2>1, <2>2, <2>3, <1>5 DEF Commit
<1>6. CASE GoesDown BY <1>6 DEF GoesDown
<1>7. CASE SkipUnreadable BY <1>7 DEF SkipUnreadable
<1>8. CASE UNCHANGED kafkaVars BY <1>8 DEF kafkaVars
<1> QED BY <1>1, <1>2, <1>3, <1>4, <1>5, <1>6, <1>7, <1>8 DEF KafkaNext

(* At-least-once delivery, after the first commit, of what can be read (_consume: the
   handler, then commit), for logs and restarts of any number. *)
THEOREM KafkaSafe == KafkaSpec => []KafkaSkipsOnlyUnreadable
<1>1. KafkaInv => KafkaSkipsOnlyUnreadable
  BY DEF KafkaInv, KafkaTypeOK, Consumed, Begun, Seen, KafkaSkipsOnlyUnreadable
<1> QED BY <1>1, KafkaInitInv, KafkaStep, PTL DEF KafkaSpec

----------------------------------------------------------------------------
(***************************************************************************)
(* Simulated time never goes back and nothing is published late, for any   *)
(* latencies, any data in order of time and any requests.  The invariant   *)
(* is about the heap: nothing in it was due before the clock's time, and   *)
(* while the clock moves towards an event it has not passed it.            *)
(***************************************************************************)

Wires == [is : {"trade", "market", "limit", "cancel"}, id : BtOrders \union {None}]

ReplayTypeOK ==
  /\ clock \in Nat /\ seq \in Nat /\ data \in Nat \union {None}
  /\ loop \in {"fetch", "upto", "due", "rest", "ended"}
  /\ wires \in Seq(Wires) /\ latency \in Latencies
  /\ \A e \in schedule : e.due \in Nat /\ e.seq \in Nat
  /\ IsFiniteSet(book) /\ book \subseteq BtOrders \union {None}

Timely ==
  /\ \A e \in schedule : e.due >= clock
  /\ loop = "upto" => data # None /\ clock <= data
  /\ loop \in {"fetch", "due"} => clock = IF data = None THEN 0 ELSE data
  /\ punctual

ReplayInv == ReplayTypeOK /\ Timely

(* The heap's first is one of its events, and none is due before it. *)
LEMMA EarliestIs ==
  ASSUME ReplayTypeOK, schedule # {}
  PROVE  Earliest \in schedule /\ \A f \in schedule : Earliest.due <= f.due
<1> DEFINE First(e) == \A f \in schedule : e.due < f.due \/ (e.due = f.due /\ e.seq <= f.seq)
           D == {e.due : e \in schedule}
<1>1. PICK d \in D : \A x \in D : d <= x
  <2>1. D \in SUBSET Nat /\ D # {}
    BY DEF ReplayTypeOK
  <2> HIDE DEF D
  <2> QED BY <2>1, LeastNumber
<1> DEFINE Q == {e.seq : e \in {f \in schedule : f.due = d}}
<1>2. PICK q \in Q : \A x \in Q : q <= x
  <2>1. Q \in SUBSET Nat /\ Q # {}
    BY DEF ReplayTypeOK
  <2> HIDE DEF Q
  <2> QED BY <2>1, LeastNumber
<1>3. PICK e \in schedule : e.due = d /\ e.seq = q
  OBVIOUS
<1>4. First(e)
  <2>1. \A f \in schedule : d <= f.due /\ (f.due = d => q <= f.seq)
    BY <1>1, <1>2
  <2>2. \A f \in schedule : f.due \in Nat
    BY DEF ReplayTypeOK
  <2> HIDE DEF D, Q
  <2> QED BY <1>3, <2>1, <2>2
<1>5. Earliest \in schedule /\ First(Earliest)
  <2> HIDE DEF First
  <2>1. Earliest = CHOOSE x \in schedule : First(x)
    BY DEF Earliest, First
  <2> QED BY <1>3, <1>4, <2>1
<1> DEFINE x == Earliest
<1> HIDE DEF x
<1>6. x \in schedule /\ First(x)
  BY <1>5 DEF x
<1>7. \A f \in schedule : x.due <= f.due
  BY <1>6 DEF ReplayTypeOK
<1> QED
  BY <1>6, <1>7 DEF x

(* What the venue schedules is due no sooner than now. *)
Delayed == [delay : Nat, is : {"ACK", "FILL", "CANCELLED", "REJECTED"}, id : BtOrders \union {None}]

LEMMA ScheduledKeeps ==
  ASSUME ReplayInv, NEW evs \in Seq(Delayed), Scheduled(evs),
         UNCHANGED <<clock, loop, data, latency, punctual>>,
         wires' \in Seq(Wires), IsFiniteSet(book'), book' \subseteq BtOrders \union {None}
  PROVE  ReplayInv'
<1>1. Len(evs) \in Nat /\ \A i \in DOMAIN evs : i \in Nat /\ evs[i].delay \in Nat
  <2>1. Len(evs) \in Nat /\ DOMAIN evs = 1..Len(evs)
    BY LenProperties
  <2>2. \A i \in 1..Len(evs) : evs[i] \in Delayed
    BY ElementOfSeq
  <2> QED BY <2>1, <2>2 DEF Delayed
<1>2. seq' \in Nat
  BY <1>1 DEF Scheduled, ReplayInv, ReplayTypeOK
<1>3. ASSUME NEW e \in schedule' PROVE e.due \in Nat /\ e.seq \in Nat /\ e.due >= clock
  <2>1. CASE e \in schedule BY <2>1 DEF ReplayInv, ReplayTypeOK, Timely
  <2>2. CASE e \notin schedule
    <3>1. PICK i \in DOMAIN evs : e = [due |-> clock + evs[i].delay, seq |-> seq + i,
                                      is |-> evs[i].is, id |-> evs[i].id]
      BY <2>2 DEF Scheduled
    <3>2. e.due = clock + evs[i].delay /\ e.seq = seq + i
      BY <3>1
    <3> QED BY <1>1, <3>2 DEF ReplayInv, ReplayTypeOK
  <2> QED BY <2>1, <2>2
<1> QED
  BY <1>2, <1>3 DEF ReplayInv, ReplayTypeOK, Timely

LEMMA RemoveAtTyped ==
  ASSUME NEW S, NEW s \in Seq(S), NEW i \in 1..Len(s)
  PROVE  RemoveAt(s, i) \in Seq(S)
<1>1. Len(s) \in Nat
  BY LenProperties
<1>2. SubSeq(s, 1, i - 1) \in Seq(S) /\ SubSeq(s, i + 1, Len(s)) \in Seq(S)
  BY <1>1
<1> QED
  BY <1>2, ConcatProperties DEF RemoveAt

LEMMA FillsTyped ==
  ASSUME ReplayTypeOK, NEW d \in Nat, NEW o \in BtOrders \union {None}, NEW twice \in BOOLEAN
  PROVE  FillsIn(d, o, twice) \in Seq(Delayed)
<1>1. latency.fill \in Nat
  BY ReplayAssumption DEF ReplayTypeOK
<1>2. In(d, "FILL", o) \in Delayed /\ In(d + latency.fill, "FILL", o) \in Delayed
  BY <1>1 DEF In, Delayed
<1>3. <<In(d, "FILL", o)>> \in Seq(Delayed)
      /\ <<In(d + latency.fill, "FILL", o)>> \in Seq(Delayed)
      /\ << >> \in Seq(Delayed)
  BY <1>2
<1> QED
  BY <1>3, ConcatProperties DEF FillsIn

(* The venue's answers to a request. *)
LEMMA RequestKeeps ==
  ASSUME ReplayInv, NEW w \in DOMAIN wires, Handled(w), wires[w] \in Wires
  PROVE  /\ VenueRejects(w) => ReplayInv'
         /\ VenueRests(w) => ReplayInv'
         /\ VenueCancels(w) => ReplayInv'
         /\ \A twice \in BOOLEAN : VenueFills(w, twice) => ReplayInv'
<1> DEFINE o == wires[w].id
<1>1. latency.ack \in Nat /\ latency.cancel \in Nat /\ latency.fill \in Nat
      /\ o \in BtOrders \union {None} /\ book \subseteq BtOrders \union {None}
  BY ReplayAssumption DEF ReplayInv, ReplayTypeOK, Wires
<1>2. wires' \in Seq(Wires) /\ UNCHANGED <<clock, loop, data, latency, punctual>>
  <2>1. w \in 1..Len(wires) /\ wires \in Seq(Wires)
    BY LenProperties DEF ReplayInv, ReplayTypeOK
  <2> QED
    BY <2>1, RemoveAtTyped DEF Handled
<1>3. IsFiniteSet(book) /\ IsFiniteSet(book \union {o}) /\ IsFiniteSet(book \ {o})
  BY FS_AddElement, FS_RemoveElement DEF ReplayInv, ReplayTypeOK
<1>4. \A d \in Nat, s \in {"ACK", "FILL", "CANCELLED", "REJECTED"} : In(d, s, o) \in Delayed
  BY <1>1 DEF In, Delayed
<1>5. \A x, y \in Delayed : <<x>> \in Seq(Delayed) /\ <<x, y>> \in Seq(Delayed)
  OBVIOUS
<1> HIDE DEF o
<1>6. VenueRejects(w) => ReplayInv'
  <2> SUFFICES ASSUME VenueRejects(w) PROVE ReplayInv'
    OBVIOUS
  <2>1. PICK evs \in Seq(Delayed) : Scheduled(evs)
    BY <1>1, <1>4, <1>5 DEF VenueRejects, o
  <2>2. IsFiniteSet(book') /\ book' \subseteq BtOrders \union {None}
    BY <1>1, <1>3 DEF VenueRejects
  <2> QED BY <1>2, <2>1, <2>2, ScheduledKeeps
<1>7. VenueRests(w) => ReplayInv'
  <2> SUFFICES ASSUME VenueRests(w) PROVE ReplayInv'
    OBVIOUS
  <2>1. PICK evs \in Seq(Delayed) : Scheduled(evs)
    BY <1>1, <1>4, <1>5 DEF VenueRests, o
  <2>2. IsFiniteSet(book') /\ book' \subseteq BtOrders \union {None}
    BY <1>1, <1>3 DEF VenueRests, o
  <2> QED BY <1>2, <2>1, <2>2, ScheduledKeeps
<1>8. VenueCancels(w) => ReplayInv'
  <2> SUFFICES ASSUME VenueCancels(w) PROVE ReplayInv'
    OBVIOUS
  <2>1. PICK evs \in Seq(Delayed) : Scheduled(evs)
    BY <1>1, <1>4, <1>5 DEF VenueCancels, o
  <2>2. IsFiniteSet(book') /\ book' \subseteq BtOrders \union {None}
    BY <1>1, <1>3 DEF VenueCancels, o
  <2> QED BY <1>2, <2>1, <2>2, ScheduledKeeps
<1>9. ASSUME NEW twice \in BOOLEAN, VenueFills(w, twice) PROVE ReplayInv'
  <2>1. FillsIn(latency.ack + latency.fill, o, twice) \in Seq(Delayed)
    BY <1>1, FillsTyped DEF ReplayInv, o
  <2>2. <<In(latency.ack, "ACK", o)>> \in Seq(Delayed)
    BY <1>1, <1>4, <1>5
  <2>3. PICK evs \in Seq(Delayed) : Scheduled(evs)
    BY <1>9, <2>1, <2>2, ConcatProperties DEF VenueFills, o
  <2>4. IsFiniteSet(book') /\ book' \subseteq BtOrders \union {None}
    BY <1>1, <1>3, <1>9 DEF VenueFills
  <2> QED BY <1>2, <2>3, <2>4, ScheduledKeeps
<1> QED
  BY <1>6, <1>7, <1>8, <1>9

(* A trade: the fills of the orders it goes through, in some order. *)
LEMMA MatchKeeps ==
  ASSUME ReplayInv, NEW w \in DOMAIN wires, NEW crossed \in SUBSET book,
         NEW split \in SUBSET crossed,
         VenueMatches(w, crossed, split)
  PROVE  ReplayInv'
<1> DEFINE f == [o \in crossed |-> FillsIn(latency.fill, o, o \in split)]
           F == {f[o] : o \in crossed}
<1>1. latency.fill \in Nat /\ IsFiniteSet(crossed) /\ IsFiniteSet(book')
      /\ book' \subseteq BtOrders \union {None} /\ crossed \subseteq BtOrders \union {None}
  BY ReplayAssumption, FS_Subset, FS_Difference DEF ReplayInv, ReplayTypeOK, VenueMatches
<1>2. F \subseteq Seq(Delayed) /\ IsFiniteSet(F)
  <2>1. ASSUME NEW o \in crossed PROVE f[o] \in Seq(Delayed)
    <3>1. o \in BtOrders \union {None} /\ (o \in split) \in BOOLEAN /\ ReplayTypeOK
      BY <1>1 DEF ReplayInv
    <3>2. FillsIn(latency.fill, o, o \in split) \in Seq(Delayed)
      BY <1>1, <3>1, FillsTyped, Zenon
    <3> QED BY <3>2
  <2>2. f = [o \in crossed |-> f[o]]
    OBVIOUS
  <2> HIDE DEF f
  <2> QED BY <1>1, <2>1, <2>2, FiniteImage
<1>3. F = {FillsIn(latency.fill, o, o \in split) : o \in crossed}
  OBVIOUS
<1> HIDE DEF F
<1>4. SetToSeq(F) \in Seq(Seq(Delayed))
  BY <1>2, SetInOrder, SeqMonotonic
<1>5. FlattenSeq(SetToSeq(F)) \in Seq(Delayed) /\ Scheduled(FlattenSeq(SetToSeq(F)))
  BY <1>3, <1>4, FlattenTyped DEF VenueMatches
<1>6. wires' \in Seq(Wires) /\ UNCHANGED <<clock, loop, data, latency, punctual>>
  <2>1. w \in 1..Len(wires) /\ wires \in Seq(Wires)
    BY LenProperties DEF ReplayInv, ReplayTypeOK
  <2> QED
    BY <2>1, RemoveAtTyped DEF VenueMatches, Handled
<1> QED
  BY <1>1, <1>5, <1>6, ScheduledKeeps

(* What is due first is published when the clock has come to it. *)
LEMMA PopKeeps ==
  ASSUME ReplayInv, NEW t \in Nat, schedule # {}, t = Earliest.due, Popped(t),
         clock' = t, UNCHANGED <<loop, data, seq, wires, latency, book>>,
         loop = "upto" => t <= data,
         loop \in {"fetch", "due"} => t = clock
  PROVE  ReplayInv'
<1>1. Earliest \in schedule /\ (\A f \in schedule : Earliest.due <= f.due) /\ t >= clock
  BY EarliestIs DEF ReplayInv, ReplayTypeOK, Timely
<1>2. schedule' \subseteq schedule /\ (\A f \in schedule' : clock' <= f.due) /\ punctual'
  BY <1>1 DEF Popped, ReplayInv, Timely
<1> QED
  BY <1>2 DEF ReplayInv, ReplayTypeOK, Timely

LEMMA ReplayInitInv == ReplayInit => ReplayInv
BY FS_EmptySet DEF ReplayInit, ReplayInv, ReplayTypeOK, Timely

(* Every step of the loop, of the venue and of those who ask it. *)
LEMMA ReplayStep == ReplayInv /\ [ReplayNext]_replayVars => ReplayInv'
<1> SUFFICES ASSUME ReplayInv, [ReplayNext]_replayVars PROVE ReplayInv'
  OBVIOUS
<1>0. /\ clock \in Nat /\ data \in Nat \union {None}
      /\ schedule # {} => /\ Earliest \in schedule
                          /\ Earliest.due \in Nat /\ Earliest.due >= clock
                          /\ \A e \in schedule : Earliest.due <= e.due
  BY EarliestIs DEF ReplayInv, ReplayTypeOK, Timely
<1>1. ASSUME NEW ts \in (IF data = None THEN 0 ELSE data)..LastTime, Fetch(ts)
      PROVE  ReplayInv'
  <2>1. ts \in Nat /\ ts # None /\ clock <= ts
    BY <1>0, <1>1, ReplayAssumption, NoneAssumption DEF Fetch, ReplayInv, Timely
  <2> QED BY <1>1, <2>1 DEF Fetch, ReplayInv, ReplayTypeOK, Timely
<1>2. CASE DataEnds \/ RunEnds \/ Settled
  BY <1>2 DEF DataEnds, RunEnds, Settled, ReplayInv, ReplayTypeOK, Timely
<1>3. CASE DrainUpTo
  <2>1. PICK t \in Nat : t = Earliest.due
    BY <1>0, <1>3 DEF DrainUpTo, PendingUpTo, DueBy
  <2>2. schedule # {} /\ loop = "upto" /\ t <= data /\ clock' = t /\ Popped(t)
    BY <1>0, <1>3, <2>1 DEF DrainUpTo, PendingUpTo, DueBy, SetTime, Popped, ReplayInv, ReplayTypeOK, Timely
  <2>3. UNCHANGED <<loop, data, seq, wires, latency, book>>
    BY <1>3 DEF DrainUpTo
  <2> QED BY <2>1, <2>2, <2>3, PopKeeps
<1>4. ASSUME NEW trade \in BOOLEAN, PublishData(trade) PROVE ReplayInv'
  <2>1. loop = "upto" /\ data \in Nat /\ clock <= data /\ clock' = data /\ loop' = "due"
    BY <1>0, <1>4 DEF PublishData, SetTime, ReplayInv, Timely
  <2>2. (\A e \in schedule : e.due >= data) /\ punctual'
    <3>1. ~DueBy(data)
      BY <1>4 DEF PublishData, PendingUpTo
    <3>2. \A e \in schedule : e.due >= data
      BY <2>1, <3>1 DEF DueBy, ReplayInv, ReplayTypeOK
    <3>3. punctual' = (punctual /\ ~DueBy(data) /\ data >= clock) /\ punctual /\ data >= clock
      BY <1>4, <2>1 DEF PublishData, ReplayInv, Timely
    <3> QED BY <3>1, <3>2, <3>3
  <2>3. wires' \in Seq(Wires)
    BY <1>4, AppendProperties DEF PublishData, ReplayInv, ReplayTypeOK, Wires
  <2>4. UNCHANGED <<data, schedule, seq, book, latency>> /\ data # None
    BY <1>4 DEF PublishData, ReplayInv, Timely
  <2> QED BY <2>1, <2>2, <2>3, <2>4 DEF ReplayInv, ReplayTypeOK, Timely
<1>5. CASE DrainDue
  <2>1. schedule # {} /\ Earliest.due = clock /\ loop = "due" /\ Popped(clock) /\ clock' = clock
    BY <1>0, <1>5 DEF DrainDue, DueBy, ReplayInv, ReplayTypeOK
  <2>2. UNCHANGED <<loop, data, seq, wires, latency, book>>
    BY <1>5 DEF DrainDue
  <2> QED BY <1>0, <2>1, <2>2, PopKeeps
<1>6. ASSUME NEW snapshot \in BOOLEAN, RoundEnds(snapshot) PROVE ReplayInv'
  BY <1>6 DEF RoundEnds, ReplayInv, ReplayTypeOK, Timely
<1>7. CASE DrainRemaining
  <2>1. PICK t \in Nat : t = Earliest.due
    BY <1>0, <1>7 DEF DrainRemaining
  <2>2. schedule # {} /\ loop = "rest" /\ t >= clock /\ clock' = t /\ Popped(t)
    BY <1>0, <1>7, <2>1 DEF DrainRemaining, SetTime, Popped
  <2>3. UNCHANGED <<loop, data, seq, wires, latency, book>>
    BY <1>7 DEF DrainRemaining
  <2> QED BY <2>1, <2>2, <2>3, PopKeeps
<1>8. ASSUME NEW o \in BtOrders, AskCancel(o) \/ \E kind \in {"market", "limit"} : AskSubmit(o, kind)
      PROVE  ReplayInv'
  <2>1. PICK x \in Wires : Asked(x)
    BY <1>8 DEF AskCancel, AskSubmit, Wires
  <2>2. wires' \in Seq(Wires)
    BY <2>1, AppendProperties DEF Asked, ReplayInv, ReplayTypeOK
  <2> QED BY <2>1, <2>2 DEF Asked, ReplayInv, ReplayTypeOK, Timely
<1>9. ASSUME NEW w \in DOMAIN wires,
             \/ VenueRejects(w) \/ VenueRests(w) \/ VenueCancels(w)
             \/ \E twice \in BOOLEAN : VenueFills(w, twice)
      PROVE  ReplayInv'
  <2>1. wires[w] \in Wires
    BY LenProperties, ElementOfSeq DEF ReplayInv, ReplayTypeOK
  <2>2. Handled(w)
    BY <1>9 DEF VenueRejects, VenueRests, VenueCancels, VenueFills
  <2> QED BY <1>9, <2>1, <2>2, RequestKeeps
<1>10. ASSUME NEW w \in DOMAIN wires, NEW crossed \in SUBSET book,
              NEW split \in SUBSET crossed, VenueMatches(w, crossed, split)
       PROVE  ReplayInv'
  BY <1>10, MatchKeeps
<1>11. CASE UNCHANGED replayVars
  BY <1>11 DEF replayVars, ReplayInv, ReplayTypeOK, Timely
<1> QED
  BY <1>1, <1>2, <1>3, <1>4, <1>5, <1>6, <1>7, <1>8, <1>9, <1>10, <1>11 DEF ReplayNext

(* set_time never raises, and every event is published when it is due (_drain_up_to,
   drain_due, _drain_remaining). *)
THEOREM ReplayIsPunctual == ReplaySpec => []PunctualReplay
<1>1. ReplayInv => PunctualReplay
  BY DEF ReplayInv, Timely, PunctualReplay
<1> QED BY <1>1, ReplayInitInv, ReplayStep, PTL DEF ReplaySpec

----------------------------------------------------------------------------
(***************************************************************************)
(* SlicedExecution: what the buckets of a plan hold together is the        *)
(* quantity of the leg.                                                    *)
(***************************************************************************)

LEMMA Quotient ==
  ASSUME NEW a \in Nat, NEW w \in Nat, w > 0
  PROVE  a \div w \in Nat /\ w * (a \div w) <= a
OBVIOUS

LEMMA Product ==
  ASSUME NEW a \in Nat, NEW b \in Nat
  PROVE  a * b \in Nat
OBVIOUS

LEMMA SharesStep ==
  ASSUME NEW W \in Nat, NEW q \in Nat, NEW x \in Nat, NEW y \in Nat, NEW u \in Nat, NEW v \in Nat,
         W * x <= q * u, W * y <= q * v
  PROVE  W * (x + y) <= q * (u + v)
<1>1. W * (x + y) = W * x + W * y /\ q * (u + v) = q * u + q * v
  OBVIOUS
<1> DEFINE a == W * x
           b == W * y
           c == q * u
           d == q * v
<1>2. a \in Nat /\ b \in Nat /\ c \in Nat /\ d \in Nat
  BY Product
<1> HIDE DEF a, b, c, d
<1>3. a <= c /\ b <= d => a + b <= c + d
  BY <1>2
<1> QED BY <1>1, <1>3 DEF a, b, c, d

LEMMA SharesEnd ==
  ASSUME NEW W \in Nat, W > 0, NEW q \in Nat, NEW x \in Nat, NEW u \in Nat,
         W * x <= q * u, u <= W
  PROVE  x <= q
<1>1. q * u <= q * W
  OBVIOUS
<1>2. W * x <= W * q
  BY <1>1
<1> QED BY <1>2

(* What the buckets hold together is the quantity of the leg. *)
LEMMA PlanIs ==
  ASSUME NEW l \in AllLegs, NEW q \in Nat
  PROVE  Plan(l, q) \in Seq(Nat) /\ Len(Plan(l, q)) = Len(Profile[l]) /\ SumOf(Plan(l, q)) = q
<1> DEFINE w == Profile[l]
           n == Len(w)
           W == SumOf(w)
           share == [b \in DOMAIN w |-> (q * w[b]) \div W]
           plan == Plan(l, q)
           p == Sums(w)
           r == Sums(share)
<1>1. w \in Seq(Nat) /\ n \in Nat \ {0} /\ DOMAIN w = 1..n /\ \A b \in 1..n : w[b] \in Nat
  BY LegAssumption, LenProperties, ElementOfSeq, EmptySeq
<1>2. w \in Seq(Int)
  BY <1>1, QueueGrows
<1>3. W \in Nat /\ W > 0
  <2>1. W > 0
    BY LegAssumption
  <2> QED BY <1>2, <2>1, SumInt
<1>4. \A b \in 1..n : share[b] \in Nat /\ W * share[b] <= q * w[b]
  <2> SUFFICES ASSUME NEW b \in 1..n PROVE share[b] \in Nat /\ W * share[b] <= q * w[b]
    OBVIOUS
  <2>1. q * w[b] \in Nat
    BY <1>1, Product
  <2> DEFINE a == q * w[b]
  <2>2. share[b] = a \div W
    BY <1>1
  <2> HIDE DEF a, W, share
  <2> QED BY <1>3, <2>1, <2>2, Quotient DEF a
<1>5. share \in Seq(Nat) /\ Len(share) = n /\ DOMAIN share = 1..n
  <2>1. share = [b \in 1..n |-> share[b]]
    BY <1>1
  <2> HIDE DEF share
  <2>2. share \in [1..n -> Nat]
    BY <1>4, <2>1
  <2> QED BY <1>1, <2>2, FunctionSeq
<1>6. plan = [share EXCEPT ![n] = q - r[n - 1]]
  BY DEF Plan
<1> HIDE DEF W, share, plan
<1>7. share \in Seq(Int)
  BY <1>5, QueueGrows
<1>8. /\ p[0] = 0 /\ r[0] = 0 /\ W = p[n]
      /\ \A b \in 1..n : p[b] = p[b - 1] + w[b] /\ r[b] = r[b - 1] + share[b]
  BY <1>2, <1>5, <1>7, SumsStep DEF W
<1>9. /\ \A b \in 0..n : p[b] \in Nat /\ r[b] \in Nat
      /\ p[n - 1] <= W
  <2>1. n \in 0..n /\ n - 1 \in 0..n /\ n - 1 <= n
    BY <1>1
  <2>2. ASSUME NEW b \in 0..n PROVE p[b] \in Nat /\ r[b] \in Nat
    <3>1. b \in 0..Len(w) /\ b \in 0..Len(share) /\ b <= b
      BY <1>1, <1>5
    <3> HIDE DEF w
    <3> QED BY <1>1, <1>5, <3>1, SumsGrow
  <2>3. p[n - 1] <= p[n]
    <3> HIDE DEF w
    <3> QED BY <1>1, <2>1, SumsGrow
  <2> QED BY <1>8, <2>2, <2>3
<1> HIDE DEF p, r
<1> DEFINE S == {b \in Nat : b <= n => W * r[b] <= q * p[b]}
<1>10. S = Nat
  <2>1. S \in SUBSET Nat /\ 0 \in S
    BY <1>3, <1>8
  <2>2. ASSUME NEW b \in S PROVE b + 1 \in S
    <3> SUFFICES ASSUME b + 1 <= n PROVE W * r[b + 1] <= q * p[b + 1]
      OBVIOUS
    <3>1. b + 1 \in 1..n /\ (b + 1) - 1 = b /\ b \in 0..n /\ W * r[b] <= q * p[b]
      BY <1>1
    <3>2. r[b + 1] = r[b] + share[b + 1] /\ p[b + 1] = p[b] + w[b + 1]
      BY <3>1, <1>8
    <3>3. W * share[b + 1] <= q * w[b + 1] /\ share[b + 1] \in Nat /\ w[b + 1] \in Nat
          /\ r[b] \in Nat /\ p[b] \in Nat
      BY <3>1, <1>1, <1>4, <1>9
    <3>4. W * (r[b] + share[b + 1]) <= q * (p[b] + w[b + 1])
      BY <1>3, <3>1, <3>3, SharesStep
    <3> QED BY <3>2, <3>4
  <2> HIDE DEF S
  <2> QED BY <2>1, <2>2, AllNumbers
<1>11. r[n - 1] <= q /\ r[n - 1] \in Nat
  <2>1. n - 1 \in 0..n /\ n - 1 \in Nat /\ n - 1 <= n
    BY <1>1
  <2>2. W * r[n - 1] <= q * p[n - 1]
    BY <2>1, <1>10
  <2>3. r[n - 1] \in Nat /\ p[n - 1] \in Nat /\ p[n - 1] <= W
    BY <2>1, <1>9
  <2> QED BY <1>3, <2>2, <2>3, SharesEnd
<1>12. plan \in Seq(Nat) /\ Len(plan) = n /\ plan[n] = q - r[n - 1] /\ \A b \in 1..(n - 1) : plan[b] = share[b]
  <2>1. q - r[n - 1] \in Nat /\ n \in 1..Len(share)
    BY <1>1, <1>5, <1>11
  <2> DEFINE last == q - r[n - 1]
  <2> HIDE DEF last
  <2>2. plan = [share EXCEPT ![n] = last] /\ last \in Nat
    BY <1>6, <2>1 DEF last
  <2>3. plan \in Seq(Nat) /\ Len(plan) = n
    BY <1>5, <2>1, <2>2, ExceptSeq
  <2>4. plan[n] = last /\ \A b \in 1..(n - 1) : plan[b] = share[b]
    BY <1>1, <1>5, <2>2
  <2> QED BY <2>3, <2>4 DEF last
<1>13. SumOf(plan) = q
  <2>1. plan \in Seq(Int)
    BY <1>12, QueueGrows
  <2>2. Sums(plan)[n - 1] = r[n - 1]
    <3>1. n - 1 \in Nat /\ n - 1 <= Len(plan) /\ n - 1 <= Len(share)
          /\ \A b \in 1..(n - 1) : plan[b] = share[b]
      BY <1>1, <1>5, <1>12
    <3> QED BY <3>1, <2>1, <1>7, SumsPrefix DEF r
  <2>3. SumOf(plan) = Sums(plan)[n] /\ Sums(plan)[n] = Sums(plan)[n - 1] + plan[n]
    <3>1. n \in 1..Len(plan)
      BY <1>1, <1>12
    <3> QED BY <3>1, <1>12, <2>1, SumsStep
  <2> QED BY <1>11, <1>12, <2>2, <2>3
<1> QED
  BY <1>12, <1>13 DEF plan

----------------------------------------------------------------------------
(* The book, and what of a leg has been issued *)

Slices == [leg : AllLegs, sent : Nat, qty : Nat, cum : Int, heard : Int, status : Status]
Algos  == [qty : Nat, sent : Nat, start : Int]
Books  == {b \in [children : Seq(Slices), algo : [AllLegs -> Algos \union {None}]] :
             \A l \in AllLegs : b.algo[l] # None => b.algo[l].sent <= Len(Profile[l])}

(* Quantity of leg l among the children after the first n. *)
OfLeg(cs, l, n) == [k \in DOMAIN cs |-> IF cs[k].leg = l /\ k > n THEN cs[k].sent ELSE 0]
IssuedIn(cs, l, n) == SumOf(OfLeg(cs, l, n))

(* What a running algorithm has sent are the first buckets of its plan. *)
OnSchedule(b, l, n) ==
  b.algo[l] # None =>
    IssuedIn(b.children, l, n) = Sums(Plan(l, b.algo[l].qty))[b.algo[l].sent]

(* next_slice goes to the last bucket that is due, and gives its quantity: those
   before it are empty. *)
LEMMA DueIs ==
  ASSUME NEW l \in AllLegs, NEW a \in Algos, a.sent <= Len(Profile[l]), now \in Int
  PROVE  /\ Due(l, a).upTo \in a.sent..Len(Profile[l])
         /\ Due(l, a).qty \in Nat
         /\ Sums(Plan(l, a.qty))[Due(l, a).upTo] = Sums(Plan(l, a.qty))[a.sent] + Due(l, a).qty
<1> DEFINE plan == Plan(l, a.qty)
           n == Len(Profile[l])
           open == {i \in (a.sent + 1)..Len(plan) :
                      a.start + i - 1 <= now /\ \A j \in (a.sent + 1)..(i - 1) : plan[j] = 0}
           m == Max(open)
           d == Due(l, a)
<1>1. plan \in Seq(Nat) /\ Len(plan) = n /\ n \in Nat /\ a.sent \in 0..n
  BY PlanIs, LenProperties DEF Algos
<1>2. d = [upTo |-> Max(open \union {a.sent}), qty |-> IF open = {} THEN 0 ELSE plan[m]]
  BY DEF Due
<1> HIDE DEF plan, d, n
<1>3. CASE open = {}
  <2>1. Max({a.sent}) = a.sent
    BY <1>1 DEF Max
  <2>2. d.upTo = a.sent /\ d.qty = 0
    BY <1>2, <1>3, <2>1
  <2>3. Sums(plan)[a.sent] \in Nat
    BY <1>1, SumsGrow
  <2> QED BY <1>1, <2>2, <2>3 DEF plan, d, n
<1>4. CASE open # {}
  <2>1. m \in open /\ \A y \in open : m >= y
    <3>1. open \in SUBSET (0..n)
      BY <1>1
    <3> HIDE DEF open
    <3> QED BY <1>1, <1>4, <3>1, GreatestNumber DEF Max
  <2>2. m \in (a.sent + 1)..n /\ \A j \in (a.sent + 1)..(m - 1) : plan[j] = 0
    BY <1>1, <2>1
  <2> HIDE DEF m
  <2>3. Max(open \union {a.sent}) = m
    <3> DEFINE both == open \union {a.sent}
    <3>1. m \in both /\ \A y \in both : m >= y /\ y \in Int
      BY <1>1, <2>1, <2>2
    <3>2. \A x \in both : (\A y \in both : x >= y) => x = m
      BY <3>1
    <3> HIDE DEF both
    <3> QED BY <3>1, <3>2 DEF Max, both
  <2>4. d.upTo = m /\ d.qty = plan[m]
    BY <1>2, <1>4, <2>3 DEF m
  <2>5. plan[m] \in Nat /\ Sums(plan)[m] = Sums(plan)[m - 1] + plan[m]
    <3>1. m \in 1..Len(plan) /\ plan \in Seq(Int)
      BY <1>1, <2>2, QueueGrows
    <3> QED BY <1>1, <3>1, SumsStep, ElementOfSeq
  <2>6. Sums(plan)[a.sent] = Sums(plan)[m - 1]
    <3>1. m - 1 \in 0..Len(plan) /\ a.sent \in 0..Len(plan) /\ a.sent <= m - 1
      BY <1>1, <2>2
    <3> QED BY <1>1, <2>2, <3>1, SumsGrow
  <2>7. m \in a.sent..n
    BY <1>1, <2>2
  <2> QED BY <2>4, <2>5, <2>6, <2>7 DEF plan, d, n
<1> QED BY <1>3, <1>4

----------------------------------------------------------------------------
(* What of a leg has been issued *)

LEMMA OfLegTyped ==
  ASSUME NEW cs \in Seq(Slices), NEW l, NEW n
  PROVE  /\ OfLeg(cs, l, n) \in Seq(Nat) /\ Len(OfLeg(cs, l, n)) = Len(cs)
         /\ OfLeg(cs, l, n) \in Seq(Int)
         /\ DOMAIN cs = 1..Len(cs) /\ Len(cs) \in Nat
<1>1. DOMAIN cs = 1..Len(cs) /\ Len(cs) \in Nat /\ \A k \in 1..Len(cs) : cs[k] \in Slices
  BY LenProperties, ElementOfSeq
<1>2. OfLeg(cs, l, n) \in [1..Len(cs) -> Nat]
  BY <1>1 DEF OfLeg, Slices
<1> QED
  BY <1>1, <1>2, FunctionSeq, QueueGrows, SMTT(30)

LEMMA IssuedByOne ==
  ASSUME NEW cs \in Seq(Slices), NEW l, NEW n \in Nat, NEW c \in Slices
  PROVE  IssuedIn(Append(cs, c), l, n)
           = IssuedIn(cs, l, n) + (IF c.leg = l /\ Len(cs) + 1 > n THEN c.sent ELSE 0)
<1> DEFINE r == Append(cs, c)
           x == IF c.leg = l /\ Len(cs) + 1 > n THEN c.sent ELSE 0
           a == OfLeg(cs, l, n)
           b == OfLeg(r, l, n)
<1>1. /\ r \in Seq(Slices) /\ Len(r) = Len(cs) + 1 /\ r[Len(cs) + 1] = c
      /\ \A k \in 1..Len(cs) : r[k] = cs[k]
  BY AppendProperties
<1>2. a \in Seq(Int) /\ b \in Seq(Int) /\ Len(a) = Len(cs) /\ Len(b) = Len(cs) + 1 /\ Len(cs) \in Nat
      /\ DOMAIN cs = 1..Len(cs) /\ DOMAIN r = 1..(Len(cs) + 1)
  BY <1>1, OfLegTyped
<1>3. x \in Int
  BY DEF Slices
<1>4. \A k \in 1..Len(cs) : b[k] = a[k]
  BY <1>1, <1>2 DEF OfLeg
<1>5. b[Len(cs) + 1] = x
  BY <1>1, <1>2 DEF OfLeg
<1> HIDE DEF r, x, a, b
<1>6. b = Append(a, x)
  <2>1. Append(a, x) \in Seq(Int) /\ Len(Append(a, x)) = Len(a) + 1 /\ Append(a, x)[Len(a) + 1] = x
        /\ \A k \in 1..Len(a) : Append(a, x)[k] = a[k]
    BY <1>2, <1>3, AppendProperties
  <2>2. \A k \in 1..Len(b) : b[k] = Append(a, x)[k]
    BY <1>2, <1>4, <1>5, <2>1
  <2> QED BY <1>2, <2>1, <2>2, SeqEqual
<1>7. SumOf(Append(a, x)) = SumOf(a) + x
  BY <1>2, <1>3, SumAppend
<1> QED
  BY <1>6, <1>7 DEF IssuedIn, a, b, r, x

(* After all there are, nothing. *)
LEMMA IssuedNothing ==
  ASSUME NEW cs \in Seq(Slices), NEW l
  PROVE  IssuedIn(cs, l, Len(cs)) = 0
<1> DEFINE a == OfLeg(cs, l, Len(cs))
<1>1. a \in Seq(Int) /\ Len(a) = Len(cs) /\ Len(cs) \in Nat /\ DOMAIN cs = 1..Len(cs)
  BY OfLegTyped
<1>2. \A k \in 1..Len(a) : a[k] = 0
  BY <1>1 DEF OfLeg
<1> HIDE DEF a
<1> QED BY <1>1, <1>2, SumZero DEF IssuedIn, a

(* Children that keep their leg and what was sent count as they did. *)
SameSlices(cs, ds) ==
  DOMAIN ds = DOMAIN cs /\ \A k \in DOMAIN cs : ds[k].leg = cs[k].leg /\ ds[k].sent = cs[k].sent

LEMMA IssuedSame ==
  ASSUME NEW cs, NEW ds, SameSlices(cs, ds), NEW l, NEW n
  PROVE  IssuedIn(ds, l, n) = IssuedIn(cs, l, n)
<1>1. OfLeg(ds, l, n) = OfLeg(cs, l, n)
  BY DEF OfLeg, SameSlices
<1> QED BY <1>1 DEF IssuedIn

LEMMA MovesTyped ==
  ASSUME NEW o \in Slices, NEW s \in Status
  PROVE  /\ Transition(o, s) \in Slices
         /\ Transition(o, s).leg = o.leg /\ Transition(o, s).sent = o.sent
BY DEF Transition, Moved, Slices

LEMMA FillTyped ==
  ASSUME NEW o \in Slices, NEW q \in Int
  PROVE  Filled(o, q) \in Slices /\ Filled(o, q).leg = o.leg /\ Filled(o, q).sent = o.sent
<1> DEFINE p == IF IsTerminal(o) THEN RecordFill(o, q) ELSE ApplyFill(o, q)
<1>1. RecordFill(o, q) \in Slices /\ RecordFill(o, q).leg = o.leg /\ RecordFill(o, q).sent = o.sent
  BY DEF RecordFill, Slices
<1>2. "FILLED" \in Status /\ "PARTIALLY_FILLED" \in Status
  BY DEF Status, Active, Resting, Terminal
<1>3. p \in Slices /\ p.leg = o.leg /\ p.sent = o.sent
  BY <1>1, <1>2, MovesTyped DEF ApplyFill
<1>4. Filled(o, q) = [p EXCEPT !.heard = @ + q]
  BY DEF Filled
<1> HIDE DEF p
<1> QED BY <1>3, <1>4 DEF Slices

LEMMA CorrectedTyped ==
  ASSUME NEW o \in Slices, NEW cum \in Nat, NEW q \in Nat
  PROVE  /\ Corrected(o, cum, q) \in Slices
         /\ Corrected(o, cum, q).leg = o.leg /\ Corrected(o, cum, q).sent = o.sent
<1> DEFINE c == IF cum > o.cum THEN cum ELSE o.cum
<1>1. c \in Int
  BY DEF Slices
<1>2. Corrected(o, cum, q) = [o EXCEPT !.cum = c, !.qty = q]
  BY DEF Corrected
<1> HIDE DEF c
<1> QED BY <1>1, <1>2 DEF Slices

----------------------------------------------------------------------------
(* One step of the driver, and a leg that starts *)

(* A slice, if one is due, and the algorithm behind it, or gone. *)
DrivesTo(b, l, fits, c) ==
  \E upTo \in b.algo[l].sent..Len(Profile[l]), q \in Nat, x \in Algos \union {None} :
    /\ upTo = Due(l, b.algo[l]).upTo /\ q = Due(l, b.algo[l]).qty
    /\ Sums(Plan(l, b.algo[l].qty))[upTo] = Sums(Plan(l, b.algo[l].qty))[b.algo[l].sent] + q
    /\ c.children = IF q = 0 THEN b.children ELSE Append(b.children, Child(l, q, fits))
    /\ c.algo = [b.algo EXCEPT ![l] = x]
    /\ x # None => x = [b.algo[l] EXCEPT !.sent = upTo]

LEMMA DrivenIs ==
  ASSUME NEW b \in Books, NEW l \in AllLegs, NEW fits \in BOOLEAN, now \in Int,
         b.algo[l] # None, NEW c, c = Driven(b, l, fits)
  PROVE  c \in Books /\ DrivesTo(b, l, fits, c)
<1> DEFINE a == b.algo[l]
           upTo == Due(l, a).upTo
           q == Due(l, a).qty
           y == [a EXCEPT !.sent = upTo]
           cs == IF q = 0 THEN b.children ELSE Append(b.children, Child(l, q, fits))
           d == [algo |-> [b.algo EXCEPT ![l].sent = upTo], children |-> cs]
<1>1. a \in Algos /\ a.sent <= Len(Profile[l]) /\ b.children \in Seq(Slices)
      /\ b.algo \in [AllLegs -> Algos \union {None}] /\ Len(Profile[l]) \in Nat
  BY LegAssumption, LenProperties DEF Books
<1>2. upTo \in a.sent..Len(Profile[l]) /\ q \in Nat
      /\ Sums(Plan(l, a.qty))[upTo] = Sums(Plan(l, a.qty))[a.sent] + q
  BY <1>1, DueIs
<1>3. y \in Algos /\ y.sent = upTo
  <2>1. a = [qty |-> a.qty, sent |-> a.sent, start |-> a.start] /\ upTo \in Nat
    BY <1>1, <1>2 DEF Algos
  <2> HIDE DEF a, upTo
  <2> QED BY <1>1, <2>1 DEF Algos
<1>4. cs \in Seq(Slices)
  <2>1. Child(l, q, fits) \in Slices
    BY <1>2 DEF Child, Slices, Status, Active, Pending, Terminal
  <2> QED BY <1>1, <2>1, AppendProperties
<1>5. c = RetiredIfDone(d, l)
  BY DEF Driven
<1>6. d.algo = [b.algo EXCEPT ![l] = y] /\ d.children = cs
  BY <1>1
<1>7. c = d \/ c = [d EXCEPT !.algo[l] = None]
  <2> HIDE DEF d
  <2> QED BY <1>5 DEF RetiredIfDone, Retired
<1> HIDE DEF y, cs, upTo, q, a
<1>8. PICK x \in {y, None} : c = [algo |-> [b.algo EXCEPT ![l] = x], children |-> cs]
  <2>1. d = [algo |-> [b.algo EXCEPT ![l] = y], children |-> cs]
    BY <1>6
  <2>2. [d EXCEPT !.algo[l] = None] = [algo |-> [b.algo EXCEPT ![l] = None], children |-> cs]
    BY <1>1, <2>1
  <2> QED BY <1>7, <2>1, <2>2
<1>9. c.algo = [b.algo EXCEPT ![l] = x] /\ c.children = cs /\ x \in Algos \union {None}
  BY <1>3, <1>8
<1>10. c \in Books
  <2>1. c.algo \in [AllLegs -> Algos \union {None}]
    BY <1>1, <1>9
  <2>2. \A m \in AllLegs : c.algo[m] # None => c.algo[m].sent <= Len(Profile[m])
    <3> SUFFICES ASSUME NEW m \in AllLegs, c.algo[m] # None PROVE c.algo[m].sent <= Len(Profile[m])
      OBVIOUS
    <3>1. CASE m = l
      <4>1. c.algo[m] = y
        BY <1>1, <1>8, <1>9, <3>1
      <4> QED BY <1>1, <1>2, <1>3, <3>1, <4>1 DEF Algos
    <3>2. CASE m # l
      <4>1. c.algo[m] = b.algo[m]
        BY <1>1, <1>9, <3>2
      <4> QED BY <4>1 DEF Books
    <3> QED BY <3>1, <3>2
  <2> QED BY <1>4, <1>8, <1>9, <2>1, <2>2 DEF Books
<1>11. x # None => x = y
  BY <1>8
<1> QED
  BY <1>2, <1>9, <1>10, <1>11 DEF a, upTo, q, y, cs, DrivesTo

(* Children behind those there were are of the legs in ls. *)
Longer(cs, ds, ls) ==
  /\ Len(cs) \in Nat /\ Len(cs) <= Len(ds)
  /\ \A k \in 1..Len(cs) : ds[k] = cs[k]
  /\ \A k \in 1..Len(ds) : k > Len(cs) => ds[k].leg \in ls

(* From b to c only what leg l has sent changes, and as scheduled. *)
Drove(b, l, c) ==
  /\ c \in Books /\ Longer(b.children, c.children, {l})
  /\ c.algo[l] # None => b.algo[l] # None
  /\ \A n \in 0..Len(b.children) : OnSchedule(b, l, n) => OnSchedule(c, l, n)
  /\ \A m \in AllLegs : m # l =>
       /\ c.algo[m] = b.algo[m]
       /\ \A n \in Nat : IssuedIn(c.children, m, n) = IssuedIn(b.children, m, n)

(* A step of the driver, or the start, keeps every algorithm on its schedule. *)
LEMMA DrivenKeeps ==
  ASSUME NEW b \in Books, NEW l \in AllLegs, NEW fits \in BOOLEAN, now \in Int,
         NEW c, c = Driven(b, l, fits)
  PROVE  Drove(b, l, c)
<1>0. b.children \in Seq(Slices) /\ Len(b.children) \in Nat
      /\ b.algo \in [AllLegs -> Algos \union {None}]
  BY LenProperties DEF Books
<1>1. CASE b.algo[l] = None
  <2>1. c = b
    BY <1>1 DEF Driven
  <2> QED BY <1>0, <1>1, <2>1 DEF Longer, Drove
<1>2. CASE b.algo[l] # None
  <2> DEFINE a == b.algo[l]
             plan == Plan(l, a.qty)
  <2>1. PICK upTo \in a.sent..Len(Profile[l]), q \in Nat, x \in Algos \union {None} :
          /\ c \in Books
          /\ Sums(plan)[upTo] = Sums(plan)[a.sent] + q
          /\ c.children = IF q = 0 THEN b.children ELSE Append(b.children, Child(l, q, fits))
          /\ c.algo = [b.algo EXCEPT ![l] = x]
          /\ x # None => x = [a EXCEPT !.sent = upTo]
    <3>1. c \in Books /\ DrivesTo(b, l, fits, c)
      BY <1>2, DrivenIs
    <3> QED BY <3>1, Zenon DEF DrivesTo
  <2> DEFINE s == Child(l, q, fits)
  <2>2. s \in Slices /\ s.leg = l /\ s.sent = q
    BY DEF Child, Slices, Status, Active, Pending, Terminal
  <2> HIDE DEF s
  <2>3. ASSUME NEW m \in AllLegs, NEW n \in Nat
        PROVE  IssuedIn(c.children, m, n) = IssuedIn(b.children, m, n)
                 + (IF m = l /\ Len(b.children) + 1 > n THEN q ELSE 0)
    <3>1. IssuedIn(b.children, m, n) \in Int
      BY <1>0, OfLegTyped, SumInt DEF IssuedIn
    <3>2. CASE q = 0
      BY <2>1, <3>1, <3>2
    <3>3. CASE q # 0
      BY <1>0, <2>1, <2>2, <3>3, IssuedByOne DEF s
    <3> QED BY <3>2, <3>3
  <2>4. Longer(b.children, c.children, {l})
    <3>1. /\ Len(Append(b.children, s)) = Len(b.children) + 1
          /\ Append(b.children, s)[Len(b.children) + 1] = s
          /\ \A k \in 1..Len(b.children) : Append(b.children, s)[k] = b.children[k]
      BY <1>0, <2>2, AppendProperties
    <3>2. c.children = b.children \/ c.children = Append(b.children, s)
      BY <2>1 DEF s
    <3> QED BY <1>0, <2>2, <3>1, <3>2 DEF Longer
  <2>5. ASSUME NEW n \in 0..Len(b.children), OnSchedule(b, l, n) PROVE OnSchedule(c, l, n)
    <3> SUFFICES ASSUME c.algo[l] # None
                 PROVE  IssuedIn(c.children, l, n) = Sums(Plan(l, c.algo[l].qty))[c.algo[l].sent]
      BY DEF OnSchedule
    <3>1. c.algo[l] = [a EXCEPT !.sent = upTo] /\ a \in Algos
      BY <1>0, <1>2, <2>1
    <3>2. c.algo[l].qty = a.qty /\ c.algo[l].sent = upTo
      BY <3>1 DEF Algos
    <3>3. IssuedIn(b.children, l, n) = Sums(plan)[a.sent]
      BY <1>2, <2>5 DEF OnSchedule
    <3>4. n \in Nat /\ Len(b.children) + 1 > n
      BY <1>0
    <3>5. IssuedIn(c.children, l, n) = IssuedIn(b.children, l, n) + q
      BY <2>3, <3>4
    <3> QED BY <2>1, <3>2, <3>3, <3>5
  <2>6. ASSUME NEW m \in AllLegs, m # l
        PROVE  /\ c.algo[m] = b.algo[m]
               /\ \A n \in Nat : IssuedIn(c.children, m, n) = IssuedIn(b.children, m, n)
    <3>1. c.algo[m] = b.algo[m]
      BY <1>0, <2>1, <2>6
    <3>2. ASSUME NEW n \in Nat PROVE IssuedIn(c.children, m, n) = IssuedIn(b.children, m, n)
      <4>1. IssuedIn(b.children, m, n) \in Int
        BY <1>0, OfLegTyped, SumInt DEF IssuedIn
      <4> QED BY <2>3, <2>6, <4>1
    <3> QED BY <3>1, <3>2
  <2> QED BY <1>0, <1>2, <2>1, <2>4, <2>5, <2>6 DEF Drove
<1> QED BY <1>1, <1>2

(* Every algorithm that runs has sent a child. *)
Sent(b) ==
  \A l \in AllLegs : b.algo[l] # None => \E k \in 1..Len(b.children) : b.children[k].leg = l

LEMMA DueAtOnce ==
  ASSUME NEW l \in AllLegs, NEW q \in Nat, now \in Int, Plan(l, q)[1] > 0,
         NEW a, a = [qty |-> q, sent |-> 0, start |-> now]
  PROVE  Due(l, a).qty # 0
<1> DEFINE plan == Plan(l, q)
           open == {i \in (a.sent + 1)..Len(plan) :
                      a.start + i - 1 <= now /\ \A j \in (a.sent + 1)..(i - 1) : plan[j] = 0}
<1>1. Len(plan) \in Nat \ {0}
  BY PlanIs, LegAssumption, LenProperties, EmptySeq
<1>2. a.qty = q /\ Due(l, a).qty = IF open = {} THEN 0 ELSE plan[Max(open)]
  BY DEF Due
<1>3. open = {1}
  <2> HIDE DEF plan
  <2>1. 1 \in open
    BY <1>1
  <2>2. \A i \in open : i = 1
    BY <1>1
  <2> QED BY <2>1, <2>2
<1>4. Max({1}) = 1
  BY DEF Max
<1> HIDE DEF open
<1>5. Due(l, a).qty = plan[1]
  BY <1>2, <1>3, <1>4
<1> QED
  BY <1>5

(* The same of a leg that starts; what it has sent since counts from here. *)
Launched(b, l, q, c) ==
  /\ c \in Books /\ Longer(b.children, c.children, {l})
  /\ \A n \in 0..Len(b.children) :
       OnSchedule(b, l, n) /\ (b.algo[l] = None => IssuedIn(b.children, l, n) = 0)
         => OnSchedule(c, l, n)
  /\ Sent(b) /\ Plan(l, q)[1] > 0 => Sent(c)
  /\ \A m \in AllLegs : m # l =>
       /\ c.algo[m] = b.algo[m]
       /\ \A k \in Nat : IssuedIn(c.children, m, k) = IssuedIn(b.children, m, k)

LEMMA StartedKeeps ==
  ASSUME NEW b \in Books, NEW l \in AllLegs, NEW fits \in BOOLEAN, NEW q \in Nat, now \in Int,
         NEW c, c = Started(b, l, q, fits)
  PROVE  Launched(b, l, q, c)
<1>0. b.children \in Seq(Slices) /\ Len(b.children) \in Nat
      /\ b.algo \in [AllLegs -> Algos \union {None}]
      /\ b = [children |-> b.children, algo |-> b.algo]
  BY LenProperties DEF Books
<1>1. CASE b.algo[l] # None
  <2>1. c = b
    BY <1>1 DEF Started
  <2> QED BY <1>0, <1>1, <2>1 DEF Longer, Launched
<1>2. CASE b.algo[l] = None
  <2> DEFINE a == [qty |-> q, sent |-> 0, start |-> now]
  <2>1. PICK d : d = [b EXCEPT !.algo[l] = a]
    OBVIOUS
  <2>2. c = Driven(d, l, fits)
    BY <1>2, <2>1 DEF Started
  <2>3. d.children = b.children /\ d.algo = [b.algo EXCEPT ![l] = a]
        /\ d = [children |-> b.children, algo |-> [b.algo EXCEPT ![l] = a]]
    BY <1>0, <2>1
  <2>4. a \in Algos /\ a.sent = 0 /\ a.qty = q
    BY DEF Algos
  <2> HIDE DEF a
  <2>5. d \in Books
    <3>1. d.algo \in [AllLegs -> Algos \union {None}]
      BY <1>0, <2>3, <2>4
    <3>2. \A m \in AllLegs : d.algo[m] # None => d.algo[m].sent <= Len(Profile[m])
      <4> SUFFICES ASSUME NEW m \in AllLegs, d.algo[m] # None PROVE d.algo[m].sent <= Len(Profile[m])
        OBVIOUS
      <4>1. CASE m = l
        <5>1. d.algo[m] = a /\ Len(Profile[m]) \in Nat
          BY <1>0, <2>3, <4>1, LegAssumption, LenProperties
        <5> QED BY <2>4, <5>1
      <4>2. CASE m # l
        <5>1. d.algo[m] = b.algo[m]
          BY <1>0, <2>3, <4>2
        <5> QED BY <5>1 DEF Books
      <4> QED BY <4>1, <4>2
    <3> QED BY <1>0, <2>3, <3>1, <3>2 DEF Books
  <2>6. ASSUME NEW n \in 0..Len(b.children), b.algo[l] = None => IssuedIn(b.children, l, n) = 0
        PROVE  OnSchedule(d, l, n)
    <3>1. d.algo[l] = a
      BY <1>0, <2>3
    <3>2. Sums(Plan(l, q))[0] = 0
      <4>1. Plan(l, q) \in Seq(Int)
        BY PlanIs, QueueGrows
      <4> QED BY <4>1, SumsStep
    <3> QED BY <1>2, <2>3, <2>4, <2>6, <3>1, <3>2 DEF OnSchedule
  <2>7. \A m \in AllLegs : m # l => d.algo[m] = b.algo[m]
    BY <1>0, <2>3
  <2>8. 0..Len(d.children) = 0..Len(b.children) /\ d.children = b.children
    BY <2>3
  <2>9. Drove(d, l, c)
    BY <2>2, <2>5, DrivenKeeps
  <2>10. \A n \in 0..Len(b.children) :
              OnSchedule(b, l, n) /\ (b.algo[l] = None => IssuedIn(b.children, l, n) = 0)
                => OnSchedule(c, l, n)
    BY <2>6, <2>8, <2>9 DEF Drove
  <2>11. ASSUME Sent(b), Plan(l, q)[1] > 0 PROVE Sent(c)
    <3>0. Longer(b.children, c.children, {l}) /\ c \in Books
      BY <2>8, <2>9 DEF Drove
    <3>1. Len(c.children) \in Nat /\ Len(b.children) <= Len(c.children)
      BY <3>0, LenProperties DEF Books, Longer
    <3>2. ASSUME c.algo[l] # None PROVE Len(c.children) > Len(b.children)
      <4>0. d.algo[l] # None
        BY <2>9, <3>2 DEF Drove
      <4>1. d.algo[l] = a
        BY <1>0, <2>3
      <4>2. Due(l, a).qty # 0
        BY <2>11, DueAtOnce DEF a
      <4>3. DrivesTo(d, l, fits, c)
        BY <2>2, <2>5, <4>0, DrivenIs
      <4>4. PICK z \in Nat : z # 0 /\ c.children = Append(b.children, Child(l, z, fits))
        BY <2>8, <4>1, <4>2, <4>3, Zenon DEF DrivesTo
      <4>5. Child(l, z, fits) \in Slices
        BY DEF Child, Slices, Status, Active, Pending, Terminal
      <4> QED BY <1>0, <4>4, <4>5, AppendProperties
    <3>3. ASSUME NEW m \in AllLegs, c.algo[m] # None
          PROVE  \E k \in 1..Len(c.children) : c.children[k].leg = m
      <4>1. CASE m = l
        <5>1. Len(c.children) \in 1..Len(c.children) /\ Len(c.children) > Len(b.children)
          BY <1>0, <3>1, <3>2, <3>3, <4>1
        <5>2. c.children[Len(c.children)].leg = l
          BY <3>0, <5>1 DEF Longer
        <5> QED BY <4>1, <5>1, <5>2
      <4>2. CASE m # l
        <5>1. b.algo[m] # None
          BY <2>7, <2>9, <3>3, <4>2 DEF Drove
        <5>2. PICK k \in 1..Len(b.children) : b.children[k].leg = m
          BY <2>11, <5>1 DEF Sent
        <5>3. k \in 1..Len(c.children) /\ c.children[k] = b.children[k]
          BY <1>0, <3>0, <3>1 DEF Longer
        <5> QED BY <5>2, <5>3
      <4> QED BY <4>1, <4>2
    <3> QED BY <3>3 DEF Sent
  <2> QED BY <2>7, <2>8, <2>9, <2>10, <2>11 DEF Drove, Launched
<1> QED BY <1>1, <1>2

----------------------------------------------------------------------------
(* The reconciliation *)

(* The reconciliation goes through the legs one by one. *)
LEMMA ReconciledIs ==
  ASSUME NEW x, NEW sliced, NEW fits \in BOOLEAN, now \in Int,
         \A l \in sliced : x.size[l] \in Nat,
         Withdrawn(Book, Unwanted(x, sliced)) \in Books
  PROVE  \E p \in [0..Len(Legs) -> Books] :
           /\ p[0] = Withdrawn(Book, Unwanted(x, sliced))
           /\ p[Len(Legs)] = Reconciled(x, sliced, fits)
           /\ \A n \in 1..Len(Legs) :
                p[n] = IF Legs[n] \in sliced THEN Started(p[n - 1], Legs[n], x.size[Legs[n]], fits)
                       ELSE p[n - 1]
<1> DEFINE N == Len(Legs)
           base == Withdrawn(Book, Unwanted(x, sliced))
           To(n, b) == IF Legs[n] \in sliced THEN Started(b, Legs[n], x.size[Legs[n]], fits) ELSE b
           Solves(f) == f = [n \in 0..N |-> IF n = 0 THEN base ELSE To(n, f[n - 1])]
           g == [z \in Nat \X Books |-> IF z[1] \in 1..N THEN To(z[1], z[2]) ELSE z[2]]
           r == CHOOSE f : Solves(f)
<1>1. N \in Nat /\ \A n \in 1..N : Legs[n] \in AllLegs
  BY LegAssumption, LenProperties, ElementOfSeq
<1>2. \A n \in 1..N, b \in Books : To(n, b) \in Books
  <2> SUFFICES ASSUME NEW n \in 1..N, NEW b \in Books PROVE To(n, b) \in Books
    OBVIOUS
  <2>1. CASE Legs[n] \in sliced
    <3>1. x.size[Legs[n]] \in Nat /\ Legs[n] \in AllLegs
      BY <1>1, <2>1
    <3>2. Started(b, Legs[n], x.size[Legs[n]], fits) \in Books
      BY <3>1, StartedKeeps DEF Launched
    <3> QED BY <2>1, <3>2
  <2>2. CASE Legs[n] \notin sliced
    BY <2>2
  <2> QED BY <2>1, <2>2
<1> HIDE DEF To
<1>3. g \in [Nat \X Books -> Books]
  <2>1. ASSUME NEW z \in Nat \X Books PROVE (IF z[1] \in 1..N THEN To(z[1], z[2]) ELSE z[2]) \in Books
    <3>1. z[2] \in Books
      OBVIOUS
    <3> QED BY <3>1, <1>2
  <2> QED BY <2>1
<1>4. base \in Books
  OBVIOUS
<1> HIDE DEF g, base
<1>5. PICK p \in [0..N -> Books] : p[0] = base /\ \A n \in 1..N : p[n] = g[<<n, p[n - 1]>>]
  <2> HIDE DEF N
  <2>1. PICK z, h : z = base /\ h = g
    OBVIOUS
  <2>2. z \in Books /\ h \in [Nat \X Books -> Books]
    BY <1>3, <1>4, <2>1
  <2>3. CanStep(N, Books, z, h)
    BY <1>1, <2>2, FoldExists
  <2>4. \E p \in [0..N -> Books] : p[0] = z /\ \A n \in 1..N : p[n] = h[<<n, p[n - 1]>>]
    BY <2>3, Zenon DEF CanStep
  <2> QED BY <2>1, <2>4
<1>6. \A n \in 1..N : p[n] = To(n, p[n - 1]) /\ p[n - 1] \in Books
  <2> SUFFICES ASSUME NEW n \in 1..N PROVE p[n] = To(n, p[n - 1]) /\ p[n - 1] \in Books
    OBVIOUS
  <2>1. n - 1 \in 0..N /\ n \in Nat
    BY <1>1
  <2>2. p[n - 1] \in Books /\ <<n, p[n - 1]>> \in Nat \X Books
    BY <1>5, <2>1
  <2>3. g[<<n, p[n - 1]>>] = To(n, p[n - 1])
    BY <2>2 DEF g
  <2> QED BY <1>5, <2>2, <2>3
<1>7. Solves(p)
  <2>1. \A n \in 0..N : p[n] = IF n = 0 THEN base ELSE To(n, p[n - 1])
    BY <1>1, <1>5, <1>6
  <2> QED BY <1>5, <2>1
<1>8. Solves(r)
  <2> HIDE DEF Solves
  <2> QED BY <1>7
<1>9. Reconciled(x, sliced, fits) = r[N]
  BY DEF Reconciled, To, base
<1> HIDE DEF r
<1> DEFINE S == {n \in Nat : n <= N => r[n] = p[n]}
<1>10. S = Nat
  <2>1. S \in SUBSET Nat /\ 0 \in S
    BY <1>1, <1>5, <1>8
  <2>2. ASSUME NEW n \in S PROVE n + 1 \in S
    <3> SUFFICES ASSUME n + 1 <= N PROVE r[n + 1] = p[n + 1]
      OBVIOUS
    <3>1. n + 1 \in 1..N /\ (n + 1) - 1 = n /\ r[n] = p[n] /\ n + 1 \in 0..N /\ n + 1 # 0
      BY <1>1
    <3>2. r[n + 1] = To(n + 1, r[n])
      BY <1>8, <3>1
    <3> QED BY <1>6, <3>1, <3>2
  <2> HIDE DEF S
  <2> QED BY <2>1, <2>2, AllNumbers
<1>11. r[N] = p[N]
  BY <1>1, <1>10
<1>12. \A n \in 1..N : p[n] = IF Legs[n] \in sliced THEN Started(p[n - 1], Legs[n], x.size[Legs[n]], fits)
                       ELSE p[n - 1]
  BY <1>6 DEF To
<1> QED
  BY <1>5, <1>9, <1>11, <1>12 DEF base

LEMMA LongerStill ==
  ASSUME NEW as, NEW bs, NEW cs, NEW L, NEW l \in L, Longer(as, bs, L), Longer(bs, cs, {l}),
         NEW i \in Nat, NEW j \in Nat, NEW n \in Nat, Len(as) = i, Len(bs) = j, Len(cs) = n
  PROVE  Longer(as, cs, L)
<1>1. i <= j /\ j <= n
  BY DEF Longer
<1>2. ASSUME NEW k \in 1..Len(as) PROVE cs[k] = as[k]
  <2>1. k \in 1..Len(bs)
    BY <1>1
  <2> QED BY <2>1 DEF Longer
<1>3. ASSUME NEW k \in 1..Len(cs), k > Len(as) PROVE cs[k].leg \in L
  <2>1. CASE k > Len(bs)
    BY <2>1 DEF Longer
  <2>2. CASE ~(k > Len(bs))
    <3>1. k \in 1..Len(bs)
      BY <1>1, <2>2
    <3> QED BY <1>3, <3>1 DEF Longer
  <2> QED BY <2>1, <2>2
<1> QED
  <2>1. Len(as) \in Nat /\ Len(as) <= Len(cs)
    BY <1>1
  <2> QED BY <2>1, <1>2, <1>3 DEF Longer

(* The reconciliation, which finds w, leaves c: children of the legs that are
   sliced are added, and every algorithm is on its schedule, counted from e. *)
LegsKept(w, x, sliced, e, c) ==
  /\ c \in Books /\ Longer(w.children, c.children, sliced)
  /\ Sent(w) /\ (\A l \in sliced : Plan(l, x.size[l])[1] > 0) => Sent(c)
  /\ \A m \in AllLegs : /\ OnSchedule(c, m, e[m])
                        /\ c.algo[m] # None => m \in sliced \/ w.algo[m] # None

LEMMA ReconciledKeeps ==
  ASSUME NEW x, NEW sliced \in SUBSET AllLegs, NEW fits \in BOOLEAN, now \in Int,
         \A l \in sliced : x.size[l] \in Nat,
         NEW w \in Books, w = Withdrawn(Book, Unwanted(x, sliced)),
         NEW e,
         \A m \in AllLegs : /\ e[m] \in 0..Len(w.children) /\ OnSchedule(w, m, e[m])
                            /\ m \in sliced /\ w.algo[m] = None => IssuedIn(w.children, m, e[m]) = 0,
         NEW c, c = Reconciled(x, sliced, fits)
  PROVE  LegsKept(w, x, sliced, e, c)
<1> DEFINE N == Len(Legs)
           At(n, b) ==
             /\ b \in Books /\ Longer(w.children, b.children, sliced)
             /\ Sent(w) /\ (\A l \in sliced : Plan(l, x.size[l])[1] > 0) => Sent(b)
             /\ \A m \in AllLegs :
                  /\ OnSchedule(b, m, e[m])
                  /\ b.algo[m] # None => m \in sliced \/ w.algo[m] # None
                  /\ m \in sliced /\ (\A i \in 1..n : Legs[i] # m) /\ b.algo[m] = None
                       => IssuedIn(b.children, m, e[m]) = 0
<1>0. N \in Nat /\ (\A n \in 1..N : Legs[n] \in AllLegs) /\ DOMAIN Legs = 1..N
      /\ \A i, j \in 1..N : Legs[i] = Legs[j] => i = j
  BY LegAssumption, LenProperties, ElementOfSeq
<1>1. PICK p \in [0..N -> Books] :
           /\ p[0] = w /\ p[N] = c
           /\ \A n \in 1..N :
                p[n] = IF Legs[n] \in sliced THEN Started(p[n - 1], Legs[n], x.size[Legs[n]], fits)
                       ELSE p[n - 1]
  BY ReconciledIs
<1>2. Len(w.children) \in Nat
  BY LenProperties DEF Books
<1> DEFINE S == {n \in Nat : n <= N => At(n, p[n])}
<1>3. 0 \in S
  <2>1. Longer(w.children, w.children, sliced)
    BY <1>2 DEF Longer
  <2> QED BY <1>1, <2>1
<1>4. ASSUME NEW n \in S PROVE n + 1 \in S
  <2> DEFINE k == n + 1
             b == p[n]
             d == p[k]
             l == Legs[k]
  <2> SUFFICES ASSUME k <= N PROVE At(k, d)
    OBVIOUS
  <2>1. k \in 1..N /\ k - 1 = n /\ n \in Nat /\ At(n, b) /\ l \in AllLegs
    BY <1>0
  <2>2. CASE l \notin sliced
    <3>1. d = b
      BY <1>1, <2>1, <2>2
    <3>2. \A i \in 1..n : i \in 1..k
      BY <2>1
    <3> HIDE DEF b, d, k
    <3> QED BY <2>1, <3>1, <3>2
  <2>3. CASE l \in sliced
    <3> HIDE DEF b, d
    <3>1. d = Started(b, l, x.size[l], fits)
      BY <1>1, <2>1, <2>3 DEF b, d
    <3>2. x.size[l] \in Nat
      BY <2>3
    <3>3. Launched(b, l, x.size[l], d)
      BY <2>1, <3>1, <3>2, StartedKeeps
    <3>4. Longer(w.children, d.children, sliced)
      <4>1. Longer(w.children, b.children, sliced) /\ Longer(b.children, d.children, {l})
        BY <2>1, <3>3 DEF Launched
      <4>2. Len(d.children) \in Nat /\ d \in Books
        BY <3>3, LenProperties DEF Launched, Books
      <4>3. PICK i, j, m : i = Len(w.children) /\ j = Len(b.children) /\ m = Len(d.children)
        OBVIOUS
      <4>4. j \in Nat
        BY <4>1, <4>3 DEF Longer
      <4> QED BY <1>2, <2>3, <4>1, <4>2, <4>3, <4>4, LongerStill
    <3>5. Len(w.children) <= Len(b.children) /\ Len(b.children) \in Nat
      BY <2>1, <3>3 DEF Longer, Launched
    <3>6. \A m \in AllLegs : e[m] \in Nat /\ e[m] \in 0..Len(b.children)
      BY <1>2, <3>5
    <3>7. ASSUME NEW m \in AllLegs
          PROVE  /\ OnSchedule(d, m, e[m])
                 /\ d.algo[m] # None => m \in sliced \/ w.algo[m] # None
                 /\ m \in sliced /\ (\A i \in 1..k : Legs[i] # m) /\ d.algo[m] = None
                       => IssuedIn(d.children, m, e[m]) = 0
      <4>1. CASE m = l
        <5>1. \A i \in 1..n : Legs[i] # l
          BY <1>0, <2>1
        <5>2. b.algo[l] = None => IssuedIn(b.children, l, e[l]) = 0
          BY <2>1, <2>3, <5>1
        <5>3. OnSchedule(b, l, e[l])
          BY <2>1
        <5>4. OnSchedule(d, l, e[l])
          BY <2>1, <3>3, <3>6, <5>2, <5>3 DEF Launched
        <5>5. k \in 1..k /\ Legs[k] = l
          BY <2>1
        <5> QED BY <4>1, <5>4, <5>5, <2>3
      <4>2. CASE m # l
        <5>1. d.algo[m] = b.algo[m] /\ IssuedIn(d.children, m, e[m]) = IssuedIn(b.children, m, e[m])
          BY <3>3, <3>6, <4>2 DEF Launched
        <5>2. OnSchedule(d, m, e[m])
          <6>1. OnSchedule(b, m, e[m])
            BY <2>1
          <6> QED BY <5>1, <6>1 DEF OnSchedule
        <5>3. \A i \in 1..n : i \in 1..k
          BY <2>1
        <5> QED BY <2>1, <5>1, <5>2, <5>3
      <4> QED BY <4>1, <4>2
    <3>8. d \in Books
      BY <3>3 DEF Launched
    <3>9. Sent(w) /\ (\A j \in sliced : Plan(j, x.size[j])[1] > 0) => Sent(d)
      <4>1. Sent(w) /\ (\A j \in sliced : Plan(j, x.size[j])[1] > 0) => Sent(b)
        BY <2>1
      <4> QED BY <2>3, <3>3, <4>1 DEF Launched
    <3> QED BY <3>4, <3>7, <3>8, <3>9
  <2> QED BY <2>2, <2>3
<1>5. S = Nat
  <2>1. S \in SUBSET Nat
    OBVIOUS
  <2> HIDE DEF S
  <2> QED BY <2>1, <1>3, <1>4, AllNumbers
<1>6. At(N, c)
  BY <1>0, <1>1, <1>5
<1> QED
  BY <1>6 DEF LegsKept

----------------------------------------------------------------------------
(* Legs on their schedules *)

Asks == UNION {Signals(s) : s \in Strategies}

(* The signals on their way, the book and the schedules it keeps: each leg that
   runs has issued the first buckets of its plan since it began. *)
LegsTypeOK ==
  /\ now \in Nat /\ sigQ \in Seq(Asks) /\ Book \in Books
  /\ began \in [AllLegs -> Nat] /\ \A l \in AllLegs : began[l] <= Len(children)

LegsInv == LegsTypeOK /\ \A l \in AllLegs : OnSchedule(Book, l, began[l])

(* A book whose children keep leg and quantity, whose algorithms go on or end. *)
LEMMA SettledKeeps ==
  ASSUME NEW b, NEW c, SameSlices(b.children, c.children),
         NEW l, c.algo[l] = b.algo[l] \/ c.algo[l] = None, NEW n, OnSchedule(b, l, n)
  PROVE  OnSchedule(c, l, n)
<1>1. IssuedIn(c.children, l, n) = IssuedIn(b.children, l, n)
  BY IssuedSame
<1> QED BY <1>1 DEF OnSchedule

(* Withdrawn legs end, their children are cancelled. *)
WithdrawnTo(b, ls, w) ==
  /\ w \in Books /\ SameSlices(b.children, w.children) /\ Len(w.children) = Len(b.children)
  /\ \A l \in AllLegs : w.algo[l] = IF l \in ls THEN None ELSE b.algo[l]

LEMMA WithdrawnIs ==
  ASSUME NEW b \in Books, NEW ls, NEW w, w = Withdrawn(b, ls)
  PROVE  WithdrawnTo(b, ls, w)
<1> DEFINE f == [l \in AllLegs |-> IF l \in ls THEN None ELSE b.algo[l]]
           d == [b EXCEPT !.algo = f]
           ks == ChildrenOf(b, ls)
           cs == b.children
           g == [k \in DOMAIN cs |-> IF k \in ks THEN Transition(cs[k], "PENDING_CANCEL") ELSE cs[k]]
<1>1. cs \in Seq(Slices) /\ b.algo \in [AllLegs -> Algos \union {None}]
      /\ b = [children |-> cs, algo |-> b.algo] /\ DOMAIN cs = 1..Len(cs) /\ Len(cs) \in Nat
      /\ \A k \in 1..Len(cs) : cs[k] \in Slices
  <2>1. b.children \in Seq(Slices)
    BY DEF Books
  <2>2. DOMAIN b.children = 1..Len(b.children) /\ Len(b.children) \in Nat
        /\ \A k \in 1..Len(b.children) : b.children[k] \in Slices
    BY <2>1, LenProperties, ElementOfSeq
  <2> QED BY <2>1, <2>2 DEF Books
<1>2. [b EXCEPT !.algo = [l \in AllLegs |-> IF l \in ls THEN None ELSE @[l]]] = d
  OBVIOUS
<1>3. w = CancelAll(d, ks)
  BY <1>2 DEF Withdrawn
<1>4. d = [children |-> cs, algo |-> f]
  BY <1>1
<1> HIDE DEF f, d, ks, cs
<1>5. w = [children |-> g, algo |-> f]
  BY <1>3, <1>4 DEF CancelAll
<1>6. \A k \in 1..Len(cs) : g[k] \in Slices /\ g[k].leg = cs[k].leg /\ g[k].sent = cs[k].sent
  <2> SUFFICES ASSUME NEW k \in 1..Len(cs)
               PROVE  g[k] \in Slices /\ g[k].leg = cs[k].leg /\ g[k].sent = cs[k].sent
    OBVIOUS
  <2>1. cs[k] \in Slices /\ "PENDING_CANCEL" \in Status
    BY <1>1 DEF Status, Active, Pending
  <2>2. g[k] = cs[k] \/ g[k] = Transition(cs[k], "PENDING_CANCEL")
    BY <1>1
  <2> QED BY <2>1, <2>2, MovesTyped
<1>7. g \in Seq(Slices) /\ Len(g) = Len(cs) /\ DOMAIN g = 1..Len(cs)
  <2>1. g \in [1..Len(cs) -> Slices]
    BY <1>1, <1>6
  <2> HIDE DEF g
  <2> QED BY <1>1, <2>1, FunctionSeq
<1>8. SameSlices(cs, g)
  BY <1>1, <1>6, <1>7 DEF SameSlices
<1>9. f \in [AllLegs -> Algos \union {None}]
      /\ \A l \in AllLegs : f[l] = IF l \in ls THEN None ELSE b.algo[l]
  BY <1>1 DEF f
<1>10. \A l \in AllLegs : f[l] # None => f[l].sent <= Len(Profile[l])
  BY <1>9 DEF Books
<1> HIDE DEF g
<1>11. w.children = g /\ w.algo = f /\ w \in [children : Seq(Slices), algo : [AllLegs -> Algos \union {None}]]
  BY <1>5, <1>7, <1>9
<1>12. w \in Books
  BY <1>10, <1>11 DEF Books
<1> QED
  BY <1>7, <1>8, <1>9, <1>11, <1>12 DEF WithdrawnTo, cs

----------------------------------------------------------------------------
(* The handlers *)

LEMMA LegsBegin == RegistryInit /\ SlicedInit => LegsInv
<1> SUFFICES ASSUME RegistryInit, SlicedInit PROVE LegsInv
  OBVIOUS
<1>1. << >> \in Seq(Slices) /\ << >> \in Seq(Asks) /\ Len(<< >>) = 0
  BY EmptySeq
<1>2. Book = [children |-> << >>, algo |-> [l \in AllLegs |-> None]]
  BY DEF SlicedInit, Book
<1>3. Book \in Books
  BY <1>1, <1>2 DEF Books
<1>4. began = [l \in AllLegs |-> 0] /\ now = 0 /\ children = << >> /\ sigQ = << >>
  BY DEF SlicedInit, RegistryInit
<1>5. \A l \in AllLegs : OnSchedule(Book, l, began[l])
  BY <1>2 DEF OnSchedule
<1> QED
  BY <1>1, <1>3, <1>4, <1>5 DEF LegsInv, LegsTypeOK

(* What an approved signal leads to: the legs it no longer wants sliced are
   withdrawn, the others kept. *)
ReachedBy(x, sliced, w, c) ==
  /\ sigQ # << >> /\ x = Head(sigQ) /\ x \in Asks /\ sigQ' = Tail(sigQ)
  /\ sliced = {l \in DOMAIN x.size : Sliced(l, x.size[l])} /\ sliced \in SUBSET AllLegs
  /\ \A l \in sliced : x.size[l] \in Nat
  /\ WithdrawnTo(Book, Unwanted(x, sliced), w) /\ LegsKept(w, x, sliced, began', c)
  /\ Becomes(c)

LEMMA ApprovedIs ==
  ASSUME LegsInv, NEW fits \in BOOLEAN, Approved(fits)
  PROVE  \E x, sliced, w, c : ReachedBy(x, sliced, w, c)
<1>1. PICK x : x = Head(sigQ)
  OBVIOUS
<1> DEFINE sliced0 == {l \in DOMAIN x.size : Sliced(l, x.size[l])}
<1>2. PICK sliced : sliced = sliced0
  OBVIOUS
<1>3. PICK w : w = Withdrawn(Book, Unwanted(x, sliced))
  OBVIOUS
<1>4. PICK c : c = Reconciled(x, sliced, fits)
  OBVIOUS
<1> DEFINE e == [l \in AllLegs |-> IF l \in sliced /\ algo[l] = None THEN Len(children) ELSE began[l]]
<1>5. sigQ # << >> /\ sigQ' = Tail(sigQ) /\ now' = now
      /\ children' = c.children /\ algo' = c.algo /\ began' = e
  BY <1>1, <1>2, <1>4 DEF Approved, Becomes
<1>6. sigQ' \in Seq(Asks) /\ x \in Asks
  BY <1>1, <1>5, Dequeued DEF LegsInv, LegsTypeOK
<1>7. sliced \in SUBSET AllLegs /\ \A l \in sliced : x.size[l] \in Nat
  <2>1. PICK s \in Strategies : x \in Signals(s)
    BY <1>6 DEF Asks
  <2>2. x.size \in [OwnLegs(s) -> Sizes \union {0}] /\ OwnLegs(s) \in SUBSET AllLegs
    BY <2>1 DEF Signals, OwnLegs
  <2>3. Sizes \union {0} \in SUBSET Nat
    BY LegAssumption
  <2>4. \A l \in DOMAIN x.size : x.size[l] \in Nat
    BY <2>2, <2>3
  <2> HIDE DEF sliced0
  <2>5. sliced \in SUBSET DOMAIN x.size
    BY <1>2 DEF sliced0
  <2> QED BY <2>2, <2>4, <2>5
<1>8. Book \in Books /\ now \in Int /\ Book.algo = algo /\ Book.children = children
  BY DEF LegsInv, LegsTypeOK, Book
<1>9. WithdrawnTo(Book, Unwanted(x, sliced), w)
  <2>1. PICK b, ls : b = Book /\ ls = Unwanted(x, sliced)
    OBVIOUS
  <2> QED BY <1>3, <1>8, <2>1, WithdrawnIs
<1>10. children \in Seq(Slices) /\ Len(children) \in Nat /\ Len(w.children) = Len(children)
       /\ w.children \in Seq(Slices)
  BY <1>8, <1>9, LenProperties DEF Books, WithdrawnTo
<1>11. ASSUME NEW m \in AllLegs
       PROVE  /\ e[m] \in 0..Len(w.children) /\ OnSchedule(w, m, e[m])
              /\ m \in sliced /\ w.algo[m] = None => IssuedIn(w.children, m, e[m]) = 0
  <2>1. began[m] \in Nat /\ began[m] <= Len(children) /\ OnSchedule(Book, m, began[m])
    BY DEF LegsInv, LegsTypeOK
  <2>2. e[m] = IF m \in sliced /\ algo[m] = None THEN Len(children) ELSE began[m]
    OBVIOUS
  <2> HIDE DEF e
  <2>3. e[m] \in 0..Len(w.children)
    BY <1>10, <2>1, <2>2
  <2>4. w.algo[m] = algo[m] \/ w.algo[m] = None
    BY <1>8, <1>9 DEF WithdrawnTo
  <2>5. OnSchedule(w, m, e[m])
    <3>1. CASE w.algo[m] = None
      BY <3>1 DEF OnSchedule
    <3>2. CASE w.algo[m] # None
      <4>1. e[m] = began[m]
        BY <2>2, <2>4, <3>2
      <4>2. PICK b, n : b = Book /\ n = began[m]
        OBVIOUS
      <4>3. SameSlices(b.children, w.children) /\ (w.algo[m] = b.algo[m] \/ w.algo[m] = None)
        BY <1>8, <1>9, <2>4, <4>2 DEF WithdrawnTo
      <4> QED BY <2>1, <4>1, <4>2, <4>3, SettledKeeps
    <3> QED BY <3>1, <3>2
  <2>6. ASSUME m \in sliced, w.algo[m] = None PROVE IssuedIn(w.children, m, e[m]) = 0
    <3>1. m \notin Unwanted(x, sliced)
      BY <2>6 DEF Unwanted
    <3>2. algo[m] = None
      BY <1>8, <1>9, <2>6, <3>1 DEF WithdrawnTo
    <3>3. e[m] = Len(w.children)
      BY <1>10, <2>2, <2>6, <3>2
    <3> QED BY <1>10, <3>3, IssuedNothing
  <2> QED BY <2>3, <2>5, <2>6
<1>12. LegsKept(w, x, sliced, began', c)
  <2>1. PICK d : d = e
    OBVIOUS
  <2>2. d = began'
    BY <1>5, <2>1
  <2> HIDE DEF e
  <2>3. w \in Books
    BY <1>9 DEF WithdrawnTo
  <2> QED BY <1>3, <1>4, <1>7, <1>8, <1>11, <2>1, <2>2, <2>3, ReconciledKeeps
<1> HIDE DEF e, sliced0
<1>13. Becomes(c)
  BY <1>5 DEF Becomes
<1>14. ReachedBy(x, sliced, w, c)
  BY <1>1, <1>2, <1>5, <1>6, <1>7, <1>9, <1>12, <1>13 DEF ReachedBy, sliced0
<1> QED
  BY <1>14

LEMMA ApprovedKeeps == ASSUME LegsInv, NEW fits \in BOOLEAN, Approved(fits) PROVE LegsInv'
<1>1. PICK x, sliced, w, c : ReachedBy(x, sliced, w, c)
  BY ApprovedIs
<1>2. now' = now /\ sigQ' \in Seq(Asks)
  <2>1. sigQ # << >> /\ sigQ' = Tail(sigQ) /\ sigQ \in Seq(Asks)
    BY <1>1 DEF ReachedBy, LegsInv, LegsTypeOK
  <2>2. now' = now
    BY DEF Approved
  <2> QED BY <2>1, <2>2, Dequeued
<1>3. c \in Books /\ Longer(w.children, c.children, sliced) /\ \A m \in AllLegs : OnSchedule(c, m, began'[m])
  BY <1>1 DEF LegsKept, ReachedBy
<1>4. children' = c.children /\ Book' = c
  BY <1>1, <1>3 DEF Book, Books, Becomes, ReachedBy
<1>5. children \in Seq(Slices) /\ Len(children) \in Nat /\ Len(w.children) = Len(children)
      /\ Len(children') \in Nat
  <2>1. Book \in Books /\ Book.children = children
    BY DEF LegsInv, LegsTypeOK, Book
  <2>2. Len(w.children) = Len(children)
    BY <1>1, <2>1 DEF WithdrawnTo, ReachedBy
  <2> QED BY <1>3, <1>4, <2>1, <2>2, LenProperties DEF Books
<1>6. Len(children) <= Len(children')
  BY <1>3, <1>4, <1>5 DEF Longer
<1>7. began' \in [AllLegs -> Nat] /\ \A m \in AllLegs : began'[m] <= Len(children)
  <2>1. PICK ls : began' = [l \in AllLegs |-> IF l \in ls /\ algo[l] = None THEN Len(children) ELSE began[l]]
    BY DEF Approved
  <2> QED BY <1>5, <2>1 DEF LegsInv, LegsTypeOK
<1>8. \A m \in AllLegs : began'[m] <= Len(children')
  BY <1>5, <1>6, <1>7
<1> QED
  BY <1>2, <1>3, <1>4, <1>7, <1>8 DEF LegsInv, LegsTypeOK

(* A step that takes no signal of the queue and begins no algorithm. *)
LEMMA LegsSettle ==
  ASSUME LegsInv, NEW c \in Books, Becomes(c), now' \in Nat, sigQ' \in Seq(Asks), began' = began,
         Len(children) <= Len(c.children),
         \A l \in AllLegs : OnSchedule(Book, l, began[l]) => OnSchedule(c, l, began[l])
  PROVE  LegsInv'
<1>1. Book' = c
  BY DEF Book, Books, Becomes
<1>2. Len(children) \in Nat /\ Len(c.children) \in Nat
  BY LenProperties DEF LegsInv, LegsTypeOK, Books, Book
<1>3. children' = c.children
  BY DEF Becomes
<1> QED
  BY <1>1, <1>2, <1>3 DEF LegsInv, LegsTypeOK

LEMMA DriverKeeps ==
  ASSUME LegsInv, NEW l \in AllLegs, NEW fits \in BOOLEAN, DriverWakes(l, fits)
  PROVE  LegsInv'
<1>1. PICK b, c : b = Book /\ c = Driven(Book, l, fits)
  OBVIOUS
<1>2. Becomes(c) /\ now' = now /\ sigQ' = sigQ /\ began' = began
  BY <1>1 DEF DriverWakes, registryVars
<1>3. b \in Books /\ now \in Int /\ b.children = children /\ b.algo = algo
  BY <1>1 DEF LegsInv, LegsTypeOK, Book
<1>4. Drove(b, l, c)
  BY <1>1, <1>3, DrivenKeeps
<1>5. c \in Books /\ Len(children) <= Len(c.children)
  BY <1>3, <1>4 DEF Drove, Longer
<1>6. ASSUME NEW m \in AllLegs, OnSchedule(b, m, began[m]) PROVE OnSchedule(c, m, began[m])
  <2>1. began[m] \in Nat /\ began[m] <= Len(b.children) /\ Len(b.children) \in Nat
    BY <1>3, <1>4 DEF LegsInv, LegsTypeOK, Drove, Longer
  <2>2. began[m] \in 0..Len(b.children)
    BY <2>1
  <2>3. CASE m = l
    BY <1>4, <1>6, <2>2, <2>3 DEF Drove
  <2>4. CASE m # l
    <3>1. c.algo[m] = b.algo[m]
          /\ IssuedIn(c.children, m, began[m]) = IssuedIn(b.children, m, began[m])
      BY <1>4, <2>1, <2>4 DEF Drove
    <3> QED BY <1>6, <3>1 DEF OnSchedule
  <2> QED BY <2>3, <2>4
<1> QED
  BY <1>1, <1>2, <1>5, <1>6, LegsSettle DEF LegsInv, LegsTypeOK

LEMMA WithdrawalKeeps ==
  ASSUME LegsInv, NEW ls, Becomes(Withdrawn(Book, ls)), now' \in Nat, sigQ' \in Seq(Asks),
         began' = began
  PROVE  LegsInv'
<1>1. PICK b, c : b = Book /\ c = Withdrawn(Book, ls)
  OBVIOUS
<1>2. b \in Books /\ b.children = children /\ b.algo = algo
  BY <1>1 DEF LegsInv, LegsTypeOK, Book
<1>3. WithdrawnTo(b, ls, c)
  BY <1>1, <1>2, WithdrawnIs
<1>4. c \in Books /\ Len(c.children) = Len(children)
  BY <1>2, <1>3 DEF WithdrawnTo
<1>5. Len(children) <= Len(c.children)
  BY <1>4, LenProperties DEF Books
<1>6. ASSUME NEW m \in AllLegs, OnSchedule(b, m, began[m]) PROVE OnSchedule(c, m, began[m])
  <2>1. SameSlices(b.children, c.children) /\ (c.algo[m] = b.algo[m] \/ c.algo[m] = None)
    BY <1>3 DEF WithdrawnTo
  <2>2. PICK n : n = began[m]
    OBVIOUS
  <2> QED BY <1>6, <2>1, <2>2, SettledKeeps
<1>7. Becomes(c)
  BY <1>1
<1> QED
  BY <1>1, <1>4, <1>5, <1>6, <1>7, LegsSettle

(* Children keep their leg and what was sent, algorithms go on or end. *)
Settles ==
  /\ SameSlices(children, children')
  /\ \A l \in AllLegs : algo'[l] = algo[l] \/ algo'[l] = None

(* What the gateway, the stream and the resync say of a child. *)
Reported(k) ==
  \/ OnAck(k) \/ OnCancelRejected(k) \/ OnEnd(k, "REJECTED") \/ OnEnd(k, "CANCELLED")
  \/ \E q \in Amounts \union {children[k].qty} :
       \/ OnFill(k, q)
       \/ \E cum \in {0, q} : Refresh(k, cum, q)
       \/ \E s \in Terminal : Terminalize(k, s, q)

(* An answer changes one child, neither its leg nor what was sent. *)
LEMMA AnswerKeeps ==
  ASSUME LegsInv, NEW k \in DOMAIN children, NEW o, Answer(k, o), o \in Slices,
         o.leg = children[k].leg, o.sent = children[k].sent,
         NEW b, b = [Book EXCEPT !.children = children'],
         algo' = algo \/ \E l : algo' = RetiredIfDone(b, l).algo
  PROVE  LegsInv' /\ Settles
<1>1. children' = [children EXCEPT ![k] = o] /\ now' = now /\ sigQ' = sigQ /\ began' = began
  BY DEF Answer, registryVars
<1>2. children \in Seq(Slices) /\ algo \in [AllLegs -> Algos \union {None}] /\ Book \in Books
      /\ Book = [children |-> children, algo |-> algo]
      /\ \A l \in AllLegs : algo[l] # None => algo[l].sent <= Len(Profile[l])
  BY DEF LegsInv, LegsTypeOK, Book, Books
<1>3. DOMAIN children = 1..Len(children) /\ Len(children) \in Nat
  BY <1>2, LenProperties
<1>4. children' \in Seq(Slices) /\ Len(children') = Len(children)
  BY <1>1, <1>2, <1>3, ExceptSeq
<1>5. SameSlices(children, children')
  <2>1. DOMAIN children' = DOMAIN children
    BY <1>1
  <2>2. \A j \in DOMAIN children : children'[j] = IF j = k THEN o ELSE children[j]
    BY <1>1
  <2> QED BY <2>1, <2>2 DEF SameSlices
<1>6. b = [children |-> children', algo |-> algo]
  BY <1>2
<1>7. algo' \in [AllLegs -> Algos \union {None}]
      /\ \A l \in AllLegs : algo'[l] = algo[l] \/ algo'[l] = None
  <2>1. CASE algo' = algo BY <1>2, <2>1
  <2>2. ASSUME NEW l, algo' = RetiredIfDone(b, l).algo
        PROVE  /\ algo' \in [AllLegs -> Algos \union {None}]
               /\ \A m \in AllLegs : algo'[m] = algo[m] \/ algo'[m] = None
    <3>1. RetiredIfDone(b, l) = b \/ RetiredIfDone(b, l) = [b EXCEPT !.algo[l] = None]
      BY DEF RetiredIfDone, Retired
    <3>2. b.algo = algo /\ [b EXCEPT !.algo[l] = None].algo = [algo EXCEPT ![l] = None]
      BY <1>6
    <3>3. algo' = algo \/ algo' = [algo EXCEPT ![l] = None]
      BY <2>2, <3>1, <3>2
    <3> QED BY <1>2, <3>3
  <2> QED BY <2>1, <2>2
<1>8. PICK c : c = [children |-> children', algo |-> algo']
  OBVIOUS
<1>9. Becomes(c) /\ c.children = children' /\ c.algo = algo'
  BY <1>8 DEF Becomes
<1>10. c \in Books
  <2>1. \A l \in AllLegs : c.algo[l] # None => c.algo[l].sent <= Len(Profile[l])
    BY <1>2, <1>7, <1>9
  <2>2. c \in [children : Seq(Slices), algo : [AllLegs -> Algos \union {None}]]
    BY <1>4, <1>7, <1>8
  <2> QED BY <2>1, <2>2 DEF Books
<1>11. ASSUME NEW m \in AllLegs, OnSchedule(Book, m, began[m]) PROVE OnSchedule(c, m, began[m])
  <2>1. PICK d, n : d = Book /\ n = began[m]
    OBVIOUS
  <2>2. SameSlices(d.children, c.children) /\ (c.algo[m] = d.algo[m] \/ c.algo[m] = None)
    BY <1>2, <1>5, <1>7, <1>9, <2>1
  <2> QED BY <1>11, <2>1, <2>2, SettledKeeps
<1>12. now' \in Nat /\ sigQ' \in Seq(Asks)
  BY <1>1 DEF LegsInv, LegsTypeOK
<1>13. Len(children) <= Len(c.children)
  BY <1>3, <1>4, <1>9
<1> QED
  BY <1>1, <1>5, <1>7, <1>9, <1>10, <1>11, <1>12, <1>13, LegsSettle DEF Settles

LEMMA AnswersKeep ==
  ASSUME LegsInv, NEW k \in DOMAIN children,
         Reported(k)
  PROVE  LegsInv' /\ Settles
<1>1. PICK b : b = [Book EXCEPT !.children = children']
  OBVIOUS
<1>2. PICK p : p = children[k]
  OBVIOUS
<1>3. p \in Slices
  <2>1. children \in Seq(Slices)
    BY DEF LegsInv, LegsTypeOK, Book, Books
  <2>2. k \in 1..Len(children)
    BY <2>1, LenProperties
  <2> QED BY <1>2, <2>1, <2>2, ElementOfSeq
<1>4. "ACKNOWLEDGED" \in Status /\ "REJECTED" \in Status /\ "CANCELLED" \in Status
  BY DEF Status, Active, Resting, Terminal
<1>5. ASSUME NEW s \in Status, Answer(k, Transition(children[k], s)), algo' = algo PROVE LegsInv' /\ Settles
  <2>1. PICK o : o = Transition(p, s)
    OBVIOUS
  <2>2. o \in Slices /\ o.leg = p.leg /\ o.sent = p.sent
    BY <1>3, <2>1, MovesTyped
  <2> QED BY <1>1, <1>2, <1>5, <2>1, <2>2, AnswerKeeps
<1>6. CASE OnAck(k) \/ OnCancelRejected(k)
  BY <1>4, <1>5, <1>6 DEF OnAck, OnCancelRejected
<1>7. CASE OnEnd(k, "REJECTED") \/ OnEnd(k, "CANCELLED")
  BY <1>4, <1>5, <1>7 DEF OnEnd
<1>q. \A q \in Amounts \union {children[k].qty} : q \in Nat
  BY <1>2, <1>3, LegAssumption DEF Slices
<1>8. ASSUME NEW q \in Nat, OnFill(k, q) PROVE LegsInv' /\ Settles
  <2>1. PICK o : o = Filled(p, q)
    OBVIOUS
  <2>2. Answer(k, o)
    BY <1>2, <1>8, <2>1 DEF OnFill
  <2>3. q \in Int
    OBVIOUS
  <2>4. o \in Slices /\ o.leg = p.leg /\ o.sent = p.sent
    BY <1>3, <2>1, <2>3, FillTyped
  <2>5. algo' = algo \/ \E l : algo' = RetiredIfDone(b, l).algo
    <3>1. b.algo = algo
      BY <1>1 DEF Book
    <3>2. algo' = (IF IsTerminal(p) THEN b ELSE RetiredIfDone(b, p.leg)).algo
      BY <1>1, <1>2, <1>8 DEF OnFill
    <3> QED BY <3>1, <3>2
  <2> QED BY <1>1, <1>2, <2>2, <2>4, <2>5, AnswerKeeps
<1>9. ASSUME NEW q \in Nat, NEW cum \in {0, q}, Refresh(k, cum, q) PROVE LegsInv' /\ Settles
  <2>1. PICK o : o = Corrected(p, cum, q)
    OBVIOUS
  <2>2. Answer(k, o) /\ algo' = algo
    BY <1>2, <1>9, <2>1 DEF Refresh
  <2>3. o \in Slices /\ o.leg = p.leg /\ o.sent = p.sent
    BY <1>3, <2>1, CorrectedTyped
  <2> QED BY <1>1, <1>2, <2>2, <2>3, AnswerKeeps
<1>10. ASSUME NEW q \in Nat, NEW s \in Terminal, Terminalize(k, s, q) PROVE LegsInv' /\ Settles
  <2>1. PICK c : c = Corrected(p, q, p.qty)
    OBVIOUS
  <2>2. PICK o : o = Transition(c, s)
    OBVIOUS
  <2>3. Answer(k, o) /\ algo' = algo
    BY <1>2, <1>10, <2>1, <2>2 DEF Terminalize
  <2>4. c \in Slices /\ c.leg = p.leg /\ c.sent = p.sent
    <3>1. p.qty \in Nat
      BY <1>3 DEF Slices
    <3> QED BY <1>3, <2>1, <3>1, CorrectedTyped
  <2>5. o \in Slices /\ o.leg = p.leg /\ o.sent = p.sent
    BY <2>2, <2>4, MovesTyped DEF Status
  <2> QED BY <1>1, <1>2, <2>3, <2>5, AnswerKeeps
<1> QED
  BY <1>6, <1>7, <1>8, <1>9, <1>10, <1>q DEF Reported

LEMMA Addressed ==
  ASSUME NEW to \in {Registered} \union {<<s>> : s \in Strategies}
  PROVE  to \in Seq(Strategies) /\ ToSet(to) \in SUBSET Strategies
<1>1. to \in Seq(Strategies)
  <2>1. CASE to = Registered
    BY <2>1, RegistryAssumption
  <2>2. ASSUME NEW s \in Strategies, to = <<s>> PROVE to \in Seq(Strategies)
    BY <2>2
  <2> QED BY <2>1, <2>2
<1>2. DOMAIN to = 1..Len(to) /\ \A i \in 1..Len(to) : to[i] \in Strategies
  BY <1>1, LenProperties, ElementOfSeq
<1> QED BY <1>1, <1>2 DEF ToSet

(* Signals of those who are not paused go behind the others. *)
LEMMA DispatchIs ==
  ASSUME sigQ \in Seq(Asks), NEW to \in {Registered} \union {<<s>> : s \in Strategies}, NEW reply,
         NEW S, \A s \in ToSet(to) : s \notin paused /\ reply[s] # None => reply[s] \in S,
         Dispatch(to, reply)
  PROVE  \E more \in Seq(S) : sigQ' = sigQ \o more
<1>1. to \in Seq(Strategies)
  BY Addressed
<1>2. DOMAIN to = 1..Len(to) /\ Len(to) \in Nat /\ ToSet(to) = {to[i] : i \in DOMAIN to}
  BY <1>1, LenProperties DEF ToSet
<1> DEFINE ss == [i \in DOMAIN to |-> Invoked(to[i], reply)]
           signals == FlattenSeq(ss)
           room == SignalRoom - Len(sigQ)
           m == Min({Len(signals), room})
<1>3. ss \in Seq(Seq(S))
  <2>1. ASSUME NEW i \in 1..Len(to) PROVE Invoked(to[i], reply) \in Seq(S)
    <3>1. to[i] \in ToSet(to)
      BY <1>2
    <3>2. CASE to[i] \in paused \/ reply[to[i]] = None
      BY <3>2, EmptySeq DEF Invoked
    <3>3. CASE ~(to[i] \in paused \/ reply[to[i]] = None)
      <4>1. reply[to[i]] \in S
        BY <3>1, <3>3
      <4>2. <<reply[to[i]]>> \in Seq(S)
        BY <4>1
      <4> QED BY <3>3, <4>2 DEF Invoked
    <3> QED BY <3>2, <3>3
  <2>2. ss \in [1..Len(to) -> Seq(S)]
    BY <1>2, <2>1
  <2> HIDE DEF ss
  <2> QED BY <1>2, <2>2, FunctionSeq
<1>4. sigQ' = sigQ \o SubSeq(signals, 1, m)
  BY DEF Dispatch
<1> HIDE DEF ss
<1>5. signals \in Seq(S) /\ Len(signals) \in Nat
  <2>1. signals \in Seq(S)
    <3>1. PICK tt : tt = ss
      OBVIOUS
    <3> QED BY <1>3, <3>1, FlattenTyped
  <2> QED BY <2>1, LenProperties
<1> HIDE DEF signals
<1>6. m \in Int /\ m <= Len(signals)
  <2>1. Len(sigQ) \in Nat
    BY LenProperties
  <2>2. room \in Int
    BY <2>1, RegistryAssumption
  <2> DEFINE n == Len(signals)
             both == {n, room}
  <2> HIDE DEF n, room
  <2>3. \E z \in both : \A y \in both : z <= y
    BY <1>5, <2>2 DEF n
  <2>4. m = CHOOSE z \in both : \A y \in both : z <= y
    BY DEF Min, n
  <2>5. m \in both /\ m <= n
    BY <2>3, <2>4
  <2> QED BY <1>5, <2>2, <2>5 DEF n
<1> HIDE DEF m
<1>7. SubSeq(signals, 1, m) \in Seq(S)
  BY <1>5, <1>6, SubSeqProperties
<1> QED
  BY <1>4, <1>7
LEMMA DispatchKeeps ==
  ASSUME LegsInv, NEW to \in {Registered} \union {<<s>> : s \in Strategies},
         NEW reply, \A s \in ToSet(to) : reply[s] \in Signals(s) \union {None},
         Dispatch(to, reply), UNCHANGED slicedVars
  PROVE  LegsInv'
<1>1. sigQ \in Seq(Asks) /\ Book \in Books
  BY DEF LegsInv, LegsTypeOK
<1>2. ToSet(to) \in SUBSET Strategies
  BY Addressed
<1>3. \A s \in ToSet(to) : s \notin paused /\ reply[s] # None => reply[s] \in Asks
  BY <1>2 DEF Asks
<1>4. PICK more \in Seq(Asks) : sigQ' = sigQ \o more
  <2>1. PICK z : z = Asks
    OBVIOUS
  <2> QED BY <1>1, <1>3, <2>1, DispatchIs
<1>5. sigQ' \in Seq(Asks)
  BY <1>1, <1>4, ConcatProperties
<1>6. children' = children /\ algo' = algo /\ now' = now /\ began' = began
  BY DEF slicedVars
<1>7. Becomes(Book)
  BY <1>6 DEF Becomes, Book
<1>8. Len(children) <= Len(Book.children)
  BY <1>1, LenProperties DEF Books, Book
<1>9. PICK c : c = Book
  OBVIOUS
<1> QED
  BY <1>1, <1>5, <1>6, <1>7, <1>8, <1>9, LegsSettle DEF LegsInv, LegsTypeOK

(* Everything that changes neither a child nor an algorithm. *)
LEMMA QuietKeeps ==
  ASSUME LegsInv, children' = children, algo' = algo, began' = began, now' \in Nat,
         sigQ' \in Seq(Asks)
  PROVE  LegsInv'
<1>1. Book' = Book
  BY DEF Book
<1> QED
  BY <1>1 DEF LegsInv, LegsTypeOK

LEMMA LegsStep == LegsInv /\ [SlicedNext]_<<registryVars, slicedVars>> => LegsInv'
<1> SUFFICES ASSUME LegsInv, [SlicedNext]_<<registryVars, slicedVars>> PROVE LegsInv'
  OBVIOUS
<1>0. now \in Nat /\ sigQ \in Seq(Asks)
  BY DEF LegsInv, LegsTypeOK
<1>1. CASE OnOpenOrders \/ OnMarketData \/ Tick \/ UNCHANGED <<registryVars, slicedVars>>
  BY <1>0, <1>1, QuietKeeps DEF OnOpenOrders, OnMarketData, Tick, registryVars, slicedVars
<1>2. CASE Blocked
  <2>1. sigQ' \in Seq(Asks)
    BY <1>0, <1>2, Dequeued DEF Blocked
  <2> QED BY <1>0, <1>2, <2>1, QuietKeeps DEF Blocked, slicedVars
<1>3. CASE OnAlert
  BY <1>0, <1>3, WithdrawalKeeps DEF OnAlert, registryVars
<1>4. ASSUME NEW fits \in BOOLEAN, Approved(fits) PROVE LegsInv'
  BY <1>4, ApprovedKeeps
<1>5. ASSUME NEW fits \in BOOLEAN, NEW l \in AllLegs, DriverWakes(l, fits) PROVE LegsInv'
  BY <1>5, DriverKeeps
<1>6. ASSUME NEW s \in Strategies, PauseStrategy(s) PROVE LegsInv'
  <2>1. PICK ls : ls = LegsSent(s)
    OBVIOUS
  <2> QED BY <1>0, <1>6, <2>1, WithdrawalKeeps DEF PauseStrategy, Pause
<1>7. ASSUME NEW s \in Strategies, Resume(s), UNCHANGED slicedVars PROVE LegsInv'
  BY <1>0, <1>7, QuietKeeps DEF Resume, slicedVars
<1>8. ASSUME NEW k \in DOMAIN children,
             Reported(k)
      PROVE  LegsInv'
  BY <1>8, AnswersKeep
<1>9. ASSUME NEW to \in {Registered} \union {<<s>> : s \in Strategies}, NEW reply,
             \A s \in ToSet(to) : reply[s] \in Signals(s) \union {None},
             Dispatch(to, reply), UNCHANGED slicedVars
      PROVE  LegsInv'
  BY <1>9, DispatchKeeps
<1> QED
  BY <1>1, <1>2, <1>3, <1>4, <1>5, <1>6, <1>7, <1>8, <1>9 DEF SlicedNext, Reported

(* What the buckets before the last sent hold is no more than all of them. *)
LEMMA InvIsWithin == LegsInv => WithinLeg
<1> SUFFICES ASSUME LegsInv, NEW l \in AllLegs, algo[l] # None
             PROVE  /\ Issued(l) <= algo[l].qty
                    /\ Done(l, algo[l]) => Issued(l) = algo[l].qty
  BY DEF WithinLeg
<1>1. PICK a, n : a = algo[l] /\ n = Len(Profile[l])
  OBVIOUS
<1>2. a \in Algos /\ a.sent <= n /\ n \in Nat
  BY <1>1, LegAssumption, LenProperties DEF LegsInv, LegsTypeOK, Books, Book
<1>3. PICK plan : plan = Plan(l, a.qty)
  OBVIOUS
<1>4. plan \in Seq(Nat) /\ Len(plan) = n /\ SumOf(plan) = a.qty
  BY <1>1, <1>2, <1>3, PlanIs DEF Algos
<1>5. Issued(l) = Sums(plan)[a.sent]
  <2>1. Issued(l) = IssuedIn(children, l, began[l])
    BY DEF Issued, IssuedIn, OfLeg
  <2>2. OnSchedule(Book, l, began[l]) /\ Book.algo = algo /\ Book.children = children
    BY DEF LegsInv, Book
  <2> QED BY <1>1, <1>3, <2>1, <2>2 DEF OnSchedule
<1>6. a.sent \in 0..Len(plan) /\ n \in 0..Len(plan) /\ a.sent <= n
  BY <1>2, <1>4 DEF Algos
<1>7. Sums(plan)[a.sent] <= Sums(plan)[n]
  BY <1>4, <1>6, SumsGrow
<1>8. Sums(plan)[n] = a.qty
  BY <1>4 DEF SumOf
<1> QED
  BY <1>1, <1>5, <1>7, <1>8 DEF Done

(* An algorithm sends no more than the quantity its leg had when it began, however
   often the leg is declared again, withdrawn and begun anew, and exactly that when its
   schedule has been sent: _reconcile_sliced, _drive_algo, and _submit_child, which
   sends what the plan says. *)
THEOREM SlicesAddUp == SlicedSpec => []WithinLeg
<1>1. SlicedSpec => []LegsInv
  BY LegsBegin, LegsStep, PTL DEF SlicedSpec
<1> QED
  BY <1>1, InvIsWithin, PTL

----------------------------------------------------------------------------
(* The exposure the risk engine knows *)

(* An order that has ended stays so; one that moves on leaves as much open. *)
LEMMA ExposureStays ==
  ASSUME NEW o \in Slices, NEW t \in Active, NEW s
  PROVE  Exposure(Transition(o, t), s) = Exposure(o, s)
<1>1. CASE ~CanMove(o, t)
  BY <1>1 DEF Transition
<1>2. CASE CanMove(o, t)
  <2>1. o.status \notin Terminal
    BY <1>2 DEF CanMove, LegalFrom, Terminal, Resting
  <2>2. Transition(o, t) = [o EXCEPT !.status = t]
    BY <1>2 DEF Transition, Moved
  <2>3. t \notin Terminal
    BY DEF Active, Pending, Resting, Terminal
  <2>4. /\ Transition(o, t).status = t /\ Transition(o, t).leg = o.leg
        /\ Transition(o, t).qty = o.qty /\ Transition(o, t).cum = o.cum
    BY <2>2 DEF Slices
  <2> QED BY <2>1, <2>3, <2>4 DEF Exposure, IsTerminal, Leaves
<1> QED
  BY <1>1, <1>2

(* Children that leave open what they did count as they did. *)
SameExposure(cs, ds) ==
  DOMAIN ds = DOMAIN cs /\ \A k \in DOMAIN cs, s \in Strategies : Exposure(ds[k], s) = Exposure(cs[k], s)

LEMMA WorkingSame ==
  ASSUME NEW b, NEW c, SameExposure(b.children, c.children)
  PROVE  Working(c) = Working(b)
<1>1. ASSUME NEW s \in Strategies
      PROVE  [k \in DOMAIN c.children |-> Exposure(c.children[k], s)]
               = [k \in DOMAIN b.children |-> Exposure(b.children[k], s)]
  BY DEF SameExposure
<1> QED
  BY <1>1 DEF Working

LEMMA WorkingTyped ==
  ASSUME NEW b \in Books
  PROVE  Working(b) \in [Strategies -> Int]
<1>1. b.children \in Seq(Slices)
  BY DEF Books
<1>2. DOMAIN b.children = 1..Len(b.children) /\ Len(b.children) \in Nat
      /\ \A k \in 1..Len(b.children) : b.children[k] \in Slices
  BY <1>1, LenProperties, ElementOfSeq
<1>3. ASSUME NEW s \in Strategies
      PROVE  SumOf([k \in DOMAIN b.children |-> Exposure(b.children[k], s)]) \in Int
  <2> DEFINE f == [k \in DOMAIN b.children |-> Exposure(b.children[k], s)]
  <2>1. \A k \in 1..Len(b.children) : Exposure(b.children[k], s) \in Int
    BY <1>2 DEF Exposure, Leaves, Slices
  <2>2. f \in [1..Len(b.children) -> Int]
    BY <1>2, <2>1
  <2> HIDE DEF f
  <2>3. f \in Seq(Int)
    BY <1>2, <2>2, FunctionSeq
  <2>4. SumOf(f) \in Int
    BY <2>3, SumInt
  <2> QED BY <2>4 DEF f
<1> QED
  BY <1>3 DEF Working

(* Unless it was lost or is out of date, the last snapshot is on its way, or is what
   the risk engine works with, and tells the exposure there is now. *)
KnownInv ==
  ~untold => IF snapQ = None THEN known = Working(Book) ELSE snapQ = Working(Book)

WorkingInv == LegsInv /\ KnownInv

LEMMA KnownBegins == RegistryInit /\ SlicedInit => WorkingInv
<1> SUFFICES ASSUME RegistryInit, SlicedInit PROVE WorkingInv
  OBVIOUS
<1>1. Book.children = << >> /\ known = Nothing /\ snapQ = None
  BY DEF SlicedInit, Book
<1>2. ASSUME NEW s \in Strategies
      PROVE  SumOf([k \in DOMAIN Book.children |-> Exposure(Book.children[k], s)]) = 0
  <2>1. [k \in DOMAIN Book.children |-> Exposure(Book.children[k], s)] = << >>
    BY <1>1
  <2> QED BY <2>1, SumEmpty
<1>3. Working(Book) = [s \in Strategies |-> 0]
  BY <1>2 DEF Working
<1> QED
  BY <1>1, <1>3, LegsBegin DEF WorkingInv, KnownInv, Nothing

LEMMA PublishTells ==
  ASSUME NEW b, PublishOpenOrders(b), LegsInv', b.children = children'
  PROVE  KnownInv'
<1>1. Book'.children = children' /\ Book' \in Books
  BY DEF Book, LegsInv, LegsTypeOK
<1>2. PICK c : c = Book'
  OBVIOUS
<1>3. Working(b) = Working(c)
  BY <1>1, <1>2 DEF Working
<1>4. Working(c) # None
  BY <1>1, <1>2, WorkingTyped, SnapshotAssumption
<1> QED
  BY <1>2, <1>3, <1>4 DEF PublishOpenOrders, KnownInv

LEMMA SilenceTells ==
  ASSUME KnownInv, UNCHANGED <<snapQ, untold, known>>, SameExposure(children, children')
  PROVE  KnownInv'
<1>1. PICK b, c : b = Book /\ c = Book'
  OBVIOUS
<1>2. b.children = children /\ c.children = children'
  BY <1>1 DEF Book
<1>3. Working(c) = Working(b)
  BY <1>2, WorkingSame
<1> QED
  BY <1>1, <1>3 DEF KnownInv

LEMMA CancelledSame ==
  ASSUME LegsInv, NEW ls, Becomes(Withdrawn(Book, ls))
  PROVE  SameExposure(children, children')
<1>1. children \in Seq(Slices)
  BY DEF LegsInv, LegsTypeOK, Book, Books
<1>2. DOMAIN children = 1..Len(children) /\ \A k \in 1..Len(children) : children[k] \in Slices
  BY <1>1, LenProperties, ElementOfSeq
<1>3. PICK js : js = ChildrenOf(Book, ls)
  OBVIOUS
<1>4. children' = [k \in DOMAIN children |-> IF k \in js THEN Transition(children[k], "PENDING_CANCEL")
                                             ELSE children[k]]
  <2> DEFINE f == [l \in AllLegs |-> IF l \in ls THEN None ELSE Book.algo[l]]
  <2>1. Withdrawn(Book, ls) = CancelAll([Book EXCEPT !.algo = f], js)
    BY <1>3 DEF Withdrawn
  <2>2. [Book EXCEPT !.algo = f].children = children
    BY DEF Book
  <2> HIDE DEF f
  <2>3. CancelAll([Book EXCEPT !.algo = f], js).children
          = [k \in DOMAIN children |-> IF k \in js THEN Transition(children[k], "PENDING_CANCEL")
                                             ELSE children[k]]
    <3>1. PICK d : d = [Book EXCEPT !.algo = f]
      OBVIOUS
    <3>2. d.children = children /\ d = [children |-> children, algo |-> f]
      BY <2>2, <3>1 DEF Book
    <3> QED BY <3>1, <3>2 DEF CancelAll
  <2> QED BY <2>1, <2>3 DEF Becomes
<1>5. ASSUME NEW k \in DOMAIN children, NEW s \in Strategies
      PROVE  Exposure(children'[k], s) = Exposure(children[k], s)
  <2>1. PICK o : o = children[k]
    OBVIOUS
  <2>2. o \in Slices /\ "PENDING_CANCEL" \in Active
    BY <1>2, <2>1 DEF Active, Pending
  <2>3. children'[k] = o \/ children'[k] = Transition(o, "PENDING_CANCEL")
    BY <1>4, <2>1
  <2> QED BY <2>1, <2>2, <2>3, ExposureStays
<1> QED
  BY <1>4, <1>5 DEF SameExposure

LEMMA KnownStep == WorkingInv /\ [SlicedNext]_<<registryVars, slicedVars>> => WorkingInv'
<1> SUFFICES ASSUME WorkingInv, [SlicedNext]_<<registryVars, slicedVars>> PROVE WorkingInv'
  OBVIOUS
<1>0. LegsInv /\ LegsInv' /\ KnownInv
  BY LegsStep DEF WorkingInv
<1> SUFFICES KnownInv'
  BY <1>0 DEF WorkingInv
<1>s. SameExposure(children, children)
  BY DEF SameExposure
<1>1. CASE OnMarketData \/ Tick \/ Blocked \/ UNCHANGED <<registryVars, slicedVars>>
  BY <1>0, <1>1, <1>s, SilenceTells DEF OnMarketData, Tick, Blocked, registryVars, slicedVars
<1>2. CASE OnOpenOrders
  <2>1. Book' = Book
    BY <1>2 DEF OnOpenOrders, Book
  <2> QED BY <1>0, <1>2, <2>1 DEF OnOpenOrders, KnownInv
<1>3. CASE OnAlert
  <2>1. SameExposure(children, children')
    <3>1. PICK ls : ls = AllLegs
      OBVIOUS
    <3> QED BY <1>0, <1>3, <3>1, CancelledSame DEF OnAlert
  <2> QED BY <1>0, <1>3, <2>1, SilenceTells DEF OnAlert
<1>4. ASSUME NEW fits \in BOOLEAN, Approved(fits) PROVE KnownInv'
  <2>1. PICK b : Becomes(b) /\ PublishOpenOrders(b)
    BY <1>4 DEF Approved
  <2> QED BY <1>0, <2>1, PublishTells DEF Becomes
<1>5. ASSUME NEW fits \in BOOLEAN, NEW l \in AllLegs, DriverWakes(l, fits) PROVE KnownInv'
  <2>1. PICK b : b = Driven(Book, l, fits)
    OBVIOUS
  <2>2. Becomes(b) /\ known' = known
        /\ (IF b.children # children THEN PublishOpenOrders(b) ELSE UNCHANGED <<snapQ, untold>>)
    BY <1>5, <2>1 DEF DriverWakes
  <2>3. CASE b.children # children
    BY <1>0, <2>2, <2>3, PublishTells DEF Becomes
  <2>4. CASE b.children = children
    <3>1. children' = children
      BY <2>2, <2>4 DEF Becomes
    <3> QED BY <1>0, <1>s, <2>2, <2>4, <3>1, SilenceTells
  <2> QED BY <2>3, <2>4
<1>6. ASSUME NEW s \in Strategies, PauseStrategy(s) PROVE KnownInv'
  <2>1. PICK ls : ls = LegsSent(s)
    OBVIOUS
  <2>2. SameExposure(children, children')
    BY <1>0, <1>6, <2>1, CancelledSame DEF PauseStrategy
  <2> QED BY <1>0, <1>6, <2>2, SilenceTells DEF PauseStrategy
<1>7. ASSUME UNCHANGED slicedVars PROVE KnownInv'
  BY <1>0, <1>7, <1>s, SilenceTells DEF slicedVars
<1>8. ASSUME NEW k \in DOMAIN children, OnAck(k) \/ OnCancelRejected(k) PROVE KnownInv'
  <2>1. PICK p : p = children[k]
    OBVIOUS
  <2>2. p \in Slices
    <3>1. children \in Seq(Slices)
      BY <1>0 DEF LegsInv, LegsTypeOK, Book, Books
    <3>2. k \in 1..Len(children)
      BY <3>1, LenProperties
    <3> QED BY <2>1, <3>1, <3>2, ElementOfSeq
  <2>3. children' = [children EXCEPT ![k] = Transition(p, "ACKNOWLEDGED")]
        /\ UNCHANGED <<snapQ, untold, known>>
    BY <1>8, <2>1 DEF OnAck, OnCancelRejected, Answer
  <2>4. \A s \in Strategies : Exposure(Transition(p, "ACKNOWLEDGED"), s) = Exposure(p, s)
    <3>1. "ACKNOWLEDGED" \in Active
      BY DEF Active, Resting
    <3> QED BY <2>2, <3>1, ExposureStays
  <2>5. SameExposure(children, children')
    BY <2>1, <2>3, <2>4 DEF SameExposure
  <2> QED BY <1>0, <2>3, <2>5, SilenceTells
<1>9. ASSUME NEW k \in DOMAIN children, NEW q,
             OnEnd(k, "REJECTED") \/ OnEnd(k, "CANCELLED") \/ OnFill(k, q)
      PROVE  KnownInv'
  <2>1. PICK b : b = [Book EXCEPT !.children = children']
    OBVIOUS
  <2>2. b.children = children'
    BY <2>1 DEF Book
  <2>3. PublishOpenOrders(b)
    BY <1>9, <2>1 DEF OnEnd, OnFill
  <2> QED BY <1>0, <2>2, <2>3, PublishTells
<1>10. ASSUME NEW k \in DOMAIN children, NEW q, NEW cum, NEW s,
              Refresh(k, cum, q) \/ Terminalize(k, s, q)
       PROVE  KnownInv'
  <2>1. PICK b : b = [Book EXCEPT !.children = children']
    OBVIOUS
  <2>2. b.children = children'
    BY <2>1 DEF Book
  <2>3. PublishOpenOrders(b) \/ untold' = TRUE
    BY <1>10, <2>1 DEF Refresh, Terminalize
  <2>4. CASE untold' = TRUE
    BY <2>4 DEF KnownInv
  <2> QED BY <1>0, <2>2, <2>3, <2>4, PublishTells
<1> QED
  BY <1>1, <1>2, <1>3, <1>4, <1>5, <1>6, <1>7, <1>8, <1>9, <1>10 DEF SlicedNext

(* Every change of what the children leave open publishes a snapshot, but for the
   resync's: once the last has been handled, and unless it was dropped or an order was
   corrected since, the risk engine's working exposure is that of the OMS
   (_publish_open_orders, _refresh_adopted_order, on_open_orders). *)
THEOREM ExposureIsKnown == SlicedSpec => []WorkingIsKnown
<1>1. SlicedSpec => []WorkingInv
  BY KnownBegins, KnownStep, PTL DEF SlicedSpec
<1>2. WorkingInv => WorkingIsKnown
  BY DEF WorkingInv, KnownInv, WorkingIsKnown
<1> QED
  BY <1>1, <1>2, PTL

----------------------------------------------------------------------------
(* What is sent is wanted *)

(* A strategy may have signals carried out unless it is paused, and those too that
   were on their way when it was. *)
Heard(s) == s \notin paused \/ inFlight[s]

(* What runs is wanted, may be carried out, and is found by the orders it sent. *)
WantInv ==
  /\ inFlight \in [Strategies -> BOOLEAN]
  /\ \A l \in AllLegs : algo[l] # None => l \in wanted /\ Heard(Owner[l])
  /\ Sent(Book)
  /\ \A i \in 1..Len(sigQ) : Heard(sigQ[i].strat)

SlicesInv == LegsInv /\ WantInv

LEMMA WantBegins == RegistryInit /\ SlicedInit => SlicesInv
<1> SUFFICES ASSUME RegistryInit, SlicedInit PROVE SlicesInv
  OBVIOUS
<1>1. inFlight \in [Strategies -> BOOLEAN]
  BY DEF RegistryInit
<1>2. \A l \in AllLegs : algo[l] = None /\ Book.algo[l] = None
  BY DEF SlicedInit, Book
<1>3. Len(sigQ) = 0
  BY EmptySeq DEF RegistryInit
<1> QED
  BY <1>1, <1>2, <1>3, LegsBegin DEF SlicesInv, WantInv, Sent

(* Children that keep their legs still find the algorithms that run. *)
LEMMA SentStays ==
  ASSUME NEW b \in Books, NEW c \in Books, Sent(b), SameSlices(b.children, c.children),
         \A l \in AllLegs : c.algo[l] = b.algo[l] \/ c.algo[l] = None
  PROVE  Sent(c)
<1>1. b.children \in Seq(Slices) /\ c.children \in Seq(Slices)
  BY DEF Books
<1>2. DOMAIN b.children = 1..Len(b.children) /\ DOMAIN c.children = 1..Len(c.children)
  BY <1>1, LenProperties
<1>3. ASSUME NEW l \in AllLegs, c.algo[l] # None
      PROVE  \E k \in 1..Len(c.children) : c.children[k].leg = l
  <2>1. PICK k \in 1..Len(b.children) : b.children[k].leg = l
    BY <1>3 DEF Sent
  <2>2. k \in 1..Len(c.children) /\ c.children[k].leg = b.children[k].leg
    BY <1>2 DEF SameSlices
  <2> QED BY <2>1, <2>2
<1> QED
  BY <1>3 DEF Sent

(* A step that adds no child: what runs after it ran before, still wanted. *)
LEMMA WantSettles ==
  ASSUME SlicesInv, LegsInv', SameSlices(children, children'),
         \A l \in AllLegs : algo'[l] = algo[l] \/ algo'[l] = None,
         \A l \in AllLegs : algo'[l] # None /\ l \in wanted /\ Heard(Owner[l])
                              => l \in wanted' /\ Heard(Owner[l])',
         inFlight' \in [Strategies -> BOOLEAN],
         \A i \in 1..Len(sigQ') : Heard(sigQ[i].strat)'
  PROVE  WantInv'
<1>1. PICK b, c : b = Book /\ c = Book'
  OBVIOUS
<1>2. /\ b \in Books /\ b.algo = algo /\ b.children = children
      /\ c \in Books /\ c.algo = algo' /\ c.children = children' /\ Sent(b)
  BY <1>1 DEF SlicesInv, LegsInv, LegsTypeOK, WantInv, Book
<1>3. Sent(c)
  BY <1>2, SentStays
<1>4. ASSUME NEW l \in AllLegs, algo'[l] # None PROVE l \in wanted' /\ Heard(Owner[l])'
  BY <1>4 DEF SlicesInv, WantInv
<1> QED
  BY <1>1, <1>3, <1>4 DEF WantInv

LEMMA SameItself == SameSlices(children, children)
BY DEF SameSlices

(* A step of the books alone. *)
LEMMA WantUnmoved ==
  ASSUME SlicesInv, LegsInv', UNCHANGED <<wanted, sigQ, inFlight, paused>>, Settles
  PROVE  WantInv'
<1>1. Len(sigQ') = Len(sigQ) /\ \A i \in 1..Len(sigQ) : sigQ'[i] = sigQ[i]
  OBVIOUS
<1>2. \A s : Heard(s)' = Heard(s)
  BY DEF Heard
<1>3. \A i \in 1..Len(sigQ') : Heard(sigQ[i].strat)'
  BY <1>1 DEF SlicesInv, WantInv, Heard
<1>4. \A l \in AllLegs : Heard(Owner[l])' <=> Heard(Owner[l])
  BY DEF Heard
<1>5. inFlight' \in [Strategies -> BOOLEAN]
  BY DEF SlicesInv, WantInv
<1> QED
  BY <1>3, <1>4, <1>5, WantSettles DEF Settles

(* What is withdrawn ends. *)
LEMMA WithdrawalSettles ==
  ASSUME LegsInv, NEW ls, Becomes(Withdrawn(Book, ls))
  PROVE  Settles /\ \A l \in AllLegs : l \in ls => algo'[l] = None
<1>1. PICK b, c : b = Book /\ c = Withdrawn(Book, ls)
  OBVIOUS
<1>2. b \in Books /\ b.children = children /\ b.algo = algo
  BY <1>1 DEF LegsInv, LegsTypeOK, Book
<1>3. WithdrawnTo(b, ls, c)
  BY <1>1, <1>2, WithdrawnIs
<1> QED
  BY <1>1, <1>2, <1>3 DEF WithdrawnTo, Settles, Becomes

LEMMA PauseWants ==
  ASSUME SlicesInv, LegsInv', NEW s \in Strategies, PauseStrategy(s)
  PROVE  WantInv'
<1>1. PICK ls : ls = LegsSent(s)
  OBVIOUS
<1>2. /\ Settles /\ \A l \in ls : algo'[l] = None
  <2>1. ls \in SUBSET AllLegs
    BY <1>1 DEF LegsSent, OwnLegs
  <2> QED BY <1>1, <2>1, WithdrawalSettles DEF PauseStrategy, SlicesInv
<1>3. paused' = paused \union {s} /\ sigQ' = sigQ /\ wanted' = {l \in wanted : Owner[l] # s}
      /\ inFlight' = [inFlight EXCEPT ![s] = \E i \in DOMAIN sigQ : sigQ[i].strat = s]
  BY DEF PauseStrategy, Pause
<1>4. inFlight \in [Strategies -> BOOLEAN] /\ sigQ \in Seq(Asks)
  BY DEF SlicesInv, WantInv, LegsInv, LegsTypeOK
<1>5. inFlight' \in [Strategies -> BOOLEAN]
  <2>1. (\E i \in DOMAIN sigQ : sigQ[i].strat = s) \in BOOLEAN
    OBVIOUS
  <2> QED BY <1>3, <1>4, <2>1
<1>6. \A t \in Strategies : t # s /\ Heard(t) => Heard(t)'
  BY <1>3, <1>4 DEF Heard
<1>7. ASSUME NEW i \in 1..Len(sigQ') PROVE Heard(sigQ[i].strat)'
  <2>1. i \in 1..Len(sigQ) /\ DOMAIN sigQ = 1..Len(sigQ) /\ sigQ'[i] = sigQ[i] /\ sigQ[i] \in Asks
    BY <1>3, <1>4, LenProperties, ElementOfSeq
  <2>2. sigQ[i].strat \in Strategies
    BY <2>1 DEF Asks, Signals
  <2>3. CASE sigQ[i].strat = s
    <3>1. inFlight'[s] = (\E j \in DOMAIN sigQ : sigQ[j].strat = s)
      BY <1>3, <1>4
    <3>2. inFlight'[s]
      BY <2>1, <2>3, <3>1
    <3> QED BY <2>1, <2>3, <3>2 DEF Heard
  <2>4. CASE sigQ[i].strat # s
    <3>1. Heard(sigQ[i].strat)
      BY <2>1 DEF SlicesInv, WantInv
    <3>2. PICK t : t = sigQ[i].strat
      OBVIOUS
    <3>3. Heard(t)'
      BY <1>6, <2>2, <2>4, <3>1, <3>2
    <3> QED BY <2>1, <3>2, <3>3
  <2> QED BY <2>3, <2>4
<1>8. ASSUME NEW l \in AllLegs, algo'[l] # None, l \in wanted, Heard(Owner[l])
      PROVE  l \in wanted' /\ Heard(Owner[l])'
  <2>1. algo[l] # None /\ l \notin ls
    BY <1>2, <1>8 DEF Settles
  <2>2. ChildrenOf(Book, {l}) # {}
    <3>1. Book.algo = algo /\ Book.children = children /\ Book \in Books
      BY DEF Book, SlicesInv, LegsInv, LegsTypeOK
    <3>2. PICK k \in 1..Len(children) : children[k].leg = l
      BY <2>1, <3>1 DEF SlicesInv, WantInv, Sent
    <3>3. k \in DOMAIN children
      <4>1. children \in Seq(Slices)
        BY <3>1 DEF Books
      <4> QED BY <4>1, LenProperties
    <3> QED BY <3>1, <3>2, <3>3 DEF ChildrenOf
  <2>3. Owner[l] # s
    BY <1>1, <2>1, <2>2 DEF LegsSent, OwnLegs
  <2>4. Owner[l] \in Strategies
    BY LegAssumption
  <2> QED BY <1>3, <1>6, <1>8, <2>3, <2>4
<1> QED
  BY <1>2, <1>5, <1>7, <1>8, WantSettles DEF Settles

LEMMA DispatchWants ==
  ASSUME SlicesInv, LegsInv', NEW to \in {Registered} \union {<<s>> : s \in Strategies},
         NEW reply, \A s \in ToSet(to) : reply[s] \in Signals(s) \union {None},
         Dispatch(to, reply), UNCHANGED slicedVars
  PROVE  WantInv'
<1> DEFINE S == {x \in Asks : x.strat \notin paused}
<1>1. sigQ \in Seq(Asks) /\ inFlight \in [Strategies -> BOOLEAN]
      /\ \A i \in 1..Len(sigQ) : Heard(sigQ[i].strat)
  BY DEF SlicesInv, WantInv, LegsInv, LegsTypeOK
<1>2. ToSet(to) \in SUBSET Strategies
  BY Addressed
<1>3. \A s \in ToSet(to) : s \notin paused /\ reply[s] # None => reply[s] \in S
  BY <1>2 DEF Asks, Signals
<1>4. PICK more \in Seq(S) : sigQ' = sigQ \o more
  <2>1. PICK z : z = S
    OBVIOUS
  <2> HIDE DEF S
  <2> QED BY <1>1, <1>3, <2>1, DispatchIs
<1>5. paused' = paused /\ inFlight' = inFlight /\ wanted' = wanted /\ children' = children /\ algo' = algo
  BY DEF Dispatch, slicedVars
<1>6. \A x \in S : Heard(x.strat)
  BY DEF Heard
<1>7. ASSUME NEW i \in 1..Len(sigQ') PROVE Heard(sigQ[i].strat)'
  <2> HIDE DEF S
  <2>1. /\ Len(sigQ') = Len(sigQ) + Len(more) /\ Len(sigQ) \in Nat /\ Len(more) \in Nat
        /\ \A j \in 1..Len(sigQ) : sigQ'[j] = sigQ[j]
        /\ \A j \in 1..Len(more) : sigQ'[Len(sigQ) + j] = more[j]
    <3>1. more \in Seq(S) /\ S \in SUBSET Asks
      BY DEF S
    <3>2. more \in Seq(Asks)
      BY <3>1, QueueGrows
    <3> QED BY <1>1, <1>4, <3>2, LenProperties, ConcatProperties
  <2>2. Heard(sigQ'[i].strat)
    <3>1. CASE i \in 1..Len(sigQ)
      BY <1>1, <2>1, <3>1
    <3>2. CASE i \notin 1..Len(sigQ)
      <4>1. i - Len(sigQ) \in 1..Len(more) /\ Len(sigQ) + (i - Len(sigQ)) = i
        BY <2>1, <3>2
      <4>2. more[i - Len(sigQ)] \in S
        BY <4>1, ElementOfSeq
      <4>3. sigQ'[i] = more[i - Len(sigQ)]
        BY <2>1, <4>1
      <4> QED BY <1>6, <4>2, <4>3
    <3> QED BY <3>1, <3>2
  <2> QED BY <1>5, <2>2 DEF Heard
<1>8. \A l \in AllLegs : Heard(Owner[l]) => Heard(Owner[l])'
  BY <1>5 DEF Heard
<1>9. SameSlices(children, children')
  BY <1>5, SameItself
<1> QED
  BY <1>1, <1>5, <1>7, <1>8, <1>9, WantSettles

LEMMA ApprovedWants ==
  ASSUME SlicesInv, LegsInv', NEW fits \in BOOLEAN, Approved(fits)
  PROVE  /\ WantInv'
         /\ \A k \in DOMAIN children' \ DOMAIN children :
              children'[k].leg \in wanted' /\ Heard(Owner[children'[k].leg])
<1>0. LegsInv
  BY DEF SlicesInv
<1>1. PICK x, sliced, w, c : ReachedBy(x, sliced, w, c)
  BY <1>0, ApprovedIs
<1>2. /\ sigQ # << >> /\ x = Head(sigQ) /\ x \in Asks /\ sigQ' = Tail(sigQ)
      /\ sliced = {l \in DOMAIN x.size : Sliced(l, x.size[l])} /\ sliced \in SUBSET AllLegs
      /\ WithdrawnTo(Book, Unwanted(x, sliced), w) /\ LegsKept(w, x, sliced, began', c)
      /\ Becomes(c)
  BY <1>1 DEF ReachedBy
<1>3. /\ wanted' = {l \in wanted : Owner[l] # x.strat} \union sliced
      /\ paused' = paused /\ inFlight' = inFlight
  BY <1>2 DEF Approved
<1>4. sigQ \in Seq(Asks) /\ inFlight \in [Strategies -> BOOLEAN]
      /\ (\A i \in 1..Len(sigQ) : Heard(sigQ[i].strat))
      /\ \A l \in AllLegs : algo[l] # None => l \in wanted /\ Heard(Owner[l])
  BY DEF SlicesInv, WantInv, LegsInv, LegsTypeOK
<1>5. Heard(x.strat)
  <2>1. 1 \in 1..Len(sigQ) /\ x = sigQ[1]
    BY <1>2, <1>4, LenProperties, EmptySeq
  <2> QED BY <1>4, <2>1
<1>6. \A l \in sliced : Owner[l] = x.strat /\ x.size[l] \in Sizes \union {0}
  <2>1. PICK s \in Strategies : x \in Signals(s)
    BY <1>2 DEF Asks
  <2>2. x.strat = s /\ x.size \in [OwnLegs(s) -> Sizes \union {0}]
    BY <2>1 DEF Signals
  <2>3. \A l \in sliced : l \in OwnLegs(s)
    BY <1>2, <2>2
  <2> QED BY <2>2, <2>3 DEF OwnLegs
<1>7. \A l \in sliced : Plan(l, x.size[l])[1] > 0
  <2> SUFFICES ASSUME NEW l \in sliced PROVE Plan(l, x.size[l])[1] > 0
    OBVIOUS
  <2>1. x.size[l] > Limit(l) /\ l \in AllLegs
    BY <1>2 DEF Sliced
  <2>2. Limit(l) \in Nat
    BY PromptAssumption DEF Limit
  <2>3. x.size[l] \in Sizes
    BY <1>6, <2>1, <2>2
  <2> QED BY <2>1, <2>3, PromptAssumption
<1>8. /\ Book \in Books /\ Book.children = children /\ Book.algo = algo /\ Sent(Book)
  BY DEF Book, SlicesInv, WantInv, LegsInv, LegsTypeOK
<1>9. Sent(w)
  <2>1. PICK b : b = Book
    OBVIOUS
  <2>2. w \in Books /\ SameSlices(b.children, w.children)
        /\ \A l \in AllLegs : w.algo[l] = b.algo[l] \/ w.algo[l] = None
    BY <1>2, <2>1 DEF WithdrawnTo
  <2> QED BY <1>8, <2>1, <2>2, SentStays
<1>10. Sent(c) /\ c \in Books /\ Longer(w.children, c.children, sliced)
       /\ \A m \in AllLegs : c.algo[m] # None => m \in sliced \/ w.algo[m] # None
  BY <1>2, <1>7, <1>9 DEF LegsKept
<1>11. Sent(Book') /\ children' = c.children /\ algo' = c.algo
  <2>1. Book' = c
    BY <1>2, <1>10 DEF Book, Becomes, Books
  <2> QED BY <1>2, <1>10, <2>1 DEF Becomes
<1>12. ASSUME NEW m \in AllLegs, algo'[m] # None PROVE m \in wanted' /\ Heard(Owner[m])
  <2>1. CASE m \in sliced
    BY <1>3, <1>5, <1>6, <2>1
  <2>2. CASE m \notin sliced
    <3>1. w.algo[m] # None
      BY <1>10, <1>11, <1>12, <2>2
    <3>2. m \notin Unwanted(x, sliced) /\ algo[m] # None
      BY <1>2, <1>8, <3>1 DEF WithdrawnTo
    <3>3. Owner[m] # x.strat
      BY <2>2, <3>2 DEF Unwanted
    <3> QED BY <1>3, <1>4, <3>2, <3>3
  <2> QED BY <2>1, <2>2
<1>13. ASSUME NEW i \in 1..Len(sigQ') PROVE Heard(sigQ'[i].strat)
  <2>1. i + 1 \in 1..Len(sigQ) /\ sigQ'[i] = sigQ[i + 1]
    BY <1>2, <1>4, Dequeued
  <2> QED BY <1>4, <2>1
<1>14. WantInv'
  <2>1. \A m \in AllLegs : algo'[m] # None => m \in wanted' /\ Heard(Owner[m])'
    BY <1>3, <1>12 DEF Heard
  <2>2. \A i \in 1..Len(sigQ') : Heard(sigQ[i].strat)'
    BY <1>3, <1>13 DEF Heard
  <2> QED BY <1>3, <1>4, <1>11, <2>1, <2>2 DEF WantInv
<1>15. ASSUME NEW k \in DOMAIN children' \ DOMAIN children
       PROVE  children'[k].leg \in wanted' /\ Heard(Owner[children'[k].leg])
  <2>1. children \in Seq(Slices) /\ c.children \in Seq(Slices) /\ Len(w.children) = Len(children)
    BY <1>2, <1>8, <1>10 DEF WithdrawnTo, Books
  <2>2. k \in 1..Len(c.children) /\ k > Len(w.children)
    <3>1. DOMAIN children = 1..Len(children) /\ DOMAIN c.children = 1..Len(c.children)
          /\ Len(children) \in Nat
      BY <2>1, LenProperties
    <3> QED BY <1>11, <2>1, <3>1
  <2>3. children'[k].leg \in sliced
    BY <1>10, <1>11, <2>2 DEF Longer
  <2>4. \A l \in sliced : l \in wanted' /\ Heard(Owner[l])
    BY <1>3, <1>5, <1>6
  <2> QED BY <2>3, <2>4
<1> QED
  BY <1>14, <1>15
LEMMA DriverWants ==
  ASSUME SlicesInv, LegsInv', NEW l \in AllLegs, NEW fits \in BOOLEAN, DriverWakes(l, fits)
  PROVE  /\ WantInv'
         /\ \A k \in DOMAIN children' \ DOMAIN children :
              children'[k].leg \in wanted' /\ Heard(Owner[children'[k].leg])
<1>1. PICK b, c : b = Book /\ c = Driven(Book, l, fits)
  OBVIOUS
<1>2. /\ Becomes(c) /\ wanted' = wanted /\ sigQ' = sigQ /\ paused' = paused /\ inFlight' = inFlight
      /\ algo[l] # None
  BY <1>1 DEF DriverWakes, registryVars
<1>3. b \in Books /\ now \in Int /\ b.children = children /\ b.algo = algo /\ Sent(b)
  BY <1>1 DEF SlicesInv, WantInv, LegsInv, LegsTypeOK, Book
<1>4. Drove(b, l, c)
  BY <1>1, <1>3, DrivenKeeps
<1>5. c \in Books /\ Longer(b.children, c.children, {l})
      /\ \A m \in AllLegs : c.algo[m] # None => b.algo[m] # None
  <2>1. \A m \in AllLegs : m # l => c.algo[m] = b.algo[m]
    BY <1>4 DEF Drove
  <2>2. c.algo[l] # None => b.algo[l] # None
    BY <1>4 DEF Drove
  <2> QED BY <1>4, <2>1, <2>2 DEF Drove
<1>6. b.children \in Seq(Slices) /\ c.children \in Seq(Slices)
      /\ Len(b.children) \in Nat /\ Len(c.children) \in Nat
      /\ DOMAIN b.children = 1..Len(b.children) /\ DOMAIN c.children = 1..Len(c.children)
  <2>1. b.children \in Seq(Slices) /\ c.children \in Seq(Slices)
    BY <1>3, <1>5 DEF Books
  <2> QED BY <2>1, LenProperties
<1>7. Sent(c)
  <2>1. ASSUME NEW m \in AllLegs, c.algo[m] # None
        PROVE  \E k \in 1..Len(c.children) : c.children[k].leg = m
    <3>1. PICK k \in 1..Len(b.children) : b.children[k].leg = m
      BY <1>3, <1>5, <2>1 DEF Sent
    <3>2. k \in 1..Len(c.children) /\ c.children[k] = b.children[k]
      BY <1>5, <1>6 DEF Longer
    <3> QED BY <3>1, <3>2
  <2> QED BY <2>1 DEF Sent
<1>8. Book' = c /\ children' = c.children /\ algo' = c.algo
  BY <1>2, <1>5 DEF Book, Becomes, Books
<1>9. \A m \in AllLegs : algo[m] # None => m \in wanted /\ Heard(Owner[m])
  BY DEF SlicesInv, WantInv
<1>10. \A m \in AllLegs : algo'[m] # None => m \in wanted' /\ Heard(Owner[m])'
  <2>1. ASSUME NEW m \in AllLegs, algo'[m] # None PROVE m \in wanted' /\ Heard(Owner[m])'
    <3>1. algo[m] # None
      BY <1>3, <1>5, <1>8, <2>1
    <3>2. m \in wanted /\ Heard(Owner[m])
      BY <1>9, <3>1
    <3> QED BY <1>2, <3>2 DEF Heard
  <2> QED BY <2>1
<1>11. WantInv'
  <2>1. inFlight' \in [Strategies -> BOOLEAN]
    BY <1>2 DEF SlicesInv, WantInv
  <2>2. \A i \in 1..Len(sigQ') : Heard(sigQ[i].strat)'
    <3>1. \A i \in 1..Len(sigQ) : Heard(sigQ[i].strat)
      BY DEF SlicesInv, WantInv
    <3> QED BY <1>2, <3>1 DEF Heard
  <2>3. Sent(Book')
    BY <1>7, <1>8
  <2> QED BY <1>10, <2>1, <2>2, <2>3 DEF WantInv
<1>12. ASSUME NEW k \in DOMAIN children' \ DOMAIN children
       PROVE  children'[k].leg \in wanted' /\ Heard(Owner[children'[k].leg])
  <2>1. k \in 1..Len(c.children) /\ k > Len(b.children)
    BY <1>3, <1>6, <1>8
  <2>2. children'[k].leg = l
    BY <1>5, <1>8, <2>1 DEF Longer
  <2> QED BY <1>2, <1>9, <2>2
<1> QED
  BY <1>11, <1>12

(* Every other step adds no child. *)
NoneSent == DOMAIN children' = DOMAIN children

LEMMA SlicesStep ==
  ASSUME SlicesInv, [SlicedNext]_<<registryVars, slicedVars>>
  PROVE  /\ SlicesInv'
         /\ \A k \in DOMAIN children' \ DOMAIN children :
              children'[k].leg \in wanted' /\ Heard(Owner[children'[k].leg])
<1>0. LegsInv /\ LegsInv'
  BY LegsStep DEF SlicesInv
<1> DEFINE New == \A k \in DOMAIN children' \ DOMAIN children :
                    children'[k].leg \in wanted' /\ Heard(Owner[children'[k].leg])
<1> SUFFICES WantInv' /\ New
  BY <1>0 DEF SlicesInv
<1>n. NoneSent => New
  BY DEF NoneSent
<1> HIDE DEF New
<1>u. ASSUME children' = children, algo' = algo PROVE Settles /\ NoneSent
  BY <1>u, SameItself DEF Settles, NoneSent
<1>s. ASSUME Settles PROVE NoneSent
  BY <1>s DEF Settles, SameSlices, NoneSent
<1>1. CASE OnOpenOrders \/ OnMarketData \/ Tick \/ UNCHANGED <<registryVars, slicedVars>>
  <2>1. children' = children /\ algo' = algo /\ UNCHANGED <<wanted, sigQ, inFlight, paused>>
    BY <1>1 DEF OnOpenOrders, OnMarketData, Tick, registryVars, slicedVars
  <2> QED BY <1>0, <1>n, <1>u, <2>1, WantUnmoved
<1>2. CASE Blocked
  <2>1. /\ children' = children /\ algo' = algo /\ UNCHANGED <<wanted, inFlight, paused>>
        /\ sigQ # << >> /\ sigQ' = Tail(sigQ)
    BY <1>2 DEF Blocked, slicedVars
  <2>2. \A i \in 1..Len(sigQ') : Heard(sigQ[i].strat)'
    <3>1. sigQ \in Seq(Asks) /\ \A i \in 1..Len(sigQ) : Heard(sigQ[i].strat)
      BY DEF SlicesInv, WantInv, LegsInv, LegsTypeOK
    <3>2. \A i \in 1..Len(sigQ') : i + 1 \in 1..Len(sigQ) /\ sigQ'[i] = sigQ[i + 1]
      BY <2>1, <3>1, Dequeued, LenProperties
    <3> QED BY <2>1, <3>1, <3>2 DEF Heard
  <2>3. \A l \in AllLegs : Heard(Owner[l]) => Heard(Owner[l])'
    BY <2>1 DEF Heard
  <2>4. inFlight' \in [Strategies -> BOOLEAN]
    BY <2>1 DEF SlicesInv, WantInv
  <2>5. WantInv'
    BY <1>0, <1>u, <2>1, <2>2, <2>3, <2>4, WantSettles DEF Settles
  <2> QED BY <1>n, <1>u, <2>1, <2>5
<1>3. CASE OnAlert
  <2>1. PICK ls : ls = AllLegs
    OBVIOUS
  <2>2. /\ Settles /\ (\A l \in AllLegs : algo'[l] = None)
        /\ UNCHANGED <<sigQ, inFlight, paused>>
    BY <1>0, <1>3, <2>1, WithdrawalSettles DEF OnAlert, registryVars
  <2>3. \A i \in 1..Len(sigQ') : Heard(sigQ[i].strat)'
    <3>1. \A i \in 1..Len(sigQ) : Heard(sigQ[i].strat)
      BY DEF SlicesInv, WantInv
    <3> QED BY <2>2, <3>1 DEF Heard
  <2>4. inFlight' \in [Strategies -> BOOLEAN]
    BY <2>2 DEF SlicesInv, WantInv
  <2>5. WantInv'
    BY <1>0, <2>2, <2>3, <2>4, WantSettles DEF Settles
  <2> QED BY <1>n, <1>s, <2>2, <2>5
<1>4. ASSUME NEW fits \in BOOLEAN, Approved(fits) PROVE WantInv' /\ New
  BY <1>0, <1>4, ApprovedWants DEF New
<1>5. ASSUME NEW fits \in BOOLEAN, NEW l \in AllLegs, DriverWakes(l, fits) PROVE WantInv' /\ New
  BY <1>0, <1>5, DriverWants DEF New
<1>6. ASSUME NEW s \in Strategies, PauseStrategy(s) PROVE WantInv' /\ New
  <2>1. WantInv'
    BY <1>0, <1>6, PauseWants
  <2>2. PICK ls : ls = LegsSent(s)
    OBVIOUS
  <2>3. Settles
    BY <1>0, <1>6, <2>2, WithdrawalSettles DEF PauseStrategy
  <2> QED BY <1>n, <1>s, <2>1, <2>3
<1>7. ASSUME NEW s \in Strategies, Resume(s), UNCHANGED slicedVars PROVE WantInv' /\ New
  <2>1. /\ paused' = paused \ {s} /\ UNCHANGED <<sigQ, inFlight, wanted, children, algo>>
    BY <1>7 DEF Resume, slicedVars
  <2>2. \A t : Heard(t) => Heard(t)'
    BY <2>1 DEF Heard
  <2>3. \A i \in 1..Len(sigQ') : Heard(sigQ[i].strat)'
    <3>1. \A i \in 1..Len(sigQ) : Heard(sigQ[i].strat)
      BY DEF SlicesInv, WantInv
    <3> QED BY <2>1, <3>1 DEF Heard
  <2>4. \A l \in AllLegs : Heard(Owner[l]) => Heard(Owner[l])'
    BY <2>1 DEF Heard
  <2>5. inFlight' \in [Strategies -> BOOLEAN]
    BY <2>1 DEF SlicesInv, WantInv
  <2>6. WantInv'
    BY <1>0, <1>u, <2>1, <2>3, <2>4, <2>5, WantSettles DEF Settles
  <2> QED BY <1>n, <1>u, <2>1, <2>6
<1>8. ASSUME NEW k \in DOMAIN children,
             Reported(k)
      PROVE  WantInv' /\ New
  <2>1. Settles
    BY <1>0, <1>8, AnswersKeep
  <2>2. UNCHANGED <<wanted, sigQ, inFlight, paused>>
    BY <1>8 DEF Reported, OnAck, OnCancelRejected, OnEnd, OnFill, Refresh, Terminalize, Answer,
              registryVars
  <2> QED BY <1>0, <1>n, <1>s, <2>1, <2>2, WantUnmoved
<1>9. ASSUME NEW to \in {Registered} \union {<<s>> : s \in Strategies}, NEW reply,
             \A s \in ToSet(to) : reply[s] \in Signals(s) \union {None},
             Dispatch(to, reply), UNCHANGED slicedVars
      PROVE  WantInv' /\ New
  <2>1. children' = children /\ algo' = algo
    BY <1>9 DEF slicedVars
  <2> QED BY <1>0, <1>9, <1>n, <1>u, <2>1, DispatchWants
<1> QED
  BY <1>1, <1>2, <1>3, <1>4, <1>5, <1>6, <1>7, <1>8, <1>9 DEF SlicedNext, Reported

(* A slice is sent only for a leg the last approved signal of its strategy wanted
   sliced, none after the kill switch or a pause withdrew it, and none for a paused
   strategy unless a signal of it was on its way when the pause came: neither the
   driver nor the reconciliation revives what was withdrawn (_drive_algo,
   _reconcile_sliced, cancel_strategy_orders, _cancel_all_resting). *)
THEOREM SlicesAreWanted == SlicedSpec => NoSliceUnwanted
<1>1. SlicedSpec => []SlicesInv
  <2>1. SlicesInv /\ [SlicedNext]_<<registryVars, slicedVars>> => SlicesInv'
    BY SlicesStep
  <2> QED BY WantBegins, <2>1, PTL DEF SlicedSpec
<1>2. SlicesInv /\ [SlicedNext]_<<registryVars, slicedVars>>
        => [\A k \in DOMAIN children' \ DOMAIN children :
              LET l == children'[k].leg
              IN  l \in wanted' /\ (Owner[l] \notin paused \/ inFlight[Owner[l]])]_slicedVars
  BY SlicesStep DEF Heard
<1> QED
  BY <1>1, <1>2, PTL DEF SlicedSpec, NoSliceUnwanted
=============================================================================
