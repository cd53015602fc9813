---------------------------- MODULE Venue_proofs ----------------------------
(***************************************************************************)
(* A request that is given up as out of time was so because the clock was  *)
(* stepped again, for any number of requests, any skew and any weights.    *)
(* The invariant follows a request through its look at the venue's clock:  *)
(* while nothing has been stepped since, what it reads is the skew, and so *)
(* is what it is then signed with, whatever other looks do to the offset.  *)
(***************************************************************************)
EXTENDS RestClient, DepthBook, Sums_proofs, TLAPS

Places ==
  {"new", "waiting", "sent", "resync", "stale", "done", "limited", "refused", "transport"}

RestTypeOK ==
  /\ offset \in Int /\ skew \in Int
  /\ req \in [Requests -> [at : Places, signed : Int, again : BOOLEAN]]
  /\ clockSync \in [by : Requests \union {None, "loop"}, before : Int]
  /\ turns \in Seq(Requests)
  /\ stepped \subseteq Requests

(* The requests in acquire wait, each in one place. *)
InLine ==
  /\ \A k \in 1..Len(turns) : req[turns[k]].at = "waiting"
  /\ \A j, k \in 1..Len(turns) : turns[j] = turns[k] => j = k

(* Looking, signed again, or given up. *)
Looks(r) ==
  /\ clockSync.by = r => req[r].at = "resync" /\ (r \notin stepped => clockSync.before = skew)
  /\ req[r].at \in {"new", "waiting", "resync"} => ~req[r].again
  /\ req[r].again /\ r \notin stepped => req[r].signed = skew
  /\ req[r].at = "stale" => r \in stepped

RestInv == RestTypeOK /\ InLine /\ \A r \in Requests : Looks(r)

(* Nothing has been asked. *)
LEMMA RestInitInv == RestInit => RestInv
BY RequestAssumption DEF RestInit, RestInv, RestTypeOK, InLine, Looks, Places

(* A request goes from one place to another, never back in line, and is not the
   one that looks at the clock. *)
LEMMA MoveKeeps ==
  ASSUME RestInv, NEW r \in Requests, NEW where \in Places \ {"new", "waiting"},
         req' = [req EXCEPT ![r].at = where],
         req[r].at # "waiting",
         where = "resync" => ~req[r].again,
         where = "stale" => r \in stepped,
         clockSync' = [by |-> None, before |-> 0] \/ (clockSync' = clockSync /\ clockSync.by # r),
         UNCHANGED <<offset, skew, turns, stepped>>
  PROVE  RestInv'
<1>1. RestTypeOK'
  <2>1. RestTypeOK /\ where \in Places
    BY DEF RestInv
  <2>2. req' \in [Requests -> [at : Places, signed : Int, again : BOOLEAN]]
    BY <2>1 DEF RestTypeOK
  <2>3. clockSync' \in [by : Requests \union {None, "loop"}, before : Int]
    BY <2>1 DEF RestTypeOK
  <2> QED BY <2>1, <2>2, <2>3 DEF RestTypeOK
<1>2. InLine'
  <2>1. \A k \in 1..Len(turns) : turns[k] # r /\ turns[k] \in Requests
    BY DEF RestInv, InLine, RestTypeOK
  <2> QED BY <2>1 DEF RestInv, InLine, RestTypeOK
<1>3. ASSUME NEW s \in Requests PROVE Looks(s)'
  <2>1. Looks(s) /\ req[s] \in [at : Places, signed : Int, again : BOOLEAN]
    BY DEF RestInv, RestTypeOK
  <2>2. clockSync'.by = s => clockSync' = clockSync /\ s # r
    BY RequestAssumption
  <2>3. CASE s = r
    BY <2>1, <2>2, <2>3 DEF Looks, RestInv, RestTypeOK
  <2>4. CASE s # r
    BY <2>1, <2>2, <2>4 DEF Looks, RestInv, RestTypeOK
  <2> QED BY <2>3, <2>4
<1> QED BY <1>1, <1>2, <1>3 DEF RestInv

(* The holder of the lock takes its tokens and is signed for the first time. *)
LEMMA AcquireKeeps == RestInv /\ Acquire => RestInv'
<1> SUFFICES ASSUME RestInv, Acquire PROVE RestInv'
  OBVIOUS
<1> DEFINE r == Head(turns)
<1>1. RestTypeOK /\ InLine /\ turns # << >> /\ UNCHANGED <<clockSync, offset, skew, stepped>>
  BY DEF RestInv, Acquire
<1>2. r \in Requests /\ r = turns[1] /\ req[r].at = "waiting" /\ Len(turns) \in Nat \ {0}
  BY <1>1 DEF RestTypeOK, InLine
<1>3. CASE UNCHANGED <<turns, req>>
  BY <1>1, <1>3 DEF RestInv, RestTypeOK, InLine, Looks
<1>4. CASE turns' = Tail(turns) /\ req' = [req EXCEPT ![r].at = "sent", ![r].signed = offset]
  <2>1. RestTypeOK'
    <3>1. turns' \in Seq(Requests)
      BY <1>1, <1>4 DEF RestTypeOK
    <3>2. req' \in [Requests -> [at : Places, signed : Int, again : BOOLEAN]]
      BY <1>1, <1>2, <1>4, ZenonT(40) DEF RestTypeOK, Places
    <3> QED BY <1>1, <3>1, <3>2 DEF RestTypeOK
  <2>2. /\ Len(turns') = Len(turns) - 1 /\ Len(turns') \in Nat
        /\ \A k \in 1..Len(turns') : turns'[k] = turns[k + 1] /\ k + 1 \in 1..Len(turns)
    BY <1>1, <1>2, <1>4 DEF RestTypeOK
  <2>3. \A k \in 1..Len(turns') : turns'[k] # r /\ req[turns'[k]].at = "waiting"
    <3> TAKE k \in 1..Len(turns')
    <3>1. 1 \in 1..Len(turns) /\ k + 1 \in 1..Len(turns) /\ k + 1 # 1
      BY <1>2, <2>2
    <3> QED BY <3>1, <2>2, <1>1, <1>2 DEF InLine
  <2>4. \A k \in 1..Len(turns') : turns'[k] \in Requests
    <3>1. \A k \in 1..Len(turns) : turns[k] \in Requests
      BY <1>1 DEF RestTypeOK
    <3> QED BY <2>2, <3>1
  <2>5. \A j, k \in 1..Len(turns') : turns'[j] = turns'[k] => j = k
    <3> SUFFICES ASSUME NEW j \in 1..Len(turns'), NEW k \in 1..Len(turns'), turns'[j] = turns'[k]
                 PROVE  j = k
      OBVIOUS
    <3>1. j + 1 \in 1..Len(turns) /\ k + 1 \in 1..Len(turns) /\ turns[j + 1] = turns[k + 1]
      BY <2>2
    <3>2. j + 1 = k + 1
      BY <3>1, <1>1 DEF InLine
    <3> QED BY <3>2
  <2>6. InLine'
    BY <2>3, <2>4, <2>5, <1>1, <1>4 DEF InLine, RestTypeOK
  <2>7. ASSUME NEW s \in Requests PROVE Looks(s)'
    <3>1. Looks(s) BY DEF RestInv
    <3>2. CASE s = r
      BY <3>1, <3>2, <1>1, <1>2, <1>4 DEF Looks, RestTypeOK
    <3>3. CASE s # r
      BY <3>1, <3>3, <1>1, <1>4 DEF Looks, RestTypeOK
    <3> QED BY <3>2, <3>3
  <2> QED BY <2>1, <2>6, <2>7 DEF RestInv
<1> QED BY <1>3, <1>4 DEF Acquire, Signed

(* A look ends: the request that made it is signed with what it has read, or lost. *)
LEMMA SyncEndsKeeps == RestInv /\ SyncEnds => RestInv'
<1> SUFFICES ASSUME RestInv, SyncEnds PROVE RestInv'
  OBVIOUS
<1> DEFINE r == clockSync.by
<1>1. /\ RestTypeOK /\ InLine /\ r # None
      /\ clockSync' = [by |-> None, before |-> 0] /\ UNCHANGED <<turns, skew, stepped>>
  BY DEF RestInv, SyncEnds
<1>2. r \in Requests \/ r = "loop"
  BY <1>1 DEF RestTypeOK
<1>3. Measured \in Int /\ offset' \in Int
  BY <1>1 DEF SyncEnds, Measured, RestTypeOK
<1>4. CASE req' = req
  BY <1>1, <1>3, <1>4, RequestAssumption DEF RestInv, RestTypeOK, InLine, Looks
<1>5. CASE r \in Requests /\ offset' = Measured /\ req' = Resigned(r)
  <2>1. Looks(r) /\ req[r].at = "resync"
    BY <1>5 DEF RestInv, Looks
  <2>2. r \notin stepped => offset' = skew
    <3> SUFFICES ASSUME r \notin stepped PROVE Measured = skew
      BY <1>5
    <3>1. clockSync.before = skew /\ skew \in Int
      BY <2>1, <1>1 DEF Looks, RestTypeOK
    <3>2. (-(skew + skew)) \div 2 = -skew
      BY <3>1
    <3> QED BY <3>1, <3>2 DEF Measured
  <2>3. RestTypeOK'
    BY <1>1, <1>3, <1>5 DEF RestTypeOK, Resigned, Places
  <2>4. InLine'
    <3>1. \A k \in 1..Len(turns) : turns[k] # r /\ turns[k] \in Requests
      BY <2>1, <1>1 DEF InLine, RestTypeOK
    <3> QED BY <3>1, <1>1, <1>5 DEF InLine, RestTypeOK, Resigned
  <2>5. ASSUME NEW s \in Requests PROVE Looks(s)'
    <3>1. Looks(s) BY DEF RestInv
    <3>2. clockSync'.by # s BY <1>1, RequestAssumption
    <3>3. CASE s = r
      <4>1. req'[s].at = "sent" /\ req'[s].signed = offset'
        BY <3>3, <1>1, <1>5 DEF Resigned, RestTypeOK
      <4> QED BY <3>2, <3>3, <4>1, <2>2, <1>1 DEF Looks
    <3>4. CASE s # r
      <4>1. req'[s] = req[s]
        BY <3>4, <1>1, <1>5 DEF Resigned, RestTypeOK
      <4> QED BY <3>1, <3>2, <4>1, <1>1 DEF Looks
    <3> QED BY <3>3, <3>4
  <2> QED BY <2>3, <2>4, <2>5 DEF RestInv
<1>6. CASE r \in Requests /\ UNCHANGED offset /\ Reaches(r, "transport")
  <2>1. Looks(r) /\ req[r].at = "resync"
    BY <1>6 DEF RestInv, Looks
  <2>2. /\ "transport" \in Places \ {"new", "waiting"} /\ "transport" \notin {"resync", "stale"}
        /\ req' = [req EXCEPT ![r].at = "transport"] /\ req[r].at # "waiting"
    BY <2>1, <1>6 DEF Reaches, Places
  <2> HIDE DEF r
  <2> QED BY <2>2, <1>1, <1>6, MoveKeeps
<1> QED BY <1>1, <1>2, <1>4, <1>5, <1>6 DEF SyncEnds

(* Every step of the client keeps the invariant. *)
LEMMA RestStep == RestInv /\ [RestNext]_restVars => RestInv'
<1> SUFFICES ASSUME RestInv, [RestNext]_restVars PROVE RestInv'
  OBVIOUS
<1> USE RequestAssumption
<1>1. RestTypeOK /\ InLine /\ \A r \in Requests : Looks(r)
  BY DEF RestInv
<1>2. CASE OpenClient
  BY <1>1, <1>2 DEF OpenClient, RestInv, RestTypeOK, InLine, Looks
<1>3. CASE Acquire
  BY <1>3, AcquireKeeps
<1>4. CASE LoopSyncBegins
  BY <1>1, <1>4 DEF LoopSyncBegins, TakeLock, RestInv, RestTypeOK, InLine, Looks
<1>5. CASE SyncEnds
  BY <1>5, SyncEndsKeeps
<1>6. CASE TickPasses
  BY <1>1, <1>6 DEF TickPasses, RestInv, RestTypeOK, InLine, Looks
<1>7. CASE ClockSteps
  BY <1>1, <1>7 DEF ClockSteps, RestInv, RestTypeOK, InLine, Looks
<1>8. ASSUME NEW r \in Requests, Request(r) PROVE RestInv'
  <2>1. /\ req[r].at = "new" /\ req' = [req EXCEPT ![r].at = "waiting"]
        /\ turns' = Append(turns, r) /\ UNCHANGED <<clockSync, offset, skew, stepped>>
    BY <1>8 DEF Request, Reaches
  <2>2. RestTypeOK'
    <3>1. turns' \in Seq(Requests)
      BY <1>1, <2>1, AppendProperties DEF RestTypeOK
    <3>2. req' \in [Requests -> [at : Places, signed : Int, again : BOOLEAN]]
      <4>1. req \in [Requests -> [at : Places, signed : Int, again : BOOLEAN]] /\ "waiting" \in Places
        BY <1>1 DEF RestTypeOK, Places
      <4>2. [req[r] EXCEPT !.at = "waiting"] \in [at : Places, signed : Int, again : BOOLEAN]
        BY <4>1
      <4>3. req' = [req EXCEPT ![r] = [req[r] EXCEPT !.at = "waiting"]]
        BY <2>1, <4>1
      <4> QED BY <4>1, <4>2, <4>3
    <3> QED BY <1>1, <2>1, <3>1, <3>2 DEF RestTypeOK
  <2>3. InLine'
    <3>1. /\ Len(turns) \in Nat /\ Len(turns') = Len(turns) + 1 /\ turns'[Len(turns) + 1] = r
          /\ \A k \in 1..Len(turns) : turns'[k] = turns[k] /\ turns[k] \in Requests
      BY <1>1, <2>1 DEF RestTypeOK
    <3>2. \A k \in 1..Len(turns) : turns[k] # r
      BY <1>1, <2>1 DEF InLine
    <3>3. \A k \in 1..Len(turns') : k \in 1..Len(turns) \/ k = Len(turns) + 1
      BY <3>1
    <3>4. req'[r].at = "waiting" /\ \A k \in 1..Len(turns) : req'[turns[k]] = req[turns[k]]
      BY <1>1, <2>1, <3>1, <3>2 DEF RestTypeOK
    <3>5. \A k \in 1..Len(turns') : req'[turns'[k]].at = "waiting"
      BY <1>1, <3>1, <3>3, <3>4 DEF InLine
    <3>6. \A j, k \in 1..Len(turns') : turns'[j] = turns'[k] => j = k
      BY <1>1, <3>1, <3>2, <3>3 DEF InLine
    <3> QED BY <3>5, <3>6 DEF InLine
  <2>4. ASSUME NEW s \in Requests PROVE Looks(s)'
    BY <1>1, <2>1 DEF Looks, RestTypeOK
  <2> QED BY <2>2, <2>3, <2>4 DEF RestInv
<1>9. ASSUME NEW r \in Requests, Answered(r) PROVE RestInv'
  <2>1. /\ req[r].at = "sent" /\ Looks(r) /\ clockSync.by # r
        /\ UNCHANGED <<offset, skew, turns, stepped, clockSync>>
    BY <1>1, <1>9 DEF Answered, Looks
  <2>2. PICK where \in Places \ {"new", "waiting"} :
          /\ req' = [req EXCEPT ![r].at = where]
          /\ where = "resync" => ~req[r].again
          /\ where = "stale" => req[r].again /\ req[r].signed # skew
    BY <1>9 DEF Answered, Reaches, Places, Translated
  <2>3. where = "stale" => r \in stepped
    BY <2>1, <2>2 DEF Looks
  <2> QED BY <2>1, <2>2, <2>3, MoveKeeps
<1>10. ASSUME NEW r \in Requests, SyncBegins(r) PROVE RestInv'
  <2>1. /\ req[r].at = "resync" /\ stepped' = stepped \ {r}
        /\ clockSync' = [by |-> r, before |-> skew] /\ UNCHANGED <<turns, req, offset, skew>>
    BY <1>10 DEF SyncBegins, TakeLock
  <2> QED BY <1>1, <2>1 DEF RestInv, RestTypeOK, InLine, Looks
<1>11. CASE UNCHANGED restVars
  BY <1>1, <1>11 DEF restVars, RestInv, RestTypeOK, InLine, Looks
<1> QED
  BY <1>2, <1>3, <1>4, <1>5, <1>6, <1>7, <1>8, <1>9, <1>10, <1>11 DEF RestNext

(* The retry of request() heals a stale clock: its own look under the lock is what
   it is signed with, and only another step of the clock can spoil that. *)
THEOREM RestHeals == RestSpec => []StaleClockHeals
<1>1. RestInv => StaleClockHeals
  BY DEF RestInv, Looks, StaleClockHeals
<1> QED BY <1>1, RestInitInv, RestStep, PTL DEF RestSpec

----------------------------------------------------------------------------
(* The budget: what was granted since a grant, with what is left in the bucket, is a full
   bucket and what it has regained since. *)
BudgetInv ==
  /\ tick \in Int /\ bucket \in [tokens : Int, at : Int] /\ bucket.tokens <= Capacity
  /\ grants \in Seq([at : Int, weight : Nat])
  /\ \A i \in DOMAIN grants :
       Granted(i, Len(grants)) + bucket.tokens <= Capacity + (bucket.at - grants[i].at) * Refill
  /\ WithinBudget

LEMMA BudgetInitInv == RestInit => BudgetInv
<1> SUFFICES ASSUME RestInit PROVE BudgetInv
  OBVIOUS
<1>1. tick = 0 /\ bucket = [tokens |-> Capacity, at |-> 0] /\ grants = << >>
  BY DEF RestInit
<1> QED
  BY <1>1, BudgetAssumption DEF BudgetInv, WithinBudget

(* A refill adds at most what is regained, and never overfills. *)
LEMMA RefilledIs ==
  ASSUME tick \in Int, bucket \in [tokens : Int, at : Int], bucket.tokens <= Capacity
  PROVE  /\ Refilled \in [tokens : Int, at : Int] /\ Refilled.at = tick
         /\ Refilled.tokens <= Capacity
         /\ Refilled.tokens <= bucket.tokens + (tick - bucket.at) * Refill
<1> DEFINE n == bucket.tokens + (tick - bucket.at) * Refill
<1>1. n \in Int /\ Capacity \in Int
  BY BudgetAssumption
<1> HIDE DEF n
<1>2. \E m \in {Capacity, n} : \A y \in {Capacity, n} : m <= y
  BY <1>1
<1>3. Min({Capacity, n}) \in {Capacity, n} /\ Min({Capacity, n}) <= Capacity
      /\ Min({Capacity, n}) <= n
  BY <1>2 DEF Min
<1>4. Refilled = [tokens |-> Min({Capacity, n}), at |-> tick]
  BY DEF Refilled, n
<1> QED
  BY <1>1, <1>3, <1>4 DEF n

LEMMA WeightsTyped ==
  ASSUME NEW g \in Seq([at : Int, weight : Nat])
  PROVE  /\ [k \in DOMAIN g |-> g[k].weight] \in Seq(Int)
         /\ Len([k \in DOMAIN g |-> g[k].weight]) = Len(g)
         /\ Len(g) \in Nat /\ DOMAIN g = 1..Len(g)
         /\ \A k \in 1..Len(g) : g[k].at \in Int
<1> DEFINE w == [k \in DOMAIN g |-> g[k].weight]
<1>1. Len(g) \in Nat /\ DOMAIN g = 1..Len(g) /\ \A k \in 1..Len(g) : g[k] \in [at : Int, weight : Nat]
  BY LenProperties, ElementOfSeq, Zenon
<1>2. w \in [1..Len(g) -> Int]
  BY <1>1
<1>3. \A k \in 1..Len(g) : g[k].at \in Int
  BY <1>1
<1> HIDE DEF w
<1>4. w \in Seq(Int)
  BY <1>1, <1>2, SeqDef
<1>5. Len(w) = Len(g)
  <2>1. DOMAIN w = 1..Len(g) /\ DOMAIN w = 1..Len(w) /\ Len(w) \in Nat
    BY <1>2, <1>4, LenProperties
  <2> QED
    BY <1>1, <2>1
<1> QED
  BY <1>1, <1>3, <1>4, <1>5 DEF w

(* Tokens move only with the bucket. *)
LEMMA BucketMoves ==
  ASSUME BudgetInv, UNCHANGED grants, tick' \in Int, bucket' \in [tokens : Int, at : Int],
         bucket'.tokens <= Capacity,
         bucket'.tokens <= bucket.tokens + (bucket'.at - bucket.at) * Refill
  PROVE  BudgetInv'
<1> SUFFICES ASSUME NEW i \in DOMAIN grants
             PROVE  Granted(i, Len(grants)) + bucket'.tokens
                      <= Capacity + (bucket'.at - grants[i].at) * Refill
  BY DEF BudgetInv, WithinBudget, Granted, Weights
<1>1. Granted(i, Len(grants)) + bucket.tokens <= Capacity + (bucket.at - grants[i].at) * Refill
  BY DEF BudgetInv
<1>2. /\ bucket.tokens \in Int /\ bucket.at \in Int /\ bucket'.tokens \in Int /\ bucket'.at \in Int
      /\ grants[i].at \in Int /\ Refill \in Int /\ Capacity \in Int
      /\ Granted(i, Len(grants)) \in Int
  <2>1. grants[i].at \in Int /\ i \in 1..Len(grants) /\ Len(grants) \in Nat
    BY WeightsTyped DEF BudgetInv
  <2>2. Granted(i, Len(grants)) \in Int
    <3>1. Weights \in Seq(Int) /\ Len(Weights) = Len(grants)
      BY WeightsTyped DEF BudgetInv, Weights
    <3>2. IsSums(Sums(Weights), Weights)
      BY <3>1, SumsAre
    <3>3. Len(grants) \in 0..Len(grants) /\ i - 1 \in 0..Len(grants)
      BY <2>1
    <3> QED
      <4>1. PICK p : p = Sums(Weights)
        OBVIOUS
      <4>2. p \in [0..Len(grants) -> Int]
        BY <3>1, <3>2, <4>1 DEF IsSums
      <4>3. p[Len(grants)] \in Int /\ p[i - 1] \in Int
        BY <3>3, <4>2
      <4> QED
        BY <4>1, <4>3 DEF Granted
  <2> QED
    BY <2>1, <2>2, BudgetAssumption DEF BudgetInv
<1>3. (bucket'.at - grants[i].at) * Refill
        = (bucket'.at - bucket.at) * Refill + (bucket.at - grants[i].at) * Refill
  BY <1>2
<1>4. (bucket'.at - bucket.at) * Refill \in Int /\ (bucket.at - grants[i].at) * Refill \in Int
  BY <1>2, SMTT(30)
<1> DEFINE x == (bucket'.at - bucket.at) * Refill
           y == (bucket.at - grants[i].at) * Refill
           z == (bucket'.at - grants[i].at) * Refill
<1>5. /\ z = x + y /\ x \in Int /\ y \in Int /\ bucket'.tokens <= bucket.tokens + x
      /\ Granted(i, Len(grants)) + bucket.tokens <= Capacity + y
  BY <1>1, <1>3, <1>4
<1> HIDE DEF x, y, z
<1>6. Granted(i, Len(grants)) + bucket'.tokens <= Capacity + z
  BY <1>2, <1>5, SMTT(30)
<1> QED
  BY <1>6 DEF z

LEMMA Spending ==
  ASSUME NEW g \in Int, NEW had \in Int, NEW full \in Int, NEW c \in Int, NEW left \in Int,
         NEW X \in Int, NEW Y \in Int, NEW w \in Int,
         full <= had + X, g + had <= c + Y, left = full - w, full >= w
  PROVE  g + w <= c + (X + Y) /\ g + w + left <= c + (X + Y)
OBVIOUS

(* A grant takes its tokens from a bucket just refilled. *)
LEMMA GrantKeeps ==
  ASSUME BudgetInv, UNCHANGED tick, NEW w \in Nat, Refilled.tokens >= w,
         bucket' = [Refilled EXCEPT !.tokens = Refilled.tokens - w],
         grants' = Append(grants, [at |-> tick, weight |-> w])
  PROVE  BudgetInv'
<1> DEFINE n == Len(grants)
           W == [k \in DOMAIN grants' |-> grants'[k].weight]
<1>1. /\ tick \in Int /\ bucket \in [tokens : Int, at : Int] /\ bucket.tokens <= Capacity
      /\ grants \in Seq([at : Int, weight : Nat]) /\ n \in Nat /\ DOMAIN grants = 1..n
      /\ \A k \in 1..n : grants[k].at \in Int
      /\ Refill \in Int /\ Capacity \in Int
  <2>1. grants \in Seq([at : Int, weight : Nat])
    BY DEF BudgetInv
  <2>2. Len(grants) \in Nat /\ DOMAIN grants = 1..Len(grants)
        /\ \A k \in 1..Len(grants) : grants[k].at \in Int
    BY <2>1, WeightsTyped
  <2> QED
    BY <2>1, <2>2, BudgetAssumption DEF BudgetInv
<1>2. /\ Refilled \in [tokens : Int, at : Int] /\ Refilled.at = tick
      /\ Refilled.tokens <= Capacity
      /\ Refilled.tokens <= bucket.tokens + (tick - bucket.at) * Refill
  BY <1>1, RefilledIs
<1>3. /\ bucket' \in [tokens : Int, at : Int] /\ bucket'.at = tick
      /\ bucket'.tokens = Refilled.tokens - w /\ bucket'.tokens <= Capacity
  <2>1. PICK full \in [tokens : Int, at : Int] : full = Refilled
    BY <1>2
  <2>2. bucket' = [full EXCEPT !.tokens = full.tokens - w]
    BY <2>1
  <2>3. /\ bucket' \in [tokens : Int, at : Int] /\ bucket'.at = full.at
        /\ bucket'.tokens = full.tokens - w
    <3>1. PICK x \in Int : x = full.tokens - w
      OBVIOUS
    <3>2. bucket' = [full EXCEPT !.tokens = x]
      BY <2>2, <3>1
    <3>3. /\ bucket' \in [tokens : Int, at : Int] /\ bucket'.at = full.at
          /\ bucket'.tokens = x
      BY <3>2
    <3> QED
      BY <3>1, <3>3
  <2> QED
    BY <1>1, <1>2, <2>1, <2>3
<1>4. /\ grants' \in Seq([at : Int, weight : Nat]) /\ Len(grants') = n + 1
      /\ grants'[n + 1] = [at |-> tick, weight |-> w] /\ DOMAIN grants' = 1..(n + 1)
      /\ \A k \in 1..n : grants'[k] = grants[k]
  <2>1. [at |-> tick, weight |-> w] \in [at : Int, weight : Nat]
    BY <1>1
  <2> QED
    BY <1>1, <2>1, AppendProperties
<1>5. /\ Weights \in Seq(Int) /\ Len(Weights) = n /\ W = Append(Weights, w)
  <2>1. Weights \in Seq(Int) /\ Len(Weights) = n /\ DOMAIN Weights = 1..n
    BY <1>1, WeightsTyped DEF Weights
  <2>2. \A k \in 1..n : Weights[k] = grants[k].weight
    BY <1>1 DEF Weights
  <2>3. W \in Seq(Int) /\ Len(W) = n + 1
    BY <1>4, WeightsTyped
  <2>4. \A k \in 1..(n + 1) : W[k] = IF k = n + 1 THEN w ELSE Weights[k]
    <3> TAKE k \in 1..(n + 1)
    <3>1. k # n + 1 => k \in 1..n
      BY <1>1
    <3> QED
      BY <1>4, <2>2, <3>1
  <2> HIDE DEF W
  <2>5. Append(Weights, w) \in Seq(Int) /\ Len(Append(Weights, w)) = n + 1
        /\ \A k \in 1..(n + 1) : Append(Weights, w)[k] = IF k = n + 1 THEN w ELSE Weights[k]
    BY <1>1, <2>1
  <2> QED
    BY <2>1, <2>3, <2>4, <2>5, SeqEqual
<1> HIDE DEF n, W
<1>6. /\ \A k \in 0..n : Sums(W)[k] = Sums(Weights)[k] /\ Sums(Weights)[k] \in Int
      /\ Sums(W)[n + 1] = Sums(Weights)[n] + w
  BY <1>5, SumsAppend
<1>7. ASSUME NEW i \in 1..n, NEW j \in i..n
      PROVE  Sums(W)[j] - Sums(W)[i - 1] <= Capacity + (grants[j].at - grants[i].at) * Refill
  <2>1. i - 1 \in 0..n /\ j \in 0..n /\ j \in 1..n
    BY <1>1, SMTT(30)
  <2>2. Granted(i, j) <= Capacity + (grants[j].at - grants[i].at) * Refill
    BY <1>1, <1>7 DEF BudgetInv, WithinBudget, n
  <2> QED
    BY <1>6, <2>1, <2>2 DEF Granted
<1>8. ASSUME NEW i \in 1..n
      PROVE  /\ Sums(W)[n + 1] - Sums(W)[i - 1] <= Capacity + (tick - grants[i].at) * Refill
             /\ Sums(W)[n + 1] - Sums(W)[i - 1] + bucket'.tokens
                  <= Capacity + (tick - grants[i].at) * Refill
  <2>1. i - 1 \in 0..n /\ n \in 0..n /\ i \in DOMAIN grants
    BY <1>1
  <2>2. Granted(i, n) + bucket.tokens <= Capacity + (bucket.at - grants[i].at) * Refill
    BY <2>1 DEF BudgetInv, n
  <2>3. Sums(W)[n + 1] - Sums(W)[i - 1] = Granted(i, n) + w /\ Granted(i, n) \in Int
    BY <1>6, <2>1 DEF Granted
  <2>4. (tick - grants[i].at) * Refill
          = (tick - bucket.at) * Refill + (bucket.at - grants[i].at) * Refill
    BY <1>1, SMTT(30)
  <2>5. /\ (tick - bucket.at) * Refill \in Int /\ (bucket.at - grants[i].at) * Refill \in Int
        /\ bucket.tokens \in Int /\ Refilled.tokens \in Int
    <3>1. bucket.at \in Int /\ bucket.tokens \in Int /\ Refilled.tokens \in Int
          /\ grants[i].at \in Int
      BY <1>1, <1>2
    <3>2. tick - bucket.at \in Int /\ bucket.at - grants[i].at \in Int
      BY <1>1, <3>1, SMTT(30)
    <3>3. \A a, b \in Int : a * b \in Int
      OBVIOUS
    <3> QED
      BY <1>1, <3>1, <3>2, <3>3
  <2> DEFINE x == (tick - bucket.at) * Refill
             y == (bucket.at - grants[i].at) * Refill
             z == (tick - grants[i].at) * Refill
  <2>6. /\ z = x + y /\ x \in Int /\ y \in Int /\ Refilled.tokens <= bucket.tokens + x
        /\ Granted(i, n) + bucket.tokens <= Capacity + y
    BY <1>2, <2>2, <2>4, <2>5
  <2> HIDE DEF x, y, z
  <2>7. /\ Granted(i, n) + w <= Capacity + z
        /\ Granted(i, n) + w + bucket'.tokens <= Capacity + z
    <3>1. /\ Granted(i, n) \in Int /\ Refilled.tokens \in Int /\ bucket.tokens \in Int
          /\ Capacity \in Int /\ z \in Int /\ bucket'.tokens = Refilled.tokens - w
          /\ Refilled.tokens >= w
      BY <1>1, <1>3, <2>3, <2>5, <2>6, SMTT(30)
    <3>3. bucket'.tokens \in Int /\ w \in Int
      BY <1>3
    <3>4. /\ x \in Int /\ y \in Int /\ Refilled.tokens <= bucket.tokens + x
          /\ Granted(i, n) + bucket.tokens <= Capacity + y
      BY <2>6
    <3>5. /\ Granted(i, n) + w <= Capacity + (x + y)
          /\ Granted(i, n) + w + bucket'.tokens <= Capacity + (x + y)
      BY <3>1, <3>3, <3>4, Spending, Zenon
    <3> QED
      BY <2>6, <3>5
  <2> QED
    BY <2>3, <2>7 DEF z
<1>9. /\ Sums(W)[n + 1] - Sums(W)[(n + 1) - 1] = w
      /\ w <= Capacity /\ w + bucket'.tokens <= Capacity
  <2>1. (n + 1) - 1 = n /\ n \in 0..n
    BY <1>1
  <2> QED
    BY <1>1, <1>2, <1>3, <1>6, <2>1, SMTT(30)
<1>10. WithinBudget'
  <2> SUFFICES ASSUME NEW i \in 1..(n + 1), NEW j \in i..(n + 1)
               PROVE  Sums(W)[j] - Sums(W)[i - 1]
                        <= Capacity + (grants'[j].at - grants'[i].at) * Refill
    BY <1>4 DEF WithinBudget, Granted, Weights, W
  <2>1. CASE j \in 1..n
    <3>1. i \in 1..n /\ j \in i..n
      BY <1>1, <2>1
    <3> QED
      BY <1>4, <1>7, <2>1, <3>1
  <2>2. CASE j = n + 1 /\ i \in 1..n
    BY <1>4, <1>8, <2>2
  <2>3. CASE j = n + 1 /\ i = n + 1
    <3>1. (tick - tick) * Refill = 0
      BY <1>1
    <3> QED
      BY <1>1, <1>4, <1>9, <2>3, <3>1
  <2>4. j \in 1..n \/ (j = n + 1 /\ (i \in 1..n \/ i = n + 1))
    <3>1. n \in Nat /\ i \in Int /\ j \in Int /\ 1 <= i /\ i <= j /\ j <= n + 1
      BY <1>1
    <3> QED
      BY <3>1
  <2> QED
    BY <2>1, <2>2, <2>3, <2>4
<1>11. ASSUME NEW i \in 1..(n + 1)
       PROVE  Sums(W)[n + 1] - Sums(W)[i - 1] + bucket'.tokens
                <= Capacity + (bucket'.at - grants'[i].at) * Refill
  <2>1. CASE i \in 1..n
    BY <1>3, <1>4, <1>8, <2>1
  <2>2. CASE i = n + 1
    <3>1. (tick - tick) * Refill = 0
      BY <1>1
    <3> QED
      BY <1>1, <1>3, <1>4, <1>9, <2>2, <3>1
  <2> QED
    BY <1>1, <2>1, <2>2
<1> QED
  BY <1>1, <1>3, <1>4, <1>10, <1>11 DEF BudgetInv, Granted, Weights, W

LEMMA BudgetStep == RestInv /\ BudgetInv /\ [RestNext]_restVars => BudgetInv'
<1> SUFFICES ASSUME RestInv, BudgetInv, [RestNext]_restVars PROVE BudgetInv'
  OBVIOUS
<1>1. /\ tick \in Int /\ bucket \in [tokens : Int, at : Int] /\ bucket.tokens <= Capacity
      /\ (bucket.at - bucket.at) * Refill = 0
  BY BudgetAssumption DEF BudgetInv
<1>2. CASE Acquire
  <2>1. CASE UNCHANGED grants /\ bucket' = Refilled
    BY <1>1, <1>2, <2>1, RefilledIs, BucketMoves DEF Acquire
  <2>2. CASE ~(UNCHANGED grants /\ bucket' = Refilled)
    <3>1. PICK r : r = Head(turns)
      OBVIOUS
    <3>2. r \in Requests
      BY <1>2, <3>1, Dequeued DEF Acquire, RestInv, RestTypeOK
    <3>3. Weight[r] \in Nat
      BY <3>2, BudgetAssumption
    <3>4. /\ UNCHANGED tick /\ Refilled.tokens >= Weight[r]
          /\ bucket' = [Refilled EXCEPT !.tokens = Refilled.tokens - Weight[r]]
          /\ grants' = Append(grants, [at |-> tick, weight |-> Weight[r]])
      BY <1>2, <2>2, <3>1 DEF Acquire
    <3> QED
      BY <3>3, <3>4, GrantKeeps
  <2> QED
    BY <2>1, <2>2
<1>3. CASE ~Acquire
  <2>1. UNCHANGED <<bucket, grants>> /\ (tick' = tick \/ tick' = tick + 1)
    BY <1>3 DEF RestNext, OpenClient, LoopSyncBegins, SyncEnds, TickPasses, ClockSteps, Request,
                Answered, SyncBegins, restVars
  <2> QED
    BY <1>1, <2>1, BucketMoves
<1> QED
  BY <1>2, <1>3

(* Over any stretch of time and for any weights, RateLimiter.acquire grants no more than a
   full bucket and what it regains meanwhile. *)
THEOREM StaysWithinBudget == RestSpec => []WithinBudget
<1>1. RestInit => RestInv /\ BudgetInv
  BY RestInitInv, BudgetInitInv
<1>2. RestInv /\ BudgetInv /\ [RestNext]_restVars => RestInv' /\ BudgetInv'
  BY RestStep, BudgetStep
<1>3. BudgetInv => WithinBudget
  BY DEF BudgetInv
<1> QED
  BY <1>1, <1>2, <1>3, PTL DEF RestSpec

----------------------------------------------------------------------------
(***************************************************************************)
(* DepthBook: away from a hole in the feed, what a book holds is what the  *)
(* venue's book held at the update the book says it is at.                 *)
(***************************************************************************)

VenueBooks == [Levels -> Size]
Diffs == [first : Int, last : Int, set : UNION {[t -> Size] : t \in SUBSET Levels}]

(* A difference tells each level it sets as it was in the end, and leaves out only
   what did not change from the update before its first to its last. *)
Tells(h, e) ==
  /\ e.first - 1 \in 1..Len(h) /\ e.last \in 1..Len(h) /\ e.first <= e.last
  /\ \A p \in Levels :
       IF p \in DOMAIN e.set THEN e.set[p] = h[e.last][p]
       ELSE \A u \in (e.first - 1)..e.last : h[u][p] = h[e.last][p]

Had(h, id, book) == id \in 1..Len(h) /\ book = h[id]

Truths(h) == {e \in Diffs : Tells(h, e)}

DepthTypeOK ==
  /\ truth \in Seq(VenueBooks) /\ sent \in 1..Len(truth)
  /\ frames \in Seq(Truths(truth))
  /\ depth \in [book : VenueBooks, init : BOOLEAN, pending : BOOLEAN,
                lastU : Int \union {None}, buffer : Seq(Truths(truth))]

DepthInv ==
  /\ DepthTypeOK
  /\ depth.init => ~depth.pending
  /\ ask.at = "answered" => Had(truth, ask.id, ask.book)
  /\ poll.at = "answered" => Had(truth, poll.id, poll.book)
  /\ ~hole => /\ depth.init => Had(truth, depth.lastU, depth.book)
              /\ shown # None => Had(truth, shown.id, shown.book)

(* What the venue had, it has had when it moves on. *)
Onward(h, g) == \E x \in VenueBooks : g = Append(h, x)

LEMMA HadStill ==
  ASSUME NEW h \in Seq(VenueBooks), NEW g, Onward(h, g)
  PROVE  /\ g \in Seq(VenueBooks) /\ Len(g) \in Nat /\ Len(h) \in Nat /\ Len(g) = Len(h) + 1
         /\ \A u \in 1..Len(h) : g[u] = h[u]
         /\ \A id, book : Had(h, id, book) => Had(g, id, book)
         /\ Truths(h) \in SUBSET Truths(g)
<1>1. PICK x \in VenueBooks : g = Append(h, x)
  BY DEF Onward
<1>2. g \in Seq(VenueBooks) /\ Len(g) \in Nat /\ Len(h) \in Nat /\ Len(g) = Len(h) + 1
      /\ \A u \in 1..Len(h) : g[u] = h[u]
  BY <1>1, AppendProperties, LenProperties
<1>3. \A id, book : Had(h, id, book) => Had(g, id, book)
  BY <1>2 DEF Had
<1>4. ASSUME NEW e \in Truths(h) PROVE e \in Truths(g)
  <2>1. e \in Diffs /\ Tells(h, e)
    BY DEF Truths
  <2>2. e.first \in Int /\ e.last \in Int /\ e.first - 1 \in 1..Len(h) /\ e.last \in 1..Len(h)
        /\ e.first <= e.last
    BY <2>1 DEF Diffs, Tells
  <2>3. e.first - 1 \in 1..Len(g) /\ e.last \in 1..Len(g) /\ g[e.last] = h[e.last]
        /\ \A u \in (e.first - 1)..e.last : g[u] = h[u]
    BY <1>2, <2>2
  <2>4. Tells(g, e)
    BY <2>1, <2>2, <2>3 DEF Tells
  <2> QED BY <2>1, <2>4 DEF Truths
<1> QED BY <1>2, <1>3, <1>4

(* A book of the venue from the stretch a difference covers, with the difference
   applied, is the book at its end. *)
LEMMA AppliedIs ==
  ASSUME NEW h \in Seq(VenueBooks), NEW e \in Truths(h), NEW id \in Int,
         e.first - 1 <= id, id <= e.last
  PROVE  Applied(h[id], e) = h[e.last] /\ Had(h, e.last, h[e.last])
<1>1. e \in Diffs /\ Tells(h, e)
  BY DEF Truths
<1>2. e.first \in Int /\ e.last \in 1..Len(h) /\ Len(h) \in Nat
  BY <1>1, LenProperties DEF Diffs, Tells
<1>3. h[e.last] \in [Levels -> Size]
  BY <1>2, ElementOfSeq DEF VenueBooks
<1>4. id \in (e.first - 1)..e.last
  BY <1>2
<1>5. \A p \in Levels : (IF p \in DOMAIN e.set THEN e.set[p] ELSE h[id][p]) = h[e.last][p]
  BY <1>1, <1>4 DEF Tells
<1> QED
  BY <1>2, <1>3, <1>5 DEF Applied, Had

LEMMA AppliedTyped ==
  ASSUME NEW b \in VenueBooks, NEW e \in Diffs
  PROVE  Applied(b, e) \in VenueBooks
<1>1. PICK t \in SUBSET Levels : e.set \in [t -> Size]
  BY DEF Diffs
<1> QED
  BY <1>1 DEF Applied, VenueBooks

(* Differences without a hole between them, the first of which covers the book
   they are applied to, lead to the book at the end of the last. *)
LEMMA ReplayedIs ==
  ASSUME NEW h \in Seq(VenueBooks), NEW f \in Seq(Truths(h)), f # << >>, NEW id \in 1..Len(h),
         Straddles(Head(f), id)
  PROVE  /\ Replayed(h[id], f) \in VenueBooks
         /\ f[Len(f)] \in Truths(h)
         /\ (\A k \in 1..(Len(f) - 1) : f[k + 1].first = f[k].last + 1)
              => Had(h, f[Len(f)].last, Replayed(h[id], f))
<1> DEFINE N == Len(f)
           base == h[id]
           Solves(q) == q = [n \in 0..N |-> IF n = 0 THEN base ELSE Applied(q[n - 1], f[n])]
           g == [z \in Nat \X VenueBooks |-> IF z[1] \in 1..N THEN Applied(z[2], f[z[1]]) ELSE z[2]]
           r == CHOOSE q : Solves(q)
<1>1. N \in Nat /\ N >= 1 /\ (\A n \in 1..N : f[n] \in Truths(h)) /\ Head(f) = f[1]
  BY LenProperties, ElementOfSeq, EmptySeq, HeadTailProperties
<1>2. base \in VenueBooks
  BY ElementOfSeq
<1>3. g \in [Nat \X VenueBooks -> VenueBooks]
  <2>1. ASSUME NEW z \in Nat \X VenueBooks
        PROVE  (IF z[1] \in 1..N THEN Applied(z[2], f[z[1]]) ELSE z[2]) \in VenueBooks
    <3>1. z[2] \in VenueBooks
      OBVIOUS
    <3>2. z[1] \in 1..N => f[z[1]] \in Diffs
      BY <1>1 DEF Truths
    <3> QED BY <3>1, <3>2, AppliedTyped
  <2> QED BY <2>1
<1> HIDE DEF g, base
<1>4. PICK p \in [0..N -> VenueBooks] : p[0] = base /\ \A n \in 1..N : p[n] = g[<<n, p[n - 1]>>]
  <2>1. CanStep(N, VenueBooks, base, g)
    BY <1>1, <1>2, <1>3, FoldExists
  <2> QED BY <2>1, Zenon DEF CanStep
<1>5. \A n \in 1..N : p[n] = Applied(p[n - 1], f[n])
  <2> SUFFICES ASSUME NEW n \in 1..N PROVE p[n] = Applied(p[n - 1], f[n])
    OBVIOUS
  <2>1. n - 1 \in 0..N /\ n \in Nat
    BY <1>1
  <2>2. p[n - 1] \in VenueBooks /\ <<n, p[n - 1]>> \in Nat \X VenueBooks
    BY <1>4, <2>1
  <2>3. g[<<n, p[n - 1]>>] = Applied(p[n - 1], f[n])
    BY <2>2 DEF g
  <2> QED BY <1>4, <2>3
<1>6. Solves(p)
  <2>1. \A n \in 0..N : p[n] = IF n = 0 THEN base ELSE Applied(p[n - 1], f[n])
    BY <1>1, <1>4, <1>5
  <2> QED BY <1>4, <2>1
<1>7. Solves(r)
  <2> HIDE DEF Solves
  <2> QED BY <1>6
<1>8. Replayed(h[id], f) = r[N]
  BY DEF Replayed, base
<1> HIDE DEF r
<1>9. r[N] = p[N]
  <2>1. r[0] = p[0]
    BY <1>1, <1>4, <1>7
  <2>2. ASSUME NEW n \in 1..N, r[n - 1] = p[n - 1] PROVE r[n] = p[n]
    <3>1. n \in 0..N /\ n # 0
      BY <1>1
    <3>2. r[n] = Applied(r[n - 1], f[n])
      BY <1>7, <3>1
    <3> QED BY <1>5, <2>2, <3>2
  <2> QED BY <1>1, <2>1, <2>2, StepsAgree
<1>10. ASSUME \A k \in 1..(N - 1) : f[k + 1].first = f[k].last + 1
       PROVE  Had(h, f[N].last, p[N])
  <2>0. Len(h) \in Nat /\ id \in Int
    BY LenProperties
  <2> DEFINE S == {n \in Nat : n \in 1..N => Had(h, f[n].last, p[n])}
  <2>1. S \in SUBSET Nat /\ 0 \in S
    OBVIOUS
  <2>2. ASSUME NEW n \in S PROVE n + 1 \in S
    <3> SUFFICES ASSUME n + 1 \in 1..N PROVE Had(h, f[n + 1].last, p[n + 1])
      OBVIOUS
    <3>1. PICK e : e = f[n + 1]
      OBVIOUS
    <3>2. e \in Truths(h) /\ e.first \in Int /\ e.last \in Int
      BY <1>1, <3>1 DEF Truths, Diffs
    <3>3. (n + 1) - 1 = n /\ p[n + 1] = Applied(p[n], e)
      BY <1>5, <3>1
    <3>4. \E u \in Int : p[n] = h[u] /\ e.first - 1 <= u /\ u <= e.last
      <4>1. CASE n = 0
        <5>1. p[n] = h[id] /\ e.first <= id + 1 /\ id + 1 <= e.last
          BY <1>1, <1>4, <3>1, <4>1 DEF base, Straddles
        <5> QED BY <2>0, <3>2, <5>1
      <4>2. CASE n # 0
        <5>1. n \in 1..(N - 1) /\ n \in 1..N
          BY <1>1, <4>2
        <5>2. Had(h, f[n].last, p[n]) /\ e.first = f[n].last + 1
          BY <1>10, <3>1, <5>1
        <5>3. f[n].last \in Int
          BY <1>1, <5>1 DEF Truths, Diffs
        <5>4. e.first <= e.last
          BY <3>2 DEF Truths, Tells
        <5>5. PICK v : v = f[n].last
          OBVIOUS
        <5>6. v \in Int /\ p[n] = h[v] /\ e.first = v + 1
          BY <5>2, <5>3, <5>5 DEF Had
        <5>7. e.first - 1 <= v /\ v <= e.last
          BY <3>2, <5>4, <5>6
        <5> QED BY <5>6, <5>7
      <4> QED BY <4>1, <4>2
    <3>5. PICK u \in Int : p[n] = h[u] /\ e.first - 1 <= u /\ u <= e.last
      BY <3>4
    <3>6. Applied(h[u], e) = h[e.last] /\ Had(h, e.last, h[e.last])
      BY <3>2, <3>5, AppliedIs
    <3> QED BY <3>1, <3>3, <3>5, <3>6
  <2> HIDE DEF S
  <2>3. S = Nat
    BY <2>1, <2>2, AllNumbers
  <2> QED BY <1>1, <2>3 DEF S
<1>11. f[N] \in Truths(h) /\ p[N] \in VenueBooks
  BY <1>1
<1> QED
  BY <1>8, <1>9, <1>10, <1>11
----------------------------------------------------------------------------
(* The venue *)

LEMMA DepthBegins == DepthInit => DepthInv
<1> SUFFICES ASSUME DepthInit PROVE DepthInv
  OBVIOUS
<1>1. Empty \in VenueBooks
  BY DEF Empty, VenueBooks, Size
<1>2. truth \in Seq(VenueBooks) /\ Len(truth) = 1 /\ sent = 1
  BY <1>1 DEF DepthInit
<1>3. \A S : << >> \in Seq(S)
  BY EmptySeq
<1>4. depth = NoBook /\ frames = << >> /\ ask = NotAsked /\ poll = NotAsked /\ shown = None
  BY DEF DepthInit
<1>5. depth \in [book : VenueBooks, init : BOOLEAN, pending : BOOLEAN,
                lastU : Int \union {None}, buffer : Seq(Truths(truth))]
  BY <1>1, <1>3, <1>4 DEF NoBook
<1> QED
  BY <1>2, <1>3, <1>4, <1>5 DEF DepthInv, DepthTypeOK, NoBook, NotAsked

(* The difference the venue sends tells what happened since the last one. *)
LEMMA DifferenceTells ==
  ASSUME DepthInv, sent < Len(truth)
  PROVE  Difference(sent, Len(truth)) \in Truths(truth)
<1>1. truth \in Seq(VenueBooks) /\ Len(truth) \in Nat /\ sent \in 1..Len(truth)
  BY LenProperties DEF DepthInv, DepthTypeOK
<1> DEFINE to == Len(truth)
           touched == {p \in Levels : \E u \in sent..(to - 1) : truth[u][p] # truth[u + 1][p]}
           e == Difference(sent, to)
<1>2. e = [first |-> sent + 1, last |-> to, set |-> [p \in touched |-> truth[to][p]]]
  BY DEF Difference
<1>3. \A u \in 1..to : truth[u] \in VenueBooks
  BY <1>1, ElementOfSeq
<1> HIDE DEF touched, e
<1>4. touched \in SUBSET Levels
  BY DEF touched
<1>5. e \in Diffs
  <2>1. truth[to] \in [Levels -> Size]
    BY <1>1, <1>3 DEF VenueBooks
  <2>2. [p \in touched |-> truth[to][p]] \in [touched -> Size]
    BY <1>4, <2>1
  <2> QED BY <1>1, <1>2, <1>4, <2>2 DEF Diffs
<1>6. ASSUME NEW p \in Levels, p \notin touched, NEW u \in sent..to
      PROVE  truth[u][p] = truth[to][p]
  <2> DEFINE S == {n \in Nat : n <= to - sent => truth[sent + n][p] = truth[sent][p]}
  <2>1. S \in SUBSET Nat /\ 0 \in S
    BY <1>1
  <2>2. ASSUME NEW n \in S PROVE n + 1 \in S
    <3> SUFFICES ASSUME n + 1 <= to - sent PROVE truth[sent + (n + 1)][p] = truth[sent][p]
      OBVIOUS
    <3>1. sent + n \in sent..(to - 1) /\ (sent + n) + 1 = sent + (n + 1) /\ truth[sent + n][p] = truth[sent][p]
      BY <1>1
    <3>2. truth[sent + n][p] = truth[(sent + n) + 1][p]
      BY <1>6, <3>1 DEF touched
    <3> QED BY <3>1, <3>2
  <2> HIDE DEF S
  <2>3. S = Nat
    BY <2>1, <2>2, AllNumbers
  <2>4. u - sent \in S /\ to - sent \in S
    BY <1>1, <2>3
  <2>5. sent + (u - sent) = u /\ sent + (to - sent) = to /\ u - sent <= to - sent
    BY <1>1
  <2> QED BY <2>4, <2>5 DEF S
<1>7. Tells(truth, e)
  <2>1. e.first = sent + 1 /\ e.last = to /\ DOMAIN e.set = touched
        /\ \A p \in touched : e.set[p] = truth[to][p]
    BY <1>2
  <2>2. (sent + 1) - 1 = sent
    BY <1>1
  <2> QED BY <1>1, <1>6, <2>1, <2>2 DEF Tells
<1> QED
  BY <1>5, <1>7 DEF Truths, e

LEMMA VenueKeeps == ASSUME DepthInv, VenueMoves PROVE DepthInv'
<1>1. truth \in Seq(VenueBooks) /\ Len(truth) \in Nat /\ Len(truth) >= 1
  BY LenProperties DEF DepthInv, DepthTypeOK
<1>2. PICK p \in Levels, s \in Size : truth' = Append(truth, [Last(truth) EXCEPT ![p] = s])
  BY DEF VenueMoves
<1>3. Last(truth) \in VenueBooks
  BY <1>1, ElementOfSeq DEF Last
<1>4. [Last(truth) EXCEPT ![p] = s] \in VenueBooks
  BY <1>3 DEF VenueBooks
<1>5. PICK h, g : h = truth /\ g = truth'
  OBVIOUS
<1>6. Onward(h, g)
  BY <1>2, <1>4, <1>5 DEF Onward
<1>7. /\ g \in Seq(VenueBooks) /\ Len(g) \in Nat /\ Len(h) \in Nat /\ Len(g) = Len(h) + 1
      /\ \A id, book : Had(h, id, book) => Had(g, id, book)
      /\ Truths(h) \in SUBSET Truths(g)
  BY <1>1, <1>5, <1>6, HadStill
<1>8. UNCHANGED <<sent, frames, depth, ask, poll, shown, hole>>
  BY DEF VenueMoves
<1>9. Seq(Truths(h)) \in SUBSET Seq(Truths(g))
  <2>1. \A q \in Seq(Truths(h)) : q \in Seq(Truths(g))
    BY <1>7, QueueGrows
  <2> QED BY <2>1
<1>10. DepthTypeOK'
  <2>1. sent' \in 1..Len(g) /\ frames' \in Seq(Truths(g))
    BY <1>5, <1>7, <1>8, <1>9 DEF DepthInv, DepthTypeOK
  <2>2. depth' \in [book : VenueBooks, init : BOOLEAN, pending : BOOLEAN,
                lastU : Int \union {None}, buffer : Seq(Truths(g))]
    BY <1>5, <1>8, <1>9 DEF DepthInv, DepthTypeOK
  <2> QED BY <1>5, <1>7, <2>1, <2>2 DEF DepthTypeOK
<1> QED
  BY <1>5, <1>7, <1>8, <1>10 DEF DepthInv

LEMMA BatchKeeps == ASSUME DepthInv, NEW arrives \in BOOLEAN, Batch(arrives) PROVE DepthInv'
<1>1. sent < Len(truth) /\ sent' = Len(truth) /\ UNCHANGED <<truth, depth, ask, poll, shown, hole>>
      /\ (frames' = Append(frames, Difference(sent, Len(truth))) \/ frames' = frames)
  BY DEF Batch
<1>2. truth \in Seq(VenueBooks) /\ sent \in 1..Len(truth) /\ frames \in Seq(Truths(truth))
  BY DEF DepthInv, DepthTypeOK
<1>3. frames' \in Seq(Truths(truth))
  BY <1>1, <1>2, DifferenceTells, AppendProperties
<1>4. sent' \in 1..Len(truth)
  BY <1>1, <1>2, LenProperties
<1> QED
  BY <1>1, <1>3, <1>4 DEF DepthInv, DepthTypeOK

LEMMA SnapshotKeeps == ASSUME DepthInv, VenueSnapshots PROVE DepthInv'
<1>1. UNCHANGED <<truth, sent, frames, depth, shown, hole>>
      /\ (ask' = ask \/ ask' = Answer) /\ (poll' = poll \/ poll' = Answer)
  BY DEF VenueSnapshots
<1>2. Answer.at = "answered" /\ Had(truth, Answer.id, Answer.book)
  <2>1. Len(truth) \in 1..Len(truth) /\ Last(truth) = truth[Len(truth)]
    BY LenProperties DEF DepthInv, DepthTypeOK, Last
  <2> QED BY <2>1 DEF Answer, Had
<1> QED
  BY <1>1, <1>2 DEF DepthInv, DepthTypeOK

----------------------------------------------------------------------------
(* The manager *)

LEMMA NormalizeKeeps == ASSUME DepthInv, NormalizeDiff PROVE DepthInv'
<1>1. frames # << >> /\ frames' = Tail(frames) /\ UNCHANGED <<truth, sent, ask, poll, hole>>
  BY DEF NormalizeDiff
<1>2. PICK e : e = Head(frames)
  OBVIOUS
<1>3. frames \in Seq(Truths(truth)) /\ truth \in Seq(VenueBooks) /\ sent \in 1..Len(truth)
      /\ depth \in [book : VenueBooks, init : BOOLEAN, pending : BOOLEAN,
                    lastU : Int \union {None}, buffer : Seq(Truths(truth))]
  BY DEF DepthInv, DepthTypeOK
<1>4. e \in Truths(truth) /\ frames' \in Seq(Truths(truth)) /\ e \in Diffs
  <2>1. e \in Truths(truth) /\ frames' \in Seq(Truths(truth))
    BY <1>1, <1>2, <1>3, Dequeued
  <2> QED BY <2>1 DEF Truths
<1>5. CASE /\ depth.pending \/ ~depth.init
           /\ depth' = Buffered(depth, e)
           /\ shown' = IF depth.init THEN [id |-> depth.lastU, book |-> depth.book] ELSE shown
  <2>1. ~depth.init /\ shown' = shown
    BY <1>5 DEF DepthInv
  <2>2. Append(depth.buffer, e) \in Seq(Truths(truth))
    BY <1>3, <1>4, AppendProperties
  <2>3. depth' = [depth EXCEPT !.buffer = Append(depth.buffer, e)]
    BY <1>5 DEF Buffered
  <2>4. depth' \in [book : VenueBooks, init : BOOLEAN, pending : BOOLEAN,
                    lastU : Int \union {None}, buffer : Seq(Truths(truth))]
        /\ ~depth'.init
    BY <1>3, <2>1, <2>2, <2>3
  <2> QED BY <1>1, <1>3, <1>4, <2>1, <2>4 DEF DepthInv, DepthTypeOK
<1>6. CASE /\ ~depth.pending /\ depth.init /\ Contiguous(e)
           /\ depth' = Followed(depth, e)
           /\ shown' = [id |-> e.last, book |-> depth'.book]
  <2> DEFINE b == Applied(depth.book, e)
  <2>1. b \in VenueBooks /\ e.last \in Int /\ e.first \in Int
    BY <1>3, <1>4, AppliedTyped DEF Diffs
  <2>2. depth' = [depth EXCEPT !.book = b, !.lastU = e.last]
    BY <1>6 DEF Followed
  <2>3. ~hole => Had(truth, e.last, b)
    <3> SUFFICES ASSUME ~hole PROVE Had(truth, e.last, b)
      OBVIOUS
    <3>1. Had(truth, depth.lastU, depth.book) /\ e.first = depth.lastU + 1
      BY <1>6 DEF DepthInv, Contiguous
    <3>2. PICK u, h : u = depth.lastU /\ h = truth
      OBVIOUS
    <3>3. u \in Int /\ depth.book = h[u] /\ e.first = u + 1
      BY <3>1, <3>2 DEF Had
    <3>4. e.first <= e.last
      BY <1>4 DEF Truths, Tells
    <3>5. e.first - 1 <= u /\ u <= e.last
      BY <2>1, <3>3, <3>4
    <3> QED BY <1>3, <1>4, <3>2, <3>3, <3>5, AppliedIs
  <2> HIDE DEF b
  <2>4. depth' \in [book : VenueBooks, init : BOOLEAN, pending : BOOLEAN,
                    lastU : Int \union {None}, buffer : Seq(Truths(truth))]
        /\ depth'.book = b /\ depth'.lastU = e.last /\ depth'.pending = depth.pending
        /\ depth'.init = depth.init
    BY <1>3, <2>1, <2>2
  <2>5. shown'.id = e.last /\ shown'.book = b
    BY <1>6, <2>4
  <2> QED BY <1>1, <1>3, <1>4, <1>6, <2>3, <2>4, <2>5 DEF DepthInv, DepthTypeOK
<1>7. CASE /\ ~depth.pending /\ depth.init /\ ~Contiguous(e)
           /\ depth' = Reset(depth)
           /\ UNCHANGED shown
  <2>1. Empty \in VenueBooks
    BY DEF Empty, VenueBooks, Size
  <2>2. depth' = [depth EXCEPT !.book = Empty, !.init = FALSE, !.lastU = None]
    BY <1>7 DEF Reset
  <2>3. depth' \in [book : VenueBooks, init : BOOLEAN, pending : BOOLEAN,
                    lastU : Int \union {None}, buffer : Seq(Truths(truth))]
        /\ ~depth'.init
    BY <1>3, <2>1, <2>2
  <2> QED BY <1>1, <1>3, <1>4, <1>7, <2>3 DEF DepthInv, DepthTypeOK
<1> QED
  BY <1>2, <1>5, <1>6, <1>7 DEF NormalizeDiff

LEMMA BootstrapKeeps == ASSUME DepthInv, BootstrapEnds PROVE DepthInv'
<1>1. ask.at = "answered" /\ ask' = NotAsked /\ UNCHANGED <<truth, sent, frames, poll, shown>>
  BY DEF BootstrapEnds
<1>2. PICK fresh, id, h : fresh = Fresh(ask.id) /\ id = ask.id /\ h = truth
  OBVIOUS
<1> DEFINE primed == [depth EXCEPT !.book = ask.book, !.init = TRUE, !.pending = FALSE,
                                   !.lastU = ask.id, !.buffer = << >>]
           Depths == [book : VenueBooks, init : BOOLEAN, pending : BOOLEAN,
                      lastU : Int \union {None}, buffer : Seq(Truths(truth))]
<1>3. truth \in Seq(VenueBooks) /\ depth \in Depths /\ id \in 1..Len(h) /\ ask.book = h[id]
      /\ Had(h, id, ask.book)
  BY <1>1, <1>2 DEF DepthInv, DepthTypeOK, Had
<1>4. ask.book \in VenueBooks /\ id \in Int
  BY <1>2, <1>3, ElementOfSeq, LenProperties
<1>5. fresh \in Seq(Truths(truth))
  <2>1. PICK b, S, A : b = depth.buffer /\ S = {e \in ToSet(depth.buffer) : e.last > ask.id} /\ A = Truths(truth)
    OBVIOUS
  <2>2. b \in Seq(A)
    BY <1>3, <2>1
  <2>3. Sifted(b, S) \in Seq({x \in A : x \in S})
    BY <2>2, SiftedTyped
  <2>4. Sifted(b, S) \in Seq(A)
    BY <2>3, QueueGrows
  <2> QED BY <1>2, <2>1, <2>4 DEF Fresh
<1>6. << >> \in Seq(Truths(truth)) /\ Empty \in VenueBooks
  BY EmptySeq DEF Empty, VenueBooks, Size
<1>7. primed \in Depths /\ primed.init /\ ~primed.pending /\ primed.lastU = id
      /\ primed.book = ask.book
  BY <1>2, <1>3, <1>4, <1>6
<1>8. CASE fresh # << >> /\ ~Straddles(Head(fresh), id)
  <2>1. depth' = [Reset(primed) EXCEPT !.buffer = Tail(fresh)] /\ hole' = hole
    BY <1>2, <1>8 DEF BootstrapEnds
  <2> HIDE DEF primed
  <2>2. Tail(fresh) \in Seq(Truths(truth))
    BY <1>5, <1>8, HeadTailProperties
  <2>3. depth' \in Depths /\ ~depth'.init
    BY <1>6, <1>7, <2>1, <2>2 DEF Reset
  <2> QED BY <1>1, <2>1, <2>3 DEF DepthInv, DepthTypeOK, NotAsked
<1>9. CASE fresh = << >>
  <2>1. depth' = primed /\ (hole' => hole)  /\ (hole => hole')
    <3>1. Len(fresh) = 0
      BY <1>9, EmptySeq
    <3>2. \A k \in 1..(Len(fresh) - 1) : FALSE
      BY <3>1
    <3> QED BY <1>2, <1>9, <3>2 DEF BootstrapEnds
  <2> HIDE DEF primed
  <2>2. ~hole' => ~hole
    BY <2>1
  <2> QED BY <1>1, <1>2, <1>3, <1>7, <2>1, <2>2 DEF DepthInv, DepthTypeOK, NotAsked
<1>10. CASE fresh # << >> /\ Straddles(Head(fresh), id)
  <2> DEFINE b == Replayed(ask.book, fresh)
             u == Last(fresh).last
             Gap == \E k \in 1..(Len(fresh) - 1) : fresh[k + 1].first # fresh[k].last + 1
  <2>1. depth' = [primed EXCEPT !.book = b, !.lastU = u] /\ (hole' <=> (hole \/ Gap))
    BY <1>2, <1>10 DEF BootstrapEnds
  <2>2. /\ b \in VenueBooks /\ Last(fresh) \in Truths(truth)
        /\ ~Gap => Had(h, u, b)
    <3>1. h \in Seq(VenueBooks) /\ fresh \in Seq(Truths(h))
      BY <1>2, <1>3, <1>5
    <3>2. /\ Replayed(h[id], fresh) \in VenueBooks
          /\ fresh[Len(fresh)] \in Truths(h)
          /\ (\A k \in 1..(Len(fresh) - 1) : fresh[k + 1].first = fresh[k].last + 1)
              => Had(h, fresh[Len(fresh)].last, Replayed(h[id], fresh))
      BY <1>3, <1>10, <3>1, ReplayedIs
    <3> QED BY <1>2, <1>3, <3>2 DEF Last
  <2>3. u \in Int
    BY <2>2 DEF Truths, Diffs
  <2> HIDE DEF primed, b, u, Gap
  <2>4. depth' \in Depths /\ depth'.init /\ ~depth'.pending /\ depth'.lastU = u /\ depth'.book = b
    BY <1>7, <2>1, <2>2, <2>3
  <2>5. ~hole' => ~hole /\ ~Gap
    BY <2>1
  <2> QED BY <1>1, <1>2, <1>3, <2>2, <2>4, <2>5 DEF DepthInv, DepthTypeOK, NotAsked
<1> QED
  BY <1>8, <1>9, <1>10

LEMMA DepthStep == DepthInv /\ [DepthNext]_depthVars => DepthInv'
<1> SUFFICES ASSUME DepthInv, [DepthNext]_depthVars PROVE DepthInv'
  OBVIOUS
<1>1. CASE NormalizeDiff BY <1>1, NormalizeKeeps
<1>2. CASE BootstrapEnds BY <1>2, BootstrapKeeps
<1>3. CASE VenueMoves BY <1>3, VenueKeeps
<1>4. CASE VenueSnapshots BY <1>4, SnapshotKeeps
<1>5. CASE Batch(TRUE) \/ Batch(FALSE) BY <1>5, BatchKeeps
<1>6. CASE BootstrapBegins
  <2>1. ~depth.init /\ ask' = Asked /\ depth' = [depth EXCEPT !.pending = TRUE]
        /\ UNCHANGED <<truth, sent, frames, poll, shown, hole>>
    BY <1>6 DEF BootstrapBegins
  <2>2. ~depth'.init /\ depth' \in [book : VenueBooks, init : BOOLEAN, pending : BOOLEAN,
                lastU : Int \union {None}, buffer : Seq(Truths(truth))]
    BY <2>1 DEF DepthInv, DepthTypeOK
  <2> QED BY <2>1, <2>2 DEF DepthInv, DepthTypeOK, Asked
<1>7. CASE BootstrapFails
  BY <1>7 DEF BootstrapFails, DepthInv, DepthTypeOK, NotAsked
<1>8. CASE PollBook
  <2>1. UNCHANGED <<truth, sent, frames, depth, ask, hole>>
        /\ poll'.at # "answered"
        /\ (shown' = shown \/ (poll.at = "answered" /\ shown' = [id |-> poll.id, book |-> poll.book]))
    BY <1>8 DEF PollBook, Asked, NotAsked
  <2>2. ~hole /\ shown' # None => Had(truth, shown'.id, shown'.book)
    BY <2>1 DEF DepthInv
  <2> QED BY <2>1, <2>2 DEF DepthInv, DepthTypeOK
<1>9. CASE UNCHANGED depthVars
  BY <1>9 DEF depthVars, DepthInv, DepthTypeOK
<1> QED
  BY <1>1, <1>2, <1>3, <1>4, <1>5, <1>6, <1>7, <1>8, <1>9 DEF DepthNext

(* For any levels and any losses: a book that is kept or published is one the venue
   had, under the update id it is taken for, unless a difference went missing among
   those buffered during a bootstrap (apply_diff, _replay_buffer, the normalizer and
   the polled feed). *)
THEOREM BooksTold == DepthSpec => []BooksAreTrue
<1>1. DepthInv => BooksAreTrue
  BY DEF DepthInv, BooksAreTrue, Had
<1> QED
  BY <1>1, DepthBegins, DepthStep, PTL DEF DepthSpec
=============================================================================
