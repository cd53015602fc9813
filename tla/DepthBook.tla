----------------------------- MODULE DepthBook -----------------------------
(***************************************************************************)
(* The local copy of an order book: an L2OrderBook (order_book.py) kept    *)
(* from a REST snapshot and a stream of differences (depth_book.py), whose *)
(* normalizer publishes it (normalizers/binance_depth.py), and the polled  *)
(* snapshots the runners use (l2_feed.py).                                 *)
(*                                                                         *)
(* A book maps each price level to its size, 0 where there is none; the    *)
(* two sides are treated alike and are not told apart.  Who bootstraps the *)
(* manager is external: nothing under src/ does after a gap.               *)
(***************************************************************************)
EXTENDS Absence, Integers, SequencesExt, Sifting

CONSTANTS
  Levels,
  MaxUpdates \* bound: update ids the venue gives out

ASSUME UpdatesAssumption == MaxUpdates \in Nat

VARIABLES
  truth,  \* external: the venue's book after each update id
  sent,   \* external: the last update id in a difference sent
  frames, \* differences on the connection
  depth,  \* DepthBookManager and its L2OrderBook
  ask,    \* a snapshot request of the manager, or its answer
  poll,   \* a snapshot request of the L2 feed
  shown,  \* the book last published, under the update id it stands for
  hole    \* history: a bootstrap replayed differences with one missing

depthVars == <<truth, sent, frames, depth, ask, poll, shown, hole>>

Size == {0, 1}
Empty == [p \in Levels |-> 0]

NotAsked == [at |-> "none"]
Asked == [at |-> "asked"]
NoBook == [book |-> Empty, init |-> FALSE, pending |-> FALSE, lastU |-> None, buffer |-> << >>]

DepthInit ==
  /\ truth = <<Empty>>
  /\ sent = 1
  /\ frames = << >>
  /\ depth = NoBook
  /\ ask = NotAsked /\ poll = NotAsked
  /\ shown = None
  /\ hole = FALSE

(* L2OrderBook.apply_delta: size 0 removes a level.  The sequence it checks is
   its own counter, so it never finds a gap. *)
Applied(book, diff) == [p \in Levels |-> IF p \in DOMAIN diff.set THEN diff.set[p] ELSE book[p]]

Reset(d) == [d EXCEPT !.book = Empty, !.init = FALSE, !.lastU = None]

----------------------------------------------------------------------------
(* External: the venue. *)

VenueMoves ==
  /\ Len(truth) < MaxUpdates
  /\ \E p \in Levels, s \in Size :
       /\ s # Last(truth)[p]
       /\ truth' = Append(truth, [Last(truth) EXCEPT ![p] = s])
  /\ UNCHANGED <<sent, frames, depth, ask, poll, shown, hole>>

(* Every level that was touched, with the size it has at the end. *)
Difference(from, to) ==
  LET touched == {p \in Levels : \E u \in from..(to - 1) : truth[u][p] # truth[u + 1][p]}
  IN  [first |-> from + 1, last |-> to, set |-> [p \in touched |-> truth[to][p]]]

Batch(arrives) ==
  /\ sent < Len(truth)
  /\ sent' = Len(truth)
  /\ frames' = IF arrives THEN Append(frames, Difference(sent, Len(truth))) ELSE frames
  /\ UNCHANGED <<truth, depth, ask, poll, shown, hole>>

Answer == [at |-> "answered", id |-> Len(truth), book |-> Last(truth)]

VenueSnapshots ==
  /\ \/ ask = Asked /\ ask' = Answer /\ UNCHANGED poll
     \/ poll = Asked /\ poll' = Answer /\ UNCHANGED ask
  /\ UNCHANGED <<truth, sent, frames, depth, shown, hole>>

----------------------------------------------------------------------------
(* bootstrap: differences are buffered from the request on. *)
BootstrapBegins ==
  /\ ask = NotAsked /\ ~depth.init
  /\ ask' = Asked
  /\ depth' = [depth EXCEPT !.pending = TRUE]
  /\ UNCHANGED <<truth, sent, frames, poll, shown, hole>>

(* The request raises: the manager stays pending. *)
BootstrapFails ==
  /\ ask = Asked
  /\ ask' = NotAsked
  /\ UNCHANGED <<truth, sent, frames, depth, poll, shown, hole>>

Fresh(id) == Sifted(depth.buffer, {e \in ToSet(depth.buffer) : e.last > id})

Straddles(e, id) == e.first <= id + 1 /\ id + 1 <= e.last

(* The differences applied to a book, one after another. *)
Replayed(book, diffs) ==
  LET upTo[n \in 0..Len(diffs)] == IF n = 0 THEN book ELSE Applied(upTo[n - 1], diffs[n])
  IN  upTo[Len(diffs)]

(* _replay_buffer: the first fresh difference must straddle the snapshot, or the
   book is dropped, that difference with it; the ones after it are applied as
   they come. *)
BootstrapEnds ==
  /\ ask.at = "answered"
  /\ ask' = NotAsked
  /\ LET fresh == Fresh(ask.id)
         primed == [depth EXCEPT !.book = ask.book, !.init = TRUE, !.pending = FALSE,
                                 !.lastU = ask.id, !.buffer = << >>]
     IN  IF fresh # << >> /\ ~Straddles(Head(fresh), ask.id)
         THEN /\ depth' = [Reset(primed) EXCEPT !.buffer = Tail(fresh)]
              /\ UNCHANGED hole
         ELSE /\ depth' = IF fresh = << >> THEN primed
                          ELSE [primed EXCEPT !.book = Replayed(ask.book, fresh),
                                              !.lastU = Last(fresh).last]
              /\ hole' = (hole \/ \E k \in 1..(Len(fresh) - 1) : fresh[k + 1].first # fresh[k].last + 1)
  /\ UNCHANGED <<truth, sent, frames, poll, shown>>

(* apply_diff, and the normalizer's book event after it. *)
Buffered(d, e) == [d EXCEPT !.buffer = Append(@, e)]
Followed(d, e) == [d EXCEPT !.book = Applied(@, e), !.lastU = e.last]

(* Mutant: a difference that begins later is followed. *)
ContiguousOrLater(e) == e.first >= depth.lastU + 1

Contiguous(e) == e.first = depth.lastU + 1

NormalizeDiff ==
  /\ frames # << >>
  /\ frames' = Tail(frames)
  /\ LET e == Head(frames)
     IN  \/ /\ depth.pending \/ ~depth.init
            /\ depth' = Buffered(depth, e)
            /\ shown' = IF depth.init THEN [id |-> depth.lastU, book |-> depth.book] ELSE shown
         \/ /\ ~depth.pending /\ depth.init /\ Contiguous(e)
            /\ depth' = Followed(depth, e)
            /\ shown' = [id |-> e.last, book |-> depth'.book]
         \/ /\ ~depth.pending /\ depth.init /\ ~Contiguous(e)
            /\ depth' = Reset(depth)
            /\ UNCHANGED shown
  /\ UNCHANGED <<truth, sent, ask, poll, hole>>

----------------------------------------------------------------------------
(* The polled feed: one request at a time; a failed one is skipped, and so is an
   empty book. *)
PollBook ==
  /\ \/ poll = NotAsked /\ poll' = Asked /\ UNCHANGED shown
     \/ poll = Asked /\ poll' = NotAsked /\ UNCHANGED shown
     \/ /\ poll.at = "answered"
        /\ poll' = NotAsked
        /\ shown' = IF poll.book = Empty THEN shown ELSE [id |-> poll.id, book |-> poll.book]
  /\ UNCHANGED <<truth, sent, frames, depth, ask, hole>>

DepthNext ==
  \/ NormalizeDiff \/ BootstrapBegins \/ BootstrapFails \/ BootstrapEnds \/ PollBook
  \/ VenueMoves \/ VenueSnapshots \/ Batch(TRUE) \/ Batch(FALSE)

DepthSpec == DepthInit /\ [][DepthNext]_depthVars

----------------------------------------------------------------------------
(* Every book that is kept or published is one the venue had, under the update id
   it is taken for, whatever differences were lost, as long as no difference went
   missing among those buffered during a bootstrap. *)
BooksAreTrue ==
  ~hole =>
    /\ depth.init /\ ~depth.pending => depth.book = truth[depth.lastU]
    /\ shown # None => shown.book = truth[shown.id]
=============================================================================
