------------------------------ MODULE MCVenue ------------------------------
(***************************************************************************)
(* The parts of the program that talk to a venue, each in scenes of its    *)
(* own: part is the one that moves, the others stay as they began.         *)
(***************************************************************************)
EXTENDS VenueSession, DepthBook, MarketFeed, RestClient

vars == <<part, sessVars, depthVars, feedVars, restVars>>

InstrumentOf == [c \in Clients |-> IF c = "a" THEN "btc" ELSE "eth"]
SymbolSeq == <<"btc", "eth">>
WeightOf == [r \in Requests |-> IF r = "light" THEN 1 ELSE 2]

Nothing ==
  [calm |-> TRUE, deaf |-> FALSE, lots |-> 2, clients |-> {"a"}, cancels |-> 0,
   crashes |-> 0, keys |-> 1, drops |-> 0, blips |-> 0, resyncs |-> 0, compares |-> 0]

(* The connection or the key is lost, requests fail, the process restarts; the
   resync goes on for ever. *)
Healing == [Nothing EXCEPT !.resyncs = -1, !.drops = 1, !.blips = 1, !.keys = 2]
Reborn == [Nothing EXCEPT !.resyncs = -1, !.crashes = 1, !.keys = 2, !.blips = 1, !.lots = 1]
Keys == [Nothing EXCEPT !.drops = 2, !.blips = 2, !.keys = 3, !.lots = 1]
(* Answers and reports overlap, the OMS cancels. *)
Racing == [Nothing EXCEPT !.calm = FALSE, !.cancels = 1, !.resyncs = 2]
(* Two instruments, answers that list too little. *)
Gaps ==
  [Nothing EXCEPT !.clients = {"a", "b"}, !.blips = 1, !.resyncs = 3, !.deaf = TRUE, !.lots = 1]
(* The reconciler at work. *)
Audit == [Nothing EXCEPT !.compares = 2, !.cancels = 1, !.drops = 1, !.resyncs = 1]

Scenes == {Racing, Audit, Gaps, Keys, Healing, Reborn}

Init ==
  /\ part \in {"session", "depth", "feed", "rest"}
  /\ env \in Envs /\ (~Moves("session") => env = Gaps)
  /\ skew \in 0..MaxSkew /\ (~Moves("rest") => skew = 0)
  /\ SessInit /\ DepthInit /\ FeedInit /\ RestInit

Next ==
  \/ Moves("session") /\ SessNext /\ UNCHANGED <<part, depthVars, feedVars, restVars>>
  \/ Moves("depth") /\ DepthNext /\ UNCHANGED <<part, sessVars, feedVars, restVars>>
  \/ Moves("feed") /\ FeedNext /\ UNCHANGED <<part, sessVars, depthVars, restVars>>
  \/ Moves("rest") /\ RestNext /\ UNCHANGED <<part, sessVars, depthVars, feedVars>>

Spec == Init /\ [][Next]_vars /\ SessFair /\ FeedFair
=============================================================================
