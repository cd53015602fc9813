-------------------------- MODULE StrategyRegistry --------------------------
(***************************************************************************)
(* Strategies and the registry that runs them (strategy/registry.py): who  *)
(* is called with an event, what becomes of the signals they return, pause *)
(* and resume.  What a strategy answers is left open; one that raises has  *)
(* answered nothing, and the next one is called all the same.              *)
(***************************************************************************)
EXTENDS Absence, Naturals, SequencesExt, FiniteSetsExt

CONSTANTS
  Strategies,  \* strategy ids
  Registered,  \* _instrument_index of the instrument: a sequence of strategies
  SignalRoom   \* places on the SIGNALS queue

ASSUME RegistryAssumption == Registered \in Seq(Strategies) /\ SignalRoom \in Nat

VARIABLES
  paused,   \* _paused
  sigQ,     \* the SIGNALS topic, towards the risk engine and the OMS
  said,     \* number of signals returned
  inFlight  \* history: strategy -> whether a signal of it was on its way when it was
            \* paused

registryVars == <<paused, sigQ, said, inFlight>>

RegistryInit ==
  /\ paused = {} /\ sigQ = << >> /\ said = 0
  /\ inFlight = [s \in Strategies |-> FALSE]

(* A paused strategy is not called; it may have nothing to say. *)
Invoked(s, reply) == IF s \in paused \/ reply[s] = None THEN << >> ELSE <<reply[s]>>

(* _dispatch of an event to the strategies of the instrument, or to the one a fill
   or a position belongs to.  A publish that meets a full queue raises through the
   loop: the strategies after it are not called. *)
Dispatch(to, reply) ==
  LET signals == FlattenSeq([i \in DOMAIN to |-> Invoked(to[i], reply)])
  IN  /\ signals # << >>
      /\ said' = said + Len(signals)
      /\ sigQ' = sigQ \o SubSeq(signals, 1, Min({Len(signals), SignalRoom - Len(sigQ)}))
      /\ UNCHANGED <<paused, inFlight>>

Pause(s) ==
  /\ paused' = paused \union {s}
  /\ inFlight' = [inFlight EXCEPT ![s] = \E i \in DOMAIN sigQ : sigQ[i].strat = s]
  /\ UNCHANGED <<sigQ, said>>

Resume(s) ==
  /\ s \in paused
  /\ paused' = paused \ {s}
  /\ UNCHANGED <<sigQ, said, inFlight>>
=============================================================================
