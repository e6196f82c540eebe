--------------------------- MODULE MCSupervision ---------------------------
(***************************************************************************)
(* What watches over the strategies: the control of their runners and the  *)
(* monitor of market halts.  One run checks both: focus says which of them *)
(* a behaviour is about, and the other rests in its initial state.         *)
(***************************************************************************)
EXTENDS MarketHalt, EngineControl

CONSTANTS r1, r2, s1, s2, a

\* Two runners ask about two symbols; the exchange stops one of them or the market.
TwoRunners == {r1, r2}
TwoSymbols == {s1, s2}
OneOrAll == {{s1}, TwoSymbols}
\* One strategy and its user; commands for others only delay its own.
OneStrategy == {a}

VARIABLE focus
all == <<focus, haltVars, vars>>

MCInit ==
  /\ HaltInit /\ Init
  /\ \/ focus = "halt" /\ able = [s \in Strategies |-> "yes"]
     \/ focus = "control" /\ volatile = TwoSymbols

HaltStep(act) == focus = "halt" /\ act /\ UNCHANGED <<focus, vars>>
ControlStep(act) == focus = "control" /\ act /\ UNCHANGED <<focus, haltVars>>

MCNext == HaltStep(HaltNext) \/ ControlStep(Next)

\* The fairness of both.  A behaviour is about one of the two for ever, so that a
\* disjunction with one step of each is the fairness of the one it is about.
MCSpec ==
  /\ MCInit /\ [][MCNext]_all
  /\ WF_all(HaltStep(Tick) \/ ControlStep(Main))
  /\ WF_all(HaltStep(Gate(r1)) \/ ControlStep(Control))
  /\ WF_all(HaltStep(Gate(r2)) \/ ControlStep(Publish(a)))
  /\ WF_all(ControlStep(Load(a)))
  /\ \A x \in Actors : WF_all(ControlStep(Handle(x, a)))

=============================================================================
