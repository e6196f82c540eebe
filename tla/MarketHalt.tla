----------------------------- MODULE MarketHalt -----------------------------
(***************************************************************************)
(* The monitor of market halts (engine/halt.py) and the gate in front of   *)
(* every order that feeds and asks it (_halt_gate_passed).  A circuit      *)
(* breaker is inferred from the share of symbols seen halted at about the  *)
(* same time; the monitor is one for the process and all runners share it. *)
(*                                                                         *)
(* Time is kept as ages, saturated where nothing tells them apart any more.*)
(* A gate notes the time, awaits the quote and then judges by the time it  *)
(* noted, so that two gates may judge in the other order.                  *)
(***************************************************************************)
EXTENDS Integers, FiniteSets

CONSTANTS
  Runners, Symbols,
  CbRatio, MinSample,          \* in percent, and symbols
  CooldownSec, ObserveTtl,     \* in steps of the clock
  Latency,                     \* the longest a quote takes (HTTP timeouts and retries)
  Stoppable                    \* sets of symbols: the exchange stops only those of one of them

ASSUME HaltAssumption ==
  /\ IsFiniteSet(Symbols)
  /\ {CbRatio, MinSample, CooldownSec, ObserveTtl, Latency} \subseteq Nat
  /\ MinSample > 0 /\ CbRatio \in 1 .. 100
  /\ Stoppable \subseteq SUBSET Symbols

VARIABLES
  halted,     \* symbols the exchange has stopped
  asking,     \* a gate's symbol and the age of the time it noted, or None
  obs,        \* _obs: age and answer, or None
  state,      \* _state
  cool,       \* age of _cooldown_from
  verdict,    \* age of the last verdict HALTED
  down,       \* for how long the exchange has stopped every symbol
  volatile    \* the symbols it stops at times

marketVars == <<halted, down, volatile>>
monitorVars == <<obs, state, cool, verdict>>
haltVars == <<marketVars, asking, monitorVars>>

NoRunner == "none"
None == [age |-> 0, symbol |-> NoRunner]
OldCool == CooldownSec + Latency
Lasting == 2 * ObserveTtl + Latency + 1

(***************************************************************************)
(* halted_ratio and evaluate, by a clock that is a steps slow              *)
(***************************************************************************)
Fresh(o, a) == {s \in Symbols : o[s].seen /\ o[s].age - a <= ObserveTtl}
Stopped(o, a) == {s \in Fresh(o, a) : o[s].halted}

AnySample(o, a) ==
  /\ Fresh(o, a) # {}
  /\ Cardinality(Stopped(o, a)) * 100 >= CbRatio * Cardinality(Fresh(o, a))

CbNow(o, a) ==
  /\ Cardinality(Fresh(o, a)) >= MinSample
  /\ Cardinality(Stopped(o, a)) * 100 >= CbRatio * Cardinality(Fresh(o, a))

StraightBack(o, a) ==
  /\ obs' = o
  /\ \/ /\ CbNow(o, a)
        /\ state' = "halted" /\ cool' = 0 /\ verdict' = 0
     \/ /\ ~CbNow(o, a)
        /\ state' = "normal" /\ UNCHANGED <<cool, verdict>>

CooldownForever(o, a) ==
  /\ obs' = o
  /\ \/ /\ CbNow(o, a)
        /\ state' = "halted" /\ cool' = 0 /\ verdict' = 0
     \/ /\ ~CbNow(o, a) /\ state # "normal"
        /\ state' = "cooldown" /\ cool' = a /\ UNCHANGED verdict
     \/ /\ ~CbNow(o, a) /\ state = "normal"
        /\ UNCHANGED <<state, cool, verdict>>

Evaluate(o, a) ==
  /\ obs' = o
  /\ \/ /\ CbNow(o, a)
        /\ state' = "halted" /\ cool' = 0 /\ verdict' = 0
     \/ /\ ~CbNow(o, a) /\ state = "halted"
        /\ state' = "cooldown" /\ cool' = a /\ UNCHANGED verdict
     \/ /\ ~CbNow(o, a) /\ state = "cooldown" /\ cool - a >= CooldownSec
        /\ state' = "normal" /\ cool' = 0 /\ UNCHANGED verdict
     \/ /\ ~CbNow(o, a) /\ (state = "normal" \/ (state = "cooldown" /\ cool - a < CooldownSec))
        /\ UNCHANGED <<state, cool, verdict>>

(***************************************************************************)
(* _halt_gate_passed.  A gate lets its order through when the quote does   *)
(* not say that the symbol is halted and the state is then normal.         *)
(***************************************************************************)
Ask(r, s) ==
  /\ asking[r] = None
  /\ asking' = [asking EXCEPT ![r] = [age |-> 0, symbol |-> s]]
  /\ UNCHANGED <<marketVars, monitorVars>>

ObservedAddsUp(s, a) == [obs EXCEPT ![s] = [seen |-> TRUE, age |-> obs[s].age + a, halted |-> s \in halted]]

Observed(s, a) == [obs EXCEPT ![s] = [seen |-> TRUE, age |-> a, halted |-> s \in halted]]

Answer(r) ==
  /\ asking[r] # None
  /\ Evaluate(Observed(asking[r].symbol, asking[r].age), asking[r].age)
  /\ asking' = [asking EXCEPT ![r] = None]
  /\ UNCHANGED marketVars

\* Without a quote the gate goes by the market's state alone.
QuoteFails(r) ==
  /\ asking[r] # None
  /\ Evaluate(obs, asking[r].age)
  /\ asking' = [asking EXCEPT ![r] = None]
  /\ UNCHANGED marketVars

(***************************************************************************)
(* The exchange and the clock                                              *)
(***************************************************************************)
Stop(s) ==
  /\ s \in volatile \ halted
  /\ halted' = halted \cup {s} /\ down' = 0
  /\ UNCHANGED <<volatile, asking, monitorVars>>

Resume(s) ==
  /\ s \in halted
  /\ halted' = halted \ {s} /\ down' = 0
  /\ UNCHANGED <<volatile, asking, monitorVars>>

\* An observation too old for every gate is as good as none.
Unseen == [seen |-> FALSE, age |-> 0, halted |-> FALSE]
Older(n, most) == IF n < most THEN n + 1 ELSE most

Tick ==
  /\ \A r \in Runners : asking[r] # None => asking[r].age < Latency
  /\ asking' = [r \in Runners |->
                  IF asking[r] = None THEN None ELSE [asking[r] EXCEPT !.age = @ + 1]]
  /\ obs' = [s \in Symbols |->
               IF obs[s].seen /\ obs[s].age < ObserveTtl + Latency
               THEN [obs[s] EXCEPT !.age = @ + 1] ELSE Unseen]
  /\ cool' = IF state = "cooldown" THEN Older(cool, OldCool) ELSE cool
  /\ verdict' = Older(verdict, OldCool)
  /\ down' = IF halted = Symbols THEN Older(down, Lasting) ELSE 0
  /\ UNCHANGED <<halted, volatile, state>>

(***************************************************************************)
(* The specification                                                       *)
(***************************************************************************)
HaltInit ==
  /\ halted = {} /\ volatile \in Stoppable /\ down = 0
  /\ asking = [r \in Runners |-> None]
  /\ obs = [s \in Symbols |-> Unseen]
  /\ state = "normal" /\ cool = 0 /\ verdict = OldCool

Gate(r) == Answer(r) \/ QuoteFails(r) \/ \E s \in Symbols : Ask(r, s)

HaltNext ==
  \/ \E r \in Runners : Gate(r)
  \/ \E s \in Symbols : Stop(s) \/ Resume(s)
  \/ Tick

HaltSpec == HaltInit /\ [][HaltNext]_haltVars

\* Runners with something to order keep asking, every request ends, the clock goes on.
HaltFairSpec == HaltSpec /\ WF_haltVars(Tick) /\ \A r \in Runners : WF_haltVars(Gate(r))

(***************************************************************************)
(* Properties                                                              *)
(***************************************************************************)
\* Types of the variables.
TypeOK ==
  /\ halted \subseteq volatile /\ volatile \in Stoppable
  /\ asking \in [Runners -> {None} \cup [age : 0 .. Latency, symbol : Symbols]]
  /\ obs \in [Symbols -> [seen : BOOLEAN, age : 0 .. ObserveTtl + Latency, halted : BOOLEAN]]
  /\ state \in {"normal", "halted", "cooldown"}
  /\ cool \in 0 .. OldCool /\ verdict \in 0 .. OldCool /\ down \in 0 .. Lasting

\* Orders go out again only after the cooldown, counted from the last verdict, but for the
\* time a quote may take: the cooldown starts at the time a slow gate noted.
RestsAfterHalt == state = "normal" => verdict >= CooldownSec - Latency

\* The halt of too few symbols is never taken for one of the market: it takes so many
\* that MinSample symbols reach the ratio.  A circuit breaker that lasts is seen once
\* MinSample symbols have been asked about.
MarketIsJudged ==
  /\ Cardinality(volatile) * 100 < CbRatio * MinSample => state = "normal"
  /\ down = Lasting /\ Cardinality(Fresh(obs, 0)) >= MinSample => state = "halted"

\* When the exchange has resumed everything for good, trading comes back for good.
Reopens == <>[](halted = {}) => <>[](state = "normal")
=============================================================================
