-------------------------- MODULE SupervisionProofs --------------------------
(***************************************************************************)
(* What watches over the strategies, for any number of strategies, runners *)
(* and symbols and any settings: the monitor of market halts never lets    *)
(* orders out before the cooldown is over and judges the market right; the *)
(* active set covers what trades, and no shares are left behind by the     *)
(* deletion of a strategy whose user waits for what is under way.          *)
(***************************************************************************)
EXTENDS MarketHalt, EngineControl, FiniteSetTheorems, TLAPS

(***************************************************************************)
(* MarketHalt                                                              *)
(***************************************************************************)
\* While it rests, the time since the last verdict is at least the time since the
\* cooldown began, but for a slow gate.
RestInv == state = "cooldown" => verdict >= cool - Latency

HaltInv == TypeOK /\ RestInv /\ RestsAfterHalt

\* The initial states satisfy the invariant.
LEMMA InitHaltInv == HaltInit => HaltInv
BY HaltAssumption DEF HaltInit, HaltInv, TypeOK, RestInv, RestsAfterHalt, Unseen, None, OldCool, Lasting

\* A judgement by a clock that is a <= Latency steps slow keeps the monitor's part.
LEMMA EvaluateHaltInv ==
  ASSUME HaltInv, NEW o \in [Symbols -> [seen : BOOLEAN, age : 0 .. ObserveTtl + Latency, halted : BOOLEAN]],
         NEW a \in 0 .. Latency, Evaluate(o, a)
  PROVE  /\ obs' = o
         /\ state' \in {"normal", "halted", "cooldown"}
         /\ cool' \in 0 .. OldCool /\ verdict' \in 0 .. OldCool
         /\ RestInv' /\ RestsAfterHalt'
<1>. USE HaltAssumption DEF HaltInv, TypeOK, RestInv, RestsAfterHalt, OldCool
<1>1. CASE CbNow(o, a) /\ state' = "halted" /\ cool' = 0 /\ verdict' = 0 /\ obs' = o
  BY <1>1
<1>2. CASE state = "halted" /\ state' = "cooldown" /\ cool' = a /\ verdict' = verdict /\ obs' = o
  BY <1>2
<1>3. CASE state = "cooldown" /\ cool - a >= CooldownSec /\ state' = "normal" /\ cool' = 0
           /\ verdict' = verdict /\ obs' = o
  BY <1>3
<1>4. CASE UNCHANGED <<state, cool, verdict>> /\ obs' = o
  BY <1>4
<1>. QED BY <1>1, <1>2, <1>3, <1>4 DEF Evaluate

\* Every step preserves the invariant.
LEMMA StepHaltInv == HaltInv /\ [HaltNext]_haltVars => HaltInv'
<1>. SUFFICES ASSUME HaltInv, [HaltNext]_haltVars PROVE HaltInv'
  OBVIOUS
<1>. USE HaltAssumption
<1>asking. ASSUME NEW r \in Runners, asking[r] # None
           PROVE  asking[r] \in [age : 0 .. Latency, symbol : Symbols]
  BY <1>asking DEF HaltInv, TypeOK
<1>1. ASSUME NEW r \in Runners, NEW s \in Symbols, Ask(r, s) PROVE HaltInv'
  BY <1>1 DEF HaltInv, TypeOK, RestInv, RestsAfterHalt, Ask, marketVars, monitorVars
<1>2. ASSUME NEW r \in Runners, Answer(r) PROVE HaltInv'
  <2>1. /\ asking[r].age \in 0 .. Latency
        /\ asking[r].symbol \in Symbols
    BY <1>2, <1>asking DEF Answer
  <2>2. Observed(asking[r].symbol, asking[r].age)
          \in [Symbols -> [seen : BOOLEAN, age : 0 .. ObserveTtl + Latency, halted : BOOLEAN]]
    BY <2>1 DEF Observed, HaltInv, TypeOK
  <2>3. asking' \in [Runners -> {None} \cup [age : 0 .. Latency, symbol : Symbols]]
    BY <1>2 DEF Answer, HaltInv, TypeOK
  <2>4. /\ state' \in {"normal", "halted", "cooldown"}
        /\ cool' \in 0 .. OldCool /\ verdict' \in 0 .. OldCool
        /\ obs' = Observed(asking[r].symbol, asking[r].age)
        /\ RestInv' /\ RestsAfterHalt'
    BY <1>2, <2>1, <2>2, EvaluateHaltInv DEF Answer
  <2>. QED BY <1>2, <2>2, <2>3, <2>4 DEF Answer, marketVars, HaltInv, TypeOK
<1>3. ASSUME NEW r \in Runners, QuoteFails(r) PROVE HaltInv'
  <2>1. asking[r].age \in 0 .. Latency
    BY <1>3, <1>asking DEF QuoteFails
  <2>2. asking' \in [Runners -> {None} \cup [age : 0 .. Latency, symbol : Symbols]]
    BY <1>3 DEF QuoteFails, HaltInv, TypeOK
  <2>3. /\ state' \in {"normal", "halted", "cooldown"}
        /\ cool' \in 0 .. OldCool /\ verdict' \in 0 .. OldCool
        /\ obs' = obs /\ RestInv' /\ RestsAfterHalt'
    BY <1>3, <2>1, EvaluateHaltInv DEF QuoteFails, HaltInv, TypeOK
  <2>. QED BY <1>3, <2>2, <2>3 DEF QuoteFails, marketVars, HaltInv, TypeOK
<1>4. ASSUME NEW s \in Symbols, Stop(s) \/ Resume(s) PROVE HaltInv'
  BY <1>4 DEF HaltInv, TypeOK, RestInv, RestsAfterHalt, Stop, Resume, monitorVars, Lasting
<1>5. ASSUME Tick PROVE HaltInv'
  <2>1. asking' \in [Runners -> {None} \cup [age : 0 .. Latency, symbol : Symbols]]
    <3>1. ASSUME NEW r \in Runners, asking[r] # None
          PROVE  [asking[r] EXCEPT !.age = @ + 1] \in [age : 0 .. Latency, symbol : Symbols]
      BY <1>5, <1>asking, <3>1 DEF Tick
    <3>. QED BY <1>5, <3>1 DEF Tick
  <2>2. obs' \in [Symbols -> [seen : BOOLEAN, age : 0 .. ObserveTtl + Latency, halted : BOOLEAN]]
    <3>1. ASSUME NEW s \in Symbols, obs[s].age < ObserveTtl + Latency
          PROVE  [obs[s] EXCEPT !.age = @ + 1]
                   \in [seen : BOOLEAN, age : 0 .. ObserveTtl + Latency, halted : BOOLEAN]
      BY <3>1 DEF HaltInv, TypeOK
    <3>2. Unseen \in [seen : BOOLEAN, age : 0 .. ObserveTtl + Latency, halted : BOOLEAN]
      BY DEF Unseen
    <3>. QED BY <1>5, <3>1, <3>2 DEF Tick
  <2>3. /\ state' = state /\ halted' = halted /\ volatile' = volatile
        /\ cool' \in 0 .. OldCool /\ verdict' \in 0 .. OldCool /\ down' \in 0 .. Lasting
    BY <1>5 DEF Tick, Older, OldCool, Lasting, HaltInv, TypeOK
  <2>4. RestInv' /\ RestsAfterHalt'
    BY <1>5 DEF Tick, Older, OldCool, HaltInv, TypeOK, RestInv, RestsAfterHalt
  <2>. QED BY <2>1, <2>2, <2>3, <2>4 DEF HaltInv, TypeOK
<1>6. CASE UNCHANGED haltVars
  BY <1>6 DEF HaltInv, TypeOK, RestInv, RestsAfterHalt, haltVars, marketVars, monitorVars
<1>. QED BY <1>1, <1>2, <1>3, <1>4, <1>5, <1>6 DEF HaltNext, Gate

\* The types of MarketHalt's variables, for every value of its constants.
THEOREM HaltTypeCorrect == HaltSpec => []TypeOK
<1>1. HaltInv => TypeOK
  BY DEF HaltInv
<1>. QED BY InitHaltInv, StepHaltInv, <1>1, PTL DEF HaltSpec

\* Orders go out again only after the cooldown (halt.py, the state machine of the
\* docstring), but for the time that one quote may take, whatever the runners do.
THEOREM Rests == HaltSpec => []RestsAfterHalt
<1>1. HaltInv => RestsAfterHalt
  BY DEF HaltInv
<1>. QED BY InitHaltInv, StepHaltInv, <1>1, PTL DEF HaltSpec

(***************************************************************************)
(* The verdicts                                                            *)
(***************************************************************************)
\* Since Old all that is seen was seen after the exchange had stopped everything; what
\* was seen since then has been judged, and those judgements stand.
Old == ObserveTtl + Latency + 1
Since(o) == {s \in Symbols : o[s].seen /\ o[s].age <= down - Old}
Genuine == \A s \in Symbols : obs[s].seen /\ obs[s].halted => s \in volatile
Few == Cardinality(volatile) * 100 < CbRatio * MinSample
JudgeInv ==
  /\ Genuine
  /\ Few => state = "normal"
  /\ down > 0 => halted = Symbols
  /\ \A s \in Symbols : obs[s].seen /\ ~obs[s].halted => obs[s].age >= down
  /\ down >= Old /\ Cardinality(Since(obs)) >= MinSample => state = "halted"

Observations == [Symbols -> [seen : BOOLEAN, age : 0 .. ObserveTtl + Latency, halted : BOOLEAN]]

\* Sets of symbols and their sizes.
LEMMA Sizes ==
  ASSUME NEW S \in SUBSET Symbols, NEW T \in SUBSET S
  PROVE  /\ IsFiniteSet(S) /\ Cardinality(S) \in Nat /\ Cardinality(T) \in Nat
         /\ Cardinality(T) <= Cardinality(S)
BY HaltAssumption, FS_Subset, FS_CardinalityType

\* Twice as many symbols reach twice the share.
LEMMA Shares == \A m, n, r \in Nat : m <= n => r * m <= r * n
OBVIOUS

\* So few volatile symbols never reach the ratio of MinSample others.
LEMMA FewStop ==
  ASSUME NEW o \in Observations, NEW a \in 0 .. Latency, volatile \subseteq Symbols, Few,
         \A s \in Symbols : o[s].seen /\ o[s].halted => s \in volatile
  PROVE  ~CbNow(o, a)
<1>1. Stopped(o, a) \subseteq volatile /\ Fresh(o, a) \subseteq Symbols
  BY DEF Stopped, Fresh
<1>2. /\ Cardinality(Stopped(o, a)) \in Nat /\ Cardinality(volatile) \in Nat
      /\ Cardinality(Fresh(o, a)) \in Nat
      /\ Cardinality(Stopped(o, a)) <= Cardinality(volatile)
  BY <1>1, Sizes
<1>3. Cardinality(Fresh(o, a)) >= MinSample => CbRatio * MinSample <= CbRatio * Cardinality(Fresh(o, a))
  BY <1>2, Shares, HaltAssumption
<1>4. CbRatio * MinSample \in Nat /\ CbRatio * Cardinality(Fresh(o, a)) \in Nat
  BY <1>2, HaltAssumption
<1>. QED BY <1>2, <1>3, <1>4 DEF CbNow, Few

\* When all that is seen stands still, and it is enough, the market counts as halted.
LEMMA AllStop ==
  ASSUME NEW o \in Observations, NEW a \in 0 .. Latency,
         \A s \in Symbols : o[s].seen => o[s].halted,
         NEW S \in SUBSET Fresh(o, a), Cardinality(S) >= MinSample
  PROVE  CbNow(o, a)
<1>1. Fresh(o, a) \subseteq Symbols /\ Stopped(o, a) = Fresh(o, a)
  BY DEF Fresh, Stopped
<1>2. /\ Cardinality(Fresh(o, a)) \in Nat /\ Cardinality(S) \in Nat
      /\ Cardinality(S) <= Cardinality(Fresh(o, a))
  BY <1>1, Sizes
<1>3. CbRatio * Cardinality(Fresh(o, a)) <= Cardinality(Fresh(o, a)) * 100
  <2>1. \A n \in Nat : CbRatio * n <= n * 100
    BY HaltAssumption
  <2>. QED BY <2>1, <1>2
<1>4. Cardinality(Fresh(o, a)) >= MinSample
  BY <1>2, HaltAssumption
<1>. QED BY <1>1, <1>3, <1>4 DEF CbNow

\* What a quote leaves behind.
LEMMA QuoteTells ==
  ASSUME NEW q, NEW age, NEW s, q = [seen |-> TRUE, age |-> age, halted |-> s \in halted]
  PROVE  q.age = age /\ (q.halted <=> s \in halted)
<1>1. CASE s \in halted
  <2>1. (s \in halted) = TRUE
    BY <1>1
  <2>2. q = [seen |-> TRUE, age |-> age, halted |-> TRUE]
    BY <2>1
  <2>. QED BY <2>2, <1>1
<1>2. CASE s \notin halted
  <2>1. (s \in halted) = FALSE
    BY <1>2
  <2>2. q = [seen |-> TRUE, age |-> age, halted |-> FALSE]
    BY <2>1
  <2>. QED BY <2>2, <1>2
<1>. QED BY <1>1, <1>2

\* A gate judges what it has seen, and a quote of its own it adds to that.
LEMMA GateJudges ==
  ASSUME TypeOK, JudgeInv, NEW o \in Observations, NEW a \in 0 .. Latency, Evaluate(o, a),
         UNCHANGED marketVars,
         \A s \in Symbols : o[s] = obs[s] \/ o[s] = [seen |-> TRUE, age |-> a, halted |-> s \in halted]
  PROVE  JudgeInv'
<1>. USE HaltAssumption DEF marketVars
<1>1. obs' = o /\ volatile \subseteq Symbols /\ halted \subseteq volatile
  BY DEF Evaluate, TypeOK
<1>2. \A s \in Symbols : o[s].seen /\ o[s].halted => s \in volatile
  <2>. SUFFICES ASSUME NEW s \in Symbols, o[s].seen, o[s].halted PROVE s \in volatile
    OBVIOUS
  <2>1. CASE o[s] = obs[s]
    BY <2>1 DEF JudgeInv, Genuine
  <2>2. CASE o[s] = [seen |-> TRUE, age |-> a, halted |-> s \in halted]
    BY <2>2, <1>1, QuoteTells
  <2>. QED BY <2>1, <2>2
<1>3. \A s \in Symbols : o[s].seen /\ ~o[s].halted => o[s].age >= down
  <2>. SUFFICES ASSUME NEW s \in Symbols, o[s].seen, ~o[s].halted PROVE o[s].age >= down
    OBVIOUS
  <2>1. CASE o[s] = obs[s]
    BY <2>1 DEF JudgeInv
  <2>2. CASE o[s] = [seen |-> TRUE, age |-> a, halted |-> s \in halted]
    <3>1. s \notin halted /\ o[s].age = a
      BY <2>2, QuoteTells
    <3>2. down = 0
      BY <3>1 DEF JudgeInv, TypeOK
    <3>. QED BY <3>1, <3>2
  <2>. QED BY <2>1, <2>2
<1>4. Few => state = "normal" /\ state' = "normal"
  <2>1. Few => ~CbNow(o, a)
    BY <1>1, <1>2, FewStop
  <2>. QED BY <2>1 DEF Evaluate, JudgeInv
<1>5. ASSUME down >= Old, Cardinality(Since(o)) >= MinSample PROVE state' = "halted"
  <2>1. Since(o) \subseteq Fresh(o, a)
    BY DEF Since, Fresh, TypeOK, Lasting, Old, Observations
  <2>2. \A s \in Symbols : o[s].seen => o[s].halted
    BY <1>5, <1>3 DEF Old, TypeOK, Lasting, Observations
  <2>3. CbNow(o, a)
    BY <2>1, <2>2, <1>5, AllStop
  <2>. QED BY <2>3 DEF Evaluate
<1>6. UNCHANGED <<volatile, down, halted>> /\ Few' = Few /\ Since(obs)' = Since(o)
  BY <1>1 DEF Few, Since
<1>. QED BY <1>1, <1>2, <1>3, <1>4, <1>5, <1>6 DEF JudgeInv, Genuine

\* A tick ages what was seen and the stop alike.
LEMMA TickJudges == ASSUME TypeOK, JudgeInv, Tick PROVE JudgeInv'
<1>. USE HaltAssumption
<1>types. obs \in Observations /\ down \in 0 .. Lasting /\ ObserveTtl + Latency \in Nat
  BY DEF TypeOK, Observations
<1>1. /\ UNCHANGED <<halted, volatile, state>>
      /\ down' = IF halted = Symbols THEN Older(down, Lasting) ELSE 0
  BY DEF Tick
<1>2. \A s \in Symbols :
        obs'[s].seen => /\ obs[s].seen /\ obs'[s].halted = obs[s].halted
                        /\ obs'[s].age = obs[s].age + 1
  <2>. SUFFICES ASSUME NEW s \in Symbols, obs'[s].seen
                PROVE  /\ obs[s].seen /\ obs'[s].halted = obs[s].halted
                       /\ obs'[s].age = obs[s].age + 1
    OBVIOUS
  <2>1. obs'[s] = IF obs[s].seen /\ obs[s].age < ObserveTtl + Latency
                  THEN [obs[s] EXCEPT !.age = @ + 1] ELSE Unseen
    BY DEF Tick
  <2>2. obs[s] \in [seen : BOOLEAN, age : 0 .. ObserveTtl + Latency, halted : BOOLEAN]
    BY <1>types DEF Observations
  <2>3. CASE obs[s].seen /\ obs[s].age < ObserveTtl + Latency
    <3>1. obs'[s] = [obs[s] EXCEPT !.age = @ + 1]
      BY <2>1, <2>3
    <3>. QED BY <3>1, <2>2, <2>3
  <2>4. CASE ~(obs[s].seen /\ obs[s].age < ObserveTtl + Latency)
    <3>1. obs'[s] = Unseen
      BY <2>1, <2>4
    <3>. QED BY <3>1 DEF Unseen
  <2>. QED BY <2>3, <2>4
<1>3. down' <= down + 1 /\ (down' > 0 => halted' = Symbols) /\ down' \in Nat
  BY <1>1, <1>types DEF Older, Lasting
<1>4. \A s \in Symbols : obs'[s].seen /\ ~obs'[s].halted => obs'[s].age >= down'
  BY <1>2, <1>3, <1>types DEF JudgeInv, Observations
<1>5. ASSUME down' >= Old, Cardinality(Since(obs)') >= MinSample PROVE state' = "halted"
  <2>1. Since(obs)' \subseteq Since(obs)
    BY <1>2, <1>3, <1>types DEF Since, Old, Observations
  <2>2. Cardinality(Since(obs)') <= Cardinality(Since(obs)) /\ Cardinality(Since(obs)) \in Nat
        /\ Cardinality(Since(obs)') \in Nat
    <3>1. Since(obs) \subseteq Symbols
      BY DEF Since
    <3>. QED BY <2>1, <3>1, Sizes
  <2>3. down < Old => Since(obs) = {}
    BY <1>types DEF Since, Old, Observations
  <2>4. Since(obs) = {} => Cardinality(Since(obs)) = 0
    BY FS_EmptySet
  <2>5. Cardinality(Since(obs)) > 0
    BY <2>2, <1>5
  <2>6. down \in Nat /\ Old \in Nat
    BY <1>types DEF Old
  <2>7. down >= Old
    BY <2>3, <2>4, <2>5, <2>6
  <2>. QED BY <2>2, <2>7, <1>5, <1>1 DEF JudgeInv
<1>6. Genuine' /\ (Few' => state' = "normal")
  BY <1>1, <1>2 DEF JudgeInv, Genuine, Few
<1>. QED BY <1>3, <1>4, <1>5, <1>6 DEF JudgeInv, Old

\* Every step keeps the verdicts right.
LEMMA StepJudges == ASSUME HaltInv, JudgeInv, [HaltNext]_haltVars PROVE JudgeInv'
<1>. USE HaltAssumption
<1>1. ASSUME NEW r \in Runners, NEW s \in Symbols, Ask(r, s) PROVE JudgeInv'
  BY <1>1 DEF Ask, marketVars, monitorVars, JudgeInv, Genuine, Few, Since
<1>asking. ASSUME NEW r \in Runners, asking[r] # None
           PROVE  asking[r].age \in 0 .. Latency /\ asking[r].symbol \in Symbols
  BY <1>asking DEF HaltInv, TypeOK
<1>obs. obs \in Observations
  BY DEF HaltInv, TypeOK, Observations
<1>2. ASSUME NEW r \in Runners, Answer(r) PROVE JudgeInv'
  <2>. DEFINE a == asking[r].age
              o == Observed(asking[r].symbol, a)
  <2>1. a \in 0 .. Latency /\ asking[r].symbol \in Symbols
    BY <1>2, <1>asking DEF Answer
  <2>2. o \in Observations
    BY <2>1, <1>obs DEF Observed, Observations
  <2>3. \A s \in Symbols : o[s] = obs[s] \/ o[s] = [seen |-> TRUE, age |-> a, halted |-> s \in halted]
    BY <2>1, <1>obs DEF Observed, Observations
  <2>4. Evaluate(o, a) /\ UNCHANGED marketVars
    BY <1>2 DEF Answer
  <2>. HIDE DEF o, a
  <2>. QED BY <2>1, <2>2, <2>3, <2>4, GateJudges DEF HaltInv
<1>3. ASSUME NEW r \in Runners, QuoteFails(r) PROVE JudgeInv'
  <2>1. asking[r].age \in 0 .. Latency /\ Evaluate(obs, asking[r].age) /\ UNCHANGED marketVars
    BY <1>3, <1>asking DEF QuoteFails
  <2>. QED BY <2>1, <1>obs, GateJudges DEF HaltInv
<1>4. ASSUME NEW s \in Symbols, Stop(s) \/ Resume(s) PROVE JudgeInv'
  BY <1>4, <1>obs DEF Stop, Resume, monitorVars, JudgeInv, Genuine, Few, Since, Old, Observations
<1>5. CASE Tick
  BY <1>5, TickJudges DEF HaltInv
<1>6. CASE UNCHANGED haltVars
  BY <1>6 DEF haltVars, marketVars, monitorVars, JudgeInv, Genuine, Few, Since
<1>. QED BY <1>1, <1>2, <1>3, <1>4, <1>5, <1>6 DEF HaltNext, Gate

\* A few halted symbols are never taken for the market, and a circuit breaker that lasts
\* is seen once enough symbols have been asked about, for any number of symbols and
\* runners and however late their quotes come (halt.py, halted_ratio and evaluate).
THEOREM Judged == HaltSpec => []MarketIsJudged
<1>1. HaltInit => JudgeInv
  BY HaltAssumption DEF HaltInit, JudgeInv, Genuine, Few, Unseen, Old
<1>2. HaltInv /\ JudgeInv => MarketIsJudged
  <2>. SUFFICES ASSUME HaltInv, JudgeInv, down = Lasting, Cardinality(Fresh(obs, 0)) >= MinSample
                PROVE  state = "halted"
    BY DEF JudgeInv, MarketIsJudged, Few
  <2>1. Fresh(obs, 0) = Since(obs) /\ down >= Old
    BY HaltAssumption DEF Fresh, Since, Lasting, Old, HaltInv, TypeOK
  <2>. QED BY <2>1 DEF JudgeInv
<1>. QED BY InitHaltInv, StepHaltInv, StepJudges, <1>1, <1>2, PTL DEF HaltSpec

(***************************************************************************)
(* EngineControl                                                           *)
(***************************************************************************)

(***************************************************************************)
(* The channel                                                             *)
(***************************************************************************)
\* Taking a command leaves no strategy in the channel that was not there.
LEMMA ChannelTail ==
  ASSUME channel \in Seq(Commands), channel # <<>>
  PROVE  /\ Head(channel) \in Commands /\ Tail(channel) \in Seq(Commands)
         /\ InChannel(Head(channel)[2])
         /\ \A i \in 1 .. Len(Tail(channel)) : InChannel(Tail(channel)[i][2])
<1>1. /\ Head(channel) \in Commands /\ Tail(channel) \in Seq(Commands)
      /\ Len(channel) \in Nat \ {0} /\ channel[1] = Head(channel)
  OBVIOUS
<1>2. \A i \in 1 .. Len(Tail(channel)) :
        i + 1 \in 1 .. Len(channel) /\ Tail(channel)[i] = channel[i + 1]
  OBVIOUS
<1>. QED BY <1>1, <1>2 DEF InChannel

\* Publishing one adds that one.
LEMMA ChannelAppend ==
  ASSUME channel \in Seq(Commands), NEW x \in Commands
  PROVE  /\ Append(channel, x) \in Seq(Commands)
         /\ \A i \in 1 .. Len(Append(channel, x)) :
              Append(channel, x)[i] = x \/ InChannel(Append(channel, x)[i][2])
<1>1. \A i \in 1 .. Len(Append(channel, x)) :
        Append(channel, x)[i] = x \/ (i \in 1 .. Len(channel) /\ Append(channel, x)[i] = channel[i])
  OBVIOUS
<1>. QED BY <1>1 DEF InChannel

\* A command, as the step of a handler, is one of its steps.
LEMMA CommandsAreSteps ==
  /\ Commands \subseteq Steps
  /\ \A s \in Strategies, k \in {"start", "create", "sadd", "stop", "wait", "srem"} : <<k, s>> \in Steps
BY DEF Commands, Steps

\* A handler with a step is not idle.
LEMMA Busy == \A k, s : <<k, s>> # Idle
BY DEF Idle

\* The strategy of a step is the one that is handled.
LEMMA BusyHandles == \A a \in Actors : \A k, s : handler[a] = <<k, s>> => Handled(s)
<1>1. \A k, s : <<k, s>>[2] = s
  OBVIOUS
<1>. QED BY <1>1, Busy DEF Handled

(***************************************************************************)
(* Types                                                                   *)
(***************************************************************************)
\* The initial states have the types.
LEMMA InitTypes == Init => ControlTypes
<1>. SUFFICES ASSUME Init PROVE ControlTypes
  OBVIOUS
<1>. USE DEF Init
<1>1. row \in [Strategies -> {"idle", "live", "deleted"}]
  OBVIOUS
<1>2. channel \in Seq(Commands)
  OBVIOUS
<1>2b. listening \in BOOLEAN
  OBVIOUS
<1>3. handler \in [Actors -> Steps \cup {Idle}]
  OBVIOUS
<1>4. popped \in [Actors -> BOOLEAN] /\ missed \in [Strategies -> BOOLEAN]
  OBVIOUS
<1>5. able \in [Strategies -> {"yes", "gated", "unloadable"}] /\ {commands, stops, drops} \subseteq Nat
  OBVIOUS
<1>. QED BY <1>1, <1>2, <1>2b, <1>3, <1>4, <1>5 DEF ControlTypes

\* Each part of the system keeps the types.
LEMMA WebTypes == ASSUME ControlTypes, NEW s \in Strategies, Web(s) PROVE ControlTypes'
<1>. USE DEF ControlTypes, webVars, busVars, runVars, tradeVars, boundVars
<1>1. CASE WebStart(s) \/ WebStop(s)
  BY <1>1 DEF WebStart, WebStop, Request
<1>2. CASE Publish(s)
  <2>1. channel' \in Seq(Commands)
    <3>1. <<req[s], s>> \in Commands
      BY <1>2 DEF Publish, Commands
    <3>. QED BY <3>1, <1>2, ChannelAppend DEF Publish
  <2>. QED BY <2>1, <1>2 DEF Publish
<1>4. CASE PublishFails(s)
  BY <1>4 DEF PublishFails
<1>3. CASE Delete(s)
  BY <1>3 DEF Delete, DeleteBegins, DeleteChecksActive, DeleteChecksPosition, DeleteCommits
<1>. QED BY <1>1, <1>2, <1>3, <1>4 DEF Web

\* The runner of a strategy keeps the types.
LEMMA RunnerTypes == ASSUME ControlTypes, NEW s \in Strategies, Runner(s) PROVE ControlTypes'
<1>. USE DEF ControlTypes, webVars, busVars, runVars, tradeVars, boundVars
<1>1. CASE Load(s)
  BY <1>1 DEF Load
<1>2. CASE TickOrders(s)
  BY <1>2 DEF TickOrders
<1>3. CASE FillBooked(s)
  BY <1>3 DEF FillBooked
<1>. QED BY <1>1, <1>2, <1>3 DEF Runner

\* So do the handlers of the engine.
LEMMA HandlerTypes ==
  ASSUME ControlTypes, NEW a \in Actors, NEW s \in Strategies, Handle(a, s) PROVE ControlTypes'
<1>. USE DEF ControlTypes, webVars, busVars, runVars, tradeVars, boundVars
<1>1. CASE BeginStart(a, s)
  BY <1>1, CommandsAreSteps DEF BeginStart
<1>2. CASE CreateTask(a, s)
  BY <1>2, CommandsAreSteps DEF CreateTask
<1>3. CASE AddActive(a, s)
  <2>1. active' \subseteq Strategies
    BY <1>3 DEF AddActive
  <2>2. handler' \in [Actors -> Steps \cup {Idle}]
    BY <1>3 DEF AddActive
  <2>3. UNCHANGED <<webVars, busVars, engine, todo, task, popped, stray, tradeVars, able, missed, boundVars>>
    BY <1>3 DEF AddActive
  <2>. QED BY <2>1, <2>2, <2>3
<1>4. CASE BeginStop(a, s)
  BY <1>4, CommandsAreSteps DEF BeginStop
<1>5. CASE TaskEnds(a, s)
  BY <1>5, CommandsAreSteps DEF TaskEnds
<1>6. CASE RemoveActive(a, s)
  BY <1>6, CommandsAreSteps DEF RemoveActive
<1>. QED BY <1>1, <1>2, <1>3, <1>4, <1>5, <1>6 DEF Handle

\* So do the handlers that fail.
LEMMA FailureTypes == ASSUME ControlTypes, NEW s \in Strategies, Fails(s) PROVE ControlTypes'
<1>. USE DEF ControlTypes, webVars, busVars, runVars, tradeVars, boundVars
<1>1. ASSUME NEW a \in Actors, GateFails(a, s) PROVE ControlTypes'
  BY <1>1 DEF GateFails
<1>2. CASE HandlerFails(s)
  <2>1. channel' \in Seq(Commands)
    BY <1>2 DEF HandlerFails
  <2>1b. listening' \in BOOLEAN
    BY <1>2 DEF HandlerFails
  <2>2. missed' \in [Strategies -> BOOLEAN]
    BY <1>2 DEF HandlerFails
  <2>3. handler' \in [Actors -> Steps \cup {Idle}] /\ stray' \subseteq Strategies
    BY <1>2 DEF HandlerFails
  <2>4. {commands', stops', drops'} \subseteq Nat
    BY <1>2 DEF HandlerFails
  <2>5. UNCHANGED <<webVars, engine, todo, task, popped, active, tradeVars, able>>
    BY <1>2 DEF HandlerFails
  <2>. QED BY <2>1, <2>1b, <2>2, <2>3, <2>4, <2>5
<1>. QED BY <1>1, <1>2 DEF Fails

\* So do the engine, its crashes and its lost subscription.
LEMMA EngineTypes ==
  ASSUME ControlTypes, Main \/ Control \/ Shutdown \/ Crash \/ LoseSubscription PROVE ControlTypes'
<1>. USE DEF ControlTypes, webVars, busVars, runVars, tradeVars, boundVars
<1>1. CASE Boot
  BY <1>1 DEF Boot, Recovered, LiveInDb
<1>2. CASE RecoverNext \/ CloseNext
  <2>1. PICK s \in todo, k \in {"start", "stop"} :
          /\ todo' = todo \ {s} /\ handler' = [handler EXCEPT !["main"] = <<k, s>>]
          /\ UNCHANGED <<webVars, busVars, engine, runVars, tradeVars, able, missed, boundVars>>
    BY <1>2 DEF RecoverNext, CloseNext
  <2>. QED BY <2>1, CommandsAreSteps
<1>3. CASE RecoverEnds
  BY <1>3 DEF RecoverEnds
<1>4. CASE Shutdown
  BY <1>4 DEF Shutdown
<1>5. CASE Exit \/ Crash
  <2>1. Gone /\ stops' \in Nat
    BY <1>5 DEF Exit, Crash
  <2>2. channel' \in Seq(Commands)
    BY <2>1 DEF Gone
  <2>. QED BY <2>1, <2>2 DEF Gone
<1>6. CASE Subscribe
  BY <1>6 DEF Subscribe
<1>7. CASE LoseSubscription
  <2>1. channel' \in Seq(Commands)
    BY <1>7 DEF LoseSubscription
  <2>2. missed' \in [Strategies -> BOOLEAN]
    BY <1>7 DEF LoseSubscription
  <2>3. UNCHANGED <<webVars, engine, todo, handler, runVars, tradeVars, able, commands, stops>>
    BY <1>7 DEF LoseSubscription
  <2>4. listening' \in BOOLEAN
    BY <1>7 DEF LoseSubscription
  <2>5. {commands', stops', drops'} \subseteq Nat
    BY <1>7 DEF LoseSubscription
  <2>. QED BY <2>1, <2>2, <2>3, <2>4, <2>5
<1>8. CASE TakeCommand
  <2>1. Head(channel) \in Steps /\ Tail(channel) \in Seq(Commands)
    BY <1>8, ChannelTail, CommandsAreSteps DEF TakeCommand
  <2>. QED BY <2>1, <1>8 DEF TakeCommand
<1>9. CASE TakeLast
  <2>1. channel # <<>> => Head(channel) \in Steps
    BY ChannelTail, CommandsAreSteps
  <2>2. handler' \in [Actors -> Steps \cup {Idle}]
    BY <2>1, <1>9 DEF TakeLast
  <2>3. channel' \in Seq(Commands)
    BY <1>9 DEF TakeLast
  <2>4. listening' \in BOOLEAN /\ missed' \in [Strategies -> BOOLEAN]
    BY <1>9 DEF TakeLast
  <2>5. UNCHANGED <<webVars, engine, todo, runVars, tradeVars, able, boundVars>>
    BY <1>9 DEF TakeLast
  <2>. QED BY <2>2, <2>3, <2>4, <2>5
<1>. QED BY <1>1, <1>2, <1>3, <1>4, <1>5, <1>6, <1>7, <1>8, <1>9 DEF Main, Control

\* The types are inductive.
LEMMA NextTypes == ControlTypes /\ [Next]_vars => ControlTypes'
<1>1. ControlTypes /\ UNCHANGED vars => ControlTypes'
  BY DEF ControlTypes, vars, webVars, busVars, runVars, tradeVars, boundVars
<1>. QED BY <1>1, WebTypes, RunnerTypes, HandlerTypes, FailureTypes, EngineTypes DEF Next

\* Every variable keeps its type.
THEOREM TypeCorrect == Spec => []ControlTypes
BY InitTypes, NextTypes, PTL DEF Spec

(***************************************************************************)
(* The active set covers what trades                                       *)
(***************************************************************************)
\* Who works when: until the engine closes, main and the control loop take turns.
TurnsInv ==
  engine # "closing" =>
    /\ handler["main"] # Idle => engine = "recover"
    /\ handler["control"] # Idle => engine = "control"
    /\ engine = "down" => \A s \in Strategies : task[s] = "none"

\* A strategy with a task is in the active set, or about to be put there, or astray since
\* that failed; it stays there until the stop has seen the end of its task.
ActiveInv ==
  engine # "closing" => \A s \in Strategies :
    /\ task[s] # "none" => s \in active \cup stray \/ \E a \in Actors : handler[a] = <<"sadd", s>>
    /\ \A a \in Actors : handler[a] = <<"wait", s>> => s \in active \cup stray /\ task[s] = "none"
    /\ \A a \in Actors : handler[a] = <<"srem", s>> => task[s] = "none"
IInv == ControlTypes /\ TurnsInv /\ ActiveInv

\* Nothing trades at the start.
LEMMA InitActive == Init => TurnsInv /\ ActiveInv
<1>1. Init => \A a \in Actors, s \in Strategies, k \in {"sadd", "wait", "srem"} : handler[a] # <<k, s>>
  BY Busy DEF Init
<1>2. Init => TurnsInv
  BY DEF Init, TurnsInv, Actors
<1>. QED BY <1>1, <1>2 DEF Init, ActiveInv

\* What neither starts nor stops a strategy has nothing to do with the active set.
LEMMA ActiveRests ==
  ASSUME IInv, UNCHANGED <<engine, handler, active, stray>>,
         \A s \in Strategies : task'[s] # "none" <=> task[s] # "none"
  PROVE  TurnsInv' /\ ActiveInv'
BY DEF IInv, TurnsInv, ActiveInv

\* While the engine does not close, the actor whose handler takes a step is alone: what
\* the step leaves behind is all there is to know.
LEMMA AloneActive ==
  ASSUME IInv, NEW a \in Actors, handler[a] # Idle, UNCHANGED engine,
         NEW x \in Steps \cup {Idle}, handler' = [handler EXCEPT ![a] = x],
         engine # "closing" => \A s \in Strategies :
           /\ task'[s] # "none" => s \in active' \cup stray' \/ x = <<"sadd", s>>
           /\ x = <<"wait", s>> => s \in active' \cup stray' /\ task'[s] = "none"
           /\ x = <<"srem", s>> => task'[s] = "none"
  PROVE  TurnsInv' /\ ActiveInv'
<1>types. handler \in [Actors -> Steps \cup {Idle}]
  BY DEF IInv, ControlTypes
<1>1. engine # "closing" => /\ engine # "down"
                            /\ \A b \in Actors \ {a} : handler'[b] = Idle
                            /\ handler'["main"] # Idle => engine = "recover"
                            /\ handler'["control"] # Idle => engine = "control"
  BY <1>types DEF IInv, TurnsInv, Actors
<1>2. handler'[a] = x
  BY <1>types
<1>3. \A s \in Strategies, k \in {"sadd", "wait", "srem"} : Idle # <<k, s>>
  BY Busy
<1>4. engine # "closing" =>
        \A b \in Actors, s \in Strategies, k \in {"sadd", "wait", "srem"} : handler'[b] = <<k, s>> => b = a /\ x = <<k, s>>
  BY <1>1, <1>2, <1>3
<1>5. TurnsInv'
  BY <1>1 DEF TurnsInv
<1>6. ActiveInv'
  BY <1>2, <1>4 DEF ActiveInv
<1>. QED BY <1>5, <1>6

\* A handler makes its task before it adds the strategy, and removes the strategy
\* after the task has ended.
LEMMA HandlerActive ==
  ASSUME IInv, NEW a \in Actors, NEW s \in Strategies, Handle(a, s) PROVE TurnsInv' /\ ActiveInv'
<1>. USE DEF webVars, busVars, runVars, tradeVars, boundVars
<1>types. /\ handler \in [Actors -> Steps \cup {Idle}]
          /\ task \in [Strategies -> {"none", "loading", "trading", "ended"}]
  BY DEF IInv, ControlTypes
<1>steps. \A k \in {"start", "create", "sadd", "stop", "wait", "srem"} : <<k, s>> \in Steps /\ <<k, s>> # Idle
  BY Busy, CommandsAreSteps
<1>now. ASSUME handler[a] # Idle, engine # "closing"
        PROVE  \A t \in Strategies :
                 /\ task[t] # "none" => t \in active \cup stray \/ handler[a] = <<"sadd", t>>
                 /\ handler[a] = <<"wait", t>> => t \in active \cup stray /\ task[t] = "none"
                 /\ handler[a] = <<"srem", t>> => task[t] = "none"
  <2>1. \A b \in Actors \ {a} : handler[b] = Idle
    BY <1>now DEF IInv, TurnsInv, Actors
  <2>2. \A b \in Actors, t \in Strategies : handler[b] = <<"sadd", t>> => b = a
    BY <2>1, Busy
  <2>. QED BY <2>2, <1>now DEF IInv, ActiveInv
<1>1. CASE BeginStart(a, s)
  <2>1. PICK x \in {Idle, <<"create", s>>} :
          /\ handler[a] = <<"start", s>> /\ UNCHANGED <<task, active, stray, engine>>
          /\ handler' = [handler EXCEPT ![a] = x]
    BY <1>1 DEF BeginStart
  <2>2. engine # "closing" => \A t \in Strategies :
          /\ task'[t] # "none" => t \in active' \cup stray' \/ x = <<"sadd", t>>
          /\ x = <<"wait", t>> => t \in active' \cup stray' /\ task'[t] = "none"
          /\ x = <<"srem", t>> => task'[t] = "none"
    BY <2>1, <1>types, <1>steps, <1>now, Busy
  <2>. QED BY <2>1, <2>2, <1>steps, AloneActive
<1>2. CASE CreateTask(a, s)
  <2>1. /\ handler[a] = <<"create", s>> /\ UNCHANGED <<active, stray, engine>>
        /\ task' = [task EXCEPT ![s] = "loading"]
        /\ handler' = [handler EXCEPT ![a] = <<"sadd", s>>]
    BY <1>2 DEF CreateTask
  <2>2. engine # "closing" => \A t \in Strategies :
          /\ task'[t] # "none" => t \in active' \cup stray' \/ <<"sadd", s>> = <<"sadd", t>>
          /\ <<"sadd", s>> = <<"wait", t>> => t \in active' \cup stray' /\ task'[t] = "none"
          /\ <<"sadd", s>> = <<"srem", t>> => task'[t] = "none"
    BY <2>1, <1>types, <1>steps, <1>now, Busy
  <2>. QED BY <2>1, <2>2, <1>steps, AloneActive
<1>3. CASE AddActive(a, s)
  <2>1. /\ handler[a] = <<"sadd", s>> /\ UNCHANGED <<task, stray, engine>>
        /\ active' = active \cup {s}
        /\ handler' = [handler EXCEPT ![a] = Idle]
    BY <1>3 DEF AddActive
  <2>2. engine # "closing" => \A t \in Strategies :
          /\ task'[t] # "none" => t \in active' \cup stray' \/ Idle = <<"sadd", t>>
          /\ Idle = <<"wait", t>> => t \in active' \cup stray' /\ task'[t] = "none"
          /\ Idle = <<"srem", t>> => task'[t] = "none"
    BY <2>1, <1>types, <1>steps, <1>now, Busy
  <2>. QED BY <2>1, <2>2, <1>steps, AloneActive
<1>4. CASE BeginStop(a, s)
  <2> DEFINE x == IF task[s] = "none" THEN <<"srem", s>> ELSE <<"wait", s>>
  <2>1. /\ handler[a] = <<"stop", s>> /\ UNCHANGED <<active, stray, engine>>
        /\ task' = [task EXCEPT ![s] = "none"]
        /\ handler' = [handler EXCEPT ![a] = x]
    BY <1>4 DEF BeginStop
  <2>2. engine # "closing" => \A t \in Strategies :
          /\ task'[t] # "none" => t \in active' \cup stray' \/ x = <<"sadd", t>>
          /\ x = <<"wait", t>> => t \in active' \cup stray' /\ task'[t] = "none"
          /\ x = <<"srem", t>> => task'[t] = "none"
    BY <2>1, <1>types, <1>steps, <1>now, Busy
  <2>3. x \in Steps
    BY <1>steps
  <2>. QED BY <2>1, <2>2, <2>3, <1>steps, AloneActive
<1>5. CASE TaskEnds(a, s)
  <2>1. /\ handler[a] = <<"wait", s>> /\ UNCHANGED <<task, active, engine>>
        /\ stray' = stray \ {s}
        /\ handler' = [handler EXCEPT ![a] = <<"srem", s>>]
    BY <1>5 DEF TaskEnds
  <2>2. engine # "closing" => \A t \in Strategies :
          /\ task'[t] # "none" => t \in active' \cup stray' \/ <<"srem", s>> = <<"sadd", t>>
          /\ <<"srem", s>> = <<"wait", t>> => t \in active' \cup stray' /\ task'[t] = "none"
          /\ <<"srem", s>> = <<"srem", t>> => task'[t] = "none"
    BY <2>1, <1>types, <1>steps, <1>now, Busy
  <2>. QED BY <2>1, <2>2, <1>steps, AloneActive
<1>6. CASE RemoveActive(a, s)
  <2>1. /\ handler[a] = <<"srem", s>> /\ UNCHANGED <<task, stray, engine>>
        /\ active' = active \ {s}
        /\ handler' = [handler EXCEPT ![a] = Idle]
    BY <1>6 DEF RemoveActive
  <2>2. engine # "closing" => \A t \in Strategies :
          /\ task'[t] # "none" => t \in active' \cup stray' \/ Idle = <<"sadd", t>>
          /\ Idle = <<"wait", t>> => t \in active' \cup stray' /\ task'[t] = "none"
          /\ Idle = <<"srem", t>> => task'[t] = "none"
    BY <2>1, <1>types, <1>steps, <1>now, Busy
  <2>. QED BY <2>1, <2>2, <1>steps, AloneActive
<1>. QED BY <1>1, <1>2, <1>3, <1>4, <1>5, <1>6 DEF Handle

\* A handler that fails leaves its strategy as it was, or astray.
LEMMA FailureActive ==
  ASSUME IInv, NEW s \in Strategies, Fails(s) PROVE TurnsInv' /\ ActiveInv'
<1>. USE DEF webVars, busVars, runVars, tradeVars, boundVars
<1>types. /\ handler \in [Actors -> Steps \cup {Idle}]
          /\ task \in [Strategies -> {"none", "loading", "trading", "ended"}]
  BY DEF IInv, ControlTypes
<1>steps. \A k, t : <<k, t>> # Idle
  BY Busy
<1>now. ASSUME NEW a \in Actors, handler[a] # Idle, engine # "closing"
        PROVE  \A t \in Strategies : task[t] # "none" => t \in active \cup stray \/ handler[a] = <<"sadd", t>>
  <2>1. \A b \in Actors \ {a} : handler[b] = Idle
    BY <1>now DEF IInv, TurnsInv, Actors
  <2>2. \A b \in Actors, t \in Strategies : handler[b] = <<"sadd", t>> => b = a
    BY <2>1, Busy
  <2>. QED BY <2>2, <1>now DEF IInv, ActiveInv
<1>1. ASSUME NEW a \in Actors, GateFails(a, s) PROVE TurnsInv' /\ ActiveInv'
  <2>1. /\ handler[a] = <<"start", s>> /\ UNCHANGED <<task, active, stray, engine>>
        /\ handler' = [handler EXCEPT ![a] = Idle]
    BY <1>1 DEF GateFails
  <2>2. engine # "closing" => \A t \in Strategies :
          /\ task'[t] # "none" => t \in active' \cup stray' \/ Idle = <<"sadd", t>>
          /\ Idle = <<"wait", t>> => t \in active' \cup stray' /\ task'[t] = "none"
          /\ Idle = <<"srem", t>> => task'[t] = "none"
    BY <2>1, <1>steps, <1>now
  <2>. QED BY <2>1, <2>2, <1>steps, AloneActive
<1>2. CASE HandlerFails(s)
  <2>1. /\ handler["control"] \in {<<"create", s>>, <<"sadd", s>>, <<"srem", s>>}
        /\ UNCHANGED <<task, active, engine>>
        /\ stray' = IF handler["control"] = <<"sadd", s>> THEN stray \cup {s} ELSE stray
        /\ handler' = [handler EXCEPT !["control"] = Idle] /\ "control" \in Actors
    BY <1>2 DEF HandlerFails, Actors
  <2>2. handler["control"] # Idle
    BY <2>1, <1>steps
  <2>3. engine # "closing" => \A t \in Strategies :
          /\ task'[t] # "none" => t \in active' \cup stray' \/ Idle = <<"sadd", t>>
          /\ Idle = <<"wait", t>> => t \in active' \cup stray' /\ task'[t] = "none"
          /\ Idle = <<"srem", t>> => task'[t] = "none"
    BY <2>1, <2>2, <1>steps, <1>now
  <2>. QED BY <2>1, <2>2, <2>3, <1>steps, AloneActive
<1>. QED BY <1>1, <1>2 DEF Fails

\* The engine takes commands one by one, and forgets its tasks when it dies.
LEMMA EngineActive ==
  ASSUME IInv, Main \/ Control \/ Shutdown \/ Crash \/ LoseSubscription
  PROVE  TurnsInv' /\ ActiveInv'
<1>. USE DEF webVars, busVars, runVars, tradeVars, boundVars
<1>types. /\ handler \in [Actors -> Steps \cup {Idle}] /\ channel \in Seq(Commands)
          /\ todo \subseteq Strategies
  BY DEF IInv, ControlTypes
<1>1. CASE Boot
  BY <1>1 DEF Boot, IInv, TurnsInv, ActiveInv, Actors
<1>2. CASE RecoverNext
  BY <1>2, <1>types, CommandsAreSteps DEF RecoverNext, IInv, TurnsInv, ActiveInv, Actors, Idle
<1>3. CASE CloseNext
  BY <1>3 DEF CloseNext, TurnsInv, ActiveInv
<1>4. CASE RecoverEnds
  BY <1>4 DEF RecoverEnds, IInv, TurnsInv, ActiveInv, Actors
<1>5. CASE Shutdown
  BY <1>5 DEF Shutdown, TurnsInv, ActiveInv
<1>6. CASE Exit \/ Crash
  BY <1>6 DEF Exit, Crash, Gone, TurnsInv, ActiveInv, Actors, Idle
<1>7. CASE Subscribe \/ LoseSubscription
  BY <1>7, ActiveRests DEF Subscribe, LoseSubscription
<1>8. CASE TakeCommand
  <2>1. PICK k \in {"start", "stop"}, s \in Strategies : Head(channel) = <<k, s>>
    BY <1>8, <1>types, ChannelTail DEF TakeCommand, Commands
  <2>2. /\ engine = "control" /\ engine' = engine /\ handler["main"] = Idle /\ handler["control"] = Idle
        /\ handler' = [handler EXCEPT !["control"] = <<k, s>>]
        /\ UNCHANGED <<task, active, stray>>
    BY <1>8, <2>1 DEF TakeCommand, IInv, TurnsInv
  <2>3. \A b \in Actors, t \in Strategies, m \in {"sadd", "wait", "srem"} : handler'[b] # <<m, t>>
    BY <2>2, <1>types, Busy DEF Actors
  <2>4. \A t \in Strategies : task[t] # "none" => t \in active \cup stray
    <3>1. \A b \in Actors, t \in Strategies : handler[b] # <<"sadd", t>>
      BY <2>2, Busy DEF Actors
    <3>. QED BY <3>1, <2>2 DEF IInv, ActiveInv
  <2>5. ActiveInv'
    BY <2>2, <2>3, <2>4 DEF ActiveInv
  <2>6. TurnsInv'
    BY <2>2, <1>types DEF TurnsInv, Actors
  <2>. QED BY <2>5, <2>6
<1>9. CASE TakeLast
  BY <1>9 DEF TakeLast, TurnsInv, ActiveInv
<1>. QED BY <1>1, <1>2, <1>3, <1>4, <1>5, <1>6, <1>7, <1>8, <1>9 DEF Main, Control

\* Every step preserves the invariant.
LEMMA NextActive == IInv /\ [Next]_vars => IInv'
<1>. USE DEF webVars, busVars, runVars, tradeVars, boundVars
<1>1. ASSUME IInv, NEW s \in Strategies, Web(s) \/ Runner(s) PROVE TurnsInv' /\ ActiveInv'
  <2>1. UNCHANGED <<engine, handler, active, stray>>
    BY <1>1 DEF Web, WebStart, WebStop, Request, Publish, PublishFails, Delete, DeleteBegins, DeleteChecksActive,
       DeleteChecksPosition, DeleteCommits, Runner, Load, TickOrders, FillBooked
  <2>2. \A x \in Strategies : task'[x] # "none" <=> task[x] # "none"
    BY <1>1 DEF Web, WebStart, WebStop, Request, Publish, PublishFails, Delete, DeleteBegins, DeleteChecksActive,
       DeleteChecksPosition, DeleteCommits, Runner, Load, TickOrders, FillBooked, IInv, ControlTypes
  <2>. QED BY <1>1, <2>1, <2>2, ActiveRests
<1>2. ASSUME IInv, UNCHANGED vars PROVE TurnsInv' /\ ActiveInv'
  BY <1>2, ActiveRests DEF vars
<1>. QED BY <1>1, <1>2, HandlerActive, FailureActive, EngineActive, NextTypes DEF IInv, Next

\* Whatever trades is in the active set, which the deletion asks, except while the
\* handler that puts it there is under way, after its sadd has failed, or when the
\* engine closes: however commands, errors of Redis and the database, crashes and
\* restarts fall between the steps of the handlers.
THEOREM ActiveCovers == Spec => []ActiveCoversTrading
<1>1. IInv => ActiveCoversTrading
  BY DEF IInv, ControlTypes, ActiveInv, ActiveCoversTrading, Trading
<1>. QED BY <1>1, InitTypes, InitActive, NextActive, PTL DEF Spec, IInv

(***************************************************************************)
(* No shares are left behind                                               *)
(***************************************************************************)
\* What the user who deletes a strategy has waited for.
Patient == {"commands", "orders", "shutdown", "stray"} \subseteq WaitFor

\* While a strategy is deleted no command for it is under way; once the active set has
\* been asked it has no task and none can be made, once the position has been asked it
\* has none and no order that could bring one.
Untouched(s) == task[s] = "none" /\ s \notin todo /\ ~Handled(s)
DeleteInv ==
  \A s \in Strategies :
    /\ del[s] # "none" => row[s] = "idle"
    /\ del[s] # "none" \/ row[s] = "deleted" => req[s] = "none" /\ ~InChannel(s)
    /\ del[s] # "none" /\ engine # "closing" => s \notin todo /\ ~Handled(s)
    /\ del[s] \in {"position", "commit"} \/ row[s] = "deleted" => Untouched(s)
    /\ del[s] = "commit" \/ row[s] = "deleted" => open[s] = "none" /\ ~holds[s]
DInv == IInv /\ DeleteInv

\* Nobody handles a strategy anew but who is given a step for it.
LEMMA HandledAnew ==
  ASSUME handler \in [Actors -> Steps \cup {Idle}], NEW a \in Actors, NEW x \in Steps \cup {Idle},
         handler' = [handler EXCEPT ![a] = x]
  PROVE  \A t \in Strategies : Handled(t)' => Handled(t) \/ (x # Idle /\ x[2] = t)
BY DEF Handled

\* The web process refuses every other request for a strategy it deletes, and asks
\* first what runs, then what is held.
LEMMA WebDeletes == ASSUME Patient, DInv, NEW s \in Strategies, Web(s) PROVE DeleteInv'
<1>. USE DEF DInv, webVars, busVars, runVars, tradeVars, boundVars
<1>types. /\ row \in [Strategies -> {"idle", "live", "deleted"}]
          /\ req \in [Strategies -> {"none", "start", "stop"}]
          /\ del \in [Strategies -> {"none", "active", "position", "commit"}]
          /\ channel \in Seq(Commands)
  BY DEF IInv, ControlTypes
\* Of other strategies nothing changes.
<1>keep. ASSUME UNCHANGED <<engine, todo, handler, task, open, holds>>,
                \A t \in Strategies \ {s} : row'[t] = row[t] /\ req'[t] = req[t] /\ del'[t] = del[t],
                \A t \in Strategies \ {s} : InChannel(t)' => InChannel(t),
                /\ del'[s] # "none" => row'[s] = "idle"
                /\ del'[s] # "none" \/ row'[s] = "deleted" => req'[s] = "none" /\ ~InChannel(s)'
                /\ del'[s] # "none" /\ engine # "closing" => s \notin todo /\ ~Handled(s)
                /\ del'[s] \in {"position", "commit"} \/ row'[s] = "deleted" => Untouched(s)
                /\ del'[s] = "commit" \/ row'[s] = "deleted" => open[s] = "none" /\ ~holds[s]
         PROVE  DeleteInv'
  BY <1>keep DEF DeleteInv, Untouched, Handled
<1>1. CASE WebStart(s) \/ WebStop(s)
  <2>1. /\ row[s] # "deleted" /\ del[s] = "none" /\ row'[s] # "deleted" /\ UNCHANGED del
        /\ UNCHANGED <<engine, todo, handler, task, open, holds, channel>>
        /\ \A t \in Strategies \ {s} : row'[t] = row[t] /\ req'[t] = req[t]
    BY <1>1, <1>types DEF WebStart, WebStop, Request
  <2>. QED BY <2>1, <1>keep DEF InChannel
<1>2. CASE Publish(s)
  <2>1. /\ req[s] # "none" /\ UNCHANGED <<row, del, engine, todo, handler, task, open, holds>>
        /\ \A t \in Strategies \ {s} : req'[t] = req[t]
        /\ channel' \in {channel, Append(channel, <<req[s], s>>)} /\ <<req[s], s>> \in Commands
    BY <1>2, <1>types DEF Publish, Commands
  <2>2. \A t \in Strategies \ {s} : InChannel(t)' => InChannel(t)
    <3>1. CASE channel' = channel
      BY <3>1 DEF InChannel
    <3>2. CASE channel' = Append(channel, <<req[s], s>>)
      <4>1. \A i \in 1 .. Len(channel') : channel'[i] = <<req[s], s>> \/ InChannel(channel'[i][2])
        BY <3>2, <2>1, <1>types, ChannelAppend
      <4>2. <<req[s], s>>[2] = s
        OBVIOUS
      <4>. QED BY <4>1, <4>2 DEF InChannel
    <3>. QED BY <3>1, <3>2, <2>1
  <2>3. row[s] # "deleted" /\ del[s] = "none"
    BY <2>1 DEF DeleteInv
  <2>. QED BY <2>1, <2>2, <2>3, <1>keep
<1>4. CASE PublishFails(s)
  <2>1. /\ req[s] # "none" /\ UNCHANGED <<row, del, channel, engine, todo, handler, task, open, holds>>
        /\ \A t \in Strategies \ {s} : req'[t] = req[t]
    BY <1>4, <1>types DEF PublishFails
  <2>2. row[s] # "deleted" /\ del[s] = "none"
    BY <2>1 DEF DeleteInv
  <2>. QED BY <2>1, <2>2, <1>keep DEF InChannel
<1>3. CASE Delete(s)
  <2>1. /\ UNCHANGED <<req, channel, engine, todo, handler, task, open, holds>>
        /\ \A t \in Strategies \ {s} : row'[t] = row[t] /\ del'[t] = del[t]
    BY <1>3, <1>types DEF Delete, DeleteBegins, DeleteChecksActive, DeleteChecksPosition, DeleteCommits
  <2>2. InChannel(s)' = InChannel(s) /\ \A t \in Strategies : InChannel(t)' => InChannel(t)
    BY <2>1 DEF InChannel
  <2>3. CASE DeleteBegins(s)
    <3>1. row[s] = "idle" /\ row' = row /\ del'[s] = "active" /\ Quiet(s)
      BY <2>3, <1>types DEF DeleteBegins, Patient
    <3>. QED BY <3>1, <2>1, <2>2, <1>keep DEF Quiet
  <2>4. CASE DeleteChecksActive(s)
    <3>1. /\ del[s] = "active" /\ row' = row /\ engine # "closing" /\ s \notin stray
          /\ del'[s] = IF s \in active THEN "none" ELSE "position"
      BY <2>4, <1>types DEF DeleteChecksActive, Patient
    <3>2. row[s] = "idle" /\ req[s] = "none" /\ ~InChannel(s) /\ s \notin todo /\ ~Handled(s)
      BY <3>1 DEF DeleteInv
    <3>3. s \notin active => Untouched(s)
      BY <3>1, <3>2, BusyHandles DEF IInv, ActiveInv, Untouched
    <3>. QED BY <3>1, <3>2, <3>3, <2>1, <2>2, <1>keep
  <2>5. CASE DeleteChecksPosition(s)
    <3>1. /\ del[s] = "position" /\ row' = row /\ open[s] = "none"
          /\ del'[s] = IF holds[s] THEN "none" ELSE "commit"
      BY <2>5, <1>types DEF DeleteChecksPosition, Patient
    <3>2. row[s] = "idle" /\ req[s] = "none" /\ ~InChannel(s) /\ Untouched(s)
      BY <3>1 DEF DeleteInv
    <3>. QED BY <3>1, <3>2, <2>1, <2>2, <1>keep DEF Untouched
  <2>6. CASE DeleteCommits(s)
    <3>1. del[s] = "commit" /\ row'[s] = "deleted" /\ del'[s] = "none"
      BY <2>6, <1>types DEF DeleteCommits
    <3>2. /\ req[s] = "none" /\ ~InChannel(s) /\ Untouched(s) /\ open[s] = "none" /\ ~holds[s]
      BY <3>1 DEF DeleteInv
    <3>. QED BY <3>1, <3>2, <2>1, <2>2, <1>keep
  <2>. QED BY <1>3, <2>3, <2>4, <2>5, <2>6 DEF Delete
<1>. QED BY <1>1, <1>2, <1>3, <1>4 DEF Web

\* A runner that trades has a task, or a stop that waits for its end: nobody deletes
\* its strategy beyond the first check.
LEMMA RunnerDeletes == ASSUME DInv, NEW s \in Strategies, Runner(s) PROVE DeleteInv'
<1>. USE DEF DInv, webVars, busVars, runVars, tradeVars, boundVars
<1>types. /\ task \in [Strategies -> {"none", "loading", "trading", "ended"}]
          /\ open \in [Strategies -> {"none", "buy", "sell"}] /\ holds \in [Strategies -> BOOLEAN]
  BY DEF IInv, ControlTypes
<1>1. UNCHANGED <<row, req, del, channel, engine, todo, handler>>
  BY DEF Runner, Load, TickOrders, FillBooked
<1>2. CASE Load(s)
  <2>1. task[s] = "loading" /\ UNCHANGED <<open, holds>> /\ \A t \in Strategies \ {s} : task'[t] = task[t]
    BY <1>2, <1>types DEF Load
  <2>. QED BY <2>1, <1>1 DEF DeleteInv, Untouched, Handled, InChannel
<1>3. CASE TickOrders(s)
  <2>1. /\ Trading(s) /\ row[s] # "deleted" /\ UNCHANGED <<task, holds>>
        /\ \A t \in Strategies \ {s} : open'[t] = open[t]
    BY <1>3, <1>types DEF TickOrders
  <2>2. ~Untouched(s)
    BY <2>1, BusyHandles DEF Trading, Untouched
  <2>3. del[s] \notin {"position", "commit"}
    BY <2>2 DEF DeleteInv
  <2>. QED BY <2>1, <2>3, <1>1 DEF DeleteInv, Untouched, Handled, InChannel
<1>4. CASE FillBooked(s)
  <2>1. /\ open[s] # "none" /\ UNCHANGED task
        /\ \A t \in Strategies \ {s} : open'[t] = open[t] /\ holds'[t] = holds[t]
    BY <1>4, <1>types DEF FillBooked
  <2>2. del[s] # "commit" /\ row[s] # "deleted"
    BY <2>1 DEF DeleteInv
  <2>. QED BY <2>1, <2>2, <1>1 DEF DeleteInv, Untouched, Handled, InChannel
<1>. QED BY <1>2, <1>3, <1>4 DEF Runner

\* A handler changes its own strategy alone, which is then not being deleted.
LEMMA HandlerDeletes ==
  ASSUME DInv, NEW a \in Actors, NEW s \in Strategies, Handle(a, s) PROVE DeleteInv'
<1>. USE DEF DInv, webVars, busVars, runVars, tradeVars, boundVars
<1>types. /\ handler \in [Actors -> Steps \cup {Idle}]
          /\ task \in [Strategies -> {"none", "loading", "trading", "ended"}]
  BY DEF IInv, ControlTypes
<1>1. UNCHANGED <<row, req, del, channel, engine, todo, open, holds>>
  BY DEF Handle, BeginStart, CreateTask, AddActive, BeginStop, TaskEnds, RemoveActive
<1>2. \A t \in Strategies \ {s} : task'[t] = task[t]
  BY <1>types DEF Handle, BeginStart, CreateTask, AddActive, BeginStop, TaskEnds, RemoveActive
<1>3. PICK k \in {"start", "create", "sadd", "stop", "wait", "srem"} : handler[a] = <<k, s>>
  BY DEF Handle, BeginStart, CreateTask, AddActive, BeginStop, TaskEnds, RemoveActive
<1>4. Handled(s)
  BY <1>3, BusyHandles
<1>5. \/ handler' = [handler EXCEPT ![a] = Idle]
      \/ \E m \in {"create", "sadd", "wait", "srem"} : handler' = [handler EXCEPT ![a] = <<m, s>>]
  BY DEF Handle, BeginStart, CreateTask, AddActive, BeginStop, TaskEnds, RemoveActive
<1>6. \A t \in Strategies : Handled(t)' => Handled(t)
  <2>1. CASE handler' = [handler EXCEPT ![a] = Idle]
    BY <2>1, <1>types, HandledAnew
  <2>2. ASSUME NEW m \in {"create", "sadd", "wait", "srem"}, handler' = [handler EXCEPT ![a] = <<m, s>>]
        PROVE  \A t \in Strategies : Handled(t)' => Handled(t)
    <3>1. <<m, s>> \in Steps /\ <<m, s>>[2] = s
      BY CommandsAreSteps
    <3>. QED BY <2>2, <3>1, <1>4, <1>types, HandledAnew
  <2>. QED BY <1>5, <2>1, <2>2
<1>. QED BY <1>1, <1>2, <1>4, <1>6 DEF DeleteInv, Untouched, InChannel

\* A handler that fails touches no task.
LEMMA FailureDeletes == ASSUME DInv, NEW s \in Strategies, Fails(s) PROVE DeleteInv'
<1>. USE DEF DInv, webVars, busVars, runVars, tradeVars, boundVars
<1>types. handler \in [Actors -> Steps \cup {Idle}]
  BY DEF IInv, ControlTypes
<1>1. UNCHANGED <<row, req, del, engine, todo, task, open, holds>> /\ channel' \in {channel, <<>>}
  BY DEF Fails, HandlerFails, GateFails
<1>2. \E a \in Actors : handler' = [handler EXCEPT ![a] = Idle]
  BY DEF Fails, HandlerFails, GateFails, Actors
<1>3. \A t \in Strategies : Handled(t)' => Handled(t)
  BY <1>2, <1>types, HandledAnew
<1>4. \A t \in Strategies : InChannel(t)' => InChannel(t)
  BY <1>1 DEF InChannel
<1>. QED BY <1>1, <1>3, <1>4 DEF DeleteInv, Untouched

\* The engine starts what the database calls live, obeys what was published, and stops
\* what has a task: none of it is being deleted beyond the first check.
LEMMA EngineDeletes ==
  ASSUME DInv, Main \/ Control \/ Shutdown \/ Crash \/ LoseSubscription PROVE DeleteInv'
<1>. USE DEF DInv, webVars, busVars, runVars, tradeVars, boundVars
<1>types. /\ handler \in [Actors -> Steps \cup {Idle}] /\ channel \in Seq(Commands)
          /\ todo \subseteq Strategies /\ Actors = {"main", "control"}
  BY DEF IInv, ControlTypes, Actors
<1>same. UNCHANGED <<row, req, del, open, holds>>
  BY DEF Main, Boot, RecoverNext, RecoverEnds, CloseNext, Exit, Control, Subscribe, TakeCommand, TakeLast,
     Shutdown, Crash, LoseSubscription, Gone
<1>1. CASE Boot
  <2>1. /\ engine = "down" /\ engine' = "recover" /\ UNCHANGED <<channel, handler, task>>
        /\ todo' = {s \in Strategies : row[s] = "live"}
    BY <1>1 DEF Boot, Recovered, LiveInDb
  <2>. QED BY <2>1, <1>same DEF DeleteInv, Untouched, Handled, InChannel
<1>2. CASE RecoverNext \/ CloseNext
  <2>1. PICK s \in todo, k \in {"start", "stop"} :
          /\ todo' = todo \ {s} /\ handler' = [handler EXCEPT !["main"] = <<k, s>>]
          /\ UNCHANGED <<channel, engine, task>>
    BY <1>2 DEF RecoverNext, CloseNext
  <2>2. \A t \in Strategies : Handled(t)' => Handled(t) \/ t = s
    <3>1. <<k, s>> \in Steps /\ <<k, s>>[2] = s
      BY <1>types, CommandsAreSteps
    <3>. QED BY <2>1, <3>1, <1>types, HandledAnew
  <2>. QED BY <2>1, <2>2, <1>same DEF DeleteInv, Untouched, InChannel
<1>3. CASE RecoverEnds \/ Subscribe
  <2>1. /\ UNCHANGED <<channel, handler, task, todo>>
        /\ engine' # "closing" => engine # "closing"
    BY <1>3 DEF RecoverEnds, Subscribe
  <2>. QED BY <2>1, <1>same DEF DeleteInv, Untouched, Handled, InChannel
<1>4. CASE Shutdown
  <2>1. /\ engine' = "closing" /\ UNCHANGED <<channel, handler, task>>
        /\ todo' = {s \in Strategies : task[s] # "none"}
    BY <1>4 DEF Shutdown
  <2>. QED BY <2>1, <1>same DEF DeleteInv, Untouched, Handled, InChannel
<1>5. CASE Exit \/ Crash
  <2>1. Gone
    BY <1>5 DEF Exit, Crash
  <2>2. \A t \in Strategies : t \notin todo' /\ ~Handled(t)' /\ task'[t] = "none" /\ ~InChannel(t)'
    BY <2>1 DEF Gone, Handled, InChannel
  <2>. QED BY <2>2, <1>same DEF DeleteInv, Untouched
<1>6. CASE LoseSubscription
  <2>1. channel' = <<>> /\ UNCHANGED <<engine, todo, handler, task>>
    BY <1>6 DEF LoseSubscription
  <2>2. \A t \in Strategies : ~InChannel(t)'
    BY <2>1 DEF InChannel
  <2>. QED BY <2>1, <2>2, <1>same DEF DeleteInv, Untouched, Handled
<1>7. CASE TakeCommand \/ TakeLast
  <2>1. /\ UNCHANGED <<engine, todo, task>>
        /\ channel' = <<>> \/ (channel # <<>> /\ channel' = Tail(channel))
        /\ handler' = handler \/ (channel # <<>> /\ handler' = [handler EXCEPT !["control"] = Head(channel)])
    <3>1. CASE TakeCommand
      BY <3>1 DEF TakeCommand
    <3>2. CASE TakeLast
      BY <3>2 DEF TakeLast
    <3>. QED BY <1>7, <3>1, <3>2
  <2>2. \A t \in Strategies : InChannel(t)' => InChannel(t)
    <3>1. CASE channel' = <<>>
      BY <3>1 DEF InChannel
    <3>2. CASE channel' # <<>>
      BY <3>2, <2>1, <1>types, ChannelTail DEF InChannel
    <3>. QED BY <3>1, <3>2
  <2>3. \A t \in Strategies : Handled(t)' => Handled(t) \/ InChannel(t)
    <3>1. CASE handler' = handler
      BY <3>1 DEF Handled
    <3>2. CASE channel # <<>> /\ handler' = [handler EXCEPT !["control"] = Head(channel)]
      BY <3>2, <1>types, ChannelTail, CommandsAreSteps, HandledAnew
    <3>. QED BY <2>1, <3>1, <3>2
  <2>. QED BY <2>1, <2>2, <2>3, <1>same DEF DeleteInv, Untouched
<1>. QED BY <1>1, <1>2, <1>3, <1>4, <1>5, <1>6, <1>7 DEF Main, Control

\* Every step preserves the invariant.
LEMMA NextDeletes == Patient /\ DInv /\ [Next]_vars => DInv'
<1>1. ASSUME DInv, UNCHANGED vars PROVE DeleteInv'
  <2>1. UNCHANGED <<row, req, del, channel, engine, todo, handler, task, open, holds>>
    BY <1>1 DEF vars, webVars, busVars, runVars, tradeVars
  <2>. QED BY <2>1, <1>1 DEF DInv, DeleteInv, Untouched, Handled, InChannel
<1>. QED BY <1>1, NextActive, WebDeletes, RunnerDeletes, HandlerDeletes, FailureDeletes, EngineDeletes DEF DInv, Next

\* No share is left to a strategy that is gone, if its user lets commands, orders and a
\* shutdown end before deleting it, and does not delete one that runs outside the active
\* set since its sadd failed: whatever the engine, its crashes, failing handlers and lost
\* subscriptions, and the users of other strategies do meanwhile.
THEOREM NoGhost == ASSUME Patient PROVE Spec => []NoGhostPosition
<1>1. Init => DInv
  <2>1. Init => DeleteInv
    BY DEF Init, DeleteInv
  <2>. QED BY <2>1, InitTypes, InitActive DEF DInv, IInv
<1>2. DInv => NoGhostPosition
  BY DEF DInv, DeleteInv, NoGhostPosition
<1>3. DInv /\ [Next]_vars => DInv'
  BY NextDeletes, Patient
<1>. QED BY <1>1, <1>2, <1>3, PTL DEF Spec
=============================================================================
