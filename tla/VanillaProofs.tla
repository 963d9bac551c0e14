--------------------------- MODULE VanillaProofs ---------------------------
(***************************************************************************)
(* Theorems about the engine adapter, for every set of boxes, amounts and  *)
(* minimums and any number of calls.  With a live engine, whatever methods *)
(* the engine has: what stops a session, what is reported of a seven, what *)
(* the strategy bets in each phase, and how much take_odds takes.  Without *)
(* an engine, for every rule set and risk policy: the pace of the rules,   *)
(* what the answers tell of the bankroll, and what is kept beside the bets.*)
(***************************************************************************)
EXTENDS VanillaLive, StubPromises, FiniteSetTheorems, SequenceTheorems, TLAPS

\* The same adapter without an engine.
CONSTANT Policies
VARIABLES policy, ruleState

Stub == INSTANCE VanillaStub

---------------------------------------------------------------------------
(* What the steps do. *)

\* What is asked of the adapter is never a roll.
LEMMA AskedVerbs == ASSUME NEW r \in Requests PROVE r.verb # "roll"
<1> DEFINE staked == [verb : {"place_bet", "buy_bet", "lay_bet"}, number : First \cup Others, amount : Most, bare : {FALSE}]
           taken == {[verb |-> "take_down", number |-> n, keys |-> {<<"box", n>>} \cap Keys] : n \in First \cup Others}
           moved == [verb : {"move_bet"}, number : First \cup Others, to : Numbers]
           line == [verb : {"line_bet"}, side : {"pass", "dont_pass"}, amount : Most, bare : BOOLEAN]
           come == [verb : {"come_bet", "dont_come_bet"}, amount : Most, bare : BOOLEAN]
           field == [verb : {"field_bet", "prop_bet", "ats_bet"}, amount : Most]
           hard == [verb : {"hardway_bet"}, number : First \cup Others, amount : Most]
           odds == [verb : {"set_odds", "take_odds"}, side : Sides, number : First \cup {0}, amount : Amounts]
           bare == [verb : {"remove_line", "remove_come", "remove_dont_come", "press", "regress"}]
           laddered == [verb : {"apply_policy"}, number : First, delta : Most, top : {2}]
<1>1. r \in staked \cup taken \cup moved \cup line \cup come \cup field \cup hard \cup odds \cup bare \cup laddered
  BY Zenon DEF Requests
<1>2. r \in staked \cup moved \cup line => r.verb # "roll"
  OBVIOUS
<1>3. r \in come \cup field \cup hard => r.verb # "roll"
  OBVIOUS
<1>4. r \in odds \cup bare \cup laddered => r.verb # "roll"
  OBVIOUS
<1>5. r \in taken => r.verb # "roll"
  OBVIOUS
<1> HIDE DEF staked, taken, moved, line, come, field, hard, odds, bare, laddered
<1> QED BY <1>1, <1>2, <1>3, <1>4, <1>5

\* Whatever a verb does to the player and the mirror, the answer is about that verb
\* and reports no seven-out.
LEMMA AnswerOfVerb ==
  ASSUME NEW t, NEW p, NEW m, NEW r \in Requests, NEW add, NEW rem
  PROVE  /\ Acted(t, p, m, r, add, rem).answer.of.verb # "roll"
         /\ Acted(t, p, m, r, add, rem).answer.pso = FALSE
<1> DEFINE e == LiveEffect(t, p, r, add, rem)
           seen == Refreshed(t, p, m)
           f == EffectOf(seen, r)
<1>1. \A ok, via, bank : Said(r, ok, via, bank).of.verb # "roll" /\ Said(r, ok, via, bank).pso = FALSE
  BY AskedVerbs DEF Said
<1>2. \A q, n, ans : Left(q, n, ans).answer = ans
  BY DEF Left
<1>3. Fallback(p, seen, r).answer = Said(r, TRUE, "stub", f.bank) \/ Fallback(p, seen, r).answer = Said(r, FALSE, "stub", 0)
  <2> HIDE DEF seen
  <2> QED BY <1>2 DEF Fallback
<1>4. \/ \E n : Acted(t, p, m, r, add, rem) = Left(p, n, Said(r, TRUE, "noop", 0))
      \/ \E q, n : Acted(t, p, m, r, add, rem) = Left(q, n, Said(r, TRUE, "engine", e.bank))
      \/ Acted(t, p, m, r, add, rem) = Fallback(p, seen, r)
  BY Zenon DEF Acted
<1> HIDE DEF e, seen, f
<1>5. \E ok, via, bank : Acted(t, p, m, r, add, rem).answer = Said(r, ok, via, bank)
  <2>1. ASSUME NEW n, Acted(t, p, m, r, add, rem) = Left(p, n, Said(r, TRUE, "noop", 0))
        PROVE  Acted(t, p, m, r, add, rem).answer = Said(r, TRUE, "noop", 0)
    BY <2>1 DEF Left
  <2>2. ASSUME NEW q, NEW n, Acted(t, p, m, r, add, rem) = Left(q, n, Said(r, TRUE, "engine", e.bank))
        PROVE  Acted(t, p, m, r, add, rem).answer = Said(r, TRUE, "engine", e.bank)
    BY <2>2 DEF Left
  <2>3. CASE Acted(t, p, m, r, add, rem) = Fallback(p, seen, r)
    BY <1>3, <2>3
  <2> QED BY <1>4, <2>1, <2>2, <2>3
<1> QED BY <1>1, <1>5

\* A refreshed mirror has the player's bankroll and knows whether the point is off.
LEMMA RefreshedTells ==
  ASSUME NEW t, NEW p, NEW m
  PROVE  Refreshed(t, p, m).bankroll = p.bankroll /\ Refreshed(t, p, m).comeout = (t.point = 0)
BY DEF Refreshed, Mirrored

\* The kinds of step.
LEMMA Steps ==
  ASSUME Next
  PROVE  \/ \E r \in Requests, add \in AddHow, rem \in RemoveHow : ApplyAction(r, add, rem)
         \/ StopEarly
         \/ \E clear \in ClearHow, add \in AddHow, total \in Boxes \cup {7}, raises \in BOOLEAN : \E fate :
              StepRoll(total, fate, raises, clear, add)
BY DEF Next

\* What a call becomes is what it leaves.
LEMMA Became ==
  ASSUME NEW p, NEW m, NEW ans, Become(Left(p, m, ans))
  PROVE  player' = p /\ mirror' = m /\ answer' = ans
BY DEF Become, Left

\* What is remembered of a throw for which the strategy was ready.
Throw(ready) ==
  [point |-> table.point, bets |-> ready.player.bets,
   laid |-> (IF table.point = 0 THEN 0 ELSE thrown.laid) + IF ready.laid THEN 1 ELSE 0]

\* A roll throws what the strategy made ready.
LEMMA RollThrows ==
  ASSUME NEW total, NEW fate, NEW raises, NEW clear, NEW add, StepRoll(total, fate, raises, clear, add)
  PROVE  /\ strategy' = Prepared(table, strategy, player, clear, add).strategy
         /\ thrown' = Throw(Prepared(table, strategy, player, clear, add))
BY Zenon DEF StepRoll, Throw

\* A roll that raises leaves the table, any other rolls it and reports a seven-out.
LEMMA RollLeaves ==
  ASSUME NEW total, NEW fate, NEW raises \in BOOLEAN, NEW clear, NEW add,
         StepRoll(total, fate, raises, clear, add)
  PROVE  \/ UNCHANGED <<table, sevens>> /\ answer' = RollSaid(FALSE, "roll_failed", FALSE)
         \/ /\ table' = TableRolled(table, total)
            /\ sevens' = sevens + IF SevenOut(table, total) THEN 1 ELSE 0
            /\ answer' = RollSaid(TRUE, "engine", Pso(Seen(table, player), total))
<1> DEFINE m == Refreshed(table, player, mirror)
           was == Seen(table, player)
           ready == Prepared(table, strategy, player, clear, add)
           t == TableRolled(table, total)
           p == Settled(ready.player, fate, total)
           after == [Mirrored(t, p) EXCEPT !.comeout = @ \/ Pso(was, total)]
<1>1. CASE raises
  <2>1. Become(Left(ready.player, m, RollSaid(FALSE, "roll_failed", FALSE))) /\ UNCHANGED <<table, sevens>>
    BY <1>1, Zenon DEF StepRoll
  <2> QED BY <2>1, Became
<1>2. CASE ~raises
  <2>1. /\ Become(Left(p, after, RollSaid(TRUE, "engine", Pso(was, total))))
        /\ table' = t /\ sevens' = sevens + IF SevenOut(table, total) THEN 1 ELSE 0
    BY <1>2, Zenon DEF StepRoll
  <2> HIDE DEF ready, t, p, after, was
  <2>2. answer' = RollSaid(TRUE, "engine", Pso(was, total))
    BY <2>1, Became
  <2> QED BY <2>1, <2>2 DEF ready, t, was
<1> QED BY <1>1, <1>2

\* A stop is for what the player has left.
LEMMA StopStep == ASSUME StopJustified, [Next]_vars PROVE StopJustified'
<1>1. ASSUME NEW r \in Requests, NEW add, NEW rem, ApplyAction(r, add, rem) PROVE StopJustified'
  <2>1. answer' = Acted(table, player, mirror, r, add, rem).answer
    BY <1>1 DEF ApplyAction, Become
  <2> QED BY <2>1, AnswerOfVerb DEF StopJustified
<1>2. CASE StopEarly
  <2> DEFINE m == Refreshed(table, player, mirror)
  <2>1. player' = player /\ table' = table /\ EarlyStop(m) # ""
    BY <1>2 DEF StopEarly, Become, Left
  <2>2. m.bankroll = player.bankroll /\ m.comeout = (table.point = 0)
    BY RefreshedTells
  <2> HIDE DEF m
  <2> QED BY <2>1, <2>2 DEF StopJustified, EarlyStop
<1>3. ASSUME NEW total, NEW fate, NEW raises \in BOOLEAN, NEW clear, NEW add,
             StepRoll(total, fate, raises, clear, add)
      PROVE  StopJustified'
  <2>1. answer' = RollSaid(FALSE, "roll_failed", FALSE) \/ \E pso : answer' = RollSaid(TRUE, "engine", pso)
    BY <1>3, RollLeaves, Zenon
  <2>2. answer'.ok \/ answer'.via = "roll_failed"
    BY <2>1 DEF RollSaid
  <2> QED BY <2>2, Zenon DEF StopJustified
<1>4. CASE UNCHANGED vars
  BY <1>4 DEF vars, StopJustified
<1> QED BY <1>1, <1>2, <1>3, <1>4, Steps

\* A session is only ever stopped early for what the player has left.
THEOREM StopCorrect == Spec => []StopJustified
<1>1. Init => StopJustified
  <2> SUFFICES ASSUME Init PROVE StopJustified
    OBVIOUS
  <2>1. answer = [of |-> [verb |-> ""], ok |-> TRUE, via |-> "", bank |-> 0, pso |-> FALSE]
    BY Zenon DEF Init
  <2>2. answer.ok
    BY <2>1
  <2> QED BY <2>2, Zenon DEF StopJustified
<1> QED BY <1>1, StopStep, PTL DEF Spec

\* The seven-outs are counted.
SevensCounted == sevens \in Nat

\* No step loses count of them.
LEMMA SevenStep == ASSUME SevensCounted, [Next]_vars PROVE SevensCounted'
<1>1. ASSUME NEW total, NEW fate, NEW raises \in BOOLEAN, NEW clear, NEW add,
             StepRoll(total, fate, raises, clear, add)
      PROVE  SevensCounted'
  <2>1. sevens' = sevens \/ \E n \in {0, 1} : sevens' = sevens + n
    BY <1>1, RollLeaves
  <2> QED BY <2>1 DEF SevensCounted
<1> QED BY <1>1, Steps DEF ApplyAction, StopEarly, vars, SevensCounted

\* A call reports a seven-out if and only if it counts one.
LEMMA SevenReported ==
  ASSUME SevensCounted, Next, calls' # calls PROVE answer'.pso = (sevens' # sevens)
<1>1. ASSUME NEW r \in Requests, NEW add, NEW rem, ApplyAction(r, add, rem)
      PROVE  answer'.pso = (sevens' # sevens)
  <2>1. answer' = Acted(table, player, mirror, r, add, rem).answer /\ sevens' = sevens
    BY <1>1 DEF ApplyAction, Become
  <2> QED BY <2>1, AnswerOfVerb
<1>2. CASE StopEarly
  BY <1>2 DEF StopEarly, Become, Left, RollSaid
<1>3. ASSUME NEW total, NEW fate, NEW raises \in BOOLEAN, NEW clear, NEW add,
             StepRoll(total, fate, raises, clear, add)
      PROVE  answer'.pso = (sevens' # sevens)
  <2> DEFINE was == Seen(table, player)
  <2>1. Pso(was, total) = SevenOut(table, total) /\ SevenOut(table, total) \in BOOLEAN
    BY DEF Seen, Pso, SevenOut
  <2>2. \A ok, via, pso : RollSaid(ok, via, pso).pso = pso
    BY DEF RollSaid
  <2> HIDE DEF was
  <2>3. CASE UNCHANGED <<table, sevens>> /\ answer' = RollSaid(FALSE, "roll_failed", FALSE)
    BY <2>2, <2>3
  <2>4. CASE sevens' = sevens + (IF SevenOut(table, total) THEN 1 ELSE 0) /\ answer' = RollSaid(TRUE, "engine", Pso(was, total))
    <3>1. answer'.pso = SevenOut(table, total)
      BY <2>1, <2>2, <2>4, Zenon
    <3>2. sevens' # sevens <=> SevenOut(table, total)
      BY <2>4 DEF SevensCounted
    <3> QED BY <2>1, <3>1, <3>2, Zenon
  <2>5. \/ UNCHANGED <<table, sevens>> /\ answer' = RollSaid(FALSE, "roll_failed", FALSE)
        \/ sevens' = sevens + (IF SevenOut(table, total) THEN 1 ELSE 0) /\ answer' = RollSaid(TRUE, "engine", Pso(was, total))
    BY <1>3, RollLeaves, Zenon DEF was
  <2> QED BY <2>3, <2>4, <2>5
<1> QED BY <1>1, <1>2, <1>3, Steps

\* Every seven-out is reported as one and nothing else is.
THEOREM SevensCorrect == Spec => SevensReported
<1>1. Init => SevensCounted
  <2>1. Init => sevens = 0
    BY Zenon DEF Init
  <2> QED BY <2>1 DEF SevensCounted
<1>2. SevensCounted /\ [Next]_vars => [calls' # calls => answer'.pso = (sevens' # sevens)]_vars
  BY SevenReported DEF vars
<1> QED BY <1>1, <1>2, SevenStep, PTL DEF Spec, SevensReported

\* At a come-out the strategy leaves nothing but its pass line.
LEMMA AtComeOut ==
  ASSUME NEW s, NEW p, NEW clear, NEW add
  PROVE  /\ Asked(s, p, 0, clear, add).laid = FALSE
         /\ Asked(s, p, 0, clear, add).strategy.armed = FALSE
         /\ Asked(s, p, 0, clear, add).player.bets \in {<<>>, ComeOutBets}
<1> DEFINE q == Emptied(p, clear)
<1>1. q.bets = <<>>
  BY DEF Emptied
<1>2. <<>> \o ComeOutBets = ComeOutBets
  BY DEF ComeOutBets
<1>3. AddMany(q, ComeOutBets, add).bets \in {<<>>, ComeOutBets}
  <2> HIDE DEF q
  <2> QED BY <1>1, <1>2 DEF AddMany
<1>4. Asked(s, p, 0, clear, add).player = AddMany(q, ComeOutBets, add)
  BY DEF Asked
<1>5. Asked(s, p, 0, clear, add).laid = FALSE /\ Asked(s, p, 0, clear, add).strategy.armed = FALSE
  BY DEF Asked
<1> QED BY <1>3, <1>4, <1>5

\* With a point it bets unless it has, and then it knows the point.
LEMMA AtPoint ==
  ASSUME NEW s, s.armed \in BOOLEAN, NEW p, NEW point, point # 0, NEW clear, NEW add
  PROVE  /\ Asked(s, p, point, clear, add).laid = ~(s.armed /\ s.point = point)
         /\ Asked(s, p, point, clear, add).strategy = [armed |-> TRUE, point |-> point]
BY DEF Asked

\* Once there is a point the strategy has bet at most once, and then it knows.
PhaseInv ==
  /\ strategy.armed \in BOOLEAN
  /\ table.point \in Nat
  /\ table.asks =>
       /\ thrown.laid \in {0, 1}
       /\ table.point # 0 /\ thrown.laid = 1 => strategy.armed /\ strategy.point = table.point
       /\ thrown.point = 0 => thrown.bets \in {<<>>, ComeOutBets}

\* A roll makes a point only where there is none.
LEMMA PointAfter ==
  ASSUME table.point \in Nat, BetConstants, NEW total \in Boxes \cup {7}
  PROVE  /\ TableRolled(table, total).asks = table.asks
         /\ TableRolled(table, total).point \in Nat
         /\ table.point # 0 => TableRolled(table, total).point \in {0, table.point}
<1>1. total \in Nat
  BY DEF BetConstants
<1> QED BY <1>1 DEF TableRolled

\* No step has it bet a second time.
LEMMA PhaseStep == ASSUME BetConstants, PhaseInv, [Next]_vars PROVE PhaseInv'
<1>1. ASSUME NEW r \in Requests, NEW add, NEW rem, ApplyAction(r, add, rem) PROVE PhaseInv'
  BY <1>1 DEF ApplyAction, PhaseInv
<1>2. CASE StopEarly
  BY <1>2 DEF StopEarly, PhaseInv
<1>3. ASSUME NEW total \in Boxes \cup {7}, NEW fate, NEW raises \in BOOLEAN, NEW clear, NEW add,
             StepRoll(total, fate, raises, clear, add)
      PROVE  PhaseInv'
  <2>0. /\ strategy' = Prepared(table, strategy, player, clear, add).strategy
        /\ thrown' = Throw(Prepared(table, strategy, player, clear, add))
    BY <1>3, RollThrows
  <2>1. /\ table'.asks = table.asks /\ table'.point \in Nat
        /\ table.point # 0 => table'.point \in {0, table.point}
    <3>1. table' = table \/ table' = TableRolled(table, total)
      BY <1>3, RollLeaves, Zenon
    <3>2. table.point \in Nat
      BY DEF PhaseInv
    <3> QED BY <3>1, <3>2, PointAfter
  <2>2. CASE ~table.asks
    <3>1. strategy' = strategy
      BY <2>0, <2>2 DEF Prepared
    <3> QED BY <2>1, <2>2, <3>1 DEF PhaseInv
  <2>3. CASE table.asks
    <3> DEFINE ready == Asked(strategy, player, table.point, clear, add)
    <3>1. strategy' = ready.strategy /\ thrown' = Throw(ready)
      <4>1. Prepared(table, strategy, player, clear, add) = ready
        BY <2>3, Zenon DEF Prepared
      <4> QED BY <2>0, <4>1, Zenon
    <3>2. CASE table.point = 0
      <4>1. /\ ready.laid = FALSE /\ ready.strategy.armed = FALSE
            /\ ready.player.bets \in {<<>>, ComeOutBets}
        <5> DEFINE out == Asked(strategy, player, 0, clear, add)
        <5>1. ready = out
          BY <3>2
        <5>2. out.laid = FALSE /\ out.strategy.armed = FALSE /\ out.player.bets \in {<<>>, ComeOutBets}
          BY AtComeOut, Zenon
        <5> HIDE DEF ready, out
        <5> QED BY <5>1, <5>2
      <4> HIDE DEF ready
      <4>2. thrown'.laid = 0 /\ thrown'.point = 0 /\ thrown'.bets \in {<<>>, ComeOutBets}
        BY <3>1, <3>2, <4>1 DEF Throw
      <4>3. thrown'.laid \in {0, 1} /\ thrown'.laid # 1 /\ strategy'.armed = FALSE
        BY <3>1, <4>1, <4>2
      <4> QED BY <2>1, <4>2, <4>3, Zenon DEF PhaseInv
    <3>3. CASE table.point # 0
      <4>1. /\ ready.laid = ~(strategy.armed /\ strategy.point = table.point)
            /\ ready.strategy = [armed |-> TRUE, point |-> table.point]
        BY <3>3, AtPoint DEF PhaseInv
      <4> HIDE DEF ready
      <4>2. thrown'.laid = thrown.laid + (IF ready.laid THEN 1 ELSE 0) /\ thrown'.point = table.point
        BY <3>1, <3>3 DEF Throw
      <4>3. strategy'.armed = TRUE /\ strategy'.point = table.point
        BY <3>1, <4>1
      <4>4. thrown'.laid \in {0, 1}
        <5>1. thrown.laid \in {0, 1} /\ (thrown.laid = 1 => ~ready.laid)
          BY <2>3, <3>3, <4>1, Zenon DEF PhaseInv
        <5> QED BY <4>2, <5>1
      <4>5. table'.point # 0 => table'.point = table.point
        BY <2>1, <3>3
      <4> QED BY <2>1, <3>3, <4>2, <4>3, <4>4, <4>5, Zenon DEF PhaseInv
    <3> QED BY <3>2, <3>3
  <2> QED BY <2>2, <2>3
<1>4. CASE UNCHANGED vars
  BY <1>4 DEF vars, PhaseInv
<1> QED BY <1>1, <1>2, <1>3, <1>4, Steps

\* The dice of a come-out find at most the strategy's pass line, and those of a point
\* no more than one round of its bets.
THEOREM PhaseKept == ASSUME BetConstants PROVE Spec => []StrategyKeepsPhase
<1>1. Init => PhaseInv
  <2> SUFFICES ASSUME Init PROVE PhaseInv
    OBVIOUS
  <2>1. strategy = FreshStrategy /\ thrown = [point |-> 0, bets |-> <<>>, laid |-> 0]
    BY Zenon DEF Init
  <2>2. table \in [point : {0}, hand : {0}, roll : {0}, asks : BOOLEAN]
    BY Zenon DEF Init
  <2>3. thrown.laid = 0 /\ thrown.bets = <<>> /\ table.point = 0 /\ strategy.armed = FALSE
    BY <2>1, <2>2 DEF FreshStrategy
  <2>4. thrown.laid \in {0, 1} /\ thrown.laid # 1 /\ table.point \in Nat
    BY <2>3
  <2> QED BY <2>3, <2>4, Zenon DEF PhaseInv
<1>2. PhaseInv => StrategyKeepsPhase
  BY DEF PhaseInv, StrategyKeepsPhase
<1> QED BY <1>1, <1>2, PhaseStep, PTL DEF Spec

\* Induction up to n: a set that holds 0 and, with a number below n, its successor,
\* holds the numbers up to n.
LEMMA Climb ==
  ASSUME NEW n \in Nat, NEW T, 0 \in T, \A k \in 0..(n - 1) : k \in T => k + 1 \in T
  PROVE  \A k \in 0..n : k \in T
<1> SUFFICES ASSUME NEW x \in 0..n, x \notin T PROVE FALSE
  OBVIOUS
<1> DEFINE A == {k \in 1..x : k \notin T}
           B == {k \in 1..(x - 1) : k \notin T}
<1>1. IsFiniteSet(1..x) /\ IsFiniteSet(1..(x - 1))
  BY FS_Interval
<1>2. IsFiniteSet(A) /\ IsFiniteSet(B)
  BY <1>1, FS_Subset
<1>3. A = B \cup {x} /\ x \notin B
  OBVIOUS
<1>4. Cardinality(A) = Cardinality(B) + 1 /\ Cardinality(B) \in Nat
  BY <1>2, <1>3, FS_AddElement, FS_CardinalityType
<1>5. [k \in A |-> k - 1] \in Injection(A, B)
  <2>1. \A k \in A : k - 1 \in B
    OBVIOUS
  <2> QED BY <2>1 DEF Injection, IsInjective
<1>6. Cardinality(A) <= Cardinality(B)
  BY <1>2, <1>5, FS_Injection DEF ExistsInjection
<1> QED BY <1>4, <1>6

---------------------------------------------------------------------------
(* What is taken of the odds: folds over the player's bets. *)

\* What a fold makes of a sequence of length n: of each set of indices, the last one is
\* taken with what the others come to.
Runs(g, base, S, h) == h = [s \in S |-> IF s = {} THEN base ELSE g[<<Max(s), h[s \ {Max(s)}]>>]]
Few(n, k) == {s \in SUBSET (1..n) : Cardinality(s) <= k}

\* A set of indices that is not empty has a last one, and the others are fewer.
LEMMA LastLess ==
  ASSUME NEW n \in Nat, NEW s \in SUBSET (1..n), s # {}
  PROVE  /\ Max(s) \in s /\ s \ {Max(s)} \in SUBSET (1..n)
         /\ Cardinality(s) \in Nat /\ Cardinality(s \ {Max(s)}) = Cardinality(s) - 1
<1> DEFINE T == {k \in 0..n : \A x \in s : x <= n - k}
<1>1. \E m \in s : \A x \in s : x <= m
  <2> SUFFICES ASSUME \A m \in s : \E x \in s : ~(x <= m) PROVE FALSE
    OBVIOUS
  <2>1. 0 \in T
    OBVIOUS
  <2>2. ASSUME NEW k \in 0..(n - 1), k \in T PROVE k + 1 \in T
    <3>1. n - k \notin s
      BY <2>2
    <3> QED BY <2>2, <3>1
  <2> HIDE DEF T
  <2>3. n \in T
    BY <2>1, <2>2, Climb
  <2>4. \A x \in s : x <= n - n
    BY <2>3 DEF T
  <2>5. \A x \in s : x \in 1..n /\ ~(x <= n - n)
    OBVIOUS
  <2> QED BY <2>4, <2>5
<1>2. Max(s) \in s
  BY <1>1 DEF Max
<1>3. IsFiniteSet(s)
  <2>1. IsFiniteSet(1..n)
    BY FS_Interval
  <2> QED BY <2>1, FS_Subset
<1> QED BY <1>2, <1>3, FS_RemoveElement, FS_CardinalityType

\* There is such a fold, if what an element makes of one thing it may be is another.
LEMMA RunsExist ==
  ASSUME NEW n \in Nat, NEW A, NEW base \in A, NEW g, \A i \in 1..n, a \in A : g[<<i, a>>] \in A
  PROVE  \E h \in [SUBSET (1..n) -> A] : Runs(g, base, SUBSET (1..n), h)
<1> DEFINE T == {k \in 0..n : \E h \in [Few(n, k) -> A] : Runs(g, base, Few(n, k), h)}
<1>0. \A s \in SUBSET (1..n) : IsFiniteSet(s) /\ Cardinality(s) \in 0..n
  <2> TAKE s \in SUBSET (1..n)
  <2>1. IsFiniteSet(1..n) /\ Cardinality(1..n) = n
    <3>1. Cardinality(1..n) = IF 1 > n THEN 0 ELSE n - 1 + 1
      BY FS_Interval
    <3> QED BY <3>1, FS_Interval
  <2>2. IsFiniteSet(s) /\ Cardinality(s) <= n
    BY <2>1, FS_Subset
  <2> QED BY <2>2, FS_CardinalityType
<1>1. 0 \in T
  <2> DEFINE h == [s \in Few(n, 0) |-> base]
  <2>1. \A s \in Few(n, 0) : s = {}
    BY <1>0, FS_EmptySet DEF Few
  <2>2. Runs(g, base, Few(n, 0), h)
    BY <2>1 DEF Runs
  <2> QED BY <2>2
<1>2. ASSUME NEW k \in 0..(n - 1), k \in T PROVE k + 1 \in T
  <2>1. PICK h \in [Few(n, k) -> A] : Runs(g, base, Few(n, k), h)
    BY <1>2
  <2> DEFINE next == [s \in Few(n, k + 1) |-> IF s = {} THEN base ELSE g[<<Max(s), h[s \ {Max(s)}]>>]]
  <2>2. ASSUME NEW s \in Few(n, k + 1), s # {} PROVE s \ {Max(s)} \in Few(n, k) \cap Few(n, k + 1) /\ Max(s) \in 1..n
    <3>1. s \in SUBSET (1..n) /\ Cardinality(s) <= k + 1
      BY DEF Few
    <3>2. Max(s) \in s /\ s \ {Max(s)} \in SUBSET (1..n) /\ Cardinality(s) \in Nat /\ Cardinality(s \ {Max(s)}) = Cardinality(s) - 1
      BY <2>2, <3>1, LastLess
    <3>3. Cardinality(s \ {Max(s)}) <= k /\ Cardinality(s \ {Max(s)}) <= k + 1
      BY <3>1, <3>2
    <3>4. Max(s) \in 1..n
      BY <3>1, <3>2
    <3> QED BY <3>2, <3>3, <3>4, Zenon DEF Few
  <2>3. \A s \in Few(n, k) : h[s] = IF s = {} THEN base ELSE g[<<Max(s), h[s \ {Max(s)}]>>]
    BY <2>1 DEF Runs
  <2>4. ASSUME NEW s \in Few(n, k) \cap Few(n, k + 1) PROVE next[s] = h[s]
    BY <2>3, <2>4
  <2>5. ASSUME NEW s \in Few(n, k + 1), s # {} PROVE next[s] = g[<<Max(s), next[s \ {Max(s)}]>>]
    BY <2>2, <2>4, <2>5
  <2>6. Runs(g, base, Few(n, k + 1), next)
    <3> DEFINE r == [s \in Few(n, k + 1) |-> IF s = {} THEN base ELSE g[<<Max(s), next[s \ {Max(s)}]>>]]
    <3>1. \A s \in Few(n, k + 1) : next[s] = r[s]
      BY <2>5
    <3>2. next = [s \in Few(n, k + 1) |-> next[s]] /\ r = [s \in Few(n, k + 1) |-> r[s]]
      OBVIOUS
    <3> HIDE DEF next, r
    <3>3. next = r
      BY <3>1, <3>2
    <3> QED BY <3>3 DEF r, Runs
  <2>7. \A s \in Few(n, k + 1) : next[s] \in A
    BY <2>2
  <2>8. next \in [Few(n, k + 1) -> A]
    BY <2>7
  <2> HIDE DEF next
  <2> QED BY <2>6, <2>8
<1> HIDE DEF T
<1>3. n \in T
  BY <1>1, <1>2, Climb
<1>4. Few(n, n) = SUBSET (1..n)
  BY <1>0 DEF Few
<1> QED BY <1>3, <1>4 DEF T

\* Of the first indices the last one is the greatest.
LEMMA LastOfFirst ==
  ASSUME NEW k \in Nat
  PROVE  Max(1..(k + 1)) = k + 1 /\ (1..(k + 1)) \ {k + 1} = 1..k /\ 1..(k + 1) # {} /\ 1..0 = {}
<1>1. \A x \in 1..(k + 1) : k + 1 >= x
  OBVIOUS
<1>2. \A m \in 1..(k + 1) : (\A x \in 1..(k + 1) : m >= x) => m = k + 1
  OBVIOUS
<1>3. Max(1..(k + 1)) = k + 1
  BY <1>1, <1>2 DEF Max
<1> QED BY <1>3

\* Bets of the engine.
Fams == {"place", "buy", "lay", "pass", "dont_pass", "come", "dc", "field", "hardway", "prop", "ats",
         "odds_pass", "odds_dont_pass", "odds_come", "odds_dc"}
Bets == [fam : Fams, num : Nat, amt : Nat]

\* Each has an amount.
LEMMA BetAmounts == ASSUME NEW bets \in Seq(Bets) PROVE \A i \in 1..Len(bets) : bets[i] \in Bets /\ bets[i].amt \in Nat
<1>1. \A i \in 1..Len(bets) : bets[i] \in Bets
  BY ElementOfSeq
<1> QED BY <1>1 DEF Bets

\* What some of the bets come to, for each set of indices.
Sums(bets, X, h) ==
  h = [s \in SUBSET (1..Len(bets)) |->
         IF s = {} THEN 0
         ELSE IF Max(s) \in X THEN h[s \ {Max(s)}] + bets[Max(s)].amt ELSE h[s \ {Max(s)}]]

\* What they come to so far.
SoFar(bets, X, u) ==
  /\ u[0] = 0 /\ \A k \in 0..Len(bets) : u[k] \in Nat
  /\ \A k \in 0..(Len(bets) - 1) : u[k + 1] = u[k] + IF k + 1 \in X THEN bets[k + 1].amt ELSE 0

\* There are such sums.
LEMMA SumsExist == ASSUME NEW bets \in Seq(Bets), NEW X PROVE \E h : Sums(bets, X, h)
<1> DEFINE n == Len(bets)
           g == [z \in (1..n) \X Nat |-> IF z[1] \in X THEN z[2] + bets[z[1]].amt ELSE z[2]]
<1>1. \A i \in 1..n : bets[i].amt \in Nat
  BY BetAmounts
<1>2. \A i \in 1..n, a \in Nat : g[<<i, a>>] = IF i \in X THEN a + bets[i].amt ELSE a
  OBVIOUS
<1>3. ASSUME NEW i \in 1..n, NEW a \in Nat PROVE g[<<i, a>>] \in Nat
  <2>1. g[<<i, a>>] = a + bets[i].amt \/ g[<<i, a>>] = a
    BY <1>2
  <2>2. bets[i].amt \in Nat
    BY <1>1
  <2> HIDE DEF g
  <2> QED BY <2>1, <2>2
<1>4. n \in Nat
  BY LenProperties
<1> HIDE DEF g
<1>5. PICK h \in [SUBSET (1..n) -> Nat] : Runs(g, 0, SUBSET (1..n), h)
  BY <1>3, <1>4, RunsExist
<1>6. \A s \in SUBSET (1..n) : h[s] = IF s = {} THEN 0 ELSE g[<<Max(s), h[s \ {Max(s)}]>>]
  BY <1>5 DEF Runs
<1>7. ASSUME NEW s \in SUBSET (1..n), s # {}
      PROVE  h[s] = IF Max(s) \in X THEN h[s \ {Max(s)}] + bets[Max(s)].amt ELSE h[s \ {Max(s)}]
  <2>1. Max(s) \in 1..n /\ s \ {Max(s)} \in SUBSET (1..n)
    BY <1>4, <1>7, LastLess
  <2>2. h[s \ {Max(s)}] \in Nat
    BY <2>1
  <2> QED BY <1>2, <1>6, <1>7, <2>1, <2>2
<1>8. Sums(bets, X, h)
  <2> DEFINE r(s) == IF s = {} THEN 0
                     ELSE IF Max(s) \in X THEN h[s \ {Max(s)}] + bets[Max(s)].amt ELSE h[s \ {Max(s)}]
  <2>1. \A s \in SUBSET (1..n) : h[s] = r(s)
    BY <1>6, <1>7
  <2> HIDE DEF r
  <2>2. h = [s \in SUBSET (1..n) |-> r(s)]
    BY <2>1
  <2> QED BY <2>2 DEF r, Sums
<1> QED BY <1>8

\* Such sums grow bet by bet.
LEMMA SumsGrow ==
  ASSUME NEW bets \in Seq(Bets), NEW X, NEW h, Sums(bets, X, h)
  PROVE  \E u : SoFar(bets, X, u) /\ u[Len(bets)] = h[1..Len(bets)]
<1> DEFINE n == Len(bets)
           u == [k \in 0..n |-> h[1..k]]
           T == {k \in 0..n : u[k] \in Nat}
<1>0. n \in Nat
  BY LenProperties
<1>1. \A i \in 1..n : bets[i].amt \in Nat
  BY BetAmounts
<1>2. \A s \in SUBSET (1..n) :
        h[s] = IF s = {} THEN 0 ELSE IF Max(s) \in X THEN h[s \ {Max(s)}] + bets[Max(s)].amt ELSE h[s \ {Max(s)}]
  <2> DEFINE r(s) == IF s = {} THEN 0
                     ELSE IF Max(s) \in X THEN h[s \ {Max(s)}] + bets[Max(s)].amt ELSE h[s \ {Max(s)}]
  <2>1. h = [s \in SUBSET (1..n) |-> r(s)]
    BY DEF Sums
  <2> HIDE DEF r
  <2>2. \A s \in SUBSET (1..n) : h[s] = r(s)
    BY <2>1
  <2> QED BY <2>2 DEF r
<1>3. u[0] = 0
  <2>1. 1..0 = {} /\ 1..0 \in SUBSET (1..n)
    OBVIOUS
  <2>2. h[1..0] = 0
    BY <1>2, <2>1
  <2>3. 0 \in 0..n
    BY <1>0
  <2> QED BY <2>2, <2>3
<1>4. ASSUME NEW k \in 0..(n - 1)
      PROVE  u[k + 1] = IF k + 1 \in X THEN u[k] + bets[k + 1].amt ELSE u[k]
  <2>1. /\ Max(1..(k + 1)) = k + 1 /\ (1..(k + 1)) \ {k + 1} = 1..k /\ 1..(k + 1) # {}
        /\ 1..(k + 1) \in SUBSET (1..n)
    <3>1. k \in Nat /\ k + 1 <= n
      BY <1>0
    <3>2. 1..(k + 1) \in SUBSET (1..n)
      BY <1>0, <3>1
    <3> QED BY <3>1, <3>2, LastOfFirst
  <2>2. h[1..(k + 1)] = IF k + 1 \in X THEN h[1..k] + bets[k + 1].amt ELSE h[1..k]
    BY <1>2, <2>1
  <2> QED BY <2>2
<1> HIDE DEF u
<1>5. 0 \in T
  BY <1>0, <1>3
<1>6. ASSUME NEW k \in 0..(n - 1), k \in T PROVE k + 1 \in T
  BY <1>1, <1>4, <1>6
<1> HIDE DEF T
<1>7. \A k \in 0..n : k \in T
  BY <1>0, <1>5, <1>6, Climb
<1>8. \A k \in 0..n : u[k] \in Nat
  BY <1>7 DEF T
<1>9. \A k \in 0..(n - 1) : u[k + 1] = u[k] + IF k + 1 \in X THEN bets[k + 1].amt ELSE 0
  <2> TAKE k \in 0..(n - 1)
  <2>1. u[k] \in Nat
    BY <1>8
  <2> QED BY <1>4, <2>1
<1>10. u[n] = h[1..n]
  BY <1>0 DEF u
<1> QED BY <1>3, <1>8, <1>9, <1>10 DEF SoFar

\* The bets that odds are taken from.
Riding(bets, r, n) == {i \in 1..Len(bets) : bets[i].fam = OddsOn(r.side) /\ n \in {0, bets[i].num}}

\* What is riding is what they come to.
LEMMA RidingSums ==
  ASSUME NEW bets \in Seq(Bets), NEW r, NEW n
  PROVE  \E u : /\ SoFar(bets, Riding(bets, r, n), u)
                /\ u[Len(bets)] = RidingOn(bets, r, n)
<1> DEFINE X == Riding(bets, r, n)
           len == Len(bets)
           form(h) == h = [s \in SUBSET (1..len) |->
                             IF s = {} THEN 0
                             ELSE IF bets[Max(s)].fam = OddsOn(r.side) /\ n \in {0, bets[Max(s)].num}
                                  THEN h[s \ {Max(s)}] + bets[Max(s)].amt ELSE h[s \ {Max(s)}]]
           f == CHOOSE h : form(h)
<1>0. len \in Nat /\ DOMAIN bets = 1..len
  BY LenProperties
<1>1. RidingOn(bets, r, n) = f[1..len]
  BY <1>0 DEF RidingOn, Rides, Total, FoldLeft, MapThenFoldSet
<1>2. ASSUME NEW h PROVE form(h) <=> Sums(bets, X, h)
  <2> DEFINE mine(s) == IF s = {} THEN 0
                        ELSE IF bets[Max(s)].fam = OddsOn(r.side) /\ n \in {0, bets[Max(s)].num}
                             THEN h[s \ {Max(s)}] + bets[Max(s)].amt ELSE h[s \ {Max(s)}]
             its(s) == IF s = {} THEN 0
                       ELSE IF Max(s) \in X THEN h[s \ {Max(s)}] + bets[Max(s)].amt ELSE h[s \ {Max(s)}]
  <2>1. ASSUME NEW s \in SUBSET (1..len) PROVE mine(s) = its(s)
    <3>1. s # {} => Max(s) \in 1..len
      BY <1>0, LastLess
    <3> QED BY <3>1 DEF Riding
  <2> HIDE DEF mine, its
  <2>2. [s \in SUBSET (1..len) |-> mine(s)] = [s \in SUBSET (1..len) |-> its(s)]
    BY <2>1
  <2> QED BY <2>2 DEF mine, its, Sums
<1> HIDE DEF form, X
<1>3. form(f)
  BY <1>2, SumsExist
<1>4. Sums(bets, X, f)
  BY <1>2, <1>3
<1> QED BY <1>1, <1>4, SumsGrow DEF X

\* The amount of all bets.
All(bets) == Total(bets, LAMBDA b : TRUE)

\* All the bets come to an amount.
LEMMA AllTotal == ASSUME NEW bets \in Seq(Bets) PROVE All(bets) \in Nat
<1> DEFINE len == Len(bets)
           form(h) == h = [s \in SUBSET (1..len) |->
                             IF s = {} THEN 0
                             ELSE IF TRUE THEN h[s \ {Max(s)}] + bets[Max(s)].amt ELSE h[s \ {Max(s)}]]
           f == CHOOSE h : form(h)
<1>0. len \in Nat /\ DOMAIN bets = 1..len
  BY LenProperties
<1>1. All(bets) = f[1..len]
  BY <1>0 DEF All, Total, FoldLeft, MapThenFoldSet
<1>2. ASSUME NEW h PROVE form(h) <=> Sums(bets, 1..len, h)
  <2> DEFINE mine(s) == IF s = {} THEN 0
                        ELSE IF TRUE THEN h[s \ {Max(s)}] + bets[Max(s)].amt ELSE h[s \ {Max(s)}]
             its(s) == IF s = {} THEN 0
                       ELSE IF Max(s) \in 1..len THEN h[s \ {Max(s)}] + bets[Max(s)].amt ELSE h[s \ {Max(s)}]
  <2>1. ASSUME NEW s \in SUBSET (1..len) PROVE mine(s) = its(s)
    <3>1. s # {} => Max(s) \in 1..len
      BY <1>0, LastLess
    <3> QED BY <3>1
  <2> HIDE DEF mine, its
  <2>2. [s \in SUBSET (1..len) |-> mine(s)] = [s \in SUBSET (1..len) |-> its(s)]
    BY <2>1
  <2> QED BY <2>2 DEF mine, its, Sums
<1> HIDE DEF form
<1>3. form(f)
  BY <1>2, SumsExist
<1>4. PICK u : SoFar(bets, 1..len, u) /\ u[len] = f[1..len]
  BY <1>2, <1>3, SumsGrow
<1> QED BY <1>0, <1>1, <1>4 DEF SoFar

\* What holds at the start of a fold and step by step holds at its end.
LEMMA FoldStays ==
  ASSUME NEW n \in Nat, NEW A, NEW f, f[{}] \in A,
         \A k \in 0..(n - 1) : f[1..k] \in A => f[1..(k + 1)] \in A
  PROVE  f[1..n] \in A
<1> DEFINE T == {k \in 0..n : f[1..k] \in A}
<1>1. 0 \in T
  <2>1. 1..0 = {}
    OBVIOUS
  <2> QED BY <2>1
<1>2. \A k \in 0..(n - 1) : k \in T => k + 1 \in T
  OBVIOUS
<1> HIDE DEF T
<1>3. \A k \in 0..n : k \in T
  BY <1>1, <1>2, Climb
<1> QED BY <1>3 DEF T

\* The engine's player.
Players == [bankroll : Int, bets : Seq(Bets)]

\* The amount of the bets of some families, of those with a number where asked.
Gone(bets, fams, numbered) == Total(bets, LAMBDA b : b.fam \in fams /\ (numbered => b.num # 0))

\* What some families come to is an amount.
LEMMA GoneTotal ==
  ASSUME NEW bets \in Seq(Bets), NEW fams, NEW numbered
  PROVE  Gone(bets, fams, numbered) \in Nat
<1> DEFINE X == {i \in 1..Len(bets) : bets[i].fam \in fams /\ (numbered => bets[i].num # 0)}
           len == Len(bets)
           form(h) == h = [s \in SUBSET (1..len) |->
                             IF s = {} THEN 0
                             ELSE IF bets[Max(s)].fam \in fams /\ (numbered => bets[Max(s)].num # 0)
                                  THEN h[s \ {Max(s)}] + bets[Max(s)].amt ELSE h[s \ {Max(s)}]]
           f == CHOOSE h : form(h)
<1>0. len \in Nat /\ DOMAIN bets = 1..len
  BY LenProperties
<1>1. Gone(bets, fams, numbered) = f[1..len]
  BY <1>0 DEF Gone, Total, FoldLeft, MapThenFoldSet
<1>2. ASSUME NEW h PROVE form(h) <=> Sums(bets, X, h)
  <2> DEFINE mine(s) == IF s = {} THEN 0
                        ELSE IF bets[Max(s)].fam \in fams /\ (numbered => bets[Max(s)].num # 0)
                             THEN h[s \ {Max(s)}] + bets[Max(s)].amt ELSE h[s \ {Max(s)}]
             its(s) == IF s = {} THEN 0
                       ELSE IF Max(s) \in X THEN h[s \ {Max(s)}] + bets[Max(s)].amt ELSE h[s \ {Max(s)}]
  <2>1. ASSUME NEW s \in SUBSET (1..len) PROVE mine(s) = its(s)
    <3>1. s # {} => Max(s) \in 1..len
      BY <1>0, LastLess
    <3> QED BY <3>1
  <2> HIDE DEF mine, its
  <2>2. [s \in SUBSET (1..len) |-> mine(s)] = [s \in SUBSET (1..len) |-> its(s)]
    BY <2>1
  <2> HIDE DEF X
  <2> QED BY <2>2 DEF mine, its, Sums
<1> HIDE DEF form, X
<1>3. form(f)
  BY <1>2, SumsExist
<1>4. PICK u : SoFar(bets, X, u) /\ u[len] = f[1..len]
  BY <1>2, <1>3, SumsGrow
<1> QED BY <1>0, <1>1, <1>4 DEF SoFar

\* Without some of its bets a player is a player.
LEMMA WithoutPlayer ==
  ASSUME NEW p \in Players, NEW fams, NEW numbered, NEW rem
  PROVE  Without(p, fams, numbered, rem) \in Players
<1> DEFINE bets == p.bets
           n == Len(bets)
           goes(b) == b.fam \in fams /\ (numbered => b.num # 0)
           form(h) == h = [s \in SUBSET (1..n) |->
                             IF s = {} THEN <<>>
                             ELSE IF goes(bets[Max(s)]) THEN h[s \ {Max(s)}] ELSE Append(h[s \ {Max(s)}], bets[Max(s)])]
           f == CHOOSE h : form(h)
           g == [z \in (1..n) \X Seq(Bets) |-> IF goes(bets[z[1]]) THEN z[2] ELSE Append(z[2], bets[z[1]])]
<1>0. bets \in Seq(Bets) /\ n \in Nat /\ DOMAIN bets = 1..n /\ p.bankroll \in Int
  BY LenProperties DEF Players
<1>1. Without(p, fams, numbered, rem) \in {p, [bankroll |-> p.bankroll + 2 * Gone(bets, fams, numbered), bets |-> f[1..n]]}
  BY <1>0 DEF Without, Gone, FoldLeft, MapThenFoldSet
<1>2. \A i \in 1..n, a \in Seq(Bets) : g[<<i, a>>] = IF goes(bets[i]) THEN a ELSE Append(a, bets[i])
  OBVIOUS
<1>3. \A i \in 1..n, a \in Seq(Bets) : g[<<i, a>>] \in Seq(Bets)
  <2> TAKE i \in 1..n, a \in Seq(Bets)
  <2>1. bets[i] \in Bets
    BY <1>0, BetAmounts
  <2>2. Append(a, bets[i]) \in Seq(Bets)
    BY <2>1, AppendProperties
  <2> QED BY <1>2, <2>2
<1> HIDE DEF g, goes
<1>4. PICK h \in [SUBSET (1..n) -> Seq(Bets)] : Runs(g, <<>>, SUBSET (1..n), h)
  BY <1>0, <1>3, RunsExist, EmptySeq
<1>5. form(h)
  <2> DEFINE r(s) == IF s = {} THEN <<>>
                     ELSE IF goes(bets[Max(s)]) THEN h[s \ {Max(s)}] ELSE Append(h[s \ {Max(s)}], bets[Max(s)])
             q(s) == IF s = {} THEN <<>> ELSE g[<<Max(s), h[s \ {Max(s)}]>>]
  <2>1. ASSUME NEW s \in SUBSET (1..n) PROVE r(s) = q(s)
    <3>1. s # {} => Max(s) \in 1..n /\ h[s \ {Max(s)}] \in Seq(Bets)
      BY <1>0, LastLess
    <3> QED BY <1>2, <3>1
  <2> HIDE DEF r, q
  <2>2. [s \in SUBSET (1..n) |-> r(s)] = [s \in SUBSET (1..n) |-> q(s)]
    BY <2>1
  <2> QED BY <1>4, <2>2 DEF r, q, Runs
<1>6. form(f)
  BY <1>5
<1> HIDE DEF f
<1>7. f[{}] \in Seq(Bets)
  <2>1. {} \in SUBSET (1..n)
    OBVIOUS
  <2>2. f[{}] = <<>>
    BY <1>6, <2>1
  <2> QED BY <2>2, EmptySeq
<1>8. ASSUME NEW k \in 0..(n - 1), f[1..k] \in Seq(Bets) PROVE f[1..(k + 1)] \in Seq(Bets)
  <2>1. /\ Max(1..(k + 1)) = k + 1 /\ (1..(k + 1)) \ {k + 1} = 1..k /\ 1..(k + 1) # {}
        /\ 1..(k + 1) \in SUBSET (1..n) /\ k + 1 \in 1..n
    <3>1. k \in Nat /\ 1..(k + 1) \in SUBSET (1..n) /\ k + 1 \in 1..n
      OBVIOUS
    <3> QED BY <3>1, LastOfFirst
  <2>2. f[1..(k + 1)] = IF goes(bets[k + 1]) THEN f[1..k] ELSE Append(f[1..k], bets[k + 1])
    BY <1>6, <2>1
  <2>3. bets[k + 1] \in Bets
    BY <1>0, <2>1, BetAmounts
  <2>4. Append(f[1..k], bets[k + 1]) \in Seq(Bets)
    BY <1>8, <2>3, AppendProperties
  <2> QED BY <1>8, <2>2, <2>4
<1> HIDE DEF form
<1>9. f[1..n] \in Seq(Bets)
  BY <1>0, <1>7, <1>8, FoldStays
<1> HIDE DEF bets
<1>10. Gone(bets, fams, numbered) \in Nat
  BY <1>0, GoneTotal
<1>11. \A x \in Nat : p.bankroll + 2 * x \in Int
  BY <1>0
<1>12. [bankroll |-> p.bankroll + 2 * Gone(bets, fams, numbered), bets |-> f[1..n]] \in Players
  BY <1>9, <1>10, <1>11 DEF Players
<1> QED BY <1>1, <1>12

\* A player whose bets are settled is a player.
LEMMA SettledPlayer ==
  ASSUME NEW p \in Players, NEW fate, NEW total \in Nat
  PROVE  Settled(p, fate, total) \in Players
<1> DEFINE bets == p.bets
           n == Len(bets)
           base == [bankroll |-> p.bankroll, bets |-> <<>>]
           fared(q, i) == LET b == p.bets[i]
                          IN  CASE fate[i] = "stays" -> [q EXCEPT !.bets = Append(@, b)]
                                [] fate[i] = "travels" -> [q EXCEPT !.bets = Append(@, [b EXCEPT !.num = total])]
                                [] fate[i] = "won" -> [q EXCEPT !.bankroll = @ + 4 * b.amt]
                                [] OTHER -> q
           seq == [i \in DOMAIN p.bets |-> i]
           form(h) == h = [s \in SUBSET (DOMAIN seq) |->
                             IF s = {} THEN base ELSE fared(h[s \ {Max(s)}], seq[Max(s)])]
           f == CHOOSE h : form(h)
           g == [z \in (1..n) \X Players |-> fared(z[2], z[1])]
<1>0. bets \in Seq(Bets) /\ n \in Nat /\ DOMAIN bets = 1..n /\ p.bankroll \in Int
  BY LenProperties DEF Players
<1>1. Settled(p, fate, total) = f[DOMAIN seq]
  BY DEF Settled, FoldLeft, MapThenFoldSet
<1>2. DOMAIN seq = 1..n /\ \A i \in 1..n : seq[i] = i
  BY <1>0
<1>3. ASSUME NEW i \in 1..n, NEW q \in Players PROVE fared(q, i) \in Players
  <2> DEFINE b == p.bets[i]
  <2>1. b \in Bets /\ b.amt \in Nat
    BY <1>0, BetAmounts
  <2>2. [b EXCEPT !.num = total] \in Bets
    BY <2>1 DEF Bets
  <2>3. q.bankroll \in Int /\ q.bets \in Seq(Bets)
    BY DEF Players
  <2>4. Append(q.bets, b) \in Seq(Bets) /\ Append(q.bets, [b EXCEPT !.num = total]) \in Seq(Bets)
    BY <2>1, <2>2, <2>3, AppendProperties
  <2>5. q.bankroll + 4 * b.amt \in Int
    BY <2>1, <2>3
  <2>6. \A c : c \in Seq(Bets) => [q EXCEPT !.bets = c] \in Players
    BY DEF Players
  <2>7. \A c : c \in Int => [q EXCEPT !.bankroll = c] \in Players
    BY DEF Players
  <2>8. fared(q, i) \in {[q EXCEPT !.bets = Append(q.bets, b)], [q EXCEPT !.bets = Append(q.bets, [b EXCEPT !.num = total])],
                         [q EXCEPT !.bankroll = q.bankroll + 4 * b.amt], q}
    OBVIOUS
  <2> QED BY <2>4, <2>5, <2>6, <2>7, <2>8
<1>4. base \in Players
  BY <1>0, EmptySeq DEF Players
<1> HIDE DEF fared, base
<1>5. \A i \in 1..n, q \in Players : g[<<i, q>>] = fared(q, i)
  OBVIOUS
<1>6. \A i \in 1..n, q \in Players : g[<<i, q>>] \in Players
  BY <1>3, <1>5
<1> HIDE DEF g, seq
<1>7. PICK h \in [SUBSET (1..n) -> Players] : Runs(g, base, SUBSET (1..n), h)
  BY <1>0, <1>4, <1>6, RunsExist
<1>8. form(h)
  <2> DEFINE r(s) == IF s = {} THEN base ELSE fared(h[s \ {Max(s)}], seq[Max(s)])
             q(s) == IF s = {} THEN base ELSE g[<<Max(s), h[s \ {Max(s)}]>>]
  <2>1. ASSUME NEW s \in SUBSET (1..n) PROVE r(s) = q(s)
    <3>1. s # {} => Max(s) \in 1..n /\ h[s \ {Max(s)}] \in Players
      BY <1>0, LastLess
    <3> QED BY <1>2, <1>5, <3>1
  <2> HIDE DEF r, q
  <2>2. [s \in SUBSET (1..n) |-> r(s)] = [s \in SUBSET (1..n) |-> q(s)]
    BY <2>1
  <2> QED BY <1>2, <1>7, <2>2 DEF r, q, Runs
<1>9. form(f)
  BY <1>8
<1> HIDE DEF f
<1>10. \A s \in SUBSET (1..n) : f[s] = IF s = {} THEN base ELSE fared(f[s \ {Max(s)}], seq[Max(s)])
  <2> DEFINE r(s) == IF s = {} THEN base ELSE fared(f[s \ {Max(s)}], seq[Max(s)])
  <2>1. f = [s \in SUBSET (1..n) |-> r(s)]
    BY <1>2, <1>9
  <2> HIDE DEF r
  <2>2. \A s \in SUBSET (1..n) : f[s] = r(s)
    BY <2>1
  <2> QED BY <2>2 DEF r
<1> HIDE DEF form
<1>11. f[{}] \in Players
  <2>1. {} \in SUBSET (1..n)
    OBVIOUS
  <2> QED BY <1>4, <1>10, <2>1
<1>12. ASSUME NEW k \in 0..(n - 1), f[1..k] \in Players PROVE f[1..(k + 1)] \in Players
  <2>1. /\ Max(1..(k + 1)) = k + 1 /\ (1..(k + 1)) \ {k + 1} = 1..k /\ 1..(k + 1) # {}
        /\ 1..(k + 1) \in SUBSET (1..n) /\ k + 1 \in 1..n
    <3>1. k \in Nat /\ 1..(k + 1) \in SUBSET (1..n) /\ k + 1 \in 1..n
      BY <1>0
    <3> QED BY <3>1, LastOfFirst
  <2>2. f[1..(k + 1)] = fared(f[1..k], k + 1)
    BY <1>2, <1>10, <2>1
  <2> QED BY <1>3, <1>12, <2>1, <2>2
<1>13. f[1..n] \in Players
  BY <1>0, <1>11, <1>12, FoldStays
<1> QED BY <1>1, <1>2, <1>13

\* A sequence without one of its elements.
LEMMA RemovedAt ==
  ASSUME NEW S, NEW s \in Seq(S), NEW i \in 1..Len(s)
  PROVE  /\ RemoveAt(s, i) \in Seq(S) /\ Len(RemoveAt(s, i)) = Len(s) - 1
         /\ \A j \in 1..(Len(s) - 1) : RemoveAt(s, i)[j] = IF j < i THEN s[j] ELSE s[j + 1]
<1> DEFINE a == SubSeq(s, 1, i - 1)
           b == SubSeq(s, i + 1, Len(s))
<1>0. Len(s) \in Nat
  BY LenProperties
<1>1. a \in Seq(S) /\ Len(a) = i - 1 /\ \A j \in 1..(i - 1) : a[j] = s[j]
  BY <1>0
<1>2. b \in Seq(S) /\ Len(b) = Len(s) - i /\ \A j \in 1..(Len(s) - i) : b[j] = s[i + j]
  BY <1>0
<1>3. RemoveAt(s, i) = a \o b
  BY DEF RemoveAt
<1> HIDE DEF a, b
<1>4. a \o b \in Seq(S) /\ Len(a \o b) = Len(s) - 1
  <2>1. a \o b \in Seq(S) /\ Len(a \o b) = Len(a) + Len(b)
    BY <1>1, <1>2, ConcatProperties
  <2> QED BY <1>0, <1>1, <1>2, <2>1
<1>5. ASSUME NEW j \in 1..(Len(s) - 1) PROVE (a \o b)[j] = IF j < i THEN s[j] ELSE s[j + 1]
  <2>1. CASE j < i
    <3>1. (a \o b)[j] = a[j]
      BY <1>0, <1>1, <1>2, <2>1
    <3> QED BY <1>1, <2>1, <3>1
  <2>2. CASE ~(j < i)
    <3>1. (a \o b)[j] = b[j - (i - 1)]
      BY <1>0, <1>1, <1>2, <2>2
    <3>2. j - (i - 1) \in 1..(Len(s) - i) /\ i + (j - (i - 1)) = j + 1
      BY <1>0, <2>2
    <3>3. b[j - (i - 1)] = s[j + 1]
      BY <1>2, <3>2
    <3> QED BY <2>2, <3>1, <3>3
  <2> QED BY <2>1, <2>2
<1> QED BY <1>3, <1>4, <1>5

\* A bet the player has dropped.
LEMMA Dropped ==
  ASSUME NEW p \in Players, NEW i \in 1..Len(p.bets)
  PROVE  /\ Drop(p, i, "taken") \in Players /\ Drop(p, i, "ignored") = p
         /\ Drop(p, i, "taken").bankroll = p.bankroll + 2 * p.bets[i].amt
         /\ Drop(p, i, "taken").bets = RemoveAt(p.bets, i)
<1>1. p.bankroll \in Int /\ p.bets \in Seq(Bets)
  BY DEF Players
<1>2. p.bets[i].amt \in Nat
  BY <1>1, BetAmounts
<1>3. RemoveAt(p.bets, i) \in Seq(Bets)
  BY <1>1, RemovedAt
<1>4. p.bankroll + 2 * p.bets[i].amt \in Int
  BY <1>1, <1>2
<1>5. Drop(p, i, "taken") = [bankroll |-> p.bankroll + 2 * p.bets[i].amt, bets |-> RemoveAt(p.bets, i)]
  BY DEF Drop
<1>6. Drop(p, i, "taken") \in Players
  BY <1>3, <1>4, <1>5 DEF Players
<1>7. Drop(p, i, "ignored") = p
  BY DEF Drop
<1> QED BY <1>5, <1>6, <1>7

\* A bet the player is given.
LEMMA Added ==
  ASSUME NEW p \in Players, NEW b \in Bets, NEW how
  PROVE  /\ Add(p, b, how) \in Players
         /\ Add(p, b, "taken").bankroll = p.bankroll - 2 * b.amt
<1>1. p.bankroll \in Int /\ p.bets \in Seq(Bets) /\ b.amt \in Nat
  BY DEF Players, Bets
<1>2. Append(p.bets, b) \in Seq(Bets)
  BY <1>1, AppendProperties
<1>3. p.bankroll - 2 * b.amt \in Int
  BY <1>1
<1>4. [bankroll |-> p.bankroll - 2 * b.amt, bets |-> Append(p.bets, b)] \in Players
  BY <1>2, <1>3 DEF Players
<1> QED BY <1>4 DEF Add

\* What rides is a number.
LEMMA RidingIsNat ==
  ASSUME NEW q \in Seq(Bets), NEW r, NEW n PROVE RidingOn(q, r, n) \in Nat
<1>1. PICK u : SoFar(q, Riding(q, r, n), u) /\ u[Len(q)] = RidingOn(q, r, n)
  BY RidingSums
<1>2. Len(q) \in Nat
  BY LenProperties
<1> QED BY <1>1, <1>2 DEF SoFar

\* What rides with one more bet.
LEMMA RidingAdded ==
  ASSUME NEW q \in Seq(Bets), NEW b \in Bets, NEW r, NEW n
  PROVE  /\ RidingOn(q, r, n) \in Nat
         /\ RidingOn(Append(q, b), r, n) = RidingOn(q, r, n) + (IF Rides(b, r, n) THEN b.amt ELSE 0)
<1> DEFINE len == Len(q)
           w == Append(q, b)
<1>0. /\ len \in Nat /\ w \in Seq(Bets) /\ Len(w) = len + 1 /\ w[len + 1] = b
      /\ \A j \in 1..len : w[j] = q[j]
  BY LenProperties, AppendProperties
<1> HIDE DEF w
<1>1. PICK u : SoFar(q, Riding(q, r, n), u) /\ u[len] = RidingOn(q, r, n)
  BY RidingSums
<1>2. PICK v : SoFar(w, Riding(w, r, n), v) /\ v[len + 1] = RidingOn(w, r, n)
  BY <1>0, RidingSums
<1> DEFINE T == {k \in 0..len : u[k] = v[k]}
<1>3. 0 \in T
  BY <1>0, <1>1, <1>2 DEF SoFar
<1>4. ASSUME NEW k \in 0..(len - 1), k \in T PROVE k + 1 \in T
  <2>1. /\ u[k + 1] = u[k] + (IF k + 1 \in Riding(q, r, n) THEN q[k + 1].amt ELSE 0)
        /\ v[k + 1] = v[k] + (IF k + 1 \in Riding(w, r, n) THEN w[k + 1].amt ELSE 0)
    BY <1>0, <1>1, <1>2 DEF SoFar
  <2>2. w[k + 1] = q[k + 1] /\ k + 1 \in 0..len
    BY <1>0
  <2>3. k + 1 \in Riding(q, r, n) <=> k + 1 \in Riding(w, r, n)
    BY <1>0, <2>2 DEF Riding
  <2> QED BY <1>4, <2>1, <2>2, <2>3
<1> HIDE DEF T
<1>5. len \in T
  <2>1. \A k \in 0..len : k \in T
    BY <1>0, <1>3, <1>4, Climb
  <2> QED BY <1>0, <2>1
<1>6. v[len + 1] = v[len] + (IF len + 1 \in Riding(w, r, n) THEN b.amt ELSE 0)
  BY <1>0, <1>2 DEF SoFar
<1>7. len + 1 \in Riding(w, r, n) <=> Rides(b, r, n)
  BY <1>0 DEF Riding, Rides
<1>8. u[len] \in Nat
  BY <1>0, <1>1 DEF SoFar
<1> QED BY <1>1, <1>2, <1>5, <1>6, <1>7, <1>8 DEF T, w

\* What rides with one bet less.
LEMMA RidingDropped ==
  ASSUME NEW q \in Seq(Bets), NEW i \in 1..Len(q), NEW r, NEW n, Rides(q[i], r, n)
  PROVE  RidingOn(RemoveAt(q, i), r, n) = RidingOn(q, r, n) - q[i].amt
<1> DEFINE len == Len(q)
           w == RemoveAt(q, i)
<1>0. /\ len \in Nat /\ i \in 1..len /\ w \in Seq(Bets) /\ Len(w) = len - 1
      /\ \A j \in 1..(len - 1) : w[j] = IF j < i THEN q[j] ELSE q[j + 1]
  BY LenProperties, RemovedAt
<1>1. q[i].amt \in Nat
  BY BetAmounts
<1> HIDE DEF w
<1>2. PICK u : SoFar(q, Riding(q, r, n), u) /\ u[len] = RidingOn(q, r, n)
  BY RidingSums
<1>3. PICK v : SoFar(w, Riding(w, r, n), v) /\ v[len - 1] = RidingOn(w, r, n)
  BY <1>0, RidingSums
<1>4. /\ \A k \in 0..len : u[k] \in Nat
      /\ \A k \in 0..(len - 1) : v[k] \in Nat
      /\ u[0] = 0 /\ v[0] = 0
      /\ \A k \in 0..(len - 1) : u[k + 1] = u[k] + (IF k + 1 \in Riding(q, r, n) THEN q[k + 1].amt ELSE 0)
      /\ \A k \in 0..(len - 2) : v[k + 1] = v[k] + (IF k + 1 \in Riding(w, r, n) THEN w[k + 1].amt ELSE 0)
  BY <1>0, <1>2, <1>3 DEF SoFar
<1> DEFINE T == {k \in 0..(len - 1) : v[k] = IF k < i THEN u[k] ELSE u[k + 1] - q[i].amt}
<1>5. 0 \in T
  BY <1>0, <1>4
<1>6. ASSUME NEW k \in 0..((len - 1) - 1), k \in T PROVE k + 1 \in T
  <2>0. k \in Nat /\ k + 1 \in 1..(len - 1) /\ k \in 0..(len - 2) /\ k \in 0..(len - 1) /\ k + 1 \in 0..(len - 1)
    BY <1>0
  <2>1. /\ u[k + 1] = u[k] + (IF k + 1 \in Riding(q, r, n) THEN q[k + 1].amt ELSE 0)
        /\ u[(k + 1) + 1] = u[k + 1] + (IF (k + 1) + 1 \in Riding(q, r, n) THEN q[(k + 1) + 1].amt ELSE 0)
        /\ v[k + 1] = v[k] + (IF k + 1 \in Riding(w, r, n) THEN w[k + 1].amt ELSE 0)
        /\ u[k] \in Nat /\ u[k + 1] \in Nat /\ u[(k + 1) + 1] \in Nat /\ v[k] \in Nat /\ v[k + 1] \in Nat
    BY <1>0, <1>4, <2>0
  <2>2. v[k] = IF k < i THEN u[k] ELSE u[k + 1] - q[i].amt
    BY <1>6
  <2>3. CASE k + 1 < i
    <3>1. w[k + 1] = q[k + 1]
      BY <1>0, <2>0, <2>3
    <3>2. k + 1 \in Riding(q, r, n) <=> k + 1 \in Riding(w, r, n)
      BY <1>0, <2>0, <3>1 DEF Riding
    <3>3. v[k] = u[k]
      BY <1>0, <2>0, <2>2, <2>3
    <3> QED BY <2>0, <2>1, <2>3, <3>1, <3>2, <3>3
  <2>4. CASE ~(k + 1 < i)
    <3>1. w[k + 1] = q[(k + 1) + 1]
      BY <1>0, <2>0, <2>4
    <3>2. (k + 1) + 1 \in Riding(q, r, n) <=> k + 1 \in Riding(w, r, n)
      BY <1>0, <2>0, <3>1 DEF Riding
    <3>3. v[k] = u[k + 1] - q[i].amt
      <4>1. CASE k < i
        <5>1. k + 1 = i
          BY <1>0, <2>0, <2>4, <4>1
        <5>2. k + 1 \in Riding(q, r, n)
          BY <1>0, <5>1 DEF Riding, Rides
        <5> QED BY <1>1, <2>1, <2>2, <4>1, <5>1, <5>2
      <4>2. CASE ~(k < i)
        BY <2>2, <4>2
      <4> QED BY <4>1, <4>2
    <3>4. v[k + 1] = u[(k + 1) + 1] - q[i].amt
      <4> DEFINE x == IF k + 1 \in Riding(w, r, n) THEN w[k + 1].amt ELSE 0
      <4>1. v[k + 1] = v[k] + x /\ u[(k + 1) + 1] = u[k + 1] + x
        BY <2>1, <3>1, <3>2
      <4>2. x \in Nat
        BY <1>0, <2>0, BetAmounts
      <4> HIDE DEF x
      <4> QED BY <1>1, <2>1, <3>3, <4>1, <4>2
    <3> QED BY <2>0, <2>4, <3>4
  <2> QED BY <2>3, <2>4
<1> HIDE DEF T
<1>7. len - 1 \in T
  <2>1. len - 1 \in Nat
    BY <1>0
  <2>2. \A k \in 0..(len - 1) : k \in T
    BY <1>5, <1>6, <2>1, Climb
  <2> QED BY <2>1, <2>2
<1>8. v[len - 1] = IF len - 1 < i THEN u[len - 1] ELSE u[(len - 1) + 1] - q[i].amt
  BY <1>7 DEF T
<1>9. CASE len - 1 < i
  <2>1. len = i /\ len - 1 \in 0..(len - 1) /\ (len - 1) + 1 = len
    BY <1>0, <1>9
  <2>2. len \in Riding(q, r, n)
    BY <1>0, <2>1 DEF Riding, Rides
  <2>3. u[len] = u[len - 1] + q[i].amt /\ u[len - 1] \in Nat
    BY <1>0, <1>4, <2>1, <2>2
  <2> QED BY <1>1, <1>2, <1>3, <1>8, <1>9, <2>3 DEF w
<1>10. CASE ~(len - 1 < i)
  BY <1>0, <1>2, <1>3, <1>8, <1>10 DEF w
<1> QED BY <1>9, <1>10

\* On the way: of the bets q, those passed are not such bets or have nothing left, and
\* those ahead are as they were.
Ahead(q, bets, k, r, n) ==
  \E m \in 0..k :
    /\ Len(q) = m + (Len(bets) - k)
    /\ \A j \in 1..m : ~(Rides(q[j], r, n) /\ q[j].amt > 0)
    /\ \A j \in (k + 1)..Len(bets) : q[m + (j - k)] = bets[j]

\* What a player has to show for odds that stopped riding: their money, at least what
\* was taken, and more only by less than one of the bets.
GotBack(q, p, r, n, taken) ==
  LET gone == RidingOn(p.bets, r, n) - RidingOn(q.bets, r, n)
  IN  /\ q.bankroll = p.bankroll + 2 * gone
      /\ taken <= gone
      /\ taken < gone => \E i \in 1..Len(p.bets) : Rides(p.bets[i], r, n) /\ gone < taken + p.bets[i].amt

\* What take_odds has done after k of the bets.
Halfway(acc, p, r, n, u, k) ==
  /\ acc.p \in Players
  /\ acc.taken = IF r.amount <= u[k] THEN r.amount ELSE u[k]
  /\ acc.left = r.amount - acc.taken
  /\ GotBack(acc.p, p, r, n, acc.taken)
  /\ acc.left > 0 => /\ Ahead(acc.p.bets, p.bets, k, r, n)
                     /\ RidingOn(p.bets, r, n) = RidingOn(acc.p.bets, r, n) + acc.taken

\* The smaller of two.
LEMMA MinTwo == ASSUME NEW a \in Nat, NEW b \in Nat PROVE Min({a, b}) = IF a <= b THEN a ELSE b
<1> DEFINE c == IF a <= b THEN a ELSE b
<1>1. c \in {a, b} /\ \A y \in {a, b} : c =< y
  OBVIOUS
<1>2. \A x \in {a, b} : (\A y \in {a, b} : x =< y) => x = c
  OBVIOUS
<1>3. Min({a, b}) = c
  <2> HIDE DEF c
  <2> QED BY <1>1, <1>2 DEF Min
<1> QED BY <1>3

\* A bet passed by stays behind.
LEMMA PassedBy ==
  ASSUME NEW bets \in Seq(Bets), NEW q \in Seq(Bets), NEW k \in 0..(Len(bets) - 1), NEW r, NEW n,
         Ahead(q, bets, k, r, n), ~(Rides(bets[k + 1], r, n) /\ bets[k + 1].amt > 0)
  PROVE  Ahead(q, bets, k + 1, r, n)
<1>0. Len(bets) \in Nat
  BY LenProperties
<1>1. PICK m \in 0..k : /\ Len(q) = m + (Len(bets) - k)
                        /\ \A j \in 1..m : ~(Rides(q[j], r, n) /\ q[j].amt > 0)
                        /\ \A j \in (k + 1)..Len(bets) : q[m + (j - k)] = bets[j]
  BY DEF Ahead
<1>2. q[m + 1] = bets[k + 1]
  <2>1. k + 1 \in (k + 1)..Len(bets) /\ m + ((k + 1) - k) = m + 1
    BY <1>0
  <2> QED BY <1>1, <2>1
<1>3. m + 1 \in 0..(k + 1) /\ Len(q) = (m + 1) + (Len(bets) - (k + 1))
  <2>1. Len(q) = m + (Len(bets) - k)
    BY <1>1
  <2>2. m + (Len(bets) - k) = (m + 1) + (Len(bets) - (k + 1))
    BY <1>0
  <2> QED BY <2>1, <2>2
<1>4. \A j \in 1..(m + 1) : ~(Rides(q[j], r, n) /\ q[j].amt > 0)
  <2> TAKE j \in 1..(m + 1)
  <2>1. j \in 1..m \/ j = m + 1
    OBVIOUS
  <2> QED BY <1>1, <1>2, <2>1
<1>5. \A j \in ((k + 1) + 1)..Len(bets) : q[(m + 1) + (j - (k + 1))] = bets[j]
  <2> TAKE j \in ((k + 1) + 1)..Len(bets)
  <2>1. j \in (k + 1)..Len(bets) /\ (m + 1) + (j - (k + 1)) = m + (j - k)
    BY <1>0
  <2> QED BY <1>1, <2>1
<1> QED BY <1>3, <1>4, <1>5 DEF Ahead

\* A bet that odds may come from is the first of its kind, and once it is dropped those
\* ahead are as they were.
LEMMA FirstOfItsKind ==
  ASSUME NEW bets \in Seq(Bets), NEW q \in Seq(Bets), NEW k \in 0..(Len(bets) - 1), NEW r, NEW n,
         Ahead(q, bets, k, r, n), Rides(bets[k + 1], r, n), bets[k + 1].amt > 0
  PROVE  /\ SelectInSeq(q, LAMBDA c : c = bets[k + 1]) \in 1..Len(q)
         /\ q[SelectInSeq(q, LAMBDA c : c = bets[k + 1])] = bets[k + 1]
         /\ Ahead(RemoveAt(q, SelectInSeq(q, LAMBDA c : c = bets[k + 1])), bets, k + 1, r, n)
<1> DEFINE b == bets[k + 1]
           I == {j \in 1..Len(q) : q[j] = b}
<1>0. Len(bets) \in Nat /\ Len(q) \in Nat
  BY LenProperties
<1>1. PICK m \in 0..k : /\ Len(q) = m + (Len(bets) - k)
                        /\ \A j \in 1..m : ~(Rides(q[j], r, n) /\ q[j].amt > 0)
                        /\ \A j \in (k + 1)..Len(bets) : q[m + (j - k)] = bets[j]
  BY DEF Ahead
<1>2. q[m + 1] = b /\ m + 1 \in 1..Len(q)
  <2>1. k + 1 \in (k + 1)..Len(bets) /\ m + ((k + 1) - k) = m + 1
    BY <1>0
  <2> QED BY <1>0, <1>1, <2>1
<1>3. ASSUME NEW j \in I PROVE m + 1 <= j
  <2>1. j \notin 1..m
    BY <1>1, <1>3
  <2> QED BY <1>3, <2>1
<1>4. Min(I) = m + 1
  <2>1. m + 1 \in I
    BY <1>2
  <2>2. \A j \in I : m + 1 =< j
    BY <1>3
  <2>3. \A x \in I : (\A y \in I : x =< y) => x = m + 1
    <3> SUFFICES ASSUME NEW x \in I, \A y \in I : x =< y PROVE x = m + 1
      OBVIOUS
    <3>1. x =< m + 1 /\ m + 1 =< x /\ x \in Nat
      BY <1>0, <2>1, <2>2
    <3> QED BY <3>1
  <2> HIDE DEF I
  <2> QED BY <2>1, <2>2, <2>3 DEF Min
<1>5. SelectInSeq(q, LAMBDA c : c = b) = m + 1
  <2>1. I # {}
    BY <1>2
  <2> QED BY <1>4, <2>1 DEF SelectInSeq
<1> DEFINE w == RemoveAt(q, m + 1)
<1>6. /\ w \in Seq(Bets) /\ Len(w) = Len(q) - 1
      /\ \A j \in 1..(Len(q) - 1) : w[j] = IF j < m + 1 THEN q[j] ELSE q[j + 1]
  BY <1>2, RemovedAt
<1> HIDE DEF w
<1>7. m \in 0..(k + 1) /\ Len(w) = m + (Len(bets) - (k + 1))
  BY <1>0, <1>1, <1>6
<1>8. \A j \in 1..m : ~(Rides(w[j], r, n) /\ w[j].amt > 0)
  <2> TAKE j \in 1..m
  <2>1. j \in 1..(Len(q) - 1) /\ j < m + 1
    BY <1>0, <1>2
  <2>2. w[j] = q[j]
    BY <1>6, <2>1
  <2> QED BY <1>1, <2>2
<1>9. \A j \in ((k + 1) + 1)..Len(bets) : w[m + (j - (k + 1))] = bets[j]
  <2> TAKE j \in ((k + 1) + 1)..Len(bets)
  <2> DEFINE i == m + (j - (k + 1))
  <2>0. m \in Nat /\ k \in Nat /\ j \in Nat /\ k + 2 <= j /\ j <= Len(bets)
    BY <1>0
  <2>1. i \in 1..(Len(q) - 1) /\ ~(i < m + 1) /\ i + 1 = m + (j - k) /\ j \in (k + 1)..Len(bets)
    <3>1. Len(q) - 1 = m + (Len(bets) - (k + 1))
      BY <1>0, <1>1
    <3>2. i \in Int /\ m + 1 <= i /\ i <= m + (Len(bets) - (k + 1)) /\ i + 1 = m + (j - k)
      BY <1>0, <2>0
    <3>3. j \in (k + 1)..Len(bets)
      BY <1>0, <2>0
    <3> QED BY <1>0, <2>0, <3>1, <3>2, <3>3
  <2>2. w[i] = q[i + 1]
    BY <1>6, <2>1
  <2> QED BY <1>1, <2>1, <2>2
<1>10. Ahead(w, bets, k + 1, r, n)
  BY <1>7, <1>8, <1>9 DEF Ahead
<1> QED BY <1>2, <1>5, <1>10 DEF w

\* One more bet on the way.
LEMMA HalfwayStep ==
  ASSUME NEW p \in Players, NEW r, r.amount \in Nat, NEW n \in Nat, NEW u,
         SoFar(p.bets, Riding(p.bets, r, n), u), NEW k \in 0..(Len(p.bets) - 1),
         NEW acc, Halfway(acc, p, r, n, u, k), NEW add
  PROVE  Halfway(OddsTaken(acc, p.bets[k + 1], r, n, add, "taken"), p, r, n, u, k + 1)
<1> DEFINE b == p.bets[k + 1]
           i == SelectInSeq(acc.p.bets, LAMBDA c : c = b)
           take == Min({acc.left, b.amt})
           rest == [b EXCEPT !.amt = @ - take]
           q == Drop(acc.p, i, "taken")
           after == OddsTaken(acc, b, r, n, add, "taken")
<1> SUFFICES Halfway(after, p, r, n, u, k + 1)
  OBVIOUS
<1>0. /\ p.bets \in Seq(Bets) /\ Len(p.bets) \in Nat /\ p.bankroll \in Int
      /\ acc.p.bets \in Seq(Bets) /\ acc.p.bankroll \in Int /\ k + 1 \in 1..Len(p.bets)
  BY LenProperties DEF Players, Halfway
<1>1. b \in Bets /\ b.amt \in Nat
  BY <1>0, BetAmounts
<1>2. u[k] \in Nat /\ u[k + 1] = u[k] + (IF k + 1 \in Riding(p.bets, r, n) THEN b.amt ELSE 0)
  BY <1>0 DEF SoFar
<1>3. k + 1 \in Riding(p.bets, r, n) <=> Rides(b, r, n)
  BY <1>0 DEF Riding, Rides
<1>4. acc.taken \in Nat /\ acc.left \in Nat
  BY <1>2 DEF Halfway
<1>5. take = IF acc.left <= b.amt THEN acc.left ELSE b.amt
  BY <1>1, <1>4, MinTwo
<1>6. CASE ~Rides(b, r, n) \/ take = 0
  <2>1. after = acc
    BY <1>6 DEF OddsTaken, Rides
  <2>2. u[k + 1] = u[k] \/ acc.left = 0
    BY <1>1, <1>2, <1>3, <1>4, <1>5, <1>6
  <2>3. acc.taken = IF r.amount <= u[k + 1] THEN r.amount ELSE u[k + 1]
    <3>1. acc.left = 0 => r.amount <= u[k]
      BY <1>2 DEF Halfway
    <3> HIDE DEF b
    <3>2. u[k + 1] \in Nat /\ u[k] <= u[k + 1]
      BY <1>1, <1>2
    <3> QED BY <1>2, <2>2, <3>1, <3>2 DEF Halfway
  <2>4. ASSUME acc.left > 0 PROVE Ahead(acc.p.bets, p.bets, k + 1, r, n)
    <3>1. Ahead(acc.p.bets, p.bets, k, r, n)
      BY <2>4 DEF Halfway
    <3>2. ~(Rides(b, r, n) /\ b.amt > 0)
      BY <1>1, <1>4, <1>5, <1>6, <2>4
    <3> QED BY <1>0, <3>1, <3>2, PassedBy
  <2> HIDE DEF after
  <2> QED BY <2>1, <2>3, <2>4 DEF Halfway
<1>7. CASE Rides(b, r, n) /\ take # 0
  <2>1. acc.left > 0 /\ b.amt > 0 /\ take \in Nat /\ take <= b.amt /\ take <= acc.left
    <3> HIDE DEF take, b
    <3>1. take \in Nat /\ take <= b.amt /\ take <= acc.left
      BY <1>1, <1>4, <1>5
    <3> QED BY <1>1, <1>4, <1>7, <3>1
  <2>2. Ahead(acc.p.bets, p.bets, k, r, n)
    BY <2>1 DEF Halfway
  <2>3. i \in 1..Len(acc.p.bets) /\ acc.p.bets[i] = b /\ Ahead(RemoveAt(acc.p.bets, i), p.bets, k + 1, r, n)
    BY <1>0, <1>7, <2>1, <2>2, FirstOfItsKind
  <2>4. after = [p |-> IF rest.amt > 0 THEN Add(q, rest, add) ELSE q,
                 left |-> acc.left - take, taken |-> acc.taken + take]
    BY <1>7 DEF OddsTaken, Rides
  <2>5. rest \in Bets /\ rest.amt = b.amt - take
    BY <1>1, <2>1 DEF Bets
  <2>6. u[k + 1] = u[k] + b.amt
    BY <1>2, <1>3, <1>7
  <2> HIDE DEF i, take, rest
  <2>7. q \in Players /\ q.bankroll = acc.p.bankroll + 2 * b.amt /\ q.bets = RemoveAt(acc.p.bets, i)
    BY <2>3, Dropped DEF Halfway
  <2> HIDE DEF q
  <2>8. after.left = acc.left - take /\ after.taken = acc.taken + take
    BY <2>4
  <2> DEFINE all == RidingOn(p.bets, r, n)
             was == RidingOn(acc.p.bets, r, n)
  <2>9. /\ all \in Nat /\ was \in Nat /\ all = was + acc.taken
        /\ RidingOn(q.bets, r, n) = was - b.amt /\ RidingOn(q.bets, r, n) \in Nat
    <3>1. all = was + acc.taken
      BY <2>1 DEF Halfway
    <3>2. RidingOn(q.bets, r, n) = was - b.amt
      BY <1>0, <1>7, <2>3, <2>7, RidingDropped
    <3>3. q.bets \in Seq(Bets)
      BY <2>7 DEF Players
    <3> QED BY <1>0, <1>1, <3>1, <3>2, <3>3, RidingAdded
  <2>15. acc.p.bankroll = p.bankroll + 2 * acc.taken
    <3>1. acc.p.bankroll = p.bankroll + 2 * (all - was)
      BY DEF Halfway, GotBack
    <3>2. all - was = acc.taken
      BY <1>4, <2>9
    <3> QED BY <3>1, <3>2
  <2>16. \/ /\ after.p = q
            /\ rest.amt > 0 \/ b.amt = take
         \/ /\ after.p \in Players
            /\ after.p.bankroll = q.bankroll - 2 * (b.amt - take)
            /\ RidingOn(after.p.bets, r, n) = (was - b.amt) + (b.amt - take)
    <3>1. CASE rest.amt > 0 /\ add = "taken"
      <4>1. after.p = Add(q, rest, "taken")
        BY <2>4, <3>1
      <4>2. after.p \in Players /\ after.p.bankroll = q.bankroll - 2 * rest.amt
        BY <2>5, <2>7, <4>1, Added
      <4>3. after.p.bets = Append(q.bets, rest) /\ q.bets \in Seq(Bets)
        BY <2>7, <4>1 DEF Add, Players
      <4>4. Rides(rest, r, n)
        BY <1>1, <1>7 DEF Rides, Bets, rest
      <4> HIDE DEF after, b
      <4>5. RidingOn(after.p.bets, r, n) = RidingOn(q.bets, r, n) + rest.amt
        BY <2>5, <4>3, <4>4, RidingAdded
      <4> QED BY <2>5, <2>9, <4>2, <4>5
    <3>2. CASE ~(rest.amt > 0)
      <4>1. after.p = q
        BY <2>4, <3>2
      <4>2. b.amt = take
        BY <1>1, <2>1, <2>5, <3>2
      <4> HIDE DEF after
      <4> QED BY <4>1, <4>2
    <3>3. CASE rest.amt > 0 /\ add # "taken"
      <4>1. after.p = q
        BY <2>4, <3>3 DEF Add
      <4> HIDE DEF after
      <4> QED BY <3>3, <4>1
    <3> QED BY <3>1, <3>2, <3>3
  <2>10. after.left > 0 => Ahead(after.p.bets, p.bets, k + 1, r, n)
    <3>1. CASE rest.amt > 0
      <4>1. take = acc.left
        BY <1>1, <1>4, <1>5, <2>1, <2>5, <3>1
      <4> HIDE DEF after
      <4> QED BY <1>4, <2>8, <4>1
    <3>2. CASE ~(rest.amt > 0)
      <4>1. after.p = q
        BY <2>4, <3>2
      <4> HIDE DEF after
      <4> QED BY <2>3, <2>7, <4>1
    <3> QED BY <3>1, <3>2
  <2>17. rest.amt > 0 => after.left = 0
    <3> SUFFICES ASSUME rest.amt > 0 PROVE after.left = 0
      OBVIOUS
    <3>1. take = acc.left
      BY <1>1, <1>4, <1>5, <2>1, <2>5
    <3> HIDE DEF after
    <3> QED BY <1>4, <2>8, <3>1
  <2> HIDE DEF after, b, all, was
  <2>11. after.taken = IF r.amount <= u[k + 1] THEN r.amount ELSE u[k + 1]
    <3>1. acc.taken = u[k] /\ acc.left = r.amount - u[k]
      BY <1>2, <2>1 DEF Halfway
    <3>2. take = IF r.amount - u[k] <= b.amt THEN r.amount - u[k] ELSE b.amt
      BY <1>5, <3>1 DEF take
    <3>3. after.taken = u[k] + take
      BY <2>8, <3>1
    <3> HIDE DEF b
    <3>4. \A x, y, z \in Nat : x + (IF y - x <= z THEN y - x ELSE z) = IF y <= x + z THEN y ELSE x + z
      OBVIOUS
    <3> QED BY <1>1, <1>2, <2>6, <3>2, <3>3, <3>4
  <2>12. after.left = r.amount - after.taken
    BY <1>4, <2>1, <2>8 DEF Halfway
  <2>20. /\ was \in Int /\ acc.taken \in Int /\ b.amt \in Int /\ take \in Int /\ p.bankroll \in Int
    BY <1>0, <1>1, <1>4, <2>1, <2>9
  <2>13. /\ after.p \in Players /\ after.p.bankroll = p.bankroll + 2 * (all - RidingOn(after.p.bets, r, n))
         /\ \/ /\ all - RidingOn(after.p.bets, r, n) = acc.taken + b.amt
               /\ rest.amt > 0 \/ b.amt = take
            \/ all - RidingOn(after.p.bets, r, n) = acc.taken + take
    <3>1. CASE after.p = q /\ (rest.amt > 0 \/ b.amt = take)
      <4>0. /\ \A x, y, z \in Int : (x + y) - (x - z) = y + z
            /\ \A x, y, z \in Int : (x + 2 * y) + 2 * z = x + 2 * (y + z)
        OBVIOUS
      <4>1. all - RidingOn(q.bets, r, n) = acc.taken + b.amt
        <5>1. all - RidingOn(q.bets, r, n) = (was + acc.taken) - (was - b.amt)
          BY <2>9
        <5> QED BY <2>20, <4>0, <5>1
      <4>2. q.bankroll = p.bankroll + 2 * (acc.taken + b.amt)
        <5>1. q.bankroll = (p.bankroll + 2 * acc.taken) + 2 * b.amt
          BY <2>7, <2>15
        <5> QED BY <2>20, <4>0, <5>1
      <4> QED BY <2>7, <3>1, <4>1, <4>2
    <3>2. CASE /\ after.p \in Players
               /\ after.p.bankroll = q.bankroll - 2 * (b.amt - take)
               /\ RidingOn(after.p.bets, r, n) = (was - b.amt) + (b.amt - take)
      <4>0. /\ \A x, y, z, v \in Int : (x + y) - ((x - z) + (z - v)) = y + v
            /\ \A x, z, v \in Int : (x + 2 * z) - 2 * (z - v) = x + 2 * v
            /\ \A x, y, z \in Int : (x + 2 * y) + 2 * z = x + 2 * (y + z)
        OBVIOUS
      <4>1. all - RidingOn(after.p.bets, r, n) = acc.taken + take
        <5>1. all - RidingOn(after.p.bets, r, n) = (was + acc.taken) - ((was - b.amt) + (b.amt - take))
          BY <2>9, <3>2
        <5> QED BY <2>20, <4>0, <5>1
      <4>2. after.p.bankroll = p.bankroll + 2 * (acc.taken + take)
        <5>1. after.p.bankroll = ((p.bankroll + 2 * acc.taken) + 2 * b.amt) - 2 * (b.amt - take)
          BY <2>7, <2>15, <3>2
        <5>2. p.bankroll + 2 * acc.taken \in Int
          BY <2>20
        <5>3. after.p.bankroll = (p.bankroll + 2 * acc.taken) + 2 * take
          BY <2>20, <4>0, <5>1, <5>2
        <5> QED BY <2>20, <4>0, <5>3
      <4> QED BY <3>2, <4>1, <4>2
    <3> QED BY <2>16, <3>1, <3>2
  <2>18. GotBack(after.p, p, r, n, after.taken)
    <3> DEFINE gone == all - RidingOn(after.p.bets, r, n)
    <3>1. after.taken <= gone
      BY <1>1, <1>4, <2>1, <2>8, <2>13
    <3>2. after.taken < gone => gone < after.taken + b.amt
      <4>1. gone \in {acc.taken + b.amt, acc.taken + take}
        BY <2>13
      <4>2. \A x, y, z \in Nat : z # 0 => x + y < (x + z) + y
        OBVIOUS
      <4>3. acc.taken + b.amt < (acc.taken + take) + b.amt
        BY <1>1, <1>4, <1>7, <2>1, <4>2
      <4> HIDE DEF gone
      <4>4. CASE gone = acc.taken + b.amt
        BY <2>8, <4>3, <4>4
      <4>5. CASE gone = acc.taken + take
        BY <1>4, <2>1, <2>8, <4>5
      <4> QED BY <4>1, <4>4, <4>5
    <3>3. b = p.bets[k + 1] /\ k + 1 \in 1..Len(p.bets)
      BY <1>0 DEF b
    <3> HIDE DEF gone
    <3>4. after.taken < gone => \E j \in 1..Len(p.bets) : Rides(p.bets[j], r, n) /\ gone < after.taken + p.bets[j].amt
      BY <1>7, <3>2, <3>3
    <3> QED BY <2>13, <3>1, <3>4 DEF GotBack, gone, all
  <2>19. after.left > 0 => all = RidingOn(after.p.bets, r, n) + after.taken
    <3> SUFFICES ASSUME after.left > 0 PROVE all = RidingOn(after.p.bets, r, n) + after.taken
      OBVIOUS
    <3>1. ~(rest.amt > 0)
      BY <2>17
    <3>2. all - RidingOn(after.p.bets, r, n) = after.taken
      BY <2>8, <2>13, <3>1
    <3>3. RidingOn(after.p.bets, r, n) \in Nat
      BY <2>13, RidingIsNat DEF Players
    <3> QED BY <1>4, <2>1, <2>8, <2>9, <3>2, <3>3
  <2> QED BY <2>10, <2>11, <2>12, <2>13, <2>18, <2>19 DEF Halfway, all
<1> HIDE DEF take, after
<1> QED BY <1>6, <1>7 DEF after

\* The way of take_odds through the bets, as the fold computes it.
Setting(p, r) == [p |-> p, left |-> r.amount, taken |-> 0]
OddsFold(p, r, n, add, rem, S, h) ==
  h = [s \in S |-> IF s = {} THEN Setting(p, r) ELSE OddsTaken(h[s \ {Max(s)}], p.bets[Max(s)], r, n, add, rem)]
OddsDone(p, r, n, add, rem) == FoldLeft(LAMBDA acc, b : OddsTaken(acc, b, r, n, add, rem), Setting(p, r), p.bets)

\* There is one.
LEMMA OddsFoldExists ==
  ASSUME NEW p, NEW len \in Nat, NEW r, NEW n, NEW add, NEW rem
  PROVE  \E h : OddsFold(p, r, n, add, rem, SUBSET (1..len), h)
<1> DEFINE T == {k \in 0..len : \E h : OddsFold(p, r, n, add, rem, Few(len, k), h)}
           base == Setting(p, r)
           taken(a, i) == OddsTaken(a, p.bets[i], r, n, add, rem)
<1> HIDE DEF base, taken
<1>0. \A s \in SUBSET (1..len) : IsFiniteSet(s) /\ Cardinality(s) \in 0..len
  <2> TAKE s \in SUBSET (1..len)
  <2>1. IsFiniteSet(1..len) /\ Cardinality(1..len) = len
    <3>1. Cardinality(1..len) = IF 1 > len THEN 0 ELSE len - 1 + 1
      BY FS_Interval
    <3> QED BY <3>1, FS_Interval
  <2>2. IsFiniteSet(s) /\ Cardinality(s) <= len
    BY <2>1, FS_Subset
  <2> QED BY <2>2, FS_CardinalityType
<1>1. 0 \in T
  <2> DEFINE h == [s \in Few(len, 0) |-> base]
  <2>1. \A s \in Few(len, 0) : s = {}
    BY <1>0, FS_EmptySet DEF Few
  <2>2. OddsFold(p, r, n, add, rem, Few(len, 0), h)
    BY <2>1 DEF OddsFold, base
  <2> QED BY <2>2
<1>2. ASSUME NEW k \in 0..(len - 1), k \in T PROVE k + 1 \in T
  <2>1. PICK h : OddsFold(p, r, n, add, rem, Few(len, k), h)
    BY <1>2
  <2> DEFINE next == [s \in Few(len, k + 1) |-> IF s = {} THEN base ELSE taken(h[s \ {Max(s)}], Max(s))]
  <2>2. ASSUME NEW s \in Few(len, k + 1), s # {} PROVE s \ {Max(s)} \in Few(len, k) \cap Few(len, k + 1)
    <3>1. s \in SUBSET (1..len) /\ Cardinality(s) <= k + 1
      BY DEF Few
    <3>2. s \ {Max(s)} \in SUBSET (1..len) /\ Cardinality(s) \in Nat /\ Cardinality(s \ {Max(s)}) = Cardinality(s) - 1
      BY <2>2, <3>1, LastLess
    <3>3. Cardinality(s \ {Max(s)}) <= k /\ Cardinality(s \ {Max(s)}) <= k + 1
      BY <3>1, <3>2
    <3> QED BY <3>2, <3>3, Zenon DEF Few
  <2>3. \A s \in Few(len, k) : h[s] = IF s = {} THEN base ELSE taken(h[s \ {Max(s)}], Max(s))
    <3> DEFINE of(s) == IF s = {} THEN base ELSE taken(h[s \ {Max(s)}], Max(s))
    <3>1. h = [s \in Few(len, k) |-> of(s)]
      BY <2>1 DEF OddsFold, base, taken
    <3> HIDE DEF of
    <3>2. \A s \in Few(len, k) : h[s] = of(s)
      BY <3>1
    <3> QED BY <3>2 DEF of
  <2>4. ASSUME NEW s \in Few(len, k) \cap Few(len, k + 1) PROVE next[s] = h[s]
    BY <2>3, <2>4
  <2>5. ASSUME NEW s \in Few(len, k + 1), s # {} PROVE next[s] = taken(next[s \ {Max(s)}], Max(s))
    <3>1. next[s] = taken(h[s \ {Max(s)}], Max(s))
      BY <2>5
    <3>2. next[s \ {Max(s)}] = h[s \ {Max(s)}]
      BY <2>2, <2>4, <2>5
    <3> HIDE DEF next
    <3> QED BY <3>1, <3>2
  <2>6. OddsFold(p, r, n, add, rem, Few(len, k + 1), next)
    <3> DEFINE w == [s \in Few(len, k + 1) |-> IF s = {} THEN base ELSE taken(next[s \ {Max(s)}], Max(s))]
    <3>1. \A s \in Few(len, k + 1) : next[s] = w[s]
      BY <2>5
    <3>2. next = [s \in Few(len, k + 1) |-> next[s]] /\ w = [s \in Few(len, k + 1) |-> w[s]]
      OBVIOUS
    <3> HIDE DEF next, w
    <3>3. next = w
      BY <3>1, <3>2
    <3> QED BY <3>3 DEF w, OddsFold, base, taken
  <2> HIDE DEF next
  <2> QED BY <2>6
<1> HIDE DEF T
<1>3. len \in T
  BY <1>1, <1>2, Climb
<1>4. Few(len, len) = SUBSET (1..len)
  BY <1>0 DEF Few
<1> QED BY <1>3, <1>4 DEF T

\* It takes the bets one by one.
LEMMA OddsByOne ==
  ASSUME NEW p \in Players, NEW r, NEW n, NEW add, NEW rem
  PROVE  \E f : /\ OddsDone(p, r, n, add, rem) = f[1..Len(p.bets)] /\ f[{}] = Setting(p, r)
                /\ \A k \in 0..(Len(p.bets) - 1) : f[1..(k + 1)] = OddsTaken(f[1..k], p.bets[k + 1], r, n, add, rem)
<1> DEFINE len == Len(p.bets)
           f == CHOOSE h : OddsFold(p, r, n, add, rem, SUBSET (1..len), h)
<1>0. len \in Nat /\ DOMAIN p.bets = 1..len
  BY LenProperties DEF Players
<1>1. OddsDone(p, r, n, add, rem) = f[1..len]
  BY <1>0 DEF OddsDone, OddsFold, FoldLeft, MapThenFoldSet
<1>2. OddsFold(p, r, n, add, rem, SUBSET (1..len), f)
  BY <1>0, OddsFoldExists
<1> HIDE DEF f
<1>3. \A s \in SUBSET (1..len) : f[s] = IF s = {} THEN Setting(p, r) ELSE OddsTaken(f[s \ {Max(s)}], p.bets[Max(s)], r, n, add, rem)
  <2> DEFINE of(s) == IF s = {} THEN Setting(p, r) ELSE OddsTaken(f[s \ {Max(s)}], p.bets[Max(s)], r, n, add, rem)
  <2>1. f = [s \in SUBSET (1..len) |-> of(s)]
    BY <1>2 DEF OddsFold
  <2> HIDE DEF of
  <2>2. \A s \in SUBSET (1..len) : f[s] = of(s)
    BY <2>1
  <2> QED BY <2>2 DEF of
<1>4. f[{}] = Setting(p, r)
  BY <1>3, {} \in SUBSET (1..len)
<1>5. ASSUME NEW k \in 0..(len - 1) PROVE f[1..(k + 1)] = OddsTaken(f[1..k], p.bets[k + 1], r, n, add, rem)
  <2>1. /\ Max(1..(k + 1)) = k + 1 /\ (1..(k + 1)) \ {k + 1} = 1..k /\ 1..(k + 1) # {}
        /\ 1..(k + 1) \in SUBSET (1..len)
    <3>1. k \in Nat /\ 1..(k + 1) \in SUBSET (1..len)
      BY <1>0
    <3> QED BY <3>1, LastOfFirst
  <2> QED BY <1>3, <2>1
<1> QED BY <1>1, <1>4, <1>5

\* Taken off as asked, what it has taken in the end is what was asked or all there is,
\* and that is what has stopped riding but for one bet not taken again.
LEMMA OddsAllTaken ==
  ASSUME NEW p \in Players, NEW r, r.amount \in Nat, NEW n \in Nat, NEW add
  PROVE  LET done == OddsDone(p, r, n, add, "taken")
             riding == RidingOn(p.bets, r, n)
         IN  /\ done.p \in Players
             /\ done.taken = Min({r.amount, riding}) /\ done.taken \in Nat
             /\ GotBack(done.p, p, r, n, done.taken)
<1> DEFINE len == Len(p.bets)
<1>0. p.bets \in Seq(Bets) /\ len \in Nat /\ p.bankroll \in Int
  BY LenProperties DEF Players
<1>1. PICK u : SoFar(p.bets, Riding(p.bets, r, n), u) /\ u[len] = RidingOn(p.bets, r, n)
  BY <1>0, RidingSums
<1>2. PICK f : /\ OddsDone(p, r, n, add, "taken") = f[1..len] /\ f[{}] = Setting(p, r)
               /\ \A k \in 0..(len - 1) : f[1..(k + 1)] = OddsTaken(f[1..k], p.bets[k + 1], r, n, add, "taken")
  <2>1. \A how : \E f :
          /\ OddsDone(p, r, n, add, how) = f[1..len] /\ f[{}] = Setting(p, r)
          /\ \A k \in 0..(len - 1) : f[1..(k + 1)] = OddsTaken(f[1..k], p.bets[k + 1], r, n, add, how)
    BY OddsByOne
  <2> QED BY <2>1
<1> DEFINE T == {k \in 0..len : Halfway(f[1..k], p, r, n, u, k)}
<1>3. 0 \in T
  <2>1. f[1..0] = Setting(p, r)
    BY <1>2, 1..0 = {}
  <2>2. u[0] = 0
    BY <1>1 DEF SoFar
  <2>3. Ahead(p.bets, p.bets, 0, r, n)
    BY <1>0 DEF Ahead
  <2>4. RidingOn(p.bets, r, n) \in Nat
    BY <1>0, RidingIsNat
  <2>5. GotBack(p, p, r, n, 0)
    BY <1>0, <2>4 DEF GotBack
  <2>6. Halfway(Setting(p, r), p, r, n, u, 0)
    BY <1>0, <2>2, <2>3, <2>4, <2>5 DEF Halfway, Setting
  <2> QED BY <1>0, <2>1, <2>6
<1>4. ASSUME NEW k \in 0..(len - 1), k \in T PROVE k + 1 \in T
  <2>1. Halfway(OddsTaken(f[1..k], p.bets[k + 1], r, n, add, "taken"), p, r, n, u, k + 1)
    BY <1>1, <1>4, HalfwayStep
  <2>2. f[1..(k + 1)] = OddsTaken(f[1..k], p.bets[k + 1], r, n, add, "taken")
    BY <1>2
  <2>3. k + 1 \in 0..len
    BY <1>0
  <2> QED BY <2>1, <2>2, <2>3
<1> HIDE DEF T
<1>5. \A k \in 0..len : k \in T
  BY <1>0, <1>3, <1>4, Climb
<1>6. Halfway(f[1..len], p, r, n, u, len)
  BY <1>0, <1>5 DEF T
<1>7. u[len] \in Nat
  BY <1>0, <1>1 DEF SoFar
<1> QED BY <1>1, <1>2, <1>6, <1>7, MinTwo DEF Halfway

\* Where nothing is taken off the player only pays.
Unhelped(acc, p) == acc.p \in Players /\ acc.left \in Nat /\ acc.taken \in Nat /\ acc.p.bankroll <= p.bankroll

\* One more bet in vain.
LEMMA UnhelpedStep ==
  ASSUME NEW p \in Players, NEW r, NEW n, NEW b \in Bets, NEW acc, Unhelped(acc, p), NEW add
  PROVE  Unhelped(OddsTaken(acc, b, r, n, add, "ignored"), p)
<1> DEFINE i == SelectInSeq(acc.p.bets, LAMBDA c : c = b)
           take == Min({acc.left, b.amt})
           rest == [b EXCEPT !.amt = @ - take]
           q == Drop(acc.p, i, "ignored")
           after == OddsTaken(acc, b, r, n, add, "ignored")
<1> SUFFICES Unhelped(after, p)
  OBVIOUS
<1>1. b.amt \in Nat /\ acc.left \in Nat /\ acc.taken \in Nat /\ acc.p \in Players
  BY DEF Bets, Unhelped
<1>2. take \in Nat /\ take <= b.amt /\ take <= acc.left
  BY <1>1, MinTwo
<1>3. rest \in Bets /\ rest.amt = b.amt - take /\ rest.amt \in Nat
  <2> HIDE DEF take
  <2> QED BY <1>1, <1>2 DEF Bets
<1>4. q = acc.p
  BY DEF Drop
<1>5. \/ after = acc
      \/ after = [p |-> IF rest.amt > 0 THEN Add(q, rest, add) ELSE q,
                  left |-> acc.left - take, taken |-> acc.taken + take]
  BY DEF OddsTaken
<1>6. Add(acc.p, rest, add) \in Players /\ Add(acc.p, rest, add).bankroll <= p.bankroll
  <2>1. acc.p.bankroll \in Int /\ p.bankroll \in Int /\ acc.p.bankroll <= p.bankroll
    BY DEF Players, Unhelped
  <2> HIDE DEF rest
  <2>2. Add(acc.p, rest, add) \in Players
    BY <1>1, <1>3, Added
  <2>3. CASE add = "taken"
    <3>1. Add(acc.p, rest, add).bankroll = acc.p.bankroll - 2 * rest.amt
      BY <1>1, <1>3, <2>3, Added
    <3> QED BY <1>3, <2>1, <2>2, <3>1
  <2>4. CASE add # "taken"
    BY <1>1, <2>1, <2>4 DEF Add
  <2> QED BY <2>3, <2>4
<1>7. acc.left - take \in Nat /\ acc.taken + take \in Nat
  BY <1>1, <1>2
<1> HIDE DEF take, rest, q, after
<1>8. after.p \in {acc.p, Add(acc.p, rest, add)} /\ after.left \in {acc.left, acc.left - take} /\ after.taken \in {acc.taken, acc.taken + take}
  BY <1>4, <1>5
<1> QED BY <1>6, <1>7, <1>8 DEF Unhelped

\* In the end nothing is got back.
LEMMA OddsNotTaken ==
  ASSUME NEW p \in Players, NEW r, r.amount \in Nat, NEW n, NEW add
  PROVE  Unhelped(OddsDone(p, r, n, add, "ignored"), p)
<1> DEFINE len == Len(p.bets)
<1>0. p.bets \in Seq(Bets) /\ len \in Nat /\ p.bankroll \in Int
  BY LenProperties DEF Players
<1>1. PICK f : /\ OddsDone(p, r, n, add, "ignored") = f[1..len] /\ f[{}] = Setting(p, r)
               /\ \A k \in 0..(len - 1) : f[1..(k + 1)] = OddsTaken(f[1..k], p.bets[k + 1], r, n, add, "ignored")
  BY OddsByOne
<1> DEFINE T == {k \in 0..len : Unhelped(f[1..k], p)}
<1>2. 0 \in T
  <2>1. f[1..0] = Setting(p, r)
    BY <1>1, 1..0 = {}
  <2>2. Unhelped(Setting(p, r), p)
    BY <1>0 DEF Unhelped, Setting
  <2> QED BY <1>0, <2>1, <2>2
<1>3. ASSUME NEW k \in 0..(len - 1), k \in T PROVE k + 1 \in T
  <2>1. p.bets[k + 1] \in Bets /\ k + 1 \in 0..len
    BY <1>0, BetAmounts
  <2>2. Unhelped(OddsTaken(f[1..k], p.bets[k + 1], r, n, add, "ignored"), p)
    BY <1>3, <2>1, UnhelpedStep
  <2>3. f[1..(k + 1)] = OddsTaken(f[1..k], p.bets[k + 1], r, n, add, "ignored")
    BY <1>1
  <2> QED BY <2>1, <2>2, <2>3
<1> HIDE DEF T
<1>4. \A k \in 0..len : k \in T
  BY <1>0, <1>2, <1>3, Climb
<1> QED BY <1>0, <1>1, <1>4 DEF T

---------------------------------------------------------------------------
(* The live verbs leave a player, and take_odds what was asked. *)

\* What is asked of the adapter: how much, of which side, where.
Fit(r) ==
  /\ r.verb \in {"place_bet", "buy_bet", "lay_bet", "line_bet", "come_bet", "dont_come_bet", "field_bet", "prop_bet", "ats_bet",
                 "hardway_bet", "set_odds", "take_odds"} => r.amount \in Nat
  /\ r.verb = "line_bet" => r.side \in {"pass", "dont_pass"}
  /\ r.verb \in {"set_odds", "take_odds"} => r.side \in Sides

\* Requests are fit.
LEMMA RequestsFit == ASSUME BetConstants, LiveConstants, NEW r \in Requests PROVE Fit(r)
<1> DEFINE staked == [verb : {"place_bet", "buy_bet", "lay_bet"}, number : First \cup Others, amount : Most, bare : {FALSE}]
           taken == {[verb |-> "take_down", number |-> n, keys |-> {<<"box", n>>} \cap Keys] : n \in First \cup Others}
           moved == [verb : {"move_bet"}, number : First \cup Others, to : Numbers]
           line == [verb : {"line_bet"}, side : {"pass", "dont_pass"}, amount : Most, bare : BOOLEAN]
           come == [verb : {"come_bet", "dont_come_bet"}, amount : Most, bare : BOOLEAN]
           field == [verb : {"field_bet", "prop_bet", "ats_bet"}, amount : Most]
           hard == [verb : {"hardway_bet"}, number : First \cup Others, amount : Most]
           odds == [verb : {"set_odds", "take_odds"}, side : Sides, number : First \cup {0}, amount : Amounts]
           bare == [verb : {"remove_line", "remove_come", "remove_dont_come", "press", "regress"}]
           laddered == [verb : {"apply_policy"}, number : First, delta : Most, top : {2}]
<1>1. r \in staked \cup taken \cup moved \cup line \cup come \cup field \cup hard \cup odds \cup bare \cup laddered
  BY Zenon DEF Requests
<1>2. Most \subseteq Nat /\ Amounts \subseteq Nat
  <2>1. PICK most \in Amounts : \A a \in Amounts : a <= most
    BY DEF LiveConstants
  <2>2. \A a \in Amounts : most >= a
    BY <2>1 DEF BetConstants
  <2>3. Max(Amounts) \in Amounts
    BY <2>1, <2>2 DEF Max
  <2> QED BY <2>3 DEF Most, BetConstants
<1>3. r \in staked => Fit(r)
  BY <1>2 DEF Fit
<1>4. r \in line => Fit(r)
  BY <1>2 DEF Fit
<1>5. r \in come \cup field => Fit(r)
  BY <1>2 DEF Fit
<1>6. r \in hard => Fit(r)
  BY <1>2 DEF Fit
<1>7. r \in odds => Fit(r)
  BY <1>2 DEF Fit
<1>8. r \in taken => Fit(r)
  BY DEF Fit
<1>9. r \in moved \cup bare \cup laddered => Fit(r)
  BY DEF Fit
<1> HIDE DEF staked, taken, moved, line, come, field, hard, odds, bare, laddered
<1> QED BY <1>1, <1>3, <1>4, <1>5, <1>6, <1>7, <1>8, <1>9

\* Of what a verb did, the player is left.
Leaves(e) == e.ok => e.player \in Players

\* What did nothing leaves none.
LEMMA FailsLeaves == Leaves(Fails)
BY DEF Leaves, Fails

\* A verb that did something leaves the player it says.
LEMMA DidLeaves ==
  ASSUME NEW p \in Players, NEW q \in Players, NEW bank, NEW bets
  PROVE  Leaves(Did(q, bank, bets)) /\ Leaves(Measured(p, q, bets))
BY DEF Leaves, Did, Measured

\* A measured stake leaves one.
LEMMA StakedLeaves ==
  ASSUME NEW p \in Players, NEW b \in Bets, NEW key, NEW add, NEW fail, Leaves(fail)
  PROVE  Leaves(Staked(p, b, key, add, fail))
<1>1. Add(p, b, add) \in Players
  BY Added
<1>2. Leaves(Measured(p, Add(p, b, add), key :> b.amt))
  BY <1>1, DidLeaves
<1>3. Staked(p, b, key, add, fail) = fail \/ Staked(p, b, key, add, fail) = Measured(p, Add(p, b, add), key :> b.amt)
  BY Zenon DEF Staked
<1> QED BY <1>2, <1>3

\* The first bet on a number is one of the player's.
LEMMA FirstOnIs == ASSUME NEW p \in Players, NEW n PROVE FirstOn(p, n) = 0 \/ FirstOn(p, n) \in 1..Len(p.bets)
<1> DEFINE on == {i \in DOMAIN p.bets : p.bets[i].num = n}
           T == {k \in 0..Len(p.bets) : \A x \in on : k < x}
<1>1. Len(p.bets) \in Nat /\ DOMAIN p.bets = 1..Len(p.bets)
  BY LenProperties DEF Players
<1>2. on # {} => \E m \in on : \A x \in on : m =< x
  <2> SUFFICES ASSUME on # {}, \A m \in on : \E x \in on : ~(m =< x) PROVE FALSE
    OBVIOUS
  <2>1. 0 \in T
    BY <1>1
  <2>2. ASSUME NEW k \in 0..(Len(p.bets) - 1), k \in T PROVE k + 1 \in T
    <3>1. \A x \in on : x \in 1..Len(p.bets) /\ k + 1 <= x
      BY <1>1, <2>2
    <3>2. k + 1 \notin on
      BY <1>1, <3>1
    <3>3. \A x \in on : k + 1 < x
      BY <3>1, <3>2
    <3> QED BY <1>1, <3>3
  <2> HIDE DEF T
  <2>3. \A k \in 0..Len(p.bets) : k \in T
    BY <1>1, <2>1, <2>2, Climb
  <2>4. \A x \in on : Len(p.bets) < x /\ x \in 1..Len(p.bets)
    BY <1>1, <2>3 DEF T
  <2> HIDE DEF on
  <2> QED BY <1>1, <2>4
<1>3. on # {} => Min(on) \in on
  <2> HIDE DEF on
  <2> QED BY <1>2 DEF Min
<1>4. FirstOn(p, n) = 0 \/ (on # {} /\ FirstOn(p, n) = Min(on))
  BY DEF FirstOn
<1> QED BY <1>1, <1>3, <1>4

\* Bets of some kinds.
LEMMA BetIs == ASSUME NEW fam \in Fams, NEW num \in Nat, NEW amt \in Nat PROVE Bet(fam, num, amt) \in Bets
BY DEF Bet, Bets

\* The number odds go to is one.
LEMMA OddsNumberIs ==
  ASSUME BetConstants, NEW t, t.point \in Nat, NEW r PROVE OddsNumber(t, r) \in Nat
<1>1. OddsNumber(t, r) \in Boxes \/ OddsNumber(t, r) = t.point \/ OddsNumber(t, r) = 0
  BY DEF OddsNumber
<1>2. Boxes \subseteq Nat
  BY DEF BetConstants
<1> QED BY <1>1, <1>2, 0 \in Nat, Zenon

\* A bet on a box that is taken down or moved.
LEMMA BoxesLeave ==
  ASSUME BetConstants, NEW p \in Players, NEW r, NEW add, NEW rem \in RemoveHow
  PROVE  /\ Leaves(LiveTakeDown(p, r, rem)) /\ Leaves(LiveMoveBet(p, r, rem, add))
<1> DEFINE i == FirstOn(p, r.number)
           was == p.bets[i]
           q == Drop(p, i, rem)
           kind == IF was.fam \in {"buy", "lay"} THEN was.fam ELSE "place"
           b == Bet(kind, r.to, was.amt)
<1>1. i = 0 \/ i \in 1..Len(p.bets)
  BY FirstOnIs
<1>2. i # 0 => q \in Players /\ was \in Bets /\ was.amt \in Nat
  <2>1. p.bets \in Seq(Bets)
    BY DEF Players
  <2>2. i # 0 => was \in Bets /\ was.amt \in Nat
    BY <1>1, <2>1, BetAmounts
  <2>3. rem \in {"taken", "ignored"}
    BY DEF RemoveHow
  <2>4. i # 0 => q \in Players
    BY <1>1, <2>3, Dropped
  <2> QED BY <2>2, <2>4
<1>3. i # 0 /\ r.to \in Boxes => b \in Bets /\ Add(q, b, add) \in Players
  <2> SUFFICES ASSUME i # 0, r.to \in Boxes PROVE b \in Bets /\ Add(q, b, add) \in Players
    OBVIOUS
  <2>1. kind \in Fams /\ r.to \in Nat
    BY DEF BetConstants, Fams
  <2>2. b \in Bets
    <3> HIDE DEF kind, was
    <3> QED BY <1>2, <2>1, BetIs
  <2> HIDE DEF q, b
  <2> QED BY <1>2, <2>2, Added
<1> HIDE DEF i, was, q, b
<1>4. Leaves(LiveTakeDown(p, r, rem))
  <2>1. \/ LiveTakeDown(p, r, rem) = Did(p, 0, <<>>)
        \/ i # 0 /\ LiveTakeDown(p, r, rem) = Did(q, 2 * was.amt, <<"box", r.number>> :> -was.amt)
    BY Zenon DEF LiveTakeDown, i, was, q
  <2> QED BY <1>2, <2>1, DidLeaves
<1>5. Leaves(LiveMoveBet(p, r, rem, add))
  <2> DEFINE gone == <<"box", r.number>> :> -was.amt
  <2>1. \/ LiveMoveBet(p, r, rem, add) = Fails
        \/ LiveMoveBet(p, r, rem, add) = Did(p, 0, <<>>)
        \/ i # 0 /\ LiveMoveBet(p, r, rem, add) = Did(q, 2 * was.amt, gone)
        \/ /\ i # 0 /\ {r.number, r.to} \ Boxes = {}
           /\ LiveMoveBet(p, r, rem, add) = Did(Add(q, b, add), 0, (<<"box", r.to>> :> was.amt) @@ gone)
    BY Zenon DEF LiveMoveBet, i, was, q, b
  <2>2. {r.number, r.to} \ Boxes = {} => r.to \in Boxes
    OBVIOUS
  <2> HIDE DEF gone
  <2> QED BY <1>2, <1>3, <2>1, <2>2, DidLeaves, FailsLeaves
<1> QED BY <1>4, <1>5

\* A verb that adds a bet.
LEMMA StakesLeave ==
  ASSUME BetConstants, NEW t, t.point \in Nat, NEW p \in Players, NEW r, r.amount \in Nat, NEW add
  PROVE  /\ Leaves(LiveBoxBet(p, r, add)) /\ Leaves(LiveComeBet(p, r, add)) /\ Leaves(LiveFieldBet(p, r, add))
         /\ Leaves(LiveHardwayBet(p, r, add)) /\ Leaves(LivePropBet(p, r, add)) /\ Leaves(LiveAtsBet(p, r, add))
         /\ r.side \in Fams => Leaves(LiveLineBet(p, r, add))
         /\ Leaves(LiveSetOdds(t, p, r, add))
<1>0. Boxes \subseteq Nat /\ Leaves(Did(p, 0, <<>>)) /\ Leaves(Fails)
  BY DidLeaves, FailsLeaves DEF BetConstants
<1>1. Leaves(LiveBoxBet(p, r, add))
  <2> DEFINE kind == CASE r.verb = "place_bet" -> "place" [] r.verb = "buy_bet" -> "buy" [] OTHER -> "lay"
             b == Bet(kind, r.number, r.amount)
  <2>1. \/ LiveBoxBet(p, r, add) = Fails
        \/ LiveBoxBet(p, r, add) = Did(p, 0, <<>>)
        \/ r.number \in Boxes /\ LiveBoxBet(p, r, add) = Did(Add(p, b, add), -2 * r.amount, <<"box", r.number>> :> r.amount)
    BY Zenon DEF LiveBoxBet
  <2>2. kind \in Fams
    BY DEF Fams
  <2> HIDE DEF kind
  <2>3. r.number \in Boxes => b \in Bets
    BY <1>0, <2>2, BetIs
  <2> HIDE DEF b
  <2>4. r.number \in Boxes => Add(p, b, add) \in Players
    BY <2>3, Added
  <2> QED BY <1>0, <2>1, <2>4, DidLeaves
<1>2. \A fam \in Fams, num \in Nat : Bet(fam, num, r.amount) \in Bets
  BY BetIs
<1>3. ASSUME NEW fam \in Fams, NEW num \in Nat, NEW key, NEW fail, Leaves(fail)
      PROVE  Leaves(Staked(p, Bet(fam, num, r.amount), key, add, fail))
  BY <1>2, <1>3, StakedLeaves
<1>4. Leaves(LiveComeBet(p, r, add))
  <2> DEFINE fam == IF r.verb = "come_bet" THEN "come" ELSE "dc"
  <2>1. fam \in Fams
    BY DEF Fams
  <2>2. LiveComeBet(p, r, add) = Fails \/ LiveComeBet(p, r, add) = Staked(p, Bet(fam, 0, r.amount), <<fam, 0>>, add, Did(p, 0, <<>>))
    BY Zenon DEF LiveComeBet
  <2> HIDE DEF fam
  <2> QED BY <1>0, <1>3, <2>1, <2>2
<1>5. Leaves(LiveFieldBet(p, r, add))
  <2>1. "field" \in Fams
    BY DEF Fams
  <2> QED BY <1>0, <1>3, <2>1 DEF LiveFieldBet
<1>6. Leaves(LiveHardwayBet(p, r, add))
  <2>1. \/ LiveHardwayBet(p, r, add) = Did(p, 0, <<>>)
        \/ r.number \in Boxes /\ LiveHardwayBet(p, r, add) = Staked(p, Bet("hardway", r.number, r.amount), <<"hardway", r.number>>, add, Fails)
    BY DEF LiveHardwayBet
  <2>2. "hardway" \in Fams
    BY DEF Fams
  <2> QED BY <1>0, <1>3, <2>1, <2>2
<1>7. Leaves(LivePropBet(p, r, add))
  <2>1. "prop" \in Fams
    BY DEF Fams
  <2> QED BY <1>0, <1>3, <2>1 DEF LivePropBet
<1>8. Leaves(LiveAtsBet(p, r, add))
  <2> DEFINE fail == Did(p, -2 * r.amount, <<"ats", 0>> :> r.amount)
  <2>1. Leaves(fail) /\ "ats" \in Fams
    BY DidLeaves DEF Fams
  <2>2. LiveAtsBet(p, r, add) = Staked(p, Bet("ats", 0, r.amount), <<"ats", 0>>, add, fail)
    BY DEF LiveAtsBet
  <2> HIDE DEF fail
  <2> QED BY <1>3, <2>1, <2>2
<1>9. ASSUME r.side \in Fams PROVE Leaves(LiveLineBet(p, r, add))
  BY <1>0, <1>3, <1>9 DEF LiveLineBet
<1>10. Leaves(LiveSetOdds(t, p, r, add))
  <2>1. OddsNumber(t, r) \in Nat
    BY OddsNumberIs
  <2>2. OddsOn(r.side) \in Fams
    BY DEF OddsOn, Fams
  <2>3. \/ LiveSetOdds(t, p, r, add) = Fails
        \/ LiveSetOdds(t, p, r, add) = Staked(p, Bet(OddsOn(r.side), OddsNumber(t, r), r.amount), OddsKey(r), add, Fails)
    BY Zenon DEF LiveSetOdds
  <2> QED BY <1>0, <1>3, <2>1, <2>2, <2>3
<1> QED BY <1>1, <1>4, <1>5, <1>6, <1>7, <1>8, <1>9, <1>10

\* What take_odds answers to leaving a player.
AsAsked(bank, q, p, r, n) ==
  LET riding == RidingOn(p.bets, r, n)
      gone == riding - RidingOn(q.bets, r, n)
      asked == Min({r.amount, riding})
  IN  /\ bank = 2 * gone
      /\ asked <= gone
      /\ asked < gone => \E i \in DOMAIN p.bets : Rides(p.bets[i], r, n) /\ gone < asked + p.bets[i].amt

\* What take_odds did, or that it did nothing.
LEMMA TakeOddsIs ==
  ASSUME BetConstants, NEW t, t.point \in Nat, NEW p \in Players, NEW r, r.amount \in Nat, NEW add, NEW rem \in RemoveHow
  PROVE  LET e == LiveTakeOdds(t, p, r, add, rem)
         IN  /\ Leaves(e)
             /\ e.ok /\ e.bank > 0 => AsAsked(e.bank, e.player, p, r, OddsNumber(t, r))
<1> DEFINE n == OddsNumber(t, r)
           done == OddsDone(p, r, n, add, rem)
           e == LiveTakeOdds(t, p, r, add, rem)
<1>1. e = Fails \/ e = Measured(p, done.p, OddsKey(r) :> -done.taken)
  BY Zenon DEF LiveTakeOdds, OddsDone, Setting
<1>2. n \in Nat
  BY OddsNumberIs
<1>3. rem \in {"taken", "ignored"}
  BY DEF RemoveHow
<1> HIDE DEF n, done, e
<1>4. /\ done.p \in Players
      /\ \/ done.p.bankroll <= p.bankroll
         \/ /\ done.taken = Min({r.amount, RidingOn(p.bets, r, n)}) /\ done.taken \in Nat
            /\ GotBack(done.p, p, r, n, done.taken)
  <2>1. CASE rem = "taken"
    BY <1>2, <2>1, OddsAllTaken DEF done
  <2>2. CASE rem = "ignored"
    BY <2>2, OddsNotTaken DEF done, Unhelped
  <2> QED BY <1>3, <2>1, <2>2
<1>5. Leaves(e)
  BY <1>1, <1>4, DidLeaves, FailsLeaves
<1>6. ASSUME e.ok, e.bank > 0 PROVE AsAsked(e.bank, e.player, p, r, n)
  <2>1. e.bank = done.p.bankroll - p.bankroll /\ e.player = done.p
    <3>1. e # Fails
      BY <1>6 DEF Fails
    <3>2. e = Measured(p, done.p, OddsKey(r) :> -done.taken)
      BY <1>1, <3>1
    <3> QED BY <3>2 DEF Measured, Did
  <2>2. /\ p.bankroll \in Int /\ done.p.bankroll \in Int /\ DOMAIN p.bets = 1..Len(p.bets)
        /\ p.bets \in Seq(Bets) /\ done.p.bets \in Seq(Bets)
    BY <1>4, LenProperties DEF Players
  <2>3. ~(done.p.bankroll <= p.bankroll)
    BY <1>6, <2>1, <2>2
  <2>4. done.taken = Min({r.amount, RidingOn(p.bets, r, n)}) /\ GotBack(done.p, p, r, n, done.taken)
    BY <1>4, <2>3
  <2> DEFINE gone == RidingOn(p.bets, r, n) - RidingOn(done.p.bets, r, n)
  <2>5. gone \in Int
    BY <2>2, RidingIsNat
  <2>6. /\ done.p.bankroll = p.bankroll + 2 * gone
        /\ done.taken <= gone
        /\ done.taken < gone => \E i \in 1..Len(p.bets) : Rides(p.bets[i], r, n) /\ gone < done.taken + p.bets[i].amt
    BY <2>4 DEF GotBack
  <2>7. e.bank = 2 * gone
    <3> HIDE DEF gone
    <3> QED BY <2>1, <2>2, <2>5, <2>6
  <2>8. AsAsked(e.bank, done.p, p, r, n)
    BY <2>2, <2>4, <2>6, <2>7 DEF AsAsked
  <2> QED BY <2>1, <2>8
<1> QED BY <1>5, <1>6 DEF n, e

\* A line taken off, or what has travelled.
LEMMA RemoveLeaves == ASSUME NEW p \in Players, NEW r, NEW rem PROVE Leaves(LiveRemove(p, r, rem))
<1>1. \A fams, numbered : Without(p, fams, numbered, rem) \in Players
  BY WithoutPlayer
<1>2. \/ \E bets : LiveRemove(p, r, rem) = Measured(p, Without(p, LineFams, FALSE, rem), bets)
      \/ \E fams, bank, bets : LiveRemove(p, r, rem) = Did(Without(p, fams, TRUE, rem), bank, bets)
  BY Zenon DEF LiveRemove
<1> QED BY <1>1, <1>2, DidLeaves

\* A verb with a live engine leaves a player.
LEMMA LiveLeaves ==
  ASSUME BetConstants, NEW t, t.point \in Nat, NEW p \in Players, NEW r, Fit(r), NEW add, NEW rem \in RemoveHow
  PROVE  Leaves(LiveEffect(t, p, r, add, rem))
<1> DEFINE e == LiveEffect(t, p, r, add, rem)
<1>1. CASE r.verb \in {"place_bet", "buy_bet", "lay_bet"}
  <2>1. e = LiveBoxBet(p, r, add)
    BY <1>1, Zenon DEF LiveEffect
  <2> QED BY <1>1, <2>1, StakesLeave DEF Fit
<1>2. CASE r.verb = "take_down"
  <2>1. e = LiveTakeDown(p, r, rem)
    BY <1>2, Zenon DEF LiveEffect
  <2> QED BY <1>2, <2>1, BoxesLeave
<1>3. CASE r.verb = "move_bet"
  <2>1. e = LiveMoveBet(p, r, rem, add)
    BY <1>3, Zenon DEF LiveEffect
  <2> QED BY <1>3, <2>1, BoxesLeave
<1>4. CASE r.verb = "line_bet"
  <2>1. e = LiveLineBet(p, r, add)
    BY <1>4, Zenon DEF LiveEffect
  <2> QED BY <1>4, <2>1, StakesLeave DEF Fit, Fams
<1>5. CASE r.verb \in {"come_bet", "dont_come_bet"}
  <2>1. e = LiveComeBet(p, r, add)
    BY <1>5, Zenon DEF LiveEffect
  <2> QED BY <1>5, <2>1, StakesLeave DEF Fit
<1>6. CASE r.verb = "field_bet"
  <2>1. e = LiveFieldBet(p, r, add)
    BY <1>6, Zenon DEF LiveEffect
  <2> QED BY <1>6, <2>1, StakesLeave DEF Fit
<1>7. CASE r.verb = "hardway_bet"
  <2>1. e = LiveHardwayBet(p, r, add)
    BY <1>7, Zenon DEF LiveEffect
  <2> QED BY <1>7, <2>1, StakesLeave DEF Fit
<1>8. CASE r.verb = "set_odds"
  <2>1. e = LiveSetOdds(t, p, r, add)
    BY <1>8, Zenon DEF LiveEffect
  <2> QED BY <1>8, <2>1, StakesLeave DEF Fit
<1>9. CASE r.verb = "take_odds"
  <2>1. e = LiveTakeOdds(t, p, r, add, rem)
    BY <1>9, Zenon DEF LiveEffect
  <2>2. r.amount \in Nat
    BY <1>9 DEF Fit
  <2>3. Leaves(LiveTakeOdds(t, p, r, add, rem))
    BY <2>2, TakeOddsIs
  <2> QED BY <2>1, <2>3
<1>10. CASE r.verb = "prop_bet"
  <2>1. e = LivePropBet(p, r, add)
    BY <1>10, Zenon DEF LiveEffect
  <2> QED BY <1>10, <2>1, StakesLeave DEF Fit
<1>11. CASE r.verb = "ats_bet"
  <2>1. e = LiveAtsBet(p, r, add)
    BY <1>11, Zenon DEF LiveEffect
  <2> QED BY <1>11, <2>1, StakesLeave DEF Fit
<1>12. CASE r.verb \in {"remove_line", "remove_come", "remove_dont_come"}
  <2>1. e = LiveRemove(p, r, rem)
    BY <1>12, Zenon DEF LiveEffect
  <2> QED BY <1>12, <2>1, RemoveLeaves
<1>13. CASE r.verb \notin {"place_bet", "buy_bet", "lay_bet", "take_down", "move_bet", "line_bet", "come_bet",
                          "dont_come_bet", "field_bet", "hardway_bet", "set_odds", "take_odds", "prop_bet", "ats_bet",
                          "remove_line", "remove_come", "remove_dont_come"}
  <2>1. e = Fails
    BY <1>13 DEF LiveEffect
  <2> QED BY <2>1, FailsLeaves
<1> HIDE DEF e
<1> QED BY <1>1, <1>2, <1>3, <1>4, <1>5, <1>6, <1>7, <1>8, <1>9, <1>10, <1>11, <1>12, <1>13 DEF e

\* What the strategy makes ready is a player.
LEMMA ReadyPlayer ==
  ASSUME NEW t, NEW s, NEW p \in Players, NEW clear, NEW add
  PROVE  Prepared(t, s, p, clear, add).player \in Players
<1>1. \A fam \in Fams, num \in Nat, amt \in Nat : Bet(fam, num, amt) \in Bets
  BY BetIs
<1>2. ComeOutBets \in Seq(Bets) /\ PointBets \in Seq(Bets)
  <2>1. {"pass", "place", "field"} \subseteq Fams
    BY DEF Fams
  <2>2. Bet("pass", 0, 10) \in Bets /\ Bet("place", 6, 12) \in Bets /\ Bet("place", 8, 12) \in Bets /\ Bet("field", 0, 5) \in Bets
    BY <1>1, <2>1
  <2> QED BY <2>2 DEF ComeOutBets, PointBets
<1>3. p.bankroll \in Int /\ p.bets \in Seq(Bets)
  BY DEF Players
<1>4. Emptied(p, clear) \in Players
  <2>1. All(p.bets) \in Nat
    BY <1>3, AllTotal
  <2>2. Emptied(p, clear) = [bankroll |-> p.bankroll + IF clear = "none" THEN 0 ELSE 2 * All(p.bets), bets |-> <<>>]
    BY DEF Emptied, All
  <2>3. p.bankroll + (IF clear = "none" THEN 0 ELSE 2 * All(p.bets)) \in Int
    BY <1>3, <2>1
  <2>4. <<>> \in Seq(Bets)
    OBVIOUS
  <2> QED BY <2>2, <2>3, <2>4 DEF Players
<1>5. ASSUME NEW q \in Players, NEW bets \in Seq(Bets) PROVE AddMany(q, bets, add) \in Players
  <2>1. q.bankroll \in Int /\ q.bets \in Seq(Bets) /\ All(bets) \in Nat
    BY AllTotal DEF Players
  <2>2. AddMany(q, bets, add) = q \/
        AddMany(q, bets, add) = [bankroll |-> q.bankroll - IF add = "raises" THEN 0 ELSE 2 * All(bets), bets |-> q.bets \o bets]
    BY Zenon DEF AddMany, All
  <2>3. q.bankroll - (IF add = "raises" THEN 0 ELSE 2 * All(bets)) \in Int
    BY <2>1
  <2>4. q.bets \o bets \in Seq(Bets)
    BY <2>1, ConcatProperties
  <2>5. [bankroll |-> q.bankroll - IF add = "raises" THEN 0 ELSE 2 * All(bets), bets |-> q.bets \o bets] \in Players
    BY <2>3, <2>4 DEF Players
  <2> QED BY <2>2, <2>5
<1>6. \/ Prepared(t, s, p, clear, add).player = p
      \/ \E q \in {p, Emptied(p, clear)}, bets \in {ComeOutBets, PointBets} :
           Prepared(t, s, p, clear, add).player \in {q, AddMany(q, bets, add)}
  <2> DEFINE turned == t.point = 0 \/ t.point # s.point
             cleared == IF turned THEN Emptied(p, clear) ELSE p
             bets == IF t.point = 0 THEN ComeOutBets ELSE PointBets
  <2>1. Prepared(t, s, p, clear, add).player \in {p, cleared, AddMany(cleared, bets, add)}
    BY DEF Prepared, Asked
  <2>2. cleared \in {p, Emptied(p, clear)} /\ bets \in {ComeOutBets, PointBets}
    OBVIOUS
  <2> HIDE DEF cleared, bets
  <2> QED BY <2>1, <2>2
<1> QED BY <1>2, <1>4, <1>5, <1>6

\* The player is one, and the point a number.
SeatedInv == player \in Players /\ table.point \in Nat

\* A call leaves a player.
LEMMA ActedPlayer ==
  ASSUME BetConstants, NEW t, t.point \in Nat, NEW p \in Players, NEW m, NEW r, Fit(r), NEW add, NEW rem \in RemoveHow
  PROVE  Acted(t, p, m, r, add, rem).player \in Players
<1> DEFINE e == LiveEffect(t, p, r, add, rem)
<1>1. \A q, n, ans : Left(q, n, ans).player = q
  BY DEF Left
<1>2. Leaves(e)
  BY LiveLeaves
<1>3. \A n : Fallback(p, n, r).player = p
  <2> TAKE n
  <2>1. \E k, ans : Fallback(p, n, r) = Left(p, k, ans)
    BY Zenon DEF Fallback
  <2> QED BY <1>1, <2>1
<1>4. \/ \E n, ans : Acted(t, p, m, r, add, rem) = Left(p, n, ans)
      \/ e.ok /\ \E n, ans : Acted(t, p, m, r, add, rem) = Left(e.player, n, ans)
      \/ \E n : Acted(t, p, m, r, add, rem) = Fallback(p, n, r)
  BY Zenon DEF Acted
<1> HIDE DEF e
<1> QED BY <1>1, <1>2, <1>3, <1>4 DEF Leaves

\* A roll leaves a player.
LEMMA RollPlayer ==
  ASSUME player \in Players, NEW total \in Nat, NEW fate, NEW raises \in BOOLEAN, NEW clear, NEW add,
         StepRoll(total, fate, raises, clear, add)
  PROVE  player' \in Players
<1> DEFINE m == Refreshed(table, player, mirror)
           was == Seen(table, player)
           ready == Prepared(table, strategy, player, clear, add)
           t == TableRolled(table, total)
           p == Settled(ready.player, fate, total)
           after == [Mirrored(t, p) EXCEPT !.comeout = @ \/ Pso(was, total)]
<1>1. CASE raises
  <2>1. Become(Left(ready.player, m, RollSaid(FALSE, "roll_failed", FALSE)))
    BY <1>1, Zenon DEF StepRoll
  <2>2. player' = ready.player
    BY <2>1 DEF Become, Left
  <2> QED BY <2>2, ReadyPlayer
<1>2. CASE ~raises
  <2>1. Become(Left(p, after, RollSaid(TRUE, "engine", Pso(was, total))))
    BY <1>2, Zenon DEF StepRoll
  <2>2. ready.player \in Players
    BY ReadyPlayer
  <2>3. p \in Players
    <3> HIDE DEF ready
    <3> QED BY <2>2, SettledPlayer
  <2> HIDE DEF ready, t, p, after, was
  <2>4. player' = p
    BY <2>1 DEF Become, Left
  <2> QED BY <2>3, <2>4
<1> QED BY <1>1, <1>2

\* What take_odds answers.
LEMMA TakeOddsSaid ==
  ASSUME BetConstants, NEW t, t.point \in Nat, NEW p \in Players, NEW m, NEW r, r.amount \in Nat, r.verb = "take_odds",
         NEW add, NEW rem \in RemoveHow
  PROVE  LET a == Acted(t, p, m, r, add, rem).answer
         IN  /\ a.of = r
             /\ a.via = "engine" /\ a.bank > 0
                  => AsAsked(a.bank, Acted(t, p, m, r, add, rem).player, p, r, OddsNumber(t, r))
<1> DEFINE e == LiveTakeOdds(t, p, r, add, rem)
           seen == Refreshed(t, p, m)
           f == EffectOf(seen, r)
           acted == Acted(t, p, m, r, add, rem)
<1>1. LiveEffect(t, p, r, add, rem) = e
  BY Zenon DEF LiveEffect
<1>2. r.verb \notin {"press", "regress"}
  OBVIOUS
<1>3. \/ e.ok /\ acted = Left(e.player, Mirrored(t, e.player), Said(r, TRUE, "engine", e.bank))
      \/ acted = Fallback(p, seen, r)
  BY <1>1, <1>2, Zenon DEF Acted
<1>4. \/ Fallback(p, seen, r).answer = Said(r, TRUE, "stub", f.bank)
      \/ Fallback(p, seen, r).answer = Said(r, FALSE, "stub", 0)
  <2>1. \/ Fallback(p, seen, r) = Left(p, Applied(seen, r, f), Said(r, TRUE, "stub", f.bank))
        \/ Fallback(p, seen, r) = Left(p, seen, Said(r, FALSE, "stub", 0))
    BY Zenon DEF Fallback
  <2>2. \A n, ans : Fallback(p, seen, r) = Left(p, n, ans) => Fallback(p, seen, r).answer = ans
    BY DEF Left
  <2> HIDE DEF seen, f
  <2> QED BY <2>1, <2>2
<1>5. e.ok /\ e.bank > 0 => AsAsked(e.bank, e.player, p, r, OddsNumber(t, r))
  BY TakeOddsIs
<1> HIDE DEF e, seen, f, acted
<1>6. CASE e.ok /\ acted = Left(e.player, Mirrored(t, e.player), Said(r, TRUE, "engine", e.bank))
  <2>1. acted.answer = Said(r, TRUE, "engine", e.bank) /\ acted.player = e.player
    BY <1>6 DEF Left
  <2>2. acted.answer.of = r /\ acted.answer.bank = e.bank
    BY <2>1 DEF Said
  <2> QED BY <1>5, <1>6, <2>1, <2>2 DEF acted
<1>7. CASE acted = Fallback(p, seen, r)
  <2>1. acted.answer = Said(r, TRUE, "stub", f.bank) \/ acted.answer = Said(r, FALSE, "stub", 0)
    BY <1>4, <1>7
  <2>2. acted.answer.of = r /\ acted.answer.via = "stub"
    BY <2>1 DEF Said
  <2> QED BY <2>2 DEF acted
<1> QED BY <1>3, <1>6, <1>7

\* An answer to a verb names it.
LEMMA SaysVerb ==
  ASSUME NEW t, NEW p, NEW m, NEW r \in Requests, NEW add, NEW rem
  PROVE  Acted(t, p, m, r, add, rem).answer.of.verb = r.verb
<1> DEFINE acted == Acted(t, p, m, r, add, rem)
<1>1. \/ \E q, n, ok, via, bank : acted = Left(q, n, Said(r, ok, via, bank))
      \/ \E n, ok, bank : acted = Left(p, n, Said(r, ok, "stub", bank))
  BY Zenon DEF Acted, Fallback
<1> HIDE DEF acted
<1>2. acted.answer.of.verb = r.verb
  BY <1>1 DEF Left, Said
<1> QED BY <1>2 DEF acted

\* No step leaves anything else.
LEMMA SeatedStep == ASSUME BetConstants, LiveConstants, SeatedInv, [Next]_vars PROVE SeatedInv'
<1>1. ASSUME NEW r \in Requests, NEW add, NEW rem \in RemoveHow, ApplyAction(r, add, rem) PROVE SeatedInv'
  <2>1. player' = Acted(table, player, mirror, r, add, rem).player /\ table' = table
    BY <1>1, Zenon DEF ApplyAction, Become
  <2>2. Fit(r)
    BY RequestsFit
  <2> QED BY <2>1, <2>2, ActedPlayer DEF SeatedInv
<1>2. CASE StopEarly
  BY <1>2 DEF StopEarly, Become, Left, SeatedInv
<1>3. ASSUME NEW total \in Boxes \cup {7}, NEW fate, NEW raises \in BOOLEAN, NEW clear, NEW add,
             StepRoll(total, fate, raises, clear, add)
      PROVE  SeatedInv'
  <2>1. total \in Nat
    BY DEF BetConstants
  <2>2. player' \in Players
    BY <1>3, <2>1, RollPlayer DEF SeatedInv
  <2>3. table' = table \/ table' = TableRolled(table, total)
    BY <1>3, RollLeaves, Zenon
  <2>4. table'.point \in Nat
    BY <2>3, PointAfter DEF SeatedInv
  <2> QED BY <2>2, <2>4 DEF SeatedInv
<1>4. CASE UNCHANGED vars
  BY <1>4 DEF vars, SeatedInv
<1> QED BY <1>1, <1>2, <1>3, <1>4, Steps

\* It starts with one.
LEMMA SeatedInit == ASSUME BetConstants, Init PROVE SeatedInv
<1>1. player = Seated(2 * Start) /\ table \in [point : {0}, hand : {0}, roll : {0}, asks : BOOLEAN]
  BY Zenon DEF Init
<1>2. 2 * Start \in Int
  BY DEF BetConstants
<1>3. <<>> \in Seq(Bets)
  OBVIOUS
<1>4. player \in Players
  BY <1>1, <1>2, <1>3 DEF Seated, Players
<1>5. table.point \in Nat
  BY <1>1
<1> QED BY <1>4, <1>5 DEF SeatedInv

\* What is got back is what stopped riding.
LEMMA AskedIsTaken ==
  ASSUME BetConstants, LiveConstants, SeatedInv, Next,
         answer'.of.verb = "take_odds", answer'.via = "engine", answer'.bank > 0
  PROVE  AsAsked(answer'.bank, player', player, answer'.of, OddsNumber(table, answer'.of))
<1> DEFINE Goal == AsAsked(answer'.bank, player', player, answer'.of, OddsNumber(table, answer'.of))
<1> SUFFICES Goal
  OBVIOUS
<1>1. ASSUME NEW r \in Requests, NEW add, NEW rem \in RemoveHow, ApplyAction(r, add, rem) PROVE Goal
  <2> DEFINE acted == Acted(table, player, mirror, r, add, rem)
  <2>1. answer' = acted.answer /\ player' = acted.player
    BY <1>1, Zenon DEF ApplyAction, Become
  <2>2. r.verb = "take_odds"
    <3>1. acted.answer.of.verb = r.verb
      BY SaysVerb
    <3> QED BY <2>1, <3>1
  <2>3. r.amount \in Nat
    BY <2>2, RequestsFit DEF Fit
  <2> HIDE DEF acted
  <2>4. /\ acted.answer.of = r
        /\ acted.answer.via = "engine" /\ acted.answer.bank > 0
             => AsAsked(acted.answer.bank, acted.player, player, r, OddsNumber(table, r))
    BY <2>2, <2>3, TakeOddsSaid DEF SeatedInv, acted
  <2> QED BY <2>1, <2>4
<1>2. CASE StopEarly
  <2>1. answer'.of.verb = "roll"
    BY <1>2 DEF StopEarly, Become, Left, RollSaid
  <2> QED BY <2>1
<1>3. ASSUME NEW total, NEW fate, NEW raises \in BOOLEAN, NEW clear, NEW add,
             StepRoll(total, fate, raises, clear, add)
      PROVE  Goal
  <2>1. answer' = RollSaid(FALSE, "roll_failed", FALSE) \/ \E pso : answer' = RollSaid(TRUE, "engine", pso)
    BY <1>3, RollLeaves, Zenon
  <2>2. answer'.of.verb = "roll"
    BY <2>1 DEF RollSaid
  <2> QED BY <2>2
<1> HIDE DEF Goal
<1>4. CASE \E r \in Requests, add \in AddHow, rem \in RemoveHow : ApplyAction(r, add, rem)
  BY <1>1, <1>4
<1>5. CASE \E clear \in ClearHow, add \in AddHow, total \in Boxes \cup {7}, raises \in BOOLEAN : \E fate :
             StepRoll(total, fate, raises, clear, add)
  BY <1>3, <1>5
<1> QED BY <1>2, <1>4, <1>5, Steps

\* What take_odds gets back is what has stopped riding: what was asked or, where less is
\* riding, all of it, however many bets it is spread over, and more only by what was not
\* taken again of one of them.
THEOREM TakesAsked == ASSUME BetConstants, LiveConstants PROVE Spec => TakesWhatIsAsked
<1>1. Init => SeatedInv
  BY SeatedInit
<1>2. SeatedInv /\ [Next]_vars => SeatedInv'
  BY SeatedStep
<1> DEFINE AsSaid ==
      calls' # calls /\ answer'.of.verb = "take_odds" /\ answer'.via = "engine" /\ answer'.bank > 0
        => LET r == answer'.of
               n == OddsNumber(table, r)
               riding == RidingOn(player.bets, r, n)
               gone == riding - RidingOn(player'.bets, r, n)
               asked == Min({r.amount, riding})
           IN  /\ answer'.bank = 2 * gone
               /\ asked <= gone
               /\ asked < gone => \E i \in DOMAIN player.bets :
                                    Rides(player.bets[i], r, n) /\ gone < asked + player.bets[i].amt
<1>3. ASSUME SeatedInv, [Next]_vars PROVE [AsSaid]_vars
  <2>1. CASE UNCHANGED vars
    BY <2>1
  <2>2. CASE Next
    <3> SUFFICES ASSUME answer'.of.verb = "take_odds", answer'.via = "engine", answer'.bank > 0
                 PROVE  AsAsked(answer'.bank, player', player, answer'.of, OddsNumber(table, answer'.of))
      BY DEF AsAsked
    <3> QED BY <1>3, <2>2, AskedIsTaken
  <2> QED BY <1>3, <2>1, <2>2
<1> QED BY <1>1, <1>2, <1>3, PTL DEF Spec, TakesWhatIsAsked

---------------------------------------------------------------------------
(* The rules. *)

\* What is kept of a rule's id.
IsState(s) ==
  /\ s = [disabled |-> s.disabled, cooldown |-> s.cooldown, lock |-> s.lock]
  /\ s.disabled \in BOOLEAN /\ s.cooldown \in Nat

\* A state for every id.
AreStates(states) == states = [r \in Stub!RuleIds |-> states[r]] /\ \A r \in Stub!RuleIds : IsState(states[r])

\* The rules are a sequence of what sentences say.
LEMMA RulesLen == Len(Rules) \in Nat /\ DOMAIN Rules = 1..Len(Rules)
<1>1. Rules \in Seq(Range(Rules))
  BY RuleConstants DEF RuleConstants
<1> QED BY <1>1, LenProperties

\* What is known of a rule of the set.
LEMMA RuleIs ==
  ASSUME NEW i \in 1..Len(Rules)
  PROVE  Rules[i].id \in Stub!RuleIds /\ Rules[i].cooldown \in Nat /\ Rules[i].once \in BOOLEAN
<1>1. i \in DOMAIN Rules
  BY RulesLen
<1>2. Rules[i].id \in Stub!RuleIds
  BY <1>1 DEF Stub!RuleIds
<1> QED BY <1>1, <1>2, RuleConstants DEF RuleConstants

\* A tick takes one from a cooldown.
LEMMA TickedIs ==
  ASSUME NEW s, IsState(s)
  PROVE  /\ IsState(Stub!Ticked(s)) /\ Stub!Ticked(s).disabled = s.disabled
         /\ Stub!Ticked(s).cooldown = IF s.cooldown > 0 THEN s.cooldown - 1 ELSE 0
BY DEF IsState, Stub!Ticked

\* What a firing leaves.
LEMMA FiredIs ==
  ASSUME NEW rule, rule.once \in BOOLEAN, rule.cooldown \in Nat, NEW s, IsState(s), NEW key
  PROVE  /\ IsState(Stub!Fired(rule, s, key)) /\ Stub!Fired(rule, s, key).disabled = rule.once
         /\ Stub!Fired(rule, s, key).cooldown = IF rule.cooldown > 0 THEN rule.cooldown + 1 ELSE s.cooldown
BY DEF IsState, Stub!Fired

\* A lock that is dropped says nothing of the pace.
LEMMA UnlockedIs ==
  ASSUME NEW rule, NEW s, IsState(s), NEW key
  PROVE  /\ IsState(Stub!Unlocked(rule, s, key)) /\ Stub!Unlocked(rule, s, key).disabled = s.disabled
         /\ Stub!Unlocked(rule, s, key).cooldown = s.cooldown
BY DEF IsState, Stub!Unlocked

\* The id of a rule that has fired was neither spent nor cooling, and is now what the
\* rule asks.
Held(ticked, states, rule) ==
  /\ ~ticked[rule.id].disabled /\ ticked[rule.id].cooldown = 0
  /\ rule.once => states[rule.id].disabled
  /\ rule.cooldown > 0 => states[rule.id].cooldown >= rule.cooldown + 1

\* What the first k looks of an evaluation have made of the ticked states: an id that
\* was spent or cooling still is, and the rules that have fired are held.
Looks(ticked, k, states, fired) ==
  /\ AreStates(states)
  /\ fired \in Seq(1..k)
  /\ \A r \in Stub!RuleIds :
        /\ ticked[r].disabled => states[r].disabled
        /\ ticked[r].cooldown > 0 => states[r].cooldown = ticked[r].cooldown
  /\ \A j \in 1..Len(fired) : Held(ticked, states, Rules[fired[j]])

\* In particular of one id.
LEMMA LooksKeepId ==
  ASSUME NEW ticked, NEW k, NEW states, NEW fired, Looks(ticked, k, states, fired), NEW r \in Stub!RuleIds
  PROVE  /\ ticked[r].disabled => states[r].disabled
         /\ ticked[r].cooldown > 0 => states[r].cooldown = ticked[r].cooldown
BY DEF Looks

\* One more look keeps that.
LEMMA LookedKeeps ==
  ASSUME NEW ticked, \A r \in Stub!RuleIds : IsState(ticked[r]), NEW k \in 0..(Len(Rules) - 1),
         NEW states, NEW fired, Looks(ticked, k, states, fired), NEW holds
  PROVE  LET l == Stub!Looked(Rules, states, fired, holds, 0, 0, k + 1)
         IN  Looks(ticked, k + 1, l.states, l.fired)
<1> DEFINE i == k + 1
           rule == Rules[i]
           key == Stub!ScopeKey(rule.scope, 0, 0)
           s == states[rule.id]
           l == Stub!Looked(Rules, states, fired, holds, 0, 0, k + 1)
<1>0. Len(Rules) \in Nat
  BY RulesLen
<1>1. i \in 1..Len(Rules) /\ k \in Nat /\ 1..k \subseteq 1..i
  BY <1>0
<1>2. rule.id \in Stub!RuleIds /\ rule.cooldown \in Nat /\ rule.once \in BOOLEAN
  BY <1>1, RuleIs
<1>3. /\ states = [r \in Stub!RuleIds |-> states[r]] /\ \A r \in Stub!RuleIds : IsState(states[r])
      /\ fired \in Seq(1..k) /\ fired \in Seq(1..i) /\ Len(fired) \in Nat
  BY <1>1 DEF Looks, AreStates
<1>4. \A j \in 1..Len(fired) : fired[j] \in 1..Len(Rules) /\ Rules[fired[j]].id \in Stub!RuleIds
  <2> TAKE j \in 1..Len(fired)
  <2>1. fired[j] \in 1..k
    BY <1>3
  <2>2. fired[j] \in 1..Len(Rules)
    BY <1>0, <1>1, <2>1
  <2> QED BY <2>2, RuleIs
<1>5. CASE i \in holds /\ Stub!Ready(rule, s, key)
  <2> DEFINE n == Stub!Fired(rule, s, key)
  <2>1. l.states = [states EXCEPT ![rule.id] = n] /\ l.fired = Append(fired, i)
    BY <1>5 DEF Stub!Looked
  <2>2. IsState(n) /\ n.disabled = rule.once
        /\ n.cooldown = IF rule.cooldown > 0 THEN rule.cooldown + 1 ELSE s.cooldown
    BY <1>2, <1>3, FiredIs
  <2>3. ~s.disabled /\ s.cooldown = 0
    BY <1>5 DEF Stub!Ready, Stub!LookedAt
  <2>4. ~ticked[rule.id].disabled /\ ~(ticked[rule.id].cooldown > 0)
    BY <1>2, <2>3, LooksKeepId
  <2>5. ticked[rule.id].cooldown = 0
    <3>1. ticked[rule.id].cooldown \in Nat
      BY <1>2 DEF IsState
    <3> QED BY <2>4, <3>1
  <2> HIDE DEF n, l, rule, i
  <2>6. /\ l.states = [r \in Stub!RuleIds |-> l.states[r]] /\ \A r \in Stub!RuleIds : IsState(l.states[r])
        /\ l.states[rule.id] = n /\ \A r \in Stub!RuleIds : r # rule.id => l.states[r] = states[r]
    BY <1>2, <1>3, <2>1, <2>2
  <2>7. /\ l.fired \in Seq(1..i) /\ Len(l.fired) = Len(fired) + 1 /\ l.fired[Len(fired) + 1] = i
        /\ \A j \in 1..Len(fired) : l.fired[j] = fired[j]
    BY <1>1, <1>3, <2>1, AppendProperties DEF i
  <2>8. \A r \in Stub!RuleIds :
        /\ ticked[r].disabled => l.states[r].disabled
        /\ ticked[r].cooldown > 0 => l.states[r].cooldown = ticked[r].cooldown
    BY <2>4, <2>6 DEF Looks
  <2>9. ASSUME NEW j \in 1..Len(l.fired)
        PROVE  Held(ticked, l.states, Rules[l.fired[j]])
    <3>1. CASE j = Len(fired) + 1
      <4>1. Rules[l.fired[j]] = rule
        BY <2>7, <3>1 DEF rule
      <4>2. rule.once => l.states[rule.id].disabled
        BY <2>2, <2>6
      <4>3. rule.cooldown > 0 => l.states[rule.id].cooldown >= rule.cooldown + 1
        BY <1>2, <2>2, <2>6
      <4> QED BY <2>4, <2>5, <4>1, <4>2, <4>3 DEF Held
    <3>2. CASE j \in 1..Len(fired)
      <4> DEFINE q == Rules[fired[j]]
      <4>1. /\ ~ticked[q.id].disabled /\ ticked[q.id].cooldown = 0
            /\ q.once => states[q.id].disabled
            /\ q.cooldown > 0 => states[q.id].cooldown >= q.cooldown + 1
        BY <3>2 DEF Looks, Held
      <4>2. Rules[l.fired[j]] = q /\ q.id \in Stub!RuleIds /\ q.cooldown \in Nat
        BY <1>4, <2>7, <3>2, RuleIs
      <4> HIDE DEF q
      <4>3. CASE q.id = rule.id
        <5>1. ~q.once
          BY <2>3, <4>1, <4>3
        <5>2. ~(q.cooldown > 0)
          BY <2>3, <4>1, <4>2, <4>3
        <5> QED BY <4>1, <4>2, <5>1, <5>2 DEF Held
      <4>4. CASE q.id # rule.id
        BY <2>6, <4>1, <4>2, <4>4 DEF Held
      <4> QED BY <4>3, <4>4
    <3>3. j = Len(fired) + 1 \/ j \in 1..Len(fired)
      BY <1>3, <2>7
    <3> QED BY <3>1, <3>2, <3>3
  <2>10. Looks(ticked, i, l.states, l.fired)
    <3>1. \A j \in 1..Len(l.fired) : Held(ticked, l.states, Rules[l.fired[j]])
      BY <2>9
    <3>2. AreStates(l.states)
      BY <2>6 DEF AreStates
    <3>3. l.fired \in Seq(1..i)
      BY <2>7
    <3> QED BY <2>8, <3>1, <3>2, <3>3 DEF Looks
  <2> QED BY <2>10 DEF l, i
<1>6. CASE ~(i \in holds /\ Stub!Ready(rule, s, key))
  <2> DEFINE n == Stub!Unlocked(rule, s, key)
  <2>1. l.states = [states EXCEPT ![rule.id] = n] /\ l.fired = fired
    BY <1>6 DEF Stub!Looked
  <2>2. IsState(n) /\ n.disabled = s.disabled /\ n.cooldown = s.cooldown
    BY <1>2, <1>3, UnlockedIs
  <2> HIDE DEF n, l, rule, i
  <2>3. /\ l.states = [r \in Stub!RuleIds |-> l.states[r]] /\ \A r \in Stub!RuleIds : IsState(l.states[r])
        /\ \A r \in Stub!RuleIds : l.states[r].disabled = states[r].disabled /\ l.states[r].cooldown = states[r].cooldown
    BY <1>2, <1>3, <2>1, <2>2
  <2>4. \A r \in Stub!RuleIds :
        /\ ticked[r].disabled => l.states[r].disabled
        /\ ticked[r].cooldown > 0 => l.states[r].cooldown = ticked[r].cooldown
    BY <2>3 DEF Looks
  <2>5. ASSUME NEW j \in 1..Len(l.fired)
        PROVE  Held(ticked, l.states, Rules[l.fired[j]])
    BY <1>4, <2>1, <2>3 DEF Looks, Held
  <2>6. Looks(ticked, i, l.states, l.fired)
    <3>1. AreStates(l.states)
      BY <2>3 DEF AreStates
    <3> QED BY <1>3, <2>1, <2>4, <2>5, <3>1 DEF Looks
  <2> QED BY <2>6 DEF l, i
<1> QED BY <1>5, <1>6

\* The states ticked, as an evaluation starts.
AllTicked == [r \in DOMAIN ruleState |-> Stub!Ticked(ruleState[r])]

\* What the first n looks of an evaluation leave.
Looking(f, n, holds) ==
  f = [i \in 0..n |-> IF i = 0 THEN [states |-> AllTicked, fired |-> <<>>]
                      ELSE Stub!Looked(Rules, f[i - 1].states, f[i - 1].fired, holds, 0, 0, i)]

\* There is such a function.
LEMMA LookingExists == ASSUME NEW holds PROVE \E f : Looking(f, Len(Rules), holds)
<1> DEFINE N == Len(Rules)
           T == {n \in 0..N : \E f : Looking(f, n, holds)}
           base == [states |-> AllTicked, fired |-> <<>>]
<1>0. N \in Nat
  BY RulesLen
<1>1. 0 \in T
  <2> DEFINE f == [i \in 0..0 |-> base]
  <2>1. f = [i \in 0..0 |-> IF i = 0 THEN base ELSE Stub!Looked(Rules, f[i - 1].states, f[i - 1].fired, holds, 0, 0, i)]
    OBVIOUS
  <2> HIDE DEF f
  <2>2. Looking(f, 0, holds)
    BY <2>1 DEF Looking
  <2> QED BY <1>0, <2>2
<1>2. ASSUME NEW n \in 0..(N - 1), n \in T PROVE n + 1 \in T
  <2>1. PICK f : Looking(f, n, holds)
    BY <1>2
  <2> DEFINE next(i) == IF i = 0 THEN base ELSE Stub!Looked(Rules, f[i - 1].states, f[i - 1].fired, holds, 0, 0, i)
             g == [i \in 0..(n + 1) |-> next(i)]
             again(i) == IF i = 0 THEN base ELSE Stub!Looked(Rules, g[i - 1].states, g[i - 1].fired, holds, 0, 0, i)
             h == [i \in 0..(n + 1) |-> again(i)]
  <2>2. f = [i \in 0..n |-> next(i)]
    BY <2>1 DEF Looking
  <2> HIDE DEF next
  <2>3. \A i \in 0..n : g[i] = f[i]
    BY <2>2
  <2>4. ASSUME NEW i \in 0..(n + 1) PROVE next(i) = again(i)
    <3>1. CASE i = 0
      BY <3>1 DEF next
    <3>2. CASE i # 0
      <4>1. i - 1 \in 0..n
        BY <3>2
      <4>2. g[i - 1] = f[i - 1]
        BY <2>3, <4>1
      <4> HIDE DEF g
      <4> QED BY <4>2 DEF next
    <3> QED BY <3>1, <3>2
  <2> HIDE DEF again
  <2>5. g = h
    BY <2>4
  <2>6. Looking(g, n + 1, holds)
    BY <2>5 DEF Looking, again
  <2> HIDE DEF g
  <2> QED BY <1>0, <2>6
<1> HIDE DEF T, N
<1>3. \A n \in 0..N : n \in T
  BY <1>0, <1>1, <1>2, Climb
<1> QED BY <1>0, <1>3 DEF T, N

\* So an evaluation leaves what all its looks do.
LEMMA EvaluatedLooks ==
  ASSUME AreStates(ruleState), NEW holds
  PROVE  LET e == Stub!Evaluated(Rules, ruleState, holds, 0, 0)
         IN  Looks(AllTicked, Len(Rules), e.states, e.fired)
<1> DEFINE f == CHOOSE g : Looking(g, Len(Rules), holds)
           N == Len(Rules)
           T == {n \in 0..N : Looks(AllTicked, n, f[n].states, f[n].fired)}
<1>0. N \in Nat
  BY RulesLen
<1>1. Looking(f, N, holds)
  BY LookingExists
<1>2. Stub!Evaluated(Rules, ruleState, holds, 0, 0) = f[N]
  BY DEF Stub!Evaluated, Looking, AllTicked
<1> HIDE DEF f
<1>3. DOMAIN ruleState = Stub!RuleIds
  BY DEF AreStates
<1>4. AreStates(AllTicked) /\ \A r \in Stub!RuleIds : IsState(AllTicked[r])
  <2>1. \A r \in Stub!RuleIds : AllTicked[r] = Stub!Ticked(ruleState[r])
    BY <1>3 DEF AllTicked
  <2>2. \A r \in Stub!RuleIds : IsState(AllTicked[r])
    BY <2>1, TickedIs DEF AreStates
  <2>3. AllTicked = [r \in Stub!RuleIds |-> AllTicked[r]]
    BY <1>3 DEF AllTicked
  <2> QED BY <2>2, <2>3 DEF AreStates
<1>5. /\ f[0] = [states |-> AllTicked, fired |-> <<>>]
      /\ \A n \in 0..(N - 1) : f[n + 1] = Stub!Looked(Rules, f[n].states, f[n].fired, holds, 0, 0, n + 1)
  <2> DEFINE g(i) == IF i = 0 THEN [states |-> AllTicked, fired |-> <<>>]
                     ELSE Stub!Looked(Rules, f[i - 1].states, f[i - 1].fired, holds, 0, 0, i)
  <2>1. f = [i \in 0..N |-> g(i)]
    BY <1>1 DEF Looking
  <2> HIDE DEF g
  <2>2. \A i \in 0..N : f[i] = g(i)
    BY <2>1
  <2>3. f[0] = [states |-> AllTicked, fired |-> <<>>]
    BY <1>0, <2>2 DEF g
  <2>4. ASSUME NEW n \in 0..(N - 1)
        PROVE  f[n + 1] = Stub!Looked(Rules, f[n].states, f[n].fired, holds, 0, 0, n + 1)
    <3>1. n + 1 \in 0..N /\ n + 1 # 0 /\ (n + 1) - 1 = n
      BY <1>0
    <3>2. f[n + 1] = g(n + 1)
      BY <2>2, <3>1
    <3> QED BY <3>1, <3>2 DEF g
  <2> QED BY <2>3, <2>4
<1>6. 0 \in T
  <2>1. Looks(AllTicked, 0, AllTicked, <<>>)
    BY <1>4 DEF Looks
  <2> QED BY <1>0, <1>5, <2>1
<1>7. ASSUME NEW n \in 0..(N - 1), n \in T PROVE n + 1 \in T
  <2>1. Looks(AllTicked, n, f[n].states, f[n].fired)
    BY <1>7
  <2>2. Looks(AllTicked, n + 1, f[n + 1].states, f[n + 1].fired)
    BY <1>4, <1>5, <2>1, LookedKeeps
  <2> QED BY <1>0, <2>2
<1> HIDE DEF T, N
<1>8. \A n \in 0..N : n \in T
  BY <1>0, <1>6, <1>7, Climb
<1> QED BY <1>0, <1>2, <1>8 DEF T, N

---------------------------------------------------------------------------
(* The session. *)

\* The session's counters, at some number of rolls.
Rolls(s, n) ==
  s = [terminated |-> s.terminated, rolls |-> s.rolls, violations |-> s.violations, applied |-> s.applied] /\ s.rolls = n

\* What a verb works on.
IsWorld(w, n) ==
  w = [adapter |-> w.adapter, session |-> w.session, answer |-> w.answer, told |-> w.told] /\ Rolls(w.session, n)

\* Two fields changed at once are changed one after the other.
LEMMA TwoFields ==
  ASSUME NEW w, NEW k, NEW y
  PROVE  /\ [w EXCEPT !.session.violations = @ + 1, !.answer = y] = [[w EXCEPT !.session.violations = @ + 1] EXCEPT !.answer = y]
         /\ [w EXCEPT !.session.applied = k, !.answer = y] = [[w EXCEPT !.session.applied = k] EXCEPT !.answer = y]
OBVIOUS

\* A request the policy blocks changes a counter and the answer.
LEMMA BlockedIs ==
  ASSUME NEW w, w = [adapter |-> w.adapter, session |-> w.session, answer |-> w.answer, told |-> w.told], NEW y
  PROVE  [w EXCEPT !.session.violations = @ + 1, !.answer = y]
         = [adapter |-> w.adapter, session |-> [w.session EXCEPT !.violations = @ + 1], answer |-> y, told |-> w.told]
<1>1. PICK a, s, x, t : w = [adapter |-> a, session |-> s, answer |-> x, told |-> t]
  BY Zenon
<1>2. w.adapter = a /\ w.session = s /\ w.answer = x /\ w.told = t
  BY ONLY <1>1
<1>3. [w EXCEPT !.session.violations = @ + 1]
      = [adapter |-> a, session |-> [s EXCEPT !.violations = @ + 1], answer |-> x, told |-> t]
  BY ONLY <1>1
<1>4. \A z : [[adapter |-> a, session |-> z, answer |-> x, told |-> t] EXCEPT !.answer = y]
              = [adapter |-> a, session |-> z, answer |-> y, told |-> t]
  OBVIOUS
<1>5. [[w EXCEPT !.session.violations = @ + 1] EXCEPT !.answer = y]
      = [adapter |-> a, session |-> [s EXCEPT !.violations = @ + 1], answer |-> y, told |-> t]
  BY ONLY <1>3, <1>4
<1> QED BY ONLY <1>2, <1>5, TwoFields

\* So does one that a verb refuses.
Refusal(w, k, z) == [w EXCEPT !.session.applied = k, !.answer = z]

\* A refusal changes what it names and nothing else.
LEMMA RefusedIs ==
  ASSUME NEW w, w = [adapter |-> w.adapter, session |-> w.session, answer |-> w.answer, told |-> w.told], NEW k, NEW z
  PROVE  Refusal(w, k, z)
         = [adapter |-> w.adapter, session |-> [w.session EXCEPT !.applied = k], answer |-> z, told |-> w.told]
<1>1. PICK a, s, x, t : w = [adapter |-> a, session |-> s, answer |-> x, told |-> t]
  BY Zenon
<1>2. w.adapter = a /\ w.session = s /\ w.answer = x /\ w.told = t
  BY ONLY <1>1
<1>3. [w EXCEPT !.session.applied = k]
      = [adapter |-> a, session |-> [s EXCEPT !.applied = k], answer |-> x, told |-> t]
  BY ONLY <1>1
<1>4. \A v : [[adapter |-> a, session |-> v, answer |-> x, told |-> t] EXCEPT !.answer = z]
              = [adapter |-> a, session |-> v, answer |-> z, told |-> t]
  BY ONLY TRUE
<1>5. [[w EXCEPT !.session.applied = k] EXCEPT !.answer = z]
      = [adapter |-> a, session |-> [s EXCEPT !.applied = k], answer |-> z, told |-> t]
  BY ONLY <1>3, <1>4
<1> QED BY ONLY <1>2, <1>5, TwoFields DEF Refusal

\* No verb counts a roll.
LEMMA ActedRolls == ASSUME NEW w, NEW n, IsWorld(w, n), NEW r PROVE IsWorld(Stub!Acted(w, r), n)
<1> DEFINE verdict == Stub!PolicyVerdict(policy, r.verb, Stub!Amount(r), Stub!PolicySnapshot(w.adapter))
           req == IF verdict.adjusted > 0 /\ "amount" \in DOMAIN r THEN [r EXCEPT !.amount = verdict.adjusted] ELSE r
           e == Stub!EffectOf(w.adapter, req)
           applied == IF verdict.adjusted > 0 THEN w.session.applied + 1 ELSE w.session.applied
           blocked == [w EXCEPT !.session.violations = @ + 1,
                                !.answer = [verb |-> r.verb, ok |-> FALSE, code |-> "policy_blocked", bank |-> 0]]
           refused == [w EXCEPT !.session.applied = applied,
                                !.answer = [verb |-> r.verb, ok |-> FALSE, code |-> "refused", bank |-> 0]]
           done == [adapter |-> Stub!Applied(w.adapter, req, e),
                    session |-> [w.session EXCEPT !.applied = applied],
                    answer |-> [verb |-> r.verb, ok |-> TRUE, code |-> "", bank |-> e.bank],
                    told |-> w.told + e.bank]
<1>1. Stub!Acted(w, r) = IF verdict.why # "" /\ policy.enforce THEN blocked ELSE IF ~e.ok THEN refused ELSE done
  BY DEF Stub!Acted
<1> HIDE DEF verdict, req, e, applied
<1>2. IsWorld(blocked, n)
  <2> DEFINE y == [verb |-> r.verb, ok |-> FALSE, code |-> "policy_blocked", bank |-> 0]
  <2>1. w = [adapter |-> w.adapter, session |-> w.session, answer |-> w.answer, told |-> w.told]
    BY DEF IsWorld
  <2> HIDE DEF y
  <2>2. [w EXCEPT !.session.violations = @ + 1, !.answer = y]
        = [adapter |-> w.adapter, session |-> [w.session EXCEPT !.violations = @ + 1], answer |-> y, told |-> w.told]
    BY ONLY <2>1, BlockedIs
  <2>3. blocked = [adapter |-> w.adapter, session |-> [w.session EXCEPT !.violations = @ + 1], answer |-> y, told |-> w.told]
    BY ONLY <2>2, Zenon DEF y, blocked
  <2>4. Rolls([w.session EXCEPT !.violations = @ + 1], n)
    BY DEF IsWorld, Rolls
  <2> HIDE DEF blocked
  <2> QED BY <2>3, <2>4 DEF IsWorld
<1>3. IsWorld(refused, n)
  <2> DEFINE y == [verb |-> r.verb, ok |-> FALSE, code |-> "refused", bank |-> 0]
  <2>1. w = [adapter |-> w.adapter, session |-> w.session, answer |-> w.answer, told |-> w.told]
    BY DEF IsWorld
  <2> HIDE DEF y
  <2>2. Refusal(w, applied, y)
        = [adapter |-> w.adapter, session |-> [w.session EXCEPT !.applied = applied], answer |-> y, told |-> w.told]
    BY ONLY <2>1, RefusedIs
  <2>3. refused = [adapter |-> w.adapter, session |-> [w.session EXCEPT !.applied = applied], answer |-> y, told |-> w.told]
    BY ONLY <2>2, Zenon DEF y, refused, Refusal
  <2>4. Rolls([w.session EXCEPT !.applied = applied], n)
    BY DEF IsWorld, Rolls
  <2> HIDE DEF refused
  <2> QED BY <2>3, <2>4 DEF IsWorld
<1>4. IsWorld(done, n)
  BY DEF IsWorld, Rolls
<1> HIDE DEF blocked, refused, done
<1> QED BY <1>1, <1>2, <1>3, <1>4

\* What the actions of the first n rules that fired leave.
Playing(f, n, fired) ==
  f = [i \in 0..n |-> IF i = 0 THEN Stub!World ELSE Stub!Acted(f[i - 1], Rules[fired[i]].act)]

\* There is such a function.
LEMMA PlayingExists == ASSUME NEW fired, Len(fired) \in Nat PROVE \E f : Playing(f, Len(fired), fired)
<1> DEFINE N == Len(fired)
           T == {n \in 0..N : \E f : Playing(f, n, fired)}
<1>0. N \in Nat
  OBVIOUS
<1>1. 0 \in T
  <2> DEFINE f == [i \in 0..0 |-> Stub!World]
  <2>1. f = [i \in 0..0 |-> IF i = 0 THEN Stub!World ELSE Stub!Acted(f[i - 1], Rules[fired[i]].act)]
    OBVIOUS
  <2> HIDE DEF f
  <2>2. Playing(f, 0, fired)
    BY <2>1 DEF Playing
  <2> QED BY <2>2
<1>2. ASSUME NEW n \in 0..(N - 1), n \in T PROVE n + 1 \in T
  <2>1. PICK f : Playing(f, n, fired)
    BY <1>2
  <2> DEFINE next(i) == IF i = 0 THEN Stub!World ELSE Stub!Acted(f[i - 1], Rules[fired[i]].act)
             g == [i \in 0..(n + 1) |-> next(i)]
             again(i) == IF i = 0 THEN Stub!World ELSE Stub!Acted(g[i - 1], Rules[fired[i]].act)
             h == [i \in 0..(n + 1) |-> again(i)]
  <2>2. f = [i \in 0..n |-> next(i)]
    BY <2>1 DEF Playing
  <2> HIDE DEF next
  <2>3. \A i \in 0..n : g[i] = f[i]
    BY <2>2
  <2>4. ASSUME NEW i \in 0..(n + 1) PROVE next(i) = again(i)
    <3>1. CASE i = 0
      BY <3>1 DEF next
    <3>2. CASE i # 0
      <4>1. i - 1 \in 0..n
        BY <3>2
      <4>2. g[i - 1] = f[i - 1]
        BY <2>3, <4>1
      <4> HIDE DEF g
      <4> QED BY <4>2 DEF next
    <3> QED BY <3>1, <3>2
  <2> HIDE DEF again
  <2>5. g = h
    BY <2>4
  <2>6. Playing(g, n + 1, fired)
    BY <2>5 DEF Playing, again
  <2> HIDE DEF g
  <2> QED BY <2>6
<1> HIDE DEF T, N
<1>3. \A n \in 0..N : n \in T
  BY <1>0, <1>1, <1>2, Climb
<1> QED BY <1>0, <1>3 DEF T, N

\* So the actions of the rules are played one after another.
LEMMA PlayedIs ==
  ASSUME NEW fired, Len(fired) \in Nat
  PROVE  \E f : /\ f[0] = Stub!World /\ f[Len(fired)] = Stub!Played(fired)
                /\ \A k \in 0..(Len(fired) - 1) : f[k + 1] = Stub!Acted(f[k], Rules[fired[k + 1]].act)
<1> DEFINE f == CHOOSE g : Playing(g, Len(fired), fired)
           N == Len(fired)
<1>1. Playing(f, N, fired)
  BY PlayingExists
<1>2. Stub!Played(fired) = f[N]
  BY DEF Stub!Played, Playing
<1> HIDE DEF f
<1>3. \A i \in 0..N : f[i] = IF i = 0 THEN Stub!World ELSE Stub!Acted(f[i - 1], Rules[fired[i]].act)
  <2> DEFINE g(i) == IF i = 0 THEN Stub!World ELSE Stub!Acted(f[i - 1], Rules[fired[i]].act)
  <2>1. f = [i \in 0..N |-> g(i)]
    BY <1>1 DEF Playing
  <2> HIDE DEF g
  <2>2. \A i \in 0..N : f[i] = g(i)
    BY <2>1
  <2> QED BY <2>2 DEF g
<1>4. f[0] = Stub!World
  BY <1>3
<1>5. ASSUME NEW k \in 0..(N - 1) PROVE f[k + 1] = Stub!Acted(f[k], Rules[fired[k + 1]].act)
  <2>1. k + 1 \in 0..N /\ k + 1 # 0 /\ (k + 1) - 1 = k
    OBVIOUS
  <2> QED BY <1>3, <2>1
<1> QED BY <1>2, <1>4, <1>5

\* They count no roll.
LEMMA PlayedRolls ==
  ASSUME NEW n, Rolls(session, n), NEW fired, Len(fired) \in Nat PROVE IsWorld(Stub!Played(fired), n)
<1>1. PICK f : /\ f[0] = Stub!World /\ f[Len(fired)] = Stub!Played(fired)
               /\ \A k \in 0..(Len(fired) - 1) : f[k + 1] = Stub!Acted(f[k], Rules[fired[k + 1]].act)
  BY PlayedIs
<1> DEFINE N == Len(fired)
           T == {k \in 0..N : IsWorld(f[k], n)}
<1>2. 0 \in T
  <2>1. IsWorld(Stub!World, n)
    BY DEF Stub!World, IsWorld
  <2> QED BY <1>1, <2>1
<1>3. ASSUME NEW k \in 0..(N - 1), k \in T PROVE k + 1 \in T
  BY <1>1, <1>3, ActedRolls
<1> HIDE DEF T
<1>4. \A k \in 0..N : k \in T
  BY <1>2, <1>3, Climb
<1> QED BY <1>1, <1>4 DEF T

---------------------------------------------------------------------------
(* The pace of the rules. *)

\* The rolls f a rule has fired at, the state s of its id and the roll now: it has
\* fired before now and at its pace, and its id still knows when it may fire again.
Spaced(rule, f, s, now) ==
  /\ f \in Seq(Nat) /\ \A j \in 1..Len(f) : f[j] < now
  /\ rule.once /\ Len(f) > 0 => s.disabled
  /\ rule.once => Len(f) <= 1
  /\ rule.cooldown > 0 /\ Len(f) > 0 => s.cooldown + now - f[Len(f)] >= rule.cooldown + 2
  /\ \A j \in 2..Len(f) : f[j] - f[j - 1] > rule.cooldown

\* Every rule is.
PacedInv ==
  /\ session.rolls \in Nat /\ Rolls(session, session.rolls)
  /\ AreStates(ruleState)
  /\ DOMAIN firings = 1..Len(Rules)
  /\ \A i \in 1..Len(Rules) : Spaced(Rules[i], firings[i], ruleState[Rules[i].id], session.rolls)

\* A rule that has not fired is spaced.
LEMMA FreshSpaced ==
  ASSUME NEW rule, NEW s, NEW now PROVE Spaced(rule, <<>>, s, now)
BY DEF Spaced

\* The sum a rule's wait is reckoned from does not fall with a tick, and says, when no
\* wait is left, that enough rolls have passed.
LEMMA WaitLeft ==
  ASSUME NEW wait \in Nat, NEW before \in Nat, NEW now \in Nat, NEW end \in Nat, NEW c \in Nat, before + now - end >= c + 2
  PROVE  /\ wait >= before - 1 => wait + (now + 1) - end >= c + 2
         /\ before <= 1 => now - end > c
OBVIOUS

\* A roll at which a rule sits out.
LEMMA SitsOut ==
  ASSUME NEW rule, rule.once \in BOOLEAN, rule.cooldown \in Nat, NEW f, NEW s, NEW now \in Nat, Spaced(rule, f, s, now),
         NEW z, IsState(s), IsState(z), s.disabled => z.disabled,
         z.cooldown >= s.cooldown - 1
  PROVE  Spaced(rule, f, z, now + 1)
<1>1. f \in Seq(Nat) /\ Len(f) \in Nat /\ s.cooldown \in Nat /\ z.cooldown \in Nat
  BY DEF Spaced, IsState
<1>2. \A j \in 1..Len(f) : f[j] \in Nat /\ f[j] < now
  BY DEF Spaced
<1>3. rule.once /\ Len(f) > 0 => z.disabled
  BY DEF Spaced
<1>4. ASSUME rule.cooldown > 0, Len(f) > 0
      PROVE  z.cooldown + (now + 1) - f[Len(f)] >= rule.cooldown + 2
  <2>1. s.cooldown + now - f[Len(f)] >= rule.cooldown + 2
    BY <1>4 DEF Spaced
  <2>2. f[Len(f)] \in Nat
    BY <1>1, <1>2, <1>4
  <2> QED BY <1>1, <2>1, <2>2, WaitLeft
<1>5. \A j \in 1..Len(f) : f[j] < now + 1
  BY <1>2
<1>6. /\ rule.once => Len(f) <= 1
      /\ \A j \in 2..Len(f) : f[j] - f[j - 1] > rule.cooldown
  BY DEF Spaced
<1> QED BY <1>1, <1>3, <1>4, <1>5, <1>6 DEF Spaced

\* A roll at which it fires, its id neither spent nor cooling after the tick.
LEMMA FiresAgain ==
  ASSUME NEW rule, rule.once \in BOOLEAN, rule.cooldown \in Nat, NEW f, NEW s, NEW now \in Nat, Spaced(rule, f, s, now),
         NEW z, IsState(s), IsState(z), ~s.disabled, s.cooldown <= 1,
         rule.once => z.disabled, rule.cooldown > 0 => z.cooldown >= rule.cooldown + 1
  PROVE  Spaced(rule, Append(f, now), z, now + 1)
<1> DEFINE g == Append(f, now)
<1>1. f \in Seq(Nat) /\ Len(f) \in Nat /\ s.cooldown \in Nat /\ z.cooldown \in Nat
  BY DEF Spaced, IsState
<1>2. g \in Seq(Nat) /\ Len(g) = Len(f) + 1 /\ g[Len(f) + 1] = now /\ \A j \in 1..Len(f) : g[j] = f[j]
  BY <1>1, AppendProperties
<1> HIDE DEF g
<1>3. \A j \in 1..Len(f) : f[j] \in Nat /\ f[j] < now
  BY DEF Spaced
<1>4. \A j \in 1..Len(g) : g[j] < now + 1
  <2> TAKE j \in 1..Len(g)
  <2>1. CASE j = Len(f) + 1
    BY <1>2, <2>1
  <2>2. CASE j \in 1..Len(f)
    BY <1>2, <1>3, <2>2
  <2> QED BY <1>1, <1>2, <2>1, <2>2
<1>5. rule.once => Len(f) = 0
  <2> HAVE rule.once
  <2>1. ~(Len(f) > 0)
    BY DEF Spaced
  <2> QED BY <1>1, <2>1
<1>6. rule.once => Len(g) <= 1
  BY <1>2, <1>5
<1>7. rule.cooldown > 0 /\ Len(g) > 0 => z.cooldown + (now + 1) - g[Len(g)] >= rule.cooldown + 2
  BY <1>1, <1>2
<1>8. ASSUME NEW j \in 2..Len(g) PROVE g[j] - g[j - 1] > rule.cooldown
  <2>1. CASE j = Len(f) + 1
    <3>1. j - 1 = Len(f) /\ Len(f) > 0 /\ Len(f) \in 1..Len(f)
      BY <1>1, <2>1
    <3>2. g[j] = now /\ g[j - 1] = f[Len(f)]
      BY <1>2, <2>1, <3>1
    <3>3. f[Len(f)] \in Nat /\ f[Len(f)] < now
      BY <1>3, <3>1
    <3>4. CASE rule.cooldown > 0
      <4>1. s.cooldown + now - f[Len(f)] >= rule.cooldown + 2
        BY <3>1, <3>4 DEF Spaced
      <4>2. now - f[Len(f)] > rule.cooldown
        BY <1>1, <3>3, <4>1, WaitLeft
      <4> QED BY <3>2, <4>2
    <3>5. CASE rule.cooldown = 0
      BY <3>2, <3>3, <3>5
    <3> QED BY <3>4, <3>5
  <2>2. CASE j \in 2..Len(f)
    <3>1. j \in 1..Len(f) /\ j - 1 \in 1..Len(f)
      BY <1>1, <2>2
    <3>2. g[j] = f[j] /\ g[j - 1] = f[j - 1]
      BY <1>2, <3>1
    <3>3. f[j] - f[j - 1] > rule.cooldown
      BY <2>2 DEF Spaced
    <3> QED BY <3>2, <3>3
  <2> QED BY <1>1, <1>2, <2>1, <2>2
<1>9. rule.once /\ Len(g) > 0 => z.disabled
  OBVIOUS
<1> QED BY <1>2, <1>4, <1>6, <1>7, <1>8, <1>9 DEF Spaced, g

\* The rules keep the pace through an evaluation.
LEMMA SpacedStep ==
  ASSUME PacedInv, NEW holds, NEW i \in 1..Len(Rules)
  PROVE  LET e == Stub!Evaluated(Rules, ruleState, holds, 0, 0)
         IN  /\ AreStates(e.states)
             /\ (\E j \in DOMAIN e.fired : e.fired[j] = i) =>
                  Spaced(Rules[i], Append(firings[i], session.rolls), e.states[Rules[i].id], session.rolls + 1)
             /\ Spaced(Rules[i], firings[i], e.states[Rules[i].id], session.rolls + 1)
<1> DEFINE e == Stub!Evaluated(Rules, ruleState, holds, 0, 0)
           rule == Rules[i]
           s == ruleState[rule.id]
           t == AllTicked[rule.id]
           z == e.states[rule.id]
           now == session.rolls
<1>1. Looks(AllTicked, Len(Rules), e.states, e.fired)
  BY EvaluatedLooks DEF PacedInv
<1>2. rule.id \in Stub!RuleIds /\ rule.cooldown \in Nat /\ rule.once \in BOOLEAN
  BY RuleIs
<1>3. IsState(s) /\ Spaced(rule, firings[i], s, now) /\ now \in Nat
  BY <1>2 DEF PacedInv, AreStates
<1>4. t = Stub!Ticked(s)
  BY <1>2 DEF PacedInv, AreStates, AllTicked
<1>5. IsState(t) /\ t.disabled = s.disabled /\ t.cooldown = IF s.cooldown > 0 THEN s.cooldown - 1 ELSE 0
  BY <1>3, <1>4, TickedIs
<1> HIDE DEF e
<1>6. AreStates(e.states) /\ IsState(z)
  BY <1>1, <1>2 DEF Looks, AreStates
<1>7. /\ t.disabled => z.disabled
      /\ t.cooldown > 0 => z.cooldown = t.cooldown
  BY <1>1, <1>2, LooksKeepId
<1>8. ASSUME NEW j \in DOMAIN e.fired, e.fired[j] = i
      PROVE  Held(AllTicked, e.states, rule)
  BY <1>1, <1>8 DEF Looks
<1> HIDE DEF rule, s, t, z, now
<1>9. s.cooldown \in Nat /\ t.cooldown \in Nat /\ z.cooldown \in Nat
  BY <1>3, <1>5, <1>6 DEF IsState
<1>10. Spaced(rule, firings[i], z, now + 1)
  <2>1. z.cooldown >= s.cooldown - 1
    BY <1>5, <1>7, <1>9
  <2> QED BY <1>2, <1>3, <1>5, <1>6, <1>7, <2>1, SitsOut
<1>11. ASSUME Held(AllTicked, e.states, rule)
       PROVE  Spaced(rule, Append(firings[i], now), z, now + 1)
  <2>1. /\ ~t.disabled /\ t.cooldown = 0
        /\ rule.once => z.disabled
        /\ rule.cooldown > 0 => z.cooldown >= rule.cooldown + 1
    BY <1>11 DEF Held, t, z
  <2>2. ~s.disabled /\ s.cooldown <= 1
    BY <1>5, <1>9, <2>1
  <2> QED BY <1>2, <1>3, <1>6, <2>1, <2>2, FiresAgain
<1> QED BY <1>6, <1>8, <1>10, <1>11 DEF e, rule, z, now

\* A roll adds one to the rolls of the session the rules' actions leave.
LEMMA RolledIs ==
  ASSUME NEW n \in Nat, NEW w, IsWorld(w, n), NEW total, NEW y
  PROVE  LET s == [w EXCEPT !.adapter = Stub!Rolled(@, total), !.session.rolls = @ + 1, !.answer = y].session
         IN  Rolls(s, s.rolls) /\ s.rolls = n + 1
<1> DEFINE a == Stub!Rolled(w.adapter, total)
           b == [w EXCEPT !.adapter = a]
           c == [b EXCEPT !.session.rolls = @ + 1]
           d == [c EXCEPT !.answer = y]
<1> HIDE DEF a
<1>1. PICK p, s, x, t : w = [adapter |-> p, session |-> s, answer |-> x, told |-> t]
  BY Zenon DEF IsWorld
<1>2. w.session = s
  BY ONLY <1>1
<1>3. Rolls(s, n)
  BY <1>2 DEF IsWorld
<1>4. b = [adapter |-> a, session |-> s, answer |-> x, told |-> t]
  BY ONLY <1>1
<1> HIDE DEF b
<1>5. c = [adapter |-> a, session |-> [s EXCEPT !.rolls = @ + 1], answer |-> x, told |-> t]
  BY ONLY <1>4
<1> HIDE DEF c
<1>6. d.session = [s EXCEPT !.rolls = @ + 1]
  BY ONLY <1>5
<1>7. [w EXCEPT !.adapter = a, !.session.rolls = @ + 1, !.answer = y] = d
  BY DEF c, b
<1> HIDE DEF d
<1>8. [w EXCEPT !.adapter = Stub!Rolled(@, total), !.session.rolls = @ + 1, !.answer = y]
      = [w EXCEPT !.adapter = a, !.session.rolls = @ + 1, !.answer = y]
  BY ONLY Zenon DEF a
<1>9. Rolls(d.session, d.session.rolls) /\ d.session.rolls = n + 1
  BY ONLY <1>3, <1>6, n \in Nat DEF Rolls
<1> QED BY ONLY <1>7, <1>8, <1>9

\* A request leaves the rules and the rolls as they were.
LEMMA PacedActs == ASSUME PacedInv, NEW r, Stub!ApplyAction(r) PROVE PacedInv'
<1> DEFINE n == session.rolls
<1>1. Rolls(session, n) /\ n \in Nat
  BY DEF PacedInv
<1> HIDE DEF n
<1>2. IsWorld(Stub!World, n)
  BY <1>1 DEF Stub!World, IsWorld
<1>3. IsWorld(Stub!Acted(Stub!World, r), n)
  BY <1>2, ActedRolls
<1>4. session' = Stub!Acted(Stub!World, r).session
  BY DEF Stub!ApplyAction, Stub!Become
<1>5. Rolls(session', n)
  BY <1>3, <1>4 DEF IsWorld
<1>6. session'.rolls = session.rolls
  BY <1>5 DEF Rolls, n
<1>7. ruleState' = ruleState /\ firings' = firings
  BY DEF Stub!ApplyAction
<1>8. session'.rolls \in Nat /\ Rolls(session', session'.rolls)
  BY <1>1, <1>5, <1>6 DEF n
<1>9. AreStates(ruleState')
  BY <1>7 DEF PacedInv
<1>10. \A i \in 1..Len(Rules) : Spaced(Rules[i], firings'[i], ruleState'[Rules[i].id], session'.rolls)
  BY <1>6, <1>7 DEF PacedInv
<1> QED BY <1>7, <1>8, <1>9, <1>10 DEF PacedInv

\* A roll keeps every rule at its pace.
LEMMA PacedRolls == ASSUME PacedInv, NEW total, NEW holds, Stub!StepRoll(total, holds) PROVE PacedInv'
<1> DEFINE why == Stub!EarlyStop(adapter)
           rules == Stub!Evaluated(Rules, ruleState, holds, 0, 0)
           ans == [verb |-> "roll", ok |-> why = "", code |-> why, bank |-> 0]
           n == session.rolls
<1>1. Rolls(session, n) /\ n \in Nat /\ AreStates(ruleState) /\ DOMAIN firings = 1..Len(Rules)
  BY DEF PacedInv
<1>2. CASE why # ""
  <2>1. session' = [session EXCEPT !.terminated = why] /\ ruleState' = ruleState /\ firings' = firings
    BY <1>2 DEF Stub!StepRoll
  <2>2. Rolls(session', n)
    BY <1>1, <2>1 DEF Rolls
  <2>3. session'.rolls = n
    BY <2>2 DEF Rolls
  <2>4. \A i \in 1..Len(Rules) : Spaced(Rules[i], firings'[i], ruleState'[Rules[i].id], session'.rolls)
    BY <2>1, <2>3 DEF PacedInv
  <2> QED BY <1>1, <2>1, <2>2, <2>3, <2>4 DEF PacedInv
<1>3. CASE why = ""
  <2>1. Looks(AllTicked, Len(Rules), rules.states, rules.fired)
    BY EvaluatedLooks DEF PacedInv
  <2>2. Len(rules.fired) \in Nat
    BY <2>1 DEF Looks
  <2>3. session' = [Stub!Played(rules.fired) EXCEPT !.adapter = Stub!Rolled(@, total), !.session.rolls = @ + 1, !.answer = ans].session
    BY <1>3 DEF Stub!StepRoll, Stub!Become
  <2>4. ruleState' = rules.states
    BY <1>3 DEF Stub!StepRoll
  <2>5. firings' = [i \in DOMAIN Rules |-> IF \E j \in DOMAIN rules.fired : rules.fired[j] = i
                                           THEN Append(firings[i], session.rolls) ELSE firings[i]]
    BY <1>3 DEF Stub!StepRoll
  <2> HIDE DEF rules, ans, why
  <2>6. IsWorld(Stub!Played(rules.fired), n)
    BY <1>1, <2>2, PlayedRolls
  <2>7. session'.rolls = n + 1 /\ Rolls(session', session'.rolls)
    BY <1>1, <2>3, <2>6, RolledIs
  <2>8. DOMAIN Rules = 1..Len(Rules)
    BY RulesLen
  <2>9. ASSUME NEW i \in 1..Len(Rules)
        PROVE  Spaced(Rules[i], firings'[i], ruleState'[Rules[i].id], session'.rolls)
    <3>1. (\E j \in DOMAIN rules.fired : rules.fired[j] = i) =>
             Spaced(Rules[i], Append(firings[i], session.rolls), rules.states[Rules[i].id], session.rolls + 1)
      BY SpacedStep DEF rules
    <3>2. Spaced(Rules[i], firings[i], rules.states[Rules[i].id], session.rolls + 1)
      BY SpacedStep DEF rules
    <3>3. firings'[i] = IF \E j \in DOMAIN rules.fired : rules.fired[j] = i
                        THEN Append(firings[i], session.rolls) ELSE firings[i]
      BY <2>5, <2>8
    <3> QED BY <2>4, <2>7, <3>1, <3>2, <3>3
  <2>10. AreStates(ruleState')
    BY <2>1, <2>4 DEF Looks
  <2>11. DOMAIN firings' = 1..Len(Rules)
    BY <2>5, <2>8
  <2> QED BY <1>1, <2>7, <2>9, <2>10, <2>11 DEF PacedInv
<1> QED BY <1>2, <1>3

\* A new session forgets the firings.
LEMMA PacedStarts == ASSUME PacedInv, Stub!StartSession PROVE PacedInv'
<1>1. DOMAIN Rules = 1..Len(Rules)
  BY RulesLen
<1>2. ruleState' = ruleState /\ firings' = [i \in DOMAIN Rules |-> <<>>] /\ session' = Stub!FreshSession
  BY DEF Stub!StartSession
<1>3. session'.rolls \in Nat /\ Rolls(session', session'.rolls)
  BY <1>2 DEF Stub!FreshSession, Rolls
<1>4. \A i \in 1..Len(Rules) : firings'[i] = <<>>
  BY <1>1, <1>2
<1>5. \A i \in 1..Len(Rules) : Spaced(Rules[i], firings'[i], ruleState'[Rules[i].id], session'.rolls)
  BY <1>4, FreshSpaced
<1>6. AreStates(ruleState')
  BY <1>2 DEF PacedInv
<1>7. DOMAIN firings' = 1..Len(Rules)
  BY <1>1, <1>2
<1> QED BY <1>3, <1>5, <1>6, <1>7 DEF PacedInv

\* And so does the first.
LEMMA PacedInit == ASSUME Stub!Init PROVE PacedInv
<1>1. DOMAIN Rules = 1..Len(Rules)
  BY RulesLen
<1>2. ruleState = [r \in Stub!RuleIds |-> Stub!FreshRule] /\ firings = [i \in DOMAIN Rules |-> <<>>] /\ session = Stub!FreshSession
  BY DEF Stub!Init
<1>3. session.rolls \in Nat /\ Rolls(session, session.rolls)
  BY <1>2 DEF Stub!FreshSession, Rolls
<1>4. \A i \in 1..Len(Rules) : firings[i] = <<>>
  BY <1>1, <1>2
<1>5. \A i \in 1..Len(Rules) : Spaced(Rules[i], firings[i], ruleState[Rules[i].id], session.rolls)
  BY <1>4, FreshSpaced
<1>6. AreStates(ruleState)
  BY <1>2 DEF AreStates, IsState, Stub!FreshRule
<1>7. DOMAIN firings = 1..Len(Rules)
  BY <1>1, <1>2
<1> QED BY <1>3, <1>5, <1>6, <1>7 DEF PacedInv

\* The rules are at their pace in every state.
LEMMA PacedKept == Stub!Spec => []PacedInv
<1>1. Stub!Init => PacedInv
  BY PacedInit
<1>2. PacedInv /\ [Stub!Next]_(Stub!vars) => PacedInv'
  <2> SUFFICES ASSUME PacedInv, [Stub!Next]_(Stub!vars) PROVE PacedInv'
    OBVIOUS
  <2>1. ASSUME NEW r \in Stub!Requests, Stub!ApplyAction(r) PROVE PacedInv'
    BY <2>1, PacedActs
  <2>2. ASSUME NEW f \in Stub!Families, NEW n \in Boxes, Stub!CancelBet(f, n) PROVE PacedInv'
    BY <2>2, PacedActs DEF Stub!CancelBet
  <2>3. ASSUME NEW total \in Boxes \cup {7}, NEW holds \in SUBSET DOMAIN Rules, Stub!StepRoll(total, holds) PROVE PacedInv'
    BY <2>3, PacedRolls
  <2>4. CASE Stub!StartSession
    BY <2>4, PacedStarts
  <2>5. CASE UNCHANGED Stub!vars
    BY <2>5 DEF Stub!vars, PacedInv
  <2> QED BY <2>1, <2>2, <2>3, <2>4, <2>5 DEF Stub!Next
<1> QED BY <1>1, <1>2, PTL DEF Stub!Spec

\* Whatever is asked of the adapter, a once rule fires at most once in a session and a
\* rule with a cooldown sits out as many rolls as it says, also when rules share an id:
\* a firing arms the state of the id for every rule that goes by it.
THEOREM RulesKeepPace == Stub!Spec => []RulesPaced
<1>1. PacedInv => RulesPaced
  BY RulesLen DEF PacedInv, Spaced, RulesPaced
<1> QED BY <1>1, PacedKept, PTL

---------------------------------------------------------------------------
(* The books. *)

\* Sums over sets of bets, as the fold of the community modules computes them: pick one,
\* add what the others sum to.
One(keys) == CHOOSE k \in keys : TRUE
Small(S, n) == {keys \in SUBSET S : Cardinality(keys) <= n}
Folds(g, D, h) == h = [keys \in D |-> IF keys = {} THEN 0 ELSE g[One(keys)] + h[keys \ {One(keys)}]]

\* The others are fewer.
LEMMA OneLess ==
  ASSUME NEW S, IsFiniteSet(S), NEW keys \in SUBSET S, keys # {}
  PROVE  /\ One(keys) \in keys /\ keys \ {One(keys)} \in SUBSET S
         /\ Cardinality(keys) \in Nat /\ Cardinality(keys \ {One(keys)}) = Cardinality(keys) - 1
<1>1. One(keys) \in keys
  BY DEF One
<1>2. IsFiniteSet(keys)
  BY FS_Subset
<1> QED BY <1>1, <1>2, FS_RemoveElement, FS_CardinalityType

\* Without elements there is one.
LEMMA NoneSmaller == ASSUME NEW S, IsFiniteSet(S), NEW keys \in Small(S, 0) PROVE keys = {}
<1>1. keys \in SUBSET S /\ Cardinality(keys) <= 0
  BY DEF Small
<1>2. IsFiniteSet(keys) /\ Cardinality(keys) \in Nat
  BY <1>1, FS_Subset, FS_CardinalityType
<1>3. Cardinality(keys) = 0
  BY <1>1, <1>2
<1> QED BY <1>2, <1>3, FS_EmptySet

\* There is such a fold.
LEMMA FoldsExist ==
  ASSUME NEW S, IsFiniteSet(S), NEW g
  PROVE  \E h : Folds(g, SUBSET S, h)
<1> DEFINE n == Cardinality(S)
           T == {k \in 0..n : \E h : Folds(g, Small(S, k), h)}
<1>0. n \in Nat
  BY FS_CardinalityType
<1>1. 0 \in T
  <2> DEFINE h == [keys \in Small(S, 0) |-> 0]
  <2>1. \A keys \in Small(S, 0) : keys = {}
    BY NoneSmaller
  <2>2. Folds(g, Small(S, 0), h)
    BY <2>1 DEF Folds
  <2> QED BY <1>0, <2>2
<1>2. ASSUME NEW k \in 0..(n - 1), k \in T PROVE k + 1 \in T
  <2>1. PICK h : Folds(g, Small(S, k), h)
    BY <1>2
  <2> DEFINE next == [keys \in Small(S, k + 1) |-> IF keys = {} THEN 0 ELSE g[One(keys)] + h[keys \ {One(keys)}]]
  <2>2. ASSUME NEW keys \in Small(S, k + 1), keys # {} PROVE keys \ {One(keys)} \in Small(S, k) \cap Small(S, k + 1)
    BY <2>2, OneLess DEF Small
  <2>3. \A keys \in Small(S, k) : h[keys] = IF keys = {} THEN 0 ELSE g[One(keys)] + h[keys \ {One(keys)}]
    BY <2>1 DEF Folds
  <2>4. ASSUME NEW keys \in Small(S, k) \cap Small(S, k + 1) PROVE next[keys] = h[keys]
    BY <2>3, <2>4
  <2>5. ASSUME NEW keys \in Small(S, k + 1), keys # {} PROVE next[keys] = g[One(keys)] + next[keys \ {One(keys)}]
    BY <2>2, <2>4, <2>5
  <2>6. Folds(g, Small(S, k + 1), next)
    <3> DEFINE r == [keys \in Small(S, k + 1) |-> IF keys = {} THEN 0 ELSE g[One(keys)] + next[keys \ {One(keys)}]]
    <3>1. \A keys \in Small(S, k + 1) : next[keys] = r[keys]
      BY <2>5
    <3>2. next = [keys \in Small(S, k + 1) |-> next[keys]] /\ r = [keys \in Small(S, k + 1) |-> r[keys]]
      OBVIOUS
    <3> HIDE DEF next, r
    <3>3. next = r
      BY <3>1, <3>2
    <3> QED BY <3>3 DEF r, Folds
  <2> HIDE DEF next
  <2> QED BY <1>0, <2>6
<1> HIDE DEF T
<1>3. n \in T
  BY <1>0, <1>1, <1>2, Climb
<1>4. Small(S, n) = SUBSET S
  BY FS_Subset, FS_CardinalityType DEF Small
<1> QED BY <1>3, <1>4 DEF T

\* Whole numbers have a whole sum, and no one of them is more than it.
LEMMA SumFacts ==
  ASSUME NEW S, IsFiniteSet(S), NEW g, \A k \in S : g[k] \in Nat
  PROVE  Stub!SumOver(g, S) \in Nat /\ \A k \in S : g[k] <= Stub!SumOver(g, S)
<1> DEFINE h == CHOOSE f : Folds(g, SUBSET S, f)
           n == Cardinality(S)
           Good(keys) == h[keys] \in Nat /\ \A k \in keys : g[k] <= h[keys]
           T == {k \in 0..n : \A keys \in Small(S, k) : Good(keys)}
<1>1. Stub!SumOver(g, S) = h[S]
  BY DEF Stub!SumOver, Stub!MapThenSumSet, Stub!MapThenFoldSet, Folds, One
<1>2. Folds(g, SUBSET S, h)
  BY FoldsExist
<1> HIDE DEF h
<1>3. \A keys \in SUBSET S : h[keys] = IF keys = {} THEN 0 ELSE g[One(keys)] + h[keys \ {One(keys)}]
  BY <1>2 DEF Folds
<1>4. n \in Nat
  BY FS_CardinalityType
<1>5. 0 \in T
  <2>1. \A keys \in Small(S, 0) : keys = {}
    BY NoneSmaller
  <2>2. h[{}] = 0
    BY <1>3, {} \in SUBSET S
  <2>3. \A keys \in Small(S, 0) : Good(keys)
    BY <2>1, <2>2
  <2> QED BY <1>4, <2>3
<1>6. ASSUME NEW k \in 0..(n - 1), k \in T PROVE k + 1 \in T
  <2>1. ASSUME NEW keys \in Small(S, k + 1) PROVE Good(keys)
    <3>1. CASE keys = {}
      <4>1. h[keys] = 0
        BY <1>3, <3>1
      <4> QED BY <3>1, <4>1
    <3>2. CASE keys # {}
      <4> DEFINE rest == keys \ {One(keys)}
      <4>1. rest \in Small(S, k) /\ One(keys) \in keys /\ keys \in SUBSET S
        BY <3>2, OneLess DEF Small
      <4>2. h[keys] = g[One(keys)] + h[rest] /\ g[One(keys)] \in Nat
        BY <1>3, <3>2, <4>1
      <4>3. Good(rest)
        BY <1>6, <4>1
      <4>4. \A x \in keys : x = One(keys) \/ x \in rest
        OBVIOUS
      <4>5. \A x \in rest : g[x] \in Nat
        BY <4>1
      <4> HIDE DEF rest
      <4> QED BY <4>2, <4>3, <4>4, <4>5
    <3> QED BY <3>1, <3>2
  <2> QED BY <1>4, <2>1
<1> HIDE DEF T
<1>7. n \in T
  BY <1>4, <1>5, <1>6, Climb
<1>8. S \in Small(S, n)
  BY <1>4 DEF Small
<1>9. Good(S)
  BY <1>7, <1>8 DEF T
<1> QED BY <1>1, <1>9

---------------------------------------------------------------------------
(* The verbs. *)

\* Two things are finitely many.
LEMMA FiniteTwo == ASSUME NEW x, NEW y PROVE IsFiniteSet({x, y})
<1>1. {x, y} = {x} \cup {y}
  OBVIOUS
<1>2. IsFiniteSet({x} \cup {y})
  BY FS_Singleton, FS_Union
<1> QED BY <1>1, <1>2, Zenon

\* There are finitely many names.
LEMMA KeysFinite == IsFiniteSet(Stub!Keys)
<1>1. IsFiniteSet(Boxes)
  BY BetConstants DEF BetConstants
<1>2. IsFiniteSet({"box", "hardway"}) /\ IsFiniteSet({"odds_come"}) /\ IsFiniteSet({"odds_dc"})
  BY FS_Singleton, FiniteTwo
<1>3. IsFiniteSet({"box", "hardway"} \X Boxes) /\ IsFiniteSet(Stub!ComeOdds) /\ IsFiniteSet(Stub!DcOdds)
  BY <1>1, <1>2, FS_Product DEF Stub!ComeOdds, Stub!DcOdds
<1>4. IsFiniteSet(Stub!LineOdds)
  BY FiniteTwo DEF Stub!LineOdds
<1>5. IsFiniteSet(Stub!Lines)
  <2>1. IsFiniteSet({"pass", "dont_pass", "come", "dc", "field"})
    <3>1. {"pass", "dont_pass", "come", "dc", "field"} = {"pass", "dont_pass"} \cup ({"come", "dc"} \cup {"field"})
      OBVIOUS
    <3>2. IsFiniteSet({"pass", "dont_pass"}) /\ IsFiniteSet({"come", "dc"} \cup {"field"})
      BY FiniteTwo, FS_Singleton, FS_Union
    <3>3. IsFiniteSet({"pass", "dont_pass"} \cup ({"come", "dc"} \cup {"field"}))
      BY <3>2, FS_Union
    <3> QED BY <3>1, <3>3, Zenon
  <2>2. Stub!Lines = {"pass", "dont_pass", "come", "dc", "field"} \X {0}
    BY DEF Stub!Lines
  <2> QED BY <2>1, <2>2, FS_Product, FS_Singleton
<1> QED BY <1>3, <1>4, <1>5, FS_Union DEF Stub!Keys, Stub!OddsKeys

\* What a verb is asked: amounts are numbers, keys are keys, and a ladder is a box's.
Staking == {"press", "place_bet", "buy_bet", "lay_bet", "line_bet", "come_bet", "dont_come_bet",
            "field_bet", "hardway_bet", "set_odds", "take_odds"}
Sane(r) ==
  /\ r.verb \in Staking => r.amount \in Int
  /\ r.verb \in {"regress", "take_down"} => r.keys \subseteq Stub!Keys
  /\ r.verb \in {"martingale", "apply_policy"} => r.number \in Boxes /\ r.delta \in Int

\* All requests are, a client's, a rule's and the ones cancelling makes.
LEMMA RequestSane == ASSUME NEW bare, NEW r \in Stub!RequestsWith(bare) PROVE Sane(r)
<1> DEFINE pressed == [verb : {"press"}, key : Stub!BoxKeys \cup {<<"odds_pass", 0>>}, amount : Amounts, bare : bare]
           boxed == [verb : {"place_bet", "buy_bet", "lay_bet"}, number : Numbers, amount : Amounts, bare : bare]
           line == [verb : {"line_bet"}, side : {"pass", "dont_pass"}, amount : Amounts]
           come == [verb : {"come_bet", "dont_come_bet", "field_bet"}, amount : Amounts]
           hard == [verb : {"hardway_bet"}, number : Numbers, amount : Amounts]
           odds == [verb : {"set_odds", "take_odds"}, side : Stub!Sides, number : Boxes \cup {0}, amount : Amounts]
           taken == [verb : {"regress", "take_down"}, keys : {{k} : k \in Stub!Keys} \cup {Stub!BoxKeys}]
           moved == [verb : {"move_bet"}, number : Numbers, to : Numbers]
           laddered == [verb : {"martingale", "apply_policy"}, number : Boxes, delta : Amounts, top : {2}]
           plain == [verb : {"remove_line", "remove_come", "remove_dont_come", "same_bet", "switch_profile", "nonesuch"}]
<1>1. r \in pressed \cup boxed \cup line \cup come \cup hard \cup odds \cup taken \cup moved \cup laddered \cup plain
  BY Zenon DEF Stub!RequestsWith
<1>2. Amounts \subseteq Int
  BY BetConstants DEF BetConstants
<1>3. r \in pressed \cup boxed \cup line => Sane(r)
  BY <1>2 DEF Sane, Staking
<1>4. r \in come \cup hard \cup odds => Sane(r)
  BY <1>2 DEF Sane, Staking
<1>5. r \in taken => Sane(r)
  <2>1. Stub!BoxKeys \subseteq Stub!Keys
    BY DEF Stub!BoxKeys, Stub!Keys
  <2>2. r \in taken => r.keys \subseteq Stub!Keys
    BY <2>1
  <2> QED BY <2>2 DEF Sane, Staking
<1>6. r \in moved \cup plain => Sane(r)
  BY DEF Sane, Staking
<1>7. r \in laddered => Sane(r)
  BY <1>2 DEF Sane, Staking
<1> HIDE DEF pressed, boxed, line, come, hard, odds, taken, moved, laddered, plain
<1> QED BY <1>1, <1>3, <1>4, <1>5, <1>6, <1>7

\* A policy action that takes down a family of bets is a sane request.
LEMMA CancelSane == ASSUME NEW f \in Stub!Families, NEW n \in Boxes PROVE Sane(Stub!Cancel(f, n))
<1>1. <<"box", n>> \in Stub!Keys /\ <<"hardway", n>> \in Stub!Keys /\ <<"field", 0>> \in Stub!Keys
  BY DEF Stub!Keys, Stub!Lines
<1> QED BY <1>1 DEF Stub!Families, Stub!Cancel, Sane, Staking

\* The adapter's record.
Booked(a) ==
  /\ a = [bankroll |-> a.bankroll, bets |-> a.bets, odds |-> a.odds, types |-> a.types, levels |-> a.levels,
          comeout |-> a.comeout]
  /\ a.bankroll \in Int
  /\ a.bets \in [Stub!Keys -> Nat] /\ a.odds \in [Stub!OddsKeys -> Nat] /\ a.levels \in [Boxes -> Int]

\* An effect moves whole amounts and sets whole levels.
Whole(e) ==
  e.ok => /\ e.bank \in Int
          /\ \A k \in DOMAIN e.bets : e.bets[k] \in Int
          /\ \A n \in DOMAIN e.level : e.level[n] \in Int

\* An effect of whole amounts is whole.
LEMMA EffectWhole ==
  ASSUME NEW bets, \A k \in DOMAIN bets : bets[k] \in Int, NEW bank \in Int
  PROVE  Whole(Stub!Effect(bets, bank))
BY DEF Whole, Stub!Effect

\* So is a refusal.
LEMMA RefusedWhole == Whole(Stub!Refused)
BY DEF Whole, Stub!Refused

\* So is a stake of a whole amount.
LEMMA StakeWhole == ASSUME NEW key, NEW amount \in Int PROVE Whole(Stub!Stake(key, amount))
<1> DEFINE b == Stub!On(key, amount)
<1>1. \A k \in DOMAIN b : b[k] \in Int
  BY DEF Stub!On
<1>2. -2 * amount \in Int
  OBVIOUS
<1> HIDE DEF b
<1>3. Whole(Stub!Effect(b, -2 * amount))
  BY <1>1, <1>2, EffectWhole
<1> QED BY <1>3, RefusedWhole DEF Stub!Stake, b

\* A refund pays what the bets it takes are worth.
LEMMA RefundWhole ==
  ASSUME NEW keys, keys \subseteq Stub!Keys, NEW from, \A k \in keys : from[k] \in Nat
  PROVE  Whole(Stub!Refund(keys, from))
<1> DEFINE some == {k \in keys : from[k] > 0}
           bets == [k \in some |-> -from[k]]
           worth == Stub!Restrict(from, some)
<1>1. IsFiniteSet(some)
  BY KeysFinite, FS_Subset
<1>2. DOMAIN worth = some /\ \A k \in some : worth[k] \in Nat
  BY DEF Stub!Restrict
<1>3. \A k \in DOMAIN bets : bets[k] \in Int
  OBVIOUS
<1> HIDE DEF some, bets, worth
<1>4. Stub!Exposure(worth) \in Nat
  BY <1>1, <1>2, SumFacts DEF Stub!Exposure
<1>5. 2 * Stub!Exposure(worth) \in Int
  BY <1>4
<1>6. Whole(Stub!Effect(bets, 2 * Stub!Exposure(worth)))
  BY <1>3, <1>5, EffectWhole
<1> QED BY <1>6 DEF Stub!Refund, some, bets, worth

\* Half of an amount is rounded to a whole one.
LEMMA HalfWhole == ASSUME NEW n \in Nat PROVE Stub!HalfRounded(n) \in Int
BY DEF Stub!HalfRounded

\* Regressing bets changes whole amounts.
LEMMA RegressWhole ==
  ASSUME NEW a, Booked(a), NEW r, r.keys \subseteq Stub!Keys
  PROVE  Whole(Stub!Regress(a, r))
<1> DEFINE some == {k \in r.keys : a.bets[k] > 0}
           bets == [k \in some |-> -Stub!HalfRounded(a.bets[k])]
           worth == Stub!Restrict(a.bets, some)
<1>1. IsFiniteSet(some)
  BY KeysFinite, FS_Subset
<1>2. \A k \in some : a.bets[k] \in Nat
  BY DEF Booked
<1>3. DOMAIN worth = some /\ \A k \in some : worth[k] \in Nat
  BY <1>2 DEF Stub!Restrict
<1>4. \A k \in DOMAIN bets : bets[k] \in Int
  BY <1>2, HalfWhole
<1> HIDE DEF some, bets, worth
<1>5. Stub!Exposure(worth) \in Int
  BY <1>1, <1>3, SumFacts DEF Stub!Exposure
<1>6. Whole(Stub!Effect(bets, Stub!Exposure(worth)))
  BY <1>4, <1>5, EffectWhole
<1> QED BY <1>6, RefusedWhole DEF Stub!Regress, some, bets, worth

\* So does moving a bet.
LEMMA MoveWhole == ASSUME NEW a, Booked(a), NEW r PROVE Whole(Stub!MoveBet(a, r))
<1> DEFINE stake == IF r.number \in Boxes THEN a.bets[<<"box", r.number>>] ELSE 0
           bets == [k \in {<<"box", r.to>>, <<"box", r.number>>} |-> IF k[2] = r.to THEN stake ELSE -stake]
<1>1. stake \in Nat
  <2>1. r.number \in Boxes => <<"box", r.number>> \in Stub!Keys
    BY DEF Stub!Keys
  <2> QED BY <2>1 DEF Booked
<1> HIDE DEF stake
<1>2. \A k \in DOMAIN bets : bets[k] \in Int
  BY <1>1
<1> HIDE DEF bets
<1>3. Whole(Stub!Effect(bets, 0))
  BY <1>2, EffectWhole
<1> QED BY <1>3, RefusedWhole DEF Stub!MoveBet, bets, stake

\* An effect with levels.
LEMMA LevelWhole ==
  ASSUME NEW bets, \A k \in DOMAIN bets : bets[k] \in Int, NEW bank \in Int, NEW l, \A n \in DOMAIN l : l[n] \in Int
  PROVE  Whole([Stub!Effect(bets, bank) EXCEPT !.level = l])
<1> DEFINE e == [Stub!Effect(bets, bank) EXCEPT !.level = l]
<1>1. e.bets = bets /\ e.bank = bank
  BY DEF Stub!Effect
<1>2. e.level = l
  BY DEF Stub!Effect
<1> HIDE DEF e
<1>3. Whole(e)
  BY <1>1, <1>2 DEF Whole
<1> QED BY <1>3 DEF e

\* So does a step of a ladder.
LEMMA LadderWhole ==
  ASSUME NEW a, Booked(a), NEW r, r.number \in Boxes, r.delta \in Int
  PROVE  Whole(Stub!Martingale(a, r))
<1> DEFINE up == a.levels[r.number] + 1
           level == IF up > r.top THEN 0 ELSE up
           stake == r.delta * level
           bets == IF stake > 0 THEN Stub!On(<<"box", r.number>>, stake) ELSE <<>>
           e == Stub!Effect(bets, -2 * stake)
<1>1. level \in Int
  <2>1. up \in Int
    BY DEF Booked
  <2> HIDE DEF up
  <2> QED BY <2>1
<1> HIDE DEF level
<1>2. stake \in Int /\ -2 * stake \in Int
  BY <1>1
<1> HIDE DEF stake
<1>3. \A k \in DOMAIN bets : bets[k] \in Int
  BY <1>2 DEF Stub!On
<1> HIDE DEF bets
<1>4. \A n \in DOMAIN Stub!On(r.number, level) : Stub!On(r.number, level)[n] \in Int
  BY <1>1 DEF Stub!On
<1>5. ASSUME NEW l, \A n \in DOMAIN l : l[n] \in Int
      PROVE  Whole([e EXCEPT !.level = l])
  BY <1>2, <1>3, <1>5, LevelWhole
<1>6. Whole([e EXCEPT !.level = Stub!On(r.number, level)])
  BY <1>4, <1>5
<1> QED BY <1>6, RefusedWhole DEF Stub!Martingale, bets, stake, level, up

\* The odds are among the bets.
LEMMA OddsOfKeys ==
  /\ Stub!OddsKeys \subseteq Stub!Keys
  /\ Stub!LineOdds \subseteq Stub!OddsKeys
  /\ Stub!ComeOdds \subseteq Stub!OddsKeys
  /\ Stub!DcOdds \subseteq Stub!OddsKeys
BY DEF Stub!Keys, Stub!OddsKeys

\* Whatever a sane request asks, its effect is whole.
LEMMA EffectOfWhole ==
  ASSUME NEW a, Booked(a), NEW r, Sane(r)
  PROVE  Whole(Stub!EffectOf(a, r))
<1>1. CASE r.verb \in Staking
  <2>1. r.amount \in Int
    BY <1>1 DEF Sane
  <2>2. \A key : Whole(Stub!Stake(key, r.amount))
    BY <2>1, StakeWhole
  <2>3. Whole(Stub!Press(r)) /\ Whole(Stub!BoxBet(r)) /\ Whole(Stub!LineBet(r)) /\ Whole(Stub!HardwayBet(r)) /\ Whole(Stub!SetOdds(r))
    BY <2>2, RefusedWhole DEF Stub!Press, Stub!BoxBet, Stub!LineBet, Stub!HardwayBet, Stub!SetOdds
  <2>4. Whole(Stub!TakeOdds(r))
    <3> DEFINE b == Stub!On(Stub!OddsKey(r), -r.amount)
    <3>1. \A k \in DOMAIN b : b[k] \in Int
      BY <2>1 DEF Stub!On
    <3>2. 2 * r.amount \in Int
      BY <2>1
    <3> HIDE DEF b
    <3>3. Whole(Stub!Effect(b, 2 * r.amount))
      BY <3>1, <3>2, EffectWhole
    <3> QED BY <3>3, RefusedWhole DEF Stub!TakeOdds, b
  <2> QED BY <1>1, <2>2, <2>3, <2>4 DEF Staking, Stub!EffectOf
<1>2. CASE r.verb \in {"regress", "take_down"}
  <2>1. r.keys \subseteq Stub!Keys
    BY <1>2 DEF Sane
  <2>2. Whole(Stub!Regress(a, r))
    BY <2>1, RegressWhole
  <2>3. \A k \in r.keys : a.bets[k] \in Nat
    BY <2>1 DEF Booked
  <2>4. Whole(Stub!TakeDown(a, r))
    BY <2>1, <2>3, RefundWhole DEF Stub!TakeDown
  <2> QED BY <1>2, <2>2, <2>4 DEF Stub!EffectOf
<1>3. CASE r.verb = "move_bet"
  BY <1>3, MoveWhole DEF Stub!EffectOf
<1>4. CASE r.verb \in {"martingale", "apply_policy"}
  <2>1. Whole(Stub!Martingale(a, r))
    BY <1>4, LadderWhole DEF Sane
  <2> QED BY <1>4, <2>1 DEF Stub!EffectOf
<1>5. CASE r.verb \in {"remove_line", "remove_come", "remove_dont_come"}
  <2> DEFINE from == [k \in Stub!Keys |-> IF k \in Stub!OddsKeys THEN a.odds[k] ELSE a.bets[k]]
             lines == {<<"pass", 0>>, <<"dont_pass", 0>>} \cup Stub!LineOdds
  <2>1. lines \subseteq Stub!Keys /\ Stub!ComeOdds \subseteq Stub!Keys /\ Stub!DcOdds \subseteq Stub!Keys
    BY OddsOfKeys DEF Stub!Keys, Stub!Lines
  <2>2. \A k \in Stub!Keys : from[k] \in Nat
    BY DEF Booked
  <2>3. \A k \in Stub!OddsKeys : a.odds[k] \in Nat
    BY DEF Booked
  <2> HIDE DEF from, lines
  <2>4. Whole(Stub!Refund(lines, from))
    BY <2>1, <2>2, RefundWhole
  <2>5. Whole(Stub!Refund(Stub!ComeOdds, a.odds))
    BY <2>1, <2>3, RefundWhole, OddsOfKeys
  <2>6. Whole(Stub!Refund(Stub!DcOdds, a.odds))
    BY <2>1, <2>3, RefundWhole, OddsOfKeys
  <2> QED BY <1>5, <2>4, <2>5, <2>6 DEF Stub!EffectOf, Stub!RemoveLine, Stub!RemoveCome, Stub!RemoveDontCome, from, lines
<1>6. CASE r.verb \in {"same_bet", "switch_profile"}
  <2>1. Whole(Stub!Effect(<<>>, 0))
    BY DEF Whole, Stub!Effect
  <2> QED BY <1>6, <2>1 DEF Stub!EffectOf
<1>7. CASE r.verb \notin Staking \cup {"regress", "take_down", "move_bet", "martingale", "apply_policy", "remove_line",
                                      "remove_come", "remove_dont_come", "same_bet", "switch_profile"}
  BY <1>7, RefusedWhole DEF Staking, Stub!EffectOf
<1> QED BY <1>1, <1>2, <1>3, <1>4, <1>5, <1>6, <1>7

---------------------------------------------------------------------------
(* The books through a verb and a roll. *)

\* Money on every box with a type.
TypesBacked(a) == \A n \in Boxes : a.types[n] # "none" => a.bets[<<"box", n>>] > 0

\* The odds as both records have them.
OddsAgree(a) == \A k \in Stub!OddsKeys : a.odds[k] = a.bets[k]

\* What a change makes of a bet is a bet.
LEMMA ChangedIs ==
  ASSUME NEW old \in Nat, NEW e, \A j \in DOMAIN e.bets : e.bets[j] \in Int, NEW k
  PROVE  Stub!Changed(old, e, k) \in Nat
BY DEF Stub!Changed

\* An effect that is applied moves the bankroll by what it says and leaves the books in order.
LEMMA AppliedBooks ==
  ASSUME NEW a, Booked(a), NEW r, NEW e, Whole(e), e.ok
  PROVE  LET b == Stub!Applied(a, r, e)
         IN  Booked(b) /\ b.bankroll = a.bankroll + e.bank /\ TypesBacked(b)
<1> DEFINE b == Stub!Applied(a, r, e)
           bets == [k \in Stub!Keys |-> Stub!Changed(a.bets[k], e, k)]
           odds == [k \in Stub!OddsKeys |-> Stub!Changed(IF k \in Stub!Cleared(r.verb) THEN 0 ELSE a.odds[k], e, k)]
           retyped == Stub!Retyped(a.types, r, e)
           types == [n \in Boxes |-> IF bets[<<"box", n>>] = 0 THEN "none" ELSE retyped[n]]
           levels == Stub!Levelled(a.levels, e)
<1>1. b = [bankroll |-> a.bankroll + e.bank, bets |-> bets, odds |-> odds, types |-> types, levels |-> levels,
           comeout |-> a.comeout]
  BY DEF Stub!Applied
<1>2. /\ e.bank \in Int /\ \A k \in DOMAIN e.bets : e.bets[k] \in Int
      /\ \A n \in DOMAIN e.level : e.level[n] \in Int
  BY DEF Whole
<1>3. bets \in [Stub!Keys -> Nat]
  <2>1. ASSUME NEW k \in Stub!Keys PROVE Stub!Changed(a.bets[k], e, k) \in Nat
    <3>1. a.bets[k] \in Nat
      BY DEF Booked
    <3> QED BY <1>2, <3>1, ChangedIs
  <2> QED BY <2>1
<1>4. odds \in [Stub!OddsKeys -> Nat]
  <2>1. ASSUME NEW k \in Stub!OddsKeys PROVE Stub!Changed(IF k \in Stub!Cleared(r.verb) THEN 0 ELSE a.odds[k], e, k) \in Nat
    <3>1. (IF k \in Stub!Cleared(r.verb) THEN 0 ELSE a.odds[k]) \in Nat
      BY DEF Booked
    <3> QED BY <1>2, <3>1, ChangedIs
  <2> QED BY <2>1
<1>5. levels \in [Boxes -> Int]
  <2>1. \A n \in Boxes : a.levels[n] \in Int
    BY DEF Booked
  <2> QED BY <1>2, <2>1 DEF Stub!Levelled
<1>6. \A n \in Boxes : types[n] # "none" => bets[<<"box", n>>] > 0
  <2> TAKE n \in Boxes
  <2>1. <<"box", n>> \in Stub!Keys
    BY DEF Stub!Keys
  <2> HIDE DEF bets, retyped
  <2>2. bets[<<"box", n>>] \in Nat
    BY <1>3, <2>1
  <2> QED BY <2>2
<1> HIDE DEF b, bets, odds, types, levels
<1>7. a.bankroll + e.bank \in Int
  BY <1>2 DEF Booked
<1>8. Booked(b) /\ b.bankroll = a.bankroll + e.bank
  BY <1>1, <1>3, <1>4, <1>5, <1>7 DEF Booked
<1>9. TypesBacked(b)
  BY <1>1, <1>6 DEF TypesBacked
<1> QED BY <1>8, <1>9 DEF b

\* The records that agree on the odds still do after any verb: a removal clears in the
\* one what it refunds in the other.
LEMMA ClearedOdds ==
  ASSUME NEW a, Booked(a), OddsAgree(a), NEW keys, NEW from, NEW k \in keys, k \in Stub!OddsKeys, from[k] = a.odds[k]
  PROVE  LET e == Stub!Refund(keys, from) IN Stub!Changed(0, e, k) = 0 /\ Stub!Changed(a.bets[k], e, k) = 0
<1> DEFINE some == {j \in keys : from[j] > 0}
           bets == [j \in some |-> -from[j]]
           e == Stub!Refund(keys, from)
<1>1. a.odds[k] \in Nat /\ a.bets[k] = a.odds[k]
  BY DEF Booked, OddsAgree
<1>2. e.bets = bets
  BY DEF Stub!Refund, Stub!Effect
<1> HIDE DEF e
<1>3. CASE from[k] > 0
  <2>1. k \in DOMAIN e.bets /\ e.bets[k] = -a.odds[k]
    BY <1>2, <1>3
  <2> QED BY <1>1, <2>1 DEF Stub!Changed, e
<1>4. CASE ~(from[k] > 0)
  <2>1. k \notin DOMAIN e.bets
    BY <1>2, <1>4
  <2>2. a.odds[k] = 0
    BY <1>1, <1>4
  <2> QED BY <1>1, <2>1, <2>2 DEF Stub!Changed, e
<1> QED BY <1>3, <1>4

\* An effect keeps the two records of the odds the same.
LEMMA AppliedOdds ==
  ASSUME NEW a, Booked(a), OddsAgree(a), NEW r
  PROVE  OddsAgree(Stub!Applied(a, r, Stub!EffectOf(a, r)))
<1> DEFINE e == Stub!EffectOf(a, r)
           b == Stub!Applied(a, r, e)
           kept(k) == IF k \in Stub!Cleared(r.verb) THEN 0 ELSE a.odds[k]
<1>1. \A k \in Stub!OddsKeys : b.bets[k] = Stub!Changed(a.bets[k], e, k) /\ b.odds[k] = Stub!Changed(kept(k), e, k)
  BY OddsOfKeys DEF Stub!Applied
<1>2. ASSUME NEW k \in Stub!OddsKeys PROVE Stub!Changed(a.bets[k], e, k) = Stub!Changed(kept(k), e, k)
  <2>1. CASE k \notin Stub!Cleared(r.verb)
    BY <2>1 DEF OddsAgree
  <2>2. CASE k \in Stub!Cleared(r.verb)
    <3> HIDE DEF e
    <3>1. r.verb \in {"remove_line", "remove_come", "remove_dont_come"}
      BY <2>2 DEF Stub!Cleared
    <3>2. CASE r.verb = "remove_line"
      <4> DEFINE lines == {<<"pass", 0>>, <<"dont_pass", 0>>} \cup Stub!LineOdds
                 from == [j \in Stub!Keys |-> IF j \in Stub!OddsKeys THEN a.odds[j] ELSE a.bets[j]]
      <4>1. e = Stub!Refund(lines, from)
        BY <3>2 DEF e, Stub!EffectOf, Stub!RemoveLine
      <4>2. k \in lines /\ from[k] = a.odds[k]
        BY <2>2, <3>2, OddsOfKeys DEF Stub!Cleared
      <4> HIDE DEF lines, from
      <4> QED BY <2>2, <4>1, <4>2, ClearedOdds
    <3>3. CASE r.verb = "remove_come"
      <4>1. e = Stub!Refund(Stub!ComeOdds, a.odds) /\ k \in Stub!ComeOdds
        BY <2>2, <3>3 DEF e, Stub!EffectOf, Stub!RemoveCome, Stub!Cleared
      <4> QED BY <2>2, <4>1, ClearedOdds
    <3>4. CASE r.verb = "remove_dont_come"
      <4>1. e = Stub!Refund(Stub!DcOdds, a.odds) /\ k \in Stub!DcOdds
        BY <2>2, <3>4 DEF e, Stub!EffectOf, Stub!RemoveDontCome, Stub!Cleared
      <4> QED BY <2>2, <4>1, ClearedOdds
    <3> QED BY <3>1, <3>2, <3>3, <3>4
  <2> QED BY <2>1, <2>2
<1> HIDE DEF e, b, kept
<1>3. OddsAgree(b)
  BY <1>1, <1>2 DEF OddsAgree
<1> QED BY <1>3 DEF b, e

\* The three things a roll sets.
LEMMA RolledFields ==
  ASSUME NEW a, a = [bankroll |-> a.bankroll, bets |-> a.bets, odds |-> a.odds, types |-> a.types, levels |-> a.levels,
                     comeout |-> a.comeout],
         NEW bets, NEW odds, NEW total
  PROVE  [a EXCEPT !.bets = bets, !.odds = odds, !.comeout = @ /\ total \notin Boxes]
         = [bankroll |-> a.bankroll, bets |-> bets, odds |-> odds, types |-> a.types, levels |-> a.levels,
            comeout |-> a.comeout /\ total \notin Boxes]
<1>1. PICK p, x, o, t, l, c : a = [bankroll |-> p, bets |-> x, odds |-> o, types |-> t, levels |-> l, comeout |-> c]
  BY Zenon
<1>2. a.bankroll = p /\ a.types = t /\ a.levels = l /\ a.comeout = c
  BY ONLY <1>1
<1> DEFINE v == a.comeout /\ total \notin Boxes
           d == [a EXCEPT !.bets = bets]
           e == [d EXCEPT !.odds = odds]
<1>3. [a EXCEPT !.bets = bets, !.odds = odds, !.comeout = @ /\ total \notin Boxes] = [e EXCEPT !.comeout = v]
  BY Zenon
<1> HIDE DEF v
<1>4. d = [bankroll |-> p, bets |-> bets, odds |-> o, types |-> t, levels |-> l, comeout |-> c]
  BY ONLY <1>1
<1> HIDE DEF d
<1>5. e = [bankroll |-> p, bets |-> bets, odds |-> odds, types |-> t, levels |-> l, comeout |-> c]
  BY ONLY <1>4
<1> HIDE DEF e
<1>6. [e EXCEPT !.comeout = v] = [bankroll |-> p, bets |-> bets, odds |-> odds, types |-> t, levels |-> l, comeout |-> v]
  BY ONLY <1>5
<1>7. [a EXCEPT !.bets = bets, !.odds = odds, !.comeout = @ /\ total \notin Boxes]
      = [bankroll |-> a.bankroll, bets |-> bets, odds |-> odds, types |-> a.types, levels |-> a.levels, comeout |-> v]
  BY ONLY <1>2, <1>3, <1>6
<1> QED BY ONLY <1>7, Zenon DEF v

\* A roll only renames bets: what is on a box stays there.
LEMMA RolledBooks ==
  ASSUME NEW a, Booked(a), TypesBacked(a), NEW total
  PROVE  Booked(Stub!Rolled(a, total)) /\ TypesBacked(Stub!Rolled(a, total)) /\ Stub!Rolled(a, total).bankroll = a.bankroll
<1> DEFINE sumOf(k) == Stub!SumOver(a.bets, {j \in Stub!Keys : Stub!Normal(j) = k})
           bets == [k \in Stub!Keys |-> sumOf(k)]
           odds == [k \in Stub!OddsKeys |-> IF k \in Stub!LineOdds THEN a.odds[k] ELSE 0]
           b == Stub!Rolled(a, total)
<1>1. ASSUME NEW k \in Stub!Keys
      PROVE  sumOf(k) \in Nat /\ \A j \in Stub!Keys : Stub!Normal(j) = k => a.bets[j] <= sumOf(k)
  <2> DEFINE S == {j \in Stub!Keys : Stub!Normal(j) = k}
  <2>1. IsFiniteSet(S)
    BY KeysFinite, FS_Subset
  <2>2. \A j \in S : a.bets[j] \in Nat
    BY DEF Booked
  <2>3. Stub!SumOver(a.bets, S) \in Nat /\ \A j \in S : a.bets[j] <= Stub!SumOver(a.bets, S)
    <3> HIDE DEF S
    <3> QED BY <2>1, <2>2, SumFacts
  <2> QED BY <2>3
<1> HIDE DEF sumOf
<1>2. bets \in [Stub!Keys -> Nat]
  BY <1>1
<1>3. odds \in [Stub!OddsKeys -> Nat]
  BY DEF Booked
<1>4. ASSUME NEW n \in Boxes, a.types[n] # "none" PROVE bets[<<"box", n>>] > 0
  <2>1. <<"box", n>> \in Stub!Keys /\ Stub!Normal(<<"box", n>>) = <<"box", n>>
    BY DEF Stub!Keys, Stub!Normal
  <2>2. a.bets[<<"box", n>>] > 0 /\ a.bets[<<"box", n>>] \in Nat
    BY <1>4, <2>1 DEF TypesBacked, Booked
  <2>3. sumOf(<<"box", n>>) \in Nat /\ a.bets[<<"box", n>>] <= sumOf(<<"box", n>>)
    BY <1>1, <2>1
  <2> QED BY <2>1, <2>2, <2>3
<1>5. b = [bankroll |-> a.bankroll, bets |-> bets, odds |-> odds, types |-> a.types, levels |-> a.levels,
           comeout |-> a.comeout /\ total \notin Boxes]
  <2>1. b = [a EXCEPT !.bets = bets, !.odds = odds, !.comeout = @ /\ total \notin Boxes]
    BY Zenon DEF Stub!Rolled, sumOf
  <2>2. a = [bankroll |-> a.bankroll, bets |-> a.bets, odds |-> a.odds, types |-> a.types, levels |-> a.levels,
             comeout |-> a.comeout]
    BY DEF Booked
  <2> HIDE DEF b, bets, odds
  <2> QED BY ONLY <2>1, <2>2, RolledFields
<1> HIDE DEF b, bets, odds
<1>6. Booked(b) /\ b.bankroll = a.bankroll
  BY <1>2, <1>3, <1>5 DEF Booked
<1>7. TypesBacked(b)
  BY <1>4, <1>5 DEF TypesBacked
<1> QED BY <1>6, <1>7 DEF b

---------------------------------------------------------------------------
(* The books through a call. *)

\* The books of a world.
Sound(w) ==
  /\ w.told \in Int /\ Booked(w.adapter) /\ w.adapter.bankroll = 2 * Start + w.told
  /\ TypesBacked(w.adapter)
  /\ w.session.rolls = 0 => OddsAgree(w.adapter)

\* No policy adjusts an amount: the snapshots carry no loss to recover.
LEMMA NothingAdjusted == ASSUME NEW verb, NEW amount, NEW a PROVE Stub!PolicyVerdict(policy, verb, amount, Stub!PolicySnapshot(a)).adjusted = 0
BY DEF Stub!PolicyVerdict, Stub!PolicySnapshot, Stub!Recovery

\* A request is refused, or has its effect.
LEMMA ActedBooks ==
  ASSUME NEW w, NEW n, IsWorld(w, n), NEW r
  PROVE  \/ Stub!Acted(w, r).adapter = w.adapter /\ Stub!Acted(w, r).told = w.told
         \/ /\ Stub!EffectOf(w.adapter, r).ok
            /\ Stub!Acted(w, r).adapter = Stub!Applied(w.adapter, r, Stub!EffectOf(w.adapter, r))
            /\ Stub!Acted(w, r).told = w.told + Stub!EffectOf(w.adapter, r).bank
<1> DEFINE verdict == Stub!PolicyVerdict(policy, r.verb, Stub!Amount(r), Stub!PolicySnapshot(w.adapter))
           e == Stub!EffectOf(w.adapter, r)
           blocked == [w EXCEPT !.session.violations = @ + 1,
                                !.answer = [verb |-> r.verb, ok |-> FALSE, code |-> "policy_blocked", bank |-> 0]]
           refused == [w EXCEPT !.session.applied = w.session.applied,
                                !.answer = [verb |-> r.verb, ok |-> FALSE, code |-> "refused", bank |-> 0]]
           done == [adapter |-> Stub!Applied(w.adapter, r, e),
                    session |-> [w.session EXCEPT !.applied = w.session.applied],
                    answer |-> [verb |-> r.verb, ok |-> TRUE, code |-> "", bank |-> e.bank],
                    told |-> w.told + e.bank]
<1>1. ~(verdict.adjusted > 0)
  BY NothingAdjusted
<1>2. Stub!Acted(w, r) = IF verdict.why # "" /\ policy.enforce THEN blocked ELSE IF ~e.ok THEN refused ELSE done
  BY <1>1 DEF Stub!Acted
<1> HIDE DEF verdict, e
<1>3. w = [adapter |-> w.adapter, session |-> w.session, answer |-> w.answer, told |-> w.told]
  BY DEF IsWorld
<1>4. blocked.adapter = w.adapter /\ blocked.told = w.told
  <2> DEFINE y == [verb |-> r.verb, ok |-> FALSE, code |-> "policy_blocked", bank |-> 0]
  <2> HIDE DEF y
  <2>1. [w EXCEPT !.session.violations = @ + 1, !.answer = y]
        = [adapter |-> w.adapter, session |-> [w.session EXCEPT !.violations = @ + 1], answer |-> y, told |-> w.told]
    BY ONLY <1>3, BlockedIs
  <2>2. blocked = [adapter |-> w.adapter, session |-> [w.session EXCEPT !.violations = @ + 1], answer |-> y, told |-> w.told]
    BY ONLY <2>1, Zenon DEF y, blocked
  <2> HIDE DEF blocked
  <2> QED BY ONLY <2>2
<1>5. refused.adapter = w.adapter /\ refused.told = w.told
  <2> DEFINE y == [verb |-> r.verb, ok |-> FALSE, code |-> "refused", bank |-> 0]
             k == w.session.applied
  <2> HIDE DEF y, k
  <2>1. Refusal(w, k, y)
        = [adapter |-> w.adapter, session |-> [w.session EXCEPT !.applied = k], answer |-> y, told |-> w.told]
    BY ONLY <1>3, RefusedIs
  <2>2. refused = [adapter |-> w.adapter, session |-> [w.session EXCEPT !.applied = k], answer |-> y, told |-> w.told]
    BY ONLY <2>1, Zenon DEF y, k, refused, Refusal
  <2> HIDE DEF refused
  <2> QED BY ONLY <2>2
<1>6. done.adapter = Stub!Applied(w.adapter, r, e) /\ done.told = w.told + e.bank
  OBVIOUS
<1> HIDE DEF blocked, refused, done
<1>7. \/ Stub!Acted(w, r).adapter = w.adapter /\ Stub!Acted(w, r).told = w.told
      \/ e.ok /\ Stub!Acted(w, r).adapter = Stub!Applied(w.adapter, r, e) /\ Stub!Acted(w, r).told = w.told + e.bank
  BY <1>2, <1>4, <1>5, <1>6
<1> QED BY <1>7 DEF e

\* So it leaves the books in order.
LEMMA ActedSound ==
  ASSUME NEW w, NEW n, IsWorld(w, n), Sound(w), NEW r, Sane(r)
  PROVE  Sound(Stub!Acted(w, r))
<1> DEFINE d == Stub!Acted(w, r)
           e == Stub!EffectOf(w.adapter, r)
           b == Stub!Applied(w.adapter, r, e)
<1>1. \/ d.adapter = w.adapter /\ d.told = w.told
      \/ e.ok /\ d.adapter = b /\ d.told = w.told + e.bank
  BY ActedBooks
<1>2. d.session.rolls = w.session.rolls
  <2>1. IsWorld(d, n)
    BY ActedRolls
  <2> HIDE DEF d
  <2> QED BY <2>1 DEF IsWorld, Rolls
<1>3. Whole(e)
  BY EffectOfWhole DEF Sound
<1>4. e.ok => Booked(b) /\ b.bankroll = w.adapter.bankroll + e.bank /\ TypesBacked(b)
  <2> HIDE DEF e
  <2> QED BY <1>3, AppliedBooks DEF Sound
<1>5. OddsAgree(w.adapter) => OddsAgree(b)
  BY AppliedOdds DEF Sound
<1> HIDE DEF d, e, b
<1>6. CASE d.adapter = w.adapter /\ d.told = w.told
  BY <1>2, <1>6 DEF Sound, d
<1>7. CASE e.ok /\ d.adapter = b /\ d.told = w.told + e.bank
  <2>1. e.bank \in Int
    BY <1>3, <1>7 DEF Whole
  <2>2. d.told \in Int /\ d.adapter.bankroll = 2 * Start + d.told
    <3>1. w.told \in Int /\ w.adapter.bankroll = 2 * Start + w.told /\ 2 * Start \in Int
      BY BetConstants DEF Sound, BetConstants
    <3>2. d.adapter.bankroll = (2 * Start + w.told) + e.bank
      BY <1>4, <1>7, <3>1
    <3> QED BY <1>7, <2>1, <3>1, <3>2
  <2>3. d.session.rolls = 0 => OddsAgree(d.adapter)
    BY <1>2, <1>5, <1>7 DEF Sound
  <2>4. Sound(d)
    BY <1>4, <1>7, <2>2, <2>3 DEF Sound
  <2> QED BY <2>4 DEF d
<1> QED BY <1>1, <1>6, <1>7

\* And so do the actions of the rules.
LEMMA PlayedSound ==
  ASSUME Stub!RuleActions, NEW n, Rolls(session, n), Sound(Stub!World), NEW fired \in Seq(1..Len(Rules))
  PROVE  Sound(Stub!Played(fired))
<1>0. Len(fired) \in Nat
  OBVIOUS
<1>1. PICK f : /\ f[0] = Stub!World /\ f[Len(fired)] = Stub!Played(fired)
               /\ \A k \in 0..(Len(fired) - 1) : f[k + 1] = Stub!Acted(f[k], Rules[fired[k + 1]].act)
  BY <1>0, PlayedIs
<1> DEFINE N == Len(fired)
           T == {k \in 0..N : IsWorld(f[k], n) /\ Sound(f[k])}
<1>2. 0 \in T
  <2>1. IsWorld(Stub!World, n)
    BY DEF Stub!World, IsWorld
  <2> QED BY <1>0, <1>1, <2>1
<1>3. ASSUME NEW k \in 0..(N - 1), k \in T PROVE k + 1 \in T
  <2>1. f[k + 1] = Stub!Acted(f[k], Rules[fired[k + 1]].act)
    BY <1>1
  <2>2. fired[k + 1] \in 1..Len(Rules)
    <3>1. k + 1 \in 1..Len(fired)
      BY <1>0
    <3> QED BY <3>1
  <2>3. Rules[fired[k + 1]].act \in Stub!RequestsWith(BOOLEAN)
    BY <2>2, RulesLen DEF Stub!RuleActions, Stub!RuleActs
  <2>4. Sane(Rules[fired[k + 1]].act)
    BY <2>3, RequestSane
  <2>5. IsWorld(f[k], n) /\ Sound(f[k])
    BY <1>3
  <2>6. IsWorld(f[k + 1], n) /\ Sound(f[k + 1])
    BY <2>1, <2>4, <2>5, ActedRolls, ActedSound
  <2> QED BY <1>0, <2>6
<1> HIDE DEF T
<1>4. \A k \in 0..N : k \in T
  BY <1>0, <1>2, <1>3, Climb
<1> QED BY <1>0, <1>1, <1>4 DEF T

---------------------------------------------------------------------------
\* The books are in order.
BooksInv == Sound(Stub!World)

\* What the books being in order says of the variables.
LEMMA WorldSound ==
  BooksInv <=> /\ told \in Int /\ Booked(adapter) /\ adapter.bankroll = 2 * Start + told
               /\ TypesBacked(adapter)
               /\ session.rolls = 0 => OddsAgree(adapter)
BY DEF BooksInv, Sound, Stub!World

\* A new session opens them.
LEMMA FreshBooks == Booked(Stub!FreshAdapter) /\ TypesBacked(Stub!FreshAdapter) /\ OddsAgree(Stub!FreshAdapter) /\ Stub!FreshAdapter.bankroll = 2 * Start + 0
<1>1. Start \in Nat
  BY BetConstants DEF BetConstants
<1>2. \A n \in Boxes : Stub!FreshAdapter.types[n] = "none"
  BY DEF Stub!FreshAdapter
<1>3. \A k \in Stub!OddsKeys : Stub!FreshAdapter.odds[k] = 0 /\ Stub!FreshAdapter.bets[k] = 0
  BY OddsOfKeys DEF Stub!FreshAdapter
<1>4. Booked(Stub!FreshAdapter)
  <2>1. 2 * Start \in Int
    BY <1>1
  <2> QED BY <2>1 DEF Booked, Stub!FreshAdapter
<1>5. Stub!FreshAdapter.bankroll = 2 * Start + 0
  BY <1>1 DEF Stub!FreshAdapter
<1> QED BY <1>2, <1>3, <1>4, <1>5 DEF TypesBacked, OddsAgree

\* A request keeps them.
LEMMA BooksAct == ASSUME PacedInv, BooksInv, NEW r, Sane(r), Stub!ApplyAction(r) PROVE BooksInv'
<1> DEFINE n == session.rolls
           d == Stub!Acted(Stub!World, r)
<1>1. IsWorld(Stub!World, n)
  BY DEF PacedInv, Stub!World, IsWorld
<1>2. Sound(d)
  BY <1>1, ActedSound DEF BooksInv
<1>3. adapter' = d.adapter /\ session' = d.session /\ told' = d.told
  BY DEF Stub!ApplyAction, Stub!Become
<1> HIDE DEF d
<1>4. Sound(Stub!World)'
  BY <1>2, <1>3 DEF Sound, Stub!World
<1> QED BY <1>4 DEF BooksInv

\* What a roll makes of the world the rules leave.
LEMMA RolledKeeps ==
  ASSUME NEW n, NEW w, IsWorld(w, n), NEW total, NEW y
  PROVE  LET d == [w EXCEPT !.adapter = Stub!Rolled(@, total), !.session.rolls = @ + 1, !.answer = y]
         IN  d.adapter = Stub!Rolled(w.adapter, total) /\ d.told = w.told
<1> DEFINE a == Stub!Rolled(w.adapter, total)
           b == [w EXCEPT !.adapter = a]
           c == [b EXCEPT !.session.rolls = @ + 1]
           d == [c EXCEPT !.answer = y]
<1> HIDE DEF a
<1>1. PICK p, s, x, t : w = [adapter |-> p, session |-> s, answer |-> x, told |-> t]
  BY Zenon DEF IsWorld
<1>2. w.told = t
  BY ONLY <1>1
<1>3. b = [adapter |-> a, session |-> s, answer |-> x, told |-> t]
  BY ONLY <1>1
<1> HIDE DEF b
<1>4. c = [adapter |-> a, session |-> [s EXCEPT !.rolls = @ + 1], answer |-> x, told |-> t]
  BY ONLY <1>3
<1> HIDE DEF c
<1>5. d.adapter = a /\ d.told = t
  BY ONLY <1>4
<1>6. [w EXCEPT !.adapter = a, !.session.rolls = @ + 1, !.answer = y] = d
  BY DEF c, b
<1> HIDE DEF d
<1>7. [w EXCEPT !.adapter = Stub!Rolled(@, total), !.session.rolls = @ + 1, !.answer = y]
      = [w EXCEPT !.adapter = a, !.session.rolls = @ + 1, !.answer = y]
  BY ONLY Zenon DEF a
<1>8. d.adapter = Stub!Rolled(w.adapter, total) /\ d.told = w.told
  BY ONLY <1>2, <1>5, Zenon DEF a
<1> QED BY ONLY <1>6, <1>7, <1>8

\* A roll keeps them.
LEMMA BooksRoll == ASSUME Stub!RuleActions, PacedInv, BooksInv, NEW total, NEW holds, Stub!StepRoll(total, holds) PROVE BooksInv'
<1> DEFINE why == Stub!EarlyStop(adapter)
           rules == Stub!Evaluated(Rules, ruleState, holds, 0, 0)
           ans == [verb |-> "roll", ok |-> why = "", code |-> why, bank |-> 0]
           n == session.rolls
           p == Stub!Played(rules.fired)
           q == [p EXCEPT !.adapter = Stub!Rolled(@, total), !.session.rolls = @ + 1, !.answer = ans]
<1>1. Rolls(session, n) /\ n \in Nat
  BY DEF PacedInv
<1>2. CASE why # ""
  <2>1. session' = [session EXCEPT !.terminated = why] /\ adapter' = adapter /\ told' = told
    BY <1>2 DEF Stub!StepRoll
  <2>2. session'.rolls = session.rolls
    BY <1>1, <2>1 DEF Rolls
  <2>3. Sound(Stub!World)'
    BY <2>1, <2>2 DEF BooksInv, Sound, Stub!World
  <2> QED BY <2>3 DEF BooksInv
<1>3. CASE why = ""
  <2>1. Looks(AllTicked, Len(Rules), rules.states, rules.fired)
    BY EvaluatedLooks DEF PacedInv
  <2>2. rules.fired \in Seq(1..Len(Rules)) /\ Len(rules.fired) \in Nat
    BY <2>1 DEF Looks
  <2>3. adapter' = q.adapter /\ session' = q.session /\ told' = q.told
    BY <1>3 DEF Stub!StepRoll, Stub!Become
  <2> HIDE DEF rules, ans, why
  <2>4. IsWorld(p, n) /\ Sound(p)
    BY <1>1, <2>2, PlayedRolls, PlayedSound DEF BooksInv
  <2> HIDE DEF p
  <2>5. session'.rolls = n + 1
    BY <1>1, <2>3, <2>4, RolledIs
  <2>6. q.adapter = Stub!Rolled(p.adapter, total) /\ q.told = p.told
    BY <2>4, RolledKeeps
  <2> HIDE DEF q
  <2>7. /\ Booked(Stub!Rolled(p.adapter, total)) /\ TypesBacked(Stub!Rolled(p.adapter, total))
        /\ Stub!Rolled(p.adapter, total).bankroll = p.adapter.bankroll
    BY <2>4, RolledBooks DEF Sound
  <2>8. told' \in Int /\ adapter'.bankroll = 2 * Start + told'
    BY <2>3, <2>4, <2>6, <2>7 DEF Sound
  <2>9. session'.rolls # 0
    BY <1>1, <2>5
  <2>10. Booked(adapter') /\ TypesBacked(adapter')
    BY <2>3, <2>6, <2>7
  <2>11. Sound(Stub!World)'
    BY <2>8, <2>9, <2>10 DEF Sound, Stub!World
  <2> QED BY <2>11 DEF BooksInv
<1> QED BY <1>2, <1>3

\* The books stay in order, whatever the client and the rules ask.
LEMMA BooksStep == ASSUME Stub!RuleActions, PacedInv, BooksInv, [Stub!Next]_(Stub!vars) PROVE BooksInv'
<1>1. ASSUME NEW r \in Stub!Requests, Stub!ApplyAction(r) PROVE BooksInv'
  BY <1>1, RequestSane, BooksAct DEF Stub!Requests
<1>2. ASSUME NEW f \in Stub!Families, NEW n \in Boxes, Stub!CancelBet(f, n) PROVE BooksInv'
  BY <1>2, CancelSane, BooksAct DEF Stub!CancelBet
<1>3. ASSUME NEW total \in Boxes \cup {7}, NEW holds \in SUBSET DOMAIN Rules, Stub!StepRoll(total, holds) PROVE BooksInv'
  BY <1>3, BooksRoll
<1>4. CASE Stub!StartSession
  <2>1. adapter' = Stub!FreshAdapter /\ told' = 0
    BY <1>4 DEF Stub!StartSession
  <2>2. Sound(Stub!World)'
    BY <2>1, FreshBooks DEF Sound, Stub!World
  <2> QED BY <2>2 DEF BooksInv
<1>5. CASE UNCHANGED Stub!vars
  BY <1>5 DEF Stub!vars, BooksInv, Stub!World
<1> QED BY <1>1, <1>2, <1>3, <1>4, <1>5 DEF Stub!Next

\* The books stay in order, with any client and any rules.
LEMMA BooksKept == ASSUME Stub!RuleActions PROVE Stub!Spec => []BooksInv
<1>1. Stub!Init => BooksInv
  <2> SUFFICES ASSUME Stub!Init PROVE BooksInv
    OBVIOUS
  <2>1. adapter = Stub!FreshAdapter /\ told = 0
    BY DEF Stub!Init
  <2>2. Sound(Stub!World)
    BY <2>1, FreshBooks DEF Sound, Stub!World
  <2> QED BY <2>2 DEF BooksInv
<1>2. PacedInv /\ BooksInv /\ [Stub!Next]_(Stub!vars) => BooksInv'
  BY BooksStep
<1> QED BY <1>1, <1>2, PacedKept, PTL DEF Stub!Spec

\* Whatever verbs, rolls and rules have moved it, the bankroll is what a client makes of
\* the answers: nothing but an effect that was answered moves money.
THEOREM BankrollTold == ASSUME Stub!RuleActions PROVE Stub!Spec => []EffectsTellBankroll
<1>1. BooksInv => EffectsTellBankroll
  BY WorldSound DEF EffectsTellBankroll
<1> QED BY <1>1, BooksKept, PTL

\* The records kept beside the bets stay true of them: every bet type has money on its
\* box and, until a roll has renamed bets, the odds are the same in both records.
THEOREM BooksCorrect == ASSUME Stub!RuleActions PROVE Stub!Spec => []BooksMatch
<1>1. OddsKeys = Stub!OddsKeys
  BY DEF OddsKeys, LineOdds, ComeOdds, DcOdds, Stub!OddsKeys, Stub!LineOdds, Stub!ComeOdds, Stub!DcOdds
<1>2. BooksInv => BooksMatch
  BY <1>1, WorldSound DEF BooksMatch, TypesBacked, OddsAgree
<1> QED BY <1>2, BooksKept, PTL

=============================================================================
