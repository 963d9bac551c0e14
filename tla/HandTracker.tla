---------------------------- MODULE HandTracker ----------------------------
(***************************************************************************)
(* analytics.Tracker: the hand and roll counters, the point cycle and the  *)
(* bankroll's extremes the controller feeds roll by roll.                  *)
(***************************************************************************)
EXTENDS Integers

Greater(a, b) == IF a > b THEN a ELSE b
Smaller(a, b) == IF a < b THEN a ELSE b

\* on_session_start.  __init__'s zeros are overwritten before the first event.
NewTracker(bankroll) ==
  [bank |-> bankroll, peak |-> bankroll, low |-> bankroll, draw |-> 0,
   hand |-> 0, roll |-> 0, hands |-> 0, rolls |-> 0, made |-> 0, pso |-> 0,
   active |-> FALSE, since |-> 0]

OffPoint(t) == [t EXCEPT !.active = FALSE, !.since = 0]

\* on_hand_start, which the controller calls without a point, and on_hand_end.
HandStarted(t) ==
  [OffPoint(t) EXCEPT !.hand = @ + 1, !.roll = 0, !.hands = @ + 1]
HandEnded(t) == OffPoint(t)

\* The bankroll and its extremes after it has become n.
Banked(t, n) ==
  LET peak == Greater(t.peak, n)
  IN  [t EXCEPT !.bank = n, !.peak = peak, !.low = Smaller(t.low, n),
                !.draw = Greater(t.draw, peak - n)]

\* Every seven-out with a point on is taken for a point-seven-out.
FaultyCycled(t, type, point, number) ==
  CASE type = "point_established" -> [t EXCEPT !.active = point # 0, !.since = 0]
    [] type = "roll" -> IF t.active THEN [t EXCEPT !.since = Greater(@, number)] ELSE t
    [] type = "seven_out" -> OffPoint([t EXCEPT !.pso = IF t.active THEN @ + 1 ELSE @])
    [] OTHER -> OffPoint(t)

\* The point cycle: what on_roll makes of the event's type.
Cycled(t, type, point, number) ==
  CASE type = "point_established" -> [t EXCEPT !.active = point # 0, !.since = 0]
    [] type = "roll" -> IF t.active THEN [t EXCEPT !.since = Greater(@, number)] ELSE t
    [] type = "point_made" -> OffPoint([t EXCEPT !.made = IF t.active THEN @ + 1 ELSE @])
    [] type = "seven_out" ->
         OffPoint([t EXCEPT !.pso = IF t.active /\ t.since = 0 /\ number = 0 THEN @ + 1 ELSE @])
    [] OTHER -> OffPoint(t)

\* on_roll: number is the controller's rolls_since_point.
RollCounted(t, ev, number, bankroll) ==
  LET c == Cycled(Banked([t EXCEPT !.roll = @ + 1, !.rolls = @ + 1], bankroll),
                  ev.type, ev.point, number)
  IN  IF ev.on THEN c ELSE OffPoint(c)
=============================================================================
