--------------------------- MODULE TableStrategy ---------------------------
(***************************************************************************)
(* ControlStrategy: the betting strategy that starting a live session      *)
(* seats at the table, with the player the session's verbs bet for.  The   *)
(* engine asks it for bets; it keeps whether it has bet on the point and   *)
(* the point it last saw (0: none).                                        *)
(***************************************************************************)
EXTENDS Integers, SequencesExt

\* A bet of the engine: its class, its number (0: none) and its amount.
Bet(fam, num, amt) == [fam |-> fam, num |-> num, amt |-> amt]

Total(bets, Test(_)) == FoldLeft(LAMBDA sum, b : IF Test(b) THEN sum + b.amt ELSE sum, 0, bets)

\* _attach_modern: the player the strategy is seated with.
Seated(bankroll) == [bankroll |-> bankroll, bets |-> <<>>]
FreshStrategy == [armed |-> FALSE, point |-> 0]

ComeOutBets == <<Bet("pass", 0, 10)>>
PointBets == <<Bet("place", 6, 12), Bet("place", 8, 12), Bet("field", 0, 5)>>

\* External: what an engine does with the bets it is given, or asked to take off.
AddHow == {"taken", "ignored", "raises"}
ClearHow == {"refunded", "none"}

\* _player_clear_bets: without a method that clears them the list is emptied,
\* and nobody gives the stakes back.
Emptied(p, clear) ==
  [bankroll |-> p.bankroll + IF clear = "none" THEN 0 ELSE 2 * Total(p.bets, LAMBDA b : TRUE),
   bets |-> <<>>]

\* _player_add_many: bets that add_strategy_bets and add_bet both refuse by
\* raising are put on the list unpaid.
AddMany(p, bets, add) ==
  IF add = "ignored" THEN p
  ELSE [bankroll |-> p.bankroll - IF add = "raises" THEN 0 ELSE 2 * Total(bets, LAMBDA b : TRUE),
        bets |-> p.bets \o bets]

\* A strategy that clears the table only when the point it sees is another one.
FaultyAsked(s, p, point, clear, add) ==
  LET turned == point # s.point
      cleared == IF turned THEN Emptied(p, clear) ELSE p
      armed == s.armed /\ ~turned
  IN  [strategy |-> [armed |-> point # 0, point |-> point],
       laid |-> point # 0 /\ ~armed,
       player |-> IF armed THEN cleared
                  ELSE AddMany(cleared, IF point = 0 THEN ComeOutBets ELSE PointBets, add)]

\* update_bets: on the come-out, and when the point is another one than it last
\* saw, everything the player has is taken off, whoever bet it.
Asked(s, p, point, clear, add) ==
  LET turned == point = 0 \/ point # s.point
      cleared == IF turned THEN Emptied(p, clear) ELSE p
      armed == s.armed /\ ~turned
  IN  [strategy |-> [armed |-> point # 0, point |-> point],
       laid |-> point # 0 /\ ~armed,
       player |-> IF armed THEN cleared
                  ELSE AddMany(cleared, IF point = 0 THEN ComeOutBets ELSE PointBets, add)]
=============================================================================
