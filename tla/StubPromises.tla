---------------------------- MODULE StubPromises ----------------------------
(***************************************************************************)
(* What VanillaAdapter promises a client while it keeps its own books,     *)
(* without a live engine: of what the verbs and the rolls change, of what  *)
(* it has answered and of the rules it has fired.                          *)
(***************************************************************************)
EXTENDS BetVerbs

CONSTANT Rules   \* the rule set, a sequence

ASSUME RuleConstants ==
  /\ Rules \in Seq(Range(Rules))
  /\ \A i \in DOMAIN Rules : Rules[i].cooldown \in Nat /\ Rules[i].once \in BOOLEAN

VARIABLES
  adapter,   \* what the verbs change: bankroll, bets, odds, types, levels, comeout
  session,   \* the counters and flags of the session
  told,      \* history: the sum of the bankroll deltas answered
  firings    \* history: the rolls at which each rule has fired

\* A client that adds up the bankroll deltas of the effects it was answered,
\* the rules' ones included, has the adapter's bankroll: no roll, refusal or
\* blocked action moves money on its own.
EffectsTellBankroll == adapter.bankroll = 2 * Start + told

\* What is kept beside the bets stays true of them, whatever verbs and rolls
\* moved the money.  The odds are kept twice, among the bets and in odds_state,
\* and the removals refund from the second what they take from the first: until
\* the first roll of a session the two agree.  A box has a bet type only while
\* there is money on it.
BooksMatch ==
  /\ session.rolls = 0 => \A k \in OddsKeys : adapter.odds[k] = adapter.bets[k]
  /\ \A n \in Boxes : adapter.types[n] # "none" => adapter.bets[<<"box", n>>] > 0

\* A once rule fires once in a session, a rule with a cooldown sits out that
\* many rolls after each firing, also when rules share an id.
RulesPaced ==
  \A i \in DOMAIN Rules :
    /\ Rules[i].once => Len(firings[i]) <= 1
    /\ \A j \in 2..Len(firings[i]) : firings[i][j] - firings[i][j - 1] > Rules[i].cooldown
=============================================================================
