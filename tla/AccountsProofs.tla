--------------------------- MODULE AccountsProofs ---------------------------
(***************************************************************************)
(* Theorems about Accounts, for every set of bets, amounts and totals,     *)
(* every order of the layers and any number of events: the variables keep  *)
(* their types, the ledger's totals are the sums over its entries, what a  *)
(* resolve pops is an entry of that bet, intents are matched one to one,   *)
(* and the counts kept apart agree.                                        *)
(*                                                                         *)
(* The sums are recursive functions.  What they compute is proved by an    *)
(* induction over sets of numbers (Climb), itself from the fact that there *)
(* is no injection of a finite set into a smaller one.                     *)
(***************************************************************************)
EXTENDS Accounts, FiniteSetTheorems, SequenceTheorems, TLAPS

---------------------------------------------------------------------------
(* Sums. *)

\* Induction up to n: a set that holds 0 and, with a number below n, its successor,
\* holds the numbers up to n.
LEMMA Climb ==
  ASSUME NEW n \in Nat, NEW T, 0 \in T, \A k \in 0..(n - 1) : k \in T => k + 1 \in T
  PROVE  \A k \in 0..n : k \in T
<1> SUFFICES ASSUME NEW x \in 0..n, x \notin T PROVE FALSE
  OBVIOUS
<1> DEFINE A == {k \in 1..x : k \notin T}
           B == {k \in 1..(x - 1) : k \notin T}
<1>1. IsFiniteSet(1..x) /\ IsFiniteSet(1..(x - 1))
  BY FS_Interval
<1>2. IsFiniteSet(A) /\ IsFiniteSet(B)
  BY <1>1, FS_Subset
<1>3. A = B \cup {x} /\ x \notin B
  OBVIOUS
<1>4. Cardinality(A) = Cardinality(B) + 1 /\ Cardinality(B) \in Nat
  BY <1>2, <1>3, FS_AddElement, FS_CardinalityType
<1>5. [k \in A |-> k - 1] \in Injection(A, B)
  <2>1. \A k \in A : k - 1 \in B
    OBVIOUS
  <2> QED BY <2>1 DEF Injection, IsInjective
<1>6. Cardinality(A) <= Cardinality(B)
  BY <1>2, <1>5, FS_Injection DEF ExistsInjection
<1> QED BY <1>4, <1>6

\* What f adds to a sum at k.
At(f, k) == IF k \in DOMAIN f THEN f[k] ELSE 0

\* h is the running sum of f up to n.
Runs(f, n, h) == h = [k \in 0..n |-> IF k = 0 THEN 0 ELSE h[k - 1] + At(f, k)]

Whole(f, n) == \A k \in 1..n : At(f, k) \in Int

\* There are running sums.
LEMMA RunsExist ==
  ASSUME NEW n \in Nat, NEW f PROVE \E h : Runs(f, n, h)
<1> DEFINE T == {k \in 0..n : \E h : Runs(f, k, h)}
<1>1. 0 \in T
  <2>1. Runs(f, 0, [k \in 0..0 |-> 0])
    BY DEF Runs
  <2> QED BY <2>1
<1>2. ASSUME NEW m \in 0..(n - 1), m \in T PROVE m + 1 \in T
  <2>1. PICK h : Runs(f, m, h)
    BY <1>2
  <2> DEFINE g == [k \in 0..(m + 1) |-> IF k = m + 1 THEN h[m] + At(f, m + 1) ELSE h[k]]
  <2>2. \A k \in 0..m : h[k] = IF k = 0 THEN 0 ELSE h[k - 1] + At(f, k)
    BY <2>1 DEF Runs
  <2>3. ASSUME NEW k \in 0..(m + 1) PROVE g[k] = IF k = 0 THEN 0 ELSE g[k - 1] + At(f, k)
    <3>1. CASE k = m + 1
      BY <3>1
    <3>2. CASE k \in 0..m
      BY <3>2, <2>2
    <3> QED BY <3>1, <3>2
  <2>4. g = [k \in 0..(m + 1) |-> IF k = 0 THEN 0 ELSE g[k - 1] + At(f, k)]
    <3> DEFINE r == [k \in 0..(m + 1) |-> IF k = 0 THEN 0 ELSE g[k - 1] + At(f, k)]
    <3>1. \A k \in 0..(m + 1) : g[k] = r[k]
      BY <2>3
    <3>2. DOMAIN g = 0..(m + 1) /\ DOMAIN r = 0..(m + 1)
      OBVIOUS
    <3>3. g = [k \in 0..(m + 1) |-> g[k]] /\ r = [k \in 0..(m + 1) |-> r[k]]
      OBVIOUS
    <3> HIDE DEF g, r
    <3>4. g = r
      BY <3>1, <3>3
    <3> QED BY <3>4 DEF r
  <2>5. Runs(f, m + 1, g)
    BY <2>4 DEF Runs
  <2> QED BY <2>5
<1> HIDE DEF T
<1>3. n \in T
  BY <1>1, <1>2, Climb
<1> QED BY <1>3 DEF T

\* The running sum that SumTo reads off.
Running(f, n) == CHOOSE h : Runs(f, n, h)

\* SumTo is the last of the running sums, and they are whole.
LEMMA RunningIs ==
  ASSUME NEW n \in Nat, NEW f, Whole(f, n)
  PROVE  /\ SumTo(f, n) = Running(f, n)[n]
         /\ Running(f, n)[0] = 0
         /\ \A k \in 1..n : Running(f, n)[k] = Running(f, n)[k - 1] + At(f, k)
         /\ \A k \in 0..n : Running(f, n)[k] \in Int
<1> DEFINE h == Running(f, n)
<1>1. SumTo(f, n) = h[n]
  BY DEF SumTo, Running, Runs, At
<1>2. Runs(f, n, h)
  BY RunsExist DEF Running
<1> HIDE DEF h
<1>3. \A k \in 0..n : h[k] = IF k = 0 THEN 0 ELSE h[k - 1] + At(f, k)
  BY <1>2 DEF Runs
<1>4. h[0] = 0 /\ \A k \in 1..n : h[k] = h[k - 1] + At(f, k)
  BY <1>3
<1> DEFINE T == {k \in 0..n : h[k] \in Int}
<1>5. 0 \in T
  BY <1>4
<1>6. ASSUME NEW m \in 0..(n - 1), m \in T PROVE m + 1 \in T
  <2>1. m + 1 \in 1..n /\ h[m] \in Int
    BY <1>6
  <2>2. At(f, m + 1) \in Int /\ h[m + 1] = h[m] + At(f, m + 1)
    BY <1>4, <2>1 DEF Whole
  <2> QED BY <2>1, <2>2
<1>7. \A k \in 0..n : k \in T
  <2> HIDE DEF T
  <2> QED BY <1>5, <1>6, Climb
<1> QED BY <1>1, <1>4, <1>7 DEF h

\* A sum is whole.
LEMMA SumType ==
  ASSUME NEW n \in Nat, NEW f, Whole(f, n) PROVE SumTo(f, n) \in Int
BY RunningIs

\* g is f but for d more at the place i.
Moves(f, g, n, i, d) == \A k \in 1..n : At(g, k) = At(f, k) + IF k = i THEN d ELSE 0

\* Sums that differ by d at the place i, if it is one of the places, differ by d.
LEMMA SumMoved ==
  ASSUME NEW n \in Nat, NEW f, NEW g, Whole(f, n), NEW i \in Int, NEW d \in Int,
         Moves(f, g, n, i, d)
  PROVE  SumTo(g, n) = SumTo(f, n) + IF i \in 1..n THEN d ELSE 0
<1>1. Whole(g, n)
  BY DEF Whole, Moves
<1> DEFINE h == Running(f, n)
           l == Running(g, n)
<1>2. /\ SumTo(f, n) = h[n] /\ h[0] = 0 /\ \A k \in 0..n : h[k] \in Int
      /\ \A k \in 1..n : h[k] = h[k - 1] + At(f, k)
  BY RunningIs
<1>3. /\ SumTo(g, n) = l[n] /\ l[0] = 0 /\ \A k \in 0..n : l[k] \in Int
      /\ \A k \in 1..n : l[k] = l[k - 1] + At(g, k)
  BY <1>1, RunningIs
<1> HIDE DEF h, l
<1> DEFINE T == {k \in 0..n : l[k] = h[k] + IF i \in 1..k THEN d ELSE 0}
<1>4. 0 \in T
  BY <1>2, <1>3
<1>5. ASSUME NEW m \in 0..(n - 1), m \in T PROVE m + 1 \in T
  <2>1. m + 1 \in 1..n /\ l[m] = h[m] + IF i \in 1..m THEN d ELSE 0
    BY <1>5
  <2>2. /\ h[m + 1] = h[m] + At(f, m + 1) /\ l[m + 1] = l[m] + At(g, m + 1)
        /\ h[m] \in Int /\ l[m] \in Int /\ h[m + 1] \in Int /\ l[m + 1] \in Int
    BY <1>2, <1>3, <2>1
  <2>3. At(f, m + 1) \in Int /\ At(g, m + 1) = At(f, m + 1) + IF m + 1 = i THEN d ELSE 0
    BY <2>1 DEF Whole, Moves
  <2>4. l[m + 1] = h[m + 1] + IF i \in 1..(m + 1) THEN d ELSE 0
    <3> DEFINE a == At(f, m + 1)
               b == At(g, m + 1)
    <3> HIDE DEF a, b
    <3> QED BY <2>1, <2>2, <2>3 DEF a, b
  <2> QED BY <2>4, <2>1
<1>6. n \in T
  <2> HIDE DEF T
  <2> QED BY <1>4, <1>5, Climb
<1> QED BY <1>2, <1>3, <1>6

\* Sums of the same values are the same.
LEMMA SumSame ==
  ASSUME NEW n \in Nat, NEW f, NEW g, Whole(f, n), \A k \in 1..n : At(g, k) = At(f, k)
  PROVE  SumTo(g, n) = SumTo(f, n)
<1>1. Moves(f, g, n, 0, 0)
  BY DEF Whole, Moves
<1>2. SumTo(g, n) = SumTo(f, n) + IF 0 \in 1..n THEN 0 ELSE 0
  BY <1>1, SumMoved
<1> QED BY <1>2, SumType

\* A sum of nothing but zeros.
LEMMA SumZero ==
  ASSUME NEW n \in Nat, NEW f, \A k \in 1..n : At(f, k) = 0
  PROVE  SumTo(f, n) = 0
<1>1. Whole(f, n)
  BY DEF Whole
<1> DEFINE h == Running(f, n)
<1>2. /\ SumTo(f, n) = h[n] /\ h[0] = 0
      /\ \A k \in 1..n : h[k] = h[k - 1] + At(f, k)
  BY <1>1, RunningIs
<1> HIDE DEF h
<1> DEFINE T == {k \in 0..n : h[k] = 0}
<1>3. 0 \in T
  BY <1>2
<1>4. ASSUME NEW m \in 0..(n - 1), m \in T PROVE m + 1 \in T
  <2>1. m + 1 \in 1..n /\ h[m] = 0
    BY <1>4
  <2>2. h[m + 1] = h[m] + At(f, m + 1) /\ At(f, m + 1) = 0
    BY <1>2, <2>1
  <2> QED BY <2>1, <2>2
<1>5. n \in T
  <2> HIDE DEF T
  <2> QED BY <1>3, <1>4, Climb
<1> QED BY <1>2, <1>5

\* A sum that goes one further.
LEMMA SumLonger ==
  ASSUME NEW n \in Nat, NEW f, Whole(f, n + 1)
  PROVE  SumTo(f, n + 1) = SumTo(f, n) + At(f, n + 1)
<1>1. Whole(f, n)
  BY DEF Whole
<1> DEFINE h == Running(f, n)
           l == Running(f, n + 1)
<1>2. /\ SumTo(f, n) = h[n] /\ h[0] = 0 /\ \A k \in 1..n : h[k] = h[k - 1] + At(f, k)
  BY <1>1, RunningIs
<1>3. /\ SumTo(f, n + 1) = l[n + 1] /\ l[0] = 0
      /\ \A k \in 1..(n + 1) : l[k] = l[k - 1] + At(f, k)
  BY RunningIs
<1> HIDE DEF h, l
<1> DEFINE T == {k \in 0..n : l[k] = h[k]}
<1>4. 0 \in T
  BY <1>2, <1>3
<1>5. ASSUME NEW m \in 0..(n - 1), m \in T PROVE m + 1 \in T
  <2>1. m + 1 \in 1..n /\ m + 1 \in 1..(n + 1) /\ m + 1 \in 0..n /\ (m + 1) - 1 = m /\ l[m] = h[m]
    BY <1>5
  <2> QED BY <1>2, <1>3, <2>1
<1>6. n \in T
  <2> HIDE DEF T
  <2> QED BY <1>4, <1>5, Climb
<1> QED BY <1>2, <1>3, <1>6
---------------------------------------------------------------------------
(* Types. *)

Keys == {LifoKey(m) : m \in Mentions}
Numbers == {m.number : m \in Mentions}

Entry == [bet : Names, key : Keys, amount : Amounts, open : BOOLEAN, pnl : Int,
          intent : Nat, opened : Nat, closed : Nat]

Intent == [bet : Names, number : Numbers, status : {"open", "matched", "canceled"}, entry : Nat]

Ledger == [entries : Seq(Entry), stack : [Keys -> Seq(Nat)], realized : Int, exposure : Int,
           cycle : BOOLEAN, since : Int, roll : Nat, intents : Seq(Intent)]

Stat == [placed : Nat, resolved : Nat, wins : Nat, losses : Nat, pushes : Nat, staked : Nat,
         pnl : Int, exposure : Nat, peak : Nat, open : Nat]

Hits == [Totals -> Nat]

Tracked == [point : (Boxes \cap Totals) \cup {0}, rolls : Nat, since : Nat, comeouts : Nat,
            naturals : Nat, craps : Nat, hits : Hits, inside : Nat, outside : Nat, near : Hits,
            sevens : Nat, hands : Nat, pso : Nat, bank : Int, peak : Int, draw : Int,
            deepest : Int, cycle : Int, hand : Int, log : Seq(Int)]

TypeOK ==
  /\ layers \in Stacks
  /\ due \in {"none", "set", "made", "out"}
  /\ tracker \in Tracked
  /\ ledger \in Ledger
  /\ stats \in [Names -> Stat]
  /\ hist \in [hand : Hits, shooter : Hits]
  /\ events \in Nat
  /\ table \in [rolls : Nat, straight : Nat]

---------------------------------------------------------------------------
(* A tracker, field by field. *)

TrackedFields ==
  {"point", "rolls", "since", "comeouts", "naturals", "craps", "hits", "inside", "outside", "near",
   "sevens", "hands", "pso", "bank", "peak", "draw", "deepest", "cycle", "hand", "log"}

Formed(t) == t = [f \in TrackedFields |-> t[f]]

Typed(t) ==
  /\ t.point \in (Boxes \cap Totals) \cup {0}
  /\ t.rolls \in Nat /\ t.since \in Nat /\ t.comeouts \in Nat /\ t.naturals \in Nat
  /\ t.craps \in Nat /\ t.hits \in Hits /\ t.inside \in Nat /\ t.outside \in Nat
  /\ t.near \in Hits /\ t.sevens \in Nat /\ t.hands \in Nat /\ t.pso \in Nat
  /\ t.bank \in Int /\ t.peak \in Int /\ t.draw \in Int /\ t.deepest \in Int
  /\ t.cycle \in Int /\ t.hand \in Int /\ t.log \in Seq(Int)

\* A tracker is one that has the fields, each of its type.
LEMMA TrackedIs ==
  ASSUME NEW t PROVE t \in Tracked <=> Formed(t) /\ Typed(t)
<1>1. t \in Tracked => Formed(t) /\ Typed(t)
  BY DEF Tracked, Formed, Typed, TrackedFields
<1>2. Formed(t) /\ Typed(t) => t \in Tracked
  BY DEF Tracked, Formed, Typed, TrackedFields
<1> QED BY <1>1, <1>2

---------------------------------------------------------------------------
(* The tracker's hooks keep its type, and what they do to the fields the   *)
(* counts are of.                                                          *)

\* A hit more.
LEMMA HitType ==
  ASSUME NEW h \in Hits, NEW t \in Totals
  PROVE  /\ [h EXCEPT ![t] = @ + 1] \in Hits
         /\ \A k \in Nat : At([h EXCEPT ![t] = @ + 1], k) = At(h, k) + IF k = t THEN 1 ELSE 0
<1>1. Totals \subseteq Nat
  BY AccountsConstants
<1> DEFINE g == [h EXCEPT ![t] = @ + 1]
<1>2. /\ DOMAIN h = Totals /\ DOMAIN g = Totals /\ g[t] = h[t] + 1 /\ g \in Hits
      /\ \A k \in Totals : h[k] \in Nat /\ (k # t => g[k] = h[k])
  BY DEF Hits
<1> HIDE DEF g
<1>3. ASSUME NEW k \in Nat PROVE At(g, k) = At(h, k) + IF k = t THEN 1 ELSE 0
  BY <1>2 DEF At
<1> QED BY <1>2, <1>3 DEF g

\* The hits can be summed, and a hit more adds one; none add up to none.
LEMMA SumHits ==
  /\ \A h \in Hits : Sum(h) \in Int
  /\ \A h \in Hits, t \in Totals : Sum([h EXCEPT ![t] = @ + 1]) = Sum(h) + 1
  /\ NoHits \in Hits /\ Sum(NoHits) = 0
<1>1. Totals \subseteq 1..12
  BY AccountsConstants
<1>2. ASSUME NEW h \in Hits PROVE Whole(h, 12)
  <2> SUFFICES ASSUME NEW k \in 1..12 PROVE At(h, k) \in Int
    BY DEF Whole
  <2>1. DOMAIN h = Totals /\ \A j \in Totals : h[j] \in Nat
    BY DEF Hits
  <2> QED BY <2>1 DEF At
<1>3. ASSUME NEW h \in Hits, NEW t \in Totals PROVE Sum([h EXCEPT ![t] = @ + 1]) = Sum(h) + 1
  <2> DEFINE g == [h EXCEPT ![t] = @ + 1]
  <2>1. \A k \in 1..12 : At(g, k) = At(h, k) + IF k = t THEN 1 ELSE 0
    BY HitType
  <2>2. t \in 1..12 /\ t \in Int
    BY <1>1
  <2> HIDE DEF g
  <2>3. SumTo(g, 12) = SumTo(h, 12) + IF t \in 1..12 THEN 1 ELSE 0
    <3>1. PICK n \in Nat, one \in Int : n = 12 /\ one = 1
      OBVIOUS
    <3>2. Whole(h, n) /\ Moves(h, g, n, t, one)
      BY <1>2, <2>1, <3>1 DEF Moves
    <3>3. SumTo(g, n) = SumTo(h, n) + IF t \in 1..n THEN one ELSE 0
      BY <2>2, <3>2, SumMoved
    <3> QED BY <3>1, <3>3
  <2> QED BY <2>2, <2>3 DEF Sum, g
<1>4. NoHits \in Hits
  BY DEF NoHits, Hits
<1>5. Sum(NoHits) = 0
  <2>1. \A k \in 1..12 : At(NoHits, k) = 0
    BY DEF At, NoHits
  <2> QED BY <2>1, SumZero DEF Sum
<1>6. \A h \in Hits : Sum(h) \in Int
  BY <1>2, SumType DEF Sum
<1> QED BY <1>3, <1>4, <1>5, <1>6

\* on_roll.
LEMMA RolledType ==
  ASSUME NEW t \in Tracked, NEW total \in Totals
  PROVE  /\ Rolled(t, total) \in Tracked
         /\ Rolled(t, total).rolls = t.rolls + 1
         /\ t.point = 0 => Rolled(t, total).since = t.since /\ Rolled(t, total).near = t.near
         /\ t.point # 0 => /\ Rolled(t, total).since = t.since + 1
                           /\ Rolled(t, total).near = [t.near EXCEPT ![total] = @ + 1]
         /\ Rolled(t, total).pso = t.pso /\ Rolled(t, total).bank = t.bank
         /\ Rolled(t, total).hand = t.hand /\ Rolled(t, total).log = t.log
<1>1. [t.hits EXCEPT ![total] = @ + 1] \in Hits /\ [t.near EXCEPT ![total] = @ + 1] \in Hits
  BY HitType DEF Tracked
<1> DEFINE all == [t EXCEPT !.hits[total] = @ + 1, !.rolls = @ + 1]
<1>a. Formed(t) /\ Typed(t)
  BY TrackedIs
<1>b. Formed(all) /\ Typed(all)
  <2>1. Formed(all)
    BY <1>1, <1>a DEF Formed, Typed, TrackedFields
  <2>2. Typed(all)
    BY <1>1, <1>a, SMTT(30) DEF Formed, Typed, TrackedFields
  <2> QED BY <2>1, <2>2
<1>2. /\ all.rolls = t.rolls + 1 /\ all.since = t.since /\ all.near = t.near
      /\ all.point = t.point /\ all.pso = t.pso /\ all.bank = t.bank /\ all.hand = t.hand
      /\ all.log = t.log
  BY <1>a DEF Formed, TrackedFields
<1> HIDE DEF all
<1>3. [all.near EXCEPT ![total] = @ + 1] \in Hits
  BY <1>b, HitType DEF Typed
<1>4. CASE t.point = 0
  <2> DEFINE r == [all EXCEPT !.comeouts = @ + 1,
                       !.naturals = @ + IF total \in {7, 11} THEN 1 ELSE 0,
                       !.craps = @ + IF total \in {2, 3, 12} THEN 1 ELSE 0]
  <2>1. Rolled(t, total) = r
    BY <1>4 DEF Rolled, all
  <2>2. Formed(r) /\ Typed(r)
    <3>1. Formed(r)
      BY <1>b DEF Formed, Typed, TrackedFields
    <3>a. \A f \in TrackedFields : f \notin {"comeouts", "naturals", "craps"} => r[f] = all[f]
      BY <1>b DEF Formed, TrackedFields
    <3>c. /\ r.comeouts = all.comeouts + 1
          /\ r.naturals = all.naturals + IF total \in {7, 11} THEN 1 ELSE 0
          /\ r.craps = all.craps + IF total \in {2, 3, 12} THEN 1 ELSE 0
      BY <1>b DEF Formed, TrackedFields
    <3> HIDE DEF r
    <3>b. r.comeouts \in Nat /\ r.naturals \in Nat /\ r.craps \in Nat
      <4>1. all.comeouts \in Nat /\ all.naturals \in Nat /\ all.craps \in Nat
        BY <1>b DEF Typed
      <4>2. all.comeouts + 1 \in Nat
        BY <4>1
      <4>3. all.naturals + (IF total \in {7, 11} THEN 1 ELSE 0) \in Nat
        BY <4>1
      <4>4. all.craps + (IF total \in {2, 3, 12} THEN 1 ELSE 0) \in Nat
        BY <4>1
      <4> QED BY <3>c, <4>2, <4>3, <4>4
    <3>2. Typed(r)
      BY <1>b, <3>a, <3>b DEF Typed, TrackedFields
    <3> QED BY <3>1, <3>2
  <2>3. /\ r.rolls = all.rolls /\ r.since = all.since /\ r.near = all.near
        /\ r.pso = all.pso /\ r.bank = all.bank /\ r.hand = all.hand /\ r.log = all.log
    BY <1>b DEF Formed, TrackedFields
  <2> HIDE DEF r
  <2> QED BY <1>2, <1>4, <2>1, <2>2, <2>3, TrackedIs
<1>5. CASE t.point # 0
  <2> DEFINE r == [all EXCEPT !.since = @ + 1, !.near[total] = @ + 1,
                       !.inside = @ + IF total \in {5, 6, 8, 9} THEN 1 ELSE 0,
                       !.outside = @ + IF total \in {4, 10} THEN 1 ELSE 0]
  <2>1. Rolled(t, total) = r
    BY <1>5 DEF Rolled, all
  <2>2. Formed(r) /\ Typed(r)
    <3>1. Formed(r)
      BY <1>b, <1>3 DEF Formed, Typed, TrackedFields
    <3>a. \A f \in TrackedFields : f \notin {"since", "near", "inside", "outside"} => r[f] = all[f]
      BY <1>b DEF Formed, TrackedFields
    <3>c. /\ r.since = all.since + 1 /\ r.near = [all.near EXCEPT ![total] = @ + 1]
          /\ r.inside = all.inside + IF total \in {5, 6, 8, 9} THEN 1 ELSE 0
          /\ r.outside = all.outside + IF total \in {4, 10} THEN 1 ELSE 0
      BY <1>b DEF Formed, TrackedFields
    <3> HIDE DEF r
    <3>b. r.since \in Nat /\ r.near \in Hits /\ r.inside \in Nat /\ r.outside \in Nat
      <4>1. all.since \in Nat /\ all.inside \in Nat /\ all.outside \in Nat
        BY <1>b DEF Typed
      <4>2. all.since + 1 \in Nat
        BY <4>1
      <4>3. all.inside + (IF total \in {5, 6, 8, 9} THEN 1 ELSE 0) \in Nat
        BY <4>1
      <4>4. all.outside + (IF total \in {4, 10} THEN 1 ELSE 0) \in Nat
        BY <4>1
      <4> QED BY <1>3, <3>c, <4>2, <4>3, <4>4
    <3>2. Typed(r)
      BY <1>b, <3>a, <3>b DEF Typed, TrackedFields
    <3> QED BY <3>1, <3>2
  <2>3. /\ r.rolls = all.rolls /\ r.since = all.since + 1
        /\ r.near = [all.near EXCEPT ![total] = @ + 1]
        /\ r.pso = all.pso /\ r.bank = all.bank /\ r.hand = all.hand /\ r.log = all.log
    BY <1>b DEF Formed, TrackedFields
  <2> HIDE DEF r
  <2> QED BY <1>2, <1>5, <2>1, <2>2, <2>3, TrackedIs
<1> QED BY <1>4, <1>5

\* on_point_established and on_point_made.
LEMMA PointType ==
  ASSUME NEW t \in Tracked, NEW p \in (Boxes \cap Totals) \cup {0}
  PROVE  /\ PointIs(t, p) \in Tracked
         /\ PointIs(t, p).since = 0 /\ PointIs(t, p).near = NoHits
         /\ PointIs(t, p).rolls = t.rolls /\ PointIs(t, p).pso = t.pso
         /\ PointIs(t, p).bank = t.bank /\ PointIs(t, p).hand = t.hand
         /\ PointIs(t, p).log = t.log
<1>1. NoHits \in Hits
  BY SumHits
<1> DEFINE r == [t EXCEPT !.point = p, !.since = 0, !.cycle = 0, !.near = NoHits,
                          !.inside = 0, !.outside = 0]
<1>2. PointIs(t, p) = r
  BY DEF PointIs
<1>3. Formed(t) /\ Typed(t)
  BY TrackedIs
<1>4. Formed(r) /\ Typed(r)
  <2>1. Formed(r)
    BY <1>1, <1>3 DEF Formed, Typed, TrackedFields
  <2>2. Typed(r)
    BY <1>1, <1>3 DEF Formed, Typed, TrackedFields
  <2> QED BY <2>1, <2>2
<1>5. /\ r.since = 0 /\ r.near = NoHits /\ r.rolls = t.rolls /\ r.pso = t.pso
      /\ r.bank = t.bank /\ r.hand = t.hand /\ r.log = t.log
  BY <1>3 DEF Formed, TrackedFields
<1> HIDE DEF r
<1> QED BY <1>2, <1>4, <1>5, TrackedIs

\* on_seven_out.
LEMMA SevenedType ==
  ASSUME NEW t \in Tracked
  PROVE  /\ SevenedOut(t) \in Tracked
         /\ SevenedOut(t).since = 0 /\ SevenedOut(t).near = NoHits
         /\ SevenedOut(t).rolls = 0
         /\ SevenedOut(t).pso = t.pso + IF t.since = 1 THEN 1 ELSE 0
         /\ SevenedOut(t).bank = t.bank /\ SevenedOut(t).hand = 0
         /\ SevenedOut(t).log = Append(t.log, t.hand)
<1> DEFINE q == PointIs(t, 0)
<1>1. /\ q \in Tracked /\ q.since = 0 /\ q.near = NoHits /\ q.pso = t.pso /\ q.bank = t.bank
      /\ q.hand = t.hand /\ q.log = t.log
  BY PointType
<1> HIDE DEF q
<1> DEFINE more == IF t.since = 1 THEN 1 ELSE 0
           r == [q EXCEPT !.pso = @ + more, !.sevens = @ + 1, !.hands = @ + 1, !.rolls = 0,
                          !.log = Append(@, t.hand), !.hand = 0]
<1>2. SevenedOut(t) = r
  BY DEF SevenedOut, q
<1>3. more \in Nat
  OBVIOUS
<1> HIDE DEF more
<1>4. Append(q.log, t.hand) \in Seq(Int)
  BY <1>1, AppendProperties DEF Tracked
<1>a. Formed(q) /\ Typed(q)
  BY <1>1, TrackedIs
<1>5. Formed(r) /\ Typed(r)
  <2>1. Formed(r)
    BY <1>a, <1>3, <1>4 DEF Formed, Typed, TrackedFields
  <2>a. \A f \in TrackedFields :
          f \notin {"pso", "sevens", "hands", "rolls", "log", "hand"} => r[f] = q[f]
    BY <1>a DEF Formed, TrackedFields
  <2>c. /\ r.pso = q.pso + more /\ r.sevens = q.sevens + 1 /\ r.hands = q.hands + 1
        /\ r.rolls = 0 /\ r.log = Append(q.log, t.hand) /\ r.hand = 0
    BY <1>a DEF Formed, TrackedFields
  <2> HIDE DEF r
  <2>b. /\ r.pso \in Nat /\ r.sevens \in Nat /\ r.hands \in Nat /\ r.rolls \in Nat
        /\ r.log \in Seq(Int) /\ r.hand \in Int
    <3>1. q.pso \in Nat /\ q.sevens \in Nat /\ q.hands \in Nat
      BY <1>a DEF Typed
    <3>2. q.pso + more \in Nat /\ q.sevens + 1 \in Nat /\ q.hands + 1 \in Nat
      BY <1>3, <3>1
    <3> QED BY <1>4, <2>c, <3>2
  <2>2. Typed(r)
    BY <1>a, <2>a, <2>b DEF Typed, TrackedFields
  <2> QED BY <2>1, <2>2
<1>6. /\ r.since = q.since /\ r.near = q.near /\ r.rolls = 0 /\ r.pso = q.pso + more
      /\ r.bank = q.bank /\ r.hand = 0 /\ r.log = Append(q.log, t.hand)
  BY <1>a DEF Formed, TrackedFields
<1> HIDE DEF r
<1> QED BY <1>1, <1>2, <1>5, <1>6, TrackedIs DEF more

\* on_bankroll_delta.
LEMMA BankedType ==
  ASSUME NEW t \in Tracked, NEW delta \in Int
  PROVE  /\ Banked(t, delta) \in Tracked
         /\ Banked(t, delta).bank = t.bank + delta /\ Banked(t, delta).hand = t.hand + delta
         /\ Banked(t, delta).rolls = t.rolls /\ Banked(t, delta).since = t.since
         /\ Banked(t, delta).near = t.near /\ Banked(t, delta).pso = t.pso
         /\ Banked(t, delta).log = t.log
<1>1. ASSUME NEW a \in Int, NEW b \in Int PROVE Max({a, b}) \in Int
  <2>1. \E x \in {a, b} : \A y \in {a, b} : x >= y
    OBVIOUS
  <2>2. Max({a, b}) \in {a, b}
    BY <2>1 DEF Max
  <2> QED BY <2>2
<1> DEFINE bank == t.bank + delta
<1>a. Formed(t) /\ Typed(t)
  BY TrackedIs
<1>2. bank \in Int /\ t.bank \in Int /\ t.peak \in Int /\ t.deepest \in Int
  BY <1>a DEF Typed
<1> DEFINE peak == Max({t.peak, bank})
<1>3. peak \in Int /\ peak - bank \in Int
  BY <1>1, <1>2
<1> DEFINE low == Max({t.deepest, peak - bank})
<1>4. low \in Int
  BY <1>1, <1>2, <1>3
<1> DEFINE r == [t EXCEPT !.bank = bank, !.peak = peak, !.draw = peak - bank,
                !.cycle = IF t.point # 0 THEN @ + delta ELSE @,
                !.hand = @ + delta, !.deepest = low]
<1>5. Banked(t, delta) = r
  BY DEF Banked
<1> HIDE DEF bank, peak, low
<1>6. Formed(r) /\ Typed(r)
  <2>1. Formed(r)
    BY <1>a, <1>2, <1>3, <1>4 DEF Formed, Typed, TrackedFields
  <2>a. \A f \in TrackedFields :
          f \notin {"bank", "peak", "draw", "cycle", "hand", "deepest"} => r[f] = t[f]
    BY <1>a DEF Formed, TrackedFields
  <2>c. /\ r.bank = bank /\ r.peak = peak /\ r.draw = peak - bank
        /\ r.cycle = (IF t.point # 0 THEN t.cycle + delta ELSE t.cycle)
        /\ r.hand = t.hand + delta /\ r.deepest = low
    BY <1>a DEF Formed, TrackedFields
  <2> HIDE DEF r
  <2>b. /\ r.bank \in Int /\ r.peak \in Int /\ r.draw \in Int /\ r.cycle \in Int
        /\ r.hand \in Int /\ r.deepest \in Int
    <3>1. t.cycle \in Int /\ t.hand \in Int
      BY <1>a DEF Typed
    <3>2. t.cycle + delta \in Int /\ t.hand + delta \in Int
      BY <3>1
    <3> QED BY <1>2, <1>3, <1>4, <2>c, <3>1, <3>2
  <2>2. Typed(r)
    BY <1>a, <2>a, <2>b DEF Typed, TrackedFields
  <2> QED BY <2>1, <2>2
<1>7. /\ r.bank = bank /\ r.hand = t.hand + delta /\ r.rolls = t.rolls /\ r.since = t.since
      /\ r.near = t.near /\ r.pso = t.pso /\ r.log = t.log
  BY <1>a DEF Formed, TrackedFields
<1> HIDE DEF r
<1> QED BY <1>5, <1>6, <1>7, TrackedIs DEF bank

\* The fields of a new tracker.
LEMMA NewTrackerType ==
  /\ NewTracker \in Tracked
  /\ NewTracker.since = 0 /\ NewTracker.near = NoHits /\ NewTracker.rolls = 0
  /\ NewTracker.pso = 0 /\ NewTracker.bank = 0 /\ NewTracker.hand = 0 /\ NewTracker.log = <<>>
<1>1. NoHits \in Hits /\ <<>> \in Seq(Int)
  BY SumHits
<1> QED BY <1>1 DEF NewTracker, Tracked

---------------------------------------------------------------------------
(* The entries and the stacks.  The invariants are of the ledger's parts.  *)

\* Every id on a stack is an entry's of that stack's key, is there once, and an open
\* entry's id is on the stack of its key.
Stacked(en, st) ==
  /\ \A k \in Keys : \A i \in 1..Len(st[k]) :
       st[k][i] \in 1..Len(en) /\ en[st[k][i]].key = k
  /\ \A k \in Keys : \A i, j \in 1..Len(st[k]) : st[k][i] = st[k][j] => i = j
  /\ \A e \in 1..Len(en) : en[e].open =>
       \E i \in 1..Len(st[en[e].key]) : st[en[e].key][i] = e

\* The first part of an entry's key is its bet.
Keyed(en) == \A e \in 1..Len(en) : en[e].key[1] = en[e].bet

\* The totals are those of the entries.
OpenIn(en) == {e \in DOMAIN en : en[e].open}
Stakes(en) == [e \in OpenIn(en) |-> en[e].amount]
Results(en) == [e \in DOMAIN en \ OpenIn(en) |-> en[e].pnl]

Summed(en, exposure, realized) ==
  exposure = SumTo(Stakes(en), Len(en)) /\ realized = SumTo(Results(en), Len(en))

\* A matched intent's entry is there, is of no other intent, and named the intent or,
\* naming none, is for its bet.
Paired(en, ints) ==
  /\ \A i \in 1..Len(ints) : ints[i].status = "matched" =>
       /\ ints[i].entry \in 1..Len(en)
       /\ \/ en[ints[i].entry].intent = i
          \/ en[ints[i].entry].intent = 0 /\ en[ints[i].entry].bet = ints[i].bet
  /\ \A i, j \in 1..Len(ints) :
       ints[i].status = "matched" /\ ints[j].status = "matched" /\ ints[i].entry = ints[j].entry
         => i = j

\* The fields of an entry.
LEMMA EntryFields ==
  ASSUME NEW e \in Entry
  PROVE  /\ e.bet \in Names /\ e.key \in Keys /\ e.open \in BOOLEAN /\ e.intent \in Nat
         /\ e.amount \in Amounts /\ e.amount \in Int /\ e.pnl \in Int
<1>1. Amounts \subseteq Nat
  BY AccountsConstants
<1>2. /\ e.bet \in Names /\ e.key \in Keys /\ e.open \in BOOLEAN /\ e.intent \in Nat
      /\ e.amount \in Amounts /\ e.pnl \in Int
  BY DEF Entry
<1>3. e.amount \in Nat
  BY <1>1, <1>2
<1> QED BY <1>2, <1>3

\* What an entry adds to the sums.
LEMMA SumsAt ==
  ASSUME NEW en \in Seq(Entry), NEW k \in 1..Len(en)
  PROVE  /\ At(Stakes(en), k) = (IF en[k].open THEN en[k].amount ELSE 0)
         /\ At(Results(en), k) = (IF en[k].open THEN 0 ELSE en[k].pnl)
         /\ At(Stakes(en), k) \in Int /\ At(Results(en), k) \in Int
<1>1. en[k] \in Entry /\ DOMAIN en = 1..Len(en)
  OBVIOUS
<1>2. en[k].open \in BOOLEAN /\ en[k].amount \in Int /\ en[k].pnl \in Int
  BY <1>1, EntryFields
<1>3. DOMAIN Stakes(en) = OpenIn(en) /\ DOMAIN Results(en) = DOMAIN en \ OpenIn(en)
  BY DEF Stakes, Results
<1>4. k \in OpenIn(en) <=> en[k].open
  BY <1>1 DEF OpenIn
<1>5. CASE en[k].open
  <2>1. At(Stakes(en), k) = en[k].amount /\ At(Results(en), k) = 0
    BY <1>1, <1>3, <1>4, <1>5 DEF At, Stakes
  <2> QED BY <1>2, <1>5, <2>1
<1>6. CASE ~en[k].open
  <2>1. At(Stakes(en), k) = 0 /\ At(Results(en), k) = en[k].pnl
    BY <1>1, <1>3, <1>4, <1>6 DEF At, Results
  <2> QED BY <1>2, <1>6, <2>1
<1> QED BY <1>5, <1>6

\* The sums are of whole numbers.
LEMMA SumsWhole ==
  ASSUME NEW en \in Seq(Entry)
  PROVE  Len(en) \in Nat /\ Whole(Stakes(en), Len(en)) /\ Whole(Results(en), Len(en))
BY SumsAt DEF Whole

\* An entry that is placed.
LEMMA PlacedEntry ==
  ASSUME NEW en \in Seq(Entry), NEW st \in [Keys -> Seq(Nat)], NEW e \in Entry,
         e.open, Stacked(en, st)
  PROVE  Stacked(Append(en, e), [st EXCEPT ![e.key] = Append(@, Len(en) + 1)])
<1> DEFINE n == Len(en) + 1
           k0 == e.key
           en2 == Append(en, e)
           top == Append(st[k0], n)
           st2 == [st EXCEPT ![k0] = top]
<1>1. /\ en2 \in Seq(Entry) /\ Len(en2) = n /\ en2[n] = e
      /\ \A i \in 1..Len(en) : en2[i] = en[i]
  BY AppendProperties
<1>2. k0 \in Keys /\ st[k0] \in Seq(Nat)
  BY DEF Entry
<1>3. n \in Nat /\ Len(en) \in Nat /\ n = Len(en) + 1 /\ Len(st[k0]) \in Nat
  BY <1>2
<1>4. /\ top \in Seq(Nat) /\ Len(top) = Len(st[k0]) + 1 /\ top[Len(st[k0]) + 1] = n
      /\ \A i \in 1..Len(st[k0]) : top[i] = st[k0][i]
  BY <1>2, <1>3, AppendProperties
<1>5. st2[k0] = top /\ \A k \in Keys : k # k0 => st2[k] = st[k]
  BY <1>2
<1>6. \A x \in 1..Len(en2) : x \in 1..Len(en) \/ x = n
  BY <1>1, <1>3
<1>7. \A x \in 1..Len(en) : x \in 1..Len(en2) /\ x # n
  BY <1>1, <1>3
<1>a. n \in 1..Len(en2)
  BY <1>1, <1>3
<1> SUFFICES Stacked(en2, st2)
  OBVIOUS
<1> HIDE DEF n, en2, top, st2, k0
<1>f. PICK deep \in Nat : deep = Len(st[k0]) /\ Len(top) = deep + 1
  BY <1>3, <1>4
<1>8. \A i \in 1..Len(top) : i \in 1..Len(st[k0]) \/ i = Len(st[k0]) + 1
  BY <1>f
<1>9. \A i \in 1..Len(st[k0]) : i \in 1..Len(top)
  BY <1>f
<1>b. Len(st[k0]) + 1 \in 1..Len(top)
  BY <1>f
<1>g. \A k \in Keys : \A i \in 1..Len(st[k]) : st[k][i] \in 1..Len(en) /\ en[st[k][i]].key = k
  BY DEF Stacked
<1>c. ASSUME NEW k \in Keys, NEW i \in 1..Len(st2[k])
      PROVE  st2[k][i] \in 1..Len(en2) /\ en2[st2[k][i]].key = k
  <2>1. CASE k # k0
    <3>1. st2[k] = st[k] /\ i \in 1..Len(st[k])
      BY <1>5, <1>c, <2>1
    <3>2. st[k][i] \in 1..Len(en) /\ en[st[k][i]].key = k
      BY <1>g, <3>1
    <3> QED BY <1>1, <1>7, <3>1, <3>2
  <2>2. CASE k = k0 /\ i \in 1..Len(st[k0])
    <3>1. st2[k] = top /\ top[i] = st[k0][i]
      BY <1>4, <1>5, <2>2
    <3>2. st[k0][i] \in 1..Len(en) /\ en[st[k0][i]].key = k0
      BY <1>2, <1>g, <2>2
    <3> QED BY <1>1, <1>7, <2>2, <3>1, <3>2
  <2>3. CASE k = k0 /\ i = Len(st[k0]) + 1
    BY <1>1, <1>4, <1>5, <1>a, <2>3 DEF k0
  <2> QED BY <1>5, <1>8, <1>c, <2>1, <2>2, <2>3
<1>d. ASSUME NEW k \in Keys, NEW i \in 1..Len(st2[k]), NEW j \in 1..Len(st2[k]),
             st2[k][i] = st2[k][j]
      PROVE  i = j
  <2>1. CASE k # k0
    BY <1>5, <1>d, <2>1 DEF Stacked
  <2>2. CASE k = k0
    <3>1. \A x \in 1..Len(st[k0]) : st[k0][x] # n
      BY <1>2, <1>7 DEF Stacked
    <3>2. \A x, y \in 1..Len(st[k0]) : st[k0][x] = st[k0][y] => x = y
      BY <1>2 DEF Stacked
    <3> QED BY <1>4, <1>5, <1>8, <1>d, <2>2, <3>1, <3>2
  <2> QED BY <2>1, <2>2
<1>e. ASSUME NEW x \in 1..Len(en2), en2[x].open
      PROVE  \E i \in 1..Len(st2[en2[x].key]) : st2[en2[x].key][i] = x
  <2>1. CASE x = n
    BY <1>1, <1>4, <1>5, <1>b, <2>1 DEF k0
  <2>2. CASE x \in 1..Len(en)
    <3>1. en2[x] = en[x] /\ en[x] \in Entry
      BY <1>1, <2>2
    <3>2. PICK i \in 1..Len(st[en[x].key]) : st[en[x].key][i] = x
      BY <1>e, <2>2, <3>1 DEF Stacked
    <3>3. en[x].key \in Keys
      BY <3>1 DEF Entry
    <3>4. CASE en[x].key = k0
      BY <1>4, <1>5, <1>9, <3>1, <3>2, <3>4
    <3>5. CASE en[x].key # k0
      BY <1>5, <3>1, <3>2, <3>3, <3>5
    <3> QED BY <3>4, <3>5
  <2> QED BY <1>6, <2>1, <2>2
<1> QED BY <1>c, <1>d, <1>e DEF Stacked

\* Entries that keep their keys while some are closed.
LEMMA ClosedStacked ==
  ASSUME NEW en, NEW st, Stacked(en, st), NEW en2, Len(en2) = Len(en),
         \A e \in 1..Len(en) : en2[e].key = en[e].key /\ (en2[e].open => en[e].open)
  PROVE  Stacked(en2, st)
BY DEF Stacked

\* The id of a closed entry is popped off its stack.
LEMMA PoppedStacked ==
  ASSUME NEW en \in Seq(Entry), NEW st \in [Keys -> Seq(Nat)], Stacked(en, st),
         NEW k0 \in Keys, st[k0] # <<>>, ~en[Last(st[k0])].open
  PROVE  /\ Stacked(en, [st EXCEPT ![k0] = Front(@)])
         /\ [st EXCEPT ![k0] = Front(@)] \in [Keys -> Seq(Nat)]
<1> DEFINE rest == Front(st[k0])
           st2 == [st EXCEPT ![k0] = rest]
<1>2. st[k0] \in Seq(Nat) /\ Len(st[k0]) \in Nat /\ Len(st[k0]) > 0
      /\ Last(st[k0]) = st[k0][Len(st[k0])]
  <2>1. st[k0] \in Seq(Nat)
    OBVIOUS
  <2> QED BY <2>1, EmptySeq DEF Last
<1>1. /\ rest \in Seq(Nat) /\ Len(rest) = Len(st[k0]) - 1
      /\ \A i \in 1..(Len(st[k0]) - 1) : rest[i] = st[k0][i]
  <2>1. PICK last \in Int, first \in Int : last = Len(st[k0]) - 1 /\ first = 1 /\ last >= 0
    <3>1. Len(st[k0]) - 1 \in Int /\ Len(st[k0]) - 1 >= 0 /\ 1 \in Int
      BY <1>2
    <3> QED BY <3>1
  <2>2. \A i \in first..last : st[k0][i] \in Nat
    BY <1>2, <2>1
  <2>3. rest = SubSeq(st[k0], first, last)
    BY <2>1 DEF Front
  <2>4. /\ rest \in Seq(Nat)
        /\ Len(rest) = IF first <= last THEN last - first + 1 ELSE 0
        /\ \A i \in 1..(last - first + 1) : rest[i] = st[k0][first + i - 1]
    BY <2>2, <2>3, SubSeqProperties
  <2> HIDE DEF rest
  <2>5. Len(rest) = last
    BY <2>1, <2>4
  <2>6. \A i \in 1..last : rest[i] = st[k0][i]
    <3> TAKE i \in 1..last
    <3>1. i \in 1..(last - first + 1) /\ first + i - 1 = i
      BY <2>1
    <3> QED BY <2>4, <3>1
  <2> QED BY <2>1, <2>4, <2>5, <2>6
<1>3. st2[k0] = rest /\ \A k \in Keys : k # k0 => st2[k] = st[k]
  OBVIOUS
<1>4. st2 \in [Keys -> Seq(Nat)]
  BY <1>1
<1> SUFFICES Stacked(en, st2)
  BY <1>4
<1> HIDE DEF rest, st2
<1>5. \A i \in 1..Len(rest) : i \in 1..Len(st[k0]) /\ rest[i] = st[k0][i]
  BY <1>1, <1>2
<1>6. ASSUME NEW x \in 1..Len(en), en[x].open
      PROVE  \E i \in 1..Len(st2[en[x].key]) : st2[en[x].key][i] = x
  <2>1. PICK i \in 1..Len(st[en[x].key]) : st[en[x].key][i] = x
    BY <1>6 DEF Stacked
  <2>2. CASE en[x].key = k0
    <3>1. i # Len(st[k0])
      BY <1>2, <1>6, <2>1, <2>2
    <3>2. i \in 1..Len(rest) /\ rest[i] = x
      BY <1>1, <1>2, <2>1, <2>2, <3>1
    <3> QED BY <1>3, <2>2, <3>2
  <2>3. CASE en[x].key # k0
    <3>1. en[x].key \in Keys
      BY EntryFields
    <3> QED BY <1>3, <2>1, <2>3, <3>1
  <2> QED BY <2>2, <2>3
<1>7. \A k \in Keys : \A i \in 1..Len(st2[k]) : st2[k][i] \in 1..Len(en) /\ en[st2[k][i]].key = k
  BY <1>3, <1>5 DEF Stacked
<1>8. ASSUME NEW k \in Keys, NEW i \in 1..Len(st2[k]), NEW j \in 1..Len(st2[k]),
             st2[k][i] = st2[k][j]
      PROVE  i = j
  <2>1. i \in 1..Len(st[k]) /\ j \in 1..Len(st[k]) /\ st2[k][i] = st[k][i] /\ st2[k][j] = st[k][j]
    BY <1>3, <1>5
  <2>2. \A x, y \in 1..Len(st[k]) : st[k][x] = st[k][y] => x = y
    BY DEF Stacked
  <2>3. st[k][i] = st[k][j]
    BY <1>8, <2>1
  <2> QED BY <2>1, <2>2, <2>3
<1> QED BY <1>6, <1>7, <1>8 DEF Stacked

\* The totals with an entry that is placed.
LEMMA PlacedSummed ==
  ASSUME NEW en \in Seq(Entry), NEW e \in Entry, e.open,
         NEW exposure \in Int, NEW realized \in Int, Summed(en, exposure, realized)
  PROVE  Summed(Append(en, e), exposure + e.amount, realized)
<1> DEFINE n == Len(en)
           en2 == Append(en, e)
<1>1. /\ en2 \in Seq(Entry) /\ Len(en2) = n + 1 /\ en2[n + 1] = e
      /\ \A i \in 1..n : en2[i] = en[i]
  BY AppendProperties
<1>2. n \in Nat /\ Whole(Stakes(en), n) /\ Whole(Results(en), n)
  BY SumsWhole
<1>3. Whole(Stakes(en2), n + 1) /\ Whole(Results(en2), n + 1)
  BY <1>1, SumsWhole
<1> HIDE DEF n, en2
<1>4. \A k \in 1..n : k \in 1..Len(en2) /\ k \in 1..Len(en)
  BY <1>1, <1>2 DEF n
<1>5. ASSUME NEW k \in 1..n
      PROVE  At(Stakes(en2), k) = At(Stakes(en), k) /\ At(Results(en2), k) = At(Results(en), k)
  <2>1. k \in 1..Len(en2) /\ k \in 1..Len(en) /\ en2[k] = en[k]
    BY <1>1, <1>4
  <2>2. /\ At(Stakes(en2), k) = (IF en2[k].open THEN en2[k].amount ELSE 0)
        /\ At(Results(en2), k) = (IF en2[k].open THEN 0 ELSE en2[k].pnl)
    BY <1>1, <2>1, SumsAt
  <2>3. /\ At(Stakes(en), k) = (IF en[k].open THEN en[k].amount ELSE 0)
        /\ At(Results(en), k) = (IF en[k].open THEN 0 ELSE en[k].pnl)
    BY <2>1, SumsAt
  <2> QED BY <2>1, <2>2, <2>3
<1>6. SumTo(Stakes(en2), n) = SumTo(Stakes(en), n) /\ SumTo(Results(en2), n) = SumTo(Results(en), n)
  BY <1>2, <1>5, SumSame
<1>7. At(Stakes(en2), n + 1) = e.amount /\ At(Results(en2), n + 1) = 0
  <2>1. n + 1 \in 1..Len(en2)
    BY <1>1, <1>2
  <2> QED BY <1>1, <2>1, SumsAt
<1>8. /\ SumTo(Stakes(en2), n + 1) = SumTo(Stakes(en2), n) + At(Stakes(en2), n + 1)
      /\ SumTo(Results(en2), n + 1) = SumTo(Results(en2), n) + At(Results(en2), n + 1)
  BY <1>2, <1>3, SumLonger
<1>9. Summed(en2, exposure + e.amount, realized)
  <2>1. exposure = SumTo(Stakes(en), n) /\ realized = SumTo(Results(en), n)
    BY DEF Summed, n
  <2> QED BY <1>1, <1>6, <1>7, <1>8, <2>1 DEF Summed
<1> QED BY <1>9 DEF en2

\* The totals with an open entry that is closed.
LEMMA ClosedSummed ==
  ASSUME NEW en \in Seq(Entry), NEW id \in 1..Len(en), en[id].open,
         NEW en2 \in Seq(Entry), Len(en2) = Len(en),
         \A k \in 1..Len(en) : k # id => en2[k] = en[k],
         ~en2[id].open,
         NEW exposure \in Int, NEW realized \in Int, Summed(en, exposure, realized)
  PROVE  Summed(en2, exposure - en[id].amount, realized + en2[id].pnl)
<1> DEFINE n == Len(en)
<1>1. n \in Nat /\ Whole(Stakes(en), n) /\ Whole(Results(en), n)
  BY SumsWhole
<1>2. en[id] \in Entry /\ en2[id] \in Entry
  OBVIOUS
<1>b. en[id].amount \in Int /\ en2[id].pnl \in Int
  BY <1>2, EntryFields
<1>3. PICK less \in Int, more \in Int : less = 0 - en[id].amount /\ more = en2[id].pnl
  BY <1>b
<1> HIDE DEF n
<1>c. ASSUME NEW k \in 1..n
      PROVE  /\ At(Stakes(en2), k) = At(Stakes(en), k) + (IF k = id THEN less ELSE 0)
             /\ At(Results(en2), k) = At(Results(en), k) + (IF k = id THEN more ELSE 0)
  <2>1. k \in 1..Len(en) /\ k \in 1..Len(en2)
    BY DEF n
  <2>2. /\ At(Stakes(en), k) = (IF en[k].open THEN en[k].amount ELSE 0)
        /\ At(Results(en), k) = (IF en[k].open THEN 0 ELSE en[k].pnl)
        /\ At(Stakes(en), k) \in Int /\ At(Results(en), k) \in Int
    BY <2>1, SumsAt
  <2>3. /\ At(Stakes(en2), k) = (IF en2[k].open THEN en2[k].amount ELSE 0)
        /\ At(Results(en2), k) = (IF en2[k].open THEN 0 ELSE en2[k].pnl)
    BY <2>1, SumsAt
  <2>4. CASE k = id
    BY <1>b, <1>3, <2>2, <2>3, <2>4
  <2>5. CASE k # id
    <3>1. en2[k] = en[k]
      BY <2>1, <2>5
    <3> QED BY <2>2, <2>3, <2>5, <3>1
  <2> QED BY <2>4, <2>5
<1>4. Moves(Stakes(en), Stakes(en2), n, id, less)
  BY <1>c DEF Moves
<1>5. Moves(Results(en), Results(en2), n, id, more)
  BY <1>c DEF Moves
<1>6. id \in Int /\ id \in 1..n
  BY <1>1 DEF n
<1>7. SumTo(Stakes(en2), n) = SumTo(Stakes(en), n) + IF id \in 1..n THEN less ELSE 0
  BY <1>1, <1>4, <1>6, SumMoved
<1>8. SumTo(Results(en2), n) = SumTo(Results(en), n) + IF id \in 1..n THEN more ELSE 0
  BY <1>1, <1>5, <1>6, SumMoved
<1>9. exposure = SumTo(Stakes(en), n) /\ realized = SumTo(Results(en), n) /\ Len(en2) = n
  BY DEF Summed, n
<1>a. exposure - en[id].amount = exposure + less
  BY <1>b, <1>3
<1> QED BY <1>3, <1>6, <1>7, <1>8, <1>9, <1>a DEF Summed

---------------------------------------------------------------------------
(* The intents. *)

\* A set of numbers that is not empty and has a bound has a greatest one.
LEMMA MaxIn ==
  ASSUME NEW n \in Nat, NEW I, I \subseteq 1..n, I # {} PROVE Max(I) \in I
<1> DEFINE Best(k) == \E x \in I : x <= k /\ \A y \in I : y <= k => y <= x
           T == {k \in 0..n : (\E x \in I : x <= k) => Best(k)}
<1>1. 0 \in T
  OBVIOUS
<1>2. ASSUME NEW m \in 0..(n - 1), m \in T PROVE m + 1 \in T
  <2>1. m + 1 \in 0..n /\ m \in Int
    OBVIOUS
  <2>2. CASE m + 1 \in I
    <3>1. Best(m + 1)
      BY <2>1, <2>2
    <3> QED BY <2>1, <3>1
  <2>3. CASE m + 1 \notin I
    <3>1. \A x \in I : x <= m + 1 <=> x <= m
      BY <2>1, <2>3
    <3>2. (\E x \in I : x <= m) => Best(m)
      BY <1>2
    <3>3. (\E x \in I : x <= m + 1) => Best(m + 1)
      BY <3>1, <3>2
    <3> QED BY <2>1, <3>3
  <2> QED BY <2>2, <2>3
<1>3. n \in T
  <2> HIDE DEF T
  <2> QED BY <1>1, <1>2, Climb
<1>4. \E x \in I : \A y \in I : x >= y
  <2>1. \A x \in I : x \in Int /\ x <= n
    OBVIOUS
  <2>2. Best(n)
    BY <1>3, <2>1
  <2> QED BY <2>1, <2>2
<1> QED BY <1>4 DEF Max

\* The nearest intent is none, or an open one for the bet.
LEMMA NearestIs ==
  ASSUME NEW l, NEW m, l.intents \in Seq(Intent)
  PROVE  LET i == Nearest(l, m)
         IN  i = 0 \/ (i \in 1..Len(l.intents) /\ l.intents[i].status = "open"
                       /\ l.intents[i].bet = Canon(m))
<1> DEFINE n == Len(l.intents)
           I == {i \in 1..n :
                   /\ l.intents[i].status = "open"
                   /\ l.intents[i].bet = Canon(m)
                   /\ m.number = 0 \/ l.intents[i].number \in {0, m.number}}
<1>1. Nearest(l, m) = IF I # {} THEN Max(I) ELSE 0
  BY DEF Nearest, SelectLastInSeq
<1>2. n \in Nat
  OBVIOUS
<1>3. I # {} => Max(I) \in I
  BY <1>2, MaxIn
<1> QED BY <1>1, <1>3

\* The entry that is placed is matched with the intent, if it is still open.
LEMMA MarkedPaired ==
  ASSUME NEW en \in Seq(Entry), NEW ints \in Seq(Intent), Paired(en, ints), NEW e \in Entry,
         NEW i \in Nat,
         \/ e.intent = i
         \/ e.intent = 0 /\ (i \in 1..Len(ints) => ints[i].bet = e.bet)
  PROVE  /\ Marked(ints, i, Len(en) + 1) \in Seq(Intent)
         /\ Paired(Append(en, e), Marked(ints, i, Len(en) + 1))
<1> DEFINE n == Len(en) + 1
           en2 == Append(en, e)
<1>1. /\ en2 \in Seq(Entry) /\ Len(en2) = n /\ en2[n] = e
      /\ \A k \in 1..Len(en) : en2[k] = en[k]
  BY AppendProperties
<1>2. n \in Nat /\ n \in 1..n /\ \A k \in 1..Len(en) : k \in 1..n /\ k # n
  OBVIOUS
<1>3. DOMAIN ints = 1..Len(ints)
  OBVIOUS
<1> HIDE DEF n, en2
<1>4. Paired(en2, ints)
  BY <1>1, <1>2 DEF Paired
<1>5. CASE i \in 1..Len(ints) /\ ints[i].status = "open"
  <2> DEFINE it == [ints[i] EXCEPT !.status = "matched", !.entry = n]
             ints2 == [ints EXCEPT ![i] = it]
  <2>1. Marked(ints, i, n) = ints2
    BY <1>3, <1>5 DEF Marked
  <2>2. it \in Intent /\ it.bet = ints[i].bet /\ it.entry = n /\ it.status = "matched"
    <3>1. ints[i] \in Intent
      BY <1>5
    <3> QED BY <1>2, <3>1 DEF Intent
  <2> HIDE DEF it
  <2>3. /\ ints2 \in Seq(Intent) /\ Len(ints2) = Len(ints) /\ ints2[i] = it
        /\ \A k \in 1..Len(ints) : k # i => ints2[k] = ints[k]
    BY <1>5, <2>2
  <2> HIDE DEF ints2
  <2>4. ASSUME NEW k \in 1..Len(ints2), ints2[k].status = "matched"
        PROVE  /\ ints2[k].entry \in 1..Len(en2)
               /\ \/ en2[ints2[k].entry].intent = k
                  \/ en2[ints2[k].entry].intent = 0 /\ en2[ints2[k].entry].bet = ints2[k].bet
    <3>1. CASE k = i
      BY <1>1, <1>2, <1>5, <2>2, <2>3, <3>1
    <3>2. CASE k # i
      <4>1. k \in 1..Len(ints) /\ ints2[k] = ints[k]
        BY <2>3, <3>2
      <4> QED BY <1>4, <2>4, <4>1 DEF Paired
    <3> QED BY <3>1, <3>2
  <2>5. ASSUME NEW j \in 1..Len(ints), ints[j].status = "matched" PROVE ints[j].entry # n
    BY <1>2, <2>5 DEF Paired
  <2>6. ASSUME NEW k \in 1..Len(ints2), NEW j \in 1..Len(ints2),
               ints2[k].status = "matched", ints2[j].status = "matched",
               ints2[k].entry = ints2[j].entry
        PROVE  k = j
    <3>1. CASE k = i /\ j # i
      BY <2>2, <2>3, <2>5, <2>6, <3>1
    <3>2. CASE k # i /\ j = i
      BY <2>2, <2>3, <2>5, <2>6, <3>2
    <3>3. CASE k # i /\ j # i
      <4>1. /\ k \in 1..Len(ints) /\ j \in 1..Len(ints)
            /\ ints2[k] = ints[k] /\ ints2[j] = ints[j]
        BY <2>3, <3>3
      <4> QED BY <2>6, <4>1 DEF Paired
    <3> QED BY <3>1, <3>2, <3>3
  <2>7. Paired(en2, ints2)
    BY <2>4, <2>6 DEF Paired
  <2> QED BY <2>1, <2>3, <2>7 DEF en2, n
<1>6. CASE ~(i \in 1..Len(ints) /\ ints[i].status = "open")
  <2>1. Marked(ints, i, n) = ints
    BY <1>3, <1>6 DEF Marked
  <2> QED BY <1>4, <2>1 DEF en2, n
<1> QED BY <1>5, <1>6

\* Entries that keep their bets and intents.
LEMMA ClosedPaired ==
  ASSUME NEW en, NEW ints, Paired(en, ints), NEW en2, Len(en2) = Len(en),
         \A e \in 1..Len(en) : en2[e].intent = en[e].intent /\ en2[e].bet = en[e].bet
  PROVE  Paired(en2, ints)
BY DEF Paired

\* An intent that is created.
LEMMA IntendedPaired ==
  ASSUME NEW en, NEW ints \in Seq(Intent), Paired(en, ints), NEW it \in Intent,
         it.status = "open"
  PROVE  Append(ints, it) \in Seq(Intent) /\ Paired(en, Append(ints, it))
<1> DEFINE ints2 == Append(ints, it)
<1>1. /\ ints2 \in Seq(Intent) /\ Len(ints2) = Len(ints) + 1 /\ ints2[Len(ints) + 1] = it
      /\ \A k \in 1..Len(ints) : ints2[k] = ints[k]
  BY AppendProperties
<1> HIDE DEF ints2
<1>2. ASSUME NEW k \in 1..Len(ints2), ints2[k].status = "matched"
      PROVE  k \in 1..Len(ints) /\ ints2[k] = ints[k]
  <2>1. k \in 1..Len(ints) \/ k = Len(ints) + 1
    BY <1>1
  <2>2. ints2[k].status # "open"
    BY <1>2
  <2> QED BY <1>1, <2>1, <2>2
<1>3. Paired(en, ints2)
  BY <1>2 DEF Paired
<1> QED BY <1>1, <1>3 DEF ints2

\* An intent that is canceled.
LEMMA CanceledPaired ==
  ASSUME NEW en, NEW ints \in Seq(Intent), Paired(en, ints), NEW i \in 1..Len(ints),
         NEW ints2, ints2 = [ints EXCEPT ![i].status = IF @ = "open" THEN "canceled" ELSE @]
  PROVE  ints2 \in Seq(Intent) /\ Paired(en, ints2)
<1> DEFINE it == [ints[i] EXCEPT !.status = IF @ = "open" THEN "canceled" ELSE @]
<1>1. ints[i] \in Intent
  OBVIOUS
<1>2. /\ it \in Intent /\ it.bet = ints[i].bet /\ it.entry = ints[i].entry
      /\ it.status = "matched" <=> ints[i].status = "matched"
  BY <1>1 DEF Intent
<1>3. ints2 = [ints EXCEPT ![i] = it]
  OBVIOUS
<1> HIDE DEF it
<1>4. /\ ints2 \in Seq(Intent) /\ Len(ints2) = Len(ints) /\ ints2[i] = it
      /\ \A k \in 1..Len(ints) : k # i => ints2[k] = ints[k]
  BY <1>2, <1>3
<1>5. \A k \in 1..Len(ints) :
        /\ ints2[k].bet = ints[k].bet /\ ints2[k].entry = ints[k].entry
        /\ ints2[k].status = "matched" <=> ints[k].status = "matched"
  BY <1>2, <1>4
<1> QED BY <1>4, <1>5 DEF Paired

---------------------------------------------------------------------------
(* The ledger's operations keep its invariant.                             *)

LedgerFields ==
  {"entries", "stack", "realized", "exposure", "cycle", "since", "roll", "intents"}

LedgerFormed(l) == l = [f \in LedgerFields |-> l[f]]

LedgerTyped(l) ==
  /\ l.entries \in Seq(Entry) /\ l.stack \in [Keys -> Seq(Nat)] /\ l.intents \in Seq(Intent)
  /\ l.realized \in Int /\ l.exposure \in Int /\ l.since \in Int
  /\ l.cycle \in BOOLEAN /\ l.roll \in Nat

\* A ledger is one that has the fields, each of its type.
LEMMA LedgerIs ==
  ASSUME NEW l PROVE l \in Ledger <=> LedgerFormed(l) /\ LedgerTyped(l)
<1>1. l \in Ledger => LedgerFormed(l) /\ LedgerTyped(l)
  BY DEF Ledger, LedgerFormed, LedgerTyped, LedgerFields
<1>2. LedgerFormed(l) /\ LedgerTyped(l) => l \in Ledger
  BY DEF Ledger, LedgerFormed, LedgerTyped, LedgerFields
<1> QED BY <1>1, <1>2

\* What the ledger's parts are to each other.
Kept(l) ==
  /\ Stacked(l.entries, l.stack)
  /\ Keyed(l.entries)
  /\ Summed(l.entries, l.exposure, l.realized)
  /\ Paired(l.entries, l.intents)

LedgerOK(l) == LedgerFormed(l) /\ LedgerTyped(l) /\ Kept(l)

\* The names and the keys of a mention.
LEMMA MentionKeys ==
  ASSUME NEW m \in Mentions
  PROVE  Canon(m) \in Names /\ LifoKey(m) \in Keys /\ LifoKey(m)[1] = Canon(m)
         /\ m.number \in Numbers
BY DEF Names, Keys, LifoKey, Numbers

\* The empty ledger.
LEMMA NewLedgerOK ==
  LedgerOK(NewLedger({LifoKey(m) : m \in Mentions}))
<1> DEFINE l == NewLedger({LifoKey(m) : m \in Mentions})
<1>1. /\ l.entries = <<>> /\ l.stack = [k \in Keys |-> <<>>] /\ l.intents = <<>>
      /\ l.realized = 0 /\ l.exposure = 0 /\ l.since = 0 /\ l.cycle = FALSE /\ l.roll = 0
  BY DEF NewLedger, Keys
<1>2. LedgerFormed(l)
  BY DEF NewLedger, LedgerFormed, LedgerFields
<1> HIDE DEF l
<1>3. LedgerTyped(l)
  <2>1. <<>> \in Seq(Entry) /\ <<>> \in Seq(Intent) /\ <<>> \in Seq(Nat)
    OBVIOUS
  <2>2. [k \in Keys |-> <<>>] \in [Keys -> Seq(Nat)]
    BY <2>1
  <2>3. l.entries \in Seq(Entry) /\ l.intents \in Seq(Intent) /\ l.stack \in [Keys -> Seq(Nat)]
    BY <1>1, <2>1, <2>2
  <2>4. l.realized \in Int /\ l.exposure \in Int /\ l.since \in Int
    BY <1>1
  <2>5. l.cycle \in BOOLEAN /\ l.roll \in Nat
    <3>1. l.cycle = FALSE /\ l.roll = 0
      BY <1>1
    <3>2. l.cycle \in BOOLEAN
      BY <3>1
    <3> QED BY <3>1, <3>2
  <2> QED BY <2>3, <2>4, <2>5 DEF LedgerTyped
<1>4. Summed(<<>>, 0, 0)
  <2>1. Len(<<>>) = 0 /\ 0 \in Nat /\ \A k \in 1..0 : FALSE
    OBVIOUS
  <2>2. SumTo(Stakes(<<>>), 0) = 0 /\ SumTo(Results(<<>>), 0) = 0
    BY <2>1, SumZero
  <2> QED BY <2>1, <2>2 DEF Summed
<1>5. Stacked(l.entries, l.stack) /\ Keyed(l.entries) /\ Paired(l.entries, l.intents)
  BY <1>1 DEF Stacked, Keyed, Paired
<1>6. LedgerOK(l)
  BY <1>1, <1>2, <1>3, <1>4, <1>5 DEF LedgerOK, Kept
<1> QED BY <1>6 DEF l

\* create_intent.
LEMMA IntendedOK ==
  ASSUME NEW l, LedgerOK(l), NEW m \in Mentions PROVE LedgerOK(Intended(l, m))
<1> DEFINE it == [bet |-> Canon(m), number |-> m.number, status |-> "open", entry |-> 0]
           r == [l EXCEPT !.intents = Append(@, it)]
<1>1. Intended(l, m) = r
  BY DEF Intended
<1>2. it \in Intent /\ it.status = "open"
  BY MentionKeys DEF Intent
<1> HIDE DEF it
<1>3. LedgerFormed(l) /\ LedgerTyped(l) /\ Kept(l)
  BY DEF LedgerOK
<1>4. LedgerFormed(r)
  BY <1>3 DEF LedgerFormed, LedgerFields
<1>5. /\ r.entries = l.entries /\ r.stack = l.stack /\ r.intents = Append(l.intents, it)
      /\ r.realized = l.realized /\ r.exposure = l.exposure /\ r.since = l.since
      /\ r.cycle = l.cycle /\ r.roll = l.roll
  BY <1>3 DEF LedgerFormed, LedgerFields
<1> HIDE DEF r
<1>6. Append(l.intents, it) \in Seq(Intent) /\ Paired(l.entries, Append(l.intents, it))
  BY <1>2, <1>3, IntendedPaired DEF LedgerTyped, Kept
<1>7. LedgerOK(r)
  BY <1>3, <1>4, <1>5, <1>6 DEF LedgerOK, LedgerTyped, Kept
<1> QED BY <1>1, <1>7

\* cancel_intent.
LEMMA CanceledOK ==
  ASSUME NEW l, LedgerOK(l), NEW i \in DOMAIN l.intents PROVE LedgerOK(Canceled(l, i))
<1> DEFINE ints == [l.intents EXCEPT ![i].status = IF @ = "open" THEN "canceled" ELSE @]
           r == [l EXCEPT !.intents = ints]
<1>1. Canceled(l, i) = r
  BY DEF Canceled
<1>3. LedgerFormed(l) /\ LedgerTyped(l) /\ Kept(l)
  BY DEF LedgerOK
<1>2. i \in 1..Len(l.intents)
  BY <1>3 DEF LedgerTyped
<1>6. ints \in Seq(Intent) /\ Paired(l.entries, ints)
  BY <1>2, <1>3, CanceledPaired DEF LedgerTyped, Kept
<1> HIDE DEF ints
<1>4. LedgerFormed(r)
  BY <1>3 DEF LedgerFormed, LedgerFields
<1>5. /\ r.entries = l.entries /\ r.stack = l.stack /\ r.intents = ints
      /\ r.realized = l.realized /\ r.exposure = l.exposure /\ r.since = l.since
      /\ r.cycle = l.cycle /\ r.roll = l.roll
  BY <1>3 DEF LedgerFormed, LedgerFields
<1> HIDE DEF r
<1>7. LedgerOK(r)
  BY <1>3, <1>4, <1>5, <1>6 DEF LedgerOK, LedgerTyped, Kept
<1> QED BY <1>1, <1>7

\* begin_point_cycle, end_point_cycle and touch_roll.
LEMMA CycleOK ==
  ASSUME NEW l, LedgerOK(l), NEW on \in BOOLEAN, NEW roll \in Nat
  PROVE  LedgerOK(PointCycle(l, on)) /\ LedgerOK(Touched(l, roll))
<1> DEFINE r == PointCycle(l, on)
           q == Touched(l, roll)
<1>3. LedgerFormed(l) /\ LedgerTyped(l) /\ Kept(l)
  BY DEF LedgerOK
<1>4. LedgerFormed(r) /\ LedgerFormed(q)
  BY <1>3 DEF LedgerFormed, LedgerFields, PointCycle, Touched
<1>5. /\ r.entries = l.entries /\ r.stack = l.stack /\ r.intents = l.intents
      /\ r.realized = l.realized /\ r.exposure = l.exposure /\ r.since = 0
      /\ r.cycle = on /\ r.roll = l.roll
  BY <1>3 DEF LedgerFormed, LedgerFields, PointCycle
<1>6. /\ q.entries = l.entries /\ q.stack = l.stack /\ q.intents = l.intents
      /\ q.realized = l.realized /\ q.exposure = l.exposure /\ q.since = l.since
      /\ q.cycle = l.cycle /\ q.roll = roll
  BY <1>3 DEF LedgerFormed, LedgerFields, Touched
<1> HIDE DEF r, q
<1>7. LedgerOK(r)
  BY <1>3, <1>4, <1>5 DEF LedgerOK, LedgerTyped, Kept
<1>8. LedgerOK(q)
  BY <1>3, <1>4, <1>6 DEF LedgerOK, LedgerTyped, Kept
<1> QED BY <1>7, <1>8 DEF r, q

\* place.
LEMMA PlacedOK ==
  ASSUME NEW l, LedgerOK(l), NEW m \in Mentions, NEW amount \in Amounts, NEW intent \in Nat
  PROVE  LedgerOK(Placed(l, m, amount, intent))
<1> DEFINE id == Len(l.entries) + 1
           i == IF intent # 0 THEN intent ELSE Nearest(l, m)
           e == [bet |-> Canon(m), key |-> LifoKey(m), amount |-> amount, open |-> TRUE,
                 pnl |-> 0, intent |-> intent, opened |-> l.roll, closed |-> 0]
           ints == Marked(l.intents, i, id)
           en == Append(l.entries, e)
           k == LifoKey(m)
           st == [l.stack EXCEPT ![k] = Append(@, id)]
           r == [l EXCEPT !.intents = ints, !.entries = en, !.stack[k] = Append(@, id),
                          !.exposure = @ + amount]
<1>1. Placed(l, m, amount, intent) = r
  BY DEF Placed
<1>2. LedgerFormed(l) /\ LedgerTyped(l) /\ Kept(l)
  BY DEF LedgerOK
<1>a. l.entries \in Seq(Entry) /\ l.stack \in [Keys -> Seq(Nat)] /\ l.intents \in Seq(Intent)
      /\ l.roll \in Nat /\ l.exposure \in Int /\ l.realized \in Int
  BY <1>2 DEF LedgerTyped
<1>3. /\ e \in Entry /\ e.open /\ e.key = k /\ e.amount = amount /\ e.intent = intent
      /\ e.bet = Canon(m)
  BY <1>a, MentionKeys DEF Entry
<1>b. k \in Keys /\ k[1] = Canon(m) /\ amount \in Int /\ id \in Nat
  <2>1. amount \in Int
    BY AccountsConstants
  <2> QED BY <1>a, <2>1, MentionKeys
<1>4. i \in Nat /\ (e.intent = i \/ (e.intent = 0 /\ (i \in 1..Len(l.intents) => l.intents[i].bet = e.bet)))
  <2>1. Nearest(l, m) = 0 \/ (Nearest(l, m) \in 1..Len(l.intents) /\ l.intents[Nearest(l, m)].bet = Canon(m))
    BY <1>a, NearestIs
  <2>2. Nearest(l, m) \in Nat
    BY <2>1
  <2>3. CASE intent # 0
    BY <1>3, <2>3
  <2>4. CASE intent = 0
    BY <1>3, <2>1, <2>2, <2>4
  <2> QED BY <2>3, <2>4
<1> HIDE DEF i, e
<1>5. ints \in Seq(Intent) /\ Paired(en, ints)
  BY <1>2, <1>3, <1>4, <1>a, MarkedPaired DEF Kept
<1>6. Stacked(en, st)
  BY <1>2, <1>3, <1>a, PlacedEntry DEF Kept
<1>7. Summed(en, l.exposure + amount, l.realized)
  BY <1>2, <1>3, <1>a, PlacedSummed DEF Kept
<1>8. en \in Seq(Entry) /\ Keyed(en)
  <2>1. /\ en \in Seq(Entry) /\ Len(en) = Len(l.entries) + 1 /\ en[Len(l.entries) + 1] = e
        /\ \A x \in 1..Len(l.entries) : en[x] = l.entries[x]
    BY <1>3, <1>a, AppendProperties
  <2>2. \A x \in 1..Len(l.entries) : l.entries[x].key[1] = l.entries[x].bet
    BY <1>2 DEF Kept, Keyed
  <2>3. e.key[1] = e.bet
    BY <1>3, <1>b
  <2> HIDE DEF en
  <2>4. ASSUME NEW x \in 1..Len(en) PROVE en[x].key[1] = en[x].bet
    <3>1. x \in 1..Len(l.entries) \/ x = Len(l.entries) + 1
      BY <1>a, <2>1
    <3> QED BY <2>1, <2>2, <2>3, <3>1
  <2> QED BY <2>1, <2>4 DEF Keyed
<1>9. st \in [Keys -> Seq(Nat)]
  <2>1. Append(l.stack[k], id) \in Seq(Nat)
    BY <1>a, <1>b, AppendProperties
  <2> QED BY <1>a, <1>b, <2>1
<1> HIDE DEF ints, en, id, k
<1>c. LedgerFormed(r)
  BY <1>2 DEF LedgerFormed, LedgerFields
<1>d. /\ r.entries = en /\ r.stack = st /\ r.intents = ints
      /\ r.realized = l.realized /\ r.exposure = l.exposure + amount /\ r.since = l.since
      /\ r.cycle = l.cycle /\ r.roll = l.roll
  BY <1>2 DEF LedgerFormed, LedgerFields
<1> HIDE DEF r, st
<1>e. l.exposure + amount \in Int
  BY <1>a, <1>b
<1>f. LedgerOK(r)
  <2>1. LedgerTyped(r)
    BY <1>2, <1>5, <1>8, <1>9, <1>d, <1>e DEF LedgerTyped
  <2>2. Kept(r)
    BY <1>5, <1>6, <1>7, <1>8, <1>d DEF Kept
  <2> QED BY <1>c, <2>1, <2>2 DEF LedgerOK
<1> QED BY <1>1, <1>f

\* An entry that is closed, in its place.
Shut(en, id, pnl, roll) ==
  [en EXCEPT ![id] = [@ EXCEPT !.open = FALSE, !.pnl = pnl, !.closed = roll]]

\* Only that entry changes: it is closed, with its result.
IsShut(new, en, id, pnl) ==
  /\ new \in Seq(Entry) /\ Len(new) = Len(en)
  /\ \A k \in 1..Len(en) : k # id => new[k] = en[k]
  /\ ~new[id].open /\ new[id].pnl = pnl
  /\ \A k \in 1..Len(en) :
       /\ new[k].key = en[k].key /\ new[k].bet = en[k].bet /\ new[k].intent = en[k].intent
       /\ new[k].open => en[k].open

\* What shutting an entry does.
LEMMA ShutIs ==
  ASSUME NEW en \in Seq(Entry), NEW id \in 1..Len(en), NEW pnl \in Int, NEW roll \in Nat
  PROVE  IsShut(Shut(en, id, pnl, roll), en, id, pnl)
<1> DEFINE e == [en[id] EXCEPT !.open = FALSE, !.pnl = pnl, !.closed = roll]
           en2 == [en EXCEPT ![id] = e]
<1>1. Shut(en, id, pnl, roll) = en2
  BY DEF Shut
<1>2. en[id] \in Entry
  OBVIOUS
<1>3. /\ e \in Entry /\ ~e.open /\ e.pnl = pnl /\ e.key = en[id].key /\ e.bet = en[id].bet
      /\ e.intent = en[id].intent
  BY <1>2 DEF Entry
<1> HIDE DEF e
<1>4. /\ en2 \in Seq(Entry) /\ Len(en2) = Len(en) /\ en2[id] = e
      /\ \A k \in 1..Len(en) : k # id => en2[k] = en[k]
  BY <1>3
<1> HIDE DEF en2
<1>5. IsShut(en2, en, id, pnl)
  BY <1>3, <1>4 DEF IsShut
<1> QED BY <1>1, <1>5

\* What closing does to the fields.
LEMMA ClosedFields ==
  ASSUME NEW l, LedgerFormed(l), LedgerTyped(l), NEW id \in 1..Len(l.entries), NEW payout \in Int
  PROVE  LET c == Closed(l, id, payout)
             pnl == payout - l.entries[id].amount
         IN  /\ LedgerFormed(c) /\ LedgerTyped(c)
             /\ c.entries = Shut(l.entries, id, pnl, l.roll)
             /\ c.stack = l.stack /\ c.intents = l.intents
             /\ c.exposure = l.exposure - l.entries[id].amount
             /\ c.realized = l.realized + pnl
             /\ pnl \in Int
<1> DEFINE pnl == payout - l.entries[id].amount
           en == Shut(l.entries, id, pnl, l.roll)
           c == [l EXCEPT
                   !.entries[id] = [@ EXCEPT !.open = FALSE, !.pnl = pnl, !.closed = l.roll],
                   !.exposure = @ - l.entries[id].amount,
                   !.realized = @ + pnl,
                   !.since = IF l.cycle THEN @ + pnl ELSE @]
<1>1. Closed(l, id, payout) = c
  BY DEF Closed
<1>2. l.entries \in Seq(Entry) /\ l.roll \in Nat /\ l.exposure \in Int /\ l.realized \in Int
      /\ l.since \in Int
  BY DEF LedgerTyped
<1>3. l.entries[id].amount \in Int /\ pnl \in Int
  <2>1. l.entries[id] \in Entry
    BY <1>2
  <2> QED BY <2>1, EntryFields
<1> HIDE DEF pnl
<1>4. /\ LedgerFormed(c)
      /\ c.entries = en /\ c.stack = l.stack /\ c.intents = l.intents
      /\ c.exposure = l.exposure - l.entries[id].amount
      /\ c.realized = l.realized + pnl
      /\ c.since = (IF l.cycle THEN l.since + pnl ELSE l.since)
      /\ c.cycle = l.cycle /\ c.roll = l.roll
  BY DEF LedgerFormed, LedgerFields, Shut
<1>5. en \in Seq(Entry)
  BY <1>2, <1>3, ShutIs DEF IsShut
<1>6. /\ l.exposure - l.entries[id].amount \in Int /\ l.realized + pnl \in Int
      /\ l.since + pnl \in Int
  BY <1>2, <1>3
<1> HIDE DEF en, c
<1>7. LedgerTyped(c)
  BY <1>2, <1>4, <1>5, <1>6 DEF LedgerTyped
<1> QED BY <1>1, <1>3, <1>4, <1>7 DEF en, pnl

\* An open entry is closed.
LEMMA ClosedOK ==
  ASSUME NEW l, LedgerOK(l), NEW id \in 1..Len(l.entries), l.entries[id].open, NEW payout \in Int
  PROVE  LedgerOK(Closed(l, id, payout)) /\ ~Closed(l, id, payout).entries[id].open
<1> DEFINE c == Closed(l, id, payout)
           pnl == payout - l.entries[id].amount
           en == Shut(l.entries, id, pnl, l.roll)
<1>1. LedgerFormed(l) /\ LedgerTyped(l) /\ Kept(l)
  BY DEF LedgerOK
<1>2. /\ LedgerFormed(c) /\ LedgerTyped(c)
      /\ c.entries = en /\ c.stack = l.stack /\ c.intents = l.intents
      /\ c.exposure = l.exposure - l.entries[id].amount
      /\ c.realized = l.realized + pnl
      /\ pnl \in Int
  BY <1>1, ClosedFields
<1> HIDE DEF c, pnl
<1>3. l.entries \in Seq(Entry) /\ l.roll \in Nat /\ l.exposure \in Int /\ l.realized \in Int
  BY <1>1 DEF LedgerTyped
<1>4. /\ en \in Seq(Entry) /\ Len(en) = Len(l.entries)
      /\ \A k \in 1..Len(l.entries) : k # id => en[k] = l.entries[k]
      /\ ~en[id].open /\ en[id].pnl = pnl
      /\ \A k \in 1..Len(l.entries) :
           /\ en[k].key = l.entries[k].key /\ en[k].bet = l.entries[k].bet
           /\ en[k].intent = l.entries[k].intent
           /\ en[k].open => l.entries[k].open
  <2>1. IsShut(en, l.entries, id, pnl)
    BY <1>2, <1>3, ShutIs
  <2> HIDE DEF en
  <2> QED BY <2>1 DEF IsShut
<1> HIDE DEF en
<1>5. Stacked(en, l.stack)
  BY <1>1, <1>4, ClosedStacked DEF Kept
<1>6. Paired(en, l.intents)
  BY <1>1, <1>4, ClosedPaired DEF Kept
<1>7. Keyed(en)
  BY <1>1, <1>4 DEF Kept, Keyed
<1>8. Summed(en, l.exposure - l.entries[id].amount, l.realized + pnl)
  <2>1. Summed(l.entries, l.exposure, l.realized)
    BY <1>1 DEF Kept
  <2> QED BY <1>3, <1>4, <2>1, ClosedSummed
<1>9. Kept(c)
  BY <1>2, <1>5, <1>6, <1>7, <1>8 DEF Kept
<1> QED BY <1>2, <1>4, <1>9 DEF LedgerOK, c

\* A closed entry's id is popped.
LEMMA PoppedOK ==
  ASSUME NEW l, LedgerOK(l), NEW k \in Keys, l.stack[k] # <<>>,
         ~l.entries[Last(l.stack[k])].open
  PROVE  LedgerOK([l EXCEPT !.stack[k] = Front(@)])
<1> DEFINE st == [l.stack EXCEPT ![k] = Front(@)]
           r == [l EXCEPT !.stack[k] = Front(@)]
<1>1. LedgerFormed(l) /\ LedgerTyped(l) /\ Kept(l)
  BY DEF LedgerOK
<1>2. st \in [Keys -> Seq(Nat)] /\ Stacked(l.entries, st)
  BY <1>1, PoppedStacked DEF LedgerTyped, Kept
<1>3. LedgerFormed(r)
  BY <1>1 DEF LedgerFormed, LedgerFields
<1>4. /\ r.entries = l.entries /\ r.stack = st /\ r.intents = l.intents
      /\ r.realized = l.realized /\ r.exposure = l.exposure /\ r.since = l.since
      /\ r.cycle = l.cycle /\ r.roll = l.roll
  BY <1>1 DEF LedgerFormed, LedgerFields
<1> HIDE DEF r, st
<1>5. LedgerOK(r)
  BY <1>1, <1>2, <1>3, <1>4 DEF LedgerOK, LedgerTyped, Kept
<1> QED BY <1>5 DEF r

\* Taking a number off a stack and closing an entry touch different fields.
LEMMA ClosedThenPopped ==
  ASSUME NEW l, LedgerFormed(l), NEW id, NEW payout, NEW s
  PROVE  Closed([l EXCEPT !.stack = s], id, payout) = [Closed(l, id, payout) EXCEPT !.stack = s]
<1> DEFINE pnl == payout - l.entries[id].amount
           en == [l.entries EXCEPT ![id] = [@ EXCEPT !.open = FALSE, !.pnl = pnl, !.closed = l.roll]]
           ex == l.exposure - l.entries[id].amount
           re == l.realized + pnl
           si == IF l.cycle THEN l.since + pnl ELSE l.since
           p == [l EXCEPT !.stack = s]
<1>1. /\ p.entries = l.entries /\ p.exposure = l.exposure /\ p.realized = l.realized
      /\ p.since = l.since /\ p.cycle = l.cycle /\ p.roll = l.roll
  BY DEF LedgerFormed, LedgerFields
<1>2. Closed(l, id, payout) = [l EXCEPT !.entries = en, !.exposure = ex, !.realized = re, !.since = si]
  BY DEF Closed
<1> HIDE DEF p
<1>3. Closed(p, id, payout) = [p EXCEPT !.entries = en, !.exposure = ex, !.realized = re, !.since = si]
  BY <1>1 DEF Closed
<1> HIDE DEF pnl, en, ex, re, si
<1>4. [p EXCEPT !.entries = en, !.exposure = ex, !.realized = re, !.since = si]
        = [[l EXCEPT !.entries = en, !.exposure = ex, !.realized = re, !.since = si] EXCEPT !.stack = s]
  BY DEF p, LedgerFormed, LedgerFields
<1> QED BY <1>2, <1>3, <1>4 DEF p

\* resolve.
LEMMA ResolvedOK ==
  ASSUME NEW l, LedgerOK(l), NEW m \in Mentions, NEW payout \in Int, NEW id \in Nat
  PROVE  LedgerOK(Resolved(l, m, payout, id))
<1>1. LedgerFormed(l) /\ LedgerTyped(l) /\ Kept(l)
  BY DEF LedgerOK
<1>2. l.entries \in Seq(Entry) /\ l.stack \in [Keys -> Seq(Nat)] /\ DOMAIN l.entries = 1..Len(l.entries)
  BY <1>1 DEF LedgerTyped
<1>3. CASE id # 0
  <2>1. CASE id \in DOMAIN l.entries /\ l.entries[id].open
    <3>1. Resolved(l, m, payout, id) = Closed(l, id, payout)
      BY <1>3, <2>1 DEF Resolved
    <3> QED BY <1>2, <2>1, <3>1, ClosedOK
  <2>2. CASE ~(id \in DOMAIN l.entries /\ l.entries[id].open)
    BY <1>3, <2>2 DEF Resolved
  <2> QED BY <2>1, <2>2
<1>4. CASE id = 0
  <2> DEFINE k == LifoKey(m)
             top == Last(l.stack[k])
             popped == [l EXCEPT !.stack[k] = Front(@)]
             c == Closed(l, top, payout)
             d == Closed(popped, top, payout)
             r == [c EXCEPT !.stack[k] = Front(@)]
  <2>1. CASE l.stack[k] = <<>>
    BY <1>4, <2>1 DEF Resolved
  <2>2. CASE l.stack[k] # <<>>
    <3>1. k \in Keys
      BY MentionKeys
    <3>2. top \in 1..Len(l.entries)
      <4>1. l.stack[k] \in Seq(Nat) /\ Len(l.stack[k]) \in 1..Len(l.stack[k])
        <5>1. l.stack[k] \in Seq(Nat)
          BY <1>2, <3>1
        <5>2. Len(l.stack[k]) \in Nat /\ Len(l.stack[k]) # 0
          BY <2>2, <5>1, EmptySeq
        <5> QED BY <5>1, <5>2
      <4>2. top = l.stack[k][Len(l.stack[k])]
        BY DEF Last
      <4> QED BY <1>1, <3>1, <4>1, <4>2 DEF Kept, Stacked
    <3>3. Resolved(l, m, payout, id) = IF l.entries[top].open THEN d ELSE popped
      <4>1. popped.stack = [l.stack EXCEPT ![k] = Front(@)]
        BY <1>1 DEF LedgerFormed, LedgerFields
      <4> QED BY <1>4, <2>2 DEF Resolved
    <3>4. CASE ~l.entries[top].open
      BY <2>2, <3>1, <3>3, <3>4, PoppedOK
    <3>5. CASE l.entries[top].open
      <4>1. LedgerOK(c) /\ ~c.entries[top].open
        BY <3>2, <3>5, ClosedOK
      <4>2. c.stack = l.stack
        BY <1>1, <3>2, ClosedFields
      <4>3. d = r
        <5> DEFINE st == [l.stack EXCEPT ![k] = Front(@)]
        <5>1. popped = [l EXCEPT !.stack = st]
          <6> HIDE DEF k
          <6> QED BY <1>1 DEF LedgerFormed, LedgerFields
        <5> HIDE DEF popped, st
        <5>2. Closed([l EXCEPT !.stack = st], top, payout) = [c EXCEPT !.stack = st]
          <6> HIDE DEF top
          <6> QED BY <1>1, ClosedThenPopped, SMTT(30) DEF c
        <5>3. d = [c EXCEPT !.stack = st]
          BY <5>1, <5>2 DEF d
        <5>4. [c EXCEPT !.stack = st] = r
          <6> HIDE DEF c, d
          <6>1. r = [c EXCEPT !.stack[k] = Front(@)]
            BY DEF r
          <6> QED BY <4>2, <6>1 DEF st
        <5> QED BY <5>3, <5>4
      <4> HIDE DEF c, d
      <4>5. LedgerOK(r)
        BY <2>2, <3>1, <4>1, <4>2, PoppedOK
      <4> QED BY <3>3, <3>5, <4>3, <4>5
    <3> QED BY <3>4, <3>5
  <2> QED BY <2>1, <2>2
<1> QED BY <1>3, <1>4

---------------------------------------------------------------------------
(* The attribution's records.                                              *)

\* No more are open than were at once, and no more were at once than were placed.
StatOK(s) == s \in Stat /\ s.open <= s.peak /\ s.peak <= s.placed

StatFields ==
  {"placed", "resolved", "wins", "losses", "pushes", "staked", "pnl", "exposure", "peak", "open"}

StatFormed(s) == s = [f \in StatFields |-> s[f]]

\* A record is one that has the fields, each of its type.
LEMMA StatIs ==
  ASSUME NEW s
  PROVE  s \in Stat <=>
           /\ StatFormed(s)
           /\ s.placed \in Nat /\ s.resolved \in Nat /\ s.wins \in Nat /\ s.losses \in Nat
           /\ s.pushes \in Nat /\ s.staked \in Nat /\ s.pnl \in Int /\ s.exposure \in Nat
           /\ s.peak \in Nat /\ s.open \in Nat
BY DEF Stat, StatFormed, StatFields

\* A record's operations keep that.
LEMMA StatsOK ==
  /\ StatOK(NewStats)
  /\ \A s : StatOK(s) => StatOK(StatCleared(s)) /\ StatOK(StatRolled(s))
  /\ \A s, amount : StatOK(s) /\ amount \in Amounts => StatOK(StatPlaced(s, amount))
  /\ \A s, outcome, pnl : StatOK(s) /\ pnl \in Int => StatOK(StatResolved(s, outcome, pnl))
<1>1. StatOK(NewStats)
  BY DEF StatOK, NewStats, Stat
<1>2. ASSUME NEW s, StatOK(s) PROVE StatOK(StatCleared(s))
  BY <1>2 DEF StatOK, StatCleared, Stat
<1>3. ASSUME NEW s, StatOK(s) PROVE StatOK(StatRolled(s))
  BY <1>3 DEF StatOK, StatRolled, Stat
<1>4. ASSUME NEW s, NEW amount \in Amounts, StatOK(s) PROVE StatOK(StatPlaced(s, amount))
  <2>1. amount \in Nat
    BY AccountsConstants
  <2> DEFINE r == StatPlaced(s, amount)
  <2>2. s \in Stat /\ s.open <= s.peak /\ s.peak <= s.placed
    BY <1>4 DEF StatOK
  <2>a. StatFormed(s)
    BY <2>2, StatIs
  <2>5. /\ s.placed \in Nat /\ s.resolved \in Nat /\ s.wins \in Nat /\ s.losses \in Nat
        /\ s.pushes \in Nat /\ s.staked \in Nat /\ s.pnl \in Int /\ s.exposure \in Nat
        /\ s.peak \in Nat /\ s.open \in Nat
    BY <2>2, StatIs
  <2>b. StatFormed(r)
    BY <2>a DEF StatPlaced, StatFormed, StatFields
  <2>4. /\ r.open = s.open + 1 /\ r.placed = s.placed + 1 /\ r.staked = s.staked + amount
        /\ r.peak = (IF s.open + 1 > s.peak THEN s.open + 1 ELSE s.peak)
        /\ r.resolved = s.resolved /\ r.wins = s.wins /\ r.losses = s.losses
        /\ r.pushes = s.pushes /\ r.pnl = s.pnl /\ r.exposure = s.exposure
    BY <2>a DEF StatPlaced, StatFormed, StatFields
  <2> HIDE DEF r
  <2>6. r.open <= r.peak /\ r.peak <= r.placed
    BY <2>2, <2>4, <2>5
  <2>c. r.open \in Nat /\ r.placed \in Nat /\ r.staked \in Nat /\ r.peak \in Nat
    BY <2>1, <2>4, <2>5
  <2>3. r \in Stat
    BY <2>b, <2>c, <2>4, <2>5, StatIs
  <2> QED BY <2>3, <2>6 DEF StatOK, r
<1>5. ASSUME NEW s, NEW outcome, NEW pnl \in Int, StatOK(s)
      PROVE  StatOK(StatResolved(s, outcome, pnl))
  <2> DEFINE q == StatCleared(s)
             w == IF outcome = "win" THEN 1 ELSE 0
             b == IF outcome = "loss" THEN 1 ELSE 0
             p == IF outcome = "push" THEN 1 ELSE 0
             r == [q EXCEPT !.resolved = @ + 1, !.pnl = @ + pnl, !.wins = @ + w, !.losses = @ + b,
                            !.pushes = @ + p]
  <2>1. StatOK(q)
    BY <1>2, <1>5
  <2>2. StatResolved(s, outcome, pnl) = r
    BY DEF StatResolved
  <2>3. w \in Nat /\ b \in Nat /\ p \in Nat
    OBVIOUS
  <2> HIDE DEF q, w, b, p
  <2>4. q \in Stat /\ q.open <= q.peak /\ q.peak <= q.placed
    BY <2>1 DEF StatOK
  <2>a. StatFormed(q)
    BY <2>4, StatIs
  <2>7. /\ q.placed \in Nat /\ q.resolved \in Nat /\ q.wins \in Nat /\ q.losses \in Nat
        /\ q.pushes \in Nat /\ q.staked \in Nat /\ q.pnl \in Int /\ q.exposure \in Nat
        /\ q.peak \in Nat /\ q.open \in Nat
    BY <2>4, StatIs
  <2>b. StatFormed(r)
    BY <2>a DEF StatFormed, StatFields
  <2>6. /\ r.open = q.open /\ r.peak = q.peak /\ r.placed = q.placed /\ r.staked = q.staked
        /\ r.exposure = q.exposure /\ r.resolved = q.resolved + 1 /\ r.pnl = q.pnl + pnl
        /\ r.wins = q.wins + w /\ r.losses = q.losses + b /\ r.pushes = q.pushes + p
    BY <2>a DEF StatFormed, StatFields
  <2> HIDE DEF r
  <2>c. /\ r.resolved \in Nat /\ r.pnl \in Int /\ r.wins \in Nat /\ r.losses \in Nat
        /\ r.pushes \in Nat
    BY <2>3, <2>6, <2>7
  <2>5. r \in Stat
    BY <2>b, <2>c, <2>6, <2>7, StatIs
  <2> QED BY <2>2, <2>4, <2>5, <2>6 DEF StatOK
<1> QED BY <1>1, <1>2, <1>3, <1>4, <1>5

---------------------------------------------------------------------------
(* The inductive invariant.                                                *)

Counted ==
  /\ Attached("hist") => tracker.rolls = Sum(hist.hand)
  /\ tracker.since = Sum(tracker.near)
  /\ tracker.pso + (IF due = "out" /\ tracker.since = 1 THEN 1 ELSE 0) = table.straight
  /\ tracker.bank = tracker.hand + SumTo(tracker.log, Len(tracker.log))

IInv ==
  /\ TypeOK
  /\ Kept(ledger)
  /\ Counted
  /\ \A b \in Names : StatOK(stats[b])

\* The ledger of the invariant.
LEMMA LedgerOfIInv == IInv => LedgerOK(ledger)
BY LedgerIs DEF IInv, TypeOK, LedgerOK

\* The logged hands' sum with one more.
LEMMA LogSum ==
  ASSUME NEW log \in Seq(Int), NEW hand \in Int
  PROVE  /\ SumTo(log, Len(log)) \in Int
         /\ SumTo(Append(log, hand), Len(Append(log, hand))) = SumTo(log, Len(log)) + hand
<1> DEFINE n == Len(log)
           log2 == Append(log, hand)
<1>1. /\ n \in Nat /\ Len(log2) = n + 1 /\ log2 \in Seq(Int) /\ log2[n + 1] = hand
      /\ \A k \in 1..n : log2[k] = log[k]
  BY AppendProperties
<1>2. DOMAIN log = 1..n /\ DOMAIN log2 = 1..(n + 1)
  BY <1>1
<1> HIDE DEF n, log2
<1>3. \A k \in 1..n : At(log2, k) = At(log, k) /\ At(log, k) \in Int
  BY <1>1, <1>2 DEF At, n
<1>4. At(log2, n + 1) = hand
  BY <1>1, <1>2 DEF At
<1>5. Whole(log, n) /\ Whole(log2, n + 1)
  <2>1. \A k \in 1..(n + 1) : k \in 1..n \/ k = n + 1
    BY <1>1
  <2> QED BY <1>3, <1>4, <2>1 DEF Whole
<1>6. SumTo(log2, n) = SumTo(log, n)
  BY <1>1, <1>3, <1>5, SumSame
<1>7. SumTo(log2, n + 1) = SumTo(log2, n) + At(log2, n + 1)
  BY <1>1, <1>5, SumLonger
<1>8. SumTo(log, n) \in Int
  BY <1>1, <1>5, SumType
<1> QED BY <1>1, <1>4, <1>6, <1>7, <1>8 DEF n, log2

\* The initial states.
LEMMA InitIInv == Init => IInv
<1> SUFFICES ASSUME Init PROVE IInv
  OBVIOUS
<1>1. /\ tracker \in Tracked /\ tracker.since = 0 /\ tracker.near = NoHits /\ tracker.rolls = 0
      /\ tracker.pso = 0 /\ tracker.bank = 0 /\ tracker.hand = 0 /\ tracker.log = <<>>
  BY NewTrackerType DEF Init
<1>2. ledger \in Ledger /\ Kept(ledger)
  BY NewLedgerOK, LedgerIs DEF Init, LedgerOK
<1>3. stats \in [Names -> Stat] /\ \A b \in Names : StatOK(stats[b])
  BY StatsOK DEF Init, StatOK
<1>4. hist \in [hand : Hits, shooter : Hits] /\ hist.hand = NoHits
  BY SumHits DEF Init
<1>5. table \in [rolls : Nat, straight : Nat] /\ table.straight = 0
  BY DEF Init
<1>6. TypeOK
  BY <1>1, <1>2, <1>3, <1>4, <1>5 DEF TypeOK, Init
<1>7. Counted
  <2>1. SumTo(<<>>, Len(<<>>)) = 0
    <3>1. Len(<<>>) = 0 /\ 0 \in Nat /\ \A k \in 1..0 : FALSE
      OBVIOUS
    <3> QED BY <3>1, SumZero
  <2>2. due = "none"
    BY DEF Init
  <2> QED BY <1>1, <1>4, <1>5, <2>1, <2>2, SumHits DEF Counted
<1> QED BY <1>2, <1>3, <1>6, <1>7 DEF IInv

---------------------------------------------------------------------------
(* The steps.                                                              *)

\* on_roll, through every layer.
LEMMA OnRollStep ==
  ASSUME IInv, NEW total \in Totals, OnRoll(total) PROVE IInv'
<1> DEFINE wrapped == IF Attached("hist") THEN [tracker EXCEPT !.hits[total] = @ + 1] ELSE tracker
<1>1. TypeOK /\ Kept(ledger) /\ Counted /\ LedgerOK(ledger) /\ \A b \in Names : StatOK(stats[b])
  BY LedgerOfIInv DEF IInv
<1>2. tracker \in Tracked /\ Formed(tracker) /\ Typed(tracker)
  BY <1>1, TrackedIs DEF TypeOK
<1>3. /\ wrapped \in Tracked /\ wrapped.rolls = tracker.rolls /\ wrapped.since = tracker.since
      /\ wrapped.near = tracker.near /\ wrapped.point = tracker.point
      /\ wrapped.pso = tracker.pso /\ wrapped.bank = tracker.bank
      /\ wrapped.hand = tracker.hand /\ wrapped.log = tracker.log
  <2>1. CASE Attached("hist")
    <3> DEFINE r == [tracker EXCEPT !.hits[total] = @ + 1]
    <3>1. [tracker.hits EXCEPT ![total] = @ + 1] \in Hits
      BY <1>2, HitType DEF Typed
    <3>2. Formed(r)
      BY <1>2 DEF Formed, TrackedFields
    <3>3. Typed(r)
      BY <1>2, <3>1 DEF Formed, Typed, TrackedFields
    <3>4. /\ r.rolls = tracker.rolls /\ r.since = tracker.since
          /\ r.near = tracker.near /\ r.point = tracker.point /\ r.pso = tracker.pso
          /\ r.bank = tracker.bank /\ r.hand = tracker.hand /\ r.log = tracker.log
      BY <1>2 DEF Formed, TrackedFields
    <3>5. wrapped = r
      BY <2>1
    <3> HIDE DEF r, wrapped
    <3> QED BY <3>2, <3>3, <3>4, <3>5, TrackedIs
  <2>2. CASE ~Attached("hist")
    BY <1>2, <2>2
  <2> QED BY <2>1, <2>2
<1>4. tracker' = Rolled(wrapped, total)
  BY DEF OnRoll
<1> HIDE DEF wrapped
<1>5. /\ tracker' \in Tracked /\ tracker'.rolls = tracker.rolls + 1
      /\ tracker.point = 0 => tracker'.since = tracker.since /\ tracker'.near = tracker.near
      /\ tracker.point # 0 => /\ tracker'.since = tracker.since + 1
                              /\ tracker'.near = [tracker.near EXCEPT ![total] = @ + 1]
      /\ tracker'.pso = tracker.pso /\ tracker'.bank = tracker.bank
      /\ tracker'.hand = tracker.hand /\ tracker'.log = tracker.log
  BY <1>3, <1>4, RolledType
<1>6. LedgerOK(ledger)'
  <2>1. tracker.rolls \in Nat
    BY <1>2 DEF Typed
  <2>2. ledger' = IF Attached("ledger") THEN Touched(ledger, tracker.rolls) ELSE ledger
    BY DEF OnRoll
  <2>3. LedgerOK(Touched(ledger, tracker.rolls))
    BY <1>1, <2>1, CycleOK
  <2>4. LedgerOK(ledger')
    BY <1>1, <2>2, <2>3
  <2> QED BY <2>4
<1>7. stats' \in [Names -> Stat] /\ \A b \in Names : StatOK(stats'[b])
  <2>1. stats' = IF Attached("attrib") THEN [b \in Names |-> StatRolled(stats[b])] ELSE stats
    BY DEF OnRoll
  <2>2. \A b \in Names : StatOK(StatRolled(stats[b]))
    BY <1>1, StatsOK
  <2>3. stats \in [Names -> Stat]
    BY <1>1 DEF TypeOK
  <2> QED BY <1>1, <2>1, <2>2, <2>3 DEF StatOK
<1>8. /\ hist' \in [hand : Hits, shooter : Hits]
      /\ Attached("hist") => hist'.hand = [hist.hand EXCEPT ![total] = @ + 1]
  <2>1. hist \in [hand : Hits, shooter : Hits] /\ hist.hand \in Hits /\ hist.shooter \in Hits
    BY <1>1 DEF TypeOK
  <2>2. /\ [hist.hand EXCEPT ![total] = @ + 1] \in Hits
        /\ [hist.shooter EXCEPT ![total] = @ + 1] \in Hits
    BY <2>1, HitType
  <2> QED BY <2>1, <2>2 DEF OnRoll
<1>9. /\ layers' = layers /\ due = "none"
      /\ due' = IF tracker.point = 0 THEN IF total \in Boxes THEN "set" ELSE "none"
                ELSE IF total = tracker.point THEN "made" ELSE IF total = 7 THEN "out" ELSE "none"
      /\ events' = events + 1
  BY DEF OnRoll, Counting
<1>a. /\ table'.rolls = table.rolls + 1
      /\ table'.straight = table.straight
           + IF tracker.point # 0 /\ total = 7 /\ Sum(tracker.near) = 0 THEN 1 ELSE 0
      /\ table' \in [rolls : Nat, straight : Nat]
  <2>1. table.rolls \in Nat /\ table.straight \in Nat
    BY <1>1 DEF TypeOK
  <2> QED BY <2>1 DEF OnRoll
<1>b. TypeOK'
  <2>1. layers' \in Stacks /\ due' \in {"none", "set", "made", "out"} /\ events' \in Nat
    BY <1>1, <1>9 DEF TypeOK
  <2>2. ledger' \in Ledger
    BY <1>6, LedgerIs DEF LedgerOK
  <2> QED BY <1>5, <1>7, <1>8, <1>a, <2>1, <2>2 DEF TypeOK
<1>c. Counted'
  <2>1. Attached("hist")' => tracker'.rolls = Sum(hist'.hand)
    <3>1. hist.hand \in Hits
      BY <1>1 DEF TypeOK
    <3>2. Attached("hist") => Sum(hist'.hand) = Sum(hist.hand) + 1
      BY <1>8, <3>1, SumHits
    <3>3. Attached("hist")' <=> Attached("hist")
      BY <1>9 DEF Attached
    <3> QED BY <1>1, <1>5, <3>2, <3>3 DEF Counted
  <2>2. PICK near \in Int : near = Sum(tracker.near) /\ tracker.since = near /\ near \in Nat
    BY <1>1, <1>2, SumHits DEF Counted, Typed
  <2>3. tracker'.since = Sum(tracker'.near)
    <3>1. CASE tracker.point = 0
      BY <1>5, <2>2, <3>1
    <3>2. CASE tracker.point # 0
      <4>1. tracker.near \in Hits
        BY <1>2 DEF Typed
      <4>2. Sum([tracker.near EXCEPT ![total] = @ + 1]) = Sum(tracker.near) + 1
        BY <4>1, SumHits
      <4> QED BY <1>5, <2>2, <3>2, <4>2
    <3> QED BY <3>1, <3>2
  <2>4. tracker'.pso + (IF due' = "out" /\ tracker'.since = 1 THEN 1 ELSE 0) = table'.straight
    <3>1. tracker.pso = table.straight /\ tracker.pso \in Nat /\ table.straight \in Nat
      BY <1>1, <1>2, <1>9, SMTT(30) DEF Counted, TypeOK, Typed
    <3>2. (due' = "out" /\ tracker'.since = 1) <=> (tracker.point # 0 /\ total = 7 /\ near = 0)
      <4>1. tracker.point # 7
        <5>1. tracker.point \in Boxes \cup {0}
          BY <1>2 DEF Typed
        <5>2. tracker.point \in {0, 4, 5, 6, 8, 9, 10}
          BY <5>1 DEF Boxes
        <5> QED BY <5>2
      <4>2. CASE tracker.point = 0
        BY <1>9, <4>2
      <4>3. CASE tracker.point # 0
        <5>1. due' = "out" <=> total = 7
          BY <1>9, <4>1, <4>3
        <5>2. tracker'.since = near + 1
          BY <1>5, <2>2, <4>3
        <5>3. tracker'.since = 1 <=> near = 0
          BY <2>2, <5>2
        <5> QED BY <4>3, <5>1, <5>3
      <4> QED BY <4>2, <4>3
    <3> QED BY <1>5, <1>a, <2>2, <3>1, <3>2
  <2>5. tracker'.bank = tracker'.hand + SumTo(tracker'.log, Len(tracker'.log))
    BY <1>1, <1>5 DEF Counted
  <2> QED BY <2>1, <2>3, <2>4, <2>5 DEF Counted
<1> QED BY <1>6, <1>7, <1>b, <1>c DEF IInv, LedgerOK

\* The hooks of the point: established, made and lost.
LEMMA PointStep ==
  ASSUME IInv, \/ \E p \in Boxes \cap Totals : OnPointEstablished(p)
               \/ OnPointMade
               \/ OnSevenOut
  PROVE  IInv'
<1>1. TypeOK /\ Kept(ledger) /\ Counted /\ LedgerOK(ledger) /\ \A b \in Names : StatOK(stats[b])
  BY LedgerOfIInv DEF IInv
<1>2. tracker \in Tracked /\ Typed(tracker) /\ hist \in [hand : Hits, shooter : Hits]
  BY <1>1, TrackedIs DEF TypeOK
<1>3. layers' = layers /\ stats' = stats /\ events' = events /\ table' = table /\ due' = "none"
  BY DEF OnPointEstablished, OnPointMade, OnSevenOut
<1>4. LedgerOK(ledger')
  <2>1. LedgerOK(PointCycle(ledger, TRUE)) /\ LedgerOK(PointCycle(ledger, FALSE))
    <3>1. 0 \in Nat /\ TRUE \in BOOLEAN /\ FALSE \in BOOLEAN
      OBVIOUS
    <3> QED BY <1>1, <3>1, CycleOK
  <2>2. ledger' \in {ledger, PointCycle(ledger, TRUE), PointCycle(ledger, FALSE)}
    BY DEF OnPointEstablished, OnPointMade, OnSevenOut
  <2> QED BY <1>1, <2>1, <2>2
<1>5. SUFFICES /\ tracker' \in Tracked /\ hist' \in [hand : Hits, shooter : Hits]
               /\ Counted'
  <2>1. ledger' \in Ledger /\ Kept(ledger')
    BY <1>4, LedgerIs DEF LedgerOK
  <2>2. TypeOK'
    BY <1>1, <1>3, <1>5, <2>1 DEF TypeOK
  <2> QED BY <1>1, <1>3, <1>5, <2>1, <2>2 DEF IInv
<1>6. Attached("hist")' <=> Attached("hist")
  BY <1>3 DEF Attached
<1>7. CASE (\E p \in Boxes \cap Totals : OnPointEstablished(p)) \/ OnPointMade
  <2>1. PICK p \in (Boxes \cap Totals) \cup {0} : tracker' = PointIs(tracker, p)
    BY <1>7 DEF OnPointEstablished, OnPointMade
  <2>2. due \in {"set", "made"} /\ hist' = hist
    BY <1>7 DEF OnPointEstablished, OnPointMade
  <2>3. /\ tracker' \in Tracked /\ tracker'.since = 0 /\ tracker'.near = NoHits
        /\ tracker'.rolls = tracker.rolls /\ tracker'.pso = tracker.pso
        /\ tracker'.bank = tracker.bank /\ tracker'.hand = tracker.hand
        /\ tracker'.log = tracker.log
    BY <1>2, <2>1, PointType
  <2>4. tracker.pso = table.straight /\ tracker.pso \in Nat
    BY <1>1, <1>2, <2>2 DEF Counted, Typed
  <2>5. Counted'
    BY <1>1, <1>3, <1>6, <2>2, <2>3, <2>4, SumHits DEF Counted
  <2> QED BY <1>2, <2>2, <2>3, <2>5
<1>8. CASE OnSevenOut
  <2>1. /\ due = "out" /\ tracker' = SevenedOut(tracker)
        /\ hist' = IF Attached("hist") THEN [hist EXCEPT !.hand = NoHits] ELSE hist
    BY <1>8 DEF OnSevenOut
  <2>2. /\ tracker' \in Tracked /\ tracker'.since = 0 /\ tracker'.near = NoHits
        /\ tracker'.rolls = 0
        /\ tracker'.pso = tracker.pso + (IF tracker.since = 1 THEN 1 ELSE 0)
        /\ tracker'.bank = tracker.bank /\ tracker'.hand = 0
        /\ tracker'.log = Append(tracker.log, tracker.hand)
    BY <1>2, <2>1, SevenedType
  <2>3. hist' \in [hand : Hits, shooter : Hits] /\ (Attached("hist") => hist'.hand = NoHits)
    BY <1>2, <2>1, SumHits
  <2>4. tracker'.pso = table.straight /\ tracker'.pso \in Nat
    <3>1. tracker.pso + (IF tracker.since = 1 THEN 1 ELSE 0) = table.straight
      BY <1>1, <2>1 DEF Counted
    <3>2. tracker'.pso \in Nat
      BY <2>2, TrackedIs DEF Typed
    <3> QED BY <2>2, <3>1, <3>2
  <2>5. tracker'.bank = tracker'.hand + SumTo(tracker'.log, Len(tracker'.log))
    <3>1. tracker.log \in Seq(Int) /\ tracker.hand \in Int
      BY <1>2 DEF Typed
    <3>2. PICK s \in Int : s = SumTo(tracker.log, Len(tracker.log))
      BY <3>1, LogSum
    <3>3. SumTo(tracker'.log, Len(tracker'.log)) = s + tracker.hand
      BY <2>2, <3>1, <3>2, LogSum
    <3>4. tracker.bank = tracker.hand + s
      BY <1>1, <3>2 DEF Counted
    <3> QED BY <2>2, <3>1, <3>2, <3>3, <3>4
  <2>6. Counted'
    BY <1>3, <1>6, <2>2, <2>3, <2>4, <2>5, SumHits DEF Counted
  <2> QED BY <2>2, <2>3, <2>6
<1> QED BY <1>7, <1>8

\* on_bankroll_delta.
LEMMA BankrollStep ==
  ASSUME IInv, NEW delta \in Int, OnBankrollDelta(delta) PROVE IInv'
<1>1. TypeOK /\ Kept(ledger) /\ Counted /\ \A b \in Names : StatOK(stats[b])
  BY DEF IInv
<1>2. /\ tracker' = Banked(tracker, delta) /\ events' = events + 1
      /\ UNCHANGED <<layers, due, ledger, stats, hist, table>>
  BY DEF OnBankrollDelta, Counting
<1>3. tracker \in Tracked /\ Typed(tracker)
  BY <1>1, TrackedIs DEF TypeOK
<1>4. /\ tracker' \in Tracked
      /\ tracker'.bank = tracker.bank + delta /\ tracker'.hand = tracker.hand + delta
      /\ tracker'.rolls = tracker.rolls /\ tracker'.since = tracker.since
      /\ tracker'.near = tracker.near /\ tracker'.pso = tracker.pso
      /\ tracker'.log = tracker.log
  BY <1>2, <1>3, BankedType
<1>5. tracker'.bank = tracker'.hand + SumTo(tracker'.log, Len(tracker'.log))
  <2>1. tracker.log \in Seq(Int) /\ tracker.hand \in Int
    BY <1>3 DEF Typed
  <2>2. PICK s \in Int : s = SumTo(tracker.log, Len(tracker.log))
    BY <2>1, LogSum
  <2>3. tracker.bank = tracker.hand + s
    BY <1>1, <2>2 DEF Counted
  <2> QED BY <1>4, <2>1, <2>2, <2>3
<1>6. Counted'
  BY <1>1, <1>2, <1>4, <1>5 DEF Counted, Attached
<1>7. TypeOK'
  BY <1>1, <1>2, <1>4 DEF TypeOK
<1> QED BY <1>1, <1>2, <1>6, <1>7 DEF IInv

\* An event that changes only the ledger and the attribution.
LEMMA BookStep ==
  ASSUME IInv, UNCHANGED <<layers, due, tracker, hist, table>>, events' \in Nat,
         LedgerOK(ledger'), stats' \in [Names -> Stat], \A b \in Names : StatOK(stats'[b])
  PROVE  IInv'
<1>1. ledger' \in Ledger /\ Kept(ledger')
  BY LedgerIs DEF LedgerOK
<1>2. TypeOK'
  BY <1>1 DEF IInv, TypeOK
<1>3. Counted'
  BY DEF IInv, Counted, Attached
<1> QED BY <1>1, <1>2, <1>3 DEF IInv

\* A bet's record is replaced by one that is as it should be.
LEMMA StatReplaced ==
  ASSUME IInv, NEW m \in Mentions, NEW s, StatOK(s)
  PROVE  /\ [stats EXCEPT ![Canon(m)] = s] \in [Names -> Stat]
         /\ \A b \in Names : StatOK([stats EXCEPT ![Canon(m)] = s][b])
<1>1. stats \in [Names -> Stat] /\ Canon(m) \in Names /\ s \in Stat
  BY MentionKeys DEF IInv, TypeOK, StatOK
<1> QED BY <1>1 DEF IInv

\* The events of bets and of intents.
LEMMA BetStep ==
  ASSUME IInv, NEW m \in Mentions,
         \/ \E a \in Amounts, i \in 0..Len(ledger.intents) : OnBetPlaced(m, a, i)
         \/ \E o \in {"win", "loss", "push"}, a \in Amounts, s \in Amounts \cup {0},
               id \in 0..Len(ledger.entries) : OnBetResolved(m, o, a, s, id)
         \/ OnBetCleared(m)
         \/ OnIntentCreated(m)
  PROVE  IInv'
<1>1. LedgerOK(ledger) /\ events \in Nat /\ stats \in [Names -> Stat] /\ Canon(m) \in Names
      /\ \A b \in Names : StatOK(stats[b])
  BY LedgerOfIInv, MentionKeys DEF IInv, TypeOK
<1>2. Amounts \subseteq Nat
  BY AccountsConstants
<1>3. Len(ledger.intents) \in Nat /\ Len(ledger.entries) \in Nat
  BY <1>1 DEF LedgerOK, LedgerTyped
<1>4. ASSUME NEW a \in Amounts, NEW i \in 0..Len(ledger.intents), OnBetPlaced(m, a, i)
      PROVE  IInv'
  <2>1. i \in Nat
    BY <1>3
  <2>2. LedgerOK(Placed(ledger, m, a, i)) /\ StatOK(StatPlaced(stats[Canon(m)], a))
    BY <1>1, <2>1, PlacedOK, StatsOK
  <2>3. /\ ledger' = IF Owner = "ledger" THEN Placed(ledger, m, a, i) ELSE ledger
        /\ stats' = IF Owner = "attrib"
                    THEN [stats EXCEPT ![Canon(m)] = StatPlaced(stats[Canon(m)], a)] ELSE stats
        /\ UNCHANGED <<layers, due, tracker, hist, table>> /\ events' = events + 1
    BY <1>4 DEF OnBetPlaced, Counting
  <2>4. LedgerOK(ledger') /\ events' \in Nat
    BY <1>1, <2>2, <2>3
  <2>5. stats' \in [Names -> Stat] /\ \A b \in Names : StatOK(stats'[b])
    BY <1>1, <2>2, <2>3, StatReplaced
  <2> QED BY <2>3, <2>4, <2>5, BookStep
<1>5. ASSUME NEW o \in {"win", "loss", "push"}, NEW a \in Amounts, NEW s \in Amounts \cup {0},
             NEW id \in 0..Len(ledger.entries), OnBetResolved(m, o, a, s, id)
      PROVE  IInv'
  <2>1. id \in Nat /\ a \in Int /\ a - s \in Int
    BY <1>2, <1>3
  <2>2. LedgerOK(Resolved(ledger, m, a, id)) /\ StatOK(StatResolved(stats[Canon(m)], o, a - s))
    BY <1>1, <2>1, ResolvedOK, StatsOK
  <2>3. /\ ledger' = IF Owner = "ledger" THEN Resolved(ledger, m, a, id) ELSE ledger
        /\ stats' = IF Owner = "attrib"
                    THEN [stats EXCEPT ![Canon(m)] = StatResolved(stats[Canon(m)], o, a - s)] ELSE stats
        /\ UNCHANGED <<layers, due, tracker, hist, table>> /\ events' = events + 1
    BY <1>5 DEF OnBetResolved, Counting
  <2>4. LedgerOK(ledger') /\ events' \in Nat
    BY <1>1, <2>2, <2>3
  <2>5. stats' \in [Names -> Stat] /\ \A b \in Names : StatOK(stats'[b])
    BY <1>1, <2>2, <2>3, StatReplaced
  <2> QED BY <2>3, <2>4, <2>5, BookStep
<1>6. CASE OnBetCleared(m)
  <2>1. StatOK(StatCleared(stats[Canon(m)]))
    BY <1>1, StatsOK
  <2>2. /\ ledger' = ledger /\ stats' = [stats EXCEPT ![Canon(m)] = StatCleared(stats[Canon(m)])]
        /\ UNCHANGED <<layers, due, tracker, hist, table>> /\ events' = events + 1
    BY <1>6 DEF OnBetCleared, Counting
  <2>3. LedgerOK(ledger') /\ events' \in Nat
    BY <1>1, <2>2
  <2>4. stats' \in [Names -> Stat] /\ \A b \in Names : StatOK(stats'[b])
    BY <2>1, <2>2, StatReplaced
  <2> QED BY <2>2, <2>3, <2>4, BookStep
<1>7. CASE OnIntentCreated(m)
  <2>1. /\ ledger' = Intended(ledger, m) /\ stats' = stats
        /\ UNCHANGED <<layers, due, tracker, hist, table>> /\ events' = events + 1
    BY <1>7 DEF OnIntentCreated, Counting
  <2>2. LedgerOK(ledger') /\ events' \in Nat
    BY <1>1, <2>1, IntendedOK
  <2> QED BY <1>1, <2>1, <2>2, BookStep
<1> QED BY <1>4, <1>5, <1>6, <1>7

\* Every step keeps the invariant.
LEMMA NextIInv == IInv /\ [Next]_vars => IInv'
<1> SUFFICES ASSUME IInv, [Next]_vars PROVE IInv'
  OBVIOUS
<1>1. CASE \E total \in Totals : OnRoll(total)
  BY <1>1, OnRollStep
<1>2. CASE (\E p \in Boxes \cap Totals : OnPointEstablished(p)) \/ OnPointMade \/ OnSevenOut
  BY <1>2, PointStep
<1>3. CASE \E a \in Amounts : OnBankrollDelta(a) \/ OnBankrollDelta(-a)
  <2>1. PICK a \in Amounts : OnBankrollDelta(a) \/ OnBankrollDelta(-a)
    BY <1>3
  <2>2. a \in Int /\ -a \in Int
    BY AccountsConstants
  <2> QED BY <2>1, <2>2, BankrollStep
<1>4. ASSUME NEW m \in Mentions,
             \/ \E a \in Amounts, i \in 0..Len(ledger.intents) : OnBetPlaced(m, a, i)
             \/ \E o \in {"win", "loss", "push"}, a \in Amounts, s \in Amounts \cup {0},
                   id \in 0..Len(ledger.entries) : OnBetResolved(m, o, a, s, id)
             \/ OnBetCleared(m)
             \/ OnIntentCreated(m)
      PROVE  IInv'
  BY <1>4, BetStep
<1>5. CASE \E i \in DOMAIN ledger.intents : OnIntentCanceled(i)
  <2>1. PICK i \in DOMAIN ledger.intents : OnIntentCanceled(i)
    BY <1>5
  <2>2. /\ ledger' = Canceled(ledger, i) /\ stats' = stats
        /\ UNCHANGED <<layers, due, tracker, hist, table>> /\ events' = events
    BY <2>1 DEF OnIntentCanceled
  <2>3. LedgerOK(ledger')
    BY <2>2, LedgerOfIInv, CanceledOK
  <2>4. stats' \in [Names -> Stat] /\ (\A b \in Names : StatOK(stats'[b])) /\ events' \in Nat
    BY <2>2 DEF IInv, TypeOK
  <2> QED BY <2>2, <2>3, <2>4, BookStep
<1>6. CASE UNCHANGED vars
  <2>1. LedgerOK(ledger') /\ stats' = stats /\ events' = events
    BY <1>6, LedgerOfIInv DEF vars
  <2>2. stats' \in [Names -> Stat] /\ (\A b \in Names : StatOK(stats'[b])) /\ events' \in Nat
    BY <2>1 DEF IInv, TypeOK
  <2>3. UNCHANGED <<layers, due, tracker, hist, table>>
    BY <1>6 DEF vars
  <2> QED BY <2>1, <2>2, <2>3, BookStep
<1> QED BY <1>1, <1>2, <1>3, <1>4, <1>5, <1>6 DEF Next

---------------------------------------------------------------------------
(* The theorems.                                                           *)

\* The invariant holds in every state.
THEOREM AccountsInvariant == Spec => []IInv
BY InitIInv, NextIInv, PTL DEF Spec

\* The tracker, the ledger, the attribution and the histograms keep their types,
\* whatever the table reports and whatever layers are attached.
THEOREM TypeCorrect == Spec => []TypeOK
<1>1. IInv => TypeOK
  BY DEF IInv
<1> QED BY <1>1, AccountsInvariant, PTL

\* However bets are resolved, the ledger's exposure is the sum of what is staked on the
\* open entries and its realized result the sum of the closed ones' results; an open
\* entry is once on the stack of the name it was placed under.
THEOREM LedgerCorrect == Spec => []LedgerTrue
<1>1. ASSUME IInv PROVE LedgerTrue
  <2>1. Stacked(ledger.entries, ledger.stack) /\ Summed(ledger.entries, ledger.exposure, ledger.realized)
    BY <1>1 DEF IInv, Kept
  <2>2. /\ ledger.exposure = SumTo([e \in OpenEntries |-> ledger.entries[e].amount], Len(ledger.entries))
        /\ ledger.realized =
             SumTo([e \in DOMAIN ledger.entries \ OpenEntries |-> ledger.entries[e].pnl],
                   Len(ledger.entries))
    BY <2>1 DEF Summed, Stakes, Results, OpenIn, OpenEntries
  <2>3. ASSUME NEW e \in OpenEntries
        PROVE  Cardinality({i \in DOMAIN ledger.stack[ledger.entries[e].key] :
                              ledger.stack[ledger.entries[e].key][i] = e}) = 1
    <3> DEFINE k == ledger.entries[e].key
               S == {i \in DOMAIN ledger.stack[k] : ledger.stack[k][i] = e}
    <3>1. ledger.entries \in Seq(Entry) /\ ledger.stack \in [Keys -> Seq(Nat)]
      BY <1>1, LedgerOfIInv DEF LedgerOK, LedgerTyped
    <3>2. e \in 1..Len(ledger.entries) /\ ledger.entries[e].open /\ ledger.entries[e] \in Entry
      BY <3>1 DEF OpenEntries
    <3>3. k \in Keys
      BY <3>2, EntryFields
    <3>4. PICK i \in 1..Len(ledger.stack[k]) : ledger.stack[k][i] = e
      BY <2>1, <3>2 DEF Stacked
    <3>5. \A j \in 1..Len(ledger.stack[k]) : ledger.stack[k][j] = e => j = i
      BY <2>1, <3>3, <3>4 DEF Stacked
    <3>6. DOMAIN ledger.stack[k] = 1..Len(ledger.stack[k])
      <4>1. ledger.stack[k] \in Seq(Nat)
        BY <3>1, <3>3
      <4> QED BY <4>1
    <3>7. S = {i}
      BY <3>4, <3>5, <3>6
    <3> QED BY <3>7, FS_Singleton
  <2> QED BY <2>2, <2>3 DEF LedgerTrue
<1> QED BY <1>1, AccountsInvariant, PTL

\* What a resolve by name closes is an entry of that name: every id on a stack is of an
\* entry whose key, and whose bet, are the stack's.
OwnStacks ==
  \A m \in Mentions : \A i \in DOMAIN ledger.stack[LifoKey(m)] :
    LET e == ledger.entries[ledger.stack[LifoKey(m)][i]]
    IN  e.key = LifoKey(m) /\ e.bet = Canon(m)

\* A bet is resolved by name only as the bet it was placed as.
THEOREM StacksCorrect == Spec => []OwnStacks
<1>1. ASSUME IInv PROVE OwnStacks
  <2> SUFFICES ASSUME NEW m \in Mentions, NEW i \in DOMAIN ledger.stack[LifoKey(m)]
               PROVE  LET e == ledger.entries[ledger.stack[LifoKey(m)][i]]
                      IN  e.key = LifoKey(m) /\ e.bet = Canon(m)
    BY DEF OwnStacks
  <2>1. ledger.stack \in [Keys -> Seq(Nat)] /\ LifoKey(m) \in Keys /\ LifoKey(m)[1] = Canon(m)
    BY <1>1, LedgerOfIInv, MentionKeys DEF LedgerOK, LedgerTyped
  <2>2. i \in 1..Len(ledger.stack[LifoKey(m)])
    <3>1. ledger.stack[LifoKey(m)] \in Seq(Nat)
      BY <2>1
    <3> QED BY <3>1
  <2>3. Stacked(ledger.entries, ledger.stack) /\ Keyed(ledger.entries)
    BY <1>1 DEF IInv, Kept
  <2>4. /\ ledger.stack[LifoKey(m)][i] \in 1..Len(ledger.entries)
        /\ ledger.entries[ledger.stack[LifoKey(m)][i]].key = LifoKey(m)
    BY <2>1, <2>2, <2>3 DEF Stacked
  <2> QED BY <2>1, <2>3, <2>4 DEF Keyed
<1> QED BY <1>1, AccountsInvariant, PTL

\* An intent is matched with one entry and an entry with one intent, and unless the
\* entry named the intent the two are for the same bet.
THEOREM IntentsCorrect == Spec => []IntentsPaired
<1>1. ASSUME IInv PROVE IntentsPaired
  <2>1. Paired(ledger.entries, ledger.intents)
    BY <1>1 DEF IInv, Kept
  <2>2. DOMAIN ledger.intents = 1..Len(ledger.intents)
    BY <1>1, LedgerOfIInv DEF LedgerOK, LedgerTyped
  <2> QED BY <2>1, <2>2 DEF Paired, IntentsPaired
<1> QED BY <1>1, AccountsInvariant, PTL

\* The counts kept apart agree: rolls and histograms, rolls since the point and hits,
\* point-seven-outs and those there were, hands and bankroll, open bets and placed ones.
THEOREM CountsCorrect == Spec => []CountsAgree
<1>1. IInv => CountsAgree
  BY DEF IInv, Counted, CountsAgree, StatOK
<1> QED BY <1>1, AccountsInvariant, PTL
=============================================================================
