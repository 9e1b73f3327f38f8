----------------------------- MODULE MCLauncher -----------------------------
(***************************************************************************)
(* Small instances of Launcher: the configurations it is started with and  *)
(* the files users import.                                                 *)
(***************************************************************************)
EXTENDS Launcher, TLC

Symmetry == Permutations(Threads) \cup Permutations(Pids)

\* safe_name keeps the names apart, or gives the last one the stem of the first
\* ("REF615_SIM_01" typed as "REF615 SIM 01").
OwnStem == [n \in Names |-> n]
SharedStem == [n \in Names |-> IF n = 3 THEN 1 ELSE n]

Given(i, n, a, v) ==
  [id |-> i, enabled |-> TRUE, name |-> n, ip |-> a, vals |-> v,
   ranges |-> DefaultRanges]
Disabled(row) == [row EXCEPT !.enabled = FALSE]
File(rs, good) ==
  [adapter |-> CHOOSE a \in Adapters : TRUE, auto |-> FALSE, rows |-> rs,
   good |-> good]

One == <<Given(1, 1, 5, DefaultVals)>>
Two == <<Given(1, 1, 5, DefaultVals), Given(2, 2, 6, DefaultVals)>>
\* A file written by hand: one row leaves everything open, the other gives the
\* id the first one gets.
HandMade == <<Given(0, 0, 0, DefaultVals), Given(1, 2, 6, DefaultVals)>>
\* The same with an id of its own.
Reordered == <<Given(2, 2, 5, DefaultVals), Disabled(Given(0, 0, 0, DefaultVals))>>
\* default_row_specs() lists RED615_SIM_01 twice, with one address.
DefaultPair == <<Given(0, 1, 5, DefaultVals), Given(0, 1, 5, DefaultVals)>>

Submit(e, n, a, v) ==
  [enabled |-> e, name |-> n, ip |-> a, vals |-> v, ranges |-> DefaultRanges]
OnOff == {Submit(e, 0, 0, DefaultVals) : e \in BOOLEAN}
Moves == {Submit(TRUE, 0, a, DefaultVals) : a \in Ips}
Edits == {Submit(TRUE, n, a, v) : n \in {0, 3}, a \in {0, 5}, v \in Vals}

StoredOne == {File(One, 1)}
StoredTwo == {File(Two, 2)}
StoredDefault == {File(DefaultPair, 2)}
ImportAny == {File(HandMade, 2), File(Two, 1)}
ImportGood == {File(Reordered, 2)}
ImportBad == {File(Two, 1)}
ImportNone == {}

=============================================================================
