---------------------------- MODULE MCRowValues -----------------------------
(***************************************************************************)
(* One analog and one word.  Conversions go tag by tag, and what a failing *)
(* request leaves depends only on the list that raises, so a second tag of *)
(* either kind would go the way of the first.                              *)
(***************************************************************************)
EXTENDS RowValues

CONSTANTS a1, w1, REF615, RED615

MCAnalogTags == {a1}
MCWordTags == {w1}
MCTypes == {REF615, RED615}
MCRelayTags == [t \in MCTypes |-> IF t = REF615 THEN {a1} ELSE {}]
MCNumbers == {0, 1}
MCValue == [t \in Tags |-> IF t = a1 THEN 1 ELSE 0]
MCRange == [t \in Tags |-> IF t = w1 THEN <<0, 0>> ELSE <<0, 1>>]

\* Ranges of both lists: neither raises, the words' do, the analogs' do.
BothRanges ==
  {[t \in {a1, w1} |-> IF t = a1 THEN a ELSE w] :
     a \in {<<1, 1>>, <<0, Huge>>}, w \in {<<1, 1>>, <<0, Huge>>}}

\* Any bounds of one tag, or of both.
MCRangeLists ==
  {f \in RangeEntries : DOMAIN f \in {{}, {a1}, {w1}}} \cup BothRanges

\* Any two lists, and ranges with or without lists.
MCPayloads ==
  [analogs : {Absent, None} \cup AnalogEntries, words : {Absent, None} \cup WordEntries,
   ranges : {Nothing}]
  \cup [analogs : {Absent, None, Nothing, [t \in {a1} |-> 0]},
        words : {Absent, None, Nothing, [t \in {w1} |-> 1]}, ranges : BothRanges]

MCImportedRows ==
  [type : {RED615}, analogs : {None, [t \in {a1} |-> 1], [t \in {a1} |-> Huge]},
   words : {None, [t \in {w1} |-> Huge]},
   ranges : {Nothing, [t \in Tags |-> <<1, 0>>], [t \in {w1} |-> <<Huge, 0>>]}]

=============================================================================
