--------------------------- MODULE MCRelayServer ----------------------------
EXTENDS RelayServer

Ends == <<2, 2, 4, 4, 5>>

phsA == <<"LD0", "CMMXU1", "A", "phsA", "instCVal", "mag", "f">>
phsB == <<"LD0", "CMMXU1", "A", "phsB", "instCVal", "mag", "f">>
Ind1 == <<"LD0", "LEDGGIO1", "Ind1", "stVal">>
Ind2 == <<"LD0", "LEDGGIO1", "Ind2", "stVal">>
SSCBR == <<"LD0", "SSCBR1", "Beh", "stVal">>
TCSSCBR == <<"LD0", "TCSSCBR1", "Beh", "stVal">>

\* red615_static_model.c has these, and no SSCBR1.
NodesRED615 == {phsA, phsB, Ind1, Ind2, TCSSCBR}

\* Tags a user may type.
brace == <<"LD0", "a{b">>
misspelt == <<"LD0", "LEDGIO1", "Ind1", "stVal">>
nested == <<"LD0", "GEN", "SSCBR1", "Beh">>
bare == <<"words">>
stamp == StampName
BracedTags == {brace}

Default5 == <<phsA, phsB, Ind1, Ind2, SSCBR>>
Lists == {
  <<phsA, phsB, Ind1, Ind2, TCSSCBR>>,
  Default5,
  <<phsA, misspelt, Ind1, nested, SSCBR>>,
  <<phsA, phsB, misspelt, Ind2, TCSSCBR>>,
  <<phsA, brace, Ind1, Ind2, TCSSCBR>>,
  <<phsA, brace, brace, Ind2, TCSSCBR>>,
  <<phsA, bare, Ind1, Ind2, TCSSCBR>>,
  <<phsA, phsB, Ind1, bare, TCSSCBR>>,
  <<phsA, bare, misspelt, nested, TCSSCBR>>,
  <<phsA, stamp, Ind1, Ind2, TCSSCBR>>,
  <<phsA, phsB, Ind1, stamp, TCSSCBR>>}
JustDefault == {Default5}

=============================================================================
