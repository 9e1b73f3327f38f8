---------------------------- MODULE ServedValues ----------------------------
(***************************************************************************)
(* What a relay promises its MMS clients about the values the launcher     *)
(* publishes for it: versions 1, 2, ... of one list of tags, cut into the  *)
(* sections analogs, bools and words.  Whatever files, stamps and polls    *)
(* lie between, a client sees a version delivered section by section, in   *)
(* the order of the file, and never an older version after a newer one     *)
(* unless the relay was started again.                                     *)
(***************************************************************************)
EXTENDS Integers

CONSTANTS
  N,           \* number of tags in the list
  SectionEnd,  \* tag -> the last tag of its section
  MaxVersion   \* bound on the versions published

Tags == 1..N
Versions == 1..MaxVersion

VARIABLES
  latest,  \* the last version the launcher published, 0 for none
  served   \* tag -> the version a client reads, 0 for the model's own default

vars == <<latest, served>>

Init == latest = 0 /\ served = [i \in Tags |-> 0]

Publish ==
  /\ latest < MaxVersion
  /\ latest' = latest + 1
  /\ UNCHANGED served

\* S is a number of sections from the first on.
Leading(S) ==
  \A i \in S, j \in Tags : SectionEnd[j] <= SectionEnd[i] => j \in S

\* These sections of version v, unless something newer is served of them.
Deliver(v, S) ==
  /\ Leading(S)
  /\ \A i \in S : served[i] <= v
  /\ served' = [i \in Tags |-> IF i \in S THEN v ELSE served[i]]
  /\ UNCHANGED latest

Restart ==
  /\ served' = [i \in Tags |-> 0]
  /\ UNCHANGED latest

Next ==
  \/ Publish
  \/ \E v \in 1..latest, S \in SUBSET Tags : Deliver(v, S)
  \/ Restart

Spec == Init /\ [][Next]_vars

TypeOK == latest \in 0..MaxVersion /\ served \in [Tags -> 0..latest]

\* A section is of one version, and no section is ahead of one before it.
SectionsInOrder ==
  /\ \A i, j \in Tags : i <= j => served[i] >= served[j]
  /\ \A i, j \in Tags : SectionEnd[i] = SectionEnd[j] => served[i] = served[j]

=============================================================================
