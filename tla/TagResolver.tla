---------------------------- MODULE TagResolver -----------------------------
(***************************************************************************)
(* How ied_mms_server.c finds the attribute for a tag: its first dot is    *)
(* replaced by a slash, and where the model has no such reference and the  *)
(* relay is not a REF615, ".SSCBR1." by ".TCSSCBR1.".                       *)
(*                                                                         *)
(* A tag is the sequence of its names between dots.  What was before the   *)
(* first dot is the logical device.                                        *)
(***************************************************************************)
EXTENDS Integers, Sequences, FiniteSetsExt

CONSTANTS
  RelayType,  \* --type
  Nodes       \* external: the references in the generated model of that type

RelayTypes == {"REF615", "REU615", "RED615"}

\* A tag without a dot has no short reference.
HasReference(tag) == Len(tag) > 1

\* The parts at which the pattern of the alias occurs: the first part of the
\* path follows the slash, not a dot, and the last is followed by none.
AliasPlaces(tag) == {k \in 3..(Len(tag) - 1) : tag[k] = "SSCBR1"}

Alias(tag) == [tag EXCEPT ![Min(AliasPlaces(tag))] = "TCSSCBR1"]

\* The node a tag resolves to, none when it has none.
Resolve(tag) ==
  IF ~HasReference(tag) THEN {}
  ELSE IF tag \in Nodes THEN {tag}
  ELSE IF RelayType # "REF615" /\ AliasPlaces(tag) # {}
       THEN {Alias(tag)} \cap Nodes
       ELSE {}

=============================================================================
