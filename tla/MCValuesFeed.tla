---------------------------- MODULE MCValuesFeed ----------------------------
(* A list of two analogs, one bool and two words.                          *)
EXTENDS ValuesFeed

FiveTags == <<2, 2, 3, 5, 5>>

=============================================================================
