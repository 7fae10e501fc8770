----------------------------- MODULE MCSessions -----------------------------
(***************************************************************************)
(* Two workers that set and look up the databases of a few sessions, up to *)
(* the first clash: after it the properties of the passing runs say        *)
(* nothing.                                                                *)
(***************************************************************************)
EXTENDS SessionProperties, TLC

Alike == Permutations(Workers) \cup Permutations(Tokens) \cup Permutations(Databases)

UntilClash == ~clashed
=============================================================================
