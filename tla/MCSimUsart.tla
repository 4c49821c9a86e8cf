------------------------------ MODULE MCSimUsart ------------------------------
(* Values for the constants of SimUsart: a ring of three bytes that wraps, *)
(* two interchangeable response texts.                                     *)
EXTENDS SimUsart, TLC

CONSTANTS OK, ERROR

MCReplies == {OK, ERROR}
MCSymmetry == Permutations(MCReplies)
==============================================================================
