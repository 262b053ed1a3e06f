---------------------------- MODULE MCIdeaPolls ----------------------------
(* Instances of IdeaPolls for TLC.  The clock is long enough for a window to end and to be
   extended past the horizon; requests are interchangeable, so safety runs may permute
   them.                                                                               *)
EXTENDS IdeaPolls, TLC

RequestSymmetry == Permutations(Requests)
=============================================================================
