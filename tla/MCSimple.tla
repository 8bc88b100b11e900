------------------------------ MODULE MCSimple ------------------------------
(***************************************************************************)
(* The instance of MCRedirection with rules in simple mode satisfies the   *)
(* hypotheses of SimpleUse.                                                *)
(***************************************************************************)
EXTENDS MCRedirection, SimpleUse

\* The paths that the application names.
MCApp == {A, O, OX, OY, OXY}

ASSUME OrdinaryUseHolds == OrdinaryUse(MCApp)
ASSUME NestedOriginsHold ==
  \A c \in Configurations : NestedOriginsExist(c.rules, c.files)
=============================================================================
