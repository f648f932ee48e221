------------------------------ MODULE MCAccess ------------------------------
EXTENDS Access, TLC

MCRoleSets == {{}, {"viewer", "administrator"}}

MCSymmetry == Permutations(Slots) \cup Permutations(Keys)

\* Each kind of sign-in; what it lets through is asked for every setting of the modes.
MCConfigs ==
  {[discord |-> "enforce", access |-> "disabled"], [discord |-> "disabled", access |-> "enforce"]}
=============================================================================
