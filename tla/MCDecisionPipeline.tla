------------------------- MODULE MCDecisionPipeline -------------------------
EXTENDS DecisionPipeline

\* Risk evaluators and resolvers may use the conflict code themselves.
MCCodes == {"REFUSED", Conflict}
=============================================================================
