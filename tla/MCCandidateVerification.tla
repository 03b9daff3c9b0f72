---------------------- MODULE MCCandidateVerification ----------------------
(* One candidate, two workers, a verification by the owner or by a loop.    *)
EXTENDS CandidateVerification

CONSTANTS h1, h2
============================================================================
