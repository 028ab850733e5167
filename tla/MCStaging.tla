------------------------------ MODULE MCStaging ------------------------------
(* The instance of Staging that TLC checks.                                *)
EXTENDS Staging

CONSTANTS a, b

\* One candidate more than a run may stage.
MCTranscript == <<a, b>>

\* Room for a copy of each title per hook: an add never finds all ids taken that
\* a property still waits for.
MCIds == 1..4
=============================================================================
