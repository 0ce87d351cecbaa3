---------------------------- MODULE MCOrchestrator ----------------------------
EXTENDS Orchestrator

CONSTANTS a, b
MCStarted == <<a, b>>
=============================================================================
