------------------------------ MODULE MCTelemetry ------------------------------
EXTENDS Telemetry

CONSTANTS r1, w1
=============================================================================
