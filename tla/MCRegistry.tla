----------------------------- MODULE MCRegistry -----------------------------
EXTENDS Registry

CONSTANTS a, b
=============================================================================
