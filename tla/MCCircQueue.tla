---------------------------- MODULE MCCircQueue ----------------------------
EXTENDS CircQueue

CONSTANTS a, b, c
=============================================================================
