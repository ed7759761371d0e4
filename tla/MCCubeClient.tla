---------------------------- MODULE MCCubeClient ----------------------------
EXTENDS CubeClient

CONSTANTS r1, r2

MCReqs == {r1, r2}
MCMaxRetries == 2
=============================================================================
