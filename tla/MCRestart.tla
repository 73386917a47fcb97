----------------------------- MODULE MCRestart -----------------------------
EXTENDS Restart
============================================================================
