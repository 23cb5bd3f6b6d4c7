----------------------------- MODULE MCReactor -----------------------------
EXTENDS Reactor
=============================================================================
