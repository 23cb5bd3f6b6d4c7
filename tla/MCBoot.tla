------------------------------ MODULE MCBoot ------------------------------
EXTENDS Boot
===========================================================================
