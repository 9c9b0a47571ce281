----------------------------- MODULE MCLp0Radio -----------------------------
EXTENDS Lp0Radio
=============================================================================
