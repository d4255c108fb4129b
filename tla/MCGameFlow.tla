------------------------------ MODULE MCGameFlow ------------------------------
EXTENDS GameFlow
===============================================================================
