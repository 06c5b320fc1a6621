----------------------------- MODULE MCSquelch -----------------------------
EXTENDS Squelch
=============================================================================
