------------------------------ MODULE MCMixer ------------------------------
EXTENDS Mixer
=============================================================================
