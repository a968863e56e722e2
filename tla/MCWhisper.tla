----------------------------- MODULE MCWhisper -----------------------------
EXTENDS Whisper, TLC
=============================================================================
