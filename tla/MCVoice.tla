------------------------------- MODULE MCVoice -------------------------------
EXTENDS VoiceChannel
=============================================================================
