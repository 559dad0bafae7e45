------------------------- MODULE MCWhatsAppSessions -------------------------
\* A small instance of WhatsAppSessions for TLC.
EXTENDS WhatsAppSessions, TLC
CONSTANTS p1, w1, s1, s2
MCSame == Permutations(Sender)
=============================================================================
