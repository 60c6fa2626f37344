--------------------------- MODULE MC_MtpChannel ---------------------------
EXTENDS MtpChannelInv
Steps == {-2, 2}
============================================================================
