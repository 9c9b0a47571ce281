--------------------------- MODULE MCLrMessaging ---------------------------
EXTENDS LrMessaging
=============================================================================
