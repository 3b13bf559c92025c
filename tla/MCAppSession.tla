---------------------------- MODULE MCAppSession ----------------------------
EXTENDS AppSession
=============================================================================
