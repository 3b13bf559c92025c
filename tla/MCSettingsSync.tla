--------------------------- MODULE MCSettingsSync ---------------------------
EXTENDS SettingsSync
=============================================================================
