--------------------------- MODULE MCDataTransfer ---------------------------
EXTENDS DataTransfer, TLC

\* A backup with settings, and a legacy export of one date.
Backup == [entries |-> [d \in Dates |-> "imported"], settings |-> "imported"]
Legacy == [entries |-> [d \in {CHOOSE d \in Dates : TRUE} |-> "imported"], settings |-> NoSettings]
TwoFiles == {Backup, Legacy}
=============================================================================
