----------------------------- MODULE MCMailSync -----------------------------
EXTENDS MailSync, TLC

CONSTANTS inbox, archive, talk

\* The later messages answer the first.
OneThread == [m \in 1..3 |-> talk]
=============================================================================
