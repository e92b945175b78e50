----------------------------- MODULE MCMailSend -----------------------------
EXTENDS MailSend, TLC

CONSTANTS d1, k1, w1, w2
=============================================================================
