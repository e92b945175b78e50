----------------------------- MODULE MCMailFlags ----------------------------
EXTENDS MailFlags

CONSTANTS first, second, h1

\* Mails arrive unread and without a star.
Fresh == [seen : {FALSE}, flag : {FALSE}]
\* The rule that matches marks as read.
MarkRead == {<<"read">>}
=============================================================================
