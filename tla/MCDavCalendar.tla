--------------------------- MODULE MCDavCalendar ---------------------------
EXTENDS DavCalendar, TLC

CONSTANTS x
=============================================================================
