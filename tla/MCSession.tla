------------------------------ MODULE MCSession ------------------------------
EXTENDS Session

\* A CAN Triple 2.0 that guards Send and holds the password of a protected
\* document, and a 1.x that guards Get, holds another and withholds protected
\* messages.
Own == [usb |-> TRUE, guards |-> {"send", "comms"}, key |-> "k1", withholds |-> FALSE]
Old == [usb |-> FALSE, guards |-> {"get", "comms"}, key |-> "k2", withholds |-> TRUE]
MCUnits == {Own, Old}

\* One without protected messages, and one secured with a password.
MCDocuments == {[marked |-> FALSE, key |-> "none"], [marked |-> TRUE, key |-> "k1"]}
=============================================================================
