--------------------------- MODULE MC_UserAccounts ---------------------------
(* Instantiation of UserAccounts for TLC: one e-mail two clients compete   *)
(* for, two passwords (the right one and a wrong one), two user ids.      *)
EXTENDS UserAccounts

CONSTANTS e1, p1, p2, i1, i2, h1, h2

MCEmails == {e1}
MCPwds == {p1, p2}
MCIds == {i1, i2}
OneHandler == {h1}
TwoHandlers == {h1, h2}
=============================================================================
