----------------------------- MODULE MCMailboxes -----------------------------
(* Two mailboxes, the supervisor's and one other, and capabilities of one  *)
(* kind: send_message looks only at whether an identifier resolves.        *)
EXTENDS Mailboxes

MCPaths == {}
MCPids == {0, 1}
MCNewCaps == {NetworkCap}
=============================================================================
