-------------------------- MODULE MCMailboxStates --------------------------
(* MailboxStates with one membership and two actions.                      *)
EXTENDS MailboxStates

CONSTANTS m1, a1, a2

OneMember == {m1}
ActionPair == {a1, a2}
=============================================================================
