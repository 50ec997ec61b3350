---------------------------- MODULE MCMailHosting ----------------------------
EXTENDS MailHosting
CONSTANTS d1, m1, a1
MCDomainOf == [m \in Mailboxes |-> d1]
MCBoxOf == [a \in Aliases |-> m1]
=============================================================================
