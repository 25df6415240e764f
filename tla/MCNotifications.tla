--------------------------- MODULE MCNotifications ---------------------------
(* Instances of Notifications for TLC. *)
EXTENDS Notifications

CONSTANTS e1, login, chat, mail

MCSources == {"certmanager", "audit"}

MCSeverities == {"info", "critical"}

\* An event, and a critical one of the audit log.
MCSourceOf == [ev \in Events |-> IF ev = login THEN "audit" ELSE "certmanager"]

MCSeverityOf == [ev \in Events |-> IF ev = login THEN "critical" ELSE "info"]

ChatRules == {[ch |-> chat, sources |-> {}, severities |-> {}]}

\* One of the rules lets each event through, and both together none.
MailRules == {[ch |-> mail, sources |-> {"certmanager"}, severities |-> {}],
              [ch |-> mail, sources |-> {}, severities |-> {"critical"}]}

=============================================================================
