---------------------------- MODULE MCParticipant ----------------------------
(* Small instances of Participant.                                           *)
EXTENDS Participant

\* A mention that comes wrapped and natively.
MailKind == [carried |-> "carry", native |-> "native"]
MailSource == [carried |-> "m", native |-> "m"]
Mail == DOMAIN MailKind

\* A public and a channel reply.
ReplyKind == [direct |-> "direct", native |-> "native"]
ReplySource == [direct |-> "d", native |-> "m"]
ReplyMail == DOMAIN ReplyKind
=============================================================================
