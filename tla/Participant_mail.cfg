SPECIFICATION Spec
CONSTANTS
  Envelope <- Mail
  Kind <- MailKind
  Source <- MailSource
  NoEnvelope = NoEnvelope
  FromGrantor = {"carried","native"}
  PerHour = 1
  Faults = {"reobserve","unusable","ackloss","abort","adapter","grant","crash","die","workerstops","unpublished","prepare"}
  MaxFaults = 3
  Request = {r1,r2}
  NoRequest = NoRequest
  Approval = {}
  Runner = "worker"
INVARIANTS MailNotLost AnswersWithinReceipts
PROPERTIES RefusedMeansRevoked
CHECK_DEADLOCK FALSE
