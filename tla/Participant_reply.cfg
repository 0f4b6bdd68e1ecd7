SPECIFICATION LiveSpec
CONSTANTS
  Envelope <- ReplyMail
  Kind <- ReplyKind
  Source <- ReplySource
  NoEnvelope = NoEnvelope
  FromGrantor = {}
  PerHour = 1
  Faults = {"unusable","unanswered","crash","hour","die","stale","unpublished","invalid","torn","miss","age","grant","direct"}
  MaxFaults = 2
  Request = {r1,r2}
  NoRequest = NoRequest
  Approval = {a1}
  Runner = "channel"
INVARIANTS RetrySendsSame
PROPERTIES HeldIsRetried 
CHECK_DEADLOCK FALSE
