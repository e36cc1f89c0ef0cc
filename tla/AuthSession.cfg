SPECIFICATION MCSpec
CONSTANTS
  u1 = u1
  u2 = u2
  i1 = i1
  i2 = i2
  Nobody = Nobody
  Slots = {1, 2}
  Callers = {1, 2}
  MaxSessions = 2
  MaxTokens = 2
  MaxResets = 2
  Window = 2
  MaxHits = 4
  MaxTime = 5
  Users <- MCUsers
  Provisioned <- MCProvisioned
  Invites <- MCInvites
  Recipient <- MCRecipient
  Workloads <- MCWorkloads
INVARIANTS TokenExchangedOnce ResetSignsOut InvitationOnce NoHitLost
PROPERTIES RequestsEnd
CHECK_DEADLOCK FALSE
