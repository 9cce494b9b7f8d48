SPECIFICATION Spec
CONSTANTS
  c1 = c1
  l1 = l1
  l2 = l2
  crm = crm
  office = office
  trunk = trunk
  internal = internal
  support = support
  staff = staff
  alice = alice
  Nobody = Nobody
  Call <- OneCall
  Leg <- OneLeg
  Webhook <- Webhooks
  Context <- TwoContexts
  Queue <- Queues
  Table <- Tables
  Endpoint <- Users
  Configs <- Fixed
  MaxFaults = 0
INVARIANT OutgoingNeverEndsInbound
