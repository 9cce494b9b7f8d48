SPECIFICATION Spec
CONSTANTS
  c1 = c1
  l1 = l1
  l2 = l2
  crm = crm
  office = office
  trunk = trunk
  internal = internal
  support = support
  staff = staff
  alice = alice
  Nobody = Nobody
  Call <- OneCall
  Leg <- TwoLegs
  Webhook <- Webhooks
  Context <- OneContext
  Queue <- Queues
  Table <- Tables
  Endpoint <- Users
  Configs <- Removable
  MaxFaults = 1
CONSTRAINT SecondLegOrQueue
SYMMETRY Symmetry
INVARIANTS TypeOK OnlyAnnounced ReportsTruth EndIsComplete NothingTwice
