\* Two producers and two competing, polling consumers.
SPECIFICATION FairSpec
CONSTANTS
  Producer = {p1, p2}
  Consumer = {c1, c2}
  MaxRetries = 2
  MaxNodes = 2
  MaxIterations = 1
  CountModulus = 1024
  VerifySlack = 100
INVARIANTS ListInv Settled
PROPERTIES HonestRefusals ImplementsFifo EventuallyDelivered
