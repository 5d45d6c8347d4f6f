SPECIFICATION DeliverySpec
CONSTANTS
  Receivers = {r, s}
  Nobody = Nobody
  MaxFailures = 2
  MaxMessages = 2
CHECK_DEADLOCK FALSE
PROPERTIES MailboxKept EventuallySubmitted
