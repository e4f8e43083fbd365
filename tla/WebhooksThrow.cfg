CONSTANTS
  Dispatches = {d1}
  MaxTries = 2
  MaxDeliveries = 2
  MaxDisruptions = 0
SPECIFICATION WebhooksFairSpec
PROPERTIES TriesRunOut
CHECK_DEADLOCK FALSE
