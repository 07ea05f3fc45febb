SPECIFICATION FairSpec
CONSTANTS
  Lane = {w1, w2}
  NoLane = NoLane
  hook = hook
  Webhook <- MCWebhook
  Delivery = {d1}
  WebhookOf <- MCWebhookOf
  MaxTries = 2
  Threshold = 1
  BatchSize = 1
  MaxFaults = 1
INVARIANTS TypeOK NothingStranded OutcomesAreEarned NoNeedlessSend
PROPERTY IntentsSettle
