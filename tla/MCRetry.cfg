SPECIFICATION Spec
CONSTANTS
  Lane = {w1}
  NoLane = NoLane
  hook = hook
  Webhook <- MCWebhook
  Delivery = {d1}
  WebhookOf <- MCWebhookOf
  MaxTries = 2
  Threshold = 2
  BatchSize = 1
  MaxFaults = 0

PROPERTY RetryIsQueued

