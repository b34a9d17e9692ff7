SPECIFICATION PaymentSpec
CONSTANTS
  Intents = {pi1}
  NoIntent = NoIntent
  SkipPayment = FALSE
PROPERTIES
  CapturedStaysCaptured
