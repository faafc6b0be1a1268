SPECIFICATION Spec
PROPERTY RequestsAnswered
PROPERTY CallsAnswered
PROPERTY PromptAnswered
PROPERTY StopWakesEveryRequest
CHECK_DEADLOCK FALSE
