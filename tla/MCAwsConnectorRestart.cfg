CONSTANT MSG_QUEUE_SZ = 5
SPECIFICATION Spec
PROPERTY RestartsClient
