\* The deployment of mllm-server: one worker; two HTTP clients.
CONSTANTS
  Workers = {w1}
  Clients = {c1, c2}
  IdOf <- FreshIds
  MaxChunks = 1
SPECIFICATION FairSpec
PROPERTY
  EveryAnswerArrives
CHECK_DEADLOCK FALSE
