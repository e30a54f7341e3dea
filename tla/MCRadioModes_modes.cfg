SPECIFICATION ModesSpec
CONSTANTS
  Burst = 440
  Disturbed = {1, 183}
  Freqs = {433, 915}
  Speeds <- SomeSpeeds
  Powers = {127, 200}
  Mtus = {230}
INVARIANTS  CommandsInOrder 
