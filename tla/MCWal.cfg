SPECIFICATION WalSpec
CONSTANTS
  r1 = r1
  r2 = r2
  Records = {r1, r2}
  Snapshots <- SomeSnapshots
  Torn = Torn
  NoFile = NoFile
  MaxFrames = 4
PROPERTIES ImplementsLog
