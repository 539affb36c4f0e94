SPECIFICATION Spec
CONSTANTS
  Clis = {cli1, cli2}
  Guis = {gui}
  CliCommands = {"list", "info", "registry"}
  Sizes <- MCSizes
  Chunk = 2
  Unknown = {"registry"}
  Unencodable = {"info"}
  Cuttable = {"list"}
  NoCmd = NoCmd
  Garbled = Garbled
  MaxCommands = 4
INVARIANTS TypeInv OneReader
PROPERTIES ImplementsAnswers
CHECK_DEADLOCK FALSE
