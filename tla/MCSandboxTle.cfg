CONSTANTS
  Workers = {w1, w2}
  Jobs <- MCReaders
  NoJob = NoJob
  MaxFds = 16
  MaxForkFails = 0
  Letters = {"a"}
  NL = "newline"
  Blanks = {"space"}
  MaxTextLen = 1
SPECIFICATION SandboxSpec
PROPERTY TimeoutIsOfTheProgram
