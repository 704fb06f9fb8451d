CONSTANTS
  Workers = {w1, w2}
  Jobs <- MCJobs
  NoJob = NoJob
  MaxFds = 16
  MaxForkFails = 1
  Letters = {"a", "b"}
  NL = "newline"
  Blanks = {"space"}
  MaxTextLen = 4
SPECIFICATION SandboxSpec
INVARIANT SandboxTypeOK
INVARIANT OutputsComparedByLines
PROPERTY ImplementsContract
PROPERTY RunReturns
