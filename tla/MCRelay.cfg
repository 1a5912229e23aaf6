\* Two CPUs in the hook, lanes small enough to fill up, and a user who presses
\* Ctrl+C until the program ends.
SPECIFICATION InsistentSpec
CONSTANTS
  Cpu = {h1, h2}
  KuCapacity = 2
  UkCapacity = 2
  DrainSlack = 1
  MaxCalls = 5
INVARIANTS EndToEndOrder DrainedAtExit
PROPERTIES VanishOnlyByReinit EventuallyExits
