SPECIFICATION Spec
CONSTANTS
  MaxLength = 2
  MaxMessages = 2
INVARIANTS TypeOK ResponsesIntact ResponsesPrompt AsciiRequestsIntact
