SPECIFICATION Spec
CONSTANTS
  MaxLength = 2
  MaxMessages = 2
INVARIANT ResponsesTransformed
