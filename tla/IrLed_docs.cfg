\* Statements of ir_led.h that the code does not keep; one at a time, on module IrLed.
SPECIFICATION LedSpec
INVARIANTS
  ForcedStateStays
\*  FlagTellsPin
