\* Two GPIOs, any of them with a handler, and every call may fail.
SPECIFICATION Spec
CONSTANTS
  gpio_in = gpio_in
  gpio_out = gpio_out
  Gpios = {gpio_in, gpio_out}
  Order <- MCOrder
  Faults = {"request", "edge", "free", "poll", "isr"}
INVARIANTS
  TypeOK
  PollUsesOpenHandle
  FlagTellsThread
  IsrForEdge
  ClosedAfterBlock
PROPERTIES
  CallsReturn
