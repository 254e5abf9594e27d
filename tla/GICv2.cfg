\* Two interrupts of different banks: the virtual timer PPI (27, level in
\* the device tree, targets read-only) and a virtio SPI (48).
SPECIFICATION GicSpec
CONSTANTS
  Irqs = {27, 48}
  Prios = {0, 1, 2}
  Targets = {0, 1}
INVARIANTS
  GicTypeOK
  NoLostInterrupt
PROPERTIES
  EdgeStaysLatched
