SPECIFICATION LogSpec
CONSTANTS
  MaxBytes = 3
  Backups = 3
  Chunk = 2
  Bytes = 14
  Failures = 3
INVARIANTS LogInv CapHeld Contiguous LossBounded TailRight
