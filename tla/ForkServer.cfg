SPECIFICATION FairSpec
CONSTANTS
  NumPids = 2
  Flavours = {"llvm", "persistent", "as32", "as64", "qemu", "direct"}
  Code = {1, 2}
  PipeSize = 1
  max_cnt = 3
INVARIANTS
  TraceOfThisRun
  OneChild
  
PROPERTIES
  ImplementsRunner
