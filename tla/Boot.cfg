CONSTANTS
  nr_cpu = 3
  ApicIds = {{0, 1, 2}, {0, 1, 3}}
  Modules = {"slub", "pci", "virtio", "slow", "never"}
  Wants <- MCWants
  Times = 10
  NR_SOFTIRQS = 2
  MAX_SOFTIRQ_TIME = 2
  MAX_SOFTIRQ_RESTART = 3
  MaxNest = 3
SPECIFICATION MCSpec
INVARIANTS BootSafe SoftirqSafe NoLostSoftirq
INVARIANTS MemoryMapped   DevicesFound TextInPlace
INVARIANTS ClockRead PrintedReadsBack LibraryAgrees  FiltersExact
PROPERTIES BootCompletes SoftirqServed
