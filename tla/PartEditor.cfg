SPECIFICATION Spec
CONSTANTS
  SmallBoot = 1
  LargeBoot = 2
  Disks = {"ada"}
  LastSector = 6
  Stripe = 2
  Reported = 2
  Machines <- BiosAndPs3
  Disked <- AnyDisked
  Fstabs <- AnyFstab
  Modes = {"editor"}
  Scripts <- NoScript
  FormTypes = {"freebsd-zfs", "freebsd"}
  FormSizes = {}
  FormMounts = {"", "/"}
  OptionAnswers = {"ok", "cancel"}
  Dirty = {FALSE, TRUE}
  MinFree = 5
  Swap = 1
  MaxOps = 3
INVARIANTS
  NewfsMatchesType
  MetadataHasHome
  FreeRegionIsFree
PROPERTIES
  KeepsPromise
