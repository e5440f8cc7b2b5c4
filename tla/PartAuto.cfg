SPECIFICATION Spec
CONSTANTS
  SmallBoot = 1
  LargeBoot = 2
  Disks = {"ada", "adb"}
  LastSector = 12
  Stripe = 2
  Reported = 2
  Machines <- AllMachines
  Disked <- OneDisked
  Fstabs <- NoFstab
  Modes = {"ufs", "zfs", "script"}
  Scripts <- AnyScript
  FormTypes = {"freebsd", "fat32"}
  FormSizes = {}
  FormMounts = {""}
  OptionAnswers = {"ok"}
  Dirty = {FALSE, TRUE}
  MinFree = 7
  Swap = 1
  MaxOps = 0
INVARIANTS
  RootCommitted
  CodeInstalled
  WizardFits
