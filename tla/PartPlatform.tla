---- MODULE PartPlatform ----
\* What the partition editor knows of the machine it runs on: one record for
\* each partedit_<machine>.c and each firmware or platform it distinguishes.
\*   default    default_scheme()
\*   bootable   the schemes with is_scheme_bootable()
\*   fs         is_fs_bootable(), as pairs <<scheme, type>>
\*   size       bootpart_size() of a scheme, in the sectors of the model
\*   type       bootpart_type() of a scheme
\*   mount      the mountpoint bootpart_type() gives, NoMount where it gives none
\*   bootcode   the schemes with a bootcode_path()
\*   partcode   the schemes with a partcode_path(), whatever the file system
EXTENDS Naturals

CONSTANTS SmallBoot, LargeBoot    \* sectors of a boot partition: under 1 MB, or EFI's

ASSUME BootSizesAssumption == SmallBoot \in Nat \ {0} /\ LargeBoot \in Nat \ {0}

Schemes == {"APM", "BSD", "GPT", "MBR", "VTOC8"}
FileSystems == {"freebsd-ufs", "freebsd-zfs"}
NoMount == ""

Constantly(value) == [s \in Schemes |-> value]
OnUfs == Schemes \X {"freebsd-ufs"}

X86(method) ==
  [default  |-> IF method = "UEFI" THEN "GPT" ELSE "MBR",
   bootable |-> IF method = "BIOS" THEN {"GPT", "BSD", "MBR"} ELSE {"GPT"},
   fs       |-> OnUfs \cup (IF method = "BIOS" THEN {<<"GPT", "freebsd-zfs">>} ELSE {}),
   size     |-> [Constantly(0) EXCEPT
                   !["GPT"] = IF method = "BIOS" THEN SmallBoot ELSE LargeBoot],
   type     |-> Constantly(IF method = "UEFI" THEN "efi" ELSE "freebsd-boot"),
   mount    |-> Constantly(NoMount),
   bootcode |-> IF method = "UEFI" THEN {} ELSE {"GPT", "MBR", "BSD"},
   partcode |-> IF method = "UEFI" THEN {} ELSE {"GPT"}]

Arm64 ==
  [default  |-> "GPT",
   bootable |-> {"GPT"},
   fs       |-> OnUfs,
   size     |-> [Constantly(0) EXCEPT !["GPT"] = LargeBoot],
   type     |-> Constantly("efi"),
   mount    |-> Constantly(NoMount),
   bootcode |-> {},
   partcode |-> {}]

\* hw.platform: powermac, chrp, ps3, powernv or mpc85xx.
PowerpcSize(platform, scheme) ==
  CASE scheme = "APM" -> SmallBoot
    [] scheme = "BSD" -> 0
    [] scheme \notin {"APM", "BSD"} /\ platform = "chrp" -> SmallBoot
    [] scheme \notin {"APM", "BSD"} /\ platform \in {"ps3", "powernv", "mpc85xx"} -> LargeBoot
    [] OTHER -> 0
PowerpcType(platform, scheme) ==
  CASE platform = "chrp" -> "prep-boot"
    [] platform = "powermac" -> "apple-boot"
    [] platform \in {"powernv", "ps3"} /\ scheme = "GPT" -> "ms-basic-data"
    [] platform \in {"powernv", "ps3"} /\ scheme = "MBR" -> "fat32"
    [] platform = "mpc85xx" -> "fat16"
    [] OTHER -> "freebsd-boot"
Powerpc(platform) ==
  [default  |-> CASE platform = "powermac" -> "APM"
                  [] platform \in {"chrp", "ps3", "mpc85xx"} -> "MBR"
                  [] OTHER -> "GPT",
   bootable |-> CASE platform = "powermac" -> {"APM"}
                  [] platform = "powernv" -> {"GPT"}
                  [] platform \in {"chrp", "ps3"} -> {"MBR", "BSD", "GPT"}
                  [] platform = "mpc85xx" -> {"MBR"}
                  [] OTHER -> {},
   fs       |-> OnUfs,
   size     |-> [s \in Schemes |-> PowerpcSize(platform, s)],
   type     |-> [s \in Schemes |-> PowerpcType(platform, s)],
   mount    |-> Constantly(CASE platform \in {"powernv", "ps3"} -> "/boot"
                             [] platform = "mpc85xx" -> "/boot/uboot"
                             [] OTHER -> NoMount),
   bootcode |-> {},
   partcode |-> IF platform = "chrp" THEN Schemes ELSE {"APM"}]

Sparc64 ==
  [default  |-> "VTOC8",
   bootable |-> {"VTOC8"},
   fs       |-> Schemes \X FileSystems,
   size     |-> Constantly(0),
   type     |-> Constantly("freebsd-boot"),
   mount    |-> Constantly(NoMount),
   bootcode |-> {},
   partcode |-> {"VTOC8"}]

\* An unknown machine: everything is said to be bootable.
Generic ==
  [default  |-> "GPT",
   bootable |-> Schemes,
   fs       |-> Schemes \X FileSystems,
   size     |-> Constantly(0),
   type     |-> Constantly("freebsd-boot"),
   mount    |-> Constantly(NoMount),
   bootcode |-> {},
   partcode |-> {}]
====
