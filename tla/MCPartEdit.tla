---- MODULE MCPartEdit ----
\* The partition editor on one small disk under every dialog, and its guided and
\* scripted modes on two disks and every machine.
EXTENDS PartEdit

Region(start, size, type) == [start |-> start, size |-> size, type |-> type]
Unpartitioned == [g \in {} |-> 0]
Gpt == <<"ada">> :> [scheme |-> "GPT", parts |-> <<Region(1, 2, "freebsd-zfs")>>]
Sliced == (<<"ada">> :> [scheme |-> "MBR", parts |-> <<Region(1, 4, "freebsd")>>])
          @@ (<<"ada", 1>> :> [scheme |-> "BSD", parts |-> <<Region(0, 2, "freebsd-ufs")>>])
Shared == <<"ada">> :> [scheme |-> "MBR", parts |-> <<Region(1, 8, "fat32")>>]
AnyDisked == {Unpartitioned, Gpt, Sliced}
OneDisked == {Unpartitioned, Gpt, Shared}

BiosAndPs3 == {X86("BIOS"), Powerpc("ps3")}
AllMachines == {X86("BIOS"), X86("UEFI"), Arm64, Sparc64, Generic}
  \cup {Powerpc(p) : p \in {"powermac", "chrp", "ps3", "powernv", "mpc85xx"}}

NoFstab == {<<>>}
AnyFstab == {<<>>, <<[name |-> <<"ada", 1>>, mount |-> "/"]>>}

Create1(type, size, mount) == [do |-> "create", type |-> type, size |-> size, mount |-> mount]
OnDisk(disk, scheme, parts) ==
  <<[do |-> "disk", disk |-> disk, scheme |-> scheme, parts |-> parts]>>
AnyScript ==
  {OnDisk("ada", None, <<>>),
   OnDisk("ada", "GPT", <<Create1("freebsd-ufs", 5, "/"), Create1("freebsd-swap", 0, NoMount)>>),
   OnDisk("ada", None, <<>>) \o OnDisk("adc", None, <<>>)}
NoScript == {<<>>}

\* Where the guided mode is run, it has room (WizardSucceeds is about such constants).
ASSUME RoomAssumption == "editor" \in Modes \/ HasRoom
====
