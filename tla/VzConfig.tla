------------------------------ MODULE VzConfig ------------------------------
(***************************************************************************)
(* What readMicroVMFlag and buildVZConfigFromDir (builtin/vmrun.go) make   *)
(* of a VM directory.  A directory d maps each file name to its content:   *)
(* Absent, Partial (a file whose writing was cut short), or a complete     *)
(* content.  cfg is what the config.json of d says when it is complete.    *)
(* Left out are the devices every VM gets whatever its files say (entropy, *)
(* vsock, serial port, NAT), the initrd, the command line and the number   *)
(* of CPUs.                                                                *)
(***************************************************************************)
EXTENDS Naturals, Sequences

CONSTANTS
  Absent, Partial,
  GiB,     \* 2^30, scaled down
  Word     \* 2^64, scaled down: sizes are uint64

ASSUME VzConfigAssumption == GiB \in Nat \ {0} /\ Word \in Nat /\ 2 * GiB < Word

Artefacts == {"disk", "data", "cidata"}
Identity == {"nvram", "machine-id", "mac"}
External == {"kernel", "boot.iso"}      \* written by weft-microvm only
Names == Artefacts \cup Identity \cup {"config"} \cup External

Configs == [micro : BOOLEAN, data : BOOLEAN, mem : Nat, shares : {"none", "whole", "broken"}]

Exists(d, f) == d[f] # Absent
Complete(d, f) == d[f] \notin {Absent, Partial}

(* A config.json that is not there or cannot be decoded counts as an empty *)
(* one.                                                                    *)
EmptyConfig == [micro |-> FALSE, data |-> FALSE, mem |-> 0, shares |-> "none"]
Decoded(d, cfg) == IF Complete(d, "config") THEN cfg ELSE EmptyConfig

Micro(d, cfg) == Decoded(d, cfg).micro

(* A microVM gets no display, keyboard and pointer, and no window.         *)
Graphics(d, cfg) == ~Micro(d, cfg)

DataListed(d, cfg) == Decoded(d, cfg).data

(* A kernel is booted directly; without one, or when the framework refuses *)
(* it, EFI is.                                                             *)
Loader(d) == IF Complete(d, "kernel") THEN "linux" ELSE "efi"

(* The EFI variable store is opened, or created where there is none.       *)
LoaderBuilds(d) == Loader(d) = "efi" => d["nvram"] # Partial

(* The machine identifier has to be there and to be one.                   *)
PlatformBuilds(d) == Complete(d, "machine-id")

Device(f, ro) == [file |-> f, readOnly |-> ro]

Primary(d) == IF Exists(d, "disk") THEN <<Device("disk", FALSE)>>
              ELSE IF Exists(d, "boot.iso") THEN <<Device("boot.iso", TRUE)>>
              ELSE <<>>

(* The block devices, in the order the guest numbers them.                 *)
Storage(d, cfg) ==
  Primary(d)
    \o (IF DataListed(d, cfg) THEN <<Device("data", FALSE)>> ELSE <<>>)
    \o (IF Exists(d, "cidata") THEN <<Device("cidata", TRUE)>> ELSE <<>>)

StorageBuilds(d, cfg) == DataListed(d, cfg) => Exists(d, "data")

(* A mac.txt that cannot be read or parsed is passed over: the framework   *)
(* then makes up an address for this boot.                                 *)
HasOwnMAC(d) == Complete(d, "mac")

(* mem_gib times 2^30 in uint64, or two GiB where it is not given.         *)
MemBytes(mem) == IF mem > 0 THEN (mem * GiB) % Word ELSE 2 * GiB
Memory(d, cfg) == MemBytes(Decoded(d, cfg).mem)

(* Each share needs a tag and a directory.                                 *)
SharesBuild(d, cfg) == Decoded(d, cfg).shares # "broken"

(* The framework's own validation: no machine without memory.              *)
Valid(d, cfg) == Memory(d, cfg) > 0

Builds(d, cfg) ==
  /\ LoaderBuilds(d)
  /\ PlatformBuilds(d)
  /\ StorageBuilds(d, cfg)
  /\ SharesBuild(d, cfg)
  /\ Valid(d, cfg)
=============================================================================
