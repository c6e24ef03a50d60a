----------------------------- MODULE Grub2disk ------------------------------
(***************************************************************************)
(* grub2disk (grub2disk/main.go, grub/grub.go): grub-install and the menu, *)
(* for a BIOS or for the EFI system partition of one disk.  The tools and  *)
(* the firmware are modelled from their use.  The action is a record with  *)
(* `mode', `disk', `nvram' (REGISTER_NVRAM and an EFI_PARTITION that       *)
(* parses) and `mirror' (MIRROR_HOST).                                     *)
(***************************************************************************)
EXTENDS SerialConsole

CONSTANT Disks

ASSUME Grub2diskAssumption ==
    /\ None \notin {"seen", "hidden"}
    /\ \A d \in Documents : \A i \in DOMAIN d.plan : d.plan[i].kind = "grub2disk" =>
          d.plan[i].disk \in Disks /\ d.plan[i].mode \in {"bios", "efi"}

VARIABLES
    esp,    \* per disk: files in EFI/<id> ("shim", "grub"), BOOTX64.EFI, grubx64.efi beside it
    reads,  \* per disk: where its grub looks for grub.cfg, or None without one
    nvram   \* disks with a boot entry, which names shimx64.efi

loader == <<esp, reads, nvram>>

Grub2diskInit ==
    /\ esp = [d \in Disks |-> [vendor |-> {}, fallback |-> None, beside |-> FALSE]]
    /\ reads = [d \in Disks |-> None]
    /\ nvram = {}

\* fetchSiblings, then Enter: without a MIRROR_HOST, or when the metadata cannot
\* be had, the action goes on with the root alone.
BeginGrub2disk ==
    /\ At("grub2disk", "begin")
    /\ LET First == IF Act.mode = "bios" THEN "bios" ELSE "install"
       IN \/ Go(First, IF Act.mirror THEN 0 ELSE 1) /\ scars' = scars \ {<<"siblings", at>>}
          \/ Act.mirror /\ Slip /\ pc' = First /\ n' = 1 /\ scars' = scars \cup {<<"siblings", at>>}
    /\ UNCHANGED <<tree, grub, loader>>

BootView == View(n = 0)

DoBIOS ==
    /\ At("grub2disk", "bios")
    /\ reads' = [reads EXCEPT ![Act.disk] = BootView]
    /\ Go("mkconfig", n)
    /\ UNCHANGED <<tree, scars, grub, esp, nvram>>

\* grub-install copies what the image has packages for.
VendorFiles == IF doc.image.shim THEN {"shim", "grub"} ELSE {"grub"}

GrubInstall ==
    /\ At("grub2disk", "install")
    /\ reads' = [reads EXCEPT ![Act.disk] = BootView]
    /\ \/ esp' = [esp EXCEPT ![Act.disk].vendor = @ \cup VendorFiles] /\ Go("mkconfig", n)
       \/ \E part \in SUBSET VendorFiles : esp' = [esp EXCEPT ![Act.disk].vendor = @ \cup part] /\ Fault
    /\ UNCHANGED <<tree, scars, grub, nvram>>

\* grub-mkconfig ends the BIOS mode; update-grub goes on to the fallback.
UpdateGrub ==
    /\ At("grub2disk", "mkconfig")
    /\ MkConfig(BootView, IF Act.mode = "bios" THEN ActionDone ELSE Go("fallback", n))
    /\ UNCHANGED <<tree, scars, defaults, loader>>

FallbackSource(d) == IF "shim" \in esp[d].vendor THEN "shim" ELSE "grub"

\* Mutant: a fallback that is there is not copied over.
CopyFallbackOnce ==
    /\ At("grub2disk", "fallback")
    /\ \/ esp' = [esp EXCEPT ![Act.disk].fallback = IF @ = None THEN FallbackSource(Act.disk) ELSE @] /\ Go("beside", n)
       \/ esp' = [esp EXCEPT ![Act.disk].fallback = "torn"] /\ Fault
    /\ UNCHANGED <<tree, scars, grub, reads, nvram>>

\* BOOTX64.EFI: the shim if the disk has it, otherwise grub.
CopyFallback ==
    /\ At("grub2disk", "fallback")
    /\ \/ esp' = [esp EXCEPT ![Act.disk].fallback = FallbackSource(Act.disk)] /\ Go("beside", n)
       \/ esp' = [esp EXCEPT ![Act.disk].fallback = "torn"] /\ Fault
    /\ UNCHANGED <<tree, scars, grub, reads, nvram>>

\* grubx64.efi beside it; an error of this copy is dropped.
CopyGrub ==
    /\ At("grub2disk", "beside")
    /\ \/ esp' = [esp EXCEPT ![Act.disk].beside = TRUE] /\ Go("nvram", n) /\ scars' = scars \ {<<"beside", Act.disk>>}
       \/ /\ Slip /\ pc' = "nvram" /\ n' = n
          /\ esp' = [esp EXCEPT ![Act.disk].beside = FALSE]
          /\ scars' = scars \cup {<<"beside", Act.disk>>}
    /\ UNCHANGED <<tree, grub, reads, nvram>>

\* efibootmgr; that it fails is only warned of.
RegisterNVRAM ==
    /\ At("grub2disk", "nvram")
    /\ nvram' \in {nvram, IF Act.nvram THEN nvram \cup {Act.disk} ELSE nvram}
    /\ ActionDone
    /\ UNCHANGED <<tree, scars, grub, esp, reads>>

Grub2diskNext ==
    BeginGrub2disk \/ DoBIOS \/ GrubInstall \/ UpdateGrub \/ CopyFallback \/ CopyGrub \/ RegisterNVRAM

-----------------------------------------------------------------------------
(* What the firmware makes of a disk: the fallback path, where the shim     *)
(* loads the grubx64.efi beside it.                                         *)

FallbackBoots(d) ==
    \/ esp[d].fallback = "grub"
    \/ esp[d].fallback = "shim" /\ esp[d].beside
=============================================================================
