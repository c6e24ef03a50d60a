------------------------------- MODULE Kexec --------------------------------
(***************************************************************************)
(* kexec (kexec/cmd/kexec.go, cmd/grub/grub.go): load a kernel and jump    *)
(* into it, the one the plan names or the default of the target's          *)
(* grub.cfg, which ParseGrubCfg reads line by line.  The action is a       *)
(* record with KERNEL_PATH (`kernel'), `initrd', CMD_LINE (`args') and     *)
(* `onBoot': BLOCK_DEVICE and GRUBCFG_PATH name the filesystem of /boot.   *)
(***************************************************************************)
EXTENDS SerialConsole

VARIABLE booted   \* what was jumped into: [kernel, initrd, args], or None

KexecInit == booted = None

-----------------------------------------------------------------------------
(* ParseGrubCfg.                                                           *)

\* strconv.ParseInt(v, 8, 0) of a value with at most two decimal digits; what
\* cannot be parsed is 0.
ParseBase8(v) ==
    IF v = None \/ v % 10 > 7 \/ v \div 10 > 7 THEN 0 ELSE 8 * (v \div 10) + (v % 10)

NoConfig == [kernel |-> None, initrd |-> None, args |-> <<>>]

\* Entries count when they have a kernel and an initramfs.
Keep(p) == IF p.cfg.kernel # None /\ p.cfg.initrd # None THEN Append(p.configs, p.cfg) ELSE p.configs

\* Mutant: a menuentry goes on with the config of the one before it.
ParseLineShared(p, line) ==
    CASE line.kind = "set default" -> [p EXCEPT !.default = ParseBase8(line.val)]
      [] line.kind = "menuentry" -> [p EXCEPT !.configs = Keep(p), !.in = TRUE]
      [] line.kind = "linux" -> [p EXCEPT !.cfg.kernel = line.val, !.cfg.args = line.args]
      [] line.kind = "initrd" -> [p EXCEPT !.cfg.initrd = line.val]
      [] OTHER -> p

\* One line: p holds the entries kept so far, the entry being read and the last
\* default that was set.  A submenu line means nothing to it.
ParseLine(p, line) ==
    CASE line.kind = "set default" -> [p EXCEPT !.default = ParseBase8(line.val)]
      [] line.kind = "menuentry" -> [p EXCEPT !.configs = Keep(p), !.cfg = NoConfig, !.in = TRUE]
      [] line.kind = "linux" /\ p.in -> [p EXCEPT !.cfg.kernel = line.val, !.cfg.args = line.args]
      [] line.kind = "initrd" /\ p.in -> [p EXCEPT !.cfg.initrd = line.val]
      [] OTHER -> p

Parsed(lines) ==
    LET p[i \in 0..Len(lines)] ==
            IF i = 0 THEN [configs |-> <<>>, cfg |-> NoConfig, in |-> FALSE, default |-> 0]
            ELSE ParseLine(p[i - 1], lines[i])
    IN p

ParseGrubCfg(lines) ==
    LET p == Parsed(lines)[Len(lines)]
    IN [configs |-> Keep(p), default |-> p.default]

\* GetDefaultConfig: None without an entry; an index behind the entries panics,
\* and the action dies like with None.
GetDefaultConfig(lines) ==
    LET parsed == ParseGrubCfg(lines)
    IN IF parsed.default + 1 \in DOMAIN parsed.configs THEN parsed.configs[parsed.default + 1] ELSE None

-----------------------------------------------------------------------------
(* The steps.                                                              *)

\* Nothing that can be read or loaded is None.
ASSUME KexecAssumption == \A d \in Documents :
    LET image == d.image
        planned == {d.plan[i] : i \in {j \in DOMAIN d.plan : d.plan[j].kind = "kexec"}}
        kernels == (UNION {{image.menu[i].entries[j].kernel : j \in DOMAIN image.menu[i].entries} : i \in DOMAIN image.menu})
                   \cup (UNION {{a.kernel, a.initrd} : a \in planned})
        files == {image.defaults} \cup (IF d.console # None /\ image.defaults # None
                                        THEN {RewriteGrubDefaults(image.defaults, d.console)} ELSE {})
        cmdlines == {<<>>} \cup {Args(file) : file \in files} \cup {a.args : a \in planned}
    IN /\ None \notin {MenuOf(image, args) : args \in cmdlines}
       /\ None \notin [kernel : kernels, initrd : kernels, args : cmdlines]

\* The configuration that kexec would load, or None.
BootConfig ==
    IF Act.kernel # None
    THEN [kernel |-> Act.kernel, initrd |-> Act.initrd, args |-> IF Act.args = None THEN <<>> ELSE Act.args]
    ELSE LET lines == grubcfg[View(Act.onBoot)]
             found == IF lines = None THEN None ELSE GetDefaultConfig(lines)
         IN IF found # None /\ Act.args # None THEN [found EXCEPT !.args = Act.args] ELSE found

\* The files that are named are there; `files' are those of the image, the
\* kernels and each one's initramfs by one name.
Openable(c) == {c.kernel, c.initrd} \ {None} \subseteq doc.image.files

\* Mount, read grub.cfg unless the plan names a kernel, open the files.
BeginKexec ==
    /\ At("kexec", "begin")
    /\ IF BootConfig # None /\ Openable(BootConfig) THEN Go("load", 0) ELSE Refuse
    /\ UNCHANGED <<tree, scars, grub, booted>>

\* KexecFileLoad and reboot.  Without INITRD_PATH a directory is loaded, which
\* fails.  An error of the reboot is dropped: the action succeeds and the host
\* stays where it is.
LoadAndReboot ==
    /\ At("kexec", "load")
    /\ \/ BootConfig.initrd = None /\ Refuse /\ UNCHANGED booted
       \/ /\ BootConfig.initrd # None
          /\ status' = "booted" /\ booted' = BootConfig
          /\ UNCHANGED <<doc, at, pc, n, runs, faults, disturbed>>
       \/ BootConfig.initrd # None /\ ActionDone /\ UNCHANGED booted
    /\ UNCHANGED <<tree, scars, grub>>

KexecNext == BeginKexec \/ LoadAndReboot
=============================================================================
