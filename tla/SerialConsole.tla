--------------------------- MODULE SerialConsole ----------------------------
(***************************************************************************)
(* serial-console (cmd/main.go, internal/serial/serial.go): put the        *)
(* console of the metadata into grub's defaults and run grub-mkconfig.     *)
(* The defaults are `cmdline', the console= tokens <<tty, baud>> in order, *)
(* and `serial', the <<unit, baud>> of GRUB_SERIAL_COMMAND or None.  A tty *)
(* is <<"ttyS", unit>> or another device; all other text is left out.      *)
(***************************************************************************)
EXTENDS Target, SequencesExt

VARIABLES
    defaults,  \* grub.d/50-cloudimg-settings.cfg, or None
    grubcfg    \* the lines of /boot/grub/grub.cfg, or None: "seen" at boot, and
               \* "hidden", on the root below the mount, where /boot is a sibling

grub == <<defaults, grubcfg>>

DefaultBaud == 115200
IsSerial(tty) == tty[1] = "ttyS"

SerialConsoleInit == defaults = doc.image.defaults /\ grubcfg = [seen |-> doc.image.grubcfg, hidden |-> None]

Baud(c) == IF c.baud = 0 THEN DefaultBaud ELSE c.baud

\* ttyUnit: 0 for what is not a ttyS.
TTYUnit(tty) == IF IsSerial(tty) THEN tty[2] ELSE 0

\* Mutant: only a token with the unit of the metadata is replaced.
RewriteSameUnit(file, c) ==
    [file EXCEPT !.cmdline = [i \in DOMAIN @ |-> IF @[i][1] = c.tty THEN <<c.tty, Baud(c)>> ELSE @[i]]]

\* Every serial token becomes the console of the metadata, and so does the
\* serial command; neither is added where it is missing.  A serial command
\* whose flags do not begin with --speed and --unit in this order is not matched
\* (serial.go:37): to this model a file with such a line has no serial command.
RewriteGrubDefaults(file, c) ==
    [file EXCEPT
        !.cmdline = [i \in DOMAIN @ |-> IF IsSerial(@[i][1]) THEN <<c.tty, Baud(c)>> ELSE @[i]],
        !.serial = IF @ = None THEN None ELSE <<TTYUnit(c.tty), Baud(c)>>]

-----------------------------------------------------------------------------
(* grub-mkconfig, which grub2disk runs too: the menu of the image, each     *)
(* kernel with the command line of the defaults.  An entry is a kernel      *)
(* (None for a chain loader) and whether it has an initramfs; an item of    *)
(* the menu is an entry or a submenu, a sequence of entries.                *)

GrubLine(k, v) == [kind |-> k, val |-> v, args |-> <<>>]

EntryLines(e, args) ==
    <<GrubLine("menuentry", None)>>
    \o (IF e.kernel = None THEN <<GrubLine("other", None)>>
        ELSE <<[kind |-> "linux", val |-> e.kernel, args |-> args]>>)
    \o (IF e.initrd THEN <<GrubLine("initrd", e.kernel)>> ELSE <<>>)

ItemLines(item, args) ==
    IF item.submenu
    THEN <<GrubLine("submenu", None)>> \o FlattenSeq([i \in DOMAIN item.entries |-> EntryLines(item.entries[i], args)])
    ELSE EntryLines(item.entries[1], args)

\* GRUB_DEFAULT is a number, or None for an expression like ${saved_entry}.
MenuOf(image, args) ==
    <<GrubLine("set default", image.default)>>
    \o FlattenSeq([i \in DOMAIN image.menu |-> ItemLines(image.menu[i], args)])

Args(file) == IF file = None THEN <<>> ELSE file.cmdline
Menu == MenuOf(doc.image, Args(defaults))

\* An image has a menu with entries; a menu it comes with is grub-mkconfig's.
ASSUME GrubAssumption == \A d \in Documents :
    LET image == d.image
    IN /\ image.menu \in Seq({image.menu[i] : i \in DOMAIN image.menu}) /\ Len(image.menu) > 0
       /\ \A i \in DOMAIN image.menu :
             LET entries == image.menu[i].entries
             IN /\ image.menu[i].submenu \in BOOLEAN
                /\ entries \in Seq({entries[j] : j \in DOMAIN entries}) /\ Len(entries) > 0
                /\ \A j \in DOMAIN entries : entries[j].initrd \in BOOLEAN /\ (entries[j].initrd => entries[j].kernel # None)
       /\ image.default \in Nat \cup {None}
       /\ image.grubcfg \in {None, MenuOf(image, Args(image.defaults))}
       /\ image.defaults # None =>
             /\ image.defaults = [cmdline |-> image.defaults.cmdline, serial |-> image.defaults.serial]
             /\ image.defaults.cmdline \in Seq({image.defaults.cmdline[i] : i \in DOMAIN image.defaults.cmdline})
             /\ d.console # None => RewriteGrubDefaults(image.defaults, d.console) # None

\* A file that was cut off is still a file.
ASSUME TornAssumption == None # [cmdline |-> <<>>, serial |-> None]

\* /boot as an action finds it, and the menu made there: below the mount lies no
\* kernel.
View(siblings) == IF siblings \/ "boot" \notin doc.siblings THEN "seen" ELSE "hidden"
MenuIn(view) == IF view = "seen" THEN Menu ELSE <<GrubLine("set default", doc.image.default)>>

\* It writes the file anew, and may leave it empty.
MkConfig(view, Then) ==
    \/ grubcfg' = [grubcfg EXCEPT ![view] = MenuIn(view)] /\ Then
    \/ (grubcfg' = grubcfg \/ grubcfg' = [grubcfg EXCEPT ![view] = <<>>]) /\ Fault

-----------------------------------------------------------------------------
(* The steps.                                                              *)

\* Without a console in the metadata there is nothing to do; the image must
\* have the file of defaults.
BeginSerialConsole ==
    /\ At("serial-console", "begin")
    /\ \/ doc.console = None /\ ActionDone
       \/ doc.console # None /\ defaults # None /\ Go("rewrite", 0)
       \/ doc.console # None /\ defaults = None /\ Refuse
    /\ UNCHANGED <<tree, scars, grub>>

\* Read, rewrite, write; WriteFile truncates before it writes.
RewriteDefaults ==
    /\ At("serial-console", "rewrite")
    /\ \/ defaults' = RewriteGrubDefaults(defaults, doc.console) /\ Go("mkconfig", 0) /\ UNCHANGED scars
       \/ defaults' = [cmdline |-> <<>>, serial |-> None] /\ Fault /\ scars' = scars \cup {<<"defaults", "defaults">>}
    /\ UNCHANGED <<tree, grubcfg>>

\* A chmod that fails after it is only warned of.
RunMkConfig ==
    /\ At("serial-console", "mkconfig")
    /\ MkConfig(View(TRUE), ActionDone)
    /\ UNCHANGED <<tree, scars, defaults>>

SerialConsoleNext == BeginSerialConsole \/ RewriteDefaults \/ RunMkConfig
=============================================================================
