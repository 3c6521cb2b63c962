-------------------------------- MODULE Image --------------------------------
(***************************************************************************)
(* core/src/image.rs and cli/src/image.rs: what a device image claims of    *)
(* the machine it was verified on, and which of that this machine bears     *)
(* out.                                                                     *)
(*                                                                         *)
(* A manifest's line is [key, values]: its first word and the words after   *)
(* it; a blank line has no words at all.  A millivolt figure is a number    *)
(* here, anything else a name.                                              *)
(***************************************************************************)
EXTENDS Panel

ManifestKeys == <<"name", "version", "kernel", "compatible", "max-charge-mv">>
TextKeys     == SubSeq(ManifestKeys, 1, 4)
Millivolts   == 0..100000

Header    == [is |-> "header"]
BlankLine == [is |-> "blank"]
Line(key, values) == [is |-> "line", key |-> key, values |-> values]

(* ImageError *)
ImageErrors == {"not a manifest", "unknown key", "duplicate key", "missing key", "blank",
                "not a number", "extra words", "no ceiling"}

NoError == "none"

(* The lines that say something. *)
SayingLines(lines) == {i \in 2..Len(lines) : lines[i].is # "blank"}

(* Key::of its first word; the header's is none this build knows. *)
KeyOf(line) == IF line.is = "header" THEN "header" ELSE line.key

(* What is wrong with a line, by the lines before it; a key said twice is   *)
(* refused before its value is looked at (set_once, set_millivolts).        *)
LineError(lines, i) ==
    IF KeyOf(lines[i]) \notin ToSet(ManifestKeys) THEN "unknown key"
    ELSE IF Len(lines[i].values) = 0 THEN "blank"
    ELSE IF Len(lines[i].values) > 1 THEN "extra words"
    ELSE IF \E j \in SayingLines(lines) : j < i /\ KeyOf(lines[j]) = KeyOf(lines[i])
      THEN "duplicate key"
    ELSE IF KeyOf(lines[i]) = "max-charge-mv" /\ lines[i].values[1] \notin Millivolts
      THEN "not a number"
    ELSE NoError

(* What the lines say, each key what its line gives it. *)
Said(lines) ==
    [key \in {KeyOf(lines[i]) : i \in SayingLines(lines)} |->
        lines[CHOOSE i \in SayingLines(lines) : KeyOf(lines[i]) = key].values[1]]

(* Manifest::new: no ceiling is refused before a blank field. *)
NewManifest(said) ==
    CASE said["max-charge-mv"] = 0 -> "no ceiling"
      [] said["max-charge-mv"] # 0 /\ (\E i \in DOMAIN TextKeys : said[TextKeys[i]] = "") -> "blank"
      [] OTHER -> NoError

(* Manifest::parse: the header, the first line that is refused, every key. *)
ParseManifest(lines) ==
    LET wrong     == {i \in SayingLines(lines) : LineError(lines, i) # NoError}
        fail(why) == [said |-> [k \in {} |-> ""], error |-> why]
    IN  IF lines = << >> \/ lines[1] # Header THEN fail("not a manifest")
        ELSE IF wrong # {} THEN fail(LineError(lines, Min(wrong)))
        ELSE IF ~(ToSet(ManifestKeys) \subseteq DOMAIN Said(lines)) THEN fail("missing key")
        ELSE IF NewManifest(Said(lines)) # NoError THEN fail(NewManifest(Said(lines)))
        ELSE [said |-> Said(lines), error |-> NoError]

(* Manifest::render *)
RenderManifest(said) == <<Header>> \o [i \in DOMAIN ManifestKeys |->
                                          Line(ManifestKeys[i], <<said[ManifestKeys[i]]>>)]

-----------------------------------------------------------------------------
(* What is checked, and what came of it. *)

Subjects == {"kernel", "device tree", "charge voltage"}

Statuses == {"matched", "differed", "absent", "unreadable"}

(* Status::outcome: only a check that was made and failed is a mismatch. *)
OutcomeOfStatus(status) ==
    CASE status = "matched" -> "verified"
      [] status = "differed" -> "mismatched"
      [] OTHER -> "unverified"

OsRelease     == "/proc/sys/kernel/osrelease"
TreeRoots     == <<"/proc/device-tree", "/sys/firmware/devicetree/base">>
ChargeVoltage == "charger/max-charge-voltage-mv"
CompatibleProperty == "compatible"
ToleranceMv   == 25

Check(subject, status) == [subject |-> subject, status |-> status]

(* check_kernel: the running kernel is a text of one word, or of none. *)
CheckKernel(m, said) ==
    LET release == FileAt(m, OsRelease)
    IN  Check("kernel",
            CASE release.is = "text" /\ release.words # {} ->
                    IF said.kernel \in release.words THEN "matched" ELSE "differed"
              [] release.is = "missing" -> "absent"
              [] OTHER -> "unreadable")

(* read_tree: the first root that reads, an unreadable one is passed over. *)
ReadTree(m, property) ==
    LET at(i)   == FileAt(m, NodeOf(TreeRoots[i], property))
        reading == {i \in DOMAIN TreeRoots : at(i).is \in {"text", "number"}}
    IN  CASE reading # {} -> at(Min(reading))
          [] reading = {} /\ (\E i \in DOMAIN TreeRoots : at(i).is # "missing") -> Locked
          [] OTHER -> Missing

(* check_device_tree *)
CheckDeviceTree(m, said) ==
    LET tree == ReadTree(m, CompatibleProperty)
    IN  Check("device tree",
            CASE tree.is = "text" /\ tree.words # {} ->
                    IF said.compatible \in tree.words THEN "matched" ELSE "differed"
              [] tree.is = "missing" -> "absent"
              [] OTHER -> "unreadable")

Apart(a, b) == IF a > b THEN a - b ELSE b - a

(* Mutant of CheckChargeVoltage: only a figure above the declared differs. *)
CheckChargeVoltageAbove(m, said) ==
    LET tree == ReadTree(m, ChargeVoltage)
    IN  Check("charge voltage", IF tree.is # "number" THEN "unreadable"
            ELSE IF tree.n > said["max-charge-mv"] THEN "differed" ELSE "matched")

(* check_charge_voltage *)
CheckChargeVoltage(m, said) ==
    LET tree == ReadTree(m, ChargeVoltage)
    IN  Check("charge voltage",
            CASE tree.is = "number" ->
                    IF Apart(tree.n, said["max-charge-mv"]) <= ToleranceMv
                    THEN "matched" ELSE "differed"
              [] tree.is = "missing" -> "absent"
              [] OTHER -> "unreadable")

CheckImage(m, said) ==
    <<CheckKernel(m, said), CheckDeviceTree(m, said), CheckChargeVoltage(m, said)>>

(* Report::outcome: the worst of them; a report with none has not passed. *)
OutcomeOf(checks) ==
    LET came == {OutcomeOfStatus(checks[i].status) : i \in DOMAIN checks}
    IN  IF "mismatched" \in came THEN "mismatched"
        ELSE IF came = {"verified"} THEN "verified" ELSE "unverified"

(* image::run: the manifest is text, or does not open; the exit code is the *)
(* verdict.                                                                 *)
ImageReport(m, manifest) ==
    LET read == ParseManifest(manifest)
    IN  IF manifest = << >> \/ read.error # NoError
        THEN [checks |-> << >>, exit |-> ExitUsage]
        ELSE LET checks == CheckImage(m, read.said)
             IN  [checks |-> checks,
                  exit |-> CASE OutcomeOf(checks) = "verified" -> ExitProtected
                             [] OutcomeOf(checks) = "unverified" -> ExitUnverified
                             [] OutcomeOf(checks) = "mismatched" -> ExitUnsafe]
=============================================================================
