-------------------------------- MODULE Tier --------------------------------
(***************************************************************************)
(* core/src/tier.rs: which kind of device this is.  Five probes look at the *)
(* machine, each leaves a finding, and decide weighs what they found.       *)
(***************************************************************************)
EXTENDS Machine

Tiers == {"T0", "T1", "T2", "T3"}

(* Verdict: [is, tier] when established, [is, why] when not. *)
Established(tier)  == [is |-> "established", tier |-> tier]
Unestablished(why) == [is |-> "unverified", why |-> why]
UnknownTier        == [is |-> "unknown"]

(* Verdict::tier, as the set of the tier there is. *)
TierOf(verdict) == IF verdict.is = "established" THEN {verdict.tier} ELSE {}

Finding(what, found, because) == [what |-> what, found |-> found, because |-> because]

Userspaces == {"android", "not android"}
Privileges == {"root", "unprivileged"}
Platforms  == {"virtualised", "bare"}
Silicons   == {"mobile", "not mobile", "unreadable"}
Assertions == {"android guest", "absent"}

Signals == [userspace : Userspaces, privilege : Privileges, platform : Platforms,
            silicon : Silicons, assertion : Assertions]

AndroidMarkers == {"/system/build.prop", "/system/bin/getprop", "/init.environ.rc"}
AndroidRoots   == {"ANDROID_ROOT", "ANDROID_DATA"}

ProbeAndroid(m) ==
    CASE \E f \in AndroidMarkers : Exists(m, f) ->
            Finding("android userspace", TRUE, "marker")
      [] SaysAny(m, "/proc/version", {"Android"}) ->
            Finding("android userspace", TRUE, "version")
      [] \E v \in AndroidRoots : EnvOf(m, v) # {} ->
            Finding("android userspace", TRUE, "environment")
      [] OTHER -> Finding("android userspace", FALSE, "no marker")

ProbeRoot(m) == Finding("root", EffectiveUser(m) = 0, "effective user")

DmiVendors == {"/sys/class/dmi/id/sys_vendor", "/sys/devices/virtual/dmi/id/sys_vendor"}

(* A hypervisor's own file that is blank says nothing. *)
ProbeVirtualised(m) ==
    CASE FileAt(m, "/sys/hypervisor/type").is = "text"
            /\ FileAt(m, "/sys/hypervisor/type").words # {} ->
            Finding("virtualised", TRUE, "hypervisor type")
      [] SaysAny(m, "/proc/cpuinfo", {"hypervisor"}) -> Finding("virtualised", TRUE, "cpuinfo")
      [] \E v \in DmiVendors : SaysAny(m, v, {"QEMU"}) -> Finding("virtualised", TRUE, "vendor")
      [] OTHER -> Finding("virtualised", FALSE, "no signal")

DeviceTrees == <<"/proc/device-tree/compatible", "/sys/firmware/devicetree/base/compatible">>
MobileSocs  == {"qcom,", "mediatek,", "exynos", "samsung,", "hisilicon", "rockchip"}

(* The first root that is unreadable or names a mobile part settles it, in  *)
(* the order they are asked: a second root is not asked once one would not  *)
(* open.                                                                    *)
ProbeMobileHardware(m) ==
    LET locked(i) == Exists(m, DeviceTrees[i]) /\ ~Readable(m, DeviceTrees[i])
        mobile(i) == SaysAny(m, DeviceTrees[i], MobileSocs)
        settling  == {i \in DOMAIN DeviceTrees : locked(i) \/ mobile(i)}
    IN  CASE settling = {} -> Finding("mobile hardware", FALSE, "names none")
          [] settling # {} /\ mobile(Min(settling)) -> Finding("mobile hardware", TRUE, "named")
          [] OTHER -> Finding("mobile hardware", FALSE, "unreadable")

AssertionEnv == "VAYUCELL_HOST_ASSERTION"

ProbeShellAssertion(m) ==
    CASE EnvOf(m, AssertionEnv) = {} -> Finding("shell assertion", FALSE, "not set")
      [] "android-guest" \in EnvOf(m, AssertionEnv) -> Finding("shell assertion", TRUE, "set")
      [] OTHER -> Finding("shell assertion", FALSE, "unrecognised")

(* The findings in the order the probes run. *)
Findings(m) == <<ProbeAndroid(m), ProbeRoot(m), ProbeVirtualised(m),
                 ProbeMobileHardware(m), ProbeShellAssertion(m)>>

SignalsOf(found) ==
    [userspace |-> IF found[1].found THEN "android" ELSE "not android",
     privilege |-> IF found[2].found THEN "root" ELSE "unprivileged",
     platform  |-> IF found[3].found THEN "virtualised" ELSE "bare",
     silicon   |-> CASE found[4].found -> "mobile"
                     [] ~found[4].found /\ found[4].because = "unreadable" -> "unreadable"
                     [] OTHER -> "not mobile",
     assertion |-> IF found[5].found THEN "android guest" ELSE "absent"]

(* decide: a guest needs both the machine's word and the shell's; what could*)
(* not be read is not an answer.                                            *)
Decide(s) ==
    IF s.platform = "virtualised" /\ s.assertion = "android guest" THEN Established("T2")
    ELSE IF s.userspace = "android"
      THEN Established(IF s.privilege = "root" THEN "T1" ELSE "T0")
    ELSE IF s.silicon = "mobile" THEN Established("T3")
    ELSE IF s.platform = "virtualised" THEN Unestablished("nothing establishes a handset")
    ELSE IF s.silicon = "unreadable" THEN Unestablished("device tree unreadable")
    ELSE UnknownTier

Detect(m) == [verdict |-> Decide(SignalsOf(Findings(m))), findings |-> Findings(m)]
=============================================================================
