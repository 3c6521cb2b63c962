------------------------------- MODULE Policy -------------------------------
(***************************************************************************)
(* core/src/csp.rs and core/src/headers.rs: what a page of this cell may    *)
(* load, built one directive at a time, and the headers sent beside it.     *)
(*                                                                         *)
(* A policy is a function from the directives it names to their sources; it *)
(* is written out in the order of their names once one was replaced.        *)
(***************************************************************************)
EXTENDS Naturals, FiniteSets, TLC

(* Source, and the origins that are allowed: the list is closed and empty.  *)
Plain           == {"none", "own", "nonce", "data", "https"}
Origins         == {"origin"}
Sources         == Plain \cup Origins
PassiveOnly     == {"data", "https"}
AllowedOrigins  == {}

Executable == {"default-src", "script-src", "script-src-elem", "worker-src", "object-src"}

NoEndpoint == "none"

LockedDown ==
    [directives |-> [d \in {"default-src", "frame-ancestors", "base-uri", "object-src"} |-> {"none"}]
                        @@ ("form-action" :> {"own"}),
     reportTo |-> NoEndpoint]

PolicyErrors == {"passive source on an executable directive", "origin not allowed",
                 "endpoint not local"}

Allowable(directive, sources) ==
    /\ directive \in Executable => sources \cap PassiveOnly = {}
    /\ sources \cap Origins \subseteq AllowedOrigins

(* Policy::allow: the whole directive is replaced, and none never stands    *)
(* beside another source; what is refused changes nothing.                  *)
Allow(policy, directive, sources) ==
    IF Allowable(directive, sources)
    THEN [policy EXCEPT !.directives =
            (directive :> (IF Cardinality(sources) > 1 THEN sources \ {"none"} ELSE sources)) @@ @]
    ELSE policy

Endpoints == [local : BOOLEAN, name : STRING]

(* Policy::report_to: a path of this origin, or nothing. *)
ReportTo(policy, endpoint) ==
    IF endpoint.local THEN [policy EXCEPT !.reportTo = endpoint.name] ELSE policy

OwnPages(policy) ==
    Allow(Allow(Allow(Allow(policy, "style-src", {"own"}), "img-src", {"own", "data"}),
                "font-src", {"own"}), "connect-src", {"own"})

ControlSurface == ReportTo(OwnPages(Allow(LockedDown, "script-src", {"nonce"})),
                           [local |-> TRUE, name |-> "/csp-report"])

PublishedSite == Allow(OwnPages(Allow(LockedDown, "script-src", {"own"})), "media-src", {"own"})

(* Nonce::new: 22 characters of base64url carry 128 bits. *)
NonceMinLen == 22
NewNonce(length, legal) ==
    CASE length < NonceMinLen -> "too short"
      [] length >= NonceMinLen /\ ~legal -> "illegal character"
      [] OTHER -> "none"

(* Policy::render: every nonce source is the one of this response. *)
RenderPolicy(policy, nonce) ==
    [directives |-> [d \in DOMAIN policy.directives |->
        {IF s = "nonce" THEN nonce ELSE s : s \in policy.directives[d]}],
     reportTo |-> policy.reportTo]

-----------------------------------------------------------------------------
(* The headers. *)

HeaderModes == {"enforce", "report only"}
Referrers   == {"no-referrer", "same-origin", "strict-origin-when-cross-origin"}

HeaderName(mode) == IF mode = "enforce" THEN "Content-Security-Policy"
                    ELSE "Content-Security-Policy-Report-Only"

HstsMinAge == 60 * 60 * 24 * 180
OneYear    == [age |-> 60 * 60 * 24 * 365, subdomains |-> TRUE]

(* Hsts::new: shorter is not a commitment. *)
NewHsts(age, subdomains) == IF age < HstsMinAge THEN {} ELSE {[age |-> age, subdomains |-> subdomains]}

(* Hsts::value, by what it commits to. *)
HstsValue(h) == <<h.age, h.subdomains>>

Production(policy) ==
    [policy |-> policy, mode |-> "enforce", referrer |-> "no-referrer", hsts |-> {OneYear}]
Developing(policy) ==
    [policy |-> policy, mode |-> "report only", referrer |-> "same-origin", hsts |-> {}]

Sensors == {"accelerometer", "autoplay", "camera", "display-capture", "encrypted-media",
            "geolocation", "gyroscope", "magnetometer", "microphone", "midi", "payment",
            "usb", "xr-spatial-tracking"}

(* SecurityHeaders::render *)
RenderHeaders(h, nonce) ==
    (HeaderName(h.mode) :> RenderPolicy(h.policy, nonce))
        @@ ("X-Content-Type-Options" :> "nosniff")
        @@ ("X-Frame-Options" :> "DENY")
        @@ ("Referrer-Policy" :> h.referrer)
        @@ ("Permissions-Policy" :> [s \in Sensors |-> {}])
        @@ ("Cross-Origin-Opener-Policy" :> "same-origin")
        @@ ("Cross-Origin-Resource-Policy" :> "same-origin")
        @@ ("Cross-Origin-Embedder-Policy" :> "require-corp")
        @@ [s \in {"Strict-Transport-Security" : v \in h.hsts} |->
              HstsValue(CHOOSE v \in h.hsts : TRUE)]
=============================================================================
