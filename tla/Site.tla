-------------------------------- MODULE Site --------------------------------
(***************************************************************************)
(* core/src/site.rs: which file of the published directory a path names,    *)
(* why it names none, and when none is read out at all.                     *)
(*                                                                         *)
(* A path is the sequence of what follows each of its slashes: "/" is one   *)
(* empty segment, and so is what follows a slash at the end.                *)
(***************************************************************************)
EXTENDS Machine, Condition, TLC

Segment(kind, name, ext, flaws) == [kind |-> kind, name |-> name, ext |-> ext, flaws |-> flaws]

Index == "index.html"

(* SiteRoot::open and VaultRoot::open: a directory this process can see. *)
OpenRoot(m, dir) ==
    CASE dir = "" -> "empty"
      [] dir # "" /\ ~Exists(m, dir) -> "missing"
      [] OTHER -> "none"

HasIndex(m, dir) == Exists(m, NodeOf(dir, Index))

(* content_type: by the last extension, and nothing is guessed. *)
ContentTypes ==
    [html |-> "html", htm |-> "html", css |-> "css", js |-> "javascript", mjs |-> "javascript",
     json |-> "json", txt |-> "plain", md |-> "plain", xml |-> "xml", svg |-> "svg",
     png |-> "png", jpg |-> "jpeg", jpeg |-> "jpeg", gif |-> "gif", webp |-> "webp",
     avif |-> "avif", ico |-> "icon", woff2 |-> "woff2", woff |-> "woff", ttf |-> "ttf",
     pdf |-> "pdf", wasm |-> "wasm"]

ContentType(ext) == IF ext \in DOMAIN ContentTypes THEN ContentTypes[ext] ELSE "octet-stream"

(* What no segment of a path may be. *)
SegmentRefusal(segment) ==
    CASE segment.kind = "hidden" -> "hidden"
      [] segment.kind \in {"up", "odd"} -> "escape"
      [] segment.kind \in {"plain", "empty"} -> "none"

Published(path, ext) == [is |-> "file", path |-> path, type |-> ContentType(ext)]
Unpublished(why)     == [is |-> "refused", why |-> why]

(* resolve: the file itself, or the index of the directory. *)
Resolve(m, dir, path) ==
    LET refused == {i \in DOMAIN path : SegmentRefusal(path[i]) # "none"}
        named   == SelectSeq(path, LAMBDA s : s.kind # "empty")
        base    == FoldLeft(LAMBDA at, s : NodeOf(at, s.name), dir, named)
        index   == NodeOf(base, Index)
        aFile   == named # << >> /\ path[Len(path)].kind # "empty" /\ IsFile(m, base)
    IN  CASE refused # {} -> Unpublished(SegmentRefusal(path[Min(refused)]))
          [] refused = {} /\ aFile -> Published(base, named[Len(named)].ext)
          [] OTHER -> IF IsFile(m, index) THEN Published(index, "html")
                      ELSE Unpublished(IF Exists(m, base) THEN "no index" ELSE "not found")

(* status_for: whatever the reason, the same number. *)
StatusFor(why) == 404

-----------------------------------------------------------------------------
(* Availability. *)

ReadingOut == [by |-> "nothing", at |-> 0]

AvailabilityOf(level, stage) ==
    CASE ServesReaders(level, stage) -> ReadingOut
      [] ~MayServe(level) -> [by |-> "governor", at |-> level]
      [] OTHER -> [by |-> "outage", at |-> stage]
=============================================================================
