---------------------------- MODULE ImageFamily ----------------------------
(***************************************************************************)
(* How image selector terms become the images of a NodeClass               *)
(* (pkg/providers/imagefamily), and how a GKE version is chosen for a      *)
(* release channel (pkg/providers/gke/version.go).                         *)
(*                                                                         *)
(* An image name is a record: the cluster version and the GKE build it is  *)
(* for, its OS release and its variant.  "other" is the variant of the     *)
(* specialised builds that the regular expressions reject.  The listing of *)
(* an image project is a sequence, newest first, of what was listed;       *)
(* world[name] is what a lookup by name answers by then.                   *)
(***************************************************************************)
EXTENDS Naturals, Sequences

CONSTANTS
    Worlds,     \* bound: the listings and lookups that are tried
    Channels,   \* bound: the release channels that are tried
    Minors      \* bound: the minor versions of the cluster

Elems(seq) == {seq[i] : i \in DOMAIN seq}

cosVariantOrder == <<"amd64", "arm64", "nvidia">>
ubuntuArchitectures == <<"amd64", "arm64">>

(* A lookup finds an image "ready" and in use, READY but "deprecated",     *)
(* "pending" (not READY) or "missing" (a typed 404); any other failure of  *)
(* the call is an "error".                                                 *)

NoName == [key |-> 0, build |-> 0, release |-> 0, variant |-> "none"]

Failed(reason) == [err |-> reason, images |-> <<>>]
Found(images) == [err |-> "none", images |-> images]

imageUsable(state) == state = "ready"
imageReady(state) == state # "pending"

lookupImage(world, name) == IF name \in DOMAIN world THEN world[name] ELSE "missing"

(* The pages of a listing are visited in order until visit asks to stop.   *)
scanImages(listing, base, visit(_, _)) ==
    LET after[i \in 0..Len(listing)] ==
            IF i = 0 THEN base
            ELSE IF after[i - 1].stop THEN after[i - 1]
            ELSE visit(after[i - 1], listing[i])
    IN  after[Len(listing)]

-----------------------------------------------------------------------------
(* Container-Optimized OS.                                                 *)

classified(name) == name.variant \in Elems(cosVariantOrder)

(* The requirements of an image: an architecture, and a GPU or not. *)
cosVariantRequirements(variant) ==
    CASE variant = "arm64"  -> [arch |-> "arm64", gpu |-> {FALSE}]
      [] variant = "nvidia" -> [arch |-> "amd64", gpu |-> {TRUE}]
      [] OTHER              -> [arch |-> "amd64", gpu |-> {FALSE}]

cosImage(name) == [name |-> name, reqs |-> cosVariantRequirements(name.variant)]

(* cosImageNameScope: the cluster's patch version, or every GKE image when *)
(* that is not known (key 0).                                              *)
inScope(name, key) == key = 0 \/ name.key = key

usableCOSVariant(img, key) ==
    classified(img.name) /\ inScope(img.name, key) /\ imageUsable(img.state)

(* A plausible slip: the state in the listing is trusted. *)
visitLatestListed(s, img, world, key) ==
    IF ~usableCOSVariant(img, key) \/ s.selected[img.name.variant] # NoName
    THEN s
    ELSE LET selected == [s.selected EXCEPT ![img.name.variant] = img.name] IN
         [s EXCEPT !.selected = selected,
                   !.stop = \A v \in DOMAIN selected : selected[v] # NoName]

(* The newest candidate of each variant; one that has vanished since it    *)
(* was listed does not displace an older one, a failing lookup ends it.    *)
visitLatest(s, img, world, key) ==
    LET now == lookupImage(world, img.name)
        selected == IF imageUsable(now)
                    THEN [s.selected EXCEPT ![img.name.variant] = img.name]
                    ELSE s.selected
    IN  IF ~usableCOSVariant(img, key) \/ s.selected[img.name.variant] # NoName
        THEN s
        ELSE IF now = "error" THEN [s EXCEPT !.stop = TRUE, !.failed = TRUE]
        ELSE [s EXCEPT !.selected = selected,
                       !.stop = \A v \in DOMAIN selected : selected[v] # NoName]

resolveLatestCOSImages(w, key) ==
    LET none == [v \in Elems(cosVariantOrder) |-> NoName]
        s == scanImages(w.listing,
                        [stop |-> FALSE, failed |-> FALSE, selected |-> none],
                        LAMBDA t, img : visitLatest(t, img, w.world, key))
        names == SelectSeq([i \in 1..3 |-> s.selected[cosVariantOrder[i]]],
                           LAMBDA name : name # NoName)
    IN  CASE s.failed     -> Failed("lookup")
          [] names = <<>> -> Failed("unavailable")
          [] OTHER        -> Found([i \in DOMAIN names |-> cosImage(names[i])])

(* The newest usable amd64 CPU image of a build, or of any build in scope  *)
(* when build is 0; the base for the names of the other variants.          *)
firstCOSBase(listing, key, build) ==
    scanImages(listing, [stop |-> FALSE, name |-> NoName],
        LAMBDA s, img :
            IF /\ usableCOSVariant(img, key)
               /\ img.name.variant = "amd64"
               /\ build = 0 \/ img.name.build = build
            THEN [stop |-> TRUE, name |-> img.name]
            ELSE s).name

(* resolveImages: the names of the variants are derived, not looked up. *)
variantsOf(base) ==
    [i \in 1..3 |-> cosImage([base EXCEPT !.variant = cosVariantOrder[i]])]

(* A milestone pin (release # 0) replaces the OS release of the base. *)
pinned(base, release) == IF release = 0 THEN base ELSE [base EXCEPT !.release = release]

derivedCOSImages(w, key, build, release) ==
    LET base == firstCOSBase(w.listing, key, build) IN
    IF base = NoName
    THEN Failed("unavailable")
    ELSE Found(variantsOf(pinned(base, release)))

-----------------------------------------------------------------------------
(* Ubuntu.  The release letter and date of an image are its "release".     *)

ubuntuRequirementsForArch(arch) ==
    [arch |-> arch, gpu |-> IF arch = "arm64" THEN {FALSE} ELSE BOOLEAN]

isUsableForArch(img, arch) == imageUsable(img.state) /\ img.name.variant = arch

(* The newest match of each architecture, then one for every architecture: *)
(* a set for one of them only is not good enough.                          *)
listImages(listing, key, release) ==
    scanImages(listing,
        [stop |-> FALSE, best |-> [a \in Elems(ubuntuArchitectures) |-> NoName]],
        LAMBDA s, img :
            IF ~inScope(img.name, key) \/ (release # 0 /\ img.name.release # release)
            THEN s
            ELSE LET best == [a \in DOMAIN s.best |->
                                IF s.best[a] = NoName /\ isUsableForArch(img, a)
                                THEN img.name ELSE s.best[a]]
                 IN  [stop |-> \A a \in DOMAIN best : best[a] # NoName, best |-> best]).best

ubuntuImages(best) ==
    [i \in 1..2 |-> [name |-> best[ubuntuArchitectures[i]],
                     reqs |-> ubuntuRequirementsForArch(ubuntuArchitectures[i])]]

UbuntuResolveImages(w, key, release) ==
    LET best == listImages(w.listing, key, release) IN
    IF \E a \in DOMAIN best : best[a] = NoName
    THEN Failed("resolution")
    ELSE Found(ubuntuImages(best))

-----------------------------------------------------------------------------
(* The provider.  A term selects a family at a version: the latest, an     *)
(* exact GKE build, or a pinned OS release.                                *)

(* A plausible slip: derived names are taken to exist. *)
ensureNothing(cos, latest, ims, world) == Found(ims)

(* COS omits what it cannot use; Ubuntu omits what is absent but fails on  *)
(* what is not READY.                                                      *)
ensureImagesAvailable(cos, latest, ims, world) ==
    LET now(im) == lookupImage(world, im.name)
        stops(im) == now(im) = "error" \/ (~cos /\ ~imageReady(now(im)))
        kept == SelectSeq(ims, LAMBDA im : IF cos THEN imageUsable(now(im))
                                                  ELSE now(im) # "missing")
        stopped == SelectSeq(ims, LAMBDA im : stops(im))
    IN  IF cos /\ latest THEN Found(ims)
        ELSE IF stopped # <<>>
        THEN Failed(IF now(stopped[1]) = "error" THEN "lookup" ELSE "unavailable")
        ELSE IF kept = <<>> THEN Failed(IF cos THEN "unavailable" ELSE "resolution")
        ELSE Found(kept)

resolveFamilyTerm(w, t) ==
    LET cos == t.family = "cos"
        latest == t.build = 0 /\ t.release = 0
        r == CASE cos /\ latest -> resolveLatestCOSImages(w, t.key)
               [] cos /\ ~latest -> derivedCOSImages(w, t.key, t.build, t.release)
               [] OTHER -> UbuntuResolveImages(w, t.key, t.release)
    IN  IF r.err # "none" THEN r
        ELSE ensureImagesAvailable(cos, latest, r.images, w.world)

(* FindImage: the first image whose requirements the machine meets. *)
FindImage(images, machine) ==
    LET fit == SelectSeq(images, LAMBDA im : /\ im.reqs.arch = machine.arch
                                             /\ machine.gpu \in im.reqs.gpu)
    IN  IF fit = <<>> THEN NoName ELSE fit[1].name

-----------------------------------------------------------------------------
(* Release channels.  A version is its minor, patch and GKE build; minor 0 *)
(* stands for one that does not parse, or no version at all.               *)

(* sort.Slice compares numbers only: the build is not among them, and      *)
(* among equals any may come first.                                        *)
highestVersionForMinor(versions, minor) ==
    LET candidates == {v \in versions : v.minor = minor}
    IN  {v \in candidates : \A o \in candidates : o.patch <= v.patch}

(* A plausible slip: the default of the channel is taken as it is. *)
ResolveDefault(ch, minor) ==
    IF ch.default.minor # 0 THEN {ch.default}
    ELSE highestVersionForMinor(ch.valid, minor)

(* The versions that may be chosen; none is an error. *)
ResolveVersionForChannel(ch, minor) ==
    IF ch.default.minor = minor THEN {ch.default}
    ELSE highestVersionForMinor(ch.valid, minor)

-----------------------------------------------------------------------------

Terms == [family : {"cos", "ubuntu"}, key : {0, 1}, build : {0, 1, 2}, release : {0, 2}]
FamilyTerms == {t \in Terms : /\ t.build # 0 => t.release = 0 /\ t.key # 0
                              /\ t.family = "ubuntu" => t.build = 0}

(* The inputs for which a property of module MCNodeClass would not hold. *)

LatestGoesWrong(w, key) ==
    LET r == resolveLatestCOSImages(w, key)
        at(v) == {i \in DOMAIN w.listing : /\ w.listing[i].name.variant = v
                                           /\ usableCOSVariant(w.listing[i], key)}
        now(i) == lookupImage(w.world, w.listing[i].name)
        newest(v) == {i \in at(v) : /\ imageUsable(now(i))
                                    /\ \A j \in at(v) : j < i => ~imageUsable(now(j))}
        fails == {i \in UNION {at(v) : v \in Elems(cosVariantOrder)} : now(i) = "error"}
        wanted == UNION {newest(v) : v \in Elems(cosVariantOrder)}
        expected(i) == \A f \in fails :
                          w.listing[f].name.variant = w.listing[i].name.variant => i < f
    IN  ~CASE r.err = "none" ->
                /\ {im.name : im \in Elems(r.images)} = {w.listing[i].name : i \in wanted}
                /\ \A i \in wanted : expected(i)
           [] r.err = "unavailable" -> wanted = {} /\ fails = {}
           [] r.err = "lookup" -> fails # {}

LatestCounterexamples == {x \in Worlds \X {0, 1} : LatestGoesWrong(x[1], x[2])}

ImagesGoWrong(w, t) ==
    LET r == resolveFamilyTerm(w, t)
        state(im) == lookupImage(w.world, im.name)
        real(im) == /\ state(im) = "ready" \/ (t.family = "ubuntu" /\ state(im) = "deprecated")
                    /\ t.key # 0 => im.name.key = t.key
                    /\ t.build # 0 => im.name.build = t.build
                    /\ t.release # 0 => im.name.release = t.release
        served(arch, gpu) ==
            LET name == FindImage(r.images, [arch |-> arch, gpu |-> gpu]) IN
            /\ name # NoName =>
                name.variant = IF gpu /\ t.family = "cos" THEN "nvidia" ELSE arch
            /\ t.family = "ubuntu" /\ ~(gpu /\ arch = "arm64")
                    /\ "missing" \notin Elems(w.world)
                => name # NoName
    IN  /\ r.err = "none"
        /\ ~(/\ r.images # <<>>
             /\ \A im \in Elems(r.images) : real(im)
             /\ \A arch \in {"amd64", "arm64"}, gpu \in BOOLEAN : served(arch, gpu))

ImageCounterexamples == {x \in Worlds \X FamilyTerms : ImagesGoWrong(x[1], x[2])}

ChannelGoesWrong(ch, minor) ==
    LET answers == ResolveVersionForChannel(ch, minor)
        all == {v \in ch.valid \cup {ch.default} : v.minor = minor}
    IN  ~(/\ answers = {} <=> all = {}
          /\ \A v \in answers :
                /\ v.minor = minor
                /\ v # ch.default => \A o \in all : o.patch <= v.patch)

ChannelCounterexamples == {x \in Channels \X Minors : ChannelGoesWrong(x[1], x[2])}

=============================================================================
