---------------------------- MODULE MCNodeClass ----------------------------
(***************************************************************************)
(* An instance of NodeClassLifecycle together with one of ImageFamily.     *)
(* The resolution of images has no state of its own: it is a function of   *)
(* what the provider is shown.  Its properties are stated of the states in *)
(* which there is a NodeClass to resolve images for.                       *)
(***************************************************************************)
EXTENDS NodeClassLifecycle, ImageFamily, FiniteSets

Name(key, build, release, variant) ==
    [key |-> key, build |-> build, release |-> release, variant |-> variant]

MCNames == {Name(1, 2, 1, "amd64"), Name(1, 2, 1, "arm64"), Name(1, 2, 1, "nvidia"),
            Name(1, 1, 1, "amd64"), Name(1, 1, 2, "amd64"), Name(1, 1, 2, "arm64"),
            Name(2, 2, 2, "amd64"), Name(1, 2, 1, "other")}

(* What an image is when it is listed, "missing" if it is not, and later. *)
MCPasts == {<<"ready", "ready">>, <<"ready", "missing">>, <<"ready", "error">>,
            <<"missing", "ready">>}
MCMorePasts == MCPasts \cup {<<"ready", "pending">>, <<"ready", "deprecated">>,
                             <<"pending", "ready">>}

MCWorld(names, past) ==
    [listing |-> SelectSeq([i \in DOMAIN names |-> [name |-> names[i],
                                                    state |-> past[i][1]]],
                           LAMBDA img : img.state # "missing"),
     world |-> [n \in Elems(names) |->
                    past[CHOOSE i \in DOMAIN names : names[i] = n][2]]]

MCWorldsOf(n, pasts) ==
    {MCWorld(names, past) :
        names \in {s \in [1..n -> MCNames] : Cardinality(Elems(s)) = n}, past \in [1..n -> pasts]}

MCWorlds == MCWorldsOf(2, MCMorePasts) \cup MCWorldsOf(3, MCPasts)

MCVersions == [minor : {1, 2}, patch : {1, 2}, build : {1, 2}]
MCNoVersion == [minor |-> 0, patch |-> 0, build |-> 0]
MCChannels == [default : MCVersions \cup {MCNoVersion},
               valid : {s \in SUBSET MCVersions : Cardinality(s) <= 3}]
-----------------------------------------------------------------------------

(* Whatever is published or withdrawn between the listing and the lookups, *)
(* the latest images are, variant by variant, the newest that the listing  *)
(* and the lookup both call usable; a lookup that fails never lets an      *)
(* older image take the place of a newer one (resolveLatestCOSImages).     *)
LatestIsNewestUsable == Exists => LatestCounterexamples = {}

(* Every image that a term resolves to exists when it is looked up, is     *)
(* READY and is what the term asks for: its build and no other, its OS     *)
(* release, the version of the cluster.  A machine boots an image of its   *)
(* own architecture, with the GPU driver exactly if it is COS for a GPU    *)
(* machine, and an Ubuntu selector that resolves serves both               *)
(* architectures, unless an image disappears under it                      *)
(* (ensureImagesAvailable, FindImage).                                     *)
MachineGetsItsImage == Exists => ImageCounterexamples = {}

(* A channel never moves nodes off the minor version of the cluster, and   *)
(* fails rather than fall back when it has none of that minor; without a   *)
(* default of that minor the patch is the highest (step 1 to 3 of          *)
(* ResolveVersionForChannel).                                              *)
ChannelKeepsMinor == Exists => ChannelCounterexamples = {}
=============================================================================
