---------------------------- MODULE ClientBuild ----------------------------
(***************************************************************************)
(* The build of the browser client: HEM clones minecraft-web-client,       *)
(* installs its locked dependencies, patches three of them where they      *)
(* resolve at run time, bundles, adds its own scripts and writes           *)
(* hem-build.json, which says what the client is.  A build may fail at any *)
(* command and is run again.  A client that was deployed reads, changes    *)
(* and writes chunk columns with the decoders that it was bundled with.    *)
(***************************************************************************)
EXTENDS Palette

CONSTANTS
    Copies,     \* installed copies of prismarine-chunk
    Consumers,  \* packages of the bundle that require it
    TopLevel,   \* the ones in node_modules itself
    Matching,   \* by copy: where a replacement that is not checked matches its source
    BodyTag,    \* the bundle's index.html has a </body>
    RmIsAtomic, \* dist is removed in full or not at all
    MaxBuilds,  \* bound: builds started
    None        \* nothing there

ASSUME BuildAssumption ==
    /\ TopLevel \subseteq Consumers /\ MaxBuilds \in Nat \ {0} /\ None \notin Copies
    /\ Matching \in [Copies -> SUBSET (Hands \ {"column"})]
    /\ BodyTag \in BOOLEAN /\ RmIsAtomic \in BOOLEAN

VARIABLES
    phase,     \* the build's next command
    builds,    \* how many were started
    asked,     \* MWC_REF and HEM_REQUIRE_PINNED_MWC
    tree,      \* the checkout with what is installed in it
    notes,     \* what the build noted of it
    bundle,    \* upstream/dist
    dist,      \* apps/client/dist, but for ...
    manifest,  \* ... its hem-build.json
    live,      \* what was deployed
    column     \* a chunk column that the deployed client holds

building == <<phase, builds, asked, tree, notes, bundle, dist, manifest>>
vars == <<building, live, column>>

Commits == {"v0.1.99", "another"}

Tree ==
    [head : Commits \cup {"none"}, lock : {"locked", "rewritten"},
     data : {"none", "1.21.5", "another"},
     resolves : [Consumers -> Copies \cup {None}], patched : SUBSET Copies,
     net : {"none", "net-browserify", "hem-raw-tcp-v1"},
     register : {"none", "historical", "no trailing NUL"},
     sounds : {"none", "generated", "another"}]

Dist == [of : Tree, whole : BOOLEAN, scripts : BOOLEAN, config : BOOLEAN]

Manifest ==
    [commit : Commits \cup {"none"}, pinned : BOOLEAN, release : BOOLEAN,
     sounds : {"none", "generated"}, roots : SUBSET Copies]

Live == [attested : BOOLEAN, hands : [Consumers -> SUBSET Hands]]

\* A column belongs to the decoder that read it.
Column == [reader : Consumers, held : [Kinds -> Containers]]

\* The variables keep to their ranges, and only a patched decoder is attested.
TypeOK ==
    /\ phase \in {"idle", "clean", "checkout", "survey", "install", "transport", "register",
                  "chunks", "rehash", "data", "sounds", "bundle", "publish", "guard",
                  "config", "manifest", "live"}
    /\ builds \in 0 .. MaxBuilds
    /\ asked \in [ref : Commits \cup {"branch"}, pinned : BOOLEAN]
    /\ tree \in Tree
    /\ notes \in [lock : {"none", "locked", "rewritten"}, attested : SUBSET Copies,
                  sounds : {"none", "generated"}]
    /\ notes.attested \subseteq tree.patched
    /\ bundle \in Tree \cup {None} /\ dist \in Dist \cup {None}
    /\ phase = "publish" => bundle \in Tree
    /\ phase \in {"guard", "config", "manifest"} => dist \in Dist
    /\ manifest \in Manifest \cup {None} /\ live \in Live \cup {None}
    /\ phase = "live" => live \in Live
    /\ column \in Column \cup {None}
    /\ column # None => phase = "live"

Removed == [head |-> "none", lock |-> "locked", data |-> "none",
            resolves |-> [c \in Consumers |-> None], patched |-> {},
            net |-> "none", register |-> "none", sounds |-> "none"]
Nothing == [lock |-> "none", attested |-> {}, sounds |-> "none"]

Default == [ref |-> "v0.1.99", pinned |-> FALSE]

Init ==
    /\ phase = "idle" /\ builds = 0 /\ asked = Default
    /\ tree = Removed /\ notes = Nothing
    /\ bundle = None /\ dist = None /\ manifest = None /\ live = None /\ column = None

-----------------------------------------------------------------------------
\* A pinned build refuses a ref that is not a commit.
Begin ==
    /\ phase = "idle" /\ builds < MaxBuilds
    /\ phase' = "clean" /\ builds' = builds + 1
    /\ asked' \in [ref : Commits \cup {"branch"}, pinned : BOOLEAN]
    /\ asked'.pinned => asked'.ref # "branch"
    /\ UNCHANGED <<tree, notes, bundle, dist, manifest, live, column>>

Do(command, next) ==
    /\ phase = command /\ phase' = next
    /\ UNCHANGED <<builds, asked, live, column>>

Clean ==
    /\ Do("clean", "checkout")
    /\ tree' = Removed /\ notes' = Nothing
    /\ bundle' = None /\ dist' = None /\ manifest' = None

\* A commit that was asked for must be the one that is checked out.
Checkout ==
    /\ Do("checkout", "survey")
    /\ \E sha \in Commits :
          /\ asked.ref # "branch" => sha = asked.ref
          /\ tree' = [tree EXCEPT !.head = sha]
    /\ UNCHANGED <<notes, bundle, dist, manifest>>

\* The lockfile's hash; a pinned build takes v0.1.99 only.
Survey ==
    /\ Do("survey", "install")
    /\ asked.pinned => tree.head = "v0.1.99"
    /\ notes' = [notes EXCEPT !.lock = tree.lock]
    /\ UNCHANGED <<tree, bundle, dist, manifest>>

(* pnpm links the packages; it may find a copy patched in its store, rewrite *)
(* the lockfile, or resolve the data of another version.                   *)
Install ==
    /\ Do("install", "transport")
    /\ \E resolves \in [Consumers -> Copies], inStore \in SUBSET Copies,
          lock \in {"locked", "rewritten"}, data \in {"1.21.5", "another"} :
          tree' = [tree EXCEPT !.resolves = resolves, !.patched = inStore, !.lock = lock,
                               !.data = data, !.net = "net-browserify",
                               !.register = "historical"]
    /\ UNCHANGED <<notes, bundle, dist, manifest>>

-----------------------------------------------------------------------------
(* The three patches.                                                      *)
InstallTransport ==
    /\ Do("transport", "register")
    /\ tree' = [tree EXCEPT !.net = "hem-raw-tcp-v1"]
    /\ UNCHANGED <<notes, bundle, dist, manifest>>

PatchRegister ==
    /\ Do("register", "chunks")
    /\ tree' = [tree EXCEPT !.register = "no trailing NUL"]
    /\ UNCHANGED <<notes, bundle, dist, manifest>>

\* The copies that the packages of node_modules resolve.
RuntimeRoots == {tree.resolves[c] : c \in TopLevel}

(* Replacements that are required fail the build when they do not match    *)
(* (Fail); of the others, the ones in Matching have an effect.  A copy that *)
(* is patched stays as it is.                                              *)
PatchPackageRoot(c) ==
    /\ phase = "chunks" /\ c \in RuntimeRoots \ notes.attested
    /\ tree' = [tree EXCEPT !.patched = tree.patched \cup {c}]
    /\ notes' = [notes EXCEPT !.attested = notes.attested \cup {c}]
    /\ UNCHANGED <<phase, builds, asked, bundle, dist, manifest, live, column>>

\* A report for every root, and one at least.
ChunksPatched ==
    /\ Do("chunks", "rehash")
    /\ notes.attested = RuntimeRoots /\ RuntimeRoots # {}
    /\ UNCHANGED <<tree, notes, bundle, dist, manifest>>

-----------------------------------------------------------------------------
\* The lockfile is hashed, and compared with itself.
RehashOnly ==
    /\ Do("rehash", "data")
    /\ UNCHANGED <<tree, notes, bundle, dist, manifest>>

Rehash ==
    /\ Do("rehash", "data")
    /\ tree.lock = notes.lock
    /\ UNCHANGED <<tree, notes, bundle, dist, manifest>>

CheckData ==
    /\ Do("data", "sounds")
    /\ tree.data = "1.21.5"
    /\ UNCHANGED <<tree, notes, bundle, dist, manifest>>

GenerateSounds ==
    /\ Do("sounds", "bundle")
    /\ tree' = [tree EXCEPT !.sounds = "generated"]
    /\ notes' = [notes EXCEPT !.sounds = "generated"]
    /\ UNCHANGED <<bundle, dist, manifest>>

\* The bundler copies the sound map, leaves it out or brings another one.
Bundle ==
    /\ Do("bundle", "publish")
    /\ \E sounds \in {tree.sounds, "absent", "another"} :
          LET built == IF sounds = "absent" THEN tree.sounds ELSE sounds
          IN /\ built = notes.sounds
             /\ bundle' = [tree EXCEPT !.sounds = built]
    /\ UNCHANGED <<tree, notes, dist, manifest>>

Publish ==
    /\ Do("publish", "guard")
    /\ dist' = [of |-> bundle, whole |-> TRUE, scripts |-> FALSE, config |-> FALSE]
    /\ UNCHANGED <<tree, notes, bundle, manifest>>

\* The keepalive guard and the bridge, linked before the page's </body>, if it has one.
AddScripts ==
    /\ Do("guard", "config")
    /\ dist' = [dist EXCEPT !.scripts = BodyTag]
    /\ UNCHANGED <<tree, notes, bundle, manifest>>

WriteConfig ==
    /\ Do("config", "manifest")
    /\ dist' = [dist EXCEPT !.config = TRUE]
    /\ UNCHANGED <<tree, notes, bundle, manifest>>

WriteManifest ==
    /\ Do("manifest", "idle")
    /\ manifest' = [commit |-> tree.head, pinned |-> tree.head = asked.ref,
                    release |-> tree.head = "v0.1.99", sounds |-> notes.sounds,
                    roots |-> notes.attested]
    /\ UNCHANGED <<tree, notes, bundle, dist>>

(* A command fails or the build is killed; the copy of the bundle may be   *)
(* cut short, and the removal of dist as well.                             *)
Fail ==
    /\ phase \notin {"idle", "live"} /\ phase' = "idle"
    /\ dist' \in {dist} \cup
          CASE phase = "publish" ->
                 {[of |-> bundle, whole |-> FALSE, scripts |-> FALSE, config |-> FALSE]}
            [] phase = "clean" /\ ~RmIsAtomic /\ dist # None -> {[dist EXCEPT !.whole = FALSE]}
            [] OTHER -> {}
    /\ manifest' \in {manifest} \cup IF phase = "clean" /\ dist' # dist THEN {None} ELSE {}
    /\ UNCHANGED <<builds, asked, tree, notes, bundle, live, column>>

-----------------------------------------------------------------------------
(* wrangler deploy takes dist as it is, after a build that failed as well.  *)
(* The build itself is left aside: the workflow's runner ends with it.  A  *)
(* decoder that was not patched passes the flag on nowhere.                *)
Deploy ==
    /\ phase = "idle" /\ dist # None
    /\ phase' = "live"
    /\ live' = [attested |-> manifest # None,
                hands |-> [c \in Consumers |->
                    LET copy == dist.of.resolves[c]
                    IN IF copy \in dist.of.patched THEN {"column"} \cup Matching[copy] ELSE {}]]
    /\ asked' = Default /\ tree' = Removed /\ notes' = Nothing
    /\ bundle' = None /\ dist' = None /\ manifest' = None
    /\ UNCHANGED <<builds, column>>

Playing == phase = "live" /\ UNCHANGED <<building, live>>

\* A column of the server.
Receive(c) ==
    /\ Playing
    /\ \E bits \in ServerBits("blocks"), biomeBits \in ServerBits("biomes") :
          column' = [reader |-> c,
                     held |-> ReadColumn([blocks |-> Sent("blocks", bits),
                                          biomes |-> Sent("biomes", biomeBits)], live.hands[c])]

\* A chunk of a saved world, by its local palettes.
LoadLocal(c) ==
    /\ Playing
    /\ \E bits \in {0} \cup MinBits["blocks"] .. MaxBits["blocks"],
          biomeBits \in {0} \cup MinBits["biomes"] .. MaxBits["biomes"] :
          column' = [reader |-> c,
                     held |-> [blocks |-> FromLocalPalette(bits, live.hands[c]),
                               biomes |-> FromLocalPalette(biomeBits, live.hands[c])]]

Change(k) ==
    /\ Playing
    /\ column # None /\ column.held[k] # Garbled
    /\ column' = [column EXCEPT !.held[k] = Outgrow(k, @, live.hands[column.reader])]

\* What one consumer dumped another one loads.
Reload(c) ==
    /\ Playing
    /\ column # None /\ \A k \in Kinds : column.held[k] # Garbled
    /\ column' = [reader |-> c,
                  held |-> ReadColumn([k \in Kinds |-> Write(k, column.held[k])], live.hands[c])]

Next ==
    \/ Begin \/ Clean \/ Checkout \/ Survey \/ Install
    \/ InstallTransport \/ PatchRegister
    \/ \E c \in Copies : PatchPackageRoot(c)
    \/ ChunksPatched \/ Rehash \/ CheckData \/ GenerateSounds \/ Bundle
    \/ Publish \/ AddScripts \/ WriteConfig \/ WriteManifest
    \/ Fail \/ Deploy
    \/ \E c \in Consumers : Receive(c) \/ LoadLocal(c) \/ Reload(c)
    \/ \E k \in Kinds : Change(k)

Spec == Init /\ [][Next]_vars

-----------------------------------------------------------------------------
(* Wherever a hem-build.json is found, all that it says is true of the     *)
(* client beside it: the commit, its untouched lockfile, the data version, *)
(* the transport, the registration, the sound map, HEM's scripts, and a    *)
(* patched decoder for every consumer.                                     *)
Attested ==
    manifest # None =>
        /\ dist.whole /\ dist.scripts /\ dist.config
        /\ dist.of.head = manifest.commit
        /\ manifest.release <=> dist.of.head = "v0.1.99"
        /\ dist.of.lock = "locked" /\ dist.of.data = "1.21.5"
        /\ dist.of.sounds = manifest.sounds
        /\ dist.of.net = "hem-raw-tcp-v1" /\ dist.of.register = "no trailing NUL"
        /\ \A c \in Consumers :
              dist.of.resolves[c] \in manifest.roots \cap dist.of.patched

(* An attested client reads every container in step with its writer,       *)
(* whichever consumer reads it, the server or another consumer wrote it,   *)
(* and however often it was changed in between.                            *)
InStep ==
    column # None /\ live.attested => \A k \in Kinds : column.held[k] # Garbled
=============================================================================
