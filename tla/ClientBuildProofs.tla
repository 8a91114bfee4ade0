-------------------------- MODULE ClientBuildProofs --------------------------
(***************************************************************************)
(* Theorems about ClientBuild: the types, that hem-build.json is true of   *)
(* the client beside it, and that an attested client reads in step.        *)
(***************************************************************************)
EXTENDS ClientBuild, TLAPS

-----------------------------------------------------------------------------
(* Whatever is read or changed is a container.                             *)
LEMMA ReadType ==
    ASSUME NEW hands, NEW sent,
           sent["blocks"].bits \in Int, sent["biomes"].bits \in Int
    PROVE  ReadColumn(sent, hands) \in [Kinds -> Containers]
<1>1. ReadBlocks(sent["blocks"], hands) \in Containers
  BY DEF ReadBlocks, ReadSingle, ReadBuffer, Container, Containers, Garbled, MaxBits,
     GlobalBits
<1>2. ReadBiomes(sent["biomes"], hands) \in Containers
  BY DEF ReadBiomes, ReadSingle, ReadBuffer, Container, Containers, Garbled, MaxBits,
     GlobalBits
<1>3. Garbled \in Containers
  BY DEF Garbled, Container, Containers
<1> QED
  BY <1>1, <1>2, <1>3 DEF ReadColumn, Kinds

(* A container that was outgrown is one.                                   *)
LEMMA OutgrowType ==
    ASSUME NEW k \in Kinds, NEW c \in Containers, NEW hands
    PROVE  Outgrow(k, c, hands) \in Containers
  BY DEF Outgrow, Convert, Container, Containers, Kinds, MinBits, MaxBits, GlobalBits

(* The widths of the server's containers are integers.                     *)
LEMMA ServerBitsType == \A k \in Kinds : ServerBits(k) \subseteq Int
  BY PaletteAssumption DEF ServerBits, Kinds, MinBits, MaxBits

(* The types, part by part.                                                *)
ProgressType ==
    /\ phase \in {"idle", "clean", "checkout", "survey", "install", "transport", "register",
                  "chunks", "rehash", "data", "sounds", "bundle", "publish", "guard",
                  "config", "manifest", "live"}
    /\ builds \in 0 .. MaxBuilds
    /\ asked \in [ref : Commits \cup {"branch"}, pinned : BOOLEAN]

TreeType == tree \in Tree

NotesType ==
    /\ notes \in [lock : {"none", "locked", "rewritten"}, attested : SUBSET Copies,
                  sounds : {"none", "generated"}]
    /\ notes.attested \subseteq tree.patched
    /\ phase \in {"checkout", "survey", "install"} => notes.attested = {}

OutputType ==
    /\ bundle \in Tree \cup {None} /\ dist \in Dist \cup {None}
    /\ phase = "publish" => bundle \in Tree
    /\ phase \in {"guard", "config", "manifest"} => dist \in Dist

ManifestType == manifest \in Manifest \cup {None}

LiveType ==
    /\ live \in Live \cup {None}
    /\ phase = "live" => live \in Live
    /\ column \in Column \cup {None}
    /\ column # None => phase = "live"

(* Together.                                                               *)
Types == ProgressType /\ TreeType /\ NotesType /\ OutputType /\ ManifestType /\ LiveType

(* The parts make up the type invariant.                                   *)
LEMMA TypesImply == Types => TypeOK
  BY DEF Types, TypeOK, ProgressType, TreeType, NotesType, OutputType, ManifestType, LiveType

(* They hold at first ...                                                  *)
LEMMA InitialTypes == Init => Types
<1> SUFFICES ASSUME Init
             PROVE  Types
  OBVIOUS
<1>1. ProgressType
  BY BuildAssumption DEF Init, ProgressType, Default, Commits
<1>2. TreeType
  BY DEF Init, TreeType, Tree, Removed
<1>3. NotesType
  BY DEF Init, NotesType, Nothing
<1>4. OutputType /\ ManifestType /\ LiveType
  BY DEF Init, OutputType, ManifestType, LiveType
<1> QED
  BY <1>1, <1>2, <1>3, <1>4 DEF Types

(* ... and every command, failure and deployment keeps them.               *)
LEMMA TypesKept == Types /\ [Next]_vars => Types'
<1> SUFFICES ASSUME ProgressType, TreeType, NotesType, OutputType, ManifestType, LiveType,
                    [Next]_vars
             PROVE  /\ ProgressType' /\ TreeType' /\ NotesType'
                    /\ OutputType' /\ ManifestType' /\ LiveType'
  BY DEF Types
<1>1. CASE Begin
  <2>1. ProgressType'
    BY <1>1, BuildAssumption DEF ProgressType, Begin, Default, Commits
  <2>2. TreeType'
    BY <1>1 DEF TreeType, Begin
  <2>3. NotesType'
    BY <1>1 DEF NotesType, Begin
  <2>4. OutputType'
    BY <1>1 DEF OutputType, Begin
  <2>5. ManifestType'
    BY <1>1 DEF ManifestType, Begin
  <2>6. LiveType'
    BY <1>1 DEF LiveType, Begin
  <2> QED
    BY <2>1, <2>2, <2>3, <2>4, <2>5, <2>6
<1>2. CASE Clean
  <2>1. ProgressType'
    BY <1>2, BuildAssumption DEF ProgressType, Clean, Do
  <2>2. TreeType'
    BY <1>2 DEF TreeType, Clean, Do, Tree, Commits, Removed
  <2>3. NotesType'
    BY <1>2 DEF NotesType, Clean, Do, TreeType, Tree, Removed, Nothing
  <2>4. OutputType'
    BY <1>2 DEF OutputType, Clean, Do
  <2>5. ManifestType'
    BY <1>2 DEF ManifestType, Clean, Do
  <2>6. LiveType'
    BY <1>2 DEF LiveType, Clean, Do
  <2> QED
    BY <2>1, <2>2, <2>3, <2>4, <2>5, <2>6
<1>3. CASE Checkout
  <2>1. ProgressType'
    BY <1>3, BuildAssumption DEF ProgressType, Checkout, Do
  <2>2. TreeType'
    BY <1>3 DEF TreeType, Checkout, Do, Tree, Commits
  <2>3. NotesType'
    BY <1>3 DEF NotesType, Checkout, Do, TreeType, Tree
  <2>4. OutputType'
    BY <1>3 DEF OutputType, Checkout, Do
  <2>5. ManifestType'
    BY <1>3 DEF ManifestType, Checkout, Do
  <2>6. LiveType'
    BY <1>3 DEF LiveType, Checkout, Do
  <2> QED
    BY <2>1, <2>2, <2>3, <2>4, <2>5, <2>6
<1>4. CASE Survey
  <2>1. ProgressType'
    BY <1>4, BuildAssumption DEF ProgressType, Survey, Do
  <2>2. TreeType'
    BY <1>4 DEF TreeType, Survey, Do
  <2>3. NotesType'
    BY <1>4 DEF NotesType, Survey, Do, TreeType, Tree
  <2>4. OutputType'
    BY <1>4 DEF OutputType, Survey, Do
  <2>5. ManifestType'
    BY <1>4 DEF ManifestType, Survey, Do
  <2>6. LiveType'
    BY <1>4 DEF LiveType, Survey, Do
  <2> QED
    BY <2>1, <2>2, <2>3, <2>4, <2>5, <2>6
<1>5. CASE Install
  <2>1. PICK resolves \in [Consumers -> Copies], inStore \in SUBSET Copies,
             lock \in {"locked", "rewritten"}, data \in {"1.21.5", "another"} :
           tree' = [tree EXCEPT !.resolves = resolves, !.patched = inStore, !.lock = lock,
                                !.data = data, !.net = "net-browserify",
                                !.register = "historical"]
    BY <1>5 DEF Install
  <2>2. UNCHANGED <<builds, asked, notes, bundle, dist, manifest, live, column>>
    BY <1>5 DEF Install, Do
  <2>3. phase = "install" /\ phase' = "transport"
    BY <1>5 DEF Install, Do
  <2>4. TreeType'
    BY <2>1 DEF TreeType, Tree
  <2>5. NotesType'
    BY <2>1, <2>2, <2>3 DEF NotesType, TreeType, Tree
  <2>6. ProgressType' /\ OutputType' /\ ManifestType' /\ LiveType'
    BY <2>2, <2>3 DEF ProgressType, OutputType, ManifestType, LiveType
  <2> QED
    BY <2>4, <2>5, <2>6
<1>6. CASE InstallTransport
  <2>1. ProgressType'
    BY <1>6, BuildAssumption DEF ProgressType, InstallTransport, Do
  <2>2. TreeType'
    BY <1>6 DEF TreeType, InstallTransport, Do, Tree, Commits
  <2>3. NotesType'
    BY <1>6 DEF NotesType, InstallTransport, Do, TreeType, Tree
  <2>4. OutputType'
    BY <1>6 DEF OutputType, InstallTransport, Do
  <2>5. ManifestType'
    BY <1>6 DEF ManifestType, InstallTransport, Do
  <2>6. LiveType'
    BY <1>6 DEF LiveType, InstallTransport, Do
  <2> QED
    BY <2>1, <2>2, <2>3, <2>4, <2>5, <2>6
<1>7. CASE PatchRegister
  <2>1. ProgressType'
    BY <1>7, BuildAssumption DEF ProgressType, PatchRegister, Do
  <2>2. TreeType'
    BY <1>7 DEF TreeType, PatchRegister, Do, Tree, Commits
  <2>3. NotesType'
    BY <1>7 DEF NotesType, PatchRegister, Do, TreeType, Tree
  <2>4. OutputType'
    BY <1>7 DEF OutputType, PatchRegister, Do
  <2>5. ManifestType'
    BY <1>7 DEF ManifestType, PatchRegister, Do
  <2>6. LiveType'
    BY <1>7 DEF LiveType, PatchRegister, Do
  <2> QED
    BY <2>1, <2>2, <2>3, <2>4, <2>5, <2>6
<1>8. CASE ChunksPatched
  <2>1. ProgressType'
    BY <1>8, BuildAssumption DEF ProgressType, ChunksPatched, Do
  <2>2. TreeType'
    BY <1>8 DEF TreeType, ChunksPatched, Do
  <2>3. NotesType'
    BY <1>8 DEF NotesType, ChunksPatched, Do
  <2>4. OutputType'
    BY <1>8 DEF OutputType, ChunksPatched, Do
  <2>5. ManifestType'
    BY <1>8 DEF ManifestType, ChunksPatched, Do
  <2>6. LiveType'
    BY <1>8 DEF LiveType, ChunksPatched, Do
  <2> QED
    BY <2>1, <2>2, <2>3, <2>4, <2>5, <2>6
<1>9. CASE Rehash
  <2>1. ProgressType'
    BY <1>9, BuildAssumption DEF ProgressType, Rehash, Do
  <2>2. TreeType'
    BY <1>9 DEF TreeType, Rehash, Do
  <2>3. NotesType'
    BY <1>9 DEF NotesType, Rehash, Do
  <2>4. OutputType'
    BY <1>9 DEF OutputType, Rehash, Do
  <2>5. ManifestType'
    BY <1>9 DEF ManifestType, Rehash, Do
  <2>6. LiveType'
    BY <1>9 DEF LiveType, Rehash, Do
  <2> QED
    BY <2>1, <2>2, <2>3, <2>4, <2>5, <2>6
<1>10. CASE CheckData
  <2>1. ProgressType'
    BY <1>10, BuildAssumption DEF ProgressType, CheckData, Do
  <2>2. TreeType'
    BY <1>10 DEF TreeType, CheckData, Do
  <2>3. NotesType'
    BY <1>10 DEF NotesType, CheckData, Do
  <2>4. OutputType'
    BY <1>10 DEF OutputType, CheckData, Do
  <2>5. ManifestType'
    BY <1>10 DEF ManifestType, CheckData, Do
  <2>6. LiveType'
    BY <1>10 DEF LiveType, CheckData, Do
  <2> QED
    BY <2>1, <2>2, <2>3, <2>4, <2>5, <2>6
<1>11. CASE GenerateSounds
  <2>1. ProgressType'
    BY <1>11, BuildAssumption DEF ProgressType, GenerateSounds, Do
  <2>2. TreeType'
    BY <1>11 DEF TreeType, GenerateSounds, Do, Tree, Commits
  <2>3. NotesType'
    BY <1>11 DEF NotesType, GenerateSounds, Do, TreeType, Tree
  <2>4. OutputType'
    BY <1>11 DEF OutputType, GenerateSounds, Do
  <2>5. ManifestType'
    BY <1>11 DEF ManifestType, GenerateSounds, Do
  <2>6. LiveType'
    BY <1>11 DEF LiveType, GenerateSounds, Do
  <2> QED
    BY <2>1, <2>2, <2>3, <2>4, <2>5, <2>6
<1>12. CASE Bundle
  <2>1. ProgressType'
    BY <1>12, BuildAssumption DEF ProgressType, Bundle, Do
  <2>2. TreeType'
    BY <1>12 DEF TreeType, Bundle, Do
  <2>3. NotesType'
    BY <1>12 DEF NotesType, Bundle, Do
  <2>4. OutputType'
    BY <1>12, ZenonT(30) DEF OutputType, Bundle, Do, Tree, TreeType
  <2>5. ManifestType'
    BY <1>12 DEF ManifestType, Bundle, Do
  <2>6. LiveType'
    BY <1>12 DEF LiveType, Bundle, Do
  <2> QED
    BY <2>1, <2>2, <2>3, <2>4, <2>5, <2>6
<1>13. CASE Publish
  <2>1. ProgressType'
    BY <1>13, BuildAssumption DEF ProgressType, Publish, Do
  <2>2. TreeType'
    BY <1>13 DEF TreeType, Publish, Do
  <2>3. NotesType'
    BY <1>13 DEF NotesType, Publish, Do
  <2>4. OutputType'
    BY <1>13 DEF OutputType, Publish, Do, Dist
  <2>5. ManifestType'
    BY <1>13 DEF ManifestType, Publish, Do
  <2>6. LiveType'
    BY <1>13 DEF LiveType, Publish, Do
  <2> QED
    BY <2>1, <2>2, <2>3, <2>4, <2>5, <2>6
<1>14. CASE AddScripts
  <2>1. ProgressType'
    BY <1>14, BuildAssumption DEF ProgressType, AddScripts, Do
  <2>2. TreeType'
    BY <1>14 DEF TreeType, AddScripts, Do
  <2>3. NotesType'
    BY <1>14 DEF NotesType, AddScripts, Do
  <2>4. OutputType'
    BY <1>14, BuildAssumption DEF OutputType, AddScripts, Do, Dist
  <2>5. ManifestType'
    BY <1>14 DEF ManifestType, AddScripts, Do
  <2>6. LiveType'
    BY <1>14 DEF LiveType, AddScripts, Do
  <2> QED
    BY <2>1, <2>2, <2>3, <2>4, <2>5, <2>6
<1>15. CASE WriteConfig
  <2>1. ProgressType'
    BY <1>15, BuildAssumption DEF ProgressType, WriteConfig, Do
  <2>2. TreeType'
    BY <1>15 DEF TreeType, WriteConfig, Do
  <2>3. NotesType'
    BY <1>15 DEF NotesType, WriteConfig, Do
  <2>4. OutputType'
    BY <1>15 DEF OutputType, WriteConfig, Do, Dist
  <2>5. ManifestType'
    BY <1>15 DEF ManifestType, WriteConfig, Do
  <2>6. LiveType'
    BY <1>15 DEF LiveType, WriteConfig, Do
  <2> QED
    BY <2>1, <2>2, <2>3, <2>4, <2>5, <2>6
<1>16. CASE WriteManifest
  <2>1. ProgressType'
    BY <1>16, BuildAssumption DEF ProgressType, WriteManifest, Do
  <2>2. TreeType'
    BY <1>16 DEF TreeType, WriteManifest, Do
  <2>3. NotesType'
    BY <1>16 DEF NotesType, WriteManifest, Do
  <2>4. OutputType'
    BY <1>16 DEF OutputType, WriteManifest, Do
  <2>5. ManifestType'
    BY <1>16 DEF ManifestType, WriteManifest, Do, NotesType, TreeType, Manifest, Tree, Commits
  <2>6. LiveType'
    BY <1>16 DEF LiveType, WriteManifest, Do
  <2> QED
    BY <2>1, <2>2, <2>3, <2>4, <2>5, <2>6
<1>17. CASE Fail
  <2>1. ProgressType'
    BY <1>17, BuildAssumption DEF ProgressType, Fail
  <2>2. TreeType'
    BY <1>17 DEF TreeType, Fail
  <2>3. NotesType'
    BY <1>17 DEF NotesType, Fail
  <2>4. OutputType'
    <3>1. CASE dist' = dist
      BY <1>17, <3>1 DEF OutputType, Fail
    <3>2. CASE phase = "publish" /\ dist' = [of |-> bundle, whole |-> FALSE,
                                             scripts |-> FALSE, config |-> FALSE]
      BY <1>17, <3>2 DEF OutputType, Fail, Dist
    <3>3. CASE dist # None /\ dist' = [dist EXCEPT !.whole = FALSE]
      BY <1>17, <3>3 DEF OutputType, Fail, Dist
    <3> QED
      BY <1>17, <3>1, <3>2, <3>3 DEF Fail
  <2>5. ManifestType'
    BY <1>17 DEF ManifestType, Fail
  <2>6. LiveType'
    BY <1>17 DEF LiveType, Fail
  <2> QED
    BY <2>1, <2>2, <2>3, <2>4, <2>5, <2>6
<1>18. CASE Deploy
  <2>1. ProgressType'
    BY <1>18, BuildAssumption DEF ProgressType, Deploy, Default, Commits
  <2>2. TreeType'
    BY <1>18 DEF TreeType, Deploy, Tree, Commits, Removed
  <2>3. NotesType'
    BY <1>18 DEF NotesType, Deploy, TreeType, Tree, Removed, Nothing
  <2>4. OutputType'
    BY <1>18 DEF OutputType, Deploy
  <2>5. ManifestType'
    BY <1>18 DEF ManifestType, Deploy
  <2>6. LiveType'
    <3>1. phase' = "live" /\ column' = column /\ column = None
      BY <1>18 DEF Deploy, LiveType
    <3>2. live' = [attested |-> manifest # None,
                   hands |-> [c \in Consumers |->
                       LET copy == dist.of.resolves[c]
                       IN IF copy \in dist.of.patched THEN {"column"} \cup Matching[copy]
                          ELSE {}]]
      BY <1>18 DEF Deploy
    <3>3. dist.of.patched \subseteq Copies
      BY <1>18 DEF Deploy, OutputType, Dist, Tree
    <3>4. \A copy \in Copies : {"column"} \cup Matching[copy] \in SUBSET Hands
      BY BuildAssumption DEF Hands
    <3>5. \A c \in Consumers : live'.hands[c] \in SUBSET Hands
      BY <3>2, <3>3, <3>4
    <3>6. live'.hands \in [Consumers -> SUBSET Hands]
      BY <3>2, <3>5
    <3>7. live' \in Live
      BY <3>2, <3>6 DEF Live
    <3> QED
      BY <3>1, <3>7 DEF LiveType
  <2> QED
    BY <2>1, <2>2, <2>3, <2>4, <2>5, <2>6
<1>19. ASSUME NEW c \in Copies, PatchPackageRoot(c)
       PROVE  /\ ProgressType' /\ TreeType' /\ NotesType'
              /\ OutputType' /\ ManifestType' /\ LiveType'
  <2>1. ProgressType' /\ OutputType' /\ ManifestType' /\ LiveType'
    BY <1>19 DEF ProgressType, OutputType, ManifestType, LiveType, PatchPackageRoot
  <2>2. TreeType'
    BY <1>19 DEF TreeType, Tree, PatchPackageRoot
  <2>3. NotesType'
    BY <1>19 DEF NotesType, TreeType, Tree, PatchPackageRoot
  <2> QED
    BY <2>1, <2>2, <2>3
<1>20. ASSUME NEW c \in Consumers, Receive(c)
       PROVE  /\ ProgressType' /\ TreeType' /\ NotesType'
              /\ OutputType' /\ ManifestType' /\ LiveType'
  <2>1. live' = live /\ UNCHANGED building /\ phase = "live"
    BY <1>20 DEF Receive, Playing
  <2>2. column' \in Column
    <3>1. PICK bits \in ServerBits("blocks"), biomeBits \in ServerBits("biomes") :
              column' = [reader |-> c,
                         held |-> ReadColumn([blocks |-> Sent("blocks", bits),
                                              biomes |-> Sent("biomes", biomeBits)],
                                             live.hands[c])]
      BY <1>20 DEF Receive
    <3>2. bits \in Int /\ biomeBits \in Int
      BY ServerBitsType DEF Kinds
    <3>3. ReadColumn([blocks |-> Sent("blocks", bits), biomes |-> Sent("biomes", biomeBits)],
                     live.hands[c]) \in [Kinds -> Containers]
      BY <3>2, ReadType DEF Sent
    <3> QED
      BY <3>1, <3>3 DEF Column
  <2> QED
    BY <2>1, <2>2 DEF building, ProgressType, TreeType, NotesType, OutputType,
            ManifestType, LiveType
<1>21. ASSUME NEW c \in Consumers, LoadLocal(c)
       PROVE  /\ ProgressType' /\ TreeType' /\ NotesType'
              /\ OutputType' /\ ManifestType' /\ LiveType'
  <2>1. live' = live /\ UNCHANGED building /\ phase = "live"
    BY <1>21 DEF LoadLocal, Playing
  <2>2. column' \in Column
    <3>1. PICK bits \in {0} \cup MinBits["blocks"] .. MaxBits["blocks"],
               biomeBits \in {0} \cup MinBits["biomes"] .. MaxBits["biomes"] :
             column' = [reader |-> c,
                        held |-> [blocks |-> FromLocalPalette(bits, live.hands[c]),
                                  biomes |-> FromLocalPalette(biomeBits, live.hands[c])]]
      BY <1>21 DEF LoadLocal
    <3>2. bits \in Int /\ biomeBits \in Int
      BY DEF MinBits, MaxBits
    <3>3. \A b \in Int : FromLocalPalette(b, live.hands[c]) \in Containers
      BY DEF FromLocalPalette, Container, Containers
    <3> QED
      BY <3>1, <3>2, <3>3 DEF Column, Kinds
  <2> QED
    BY <2>1, <2>2 DEF building, ProgressType, TreeType, NotesType, OutputType,
            ManifestType, LiveType
<1>22. ASSUME NEW c \in Consumers, Reload(c)
       PROVE  /\ ProgressType' /\ TreeType' /\ NotesType'
              /\ OutputType' /\ ManifestType' /\ LiveType'
  <2>1. live' = live /\ UNCHANGED building /\ phase = "live"
    BY <1>22 DEF Reload, Playing
  <2> DEFINE sent == [k \in Kinds |-> Write(k, column.held[k])]
  <2>2. column.held \in [Kinds -> Containers]
    BY <1>22 DEF Reload, LiveType, Column
  <2>3. sent["blocks"].bits \in Int /\ sent["biomes"].bits \in Int
    BY <2>2 DEF Write, Containers, Kinds
  <2>4. column' = [reader |-> c, held |-> ReadColumn(sent, live.hands[c])]
    BY <1>22 DEF Reload
  <2> HIDE DEF sent
  <2>5. column' \in Column
    BY <2>3, <2>4, ReadType DEF Column
  <2> QED
    BY <2>1, <2>5 DEF building, ProgressType, TreeType, NotesType, OutputType,
            ManifestType, LiveType
<1>23. ASSUME NEW k \in Kinds, Change(k)
       PROVE  /\ ProgressType' /\ TreeType' /\ NotesType'
              /\ OutputType' /\ ManifestType' /\ LiveType'
  <2>1. live' = live /\ UNCHANGED building /\ phase = "live"
    BY <1>23 DEF Change, Playing
  <2>2. column \in Column
    BY <1>23 DEF Change, LiveType
  <2>3. Outgrow(k, column.held[k], live.hands[column.reader]) \in Containers
    BY <2>2, OutgrowType DEF Column
  <2>4. column' \in Column
    BY <1>23, <2>2, <2>3 DEF Change, Column
  <2> QED
    BY <2>1, <2>4 DEF building, ProgressType, TreeType, NotesType, OutputType,
            ManifestType, LiveType
<1>24. CASE UNCHANGED vars
  BY <1>24 DEF vars, building,
            ProgressType, TreeType, NotesType, OutputType, ManifestType, LiveType
<1> QED
  BY <1>1, <1>2, <1>3, <1>4, <1>5, <1>6, <1>7, <1>8, <1>9, <1>10, <1>11, <1>12, <1>13,
     <1>14, <1>15, <1>16, <1>17, <1>18, <1>19, <1>20, <1>21, <1>22, <1>23, <1>24 DEF Next

(* The types.  Publish needs a bundle and AddScripts a dist, wherefore the *)
(* types say in which phases there is one; Install may find any set of     *)
(* copies patched, wherefore none is attested yet.                         *)
THEOREM BuildTypeCorrect == Spec => []TypeOK
<1>1. Spec => []Types
  BY InitialTypes, TypesKept, PTL DEF Spec
<1> QED
  BY <1>1, TypesImply, PTL

-----------------------------------------------------------------------------
(* What the manifest is going to say of a bundle.                          *)
Built(b) ==
    /\ b.head = tree.head /\ b.lock = "locked"
    /\ b.data = "1.21.5" /\ b.sounds = notes.sounds
    /\ b.net = "hem-raw-tcp-v1" /\ b.register = "no trailing NUL"
    /\ \A c \in TopLevel : b.resolves[c] \in notes.attested \cap b.patched

(* What each command has established lasts until the manifest is written.  *)
LockInv ==
    /\ phase \in {"checkout", "survey"} => tree.lock = "locked"
    /\ phase \in {"install", "transport", "register", "chunks", "rehash", "data", "sounds",
                  "bundle", "publish", "guard", "config", "manifest"} => notes.lock = "locked"
    /\ phase \in {"data", "sounds", "bundle"} => tree.lock = "locked"

PatchInv ==
    /\ phase \in {"rehash", "data", "sounds", "bundle"} => notes.attested = RuntimeRoots
    /\ phase \in {"register", "chunks", "rehash", "data", "sounds", "bundle"} =>
          tree.net = "hem-raw-tcp-v1"
    /\ phase \in {"chunks", "rehash", "data", "sounds", "bundle"} =>
          tree.register = "no trailing NUL"
    /\ phase \in {"sounds", "bundle"} => tree.data = "1.21.5"

OutputInv ==
    /\ phase = "publish" => Built(bundle)
    /\ phase \in {"guard", "config", "manifest"} => Built(dist.of) /\ dist.whole
    /\ phase \in {"config", "manifest"} => dist.scripts = BodyTag
    /\ phase = "manifest" => dist.config
    /\ phase \notin {"idle", "clean"} => manifest = None

(* hem-build.json is true of the client, as far as the build looked: it    *)
(* did not look for the scripts in the page.                               *)
Witnessed ==
    manifest # None =>
        /\ RmIsAtomic => dist.whole
        /\ dist.scripts = BodyTag /\ dist.config
        /\ dist.of.head = manifest.commit
        /\ manifest.release <=> dist.of.head = "v0.1.99"
        /\ dist.of.lock = "locked" /\ dist.of.data = "1.21.5"
        /\ dist.of.sounds = manifest.sounds
        /\ dist.of.net = "hem-raw-tcp-v1" /\ dist.of.register = "no trailing NUL"
        /\ \A c \in TopLevel :
              dist.of.resolves[c] \in manifest.roots \cap dist.of.patched

(* All that the build has established.                                     *)
Established == LockInv /\ PatchInv /\ OutputInv /\ Witnessed

(* Nothing is established at first ...                                     *)
LEMMA InitiallyEstablished == Init => Established
  BY DEF Init, Established, LockInv, PatchInv, OutputInv, Witnessed

(* While a deployed client plays, nothing of this is touched.              *)
LEMMA PlayingKeeps ==
    ASSUME Established, UNCHANGED building
    PROVE  Established'
<1>1. LockInv'
  BY DEF Established, LockInv, building
<1>2. PatchInv'
  BY DEF Established, PatchInv, RuntimeRoots, building
<1>3. OutputInv'
  BY DEF Established, OutputInv, Built, building
<1>4. Witnessed'
  BY DEF Established, Witnessed, building
<1> QED
  BY <1>1, <1>2, <1>3, <1>4 DEF Established

(* ... and each command passes on what the ones before it established.     *)
LEMMA EstablishedKept == Types /\ Established /\ [Next]_vars => Established'
<1> SUFFICES ASSUME TreeType, NotesType, OutputType, Types, Established,
                    LockInv, PatchInv, OutputInv, Witnessed, [Next]_vars
             PROVE  Established'
  BY DEF Types, Established
<1>1. CASE Begin
  <2>1. LockInv'
    BY <1>1 DEF LockInv, Begin
  <2>2. PatchInv'
    BY <1>1 DEF PatchInv, Begin
  <2>3. OutputInv'
    BY <1>1 DEF OutputInv, Begin, Built
  <2>4. Witnessed'
    BY <1>1 DEF Witnessed, Begin
  <2> QED
    BY <2>1, <2>2, <2>3, <2>4 DEF Established
<1>2. CASE Clean
  <2>1. LockInv'
    BY <1>2 DEF LockInv, Clean, Do, TreeType, Tree, Removed, Nothing
  <2>2. PatchInv'
    BY <1>2 DEF PatchInv, Clean, Do, TreeType, Tree, Removed, Nothing, RuntimeRoots
  <2>3. OutputInv'
    BY <1>2 DEF OutputInv, Clean, Do, Built
  <2>4. Witnessed'
    BY <1>2 DEF Witnessed, Clean, Do
  <2> QED
    BY <2>1, <2>2, <2>3, <2>4 DEF Established
<1>3. CASE Checkout
  <2>1. LockInv'
    BY <1>3 DEF LockInv, Checkout, Do, TreeType, Tree
  <2>2. PatchInv'
    BY <1>3 DEF PatchInv, Checkout, Do, TreeType, Tree, RuntimeRoots
  <2>3. OutputInv'
    BY <1>3 DEF OutputInv, Checkout, Do, Built
  <2>4. Witnessed'
    BY <1>3 DEF Witnessed, Checkout, Do, OutputInv
  <2> QED
    BY <2>1, <2>2, <2>3, <2>4 DEF Established
<1>4. CASE Survey
  <2>1. LockInv'
    BY <1>4 DEF LockInv, Survey, Do, NotesType
  <2>2. PatchInv'
    BY <1>4 DEF PatchInv, Survey, Do, NotesType, RuntimeRoots
  <2>3. OutputInv'
    BY <1>4 DEF OutputInv, Survey, Do, Built
  <2>4. Witnessed'
    BY <1>4 DEF Witnessed, Survey, Do, OutputInv
  <2> QED
    BY <2>1, <2>2, <2>3, <2>4 DEF Established
<1>5. CASE Install
  <2>1. LockInv'
    BY <1>5 DEF LockInv, Install, Do, TreeType, Tree
  <2>2. PatchInv'
    BY <1>5 DEF PatchInv, Install, Do, TreeType, Tree, RuntimeRoots
  <2>3. OutputInv'
    BY <1>5 DEF OutputInv, Install, Do, Built
  <2>4. Witnessed'
    BY <1>5 DEF Witnessed, Install, Do, OutputInv
  <2> QED
    BY <2>1, <2>2, <2>3, <2>4 DEF Established
<1>6. CASE InstallTransport
  <2>1. LockInv'
    BY <1>6 DEF LockInv, InstallTransport, Do, TreeType, Tree
  <2>2. PatchInv'
    BY <1>6 DEF PatchInv, InstallTransport, Do, TreeType, Tree, RuntimeRoots
  <2>3. OutputInv'
    BY <1>6 DEF OutputInv, InstallTransport, Do, Built
  <2>4. Witnessed'
    BY <1>6 DEF Witnessed, InstallTransport, Do, OutputInv
  <2> QED
    BY <2>1, <2>2, <2>3, <2>4 DEF Established
<1>7. CASE PatchRegister
  <2>1. LockInv'
    BY <1>7 DEF LockInv, PatchRegister, Do, TreeType, Tree
  <2>2. PatchInv'
    BY <1>7 DEF PatchInv, PatchRegister, Do, TreeType, Tree, RuntimeRoots
  <2>3. OutputInv'
    BY <1>7 DEF OutputInv, PatchRegister, Do, Built
  <2>4. Witnessed'
    BY <1>7 DEF Witnessed, PatchRegister, Do, OutputInv
  <2> QED
    BY <2>1, <2>2, <2>3, <2>4 DEF Established
<1>8. CASE ChunksPatched
  <2>1. LockInv'
    BY <1>8 DEF LockInv, ChunksPatched, Do
  <2>2. PatchInv'
    BY <1>8 DEF PatchInv, ChunksPatched, Do, RuntimeRoots
  <2>3. OutputInv'
    BY <1>8 DEF OutputInv, ChunksPatched, Do, Built
  <2>4. Witnessed'
    BY <1>8 DEF Witnessed, ChunksPatched, Do, OutputInv
  <2> QED
    BY <2>1, <2>2, <2>3, <2>4 DEF Established
<1>9. CASE Rehash
  <2>1. LockInv'
    BY <1>9 DEF LockInv, Rehash, Do
  <2>2. PatchInv'
    BY <1>9 DEF PatchInv, Rehash, Do, RuntimeRoots
  <2>3. OutputInv'
    BY <1>9 DEF OutputInv, Rehash, Do, Built
  <2>4. Witnessed'
    BY <1>9 DEF Witnessed, Rehash, Do, OutputInv
  <2> QED
    BY <2>1, <2>2, <2>3, <2>4 DEF Established
<1>10. CASE CheckData
  <2>1. LockInv'
    BY <1>10 DEF LockInv, CheckData, Do
  <2>2. PatchInv'
    BY <1>10 DEF PatchInv, CheckData, Do, RuntimeRoots
  <2>3. OutputInv'
    BY <1>10 DEF OutputInv, CheckData, Do, Built
  <2>4. Witnessed'
    BY <1>10 DEF Witnessed, CheckData, Do, OutputInv
  <2> QED
    BY <2>1, <2>2, <2>3, <2>4 DEF Established
<1>11. CASE GenerateSounds
  <2>1. LockInv'
    BY <1>11 DEF LockInv, GenerateSounds, Do, TreeType, Tree, NotesType
  <2>2. PatchInv'
    <3>1. /\ phase = "sounds" /\ phase' = "bundle"
          /\ notes'.attested = notes.attested /\ tree'.resolves = tree.resolves
          /\ tree'.net = tree.net /\ tree'.register = tree.register
          /\ tree'.data = tree.data
      BY <1>11 DEF GenerateSounds, Do, TreeType, Tree, NotesType
    <3>2. RuntimeRoots' = RuntimeRoots
      BY <3>1 DEF RuntimeRoots
    <3> QED
      BY <3>1, <3>2 DEF PatchInv
  <2>3. OutputInv'
    BY <1>11 DEF OutputInv, GenerateSounds, Do, Built
  <2>4. Witnessed'
    BY <1>11 DEF Witnessed, GenerateSounds, Do, OutputInv
  <2> QED
    BY <2>1, <2>2, <2>3, <2>4 DEF Established
<1>12. CASE Bundle
  <2>1. LockInv'
    BY <1>12 DEF LockInv, Bundle, Do
  <2>2. PatchInv'
    BY <1>12 DEF PatchInv, Bundle, Do, RuntimeRoots
  <2>3. OutputInv'
    <3>1. phase = "bundle" /\ phase' = "publish" /\ UNCHANGED <<tree, notes, manifest>>
      BY <1>12 DEF Bundle, Do
    <3>2. bundle' = [tree EXCEPT !.sounds = notes.sounds]
      BY <1>12 DEF Bundle
    <3>3. /\ bundle'.sounds = notes.sounds /\ bundle'.head = tree.head
          /\ bundle'.lock = tree.lock /\ bundle'.data = tree.data
          /\ bundle'.net = tree.net /\ bundle'.register = tree.register
          /\ bundle'.resolves = tree.resolves /\ bundle'.patched = tree.patched
      BY <3>2 DEF TreeType, Tree
    <3>4. \A c \in TopLevel : tree.resolves[c] \in notes.attested \cap tree.patched
      BY <3>1 DEF PatchInv, RuntimeRoots, NotesType
    <3>5. Built(bundle)'
      BY <3>1, <3>3, <3>4 DEF Built, LockInv, PatchInv
    <3> QED
      BY <3>1, <3>5 DEF OutputInv
  <2>4. Witnessed'
    BY <1>12 DEF Witnessed, Bundle, Do, OutputInv
  <2> QED
    BY <2>1, <2>2, <2>3, <2>4 DEF Established
<1>13. CASE Publish
  <2>1. LockInv'
    BY <1>13 DEF LockInv, Publish, Do
  <2>2. PatchInv'
    BY <1>13 DEF PatchInv, Publish, Do
  <2>3. OutputInv'
    BY <1>13 DEF OutputInv, Publish, Do, Built, OutputType, Dist
  <2>4. Witnessed'
    BY <1>13 DEF Witnessed, Publish, Do, OutputInv
  <2> QED
    BY <2>1, <2>2, <2>3, <2>4 DEF Established
<1>14. CASE AddScripts
  <2>1. LockInv'
    BY <1>14 DEF LockInv, AddScripts, Do
  <2>2. PatchInv'
    BY <1>14 DEF PatchInv, AddScripts, Do
  <2>3. OutputInv'
    BY <1>14 DEF OutputInv, AddScripts, Do, Built, OutputType, Dist
  <2>4. Witnessed'
    BY <1>14 DEF Witnessed, AddScripts, Do, OutputInv
  <2> QED
    BY <2>1, <2>2, <2>3, <2>4 DEF Established
<1>15. CASE WriteConfig
  <2>1. LockInv'
    BY <1>15 DEF LockInv, WriteConfig, Do
  <2>2. PatchInv'
    BY <1>15 DEF PatchInv, WriteConfig, Do
  <2>3. OutputInv'
    BY <1>15 DEF OutputInv, WriteConfig, Do, Built, OutputType, Dist
  <2>4. Witnessed'
    BY <1>15 DEF Witnessed, WriteConfig, Do, OutputInv
  <2> QED
    BY <2>1, <2>2, <2>3, <2>4 DEF Established
<1>16. CASE WriteManifest
  <2>1. LockInv'
    BY <1>16 DEF LockInv, WriteManifest, Do
  <2>2. PatchInv'
    BY <1>16 DEF PatchInv, WriteManifest, Do
  <2>3. OutputInv'
    BY <1>16 DEF OutputInv, WriteManifest, Do, Built
  <2>4. Witnessed'
    BY <1>16 DEF Witnessed, WriteManifest, Do, OutputInv, Built
  <2> QED
    BY <2>1, <2>2, <2>3, <2>4 DEF Established
<1>17. CASE Fail
  <2>1. LockInv'
    BY <1>17 DEF LockInv, Fail
  <2>2. PatchInv'
    BY <1>17 DEF PatchInv, Fail
  <2>3. OutputInv'
    BY <1>17 DEF OutputInv, Fail, Built
  <2>4. Witnessed'
    <3>1. CASE manifest' = None
      BY <3>1 DEF Witnessed
    <3>2. CASE manifest' = manifest /\ dist' = dist
      BY <3>2 DEF Witnessed
    <3>3. CASE phase = "publish" /\ manifest' = manifest
      BY <3>3 DEF Witnessed, OutputInv
    <3>4. CASE /\ manifest' = manifest /\ ~RmIsAtomic /\ dist # None
               /\ dist' = [dist EXCEPT !.whole = FALSE]
      <4>1. dist \in Dist
        BY <3>4 DEF OutputType
      <4>2. dist'.of = dist.of /\ dist'.scripts = dist.scripts /\ dist'.config = dist.config
        BY <3>4, <4>1 DEF Dist
      <4> QED
        BY <3>4, <4>2 DEF Witnessed
    <3> QED
      BY <1>17, <3>1, <3>2, <3>3, <3>4 DEF Fail
  <2> QED
    BY <2>1, <2>2, <2>3, <2>4 DEF Established
<1>18. CASE Deploy
  <2>1. LockInv'
    BY <1>18 DEF LockInv, Deploy, TreeType, Tree, Removed, Nothing
  <2>2. PatchInv'
    BY <1>18 DEF PatchInv, Deploy, TreeType, Tree, Removed, Nothing, RuntimeRoots
  <2>3. OutputInv'
    BY <1>18 DEF OutputInv, Deploy, Built
  <2>4. Witnessed'
    BY <1>18 DEF Witnessed, Deploy
  <2> QED
    BY <2>1, <2>2, <2>3, <2>4 DEF Established
<1>19. ASSUME NEW c \in Copies, PatchPackageRoot(c)
       PROVE  Established'
  <2>1. LockInv'
    BY <1>19 DEF LockInv, PatchPackageRoot, TreeType, Tree, NotesType
  <2>2. PatchInv'
    BY <1>19 DEF PatchInv, PatchPackageRoot, TreeType, Tree
  <2>3. OutputInv' /\ Witnessed'
    BY <1>19 DEF OutputInv, Witnessed, PatchPackageRoot
  <2> QED
    BY <2>1, <2>2, <2>3 DEF Established
<1>20. ASSUME NEW c \in Consumers, Receive(c) \/ LoadLocal(c) \/ Reload(c)
       PROVE  Established'
  BY <1>20, PlayingKeeps DEF Receive, LoadLocal, Reload, Playing
<1>21. ASSUME NEW k \in Kinds, Change(k)
       PROVE  Established'
  BY <1>21, PlayingKeeps DEF Change, Playing
<1>22. CASE UNCHANGED vars
  BY <1>22, PlayingKeeps DEF vars
<1> QED
  BY <1>1, <1>2, <1>3, <1>4, <1>5, <1>6, <1>7, <1>8, <1>9, <1>10, <1>11, <1>12, <1>13,
     <1>14, <1>15, <1>16, <1>17, <1>18, <1>19, <1>20, <1>21, <1>22 DEF Next

(* Where every consumer is found in node_modules itself, the page has a    *)
(* </body> to insert the scripts before, and no build is killed while it   *)
(* removes the former dist: hem-build.json is true of the client beside it. *)
THEOREM AttestedIsTrue ==
    ASSUME TopLevel = Consumers, BodyTag, RmIsAtomic
    PROVE  Spec => []Attested
<1>1. Types /\ Established => Attested
  BY DEF Established, Witnessed, Attested
<1>2. Spec => [](Types /\ Established)
  BY InitialTypes, InitiallyEstablished, TypesKept, EstablishedKept, PTL DEF Spec
<1> QED
  BY <1>1, <1>2, PTL

-----------------------------------------------------------------------------
(* The server's registries take the bits of the client's.                  *)
SameRegistries ==
    ServerBlockBits = GlobalBits["blocks"] /\ ServerBiomeBits = GlobalBits["biomes"]

(* Every replacement matches the sources of every copy.                    *)
AllMatch == \A c \in Copies : Matching[c] = Hands \ {"column"}

(* What a patched decoder reads, holds and writes.                         *)
Bits(k) == {0} \cup MinBits[k] .. MaxBits[k] \cup {GlobalBits[k]}
Fits(k, c) == c \in Containers /\ c.noSizePrefix /\ c.bits \in Bits(k)

(* What fits was not read out of step.                                     *)
LEMMA FitsNotGarbled ==
    ASSUME NEW k \in Kinds, NEW c, Fits(k, c)
    PROVE  c # Garbled
  BY DEF Kinds, Fits, Bits, Garbled, Container, Containers, MinBits, MaxBits, GlobalBits

(* The server's count of longs is the client's: the least number of longs  *)
(* of p values each that has room for n values.                            *)
LEMMA CeilingIsLeast ==
    ASSUME NEW n \in Nat \ {0}, NEW p \in Nat \ {0}, NEW l \in Nat \ {0},
           l * p >= n, (l - 1) * p < n
    PROVE  (n + p - 1) \div p = l
<1>1. n + p - 1 - l * p \in 0 .. p - 1
  BY SMT
<1> QED
  BY <1>1, SMT

(* There is such a number.                                                 *)
LEMMA CeilingIsEnough ==
    ASSUME NEW n \in Nat \ {0}, NEW p \in Nat \ {0}
    PROVE  \E l \in 1 .. n : l * p >= n /\ (l - 1) * p < n
<1> DEFINE l == (n + p - 1) \div p
<1>1. l \in Nat /\ l * p <= n + p - 1 /\ n + p - 1 < (l + 1) * p
  BY SMT
<1>2. l >= 1
  BY <1>1, SMT
<1>3. (l - 1) * p < n /\ l * p >= n
  BY <1>1, SMT
<1>4. l <= n
  BY <1>1, <1>2, <1>3, SMT
<1>5. l \in 1 .. n
  BY <1>1, <1>2, <1>4
<1> HIDE DEF l
<1> QED
  BY <1>3, <1>5

(* For every width the server sends, its count is PackedLongCount's.       *)
LEMMA SentIsPacked ==
    ASSUME SameRegistries, NEW k \in Kinds, NEW bits \in ServerBits(k)
    PROVE  Sent(k, bits).longs = Longs(k, bits)
<1>1. CASE bits = 0
  BY <1>1 DEF Sent, Longs
<1>2. CASE bits # 0
  <2> DEFINE p == 64 \div bits
             n == Capacity[k]
             Least(l) == l * p >= n /\ (l - 1) * p < n
  <2>1. bits \in (1 .. 8) \cup {15}
    BY <1>2 DEF SameRegistries, Kinds, ServerBits, MinBits, MaxBits, GlobalBits
  <2>2. p \in {64, 32, 21, 16, 12, 10, 9, 8, 4}
    BY <2>1
  <2>3. n \in {4096, 64}
    BY DEF Kinds, Capacity
  <2>4. PackedLongCount(n, bits) = (n + p - 1) \div p
    BY DEF PackedLongCount
  <2>5. Longs(k, bits) = PackedLongCount(n, bits)
    BY <1>2 DEF Longs
  <2>6. Sent(k, bits).longs = CHOOSE l \in 1 .. n : Least(l)
    BY <1>2 DEF Sent, SentLongs
  <2>7. n \in Nat \ {0} /\ p \in Nat \ {0}
    BY <2>2, <2>3
  <2> HIDE DEF p, n
  <2>8. \A l \in 1 .. n : Least(l) => (n + p - 1) \div p = l
    <3> SUFFICES ASSUME NEW l \in 1 .. n, Least(l)
                 PROVE  (n + p - 1) \div p = l
      OBVIOUS
    <3>1. l \in Nat \ {0}
      BY <2>7
    <3> QED
      BY <2>7, <3>1, CeilingIsLeast
  <2>9. \E l \in 1 .. n : Least(l)
    BY <2>7, CeilingIsEnough
  <2> HIDE DEF Least
  <2>10. Sent(k, bits).longs \in 1 .. n /\ Least(Sent(k, bits).longs)
    BY <2>6, <2>9
  <2> QED
    BY <2>4, <2>5, <2>8, <2>10
<1> QED
  BY <1>1, <1>2

(* Nothing passes such a decoder's hands that does not keep the flag.      *)
LEMMA EveryHand ==
    /\ {"column", "read"} \subseteq Hands /\ {"column", "single"} \subseteq Hands
    /\ {"column", "local"} \subseteq Hands /\ "column" \in Hands
    /\ "direct" \in Hands /\ "indirect" \in Hands
  BY DEF Hands

(* Such a decoder reads a container that comes without a count.            *)
LEMMA SingleRead ==
    ASSUME NEW sent, sent.counted = FALSE
    PROVE  ReadSingle(sent, Hands) = Container(0, TRUE)
  BY EveryHand DEF ReadSingle, Container

LEMMA BufferRead ==
    ASSUME NEW k, NEW bits, NEW sent, sent.counted = FALSE, Longs(k, bits) = sent.longs
    PROVE  ReadBuffer(k, Container(bits, TRUE), sent) = Container(bits, TRUE)
<1>1. Container(bits, TRUE).bits = bits /\ Container(bits, TRUE).noSizePrefix = TRUE
  BY DEF Container
<1> QED
  BY <1>1 DEF ReadBuffer

(* A patched decoder reads what the server sent.                           *)
LEMMA ReadServer ==
    ASSUME SameRegistries,
           NEW bits \in ServerBits("blocks"), NEW biomeBits \in ServerBits("biomes"),
           NEW k \in Kinds
    PROVE  Fits(k, ReadColumn([blocks |-> Sent("blocks", bits),
                               biomes |-> Sent("biomes", biomeBits)], Hands)[k])
<1>1. ReadBlocks(Sent("blocks", bits), Hands) = Container(bits, TRUE) /\ bits \in Bits("blocks")
  <2>1. bits \in Bits("blocks") /\ bits \in Int
    BY DEF SameRegistries, ServerBits, Bits, MinBits, MaxBits, GlobalBits
  <2>2. Sent("blocks", bits).longs = Longs("blocks", bits)
    BY SentIsPacked DEF Kinds
  <2>3. Sent("blocks", bits).bits = bits /\ Sent("blocks", bits).counted = FALSE
    BY DEF Sent
  <2>4. (IF bits > MaxBits["blocks"] THEN GlobalBits["blocks"] ELSE bits) = bits
    BY <2>1 DEF Bits, MinBits, MaxBits, GlobalBits
  <2> QED
    <3>1. CASE bits = 0
      <4>1. ReadBlocks(Sent("blocks", bits), Hands) = ReadSingle(Sent("blocks", bits), Hands)
        BY <2>3, <2>4, <3>1 DEF ReadBlocks
      <4> QED
        BY <2>1, <2>3, <3>1, <4>1, SingleRead
    <3>2. CASE bits # 0
      <4>1. ReadBlocks(Sent("blocks", bits), Hands)
              = ReadBuffer("blocks", Container(bits, TRUE), Sent("blocks", bits))
        BY <2>3, <2>4, <3>2, EveryHand DEF ReadBlocks
      <4> QED
        BY <2>1, <2>2, <2>3, <4>1, BufferRead
    <3> QED
      BY <2>1, <3>1, <3>2
<1>2. /\ ReadBiomes(Sent("biomes", biomeBits), Hands) = Container(biomeBits, TRUE)
      /\ biomeBits \in Bits("biomes")
  <2>1. biomeBits \in Bits("biomes") /\ biomeBits \in Int
    BY DEF SameRegistries, ServerBits, Bits, MinBits, MaxBits, GlobalBits
  <2>2. Sent("biomes", biomeBits).longs = Longs("biomes", biomeBits)
    BY SentIsPacked DEF Kinds
  <2>3. Sent("biomes", biomeBits).bits = biomeBits /\ Sent("biomes", biomeBits).counted = FALSE
    BY DEF Sent
  <2>4. (IF biomeBits > MaxBits["biomes"] THEN GlobalBits["biomes"] ELSE biomeBits) = biomeBits
    BY <2>1 DEF Bits, MinBits, MaxBits, GlobalBits
  <2> QED
    <3>1. CASE biomeBits = 0
      <4>1. ReadBiomes(Sent("biomes", biomeBits), Hands) = ReadSingle(Sent("biomes", biomeBits), Hands)
        BY <2>3, <2>4, <3>1 DEF ReadBiomes
      <4> QED
        BY <2>1, <2>3, <3>1, <4>1, SingleRead
    <3>2. CASE biomeBits # 0
      <4>1. ReadBiomes(Sent("biomes", biomeBits), Hands)
              = ReadBuffer("biomes", Container(biomeBits, TRUE), Sent("biomes", biomeBits))
        BY <2>3, <2>4, <3>2, EveryHand DEF ReadBiomes
      <4> QED
        BY <2>1, <2>2, <2>3, <4>1, BufferRead
    <3> QED
      BY <2>1, <3>1, <3>2
<1>3. \A j \in Kinds : \A b \in Bits(j) : Fits(j, Container(b, TRUE))
  BY DEF Fits, Container, Containers, Bits, Kinds, MinBits, MaxBits, GlobalBits
<1>4. Container(bits, TRUE) # Garbled
  BY DEF Container, Garbled
<1>5. CASE k = "blocks"
  BY <1>1, <1>3, <1>5 DEF ReadColumn, Kinds
<1>6. CASE k = "biomes"
  BY <1>1, <1>2, <1>3, <1>4, <1>6 DEF ReadColumn, Kinds
<1> QED
  BY <1>5, <1>6 DEF Kinds

(* It reads what another patched consumer wrote.                           *)
LEMMA ReadWritten ==
    ASSUME NEW col \in [Kinds -> Containers], \A j \in Kinds : Fits(j, col[j]), NEW k \in Kinds
    PROVE  Fits(k, ReadColumn([j \in Kinds |-> Write(j, col[j])], Hands)[k])
<1>1. ReadBlocks(Write("blocks", col["blocks"]), Hands) = col["blocks"]
  <2> DEFINE c == col["blocks"]
  <2>1. Fits("blocks", c)
    BY DEF Kinds
  <2>2. c.bits \in Bits("blocks") /\ c = Container(c.bits, TRUE)
    BY <2>1 DEF Fits, Container, Containers
  <2>3. (IF c.bits > MaxBits["blocks"] THEN GlobalBits["blocks"] ELSE c.bits) = c.bits
    BY <2>2 DEF Bits, MinBits, MaxBits, GlobalBits
  <2> QED
    <3>1. CASE c.bits = 0
      <4>1. ReadBlocks(Write("blocks", c), Hands) = ReadSingle(Write("blocks", c), Hands)
        BY <2>3, <3>1 DEF ReadBlocks, Write
      <4> QED
        BY <2>1, <2>2, <3>1, <4>1, EveryHand DEF Fits, ReadSingle, Write
    <3>2. CASE c.bits # 0
      <4>1. ReadBlocks(Write("blocks", c), Hands) = ReadBuffer("blocks", c, Write("blocks", c))
        BY <2>2, <2>3, <3>2, EveryHand DEF ReadBlocks, Write
      <4> QED
        BY <2>1, <4>1 DEF Fits, ReadBuffer, Write
    <3> QED
      BY <3>1, <3>2
<1>2. ReadBiomes(Write("biomes", col["biomes"]), Hands) = col["biomes"]
  <2> DEFINE c == col["biomes"]
  <2>1. Fits("biomes", c)
    BY DEF Kinds
  <2>2. c.bits \in Bits("biomes") /\ c = Container(c.bits, TRUE)
    BY <2>1 DEF Fits, Container, Containers
  <2>3. (IF c.bits > MaxBits["biomes"] THEN GlobalBits["biomes"] ELSE c.bits) = c.bits
    BY <2>2 DEF Bits, MinBits, MaxBits, GlobalBits
  <2> QED
    <3>1. CASE c.bits = 0
      <4>1. ReadBiomes(Write("biomes", c), Hands) = ReadSingle(Write("biomes", c), Hands)
        BY <2>3, <3>1 DEF ReadBiomes, Write
      <4> QED
        BY <2>1, <2>2, <3>1, <4>1, EveryHand DEF Fits, ReadSingle, Write
    <3>2. CASE c.bits # 0
      <4>1. ReadBiomes(Write("biomes", c), Hands) = ReadBuffer("biomes", c, Write("biomes", c))
        BY <2>2, <2>3, <3>2, EveryHand DEF ReadBiomes, Write
      <4> QED
        BY <2>1, <4>1 DEF Fits, ReadBuffer, Write
    <3> QED
      BY <3>1, <3>2
<1>3. col["blocks"] # Garbled
  BY FitsNotGarbled DEF Kinds
<1> QED
  BY <1>1, <1>2, <1>3 DEF ReadColumn, Kinds

(* Other bits, the same flag.                                              *)
LEMMA OtherBits ==
    ASSUME NEW c \in Containers, NEW bits \in Int
    PROVE  [c EXCEPT !.bits = bits] = Container(bits, c.noSizePrefix)
  BY DEF Container, Containers

(* A flagged container outgrows one width for another that fits.           *)
LEMMA OutgrownBits ==
    ASSUME NEW k \in Kinds, NEW b \in Bits(k)
    PROVE  \E d \in Bits(k) : Outgrow(k, Container(b, TRUE), Hands) = Container(d, TRUE)
<1>1. Container(b, TRUE).bits = b /\ Container(b, TRUE).noSizePrefix
  BY DEF Container
<1>2. \/ MinBits[k] = 4 /\ MaxBits[k] = 8 /\ GlobalBits[k] = 15
      \/ MinBits[k] = 1 /\ MaxBits[k] = 3 /\ GlobalBits[k] = 7
  BY DEF Kinds, MinBits, MaxBits, GlobalBits
<1>3. CASE b = 0
  <2>1. b \notin MinBits[k] .. MaxBits[k] - 1 /\ b # MaxBits[k] /\ MinBits[k] \in Bits(k)
    BY <1>2, <1>3 DEF Bits
  <2>2. Outgrow(k, Container(b, TRUE), Hands) = Container(MinBits[k], TRUE)
    BY <1>1, <1>3, <2>1, EveryHand DEF Outgrow, Convert
  <2> QED
    BY <2>1, <2>2
<1>4. CASE b \in MinBits[k] .. MaxBits[k] - 1
  <2>1. b # 0 /\ b # MaxBits[k] /\ b + 1 \in Bits(k)
    BY <1>2, <1>4 DEF Bits
  <2>2. Outgrow(k, Container(b, TRUE), Hands) = [Container(b, TRUE) EXCEPT !.bits = b + 1]
    BY <1>1, <1>4, <2>1 DEF Outgrow
  <2>3. [Container(b, TRUE) EXCEPT !.bits = b + 1] = Container(b + 1, TRUE)
    <3>1. b + 1 \in Int /\ Container(b, TRUE) \in Containers
      BY <1>2, <1>4 DEF Container, Containers
    <3> QED
      BY <1>1, <3>1, OtherBits
  <2> QED
    BY <2>1, <2>2, <2>3
<1>5. CASE b = MaxBits[k]
  <2>1. b # 0 /\ b \notin MinBits[k] .. MaxBits[k] - 1 /\ GlobalBits[k] \in Bits(k)
    BY <1>2, <1>5 DEF Bits
  <2>2. Outgrow(k, Container(b, TRUE), Hands) = Container(GlobalBits[k], TRUE)
    BY <1>1, <1>5, <2>1, EveryHand DEF Outgrow, Convert
  <2> QED
    BY <2>1, <2>2
<1>6. CASE b = GlobalBits[k]
  <2>1. b # 0 /\ b \notin MinBits[k] .. MaxBits[k] - 1 /\ b # MaxBits[k]
    BY <1>2, <1>6
  <2>2. Outgrow(k, Container(b, TRUE), Hands) = Container(b, TRUE)
    BY <1>1, <2>1 DEF Outgrow
  <2> QED
    BY <2>2
<1>7. b = 0 \/ b \in MinBits[k] .. MaxBits[k] - 1 \/ b = MaxBits[k] \/ b = GlobalBits[k]
  BY <1>2 DEF Bits
<1> QED
  BY <1>3, <1>4, <1>5, <1>6, <1>7

(* Hence a change of representation keeps it readable.                     *)
LEMMA OutgrowFits ==
    ASSUME NEW k \in Kinds, NEW c, Fits(k, c)
    PROVE  Fits(k, Outgrow(k, c, Hands))
<1>1. c.bits \in Bits(k) /\ c = Container(c.bits, TRUE)
  BY DEF Fits, Container, Containers
<1>2. \A b \in Bits(k) : Fits(k, Container(b, TRUE))
  BY DEF Fits, Container, Containers, Bits, Kinds, MinBits, MaxBits, GlobalBits
<1> QED
  BY <1>1, <1>2, OutgrownBits, ZenonT(30)

(* An attested client's decoders all pass the flag on, and what they hold  *)
(* fits.                                                                   *)
PlayInv ==
    phase = "live" /\ live.attested =>
        /\ \A c \in Consumers : live.hands[c] = Hands
        /\ column # None => \A k \in Kinds : Fits(k, column.held[k])

(* Playing keeps that, and a deployment starts with it.                    *)
LEMMA PlayKept ==
    ASSUME SameRegistries, TopLevel = Consumers, AllMatch
    PROVE  Types /\ Established /\ PlayInv /\ [Next]_vars => PlayInv'
<1> SUFFICES ASSUME Types, LiveType, Witnessed, PlayInv, [Next]_vars
             PROVE  PlayInv'
  BY DEF Types, Established
<1>1. CASE Deploy
  <2>1. column = None /\ column' = column
    BY <1>1 DEF Deploy, LiveType
  <2>2. live'.attested <=> manifest # None
    BY <1>1 DEF Deploy
  <2>3. ASSUME manifest # None, NEW c \in Consumers
        PROVE  live'.hands[c] = Hands
    <3>1. dist.of.resolves[c] \in dist.of.patched /\ dist.of.patched \subseteq Copies
      BY <1>1, <2>3 DEF Deploy, Witnessed, Types, OutputType, Dist, Tree
    <3>2. live'.hands[c] = {"column"} \cup Matching[dist.of.resolves[c]]
      BY <1>1, <3>1 DEF Deploy
    <3> QED
      BY <3>1, <3>2 DEF AllMatch, Hands
  <2> QED
    BY <2>1, <2>2, <2>3 DEF PlayInv
<1>2. CASE Fail
  BY <1>2 DEF Fail, PlayInv
<1>3. CASE \/ Begin \/ Clean \/ Checkout \/ Survey \/ Install \/ InstallTransport
           \/ PatchRegister \/ ChunksPatched \/ Rehash
  BY <1>3 DEF PlayInv, Begin, Do, Clean, Checkout, Survey, Install, InstallTransport,
              PatchRegister, ChunksPatched, Rehash
<1>4. CASE \/ CheckData \/ GenerateSounds \/ Bundle \/ Publish \/ AddScripts
           \/ WriteConfig \/ WriteManifest
  BY <1>4 DEF PlayInv, Do, CheckData, GenerateSounds, Bundle, Publish, AddScripts,
              WriteConfig, WriteManifest
<1>5. ASSUME NEW c \in Copies, PatchPackageRoot(c)
      PROVE  PlayInv'
  BY <1>5 DEF PatchPackageRoot, PlayInv
<1>6. ASSUME NEW c \in Consumers, Reload(c)
      PROVE  PlayInv'
  <2>1. phase = "live" /\ phase' = phase /\ live' = live /\ column # None
    BY <1>6 DEF Reload, Playing, building
  <2>2. column.held \in [Kinds -> Containers]
    BY <2>1 DEF LiveType, Column
  <2>3. column' = [reader |-> c,
                   held |-> ReadColumn([k \in Kinds |-> Write(k, column.held[k])],
                                       live.hands[c])]
    BY <1>6 DEF Reload
  <2>4. ASSUME live.attested
        PROVE  live.hands[c] = Hands /\ \A k \in Kinds : Fits(k, column.held[k])
    BY <2>1, <2>4 DEF PlayInv
  <2>5. ASSUME live.attested, NEW k \in Kinds
        PROVE  Fits(k, column'.held[k])
    BY <2>2, <2>3, <2>4, <2>5, ReadWritten
  <2> QED
    BY <2>1, <2>5 DEF PlayInv
<1>7. ASSUME NEW c \in Consumers, Receive(c)
      PROVE  PlayInv'
  <2>1. phase = "live" /\ phase' = phase /\ live' = live
    BY <1>7 DEF Receive, Playing, building
  <2>2. PICK bits \in ServerBits("blocks"), biomeBits \in ServerBits("biomes") :
            column' = [reader |-> c,
                       held |-> ReadColumn([blocks |-> Sent("blocks", bits),
                                            biomes |-> Sent("biomes", biomeBits)],
                                           live.hands[c])]
    BY <1>7 DEF Receive
  <2>3. ASSUME live.attested, NEW k \in Kinds
        PROVE  Fits(k, column'.held[k])
    <3>1. live.hands[c] = Hands
      BY <2>1, <2>3 DEF PlayInv
    <3> QED
      BY <2>2, <3>1, ReadServer
  <2> QED
    BY <2>1, <2>3 DEF PlayInv
<1>8. ASSUME NEW c \in Consumers, LoadLocal(c)
      PROVE  PlayInv'
  <2>1. phase = "live" /\ phase' = phase /\ live' = live
    BY <1>8 DEF LoadLocal, Playing, building
  <2>2. PICK bits \in {0} \cup MinBits["blocks"] .. MaxBits["blocks"],
             biomeBits \in {0} \cup MinBits["biomes"] .. MaxBits["biomes"] :
           column' = [reader |-> c,
                      held |-> [blocks |-> FromLocalPalette(bits, live.hands[c]),
                                biomes |-> FromLocalPalette(biomeBits, live.hands[c])]]
    BY <1>8 DEF LoadLocal
  <2>3. ASSUME live.attested, NEW k \in Kinds
        PROVE  Fits(k, column'.held[k])
    <3>1. live.hands[c] = Hands
      BY <2>1, <2>3 DEF PlayInv
    <3>2. \A b : FromLocalPalette(b, live.hands[c]) = Container(b, TRUE)
      BY <3>1, EveryHand DEF FromLocalPalette
    <3>3. Fits("blocks", Container(bits, TRUE)) /\ Fits("biomes", Container(biomeBits, TRUE))
      BY DEF Fits, Bits, Container, Containers, MinBits, MaxBits
    <3>4. /\ FromLocalPalette(bits, live.hands[c]) = Container(bits, TRUE)
          /\ FromLocalPalette(biomeBits, live.hands[c]) = Container(biomeBits, TRUE)
      BY <3>2
    <3>5. CASE k = "blocks"
      BY <2>2, <3>3, <3>4, <3>5
    <3>6. CASE k = "biomes"
      BY <2>2, <3>3, <3>4, <3>6
    <3> QED
      BY <3>5, <3>6 DEF Kinds
  <2> QED
    BY <2>1, <2>3 DEF PlayInv
<1>9. ASSUME NEW k \in Kinds, Change(k)
      PROVE  PlayInv'
  <2>1. /\ phase = "live" /\ phase' = phase /\ live' = live /\ column # None
        /\ column' = [column EXCEPT !.held[k] = Outgrow(k, @, live.hands[column.reader])]
    BY <1>9 DEF Change, Playing, building
  <2>2. column \in Column
    BY <2>1 DEF LiveType
  <2>3. ASSUME live.attested, NEW j \in Kinds
        PROVE  Fits(j, column'.held[j])
    <3>1. Fits(j, column.held[j]) /\ live.hands[column.reader] = Hands
      BY <2>1, <2>2, <2>3 DEF PlayInv, Column
    <3>2. Fits(j, Outgrow(j, column.held[j], Hands))
      BY <3>1, OutgrowFits
    <3>3. column'.held[j] = IF j = k THEN Outgrow(k, column.held[k], Hands) ELSE column.held[j]
      BY <2>1, <2>2, <3>1 DEF Column
    <3> QED
      BY <3>1, <3>2, <3>3
  <2> QED
    BY <2>1, <2>3 DEF PlayInv
<1>10. CASE UNCHANGED vars
  BY <1>10 DEF vars, building, PlayInv
<1> QED
  BY <1>1, <1>2, <1>3, <1>4, <1>5, <1>6, <1>7, <1>8, <1>9, <1>10 DEF Next

(* With the server's registries of the client's width, and sources whose   *)
(* every hand a replacement finds, an attested client reads every          *)
(* container in step with whoever wrote it.                                *)
THEOREM AttestedReadsInStep ==
    ASSUME SameRegistries, TopLevel = Consumers, AllMatch
    PROVE  Spec => []InStep
<1>1. Init => PlayInv
  BY DEF Init, PlayInv
<1>2. Types /\ PlayInv => InStep
  <2> SUFFICES ASSUME LiveType, PlayInv, column # None, live.attested, NEW k \in Kinds
               PROVE  column.held[k] # Garbled
    BY DEF Types, InStep
  <2>1. Fits(k, column.held[k])
    BY DEF LiveType, PlayInv
  <2> QED
    BY <2>1, FitsNotGarbled
<1>3. Spec => [](Types /\ Established /\ PlayInv)
  BY <1>1, InitialTypes, InitiallyEstablished, TypesKept, EstablishedKept, PlayKept, PTL DEF Spec
<1> QED
  BY <1>2, <1>3, PTL

====
