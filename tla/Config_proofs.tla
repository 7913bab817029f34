---------------------------- MODULE Config_proofs ----------------------------
(***************************************************************************)
(* The engine follows the configuration, for any keys, files and changes;  *)
(* and with the one default file whoever spoke last about a key is heard.  *)
(***************************************************************************)
EXTENDS Config, SequenceTheorems, WellFoundedInduction, TLAPS

ConfigTypeOK ==
  /\ disk \in [Files -> Layer] /\ env \in Layer /\ cmdline \in ArgLayer
  /\ phase \in {"down", "assembly", "serving"}
  /\ registered \subseteq Keys
  /\ mem \in [Keys -> Values] /\ cfg \in [Keys -> Values] /\ args \in ArgLayer
  /\ dirty \subseteq Files /\ polling \in BOOLEAN
  /\ upstream \in Values \cup {None}
  /\ notes \in [Values -> Nat]
  /\ wanted \in Layer /\ edited \in Layer
  /\ apart \in BOOLEAN /\ overtaken \in BOOLEAN

\* Unless a publication overtook another one, one goroutine at most is on its
\* way to the engine, and it carries the value that counts.
EngineOK ==
  /\ upstream = None => notes = NoNotes
  /\ upstream # None /\ ~ overtaken =>
       \/ notes = NoNotes /\ upstream = cfg[UpstreamKey]
       \/ notes = [NoNotes EXCEPT ![cfg[UpstreamKey]] = 1]

ConfigInv == ConfigTypeOK /\ EngineOK

-----------------------------------------------------------------------------
(* What a reload makes of the bound variables.                             *)

LEMMA LastExists ==
  ASSUME NEW n \in Nat, NEW S \in SUBSET (1 .. n), S # {}
  PROVE  Max(S) \in S /\ \A j \in S : j <= Max(S)
<1> DEFINE T == {n - i : i \in S}
<1>1. T \subseteq Nat /\ T # {}
  <2>1. \A i \in S : i \in 1 .. n
    OBVIOUS
  <2>2. \A i \in S : n - i \in Nat
    BY <2>1
  <2>3. PICK i \in S : TRUE
    OBVIOUS
  <2>4. n - i \in T
    BY <2>3
  <2> QED BY <2>2, <2>4
<1> DEFINE R == OpToRel(<, Nat)
<1>2. IsWellFoundedOn(R, Nat)
  BY NatLessThanWellFounded
<1> HIDE DEF R, T
<1>3. PICK d \in T : \A e \in T : ~ (<<e, d>> \in R)
  BY <1>1, <1>2, WFMin
<1>4. \A e \in T : ~ (e < d)
  BY <1>1, <1>3 DEF R, OpToRel
<1>5. PICK i \in S : d = n - i
  BY <1>3 DEF T
<1>6. \A j \in S : n - j \in T
  BY DEF T
<1>7. \A j \in S : i >= j
  BY <1>4, <1>5, <1>6
<1>8. \E x \in S : \A y \in S : x >= y
  BY <1>5, <1>7
<1> QED BY <1>8 DEF Max

LEMMA OverTyped ==
  ASSUME NEW m \in [Keys -> Values], NEW layer \in Layer
  PROVE  Over(m, layer) \in [Keys -> Values]
BY DEF Over, Layer

LEMMA SaidTyped ==
  ASSUME NEW layer \in ArgLayer
  PROVE  Said(layer) \in Layer
BY ConfigAssumption DEF Said, ArgLayer, Layer

LEMMA OverFilesTyped ==
  ASSUME ConfigTypeOK, NEW m \in [Keys -> Values],
         NEW n \in Nat, NEW files \in [1 .. n -> Files]
  PROVE  OverFiles(m, files) \in [Keys -> Values]
<1> SUFFICES ASSUME NEW k \in Keys, NEW naming,
                    naming = {i \in DOMAIN files : disk[files[i]][k] # None},
                    naming # {}
             PROVE  disk[files[Max(naming)]][k] \in Values
  BY DEF OverFiles
<1>1. naming \in SUBSET (1 .. n)
  OBVIOUS
<1>2. Max(naming) \in naming
  BY <1>1, LastExists
<1> QED BY <1>2 DEF ConfigTypeOK, Layer

LEMMA OverlayTyped ==
  ASSUME ConfigTypeOK, args' \in ArgLayer, NEW m \in [Keys -> Values],
         NEW n \in Nat, NEW files \in [1 .. n -> Files]
  PROVE  Overlay(m, files) \in [Keys -> Values]
<1>1. OverFiles(m, files) \in [Keys -> Values]
  BY OverFilesTyped
<1>2. Over(OverFiles(m, files), env) \in [Keys -> Values]
  BY <1>1, OverTyped DEF ConfigTypeOK
<1> QED BY <1>2, OverTyped, SaidTyped DEF Overlay

LEMMA ListTyped ==
  /\ Len(FileList) \in Nat \ {0} /\ FileList \in [1 .. Len(FileList) -> Files]
  /\ FileList[1] \in Files /\ Target \in Files
<1>1. Len(FileList) \in Nat \ {0} /\ FileList \in [1 .. Len(FileList) -> Files]
  BY ConfigAssumption, EmptySeq, LenProperties
<1> QED BY <1>1 DEF Target

LEMMA FirstTyped == <<FileList[1]>> \in [1 .. 1 -> Files]
BY ListTyped

-----------------------------------------------------------------------------
(* The engine.                                                             *)

LEMMA EngineInit == Init => ConfigInv
<1> SUFFICES ASSUME Init
             PROVE  ConfigInv
  OBVIOUS
<1> USE DEF Init
<1>1. Default \in Values /\ None \notin Values
  BY ConfigAssumption
<1>2. disk \in [Files -> Layer] /\ env \in Layer /\ cmdline \in ArgLayer
  BY ConfigAssumption
<1>3. Nowhere \in Layer /\ NoNotes \in [Values -> Nat]
  BY DEF Nowhere, Layer, NoNotes
<1>4. apart \in BOOLEAN /\ overtaken \in BOOLEAN /\ polling \in BOOLEAN
  OBVIOUS
<1>5. mem \in [Keys -> Values] /\ cfg \in [Keys -> Values]
  BY <1>1
<1>6. args \in ArgLayer /\ wanted \in Layer /\ edited \in Layer
  BY <1>3 DEF Nowhere, ArgLayer
<1>7. ConfigTypeOK
  BY <1>1, <1>2, <1>3, <1>4, <1>5, <1>6 DEF ConfigTypeOK
<1> QED BY <1>7 DEF ConfigInv, EngineOK

\* Whatever is published reaches the engine, unless it overtakes.
LEMMA PublishKeeps ==
  ASSUME ConfigInv, Publish, mem' \in [Keys -> Values], upstream' = upstream
  PROVE  /\ EngineOK' /\ notes' \in [Values -> Nat] /\ overtaken' \in BOOLEAN
         /\ cfg' \in [Keys -> Values]
<1> DEFINE v == mem'[UpstreamKey]
<1>1. /\ v \in Values /\ notes \in [Values -> Nat] /\ cfg' = mem'
      /\ NoNotes \in [Values -> Nat]
  BY ConfigAssumption DEF ConfigInv, ConfigTypeOK, Keys, Publish, NoNotes
<1>2. CASE upstream = None
  BY <1>1, <1>2 DEF ConfigInv, ConfigTypeOK, EngineOK, Publish
<1>3. CASE upstream # None
  <2>1. notes' = [notes EXCEPT ![v] = @ + 1] /\ overtaken' = Pending
    BY <1>3 DEF Publish
  <2>2. notes' \in [Values -> Nat]
    BY <1>1, <2>1
  <2>3. overtaken' \in BOOLEAN
    BY <2>1 DEF Pending
  <2>4. ASSUME ~ Pending
        PROVE  notes' = [NoNotes EXCEPT ![v] = 1]
    <3>1. \A w \in Values : notes[w] = 0
      BY <1>1, <2>4 DEF Pending
    <3>2. notes = NoNotes
      BY <1>1, <3>1 DEF NoNotes
    <3>3. NoNotes[v] = 0
      BY <1>1 DEF NoNotes
    <3> HIDE DEF v
    <3>4. notes' = [NoNotes EXCEPT ![v] = NoNotes[v] + 1]
      BY <2>1, <3>2
    <3>5. NoNotes[v] + 1 = 1
      BY <3>3
    <3> QED BY <3>4, <3>5
  <2> QED BY <1>1, <1>3, <2>1, <2>2, <2>3, <2>4 DEF EngineOK
<1> QED BY <1>2, <1>3

LEMMA EngineStays ==
  ASSUME ConfigInv, UNCHANGED <<cfg, upstream, notes, overtaken>>
  PROVE  EngineOK'
BY DEF ConfigInv, EngineOK

\* A reload, whichever of the layers and keys it is about.
LEMMA OverlayKeeps ==
  ASSUME ConfigInv, registered' \subseteq Keys, args' \in ArgLayer, Publish,
         phase' \in {"down", "assembly", "serving"}, polling' \in BOOLEAN,
         apart' \in BOOLEAN,
         NEW m \in [Keys -> Values], NEW n \in Nat, NEW files \in [1 .. n -> Files],
         mem' = Overlay(m, files),
         UNCHANGED <<disk, env, cmdline, dirty, upstream, wanted, edited>>
  PROVE  ConfigInv'
<1>1. mem' \in [Keys -> Values]
  BY OverlayTyped DEF ConfigInv
<1>2. /\ EngineOK' /\ notes' \in [Values -> Nat] /\ overtaken' \in BOOLEAN
      /\ cfg' \in [Keys -> Values]
  BY <1>1, PublishKeeps
<1> QED BY <1>1, <1>2 DEF ConfigInv, ConfigTypeOK

LEMMA ReloadsKeep ==
  ASSUME ConfigInv, Load \/ Reload \/ \E k \in PluginKeys : Register(k)
  PROVE  ConfigInv'
<1> USE DEF ConfigInv
<1>1. CASE Load
  <2>1. [k \in Keys |-> Default] \in [Keys -> Values]
    BY ConfigAssumption
  <2>2. args' \in ArgLayer /\ registered' \subseteq Keys
    BY <1>1 DEF Load, ConfigTypeOK, Keys
  <2> QED BY <1>1, <2>1, <2>2, ListTyped, OverlayKeeps DEF Load, ConfigTypeOK
<1>2. CASE Reload
  <2>1. args' \in ArgLayer /\ registered' \subseteq Keys /\ mem \in [Keys -> Values]
    BY <1>2 DEF Reload, ConfigTypeOK
  <2> QED BY <1>2, <2>1, ListTyped, OverlayKeeps DEF Reload, ConfigTypeOK
<1>3. ASSUME NEW k \in PluginKeys, Register(k)
      PROVE  ConfigInv'
  <2>1. args' \in ArgLayer /\ registered' \subseteq Keys /\ mem \in [Keys -> Values]
    BY <1>3 DEF Register, ConfigTypeOK, Keys
  <2> QED BY <1>3, <2>1, FirstTyped, OverlayKeeps DEF Register, ConfigTypeOK
<1> QED BY <1>1, <1>2, <1>3

LEMMA HalfOverlayTyped ==
  ASSUME ConfigTypeOK, NEW n \in 1 .. Len(FileList) + 1, NEW set
  PROVE  HalfOverlay(mem, n, set) \in [Keys -> Values]
<1> DEFINE before == SubSeq(FileList, 1, n - 1)
           broken == IF n > Len(FileList) THEN env ELSE disk[FileList[n]]
<1>1. before \in [1 .. n - 1 -> Files] /\ n - 1 \in Nat
  <2>1. FileList \in Seq(Files) /\ Len(FileList) \in Nat
    BY ConfigAssumption, ListTyped
  <2>2. n \in Nat /\ n - 1 \in Nat /\ n - 1 <= Len(FileList) /\ 1 <= n
    BY <2>1
  <2>3. \A i \in 1 .. n - 1 : FileList[i] \in Files
    BY <2>1, <2>2, ListTyped
  <2>4. before = [i \in 1 .. n - 1 |-> FileList[i]]
    BY <2>1, <2>2
  <2> QED BY <2>2, <2>3, <2>4
<1>2. OverFiles(mem, before) \in [Keys -> Values]
  BY <1>1, OverFilesTyped DEF ConfigTypeOK
<1>3. broken \in Layer
  BY ListTyped DEF ConfigTypeOK
<1> QED BY <1>2, <1>3 DEF HalfOverlay, Layer

LEMMA FailingTyped ==
  ASSUME ConfigInv, FailingReload
  PROVE  ConfigInv'
<1>1. mem' \in [Keys -> Values]
  BY HalfOverlayTyped DEF FailingReload, ConfigInv
<1> QED BY <1>1, EngineStays DEF FailingReload, ConfigInv, ConfigTypeOK

LEMMA SetTyped ==
  ASSUME ConfigInv, NEW k \in Keys, NEW v \in Values, Set(k, v)
  PROVE  ConfigInv'
<1> USE DEF ConfigInv
<1>1. mem' \in [Keys -> Values] /\ args' \in ArgLayer
  BY DEF Set, SyncArgs, ConfigTypeOK, ArgLayer
<1>2. wanted' \in Layer /\ edited' \in Layer /\ apart' \in BOOLEAN
  <2>1. wanted' \in Layer /\ apart' \in BOOLEAN
    BY DEF Set, ConfigTypeOK, Layer
  <2>2. Nowhere \in Layer /\ [edited EXCEPT ![k] = None] \in Layer
    BY DEF ConfigTypeOK, Layer, Nowhere
  <2>3. edited' \in {edited, Nowhere, [edited EXCEPT ![k] = None]}
    BY DEF Set
  <2> QED BY <2>1, <2>2, <2>3 DEF ConfigTypeOK
<1>3. disk' \in [Files -> Layer] /\ dirty' \subseteq Files
  <2>1. CASE UNCHANGED <<disk, dirty>>
    BY <2>1 DEF ConfigTypeOK
  <2>2. CASE WriteBack /\ dirty' = dirty \cup {Target}
    <3> DEFINE layer == [j \in Keys |-> IF j \in registered THEN mem'[j] ELSE disk[Target][j]]
    <3>1. layer \in Layer
      BY <1>1, ListTyped DEF ConfigTypeOK, Layer
    <3>2. disk' = [disk EXCEPT ![Target] = layer]
      BY <2>2 DEF WriteBack
    <3> HIDE DEF layer
    <3> QED BY <2>2, <3>1, <3>2, ListTyped DEF ConfigTypeOK
  <2> QED BY <2>1, <2>2 DEF Set
<1>4. /\ EngineOK' /\ notes' \in [Values -> Nat] /\ overtaken' \in BOOLEAN
      /\ cfg' \in [Keys -> Values]
  BY <1>1, PublishKeeps DEF Set
<1> QED BY <1>1, <1>2, <1>3, <1>4 DEF Set, ConfigTypeOK

LEMMA EditTyped ==
  ASSUME ConfigInv, NEW f \in Files, NEW k \in Keys, NEW v \in Values, Edit(f, k, v)
  PROVE  ConfigInv'
<1> USE DEF ConfigInv
<1> DEFINE layer == [disk[f] EXCEPT ![k] = v]
<1>1. layer \in Layer
  BY DEF ConfigTypeOK, Layer
<1>2. disk' = [disk EXCEPT ![f] = layer]
  BY DEF Edit
<1> HIDE DEF layer
<1>3. /\ disk' \in [Files -> Layer] /\ dirty' \subseteq Files /\ wanted' \in Layer
      /\ edited' \in Layer
  BY <1>1, <1>2 DEF Edit, ConfigTypeOK, Layer
<1> QED BY <1>3, EngineStays DEF Edit, ConfigTypeOK

LEMMA NotifyTyped ==
  ASSUME ConfigInv, NEW v \in Values, Notify(v)
  PROVE  ConfigInv'
<1> USE DEF ConfigInv
<1>1. /\ notes \in [Values -> Nat] /\ notes[v] > 0 /\ v # None
      /\ notes' = [notes EXCEPT ![v] = @ - 1] /\ upstream' = v
  BY ConfigAssumption DEF Notify, ConfigTypeOK
<1>2. notes' \in [Values -> Nat]
  BY <1>1
<1>3. ASSUME ~ overtaken
      PROVE  notes' = NoNotes /\ upstream' = cfg[UpstreamKey]
  <2>1. notes # NoNotes
    BY <1>1 DEF NoNotes
  <2>2. notes = [NoNotes EXCEPT ![cfg[UpstreamKey]] = 1]
    BY <1>3, <2>1 DEF EngineOK
  <2>3. v = cfg[UpstreamKey] /\ \A w \in Values : w # v => notes[w] = 0
    BY <1>1, <2>2 DEF NoNotes
  <2>4. notes[v] = 1
    BY <2>2, <2>3 DEF NoNotes
  <2>5. \A w \in Values : notes'[w] = 0
    BY <1>1, <2>3, <2>4
  <2>6. notes' = NoNotes
    BY <1>2, <2>5 DEF NoNotes
  <2> QED BY <1>1, <2>3, <2>6
<1>4. EngineOK'
  BY <1>1, <1>3 DEF Notify, EngineOK
<1> QED BY <1>1, <1>2, <1>4 DEF Notify, ConfigTypeOK

LEMMA OthersTyped ==
  ASSUME ConfigInv, NewEngine \/ StartWatcher \/ Poll \/ Stop \/ UNCHANGED vars
  PROVE  ConfigInv'
<1> USE DEF ConfigInv
<1>1. CASE NewEngine
  <2>1. upstream = None /\ upstream' = cfg[UpstreamKey] /\ notes = NoNotes
    BY <1>1 DEF NewEngine, EngineOK
  <2>2. upstream' \in Values
    BY <2>1, ConfigAssumption DEF ConfigTypeOK, Keys
  <2> QED BY <1>1, <2>1, <2>2, ConfigAssumption DEF NewEngine, ConfigTypeOK, EngineOK
<1>2. CASE Stop
  <2>1. NoNotes \in [Values -> Nat] /\ wanted' \in Layer
    BY <1>2 DEF NoNotes, Stop, ConfigTypeOK, Layer
  <2>2. overtaken' \in BOOLEAN /\ apart' \in BOOLEAN /\ polling' \in BOOLEAN
    BY <1>2 DEF Stop
  <2> QED BY <1>2, <2>1, <2>2 DEF Stop, ConfigTypeOK, EngineOK
<1>3. CASE StartWatcher \/ Poll
  <2>1. polling' \in BOOLEAN
    BY <1>3 DEF StartWatcher, Poll, ConfigTypeOK
  <2>2. EngineOK'
    BY <1>3, EngineStays DEF StartWatcher, Poll
  <2> QED BY <1>3, <2>1, <2>2 DEF StartWatcher, Poll, ConfigTypeOK
<1>4. CASE UNCHANGED vars
  BY <1>4, EngineStays DEF vars, ConfigTypeOK
<1> QED BY <1>1, <1>2, <1>3, <1>4

LEMMA ConfigNext == ConfigInv /\ [Next]_vars => ConfigInv'
BY ReloadsKeep, FailingTyped, SetTyped, EditTyped, NotifyTyped, OthersTyped DEF Next

\* A goroutine is on its way to the engine with the published upstream whenever
\* the engine has another, or a publication overtook one that was unread.
THEOREM ConfigInvariant == Spec => []ConfigInv
BY EngineInit, ConfigNext, PTL DEF Spec

\* The proxy routes to the published upstream once the last publication is
\* worked off, unless that one overtook an earlier one, for any keys, values,
\* files and changes (publishLocked, engine.New).
THEOREM EngineFollowsHolds == Spec => []EngineFollows
<1>1. ConfigInv => EngineFollows
  <2> SUFFICES ASSUME ConfigInv, upstream # None, ~ Pending, ~ overtaken
               PROVE  upstream = cfg[UpstreamKey]
    BY DEF EngineFollows
  <2>1. cfg[UpstreamKey] \in Values
    BY ConfigAssumption DEF ConfigInv, ConfigTypeOK, Keys
  <2>2. notes # [NoNotes EXCEPT ![cfg[UpstreamKey]] = 1]
    BY <2>1 DEF Pending, NoNotes
  <2> QED BY <2>2 DEF ConfigInv, EngineOK
<1> QED BY <1>1, ConfigInvariant, PTL

-----------------------------------------------------------------------------
(***************************************************************************)
(* The last word.  With --config there are two files, and Register reads   *)
(* the first one only (impl.go:356): what follows is about the default,    *)
(* one file.                                                               *)
(***************************************************************************)
OneFile == Len(FileList) = 1

\* Nothing of higher rank undoes a hot change of the key.
Settable(k) == env[k] = None /\ cmdline[k] # Switch

\* Arguments name the keys of the command line, and follow the hot change.
ArgsOK(k) ==
  /\ args[k] = None <=> cmdline[k] = None
  /\ args[k] = Switch <=> cmdline[k] = Switch
  /\ wanted[k] # None => args[k] \in {None, Switch, wanted[k]}

\* What is known of a key while the process lives: a key bound already has the
\* value of the hot change, or what the file says if the file has been read.
KeyOK(k) ==
  /\ ArgsOK(k)
  /\ k \in registered /\ wanted[k] # None /\ Settable(k)
       => mem[k] = wanted[k] /\ cfg[k] = wanted[k]
  /\ /\ k \in registered /\ disk[Target][k] # None /\ env[k] = None /\ cmdline[k] = None
     /\ phase = "assembly" \/ Together
     => mem[k] = disk[Target][k]

\* Hot changes and edits are in the file, and after a restart nothing on the
\* command line will undo a hot change.
WordsOK ==
  /\ OneFile
  /\ polling => phase = "serving"
  /\ phase = "serving" => registered = Keys
  /\ \A k \in Keys : wanted[k] # None /\ Settable(k) => disk[Target][k] = wanted[k]
  /\ EditsStay
  /\ phase = "down" => \A k \in Keys : wanted[k] # None => cmdline[k] = None
  /\ phase # "down" => \A k \in Keys : KeyOK(k)

WordsInv == ConfigInv /\ WordsOK

LEMMA TheFile == OneFile => FileList[1] = Target /\ Files = {Target}
<1> SUFFICES ASSUME OneFile
             PROVE  FileList[1] = Target /\ Files = {Target}
  OBVIOUS
<1>1. FileList[1] = Target
  BY DEF OneFile, Target
<1>2. 1 .. Len(FileList) = {1}
  BY DEF OneFile
<1> QED BY <1>1, <1>2 DEF Files

\* What an overlay makes of a key: the command line, else the environment, else
\* the file, else what was there.
LEMMA OverlayIs ==
  ASSUME ConfigInv, NEW m \in [Keys -> Values], NEW files, DOMAIN files = {1},
         files[1] = Target, NEW k \in Keys, k \in registered'
  PROVE  Overlay(m, files)[k] = IF Said(args')[k] # None THEN Said(args')[k]
                                ELSE IF env[k] # None THEN env[k]
                                ELSE IF disk[Target][k] # None THEN disk[Target][k]
                                ELSE m[k]
<1> DEFINE naming == {i \in DOMAIN files : disk[files[i]][k] # None}
           o == OverFiles(m, files)
<1>1. o[k] = IF naming # {} THEN disk[files[Max(naming)]][k] ELSE m[k]
  BY DEF OverFiles
<1>2. o[k] = IF disk[Target][k] # None THEN disk[Target][k] ELSE m[k]
  <2>1. CASE disk[Target][k] # None
    <3>1. naming = {1}
      BY <2>1
    <3> HIDE DEF naming
    <3>2. Max(naming) = 1
      BY <3>1, LastExists
    <3> QED BY <1>1, <2>1, <3>1, <3>2
  <2>2. CASE disk[Target][k] = None
    <3>1. naming = {}
      BY <2>2
    <3> QED BY <1>1, <2>2, <3>1
  <2> QED BY <2>1, <2>2
<1> HIDE DEF o
<1> DEFINE e == Over(o, env)
<1>3. e[k] = IF env[k] # None THEN env[k] ELSE o[k]
  BY DEF Over
<1> HIDE DEF e
<1>4. Over(e, Said(args'))[k] = IF Said(args')[k] # None THEN Said(args')[k] ELSE e[k]
  BY DEF Over
<1> QED BY <1>2, <1>3, <1>4 DEF Overlay, e, o

LEMMA FilesGive ==
  ASSUME NEW m, NEW files, NEW k \in Keys,
         DOMAIN files = {} \/ (DOMAIN files = {1} /\ files[1] = Target)
  PROVE  \/ OverFiles(m, files)[k] = m[k]
         \/ OverFiles(m, files)[k] = disk[Target][k] /\ disk[Target][k] # None
<1> DEFINE naming == {i \in DOMAIN files : disk[files[i]][k] # None}
<1>1. \/ OverFiles(m, files)[k] = m[k]
      \/ naming # {} /\ OverFiles(m, files)[k] = disk[files[Max(naming)]][k]
  BY DEF OverFiles
<1>2. CASE naming = {}
  BY <1>1, <1>2
<1>3. CASE naming # {}
  <2>1. naming = {1} /\ files[1] = Target /\ disk[Target][k] # None
    BY <1>3
  <2> HIDE DEF naming
  <2>2. Max(naming) = 1
    BY <2>1, LastExists
  <2> QED BY <1>1, <2>1, <2>2
<1> QED BY <1>2, <1>3

LEMMA OverlayElsewhere ==
  ASSUME NEW m, NEW files, NEW k \in Keys, k \notin registered'
  PROVE  Overlay(m, files)[k] = m[k]
BY DEF Overlay, OverFiles, Over

LEMMA WordsInit == OneFile /\ Init => WordsInv
<1> SUFFICES ASSUME OneFile, Init
             PROVE  WordsInv
  OBVIOUS
<1>1. ConfigInv
  BY EngineInit
<1>2. \A k \in Keys : wanted[k] = None
  BY DEF Init, Nowhere
<1>3. EditsStay
  BY DEF Init, Nowhere, EditsStay
<1> QED BY <1>1, <1>2, <1>3 DEF WordsInv, WordsOK, Init

\* Everything a reload binds is what the file, the environment and the command
\* line say of it.
LEMMA ReloadedOK ==
  ASSUME WordsInv, NEW m \in [Keys -> Values], NEW files, DOMAIN files = {1},
         files[1] = Target, mem' = Overlay(m, files),
         cfg' = mem', UNCHANGED <<disk, env, cmdline, wanted>>,
         \A k \in Keys : ArgsOK(k)'
  PROVE  \A k \in Keys : KeyOK(k)'
<1> SUFFICES ASSUME NEW k \in Keys
             PROVE  KeyOK(k)'
  OBVIOUS
<1> USE DEF WordsInv
<1>1. wanted[k] # None /\ Settable(k) => disk[Target][k] = wanted[k]
  BY DEF WordsOK
<1>2. k \in registered' =>
        mem'[k] = IF Said(args')[k] # None THEN Said(args')[k]
                  ELSE IF env[k] # None THEN env[k]
                  ELSE IF disk[Target][k] # None THEN disk[Target][k]
                  ELSE m[k]
  BY OverlayIs
<1>3. Said(args')[k] = IF args'[k] = Switch THEN Blank ELSE args'[k]
  BY DEF Said
<1>4. Target' = Target /\ ArgsOK(k)'
  BY DEF Target
<1> QED BY <1>1, <1>2, <1>3, <1>4, ConfigAssumption DEF KeyOK, ArgsOK, Settable

LEMMA LoadWords ==
  ASSUME WordsInv, Load
  PROVE  WordsOK'
<1> USE DEF WordsInv
<1>1. OneFile /\ DOMAIN FileList = {1} /\ FileList[1] = Target
  BY TheFile, ListTyped DEF WordsOK, OneFile
<1>2. [k \in Keys |-> Default] \in [Keys -> Values]
  BY ConfigAssumption
<1>3. \A k \in Keys : ArgsOK(k)'
  BY DEF Load, WordsOK, ArgsOK
<1>4. \A k \in Keys : KeyOK(k)'
  BY <1>1, <1>2, <1>3, ReloadedOK DEF Load, Publish
<1> QED BY <1>1, <1>4 DEF Load, WordsOK, Settable, EditsStay, Target, OneFile

LEMMA RegisterWords ==
  ASSUME WordsInv, NEW k \in PluginKeys, Register(k)
  PROVE  WordsOK'
<1> USE DEF WordsInv
<1>1. OneFile /\ DOMAIN <<FileList[1]>> = {1} /\ <<FileList[1]>>[1] = Target
  BY TheFile DEF WordsOK
<1>2. mem \in [Keys -> Values]
  BY DEF ConfigInv, ConfigTypeOK
<1>3. \A j \in Keys : ArgsOK(j)'
  BY DEF Register, WordsOK, KeyOK, ArgsOK
<1>4. \A j \in Keys : KeyOK(j)'
  BY <1>1, <1>2, <1>3, ReloadedOK DEF Register, Publish
<1> QED BY <1>1, <1>4 DEF Register, WordsOK, Settable, EditsStay, Target, OneFile

LEMMA ReloadWords ==
  ASSUME WordsInv, Reload
  PROVE  WordsOK'
<1> USE DEF WordsInv
<1>1. OneFile /\ DOMAIN FileList = {1} /\ FileList[1] = Target /\ phase = "serving"
  BY TheFile, ListTyped DEF WordsOK, OneFile, Reload
<1>2. mem \in [Keys -> Values]
  BY DEF ConfigInv, ConfigTypeOK
<1>3. \A j \in Keys : ArgsOK(j)'
  BY <1>1 DEF Reload, WordsOK, KeyOK, ArgsOK
<1>4. \A j \in Keys : KeyOK(j)'
  BY <1>1, <1>2, <1>3, ReloadedOK DEF Reload, Publish
<1> QED BY <1>1, <1>4 DEF Reload, WordsOK, Settable, EditsStay, Target, OneFile

\* With the one file, a reload that fails leaves a key its value or gives it that
\* of the file or of the environment.
LEMMA FailingWords ==
  ASSUME WordsInv, FailingReload
  PROVE  WordsOK'
<1> USE DEF WordsInv
<1>1. OneFile /\ FileList[1] = Target /\ phase = "serving" /\ registered = Keys
  BY TheFile DEF WordsOK, FailingReload
<1>2. PICK n \in 1 .. Len(FileList) + 1, set \in SUBSET registered :
        mem' = HalfOverlay(mem, n, set)
  BY DEF FailingReload
<1> DEFINE before == SubSeq(FileList, 1, n - 1)
<1>3. n \in {1, 2} /\ Len(FileList) = 1
  BY <1>1, <1>2 DEF OneFile
<1>4. /\ n = 1 => DOMAIN before = {}
      /\ n = 2 => DOMAIN before = {1} /\ before[1] = Target
  BY <1>1, <1>3, ListTyped
<1> HIDE DEF before
<1>5. \A k \in Keys :
        \/ OverFiles(mem, before)[k] = mem[k]
        \/ OverFiles(mem, before)[k] = disk[Target][k] /\ disk[Target][k] # None
  <2>1. DOMAIN before = {} \/ (DOMAIN before = {1} /\ before[1] = Target)
    BY <1>3, <1>4
  <2> QED BY <2>1, FilesGive
<1>6. \A k \in Keys : \/ mem'[k] = mem[k]
                      \/ mem'[k] = disk[Target][k] /\ disk[Target][k] # None
                      \/ mem'[k] = env[k] /\ env[k] # None
  <2>1. n = 1 => FileList[n] = Target /\ ~ (n > Len(FileList))
    BY <1>1, <1>3
  <2>2. n = 2 => n > Len(FileList)
    BY <1>3
  <2> DEFINE broken == IF n > Len(FileList) THEN env ELSE disk[FileList[n]]
  <2>3. broken = env \/ broken = disk[Target]
    BY <1>3, <2>1, <2>2
  <2>4. \A k \in Keys : mem'[k] = IF k \in set /\ broken[k] # None
                                    THEN broken[k] ELSE OverFiles(mem, before)[k]
    BY <1>2 DEF HalfOverlay, before
  <2> HIDE DEF broken
  <2> SUFFICES ASSUME NEW k \in Keys
               PROVE  \/ mem'[k] = mem[k]
                      \/ mem'[k] = disk[Target][k] /\ disk[Target][k] # None
                      \/ mem'[k] = env[k] /\ env[k] # None
    OBVIOUS
  <2>5. CASE k \in set /\ broken[k] # None
    BY <2>3, <2>4, <2>5
  <2>6. CASE ~ (k \in set /\ broken[k] # None)
    BY <1>5, <2>4, <2>6
  <2> QED BY <2>5, <2>6
<1>7. /\ UNCHANGED <<disk, env, cmdline, phase, registered, args, cfg, wanted, edited>>
      /\ ~ Together' /\ ~ polling'
  BY DEF FailingReload, Together
<1>8. \A k \in Keys : KeyOK(k)'
  BY <1>1, <1>6, <1>7 DEF WordsOK, KeyOK, ArgsOK, Settable, Target
<1> QED BY <1>1, <1>7, <1>8 DEF WordsOK, Settable, EditsStay, Target, OneFile

LEMMA SetWords ==
  ASSUME WordsInv, NEW k \in Keys, NEW v \in Values, Set(k, v)
  PROVE  WordsOK'
<1> USE DEF WordsInv
<1>1. /\ phase = "serving" /\ registered = Keys /\ OneFile
      /\ mem \in [Keys -> Values] /\ args \in ArgLayer /\ wanted \in Layer
      /\ edited \in Layer /\ disk \in [Files -> Layer] /\ v # None
      /\ None # Switch /\ Switch \notin Values
      /\ \A j \in Keys : KeyOK(j)
      /\ \A j \in Keys : wanted[j] # None /\ Settable(j) => disk[Target][j] = wanted[j]
      /\ EditsStay
  BY ConfigAssumption DEF Set, WordsOK, ConfigInv, ConfigTypeOK
<1>2. /\ mem' = [mem EXCEPT ![k] = v] /\ cfg' = mem'
      /\ args' = [args EXCEPT ![k] = IF @ \in Values THEN v ELSE @]
      /\ UNCHANGED <<env, cmdline, phase, registered, polling>>
  BY DEF Set, SyncArgs, Publish
<1>3. /\ mem'[k] = v /\ \A j \in Keys : j # k => mem'[j] = mem[j]
      /\ args'[k] = IF args[k] \in Values THEN v ELSE args[k]
      /\ \A j \in Keys : j # k => args'[j] = args[j]
  BY <1>1, <1>2 DEF ArgLayer
<1>4. /\ wanted'[k] \in {None, v}
      /\ \A j \in Keys : j # k => wanted'[j] = wanted[j]
  BY <1>1 DEF Set, Layer
<1>5. \A j \in Keys : ArgsOK(j)'
  <2>1. ArgsOK(k)'
    <3>1. ArgsOK(k) /\ args[k] \in Values \cup {None, Switch}
      BY <1>1 DEF KeyOK, ArgLayer
    <3>2. cmdline' = cmdline
      BY <1>2
    <3>3. CASE args[k] \in Values
      BY <1>1, <1>3, <1>4, <3>1, <3>2, <3>3, ConfigAssumption DEF ArgsOK
    <3>4. CASE args[k] \in {None, Switch}
      BY <1>1, <1>3, <1>4, <3>1, <3>2, <3>4, ConfigAssumption DEF ArgsOK
    <3> QED BY <3>1, <3>3, <3>4
  <2>2. ASSUME NEW j \in Keys, j # k
        PROVE  ArgsOK(j)'
    BY <1>1, <1>2, <1>3, <1>4, <2>2 DEF KeyOK, ArgsOK
  <2> QED BY <2>1, <2>2
<1>6. \A j \in Keys : wanted'[j] # None /\ Settable(j) => mem'[j] = wanted'[j]
  BY <1>1, <1>3, <1>4 DEF KeyOK
<1>7. CASE /\ wanted' = [wanted EXCEPT ![k] = None] /\ apart' = TRUE
           /\ UNCHANGED <<disk, dirty, edited>>
  <2>1. wanted'[k] = None /\ ~ Together'
    BY <1>1, <1>7 DEF Layer, Together
  <2>2. \A j \in Keys : KeyOK(j)'
    BY <1>1, <1>2, <1>5, <1>6, <2>1 DEF KeyOK, Settable
  <2>3. \A j \in Keys : wanted'[j] # None /\ Settable(j)' => disk'[Target][j] = wanted'[j]
    BY <1>1, <1>2, <1>4, <1>7, <2>1 DEF Settable
  <2> QED BY <1>1, <1>2, <1>7, <2>2, <2>3 DEF WordsOK, EditsStay, OneFile, Target
<1>8. CASE /\ WriteBack /\ apart' = FALSE /\ wanted' = [wanted EXCEPT ![k] = v]
           /\ edited' = IF Together THEN [edited EXCEPT ![k] = None] ELSE Nowhere
           /\ dirty' = dirty \cup {Target}
  <2>1. \A j \in Keys : disk'[Target][j] = mem'[j]
    BY <1>1, <1>8, ListTyped DEF WriteBack
  <2>2. \A j \in Keys : KeyOK(j)'
    BY <1>1, <1>2, <1>5, <1>6, <2>1 DEF KeyOK, Settable, Target
  <2>3. \A j \in Keys : wanted'[j] # None /\ Settable(j)' => disk'[Target][j] = wanted'[j]
    BY <1>2, <1>6, <2>1 DEF Settable
  <2>4. EditsStay'
    <3> SUFFICES ASSUME NEW j \in Keys, edited'[j] # None, env[j] = None, cmdline[j] = None
                 PROVE  disk'[Target][j] = edited'[j]
      BY <1>2 DEF EditsStay, Target
    <3>1. Together
      BY <1>8 DEF Nowhere
    <3>2. j # k /\ edited'[j] = edited[j]
      BY <1>1, <1>8, <3>1 DEF Layer
    <3>3. disk[Target][j] = edited[j]
      BY <1>1, <3>2 DEF EditsStay
    <3>4. mem[j] = disk[Target][j]
      BY <1>1, <3>1, <3>2, <3>3 DEF KeyOK
    <3> QED BY <1>3, <2>1, <3>2, <3>3, <3>4
  <2> QED BY <1>1, <1>2, <2>2, <2>3, <2>4 DEF WordsOK, OneFile, Target
<1> QED BY <1>7, <1>8 DEF Set

LEMMA EditWords ==
  ASSUME WordsInv, NEW f \in Files, NEW k \in Keys, NEW v \in Values, Edit(f, k, v)
  PROVE  WordsOK'
<1> USE DEF WordsInv
<1>1. /\ phase = "serving" /\ registered = Keys /\ OneFile /\ f = Target
      /\ wanted \in Layer /\ edited \in Layer /\ disk \in [Files -> Layer]
      /\ \A j \in Keys : KeyOK(j)
      /\ \A j \in Keys : wanted[j] # None /\ Settable(j) => disk[Target][j] = wanted[j]
      /\ EditsStay
  BY TheFile DEF Edit, WordsOK, ConfigInv, ConfigTypeOK
<1>2. /\ wanted' = [wanted EXCEPT ![k] = None] /\ edited' = [edited EXCEPT ![k] = v]
      /\ ~ Together'
      /\ UNCHANGED <<env, cmdline, phase, registered, mem, args, cfg, polling, apart>>
  BY <1>1 DEF Edit, Together
<1>3. /\ wanted'[k] = None /\ \A j \in Keys : j # k => wanted'[j] = wanted[j]
      /\ edited'[k] = v /\ \A j \in Keys : j # k => edited'[j] = edited[j]
  BY <1>1, <1>2 DEF Layer
<1>4. disk'[Target][k] = v /\ \A j \in Keys : j # k => disk'[Target][j] = disk[Target][j]
  BY <1>1 DEF Edit, Layer
<1>5. \A j \in Keys : KeyOK(j)'
  BY <1>1, <1>2, <1>3 DEF KeyOK, ArgsOK, Settable
<1>6. \A j \in Keys : wanted'[j] # None /\ Settable(j)' => disk'[Target][j] = wanted'[j]
  BY <1>1, <1>2, <1>3, <1>4 DEF Settable
<1>7. EditsStay'
  BY <1>1, <1>2, <1>3, <1>4 DEF EditsStay, Target
<1> QED BY <1>1, <1>2, <1>5, <1>6, <1>7 DEF WordsOK, OneFile, Target

LEMMA StopWords ==
  ASSUME WordsInv, Stop
  PROVE  WordsOK'
<1> USE DEF WordsInv
<1>1. \A j \in Keys : wanted'[j] = IF cmdline[j] = None THEN wanted[j] ELSE None
  BY DEF Stop
<1> QED BY <1>1 DEF Stop, WordsOK, Settable, EditsStay, Target, OneFile

LEMMA QuietWords ==
  ASSUME WordsInv,
         NewEngine \/ StartWatcher \/ Poll \/ (\E v \in Values : Notify(v)) \/ UNCHANGED vars
  PROVE  WordsOK'
<1> USE DEF WordsInv
<1>1. UNCHANGED <<disk, env, cmdline, registered, mem, args, cfg, wanted, edited, apart>>
  BY DEF NewEngine, StartWatcher, Poll, Notify, vars
<1>2. EditsStay' /\ \A k \in Keys : ArgsOK(k) => ArgsOK(k)'
  BY <1>1 DEF WordsOK, EditsStay, ArgsOK, Target
<1>3. CASE StartWatcher
  BY <1>1, <1>2, <1>3 DEF StartWatcher, WordsOK, KeyOK, Settable, Target, OneFile
<1>4. CASE Poll
  BY <1>1, <1>2, <1>4 DEF Poll, WordsOK, KeyOK, Settable, Together, Target, OneFile
<1>5. CASE NewEngine \/ (\E v \in Values : Notify(v)) \/ UNCHANGED vars
  <2>1. UNCHANGED <<phase, dirty, polling>>
    BY <1>5 DEF NewEngine, Notify, vars
  <2> QED BY <1>1, <1>2, <2>1 DEF WordsOK, KeyOK, Settable, Together, Target, OneFile
<1> QED BY <1>3, <1>4, <1>5

LEMMA WordsNext == WordsInv /\ [Next]_vars => WordsInv'
<1> SUFFICES ASSUME WordsInv, [Next]_vars
             PROVE  WordsInv'
  OBVIOUS
<1>1. ConfigInv'
  BY ConfigNext DEF WordsInv
<1>2. WordsOK'
  BY LoadWords, RegisterWords, ReloadWords, FailingWords, SetWords, EditWords, StopWords, QuietWords
     DEF Next
<1> QED BY <1>1, <1>2 DEF WordsInv

LEMMA WordsInvariant == OneFile /\ Spec => []WordsInv
BY WordsInit, WordsNext, PTL DEF Spec

\* With the default file, whoever spoke last about a key is heard: a hot change
\* stays through reloads, failing ones too, and restarts until somebody changes
\* the key again, an edit that was read counts, and it stays in the file, for any
\* keys, values, arguments and changes (Set, syncArgsLocked, reloadFilesLocked);
\* but for the keys and the moments LastWordCounts names.
THEOREM LastWordCountsHolds == OneFile /\ Spec => []LastWordCounts
<1>1. WordsInv => LastWordCounts
  <2> SUFFICES ASSUME WordsInv
               PROVE  LastWordCounts
    OBVIOUS
  <2>1. EditsStay
    BY DEF WordsInv, WordsOK
  <2>2. HotChangesStay
    BY DEF WordsInv, WordsOK, KeyOK, HotChangesStay, Settable
  <2>3. FilesDecide
    BY DEF WordsInv, WordsOK, KeyOK, FilesDecide
  <2> QED BY <2>1, <2>2, <2>3 DEF LastWordCounts
<1> QED BY <1>1, WordsInvariant, PTL

=============================================================================
