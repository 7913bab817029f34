------------------------------- MODULE Config -------------------------------
(***************************************************************************)
(* internal/conf, the configuration centre, and the subscription of        *)
(* internal/engine to it.  A value comes from the command line, else the   *)
(* environment, else the files, else the default; a hot change is put into *)
(* the bound variables, published, and written back to the last file,      *)
(* whose new time stamp makes the poller reload everything.  The bound     *)
(* variables are easyconf's, an external library: how it fills them from a *)
(* file and writes them to one is taken from how it is used.               *)
(***************************************************************************)
EXTENDS Integers, Sequences, FiniteSetsExt

CONSTANTS
  BaseKeys,     \* the keys the configuration centre registers itself
  PluginKeys,   \* the keys registered during assembly
  UpstreamKey,  \* ROCKSYS_UPSTREAM
  Values, Default, None,
  Blank,        \* the empty value, false for a switch
  Switch,       \* what the command line says of a key it names without a value
  FileList,     \* watchFiles: the files, least important first
  FileInputs, EnvInputs, ArgInputs, \* what files, environment and command line may say
  DiskFails,    \* what an UpdateFile may meet: TRUE for a failing disk
  MaxSets, MaxEdits, MaxStops, MaxFails
    \* bounds: hot changes, edits by hand, restarts, failing reloads

Keys == BaseKeys \cup PluginKeys

Layer == [Keys -> Values \cup {None}]

ArgLayer == [Keys -> Values \cup {None, Switch}]

Files == {FileList[k] : k \in 1 .. Len(FileList)}

ASSUME ConfigAssumption ==
  /\ UpstreamKey \in BaseKeys /\ BaseKeys \cap PluginKeys = {}
  /\ {Default, Blank} \subseteq Values /\ None \notin Values
  /\ Switch \notin Values \cup {None}
  /\ FileList \in Seq(Files) /\ FileList # <<>>
  /\ FileInputs \subseteq Layer
  /\ EnvInputs \subseteq Layer /\ ArgInputs \subseteq ArgLayer
  /\ DiskFails \subseteq BOOLEAN /\ FALSE \in DiskFails
  /\ MaxSets \in Nat /\ MaxEdits \in Nat /\ MaxStops \in Nat /\ MaxFails \in Nat

VARIABLES
  disk,        \* the files
  env,         \* the environment variables
  cmdline,     \* the arguments the process is started with
  phase,       \* "down", "assembly", "serving"
  registered,  \* the keys bound so far
  mem,         \* the bound variables
  args,        \* m.args
  cfg,         \* m.cfg, the published snapshot
  dirty,       \* files whose time stamp the poller has not seen
  polling,     \* whether the poller has seen a change and not yet reloaded
  upstream,    \* Adapter.defaultUpstream; None before engine.New
  notes,       \* goroutines started for the engine's watcher, by their value
  wanted,      \* history: the last hot change of each key
  edited,      \* history: the last edit by hand of each key of the last file,
               \* unless a hot change took its place
  apart,       \* history: whether a write of the last file or a reload failed,
               \* and no other one has brought file and variables together since
  overtaken,   \* history: whether the last publication met an unread one
  count        \* bound counters

vars == <<disk, env, cmdline, phase, registered, mem, args, cfg, dirty,
          polling, upstream, notes, wanted, edited, apart, overtaken, count>>

-----------------------------------------------------------------------------
\* A layer over the bound variables: a key it does not name keeps its value.
Over(m, layer) ==
  [k \in Keys |-> IF k \in registered' /\ layer[k] # None THEN layer[k] ELSE m[k]]

\* Of several files the last one that names a key decides it.
OverFiles(m, files) ==
  [k \in Keys |->
     LET naming == {i \in DOMAIN files : disk[files[i]][k] # None} IN
     IF k \in registered' /\ naming # {} THEN disk[files[Max(naming)]][k] ELSE m[k]]

\* parseArgsToMap: a switch without a value counts as the empty value.
Said(layer) == [k \in Keys |-> IF layer[k] = Switch THEN Blank ELSE layer[k]]

\* Files from low to high, then the environment, then the command line.
Overlay(m, files) == Over(Over(OverFiles(m, files), env), Said(args'))

\* The same up to the first error: the files before the n-th, and of the n-th,
\* or of the environment after all of them, what was set before the error.
HalfOverlay(m, n, set) ==
  LET broken == IF n > Len(FileList) THEN env ELSE disk[FileList[n]] IN
  [k \in Keys |-> IF k \in set /\ broken[k] # None
                    THEN broken[k]
                    ELSE OverFiles(m, SubSeq(FileList, 1, n - 1))[k]]

\* watchFiles()[len-1]: where hot changes are written to.
Target == FileList[Len(FileList)]

NoNotes == [v \in Values |-> 0]

Pending == \E v \in Values : notes[v] > 0

\* Mutant: the watchers get the snapshot from before the change.
PublishEarly ==
  /\ cfg' = mem'
  /\ IF upstream = None
       THEN UNCHANGED <<notes, overtaken>>
       ELSE /\ notes' = [notes EXCEPT ![mem[UpstreamKey]] = @ + 1]
            /\ overtaken' = Pending

\* publishLocked: the snapshot, and one goroutine for each watcher.
Publish ==
  /\ cfg' = mem'
  /\ IF upstream = None
       THEN UNCHANGED <<notes, overtaken>>
       ELSE /\ notes' = [notes EXCEPT ![mem'[UpstreamKey]] = @ + 1]
            /\ overtaken' = Pending

Nowhere == [k \in Keys |-> None]

Init ==
  /\ disk \in [Files -> FileInputs]
  /\ env \in EnvInputs /\ cmdline \in ArgInputs
  /\ phase = "down"
  /\ registered = {}
  /\ mem = [k \in Keys |-> Default]
  /\ args = Nowhere
  /\ cfg = mem
  /\ dirty = {} /\ polling = FALSE
  /\ upstream = None /\ notes = NoNotes
  /\ wanted = Nowhere /\ edited = Nowhere /\ apart = FALSE
  /\ overtaken = FALSE
  /\ count = [set |-> 0, edit |-> 0, stop |-> 0, fail |-> 0]

-----------------------------------------------------------------------------
(* Assembly, by one goroutine.                                             *)

\* defaultLoader: all base keys from all layers.
Load ==
  /\ phase = "down"
  /\ phase' = "assembly"
  /\ registered' = BaseKeys
  /\ args' = cmdline
  /\ mem' = Overlay([k \in Keys |-> Default], FileList)
  /\ Publish
  /\ UNCHANGED <<disk, env, cmdline, dirty, polling, upstream, wanted, edited, apart,
                 count>>

\* Register: one more key, and the first file, the environment and the command
\* line over all keys again.
Register(k) ==
  /\ phase = "assembly" /\ k \notin registered
  /\ registered' = registered \cup {k}
  /\ UNCHANGED args
  /\ mem' = Overlay(mem, <<FileList[1]>>)
  /\ Publish
  /\ UNCHANGED <<disk, env, cmdline, phase, dirty, polling, upstream, wanted,
                 edited, apart, count>>

\* engine.New: the upstream of the current snapshot, and the subscription.
NewEngine ==
  /\ phase = "assembly" /\ upstream = None
  /\ upstream' = cfg[UpstreamKey]
  /\ UNCHANGED <<disk, env, cmdline, phase, registered, mem, args, cfg, dirty,
                 polling, notes, wanted, edited, apart, overtaken, count>>

\* The poller starts from the time stamps it finds.
StartWatcher ==
  /\ phase = "assembly" /\ registered = Keys /\ upstream # None
  /\ phase' = "serving"
  /\ dirty' = {}
  /\ UNCHANGED <<disk, env, cmdline, registered, mem, args, cfg, polling,
                 upstream, notes, wanted, edited, apart, overtaken, count>>

-----------------------------------------------------------------------------
(* Running.                                                                *)

\* Mutant: the arguments keep the old value.
SyncNothing(k, v) ==
  UNCHANGED args

\* syncArgsLocked: an argument that gives the key a value takes the new one; a
\* switch without a value is left as it is.
SyncArgs(k, v) ==
  args' = [args EXCEPT ![k] = IF @ \in Values THEN v ELSE @]

\* UpdateFile: all bound variables into the last file, which may fail.
WriteBack ==
  disk' = [disk EXCEPT ![Target] =
             [k \in Keys |-> IF k \in registered THEN mem'[k] ELSE disk[Target][k]]]

\* The poller has read all there is to read, and the last write has gone well.
Together == dirty = {} /\ ~ polling /\ ~ apart

\* A call of Set, under m.mu from end to end; a value that is there already is
\* neither published nor written.
Set(k, v) ==
  /\ phase = "serving" /\ count.set < MaxSets
  /\ mem[k] # v
  /\ mem' = [mem EXCEPT ![k] = v]
  /\ Publish
  /\ SyncArgs(k, v)
  /\ \/ TRUE \in DiskFails
        /\ wanted' = [wanted EXCEPT ![k] = None]
        /\ apart' = TRUE
        /\ UNCHANGED <<disk, dirty, edited>>
     \/ /\ WriteBack
        /\ apart' = FALSE
        /\ wanted' = [wanted EXCEPT ![k] = v]
        /\ edited' = IF Together THEN [edited EXCEPT ![k] = None] ELSE Nowhere
        /\ dirty' = dirty \cup {Target}
  /\ count' = [count EXCEPT !.set = @ + 1]
  /\ UNCHANGED <<env, cmdline, phase, registered, polling, upstream>>

\* Somebody edits one key of a file by hand.
Edit(f, k, v) ==
  /\ phase = "serving" /\ count.edit < MaxEdits
  /\ disk[f][k] # v
  /\ disk' = [disk EXCEPT ![f][k] = v]
  /\ dirty' = dirty \cup {f}
  /\ wanted' = [wanted EXCEPT ![k] = None]
  /\ edited' = IF f = Target THEN [edited EXCEPT ![k] = v] ELSE edited
  /\ count' = [count EXCEPT !.edit = @ + 1]
  /\ UNCHANGED <<env, cmdline, phase, registered, mem, args, cfg, polling,
                 upstream, notes, apart, overtaken>>

\* One turn of watchLoop: the time stamps ...
Poll ==
  /\ phase = "serving" /\ dirty # {} /\ ~ polling
  /\ dirty' = {}
  /\ polling' = TRUE
  /\ UNCHANGED <<disk, env, cmdline, phase, registered, mem, args, cfg,
                 upstream, notes, wanted, edited, apart, overtaken, count>>

\* Mutant: what was reloaded is written back.
ReloadAndSave ==
  /\ polling
  /\ polling' = FALSE /\ apart' = FALSE
  /\ UNCHANGED <<registered, args>>
  /\ mem' = Overlay(mem, FileList)
  /\ Publish
  /\ WriteBack
  /\ dirty' = dirty \cup {Target}
  /\ UNCHANGED <<env, cmdline, phase, upstream, wanted, edited, count>>

\* ... and reloadFilesLocked.
Reload ==
  /\ polling
  /\ polling' = FALSE /\ apart' = FALSE
  /\ UNCHANGED <<registered, args>>
  /\ mem' = Overlay(mem, FileList)
  /\ Publish
  /\ UNCHANGED <<disk, env, cmdline, phase, dirty, upstream, wanted, edited, count>>

\* The same when a file cannot be read or has a value that cannot be set: nothing
\* is published, and the poller waits for the next change of a file.
FailingReload ==
  /\ polling /\ count.fail < MaxFails
  /\ polling' = FALSE /\ apart' = TRUE
  /\ UNCHANGED <<registered, args>>
  /\ \E n \in 1 .. Len(FileList) + 1, set \in SUBSET registered :
       mem' = HalfOverlay(mem, n, set)
  /\ count' = [count EXCEPT !.fail = @ + 1]
  /\ UNCHANGED <<disk, env, cmdline, phase, cfg, dirty, upstream, notes, wanted,
                 edited, overtaken>>

\* One of the goroutines of the engine's watcher; they come in any order.
Notify(v) ==
  /\ notes[v] > 0
  /\ notes' = [notes EXCEPT ![v] = @ - 1]
  /\ upstream' = v
  /\ UNCHANGED <<disk, env, cmdline, phase, registered, mem, args, cfg, dirty,
                 polling, wanted, edited, apart, overtaken, count>>

\* The process ends.  What the command line names starts from there again.
Stop ==
  /\ phase = "serving" /\ count.stop < MaxStops
  /\ phase' = "down"
  /\ dirty' = {} /\ polling' = FALSE
  /\ upstream' = None /\ notes' = NoNotes /\ overtaken' = FALSE /\ apart' = FALSE
  /\ wanted' = [k \in Keys |-> IF cmdline[k] = None THEN wanted[k] ELSE None]
  /\ count' = [count EXCEPT !.stop = @ + 1]
  /\ UNCHANGED <<disk, env, cmdline, registered, mem, args, cfg, edited>>

Next ==
  \/ Load \/ NewEngine \/ StartWatcher \/ Poll \/ Reload \/ FailingReload \/ Stop
  \/ \E k \in PluginKeys : Register(k)
  \/ \E k \in Keys, v \in Values :
       \/ Set(k, v)
       \/ \E f \in Files : Edit(f, k, v)
  \/ \E v \in Values : Notify(v)

Spec == Init /\ [][Next]_vars

\* The ticker of the poller and the goroutines it starts keep running.
FairSpec == Spec /\ WF_vars(Poll) /\ WF_vars(Reload \/ FailingReload)
                 /\ \A v \in Values : WF_vars(Notify(v))

-----------------------------------------------------------------------------
\* "A hot change takes effect at once, is written back, and stays after a
\* restart": it stays, in the variable and in what is published, until somebody
\* changes the key again, through every reload that its own write or an edit of
\* another key sets off, and through reloads that fail halfway.  Two kinds of key
\* are left aside, for which the code does not do what the sentence says: a key
\* the environment names gets the value of the environment back at the next
\* reload, and a switch on the command line that has no value the empty one.
HotChangesStay ==
  phase = "serving" =>
    \A k \in Keys :
      wanted[k] # None /\ env[k] = None /\ cmdline[k] # Switch
        => mem[k] = wanted[k] /\ (k \in BaseKeys => cfg[k] = wanted[k])

\* A file that names a key decides it once the poller has read the file, unless
\* the environment or the command line names the key too, or the last write or
\* reload failed: a hot change must not shadow later edits by hand.
FilesDecide ==
  phase = "serving" /\ Together =>
    \A k \in Keys :
      disk[Target][k] # None /\ env[k] = None /\ cmdline[k] = None
        => mem[k] = disk[Target][k]

\* What a hand wrote into the last file stays there through the write-backs of
\* hot changes of other keys, which write all variables.  It is lost, and this
\* is left aside, when such a write-back comes before a reload has read the edit.
EditsStay ==
  \A k \in Keys :
    edited[k] # None /\ env[k] = None /\ cmdline[k] = None
      => disk[Target][k] = edited[k]

\* All together: what counts for a key is whoever spoke last, the operator's hot
\* change or the hand that edited the file (Set, syncArgsLocked).
LastWordCounts == HotChangesStay /\ FilesDecide /\ EditsStay

\* The proxy routes to the published upstream once it has worked off the last
\* publication, if that did not overtake an earlier one.
EngineFollows ==
  upstream # None /\ ~ Pending /\ ~ overtaken => upstream = cfg[UpstreamKey]

\* The write of a hot change sets off one reload and not another one: every
\* change of a file is worked off.
Settles ==
  dirty # {} ~> dirty = {} /\ ~ polling
=============================================================================
