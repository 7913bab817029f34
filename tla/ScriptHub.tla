------------------------------ MODULE ScriptHub ------------------------------
(***************************************************************************)
(* internal/hotswap (hub.go, script.go) and internal/netutil: text files   *)
(* that override texts built into the program.  The hub caches what was    *)
(* read, notices by fingerprints that a file changed, reads it again and   *)
(* tells the subscribers.  The list of trusted proxies is one such text,   *)
(* in force as a parsed snapshot and edited by an administrator; the SQL   *)
(* texts are others, read when they are first needed.                      *)
(***************************************************************************)
EXTENDS Integers, FiniteSets

CONSTANTS
  Texts,    \* well-formed contents a file may get
  Readers,  \* goroutines that ask for an SQL text
  Prompt    \* a callback ends within the interval between two rounds

VARIABLES
  disk,     \* the directory: text and fingerprint of each file
  cache,    \* texts of the hub
  fp,       \* fingerprints of the last round
  hub,      \* "built", "watching", "stopping" or "stopped"
  poller,   \* the goroutine of watchLoop, todo is what the round has found
  called,   \* callbacks started that have not read the cache yet
  parsed,   \* texts that callbacks have read and not yet put in force
  list,     \* proxyList: the snapshot in force, named by its text
  reader,   \* the goroutines in GetScriptText
  save,     \* the administrator's request
  left,     \* bounds: changes of the list and of the SQL text, failures, lookups
  astray,   \* history: texts the list may keep although the file says otherwise
  adrift    \* history: the same of the SQL text in the cache

hubVars == <<disk, cache, fp, hub, poller, called, parsed, list, reader, save,
             left, astray, adrift>>

NoText == "none"
ListFile == "trusted_proxies.txt"
TmpFile == "trusted_proxies.txt.tmp"
SqlFile == "sql"
Directories == {{ListFile, TmpFile}, {SqlFile}}
Files == UNION Directories

Contents == Texts \union {"empty", "bad"}

Absent == [text |-> NoText, stamp |-> 0]

\* The texts built into the program.
Embedded == [f \in Files |-> IF f = TmpFile THEN NoText ELSE "default"]

Spend(w) == left[w] > 0 /\ left' = [left EXCEPT ![w] = @ - 1]

\* GetScriptBytes: an override that is missing or empty gives way to the
\* built-in text; None is an error.
GetScriptBytes(f) ==
  IF disk[f].text \in {NoText, "empty"} THEN Embedded[f] ELSE disk[f].text

\* One that cannot be read gives way too.
MayRead(f, text) ==
  \/ /\ text = GetScriptBytes(f)
     /\ UNCHANGED <<left, astray, adrift>>
  \/ /\ Spend("faults")
     /\ text = Embedded[f]
     /\ astray' = astray \union (IF f = ListFile THEN {text} ELSE {})
     /\ adrift' = adrift \union (IF f = SqlFile THEN {text} ELSE {})

\* A change gives the file a fingerprint it never had.
Written(f, text, stamp) ==
  [disk EXCEPT ![f] = IF text = NoText THEN Absent
                      ELSE [text |-> text, stamp |-> stamp]]

Fingerprints == [f \in Files |-> disk[f].stamp]

NoSave == [at |-> "none", text |-> NoText, stamp |-> 0]

Waiting == [at |-> "wait", todo |-> {}, text |-> NoText]

\* SubscribeHub has loaded the list before the hub starts.
HubInit ==
  /\ disk = [f \in Files |-> Absent]
  /\ cache = [f \in Files |-> IF f = ListFile THEN "default" ELSE NoText]
  /\ fp = [f \in Files |-> 0]
  /\ hub = "built"
  /\ poller = Waiting
  /\ called = 0
  /\ parsed = [t \in Contents \union {"default"} |-> 0]
  /\ list = "default"
  /\ reader = [r \in Readers |-> [at |-> "idle", text |-> NoText]]
  /\ save = NoSave
  /\ astray = {} /\ adrift = {}

-----------------------------------------------------------------------------
(* Someone edits or removes a file.  Before Start the change belongs to    *)
(* the baseline, and what was loaded stays; a file that is gone again      *)
(* before a round saw it was never there.                                  *)

EditList ==
  /\ Spend("list")
  /\ \E text \in Contents \union {NoText} :
       disk' = Written(ListFile, text, left["list"])
  /\ disk'[ListFile] # disk[ListFile]
  /\ astray' = IF hub = "built" \/ disk'[ListFile].stamp = fp[ListFile]
               THEN {list} ELSE {}
  /\ UNCHANGED <<cache, fp, hub, poller, called, parsed, list, reader, save, adrift>>

EditSql ==
  /\ Spend("sql")
  /\ \E text \in Contents \union {NoText} :
       disk' = Written(SqlFile, text, left["sql"])
  /\ disk'[SqlFile] # disk[SqlFile]
  /\ adrift' = IF hub = "built" \/ disk'[SqlFile].stamp = fp[SqlFile]
               THEN {cache[SqlFile]} ELSE {}
  /\ UNCHANGED <<cache, fp, hub, poller, called, parsed, list, reader, save, astray>>

-----------------------------------------------------------------------------
(* Start, watchLoop, Shutdown.                                             *)

StartHub ==
  /\ hub = "built" /\ hub' = "watching"
  /\ fp' = Fingerprints
  /\ UNCHANGED <<disk, cache, poller, called, parsed, list, reader, save, left, astray, adrift>>

\* Mutant: deletions are not looked for.
ChangedNotRemoved(sub) == {f \in sub : disk[f].stamp # 0 /\ disk[f].stamp # fp[f]}

diffFPs(sub) == {f \in sub : disk[f].stamp # fp[f]}

\* A round that finds something; the fingerprints advance at once.
PollSub ==
  /\ hub \in {"watching", "stopping"} /\ poller.at = "wait"
  /\ Prompt => called = 0 /\ \A t \in DOMAIN parsed : parsed[t] = 0
  /\ \E sub \in Directories :
       /\ diffFPs(sub) # {}
       /\ fp' = [f \in Files |-> IF f \in sub THEN disk[f].stamp ELSE fp[f]]
       /\ poller' = [poller EXCEPT !.at = "reread", !.todo = diffFPs(sub)]
  /\ UNCHANGED <<disk, cache, hub, called, parsed, list, reader, save, left, astray, adrift>>

\* The changes of a round are handled in the order of the names.
Current == IF ListFile \in poller.todo THEN ListFile ELSE CHOOSE f \in poller.todo : TRUE

NextChange ==
  LET rest == poller.todo \ {Current} IN
  IF rest = {} THEN Waiting ELSE [Waiting EXCEPT !.at = "reread", !.todo = rest]

\* handleChange: reread without the lock; an error keeps the old text.
Reread ==
  /\ poller.at = "reread"
  /\ \E text \in Contents \union {"default", NoText} :
       /\ MayRead(Current, text)
       /\ poller' = IF text = NoText THEN NextChange
                    ELSE [poller EXCEPT !.at = "store", !.text = text]
  /\ UNCHANGED <<disk, cache, fp, hub, called, parsed, list, reader, save>>

Store ==
  /\ poller.at = "store"
  /\ cache' = [cache EXCEPT ![Current] = poller.text]
  /\ poller' = [poller EXCEPT !.at = "notify"]
  /\ UNCHANGED <<disk, fp, hub, called, parsed, list, reader, save, left, astray, adrift>>

\* Whatever changed in the directory of the list, its subscriber is called.
Notify ==
  /\ poller.at = "notify"
  /\ called' = IF Current = SqlFile THEN called ELSE called + 1
  /\ poller' = NextChange
  /\ UNCHANGED <<disk, cache, fp, hub, parsed, list, reader, save, left, astray, adrift>>

Shutdown ==
  /\ hub = "watching" /\ hub' = "stopping"
  /\ UNCHANGED <<disk, cache, fp, poller, called, parsed, list, reader, save, left, astray, adrift>>

LoopEnds ==
  /\ hub = "stopping" /\ poller.at = "wait" /\ hub' = "stopped"
  /\ UNCHANGED <<disk, cache, fp, poller, called, parsed, list, reader, save, left, astray, adrift>>

-----------------------------------------------------------------------------
(* GetScriptText: a miss reads the file without the lock, then stores.     *)

Miss(r) ==
  /\ reader[r].at = "idle" /\ cache[SqlFile] = NoText /\ Spend("lookups")
  /\ reader' = [reader EXCEPT ![r] = [at |-> "missed", text |-> NoText]]
  /\ UNCHANGED <<disk, cache, fp, hub, poller, called, parsed, list, save, astray, adrift>>

ReadMissing(r) ==
  /\ reader[r].at = "missed"
  /\ \E text \in Contents \union {"default"} :
       /\ MayRead(SqlFile, text)
       /\ reader' = [reader EXCEPT ![r] = [at |-> "read", text |-> text]]
  /\ UNCHANGED <<disk, cache, fp, hub, poller, called, parsed, list, save>>

StoreMissing(r) ==
  /\ reader[r].at = "read"
  /\ cache' = [cache EXCEPT ![SqlFile] = reader[r].text]
  /\ adrift' = IF reader[r].text = GetScriptBytes(SqlFile) THEN adrift
               ELSE adrift \union {reader[r].text}
  /\ reader' = [reader EXCEPT ![r] = [at |-> "done", text |-> NoText]]
  /\ UNCHANGED <<disk, fp, hub, poller, called, parsed, list, save, left, astray>>

-----------------------------------------------------------------------------
(* The callback of SubscribeHub, one goroutine for each call.              *)

CallbackReads ==
  /\ called > 0 /\ called' = called - 1
  /\ parsed' = [parsed EXCEPT ![cache[ListFile]] = @ + 1]
  /\ UNCHANGED <<disk, cache, fp, hub, poller, list, reader, save, left, astray, adrift>>

\* A text that does not parse keeps the snapshot.
ApplyTrustedProxiesText(text) == list' = IF text = "bad" THEN list ELSE text

CallbackApplies ==
  \E t \in DOMAIN parsed :
    /\ parsed[t] > 0
    /\ parsed' = [parsed EXCEPT ![t] = @ - 1]
    /\ ApplyTrustedProxiesText(t)
    /\ UNCHANGED <<disk, cache, fp, hub, poller, called, reader, save, left, astray, adrift>>

-----------------------------------------------------------------------------
(* ProxiesAdmin.save: checked by putting it in force, then written beside  *)
(* the file and renamed.                                                   *)

SaveApplies ==
  /\ hub # "built" /\ save.at = "none" /\ Spend("list")
  /\ \E text \in Contents \ {"bad"} :
       /\ ApplyTrustedProxiesText(text)
       /\ save' = [at |-> "checked", text |-> text, stamp |-> left["list"]]
  /\ UNCHANGED <<disk, cache, fp, hub, poller, called, parsed, reader, astray, adrift>>

SaveWrites ==
  /\ save.at = "checked"
  /\ disk' = Written(TmpFile, save.text, save.stamp)
  /\ save' = [save EXCEPT !.at = "written"]
  /\ UNCHANGED <<cache, fp, hub, poller, called, parsed, list, reader, left, astray, adrift>>

SaveRenames ==
  /\ save.at = "written"
  /\ disk' = [disk EXCEPT ![ListFile] = disk[TmpFile], ![TmpFile] = Absent]
  /\ save' = NoSave
  /\ astray' = {}
  /\ UNCHANGED <<cache, fp, hub, poller, called, parsed, list, reader, left, adrift>>

\* The request is answered with an error; the text stays in force.
SaveFails ==
  /\ save.at \in {"checked", "written"}
  /\ Spend("faults")
  /\ astray' = astray \union {save.text}
  /\ disk' = IF save.at = "written" THEN Written(TmpFile, NoText, 0) ELSE disk
  /\ save' = NoSave
  /\ UNCHANGED <<cache, fp, hub, poller, called, parsed, list, reader, adrift>>

HubStep ==
  \/ EditList \/ EditSql \/ StartHub \/ PollSub \/ Reread \/ Store \/ Notify \/ Shutdown \/ LoopEnds
  \/ \E r \in Readers : Miss(r) \/ ReadMissing(r) \/ StoreMissing(r)
  \/ CallbackReads \/ CallbackApplies
  \/ SaveApplies \/ SaveWrites \/ SaveRenames \/ SaveFails

\* The goroutines of the hub run on; its ticker keeps the rounds coming.
HubFairness ==
  /\ WF_hubVars(StartHub) /\ WF_hubVars(PollSub)
  /\ WF_hubVars(Reread) /\ WF_hubVars(Store) /\ WF_hubVars(Notify)
  /\ WF_hubVars(CallbackReads) /\ WF_hubVars(CallbackApplies)
  /\ WF_hubVars(SaveWrites \/ SaveRenames \/ SaveFails)

-----------------------------------------------------------------------------
\* While the hub watches, the list of trusted proxies in force and a cached
\* SQL text come to be what their files say, removed and emptied files and the
\* administrator's saves included.  A list that does not parse leaves the last
\* one; what a save that failed or an unreadable file brought stays until the
\* next change; and so does a text that a reader took from the file before a
\* change and cached after it, although the text returned is documented to be
\* the newest (SubscribeHub, GetScriptText, pollSub, ProxiesAdmin.save).
TextsFollowFiles ==
  <>[](hub = "watching" =>
         /\ GetScriptBytes(ListFile) # "bad"
              => list \in {GetScriptBytes(ListFile)} \union astray
         /\ cache[SqlFile] \in {NoText, GetScriptBytes(SqlFile)} \union adrift)
=============================================================================
