--------------------------- MODULE ServiceRegistry ---------------------------
(***************************************************************************)
(* plugins/registry: the table of service instances, those who change it   *)
(* (requests of services, the scan for heartbeats that stay away, Start)   *)
(* and the watchers who are told.  The table has a lock; the list is taken *)
(* under it and handed on without it.                                      *)
(***************************************************************************)
EXTENDS Storage

CONSTANTS
  Instances,  \* service instances
  Static,     \* those of the file REGISTRY_STATIC_FILE
  Clients     \* handlers that may run together

Scanner == "scanner"
Publishers == Clients \cup {Scanner}

ASSUME RegistryAssumption == Static \subseteq Instances /\ Scanner \notin Clients

VARIABLES
  registry,   \* the component: "off", "on" or "stopping"
  instances,  \* the table: instance to "none", "static", "fresh" or "stale"
  publisher,  \* where a change is on its way to the watchers
  heard,      \* the list the watcher was told last
  told        \* history: it was told the present table since it last changed

registryVars == <<registry, instances, publisher, heard, told>>

Silent == [at |-> "idle", list |-> {}]

RegistryInit ==
  /\ registry = "off"
  /\ instances = [i \in Instances |-> "none"]
  /\ publisher = [p \in Publishers |-> Silent]
  /\ heard = {}
  /\ told = TRUE

Present == {i \in Instances : instances[i] # "none"}

\* The change of a table; whoever made it publishes next.
Change(p, table) ==
  /\ instances' = table
  /\ publisher' = [publisher EXCEPT ![p].at = "list"]
  /\ told' = FALSE
  /\ UNCHANGED <<registry, heard>>

\* Mutant: a heartbeat that registers is not a change.
BeatQuietly(c, i) ==
  /\ instances' = [instances EXCEPT ![i] = IF @ = "static" THEN @ ELSE "fresh"]
  /\ told' = (told /\ instances[i] # "none")
  /\ UNCHANGED <<registry, publisher, heard>>

\* Registers or renews; a static instance stays what it is.
Beat(c, i) ==
  IF instances[i] = "none" THEN Change(c, [instances EXCEPT ![i] = "fresh"])
  ELSE /\ instances' = [instances EXCEPT ![i] = IF @ = "static" THEN @ ELSE "fresh"]
       /\ UNCHANGED <<registry, publisher, heard, told>>

\* POST /register and PUT /heartbeat come to the same.
HandleBeat(c, i) ==
  /\ registry = "on" /\ publisher[c].at = "idle" /\ Spend("beats")
  /\ Beat(c, i)
  /\ UNCHANGED db

\* No heartbeat within the ttl.
Lapse(i) ==
  /\ instances[i] = "fresh"
  /\ instances' = [instances EXCEPT ![i] = "stale"]
  /\ UNCHANGED <<registry, publisher, heard, told, storageVars>>

Overdue == {i \in Instances : instances[i] = "stale"}

ScanOnce ==
  /\ registry # "off" /\ publisher[Scanner].at = "idle" /\ Overdue # {}
  /\ Change(Scanner, [i \in Instances |-> IF i \in Overdue THEN "none"
                                                           ELSE instances[i]])
  /\ UNCHANGED storageVars

-----------------------------------------------------------------------------
(* publish.                                                                *)

TakeList(p) ==
  /\ publisher[p].at = "list"
  /\ publisher' = [publisher EXCEPT ![p] = [at |-> "notify", list |-> Present]]
  /\ UNCHANGED <<registry, instances, heard, told, storageVars>>

Notify(p) ==
  /\ publisher[p].at = "notify"
  /\ heard' = publisher[p].list
  /\ told' = (told \/ publisher[p].list = Present)
  /\ publisher' = [publisher EXCEPT ![p] = Silent]
  /\ UNCHANGED <<registry, instances, storageVars>>

Publish(p) == TakeList(p) \/ Notify(p)

-----------------------------------------------------------------------------
(* Start makes a new server and a new table; nobody can watch it yet when  *)
(* it publishes the first list.  Stop waits for the scan and, for a while, *)
(* for the handlers; those who are late go on with the old server.         *)

StartRegistry ==
  /\ registry = "off" /\ registry' = "on"
  /\ instances' = [i \in Instances |-> IF i \in Static THEN "static" ELSE "none"]
  /\ publisher' = [p \in Publishers |-> Silent]
  /\ heard' = Static /\ told' = TRUE

StopRegistry ==
  /\ registry = "on" /\ registry' = "stopping"
  /\ UNCHANGED <<instances, publisher, heard, told>>

RegistryEnds ==
  /\ registry = "stopping" /\ registry' = "off"
  /\ publisher[Scanner].at = "idle"
  /\ IF \A c \in Clients : publisher[c].at = "idle" THEN Free ELSE Spend("timeouts")
  /\ UNCHANGED <<instances, publisher, heard, told, db>>

-----------------------------------------------------------------------------
\* When nobody is publishing, the watchers have been told the table as it is:
\* two changes may overtake each other on the way, but whoever changed it
\* last takes the list after that (publish).
WatchersTold ==
  (\A p \in Publishers : publisher[p].at = "idle") => told
=============================================================================
