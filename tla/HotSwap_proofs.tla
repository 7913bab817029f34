--------------------------- MODULE HotSwap_proofs ---------------------------
(***************************************************************************)
(* The manager of the plugins and what it mounts.  In three parts, for     *)
(* every set of names and any number of steps: the hot switch manager      *)
(* never stops what a request can use; a request runs the middlewares of   *)
(* its snapshot of the chain; the Lua engine keeps every publication it    *)
(* has answered.                                                           *)
(***************************************************************************)
EXTENDS HotSwap, Chain, Scripts, FiniteSetTheorems, SequenceTheorems,
        WellFoundedInduction, TLAPS

(***************************************************************************)
(*                                                                         *)
(* Part one: the hot switch manager.                                       *)
(*                                                                         *)
(***************************************************************************)

(***************************************************************************)
(* Where a goroutine has a middleware in hand, and where it has the lock.  *)
(***************************************************************************)
Handling == {"verify", "enable", "start", "mount", "disable", "unmount", "draining",
             "drain", "stop", "disabled"}

Locked == {"start", "mount", "unmount", "draining", "drain", "stop", "disabled",
           "quit", "quitting"}

NamesOK == \A p \in Procs : proc[p].pc \in Handling => proc[p].mw \in Middlewares

LockOK == \A p \in Procs : proc[p].pc \in Locked <=> lock = p

InFlight == {r \in Requests : using[r].phase # "outside"}

CountOK ==
  /\ active = Cardinality(InFlight)
  /\ \A r \in Requests : using[r].phase \in {"outside", "counted"} => using[r].set = {}

(***************************************************************************)
(* What the goroutine with the lock knows of its middleware.               *)
(***************************************************************************)
HolderOK(p) ==
  LET m == proc[p].mw IN
  /\ proc[p].pc \in {"start", "mount"} => state[m] = "disabled"
  /\ proc[p].pc = "mount" => running[m]
  /\ proc[p].pc \in {"unmount", "draining"} => state[m] = "enabled"
  /\ proc[p].pc \in {"drain", "stop", "disabled"} => state[m] = "draining"
  /\ proc[p].pc \in {"stop", "disabled"} => Users(m) \subseteq cut

DrainingIsHeld ==
  \A m \in Middlewares : state[m] = "draining" => Held(m, {"drain", "stop", "disabled"})

NothingStopped ==
  \A m \in Middlewares : mounted[m] > 0 \/ Users(m) \ cut # {} => running[m]

ManagerOK ==
  Serving => /\ StateMatchesChain /\ DrainingIsHeld /\ NothingStopped
             /\ \A p \in Procs : HolderOK(p)

HotSwapInv == TypeOK /\ NamesOK /\ LockOK /\ CountOK /\ ManagerOK

-----------------------------------------------------------------------------
(***************************************************************************)
(* A step of one goroutine, and its new place.                             *)
(***************************************************************************)
Moves(p) ==
  /\ proc' \in [Procs -> Calls]
  /\ \A q \in Procs : q # p => proc'[q] = proc[q]
  /\ proc'[p].pc \in Handling => proc'[p].mw \in Middlewares

LEMMA IdleType ==
  ASSUME TypeOK
  PROVE  Idle \in Calls /\ Idle.pc = "idle"
BY DEF TypeOK, Idle, Calls, Places, Kinds

LEMMA GoMoves ==
  ASSUME TypeOK, NEW p \in Procs, NEW to \in Places, Go(p, to),
         to \in Handling => proc[p].mw \in Middlewares
  PROVE  Moves(p) /\ proc'[p].pc = to /\ proc'[p].mw = proc[p].mw
<1>1. proc \in [Procs -> Calls]
  BY DEF TypeOK
<1>2. proc' = [proc EXCEPT ![p].pc = to]
  BY DEF Go
<1>3. proc' \in [Procs -> Calls]
  BY <1>1, <1>2 DEF Calls
<1>4. proc'[p].pc = to /\ proc'[p].mw = proc[p].mw
  BY <1>1, <1>2 DEF Calls
<1> QED BY <1>1, <1>2, <1>3, <1>4 DEF Moves

LEMMA PutMoves ==
  ASSUME TypeOK, NEW p \in Procs, NEW c \in Calls, proc' = [proc EXCEPT ![p] = c],
         c.pc \in Handling => c.mw \in Middlewares
  PROVE  Moves(p) /\ proc'[p] = c
BY DEF TypeOK, Moves

LEMMA ReturnMoves ==
  ASSUME TypeOK, NEW p \in Procs, proc[p].mw \in Middlewares, NEW enabled \in BOOLEAN,
         Return(p, enabled)
  PROVE  Moves(p) /\ proc'[p].pc \in {"loop", "idle"}
<1>1. proc[p] \in Calls
  BY DEF TypeOK
<1>2. CASE proc[p].kind = "reload"
  <2> DEFINE n == proc[p].newly \cup (IF enabled THEN {proc[p].mw} ELSE {})
  <2> DEFINE c == [proc[p] EXCEPT !.pc = "loop", !.newly = n]
  <2>1. proc' = [proc EXCEPT ![p] = c]
    BY <1>2, Zenon DEF Return
  <2>2. n \in SUBSET Middlewares
    BY <1>1 DEF Calls
  <2> HIDE DEF n
  <2>3. c \in Calls /\ c.pc = "loop"
    BY <1>1, <2>2 DEF Calls, Places
  <2> HIDE DEF c
  <2> QED BY <2>1, <2>3, PutMoves DEF Handling
<1>3. CASE proc[p].kind # "reload"
  <2>1. proc' = [proc EXCEPT ![p] = Idle]
    BY <1>3 DEF Return, TypeOK
  <2> QED BY <2>1, IdleType, PutMoves DEF Handling
<1> QED BY <1>2, <1>3

-----------------------------------------------------------------------------
(***************************************************************************)
(* A goroutine without the lock changes nothing the others rely on.        *)
(***************************************************************************)
LEMMA QuietKeeps ==
  ASSUME HotSwapInv, NEW p \in Procs, Moves(p),
         proc[p].pc \notin Locked, proc'[p].pc \notin Locked,
         UNCHANGED <<state, mounted, lock, active, using, cut, down>>,
         running' \in [Middlewares -> BOOLEAN],
         \A m \in Middlewares : running[m] => running'[m],
         config' \in [Middlewares -> BOOLEAN],
         sets' \in 0 .. MaxSets /\ pending' \in 0 .. sets' + 1
  PROVE  HotSwapInv'
<1>1. TypeOK' /\ NamesOK'
  BY DEF HotSwapInv, TypeOK, NamesOK, Moves
<1>2. LockOK' /\ CountOK'
  BY DEF HotSwapInv, LockOK, CountOK, Moves, InFlight
<1>3. \A q \in Procs : lock = q => q # p
  BY DEF HotSwapInv, LockOK
<1>4. ASSUME NEW m, NEW pcs
      PROVE  Held(m, pcs)' <=> Held(m, pcs)
  BY <1>3 DEF Held, Moves
<1>5. Serving' => Serving
  BY DEF Serving, Moves, Locked
<1>6. ASSUME Serving'
      PROVE  ManagerOK'
  <2>1. /\ StateMatchesChain /\ DrainingIsHeld /\ NothingStopped
        /\ \A q \in Procs : HolderOK(q)
    BY <1>5, <1>6 DEF HotSwapInv, ManagerOK
  <2>2. StateMatchesChain'
    BY <1>4, <2>1 DEF StateMatchesChain
  <2>3. DrainingIsHeld'
    BY <1>4, <2>1 DEF DrainingIsHeld
  <2>4. NothingStopped'
    BY <2>1 DEF NothingStopped, Users
  <2>5. ASSUME NEW q \in Procs
        PROVE  HolderOK(q)'
    <3>1. CASE q = p
      BY <3>1 DEF HolderOK, Locked
    <3>2. CASE q # p
      BY <1>1, <2>1, <3>2 DEF HolderOK, Moves, Users, NamesOK, Handling
    <3> QED BY <3>1, <3>2
  <2> QED BY <2>2, <2>3, <2>4, <2>5 DEF ManagerOK
<1> QED BY <1>1, <1>2, <1>6 DEF HotSwapInv, ManagerOK

LEMMA UnlockedKeeps ==
  ASSUME HotSwapInv, NEW p \in Procs,
         VerifySwitch(p) \/ BeginReload(p) \/ ReadConfig(p) \/ Compare(p) \/ Collect(p)
  PROVE  HotSwapInv'
<1>1. proc[p] \in Calls /\ proc \in [Procs -> Calls] /\ TypeOK
  BY DEF HotSwapInv, TypeOK
<1>2. /\ UNCHANGED <<state, mounted, running, lock, active, using, cut, down, config, sets>>
      /\ pending' \in 0 .. sets' + 1
  BY <1>1, HotSwapAssumption DEF VerifySwitch, BeginReload, ReadConfig, Compare, Collect, confVars, requestVars,
     TypeOK
<1>3. Moves(p) /\ proc[p].pc \notin Locked /\ proc'[p].pc \notin Locked
  <2>1. CASE VerifySwitch(p)
    <3>1. proc[p].pc = "verify" /\ proc[p].mw \in Middlewares
      BY <2>1 DEF VerifySwitch, HotSwapInv, NamesOK, Handling
    <3>2. Go(p, "enable") \/ Go(p, "disable") \/ proc' = [proc EXCEPT ![p] = Idle]
      BY <2>1 DEF VerifySwitch
    <3> QED
      BY <1>1, <3>1, <3>2, GoMoves, PutMoves, IdleType DEF Places, Locked, Handling
  <2>2. CASE BeginReload(p)
    <3> DEFINE c == [Idle EXCEPT !.pc = "read", !.kind = "reload"]
    <3>1. c \in Calls /\ c.pc = "read"
      BY <1>1, IdleType DEF Calls, Places, Kinds
    <3>2. proc' = [proc EXCEPT ![p] = c] /\ proc[p].pc = "idle"
      BY <2>2 DEF BeginReload
    <3> HIDE DEF c
    <3> QED BY <1>1, <3>1, <3>2, PutMoves DEF Locked, Handling
  <2>3. CASE ReadConfig(p)
    <3> DEFINE c == [proc[p] EXCEPT !.pc = "loop", !.want = config, !.rest = RegOrder]
    <3>1. c \in Calls /\ c.pc = "loop"
      BY <1>1, HotSwapAssumption DEF Calls, Places, TypeOK
    <3>2. proc' = [proc EXCEPT ![p] = c] /\ proc[p].pc = "read"
      BY <2>3 DEF ReadConfig
    <3> HIDE DEF c
    <3> QED BY <1>1, <3>1, <3>2, PutMoves DEF Locked, Handling
  <2>4. CASE Compare(p)
    <3>1. /\ proc[p].pc = "loop" /\ proc[p].rest # <<>>
          /\ proc[p].rest \in Seq(Middlewares)
      BY <1>1, <2>4 DEF Compare, Calls
    <3>2. Head(proc[p].rest) \in Middlewares /\ Tail(proc[p].rest) \in Seq(Middlewares)
      BY <3>1
    <3>3. PICK next \in {"enable", "disable", "loop"} :
            proc' = [proc EXCEPT ![p] = [proc[p] EXCEPT !.pc = next,
                       !.mw = Head(proc[p].rest), !.rest = Tail(proc[p].rest)]]
      BY <2>4 DEF Compare
    <3> DEFINE c == [proc[p] EXCEPT !.pc = next, !.mw = Head(proc[p].rest),
                                    !.rest = Tail(proc[p].rest)]
    <3>4. c \in Calls /\ c.pc = next /\ c.mw = Head(proc[p].rest)
      BY <1>1, <3>2 DEF Calls, Places
    <3>5. proc' = [proc EXCEPT ![p] = c]
      BY <3>3
    <3> HIDE DEF c
    <3> QED BY <1>1, <3>1, <3>2, <3>4, <3>5, PutMoves DEF Locked
  <2>5. CASE Collect(p)
    <3> DEFINE t == {m \in Middlewares : state[m] = "enabled"} \ proc[p].newly
    <3> DEFINE c == [proc[p] EXCEPT !.pc = "restart", !.todo = t]
    <3>1. c \in Calls /\ c.pc = "restart"
      BY <1>1 DEF Calls, Places
    <3>2. proc' = [proc EXCEPT ![p] = c] /\ proc[p].pc = "loop"
      BY <2>5 DEF Collect
    <3> HIDE DEF c
    <3> QED BY <1>1, <3>1, <3>2, PutMoves DEF Locked, Handling
  <2> QED BY <2>1, <2>2, <2>3, <2>4, <2>5
<1>4. config' \in [Middlewares -> BOOLEAN] /\ running' \in [Middlewares -> BOOLEAN]
      /\ sets' \in 0 .. MaxSets
  BY <1>1, <1>2 DEF TypeOK
<1> QED BY <1>2, <1>3, <1>4, QuietKeeps

LEMMA RestartKeeps ==
  ASSUME HotSwapInv, NEW p \in Procs, Restart(p)
  PROVE  HotSwapInv'
<1>1. proc[p] \in Calls /\ TypeOK /\ proc[p].pc = "restart"
  BY DEF HotSwapInv, TypeOK, Restart
<1>2. /\ UNCHANGED <<state, mounted, lock, active, using, cut, down>>
      /\ config' \in [Middlewares -> BOOLEAN]
      /\ sets' \in 0 .. MaxSets /\ pending' \in 0 .. sets' + 1
  BY <1>1 DEF Restart, confVars, requestVars, TypeOK
<1>3. CASE proc[p].todo = {}
  <2>1. proc' = [proc EXCEPT ![p] = Idle] /\ running' = running
    BY <1>3 DEF Restart
  <2>2. Moves(p) /\ proc'[p].pc = "idle"
    BY <1>1, <2>1, IdleType, PutMoves DEF Handling
  <2> QED BY <1>1, <1>2, <2>1, <2>2, QuietKeeps DEF Locked, TypeOK
<1>4. CASE proc[p].todo # {}
  <2>1. PICK m \in proc[p].todo, ok \in StartResults :
          /\ proc' = [proc EXCEPT ![p].todo = @ \ {m}]
          /\ running' = [running EXCEPT ![m] = @ \/ ok]
    BY <1>4 DEF Restart
  <2> DEFINE c == [proc[p] EXCEPT !.todo = proc[p].todo \ {m}]
  <2>2. c \in Calls /\ c.pc = "restart"
    BY <1>1 DEF Calls
  <2>3. proc' = [proc EXCEPT ![p] = c]
    BY <1>1, <2>1 DEF TypeOK, Calls
  <2> HIDE DEF c
  <2>4. Moves(p) /\ proc'[p].pc = "restart"
    BY <1>1, <2>2, <2>3, PutMoves DEF Handling
  <2>5. running \in [Middlewares -> BOOLEAN] /\ ok \in BOOLEAN
    BY <1>1, HotSwapAssumption DEF TypeOK
  <2>6. running' \in [Middlewares -> BOOLEAN]
    BY <2>1, <2>5
  <2>7. ASSUME NEW n \in Middlewares, running[n]
        PROVE  running'[n]
    BY <2>1, <2>5, <2>7
  <2> QED BY <1>1, <1>2, <2>4, <2>6, <2>7, QuietKeeps DEF Locked
<1> QED BY <1>3, <1>4

LEMMA BeginSwitchKeeps ==
  ASSUME HotSwapInv, NEW p \in Procs, NEW m \in Middlewares, NEW on \in BOOLEAN,
         BeginSwitch(p, m, on)
  PROVE  HotSwapInv'
<1>1. TypeOK /\ proc[p].pc = "idle" /\ sets < MaxSets
  BY DEF HotSwapInv, BeginSwitch
<1>2. UNCHANGED <<state, mounted, running, lock, active, using, cut, down>>
  BY DEF BeginSwitch
<1>3. config' \in [Middlewares -> BOOLEAN] /\ running' \in [Middlewares -> BOOLEAN]
  BY <1>1, <1>2 DEF BeginSwitch, TypeOK
<1>4. sets' \in 0 .. MaxSets /\ pending' \in 0 .. sets' + 1
  <2>1. /\ sets' = sets + 1 /\ pending' \in {pending, pending + 1}
        /\ sets \in 0 .. MaxSets /\ pending \in 0 .. sets + 1 /\ MaxSets \in Nat
    BY <1>1, HotSwapAssumption DEF BeginSwitch, TypeOK
  <2> QED BY <1>1, <2>1
<1>5. Moves(p) /\ proc'[p].pc = "verify"
  <2> DEFINE k == IF on THEN "on" ELSE "off"
  <2> DEFINE c == [Idle EXCEPT !.pc = "verify", !.kind = k, !.mw = m]
  <2>0. k \in Kinds
    BY DEF Kinds
  <2>1. proc' = [proc EXCEPT ![p] = c]
    BY DEF BeginSwitch
  <2> HIDE DEF k
  <2>2. c \in Calls /\ c.pc = "verify" /\ c.mw = m
    BY <1>1, <2>0, IdleType DEF Calls, Places
  <2> HIDE DEF c
  <2> QED BY <1>1, <2>1, <2>2, PutMoves
<1> QED BY <1>1, <1>2, <1>3, <1>4, <1>5, QuietKeeps DEF Locked

LEMMA EditKeeps ==
  ASSUME HotSwapInv, EditConfig
  PROVE  HotSwapInv'
<1>1. UNCHANGED <<state, mounted, running, lock, proc, active, using, cut, down>>
  BY DEF EditConfig
<1>2. config' \in [Middlewares -> BOOLEAN]
  BY DEF EditConfig, HotSwapInv, TypeOK
<1>3. sets' \in 0 .. MaxSets /\ pending' \in 0 .. sets' + 1
  <2>1. /\ sets' = sets + 1 /\ pending' = pending + 1 /\ sets < MaxSets
        /\ sets \in 0 .. MaxSets /\ pending \in 0 .. sets + 1 /\ MaxSets \in Nat
    BY HotSwapAssumption DEF EditConfig, HotSwapInv, TypeOK
  <2> QED BY <2>1
<1>4. TypeOK'
  BY <1>1, <1>2, <1>3 DEF HotSwapInv, TypeOK
<1>5. NamesOK' /\ LockOK' /\ CountOK'
  BY <1>1 DEF HotSwapInv, NamesOK, LockOK, CountOK, InFlight
<1>6. ManagerOK'
  <2>1. Serving' = Serving /\ (StateMatchesChain => StateMatchesChain')
    BY <1>1 DEF Serving, StateMatchesChain, Held
  <2>2. (DrainingIsHeld => DrainingIsHeld') /\ (NothingStopped => NothingStopped')
    BY <1>1 DEF DrainingIsHeld, NothingStopped, Held, Users
  <2>3. \A p \in Procs : HolderOK(p) => HolderOK(p)'
    BY <1>1 DEF HolderOK, Users
  <2> QED BY <2>1, <2>2, <2>3 DEF HotSwapInv, ManagerOK
<1> QED BY <1>4, <1>5, <1>6 DEF HotSwapInv

-----------------------------------------------------------------------------
(***************************************************************************)
(* The goroutine that takes, has or releases the lock: what holds of types *)
(* and places, and of the others.                                          *)
(***************************************************************************)
LEMMA HolderFrame ==
  ASSUME HotSwapInv, NEW p \in Procs, Moves(p), lock \in {p, None},
         UNCHANGED <<config, sets, pending, active, using>>,
         state' \in [Middlewares -> {"disabled", "enabled", "draining"}],
         mounted' \in [Middlewares -> Nat], running' \in [Middlewares -> BOOLEAN],
         cut' \subseteq Requests, down' \in BOOLEAN,
         \/ proc'[p].pc \in Locked /\ lock' = p
         \/ proc'[p].pc \notin Locked /\ lock' = None
  PROVE  /\ TypeOK' /\ NamesOK' /\ LockOK' /\ CountOK'
         /\ \A q \in Procs : q # p => HolderOK(q)'
         /\ \A m, pcs : Held(m, pcs)' => proc'[p].mw = m /\ proc'[p].pc \in pcs
         /\ lock' = p => \A m, pcs : proc'[p].mw = m /\ proc'[p].pc \in pcs => Held(m, pcs)'
<1>1. TypeOK' /\ NamesOK'
  BY DEF HotSwapInv, TypeOK, NamesOK, Moves
<1>2. \A q \in Procs : q # p => proc[q].pc \notin Locked
  BY HotSwapAssumption DEF HotSwapInv, LockOK
<1>3. LockOK'
  BY <1>2, HotSwapAssumption DEF LockOK, Moves
<1>4. CountOK'
  BY DEF HotSwapInv, CountOK, InFlight
<1>5. ASSUME NEW q \in Procs, q # p
      PROVE  HolderOK(q)'
  BY <1>2, <1>5 DEF HolderOK, Locked, Moves
<1>6. ASSUME NEW m, NEW pcs, Held(m, pcs)'
      PROVE  proc'[p].mw = m /\ proc'[p].pc \in pcs
  BY <1>6, HotSwapAssumption DEF Held
<1>7. ASSUME NEW m, NEW pcs, lock' = p, proc'[p].mw = m, proc'[p].pc \in pcs
      PROVE  Held(m, pcs)'
  BY <1>7 DEF Held
<1> QED BY <1>1, <1>3, <1>4, <1>5, <1>6, <1>7

(***************************************************************************)
(* Before the step: who has the lock has the middleware.                   *)
(***************************************************************************)
LEMMA HolderKnows ==
  ASSUME HotSwapInv, NEW p \in Procs, lock \in {p, None}
  PROVE  /\ \A m, pcs : Held(m, pcs) => lock = p /\ proc[p].mw = m /\ proc[p].pc \in pcs
         /\ lock = p => \A m, pcs : proc[p].mw = m /\ proc[p].pc \in pcs => Held(m, pcs)
BY HotSwapAssumption DEF Held

(***************************************************************************)
(* Enable.                                                                 *)
(***************************************************************************)
LEMMA LockEnableKeeps ==
  ASSUME HotSwapInv, NEW p \in Procs, LockEnable(p)
  PROVE  HotSwapInv'
<1> DEFINE m == proc[p].mw
<1>1. /\ TypeOK /\ proc[p].pc = "enable" /\ m \in Middlewares /\ lock = None
      /\ UNCHANGED <<confVars, state, mounted, running, requestVars, cut, down>>
  BY DEF HotSwapInv, NamesOK, Handling, LockEnable, Take
<1>2. CASE state[m] = "enabled"
  <2>1. Return(p, TRUE) /\ lock' = lock
    BY <1>2 DEF LockEnable
  <2>2. Moves(p) /\ proc'[p].pc \in {"loop", "idle"}
    BY <1>1, <2>1, ReturnMoves
  <2> QED BY <1>1, <2>1, <2>2, QuietKeeps DEF Locked, TypeOK, confVars, requestVars
<1>3. CASE state[m] # "enabled"
  <2>1. lock' = p /\ Go(p, "start")
    BY <1>3 DEF LockEnable, Take
  <2>2. Moves(p) /\ proc'[p].pc = "start" /\ proc'[p].mw = m
    BY <1>1, <2>1, GoMoves DEF Places
  <2>3. /\ TypeOK' /\ NamesOK' /\ LockOK' /\ CountOK'
        /\ \A q \in Procs : q # p => HolderOK(q)'
        /\ \A n, pcs : Held(n, pcs)' => proc'[p].mw = n /\ proc'[p].pc \in pcs
    BY <1>1, <2>1, <2>2, HolderFrame DEF Locked, TypeOK, confVars, requestVars
  <2>4. \A n, pcs : ~ Held(n, pcs)
    BY <1>1, HolderKnows, HotSwapAssumption
  <2>5. ASSUME Serving'
        PROVE  ManagerOK'
    <3>1. Serving
      BY <1>1, <2>2, <2>5 DEF Serving, Moves
    <3>2. /\ StateMatchesChain /\ DrainingIsHeld /\ NothingStopped
          /\ \A q \in Procs : HolderOK(q)
      BY <3>1 DEF HotSwapInv, ManagerOK
    <3>3. \A n \in Middlewares : state[n] # "draining"
      BY <2>4, <3>2 DEF DrainingIsHeld
    <3>4. StateMatchesChain' /\ DrainingIsHeld' /\ NothingStopped'
      BY <1>1, <2>2, <2>3, <2>4, <3>2, <3>3
      DEF StateMatchesChain, DrainingIsHeld, NothingStopped, Users, requestVars
    <3>5. HolderOK(p)'
      BY <1>1, <1>3, <2>2, <3>3 DEF HolderOK, TypeOK
    <3> QED BY <2>3, <3>4, <3>5 DEF ManagerOK
  <2> QED BY <2>3, <2>5 DEF HotSwapInv, ManagerOK
<1> QED BY <1>2, <1>3

LEMMA StartKeeps ==
  ASSUME HotSwapInv, NEW p \in Procs, StartMiddleware(p)
  PROVE  HotSwapInv'
<1> DEFINE m == proc[p].mw
<1>1. /\ TypeOK /\ proc[p].pc = "start" /\ m \in Middlewares /\ lock = p
      /\ UNCHANGED <<confVars, state, mounted, requestVars, cut, down>>
  BY DEF HotSwapInv, NamesOK, LockOK, Handling, Locked, StartMiddleware
<1>2. /\ \/ /\ running' = [running EXCEPT ![m] = TRUE]
            /\ Go(p, "mount") /\ lock' = lock
         \/ Return(p, FALSE) /\ lock' = None /\ running' = running
  BY DEF StartMiddleware, Release
<1>3. /\ running' \in [Middlewares -> BOOLEAN]
      /\ \A n \in Middlewares : running[n] => running'[n]
      /\ lock' = lock => running'[m]
  BY <1>1, <1>2, HotSwapAssumption DEF TypeOK
<1>4. /\ Moves(p)
      /\ \/ proc'[p].pc = "mount" /\ proc'[p].mw = m /\ lock' = p
         \/ proc'[p].pc \in {"loop", "idle"} /\ lock' = None
  BY <1>1, <1>2, GoMoves, ReturnMoves DEF Places
<1>5. /\ TypeOK' /\ NamesOK' /\ LockOK' /\ CountOK'
      /\ \A q \in Procs : q # p => HolderOK(q)'
      /\ \A n, pcs : Held(n, pcs)' => proc'[p].mw = n /\ proc'[p].pc \in pcs
  BY <1>1, <1>3, <1>4, HolderFrame DEF Locked, TypeOK, confVars, requestVars
<1>6. \A n, pcs : Held(n, pcs) => "start" \in pcs
  BY <1>1, HolderKnows
<1>7. ASSUME Serving'
      PROVE  ManagerOK'
  <2>1. Serving
    BY <1>1, <1>4, <1>7 DEF Serving, Moves
  <2>2. /\ StateMatchesChain /\ DrainingIsHeld /\ NothingStopped /\ HolderOK(p)
    BY <2>1 DEF HotSwapInv, ManagerOK
  <2>3. \A n \in Middlewares : state[n] # "draining"
    BY <1>6, <2>2 DEF DrainingIsHeld
  <2>4. StateMatchesChain'
    BY <1>1, <1>4, <1>5, <1>6, <2>2 DEF StateMatchesChain
  <2>5. DrainingIsHeld' /\ NothingStopped'
    BY <1>1, <1>3, <2>2, <2>3 DEF DrainingIsHeld, NothingStopped, Users, requestVars
  <2>6. HolderOK(p)'
    BY <1>1, <1>3, <1>4, <2>2 DEF HolderOK, TypeOK
  <2> QED BY <1>5, <2>4, <2>5, <2>6 DEF ManagerOK
<1> QED BY <1>5, <1>7 DEF HotSwapInv, ManagerOK

LEMMA MountKeeps ==
  ASSUME HotSwapInv, NEW p \in Procs, Mount(p)
  PROVE  HotSwapInv'
<1> DEFINE m == proc[p].mw
<1>1. /\ TypeOK /\ proc[p].pc = "mount" /\ m \in Middlewares /\ lock = p
      /\ UNCHANGED <<confVars, running, requestVars, cut, down>>
      /\ mounted' = [mounted EXCEPT ![m] = @ + 1]
      /\ state' = [state EXCEPT ![m] = "enabled"]
      /\ lock' = None /\ Return(p, TRUE)
  BY DEF HotSwapInv, NamesOK, LockOK, Handling, Locked, Mount, Release
<1>2. Moves(p) /\ proc'[p].pc \in {"loop", "idle"}
  BY <1>1, ReturnMoves
<1>3. /\ state' \in [Middlewares -> {"disabled", "enabled", "draining"}]
      /\ mounted' \in [Middlewares -> Nat]
      /\ state'[m] = "enabled" /\ mounted'[m] = mounted[m] + 1
      /\ \A n \in Middlewares : n # m => state'[n] = state[n] /\ mounted'[n] = mounted[n]
  BY <1>1 DEF TypeOK
<1>4. /\ TypeOK' /\ NamesOK' /\ LockOK' /\ CountOK'
      /\ \A q \in Procs : q # p => HolderOK(q)'
      /\ \A n, pcs : Held(n, pcs)' => proc'[p].mw = n /\ proc'[p].pc \in pcs
  BY <1>1, <1>2, <1>3, HolderFrame DEF Locked, TypeOK, confVars, requestVars
<1>5. \A n, pcs : Held(n, pcs) => n = m /\ "mount" \in pcs
  BY <1>1, HolderKnows
<1>6. ASSUME Serving'
      PROVE  ManagerOK'
  <2>1. Serving
    BY <1>1, <1>2, <1>6 DEF Serving, Moves
  <2>2. /\ StateMatchesChain /\ DrainingIsHeld /\ NothingStopped /\ HolderOK(p)
    BY <2>1 DEF HotSwapInv, ManagerOK
  <2>3. state[m] = "disabled" /\ running[m]
    BY <1>1, <2>2 DEF HolderOK
  <2>4. mounted[m] = 0
    BY <1>1, <2>2, <2>3 DEF StateMatchesChain
  <2>5. StateMatchesChain'
    BY <1>2, <1>3, <1>4, <1>5, <2>2, <2>4 DEF StateMatchesChain
  <2>6. DrainingIsHeld'
    BY <1>3, <1>5, <2>2 DEF DrainingIsHeld
  <2>7. NothingStopped'
    BY <1>1, <1>3, <2>2, <2>3 DEF NothingStopped, Users, requestVars
  <2>8. HolderOK(p)'
    BY <1>2 DEF HolderOK
  <2> QED BY <1>4, <2>5, <2>6, <2>7, <2>8 DEF ManagerOK
<1> QED BY <1>4, <1>6 DEF HotSwapInv, ManagerOK

(***************************************************************************)
(* Disable: off the chain, wait, stop.                                     *)
(***************************************************************************)
LEMMA LockDisableKeeps ==
  ASSUME HotSwapInv, NEW p \in Procs, LockDisable(p)
  PROVE  HotSwapInv'
<1> DEFINE m == proc[p].mw
<1>1. /\ TypeOK /\ proc[p].pc = "disable" /\ m \in Middlewares /\ lock = None
      /\ UNCHANGED <<confVars, state, mounted, running, requestVars, cut, down>>
  BY DEF HotSwapInv, NamesOK, Handling, LockDisable, Take
<1>2. CASE state[m] = "disabled"
  <2>1. Return(p, FALSE) /\ lock' = lock
    BY <1>2 DEF LockDisable
  <2>2. Moves(p) /\ proc'[p].pc \in {"loop", "idle"}
    BY <1>1, <2>1, ReturnMoves
  <2> QED BY <1>1, <2>1, <2>2, QuietKeeps DEF Locked, TypeOK, confVars, requestVars
<1>3. CASE state[m] # "disabled"
  <2>1. lock' = p /\ Go(p, "unmount")
    BY <1>3 DEF LockDisable, Take
  <2>2. Moves(p) /\ proc'[p].pc = "unmount" /\ proc'[p].mw = m
    BY <1>1, <2>1, GoMoves DEF Places
  <2>3. /\ TypeOK' /\ NamesOK' /\ LockOK' /\ CountOK'
        /\ \A q \in Procs : q # p => HolderOK(q)'
        /\ \A n, pcs : Held(n, pcs)' => proc'[p].mw = n /\ proc'[p].pc \in pcs
    BY <1>1, <2>1, <2>2, HolderFrame DEF Locked, TypeOK, confVars, requestVars
  <2>4. \A n, pcs : ~ Held(n, pcs)
    BY <1>1, HolderKnows, HotSwapAssumption
  <2>5. ASSUME Serving'
        PROVE  ManagerOK'
    <3>1. Serving
      BY <1>1, <2>2, <2>5 DEF Serving, Moves
    <3>2. /\ StateMatchesChain /\ DrainingIsHeld /\ NothingStopped
          /\ \A q \in Procs : HolderOK(q)
      BY <3>1 DEF HotSwapInv, ManagerOK
    <3>3. \A n \in Middlewares : state[n] # "draining"
      BY <2>4, <3>2 DEF DrainingIsHeld
    <3>4. StateMatchesChain' /\ DrainingIsHeld' /\ NothingStopped'
      BY <1>1, <2>2, <2>3, <2>4, <3>2, <3>3
      DEF StateMatchesChain, DrainingIsHeld, NothingStopped, Users, requestVars
    <3>5. HolderOK(p)'
      BY <1>1, <1>3, <2>2, <3>3 DEF HolderOK, TypeOK
    <3> QED BY <2>3, <3>4, <3>5 DEF ManagerOK
  <2> QED BY <2>3, <2>5 DEF HotSwapInv, ManagerOK
<1> QED BY <1>2, <1>3

LEMMA UnmountKeeps ==
  ASSUME HotSwapInv, NEW p \in Procs, Unmount(p)
  PROVE  HotSwapInv'
<1> DEFINE m == proc[p].mw
<1>1. /\ TypeOK /\ proc[p].pc = "unmount" /\ m \in Middlewares /\ lock = p
      /\ UNCHANGED <<confVars, state, running, requestVars, cut, down>>
  BY DEF HotSwapInv, NamesOK, LockOK, Handling, Locked, Unmount
<1>2. \/ mounted[m] = 0 /\ Return(p, FALSE) /\ lock' = None /\ mounted' = mounted
      \/ mounted' = [mounted EXCEPT ![m] = 0] /\ Go(p, "draining") /\ lock' = lock
  BY DEF Unmount, Release
<1>3. /\ mounted' \in [Middlewares -> Nat] /\ mounted'[m] = 0
      /\ \A n \in Middlewares : n # m => mounted'[n] = mounted[n]
  <2>1. mounted \in [Middlewares -> Nat] /\ 0 \in Nat
    BY <1>1 DEF TypeOK
  <2>2. CASE mounted[m] = 0 /\ mounted' = mounted
    BY <2>1, <2>2
  <2>3. CASE mounted' = [mounted EXCEPT ![m] = 0]
    BY <1>1, <2>1, <2>3
  <2> QED BY <1>2, <2>2, <2>3
<1>4. /\ Moves(p)
      /\ \/ proc'[p].pc = "draining" /\ proc'[p].mw = m /\ lock' = p
         \/ proc'[p].pc \in {"loop", "idle"} /\ lock' = None /\ mounted[m] = 0
  BY <1>1, <1>2, GoMoves, ReturnMoves DEF Places
<1>5. /\ TypeOK' /\ NamesOK' /\ LockOK' /\ CountOK'
      /\ \A q \in Procs : q # p => HolderOK(q)'
      /\ \A n, pcs : Held(n, pcs)' => proc'[p].mw = n /\ proc'[p].pc \in pcs
      /\ lock' = p => \A n, pcs : proc'[p].mw = n /\ proc'[p].pc \in pcs => Held(n, pcs)'
  BY <1>1, <1>3, <1>4, HolderFrame DEF Locked, TypeOK, confVars, requestVars
<1>6. \A n, pcs : Held(n, pcs) => n = m /\ "unmount" \in pcs
  BY <1>1, HolderKnows
<1>7. ASSUME Serving'
      PROVE  ManagerOK'
  <2>1. Serving
    BY <1>1, <1>4, <1>7 DEF Serving, Moves
  <2>2. /\ StateMatchesChain /\ DrainingIsHeld /\ NothingStopped /\ HolderOK(p)
    BY <2>1 DEF HotSwapInv, ManagerOK
  <2>3. state[m] = "enabled" /\ mounted[m] = 1
    BY <1>1, <1>6, <2>2 DEF HolderOK, StateMatchesChain
  <2>4. proc'[p].pc = "draining" /\ proc'[p].mw = m /\ lock' = p
    BY <1>4, <2>3
  <2>5. StateMatchesChain'
    BY <1>1, <1>3, <1>5, <1>6, <2>2, <2>3, <2>4 DEF StateMatchesChain
  <2>6. DrainingIsHeld'
    BY <1>1, <1>6, <2>2 DEF DrainingIsHeld
  <2>7. NothingStopped'
    BY <1>1, <1>3, <2>2 DEF NothingStopped, Users, requestVars, TypeOK
  <2>8. HolderOK(p)'
    BY <1>1, <2>3, <2>4 DEF HolderOK
  <2> QED BY <1>5, <2>5, <2>6, <2>7, <2>8 DEF ManagerOK
<1> QED BY <1>5, <1>7 DEF HotSwapInv, ManagerOK

LEMMA BeginDrainKeeps ==
  ASSUME HotSwapInv, NEW p \in Procs, BeginDrain(p)
  PROVE  HotSwapInv'
<1> DEFINE m == proc[p].mw
<1>1. /\ TypeOK /\ proc[p].pc = "draining" /\ m \in Middlewares /\ lock = p /\ lock' = p
      /\ UNCHANGED <<confVars, mounted, running, requestVars, cut, down>>
      /\ state' = [state EXCEPT ![m] = "draining"] /\ Go(p, "drain")
  BY DEF HotSwapInv, NamesOK, LockOK, Handling, Locked, BeginDrain
<1>2. Moves(p) /\ proc'[p].pc = "drain" /\ proc'[p].mw = m
  BY <1>1, GoMoves DEF Places
<1>3. /\ state' \in [Middlewares -> {"disabled", "enabled", "draining"}]
      /\ state'[m] = "draining" /\ \A n \in Middlewares : n # m => state'[n] = state[n]
  BY <1>1 DEF TypeOK
<1>4. /\ TypeOK' /\ NamesOK' /\ LockOK' /\ CountOK'
      /\ \A q \in Procs : q # p => HolderOK(q)'
      /\ \A n, pcs : Held(n, pcs)' => proc'[p].mw = n /\ proc'[p].pc \in pcs
      /\ \A n, pcs : proc'[p].mw = n /\ proc'[p].pc \in pcs => Held(n, pcs)'
  BY <1>1, <1>2, <1>3, HolderFrame DEF Locked, TypeOK, confVars, requestVars
<1>5. /\ \A n, pcs : Held(n, pcs) => n = m /\ "draining" \in pcs
      /\ \A pcs : "draining" \in pcs => Held(m, pcs)
  BY <1>1, HolderKnows
<1>6. ASSUME Serving'
      PROVE  ManagerOK'
  <2>1. Serving
    BY <1>1, <1>2, <1>6 DEF Serving, Moves
  <2>2. /\ StateMatchesChain /\ DrainingIsHeld /\ NothingStopped
    BY <2>1 DEF HotSwapInv, ManagerOK
  <2>3. mounted[m] = 0
    BY <1>1, <1>5, <2>2 DEF StateMatchesChain
  <2>4. StateMatchesChain'
    BY <1>1, <1>2, <1>3, <1>4, <1>5, <2>2, <2>3 DEF StateMatchesChain
  <2>5. DrainingIsHeld'
    BY <1>2, <1>3, <1>4, <1>5, <2>2 DEF DrainingIsHeld
  <2>6. NothingStopped'
    BY <1>1, <2>2 DEF NothingStopped, Users, requestVars
  <2>7. HolderOK(p)'
    BY <1>2, <1>3 DEF HolderOK
  <2> QED BY <1>4, <2>4, <2>5, <2>6, <2>7 DEF ManagerOK
<1> QED BY <1>4, <1>6 DEF HotSwapInv, ManagerOK

LEMMA NobodyInFlight ==
  ASSUME HotSwapInv, active = 0, NEW m
  PROVE  Users(m) = {}
<1>1. IsFiniteSet(InFlight)
  BY HotSwapAssumption, FS_Subset DEF InFlight
<1>2. InFlight = {}
  BY <1>1, FS_EmptySet DEF HotSwapInv, CountOK
<1> QED BY <1>2 DEF Users, InFlight, HotSwapInv, CountOK

LEMMA DrainKeeps ==
  ASSUME HotSwapInv, NEW p \in Procs, Drain(p)
  PROVE  HotSwapInv'
<1> DEFINE m == proc[p].mw
<1>1. /\ TypeOK /\ proc[p].pc = "drain" /\ m \in Middlewares /\ lock = p /\ lock' = p
      /\ UNCHANGED <<confVars, state, mounted, running, requestVars, down>> /\ Go(p, "stop")
  BY DEF HotSwapInv, NamesOK, LockOK, Handling, Locked, Drain
<1>2. Moves(p) /\ proc'[p].pc = "stop" /\ proc'[p].mw = m
  BY <1>1, GoMoves DEF Places
<1>3. /\ cut' \subseteq Requests /\ cut \subseteq cut' /\ Users(m) \subseteq cut'
      /\ \A n : Users(n)' = Users(n)
  BY <1>1, NobodyInFlight DEF Drain, Users, TypeOK, requestVars
<1>4. /\ TypeOK' /\ NamesOK' /\ LockOK' /\ CountOK'
      /\ \A q \in Procs : q # p => HolderOK(q)'
      /\ \A n, pcs : Held(n, pcs)' => proc'[p].mw = n /\ proc'[p].pc \in pcs
      /\ \A n, pcs : proc'[p].mw = n /\ proc'[p].pc \in pcs => Held(n, pcs)'
  BY <1>1, <1>2, <1>3, HolderFrame DEF Locked, TypeOK, confVars, requestVars
<1>5. /\ \A n, pcs : Held(n, pcs) => n = m /\ "drain" \in pcs
  BY <1>1, HolderKnows
<1>6. ASSUME Serving'
      PROVE  ManagerOK'
  <2>1. Serving
    BY <1>1, <1>2, <1>6 DEF Serving, Moves
  <2>2. /\ StateMatchesChain /\ DrainingIsHeld /\ NothingStopped /\ HolderOK(p)
    BY <2>1 DEF HotSwapInv, ManagerOK
  <2>3. StateMatchesChain'
    BY <1>1, <1>2, <1>4, <1>5, <2>2 DEF StateMatchesChain
  <2>4. DrainingIsHeld'
    BY <1>1, <1>2, <1>4, <1>5, <2>2 DEF DrainingIsHeld
  <2>5. NothingStopped'
    BY <1>1, <1>3, <2>2 DEF NothingStopped
  <2>6. HolderOK(p)'
    BY <1>1, <1>2, <1>3, <2>2 DEF HolderOK
  <2> QED BY <1>4, <2>3, <2>4, <2>5, <2>6 DEF ManagerOK
<1> QED BY <1>4, <1>6 DEF HotSwapInv, ManagerOK

LEMMA StopKeeps ==
  ASSUME HotSwapInv, NEW p \in Procs, StopMiddleware(p)
  PROVE  HotSwapInv'
<1> DEFINE m == proc[p].mw
<1>1. /\ TypeOK /\ proc[p].pc = "stop" /\ m \in Middlewares /\ lock = p /\ lock' = p
      /\ UNCHANGED <<confVars, state, mounted, requestVars, cut, down>> /\ Go(p, "disabled")
      /\ running' = [running EXCEPT ![m] = FALSE]
  BY DEF HotSwapInv, NamesOK, LockOK, Handling, Locked, StopMiddleware
<1>2. Moves(p) /\ proc'[p].pc = "disabled" /\ proc'[p].mw = m
  BY <1>1, GoMoves DEF Places
<1>3. /\ running' \in [Middlewares -> BOOLEAN]
      /\ \A n \in Middlewares : n # m => running'[n] = running[n]
      /\ \A n : Users(n)' = Users(n)
  BY <1>1 DEF TypeOK, Users, requestVars
<1>4. /\ TypeOK' /\ NamesOK' /\ LockOK' /\ CountOK'
      /\ \A q \in Procs : q # p => HolderOK(q)'
      /\ \A n, pcs : Held(n, pcs)' => proc'[p].mw = n /\ proc'[p].pc \in pcs
      /\ \A n, pcs : proc'[p].mw = n /\ proc'[p].pc \in pcs => Held(n, pcs)'
  BY <1>1, <1>2, <1>3, HolderFrame DEF Locked, TypeOK, confVars, requestVars
<1>5. /\ \A n, pcs : Held(n, pcs) => n = m /\ "stop" \in pcs
  BY <1>1, HolderKnows
<1>6. ASSUME Serving'
      PROVE  ManagerOK'
  <2>1. Serving
    BY <1>1, <1>2, <1>6 DEF Serving, Moves
  <2>2. /\ StateMatchesChain /\ DrainingIsHeld /\ NothingStopped /\ HolderOK(p)
    BY <2>1 DEF HotSwapInv, ManagerOK
  <2>3. state[m] = "draining" /\ Users(m) \subseteq cut /\ mounted[m] = 0
    BY <1>1, <2>2 DEF HolderOK, StateMatchesChain
  <2>4. StateMatchesChain'
    BY <1>1, <1>2, <1>4, <1>5, <2>2 DEF StateMatchesChain
  <2>5. DrainingIsHeld'
    BY <1>1, <1>2, <1>4, <1>5, <2>2 DEF DrainingIsHeld
  <2>6. NothingStopped'
    BY <1>1, <1>3, <2>2, <2>3 DEF NothingStopped
  <2>7. HolderOK(p)'
    BY <1>1, <1>2, <1>3, <2>3 DEF HolderOK
  <2> QED BY <1>4, <2>4, <2>5, <2>6, <2>7 DEF ManagerOK
<1> QED BY <1>4, <1>6 DEF HotSwapInv, ManagerOK

LEMMA FinishKeeps ==
  ASSUME HotSwapInv, NEW p \in Procs, FinishDisable(p)
  PROVE  HotSwapInv'
<1> DEFINE m == proc[p].mw
<1>1. /\ TypeOK /\ proc[p].pc = "disabled" /\ m \in Middlewares /\ lock = p
      /\ UNCHANGED <<confVars, mounted, running, requestVars, cut, down>>
      /\ state' = [state EXCEPT ![m] = "disabled"]
      /\ lock' = None /\ Return(p, FALSE)
  BY DEF HotSwapInv, NamesOK, LockOK, Handling, Locked, FinishDisable, Release
<1>2. Moves(p) /\ proc'[p].pc \in {"loop", "idle"}
  BY <1>1, ReturnMoves
<1>3. /\ state' \in [Middlewares -> {"disabled", "enabled", "draining"}]
      /\ state'[m] = "disabled"
      /\ \A n \in Middlewares : n # m => state'[n] = state[n]
  BY <1>1 DEF TypeOK
<1>4. /\ TypeOK' /\ NamesOK' /\ LockOK' /\ CountOK'
      /\ \A q \in Procs : q # p => HolderOK(q)'
      /\ \A n, pcs : Held(n, pcs)' => proc'[p].mw = n /\ proc'[p].pc \in pcs
  BY <1>1, <1>2, <1>3, HolderFrame DEF Locked, TypeOK, confVars, requestVars
<1>5. \A n, pcs : Held(n, pcs) => n = m /\ "disabled" \in pcs
  BY <1>1, HolderKnows
<1>6. ASSUME Serving'
      PROVE  ManagerOK'
  <2>1. Serving
    BY <1>1, <1>2, <1>6 DEF Serving, Moves
  <2>2. /\ StateMatchesChain /\ DrainingIsHeld /\ NothingStopped /\ HolderOK(p)
    BY <2>1 DEF HotSwapInv, ManagerOK
  <2>3. mounted[m] = 0
    BY <1>1, <2>2 DEF HolderOK, StateMatchesChain
  <2>4. StateMatchesChain'
    BY <1>1, <1>2, <1>3, <1>4, <1>5, <2>2, <2>3 DEF StateMatchesChain
  <2>5. DrainingIsHeld'
    BY <1>3, <1>5, <2>2 DEF DrainingIsHeld
  <2>6. NothingStopped'
    BY <1>1, <2>2 DEF NothingStopped, Users, requestVars
  <2>7. HolderOK(p)'
    BY <1>2 DEF HolderOK
  <2> QED BY <1>4, <2>4, <2>5, <2>6, <2>7 DEF ManagerOK
<1> QED BY <1>4, <1>6 DEF HotSwapInv, ManagerOK

-----------------------------------------------------------------------------
(***************************************************************************)
(* Shutdown: what is stopped now is stopped for good.                      *)
(***************************************************************************)
LEMMA LockShutdownKeeps ==
  ASSUME HotSwapInv, NEW p \in Procs, LockShutdown(p)
  PROVE  HotSwapInv'
<1>1. /\ TypeOK /\ proc[p].pc = "idle" /\ lock = None /\ lock' = p
      /\ UNCHANGED <<confVars, state, mounted, running, requestVars, cut, down>>
      /\ proc' = [proc EXCEPT ![p] = [Idle EXCEPT !.pc = "quit", !.kind = "shutdown"]]
  BY DEF HotSwapInv, LockShutdown, Take
<1>2. Moves(p) /\ proc'[p].pc = "quit"
  <2> DEFINE c == [Idle EXCEPT !.pc = "quit", !.kind = "shutdown"]
  <2>1. c \in Calls /\ c.pc = "quit"
    BY <1>1, IdleType DEF Calls, Places, Kinds
  <2>2. proc' = [proc EXCEPT ![p] = c]
    BY <1>1
  <2> HIDE DEF c
  <2> QED BY <1>1, <2>1, <2>2, PutMoves DEF Handling
<1>3. /\ TypeOK' /\ NamesOK' /\ LockOK' /\ CountOK'
      /\ \A q \in Procs : q # p => HolderOK(q)'
      /\ \A n, pcs : Held(n, pcs)' => proc'[p].mw = n /\ proc'[p].pc \in pcs
  BY <1>1, <1>2, HolderFrame DEF Locked, TypeOK, confVars, requestVars
<1>4. \A n, pcs : ~ Held(n, pcs)
  BY <1>1, HolderKnows, HotSwapAssumption
<1>5. ASSUME Serving'
      PROVE  ManagerOK'
  <2>1. Serving
    BY <1>1, <1>2, <1>5 DEF Serving, Moves
  <2>2. StateMatchesChain /\ DrainingIsHeld /\ NothingStopped
    BY <2>1 DEF HotSwapInv, ManagerOK
  <2>3. \A n \in Middlewares : state[n] # "draining"
    BY <1>4, <2>2 DEF DrainingIsHeld
  <2>4. StateMatchesChain'
    BY <1>1, <1>2, <1>3, <1>4, <2>2 DEF StateMatchesChain
  <2>5. DrainingIsHeld' /\ NothingStopped'
    BY <1>1, <2>2, <2>3 DEF DrainingIsHeld, NothingStopped, Users, requestVars
  <2>6. HolderOK(p)'
    BY <1>2 DEF HolderOK
  <2> QED BY <1>3, <2>4, <2>5, <2>6 DEF ManagerOK
<1> QED BY <1>3, <1>5 DEF HotSwapInv, ManagerOK

LEMMA CollectShutdownKeeps ==
  ASSUME HotSwapInv, NEW p \in Procs, CollectShutdown(p)
  PROVE  HotSwapInv'
<1>1. /\ TypeOK /\ proc[p] \in Calls /\ proc[p].pc = "quit" /\ lock = p
      /\ UNCHANGED <<confVars, state, mounted, running, lock, requestVars, cut, down>>
  BY DEF HotSwapInv, LockOK, Locked, CollectShutdown, TypeOK
<1>2. Moves(p) /\ proc'[p].pc = "quitting"
  <2> DEFINE t == {m \in Middlewares : state[m] # "disabled"}
  <2> DEFINE c == [proc[p] EXCEPT !.pc = "quitting", !.todo = t]
  <2>1. c \in Calls /\ c.pc = "quitting"
    BY <1>1 DEF Calls, Places
  <2>2. proc' = [proc EXCEPT ![p] = c]
    BY DEF CollectShutdown
  <2> HIDE DEF c
  <2> QED BY <1>1, <2>1, <2>2, PutMoves DEF Handling
<1>3. TypeOK' /\ NamesOK' /\ LockOK' /\ CountOK'
  BY <1>1, <1>2, HolderFrame DEF Locked, TypeOK, confVars, requestVars
<1>4. ~ Serving'
  BY <1>2 DEF Serving
<1> QED BY <1>3, <1>4 DEF HotSwapInv, ManagerOK

LEMMA StopOneKeeps ==
  ASSUME HotSwapInv, NEW p \in Procs, StopOne(p)
  PROVE  HotSwapInv'
<1>1. /\ TypeOK /\ proc[p] \in Calls /\ proc[p].pc = "quitting" /\ lock = p
      /\ UNCHANGED <<confVars, mounted, requestVars, cut>>
  BY DEF HotSwapInv, LockOK, Locked, StopOne, TypeOK
<1>2. CASE proc[p].todo = {}
  <2>1. /\ proc' = [proc EXCEPT ![p] = Idle] /\ lock' = None /\ down' = TRUE
        /\ UNCHANGED <<state, running>>
    BY <1>2 DEF StopOne, Release
  <2>2. Moves(p) /\ proc'[p].pc = "idle"
    BY <1>1, <2>1, IdleType, PutMoves DEF Handling
  <2>3. TypeOK' /\ NamesOK' /\ LockOK' /\ CountOK'
    BY <1>1, <2>1, <2>2, HolderFrame DEF Locked, TypeOK, confVars, requestVars
  <2> QED BY <2>1, <2>3 DEF HotSwapInv, ManagerOK, Serving
<1>3. CASE proc[p].todo # {}
  <2>1. PICK m \in proc[p].todo :
          /\ proc' = [proc EXCEPT ![p].todo = @ \ {m}]
          /\ running' = [running EXCEPT ![m] = FALSE]
          /\ state' = [state EXCEPT ![m] = "disabled"]
          /\ UNCHANGED <<lock, down>>
    BY <1>3 DEF StopOne
  <2> DEFINE c == [proc[p] EXCEPT !.todo = proc[p].todo \ {m}]
  <2>2. c \in Calls /\ c.pc = "quitting"
    BY <1>1 DEF Calls
  <2>3. proc' = [proc EXCEPT ![p] = c]
    BY <1>1, <2>1 DEF TypeOK, Calls
  <2> HIDE DEF c
  <2>4. Moves(p) /\ proc'[p].pc = "quitting"
    BY <1>1, <2>2, <2>3, PutMoves DEF Handling
  <2>5. /\ running' \in [Middlewares -> BOOLEAN]
        /\ state' \in [Middlewares -> {"disabled", "enabled", "draining"}]
    BY <1>1, <2>1 DEF TypeOK
  <2>6. TypeOK' /\ NamesOK' /\ LockOK' /\ CountOK'
    BY <1>1, <2>1, <2>4, <2>5, HolderFrame DEF Locked, TypeOK, confVars, requestVars
  <2>7. ~ Serving'
    BY <2>4 DEF Serving
  <2> QED BY <2>6, <2>7 DEF HotSwapInv, ManagerOK
<1> QED BY <1>2, <1>3

-----------------------------------------------------------------------------
(***************************************************************************)
(* A request changes its own snapshot and the count.                       *)
(***************************************************************************)
LEMMA RequestKeeps ==
  ASSUME HotSwapInv, NEW r \in Requests,
         UNCHANGED <<confVars, managerVars>>, active' \in Nat, CountOK',
         using' \in [Requests -> [phase : {"outside", "counted", "front", "back"},
                                  set : SUBSET Middlewares]],
         \A q \in Requests : q # r => using'[q] = using[q],
         \A m \in using'[r].set : mounted[m] > 0,
         cut' \subseteq cut, cut \ {r} \subseteq cut'
  PROVE  HotSwapInv'
<1>1. UNCHANGED <<config, sets, pending, state, mounted, running, lock, proc, down>>
  BY DEF confVars, managerVars
<1>2. TypeOK' /\ NamesOK' /\ LockOK'
  BY <1>1 DEF HotSwapInv, TypeOK, NamesOK, LockOK
<1>3. ASSUME Serving'
      PROVE  ManagerOK'
  <2>1. /\ StateMatchesChain /\ DrainingIsHeld /\ NothingStopped
        /\ \A q \in Procs : HolderOK(q)
    BY <1>1, <1>3 DEF HotSwapInv, ManagerOK, Serving
  <2>2. StateMatchesChain' /\ DrainingIsHeld'
    BY <1>1, <2>1 DEF StateMatchesChain, DrainingIsHeld, Held
  <2>3. ASSUME NEW m \in Middlewares, mounted[m] = 0
        PROVE  Users(m)' \subseteq Users(m) \ {r}
    BY <2>3 DEF Users
  <2>4. NothingStopped'
    <3>1. ASSUME NEW m \in Middlewares, mounted[m] > 0 \/ Users(m)' \ cut' # {}
          PROVE  running[m]
      <4>1. CASE mounted[m] > 0
        BY <2>1, <4>1 DEF NothingStopped
      <4>2. CASE mounted[m] = 0
        <5>1. Users(m) \ cut # {}
          BY <2>3, <3>1, <4>2
        <5> QED BY <2>1, <5>1 DEF NothingStopped
      <4> QED BY <4>1, <4>2 DEF HotSwapInv, TypeOK
    <3> QED BY <1>1, <3>1 DEF NothingStopped
  <2>5. ASSUME NEW q \in Procs
        PROVE  HolderOK(q)'
    <3> DEFINE m == proc[q].mw
    <3>1. HolderOK(q)
      BY <2>1
    <3>2. CASE proc[q].pc \in {"stop", "disabled"}
      <4>1. m \in Middlewares /\ state[m] = "draining" /\ Users(m) \subseteq cut
        BY <3>1, <3>2 DEF HolderOK, HotSwapInv, NamesOK, Handling
      <4>2. mounted[m] = 0
        BY <2>1, <4>1 DEF StateMatchesChain
      <4>3. Users(m)' \subseteq cut'
        BY <1>1, <2>3, <4>1, <4>2 DEF Users
      <4>4. state'[m] = "draining" /\ proc' = proc /\ proc'[q].pc \in {"stop", "disabled"}
        BY <1>1, <3>2, <4>1
      <4> QED BY <4>3, <4>4 DEF HolderOK, Users
    <3>3. CASE proc[q].pc \notin {"stop", "disabled"}
      BY <1>1, <3>1, <3>3 DEF HolderOK
    <3> QED BY <3>2, <3>3
  <2> QED BY <2>2, <2>4, <2>5 DEF ManagerOK
<1> QED BY <1>2, <1>3 DEF HotSwapInv, ManagerOK

LEMMA ArriveKeeps ==
  ASSUME HotSwapInv, NEW r \in Requests, Arrive(r)
  PROVE  HotSwapInv'
<1>1. /\ TypeOK /\ CountOK /\ using[r].phase = "outside" /\ active' = active + 1
      /\ using' = [using EXCEPT ![r].phase = "counted"]
      /\ UNCHANGED <<confVars, managerVars, cut>>
  BY DEF HotSwapInv, Arrive
<1>2. using \in [Requests -> [phase : {"outside", "counted", "front", "back"},
                              set : SUBSET Middlewares]]
  BY <1>1 DEF TypeOK
<1>3. /\ using' \in [Requests -> [phase : {"outside", "counted", "front", "back"},
                                  set : SUBSET Middlewares]]
      /\ using'[r].phase = "counted" /\ using'[r].set = {}
      /\ \A q \in Requests : q # r => using'[q] = using[q]
  BY <1>1, <1>2 DEF CountOK
<1>4. CountOK'
  <2>1. IsFiniteSet(InFlight) /\ r \notin InFlight
    BY <1>1, HotSwapAssumption, FS_Subset DEF InFlight
  <2>2. InFlight' = InFlight \cup {r}
    BY <1>3 DEF InFlight
  <2>3. Cardinality(InFlight') = Cardinality(InFlight) + 1
    BY <2>1, <2>2, FS_AddElement
  <2> QED BY <1>1, <1>3, <2>3 DEF CountOK
<1> QED BY <1>1, <1>3, <1>4, RequestKeeps DEF TypeOK

LEMMA TakeSnapshotKeeps ==
  ASSUME HotSwapInv, NEW r \in Requests, TakeSnapshot(r)
  PROVE  HotSwapInv'
<1> DEFINE up == {m \in Middlewares : mounted[m] > 0}
<1>1. /\ TypeOK /\ CountOK /\ using[r].phase \in {"counted", "front"}
      /\ cut' = cut \ {r} /\ UNCHANGED <<active, confVars, managerVars>>
  BY DEF HotSwapInv, TakeSnapshot
<1>2. PICK next \in {"front", "back"} :
        using' = [using EXCEPT ![r] = [phase |-> next, set |-> up]]
  BY DEF TakeSnapshot
<1>3. /\ using' \in [Requests -> [phase : {"outside", "counted", "front", "back"},
                                  set : SUBSET Middlewares]]
      /\ using'[r].phase = next /\ using'[r].set = up
      /\ \A q \in Requests : q # r => using'[q] = using[q]
  BY <1>1, <1>2 DEF TypeOK
<1>4. CountOK'
  <2>1. InFlight' = InFlight
    BY <1>1, <1>3 DEF InFlight
  <2> QED BY <1>1, <1>3, <2>1 DEF CountOK
<1> QED BY <1>1, <1>3, <1>4, RequestKeeps DEF TypeOK

LEMMA DepartKeeps ==
  ASSUME HotSwapInv, NEW r \in Requests, Depart(r)
  PROVE  HotSwapInv'
<1>1. /\ TypeOK /\ CountOK /\ using[r].phase \in {"front", "back"}
      /\ active' = active - 1 /\ cut' = cut \ {r}
      /\ using' = [using EXCEPT ![r] = [phase |-> "outside", set |-> {}]]
      /\ UNCHANGED <<confVars, managerVars>>
  BY DEF HotSwapInv, Depart
<1>2. /\ using' \in [Requests -> [phase : {"outside", "counted", "front", "back"},
                                  set : SUBSET Middlewares]]
      /\ using'[r].phase = "outside" /\ using'[r].set = {}
      /\ \A q \in Requests : q # r => using'[q] = using[q]
  BY <1>1 DEF TypeOK
<1>3. CountOK' /\ active' \in Nat
  <2>1. IsFiniteSet(InFlight) /\ r \in InFlight
    BY <1>1, HotSwapAssumption, FS_Subset DEF InFlight
  <2>2. InFlight' = InFlight \ {r}
    BY <1>2 DEF InFlight
  <2>3. Cardinality(InFlight') = Cardinality(InFlight) - 1 /\ IsFiniteSet(InFlight')
    BY <2>1, <2>2, FS_RemoveElement
  <2>4. active' = Cardinality(InFlight') /\ active' \in Nat
    BY <1>1, <2>3, FS_CardinalityType DEF CountOK
  <2> QED BY <1>1, <1>2, <2>4 DEF CountOK
<1> QED BY <1>1, <1>2, <1>3, RequestKeeps DEF TypeOK

-----------------------------------------------------------------------------
LEMMA HotSwapInit == Init => HotSwapInv
<1> SUFFICES ASSUME Init PROVE HotSwapInv
  OBVIOUS
<1>1. TypeOK
  <2>1. Idle \in Calls
    BY DEF Init, Idle, Calls, Places, Kinds
  <2>2. proc \in [Procs -> Calls]
    BY <2>1 DEF Init
  <2>3. sets \in 0 .. MaxSets /\ pending \in 0 .. sets + 1
    BY HotSwapAssumption DEF Init
  <2>4. using \in [Requests -> [phase : {"outside", "counted", "front", "back"},
                               set : SUBSET Middlewares]]
    BY DEF Init
  <2> QED BY <2>2, <2>3, <2>4 DEF Init, TypeOK
<1>2. \A p \in Procs : proc[p].pc = "idle"
  BY DEF Init, Idle
<1>3. NamesOK /\ LockOK
  BY <1>2, HotSwapAssumption DEF NamesOK, LockOK, Handling, Locked, Init
<1>4. InFlight = {} /\ \A m : Users(m) = {}
  BY DEF Init, InFlight, Users
<1>5. CountOK
  BY <1>4, FS_EmptySet DEF Init, CountOK
<1>6. ManagerOK
  BY <1>2, <1>4 DEF ManagerOK, StateMatchesChain, DrainingIsHeld, NothingStopped, HolderOK,
     Init
<1> QED BY <1>1, <1>3, <1>5, <1>6 DEF HotSwapInv

LEMMA HotSwapStep ==
  ASSUME HotSwapInv, [Next]_vars
  PROVE  HotSwapInv'
<1>1. CASE EditConfig
  BY <1>1, EditKeeps
<1>2. ASSUME NEW p \in Procs, ProcStep(p)
      PROVE  HotSwapInv'
  BY <1>2, UnlockedKeeps, RestartKeeps, LockEnableKeeps, StartKeeps, MountKeeps,
     LockDisableKeeps, UnmountKeeps, BeginDrainKeeps, DrainKeeps, StopKeeps, FinishKeeps,
     CollectShutdownKeeps, StopOneKeeps
  DEF ProcStep
<1>3. ASSUME NEW p \in Procs, LockShutdown(p)
      PROVE  HotSwapInv'
  BY <1>3, LockShutdownKeeps
<1>4. ASSUME NEW p \in Procs, NEW m \in Middlewares, NEW on \in BOOLEAN,
             BeginSwitch(p, m, on)
      PROVE  HotSwapInv'
  BY <1>4, BeginSwitchKeeps
<1>5. ASSUME NEW r \in Requests, Arrive(r) \/ TakeSnapshot(r) \/ Depart(r)
      PROVE  HotSwapInv'
  BY <1>5, ArriveKeeps, TakeSnapshotKeeps, DepartKeeps
<1>6. CASE UNCHANGED vars
  <2>1. TypeOK' /\ NamesOK' /\ LockOK' /\ CountOK'
    BY <1>6 DEF vars, HotSwapInv, TypeOK, NamesOK, LockOK, CountOK, InFlight
  <2>2. ManagerOK'
    BY <1>6 DEF vars, HotSwapInv, ManagerOK, Serving, StateMatchesChain, DrainingIsHeld,
       NothingStopped, Held, Users, HolderOK
  <2> QED BY <2>1, <2>2 DEF HotSwapInv
<1> QED BY <1>1, <1>2, <1>3, <1>4, <1>5, <1>6 DEF Next

(***************************************************************************)
(* The inductive invariant holds in every reachable state.                 *)
(***************************************************************************)
THEOREM HotSwapInvHolds == Spec => []HotSwapInv
<1>1. Init => HotSwapInv
  BY HotSwapInit
<1>2. HotSwapInv /\ [Next]_vars => HotSwapInv'
  BY HotSwapStep
<1> QED BY <1>1, <1>2, PTL DEF Spec

(***************************************************************************)
(* Manager.Enable, Disable, hotReload and Shutdown: whatever switch calls  *)
(* and reloads run together, the state shown matches the chain, and what a *)
(* request can find or has found there is started, but for the requests a  *)
(* drain gave up waiting for.                                              *)
(***************************************************************************)
THEOREM UsableIsRunningHolds == Spec => []UsableIsRunning
<1>1. HotSwapInv => UsableIsRunning
  BY DEF HotSwapInv, ManagerOK, NothingStopped, UsableIsRunning
<1> QED BY <1>1, HotSwapInvHolds, PTL

-----------------------------------------------------------------------------
(***************************************************************************)
(*                                                                         *)
(* Part two: the chain of middlewares.                                     *)
(*                                                                         *)
(***************************************************************************)

(***************************************************************************)
(* A set of numbers that is not empty has a least one.                     *)
(***************************************************************************)
LEMMA LeastOf ==
  ASSUME NEW S \in SUBSET Nat, S # {}
  PROVE  \E n \in S : \A m \in S : n <= m
<1>1. PICK less : /\ IsWellFoundedOn(less, Nat)
                  /\ \A x, y \in Nat : y < x => <<y, x>> \in less
  BY NatLessThanWellFounded DEF OpToRel
<1>2. PICK n \in S : \A m \in S : ~(<<m, n>> \in less)
  BY <1>1, WFMin
<1>3. \A m \in S : n \in Nat /\ m \in Nat /\ ~(m < n)
  BY <1>1, <1>2
<1> QED BY <1>3

\* kept after n rounds of the loop that leaves m out.
KeptAfter(g, n, items, m) ==
  g = [k \in 0 .. n |->
         IF k = 0 THEN <<>>
         ELSE IF items[k] = m THEN g[k - 1] ELSE Append(g[k - 1], items[k])]

LEMMA LoopRuns ==
  ASSUME NEW items, NEW m, NEW len \in Nat
  PROVE  \E g : KeptAfter(g, len, items, m)
<1> DEFINE H(n) == \E g : KeptAfter(g, n, items, m)
           Bad == {n \in Nat : ~ H(n)}
<1>1. H(0)
  <2> DEFINE g == [k \in 0 .. 0 |-> <<>>]
  <2>1. KeptAfter(g, 0, items, m)
    BY DEF KeptAfter
  <2> QED BY <2>1
<1>2. ASSUME NEW n \in Nat, H(n)
      PROVE  H(n + 1)
  <2>1. PICK g : KeptAfter(g, n, items, m)
    BY <1>2
  <2> DEFINE h == [k \in 0 .. n + 1 |->
                     IF k = 0 THEN <<>>
                     ELSE IF items[k] = m THEN g[k - 1] ELSE Append(g[k - 1], items[k])]
  <2>2. \A k \in 0 .. n : g[k] = IF k = 0 THEN <<>> ELSE IF items[k] = m
                                  THEN g[k - 1] ELSE Append(g[k - 1], items[k])
    BY <2>1 DEF KeptAfter
  <2>3. \A k \in 0 .. n + 1 : h[k] = IF k = 0 THEN <<>> ELSE IF items[k] = m
                                      THEN g[k - 1] ELSE Append(g[k - 1], items[k])
    OBVIOUS
  <2>4. \A k \in 0 .. n : k \in 0 .. n + 1
    OBVIOUS
  <2>5. \A k \in 0 .. n + 1 : k # 0 => k - 1 \in 0 .. n
    OBVIOUS
  <2>6. \A k \in 0 .. n : h[k] = g[k]
    <3> HIDE DEF h
    <3> QED BY <2>2, <2>3, <2>4
  <2>7. \A k \in 0 .. n + 1 : k # 0 => h[k - 1] = g[k - 1]
    <3> HIDE DEF h
    <3> QED BY <2>5, <2>6
  <2>8. KeptAfter(h, n + 1, items, m)
    BY <2>7 DEF KeptAfter
  <2> QED BY <2>8
<1>3. Bad \in SUBSET Nat /\ \A n \in Nat : n \in Bad <=> ~ H(n)
  OBVIOUS
<1> HIDE DEF Bad, H
<1>4. ASSUME Bad # {} PROVE FALSE
  <2>1. PICK n \in Bad : \A k \in Bad : n <= k
    BY <1>3, <1>4, LeastOf
  <2>2. n \in Nat /\ n # 0
    BY <1>1, <1>3, <2>1
  <2>3. n - 1 \in Nat /\ n - 1 \notin Bad /\ (n - 1) + 1 = n
    BY <2>1, <2>2
  <2> QED BY <1>2, <1>3, <2>1, <2>3
<1>5. H(len)
  BY <1>3, <1>4
<1> QED BY <1>5 DEF H

(***************************************************************************)
(* What is kept are elements of the list, and not more.                    *)
(***************************************************************************)
LEMMA KeptOfList ==
  ASSUME NEW S, NEW items \in Seq(S), NEW m
  PROVE  /\ Kept(items, m) \in Seq(S)
         /\ Len(Kept(items, m)) <= Len(items)
         /\ \A k \in 1 .. Len(Kept(items, m)) :
              \E j \in 1 .. Len(items) : Kept(items, m)[k] = items[j]
<1> DEFINE Runs(g) == g = [k \in 0 .. Len(items) |->
              IF k = 0 THEN <<>>
              ELSE IF items[k] = m THEN g[k - 1] ELSE Append(g[k - 1], items[k])]
           f == CHOOSE g : Runs(g)
           P(n) == /\ f[n] \in Seq(S) /\ Len(f[n]) <= n
                   /\ \A k \in 1 .. Len(f[n]) : \E j \in 1 .. Len(items) : f[n][k] = items[j]
           Bad == {n \in 0 .. Len(items) : ~ P(n)}
<1>1. Kept(items, m) = f[Len(items)]
  BY DEF Kept
<1>0. Len(items) \in Nat /\ \A j \in 1 .. Len(items) : items[j] \in S
  OBVIOUS
<1>2. Runs(f)
  <2>1. PICK g : KeptAfter(g, Len(items), items, m)
    BY <1>0, LoopRuns
  <2>2. Runs(g)
    BY <2>1 DEF KeptAfter
  <2> HIDE DEF Runs
  <2> QED BY <2>2
<1>3. /\ f[0] = <<>>
      /\ \A n \in 0 .. Len(items) : n # 0 =>
           f[n] = IF items[n] = m THEN f[n - 1] ELSE Append(f[n - 1], items[n])
  <2> HIDE DEF f
  <2>1. \A n \in 0 .. Len(items) :
          f[n] = IF n = 0 THEN <<>>
                 ELSE IF items[n] = m THEN f[n - 1] ELSE Append(f[n - 1], items[n])
    BY <1>2
  <2>2. 0 \in 0 .. Len(items)
    BY <1>0
  <2> QED BY <2>1, <2>2
<1> HIDE DEF f
<1>4. P(0)
  BY <1>3
<1>5. ASSUME NEW n \in Nat, n + 1 <= Len(items), P(n)
      PROVE  P(n + 1)
  <2>1. f[n + 1] = IF items[n + 1] = m THEN f[n] ELSE Append(f[n], items[n + 1])
    BY <1>0, <1>3, <1>5
  <2>2. CASE items[n + 1] = m
    BY <1>5, <2>1, <2>2
  <2>3. CASE items[n + 1] # m
    <3>1. f[n + 1] = Append(f[n], items[n + 1]) /\ items[n + 1] \in S
      BY <1>0, <1>5, <2>1, <2>3
    <3> HIDE DEF P
    <3>2. f[n] \in Seq(S) /\ Len(f[n]) <= n
          /\ \A k \in 1 .. Len(f[n]) : \E j \in 1 .. Len(items) : f[n][k] = items[j]
      BY <1>5 DEF P
    <3>3. /\ f[n + 1] \in Seq(S) /\ Len(f[n + 1]) = Len(f[n]) + 1
          /\ \A k \in 1 .. Len(f[n]) : f[n + 1][k] = f[n][k]
          /\ f[n + 1][Len(f[n]) + 1] = items[n + 1]
      BY <3>1, <3>2, AppendProperties
    <3>4. ASSUME NEW k \in 1 .. Len(f[n + 1])
          PROVE  \E j \in 1 .. Len(items) : f[n + 1][k] = items[j]
      <4>1. CASE k <= Len(f[n])
        BY <3>2, <3>3, <4>1
      <4>2. CASE k = Len(f[n]) + 1
        BY <1>0, <1>5, <3>3, <4>2
      <4> QED BY <3>2, <3>3, <4>1, <4>2
    <3>5. Len(f[n]) \in Nat /\ Len(f[n]) + 1 <= n + 1
      BY <3>2, LenProperties
    <3>6. Len(f[n + 1]) <= n + 1
      BY <3>3, <3>5
    <3> QED BY <3>3, <3>4, <3>6 DEF P
  <2> QED BY <2>2, <2>3
<1>6. Bad \in SUBSET Nat /\ \A n \in 0 .. Len(items) : n \in Bad <=> ~ P(n)
  OBVIOUS
<1>7. \A n \in Bad : n <= Len(items)
  OBVIOUS
<1> HIDE DEF Bad, P
<1>8. ASSUME Bad # {} PROVE FALSE
  <2>1. PICK n \in Bad : \A k \in Bad : n <= k
    BY <1>6, <1>8, LeastOf
  <2>2. n \in 0 .. Len(items) /\ n # 0
    BY <1>0, <1>4, <1>6, <1>7, <2>1
  <2>3. n - 1 \in Nat /\ n - 1 \notin Bad /\ (n - 1) + 1 = n /\ n - 1 \in 0 .. Len(items)
    BY <1>0, <2>1, <2>2
  <2> QED BY <1>0, <1>5, <1>6, <1>7, <2>1, <2>2, <2>3
<1>9. P(Len(items))
  BY <1>0, <1>6, <1>8
<1> QED BY <1>1, <1>9 DEF P

-----------------------------------------------------------------------------
CellValues == Handlers \cup {Blank, Torn}
Views == [arr : Nat, len : Nat]
Writes == [arr : Nat, at : Nat, val : Handlers]
Walks ==
  [phase : {"outside", "front", "answered", "back"}, plan : Seq(Nat \X Nat),
   ran : Seq(CellValues), expected : Seq(Handlers), met : SUBSET Handlers,
   shifted : BOOLEAN]

ListsTyped == lists \in [Slots -> Seq(Handlers)] /\ segment \in [Slots -> Views]

WriterTyped ==
  writer \in [busy : BOOLEAN, todo : Seq(Writes), publish : [Slots -> Views],
              result : [Slots -> Seq(Handlers)]]

ChainTypeOK ==
  /\ array \in Seq(Seq(CellValues))
  /\ ListsTyped /\ WriterTyped
  /\ walk \in [Walkers -> Walks]

\* A view shows cells of an array that there is.
ViewOK(v) == v.arr <= Len(array) /\ v.len <= Capacity(v)

\* No two slots view the same array.
Apart(views) ==
  \A s, t \in Slots : s # t /\ views[s].arr = views[t].arr => views[s].arr = 0

\* The writer will store what a slot should contain.
Aims(w) ==
  \E s \in Slots : /\ w.arr = writer.publish[s].arr
                   /\ w.at \in 1 .. writer.publish[s].len
                   /\ w.val = writer.result[s][w.at]

WriterOK ==
  /\ \A s \in Slots : ViewOK(writer.publish[s])
  /\ Apart(writer.publish)
  /\ ~writer.busy => /\ writer.todo = <<>>
                     /\ writer.publish = segment /\ writer.result = lists
  /\ \A i \in DOMAIN writer.todo : Aims(writer.todo[i])

\* What is to be published shows what it should, but for cells still to be written.
ContentsOK ==
  \A s \in Slots :
    /\ Len(writer.result[s]) = writer.publish[s].len
    /\ \A k \in 1 .. writer.publish[s].len :
         \/ array[writer.publish[s].arr][k] = writer.result[s][k]
         \/ \E i \in DOMAIN writer.todo : /\ writer.todo[i].arr = writer.publish[s].arr
                                          /\ writer.todo[i].at = k

\* A walk meets all that is mounted while it lasts.
MetOK(w) ==
  /\ w.phase = "outside" => w.plan = <<>> /\ w.ran = <<>>
  /\ w.phase # "outside" =>
       \A s \in Slots : \A k \in DOMAIN writer.result[s] : writer.result[s][k] \in w.met
  /\ \A i \in DOMAIN w.plan : /\ w.plan[i][1] \in DOMAIN array
                              /\ w.plan[i][2] \in DOMAIN array[w.plan[i][1]]
                              /\ array[w.plan[i][1]][w.plan[i][2]] \in w.met \cup {Torn}
  /\ \A i \in DOMAIN w.ran : w.ran[i] \in w.met \cup {Torn}

\* A walk whose lists were not shifted has run what it found, and its cells ahead
\* hold the rest; no writer comes there any more.
TrueOK(w) ==
  ~w.shifted =>
    /\ \A i \in DOMAIN w.plan, s \in Slots :
         w.plan[i][1] = writer.publish[s].arr => w.plan[i][2] <= writer.publish[s].len
    /\ \A i \in DOMAIN w.plan, j \in DOMAIN writer.todo :
         ~(w.plan[i][1] = writer.todo[j].arr /\ w.plan[i][2] = writer.todo[j].at)
    /\ Len(w.ran) + Len(w.plan) <= Len(w.expected)
    /\ \A i \in DOMAIN w.ran : w.ran[i] = w.expected[i]
    /\ \A i \in DOMAIN w.plan :
         array[w.plan[i][1]][w.plan[i][2]] = w.expected[Len(w.ran) + i]

ChainInv ==
  /\ ChainTypeOK /\ WriterOK /\ ContentsOK
  /\ \A r \in Walkers : MetOK(walk[r]) /\ TrueOK(walk[r])

LEMMA ChainStart == ChainInit => ChainInv
<1> SUFFICES ASSUME ChainInit PROVE ChainInv
  OBVIOUS
<1>1. /\ array = <<>>
      /\ segment = [s \in Slots |-> NilView]
      /\ lists = [s \in Slots |-> <<>>]
      /\ writer = [busy |-> FALSE, todo |-> <<>>, publish |-> segment, result |-> lists]
      /\ walk = [r \in Walkers |-> NotWalking]
  BY DEF ChainInit
<1>2. NilView \in Views /\ NilView.arr = 0 /\ NilView.len = 0
  BY DEF NilView, Views
<1>3. ListsTyped
  BY <1>1, <1>2 DEF ListsTyped
<1>4. WriterTyped
  BY <1>1, <1>3 DEF WriterTyped, ListsTyped
<1>5. NotWalking \in Walks
  BY DEF NotWalking, Walks
<1>6. ChainTypeOK
  BY <1>1, <1>3, <1>4, <1>5 DEF ChainTypeOK
<1>7. /\ writer.todo = <<>> /\ writer.publish = segment /\ writer.result = lists
      /\ \A s \in Slots : segment[s] = NilView /\ lists[s] = <<>>
  BY <1>1
<1>8. WriterOK
  BY <1>1, <1>2, <1>7 DEF WriterOK, ViewOK, Capacity, Apart
<1>9. ContentsOK
  BY <1>2, <1>7 DEF ContentsOK
<1>10. MetOK(NotWalking) /\ TrueOK(NotWalking)
  BY DEF MetOK, TrueOK, NotWalking
<1> QED BY <1>1, <1>6, <1>8, <1>9, <1>10 DEF ChainInv

-----------------------------------------------------------------------------
(***************************************************************************)
(* Without a writer every slot shows its list.                             *)
(***************************************************************************)
LEMMA Settled ==
  ASSUME ChainInv, ~writer.busy, NEW s \in Slots
  PROVE  /\ segment[s] \in Views /\ lists[s] \in Seq(Handlers) /\ ViewOK(segment[s])
         /\ Len(lists[s]) = segment[s].len
         /\ \A k \in 1 .. segment[s].len : array[segment[s].arr][k] = lists[s][k]
         /\ Content(segment[s]) = lists[s]
<1>1. writer.todo = <<>> /\ writer.publish = segment /\ writer.result = lists
  BY DEF ChainInv, WriterOK
<1>2. segment[s] \in Views /\ lists[s] \in Seq(Handlers)
  BY DEF ChainInv, ChainTypeOK, ListsTyped
<1>3. ViewOK(segment[s])
  BY <1>1 DEF ChainInv, WriterOK
<1>4. /\ Len(lists[s]) = segment[s].len
      /\ \A k \in 1 .. segment[s].len : array[segment[s].arr][k] = lists[s][k]
  BY <1>1 DEF ChainInv, ContentsOK
<1>5. Content(segment[s]) = lists[s]
  <2>1. CASE segment[s].len = 0
    BY <1>2, <1>4, <2>1, EmptySeq DEF Content
  <2>2. CASE segment[s].len # 0
    <3> DEFINE c == SubSeq(array[segment[s].arr], 1, segment[s].len)
    <3>1. segment[s].len \in Nat
      BY <1>2 DEF Views
    <3>2. \A k \in 1 .. segment[s].len : array[segment[s].arr][k] \in Handlers
      BY <1>2, <1>4
    <3>3. /\ c \in Seq(Handlers) /\ Len(c) = segment[s].len
          /\ \A k \in 1 .. segment[s].len : c[k] = array[segment[s].arr][k]
      BY <2>2, <3>1, <3>2, SubSeqProperties
    <3>4. c = lists[s]
      <4> HIDE DEF c
      <4> QED BY <1>2, <1>4, <3>3, SeqEqual
    <3> QED BY <2>2, <3>4 DEF Content
  <2> QED BY <2>1, <2>2
<1> QED BY <1>2, <1>3, <1>4, <1>5

-----------------------------------------------------------------------------
\* Arrays are added, none is changed.
Extended ==
  /\ array' \in Seq(Seq(CellValues)) /\ Len(array) <= Len(array')
  /\ \A a \in 1 .. Len(array) : array'[a] = array[a]

\* The view v of slot s will show list, the array being the one it had or a new one.
Plans(t, s, v, items) ==
  /\ v.arr = segment[s].arr \/ v.arr = Len(array) + 1
  /\ v.arr <= Len(array') /\ v.len <= IF v.arr = 0 THEN 0 ELSE Len(array'[v.arr])
  /\ Len(items) = v.len
  /\ \A i \in DOMAIN t : /\ t[i].arr = v.arr /\ t[i].at \in 1 .. v.len
                         /\ t[i].val = items[t[i].at]
  /\ \A k \in 1 .. v.len : array'[v.arr][k] = items[k] \/ \E i \in DOMAIN t : t[i].at = k

LEMMA LockWriter ==
  ASSUME ChainInv, NEW s \in Slots, NEW v \in Views, NEW items \in Seq(Handlers),
         NEW t \in Seq(Writes), Lock(t, s, v, items), Extended, Plans(t, s, v, items)
  PROVE  /\ ListsTyped' /\ WriterTyped' /\ WriterOK' /\ ContentsOK'
         /\ writer.todo = <<>> /\ writer'.todo = t
         /\ \A q \in Slots : /\ writer'.publish[q] = IF q = s THEN v ELSE segment[q]
                             /\ writer'.result[q] = IF q = s THEN items ELSE lists[q]
<1>1. /\ writer.todo = <<>> /\ writer.publish = segment /\ writer.result = lists
      /\ ~writer.busy
  BY DEF ChainInv, WriterOK, Lock
<1>2. segment \in [Slots -> Views] /\ lists \in [Slots -> Seq(Handlers)]
  BY DEF ChainInv, ChainTypeOK, ListsTyped
<1>3. /\ writer' = [busy |-> TRUE, todo |-> t, publish |-> [segment EXCEPT ![s] = v],
                    result |-> [lists EXCEPT ![s] = items]]
      /\ segment' = segment /\ lists' = lists
  BY DEF Lock
<1>4. /\ writer'.busy /\ writer'.todo = t
      /\ writer'.publish = [segment EXCEPT ![s] = v]
      /\ writer'.result = [lists EXCEPT ![s] = items]
  BY <1>3
<1>5. /\ writer'.publish \in [Slots -> Views] /\ writer'.result \in [Slots -> Seq(Handlers)]
      /\ \A q \in Slots : /\ writer'.publish[q] = IF q = s THEN v ELSE segment[q]
                          /\ writer'.result[q] = IF q = s THEN items ELSE lists[q]
  BY <1>2, <1>4
<1>6. ListsTyped' /\ WriterTyped'
  BY <1>2, <1>3, <1>4, <1>5 DEF ListsTyped, WriterTyped
<1>7. \A q \in Slots : /\ segment[q].arr \in Nat /\ segment[q].len \in Nat
                       /\ segment[q].arr <= Len(array)
                       /\ segment[q].len <= Capacity(segment[q])
  BY <1>1, <1>2, Settled DEF Views, ViewOK
<1>8. v.arr \in Nat /\ v.len \in Nat /\ Len(array) \in Nat /\ Len(array') \in Nat
  BY DEF Views, ChainInv, ChainTypeOK, Extended
<1>9. WriterOK'
  <2>1. ASSUME NEW q \in Slots
        PROVE  ViewOK(writer.publish[q])'
    <3>1. CASE q = s
      BY <1>5, <3>1 DEF ViewOK, Plans, Capacity
    <3>2. CASE q # s
      <4>1. segment[q].arr <= Len(array')
        BY <1>7, <1>8 DEF Extended
      <4>2. CASE segment[q].arr = 0
        BY <1>5, <1>7, <3>2, <4>1, <4>2 DEF ViewOK, Capacity
      <4>3. CASE segment[q].arr # 0
        <5>1. array'[segment[q].arr] = array[segment[q].arr]
          BY <1>7, <1>8, <4>3 DEF Extended
        <5> QED BY <1>5, <1>7, <3>2, <4>1, <4>3, <5>1 DEF ViewOK, Capacity
      <4> QED BY <4>2, <4>3
    <3> QED BY <3>1, <3>2
  <2>2. Apart(writer'.publish)
    <3>1. Apart(segment)
      BY <1>1 DEF ChainInv, WriterOK
    <3>2. \A q \in Slots : segment[q].arr # Len(array) + 1
      BY <1>7, <1>8
    <3>3. v.arr = segment[s].arr \/ v.arr = Len(array) + 1
      BY DEF Plans
    <3>4. ASSUME NEW q \in Slots, q # s, segment[q].arr = v.arr
          PROVE  v.arr = 0
      BY <3>1, <3>2, <3>3, <3>4 DEF Apart
    <3>5. ASSUME NEW p \in Slots, NEW q \in Slots, p # q,
                 writer'.publish[p].arr = writer'.publish[q].arr
          PROVE  writer'.publish[p].arr = 0
      <4>1. CASE p = s
        BY <1>5, <3>4, <3>5, <4>1
      <4>2. CASE q = s
        BY <1>5, <3>4, <3>5, <4>2
      <4>3. CASE p # s /\ q # s
        BY <1>5, <3>1, <3>5, <4>3 DEF Apart
      <4> QED BY <4>1, <4>2, <4>3
    <3> QED BY <3>5 DEF Apart
  <2>3. ASSUME NEW i \in DOMAIN t
        PROVE  Aims(t[i])'
    BY <1>5, <2>3 DEF Aims, Plans
  <2>4. Apart(writer.publish)'
    BY <2>2 DEF Apart
  <2>5. \A i \in DOMAIN writer'.todo : Aims(writer.todo[i])'
    BY <1>4, <2>3 DEF Aims
  <2> QED BY <1>4, <2>1, <2>4, <2>5 DEF WriterOK
<1>10. ContentsOK'
  <2>1. ASSUME NEW q \in Slots
        PROVE  /\ Len(writer'.result[q]) = writer'.publish[q].len
               /\ \A k \in 1 .. writer'.publish[q].len :
                    \/ array'[writer'.publish[q].arr][k] = writer'.result[q][k]
                    \/ \E i \in DOMAIN t : t[i].arr = writer'.publish[q].arr /\ t[i].at = k
    <3>1. CASE q = s
      <4>1. writer'.publish[q] = v /\ writer'.result[q] = items
        BY <1>5, <3>1
      <4>2. /\ Len(items) = v.len /\ \A i \in DOMAIN t : t[i].arr = v.arr
            /\ \A k \in 1 .. v.len :
                 array'[v.arr][k] = items[k] \/ \E i \in DOMAIN t : t[i].at = k
        BY DEF Plans
      <4> QED BY <4>1, <4>2
    <3>2. CASE q # s
      <4>1. /\ Len(lists[q]) = segment[q].len
            /\ \A k \in 1 .. segment[q].len : array[segment[q].arr][k] = lists[q][k]
        BY <1>1, Settled
      <4>2. CASE segment[q].arr = 0
        <5>1. segment[q].len = 0
          BY <1>7, <4>2 DEF Capacity
        <5> QED BY <1>5, <3>2, <4>1, <5>1
      <4>3. CASE segment[q].arr # 0
        <5>1. array'[segment[q].arr] = array[segment[q].arr]
          BY <1>7, <1>8, <4>3 DEF Extended
        <5> QED BY <1>5, <3>2, <4>1, <5>1
      <4> QED BY <4>2, <4>3
    <3> QED BY <3>1, <3>2
  <2> QED BY <1>4, <2>1 DEF ContentsOK
<1> QED BY <1>1, <1>4, <1>5, <1>6, <1>9, <1>10

\* A request goes on with the same cells ahead and has met X.
Onward(r, X) ==
  /\ walk'[r] \in Walks
  /\ walk'[r].phase = walk[r].phase /\ walk'[r].plan = walk[r].plan
  /\ walk'[r].ran = walk[r].ran /\ walk'[r].expected = walk[r].expected
  /\ walk'[r].met = walk[r].met \cup X
  /\ walk[r].shifted => walk'[r].shifted

\* Unless it is shifted, the cells ahead of it are in view and not written to.
Clear(r, v, t) ==
  ~walk'[r].shifted =>
     \A i \in DOMAIN walk[r].plan :
       /\ walk[r].plan[i][1] = v.arr => walk[r].plan[i][2] <= v.len
       /\ \A j \in DOMAIN t : ~(walk[r].plan[i][1] = t[j].arr /\ walk[r].plan[i][2] = t[j].at)

(***************************************************************************)
(* The requests on their way: what they still meet is there, and, unless   *)
(* it is shifted, nobody will write to it.                                 *)
(***************************************************************************)
LEMMA LockWalks ==
  ASSUME ChainInv, NEW s \in Slots, NEW v \in Views, NEW items \in Seq(Handlers),
         NEW t \in Seq(Writes), Lock(t, s, v, items), Extended, Plans(t, s, v, items),
         NEW X \in SUBSET Handlers,
         \A k \in 1 .. Len(items) :
           items[k] \in X \/ \E j \in 1 .. Len(lists[s]) : items[k] = lists[s][j],
         NEW r \in Walkers, Onward(r, X), Clear(r, v, t)
  PROVE  MetOK(walk[r])' /\ TrueOK(walk[r])'
<1> DEFINE w == walk'[r]
<1>0. /\ w \in Walks /\ w.phase = walk[r].phase /\ w.plan = walk[r].plan
      /\ w.ran = walk[r].ran /\ w.expected = walk[r].expected
      /\ w.met = walk[r].met \cup X /\ (walk[r].shifted => w.shifted)
  BY DEF Onward
<1>c. ~w.shifted =>
        \A i \in DOMAIN w.plan :
          /\ w.plan[i][1] = v.arr => w.plan[i][2] <= v.len
          /\ \A j \in DOMAIN t : ~(w.plan[i][1] = t[j].arr /\ w.plan[i][2] = t[j].at)
  BY <1>0 DEF Clear
<1> DEFINE u == walk[r]
<1>1. MetOK(u) /\ TrueOK(u) /\ u \in Walks
  BY DEF ChainInv, ChainTypeOK
<1>2. /\ writer'.todo = t /\ writer.todo = <<>>
      /\ \A q \in Slots : /\ writer'.publish[q] = IF q = s THEN v ELSE segment[q]
                          /\ writer'.result[q] = IF q = s THEN items ELSE lists[q]
  BY LockWriter
<1>3. ~writer.busy /\ writer.publish = segment /\ writer.result = lists
  BY DEF Lock, ChainInv, WriterOK
<1>4. \A i \in DOMAIN u.plan : /\ u.plan[i][1] \in DOMAIN array' /\ array'[u.plan[i][1]] = array[u.plan[i][1]]
  <2>1. DOMAIN array = 1 .. Len(array) /\ DOMAIN array' = 1 .. Len(array')
        /\ Len(array) \in Nat /\ Len(array') \in Nat
    BY DEF ChainInv, ChainTypeOK, Extended
  <2> QED BY <1>1, <2>1 DEF Extended, MetOK
<1> HIDE DEF u, w
<1>5. MetOK(walk[r])'
  <2>1. w.phase = "outside" => w.plan = <<>> /\ w.ran = <<>>
    BY <1>0, <1>1 DEF MetOK, u
  <2>2. ASSUME w.phase # "outside", NEW q \in Slots, NEW k \in DOMAIN writer'.result[q]
        PROVE  writer'.result[q][k] \in w.met
    <3>1. \A p \in Slots : \A j \in DOMAIN lists[p] : lists[p][j] \in u.met
      BY <1>0, <1>1, <1>3, <2>2 DEF MetOK, u
    <3>2. CASE q = s
      <4>1. k \in 1 .. Len(items) /\ writer'.result[q][k] = items[k]
        BY <1>2, <2>2, <3>2
      <4>2. DOMAIN lists[s] = 1 .. Len(lists[s])
        BY DEF ChainInv, ChainTypeOK, ListsTyped
      <4> QED BY <1>0, <3>1, <4>1, <4>2 DEF u
    <3>3. CASE q # s
      BY <1>0, <1>2, <2>2, <3>1, <3>3 DEF u
    <3> QED BY <3>2, <3>3
  <2>3. \A i \in DOMAIN w.plan :
          /\ w.plan[i][1] \in DOMAIN array'
          /\ w.plan[i][2] \in DOMAIN array'[w.plan[i][1]]
          /\ array'[w.plan[i][1]][w.plan[i][2]] \in w.met \cup {Torn}
    BY <1>0, <1>1, <1>4 DEF MetOK, u
  <2>4. \A i \in DOMAIN w.ran : w.ran[i] \in w.met \cup {Torn}
    BY <1>0, <1>1 DEF MetOK, u
  <2> QED BY <2>1, <2>2, <2>3, <2>4 DEF MetOK, w
<1>6. TrueOK(walk[r])'
  <2> SUFFICES ASSUME ~w.shifted PROVE TrueOK(walk[r])'
    BY DEF TrueOK, w
  <2>1. ~u.shifted
    BY <1>0 DEF u
  <2>2. ASSUME NEW i \in DOMAIN w.plan, NEW q \in Slots,
               w.plan[i][1] = writer'.publish[q].arr
        PROVE  w.plan[i][2] <= writer'.publish[q].len
    <3>1. CASE q = s
      BY <1>c, <1>2, <2>2, <3>1
    <3>2. CASE q # s
      BY <1>0, <1>1, <1>2, <1>3, <2>1, <2>2, <3>2 DEF TrueOK, u
    <3> QED BY <3>1, <3>2
  <2>3. \A i \in DOMAIN w.plan, j \in DOMAIN writer'.todo :
          ~(w.plan[i][1] = writer'.todo[j].arr /\ w.plan[i][2] = writer'.todo[j].at)
    BY <1>c, <1>2
  <2>4. /\ Len(w.ran) + Len(w.plan) <= Len(w.expected)
        /\ \A i \in DOMAIN w.ran : w.ran[i] = w.expected[i]
    BY <1>0, <1>1, <2>1 DEF TrueOK, u
  <2>5. \A i \in DOMAIN w.plan :
          array'[w.plan[i][1]][w.plan[i][2]] = w.expected[Len(w.ran) + i]
    <3>1. \A i \in DOMAIN u.plan :
            array[u.plan[i][1]][u.plan[i][2]] = u.expected[Len(u.ran) + i]
      BY <1>0, <1>1, <2>1 DEF TrueOK
    <3>2. w.plan = u.plan /\ w.expected = u.expected /\ w.ran = u.ran
      BY <1>0 DEF u
    <3> QED BY <1>4, <3>1, <3>2
  <2> QED BY <2>2, <2>3, <2>4, <2>5 DEF TrueOK, w
<1> QED BY <1>5, <1>6

-----------------------------------------------------------------------------
LEMMA WalkTyped ==
  ASSUME ChainInv, NEW r \in Walkers
  PROVE  walk[r] \in Walks /\ MetOK(walk[r]) /\ TrueOK(walk[r])
BY DEF ChainInv, ChainTypeOK

LEMMA MeetOnward ==
  ASSUME ChainInv, NEW X \in SUBSET Handlers, walk' = Meet(X)
  PROVE  /\ walk' \in [Walkers -> Walks]
         /\ \A r \in Walkers : Onward(r, X) /\ walk'[r].shifted = walk[r].shifted
<1>1. ASSUME NEW r \in Walkers
      PROVE  Onward(r, X) /\ walk'[r].shifted = walk[r].shifted
  <2>1. walk[r] \in Walks
    BY WalkTyped
  <2>2. walk'[r] = [walk[r] EXCEPT !.met = @ \cup X]
    BY DEF Meet
  <2> QED BY <2>1, <2>2 DEF Walks, Onward
<1>2. walk' = [r \in Walkers |-> walk'[r]]
  BY DEF Meet
<1>3. walk' \in [Walkers -> Walks]
  BY <1>1, <1>2 DEF Onward
<1> QED BY <1>1, <1>3

(***************************************************************************)
(* Add (internal/chain/impl.go): append writes into a spare cell of the    *)
(* array, which no request has in its way, or into an array of its own.    *)
(***************************************************************************)
LEMMA AddKeeps ==
  ASSUME ChainInv, NEW m \in Handlers, Add(m)
  PROVE  ChainInv'
<1> DEFINE s == SlotOf[m]
           view == segment[s]
           n == view.len + 1
           room == n <= Capacity(view)
           grown == [k \in 1 .. (IF view.len = 0 THEN 1 ELSE 2 * view.len) |->
                       IF k < n THEN Content(view)[k] ELSE IF k = n THEN m ELSE Blank]
           todo == IF room THEN <<[arr |-> view.arr, at |-> n, val |-> m]>> ELSE <<>>
           next == IF room THEN [view EXCEPT !.len = n] ELSE [arr |-> Len(array) + 1, len |-> n]
           items == Append(lists[s], m)
<1>1. /\ Lock(todo, s, next, items) /\ walk' = Meet({m})
      /\ array' = IF room THEN array ELSE Append(array, grown)
  BY DEF Add
<1>2. s \in Slots
  BY ChainAssumption
<1>3. ~writer.busy
  BY <1>1 DEF Lock
<1> HIDE DEF s
<1>4. /\ view \in Views /\ lists[s] \in Seq(Handlers) /\ ViewOK(view)
      /\ Len(lists[s]) = view.len /\ Content(view) = lists[s]
      /\ \A k \in 1 .. view.len : array[view.arr][k] = lists[s][k]
  BY <1>2, <1>3, Settled
<1> HIDE DEF view
<1>5. view.arr \in Nat /\ view.len \in Nat /\ n \in Nat
  BY <1>4 DEF Views
<1>6. /\ items \in Seq(Handlers) /\ Len(items) = n /\ items[n] = m
      /\ \A k \in 1 .. view.len : items[k] = lists[s][k]
  BY <1>4, <1>5, AppendProperties
<1>7. array \in Seq(Seq(CellValues)) /\ Len(array) \in Nat
  BY DEF ChainInv, ChainTypeOK
<1> HIDE DEF items
<1>8. todo \in Seq(Writes)
  <2>1. [arr |-> view.arr, at |-> n, val |-> m] \in Writes
    BY <1>5 DEF Writes
  <2> QED BY <2>1
<1>9. next \in Views
  BY <1>4, <1>5, <1>7 DEF Views
<1>10. Extended /\ Plans(todo, s, next, items)
  <2>1. CASE room
    <3>1. array' = array
      BY <1>1, <2>1
    <3>2. next.arr = view.arr /\ next.len = n
      BY <1>4, <2>1 DEF Views
    <3>3. DOMAIN todo = {1} /\ todo[1] = [arr |-> view.arr, at |-> n, val |-> m]
      BY <2>1
    <3>4. Extended
      BY <1>7, <3>1 DEF Extended
    <3>5. /\ next.arr = segment[s].arr /\ next.arr <= Len(array')
          /\ Len(items) = next.len
          /\ next.len <= IF next.arr = 0 THEN 0 ELSE Len(array'[next.arr])
      BY <1>4, <1>6, <2>1, <3>1, <3>2 DEF ViewOK, Capacity, view
    <3> HIDE DEF todo
    <3>6. \A i \in DOMAIN todo : /\ todo[i].arr = next.arr /\ todo[i].at \in 1 .. next.len
                                 /\ todo[i].val = items[todo[i].at]
      BY <1>5, <1>6, <3>2, <3>3
    <3>7. \A k \in 1 .. n : k \in 1 .. view.len \/ k = n
      BY <1>5
    <3> HIDE DEF n
    <3>8. \A k \in 1 .. next.len :
            array'[next.arr][k] = items[k] \/ \E i \in DOMAIN todo : todo[i].at = k
      BY <1>4, <1>6, <3>1, <3>2, <3>3, <3>7
    <3> QED BY <3>4, <3>5, <3>6, <3>8 DEF Plans
  <2>2. CASE ~room
    <3>1. array' = Append(array, grown) /\ next = [arr |-> Len(array) + 1, len |-> n] /\ todo = <<>>
      BY <1>1, <2>2
    <3>2. next.arr = Len(array) + 1 /\ next.len = n
      BY <3>1
    <3> DEFINE size == IF view.len = 0 THEN 1 ELSE 2 * view.len
    <3>3. size \in Nat /\ n <= size
      BY <1>5
    <3>4. \A k \in 1 .. size : grown[k] = IF k < n THEN lists[s][k] ELSE IF k = n THEN m ELSE Blank
      BY <1>4
    <3>5. grown = [k \in 1 .. size |-> grown[k]]
      BY <1>4
    <3>6. \A k \in 1 .. size : k < n => k \in 1 .. view.len
      BY <1>5
    <3> HIDE DEF size, grown, n
    <3>7. \A k \in 1 .. size : grown[k] \in CellValues
      BY <1>4, <3>4, <3>6 DEF CellValues
    <3>8. grown \in Seq(CellValues) /\ Len(grown) = size
      BY <3>3, <3>5, <3>7
    <3>9. /\ array' \in Seq(Seq(CellValues)) /\ Len(array') = Len(array) + 1
          /\ array'[Len(array) + 1] = grown /\ \A a \in 1 .. Len(array) : array'[a] = array[a]
      BY <1>7, <3>1, <3>8, AppendProperties
    <3>10. Extended
      BY <1>7, <3>9 DEF Extended
    <3>11. /\ next.arr <= Len(array') /\ Len(items) = next.len
          /\ next.len <= IF next.arr = 0 THEN 0 ELSE Len(array'[next.arr])
      BY <1>6, <1>7, <3>2, <3>3, <3>8, <3>9 DEF Capacity
    <3>12. \A k \in 1 .. next.len : array'[next.arr][k] = items[k]
      <4>1. \A k \in 1 .. n : k \in 1 .. size /\ (k < n \/ k = n)
        BY <1>5, <3>3
      <4> QED BY <1>5, <1>6, <3>2, <3>4, <3>6, <3>9, <4>1
    <3> QED BY <3>1, <3>2, <3>10, <3>11, <3>12 DEF Plans
  <2> QED BY <2>1, <2>2
<1>11. /\ walk' \in [Walkers -> Walks]
       /\ \A r \in Walkers : Onward(r, {m}) /\ walk'[r].shifted = walk[r].shifted
  BY <1>1, MeetOnward
<1>12. ASSUME NEW r \in Walkers
       PROVE  MetOK(walk[r])' /\ TrueOK(walk[r])'
  <2> DEFINE plan == walk[r].plan
  <2>1. Onward(r, {m}) /\ walk'[r].shifted = walk[r].shifted
    BY <1>11
  <2>2. \A k \in 1 .. Len(items) :
          items[k] \in {m} \/ \E j \in 1 .. Len(lists[s]) : items[k] = lists[s][j]
    <3>1. \A k \in 1 .. n : k \in 1 .. view.len \/ k = n
      BY <1>5
    <3> QED BY <1>4, <1>6, <3>1
  <2>3. ASSUME ~walk[r].shifted, NEW i \in DOMAIN plan
        PROVE  /\ plan[i][1] = next.arr => plan[i][2] <= next.len
               /\ \A j \in DOMAIN todo : ~(plan[i][1] = todo[j].arr /\ plan[i][2] = todo[j].at)
    <3>1. /\ plan[i][1] \in DOMAIN array /\ (plan[i][1] = view.arr => plan[i][2] <= view.len)
          /\ plan[i][2] \in Nat
      <4>1. writer.publish = segment
        BY <1>3 DEF ChainInv, WriterOK
      <4>2. TrueOK(walk[r]) /\ MetOK(walk[r]) /\ walk[r] \in Walks
        BY WalkTyped
      <4>3. plan[i] \in Nat \X Nat
        BY <2>3, <4>2 DEF Walks
      <4> QED BY <1>2, <2>3, <4>1, <4>2, <4>3 DEF TrueOK, MetOK, view
    <3>2. DOMAIN array = 1 .. Len(array)
      BY <1>7
    <3>3. CASE room
      <4>1. next.arr = view.arr /\ next.len = n
        BY <1>4, <3>3 DEF Views
      <4>2. \A j \in DOMAIN todo : todo[j].arr = view.arr /\ todo[j].at = n
        BY <3>3
      <4>3. plan[i][1] = view.arr => plan[i][2] <= n /\ plan[i][2] # n
        BY <1>5, <3>1
      <4> HIDE DEF next, todo, plan, n
      <4> QED BY <4>1, <4>2, <4>3
    <3>4. CASE ~room
      <4>1. next.arr = Len(array) + 1 /\ todo = <<>>
        BY <3>4
      <4>2. plan[i][1] # next.arr
        BY <1>7, <3>1, <3>2, <4>1
      <4> QED BY <4>1, <4>2
    <3> QED BY <3>3, <3>4
  <2>4. Clear(r, next, todo)
    BY <2>1, <2>3 DEF Clear
  <2>5. {m} \in SUBSET Handlers
    OBVIOUS
  <2> HIDE DEF todo, next
  <2> QED BY <1>1, <1>2, <1>6, <1>8, <1>9, <1>10, <2>1, <2>2, <2>4, <2>5, LockWalks
<1>13. ListsTyped' /\ WriterTyped' /\ WriterOK' /\ ContentsOK'
  <2> HIDE DEF todo, next
  <2> QED BY <1>1, <1>2, <1>6, <1>8, <1>9, <1>10, LockWriter
<1> QED
  <2> HIDE DEF todo, next, grown
  <2> QED BY <1>10, <1>11, <1>12, <1>13 DEF ChainInv, ChainTypeOK, Extended

(***************************************************************************)
(* Replace: the slot gets an array that no request is walking.             *)
(***************************************************************************)
LEMMA ReplaceKeeps ==
  ASSUME ChainInv, NEW s \in Slots, NEW items \in Replacements, Replace(s, items)
  PROVE  ChainInv'
<1> DEFINE next == [arr |-> Len(array) + 1, len |-> Len(items)]
           X == Seqs!ToSet(items)
<1>1. Lock(<<>>, s, next, items) /\ array' = Append(array, items) /\ walk' = Meet(X)
  BY DEF Replace
<1>2. items \in Seq(Handlers) /\ items \in Seq(CellValues) /\ Len(items) \in Nat
  BY ChainAssumption, SeqMonotonic DEF CellValues
<1>3. array \in Seq(Seq(CellValues)) /\ Len(array) \in Nat
  BY DEF ChainInv, ChainTypeOK
<1>4. X \in SUBSET Handlers /\ \A k \in 1 .. Len(items) : items[k] \in X
  BY <1>2 DEF Seqs!ToSet
<1>5. next \in Views /\ next.arr = Len(array) + 1 /\ next.len = Len(items)
  BY <1>2, <1>3 DEF Views
<1>6. /\ array' \in Seq(Seq(CellValues)) /\ Len(array') = Len(array) + 1
      /\ array'[Len(array) + 1] = items /\ \A a \in 1 .. Len(array) : array'[a] = array[a]
  BY <1>1, <1>2, <1>3, AppendProperties
<1>7. Extended
  BY <1>3, <1>6 DEF Extended
<1> HIDE DEF next
<1>8. Plans(<<>>, s, next, items)
  <2>1. next.len <= IF next.arr = 0 THEN 0 ELSE Len(array'[next.arr])
    BY <1>2, <1>3, <1>5, <1>6
  <2>2. \A k \in 1 .. next.len : array'[next.arr][k] = items[k]
    BY <1>5, <1>6
  <2> QED BY <1>2, <1>3, <1>5, <1>6, <2>1, <2>2 DEF Plans
<1>9. <<>> \in Seq(Writes)
  OBVIOUS
<1> HIDE DEF X
<1>10. /\ walk' \in [Walkers -> Walks]
       /\ \A r \in Walkers : Onward(r, X) /\ walk'[r].shifted = walk[r].shifted
  BY <1>1, <1>4, MeetOnward
<1>11. ASSUME NEW r \in Walkers
       PROVE  MetOK(walk[r])' /\ TrueOK(walk[r])'
  <2>1. Onward(r, X)
    BY <1>10
  <2>2. \A i \in DOMAIN walk[r].plan : walk[r].plan[i][1] \in DOMAIN array
    BY WalkTyped DEF MetOK
  <2>3. \A i \in DOMAIN walk[r].plan : walk[r].plan[i][1] # next.arr
    BY <1>3, <1>5, <2>2
  <2>4. Clear(r, next, <<>>)
    BY <2>3 DEF Clear
  <2> QED BY <1>1, <1>2, <1>4, <1>5, <1>7, <1>8, <1>9, <2>1, <2>4, LockWalks
<1>12. ListsTyped' /\ WriterTyped' /\ WriterOK' /\ ContentsOK'
  BY <1>1, <1>2, <1>5, <1>7, <1>8, <1>9, LockWriter
<1> QED BY <1>7, <1>10, <1>11, <1>12 DEF ChainInv, ChainTypeOK, Extended

(***************************************************************************)
(* Remove: what stays is written to the front of the array; whoever still  *)
(* has cells ahead counts as shifted.                                      *)
(***************************************************************************)
LEMMA RemoveKeeps ==
  ASSUME ChainInv, NEW m \in Handlers, Remove(m)
  PROVE  ChainInv'
<1> DEFINE s == SlotOf[m]
           view == segment[s]
           kept == Kept(Content(view), m)
           next == [view EXCEPT !.len = Len(kept)]
           todo == [k \in 1 .. Len(kept) |-> [arr |-> view.arr, at |-> k, val |-> kept[k]]]
<1>1. /\ Lock(todo, s, next, kept) /\ array' = array
      /\ walk' = [r \in Walkers |-> [walk[r] EXCEPT !.shifted = @ \/ walk[r].plan # <<>>]]
  BY DEF Remove, Shift
<1>2. s \in Slots
  BY ChainAssumption
<1>3. ~writer.busy
  BY <1>1 DEF Lock
<1> HIDE DEF s
<1>4. /\ view \in Views /\ lists[s] \in Seq(Handlers) /\ ViewOK(view)
      /\ Len(lists[s]) = view.len /\ Content(view) = lists[s]
  BY <1>2, <1>3, Settled
<1> HIDE DEF view
<1>5. /\ kept \in Seq(Handlers) /\ Len(kept) \in Nat /\ Len(kept) <= view.len
      /\ \A k \in 1 .. Len(kept) : \E j \in 1 .. Len(lists[s]) : kept[k] = lists[s][j]
  BY <1>4, KeptOfList
<1> HIDE DEF kept
<1>6. view.arr \in Nat /\ view.len \in Nat
  BY <1>4 DEF Views
<1>7. next \in Views /\ next.arr = view.arr /\ next.len = Len(kept)
  BY <1>4, <1>5 DEF Views
<1>8. /\ todo \in Seq(Writes) /\ DOMAIN todo = 1 .. Len(kept)
      /\ \A k \in 1 .. Len(kept) :
           todo[k].arr = view.arr /\ todo[k].at = k /\ todo[k].val = kept[k]
  <2>1. \A k \in 1 .. Len(kept) : [arr |-> view.arr, at |-> k, val |-> kept[k]] \in Writes
    BY <1>5, <1>6 DEF Writes
  <2> QED BY <1>5, <2>1
<1>9. Extended
  BY <1>1 DEF Extended, ChainInv, ChainTypeOK
<1> HIDE DEF next, todo
<1>10. Plans(todo, s, next, kept)
  <2>1. next.arr = segment[s].arr /\ next.arr <= Len(array') /\ Len(kept) = next.len
    BY <1>1, <1>4, <1>7 DEF ViewOK, view
  <2>2. next.len <= IF next.arr = 0 THEN 0 ELSE Len(array'[next.arr])
    <3>1. view.len <= IF view.arr = 0 THEN 0 ELSE Len(array[view.arr])
      BY <1>4 DEF ViewOK, Capacity
    <3>2. view.arr # 0 => Len(array[view.arr]) \in Nat
      <4>1. array \in Seq(Seq(CellValues))
        BY DEF ChainInv, ChainTypeOK
      <4>2. view.arr # 0 => view.arr \in 1 .. Len(array)
        BY <1>4, <1>6, <4>1 DEF ViewOK
      <4> QED BY <4>1, <4>2
    <3> QED BY <1>1, <1>5, <1>6, <1>7, <3>1, <3>2
  <2>3. \A i \in DOMAIN todo : /\ todo[i].arr = next.arr /\ todo[i].at \in 1 .. next.len
                               /\ todo[i].val = kept[todo[i].at]
    BY <1>7, <1>8
  <2>4. \A k \in 1 .. next.len : \E i \in DOMAIN todo : todo[i].at = k
    BY <1>7, <1>8
  <2> QED BY <2>1, <2>2, <2>3, <2>4 DEF Plans
<1>11. ASSUME NEW r \in Walkers
       PROVE  Onward(r, {}) /\ (~walk'[r].shifted => walk[r].plan = <<>>)
  <2>1. walk[r] \in Walks
    BY WalkTyped
  <2>2. walk'[r] = [walk[r] EXCEPT !.shifted = @ \/ walk[r].plan # <<>>]
    BY <1>1
  <2>3. /\ walk'[r].shifted = (walk[r].shifted \/ walk[r].plan # <<>>)
        /\ walk'[r].shifted \in BOOLEAN
        /\ walk'[r].phase = walk[r].phase /\ walk'[r].plan = walk[r].plan
        /\ walk'[r].ran = walk[r].ran /\ walk'[r].expected = walk[r].expected
        /\ walk'[r].met = walk[r].met
    BY <2>1, <2>2 DEF Walks
  <2>4. walk'[r] \in Walks
    BY <2>1, <2>2 DEF Walks
  <2> QED BY <2>3, <2>4 DEF Onward
<1>12. walk' \in [Walkers -> Walks]
  <2>1. walk' = [r \in Walkers |-> walk'[r]]
    BY <1>1
  <2> QED BY <1>11, <2>1 DEF Onward
<1>13. ASSUME NEW r \in Walkers
       PROVE  MetOK(walk[r])' /\ TrueOK(walk[r])'
  <2>1. Onward(r, {}) /\ Clear(r, next, todo)
    BY <1>11 DEF Clear
  <2>2. {} \in SUBSET Handlers
    OBVIOUS
  <2> QED BY <1>1, <1>2, <1>5, <1>7, <1>8, <1>9, <1>10, <2>1, <2>2, LockWalks
<1>14. ListsTyped' /\ WriterTyped' /\ WriterOK' /\ ContentsOK'
  BY <1>1, <1>2, <1>5, <1>7, <1>8, <1>9, <1>10, LockWriter
<1> QED BY <1>9, <1>12, <1>13, <1>14 DEF ChainInv, ChainTypeOK, Extended

-----------------------------------------------------------------------------
(***************************************************************************)
(* A cell of the plan of the writer gets a value.                          *)
(***************************************************************************)
LEMMA CellWritten ==
  ASSUME ChainInv, writer.todo # <<>>, NEW x \in CellValues,
         array' = [array EXCEPT ![Head(writer.todo).arr][Head(writer.todo).at] = x]
  PROVE  LET w == Head(writer.todo) IN
         /\ w = writer.todo[1] /\ 1 \in DOMAIN writer.todo /\ Aims(w) /\ w.arr # 0
         /\ array' \in Seq(Seq(CellValues)) /\ DOMAIN array' = DOMAIN array
         /\ \A a \in DOMAIN array : /\ DOMAIN array'[a] = DOMAIN array[a]
                                    /\ Len(array'[a]) = Len(array[a])
         /\ Len(array') = Len(array)
         /\ \A a \in DOMAIN array : \A k \in DOMAIN array[a] :
              array'[a][k] = IF a = w.arr /\ k = w.at THEN x ELSE array[a][k]
<1> DEFINE w == Head(writer.todo)
<1>1. writer.todo \in Seq(Writes)
  BY DEF ChainInv, ChainTypeOK, WriterTyped
<1>2. w = writer.todo[1] /\ 1 \in DOMAIN writer.todo
  BY <1>1
<1>3. Aims(w)
  BY <1>2 DEF ChainInv, WriterOK
<1> HIDE DEF w
<1>4. PICK s \in Slots : w.arr = writer.publish[s].arr /\ w.at \in 1 .. writer.publish[s].len
  BY <1>3 DEF Aims
<1> DEFINE v == writer.publish[s]
<1>5. v \in Views /\ v.arr <= Len(array) /\ v.len <= Capacity(v)
  BY DEF ChainInv, ChainTypeOK, WriterTyped, WriterOK, ViewOK
<1>6. array \in Seq(Seq(CellValues))
  BY DEF ChainInv, ChainTypeOK
<1> HIDE DEF v
<1>7. /\ v.arr # 0 /\ v.arr \in DOMAIN array /\ w.arr = v.arr
      /\ w.at \in 1 .. Len(array[v.arr])
  <2>1. v.arr \in Nat /\ v.len \in Nat /\ w.arr = v.arr /\ w.at \in 1 .. v.len
    BY <1>4, <1>5 DEF Views, v
  <2>2. v.arr # 0 /\ v.len <= Len(array[v.arr])
    BY <1>5, <2>1 DEF Capacity
  <2>3. v.arr \in DOMAIN array
    BY <1>5, <1>6, <2>1, <2>2
  <2>4. Len(array[v.arr]) \in Nat
    BY <1>6, <2>3
  <2> QED BY <2>1, <2>2, <2>3, <2>4
<1> DEFINE row == array[w.arr]
           new == [row EXCEPT ![w.at] = x]
<1>8. row \in Seq(CellValues) /\ w.at \in 1 .. Len(row)
  BY <1>6, <1>7
<1>9. /\ new \in Seq(CellValues) /\ Len(new) = Len(row) /\ DOMAIN new = DOMAIN row
      /\ \A k \in DOMAIN row : new[k] = IF k = w.at THEN x ELSE row[k]
  BY <1>8, ExceptSeq
<1>10. array' = [array EXCEPT ![w.arr] = new]
  BY DEF w
<1> HIDE DEF new
<1>11. new \in Seq(CellValues) /\ w.arr \in 1 .. Len(array)
  <2>1. DOMAIN array = 1 .. Len(array)
    BY <1>6
  <2> QED BY <1>7, <1>9, <2>1
<1>12. /\ array' \in Seq(Seq(CellValues)) /\ Len(array') = Len(array)
       /\ \A a \in 1 .. Len(array) : array'[a] = IF a = w.arr THEN new ELSE array[a]
  BY ONLY <1>6, <1>10, <1>11, ExceptSeq
<1>13. DOMAIN array = 1 .. Len(array) /\ DOMAIN array' = 1 .. Len(array)
  BY <1>6, <1>12
<1>14. ASSUME NEW a \in DOMAIN array
       PROVE  /\ DOMAIN array'[a] = DOMAIN array[a] /\ Len(array'[a]) = Len(array[a])
              /\ \A k \in DOMAIN array[a] :
                   array'[a][k] = IF a = w.arr /\ k = w.at THEN x ELSE array[a][k]
  <2>1. array'[a] = IF a = w.arr THEN new ELSE array[a]
    BY <1>12, <1>13
  <2>2. CASE a = w.arr
    BY <1>9, <2>1, <2>2
  <2>3. CASE a # w.arr
    BY <2>1, <2>3
  <2> QED BY <2>2, <2>3
<1> QED BY <1>2, <1>3, <1>7, <1>12, <1>13, <1>14 DEF w

(***************************************************************************)
(* WriteCell: a cell of the plan becomes torn, or what it should be.       *)
(***************************************************************************)
LEMMA WriteCellKeeps ==
  ASSUME ChainInv, WriteCell
  PROVE  ChainInv'
<1> DEFINE w == Head(writer.todo)
           x == IF array[w.arr][w.at] \notin {Torn, w.val} THEN Torn ELSE w.val
<1>1. /\ writer.todo # <<>>
      /\ array' = [array EXCEPT ![w.arr][w.at] = x]
      /\ segment' = segment /\ walk' = walk /\ lists' = lists
      /\ \/ x = Torn /\ writer' = writer
         \/ x = w.val /\ writer' = [writer EXCEPT !.todo = Tail(@)]
  BY DEF WriteCell
<1>2. /\ writer \in [busy : BOOLEAN, todo : Seq(Writes), publish : [Slots -> Views],
                     result : [Slots -> Seq(Handlers)]]
      /\ writer.todo \in Seq(Writes) /\ ListsTyped /\ array \in Seq(Seq(CellValues))
  BY DEF ChainInv, ChainTypeOK, WriterTyped
<1>3. w \in Writes /\ w.val \in Handlers /\ x \in CellValues
  <2>1. w \in Writes
    BY <1>1, <1>2, HeadTailProperties
  <2> QED BY <2>1 DEF Writes, CellValues
<1> HIDE DEF x
<1>4. /\ w = writer.todo[1] /\ 1 \in DOMAIN writer.todo /\ Aims(w) /\ w.arr # 0
      /\ array' \in Seq(Seq(CellValues)) /\ DOMAIN array' = DOMAIN array
      /\ \A a \in DOMAIN array : /\ DOMAIN array'[a] = DOMAIN array[a]
                                 /\ Len(array'[a]) = Len(array[a])
      /\ Len(array') = Len(array)
      /\ \A a \in DOMAIN array : \A k \in DOMAIN array[a] :
           array'[a][k] = IF a = w.arr /\ k = w.at THEN x ELSE array[a][k]
  BY <1>1, <1>3, CellWritten
<1> HIDE DEF w
<1>5. PICK s \in Slots : /\ w.arr = writer.publish[s].arr
                         /\ w.at \in 1 .. writer.publish[s].len
                         /\ w.val = writer.result[s][w.at]
  BY <1>4 DEF Aims
<1>6. /\ Tail(writer.todo) \in Seq(Writes) /\ DOMAIN Tail(writer.todo) = 1 .. Len(writer.todo) - 1
      /\ \A i \in 1 .. Len(writer.todo) - 1 : Tail(writer.todo)[i] = writer.todo[i + 1]
      /\ Len(writer.todo) \in Nat /\ DOMAIN writer.todo = 1 .. Len(writer.todo)
  BY <1>1, <1>2, HeadTailProperties
<1>7. /\ WriterTyped' /\ writer'.publish = writer.publish /\ writer'.result = writer.result
      /\ writer'.busy = writer.busy
      /\ writer'.todo = writer.todo \/ (x = w.val /\ writer'.todo = Tail(writer.todo))
      /\ x = Torn \/ x = w.val
  <2>1. CASE writer' = writer /\ x = Torn
    BY <1>2, <2>1 DEF WriterTyped
  <2>2. CASE x = w.val /\ writer' = [writer EXCEPT !.todo = Tail(@)]
    <3>1. /\ writer'.todo = Tail(writer.todo) /\ writer'.publish = writer.publish
          /\ writer'.result = writer.result /\ writer'.busy = writer.busy
      BY <1>2, <2>2
    <3>2. writer' \in [busy : BOOLEAN, todo : Seq(Writes), publish : [Slots -> Views],
                       result : [Slots -> Seq(Handlers)]]
      BY <1>2, <1>6, <2>2
    <3> QED BY <2>2, <3>1, <3>2 DEF WriterTyped
  <2> QED BY <1>1, <2>1, <2>2
<1>8. \A i \in DOMAIN writer'.todo : \E j \in DOMAIN writer.todo : writer'.todo[i] = writer.todo[j]
  <2>1. ASSUME writer'.todo = Tail(writer.todo), NEW i \in DOMAIN writer'.todo
        PROVE  \E j \in DOMAIN writer.todo : writer'.todo[i] = writer.todo[j]
    <3>1. i \in 1 .. Len(writer.todo) - 1 /\ i + 1 \in DOMAIN writer.todo
      BY <1>6, <2>1
    <3>2. writer'.todo[i] = writer.todo[i + 1]
      BY <1>6, <2>1, <3>1
    <3> QED BY <3>1, <3>2
  <2> QED BY <1>7, <2>1
<1>9. \A j \in DOMAIN writer.todo :
        \/ j = 1 /\ x = w.val
        \/ \E i \in DOMAIN writer'.todo : writer'.todo[i] = writer.todo[j]
  <2>1. ASSUME writer'.todo = Tail(writer.todo), NEW j \in DOMAIN writer.todo, j # 1
        PROVE  \E i \in DOMAIN writer'.todo : writer'.todo[i] = writer.todo[j]
    <3>1. j - 1 \in 1 .. Len(writer.todo) - 1 /\ (j - 1) + 1 = j
      BY <1>6, <2>1
    <3>2. writer'.todo[j - 1] = writer.todo[j] /\ j - 1 \in DOMAIN writer'.todo
      BY <1>6, <2>1, <3>1
    <3> QED BY <3>2
  <2> QED BY <1>7, <2>1
<1>10. writer.busy
  BY <1>1 DEF ChainInv, WriterOK
<1>11. WriterOK'
  <2>1. ASSUME NEW q \in Slots
        PROVE  ViewOK(writer.publish[q])'
    <3>1. ViewOK(writer.publish[q]) /\ writer.publish[q] \in Views
      BY <1>2 DEF ChainInv, WriterOK
    <3>2. writer.publish[q].arr # 0 => writer.publish[q].arr \in DOMAIN array
      BY <1>2, <3>1 DEF ViewOK, Views
    <3> QED BY <1>4, <1>7, <3>1, <3>2 DEF ViewOK, Capacity
  <2>2. Apart(writer.publish)'
    BY <1>7 DEF Apart, ChainInv, WriterOK
  <2>3. ASSUME NEW i \in DOMAIN writer'.todo
        PROVE  Aims(writer.todo[i])'
    <3>1. PICK j \in DOMAIN writer.todo : writer'.todo[i] = writer.todo[j]
      BY <1>8
    <3>2. Aims(writer.todo[j])
      BY DEF ChainInv, WriterOK
    <3> QED BY <1>7, <3>1, <3>2 DEF Aims
  <2> QED BY <1>7, <1>10, <2>1, <2>2, <2>3 DEF WriterOK
<1>12. ASSUME NEW q \in Slots, NEW k \in 1 .. writer.publish[q].len
       PROVE  \/ array'[writer.publish[q].arr][k] = writer.result[q][k]
              \/ \E i \in DOMAIN writer'.todo : /\ writer'.todo[i].arr = writer.publish[q].arr
                                                /\ writer'.todo[i].at = k
  <2> DEFINE v == writer.publish[q]
  <2>1. v \in Views /\ ViewOK(v)
    BY <1>2 DEF ChainInv, WriterOK
  <2>2. v.arr \in DOMAIN array /\ k \in DOMAIN array[v.arr]
    <3>1. v.arr \in Nat /\ v.len \in Nat /\ k \in 1 .. v.len
      BY <2>1 DEF Views
    <3>2. v.arr # 0 /\ v.len <= Len(array[v.arr])
      BY <2>1, <3>1 DEF ViewOK, Capacity
    <3>3. v.arr \in DOMAIN array
      BY <1>2, <2>1, <3>1, <3>2 DEF ViewOK
    <3>4. Len(array[v.arr]) \in Nat /\ DOMAIN array[v.arr] = 1 .. Len(array[v.arr])
      BY <1>2, <3>3
    <3> QED BY <3>1, <3>2, <3>3, <3>4
  <2>3. \/ array[v.arr][k] = writer.result[q][k]
        \/ \E j \in DOMAIN writer.todo : writer.todo[j].arr = v.arr /\ writer.todo[j].at = k
    BY DEF ChainInv, ContentsOK
  <2>4. CASE v.arr = w.arr /\ k = w.at
    <3>1. CASE x = w.val
      <4>1. array'[v.arr][k] = w.val
        BY <1>4, <2>2, <2>4, <3>1
      <4>2. q = s
        BY <1>4, <1>5, <2>4 DEF ChainInv, WriterOK, Apart
      <4> QED BY <1>5, <2>4, <4>1, <4>2
    <3>2. CASE x # w.val
      <4>1. PICK i \in DOMAIN writer'.todo : writer'.todo[i] = writer.todo[1]
        BY <1>4, <1>9, <3>2
      <4>2. writer'.todo[i].arr = v.arr /\ writer'.todo[i].at = k
        BY <1>4, <2>4, <4>1
      <4> QED BY <4>2
    <3> QED BY <3>1, <3>2
  <2>5. CASE ~(v.arr = w.arr /\ k = w.at)
    <3>1. array'[v.arr][k] = array[v.arr][k]
      BY <1>4, <2>2, <2>5
    <3>2. ASSUME NEW j \in DOMAIN writer.todo, writer.todo[j].arr = v.arr, writer.todo[j].at = k
          PROVE  \E i \in DOMAIN writer'.todo : /\ writer'.todo[i].arr = v.arr
                                                /\ writer'.todo[i].at = k
      <4>1. j # 1
        BY <1>4, <2>5, <3>2
      <4>2. PICK i \in DOMAIN writer'.todo : writer'.todo[i] = writer.todo[j]
        BY <1>9, <4>1
      <4> QED BY <3>2, <4>2
    <3> QED BY <2>3, <3>1, <3>2
  <2> QED BY <2>4, <2>5
<1>13. ContentsOK'
  BY <1>7, <1>12 DEF ContentsOK, ChainInv
<1>14. ASSUME NEW r \in Walkers
       PROVE  MetOK(walk[r])' /\ TrueOK(walk[r])'
  <2> DEFINE u == walk[r]
  <2>1. u \in Walks /\ MetOK(u) /\ TrueOK(u) /\ walk'[r] = u
    BY <1>1, WalkTyped
  <2> HIDE DEF u
  <2>2. \A i \in DOMAIN u.plan : /\ u.plan[i][1] \in DOMAIN array
                                 /\ u.plan[i][2] \in DOMAIN array[u.plan[i][1]]
                                 /\ array[u.plan[i][1]][u.plan[i][2]] \in u.met \cup {Torn}
    BY <2>1 DEF MetOK
  <2>3. ASSUME NEW i \in DOMAIN u.plan
        PROVE  array'[u.plan[i][1]][u.plan[i][2]] \in u.met \cup {Torn}
    <3>1. u.phase # "outside"
      BY <2>1 DEF MetOK
    <3>2. w.at \in DOMAIN writer.result[s]
      <4>1. Len(writer.result[s]) = writer.publish[s].len /\ writer.result[s] \in Seq(Handlers)
        BY <1>2 DEF ChainInv, ContentsOK
      <4> QED BY <1>5, <4>1
    <3>3. w.val \in u.met
      BY <1>5, <2>1, <3>1, <3>2 DEF MetOK
    <3> DEFINE a == u.plan[i][1]
               k == u.plan[i][2]
    <3>4. a \in DOMAIN array /\ k \in DOMAIN array[a] /\ array[a][k] \in u.met \cup {Torn}
      BY <2>2
    <3> HIDE DEF a, k
    <3>5. array'[a][k] = x \/ array'[a][k] = array[a][k]
      BY <1>4, <3>4
    <3>6. array'[a][k] \in u.met \cup {Torn}
      BY <1>7, <3>3, <3>4, <3>5
    <3> QED BY <3>6 DEF a, k
  <2>4. MetOK(u)'
    BY <1>4, <1>7, <2>1, <2>2, <2>3 DEF MetOK, u
  <2>5. TrueOK(u)'
    <3> SUFFICES ASSUME ~u.shifted PROVE TrueOK(u)'
      BY <2>1 DEF TrueOK, u
    <3>1. /\ \A i \in DOMAIN u.plan, q \in Slots :
               u.plan[i][1] = writer.publish[q].arr => u.plan[i][2] <= writer.publish[q].len
          /\ \A i \in DOMAIN u.plan, j \in DOMAIN writer.todo :
               ~(u.plan[i][1] = writer.todo[j].arr /\ u.plan[i][2] = writer.todo[j].at)
          /\ Len(u.ran) + Len(u.plan) <= Len(u.expected)
          /\ \A i \in DOMAIN u.ran : u.ran[i] = u.expected[i]
          /\ \A i \in DOMAIN u.plan :
               array[u.plan[i][1]][u.plan[i][2]] = u.expected[Len(u.ran) + i]
      BY <2>1 DEF TrueOK
    <3>2. \A i \in DOMAIN u.plan, j \in DOMAIN writer'.todo :
            ~(u.plan[i][1] = writer'.todo[j].arr /\ u.plan[i][2] = writer'.todo[j].at)
      BY <1>8, <3>1
    <3>3. ASSUME NEW i \in DOMAIN u.plan
          PROVE  array'[u.plan[i][1]][u.plan[i][2]] = array[u.plan[i][1]][u.plan[i][2]]
      <4>1. ~(u.plan[i][1] = w.arr /\ u.plan[i][2] = w.at)
        BY <1>4, <3>1
      <4> QED BY <1>4, <2>2, <4>1
    <3>4. \A i \in DOMAIN u.plan :
            array'[u.plan[i][1]][u.plan[i][2]] = u.expected[Len(u.ran) + i]
      BY <3>1, <3>3
    <3>5. \A i \in DOMAIN u.plan, q \in Slots :
            u.plan[i][1] = writer'.publish[q].arr => u.plan[i][2] <= writer'.publish[q].len
      BY <1>7, <3>1
    <3> QED BY <2>1, <3>1, <3>2, <3>4, <3>5 DEF TrueOK, u
  <2> QED BY <2>4, <2>5 DEF u
<1> QED BY <1>1, <1>2, <1>4, <1>7, <1>11, <1>13, <1>14 DEF ChainInv, ChainTypeOK, ListsTyped

(***************************************************************************)
(* Unlock: what was prepared is published.                                 *)
(***************************************************************************)
LEMMA UnlockKeeps ==
  ASSUME ChainInv, Unlock
  PROVE  ChainInv'
<1>1. /\ writer.todo = <<>> /\ segment' = writer.publish /\ lists' = writer.result
      /\ writer' = [busy |-> FALSE, todo |-> <<>>, publish |-> segment', result |-> lists']
      /\ array' = array /\ walk' = walk
  BY DEF Unlock
<1>2. /\ writer'.todo = writer.todo /\ writer'.publish = writer.publish
      /\ writer'.result = writer.result /\ ~writer'.busy
      /\ writer'.publish = segment' /\ writer'.result = lists' /\ writer'.todo = <<>>
  BY <1>1
<1>3. writer.publish \in [Slots -> Views] /\ writer.result \in [Slots -> Seq(Handlers)]
  BY DEF ChainInv, ChainTypeOK, WriterTyped
<1>4. ChainTypeOK'
  BY <1>1, <1>3 DEF ChainInv, ChainTypeOK, ListsTyped, WriterTyped
<1>5. WriterOK'
  BY <1>1, <1>2 DEF ChainInv, WriterOK, ViewOK, Capacity, Apart
<1>6. ContentsOK'
  BY <1>1, <1>2 DEF ChainInv, ContentsOK
<1>7. ASSUME NEW r \in Walkers
      PROVE  MetOK(walk[r])' /\ TrueOK(walk[r])'
  <2>1. MetOK(walk[r]) /\ TrueOK(walk[r])
    BY WalkTyped
  <2>2. MetOK(walk[r])'
    BY <1>1, <1>2, <2>1 DEF MetOK
  <2>3. TrueOK(walk[r])'
    <3> SUFFICES ASSUME ~walk[r].shifted PROVE TrueOK(walk[r])'
      BY <1>1 DEF TrueOK
    <3> DEFINE w == walk[r]
    <3>1. /\ \A i \in DOMAIN w.plan, q \in Slots :
               w.plan[i][1] = writer.publish[q].arr => w.plan[i][2] <= writer.publish[q].len
          /\ \A i \in DOMAIN w.plan, j \in DOMAIN writer.todo :
               ~(w.plan[i][1] = writer.todo[j].arr /\ w.plan[i][2] = writer.todo[j].at)
          /\ Len(w.ran) + Len(w.plan) <= Len(w.expected)
          /\ \A i \in DOMAIN w.ran : w.ran[i] = w.expected[i]
          /\ \A i \in DOMAIN w.plan :
               array[w.plan[i][1]][w.plan[i][2]] = w.expected[Len(w.ran) + i]
      BY <2>1 DEF TrueOK
    <3>2. walk'[r] = w
      BY <1>1
    <3> HIDE DEF w
    <3>3. /\ \A i \in DOMAIN w.plan, q \in Slots :
               w.plan[i][1] = writer'.publish[q].arr => w.plan[i][2] <= writer'.publish[q].len
          /\ \A i \in DOMAIN w.plan, j \in DOMAIN writer'.todo :
               ~(w.plan[i][1] = writer'.todo[j].arr /\ w.plan[i][2] = writer'.todo[j].at)
          /\ \A i \in DOMAIN w.plan :
               array'[w.plan[i][1]][w.plan[i][2]] = w.expected[Len(w.ran) + i]
      BY <1>1, <1>2, <3>1
    <3> QED BY <3>1, <3>2, <3>3 DEF TrueOK
  <2> QED BY <2>2, <2>3
<1> QED BY <1>4, <1>5, <1>6, <1>7 DEF ChainInv

-----------------------------------------------------------------------------
\* All that is listed is mounted.
LEMMA AllMounted ==
  ASSUME ChainInv
  PROVE  /\ Mounted \in SUBSET Handlers
         /\ \A s \in Slots : \A k \in DOMAIN lists[s] : lists[s][k] \in Mounted
<1>1. \A s \in Slots : lists[s] \in Seq(Handlers) /\ Seqs!ToSet(lists[s]) \subseteq Handlers
  BY DEF ChainInv, ChainTypeOK, ListsTyped, Seqs!ToSet
<1>2. Mounted \in SUBSET Handlers
  BY <1>1 DEF Mounted
<1>3. \A s \in Slots : \A k \in DOMAIN lists[s] : lists[s][k] \in Seqs!ToSet(lists[s])
  BY DEF Seqs!ToSet
<1>4. \A s \in Slots : Seqs!ToSet(lists[s]) \subseteq Mounted
  BY DEF Mounted
<1> QED BY <1>2, <1>3, <1>4

\* One request moves on, nothing else changes.
LEMMA OneWalk ==
  ASSUME ChainInv, NEW r \in Walkers, NEW w \in Walks, MetOK(w), TrueOK(w),
         walk' = [walk EXCEPT ![r] = w], array' = array, segment' = segment,
         writer' = writer, lists' = lists
  PROVE  ChainInv'
<1>1. /\ walk' \in [Walkers -> Walks] /\ walk'[r] = w
      /\ \A q \in Walkers : q # r => walk'[q] = walk[q]
  BY DEF ChainInv, ChainTypeOK
<1>2. ASSUME NEW q \in Walkers
      PROVE  MetOK(walk[q])' /\ TrueOK(walk[q])'
  <2>1. MetOK(walk'[q]) /\ TrueOK(walk'[q])
    BY <1>1, WalkTyped
  <2> DEFINE y == walk'[q]
  <2>2. y = walk'[q] /\ array' = array /\ writer' = writer
    OBVIOUS
  <2> HIDE DEF y
  <2>3. MetOK(walk[q])'
    BY ONLY <2>1, <2>2 DEF MetOK, y
  <2>4. TrueOK(walk[q])'
    BY ONLY <2>1, <2>2 DEF TrueOK, y
  <2> QED BY <2>3, <2>4
<1>3. ListsTyped' /\ WriterTyped' /\ WriterOK' /\ ContentsOK'
  BY DEF ChainInv, ChainTypeOK, ListsTyped, WriterTyped, WriterOK, ContentsOK, ViewOK,
         Capacity, Apart, Aims
<1> QED BY <1>1, <1>2, <1>3 DEF ChainInv, ChainTypeOK

\* A cell of the view of a slot, and what the slot lists there.
Shows(cell, val) ==
  \E s \in Slots : /\ cell[1] = segment[s].arr /\ cell[2] \in 1 .. segment[s].len
                   /\ val = lists[s][cell[2]]

(***************************************************************************)
(* A request that takes views walks what is listed.                        *)
(***************************************************************************)
LEMMA TakeViewKeeps ==
  ASSUME ChainInv, NEW r \in Walkers, NEW from, NEW to \in {"front", "back"},
         NEW plan \in Seq(Nat \X Nat), NEW expected \in Seq(Handlers),
         TakeView(r, from, to, plan, expected),
         Len(expected) = Len(plan),
         \A i \in 1 .. Len(plan) : Shows(plan[i], expected[i])
  PROVE  ChainInv'
<1>1. /\ ~writer.busy /\ array' = array /\ segment' = segment /\ writer' = writer
      /\ lists' = lists
      /\ walk' = [walk EXCEPT ![r] =
                     [phase |-> to, plan |-> plan, ran |-> <<>>, expected |-> expected,
                      met |-> Mounted, shifted |-> FALSE]]
  BY DEF TakeView
<1> DEFINE w == [phase |-> to, plan |-> plan, ran |-> <<>>, expected |-> expected,
                 met |-> Mounted, shifted |-> FALSE]
<1>2. /\ w \in Walks /\ w.phase # "outside" /\ w.plan = plan /\ w.ran = <<>>
      /\ w.expected = expected /\ w.met = Mounted /\ w.shifted = FALSE
  BY AllMounted, EmptySeq DEF Walks
<1> HIDE DEF w
<1>4. /\ writer.todo = <<>> /\ writer.publish = segment /\ writer.result = lists
      /\ Apart(segment)
  BY <1>1 DEF ChainInv, WriterOK
<1>5. array \in Seq(Seq(CellValues)) /\ Len(array) \in Nat /\ DOMAIN array = 1 .. Len(array)
  BY DEF ChainInv, ChainTypeOK
<1>6. ASSUME NEW i \in DOMAIN plan
      PROVE  /\ plan[i][1] \in DOMAIN array /\ plan[i][2] \in DOMAIN array[plan[i][1]]
             /\ array[plan[i][1]][plan[i][2]] = expected[i]
             /\ expected[i] \in Mounted
             /\ \A q \in Slots : plan[i][1] = segment[q].arr => plan[i][2] <= segment[q].len
  <2> DEFINE a == plan[i][1]
             k == plan[i][2]
  <2>1. PICK s \in Slots : a = segment[s].arr /\ k \in 1 .. segment[s].len
                           /\ expected[i] = lists[s][k]
    <3>1. i \in 1 .. Len(plan)
      OBVIOUS
    <3>2. Shows(plan[i], expected[i])
      BY <3>1
    <3> QED BY <3>2 DEF Shows
  <2>2. /\ segment[s] \in Views /\ lists[s] \in Seq(Handlers) /\ ViewOK(segment[s])
        /\ Len(lists[s]) = segment[s].len
        /\ \A j \in 1 .. segment[s].len : array[segment[s].arr][j] = lists[s][j]
    BY <1>1, Settled
  <2> HIDE DEF a, k
  <2>3. segment[s].arr \in Nat /\ segment[s].len \in Nat
    BY <2>2 DEF Views
  <2>4. a # 0 /\ a \in DOMAIN array /\ segment[s].len <= Len(array[a])
    <3>1. segment[s].arr # 0
      BY <2>1, <2>2, <2>3 DEF ViewOK, Capacity
    <3> QED BY <1>5, <2>1, <2>2, <2>3, <3>1 DEF ViewOK, Capacity
  <2>5. k \in DOMAIN array[a]
    <3>1. Len(array[a]) \in Nat /\ DOMAIN array[a] = 1 .. Len(array[a])
      BY <1>5, <2>4
    <3> QED BY <2>1, <2>3, <2>4, <3>1
  <2>6. array[a][k] = expected[i]
    BY <2>1, <2>2
  <2>7. expected[i] \in Mounted
    <3>1. k \in DOMAIN lists[s]
      BY <2>1, <2>2
    <3> QED BY <2>1, <3>1, AllMounted
  <2>8. \A q \in Slots : a = segment[q].arr => k <= segment[q].len
    <3>1. \A q \in Slots : a = segment[q].arr => q = s
      BY <1>4, <2>1, <2>4 DEF Apart
    <3> QED BY <2>1, <2>3, <3>1
  <2> QED BY <2>4, <2>5, <2>6, <2>7, <2>8 DEF a, k
<1>7. DOMAIN plan = 1 .. Len(plan) /\ Len(plan) \in Nat
  OBVIOUS
<1>8. MetOK(w)
  <2>1. \A s \in Slots : \A k \in DOMAIN writer.result[s] : writer.result[s][k] \in w.met
    BY <1>2, <1>4, AllMounted
  <2>2. \A i \in DOMAIN w.plan : /\ w.plan[i][1] \in DOMAIN array
                                 /\ w.plan[i][2] \in DOMAIN array[w.plan[i][1]]
                                 /\ array[w.plan[i][1]][w.plan[i][2]] \in w.met \cup {Torn}
    BY <1>2, <1>6
  <2> QED BY <1>2, <2>1, <2>2 DEF MetOK
<1>9. TrueOK(w)
  <2>1. \A i \in DOMAIN plan : Len(w.ran) + i = i
    BY <1>2, <1>7
  <2>2. Len(w.ran) + Len(w.plan) <= Len(w.expected)
    BY <1>2, <1>7
  <2>3. \A i \in DOMAIN w.plan : array[w.plan[i][1]][w.plan[i][2]] = w.expected[Len(w.ran) + i]
    BY <1>2, <1>6, <2>1
  <2>4. \A i \in DOMAIN w.plan, s \in Slots :
          w.plan[i][1] = writer.publish[s].arr => w.plan[i][2] <= writer.publish[s].len
    BY <1>2, <1>4, <1>6
  <2> QED BY <1>2, <1>4, <2>2, <2>3, <2>4 DEF TrueOK
<1> QED BY <1>1, <1>2, <1>8, <1>9, OneWalk DEF w

\* The cells of the view of a slot.
LEMMA CellsOf ==
  ASSUME ChainInv, ~writer.busy, NEW s \in Slots
  PROVE  /\ Cells(segment[s]) \in Seq(Nat \X Nat) /\ lists[s] \in Seq(Handlers)
         /\ Len(Cells(segment[s])) = Len(lists[s])
         /\ \A k \in 1 .. Len(lists[s]) : Shows(Cells(segment[s])[k], lists[s][k])
<1>1. /\ segment[s].arr \in Nat /\ segment[s].len \in Nat /\ lists[s] \in Seq(Handlers)
      /\ Len(lists[s]) = segment[s].len
  BY Settled DEF Views
<1> DEFINE c == Cells(segment[s])
<1>2. c = [k \in 1 .. segment[s].len |-> <<segment[s].arr, k>>]
  BY DEF Cells
<1>3. \A k \in 1 .. segment[s].len : <<segment[s].arr, k>> \in Nat \X Nat
  BY <1>1
<1>4. c \in Seq(Nat \X Nat) /\ Len(c) = segment[s].len
  BY <1>1, <1>2, <1>3
<1>5. ASSUME NEW k \in 1 .. segment[s].len
      PROVE  Shows(c[k], lists[s][k])
  <2>1. c[k] = <<segment[s].arr, k>>
    BY <1>2
  <2>2. c[k][1] = segment[s].arr /\ c[k][2] = k
    BY <2>1
  <2> QED BY <2>2 DEF Shows
<1> QED BY <1>1, <1>4, <1>5

LEMMA ExecuteKeeps ==
  ASSUME ChainInv, NEW r \in Walkers, Execute(r)
  PROVE  ChainInv'
<1> DEFINE c == Cells(segment["head"])
           d == Cells(segment["middle"])
           e == lists["head"]
           f == lists["middle"]
<1>1. TakeView(r, "outside", "front", c \o d, e \o f) /\ ~writer.busy
  BY DEF Execute, TakeView
<1>2. "head" \in Slots /\ "middle" \in Slots
  BY DEF Slots
<1>3. /\ c \in Seq(Nat \X Nat) /\ e \in Seq(Handlers) /\ Len(c) = Len(e)
      /\ \A k \in 1 .. Len(e) : Shows(c[k], e[k])
      /\ d \in Seq(Nat \X Nat) /\ f \in Seq(Handlers) /\ Len(d) = Len(f)
      /\ \A k \in 1 .. Len(f) : Shows(d[k], f[k])
  BY <1>1, <1>2, CellsOf
<1> HIDE DEF c, d, e, f
<1>4. /\ c \o d \in Seq(Nat \X Nat) /\ Len(c \o d) = Len(e) + Len(f)
      /\ \A i \in 1 .. Len(e) + Len(f) :
           (c \o d)[i] = IF i <= Len(e) THEN c[i] ELSE d[i - Len(e)]
  <2>1. /\ c \o d \in Seq(Nat \X Nat) /\ Len(c \o d) = Len(c) + Len(d)
        /\ \A i \in 1 .. Len(c) + Len(d) :
             (c \o d)[i] = IF i <= Len(c) THEN c[i] ELSE d[i - Len(c)]
    BY ONLY <1>3, ConcatProperties
  <2>2. Len(c) = Len(e) /\ Len(d) = Len(f)
    BY <1>3
  <2> QED BY ONLY <2>1, <2>2
<1>5. /\ e \o f \in Seq(Handlers) /\ Len(e \o f) = Len(e) + Len(f)
      /\ \A i \in 1 .. Len(e) + Len(f) :
           (e \o f)[i] = IF i <= Len(e) THEN e[i] ELSE f[i - Len(e)]
  BY <1>3, ConcatProperties
<1>6. ASSUME NEW i \in 1 .. Len(c \o d)
      PROVE  Shows((c \o d)[i], (e \o f)[i])
  <2>1. i \in 1 .. Len(e) + Len(f) /\ Len(e) \in Nat /\ Len(f) \in Nat
    BY <1>3, <1>4
  <2>2. CASE i <= Len(e)
    <3>1. i \in 1 .. Len(e) /\ (c \o d)[i] = c[i] /\ (e \o f)[i] = e[i]
      BY <1>4, <1>5, <2>1, <2>2
    <3> QED BY <1>3, <3>1
  <2>3. CASE ~(i <= Len(e))
    <3>1. /\ i - Len(e) \in 1 .. Len(f) /\ (c \o d)[i] = d[i - Len(e)]
          /\ (e \o f)[i] = f[i - Len(e)]
      BY <1>4, <1>5, <2>1, <2>3
    <3> QED BY <1>3, <3>1
  <2> QED BY <2>2, <2>3
<1>7. Len(e \o f) = Len(c \o d)
  BY <1>4, <1>5
<1> QED BY <1>1, <1>4, <1>5, <1>6, <1>7, TakeViewKeeps

\* What is true of a sequence from the front is true from the back.
LEMMA Reversed ==
  ASSUME NEW S, NEW seq \in Seq(S)
  PROVE  /\ Seqs!Reverse(seq) \in Seq(S) /\ Len(Seqs!Reverse(seq)) = Len(seq)
         /\ \A i \in 1 .. Len(seq) : /\ Len(seq) - i + 1 \in 1 .. Len(seq)
                                     /\ Seqs!Reverse(seq)[i] = seq[Len(seq) - i + 1]
<1>1. Seqs!Reverse(seq) = [i \in 1 .. Len(seq) |-> seq[(Len(seq) - i) + 1]]
  BY DEF Seqs!Reverse
<1>2. Len(seq) \in Nat /\ \A i \in 1 .. Len(seq) : Len(seq) - i + 1 \in 1 .. Len(seq)
  OBVIOUS
<1>3. \A i \in 1 .. Len(seq) : seq[Len(seq) - i + 1] \in S
  BY <1>2
<1> QED BY <1>1, <1>2, <1>3

LEMMA HooksKeep ==
  ASSUME ChainInv, NEW r \in Walkers, ResponseHooks(r)
  PROVE  ChainInv'
<1> DEFINE c == Cells(segment["tail"])
           e == lists["tail"]
<1>1. TakeView(r, "front", "back", Seqs!Reverse(c), Seqs!Reverse(e)) /\ ~writer.busy
  BY DEF ResponseHooks, TakeView
<1>2. /\ c \in Seq(Nat \X Nat) /\ e \in Seq(Handlers) /\ Len(c) = Len(e)
      /\ \A k \in 1 .. Len(e) : Shows(c[k], e[k])
  BY <1>1, CellsOf DEF Slots
<1> HIDE DEF c, e
<1>3. /\ Seqs!Reverse(c) \in Seq(Nat \X Nat) /\ Seqs!Reverse(e) \in Seq(Handlers)
      /\ Len(Seqs!Reverse(c)) = Len(e) /\ Len(Seqs!Reverse(e)) = Len(e)
      /\ \A i \in 1 .. Len(e) : /\ Len(e) - i + 1 \in 1 .. Len(e)
                                /\ Seqs!Reverse(c)[i] = c[Len(e) - i + 1]
                                /\ Seqs!Reverse(e)[i] = e[Len(e) - i + 1]
  BY <1>2, Reversed
<1>4. \A i \in 1 .. Len(Seqs!Reverse(c)) : Shows(Seqs!Reverse(c)[i], Seqs!Reverse(e)[i])
  BY <1>2, <1>3
<1> QED BY <1>1, <1>3, <1>4, TakeViewKeeps

\* What has run is no more than what was to run.
LEMMA RanIsLess ==
  ASSUME NEW ran, NEW plan, NEW items,
         Len(ran) \in Nat, Len(plan) \in Nat, Len(items) \in Nat,
         Len(ran) + Len(plan) <= Len(items)
  PROVE  Len(ran) <= Len(items)
OBVIOUS

LEMMA VisitKeeps ==
  ASSUME ChainInv, NEW r \in Walkers, Visit(r)
  PROVE  ChainInv'
<1> DEFINE u == walk[r]
           val == array[Head(u.plan)[1]][Head(u.plan)[2]]
           gone == [u EXCEPT !.plan = Tail(u.plan), !.ran = Append(u.ran, val)]
           ended == [u EXCEPT !.plan = <<>>, !.ran = Append(u.ran, val), !.phase = "answered"]
<1>1. /\ u.plan # <<>> /\ array' = array /\ segment' = segment /\ writer' = writer
      /\ lists' = lists
      /\ \/ walk' = [walk EXCEPT ![r] = gone]
         \/ walk' = [walk EXCEPT ![r] = ended]
  <2>1. /\ u.plan # <<>> /\ array' = array /\ segment' = segment /\ writer' = writer
        /\ lists' = lists
    BY DEF Visit
  <2>2. \/ walk' = [walk EXCEPT ![r] = gone]
        \/ walk' = [walk EXCEPT ![r] = ended]
    BY Zenon DEF Visit
  <2> QED BY <2>1, <2>2
<1>2. u \in Walks /\ MetOK(u) /\ TrueOK(u)
  BY WalkTyped
<1> HIDE DEF u
<1>3. /\ u.plan \in Seq(Nat \X Nat) /\ u.ran \in Seq(CellValues) /\ u.met \in SUBSET Handlers
      /\ u.expected \in Seq(Handlers)
  BY <1>2 DEF Walks
<1>4. /\ Head(u.plan) = u.plan[1] /\ 1 \in DOMAIN u.plan /\ Len(u.plan) \in Nat
      /\ Tail(u.plan) \in Seq(Nat \X Nat) /\ Len(Tail(u.plan)) = Len(u.plan) - 1
      /\ DOMAIN u.plan = 1 .. Len(u.plan)
      /\ \A i \in 1 .. Len(u.plan) - 1 : Tail(u.plan)[i] = u.plan[i + 1]
  BY <1>1, <1>3, HeadTailProperties
<1>5. val \in u.met \cup {Torn} /\ val \in CellValues /\ u.phase # "outside"
  BY <1>1, <1>2, <1>3, <1>4 DEF MetOK, CellValues
<1>6. ~u.shifted => val = u.expected[Len(u.ran) + 1]
  BY <1>2, <1>4 DEF TrueOK
<1> HIDE DEF val
<1>7. /\ Append(u.ran, val) \in Seq(CellValues) /\ Len(Append(u.ran, val)) = Len(u.ran) + 1
      /\ Append(u.ran, val)[Len(u.ran) + 1] = val /\ Len(u.ran) \in Nat
      /\ \A i \in 1 .. Len(u.ran) : Append(u.ran, val)[i] = u.ran[i]
      /\ DOMAIN Append(u.ran, val) = 1 .. Len(u.ran) + 1
  BY <1>3, <1>5, AppendProperties
<1>8. ASSUME NEW w \in Walks, w.ran = Append(u.ran, val), w.phase # "outside",
             w.expected = u.expected, w.met = u.met, w.shifted = u.shifted,
             Len(w.plan) <= Len(u.plan) - 1,
             \A i \in 1 .. Len(w.plan) : w.plan[i] = u.plan[i + 1]
      PROVE  MetOK(w) /\ TrueOK(w)
  <2>1. DOMAIN w.plan = 1 .. Len(w.plan) /\ Len(w.plan) \in Nat
    BY DEF Walks
  <2>0. Len(w.ran) = Len(u.ran) + 1 /\ Len(u.ran) \in Nat /\ Len(w.plan) <= Len(u.plan) - 1
    BY <1>7, <1>8
  <2>l. /\ Len(w.expected) \in Nat
        /\ Len(u.ran) + Len(u.plan) <= Len(w.expected) => Len(w.ran) + Len(w.plan) <= Len(w.expected)
        /\ \A i \in 1 .. Len(w.plan) : /\ i \in Nat /\ i + 1 \in 1 .. Len(u.plan)
                                      /\ Len(w.ran) + i = Len(u.ran) + (i + 1)
    <3>1. Len(w.expected) \in Nat
      BY DEF Walks
    <3>2. PICK a, b, c, d, e : /\ a = Len(u.ran) /\ b = Len(u.plan) /\ c = Len(w.ran)
                               /\ d = Len(w.plan) /\ e = Len(w.expected)
      OBVIOUS
    <3>3. a \in Nat /\ b \in Nat /\ d \in Nat /\ e \in Nat /\ c = a + 1 /\ d <= b - 1
      BY <1>4, <2>0, <2>1, <3>1, <3>2
    <3>4. /\ a + b <= e => c + d <= e
          /\ \A i \in 1 .. d : i \in Nat /\ i + 1 \in 1 .. b /\ c + i = a + (i + 1)
      BY ONLY <3>3
    <3> QED BY ONLY <3>1, <3>2, <3>4, Zenon
  <2>2. ASSUME NEW i \in DOMAIN w.plan
        PROVE  i + 1 \in DOMAIN u.plan /\ w.plan[i] = u.plan[i + 1] /\ i \in Nat
    BY <1>4, <1>8, <2>1, <2>l
  <2>3. \A i \in DOMAIN w.ran : i \in DOMAIN u.ran \/ (i = Len(u.ran) + 1 /\ w.ran[i] = val)
    BY <1>3, <1>7, <1>8
  <2>4. \A i \in DOMAIN u.ran : w.ran[i] = u.ran[i]
    BY <1>3, <1>7, <1>8
  <2>5. MetOK(w)
    <3>1. \A s \in Slots : \A k \in DOMAIN writer.result[s] : writer.result[s][k] \in w.met
      BY <1>2, <1>5, <1>8 DEF MetOK
    <3>2. \A i \in DOMAIN w.plan : /\ w.plan[i][1] \in DOMAIN array
                                   /\ w.plan[i][2] \in DOMAIN array[w.plan[i][1]]
                                   /\ array[w.plan[i][1]][w.plan[i][2]] \in w.met \cup {Torn}
      BY <1>2, <1>8, <2>2 DEF MetOK
    <3>3. \A i \in DOMAIN w.ran : w.ran[i] \in w.met \cup {Torn}
      BY <1>2, <1>5, <1>8, <2>3, <2>4 DEF MetOK
    <3> QED BY <1>8, <3>1, <3>2, <3>3 DEF MetOK
  <2>6. TrueOK(w)
    <3> SUFFICES ASSUME ~w.shifted PROVE TrueOK(w)
      BY DEF TrueOK
    <3>1. /\ \A i \in DOMAIN u.plan, s \in Slots :
               u.plan[i][1] = writer.publish[s].arr => u.plan[i][2] <= writer.publish[s].len
          /\ \A i \in DOMAIN u.plan, j \in DOMAIN writer.todo :
               ~(u.plan[i][1] = writer.todo[j].arr /\ u.plan[i][2] = writer.todo[j].at)
          /\ Len(u.ran) + Len(u.plan) <= Len(u.expected)
          /\ \A i \in DOMAIN u.ran : u.ran[i] = u.expected[i]
          /\ \A i \in DOMAIN u.plan :
               array[u.plan[i][1]][u.plan[i][2]] = u.expected[Len(u.ran) + i]
      BY <1>2, <1>8 DEF TrueOK
    <3>2. \A i \in DOMAIN w.ran : w.ran[i] = w.expected[i]
      BY <1>6, <1>8, <2>3, <2>4, <3>1
    <3>3. Len(w.ran) + Len(w.plan) <= Len(w.expected)
      <4>1. Len(u.ran) + Len(u.plan) <= Len(w.expected)
        BY <1>8, <3>1
      <4> QED BY <2>l, <4>1
    <3>4. ASSUME NEW i \in DOMAIN w.plan
          PROVE  array[w.plan[i][1]][w.plan[i][2]] = w.expected[Len(w.ran) + i]
      <4>1. Len(w.ran) + i = Len(u.ran) + (i + 1)
        BY <2>1, <2>l
      <4> QED BY <1>8, <2>2, <3>1, <4>1
    <3>5. \A i \in DOMAIN w.plan, s \in Slots :
            w.plan[i][1] = writer.publish[s].arr => w.plan[i][2] <= writer.publish[s].len
      BY <2>2, <3>1
    <3>6. \A i \in DOMAIN w.plan, j \in DOMAIN writer.todo :
            ~(w.plan[i][1] = writer.todo[j].arr /\ w.plan[i][2] = writer.todo[j].at)
      BY <2>2, <3>1
    <3> QED BY <3>2, <3>3, <3>4, <3>5, <3>6 DEF TrueOK
  <2> QED BY <2>5, <2>6
<1>9. CASE walk' = [walk EXCEPT ![r] = gone]
  <2>1. gone \in Walks
    BY <1>2, <1>4, <1>7 DEF Walks
  <2>2. /\ gone.plan = Tail(u.plan) /\ gone.ran = Append(u.ran, val) /\ gone.phase = u.phase
        /\ gone.expected = u.expected /\ gone.met = u.met /\ gone.shifted = u.shifted
    BY <1>2 DEF Walks
  <2> HIDE DEF gone
  <2>3. MetOK(gone) /\ TrueOK(gone)
    <3>1. gone.ran = Append(u.ran, val) /\ gone.phase # "outside"
      BY <1>5, <2>2
    <3>2. /\ Len(gone.plan) <= Len(u.plan) - 1
          /\ \A i \in 1 .. Len(gone.plan) : gone.plan[i] = u.plan[i + 1]
      BY <1>4, <2>2
    <3> QED BY <1>8, <2>1, <2>2, <3>1, <3>2
  <2> QED BY <1>1, <1>9, <2>1, <2>3, OneWalk
<1>10. CASE walk' = [walk EXCEPT ![r] = ended]
  <2>1. ended \in Walks
    BY <1>2, <1>7, EmptySeq DEF Walks
  <2>2. /\ ended.plan = <<>> /\ ended.ran = Append(u.ran, val) /\ ended.phase = "answered"
        /\ ended.expected = u.expected /\ ended.met = u.met /\ ended.shifted = u.shifted
    BY <1>2 DEF Walks
  <2> HIDE DEF ended
  <2>3. Len(ended.plan) <= Len(u.plan) - 1 /\ \A i \in 1 .. Len(ended.plan) : ended.plan[i] = u.plan[i + 1]
    BY <1>4, <2>2
  <2>4. MetOK(ended) /\ TrueOK(ended)
    BY <1>8, <2>1, <2>2, <2>3
  <2> QED BY <1>1, <1>10, <2>1, <2>4, OneWalk
<1> QED BY <1>1, <1>9, <1>10

LEMMA LeaveKeeps ==
  ASSUME ChainInv, NEW r \in Walkers, Leave(r)
  PROVE  ChainInv'
<1>1. /\ walk' = [walk EXCEPT ![r] = NotWalking] /\ array' = array /\ segment' = segment
      /\ writer' = writer /\ lists' = lists
  BY DEF Leave
<1>2. NotWalking \in Walks /\ MetOK(NotWalking) /\ TrueOK(NotWalking)
  BY DEF NotWalking, Walks, MetOK, TrueOK
<1> QED BY <1>1, <1>2, OneWalk

LEMMA ChainStep == ChainInv /\ [ChainNext]_chainVars => ChainInv'
<1> SUFFICES ASSUME ChainInv, [ChainNext]_chainVars PROVE ChainInv'
  OBVIOUS
<1>1. ASSUME NEW m \in Handlers, Add(m) PROVE ChainInv'
  BY <1>1, AddKeeps
<1>2. ASSUME NEW m \in Removable, Remove(m) PROVE ChainInv'
  BY <1>2, ChainAssumption, RemoveKeeps
<1>3. ASSUME NEW s \in Slots, NEW items \in Replacements, Replace(s, items) PROVE ChainInv'
  BY <1>3, ReplaceKeeps
<1>4. CASE WriteCell
  BY <1>4, WriteCellKeeps
<1>5. CASE Unlock
  BY <1>5, UnlockKeeps
<1>6. ASSUME NEW r \in Walkers, Execute(r) \/ ResponseHooks(r) \/ Visit(r) \/ Leave(r)
      PROVE  ChainInv'
  BY <1>6, ExecuteKeeps, HooksKeep, VisitKeeps, LeaveKeeps
<1>7. CASE UNCHANGED chainVars
  <2>1. /\ array' = array /\ segment' = segment /\ writer' = writer /\ walk' = walk
        /\ lists' = lists
    BY <1>7 DEF chainVars
  <2> QED BY <2>1 DEF ChainInv, ChainTypeOK, ListsTyped, WriterTyped, WriterOK, ContentsOK,
                      ViewOK, Capacity, Apart, Aims, MetOK, TrueOK
<1> QED BY <1>1, <1>2, <1>3, <1>4, <1>5, <1>6, <1>7 DEF ChainNext

LEMMA InvRunsItsSnapshot == ChainInv => RunsItsSnapshot
<1> SUFFICES ASSUME ChainInv PROVE RunsItsSnapshot
  OBVIOUS
<1>1. ASSUME NEW r \in Walkers
      PROVE  Seqs!ToSet(walk[r].ran) \subseteq walk[r].met \cup {Torn}
  BY WalkTyped DEF MetOK, Seqs!ToSet
<1>2. ASSUME NEW r \in Walkers, ~walk[r].shifted
      PROVE  Seqs!IsPrefix(walk[r].ran, walk[r].expected)
  <2> DEFINE u == walk[r]
  <2>1. u \in Walks /\ TrueOK(u)
    BY WalkTyped
  <2> HIDE DEF u
  <2>2. u.ran \in Seq(CellValues) /\ u.expected \in Seq(Handlers) /\ u.plan \in Seq(Nat \X Nat)
    BY <2>1 DEF Walks
  <2>3. /\ Len(u.ran) + Len(u.plan) <= Len(u.expected)
        /\ \A i \in DOMAIN u.ran : u.ran[i] = u.expected[i]
    BY <1>2, <2>1 DEF TrueOK, u
  <2>4. Len(u.ran) <= Len(u.expected) /\ \A i \in 1 .. Len(u.ran) : u.ran[i] = u.expected[i]
    <3>1. Len(u.ran) \in Nat /\ Len(u.plan) \in Nat /\ Len(u.expected) \in Nat
      BY <2>2
    <3>2. DOMAIN u.ran = 1 .. Len(u.ran)
      BY <2>2
    <3>3. Len(u.ran) <= Len(u.expected)
      BY ONLY <2>3, <3>1, RanIsLess
    <3> QED BY <2>3, <3>2, <3>3
  <2>5. SubSeq(u.ran, 1, Len(u.ran)) = SubSeq(u.expected, 1, Len(u.ran))
    BY <2>2, <2>4
  <2> QED BY <2>4, <2>5 DEF Seqs!IsPrefix, u
<1> QED BY <1>1, <1>2 DEF RunsItsSnapshot, OnlyMounted

\* A request runs the middlewares it found at its snapshot, each once and in their
\* order, unless a removal shifted a list under it, and even then nothing that was
\* not mounted at the snapshot or since (Chain.Execute and ResponseHooks walk the
\* shared arrays without the lock): for every set of middlewares, requests and
\* replacements and every number of changes.
THEOREM RunsItsSnapshotHolds == ChainSpec => []RunsItsSnapshot
<1>1. ChainInit => ChainInv
  BY ChainStart
<1>2. ChainInv /\ [ChainNext]_chainVars => ChainInv'
  BY ChainStep
<1> QED BY <1>1, <1>2, InvRunsItsSnapshot, PTL DEF ChainSpec

-----------------------------------------------------------------------------
(***************************************************************************)
(*                                                                         *)
(* Part three: the Lua engine.                                             *)
(*                                                                         *)
(***************************************************************************)

Snapshots ==
  [live : [Names -> Nat], history : [Names -> SUBSET Nat], next : Nat \ {0}]

EngineTypeOK ==
  /\ scripts \in Snapshots
  /\ publisher \in [Publishers -> [at : {"out", Compiling}, name : Nat, seen : Snapshots]]
  /\ \A p \in Publishers : publisher[p].at = Compiling => publisher[p].name \in Names
  /\ answered \subseteq Names \X Nat

\* The numbers given away are below the next one, which is why a new version
\* never gets the number of an answered one.
NumbersBelow == \A a \in answered : a[2] < scripts.next

EngineInv == EngineTypeOK /\ NumbersBelow /\ PublishesKept

LEMMA NewSnapshotType == NewSnapshot \in Snapshots
BY DEF NewSnapshot, Snapshots, NoVersion

LEMMA EngineInvInit == ScriptsInit => EngineInv
<1> SUFFICES ASSUME ScriptsInit PROVE EngineInv
  OBVIOUS
<1>1. /\ scripts = NewSnapshot /\ answered = {}
      /\ publisher = [p \in Publishers |-> Outside]
  BY DEF ScriptsInit, EngineInit
<1>2. Outside \in [at : {"out", Compiling}, name : Nat, seen : Snapshots]
  BY NewSnapshotType DEF Outside
<1>3. Outside.at # Compiling
  BY DEF Outside, Compiling
<1> QED BY <1>1, <1>2, <1>3, NewSnapshotType DEF EngineInv, EngineTypeOK, NumbersBelow, PublishesKept

-----------------------------------------------------------------------------
(***************************************************************************)
(* A publication (script.go, Publish under the lock) adds its version to   *)
(* the snapshot as it is then, not as it was before the compilation.       *)
(***************************************************************************)
LEMMA PublishKeeps ==
  ASSUME EngineInv, NEW p \in Publishers, Publish(p)
  PROVE  EngineInv'
<1> DEFINE n == publisher[p].name
<1> USE DEF EngineInv
<1>1. n \in Names /\ scripts \in Snapshots
  BY DEF EngineTypeOK, Publish
<1>2. /\ scripts' = With(scripts, n)
      /\ answered' = answered \union {<<n, scripts.next>>}
      /\ publisher' = [publisher EXCEPT ![p] = Outside]
  BY DEF Publish, StoreSnapshot
<1>3. /\ With(scripts, n) \in Snapshots
      /\ With(scripts, n).next = scripts.next + 1
      /\ scripts.next \in With(scripts, n).history[n]
      /\ \A m \in Names : scripts.history[m] \subseteq With(scripts, n).history[m]
  BY <1>1 DEF With, Snapshots
<1>4. EngineTypeOK'
  <2>1. publisher' \in [Publishers -> [at : {"out", Compiling}, name : Nat, seen : Snapshots]]
    BY <1>2, NewSnapshotType DEF EngineTypeOK, Outside
  <2>2. \A q \in Publishers : publisher'[q].at = Compiling => publisher'[q].name \in Names
    BY <1>2 DEF EngineTypeOK, Outside, Compiling
  <2>3. answered' \subseteq Names \X Nat
    BY <1>1, <1>2 DEF EngineTypeOK, Snapshots
  <2> QED BY <1>2, <1>3, <2>1, <2>2, <2>3 DEF EngineTypeOK
<1>5. NumbersBelow'
  BY <1>1, <1>2, <1>3 DEF NumbersBelow, EngineTypeOK, Snapshots
<1>6. PublishesKept'
  <2>1. ASSUME NEW a \in answered'
        PROVE  a[2] \in scripts'.history[a[1]]
    <3>1. CASE a \in answered
      BY <1>2, <1>3, <3>1 DEF PublishesKept, EngineTypeOK
    <3>2. CASE a = <<n, scripts.next>>
      BY <1>2, <1>3, <3>2
    <3> QED BY <1>2, <3>1, <3>2
  <2>2. ASSUME NEW a \in answered', NEW b \in answered', a[2] = b[2]
        PROVE  a = b
    <3>1. \A c \in answered : c[2] # scripts.next
      BY <1>1 DEF NumbersBelow, EngineTypeOK, Snapshots
    <3>2. CASE a \in answered /\ b \in answered
      BY <2>2, <3>2 DEF PublishesKept
    <3>3. CASE a = <<n, scripts.next>> \/ b = <<n, scripts.next>>
      BY <1>2, <2>2, <3>1, <3>3
    <3> QED BY <1>2, <3>2, <3>3
  <2> QED BY <2>1, <2>2 DEF PublishesKept
<1> QED BY <1>4, <1>5, <1>6

LEMMA EngineInvStep == EngineInv /\ [ScriptsNext]_scriptsVars => EngineInv'
<1> SUFFICES ASSUME EngineInv, [ScriptsNext]_scriptsVars PROVE EngineInv'
  OBVIOUS
<1> USE DEF EngineInv
<1>1. CASE UNCHANGED engineVars
  BY <1>1 DEF engineVars, EngineTypeOK, NumbersBelow, PublishesKept
<1>2. ASSUME NEW p \in Publishers, Compile(p)
      PROVE  EngineInv'
  <2>1. EngineTypeOK'
    BY <1>2, EngineAssumption DEF Compile, EngineTypeOK, Call
  <2> QED BY <1>2, <2>1 DEF Compile, NumbersBelow, PublishesKept
<1>3. ASSUME NEW p \in Publishers, Refuse(p)
      PROVE  EngineInv'
  <2>1. EngineTypeOK'
    BY <1>3, NewSnapshotType DEF Refuse, EngineTypeOK, Outside, Compiling
  <2> QED BY <1>3, <2>1 DEF Refuse, NumbersBelow, PublishesKept
<1>4. ASSUME NEW p \in Publishers, Publish(p)
      PROVE  EngineInv'
  BY <1>4, PublishKeeps
<1>5. ASSUME NEW n \in Names, RemoveScript(n)
      PROVE  EngineInv'
  <2>1. /\ scripts' = [scripts EXCEPT !.live[n] = NoVersion, !.history[n] = {}]
        /\ answered' = {a \in answered : a[1] # n}
        /\ publisher' = publisher
    BY <1>5 DEF RemoveScript, StoreSnapshot
  <2>2. /\ scripts' \in Snapshots
        /\ scripts'.next = scripts.next
        /\ \A m \in Names \ {n} : scripts'.history[m] = scripts.history[m]
    BY <2>1 DEF EngineTypeOK, Snapshots, NoVersion
  <2>3. EngineTypeOK' /\ NumbersBelow'
    BY <2>1, <2>2 DEF EngineTypeOK, NumbersBelow
  <2>4. PublishesKept'
    BY <2>1, <2>2 DEF EngineTypeOK, PublishesKept
  <2> QED BY <2>3, <2>4
<1>6. ASSUME NEW n \in Names, NEW v \in 1 .. scripts.next, Rollback(n, v)
      PROVE  EngineInv'
  <2>1. /\ scripts' = [scripts EXCEPT !.live[n] = v]
        /\ UNCHANGED <<answered, publisher>>
    BY <1>6 DEF Rollback, StoreSnapshot
  <2>2. /\ scripts' \in Snapshots
        /\ scripts'.next = scripts.next /\ scripts'.history = scripts.history
    BY <2>1 DEF EngineTypeOK, Snapshots
  <2> QED BY <2>1, <2>2 DEF EngineTypeOK, NumbersBelow, PublishesKept
<1>7. CASE StartEngine
  BY <1>7 DEF StartEngine, StoreSnapshot, EngineTypeOK, NumbersBelow, PublishesKept
<1>8. CASE StopEngine
  BY <1>8, NewSnapshotType DEF StopEngine, StoreSnapshot, EngineTypeOK, NumbersBelow, PublishesKept
<1>9. ASSUME NEW r \in Executions, Begin(r) \/ Run(r) \/ Finish(r)
      PROVE  EngineInv'
  BY <1>9 DEF Begin, Run, Finish, EngineTypeOK, NumbersBelow, PublishesKept
<1> QED
  BY <1>1, <1>2, <1>3, <1>4, <1>5, <1>6, <1>7, <1>8, <1>9
  DEF ScriptsNext, EngineStep, scriptsVars, engineVars

(***************************************************************************)
(* Publications that were answered stay in the history of their script,    *)
(* whatever other administrators publish, roll back or remove beside them  *)
(* and whatever the hub of texts does.                                     *)
(***************************************************************************)
THEOREM PublishesKeptHolds == ScriptsSpec => []PublishesKept
<1>1. EngineInv => PublishesKept
  BY DEF EngineInv
<1> QED BY EngineInvInit, EngineInvStep, <1>1, PTL DEF ScriptsSpec

=============================================================================
