------------------------------- MODULE Chain -------------------------------
(***************************************************************************)
(* internal/chain: the three lists of middlewares of the gateway and the   *)
(* requests that walk them.  A list is a Go slice, a view of a backing     *)
(* array: writers hold the lock while they change array and view, requests *)
(* copy the view under the read lock and walk the array without a lock.    *)
(* A cell is an interface value of two words, so a read that meets a write *)
(* may return the type of one middleware with the data of another: Torn.   *)
(***************************************************************************)
EXTENDS Integers, Sequences, FiniteSets

CONSTANTS
  Handlers,       \* the middlewares that may be mounted
  SlotOf,         \* the slot each of them declares
  Removable,      \* those that Remove is called for
  Replacements,   \* the lists Replace may be called with
  Walkers,        \* the requests in flight
  Blank, Torn,    \* an unused cell, a torn read
  MaxChanges      \* bound: how many changes are made to the lists

Slots == {"head", "middle", "tail"}

ASSUME ChainAssumption ==
  /\ SlotOf \in [Handlers -> Slots]
  /\ Removable \subseteq Handlers
  /\ Replacements \subseteq Seq(Handlers)
  /\ {Blank, Torn} \cap Handlers = {} /\ Blank # Torn
  /\ MaxChanges \in Nat

VARIABLES
  array,     \* every backing array ever allocated
  segment,   \* c.segments: for each slot the array it views and its length
  writer,    \* the holder of the write lock: cells to write, views to publish
  walk,      \* each request: phase, cells still to read, what it has run
  lists,     \* history: what each slot should contain
  changes    \* bound counter

chainVars == <<array, segment, writer, walk, lists, changes>>

-----------------------------------------------------------------------------
Seqs == INSTANCE SequencesExt

\* The nil slice views no array.
NilView == [arr |-> 0, len |-> 0]

Content(view) == IF view.len = 0 THEN <<>> ELSE SubSeq(array[view.arr], 1, view.len)

Capacity(view) == IF view.arr = 0 THEN 0 ELSE Len(array[view.arr])

\* The cells of a view, in order.
Cells(view) == [k \in 1 .. view.len |-> <<view.arr, k>>]

\* plan is the snapshot a request walks; expected, met and shifted are history:
\* the contents at the snapshot, all that was mounted since, and whether
\* anything was removed since.
NotWalking == [phase |-> "outside", plan |-> <<>>, ran |-> <<>>,
            expected |-> <<>>, met |-> {}, shifted |-> FALSE]

Mounted == UNION {Seqs!ToSet(lists[s]) : s \in Slots}

\* A change of the lists is seen by every request that is walking.
Meet(mws) == [r \in Walkers |-> [walk[r] EXCEPT !.met = @ \cup mws]]

ChainInit ==
  /\ array = <<>>
  /\ segment = [s \in Slots |-> NilView]
  /\ lists = [s \in Slots |-> <<>>]
  /\ writer = [busy |-> FALSE, todo |-> <<>>, publish |-> segment,
               result |-> lists]
  /\ walk = [r \in Walkers |-> NotWalking]
  /\ changes = 0

-----------------------------------------------------------------------------
(* Writers: Add, Remove and Replace under c.mu.                            *)

Lock(todo, s, view, result) ==
  /\ ~ writer.busy /\ changes < MaxChanges
  /\ writer' = [busy |-> TRUE, todo |-> todo,
                publish |-> [segment EXCEPT ![s] = view],
                result |-> [lists EXCEPT ![s] = result]]
  /\ changes' = changes + 1
  /\ UNCHANGED <<segment, lists>>

\* append: into the array where its capacity allows, else into a copy of
\* twice the capacity that nobody else sees yet.
Add(m) ==
  LET s == SlotOf[m]
      view == segment[s]
      n == view.len + 1
      room == n <= Capacity(view)
      grown == [k \in 1 .. (IF view.len = 0 THEN 1 ELSE 2 * view.len) |->
                  IF k < n THEN Content(view)[k] ELSE IF k = n THEN m ELSE Blank]
      todo == IF room THEN <<[arr |-> view.arr, at |-> n, val |-> m]>> ELSE <<>>
      next == IF room THEN [view EXCEPT !.len = n]
                      ELSE [arr |-> Len(array) + 1, len |-> n]
  IN  /\ Lock(todo, s, next, Append(lists[s], m))
      /\ array' = IF room THEN array ELSE Append(array, grown)
      /\ walk' = Meet({m})

\* The loop over the list that appends to kept whatever is not m.
Kept(list, m) ==
  LET kept[n \in 0 .. Len(list)] ==
        IF n = 0 THEN <<>>
        ELSE IF list[n] = m THEN kept[n - 1] ELSE Append(kept[n - 1], list[n])
  IN  kept[Len(list)]

\* kept := list[:0]: what stays is moved to the front of the same array; the
\* cells behind the new length keep what they held.
Shift(s, m) ==
  LET view == segment[s]
      kept == Kept(Content(view), m)
  IN  [view |-> [view EXCEPT !.len = Len(kept)],
       todo |-> [k \in 1 .. Len(kept) |-> [arr |-> view.arr, at |-> k, val |-> kept[k]]],
       kept |-> kept]

\* An unknown name is an error and changes nothing.
Remove(m) ==
  LET s == SlotOf[m]
      shifted == Shift(s, m)
  IN  /\ m \in Seqs!ToSet(Content(segment[s]))
      /\ Lock(shifted.todo, s, shifted.view, shifted.kept)
      /\ walk' = [r \in Walkers |-> [walk[r] EXCEPT
                       !.shifted = @ \/ walk[r].plan # <<>>]]
      /\ UNCHANGED array

\* Replace: the slot takes over the caller's list.
Replace(s, list) ==
  /\ Lock(<<>>, s, [arr |-> Len(array) + 1, len |-> Len(list)], list)
  /\ array' = Append(array, list)
  /\ walk' = Meet(Seqs!ToSet(list))

\* A cell is written in two steps, one word each; the words it holds already
\* make no difference.
WriteCell ==
  /\ writer.todo # <<>>
  /\ LET w == Head(writer.todo) IN
     IF array[w.arr][w.at] \notin {Torn, w.val}
       THEN /\ array' = [array EXCEPT ![w.arr][w.at] = Torn]
            /\ UNCHANGED writer
       ELSE /\ array' = [array EXCEPT ![w.arr][w.at] = w.val]
            /\ writer' = [writer EXCEPT !.todo = Tail(@)]
  /\ UNCHANGED <<segment, walk, lists, changes>>

\* The view is stored and the lock released.
Unlock ==
  /\ writer.busy /\ writer.todo = <<>>
  /\ segment' = writer.publish
  /\ lists' = writer.result
  /\ writer' = [busy |-> FALSE, todo |-> <<>>, publish |-> segment',
                result |-> lists']
  /\ UNCHANGED <<array, walk, changes>>

-----------------------------------------------------------------------------
(* Requests: Execute before the forwarding, the response hooks after it.   *)

TakeView(r, from, to, plan, expected) ==
  /\ ~ writer.busy
  /\ walk[r].phase = from
  /\ walk' = [walk EXCEPT ![r] =
                   [phase |-> to, plan |-> plan, ran |-> <<>>,
                    expected |-> expected, met |-> Mounted, shifted |-> FALSE]]
  /\ UNCHANGED <<array, segment, writer, lists, changes>>

\* Mutant: the walk runs over the whole backing array.
ExecuteToCapacity(r) ==
  TakeView(r, "outside", "front",
        Cells([segment["head"] EXCEPT !.len = Capacity(segment["head"])])
          \o Cells(segment["middle"]),
        lists["head"] \o lists["middle"])

\* Execute: both lists are copied under one read lock.
Execute(r) ==
  TakeView(r, "outside", "front",
        Cells(segment["head"]) \o Cells(segment["middle"]),
        lists["head"] \o lists["middle"])

\* ResponseHooks(Tail): last registered first.
ResponseHooks(r) ==
  /\ walk[r].plan = <<>>
  /\ TakeView(r, "front", "back", Seqs!Reverse(Cells(segment["tail"])),
           Seqs!Reverse(lists["tail"]))

\* The next cell is read, with no lock, and what it holds is run.  In front
\* of the forwarding a middleware may end the request; a hook cannot.
Visit(r) ==
  /\ walk[r].plan # <<>>
  /\ LET w == walk[r]
         cell == Head(w.plan)
         ran == Append(w.ran, array[cell[1]][cell[2]])
     IN  \/ walk' = [walk EXCEPT ![r] = [w EXCEPT !.plan = Tail(w.plan), !.ran = ran]]
         \/ /\ w.phase = "front"
            /\ walk' = [walk EXCEPT ![r] = [w EXCEPT !.plan = <<>>, !.ran = ran,
                                                     !.phase = "answered"]]
  /\ UNCHANGED <<array, segment, writer, lists, changes>>

\* The request leaves; its place serves another one.
Leave(r) ==
  /\ walk[r].phase \in {"answered", "back"} /\ walk[r].plan = <<>>
  /\ walk' = [walk EXCEPT ![r] = NotWalking]
  /\ UNCHANGED <<array, segment, writer, lists, changes>>

ChainNext ==
  \/ \E m \in Handlers : Add(m)
  \/ \E m \in Removable : Remove(m)
  \/ \E s \in Slots, list \in Replacements : Replace(s, list)
  \/ WriteCell \/ Unlock
  \/ \E r \in Walkers : Execute(r) \/ ResponseHooks(r) \/ Visit(r) \/ Leave(r)

ChainSpec == ChainInit /\ [][ChainNext]_chainVars

-----------------------------------------------------------------------------
\* What a request runs was mounted when it took its snapshot or since.
OnlyMounted ==
  \A r \in Walkers : Seqs!ToSet(walk[r].ran) \subseteq walk[r].met \cup {Torn}

\* A request runs the middlewares it found at its snapshot, each once and in
\* their order, while the lists grow or are replaced as a whole: append never
\* writes into a cell that an older view still shows.  If a list was shifted
\* under it, it still runs nothing that was not mounted then or since: the
\* cells behind the end of a list never come back to life.
RunsItsSnapshot ==
  OnlyMounted /\ \A r \in Walkers : \/ walk[r].shifted
                      \/ Seqs!IsPrefix(walk[r].ran, walk[r].expected)

=============================================================================
