------------------------------- MODULE Buffers -------------------------------
(***************************************************************************)
(* The tiles one instance of the tile store keeps in memory until they are *)
(* published, over all its zones (crates/tuile-tile-server/src/store.rs):  *)
(* what a put counts and freezes, flush_due and flush_all, the zone's lock *)
(* a flush waits for, and what a failed or dropped flush puts back.        *)
(*                                                                         *)
(* ZoneStore shows how one zone is published; here a publication only ends *)
(* well or not.  A tile is its size.                                       *)
(*                                                                         *)
(* A definition whose name ends in _ and a word is the definition before   *)
(* the underscore with a bug; nothing here uses it.                        *)
(***************************************************************************)
EXTENDS Integers, SequencesExt

CONSTANTS
  Zone, Tile,
  ZoneOf,       \* the zone of each tile
  SizesOf,      \* the sizes each tile may come in
  Writer,       \* those that put tiles
  Upkeep,       \* those that call flush_due and flush_all
  Maintainer,   \* those that hold a zone's lock for something else
  FlushBytes,   \* StoreConfig::flush_bytes
  MaxBuffered,  \* StoreConfig::max_buffered_bytes
  FlushAge,     \* StoreConfig::flush_age
  AtOnce,       \* FLUSH_IN_FLIGHT
  MaxPuts,      \* bound on the puts
  MaxFaults     \* bound on the flushes that fail or are dropped

ASSUME SizesAssumption ==
  /\ ZoneOf \in [Tile -> Zone]
  /\ SizesOf \in [Tile -> SUBSET (Nat \ {0})] /\ FlushBytes \in Nat /\ MaxBuffered \in Nat \ {0}
  /\ FlushAge \in Nat /\ AtOnce \in Nat \ {0}
  /\ MaxPuts \in Nat /\ MaxFaults \in Nat
  /\ IsFiniteSet(Tile) /\ IsFiniteSet(Zone)

\* A call puts, flushes or maintains.
ASSUME RolesAssumption ==
  Writer \cap Upkeep = {} /\ (Writer \cup Upkeep) \cap Maintainer = {}

Process == Writer \cup Upkeep \cup Maintainer

VARIABLES
  pending,  \* Buffer::pending: the size of each tile there, 0 if it is not
  frozen,   \* Buffer::flushing
  bytes,    \* Buffer::bytes
  age,      \* since Buffer::since, 0 if it is None
  line,     \* zone_locks: who holds each zone, and who waits for it
  call,     \* what each process was asked for and has still to begin
  owed,     \* the tiles that were there when flush_all was called
  alone,    \* did no two puts overlap so far?
  puts, faults  \* what the bounds bound

vars == <<pending, frozen, bytes, age, line, call, owed, alone, puts, faults>>
buffers == <<pending, frozen, bytes, age>>

Idle == [op |-> "idle", todo |-> {}, ok |-> TRUE]

Init ==
  /\ pending = [t \in Tile |-> 0] /\ frozen = [t \in Tile |-> 0]
  /\ bytes = [z \in Zone |-> 0] /\ age = [z \in Zone |-> 0]
  /\ line = [z \in Zone |-> <<>>]
  /\ call = [p \in Process |-> Idle]
  /\ owed = [u \in Upkeep |-> {}]
  /\ alone = TRUE /\ puts = 0 /\ faults = 0

-----------------------------------------------------------------------------

In(z) == {t \in Tile : ZoneOf[t] = z}
Pending(z) == {t \in In(z) : pending[t] # 0}
Frozen(z) == {t \in In(z) : frozen[t] # 0}

Sizes(tiles, size) == MapThenSumSet(LAMBDA t : size[t], tiles)
Total(b) == MapThenSumSet(LAMBDA z : b[z], Zone)

\* The zones p waits for or holds.
Lines(p) == {z \in Zone : \E i \in DOMAIN line[z] : line[z][i] = p}
Holds(p, z) == line[z] # <<>> /\ Head(line[z]) = p

\* Times past flush_age are all alike.
Older(n) == IF n = 0 \/ n > FlushAge THEN n ELSE n + 1
Due(z) == Pending(z) # {} /\ (bytes[z] >= FlushBytes \/ age[z] > FlushAge)

Fault == faults < MaxFaults /\ faults' = faults + 1

-----------------------------------------------------------------------------
(* put_fetched                                                              *)

Full_AtOnceOnly(b, z) == IF b[z] >= FlushBytes THEN {z} ELSE {}

\* The zone to flush after a put in z: z if it is full, or one of the largest
\* if all of them together are.
Full(b, z) ==
  IF b[z] >= FlushBytes THEN {z}
  ELSE IF Total(b) >= MaxBuffered THEN {l \in Zone : \A k \in Zone : b[k] <= b[l]}
  ELSE {}

\* What a put adds: the tile it replaces is not counted any more.
Added(t, size) == size - pending[t]

Put(w, t, size) ==
  LET z == ZoneOf[t]
      b == [bytes EXCEPT ![z] = @ + Added(t, size)]
  IN
  /\ call[w] = Idle
  /\ puts < MaxPuts /\ puts' = puts + 1
  /\ pending' = [pending EXCEPT ![t] = size]
  /\ bytes' = b
  /\ age' = [age EXCEPT ![z] = IF @ = 0 THEN 1 ELSE @]
  /\ alone' = (alone /\ \A v \in Writer : call[v] = Idle)
  /\ IF Full(b, z) = {} THEN UNCHANGED <<line, call>>
     ELSE \E l \in Full(b, z) :
            /\ line' = [line EXCEPT ![l] = Append(@, w)]
            /\ call' = [call EXCEPT ![w].op = "put"]
  /\ UNCHANGED <<frozen, owed, faults>>

-----------------------------------------------------------------------------
(* flush_due, one zone after the other and none after one that failed, and  *)
(* flush_all, some at once and every one.                                   *)

FlushDue(u) ==
  /\ call[u] = Idle
  /\ call' = [call EXCEPT ![u] = [Idle EXCEPT !.op = "due", !.todo = {z \in Zone : Due(z)}]]
  /\ UNCHANGED <<buffers, line, owed, alone, puts, faults>>

FlushAll(u) ==
  /\ call[u] = Idle
  /\ call' = [call EXCEPT
       ![u] = [Idle EXCEPT !.op = "all", !.todo = {z \in Zone : Pending(z) # {}}]]
  /\ owed' = [owed EXCEPT ![u] = {t \in Tile : pending[t] # 0}]
  /\ UNCHANGED <<buffers, line, alone, puts, faults>>

Begin(u) ==
  /\ \E z \in call[u].todo :
       /\ line' = [line EXCEPT ![z] = Append(@, u)]
       /\ call' = [call EXCEPT ![u].todo = @ \ {z}]
  /\ Cardinality(Lines(u)) < IF call[u].op = "all" THEN AtOnce ELSE 1
  /\ UNCHANGED <<buffers, owed, alone, puts, faults>>

Return(p) ==
  /\ call[p].op # "idle" /\ call[p].todo = {} /\ Lines(p) = {}
  /\ call' = [call EXCEPT ![p] = Idle]
  /\ owed' = [u \in Upkeep |-> IF u = p THEN {} ELSE owed[u]]
  /\ UNCHANGED <<buffers, line, alone, puts, faults>>

-----------------------------------------------------------------------------
(* flush_zone                                                               *)

Publishing(p, z) == Holds(p, z) /\ p \notin Maintainer /\ Frozen(z) # {}

Leave(z) == line' = [line EXCEPT ![z] = Tail(@)]

\* The lock is there: what is pending is frozen, if anything is.
Freeze(p, z) ==
  /\ Holds(p, z) /\ p \notin Maintainer /\ Frozen(z) = {}
  /\ IF Pending(z) = {} THEN Leave(z) /\ UNCHANGED buffers
     ELSE /\ frozen' = [t \in Tile |-> IF t \in In(z) THEN pending[t] ELSE frozen[t]]
          /\ pending' = [t \in Tile |-> IF t \in In(z) THEN 0 ELSE pending[t]]
          /\ bytes' = [bytes EXCEPT ![z] = 0]
          /\ age' = [age EXCEPT ![z] = 0]
          /\ UNCHANGED line
  /\ UNCHANGED <<call, owed, alone, puts, faults>>

Publish(p, z) ==
  /\ Publishing(p, z)
  /\ frozen' = [t \in Tile |-> IF t \in In(z) THEN 0 ELSE frozen[t]]
  /\ owed' = [u \in Upkeep |-> owed[u] \ Frozen(z)]
  /\ Leave(z)
  /\ UNCHANGED <<pending, bytes, age, call, alone, puts, faults>>

\* Back in the buffer, never over a newer write.
Back(Z) == {t \in UNION {Frozen(z) : z \in Z} : pending[t] = 0}

EndFlush_ForgetsAge(Z) ==
  /\ pending' = [t \in Tile |-> IF t \in Back(Z) THEN frozen[t] ELSE pending[t]]
  /\ bytes' = [z \in Zone |-> bytes[z] + Sizes(Back(Z) \cap In(z), frozen)]
  /\ frozen' = [t \in Tile |-> IF ZoneOf[t] \in Z THEN 0 ELSE frozen[t]]
  /\ UNCHANGED age

EndFlush_CountsAll(Z) ==
  /\ pending' = [t \in Tile |-> IF t \in Back(Z) THEN frozen[t] ELSE pending[t]]
  /\ bytes' = [z \in Zone |-> IF z \in Z THEN bytes[z] + Sizes(Frozen(z), frozen) ELSE bytes[z]]
  /\ frozen' = [t \in Tile |-> IF ZoneOf[t] \in Z THEN 0 ELSE frozen[t]]
  /\ age' = [z \in Zone |-> IF z \in Z /\ age[z] = 0 THEN 1 ELSE age[z]]

\* end_flush of zones that were not published.
EndFlush(Z) ==
  /\ pending' = [t \in Tile |-> IF t \in Back(Z) THEN frozen[t] ELSE pending[t]]
  /\ bytes' = [z \in Zone |-> bytes[z] + Sizes(Back(Z) \cap In(z), frozen)]
  /\ frozen' = [t \in Tile |-> IF ZoneOf[t] \in Z THEN 0 ELSE frozen[t]]
  /\ age' = [z \in Zone |-> IF z \in Z /\ age[z] = 0 THEN 1 ELSE age[z]]

Failed_Unsaid(p) == [call[p] EXCEPT !.todo = IF call[p].op = "due" THEN {} ELSE @]

\* After a failure flush_due is over, and flush_all tries the others.
Failed(p) ==
  [call[p] EXCEPT !.ok = FALSE, !.todo = IF call[p].op = "due" THEN {} ELSE @]

Fail(p, z) ==
  /\ Publishing(p, z)
  /\ Fault
  /\ EndFlush({z})
  /\ call' = [call EXCEPT ![p] = Failed(p)]
  /\ Leave(z)
  /\ UNCHANGED <<owed, alone, puts>>

\* The future of a call is dropped: it is in no line any more (it is in each
\* once at most), and what it was publishing goes back.
Drop(p) ==
  /\ p \notin Maintainer /\ Lines(p) # {}
  /\ Fault
  /\ EndFlush({z \in Zone : Publishing(p, z)})
  /\ line' = [z \in Zone |-> RemoveFirst(line[z], p)]
  /\ call' = [call EXCEPT ![p] = Idle]
  /\ owed' = [u \in Upkeep |-> IF u = p THEN {} ELSE owed[u]]
  /\ UNCHANGED <<alone, puts>>

-----------------------------------------------------------------------------
\* A compaction or a pruning of the zone waits for its lock and holds it.
Keep(m, z) ==
  /\ Lines(m) = {}
  /\ line' = [line EXCEPT ![z] = Append(@, m)]
  /\ UNCHANGED <<buffers, call, owed, alone, puts, faults>>

Kept(m, z) ==
  /\ Holds(m, z)
  /\ Leave(z)
  /\ UNCHANGED <<buffers, call, owed, alone, puts, faults>>

Tick ==
  /\ age' = [z \in Zone |-> Older(age[z])]
  /\ UNCHANGED <<pending, frozen, bytes, line, call, owed, alone, puts, faults>>

-----------------------------------------------------------------------------

Next ==
  \/ \E w \in Writer, t \in Tile : \E size \in SizesOf[t] : Put(w, t, size)
  \/ \E u \in Upkeep : FlushDue(u) \/ FlushAll(u) \/ Begin(u)
  \/ \E p \in Writer \cup Upkeep :
       \/ Return(p) \/ Drop(p)
       \/ \E z \in Zone : Freeze(p, z) \/ Publish(p, z) \/ Fail(p, z)
  \/ \E m \in Maintainer, z \in Zone : Keep(m, z) \/ Kept(m, z)
  \/ Tick

Spec == Init /\ [][Next]_vars

\* flush_due is called periodically, publications and compactions end.
FairSpec ==
  /\ Spec
  /\ WF_vars(Tick)
  /\ \A u \in Upkeep : WF_vars(FlushDue(u)) /\ WF_vars(Begin(u))
  /\ \A p \in Writer \cup Upkeep :
       /\ WF_vars(Return(p))
       /\ \A z \in Zone : WF_vars(Freeze(p, z)) /\ WF_vars(Publish(p, z))
  /\ \A m \in Maintainer, z \in Zone : WF_vars(Kept(m, z))

-----------------------------------------------------------------------------
(* Properties.                                                              *)

\* What each buffer says it holds is what it holds, through puts over puts,
\* freezes, failures and puts meanwhile: what is counted twice or never makes
\* the bounds say the wrong zone, or none.
BytesAreCounted == \A z \in Zone : bytes[z] = Sizes(Pending(z), pending)

\* Puts that come one after the other keep all buffers together under their
\* bound, whoever else flushes, merges or waits (DEFAULT_MAX_BUFFERED_BYTES,
\* "All buffers together never hold more than this").
Bounded ==
  alone /\ faults = 0 /\ (\A w \in Writer : call[w] = Idle) => Total(bytes) < MaxBuffered

\* flush_all that says it went well has published every tile that was in a
\* buffer when it was called, itself or another that had frozen it first.
FlushedAll ==
  [][\A u \in Upkeep : Return(u) /\ call[u].op = "all" /\ call[u].ok => owed[u] = {}]_vars

\* No zone is left in memory: what is put there leaves, whatever failed or was
\* dropped, though nobody puts there again (DEFAULT_FLUSH_AGE, "so a quiet
\* zone is not left in memory only").
NotLeftInMemory ==
  \A z \in Zone : Pending(z) # {} ~> Pending(z) = {} /\ Frozen(z) = {}
=============================================================================
