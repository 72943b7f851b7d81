----------------------------- MODULE Production -----------------------------
(***************************************************************************)
(* A film produced by several tasks that share a run store                 *)
(* (crates/tuile-farm/src/produce.rs): each task bakes its packs and       *)
(* renders their parts, several packs at once; a part's receipt vouches    *)
(* for its segment; whichever task finds every part done joins the film.   *)
(*                                                                         *)
(* The tasks know of each other only through the store.  Any of them may   *)
(* fail, stall or die at any await, be stopped, and be asked again.  A     *)
(* pack falls to one task, and a task is one process at a time.            *)
(*                                                                         *)
(* Left out: the join of a production alone, which does not look again;    *)
(* journals and scratch files.  The receipts of a listing are read at      *)
(* once, in the code one after the other.                                  *)
(*                                                                         *)
(* A definition whose name ends in _ and a word is the definition before   *)
(* the underscore with a bug; nothing here uses it.                        *)
(***************************************************************************)
EXTENDS Integers, FiniteSets

CONSTANTS
  Task,         \* the tasks the production is shared out to
  Pack, Part,   \* what is baked, and what is rendered
  TaskOf,       \* the task each pack falls to
  PackOf,       \* the pack each part is rendered from
  Before,       \* the parts an earlier production left done
  RenderAgain,  \* Order::render_again
  BakeAgain,    \* Order::bake_again
  AtOnce,       \* Order::at_once
  Tries,        \* Order::tries
  MaxFaults,    \* bound on everything that goes wrong
  MaxAsks       \* bound on what is asked again though it ended well

ASSUME OrderAssumption ==
  /\ TaskOf \in [Pack -> Task] /\ PackOf \in [Part -> Pack]
  /\ Part # {} /\ Before \subseteq Part
  /\ RenderAgain \in BOOLEAN /\ BakeAgain \in BOOLEAN
  /\ AtOnce \in Nat \ {0} /\ Tries \in Nat \ {0}
  /\ MaxFaults \in Nat /\ MaxAsks \in Nat

VARIABLES
  packs,    \* the packs at their keys
  segment,  \* the segment at each part's key
  receipt,  \* the size each part's receipt vouches for, 0 if there is none
  film,     \* the segments the film was joined from
  stop,     \* is the object STOP there?
  task,     \* each task: the await it is at, what it knows, how it ended
  lane,     \* each pack's lane
  faults, asks  \* what the bounds bound

vars == <<packs, segment, receipt, film, stop, task, lane, faults, asks>>

store == <<packs, segment, receipt, film>>

\* A segment is as long as its part or short of it; two renders of a part may
\* differ in size.
Nothing == [bytes |-> 0, whole |-> FALSE, new |-> FALSE]
Earlier == [bytes |-> 1, whole |-> TRUE, new |-> FALSE]
Segment == [bytes : 0..2, whole : BOOLEAN, new : BOOLEAN]
Output == {s \in Segment : s.bytes # 0 /\ s.new}
NoFilm == [p \in Part |-> Nothing]

Owner(p) == TaskOf[PackOf[p]]
Packs(t) == {k \in Pack : TaskOf[k] = t}
Parts(k) == {p \in Part : PackOf[p] = k}

Idle == [pc |-> "idle", end |-> "none", listed |-> [p \in Part |-> 0],
         done |-> {}, got |-> NoFilm]
Queued == [pc |-> "queued", left |-> {}, on |-> {}, tried |-> 0, out |-> Nothing,
           lost |-> {}]

Init ==
  /\ packs = {PackOf[p] : p \in Before}
  /\ segment = [p \in Part |-> IF p \in Before THEN Earlier ELSE Nothing]
  /\ receipt = [p \in Part |-> IF p \in Before THEN Earlier.bytes ELSE 0]
  /\ film = NoFilm
  /\ stop = FALSE
  /\ task = [t \in Task |-> Idle]
  /\ lane = [k \in Pack |-> Queued]
  /\ faults = 0 /\ asks = 0

At(t, step) == task[t].pc = step
Fault == faults < MaxFaults /\ faults' = faults + 1

\* The task is over, and its lanes are gone wherever they are.
End(t, how) ==
  /\ task' = [task EXCEPT ![t].pc = "over", ![t].end = how]
  /\ lane' = [k \in Pack |-> IF k \in Packs(t) THEN Queued ELSE lane[k]]

-----------------------------------------------------------------------------
(* A task from its beginning to its end (produce, lanes_then_film).         *)

Began(t) == task' = [task EXCEPT ![t] = [Idle EXCEPT !.pc = "list"]]

EndedWell(t) == task[t].end \in {"Film", "Waiting"}

Ask(t) ==
  /\ task[t].pc \in {"idle", "over"} /\ ~EndedWell(t)
  /\ Began(t)
  /\ UNCHANGED <<store, stop, lane, faults, asks>>

\* The same order once more, though nothing is left of it to do.
AskAgain(t) ==
  /\ At(t, "over") /\ EndedWell(t)
  /\ asks < MaxAsks /\ asks' = asks + 1
  /\ Began(t)
  /\ UNCHANGED <<store, stop, lane, faults>>

\* done: the sizes in a listing, then the receipts.
List(t) ==
  /\ task[t].pc \in {"list", "look"}
  /\ task' = [task EXCEPT
       ![t].pc = IF @ = "list" THEN "read" ELSE "check",
       ![t].listed = [p \in Part |-> IF receipt[p] = 0 THEN 0 ELSE segment[p].bytes]]
  /\ UNCHANGED <<store, stop, lane, faults, asks>>

\* The parts whose receipt vouches for a segment of the size listed.
Done(t) ==
  {p \in Part : task[t].listed[p] # 0 /\ receipt[p] = task[t].listed[p]}

Read(t) ==
  /\ At(t, "read")
  /\ task' = [task EXCEPT ![t].pc = "work", ![t].done = Done(t)]
  /\ UNCHANGED <<store, stop, lane, faults, asks>>

LanesOver_ForgetsMissing(t) ==
  /\ At(t, "work")
  /\ \A k \in Packs(t) : lane[k].pc \in {"over", "stopped"}
  /\ IF \E k \in Packs(t) : lane[k].pc = "stopped" THEN End(t, "Stopped")
     ELSE /\ task' = [task EXCEPT ![t].pc = "look"]
          /\ UNCHANGED lane
  /\ UNCHANGED <<store, stop, faults, asks>>

\* Every lane has ended, with parts it could not make or without.
LanesOver(t) ==
  /\ At(t, "work")
  /\ \A k \in Packs(t) : lane[k].pc \in {"over", "stopped"}
  /\ IF \E k \in Packs(t) : lane[k].pc = "stopped" THEN End(t, "Stopped")
     ELSE IF \E k \in Packs(t) : lane[k].lost # {} THEN End(t, "Missing")
     ELSE /\ task' = [task EXCEPT ![t].pc = "look"]
          /\ UNCHANGED lane
  /\ UNCHANGED <<store, stop, faults, asks>>

Check_WhatItKnew(t) ==
  /\ At(t, "check")
  /\ LET now == task[t].done \cup {p \in Part : Owner(p) = t} IN
     IF now = Part THEN task' = [task EXCEPT ![t].pc = "join", ![t].done = now] /\ UNCHANGED lane
                   ELSE End(t, "Waiting")
  /\ UNCHANGED <<store, stop, faults, asks>>

\* The receipts read again now: all parts are there, or another task joins.
Check(t) ==
  /\ At(t, "check")
  /\ IF Done(t) = Part
       THEN task' = [task EXCEPT ![t].pc = "join", ![t].done = Part] /\ UNCHANGED lane
       ELSE End(t, "Waiting")
  /\ UNCHANGED <<store, stop, faults, asks>>

\* A segment brought here whole, as it is at one moment (its ETag).
Get(t, p) ==
  /\ At(t, "join") /\ task[t].got[p] = Nothing /\ segment[p] # Nothing
  /\ task' = [task EXCEPT ![t].got[p] = segment[p]]
  /\ UNCHANGED <<store, stop, lane, faults, asks>>

\* Joined, counted, and put; one short of its frames is not written.
PutFilm(t) ==
  /\ At(t, "join") /\ \A p \in Part : task[t].got[p] # Nothing
  /\ IF \A p \in Part : task[t].got[p].whole
       THEN film' = task[t].got /\ End(t, "Film")
       ELSE UNCHANGED film /\ End(t, "Failed")
  /\ UNCHANGED <<packs, segment, receipt, stop, faults, asks>>

\* A store that cannot be reached, a step that does not return, a process
\* that dies: what was running is dropped at its await.
Fail(t) ==
  /\ task[t].pc \notin {"idle", "over"}
  /\ Fault
  /\ End(t, "Failed")
  /\ UNCHANGED <<store, stop, asks>>

-----------------------------------------------------------------------------
(* Lanes (work, attempt).                                                   *)

In(k, step) == lane[k].pc = step

Running(t) == {k \in Packs(t) : lane[k].pc \notin {"queued", "over", "stopped"}}

Wanted_All(k) == Parts(k)

Wanted(k) == {p \in Parts(k) : RenderAgain \/ p \notin task[TaskOf[k]].done}

\* A lane begins: nothing to do, stopped, or from the pack there is or is not.
Begin(k) ==
  /\ In(k, "queued") /\ At(TaskOf[k], "work")
  /\ Cardinality(Running(TaskOf[k])) < AtOnce
  /\ lane' = [lane EXCEPT ![k] =
       IF Wanted(k) = {} THEN [Queued EXCEPT !.pc = "over"]
       ELSE IF stop THEN [Queued EXCEPT !.pc = "stopped"]
       ELSE [Queued EXCEPT !.left = Wanted(k),
                           !.pc = IF BakeAgain \/ k \notin packs THEN "bake" ELSE "next"]]
  /\ UNCHANGED <<store, stop, task, faults, asks>>

Bake(k) ==
  /\ In(k, "bake")
  /\ lane' = [lane EXCEPT ![k].pc = "keep"]
  /\ UNCHANGED <<store, stop, task, faults, asks>>

\* At its key only now.
Keep(k) ==
  /\ In(k, "keep")
  /\ packs' = packs \cup {k}
  /\ lane' = [lane EXCEPT ![k].pc = "next", ![k].tried = 0]
  /\ UNCHANGED <<segment, receipt, film, stop, task, faults, asks>>

\* The next part, if there is one and nobody said to stop.
NextPart(k) ==
  /\ In(k, "next")
  /\ IF lane[k].left = {} THEN lane' = [lane EXCEPT ![k].pc = "over"]
     ELSE IF stop THEN lane' = [lane EXCEPT ![k].pc = "stopped"]
     ELSE \E p \in lane[k].left :
            lane' = [lane EXCEPT ![k].pc = "render", ![k].on = {p}, ![k].tried = 0,
                                 ![k].left = @ \ {p}]
  /\ UNCHANGED <<store, stop, task, faults, asks>>

Accepted_Unopened(out) == TRUE

\* The segment was opened and holds the part's frames.
Accepted(out) == out.whole

\* A render that ended well, by its own word.
Render(k) ==
  /\ In(k, "render")
  /\ \E out \in Output :
       /\ Accepted(out)
       /\ lane' = [lane EXCEPT ![k].pc = "put", ![k].out = out]
  /\ UNCHANGED <<store, stop, task, faults, asks>>

\* A bake or a render that failed, panicked or made less than it says: it is
\* tried again while that may help, and then its parts are missing.
TryFails(k) ==
  LET l == lane[k] IN
  /\ l.pc \in {"bake", "render"}
  /\ Fault
  /\ \E again \in BOOLEAN :
       lane' = [lane EXCEPT ![k] =
         IF again /\ l.tried + 1 < Tries THEN [l EXCEPT !.tried = l.tried + 1]
         ELSE IF l.pc = "bake" THEN [l EXCEPT !.pc = "over", !.lost = l.lost \cup l.left]
         ELSE [l EXCEPT !.pc = "next", !.lost = l.lost \cup l.on, !.on = {}]]
  /\ UNCHANGED <<store, stop, task, asks>>

PutSegment(k) ==
  /\ In(k, "put")
  /\ segment' = [p \in Part |-> IF p \in lane[k].on THEN lane[k].out ELSE segment[p]]
  /\ lane' = [lane EXCEPT ![k].pc = "vouch"]
  /\ UNCHANGED <<packs, receipt, film, stop, task, faults, asks>>

\* The receipt, never there before what it names.
Vouch(k) ==
  /\ In(k, "vouch")
  /\ receipt' = [p \in Part |-> IF p \in lane[k].on THEN lane[k].out.bytes ELSE receipt[p]]
  /\ lane' = [lane EXCEPT ![k].pc = "next", ![k].on = {}, ![k].out = Nothing]
  /\ UNCHANGED <<packs, segment, film, stop, task, faults, asks>>

-----------------------------------------------------------------------------
\* Somebody puts STOP there, and takes it away.
Stop ==
  /\ ~stop /\ Fault
  /\ stop' = TRUE
  /\ UNCHANGED <<store, task, lane, asks>>

GoOn ==
  /\ stop
  /\ stop' = FALSE
  /\ UNCHANGED <<store, task, lane, faults, asks>>

TaskStep(t) ==
  \/ List(t) \/ Read(t) \/ LanesOver(t) \/ Check(t) \/ PutFilm(t)
  \/ \E p \in Part : Get(t, p)

LaneStep(k) ==
  \/ Begin(k) \/ Bake(k) \/ Keep(k) \/ NextPart(k) \/ Render(k)
  \/ PutSegment(k) \/ Vouch(k)

Next ==
  \/ \E t \in Task : Ask(t) \/ AskAgain(t) \/ TaskStep(t) \/ Fail(t)
  \/ \E k \in Pack : LaneStep(k) \/ TryFails(k)
  \/ Stop \/ GoOn

Spec == Init /\ [][Next]_vars

\* Steps return or time out, STOP is taken away, and a task that did not end
\* well is asked again; nobody asks one again that did.
FairSpec ==
  /\ Spec
  /\ \A t \in Task : WF_vars(Ask(t)) /\ WF_vars(TaskStep(t))
  /\ \A k \in Pack : WF_vars(LaneStep(k))
  /\ WF_vars(GoOn)

-----------------------------------------------------------------------------
(* Properties.                                                              *)

TaskPCs == {"idle", "list", "read", "work", "look", "check", "join", "over"}
LanePCs == {"queued", "bake", "keep", "next", "render", "put", "vouch", "over", "stopped"}
Ends == {"none", "Film", "Waiting", "Missing", "Stopped", "Failed"}

\* Every variable holds what its declaration says.
TypeOK ==
  /\ packs \subseteq Pack
  /\ segment \in [Part -> Segment] /\ film \in [Part -> Segment]
  /\ receipt \in [Part -> 0..2] /\ stop \in BOOLEAN
  /\ task \in [Task -> [pc : TaskPCs, end : Ends, listed : [Part -> 0..2],
                        done : SUBSET Part, got : [Part -> Segment]]]
  /\ lane \in [Pack -> [pc : LanePCs, left : SUBSET Part, on : SUBSET Part,
                        tried : 0..(Tries - 1), out : Segment, lost : SUBSET Part]]
  /\ \A k \in Pack : lane[k].left \cup lane[k].on \cup lane[k].lost \subseteq Parts(k)
  /\ faults \in Nat /\ asks \in Nat

Vouched(p) == receipt[p] # 0 /\ receipt[p] = segment[p].bytes

\* Once every task has ended well, having joined the film or left it to the
\* last, the film is there, of the very segments that are there: the tasks
\* never all leave it to each other, and none joins what another goes on to
\* replace (produce.rs, "the last of the tasks to finish joins the film").
LastJoins == (\A t \in Task : At(t, "over") /\ EndedWell(t)) => film = segment

\* A receipt is never there before what it names, and names nothing short.
ReceiptsVouch == \A p \in Part : receipt[p] # 0 => segment[p].whole

\* What is done is not done again, whatever is stopped, fails, dies and is
\* asked again (produce.rs, "What is done is not done again").
DoneOnce == [][~RenderAgain => \A p \in Part : Vouched(p) => segment'[p] = segment[p]]_vars

\* The film is joined in the end, though a task that left it to the others is
\* never asked again.
FilmInTheEnd == <>(film # NoFilm)
=============================================================================
