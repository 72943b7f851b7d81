-------------------------- MODULE Production_proofs --------------------------
(***************************************************************************)
(* Theorems about Production, for any tasks, packs, parts and bounds.      *)
(*                                                                         *)
(* What a receipt vouches for is there because a lane puts the segment it  *)
(* rendered before the receipt (Stored).  That the last task joins the     *)
(* film is Shared, for orders that render nothing again: what is vouched   *)
(* for stays, a task that looks has all its parts vouched for, and as long *)
(* as one that looked has waited in vain, there is another yet to look.    *)
(***************************************************************************)
EXTENDS Production, TLAPS

TaskState == [pc : TaskPCs, end : Ends, listed : [Part -> 0..2],
              done : SUBSET Part, got : [Part -> Segment]]
LaneState == [pc : LanePCs, left : SUBSET Part, on : SUBSET Part,
              tried : 0..(Tries - 1), out : Segment, lost : SUBSET Part]

\* What a lane has in hand is of its pack.
Within == \A k \in Pack : lane[k].left \cup lane[k].on \cup lane[k].lost \subseteq Parts(k)

-----------------------------------------------------------------------------
(* Type correctness.                                                        *)

LEMMA AtRest ==
  /\ Nothing \in Segment /\ Earlier \in Segment /\ Output \subseteq Segment
  /\ NoFilm \in [Part -> Segment]
  /\ Idle \in TaskState /\ Queued \in LaneState
<1>1. Nothing \in Segment /\ Earlier \in Segment /\ Output \subseteq Segment
  BY DEF Nothing, Earlier, Output, Segment
<1>2. NoFilm \in [Part -> Segment]
  BY <1>1 DEF NoFilm
<1>3. Idle \in TaskState
  BY <1>2 DEF Idle, TaskState, TaskPCs, Ends
<1>4. Queued \in LaneState
  BY <1>1, OrderAssumption DEF Queued, LaneState, LanePCs
<1> QED BY <1>1, <1>2, <1>3, <1>4

LEMMA TypeInit == Init => TypeOK
<1> SUFFICES ASSUME Init PROVE TypeOK
  OBVIOUS
<1>1. packs \subseteq Pack /\ faults \in Nat /\ asks \in Nat /\ stop \in BOOLEAN
  BY OrderAssumption DEF Init
<1>2. segment \in [Part -> Segment] /\ film \in [Part -> Segment]
  BY AtRest DEF Init
<1>3. receipt \in [Part -> 0..2]
  BY DEF Init, Earlier
<1>4. task \in [Task -> TaskState] /\ lane \in [Pack -> LaneState]
  BY AtRest DEF Init
<1>5. Within
  BY DEF Init, Within, Queued
<1> QED BY <1>1, <1>2, <1>3, <1>4, <1>5 DEF TypeOK, TaskState, LaneState, Within

\* TypeOK, taken apart.
Types ==
  /\ packs \subseteq Pack /\ faults \in Nat /\ asks \in Nat /\ stop \in BOOLEAN
  /\ segment \in [Part -> Segment] /\ film \in [Part -> Segment]
  /\ receipt \in [Part -> 0..2]
  /\ task \in [Task -> TaskState]
  /\ lane \in [Pack -> LaneState]
  /\ Within

LEMMA TypesSame == TypeOK <=> Types
BY DEF TypeOK, Types, TaskState, LaneState, Within

LEMMA FaultType == ASSUME Types, Fault PROVE faults' \in Nat
BY DEF Types, Fault

LEMMA EndTypes ==
  ASSUME Types, NEW t \in Task, NEW how \in Ends, End(t, how)
  PROVE  task' \in [Task -> TaskState] /\ lane' \in [Pack -> LaneState] /\ Within'
<1>1. task' \in [Task -> TaskState]
  <2>1. [task[t] EXCEPT !.pc = "over", !.end = how] \in TaskState
    BY DEF Types, TaskState, TaskPCs
  <2>2. task' = [task EXCEPT ![t] = [task[t] EXCEPT !.pc = "over", !.end = how]]
    BY DEF End, Types
  <2> QED BY <2>1, <2>2 DEF Types
<1>2. lane' \in [Pack -> LaneState]
  BY AtRest DEF End, Types
<1>3. Within'
  BY DEF End, Types, Within, Queued
<1> QED BY <1>1, <1>2, <1>3

\* A task, or a lane, that becomes another.
Becomes(t, s) == task' = [task EXCEPT ![t] = s] /\ lane' = lane
Turns(k, l) == lane' = [lane EXCEPT ![k] = l] /\ task' = task

LEMMA BecomesTypes ==
  ASSUME Types, NEW t \in Task, NEW s \in TaskState, Becomes(t, s)
  PROVE  task' \in [Task -> TaskState] /\ lane' \in [Pack -> LaneState] /\ Within'
BY DEF Types, Becomes, Within

LEMMA TurnsTypes ==
  ASSUME Types, NEW k \in Pack, NEW l \in LaneState, Turns(k, l),
         l.left \cup l.on \cup l.lost \subseteq Parts(k)
  PROVE  task' \in [Task -> TaskState] /\ lane' \in [Pack -> LaneState] /\ Within'
BY DEF Types, Turns, Within

-----------------------------------------------------------------------------
(* What each action does to its task or its lane.                           *)

Listing(t) ==
  [task[t] EXCEPT !.pc = IF @ = "list" THEN "read" ELSE "check",
                  !.listed = [p \in Part |-> IF receipt[p] = 0 THEN 0 ELSE segment[p].bytes]]

LEMMA ListIs ==
  ASSUME Types, NEW t \in Task, List(t) PROVE Becomes(t, Listing(t)) /\ Listing(t) \in TaskState
<1>1. Becomes(t, Listing(t))
  BY DEF Types, List, Becomes, Listing
<1>2. [p \in Part |-> IF receipt[p] = 0 THEN 0 ELSE segment[p].bytes] \in [Part -> 0..2]
  BY DEF Types, Segment
<1>3. task[t] \in TaskState
  BY DEF Types
<1> QED BY <1>1, <1>2, <1>3 DEF Listing, TaskState, TaskPCs

LEMMA BeganIs ==
  ASSUME Types, NEW t \in Task, Began(t), UNCHANGED lane
  PROVE  /\ Becomes(t, [Idle EXCEPT !.pc = "list"])
         /\ [Idle EXCEPT !.pc = "list"] \in TaskState
BY AtRest DEF Began, Becomes, TaskState, TaskPCs

LEMMA ReadIs ==
  ASSUME Types, NEW t \in Task, Read(t)
  PROVE  /\ Becomes(t, [task[t] EXCEPT !.pc = "work", !.done = Done(t)])
         /\ [task[t] EXCEPT !.pc = "work", !.done = Done(t)] \in TaskState
BY DEF Types, Read, Becomes, Done, TaskState, TaskPCs

LEMMA LooksIs ==
  ASSUME Types, NEW t \in Task, task' = [task EXCEPT ![t].pc = "look"], UNCHANGED lane
  PROVE  /\ Becomes(t, [task[t] EXCEPT !.pc = "look"])
         /\ [task[t] EXCEPT !.pc = "look"] \in TaskState
BY DEF Types, Becomes, TaskState, TaskPCs

LEMMA JoinsIs ==
  ASSUME Types, NEW t \in Task,
         task' = [task EXCEPT ![t].pc = "join", ![t].done = Part], UNCHANGED lane
  PROVE  /\ Becomes(t, [task[t] EXCEPT !.pc = "join", !.done = Part])
         /\ [task[t] EXCEPT !.pc = "join", !.done = Part] \in TaskState
BY DEF Types, Becomes, TaskState, TaskPCs

Getting(t, p) == [task[t] EXCEPT !.got = [task[t].got EXCEPT ![p] = segment[p]]]

LEMMA GetIs ==
  ASSUME Types, NEW t \in Task, NEW p \in Part, Get(t, p)
  PROVE  Becomes(t, Getting(t, p)) /\ Getting(t, p) \in TaskState
<1>1. Becomes(t, Getting(t, p))
  BY DEF Types, Get, Becomes, Getting
<1>2. task[t] \in TaskState /\ segment[p] \in Segment
  BY DEF Types
<1>3. [task[t].got EXCEPT ![p] = segment[p]] \in [Part -> Segment]
  BY <1>2 DEF TaskState
<1> QED BY <1>1, <1>2, <1>3 DEF Getting, TaskState

Beginning(k) ==
  IF Wanted(k) = {} THEN [Queued EXCEPT !.pc = "over"]
  ELSE IF stop THEN [Queued EXCEPT !.pc = "stopped"]
  ELSE [Queued EXCEPT !.left = Wanted(k),
                      !.pc = IF BakeAgain \/ k \notin packs THEN "bake" ELSE "next"]

LEMMA BeginIs ==
  ASSUME Types, NEW k \in Pack, Begin(k)
  PROVE  Turns(k, Beginning(k)) /\ Beginning(k) \in LaneState
         /\ Beginning(k).left \cup Beginning(k).on \cup Beginning(k).lost \subseteq Parts(k)
<1>1. Turns(k, Beginning(k))
  BY DEF Types, Begin, Turns, Beginning
<1>2. Wanted(k) \subseteq Parts(k) /\ Wanted(k) \subseteq Part
  BY DEF Wanted, Parts
<1>3. Queued \in LaneState
  BY AtRest
<1>4. Beginning(k) \in LaneState
  BY <1>2, <1>3 DEF Beginning, LaneState, LanePCs
<1>5. Beginning(k).left \cup Beginning(k).on \cup Beginning(k).lost \subseteq Parts(k)
  BY <1>2 DEF Beginning, Queued
<1> QED BY <1>1, <1>4, <1>5

LEMMA LaneIs ==
  ASSUME Types, NEW k \in Pack
  PROVE  /\ lane[k] \in LaneState
         /\ lane[k].left \cup lane[k].on \cup lane[k].lost \subseteq Parts(k)
         /\ \A pc \in LanePCs : [lane[k] EXCEPT !.pc = pc] \in LaneState
BY DEF Types, Within, LaneState

LEMMA NextPartIs ==
  ASSUME Types, NEW k \in Pack, NextPart(k)
  PROVE  \E l \in LaneState :
           /\ Turns(k, l) /\ l.left \cup l.on \cup l.lost \subseteq Parts(k)
           /\ \/ lane[k].left = {} /\ l = [lane[k] EXCEPT !.pc = "over"]
              \/ l = [lane[k] EXCEPT !.pc = "stopped"]
              \/ \E p \in lane[k].left :
                   l = [lane[k] EXCEPT !.pc = "render", !.on = {p}, !.tried = 0,
                                       !.left = lane[k].left \ {p}]
<1>1. /\ lane[k] \in LaneState
      /\ "over" \in LanePCs /\ "stopped" \in LanePCs /\ "render" \in LanePCs
  BY LaneIs DEF LanePCs
<1>0. 0 \in 0..(Tries - 1)
  BY OrderAssumption
<1>2. CASE lane[k].left = {}
  <2> DEFINE l == [lane[k] EXCEPT !.pc = "over"]
  <2>1. Turns(k, l)
    BY <1>2 DEF NextPart, Turns
  <2>2. l \in LaneState /\ l.left \cup l.on \cup l.lost \subseteq Parts(k)
    BY <1>1, LaneIs DEF LaneState
  <2> QED BY <1>2, <2>1, <2>2
<1>3. CASE lane[k].left # {} /\ stop
  <2> DEFINE l == [lane[k] EXCEPT !.pc = "stopped"]
  <2>1. Turns(k, l)
    BY <1>3 DEF NextPart, Turns
  <2>2. l \in LaneState /\ l.left \cup l.on \cup l.lost \subseteq Parts(k)
    BY <1>1, LaneIs DEF LaneState
  <2> QED BY <2>1, <2>2
<1>4. CASE lane[k].left # {} /\ ~stop
  <2>1. PICK p \in lane[k].left :
          lane' = [lane EXCEPT ![k].pc = "render", ![k].on = {p}, ![k].tried = 0,
                               ![k].left = @ \ {p}]
    BY <1>4 DEF NextPart
  <2> DEFINE l == [lane[k] EXCEPT !.pc = "render", !.on = {p}, !.tried = 0,
                                  !.left = lane[k].left \ {p}]
  <2>2. Turns(k, l)
    BY <2>1 DEF Types, NextPart, Turns
  <2>3. p \in Part /\ p \in Parts(k)
    BY <1>1, LaneIs DEF LaneState
  <2>4. l \in LaneState /\ l.left \cup l.on \cup l.lost \subseteq Parts(k)
    BY <1>1, <1>0, <2>3, LaneIs DEF LaneState
  <2> QED BY <2>2, <2>4
<1> QED BY <1>2, <1>3, <1>4

LEMMA TryFailsIs ==
  ASSUME Types, NEW k \in Pack, TryFails(k)
  PROVE  \E l \in LaneState :
           /\ Turns(k, l) /\ l.left \cup l.on \cup l.lost \subseteq Parts(k)
           /\ \/ \E n \in 0..(Tries - 1) : l = [lane[k] EXCEPT !.tried = n]
              \/ /\ lane[k].pc = "bake"
                 /\ l = [lane[k] EXCEPT !.pc = "over", !.lost = lane[k].lost \cup lane[k].left]
              \/ /\ lane[k].pc = "render"
                 /\ l = [lane[k] EXCEPT !.pc = "next", !.lost = lane[k].lost \cup lane[k].on,
                                        !.on = {}]
<1>1. lane[k] \in LaneState /\ "over" \in LanePCs /\ "next" \in LanePCs
  BY LaneIs DEF LanePCs
<1>2. PICK again \in BOOLEAN :
        lane' = [lane EXCEPT ![k] =
          IF again /\ lane[k].tried + 1 < Tries
            THEN [lane[k] EXCEPT !.tried = lane[k].tried + 1]
          ELSE IF lane[k].pc = "bake"
            THEN [lane[k] EXCEPT !.pc = "over", !.lost = lane[k].lost \cup lane[k].left]
          ELSE [lane[k] EXCEPT !.pc = "next", !.lost = lane[k].lost \cup lane[k].on, !.on = {}]]
  BY DEF TryFails
<1>3. CASE again /\ lane[k].tried + 1 < Tries
  <2>1. lane[k].tried + 1 \in 0..(Tries - 1)
    BY <1>1, <1>3, OrderAssumption DEF LaneState
  <2> DEFINE l == [lane[k] EXCEPT !.tried = lane[k].tried + 1]
  <2>2. Turns(k, l)
    BY <1>2, <1>3 DEF Turns, TryFails
  <2>3. l \in LaneState /\ l.left \cup l.on \cup l.lost \subseteq Parts(k)
    BY <1>1, <2>1, LaneIs DEF LaneState
  <2> QED BY <2>1, <2>2, <2>3
<1>4. CASE ~(again /\ lane[k].tried + 1 < Tries) /\ lane[k].pc = "bake"
  <2> DEFINE l == [lane[k] EXCEPT !.pc = "over", !.lost = lane[k].lost \cup lane[k].left]
  <2>1. Turns(k, l)
    BY <1>2, <1>4 DEF Turns, TryFails
  <2>2. l \in LaneState /\ l.left \cup l.on \cup l.lost \subseteq Parts(k)
    BY <1>1, LaneIs DEF LaneState
  <2> QED BY <1>4, <2>1, <2>2
<1>5. CASE ~(again /\ lane[k].tried + 1 < Tries) /\ lane[k].pc # "bake"
  <2> DEFINE l == [lane[k] EXCEPT !.pc = "next", !.lost = lane[k].lost \cup lane[k].on, !.on = {}]
  <2>1. Turns(k, l) /\ lane[k].pc = "render"
    BY <1>2, <1>5 DEF Turns, TryFails
  <2>2. l \in LaneState /\ l.left \cup l.on \cup l.lost \subseteq Parts(k)
    BY <1>1, LaneIs DEF LaneState
  <2> QED BY <2>1, <2>2
<1> QED BY <1>3, <1>4, <1>5

LEMMA LaneMoves ==
  ASSUME Types, NEW k \in Pack,
         Bake(k) \/ Keep(k) \/ Render(k) \/ PutSegment(k) \/ Vouch(k)
  PROVE  \E l \in LaneState :
           /\ Turns(k, l) /\ l.left \cup l.on \cup l.lost \subseteq Parts(k)
           /\ \/ Bake(k) /\ l = [lane[k] EXCEPT !.pc = "keep"]
              \/ Keep(k) /\ l = [lane[k] EXCEPT !.pc = "next", !.tried = 0]
              \/ \E out \in Output :
                   Render(k) /\ out.whole /\ l = [lane[k] EXCEPT !.pc = "put", !.out = out]
              \/ PutSegment(k) /\ l = [lane[k] EXCEPT !.pc = "vouch"]
              \/ Vouch(k) /\ l = [lane[k] EXCEPT !.pc = "next", !.on = {}, !.out = Nothing]
<1>1. /\ lane[k] \in LaneState
      /\ "keep" \in LanePCs /\ "next" \in LanePCs /\ "put" \in LanePCs /\ "vouch" \in LanePCs
  BY LaneIs DEF LanePCs
<1>2. 0 \in 0..(Tries - 1)
  BY OrderAssumption
<1>3. CASE Bake(k)
  <2> DEFINE l == [lane[k] EXCEPT !.pc = "keep"]
  <2>1. Turns(k, l) /\ l \in LaneState
    BY <1>1, <1>3, LaneIs DEF Bake, Turns
  <2>2. l.left \cup l.on \cup l.lost \subseteq Parts(k)
    BY <1>1, LaneIs DEF LaneState
  <2> QED BY <1>3, <2>1, <2>2
<1>4. CASE Keep(k)
  <2> DEFINE l == [lane[k] EXCEPT !.pc = "next", !.tried = 0]
  <2>1. Turns(k, l)
    BY <1>4 DEF Keep, Turns
  <2>2. l \in LaneState /\ l.left \cup l.on \cup l.lost \subseteq Parts(k)
    BY <1>1, <1>2, LaneIs DEF LaneState
  <2> QED BY <1>4, <2>1, <2>2
<1>5. CASE Render(k)
  <2>1. PICK out \in Output : out.whole /\ lane' = [lane EXCEPT ![k].pc = "put", ![k].out = out]
    BY <1>5 DEF Render, Accepted
  <2> DEFINE l == [lane[k] EXCEPT !.pc = "put", !.out = out]
  <2>2. Turns(k, l)
    BY <1>5, <2>1 DEF Render, Turns
  <2>3. l \in LaneState /\ l.left \cup l.on \cup l.lost \subseteq Parts(k)
    BY <1>1, LaneIs, AtRest DEF LaneState
  <2> QED BY <1>5, <2>1, <2>2, <2>3
<1>6. CASE PutSegment(k)
  <2> DEFINE l == [lane[k] EXCEPT !.pc = "vouch"]
  <2>1. Turns(k, l) /\ l \in LaneState
    BY <1>1, <1>6, LaneIs DEF PutSegment, Turns
  <2>2. l.left \cup l.on \cup l.lost \subseteq Parts(k)
    BY <1>1, LaneIs DEF LaneState
  <2> QED BY <1>6, <2>1, <2>2
<1>7. CASE Vouch(k)
  <2> DEFINE l == [lane[k] EXCEPT !.pc = "next", !.on = {}, !.out = Nothing]
  <2>1. Turns(k, l)
    BY <1>7 DEF Vouch, Turns
  <2>2. l \in LaneState /\ l.left \cup l.on \cup l.lost \subseteq Parts(k)
    BY <1>1, LaneIs, AtRest DEF LaneState
  <2> QED BY <1>7, <2>1, <2>2
<1> QED BY <1>3, <1>4, <1>5, <1>6, <1>7

\* The parts of the type that stand by what an action leaves alone.
LEMMA StoreTypes ==
  ASSUME Types, UNCHANGED store, UNCHANGED <<faults, asks>>, stop' \in BOOLEAN,
         task' \in [Task -> TaskState], lane' \in [Pack -> LaneState], Within'
  PROVE  Types'
BY DEF Types, store

LEMMA FaultyTypes ==
  ASSUME Types, UNCHANGED store, Fault, UNCHANGED asks, stop' \in BOOLEAN,
         task' \in [Task -> TaskState], lane' \in [Pack -> LaneState], Within'
  PROVE  Types'
BY FaultType DEF Types, store

LEMMA TypeStep == Types /\ [Next]_vars => Types'
<1> SUFFICES ASSUME Types, [Next]_vars PROVE Types'
  OBVIOUS
<1>0. stop \in BOOLEAN
  BY DEF Types
<1>1. ASSUME NEW t \in Task, Ask(t) PROVE Types'
  BY <1>0, <1>1, BeganIs, BecomesTypes, StoreTypes DEF Ask
<1>2. ASSUME NEW t \in Task, AskAgain(t) PROVE Types'
  <2>1. /\ task' \in [Task -> TaskState] /\ lane' \in [Pack -> LaneState] /\ Within'
    BY <1>2, BeganIs, BecomesTypes DEF AskAgain
  <2>2. asks' \in Nat
    BY <1>2 DEF Types, AskAgain
  <2> QED BY <1>2, <2>1, <2>2 DEF Types, AskAgain, store
<1>3. ASSUME NEW t \in Task, List(t) PROVE Types'
  BY <1>0, <1>3, ListIs, BecomesTypes, StoreTypes DEF List
<1>4. ASSUME NEW t \in Task, Read(t) PROVE Types'
  BY <1>0, <1>4, ReadIs, BecomesTypes, StoreTypes DEF Read
<1>5. ASSUME NEW t \in Task, LanesOver(t) PROVE Types'
  <2>1. "Stopped" \in Ends /\ "Missing" \in Ends
    BY DEF Ends
  <2>2. /\ task' \in [Task -> TaskState] /\ lane' \in [Pack -> LaneState] /\ Within'
    BY <1>5, <2>1, EndTypes, LooksIs, BecomesTypes DEF LanesOver
  <2> QED BY <1>0, <1>5, <2>2, StoreTypes DEF LanesOver
<1>6. ASSUME NEW t \in Task, Check(t) PROVE Types'
  <2>1. "Waiting" \in Ends
    BY DEF Ends
  <2>2. /\ task' \in [Task -> TaskState] /\ lane' \in [Pack -> LaneState] /\ Within'
    BY <1>6, <2>1, EndTypes, JoinsIs, BecomesTypes DEF Check
  <2> QED BY <1>0, <1>6, <2>2, StoreTypes DEF Check
<1>7. ASSUME NEW t \in Task, NEW p \in Part, Get(t, p) PROVE Types'
  BY <1>0, <1>7, GetIs, BecomesTypes, StoreTypes DEF Get
<1>8. ASSUME NEW t \in Task, PutFilm(t) PROVE Types'
  <2>1. "Film" \in Ends /\ "Failed" \in Ends
    BY DEF Ends
  <2>2. /\ task' \in [Task -> TaskState] /\ lane' \in [Pack -> LaneState] /\ Within'
    BY <1>8, <2>1, EndTypes DEF PutFilm
  <2>3. film' \in [Part -> Segment]
    <3>1. task[t].got \in [Part -> Segment]
      BY DEF Types, TaskState
    <3> QED BY <1>8, <3>1 DEF PutFilm, Types
  <2> QED BY <1>8, <2>2, <2>3 DEF PutFilm, Types
<1>9. ASSUME NEW t \in Task, Fail(t) PROVE Types'
  <2>1. "Failed" \in Ends
    BY DEF Ends
  <2> QED BY <1>0, <1>9, <2>1, EndTypes, FaultyTypes DEF Fail
<1>10. ASSUME NEW k \in Pack, Begin(k) PROVE Types'
  BY <1>0, <1>10, BeginIs, TurnsTypes, StoreTypes DEF Begin
<1>11. ASSUME NEW k \in Pack, NextPart(k) PROVE Types'
  <2>1. /\ task' \in [Task -> TaskState] /\ lane' \in [Pack -> LaneState] /\ Within'
    BY <1>11, NextPartIs, TurnsTypes
  <2> QED BY <1>0, <1>11, <2>1, StoreTypes DEF NextPart
<1>12. ASSUME NEW k \in Pack, TryFails(k) PROVE Types'
  <2>1. /\ task' \in [Task -> TaskState] /\ lane' \in [Pack -> LaneState] /\ Within'
    BY <1>12, TryFailsIs, TurnsTypes
  <2> QED BY <1>0, <1>12, <2>1, FaultyTypes DEF TryFails
<1>13. ASSUME NEW k \in Pack,
              Bake(k) \/ Keep(k) \/ Render(k) \/ PutSegment(k) \/ Vouch(k)
       PROVE  Types'
  <2>1. /\ task' \in [Task -> TaskState] /\ lane' \in [Pack -> LaneState] /\ Within'
    BY <1>13, LaneMoves, TurnsTypes
  <2>2. lane[k].out \in Segment /\ lane[k].out.bytes \in 0..2
    BY LaneIs DEF LaneState, Segment
  <2>3. packs' \subseteq Pack
    BY <1>13 DEF Types, Bake, Keep, Render, PutSegment, Vouch, store
  <2>4. segment' \in [Part -> Segment]
    BY <1>13, <2>2 DEF Types, Bake, Keep, Render, PutSegment, Vouch, store
  <2>5. receipt' \in [Part -> 0..2]
    BY <1>13, <2>2 DEF Types, Bake, Keep, Render, PutSegment, Vouch, store
  <2>6. film' \in [Part -> Segment] /\ stop' \in BOOLEAN /\ faults' \in Nat /\ asks' \in Nat
    BY <1>13 DEF Types, Bake, Keep, Render, PutSegment, Vouch, store
  <2> QED BY <2>1, <2>3, <2>4, <2>5, <2>6 DEF Types
<1>14. CASE Stop
  BY <1>14, FaultyTypes DEF Stop, Types, Within
<1>15. CASE GoOn
  BY <1>15, StoreTypes DEF GoOn, Types, Within
<1>16. CASE UNCHANGED vars
  BY <1>16 DEF vars, Types, Within
<1> QED
  BY <1>1, <1>2, <1>3, <1>4, <1>5, <1>6, <1>7, <1>8, <1>9, <1>10, <1>11, <1>12, <1>13,
     <1>14, <1>15, <1>16 DEF Next, TaskStep, LaneStep

(* Every variable of the production keeps its type, and a lane has in hand  *)
(* only parts of its own pack.                                              *)
THEOREM TypeCorrect == Spec => []TypeOK
<1>1. Init => Types
  BY TypeInit, TypesSame
<1>2. Types /\ [Next]_vars => Types'
  BY TypeStep
<1> QED BY <1>1, <1>2, TypesSame, PTL DEF Spec
-----------------------------------------------------------------------------
(* What is stored.                                                          *)

\* A segment there is whole, and a receipt names one that is there.
Sound ==
  \A p \in Part :
    /\ segment[p] # Nothing => segment[p].whole /\ segment[p].bytes # 0
    /\ receipt[p] # 0 => segment[p] # Nothing

\* What a lane is about to put, and to vouch for once it is there.
Made == \A k \in Pack : lane[k].pc \in {"put", "vouch"} => lane[k].out \in Output /\ lane[k].out.whole
PutThere == \A k \in Pack : lane[k].pc = "vouch" => \A p \in lane[k].on : segment[p] = lane[k].out

Stored == Sound /\ Made /\ PutThere


LEMMA StoredInit == Init => Stored
<1> SUFFICES ASSUME Init PROVE Stored
  OBVIOUS
<1>1. Earlier # Nothing /\ Earlier.whole /\ Earlier.bytes # 0
  BY DEF Earlier, Nothing
<1>2. Sound
  BY <1>1 DEF Init, Sound
<1>3. Made /\ PutThere
  BY DEF Init, Made, PutThere, Queued
<1> QED BY <1>2, <1>3 DEF Stored

\* Nothing is put, and lanes stay as they are or are gone.
LEMMA StoredKept ==
  ASSUME Stored, UNCHANGED <<segment, receipt>>,
         \A k \in Pack : lane'[k] = lane[k] \/ lane'[k] = Queued
  PROVE  Stored'
<1>1. Queued.pc = "queued"
  BY DEF Queued
<1> QED BY <1>1 DEF Stored, Sound, Made, PutThere

\* Nothing is put, and a lane turns to what has nothing to put yet.
LEMMA StoredTurn ==
  ASSUME Types, Stored, UNCHANGED <<segment, receipt>>, NEW k \in Pack, NEW l \in LaneState,
         Turns(k, l), l.pc # "vouch", l.pc = "put" => l.out \in Output /\ l.out.whole
  PROVE  Stored'
<1>1. \A j \in Pack : lane'[j] = IF j = k THEN l ELSE lane[j]
  BY DEF Types, Turns
<1> QED BY <1>1 DEF Stored, Sound, Made, PutThere

LEMMA EndLanes ==
  ASSUME Types, NEW t \in Task, NEW how, End(t, how)
  PROVE  /\ \A k \in Pack : lane'[k] = IF TaskOf[k] = t THEN Queued ELSE lane[k]
         /\ \A q \in Task : q # t => task'[q] = task[q]
         /\ task'[t].pc = "over" /\ task'[t].end = how
BY DEF Types, TaskState, End, Packs

LEMMA StoredStep == Types /\ Stored /\ [Next]_vars => Stored'
<1> SUFFICES ASSUME Types, Stored, [Next]_vars PROVE Stored'
  OBVIOUS
<1>1. ASSUME NEW t \in Task, Ask(t) \/ AskAgain(t) \/ TaskStep(t) \/ Fail(t) PROVE Stored'
  <2>1. UNCHANGED <<segment, receipt>>
    BY <1>1 DEF Ask, AskAgain, TaskStep, Fail, List, Read, LanesOver, Check, PutFilm, Get, store
  <2>2. UNCHANGED lane \/ \E how \in Ends : End(t, how)
    BY <1>1 DEF Ask, AskAgain, TaskStep, Fail, List, Read, LanesOver, Check, PutFilm, Get, Ends
  <2> QED BY <2>1, <2>2, EndLanes, StoredKept
<1>2. ASSUME NEW k \in Pack, Begin(k) PROVE Stored'
  <2>1. Beginning(k).pc \notin {"put", "vouch"}
    BY DEF Beginning, Queued
  <2>2. UNCHANGED <<segment, receipt>>
    BY <1>2 DEF Begin, store
  <2> QED BY <1>2, <2>1, <2>2, BeginIs, StoredTurn
<1>3. ASSUME NEW k \in Pack, NextPart(k) PROVE Stored'
  <2>1. PICK l \in LaneState : Turns(k, l) /\ l.pc \notin {"put", "vouch"}
    BY <1>3, NextPartIs, LaneIs DEF LaneState
  <2>2. UNCHANGED <<segment, receipt>>
    BY <1>3 DEF NextPart, store
  <2> QED BY <2>1, <2>2, StoredTurn
<1>4. ASSUME NEW k \in Pack, TryFails(k) PROVE Stored'
  <2>0. lane[k].pc \in {"bake", "render"}
    BY <1>4 DEF TryFails
  <2>1. PICK l \in LaneState : Turns(k, l) /\ l.pc \notin {"put", "vouch"}
    BY <1>4, <2>0, TryFailsIs, LaneIs DEF LaneState
  <2>2. UNCHANGED <<segment, receipt>>
    BY <1>4 DEF TryFails, store
  <2> QED BY <2>1, <2>2, StoredTurn
<1>5. ASSUME NEW k \in Pack, Bake(k) \/ Keep(k) \/ Render(k) PROVE Stored'
  <2>1. PICK l \in LaneState : /\ Turns(k, l) /\ l.pc # "vouch"
                               /\ l.pc = "put" => l.out \in Output /\ l.out.whole
    <3>1. lane[k].pc \notin {"put", "vouch"}
      BY <1>5 DEF Bake, Keep, Render, In
    <3>2. ~PutSegment(k) /\ ~Vouch(k)
      BY <3>1 DEF PutSegment, Vouch, In
    <3>3. PICK l \in LaneState :
            /\ Turns(k, l)
            /\ \/ l = [lane[k] EXCEPT !.pc = "keep"]
               \/ l = [lane[k] EXCEPT !.pc = "next", !.tried = 0]
               \/ \E out \in Output : out.whole /\ l = [lane[k] EXCEPT !.pc = "put", !.out = out]
      BY <1>5, <3>2, LaneMoves
    <3>4. l.pc # "vouch" /\ (l.pc = "put" => l.out \in Output /\ l.out.whole)
      <4>1. CASE l = [lane[k] EXCEPT !.pc = "keep"] \/ l = [lane[k] EXCEPT !.pc = "next", !.tried = 0]
        BY <4>1, LaneIs DEF LaneState
      <4>2. CASE \E out \in Output : out.whole /\ l = [lane[k] EXCEPT !.pc = "put", !.out = out]
        <5>1. PICK out \in Output : out.whole /\ l = [lane[k] EXCEPT !.pc = "put", !.out = out]
          BY <4>2
        <5>2. l.pc = "put" /\ l.out = out
          BY <5>1, LaneIs DEF LaneState
        <5> QED BY <5>1, <5>2
      <4> QED BY <3>3, <4>1, <4>2
    <3> QED BY <3>3, <3>4
  <2>2. UNCHANGED <<segment, receipt>>
    BY <1>5 DEF Bake, Keep, Render, store
  <2> QED BY <2>1, <2>2, StoredTurn
<1>6. ASSUME NEW k \in Pack, PutSegment(k) PROVE Stored'
  <2>1. lane[k].pc = "put" /\ lane[k].out \in Output /\ lane[k].out.whole
    BY <1>6 DEF Stored, Made, PutSegment, In
  <2>2. \A p \in Part : segment'[p] = IF p \in lane[k].on THEN lane[k].out ELSE segment[p]
    BY <1>6 DEF PutSegment
  <2>3. \A j \in Pack : /\ lane'[j].on = lane[j].on /\ lane'[j].out = lane[j].out
                        /\ lane'[j].pc = IF j = k THEN "vouch" ELSE lane[j].pc
    BY <1>6, LaneIs DEF PutSegment, Types, LaneState
  <2>4. lane[k].out # Nothing /\ lane[k].out.bytes # 0
    BY <2>1 DEF Output, Nothing
  <2>5. Sound'
    BY <1>6, <2>1, <2>2, <2>4 DEF Stored, Sound, PutSegment
  <2>6. Made'
    BY <2>1, <2>3 DEF Stored, Made
  <2>7. PutThere'
    <3> SUFFICES ASSUME NEW j \in Pack, lane'[j].pc = "vouch", NEW p \in lane[j].on
                 PROVE  segment'[p] = lane[j].out
      BY <2>3 DEF PutThere
    <3>1. p \in Parts(j) /\ p \in Part /\ PackOf[p] = j
      BY LaneIs DEF Parts
    <3>2. CASE j = k
      BY <2>2, <3>1, <3>2
    <3>3. CASE j # k
      <4>1. p \notin lane[k].on
        BY <3>1, <3>3, LaneIs DEF Parts
      <4> QED BY <2>2, <2>3, <3>1, <3>3, <4>1 DEF Stored, PutThere
    <3> QED BY <3>2, <3>3
  <2> QED BY <2>5, <2>6, <2>7 DEF Stored
<1>7. ASSUME NEW k \in Pack, Vouch(k) PROVE Stored'
  <2>1. /\ lane[k].pc = "vouch" /\ lane[k].out \in Output
        /\ \A p \in lane[k].on : segment[p] = lane[k].out
    BY <1>7 DEF Stored, Made, PutThere, Vouch, In
  <2>2. \A j \in Pack : IF j = k THEN lane'[j].pc = "next" ELSE lane'[j] = lane[j]
    BY <1>7, LaneIs DEF Vouch, Types, LaneState
  <2>3. lane[k].out # Nothing
    BY <2>1 DEF Output, Nothing
  <2>4. \A p \in Part : receipt'[p] = IF p \in lane[k].on THEN lane[k].out.bytes ELSE receipt[p]
    BY <1>7 DEF Vouch
  <2>5. Sound'
    BY <1>7, <2>1, <2>3, <2>4 DEF Stored, Sound, Vouch
  <2>6. Made' /\ PutThere'
    <3>1. segment' = segment
      BY <1>7 DEF Vouch
    <3> QED BY <2>2, <3>1 DEF Stored, Made, PutThere
  <2> QED BY <2>5, <2>6 DEF Stored
<1>8. CASE Stop \/ GoOn \/ UNCHANGED vars
  <2>1. UNCHANGED <<segment, receipt, lane>>
    BY <1>8 DEF Stop, GoOn, vars, store
  <2> QED BY <2>1, StoredKept
<1> QED BY <1>1, <1>2, <1>3, <1>4, <1>5, <1>6, <1>7, <1>8 DEF Next, LaneStep

(* A receipt is never there before the segment it names, nor names one that *)
(* is short of its frames, whichever task put either and wherever it died.  *)
THEOREM ReceiptsAreTrue == Spec => []ReceiptsVouch
<1>1. Init => Types /\ Stored
  BY TypeInit, TypesSame, StoredInit
<1>2. Types /\ Stored /\ [Next]_vars => Types' /\ Stored'
  BY TypeStep, StoredStep
<1>3. Types /\ Stored => ReceiptsVouch
  BY DEF Stored, Sound, ReceiptsVouch
<1> QED BY <1>1, <1>2, <1>3, PTL DEF Spec

-----------------------------------------------------------------------------
(* What the tasks know of it, where nothing is rendered again.              *)

Vouching == \A p \in Part : receipt[p] # 0 => receipt[p] = segment[p].bytes

\* A task has lanes while it works, and they leave nothing out when it looks.
Rested ==
  \A k \in Pack :
    /\ task[TaskOf[k]].pc \in {"idle", "list", "read", "over"} => lane[k] = Queued
    /\ task[TaskOf[k]].pc \in {"look", "check", "join"} => lane[k].pc = "over" /\ lane[k].lost = {}

\* A lane has in hand what nobody has vouched for, and has the rest behind it.
InHand ==
  \A k \in Pack :
    /\ \A p \in lane[k].left \cup lane[k].on : receipt[p] = 0
    /\ lane[k].left \cap lane[k].on = {}
    /\ lane[k].pc \notin {"render", "put", "vouch"} => lane[k].on = {}
    /\ lane[k].pc = "over" => lane[k].left \subseteq lane[k].lost
    /\ lane[k].pc \notin {"queued", "stopped"} =>
         \A p \in Parts(k) : receipt[p] # 0 \/ p \in lane[k].left \cup lane[k].on \cup lane[k].lost

\* What a task reads of its own parts is so until its lanes begin.
Known ==
  \A t \in Task :
    /\ task[t].pc \in {"read", "check"} =>
         \A p \in Part : task[t].listed[p] # 0 => receipt[p] = task[t].listed[p]
    /\ task[t].pc = "read" =>
         \A p \in Part : Owner(p) = t /\ task[t].listed[p] = 0 => receipt[p] = 0
    /\ task[t].pc = "work" =>
         \A p \in Part : Owner(p) = t /\ lane[PackOf[p]].pc = "queued" =>
           (p \in task[t].done <=> receipt[p] # 0)

\* The parts of a task that ended well are vouched for, and the film is what
\* it was joined from.
Finished ==
  \A t \in Task :
    /\ task[t].pc = "over" /\ EndedWell(t) => \A p \in Part : Owner(p) = t => receipt[p] # 0
    /\ task[t].pc = "over" /\ task[t].end = "Film" => film # NoFilm
    /\ task[t].pc = "join" =>
         \A p \in Part : receipt[p] # 0 /\ task[t].got[p] \in {Nothing, segment[p]}
    /\ task[t].pc \notin {"join", "over"} => task[t].got = NoFilm

Filmed == film = NoFilm \/ (film = segment /\ \A p \in Part : receipt[p] # 0)

\* A task that may yet find every part there.
Late(q) ==
  \/ task[q].pc \in {"idle", "list", "read", "work", "look", "join"}
  \/ task[q].pc = "over" /\ ~EndedWell(q)
  \/ task[q].pc = "check" /\ \A p \in Part : task[q].listed[p] # 0

\* A task that will leave the film to another.
Leaves(t) ==
  \/ task[t].pc = "over" /\ task[t].end = "Waiting"
  \/ task[t].pc = "check" /\ \E p \in Part : task[t].listed[p] = 0

LateOne == (\E t \in Task : Leaves(t)) => film # NoFilm \/ \E q \in Task : Late(q)

Shared == Vouching /\ Rested /\ InHand /\ Known /\ Finished /\ Filmed /\ LateOne

Inv == Types /\ Stored /\ Shared

LEMMA SharedInit == Init => Shared
<1> SUFFICES ASSUME Init PROVE Shared
  OBVIOUS
<1>1. \A k \in Pack : lane[k] = Queued
  BY DEF Init
<1>2. \A t \in Task : task[t] = Idle
  BY DEF Init
<1>3. Vouching /\ Filmed
  BY DEF Init, Vouching, Filmed
<1>4. Rested /\ InHand
  <2>1. Rested
    BY <1>1, <1>2, OrderAssumption DEF Rested, Idle
  <2>2. Queued.pc = "queued" /\ Queued.left = {} /\ Queued.on = {}
    BY DEF Queued
  <2>3. InHand
    BY <1>1, <2>2 DEF InHand
  <2> QED BY <2>1, <2>3
<1>5. Known /\ Finished /\ LateOne
  BY <1>2 DEF Known, Finished, LateOne, Leaves, EndedWell, Idle
<1> QED BY <1>3, <1>4, <1>5 DEF Shared

LEMMA Owners == \A k \in Pack : TaskOf[k] \in Task /\ \A p \in Parts(k) : p \in Part /\ PackOf[p] = k
BY OrderAssumption DEF Parts

\* A lane that is neither waiting nor over is of a task that works.
LEMMA Working ==
  ASSUME Types, Rested, NEW k \in Pack, lane[k].pc \notin {"queued", "over"}
  PROVE  task[TaskOf[k]].pc = "work"
<1>1. task[TaskOf[k]].pc \in TaskPCs
  BY Owners DEF Types, TaskState
<1> QED BY <1>1 DEF Rested, TaskPCs, Queued

\* A lane that is over with nothing lost leaves no part unvouched for.
LEMMA AllVouched ==
  ASSUME Types, InHand, NEW k \in Pack, lane[k].pc = "over", lane[k].lost = {}
  PROVE  \A p \in Parts(k) : receipt[p] # 0
BY DEF InHand

LEMMA OwnVouched ==
  ASSUME Types, Rested, InHand, NEW t \in Task, task[t].pc \in {"look", "check", "join"}
  PROVE  \A p \in Part : Owner(p) = t => receipt[p] # 0
<1> SUFFICES ASSUME NEW p \in Part, Owner(p) = t PROVE receipt[p] # 0
  OBVIOUS
<1>1. PackOf[p] \in Pack /\ p \in Parts(PackOf[p]) /\ TaskOf[PackOf[p]] = t
  BY OrderAssumption DEF Owner, Parts
<1>2. lane[PackOf[p]].pc = "over" /\ lane[PackOf[p]].lost = {}
  BY <1>1 DEF Rested
<1> QED BY <1>1, <1>2, AllVouched

-----------------------------------------------------------------------------
(* Steps of a lane.                                                         *)

\* A lane turns, and nothing is put.
LEMMA SharedTurn ==
  ASSUME Types, Shared, UNCHANGED <<segment, receipt, film>>,
         NEW k \in Pack, NEW l \in LaneState, Turns(k, l),
         task[TaskOf[k]].pc = "work", l.pc # "queued",
         \A p \in l.left \cup l.on : receipt[p] = 0,
         l.left \cap l.on = {},
         l.pc \notin {"render", "put", "vouch"} => l.on = {},
         l.pc = "over" => l.left \subseteq l.lost,
         l.pc # "stopped" =>
           \A p \in Parts(k) : receipt[p] # 0 \/ p \in l.left \cup l.on \cup l.lost
  PROVE  Shared'
<1>1. \A j \in Pack : lane'[j] = IF j = k THEN l ELSE lane[j]
  BY DEF Types, Turns
<1>2. task' = task
  BY DEF Turns
<1>3. Vouching' /\ Finished' /\ Filmed' /\ LateOne'
  BY <1>2 DEF Shared, Vouching, Finished, Filmed, LateOne, Leaves, Late, EndedWell
<1>4. Rested'
  BY <1>1, <1>2 DEF Shared, Rested
<1>5. InHand'
  BY <1>1 DEF Shared, InHand
<1>6. Known'
  <2>1. \A p \in Part : lane'[PackOf[p]].pc = "queued" => lane[PackOf[p]].pc = "queued"
    BY <1>1, OrderAssumption
  <2> QED BY <1>2, <2>1 DEF Shared, Known
<1> QED BY <1>3, <1>4, <1>5, <1>6 DEF Shared

LEMMA SharedBegin == ASSUME Inv, NEW k \in Pack, Begin(k), ~RenderAgain PROVE Shared'
<1> DEFINE l == Beginning(k)
<1>0. Types /\ Shared
  BY DEF Inv
<1>1. Turns(k, l) /\ l \in LaneState
  BY <1>0, BeginIs
<1>2. UNCHANGED <<segment, receipt, film>> /\ task[TaskOf[k]].pc = "work" /\ lane[k].pc = "queued"
  BY DEF Begin, store, At, In
<1>3. \A p \in Parts(k) : p \in task[TaskOf[k]].done <=> receipt[p] # 0
  BY <1>0, <1>2, Owners DEF Shared, Known, Owner
<1>4. \A p \in Parts(k) : p \in Wanted(k) <=> receipt[p] = 0
  BY <1>3 DEF Wanted
<1>5. Wanted(k) \subseteq Parts(k)
  BY DEF Wanted
<1>6. CASE Wanted(k) = {}
  <2>1. l.pc = "over" /\ l.left = {} /\ l.on = {} /\ l.lost = {}
    BY <1>6 DEF Beginning, Queued
  <2> QED BY <1>0, <1>1, <1>2, <1>4, <1>6, <2>1, SharedTurn
<1>7. CASE Wanted(k) # {} /\ stop
  <2>1. l.pc = "stopped" /\ l.left = {} /\ l.on = {} /\ l.lost = {}
    BY <1>7 DEF Beginning, Queued
  <2> QED BY <1>0, <1>1, <1>2, <2>1, SharedTurn
<1>8. CASE Wanted(k) # {} /\ ~stop
  <2>1. l.pc \in {"bake", "next"} /\ l.left = Wanted(k) /\ l.on = {} /\ l.lost = {}
    BY <1>8 DEF Beginning, Queued
  <2> QED BY <1>0, <1>1, <1>2, <1>4, <1>5, <2>1, SharedTurn
<1> QED BY <1>6, <1>7, <1>8

LEMMA SharedNextPart == ASSUME Inv, NEW k \in Pack, NextPart(k) PROVE Shared'
<1>0. Types /\ Shared
  BY DEF Inv
<1>1. UNCHANGED <<segment, receipt, film>> /\ lane[k].pc = "next"
  BY DEF NextPart, store, In
<1>2. task[TaskOf[k]].pc = "work"
  BY <1>0, <1>1, Working DEF Shared
<1>3. /\ \A p \in lane[k].left \cup lane[k].on : receipt[p] = 0
      /\ lane[k].on = {}
      /\ \A p \in Parts(k) : receipt[p] # 0 \/ p \in lane[k].left \cup lane[k].on \cup lane[k].lost
  BY <1>0, <1>1 DEF Shared, InHand
<1>4. PICK l \in LaneState :
        /\ Turns(k, l)
        /\ \/ lane[k].left = {} /\ l = [lane[k] EXCEPT !.pc = "over"]
           \/ l = [lane[k] EXCEPT !.pc = "stopped"]
           \/ \E p \in lane[k].left :
                l = [lane[k] EXCEPT !.pc = "render", !.on = {p}, !.tried = 0,
                                    !.left = lane[k].left \ {p}]
  BY <1>0, NextPartIs
<1>5. lane[k] \in LaneState
  BY <1>0, LaneIs
<1>6. CASE lane[k].left = {} /\ l = [lane[k] EXCEPT !.pc = "over"]
  <2>1. l.pc = "over" /\ l.left = {} /\ l.on = {} /\ l.lost = lane[k].lost
    BY <1>3, <1>5, <1>6 DEF LaneState
  <2> QED BY <1>0, <1>1, <1>2, <1>3, <1>4, <1>6, <2>1, SharedTurn
<1>7. CASE l = [lane[k] EXCEPT !.pc = "stopped"]
  <2>1. l.pc = "stopped" /\ l.left = lane[k].left /\ l.on = {} /\ l.lost = lane[k].lost
    BY <1>3, <1>5, <1>7 DEF LaneState
  <2> QED BY <1>0, <1>1, <1>2, <1>3, <1>4, <2>1, SharedTurn
<1>8. CASE \E p \in lane[k].left :
             l = [lane[k] EXCEPT !.pc = "render", !.on = {p}, !.tried = 0,
                                 !.left = lane[k].left \ {p}]
  <2>1. PICK p \in lane[k].left :
          l = [lane[k] EXCEPT !.pc = "render", !.on = {p}, !.tried = 0,
                              !.left = lane[k].left \ {p}]
    BY <1>8
  <2>2. l.pc = "render" /\ l.left = lane[k].left \ {p} /\ l.on = {p} /\ l.lost = lane[k].lost
    BY <1>5, <2>1 DEF LaneState
  <2>3. /\ \A q \in l.left \cup l.on : receipt[q] = 0
        /\ l.left \cap l.on = {}
        /\ \A q \in Parts(k) : receipt[q] # 0 \/ q \in l.left \cup l.on \cup l.lost
    BY <1>3, <2>2
  <2> QED BY <1>0, <1>1, <1>2, <1>4, <2>2, <2>3, SharedTurn
<1> QED BY <1>4, <1>6, <1>7, <1>8

LEMMA SharedTryFails == ASSUME Inv, NEW k \in Pack, TryFails(k) PROVE Shared'
<1>0. Types /\ Shared
  BY DEF Inv
<1>1. UNCHANGED <<segment, receipt, film>> /\ lane[k].pc \in {"bake", "render"}
  BY DEF TryFails, store
<1>2. task[TaskOf[k]].pc = "work"
  BY <1>0, <1>1, Working DEF Shared
<1>3. /\ \A p \in lane[k].left \cup lane[k].on : receipt[p] = 0
      /\ lane[k].left \cap lane[k].on = {}
      /\ lane[k].pc = "bake" => lane[k].on = {}
      /\ \A p \in Parts(k) : receipt[p] # 0 \/ p \in lane[k].left \cup lane[k].on \cup lane[k].lost
  BY <1>0, <1>1 DEF Shared, InHand
<1>4. PICK l \in LaneState :
        /\ Turns(k, l)
        /\ \/ \E n \in 0..(Tries - 1) : l = [lane[k] EXCEPT !.tried = n]
           \/ /\ lane[k].pc = "bake"
              /\ l = [lane[k] EXCEPT !.pc = "over", !.lost = lane[k].lost \cup lane[k].left]
           \/ /\ lane[k].pc = "render"
              /\ l = [lane[k] EXCEPT !.pc = "next", !.lost = lane[k].lost \cup lane[k].on,
                                     !.on = {}]
  BY <1>0, TryFailsIs
<1>5. lane[k] \in LaneState
  BY <1>0, LaneIs
<1>6. CASE \E n \in 0..(Tries - 1) : l = [lane[k] EXCEPT !.tried = n]
  <2>1. l.pc = lane[k].pc /\ l.left = lane[k].left /\ l.on = lane[k].on /\ l.lost = lane[k].lost
    BY <1>5, <1>6 DEF LaneState
  <2> QED BY <1>0, <1>1, <1>2, <1>3, <1>4, <2>1, SharedTurn
<1>7. CASE lane[k].pc = "bake" /\ l = [lane[k] EXCEPT !.pc = "over", !.lost = lane[k].lost \cup lane[k].left]
  <2>1. l.pc = "over" /\ l.left = lane[k].left /\ l.on = {} /\ l.lost = lane[k].lost \cup lane[k].left
    BY <1>3, <1>5, <1>7 DEF LaneState
  <2>2. \A q \in Parts(k) : receipt[q] # 0 \/ q \in l.left \cup l.on \cup l.lost
    BY <1>3, <1>7, <2>1
  <2> QED BY <1>0, <1>1, <1>2, <1>3, <1>4, <2>1, <2>2, SharedTurn
<1>8. CASE lane[k].pc = "render" /\ l = [lane[k] EXCEPT !.pc = "next", !.lost = lane[k].lost \cup lane[k].on, !.on = {}]
  <2>1. l.pc = "next" /\ l.left = lane[k].left /\ l.on = {} /\ l.lost = lane[k].lost \cup lane[k].on
    BY <1>5, <1>8 DEF LaneState
  <2>2. \A q \in Parts(k) : receipt[q] # 0 \/ q \in l.left \cup l.on \cup l.lost
    BY <1>3, <2>1
  <2> QED BY <1>0, <1>1, <1>2, <1>3, <1>4, <2>1, <2>2, SharedTurn
<1> QED BY <1>4, <1>6, <1>7, <1>8

LEMMA SharedMakes == ASSUME Inv, NEW k \in Pack, Bake(k) \/ Keep(k) \/ Render(k) PROVE Shared'
<1>0. Types /\ Shared
  BY DEF Inv
<1>1. UNCHANGED <<segment, receipt, film>>
  BY DEF Bake, Keep, Render, store
<1>2. /\ lane[k].pc \in {"bake", "keep", "render"}
      /\ Bake(k) \/ Keep(k) => lane[k].pc # "render"
      /\ Render(k) => lane[k].pc = "render"
  BY DEF Bake, Keep, Render, In
<1>3. task[TaskOf[k]].pc = "work"
  BY <1>0, <1>2, Working DEF Shared
<1>4. /\ \A p \in lane[k].left \cup lane[k].on : receipt[p] = 0
      /\ lane[k].left \cap lane[k].on = {}
      /\ lane[k].pc # "render" => lane[k].on = {}
      /\ \A p \in Parts(k) : receipt[p] # 0 \/ p \in lane[k].left \cup lane[k].on \cup lane[k].lost
  BY <1>0, <1>2 DEF Shared, InHand
<1>5. ~PutSegment(k) /\ ~Vouch(k)
  BY <1>2 DEF PutSegment, Vouch, In
<1>6. PICK l \in LaneState :
        /\ Turns(k, l)
        /\ \/ Bake(k) /\ l = [lane[k] EXCEPT !.pc = "keep"]
           \/ Keep(k) /\ l = [lane[k] EXCEPT !.pc = "next", !.tried = 0]
           \/ \E out \in Output :
                Render(k) /\ out.whole /\ l = [lane[k] EXCEPT !.pc = "put", !.out = out]
  BY <1>0, <1>5, LaneMoves
<1>7. lane[k] \in LaneState
  BY <1>0, LaneIs
<1>8. /\ l.left = lane[k].left /\ l.on = lane[k].on /\ l.lost = lane[k].lost
      /\ l.pc \in {"keep", "next", "put"}
      /\ l.pc # "put" => lane[k].pc # "render"
  <2>1. CASE Bake(k) /\ l = [lane[k] EXCEPT !.pc = "keep"]
    BY <1>2, <1>7, <2>1 DEF LaneState
  <2>2. CASE Keep(k) /\ l = [lane[k] EXCEPT !.pc = "next", !.tried = 0]
    BY <1>2, <1>7, <2>2 DEF LaneState
  <2>3. CASE \E out \in Output :
               Render(k) /\ out.whole /\ l = [lane[k] EXCEPT !.pc = "put", !.out = out]
    BY <1>2, <1>7, <2>3 DEF LaneState
  <2> QED BY <1>6, <2>1, <2>2, <2>3
<1> QED BY <1>0, <1>1, <1>3, <1>4, <1>6, <1>8, SharedTurn

LEMMA SharedPut == ASSUME Inv, NEW k \in Pack, PutSegment(k) PROVE Shared'
<1>0. Types /\ Shared
  BY DEF Inv
<1>1. lane[k].pc = "put" /\ receipt' = receipt /\ film' = film /\ task' = task
  BY DEF PutSegment, In
<1>2. \A p \in Part : segment'[p] = IF p \in lane[k].on THEN lane[k].out ELSE segment[p]
  BY DEF PutSegment
<1>3. \A j \in Pack :
        /\ lane'[j].left = lane[j].left /\ lane'[j].on = lane[j].on /\ lane'[j].lost = lane[j].lost
        /\ lane'[j].pc = IF j = k THEN "vouch" ELSE lane[j].pc
        /\ j # k => lane'[j] = lane[j]
  BY <1>0, LaneIs DEF PutSegment, Types, LaneState
<1>4. \A p \in Part : receipt[p] # 0 => segment'[p] = segment[p]
  BY <1>0, <1>2 DEF Shared, InHand
<1>5. task[TaskOf[k]].pc = "work"
  BY <1>0, <1>1, Working DEF Shared
<1>6. Vouching'
  BY <1>0, <1>1, <1>4 DEF Shared, Vouching
<1>7. Rested'
  BY <1>0, <1>1, <1>3, <1>5 DEF Shared, Rested
<1>8. InHand'
  BY <1>0, <1>1, <1>3 DEF Shared, InHand
<1>9. Known'
  <2>1. \A p \in Part : lane'[PackOf[p]].pc = "queued" => lane[PackOf[p]].pc = "queued"
    BY <1>3, OrderAssumption
  <2> QED BY <1>0, <1>1, <2>1 DEF Shared, Known
<1>10. Finished'
  BY <1>0, <1>1, <1>4 DEF Shared, Finished, EndedWell
<1>11. Filmed'
  <2>1. CASE film = NoFilm
    BY <1>1, <2>1 DEF Filmed
  <2>2. CASE film = segment /\ \A p \in Part : receipt[p] # 0
    <3>1. segment' = segment
      BY <1>0, <1>4, <2>2 DEF PutSegment, Types
    <3> QED BY <1>1, <2>2, <3>1 DEF Filmed
  <2> QED BY <1>0, <2>1, <2>2 DEF Shared, Filmed
<1>12. LateOne'
  BY <1>0, <1>1 DEF Shared, LateOne, Leaves, Late, EndedWell
<1> QED BY <1>6, <1>7, <1>8, <1>9, <1>10, <1>11, <1>12 DEF Shared

LEMMA SharedVouch == ASSUME Inv, NEW k \in Pack, Vouch(k) PROVE Shared'
<1>0. Types /\ Stored /\ Shared
  BY DEF Inv
<1>1. lane[k].pc = "vouch" /\ segment' = segment /\ film' = film /\ task' = task
  BY DEF Vouch, In
<1>2. \A p \in Part : receipt'[p] = IF p \in lane[k].on THEN lane[k].out.bytes ELSE receipt[p]
  BY DEF Vouch
<1>3. \A j \in Pack :
        /\ j # k => lane'[j] = lane[j]
        /\ j = k => /\ lane'[j].pc = "next" /\ lane'[j].on = {}
                    /\ lane'[j].left = lane[j].left /\ lane'[j].lost = lane[j].lost
  BY <1>0, LaneIs DEF Vouch, Types, LaneState
<1>4. /\ lane[k].out.bytes # 0
      /\ \A p \in lane[k].on : segment[p] = lane[k].out /\ receipt[p] = 0
  BY <1>0, <1>1 DEF Stored, Made, PutThere, Output, Shared, InHand
<1>5. \A p \in Part : receipt[p] # 0 => receipt'[p] = receipt[p]
  BY <1>2, <1>4
<1>6. task[TaskOf[k]].pc = "work"
  BY <1>0, <1>1, Working DEF Shared
<1>7. \A p \in lane[k].on : p \in Part /\ p \in Parts(k) /\ PackOf[p] = k /\ Owner(p) = TaskOf[k]
  BY <1>0, LaneIs, Owners DEF Owner
<1>8. Vouching'
  BY <1>0, <1>1, <1>2, <1>4 DEF Shared, Vouching
<1>9. Rested'
  BY <1>0, <1>1, <1>3, <1>6 DEF Shared, Rested
<1>10. InHand'
  <2> SUFFICES ASSUME NEW j \in Pack
               PROVE  /\ \A p \in lane'[j].left \cup lane'[j].on : receipt'[p] = 0
                      /\ lane'[j].left \cap lane'[j].on = {}
                      /\ lane'[j].pc \notin {"render", "put", "vouch"} => lane'[j].on = {}
                      /\ lane'[j].pc = "over" => lane'[j].left \subseteq lane'[j].lost
                      /\ lane'[j].pc \notin {"queued", "stopped"} =>
                           \A p \in Parts(j) :
                             receipt'[p] # 0 \/ p \in lane'[j].left \cup lane'[j].on \cup lane'[j].lost
    BY DEF InHand
  <2>1. \A p \in lane[j].left \cup lane[j].on : p \in Part /\ PackOf[p] = j /\ receipt[p] = 0
    BY <1>0, LaneIs, Owners DEF Shared, InHand
  <2>2. CASE j = k
    <3>1. \A p \in lane[k].left : p \notin lane[k].on
      BY <1>0 DEF Shared, InHand
    <3>2. \A p \in lane'[k].left \cup lane'[k].on : receipt'[p] = 0
      BY <1>2, <1>3, <2>1, <2>2, <3>1
    <3>3. \A p \in Parts(k) :
            receipt'[p] # 0 \/ p \in lane'[k].left \cup lane'[k].on \cup lane'[k].lost
      <4>1. \A p \in Parts(k) : receipt[p] # 0 \/ p \in lane[k].left \cup lane[k].on \cup lane[k].lost
        BY <1>0, <1>1 DEF Shared, InHand
      <4> QED BY <1>2, <1>3, <1>4, <1>5, <4>1, Owners
    <3> QED BY <1>3, <2>2, <3>2, <3>3
  <2>3. CASE j # k
    <3>1. \A p \in lane[j].left \cup lane[j].on : receipt'[p] = 0
      BY <1>2, <1>7, <2>1, <2>3
    <3>2. \A p \in Parts(j) : receipt[p] # 0 => receipt'[p] # 0
      BY <1>5, Owners
    <3> QED BY <1>0, <1>3, <2>3, <3>1, <3>2 DEF Shared, InHand
  <2> QED BY <2>2, <2>3
<1>11. Known'
  <2> SUFFICES ASSUME NEW t \in Task, NEW p \in Part
               PROVE  /\ task[t].pc \in {"read", "check"} =>
                           (task[t].listed[p] # 0 => receipt'[p] = task[t].listed[p])
                      /\ task[t].pc = "read" =>
                           (Owner(p) = t /\ task[t].listed[p] = 0 => receipt'[p] = 0)
                      /\ task[t].pc = "work" =>
                           (Owner(p) = t /\ lane'[PackOf[p]].pc = "queued" =>
                              (p \in task[t].done <=> receipt'[p] # 0))
    BY <1>1 DEF Known
  <2>1. task[t].pc \in {"read", "check"} /\ task[t].listed[p] # 0 => receipt'[p] = task[t].listed[p]
    BY <1>0, <1>5 DEF Shared, Known
  <2>2. task[t].pc = "read" /\ Owner(p) = t /\ task[t].listed[p] = 0 => receipt'[p] = 0
    BY <1>0, <1>2, <1>6, <1>7 DEF Shared, Known
  <2>3. task[t].pc = "work" /\ Owner(p) = t /\ lane'[PackOf[p]].pc = "queued" =>
          (p \in task[t].done <=> receipt'[p] # 0)
    <3>1. lane'[PackOf[p]].pc = "queued" =>
            p \notin lane[k].on /\ lane[PackOf[p]].pc = "queued"
      BY <1>3, <1>7, OrderAssumption
    <3> QED BY <1>0, <1>2, <3>1 DEF Shared, Known
  <2> QED BY <2>1, <2>2, <2>3
<1>12. Finished'
  BY <1>0, <1>1, <1>5 DEF Shared, Finished, EndedWell
<1>13. Filmed'
  BY <1>0, <1>1, <1>5 DEF Shared, Filmed
<1>14. LateOne'
  BY <1>0, <1>1 DEF Shared, LateOne, Leaves, Late, EndedWell
<1> QED BY <1>8, <1>9, <1>10, <1>11, <1>12, <1>13, <1>14 DEF Shared

-----------------------------------------------------------------------------
(* Steps of a task.                                                         *)

\* A task that ends, whatever its lanes were at.
LEMMA SharedEnd ==
  ASSUME Types, Shared, UNCHANGED <<segment, receipt>>, NEW t \in Task, NEW how, End(t, how),
         Filmed', how \in {"Film", "Waiting"} => \A p \in Part : Owner(p) = t => receipt[p] # 0,
         film # NoFilm => film' # NoFilm, how = "Film" => film' # NoFilm,
         how = "Waiting" => Leaves(t) /\ ~Late(t)
  PROVE  Shared'
<1>1. /\ \A k \in Pack : lane'[k] = IF TaskOf[k] = t THEN Queued ELSE lane[k]
      /\ \A q \in Task : q # t => task'[q] = task[q]
      /\ task'[t].pc = "over" /\ task'[t].end = how
  BY EndLanes
<1>2. Queued.pc = "queued" /\ Queued.left = {} /\ Queued.on = {}
  BY DEF Queued
<1>3. Vouching'
  BY DEF Shared, Vouching
<1>4. Rested'
  BY <1>1, Owners DEF Shared, Rested
<1>5. InHand'
  BY <1>1, <1>2 DEF Shared, InHand
<1>6. Known'
  <2>1. \A q \in Task, p \in Part : q # t /\ Owner(p) = q => lane'[PackOf[p]] = lane[PackOf[p]]
    BY <1>1, OrderAssumption DEF Owner
  <2> QED BY <1>1, <2>1 DEF Shared, Known
<1>7. Finished'
  BY <1>1 DEF Shared, Finished, EndedWell
<1>8. LateOne'
  <2>1. CASE how \notin {"Film", "Waiting"}
    <3>1. Late(t)'
      BY <1>1, <2>1 DEF Late, EndedWell
    <3> QED BY <3>1 DEF LateOne
  <2>2. CASE how = "Film"
    BY <2>2 DEF LateOne
  <2>3. CASE how = "Waiting"
    <3>1. film # NoFilm \/ \E q \in Task : Late(q) /\ q # t
      BY <2>3 DEF Shared, LateOne
    <3>2. \A q \in Task : Late(q) /\ q # t => Late(q)'
      BY <1>1 DEF Late, EndedWell
    <3> QED BY <3>1, <3>2 DEF LateOne
  <2> QED BY <2>1, <2>2, <2>3
<1> QED BY <1>3, <1>4, <1>5, <1>6, <1>7, <1>8 DEF Shared

\* A task that goes on to an await, and may yet join the film.
LEMMA SharedGoesOn ==
  ASSUME Types, Shared, UNCHANGED <<segment, receipt, film>>, NEW t \in Task, NEW s \in TaskState,
         Becomes(t, s), s.pc # "over",
         s.pc \in {"idle", "list", "read"} => task[t].pc \in {"idle", "list", "read", "over"},
         s.pc = "work" => task[t].pc = "read",
         s.pc \in {"look", "check", "join"} =>
           \A k \in Packs(t) : lane[k].pc = "over" /\ lane[k].lost = {},
         s.pc \in {"read", "check"} => \A p \in Part : s.listed[p] # 0 => receipt[p] = s.listed[p],
         s.pc = "read" => \A p \in Part : Owner(p) = t /\ s.listed[p] = 0 => receipt[p] = 0,
         s.pc = "work" => \A p \in Part : Owner(p) = t => (p \in s.done <=> receipt[p] # 0),
         s.pc = "join" => \A p \in Part : receipt[p] # 0 /\ s.got[p] \in {Nothing, segment[p]},
         s.pc # "join" => s.got = NoFilm,
         \/ Late(t)'
         \/ s.pc = "check" /\ \E q \in Task : q # t /\ Late(q)
  PROVE  Shared'
<1>1. /\ \A q \in Task : q # t => task'[q] = task[q]
      /\ task'[t] = s /\ lane' = lane
  BY DEF Types, Becomes
<1>2. Vouching' /\ Filmed'
  BY DEF Shared, Vouching, Filmed
<1>3. Rested'
  <2> SUFFICES ASSUME NEW k \in Pack
               PROVE  /\ task'[TaskOf[k]].pc \in {"idle", "list", "read", "over"} => lane[k] = Queued
                      /\ task'[TaskOf[k]].pc \in {"look", "check", "join"} =>
                           lane[k].pc = "over" /\ lane[k].lost = {}
    BY <1>1 DEF Rested
  <2>1. CASE TaskOf[k] = t
    BY <1>1, <2>1 DEF Shared, Rested, Packs
  <2>2. CASE TaskOf[k] # t
    BY <1>1, <2>2, Owners DEF Shared, Rested
  <2> QED BY <2>1, <2>2
<1>4. InHand'
  BY <1>1 DEF Shared, InHand
<1>5. Known'
  BY <1>1 DEF Shared, Known
<1>6. Finished'
  BY <1>1 DEF Shared, Finished, EndedWell
<1>7. LateOne'
  <2>1. \A q \in Task : q # t /\ Late(q) => Late(q)'
    BY <1>1 DEF Late, EndedWell
  <2> QED BY <2>1 DEF LateOne
<1> QED BY <1>2, <1>3, <1>4, <1>5, <1>6, <1>7 DEF Shared

LEMMA SharedBegan ==
  ASSUME Types, Shared, NEW t \in Task, task[t].pc \in {"idle", "over"}, Began(t),
         UNCHANGED <<store, lane>>
  PROVE  Shared'
<1> DEFINE s == [Idle EXCEPT !.pc = "list"]
<1>1. Becomes(t, s) /\ s \in TaskState
  BY BeganIs
<1>2. s.pc = "list" /\ s.got = NoFilm
  BY DEF Idle
<1>3. Late(t)'
  BY <1>1, <1>2 DEF Late, Becomes, Types
<1>4. UNCHANGED <<segment, receipt, film>>
  BY DEF store
<1> QED BY <1>1, <1>2, <1>3, <1>4, SharedGoesOn

LEMMA SharedList == ASSUME Inv, NEW t \in Task, List(t) PROVE Shared'
<1> DEFINE s == Listing(t)
<1>0. Types /\ Shared
  BY DEF Inv
<1>1. Becomes(t, s) /\ s \in TaskState
  BY <1>0, ListIs
<1>2. /\ s.pc = IF task[t].pc = "list" THEN "read" ELSE "check"
      /\ \A p \in Part : s.listed[p] = IF receipt[p] = 0 THEN 0 ELSE segment[p].bytes
      /\ s.got = task[t].got
  BY <1>0 DEF Listing, Types, TaskState
<1>3. task[t].pc \in {"list", "look"} /\ UNCHANGED <<segment, receipt, film>>
  BY DEF List, store
<1>4. \A p \in Part : IF receipt[p] = 0 THEN s.listed[p] = 0 ELSE s.listed[p] = receipt[p]
  BY <1>0, <1>2 DEF Shared, Vouching
<1>5. task[t].pc = "look" => \A k \in Packs(t) : lane[k].pc = "over" /\ lane[k].lost = {}
  BY <1>0 DEF Shared, Rested, Packs
<1>6. task'[t] = s
  BY <1>0, <1>1 DEF Becomes, Types
<1>7. Late(t)' \/ (s.pc = "check" /\ \E q \in Task : q # t /\ Late(q))
  <2>1. CASE s.pc = "read" \/ \A p \in Part : s.listed[p] # 0
    BY <1>2, <1>6, <2>1 DEF Late
  <2>2. CASE s.pc = "check" /\ \E p \in Part : s.listed[p] = 0
    <3>1. PICK p \in Part : receipt[p] = 0
      BY <1>4, <2>2
    <3>2. Owner(p) \in Task
      BY OrderAssumption DEF Owner
    <3>3. task[t].pc = "look"
      BY <1>2, <1>3, <2>2
    <3>4. Owner(p) # t
      BY <1>0, <3>1, <3>3, OwnVouched DEF Shared
    <3>5. Late(Owner(p))
      <4>1. task[Owner(p)].pc \in TaskPCs
        BY <1>0, <3>2 DEF Types, TaskState
      <4>2. task[Owner(p)].pc \notin {"look", "check", "join"}
        BY <1>0, <3>1, <3>2, OwnVouched DEF Shared
      <4>3. ~(task[Owner(p)].pc = "over" /\ EndedWell(Owner(p)))
        BY <1>0, <3>1, <3>2 DEF Shared, Finished
      <4> QED BY <4>1, <4>2, <4>3 DEF Late, TaskPCs
    <3> QED BY <2>2, <3>2, <3>4, <3>5
  <2> QED BY <1>2, <2>1, <2>2
<1>8. s.got = NoFilm
  BY <1>0, <1>2, <1>3 DEF Shared, Finished
<1> QED BY <1>0, <1>1, <1>2, <1>3, <1>4, <1>5, <1>7, <1>8, SharedGoesOn

LEMMA SharedRead == ASSUME Inv, NEW t \in Task, Read(t) PROVE Shared'
<1> DEFINE s == [task[t] EXCEPT !.pc = "work", !.done = Done(t)]
<1>0. Types /\ Shared
  BY DEF Inv
<1>1. Becomes(t, s) /\ s \in TaskState
  BY <1>0, ReadIs
<1>2. s.pc = "work" /\ s.done = Done(t) /\ s.got = NoFilm
  BY <1>0 DEF Types, TaskState, Shared, Finished, Read, At
<1>3. task[t].pc = "read" /\ UNCHANGED <<segment, receipt, film>>
  BY DEF Read, At, store
<1>4. \A p \in Part : Owner(p) = t => (p \in Done(t) <=> receipt[p] # 0)
  BY <1>0, <1>3 DEF Shared, Known, Done
<1>5. Late(t)'
  BY <1>0, <1>1, <1>2 DEF Late, Becomes, Types
<1> QED BY <1>0, <1>1, <1>2, <1>3, <1>4, <1>5, SharedGoesOn

LEMMA SharedLanesOver == ASSUME Inv, NEW t \in Task, LanesOver(t) PROVE Shared'
<1>0. Types /\ Shared
  BY DEF Inv
<1>1. UNCHANGED <<segment, receipt, film>>
  BY DEF LanesOver, store
<1>2. CASE \E how \in {"Stopped", "Missing"} : End(t, how)
  <2>1. Filmed'
    BY <1>0, <1>1 DEF Shared, Filmed
  <2> QED BY <1>0, <1>1, <1>2, <2>1, SharedEnd
<1>3. CASE /\ task' = [task EXCEPT ![t].pc = "look"] /\ UNCHANGED lane
           /\ \A k \in Packs(t) : lane[k].pc = "over" /\ lane[k].lost = {}
  <2> DEFINE s == [task[t] EXCEPT !.pc = "look"]
  <2>1. Becomes(t, s) /\ s \in TaskState
    BY <1>0, <1>3, LooksIs
  <2>2. s.pc = "look" /\ s.got = NoFilm
    BY <1>0 DEF Types, TaskState, Shared, Finished, LanesOver, At
  <2>3. Late(t)'
    BY <1>0, <2>1, <2>2 DEF Late, Becomes, Types
  <2> QED BY <1>0, <1>1, <1>3, <2>1, <2>2, <2>3, SharedGoesOn
<1> QED BY <1>2, <1>3 DEF LanesOver

LEMMA SharedCheck == ASSUME Inv, NEW t \in Task, Check(t) PROVE Shared'
<1>0. Types /\ Shared
  BY DEF Inv
<1>1. task[t].pc = "check" /\ UNCHANGED <<segment, receipt, film>>
  BY DEF Check, At, store
<1>2. \A p \in Part : p \in Done(t) <=> task[t].listed[p] # 0
  BY <1>0, <1>1 DEF Shared, Known, Done
<1>3. \A p \in Part : p \in Done(t) => receipt[p] # 0
  BY DEF Done
<1>4. CASE Done(t) = Part
  <2> DEFINE s == [task[t] EXCEPT !.pc = "join", !.done = Part]
  <2>1. Becomes(t, s) /\ s \in TaskState
    BY <1>0, <1>4, JoinsIs DEF Check
  <2>2. s.pc = "join" /\ s.got = task[t].got
    BY <1>0 DEF Types, TaskState
  <2>3. Late(t)'
    BY <1>0, <2>1, <2>2 DEF Late, Becomes, Types
  <2>4. \A k \in Packs(t) : lane[k].pc = "over" /\ lane[k].lost = {}
    BY <1>0, <1>1 DEF Shared, Rested, Packs
  <2>5. \A p \in Part : receipt[p] # 0 /\ s.got[p] \in {Nothing, segment[p]}
    BY <1>0, <1>1, <1>3, <1>4, <2>2 DEF Shared, Finished, NoFilm
  <2> QED BY <1>0, <1>1, <2>1, <2>2, <2>3, <2>4, <2>5, SharedGoesOn
<1>5. CASE Done(t) # Part
  <2>1. End(t, "Waiting")
    BY <1>5 DEF Check
  <2>2. \E p \in Part : task[t].listed[p] = 0
    BY <1>2, <1>5 DEF Done
  <2>3. Leaves(t) /\ ~Late(t)
    BY <1>1, <2>2 DEF Leaves, Late
  <2>4. Filmed'
    BY <1>0, <1>1 DEF Shared, Filmed
  <2>5. \A p \in Part : Owner(p) = t => receipt[p] # 0
    BY <1>0, <1>1, OwnVouched DEF Shared
  <2> QED BY <1>0, <1>1, <2>1, <2>3, <2>4, <2>5, SharedEnd
<1> QED BY <1>4, <1>5

LEMMA SharedGet == ASSUME Inv, NEW t \in Task, NEW p \in Part, Get(t, p) PROVE Shared'
<1> DEFINE s == Getting(t, p)
<1>0. Types /\ Shared
  BY DEF Inv
<1>1. Becomes(t, s) /\ s \in TaskState
  BY <1>0, GetIs
<1>2. /\ s.pc = task[t].pc
      /\ \A q \in Part : s.got[q] = IF q = p THEN segment[p] ELSE task[t].got[q]
  BY <1>0 DEF Getting, Types, TaskState
<1>3. task[t].pc = "join" /\ UNCHANGED <<segment, receipt, film>>
  BY DEF Get, At, store
<1>4. \A q \in Part : receipt[q] # 0 /\ s.got[q] \in {Nothing, segment[q]}
  BY <1>0, <1>2, <1>3 DEF Shared, Finished
<1>5. \A k \in Packs(t) : lane[k].pc = "over" /\ lane[k].lost = {}
  BY <1>0, <1>3 DEF Shared, Rested, Packs
<1>6. Late(t)'
  BY <1>0, <1>1, <1>2, <1>3 DEF Late, Becomes, Types
<1> QED BY <1>0, <1>1, <1>2, <1>3, <1>4, <1>5, <1>6, SharedGoesOn

LEMMA SharedPutFilm == ASSUME Inv, NEW t \in Task, PutFilm(t) PROVE Shared'
<1>0. Types /\ Shared
  BY DEF Inv
<1>1. task[t].pc = "join" /\ UNCHANGED <<segment, receipt>>
  BY DEF PutFilm, At
<1>2. \A p \in Part : receipt[p] # 0 /\ task[t].got[p] = segment[p]
  BY <1>0, <1>1 DEF Shared, Finished, PutFilm
<1>3. task[t].got = segment
  BY <1>0, <1>2 DEF Types, TaskState
<1>4. segment # NoFilm
  <2>1. PICK p \in Part : TRUE
    BY OrderAssumption
  <2>2. segment[p] # Nothing
    BY <1>2, <2>1 DEF PutFilm
  <2> QED BY <2>2 DEF NoFilm
<1>5. CASE film' = task[t].got /\ End(t, "Film")
  <2>1. Filmed' /\ film' # NoFilm
    BY <1>1, <1>2, <1>3, <1>4, <1>5 DEF Filmed
  <2> QED BY <1>0, <1>1, <1>2, <1>5, <2>1, SharedEnd
<1>6. CASE UNCHANGED film /\ End(t, "Failed")
  <2>1. Filmed'
    BY <1>0, <1>1, <1>6 DEF Shared, Filmed
  <2> QED BY <1>0, <1>1, <1>6, <2>1, SharedEnd
<1> QED BY <1>5, <1>6 DEF PutFilm

LEMMA SharedFail == ASSUME Inv, NEW t \in Task, Fail(t) PROVE Shared'
<1>1. Types /\ Shared /\ UNCHANGED <<segment, receipt, film>> /\ End(t, "Failed")
  BY DEF Inv, Fail, store
<1>2. Filmed'
  BY <1>1 DEF Shared, Filmed
<1> QED BY <1>1, <1>2, SharedEnd

LEMMA SharedSame ==
  ASSUME Shared, UNCHANGED <<segment, receipt, film, task, lane>> PROVE Shared'
BY DEF Shared, Vouching, Rested, InHand, Known, Finished, Filmed, LateOne, Leaves, Late, EndedWell

LEMMA InvStep == ~RenderAgain /\ Inv /\ [Next]_vars => Inv'
<1> SUFFICES ASSUME ~RenderAgain, Inv, [Next]_vars PROVE Shared'
  BY TypeStep, StoredStep DEF Inv
<1>0. Types /\ Shared
  BY DEF Inv
<1>1. ASSUME NEW t \in Task, Ask(t) \/ AskAgain(t) PROVE Shared'
  BY <1>0, <1>1, SharedBegan DEF Ask, AskAgain, At
<1>2. ASSUME NEW t \in Task, TaskStep(t) \/ Fail(t) PROVE Shared'
  BY <1>2, SharedList, SharedRead, SharedLanesOver, SharedCheck, SharedPutFilm, SharedGet,
     SharedFail DEF TaskStep
<1>3. ASSUME NEW k \in Pack, LaneStep(k) \/ TryFails(k) PROVE Shared'
  BY <1>3, SharedBegin, SharedNextPart, SharedTryFails, SharedMakes, SharedPut, SharedVouch
     DEF LaneStep
<1>4. CASE Stop \/ GoOn \/ UNCHANGED vars
  <2>1. UNCHANGED <<segment, receipt, film, task, lane>>
    BY <1>4 DEF Stop, GoOn, vars, store
  <2> QED BY <1>0, <2>1, SharedSame
<1> QED BY <1>1, <1>2, <1>3, <1>4 DEF Next

LEMMA InvAlways == ~RenderAgain => (Spec => []Inv)
<1> SUFFICES ASSUME ~RenderAgain PROVE Spec => []Inv
  OBVIOUS
<1>1. Init => Inv
  BY TypeInit, TypesSame, StoredInit, SharedInit DEF Inv
<1>2. Inv /\ [Next]_vars => Inv'
  BY InvStep
<1> QED BY <1>1, <1>2, PTL DEF Spec

(* Where nothing is rendered again, tasks that have all ended well, having   *)
(* joined the film or left it to another, leave a film of the segments that  *)
(* are there: they never all leave it to each other, however they interleave *)
(* and whatever failed before.                                               *)
THEOREM TheLastJoins == ~RenderAgain => (Spec => []LastJoins)
<1> SUFFICES ASSUME ~RenderAgain PROVE Spec => []LastJoins
  OBVIOUS
<1>1. Inv => LastJoins
  <2> SUFFICES ASSUME Inv, \A t \in Task : At(t, "over") /\ EndedWell(t)
               PROVE  film = segment
    BY DEF LastJoins
  <2>1. Types /\ Shared
    BY DEF Inv
  <2>2. PICK p \in Part : TRUE
    BY OrderAssumption
  <2>3. Owner(p) \in Task
    BY OrderAssumption DEF Owner
  <2>4. \A q \in Task : ~Late(q)
    BY DEF Late, At
  <2>5. film # NoFilm
    <3>1. task[Owner(p)].end \in {"Film", "Waiting"} /\ task[Owner(p)].pc = "over"
      BY <2>3 DEF EndedWell, At
    <3>2. CASE task[Owner(p)].end = "Film"
      BY <2>1, <2>3, <3>1, <3>2 DEF Shared, Finished
    <3>3. CASE task[Owner(p)].end = "Waiting"
      BY <2>1, <2>3, <2>4, <3>1, <3>3 DEF Shared, LateOne, Leaves
    <3> QED BY <3>1, <3>2, <3>3
  <2> QED BY <2>1, <2>5 DEF Shared, Filmed
<1> QED BY <1>1, InvAlways, PTL

(* What a receipt vouches for is not put again, whatever is stopped, fails,  *)
(* dies and is asked again.                                                  *)
THEOREM DoneIsDoneOnce == Spec => DoneOnce
<1>1. CASE RenderAgain
  <2>1. [Next]_vars => [~RenderAgain => \A p \in Part : Vouched(p) => segment'[p] = segment[p]]_vars
    BY <1>1
  <2> QED BY <2>1, PTL DEF Spec, DoneOnce
<1>2. CASE ~RenderAgain
  <2>1. Inv /\ [Next]_vars =>
          [~RenderAgain => \A p \in Part : Vouched(p) => segment'[p] = segment[p]]_vars
    <3> SUFFICES ASSUME Inv, Next, NEW p \in Part, Vouched(p) PROVE segment'[p] = segment[p]
      OBVIOUS
    <3>1. CASE \E k \in Pack : PutSegment(k)
      <4>1. PICK k \in Pack : PutSegment(k)
        BY <3>1
      <4>2. p \notin lane[k].on
        BY DEF Inv, Shared, InHand, Vouched
      <4> QED BY <4>1, <4>2 DEF PutSegment
    <3>2. CASE ~(\E k \in Pack : PutSegment(k))
      <4>1. segment' = segment
        BY <3>2 DEF Next, TaskStep, LaneStep, Ask, AskAgain, List, Read, LanesOver, Check,
           PutFilm, Get, Fail, Begin, Bake, Keep, NextPart, Render, Vouch, TryFails, Stop,
           GoOn, store
      <4> QED BY <4>1
    <3> QED BY <3>1, <3>2
  <2> QED BY <1>2, <2>1, InvAlways, PTL DEF Spec, DoneOnce
<1> QED BY <1>1, <1>2
=============================================================================
