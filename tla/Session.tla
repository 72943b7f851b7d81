------------------------------ MODULE Session ------------------------------
(***************************************************************************)
(* A geometry session and the renderer that executes it: the copies the    *)
(* graphics budget counts of each resource (crates/tuile-budget/src/       *)
(* engine.rs, state.rs), the loads and decoded contents the session holds  *)
(* (crates/tuile-core/src/runtime.rs), and the renderer's queue and        *)
(* uploads (crates/tuile-wgpu/src/pump.rs), told of each other only        *)
(* through two queues of messages.                                         *)
(*                                                                         *)
(* The session is one task: it takes the messages or the loads that are    *)
(* there, and steps.  What the view needs, the priorities and the bytes at *)
(* stake are left open: a step may withdraw, evict or release whatever its *)
(* guards allow.  Times are left open too, but for the order they impose.  *)
(*                                                                         *)
(* A definition whose name ends in _ and a word is the definition before   *)
(* the underscore with a bug; nothing here uses it.                        *)
(***************************************************************************)
EXTENDS Integers, FiniteSets, SequencesExt

CONSTANTS
  Resource,     \* what the views may want: drapes, whose epoch may move
  Policies,     \* the policies a session may have: "Interactive", "Batch"
  MaxLooks,     \* bound on the views sent
  MaxEpochs,    \* bound on the changes of what the loader drapes
  MaxFaults,    \* bound on failed, late and refused work
  MaxSqueezes   \* bound on the steps and releases that make room

ASSUME BoundsAssumption ==
  /\ IsFiniteSet(Resource) /\ Policies \subseteq {"Interactive", "Batch"}
  /\ MaxLooks \in Nat /\ MaxEpochs \in Nat /\ MaxFaults \in Nat /\ MaxSqueezes \in Nat

VARIABLES
  policy,       \* Budget::cfg.policy
  budget,       \* the copies of each resource and the ledger
  nextGen,      \* the next load's generation
  epoch,        \* the loader's epoch as the session last read it
  loaderEpoch,  \* the loader's epoch
  inFlight,     \* State::in_flight, the generation of each load
  decoded,      \* State::decoded, the generation of each content held
  want,         \* what the last view received wants
  drawn,        \* the last draw set
  idle,         \* unneeded since an earlier step
  waits,        \* failed, and waiting for the retry
  refused,      \* refused, and waiting to be delivered again
  toSession, toConsumer,  \* the messages on their way
  queue,        \* ContentPump::queue, the generation delivered
  held,         \* ContentPump::held, the generation uploaded
  shown,        \* ContentPump::draw
  looking,      \* what the last view sent wants
  over,         \* has the session ended?
  looks, faults, squeezes  \* what the bounds bound

sessionVars == <<policy, budget, nextGen, epoch, inFlight, decoded, want, drawn,
                 idle, waits, refused, over>>
consumerVars == <<queue, held, shown, looking>>
vars == <<sessionVars, loaderEpoch, toSession, toConsumer, consumerVars,
          looks, faults, squeezes>>

None == [gen |-> 0, epoch |-> 0]
Estimate == 1    \* what a copy is charged until its upload is acknowledged
Actual == 2      \* what the upload then says it takes

NoCopies == [r \in Resource |-> None]
Empty == [load |-> NoCopies, cpu |-> NoCopies, transit |-> NoCopies, gpu |-> NoCopies,
          bytes |-> 0, inTransit |-> 0, flights |-> 0]

Init ==
  /\ policy \in Policies
  /\ budget = Empty /\ nextGen = 1
  /\ epoch = 0 /\ loaderEpoch = 0
  /\ inFlight = [r \in Resource |-> 0] /\ decoded = [r \in Resource |-> 0]
  /\ want = {} /\ drawn = {} /\ idle = {} /\ waits = {} /\ refused = {}
  /\ toSession = <<>> /\ toConsumer = <<>>
  /\ queue = [r \in Resource |-> 0] /\ held = [r \in Resource |-> 0]
  /\ shown = {} /\ looking = {}
  /\ over = FALSE /\ looks = 0 /\ faults = 0 /\ squeezes = 0

-----------------------------------------------------------------------------
(* The budget's copies (state.rs): each change keeps the ledger.            *)

Holds(copies, r) == copies[r].gen # 0
Of(copies) == {r \in Resource : Holds(copies, r)}
Without(copies, S) == [r \in Resource |-> IF r \in S THEN None ELSE copies[r]]

IdleLoads(b, S) ==
  [b EXCEPT !.load = Without(b.load, S), !.flights = @ - Cardinality(S)]

\* A load of each resource gens gives a generation.
StartLoads(b, gens, e) ==
  [b EXCEPT !.load = [r \in Resource |-> IF r \in DOMAIN gens
                        THEN [gen |-> gens[r], epoch |-> e] ELSE b.load[r]],
            !.flights = @ + Cardinality(DOMAIN gens)]

TakeTransit(b, S) ==
  [b EXCEPT !.transit = Without(b.transit, S),
            !.bytes = @ - Estimate * Cardinality(S), !.inTransit = @ - Cardinality(S)]
PutTransit(b, S) ==
  [b EXCEPT !.transit = [r \in Resource |-> IF r \in S THEN b.cpu[r] ELSE b.transit[r]],
            !.bytes = @ + Estimate * Cardinality(S), !.inTransit = @ + Cardinality(S)]

TakeGpu(b, S) ==
  [b EXCEPT !.gpu = Without(b.gpu, S), !.bytes = @ - Actual * Cardinality(S)]
PutGpu_OverTheOld(b, r, copy) == [b EXCEPT !.gpu[r] = copy, !.bytes = @ + Actual]
\* The bytes of the copy it replaces go with that copy.
PutGpu(b, r, copy) ==
  [b EXCEPT !.gpu[r] = copy,
            !.bytes = @ + Actual - (IF Holds(b.gpu, r) THEN Actual ELSE 0)]

TakeCpu(b, S) == [b EXCEPT !.cpu = Without(b.cpu, S)]

\* What the ledger should say of the copies.
Bytes(b) == Actual * Cardinality(Of(b.gpu)) + Estimate * Cardinality(Of(b.transit))

-----------------------------------------------------------------------------
(* Arrivals (apply_events).                                                 *)

\* Loads that ended: those in good become decoded copies.
Landed(b, ended, good) ==
  [IdleLoads(b, ended) EXCEPT
     !.cpu = [r \in Resource |-> IF r \in good THEN b.load[r] ELSE b.cpu[r]]]

\* An upload acknowledged: of the copy in transit, or of one withdrawn since.
Drawable(b, ack) ==
  LET r == ack.r IN
  IF b.transit[r].gen = ack.gen
    THEN PutGpu(TakeTransit(b, {r}), r, b.transit[r])
  ELSE IF ~Holds(b.transit, r) /\ ~Holds(b.gpu, r) /\ b.cpu[r].gen = ack.gen
    THEN PutGpu(b, r, b.cpu[r])
    ELSE b

\* Acknowledgments come before refusals, whatever their order.
Acknowledged(b, news) ==
  LET after[i \in 0..Len(news)] ==
        IF i = 0 THEN b
        ELSE IF news[i].type = "Ack" THEN Drawable(after[i - 1], news[i]) ELSE after[i - 1]
  IN after[Len(news)]

Refusals(b, news) ==
  {r \in Resource : /\ Holds(b.transit, r)
                    /\ \E m \in ToSet(news) : /\ m.type = "Discarded" /\ m.r = r
                                              /\ m.gen = b.transit[r].gen}

-----------------------------------------------------------------------------
(* A step (State::step, Budget::step, execute), after what its turn did: t  *)
(* has the budget with the arrivals applied, the view, what was sent, what  *)
(* the session holds and loads, and the resources that failed, that wait    *)
(* for a retry and that were refused.                                       *)

\* Of the loader's epoch e.
Fresh(copies, r, e) == Holds(copies, r) /\ copies[r].epoch = e

\* The draw set: all that is wanted, if it can be drawn.  While some of it cannot,
\* what stands in for that is drawn too, and what can be drawn may have to wait: a
\* mesh for its drapes, the finer ground for the floor that covers what is lost.
DrawSets(b, v) == {D \in SUBSET Of(b.gpu) : v \subseteq Of(b.gpu) => v \subseteq D}

\* A drawn copy of an older epoch is wanted too, to be refreshed.
Wants(b, v, D, e) == v \cup {r \in D : ~Fresh(b.gpu, r, e)}

\* Past its grace: unneeded at an earlier step and since.
Cancellable(b, w, D) == IF policy = "Batch" THEN {} ELSE idle \ (w \cup D)

Missing(b, w, e) == {r \in w : ~Fresh(b.gpu, r, e) /\ ~Holds(b.transit, r)}
LoadJobs(b, w, e, resting) ==
  {r \in Missing(b, w, e) : ~Fresh(b.cpu, r, e) /\ ~Holds(b.load, r) /\ r \notin resting}
DeliverJobs(b, w, e, shy) ==
  {r \in Missing(b, w, e) : Fresh(b.cpu, r, e) /\ r \notin shy}

Evictable_EvenDrawn(b, D) == Of(b.gpu) \ Of(b.transit)
\* Neither drawn nor on its way again.
Evictable(b, D) == Of(b.gpu) \ (Of(b.transit) \cup D)

\* Only the generation the session holds is sent.
Content(b, contents, S) ==
  SetToSeq({[type |-> "Content", r |-> r, gen |-> contents[r]] :
              r \in {r \in S : contents[r] = b.cpu[r].gen}})
Message(type, S) == IF S = {} THEN <<>> ELSE <<[type |-> type, what |-> S]>>

\* Generations are given in any order of the resources that start.
Numbered(S) == {f \in [S -> nextGen..(nextGen + Cardinality(S) - 1)] : IsInjective(f)}

Messages(withdrawn, delivered, D, gone) ==
  withdrawn \o delivered \o <<[type |-> "Select", what |-> D]>> \o Message("Evict", gone)

\* Starts the loads and sends the contents that are missing, and evicts and
\* frees what makes room.
Works(t, D, unneeded, late, withdrawn) ==
  LET b == t.budget
      w == Wants(b, t.view, D, loaderEpoch)
      b2 == TakeTransit(IdleLoads(b, unneeded \cup late), withdrawn)
      failed == late \ unneeded
      starts == LoadJobs(b2, w, loaderEpoch, t.resting \cup failed)
      delivered == DeliverJobs(b2, w, loaderEpoch, t.refused)
  IN
  \E gens \in Numbered(starts) :
  LET b4 == PutTransit(StartLoads(b2, gens, loaderEpoch), delivered)
  IN
  \E gone \in SUBSET Evictable(b4, D),
     freed \in SUBSET (Of(b4.cpu) \ Of(b4.transit)) :
  LET squeezed == gone \cup freed # {}
      faulty == late \cup t.failed # {}
  IN
  /\ faulty => faults < MaxFaults
  /\ squeezed => squeezes < MaxSqueezes /\ policy # "Batch"
  /\ faults' = IF faulty THEN faults + 1 ELSE faults
  /\ squeezes' = IF squeezed THEN squeezes + 1 ELSE squeezes
  /\ budget' = TakeCpu(TakeGpu(b4, gone), freed)
  /\ nextGen' = nextGen + Cardinality(starts)
  /\ inFlight' = [r \in Resource |-> IF r \in starts THEN gens[r]
                                     ELSE IF r \in unneeded \cup late THEN 0
                                     ELSE t.flying[r]]
  /\ decoded' = [r \in Resource |-> IF r \in freed THEN 0 ELSE t.contents[r]]
  /\ want' = t.view /\ drawn' = D
  /\ idle' = Resource \ (w \cup D)
  /\ waits' = t.resting \cup failed
  /\ refused' = t.refused
  /\ epoch' = loaderEpoch
  /\ over' = (policy = "Batch" /\ failed \cup t.failed # {})
  /\ toConsumer' = toConsumer \o t.sent \o
       Messages(Message("Cancel", {[r |-> r, gen |-> b.transit[r].gen] : r \in withdrawn}),
                Content(b, t.contents, delivered), D, gone)

\* Draws D, cancels the loads it does without and those that are late, and
\* withdraws what it no longer needs on its way.
Step(t) ==
  \E D \in DrawSets(t.budget, t.view) :
  LET stale == Cancellable(t.budget, Wants(t.budget, t.view, D, loaderEpoch), D)
  IN
  \E unneeded \in SUBSET (Of(t.budget.load) \cap stale), late \in SUBSET Of(t.budget.load),
     withdrawn \in SUBSET (Of(t.budget.transit) \cap stale) :
    Works(t, D, unneeded, late, withdrawn)

-----------------------------------------------------------------------------
(* The session's turns (the loop of run).                                   *)

Wanted(news) == LET views == {i \in 1..Len(news) : news[i].type = "View"}
                IN IF views = {} THEN want ELSE news[Max(views)].what

\* Let go whole: not needed at the last step, nor on its way.
Releasable_EvenDrawn(b) == (Of(b.gpu) \cup Of(b.cpu)) \ Of(b.transit)
Releasable_EvenOnItsWay(b) == (Of(b.gpu) \cup Of(b.cpu)) \cap idle
Releasable(b) == (Of(b.gpu) \cup Of(b.cpu)) \cap (idle \ Of(b.transit))

\* The messages there are, then one step that answers them all.  A release
\* is done when it is read, before the step and the arrivals it applies.
AnswerClient ==
  \E n \in 1..Len(toSession) :
  LET news == SubSeq(toSession, 1, n)
      asks == \E m \in ToSet(news) : m.type = "Release"
  IN
  \E let_go \in IF asks THEN SUBSET Releasable(budget) ELSE {{}} :
  LET gone == let_go \cap Of(budget.gpu)
      b0 == TakeCpu(TakeGpu(budget, gone), let_go)
      contents == [r \in Resource |->
                     IF r \in let_go /\ Holds(budget.cpu, r) THEN 0 ELSE decoded[r]]
      sent == Message("Evict", gone)
  IN
  /\ ~over
  /\ toSession' = SubSeq(toSession, n + 1, Len(toSession))
  /\ IF \A m \in ToSet(news) : m.type = "Release"
       THEN /\ budget' = b0 /\ decoded' = contents
            /\ toConsumer' = toConsumer \o sent
            /\ UNCHANGED <<nextGen, epoch, inFlight, want, drawn, idle, waits, refused,
                           over, faults, squeezes>>
       ELSE LET b1 == Acknowledged(b0, news)
                shy == Refusals(b1, news)
            IN Step([budget |-> TakeTransit(b1, shy), view |-> Wanted(news),
                        sent |-> sent, contents |-> contents, flying |-> inFlight,
                        failed |-> {}, resting |-> waits, refused |-> refused \cup shy])
  /\ UNCHANGED <<policy, loaderEpoch, consumerVars, looks>>

Loads == {r \in Resource : inFlight[r] # 0}

\* The loads that are done, well or not, then one step.
AnswerLoads ==
  \E ended \in SUBSET Loads : \E good \in SUBSET ended :
  /\ ~over /\ ended # {}
  /\ Step([budget |-> Landed(budget, ended, good), view |-> want, sent |-> <<>>,
           contents |-> [r \in Resource |-> IF r \in good THEN inFlight[r] ELSE decoded[r]],
           flying |-> [r \in Resource |-> IF r \in ended THEN 0 ELSE inFlight[r]],
           failed |-> ended \ good, resting |-> (waits \ good) \cup (ended \ good),
           refused |-> refused])
  /\ UNCHANGED <<policy, loaderEpoch, toSession, consumerVars, looks>>

\* Time passes, and a backoff with it.
Rested(r) ==
  /\ r \in waits \cup refused
  /\ waits' = waits \ {r} /\ refused' = refused \ {r}
  /\ UNCHANGED <<policy, budget, nextGen, epoch, inFlight, decoded, want, drawn, idle,
                 over, loaderEpoch, toSession, toConsumer, consumerVars,
                 looks, faults, squeezes>>

\* What the loader drapes changes: every drape it drew is old.
Redrape ==
  /\ loaderEpoch < MaxEpochs
  /\ loaderEpoch' = loaderEpoch + 1
  /\ UNCHANGED <<sessionVars, toSession, toConsumer, consumerVars, looks, faults, squeezes>>

-----------------------------------------------------------------------------
(* The renderer (pump.rs).                                                  *)

Send(m) == toSession' = Append(toSession, m)

Look(v) ==
  /\ looks < MaxLooks
  /\ looks' = looks + 1 /\ looking' = v
  /\ Send([type |-> "View", what |-> v])
  /\ UNCHANGED <<sessionVars, loaderEpoch, toConsumer, queue, held, shown, faults, squeezes>>

\* The next frame sends the same view: left out where nothing would come of it.
Frame ==
  /\ toSession = <<>> /\ ~over
  /\ \/ loaderEpoch # epoch
     \/ LET w == Wants(budget, want, drawn, epoch)
        IN LoadJobs(budget, w, epoch, waits) \cup DeliverJobs(budget, w, epoch, refused) # {}
  /\ Send([type |-> "View", what |-> looking])
  /\ UNCHANGED <<sessionVars, loaderEpoch, toConsumer, consumerVars, looks, faults, squeezes>>

\* A film's frame is whole: what it did not need may go.
Release ==
  /\ policy = "Batch" /\ squeezes < MaxSqueezes
  /\ squeezes' = squeezes + 1
  /\ Send([type |-> "Release"])
  /\ UNCHANGED <<sessionVars, loaderEpoch, toConsumer, consumerVars, looks, faults>>

\* What a message does to the queue, to what is held and to what is shown.
Told_CancelsAny(c, m) ==
  IF m.type = "Cancel"
    THEN [c EXCEPT !.queue = [r \in Resource |->
                                IF \E x \in m.what : x.r = r THEN 0 ELSE @[r]]]
    ELSE c

Told(c, m) ==
  CASE m.type = "Select" -> [c EXCEPT !.shown = m.what]
    [] m.type = "Content" -> [c EXCEPT !.queue[m.r] = m.gen]
    [] m.type = "Cancel" ->
         [c EXCEPT !.queue = [r \in Resource |->
            IF [r |-> r, gen |-> @[r]] \in m.what THEN 0 ELSE @[r]]]
    [] m.type = "Evict" ->
         [c EXCEPT !.queue = [r \in Resource |-> IF r \in m.what THEN 0 ELSE @[r]],
                   !.held = [r \in Resource |-> IF r \in m.what THEN 0 ELSE @[r]]]

\* All of news, in order.
Reads(c, news) ==
  LET after[i \in 0..Len(news)] == IF i = 0 THEN c ELSE Told(after[i - 1], news[i])
  IN after[Len(news)]

\* A frame: the messages there are, then some of the uploads, at least one.
\* One that would cross a limit is refused.
Pump ==
  \E n \in 0..Len(toConsumer) :
  LET c == Reads([queue |-> queue, held |-> held, shown |-> shown],
                 SubSeq(toConsumer, 1, n))
      there == {r \in Resource : c.queue[r] # 0}
  IN
  \E taken \in SUBSET there : \E kept \in SUBSET taken :
  LET answer(r) == [type |-> IF r \in kept THEN "Ack" ELSE "Discarded",
                    r |-> r, gen |-> c.queue[r]]
  IN
  /\ n > 0 \/ there # {}
  /\ there # {} => taken # {}
  /\ kept # taken => faults < MaxFaults /\ policy = "Interactive"
  /\ faults' = IF kept = taken THEN faults ELSE faults + 1
  /\ toConsumer' = SubSeq(toConsumer, n + 1, Len(toConsumer))
  /\ toSession' = toSession \o SetToSeq({answer(r) : r \in taken})
  /\ queue' = [r \in Resource |-> IF r \in taken THEN 0 ELSE c.queue[r]]
  /\ held' = [r \in Resource |-> IF r \in kept THEN c.queue[r] ELSE c.held[r]]
  /\ shown' = c.shown
  /\ UNCHANGED <<sessionVars, loaderEpoch, looking, looks, squeezes>>

-----------------------------------------------------------------------------
Next ==
  \/ AnswerClient \/ AnswerLoads \/ Redrape
  \/ \E r \in Resource : Rested(r)
  \/ \E v \in SUBSET Resource : Look(v)
  \/ Frame \/ Release \/ Pump

Spec == Init /\ [][Next]_vars

\* The session answers what is there to answer: WF_vars(AnswerClient) and
\* WF_vars(AnswerLoads), with what enables them written out.
FairSpec ==
  /\ Spec
  /\ []<>(over \/ toSession = <<>>) \/ []<><<AnswerClient>>_vars
  /\ []<>(over \/ Loads = {}) \/ []<><<AnswerLoads>>_vars
  /\ \A r \in Resource : WF_vars(Rested(r))
  /\ WF_vars(Frame) /\ WF_vars(Pump)

-----------------------------------------------------------------------------
(* Properties.                                                              *)

\* Between two turns the budget and the session agree on every load and every
\* decoded content, to the generation: a delivery the budget decides on is one
\* the session can make (execute), and the ledger is what the copies say
\* (audit_impl).
BooksAgree ==
  /\ \A r \in Resource : /\ inFlight[r] = budget.load[r].gen
                         /\ decoded[r] = budget.cpu[r].gen
  /\ budget.bytes = Bytes(budget)
  /\ budget.inTransit = Cardinality(Of(budget.transit))
  /\ budget.flights = Cardinality(Of(budget.load))

\* The renderer holds all it is told to draw (pump.rs: new before old).
DrawnIsHeld == \A r \in shown : held[r] # 0

\* A film's renderer does.
FilmsDrawWhatIsHeld == policy = "Batch" => DrawnIsHeld

Settled == toSession = <<>> /\ toConsumer = <<>> /\ \A r \in Resource : queue[r] = 0

\* With every message read, a film's renderer holds what its budget counts on
\* the GPU and nothing else: nothing is held for ever uncounted.
FilmsCountWhatIsHeld ==
  policy = "Batch" /\ Settled => \A r \in Resource : held[r] = budget.gpu[r].gen

\* A view drawn whole stays drawn whole, whatever is loaded again, refused,
\* withdrawn, evicted or released meanwhile, until the view wants something else
\* (I1, I9).
StaysWhole == [][want \subseteq drawn /\ want' \subseteq want => want' \subseteq drawn']_vars

\* What a view wants is drawn in the end, of the loader's epoch, unless the
\* session ends or the view moves on.
DrawnInTheEnd ==
  \A r \in Resource :
    r \in looking ~> \/ r \in shown /\ budget.gpu[r].epoch = loaderEpoch
                     \/ r \notin looking \/ over
=============================================================================
