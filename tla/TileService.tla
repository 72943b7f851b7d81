---------------------------- MODULE TileService ----------------------------
(***************************************************************************)
(* One tile asked of several instances of the tile service                 *)
(* (crates/tuile-tile-server/src/service.rs, peers.rs): the hot tiles, the *)
(* look in the store, the one flight of each instance that its clients     *)
(* share, and between instances the tiles just fetched and the claim on    *)
(* fetching.                                                               *)
(*                                                                         *)
(* A flight is a future: it only moves while a client waits for it, and    *)
(* one nobody waits for stays where it is, its claim running out.  A tile  *)
(* and a source's "no such tile" are handled alike, so a tile is either    *)
(* there or not.  Time is what is left of each delay.                      *)
(*                                                                         *)
(* A definition whose name ends in _ and a word is the definition before   *)
(* the underscore with a bug; nothing here uses it.                        *)
(***************************************************************************)
EXTENDS Integers, FiniteSets

CONSTANTS
  Instance,      \* the servers
  Nobody,        \* holds no claim
  Client,        \* requests for the tile
  Sinks,         \* the instances that emit what they fetch (with_sink)
  Shares,        \* do the instances share tiles and claims (with_shared)?
  FetchTime,     \* the longest a source takes to answer
  ReadTime,      \* the longest a look in the store takes
  StoreLatency,  \* the longest from a put to every instance reading it
  SharedWait,    \* ServiceConfig::shared_wait
  SharedTtl,     \* how long a shared tile is kept
  ClaimTtl,      \* how long a claim holds if it is never given back
  MaxFaults      \* bound on everything that goes wrong

ASSUME TimesAssumption ==
  /\ FetchTime \in Nat /\ ReadTime \in Nat /\ StoreLatency \in Nat
  /\ SharedWait \in Nat /\ SharedTtl \in Nat \ {0} /\ ClaimTtl \in Nat \ {0}
  /\ MaxFaults \in Nat

ASSUME InstancesAssumption ==
  Sinks \subseteq Instance /\ Nobody \notin Instance /\ Shares \in BOOLEAN

VARIABLES
  hot,      \* the instances that have the tile in memory
  flight,   \* the flight of each instance
  client,   \* what each client is doing
  shared,   \* how long the shared tile still lasts, 0 if there is none
  claim,    \* who claimed the fetch and for how long yet
  visible,  \* the instances that read the tile from the store
  stored,   \* was the tile put in the store?
  spread,   \* how long yet until every instance reads it
  asked,    \* how often the source was asked (two stands for more)
  faults    \* how much went wrong

vars == <<hot, flight, client, shared, claim, visible, stored, spread, asked, faults>>

storeVars == <<visible, stored, spread>>

Less_PastZero(n) == n - 1

Less(n) == IF n = 0 THEN 0 ELSE n - 1

NoFlight == [pc |-> "none", mine |-> FALSE, left |-> 0, lease |-> 0, ok |-> TRUE]
NoClaim == [by |-> Nobody, left |-> 0]
Gone == [pc |-> "idle", at |-> Nobody, saw |-> FALSE, left |-> 0]

Init ==
  /\ hot = {}
  /\ flight = [i \in Instance |-> NoFlight]
  /\ client = [c \in Client |-> Gone]
  /\ shared = 0 /\ claim = NoClaim
  /\ visible = {} /\ stored = FALSE /\ spread = 0
  /\ asked = 0 /\ faults = 0

Waiting(i) == {c \in Client : client[c].pc = "waiting" /\ client[c].at = i}

\* A flight at an await moves only if a client polls it.
At(i, step) == flight[i].pc = step /\ Waiting(i) # {}

Goto(i, step) == flight' = [flight EXCEPT ![i].pc = step]

Fault == faults < MaxFaults /\ faults' = faults + 1

\* The source is asked, with or without the claim.
AskSource(i) ==
  /\ flight' = [flight EXCEPT ![i].pc = "ask", ![i].left = FetchTime]
  /\ asked' = IF asked = 2 THEN 2 ELSE asked + 1

\* The flight leaves the table and answers all who wait; a tile is then hot.
Land(i, ok) ==
  /\ flight' = [flight EXCEPT ![i] = NoFlight]
  /\ client' = [c \in Client |-> IF c \in Waiting(i) THEN Gone ELSE client[c]]
  /\ hot' = IF ok THEN hot \cup {i} ELSE hot

EndFetch_KeepsClaim(i, ok) ==
  IF flight[i].mine /\ ok
    THEN /\ flight' = [flight EXCEPT ![i].pc = "release", ![i].ok = ok]
         /\ UNCHANGED <<client, hot>>
    ELSE Land(i, ok)

\* The fetch is over, well or not: a claim is given back first.
EndFetch(i, ok) ==
  IF flight[i].mine
    THEN /\ flight' = [flight EXCEPT ![i].pc = "release", ![i].ok = ok]
         /\ UNCHANGED <<client, hot>>
    ELSE Land(i, ok)

-----------------------------------------------------------------------------
(* Clients (tile).                                                          *)

\* A tile not in memory is looked for in the store.
Ask(c, i) ==
  /\ client[c].pc = "idle" /\ i \notin hot
  /\ client' = [client EXCEPT ![c] = [pc |-> "reading", at |-> i,
                                      saw |-> i \in visible, left |-> ReadTime]]
  /\ UNCHANGED <<hot, flight, shared, claim, storeVars, asked, faults>>

\* Found, perhaps only because it came meanwhile.
Found(c) ==
  /\ client[c].pc = "reading"
  /\ client[c].saw \/ client[c].at \in visible
  /\ client' = [client EXCEPT ![c] = Gone]
  /\ hot' = hot \cup {client[c].at}
  /\ UNCHANGED <<flight, shared, claim, storeVars, asked, faults>>

\* Not found: fetch_once, which joins the flight there is.
NotFound(c) ==
  LET i == client[c].at IN
  /\ client[c].pc = "reading" /\ ~client[c].saw
  /\ client' = [client EXCEPT ![c] = [Gone EXCEPT !.pc = "waiting", !.at = i]]
  /\ IF flight[i].pc # "none" THEN UNCHANGED <<flight, asked>>
     ELSE IF Shares THEN Goto(i, "look") /\ UNCHANGED asked
     ELSE AskSource(i)
  /\ UNCHANGED <<hot, shared, claim, storeVars, faults>>

\* The client is gone, or the store failed it.
Leave(c) ==
  /\ client[c].pc # "idle"
  /\ Fault
  /\ client' = [client EXCEPT ![c] = Gone]
  /\ UNCHANGED <<hot, flight, shared, claim, storeVars, asked>>

\* A hot tile runs out or is pushed out.
Cool(i) ==
  /\ i \in hot
  /\ hot' = hot \ {i}
  /\ UNCHANGED <<flight, client, shared, claim, storeVars, asked, faults>>

\* learn: a tile another instance shared is taken as if fetched here.
Learn(i) ==
  /\ shared > 0
  /\ hot' = hot \cup {i}
  /\ UNCHANGED <<flight, client, shared, claim, storeVars, asked, faults>>

-----------------------------------------------------------------------------
(* Flights (fetch_once).                                                    *)

Look(i) ==
  /\ At(i, "look")
  /\ IF shared > 0 THEN Land(i, TRUE) ELSE Goto(i, "claim") /\ UNCHANGED <<client, hot>>
  /\ UNCHANGED <<shared, claim, storeVars, asked, faults>>

Claim_Overwrites(i) ==
  /\ At(i, "claim")
  /\ flight' = [flight EXCEPT ![i].pc = "again", ![i].mine = TRUE, ![i].lease = ClaimTtl]
  /\ claim' = [by |-> i, left |-> ClaimTtl]
  /\ UNCHANGED <<hot, client, shared, storeVars, asked, faults>>

\* SharedTiles::claim: mine, or theirs and their tile is waited for.
Claim(i) ==
  /\ At(i, "claim")
  /\ IF claim.left > 0
       THEN /\ flight' = [flight EXCEPT ![i].pc = "wait", ![i].left = SharedWait]
            /\ UNCHANGED claim
       ELSE /\ flight' = [flight EXCEPT ![i].pc = "again", ![i].mine = TRUE,
                                        ![i].lease = ClaimTtl]
            /\ claim' = [by |-> i, left |-> ClaimTtl]
  /\ UNCHANGED <<hot, client, shared, storeVars, asked, faults>>

\* What is shared cannot be reached: a claim is unknown, a look finds nothing.
Unreached(i) ==
  /\ Fault
  /\ \/ At(i, "claim") /\ AskSource(i)
     \/ At(i, "look") /\ Goto(i, "claim") /\ UNCHANGED asked
     \/ At(i, "again") /\ AskSource(i)
  /\ UNCHANGED <<hot, client, shared, claim, storeVars>>

Again_NoLook(i) ==
  /\ At(i, "again")
  /\ AskSource(i) /\ UNCHANGED <<client, hot>>
  /\ UNCHANGED <<shared, claim, storeVars, faults>>

\* The one that held the claim may have shared the tile and let go.
Again(i) ==
  /\ At(i, "again")
  /\ IF shared > 0 THEN EndFetch(i, TRUE) /\ UNCHANGED asked
                   ELSE AskSource(i) /\ UNCHANGED <<client, hot>>
  /\ UNCHANGED <<shared, claim, storeVars, faults>>

\* The tile another fetches is there.
Seen(i) ==
  /\ At(i, "wait") /\ shared > 0
  /\ Land(i, TRUE)
  /\ UNCHANGED <<shared, claim, storeVars, asked, faults>>

GiveUp_Never(i) == FALSE /\ UNCHANGED vars

\* Never for ever: after the last look the source is asked.
GiveUp(i) ==
  /\ At(i, "wait") /\ flight[i].left = 0 /\ shared = 0
  /\ AskSource(i)
  /\ UNCHANGED <<hot, client, shared, claim, storeVars, faults>>

\* The source answered: the tile is emitted, or shared and then stored.
Answered(i) ==
  /\ At(i, "ask")
  /\ Goto(i, IF i \in Sinks THEN "emit" ELSE IF Shares THEN "share" ELSE "store")
  /\ UNCHANGED <<hot, client, shared, claim, storeVars, asked, faults>>

\* The source failed.
Failed(i) ==
  /\ At(i, "ask")
  /\ Fault
  /\ EndFetch(i, FALSE)
  /\ UNCHANGED <<shared, claim, storeVars, asked>>

\* Shared first: whoever waits for it is waiting now.
Share(i) ==
  /\ At(i, "share")
  /\ shared' = SharedTtl
  /\ Goto(i, "store")
  /\ UNCHANGED <<hot, client, claim, storeVars, asked, faults>>

\* put_fetched: this instance reads the tile at once, the others within
\* StoreLatency.
Store(i) ==
  /\ At(i, "store")
  /\ visible' = visible \cup {i}
  /\ stored' = TRUE
  /\ spread' = IF stored THEN spread ELSE StoreLatency
  /\ EndFetch(i, TRUE)
  /\ UNCHANGED <<shared, claim, asked, faults>>

\* The store does not take it, and the request fails.
NotStored(i) ==
  /\ At(i, "store")
  /\ Fault
  /\ EndFetch(i, FALSE)
  /\ UNCHANGED <<shared, claim, storeVars, asked>>

\* Whoever is behind the sink shares the tile and stores it.
Emit(i) ==
  /\ At(i, "emit")
  /\ shared' = IF Shares THEN SharedTtl ELSE shared
  /\ stored' = TRUE
  /\ spread' = IF stored THEN spread ELSE StoreLatency
  /\ EndFetch(i, TRUE)
  /\ UNCHANGED <<claim, visible, asked, faults>>

\* The sink does not keep it; it is served all the same.
NotKept(i) ==
  /\ At(i, "emit")
  /\ Fault
  /\ EndFetch(i, TRUE)
  /\ UNCHANGED <<shared, claim, storeVars, asked>>

\* Gives the claim back, if it is still this flight's.
Release(i) ==
  /\ At(i, "release")
  /\ claim' = IF claim.by = i THEN NoClaim ELSE claim
  /\ Land(i, flight[i].ok)
  /\ UNCHANGED <<shared, storeVars, asked, faults>>

-----------------------------------------------------------------------------
(* The store, the clock and crashes.                                        *)

\* Another instance reads the tile: flushed, and its manifest read again.
Spread(i) ==
  /\ stored /\ i \notin visible
  /\ visible' = visible \cup {i}
  /\ UNCHANGED <<hot, flight, client, shared, claim, stored, spread, asked, faults>>

\* The instance stops and starts again with nothing: clients, flight, memory,
\* and what only its buffer held.  Its claim stays until it runs out.
Crash(i) ==
  /\ Fault
  /\ hot' = hot \ {i}
  /\ flight' = [flight EXCEPT ![i] = NoFlight]
  /\ client' = [c \in Client |-> IF client[c].at = i THEN Gone ELSE client[c]]
  /\ claim' = IF claim.by = i THEN [claim EXCEPT !.by = Nobody] ELSE claim
  /\ \/ UNCHANGED storeVars
     \/ /\ visible = {i}
        /\ visible' = {} /\ stored' = FALSE /\ spread' = 0
  /\ UNCHANGED <<shared, asked>>

\* A flight that is polled takes no time but where it waits.
Prompt(i) ==
  Waiting(i) # {} =>
    /\ flight[i].pc \in {"ask", "wait"} /\ flight[i].left > 0
    /\ flight[i].pc = "wait" => shared = 0

Tick ==
  /\ \A i \in Instance : Prompt(i)
  /\ \A c \in Client : client[c].pc = "reading" => client[c].left > 0
  /\ stored /\ spread = 0 => visible = Instance
  /\ flight' = [i \in Instance |-> [flight[i] EXCEPT !.left = Less(@), !.lease = Less(@)]]
  /\ client' = [c \in Client |-> [client[c] EXCEPT !.left = Less(@)]]
  /\ shared' = Less(shared)
  /\ claim' = IF claim.left <= 1 THEN NoClaim ELSE [claim EXCEPT !.left = @ - 1]
  /\ spread' = Less(spread)
  /\ UNCHANGED <<hot, visible, stored, asked, faults>>

-----------------------------------------------------------------------------

FlightStep(i) ==
  \/ Look(i) \/ Claim(i) \/ Again(i) \/ Seen(i) \/ GiveUp(i) \/ Answered(i)
  \/ Share(i) \/ Store(i) \/ Emit(i) \/ Release(i)

Next ==
  \/ Tick
  \/ \E c \in Client : Found(c) \/ NotFound(c) \/ Leave(c) \/ \E i \in Instance : Ask(c, i)
  \/ \E i \in Instance :
       \/ FlightStep(i)
       \/ Unreached(i) \/ Failed(i) \/ NotStored(i) \/ NotKept(i) \/ Crash(i)
       \/ Cool(i) \/ Learn(i) \/ Spread(i)

Spec == Init /\ [][Next]_vars

\* A client that is there polls; sources, the store and time do not stop.
FairSpec ==
  /\ Spec
  /\ WF_vars(Tick)
  /\ \A c \in Client : WF_vars(Found(c) \/ NotFound(c))
  /\ \A i \in Instance : WF_vars(FlightStep(i)) /\ WF_vars(Spread(i))

-----------------------------------------------------------------------------
(* Properties.                                                              *)

PCs == {"none", "look", "claim", "again", "ask", "wait", "share", "store", "emit", "release"}

\* Every variable holds what its declaration says.
TypeOK ==
  /\ hot \subseteq Instance
  /\ flight \in [Instance -> [pc : PCs, mine : BOOLEAN, left : Nat, lease : Nat, ok : BOOLEAN]]
  /\ client \in [Client -> [pc : {"idle", "reading", "waiting"},
                            at : Instance \cup {Nobody}, saw : BOOLEAN, left : Nat]]
  /\ shared \in Nat
  /\ claim \in [by : Instance \cup {Nobody}, left : Nat]
  /\ visible \subseteq Instance /\ stored \in BOOLEAN /\ spread \in Nat
  /\ asked \in 0..2 /\ faults \in Nat

\* While nothing goes wrong, the source is asked for the tile once, however
\* many clients ask however many instances, whenever they ask
\* (service.rs, "fetched from the layer's upstream once").
FetchedOnce == faults = 0 => asked <= 1

\* Whatever goes wrong, two instances never fetch under claims that both still
\* hold: a claim given back late frees nobody else's (SharedTiles::release).
OneClaimant ==
  \A i, j \in Instance :
    i # j /\ flight[i].pc = "ask" /\ flight[j].pc = "ask" =>
      flight[i].lease = 0 \/ flight[j].lease = 0

\* A claim that holds is a flight's that has not given it back, but for the
\* claim of an instance that died: no way a fetch ends leaves one behind.
ClaimsGivenBack ==
  claim.by # Nobody => flight[claim.by].mine

\* A client that waits is answered in the end, even behind the claim of an
\* instance that died or a flight nobody polls (service.rs, "never for ever").
RequestsAnswered ==
  \A c \in Client : client[c].pc = "waiting" ~> client[c].pc # "waiting"
=============================================================================
