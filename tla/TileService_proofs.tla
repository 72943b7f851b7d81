------------------------- MODULE TileService_proofs -------------------------
(***************************************************************************)
(* Theorems about TileService, for any number of instances and clients and *)
(* any delays.                                                             *)
(*                                                                         *)
(* A claim is known twice, by what is shared and by the flight that made   *)
(* it.  Inv says how the two agree: the lease of a flight is what is left  *)
(* of its claim, and nobody is named by a claim but a flight that will     *)
(* give it back.  Both properties of claims follow.  That a tile is        *)
(* fetched once (AskedOnce) needs the times too, Timely, and where the one *)
(* fetch stands: not yet asked for, being asked for, or answered.          *)
(***************************************************************************)
EXTENDS TileService, TLAPS

FlightState == [pc : PCs, mine : BOOLEAN, left : Nat, lease : Nat, ok : BOOLEAN]
ClientState == [pc : {"idle", "reading", "waiting"}, at : Instance \cup {Nobody},
                saw : BOOLEAN, left : Nat]

LEMMA LessType == \A n \in Nat : Less(n) \in Nat /\ Less(n) <= n
BY DEF Less

(* What is at rest is of the right type.                                    *)
LEMMA AtRest ==
  /\ NoFlight \in FlightState
  /\ Gone \in ClientState
  /\ NoClaim \in [by : Instance \cup {Nobody}, left : Nat]
BY DEF NoFlight, FlightState, PCs, Gone, ClientState, NoClaim

LEMMA TypeInit == Init => TypeOK
<1> SUFFICES ASSUME Init PROVE TypeOK
  OBVIOUS
<1>1. /\ flight \in [Instance -> FlightState]
      /\ client \in [Client -> ClientState]
      /\ claim \in [by : Instance \cup {Nobody}, left : Nat]
  BY AtRest DEF Init
<1>2. hot \subseteq Instance /\ visible \subseteq Instance
  BY DEF Init
<1>3. stored \in BOOLEAN
  BY DEF Init
<1>4. shared \in Nat /\ spread \in Nat /\ asked \in 0..2 /\ faults \in Nat
  BY DEF Init
<1> QED BY <1>1, <1>2, <1>3, <1>4 DEF TypeOK, FlightState, ClientState

(* A flight that moves on stays a flight.                                   *)
LEMMA FlightUpdate ==
  ASSUME TypeOK, NEW i \in Instance, NEW f \in FlightState
  PROVE  [flight EXCEPT ![i] = f] \in [Instance -> FlightState]
BY DEF TypeOK, FlightState

LEMMA GotoType ==
  ASSUME TypeOK, NEW i \in Instance, NEW pc \in PCs, Goto(i, pc)
  PROVE  flight' \in [Instance -> FlightState]
<1>1. flight[i] \in FlightState
  BY DEF TypeOK, FlightState
<1>2. [flight[i] EXCEPT !.pc = pc] \in FlightState
  BY <1>1 DEF FlightState
<1>3. flight' = [flight EXCEPT ![i] = [flight[i] EXCEPT !.pc = pc]]
  BY DEF Goto, TypeOK
<1> QED BY <1>2, <1>3, FlightUpdate

LEMMA AskSourceType ==
  ASSUME TypeOK, NEW i \in Instance, AskSource(i)
  PROVE  flight' \in [Instance -> FlightState] /\ asked' \in 0..2
<1>1. FetchTime \in Nat /\ "ask" \in PCs
  BY TimesAssumption DEF PCs
<1>2. flight' \in [Instance -> FlightState]
  <2>1. flight[i] \in FlightState
    BY DEF TypeOK, FlightState
  <2>2. [flight[i] EXCEPT !.pc = "ask", !.left = FetchTime] \in FlightState
    BY <1>1, <2>1 DEF FlightState
  <2>3. flight' = [flight EXCEPT ![i] = [flight[i] EXCEPT !.pc = "ask", !.left = FetchTime]]
    BY DEF AskSource, TypeOK
  <2> QED BY <2>2, <2>3, FlightUpdate
<1>3. asked' \in 0..2
  BY DEF TypeOK, AskSource
<1> QED BY <1>2, <1>3

LEMMA LandType ==
  ASSUME TypeOK, NEW i \in Instance, NEW ok \in BOOLEAN, Land(i, ok)
  PROVE  /\ flight' \in [Instance -> FlightState]
         /\ client' \in [Client -> ClientState] /\ hot' \subseteq Instance
<1>1. flight' \in [Instance -> FlightState]
  BY AtRest, FlightUpdate DEF Land
<1>2. client' \in [Client -> ClientState]
  BY AtRest DEF Land, TypeOK, ClientState
<1> QED BY <1>1, <1>2 DEF Land, TypeOK

LEMMA EndFetchType ==
  ASSUME TypeOK, NEW i \in Instance, NEW ok \in BOOLEAN, EndFetch(i, ok)
  PROVE  /\ flight' \in [Instance -> FlightState]
         /\ client' \in [Client -> ClientState] /\ hot' \subseteq Instance
<1>1. CASE flight[i].mine
  <2>1. /\ flight' = [flight EXCEPT ![i] = [flight[i] EXCEPT !.pc = "release", !.ok = ok]]
        /\ client' = client /\ hot' = hot
    BY <1>1 DEF EndFetch, TypeOK
  <2>2. [flight[i] EXCEPT !.pc = "release", !.ok = ok] \in FlightState
    <3>1. flight[i] \in FlightState /\ "release" \in PCs
      BY DEF TypeOK, FlightState, PCs
    <3> QED BY <3>1 DEF FlightState
  <2> QED BY <2>1, <2>2, FlightUpdate DEF TypeOK, ClientState
<1>2. CASE ~flight[i].mine
  BY <1>2, LandType DEF EndFetch
<1> QED BY <1>1, <1>2

-----------------------------------------------------------------------------
(* What each action leaves of the two sides of a claim.                     *)

\* Before the claim a flight has none.
Before == {"none", "look", "claim", "wait"}

ClaimsAgree ==
  \A i \in Instance :
    /\ flight[i].pc \in Before => ~flight[i].mine /\ flight[i].lease = 0
    /\ flight[i].lease > 0 => claim.by = i /\ claim.left = flight[i].lease
    /\ claim.by = i => flight[i].mine

\* A claim that ran out is nobody's.
NoneLeft == claim.left = 0 => claim.by = Nobody

\* A client that asked asked an instance.
Placed == \A c \in Client : client[c].pc # "idle" => client[c].at \in Instance

Inv == TypeOK /\ ClaimsAgree /\ NoneLeft /\ Placed

\* The side of the flights: what a step leaves of it.
SameClaims ==
  /\ claim' = claim
  /\ \A i \in Instance :
       /\ flight'[i].mine = flight[i].mine /\ flight'[i].lease = flight[i].lease
       /\ flight'[i].pc \in Before => flight[i].pc \in Before

\* Or a flight without a claim ends.
LandsUnclaimed(i) ==
  /\ claim' = claim /\ ~flight[i].mine /\ flight'[i] = NoFlight
  /\ \A j \in Instance \ {i} : flight'[j] = flight[j]

LEMMA SameClaimsAgree ==
  ASSUME Inv, SameClaims PROVE ClaimsAgree' /\ NoneLeft'
BY DEF Inv, SameClaims, ClaimsAgree, NoneLeft

LEMMA UnclaimedAgree ==
  ASSUME Inv, NEW i \in Instance, LandsUnclaimed(i) PROVE ClaimsAgree' /\ NoneLeft'
BY DEF Inv, LandsUnclaimed, ClaimsAgree, NoneLeft, NoFlight, Before, TypeOK

LEMMA LandUnclaimed ==
  ASSUME Inv, NEW i \in Instance, NEW ok, Land(i, ok), claim' = claim, ~flight[i].mine
  PROVE  LandsUnclaimed(i)
BY DEF Inv, TypeOK, Land, LandsUnclaimed

LEMMA GotoClaims ==
  ASSUME Inv, NEW i \in Instance, NEW pc, Goto(i, pc), claim' = claim,
         pc \in Before => flight[i].pc \in Before
  PROVE  ClaimsAgree' /\ NoneLeft'
<1>1. SameClaims
  BY DEF Inv, TypeOK, Goto, SameClaims
<1> QED BY <1>1, SameClaimsAgree

LEMMA AskSourceClaims ==
  ASSUME Inv, NEW i \in Instance, AskSource(i), claim' = claim
  PROVE  ClaimsAgree' /\ NoneLeft'
<1>1. SameClaims
  BY DEF Inv, TypeOK, AskSource, SameClaims, Before
<1> QED BY <1>1, SameClaimsAgree

LEMMA EndFetchClaims ==
  ASSUME Inv, NEW i \in Instance, NEW ok \in BOOLEAN, EndFetch(i, ok), claim' = claim
  PROVE  ClaimsAgree' /\ NoneLeft'
<1>1. CASE flight[i].mine
  <2>1. SameClaims
    BY <1>1 DEF Inv, TypeOK, EndFetch, SameClaims, Before
  <2> QED BY <2>1, SameClaimsAgree
<1>2. CASE ~flight[i].mine
  BY <1>2, LandUnclaimed, UnclaimedAgree DEF EndFetch
<1> QED BY <1>1, <1>2

LEMMA FlightsSameClaims ==
  ASSUME Inv, UNCHANGED <<flight, claim>>
  PROVE  ClaimsAgree' /\ NoneLeft'
BY SameClaimsAgree DEF SameClaims

-----------------------------------------------------------------------------
(* TypeOK and Inv, action by action.                                        *)

\* What no action of a client touches.
LEMMA ClientKeeps ==
  ASSUME Inv, client' \in [Client -> ClientState], hot' \subseteq Instance,
         UNCHANGED <<shared, claim, storeVars>>, asked' \in 0..2, faults' \in Nat,
         flight' \in [Instance -> FlightState]
  PROVE  TypeOK'
BY DEF Inv, TypeOK, FlightState, ClientState, storeVars

LEMMA NotFoundStep ==
  ASSUME Inv, NEW c \in Client, NotFound(c)
  PROVE  Inv'
<1> DEFINE i == client[c].at
<1>1. TypeOK /\ i \in Instance
  BY DEF Inv, Placed, NotFound
<1>2. /\ client' \in [Client -> ClientState] /\ Placed'
      /\ UNCHANGED <<hot, shared, claim, storeVars, faults>>
  BY <1>1, AtRest DEF NotFound, TypeOK, ClientState, Gone, Inv, Placed
<1>3. /\ flight' \in [Instance -> FlightState] /\ asked' \in 0..2
      /\ ClaimsAgree' /\ NoneLeft'
  <2>1. CASE flight[i].pc # "none"
    BY <1>1, <1>2, <2>1, FlightsSameClaims DEF NotFound, TypeOK, FlightState
  <2>2. CASE flight[i].pc = "none" /\ Shares
    <3>1. Goto(i, "look") /\ asked' = asked /\ claim' = claim
      BY <1>2, <2>2 DEF NotFound
    <3>2. "look" \in PCs /\ flight[i].pc \in Before
      BY <2>2 DEF PCs, Before
    <3> QED BY <1>1, <3>1, <3>2, GotoType, GotoClaims DEF TypeOK
  <2>3. CASE flight[i].pc = "none" /\ ~Shares
    <3>1. AskSource(i)
      BY <2>3 DEF NotFound
    <3> QED BY <1>1, <1>2, <3>1, AskSourceType, AskSourceClaims
  <2> QED BY <2>1, <2>2, <2>3
<1>4. TypeOK'
  BY <1>1, <1>2, <1>3, ClientKeeps DEF TypeOK
<1> QED BY <1>2, <1>3, <1>4 DEF Inv

LEMMA ClientSteps ==
  ASSUME Inv, NEW c \in Client, NEW i \in Instance,
         Found(c) \/ NotFound(c) \/ Leave(c) \/ Ask(c, i)
  PROVE  Inv'
<1>0. TypeOK /\ ReadTime \in Nat /\ Placed /\ flight \in [Instance -> FlightState]
  BY TimesAssumption DEF Inv, TypeOK, FlightState
<1>1. CASE Found(c)
  <2>1. client' \in [Client -> ClientState] /\ hot' \subseteq Instance /\ Placed'
    BY <1>0, <1>1, AtRest DEF Found, TypeOK, ClientState, Placed, Gone
  <2>2. UNCHANGED <<flight, shared, claim, storeVars, asked, faults>>
    BY <1>1 DEF Found
  <2> QED BY <1>0, <2>1, <2>2, FlightsSameClaims, ClientKeeps DEF Inv, TypeOK
<1>2. CASE Leave(c)
  <2>1. client' \in [Client -> ClientState] /\ Placed' /\ faults' \in Nat
    BY <1>0, <1>2, AtRest DEF Leave, TypeOK, ClientState, Placed, Gone, Fault
  <2>2. UNCHANGED <<hot, flight, shared, claim, storeVars, asked>>
    BY <1>2 DEF Leave
  <2> QED BY <1>0, <2>1, <2>2, FlightsSameClaims, ClientKeeps DEF Inv, TypeOK
<1>3. CASE Ask(c, i)
  <2>1. client' \in [Client -> ClientState] /\ Placed'
    BY <1>0, <1>3 DEF Ask, TypeOK, ClientState, Placed
  <2>2. UNCHANGED <<hot, flight, shared, claim, storeVars, asked, faults>>
    BY <1>3 DEF Ask
  <2> QED BY <1>0, <2>1, <2>2, FlightsSameClaims, ClientKeeps DEF Inv, TypeOK
<1> QED BY <1>1, <1>2, <1>3, NotFoundStep

(* Landing answers the clients of one flight.                               *)
LEMMA LandPlaced ==
  ASSUME Inv, NEW i \in Instance, NEW ok, Land(i, ok)
  PROVE  Placed'
BY DEF Inv, Placed, TypeOK, Land, Gone

LEMMA EndFetchPlaced ==
  ASSUME Inv, NEW i \in Instance, NEW ok, EndFetch(i, ok)
  PROVE  Placed'
BY LandPlaced DEF Inv, Placed, EndFetch

LEMMA LookStep ==
  ASSUME Inv, NEW i \in Instance, Look(i)
  PROVE  Inv'
<1>0. TypeOK /\ UNCHANGED <<shared, claim, storeVars, asked, faults>>
  BY DEF Inv, Look
<1>1. CASE shared > 0
  <2>1. Land(i, TRUE) /\ ~flight[i].mine
    BY <1>1 DEF Inv, Look, At, ClaimsAgree, Before
  <2> QED
    BY <1>0, <2>1, LandType, LandPlaced, LandUnclaimed, UnclaimedAgree, ClientKeeps
    DEF Inv, TypeOK
<1>2. CASE ~(shared > 0)
  <2>1. Goto(i, "claim") /\ UNCHANGED <<client, hot>> /\ "claim" \in PCs /\ flight[i].pc \in Before
    BY <1>2 DEF Look, At, PCs, Before
  <2>2. client' \in [Client -> ClientState] /\ Placed'
    BY <2>1 DEF Inv, TypeOK, ClientState, Placed
  <2> QED
    BY <1>0, <2>1, <2>2, GotoType, GotoClaims, ClientKeeps DEF Inv, TypeOK
<1> QED BY <1>1, <1>2

LEMMA ClaimStep ==
  ASSUME Inv, NEW i \in Instance, Claim(i)
  PROVE  Inv'
<1>0. /\ TypeOK /\ UNCHANGED <<hot, client, shared, storeVars, asked, faults>>
      /\ SharedWait \in Nat /\ ClaimTtl \in Nat \ {0} /\ flight[i].pc = "claim"
      /\ flight[i] \in FlightState
  BY TimesAssumption DEF Inv, Claim, At, TypeOK, FlightState
<1>1. CASE claim.left > 0
  <2>1. flight' = [flight EXCEPT ![i] = [flight[i] EXCEPT !.pc = "wait", !.left = SharedWait]]
        /\ claim' = claim
    BY <1>0, <1>1 DEF Claim, TypeOK
  <2>2. [flight[i] EXCEPT !.pc = "wait", !.left = SharedWait] \in FlightState
    BY <1>0 DEF FlightState, PCs
  <2>3. SameClaims
    BY <1>0, <2>1 DEF SameClaims, TypeOK, Before
  <2> QED
    BY <1>0, <2>1, <2>2, <2>3, FlightUpdate, SameClaimsAgree
    DEF Inv, TypeOK, FlightState, Placed, storeVars
<1>2. CASE ~(claim.left > 0)
  <2>1. /\ flight' = [flight EXCEPT ![i] =
                        [flight[i] EXCEPT !.pc = "again", !.mine = TRUE, !.lease = ClaimTtl]]
        /\ claim' = [by |-> i, left |-> ClaimTtl]
    BY <1>0, <1>2 DEF Claim, TypeOK
  <2>2. [flight[i] EXCEPT !.pc = "again", !.mine = TRUE, !.lease = ClaimTtl] \in FlightState
    BY <1>0 DEF FlightState, PCs
  <2>3. claim' \in [by : Instance \cup {Nobody}, left : Nat]
    BY <1>0, <2>1
  <2>4. TypeOK'
    BY <1>0, <2>1, <2>2, <2>3, FlightUpdate DEF TypeOK, FlightState, storeVars
  <2>5. claim.left = 0
    BY <1>0, <1>2 DEF TypeOK
  <2>6. \A j \in Instance : j # i => flight'[j] = flight[j] /\ flight[j].lease = 0
    BY <1>0, <2>1, <2>5 DEF Inv, ClaimsAgree, TypeOK
  <2>7. flight'[i].pc = "again" /\ flight'[i].mine /\ flight'[i].lease = ClaimTtl
    BY <1>0, <2>1 DEF TypeOK, FlightState
  <2>8. ClaimsAgree' /\ NoneLeft'
    BY <1>0, <2>1, <2>6, <2>7 DEF Inv, ClaimsAgree, NoneLeft, Before, TypeOK
  <2> QED BY <1>0, <2>4, <2>8 DEF Inv, Placed
<1> QED BY <1>1, <1>2

\* What a flight's step may do to the rest.
RestOK ==
  /\ shared' \in Nat /\ visible' \subseteq Instance /\ stored' \in BOOLEAN
  /\ spread' \in Nat /\ faults' \in Nat

\* The five ways a flight's step ends leave Inv as it was.
LEMMA Asks ==
  ASSUME Inv, NEW i \in Instance, AskSource(i), UNCHANGED <<client, hot, claim>>, RestOK
  PROVE  Inv'
<1>1. flight' \in [Instance -> FlightState] /\ asked' \in 0..2 /\ ClaimsAgree' /\ NoneLeft'
  BY AskSourceType, AskSourceClaims DEF Inv
<1> QED BY <1>1 DEF Inv, TypeOK, FlightState, Placed, RestOK

LEMMA Goes ==
  ASSUME Inv, NEW i \in Instance, NEW pc \in PCs, Goto(i, pc),
         pc \in Before => flight[i].pc \in Before,
         UNCHANGED <<client, hot, claim, asked>>, RestOK
  PROVE  Inv'
<1>1. flight' \in [Instance -> FlightState] /\ ClaimsAgree' /\ NoneLeft'
  BY GotoType, GotoClaims DEF Inv
<1> QED BY <1>1 DEF Inv, TypeOK, FlightState, Placed, RestOK

LEMMA Lands ==
  ASSUME Inv, NEW i \in Instance, NEW ok \in BOOLEAN, Land(i, ok), ~flight[i].mine,
         UNCHANGED <<claim, asked>>, RestOK
  PROVE  Inv'
<1>1. /\ flight' \in [Instance -> FlightState] /\ client' \in [Client -> ClientState]
      /\ hot' \subseteq Instance
  BY LandType DEF Inv
<1>2. ClaimsAgree' /\ NoneLeft' /\ Placed'
  BY LandUnclaimed, UnclaimedAgree, LandPlaced
<1> QED BY <1>1, <1>2 DEF Inv, TypeOK, FlightState, ClientState, RestOK

LEMMA Ends ==
  ASSUME Inv, NEW i \in Instance, NEW ok \in BOOLEAN, EndFetch(i, ok),
         UNCHANGED <<claim, asked>>, RestOK
  PROVE  Inv'
<1>1. /\ flight' \in [Instance -> FlightState] /\ client' \in [Client -> ClientState]
      /\ hot' \subseteq Instance
  BY EndFetchType DEF Inv
<1>2. ClaimsAgree' /\ NoneLeft' /\ Placed'
  BY EndFetchClaims, EndFetchPlaced
<1> QED BY <1>1, <1>2 DEF Inv, TypeOK, FlightState, ClientState, RestOK

LEMMA Stays ==
  ASSUME Inv, UNCHANGED <<flight, client, claim, asked>>, hot' \subseteq Instance, RestOK
  PROVE  Inv'
<1>1. ClaimsAgree' /\ NoneLeft'
  BY FlightsSameClaims
<1> QED BY <1>1 DEF Inv, TypeOK, Placed, RestOK

LEMMA RestSame ==
  ASSUME Inv, UNCHANGED <<shared, storeVars>>, UNCHANGED faults \/ Fault
  PROVE  RestOK
BY DEF Inv, TypeOK, storeVars, Fault, RestOK

LEMMA ReleaseStep ==
  ASSUME Inv, NEW i \in Instance, Release(i)
  PROVE  Inv'
<1>1. /\ Land(i, flight[i].ok) /\ flight[i].ok \in BOOLEAN
      /\ UNCHANGED <<shared, storeVars, asked, faults>>
  BY DEF Release, Inv, TypeOK
<1>2. claim' = IF claim.by = i THEN NoClaim ELSE claim
  BY DEF Release
<1>3. /\ flight' \in [Instance -> FlightState] /\ client' \in [Client -> ClientState]
      /\ hot' \subseteq Instance /\ Placed'
  BY <1>1, LandType, LandPlaced DEF Inv
<1>4. claim' \in [by : Instance \cup {Nobody}, left : Nat]
  BY <1>2, AtRest DEF Inv, TypeOK
<1>5. TypeOK'
  BY <1>1, <1>3, <1>4 DEF Inv, TypeOK, FlightState, ClientState, storeVars
<1>6. /\ flight'[i] = NoFlight /\ \A j \in Instance \ {i} : flight'[j] = flight[j]
  BY <1>1 DEF Land, Inv, TypeOK
<1>7. ClaimsAgree' /\ NoneLeft'
  BY <1>2, <1>6, InstancesAssumption
  DEF Inv, TypeOK, ClaimsAgree, NoneLeft, NoFlight, NoClaim, Before
<1> QED BY <1>3, <1>5, <1>7 DEF Inv

LEMMA FlightSteps ==
  ASSUME Inv, NEW i \in Instance,
         FlightStep(i) \/ Unreached(i) \/ Failed(i) \/ NotStored(i) \/ NotKept(i)
  PROVE  Inv'
<1>0. TypeOK /\ SharedTtl \in Nat /\ StoreLatency \in Nat
  BY TimesAssumption DEF Inv
<1>1. CASE Unreached(i)
  <2>1. RestOK /\ UNCHANGED <<client, hot, claim>>
    BY <1>1, RestSame DEF Unreached, Fault
  <2>2. CASE AskSource(i)
    BY <2>1, <2>2, Asks
  <2>3. CASE At(i, "look") /\ Goto(i, "claim") /\ UNCHANGED asked
    BY <2>1, <2>3, Goes DEF At, Before, PCs
  <2> QED BY <1>1, <2>2, <2>3 DEF Unreached
<1>2. CASE Again(i)
  <2>1. RestOK /\ UNCHANGED claim
    BY <1>2, RestSame DEF Again
  <2> QED BY <1>2, <2>1, Ends, Asks DEF Again
<1>3. CASE Seen(i)
  <2>1. RestOK /\ UNCHANGED <<claim, asked>> /\ Land(i, TRUE) /\ ~flight[i].mine
    BY <1>3, RestSame DEF Seen, At, Inv, ClaimsAgree, Before
  <2> QED BY <2>1, Lands
<1>4. CASE GiveUp(i)
  BY <1>4, RestSame, Asks DEF GiveUp
<1>5. CASE Answered(i)
  <2>1. RestOK /\ UNCHANGED <<client, hot, claim, asked>>
    BY <1>5, RestSame DEF Answered
  <2>2. PICK pc \in {"emit", "share", "store"} : Goto(i, pc)
    BY <1>5 DEF Answered
  <2> QED BY <2>1, <2>2, Goes DEF Before, PCs
<1>6. CASE Failed(i) \/ NotStored(i) \/ NotKept(i)
  BY <1>6, RestSame, Ends DEF Failed, NotStored, NotKept
<1>7. CASE Share(i)
  <2>1. RestOK /\ UNCHANGED <<client, hot, claim, asked>> /\ Goto(i, "store")
    BY <1>0, <1>7 DEF Share, RestOK, TypeOK, storeVars
  <2> QED BY <2>1, Goes DEF Before, PCs
<1>8. CASE Store(i)
  <2>1. RestOK /\ UNCHANGED <<claim, asked>> /\ EndFetch(i, TRUE)
    BY <1>0, <1>8 DEF Store, RestOK, TypeOK
  <2> QED BY <2>1, Ends
<1>9. CASE Emit(i)
  <2>1. RestOK /\ UNCHANGED <<claim, asked>> /\ EndFetch(i, TRUE)
    BY <1>0, <1>9 DEF Emit, RestOK, TypeOK
  <2> QED BY <2>1, Ends
<1> QED
  BY <1>1, <1>2, <1>3, <1>4, <1>5, <1>6, <1>7, <1>8, <1>9, LookStep, ClaimStep, ReleaseStep
  DEF FlightStep

LEMMA CrashStep ==
  ASSUME Inv, NEW i \in Instance, Crash(i)
  PROVE  Inv'
<1>1. /\ flight' = [flight EXCEPT ![i] = NoFlight] /\ UNCHANGED <<shared, asked>>
      /\ claim' = IF claim.by = i THEN [claim EXCEPT !.by = Nobody] ELSE claim
      /\ client' = [c \in Client |-> IF client[c].at = i THEN Gone ELSE client[c]]
  BY DEF Crash
<1>2. hot' \subseteq Instance /\ RestOK
  <2>1. /\ shared \in Nat /\ visible \subseteq Instance /\ stored \in BOOLEAN
        /\ spread \in Nat /\ faults \in Nat /\ hot \subseteq Instance
    BY DEF Inv, TypeOK
  <2>2. \/ UNCHANGED storeVars
        \/ visible' = {} /\ stored' = FALSE /\ spread' = 0
    BY DEF Crash
  <2>3. hot' = hot \ {i} /\ faults' = faults + 1 /\ shared' = shared
    BY DEF Crash, Fault
  <2>4. visible' \subseteq Instance /\ stored' \in BOOLEAN /\ spread' \in Nat
    <3>1. CASE UNCHANGED storeVars
      BY <2>1, <3>1 DEF storeVars
    <3>2. CASE visible' = {} /\ stored' = FALSE /\ spread' = 0
      <4>1. visible' \subseteq Instance
        BY <3>2
      <4>2. stored' \in BOOLEAN
        BY <3>2
      <4>3. spread' \in Nat
        BY <3>2
      <4> QED BY <4>1, <4>2, <4>3
    <3> QED BY <2>2, <3>1, <3>2
  <2> QED BY <2>1, <2>3, <2>4 DEF RestOK
<1>3. flight' \in [Instance -> FlightState]
  BY <1>1, AtRest, FlightUpdate DEF Inv
<1>4. client' \in [Client -> ClientState] /\ Placed'
  BY <1>1, AtRest DEF Inv, TypeOK, ClientState, Placed, Gone
<1>5. claim' \in [by : Instance \cup {Nobody}, left : Nat]
  BY <1>1 DEF Inv, TypeOK
<1>6. TypeOK'
  BY <1>1, <1>2, <1>3, <1>4, <1>5 DEF Inv, TypeOK, FlightState, ClientState, RestOK
<1>7. /\ flight'[i] = NoFlight /\ \A j \in Instance \ {i} : flight'[j] = flight[j]
  BY <1>1 DEF Inv, TypeOK
<1>8. ClaimsAgree' /\ NoneLeft'
  BY <1>1, <1>7, InstancesAssumption
  DEF Inv, TypeOK, ClaimsAgree, NoneLeft, NoFlight, Before
<1> QED BY <1>4, <1>6, <1>8 DEF Inv

LEMMA TickStep ==
  ASSUME Inv, Tick
  PROVE  Inv'
<1>0. TypeOK /\ flight \in [Instance -> FlightState] /\ client \in [Client -> ClientState]
  BY DEF Inv, TypeOK, FlightState, ClientState
<1>1. \A i \in Instance :
        flight'[i] = [flight[i] EXCEPT !.left = Less(flight[i].left),
                                       !.lease = Less(flight[i].lease)]
  BY DEF Tick
<1>2. \A c \in Client : client'[c] = [client[c] EXCEPT !.left = Less(client[c].left)]
  BY DEF Tick
<1>3. /\ shared' = Less(shared) /\ spread' = Less(spread)
      /\ UNCHANGED <<hot, visible, stored, asked, faults>>
      /\ claim' = IF claim.left <= 1 THEN NoClaim ELSE [claim EXCEPT !.left = claim.left - 1]
  BY DEF Tick
<1>4. \A i \in Instance : flight'[i] \in FlightState
  <2> SUFFICES ASSUME NEW i \in Instance PROVE flight'[i] \in FlightState
    OBVIOUS
  <2>1. flight[i] \in FlightState
    BY <1>0
  <2>2. Less(flight[i].left) \in Nat /\ Less(flight[i].lease) \in Nat
    BY <2>1, LessType DEF FlightState
  <2> QED BY <1>1, <2>1, <2>2 DEF FlightState
<1>5. \A c \in Client : client'[c] \in ClientState
  <2> SUFFICES ASSUME NEW c \in Client PROVE client'[c] \in ClientState
    OBVIOUS
  <2>1. client[c] \in ClientState /\ Less(client[c].left) \in Nat
    BY <1>0, LessType DEF ClientState
  <2> QED BY <1>2, <2>1 DEF ClientState
<1>6. flight' \in [Instance -> FlightState] /\ client' \in [Client -> ClientState]
  BY <1>4, <1>5 DEF Tick
<1>7. claim' \in [by : Instance \cup {Nobody}, left : Nat]
  BY <1>0, <1>3, AtRest DEF TypeOK
<1>8. TypeOK'
  BY <1>0, <1>3, <1>6, <1>7, LessType DEF TypeOK, FlightState, ClientState
<1>9. \A i \in Instance : /\ flight'[i].pc = flight[i].pc /\ flight'[i].mine = flight[i].mine
                          /\ flight'[i].lease = Less(flight[i].lease)
                          /\ flight[i].lease \in Nat
  BY <1>0, <1>1 DEF FlightState
<1>10. Placed'
  BY <1>0, <1>2 DEF Inv, Placed, ClientState
<1>11. NoneLeft'
  BY <1>0, <1>3 DEF NoneLeft, NoClaim, TypeOK
<1>12. ClaimsAgree'
  <2> SUFFICES ASSUME NEW i \in Instance
               PROVE  /\ flight'[i].pc \in Before => ~flight'[i].mine /\ flight'[i].lease = 0
                      /\ flight'[i].lease > 0 =>
                           claim'.by = i /\ claim'.left = flight'[i].lease
                      /\ claim'.by = i => flight'[i].mine
    BY DEF ClaimsAgree
  <2>1. /\ flight[i].pc \in Before => ~flight[i].mine /\ flight[i].lease = 0
        /\ flight[i].lease > 0 => claim.by = i /\ claim.left = flight[i].lease
        /\ claim.by = i => flight[i].mine
    BY DEF Inv, ClaimsAgree
  <2>2. CASE claim.left <= 1
    <3>1. claim'.by = Nobody
      BY <1>3, <2>2 DEF NoClaim
    <3>2. flight'[i].lease = 0
      BY <1>9, <2>1, <2>2 DEF Less
    <3> QED BY <1>9, <2>1, <3>1, <3>2, InstancesAssumption
  <2>3. CASE ~(claim.left <= 1)
    <3>1. claim'.by = claim.by /\ claim'.left = claim.left - 1 /\ claim.left \in Nat
      BY <1>0, <1>3, <2>3 DEF TypeOK
    <3> QED BY <1>9, <2>1, <2>3, <3>1 DEF Less
  <2> QED BY <2>2, <2>3
<1> QED BY <1>8, <1>10, <1>11, <1>12 DEF Inv

-----------------------------------------------------------------------------

LEMMA InvInit == Init => Inv
BY TypeInit, InstancesAssumption
DEF Init, Inv, ClaimsAgree, NoneLeft, Placed, NoFlight, NoClaim, Gone, Before

LEMMA InvNext == Inv /\ [Next]_vars => Inv'
<1> SUFFICES ASSUME Inv, [Next]_vars PROVE Inv'
  OBVIOUS
<1>1. CASE Tick
  BY <1>1, TickStep
<1>2. ASSUME NEW c \in Client, NEW i \in Instance,
             Found(c) \/ NotFound(c) \/ Leave(c) \/ Ask(c, i)
      PROVE  Inv'
  BY <1>2, ClientSteps
<1>3. ASSUME NEW c \in Client, Found(c) \/ NotFound(c) \/ Leave(c)
      PROVE  Inv'
  <2>1. client[c].pc # "idle"
    BY <1>3 DEF Found, NotFound, Leave
  <2>2. PICK i \in Instance : TRUE
    BY <2>1 DEF Inv, Placed
  <2> QED BY <1>2, <1>3, <2>2
<1>4. ASSUME NEW i \in Instance,
             FlightStep(i) \/ Unreached(i) \/ Failed(i) \/ NotStored(i) \/ NotKept(i)
      PROVE  Inv'
  BY <1>4, FlightSteps
<1>5. ASSUME NEW i \in Instance, Crash(i)
      PROVE  Inv'
  BY <1>5, CrashStep
<1>6. ASSUME NEW i \in Instance, Cool(i) \/ Learn(i) \/ Spread(i)
      PROVE  Inv'
  <2>1. /\ UNCHANGED <<flight, client, claim, asked>> /\ hot' \subseteq Instance
        /\ RestOK
    BY <1>6 DEF Cool, Learn, Spread, Inv, TypeOK, RestOK, storeVars
  <2> QED BY <2>1, Stays
<1>7. CASE UNCHANGED vars
  BY <1>7, Stays DEF vars, Inv, TypeOK, RestOK
<1> QED
  BY <1>1, <1>2, <1>3, <1>4, <1>5, <1>6, <1>7 DEF Next

\* Every variable holds what its declaration says.
THEOREM TypeCorrect == Spec => []TypeOK
<1>1. Inv => TypeOK
  BY DEF Inv
<1> QED BY <1>1, InvInit, InvNext, PTL DEF Spec

\* Two instances never fetch under claims that both hold (OneClaimant): a lease
\* that runs is the shared claim's, and that names one instance.
THEOREM OneFetches == Spec => []OneClaimant
<1>1. Inv => OneClaimant
  <2> SUFFICES ASSUME Inv, NEW i \in Instance, NEW j \in Instance, i # j,
                      flight[i].lease # 0, flight[j].lease # 0
               PROVE  FALSE
    BY DEF OneClaimant
  <2>1. flight[i].lease > 0 /\ flight[j].lease > 0
    BY DEF Inv, TypeOK
  <2> QED BY <2>1 DEF Inv, ClaimsAgree
<1> QED BY <1>1, InvInit, InvNext, PTL DEF Spec

\* No way a fetch ends leaves its claim behind (ClaimsGivenBack).
THEOREM NoClaimLeftBehind == Spec => []ClaimsGivenBack
<1>1. Inv => ClaimsGivenBack
  BY DEF Inv, TypeOK, ClaimsAgree, ClaimsGivenBack
<1> QED BY <1>1, InvInit, InvNext, PTL DEF Spec
-----------------------------------------------------------------------------
(* FetchedOnce.  While nothing goes wrong a tile goes through three phases: *)
(* nobody asked the source (Unasked), one flight is asking it and no other  *)
(* can (BeingAsked), it was asked and what it said is to be found (Answers).*)

\* The delays allow it: a claim and the wait for another's tile outlast the
\* fetch, and a shared tile outlasts what the store takes to show it and a look
\* that just missed it.
Timely ==
  /\ Shares
  /\ FetchTime < SharedWait /\ FetchTime < ClaimTtl
  /\ StoreLatency + ReadTime < SharedTtl

\* While no client leaves, a flight has one that polls it.
Manned == \A i \in Instance : flight[i].pc # "none" => Waiting(i) # {}

ReadsEnd == \A c \in Client : client[c].pc = "reading" => client[c].left <= ReadTime

Early == {"none", "look", "claim", "wait"}

Unasked ==
  /\ asked = 0 /\ shared = 0 /\ ~stored /\ visible = {}
  /\ \A i \in Instance :
       /\ flight[i].pc \in Early \cup {"again"}
       /\ flight[i].pc = "wait" => flight[i].left = SharedWait /\ claim.left > 0
       /\ flight[i].pc = "again" => flight[i].lease = ClaimTtl
  /\ claim.left > 0 => \E i \in Instance : flight[i].pc = "again"

\* Whoever waits for the flight that asks waits longer than it has left, and
\* its claim holds longer still.
AskedBy(i) ==
  /\ flight[i].pc \in {"ask", "emit", "share"} /\ flight[i].lease > 0
  /\ flight[i].pc = "ask" => flight[i].lease > flight[i].left /\ flight[i].left <= FetchTime
  /\ \A j \in Instance \ {i} :
       /\ flight[j].pc \in Early
       /\ flight[j].pc = "wait" =>
            flight[j].left > 0 /\ (flight[i].pc = "ask" => flight[j].left > flight[i].left)

BeingAsked ==
  /\ asked = 1 /\ shared = 0 /\ ~stored /\ visible = {}
  /\ \E i \in Instance : AskedBy(i)

\* Whoever has yet to look or just missed it in the store finds it shared.
Answers ==
  /\ asked = 1
  /\ \A i \in Instance :
       /\ flight[i].pc \notin {"ask", "emit", "share"}
       /\ flight[i].pc \in {"look", "claim", "wait", "again"} => shared > 0
       /\ flight[i].pc = "store" => ~stored /\ shared = SharedTtl
       /\ \A j \in Instance : flight[i].pc = "store" /\ flight[j].pc = "store" => i = j
  /\ stored \/ \E i \in Instance : flight[i].pc = "store"
  /\ stored /\ visible # Instance => shared > spread + ReadTime
  /\ \A c \in Client : client[c].pc = "reading" /\ ~client[c].saw => shared > client[c].left

Phases == Unasked \/ BeingAsked \/ Answers

Once == Manned /\ ReadsEnd /\ Phases

\* A step that moves one flight, or none.
Only(i) == \A j \in Instance \ {i} : flight'[j] = flight[j]

\* No client starts to read, and none but those of i stop waiting.
NoNewReads ==
  \A c \in Client : client'[c].pc = "reading" => client'[c] = client[c]

Stay(i) == \A c \in Client : client[c].pc = "waiting" => client'[c] = client[c] \/ client[c].at = i

LEMMA MannedStep ==
  ASSUME Manned, NEW i \in Instance, Only(i), Stay(i),
         flight'[i].pc = "none" \/ Waiting(i)' # {}
  PROVE  Manned'
BY DEF Manned, Only, Stay, Waiting

LEMMA ReadsEndStep == ASSUME ReadsEnd, NoNewReads PROVE ReadsEnd'
BY DEF ReadsEnd, NoNewReads

LEMMA GotoAt ==
  ASSUME TypeOK, NEW i \in Instance, NEW pc, Goto(i, pc)
  PROVE  /\ Only(i) /\ flight'[i].pc = pc
         /\ flight'[i].left = flight[i].left /\ flight'[i].lease = flight[i].lease
BY DEF TypeOK, Goto, Only

LEMMA AskSourceAt ==
  ASSUME TypeOK, NEW i \in Instance, AskSource(i)
  PROVE  /\ Only(i) /\ flight'[i].pc = "ask"
         /\ flight'[i].left = FetchTime /\ flight'[i].lease = flight[i].lease
BY DEF TypeOK, AskSource, Only

LEMMA LandAt ==
  ASSUME TypeOK, NEW i \in Instance, NEW ok, Land(i, ok)
  PROVE  Only(i) /\ flight'[i] = NoFlight /\ flight'[i].pc = "none" /\ NoNewReads /\ Stay(i)
BY DEF TypeOK, Land, Only, NoFlight, NoNewReads, Stay, Waiting, Gone

LEMMA EndFetchAt ==
  ASSUME TypeOK, NEW i \in Instance, NEW ok, EndFetch(i, ok)
  PROVE  /\ Only(i) /\ NoNewReads /\ Stay(i)
         /\ flight'[i].pc = "none" \/ (flight'[i].pc = "release" /\ client' = client)
<1>1. CASE flight[i].mine
  <2>1. flight' = [flight EXCEPT ![i].pc = "release", ![i].ok = ok] /\ client' = client
    BY <1>1 DEF EndFetch
  <2>2. Only(i) /\ flight'[i].pc = "release"
    BY <2>1 DEF TypeOK, Only
  <2> QED BY <2>1, <2>2 DEF NoNewReads, Stay
<1>2. CASE ~flight[i].mine
  BY <1>2, LandAt DEF EndFetch
<1> QED BY <1>1, <1>2

\* Steps of no client.
LEMMA ClientsSame ==
  ASSUME client' = client
  PROVE  /\ NoNewReads /\ \A i \in Instance : Stay(i) /\ Waiting(i)' = Waiting(i)
BY DEF NoNewReads, Stay, Waiting

\* What a flight's step does to Manned and ReadsEnd is the same in every phase.
LEMMA FlightStepKeeps ==
  ASSUME Inv, Manned, ReadsEnd, NEW i \in Instance, FlightStep(i)
  PROVE  Manned' /\ ReadsEnd' /\ Only(i) /\ NoNewReads
<1>0. TypeOK
  BY DEF Inv
<1>1. CASE Look(i)
  <2>1. CASE shared > 0
    BY <1>0, <1>1, <2>1, LandAt, MannedStep, ReadsEndStep DEF Look
  <2>2. CASE ~(shared > 0)
    BY <1>0, <1>1, <2>2, GotoAt, ClientsSame, MannedStep, ReadsEndStep DEF Look, At
  <2> QED BY <2>1, <2>2
<1>2. CASE Claim(i)
  <2>1. Only(i) /\ client' = client /\ Waiting(i) # {}
    BY <1>0, <1>2 DEF Claim, At, Only, TypeOK
  <2> QED BY <2>1, ClientsSame, MannedStep, ReadsEndStep
<1>3. CASE Again(i)
  <2>1. CASE shared > 0
    BY <1>0, <1>3, <2>1, EndFetchAt, ClientsSame, MannedStep, ReadsEndStep DEF Again, At
  <2>2. CASE ~(shared > 0)
    BY <1>0, <1>3, <2>2, AskSourceAt, ClientsSame, MannedStep, ReadsEndStep DEF Again, At
  <2> QED BY <2>1, <2>2
<1>4. CASE Seen(i)
  BY <1>0, <1>4, LandAt, MannedStep, ReadsEndStep DEF Seen
<1>5. CASE GiveUp(i)
  BY <1>0, <1>5, AskSourceAt, ClientsSame, MannedStep, ReadsEndStep DEF GiveUp, At
<1>6. CASE Answered(i)
  <2>1. PICK pc : Goto(i, pc)
    BY <1>6 DEF Answered
  <2> QED BY <1>0, <1>6, <2>1, GotoAt, ClientsSame, MannedStep, ReadsEndStep DEF Answered, At
<1>7. CASE Share(i)
  BY <1>0, <1>7, GotoAt, ClientsSame, MannedStep, ReadsEndStep DEF Share, At
<1>8. CASE Store(i)
  BY <1>0, <1>8, EndFetchAt, ClientsSame, MannedStep, ReadsEndStep DEF Store, At
<1>9. CASE Emit(i)
  BY <1>0, <1>9, EndFetchAt, ClientsSame, MannedStep, ReadsEndStep DEF Emit, At
<1>10. CASE Release(i)
  BY <1>0, <1>10, LandAt, MannedStep, ReadsEndStep DEF Release
<1> QED BY <1>1, <1>2, <1>3, <1>4, <1>5, <1>6, <1>7, <1>8, <1>9, <1>10 DEF FlightStep

(* Nobody has asked: only a claim leads to the source, and it is one's.     *)
LEMMA UnaskedStep ==
  ASSUME Inv, Timely, Unasked, NEW i \in Instance, FlightStep(i)
  PROVE  Phases'
<1>0. /\ TypeOK /\ FetchTime \in Nat /\ SharedWait \in Nat /\ ClaimTtl \in Nat \ {0}
      /\ FetchTime < SharedWait /\ FetchTime < ClaimTtl
      /\ asked = 0 /\ shared = 0 /\ ~stored /\ visible = {}
  BY TimesAssumption DEF Inv, Timely, Unasked
<1>1. \A j \in Instance :
        /\ flight[j].pc \in Early \cup {"again"}
        /\ flight[j].pc = "wait" => flight[j].left = SharedWait /\ claim.left > 0
        /\ flight[j].pc = "again" => flight[j].lease = ClaimTtl
  BY DEF Unasked
<1>2. claim.left > 0 => \E j \in Instance : flight[j].pc = "again"
  BY DEF Unasked
<1>3. CASE Look(i)
  <2>1. Goto(i, "claim") /\ UNCHANGED <<shared, claim, storeVars, asked>> /\ flight[i].pc = "look"
    BY <1>0, <1>3 DEF Look, At
  <2>2. Only(i) /\ flight'[i].pc = "claim"
    BY <1>0, <2>1, GotoAt
  <2>3. \A j \in Instance :
          /\ flight'[j].pc \in Early \cup {"again"}
          /\ flight'[j].pc = "wait" => flight'[j].left = SharedWait /\ claim'.left > 0
          /\ flight'[j].pc = "again" => flight'[j].lease = ClaimTtl
    BY <1>1, <2>1, <2>2 DEF Only, Early
  <2>4. claim'.left > 0 => \E j \in Instance : flight'[j].pc = "again"
    <3> SUFFICES ASSUME claim.left > 0 PROVE \E j \in Instance : flight'[j].pc = "again"
      BY <2>1
    <3>1. PICK j \in Instance : flight[j].pc = "again"
      BY <1>2
    <3>2. j # i
      BY <2>1, <3>1
    <3> QED BY <2>2, <3>1, <3>2 DEF Only
  <2> QED BY <1>0, <2>1, <2>3, <2>4 DEF Phases, Unasked, storeVars
<1>4. CASE Claim(i)
  <2>1. /\ UNCHANGED <<shared, storeVars, asked>> /\ flight[i].pc = "claim" /\ Only(i)
        /\ claim.left \in Nat
    BY <1>0, <1>4 DEF Claim, At, TypeOK, Only
  <2>2. CASE claim.left > 0
    <3>1. flight'[i].pc = "wait" /\ flight'[i].left = SharedWait /\ claim' = claim
      BY <1>0, <1>4, <2>2 DEF Claim, TypeOK
    <3>2. \A j \in Instance :
            /\ flight'[j].pc \in Early \cup {"again"}
            /\ flight'[j].pc = "wait" => flight'[j].left = SharedWait /\ claim'.left > 0
            /\ flight'[j].pc = "again" => flight'[j].lease = ClaimTtl
      BY <1>1, <2>1, <2>2, <3>1 DEF Only, Early
    <3>3. PICK j \in Instance : flight[j].pc = "again"
      BY <1>2, <2>2
    <3>4. flight'[j].pc = "again"
      BY <2>1, <3>3 DEF Only
    <3> QED BY <1>0, <2>1, <3>2, <3>4 DEF Phases, Unasked, storeVars
  <2>3. CASE ~(claim.left > 0)
    <3>1. flight'[i].pc = "again" /\ flight'[i].lease = ClaimTtl /\ claim'.left = ClaimTtl
      BY <1>0, <1>4, <2>3 DEF Claim, TypeOK
    <3>2. \A j \in Instance :
            /\ flight'[j].pc \in Early \cup {"again"}
            /\ flight'[j].pc = "wait" => flight'[j].left = SharedWait /\ claim'.left > 0
            /\ flight'[j].pc = "again" => flight'[j].lease = ClaimTtl
      BY <1>0, <1>1, <2>1, <2>3, <3>1 DEF Only, Early
    <3> QED BY <1>0, <2>1, <3>1, <3>2 DEF Phases, Unasked, storeVars
  <2> QED BY <2>2, <2>3
<1>5. CASE Again(i)
  <2>1. /\ UNCHANGED <<shared, claim, storeVars>> /\ flight[i].pc = "again" /\ AskSource(i)
        /\ flight[i].lease = ClaimTtl
    BY <1>0, <1>1, <1>5 DEF Again, At
  <2>2. /\ Only(i) /\ flight'[i].pc = "ask" /\ flight'[i].left = FetchTime
        /\ flight'[i].lease = ClaimTtl /\ asked' = 1
    <3>1. asked' = 1
      BY <1>0, <2>1 DEF AskSource
    <3> QED BY <1>0, <2>1, <3>1, AskSourceAt
  <2>3. \A j \in Instance \ {i} : flight[j].pc # "again"
    <3> SUFFICES ASSUME NEW j \in Instance, flight[j].pc = "again", j # i PROVE FALSE
      OBVIOUS
    <3>1. flight[j].lease > 0 /\ flight[i].lease > 0
      BY <1>0, <1>1, <2>1
    <3> QED BY <3>1 DEF Inv, ClaimsAgree
  <2>4. \A j \in Instance \ {i} :
          /\ flight'[j].pc \in Early
          /\ flight'[j].pc = "wait" => flight'[j].left > 0 /\ flight'[j].left > FetchTime
    BY <1>0, <1>1, <2>2, <2>3 DEF Only
  <2>5. AskedBy(i)'
    BY <1>0, <2>2, <2>4 DEF AskedBy
  <2> QED BY <1>0, <2>1, <2>2, <2>5 DEF Phases, BeingAsked, storeVars
<1>6. ~Seen(i)
  BY <1>0 DEF Seen
<1>7. ~GiveUp(i)
  BY <1>0, <1>1 DEF GiveUp, At
<1>8. ~Answered(i) /\ ~Share(i) /\ ~Store(i) /\ ~Emit(i) /\ ~Release(i)
  <2>1. flight[i].pc \in {"none", "look", "claim", "wait", "again"}
    BY <1>1 DEF Early
  <2> QED BY <2>1 DEF Answered, Share, Store, Emit, Release, At
<1> QED BY <1>3, <1>4, <1>5, <1>6, <1>7, <1>8 DEF FlightStep

(* One asks: whoever else comes waits for it, and what it fetched is shared *)
(* before it is done.                                                       *)
LEMMA BeingAskedStep ==
  ASSUME Inv, Timely, ReadsEnd, NoNewReads, BeingAsked, NEW i \in Instance, FlightStep(i)
  PROVE  Phases'
<1>0. /\ TypeOK /\ FetchTime \in Nat /\ SharedWait \in Nat /\ ReadTime \in Nat
      /\ StoreLatency \in Nat /\ SharedTtl \in Nat
      /\ FetchTime < SharedWait /\ StoreLatency + ReadTime < SharedTtl /\ Shares
      /\ asked = 1 /\ shared = 0 /\ ~stored /\ visible = {}
  BY TimesAssumption DEF Inv, Timely, BeingAsked
<1>1. PICK a \in Instance : AskedBy(a)
  BY DEF BeingAsked
<1>2. /\ flight[a].pc \in {"ask", "emit", "share"} /\ flight[a].lease > 0
      /\ flight[a].pc = "ask" => flight[a].lease > flight[a].left /\ flight[a].left <= FetchTime
      /\ flight[a].left \in Nat /\ claim.left > 0
  BY <1>0, <1>1 DEF AskedBy, TypeOK, Inv, ClaimsAgree
<1>3. \A j \in Instance \ {a} :
        /\ flight[j].pc \in Early
        /\ flight[j].pc = "wait" =>
             flight[j].left > 0 /\ (flight[a].pc = "ask" => flight[j].left > flight[a].left)
  BY <1>1 DEF AskedBy
<1>4. CASE i # a
  <2>1. flight[i].pc \in Early
    BY <1>3, <1>4
  <2>2. Look(i) \/ Claim(i)
    <3>1. ~Seen(i)
      BY <1>0 DEF Seen
    <3>2. ~GiveUp(i)
      BY <1>3, <1>4 DEF GiveUp, At
    <3>3. ~Again(i) /\ ~Answered(i) /\ ~Share(i) /\ ~Store(i) /\ ~Emit(i) /\ ~Release(i)
      BY <2>1 DEF Again, Answered, Share, Store, Emit, Release, At, Early
    <3> QED BY <3>1, <3>2, <3>3 DEF FlightStep
  <2>3. /\ Only(i) /\ UNCHANGED <<shared, storeVars, asked>>
        /\ flight'[i].pc = "claim" \/ (flight'[i].pc = "wait" /\ flight'[i].left = SharedWait)
    <3>1. CASE Look(i)
      <4>1. Goto(i, "claim") /\ UNCHANGED <<shared, storeVars, asked>>
        BY <1>0, <3>1 DEF Look
      <4> QED BY <1>0, <4>1, GotoAt
    <3>2. CASE Claim(i)
      BY <1>0, <1>2, <3>2 DEF Claim, TypeOK, Only
    <3> QED BY <2>2, <3>1, <3>2
  <2>4. flight'[a] = flight[a]
    BY <1>4, <2>3 DEF Only
  <2>5. \A j \in Instance \ {a} :
          /\ flight'[j].pc \in Early
          /\ flight'[j].pc = "wait" =>
               flight'[j].left > 0 /\ (flight'[a].pc = "ask" => flight'[j].left > flight'[a].left)
    <3> SUFFICES ASSUME NEW j \in Instance \ {a}
                 PROVE  /\ flight'[j].pc \in Early
                        /\ flight'[j].pc = "wait" =>
                             /\ flight'[j].left > 0
                             /\ flight'[a].pc = "ask" => flight'[j].left > flight'[a].left
      OBVIOUS
    <3>1. CASE j = i
      BY <1>0, <1>2, <2>3, <2>4, <3>1 DEF Early
    <3>2. CASE j # i
      BY <1>3, <2>3, <2>4, <3>2 DEF Only
    <3> QED BY <3>1, <3>2
  <2>6. AskedBy(a)'
    BY <1>2, <2>4, <2>5 DEF AskedBy
  <2> QED BY <1>0, <2>3, <2>6 DEF Phases, BeingAsked, storeVars
<1>5. CASE i = a
  <2>1. Answered(i) \/ Share(i) \/ Emit(i)
    BY <1>2, <1>5
    DEF FlightStep, Look, Claim, Again, Seen, GiveUp, Store, Release, At
  <2>2. CASE Answered(i)
    <3>1. PICK pc \in {"emit", "share"} : Goto(i, pc)
      BY <1>0, <2>2 DEF Answered
    <3>2. Only(i) /\ flight'[i].pc = pc /\ flight'[i].lease = flight[i].lease
      BY <1>0, <3>1, GotoAt
    <3>3. UNCHANGED <<shared, storeVars, asked>>
      BY <2>2 DEF Answered
    <3>4. \A j \in Instance \ {a} :
            /\ flight'[j].pc \in Early
            /\ flight'[j].pc = "wait" => flight'[j].left > 0
      BY <1>3, <1>5, <3>2 DEF Only
    <3>5. AskedBy(a)'
      <4>1. /\ flight'[a].pc \in {"ask", "emit", "share"} /\ flight'[a].pc # "ask"
            /\ flight'[a].lease > 0
        BY <1>2, <1>5, <3>1, <3>2
      <4> QED BY <3>4, <4>1 DEF AskedBy
    <3> QED BY <1>0, <3>3, <3>5 DEF Phases, BeingAsked, storeVars
  <2>3. CASE Share(i)
    <3>1. /\ Goto(i, "store") /\ shared' = SharedTtl /\ asked' = 1 /\ ~stored'
      BY <1>0, <2>3 DEF Share, storeVars
    <3>2. Only(i) /\ flight'[i].pc = "store"
      BY <1>0, <3>1, GotoAt
    <3>3. \A j \in Instance \ {i} : flight'[j].pc \in Early
      BY <1>3, <1>5, <3>2 DEF Only
    <3>4. \A j \in Instance :
            /\ flight'[j].pc \notin {"ask", "emit", "share"}
            /\ flight'[j].pc = "store" => j = i
      BY <3>2, <3>3 DEF Early
    <3>5. shared' > 0 /\ shared' > ReadTime
      BY <1>0, <3>1
    <3>6. \A c \in Client : client'[c].pc = "reading" => shared' > client'[c].left
      <4> SUFFICES ASSUME NEW c \in Client, client'[c].pc = "reading"
                   PROVE  shared' > client'[c].left
        OBVIOUS
      <4>1. client'[c] = client[c] /\ client[c].left <= ReadTime /\ client[c].left \in Nat
        BY <1>0 DEF NoNewReads, ReadsEnd, TypeOK
      <4> QED BY <1>0, <3>1, <3>5, <4>1
    <3> QED BY <3>1, <3>2, <3>4, <3>5, <3>6 DEF Phases, Answers
  <2>4. CASE Emit(i)
    <3>1. /\ EndFetch(i, TRUE) /\ shared' = SharedTtl /\ asked' = 1 /\ stored'
          /\ spread' = StoreLatency
      BY <1>0, <2>4 DEF Emit
    <3>2. Only(i) /\ flight'[i].pc \in {"none", "release"}
      BY <1>0, <3>1, EndFetchAt
    <3>3. \A j \in Instance \ {i} : flight'[j].pc \in Early
      BY <1>3, <1>5, <3>2 DEF Only
    <3>4. \A j \in Instance : flight'[j].pc \notin {"ask", "emit", "share", "store"}
      BY <3>2, <3>3 DEF Early
    <3>5. shared' > 0 /\ shared' > spread' + ReadTime /\ shared' > ReadTime
      BY <1>0, <3>1
    <3>6. \A c \in Client : client'[c].pc = "reading" => shared' > client'[c].left
      <4> SUFFICES ASSUME NEW c \in Client, client'[c].pc = "reading"
                   PROVE  shared' > client'[c].left
        OBVIOUS
      <4>1. client'[c] = client[c] /\ client[c].left <= ReadTime /\ client[c].left \in Nat
        BY <1>0 DEF NoNewReads, ReadsEnd, TypeOK
      <4> QED BY <1>0, <3>1, <3>5, <4>1
    <3> QED BY <3>1, <3>4, <3>5, <3>6 DEF Phases, Answers
  <2> QED BY <2>1, <2>2, <2>3, <2>4
<1> QED BY <1>4, <1>5

(* It was asked: whoever comes later finds it shared or stored.             *)
LEMMA AnswersStep ==
  ASSUME Inv, Timely, ReadsEnd, NoNewReads, Answers, NEW i \in Instance, FlightStep(i)
  PROVE  Phases'
<1>0. /\ TypeOK /\ ReadTime \in Nat /\ StoreLatency \in Nat /\ SharedTtl \in Nat
      /\ StoreLatency + ReadTime < SharedTtl /\ asked = 1 /\ shared \in Nat
  BY TimesAssumption DEF Inv, Timely, Answers, TypeOK
<1>1. \A j \in Instance :
        /\ flight[j].pc \notin {"ask", "emit", "share"}
        /\ flight[j].pc \in {"look", "claim", "wait", "again"} => shared > 0
        /\ flight[j].pc = "store" => ~stored /\ shared = SharedTtl
        /\ \A k \in Instance : flight[j].pc = "store" /\ flight[k].pc = "store" => j = k
  BY DEF Answers
<1>2. \A c \in Client : client'[c].pc = "reading" /\ ~client'[c].saw => shared > client'[c].left
  BY DEF Answers, NoNewReads
<1>3. CASE Store(i)
  <2>1. /\ EndFetch(i, TRUE) /\ UNCHANGED <<shared, asked>> /\ flight[i].pc = "store" /\ stored'
        /\ shared = SharedTtl /\ ~stored /\ spread' = StoreLatency
    BY <1>1, <1>3 DEF Store, At
  <2>2. Only(i) /\ flight'[i].pc \in {"none", "release"}
    BY <1>0, <2>1, EndFetchAt
  <2>3. \A j \in Instance :
          /\ flight'[j].pc \notin {"ask", "emit", "share", "store"}
          /\ flight'[j].pc \in {"look", "claim", "wait", "again"} => shared' > 0
    BY <1>1, <2>1, <2>2 DEF Only
  <2>4. shared' > spread' + ReadTime
    BY <1>0, <2>1
  <2> QED BY <1>0, <1>2, <2>1, <2>3, <2>4 DEF Phases, Answers
<1>4. ASSUME UNCHANGED <<shared, storeVars, asked>>, Only(i), flight[i].pc # "store",
             \/ flight'[i].pc \in {"none", "release"}
             \/ flight'[i].pc \in {"claim", "wait", "again"} /\ shared > 0
      PROVE  Phases'
  <2>1. \A j \in Instance :
          /\ flight'[j].pc \notin {"ask", "emit", "share"}
          /\ flight'[j].pc \in {"look", "claim", "wait", "again"} => shared' > 0
          /\ flight'[j].pc = "store" => flight[j].pc = "store" /\ ~stored' /\ shared' = SharedTtl
    BY <1>1, <1>4 DEF Only, storeVars
  <2>2. \A j, k \in Instance : flight'[j].pc = "store" /\ flight'[k].pc = "store" => j = k
    BY <1>1, <2>1
  <2>3. stored' \/ \E j \in Instance : flight'[j].pc = "store"
    BY <1>4 DEF Answers, Only, storeVars
  <2>4. stored' /\ visible' # Instance => shared' > spread' + ReadTime
    BY <1>4 DEF Answers, storeVars
  <2> QED BY <1>0, <1>2, <1>4, <2>1, <2>2, <2>3, <2>4 DEF Phases, Answers
<1>5. CASE Look(i) \/ Again(i) \/ Seen(i)
  <2>1. flight[i].pc \in {"look", "again", "wait"} /\ shared > 0
    BY <1>1, <1>5 DEF Look, Again, Seen, At
  <2>2. Land(i, TRUE) \/ EndFetch(i, TRUE)
    BY <1>5, <2>1 DEF Look, Again, Seen
  <2>3. Only(i) /\ flight'[i].pc \in {"none", "release"}
    BY <1>0, <2>2, LandAt, EndFetchAt
  <2>4. UNCHANGED <<shared, storeVars, asked>>
    BY <1>5, <2>1 DEF Look, Again, Seen
  <2> QED BY <1>4, <2>1, <2>3, <2>4
<1>6. CASE Claim(i)
  <2>1. flight[i].pc = "claim" /\ shared > 0 /\ UNCHANGED <<shared, storeVars, asked>>
    BY <1>1, <1>6 DEF Claim, At
  <2>2. Only(i) /\ flight'[i].pc \in {"wait", "again"}
    BY <1>0, <1>6 DEF Claim, TypeOK, Only
  <2> QED BY <1>4, <2>1, <2>2
<1>7. CASE Release(i)
  <2>1. /\ flight[i].pc = "release" /\ Land(i, flight[i].ok)
        /\ UNCHANGED <<shared, storeVars, asked>>
    BY <1>7 DEF Release, At
  <2>2. Only(i) /\ flight'[i].pc = "none"
    BY <1>0, <2>1, LandAt
  <2> QED BY <1>4, <2>1, <2>2
<1>8. ~GiveUp(i) /\ ~Answered(i) /\ ~Share(i) /\ ~Emit(i)
  <2>1. ~GiveUp(i)
    BY <1>1 DEF GiveUp, At
  <2> QED BY <1>1, <2>1 DEF Answered, Share, Emit, At
<1> QED BY <1>3, <1>5, <1>6, <1>7, <1>8 DEF FlightStep

(* A client that missed the tile in the store joins the flight there is, or *)
(* starts one that looks at what is shared.                                 *)
LEMMA NotFoundOnce ==
  ASSUME Inv, Timely, Once, NEW c \in Client, NotFound(c)
  PROVE  Once'
<1>a. PICK i : i = client[c].at
  OBVIOUS
<1>0. /\ TypeOK /\ Shares /\ i \in Instance /\ client[c].pc = "reading" /\ ~client[c].saw
      /\ UNCHANGED <<shared, claim, storeVars, asked>>
  BY <1>a DEF Inv, Placed, Timely, NotFound
<1>1. /\ client'[c].pc = "waiting" /\ client'[c].at = i
      /\ \A d \in Client \ {c} : client'[d] = client[d]
  BY <1>0, <1>a DEF NotFound, TypeOK, Gone
<1>2. \/ flight' = flight /\ flight[i].pc # "none"
      \/ flight[i].pc = "none" /\ Goto(i, "look")
  BY <1>0, <1>a DEF NotFound
<1>3. /\ Only(i) /\ flight'[i].pc # "none"
      /\ flight'[i].pc = "look" \/ flight' = flight
  BY <1>0, <1>2, GotoAt DEF Only
<1>4. NoNewReads /\ Stay(i) /\ c \in Waiting(i)'
  BY <1>0, <1>1 DEF NoNewReads, Stay, Waiting
<1>5. Manned' /\ ReadsEnd'
  BY <1>0, <1>3, <1>4, MannedStep, ReadsEndStep DEF Once
<1>6. flight' # flight => flight[i].pc = "none"
  BY <1>2
<1>7. CASE Unasked
  <2>1. \A j \in Instance :
          /\ flight'[j].pc \in Early \cup {"again"}
          /\ flight'[j].pc = "wait" => flight'[j].left = SharedWait /\ claim'.left > 0
          /\ flight'[j].pc = "again" => flight'[j].lease = ClaimTtl
    BY <1>0, <1>3, <1>7 DEF Only, Unasked, Early
  <2>2. claim'.left > 0 => \E j \in Instance : flight'[j].pc = "again"
    BY <1>0, <1>3, <1>6, <1>7 DEF Only, Unasked
  <2> QED BY <1>0, <1>5, <1>7, <2>1, <2>2 DEF Once, Phases, Unasked, storeVars
<1>8. CASE BeingAsked
  <2>1. PICK a \in Instance : AskedBy(a)
    BY <1>8 DEF BeingAsked
  <2>2. flight'[a] = flight[a]
    BY <1>3, <1>6, <2>1 DEF AskedBy, Only
  <2>3. AskedBy(a)'
    BY <1>3, <2>1, <2>2 DEF AskedBy, Only, Early
  <2> QED BY <1>0, <1>5, <1>8, <2>3 DEF Once, Phases, BeingAsked, storeVars
<1>9. CASE Answers
  <2>1. shared > 0
    BY <1>0, <1>9 DEF Answers, TypeOK
  <2>2. \A j \in Instance :
          /\ flight'[j].pc \notin {"ask", "emit", "share"}
          /\ flight'[j].pc \in {"look", "claim", "wait", "again"} => shared' > 0
          /\ flight'[j].pc = "store" => flight[j].pc = "store" /\ ~stored' /\ shared' = SharedTtl
    BY <1>0, <1>3, <1>9, <2>1 DEF Only, Answers, storeVars
  <2>3. \A j, k \in Instance : flight'[j].pc = "store" /\ flight'[k].pc = "store" => j = k
    BY <1>9, <2>2 DEF Answers
  <2>4. stored' \/ \E j \in Instance : flight'[j].pc = "store"
    BY <1>0, <1>3, <1>6, <1>9 DEF Answers, Only, storeVars
  <2>5. \A d \in Client : client'[d].pc = "reading" /\ ~client'[d].saw => shared' > client'[d].left
    BY <1>0, <1>4, <1>9 DEF Answers, NoNewReads
  <2>6. stored' /\ visible' # Instance => shared' > spread' + ReadTime
    BY <1>0, <1>9 DEF Answers, storeVars
  <2> QED BY <1>0, <1>5, <1>9, <2>2, <2>3, <2>4, <2>5, <2>6 DEF Once, Phases, Answers
<1> QED BY <1>7, <1>8, <1>9 DEF Once, Phases

(* What reads, fills or empties memory moves no flight.                     *)
LEMMA MemoryOnce ==
  ASSUME Inv, Once, UNCHANGED <<flight, shared, claim, storeVars, asked>>, NoNewReads,
         \A c \in Client : client[c].pc = "waiting" => client'[c] = client[c]
  PROVE  Once'
<1>1. Manned' /\ ReadsEnd'
  BY ReadsEndStep DEF Once, Manned, Waiting
<1>2. Unasked => Unasked'
  BY DEF Unasked, storeVars
<1>3. BeingAsked => BeingAsked'
  <2> SUFFICES ASSUME BeingAsked PROVE BeingAsked'
    OBVIOUS
  <2>1. PICK a \in Instance : AskedBy(a)
    BY DEF BeingAsked
  <2>2. AskedBy(a)'
    BY <2>1 DEF AskedBy
  <2> QED BY <2>2 DEF BeingAsked, storeVars
<1>4. Answers => Answers'
  <2> SUFFICES ASSUME Answers PROVE Answers'
    OBVIOUS
  <2>1. \A c \in Client : client'[c].pc = "reading" /\ ~client'[c].saw => shared' > client'[c].left
    BY DEF Answers, NoNewReads
  <2> QED BY <2>1 DEF Answers, storeVars
<1> QED BY <1>1, <1>2, <1>3, <1>4 DEF Once, Phases

\* A client that starts to read now, and misses the tile, finds it shared.
LEMMA AskOnce ==
  ASSUME Inv, Timely, Once, NEW c \in Client, NEW i \in Instance, Ask(c, i)
  PROVE  Once'
<1>0. /\ TypeOK /\ ReadTime \in Nat /\ StoreLatency \in Nat /\ SharedTtl \in Nat
      /\ StoreLatency + ReadTime < SharedTtl /\ shared \in Nat /\ spread \in Nat
      /\ UNCHANGED <<flight, shared, claim, storeVars, asked>> /\ client[c].pc = "idle"
  BY TimesAssumption DEF Inv, Timely, TypeOK, Ask
<1>1. /\ client'[c].pc = "reading" /\ client'[c].left = ReadTime
      /\ client'[c].saw <=> i \in visible
      /\ \A d \in Client \ {c} : client'[d] = client[d]
  BY <1>0 DEF Ask, TypeOK
<1>2. Manned' /\ ReadsEnd'
  <2>1. \A j \in Instance : Waiting(j)' = Waiting(j)
    BY <1>0, <1>1 DEF Waiting
  <2>2. ReadsEnd'
    BY <1>0, <1>1 DEF Once, ReadsEnd
  <2> QED BY <1>0, <2>1, <2>2 DEF Once, Manned
<1>3. Unasked => Unasked'
  BY <1>0 DEF Unasked, storeVars
<1>4. BeingAsked => BeingAsked'
  <2> SUFFICES ASSUME BeingAsked PROVE BeingAsked'
    OBVIOUS
  <2>1. PICK a \in Instance : AskedBy(a)
    BY DEF BeingAsked
  <2>2. AskedBy(a)'
    BY <1>0, <2>1 DEF AskedBy
  <2> QED BY <1>0, <2>2 DEF BeingAsked, storeVars
<1>5. Answers => Answers'
  <2> SUFFICES ASSUME Answers PROVE Answers'
    OBVIOUS
  <2>1. i \notin visible => shared > ReadTime
    <3> SUFFICES ASSUME i \notin visible PROVE shared > ReadTime
      OBVIOUS
    <3>1. CASE stored
      <4>1. shared > spread + ReadTime
        BY <3>1 DEF Answers
      <4> QED BY <1>0, <4>1
    <3>2. CASE ~stored
      <4>1. shared = SharedTtl
        BY <3>2 DEF Answers
      <4> QED BY <1>0, <4>1
    <3> QED BY <3>1, <3>2
  <2>2. \A d \in Client : client'[d].pc = "reading" /\ ~client'[d].saw => shared' > client'[d].left
    BY <1>0, <1>1, <2>1 DEF Answers
  <2> QED BY <1>0, <2>2 DEF Answers, storeVars
<1> QED BY <1>2, <1>3, <1>4, <1>5 DEF Once, Phases

LEMMA SpreadOnce ==
  ASSUME Inv, Once, NEW i \in Instance, Spread(i)
  PROVE  Once'
<1>0. /\ stored /\ visible' = visible \cup {i}
      /\ UNCHANGED <<flight, client, shared, claim, stored, spread, asked>>
  BY DEF Spread
<1>1. Answers
  BY <1>0 DEF Once, Phases, Unasked, BeingAsked
<1>2. visible # Instance
  BY DEF Spread, Inv, TypeOK
<1>3. Manned' /\ ReadsEnd'
  BY <1>0 DEF Once, Manned, Waiting, ReadsEnd
<1>4. Answers'
  BY <1>0, <1>1, <1>2 DEF Answers
<1> QED BY <1>3, <1>4 DEF Once, Phases

(* Time passes only while every flight there is asks or waits.              *)
LEMMA TickOnce ==
  ASSUME Inv, Timely, Once, Tick
  PROVE  Once'
<1>0. /\ TypeOK /\ FetchTime \in Nat /\ ReadTime \in Nat /\ SharedWait \in Nat
      /\ shared \in Nat /\ spread \in Nat /\ claim.left \in Nat
      /\ \A i \in Instance : flight[i].left \in Nat /\ flight[i].lease \in Nat
      /\ \A c \in Client : client[c].left \in Nat
  BY TimesAssumption DEF Inv, TypeOK
<1>1. \A i \in Instance :
        /\ flight'[i].pc = flight[i].pc
        /\ flight'[i].left = Less(flight[i].left) /\ flight'[i].lease = Less(flight[i].lease)
  BY <1>0 DEF Tick, TypeOK
<1>2. \A c \in Client :
        /\ client'[c].pc = client[c].pc /\ client'[c].at = client[c].at
        /\ client'[c].saw = client[c].saw /\ client'[c].left = Less(client[c].left)
  BY <1>0 DEF Tick, TypeOK
<1>3. /\ shared' = Less(shared) /\ spread' = Less(spread)
      /\ UNCHANGED <<visible, stored, asked>>
  BY DEF Tick
<1>4. Manned' /\ ReadsEnd'
  <2>1. \A i \in Instance : Waiting(i)' = Waiting(i)
    BY <1>2 DEF Waiting
  <2>2. \A c \in Client : client'[c].left <= client[c].left
    BY <1>0, <1>2, LessType
  <2>3. \A c \in Client : client'[c].left \in Nat
    BY <1>0, <1>2, LessType
  <2>4. ReadsEnd'
    BY <1>0, <1>2, <2>2, <2>3 DEF Once, ReadsEnd
  <2> QED BY <1>1, <2>1, <2>4 DEF Once, Manned
<1>5. \A i \in Instance : flight[i].pc # "none" =>
        /\ flight[i].pc \in {"ask", "wait"} /\ flight[i].left > 0
        /\ flight[i].pc = "wait" => shared = 0
  BY DEF Once, Manned, Tick, Prompt
<1>6. CASE Unasked
  <2>1. ~(claim.left > 0)
    BY <1>5, <1>6 DEF Unasked
  <2>2. \A i \in Instance : flight[i].pc = "none"
    BY <1>5, <1>6, <2>1 DEF Unasked, Early
  <2>3. claim'.left = 0 /\ shared' = 0
    <3>1. claim' = NoClaim
      <4>1. claim' = IF claim.left <= 1 THEN NoClaim ELSE [claim EXCEPT !.left = claim.left - 1]
        BY DEF Tick
      <4>2. claim.left <= 1
        BY <1>0, <2>1
      <4> QED BY <4>1, <4>2
    <3>2. shared' = 0
      BY <1>3, <1>6 DEF Unasked, Less
    <3> QED BY <3>1, <3>2 DEF NoClaim
  <2>4. Unasked'
    BY <1>1, <1>3, <1>6, <2>2, <2>3 DEF Unasked, Early
  <2> QED BY <1>4, <2>4 DEF Once, Phases
<1>7. CASE BeingAsked
  <2>1. PICK a \in Instance : AskedBy(a)
    BY <1>7 DEF BeingAsked
  <2>2. /\ flight[a].pc = "ask" /\ flight[a].left > 0 /\ flight[a].lease > flight[a].left
        /\ flight[a].left <= FetchTime
    BY <1>5, <2>1 DEF AskedBy
  <2>3. /\ flight'[a].pc = "ask" /\ flight'[a].lease > 0
        /\ flight'[a].lease > flight'[a].left /\ flight'[a].left <= FetchTime
    BY <1>0, <1>1, <2>2 DEF Less
  <2>4. \A j \in Instance \ {a} :
          /\ flight'[j].pc \in Early
          /\ flight'[j].pc = "wait" =>
               flight'[j].left > 0 /\ (flight'[a].pc = "ask" => flight'[j].left > flight'[a].left)
    <3> SUFFICES ASSUME NEW j \in Instance \ {a}
                 PROVE  /\ flight'[j].pc \in Early
                        /\ flight'[j].pc = "wait" =>
                             flight'[j].left > 0 /\ flight'[j].left > flight'[a].left
      OBVIOUS
    <3>1. /\ flight[j].pc \in Early
          /\ flight[j].pc = "wait" => flight[j].left > flight[a].left
      BY <2>1, <2>2 DEF AskedBy
    <3> QED BY <1>0, <1>1, <2>2, <3>1 DEF Less
  <2>5. AskedBy(a)'
    BY <2>3, <2>4 DEF AskedBy
  <2>6. BeingAsked'
    BY <1>0, <1>3, <1>7, <2>5 DEF BeingAsked, Less
  <2> QED BY <1>4, <2>6 DEF Once, Phases
<1>8. CASE Answers
  <2>1. \A i \in Instance : flight[i].pc = "none"
    BY <1>0, <1>5, <1>8 DEF Answers
  <2>2. stored
    BY <1>8, <2>1 DEF Answers
  <2>3. stored' /\ visible' # Instance => shared' > spread' + ReadTime
    <3> SUFFICES ASSUME visible # Instance PROVE shared' > spread' + ReadTime
      BY <1>3
    <3>1. spread # 0
      BY <2>2 DEF Tick
    <3>2. shared > spread + ReadTime
      BY <1>8, <2>2 DEF Answers
    <3> QED BY <1>0, <1>3, <3>1, <3>2 DEF Less
  <2>4. \A c \in Client : client'[c].pc = "reading" /\ ~client'[c].saw => shared' > client'[c].left
    <3> SUFFICES ASSUME NEW c \in Client, client[c].pc = "reading", ~client[c].saw
                 PROVE  shared' > client'[c].left
      BY <1>2
    <3>1. shared > client[c].left /\ client[c].left > 0
      BY <1>8 DEF Answers, Tick
    <3> QED BY <1>0, <1>2, <1>3, <3>1 DEF Less
  <2>5. Answers'
    BY <1>1, <1>3, <1>8, <2>1, <2>2, <2>3, <2>4 DEF Answers
  <2> QED BY <1>4, <2>5 DEF Once, Phases
<1> QED BY <1>6, <1>7, <1>8 DEF Once, Phases

LEMMA OnceInit == Init => Once
BY DEF Init, Once, Manned, ReadsEnd, Phases, Unasked, NoFlight, NoClaim, Gone, Early

\* Nothing that goes wrong is undone.
LEMMA OnceNext ==
  ASSUME Inv, Timely, faults = 0 => Once, [Next]_vars
  PROVE  faults' = 0 => Once'
<1> SUFFICES ASSUME faults' = 0 PROVE Once'
  OBVIOUS
<1>0. faults \in Nat /\ ~Fault
  BY DEF Inv, TypeOK, Fault
<1>1. Once
  <2>1. faults' = faults \/ Fault
    BY DEF Next, Tick, Found, NotFound, Leave, Ask, FlightStep, Look, Claim, Again, Seen, GiveUp,
           Answered, Share, Store, Emit, Release, Unreached, Failed, NotStored, NotKept, Crash,
           Cool, Learn, Spread, vars
  <2> QED BY <1>0, <2>1
<1>2. CASE Tick
  BY <1>1, <1>2, TickOnce
<1>3. ASSUME NEW c \in Client, Found(c) \/ NotFound(c) \/ Leave(c)
      PROVE  Once'
  <2>1. CASE Found(c)
    <3>1. UNCHANGED <<flight, shared, claim, storeVars, asked>> /\ NoNewReads
      BY <2>1 DEF Found, NoNewReads, Inv, TypeOK, Gone
    <3>2. \A d \in Client : client[d].pc = "waiting" => client'[d] = client[d]
      BY <2>1 DEF Found, Inv, TypeOK
    <3> QED BY <1>1, <3>1, <3>2, MemoryOnce
  <2> QED BY <1>0, <1>1, <1>3, <2>1, NotFoundOnce DEF Leave
<1>4. ASSUME NEW c \in Client, NEW i \in Instance, Ask(c, i)
      PROVE  Once'
  BY <1>1, <1>4, AskOnce
<1>5. ASSUME NEW i \in Instance, FlightStep(i)
      PROVE  Once'
  <2>1. Manned' /\ ReadsEnd' /\ NoNewReads
    BY <1>1, <1>5, FlightStepKeeps DEF Once
  <2>2. Phases'
    BY <1>1, <1>5, <2>1, UnaskedStep, BeingAskedStep, AnswersStep DEF Once, Phases
  <2> QED BY <2>1, <2>2 DEF Once
<1>6. ASSUME NEW i \in Instance, Cool(i) \/ Learn(i)
      PROVE  Once'
  BY <1>1, <1>6, MemoryOnce DEF Cool, Learn, NoNewReads
<1>7. ASSUME NEW i \in Instance, Spread(i)
      PROVE  Once'
  BY <1>1, <1>7, SpreadOnce
<1>8. CASE UNCHANGED vars
  BY <1>1, <1>8, MemoryOnce DEF vars, storeVars, NoNewReads
<1> QED
  BY <1>0, <1>2, <1>3, <1>4, <1>5, <1>6, <1>7, <1>8
  DEF Next, Unreached, Failed, NotStored, NotKept, Crash

\* While nothing goes wrong the source is asked once (FetchedOnce), wherever the
\* delays leave room for it.
THEOREM AskedOnce ==
  ASSUME Timely PROVE Spec => []FetchedOnce
<1>1. Init => Inv /\ (faults = 0 => Once)
  BY InvInit, OnceInit
<1>2. ASSUME Inv /\ (faults = 0 => Once), [Next]_vars
      PROVE  (Inv /\ (faults = 0 => Once))'
  BY <1>2, InvNext, OnceNext
<1>3. Inv /\ (faults = 0 => Once) => FetchedOnce
  BY DEF FetchedOnce, Once, Phases, Unasked, BeingAsked, Answers
<1> QED BY <1>1, <1>2, <1>3, PTL DEF Spec
=============================================================================
