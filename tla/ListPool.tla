------------------------------ MODULE ListPool ------------------------------
(***************************************************************************)
(* The connection pool of the deployed backend (backend/main.go:92,        *)
(* SetMaxOpenConns) and the requests that use it.  A list endpoint         *)
(* (getFeed, getFeedFollowing, getUserVideos, getLikedVideos, getBookmarks,*)
(* getComments, search) reads its rows over one connection and, with the   *)
(* rows still open, looks up something for every item over a second one.   *)
(* No handler gives database/sql a context, so a request waits for a       *)
(* connection for ever.                                                    *)
(***************************************************************************)
EXTENDS Integers, FiniteSets

CONSTANTS
    Listings,         \* list requests; each is used once
    Singles,          \* requests that run one statement; each is used once
    Connections,         \* SetMaxOpenConns
    MaxItems          \* look-ups of a list request (bounds it)

ASSUME ConnectionsAssumption == Connections \in Nat \ {0} /\ MaxItems \in Nat

VARIABLES
    listing,          \* where each list request is, and its look-ups still to do
    single,           \* where each other request is
    crowded           \* as many lists as connections were open at once, at some time

poolVars == <<listing, single, crowded>>

Phases == {"idle", "wait", "rows", "wait_item", "item", "done"}
Open == {"rows", "wait_item", "item"}

ListsIn(phases) == {r \in Listings : listing[r].phase \in phases}
InUse == Cardinality(ListsIn(Open)) + Cardinality(ListsIn({"item"}))
         + Cardinality({s \in Singles : single[s] = "query"})

PoolInit ==
    /\ listing = [r \in Listings |-> [phase |-> "idle", left |-> 0]]
    /\ single = [s \in Singles |-> "idle"]
    /\ crowded = FALSE

\* Mutant: the pool holds one connection back.
AnyConnectionReserve == InUse < Connections - 1

AnyConnection == InUse < Connections

ListGoes(r, phase, left) == listing' = [listing EXCEPT ![r] = [phase |-> phase, left |-> left]]

ListArrives(r) ==
    /\ listing[r].phase = "idle" /\ ListGoes(r, "wait", 0)
    /\ UNCHANGED <<single, crowded>>

\* db.Query: the rows keep their connection until the last one is read.
OpenRows(r) ==
    /\ listing[r].phase = "wait" /\ AnyConnection
    /\ \E n \in 0..MaxItems : ListGoes(r, "rows", n)
    /\ crowded' = (crowded \/ Cardinality(ListsIn(Open)) + 1 >= Connections)
    /\ UNCHANGED single

\* rows.Next, then formatVideo: is it liked, is it bookmarked.
NextItem(r) ==
    /\ listing[r].phase = "rows" /\ listing[r].left > 0
    /\ ListGoes(r, "wait_item", listing[r].left)
    /\ UNCHANGED <<single, crowded>>

LookUp(r) ==
    /\ listing[r].phase = "wait_item" /\ AnyConnection
    /\ ListGoes(r, "item", listing[r].left)
    /\ UNCHANGED <<single, crowded>>

LookedUp(r) ==
    /\ listing[r].phase = "item" /\ ListGoes(r, "rows", listing[r].left - 1)
    /\ UNCHANGED <<single, crowded>>

CloseRows(r) ==
    /\ listing[r].phase = "rows" /\ listing[r].left = 0
    /\ ListGoes(r, "done", 0)
    /\ UNCHANGED <<single, crowded>>

SingleArrives(s) ==
    /\ single[s] = "idle" /\ single' = [single EXCEPT ![s] = "wait"]
    /\ UNCHANGED <<listing, crowded>>

SingleRuns(s) ==
    /\ single[s] = "wait" /\ AnyConnection
    /\ single' = [single EXCEPT ![s] = "query"]
    /\ UNCHANGED <<listing, crowded>>

SingleEnds(s) ==
    /\ single[s] = "query" /\ single' = [single EXCEPT ![s] = "done"]
    /\ UNCHANGED <<listing, crowded>>

PoolNext ==
    \/ \E r \in Listings : \/ ListArrives(r) \/ OpenRows(r) \/ NextItem(r) \/ LookUp(r)
                           \/ LookedUp(r) \/ CloseRows(r)
    \/ \E s \in Singles : SingleArrives(s) \/ SingleRuns(s) \/ SingleEnds(s)

\* A goroutine goes on when it can; a connection given back goes to one that waits.
ListSteps(r) == OpenRows(r) \/ NextItem(r) \/ LookUp(r) \/ LookedUp(r) \/ CloseRows(r)
SingleSteps(s) == SingleRuns(s) \/ SingleEnds(s)
PoolFairness == /\ \A r \in Listings : WF_poolVars(ListSteps(r))
                /\ \A s \in Singles : WF_poolVars(SingleSteps(s))
PoolSpec == PoolInit /\ [][PoolNext]_poolVars /\ PoolFairness

-----------------------------------------------------------------------------
(* Properties.                                                             *)

PoolTypeOK ==
    /\ listing \in [Listings -> [phase : Phases, left : 0..MaxItems]]
    /\ single \in [Singles -> {"idle", "wait", "query", "done"}]
    /\ crowded \in BOOLEAN

\* Every request that came is answered, as long as fewer lists than the pool has
\* connections are open at any one time.
RequestsAreAnswered ==
    /\ \A r \in Listings : listing[r].phase = "wait" ~> listing[r].phase = "done" \/ crowded
    /\ \A s \in Singles : single[s] = "wait" ~> single[s] = "done" \/ crowded

=============================================================================
