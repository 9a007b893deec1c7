---- MODULE MessagingHubProofs ----
\* Theorems about MessagingHub for any users, connections, conversations
\* and channel capacities.
EXTENDS MessagingHub, TLAPS

--------
\* Type correctness.

\* A deliverer that holds a client or ranges over a user's map knows it, and
\* Run delivers broadcasts only.
JobsAreComplete ==
    \A d \in Deliverers :
        /\ job[d].step \in {"send", "drop"} => job[d].client \in Conns
        /\ job[d].step \in {"range", "send", "drop"} => job[d].user \in Users
        /\ d = Run /\ job[d].step # "idle" => job[d].event \in Events

TInv == TypeOK /\ JobsAreComplete

\* The event loop delivers and is no announcer.
LEMMA RunIsADeliverer == Run \in Deliverers /\ Run \notin Announcers
BY ConnAssumption DEF Run, Deliverers, Announcers

\* The record of an idle deliverer is a job.
LEMMA IdleJobType == IdleJob \in Jobs
BY DEF IdleJob, Jobs, JobSteps

\* Before any connection every job is idle and every queue empty.
LEMMA InitType == Init => TInv
<1> SUFFICES ASSUME Init PROVE TInv  OBVIOUS
<1>1. job \in [Deliverers -> Jobs]  BY IdleJobType DEF Init
<1>2. TypeOK  BY <1>1, MemberAssumption, CapAssumption, SMT DEF Init, TypeOK, ReaderSteps
<1>3. JobsAreComplete  BY DEF Init, JobsAreComplete, IdleJob
<1>4. QED BY <1>2, <1>3 DEF TInv

\* Replacing one deliverer's job by a complete one.
LEMMA SetJob ==
    ASSUME TInv, NEW d \in Deliverers, NEW j \in Jobs, Set(d, j),
           j.step \in {"send", "drop"} => j.client \in Conns,
           j.step \in {"range", "send", "drop"} => j.user \in Users,
           d = Run /\ j.step # "idle" => j.event \in Events
    PROVE  job' \in [Deliverers -> Jobs] /\ JobsAreComplete'
<1>1. job' = [job EXCEPT ![d] = j] /\ job \in [Deliverers -> Jobs]  BY DEF Set, TInv, TypeOK
<1>2. \A e \in Deliverers : job'[e] = IF e = d THEN j ELSE job[e]  BY <1>1
<1>3. QED BY <1>1, <1>2 DEF JobsAreComplete, TInv

\* After a user is served the job goes on to the next one or ends.
LEMMA OnwardType ==
    ASSUME NEW d, NEW j \in Jobs
    PROVE  /\ Onward(d, j) \in Jobs
           /\ Onward(d, j).step \in {"idle", "convs", "users"}
           /\ d = Run => Onward(d, j).event = j.event
<1>1. CASE d # Run /\ j.users = {} /\ j.convs = {}  BY <1>1, IdleJobType DEF Onward, IdleJob
<1>2. CASE d # Run /\ j.users = {} /\ j.convs # {}  BY <1>2 DEF Onward, Jobs, JobSteps
<1>3. CASE d = Run \/ j.users # {}  BY <1>3 DEF Onward, Jobs, JobSteps
<1>4. QED BY <1>1, <1>2, <1>3

\* Leaving the range over a user's map clears the client and keeps the job typed.
LEMMA LeaveRangeType ==
    ASSUME TInv, NEW d \in Deliverers, job[d].step # "idle"
    PROVE  /\ LeaveRange(d) \in Jobs
           /\ LeaveRange(d).step \in {"idle", "convs", "users"}
           /\ d = Run => LeaveRange(d).event \in Events
<1> DEFINE j == [job[d] EXCEPT !.user = Nobody, !.left = {}, !.client = Nobody]
<1>1. job[d] \in Jobs  BY DEF TInv, TypeOK
<1>2. j \in Jobs /\ j.event = job[d].event  BY <1>1 DEF Jobs
<1>3. LeaveRange(d) = Onward(d, j)  BY DEF LeaveRange
<1>4. d = Run => job[d].event \in Events  BY DEF TInv, JobsAreComplete
<1> HIDE DEF j
<1>5. QED BY <1>2, <1>3, <1>4, OnwardType

\* After a send or a drop the job ranges on over the same user.
LEMMA BackToRangeType ==
    ASSUME TInv, NEW d \in Deliverers, job[d].step \in {"send", "drop"}
    PROVE  /\ BackToRange(d) \in Jobs
           /\ BackToRange(d).step \in {"idle", "convs", "users", "range"}
           /\ BackToRange(d).step = "range" => BackToRange(d).user \in Users
           /\ d = Run => BackToRange(d).event \in Events
<1>1. job[d] \in Jobs /\ job[d].user \in Users /\ (d = Run => job[d].event \in Events)
  BY DEF TInv, TypeOK, JobsAreComplete
<1>2. CASE job[d].left \cap clients[job[d].user] = {}  BY <1>2, LeaveRangeType DEF BackToRange
<1>3. CASE job[d].left \cap clients[job[d].user] # {}  BY <1>1, <1>3 DEF BackToRange, Jobs, JobSteps
<1>4. QED BY <1>2, <1>3

\* Head and tail of a bounded queue are typed and bounded.
LEMMA QueueType ==
    ASSUME NEW S, NEW q \in Seq(S), NEW n \in Nat, Len(q) <= n
    PROVE  /\ q # <<>> => Head(q) \in S /\ Tail(q) \in Seq(S) /\ Len(Tail(q)) <= n
           /\ \A x \in S : Len(q) < n => Append(q, x) \in Seq(S) /\ Len(Append(q, x)) <= n
OBVIOUS

\* A goroutine that announces presence starts from a typed job.
LEMMA SpawnedType ==
    ASSUME TInv, NEW c \in Conns, NEW change \in {"online", "offline"}
    PROVE  /\ Spawned(change, c) \in [Deliverers -> Jobs]
           /\ \A d \in Deliverers :
                 \/ Spawned(change, c)[d] = job[d]
                 \/ (d # Run /\ Spawned(change, c)[d].step = "gather")
<1> DEFINE j == [IdleJob EXCEPT !.step = "gather"]
           a == Announcer(c, change)
<1>1. j \in Jobs /\ j.step = "gather"  BY DEF Jobs, IdleJob, JobSteps
<1>2. a \in Announcers /\ a # Run  BY ConnAssumption DEF Announcer, Announcers, Run
<1>3. job \in [Deliverers -> Jobs] /\ Spawned(change, c) = [job EXCEPT ![a] = j]  BY DEF TInv, TypeOK, Spawned
<1> HIDE DEF j, a
<1>4. QED BY <1>1, <1>2, <1>3

\* handleRegister keeps the types.
LEMMA HandleRegisterType == ASSUME TInv, HandleRegister PROVE TInv'
<1> DEFINE c == Head(registerQ)
           u == Owner[c]
<1>1. c \in Conns /\ registerQ' \in Seq(Conns) /\ Len(registerQ') <= RegisterCap
  BY CapAssumption, QueueType DEF HandleRegister, TInv, TypeOK
<1>2. u \in Users  BY <1>1, ConnAssumption
<1>3. clients' \in [Users -> SUBSET Conns] /\ subscribers' \in [Convs -> SUBSET Users]
  BY <1>1, <1>2 DEF HandleRegister, TInv, TypeOK
<1>4. PICK seen \in SUBSET Ranging(u) :
          job' = [d \in Deliverers |-> IF d \in seen THEN [job[d] EXCEPT !.left = @ \cup {c}]
                                                     ELSE Spawned("online", c)[d]]
  BY DEF HandleRegister
<1>5. \A d \in Deliverers :
          /\ job[d] \in Jobs
          /\ [job[d] EXCEPT !.left = @ \cup {c}] \in Jobs
          /\ [job[d] EXCEPT !.left = @ \cup {c}].step = job[d].step
          /\ [job[d] EXCEPT !.left = @ \cup {c}].user = job[d].user
          /\ [job[d] EXCEPT !.left = @ \cup {c}].client = job[d].client
          /\ [job[d] EXCEPT !.left = @ \cup {c}].event = job[d].event
  BY <1>1 DEF TInv, TypeOK, Jobs
<1>6. job' \in [Deliverers -> Jobs]  BY <1>1, <1>4, <1>5, SpawnedType
<1>7. JobsAreComplete'  BY <1>4, <1>5, <1>1, SpawnedType DEF JobsAreComplete, Events, TInv
<1>8. TypeOK'  BY <1>1, <1>3, <1>6 DEF HandleRegister, TInv, TypeOK, sendVars, pumpVars
<1>9. QED BY <1>7, <1>8 DEF TInv
\* handleUnregister keeps the types.
LEMMA HandleUnregisterType == ASSUME TInv, HandleUnregister PROVE TInv'
<1> DEFINE c == Head(unregisterQ)
           u == Owner[c]
<1>1. c \in Conns /\ unregisterQ' \in Seq(Conns) /\ Len(unregisterQ') <= UnregisterCap
  BY CapAssumption, QueueType DEF HandleUnregister, TInv, TypeOK
<1>2. u \in Users  BY <1>1, ConnAssumption
<1>3. CASE UNCHANGED <<hubVars, closed, job>>
  BY <1>1, <1>3 DEF HandleUnregister, TInv, TypeOK, Panics, hubVars, pumpVars, JobsAreComplete, Events
<1>4. CASE /\ process' = process
           /\ closed' = closed \cup {c}
           /\ clients' = [clients EXCEPT ![u] = @ \ {c}]
           /\ subscribers' = SubscribersWithout(c)
           /\ job' = IF clients[u] = {c} THEN Spawned("offline", c) ELSE job
  <2>1. clients' \in [Users -> SUBSET Conns] /\ subscribers' \in [Convs -> SUBSET Users]
    BY <1>1, <1>2, <1>4 DEF TInv, TypeOK, SubscribersWithout
  <2>2. /\ job' \in [Deliverers -> Jobs]
        /\ \A d \in Deliverers :
              \/ job'[d] = job[d]
              \/ (d # Run /\ job'[d].step = "gather")
    BY <1>1, <1>4, SpawnedType DEF TInv, TypeOK
  <2>3. TypeOK'  BY <1>1, <1>4, <2>1, <2>2 DEF HandleUnregister, TInv, TypeOK, pumpVars
  <2>4. JobsAreComplete'  BY <2>2 DEF TInv, JobsAreComplete, Events
  <2>5. QED BY <2>3, <2>4 DEF TInv
<1>5. QED BY <1>3, <1>4 DEF HandleUnregister

\* Taking an event off the broadcast channel keeps the types.
LEMMA DispatchType == ASSUME TInv, Dispatch PROVE TInv'
<1> DEFINE e == Head(broadcastQ)
           j == [IdleJob EXCEPT !.step = "users", !.event = e,
                                !.users = subscribers[e.conv] \ {e.exclude}]
<1>1. e \in Events /\ broadcastQ' \in Seq(Events) /\ Len(broadcastQ') <= BroadcastCap
  BY CapAssumption, QueueType DEF Dispatch, TInv, TypeOK
<1>2. subscribers[e.conv] \subseteq Users  BY <1>1 DEF TInv, TypeOK, Events
<1>3. j \in Jobs /\ j.step = "users" /\ j.event = e  BY <1>1, <1>2 DEF Jobs, IdleJob, JobSteps
<1>4. Set(Run, j)  BY DEF Dispatch
<1> HIDE DEF j
<1>5. job' \in [Deliverers -> Jobs] /\ JobsAreComplete'  BY <1>1, <1>3, <1>4, SetJob, RunIsADeliverer
<1>6. TypeOK'  BY <1>1, <1>5 DEF Dispatch, TInv, TypeOK, hubVars, sendVars, pumpVars
<1>7. QED BY <1>5, <1>6 DEF TInv

\* Delivery steps that only move the deliverer on.
LEMMA MoveOnType ==
    ASSUME TInv, NEW d \in Deliverers, NEW j \in Jobs, Set(d, j),
           j.step \notin {"send", "drop"} \/ j.client \in Conns,
           j.step \notin {"range", "send", "drop"} \/ j.user \in Users,
           d # Run \/ j.step = "idle" \/ j.event \in Events,
           UNCHANGED <<process, members, hubVars, queueVars, sendVars, pumpVars, posted>>
    PROVE  TInv'
<1>1. job' \in [Deliverers -> Jobs] /\ JobsAreComplete'  BY SetJob
<1>2. TypeOK'  BY <1>1 DEF TInv, TypeOK, hubVars, queueVars, sendVars, pumpVars
<1>3. QED BY <1>1, <1>2 DEF TInv

\* An announcer that collects its conversations keeps the types.
LEMMA GatherType == ASSUME TInv, NEW d \in Deliverers, Gather(d) PROVE TInv'
<1> DEFINE j == [job[d] EXCEPT !.convs = {k \in Convs : Owner[d[1]] \in subscribers[k]}]
<1>1. job[d] \in Jobs /\ job[d].step # "idle" /\ (d = Run => job[d].event \in Events)
  BY DEF Gather, TInv, TypeOK, JobsAreComplete
<1>2. j \in Jobs /\ j.event = job[d].event  BY <1>1 DEF Jobs
<1>3. Set(d, Onward(d, j))  BY DEF Gather
<1> HIDE DEF j
<1>4. QED BY <1>1, <1>2, <1>3, OnwardType, MoveOnType DEF Gather

\* Going on to the next conversation keeps the types.
LEMMA NextConversationType == ASSUME TInv, NEW d \in Deliverers, NextConversation(d) PROVE TInv'
<1>1. PICK k \in job[d].convs :
          Set(d, Onward(d, [job[d] EXCEPT !.convs = @ \ {k},
                                          !.users = subscribers[k] \ {Owner[d[1]]}]))
  BY DEF NextConversation
<1> DEFINE j == [job[d] EXCEPT !.convs = @ \ {k}, !.users = subscribers[k] \ {Owner[d[1]]}]
<1>2. job[d] \in Jobs /\ job[d].step # "idle" /\ (d = Run => job[d].event \in Events)
  BY DEF NextConversation, TInv, TypeOK, JobsAreComplete
<1>3. subscribers[k] \subseteq Users  BY <1>2 DEF TInv, TypeOK, Jobs
<1>4. j \in Jobs /\ j.event = job[d].event  BY <1>2, <1>3 DEF Jobs
<1>5. Set(d, Onward(d, j))  BY <1>1
<1> HIDE DEF j
<1>6. QED BY <1>2, <1>4, <1>5, OnwardType, MoveOnType DEF NextConversation

\* Going on to the next user keeps the types.
LEMMA NextUserType == ASSUME TInv, NEW d \in Deliverers, NextUser(d) PROVE TInv'
<1>1. PICK u \in job[d].users :
          Set(d, IF clients[u] = {} THEN Onward(d, [job[d] EXCEPT !.users = @ \ {u}])
                 ELSE [[job[d] EXCEPT !.users = @ \ {u}] EXCEPT
                            !.step = "range", !.user = u, !.left = Tabs(u)])
  BY DEF NextUser
<1> DEFINE j == [job[d] EXCEPT !.users = @ \ {u}]
           r == [j EXCEPT !.step = "range", !.user = u, !.left = Tabs(u)]
<1>2. job[d] \in Jobs /\ job[d].step # "idle" /\ (d = Run => job[d].event \in Events)
  BY DEF NextUser, TInv, TypeOK, JobsAreComplete
<1>3. u \in Users /\ Tabs(u) \subseteq Conns  BY <1>2 DEF TInv, TypeOK, Jobs, Tabs
<1>4. j \in Jobs /\ j.event = job[d].event  BY <1>2 DEF Jobs
<1> HIDE DEF j
<1>5. r \in Jobs /\ r.event = job[d].event /\ r.step = "range" /\ r.user = u  BY <1>3, <1>4 DEF Jobs, JobSteps
<1> HIDE DEF r
<1>6. CASE clients[u] = {}
  <2>1. Set(d, Onward(d, j))  BY <1>1, <1>6 DEF j
  <2>2. QED BY <1>2, <1>4, <2>1, OnwardType, MoveOnType DEF NextUser
<1>7. CASE clients[u] # {}
  <2>1. Set(d, r)  BY <1>1, <1>7 DEF j, r
  <2>2. QED BY <1>2, <1>3, <1>5, <2>1, MoveOnType DEF NextUser
<1>8. QED BY <1>6, <1>7

\* Going on to the next client of a user keeps the types.
LEMMA NextClientType == ASSUME TInv, NEW d \in Deliverers, NextClient(d) PROVE TInv'
<1> DEFINE present == job[d].left \cap clients[job[d].user]
<1>1. job[d] \in Jobs /\ job[d].step = "range" /\ job[d].user \in Users
        /\ (d = Run => job[d].event \in Events)
  BY DEF NextClient, TInv, TypeOK, JobsAreComplete
<1>2. ASSUME NEW c \in present,
             Set(d, [job[d] EXCEPT !.step = "send", !.left = @ \ {c}, !.client = c])
      PROVE  TInv'
  <2> DEFINE j == [job[d] EXCEPT !.step = "send", !.left = @ \ {c}, !.client = c]
  <2>1. c \in Conns  BY <1>1, <1>2 DEF Jobs
  <2>2. /\ j \in Jobs /\ j.step = "send" /\ j.client = c
        /\ j.event = job[d].event /\ j.user = job[d].user
    BY <1>1, <2>1 DEF Jobs, JobSteps
  <2>3. Set(d, j)  BY <1>2
  <2> HIDE DEF j
  <2>4. QED BY <1>1, <2>1, <2>2, <2>3, MoveOnType DEF NextClient
<1>3. ASSUME Set(d, LeaveRange(d)) PROVE TInv'  BY <1>1, <1>3, LeaveRangeType, MoveOnType DEF NextClient
<1>4. QED BY <1>2, <1>3 DEF NextClient

\* The non-blocking send keeps the types; a full buffer leads to a drop.
LEMMA SendType == ASSUME TInv, NEW d \in Deliverers, Send(d) PROVE TInv'
<1> DEFINE c == job[d].client
<1>1. /\ job[d] \in Jobs /\ job[d].step = "send" /\ job[d].user \in Users /\ c \in Conns
      /\ d = Run => job[d].event \in Events
  BY DEF Send, TInv, TypeOK, JobsAreComplete
<1>2. CASE process' = "sendOnClosed" /\ UNCHANGED <<sendVars, job>>
  BY <1>2 DEF Send, TInv, TypeOK, hubVars, queueVars, sendVars, pumpVars, Panics, JobsAreComplete, Events
<1>3. CASE /\ buffered[c] < SendBufferSize
           /\ buffered' = [buffered EXCEPT ![c] = @ + 1]
           /\ heard' = IF d = Run THEN [heard EXCEPT ![c] = Append(@, job[d].event.id)]
                                  ELSE heard
           /\ Set(d, BackToRange(d))
           /\ UNCHANGED <<process, closed, dropped>>
  <2>1. job' \in [Deliverers -> Jobs] /\ JobsAreComplete'  BY <1>1, <1>3, BackToRangeType, SetJob
  <2>2. buffered' \in [Conns -> 0..SendBufferSize]
    <3>1. buffered[c] + 1 \in 0..SendBufferSize
      <4>1. buffered[c] \in 0..SendBufferSize  BY <1>1 DEF TInv, TypeOK
      <4>2. QED BY <1>3, <4>1, CapAssumption
    <3>2. QED BY <1>3, <3>1 DEF TInv, TypeOK
  <2>3. heard' \in [Conns -> Seq(1..Posts)]  BY <1>1, <1>3 DEF TInv, TypeOK, Events
  <2>4. TypeOK'  BY <1>3, <2>1, <2>2, <2>3 DEF Send, TInv, TypeOK, hubVars, queueVars, pumpVars
  <2>5. QED BY <2>1, <2>4 DEF TInv
<1>4. CASE /\ dropped' = dropped \cup {c}
           /\ Set(d, [job[d] EXCEPT !.step = "drop"])
           /\ UNCHANGED <<process, buffered, closed, heard>>
  <2> DEFINE j == [job[d] EXCEPT !.step = "drop"]
  <2>1. /\ j \in Jobs /\ j.client = c /\ j.user = job[d].user /\ j.event = job[d].event
    BY <1>1 DEF Jobs, JobSteps
  <2>2. Set(d, j)  BY <1>4
  <2> HIDE DEF j
  <2>3. job' \in [Deliverers -> Jobs] /\ JobsAreComplete'  BY <1>1, <2>1, <2>2, SetJob
  <2>4. TypeOK'  BY <1>1, <1>4, <2>3 DEF Send, TInv, TypeOK, hubVars, queueVars, pumpVars
  <2>5. QED BY <2>3, <2>4 DEF TInv
<1>5. QED BY <1>2, <1>3, <1>4 DEF Send

\* Queueing a slow client for unregistration keeps the types.
LEMMA DropType == ASSUME TInv, NEW d \in Deliverers, Drop(d) PROVE TInv'
<1>1. job[d] \in Jobs /\ job[d].step = "drop" /\ job[d].client \in Conns
  BY DEF Drop, TInv, TypeOK, JobsAreComplete
<1>2. job' \in [Deliverers -> Jobs] /\ JobsAreComplete'  BY <1>1, BackToRangeType, SetJob DEF Drop
<1>3. unregisterQ' \in Seq(Conns) /\ Len(unregisterQ') <= UnregisterCap
  BY <1>1, CapAssumption, QueueType DEF Drop, TInv, TypeOK
<1>4. TypeOK'  BY <1>2, <1>3 DEF Drop, TInv, TypeOK, hubVars, sendVars, pumpVars
<1>5. QED BY <1>2, <1>4 DEF TInv

\* Whichever channel Run's select takes, the types are kept.
LEMMA SelectType == ASSUME TInv, Select PROVE TInv'
BY IdleJobType, RunIsADeliverer, MoveOnType DEF Select, IdleJob

\* Steps that leave the deliverers alone.
LEMMA OtherType ==
    ASSUME TInv, UNCHANGED job, TypeOK'
    PROVE  TInv'
BY DEF TInv, JobsAreComplete, Events

\* The reader and the writer of a connection keep the types.
LEMMA ConnType ==
    ASSUME TInv, NEW c \in Conns,
           \/ Connect(c) \/ LoseConnection(c) \/ Unregister(c) \/ Pong(c)
           \/ Write(c) \/ WriteClose(c)
    PROVE  TInv'
<1> USE DEF TInv, TypeOK
<1>1. CASE Connect(c)
  <2>1. PICK page \in SUBSET Convs : convIDs' = [convIDs EXCEPT ![c] = page]  BY <1>1 DEF Connect, FirstPages
  <2>2. /\ registerQ' = Append(registerQ, c) /\ Len(registerQ) < RegisterCap
        /\ wire' = wire \cup {c} /\ reader' = [reader EXCEPT ![c] = "reading"]
        /\ UNCHANGED <<process, members, hubVars, unregisterQ, broadcastQ, sendVars, job, posted>>
    BY <1>1 DEF Connect
  <2> QED BY <2>1, <2>2, CapAssumption, QueueType, OtherType DEF hubVars, sendVars, ReaderSteps
<1>2. CASE LoseConnection(c)  BY <1>2, OtherType DEF LoseConnection, hubVars, queueVars, sendVars
<1>3. CASE Unregister(c)
  BY <1>3, CapAssumption, QueueType, OtherType DEF Unregister, hubVars, sendVars, ReaderSteps
<1>4. CASE Pong(c)
  <2>1. process' \in {"up", "stopped"} \cup Panics  BY <1>4 DEF Pong, Panics
  <2>2. buffered' \in [Conns -> 0..SendBufferSize]
    <3>1. CASE UNCHANGED buffered  BY <3>1
    <3>2. CASE buffered[c] < SendBufferSize /\ buffered' = [buffered EXCEPT ![c] = @ + 1]
      BY <3>2, CapAssumption
    <3>3. QED BY <1>4, <3>1, <3>2 DEF Pong
  <2>3. QED BY <1>4, <2>1, <2>2, OtherType DEF Pong, hubVars, queueVars, pumpVars
<1>5. CASE Write(c)  BY <1>5, CapAssumption, OtherType DEF Write, hubVars, queueVars, pumpVars
<1>6. CASE WriteClose(c)  BY <1>6, OtherType DEF WriteClose, hubVars, queueVars, sendVars
<1>7. QED BY <1>1, <1>2, <1>3, <1>4, <1>5, <1>6

\* A handler that queues an event keeps the types.
LEMMA BroadcastType ==
    ASSUME TInv, NEW k \in Convs, NEW x \in Users \cup {Nobody}, Broadcast(k, x)
    PROVE  TInv'
<1> DEFINE e == [id |-> posted + 1, conv |-> k, exclude |-> x]
<1>1. e \in Events /\ posted' \in 0..Posts  BY CapAssumption DEF Broadcast, TInv, TypeOK, Events
<1>2. broadcastQ' = Append(broadcastQ, e)  BY DEF Broadcast
<1> HIDE DEF e
<1>3. broadcastQ' \in Seq(Events) /\ Len(broadcastQ') <= BroadcastCap
  BY <1>1, <1>2, CapAssumption, QueueType DEF Broadcast, TInv, TypeOK
<1>4. TypeOK'  BY <1>1, <1>3 DEF Broadcast, TInv, TypeOK, hubVars, sendVars, pumpVars
<1>5. QED BY <1>4, OtherType DEF Broadcast

\* Every step keeps the types and the completeness of jobs.
LEMMA NextType == ASSUME TInv, [Next]_vars PROVE TInv'
<1>1. CASE \E c \in Conns : \/ Connect(c) \/ LoseConnection(c) \/ Unregister(c) \/ Pong(c)
                            \/ Write(c) \/ WriteClose(c)
  BY <1>1, ConnType
<1>2. CASE \E c \in Conns, k \in Convs : RelayFrame(c, k)  BY <1>2, ConnAssumption, BroadcastType DEF RelayFrame
<1>3. CASE \E u \in Users, k \in Convs : PostMessage(u, k)  BY <1>3, BroadcastType DEF PostMessage
<1>4. CASE \E u \in Users, k \in Convs : ChangeMembership(u, k)
  <2>1. PICK u \in Users, k \in Convs : ChangeMembership(u, k)  BY <1>4
  <2>2. members' \in [Convs -> SUBSET Users]
    <3>1. members \in [Convs -> SUBSET Users]  BY DEF TInv, TypeOK
    <3>2. CASE members' = [members EXCEPT ![k] = @ \cup {u}]  BY <3>1, <3>2
    <3>3. CASE members' = [members EXCEPT ![k] = @ \ {u}]  BY <3>1, <3>3
    <3>4. QED BY <2>1, <3>2, <3>3 DEF ChangeMembership
  <2>3. TypeOK'  BY <2>1, <2>2 DEF ChangeMembership, TInv, TypeOK, hubVars, queueVars, sendVars, pumpVars
  <2>4. QED BY <2>1, <2>3, OtherType DEF ChangeMembership
<1>5. CASE RunStep  BY <1>5, HandleRegisterType, HandleUnregisterType, DispatchType, SelectType DEF RunStep
<1>6. CASE \E d \in Deliverers : Deliver(d)
  BY <1>6, GatherType, NextConversationType, NextUserType, NextClientType, SendType, DropType
     DEF Deliver
<1>7. CASE MapRace
  BY <1>7, OtherType DEF MapRace, TInv, TypeOK, hubVars, queueVars, sendVars, pumpVars, Panics
<1>8. CASE CloseAll  BY <1>8, OtherType DEF CloseAll, TInv, TypeOK, Panics, queueVars, pumpVars
<1>9. CASE Restart
  BY <1>9, IdleJobType, CapAssumption DEF Restart, JobsAreComplete, IdleJob, TInv, TypeOK, ReaderSteps
<1>10. CASE UNCHANGED vars  BY <1>10, OtherType DEF vars, TInv, TypeOK, hubVars, queueVars, sendVars, pumpVars
<1>11. QED BY <1>1, <1>2, <1>3, <1>4, <1>5, <1>6, <1>7, <1>8, <1>9, <1>10 DEF Next

\* Channels never hold more than their capacity, and Run and the announcing
\* goroutines always have what their next step reads.
THEOREM TypeCorrect == Spec => [](TypeOK /\ JobsAreComplete)
<1>1. TypeOK /\ JobsAreComplete <=> TInv  BY DEF TInv
<1>2. QED BY <1>1, InitType, NextType, PTL DEF Spec

--------
\* Routing.

\* A connection's conversations are fixed before the hub hears of it.
KnownConnectionsAreOpened ==
    /\ \A u \in Users : \A c \in clients[u] : reader[c] # "new"
    /\ \A i \in 1..Len(registerQ) : reader[registerQ[i]] # "new"
    /\ \A c \in Conns : reader[c] = "new" => convIDs[c] = {}

Routing ==
    SubscribersAreConnected /\ ConnectionsAreRouted /\ SubscribersFoundIt /\ KnownConnectionsAreOpened

IInv == TInv /\ Routing

\* An empty hub routes nobody.
LEMMA InitRouting == Init => Routing
BY DEF Init, Routing, SubscribersAreConnected, ConnectionsAreRouted, SubscribersFoundIt, KnownConnectionsAreOpened

\* Only the conversations of a connection nobody knows are ever written.
LEMMA RoutingKept ==
    ASSUME IInv, UNCHANGED hubVars,
           \A c \in Conns : reader[c] # "new" => reader'[c] # "new" /\ convIDs'[c] = convIDs[c],
           \A c \in Conns : reader'[c] = "new" => convIDs'[c] = {},
           \A i \in 1..Len(registerQ') : registerQ'[i] \in Conns /\ reader'[registerQ'[i]] # "new"
    PROVE  Routing'
<1>1. clients' = clients /\ subscribers' = subscribers /\ clients \in [Users -> SUBSET Conns]
  BY DEF hubVars, IInv, TInv, TypeOK
<1>2. SubscribersAreConnected'  BY <1>1 DEF IInv, Routing, SubscribersAreConnected
<1>3. ConnectionsAreRouted'  BY <1>1 DEF IInv, Routing, ConnectionsAreRouted, KnownConnectionsAreOpened
<1>4. KnownConnectionsAreOpened'  BY <1>1 DEF IInv, Routing, KnownConnectionsAreOpened
<1>5. ASSUME NEW k \in Convs, NEW u \in subscribers[k]
      PROVE  \E c \in Conns : Owner[c] = u /\ k \in convIDs'[c]
  <2>1. PICK c \in Conns : Owner[c] = u /\ k \in convIDs[c]  BY DEF IInv, Routing, SubscribersFoundIt
  <2>2. reader[c] # "new"  BY <2>1 DEF IInv, Routing, KnownConnectionsAreOpened
  <2> QED BY <2>1, <2>2
<1>6. QED BY <1>1, <1>2, <1>3, <1>4, <1>5 DEF Routing, SubscribersFoundIt

\* A step that leaves the maps and the register queue alone keeps Routing.
LEMMA RoutingUnseen ==
    ASSUME IInv, UNCHANGED <<hubVars, registerQ, convIDs>>,
           \A c \in Conns : reader[c] # "new" => reader'[c] # "new"
    PROVE  Routing'
<1>1. \A i \in 1..Len(registerQ) : registerQ[i] \in Conns  BY DEF IInv, TInv, TypeOK
<1>2. QED BY <1>1, RoutingKept DEF IInv, Routing, KnownConnectionsAreOpened

\* A new connection is queued for registration and known to be opened.
LEMMA ConnectRouting == ASSUME IInv, NEW c \in Conns, Connect(c) PROVE Routing'
<1>1. registerQ' = Append(registerQ, c) /\ registerQ \in Seq(Conns)  BY DEF Connect, IInv, TInv, TypeOK
<1>2. /\ reader' = [reader EXCEPT ![c] = "reading"] /\ reader[c] = "new"
      /\ \E page : convIDs' = [convIDs EXCEPT ![c] = page]
      /\ reader \in [Conns -> ReaderSteps] /\ convIDs \in [Conns -> SUBSET Convs]
  BY DEF Connect, IInv, TInv, TypeOK
<1>3. \A b \in Conns : reader[b] # "new" => reader'[b] # "new" /\ convIDs'[b] = convIDs[b]  BY <1>2
<1>6. \A b \in Conns : reader'[b] = "new" => convIDs'[b] = {}
  BY <1>2 DEF IInv, Routing, KnownConnectionsAreOpened
<1>4. ASSUME NEW i \in 1..Len(registerQ')
      PROVE  registerQ'[i] \in Conns /\ reader'[registerQ'[i]] # "new"
  BY <1>1, <1>3, <1>2 DEF IInv, Routing, KnownConnectionsAreOpened
<1>5. QED BY <1>3, <1>4, <1>6, RoutingKept DEF Connect

\* handleRegister enters a client into both maps together.
LEMMA HandleRegisterRouting == ASSUME IInv, HandleRegister PROVE Routing'
<1> DEFINE c == Head(registerQ)
           u == Owner[c]
<1>1. /\ registerQ \in Seq(Conns) /\ registerQ # <<>>
      /\ clients \in [Users -> SUBSET Conns] /\ subscribers \in [Convs -> SUBSET Users]
  BY DEF HandleRegister, IInv, TInv, TypeOK
<1>2. c \in Conns /\ u \in Users /\ c = registerQ[1] /\ 1 \in 1..Len(registerQ)  BY <1>1, ConnAssumption
<1>3. /\ clients' = [clients EXCEPT ![u] = @ \cup {c}]
      /\ subscribers' = [k \in Convs |-> IF k \in convIDs[c] THEN subscribers[k] \cup {u}
                                         ELSE subscribers[k]]
      /\ registerQ' = Tail(registerQ) /\ reader' = reader /\ convIDs' = convIDs
      /\ convIDs \in [Conns -> SUBSET Convs]
  BY DEF HandleRegister, pumpVars, IInv, TInv, TypeOK
<1>4. SubscribersAreConnected'  BY <1>1, <1>2, <1>3 DEF SubscribersAreConnected, IInv, Routing
<1>5. ConnectionsAreRouted'  BY <1>1, <1>2, <1>3 DEF ConnectionsAreRouted, IInv, Routing
<1>6. \A i \in 1..Len(registerQ') : registerQ'[i] = registerQ[i+1] /\ i + 1 \in 1..Len(registerQ)
  BY <1>1, <1>3
<1>7. \A i \in 1..Len(registerQ) : reader[registerQ[i]] # "new"
  BY DEF IInv, Routing, KnownConnectionsAreOpened
<1>8. KnownConnectionsAreOpened'  BY <1>1, <1>2, <1>3, <1>6, <1>7 DEF KnownConnectionsAreOpened, IInv, Routing
<1>9. SubscribersFoundIt'  BY <1>2, <1>3 DEF SubscribersFoundIt, IInv, Routing
<1>10. QED BY <1>4, <1>5, <1>8, <1>9 DEF Routing

\* handleUnregister takes a client out of clients and, with the last of its
\* user, the user out of every conversation.
LEMMA HandleUnregisterRouting == ASSUME IInv, HandleUnregister PROVE Routing'
<1> DEFINE c == Head(unregisterQ)
           u == Owner[c]
<1>1. /\ unregisterQ \in Seq(Conns) /\ unregisterQ # <<>>
      /\ clients \in [Users -> SUBSET Conns] /\ subscribers \in [Convs -> SUBSET Users]
      /\ convIDs \in [Conns -> SUBSET Convs]
      /\ reader' = reader /\ convIDs' = convIDs /\ registerQ' = registerQ
  BY DEF HandleUnregister, pumpVars, IInv, TInv, TypeOK
<1>2. c \in Conns /\ u \in Users  BY <1>1, ConnAssumption
<1>3. CASE UNCHANGED hubVars  BY <1>1, <1>3, RoutingUnseen
<1>4. CASE /\ clients' = [clients EXCEPT ![u] = @ \ {c}]
           /\ subscribers' = SubscribersWithout(c)
  <2>1. \A v \in Users : clients'[v] = IF v = u THEN clients[u] \ {c} ELSE clients[v]  BY <1>1, <1>2, <1>4
  <2>2. \A k \in Convs : subscribers'[k] = IF clients[u] = {c} THEN subscribers[k] \ {u}
                                            ELSE subscribers[k]
    BY <1>1, <1>4 DEF SubscribersWithout
  <2> HIDE DEF c, u
  <2>3. ASSUME NEW k \in Convs, NEW v \in subscribers'[k] PROVE clients'[v] # {}
    <3>1. v \in Users /\ v \in subscribers[k] /\ clients[v] # {}
      BY <1>1, <2>2, <2>3 DEF SubscribersAreConnected, IInv, Routing
    <3>2. CASE v # u  BY <2>1, <3>1, <3>2
    <3>3. CASE v = u
      <4>1. clients[u] # {c}  BY <2>2, <2>3, <3>3
      <4>2. QED BY <1>2, <2>1, <3>1, <3>3, <4>1
    <3>4. QED BY <3>2, <3>3
  <2>4. ASSUME NEW v \in Users, NEW b \in clients'[v]
        PROVE  Owner[b] = v /\ \A k \in convIDs[b] : v \in subscribers'[k]
    <3>1. b \in clients[v] /\ b \in Conns /\ (v = u => b # c)  BY <1>1, <2>1, <2>4
    <3>2. Owner[b] = v /\ \A k \in convIDs[b] : k \in Convs /\ v \in subscribers[k]
      BY <1>1, <3>1 DEF ConnectionsAreRouted, IInv, Routing
    <3>3. v = u => clients[u] # {c}  BY <3>1
    <3>4. QED BY <2>2, <3>2, <3>3
  <2>5. KnownConnectionsAreOpened'  BY <1>1, <2>1 DEF KnownConnectionsAreOpened, IInv, Routing
  <2>6. ASSUME NEW k \in Convs, NEW v \in subscribers'[k]
        PROVE  \E b \in Conns : Owner[b] = v /\ k \in convIDs'[b]
    <3>1. v \in subscribers[k]
      <4>1. subscribers'[k] = IF clients[u] = {c} THEN subscribers[k] \ {u} ELSE subscribers[k]  BY <2>2
      <4> QED BY <2>6, <4>1
    <3>2. \E b \in Conns : Owner[b] = v /\ k \in convIDs[b]  BY <3>1 DEF SubscribersFoundIt, IInv, Routing
    <3> QED BY <1>1, <3>2
  <2>7. QED BY <1>1, <2>3, <2>4, <2>5, <2>6
     DEF Routing, SubscribersAreConnected, ConnectionsAreRouted, SubscribersFoundIt
<1>5. QED BY <1>3, <1>4 DEF HandleUnregister

\* Every step keeps the routing invariant.
LEMMA NextRouting == ASSUME IInv, [Next]_vars PROVE Routing'
<1>0. reader \in [Conns -> ReaderSteps]  BY DEF IInv, TInv, TypeOK
<1>1. CASE \E c \in Conns : Connect(c)  BY <1>1, ConnectRouting
<1>2. CASE \E c \in Conns : \/ LoseConnection(c) \/ Unregister(c) \/ Pong(c)
                            \/ Write(c) \/ WriteClose(c)
  BY <1>0, <1>2, RoutingUnseen
     DEF LoseConnection, Unregister, Pong, Write, WriteClose, queueVars, pumpVars
<1>3. CASE \/ \E c \in Conns, k \in Convs : RelayFrame(c, k)
           \/ \E u \in Users, k \in Convs : PostMessage(u, k) \/ ChangeMembership(u, k)
  BY <1>3, RoutingUnseen
     DEF RelayFrame, PostMessage, Broadcast, ChangeMembership, queueVars, pumpVars
<1>4. CASE HandleRegister  BY <1>4, HandleRegisterRouting
<1>5. CASE HandleUnregister  BY <1>5, HandleUnregisterRouting
<1>6. CASE Dispatch \/ Select \/ MapRace \/ \E d \in Deliverers : Deliver(d)
  BY <1>6, RoutingUnseen
     DEF Dispatch, Select, MapRace, Deliver, Gather, NextConversation, NextUser,
         NextClient, Send, Drop, queueVars, pumpVars
<1>7. CASE CloseAll
  BY <1>7 DEF CloseAll, queueVars, pumpVars, IInv, Routing, SubscribersAreConnected, ConnectionsAreRouted,
     SubscribersFoundIt, KnownConnectionsAreOpened
<1>8. CASE Restart
  BY <1>8 DEF Restart, IInv, Routing, SubscribersAreConnected, ConnectionsAreRouted,
              SubscribersFoundIt, KnownConnectionsAreOpened
<1>9. CASE UNCHANGED vars  BY <1>9, RoutingUnseen DEF vars, queueVars, pumpVars
<1>10. QED BY <1>1, <1>2, <1>3, <1>4, <1>5, <1>6, <1>7, <1>8, <1>9 DEF Next, RunStep

\* The routing tables agree for any number of users, tabs and conversations:
\* subscribers have connections and found the conversation on the page of one, and every
\* registered connection is reached by the conversations it was opened with.
THEOREM RoutingHolds == Spec => []RoutesAgree
<1>1. Init => IInv  BY InitType, InitRouting DEF IInv
<1>2. IInv /\ [Next]_vars => IInv'  BY NextType, NextRouting DEF IInv
<1>3. IInv => RoutesAgree  BY DEF IInv, Routing, RoutesAgree
<1>4. QED BY <1>1, <1>2, <1>3, PTL DEF Spec
--------
\* Delivery.

Busy == job[Run].step # "idle"

\* Run has yet to reach c with the event it delivers.
Ahead(c) == \/ Owner[c] \in job[Run].users
            \/ c \in job[Run].left
            \/ job[Run].step = "send" /\ c = job[Run].client

Told(c) == \/ c \in dropped
           \/ \E i \in 1..Len(heard[c]) : heard[c][i] = job[Run].event.id

\* Run announces nothing; it serves one user at a time, from the user's own
\* connections and each of them once.
RunFits ==
    /\ job[Run].step \notin {"gather", "convs"}
    /\ job[Run].step \in {"idle", "users"} => job[Run].left = {}
    /\ job[Run].step \in {"range", "send", "drop"} => job[Run].user \notin job[Run].users
    /\ \A c \in job[Run].left : Owner[c] = job[Run].user
    /\ job[Run].step \in {"send", "drop"} => /\ Owner[job[Run].client] = job[Run].user
                                             /\ job[Run].client \notin job[Run].left

\* The channel holds the events in the order of their numbers, behind the one Run has.
QueueInOrder ==
    /\ \A i, j \in 1..Len(broadcastQ) : i < j => broadcastQ[i].id < broadcastQ[j].id
    /\ \A i \in 1..Len(broadcastQ) :
          /\ broadcastQ[i].id <= posted
          /\ Busy => job[Run].event.id < broadcastQ[i].id
    /\ Busy => job[Run].event.id <= posted

\* What a connection has heard is older than what is still to come to it.
HeardIsPast ==
    \A c \in Conns : \A i \in 1..Len(heard[c]) :
        /\ heard[c][i] <= posted
        /\ \A j \in 1..Len(broadcastQ) : heard[c][i] < broadcastQ[j].id
        /\ Busy => heard[c][i] <= job[Run].event.id
        /\ Busy /\ Ahead(c) => heard[c][i] < job[Run].event.id

\* Whoever takes part has been told or is still to be reached.
NobodyIsSkipped ==
    Busy => \A u \in subscribers[job[Run].event.conv] \ {job[Run].event.exclude} :
                \A c \in clients[u] : Ahead(c) \/ Told(c)

Delivery == RunFits /\ QueueInOrder /\ HeardIsPast /\ HeardInOrderOnce /\ NobodyIsSkipped

DInv == IInv /\ Delivery

\* Before the first broadcast nobody has heard anything.
LEMMA InitDelivery == Init => Delivery
<1> SUFFICES ASSUME Init PROVE Delivery  OBVIOUS
<1>1. job[Run] = IdleJob /\ broadcastQ = <<>> /\ heard = [c \in Conns |-> <<>>]  BY RunIsADeliverer DEF Init
<1>2. QED
  BY <1>1 DEF Delivery, RunFits, QueueInOrder, HeardIsPast, HeardInOrderOnce,
              NobodyIsSkipped, Busy, IdleJob

\* What a sequence lists is of its set.
LEMMA IsListed ==
    ASSUME NEW S, NEW s \in Seq(S), NEW i \in 1..Len(s)
    PROVE  s[i] \in S
OBVIOUS

\* What the types and the completeness of Run's job say, unfolded.
LEMMA DeliveryTypes ==
    ASSUME DInv
    PROVE  /\ job \in [Deliverers -> Jobs] /\ job[Run] \in Jobs
           /\ broadcastQ \in Seq(Events) /\ heard \in [Conns -> Seq(1..Posts)]
           /\ posted \in 0..Posts /\ Posts \in Nat
           /\ clients \in [Users -> SUBSET Conns]
           /\ subscribers \in [Convs -> SUBSET Users]
           /\ Busy => job[Run].event \in Events
           /\ job[Run].step \in {"range", "send", "drop"} => job[Run].user \in Users
           /\ job[Run].step \in {"send", "drop"} => job[Run].client \in Conns
           /\ \A u \in Users : \A c \in clients[u] : c \in Conns /\ Owner[c] = u
<1>1. TInv /\ ConnectionsAreRouted  BY DEF DInv, IInv, Routing
<1>2. QED
  BY <1>1, RunIsADeliverer, CapAssumption
     DEF TInv, TypeOK, JobsAreComplete, Busy, ConnectionsAreRouted

\* A step that leaves Run, the event channel, the maps and what was heard alone.
LEMMA DeliveryUnseen ==
    ASSUME DInv, job'[Run] = job[Run],
           UNCHANGED <<broadcastQ, heard, posted>>, dropped \subseteq dropped',
           UNCHANGED hubVars \/ ~Busy
    PROVE  Delivery'
<1>1. /\ Busy' <=> Busy
      /\ \A c \in Conns : (Ahead(c)' <=> Ahead(c)) /\ (Told(c) => Told(c)')
  BY DEF Busy, Ahead, Told
<1>2. RunFits'  BY DEF DInv, Delivery, RunFits
<1>3. QueueInOrder'  BY <1>1 DEF DInv, Delivery, QueueInOrder
<1>4. HeardIsPast' /\ HeardInOrderOnce'  BY <1>1 DEF DInv, Delivery, HeardIsPast, HeardInOrderOnce
<1>5. NobodyIsSkipped'  BY <1>1, DeliveryTypes DEF NobodyIsSkipped, Events, DInv, Delivery, hubVars
<1>6. QED BY <1>2, <1>3, <1>4, <1>5 DEF Delivery

\* A new event is the youngest of all.
LEMMA BroadcastDelivery ==
    ASSUME DInv, NEW k \in Convs, NEW x \in Users \cup {Nobody}, Broadcast(k, x)
    PROVE  Delivery'
<1> DEFINE e == [id |-> posted + 1, conv |-> k, exclude |-> x]
<1>1. /\ broadcastQ' = Append(broadcastQ, e) /\ posted' = posted + 1 /\ e.id = posted + 1
      /\ job' = job /\ heard' = heard /\ UNCHANGED hubVars /\ dropped' = dropped
  BY DEF Broadcast, sendVars
<1> HIDE DEF e
<1>2. /\ Busy' <=> Busy
      /\ \A c \in Conns : (Ahead(c)' <=> Ahead(c)) /\ (Told(c)' <=> Told(c))
  BY <1>1 DEF Busy, Ahead, Told
<1>3. \A i \in 1..Len(broadcastQ') :
          \/ i \in 1..Len(broadcastQ) /\ broadcastQ'[i] = broadcastQ[i]
          \/ i = Len(broadcastQ) + 1 /\ broadcastQ'[i] = e
  BY <1>1, DeliveryTypes
<1>4. \A i \in 1..Len(broadcastQ) : broadcastQ[i].id \in Nat /\ broadcastQ[i].id <= posted
  <2>1. \A i \in 1..Len(broadcastQ) : broadcastQ[i] \in Events  BY DeliveryTypes
  <2>2. \A i \in 1..Len(broadcastQ) : broadcastQ[i].id \in Nat  BY <2>1, DeliveryTypes DEF Events
  <2>3. QED BY <2>2 DEF DInv, Delivery, QueueInOrder
<1>5. \A c \in Conns : \A i \in 1..Len(heard[c]) : heard[c][i] \in Nat /\ heard[c][i] <= posted
  BY DeliveryTypes DEF DInv, Delivery, HeardIsPast
<1>6. Busy => job[Run].event.id \in Nat /\ job[Run].event.id <= posted
  BY DeliveryTypes DEF DInv, Delivery, QueueInOrder, Events
<1>7. RunFits'  BY <1>1 DEF DInv, Delivery, RunFits
<1>8. QueueInOrder'  BY <1>1, <1>2, <1>3, <1>4, <1>6, DeliveryTypes DEF DInv, Delivery, QueueInOrder
<1>9. HeardIsPast' /\ HeardInOrderOnce'
  BY <1>1, <1>2, <1>3, <1>5, DeliveryTypes DEF DInv, Delivery, HeardIsPast, HeardInOrderOnce
<1>10. NobodyIsSkipped'
  <2>1. Busy => \A u \in subscribers[job[Run].event.conv] : \A c \in clients[u] : c \in Conns
    BY DeliveryTypes DEF Events
  <2>2. QED BY <1>1, <1>2, <2>1 DEF DInv, Delivery, NobodyIsSkipped, hubVars
<1>11. QED BY <1>7, <1>8, <1>9, <1>10 DEF Delivery

\* The oldest event in the channel is younger than all that was heard.
LEMMA DispatchDelivery == ASSUME DInv, Dispatch PROVE Delivery'
<1> DEFINE e == Head(broadcastQ)
           j == [IdleJob EXCEPT !.step = "users", !.event = e,
                                !.users = subscribers[e.conv] \ {e.exclude}]
<1>1. /\ ~Busy /\ broadcastQ # <<>> /\ broadcastQ' = Tail(broadcastQ)
      /\ job' = [job EXCEPT ![Run] = j] /\ UNCHANGED <<hubVars, heard, posted, dropped>>
  BY DEF Dispatch, HubIsIdle, Busy, Set, sendVars
<1>2. e = broadcastQ[1] /\ e \in Events /\ 1 \in 1..Len(broadcastQ)  BY <1>1, DeliveryTypes
<1>3. /\ job'[Run] = j /\ j.step = "users" /\ j.event = e /\ j.left = {}
      /\ j.users = subscribers[e.conv] \ {e.exclude}
  BY <1>1, DeliveryTypes, RunIsADeliverer DEF IdleJob
<1> HIDE DEF j, e
<1>4. Busy'  BY <1>3 DEF Busy
<1>5. \A i \in 1..Len(broadcastQ') :
          i + 1 \in 1..Len(broadcastQ) /\ broadcastQ'[i] = broadcastQ[i + 1]
  BY <1>1, DeliveryTypes
<1>6. \A i \in 1..Len(broadcastQ) : broadcastQ[i].id \in Nat
  <2>1. \A i \in 1..Len(broadcastQ) : broadcastQ[i] \in Events  BY DeliveryTypes
  <2>2. QED BY <2>1, DeliveryTypes DEF Events
<1>7. RunFits'  BY <1>3 DEF RunFits
<1>8. QueueInOrder'  BY <1>5, <1>1, <1>2, <1>3 DEF DInv, Delivery, QueueInOrder
<1>9. HeardIsPast'
  <2>1. \A c \in Conns : \A i \in 1..Len(heard[c]) :
            /\ heard[c][i] <= posted /\ heard[c][i] < e.id /\ heard[c][i] <= e.id
            /\ \A k \in 1..Len(broadcastQ') : heard[c][i] < broadcastQ'[k].id
    <3>1. SUFFICES ASSUME NEW c \in Conns, NEW i \in 1..Len(heard[c])
                   PROVE  /\ heard[c][i] <= posted /\ heard[c][i] < e.id /\ heard[c][i] <= e.id
                          /\ \A k \in 1..Len(broadcastQ') : heard[c][i] < broadcastQ'[k].id
      OBVIOUS
    <3>2. heard[c][i] \in Nat /\ e.id \in Nat  BY DeliveryTypes, IsListed, <1>2 DEF Events
    <3>3. heard[c][i] <= posted /\ \A k \in 1..Len(broadcastQ) : heard[c][i] < broadcastQ[k].id
      BY <3>1 DEF DInv, Delivery, HeardIsPast
    <3>4. heard[c][i] < e.id  BY <1>2, <3>3
    <3>5. \A k \in 1..Len(broadcastQ') : heard[c][i] < broadcastQ'[k].id  BY <1>5, <3>3
    <3>6. QED BY <3>2, <3>3, <3>4, <3>5
  <2>2. QED BY <1>1, <1>3, <2>1 DEF HeardIsPast
<1>10. HeardInOrderOnce'  BY <1>1 DEF DInv, Delivery, HeardInOrderOnce
<1>11. NobodyIsSkipped'  BY <1>1, <1>3, <1>2, DeliveryTypes DEF NobodyIsSkipped, hubVars, Events, Ahead
<1>12. QED BY <1>7, <1>8, <1>9, <1>10, <1>11 DEF Delivery

\* Run goes on with the same event; whoever it has passed over has been told.
LEMMA RunMoves ==
    ASSUME DInv, Busy, NEW j, job' = [job EXCEPT ![Run] = j],
           j.step # "idle", j.event = job[Run].event,
           UNCHANGED <<hubVars, broadcastQ, heard, posted>>, dropped \subseteq dropped',
           RunFits',
           \A c \in Conns : Ahead(c)' => Ahead(c),
           \A c \in Conns : Ahead(c) /\ c \in clients[Owner[c]] => Ahead(c)' \/ Told(c)'
    PROVE  Delivery'
<1>1. job'[Run] = j /\ Busy'  BY DeliveryTypes, RunIsADeliverer DEF Busy
<1>2. QueueInOrder'  BY <1>1 DEF DInv, Delivery, QueueInOrder
<1>3. HeardIsPast' /\ HeardInOrderOnce'  BY <1>1 DEF DInv, Delivery, HeardIsPast, HeardInOrderOnce
<1>4. NobodyIsSkipped'
  <2>1. SUFFICES ASSUME NEW u \in subscribers[job[Run].event.conv] \ {job[Run].event.exclude},
                        NEW c \in clients[u]
                 PROVE  Ahead(c)' \/ Told(c)'
    BY <1>1 DEF NobodyIsSkipped, hubVars
  <2>2. c \in Conns /\ Owner[c] = u  BY <2>1, DeliveryTypes DEF Events
  <2>3. Ahead(c) \/ Told(c)  BY <2>1 DEF DInv, Delivery, NobodyIsSkipped
  <2>4. Told(c) => Told(c)'  BY <1>1 DEF Told
  <2>5. QED BY <2>1, <2>2, <2>3, <2>4
<1>5. QED BY <1>2, <1>3, <1>4 DEF Delivery

\* Where Run goes on from a user's connections: to the next user.
LEMMA RunLeaves ==
    ASSUME DInv, Busy
    PROVE  /\ LeaveRange(Run) \in Jobs
           /\ LeaveRange(Run).step = "users" /\ LeaveRange(Run).event = job[Run].event
           /\ LeaveRange(Run).users = job[Run].users /\ LeaveRange(Run).left = {}
BY DeliveryTypes DEF LeaveRange, Onward, Jobs, JobSteps

\* ... or to the next connection, if one is left.
LEMMA RunGoesBack ==
    ASSUME DInv, job[Run].step \in {"send", "drop"}
    PROVE  /\ BackToRange(Run) \in Jobs
           /\ BackToRange(Run).step \in {"users", "range"}
           /\ BackToRange(Run).event = job[Run].event
           /\ BackToRange(Run).users = job[Run].users
           /\ \/ /\ BackToRange(Run).step = "users" /\ BackToRange(Run).left = {}
                 /\ job[Run].left \cap clients[job[Run].user] = {}
              \/ /\ BackToRange(Run).step = "range" /\ BackToRange(Run).left = job[Run].left
                 /\ BackToRange(Run).user = job[Run].user
<1>1. CASE job[Run].left \cap clients[job[Run].user] = {}  BY <1>1, RunLeaves DEF BackToRange, Busy
<1>2. CASE job[Run].left \cap clients[job[Run].user] # {}
  BY <1>2, DeliveryTypes DEF BackToRange, Jobs, JobSteps
<1>3. QED BY <1>1, <1>2

\* Having told a connection, or passed it over, Run goes back to the others.
LEMMA RunPassesOn ==
    ASSUME DInv, job[Run].step \in {"send", "drop"}, job'[Run] = BackToRange(Run), UNCHANGED hubVars
    PROVE  /\ RunFits' /\ Busy'
           /\ \A c \in Conns : Ahead(c)' => Ahead(c) /\ c # job[Run].client
           /\ \A c \in Conns : Ahead(c) /\ c \in clients[Owner[c]] =>
                                    Ahead(c)' \/ (job[Run].step = "send" /\ c = job[Run].client)
<1>1. RunFits /\ clients' = clients  BY DEF DInv, Delivery, hubVars
<1>2. RunFits' /\ Busy'  BY <1>1, RunGoesBack DEF RunFits, Busy
<1>3. ASSUME NEW c \in Conns, Ahead(c)' PROVE Ahead(c) /\ c # job[Run].client
  BY <1>1, <1>3, RunGoesBack DEF RunFits, Ahead
<1>4. ASSUME NEW c \in Conns, Ahead(c), c \in clients[Owner[c]]
      PROVE  Ahead(c)' \/ (job[Run].step = "send" /\ c = job[Run].client)
  BY <1>1, <1>4, RunGoesBack DEF RunFits, Ahead
<1>5. QED BY <1>2, <1>3, <1>4

\* Looking the next user's connections up.
LEMMA NextUserDelivery == ASSUME DInv, NextUser(Run) PROVE Delivery'
<1>1. PICK u \in job[Run].users :
          Set(Run, IF clients[u] = {} THEN Onward(Run, [job[Run] EXCEPT !.users = @ \ {u}])
                   ELSE [[job[Run] EXCEPT !.users = @ \ {u}] EXCEPT
                              !.step = "range", !.user = u, !.left = Tabs(u)])
  BY DEF NextUser
<1>2. /\ job[Run].step = "users" /\ Busy /\ u \in Users /\ RunFits
      /\ UNCHANGED <<hubVars, broadcastQ, heard, posted, dropped>>
  BY DeliveryTypes DEF NextUser, Busy, Jobs, DInv, Delivery, queueVars, sendVars
<1> DEFINE j == job'[Run]
<1>3. /\ job' = [job EXCEPT ![Run] = j]
      /\ j.event = job[Run].event /\ j.users = job[Run].users \ {u}
      /\ \/ clients[u] = {} /\ j.step = "users" /\ j.left = job[Run].left
         \/ j.step = "range" /\ j.user = u /\ j.left = clients[u]
  BY <1>1, DeliveryTypes, RunIsADeliverer DEF Set, Onward, Jobs, Tabs
<1>4. RunFits'  BY <1>2, <1>3, DeliveryTypes DEF RunFits
<1>5. \A c \in Conns : Ahead(c)' => Ahead(c)  BY <1>2, <1>3, DeliveryTypes DEF Ahead, RunFits
<1>6. \A c \in Conns : Ahead(c) /\ c \in clients[Owner[c]] => Ahead(c)'  BY <1>2, <1>3 DEF Ahead, RunFits
<1> HIDE DEF j
<1>7. QED BY <1>2, <1>3, <1>4, <1>5, <1>6, RunMoves

\* Taking one of them out of the range, or finding none is left.
LEMMA NextClientDelivery == ASSUME DInv, NextClient(Run) PROVE Delivery'
<1>1. /\ job[Run].step = "range" /\ Busy /\ RunFits /\ job[Run].user \in Users
      /\ UNCHANGED <<hubVars, broadcastQ, heard, posted, dropped>>
  BY DeliveryTypes DEF NextClient, Busy, DInv, Delivery, queueVars, sendVars
<1> DEFINE j == job'[Run]
<1>2. ASSUME NEW b \in job[Run].left \cap clients[job[Run].user],
             Set(Run, [job[Run] EXCEPT !.step = "send", !.left = @ \ {b}, !.client = b])
      PROVE  Delivery'
  <2>1. /\ job' = [job EXCEPT ![Run] = j]
        /\ j.event = job[Run].event /\ j.users = job[Run].users /\ j.step = "send"
        /\ j.left = job[Run].left \ {b} /\ j.client = b /\ j.user = job[Run].user
    BY <1>2, DeliveryTypes, RunIsADeliverer DEF Set, Jobs
  <2>2. RunFits'  BY <1>1, <1>2, <2>1 DEF RunFits
  <2>3. \A c \in Conns : Ahead(c)' <=> Ahead(c)  BY <1>1, <1>2, <2>1 DEF Ahead
  <2> HIDE DEF j
  <2>4. QED BY <1>1, <2>1, <2>2, <2>3, RunMoves
<1>3. ASSUME job[Run].left \cap clients[job[Run].user] = {}, Set(Run, LeaveRange(Run))
      PROVE  Delivery'
  <2>1. job' = [job EXCEPT ![Run] = j] /\ j = LeaveRange(Run)  BY <1>3, DeliveryTypes, RunIsADeliverer DEF Set
  <2>2. RunFits'  BY <1>1, <2>1, RunLeaves DEF RunFits
  <2>3. \A c \in Conns : Ahead(c)' => Ahead(c)  BY <1>1, <2>1, RunLeaves DEF Ahead
  <2>4. \A c \in Conns : Ahead(c) /\ c \in clients[Owner[c]] => Ahead(c)'
    BY <1>1, <1>3, <2>1, RunLeaves DEF Ahead, RunFits
  <2>5. j.step # "idle" /\ j.event = job[Run].event  BY <1>1, <2>1, RunLeaves
  <2> HIDE DEF j
  <2>6. QED BY <1>1, <2>1, <2>2, <2>3, <2>4, <2>5, RunMoves
<1>4. QED BY <1>2, <1>3 DEF NextClient

\* The non-blocking send: the event is younger than all the connection has heard.
LEMMA SendDelivery == ASSUME DInv, Send(Run) PROVE Delivery'
<1> DEFINE b == job[Run].client
           e == job[Run].event
           j == job'[Run]
<1>1. /\ job[Run].step = "send" /\ Busy /\ RunFits /\ b \in Conns /\ e \in Events
      /\ UNCHANGED <<hubVars, broadcastQ, posted>>
  BY DeliveryTypes DEF Send, Busy, DInv, Delivery, queueVars
<1>2. CASE UNCHANGED <<sendVars, job>>  BY <1>1, <1>2, DeliveryUnseen DEF sendVars
<1>3. CASE dropped' = dropped \cup {b} /\ heard' = heard
             /\ Set(Run, [job[Run] EXCEPT !.step = "drop"])
  <2>1. /\ job' = [job EXCEPT ![Run] = j]
        /\ j.event = e /\ j.users = job[Run].users /\ j.step = "drop"
        /\ j.left = job[Run].left /\ j.client = b /\ j.user = job[Run].user
    BY <1>3, DeliveryTypes, RunIsADeliverer DEF Set, Jobs
  <2>2. RunFits'  BY <1>1, <2>1 DEF RunFits
  <2>3. \A c \in Conns : (Ahead(c)' => Ahead(c)) /\ (Ahead(c) => Ahead(c)' \/ c \in dropped')
    BY <1>1, <1>3, <2>1 DEF Ahead
  <2>4. \A c \in Conns : c \in dropped' => Told(c)'  BY DEF Told
  <2> HIDE DEF j
  <2>5. QED BY <1>1, <1>3, <2>1, <2>2, <2>3, <2>4, RunMoves
<1>4. CASE /\ heard' = [heard EXCEPT ![b] = Append(@, e.id)]
           /\ dropped' = dropped /\ Set(Run, BackToRange(Run))
  <2>1. job' = [job EXCEPT ![Run] = j] /\ j = BackToRange(Run) /\ j.event = e
    BY <1>1, <1>4, DeliveryTypes, RunIsADeliverer, RunGoesBack DEF Set
  <2>2. /\ RunFits' /\ Busy'
        /\ \A c \in Conns : Ahead(c)' => Ahead(c) /\ c # b
        /\ \A c \in Conns : Ahead(c) /\ c \in clients[Owner[c]] => Ahead(c)' \/ c = b
    BY <1>1, <2>1, RunPassesOn
  <2>3. Ahead(b)  BY <1>1 DEF Ahead
  <2> HIDE DEF j, b, e
  <2>4. \A c \in Conns : \A i \in 1..Len(heard'[c]) :
            \/ i \in 1..Len(heard[c]) /\ heard'[c][i] = heard[c][i]
            \/ c = b /\ i = Len(heard[c]) + 1 /\ heard'[c][i] = e.id
    BY <1>1, <1>4, DeliveryTypes
  <2>5. \A c \in Conns : \A i \in 1..Len(heard[c]) :
            i \in 1..Len(heard'[c]) /\ heard'[c][i] = heard[c][i]
    BY <1>1, <1>4, DeliveryTypes
  <2>6. Len(heard[b]) + 1 \in 1..Len(heard'[b]) /\ heard'[b][Len(heard[b]) + 1] = e.id
    BY <1>1, <1>4, DeliveryTypes
  <2>7. \A c \in Conns : \A i \in 1..Len(heard[c]) :
            /\ heard[c][i] \in Nat /\ heard[c][i] <= posted /\ heard[c][i] <= e.id
            /\ Ahead(c) => heard[c][i] < e.id
            /\ \A k \in 1..Len(broadcastQ) : heard[c][i] < broadcastQ[k].id
    <3>1. HeardIsPast  BY DEF DInv, Delivery
    <3>2. \A c \in Conns : \A i \in 1..Len(heard[c]) : heard[c][i] \in Nat  BY DeliveryTypes
    <3>3. QED BY <1>1, <3>1, <3>2 DEF HeardIsPast, e
  <2>8. /\ e.id \in Nat /\ e.id <= posted
        /\ \A k \in 1..Len(broadcastQ) : e.id < broadcastQ[k].id
    BY <1>1, DeliveryTypes DEF DInv, Delivery, QueueInOrder, e, Events
  <2>9. QueueInOrder'  BY <1>1, <2>1, <2>2 DEF DInv, Delivery, QueueInOrder, e
  <2>10. HeardIsPast'  BY <1>1, <2>1, <2>2, <2>7, <2>8, <2>4 DEF HeardIsPast, j
  <2>11. HeardInOrderOnce'
    <3>1. SUFFICES ASSUME NEW c \in Conns, NEW i \in 1..Len(heard'[c]),
                          NEW k \in 1..Len(heard'[c]), i < k
                   PROVE  heard'[c][i] < heard'[c][k]
      BY DEF HeardInOrderOnce
    <3>2. Len(heard[c]) \in Nat  BY DeliveryTypes
    <3>3. i \in 1..Len(heard[c]) /\ heard'[c][i] = heard[c][i]  BY <2>4, <3>1, <3>2
    <3>4. CASE k \in 1..Len(heard[c]) /\ heard'[c][k] = heard[c][k]
      BY <3>1, <3>3, <3>4 DEF DInv, Delivery, HeardInOrderOnce
    <3>5. CASE c = b /\ heard'[c][k] = e.id  BY <2>3, <2>7, <3>3, <3>5
    <3>6. QED BY <2>4, <3>4, <3>5
  <2>12. NobodyIsSkipped'
    <3>1. SUFFICES ASSUME NEW u \in subscribers[e.conv] \ {e.exclude}, NEW c \in clients[u]
                   PROVE  Ahead(c)' \/ Told(c)'
      BY <1>1, <2>1 DEF NobodyIsSkipped, hubVars, j
    <3>2. c \in Conns /\ Owner[c] = u  BY <1>1, <3>1, DeliveryTypes DEF Events
    <3>3. Ahead(c) \/ Told(c)  BY <1>1, <3>1 DEF DInv, Delivery, NobodyIsSkipped, e
    <3>4. Told(c) => Told(c)'  BY <1>4, <2>1, <2>5, <3>2 DEF Told, j, e
    <3>5. c = b => Told(c)'  BY <2>1, <2>6 DEF Told, j
    <3>6. QED BY <2>2, <3>1, <3>2, <3>3, <3>4, <3>5
  <2>13. QED BY <2>2, <2>9, <2>10, <2>11, <2>12 DEF Delivery
<1>5. QED BY <1>2, <1>3, <1>4 DEF Send

\* A connection about to be dropped has been counted as such already.
LEMMA DropDelivery == ASSUME DInv, Drop(Run) PROVE Delivery'
<1> DEFINE j == job'[Run]
<1>1. /\ job[Run].step = "drop" /\ Busy
      /\ UNCHANGED <<hubVars, broadcastQ, heard, posted, dropped>>
  BY DEF Drop, Busy, sendVars
<1>2. job' = [job EXCEPT ![Run] = j] /\ j = BackToRange(Run)  BY DeliveryTypes, RunIsADeliverer DEF Drop, Set
<1>3. j.step # "idle" /\ j.event = job[Run].event  BY <1>1, <1>2, RunGoesBack
<1>4. /\ RunFits'
      /\ \A c \in Conns : Ahead(c)' => Ahead(c)
      /\ \A c \in Conns : Ahead(c) /\ c \in clients[Owner[c]] => Ahead(c)'
  BY <1>1, <1>2, RunPassesOn
<1> HIDE DEF j
<1>5. QED BY <1>1, <1>2, <1>3, <1>4, RunMoves

\* An announcing goroutine puts no broadcast into a channel and leaves Run alone.
LEMMA AnnouncerDelivery ==
    ASSUME DInv, NEW d \in Deliverers, d # Run, Deliver(d)
    PROVE  Delivery'
<1>1. job'[Run] = job[Run]
  BY RunIsADeliverer, DeliveryTypes DEF Set, Deliver, Gather, NextConversation, NextUser, NextClient, Send,
     Drop, sendVars
<1>2. UNCHANGED <<hubVars, broadcastQ, heard, posted>> /\ dropped \subseteq dropped'
  BY DEF Deliver, Gather, NextConversation, NextUser, NextClient, Send, Drop,
         sendVars, queueVars
<1>3. QED BY <1>1, <1>2, DeliveryUnseen

\* Registrations come to an idle Run, and start goroutines other than Run.
LEMMA RegistrationDelivery ==
    ASSUME DInv, HandleRegister \/ HandleUnregister \/ CloseAll
    PROVE  Delivery'
<1>1. ~Busy /\ UNCHANGED <<broadcastQ, heard, posted, dropped>>
  BY DEF HandleRegister, HandleUnregister, CloseAll, HubIsIdle, Busy, sendVars, queueVars
<1>2. \A c \in Conns, change \in {"online", "offline"} : Spawned(change, c)[Run] = job[Run]
  BY DeliveryTypes, ConnAssumption, RunIsADeliverer DEF Spawned, Announcer, Run
<1>3. job'[Run] = job[Run]
  <2>1. CASE HandleRegister
    BY <2>1, RunIsADeliverer, <1>2 DEF HandleRegister, DInv, IInv, TInv, TypeOK, Ranging
  <2>2. CASE HandleUnregister  BY <2>2, <1>2 DEF HandleUnregister, DInv, IInv, TInv, TypeOK
  <2>3. CASE CloseAll  BY <2>3 DEF CloseAll
  <2>4. QED BY <2>1, <2>2, <2>3
<1>4. QED BY <1>1, <1>3, DeliveryUnseen

\* A Run that selects again, or starts again, is idle and the channel no fuller.
LEMMA IdleDelivery ==
    ASSUME DInv, job'[Run] = IdleJob, UNCHANGED <<heard, posted>>,
           broadcastQ' = broadcastQ \/ broadcastQ' = <<>>
    PROVE  Delivery'
<1>1. ~Busy'  BY DEF Busy, IdleJob
<1>2. RunFits' /\ NobodyIsSkipped'  BY <1>1 DEF RunFits, NobodyIsSkipped, IdleJob
<1>3. QueueInOrder'  BY <1>1 DEF DInv, Delivery, QueueInOrder
<1>4. HeardIsPast' /\ HeardInOrderOnce'  BY <1>1 DEF DInv, Delivery, HeardIsPast, HeardInOrderOnce
<1>5. QED BY <1>2, <1>3, <1>4 DEF Delivery

\* Every step keeps what is delivered in order and complete.
LEMMA NextDelivery == ASSUME DInv, [Next]_vars PROVE Delivery'
<1>1. CASE \E c \in Conns : \/ Connect(c) \/ LoseConnection(c) \/ Unregister(c) \/ Pong(c)
                            \/ Write(c) \/ WriteClose(c)
  BY <1>1, DeliveryUnseen
     DEF Connect, LoseConnection, Unregister, Pong, Write, WriteClose, queueVars, sendVars
<1>2. CASE \E c \in Conns, k \in Convs : RelayFrame(c, k)
  BY <1>2, ConnAssumption, BroadcastDelivery DEF RelayFrame
<1>3. CASE \E u \in Users, k \in Convs : PostMessage(u, k)  BY <1>3, BroadcastDelivery DEF PostMessage
<1>4. CASE (\E u \in Users, k \in Convs : ChangeMembership(u, k)) \/ MapRace \/ UNCHANGED vars
  BY <1>4, DeliveryUnseen DEF ChangeMembership, MapRace, vars, queueVars, sendVars
<1>5. CASE HandleRegister \/ HandleUnregister \/ CloseAll  BY <1>5, RegistrationDelivery
<1>6. CASE Dispatch  BY <1>6, DispatchDelivery
<1>7. CASE Select \/ Restart
  BY <1>7, RunIsADeliverer, DeliveryTypes, IdleDelivery DEF Select, Restart, Set, queueVars, sendVars
<1>8. CASE \E d \in Deliverers : Deliver(d)
  BY <1>8, AnnouncerDelivery, NextUserDelivery, NextClientDelivery, SendDelivery, DropDelivery DEF Gather,
     NextConversation, DInv, Delivery, RunFits, Deliver
<1>9. QED BY <1>1, <1>2, <1>3, <1>4, <1>5, <1>6, <1>7, <1>8 DEF Next, RunStep

\* The delivery invariant is inductive.
LEMMA DeliveryInductive == Spec => []DInv
<1>1. Init => DInv  BY InitType, InitRouting, InitDelivery DEF DInv, IInv
<1>2. DInv /\ [Next]_vars => DInv'  BY NextType, NextRouting, NextDelivery DEF DInv, IInv
<1>3. QED BY <1>1, <1>2, PTL DEF Spec

\* Broadcasts reach every connection in the order they were queued in, each at
\* most once, whatever comes, goes, panics or restarts meanwhile.
THEOREM HeardInOrderAlways == Spec => []HeardInOrderOnce
<1>1. DInv => HeardInOrderOnce  BY DEF DInv, Delivery
<1>2. QED BY <1>1, DeliveryInductive, PTL

\* When Run is done with a broadcast, every registered connection of the other
\* subscribers has it or was too slow for it.
THEOREM SubscribersStayServed == Spec => []SubscribersAreServed
<1>1. ASSUME DInv PROVE SubscribersAreServed
  BY <1>1 DEF SubscribersAreServed, Told, Busy, DInv, Delivery, Ahead, RunFits, NobodyIsSkipped
<1>2. QED BY <1>1, DeliveryInductive, PTL
=====
