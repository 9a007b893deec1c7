---- MODULE CachesProofs ----
\* Proofs about what the Redis library keeps beside the tables, and about
\* the copies of a profile.
EXTENDS MCStores, FiniteSetTheorems, TLAPS

\* Presence.

PresRecords == [step : PresSteps, known : BOOLEAN, who : SUBSET Gadgets]

\* Only who is about to move the end of the set is remembered with a request.
PresShape ==
    /\ PresTypeOK /\ presCall \in [PresCalls -> PresRecords]
    /\ \A c \in PresCalls : presCall[c].step # "expire" => presCall[c].who = {}

Leaving == {c \in PresCalls : presCall[c].step = "offline"}
Moving == {c \in PresCalls : presCall[c].step = "expire"}

\* What is known of a user outlives the score; the score is that of the last heartbeat, unless
\* one went offline or the score was pruned as too old.
ScoresFit ==
    /\ onlineScore <= tick /\ (onlineScore >= 0 => record.end >= onlineScore + PresenceTTL)
    /\ beaten >= 0 => onlineScore = beaten \/ beaten <= tick - PresenceTTL
    /\ onlineScore >= 0 /\ Leaving = {} /\ presFaults = 0 => beaten >= 0

\* A member is there since they entered, until they are too old; the set ends no sooner than any
\* of them, but for those whose request has yet to move its end.
MembersFit ==
    presFaults = 0 =>
        /\ \A u \in Gadgets : /\ member[u] <= tick
                              /\ \/ u \in slipped \/ member[u] = entered[u]
                                 \/ member[u] = -1 /\ entered[u] <= tick - MemberTTL
                              /\ \/ member[u] < 0 \/ memberEnd >= member[u] + MemberTTL
                                 \/ \E c \in Moving : u \in presCall[c].who
        /\ memberEnd # 0 => memberEnd > tick
        /\ Members # {} /\ memberEnd = 0 => Moving # {}

PresInv == PresShape /\ ScoresFit /\ MembersFit

\* What the invariant says of the numbers.
LEMMA PresNumbers ==
    ASSUME PresInv
    PROVE  /\ tick \in Nat /\ tick <= MaxTick /\ onlineScore \in Int /\ beaten \in Int
           /\ onlineScore >= -1 /\ onlineScore <= MaxTick
           /\ memberEnd \in Nat /\ memberEnd <= MaxTick + MemberTTL /\ presFaults \in Nat /\ record.end \in Nat
           /\ {MaxTick, MaxPresFaults} \subseteq Nat /\ {OnlineThreshold, PresenceTTL, MemberTTL} \subseteq Nat \ {0}
           /\ OnlineThreshold < PresenceTTL
           /\ \A u \in Gadgets : member[u] \in Int /\ entered[u] \in Int
BY PresenceAssumption DEF PresInv, PresShape, PresTypeOK, Forever

\* A request becomes another record.
LEMMA PresTurns ==
    ASSUME PresInv, NEW c \in PresCalls, NEW new \in PresRecords, presCall' = [presCall EXCEPT ![c] = new],
           new.step # "expire" => new.who = {}
    PROVE  /\ presCall' \in [PresCalls -> PresRecords] /\ presCall'[c] = new
           /\ \A d \in PresCalls \ {c} : presCall'[d] = presCall[d]
           /\ \A d \in PresCalls : presCall'[d].step # "expire" => presCall'[d].who = {}
           /\ \A d \in PresCalls : presCall'[d].step \in PresSteps /\ presCall'[d].who \subseteq Gadgets
BY DEF PresInv, PresShape, PresRecords

\* A request that ends leaves nothing behind.
LEMMA PresEnding ==
    ASSUME PresInv, NEW c \in PresCalls, PresEnds(c)
    PROVE  /\ presCall' \in [PresCalls -> PresRecords] /\ presCall'[c].step = "ended" /\ presCall'[c].who = {}
           /\ \A d \in PresCalls \ {c} : presCall'[d] = presCall[d]
           /\ \A d \in PresCalls : presCall'[d].step # "expire" => presCall'[d].who = {}
           /\ \A d \in PresCalls : presCall'[d].step \in PresSteps /\ presCall'[d].who \subseteq Gadgets
<1>1. PICK new : new = [Resting EXCEPT !.step = "ended"]  OBVIOUS
<1>2. new = [step |-> "ended", known |-> FALSE, who |-> {}]  BY <1>1 DEF Resting
<1>3. new \in PresRecords /\ new.step = "ended" /\ new.who = {}  BY <1>2 DEF PresRecords, PresSteps
<1>4. presCall' = [presCall EXCEPT ![c] = new]  BY <1>1 DEF PresEnds
<1> QED BY <1>3, <1>4, PresTurns

\* A request that the user goes offline, or that someone enters, has begun.
LEMMA PresBeginning ==
    ASSUME PresInv, NEW c \in PresCalls, NEW step \in {"offline", "expire"}, NEW known \in BOOLEAN,
           NEW S \in SUBSET Gadgets, presCall[c].step = "new", step = "offline" => S = {},
           presCall' = [presCall EXCEPT ![c] = [step |-> step, known |-> known, who |-> S]]
    PROVE  /\ presCall' \in [PresCalls -> PresRecords] /\ presCall'[c].step = step /\ presCall'[c].who = S
           /\ \A d \in PresCalls \ {c} : presCall'[d] = presCall[d]
           /\ \A d \in PresCalls : presCall'[d].step # "expire" => presCall'[d].who = {}
           /\ \A d \in PresCalls : presCall'[d].step \in PresSteps /\ presCall'[d].who \subseteq Gadgets
<1>1. PICK new : new = [step |-> step, known |-> known, who |-> S]  OBVIOUS
<1>2. new \in PresRecords /\ new.step = step /\ new.who = S  BY <1>1 DEF PresRecords, PresSteps
<1> QED BY <1>1, <1>2, PresTurns

\* A heartbeat, or the user going offline.
LEMMA UserCallKeeps ==
    ASSUME PresInv, NEW c \in PresCalls, Heartbeat(c) \/ SetOffline(c) \/ WriteOffline(c)
    PROVE  PresInv'
<1>1. /\ presCall' \in [PresCalls -> PresRecords] /\ \A d \in PresCalls \ {c} : presCall'[d] = presCall[d]
      /\ \A d \in PresCalls : presCall'[d].step # "expire" => presCall'[d].who = {}
      /\ \A d \in PresCalls : presCall'[d].step \in PresSteps /\ presCall'[d].who \subseteq Gadgets
      /\ presCall'[c].who = {} /\ presCall[c].step # "expire" /\ presCall'[c].step # "expire"
  <2>1. CASE SetOffline(c)
    <3>1. /\ presCall[c] \in PresRecords /\ presCall[c].step = "new" /\ presCall[c].who = {}
      BY <2>1 DEF PresInv, PresShape, SetOffline
    <3>2. PICK new : new = [presCall[c] EXCEPT !.step = "offline", !.known = Stored]  OBVIOUS
    <3>3. presCall' = [presCall EXCEPT ![c] = new]  BY <2>1, <3>2 DEF SetOffline
    <3>4. Stored \in BOOLEAN  BY DEF Stored
    <3>5. new = [step |-> "offline", known |-> Stored, who |-> {}]  BY <3>1, <3>2 DEF PresRecords
    <3> QED BY <2>1, <3>1, <3>3, <3>4, <3>5, PresBeginning
  <2>2. CASE ~SetOffline(c)  BY <2>2, PresEnding DEF Heartbeat, WriteOffline
  <2> QED BY <2>1, <2>2
<1>2. UNCHANGED <<about, tick, member, memberEnd, entered, slipped, presFaults>>
  BY DEF Heartbeat, SetOffline, WriteOffline
<1>3. Moving' = Moving /\ \A d \in Moving : presCall'[d] = presCall[d]
  BY <1>1 DEF Moving
<1>4. MembersFit'  BY <1>2, <1>3, Zenon DEF PresInv, MembersFit, Members
<1>5. CASE Heartbeat(c)
  <2>1. PICK r : r = [status |-> "online", end |-> tick + PresenceTTL]  OBVIOUS
  <2>2. record' = r /\ onlineScore' = tick /\ beaten' = IF Leaving # {} THEN -1 ELSE tick
    BY <1>5, <2>1 DEF Heartbeat, Leaving
  <2>3. r.end = tick + PresenceTTL /\ r \in [status : {"none", "online", "offline"}, end : 0..Forever]
    BY <2>1, PresNumbers DEF Forever
  <2>4. Leaving' = Leaving  BY <1>1, <1>5, PresEnding DEF Leaving, Heartbeat
  <2>5. PresShape'  BY <1>1, <1>2, <2>2, <2>3, PresNumbers DEF PresInv, PresShape, PresTypeOK
  <2>6. ScoresFit'  BY <1>2, <2>2, <2>3, <2>4, PresNumbers DEF ScoresFit
  <2> QED BY <1>4, <2>5, <2>6 DEF PresInv
<1>6. CASE SetOffline(c)
  BY <1>1, <1>6, <1>2, PresNumbers, <1>4 DEF SetOffline, PresInv, PresShape, PresRecords, Leaving, PresTypeOK,
     ScoresFit
<1>7. CASE WriteOffline(c)
  BY <1>7, PresNumbers, <1>1, <1>2, <1>4 DEF WriteOffline, ScoreRemoved, Forever, PresInv, PresShape,
     PresTypeOK, ScoresFit
<1> QED BY <1>5, <1>6, <1>7

\* Who enters is a member from now on, and remembered until the end of the set is moved.
LEMMA EnterKeeps == ASSUME PresInv, NEW c \in PresCalls, Enter(c) PROVE PresInv'
<1>1. PICK u \in Gadgets :
         /\ presCall' = [presCall EXCEPT ![c].step = "expire", ![c].who = {u}]
         /\ member' = [member EXCEPT ![u] = tick] /\ entered' = [entered EXCEPT ![u] = tick]
         /\ slipped' = slipped \ {u}
  BY DEF Enter
<1>2. presCall[c].step = "new" /\ UNCHANGED <<about, tick, record, onlineScore, memberEnd, beaten, presFaults>>
  BY DEF Enter
<1>3. /\ presCall' \in [PresCalls -> PresRecords] /\ presCall'[c].step = "expire" /\ presCall'[c].who = {u}
      /\ \A d \in PresCalls \ {c} : presCall'[d] = presCall[d]
      /\ \A d \in PresCalls : presCall'[d].step # "expire" => presCall'[d].who = {}
      /\ \A d \in PresCalls : presCall'[d].step \in PresSteps /\ presCall'[d].who \subseteq Gadgets
  <2>1. PICK new : new = [presCall[c] EXCEPT !.step = "expire", !.who = {u}]  OBVIOUS
  <2>2. presCall' = [presCall EXCEPT ![c] = new]  BY <1>1, <2>1
  <2>3. presCall[c] \in PresRecords  BY DEF PresInv, PresShape
  <2>4. new = [step |-> "expire", known |-> presCall[c].known, who |-> {u}] /\ presCall[c].known \in BOOLEAN
    BY <2>1, <2>3 DEF PresRecords
  <2>5. new \in PresRecords /\ new.step = "expire" /\ new.who = {u}  BY <2>4 DEF PresRecords, PresSteps
  <2> QED BY <2>2, <2>5, PresTurns
<1>4. Leaving' = Leaving /\ Moving' = Moving \cup {c} /\ \A d \in Moving : presCall'[d] = presCall[d]
  BY <1>2, <1>3 DEF Leaving, Moving
<1>5. member[u] \in Int /\ \A w \in Gadgets : member'[w] = (IF w = u THEN tick ELSE member[w])
                                              /\ entered'[w] = (IF w = u THEN tick ELSE entered[w])
  BY <1>1, PresNumbers DEF PresInv, PresShape, PresTypeOK
<1>6. PresShape'  BY <1>1, PresNumbers, <1>2, <1>3 DEF PresInv, PresShape, PresTypeOK
<1>7. ScoresFit'  BY <1>2, <1>4 DEF PresInv, ScoresFit
<1>8. MembersFit'
  <2> SUFFICES ASSUME presFaults = 0 PROVE MembersFit'  BY <1>2 DEF MembersFit
  <2>1. c \in Moving' /\ u \in presCall'[c].who  BY <1>3, <1>4
  <2>2. \A w \in Gadgets : /\ member'[w] <= tick'
                           /\ \/ w \in slipped' \/ member'[w] = entered'[w]
                              \/ member'[w] = -1 /\ entered'[w] <= tick' - MemberTTL
    BY <1>1, <1>2, <1>5, PresNumbers DEF PresInv, MembersFit
  <2>3. \A w \in Gadgets : \/ member'[w] < 0 \/ memberEnd' >= member'[w] + MemberTTL
                           \/ \E d \in Moving' : w \in presCall'[d].who
    BY <1>2, <1>4, <1>5, <2>1 DEF PresInv, MembersFit
  <2>4. memberEnd' # 0 => memberEnd' > tick'  BY <1>2 DEF PresInv, MembersFit
  <2> QED BY <2>1, <2>2, <2>3, <2>4 DEF MembersFit
<1> QED BY <1>6, <1>7, <1>8 DEF PresInv

\* The end of the set is moved behind all of its members.
LEMMA MoveEndKeeps == ASSUME PresInv, NEW c \in PresCalls, MoveEnd(c) PROVE PresInv'
<1>1. /\ presCall' \in [PresCalls -> PresRecords] /\ presCall'[c].step = "ended" /\ presCall'[c].who = {}
      /\ \A d \in PresCalls \ {c} : presCall'[d] = presCall[d]
      /\ \A d \in PresCalls : presCall'[d].step # "expire" => presCall'[d].who = {}
      /\ \A d \in PresCalls : presCall'[d].step \in PresSteps /\ presCall'[d].who \subseteq Gadgets
  BY PresEnding DEF MoveEnd
<1>2. /\ presCall[c].step = "expire" /\ memberEnd' = IF Members = {} THEN memberEnd ELSE tick + MemberTTL
      /\ UNCHANGED <<about, tick, record, onlineScore, member, beaten, entered, slipped, presFaults>>
  BY DEF MoveEnd
<1>3. Leaving' = Leaving /\ Members' = Members  BY <1>1, <1>2 DEF Leaving, Members
<1>4. PresShape'  BY <1>1, <1>2, PresNumbers DEF PresInv, PresShape, PresTypeOK
<1>5. ScoresFit'  BY <1>2, <1>3 DEF PresInv, ScoresFit
<1>6. MembersFit'  BY <1>2, PresNumbers, <1>3 DEF MembersFit, Members, PresInv
<1> QED BY <1>4, <1>5, <1>6 DEF PresInv

\* A request fails.
LEMMA PresFailureKeeps == ASSUME PresInv, NEW c \in PresCalls, PresCallFails(c) PROVE PresInv'
<1>1. /\ presCall' \in [PresCalls -> PresRecords]
      /\ \A d \in PresCalls : presCall'[d].step # "expire" => presCall'[d].who = {}
      /\ \A d \in PresCalls : presCall'[d].step \in PresSteps /\ presCall'[d].who \subseteq Gadgets
  BY PresEnding DEF PresCallFails
<1>2. /\ presFaults < MaxPresFaults /\ presFaults' = presFaults + 1
      /\ UNCHANGED <<about, tick, record, onlineScore, member, memberEnd, beaten, entered, slipped>>
  BY DEF PresCallFails
<1>3. presFaults' # 0 /\ presFaults' \in 0..MaxPresFaults  BY <1>2, PresNumbers
<1> QED BY <1>1, <1>2, <1>3 DEF PresInv, PresShape, PresTypeOK, ScoresFit, MembersFit

\* A score that is too old is pruned; a user may still be taken to have sent a heartbeat then.
LEMMA PruningKeeps == ASSUME PresInv, PruneStaleOnlineUsers PROVE PresInv'
<1>1. /\ onlineScore <= tick - PresenceTTL /\ onlineScore' = -1
      /\ UNCHANGED <<about, tick, record, member, memberEnd, presCall, beaten, entered, slipped, presFaults>>
  BY DEF PruneStaleOnlineUsers
<1>2. PresShape'  BY <1>1, PresNumbers DEF PresInv, PresShape, PresTypeOK
<1>3. ScoresFit'  BY <1>1, PresNumbers DEF PresInv, ScoresFit
<1>4. MembersFit'  BY <1>1, Zenon DEF PresInv, MembersFit, Members, Moving
<1> QED BY <1>2, <1>3, <1>4 DEF PresInv

\* Some are taken out of the set, as time may pass: who left, who is too old, or all when the
\* set has ended.
LEMMA WithoutKeeps ==
    ASSUME PresInv, NEW S \in SUBSET Members, tick' \in tick..MaxTick,
           presCall' \in [PresCalls -> PresRecords],
           \A d \in PresCalls : presCall'[d].step # "expire" => presCall'[d].who = {},
           Leaving' = Leaving, Moving' = Moving, \A d \in Moving : presCall'[d] = presCall[d],
           entered' \in [Gadgets -> -1..MaxTick], slipped' \in SUBSET Gadgets, slipped \subseteq slipped',
           presFaults = 0 => \A u \in S \ slipped' : entered'[u] = -1 \/ entered'[u] <= tick' - MemberTTL,
           \A u \in Gadgets \ S : entered'[u] = entered[u],
           member' = [u \in Gadgets |-> IF u \in S THEN -1 ELSE member[u]],
           memberEnd' \in {0, memberEnd}, memberEnd' = 0 => memberEnd = 0 \/ Members \subseteq S,
           presFaults = 0 /\ memberEnd' # 0 => memberEnd' > tick',
           UNCHANGED <<about, record, onlineScore, beaten, presFaults>>
    PROVE  PresInv'
<1>1. \A u \in Gadgets : member'[u] = IF u \in S THEN -1 ELSE member[u]  OBVIOUS
<1>3. Members' = Members \ S  BY <1>1 DEF Members
<1>4. PresShape'  BY PresNumbers DEF PresInv, PresShape, PresTypeOK, PresRecords
<1>5. ScoresFit'  BY PresNumbers DEF PresInv, ScoresFit
<1>6. MembersFit'
  <2> SUFFICES ASSUME presFaults = 0 PROVE MembersFit'  BY DEF MembersFit
  <2>1. tick \in Nat /\ tick' \in Nat /\ tick <= tick' /\ MemberTTL \in Int /\ memberEnd \in Int
        /\ \A u \in Gadgets : member[u] \in Int /\ entered[u] \in Int /\ entered'[u] \in Int
    BY PresNumbers
  <2>2. ASSUME NEW u \in Gadgets
        PROVE  /\ member'[u] <= tick'
               /\ \/ u \in slipped' \/ member'[u] = entered'[u]
                  \/ member'[u] = -1 /\ entered'[u] <= tick' - MemberTTL  BY <1>1, <2>1 DEF PresInv, MembersFit
  <2>3. ASSUME NEW u \in Gadgets
        PROVE  \/ member'[u] < 0 \/ memberEnd' >= member'[u] + MemberTTL
               \/ \E c \in Moving' : u \in presCall'[c].who
    BY <1>1, <1>3, <2>1 DEF PresInv, MembersFit, Members
  <2>4. memberEnd' # 0 => memberEnd' > tick'  OBVIOUS
  <2>5. Members' # {} /\ memberEnd' = 0 => Moving' # {}
    BY <1>3 DEF PresInv, MembersFit
  <2> QED BY <2>2, <2>3, <2>4, <2>5 DEF MembersFit
<1> QED BY <1>4, <1>5, <1>6 DEF PresInv

\* Who is too old, or has left, is out; with the end of the set all are.
LEMMA MembersGoKeeps ==
    ASSUME PresInv, PruneMembers \/ Tick \/ \E c \in PresCalls : Leave(c)
    PROVE  PresInv'
<1>1. /\ presCall \in [PresCalls -> PresRecords] /\ member \in [Gadgets -> -1..MaxTick]
      /\ entered \in [Gadgets -> -1..MaxTick] /\ slipped \subseteq Gadgets /\ tick \in tick..MaxTick
      /\ \A d \in PresCalls : presCall[d].step # "expire" => presCall[d].who = {}
      /\ presFaults = 0 /\ memberEnd # 0 => memberEnd > tick
  BY PresNumbers DEF PresInv, PresShape, PresTypeOK, MembersFit
<1>2. \A u \in Members : member[u] \in Nat /\ member[u] <= MaxTick /\ u \in Gadgets
  BY <1>1, PresNumbers DEF Members
<1>3. presFaults = 0 => \A u \in Members : u \in slipped \/ entered[u] = member[u]
  BY <1>2 DEF PresInv, MembersFit
<1>4. CASE PruneMembers
  <2>1. Old \subseteq Members /\ \A u \in Old : member[u] <= tick - MemberTTL  BY DEF Old
  <2>2. /\ member' = [u \in Gadgets |-> IF u \in Old THEN -1 ELSE member[u]]
        /\ memberEnd' = (IF Members \subseteq Old THEN 0 ELSE memberEnd)
        /\ UNCHANGED <<about, tick, record, onlineScore, presCall, beaten, entered, slipped, presFaults>>
    BY <1>4 DEF PruneMembers, Without
  <2>3. Leaving' = Leaving /\ Moving' = Moving  BY <2>2 DEF Leaving, Moving
  <2>4. presFaults = 0 => \A u \in Old \ slipped' : entered'[u] <= tick' - MemberTTL
    BY <1>3, <2>1, <2>2
  <2> QED BY <1>1, <2>1, <2>2, <2>3, <2>4, WithoutKeeps
<1>5. CASE \E c \in PresCalls : Leave(c)
  <2>1. PICK c \in PresCalls : Leave(c)  BY <1>5
  <2>2. PICK u \in Members : Without({u}) /\ entered' = [entered EXCEPT ![u] = -1]  BY <2>1 DEF Leave
  <2>10. PICK S : S = {u}  OBVIOUS
  <2>3. /\ member' = [w \in Gadgets |-> IF w \in S THEN -1 ELSE member[w]]
        /\ memberEnd' = (IF Members \subseteq S THEN 0 ELSE memberEnd)
        /\ presCall[c].step = "new"
        /\ UNCHANGED <<about, tick, record, onlineScore, beaten, slipped, presFaults>>
    BY <2>1, <2>2, <2>10 DEF Leave, Without
  <2>4. /\ presCall' \in [PresCalls -> PresRecords] /\ presCall'[c].step = "ended"
        /\ \A d \in PresCalls \ {c} : presCall'[d] = presCall[d]
        /\ \A d \in PresCalls : presCall'[d].step # "expire" => presCall'[d].who = {}
    BY <2>1, PresEnding DEF Leave
  <2>5. Leaving' = Leaving /\ Moving' = Moving /\ \A d \in Moving : presCall'[d] = presCall[d]
    BY <2>3, <2>4 DEF Leaving, Moving
  <2>6. /\ entered' \in [Gadgets -> -1..MaxTick] /\ entered'[u] = -1 /\ S \in SUBSET Members
        /\ \A w \in Gadgets \ {u} : entered'[w] = entered[w]
    BY <1>1, <1>2, <2>2, <2>10, PresNumbers
  <2>7. /\ tick' \in tick..MaxTick /\ slipped' \in SUBSET Gadgets
        /\ presFaults = 0 /\ memberEnd' # 0 => memberEnd' > tick'
    BY <1>1, <2>3
  <2>8. \A w \in S \ slipped' : entered'[w] = -1  BY <2>6, <2>10
  <2>9. \A w \in Gadgets \ S : entered'[w] = entered[w]  BY <2>6, <2>10
  <2> QED BY <2>3, <2>4, <2>5, <2>6, <2>7, <2>8, <2>9, WithoutKeeps
<1>6. CASE Tick
  <2>1. /\ tick < MaxTick /\ tick' = tick + 1
        /\ UNCHANGED <<about, record, onlineScore, presCall, beaten, entered, presFaults>>
    BY <1>6 DEF Tick
  <2>2. tick' \in tick..MaxTick /\ Leaving' = Leaving /\ Moving' = Moving
    BY <2>1, PresNumbers DEF Leaving, Moving
  <2>3. CASE memberEnd # 0 /\ tick' >= memberEnd
    <3>1. /\ member' = [u \in Gadgets |-> IF u \in Members THEN -1 ELSE member[u]] /\ memberEnd' = 0
          /\ slipped' = slipped \cup UNION {presCall[c].who : c \in PresCalls}
      BY <1>6, <2>3 DEF Tick, Without
    <3>2. slipped' \in SUBSET Gadgets
      BY <1>1, <3>1 DEF PresRecords
    <3>3. ASSUME presFaults = 0, NEW u \in Members \ slipped' PROVE entered'[u] <= tick' - MemberTTL
      BY <1>2, <3>1, <3>3, <1>3, <2>1, <2>3, PresNumbers DEF PresInv, MembersFit, Moving
    <3> QED BY <1>1, <2>1, <2>2, <3>1, <3>2, <3>3, WithoutKeeps
  <2>4. CASE ~(memberEnd # 0 /\ tick' >= memberEnd)
    <3>1. UNCHANGED <<member, memberEnd, slipped>>  BY <1>6, <2>4 DEF Tick
    <3>2. member' = [u \in Gadgets |-> IF u \in {} THEN -1 ELSE member[u]]  BY <1>1, <3>1
    <3>3. memberEnd' # 0 => memberEnd' > tick'  BY <2>1, <2>4, <3>1, PresNumbers
    <3> QED BY <1>1, <2>1, <2>2, <3>1, <3>2, <3>3, WithoutKeeps
  <2> QED BY <2>3, <2>4
<1> QED BY <1>4, <1>5, <1>6

\* Nobody has asked for anything.
LEMMA PresInvAtFirst == PresInit => PresInv
<1> SUFFICES ASSUME PresInit PROVE PresInv  OBVIOUS
<1>1. /\ {MaxTick, MaxPresFaults} \subseteq Nat /\ {OnlineThreshold, PresenceTTL, MemberTTL} \subseteq Nat \ {0}
  BY PresenceAssumption
<1>2. Resting \in PresRecords /\ Resting.who = {} /\ Resting.step = "new"  BY DEF Resting, PresRecords, PresSteps
<1>3. record.end = 0 /\ record \in [status : {"none", "online", "offline"}, end : 0..Forever]
  BY <1>1 DEF PresInit, NoRecord, Forever
<1>4. \A c \in PresCalls : presCall[c] = Resting  BY DEF PresInit
<1>5. PresShape  BY <1>1, <1>2, <1>3, <1>4 DEF PresInit, PresShape, PresTypeOK, PresRecords
<1>6. ScoresFit /\ MembersFit  BY <1>1, <1>3 DEF PresInit, ScoresFit, MembersFit, Members
<1> QED BY <1>5, <1>6 DEF PresInv

LEMMA PresInvKept == PresInv /\ [PresNext]_presVars => PresInv'
<1> SUFFICES ASSUME PresInv, [PresNext]_presVars PROVE PresInv'  OBVIOUS
<1>1. CASE PresNext
  BY <1>1, UserCallKeeps, EnterKeeps, MoveEndKeeps, PresFailureKeeps, PruningKeeps, MembersGoKeeps DEF PresNext
<1>2. CASE UNCHANGED presVars
  BY <1>2, Zenon DEF presVars, PresInv, PresShape, PresTypeOK, ScoresFit, MembersFit, Members, Moving, Leaving
<1> QED BY <1>1, <1>2

\* The invariant has what is promised of the presence of a user, and of the members of a set.
LEMMA PresenceTrue == PresInv => PresTypeOK /\ PresenceIsTrue
<1> SUFFICES ASSUME PresInv PROVE PresenceIsTrue  BY DEF PresInv, PresShape
<1>1. AnswersAgree  BY PresNumbers DEF PresInv, ScoresFit, AnswersAgree, IsOnline, GetPresence, Stored
<1>2. BeatsCount  BY PresNumbers DEF Leaving, PresInv, ScoresFit, BeatsCount, IsOnline
<1>3. MembersAreListed  BY PresNumbers DEF MembersAreListed, PresInv, MembersFit, ActiveViewers, Members, Moving
<1> QED BY <1>1, <1>2, <1>3 DEF PresenceIsTrue

--------
\* Profiles.

ProfRecords == [step : ProfSteps, kind : ProfKinds, key : Keys, object : SUBSET ProfCalls,
                name : ProfNames, read : ProfRows]

\* Objects that have been stored, those which are gone again included.
Known == objects \cup confirmed

Few == {S \in SUBSET ProfCalls : Cardinality(S) <= 1}

\* What a request has read and is about to write was there; only verifying grants a badge.
ProfFits(c) ==
    LET call == profCall[c]
    IN /\ call.object \in Few /\ call.read.avatar \in Few
       /\ call.read.avatar \subseteq confirmed /\ (call.read.verified => badges # {})
       /\ call.step \in {"new", "put"} => c \notin Known
       /\ call.step = "put" => call.object = {c} /\ call.kind \in {"presign", "upload"}
       /\ call.step = "stat" => call.kind \in {"upload", "confirm"}
       /\ call.step \in {"row", "save"} => call.kind # "presign"
       /\ call.step \in {"row", "save"} /\ call.kind \in {"upload", "confirm"} => call.object \subseteq Known
       /\ call.step = "save" => call.kind # "get" /\ (c \in badges <=> call.kind = "verify")
       /\ call.step = "badge" => call.kind = "verify"
       /\ c \in badges => call.step \in {"save", "drop user", "drop username", "ended"}

ProfInv ==
    /\ ProfTypeOK /\ \A c \in ProfCalls : ProfFits(c)
    /\ removals \cup profile.avatar \subseteq confirmed /\ (profile.verified => badges # {})
    /\ chosen => Inserted # {}
    /\ ProfilesAreKept

LEMMA ProfNumbers == ProfInv => profFaults \in Nat /\ profFaults <= MaxProfFaults /\ MaxProfFaults \in Nat
BY ProfileAssumption DEF ProfInv, ProfTypeOK

LEMMA FewAreFew == {} \in Few /\ \A c \in ProfCalls : {c} \in Few
<1>1. Cardinality({}) = 0  BY FS_EmptySet
<1>2. ASSUME NEW c \in ProfCalls PROVE {c} \in Few
  <2>1. Cardinality({c}) = 1  BY FS_Singleton
  <2> QED BY <2>1 DEF Few
<1> QED BY <1>1, <1>2 DEF Few

\* A request becomes another record, and what is stored, named and granted only adds to it.
LEMMA ProfTurns ==
    ASSUME ProfInv, NEW c \in ProfCalls, NEW new \in ProfRecords, profCall' = [profCall EXCEPT ![c] = new],
           Known \subseteq Known', Known' \subseteq Known \cup {c}, confirmed \subseteq confirmed',
           badges \subseteq badges', badges' \subseteq badges \cup {c}
    PROVE  /\ profCall' \in [ProfCalls -> ProfRecords] /\ profCall'[c] = new
           /\ \A d \in ProfCalls \ {c} : profCall'[d] = profCall[d]
           /\ \A d \in ProfCalls \ {c} : ProfFits(d)'
<1>1. /\ profCall' \in [ProfCalls -> ProfRecords] /\ profCall'[c] = new
      /\ \A d \in ProfCalls \ {c} : profCall'[d] = profCall[d]
  BY DEF ProfInv, ProfTypeOK, ProfRecords
<1>2. ASSUME NEW d \in ProfCalls \ {c} PROVE ProfFits(d)'  BY <1>1 DEF ProfInv, ProfFits
<1> QED BY <1>1, <1>2

\* A request goes on to a step, or ends.
LEMMA ProfGoing ==
    ASSUME ProfInv, NEW c \in ProfCalls, NEW step \in ProfSteps, ProfGoes(c, step)
    PROVE  \E new \in ProfRecords :
              /\ profCall' = [profCall EXCEPT ![c] = new] /\ new.step = step
              /\ \/ step = "ended" /\ new.object = {} /\ new.read = FirstRow
                 \/ /\ new.kind = profCall[c].kind /\ new.key = profCall[c].key /\ new.object = profCall[c].object
                    /\ new.name = profCall[c].name /\ new.read = profCall[c].read
<1>1. profCall[c] \in ProfRecords  BY DEF ProfInv, ProfTypeOK, ProfRecords
<1>2. CASE step = "ended"
  <2>1. PICK new : new = Done  OBVIOUS
  <2>2. new = [step |-> "ended", kind |-> "get", key |-> "user", object |-> {}, name |-> FirstName, read |-> FirstRow]
    BY <2>1 DEF Done, Waits
  <2>3. FirstRow \in ProfRows  BY ProfileAssumption DEF FirstRow, ProfRows
  <2>4. new \in ProfRecords /\ new.step = step /\ new.object = {} /\ new.read = FirstRow
    BY <1>2, <2>2, <2>3, ProfileAssumption DEF ProfRecords, ProfSteps, ProfKinds, Keys
  <2>5. profCall' = [profCall EXCEPT ![c] = new]  BY <1>2, <2>1 DEF ProfGoes
  <2> QED BY <1>2, <2>4, <2>5
<1>3. CASE step # "ended"
  <2>1. PICK new : new = [profCall[c] EXCEPT !.step = step]  OBVIOUS
  <2>2. /\ new \in ProfRecords /\ new.step = step /\ new.kind = profCall[c].kind /\ new.key = profCall[c].key
        /\ new.object = profCall[c].object /\ new.name = profCall[c].name /\ new.read = profCall[c].read
    BY <1>1, <2>1 DEF ProfRecords
  <2>3. profCall' = [profCall EXCEPT ![c] = new]  BY <1>3, <2>1 DEF ProfGoes
  <2> QED BY <2>2, <2>3
<1> QED BY <1>2, <1>3

\* The row stays, and what a request does is in order.
LEMMA ProfSteady ==
    ASSUME ProfInv, NEW c \in ProfCalls, NEW new \in ProfRecords, profCall' = [profCall EXCEPT ![c] = new],
           UNCHANGED rowVars, badges' = badges \/ badges' = badges \cup {c},
           Known \subseteq Known', Known' \subseteq Known \cup {c}, ProfFits(c)',
           c \in badges' /\ profFaults' = 0 => new.step = "save" \/ (c \in badges /\ profCall[c].step # "save"),
           profFaults' = 0 => profFaults = 0
    PROVE  /\ profCall' \in [ProfCalls -> ProfRecords] /\ profCall'[c] = new
           /\ \A d \in ProfCalls \ {c} : profCall'[d] = profCall[d]
           /\ \A d \in ProfCalls : ProfFits(d)'
           /\ badges' \subseteq ProfCalls /\ BadgesAreShown' /\ removals \cup profile'.avatar \subseteq confirmed'
           /\ profile'.verified => badges' # {}
<1> USE DEF rowVars
<1>1. /\ profCall' \in [ProfCalls -> ProfRecords] /\ profCall'[c] = new
      /\ \A d \in ProfCalls \ {c} : profCall'[d] = profCall[d]
      /\ \A d \in ProfCalls \ {c} : ProfFits(d)'
  BY ProfTurns
<1>2. badges' \subseteq ProfCalls  BY DEF ProfInv, ProfTypeOK
<1>3. BadgesAreShown'  BY <1>2, <1>1 DEF ProfInv, ProfilesAreKept, BadgesAreShown, ProfsAt
<1> QED BY <1>1, <1>2, <1>3 DEF ProfInv

\* The row and the copies stay, and nobody has dropped what was to be dropped.
LEMMA CopiesStay ==
    ASSUME ProfInv, NEW c \in ProfCalls, UNCHANGED <<rowVars, keptVars>>,
           \A d \in ProfCalls \ {c} : profCall'[d] = profCall[d],
           profCall[c].step \in {"drop user", "drop username"} => profFaults' # 0,
           profFaults' = 0 => profFaults = 0
    PROVE  CopiesAgree'
<1> USE DEF rowVars, keptVars
<1> SUFFICES ASSUME profFaults' = 0 PROVE CopiesAgree'  BY DEF CopiesAgree
<1>1. \A k \in Keys : Dropping(k) \subseteq Dropping(k)'  BY DEF Dropping, ProfsAt
<1> QED BY <1>1 DEF ProfInv, ProfilesAreKept, CopiesAgree

\* The row, the copies, the objects and the settings stay; a request goes on, as it may.
LEMMA ProfIsQuiet ==
    ASSUME ProfInv, NEW c \in ProfCalls, NEW new \in ProfRecords, profCall' = [profCall EXCEPT ![c] = new],
           UNCHANGED <<rowVars, keptVars, bucketVars, settingVars>>, badges' = badges \/ badges' = badges \cup {c},
           ProfFits(c)', c \in badges' /\ profFaults' = 0 => new.step = "save" \/ (c \in badges /\ profCall[c].step # "save"),
           profCall[c].step \in {"drop user", "drop username"} => profFaults' # 0,
           profFaults' \in 0..MaxProfFaults, profFaults' = 0 => profFaults = 0
    PROVE  ProfInv'
<1> USE DEF rowVars, keptVars, bucketVars, settingVars
<1>1. /\ profCall' \in [ProfCalls -> ProfRecords] /\ \A d \in ProfCalls : ProfFits(d)'
      /\ \A d \in ProfCalls \ {c} : profCall'[d] = profCall[d]
      /\ badges' \subseteq ProfCalls /\ BadgesAreShown' /\ (profile'.verified => badges' # {})
  BY ProfSteady DEF Known
<1>2. ProfTypeOK'  BY <1>1 DEF ProfInv, ProfTypeOK, ProfRecords
<1>3. CopiesAgree'  BY <1>1, CopiesStay
<1>4. AvatarsExist'  BY DEF ProfInv, ProfilesAreKept, AvatarsExist
<1>5. SettingsAreKept' /\ Inserted' = Inserted  BY DEF ProfInv, ProfilesAreKept, SettingsAreKept, Inserted
<1> QED BY <1>1, <1>2, <1>3, <1>4, <1>5 DEF ProfInv, ProfilesAreKept

\* A request begins: it looks for a copy or a row, or stores or names an object.
LEMMA ProfBeginningKeeps ==
    ASSUME ProfInv, NEW c \in ProfCalls,
           \/ GetProfile(c) \/ UpdateProfile(c) \/ InitiateAvatarUpload(c) \/ UploadAvatar(c)
           \/ ConfirmAvatarUpload(c) \/ VerifyCreator(c) \/ GetPrivacySettings(c)
    PROVE  ProfInv'
<1>1. PICK w : w = Waits  OBVIOUS
<1>2. /\ w \in ProfRecords /\ w.step = "new" /\ w.kind = "get" /\ w.object = {} /\ w.read = FirstRow
      /\ FirstRow.avatar = {} /\ ~FirstRow.verified
  BY <1>1, ProfileAssumption DEF Waits, ProfRecords, ProfSteps, ProfKinds, Keys, FirstRow, ProfRows
<1>3. PICK new \in ProfRecords :
         /\ ProfBegins(c, new) /\ new.read = FirstRow
         /\ \/ /\ new.object = {} /\ new.step \in {"row", "insert default", "ended"}
               /\ new.kind \in {"get", "edit", "verify"}
            \/ new.object = {c} /\ new.step = "put" /\ new.kind \in {"presign", "upload"}
            \/ new.step = "stat" /\ new.kind = "confirm" /\ \E o \in ProfCalls : new.object = {o}
  <2> USE DEF ProfRecords, ProfSteps, ProfKinds, Keys
  <2>1. CASE GetProfile(c)
    <3>1. PICK k, new : /\ k \in Keys /\ ProfBegins(c, new)
                        /\ new = [w EXCEPT !.step = "row", !.key = k] \/ new = [w EXCEPT !.step = "ended"]
      BY <1>1, <2>1 DEF GetProfile, Done
    <3>2. new \in ProfRecords /\ new.read = FirstRow /\ new.object = {} /\ new.step \in {"row", "ended"} /\ new.kind = "get"
      BY <1>2, <3>1
    <3> QED BY <3>1, <3>2
  <2>2. CASE UpdateProfile(c)
    <3>1. PICK n, new : n \in ProfNames /\ ProfBegins(c, new) /\ new = [w EXCEPT !.step = "row", !.kind = "edit", !.name = n]
      BY <1>1, <2>2 DEF UpdateProfile
    <3>2. new \in ProfRecords /\ new.read = FirstRow /\ new.object = {} /\ new.step = "row" /\ new.kind = "edit"
      BY <1>2, <3>1
    <3> QED BY <3>1, <3>2
  <2>3. CASE InitiateAvatarUpload(c) \/ UploadAvatar(c)
    <3>1. PICK kind, new :
             kind \in {"presign", "upload"} /\ ProfBegins(c, new) /\ new = [w EXCEPT !.step = "put", !.kind = kind, !.object = {c}]
      BY <1>1, <2>3 DEF InitiateAvatarUpload, UploadAvatar
    <3>2. new \in ProfRecords /\ new.read = FirstRow /\ new.object = {c} /\ new.step = "put" /\ new.kind = kind
      BY <1>2, <3>1
    <3> QED BY <3>1, <3>2
  <2>4. CASE ConfirmAvatarUpload(c)
    <3>1. PICK o, new :
             o \in ProfCalls /\ ProfBegins(c, new) /\ new = [w EXCEPT !.step = "stat", !.kind = "confirm", !.object = {o}]
      BY <1>1, <2>4 DEF ConfirmAvatarUpload
    <3>2. new \in ProfRecords /\ new.read = FirstRow /\ new.object = {o} /\ new.step = "stat" /\ new.kind = "confirm"
      BY <1>2, <3>1
    <3> QED BY <3>1, <3>2
  <2>5. CASE VerifyCreator(c)
    <3>1. PICK new : ProfBegins(c, new) /\ new = [w EXCEPT !.step = "row", !.kind = "verify"]
      BY <1>1, <2>5 DEF VerifyCreator
    <3>2. new \in ProfRecords /\ new.read = FirstRow /\ new.object = {} /\ new.step = "row" /\ new.kind = "verify"
      BY <1>2, <3>1
    <3> QED BY <3>1, <3>2
  <2>6. CASE GetPrivacySettings(c)
    <3>1. PICK new : /\ ProfBegins(c, new)
                     /\ new = [w EXCEPT !.step = "insert default"] \/ new = [w EXCEPT !.step = "ended"]
      BY <1>1, <2>6 DEF GetPrivacySettings, Done
    <3>2. /\ new \in ProfRecords /\ new.read = FirstRow /\ new.object = {}
          /\ new.step \in {"insert default", "ended"} /\ new.kind = "get"
      BY <1>2, <3>1
    <3> QED BY <3>1, <3>2
  <2> QED BY <2>1, <2>2, <2>3, <2>4, <2>5, <2>6
<1>4. /\ profCall[c].step = "new" /\ profCall' = [profCall EXCEPT ![c] = new]
      /\ UNCHANGED <<rowVars, keptVars, bucketVars, settingVars, badges, profFaults>>
  BY <1>3 DEF ProfBegins, ProfAt
<1>5. profCall'[c] = new /\ c \notin Known /\ c \notin badges
  BY <1>4 DEF ProfInv, ProfTypeOK, ProfFits
<1>6. new.object \in Few /\ FirstRow.avatar \in Few
  BY <1>2, <1>3, FewAreFew
<1>7. Known' = Known /\ UNCHANGED <<confirmed, badges>>  BY <1>4 DEF Known, rowVars, bucketVars
<1>8. ProfFits(c)'  BY <1>2, <1>3, <1>5, <1>6, <1>7 DEF ProfFits
<1>9. profFaults \in 0..MaxProfFaults  BY DEF ProfInv, ProfTypeOK
<1> QED BY <1>4, <1>5, <1>8, <1>9, ProfIsQuiet

\* A request finds its object, reads the row, grants its badge, or fails.
LEMMA ProfReadingKeeps ==
    ASSUME ProfInv, NEW c \in ProfCalls,
           StatObject(c) \/ GetProfileByUserID(c) \/ CreateVerificationBadge(c)
    PROVE  ProfInv'
<1>1. /\ ProfFits(c) /\ profCall[c] \in ProfRecords /\ profFaults \in 0..MaxProfFaults /\ MaxProfFaults \in Nat
      /\ profile \in ProfRows /\ profile.avatar \in Few /\ profile.avatar \subseteq confirmed
      /\ profile.verified => badges # {}
  BY ProfileAssumption DEF ProfInv, ProfTypeOK, ProfRecords, Few, ProfRows
<1>2. {} \in Few /\ FirstRow.avatar = {} /\ ~FirstRow.verified  BY FewAreFew DEF FirstRow
<1>3. UNCHANGED <<rowVars, keptVars, bucketVars, settingVars>> /\ Known' = Known /\ confirmed' = confirmed
  BY DEF StatObject, GetProfileByUserID, CreateVerificationBadge, Known, rowVars, bucketVars
<1>4. CASE StatObject(c)
  <2>1. PICK step \in {"row", "ended"} :
           ProfGoes(c, step) /\ profCall[c].step = "stat" /\ (step = "row" => profCall[c].object \subseteq Known)
    BY <1>4 DEF StatObject, ProfAt, Known
  <2>2. step \in ProfSteps /\ UNCHANGED <<badges, profFaults>>  BY <1>4 DEF ProfSteps, StatObject
  <2>3. PICK new \in ProfRecords :
           /\ profCall' = [profCall EXCEPT ![c] = new] /\ new.step = step
           /\ \/ step = "ended" /\ new.object = {} /\ new.read = FirstRow
              \/ /\ new.kind = profCall[c].kind /\ new.object = profCall[c].object /\ new.read = profCall[c].read
    BY <2>1, <2>2, ProfGoing
  <2>4. profCall'[c] = new  BY <2>3 DEF ProfInv, ProfTypeOK
  <2>6. c \notin badges  BY <1>1, <2>1 DEF ProfFits
  <2>5. ProfFits(c)'  BY <1>1, <1>2, <1>3, <2>1, <2>2, <2>3, <2>4, <2>6 DEF ProfFits
  <2> QED BY <1>1, <1>3, <2>1, <2>2, <2>3, <2>4, <2>5, <2>6, ProfIsQuiet
<1>5. CASE GetProfileByUserID(c)
  <2>1. PICK new : new = [profCall[c] EXCEPT !.read = profile, !.step = AfterRow(profCall[c].kind)]  OBVIOUS
  <2>2. profCall' = [profCall EXCEPT ![c] = new] /\ profCall[c].step = "row" /\ UNCHANGED <<badges, profFaults>>
    BY <1>5, <2>1 DEF GetProfileByUserID, ProfAt
  <2>3. /\ new.step = AfterRow(profCall[c].kind) /\ new.read = profile /\ new.kind = profCall[c].kind
        /\ new.object = profCall[c].object /\ new \in ProfRecords
    BY <1>1, <2>1 DEF ProfRecords, AfterRow, ProfSteps
  <2>4. profCall'[c] = new  BY <2>2 DEF ProfInv, ProfTypeOK
  <2>6. c \notin badges  BY <1>1, <2>2 DEF ProfFits
  <2>5. ProfFits(c)'  BY <1>1, <1>3, <2>6, <2>2, <2>3, <2>4 DEF ProfFits, AfterRow
  <2> QED BY <1>1, <1>3, <2>2, <2>3, <2>5, <2>6, ProfIsQuiet
<1>6. CASE CreateVerificationBadge(c)
  <2>1. badges' = badges \cup {c} /\ ProfGoes(c, "save") /\ profCall[c].step = "badge" /\ profFaults' = profFaults
    BY <1>6 DEF CreateVerificationBadge, ProfAt
  <2>2. PICK new \in ProfRecords :
           /\ profCall' = [profCall EXCEPT ![c] = new] /\ new.step = "save"
           /\ new.kind = profCall[c].kind /\ new.object = profCall[c].object /\ new.read = profCall[c].read
    <3>1. "save" \in ProfSteps  BY DEF ProfSteps
    <3> QED BY <2>1, <3>1, ProfGoing
  <2>3. profCall'[c] = new  BY <2>2 DEF ProfInv, ProfTypeOK
  <2>4. ProfFits(c)'  BY <1>1, <1>3, <2>1, <2>2, <2>3 DEF ProfFits
  <2> QED BY <1>1, <1>3, <2>1, <2>2, <2>4, ProfIsQuiet
<1> QED BY <1>4, <1>5, <1>6

\* A call fails: what it would have done is left undone.
LEMMA ProfFailureKeeps ==
    ASSUME ProfInv, NEW c \in ProfCalls, ProfCallFails(c)
    PROVE  ProfInv'
<1>1. PICK step \in ProfSteps :
         /\ ProfGoes(c, step)
         /\ step = "ended" \/ (step = "drop username" /\ profCall[c].step = "drop user")
  BY DEF ProfCallFails, ProfAt, ProfSteps
<1>2. step \in ProfSteps /\ ProfGoes(c, step)  BY <1>1
<1>3. /\ UNCHANGED <<rowVars, keptVars, bucketVars, settingVars>> /\ Known' = Known /\ confirmed' = confirmed
      /\ badges' = badges /\ profCall[c].step \notin {"new", "ended"}
  BY DEF ProfCallFails, Known, rowVars, bucketVars
<1>4. PICK new \in ProfRecords :
         /\ profCall' = [profCall EXCEPT ![c] = new] /\ new.step = step
         /\ \/ step = "ended" /\ new.object = {} /\ new.read = FirstRow
            \/ /\ new.kind = profCall[c].kind /\ new.object = profCall[c].object /\ new.read = profCall[c].read
  BY <1>2, ProfGoing
<1>5. profCall'[c] = new /\ ProfFits(c)  BY <1>4 DEF ProfInv, ProfTypeOK
<1>6. {} \in Few /\ FirstRow.avatar = {} /\ ~FirstRow.verified  BY FewAreFew DEF FirstRow
<1>7. ProfFits(c)'  BY <1>1, <1>3, <1>4, <1>5, <1>6 DEF ProfFits
<1>8. profFaults' # 0 /\ profFaults' \in 0..MaxProfFaults
  <2>1. profFaults < MaxProfFaults /\ profFaults' = profFaults + 1  BY DEF ProfCallFails
  <2> QED BY <2>1, ProfNumbers
<1> QED BY <1>3, <1>4, <1>7, <1>8, ProfIsQuiet

\* An object is stored that nobody has named.
LEMMA PutObjectKeeps == ASSUME ProfInv, NEW c \in ProfCalls, PutObject(c) PROVE ProfInv'
<1>1. PICK step \in ProfSteps : ProfGoes(c, step) /\ (step = "ended" \/ (step = "stat" /\ profCall[c].kind = "upload"))
  BY DEF PutObject, ProfSteps
<1>2. /\ profCall[c].step = "put" /\ objects' = objects \cup profCall[c].object
      /\ UNCHANGED <<rowVars, keptVars, settingVars, removals, badges, profFaults>>
  BY DEF PutObject, ProfAt
<1>3. /\ ProfFits(c) /\ profCall[c].object = {c} /\ c \notin Known /\ c \notin badges
      /\ profCall[c].object \in Few /\ profCall[c].read.avatar \in Few
  BY <1>2 DEF ProfInv, ProfFits
<1>4. PICK new \in ProfRecords :
         /\ profCall' = [profCall EXCEPT ![c] = new] /\ new.step = step
         /\ \/ step = "ended" /\ new.object = {} /\ new.read = FirstRow
            \/ /\ new.kind = profCall[c].kind /\ new.object = profCall[c].object /\ new.read = profCall[c].read
  BY <1>1, ProfGoing
<1>5. Known \subseteq Known' /\ Known' \subseteq Known \cup {c} /\ confirmed' = confirmed
  BY <1>2, <1>3 DEF Known, rowVars
<1>6. profCall'[c] = new  BY <1>4 DEF ProfInv, ProfTypeOK
<1>7. {} \in Few /\ FirstRow.avatar = {} /\ ~FirstRow.verified  BY FewAreFew DEF FirstRow
<1>8. ProfFits(c)'  BY <1>1, <1>2, <1>3, <1>4, <1>5, <1>6, <1>7 DEF ProfFits
<1>9. /\ profCall' \in [ProfCalls -> ProfRecords] /\ \A d \in ProfCalls : ProfFits(d)'
      /\ \A d \in ProfCalls \ {c} : profCall'[d] = profCall[d]
      /\ badges' \subseteq ProfCalls /\ BadgesAreShown' /\ (profile'.verified => badges' # {})
  BY <1>2, <1>3, <1>4, <1>5, <1>8, ProfSteady
<1> USE <1>2 DEF rowVars, keptVars, settingVars
<1>10. ProfTypeOK'  BY <1>3, <1>9 DEF ProfInv, ProfTypeOK, ProfRecords
<1>11. CopiesAgree'  BY <1>9, CopiesStay
<1>12. AvatarsExist'  BY <1>3 DEF ProfInv, ProfilesAreKept, AvatarsExist, Known
<1>13. SettingsAreKept' /\ Inserted' = Inserted  BY DEF ProfInv, ProfilesAreKept, SettingsAreKept, Inserted
<1> QED BY <1>9, <1>10, <1>11, <1>12, <1>13 DEF ProfInv, ProfilesAreKept

\* Where a request that touches only copies or settings goes.
Onwards(from, step) ==
    /\ from \in {"new", "keep", "drop user", "drop username", "insert default", "insert chosen"}
    /\ \/ step = "ended" \/ (step = "drop username" /\ from = "drop user")
       \/ (step = "insert chosen" /\ from = "new")

\* A request that was to keep a copy, to drop one or to insert settings goes on or ends.
LEMMA ProfLeaves ==
    ASSUME ProfInv, NEW c \in ProfCalls, NEW step \in ProfSteps, ProfGoes(c, step),
           Onwards(profCall[c].step, step),
           UNCHANGED <<rowVars, bucketVars, badges, profFaults>>
    PROVE  /\ \A d \in ProfCalls \ {c} : profCall'[d] = profCall[d]
           /\ profCall' \in [ProfCalls -> ProfRecords] /\ profCall'[c].step = step /\ \A d \in ProfCalls : ProfFits(d)'
           /\ BadgesAreShown' /\ AvatarsExist'
<1>1. PICK new \in ProfRecords :
         /\ profCall' = [profCall EXCEPT ![c] = new] /\ new.step = step
         /\ \/ step = "ended" /\ new.object = {} /\ new.read = FirstRow
            \/ /\ new.kind = profCall[c].kind /\ new.object = profCall[c].object /\ new.read = profCall[c].read
  BY ProfGoing
<1>2. profCall'[c] = new /\ ProfFits(c)  BY <1>1 DEF ProfInv, ProfTypeOK
<1>3. {} \in Few /\ FirstRow.avatar = {} /\ ~FirstRow.verified  BY FewAreFew DEF FirstRow
<1>4. Known' = Known /\ UNCHANGED <<badges, confirmed>>  BY DEF Known, rowVars, bucketVars
<1>5. ProfFits(c)'  BY <1>1, <1>2, <1>3, <1>4 DEF ProfFits, Onwards
<1>6. AvatarsExist'  BY DEF ProfInv, ProfilesAreKept, AvatarsExist, rowVars, bucketVars
<1> QED BY <1>1, <1>4, <1>5, <1>6, ProfSteady DEF Onwards

\* What stays when only copies or settings change.
LEMMA ProfRest ==
    ASSUME ProfInv, UNCHANGED <<rowVars, bucketVars, badges, profFaults>>,
           profCall' \in [ProfCalls -> ProfRecords], \A d \in ProfCalls : ProfFits(d)',
           copyOf' \in [Keys -> SUBSET ProfRows], \A k \in Keys : Cardinality(copyOf'[k]) <= 1, lateCopy' \in BOOLEAN,
           settings' \in [ProfCalls -> {"none", "default", "chosen"}], chosen' \in BOOLEAN, madeRows' \in BOOLEAN,
           chosen' => Inserted' # {}, CopiesAgree', AvatarsExist', BadgesAreShown', SettingsAreKept'
    PROVE  ProfInv'
<1>1. ProfTypeOK'  BY DEF ProfInv, ProfTypeOK, ProfRecords, rowVars, bucketVars
<1> QED BY <1>1 DEF ProfInv, ProfilesAreKept, rowVars, bucketVars

\* The row that was read is kept as a copy.
LEMMA CachingKeeps == ASSUME ProfInv, NEW c \in ProfCalls, cacheProfile(c) PROVE ProfInv'
<1>1. PICK k \in Keys, was \in ProfRows :
         /\ k = profCall[c].key /\ was = profCall[c].read /\ copyOf' = [copyOf EXCEPT ![k] = {was}]
         /\ lateCopy' = (lateCopy \/ was # profile)
  <2>1. profCall[c].key \in Keys /\ profCall[c].read \in ProfRows  BY DEF ProfInv, ProfTypeOK
  <2> QED BY <2>1, Zenon DEF cacheProfile
<1>2. /\ profCall[c].step = "keep" /\ ProfGoes(c, "ended") /\ "ended" \in ProfSteps
      /\ UNCHANGED <<rowVars, bucketVars, settingVars, badges, profFaults>>
  BY DEF cacheProfile, ProfAt, ProfSteps
<1>3. /\ profCall' \in [ProfCalls -> ProfRecords] /\ \A d \in ProfCalls : ProfFits(d)'
      /\ \A d \in ProfCalls \ {c} : profCall'[d] = profCall[d]
      /\ BadgesAreShown' /\ AvatarsExist'
  BY <1>2, ProfLeaves DEF Onwards
<1>4. copyOf' \in [Keys -> SUBSET ProfRows] /\ lateCopy' \in BOOLEAN  BY <1>1 DEF ProfInv, ProfTypeOK
<1>5. ASSUME NEW h \in Keys PROVE Cardinality(copyOf'[h]) <= 1
  <2>1. CASE h = k
    <3>1. copyOf'[h] = {was}  BY <1>1, <2>1 DEF ProfInv, ProfTypeOK
    <3>2. Cardinality({was}) = 1  BY FS_Singleton
    <3> QED BY <3>1, <3>2
  <2>2. CASE h # k  BY <1>1, <2>2 DEF ProfInv, ProfTypeOK
  <2> QED BY <2>1, <2>2
<1>6. CopiesAgree'
  BY <1>1, <1>2, <1>3 DEF CopiesAgree, rowVars, Dropping, ProfsAt, ProfInv, ProfilesAreKept, ProfTypeOK
<1>7. SettingsAreKept' /\ Inserted' = Inserted /\ UNCHANGED settingVars
  BY <1>2 DEF ProfInv, ProfilesAreKept, SettingsAreKept, Inserted, settingVars
<1> QED BY <1>2, <1>3, <1>4, <1>5, <1>6, <1>7, ProfRest DEF ProfInv, ProfTypeOK, settingVars

\* One copy is dropped, then the other.
LEMMA DroppingKeeps == ASSUME ProfInv, NEW c \in ProfCalls, invalidateProfileCaches(c) PROVE ProfInv'
<1>1. PICK step \in ProfSteps :
         /\ ProfGoes(c, step)
         /\ \/ step = "ended" /\ profCall[c].step = "drop username"
            \/ step = "drop username" /\ profCall[c].step = "drop user"
  BY DEF invalidateProfileCaches, ProfSteps
<1>2. /\ \A k \in Keys : copyOf'[k] = IF k \in Drops(profCall[c].step) THEN {} ELSE copyOf[k]
      /\ UNCHANGED <<rowVars, bucketVars, settingVars, lateCopy, badges, profFaults>>
      /\ copyOf' \in [Keys -> SUBSET ProfRows]
  BY DEF invalidateProfileCaches, ProfInv, ProfTypeOK
<1>3. /\ profCall' \in [ProfCalls -> ProfRecords] /\ \A d \in ProfCalls : ProfFits(d)'
      /\ \A d \in ProfCalls \ {c} : profCall'[d] = profCall[d]
      /\ profCall'[c].step = step /\ BadgesAreShown' /\ AvatarsExist'
  BY <1>1, <1>2, ProfLeaves DEF Onwards
<1>4. ASSUME NEW k \in Keys PROVE Cardinality(copyOf'[k]) <= 1
  <2>1. Cardinality({}) = 0  BY FS_EmptySet
  <2>2. Cardinality(copyOf[k]) <= 1  BY DEF ProfInv, ProfTypeOK
  <2>3. copyOf'[k] = {} \/ copyOf'[k] = copyOf[k]  BY <1>2
  <2>4. CASE copyOf'[k] = {}  BY <2>1, <2>4
  <2>5. CASE copyOf'[k] = copyOf[k]  BY <2>2, <2>5
  <2> QED BY <2>3, <2>4, <2>5
<1>5. CopiesAgree'
  BY <1>2, <1>1, <1>3 DEF CopiesAgree, rowVars, Dropping, ProfsAt, Drops, Keys, ProfInv, ProfilesAreKept
<1>6. SettingsAreKept' /\ Inserted' = Inserted /\ UNCHANGED settingVars
  BY <1>2 DEF ProfInv, ProfilesAreKept, SettingsAreKept, Inserted, settingVars
<1> QED BY <1>2, <1>3, <1>4, <1>5, <1>6, ProfRest DEF ProfInv, ProfTypeOK, settingVars

\* The settings that are there are changed, or new ones are to be inserted.
LEMMA ChoosingKeeps == ASSUME ProfInv, NEW c \in ProfCalls, UpdatePrivacySettings(c) PROVE ProfInv'
<1>1. PICK step \in ProfSteps : ProfGoes(c, step) /\ (step = "ended" \/ step = "insert chosen")
  BY DEF UpdatePrivacySettings, ProfSteps
<1>2. /\ profCall[c].step = "new" /\ chosen' = (chosen \/ Inserted # {})
      /\ settings' = [d \in ProfCalls |-> IF d \in Inserted THEN "chosen" ELSE "none"]
      /\ UNCHANGED <<rowVars, keptVars, bucketVars, madeRows, badges, profFaults>>
  BY DEF UpdatePrivacySettings, ProfAt
<1>3. /\ profCall' \in [ProfCalls -> ProfRecords] /\ \A d \in ProfCalls : ProfFits(d)'
      /\ \A d \in ProfCalls \ {c} : profCall'[d] = profCall[d]
      /\ BadgesAreShown' /\ AvatarsExist'
  BY <1>1, <1>2, ProfLeaves DEF Onwards
<1>4. CopiesAgree'  BY <1>2, <1>3, CopiesStay
<1>5. Inserted' = Inserted  BY <1>2 DEF Inserted
<1>6. SettingsAreKept' /\ (chosen' => Inserted' # {})
  BY <1>2, <1>5 DEF ProfInv, ProfilesAreKept, SettingsAreKept, Inserted
<1>7. settings' \in [ProfCalls -> {"none", "default", "chosen"}] /\ chosen' \in BOOLEAN
  BY <1>2 DEF ProfInv, ProfTypeOK
<1> QED BY <1>2, <1>3, <1>4, <1>6, <1>7, ProfRest DEF ProfInv, ProfTypeOK, keptVars

\* Settings are inserted, the first or more of them.
LEMMA CreatingSettingsKeeps == ASSUME ProfInv, NEW c \in ProfCalls, CreatePrivacySettings(c) PROVE ProfInv'
<1>1. PICK made \in {"default", "chosen"} :
         /\ settings' = [settings EXCEPT ![c] = made] /\ chosen' = (chosen \/ made = "chosen")
         /\ madeRows' = (madeRows \/ Inserted # {})
  BY DEF CreatePrivacySettings
<1>2. /\ profCall[c].step \in {"insert default", "insert chosen"} /\ ProfGoes(c, "ended") /\ "ended" \in ProfSteps
      /\ UNCHANGED <<rowVars, keptVars, bucketVars, badges, profFaults>>
  BY DEF CreatePrivacySettings, ProfSteps
<1>3. /\ profCall' \in [ProfCalls -> ProfRecords] /\ \A d \in ProfCalls : ProfFits(d)'
      /\ \A d \in ProfCalls \ {c} : profCall'[d] = profCall[d]
      /\ BadgesAreShown' /\ AvatarsExist'
  BY <1>2, ProfLeaves DEF Onwards
<1>4. CopiesAgree'  BY <1>2, <1>3, CopiesStay
<1>5. settings' \in [ProfCalls -> {"none", "default", "chosen"}] /\ settings'[c] = made /\ Inserted' = Inserted \cup {c}
  BY <1>1 DEF ProfInv, ProfTypeOK, Inserted
<1>6. SettingsAreKept'
  <2> SUFFICES ASSUME ~madeRows'
               PROVE  Cardinality(Inserted') <= 1 /\ (chosen' => \A d \in Inserted' : settings'[d] = "chosen")
    BY DEF SettingsAreKept
  <2>1. Inserted = {} /\ Inserted' = {c} /\ ~chosen  BY <1>1, <1>5 DEF ProfInv
  <2>2. Cardinality({c}) = 1  BY FS_Singleton
  <2>3. Cardinality(Inserted') <= 1  BY <2>1, <2>2
  <2>4. chosen' => settings'[c] = "chosen"  BY <1>1, <1>5, <2>1
  <2> QED BY <2>1, <2>3, <2>4
<1>7. chosen' \in BOOLEAN /\ madeRows' \in BOOLEAN /\ Inserted' # {}  BY <1>1, <1>5 DEF ProfInv, ProfTypeOK
<1> QED BY <1>2, <1>3, <1>4, <1>5, <1>6, <1>7, ProfRest DEF ProfInv, ProfTypeOK, keptVars

\* The row is written: it is overtaken if another was written since it was read.
LEMMA SavingKeeps == ASSUME ProfInv, NEW c \in ProfCalls, SaveRow(c) PROVE ProfInv'
<1>1. PICK was \in ProfRows, object \in SUBSET ProfCalls, kind \in ProfKinds, name \in ProfNames :
         /\ was = profCall[c].read /\ object = profCall[c].object /\ kind = profCall[c].kind
         /\ name = profCall[c].name
  BY DEF ProfInv, ProfTypeOK
<1>2. /\ profCall[c].step = "save" /\ ProfFits(c) /\ profile' = Altered(profCall[c])
      /\ removals' = removals \cup (IF kind \in {"upload", "confirm"} THEN was.avatar \ object ELSE {})
      /\ confirmed' = confirmed \cup profile'.avatar /\ overtaken' = (overtaken \/ profile # was)
      /\ returned' = (returned \/ (profile'.avatar \cap confirmed # {} /\ profile'.avatar # profile.avatar))
      /\ ProfGoes(c, "drop user") /\ "drop user" \in ProfSteps
      /\ UNCHANGED <<keptVars, settingVars, objects, badges, profFaults>>
  BY <1>1 DEF ProfInv, SaveRow, ProfAt, Replaced, ProfSteps
<1>3. /\ kind \in {"edit", "upload", "confirm", "verify"} /\ (c \in badges <=> kind = "verify")
      /\ was.avatar \in Few /\ object \in Few /\ was.avatar \subseteq confirmed
      /\ (was.verified => badges # {}) /\ (kind \in {"upload", "confirm"} => object \subseteq Known)
  BY <1>1, <1>2 DEF ProfFits, ProfKinds
<1>4. PICK row \in ProfRows :
         /\ row = profile'
         /\ \/ kind = "edit" /\ row.avatar = was.avatar /\ row.verified = was.verified
            \/ kind = "verify" /\ row.avatar = was.avatar /\ row.verified
            \/ kind \in {"upload", "confirm"} /\ row.avatar = object /\ row.verified = was.verified
  <2>1. CASE kind = "edit"
    <3>1. PICK row : row = [was EXCEPT !.name = name]  OBVIOUS
    <3>2. row \in ProfRows /\ row.avatar = was.avatar /\ row.verified = was.verified  BY <1>1, <3>1 DEF ProfRows
    <3>3. row = profile'  BY <1>1, <1>2, <2>1, <3>1 DEF Altered
    <3> QED BY <2>1, <3>2, <3>3
  <2>2. CASE kind = "verify"
    <3>1. PICK row : row = [was EXCEPT !.verified = TRUE]  OBVIOUS
    <3>2. row \in ProfRows /\ row.avatar = was.avatar /\ row.verified  BY <1>1, <3>1 DEF ProfRows
    <3>3. row = profile'  BY <1>1, <1>2, <2>2, <3>1 DEF Altered
    <3> QED BY <2>2, <3>2, <3>3
  <2>3. CASE kind \in {"upload", "confirm"}
    <3>1. PICK row : row = [was EXCEPT !.avatar = object]  OBVIOUS
    <3>2. row \in ProfRows /\ row.avatar = object /\ row.verified = was.verified  BY <1>1, <3>1 DEF ProfRows
    <3>3. row = profile'  BY <1>1, <1>2, <2>3, <3>1 DEF Altered
    <3> QED BY <2>3, <3>2, <3>3
  <2> QED BY <1>3, <2>1, <2>2, <2>3
<1>5. PICK gone : gone = IF kind \in {"upload", "confirm"} THEN was.avatar \ object ELSE {}  OBVIOUS
<1>6. /\ removals' = removals \cup gone /\ gone \subseteq was.avatar /\ was.avatar \subseteq row.avatar \cup gone
      /\ gone \cap row.avatar = {} /\ row.avatar \in Few /\ row.avatar \subseteq Known
      /\ confirmed' = confirmed \cup row.avatar /\ (row.verified => badges # {})
      /\ returned' = (returned \/ (row.avatar \cap confirmed # {} /\ row.avatar # profile.avatar))
  BY <1>2, <1>3, <1>4, <1>5 DEF Known
<1>7. PICK new \in ProfRecords :
         /\ profCall' = [profCall EXCEPT ![c] = new] /\ new.step = "drop user"
         /\ new.object = object /\ new.read = was
  <2>1. PICK step \in ProfSteps : step = "drop user" /\ ProfGoes(c, step)  BY <1>2
  <2>2. ProfGoes(c, step)  BY <2>1
  <2>3. PICK new \in ProfRecords :
           /\ profCall' = [profCall EXCEPT ![c] = new] /\ new.step = step
           /\ \/ step = "ended" /\ new.object = {} /\ new.read = FirstRow
              \/ new.object = object /\ new.read = was
    BY <1>1, <2>2, ProfGoing
  <2> QED BY <2>1, <2>3
<1>8. Known' = Known /\ confirmed \subseteq confirmed' /\ badges' = badges
  BY <1>2, <1>6 DEF Known
<1>9. /\ profCall' \in [ProfCalls -> ProfRecords] /\ profCall'[c] = new
      /\ \A d \in ProfCalls \ {c} : profCall'[d] = profCall[d]
      /\ \A d \in ProfCalls \ {c} : ProfFits(d)'
  BY <1>7, <1>8, ProfTurns
<1>10. ProfFits(c)'  BY <1>3, <1>7, <1>8, <1>9 DEF ProfFits
<1>11. /\ {confirmed, removals, objects} \subseteq SUBSET ProfCalls /\ removals \cup profile.avatar \subseteq confirmed
       /\ AvatarsExist /\ BadgesAreShown
  BY DEF ProfInv, ProfTypeOK, ProfilesAreKept
<1>12. ProfTypeOK'
  <2>1. row.avatar \subseteq ProfCalls /\ Cardinality(row.avatar) <= 1 /\ gone \subseteq ProfCalls
    BY <1>6, <1>1 DEF Few, ProfRows
  <2>2. overtaken' \in BOOLEAN /\ returned' \in BOOLEAN  BY <1>2 DEF ProfInv, ProfTypeOK
  <2>3. /\ profile' \in ProfRows /\ Cardinality(profile'.avatar) <= 1 /\ confirmed' \subseteq ProfCalls
        /\ removals' \subseteq ProfCalls
    BY <1>4, <1>6, <1>11, <2>1
  <2> QED BY <1>2, <1>9, <2>2, <2>3 DEF ProfInv, ProfTypeOK, ProfRecords, keptVars, settingVars
<1>13. CopiesAgree'  BY <1>7, <1>9 DEF Dropping, ProfsAt, CopiesAgree
<1>14. AvatarsExist'  BY <1>2, <1>4, <1>6, <1>11 DEF AvatarsExist, Known
<1>15. BadgesAreShown'
  <2> SUFFICES ASSUME profFaults = 0, badges \ ProfsAt({"save"})' # {}, ~overtaken' PROVE row.verified
    BY <1>2, <1>4, <1>6 DEF BadgesAreShown
  <2>1. PICK d \in badges : d \notin ProfsAt({"save"})'  OBVIOUS
  <2>2. CASE d = c  BY <1>3, <1>4, <2>1, <2>2
  <2>3. CASE d # c  BY <1>9, <2>1, <2>3, <1>2, <1>11, <1>4 DEF ProfsAt, BadgesAreShown
  <2> QED BY <2>2, <2>3
<1>16. SettingsAreKept' /\ Inserted' = Inserted /\ (chosen' => Inserted' # {})
  BY <1>2 DEF ProfInv, ProfilesAreKept, SettingsAreKept, Inserted, settingVars
<1>17. removals' \cup profile'.avatar \subseteq confirmed' /\ (profile'.verified => badges' # {})
  BY <1>2, <1>3, <1>4, <1>6, <1>11
<1> QED BY <1>9, <1>10, <1>12, <1>13, <1>14, <1>15, <1>16, <1>17 DEF ProfInv, ProfilesAreKept

\* A replaced object is removed, or stays because its removal fails.
LEMMA RemovingKeeps == ASSUME ProfInv, NEW o \in ProfCalls, RemoveObject(o) PROVE ProfInv'
<1>1. /\ o \in removals /\ removals' = removals \ {o} /\ o \in confirmed
      /\ UNCHANGED <<rowVars, keptVars, settingVars, badges, profCall>>
  BY DEF RemoveObject, ProfInv
<1>2. \/ objects' = objects \ {o} /\ profFaults' = profFaults
      \/ objects' = objects /\ profFaults' # 0 /\ profFaults' \in 0..MaxProfFaults
  BY ProfNumbers DEF RemoveObject
<1>3. /\ objects' \subseteq objects /\ objects \subseteq objects' \cup {o}
      /\ profFaults' \in 0..MaxProfFaults /\ (profFaults' = 0 => profFaults = 0 /\ objects' = objects \ {o})
  BY <1>2 DEF ProfInv, ProfTypeOK
<1> USE <1>1 DEF rowVars, keptVars, settingVars
<1>4. Known' = Known  BY <1>3 DEF Known
<1>5. \A c \in ProfCalls : ProfFits(c)'
  <2> TAKE c \in ProfCalls
  <2> QED BY <1>4 DEF ProfInv, ProfFits
<1>6. ProfTypeOK'  BY <1>3 DEF ProfInv, ProfTypeOK
<1>7. CopiesAgree'  BY <1>3 DEF Dropping, ProfsAt, ProfInv, ProfilesAreKept, CopiesAgree
<1>8. AvatarsExist'  BY <1>3 DEF ProfInv, ProfilesAreKept, AvatarsExist
<1>9. BadgesAreShown'  BY <1>3 DEF ProfInv, ProfilesAreKept, BadgesAreShown, ProfsAt
<1>10. SettingsAreKept' /\ Inserted' = Inserted  BY DEF ProfInv, ProfilesAreKept, SettingsAreKept, Inserted
<1> QED BY <1>5, <1>6, <1>7, <1>8, <1>9, <1>10 DEF ProfInv, ProfilesAreKept

\* A copy expires.
LEMMA ExpiryKeeps == ASSUME ProfInv, NEW k \in Keys, CopyExpires(k) PROVE ProfInv'
<1>1. /\ copyOf' = [copyOf EXCEPT ![k] = {}]
      /\ UNCHANGED <<rowVars, bucketVars, settingVars, lateCopy, badges, profCall, profFaults>>
  BY DEF CopyExpires
<1> USE <1>1 DEF rowVars, bucketVars, settingVars
<1>2. Known' = Known  BY DEF Known
<1>3. \A c \in ProfCalls : ProfFits(c)'
  <2> TAKE c \in ProfCalls
  <2> QED BY <1>2 DEF ProfInv, ProfFits
<1>4. copyOf' \in [Keys -> SUBSET ProfRows] /\ \A h \in Keys : copyOf'[h] = copyOf[h] \/ copyOf'[h] = {}
  BY DEF ProfInv, ProfTypeOK
<1>5. ASSUME NEW h \in Keys PROVE Cardinality(copyOf'[h]) <= 1  BY FS_EmptySet, <1>4 DEF ProfInv, ProfTypeOK
<1>6. CopiesAgree'  BY <1>4 DEF Dropping, ProfsAt, ProfInv, ProfilesAreKept, CopiesAgree
<1>7. AvatarsExist' /\ BadgesAreShown'
  BY DEF ProfInv, ProfilesAreKept, AvatarsExist, BadgesAreShown, ProfsAt
<1>8. SettingsAreKept' /\ Inserted' = Inserted  BY DEF ProfInv, ProfilesAreKept, SettingsAreKept, Inserted
<1> QED BY <1>3, <1>4, <1>5, <1>6, <1>7, <1>8, ProfRest DEF ProfInv, ProfTypeOK, ProfRecords

\* Nothing has been asked for.
LEMMA ProfInvAtFirst == ProfInit => ProfInv
<1> SUFFICES ASSUME ProfInit PROVE ProfInv  OBVIOUS
<1> USE ProfileAssumption
<1>1. /\ FirstRow \in ProfRows /\ FirstRow.avatar = {} /\ ~FirstRow.verified /\ Waits \in ProfRecords
      /\ Waits.step = "new" /\ Waits.object = {} /\ Waits.read = FirstRow
  BY DEF FirstRow, ProfRows, Waits, ProfRecords, ProfSteps, ProfKinds, Keys
<1>2. Cardinality({}) = 0  BY FS_EmptySet
<1>3. ProfTypeOK
  <2>1. /\ profile = FirstRow /\ copyOf = [k \in Keys |-> {}]
        /\ objects = {} /\ removals = {} /\ badges = {} /\ settings = [c \in ProfCalls |-> "none"]
        /\ profCall = [c \in ProfCalls |-> Waits]
        /\ confirmed = {} /\ chosen = FALSE
        /\ overtaken = FALSE /\ returned = FALSE /\ lateCopy = FALSE /\ madeRows = FALSE /\ profFaults = 0
    BY DEF ProfInit
  <2>2. Cardinality(profile.avatar) <= 1 /\ \A k \in Keys : Cardinality(copyOf[k]) <= 1  BY <1>1, <1>2, <2>1
  <2>3. profFaults \in 0..MaxProfFaults  BY <2>1
  <2> QED BY <1>1, <2>1, <2>2, <2>3 DEF ProfTypeOK, ProfRecords
<1>4. \A c \in ProfCalls : ProfFits(c)  BY <1>1, FewAreFew DEF ProfInit, ProfFits, Known
<1>5. Inserted = {}  BY DEF ProfInit, Inserted
<1>6. CopiesAgree /\ AvatarsExist /\ BadgesAreShown
  BY <1>1 DEF ProfInit, CopiesAgree, AvatarsExist, BadgesAreShown
<1>7. SettingsAreKept  BY <1>2, <1>5 DEF ProfInit, SettingsAreKept
<1> QED BY <1>1, <1>3, <1>4, <1>5, <1>6, <1>7 DEF ProfInit, ProfInv, ProfilesAreKept

LEMMA ProfInvKept == ProfInv /\ [ProfNext]_profVars => ProfInv'
<1> SUFFICES ASSUME ProfInv, [ProfNext]_profVars PROVE ProfInv'  OBVIOUS
<1>1. CASE ProfNext
  BY <1>1, ProfBeginningKeeps, ProfReadingKeeps, ProfFailureKeeps, PutObjectKeeps, CachingKeeps, DroppingKeeps,
     ChoosingKeeps, CreatingSettingsKeeps, SavingKeeps, RemovingKeeps, ExpiryKeeps DEF ProfNext
<1>2. CASE UNCHANGED profVars
  <2> USE <1>2 DEF profVars
  <2>1. ProfTypeOK' /\ Known' = Known /\ Inserted' = Inserted
    BY DEF ProfInv, ProfTypeOK, Known, Inserted
  <2>2. ASSUME NEW c \in ProfCalls PROVE ProfFits(c)'  BY <2>1 DEF ProfInv, ProfFits
  <2>3. CopiesAgree'  BY DEF Dropping, ProfsAt, ProfInv, ProfilesAreKept, CopiesAgree
  <2>4. AvatarsExist' /\ BadgesAreShown' /\ SettingsAreKept'
    BY <2>1 DEF ProfInv, ProfilesAreKept, AvatarsExist, BadgesAreShown, SettingsAreKept, ProfsAt
  <2> QED BY <2>1, <2>2, <2>3, <2>4 DEF ProfInv, ProfilesAreKept
<1> QED BY <1>1, <1>2

\* The invariant has what is promised of a profile.
LEMMA ProfilesTrue == ProfInv => ProfTypeOK /\ ProfilesAreKept
BY DEF ProfInv

--------
\* Boards.

BoardOps == {"none", "count", "remove", "record", "bulk", "viewers", "gift", "end"}
BoardSteps == {"new", "watch", "exec", "zrem", "del", "upsert", "set", "zadd", "cut", "active", "mostViewed", "read",
               "gift", "down", "held", "ended"}
Metas == [is : BOOLEAN, n : Nat, live : BOOLEAN]
BoardRecords == [op : BoardOps, step : BoardSteps, entry : SUBSET Entries, points : Nat, read : Metas, dirty : BOOLEAN]

\* The steps a request about a subject takes.
StepsOf == [gifts |-> {"new", "ended"}, refresh |-> {"new", "held", "ended"}, reset |-> {"new", "held", "ended"},
            tags |-> {"new", "watch", "exec", "zrem", "del", "ended"},
            videos |-> {"new", "upsert", "set", "zadd", "cut", "zrem", "del", "ended"},
            streams |-> {"new", "active", "mostViewed", "read", "zrem", "gift", "down", "ended"}]

\* A request is about one entry, or about none when it has not begun, is through or holds a lock.
BoardCallFits(c) ==
    LET call == boardCall[c]
    IN /\ call.step \in StepsOf[subject] /\ (call.entry = {} <=> call.step \in {"new", "held", "ended"})
       /\ call.entry # {} => \E e \in Entries : call.entry = {e}
       /\ call.step = "zrem" => call.op = IF subject = "streams" THEN "end" ELSE "remove"
       /\ call.step = "read" => call.op \in {"gift", "end"}
       /\ call.step = "upsert" => call.op = "record"
       /\ call.step = "set" => call.op \in {"record", "bulk"}
       /\ call.step \in {"upsert", "set", "zadd", "cut", "active", "mostViewed"} => call.points \in Points

BoardShape ==
    /\ BoardTypeOK /\ boardCall \in [BoardCalls -> BoardRecords]
    /\ \A c \in BoardCalls : BoardCallFits(c)
    /\ lock = {} \/ \E c \in BoardCalls : lock = {c}

GiftsFit ==
    subject = "gifts" => \A e \in Entries : board[e] <= earned[e] /\ (dropped = {} => board[e] = earned[e])

\* What a request at a tag has read is still so, unless the key was changed; a ranked tag has its count.
TagsFit ==
    subject = "tags" =>
        /\ \A e \in Entries :
              /\ metadata[e].n = earned[e]
              /\ ~torn /\ board[e] > 0 => board[e] = earned[e] /\ metadata[e].is
              /\ ~torn /\ board[e] = 0 /\ boardFaults = 0 =>
                    earned[e] = 0 \/ e \in dropped \/ \E c \in BoardCalls : boardCall[c].step = "del" /\ boardCall[c].entry = {e}
        /\ \A c \in BoardCalls, e \in Entries :
              boardCall[c].step = "exec" /\ ~boardCall[c].dirty /\ boardCall[c].entry = {e} => boardCall[c].read.n = metadata[e].n

Apart == \A c \in BoardCalls, d \in BoardCalls : boardCall[c].entry = boardCall[d].entry /\ boardCall[c].entry # {} => c = d

\* A video has the score of its metadata, but while one request changes the two.
VideoShown(e) ==
    (\A c \in BoardCalls : boardCall[c].entry = {e} => boardCall[c].step \in {"upsert", "zrem"})
        => board[e] = 0 \/ (metadata[e].is /\ metadata[e].n = board[e])

VideoAt(c, e) ==
    LET call == boardCall[c]
    IN call.entry = {e} =>
          /\ call.step = "set" /\ call.op = "record" => board[e] \in {0, call.points}
          /\ call.step \in {"zadd", "cut"} => metadata[e].is /\ metadata[e].n = call.points
          /\ call.step = "cut" => board[e] \in {0, call.points}
          /\ call.step = "del" => board[e] = 0

Uncut == Ats("cut") = {} => Cardinality({e \in Entries : board[e] > 0}) <= TopN

VideosFit ==
    subject = "videos" /\ ~torn /\ boardFaults = 0 =>
        /\ Apart /\ Uncut /\ \A e \in Entries : VideoShown(e)
        /\ \A c \in BoardCalls, e \in Entries : VideoAt(c, e)

StreamKept(e) == metadata[e].n = earned[e] /\ (~metadata[e].is => metadata[e].n = 0)

\* The most viewers are no fewer than those of now, or about to be set.
ViewersFit(e) ==
    \/ board[e] <= mostViewed[e]
    \/ \E c \in BoardCalls :
          boardCall[c].step = "mostViewed" /\ boardCall[c].entry = {e} /\ board[e] <= boardCall[c].points

\* What was read of a stream is still so.
StreamRead(c, e) ==
    LET call == boardCall[c]
    IN call.entry = {e} =>
          /\ call.step = "gift" => call.read.is
          /\ call.step \in {"gift", "zrem", "down"} /\ call.read.is => metadata[e].is /\ call.read.n = metadata[e].n

StreamsFit ==
    subject = "streams" /\ ~torn /\ boardFaults = 0 =>
        /\ Apart /\ \A e \in Entries : StreamKept(e) /\ ViewersFit(e)
        /\ \A c \in BoardCalls, e \in Entries : StreamRead(c, e)

\* Who holds a lock that has not expired has it.
LocksFit == subject = "refresh" \/ lapsed = {} => Ats("held") \ lapsed \subseteq lock

BoardInv == BoardShape /\ GiftsFit /\ TagsFit /\ VideosFit /\ StreamsFit /\ LocksFit

LEMMA BoardNumbers ==
    BoardShape => /\ TopN \in Nat /\ Points \subseteq Nat \ {0} /\ MaxBoardFaults \in Nat
                  /\ boardFaults \in Nat /\ boardFaults <= MaxBoardFaults
                  /\ \A e \in Entries : board[e] \in Nat /\ mostViewed[e] \in Nat /\ earned[e] \in Nat /\ metadata[e].n \in Nat
BY BoardAssumption DEF BoardShape, BoardTypeOK

\* Which subject a step belongs to, and which steps a subject has.
LEMMA StepsAndSubjects ==
    ASSUME subject \in Subjects
    PROVE  /\ "new" \in StepsOf[subject] /\ "ended" \in StepsOf[subject]
           /\ subject = "tags" <=> "watch" \in StepsOf[subject]
           /\ subject = "tags" <=> "exec" \in StepsOf[subject]
           /\ \A step \in {"upsert", "set", "zadd", "cut"} : subject = "videos" <=> step \in StepsOf[subject]
           /\ \A step \in {"active", "mostViewed", "read", "gift", "down"} : subject = "streams" <=> step \in StepsOf[subject]
           /\ subject \in {"tags", "videos"} <=> "del" \in StepsOf[subject]
           /\ subject \in {"tags", "videos", "streams"} <=> "zrem" \in StepsOf[subject]
           /\ subject \in {"refresh", "reset"} <=> "held" \in StepsOf[subject]
           /\ StepsOf[subject] \subseteq BoardSteps
BY DEF Subjects, StepsOf, BoardSteps

\* The entry a request is about.
LEMMA WhoIs ==
    ASSUME BoardShape, NEW c \in BoardCalls, boardCall[c].step \notin {"new", "held", "ended"}
    PROVE  Who(c) \in Entries /\ boardCall[c].entry = {Who(c)}
<1>1. PICK e \in Entries : boardCall[c].entry = {e}  BY DEF BoardShape, BoardCallFits
<1>2. Who(c) = e  BY <1>1 DEF Who
<1> QED BY <1>1, <1>2

\* A request becomes another record.
LEMMA BoardTurns ==
    ASSUME BoardShape, NEW c \in BoardCalls, NEW new \in BoardRecords, boardCall' = [boardCall EXCEPT ![c] = new]
    PROVE  /\ boardCall' \in [BoardCalls -> BoardRecords] /\ boardCall'[c] = new
           /\ \A d \in BoardCalls \ {c} : boardCall'[d] = boardCall[d]
BY DEF BoardShape

\* What a request is when it goes on to a step, or ends.
MovedTo(c, step, new) ==
    /\ new.step = step
    /\ IF step = "ended" THEN new.entry = {}
       ELSE /\ new.op = boardCall[c].op /\ new.entry = boardCall[c].entry /\ new.points = boardCall[c].points
            /\ new.read = boardCall[c].read /\ new.dirty = boardCall[c].dirty

LEMMA MovedRecord ==
    ASSUME BoardShape, NEW c \in BoardCalls, NEW step \in BoardSteps
    PROVE  \E new \in BoardRecords :
              /\ new = IF step = "ended" THEN Finished(c) ELSE [boardCall[c] EXCEPT !.step = step]
              /\ MovedTo(c, step, new)
<1>1. boardCall[c] \in BoardRecords  BY DEF BoardShape
<1>2. CASE step = "ended"
  <2>1. PICK new : new = Finished(c)  OBVIOUS
  <2>2. new = [op |-> boardCall[c].op, step |-> "ended", entry |-> {}, points |-> 0, read |-> NoMeta, dirty |-> FALSE]
    BY <2>1 DEF Finished, Waiting
  <2>3. new \in BoardRecords /\ new.step = step /\ new.entry = {}
    BY <1>1, <1>2, <2>2 DEF BoardRecords, BoardSteps, NoMeta, Metas
  <2> QED BY <1>2, <2>1, <2>3 DEF MovedTo
<1>3. CASE step # "ended"
  <2>1. PICK new : new = [boardCall[c] EXCEPT !.step = step]  OBVIOUS
  <2>2. /\ new \in BoardRecords /\ new.step = step /\ new.op = boardCall[c].op /\ new.entry = boardCall[c].entry
        /\ new.points = boardCall[c].points /\ new.read = boardCall[c].read /\ new.dirty = boardCall[c].dirty
    BY <1>1, <2>1 DEF BoardRecords
  <2> QED BY <1>3, <2>1, <2>2 DEF MovedTo
<1> QED BY <1>2, <1>3

LEMMA BoardMoves ==
    ASSUME BoardShape, NEW c \in BoardCalls, NEW step \in BoardSteps, Moves(c, step)
    PROVE  /\ boardCall' \in [BoardCalls -> BoardRecords] /\ MovedTo(c, step, boardCall'[c])
           /\ \A d \in BoardCalls \ {c} : boardCall'[d] = boardCall[d]
<1>1. PICK new \in BoardRecords :
         new = (IF step = "ended" THEN Finished(c) ELSE [boardCall[c] EXCEPT !.step = step]) /\ MovedTo(c, step, new)
  BY MovedRecord
<1>2. boardCall' = [boardCall EXCEPT ![c] = new]  BY <1>1 DEF Moves
<1>3. boardCall'[c] = new  BY <1>2, BoardTurns
<1> QED BY <1>1, <1>2, <1>3, BoardTurns

\* The shape stays: everything is in its range and every request is where its subject has it.
LEMMA ShapeStays ==
    ASSUME BoardShape, subject' = subject, boardCall' \in [BoardCalls -> BoardRecords],
           board' \in [Entries -> Nat], mostViewed' \in [Entries -> Nat], earned' \in [Entries -> Nat],
           metadata' \in [Entries -> Metas], dropped' \subseteq Entries, lapsed' \subseteq BoardCalls, torn' \in BOOLEAN,
           boardFaults' \in 0..MaxBoardFaults, lock' = {} \/ \E c \in BoardCalls : lock' = {c},
           \A c \in BoardCalls : BoardCallFits(c)'
    PROVE  BoardShape'
<1>2. Cardinality({}) = 0  BY FS_EmptySet
<1>3. Cardinality(lock') <= 1
  <2>1. CASE lock' = {}  BY <1>2, <2>1
  <2>2. CASE \E c \in BoardCalls : lock' = {c}
    <3>1. PICK c : lock' = {c}  BY <2>2
    <3>2. Cardinality({c}) = 1  BY FS_Singleton
    <3> QED BY <3>1, <3>2
  <2> QED BY <2>1, <2>2
<1>4. ASSUME NEW c \in BoardCalls PROVE boardCall'[c].entry \subseteq Entries /\ Cardinality(boardCall'[c].entry) <= 1
  <2>1. CASE boardCall'[c].entry = {}  BY <1>2, <2>1
  <2>2. CASE boardCall'[c].entry # {}
    <3>1. PICK e \in Entries : boardCall'[c].entry = {e}  BY <2>2 DEF BoardCallFits
    <3>2. Cardinality({e}) = 1  BY FS_Singleton
    <3>3. boardCall'[c].entry \subseteq Entries  BY <3>1
    <3> QED BY <3>1, <3>2, <3>3
  <2> QED BY <2>1, <2>2
<1>5. BoardTypeOK'  BY <1>3, <1>4 DEF BoardShape, BoardTypeOK, Metas
<1> QED BY <1>5 DEF BoardShape

\* What the others are when a request is about another entry or none.
LEMMA LocksElsewhere ==
    ASSUME BoardShape', subject' \notin {"refresh", "reset"} PROVE LocksFit'
<1>1. subject' \in Subjects /\ \A c \in BoardCalls : boardCall'[c].step \in StepsOf[subject']
  BY DEF BoardShape, BoardTypeOK, BoardCallFits
<1>2. "held" \notin StepsOf[subject']  BY <1>1 DEF StepsOf, Subjects
<1>3. Ats("held")' = {}  BY <1>1, <1>2 DEF Ats
<1> QED BY <1>3 DEF LocksFit

\* The highest few are kept, and who is cut off is remembered.
LEMMA CutKeeps ==
    ASSUME NEW scores \in [Entries -> Nat], CutTo(scores), dropped \subseteq Entries
    PROVE  /\ board' \in [Entries -> Nat] /\ dropped \subseteq dropped' /\ dropped' \subseteq Entries
           /\ \A e \in Entries : board'[e] = scores[e] \/ (board'[e] = 0 /\ e \in dropped')
           /\ Cardinality({e \in Entries : board'[e] > 0}) <= TopN
<1>1. PICK K \in Cuts(scores) :
         board' = Cut(scores, K) /\ dropped' = dropped \cup {e \in Entries : scores[e] > 0 /\ e \notin K}
  BY DEF CutTo
<1>2. PICK listed : listed = {e \in Entries : scores[e] > 0}  OBVIOUS
<1>3. K \subseteq listed /\ Cardinality(K) = IF Cardinality(listed) > TopN THEN TopN ELSE Cardinality(listed)
  BY <1>1, <1>2 DEF Cuts
<1>4. Cardinality(listed) \in Nat /\ TopN \in Nat  BY <1>2, FS_Subset, BoardAssumption, FS_CardinalityType
<1>5. board' \in [Entries -> Nat] /\ \A e \in Entries : board'[e] = IF e \in K THEN scores[e] ELSE 0
  BY <1>1 DEF Cut
<1>6. {e \in Entries : board'[e] > 0} = K  BY <1>2, <1>3, <1>5
<1>7. Cardinality(K) <= TopN  BY <1>3, <1>4
<1>8. \A e \in Entries : board'[e] = scores[e] \/ (board'[e] = 0 /\ e \in dropped')
  BY <1>1, <1>5
<1> QED BY <1>1, <1>5, <1>6, <1>7, <1>8

\* A request begins at an entry: it is the only one there, or two are torn.
LEMMA BoardBeginningKeeps ==
    ASSUME BoardInv, NEW c \in BoardCalls, NEW at, NEW op \in BoardOps, NEW step \in BoardSteps, NEW points \in Nat,
           BoardBegins(c, at, op, step, points), step \in StepsOf[at], step \in {"watch", "zrem", "upsert", "set", "active", "read"},
           step \in {"upsert", "set", "active"} => points \in Points, step = "zrem" => op = "remove" /\ at # "streams",
           step = "read" => op \in {"gift", "end"}, step = "set" => op = "bulk", step = "upsert" => op = "record"
    PROVE  BoardInv'
<1>1. PICK e \in Entries :
         /\ boardCall' = [boardCall EXCEPT ![c] =
                [Waiting EXCEPT !.op = op, !.step = step, !.entry = {e}, !.points = points]]
         /\ torn' = (torn \/ \E d \in BoardCalls : boardCall[d].entry = {e} /\ at # "tags")
  BY DEF BoardBegins
<1>2. /\ boardCall[c].step = "new" /\ subject = at
      /\ UNCHANGED <<subject, board, mostViewed, metadata, earned, dropped, lock, lapsed, boardFaults>>
  BY DEF BoardBegins
<1>3. PICK new : new = [Waiting EXCEPT !.op = op, !.step = step, !.entry = {e}, !.points = points]  OBVIOUS
<1>4. new = [op |-> op, step |-> step, entry |-> {e}, points |-> points, read |-> NoMeta, dirty |-> FALSE]
  BY <1>3 DEF Waiting
<1>5. new \in BoardRecords /\ new.op = op /\ new.step = step /\ new.entry = {e} /\ new.points = points
  BY <1>4 DEF BoardRecords, NoMeta, Metas
<1>6. BoardShape  BY DEF BoardInv
<1>7. /\ boardCall' \in [BoardCalls -> BoardRecords] /\ boardCall'[c] = new
      /\ \A d \in BoardCalls \ {c} : boardCall'[d] = boardCall[d]
  BY <1>1, <1>3, <1>5, <1>6, BoardTurns
<1>8. BoardShape'
  <2>1. BoardCallFits(c)'  BY <1>2, <1>5, <1>7 DEF BoardCallFits
  <2>2. ASSUME NEW d \in BoardCalls \ {c} PROVE BoardCallFits(d)'
    BY <1>2, <1>6, <1>7 DEF BoardShape, BoardCallFits
  <2>3. torn' \in BOOLEAN  BY <1>1, <1>6 DEF BoardShape, BoardTypeOK
  <2> QED BY <1>2, <1>6, <1>7, <2>1, <2>2, <2>3, ShapeStays DEF BoardShape, BoardTypeOK, Metas
<1>9. boardCall[c].entry = {} /\ boardCall'[c].step = step /\ boardCall'[c].entry = {e}
  BY <1>2, <1>5, <1>6, <1>7 DEF BoardShape, BoardCallFits
<1>10. GiftsFit'  BY <1>2 DEF BoardInv, GiftsFit
<1>11. TagsFit'
  <2> SUFFICES ASSUME subject = "tags" PROVE TagsFit'  BY <1>2 DEF TagsFit
  <2>1. \A d \in BoardCalls : boardCall[d].step = "del" => boardCall'[d] = boardCall[d]  BY <1>2, <1>7
  <2>2. \A d \in BoardCalls : boardCall'[d].step = "exec" => boardCall'[d] = boardCall[d]  BY <1>7, <1>9
  <2>3. ~torn' => ~torn  BY <1>1
  <2>4. ASSUME NEW f \in Entries
        PROVE  /\ metadata[f].n = earned[f]
               /\ ~torn' /\ board[f] > 0 => board[f] = earned[f] /\ metadata[f].is
               /\ ~torn' /\ board[f] = 0 /\ boardFaults = 0 =>
                     earned[f] = 0 \/ f \in dropped \/ \E d \in BoardCalls : boardCall'[d].step = "del" /\ boardCall'[d].entry = {f}
    BY <2>1, <2>3 DEF BoardInv, TagsFit
  <2>5. \A d \in BoardCalls, f \in Entries :
           boardCall'[d].step = "exec" /\ ~boardCall'[d].dirty /\ boardCall'[d].entry = {f} => boardCall'[d].read.n = metadata[f].n
    BY <2>2 DEF BoardInv, TagsFit
  <2> QED BY <1>2, <2>4, <2>5 DEF TagsFit
<1>12. ASSUME ~torn', at # "tags", Apart PROVE Apart' /\ ~torn /\ \A d \in BoardCalls : boardCall[d].entry # {e}
  BY <1>1, <1>7, <1>9, <1>12 DEF Apart
<1>13. VideosFit'
  <2> SUFFICES ASSUME subject = "videos", ~torn', boardFaults = 0 PROVE VideosFit'  BY <1>2 DEF VideosFit
  <2>1. ~torn  BY <1>1
  <2>2. Apart /\ at # "tags"  BY <1>2, <2>1 DEF BoardInv, VideosFit
  <2>3. Apart' /\ \A d \in BoardCalls : boardCall[d].entry # {e}  BY <1>12, <2>2
  <2>4. \A d \in BoardCalls, f \in Entries : boardCall'[d].entry = {f} /\ f # e => boardCall'[d] = boardCall[d] /\ d # c
    BY <1>7, <1>9
  <2>5. \A d \in BoardCalls, f \in Entries : boardCall[d].entry = {f} => boardCall'[d] = boardCall[d]
    BY <1>7, <1>9
  <2>6. Ats("cut") \subseteq Ats("cut")'  BY <1>2, <1>7 DEF Ats
  <2>7. step \in {"zrem", "upsert"} \/ (step = "set" /\ op = "bulk")
    BY <1>2, <1>6, StepsAndSubjects DEF BoardShape, BoardTypeOK
  <2>8. \A d \in BoardCalls : boardCall'[d].entry = {e} => d = c  BY <1>7, <2>3
  <2>9. boardCall'[c].op = op  BY <1>5, <1>7
  <2>10. ASSUME NEW f \in Entries PROVE VideoShown(f)'  BY <1>2, <2>5, <2>1 DEF VideoShown, BoardInv, VideosFit
  <2>11. ASSUME NEW d \in BoardCalls, NEW f \in Entries PROVE VideoAt(d, f)'
    BY <1>9, <2>7, <2>9, <1>7, <2>1, <1>2 DEF VideoAt, BoardInv, VideosFit
  <2>12. Uncut'  BY <1>2, <2>1, <2>6 DEF BoardInv, VideosFit, Uncut
  <2> QED BY <1>2, <2>3, <2>10, <2>11, <2>12 DEF VideosFit
<1>14. StreamsFit'
  <2> SUFFICES ASSUME subject = "streams", ~torn', boardFaults = 0 PROVE StreamsFit'  BY <1>2 DEF StreamsFit
  <2>1. ~torn  BY <1>1
  <2>2. Apart /\ at # "tags"  BY <1>2, <2>1 DEF BoardInv, StreamsFit
  <2>3. Apart' /\ \A d \in BoardCalls : boardCall[d].entry # {e}  BY <1>12, <2>2
  <2>4. \A d \in BoardCalls : boardCall[d].step = "mostViewed" => boardCall'[d] = boardCall[d]  BY <1>2, <1>7
  <2>5. step \in {"active", "read"}
    BY <1>2, <1>6, StepsAndSubjects DEF BoardShape, BoardTypeOK
  <2>6. \A d \in BoardCalls : boardCall'[d].step \in {"gift", "zrem", "down"} => boardCall'[d] = boardCall[d]
    BY <1>7, <1>9, <2>5
  <2>7. ASSUME NEW f \in Entries PROVE StreamKept(f)' /\ ViewersFit(f)'
    BY <1>2, <2>1, <2>4 DEF BoardInv, StreamsFit, StreamKept, ViewersFit
  <2>8. ASSUME NEW d \in BoardCalls, NEW f \in Entries PROVE StreamRead(d, f)'
    <3>1. CASE boardCall'[d].step \in {"gift", "zrem", "down"}
      <4>1. StreamRead(d, f)  BY <1>2, <2>1 DEF BoardInv, StreamsFit
      <4> QED BY <1>2, <2>6, <3>1, <4>1 DEF StreamRead
    <3>2. CASE boardCall'[d].step \notin {"gift", "zrem", "down"}  BY <3>2 DEF StreamRead
    <3> QED BY <3>1, <3>2
  <2> QED BY <1>2, <2>3, <2>7, <2>8 DEF StreamsFit
<1>15. LocksFit'  BY <1>2, <1>7, <1>9 DEF Ats, BoardInv, LocksFit
<1> QED BY <1>8, <1>10, <1>11, <1>13, <1>14, <1>15 DEF BoardInv

\* A call fails: the request ends where it is.
LEMMA BoardFailureKeeps == ASSUME BoardInv, NEW c \in BoardCalls, BoardCallFails(c) PROVE BoardInv'
<1>1. /\ boardCall[c].step \notin {"new", "ended"} /\ Moves(c, "ended") /\ "ended" \in BoardSteps
      /\ UNCHANGED <<subject, board, mostViewed, metadata, earned, dropped, lock, lapsed, torn>>
  BY DEF BoardCallFails, BoardSteps
<1>2. boardFaults' \in 0..MaxBoardFaults /\ boardFaults' # 0  BY BoardNumbers DEF BoardCallFails, BoardInv
<1>3. /\ boardCall' \in [BoardCalls -> BoardRecords] /\ boardCall'[c].step = "ended" /\ boardCall'[c].entry = {}
      /\ \A d \in BoardCalls \ {c} : boardCall'[d] = boardCall[d]
  BY <1>1, BoardMoves DEF BoardInv, MovedTo
<1>4. BoardShape'
  <2>1. subject \in Subjects  BY DEF BoardInv, BoardShape, BoardTypeOK
  <2>2. BoardCallFits(c)'  BY <1>1, <1>3, <2>1, StepsAndSubjects DEF BoardCallFits
  <2>3. ASSUME NEW d \in BoardCalls \ {c} PROVE BoardCallFits(d)'
    BY <1>1, <1>3 DEF BoardInv, BoardShape, BoardCallFits
  <2> QED BY <1>1, <1>2, <1>3, <2>2, <2>3, ShapeStays DEF BoardInv, BoardShape, BoardTypeOK, Metas
<1>5. GiftsFit'  BY <1>1 DEF BoardInv, GiftsFit
<1>6. TagsFit'  BY <1>3, <1>1, <1>2 DEF BoardInv, TagsFit
<1>7. VideosFit' /\ StreamsFit'  BY <1>2 DEF VideosFit, StreamsFit
<1>8. LocksFit'  BY <1>3, <1>1 DEF Ats, BoardInv, LocksFit
<1> QED BY <1>4, <1>5, <1>6, <1>7, <1>8 DEF BoardInv

\* A gift adds to what its giver has earned, and the board is cut.
LEMMA RecordGiftKeeps == ASSUME BoardInv, NEW c \in BoardCalls, RecordGift(c) PROVE BoardInv'
<1>1. /\ boardCall[c].step = "new" /\ subject = "gifts" /\ Moves(c, "ended") /\ "ended" \in BoardSteps
      /\ UNCHANGED <<subject, mostViewed, metadata, lock, lapsed, torn, boardFaults>>
  BY DEF RecordGift, BoardSteps
<1>2. PICK e \in Entries, p \in Points : CutTo([board EXCEPT ![e] = @ + p]) /\ earned' = [earned EXCEPT ![e] = @ + p]
  BY DEF RecordGift
<1>3. BoardShape /\ board \in [Entries -> Nat] /\ earned \in [Entries -> Nat] /\ p \in Nat /\ dropped \subseteq Entries
  BY BoardAssumption DEF BoardInv, BoardShape, BoardTypeOK
<1>4. PICK scores : scores = [board EXCEPT ![e] = @ + p]  OBVIOUS
<1>5. scores \in [Entries -> Nat] /\ earned' \in [Entries -> Nat]  BY <1>2, <1>3, <1>4
<1>6. /\ board' \in [Entries -> Nat] /\ dropped \subseteq dropped' /\ dropped' \subseteq Entries
      /\ \A f \in Entries : board'[f] = scores[f] \/ (board'[f] = 0 /\ f \in dropped')
  BY <1>2, <1>3, <1>4, <1>5, CutKeeps
<1>7. /\ boardCall' \in [BoardCalls -> BoardRecords] /\ boardCall'[c].step = "ended" /\ boardCall'[c].entry = {}
      /\ \A d \in BoardCalls \ {c} : boardCall'[d] = boardCall[d]
  BY <1>1, <1>3, BoardMoves DEF MovedTo
<1>8. BoardShape'
  <2>1. subject \in Subjects  BY DEF BoardInv, BoardShape, BoardTypeOK
  <2>2. BoardCallFits(c)'  BY <1>1, <1>7, <2>1, StepsAndSubjects DEF BoardCallFits
  <2>3. ASSUME NEW d \in BoardCalls \ {c} PROVE BoardCallFits(d)'
    BY <1>1, <1>7 DEF BoardInv, BoardShape, BoardCallFits
  <2> QED BY <1>1, <1>3, <1>5, <1>6, <1>7, <2>2, <2>3, ShapeStays DEF BoardInv, BoardShape, BoardTypeOK, Metas
<1>9. GiftsFit'  BY <1>1, <1>3, <1>2, <1>4, <1>6 DEF GiftsFit, BoardInv
<1>10. TagsFit' /\ VideosFit' /\ StreamsFit'  BY <1>1 DEF TagsFit, VideosFit, StreamsFit
<1> QED BY <1>1, <1>8, <1>9, <1>10, LocksElsewhere DEF BoardInv

\* A request that goes on, or ends, is where its subject has it.
LEMMA MovingFits ==
    ASSUME BoardShape, NEW c \in BoardCalls, NEW step \in BoardSteps, subject' = subject,
           MovedTo(c, step, boardCall'[c]), \A d \in BoardCalls \ {c} : boardCall'[d] = boardCall[d],
           step \in StepsOf[subject], step \notin {"new", "held", "zrem", "read", "upsert"},
           step # "ended" => boardCall[c].step \notin {"new", "held", "ended"},
           step = "set" => boardCall[c].op \in {"record", "bulk"},
           step \in {"set", "zadd", "cut", "active", "mostViewed"} => boardCall[c].points \in Points
    PROVE  \A d \in BoardCalls : BoardCallFits(d)'
<1>1. BoardCallFits(c)  BY DEF BoardShape
<1>2. BoardCallFits(c)'  BY <1>1 DEF BoardCallFits, MovedTo
<1>3. ASSUME NEW d \in BoardCalls \ {c} PROVE BoardCallFits(d)'  BY DEF BoardShape, BoardCallFits
<1> QED BY <1>2, <1>3

\* A key is changed: who watches it will see that.
LEMMA TouchTurns ==
    ASSUME BoardShape, NEW c \in BoardCalls, NEW e \in Entries, boardCall[c].entry = {e}, Touches(c, e, "ended"), subject' = subject
    PROVE  /\ boardCall' \in [BoardCalls -> BoardRecords]
           /\ boardCall'[c].step = "ended" /\ boardCall'[c].entry = {}
           /\ \A d \in BoardCalls \ {c} :
                 /\ boardCall'[d].op = boardCall[d].op /\ boardCall'[d].step = boardCall[d].step
                 /\ boardCall'[d].entry = boardCall[d].entry /\ boardCall'[d].points = boardCall[d].points
                 /\ boardCall'[d].read = boardCall[d].read /\ (boardCall[d].entry = {e} => boardCall'[d].dirty)
                 /\ boardCall[d].entry # {e} => boardCall'[d] = boardCall[d]
           /\ \A d \in BoardCalls : BoardCallFits(d)'
<1>1. "ended" \in BoardSteps /\ subject \in Subjects  BY DEF BoardSteps, BoardShape, BoardTypeOK
<1>2. PICK new \in BoardRecords : new = Finished(c) /\ new.step = "ended" /\ new.entry = {}
  BY <1>1, MovedRecord DEF MovedTo
<1>3. boardCall' = [d \in BoardCalls |-> IF d = c THEN new
                      ELSE IF boardCall[d].entry = {e} THEN [boardCall[d] EXCEPT !.dirty = TRUE] ELSE boardCall[d]]
  BY <1>2 DEF Touches
<1>4. ASSUME NEW d \in BoardCalls \ {c}
      PROVE  /\ boardCall'[d] \in BoardRecords
             /\ boardCall'[d].op = boardCall[d].op /\ boardCall'[d].step = boardCall[d].step
             /\ boardCall'[d].entry = boardCall[d].entry /\ boardCall'[d].points = boardCall[d].points
             /\ boardCall'[d].read = boardCall[d].read /\ (boardCall[d].entry = {e} => boardCall'[d].dirty)
             /\ boardCall[d].entry # {e} => boardCall'[d] = boardCall[d]  BY <1>3 DEF BoardShape, BoardRecords
<1>5. boardCall'[c] = new  BY <1>3
<1>6. boardCall' \in [BoardCalls -> BoardRecords]  BY <1>2, <1>4, <1>5, <1>3
<1>7. BoardCallFits(c)'  BY <1>1, <1>2, <1>5, StepsAndSubjects DEF BoardCallFits
<1>8. ASSUME NEW d \in BoardCalls \ {c} PROVE BoardCallFits(d)'
  <2>1. BoardCallFits(d)  BY DEF BoardShape
  <2> QED BY <1>4, <2>1 DEF BoardCallFits
<1> QED BY <1>2, <1>4, <1>5, <1>6, <1>7, <1>8

\* The metadata of a tag is read under WATCH.
LEMMA WatchKeeps == ASSUME BoardInv, NEW c \in BoardCalls, WatchMeta(c) PROVE BoardInv'
<1>1. BoardShape /\ boardCall[c] \in BoardRecords /\ BoardCallFits(c) /\ subject \in Subjects
  BY DEF BoardInv, BoardShape, BoardTypeOK
<1>2. /\ boardCall[c].step = "watch"
      /\ UNCHANGED <<subject, board, mostViewed, metadata, earned, dropped, lock, lapsed, torn, boardFaults>>
  BY DEF WatchMeta
<1>3. PICK e \in Entries : e = Who(c) /\ boardCall[c].entry = {e}  BY <1>1, <1>2, WhoIs
<1>4. PICK meta \in Metas : meta = metadata[e]  BY <1>1 DEF BoardShape, BoardTypeOK, Metas
<1>5. PICK new : new = [boardCall[c] EXCEPT !.step = "exec", !.read = meta, !.dirty = FALSE]  OBVIOUS
<1>6. boardCall' = [boardCall EXCEPT ![c] = new]  BY <1>3, <1>4, <1>5 DEF WatchMeta
<1>7. /\ new \in BoardRecords /\ new.step = "exec" /\ new.op = boardCall[c].op /\ new.entry = {e}
      /\ new.points = boardCall[c].points /\ new.read = meta
  BY <1>1, <1>3, <1>5 DEF BoardRecords, BoardSteps
<1>8. /\ boardCall' \in [BoardCalls -> BoardRecords] /\ boardCall'[c] = new
      /\ \A d \in BoardCalls \ {c} : boardCall'[d] = boardCall[d]
  BY <1>1, <1>6, <1>7, BoardTurns
<1>9. subject = "tags" /\ "exec" \in StepsOf[subject]  BY <1>1, <1>2, StepsAndSubjects DEF BoardCallFits
<1>10. BoardShape'
  <2>1. BoardCallFits(c)'  BY <1>2, <1>7, <1>8, <1>9 DEF BoardCallFits
  <2>2. ASSUME NEW d \in BoardCalls \ {c} PROVE BoardCallFits(d)'
    BY <1>1, <1>2, <1>8 DEF BoardShape, BoardCallFits
  <2> QED BY <1>1, <1>2, <1>8, <2>1, <2>2, ShapeStays DEF BoardShape, BoardTypeOK, Metas
<1>11. TagsFit'  BY <1>2, <1>8, <1>4, <1>7 DEF BoardInv, TagsFit
<1>12. GiftsFit' /\ VideosFit' /\ StreamsFit'  BY <1>2, <1>9 DEF GiftsFit, VideosFit, StreamsFit
<1> QED BY <1>2, <1>9, <1>10, <1>11, <1>12, LocksElsewhere DEF BoardInv

\* A board of which something is taken is no longer than it was.
LEMMA FewerStayUncut ==
    ASSUME Uncut, Ats("cut") \subseteq Ats("cut")', \A f \in Entries : board'[f] > 0 => board[f] > 0
    PROVE  Uncut'
<1> SUFFICES ASSUME Ats("cut") = {} PROVE Cardinality({f \in Entries : board'[f] > 0}) <= TopN  BY DEF Uncut
<1>1. PICK R : R = {f \in Entries : board[f] > 0}  OBVIOUS
<1>2. PICK S : S = {f \in Entries : board'[f] > 0}  OBVIOUS
<1>3. S \subseteq R /\ R \subseteq Entries  BY <1>1, <1>2
<1>4. IsFiniteSet(R) /\ Cardinality(R) <= TopN  BY <1>1, <1>3, FS_Subset, BoardAssumption DEF Uncut
<1>5. Cardinality(S) <= Cardinality(R) /\ IsFiniteSet(S)  BY <1>3, <1>4, FS_Subset
<1>6. Cardinality(S) \in Nat /\ Cardinality(R) \in Nat /\ TopN \in Nat
  BY <1>4, <1>5, FS_CardinalityType, BoardAssumption
<1>7. Cardinality(S) <= TopN  BY <1>4, <1>5, <1>6
<1> QED BY <1>2, <1>7

\* A tag is counted and ranked, if its key is what it was.
LEMMA ExecKeeps == ASSUME BoardInv, NEW c \in BoardCalls, ExecCount(c) PROVE BoardInv'
<1>1. BoardShape /\ BoardCallFits(c) /\ subject \in Subjects
  BY DEF BoardInv, BoardShape, BoardTypeOK
<1>2. boardCall[c].step = "exec" /\ UNCHANGED <<subject, mostViewed, lock, lapsed, torn, boardFaults>>
  BY DEF ExecCount
<1>3. PICK e \in Entries : e = Who(c) /\ boardCall[c].entry = {e}  BY <1>1, <1>2, WhoIs
<1>4. subject = "tags" /\ "ended" \in StepsOf[subject] /\ "ended" \in BoardSteps
  BY <1>1, <1>2, StepsAndSubjects DEF BoardCallFits, BoardSteps
<1>5. /\ board \in [Entries -> Nat] /\ earned \in [Entries -> Nat] /\ metadata \in [Entries -> Metas]
      /\ dropped \subseteq Entries /\ \A f \in Entries : metadata[f].n = earned[f]
  BY <1>1, <1>4 DEF BoardShape, BoardTypeOK, Metas, BoardInv, TagsFit
<1>6. GiftsFit' /\ VideosFit' /\ StreamsFit'  BY <1>2, <1>4 DEF GiftsFit, VideosFit, StreamsFit
<1>7. CASE boardCall[c].dirty
  <2>1. Moves(c, "ended") /\ UNCHANGED <<metadata, board, dropped, earned>>
    BY <1>7 DEF ExecCount, UnchangedSince
  <2>2. /\ boardCall' \in [BoardCalls -> BoardRecords] /\ MovedTo(c, "ended", boardCall'[c])
        /\ \A d \in BoardCalls \ {c} : boardCall'[d] = boardCall[d]
    BY <1>1, <1>4, <2>1, BoardMoves
  <2>3. BoardShape'  BY <1>1, <1>2, <1>4, <2>2, MovingFits, <2>1, ShapeStays DEF BoardShape, BoardTypeOK, Metas
  <2>4. TagsFit'  BY <1>2, <2>2, <2>1 DEF MovedTo, BoardInv, TagsFit
  <2> QED BY <1>2, <1>4, <1>6, <2>3, <2>4, LocksElsewhere DEF BoardInv
<1>8. CASE ~boardCall[c].dirty
  <2>1. PICK n \in Nat : n = earned[e] + 1  BY <1>5
  <2>2. boardCall[c].read.n + 1 = n  BY <1>2, <1>3, <1>4, <1>8, <1>5, <2>1 DEF BoardInv, TagsFit
  <2>3. PICK meta : meta = [is |-> TRUE, n |-> n, live |-> FALSE]  OBVIOUS
  <2>4. /\ metadata' = [metadata EXCEPT ![e] = meta] /\ CutTo([board EXCEPT ![e] = n])
        /\ earned' = [earned EXCEPT ![e] = n] /\ Touches(c, e, "ended")
    BY <1>3, <1>5, <1>8, <2>1, <2>2, <2>3 DEF ExecCount, UnchangedSince
  <2>5. meta \in Metas /\ meta.is /\ meta.n = n  BY <2>3 DEF Metas
  <2>6. PICK scores \in [Entries -> Nat] : scores = [board EXCEPT ![e] = n]  BY <1>5
  <2>7. /\ board' \in [Entries -> Nat] /\ dropped \subseteq dropped' /\ dropped' \subseteq Entries
        /\ \A f \in Entries : board'[f] = scores[f] \/ (board'[f] = 0 /\ f \in dropped')
    BY <1>5, <2>4, <2>6, CutKeeps
  <2>8. /\ boardCall' \in [BoardCalls -> BoardRecords] /\ \A d \in BoardCalls : BoardCallFits(d)'
        /\ boardCall'[c].step = "ended" /\ boardCall'[c].entry = {}
        /\ \A d \in BoardCalls \ {c} :
                 /\ boardCall'[d].step = boardCall[d].step /\ boardCall'[d].entry = boardCall[d].entry
                 /\ boardCall[d].entry = {e} => boardCall'[d].dirty
                 /\ boardCall[d].entry # {e} => boardCall'[d] = boardCall[d]
    BY <1>1, <1>2, <1>3, <2>4, TouchTurns
  <2>9. metadata' \in [Entries -> Metas] /\ earned' \in [Entries -> Nat]  BY <1>5, <2>4, <2>5
  <2>10. BoardShape'
    BY <1>1, <1>2, <2>7, <2>8, <2>9, ShapeStays DEF BoardShape, BoardTypeOK
  <2>11. ASSUME NEW f \in Entries
         PROVE  /\ metadata'[f].n = earned'[f]
                /\ ~torn' /\ board'[f] > 0 => board'[f] = earned'[f] /\ metadata'[f].is
                /\ ~torn' /\ board'[f] = 0 /\ boardFaults' = 0 =>
                      earned'[f] = 0 \/ f \in dropped' \/ \E d \in BoardCalls : boardCall'[d].step = "del" /\ boardCall'[d].entry = {f}
    <3>1. CASE f = e  BY <1>5, <2>1, <2>4, <2>6, <3>1, <2>5, <2>7
    <3>2. CASE f # e
      <4>1. metadata'[f] = metadata[f] /\ earned'[f] = earned[f] /\ scores[f] = board[f]  BY <1>5, <2>4, <2>6, <3>2
      <4>2. \A d \in BoardCalls : boardCall[d].step = "del" => d # c  BY <1>2
      <4>3. board'[f] > 0 => board'[f] = board[f]  BY <2>7, <4>1
      <4>4. board'[f] = 0 => board[f] = 0 \/ f \in dropped'  BY <2>7, <4>1
      <4>5. /\ metadata[f].n = earned[f]
            /\ ~torn /\ board[f] > 0 => board[f] = earned[f] /\ metadata[f].is
            /\ ~torn /\ board[f] = 0 /\ boardFaults = 0 =>
                  earned[f] = 0 \/ f \in dropped \/ \E d \in BoardCalls : boardCall[d].step = "del" /\ boardCall[d].entry = {f}
        BY <1>4 DEF BoardInv, TagsFit
      <4>6. (\E d \in BoardCalls : boardCall[d].step = "del" /\ boardCall[d].entry = {f})
               => \E d \in BoardCalls : boardCall'[d].step = "del" /\ boardCall'[d].entry = {f}
        BY <2>8, <4>2
      <4> QED BY <1>2, <2>7, <4>1, <4>3, <4>4, <4>5, <4>6
    <3> QED BY <3>1, <3>2
  <2>12. ASSUME NEW d \in BoardCalls, NEW f \in Entries,
                boardCall'[d].step = "exec", ~boardCall'[d].dirty, boardCall'[d].entry = {f}
         PROVE  boardCall'[d].read.n = metadata'[f].n  BY <2>8, <2>12, <1>5, <2>4, <1>4 DEF BoardInv, TagsFit
  <2>13. TagsFit'  BY <2>11, <2>12 DEF TagsFit
  <2> QED BY <1>2, <1>4, <1>6, <2>10, <2>13, LocksElsewhere DEF BoardInv
<1> QED BY <1>7, <1>8

\* An entry is taken from the board; its metadata, or its end, follows.
LEMMA TakingKeeps == ASSUME BoardInv, NEW c \in BoardCalls, TakeFromBoard(c) PROVE BoardInv'
<1>1. BoardShape /\ BoardCallFits(c) /\ subject \in Subjects
  BY DEF BoardInv, BoardShape, BoardTypeOK
<1>2. /\ boardCall[c].step = "zrem"
      /\ UNCHANGED <<subject, mostViewed, metadata, earned, dropped, lock, lapsed, torn, boardFaults>>
  BY DEF TakeFromBoard
<1>3. PICK e \in Entries : e = Who(c) /\ boardCall[c].entry = {e}  BY <1>1, <1>2, WhoIs
<1>4. PICK step \in BoardSteps : Moves(c, step) /\ step = IF subject = "streams" THEN "down" ELSE "del"
  BY <1>1, <1>2 DEF TakeFromBoard, BoardSteps, BoardCallFits
<1>5. subject \in {"tags", "videos", "streams"} /\ step \in StepsOf[subject]
  <2>1. "zrem" \in StepsOf[subject]  BY <1>1, <1>2 DEF BoardCallFits
  <2> QED BY <1>1, <1>4, <2>1, StepsAndSubjects
<1>6. /\ boardCall' \in [BoardCalls -> BoardRecords] /\ MovedTo(c, step, boardCall'[c])
      /\ \A d \in BoardCalls \ {c} : boardCall'[d] = boardCall[d]
  BY <1>1, <1>4, BoardMoves
<1>7. boardCall'[c].step = step /\ boardCall'[c].entry = {e} /\ boardCall'[c].read = boardCall[c].read
  BY <1>3, <1>4, <1>6 DEF MovedTo
<1>8. board \in [Entries -> Nat] /\ board' = [board EXCEPT ![e] = 0]
  BY <1>1, <1>3 DEF BoardShape, BoardTypeOK, TakeFromBoard
<1>9. board' \in [Entries -> Nat] /\ board'[e] = 0 /\ \A f \in Entries \ {e} : board'[f] = board[f]
  BY <1>8
<1>10. BoardShape'
  BY <1>1, <1>2, <1>4, <1>5, <1>6, MovingFits, <1>9, ShapeStays DEF BoardShape, BoardTypeOK, Metas
<1>11. GiftsFit'  BY <1>2, <1>5 DEF GiftsFit
<1>12. \A d \in BoardCalls : boardCall'[d].entry = boardCall[d].entry /\ (d # c => boardCall'[d].step = boardCall[d].step)
  BY <1>3, <1>6, <1>7
<1>13. TagsFit'
  <2> SUFFICES ASSUME subject = "tags" PROVE TagsFit'  BY <1>2 DEF TagsFit
  <2>1. step = "del"  BY <1>4
  <2>2. ASSUME NEW f \in Entries
        PROVE  /\ metadata[f].n = earned[f]
               /\ ~torn /\ board'[f] > 0 => board'[f] = earned[f] /\ metadata[f].is
               /\ ~torn /\ board'[f] = 0 /\ boardFaults = 0 =>
                     earned[f] = 0 \/ f \in dropped \/ \E d \in BoardCalls : boardCall'[d].step = "del" /\ boardCall'[d].entry = {f}
    BY <1>7, <1>9, <2>1, <1>2, <1>12 DEF BoardInv, TagsFit
  <2>3. \A d \in BoardCalls : boardCall'[d].step = "exec" => boardCall'[d] = boardCall[d]  BY <1>6, <1>7, <2>1
  <2>4. \A d \in BoardCalls, f \in Entries :
           boardCall'[d].step = "exec" /\ ~boardCall'[d].dirty /\ boardCall'[d].entry = {f} => boardCall'[d].read.n = metadata[f].n
    BY <2>3 DEF BoardInv, TagsFit
  <2> QED BY <1>2, <2>2, <2>4 DEF TagsFit
<1>14. VideosFit'
  <2> SUFFICES ASSUME subject = "videos", ~torn, boardFaults = 0 PROVE VideosFit'  BY <1>2 DEF VideosFit
  <2>1. step = "del"  BY <1>4
  <2>2. Apart' /\ Apart  BY <1>12 DEF Apart, BoardInv, VideosFit
  <2>3. ASSUME NEW f \in Entries PROVE VideoShown(f)'
    BY <1>2, <1>7, <2>1, <1>12, <1>9 DEF VideoShown, BoardInv, VideosFit
  <2>4. ASSUME NEW d \in BoardCalls, NEW f \in Entries PROVE VideoAt(d, f)'
    <3>1. CASE d = c  BY <1>7, <1>9, <2>1, <3>1 DEF VideoAt
    <3>2. CASE d # c  BY <1>6, <3>2, <1>3, <2>2, <1>2, <1>9 DEF BoardInv, VideosFit, Apart, VideoAt
    <3> QED BY <3>1, <3>2
  <2>5. Ats("cut") \subseteq Ats("cut")'  BY <1>2, <1>6, <1>7, <2>1 DEF Ats
  <2>6. Uncut'  BY <1>9, <2>5, FewerStayUncut DEF BoardInv, VideosFit
  <2> QED BY <1>2, <2>2, <2>3, <2>4, <2>6 DEF VideosFit
<1>15. StreamsFit'
  <2> SUFFICES ASSUME subject = "streams", ~torn, boardFaults = 0 PROVE StreamsFit'  BY <1>2 DEF StreamsFit
  <2>1. step = "down"  BY <1>4
  <2>2. Apart'  BY <1>12 DEF Apart, BoardInv, StreamsFit
  <2>3. ASSUME NEW f \in Entries PROVE StreamKept(f)' /\ ViewersFit(f)'
    <3>1. StreamKept(f) /\ ViewersFit(f)  BY <1>2 DEF BoardInv, StreamsFit
    <3>2. StreamKept(f)'  BY <1>2, <3>1 DEF StreamKept
    <3>3. ViewersFit(f)'  BY <1>1, <1>2, <1>9, BoardNumbers, <1>6, <3>1 DEF ViewersFit
    <3> QED BY <3>2, <3>3
  <2>4. ASSUME NEW d \in BoardCalls, NEW f \in Entries PROVE StreamRead(d, f)'
    BY <1>2, <1>3, <1>7, <2>1, <1>6 DEF BoardInv, StreamsFit, StreamRead
  <2> QED BY <1>2, <2>2, <2>3, <2>4 DEF StreamsFit
<1> QED BY <1>2, <1>5, <1>10, <1>11, <1>13, <1>14, <1>15, LocksElsewhere DEF BoardInv

\* What is changed at one video leaves the others as they are, or cut off.
LEMMA OtherVideos ==
    ASSUME BoardInv, subject = "videos", ~torn, boardFaults = 0, NEW c \in BoardCalls, NEW e \in Entries,
           boardCall[c].entry = {e}, boardCall'[c].entry \in {{}, {e}},
           \A d \in BoardCalls \ {c} :
              /\ boardCall'[d].op = boardCall[d].op /\ boardCall'[d].step = boardCall[d].step
              /\ boardCall'[d].entry = boardCall[d].entry /\ boardCall'[d].points = boardCall[d].points,
           \A f \in Entries \ {e} : metadata'[f] = metadata[f] /\ board'[f] \in {board[f], 0}
    PROVE  /\ Apart' /\ \A d \in BoardCalls : boardCall[d].entry = {e} => d = c
           /\ \A f \in Entries \ {e} : VideoShown(f)'
           /\ \A d \in BoardCalls, f \in Entries : d # c \/ f # e => VideoAt(d, f)'
<1>1. Apart /\ (\A f \in Entries : VideoShown(f)) /\ \A d \in BoardCalls, f \in Entries : VideoAt(d, f)
  BY DEF BoardInv, VideosFit
<1>2. ASSUME NEW d \in BoardCalls, boardCall[d].entry = {e} PROVE d = c
  <2>1. boardCall[d].entry = boardCall[c].entry /\ boardCall[d].entry # {}  BY <1>2
  <2> QED BY <1>1, <2>1 DEF Apart
<1>3. Apart'
  <2> SUFFICES ASSUME NEW d \in BoardCalls, NEW h \in BoardCalls, boardCall'[d].entry = boardCall'[h].entry, boardCall'[d].entry # {}
               PROVE  d = h
    BY DEF Apart
  <2>1. boardCall'[d].entry = boardCall[d].entry /\ boardCall'[h].entry = boardCall[h].entry
    OBVIOUS
  <2> QED BY <1>1, <2>1 DEF Apart
<1>4. ASSUME NEW f \in Entries \ {e} PROVE VideoShown(f)'  BY <1>1 DEF VideoShown
<1>5. ASSUME NEW d \in BoardCalls, NEW f \in Entries, d # c \/ f # e PROVE VideoAt(d, f)'
  BY <1>5, <1>2, <1>1 DEF VideoAt
<1> QED BY <1>2, <1>3, <1>4, <1>5

LEMMA OtherStreams ==
    ASSUME BoardInv, subject = "streams", ~torn, boardFaults = 0, NEW c \in BoardCalls, NEW e \in Entries,
           boardCall[c].entry = {e}, boardCall'[c].entry \in {{}, {e}},
           \A d \in BoardCalls \ {c} : boardCall'[d] = boardCall[d],
           \A f \in Entries \ {e} :
              metadata'[f] = metadata[f] /\ board'[f] = board[f] /\ earned'[f] = earned[f] /\ mostViewed'[f] = mostViewed[f]
    PROVE  /\ Apart' /\ \A d \in BoardCalls : boardCall[d].entry = {e} => d = c
           /\ \A f \in Entries \ {e} : StreamKept(f)' /\ ViewersFit(f)'
           /\ \A d \in BoardCalls, f \in Entries : d # c \/ f # e => StreamRead(d, f)'
           /\ StreamKept(e) /\ ViewersFit(e) /\ StreamRead(c, e)
<1>1. /\ Apart /\ \A f \in Entries : StreamKept(f) /\ ViewersFit(f)
      /\ \A d \in BoardCalls, f \in Entries : StreamRead(d, f)
  BY DEF BoardInv, StreamsFit
<1>2. ASSUME NEW d \in BoardCalls, boardCall[d].entry = {e} PROVE d = c
  <2>1. boardCall[d].entry = boardCall[c].entry /\ boardCall[d].entry # {}  BY <1>2
  <2> QED BY <1>1, <2>1 DEF Apart
<1>3. Apart'
  <2> SUFFICES ASSUME NEW d \in BoardCalls, NEW h \in BoardCalls, boardCall'[d].entry = boardCall'[h].entry, boardCall'[d].entry # {}
               PROVE  d = h
    BY DEF Apart
  <2>1. boardCall'[d].entry = boardCall[d].entry /\ boardCall'[h].entry = boardCall[h].entry
    OBVIOUS
  <2> QED BY <1>1, <2>1 DEF Apart
<1>4. ASSUME NEW f \in Entries \ {e} PROVE StreamKept(f)' /\ ViewersFit(f)'  BY <1>1 DEF StreamKept, ViewersFit
<1>5. ASSUME NEW d \in BoardCalls, NEW f \in Entries, d # c \/ f # e PROVE StreamRead(d, f)'
  BY <1>5, <1>2, <1>1 DEF StreamRead
<1> QED BY <1>1, <1>2, <1>3, <1>4, <1>5

\* The key of a tag or a video is deleted.
LEMMA DeletingKeeps == ASSUME BoardInv, NEW c \in BoardCalls, DeleteMeta(c) PROVE BoardInv'
<1>1. BoardShape /\ BoardCallFits(c) /\ subject \in Subjects  BY DEF BoardInv, BoardShape, BoardTypeOK
<1>2. boardCall[c].step = "del" /\ UNCHANGED <<subject, board, mostViewed, dropped, lock, lapsed, boardFaults>>
  BY DEF DeleteMeta
<1>3. PICK e \in Entries : e = Who(c) /\ boardCall[c].entry = {e}  BY <1>1, <1>2, WhoIs
<1>4. subject \in {"tags", "videos"}
  <2>1. "del" \in StepsOf[subject]  BY <1>1, <1>2 DEF BoardCallFits
  <2> QED BY <1>1, <2>1, StepsAndSubjects
<1>5. PICK none \in Metas : none = NoMeta /\ none.n = 0
  <2>1. PICK m : m = NoMeta  OBVIOUS
  <2>2. m \in Metas /\ m.n = 0  BY <2>1 DEF NoMeta, Metas
  <2> QED BY <2>1, <2>2
<1>6. /\ metadata' = [metadata EXCEPT ![e] = none] /\ earned' = [earned EXCEPT ![e] = 0]
      /\ torn' = (torn \/ board[e] > 0) /\ Touches(c, e, "ended")
  BY <1>3, <1>5 DEF DeleteMeta
<1>7. board \in [Entries -> Nat] /\ earned \in [Entries -> Nat] /\ metadata \in [Entries -> Metas] /\ torn \in BOOLEAN
  BY <1>1 DEF BoardShape, BoardTypeOK, Metas
<1>8. /\ metadata' \in [Entries -> Metas] /\ earned' \in [Entries -> Nat] /\ torn' \in BOOLEAN
      /\ metadata'[e] = none /\ earned'[e] = 0
      /\ \A f \in Entries \ {e} : metadata'[f] = metadata[f] /\ earned'[f] = earned[f]
  BY <1>5, <1>6, <1>7
<1>9. /\ boardCall' \in [BoardCalls -> BoardRecords] /\ \A d \in BoardCalls : BoardCallFits(d)'
      /\ boardCall'[c].step = "ended" /\ boardCall'[c].entry = {}
      /\ \A d \in BoardCalls \ {c} :
                 /\ boardCall'[d].op = boardCall[d].op /\ boardCall'[d].step = boardCall[d].step
                 /\ boardCall'[d].entry = boardCall[d].entry /\ boardCall'[d].points = boardCall[d].points
                 /\ boardCall[d].entry = {e} => boardCall'[d].dirty
                 /\ boardCall[d].entry # {e} => boardCall'[d] = boardCall[d]
  BY <1>1, <1>2, <1>3, <1>6, TouchTurns
<1>10. BoardShape'  BY <1>1, <1>2, <1>7, <1>8, <1>9, ShapeStays DEF BoardShape, BoardTypeOK
<1>11. ASSUME ~torn' PROVE ~torn /\ board[e] = 0
  <2>1. ~torn /\ ~(board[e] > 0)  BY <1>6, <1>11
  <2> QED BY <1>7, <2>1
<1>12. GiftsFit' /\ StreamsFit'  BY <1>2, <1>4 DEF GiftsFit, StreamsFit
<1>13. TagsFit'
  <2> SUFFICES ASSUME subject = "tags" PROVE TagsFit'  BY <1>2 DEF TagsFit
  <2>1. ASSUME NEW f \in Entries
        PROVE  /\ metadata'[f].n = earned'[f]
               /\ ~torn' /\ board[f] > 0 => board[f] = earned'[f] /\ metadata'[f].is
               /\ ~torn' /\ board[f] = 0 /\ boardFaults = 0 =>
                     earned'[f] = 0 \/ f \in dropped \/ \E d \in BoardCalls : boardCall'[d].step = "del" /\ boardCall'[d].entry = {f}
    <3>1. CASE f = e  BY <1>5, <1>8, <1>11, <3>1
    <3>2. CASE f # e
      <4>1. (\E d \in BoardCalls : boardCall[d].step = "del" /\ boardCall[d].entry = {f})
               => \E d \in BoardCalls : boardCall'[d].step = "del" /\ boardCall'[d].entry = {f}
        BY <1>3, <1>9, <3>2
      <4>2. /\ metadata[f].n = earned[f]
            /\ ~torn /\ board[f] > 0 => board[f] = earned[f] /\ metadata[f].is
            /\ ~torn /\ board[f] = 0 /\ boardFaults = 0 =>
                  earned[f] = 0 \/ f \in dropped \/ \E d \in BoardCalls : boardCall[d].step = "del" /\ boardCall[d].entry = {f}
        BY DEF BoardInv, TagsFit
      <4> QED BY <1>8, <1>11, <3>2, <4>1, <4>2
    <3> QED BY <3>1, <3>2
  <2>2. ASSUME NEW d \in BoardCalls, NEW f \in Entries,
               boardCall'[d].step = "exec", ~boardCall'[d].dirty, boardCall'[d].entry = {f}
        PROVE  boardCall'[d].read.n = metadata'[f].n  BY <1>9, <2>2, <1>8 DEF BoardInv, TagsFit
  <2> QED BY <1>2, <2>1, <2>2 DEF TagsFit
<1>14. VideosFit'
  <2> SUFFICES ASSUME subject = "videos", ~torn', boardFaults = 0 PROVE VideosFit'  BY <1>2 DEF VideosFit
  <2>1. ~torn /\ board[e] = 0  BY <1>11
  <2>2. /\ Apart' /\ \A f \in Entries \ {e} : VideoShown(f)'
        /\ \A d \in BoardCalls, f \in Entries : d # c \/ f # e => VideoAt(d, f)'
    BY <1>2, <1>3, <1>8, <1>9, <2>1, OtherVideos
  <2>3. VideoShown(e)'  BY <1>2, <2>1 DEF VideoShown
  <2>4. VideoAt(c, e)'  BY <1>9 DEF VideoAt
  <2>5. Ats("cut") \subseteq Ats("cut")'  BY <1>2, <1>9 DEF Ats
  <2>6. Uncut'  BY <1>2, <2>1, <2>5, FewerStayUncut DEF BoardInv, VideosFit
  <2> QED BY <1>2, <2>2, <2>3, <2>4, <2>6 DEF VideosFit
<1> QED BY <1>2, <1>4, <1>10, <1>12, <1>13, <1>14, LocksElsewhere DEF BoardInv

\* A step of a request at a video that keeps the shape keeps the rest too, if it leaves that video
\* as it is to be and the board no longer than it may be.
LEMMA VideoStepKeeps ==
    ASSUME BoardInv, NEW c \in BoardCalls, NEW step \in BoardSteps, NEW e \in Entries, boardCall[c].entry = {e},
           boardCall[c].step \in {"upsert", "set", "zadd", "cut"}, step \in {"set", "zadd", "cut", "ended"}, Moves(c, step),
           step = "set" => boardCall[c].op = "record",
           UNCHANGED <<subject, mostViewed, lock, lapsed, torn, boardFaults>>,
           board' \in [Entries -> Nat], metadata' \in [Entries -> Metas], earned' \in [Entries -> Nat], dropped' \subseteq Entries,
           \A f \in Entries \ {e} : metadata'[f] = metadata[f] /\ board'[f] \in {board[f], 0},
           Apart /\ VideoAt(c, e) /\ VideoShown(e) /\ Uncut =>
              /\ step # "ended" => VideoAt(c, e)'
              /\ step = "ended" => board'[e] = 0 \/ (metadata'[e].is /\ metadata'[e].n = board'[e])
              /\ Uncut'
    PROVE  BoardInv'
<1>1. BoardShape /\ BoardCallFits(c) /\ subject \in Subjects  BY DEF BoardInv, BoardShape, BoardTypeOK
<1>2. subject = "videos" /\ step \in StepsOf[subject]  BY <1>1, StepsAndSubjects DEF BoardCallFits
<1>3. /\ boardCall' \in [BoardCalls -> BoardRecords] /\ MovedTo(c, step, boardCall'[c])
      /\ \A d \in BoardCalls \ {c} : boardCall'[d] = boardCall[d]
  BY <1>1, BoardMoves
<1>4. boardCall'[c].step = step /\ boardCall'[c].entry = (IF step = "ended" THEN {} ELSE {e})  BY <1>3 DEF MovedTo
<1>5. BoardShape'  BY <1>1, <1>2, <1>3, MovingFits, ShapeStays DEF BoardCallFits, BoardShape, BoardTypeOK
<1>6. GiftsFit' /\ TagsFit' /\ StreamsFit'  BY <1>2 DEF GiftsFit, TagsFit, StreamsFit
<1>7. VideosFit'
  <2> SUFFICES ASSUME ~torn, boardFaults = 0 PROVE VideosFit'  BY DEF VideosFit
  <2>1. Apart /\ VideoAt(c, e) /\ VideoShown(e) /\ Uncut  BY <1>2 DEF BoardInv, VideosFit
  <2>2. boardCall'[c].entry \in {{}, {e}}  BY <1>4
  <2>3. /\ Apart' /\ \A f \in Entries \ {e} : VideoShown(f)'
        /\ \A d \in BoardCalls, f \in Entries : d # c \/ f # e => VideoAt(d, f)'
    BY <1>2, <1>3, <2>2, OtherVideos
  <2>4. CASE step = "ended"  BY <2>1, <2>4, <1>4, <2>3 DEF VideoShown, VideoAt, VideosFit
  <2>5. CASE step # "ended"  BY <2>1, <2>5, <1>4, <2>3 DEF VideoShown, VideosFit
  <2> QED BY <2>4, <2>5
<1> QED BY <1>2, <1>5, <1>6, <1>7, LocksElsewhere DEF BoardInv

\* What a step at a video finds.
LEMMA AtVideo ==
    ASSUME BoardInv, NEW c \in BoardCalls, boardCall[c].step \in {"upsert", "set", "zadd", "cut"}
    PROVE  /\ Who(c) \in Entries /\ boardCall[c].entry = {Who(c)} /\ boardCall[c].points \in Nat
           /\ boardCall[c].step = "upsert" => boardCall[c].op = "record"
           /\ boardCall[c].step = "set" => boardCall[c].op \in {"record", "bulk"}
           /\ board \in [Entries -> Nat] /\ metadata \in [Entries -> Metas] /\ earned \in [Entries -> Nat]
           /\ dropped \subseteq Entries
<1>1. BoardShape /\ BoardCallFits(c)  BY DEF BoardInv, BoardShape
<1>2. boardCall[c].points \in Nat  BY <1>1, BoardAssumption DEF BoardCallFits
<1>3. /\ boardCall[c].step = "upsert" => boardCall[c].op = "record"
      /\ boardCall[c].step = "set" => boardCall[c].op \in {"record", "bulk"}
  BY <1>1 DEF BoardCallFits
<1>4. Who(c) \in Entries /\ boardCall[c].entry = {Who(c)}  BY <1>1, WhoIs
<1> QED BY <1>1, <1>2, <1>3, <1>4 DEF BoardShape, BoardTypeOK, Metas

\* A video is ranked, and its metadata is to be set.
LEMMA UpsertKeeps == ASSUME BoardInv, NEW c \in BoardCalls, UpsertVideo(c) PROVE BoardInv'
<1>1. /\ boardCall[c].step = "upsert" /\ Moves(c, "set") /\ "set" \in BoardSteps
      /\ UNCHANGED <<subject, mostViewed, metadata, earned, lock, lapsed, torn, boardFaults>>
  BY DEF UpsertVideo, BoardSteps
<1>2. PICK e \in Entries, p \in Nat : e = Who(c) /\ p = boardCall[c].points  BY <1>1, AtVideo
<1>3. /\ boardCall[c].entry = {e} /\ boardCall[c].op = "record" /\ board \in [Entries -> Nat] /\ dropped \subseteq Entries
      /\ metadata \in [Entries -> Metas] /\ earned \in [Entries -> Nat]
  BY <1>1, <1>2, AtVideo
<1>4. PICK scores \in [Entries -> Nat] : scores = [board EXCEPT ![e] = p]  BY <1>2, <1>3
<1>5. CutTo(scores)  BY <1>2, <1>4 DEF UpsertVideo
<1>6. /\ board' \in [Entries -> Nat] /\ dropped' \subseteq Entries
      /\ \A f \in Entries : board'[f] = scores[f] \/ board'[f] = 0
      /\ Cardinality({f \in Entries : board'[f] > 0}) <= TopN
  BY <1>3, <1>5, CutKeeps
<1>7. \A f \in Entries \ {e} : metadata'[f] = metadata[f] /\ board'[f] \in {board[f], 0}  BY <1>1, <1>3, <1>4, <1>6
<1>8. VideoAt(c, e)'  BY <1>3, <1>4, <1>1, BoardMoves, <1>2, <1>6 DEF BoardInv, MovedTo, VideoAt
<1>9. Uncut'  BY <1>6 DEF Uncut
<1> QED BY <1>1, <1>3, <1>6, <1>7, <1>8, <1>9, VideoStepKeeps

\* The metadata of a video is set.
LEMMA SettingKeeps == ASSUME BoardInv, NEW c \in BoardCalls, SetMeta(c) PROVE BoardInv'
<1>1. boardCall[c].step = "set" /\ UNCHANGED <<subject, board, mostViewed, dropped, lock, lapsed, torn, boardFaults>>
  BY DEF SetMeta
<1>2. PICK e \in Entries, p \in Nat : e = Who(c) /\ p = boardCall[c].points  BY <1>1, AtVideo
<1>3. /\ boardCall[c].entry = {e} /\ board \in [Entries -> Nat] /\ dropped \subseteq Entries
      /\ metadata \in [Entries -> Metas] /\ earned \in [Entries -> Nat] /\ boardCall[c].op \in {"record", "bulk"}
  BY <1>1, <1>2, AtVideo
<1>4. PICK meta \in Metas : meta = [is |-> TRUE, n |-> p, live |-> FALSE] /\ meta.is /\ meta.n = p
  <2>1. PICK m : m = [is |-> TRUE, n |-> p, live |-> FALSE]  OBVIOUS
  <2>2. m \in Metas /\ m.is /\ m.n = p  BY <1>2, <2>1 DEF Metas
  <2> QED BY <2>1, <2>2
<1>5. PICK step \in BoardSteps : step = (IF boardCall[c].op = "bulk" THEN "zadd" ELSE "ended") /\ Moves(c, step)
  BY DEF SetMeta, BoardSteps
<1>6. metadata' = [metadata EXCEPT ![e] = meta] /\ earned' = [earned EXCEPT ![e] = p]  BY <1>2, <1>4 DEF SetMeta
<1>7. /\ metadata' \in [Entries -> Metas] /\ earned' \in [Entries -> Nat] /\ metadata'[e] = meta
      /\ \A f \in Entries \ {e} : metadata'[f] = metadata[f]
  BY <1>2, <1>3, <1>6
<1>8. MovedTo(c, step, boardCall'[c]) /\ \A d \in BoardCalls \ {c} : boardCall'[d] = boardCall[d]
  BY <1>5, BoardMoves DEF BoardInv
<1>9. boardCall'[c].step = step  BY <1>8 DEF MovedTo
<1>10. ASSUME Uncut PROVE Uncut'  BY <1>1, <1>8, <1>10, FewerStayUncut DEF Ats
<1>11. ASSUME step # "ended" PROVE VideoAt(c, e)'
  BY <1>5, <1>11, <1>2, <1>8, <1>4, <1>7, <1>9 DEF MovedTo, VideoAt
<1>12. ASSUME step = "ended", VideoAt(c, e) PROVE board'[e] = 0 \/ (metadata'[e].is /\ metadata'[e].n = board'[e])
  BY <1>3, <1>5, <1>12, <1>1, <1>2, <1>4, <1>7 DEF VideoAt
<1>13. step \in {"zadd", "ended"}  BY <1>5
<1>14. \A f \in Entries \ {e} : metadata'[f] = metadata[f] /\ board'[f] \in {board[f], 0}  BY <1>1, <1>7
<1> QED BY <1>1, <1>3, <1>5, <1>7, <1>10, <1>11, <1>12, <1>13, <1>14, VideoStepKeeps

\* A video of a bulk is ranked, the board is to be cut.
LEMMA AddingKeeps == ASSUME BoardInv, NEW c \in BoardCalls, AddBulk(c) PROVE BoardInv'
<1>1. /\ boardCall[c].step = "zadd" /\ Moves(c, "cut") /\ "cut" \in BoardSteps
      /\ UNCHANGED <<subject, mostViewed, metadata, earned, dropped, lock, lapsed, torn, boardFaults>>
  BY DEF AddBulk, BoardSteps
<1>2. PICK e \in Entries, p \in Nat : e = Who(c) /\ p = boardCall[c].points  BY <1>1, AtVideo
<1>3. /\ boardCall[c].entry = {e} /\ board \in [Entries -> Nat] /\ dropped \subseteq Entries
      /\ metadata \in [Entries -> Metas] /\ earned \in [Entries -> Nat]
  BY <1>1, <1>2, AtVideo
<1>4. board' = [board EXCEPT ![e] = p]  BY <1>2 DEF AddBulk
<1>5. board' \in [Entries -> Nat] /\ board'[e] = p /\ \A f \in Entries \ {e} : board'[f] = board[f]  BY <1>2, <1>3, <1>4
<1>6. MovedTo(c, "cut", boardCall'[c])  BY <1>1, BoardMoves DEF BoardInv
<1>7. boardCall'[c].step = "cut" /\ boardCall'[c].points = p  BY <1>2, <1>6 DEF MovedTo
<1>8. Uncut'
  <2>1. Ats("cut")' # {}  BY <1>7 DEF Ats
  <2> QED BY <2>1 DEF Uncut
<1>9. ASSUME VideoAt(c, e) PROVE VideoAt(c, e)'  BY <1>1, <1>2, <1>3, <1>9, <1>5, <1>7 DEF VideoAt
<1>10. \A f \in Entries \ {e} : metadata'[f] = metadata[f] /\ board'[f] \in {board[f], 0}  BY <1>1, <1>5
<1> QED BY <1>1, <1>3, <1>5, <1>8, <1>9, <1>10, VideoStepKeeps

\* The board of a bulk is cut.
LEMMA CuttingKeeps == ASSUME BoardInv, NEW c \in BoardCalls, CutBulk(c) PROVE BoardInv'
<1>1. /\ boardCall[c].step = "cut" /\ Moves(c, "ended") /\ "ended" \in BoardSteps /\ CutTo(board)
      /\ UNCHANGED <<subject, mostViewed, metadata, earned, lock, lapsed, torn, boardFaults>>
  BY DEF CutBulk, BoardSteps
<1>2. PICK e \in Entries, p \in Nat : e = Who(c) /\ p = boardCall[c].points  BY <1>1, AtVideo
<1>3. /\ boardCall[c].entry = {e} /\ board \in [Entries -> Nat] /\ dropped \subseteq Entries
      /\ metadata \in [Entries -> Metas] /\ earned \in [Entries -> Nat]
  BY <1>1, <1>2, AtVideo
<1>4. /\ board' \in [Entries -> Nat] /\ dropped' \subseteq Entries
      /\ \A f \in Entries : board'[f] = board[f] \/ board'[f] = 0
      /\ Cardinality({f \in Entries : board'[f] > 0}) <= TopN
  BY <1>1, <1>3, CutKeeps
<1>5. Uncut'  BY <1>4 DEF Uncut
<1>6. ASSUME VideoAt(c, e) PROVE board'[e] = 0 \/ (metadata'[e].is /\ metadata'[e].n = board'[e])
  BY <1>1, <1>2, <1>3, <1>6, <1>4 DEF VideoAt
<1>7. \A f \in Entries \ {e} : metadata'[f] = metadata[f] /\ board'[f] \in {board[f], 0}  BY <1>1, <1>4
<1> QED BY <1>1, <1>3, <1>4, <1>5, <1>6, <1>7, VideoStepKeeps

\* A stream starts.
LEMMA StartingKeeps == ASSUME BoardInv, NEW c \in BoardCalls, UpsertLiveStreamMeta(c) PROVE BoardInv'
<1>1. /\ boardCall[c].step = "new" /\ subject = "streams" /\ Moves(c, "ended") /\ "ended" \in BoardSteps
      /\ UNCHANGED <<subject, board, mostViewed, dropped, lock, lapsed, boardFaults>>
  BY DEF UpsertLiveStreamMeta, BoardSteps
<1>4. /\ BoardShape /\ BoardCallFits(c) /\ subject \in Subjects /\ metadata \in [Entries -> Metas]
      /\ earned \in [Entries -> Nat]
  BY DEF BoardInv, BoardShape, BoardTypeOK, Metas
<1>2. PICK e \in Entries, n \in Nat :
        /\ metadata' = [metadata EXCEPT ![e] = [is |-> TRUE, n |-> n, live |-> TRUE]]
        /\ earned' = [earned EXCEPT ![e] = n]
        /\ torn' = (torn \/ \E d \in BoardCalls : boardCall[d].entry = {e})
  <2>1. \A f \in Entries : metadata[f].n \in Nat  BY <1>4 DEF Metas
  <2> QED BY <2>1 DEF UpsertLiveStreamMeta
<1>3. PICK meta \in Metas : meta = [is |-> TRUE, n |-> n, live |-> TRUE] /\ meta.is /\ meta.n = n
  <2>1. PICK m : m = [is |-> TRUE, n |-> n, live |-> TRUE]  OBVIOUS
  <2>2. m \in Metas /\ m.is /\ m.n = n  BY <2>1 DEF Metas
  <2> QED BY <2>1, <2>2
<1>5. /\ metadata' \in [Entries -> Metas] /\ metadata'[e] = meta /\ \A f \in Entries \ {e} : metadata'[f] = metadata[f]
      /\ earned' \in [Entries -> Nat] /\ earned'[e] = n /\ \A f \in Entries \ {e} : earned'[f] = earned[f]
  BY <1>2, <1>3, <1>4
<1>11. torn' \in BOOLEAN /\ (~torn' => ~torn /\ \A d \in BoardCalls : boardCall[d].entry # {e})  BY <1>2
<1>6. /\ boardCall' \in [BoardCalls -> BoardRecords] /\ MovedTo(c, "ended", boardCall'[c])
      /\ \A d \in BoardCalls \ {c} : boardCall'[d] = boardCall[d]
  BY <1>1, <1>4, BoardMoves
<1>7. boardCall'[c].step = "ended" /\ boardCall'[c].entry = {} /\ boardCall[c].entry = {}
  BY <1>1, <1>4, <1>6 DEF MovedTo, BoardCallFits
<1>8. BoardShape'
  BY <1>1, <1>4, <1>6, StepsAndSubjects, MovingFits, <1>5, <1>11, ShapeStays DEF BoardShape, BoardTypeOK
<1>9. GiftsFit' /\ TagsFit' /\ VideosFit'  BY <1>1 DEF GiftsFit, TagsFit, VideosFit
<1>10. StreamsFit'
  <2> SUFFICES ASSUME ~torn', boardFaults = 0 PROVE StreamsFit'  BY <1>1 DEF StreamsFit
  <2>6. ~torn /\ \A d \in BoardCalls : boardCall[d].entry # {e}  BY <1>11
  <2>1. /\ Apart /\ \A f \in Entries : StreamKept(f) /\ ViewersFit(f)
        /\ \A d \in BoardCalls, f \in Entries : StreamRead(d, f)
    BY <1>1, <2>6 DEF BoardInv, StreamsFit
  <2>2. \A d \in BoardCalls : boardCall'[d].entry = boardCall[d].entry  BY <1>6, <1>7
  <2>3. Apart'  BY <2>1, <2>2 DEF Apart
  <2>4. ASSUME NEW f \in Entries PROVE StreamKept(f)' /\ ViewersFit(f)'
    <3>1. StreamKept(f) /\ ViewersFit(f)  BY <2>1
    <3>2. StreamKept(f)'  BY <1>1, <1>2, <1>3, <1>5, <3>1 DEF StreamKept
    <3>3. \A d \in BoardCalls : boardCall[d].step = "mostViewed" => boardCall'[d] = boardCall[d]  BY <1>1, <1>6
    <3>4. ViewersFit(f)'  BY <1>1, <3>1, <3>3 DEF ViewersFit
    <3> QED BY <3>2, <3>4
  <2>5. ASSUME NEW d \in BoardCalls, NEW f \in Entries PROVE StreamRead(d, f)'
    BY <1>6, <1>7, <2>1, <2>6, <1>5 DEF StreamRead
  <2> QED BY <2>3, <2>4, <2>5 DEF StreamsFit
<1> QED BY <1>1, <1>8, <1>9, <1>10, LocksElsewhere DEF BoardInv

\* What a step at a stream finds.
LEMMA AtStream ==
    ASSUME BoardInv, NEW c \in BoardCalls, boardCall[c].step \in {"active", "mostViewed", "read", "gift", "down"}
    PROVE  /\ Who(c) \in Entries /\ boardCall[c].entry = {Who(c)} /\ boardCall[c].points \in Nat /\ boardCall[c].read \in Metas
           /\ boardCall[c].step \in {"active", "mostViewed"} => boardCall[c].points \in Points
           /\ board \in [Entries -> Nat] /\ metadata \in [Entries -> Metas] /\ earned \in [Entries -> Nat]
           /\ mostViewed \in [Entries -> Nat] /\ subject = "streams" /\ boardCall[c] \in BoardRecords
<1>1. BoardShape /\ BoardCallFits(c) /\ subject \in Subjects  BY DEF BoardInv, BoardShape, BoardTypeOK
<1>2. subject = "streams"  BY <1>1, StepsAndSubjects DEF BoardCallFits
<1>3. boardCall[c] \in BoardRecords  BY <1>1 DEF BoardShape
<1>4. boardCall[c].points \in Nat /\ boardCall[c].read \in Metas  BY <1>3 DEF BoardRecords
<1>5. boardCall[c].step \in {"active", "mostViewed"} => boardCall[c].points \in Points  BY <1>1 DEF BoardCallFits
<1>6. Who(c) \in Entries /\ boardCall[c].entry = {Who(c)}  BY <1>1, WhoIs
<1> QED BY <1>1, <1>2, <1>3, <1>4, <1>5, <1>6 DEF BoardShape, BoardTypeOK, Metas

\* A step of a request at a stream leaves the others as they are.
LEMMA StreamStepKeeps ==
    ASSUME BoardInv, NEW c \in BoardCalls, NEW e \in Entries, boardCall[c].entry = {e}, subject = "streams",
           boardCall'[c].entry \in {{}, {e}}, boardCall' \in [BoardCalls -> BoardRecords], BoardCallFits(c)',
           \A d \in BoardCalls \ {c} : boardCall'[d] = boardCall[d],
           UNCHANGED <<subject, dropped, lock, lapsed, torn, boardFaults>>,
           board' \in [Entries -> Nat], mostViewed' \in [Entries -> Nat], earned' \in [Entries -> Nat],
           metadata' \in [Entries -> Metas],
           \A f \in Entries \ {e} :
              metadata'[f] = metadata[f] /\ board'[f] = board[f] /\ earned'[f] = earned[f] /\ mostViewed'[f] = mostViewed[f],
           (\A d \in BoardCalls : boardCall[d].entry = {e} => d = c) /\ StreamKept(e) /\ ViewersFit(e) /\ StreamRead(c, e)
              => StreamKept(e)' /\ ViewersFit(e)' /\ StreamRead(c, e)'
    PROVE  BoardInv'
<1>1. BoardShape  BY DEF BoardInv
<1>2. BoardShape'
  <2>1. ASSUME NEW d \in BoardCalls \ {c} PROVE BoardCallFits(d)'  BY <1>1 DEF BoardShape, BoardCallFits
  <2> QED BY <1>1, <2>1, ShapeStays DEF BoardShape, BoardTypeOK
<1>3. GiftsFit' /\ TagsFit' /\ VideosFit'  BY DEF GiftsFit, TagsFit, VideosFit
<1>4. StreamsFit'  BY OtherStreams DEF StreamsFit
<1> QED BY <1>2, <1>3, <1>4, LocksElsewhere DEF BoardInv

\* What a request at a stream is when it goes on to a step.
LEMMA StreamMoves ==
    ASSUME BoardInv, NEW c \in BoardCalls, NEW step \in {"mostViewed", "ended"}, NEW e \in Entries,
           boardCall[c].entry = {e}, boardCall[c].step \in {"active", "mostViewed", "gift", "down"}, Moves(c, step), subject' = subject,
           step = "mostViewed" => boardCall[c].step = "active"
    PROVE  /\ boardCall' \in [BoardCalls -> BoardRecords] /\ BoardCallFits(c)' /\ boardCall'[c].step = step
           /\ boardCall'[c].entry = (IF step = "ended" THEN {} ELSE {e})
           /\ step # "ended" => boardCall'[c].points = boardCall[c].points
           /\ \A d \in BoardCalls \ {c} : boardCall'[d] = boardCall[d]
<1>1. BoardShape /\ subject \in Subjects /\ step \in BoardSteps  BY DEF BoardInv, BoardShape, BoardTypeOK, BoardSteps
<1>2. subject = "streams" /\ (step = "mostViewed" => boardCall[c].points \in Points)  BY AtStream
<1>3. step \in StepsOf[subject]  BY <1>1, <1>2, StepsAndSubjects
<1>4. /\ boardCall' \in [BoardCalls -> BoardRecords] /\ MovedTo(c, step, boardCall'[c])
      /\ \A d \in BoardCalls \ {c} : boardCall'[d] = boardCall[d]
  BY <1>1, BoardMoves
<1>5. BoardCallFits(c)'  BY <1>1, <1>2, <1>3, <1>4, MovingFits
<1> QED BY <1>4, <1>5 DEF MovedTo

\* The viewers of now are set, the most of today to follow.
LEMMA ActiveKeeps == ASSUME BoardInv, NEW c \in BoardCalls, SetActive(c) PROVE BoardInv'
<1>1. /\ boardCall[c].step = "active" /\ Moves(c, "mostViewed")
      /\ UNCHANGED <<subject, mostViewed, metadata, earned, dropped, lock, lapsed, torn, boardFaults>>
  BY DEF SetActive
<1>2. PICK e \in Entries, p \in Nat : e = Who(c) /\ p = boardCall[c].points /\ boardCall[c].entry = {e}  BY <1>1, AtStream
<1>3. /\ board \in [Entries -> Nat] /\ metadata \in [Entries -> Metas] /\ earned \in [Entries -> Nat]
      /\ mostViewed \in [Entries -> Nat] /\ subject = "streams"
  BY <1>1, AtStream
<1>4. board' = [board EXCEPT ![e] = p]  BY <1>2 DEF SetActive
<1>5. board' \in [Entries -> Nat] /\ board'[e] = p /\ \A f \in Entries \ {e} : board'[f] = board[f]  BY <1>2, <1>3, <1>4
<1>6. /\ boardCall' \in [BoardCalls -> BoardRecords] /\ BoardCallFits(c)' /\ boardCall'[c].step = "mostViewed"
      /\ boardCall'[c].entry = {e} /\ boardCall'[c].points = p /\ \A d \in BoardCalls \ {c} : boardCall'[d] = boardCall[d]
  BY <1>1, <1>2, StreamMoves
<1>7. board'[e] <= boardCall'[c].points  BY <1>2, <1>5, <1>6
<1>8. ViewersFit(e)' /\ StreamRead(c, e)'  BY <1>6, <1>7 DEF ViewersFit, StreamRead
<1>9. StreamKept(e) => StreamKept(e)'  BY <1>1 DEF StreamKept
<1> QED BY <1>1, <1>2, <1>3, <1>5, <1>6, <1>8, <1>9, StreamStepKeeps

\* The most viewers of today are raised.
LEMMA RaisingKeeps == ASSUME BoardInv, NEW c \in BoardCalls, RaisePeak(c) PROVE BoardInv'
<1>1. /\ boardCall[c].step = "mostViewed" /\ Moves(c, "ended")
      /\ UNCHANGED <<subject, board, metadata, earned, dropped, lock, lapsed, torn, boardFaults>>
  BY DEF RaisePeak
<1>2. PICK e \in Entries, p \in Nat : e = Who(c) /\ p = boardCall[c].points /\ boardCall[c].entry = {e}  BY <1>1, AtStream
<1>3. /\ board \in [Entries -> Nat] /\ metadata \in [Entries -> Metas] /\ earned \in [Entries -> Nat]
      /\ mostViewed \in [Entries -> Nat] /\ subject = "streams"
  BY <1>1, AtStream
<1>4. PICK now \in Nat, most \in Nat, n \in Nat : now = board[e] /\ most = mostViewed[e] /\ n = IF most < p THEN p ELSE most  BY <1>2, <1>3
<1>5. mostViewed' = [mostViewed EXCEPT ![e] = n]  BY <1>2, <1>3, <1>4 DEF RaisePeak
<1>6. mostViewed' \in [Entries -> Nat] /\ mostViewed'[e] = n /\ \A f \in Entries \ {e} : mostViewed'[f] = mostViewed[f]
  BY <1>3, <1>4, <1>5
<1>7. /\ boardCall' \in [BoardCalls -> BoardRecords] /\ BoardCallFits(c)' /\ boardCall'[c].step = "ended"
      /\ boardCall'[c].entry = {} /\ \A d \in BoardCalls \ {c} : boardCall'[d] = boardCall[d]
  BY <1>1, <1>2, StreamMoves
<1>8. StreamRead(c, e)'  BY <1>7 DEF StreamRead
<1>9. ASSUME \A d \in BoardCalls : boardCall[d].entry = {e} => d = c, ViewersFit(e) PROVE ViewersFit(e)'
  BY <1>2, <1>4, <1>9, <1>1, <1>6 DEF ViewersFit
<1>10. StreamKept(e) => StreamKept(e)'  BY <1>1 DEF StreamKept
<1> QED BY <1>1, <1>2, <1>3, <1>6, <1>7, <1>8, <1>9, <1>10, StreamStepKeeps

\* The metadata of a stream is read.
LEMMA ReadingKeeps == ASSUME BoardInv, NEW c \in BoardCalls, ReadMeta(c) PROVE BoardInv'
<1>1. /\ boardCall[c].step = "read"
      /\ UNCHANGED <<subject, board, mostViewed, metadata, earned, dropped, lock, lapsed, torn, boardFaults>>
  BY DEF ReadMeta
<1>2. PICK e \in Entries : e = Who(c) /\ boardCall[c].entry = {e}  BY <1>1, AtStream
<1>3. /\ board \in [Entries -> Nat] /\ metadata \in [Entries -> Metas] /\ earned \in [Entries -> Nat]
      /\ mostViewed \in [Entries -> Nat] /\ subject = "streams" /\ boardCall[c] \in BoardRecords
  BY <1>1, AtStream
<1>4. BoardShape /\ BoardCallFits(c) /\ subject \in Subjects  BY DEF BoardInv, BoardShape, BoardTypeOK
<1>5. PICK meta \in Metas : meta = metadata[e]  BY <1>3
<1>6. boardCall[c].op \in {"gift", "end"}  BY <1>1, <1>4 DEF BoardCallFits
<1>7. \E new \in BoardRecords :
         /\ boardCall' = [boardCall EXCEPT ![c] = new]
         /\ \/ new.entry = {} /\ new.step = "ended"
            \/ /\ new.entry = {e} /\ new.read = meta
               /\ \/ new.op = "end" /\ new.step = "zrem"
                  \/ new.step = "gift" /\ meta.is
  <2>1. CASE boardCall[c].op = "end"
    <3>1. PICK new : new = [boardCall[c] EXCEPT !.step = "zrem", !.read = meta]  OBVIOUS
    <3>2. boardCall' = [boardCall EXCEPT ![c] = new]  BY <1>2, <1>5, <2>1, <3>1 DEF ReadMeta
    <3>3. new \in BoardRecords /\ new.entry = {e} /\ new.read = meta /\ new.op = "end" /\ new.step = "zrem"
      BY <1>2, <1>3, <2>1, <3>1 DEF BoardRecords, BoardSteps
    <3> QED BY <3>2, <3>3
  <2>2. CASE boardCall[c].op # "end" /\ meta.is
    <3>1. PICK new : new = [boardCall[c] EXCEPT !.step = "gift", !.read = meta]  OBVIOUS
    <3>2. boardCall' = [boardCall EXCEPT ![c] = new]  BY <1>2, <1>5, <2>2, <3>1 DEF ReadMeta
    <3>3. new \in BoardRecords /\ new.entry = {e} /\ new.read = meta /\ new.step = "gift"
      BY <1>2, <1>3, <3>1 DEF BoardRecords, BoardSteps
    <3> QED BY <2>2, <3>2, <3>3
  <2>3. CASE boardCall[c].op # "end" /\ ~meta.is
    <3>1. PICK new \in BoardRecords : new = Finished(c) /\ new.step = "ended" /\ new.entry = {}
      <4>1. "ended" \in BoardSteps  BY DEF BoardSteps
      <4> QED BY <1>4, <4>1, MovedRecord DEF MovedTo
    <3>2. boardCall' = [boardCall EXCEPT ![c] = new]  BY <1>2, <1>5, <2>3, <3>1 DEF ReadMeta
    <3> QED BY <3>1, <3>2
  <2> QED BY <2>1, <2>2, <2>3
<1>8. PICK new \in BoardRecords :
         /\ boardCall' = [boardCall EXCEPT ![c] = new]
         /\ \/ new.entry = {} /\ new.step = "ended"
            \/ /\ new.entry = {e} /\ new.read = meta
               /\ \/ new.op = "end" /\ new.step = "zrem"
                  \/ new.step = "gift" /\ meta.is
  BY <1>7
<1>9. /\ boardCall' \in [BoardCalls -> BoardRecords] /\ boardCall'[c] = new
      /\ \A d \in BoardCalls \ {c} : boardCall'[d] = boardCall[d]
  BY <1>4, <1>8, BoardTurns
<1>10. BoardCallFits(c)'  BY <1>3, <1>8, <1>1, <1>9 DEF StepsOf, BoardCallFits
<1>11. boardCall'[c].entry \in {{}, {e}}  BY <1>8, <1>9
<1>12. StreamRead(c, e)'  BY <1>9, <1>8, <1>1, <1>5 DEF StreamRead
<1>13. StreamKept(e) => StreamKept(e)'  BY <1>1 DEF StreamKept
<1>14. ASSUME ViewersFit(e) PROVE ViewersFit(e)'  BY <1>1, <1>9, <1>14 DEF ViewersFit
<1> QED BY <1>1, <1>2, <1>3, <1>9, <1>10, <1>11, <1>12, <1>13, <1>14, StreamStepKeeps

\* A gift is counted over what was read.
LEMMA GiftKeeps == ASSUME BoardInv, NEW c \in BoardCalls, WriteGift(c) PROVE BoardInv'
<1>1. /\ boardCall[c].step = "gift" /\ Moves(c, "ended")
      /\ UNCHANGED <<subject, board, mostViewed, dropped, lock, lapsed, torn, boardFaults>>
  BY DEF WriteGift
<1>2. PICK e \in Entries, was \in Metas : e = Who(c) /\ was = boardCall[c].read /\ boardCall[c].entry = {e}  BY <1>1, AtStream
<1>3. /\ board \in [Entries -> Nat] /\ metadata \in [Entries -> Metas] /\ earned \in [Entries -> Nat]
      /\ mostViewed \in [Entries -> Nat] /\ subject = "streams"
  BY <1>1, AtStream
<1>4. PICK meta \in Metas : meta = [was EXCEPT !.n = @ + 1] /\ meta.n = was.n + 1 /\ meta.is = was.is
  <2>1. PICK m : m = [was EXCEPT !.n = @ + 1]  OBVIOUS
  <2>2. m \in Metas /\ m.n = was.n + 1 /\ m.is = was.is  BY <1>2, <2>1 DEF Metas
  <2> QED BY <2>1, <2>2
<1>5. metadata' = [metadata EXCEPT ![e] = meta] /\ earned' = [earned EXCEPT ![e] = @ + 1]  BY <1>2, <1>4 DEF WriteGift
<1>6. /\ metadata' \in [Entries -> Metas] /\ earned' \in [Entries -> Nat]
      /\ metadata'[e] = meta /\ earned'[e] = earned[e] + 1
      /\ \A f \in Entries \ {e} : metadata'[f] = metadata[f] /\ earned'[f] = earned[f]
  BY <1>3, <1>4, <1>5
<1>7. /\ boardCall' \in [BoardCalls -> BoardRecords] /\ BoardCallFits(c)' /\ boardCall'[c].step = "ended"
      /\ boardCall'[c].entry = {} /\ \A d \in BoardCalls \ {c} : boardCall'[d] = boardCall[d]
  BY <1>1, <1>2, StreamMoves
<1>8. StreamRead(c, e)'  BY <1>7 DEF StreamRead
<1>9. ASSUME StreamKept(e), StreamRead(c, e) PROVE StreamKept(e)'
  BY <1>1, <1>2, <1>9, <1>4, <1>6 DEF StreamKept, StreamRead
<1>10. ASSUME ViewersFit(e) PROVE ViewersFit(e)'  BY <1>1, <1>7, <1>10 DEF ViewersFit
<1> QED BY <1>1, <1>2, <1>3, <1>6, <1>7, <1>8, <1>9, <1>10, StreamStepKeeps

\* A stream has ended: what was read is written back.
LEMMA EndingKeeps == ASSUME BoardInv, NEW c \in BoardCalls, WriteEnd(c) PROVE BoardInv'
<1>1. /\ boardCall[c].step = "down" /\ Moves(c, "ended")
      /\ UNCHANGED <<subject, board, mostViewed, earned, dropped, lock, lapsed, torn, boardFaults>>
  BY DEF WriteEnd
<1>2. PICK e \in Entries, was \in Metas : e = Who(c) /\ was = boardCall[c].read /\ boardCall[c].entry = {e}  BY <1>1, AtStream
<1>3. /\ board \in [Entries -> Nat] /\ metadata \in [Entries -> Metas] /\ earned \in [Entries -> Nat]
      /\ mostViewed \in [Entries -> Nat] /\ subject = "streams"
  BY <1>1, AtStream
<1>4. PICK meta \in Metas : meta = [was EXCEPT !.live = FALSE] /\ meta.n = was.n /\ meta.is = was.is
  <2>1. PICK m : m = [was EXCEPT !.live = FALSE]  OBVIOUS
  <2>2. m \in Metas /\ m.n = was.n /\ m.is = was.is  BY <1>2, <2>1 DEF Metas
  <2> QED BY <2>1, <2>2
<1>5. metadata' = IF was.is THEN [metadata EXCEPT ![e] = meta] ELSE metadata  BY <1>2, <1>4 DEF WriteEnd
<1>6. /\ metadata' \in [Entries -> Metas] /\ metadata'[e] = (IF was.is THEN meta ELSE metadata[e])
      /\ \A f \in Entries \ {e} : metadata'[f] = metadata[f]
  BY <1>3, <1>4, <1>5
<1>7. /\ boardCall' \in [BoardCalls -> BoardRecords] /\ BoardCallFits(c)' /\ boardCall'[c].step = "ended"
      /\ boardCall'[c].entry = {} /\ \A d \in BoardCalls \ {c} : boardCall'[d] = boardCall[d]
  BY <1>1, <1>2, StreamMoves
<1>8. StreamRead(c, e)'  BY <1>7 DEF StreamRead
<1>9. ASSUME StreamKept(e), StreamRead(c, e) PROVE StreamKept(e)'
  BY <1>1, <1>2, <1>9, <1>4, <1>6 DEF StreamKept, StreamRead
<1>10. ASSUME ViewersFit(e) PROVE ViewersFit(e)'  BY <1>1, <1>7, <1>10 DEF ViewersFit
<1> QED BY <1>1, <1>2, <1>3, <1>6, <1>7, <1>8, <1>9, <1>10, StreamStepKeeps

\* The locks.
LEMMA LockingKeeps ==
    ASSUME BoardInv, \/ \E c \in BoardCalls : Acquire(c) \/ Release(c)
                     \/ LockExpires
    PROVE  BoardInv'
<1>1. BoardShape /\ subject \in Subjects /\ (\A c \in BoardCalls : BoardCallFits(c)) /\ LocksFit
  BY DEF BoardInv, BoardShape, BoardTypeOK
<1>2. SUFFICES ASSUME \/ \E c \in BoardCalls : Acquire(c) \/ Release(c)
                      \/ LockExpires
               PROVE  /\ subject \in {"refresh", "reset"} \/ LockExpires
                      /\ UNCHANGED <<subject, board, mostViewed, metadata, earned, dropped, torn>>
                      /\ boardCall' = boardCall \/ subject \in {"refresh", "reset"}
                      /\ BoardShape' /\ LocksFit' /\ boardFaults' \in {boardFaults, boardFaults + 1}
  <2>1. /\ UNCHANGED <<subject, board, mostViewed, metadata, earned, dropped, torn>>
        /\ boardCall' = boardCall \/ subject \in {"refresh", "reset"}
        /\ BoardShape' /\ LocksFit' /\ boardFaults' \in {boardFaults, boardFaults + 1}
    BY <1>2
  <2>2. boardFaults' = 0 => boardFaults = 0  BY <1>1, <2>1, BoardNumbers
  <2>3. CASE subject \in {"refresh", "reset"}
    BY <2>1, <2>3 DEF GiftsFit, TagsFit, VideosFit, StreamsFit, BoardInv
  <2>4. CASE boardCall' = boardCall
    <3>1. GiftsFit'  BY <2>1 DEF BoardInv, GiftsFit
    <3>2. TagsFit'  BY <2>1, <2>2, <2>4 DEF BoardInv, TagsFit
    <3>3. VideosFit'  BY <2>1, <2>2, <2>4 DEF BoardInv, VideosFit, Apart, Uncut, VideoShown, VideoAt, Ats
    <3>4. StreamsFit'  BY <2>1, <2>2, <2>4 DEF BoardInv, StreamsFit, Apart, StreamKept, ViewersFit, StreamRead
    <3> QED BY <2>1, <3>1, <3>2, <3>3, <3>4 DEF BoardInv
  <2> QED BY <2>1, <2>3, <2>4
<1>3. ASSUME NEW c \in BoardCalls, Acquire(c)
      PROVE  /\ subject \in {"refresh", "reset"} /\ BoardShape' /\ LocksFit' /\ boardFaults' = boardFaults
             /\ UNCHANGED <<subject, board, mostViewed, metadata, earned, dropped, torn>>
  <2>1. /\ boardCall[c].step = "new" /\ subject \in {"refresh", "reset"}
        /\ UNCHANGED <<subject, board, mostViewed, metadata, earned, dropped, lapsed, torn, boardFaults>>
    BY <1>3 DEF Acquire
  <2>2. PICK step \in BoardSteps : /\ Moves(c, step) /\ step \in {"held", "ended"}
                                   /\ step = "held" => lock = {} /\ lock' = {c}
                                   /\ step = "ended" => lock' = lock
    BY <1>3 DEF Acquire, BoardSteps
  <2>3. /\ boardCall' \in [BoardCalls -> BoardRecords] /\ MovedTo(c, step, boardCall'[c])
        /\ \A d \in BoardCalls \ {c} : boardCall'[d] = boardCall[d]
    BY <1>1, <2>2, BoardMoves
  <2>4. boardCall[c].entry = {}  BY <1>1, <2>1 DEF BoardCallFits
  <2>5. boardCall'[c].step = step /\ boardCall'[c].entry = {}  BY <2>2, <2>3, <2>4 DEF MovedTo
  <2>6. step \in StepsOf[subject]  BY <2>1, <2>2, <1>1, StepsAndSubjects
  <2>7. BoardCallFits(c)'  BY <2>1, <2>2, <2>5, <2>6 DEF BoardCallFits
  <2>8. ASSUME NEW d \in BoardCalls \ {c} PROVE BoardCallFits(d)'  BY <1>1, <2>1, <2>3 DEF BoardCallFits
  <2>9. lock' = {} \/ \E d \in BoardCalls : lock' = {d}  BY <1>1, <2>2 DEF BoardShape
  <2>10. BoardShape'  BY <1>1, <2>1, <2>3, <2>7, <2>8, <2>9, ShapeStays DEF BoardShape, BoardTypeOK, Metas
  <2>11. LocksFit'  BY <2>1, <1>1, <2>2, <2>3, <2>5 DEF LocksFit, Ats
  <2> QED BY <2>1, <2>10, <2>11
<1>4. ASSUME NEW c \in BoardCalls, Release(c)
      PROVE  /\ subject \in {"refresh", "reset"} /\ BoardShape' /\ LocksFit' /\ boardFaults' = boardFaults
             /\ UNCHANGED <<subject, board, mostViewed, metadata, earned, dropped, torn>>
  <2>1. /\ boardCall[c].step = "held" /\ lock' = (IF subject = "refresh" THEN lock \ {c} ELSE {}) /\ Moves(c, "ended")
        /\ UNCHANGED <<subject, board, mostViewed, metadata, earned, dropped, lapsed, torn, boardFaults>>
    BY <1>4 DEF Release
  <2>2. subject \in {"refresh", "reset"} /\ "ended" \in StepsOf[subject] /\ "ended" \in BoardSteps
    BY <1>1, <2>1, StepsAndSubjects DEF BoardCallFits, BoardSteps
  <2>3. /\ boardCall' \in [BoardCalls -> BoardRecords] /\ MovedTo(c, "ended", boardCall'[c])
        /\ \A d \in BoardCalls \ {c} : boardCall'[d] = boardCall[d]
    BY <1>1, <2>1, <2>2, BoardMoves
  <2>4. boardCall'[c].step = "ended"  BY <2>3 DEF MovedTo
  <2>5. \A d \in BoardCalls : BoardCallFits(d)'  BY <1>1, <2>1, <2>2, <2>3, MovingFits
  <2>6. lock' = {} \/ \E d \in BoardCalls : lock' = {d}  BY <1>1, <2>1 DEF BoardShape
  <2>7. BoardShape'  BY <1>1, <2>1, <2>3, <2>5, <2>6, ShapeStays DEF BoardShape, BoardTypeOK, Metas
  <2>8. LocksFit'  BY <2>1, <1>1, <2>3, <2>4 DEF LocksFit, Ats, BoardShape
  <2> QED BY <2>1, <2>2, <2>7, <2>8
<1>5. ASSUME LockExpires
      PROVE  /\ boardCall' = boardCall /\ BoardShape' /\ LocksFit' /\ boardFaults' = boardFaults + 1
             /\ UNCHANGED <<subject, board, mostViewed, metadata, earned, dropped, torn>>
  <2>1. /\ lock # {} /\ lock' = {} /\ lapsed' = lapsed \cup lock /\ boardFaults' = boardFaults + 1 /\ boardCall' = boardCall
        /\ UNCHANGED <<subject, board, mostViewed, metadata, earned, boardCall, dropped, torn>>
    BY <1>5 DEF LockExpires
  <2>2. boardFaults' \in 0..MaxBoardFaults  BY <1>1, <1>5, BoardNumbers DEF LockExpires
  <2>3. lapsed' \subseteq BoardCalls  BY <1>1, <2>1 DEF BoardShape, BoardTypeOK
  <2>4. \A d \in BoardCalls : BoardCallFits(d)'  BY <1>1, <2>1 DEF BoardCallFits
  <2>5. BoardShape'  BY <1>1, <2>1, <2>2, <2>3, <2>4, ShapeStays DEF BoardShape, BoardTypeOK, Metas
  <2>6. LocksFit'  BY <2>1, <1>1 DEF Ats, LocksFit
  <2> QED BY <2>1, <2>5, <2>6
<1> QED BY <1>2, <1>3, <1>4, <1>5

\* The invariant holds at first.
LEMMA BoardInvAtFirst == BoardInit => BoardInv
<1> SUFFICES ASSUME BoardInit PROVE BoardInv  OBVIOUS
<1>1. /\ subject \in Subjects /\ board = [e \in Entries |-> 0] /\ mostViewed = board /\ earned = board
      /\ metadata = [e \in Entries |-> NoMeta] /\ boardCall = [c \in BoardCalls |-> Waiting]
      /\ dropped = {} /\ lock = {} /\ lapsed = {} /\ torn = FALSE /\ boardFaults = 0
  BY DEF BoardInit
<1>2. PICK none \in Metas : none = NoMeta /\ none.n = 0
  <2>1. PICK m : m = NoMeta  OBVIOUS
  <2>2. m \in Metas /\ m.n = 0  BY <2>1 DEF NoMeta, Metas
  <2> QED BY <2>1, <2>2
<1>3. PICK idle \in BoardRecords : idle = Waiting /\ idle.step = "new" /\ idle.entry = {}
  <2>1. PICK w : w = Waiting  OBVIOUS
  <2>2. w \in BoardRecords /\ w.step = "new" /\ w.entry = {}
    BY <2>1 DEF Waiting, BoardRecords, BoardOps, BoardSteps, NoMeta, Metas
  <2> QED BY <2>1, <2>2
<1>4. \A c \in BoardCalls : boardCall[c] = idle  BY <1>1, <1>3
<1>5. Cardinality({}) = 0 /\ 0 \in 0..MaxBoardFaults  BY FS_EmptySet, BoardAssumption
<1>6. /\ board \in [Entries -> Nat] /\ mostViewed \in [Entries -> Nat] /\ earned \in [Entries -> Nat]
      /\ metadata \in [Entries -> Metas] /\ boardCall \in [BoardCalls -> BoardRecords]
      /\ \A e \in Entries : board[e] = 0 /\ mostViewed[e] = 0 /\ earned[e] = 0 /\ metadata[e] = none
  BY <1>1, <1>2, <1>3
<1>7. BoardTypeOK
  <2>1. \A c \in BoardCalls : boardCall[c].entry \subseteq Entries /\ Cardinality(boardCall[c].entry) <= 1
    BY <1>3, <1>5, <1>4
  <2>2. Cardinality(lock) <= 1  BY <1>1, <1>5
  <2> QED BY <1>1, <1>5, <1>6, <2>1, <2>2 DEF BoardTypeOK, Metas
<1>8. ASSUME NEW c \in BoardCalls PROVE BoardCallFits(c)  BY <1>1, <1>3, <1>4, StepsAndSubjects DEF BoardCallFits
<1>9. BoardShape  BY <1>1, <1>6, <1>7, <1>8 DEF BoardShape
<1>10. \A c \in BoardCalls : boardCall[c].step = "new" /\ boardCall[c].entry = {}  BY <1>3, <1>4
<1>11. GiftsFit  BY <1>6 DEF GiftsFit
<1>12. TagsFit  BY <1>2, <1>6, <1>10 DEF TagsFit
<1>13. VideosFit
  <2>1. Apart  BY <1>10 DEF Apart
  <2>2. {e \in Entries : board[e] > 0} = {}  BY <1>6
  <2>3. Uncut  BY <1>5, <2>2, BoardAssumption DEF Uncut
  <2>4. \A e \in Entries : VideoShown(e)  BY <1>6 DEF VideoShown
  <2>5. \A c \in BoardCalls, e \in Entries : VideoAt(c, e)  BY <1>10 DEF VideoAt
  <2> QED BY <2>1, <2>3, <2>4, <2>5 DEF VideosFit
<1>14. StreamsFit  BY <1>10, <1>2, <1>6 DEF Apart, StreamKept, ViewersFit, StreamRead, StreamsFit
<1>15. LocksFit  BY <1>10 DEF LocksFit, Ats
<1> QED BY <1>9, <1>11, <1>12, <1>13, <1>14, <1>15 DEF BoardInv

\* The requests that begin at an entry.
LEMMA BeginningsKeep ==
    ASSUME BoardInv, NEW c \in BoardCalls,
           \/ IncrHashtag(c) \/ RemoveEntry(c) \/ RecordVideoEngagement(c) \/ BulkUpdateVideoScores(c)
           \/ UpdateLiveStreamViewers(c) \/ IncrLiveStreamGifts(c) \/ EndLiveStream(c)
    PROVE  BoardInv'
<1>1. /\ {"count", "remove", "record", "bulk", "viewers", "gift", "end"} \subseteq BoardOps
      /\ {"watch", "zrem", "upsert", "set", "active", "read"} \subseteq BoardSteps
      /\ "watch" \in StepsOf["tags"] /\ "zrem" \in StepsOf["tags"] /\ "zrem" \in StepsOf["videos"]
      /\ "upsert" \in StepsOf["videos"] /\ "set" \in StepsOf["videos"]
      /\ "active" \in StepsOf["streams"] /\ "read" \in StepsOf["streams"]
  BY DEF BoardOps, BoardSteps, StepsOf
<1>2. Points \subseteq Nat /\ 1 \in Nat /\ 0 \in Nat  BY BoardAssumption
<1>3. CASE IncrHashtag(c)  BY <1>3, <1>1, <1>2, BoardBeginningKeeps DEF IncrHashtag
<1>4. CASE RemoveEntry(c)  BY <1>4, <1>1, <1>2, BoardBeginningKeeps DEF RemoveEntry
<1>5. CASE RecordVideoEngagement(c)  BY <1>5, <1>1, <1>2, BoardBeginningKeeps DEF RecordVideoEngagement
<1>6. CASE BulkUpdateVideoScores(c)  BY <1>6, <1>1, <1>2, BoardBeginningKeeps DEF BulkUpdateVideoScores
<1>7. CASE UpdateLiveStreamViewers(c)  BY <1>7, <1>1, <1>2, BoardBeginningKeeps DEF UpdateLiveStreamViewers
<1>8. CASE IncrLiveStreamGifts(c)  BY <1>8, <1>1, <1>2, BoardBeginningKeeps DEF IncrLiveStreamGifts
<1>9. CASE EndLiveStream(c)  BY <1>9, <1>1, <1>2, BoardBeginningKeeps DEF EndLiveStream
<1> QED BY <1>3, <1>4, <1>5, <1>6, <1>7, <1>8, <1>9

\* Every step keeps the invariant.
LEMMA BoardInvKept == BoardInv /\ [BoardNext]_boardVars => BoardInv'
<1> SUFFICES ASSUME BoardInv, [BoardNext]_boardVars PROVE BoardInv'  OBVIOUS
<1>1. CASE UNCHANGED boardVars
  <2>1. UNCHANGED <<subject, board, mostViewed, metadata, earned, boardCall, dropped, lock, lapsed, torn, boardFaults>>
    BY <1>1 DEF boardVars
  <2>2. BoardShape'  BY <2>1 DEF BoardInv, BoardShape, BoardTypeOK, BoardCallFits
  <2>3. GiftsFit' /\ LocksFit'  BY <2>1 DEF BoardInv, GiftsFit, LocksFit, Ats
  <2>4. TagsFit'  BY <2>1 DEF BoardInv, TagsFit
  <2>5. VideosFit'  BY <2>1 DEF BoardInv, VideosFit, Apart, Uncut, VideoShown, VideoAt, Ats
  <2>6. StreamsFit'  BY <2>1 DEF BoardInv, StreamsFit, Apart, StreamKept, ViewersFit, StreamRead
  <2> QED BY <2>2, <2>3, <2>4, <2>5, <2>6 DEF BoardInv
<1>2. ASSUME NEW c \in BoardCalls, RecordGift(c) \/ WatchMeta(c) \/ ExecCount(c) \/ TakeFromBoard(c) \/ DeleteMeta(c) PROVE BoardInv'
  BY <1>2, RecordGiftKeeps, WatchKeeps, ExecKeeps, TakingKeeps, DeletingKeeps
<1>3. ASSUME NEW c \in BoardCalls, UpsertVideo(c) \/ SetMeta(c) \/ AddBulk(c) \/ CutBulk(c) PROVE BoardInv'
  BY <1>3, UpsertKeeps, SettingKeeps, AddingKeeps, CuttingKeeps
<1>4. ASSUME NEW c \in BoardCalls,
             UpsertLiveStreamMeta(c) \/ SetActive(c) \/ RaisePeak(c) \/ ReadMeta(c) \/ WriteGift(c) \/ WriteEnd(c)
      PROVE  BoardInv'
  BY <1>4, StartingKeeps, ActiveKeeps, RaisingKeeps, ReadingKeeps, GiftKeeps, EndingKeeps
<1>5. ASSUME NEW c \in BoardCalls,
             \/ IncrHashtag(c) \/ RemoveEntry(c) \/ RecordVideoEngagement(c) \/ BulkUpdateVideoScores(c)
             \/ UpdateLiveStreamViewers(c) \/ IncrLiveStreamGifts(c) \/ EndLiveStream(c)
      PROVE  BoardInv'
  BY <1>5, BeginningsKeep
<1>6. ASSUME NEW c \in BoardCalls, Acquire(c) \/ Release(c) PROVE BoardInv'  BY <1>6, LockingKeeps
<1>7. ASSUME LockExpires PROVE BoardInv'  BY <1>7, LockingKeeps
<1>8. ASSUME NEW c \in BoardCalls, BoardCallFails(c) PROVE BoardInv'  BY <1>8, BoardFailureKeeps
<1> QED BY <1>1, <1>2, <1>3, <1>4, <1>5, <1>6, <1>7, <1>8 DEF BoardNext

\* What the boards promise follows from it.
LEMMA BoardsTrue == BoardInv => BoardTypeOK /\ BoardsAreTrue
<1> SUFFICES ASSUME BoardInv PROVE BoardTypeOK /\ BoardsAreTrue  OBVIOUS
<1>1. BoardShape /\ BoardTypeOK  BY DEF BoardInv, BoardShape
<1>2. GiftsAreRanked  BY DEF GiftsAreRanked, BoardInv, GiftsFit, AtTop, Ranked
<1>3. TagsAreCounted  BY DEF TagsAreCounted, BoardInv, TagsFit, Ats, Ranked, GetTrendingHashtags
<1>4. VideosHaveTheirScore
  <2> SUFFICES ASSUME subject = "videos", Still, ~torn, boardFaults = 0 PROVE VideosHaveTheirScore
    BY DEF VideosHaveTheirScore
  <2>1. \A c \in BoardCalls : boardCall[c].entry = {} /\ boardCall[c].step # "cut"  BY <1>1 DEF Still, BoardShape, BoardCallFits
  <2>2. (\A e \in Entries : VideoShown(e)) /\ Uncut  BY DEF BoardInv, VideosFit
  <2>3. ASSUME NEW e \in Entries, Ranked(e) PROVE metadata[e].is /\ hydrateVideos(e) = board[e]
    BY <2>1, <1>1, <2>3, BoardNumbers, <2>2 DEF Ranked, VideoShown, hydrateVideos
  <2>4. Ats("cut") = {}  BY <2>1 DEF Ats
  <2>5. Cardinality({e \in Entries : Ranked(e)}) <= TopN  BY <2>2, <2>4 DEF Uncut, Ranked
  <2> QED BY <2>3, <2>5 DEF VideosHaveTheirScore
<1>5. StreamsAreKept
  BY DEF StreamsAreKept, hydrateLiveStreams, BoardInv, StreamsFit, Still, StreamKept, ViewersFit
<1>6. OneAtWork
  <2> SUFFICES ASSUME subject = "refresh" \/ lapsed = {} PROVE Cardinality(Ats("held") \ lapsed) <= 1  BY DEF OneAtWork
  <2>1. Ats("held") \ lapsed \subseteq lock  BY DEF BoardInv, LocksFit
  <2>2. PICK S : S = Ats("held") \ lapsed  OBVIOUS
  <2>3. S = {} \/ \E c \in BoardCalls : S = {c}  BY <1>1, <2>1, <2>2 DEF BoardShape
  <2>4. CASE S = {}
    <3>1. Cardinality({}) = 0  BY FS_EmptySet
    <3> QED BY <2>2, <2>4, <3>1
  <2>5. CASE \E c \in BoardCalls : S = {c}
    <3>1. PICK c : S = {c}  BY <2>5
    <3>2. Cardinality({c}) = 1  BY FS_Singleton
    <3> QED BY <2>2, <3>1, <3>2
  <2> QED BY <2>3, <2>4, <2>5
<1> QED BY <1>1, <1>2, <1>3, <1>4, <1>5, <1>6 DEF BoardsAreTrue

--------
\* Every run of the whole is one of each component.

LEMMA CacheStepsEach == [Next]_vars => [PresNext]_presVars /\ [ProfNext]_profVars /\ [BoardNext]_boardVars
BY DEF vars, Next, SessionStep, BoardStep, CartStep, CatalogueStep, FeedStep, PresenceStep, PageStep, ProfileStep,
   RecommendationStep, SearchStep

\* A user is shown online by their heartbeat and by nothing else, whichever way it is asked, and who is in
\* a set of members is listed, for all gadgets, requests, lifetimes and failures.
THEOREM PresenceAlwaysTrue == Spec => [](PresTypeOK /\ PresenceIsTrue)
<1>1. Init => PresInv  BY PresInvAtFirst DEF Init
<1>2. PresInv /\ [Next]_vars => PresInv'  BY CacheStepsEach, PresInvKept
<1> QED BY <1>1, <1>2, PresenceTrue, PTL DEF Spec

\* The copies, the avatar, the badge and the settings of a profile are those of its rows, but for the races
\* and the failures ProfilesAreKept names, for all requests, names and failures.
THEOREM ProfilesAlwaysKept == Spec => [](ProfTypeOK /\ ProfilesAreKept)
<1>1. Init => ProfInv  BY ProfInvAtFirst DEF Init
<1>2. ProfInv /\ [Next]_vars => ProfInv'  BY CacheStepsEach, ProfInvKept
<1> QED BY <1>1, <1>2, ProfilesTrue, PTL DEF Spec

\* The boards rank what was earned and show what is kept beside it, of streams too, and one at a time is at
\* work under a lock, but for the races and the failures BoardsAreTrue names, for all entries, points,
\* lengths of a board, requests and failures.
THEOREM BoardsAlwaysTrue == Spec => [](BoardTypeOK /\ BoardsAreTrue)
<1>1. Init => BoardInv  BY BoardInvAtFirst DEF Init
<1>2. BoardInv /\ [Next]_vars => BoardInv'  BY CacheStepsEach, BoardInvKept
<1> QED BY <1>1, <1>2, BoardsTrue, PTL DEF Spec

=====
