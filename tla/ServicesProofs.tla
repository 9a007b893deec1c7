---- MODULE ServicesProofs ----
\* Theorems about the social graph, the uploads and videos of the
\* video-service, and accounts: their payments and their sessions.
EXTENDS MCServices, FiniteSetTheorems, TLAPS

--------
\* Blocks and suggestion lists of the social-graph-service hold for any
\* number of members and requests, whatever calls fail and whichever
\* requests overlap.
People == Members \cup {"none"}
AskRecords == [step : AskSteps, duty : {"none", "follow", "unfollow", "block", "count", "suggest"},
               by : People, on : People, found : SUBSET Members, skip : SUBSET Members, value : Nat]

AsksAreTyped ==
    /\ ask \in [Asks -> AskRecords]
    /\ \A q \in Asks : ask[q].step # "idle" => ask[q].by \in Members /\ ask[q].on \in Members

\* What a follow has looked up still holds, or a block came in between.
FollowIsChecked(q) ==
    /\ ask[q].step \in {"reverse", "insert"} => ask[q].duty = "follow"
    /\ {ask[q].by, ask[q].on} \notin crossed =>
          /\ ask[q].step \in {"reverse", "insert"} => <<ask[q].by, ask[q].on>> \notin blocks
          /\ ask[q].step = "insert" => <<ask[q].on, ask[q].by>> \notin blocks

\* Whom a list may not suggest.
Known(v) == {v} \cup FollowingIDs(v) \cup BlockedIDs(v)

\* What a request has read for a list is still so, or its viewer is unsure.
ListIsSound(q) ==
    ask[q].by \notin unsure =>
        /\ ask[q].step = "blocked" => FollowingIDs(ask[q].by) \subseteq ask[q].skip
        /\ ask[q].step = "expand" => FollowingIDs(ask[q].by) \cup BlockedIDs(ask[q].by) \subseteq ask[q].skip
        /\ ask[q].step = "save" => ask[q].found \cap Known(ask[q].by) = {}

GraphInv ==
    /\ AsksAreTyped /\ GraphTypeOK
    /\ \A q \in Asks : FollowIsChecked(q) /\ ListIsSound(q)
    /\ BlockedDoNotFollow /\ SuggestionsAreFresh

\* What the steps below have to show beyond the types of the other variables.
AsksHold ==
    /\ AsksAreTyped /\ \A p \in Asks : FollowIsChecked(p) /\ ListIsSound(p)
    /\ BlockedDoNotFollow /\ SuggestionsAreFresh

--------
\* What the operators of the model do.

\* A member follows, blocks and is blocked by members.
LEMMA KnownAreMembers ==
    ASSUME edges \subseteq Members \X Members, blocks \subseteq Members \X Members, NEW v
    PROVE  FollowingIDs(v) \subseteq Members /\ BlockedIDs(v) \subseteq Members
           /\ FollowersOf(v) \subseteq Members
BY DEF FollowingIDs, BlockedIDs, FollowersOf

\* A request that goes on to its next step changes nothing else of its record.
LEMMA GoesOn ==
    ASSUME AsksAreTyped, NEW q \in Asks, NEW s \in AskSteps, s # "idle", ask[q].step # "idle", AskGoes(q, s)
    PROVE  /\ AsksAreTyped'
           /\ ask'[q] = [ask[q] EXCEPT !.step = s]
           /\ \A p \in Asks : p # q => ask'[p] = ask[p]
<1>1. ask[q] \in AskRecords  BY DEF AsksAreTyped
<1>2. [ask[q] EXCEPT !.step = s] \in AskRecords  BY <1>1 DEF AskRecords
<1>3. ask' = [ask EXCEPT ![q] = [ask[q] EXCEPT !.step = s]]  BY DEF AskGoes
<1>4. ask'[q] = [ask[q] EXCEPT !.step = s] /\ \A p \in Asks : p # q => ask'[p] = ask[p]
  BY <1>3 DEF AsksAreTyped
<1>5. ask' \in [Asks -> AskRecords]  BY <1>2, <1>3 DEF AsksAreTyped
<1>6. /\ ask'[q].by = ask[q].by /\ ask'[q].on = ask[q].on
      /\ ask[q].by \in Members /\ ask[q].on \in Members
  BY <1>1, <1>4 DEF AskRecords, AsksAreTyped
<1> QED BY <1>4, <1>5, <1>6 DEF AsksAreTyped

\* A request begins.
LEMMA AskedToFollow ==
    ASSUME AsksAreTyped, NEW q \in Asks, NEW duty \in Duties, NEW a \in Members, NEW b \in Members,
           NEW s \in AskSteps, Ask(q, duty, a, b, s)
    PROVE  /\ AsksAreTyped'
           /\ ask[q].step = "idle" /\ ask'[q].step = s /\ ask'[q].duty = duty
           /\ ask'[q].by = a /\ ask'[q].on = b
           /\ \A p \in Asks : p # q => ask'[p] = ask[p]
<1> DEFINE r == [NoAsk EXCEPT !.duty = duty, !.by = a, !.on = b, !.step = s]
<1>1. /\ r \in AskRecords /\ r.step = s /\ r.duty = duty /\ r.by = a /\ r.on = b
  BY GraphAssumption DEF AskRecords, NoAsk, People
<1> HIDE DEF r
<1>2. ask' = [ask EXCEPT ![q] = r] /\ ask[q].step = "idle"  BY DEF Ask, r
<1>3. ask'[q] = r /\ \A p \in Asks : p # q => ask'[p] = ask[p]  BY <1>2 DEF AsksAreTyped
<1>4. ask' \in [Asks -> AskRecords]  BY <1>1, <1>2 DEF AsksAreTyped
<1> QED BY <1>1, <1>2, <1>3, <1>4 DEF AsksAreTyped

--------
\* What is left as it was.

\* Where rows stay, blocks keep the edges away that they kept away.
LEMMA StillBlocked ==
    ASSUME BlockedDoNotFollow, UNCHANGED <<edges, blocks>>, crossed \subseteq crossed'
    PROVE  BlockedDoNotFollow'
BY DEF BlockedDoNotFollow

\* Where rows stay, a list stays fresh if it stays and its dropping is not forgotten.
LEMMA StillFresh ==
    ASSUME SuggestionsAreFresh, UNCHANGED <<edges, blocks>>, unsure \subseteq unsure',
           \A v \in Members \ unsure' :
              \/ suggested'[v] = {}
              \/ suggested'[v] = suggested[v] /\ (DropPending(v) => DropPending(v)')
    PROVE  SuggestionsAreFresh'
BY DEF SuggestionsAreFresh, FollowingIDs, BlockedIDs

\* Where rows stay, what a request that stays has read is as good as before.
LEMMA OthersKeep ==
    ASSUME NEW p \in Asks, FollowIsChecked(p), ListIsSound(p), ask'[p] = ask[p],
           UNCHANGED <<edges, blocks>>, crossed \subseteq crossed', unsure \subseteq unsure'
    PROVE  FollowIsChecked(p)' /\ ListIsSound(p)'
<1>1. FollowIsChecked(p)'  BY DEF FollowIsChecked
<1>2. ListIsSound(p)'  BY DEF ListIsSound, Known, FollowingIDs, BlockedIDs
<1> QED BY <1>1, <1>2

Reading == {"reverse", "insert", "blocked", "expand", "save"}
ToDrop == {"incr", "decr", "forget", "publish", "drop_by"}

\* A request that changed rows and goes on has still to drop the lists it had to drop.
LEMMA StillPending ==
    ASSUME NEW q \in Asks, NEW v,
           ask[q].step \in ToDrop => /\ ask'[q].step \in ToDrop
                                     /\ ask'[q].by = ask[q].by /\ ask'[q].on = ask[q].on,
           ask[q].step # "drop_on",
           \A p \in Asks : p # q => ask'[p] = ask[p],
           DropPending(v)
    PROVE  DropPending(v)'
<1>1. PICK p \in Asks : \/ v \in {ask[p].by, ask[p].on} /\ ask[p].step \in ToDrop
                        \/ v = ask[p].on /\ ask[p].step = "drop_on"
  BY DEF DropPending, ToDrop
<1>2. \/ v \in {ask'[p].by, ask'[p].on} /\ ask'[p].step \in ToDrop
      \/ v = ask'[p].on /\ ask'[p].step = "drop_on"
  BY <1>1
<1> QED BY <1>2 DEF DropPending, ToDrop

\* A request that is at no point where what it has read counts.
LEMMA NothingRead ==
    ASSUME NEW q \in Asks, ask[q].step \notin Reading
    PROVE  FollowIsChecked(q) /\ ListIsSound(q)
BY DEF FollowIsChecked, ListIsSound, Reading

\* The steps of a request between its statements: rows and lists stay.
LEMMA QuietStep ==
    ASSUME GraphInv, NEW q \in Asks, NEW s \in AskSteps \ (Reading \cup {"idle"}), AskGoes(q, s),
           ask[q].step \notin {"idle", "drop_on"}, ask[q].step \in ToDrop => s \in ToDrop,
           UNCHANGED <<edges, blocks, suggested, crossed, unsure>>
    PROVE  AsksHold'
<1>1. /\ AsksAreTyped' /\ ask'[q] = [ask[q] EXCEPT !.step = s]
      /\ \A p \in Asks : p # q => ask'[p] = ask[p]
  BY GoesOn DEF GraphInv
<1>2. ask'[q].step = s /\ ask'[q].by = ask[q].by /\ ask'[q].on = ask[q].on
  BY <1>1 DEF GraphInv, AsksAreTyped, AskRecords
<1>3. \A p \in Asks : FollowIsChecked(p)' /\ ListIsSound(p)'
  BY <1>2, NothingRead, <1>1, OthersKeep DEF FollowIsChecked, ListIsSound, Reading, GraphInv
<1>4. \A v : DropPending(v) => DropPending(v)'  BY <1>1, <1>2, StillPending
<1>5. SuggestionsAreFresh'  BY <1>4, StillFresh DEF GraphInv
<1> QED BY <1>1, <1>3, <1>5, StillBlocked DEF GraphInv, AsksHold

\* With the types of the other variables, that is the invariant.
LEMMA Assembled ==
    ASSUME AsksHold',
           edges' \subseteq Members \X Members, blocks' \subseteq Members \X Members,
           cached' \in [Members -> Counts], suggested' \in [Members -> SUBSET Members],
           topic' \subseteq FollowEvents, graphFaults' \in 0..MaxGraphFaults,
           crossed' \subseteq SUBSET Members, unsure' \subseteq Members
    PROVE  GraphInv'
<1>1. ASSUME NEW q \in Asks
      PROVE  /\ DOMAIN ask'[q] = DOMAIN NoAsk /\ ask'[q].step \in AskSteps
             /\ ask'[q].found \subseteq Members /\ ask'[q].value \in Nat
  <2>1. ask'[q] \in AskRecords  BY DEF AsksHold, AsksAreTyped
  <2> QED BY <2>1 DEF AskRecords, NoAsk
<1> QED BY <1>1 DEF AsksHold, GraphInv, GraphTypeOK

\* Faults stay within their bound.
LEMMA FaultsAreBounded ==
    ASSUME GraphTypeOK, GraphFault \/ NoGraphFault
    PROVE  graphFaults' \in 0..MaxGraphFaults
BY GraphAssumption DEF GraphTypeOK, GraphFault, NoGraphFault

\* A request that begins to look something up: rows and lists stay.
LEMMA QuietStart ==
    ASSUME GraphInv, NEW q \in Asks, NEW duty \in Duties, NEW a \in Members, NEW b \in Members,
           NEW s \in AskSteps, Ask(q, duty, a, b, s),
           \/ s \notin Reading
           \/ s = "reverse" /\ duty = "follow" /\ <<a, b>> \notin blocks,
           UNCHANGED <<edges, blocks, suggested, crossed, unsure>>
    PROVE  AsksHold'
<1>1. /\ AsksAreTyped' /\ ask[q].step = "idle"
      /\ ask'[q].step = s /\ ask'[q].duty = duty /\ ask'[q].by = a /\ ask'[q].on = b
      /\ \A p \in Asks : p # q => ask'[p] = ask[p]
  BY AskedToFollow DEF GraphInv
<1>2. \A p \in Asks : FollowIsChecked(p)' /\ ListIsSound(p)'
  BY <1>1, OthersKeep DEF FollowIsChecked, ListIsSound, Reading, GraphInv
<1>3. \A v : DropPending(v) => DropPending(v)'  BY <1>1, StillPending DEF ToDrop
<1>4. SuggestionsAreFresh'  BY <1>3, StillFresh DEF GraphInv
<1> QED BY <1>1, <1>2, <1>4, StillBlocked DEF GraphInv, AsksHold

\* A step of a request that is computing something, whatever it notes: rows and lists stay.
LEMMA ReadStep ==
    ASSUME GraphInv, NEW q \in Asks, NEW r \in AskRecords, ask' = [ask EXCEPT ![q] = r],
           ask[q].step \notin ToDrop \cup {"idle", "drop_on"},
           r.step # "idle", r.by = ask[q].by, r.on = ask[q].on,
           FollowIsChecked(q)', ListIsSound(q)',
           UNCHANGED <<edges, blocks, suggested, crossed, unsure>>
    PROVE  AsksHold'
<1>1. ask'[q] = r /\ \A p \in Asks : p # q => ask'[p] = ask[p]  BY DEF GraphInv, AsksAreTyped
<1>2. AsksAreTyped'  BY <1>1 DEF GraphInv, AsksAreTyped
<1>3. \A p \in Asks : FollowIsChecked(p)' /\ ListIsSound(p)'  BY <1>1, OthersKeep DEF GraphInv
<1>4. \A v : DropPending(v) => DropPending(v)'  BY <1>1, StillPending
<1>5. SuggestionsAreFresh'  BY <1>4, StillFresh DEF GraphInv
<1> QED BY <1>2, <1>3, <1>5, StillBlocked DEF GraphInv, AsksHold

--------
\* Every step keeps the invariant.

\* Any graph with a cold cache satisfies it.
LEMMA GraphStarts == GraphInit => GraphInv
<1> SUFFICES ASSUME GraphInit PROVE GraphInv  OBVIOUS
<1>1. NoAsk \in AskRecords /\ NoAsk.step = "idle"  BY DEF NoAsk, AskRecords, AskSteps, People
<1>2. AsksAreTyped  BY <1>1 DEF GraphInit, AsksAreTyped
<1>3. \A q \in Asks : /\ DOMAIN ask[q] = DOMAIN NoAsk /\ ask[q].step \in AskSteps
                      /\ ask[q].found \subseteq Members /\ ask[q].value \in Nat
  BY DEF GraphInit, NoAsk, AskSteps
<1>4. GraphTypeOK  BY <1>3, GraphAssumption DEF GraphInit, GraphTypeOK, Counts, FollowEvents
<1>5. \A q \in Asks : FollowIsChecked(q) /\ ListIsSound(q)  BY <1>1, NothingRead DEF GraphInit, Reading
<1>6. BlockedDoNotFollow /\ SuggestionsAreFresh  BY DEF GraphInit, BlockedDoNotFollow, SuggestionsAreFresh
<1> QED BY <1>2, <1>4, <1>5, <1>6 DEF GraphInv

\* The steps of a follow until its insert.
LEMMA FollowSteps ==
    ASSUME GraphInv, NEW q \in Asks,
           (\E a, b \in Members : BeginFollow(q, a, b)) \/ CheckReverse(q) \/ IncrementCount(q)
    PROVE  GraphInv'
<1>1. GraphTypeOK  BY DEF GraphInv
<1>2. ASSUME NEW a \in Members, NEW b \in Members, BeginFollow(q, a, b) PROVE GraphInv'
  BY <1>2, QuietStart, <1>1, Assembled DEF BeginFollow, Ask, AskSteps, GraphTypeOK
<1>3. ASSUME CheckReverse(q) PROVE GraphInv'
  <2>1. PICK s \in {"done", "insert"} : /\ AskGoes(q, s)
                                        /\ s = "insert" => <<ask[q].on, ask[q].by>> \notin blocks
    BY <1>3 DEF CheckReverse
  <2>2. /\ ask[q].step = "reverse"
        /\ UNCHANGED <<edges, blocks, cached, suggested, topic, graphFaults, crossed, unsure>>
    BY <1>3 DEF CheckReverse
  <2>3. CASE s = "done"
    <3>1. AsksHold'  BY <2>1, <2>2, <2>3, QuietStep DEF AskSteps, Reading, ToDrop
    <3> QED BY <1>1, <2>2, <3>1, Assembled DEF GraphTypeOK
  <2>4. CASE s = "insert"
    <3> DEFINE r == [ask[q] EXCEPT !.step = "insert"]
    <3>1. ask[q] \in AskRecords  BY DEF GraphInv, AsksAreTyped
    <3>2. /\ r \in AskRecords /\ r.step = "insert" /\ r.by = ask[q].by /\ r.on = ask[q].on
          /\ r.duty = ask[q].duty
      BY <3>1 DEF AskRecords, AskSteps
    <3>3. ask' = [ask EXCEPT ![q] = r]  BY <2>1, <2>4 DEF AskGoes
    <3>4. ask'[q] = r  BY <3>3 DEF GraphInv, AsksAreTyped
    <3> HIDE DEF r
    <3>5. FollowIsChecked(q)' /\ ListIsSound(q)'
      BY <2>1, <2>2, <2>4, <3>2, <3>4 DEF GraphInv, FollowIsChecked, ListIsSound
    <3>6. AsksHold'  BY <2>2, <3>2, <3>3, <3>5, ReadStep DEF ToDrop
    <3> QED BY <1>1, <2>2, <3>6, Assembled DEF GraphTypeOK
  <2> QED BY <2>1, <2>3, <2>4
<1>4. ASSUME IncrementCount(q) PROVE GraphInv'
  <2>1. /\ ask[q].step = "incr" /\ AskGoes(q, "publish")
        /\ UNCHANGED <<edges, blocks, suggested, topic, crossed, unsure>>
        /\ GraphFault \/ NoGraphFault
        /\ UNCHANGED cached \/ cached' = [cached EXCEPT ![ask[q].on] = Incremented(@)]
    BY <1>4 DEF IncrementCount
  <2>2. AsksHold'  BY <2>1, QuietStep DEF AskSteps, Reading, ToDrop
  <2>3. \A n \in Counts : Incremented(n) \in Counts  BY DEF Counts, Incremented, Absent
  <2>4. cached' \in [Members -> Counts]  BY <1>1, <2>1, <2>3 DEF GraphTypeOK
  <2> QED BY <1>1, <2>1, <2>2, <2>4, Assembled, FaultsAreBounded DEF GraphTypeOK
<1> QED BY <1>2, <1>3, <1>4

\* Rows of a and b change, and the request that changed them has their lists to drop: a list
\* under way for one of them is unsure, and the lists of the others are as fresh as before.
LEMMA RowsChange ==
    ASSUME GraphInv, NEW q \in Asks, NEW a \in Members, NEW b \in Members, Disturbs(a, b),
           \A e \in Members \X Members : e \notin {<<a, b>>, <<b, a>>} =>
              (e \in edges' <=> e \in edges) /\ (e \in blocks' <=> e \in blocks),
           edges' \subseteq Members \X Members, blocks' \subseteq Members \X Members,
           ask[q].step \notin ToDrop \cup {"drop_on"},
           ask'[q].step \in ToDrop, ask'[q].by = a, ask'[q].on = b,
           \A p \in Asks : p # q => ask'[p] = ask[p],
           UNCHANGED suggested
    PROVE  (\A p \in Asks : ListIsSound(p)') /\ SuggestionsAreFresh'
<1>1. edges \subseteq Members \X Members /\ blocks \subseteq Members \X Members  BY DEF GraphInv, GraphTypeOK
<1>2. \A v \in Members : v \notin {a, b} =>
         FollowingIDs(v)' = FollowingIDs(v) /\ BlockedIDs(v)' = BlockedIDs(v)
  BY <1>1 DEF FollowingIDs, BlockedIDs
<1>3. \A v \in {a, b} : v \notin unsure' => ~Computing(v)  BY DEF Disturbs
<1>4. unsure \subseteq unsure'  BY DEF Disturbs
<1>5. ASSUME NEW p \in Asks PROVE ListIsSound(p)'
  BY NothingRead, <1>3, <1>2, <1>4 DEF ListIsSound, ToDrop, GraphInv, AsksAreTyped, Computing, Known
<1>6. \A v : DropPending(v) => DropPending(v)'  BY StillPending
<1>7. \A v \in {a, b} : DropPending(v)'  BY DEF DropPending, ToDrop
<1>8. SuggestionsAreFresh'  BY <1>2, <1>4, <1>6, <1>7 DEF GraphInv, SuggestionsAreFresh
<1> QED BY <1>5, <1>8

\* The insert of a follow, and an unfollow.
LEMMA EdgeSteps ==
    ASSUME GraphInv, NEW q \in Asks,
           InsertEdge(q) \/ \E a, b \in Members : DeleteEdge(q, a, b)
    PROVE  GraphInv'
<1>1. GraphTypeOK /\ AsksAreTyped  BY DEF GraphInv
<1>2. ASSUME InsertEdge(q) PROVE GraphInv'
  <2> DEFINE a == ask[q].by
             b == ask[q].on
  <2>1. /\ ask[q].step = "insert" /\ edges' = edges \cup {<<a, b>>}
        /\ \/ <<a, b>> \in edges /\ AskGoes(q, "done") /\ UNCHANGED unsure
           \/ AskGoes(q, "incr") /\ Disturbs(a, b)
        /\ UNCHANGED <<blocks, cached, suggested, topic, graphFaults, crossed>>
    BY <1>2 DEF InsertEdge
  <2>2. a \in Members /\ b \in Members  BY <1>1, <2>1 DEF AsksAreTyped
  <2>3. CASE <<a, b>> \in edges /\ AskGoes(q, "done") /\ UNCHANGED unsure
    BY <2>1, <2>3, QuietStep, <1>1, Assembled DEF AskSteps, Reading, ToDrop, GraphTypeOK
  <2>4. CASE AskGoes(q, "incr") /\ Disturbs(a, b)
    <3>1. /\ AsksAreTyped' /\ ask'[q] = [ask[q] EXCEPT !.step = "incr"]
          /\ \A p \in Asks : p # q => ask'[p] = ask[p]
      BY <1>1, <2>1, <2>4, GoesOn DEF AskSteps
    <3>2. ask'[q].step = "incr" /\ ask'[q].by = a /\ ask'[q].on = b
      BY <1>1, <3>1 DEF AsksAreTyped, AskRecords
    <3>3. edges' \subseteq Members \X Members /\ unsure' \subseteq Members
      BY <1>1, <2>1, <2>2, <2>4 DEF GraphTypeOK, Disturbs
    <3>4. (\A p \in Asks : ListIsSound(p)') /\ SuggestionsAreFresh'
      <4> HIDE DEF a, b
      <4>1. \A e \in Members \X Members : e \notin {<<a, b>>, <<b, a>>} =>
               (e \in edges' <=> e \in edges) /\ (e \in blocks' <=> e \in blocks)
        BY <2>1
      <4>2. ask[q].step \notin ToDrop \cup {"drop_on"} /\ ask'[q].step \in ToDrop  BY <2>1, <3>2 DEF ToDrop
      <4>3. blocks' \subseteq Members \X Members /\ UNCHANGED suggested  BY <1>1, <2>1 DEF GraphTypeOK
      <4> QED BY <2>2, <2>4, <3>1, <3>2, <3>3, <4>1, <4>2, <4>3, RowsChange
    <3>5. ASSUME NEW p \in Asks PROVE FollowIsChecked(p)'  BY <3>2, <2>1, <3>1 DEF FollowIsChecked, GraphInv
    <3>6. BlockedDoNotFollow'
      <4>1. {a, b} \notin crossed => <<a, b>> \notin blocks /\ <<b, a>> \notin blocks
        BY <2>1 DEF GraphInv, FollowIsChecked
      <4>2. SUFFICES ASSUME NEW d \in blocks, {d, <<d[2], d[1]>>} \cap edges' # {}
                     PROVE  {d[1], d[2]} \in crossed
        BY <2>1 DEF BlockedDoNotFollow
      <4>3. d = <<d[1], d[2]>>  BY <1>1 DEF GraphTypeOK
      <4>4. CASE {d, <<d[2], d[1]>>} \cap edges # {}  BY <4>4 DEF GraphInv, BlockedDoNotFollow
      <4>5. CASE d = <<a, b>> \/ <<d[2], d[1]>> = <<a, b>>  BY <4>5, <4>3, <4>1
      <4> QED BY <2>1, <4>2, <4>4, <4>5
    <3>7. AsksHold'  BY <3>1, <3>4, <3>5, <3>6 DEF AsksHold
    <3> QED BY <1>1, <2>1, <3>3, <3>7, Assembled DEF GraphTypeOK
  <2> QED BY <2>1, <2>3, <2>4
<1>3. ASSUME NEW a \in Members, NEW b \in Members, DeleteEdge(q, a, b) PROVE GraphInv'
  <2>1. /\ "unfollow" \in Duties /\ Ask(q, "unfollow", a, b, "decr") /\ "decr" \in AskSteps
        /\ edges' = edges \ {<<a, b>>} /\ Disturbs(a, b)
        /\ UNCHANGED <<blocks, cached, suggested, topic, graphFaults, crossed>>
    BY <1>3, Zenon DEF DeleteEdge, Ask, AskSteps
  <2>2. /\ AsksAreTyped' /\ ask[q].step = "idle"
        /\ ask'[q].step = "decr" /\ ask'[q].by = a /\ ask'[q].on = b
        /\ \A p \in Asks : p # q => ask'[p] = ask[p]
    BY <1>1, <2>1, AskedToFollow
  <2>3. edges' \subseteq Members \X Members /\ unsure' \subseteq Members
    BY <1>1, <2>1 DEF GraphTypeOK, Disturbs
  <2>4. (\A p \in Asks : ListIsSound(p)') /\ SuggestionsAreFresh'
    BY <2>1, <2>2, <1>1, <2>3, RowsChange DEF ToDrop, GraphTypeOK
  <2>5. \A p \in Asks : FollowIsChecked(p)'  BY <2>1, <2>2 DEF FollowIsChecked, GraphInv
  <2>6. BlockedDoNotFollow'  BY <2>1 DEF GraphInv, BlockedDoNotFollow
  <2>7. AsksHold'  BY <2>2, <2>4, <2>5, <2>6 DEF AsksHold
  <2> QED BY <1>1, <2>1, <2>3, <2>7, Assembled DEF GraphTypeOK
<1> QED BY <1>2, <1>3

\* A block: it takes away the edges, and any follow that has looked already is marked.
LEMMA BlockStep ==
    ASSUME GraphInv, NEW q \in Asks, NEW a \in Members, NEW b \in Members, BlockUser(q, a, b)
    PROVE  GraphInv'
<1>1. GraphTypeOK /\ AsksAreTyped  BY DEF GraphInv
<1>2. /\ "block" \in Duties /\ Ask(q, "block", a, b, "forget") /\ "forget" \in AskSteps
      /\ blocks' = blocks \cup {<<a, b>>} /\ edges' = edges \ {<<a, b>>, <<b, a>>}
      /\ Disturbs(a, b) /\ crossed' = IF Inserting(a, b) THEN crossed \cup {{a, b}} ELSE crossed
      /\ UNCHANGED <<cached, suggested, topic, graphFaults>>
  BY DEF BlockUser, Ask, AskSteps
<1>3. /\ AsksAreTyped' /\ ask[q].step = "idle"
      /\ ask'[q].step = "forget" /\ ask'[q].by = a /\ ask'[q].on = b
      /\ \A p \in Asks : p # q => ask'[p] = ask[p]
  BY <1>1, <1>2, AskedToFollow
<1>4. /\ edges' \subseteq Members \X Members /\ unsure' \subseteq Members
      /\ blocks' \subseteq Members \X Members /\ crossed' \subseteq SUBSET Members
  BY <1>1, <1>2 DEF GraphTypeOK, Disturbs
<1>5. (\A p \in Asks : ListIsSound(p)') /\ SuggestionsAreFresh'  BY <1>2, <1>3, <1>4, RowsChange DEF ToDrop
<1>6. ASSUME NEW p \in Asks PROVE FollowIsChecked(p)'  BY <1>3, <1>2 DEF FollowIsChecked, GraphInv, Inserting
<1>7. BlockedDoNotFollow'  BY <1>2 DEF GraphInv, BlockedDoNotFollow
<1>8. AsksHold'  BY <1>3, <1>5, <1>6, <1>7 DEF AsksHold
<1> QED BY <1>1, <1>2, <1>4, <1>8, Assembled DEF GraphTypeOK

\* The counters stay counters: INCR, DECR with its floor, DEL.
LEMMA CountsStayCounts ==
    /\ Absent \in Counts
    /\ \A n \in Counts : Incremented(n) \in Counts /\ Decremented(n) \in Counts
BY DEF Counts, Incremented, Decremented, Absent

\* The counters and the event after an unfollow or a block.
LEMMA CountSteps ==
    ASSUME GraphInv, NEW q \in Asks, DecrementCount(q) \/ ForgetCounts(q) \/ PublishFollowEvent(q)
    PROVE  GraphInv'
<1>1. GraphTypeOK /\ AsksAreTyped  BY DEF GraphInv
<1>2. ASSUME DecrementCount(q) PROVE GraphInv'
  BY <1>2, QuietStep, <1>1, CountsStayCounts, Assembled, FaultsAreBounded DEF DecrementCount, AskSteps,
     Reading, ToDrop, GraphTypeOK
<1>3. ASSUME ForgetCounts(q) PROVE GraphInv'
  BY <1>3, QuietStep, <1>1, CountsStayCounts, Assembled, FaultsAreBounded DEF ForgetCounts, AskSteps, Reading,
     ToDrop, GraphTypeOK
<1>4. ASSUME PublishFollowEvent(q) PROVE GraphInv'
  <2> DEFINE e == [ask |-> q, from |-> ask[q].by, to |-> ask[q].on,
                   type |-> IF ask[q].duty = "follow" THEN "followed" ELSE "unfollowed"]
  <2>1. /\ ask[q].step = "publish" /\ AskGoes(q, "drop_by")
        /\ UNCHANGED <<edges, blocks, cached, suggested, crossed, unsure>>
        /\ GraphFault \/ NoGraphFault
        /\ UNCHANGED topic \/ topic' = topic \cup {e}
    BY <1>4 DEF PublishFollowEvent
  <2>2. AsksHold'  BY <2>1, QuietStep DEF AskSteps, Reading, ToDrop
  <2>3. e \in FollowEvents  BY <1>1, <2>1 DEF AsksAreTyped, FollowEvents
  <2>4. topic' \subseteq FollowEvents  BY <1>1, <2>1, <2>3 DEF GraphTypeOK
  <2> QED BY <1>1, <2>1, <2>2, <2>4, Assembled, FaultsAreBounded DEF GraphTypeOK
<1> QED BY <1>2, <1>3, <1>4

\* A list is dropped, or its viewer becomes unsure.
LEMMA DropStep ==
    ASSUME GraphInv, NEW q \in Asks, InvalidateSuggestionsCache(q)
    PROVE  GraphInv'
<1>1. GraphTypeOK /\ AsksAreTyped  BY DEF GraphInv
<1> DEFINE v == IF ask[q].step = "drop_by" THEN ask[q].by ELSE ask[q].on
           s == IF ask[q].step = "drop_by" THEN "drop_on" ELSE "done"
<1>2. /\ ask[q].step \in {"drop_by", "drop_on"} /\ AskGoes(q, s)
      /\ UNCHANGED <<edges, blocks, cached, topic, crossed>>
      /\ GraphFault \/ NoGraphFault
      /\ \/ suggested' = [suggested EXCEPT ![v] = {}] /\ UNCHANGED unsure
         \/ UNCHANGED suggested /\ unsure' = unsure \cup {v}
  BY DEF InvalidateSuggestionsCache
<1>3. v \in Members /\ s \in AskSteps /\ s \notin Reading \cup {"idle"}
  BY <1>1, <1>2 DEF AsksAreTyped, AskSteps, Reading
<1>4. /\ AsksAreTyped' /\ ask'[q] = [ask[q] EXCEPT !.step = s]
      /\ \A p \in Asks : p # q => ask'[p] = ask[p]
  BY <1>1, <1>2, <1>3, GoesOn
<1>5. ask'[q].step = s /\ ask'[q].by = ask[q].by /\ ask'[q].on = ask[q].on
  BY <1>1, <1>4 DEF AsksAreTyped, AskRecords
<1>6. ASSUME NEW p \in Asks PROVE FollowIsChecked(p)' /\ ListIsSound(p)'
  BY <1>3, <1>5, <1>2, <1>4, OthersKeep DEF FollowIsChecked, ListIsSound, Reading, GraphInv
<1>7. ASSUME NEW u \in Members \ unsure'
      PROVE  \/ suggested'[u] = {}
             \/ suggested'[u] = suggested[u] /\ (DropPending(u) => DropPending(u)')
  BY <1>1, <1>2, <1>3, <1>4, <1>5 DEF GraphTypeOK, DropPending, ToDrop
<1>8. unsure \subseteq unsure' /\ unsure' \subseteq Members /\ suggested' \in [Members -> SUBSET Members]
  BY <1>1, <1>2, <1>3 DEF GraphTypeOK
<1>9. AsksHold'  BY <1>2, <1>4, <1>6, <1>7, <1>8, StillFresh, StillBlocked DEF GraphInv, AsksHold
<1> QED BY <1>1, <1>2, <1>8, <1>9, Assembled, FaultsAreBounded DEF GraphTypeOK

\* The worker and the clock: no request moves.
LEMMA WorkerSteps ==
    ASSUME GraphInv,
           (\E e \in topic : HandleMessage(e)) \/ WorkerRestarts \/ \E u \in Members : CountExpires(u)
    PROVE  GraphInv'
<1>1. GraphTypeOK /\ AsksAreTyped  BY DEF GraphInv
<1>2. /\ UNCHANGED <<ask, edges, blocks, crossed, unsure>> /\ topic' \subseteq topic
      /\ GraphFault \/ NoGraphFault
      /\ \/ UNCHANGED suggested
         \/ \E e \in topic : suggested' = [suggested EXCEPT ![e.from] = {}, ![e.to] = {}]
  BY DEF HandleMessage, WorkerRestarts, CountExpires
<1>3. cached' \in [Members -> Counts]
  BY <1>1, CountsStayCounts DEF ApplyToCount, GraphTypeOK, HandleMessage, CountExpires, WorkerRestarts
<1>4. suggested' \in [Members -> SUBSET Members]
      /\ \A v \in Members : suggested'[v] = {} \/ suggested'[v] = suggested[v]
  BY <1>1, <1>2 DEF GraphTypeOK
<1>5. \A v : DropPending(v)' <=> DropPending(v)  BY <1>2 DEF DropPending
<1>6. AsksHold'
  BY <1>1, <1>2, OthersKeep, <1>4, <1>5, StillFresh, StillBlocked DEF AsksAreTyped, GraphInv, AsksHold
<1>7. topic' \subseteq FollowEvents  BY <1>1, <1>2 DEF GraphTypeOK
<1> QED BY <1>1, <1>2, <1>3, <1>4, <1>6, <1>7, Assembled, FaultsAreBounded DEF GraphTypeOK

\* The steps of reading a counter.
LEMMA CounterSteps ==
    ASSUME GraphInv, NEW q \in Asks,
           (\E u \in Members : GetFollowerCount(q, u)) \/ LoadCount(q) \/ WarmCount(q)
    PROVE  GraphInv'
<1>1. GraphTypeOK /\ AsksAreTyped  BY DEF GraphInv
<1>2. ask[q] \in AskRecords  BY <1>1 DEF AsksAreTyped
<1>3. ASSUME NEW u \in Members, GetFollowerCount(q, u) PROVE GraphInv'
  BY <1>3, QuietStart, <1>1, Assembled DEF GetFollowerCount, Ask, AskSteps, Reading, GraphTypeOK
<1>4. ASSUME LoadCount(q) PROVE GraphInv'
  <2> DEFINE n == Cardinality(FollowersOf(ask[q].by))
             r == [ask[q] EXCEPT !.step = "warm", !.value = n]
  <2>1. /\ ask[q].step = "load" /\ ask' = [ask EXCEPT ![q] = r]
        /\ UNCHANGED <<edges, blocks, cached, suggested, topic, graphFaults, crossed, unsure>>
    BY <1>4 DEF LoadCount
  <2>2. n \in Nat  BY <1>1, KnownAreMembers, GraphAssumption, FS_Subset, FS_CardinalityType DEF GraphTypeOK
  <2> HIDE DEF n
  <2>3. r \in AskRecords /\ r.step = "warm" /\ r.by = ask[q].by /\ r.on = ask[q].on
    BY <1>2, <2>2 DEF AskRecords, AskSteps
  <2>4. ask'[q] = r  BY <1>1, <2>1 DEF AsksAreTyped
  <2> HIDE DEF r
  <2>5. FollowIsChecked(q)' /\ ListIsSound(q)'  BY <2>3, <2>4 DEF FollowIsChecked, ListIsSound
  <2>6. AsksHold'  BY <2>1, <2>3, <2>5, ReadStep DEF ToDrop
  <2> QED BY <1>1, <2>1, <2>6, Assembled DEF GraphTypeOK
<1>5. ASSUME WarmCount(q) PROVE GraphInv'
  BY <1>5, QuietStep, <1>2, <1>1, Assembled DEF WarmCount, AskSteps, Reading, ToDrop, AskRecords, Counts,
     GraphTypeOK
<1> QED BY <1>3, <1>4, <1>5

\* The steps of computing a list: what is read is what there is, and stays in the request.
LEMMA ListSteps ==
    ASSUME GraphInv, NEW q \in Asks,
           \/ \E v \in Members : GetSuggestions(q, v)
           \/ ReadFollowing(q) \/ ReadBlocked(q) \/ ComputeSuggestions(q)
    PROVE  GraphInv'
<1>1. GraphTypeOK /\ AsksAreTyped /\ ListIsSound(q)  BY DEF GraphInv
<1> DEFINE v == ask[q].by
<1>2. /\ ask[q] \in AskRecords /\ ask[q].found \subseteq Members /\ ask[q].skip \subseteq Members
      /\ FollowingIDs(v) \subseteq Members /\ BlockedIDs(v) \subseteq Members
  BY <1>1, KnownAreMembers DEF AsksAreTyped, AskRecords, GraphTypeOK
<1>3. ASSUME NEW u \in Members, GetSuggestions(q, u) PROVE GraphInv'
  <2>1. /\ "suggest" \in Duties /\ \E s \in {"following", "done"} : Ask(q, "suggest", u, u, s)
        /\ UNCHANGED <<edges, blocks, cached, suggested, topic, graphFaults, crossed, unsure>>
    BY <1>3, Zenon DEF GetSuggestions, Ask
  <2>2. {"following", "done"} \subseteq AskSteps \ Reading  BY DEF AskSteps, Reading
  <2>3. AsksHold'  BY <2>1, <2>2, QuietStart
  <2> QED BY <1>1, <2>1, <2>3, Assembled DEF GraphTypeOK
<1>4. ASSUME ReadFollowing(q) PROVE GraphInv'
  <2> DEFINE f == FollowingIDs(v)
             s == IF f = {} THEN "save" ELSE "blocked"
             r == [ask[q] EXCEPT !.skip = f, !.found = f, !.step = s]
  <2>1. /\ ask[q].step = "following" /\ ask' = [ask EXCEPT ![q] = r]
        /\ UNCHANGED <<edges, blocks, cached, suggested, topic, graphFaults, crossed, unsure>>
    BY <1>4 DEF ReadFollowing
  <2>2. /\ r \in AskRecords /\ r.step = s /\ r.by = v /\ r.on = ask[q].on
        /\ r.skip = f /\ r.found = f  BY <1>2 DEF AskSteps, AskRecords
  <2>3. ask'[q] = r  BY <1>1, <2>1 DEF AsksAreTyped
  <2>4. UNCHANGED FollowingIDs(v)  BY <2>1, <2>2, <2>3 DEF FollowingIDs
  <2> HIDE DEF r
  <2>5. FollowIsChecked(q)' /\ ListIsSound(q)'  BY <2>2, <2>3, <2>4 DEF FollowIsChecked, ListIsSound
  <2>6. AsksHold'  BY <2>1, <2>2, <2>5, ReadStep DEF ToDrop
  <2> QED BY <1>1, <2>1, <2>6, Assembled DEF GraphTypeOK
<1>5. ASSUME ReadBlocked(q) PROVE GraphInv'
  <2> DEFINE skip == ask[q].skip \cup BlockedIDs(v)
             r == [ask[q] EXCEPT !.skip = skip, !.step = "expand"]
  <2>1. /\ ask[q].step = "blocked" /\ ask' = [ask EXCEPT ![q] = r]
        /\ UNCHANGED <<edges, blocks, cached, suggested, topic, graphFaults, crossed, unsure>>
    BY <1>5 DEF ReadBlocked
  <2>2. /\ r \in AskRecords /\ r.step = "expand" /\ r.by = v /\ r.on = ask[q].on /\ r.skip = skip
    BY <1>2 DEF AskRecords, AskSteps
  <2>3. ask'[q] = r  BY <1>1, <2>1 DEF AsksAreTyped
  <2>4. UNCHANGED <<FollowingIDs(v), BlockedIDs(v)>>  BY <2>1, <2>2, <2>3 DEF FollowingIDs, BlockedIDs
  <2> HIDE DEF r
  <2>5. FollowIsChecked(q)' /\ ListIsSound(q)'
    BY <1>1, <2>1, <2>2, <2>3, <2>4 DEF FollowIsChecked, ListIsSound
  <2>6. AsksHold'  BY <2>1, <2>2, <2>5, ReadStep DEF ToDrop
  <2> QED BY <1>1, <2>1, <2>6, Assembled DEF GraphTypeOK
<1>6. ASSUME ComputeSuggestions(q) PROVE GraphInv'
  <2> DEFINE candidates == (UNION {FollowingIDs(w) : w \in ask[q].found}) \ (ask[q].skip \cup {v})
  <2>1. PICK list \in SUBSET candidates : ask' = [ask EXCEPT ![q].found = list, ![q].step = "save"]
    BY <1>6 DEF ComputeSuggestions
  <2> DEFINE r == [ask[q] EXCEPT !.found = list, !.step = "save"]
  <2>2. /\ ask[q].step = "expand" /\ ask' = [ask EXCEPT ![q] = r]
        /\ UNCHANGED <<edges, blocks, cached, suggested, topic, graphFaults, crossed, unsure>>
    BY <1>6, <2>1 DEF ComputeSuggestions
  <2>3. candidates \subseteq Members  BY <1>1, KnownAreMembers DEF GraphTypeOK
  <2>4. list \cap (ask[q].skip \cup {v}) = {} /\ list \subseteq Members  BY <2>1, <2>3
  <2> HIDE DEF candidates
  <2>5. /\ r \in AskRecords /\ r.step = "save" /\ r.by = v /\ r.on = ask[q].on /\ r.found = list
    BY <1>2, <2>4 DEF AskRecords, AskSteps
  <2>6. ask'[q] = r  BY <1>1, <2>2 DEF AsksAreTyped
  <2>7. UNCHANGED <<FollowingIDs(v), BlockedIDs(v)>>  BY <2>2, <2>5, <2>6 DEF FollowingIDs, BlockedIDs
  <2> HIDE DEF r
  <2>8. FollowIsChecked(q)' /\ ListIsSound(q)'
    BY <1>1, <2>2, <2>4, <2>5, <2>6, <2>7 DEF FollowIsChecked, ListIsSound, Known
  <2>9. AsksHold'  BY <2>2, <2>5, <2>8, ReadStep DEF ToDrop
  <2> QED BY <1>1, <2>2, <2>9, Assembled DEF GraphTypeOK
<1> QED BY <1>3, <1>4, <1>5, <1>6

\* A list is saved: it was sound when it was computed and still is, or its viewer is unsure.
LEMMA SaveStep ==
    ASSUME GraphInv, NEW q \in Asks, SaveSuggestions(q)
    PROVE  GraphInv'
<1>1. GraphTypeOK /\ AsksAreTyped  BY DEF GraphInv
<1> DEFINE v == ask[q].by
<1>2. /\ ask[q].step = "save" /\ AskGoes(q, "done")
      /\ UNCHANGED <<edges, blocks, cached, topic, crossed, unsure>>
      /\ GraphFault \/ NoGraphFault
      /\ suggested' = [suggested EXCEPT ![v] = ask[q].found] \/ UNCHANGED suggested
  BY DEF SaveSuggestions
<1>3. v \in Members /\ ask[q].found \subseteq Members  BY <1>1, <1>2 DEF AsksAreTyped, AskRecords
<1>4. /\ AsksAreTyped' /\ ask'[q] = [ask[q] EXCEPT !.step = "done"]
      /\ \A p \in Asks : p # q => ask'[p] = ask[p]
  BY <1>1, <1>2, GoesOn DEF AskSteps
<1>5. ask'[q].step = "done" /\ ask'[q].by = v /\ ask'[q].on = ask[q].on
  BY <1>1, <1>4 DEF AsksAreTyped, AskRecords
<1>6. ASSUME NEW p \in Asks PROVE FollowIsChecked(p)' /\ ListIsSound(p)'
  BY <1>5, <1>2, <1>4, OthersKeep DEF FollowIsChecked, ListIsSound, GraphInv
<1>7. \A u : DropPending(u) => DropPending(u)'  BY <1>2, <1>4, StillPending DEF ToDrop
<1>8. v \notin unsure => ask[q].found \cap Known(v) = {}  BY <1>2 DEF GraphInv, ListIsSound
<1>9. SuggestionsAreFresh'
  BY <1>2, <1>1, <1>8, <1>7 DEF FollowingIDs, BlockedIDs, GraphTypeOK, GraphInv, SuggestionsAreFresh, Known
<1>10. AsksHold'  BY <1>2, <1>4, <1>6, <1>9, StillBlocked DEF GraphInv, AsksHold
<1>11. suggested' \in [Members -> SUBSET Members]  BY <1>1, <1>2, <1>3 DEF GraphTypeOK
<1> QED BY <1>1, <1>2, <1>10, <1>11, Assembled, FaultsAreBounded DEF GraphTypeOK

--------
\* Every step of requests, worker and clock keeps the invariant.
LEMMA GraphSteps == GraphInv /\ [GraphNext]_graphVars => GraphInv'
<1> SUFFICES ASSUME GraphInv, [GraphNext]_graphVars PROVE GraphInv'  OBVIOUS
<1>1. ASSUME NEW q \in Asks, NEW a \in Members, NEW b \in Members,
             BeginFollow(q, a, b) \/ DeleteEdge(q, a, b) \/ BlockUser(q, a, b)
      PROVE  GraphInv'
  BY <1>1, FollowSteps, EdgeSteps, BlockStep
<1>2. ASSUME NEW q \in Asks, NEW u \in Members, GetFollowerCount(q, u) \/ GetSuggestions(q, u)
      PROVE  GraphInv'
  BY <1>2, CounterSteps, ListSteps
<1>3. ASSUME NEW q \in Asks,
             \/ CheckReverse(q) \/ InsertEdge(q) \/ IncrementCount(q) \/ DecrementCount(q)
             \/ ForgetCounts(q) \/ PublishFollowEvent(q) \/ InvalidateSuggestionsCache(q)
             \/ LoadCount(q) \/ WarmCount(q)
             \/ ReadFollowing(q) \/ ReadBlocked(q) \/ ComputeSuggestions(q) \/ SaveSuggestions(q)
      PROVE  GraphInv'
  BY <1>3, FollowSteps, EdgeSteps, CountSteps, DropStep, CounterSteps, ListSteps, SaveStep
<1>4. ASSUME (\E e \in topic : HandleMessage(e)) \/ WorkerRestarts \/ \E u \in Members : CountExpires(u)
      PROVE  GraphInv'
  BY <1>4, WorkerSteps
<1>5. ASSUME UNCHANGED graphVars PROVE GraphInv'
  BY <1>5, OthersKeep, StillFresh, StillBlocked DEF graphVars, DropPending, GraphInv, AsksAreTyped, GraphTypeOK
<1> QED BY <1>1, <1>2, <1>3, <1>4, <1>5 DEF GraphNext

\* The invariant holds throughout.
LEMMA GraphInvHolds == GraphSpec => []GraphInv
<1> QED BY GraphStarts, GraphSteps, PTL DEF GraphSpec

\* Every variable of the social graph keeps its type.
THEOREM GraphTypesHold == GraphSpec => []GraphTypeOK
<1>1. GraphInv => GraphTypeOK  BY DEF GraphInv
<1> QED BY <1>1, GraphInvHolds, PTL

\* Nobody follows across a block but for the follow a block was committed in the middle of,
\* and no list suggests whom its viewer knows or shuns but for those computed, or not
\* dropped, while that changed: for any members, requests and failures.
THEOREM GraphIsRespected == GraphSpec => []TheGraphIsRespected
<1>1. GraphInv => TheGraphIsRespected  BY DEF GraphInv, TheGraphIsRespected
<1> QED BY <1>1, GraphInvHolds, PTL

--------
\* Proofs about Uploads: what the session of a resumable upload lists is
\* stored, and the file it is assembled into has every part, for any
\* number of requests, of parts and of failures.
\*
\* The session alone is not inductive: a request writes back a list it
\* read before another stored or removed parts.  The invariant therefore
\* also says what each request holds (StoresSoundly, AssemblesSoundly) and
\* that nothing is written before the upload has been opened.
\*
\* Then about Videos: the row of a video follows its owner.  What others
\* see rests on OwnerIsFollowed, who holds what on EditorsFit.
Opening(w) == w.step \in {"create", "open"}
Storing(w) == w.step \in {"put", "save", "note"}

AtMostOne(S) == S = {} \/ \E s \in SUBSET Parts : S = {s}

\* UploadTypeOK, the cardinalities spelt out, and the part a request stores is one of the file.
UploadTypes ==
    /\ AtMostOne(uploadSession) /\ AtMostOne(rawFile)
    /\ chunkObjects \subseteq Parts /\ chunkRows \subseteq Parts
    /\ uploadRow \in {NoUpload, "uploading", "processing"}
    /\ sender \in [Senders -> SenderRecords] /\ sweep \in [Senders -> SweepRecords]
    /\ received \subseteq Parts /\ crossedNotes \in BOOLEAN
    /\ uploadFaults \in 0..MaxUploadFaults
    /\ \A r \in Senders : Storing(sender[r]) => sender[r].part \in Parts

NoSweepDone == \A r \in Senders : sweep[r].step # "done"

\* Only one request opens the upload, and nothing else happens before it has.
OpeningIsAlone ==
    /\ \A q, r \in Senders : Opening(sender[q]) /\ Opening(sender[r]) => q = r
    /\ \A r \in Senders : At(r, "create") => uploadRow = NoUpload
    /\ \A r \in Senders : At(r, "open") => uploadRow = "uploading"
    /\ uploadRow = NoUpload \/ (\E r \in Senders : Opening(sender[r])) =>
          /\ uploadSession = {} /\ received = {}
          /\ \A r \in Senders : sender[r].step \in {"new", "create", "open", "done"}

\* The clean-up of a request comes after all it does but forgetting the session.
Left(w) == w.step \in {"forget", "done"}
CleanUpsComeLast == \A r \in Senders : sweep[r].step # "none" => Left(sender[r])

\* Before any clean-up, the list a request is going to write back is of stored parts, and
\* so is its own part as soon as it has stored it.
StoresSoundly(w) ==
    /\ Storing(w) => w.saw \subseteq chunkObjects \cap chunkRows
    /\ w.step \in {"save", "note"} => w.part \in chunkObjects
    /\ w.step = "note" => w.part \in chunkRows

PartsAreStored == Unswept => \A r \in Senders : StoresSoundly(sender[r])

\* While no clean-up has ended, the rows are those of every part a session lists, and a
\* request that completes the upload has found all of them.
AssemblesSoundly(w) ==
    /\ Storing(w) => w.saw \subseteq chunkRows
    /\ w.step = "note" => w.part \in chunkRows
    /\ w.step = "list" => chunkRows = Parts
    /\ w.step = "assemble" => w.rows = Parts
    /\ w.step = "store" => w.file = Parts

RowsAreKept ==
    NoSweepDone =>
        /\ \A s \in uploadSession : s \subseteq chunkRows
        /\ \A r \in Senders : AssemblesSoundly(sender[r])

\* A request that is about to set the status has stored the file.
FilesAreThere == \A r \in Senders : At(r, "finish") => rawFile # {}

UploadInv ==
    /\ UploadTypes
    /\ OpeningIsAlone
    /\ CleanUpsComeLast
    /\ PartsAreStored
    /\ RowsAreKept
    /\ FilesAreThere
    /\ UploadsAreWhole

--------
\* Facts about sets of parts.

\* A set with at most one member, as UploadTypeOK says it.
LEMMA AtMostOneIsSmall ==
    ASSUME NEW S, AtMostOne(S)
    PROVE  S \subseteq SUBSET Parts /\ Cardinality(S) <= 1
<1>1. CASE S = {}  BY <1>1, FS_EmptySet
<1>2. CASE \E s \in SUBSET Parts : S = {s}  BY <1>2, FS_Singleton
<1>3. QED BY <1>1, <1>2 DEF AtMostOne

\* NoneMissing: a session that lists as many parts as there are lists every part.
LEMMA NoneMissingIsAll ==
    ASSUME NEW s \in SUBSET Parts, NoneMissing(s)
    PROVE  s = Parts
<1>1. IsFiniteSet(Parts) /\ Cardinality(Parts) = TotalChunks  BY UploadAssumption, FS_Interval DEF Parts
<1>2. QED BY <1>1, FS_Subset DEF NoneMissing

\* UploadInv says what UploadTypeOK says.
LEMMA TypesFollow == UploadInv => UploadTypeOK
BY AtMostOneIsSmall DEF UploadInv, UploadTypes, UploadTypeOK

\* The initial states, whether the upload has been initiated or not.
LEMMA UploadStarts == UploadInit => UploadInv
<1> SUFFICES ASSUME UploadInit PROVE UploadInv  OBVIOUS
<1> USE UploadAssumption DEF UploadInit
<1>1. UploadTypes
  <2>1. AtMostOne(uploadSession) /\ AtMostOne(rawFile)  BY DEF AtMostOne
  <2>2. sender \in [Senders -> SenderRecords] /\ sweep \in [Senders -> SweepRecords]
    BY DEF SenderRecords, SenderSteps, SweepRecords
  <2>3. crossedNotes \in BOOLEAN  BY Zenon
  <2>4. /\ chunkObjects \subseteq Parts /\ chunkRows \subseteq Parts
        /\ uploadRow \in {NoUpload, "uploading", "processing"}
        /\ received \subseteq Parts /\ uploadFaults \in 0..MaxUploadFaults
    OBVIOUS
  <2>5. QED BY <2>1, <2>2, <2>3, <2>4 DEF UploadTypes, Storing
<1>2. OpeningIsAlone /\ CleanUpsComeLast /\ PartsAreStored /\ RowsAreKept /\ FilesAreThere
  BY DEF OpeningIsAlone, Opening, At, NoUpload, CleanUpsComeLast, PartsAreStored,
         StoresSoundly, Storing, RowsAreKept, AssemblesSoundly, FilesAreThere
<1>3. UploadsAreWhole
  BY DEF UploadsAreWhole, ListedIsStored, TheFileIsWhole, ProcessingHasFile,
         AcknowledgedIsListed, NoUpload
<1>4. QED BY <1>1, <1>2, <1>3 DEF UploadInv

--------
\* What a step of a request leaves of the others.

\* A request that goes on to another step keeps the rest of what it holds.
LEMMA UploadGoesOn ==
    ASSUME sender \in [Senders -> SenderRecords], NEW r \in Senders, NEW step \in SenderSteps,
           Becomes(r, step)
    PROVE  \E w \in SenderRecords :
              /\ sender' = [sender EXCEPT ![r] = w] /\ w.step = step
              /\ w.part = sender[r].part /\ w.saw = sender[r].saw
              /\ w.rows = sender[r].rows /\ w.file = sender[r].file
<1>1. [sender[r] EXCEPT !.step = step] \in SenderRecords  BY DEF SenderRecords
<1>2. WITNESS [sender[r] EXCEPT !.step = step] \in SenderRecords
<1>3. QED BY DEF SenderRecords, Becomes

\* A request that only reads, and what it read is sound, disturbs nothing.
LEMMA ReadingIsSound ==
    ASSUME UploadInv, NEW r \in Senders, NEW w \in SenderRecords,
           sender' = [sender EXCEPT ![r] = w],
           UNCHANGED <<uploadSession, fileVars, uploadRow, sweep, received, crossedNotes>>,
           uploadFaults' \in 0..MaxUploadFaults,
           Opening(w) => Opening(sender[r]) /\ w.step = sender[r].step,
           uploadRow = NoUpload \/ (\E q \in Senders : Opening(sender[q])) =>
              w.step \in {"new", "create", "open", "done"},
           Left(sender[r]) => Left(w), Storing(w) => w.part \in Parts,
           Unswept => StoresSoundly(w), NoSweepDone => AssemblesSoundly(w),
           w.step = "finish" => rawFile # {}
    PROVE  UploadInv'
<1> USE DEF UploadInv, fileVars
<1>1. UploadTypes'  BY DEF UploadTypes, AtMostOne, Storing
<1>2. \A q \in Senders : sender'[q] = IF q = r THEN w ELSE sender[q]  BY DEF UploadTypes
<1>3. OpeningIsAlone' /\ CleanUpsComeLast'  BY <1>2 DEF OpeningIsAlone, Opening, At, CleanUpsComeLast
<1>4. PartsAreStored'  BY <1>2 DEF PartsAreStored, StoresSoundly, Storing, Unswept
<1>5. RowsAreKept'  BY <1>2 DEF RowsAreKept, AssemblesSoundly, Storing, NoSweepDone
<1>6. FilesAreThere'  BY <1>2 DEF FilesAreThere, At
<1>7. UploadsAreWhole'
  BY DEF UploadsAreWhole, ListedIsStored, TheFileIsWhole, ProcessingHasFile,
         AcknowledgedIsListed, Unswept
<1>8. QED BY <1>1, <1>3, <1>4, <1>5, <1>6, <1>7

\* UploadChunk: a session that is there lists stored parts, and the upload has been opened.
LEMMA UploadChunkIsSound ==
    ASSUME UploadInv, NEW r \in Senders, UploadChunk(r)
    PROVE  UploadInv'
<1>1. PICK i \in Parts, s \in uploadSession :
         sender' = [sender EXCEPT ![r].step = "put", ![r].part = i, ![r].saw = s]
  BY Zenon DEF UploadChunk
<1>2. s \in SUBSET Parts /\ sender[r] \in SenderRecords  BY DEF UploadInv, UploadTypes, AtMostOne
<1> DEFINE w == [sender[r] EXCEPT !.step = "put", !.part = i, !.saw = s]
<1>3. sender' = [sender EXCEPT ![r] = w] /\ w \in SenderRecords
  <2>1. i \in 0..TotalChunks  BY DEF Parts
  <2>2. QED BY <1>1, <1>2, <2>1 DEF SenderRecords, SenderSteps
<1>4. w.step = "put" /\ w.saw = s /\ w.part = i  BY <1>2 DEF SenderRecords
<1> HIDE DEF w
<1>5. Unswept => StoresSoundly(w)
  BY <1>4 DEF StoresSoundly, Storing, UploadInv, UploadsAreWhole, ListedIsStored
<1>6. NoSweepDone => AssemblesSoundly(w)  BY <1>4 DEF AssemblesSoundly, Storing, UploadInv, RowsAreKept
<1>7. ~(uploadRow = NoUpload \/ (\E q \in Senders : Opening(sender[q])))  BY DEF UploadInv, OpeningIsAlone
<1>8. QED
  BY <1>3, <1>4, <1>5, <1>6, <1>7, ReadingIsSound
     DEF UploadChunk, At, Left, Opening, UploadInv, UploadTypes

\* CompleteUpload: a session with as many parts as the file has lists all of them.
LEMMA CompleteUploadIsSound ==
    ASSUME UploadInv, NEW r \in Senders, CompleteUpload(r)
    PROVE  UploadInv'
<1>1. PICK s \in uploadSession :
         NoneMissing(s) /\ sender' = [sender EXCEPT ![r].step = "list", ![r].saw = s]
  BY DEF CompleteUpload
<1>2. s \in SUBSET Parts /\ sender[r] \in SenderRecords  BY DEF UploadInv, UploadTypes, AtMostOne
<1> DEFINE w == [sender[r] EXCEPT !.step = "list", !.saw = s]
<1>3. sender' = [sender EXCEPT ![r] = w] /\ w \in SenderRecords  BY <1>1, <1>2 DEF SenderRecords, SenderSteps
<1>4. w.step = "list"  BY <1>2 DEF SenderRecords
<1> HIDE DEF w
<1>5. NoSweepDone => chunkRows = Parts
  BY <1>1, <1>2, NoneMissingIsAll DEF UploadInv, RowsAreKept, UploadTypes
<1>6. StoresSoundly(w) /\ (NoSweepDone => AssemblesSoundly(w))
  BY <1>4, <1>5 DEF StoresSoundly, AssemblesSoundly, Storing
<1>7. ~(uploadRow = NoUpload \/ (\E q \in Senders : Opening(sender[q])))
  BY <1>1 DEF UploadInv, OpeningIsAlone
<1>8. QED
  BY <1>3, <1>4, <1>6, <1>7, ReadingIsSound
     DEF CompleteUpload, At, Left, Opening, Storing, UploadInv, UploadTypes

\* GetChunks: the rows listed are those of every part.
LEMMA GetChunksIsSound ==
    ASSUME UploadInv, NEW r \in Senders, GetChunks(r)
    PROVE  UploadInv'
<1> DEFINE w == [sender[r] EXCEPT !.step = "assemble", !.rows = chunkRows]
<1>1. sender[r] \in SenderRecords /\ sender[r].step = "list"  BY DEF UploadInv, UploadTypes, GetChunks, At
<1>2. sender' = [sender EXCEPT ![r] = w] /\ w \in SenderRecords
  BY <1>1 DEF SenderRecords, SenderSteps, GetChunks, UploadInv, UploadTypes
<1>3. w.step = "assemble" /\ w.rows = chunkRows  BY <1>1 DEF SenderRecords
<1> HIDE DEF w
<1>4. StoresSoundly(w) /\ (NoSweepDone => AssemblesSoundly(w))
  BY <1>1, <1>3 DEF StoresSoundly, AssemblesSoundly, Storing, UploadInv, RowsAreKept
<1>5. ~(uploadRow = NoUpload \/ (\E q \in Senders : Opening(sender[q])))
  BY <1>1 DEF UploadInv, OpeningIsAlone
<1>6. QED
  BY <1>1, <1>2, <1>3, <1>4, <1>5, ReadingIsSound
     DEF Left, GetChunks, Opening, Storing, UploadInv, UploadTypes

\* AppendChunk: a part that is fetched is one of the rows listed, and the file is stored
\* when none of them is left.
LEMMA AppendChunkIsSound ==
    ASSUME UploadInv, NEW r \in Senders, AppendChunk(r)
    PROVE  UploadInv'
<1> DEFINE left == sender[r].rows \ sender[r].file
           next == CHOOSE i \in left : \A j \in left : i <= j
<1>1. sender[r] \in SenderRecords /\ sender[r].step = "assemble"
  BY DEF UploadInv, UploadTypes, AppendChunk, At
<1>2. /\ UNCHANGED <<uploadSession, fileVars, uploadRow, sweep, received, crossedNotes>>
      /\ uploadFaults' \in 0..MaxUploadFaults
  BY DEF AppendChunk, UploadInv, UploadTypes
<1>3. ~(uploadRow = NoUpload \/ (\E q \in Senders : Opening(sender[q])))
  BY <1>1 DEF UploadInv, OpeningIsAlone
<1>4. NoSweepDone => sender[r].rows = Parts  BY <1>1 DEF UploadInv, RowsAreKept, AssemblesSoundly
<1>5. CASE left = {}
  <2>1. Becomes(r, "store")  BY <1>5 DEF AppendChunk
  <2>2. PICK w \in SenderRecords :
          sender' = [sender EXCEPT ![r] = w] /\ w.step = "store" /\ w.file = sender[r].file
    BY <2>1, UploadGoesOn DEF UploadInv, UploadTypes, SenderSteps
  <2>3. NoSweepDone => w.file = Parts  BY <1>1, <1>4, <1>5, <2>2 DEF SenderRecords
  <2>4. StoresSoundly(w) /\ (NoSweepDone => AssemblesSoundly(w))
    BY <2>2, <2>3 DEF StoresSoundly, AssemblesSoundly, Storing
  <2>5. QED BY <1>1, <1>2, <1>3, <2>2, <2>4, ReadingIsSound DEF Opening, Storing, Left
<1>6. CASE left # {} /\ next \in chunkObjects
  <2> DEFINE w == [sender[r] EXCEPT !.file = @ \cup {next}]
  <2>1. next \in Parts  BY <1>6 DEF UploadInv, UploadTypes
  <2>2. sender' = [sender EXCEPT ![r].file = @ \cup {next}]  BY <1>6 DEF AppendChunk
  <2> HIDE DEF next, left
  <2>3. sender' = [sender EXCEPT ![r] = w] /\ w \in SenderRecords
    BY <1>1, <2>1, <2>2 DEF SenderRecords, UploadInv, UploadTypes
  <2>4. w.step = "assemble" /\ w.rows = sender[r].rows  BY <1>1 DEF SenderRecords
  <2> HIDE DEF w
  <2>5. StoresSoundly(w) /\ (NoSweepDone => AssemblesSoundly(w))
    BY <1>4, <2>4 DEF StoresSoundly, AssemblesSoundly, Storing
  <2>6. QED BY <1>1, <1>2, <1>3, <2>3, <2>4, <2>5, ReadingIsSound DEF Opening, Storing, Left
<1>7. CASE left # {} /\ next \notin chunkObjects
  <2>1. Becomes(r, "done")  BY <1>7 DEF AppendChunk
  <2>2. PICK w \in SenderRecords : sender' = [sender EXCEPT ![r] = w] /\ w.step = "done"
    BY <2>1, UploadGoesOn DEF UploadInv, UploadTypes, SenderSteps
  <2>3. QED BY <1>2, <2>2, ReadingIsSound DEF Opening, StoresSoundly, AssemblesSoundly, Storing, Left
<1>8. QED BY <1>5, <1>6, <1>7

\* UploadAborts: a request that stops holds nothing that matters.
LEMMA UploadAbortsIsSound ==
    ASSUME UploadInv, NEW r \in Senders, UploadAborts(r)
    PROVE  UploadInv'
<1>1. PICK w \in SenderRecords : sender' = [sender EXCEPT ![r] = w] /\ w.step = "done"
  BY UploadGoesOn DEF UploadAborts, UploadInv, UploadTypes, SenderSteps
<1>2. uploadFaults' \in 0..MaxUploadFaults
  BY UploadAssumption DEF UploadAborts, Fault, UploadInv, UploadTypes
<1>3. QED
  BY <1>1, <1>2, ReadingIsSound
     DEF UploadAborts, Left, Opening, StoresSoundly, AssemblesSoundly, Storing

--------
\* The steps that write.

\* InitiateUpload: nothing has been written yet, and no other request opens the upload.
LEMMA InitiateUploadIsSound ==
    ASSUME UploadInv, NEW r \in Senders, InitiateUpload(r)
    PROVE  UploadInv'
<1> USE DEF UploadInv
<1>1. PICK w \in SenderRecords :
         /\ sender' = [sender EXCEPT ![r] = w] /\ w.step = "create"
         /\ w.part = sender[r].part /\ w.saw = sender[r].saw
         /\ w.rows = sender[r].rows /\ w.file = sender[r].file
  BY UploadGoesOn DEF InitiateUpload, UploadTypes, SenderSteps
<1>2. \A q \in Senders : sender'[q] = IF q = r THEN w ELSE sender[q]  BY <1>1 DEF UploadTypes
<1>3. UploadTypes'
  BY <1>1, <1>2, UploadAssumption
     DEF UploadTypes, AtMostOne, Storing, SenderRecords, SweepRecords, At, InitiateUpload, fileVars
<1>4. OpeningIsAlone'  BY <1>1, <1>2 DEF OpeningIsAlone, Opening, At, NoUpload, InitiateUpload, fileVars
<1>5. CleanUpsComeLast'
  BY <1>1, <1>2 DEF CleanUpsComeLast, Left, UploadTypes, SweepRecords, At, InitiateUpload, fileVars
<1>6. PartsAreStored'
  BY <1>1, <1>2 DEF PartsAreStored, StoresSoundly, Storing, Unswept, At, InitiateUpload, fileVars
<1>7. RowsAreKept'
  BY <1>1, <1>2 DEF RowsAreKept, AssemblesSoundly, Storing, NoSweepDone, At, InitiateUpload,
     fileVars
<1>8. FilesAreThere'  BY <1>1, <1>2 DEF FilesAreThere, At, InitiateUpload, fileVars
<1>9. UploadsAreWhole'
  BY <1>1, <1>2 DEF UploadsAreWhole, ListedIsStored, TheFileIsWhole, ProcessingHasFile,
     AcknowledgedIsListed, Unswept, At, InitiateUpload, fileVars
<1>10. QED BY <1>3, <1>4, <1>5, <1>6, <1>7, <1>8, <1>9

\* CreateVideo: the row is there, the session not yet.
LEMMA CreateVideoIsSound ==
    ASSUME UploadInv, NEW r \in Senders, CreateVideo(r)
    PROVE  UploadInv'
<1> USE DEF UploadInv
<1>1. PICK w \in SenderRecords :
         /\ sender' = [sender EXCEPT ![r] = w] /\ w.step = "open"
         /\ w.part = sender[r].part /\ w.saw = sender[r].saw
         /\ w.rows = sender[r].rows /\ w.file = sender[r].file
  BY UploadGoesOn DEF CreateVideo, UploadTypes, SenderSteps
<1>2. \A q \in Senders : sender'[q] = IF q = r THEN w ELSE sender[q]  BY <1>1 DEF UploadTypes
<1>3. UploadTypes'
  BY <1>1, <1>2, UploadAssumption
     DEF UploadTypes, AtMostOne, Storing, SenderRecords, SweepRecords, At, CreateVideo, fileVars
<1>4. OpeningIsAlone'  BY <1>1, <1>2 DEF OpeningIsAlone, Opening, At, CreateVideo, fileVars
<1>5. CleanUpsComeLast'
  BY <1>1, <1>2 DEF CleanUpsComeLast, Left, UploadTypes, SweepRecords, At, CreateVideo, fileVars
<1>6. PartsAreStored'
  BY <1>1, <1>2 DEF PartsAreStored, StoresSoundly, Storing, Unswept, At, CreateVideo, fileVars
<1>7. RowsAreKept'
  BY <1>1, <1>2 DEF RowsAreKept, AssemblesSoundly, Storing, NoSweepDone, At, CreateVideo, fileVars
<1>8. FilesAreThere'  BY <1>1, <1>2 DEF FilesAreThere, At, CreateVideo, fileVars
<1>9. UploadsAreWhole'
  BY <1>1, <1>2 DEF UploadsAreWhole, ListedIsStored, TheFileIsWhole, ProcessingHasFile,
     AcknowledgedIsListed, Unswept, At, CreateVideo, fileVars
<1>10. QED BY <1>3, <1>4, <1>5, <1>6, <1>7, <1>8, <1>9

\* OpenSession: a session that lists nothing; no request was answered before it.
LEMMA OpenSessionIsSound ==
    ASSUME UploadInv, NEW r \in Senders, OpenSession(r)
    PROVE  UploadInv'
<1> USE DEF UploadInv
<1>1. PICK w \in SenderRecords :
         /\ sender' = [sender EXCEPT ![r] = w] /\ w.step = "done"
         /\ w.part = sender[r].part /\ w.saw = sender[r].saw
         /\ w.rows = sender[r].rows /\ w.file = sender[r].file
  BY UploadGoesOn DEF OpenSession, UploadTypes, SenderSteps
<1>2. \A q \in Senders : sender'[q] = IF q = r THEN w ELSE sender[q]  BY <1>1 DEF UploadTypes
<1>3. UploadTypes'
  BY <1>1, <1>2, UploadAssumption
     DEF UploadTypes, AtMostOne, Storing, SenderRecords, SweepRecords, At, OpenSession, fileVars
<1>4. OpeningIsAlone'  BY <1>1, <1>2 DEF OpeningIsAlone, Opening, At, NoUpload, OpenSession, fileVars
<1>5. CleanUpsComeLast'
  BY <1>1, <1>2 DEF CleanUpsComeLast, Left, UploadTypes, SweepRecords, At, OpenSession, fileVars
<1>6. PartsAreStored'
  BY <1>1, <1>2 DEF PartsAreStored, StoresSoundly, Storing, Unswept, At, OpenSession, fileVars
<1>7. RowsAreKept'
  BY <1>1, <1>2 DEF RowsAreKept, AssemblesSoundly, Storing, NoSweepDone, At, OpenSession, fileVars
<1>8. FilesAreThere'  BY <1>1, <1>2 DEF FilesAreThere, At, OpenSession, fileVars
<1>9. UploadsAreWhole'
  BY <1>1, <1>2 DEF UploadsAreWhole, ListedIsStored, TheFileIsWhole, ProcessingHasFile,
     AcknowledgedIsListed, Unswept, At, OpeningIsAlone, Opening, OpenSession, fileVars
<1>10. QED BY <1>3, <1>4, <1>5, <1>6, <1>7, <1>8, <1>9

\* PutChunk: more parts are stored.
LEMMA PutChunkIsSound ==
    ASSUME UploadInv, NEW r \in Senders, PutChunk(r)
    PROVE  UploadInv'
<1> USE DEF UploadInv
<1>1. PICK w \in SenderRecords :
         /\ sender' = [sender EXCEPT ![r] = w] /\ w.step = "save"
         /\ w.part = sender[r].part /\ w.saw = sender[r].saw
         /\ w.rows = sender[r].rows /\ w.file = sender[r].file
  BY UploadGoesOn DEF PutChunk, UploadTypes, SenderSteps
<1>2. \A q \in Senders : sender'[q] = IF q = r THEN w ELSE sender[q]  BY <1>1 DEF UploadTypes
<1>3. UploadTypes'
  BY <1>1, <1>2, UploadAssumption
     DEF UploadTypes, AtMostOne, Storing, SenderRecords, SweepRecords, At, PutChunk, fileVars
<1>4. OpeningIsAlone'  BY <1>1, <1>2 DEF OpeningIsAlone, Opening, At, PutChunk, fileVars
<1>5. CleanUpsComeLast'
  BY <1>1, <1>2 DEF CleanUpsComeLast, Left, UploadTypes, SweepRecords, At, PutChunk, fileVars
<1>6. PartsAreStored'
  BY <1>1, <1>2 DEF PartsAreStored, StoresSoundly, Storing, Unswept, At, PutChunk, fileVars
<1>7. RowsAreKept'
  BY <1>1, <1>2 DEF RowsAreKept, AssemblesSoundly, Storing, NoSweepDone, At, PutChunk, fileVars
<1>8. FilesAreThere'  BY <1>1, <1>2 DEF FilesAreThere, At, PutChunk, fileVars
<1>9. UploadsAreWhole'
  BY <1>1, <1>2 DEF UploadsAreWhole, ListedIsStored, TheFileIsWhole, ProcessingHasFile,
     AcknowledgedIsListed, Unswept, At, PutChunk, fileVars
<1>10. QED BY <1>3, <1>4, <1>5, <1>6, <1>7, <1>8, <1>9

\* SaveChunk: more parts are recorded.
LEMMA SaveChunkIsSound ==
    ASSUME UploadInv, NEW r \in Senders, SaveChunk(r)
    PROVE  UploadInv'
<1> USE DEF UploadInv
<1>1. PICK w \in SenderRecords :
         /\ sender' = [sender EXCEPT ![r] = w] /\ w.step = "note"
         /\ w.part = sender[r].part /\ w.saw = sender[r].saw
         /\ w.rows = sender[r].rows /\ w.file = sender[r].file
  BY UploadGoesOn DEF SaveChunk, UploadTypes, SenderSteps
<1>2. \A q \in Senders : sender'[q] = IF q = r THEN w ELSE sender[q]  BY <1>1 DEF UploadTypes
<1>3. UploadTypes'
  BY <1>1, <1>2, UploadAssumption
     DEF UploadTypes, AtMostOne, Storing, SenderRecords, SweepRecords, At, SaveChunk, fileVars
<1>4. OpeningIsAlone'  BY <1>1, <1>2 DEF OpeningIsAlone, Opening, At, SaveChunk, fileVars
<1>5. CleanUpsComeLast'
  BY <1>1, <1>2 DEF CleanUpsComeLast, Left, UploadTypes, SweepRecords, At, SaveChunk, fileVars
<1>6. PartsAreStored'
  BY <1>1, <1>2 DEF PartsAreStored, StoresSoundly, Storing, Unswept, At, SaveChunk, fileVars
<1>7. RowsAreKept'
  BY <1>1, <1>2
     DEF RowsAreKept, AssemblesSoundly, UploadTypes, Storing, NoSweepDone, At, SaveChunk, fileVars
<1>8. FilesAreThere'  BY <1>1, <1>2 DEF FilesAreThere, At, SaveChunk, fileVars
<1>9. UploadsAreWhole'
  BY <1>1, <1>2 DEF UploadsAreWhole, ListedIsStored, TheFileIsWhole, ProcessingHasFile,
     AcknowledgedIsListed, Unswept, At, SaveChunk, fileVars
<1>10. QED BY <1>3, <1>4, <1>5, <1>6, <1>7, <1>8, <1>9

\* NoteChunk: what is written was read before or has been stored since.
LEMMA NoteChunkIsSound ==
    ASSUME UploadInv, NEW r \in Senders, NoteChunk(r)
    PROVE  UploadInv'
<1> USE DEF UploadInv
<1>1. PICK w \in SenderRecords :
         /\ sender' = [sender EXCEPT ![r] = w] /\ w.step = "done"
         /\ w.part = sender[r].part /\ w.saw = sender[r].saw
         /\ w.rows = sender[r].rows /\ w.file = sender[r].file
  BY UploadGoesOn DEF NoteChunk, UploadTypes, SenderSteps
<1>2. \A q \in Senders : sender'[q] = IF q = r THEN w ELSE sender[q]  BY <1>1 DEF UploadTypes
<1>3. UploadTypes'
  BY <1>1, <1>2, UploadAssumption DEF NoteChunk, UploadTypes, SenderRecords, AddChunkIndex, At, Storing,
     AtMostOne, SweepRecords, fileVars
<1>4. OpeningIsAlone'  BY <1>1, <1>2 DEF OpeningIsAlone, Opening, At, NoteChunk, fileVars
<1>5. CleanUpsComeLast'
  BY <1>1, <1>2 DEF CleanUpsComeLast, Left, UploadTypes, SweepRecords, At, NoteChunk, fileVars
<1>6. PartsAreStored'
  BY <1>1, <1>2 DEF PartsAreStored, StoresSoundly, Storing, Unswept, At, NoteChunk, fileVars
<1>7. RowsAreKept'
  BY <1>1, <1>2 DEF RowsAreKept, AssemblesSoundly, AddChunkIndex, Storing, NoSweepDone, At,
     NoteChunk, fileVars
<1>8. FilesAreThere'  BY <1>1, <1>2 DEF FilesAreThere, At, NoteChunk, fileVars
<1>9. UploadsAreWhole'
  <2>1. ListedIsStored'
    BY DEF ListedIsStored, AddChunkIndex, NoteChunk, At, fileVars, PartsAreStored,
           StoresSoundly, Storing, Unswept
  <2>2. TheFileIsWhole' /\ ProcessingHasFile'
    BY DEF UploadsAreWhole, TheFileIsWhole, ProcessingHasFile, NoteChunk, fileVars
  <2>3. AcknowledgedIsListed'  BY DEF UploadsAreWhole, AcknowledgedIsListed, Unswept, AddChunkIndex, NoteChunk
  <2>4. QED BY <2>1, <2>2, <2>3 DEF UploadsAreWhole
<1>10. QED BY <1>3, <1>4, <1>5, <1>6, <1>7, <1>8, <1>9

\* StoreFile: the file has every part that was listed.
LEMMA StoreFileIsSound ==
    ASSUME UploadInv, NEW r \in Senders, StoreFile(r)
    PROVE  UploadInv'
<1> USE DEF UploadInv
<1>1. PICK w \in SenderRecords :
         /\ sender' = [sender EXCEPT ![r] = w] /\ w.step = "finish"
         /\ w.part = sender[r].part /\ w.saw = sender[r].saw
         /\ w.rows = sender[r].rows /\ w.file = sender[r].file
  BY UploadGoesOn DEF StoreFile, UploadTypes, SenderSteps
<1>2. \A q \in Senders : sender'[q] = IF q = r THEN w ELSE sender[q]  BY <1>1 DEF UploadTypes
<1>3. UploadTypes'
  BY <1>1, <1>2, UploadAssumption
     DEF UploadTypes, AtMostOne, Storing, SenderRecords, SweepRecords, At, StoreFile, fileVars
<1>4. OpeningIsAlone'  BY <1>1, <1>2 DEF OpeningIsAlone, Opening, At, StoreFile, fileVars
<1>5. CleanUpsComeLast'
  BY <1>1, <1>2 DEF CleanUpsComeLast, Left, UploadTypes, SweepRecords, At, StoreFile, fileVars
<1>6. PartsAreStored'
  BY <1>1, <1>2 DEF PartsAreStored, StoresSoundly, Storing, Unswept, At, StoreFile, fileVars
<1>7. RowsAreKept'
  BY <1>1, <1>2 DEF RowsAreKept, AssemblesSoundly, Storing, NoSweepDone, At, StoreFile, fileVars
<1>8. FilesAreThere'  BY <1>1, <1>2 DEF FilesAreThere, At, StoreFile, fileVars
<1>9. UploadsAreWhole'
  BY <1>1, <1>2 DEF UploadsAreWhole, ListedIsStored, TheFileIsWhole, ProcessingHasFile,
     AcknowledgedIsListed, Unswept, At, RowsAreKept, AssemblesSoundly, NoSweepDone, StoreFile, fileVars
<1>10. QED BY <1>3, <1>4, <1>5, <1>6, <1>7, <1>8, <1>9

\* StartProcessing: from here on there is a clean-up, and the video has a file.
LEMMA StartProcessingIsSound ==
    ASSUME UploadInv, NEW r \in Senders, StartProcessing(r)
    PROVE  UploadInv'
<1> USE DEF UploadInv
<1>1. PICK w \in SenderRecords :
         /\ sender' = [sender EXCEPT ![r] = w] /\ w.step = "forget"
         /\ w.part = sender[r].part /\ w.saw = sender[r].saw
         /\ w.rows = sender[r].rows /\ w.file = sender[r].file
  BY UploadGoesOn DEF StartProcessing, UploadTypes, SenderSteps
<1>2. \A q \in Senders : sender'[q] = IF q = r THEN w ELSE sender[q]  BY <1>1 DEF UploadTypes
<1>a. NoSweepDone' => NoSweepDone
  BY DEF NoSweepDone, StartProcessing, At, UploadTypes, SweepRecords, CleanUpsComeLast, Left
<1>3. UploadTypes'
  BY <1>1, <1>2, UploadAssumption
     DEF UploadTypes, AtMostOne, Storing, SenderRecords, SweepRecords, At, StartProcessing, fileVars
<1>4. OpeningIsAlone'  BY <1>1, <1>2 DEF OpeningIsAlone, Opening, At, NoUpload, StartProcessing, fileVars
<1>5. CleanUpsComeLast'
  BY <1>1, <1>2 DEF CleanUpsComeLast, Left, UploadTypes, SweepRecords, At, StartProcessing, fileVars
<1>6. PartsAreStored'
  BY <1>1, <1>2 DEF PartsAreStored, StoresSoundly, Storing, Unswept, At, StartProcessing, fileVars
<1>7. RowsAreKept'
  BY <1>a, <1>1, <1>2 DEF RowsAreKept, AssemblesSoundly, Storing, At, StartProcessing, fileVars
<1>8. FilesAreThere'  BY <1>1, <1>2 DEF FilesAreThere, At, StartProcessing, fileVars
<1>9. UploadsAreWhole'
  BY <1>a DEF Unswept, StartProcessing, UploadTypes, ListedIsStored, AcknowledgedIsListed, UploadsAreWhole,
     TheFileIsWhole, ProcessingHasFile, NoSweepDone, fileVars, FilesAreThere
<1>10. QED BY <1>3, <1>4, <1>5, <1>6, <1>7, <1>8, <1>9

\* ForgetSession: the session goes, or the call fails and it stays.
LEMMA ForgetSessionIsSound ==
    ASSUME UploadInv, NEW r \in Senders, ForgetSession(r)
    PROVE  UploadInv'
<1> USE DEF UploadInv
<1>1. PICK w \in SenderRecords :
         /\ sender' = [sender EXCEPT ![r] = w] /\ w.step = "done"
         /\ w.part = sender[r].part /\ w.saw = sender[r].saw
         /\ w.rows = sender[r].rows /\ w.file = sender[r].file
  BY UploadGoesOn DEF ForgetSession, UploadTypes, SenderSteps
<1>2. \A q \in Senders : sender'[q] = IF q = r THEN w ELSE sender[q]  BY <1>1 DEF UploadTypes
<1>3. UploadTypes'
  BY UploadAssumption, <1>1, <1>2 DEF UploadTypes, AtMostOne, ForgetSession, NoFault, Fault, Storing, fileVars
<1>4. OpeningIsAlone'  BY <1>1, <1>2 DEF OpeningIsAlone, Opening, At, ForgetSession, fileVars
<1>5. CleanUpsComeLast'
  BY <1>1, <1>2 DEF CleanUpsComeLast, Left, UploadTypes, SweepRecords, At, ForgetSession, fileVars
<1>6. PartsAreStored'
  BY <1>1, <1>2 DEF PartsAreStored, StoresSoundly, Storing, Unswept, At, ForgetSession, fileVars
<1>7. RowsAreKept'
  BY <1>1, <1>2 DEF RowsAreKept, AssemblesSoundly, Storing, NoSweepDone, At, ForgetSession, fileVars
<1>8. FilesAreThere'  BY <1>1, <1>2 DEF FilesAreThere, At, ForgetSession, fileVars
<1>9. UploadsAreWhole'
  BY <1>1, <1>2 DEF UploadsAreWhole, ListedIsStored, TheFileIsWhole, ProcessingHasFile,
     AcknowledgedIsListed, Unswept, At, ForgetSession, fileVars
<1>10. QED BY <1>3, <1>4, <1>5, <1>6, <1>7, <1>8, <1>9

\* CleanupChunk: an object goes, but a clean-up has begun.
LEMMA CleanupChunkIsSound ==
    ASSUME UploadInv, NEW r \in Senders, CleanupChunk(r)
    PROVE  UploadInv'
<1> USE DEF UploadInv
<1>1. UploadTypes'  BY UploadAssumption DEF UploadTypes, AtMostOne, SweepRecords, CleanupChunk, fileVars
<1>2. OpeningIsAlone' /\ CleanUpsComeLast'
  BY DEF OpeningIsAlone, Opening, At, CleanUpsComeLast, UploadTypes, SweepRecords, CleanupChunk,
     fileVars
<1>3. PartsAreStored'
  BY DEF PartsAreStored, StoresSoundly, Storing, Unswept, UploadTypes, SweepRecords,
     CleanupChunk, fileVars
<1>4. RowsAreKept'
  BY DEF RowsAreKept, AssemblesSoundly, Storing, NoSweepDone, UploadTypes, SweepRecords,
     CleanupChunk, fileVars
<1>5. FilesAreThere'  BY DEF FilesAreThere, At, CleanupChunk, fileVars
<1>6. UploadsAreWhole'
  BY DEF UploadsAreWhole, ListedIsStored, TheFileIsWhole, ProcessingHasFile,
     AcknowledgedIsListed, Unswept, UploadTypes, SweepRecords, CleanupChunk, fileVars
<1>7. QED BY <1>1, <1>2, <1>3, <1>4, <1>5, <1>6

\* DeleteChunks: the rows go, and a clean-up has ended.
LEMMA DeleteChunksIsSound ==
    ASSUME UploadInv, NEW r \in Senders, DeleteChunks(r)
    PROVE  UploadInv'
<1> USE DEF UploadInv
<1>1. UploadTypes'  BY UploadAssumption DEF UploadTypes, AtMostOne, SweepRecords, DeleteChunks, fileVars
<1>2. OpeningIsAlone' /\ CleanUpsComeLast'
  BY DEF OpeningIsAlone, Opening, At, CleanUpsComeLast, UploadTypes, SweepRecords, DeleteChunks,
     fileVars
<1>3. PartsAreStored'
  BY DEF PartsAreStored, StoresSoundly, Storing, Unswept, UploadTypes, SweepRecords,
     DeleteChunks, fileVars
<1>4. RowsAreKept'
  BY DEF RowsAreKept, AssemblesSoundly, Storing, NoSweepDone, UploadTypes, SweepRecords,
     DeleteChunks, fileVars
<1>5. FilesAreThere'  BY DEF FilesAreThere, At, DeleteChunks, fileVars
<1>6. UploadsAreWhole'
  BY DEF UploadTypes, SweepRecords, DeleteChunks, Unswept, ListedIsStored, AcknowledgedIsListed,
     TheFileIsWhole, UploadsAreWhole, ProcessingHasFile
<1>7. QED BY <1>1, <1>2, <1>3, <1>4, <1>5, <1>6

\* SweepEnds: the clean-up ends where it is.
LEMMA SweepEndsIsSound ==
    ASSUME UploadInv, NEW r \in Senders, SweepEnds(r)
    PROVE  UploadInv'
<1> USE DEF UploadInv
<1>1. UploadTypes'
  <2>1. uploadFaults' \in 0..MaxUploadFaults  BY UploadAssumption DEF UploadTypes, Fault, SweepEnds
  <2>2. sweep' \in [Senders -> SweepRecords]  BY DEF UploadTypes, SweepRecords, SweepEnds
  <2>3. QED BY <2>1, <2>2 DEF UploadTypes, AtMostOne, SweepEnds, fileVars
<1>2. OpeningIsAlone' /\ CleanUpsComeLast'
  BY DEF OpeningIsAlone, Opening, At, CleanUpsComeLast, UploadTypes, SweepRecords, SweepEnds,
     fileVars
<1>3. PartsAreStored'
  BY DEF PartsAreStored, StoresSoundly, Storing, Unswept, UploadTypes, SweepRecords, SweepEnds,
     fileVars
<1>4. RowsAreKept'
  BY DEF RowsAreKept, AssemblesSoundly, Storing, NoSweepDone, UploadTypes, SweepRecords,
     SweepEnds, fileVars
<1>5. FilesAreThere'  BY DEF FilesAreThere, At, SweepEnds, fileVars
<1>6. UploadsAreWhole'
  BY DEF UploadsAreWhole, ListedIsStored, TheFileIsWhole, ProcessingHasFile,
     AcknowledgedIsListed, Unswept, UploadTypes, SweepRecords, SweepEnds, fileVars
<1>7. QED BY <1>1, <1>2, <1>3, <1>4, <1>5, <1>6

\* SessionExpires: nothing is said of a session that is not there.
LEMMA SessionExpiresIsSound == UploadInv /\ SessionExpires => UploadInv'
<1> SUFFICES ASSUME UploadInv, SessionExpires PROVE UploadInv'  OBVIOUS
<1> USE DEF UploadInv, SessionExpires, fileVars
<1>1. UploadTypes'  BY DEF UploadTypes, AtMostOne
<1>2. OpeningIsAlone' /\ CleanUpsComeLast' /\ FilesAreThere'
  BY DEF OpeningIsAlone, Opening, At, CleanUpsComeLast, FilesAreThere
<1>3. PartsAreStored' /\ RowsAreKept'
  BY DEF PartsAreStored, StoresSoundly, RowsAreKept, AssemblesSoundly, Unswept, NoSweepDone
<1>4. UploadsAreWhole'
  BY DEF UploadsAreWhole, ListedIsStored, TheFileIsWhole, ProcessingHasFile,
     AcknowledgedIsListed, Unswept
<1>5. QED BY <1>1, <1>2, <1>3, <1>4

\* A step that changes nothing.
LEMMA UploadStutters == UploadInv /\ UNCHANGED uploadVars => UploadInv'
<1> SUFFICES ASSUME UploadInv, UNCHANGED uploadVars PROVE UploadInv'  OBVIOUS
<1> USE DEF UploadInv, uploadVars, fileVars
<1>1. UploadTypes'  BY DEF UploadTypes, AtMostOne
<1>2. OpeningIsAlone' /\ CleanUpsComeLast' /\ FilesAreThere'
  BY DEF OpeningIsAlone, Opening, At, CleanUpsComeLast, FilesAreThere
<1>3. PartsAreStored' /\ RowsAreKept'
  BY DEF PartsAreStored, StoresSoundly, RowsAreKept, AssemblesSoundly, Unswept, NoSweepDone
<1>4. UploadsAreWhole'
  BY DEF UploadsAreWhole, ListedIsStored, TheFileIsWhole, ProcessingHasFile,
     AcknowledgedIsListed, Unswept
<1>5. QED BY <1>1, <1>2, <1>3, <1>4

\* The invariant is inductive.
LEMMA UploadInductive == UploadInv /\ [UploadNext]_uploadVars => UploadInv'
<1> SUFFICES ASSUME UploadInv, [UploadNext]_uploadVars PROVE UploadInv'  OBVIOUS
<1>1. CASE UNCHANGED uploadVars  BY <1>1, UploadStutters
<1>2. CASE SessionExpires  BY <1>2, SessionExpiresIsSound
<1>3. ASSUME NEW r \in Senders,
             InitiateUpload(r) \/ CreateVideo(r) \/ OpenSession(r) \/ UploadChunk(r)
             \/ PutChunk(r) \/ SaveChunk(r) \/ NoteChunk(r)
      PROVE  UploadInv'
  BY <1>3, InitiateUploadIsSound, CreateVideoIsSound, OpenSessionIsSound, UploadChunkIsSound,
     PutChunkIsSound, SaveChunkIsSound, NoteChunkIsSound
<1>4. ASSUME NEW r \in Senders,
             CompleteUpload(r) \/ GetChunks(r) \/ AppendChunk(r) \/ StoreFile(r)
             \/ StartProcessing(r) \/ ForgetSession(r)
      PROVE  UploadInv'
  BY <1>4, CompleteUploadIsSound, GetChunksIsSound, AppendChunkIsSound, StoreFileIsSound,
     StartProcessingIsSound, ForgetSessionIsSound
<1>5. ASSUME NEW r \in Senders,
             CleanupChunk(r) \/ DeleteChunks(r) \/ UploadAborts(r) \/ SweepEnds(r)
      PROVE  UploadInv'
  BY <1>5, CleanupChunkIsSound, DeleteChunksIsSound, UploadAbortsIsSound, SweepEndsIsSound
<1>6. QED BY <1>1, <1>2, <1>3, <1>4, <1>5 DEF UploadNext

\* Whatever requests overlap, fail or are cut off, the invariant holds (upload_service.go).
LEMMA UploadInvHolds == UploadSpec => []UploadInv
<1>1. UploadInit => UploadInv  BY UploadStarts
<1>2. UploadInv /\ [UploadNext]_uploadVars => UploadInv'  BY UploadInductive
<1>3. QED BY <1>1, <1>2, PTL DEF UploadSpec

--------
\* The results.

\* Every variable of an upload keeps its type: at most one session and one file, parts that
\* exist, and no more failures than the bound.
THEOREM UploadTypesHold == UploadSpec => []UploadTypeOK
<1>1. UploadInv => UploadTypeOK  BY TypesFollow
<1>2. QED BY <1>1, UploadInvHolds, PTL

\* UploadChunk and CompleteUpload: until a clean-up, the parts the session lists are stored
\* and recorded; until a clean-up has ended, the file has every part; a video in processing
\* has a file; and a part that was acknowledged is listed unless two requests crossed.
THEOREM UploadsStayWhole == UploadSpec => []UploadsAreWhole
<1>1. UploadInv => UploadsAreWhole  BY DEF UploadInv
<1>2. QED BY <1>1, UploadInvHolds, PTL

--------
\* Videos.  What a request holds between its reading and its writing.

EditorFits(w) ==
    /\ w.step \in {"fill", "write"} => w.saw \in VideoRows
    /\ w.step = "write" => w.to \in Visibilities
    /\ w.method = "draft" /\ w.step \in {"begin", "write"} => w.to = "private"

EditorsFit ==
    editor \in [Editors -> EditRecords] /\ \A e \in Editors : EditorFits(editor[e])

\* VideoTypeOK but for the requests.
VideoTypes ==
    /\ clip \in VideoRows /\ detail \subseteq VideoRows
    /\ job \in {"sent", "running", "failing", "done"} /\ picked \in BOOLEAN
    /\ deleted \in BOOLEAN /\ wish \in Visibilities /\ meddled \in BOOLEAN /\ behind \in BOOLEAN
    /\ videoFaults \in 0..MaxVideoFaults

\* As long as nobody wrote over what somebody else had read: who made the row public, or will,
\* has the owner's wish; and a draft is private before its status says so.
OwnerIsFollowed ==
    ~meddled =>
        /\ clip.visibility = "public" \/ clip.status = "scheduled" \/ picked => wish = "public"
        /\ \A e \in Editors : Edits(e, "draft") => clip.visibility = "private"

VideoInv ==
    /\ EditorsFit /\ VideoTypes
    /\ DeletedStaysDeleted /\ PlayableIsTranscoded /\ DetailIsTrue /\ OwnerIsFollowed

\* The initial state.
LEMMA VideoStarts == VideoInit => VideoInv
<1> SUFFICES ASSUME VideoInit PROVE VideoInv  OBVIOUS
<1>1. EditorsFit
  BY DEF VideoInit, EditorsFit, EditorFits, EditRecords, EditSteps, EditMethods, NoClip, VideoRows, Visibilities
<1>2. VideoTypes
  <2>1. clip \in VideoRows  BY DEF VideoInit, VideoRows, VideoStatuses, Visibilities, Times
  <2>2. videoFaults \in 0..MaxVideoFaults  BY VideoAssumption DEF VideoInit
  <2>3. QED BY <2>1, <2>2, Zenon DEF VideoInit, VideoTypes, Visibilities
<1>3. DeletedStaysDeleted /\ PlayableIsTranscoded /\ DetailIsTrue /\ OwnerIsFollowed
  BY DEF VideoInit, DeletedStaysDeleted, PlayableIsTranscoded, DetailIsTrue, OwnerIsFollowed, Edits
<1>4. QED BY <1>1, <1>2, <1>3 DEF VideoInv

\* A request that is through with a statement keeps its method only.
LEMMA EditorGoes ==
    ASSUME EditorsFit, NEW e \in Editors, NEW step \in {"draft", "drop", "done"}, Goes(e, step)
    PROVE  /\ EditorsFit' /\ editor'[e].step = step
           /\ \A q \in Editors : q # e => editor'[q] = editor[q]
<1>1. editor[e] \in EditRecords /\ NoClip \in VideoRows \cup {NoClip} /\ step \in EditSteps
  BY DEF EditorsFit, EditSteps
<1>2. /\ editor'[e] = [editor[e] EXCEPT !.step = step, !.saw = NoClip, !.to = "none"]
      /\ \A q \in Editors : q # e => editor'[q] = editor[q]
      /\ DOMAIN editor' = Editors
  BY DEF Goes, EditorsFit
<1>3. editor'[e] \in EditRecords /\ editor'[e].step = step  BY <1>1, <1>2 DEF EditRecords
<1>4. EditorFits(editor'[e])  BY <1>3 DEF EditorFits
<1>5. editor' \in [Editors -> EditRecords]  BY <1>2, <1>3 DEF EditorsFit, Goes
<1>6. EditorsFit'  BY <1>2, <1>4, <1>5 DEF EditorsFit, EditorFits
<1>7. QED BY <1>2, <1>3, <1>6

\* A request that found the video holds what it will store, or the visibility it asks for.
LEMMA OpensSoundly ==
    ASSUME EditorsFit, NEW e \in Editors, NEW method \in EditMethods,
           NEW step \in EditSteps \ {"write", "draft", "drop"},
           NEW saw \in VideoRows \cup {NoClip}, NEW to \in Visibilities \cup {"none"},
           step = "fill" => saw \in VideoRows,
           method = "draft" => to = "private",
           Open(e, method, step, saw, to)
    PROVE  /\ EditorsFit' /\ editor'[e].step = step /\ editor[e].step = "new"
           /\ \A q \in Editors : q # e => editor'[q] = editor[q]
<1>1. /\ editor'[e] = [method |-> method, step |-> step, saw |-> saw, to |-> to]
      /\ \A q \in Editors : q # e => editor'[q] = editor[q]
  BY DEF Open, EditorsFit
<1>2. editor' \in [Editors -> EditRecords]  BY DEF EditRecords, Open, EditorsFit
<1>3. EditorFits(editor'[e])  BY <1>1 DEF EditorFits
<1>4. EditorsFit'  BY <1>1, <1>2, <1>3, Zenon DEF EditorsFit, EditorFits
<1>5. QED BY <1>1, <1>4 DEF Open, Edits

\* A request that opens writes nothing.
LEMMA OpeningHolds ==
    ASSUME VideoInv, NEW e \in Editors, NEW method \in EditMethods,
           NEW step \in EditSteps \ {"write", "draft", "drop"},
           NEW saw \in VideoRows \cup {NoClip}, NEW to \in Visibilities \cup {"none"},
           step = "fill" => saw \in VideoRows,
           method = "draft" => to = "private",
           Open(e, method, step, saw, to)
    PROVE  VideoInv'
<1>1. /\ EditorsFit' /\ editor'[e].step = step /\ editor[e].step = "new"
      /\ \A q \in Editors : q # e => editor'[q] = editor[q]
  BY OpensSoundly DEF VideoInv
<1>2. UNCHANGED <<clip, detail, job, picked, deleted, wish, meddled, behind, videoFaults>>
  BY DEF Open, historyVars
<1>3. VideoTypes' /\ DeletedStaysDeleted' /\ PlayableIsTranscoded'
  BY <1>2 DEF VideoInv, VideoTypes, DeletedStaysDeleted, PlayableIsTranscoded
<1>4. DetailIsTrue'  BY <1>1, <1>2 DEF VideoInv, DetailIsTrue
<1>5. OwnerIsFollowed'  BY <1>1, <1>2 DEF VideoInv, OwnerIsFollowed, Edits
<1>6. QED BY <1>1, <1>3, <1>4, <1>5 DEF VideoInv

\* What a statement that sets the status leaves of the row, and what a publication makes of it.
LEMMA StatusRows ==
    ASSUME clip \in VideoRows, NEW status \in VideoStatuses
    PROVE  /\ WithStatus(status) \in VideoRows
           /\ WithStatus(status).visibility = clip.visibility
           /\ WithStatus(status).playable = clip.playable
           /\ WithStatus(status).status = IF Exists THEN status ELSE clip.status
BY DEF WithStatus, VideoRows

\* A published row is ready and public.
LEMMA PublishedRow ==
    ASSUME clip \in VideoRows, Exists
    PROVE  /\ Published \in VideoRows /\ Published.status = "ready"
           /\ Published.visibility = "public" /\ Published.playable = clip.playable
<1>1. WithStatus("ready") \in VideoRows /\ WithStatus("ready").status = "ready"
      /\ WithStatus("ready").playable = clip.playable
  BY StatusRows DEF VideoStatuses
<1>2. QED BY <1>1 DEF Published, VideoRows, Visibilities, Times

\* A write of the row by the worker or the scheduler.
LEMMA QuietWrites ==
    ASSUME VideoInv, NEW rowNow \in VideoRows, WritesQuietly(rowNow), UNCHANGED <<detail, editor, deleted, wish, videoFaults>>,
           job' \in {"sent", "running", "failing", "done"}, picked' \in BOOLEAN,
           picked' => picked,
           clip.status = "deleted" => rowNow.status = "deleted",
           rowNow.playable => job' = "done",
           rowNow.visibility = "public" => clip.visibility = "public" \/ picked,
           rowNow.status = "scheduled" => clip.status = "scheduled"
    PROVE  VideoInv'
<1> USE DEF VideoInv
<1>1. clip' = rowNow /\ behind' = (behind \/ detail # {})
      /\ (meddled' = (meddled \/ Undecided # {})) /\ UNCHANGED <<detail, editor, deleted, wish, videoFaults>>
  BY DEF WritesQuietly
<1>2. EditorsFit'  BY <1>1, Zenon DEF EditorsFit, EditorFits
<1>3. VideoTypes'  BY <1>1, Zenon DEF VideoTypes
<1>4. DeletedStaysDeleted' /\ PlayableIsTranscoded'  BY <1>1 DEF DeletedStaysDeleted, PlayableIsTranscoded
<1>5. DetailIsTrue'  BY <1>1 DEF DetailIsTrue, VideoTypes
<1>6. OwnerIsFollowed'  BY <1>1 DEF OwnerIsFollowed, VideoTypes, Edits, Undecided
<1>7. QED BY <1>2, <1>3, <1>4, <1>5, <1>6

\* A write of the row by a request, which has the copy, and a draft's status, still to do.
LEMMA RequestWrites ==
    ASSUME VideoInv, NEW e \in Editors, NEW rowNow \in VideoRows, NEW step \in {"draft", "drop"},
           Writes(e, rowNow), Goes(e, step), UNCHANGED <<detail, job, picked, behind>>,
           videoFaults' \in 0..MaxVideoFaults, deleted' \in BOOLEAN, wish' \in Visibilities,
           deleted' => rowNow.status = "deleted",
           rowNow.playable = clip.playable,
           ~meddled' /\ (rowNow.visibility = "public" \/ rowNow.status = "scheduled") => wish' = "public",
           step = "draft" => rowNow.visibility = "private"
    PROVE  VideoInv'
<1> USE DEF VideoInv
<1>1. clip' = rowNow /\ (meddled' = (meddled \/ picked \/ Undecided \ {e} # {}))
      /\ UNCHANGED <<detail, job, picked, behind>>
  BY DEF Writes
<1>2. /\ EditorsFit' /\ editor'[e].step = step
      /\ \A q \in Editors : q # e => editor'[q] = editor[q]
  BY EditorGoes
<1>3. VideoTypes'  BY <1>1, Zenon DEF VideoTypes
<1>4. DeletedStaysDeleted' /\ PlayableIsTranscoded'  BY <1>1 DEF DeletedStaysDeleted, PlayableIsTranscoded
<1>5. DetailIsTrue'  BY <1>2 DEF DetailIsTrue
<1>6. OwnerIsFollowed'
  <2>1. SUFFICES ASSUME ~meddled' PROVE OwnerIsFollowed'  BY DEF OwnerIsFollowed
  <2>2. ~picked /\ \A q \in Editors : q # e => editor[q].step # "draft"
    BY <1>1, <2>1 DEF Undecided, VideoTypes
  <2>3. QED BY <1>1, <1>2, <2>1, <2>2 DEF OwnerIsFollowed, Edits
<1>7. QED BY <1>2, <1>3, <1>4, <1>5, <1>6

\* A request ends, or finds the row gone, and nothing else changes but the copy.
LEMMA RequestStops ==
    ASSUME VideoInv, NEW e \in Editors, Goes(e, "done"),
           UNCHANGED <<clip, job, picked, deleted, wish, meddled>>,
           videoFaults' \in 0..MaxVideoFaults, detail' \subseteq VideoRows, behind' \in BOOLEAN,
           \/ detail' \subseteq {clip} \/ behind'
           \/ detail' = detail /\ behind' = behind /\ editor[e].step \notin {"draft", "drop"}
    PROVE  VideoInv'
<1> USE DEF VideoInv
<1>1. /\ EditorsFit' /\ editor'[e].step = "done"
      /\ \A q \in Editors : q # e => editor'[q] = editor[q]
  BY EditorGoes
<1>2. VideoTypes' /\ DeletedStaysDeleted' /\ PlayableIsTranscoded'
  BY DEF VideoTypes, DeletedStaysDeleted, PlayableIsTranscoded
<1>3. DetailIsTrue'  BY <1>1 DEF DetailIsTrue
<1>4. OwnerIsFollowed'  BY <1>1 DEF OwnerIsFollowed, Edits
<1>5. QED BY <1>1, <1>2, <1>3, <1>4

\* GetVideo and what follows it.
LEMMA GetVideoHolds == ASSUME VideoInv, NEW e \in Editors, GetVideo(e) PROVE VideoInv'
BY OpeningHolds DEF GetVideo, EditMethods, EditSteps, VideoInv, VideoTypes

\* Caching an older row is what behind names.
LEMMA FillDetailHolds == ASSUME VideoInv, NEW e \in Editors, FillDetail(e) PROVE VideoInv'
<1>1. editor[e].saw \in VideoRows  BY DEF FillDetail, Edits, VideoInv, EditorsFit, EditorFits
<1>2. /\ Goes(e, "done") /\ UNCHANGED <<clip, job, picked, deleted, wish, meddled, videoFaults>>
      /\ detail' = {editor[e].saw} /\ (behind' = (editor[e].saw # clip))
  BY DEF FillDetail, historyVars
<1>3. behind' \in BOOLEAN /\ detail' \subseteq VideoRows /\ (detail' \subseteq {clip} \/ behind')
  BY <1>1, <1>2
<1>4. QED BY <1>2, <1>3, RequestStops DEF VideoInv, VideoTypes

\* A copy that expires is no longer old.
LEMMA DetailExpiresHolds == ASSUME VideoInv, DetailExpires PROVE VideoInv'
<1> USE DEF VideoInv
<1>1. detail' = {} /\ behind' = FALSE
      /\ UNCHANGED <<clip, editor, job, picked, deleted, wish, meddled, videoFaults>>
  BY DEF DetailExpires, historyVars
<1>2. EditorsFit' /\ VideoTypes'  BY <1>1 DEF EditorsFit, EditorFits, VideoTypes
<1>3. DeletedStaysDeleted' /\ PlayableIsTranscoded' /\ DetailIsTrue'
  BY <1>1 DEF DeletedStaysDeleted, PlayableIsTranscoded, DetailIsTrue
<1>4. OwnerIsFollowed'  BY <1>1 DEF OwnerIsFollowed, Edits
<1>5. QED BY <1>2, <1>3, <1>4

--------
\* The owner's requests.

\* An update asks for a visibility or leaves it.
LEMMA UpdateVideoHolds == ASSUME VideoInv, NEW e \in Editors, UpdateVideo(e) PROVE VideoInv'
<1>1. PICK v \in Visibilities \cup {"none"} : Open(e, "update", "begin", NoClip, v)  BY DEF UpdateVideo
<1>2. "update" \in EditMethods /\ "begin" \in EditSteps \ {"write", "draft", "drop"}
  BY DEF EditMethods, EditSteps
<1>3. QED BY <1>1, <1>2, OpeningHolds

\* A draft asks for private.
LEMMA SaveDraftHolds == ASSUME VideoInv, NEW e \in Editors, SaveDraft(e) PROVE VideoInv'
<1>1. "draft" \in EditMethods /\ "begin" \in EditSteps \ {"write", "draft", "drop"}
      /\ "private" \in Visibilities
  BY DEF EditMethods, EditSteps, Visibilities
<1>2. QED BY <1>1, OpeningHolds DEF SaveDraft

\* PublishVideo only looks at the status.
LEMMA PublishVideoHolds == ASSUME VideoInv, NEW e \in Editors, PublishVideo(e) PROVE VideoInv'
<1>1. "publish" \in EditMethods /\ "publish" \in EditSteps \ {"write", "draft", "drop"}
  BY DEF EditMethods, EditSteps
<1>2. QED BY <1>1, OpeningHolds DEF PublishVideo

\* ScheduleVideo only looks whether the video is there.
LEMMA ScheduleVideoHolds == ASSUME VideoInv, NEW e \in Editors, ScheduleVideo(e) PROVE VideoInv'
<1>1. "schedule" \in EditMethods /\ "schedule" \in EditSteps \ {"write", "draft", "drop"}
  BY DEF EditMethods, EditSteps
<1>2. QED BY <1>1, OpeningHolds DEF ScheduleVideo

\* DeleteVideo only looks whether the video is there.
LEMMA DeleteVideoHolds == ASSUME VideoInv, NEW e \in Editors, DeleteVideo(e) PROVE VideoInv'
<1>1. "delete" \in EditMethods /\ "delete" \in EditSteps \ {"write", "draft", "drop"}
  BY DEF EditMethods, EditSteps
<1>2. QED BY <1>1, OpeningHolds DEF DeleteVideo

\* The transaction holds the row it will write back, a draft its private wish.
LEMMA ReadAgainHolds == ASSUME VideoInv, NEW e \in Editors, ReadAgain(e) PROVE VideoInv'
<1> USE DEF VideoInv
<1>1. /\ editor[e].step = "begin" /\ editor[e] \in EditRecords /\ EditorFits(editor[e])
      /\ UNCHANGED <<clip, detail, job, picked, deleted, wish, meddled, behind, videoFaults>>
  BY DEF ReadAgain, Edits, historyVars, EditorsFit
<1>2. CASE Goes(e, "done")  BY <1>1, <1>2, RequestStops DEF VideoTypes, DetailIsTrue
<1>3. ASSUME NEW at \in Times,
             editor' = [editor EXCEPT ![e].step = "write", ![e].saw = [clip EXCEPT !.at = at],
                                      ![e].to = IF @ = "none" THEN clip.visibility ELSE @]
      PROVE  VideoInv'
  <2> DEFINE rowNow == [clip EXCEPT !.at = at]
             to == IF editor[e].to = "none" THEN clip.visibility ELSE editor[e].to
  <2>1. rowNow \in VideoRows /\ to \in Visibilities /\ clip \in VideoRows
    BY <1>1 DEF VideoTypes, VideoRows, EditRecords
  <2>2. editor[e].method = "draft" => to = "private"  BY <1>1 DEF EditorFits
  <2>3. /\ editor'[e] = [editor[e] EXCEPT !.step = "write", !.saw = rowNow, !.to = to]
        /\ \A q \in Editors : q # e => editor'[q] = editor[q]
        /\ editor' = [editor EXCEPT ![e] = editor'[e]]
    BY <1>3 DEF EditorsFit
  <2> HIDE DEF rowNow, to
  <2>4. /\ editor'[e].step = "write" /\ editor'[e].saw = rowNow /\ editor'[e].to = to
        /\ editor'[e].method = editor[e].method /\ editor'[e] \in EditRecords
    BY <1>1, <2>1, <2>3 DEF EditRecords, EditSteps
  <2>5. EditorFits(editor'[e])  BY <2>1, <2>2, <2>4 DEF EditorFits
  <2>6. editor' \in [Editors -> EditRecords]  BY <2>3, <2>4 DEF EditorsFit
  <2>7. EditorsFit'  BY <2>3, <2>5, <2>6 DEF EditorsFit, EditorFits
  <2>8. VideoTypes' /\ DeletedStaysDeleted' /\ PlayableIsTranscoded'
    BY <1>1 DEF VideoTypes, DeletedStaysDeleted, PlayableIsTranscoded
  <2>9. DetailIsTrue' /\ OwnerIsFollowed'  BY <1>1, <2>3, <2>4 DEF DetailIsTrue, OwnerIsFollowed, Edits
  <2>10. QED BY <2>7, <2>8, <2>9
<1>4. clip.at \in Times /\ {"future", "past"} \subseteq Times  BY DEF VideoTypes, VideoRows, Times
<1>5. QED BY <1>2, <1>3, <1>4, Zenon DEF ReadAgain

\* Writing back leaves a draft private, and a scheduled video to its schedule.
LEMMA WriteBackHolds == ASSUME VideoInv, NEW e \in Editors, WriteBack(e) PROVE VideoInv'
<1> USE DEF VideoInv
<1> DEFINE rowNow == [clip EXCEPT !.visibility = editor[e].to, !.at = editor[e].saw.at]
           step == IF editor[e].method = "draft" THEN "draft" ELSE "drop"
<1>1. /\ editor[e].step = "write" /\ EditorFits(editor[e])
      /\ Goes(e, step) /\ Writes(e, rowNow)
      /\ UNCHANGED <<detail, job, picked, deleted, behind, videoFaults>>
      /\ (wish' = IF clip.status = "scheduled" THEN wish ELSE editor[e].to)
  BY DEF WriteBack, Edits, EditorsFit
<1>2. editor[e].saw \in VideoRows /\ editor[e].to \in Visibilities /\ clip \in VideoRows
  BY <1>1 DEF EditorFits, VideoTypes
<1>3. /\ rowNow \in VideoRows /\ rowNow.status = clip.status /\ rowNow.playable = clip.playable
      /\ rowNow.visibility = editor[e].to
  BY <1>2 DEF VideoRows
<1>4. step \in {"draft", "drop"} /\ (step = "draft" => rowNow.visibility = "private")
  BY <1>1, <1>3 DEF EditorFits
<1> HIDE DEF rowNow, step
<1>5. wish' \in Visibilities /\ videoFaults' \in 0..MaxVideoFaults /\ deleted' \in BOOLEAN
  BY <1>1, <1>2 DEF VideoTypes
<1>6. deleted' => rowNow.status = "deleted"  BY <1>1, <1>3 DEF DeletedStaysDeleted
<1>7. ~meddled' /\ (rowNow.visibility = "public" \/ rowNow.status = "scheduled") => wish' = "public"
  <2>1. ~meddled' => ~meddled  BY <1>1 DEF Writes, VideoTypes
  <2>2. QED BY <1>1, <1>3, <2>1 DEF OwnerIsFollowed
<1>8. QED BY <1>1, <1>3, <1>4, <1>5, <1>6, <1>7, RequestWrites

\* A draft is private, and remains so if its status fails to be written.
LEMMA MarkDraftHolds == ASSUME VideoInv, NEW e \in Editors, MarkDraft(e) PROVE VideoInv'
<1> USE DEF VideoInv
<1>1. /\ editor[e].step = "draft" /\ Goes(e, "drop") /\ clip \in VideoRows
      /\ UNCHANGED <<detail, job, picked, deleted, behind>>
  BY DEF MarkDraft, Edits, VideoTypes
<1>2. CASE Writes(e, WithStatus("draft")) /\ wish' = "private" /\ Sound
  <2>1. "draft" \in VideoStatuses /\ "draft" # "scheduled" /\ "private" \in Visibilities
    BY DEF VideoStatuses, Visibilities
  <2>2. /\ WithStatus("draft") \in VideoRows /\ WithStatus("draft").visibility = clip.visibility
        /\ WithStatus("draft").playable = clip.playable
        /\ WithStatus("draft").status = IF Exists THEN "draft" ELSE clip.status
    BY <1>1, <2>1, StatusRows
  <2>3. (~meddled' => ~meddled) /\ videoFaults' \in 0..MaxVideoFaults  BY <1>2 DEF Writes, Sound, VideoTypes
  <2>4. deleted' => WithStatus("draft").status = "deleted"  BY <1>1, <2>2 DEF Exists, DeletedStaysDeleted
  <2>5. ~meddled' => WithStatus("draft").visibility = "private" /\ WithStatus("draft").status # "scheduled"
    BY <1>1, <2>2, <2>3 DEF OwnerIsFollowed, Edits, Exists
  <2>6. QED BY <1>1, <1>2, <2>1, <2>2, <2>3, <2>4, <2>5, RequestWrites DEF VideoTypes
<1>3. CASE UNCHANGED <<clip, meddled, wish>> /\ Faulty
  BY <1>1, EditorGoes, <1>3, VideoAssumption DEF Faulty, VideoTypes, DeletedStaysDeleted, PlayableIsTranscoded,
     DetailIsTrue, OwnerIsFollowed, Edits
<1>4. QED BY <1>2, <1>3 DEF MarkDraft

\* Who publishes wants the video public.
LEMMA PublishHolds == ASSUME VideoInv, NEW e \in Editors, Publish(e) PROVE VideoInv'
<1> USE DEF VideoInv
<1>1. /\ editor[e].step = "publish" /\ clip \in VideoRows
      /\ UNCHANGED <<detail, job, picked, behind, videoFaults>>
  BY DEF Publish, Edits, VideoTypes
<1>2. CASE ~Exists  BY <1>2, <1>1, RequestStops DEF Publish, VideoTypes, DetailIsTrue
<1>3. CASE Exists
  <2> DEFINE rowNow == Published
  <2>1. Writes(e, rowNow) /\ Goes(e, "drop") /\ wish' = "public" /\ UNCHANGED deleted  BY <1>3 DEF Publish
  <2>2. rowNow \in VideoRows /\ rowNow.playable = clip.playable /\ rowNow.status = "ready"
    BY <1>1, <1>3, PublishedRow
  <2> HIDE DEF rowNow
  <2>3. (~meddled' => ~meddled) /\ "public" \in Visibilities  BY <2>1 DEF Writes, VideoTypes, Visibilities
  <2>4. QED
    BY <1>1, <1>3, <2>1, <2>2, <2>3, RequestWrites DEF VideoTypes, DeletedStaysDeleted, Exists, OwnerIsFollowed
<1>4. QED BY <1>2, <1>3

\* Who schedules wants the video public.
LEMMA SchedulePublishHolds == ASSUME VideoInv, NEW e \in Editors, SchedulePublish(e) PROVE VideoInv'
<1> USE DEF VideoInv
<1>1. /\ editor[e].step = "schedule" /\ clip \in VideoRows
      /\ UNCHANGED <<detail, job, picked, behind, videoFaults>>
  BY DEF SchedulePublish, Edits, VideoTypes
<1>2. CASE ~Exists  BY <1>2, <1>1, RequestStops DEF SchedulePublish, VideoTypes, DetailIsTrue
<1>3. CASE Exists
  <2> DEFINE rowNow == [WithStatus("scheduled") EXCEPT !.at = "future"]
  <2>1. Writes(e, rowNow) /\ Goes(e, "drop") /\ wish' = "public" /\ UNCHANGED deleted
    BY <1>3 DEF SchedulePublish
  <2>2. rowNow \in VideoRows /\ rowNow.playable = clip.playable
    BY <1>1, StatusRows DEF VideoStatuses, VideoRows, Times
  <2> HIDE DEF rowNow
  <2>3. (~meddled' => ~meddled) /\ "public" \in Visibilities  BY <2>1 DEF Writes, VideoTypes, Visibilities
  <2>4. QED
    BY <1>1, <1>3, <2>1, <2>2, <2>3, RequestWrites DEF VideoTypes, DeletedStaysDeleted, Exists, OwnerIsFollowed
<1>4. QED BY <1>2, <1>3

\* A deletion leaves the visibility, and the status deleted.
LEMMA MarkDeletedHolds == ASSUME VideoInv, NEW e \in Editors, MarkDeleted(e) PROVE VideoInv'
<1> USE DEF VideoInv
<1>1. /\ editor[e].step = "delete" /\ clip \in VideoRows
      /\ UNCHANGED <<detail, job, picked, behind, videoFaults>>
  BY DEF MarkDeleted, Edits, VideoTypes
<1>2. CASE ~Exists  BY <1>2, <1>1, RequestStops DEF MarkDeleted, VideoTypes, DetailIsTrue
<1>3. CASE Exists
  <2> DEFINE rowNow == WithStatus("deleted")
  <2>1. Writes(e, rowNow) /\ Goes(e, "drop") /\ deleted' = TRUE /\ UNCHANGED wish  BY <1>3 DEF MarkDeleted
  <2>2. rowNow \in VideoRows /\ rowNow.playable = clip.playable /\ rowNow.status = "deleted"
        /\ rowNow.visibility = clip.visibility  BY <1>1, <1>3, StatusRows DEF VideoStatuses
  <2> HIDE DEF rowNow
  <2>3. (~meddled' => ~meddled) /\ "public" \in Visibilities  BY <2>1 DEF Writes, VideoTypes, Visibilities
  <2>4. QED
    BY <1>1, <1>3, <2>1, <2>2, <2>3, RequestWrites DEF VideoTypes, DeletedStaysDeleted, Exists, OwnerIsFollowed
<1>4. QED BY <1>2, <1>3

\* Without a copy, or with one that behind names.
LEMMA DropDetailHolds == ASSUME VideoInv, NEW e \in Editors, DropDetail(e) PROVE VideoInv'
<1> USE DEF VideoInv
<1>1. Goes(e, "done") /\ UNCHANGED <<clip, job, picked, deleted, wish, meddled>>
  BY DEF DropDetail, historyVars
<1>2. /\ videoFaults' \in 0..MaxVideoFaults /\ detail' \subseteq VideoRows /\ behind' \in BOOLEAN
      /\ detail' \subseteq {clip} \/ behind'
  <2>1. CASE detail' = {} /\ behind' = FALSE /\ Sound  BY <2>1 DEF Sound, VideoTypes
  <2>2. CASE UNCHANGED detail /\ behind' = TRUE /\ Faulty  BY <2>2, VideoAssumption DEF Faulty, VideoTypes
  <2>3. QED BY <2>1, <2>2 DEF DropDetail
<1>3. QED BY <1>1, <1>2, RequestStops

\* A request that ends before it dropped the copy leaves it behind.
LEMMA RequestEndsHolds == ASSUME VideoInv, NEW e \in Editors, RequestEnds(e) PROVE VideoInv'
<1> USE DEF VideoInv
<1>1. /\ Goes(e, "done") /\ UNCHANGED <<clip, detail, job, picked, deleted, wish, meddled>>
      /\ (behind' = (behind \/ editor[e].step \in {"draft", "drop"}))
  BY DEF RequestEnds, historyVars
<1>2. videoFaults' \in 0..MaxVideoFaults  BY VideoAssumption DEF RequestEnds, Faulty, VideoTypes
<1>3. behind' \in BOOLEAN /\ detail' \subseteq VideoRows
      /\ (behind' \/ (behind' = behind /\ editor[e].step \notin {"draft", "drop"}))
  BY <1>1 DEF VideoTypes
<1>4. QED BY <1>1, <1>2, <1>3, RequestStops

--------
\* The worker, the scheduler and the time.

\* The event is taken while the video is not playable.
LEMMA ProcessVideoHolds == ASSUME VideoInv, ProcessVideo PROVE VideoInv'
<1> USE DEF VideoInv
<1>1. job = "sent" /\ job' = "running"
      /\ UNCHANGED <<clip, detail, editor, deleted, wish, meddled, behind, picked, videoFaults>>
  BY DEF ProcessVideo, historyVars
<1>2. videoFaults' \in 0..MaxVideoFaults  BY VideoAssumption DEF ProcessVideo, Faulty, VideoTypes
<1>3. EditorsFit'  BY <1>1, Zenon DEF EditorsFit, EditorFits
<1>4. VideoTypes'  BY <1>1, <1>2 DEF VideoTypes
<1>5. DeletedStaysDeleted' /\ PlayableIsTranscoded' /\ DetailIsTrue' /\ OwnerIsFollowed'
  BY <1>1 DEF DeletedStaysDeleted, PlayableIsTranscoded, DetailIsTrue, OwnerIsFollowed, Edits, Due
<1>6. QED BY <1>3, <1>4, <1>5

\* A job that fails has made nothing playable.
LEMMA ProcessingFailsHolds == ASSUME VideoInv, ProcessingFails PROVE VideoInv'
<1> USE DEF VideoInv
<1>1. job = "running" /\ job' = "failing"
      /\ UNCHANGED <<clip, detail, editor, deleted, wish, meddled, behind, picked>>
  BY DEF ProcessingFails, historyVars
<1>2. videoFaults' \in 0..MaxVideoFaults  BY VideoAssumption DEF ProcessingFails, Faulty, VideoTypes
<1>3. EditorsFit'  BY <1>1, Zenon DEF EditorsFit, EditorFits
<1>4. VideoTypes'  BY <1>1, <1>2 DEF VideoTypes
<1>5. DeletedStaysDeleted' /\ PlayableIsTranscoded' /\ DetailIsTrue' /\ OwnerIsFollowed'
  BY <1>1 DEF DeletedStaysDeleted, PlayableIsTranscoded, DetailIsTrue, OwnerIsFollowed, Edits, Due
<1>6. QED BY <1>3, <1>4, <1>5

\* A job that is lost was the only one.
LEMMA JobIsLostHolds == ASSUME VideoInv, JobIsLost PROVE VideoInv'
<1> USE DEF VideoInv
<1>1. job' = "done"
      /\ UNCHANGED <<clip, detail, editor, deleted, wish, meddled, behind, picked>>
  BY DEF JobIsLost, historyVars
<1>2. videoFaults' \in 0..MaxVideoFaults  BY VideoAssumption DEF JobIsLost, Faulty, VideoTypes
<1>3. EditorsFit'  BY <1>1, Zenon DEF EditorsFit, EditorFits
<1>4. VideoTypes'  BY <1>1, <1>2 DEF VideoTypes
<1>5. DeletedStaysDeleted' /\ PlayableIsTranscoded' /\ DetailIsTrue' /\ OwnerIsFollowed'
  BY <1>1 DEF DeletedStaysDeleted, PlayableIsTranscoded, DetailIsTrue, OwnerIsFollowed, Edits, Due
<1>6. QED BY <1>3, <1>4, <1>5

\* What is due was scheduled, so its owner wants it public.
LEMMA ListDueHolds == ASSUME VideoInv, ListDue PROVE VideoInv'
<1> USE DEF VideoInv
<1>1. picked' = TRUE /\ Due(clip)
      /\ UNCHANGED <<clip, detail, editor, deleted, wish, meddled, behind, job, videoFaults>>
  BY DEF ListDue, historyVars
<1>2. videoFaults' \in 0..MaxVideoFaults  BY VideoAssumption DEF ListDue, Faulty, VideoTypes
<1>3. EditorsFit'  BY <1>1, Zenon DEF EditorsFit, EditorFits
<1>4. VideoTypes'  BY <1>1, <1>2 DEF VideoTypes
<1>5. DeletedStaysDeleted' /\ PlayableIsTranscoded' /\ DetailIsTrue' /\ OwnerIsFollowed'
  BY <1>1 DEF DeletedStaysDeleted, PlayableIsTranscoded, DetailIsTrue, OwnerIsFollowed, Edits, Due
<1>6. QED BY <1>3, <1>4, <1>5

\* A cycle that ends has written nothing.
LEMMA CycleEndsHolds == ASSUME VideoInv, CycleEnds PROVE VideoInv'
<1> USE DEF VideoInv
<1>1. picked' = FALSE
      /\ UNCHANGED <<clip, detail, editor, deleted, wish, meddled, behind, job>>
  BY DEF CycleEnds, historyVars
<1>2. videoFaults' \in 0..MaxVideoFaults  BY VideoAssumption DEF CycleEnds, Faulty, VideoTypes
<1>3. EditorsFit'  BY <1>1, Zenon DEF EditorsFit, EditorFits
<1>4. VideoTypes'  BY <1>1, <1>2 DEF VideoTypes
<1>5. DeletedStaysDeleted' /\ PlayableIsTranscoded' /\ DetailIsTrue' /\ OwnerIsFollowed'
  BY <1>1 DEF DeletedStaysDeleted, PlayableIsTranscoded, DetailIsTrue, OwnerIsFollowed, Edits, Due
<1>6. QED BY <1>3, <1>4, <1>5

\* The worker leaves the visibility, and its job is done.
LEMMA UpdateHLSHolds == ASSUME VideoInv, UpdateHLS PROVE VideoInv'
<1> USE DEF VideoInv
<1>1. /\ job = "running" /\ clip \in VideoRows
      /\ UNCHANGED <<detail, editor, picked, deleted, wish, videoFaults>>
  BY DEF UpdateHLS, VideoTypes
<1>2. CASE Exists
  <2> DEFINE rowNow == [WithStatus("ready") EXCEPT !.playable = TRUE]
  <2>1. WritesQuietly(rowNow) /\ job' = "done"  BY <1>2 DEF UpdateHLS
  <2>2. rowNow \in VideoRows /\ rowNow.visibility = clip.visibility /\ rowNow.status = "ready"
    BY <1>1, <1>2, StatusRows DEF VideoStatuses, VideoRows
  <2> HIDE DEF rowNow
  <2>3. QED BY <1>1, <1>2, <2>1, <2>2, QuietWrites DEF VideoTypes, Exists
<1>3. CASE ~Exists
  BY <1>1, <1>3 DEF UpdateHLS, PlayableIsTranscoded, EditorsFit, EditorFits, VideoTypes, DeletedStaysDeleted,
     DetailIsTrue, OwnerIsFollowed, Edits
<1>4. QED BY <1>2, <1>3

\* A failure leaves the visibility.
LEMMA MarkFailedHolds == ASSUME VideoInv, MarkFailed PROVE VideoInv'
<1> USE DEF VideoInv
<1>1. /\ job = "failing" /\ job' = "done" /\ clip \in VideoRows /\ ~clip.playable
      /\ UNCHANGED <<detail, editor, picked, deleted, wish, videoFaults>>
  BY DEF MarkFailed, VideoTypes, PlayableIsTranscoded
<1>2. CASE Exists
  <2> DEFINE rowNow == WithStatus("failed")
  <2>1. WritesQuietly(rowNow)  BY <1>2 DEF MarkFailed
  <2>2. rowNow \in VideoRows /\ rowNow.visibility = clip.visibility /\ rowNow.status = "failed"
    BY <1>1, <1>2, StatusRows DEF VideoStatuses
  <2> HIDE DEF rowNow
  <2>3. QED BY <1>1, <1>2, <2>1, <2>2, QuietWrites DEF VideoTypes, Exists
<1>3. CASE ~Exists
  BY <1>3, <1>1 DEF MarkFailed, EditorsFit, EditorFits, VideoTypes, DeletedStaysDeleted, PlayableIsTranscoded,
     DetailIsTrue, OwnerIsFollowed, Edits
<1>4. QED BY <1>2, <1>3

\* The scheduler publishes what its owner wanted public when it was listed, unless the row changed.
LEMMA PublishOneHolds == ASSUME VideoInv, PublishOne PROVE VideoInv'
<1> USE DEF VideoInv
<1>1. /\ picked /\ picked' = FALSE /\ clip \in VideoRows
      /\ UNCHANGED <<detail, editor, job, deleted, wish, videoFaults>>
  BY DEF PublishOne, VideoTypes
<1>2. CASE Exists
  BY <1>2, <1>1, PublishedRow, QuietWrites DEF PublishOne, VideoTypes, Exists, PlayableIsTranscoded
<1>3. CASE ~Exists
  <2>1. UNCHANGED <<clip, meddled, behind>>  BY <1>3 DEF PublishOne
  <2>2. EditorsFit'  BY <1>1, Zenon DEF EditorsFit, EditorFits
  <2>3. VideoTypes'  BY <1>1, <2>1 DEF VideoTypes
  <2>4. DeletedStaysDeleted' /\ PlayableIsTranscoded' /\ DetailIsTrue' /\ OwnerIsFollowed'
    BY <1>1, <2>1 DEF DeletedStaysDeleted, PlayableIsTranscoded, DetailIsTrue, OwnerIsFollowed, Edits
  <2>5. QED BY <2>2, <2>3, <2>4
<1>4. QED BY <1>2, <1>3

\* A date that comes is come in every copy of the row.
LEMMA TimePassesHolds == ASSUME VideoInv, TimePasses PROVE VideoInv'
<1> USE DEF VideoInv
<1>1. /\ clip.at = "future" /\ clip' = [clip EXCEPT !.at = "past"]
      /\ detail' = {[d EXCEPT !.at = "past"] : d \in detail}
      /\ editor' = [e \in Editors |-> [editor[e] EXCEPT !.saw.at = IF @ = "future" THEN "past" ELSE @]]
      /\ UNCHANGED <<job, picked, deleted, wish, meddled, behind, videoFaults>>
  BY DEF TimePasses, historyVars
<1>2. /\ clip' \in VideoRows /\ clip'.status = clip.status /\ clip'.visibility = clip.visibility
      /\ clip'.playable = clip.playable
  <2>1. clip \in VideoRows  BY DEF VideoTypes
  <2>2. QED BY <1>1, <2>1 DEF VideoRows, Times
<1>3. detail' \subseteq VideoRows /\ (detail \subseteq {clip} => detail' \subseteq {clip'})
  <2>1. ASSUME NEW d \in detail PROVE [d EXCEPT !.at = "past"] \in VideoRows
    <3>1. d \in VideoRows  BY DEF VideoTypes
    <3>2. QED BY <3>1 DEF VideoRows, Times
  <2>2. QED BY <1>1, <2>1
<1>4. ASSUME NEW e \in Editors
      PROVE  /\ editor'[e] \in EditRecords /\ EditorFits(editor'[e])
             /\ editor'[e].step = editor[e].step
  <2> DEFINE w == editor[e]
             saw == [w.saw EXCEPT !.at = IF @ = "future" THEN "past" ELSE @]
  <2>1. w \in EditRecords /\ EditorFits(w) /\ w.saw \in VideoRows \cup {NoClip}
    BY DEF EditorsFit, EditRecords
  <2>2. saw \in VideoRows \cup {NoClip} /\ (w.saw \in VideoRows => saw \in VideoRows)
    <3>1. CASE w.saw \in VideoRows  BY <3>1 DEF VideoRows, Times
    <3>2. CASE w.saw = NoClip  BY <3>2 DEF NoClip
    <3>3. QED BY <2>1, <3>1, <3>2
  <2>3. editor'[e] = [w EXCEPT !.saw = saw]  BY <1>1, <2>1 DEF EditRecords
  <2> HIDE DEF w, saw
  <2>4. /\ editor'[e] \in EditRecords /\ editor'[e].step = w.step /\ editor'[e].saw = saw
        /\ editor'[e].to = w.to /\ editor'[e].method = w.method
    BY <2>1, <2>2, <2>3 DEF EditRecords
  <2>5. EditorFits(editor'[e])  BY <2>1, <2>2, <2>4 DEF EditorFits
  <2>6. QED BY <2>4, <2>5 DEF w
<1>5. EditorsFit'  BY <1>1, <1>4 DEF EditorsFit, EditorFits
<1>6. VideoTypes'  BY <1>1, <1>2, <1>3, Zenon DEF VideoTypes
<1>7. DeletedStaysDeleted' /\ PlayableIsTranscoded'
  BY <1>1, <1>2 DEF DeletedStaysDeleted, PlayableIsTranscoded
<1>8. DetailIsTrue'  BY <1>1, <1>3, <1>4 DEF DetailIsTrue
<1>9. OwnerIsFollowed'  BY <1>1, <1>2, <1>4 DEF OwnerIsFollowed, Edits
<1>10. QED BY <1>5, <1>6, <1>7, <1>8, <1>9

\* The invariant is inductive.
LEMMA VideoInductive == VideoInv /\ [VideoNext]_videoVars => VideoInv'
<1> SUFFICES ASSUME VideoInv, [VideoNext]_videoVars PROVE VideoInv'  OBVIOUS
<1>1. CASE UNCHANGED videoVars
  BY <1>1 DEF videoVars, historyVars, VideoInv, VideoTypes, EditorsFit, EditorFits, DeletedStaysDeleted,
     PlayableIsTranscoded, DetailIsTrue, OwnerIsFollowed, Edits
<1>2. ASSUME NEW e \in Editors,
             GetVideo(e) \/ FillDetail(e) \/ UpdateVideo(e) \/ SaveDraft(e) \/ ReadAgain(e)
             \/ WriteBack(e) \/ MarkDraft(e) \/ PublishVideo(e)
      PROVE  VideoInv'
  BY <1>2, GetVideoHolds, FillDetailHolds, UpdateVideoHolds, SaveDraftHolds, ReadAgainHolds,
     WriteBackHolds, MarkDraftHolds, PublishVideoHolds
<1>3. ASSUME NEW e \in Editors,
             Publish(e) \/ ScheduleVideo(e) \/ SchedulePublish(e) \/ DeleteVideo(e)
             \/ MarkDeleted(e) \/ DropDetail(e) \/ RequestEnds(e)
      PROVE  VideoInv'
  BY <1>3, PublishHolds, ScheduleVideoHolds, SchedulePublishHolds, DeleteVideoHolds, MarkDeletedHolds,
     DropDetailHolds, RequestEndsHolds
<1>4. CASE DetailExpires \/ TimePasses  BY <1>4, DetailExpiresHolds, TimePassesHolds
<1>5. CASE ProcessVideo \/ UpdateHLS \/ ProcessingFails \/ MarkFailed \/ JobIsLost
  BY <1>5, ProcessVideoHolds, UpdateHLSHolds, ProcessingFailsHolds, MarkFailedHolds, JobIsLostHolds
<1>6. CASE ListDue \/ PublishOne \/ CycleEnds  BY <1>6, ListDueHolds, PublishOneHolds, CycleEndsHolds
<1>7. QED BY <1>1, <1>2, <1>3, <1>4, <1>5, <1>6 DEF VideoNext

\* Whatever the owner, the worker and the scheduler do to the row, the invariant holds.
LEMMA VideoInvHolds == VideoSpec => []VideoInv
<1>1. VideoInit => VideoInv  BY VideoStarts
<1>2. VideoInv /\ [VideoNext]_videoVars => VideoInv'  BY VideoInductive
<1>3. QED BY <1>1, <1>2, PTL DEF VideoSpec

--------
\* The results.

\* Every variable of a video's life keeps its type.
THEOREM VideoTypesHold == VideoSpec => []VideoTypeOK
<1>1. VideoInv => VideoTypeOK  BY DEF VideoInv, VideoTypes, EditorsFit, VideoTypeOK
<1>2. QED BY <1>1, VideoInvHolds, PTL

\* video_service.go and workers/: a deleted video stays deleted; others see a video only while its
\* owner wants it public, unless the row changed between somebody's reading and writing; a playable
\* video was transcoded; and what is cached is the row but in the ways that behind names.
THEOREM VideosAlwaysFollow == VideoSpec => []VideosFollowTheirOwner
<1>1. VideoInv => VideosFollowTheirOwner
  BY DEF VideoInv, VideoTypes, VideosFollowTheirOwner, OwnerIsFollowed, OnlyTheReleasedAreShown, Shown
<1>2. QED BY <1>1, VideoInvHolds, PTL

--------
\* What Payments and AuthSessions keep, whatever calls fail and whichever
\* requests overlap, for any number of requests, keys, cards and calls.
\*
\* Payments: a row or an answer that says "succeeded" needs what Stripe
\* replays to the key, and "one receipt" needs to know which requests of a
\* key may still write one.  AuthSessions: a session or code is used up by
\* one call, because a call that is about to open a session has revoked or
\* spent what it read, and calls that met at it are marked.
--------
\* Payments: tables and answers follow Stripe's.

Active(a) == attempt[a].step # "done"
Charging == {"lookup", "charge", "payout", "record_failed", "record"}
Asked(a) == Subject(a) \in PayKeys

\* What a request is about suits what it does.
SubjectsFit ==
    \A a \in Attempts :
        /\ attempt[a].step = "idle" => Subject(a) = "none" /\ attempt[a].answer = "none"
        /\ attempt[a].step \in Charging => Asked(a)
        /\ attempt[a].step = "customer" => Subject(a) \in PayKeys \cup Cards
        /\ attempt[a].step \in {"attach", "insert", "default"} => Subject(a) \in Cards
        /\ attempt[a].step \in {"detach", "delete"} => Subject(a) \in Attempts
        /\ row[a] # NoRow => attempt[a].step = "done" /\ Asked(a)

\* A withdrawal's key is paid out, another's charged.
KindsFit ==
    \A a \in Attempts : Asked(a) =>
        /\ attempt[a].step \in {"lookup", "customer", "charge", "record_failed"} => KindOf[Subject(a)] # "withdrawal"
        /\ attempt[a].step = "payout" => KindOf[Subject(a)] = "withdrawal"
        /\ attempt[a].step = "record" =>
              attempt[a].answer \in IF KindOf[Subject(a)] = "withdrawal" THEN {"in_transit"}
                                    ELSE {"succeeded", "processing"}
        /\ KindOf[Subject(a)] = "withdrawal" => row[a].status # "succeeded"

\* Stripe replays what became of the intent at first.
StripeRemembers ==
    \A k \in PayKeys : /\ replay[k] = "none" => intent[k] = "none"
                       /\ replay[k] = "succeeded" => intent[k] = "succeeded"

\* As long as no call failed, rows and answers of a key are what Stripe replays to it.
RowsFollowStripe ==
    payFaults = 0 =>
        \A a \in Attempts : Asked(a) /\ KindOf[Subject(a)] # "withdrawal" =>
            /\ row[a].status = "succeeded" => replay[Subject(a)] = "succeeded"
            /\ row[a] # NoRow /\ row[a].status # "succeeded" => replay[Subject(a)] \in {"declined", "processing"}
            /\ attempt[a].step = "record" => replay[Subject(a)] = attempt[a].answer
            /\ attempt[a].step = "record_failed" => replay[Subject(a)] = "declined"

\* Requests of a key that did not meet follow one another ...
OneAtATime ==
    \A a, b \in Attempts :
        Asked(a) /\ Subject(a) \notin raced /\ Subject(b) = Subject(a) /\ Active(a) /\ Active(b) => a = b

\* ... and who found no succeeded payment of it is the one to book it.
NoneIsBooked ==
    payFaults = 0 =>
        \A a, b \in Attempts :
            /\ Asked(a) /\ Subject(a) \notin raced /\ Subject(b) = Subject(a)
            /\ attempt[a].step \in {"customer", "charge", "record_failed", "record"}
            => row[b].status # "succeeded"

\* At most one payment of a key is booked as succeeded.
OneIsBooked ==
    payFaults = 0 =>
        \A a, b \in Attempts :
            /\ Asked(a) /\ Subject(a) \notin raced /\ Subject(b) = Subject(a)
            /\ row[a].status = "succeeded" /\ row[b].status = "succeeded"
            => a = b

\* Rows of cards are of requests that have inserted them, one each; of the default ones whose
\* request is through there is one.
CardsFit ==
    /\ \A m \in methods : attempt[m.id].step \in {"default", "done"}
    /\ \A m, n \in methods : m.id = n.id => m = n
    /\ payFaults = 0 =>
          \A m, n \in methods : m.isDefault /\ n.isDefault /\ attempt[m.id].step # "default"
                                /\ attempt[n.id].step # "default" => m = n

PayInv ==
    /\ PayTypeOK
    /\ SubjectsFit /\ KindsFit
    /\ StripeRemembers /\ SuccessIsCharged
    /\ RowsFollowStripe
    /\ OneAtATime /\ NoneIsBooked /\ OneIsBooked
    /\ CardsFit

\* The invariant says what is promised.
LEMMA PaymentsFollow == PayInv => PaymentsAreTrue
<1> SUFFICES ASSUME PayInv PROVE PaymentsAreTrue  OBVIOUS
<1>1. SuccessIsCharged  BY DEF PayInv
<1>2. OneReceiptPerCharge
  <2> SUFFICES ASSUME payFaults = 0, NEW k \in PayKeys \ raced
               PROVE  Cardinality({a \in RowsOf(k) : row[a].status = "succeeded"}) <= 1
    BY DEF OneReceiptPerCharge
  <2> DEFINE S == {a \in RowsOf(k) : row[a].status = "succeeded"}
  <2>1. \A a, b \in S : a = b  BY DEF PayInv, OneIsBooked, RowsOf, Asked
  <2>2. CASE S = {}  BY <2>2, FS_EmptySet
  <2>3. CASE S # {}  BY <2>3, <2>1, FS_Singleton
  <2>4. QED BY <2>2, <2>3
<1>3. OneDefaultCard  BY DEF OneDefaultCard, PayInv, PayTypeOK, MethodRows, CardsFit
<1>4. QED BY <1>1, <1>2, <1>3 DEF PaymentsAreTrue

--------
\* Steps.

OthersWait(a) == \A b \in Attempts \ {a} : attempt'[b] = attempt[b]

\* A request goes on.
LEMMA PayGoesOn ==
    ASSUME PayTypeOK, NEW a \in Attempts, NEW step \in PaySteps, PayGoes(a, step)
    PROVE  /\ attempt' \in [Attempts -> AttemptRecords] /\ OthersWait(a)
           /\ attempt'[a].step = step /\ attempt'[a].subject = attempt[a].subject
           /\ attempt'[a].answer = attempt[a].answer /\ attempt'[a].asDefault = attempt[a].asDefault
BY DEF PayTypeOK, AttemptRecords, PayGoes, OthersWait

\* A request ends.
LEMMA PayEndsThen ==
    ASSUME PayTypeOK, NEW a \in Attempts, NEW answer \in {"none", "error", "succeeded"}, PayEnds(a, answer)
    PROVE  /\ attempt' \in [Attempts -> AttemptRecords] /\ OthersWait(a)
           /\ attempt'[a].step = "done" /\ attempt'[a].subject = attempt[a].subject
           /\ attempt'[a].answer = answer /\ attempt'[a].asDefault = attempt[a].asDefault
<1>1. attempt[a] \in AttemptRecords  BY DEF PayTypeOK
<1>2. "done" \in PaySteps  BY DEF PaySteps
<1>3. QED BY <1>1, <1>2 DEF PayTypeOK, AttemptRecords, PayEnds, OthersWait

\* A request has an answer to record.
LEMMA PayRecords ==
    ASSUME PayTypeOK, NEW a \in Attempts, NEW answer \in {"succeeded", "processing", "declined", "in_transit"},
           answer # "declined", attempt' = [attempt EXCEPT ![a].step = "record", ![a].answer = answer]
    PROVE  /\ attempt' \in [Attempts -> AttemptRecords] /\ OthersWait(a)
           /\ attempt'[a].step = "record" /\ attempt'[a].subject = attempt[a].subject
           /\ attempt'[a].answer = answer
<1>1. attempt[a] \in AttemptRecords  BY DEF PayTypeOK
<1>2. "record" \in PaySteps  BY DEF PaySteps
<1>3. QED BY <1>1, <1>2 DEF PayTypeOK, AttemptRecords, OthersWait

\* A request begins.
LEMMA PayBegins ==
    ASSUME PayTypeOK, NEW a \in Attempts, NEW step \in PaySteps, NEW x \in Subjects,
           attempt' = [attempt EXCEPT ![a].subject = x, ![a].step = step]
    PROVE  /\ attempt' \in [Attempts -> AttemptRecords] /\ OthersWait(a)
           /\ attempt'[a].step = step /\ attempt'[a].subject = x
           /\ attempt'[a].answer = attempt[a].answer
<1>1. attempt[a] \in AttemptRecords  BY DEF PayTypeOK
<1>2. QED BY <1>1 DEF PayTypeOK, AttemptRecords, OthersWait

\* A request begins that may ask for a default.
LEMMA PayBeginsCard ==
    ASSUME PayTypeOK, NEW a \in Attempts, NEW step \in PaySteps, NEW x \in Subjects, NEW d \in BOOLEAN,
           attempt' = [attempt EXCEPT ![a].subject = x, ![a].step = step, ![a].asDefault = d]
    PROVE  /\ attempt' \in [Attempts -> AttemptRecords] /\ OthersWait(a)
           /\ attempt'[a].step = step /\ attempt'[a].subject = x
           /\ attempt'[a].answer = attempt[a].answer
<1>1. attempt[a] \in AttemptRecords  BY DEF PayTypeOK
<1>2. QED BY <1>1 DEF PayTypeOK, AttemptRecords, OthersWait

\* A step of a request that has no row of a card keeps the rows of cards in order.
LEMMA CardsKeep ==
    ASSUME PayTypeOK, CardsFit, NEW a \in Attempts, OthersWait(a), attempt[a].step \notin {"default", "done"},
           methods' = methods, payFaults' = 0 => payFaults = 0
    PROVE  CardsFit'
<1>1. \A m \in methods : m.id \in Attempts /\ m.id # a /\ attempt'[m.id] = attempt[m.id]
  BY DEF PayTypeOK, MethodRows, CardsFit, OthersWait
<1>2. \A m \in methods' : attempt'[m.id].step \in {"default", "done"}  BY <1>1 DEF CardsFit
<1>3. \A m, n \in methods' : m.id = n.id => m = n  BY DEF CardsFit
<1>4. ASSUME payFaults' = 0, NEW m \in methods', NEW n \in methods', m.isDefault, n.isDefault,
             attempt'[m.id].step # "default", attempt'[n.id].step # "default"
      PROVE  m = n
  BY <1>1, <1>4 DEF CardsFit
<1>5. QED BY <1>2, <1>3, <1>4 DEF CardsFit

\* A step of a request about a card leaves what is true of the keys.
LEMMA ChargesKeep ==
    ASSUME PayInv, NEW a \in Attempts, OthersWait(a), attempt[a].subject \notin PayKeys,
           attempt'[a].subject \notin PayKeys, intent' = intent, replay' = replay, row' = row,
           raced' = raced, payFaults' = 0 => payFaults = 0
    PROVE  /\ KindsFit' /\ StripeRemembers' /\ SuccessIsCharged' /\ RowsFollowStripe'
           /\ OneAtATime' /\ NoneIsBooked' /\ OneIsBooked'
<1> USE DEF PayInv, OthersWait, Asked, Subject
<1>1. \A b \in Attempts : attempt'[b].subject \in PayKeys => b # a /\ attempt'[b] = attempt[b]  OBVIOUS
<1>2. KindsFit'  BY <1>1 DEF KindsFit
<1>3. StripeRemembers'  BY DEF StripeRemembers
<1>4. SuccessIsCharged'  BY <1>1 DEF SuccessIsCharged
<1>5. RowsFollowStripe'  BY <1>1 DEF RowsFollowStripe
<1>6. OneAtATime'  BY <1>1 DEF OneAtATime, Active
<1>7. NoneIsBooked'  BY <1>1 DEF NoneIsBooked
<1>8. OneIsBooked'  BY <1>1 DEF OneIsBooked
<1>9. QED BY <1>2, <1>3, <1>4, <1>5, <1>6, <1>7, <1>8

\* BeginCharge: of a key another request is at work on, it is said that they met.
LEMMA BeginChargeIsTrue == ASSUME PayInv, NEW a \in Attempts, NEW k \in PayKeys, BeginCharge(a, k) PROVE PayInv'
<1> USE DEF PayInv, OthersWait, Asked, Subject
<1>1. /\ attempt' \in [Attempts -> AttemptRecords] /\ OthersWait(a)
      /\ attempt[a].step = "idle" /\ attempt'[a].subject = k /\ attempt'[a].answer = attempt[a].answer
      /\ attempt'[a].step = IF KindOf[k] = "withdrawal" THEN "payout" ELSE "lookup"
  BY PayBegins DEF PaySteps, Subjects, BeginCharge
<1>2. customer' = customer /\ intent' = intent /\ replay' = replay /\ row' = row /\ events'
      = events /\ seen' = seen /\ refused' = refused /\ methods' = methods /\ attached' =
      attached /\ attachKeys' = attachKeys /\ payFaults' = payFaults
  BY DEF BeginCharge, chargeVars, webhookVars, cardVars, NoPayFault
<1>3. raced \subseteq raced' /\ raced' \subseteq PayKeys
      /\ \A b \in Attempts : Subject(b) = k /\ Active(b) => k \in raced'
  BY DEF BeginCharge, PayTypeOK, Active
<1>4. PayTypeOK'  BY <1>1, <1>2, <1>3, PaymentAssumption DEF PayTypeOK
<1>5. SubjectsFit'
  BY <1>1, <1>2, <1>3, PaymentAssumption DEF SubjectsFit, PayTypeOK, NoRow, MethodRows,
     Charging
<1>6. KindsFit'
  BY <1>1, <1>2, <1>3, PaymentAssumption DEF KindsFit, SubjectsFit, PayTypeOK, NoRow,
     MethodRows, Charging
<1>7. StripeRemembers'
  BY <1>1, <1>2, <1>3, PaymentAssumption DEF StripeRemembers, PayTypeOK, NoRow, MethodRows,
     Charging
<1>8. SuccessIsCharged'
  BY <1>1, <1>2, <1>3, PaymentAssumption DEF SuccessIsCharged, StripeRemembers, SubjectsFit,
     PayTypeOK, NoRow, MethodRows, Charging
<1>9. RowsFollowStripe'
  BY <1>1, <1>2, <1>3, PaymentAssumption DEF RowsFollowStripe, SubjectsFit, PayTypeOK,
     NoRow, MethodRows, Charging
<1>10. OneAtATime'
  BY <1>1, <1>2, <1>3, PaymentAssumption DEF OneAtATime, Active, PayTypeOK, NoRow,
     MethodRows, Charging
<1>11. NoneIsBooked'
  BY <1>1, <1>2, <1>3, PaymentAssumption DEF NoneIsBooked, SubjectsFit, OneAtATime, Active,
     PayTypeOK, NoRow, MethodRows, Charging
<1>12. OneIsBooked'
  BY <1>1, <1>2, <1>3, PaymentAssumption DEF OneIsBooked, SubjectsFit, PayTypeOK, NoRow,
     MethodRows, Charging
<1>13. CardsFit'  BY <1>1, <1>2, CardsKeep
<1>14. QED BY <1>4, <1>5, <1>6, <1>7, <1>8, <1>9, <1>10, <1>11, <1>12, <1>13

\* Lookup: who goes on without a fault saw no succeeded row, and so there is none.
LEMMA LookupIsTrue == ASSUME PayInv, NEW a \in Attempts, Lookup(a) PROVE PayInv'
<1> USE DEF PayInv, OthersWait, Asked, Subject
<1>1. /\ attempt' \in [Attempts -> AttemptRecords] /\ OthersWait(a)
      /\ attempt[a].step = "lookup" /\ attempt'[a].subject = attempt[a].subject
      /\ \/ attempt'[a].step = "customer" /\ attempt'[a].answer = attempt[a].answer
         \/ attempt'[a].step = "done" /\ attempt'[a].answer = "succeeded"
  BY PayGoesOn, PayEndsThen DEF PaySteps, Lookup
<1>2. customer' = customer /\ intent' = intent /\ replay' = replay /\ row' = row /\ events'
      = events /\ seen' = seen /\ refused' = refused /\ methods' = methods /\ attached' =
      attached /\ attachKeys' = attachKeys /\ raced' = raced
  BY DEF Lookup, chargeVars, webhookVars, cardVars, NoPayFault
<1>3. payFaults' \in {payFaults, payFaults + 1} /\ payFaults' <= MaxPayFaults
  BY PaymentAssumption DEF Lookup, PayFault, NoPayFault, PayTypeOK
<1>4. attempt'[a].step = "done" => intent[Subject(a)] = "succeeded"
  BY <1>1, PayGoesOn DEF Lookup, PaySteps, SuccessIsCharged, RowsOf, SubjectsFit, Charging
<1>5. ASSUME payFaults' = 0, attempt'[a].step = "customer"
      PROVE  payFaults = 0 /\ \A b \in Attempts : Subject(b) = Subject(a) => row[b].status # "succeeded"
  <2>1. payFaults = 0  BY <1>3, <1>5 DEF PayTypeOK
  <2>2. Asked(a) /\ KindOf[Subject(a)] # "withdrawal"  BY <1>1 DEF SubjectsFit, KindsFit, Charging
  <2>3. CASE RowsOf(Subject(a)) = {}  BY <2>1, <2>3 DEF RowsOf, NoRow
  <2>4. ASSUME NEW b \in RowsOf(Subject(a)), row[b].status # "succeeded"
        PROVE  \A c \in Attempts : Subject(c) = Subject(a) => row[c].status # "succeeded"
    BY <2>1, <2>2, <2>4 DEF RowsFollowStripe, RowsOf
  <2>5. RowsOf(Subject(a)) = {} \/ \E b \in RowsOf(Subject(a)) : row[b].status # "succeeded"
    BY <1>5, <2>1, PayEndsThen DEF Lookup, PayFault
  <2>6. QED BY <2>1, <2>3, <2>4, <2>5
<1>6. PayTypeOK'  BY <1>1, <1>2, <1>3, <1>4, <1>5, PaymentAssumption DEF PayTypeOK
<1>7. SubjectsFit'
  BY <1>1, <1>2, <1>3, <1>4, <1>5, PaymentAssumption DEF SubjectsFit, PayTypeOK, NoRow,
     MethodRows, Charging
<1>8. KindsFit'
  BY <1>1, <1>2, <1>3, <1>4, <1>5, PaymentAssumption DEF KindsFit, SubjectsFit, PayTypeOK,
     NoRow, MethodRows, Charging
<1>9. StripeRemembers'
  BY <1>1, <1>2, <1>3, <1>4, <1>5, PaymentAssumption DEF StripeRemembers, PayTypeOK, NoRow,
     MethodRows, Charging
<1>10. SuccessIsCharged'
  BY <1>1, <1>2, <1>3, <1>4, <1>5, PaymentAssumption DEF SuccessIsCharged, StripeRemembers,
     SubjectsFit, PayTypeOK, NoRow, MethodRows, Charging
<1>11. RowsFollowStripe'
  BY <1>1, <1>2, <1>3, <1>4, <1>5, PaymentAssumption DEF RowsFollowStripe, SubjectsFit,
     PayTypeOK, NoRow, MethodRows, Charging
<1>12. OneAtATime'
  BY <1>1, <1>2, <1>3, <1>4, <1>5, PaymentAssumption DEF OneAtATime, Active, PayTypeOK,
     NoRow, MethodRows, Charging
<1>13. NoneIsBooked'
  BY <1>1, <1>2, <1>3, <1>4, <1>5, PaymentAssumption DEF NoneIsBooked, SubjectsFit,
     OneAtATime, Active, PayTypeOK, NoRow, MethodRows, Charging
<1>14. OneIsBooked'
  BY <1>1, <1>2, <1>3, <1>4, <1>5, PaymentAssumption DEF OneIsBooked, SubjectsFit,
     PayTypeOK, NoRow, MethodRows, Charging
<1>15. CardsFit'  BY <1>3, <1>1, <1>2, CardsKeep DEF PayTypeOK
<1>16. QED BY <1>6, <1>7, <1>8, <1>9, <1>10, <1>11, <1>12, <1>13, <1>14, <1>15

\* EnsureCustomer: a card is attached, a key charged, or the request ends.
LEMMA EnsureCustomerIsTrue == ASSUME PayInv, NEW a \in Attempts, EnsureCustomer(a) PROVE PayInv'
<1> USE DEF PayInv, OthersWait, Asked, Subject
<1>1. /\ attempt' \in [Attempts -> AttemptRecords] /\ OthersWait(a)
      /\ attempt[a].step = "customer" /\ attempt'[a].subject = attempt[a].subject
      /\ \/ attempt'[a].step = "attach" /\ attempt'[a].answer = attempt[a].answer
         \/ attempt'[a].step = "charge" /\ attempt'[a].answer = attempt[a].answer
         \/ attempt'[a].step = "done" /\ attempt'[a].answer = "error"
  BY PayGoesOn, PayEndsThen DEF PaySteps, EnsureCustomer
<1>2. intent' = intent /\ replay' = replay /\ row' = row /\ events' = events /\ seen' =
      seen /\ refused' = refused /\ methods' = methods /\ attached' = attached /\ attachKeys'
      = attachKeys /\ raced' = raced
  BY DEF EnsureCustomer, chargeVars, webhookVars, cardVars, NoPayFault
<1>3. payFaults' \in {payFaults, payFaults + 1} /\ payFaults' <= MaxPayFaults
  <2>1. payFaults' = payFaults \/ (payFaults < MaxPayFaults /\ payFaults' = payFaults + 1)
    BY DEF EnsureCustomer, PayFault, NoPayFault
  <2>2. QED BY <2>1, PaymentAssumption DEF PayTypeOK
<1>4. customer' \in BOOLEAN  BY Zenon DEF EnsureCustomer, PayTypeOK
<1>5. (attempt'[a].step = "attach" => Subject(a) \in Cards) /\ (attempt'[a].step = "charge" => Subject(a) \notin Cards)
  BY PayGoesOn, PayEndsThen DEF PaySteps, EnsureCustomer
<1>6. PayTypeOK'  BY <1>1, <1>2, <1>3, <1>4, <1>5, PaymentAssumption DEF PayTypeOK
<1>7. SubjectsFit'
  BY <1>1, <1>2, <1>3, <1>4, <1>5, PaymentAssumption DEF SubjectsFit, PayTypeOK, NoRow,
     MethodRows, Charging
<1>8. KindsFit'
  BY <1>1, <1>2, <1>3, <1>4, <1>5, PaymentAssumption DEF KindsFit, SubjectsFit, PayTypeOK,
     NoRow, MethodRows, Charging
<1>9. StripeRemembers'
  BY <1>1, <1>2, <1>3, <1>4, <1>5, PaymentAssumption DEF StripeRemembers, PayTypeOK, NoRow,
     MethodRows, Charging
<1>10. SuccessIsCharged'
  BY <1>1, <1>2, <1>3, <1>4, <1>5, PaymentAssumption DEF SuccessIsCharged, StripeRemembers,
     SubjectsFit, PayTypeOK, NoRow, MethodRows, Charging
<1>11. RowsFollowStripe'
  BY <1>1, <1>2, <1>3, <1>4, <1>5, PaymentAssumption DEF RowsFollowStripe, SubjectsFit,
     PayTypeOK, NoRow, MethodRows, Charging
<1>12. OneAtATime'
  BY <1>1, <1>2, <1>3, <1>4, <1>5, PaymentAssumption DEF OneAtATime, Active, PayTypeOK,
     NoRow, MethodRows, Charging
<1>13. NoneIsBooked'
  BY <1>1, <1>2, <1>3, <1>4, <1>5, PaymentAssumption DEF NoneIsBooked, SubjectsFit,
     OneAtATime, Active, PayTypeOK, NoRow, MethodRows, Charging
<1>14. OneIsBooked'
  BY <1>1, <1>2, <1>3, <1>4, <1>5, PaymentAssumption DEF OneIsBooked, SubjectsFit,
     PayTypeOK, NoRow, MethodRows, Charging
<1>15. CardsFit'  BY <1>3, <1>1, <1>2, CardsKeep DEF PayTypeOK
<1>16. QED BY <1>6, <1>7, <1>8, <1>9, <1>10, <1>11, <1>12, <1>13, <1>14, <1>15

\* CreatePaymentIntent: the answer is Stripe's first, and what is replayed stays true.
LEMMA CreatePaymentIntentIsTrue == ASSUME PayInv, NEW a \in Attempts, CreatePaymentIntent(a) PROVE PayInv'
<1> USE DEF PayInv, OthersWait, Asked, Subject
<1>1. attempt[a].step = "charge" /\ Asked(a) /\ KindOf[Subject(a)] # "withdrawal" /\ row[a] = NoRow
  BY DEF CreatePaymentIntent, SubjectsFit, KindsFit, Charging
<1>2. PICK s \in Outcomes :
         /\ replay[Subject(a)] \in {"none", s}
         /\ replay' = [replay EXCEPT ![Subject(a)] = s]
         /\ intent' = [intent EXCEPT ![Subject(a)] = IF intent[Subject(a)] = "none" THEN s ELSE intent[Subject(a)]]
         /\ \/ s # "declined" /\ payFaults' = payFaults
               /\ attempt' = [attempt EXCEPT ![a].step = "record", ![a].answer = s]
            \/ /\ (s = "declined" /\ payFaults' = payFaults) \/ PayFault
               /\ (PayGoes(a, "record_failed") \/ PayEnds(a, "error"))
  <2>1. replay[Subject(a)] \in Outcomes \cup {"none"}  BY <1>1 DEF PayTypeOK
  <2>2. PICK s \in StripeAnswers(Subject(a)) :
           /\ StripeCreates(Subject(a), s)
           /\ \/ s # "declined" /\ payFaults' = payFaults
                 /\ attempt' = [attempt EXCEPT ![a].step = "record", ![a].answer = s]
              \/ /\ (s = "declined" /\ payFaults' = payFaults) \/ PayFault
                 /\ (PayGoes(a, "record_failed") \/ PayEnds(a, "error"))
    BY DEF CreatePaymentIntent, NoPayFault
  <2>3. s \in Outcomes /\ replay[Subject(a)] \in {"none", s}  BY <2>1, <2>2 DEF StripeAnswers
  <2>4. QED BY <2>2, <2>3 DEF StripeCreates
<1>3. /\ replay' \in [PayKeys -> Outcomes \cup {"none"}] /\ intent' \in [PayKeys -> Outcomes \cup {"none"}]
      /\ \A k \in PayKeys \ {Subject(a)} : replay'[k] = replay[k] /\ intent'[k] = intent[k]
      /\ replay'[Subject(a)] = s
      /\ intent'[Subject(a)] = IF intent[Subject(a)] = "none" THEN s ELSE intent[Subject(a)]
  BY <1>1, <1>2 DEF PayTypeOK
<1>4. payFaults' \in {payFaults, payFaults + 1} /\ payFaults' <= MaxPayFaults
  BY <1>2, PaymentAssumption DEF PayFault, PayTypeOK
<1>5. /\ attempt' \in [Attempts -> AttemptRecords] /\ OthersWait(a) /\ attempt'[a].subject = attempt[a].subject
      /\ \/ attempt'[a].step = "record" /\ attempt'[a].answer = s /\ s # "declined"
         \/ /\ attempt'[a].step = "record_failed" /\ attempt'[a].answer = attempt[a].answer
            /\ (s = "declined" \/ payFaults' = payFaults + 1)
         \/ attempt'[a].step = "done" /\ attempt'[a].answer = "error"
  BY <1>2, PayRecords, PayGoesOn, PayEndsThen DEF Outcomes, PaySteps, PayFault
<1>6. customer' = customer /\ row' = row /\ events' = events /\ seen' = seen /\ refused' =
      refused /\ methods' = methods /\ attached' = attached /\ attachKeys' = attachKeys /\
      raced' = raced
  BY DEF CreatePaymentIntent, chargeVars, webhookVars, cardVars, NoPayFault
<1>7. s \in Outcomes /\ replay[Subject(a)] \in {"none", s}  BY <1>2
<1>8. PayTypeOK'  BY <1>1, <1>3, <1>4, <1>5, <1>6, <1>7, PaymentAssumption DEF PayTypeOK
<1>9. SubjectsFit'
  BY <1>1, <1>3, <1>4, <1>5, <1>6, <1>7, PaymentAssumption DEF SubjectsFit, PayTypeOK,
     NoRow, MethodRows, Charging
<1>10. KindsFit'  BY <1>1, <1>5, <1>6, <1>7 DEF KindsFit, Outcomes, NoRow
<1>11. StripeRemembers'
  BY <1>1, <1>3, <1>4, <1>5, <1>6, <1>7, PaymentAssumption DEF StripeRemembers, PayTypeOK,
     NoRow, MethodRows, Charging
<1>12. SuccessIsCharged'
  BY <1>1, <1>3, <1>4, <1>5, <1>6, <1>7, PaymentAssumption DEF SuccessIsCharged,
     StripeRemembers, SubjectsFit, PayTypeOK, NoRow, MethodRows, Charging
<1>13. RowsFollowStripe'  BY <1>4, <1>1, <1>3, <1>5, <1>6, <1>7 DEF RowsFollowStripe, PayTypeOK, NoRow, KindsFit
<1>14. OneAtATime'
  BY <1>1, <1>3, <1>4, <1>5, <1>6, <1>7, PaymentAssumption DEF OneAtATime, Active,
     PayTypeOK, NoRow, MethodRows, Charging
<1>15. NoneIsBooked'
  BY <1>1, <1>3, <1>4, <1>5, <1>6, <1>7, PaymentAssumption DEF NoneIsBooked, SubjectsFit,
     OneAtATime, Active, PayTypeOK, NoRow, MethodRows, Charging
<1>16. OneIsBooked'
  BY <1>1, <1>3, <1>4, <1>5, <1>6, <1>7, PaymentAssumption DEF OneIsBooked, SubjectsFit,
     PayTypeOK, NoRow, MethodRows, Charging
<1>17. CardsFit'  BY <1>1, <1>4, <1>5, <1>6, CardsKeep DEF PayTypeOK
<1>18. QED BY <1>8, <1>9, <1>10, <1>11, <1>12, <1>13, <1>14, <1>15, <1>16, <1>17

\* recordPayment: the row of a charge Stripe has declined.
LEMMA RecordFailedIsTrue == ASSUME PayInv, NEW a \in Attempts, RecordFailed(a) PROVE PayInv'
<1> USE DEF PayInv, OthersWait, Asked, Subject
<1>1. /\ attempt' \in [Attempts -> AttemptRecords] /\ OthersWait(a)
      /\ attempt[a].step = "record_failed" /\ attempt'[a].subject = attempt[a].subject
      /\ attempt'[a].step = "done" /\ attempt'[a].answer = "error"
  BY PayGoesOn, PayEndsThen DEF PaySteps, RecordFailed
<1>2. Asked(a) /\ KindOf[Subject(a)] # "withdrawal" /\ row[a] = NoRow
  BY <1>1 DEF SubjectsFit, KindsFit, Charging
<1>3. customer' = customer /\ intent' = intent /\ replay' = replay /\ events' = events /\
      seen' = seen /\ refused' = refused /\ methods' = methods /\ attached' = attached /\
      attachKeys' = attachKeys /\ raced' = raced
  BY DEF RecordFailed, chargeVars, webhookVars, cardVars, NoPayFault
<1>4. payFaults' \in {payFaults, payFaults + 1} /\ payFaults' <= MaxPayFaults
  BY PaymentAssumption DEF RecordFailed, PayFault, NoPayFault, PayTypeOK
<1>5. /\ row' \in [Attempts -> [status : RowStatuses, intent : BOOLEAN]]
      /\ \A b \in Attempts \ {a} : row'[b] = row[b]
      /\ row'[a] = row[a] \/ row'[a].status = "failed"
  <2>1. [status |-> "failed", intent |-> FALSE] \in [status : RowStatuses, intent : BOOLEAN]
    BY DEF RowStatuses
  <2>2. CASE row' = [row EXCEPT ![a] = [status |-> "failed", intent |-> FALSE]]  BY <2>1, <2>2 DEF PayTypeOK
  <2>3. CASE row' = row  BY <2>3 DEF PayTypeOK
  <2>4. QED BY <2>2, <2>3 DEF RecordFailed
<1>6. PayTypeOK'  BY <1>1, <1>2, <1>3, <1>4, <1>5, PaymentAssumption DEF PayTypeOK
<1>7. SubjectsFit'
  BY <1>1, <1>2, <1>3, <1>4, <1>5, PaymentAssumption DEF SubjectsFit, PayTypeOK, NoRow,
     MethodRows, Charging
<1>8. KindsFit'
  BY <1>1, <1>2, <1>3, <1>4, <1>5, PaymentAssumption DEF KindsFit, SubjectsFit, PayTypeOK,
     NoRow, MethodRows, Charging
<1>9. StripeRemembers'
  BY <1>1, <1>2, <1>3, <1>4, <1>5, PaymentAssumption DEF StripeRemembers, PayTypeOK, NoRow,
     MethodRows, Charging
<1>10. SuccessIsCharged'
  BY <1>1, <1>2, <1>3, <1>4, <1>5, PaymentAssumption DEF SuccessIsCharged, StripeRemembers,
     SubjectsFit, PayTypeOK, NoRow, MethodRows, Charging
<1>11. RowsFollowStripe'
  BY <1>1, <1>2, <1>3, <1>4, <1>5, PaymentAssumption DEF RowsFollowStripe, SubjectsFit,
     PayTypeOK, NoRow, MethodRows, Charging
<1>12. OneAtATime'
  BY <1>1, <1>2, <1>3, <1>4, <1>5, PaymentAssumption DEF OneAtATime, Active, PayTypeOK,
     NoRow, MethodRows, Charging
<1>13. NoneIsBooked'  BY <1>1, <1>5, <1>3, <1>4, PaymentAssumption DEF PayTypeOK, NoneIsBooked
<1>14. OneIsBooked'
  BY <1>1, <1>2, <1>3, <1>4, <1>5, PaymentAssumption DEF OneIsBooked, SubjectsFit,
     PayTypeOK, NoRow, MethodRows, Charging
<1>15. CardsFit'  BY <1>1, <1>3, <1>4, CardsKeep DEF PayTypeOK
<1>16. QED BY <1>6, <1>7, <1>8, <1>9, <1>10, <1>11, <1>12, <1>13, <1>14, <1>15

\* CreatePayment: the row says what Stripe has answered.
LEMMA CreatePaymentIsTrue == ASSUME PayInv, NEW a \in Attempts, CreatePayment(a) PROVE PayInv'
<1> USE DEF PayInv, OthersWait, Asked, Subject
<1>1. /\ attempt' \in [Attempts -> AttemptRecords] /\ OthersWait(a)
      /\ attempt[a].step = "record" /\ attempt'[a].subject = attempt[a].subject
      /\ attempt'[a].step = "done" /\ attempt'[a].answer = attempt[a].answer
  BY PayGoesOn, PayEndsThen DEF PaySteps, CreatePayment
<1>2. Asked(a) /\ row[a] = NoRow  BY <1>1 DEF SubjectsFit, Charging
<1>3. customer' = customer /\ intent' = intent /\ replay' = replay /\ events' = events /\
      seen' = seen /\ refused' = refused /\ methods' = methods /\ attached' = attached /\
      attachKeys' = attachKeys /\ raced' = raced
  BY DEF CreatePayment, chargeVars, webhookVars, cardVars, NoPayFault
<1>4. payFaults' \in {payFaults, payFaults + 1} /\ payFaults' <= MaxPayFaults
  BY PaymentAssumption DEF CreatePayment, PayFault, NoPayFault, PayTypeOK
<1>5. attempt[a].answer \in IF KindOf[Subject(a)] = "withdrawal" THEN {"in_transit"}
                                ELSE {"succeeded", "processing"}
  BY <1>1, <1>2 DEF KindsFit
<1>6. /\ row' \in [Attempts -> [status : RowStatuses, intent : BOOLEAN]]
      /\ \A b \in Attempts \ {a} : row'[b] = row[b]
      /\ row'[a] = row[a] \/ (row'[a].status = attempt[a].answer /\ row'[a].intent)
  <2> DEFINE r == [intent |-> TRUE, status |-> attempt[a].answer]
  <2>1. r \in [status : RowStatuses, intent : BOOLEAN]  BY <1>5 DEF RowStatuses
  <2>2. CASE row' = [row EXCEPT ![a] = r]  BY <2>1, <2>2 DEF PayTypeOK
  <2>3. CASE row' = row  BY <2>3 DEF PayTypeOK
  <2>4. QED BY <2>2, <2>3 DEF CreatePayment, RecordedStatus
<1>7. PayTypeOK'  BY <1>1, <1>2, <1>3, <1>4, <1>5, <1>6, PaymentAssumption DEF PayTypeOK
<1>8. SubjectsFit'
  BY <1>1, <1>2, <1>3, <1>4, <1>5, <1>6, PaymentAssumption DEF SubjectsFit, PayTypeOK,
     NoRow, MethodRows, Charging
<1>9. KindsFit'
  BY <1>1, <1>2, <1>3, <1>4, <1>5, <1>6, PaymentAssumption DEF KindsFit, SubjectsFit,
     PayTypeOK, NoRow, MethodRows, Charging
<1>10. StripeRemembers'
  BY <1>1, <1>2, <1>3, <1>4, <1>5, <1>6, PaymentAssumption DEF StripeRemembers, PayTypeOK,
     NoRow, MethodRows, Charging
<1>11. SuccessIsCharged'
  BY <1>1, <1>2, <1>3, <1>4, <1>5, <1>6, PaymentAssumption DEF SuccessIsCharged,
     StripeRemembers, SubjectsFit, PayTypeOK, NoRow, MethodRows, Charging
<1>12. RowsFollowStripe'
  BY <1>1, <1>2, <1>3, <1>4, <1>5, <1>6, PaymentAssumption DEF RowsFollowStripe,
     SubjectsFit, PayTypeOK, NoRow, MethodRows, Charging
<1>13. OneAtATime'
  BY <1>1, <1>2, <1>3, <1>4, <1>5, <1>6, PaymentAssumption DEF OneAtATime, Active,
     PayTypeOK, NoRow, MethodRows, Charging
<1>14. NoneIsBooked'
  BY <1>1, <1>2, <1>3, <1>4, <1>5, <1>6, PaymentAssumption DEF NoneIsBooked, SubjectsFit,
     OneAtATime, Active, PayTypeOK, NoRow, MethodRows, Charging
<1>15. OneIsBooked'  BY <1>4, <1>1, <1>6, <1>2, <1>3 DEF OneIsBooked, PayTypeOK, NoneIsBooked
<1>16. CardsFit'  BY <1>1, <1>3, <1>4, CardsKeep DEF PayTypeOK
<1>17. QED BY <1>7, <1>8, <1>9, <1>10, <1>11, <1>12, <1>13, <1>14, <1>15, <1>16

\* CreatePayout: Stripe pays out; the key is no charge's.
LEMMA CreatePayoutIsTrue == ASSUME PayInv, NEW a \in Attempts, CreatePayout(a) PROVE PayInv'
<1> USE DEF PayInv, OthersWait, Asked, Subject
<1>1. attempt[a].step = "payout" /\ Asked(a) /\ KindOf[Subject(a)] = "withdrawal" /\ row[a] = NoRow
  BY DEF CreatePayout, SubjectsFit, KindsFit, Charging
<1>2. /\ replay' \in [PayKeys -> Outcomes \cup {"none"}] /\ intent' \in [PayKeys -> Outcomes \cup {"none"}]
      /\ \A k \in PayKeys \ {Subject(a)} : replay'[k] = replay[k] /\ intent'[k] = intent[k]
      /\ replay'[Subject(a)] = "processing"
      /\ intent'[Subject(a)] = IF intent[Subject(a)] = "none" THEN "processing" ELSE intent[Subject(a)]
  BY <1>1 DEF PayTypeOK, CreatePayout, StripeCreates, Outcomes
<1>3. payFaults' \in {payFaults, payFaults + 1} /\ payFaults' <= MaxPayFaults
  BY PaymentAssumption DEF CreatePayout, PayFault, NoPayFault, PayTypeOK
<1>4. /\ attempt' \in [Attempts -> AttemptRecords] /\ OthersWait(a) /\ attempt'[a].subject = attempt[a].subject
      /\ \/ attempt'[a].step = "record" /\ attempt'[a].answer = "in_transit"
         \/ attempt'[a].step = "done" /\ attempt'[a].answer = "error"
  BY PayRecords, PayEndsThen DEF CreatePayout
<1>5. customer' = customer /\ row' = row /\ events' = events /\ seen' = seen /\ refused' =
      refused /\ methods' = methods /\ attached' = attached /\ attachKeys' = attachKeys /\
      raced' = raced
  BY DEF CreatePayout, chargeVars, webhookVars, cardVars, NoPayFault
<1>6. PayTypeOK'  BY <1>1, <1>2, <1>3, <1>4, <1>5, PaymentAssumption DEF PayTypeOK
<1>7. SubjectsFit'
  BY <1>1, <1>2, <1>3, <1>4, <1>5, PaymentAssumption DEF SubjectsFit, PayTypeOK, NoRow,
     MethodRows, Charging
<1>8. KindsFit'
  BY <1>1, <1>2, <1>3, <1>4, <1>5, PaymentAssumption DEF KindsFit, SubjectsFit, PayTypeOK,
     NoRow, MethodRows, Charging
<1>9. StripeRemembers'
  BY <1>1, <1>2, <1>3, <1>4, <1>5, PaymentAssumption DEF StripeRemembers, PayTypeOK, NoRow,
     MethodRows, Charging
<1>10. SuccessIsCharged'
  BY <1>1, <1>2, <1>3, <1>4, <1>5, PaymentAssumption DEF SuccessIsCharged, StripeRemembers,
     SubjectsFit, PayTypeOK, NoRow, MethodRows, Charging
<1>11. RowsFollowStripe'
  BY <1>1, <1>2, <1>3, <1>4, <1>5, PaymentAssumption DEF RowsFollowStripe, SubjectsFit,
     PayTypeOK, NoRow, MethodRows, Charging
<1>12. OneAtATime'
  BY <1>1, <1>2, <1>3, <1>4, <1>5, PaymentAssumption DEF OneAtATime, Active, PayTypeOK,
     NoRow, MethodRows, Charging
<1>13. NoneIsBooked'  BY <1>1, <1>3, <1>4, <1>5 DEF KindsFit, PayTypeOK, NoneIsBooked
<1>14. OneIsBooked'
  BY <1>1, <1>2, <1>3, <1>4, <1>5, PaymentAssumption DEF OneIsBooked, SubjectsFit,
     PayTypeOK, NoRow, MethodRows, Charging
<1>15. CardsFit'  BY <1>1, <1>3, <1>4, <1>5, CardsKeep DEF PayTypeOK
<1>16. QED BY <1>6, <1>7, <1>8, <1>9, <1>10, <1>11, <1>12, <1>13, <1>14, <1>15

\* PayAbort: a request ends early, and that is a fault.
LEMMA PayAbortIsTrue == ASSUME PayInv, NEW a \in Attempts, PayAbort(a) PROVE PayInv'
<1> USE DEF PayInv, OthersWait, Asked, Subject
<1>1. attempt[a].step \notin {"idle", "done"} /\ row[a] = NoRow /\ PayEnds(a, "error")
  BY DEF PayAbort, SubjectsFit
<1>2. /\ attempt' \in [Attempts -> AttemptRecords] /\ OthersWait(a)
      /\ attempt'[a].step = "done" /\ attempt'[a].subject = attempt[a].subject /\ attempt'[a].answer = "error"
  BY <1>1, PayEndsThen
<1>3. payFaults' \in 0..MaxPayFaults /\ payFaults' # 0  BY PaymentAssumption DEF PayAbort, PayFault, PayTypeOK
<1>4. customer' = customer /\ intent' = intent /\ replay' = replay /\ row' = row /\ events'
      = events /\ seen' = seen /\ refused' = refused /\ methods' = methods /\ attached' =
      attached /\ attachKeys' = attachKeys /\ raced' = raced
  BY DEF PayAbort, chargeVars, webhookVars, cardVars, NoPayFault
<1>5. PayTypeOK'  BY <1>1, <1>2, <1>3, <1>4, PaymentAssumption DEF PayTypeOK
<1>6. SubjectsFit'
  BY <1>1, <1>2, <1>3, <1>4, PaymentAssumption DEF SubjectsFit, PayTypeOK, NoRow,
     MethodRows, Charging
<1>7. KindsFit'
  BY <1>1, <1>2, <1>3, <1>4, PaymentAssumption DEF KindsFit, SubjectsFit, PayTypeOK, NoRow,
     MethodRows, Charging
<1>8. StripeRemembers'
  BY <1>1, <1>2, <1>3, <1>4, PaymentAssumption DEF StripeRemembers, PayTypeOK, NoRow,
     MethodRows, Charging
<1>9. SuccessIsCharged'
  BY <1>1, <1>2, <1>3, <1>4, PaymentAssumption DEF SuccessIsCharged, StripeRemembers,
     SubjectsFit, PayTypeOK, NoRow, MethodRows, Charging
<1>10. RowsFollowStripe'
  BY <1>1, <1>2, <1>3, <1>4, PaymentAssumption DEF RowsFollowStripe, SubjectsFit, PayTypeOK,
     NoRow, MethodRows, Charging
<1>11. OneAtATime'
  BY <1>1, <1>2, <1>3, <1>4, PaymentAssumption DEF OneAtATime, Active, PayTypeOK, NoRow,
     MethodRows, Charging
<1>12. NoneIsBooked'
  BY <1>1, <1>2, <1>3, <1>4, PaymentAssumption DEF NoneIsBooked, SubjectsFit, OneAtATime,
     Active, PayTypeOK, NoRow, MethodRows, Charging
<1>13. OneIsBooked'
  BY <1>1, <1>2, <1>3, <1>4, PaymentAssumption DEF OneIsBooked, SubjectsFit, PayTypeOK,
     NoRow, MethodRows, Charging
<1>14. CardsFit'
  BY <1>1, <1>2, <1>3, <1>4, PaymentAssumption DEF CardsFit, PayTypeOK, NoRow, MethodRows,
     Charging
<1>15. QED BY <1>5, <1>6, <1>7, <1>8, <1>9, <1>10, <1>11, <1>12, <1>13, <1>14

\* Settle: what Stripe replays to the key does not change.
LEMMA SettleIsTrue == ASSUME PayInv, NEW k \in PayKeys, Settle(k) PROVE PayInv'
<1> USE DEF PayInv, OthersWait, Asked, Subject
<1>1. /\ intent[k] = "processing" /\ intent' \in [PayKeys -> Outcomes \cup {"none"}]
      /\ \A j \in PayKeys \ {k} : intent'[j] = intent[j]
      /\ events' \subseteq Events  BY DEF Settle, Events, PayTypeOK, Outcomes
<1>2. attempt' = attempt  BY DEF Settle
<1>3. customer' = customer /\ replay' = replay /\ row' = row /\ seen' = seen /\ refused' =
      refused /\ methods' = methods /\ attached' = attached /\ attachKeys' = attachKeys /\
      payFaults' = payFaults /\ raced' = raced
  BY DEF Settle, chargeVars, webhookVars, cardVars, NoPayFault
<1>4. PayTypeOK'  BY <1>1, <1>2, <1>3, PaymentAssumption DEF PayTypeOK
<1>5. SubjectsFit'
  BY <1>1, <1>2, <1>3, PaymentAssumption DEF SubjectsFit, PayTypeOK, NoRow, MethodRows,
     Charging
<1>6. KindsFit'
  BY <1>1, <1>2, <1>3, PaymentAssumption DEF KindsFit, SubjectsFit, PayTypeOK, NoRow,
     MethodRows, Charging
<1>7. StripeRemembers'
  BY <1>1, <1>2, <1>3, PaymentAssumption DEF StripeRemembers, PayTypeOK, NoRow, MethodRows,
     Charging
<1>8. SuccessIsCharged'
  BY <1>1, <1>2, <1>3, PaymentAssumption DEF SuccessIsCharged, StripeRemembers, SubjectsFit,
     PayTypeOK, NoRow, MethodRows, Charging
<1>9. RowsFollowStripe'
  BY <1>1, <1>2, <1>3, PaymentAssumption DEF RowsFollowStripe, SubjectsFit, PayTypeOK,
     NoRow, MethodRows, Charging
<1>10. OneAtATime'
  BY <1>1, <1>2, <1>3, PaymentAssumption DEF OneAtATime, Active, PayTypeOK, NoRow,
     MethodRows, Charging
<1>11. NoneIsBooked'
  BY <1>1, <1>2, <1>3, PaymentAssumption DEF NoneIsBooked, SubjectsFit, OneAtATime, Active,
     PayTypeOK, NoRow, MethodRows, Charging
<1>12. OneIsBooked'
  BY <1>1, <1>2, <1>3, PaymentAssumption DEF OneIsBooked, SubjectsFit, PayTypeOK, NoRow,
     MethodRows, Charging
<1>13. CardsFit'
  BY <1>1, <1>2, <1>3, PaymentAssumption DEF CardsFit, PayTypeOK, NoRow, MethodRows,
     Charging
<1>14. QED BY <1>4, <1>5, <1>6, <1>7, <1>8, <1>9, <1>10, <1>11, <1>12, <1>13

\* StripeWebhook: the second look at the body fails, so nothing is applied.
LEMMA StripeWebhookIsTrue == ASSUME PayInv, NEW e \in events, StripeWebhook(e) PROVE PayInv'
<1> USE DEF PayInv, OthersWait, Asked, Subject
<1>1. refused' \subseteq Events  BY DEF StripeWebhook, SignatureMatches, BodyAfterRead, PayTypeOK
<1>2. attempt' = attempt  BY DEF StripeWebhook
<1>3. customer' = customer /\ intent' = intent /\ replay' = replay /\ row' = row /\ events'
      = events /\ seen' = seen /\ methods' = methods /\ attached' = attached /\ attachKeys' =
      attachKeys /\ payFaults' = payFaults /\ raced' = raced
  BY DEF StripeWebhook, SignatureMatches, BodyAfterRead, cardVars
<1>4. PayTypeOK'  BY <1>1, <1>2, <1>3, PaymentAssumption DEF PayTypeOK
<1>5. SubjectsFit'
  BY <1>1, <1>2, <1>3, PaymentAssumption DEF SubjectsFit, PayTypeOK, NoRow, MethodRows,
     Charging
<1>6. KindsFit'
  BY <1>1, <1>2, <1>3, PaymentAssumption DEF KindsFit, SubjectsFit, PayTypeOK, NoRow,
     MethodRows, Charging
<1>7. StripeRemembers'
  BY <1>1, <1>2, <1>3, PaymentAssumption DEF StripeRemembers, PayTypeOK, NoRow, MethodRows,
     Charging
<1>8. SuccessIsCharged'
  BY <1>1, <1>2, <1>3, PaymentAssumption DEF SuccessIsCharged, StripeRemembers, SubjectsFit,
     PayTypeOK, NoRow, MethodRows, Charging
<1>9. RowsFollowStripe'
  BY <1>1, <1>2, <1>3, PaymentAssumption DEF RowsFollowStripe, SubjectsFit, PayTypeOK,
     NoRow, MethodRows, Charging
<1>10. OneAtATime'
  BY <1>1, <1>2, <1>3, PaymentAssumption DEF OneAtATime, Active, PayTypeOK, NoRow,
     MethodRows, Charging
<1>11. NoneIsBooked'
  BY <1>1, <1>2, <1>3, PaymentAssumption DEF NoneIsBooked, SubjectsFit, OneAtATime, Active,
     PayTypeOK, NoRow, MethodRows, Charging
<1>12. OneIsBooked'
  BY <1>1, <1>2, <1>3, PaymentAssumption DEF OneIsBooked, SubjectsFit, PayTypeOK, NoRow,
     MethodRows, Charging
<1>13. CardsFit'
  BY <1>1, <1>2, <1>3, PaymentAssumption DEF CardsFit, PayTypeOK, NoRow, MethodRows,
     Charging
<1>14. QED BY <1>4, <1>5, <1>6, <1>7, <1>8, <1>9, <1>10, <1>11, <1>12, <1>13

\* BeginAdd: a request about a card begins.
LEMMA BeginAddIsTrue == ASSUME PayInv, NEW a \in Attempts, NEW c \in Cards, BeginAdd(a, c) PROVE PayInv'
<1> USE DEF PayInv, OthersWait, Asked, Subject
<1>1. /\ attempt' \in [Attempts -> AttemptRecords] /\ OthersWait(a)
      /\ attempt[a].step = "idle" /\ attempt'[a].step = "customer" /\ attempt'[a].subject \in Cards
      /\ attempt'[a].answer = attempt[a].answer
  <2>1. PICK d \in BOOLEAN :
           attempt' = [attempt EXCEPT ![a].subject = c, ![a].step = "customer", ![a].asDefault = d]
    BY DEF BeginAdd
  <2>2. "customer" \in PaySteps /\ c \in Subjects  BY DEF PaySteps, Subjects
  <2>3. PayTypeOK /\ attempt[a].step = "idle"  BY DEF BeginAdd
  <2>4. QED BY <2>1, <2>2, <2>3, PayBeginsCard, Zenon
<1>2. customer' = customer /\ intent' = intent /\ replay' = replay /\ row' = row /\ events'
      = events /\ seen' = seen /\ refused' = refused /\ methods' = methods /\ attached' =
      attached /\ attachKeys' = attachKeys /\ payFaults' = payFaults /\ raced' = raced
  BY DEF BeginAdd, chargeVars, webhookVars, cardVars, NoPayFault
<1>3. /\ KindsFit' /\ StripeRemembers' /\ SuccessIsCharged' /\ RowsFollowStripe'
      /\ OneAtATime' /\ NoneIsBooked' /\ OneIsBooked'
  BY <1>1, <1>2, PaymentAssumption, ChargesKeep DEF SubjectsFit, PayTypeOK
<1>4. PayTypeOK'  BY <1>1, <1>2, PaymentAssumption DEF PayTypeOK
<1>5. SubjectsFit'  BY <1>1, <1>2, PaymentAssumption DEF SubjectsFit, PayTypeOK, NoRow, MethodRows, Charging
<1>6. KindsFit'  BY <1>3
<1>7. StripeRemembers'  BY <1>3
<1>8. SuccessIsCharged'  BY <1>3
<1>9. RowsFollowStripe'  BY <1>3
<1>10. OneAtATime'  BY <1>3
<1>11. NoneIsBooked'  BY <1>3
<1>12. OneIsBooked'  BY <1>3
<1>13. CardsFit'  BY <1>1, <1>2, CardsKeep DEF PayTypeOK
<1>14. QED BY <1>4, <1>5, <1>6, <1>7, <1>8, <1>9, <1>10, <1>11, <1>12, <1>13

\* BeginRemove: the card's row is there.
LEMMA BeginRemoveIsTrue == ASSUME PayInv, NEW a \in Attempts, BeginRemove(a) PROVE PayInv'
<1> USE DEF PayInv, OthersWait, Asked, Subject
<1>1. /\ attempt' \in [Attempts -> AttemptRecords] /\ OthersWait(a)
      /\ attempt[a].step = "idle" /\ attempt'[a].step = "detach" /\ attempt'[a].subject \in Attempts
      /\ attempt'[a].answer = attempt[a].answer
  <2>1. PICK m \in methods : attempt' = [attempt EXCEPT ![a].subject = m.id, ![a].step = "detach"]
    BY DEF BeginRemove
  <2>2. "detach" \in PaySteps /\ m.id \in Attempts /\ m.id \in Subjects
    BY DEF PaySteps, Subjects, PayTypeOK, MethodRows
  <2>3. PICK step \in PaySteps, x \in Subjects :
            /\ step = "detach" /\ x \in Attempts
            /\ attempt' = [attempt EXCEPT ![a].subject = x, ![a].step = step]
    BY <2>1, <2>2
  <2>4. attempt[a].step = "idle"  BY DEF BeginRemove
  <2>5. PayTypeOK  BY DEF PayInv
  <2>6. attempt' = [attempt EXCEPT ![a].subject = x, ![a].step = step]  BY <2>3
  <2> HIDE DEF PayInv, OthersWait
  <2>7. /\ attempt' \in [Attempts -> AttemptRecords] /\ OthersWait(a)
        /\ attempt'[a].step = step /\ attempt'[a].subject = x
        /\ attempt'[a].answer = attempt[a].answer
    BY <2>5, <2>6, PayBegins
  <2>8. QED BY <2>3, <2>4, <2>7
<1>2. customer' = customer /\ intent' = intent /\ replay' = replay /\ row' = row /\ events'
      = events /\ seen' = seen /\ refused' = refused /\ methods' = methods /\ attached' =
      attached /\ attachKeys' = attachKeys /\ payFaults' = payFaults /\ raced' = raced
  BY DEF BeginRemove, chargeVars, webhookVars, cardVars, NoPayFault
<1>3. /\ KindsFit' /\ StripeRemembers' /\ SuccessIsCharged' /\ RowsFollowStripe'
      /\ OneAtATime' /\ NoneIsBooked' /\ OneIsBooked'
  BY <1>1, <1>2, PaymentAssumption, ChargesKeep DEF SubjectsFit, PayTypeOK
<1>4. PayTypeOK'  BY <1>1, <1>2, PaymentAssumption DEF PayTypeOK
<1>5. SubjectsFit'  BY <1>1, <1>2, PaymentAssumption DEF SubjectsFit, PayTypeOK, NoRow, MethodRows, Charging
<1>6. KindsFit'  BY <1>3
<1>7. StripeRemembers'  BY <1>3
<1>8. SuccessIsCharged'  BY <1>3
<1>9. RowsFollowStripe'  BY <1>3
<1>10. OneAtATime'  BY <1>3
<1>11. NoneIsBooked'  BY <1>3
<1>12. OneIsBooked'  BY <1>3
<1>13. CardsFit'  BY <1>1, <1>2, CardsKeep DEF PayTypeOK
<1>14. QED BY <1>4, <1>5, <1>6, <1>7, <1>8, <1>9, <1>10, <1>11, <1>12, <1>13

\* Attach: Stripe has the card.
LEMMA AttachIsTrue == ASSUME PayInv, NEW a \in Attempts, Attach(a) PROVE PayInv'
<1> USE DEF PayInv, OthersWait, Asked, Subject
<1>1. /\ attempt' \in [Attempts -> AttemptRecords] /\ OthersWait(a)
      /\ attempt[a].step = "attach" /\ attempt'[a].subject = attempt[a].subject
      /\ \/ attempt'[a].step = "insert" /\ attempt'[a].answer = attempt[a].answer
         \/ attempt'[a].step = "done" /\ attempt'[a].answer = "error"
  BY PayGoesOn, PayEndsThen DEF PaySteps, Attach
<1>2. Subject(a) \in Cards  BY <1>1 DEF SubjectsFit
<1>3. customer' = customer /\ intent' = intent /\ replay' = replay /\ row' = row /\ events'
      = events /\ seen' = seen /\ refused' = refused /\ methods' = methods /\ raced' = raced
  BY DEF Attach, chargeVars, webhookVars, cardVars, NoPayFault
<1>4. payFaults' \in {payFaults, payFaults + 1} /\ payFaults' <= MaxPayFaults
  BY PaymentAssumption DEF Attach, PayFault, NoPayFault, PayTypeOK
<1>5. attached' \subseteq Cards /\ attachKeys' \subseteq Cards  BY <1>2 DEF Attach, PayTypeOK
<1>6. /\ KindsFit' /\ StripeRemembers' /\ SuccessIsCharged' /\ RowsFollowStripe'
      /\ OneAtATime' /\ NoneIsBooked' /\ OneIsBooked'
  BY <1>1, <1>2, <1>3, <1>4, <1>5, PaymentAssumption, ChargesKeep DEF SubjectsFit, PayTypeOK
<1>7. PayTypeOK'  BY <1>1, <1>2, <1>3, <1>4, <1>5, PaymentAssumption DEF PayTypeOK
<1>8. SubjectsFit'
  BY <1>1, <1>2, <1>3, <1>4, <1>5, PaymentAssumption DEF SubjectsFit, PayTypeOK, NoRow,
     MethodRows, Charging
<1>9. KindsFit'  BY <1>6
<1>10. StripeRemembers'  BY <1>6
<1>11. SuccessIsCharged'  BY <1>6
<1>12. RowsFollowStripe'  BY <1>6
<1>13. OneAtATime'  BY <1>6
<1>14. NoneIsBooked'  BY <1>6
<1>15. OneIsBooked'  BY <1>6
<1>16. CardsFit'  BY <1>1, <1>3, <1>4, CardsKeep DEF PayTypeOK
<1>17. QED BY <1>7, <1>8, <1>9, <1>10, <1>11, <1>12, <1>13, <1>14, <1>15, <1>16

\* CreatePaymentMethod: the row is the request's own, and if it is to be the default it is not yet.
LEMMA CreatePaymentMethodIsTrue == ASSUME PayInv, NEW a \in Attempts, CreatePaymentMethod(a) PROVE PayInv'
<1> USE DEF PayInv, OthersWait, Asked, Subject
<1>1. /\ attempt' \in [Attempts -> AttemptRecords] /\ OthersWait(a)
      /\ attempt[a].step = "insert" /\ attempt'[a].subject = attempt[a].subject
      /\ \/ attempt'[a].step = "default" /\ attempt'[a].answer = attempt[a].answer
         \/ attempt'[a].step = "done" /\ attempt'[a].answer = "succeeded"
         \/ attempt'[a].step = "done" /\ attempt'[a].answer = "error"
  BY PayGoesOn, PayEndsThen DEF PaySteps, CreatePaymentMethod
<1>2. Subject(a) \in Cards  BY <1>1 DEF SubjectsFit
<1>3. customer' = customer /\ intent' = intent /\ replay' = replay /\ row' = row /\ events'
      = events /\ seen' = seen /\ refused' = refused /\ attached' = attached /\ attachKeys' =
      attachKeys /\ raced' = raced
  BY DEF CreatePaymentMethod, chargeVars, webhookVars, cardVars, NoPayFault
<1>4. payFaults' \in {payFaults, payFaults + 1} /\ payFaults' <= MaxPayFaults
  BY PaymentAssumption DEF CreatePaymentMethod, PayFault, NoPayFault, PayTypeOK
<1>5. PICK r \in MethodRows :
         /\ r.id = a /\ (r.isDefault /\ methods' # methods => attempt'[a].step = "default")
         /\ methods' \in {methods, methods \cup {r}}
         /\ methods' # methods => attempt'[a].step \in {"default", "done"}
         /\ attempt'[a].step \in {"default", "done"}
  <2> DEFINE r == [id |-> a, card |-> Subject(a), isDefault |-> attempt[a].asDefault]
  <2>1. attempt[a] \in AttemptRecords  BY DEF PayTypeOK
  <2>2. r \in MethodRows  BY <1>2, <2>1, Zenon DEF MethodRows, AttemptRecords
  <2>3. CASE methods' = methods \cup {r} /\ attempt[a].asDefault /\ PayGoes(a, "default")
    <3>1. "default" \in PaySteps  BY DEF PaySteps
    <3>2. QED BY <2>2, <2>3, <3>1, PayGoesOn
  <2>4. CASE methods' = methods \cup {r} /\ ~attempt[a].asDefault  BY <1>1, <2>2, <2>4
  <2>5. CASE methods' = methods  BY <1>1, <2>2, <2>5
  <2>6. QED BY <2>3, <2>4, <2>5 DEF CreatePaymentMethod
<1>6. /\ KindsFit' /\ StripeRemembers' /\ SuccessIsCharged' /\ RowsFollowStripe'
      /\ OneAtATime' /\ NoneIsBooked' /\ OneIsBooked'
  BY <1>1, <1>2, <1>3, <1>4, <1>5, PaymentAssumption, ChargesKeep DEF SubjectsFit, PayTypeOK
<1>7. PayTypeOK'  BY <1>1, <1>2, <1>3, <1>4, <1>5, PaymentAssumption DEF PayTypeOK
<1>8. SubjectsFit'
  BY <1>1, <1>2, <1>3, <1>4, <1>5, PaymentAssumption DEF SubjectsFit, PayTypeOK, NoRow,
     MethodRows, Charging
<1>9. KindsFit'  BY <1>6
<1>10. StripeRemembers'  BY <1>6
<1>11. SuccessIsCharged'  BY <1>6
<1>12. RowsFollowStripe'  BY <1>6
<1>13. OneAtATime'  BY <1>6
<1>14. NoneIsBooked'  BY <1>6
<1>15. OneIsBooked'  BY <1>6
<1>16. CardsFit'  BY <1>1, <1>4, <1>5 DEF PayTypeOK, MethodRows, CardsFit
<1>17. QED BY <1>7, <1>8, <1>9, <1>10, <1>11, <1>12, <1>13, <1>14, <1>15, <1>16

\* SetDefaultPaymentMethod: of the rows that are through, only this one is the default; a request
\* whose update fails has failed.
LEMMA SetDefaultPaymentMethodIsTrue == ASSUME PayInv, NEW a \in Attempts, SetDefaultPaymentMethod(a) PROVE PayInv'
<1> USE DEF PayInv, OthersWait, Asked, Subject
<1>1. /\ attempt' \in [Attempts -> AttemptRecords] /\ OthersWait(a)
      /\ attempt[a].step = "default" /\ attempt'[a].subject = attempt[a].subject
      /\ attempt'[a].step = "done" /\ attempt'[a].answer = "succeeded"
  BY PayGoesOn, PayEndsThen DEF PaySteps, SetDefaultPaymentMethod
<1>2. Subject(a) \in Cards  BY <1>1 DEF SubjectsFit
<1>3. customer' = customer /\ intent' = intent /\ replay' = replay /\ row' = row /\ events'
      = events /\ seen' = seen /\ refused' = refused /\ attached' = attached /\ attachKeys' =
      attachKeys /\ raced' = raced
  BY DEF SetDefaultPaymentMethod, chargeVars, webhookVars, cardVars, NoPayFault
<1>4. payFaults' \in {payFaults, payFaults + 1} /\ payFaults' <= MaxPayFaults
  BY PaymentAssumption DEF SetDefaultPaymentMethod, PayFault, NoPayFault, PayTypeOK
<1>5. methods' = OnlyDefault(a) \/ (methods' = methods /\ payFaults' # 0)
  BY DEF SetDefaultPaymentMethod, PayFault, PayTypeOK
<1>6. /\ \A n \in methods' : \E m \in methods : n.id = m.id /\ n \in MethodRows /\ (methods' = OnlyDefault(a) => n = [m EXCEPT !.isDefault = m.id = a])
      /\ \A n \in methods' : methods' = OnlyDefault(a) => (n.isDefault => n.id = a)
  <2>1. CASE methods' = methods /\ methods' # OnlyDefault(a)  BY <2>1 DEF PayTypeOK
  <2>2. CASE methods' = OnlyDefault(a)
    <3> SUFFICES ASSUME NEW n \in OnlyDefault(a)
                 PROVE  /\ \E m \in methods : n.id = m.id /\ n \in MethodRows /\ n = [m EXCEPT !.isDefault = m.id = a]
                        /\ n.isDefault => n.id = a
      BY <2>2
    <3>1. PICK m \in methods : n = [m EXCEPT !.isDefault = m.id = a]  BY DEF OnlyDefault
    <3>2. m \in MethodRows  BY DEF PayTypeOK
    <3>3. n \in MethodRows /\ n.id = m.id /\ (n.isDefault => m.id = a)  BY <3>1, <3>2 DEF MethodRows
    <3>4. QED BY <3>1, <3>3
  <2>3. QED BY <1>5, <2>1, <2>2
<1>7. /\ KindsFit' /\ StripeRemembers' /\ SuccessIsCharged' /\ RowsFollowStripe'
      /\ OneAtATime' /\ NoneIsBooked' /\ OneIsBooked'
  BY <1>1, <1>2, <1>3, <1>4, <1>5, <1>6, PaymentAssumption, ChargesKeep DEF SubjectsFit, PayTypeOK
<1>8. PayTypeOK'  BY <1>1, <1>2, <1>3, <1>4, <1>5, <1>6, PaymentAssumption DEF PayTypeOK
<1>9. SubjectsFit'
  BY <1>1, <1>2, <1>3, <1>4, <1>5, <1>6, PaymentAssumption DEF SubjectsFit, PayTypeOK,
     NoRow, MethodRows, Charging
<1>10. KindsFit'  BY <1>7
<1>11. StripeRemembers'  BY <1>7
<1>12. SuccessIsCharged'  BY <1>7
<1>13. RowsFollowStripe'  BY <1>7
<1>14. OneAtATime'  BY <1>7
<1>15. NoneIsBooked'  BY <1>7
<1>16. OneIsBooked'  BY <1>7
<1>17. CardsFit'  BY <1>6, <1>1, <1>5 DEF PayTypeOK, MethodRows, CardsFit
<1>18. QED BY <1>8, <1>9, <1>10, <1>11, <1>12, <1>13, <1>14, <1>15, <1>16, <1>17

\* Detach: the row is still there.
LEMMA DetachIsTrue == ASSUME PayInv, NEW a \in Attempts, Detach(a) PROVE PayInv'
<1> USE DEF PayInv, OthersWait, Asked, Subject
<1>1. /\ attempt' \in [Attempts -> AttemptRecords] /\ OthersWait(a)
      /\ attempt[a].step = "detach" /\ attempt'[a].subject = attempt[a].subject
      /\ \/ attempt'[a].step = "delete" /\ attempt'[a].answer = attempt[a].answer
         \/ attempt'[a].step = "done" /\ attempt'[a].answer = "error"
  BY PayGoesOn, PayEndsThen DEF PaySteps, Detach
<1>2. Subject(a) \in Attempts /\ Subject(a) \notin PayKeys  BY <1>1, PaymentAssumption DEF SubjectsFit
<1>3. customer' = customer /\ intent' = intent /\ replay' = replay /\ row' = row /\ events'
      = events /\ seen' = seen /\ refused' = refused /\ methods' = methods /\ attachKeys' =
      attachKeys /\ raced' = raced
  BY DEF Detach, chargeVars, webhookVars, cardVars, NoPayFault
<1>4. payFaults' \in {payFaults, payFaults + 1} /\ payFaults' <= MaxPayFaults
  BY PaymentAssumption DEF Detach, PayFault, NoPayFault, PayTypeOK
<1>5. attached' \subseteq Cards  BY DEF Detach, PayTypeOK
<1>6. /\ KindsFit' /\ StripeRemembers' /\ SuccessIsCharged' /\ RowsFollowStripe'
      /\ OneAtATime' /\ NoneIsBooked' /\ OneIsBooked'
  BY <1>1, <1>2, <1>3, <1>4, <1>5, PaymentAssumption, ChargesKeep DEF SubjectsFit, PayTypeOK
<1>7. PayTypeOK'  BY <1>1, <1>2, <1>3, <1>4, <1>5, PaymentAssumption DEF PayTypeOK
<1>8. SubjectsFit'
  BY <1>1, <1>2, <1>3, <1>4, <1>5, PaymentAssumption DEF SubjectsFit, PayTypeOK, NoRow,
     MethodRows, Charging
<1>9. KindsFit'  BY <1>6
<1>10. StripeRemembers'  BY <1>6
<1>11. SuccessIsCharged'  BY <1>6
<1>12. RowsFollowStripe'  BY <1>6
<1>13. OneAtATime'  BY <1>6
<1>14. NoneIsBooked'  BY <1>6
<1>15. OneIsBooked'  BY <1>6
<1>16. CardsFit'  BY <1>1, <1>3, <1>4, CardsKeep DEF PayTypeOK
<1>17. QED BY <1>7, <1>8, <1>9, <1>10, <1>11, <1>12, <1>13, <1>14, <1>15, <1>16

\* DeletePaymentMethod: the row goes.
LEMMA DeletePaymentMethodIsTrue == ASSUME PayInv, NEW a \in Attempts, DeletePaymentMethod(a) PROVE PayInv'
<1> USE DEF PayInv, OthersWait, Asked, Subject
<1>1. /\ attempt' \in [Attempts -> AttemptRecords] /\ OthersWait(a)
      /\ attempt[a].step = "delete" /\ attempt'[a].subject = attempt[a].subject
      /\ \/ attempt'[a].step = "done" /\ attempt'[a].answer = "succeeded"
         \/ attempt'[a].step = "done" /\ attempt'[a].answer = "error"
  BY PayGoesOn, PayEndsThen DEF PaySteps, DeletePaymentMethod
<1>2. Subject(a) \in Attempts /\ Subject(a) \notin PayKeys  BY <1>1, PaymentAssumption DEF SubjectsFit
<1>3. customer' = customer /\ intent' = intent /\ replay' = replay /\ row' = row /\ events'
      = events /\ seen' = seen /\ refused' = refused /\ attached' = attached /\ attachKeys' =
      attachKeys /\ raced' = raced
  BY DEF DeletePaymentMethod, chargeVars, webhookVars, cardVars, NoPayFault
<1>4. payFaults' \in {payFaults, payFaults + 1} /\ payFaults' <= MaxPayFaults
  BY PaymentAssumption DEF DeletePaymentMethod, PayFault, NoPayFault, PayTypeOK
<1>5. methods' \subseteq methods  BY DEF DeletePaymentMethod
<1>6. /\ KindsFit' /\ StripeRemembers' /\ SuccessIsCharged' /\ RowsFollowStripe'
      /\ OneAtATime' /\ NoneIsBooked' /\ OneIsBooked'
  BY <1>1, <1>2, <1>3, <1>4, <1>5, PaymentAssumption, ChargesKeep DEF SubjectsFit, PayTypeOK
<1>7. PayTypeOK'  BY <1>1, <1>2, <1>3, <1>4, <1>5, PaymentAssumption DEF PayTypeOK
<1>8. SubjectsFit'
  BY <1>1, <1>2, <1>3, <1>4, <1>5, PaymentAssumption DEF SubjectsFit, PayTypeOK, NoRow,
     MethodRows, Charging
<1>9. KindsFit'  BY <1>6
<1>10. StripeRemembers'  BY <1>6
<1>11. SuccessIsCharged'  BY <1>6
<1>12. RowsFollowStripe'  BY <1>6
<1>13. OneAtATime'  BY <1>6
<1>14. NoneIsBooked'  BY <1>6
<1>15. OneIsBooked'  BY <1>6
<1>16. CardsFit'  BY <1>1, <1>4, <1>5 DEF PayTypeOK, MethodRows, CardsFit
<1>17. QED BY <1>7, <1>8, <1>9, <1>10, <1>11, <1>12, <1>13, <1>14, <1>15, <1>16

\* The initial states.
LEMMA PayStarts == PayInit => PayInv
<1> SUFFICES ASSUME PayInit PROVE PayInv  OBVIOUS
<1>1. PayTypeOK
  BY PaymentAssumption DEF IdleAttempt, AttemptRecords, PaySteps, Subjects, NoRow, RowStatuses, PayInit,
     PayTypeOK
<1>2. \A a \in Attempts : /\ attempt[a].step = "idle" /\ Subject(a) = "none" /\ attempt[a].answer = "none"
                          /\ ~Asked(a) /\ row[a] = NoRow
  BY PaymentAssumption DEF PayInit, IdleAttempt, Subject, Asked
<1>3. SubjectsFit /\ KindsFit /\ RowsFollowStripe /\ OneAtATime /\ NoneIsBooked /\ OneIsBooked
  BY <1>2 DEF SubjectsFit, KindsFit, RowsFollowStripe, OneAtATime, NoneIsBooked, OneIsBooked, Charging
<1>4. SuccessIsCharged  BY <1>2 DEF SuccessIsCharged, Asked
<1>5. StripeRemembers /\ CardsFit  BY DEF PayInit, StripeRemembers, CardsFit
<1>6. QED BY <1>1, <1>3, <1>4, <1>5 DEF PayInv

\* A stuttering step changes nothing.
LEMMA PayStutters == PayInv /\ UNCHANGED payVars => PayInv'
<1> SUFFICES ASSUME PayInv, UNCHANGED payVars PROVE PayInv'  OBVIOUS
<1> USE DEF payVars, chargeVars, webhookVars, cardVars, Subject, Asked, Active
<1>1. PayTypeOK' /\ StripeRemembers' /\ SubjectsFit' /\ KindsFit'
  BY DEF PayInv, PayTypeOK, StripeRemembers, SubjectsFit, KindsFit
<1>2. SuccessIsCharged' /\ RowsFollowStripe'  BY DEF PayInv, SuccessIsCharged, RowsFollowStripe
<1>3. OneAtATime' /\ NoneIsBooked' /\ OneIsBooked'  BY DEF PayInv, OneAtATime, NoneIsBooked, OneIsBooked
<1>4. CardsFit'  BY DEF PayInv, CardsFit
<1>5. QED BY <1>1, <1>2, <1>3, <1>4 DEF PayInv

\* Every step keeps the invariant.
LEMMA PayStep == PayInv /\ [PayNext]_payVars => PayInv'
<1> SUFFICES ASSUME PayInv, [PayNext]_payVars PROVE PayInv'  OBVIOUS
<1>1. ASSUME NEW a \in Attempts, NEW k \in PayKeys, BeginCharge(a, k) PROVE PayInv'
  BY <1>1, BeginChargeIsTrue
<1>2. ASSUME NEW a \in Attempts, NEW c \in Cards, BeginAdd(a, c) PROVE PayInv'  BY <1>2, BeginAddIsTrue
<1>3. ASSUME NEW a \in Attempts,
             Lookup(a) \/ EnsureCustomer(a) \/ CreatePaymentIntent(a) \/ RecordFailed(a)
               \/ CreatePayment(a) \/ CreatePayout(a)
      PROVE  PayInv'
  BY <1>3, LookupIsTrue, EnsureCustomerIsTrue, CreatePaymentIntentIsTrue, RecordFailedIsTrue,
     CreatePaymentIsTrue, CreatePayoutIsTrue
<1>4. ASSUME NEW a \in Attempts,
             Attach(a) \/ CreatePaymentMethod(a) \/ SetDefaultPaymentMethod(a) \/ BeginRemove(a)
               \/ Detach(a) \/ DeletePaymentMethod(a) \/ PayAbort(a)
      PROVE  PayInv'
  BY <1>4, AttachIsTrue, CreatePaymentMethodIsTrue, SetDefaultPaymentMethodIsTrue, BeginRemoveIsTrue,
     DetachIsTrue, DeletePaymentMethodIsTrue, PayAbortIsTrue
<1>5. ASSUME NEW k \in PayKeys, Settle(k) PROVE PayInv'  BY <1>5, SettleIsTrue
<1>6. ASSUME NEW e \in events, StripeWebhook(e) PROVE PayInv'  BY <1>6, StripeWebhookIsTrue
<1>7. CASE UNCHANGED payVars  BY <1>7, PayStutters
<1>8. QED BY <1>1, <1>2, <1>3, <1>4, <1>5, <1>6, <1>7 DEF PayNext

\* The invariant holds in every state.
LEMMA PayInvHolds == PaySpec => []PayInv
<1>1. QED BY PayStarts, PayStep, PTL DEF PaySpec

\* Every request, row, event and card stays of its kind.
THEOREM PayTypesHold == PaySpec => []PayTypeOK
<1>1. PayInv => PayTypeOK  BY DEF PayInv
<1>2. QED BY PayInvHolds, <1>1, PTL

\* Whichever calls fail and requests overlap, a succeeded payment is one Stripe has charged; while
\* none fails, requests of a key that follow one another book one, and a user has one default card.
THEOREM PaymentsStayTrue == PaySpec => []PaymentsAreTrue
<1>1. QED BY PayInvHolds, PaymentsFollow, PTL

--------
\* AuthSessions: access is earned once, credentials change as asked.

Issuers == {"register", "oauth", "login", "refresh", "verify_code", "verify"}
IsCode(c) == \E i \in DOMAIN codes : codes[i] = c
\* A call that has used, or is about to use, the session or code it has read.
UsesUp(q) == /\ call[q].method \in {"refresh", "verify_code"}
             /\ session[q] # "none" \/ call[q].step \in {"revoke", "issue", "use"}

AuthShape ==
    /\ call \in [AuthCalls -> CallRecords]
    /\ session \in [AuthCalls -> {"none", "live", "revoked"}]
    /\ codes \in Seq(AuthCalls) /\ spent \subseteq AuthCalls
    /\ trials \in [AuthCalls -> Nat]
    /\ signedOut \subseteq AuthCalls /\ contested \subseteq AuthCalls
    /\ password \in AuthCalls \cup {Nil}
    /\ mfa \in [on : BOOLEAN, secret : AuthCalls \cup {Nil, NoSecret}]

\* Each step is one of its method; a call with a session is through.
CallFits(q) ==
    /\ call[q].step = "idle" => call[q].method = Nil
    /\ call[q].step = "insert" => call[q].method \in {"register", "oauth"}
    /\ call[q].step = "issue" => call[q].method \in Issuers
    /\ call[q].step = "revoke" => call[q].method = "refresh"
    /\ call[q].step = "drop" => call[q].on \in AuthCalls /\ session[call[q].on] # "none"
    /\ call[q].step \in {"use", "count"} => call[q].method = "verify_code"
    /\ call[q].step \in {"void", "mint"} => call[q].method = "send_code"
    /\ call[q].step = "confirm" => call[q].method = "verify" /\ call[q].on \in AuthCalls \cup {NoSecret}
    /\ session[q] # "none" => call[q].step = "ok" /\ call[q].method \in Issuers
CallsFit == \A q \in AuthCalls : CallFits(q)

\* Sessions are refreshed, codes are verified; no call made both.
TokensFit ==
    /\ \A q \in AuthCalls : call[q].method = "refresh" =>
           call[q].on \in AuthCalls /\ session[call[q].on] # "none"
    /\ \A q \in AuthCalls : call[q].method = "verify_code" =>
           call[q].on \in AuthCalls /\ IsCode(call[q].on)
    /\ \A c \in AuthCalls : IsCode(c) => call[c].method = "send_code"

\* What has opened a session, or is about to, opens no other one.
TokenSpent(q) ==
    session[q] # "none" \/ call[q].step = "issue" =>
        /\ call[q].method = "refresh" => session[call[q].on] = "revoked"
        /\ call[q].method = "verify_code" => call[q].on \in spent
TokensSpent == \A q \in AuthCalls : TokenSpent(q)

\* Calls that did not meet at a session or code work on it one after another ...
OneCallPerToken ==
    \A p, q \in Busy : call[p].on = call[q].on /\ call[p].on \in AuthCalls \ contested => p = q

\* ... and one of them uses it up.
OneWinner ==
    \A p, q \in AuthCalls :
        UsesUp(p) /\ UsesUp(q) /\ call[p].on = call[q].on /\ call[p].on \notin contested => p = q

\* Whoever was signed out has no call under way that could still open a session.
SignedOutStays == \A q \in signedOut : session[q] # "live" /\ call[q].step \in Finished

\* Whoever is about to count a wrong guess has seen that one is left.
TrialsCounted ==
    \A c \in AuthCalls \ contested :
        /\ trials[c] <= MaxTrials
        /\ \A q \in AuthCalls : call[q].step = "count" /\ call[q].on = c => trials[c] < MaxTrials

\* A setup or verification under way has seen no second factor, or is known to be overtaken.
SetupSeen == mfa.on => \A q \in AuthCalls : call[q].step \in {"save", "confirm"} => q \in overtaken

AccessInv ==
    /\ AuthShape /\ CallsFit /\ TokensFit /\ TokensSpent
    /\ OneCallPerToken /\ OneWinner
    /\ SignedOutStays /\ TrialsCounted
AuthInv == AccessInv /\ SetupSeen

\* The invariant says what is promised.
LEMMA AccessFollows == AccessInv => AccessIsEarned
<1> SUFFICES ASSUME AccessInv PROVE AccessIsEarned  OBVIOUS
<1>1. SignOutIsFinal  BY DEF AccessInv, SignedOutStays, SignOutIsFinal
<1>2. OneSessionPerToken
  <2> SUFFICES ASSUME NEW x \in AuthCalls \ contested
               PROVE  Cardinality({q \in AuthCalls : /\ call[q].method \in {"refresh", "verify_code"}
                                                     /\ call[q].on = x /\ session[q] # "none"}) <= 1
    BY DEF OneSessionPerToken
  <2> DEFINE S == {q \in AuthCalls : /\ call[q].method \in {"refresh", "verify_code"}
                                     /\ call[q].on = x /\ session[q] # "none"}
  <2>1. \A p, q \in S : p = q  BY DEF AccessInv, OneWinner, UsesUp
  <2>2. CASE S = {}
    <3>1. Cardinality(S) = 0  BY <2>2, FS_EmptySet, Zenon
    <3>2. QED BY <3>1
  <2>3. CASE S # {}  BY <2>3, <2>1, FS_Singleton
  <2>4. QED BY <2>2, <2>3
<1>3. TrialsAreLimited  BY DEF AccessInv, TrialsCounted, TrialsAreLimited
<1>4. QED BY <1>1, <1>2, <1>3 DEF AccessIsEarned

--------
\* Steps.

OthersPause(q) == \A p \in AuthCalls \ {q} : call'[p] = call[p]

\* A call goes on.
LEMMA CallGoesOn ==
    ASSUME AuthShape, NEW q \in AuthCalls, NEW step \in CallSteps, AuthGoes(q, step)
    PROVE  /\ call' \in [AuthCalls -> CallRecords] /\ OthersPause(q)
           /\ call'[q].step = step /\ call'[q].method = call[q].method /\ call'[q].on = call[q].on
<1>1. PICK new : new = [call[q] EXCEPT !.step = step]  OBVIOUS
<1>2. call \in [AuthCalls -> CallRecords] /\ call[q] \in CallRecords  BY DEF AuthShape
<1>3. new \in CallRecords /\ new.step = step /\ new.method = call[q].method /\ new.on = call[q].on
  BY <1>1, <1>2 DEF CallRecords
<1>4. call' = [call EXCEPT ![q] = new]  BY <1>1 DEF AuthGoes
<1> QED BY <1>2, <1>3, <1>4 DEF OthersPause

\* A call starts, and if another one is at work on what it has read, that is noted.
LEMMA CallStarts ==
    ASSUME AuthShape, NEW q \in AuthCalls, NEW method \in Methods, NEW x \in AuthCalls \cup {Nil, NoSecret},
           NEW step \in CallSteps, Starts(q, method, x, step)
    PROVE  /\ call' \in [AuthCalls -> CallRecords] /\ OthersPause(q)
           /\ call[q].step = "idle"
           /\ call'[q].step = step /\ call'[q].method = method /\ call'[q].on = x
           /\ contested \subseteq contested' /\ contested' \subseteq AuthCalls
           /\ \A p \in Busy : x \in AuthCalls /\ call[p].on = x => x \in contested'
<1>1. [step |-> step, method |-> method, on |-> x] \in CallRecords  BY DEF CallRecords
<1>2. QED BY <1>1 DEF AuthShape, Starts, OthersPause

\* A call starts that uses no session and no code.
LEMMA StartsElsewhere ==
    ASSUME AccessInv, NEW q \in AuthCalls, NEW method \in Methods \ {"refresh", "verify_code"},
           NEW x \in AuthCalls \cup {Nil, NoSecret},
           NEW step \in {"insert", "issue", "refused", "drop", "overwrite", "replace", "void", "save",
                        "confirm", "off"},
           Starts(q, method, x, step),
           step = "insert" => method \in {"register", "oauth"}, step = "issue" => method \in Issuers,
           step = "drop" => x \in AuthCalls /\ session[x] # "none",
           step = "void" => method = "send_code",
           step = "confirm" => method = "verify" /\ x \in AuthCalls \cup {NoSecret},
           session' = session, codes' = codes, spent' = spent, trials' = trials,
           signedOut' = signedOut, password' = password, mfa' = mfa
    PROVE  AccessInv'
<1> USE DEF AccessInv, OthersPause
<1>1. /\ call' \in [AuthCalls -> CallRecords] /\ OthersPause(q)
      /\ call[q].step = "idle"
      /\ call'[q].step = step /\ call'[q].method = method /\ call'[q].on = x
      /\ contested \subseteq contested' /\ contested' \subseteq AuthCalls
      /\ \A p \in Busy : x \in AuthCalls /\ call[p].on = x => x \in contested'
  <2>1. step \in CallSteps  BY DEF CallSteps
  <2>2. QED BY <2>1, CallStarts
<1>2. session[q] = "none" /\ call[q].method = Nil /\ ~IsCode(q) /\ q \notin signedOut
  BY <1>1 DEF CallsFit, CallFits, TokensFit, SignedOutStays, Finished, Nil
<1>3. AuthShape'  BY <1>1, <1>2, AuthAssumption DEF AuthShape, Finished
<1>4. CallsFit'  BY <1>1, <1>2, AuthAssumption DEF CallsFit, CallFits, AuthShape, Finished
<1>5. TokensFit'  BY <1>1, <1>2, AuthAssumption DEF TokensFit, CallsFit, CallFits, IsCode, Issuers, Finished
<1>6. TokensSpent'  BY <1>1, <1>2, AuthAssumption DEF TokensSpent, TokenSpent, CallsFit, CallFits, Finished
<1>7. OneCallPerToken'  BY <1>1, <1>2, AuthAssumption DEF OneCallPerToken, Busy, Finished
<1>8. OneWinner'  BY <1>1, <1>2, AuthAssumption DEF OneWinner, UsesUp, CallsFit, CallFits, Finished
<1>9. SignedOutStays'  BY <1>1, <1>2 DEF AuthShape, SignedOutStays
<1>10. TrialsCounted'  BY <1>1, <1>2, AuthAssumption DEF TrialsCounted, Finished
<1>11. QED BY <1>3, <1>4, <1>5, <1>6, <1>7, <1>8, <1>9, <1>10

\* A call fails at once.
LEMMA FailsToStart ==
    ASSUME AccessInv, NEW q \in AuthCalls, Starts(q, "logout_all", Nil, "failed"),
           session' = session, codes' = codes, spent' = spent, trials' = trials,
           signedOut' = signedOut, password' = password, mfa' = mfa
    PROVE  AccessInv'
<1> USE DEF AccessInv, OthersPause
<1>1. /\ call' \in [AuthCalls -> CallRecords] /\ OthersPause(q)
      /\ call[q].step = "idle"
      /\ call'[q].step = "failed" /\ call'[q].method = "logout_all" /\ call'[q].on = Nil
      /\ contested \subseteq contested' /\ contested' \subseteq AuthCalls  BY CallStarts DEF CallSteps, Methods
<1>2. session[q] = "none" /\ call[q].method = Nil /\ ~IsCode(q) /\ q \notin signedOut
  BY <1>1 DEF CallsFit, CallFits, TokensFit, SignedOutStays, Finished, Nil
<1>3. AuthShape'  BY <1>1, <1>2, AuthAssumption DEF AuthShape, Finished
<1>4. CallsFit'
  <2> SUFFICES ASSUME NEW p \in AuthCalls PROVE CallFits(p)'  BY DEF CallsFit
  <2>1. CASE p = q  BY <1>1, <1>2, <2>1, AuthAssumption DEF CallsFit, CallFits, AuthShape, Finished
  <2>2. CASE p # q  BY <1>1, <1>2, <2>2 DEF CallsFit, CallFits
  <2>3. QED BY <2>1, <2>2
<1>5. TokensFit'  BY <1>1, <1>2, AuthAssumption DEF TokensFit, CallsFit, CallFits, IsCode, Issuers, Finished
<1>6. TokensSpent'  BY <1>1, <1>2, AuthAssumption DEF TokensSpent, TokenSpent, CallsFit, CallFits, Finished
<1>7. OneCallPerToken'  BY <1>1, <1>2, AuthAssumption DEF OneCallPerToken, Busy, Finished
<1>8. OneWinner'  BY <1>1, <1>2, AuthAssumption DEF OneWinner, UsesUp, CallsFit, CallFits, Finished
<1>9. SignedOutStays'  BY <1>1, <1>2 DEF AuthShape, SignedOutStays
<1>10. TrialsCounted'  BY <1>1, <1>2, AuthAssumption DEF TrialsCounted, Finished
<1>11. QED BY <1>3, <1>4, <1>5, <1>6, <1>7, <1>8, <1>9, <1>10

\* A call goes on, or ends, without touching a session or code.
LEMMA GoesOnElsewhere ==
    ASSUME AccessInv, NEW q \in Busy, NEW step \in Finished \cup {"issue", "sweep", "mint"}, AuthGoes(q, step),
           step = "issue" => call[q].method \in Issuers \ {"refresh", "verify_code"},
           step = "mint" => call[q].method = "send_code",
           session' = session, codes' = codes, spent' = spent, trials' = trials,
           signedOut' = signedOut, contested' = contested,
           password' \in AuthCalls \cup {Nil}, mfa' \in [on : BOOLEAN, secret : AuthCalls \cup {Nil, NoSecret}]
    PROVE  AccessInv'
<1> USE DEF AccessInv, OthersPause
<1>1. /\ call' \in [AuthCalls -> CallRecords] /\ OthersPause(q) /\ q \in AuthCalls
      /\ call'[q].step = step /\ call'[q].method = call[q].method /\ call'[q].on = call[q].on
  BY CallGoesOn DEF CallSteps, Finished, Busy
<1>2. session[q] = "none" /\ q \notin signedOut /\ call[q].step \notin Finished \cup {"idle"}
  BY <1>1 DEF CallsFit, CallFits, SignedOutStays, Busy, Finished
<1>3. \A p \in signedOut : p \in AuthCalls /\ p # q /\ call'[p] = call[p]  BY <1>1, <1>2 DEF AuthShape
<1>4. AuthShape'  BY <1>1, <1>2, <1>3, AuthAssumption DEF AuthShape, Finished
<1>5. CallsFit'
  <2> SUFFICES ASSUME NEW p \in AuthCalls PROVE CallFits(p)'  BY DEF CallsFit
  <2>1. CASE p = q  BY <1>1, <1>2, <1>3, <2>1, AuthAssumption DEF CallsFit, CallFits, AuthShape, Finished
  <2>2. CASE p # q  BY <1>1, <1>2, <1>3, <2>2 DEF CallsFit, CallFits
  <2>3. QED BY <2>1, <2>2
<1>6. TokensFit'
  BY <1>1, <1>2, <1>3, AuthAssumption DEF TokensFit, CallsFit, CallFits, IsCode, Issuers,
     Finished
<1>7. TokensSpent'
  BY <1>1, <1>2, <1>3, AuthAssumption DEF TokensSpent, TokenSpent, CallsFit, CallFits, Finished
<1>8. OneCallPerToken'  BY <1>1, <1>2, <1>3, AuthAssumption DEF OneCallPerToken, Busy, Finished
<1>9. OneWinner'  BY <1>1, <1>2, <1>3, AuthAssumption DEF OneWinner, UsesUp, CallsFit, CallFits, Finished
<1>10. SignedOutStays'  BY <1>3 DEF SignedOutStays
<1>11. TrialsCounted'  BY <1>1, <1>2, <1>3, AuthAssumption DEF TrialsCounted, Finished
<1>12. QED BY <1>4, <1>5, <1>6, <1>7, <1>8, <1>9, <1>10, <1>11

\* IssueTokenPair: the session of a call that was not signed out.
LEMMA IssueKeeps ==
    ASSUME AccessInv, NEW q \in AuthCalls, call[q].step = "issue", AuthGoes(q, "ok"),
           session' = [session EXCEPT ![q] = "live"],
           codes' = codes, spent' = spent, trials' = trials, signedOut' = signedOut,
           contested' = contested, password' = password, mfa' = mfa
    PROVE  AccessInv'
<1> USE DEF AccessInv, OthersPause
<1>1. /\ call' \in [AuthCalls -> CallRecords] /\ OthersPause(q)
      /\ call'[q].step = "ok" /\ call'[q].method = call[q].method /\ call'[q].on = call[q].on
  <2>1. "ok" \in CallSteps  BY DEF CallSteps
  <2>2. QED BY <2>1, CallGoesOn
<1>2. session[q] = "none" /\ q \notin signedOut /\ call[q].method \in Issuers
  BY DEF CallsFit, CallFits, SignedOutStays, Finished
<1>3. session' \in [AuthCalls -> {"none", "live", "revoked"}] /\ session'[q] = "live" /\ \A p \in AuthCalls \ {q} : session'[p] = session[p]
  BY DEF AuthShape
<1>4. \A p \in AuthCalls : session[p] # "none" => session'[p] = session[p]  BY <1>2, <1>3
<1>5. AuthShape'  BY <1>1, <1>2, <1>3, <1>4, AuthAssumption DEF AuthShape, Finished
<1>6. CallsFit'  BY <1>1, <1>2, <1>3, <1>4, AuthAssumption DEF CallsFit, CallFits, AuthShape, Finished
<1>7. TokensFit'
  BY <1>1, <1>2, <1>3, <1>4, AuthAssumption DEF TokensFit, CallsFit, CallFits, IsCode,
     Issuers, Finished
<1>8. TokensSpent'
  BY <1>1, <1>2, <1>3, <1>4, AuthAssumption DEF TokensSpent, TokenSpent, CallsFit, CallFits, Finished
<1>9. OneCallPerToken'  BY <1>1, <1>2, <1>3, <1>4, AuthAssumption DEF OneCallPerToken, Busy, Finished
<1>10. OneWinner'
  BY <1>1, <1>2, <1>3, <1>4, AuthAssumption DEF OneWinner, UsesUp, CallsFit, CallFits,
     Finished
<1>11. SignedOutStays'
  BY <1>1, <1>2, <1>3, <1>4, AuthAssumption DEF SignedOutStays, Finished, CallsFit,
     CallFits, AuthShape
<1>12. TrialsCounted'  BY <1>1, <1>2, <1>3, <1>4, AuthAssumption DEF TrialsCounted, Finished
<1>13. QED BY <1>5, <1>6, <1>7, <1>8, <1>9, <1>10, <1>11, <1>12

\* RevokeOldSession: the session a refresh has read is over.
LEMMA RevokeOldKeeps ==
    ASSUME AccessInv, NEW q \in AuthCalls, call[q].step = "revoke", AuthGoes(q, "issue"),
           session' = [session EXCEPT ![call[q].on] = "revoked"],
           codes' = codes, spent' = spent, trials' = trials, signedOut' = signedOut,
           contested' = contested, password' = password, mfa' = mfa
    PROVE  AccessInv'
<1> USE DEF AccessInv, OthersPause
<1>1. /\ call' \in [AuthCalls -> CallRecords] /\ OthersPause(q)
      /\ call'[q].step = "issue" /\ call'[q].method = call[q].method /\ call'[q].on = call[q].on
  <2>1. "issue" \in CallSteps  BY DEF CallSteps
  <2>2. QED BY <2>1, CallGoesOn
<1>2. session[q] = "none" /\ q \notin signedOut /\ call[q].method = "refresh" /\ call[q].on \in AuthCalls /\ session[call[q].on] # "none"
  BY DEF CallsFit, CallFits, SignedOutStays, Finished, TokensFit
<1>3. /\ session' \in [AuthCalls -> {"none", "live", "revoked"}] /\ session'[call[q].on] = "revoked"
      /\ \A p \in AuthCalls \ {call[q].on} : session'[p] = session[p]
  BY <1>2 DEF AuthShape
<1>4. \A p \in AuthCalls : (session'[p] # "none" <=> session[p] # "none") /\ (session'[p] # session[p] => session'[p] = "revoked")
  BY <1>2, <1>3
<1>5. AuthShape'  BY <1>1, <1>2, <1>3, <1>4, AuthAssumption DEF AuthShape, Finished
<1>6. CallsFit'
  <2> SUFFICES ASSUME NEW p \in AuthCalls PROVE CallFits(p)'  BY DEF CallsFit
  <2>1. CASE p = q
    BY <1>1, <1>2, <1>3, <1>4, <2>1, AuthAssumption DEF CallsFit, CallFits, AuthShape,
       Finished, Issuers
  <2>2. CASE p # q  BY <1>1, <1>2, <1>3, <1>4, <2>2 DEF CallsFit, CallFits
  <2>3. QED BY <2>1, <2>2
<1>7. TokensFit'
  BY <1>1, <1>2, <1>3, <1>4, AuthAssumption DEF TokensFit, CallsFit, CallFits, IsCode,
     Issuers, Finished
<1>8. TokensSpent'
  BY <1>1, <1>2, <1>3, <1>4, AuthAssumption DEF TokensSpent, TokenSpent, CallsFit, CallFits, Finished
<1>9. OneCallPerToken'  BY <1>1, <1>2, <1>3, <1>4, AuthAssumption DEF OneCallPerToken, Busy, Finished
<1>10. OneWinner'
  BY <1>1, <1>2, <1>3, <1>4, AuthAssumption DEF OneWinner, UsesUp, CallsFit, CallFits,
     Finished
<1>11. SignedOutStays'  BY <1>1, <1>2, <1>4 DEF AuthShape, SignedOutStays
<1>12. TrialsCounted'  BY <1>1, <1>2, <1>3, <1>4, AuthAssumption DEF TrialsCounted, Finished
<1>13. QED BY <1>5, <1>6, <1>7, <1>8, <1>9, <1>10, <1>11, <1>12

\* RevokeSession: a session that was read is over.
LEMMA RevokeKeeps ==
    ASSUME AccessInv, NEW q \in AuthCalls, call[q].step = "drop", AuthGoes(q, "ok"),
           session' = [session EXCEPT ![call[q].on] = "revoked"],
           codes' = codes, spent' = spent, trials' = trials, signedOut' = signedOut,
           contested' = contested, password' = password, mfa' = mfa
    PROVE  AccessInv'
<1> USE DEF AccessInv, OthersPause
<1>1. /\ call' \in [AuthCalls -> CallRecords] /\ OthersPause(q)
      /\ call'[q].step = "ok" /\ call'[q].method = call[q].method /\ call'[q].on = call[q].on
  <2>1. "ok" \in CallSteps  BY DEF CallSteps
  <2>2. QED BY <2>1, CallGoesOn
<1>2. session[q] = "none" /\ q \notin signedOut /\ call[q].on \in AuthCalls /\ session[call[q].on] # "none"
  BY DEF CallsFit, CallFits, SignedOutStays, Finished, TokensFit
<1>3. /\ session' \in [AuthCalls -> {"none", "live", "revoked"}] /\ session'[call[q].on] = "revoked"
      /\ \A p \in AuthCalls \ {call[q].on} : session'[p] = session[p]
  BY <1>2 DEF AuthShape
<1>4. \A p \in AuthCalls : (session'[p] # "none" <=> session[p] # "none") /\ (session'[p] # session[p] => session'[p] = "revoked")
  BY <1>2, <1>3
<1>5. AuthShape'  BY <1>1, <1>2, <1>3, <1>4, AuthAssumption DEF AuthShape, Finished
<1>6. CallsFit'
  <2> SUFFICES ASSUME NEW p \in AuthCalls PROVE CallFits(p)'  BY DEF CallsFit
  <2>1. CASE p = q
    BY <1>1, <1>2, <1>3, <1>4, <2>1, AuthAssumption DEF CallsFit, CallFits, AuthShape,
       Finished
  <2>2. CASE p # q  BY <1>1, <1>2, <1>3, <1>4, <2>2 DEF CallsFit, CallFits
  <2>3. QED BY <2>1, <2>2
<1>7. TokensFit'
  BY <1>1, <1>2, <1>3, <1>4, AuthAssumption DEF TokensFit, CallsFit, CallFits, IsCode,
     Issuers, Finished
<1>8. TokensSpent'
  BY <1>1, <1>2, <1>3, <1>4, AuthAssumption DEF TokensSpent, TokenSpent, CallsFit, CallFits, Finished
<1>9. OneCallPerToken'  BY <1>1, <1>2, <1>3, <1>4, AuthAssumption DEF OneCallPerToken, Busy, Finished
<1>10. OneWinner'
  BY <1>1, <1>2, <1>3, <1>4, AuthAssumption DEF OneWinner, UsesUp, CallsFit, CallFits,
     Finished
<1>11. SignedOutStays'  BY <1>1, <1>2, <1>4 DEF AuthShape, SignedOutStays
<1>12. TrialsCounted'  BY <1>1, <1>2, <1>3, <1>4, AuthAssumption DEF TrialsCounted, Finished
<1>13. QED BY <1>5, <1>6, <1>7, <1>8, <1>9, <1>10, <1>11, <1>12

\* SweepSessions: whoever is in is signed out.
LEMMA SweepKeeps ==
    ASSUME AccessInv, NEW q \in AuthCalls, call[q].step = "sweep", AuthGoes(q, "ok"), RevokeAllUserSessions,
           signedOut' = signedOut \cup Over,
           codes' = codes, spent' = spent, trials' = trials, contested' = contested,
           password' = password, mfa' = mfa
    PROVE  AccessInv'
<1> USE DEF AccessInv, OthersPause
<1>1. /\ call' \in [AuthCalls -> CallRecords] /\ OthersPause(q)
      /\ call'[q].step = "ok" /\ call'[q].method = call[q].method /\ call'[q].on = call[q].on
  <2>1. "ok" \in CallSteps  BY DEF CallSteps
  <2>2. QED BY <2>1, CallGoesOn
<1>2. session[q] = "none"  BY DEF CallsFit, CallFits
<1>3. /\ session' \in [AuthCalls -> {"none", "live", "revoked"}]
      /\ \A p \in AuthCalls : /\ session'[p] # "none" <=> session[p] # "none"
                              /\ session'[p] # "live" /\ (session[p] = "revoked" => session'[p] = "revoked")
  BY DEF AuthShape, RevokeAllUserSessions
<1>4. signedOut' \subseteq AuthCalls /\ \A p \in signedOut' : call[p].step \in Finished
  BY DEF AuthShape, SignedOutStays, Over
<1>5. AuthShape'  BY <1>1, <1>2, <1>3, <1>4, AuthAssumption DEF AuthShape, Finished
<1>6. CallsFit'  BY <1>1, <1>2, <1>3, <1>4, AuthAssumption DEF CallsFit, CallFits, AuthShape, Finished
<1>7. TokensFit'
  BY <1>1, <1>2, <1>3, <1>4, AuthAssumption DEF TokensFit, CallsFit, CallFits, IsCode,
     Issuers, Finished
<1>8. TokensSpent'  BY <1>1, <1>2, <1>3 DEF TokensSpent, TokenSpent, TokensFit, CallsFit, CallFits
<1>9. OneCallPerToken'  BY <1>1, <1>2, <1>3, <1>4, AuthAssumption DEF OneCallPerToken, Busy, Finished
<1>10. OneWinner'
  BY <1>1, <1>2, <1>3, <1>4, AuthAssumption DEF OneWinner, UsesUp, CallsFit, CallFits,
     Finished
<1>11. SignedOutStays'  BY <1>3, <1>4, <1>1 DEF SignedOutStays, Finished
<1>12. TrialsCounted'  BY <1>1, <1>2, <1>3, <1>4, AuthAssumption DEF TrialsCounted, Finished
<1>13. QED BY <1>5, <1>6, <1>7, <1>8, <1>9, <1>10, <1>11, <1>12

\* LogoutAll: whoever is in is signed out.
LEMMA EveryoneOutKeeps ==
    ASSUME AccessInv, NEW q \in AuthCalls, Starts(q, "logout_all", Nil, "ok"), RevokeAllUserSessions,
           signedOut' = signedOut \cup Over,
           codes' = codes, spent' = spent, trials' = trials, password' = password,
           mfa' = mfa
    PROVE  AccessInv'
<1> USE DEF AccessInv, OthersPause
<1>1. /\ call' \in [AuthCalls -> CallRecords] /\ OthersPause(q)
      /\ call[q].step = "idle"
      /\ call'[q].step = "ok" /\ call'[q].method = "logout_all" /\ call'[q].on = Nil
      /\ contested \subseteq contested' /\ contested' \subseteq AuthCalls
      /\ \A p \in Busy : Nil \in AuthCalls /\ call[p].on = Nil => Nil \in contested'
  BY CallStarts DEF CallSteps, Methods
<1>2. session[q] = "none" /\ call[q].method = Nil /\ ~IsCode(q) /\ q \notin signedOut
  BY <1>1 DEF CallsFit, CallFits, TokensFit, SignedOutStays, Finished, Nil
<1>3. /\ session' \in [AuthCalls -> {"none", "live", "revoked"}]
      /\ \A p \in AuthCalls : /\ session'[p] # "none" <=> session[p] # "none"
                              /\ session'[p] # "live" /\ (session[p] = "revoked" => session'[p] = "revoked")
  BY DEF AuthShape, RevokeAllUserSessions
<1>4. signedOut' \subseteq AuthCalls /\ \A p \in signedOut' : call[p].step \in Finished
  BY DEF AuthShape, SignedOutStays, Over
<1>5. AuthShape'  BY <1>1, <1>2, <1>3, <1>4, AuthAssumption DEF AuthShape, Finished
<1>6. CallsFit'
  <2> SUFFICES ASSUME NEW p \in AuthCalls PROVE CallFits(p)'  BY DEF CallsFit
  <2>1. CASE p = q
    BY <1>1, <1>2, <1>3, <1>4, <2>1, AuthAssumption DEF CallsFit, CallFits, AuthShape,
       Finished
  <2>2. CASE p # q  BY <1>1, <1>2, <1>3, <1>4, <2>2 DEF CallsFit, CallFits
  <2>3. QED BY <2>1, <2>2
<1>7. TokensFit'
  BY <1>1, <1>2, <1>3, <1>4, AuthAssumption DEF TokensFit, CallsFit, CallFits, IsCode,
     Issuers, Finished
<1>8. TokensSpent'  BY <1>1, <1>2, <1>3 DEF TokensSpent, TokenSpent, TokensFit, CallsFit, CallFits
<1>9. OneCallPerToken'  BY <1>1, <1>2, <1>3, <1>4, AuthAssumption DEF OneCallPerToken, Busy, Finished
<1>10. OneWinner'
  BY <1>1, <1>2, <1>3, <1>4, AuthAssumption DEF OneWinner, UsesUp, CallsFit, CallFits,
     Finished
<1>11. SignedOutStays'  BY <1>3, <1>4, <1>1 DEF SignedOutStays, Finished
<1>12. TrialsCounted'  BY <1>1, <1>2, <1>3, <1>4, AuthAssumption DEF TrialsCounted, Finished
<1>13. QED BY <1>5, <1>6, <1>7, <1>8, <1>9, <1>10, <1>11, <1>12

\* RefreshToken: a live session has opened no other one, and none that was signed out is live.
LEMMA RefreshKeeps ==
    ASSUME AccessInv, NEW q \in AuthCalls, NEW x \in AuthCalls, session[x] # "none",
           Starts(q, "refresh", x, IF session[x] = "live" THEN "revoke" ELSE "refused"),
           signedOut' = IF x \in signedOut THEN signedOut \cup {q} ELSE signedOut,
           session' = session, codes' = codes, spent' = spent, trials' = trials,
           password' = password, mfa' = mfa
    PROVE  AccessInv'
<1> USE DEF AccessInv, OthersPause
<1>1. /\ call' \in [AuthCalls -> CallRecords] /\ OthersPause(q)
      /\ call[q].step = "idle"
      /\ call'[q].step = (IF session[x] = "live" THEN "revoke" ELSE "refused") /\ call'[q].method = "refresh" /\ call'[q].on = x
      /\ contested \subseteq contested' /\ contested' \subseteq AuthCalls
      /\ \A p \in Busy : x \in AuthCalls /\ call[p].on = x => x \in contested'
  <2> DEFINE first == IF session[x] = "live" THEN "revoke" ELSE "refused"
  <2>1. first \in CallSteps /\ "refresh" \in Methods  BY DEF CallSteps, Methods
  <2> HIDE DEF first
  <2>2. Starts(q, "refresh", x, first)  BY DEF first
  <2>3. /\ call' \in [AuthCalls -> CallRecords] /\ OthersPause(q)
        /\ call[q].step = "idle"
        /\ call'[q].step = first /\ call'[q].method = "refresh" /\ call'[q].on = x
        /\ contested \subseteq contested' /\ contested' \subseteq AuthCalls
        /\ \A p \in Busy : x \in AuthCalls /\ call[p].on = x => x \in contested'
    BY <2>1, <2>2, CallStarts
  <2>4. QED BY <2>3 DEF first
<1>2. session[q] = "none" /\ call[q].method = Nil /\ ~IsCode(q) /\ q \notin signedOut
  BY <1>1 DEF CallsFit, CallFits, TokensFit, SignedOutStays, Finished, Nil
<1>3. x # Nil /\ ~IsCode(x) /\ (x \in signedOut => session[x] # "live")
  BY AuthAssumption DEF CallsFit, CallFits, TokensFit, Issuers, SignedOutStays
<1>4. signedOut' \subseteq AuthCalls /\ \A p \in signedOut' : session[p] # "live" /\ call'[p].step \in Finished
  BY <1>1, <1>2, <1>3 DEF AuthShape, SignedOutStays, Finished
<1>5. \A p \in AuthCalls : UsesUp(p) /\ call[p].on = x /\ session[x] = "live" => x \in contested'
  BY <1>3, <1>1 DEF UsesUp, TokensFit, TokensSpent, TokenSpent, Busy, Finished
<1>6. AuthShape'  BY <1>1, <1>2, <1>3, <1>4, <1>5, AuthAssumption DEF AuthShape, Finished
<1>7. CallsFit'  BY <1>1, <1>2, <1>3, <1>4, <1>5, AuthAssumption DEF CallsFit, CallFits, AuthShape, Finished
<1>8. TokensFit'
  BY <1>1, <1>2, <1>3, <1>4, <1>5, AuthAssumption DEF TokensFit, CallsFit, CallFits, IsCode,
     Issuers, Finished
<1>9. TokensSpent'
  BY <1>1, <1>2, <1>3, <1>4, <1>5, AuthAssumption DEF TokensSpent, TokenSpent, CallsFit, CallFits, Finished
<1>10. OneCallPerToken'  BY <1>1, <1>2, <1>3, <1>4, <1>5, AuthAssumption DEF OneCallPerToken, Busy, Finished
<1>11. OneWinner'
  BY <1>1, <1>2, <1>3, <1>4, <1>5, AuthAssumption DEF OneWinner, UsesUp, CallsFit, CallFits,
     Finished
<1>12. SignedOutStays'  BY <1>4 DEF SignedOutStays
<1>13. TrialsCounted'  BY <1>1, <1>2, <1>3, <1>4, <1>5, AuthAssumption DEF TrialsCounted, Finished
<1>14. QED BY <1>6, <1>7, <1>8, <1>9, <1>10, <1>11, <1>12, <1>13

\* CheckCode: an active code has opened no session.
LEMMA ActiveCodeKeeps ==
    ASSUME AccessInv, NEW q \in AuthCalls, NEW x \in AuthCalls, IsActiveCode(x), NEW verdict \in {"use", "count"},
           Starts(q, "verify_code", x, IF TrialsLeft(x) THEN verdict ELSE "refused"),
           session' = session, codes' = codes, spent' = spent, trials' = trials,
           signedOut' = signedOut, password' = password, mfa' = mfa
    PROVE  AccessInv'
<1> USE DEF AccessInv, OthersPause
<1>1. /\ call' \in [AuthCalls -> CallRecords] /\ OthersPause(q)
      /\ call[q].step = "idle"
      /\ call'[q].step = (IF TrialsLeft(x) THEN verdict ELSE "refused") /\ call'[q].method = "verify_code" /\ call'[q].on = x
      /\ contested \subseteq contested' /\ contested' \subseteq AuthCalls
      /\ \A p \in Busy : x \in AuthCalls /\ call[p].on = x => x \in contested'
  <2> DEFINE first == IF TrialsLeft(x) THEN verdict ELSE "refused"
  <2>1. first \in CallSteps /\ "verify_code" \in Methods  BY DEF CallSteps, Methods
  <2> HIDE DEF first
  <2>2. Starts(q, "verify_code", x, first)  BY DEF first
  <2>3. /\ call' \in [AuthCalls -> CallRecords] /\ OthersPause(q)
        /\ call[q].step = "idle"
        /\ call'[q].step = first /\ call'[q].method = "verify_code" /\ call'[q].on = x
        /\ contested \subseteq contested' /\ contested' \subseteq AuthCalls
        /\ \A p \in Busy : x \in AuthCalls /\ call[p].on = x => x \in contested'
    BY <2>1, <2>2, CallStarts
  <2>4. QED BY <2>3 DEF first
<1>2. session[q] = "none" /\ call[q].method = Nil /\ ~IsCode(q) /\ q \notin signedOut
  BY <1>1 DEF CallsFit, CallFits, TokensFit, SignedOutStays, Finished, Nil
<1>3. x # Nil /\ IsCode(x) /\ x \notin spent /\ session[x] = "none"
  <2>1. IsCode(x) /\ x \notin spent  BY DEF IsActiveCode, Unspent, IsCode
  <2>2. QED BY <2>1, AuthAssumption DEF CallsFit, CallFits, TokensFit, Issuers
<1>4. \A p \in AuthCalls : UsesUp(p) /\ call[p].on = x => x \in contested'
  BY <1>3, <1>1 DEF UsesUp, TokensFit, TokensSpent, TokenSpent, Busy, Finished
<1>5. TrialsLeft(x) => trials[x] < MaxTrials  BY DEF TrialsLeft
<1>6. AuthShape'  BY <1>1, <1>2, <1>3, <1>4, <1>5, AuthAssumption DEF AuthShape, Finished
<1>7. CallsFit'
  <2> SUFFICES ASSUME NEW p \in AuthCalls PROVE CallFits(p)'  BY DEF CallsFit
  <2>1. call'[q].step \in {"use", "count", "refused"}  BY <1>1
  <2>2. CASE p = q  BY <1>1, <1>2, <2>1, <2>2 DEF CallsFit, CallFits, Finished
  <2>3. CASE p # q  BY <1>1, <1>2, <2>3 DEF CallsFit, CallFits
  <2>4. QED BY <2>2, <2>3
<1>8. TokensFit'
  BY <1>1, <1>2, <1>3, <1>4, <1>5, AuthAssumption DEF TokensFit, CallsFit, CallFits, IsCode,
     Issuers, Finished
<1>9. TokensSpent'
  BY <1>1, <1>2, <1>3, <1>4, <1>5, AuthAssumption DEF TokensSpent, TokenSpent, CallsFit, CallFits, Finished
<1>10. OneCallPerToken'  BY <1>1, <1>2, <1>3, <1>4, <1>5, AuthAssumption DEF OneCallPerToken, Busy, Finished
<1>11. OneWinner'
  BY <1>1, <1>2, <1>3, <1>4, <1>5, AuthAssumption DEF OneWinner, UsesUp, CallsFit, CallFits,
     Finished
<1>12. SignedOutStays'  BY <1>1, <1>2 DEF AuthShape, SignedOutStays
<1>13. TrialsCounted'  BY <1>1, <1>2, <1>3, <1>4, <1>5, AuthAssumption DEF TrialsCounted, Finished
<1>14. QED BY <1>6, <1>7, <1>8, <1>9, <1>10, <1>11, <1>12, <1>13

\* InvalidateCodes: more codes are spent.
LEMMA VoidKeeps ==
    ASSUME AccessInv, NEW q \in AuthCalls, call[q].step = "void", AuthGoes(q, "mint"),
           spent' = spent \cup {codes[i] : i \in DOMAIN codes},
           session' = session, codes' = codes, trials' = trials, signedOut' = signedOut,
           contested' = contested, password' = password, mfa' = mfa
    PROVE  AccessInv'
<1> USE DEF AccessInv, OthersPause
<1>1. /\ call' \in [AuthCalls -> CallRecords] /\ OthersPause(q)
      /\ call'[q].step = "mint" /\ call'[q].method = call[q].method /\ call'[q].on = call[q].on
  <2>1. "mint" \in CallSteps  BY DEF CallSteps
  <2>2. QED BY <2>1, CallGoesOn
<1>2. session[q] = "none" /\ q \notin signedOut /\ call[q].method = "send_code"
  BY DEF CallsFit, CallFits, SignedOutStays, Finished
<1>3. spent \subseteq spent' /\ spent' \subseteq AuthCalls  BY DEF AuthShape
<1>4. AuthShape'  BY <1>1, <1>2, <1>3, AuthAssumption DEF AuthShape, Finished
<1>5. CallsFit'
  <2> SUFFICES ASSUME NEW p \in AuthCalls PROVE CallFits(p)'  BY DEF CallsFit
  <2>1. CASE p = q  BY <1>1, <1>2, <1>3, <2>1, AuthAssumption DEF CallsFit, CallFits, AuthShape, Finished
  <2>2. CASE p # q  BY <1>1, <1>2, <1>3, <2>2 DEF CallsFit, CallFits
  <2>3. QED BY <2>1, <2>2
<1>6. TokensFit'
  BY <1>1, <1>2, <1>3, AuthAssumption DEF TokensFit, CallsFit, CallFits, IsCode, Issuers,
     Finished
<1>7. TokensSpent'
  BY <1>1, <1>2, <1>3, AuthAssumption DEF TokensSpent, TokenSpent, CallsFit, CallFits, Finished
<1>8. OneCallPerToken'  BY <1>1, <1>2, <1>3, AuthAssumption DEF OneCallPerToken, Busy, Finished
<1>9. OneWinner'  BY <1>1, <1>2, <1>3, AuthAssumption DEF OneWinner, UsesUp, CallsFit, CallFits, Finished
<1>10. SignedOutStays'  BY <1>1, <1>2 DEF AuthShape, SignedOutStays
<1>11. TrialsCounted'  BY <1>1, <1>2, <1>3, AuthAssumption DEF TrialsCounted, Finished
<1>12. QED BY <1>4, <1>5, <1>6, <1>7, <1>8, <1>9, <1>10, <1>11

\* CreateCode: the code is the call's own.
LEMMA MintKeeps ==
    ASSUME AccessInv, NEW q \in AuthCalls, call[q].step = "mint", AuthGoes(q, "ok"), codes' = Append(codes, q),
           session' = session, spent' = spent, trials' = trials, signedOut' = signedOut,
           contested' = contested, password' = password, mfa' = mfa
    PROVE  AccessInv'
<1> USE DEF AccessInv, OthersPause
<1>1. /\ call' \in [AuthCalls -> CallRecords] /\ OthersPause(q)
      /\ call'[q].step = "ok" /\ call'[q].method = call[q].method /\ call'[q].on = call[q].on
  <2>1. "ok" \in CallSteps  BY DEF CallSteps
  <2>2. QED BY <2>1, CallGoesOn
<1>2. session[q] = "none" /\ q \notin signedOut /\ call[q].method = "send_code"
  BY DEF CallsFit, CallFits, SignedOutStays, Finished
<1>3. codes' \in Seq(AuthCalls) /\ \A c \in AuthCalls : IsCode(c)' <=> IsCode(c) \/ c = q
  <2>1. codes \in Seq(AuthCalls)  BY DEF AuthShape
  <2>2. codes' \in Seq(AuthCalls) /\ DOMAIN codes' = 1..Len(codes) + 1 /\ DOMAIN codes = 1..Len(codes) /\ Len(codes) \in Nat
    BY <2>1
  <2>3. codes'[Len(codes) + 1] = q /\ \A i \in 1..Len(codes) : codes'[i] = codes[i]  BY <2>1
  <2>4. QED BY <2>2, <2>3 DEF IsCode
<1>4. AuthShape'  BY <1>1, <1>2, <1>3, AuthAssumption DEF AuthShape, Finished
<1>5. CallsFit'
  <2> SUFFICES ASSUME NEW p \in AuthCalls PROVE CallFits(p)'  BY DEF CallsFit
  <2>1. CASE p = q  BY <1>1, <1>2, <1>3, <2>1, AuthAssumption DEF CallsFit, CallFits, AuthShape, Finished
  <2>2. CASE p # q  BY <1>1, <1>2, <1>3, <2>2 DEF CallsFit, CallFits
  <2>3. QED BY <2>1, <2>2
<1>6. TokensFit'  BY <1>1, <1>2, <1>3 DEF TokensFit
<1>7. TokensSpent'
  BY <1>1, <1>2, <1>3, AuthAssumption DEF TokensSpent, TokenSpent, CallsFit, CallFits, Finished
<1>8. OneCallPerToken'  BY <1>1, <1>2, <1>3, AuthAssumption DEF OneCallPerToken, Busy, Finished
<1>9. OneWinner'  BY <1>1, <1>2, <1>3, AuthAssumption DEF OneWinner, UsesUp, CallsFit, CallFits, Finished
<1>10. SignedOutStays'  BY <1>1, <1>2 DEF AuthShape, SignedOutStays
<1>11. TrialsCounted'  BY <1>1, <1>2, <1>3, AuthAssumption DEF TrialsCounted, Finished
<1>12. QED BY <1>4, <1>5, <1>6, <1>7, <1>8, <1>9, <1>10, <1>11

\* CountTrial: nobody else is counting a guess at the code.
LEMMA CountKeeps ==
    ASSUME AccessInv, NEW q \in AuthCalls, call[q].step = "count", AuthGoes(q, "refused"),
           trials' = [trials EXCEPT ![call[q].on] = trials[call[q].on] + 1],
           session' = session, codes' = codes, spent' = spent, signedOut' = signedOut,
           contested' = contested, password' = password, mfa' = mfa
    PROVE  AccessInv'
<1> USE DEF AccessInv, OthersPause
<1>1. /\ call' \in [AuthCalls -> CallRecords] /\ OthersPause(q)
      /\ call'[q].step = "refused" /\ call'[q].method = call[q].method /\ call'[q].on = call[q].on
  <2>1. "refused" \in CallSteps  BY DEF CallSteps
  <2>2. QED BY <2>1, CallGoesOn
<1>2. session[q] = "none" /\ q \notin signedOut /\ call[q].on \in AuthCalls
  BY DEF CallsFit, CallFits, SignedOutStays, Finished, TokensFit
<1>3. trials' \in [AuthCalls -> Nat] /\ trials'[call[q].on] = trials[call[q].on] + 1
      /\ \A c \in AuthCalls \ {call[q].on} : trials'[c] = trials[c]
  BY <1>2 DEF AuthShape
<1>4. AuthShape'  BY <1>1, <1>2, <1>3, AuthAssumption DEF AuthShape, Finished
<1>5. CallsFit'
  <2> SUFFICES ASSUME NEW p \in AuthCalls PROVE CallFits(p)'  BY DEF CallsFit
  <2>1. CASE p = q  BY <1>1, <1>2, <1>3, <2>1, AuthAssumption DEF CallsFit, CallFits, AuthShape, Finished
  <2>2. CASE p # q  BY <1>1, <1>2, <1>3, <2>2 DEF CallsFit, CallFits
  <2>3. QED BY <2>1, <2>2
<1>6. TokensFit'
  BY <1>1, <1>2, <1>3, AuthAssumption DEF TokensFit, CallsFit, CallFits, IsCode, Issuers,
     Finished
<1>7. TokensSpent'
  BY <1>1, <1>2, <1>3, AuthAssumption DEF TokensSpent, TokenSpent, CallsFit, CallFits, Finished
<1>8. OneCallPerToken'  BY <1>1, <1>2, <1>3, AuthAssumption DEF OneCallPerToken, Busy, Finished
<1>9. OneWinner'  BY <1>1, <1>2, <1>3, AuthAssumption DEF OneWinner, UsesUp, CallsFit, CallFits, Finished
<1>10. SignedOutStays'  BY <1>1, <1>2 DEF AuthShape, SignedOutStays
<1>11. TrialsCounted'
  <2> SUFFICES ASSUME NEW c \in AuthCalls \ contested
               PROVE  /\ trials'[c] <= MaxTrials
                      /\ \A p \in AuthCalls : call'[p].step = "count" /\ call'[p].on = c => trials'[c] < MaxTrials
    BY DEF TrialsCounted
  <2>1. CASE c = call[q].on
    <3>1. trials[c] < MaxTrials /\ trials[c] \in Nat  BY <2>1 DEF TrialsCounted, AuthShape
    <3>2. \A p \in AuthCalls : call'[p].step = "count" /\ call'[p].on = c => p = q
      BY <1>1, <2>1 DEF OneCallPerToken, Busy, Finished
    <3>3. QED BY <1>1, <1>3, <2>1, <3>1, <3>2, AuthAssumption
  <2>2. CASE c # call[q].on
    <3>1. trials'[c] = trials[c]  BY <1>3, <2>2
    <3>2. QED BY <1>1, <3>1 DEF TrialsCounted
  <2>3. QED BY <2>1, <2>2
<1>12. QED BY <1>4, <1>5, <1>6, <1>7, <1>8, <1>9, <1>10, <1>11

\* UseCode: the code is spent.
LEMMA UseKeeps ==
    ASSUME AccessInv, NEW q \in AuthCalls, call[q].step = "use", AuthGoes(q, "issue"), spent' = spent \cup {call[q].on},
           session' = session, codes' = codes, trials' = trials, signedOut' = signedOut,
           contested' = contested, password' = password, mfa' = mfa
    PROVE  AccessInv'
<1> USE DEF AccessInv, OthersPause
<1>1. /\ call' \in [AuthCalls -> CallRecords] /\ OthersPause(q)
      /\ call'[q].step = "issue" /\ call'[q].method = call[q].method /\ call'[q].on = call[q].on
  <2>1. "issue" \in CallSteps  BY DEF CallSteps
  <2>2. QED BY <2>1, CallGoesOn
<1>2. session[q] = "none" /\ q \notin signedOut /\ call[q].method = "verify_code" /\ call[q].on \in AuthCalls
  BY DEF CallsFit, CallFits, SignedOutStays, Finished, TokensFit
<1>3. spent \subseteq spent' /\ spent' \subseteq AuthCalls /\ call[q].on \in spent'  BY <1>2 DEF AuthShape
<1>4. AuthShape'  BY <1>1, <1>2, <1>3, AuthAssumption DEF AuthShape, Finished
<1>5. CallsFit'
  <2> SUFFICES ASSUME NEW p \in AuthCalls PROVE CallFits(p)'  BY DEF CallsFit
  <2>1. CASE p = q
    BY <1>1, <1>2, <1>3, <2>1, AuthAssumption DEF CallsFit, CallFits, AuthShape, Finished,
       Issuers
  <2>2. CASE p # q  BY <1>1, <1>2, <1>3, <2>2 DEF CallsFit, CallFits
  <2>3. QED BY <2>1, <2>2
<1>6. TokensFit'
  BY <1>1, <1>2, <1>3, AuthAssumption DEF TokensFit, CallsFit, CallFits, IsCode, Issuers,
     Finished
<1>7. TokensSpent'
  BY <1>1, <1>2, <1>3, AuthAssumption DEF TokensSpent, TokenSpent, CallsFit, CallFits, Finished
<1>8. OneCallPerToken'  BY <1>1, <1>2, <1>3, AuthAssumption DEF OneCallPerToken, Busy, Finished
<1>9. OneWinner'  BY <1>1, <1>2, <1>3, AuthAssumption DEF OneWinner, UsesUp, CallsFit, CallFits, Finished
<1>10. SignedOutStays'  BY <1>1, <1>2 DEF AuthShape, SignedOutStays
<1>11. TrialsCounted'  BY <1>1, <1>2, <1>3, AuthAssumption DEF TrialsCounted, Finished
<1>12. QED BY <1>4, <1>5, <1>6, <1>7, <1>8, <1>9, <1>10, <1>11

--------
\* Actions.

\* A call that goes on does not write the second factor.
LEMMA GoingKeepsCredentials ==
    ASSUME AuthInv, NEW q \in AuthCalls, NEW step \in CallSteps \ {"save", "confirm"}, AuthGoes(q, step),
           mfa' = mfa, overtaken' = overtaken
    PROVE  SetupSeen'
<1>1. OthersPause(q) /\ call'[q].step = step  BY CallGoesOn DEF AuthInv, AccessInv
<1>2. QED BY <1>1 DEF AuthInv, SetupSeen, OthersPause

\* A call that starts has seen the second factor that is there.
LEMMA StartingKeepsCredentials ==
    ASSUME AuthInv, NEW q \in AuthCalls, NEW method \in Methods, NEW x \in AuthCalls \cup {Nil, NoSecret},
           NEW step \in CallSteps, Starts(q, method, x, step),
           step \in {"save", "confirm"} => ~mfa.on, mfa' = mfa, overtaken' = overtaken
    PROVE  SetupSeen'
<1>1. OthersPause(q) /\ call'[q].step = step  BY CallStarts DEF AuthInv, AccessInv
<1>2. QED BY <1>1 DEF AuthInv, SetupSeen, OthersPause

\* The calls that start and use no session and no code: a setup or verification has seen no second
\* factor, and the session or secret asked for is there.
LEMMA StartersKeep ==
    ASSUME AuthInv, NEW q \in AuthCalls,
           \/ \E method \in {"register", "oauth"} : FindAccount(q, method)
           \/ \E s \in AuthCalls : FindForLogout(q, s)
           \/ Login(q) \/ StartReset(q) \/ StartChange(q) \/ RateLimitCode(q)
           \/ StartSetup(q) \/ VerifyMFA(q) \/ DisableMFA(q)
    PROVE  AuthInv'
<1> USE DEF AuthInv, AccessInv
<1>1. password \in AuthCalls \cup {Nil} /\ mfa.secret \in AuthCalls \cup {Nil, NoSecret}  BY Zenon DEF AuthShape
<1>2. PICK method \in Methods \ {"refresh", "verify_code"}, x \in AuthCalls \cup {Nil, NoSecret},
           step \in {"insert", "issue", "refused", "drop", "overwrite", "replace", "void", "save", "confirm", "off"} :
         /\ Starts(q, method, x, step)
         /\ step = "insert" => method \in {"register", "oauth"}
         /\ step = "issue" => method \in Issuers
         /\ step = "drop" => x \in AuthCalls /\ session[x] # "none"
         /\ step = "void" => method = "send_code"
         /\ step = "confirm" => method = "verify" /\ x \in AuthCalls \cup {NoSecret}
         /\ step \in {"save", "confirm"} => ~mfa.on
  <2> USE DEF Methods, Issuers
  <2>1. ASSUME NEW method \in {"register", "oauth"}, FindAccount(q, method)
        PROVE  \E step \in {"insert", "issue", "refused"} :
                  Starts(q, method, Nil, step) /\ (step = "issue" => method = "oauth")
    BY <2>1 DEF FindAccount
  <2>2. Login(q) => \E step \in {"issue", "refused"} : Starts(q, "login", Nil, step)  BY DEF Login
  <2>3. ASSUME NEW s \in AuthCalls, FindForLogout(q, s) PROVE Starts(q, "logout", s, "drop") /\ session[s] # "none"
    BY <2>3 DEF FindForLogout
  <2>4. StartReset(q) => Starts(q, "reset", Nil, "overwrite")  BY DEF StartReset
  <2>5. StartChange(q) => Starts(q, "change", password, "replace")  BY DEF StartChange
  <2>6. RateLimitCode(q) => \E step \in {"refused", "void"} : Starts(q, "send_code", Nil, step)
    BY DEF RateLimitCode
  <2>7. StartSetup(q) => \E step \in {"refused", "save"} : Starts(q, "setup", Nil, step) /\ (step = "save" => ~mfa.on)
    BY DEF StartSetup
  <2>8. VerifyMFA(q) => /\ mfa.secret # Nil
                        /\ \E step \in {"issue", "confirm"} :
                              Starts(q, "verify", mfa.secret, step) /\ (step = "confirm" => ~mfa.on)
    BY DEF VerifyMFA
  <2>9. DisableMFA(q) => Starts(q, "disable", mfa.secret, "off")  BY DEF DisableMFA
  <2>10. QED BY <1>1, <2>1, <2>2, <2>3, <2>4, <2>5, <2>6, <2>7, <2>8, <2>9
<1>3. session' = session /\ codes' = codes /\ spent' = spent /\ trials' = trials /\ signedOut' = signedOut
      /\ password' = password /\ mfa' = mfa /\ overtaken' = overtaken
  BY DEF FindAccount, FindForLogout, Login, StartReset, StartChange, RateLimitCode, StartSetup, VerifyMFA,
     DisableMFA, userVars, codeVars, NothingWritten
<1>4. AccessInv'  BY <1>2, <1>3, StartsElsewhere
<1>5. step \in CallSteps  BY <1>2 DEF CallSteps
<1>6. SetupSeen'  BY <1>2, <1>3, <1>5, StartingKeepsCredentials
<1>7. QED BY <1>4, <1>6

\* RefreshToken: see RefreshKeeps.
LEMMA RefreshTokenKeeps == ASSUME AuthInv, NEW q \in AuthCalls, NEW s \in AuthCalls, RefreshToken(q, s) PROVE AuthInv'
<1> USE DEF AuthInv, AccessInv
<1> DEFINE first == IF session[s] = "live" THEN "revoke" ELSE "refused"
<1>1. Starts(q, "refresh", s, first) /\ first \in {"revoke", "refused"} /\ "refresh" \in Methods
  BY DEF RefreshToken, Methods
<1>2. session' = session /\ codes' = codes /\ spent' = spent /\ trials' = trials /\ password'
      = password /\ mfa' = mfa /\ overtaken' = overtaken
  BY DEF RefreshToken, userVars, codeVars, NothingWritten
<1>3. AccessInv'  BY <1>1, <1>2, RefreshKeeps DEF RefreshToken, Inherits
<1> HIDE DEF first
<1>4. first \in CallSteps \ {"save", "confirm"}  BY <1>1 DEF CallSteps
<1>5. SetupSeen'  BY <1>1, <1>2, <1>4, StartingKeepsCredentials
<1>6. QED BY <1>3, <1>5

\* CheckCode: see ActiveCodeKeeps.
LEMMA CheckCodeKeeps == ASSUME AuthInv, NEW q \in AuthCalls, NEW c \in AuthCalls, CheckCode(q, c) PROVE AuthInv'
<1> USE DEF AuthInv, AccessInv
<1>1. PICK verdict \in {"use", "count"} : Starts(q, "verify_code", c, IF TrialsLeft(c) THEN verdict ELSE "refused")
  BY DEF CheckCode
<1> DEFINE first == IF TrialsLeft(c) THEN verdict ELSE "refused"
<1>2. Starts(q, "verify_code", c, first) /\ first \in {"use", "count", "refused"} /\ "verify_code" \in Methods
  BY <1>1 DEF CheckCode, Methods
<1>3. session' = session /\ codes' = codes /\ spent' = spent /\ trials' = trials /\ signedOut'
      = signedOut /\ password' = password /\ mfa' = mfa /\ overtaken' = overtaken
  BY DEF CheckCode, userVars, codeVars, NothingWritten
<1>4. AccessInv'  BY <1>1, <1>2, <1>3, ActiveCodeKeeps DEF CheckCode
<1> HIDE DEF first
<1>5. first \in CallSteps \ {"save", "confirm"}  BY <1>2 DEF CallSteps
<1>6. SetupSeen'  BY <1>2, <1>3, <1>5, StartingKeepsCredentials
<1>7. QED BY <1>4, <1>6

\* LogoutAll: every session is revoked, or none.
LEMMA LogoutAllKeeps == ASSUME AuthInv, NEW q \in AuthCalls, LogoutAll(q) PROVE AuthInv'
<1> USE DEF AuthInv, AccessInv
<1>1. codes' = codes /\ spent' = spent /\ trials' = trials /\ password' = password /\ mfa' =
      mfa /\ overtaken' = overtaken
  BY DEF LogoutAll, userVars, codeVars, NothingWritten
<1>2. CASE /\ Starts(q, "logout_all", Nil, "ok") /\ RevokeAllUserSessions
           /\ signedOut' = signedOut \cup Over
  BY <1>1, <1>2, EveryoneOutKeeps, StartingKeepsCredentials DEF CallSteps, Methods
<1>3. CASE Starts(q, "logout_all", Nil, "failed") /\ session' = session /\ signedOut' = signedOut
  BY <1>1, <1>3, FailsToStart, StartingKeepsCredentials DEF CallSteps, Methods
<1>4. QED BY <1>2, <1>3 DEF LogoutAll

\* The calls that go on, whether or not their statement fails.
LEMMA GoersKeep ==
    ASSUME AuthInv, NEW q \in AuthCalls,
           \/ CreateUser(q) \/ IssueTokenPair(q) \/ RevokeOldSession(q) \/ RevokeSession(q) \/ SweepSessions(q)
           \/ InvalidateCodes(q) \/ CreateCode(q) \/ CountTrial(q) \/ UseCode(q) \/ AuthAbort(q)
    PROVE  AuthInv'
<1> USE DEF AuthInv
<1>1. q \in Busy /\ contested' = contested /\ password' = password /\ mfa' = mfa /\ overtaken' = overtaken
  BY DEF CreateUser, IssueTokenPair, RevokeOldSession, RevokeSession, SweepSessions, InvalidateCodes, CreateCode,
     CountTrial, UseCode, AuthAbort, userVars, Busy, Finished
<1>2. PICK step \in CallSteps \ {"save", "confirm"} : AuthGoes(q, step)
  BY DEF CallSteps, CreateUser, IssueTokenPair, RevokeOldSession, RevokeSession, SweepSessions, InvalidateCodes,
     CreateCode, CountTrial, UseCode, AuthAbort
<1>3. SetupSeen'  BY <1>1, <1>2, GoingKeepsCredentials
<1> SUFFICES AccessInv'  BY <1>3
<1>4. ASSUME session' = session, codes' = codes, spent' = spent, trials' = trials, signedOut' = signedOut,
             NEW s \in Finished \cup {"issue", "mint"}, AuthGoes(q, s),
             s = "issue" => call[q].step = "insert", s = "mint" => call[q].step = "void"
      PROVE  AccessInv'  BY <1>4, <1>1, GoesOnElsewhere DEF AccessInv, CallsFit, CallFits, Issuers, AuthShape
<1>5. /\ session' = session /\ codes' = codes /\ spent' = spent /\ trials' = trials /\ signedOut' = signedOut
      /\ AuthGoes(q, "failed") \/ AuthGoes(q, "ok") \/ AuthGoes(q, "refused")
      => AccessInv'
  BY <1>4 DEF Finished
<1>6. CASE CreateUser(q)  BY <1>6, <1>4, <1>5 DEF CreateUser, codeVars
<1>7. CASE AuthAbort(q)  BY <1>5, <1>7 DEF AuthAbort, codeVars
<1>8. CASE IssueTokenPair(q)  BY <1>1, <1>5, <1>8, IssueKeeps DEF IssueTokenPair, codeVars
<1>9. CASE RevokeOldSession(q)  BY <1>1, <1>5, <1>9, RevokeOldKeeps DEF RevokeOldSession, codeVars
<1>10. CASE RevokeSession(q)  BY <1>1, <1>5, <1>10, RevokeKeeps DEF RevokeSession, codeVars
<1>11. CASE SweepSessions(q)  BY <1>1, <1>5, <1>11, SweepKeeps DEF SweepSessions, codeVars
<1>12. CASE InvalidateCodes(q)  BY <1>1, <1>4, <1>12, VoidKeeps DEF InvalidateCodes, codeVars
<1>13. CASE CreateCode(q)  BY <1>1, <1>5, <1>13, MintKeeps DEF CreateCode, codeVars
<1>14. CASE CountTrial(q)  BY <1>1, <1>5, <1>14, CountKeeps DEF CountTrial, codeVars
<1>15. CASE UseCode(q)  BY <1>1, <1>5, <1>15, UseKeeps DEF UseCode, codeVars
<1>16. QED BY <1>6, <1>7, <1>8, <1>9, <1>10, <1>11, <1>12, <1>13, <1>14, <1>15

\* UpdatePassword, which is not the second factor's.
LEMMA UpdatePasswordKeeps ==
    ASSUME AuthInv, NEW q \in Busy, NEW step \in {"sweep", "ok"}, UpdatePassword(q, step)
    PROVE  AuthInv'
<1> USE DEF AuthInv, AccessInv
<1>1. session' = session /\ codes' = codes /\ spent' = spent /\ trials' = trials
      /\ signedOut' = signedOut /\ contested' = contested /\ mfa' = mfa /\ overtaken' = overtaken
  BY DEF UpdatePassword, codeVars
<1>2. q \in AuthCalls  BY DEF Busy
<1>3. CASE password' = q /\ AuthGoes(q, step)
  BY <1>1, <1>2, <1>3, GoesOnElsewhere, GoingKeepsCredentials DEF Finished, AuthShape, CallSteps
<1>4. CASE AuthGoes(q, "failed") /\ password' = password
  BY <1>1, <1>4, GoesOnElsewhere, <1>2, GoingKeepsCredentials DEF Finished, AuthShape, CallSteps
<1>5. QED BY <1>3, <1>4 DEF UpdatePassword

\* UpdateMFASecret: when it confirms, the setups and verifications under way are overtaken.
LEMMA UpdateMFASecretKeeps ==
    ASSUME AuthInv, NEW q \in Busy, NEW step \in {"issue", "ok"}, NEW secret \in AuthCalls \cup {Nil, NoSecret},
           NEW on \in BOOLEAN, UpdateMFASecret(q, secret, on, step),
           step = "issue" => call[q].method = "verify",
           overtaken \subseteq overtaken',
           on => \A p \in AuthCalls \ {q} : call[p].step \in {"save", "confirm"} => p \in overtaken'
    PROVE  AuthInv'
<1> USE DEF AuthInv, AccessInv
<1>1. session' = session /\ codes' = codes /\ spent' = spent /\ trials' = trials
      /\ signedOut' = signedOut /\ contested' = contested /\ password' = password
  BY DEF UpdateMFASecret, codeVars
<1>2. q \in AuthCalls  BY DEF Busy
<1>3. PICK then \in {step, "failed"} : /\ AuthGoes(q, then)
                                       /\ \/ mfa' = [on |-> on, secret |-> secret]
                                          \/ mfa' = mfa
  BY DEF UpdateMFASecret
<1>4. mfa' \in [on : BOOLEAN, secret : AuthCalls \cup {Nil, NoSecret}]  BY <1>3 DEF AuthShape
<1>5. AccessInv'  BY <1>1, <1>3, <1>4, GoesOnElsewhere DEF Finished, AuthShape, Issuers
<1>6. OthersPause(q) /\ call'[q].step = then  BY <1>2, <1>3, CallGoesOn DEF CallSteps
<1>7. SetupSeen'
  <2>1. \A p \in AuthCalls : call'[p].step \in {"save", "confirm"} => p # q /\ call[p].step \in {"save", "confirm"}
    BY <1>3, <1>6 DEF OthersPause
  <2>2. mfa'.on => on \/ mfa.on
    <3>1. CASE mfa' = mfa  BY <3>1, Zenon
    <3>2. CASE mfa' = [on |-> on, secret |-> secret]
      <4>1. mfa'.on = on  BY <3>2
      <4>2. QED BY <4>1, Zenon
    <3>3. QED BY <1>3, <3>1, <3>2, Zenon
  <2>3. mfa.on => \A p \in AuthCalls : call[p].step \in {"save", "confirm"} => p \in overtaken'  BY Zenon DEF SetupSeen
  <2>4. ASSUME mfa'.on, NEW p \in AuthCalls, call'[p].step \in {"save", "confirm"} PROVE p \in overtaken'
    <3>1. p \in AuthCalls \ {q} /\ call[p].step \in {"save", "confirm"}  BY <2>1, <2>4
    <3>2. CASE on  BY <3>1, <3>2, Zenon
    <3>3. CASE mfa.on  BY <2>3, <3>1, <3>3, Zenon
    <3>4. QED BY <2>2, <2>4, <3>2, <3>3, Zenon
  <2>5. QED BY <2>4, Zenon DEF SetupSeen
<1>8. QED BY <1>5, <1>7

\* The initial states.
LEMMA AuthStarts == AuthInit => AuthInv
<1> SUFFICES ASSUME AuthInit PROVE AuthInv  OBVIOUS
<1>1. AuthShape  BY DEF IdleCall, CallRecords, CallSteps, AuthInit, AuthShape
<1>2. \A q \in AuthCalls : call[q].step = "idle" /\ call[q].method = Nil /\ session[q] = "none" /\ trials[q] = 0
  BY DEF AuthInit, IdleCall
<1>3. CallsFit  BY <1>2 DEF CallsFit, CallFits
<1>4. TokensFit /\ TokensSpent  BY <1>2 DEF AuthInit, TokensFit, TokensSpent, TokenSpent, IsCode, Nil
<1>5. OneCallPerToken /\ OneWinner  BY <1>2 DEF OneCallPerToken, OneWinner, Busy, UsesUp, Nil
<1>6. SignedOutStays  BY DEF AuthInit, SignedOutStays
<1>7. TrialsCounted  BY <1>2, AuthAssumption DEF TrialsCounted
<1>8. SetupSeen  BY <1>2 DEF SetupSeen
<1>9. QED BY <1>1, <1>3, <1>4, <1>5, <1>6, <1>7, <1>8 DEF AuthInv, AccessInv

\* What the invariant looks at stays, and so does it.
LEMMA AuthStutters ==
    ASSUME AuthInv, call' = call, password' = password, mfa' = mfa, session' = session, codes' = codes,
           spent' = spent, trials' = trials, signedOut' = signedOut, contested' = contested,
           overtaken' = overtaken
    PROVE  AuthInv'
<1>1. AuthShape' /\ CallsFit' /\ TokensFit'
  BY DEF AuthInv, AccessInv, AuthShape, CallsFit, CallFits, TokensFit, IsCode
<1>2. TokensSpent' /\ OneCallPerToken' /\ OneWinner'
  BY DEF AuthInv, AccessInv, TokensSpent, TokenSpent, OneCallPerToken, Busy, OneWinner, UsesUp
<1>3. SignedOutStays' /\ TrialsCounted' /\ SetupSeen'
  BY DEF AuthInv, AccessInv, SignedOutStays, TrialsCounted, SetupSeen
<1>4. QED BY <1>1, <1>2, <1>3 DEF AuthInv, AccessInv

\* The calls that write passwords and second factors.
LEMMA CredentialWritersKeep ==
    ASSUME AuthInv, NEW q \in AuthCalls,
           OverwritePassword(q) \/ ReplacePassword(q) \/ SaveSecret(q) \/ ConfirmSecret(q) \/ ClearSecret(q)
    PROVE  AuthInv'
<1>1. CASE OverwritePassword(q)  BY <1>1, UpdatePasswordKeeps DEF OverwritePassword, Busy, Finished
<1>2. CASE ReplacePassword(q)  BY <1>2, UpdatePasswordKeeps DEF ReplacePassword, Busy, Finished
<1>3. CASE SaveSecret(q)  BY <1>3, UpdateMFASecretKeeps DEF SaveSecret, Busy, Finished
<1>4. CASE ConfirmSecret(q)
  BY <1>4, UpdateMFASecretKeeps DEF ConfirmSecret, Busy, Finished, AuthInv, AccessInv, CallsFit, CallFits
<1>5. CASE ClearSecret(q)  BY <1>5, UpdateMFASecretKeeps DEF ClearSecret, Busy, Finished
<1>6. QED BY <1>1, <1>2, <1>3, <1>4, <1>5

\* Every step keeps the invariant.
LEMMA AuthStepIsSound == AuthInv /\ [AuthNext]_authVars => AuthInv'
<1> SUFFICES ASSUME AuthInv, [AuthNext]_authVars PROVE AuthInv'  OBVIOUS
<1>1. CASE LimitExpires  BY <1>1, AuthStutters DEF LimitExpires, userVars
<1>2. CASE UNCHANGED authVars  BY <1>2, AuthStutters DEF authVars, userVars, codeVars
<1>3. QED
  BY <1>1, <1>2, StartersKeep, RefreshTokenKeeps, CheckCodeKeeps, LogoutAllKeeps, GoersKeep, CredentialWritersKeep
     DEF AuthNext

\* The invariant holds in every state.
LEMMA AuthInvHolds == AuthSpec => []AuthInv
<1>1. QED BY AuthStarts, AuthStepIsSound, PTL DEF AuthSpec

\* What was revoked or spent lets nobody in again, however the calls overlap and wherever they fail.
THEOREM AccessStaysEarned == AuthSpec => []AccessIsEarned
<1>1. AuthInv => AccessIsEarned  BY AccessFollows DEF AuthInv
<1>2. QED BY AuthInvHolds, <1>1, PTL

\* Who writes users.mfa_enabled.
LEMMA WritersOfTheSecondFactor ==
    ASSUME [AuthNext]_authVars, mfa' # mfa
    PROVE  \E q \in AuthCalls : SaveSecret(q) \/ ConfirmSecret(q) \/ ClearSecret(q)
<1> USE DEF authVars, userVars, codeVars, NothingWritten
<1>1. ASSUME NEW q \in AuthCalls, NEW method \in {"register", "oauth"}, FindAccount(q, method) PROVE FALSE
  BY <1>1 DEF FindAccount
<1>2. ASSUME NEW q \in AuthCalls, NEW s \in AuthCalls, RefreshToken(q, s) \/ FindForLogout(q, s) \/ CheckCode(q, s)
      PROVE  FALSE
  BY <1>2 DEF RefreshToken, FindForLogout, CheckCode
<1>3. ASSUME NEW q \in AuthCalls,
             CreateUser(q) \/ Login(q) \/ IssueTokenPair(q) \/ RevokeOldSession(q) \/ RevokeSession(q) \/ LogoutAll(q)
      PROVE  FALSE
  BY <1>3 DEF CreateUser, Login, IssueTokenPair, RevokeOldSession, RevokeSession, LogoutAll
<1>4. ASSUME NEW q \in AuthCalls,
             StartReset(q) \/ OverwritePassword(q) \/ SweepSessions(q) \/ StartChange(q) \/ ReplacePassword(q)
      PROVE  FALSE
  BY <1>4 DEF StartReset, OverwritePassword, SweepSessions, StartChange, ReplacePassword, UpdatePassword
<1>5. ASSUME NEW q \in AuthCalls,
             RateLimitCode(q) \/ InvalidateCodes(q) \/ CreateCode(q) \/ CountTrial(q) \/ UseCode(q)
      PROVE  FALSE
  BY <1>5 DEF RateLimitCode, InvalidateCodes, CreateCode, CountTrial, UseCode
<1>6. ASSUME NEW q \in AuthCalls, StartSetup(q) \/ VerifyMFA(q) \/ DisableMFA(q) \/ AuthAbort(q) PROVE FALSE
  BY <1>6 DEF StartSetup, VerifyMFA, DisableMFA, AuthAbort
<1>7. ~LimitExpires  BY DEF LimitExpires
<1>8. QED BY <1>1, <1>2, <1>3, <1>4, <1>5, <1>6, <1>7 DEF AuthNext

\* A step leaves a second factor in use as it is, turns it off for DisableMFA, or is one of the
\* overtaken.
LEMMA StepKeepsCredentials ==
    ASSUME AuthInv, [AuthNext]_authVars, mfa.on, mfa' # mfa
    PROVE  \E q \in AuthCalls : \/ (call[q].step = "off" /\ ~mfa'.on)
                               \/ (call[q].step \in {"save", "confirm"} /\ q \in overtaken)
<1>1. PICK q \in AuthCalls : SaveSecret(q) \/ ConfirmSecret(q) \/ ClearSecret(q)  BY WritersOfTheSecondFactor
<1>2. CASE SaveSecret(q) \/ ConfirmSecret(q)
  BY <1>2 DEF SaveSecret, ConfirmSecret, AuthInv, SetupSeen
<1>3. CASE ClearSecret(q)
  <2>1. call[q].step = "off" /\ mfa' = [on |-> FALSE, secret |-> NoSecret]
    BY <1>3 DEF ClearSecret, UpdateMFASecret
  <2>2. mfa'.on = FALSE  BY <2>1
  <2>3. QED BY <2>1, <2>2
<1>4. QED BY <1>1, <1>2, <1>3

\* Once confirmed, the second factor keeps its secret and stays on until DisableMFA turns it off,
\* unless a setup or verification that was under way then writes over it.
THEOREM CredentialsAlwaysStay == AuthSpec => CredentialsStay
<1>1. AuthInv /\ [AuthNext]_authVars =>
         [mfa.on /\ mfa' # mfa =>
             \E q \in AuthCalls : \/ (call[q].step = "off" /\ ~mfa'.on)
                                 \/ (call[q].step \in {"save", "confirm"} /\ q \in overtaken)]_authVars
  BY StepKeepsCredentials
<1>2. QED BY <1>1, AuthInvHolds, PTL DEF AuthSpec, CredentialsStay

--------
\* How many there are: a code was made by a call that has ended, a guess
\* was counted for one, and one registration found no account.

Minted == {q \in AuthCalls : call[q].method = "send_code" /\ call[q].step \in Finished}
Tried(c) ==
    {q \in AuthCalls : call[q].method = "verify_code" /\ call[q].on = c /\ call[q].step \in Finished}
Registered(q) == call[q].method = "register" /\ (call[q].step = "issue" \/ session[q] # "none")

AuthCounts ==
    /\ account \in BOOLEAN /\ limited \in BOOLEAN
    /\ authFaults \in 0..MaxAuthFaults /\ overtaken \subseteq AuthCalls
    /\ mfa.on => mfa.secret # Nil
    /\ Len(codes) <= Cardinality(Minted)
    /\ \A c \in AuthCalls : trials[c] <= Cardinality(Tried(c))
    /\ \A q \in AuthCalls : Registered(q) => account
    /\ \A p, q \in AuthCalls : Registered(p) /\ Registered(q) => p = q

\* A call that has not ended takes a step and stays the call it is.
AuthTurns(q) ==
    /\ call' \in [AuthCalls -> CallRecords] /\ OthersPause(q) /\ call[q].step \notin Finished
    /\ call[q].step # "idle" => call'[q].method = call[q].method /\ call'[q].on = call[q].on

\* A subset of the calls that gets no smaller, and one that gets another call.
LEMMA CallsAdded ==
    ASSUME NEW S \in SUBSET AuthCalls, NEW T \in SUBSET AuthCalls, S \subseteq T
    PROVE  /\ Cardinality(S) \in Nat /\ Cardinality(T) \in Nat /\ Cardinality(S) <= Cardinality(T)
           /\ \A q \in T \ S : Cardinality(S) + 1 <= Cardinality(T)
<1>1. IsFiniteSet(S) /\ IsFiniteSet(T)  BY AuthAssumption, FS_Subset
<1>2. Cardinality(S) \in Nat /\ Cardinality(T) \in Nat  BY <1>1, FS_CardinalityType
<1>3. Cardinality(S) <= Cardinality(T)  BY <1>1, FS_Subset
<1>4. ASSUME NEW q \in T \ S PROVE Cardinality(S) + 1 <= Cardinality(T)  BY <1>1, FS_Subset, <1>2, <1>3
<1>5. QED BY <1>2, <1>3, <1>4

\* A turn keeps the counts if what it adds, it adds by ending.
LEMMA CountsKept ==
    ASSUME AuthInv, AuthInv', AuthCounts, NEW q \in AuthCalls, AuthTurns(q),
           account' \in BOOLEAN, account => account', limited' \in BOOLEAN,
           authFaults' \in 0..MaxAuthFaults, overtaken' \subseteq AuthCalls, mfa'.on => mfa'.secret # Nil,
           codes' = codes \/ (codes' = Append(codes, q) /\ call[q].step = "mint" /\ call'[q].step \in Finished),
           \/ trials' = trials
           \/ /\ trials' = [trials EXCEPT ![call[q].on] = @ + 1]
              /\ call[q].step = "count" /\ call'[q].step \in Finished,
           \A p \in AuthCalls : Registered(p)' => Registered(p) \/ (p = q /\ ~account /\ account')
    PROVE  AuthCounts'
<1>1. AuthShape /\ AuthShape' /\ CallFits(q)  BY DEF AuthInv, AccessInv, CallsFit
<1>2. Minted \subseteq Minted' /\ Minted' \subseteq AuthCalls  BY DEF AuthTurns, OthersPause, Minted, Finished
<1>3. \A c \in AuthCalls : Tried(c) \subseteq Tried(c)' /\ Tried(c)' \subseteq AuthCalls
  BY DEF AuthTurns, OthersPause, Tried, Finished
<1>4. Len(codes') <= Cardinality(Minted')
  <2>1. PICK m, n : m = Cardinality(Minted) /\ n = Cardinality(Minted')  OBVIOUS
  <2>2. m \in Nat /\ n \in Nat /\ m <= n /\ \A p \in Minted' \ Minted : m + 1 <= n
    BY <1>2, <2>1, CallsAdded
  <2>3. Len(codes) \in Nat /\ Len(codes) <= m  BY <1>1, <2>1 DEF AuthShape, AuthCounts
  <2>4. CASE codes' = codes  BY <2>1, <2>2, <2>3, <2>4
  <2>5. CASE codes' = Append(codes, q) /\ call[q].step = "mint" /\ call'[q].step \in Finished
    <3>1. q \in Minted' \ Minted  BY <1>1, <2>5 DEF CallFits, AuthTurns, Minted, Finished
    <3>2. Len(codes') = Len(codes) + 1  BY <1>1, <2>5 DEF AuthShape
    <3>3. QED BY <2>1, <2>2, <2>3, <3>1, <3>2
  <2>6. QED BY <2>4, <2>5
<1>5. ASSUME NEW c \in AuthCalls PROVE trials'[c] <= Cardinality(Tried(c)')
  <2>1. PICK m, n : m = Cardinality(Tried(c)) /\ n = Cardinality(Tried(c)')  OBVIOUS
  <2>2. m \in Nat /\ n \in Nat /\ m <= n /\ \A p \in Tried(c)' \ Tried(c) : m + 1 <= n
    BY <1>3, <2>1, CallsAdded
  <2>3. trials[c] \in Nat /\ trials[c] <= m  BY <1>1, <2>1 DEF AuthShape, AuthCounts
  <2>4. CASE trials'[c] = trials[c]  BY <2>1, <2>2, <2>3, <2>4
  <2>5. CASE trials'[c] # trials[c]
    <3>1. call[q].on = c /\ call[q].step = "count" /\ call'[q].step \in Finished /\ trials'[c] = trials[c] + 1
      BY <1>1, <2>5 DEF AuthShape
    <3>2. q \in Tried(c)' \ Tried(c)  BY <1>1, <3>1 DEF CallFits, AuthTurns, Tried, Finished
    <3>3. QED BY <2>1, <2>2, <2>3, <3>1, <3>2
  <2>6. QED BY <2>4, <2>5
<1>6. \A p \in AuthCalls : Registered(p)' => account'  BY DEF AuthCounts
<1>7. ASSUME NEW p \in AuthCalls, NEW r \in AuthCalls, Registered(p)', Registered(r)' PROVE p = r
  BY <1>7 DEF AuthCounts
<1>8. QED BY <1>4, <1>5, <1>6, <1>7 DEF AuthCounts

\* Faults stay within their bound.
LEMMA AuthFaultsStay ==
    ASSUME authFaults \in 0..MaxAuthFaults, AuthFault \/ authFaults' = authFaults
    PROVE  authFaults' \in 0..MaxAuthFaults
  BY AuthAssumption DEF AuthFault

\* A call that starts makes nothing yet.
LEMMA BeginningCounts ==
    ASSUME AuthInv, AuthInv', AuthCounts, NEW q \in AuthCalls, NEW method \in Methods,
           NEW x \in AuthCalls \cup {Nil, NoSecret}, NEW step \in CallSteps, Starts(q, method, x, step),
           method = "register" => step # "issue",
           UNCHANGED <<account, mfa, codes, trials, overtaken>>, limited' \in BOOLEAN,
           AuthFault \/ authFaults' = authFaults,
           \A p \in AuthCalls : session'[p] # "none" => session[p] # "none"
    PROVE  AuthCounts'
<1>1. AuthShape /\ CallFits(q)  BY DEF AuthInv, AccessInv, CallsFit
<1>2. /\ AuthTurns(q) /\ call[q].step = "idle" /\ session[q] = "none"
      /\ call'[q].step = step /\ call'[q].method = method
  BY <1>1, CallStarts DEF AuthTurns, CallFits, Finished
<1>3. \A p \in AuthCalls : Registered(p)' => Registered(p)  BY <1>2 DEF AuthTurns, OthersPause, Registered
<1>4. mfa'.on => mfa'.secret # Nil  BY Zenon DEF AuthCounts
<1>5. QED BY <1>2, <1>3, <1>4, CountsKept, AuthFaultsStay DEF AuthCounts

\* A call that goes on without a code, a guess or an account.
LEMMA GoingCounts ==
    ASSUME AuthInv, AuthInv', AuthCounts, NEW q \in Busy, NEW step \in CallSteps, AuthGoes(q, step),
           step = "issue" => call[q].method # "register",
           UNCHANGED <<account, codes, trials, limited>>, overtaken' \subseteq AuthCalls,
           mfa'.on => mfa'.secret # Nil, AuthFault \/ authFaults' = authFaults,
           \A p \in AuthCalls : session'[p] # "none" => session[p] # "none" \/ (p = q /\ call[q].step = "issue")
    PROVE  AuthCounts'
<1>1. AuthShape /\ q \in AuthCalls  BY DEF AuthInv, AccessInv, Busy
<1>2. /\ AuthTurns(q) /\ call'[q].step = step /\ call'[q].method = call[q].method
  BY <1>1, CallGoesOn DEF AuthTurns, Busy
<1>3. \A p \in AuthCalls : Registered(p)' => Registered(p)
  BY <1>2 DEF AuthTurns, OthersPause, Registered
<1>4. QED BY <1>1, <1>2, <1>3, CountsKept, AuthFaultsStay DEF AuthCounts

\* The calls that start.
LEMMA AllBeginningsCount ==
    ASSUME AuthInv, AuthInv', AuthCounts, NEW q \in AuthCalls,
           \/ \E method \in {"register", "oauth"} : FindAccount(q, method)
           \/ \E s \in AuthCalls : RefreshToken(q, s) \/ FindForLogout(q, s) \/ CheckCode(q, s)
           \/ Login(q) \/ LogoutAll(q) \/ StartReset(q) \/ StartChange(q) \/ RateLimitCode(q)
           \/ StartSetup(q) \/ VerifyMFA(q) \/ DisableMFA(q)
    PROVE  AuthCounts'
<1>1. AuthShape /\ limited \in BOOLEAN  BY DEF AuthInv, AccessInv, AuthCounts
<1>2. PICK method \in Methods, x \in AuthCalls \cup {Nil, NoSecret}, step \in CallSteps :
         Starts(q, method, x, step) /\ (method = "register" => step # "issue")
  <2> USE DEF Methods, CallSteps
  <2>1. ASSUME NEW method \in {"register", "oauth"}, FindAccount(q, method)
        PROVE  \E step \in CallSteps : Starts(q, method, Nil, step) /\ (method = "register" => step # "issue")
    BY <2>1 DEF FindAccount
  <2>2. ASSUME NEW s \in AuthCalls, RefreshToken(q, s) \/ FindForLogout(q, s) \/ CheckCode(q, s)
        PROVE  \E method \in Methods \ {"register"}, step \in CallSteps : Starts(q, method, s, step)
    BY <2>2 DEF RefreshToken, FindForLogout, CheckCode
  <2>3. mfa.secret \in AuthCalls \cup {Nil, NoSecret} /\ password \in AuthCalls \cup {Nil}  BY <1>1, Zenon DEF AuthShape
  <2>4. ASSUME Login(q) \/ LogoutAll(q) \/ StartReset(q) \/ StartChange(q) \/ RateLimitCode(q)
                 \/ StartSetup(q) \/ VerifyMFA(q) \/ DisableMFA(q)
        PROVE  \E method \in Methods \ {"register"}, x \in AuthCalls \cup {Nil, NoSecret}, step \in CallSteps :
                  Starts(q, method, x, step)
    BY <2>3, <2>4 DEF Login, LogoutAll, StartReset, StartChange, RateLimitCode, StartSetup, VerifyMFA, DisableMFA
  <2>5. QED BY <2>1, <2>2, <2>4
<1>3. /\ UNCHANGED <<account, mfa, codes, trials, overtaken>> /\ limited' \in BOOLEAN
      /\ AuthFault \/ authFaults' = authFaults
  BY <1>1 DEF FindAccount, RefreshToken, FindForLogout, CheckCode, Login, LogoutAll, StartReset, StartChange,
     RateLimitCode, StartSetup, VerifyMFA, DisableMFA, NothingWritten, NoAuthFault, userVars, codeVars
<1>4. \A p \in AuthCalls : session'[p] # "none" => session[p] # "none"
  <2>1. session' = session \/ RevokeAllUserSessions
    BY DEF FindAccount, RefreshToken, FindForLogout, CheckCode, Login, LogoutAll, StartReset, StartChange,
       RateLimitCode, StartSetup, VerifyMFA, DisableMFA, NothingWritten
  <2>2. QED BY <1>1, <2>1 DEF RevokeAllUserSessions
<1>5. QED BY <1>2, <1>3, <1>4, BeginningCounts

\* The calls that go on.
LEMMA AllGoingsCount ==
    ASSUME AuthInv, AuthInv', AuthCounts, NEW q \in AuthCalls,
           \/ IssueTokenPair(q) \/ RevokeOldSession(q) \/ RevokeSession(q) \/ OverwritePassword(q)
           \/ SweepSessions(q) \/ ReplacePassword(q) \/ InvalidateCodes(q) \/ UseCode(q)
           \/ SaveSecret(q) \/ ConfirmSecret(q) \/ ClearSecret(q) \/ AuthAbort(q)
    PROVE  AuthCounts'
<1>1. AuthShape /\ overtaken \subseteq AuthCalls /\ CallFits(q)
  BY DEF AuthInv, AccessInv, AuthCounts, CallsFit
<1>2. q \in Busy
  BY DEF Busy, Finished, IssueTokenPair, RevokeOldSession, RevokeSession, OverwritePassword, SweepSessions,
     ReplacePassword, InvalidateCodes, UseCode, SaveSecret, ConfirmSecret, ClearSecret, AuthAbort
<1>3. PICK step \in CallSteps : AuthGoes(q, step) /\ (step = "issue" => call[q].method # "register")
  BY <1>1 DEF CallSteps, CallFits, UpdatePassword, UpdateMFASecret, IssueTokenPair, RevokeOldSession, RevokeSession,
     OverwritePassword, SweepSessions, ReplacePassword, InvalidateCodes, UseCode, SaveSecret, ConfirmSecret,
     ClearSecret, AuthAbort
<1>4. UNCHANGED <<account, codes, trials, limited>> /\ (AuthFault \/ authFaults' = authFaults)
  BY DEF UpdatePassword, UpdateMFASecret, IssueTokenPair, RevokeOldSession, RevokeSession,
     OverwritePassword, SweepSessions, ReplacePassword, InvalidateCodes, UseCode, SaveSecret, ConfirmSecret,
     ClearSecret, AuthAbort, NoAuthFault, userVars, codeVars
<1>5. overtaken' \subseteq AuthCalls
  BY <1>1 DEF UpdatePassword, UpdateMFASecret, IssueTokenPair, RevokeOldSession, RevokeSession,
     OverwritePassword, SweepSessions, ReplacePassword, InvalidateCodes, UseCode, SaveSecret, ConfirmSecret,
     ClearSecret, AuthAbort
<1>6. \A p \in AuthCalls : session'[p] # "none" => session[p] # "none" \/ (p = q /\ call[q].step = "issue")
  <2>1. \/ session' = session \/ RevokeAllUserSessions
        \/ session' = [session EXCEPT ![q] = "live"] /\ call[q].step = "issue"
        \/ session' = [session EXCEPT ![call[q].on] = "revoked"] /\ call[q].step \in {"revoke", "drop"}
    BY DEF UpdatePassword, UpdateMFASecret, IssueTokenPair, RevokeOldSession, RevokeSession,
       OverwritePassword, SweepSessions, ReplacePassword, InvalidateCodes, UseCode, SaveSecret, ConfirmSecret,
       ClearSecret, AuthAbort
  <2>2. call[q].step \in {"revoke", "drop"} => session[call[q].on] # "none"
    BY <1>1 DEF CallFits, AuthInv, AccessInv, TokensFit
  <2>3. QED BY <1>1, <2>1, <2>2 DEF RevokeAllUserSessions, AuthShape
<1>7. mfa'.on => mfa'.secret # Nil
  <2>1. mfa.on => mfa.secret # Nil  BY Zenon DEF AuthCounts
  <2>2. CASE mfa' = mfa  BY <2>1, <2>2, Zenon
  <2>3. CASE mfa' # mfa
    <3>1. \/ mfa' = [on |-> FALSE, secret |-> q] \/ mfa' = [on |-> FALSE, secret |-> NoSecret]
          \/ mfa' = [on |-> TRUE, secret |-> call[q].on] /\ call[q].step = "confirm"
      BY <2>3 DEF UpdatePassword, UpdateMFASecret, IssueTokenPair, RevokeOldSession, RevokeSession,
         OverwritePassword, SweepSessions, ReplacePassword, InvalidateCodes, UseCode, SaveSecret, ConfirmSecret,
         ClearSecret, AuthAbort, userVars
    <3>2. call[q].step = "confirm" => call[q].on # Nil  BY <1>1, AuthAssumption DEF CallFits, Nil, NoSecret
    <3>4. q # Nil /\ NoSecret # Nil  BY AuthAssumption DEF Nil, NoSecret
    <3>3. QED BY <3>1, <3>2, <3>4
  <2>4. QED BY <2>2, <2>3
<1>8. QED BY <1>2, <1>3, <1>4, <1>5, <1>6, <1>7, GoingCounts

\* The calls that make an account, a code or count a guess, or fail to.
LEMMA MakersCount ==
    ASSUME AuthInv, AuthInv', AuthCounts, NEW q \in AuthCalls, CreateUser(q) \/ CreateCode(q) \/ CountTrial(q)
    PROVE  AuthCounts'
<1>1. AuthShape /\ CallFits(q) /\ account \in BOOLEAN /\ limited \in BOOLEAN
  BY DEF AuthInv, AccessInv, AuthCounts, CallsFit
<1>2. PICK step \in {"issue", "refused", "failed", "ok"} :
         /\ AuthGoes(q, step) /\ (step = "issue" => ~account /\ account')
         /\ codes' = codes \/ (codes' = Append(codes, q) /\ call[q].step = "mint" /\ step = "ok")
         /\ \/ trials' = trials
            \/ trials' = [trials EXCEPT ![call[q].on] = @ + 1] /\ call[q].step = "count" /\ step = "refused"
  BY DEF CreateUser, CreateCode, CountTrial, codeVars
<1>3. AuthTurns(q) /\ call'[q].step = step /\ call'[q].method = call[q].method
  BY <1>1, <1>2, CallGoesOn DEF CreateUser, CreateCode, CountTrial, CallSteps, AuthTurns, Finished
<1>4. UNCHANGED <<mfa, session, limited, overtaken>> /\ (AuthFault \/ authFaults' = authFaults)
  BY DEF CreateUser, CreateCode, CountTrial, NoAuthFault, codeVars, userVars
<1>5. account' \in BOOLEAN /\ (account => account')  BY <1>1 DEF CreateUser, CreateCode, CountTrial, userVars
<1>6. codes' = codes \/ (codes' = Append(codes, q) /\ call[q].step = "mint" /\ call'[q].step \in Finished)
  BY <1>2, <1>3 DEF Finished
<1>7. \/ trials' = trials
      \/ /\ trials' = [trials EXCEPT ![call[q].on] = @ + 1]
         /\ call[q].step = "count" /\ call'[q].step \in Finished
  BY <1>2, <1>3 DEF Finished
<1>8. \A p \in AuthCalls : Registered(p)' => Registered(p) \/ (p = q /\ ~account /\ account')
  BY <1>2, <1>3, <1>4 DEF AuthTurns, OthersPause, Registered
<1>9. mfa'.on => mfa'.secret # Nil  BY <1>4, Zenon DEF AuthCounts
<1>10. QED BY <1>1, <1>3, <1>4, <1>5, <1>6, <1>7, <1>8, <1>9, CountsKept, AuthFaultsStay DEF AuthCounts

\* Every step keeps the counts.
LEMMA AuthCountsStay == AuthInv /\ AuthInv' /\ AuthCounts /\ [AuthNext]_authVars => AuthCounts'
<1> SUFFICES ASSUME AuthInv, AuthInv', AuthCounts, [AuthNext]_authVars PROVE AuthCounts'  OBVIOUS
<1>1. CASE UNCHANGED <<call, userVars, session, codes, trials, authFaults, overtaken>> /\ limited' \in BOOLEAN
  BY <1>1 DEF AuthCounts, userVars, Minted, Tried, Registered
<1>2. CASE LimitExpires  BY <1>1, <1>2 DEF LimitExpires
<1>3. CASE UNCHANGED authVars  BY <1>1, <1>3 DEF authVars, codeVars, AuthCounts
<1>4. QED BY <1>2, <1>3, AllBeginningsCount, AllGoingsCount, MakersCount DEF AuthNext

\* The invariants give the types with their bounds.
LEMMA AuthTyped == AuthInv /\ AuthCounts => AuthTypeOK
<1> SUFFICES ASSUME AuthInv, AuthCounts PROVE AuthTypeOK  OBVIOUS
<1>1. AuthShape  BY DEF AuthInv, AccessInv
<1>2. PICK n : n = Cardinality(AuthCalls)  OBVIOUS
<1>3. ASSUME NEW S \in SUBSET AuthCalls PROVE Cardinality(S) \in Nat /\ n \in Nat /\ Cardinality(S) <= n
  BY <1>2, CallsAdded
<1>4. Len(codes) <= n  BY <1>3, <1>1 DEF Minted, AuthShape, AuthCounts
<1>5. trials \in [AuthCalls -> 0..n]
  <2>1. ASSUME NEW c \in AuthCalls PROVE trials[c] \in 0..n
    <3>1. PICK m : m = Cardinality(Tried(c))  OBVIOUS
    <3>2. m \in Nat /\ n \in Nat /\ m <= n  BY <1>3, <3>1 DEF Tried
    <3>3. QED BY <1>1, <3>1, <3>2 DEF AuthShape, AuthCounts
  <2>2. QED BY <1>1, <2>1 DEF AuthShape
<1>6. Cardinality({q \in AuthCalls : call[q].method = "register" /\ session[q] # "none"}) <= 1
  <2> DEFINE S == {q \in AuthCalls : call[q].method = "register" /\ session[q] # "none"}
  <2>1. \A p, q \in S : p = q  BY Zenon DEF AuthCounts, Registered
  <2>2. CASE S = {}  BY <2>2, FS_EmptySet
  <2>3. CASE S # {}
    <3>1. PICK q : S = {q}  BY <2>1, <2>3
    <3>2. QED BY <3>1, FS_Singleton
  <2>4. QED BY <2>2, <2>3
<1>7. mfa \in [on : BOOLEAN, secret : AuthCalls \cup {Nil, NoSecret}] /\ (mfa.on => mfa.secret # Nil)
  BY <1>1, Zenon DEF AuthShape, AuthCounts
<1>8. QED BY <1>1, <1>2, <1>4, <1>5, <1>6, <1>7 DEF AuthTypeOK, AuthShape, AuthCounts

--------
\* The components together (MCServices).

\* The variables of every component keep their types, for any members, requests, calls, files and
\* videos; of accounts also that there are no more codes and counted guesses than calls that could
\* have made them, that a second factor in use has a secret, and that one registration got in.
THEOREM ServicesTypesHold == Spec => []TypesOK
<1>1. Init => GraphInv /\ PayInv /\ AuthInv /\ AuthCounts /\ UploadInv /\ VideoInv
  <2>1. AuthInit => AuthCounts
    <3> SUFFICES ASSUME AuthInit PROVE AuthCounts  OBVIOUS
    <3>1. \A q \in AuthCalls : ~Registered(q)  BY DEF AuthInit, IdleCall, Registered, Nil
    <3>2. Cardinality(Minted) \in Nat /\ \A c \in AuthCalls : Cardinality(Tried(c)) \in Nat
      BY CallsAdded DEF Minted, Tried
    <3>3. account \in BOOLEAN /\ limited \in BOOLEAN /\ (mfa.on => mfa.secret # Nil)  BY DEF AuthInit
    <3>4. Len(codes) = 0 /\ \A c \in AuthCalls : trials[c] = 0  BY DEF AuthInit
    <3>5. authFaults = 0 /\ overtaken = {}  BY DEF AuthInit
    <3>6. QED BY <3>1, <3>2, <3>3, <3>4, <3>5, AuthAssumption DEF AuthCounts
  <2>2. QED BY <2>1, GraphStarts, PayStarts, AuthStarts, UploadStarts, VideoStarts DEF Init
<1>2. [Next]_vars => /\ [GraphNext]_graphVars /\ [PayNext]_payVars /\ [AuthNext]_authVars
                     /\ [UploadNext]_uploadVars /\ [VideoNext]_videoVars
  BY DEF Next, vars, GraphStep, PaymentStep, AuthStep, UploadStep, VideoStep
<1>3. GraphInv /\ PayInv /\ AuthInv /\ AuthCounts /\ UploadInv /\ VideoInv /\ [Next]_vars =>
         (GraphInv /\ PayInv /\ AuthInv /\ AuthCounts /\ UploadInv /\ VideoInv)'
  BY <1>2, GraphSteps, PayStep, AuthStepIsSound, AuthCountsStay, UploadInductive, VideoInductive
<1>4. GraphInv /\ PayInv /\ AuthInv /\ AuthCounts /\ UploadInv /\ VideoInv => TypesOK
  BY TypesFollow, AuthTyped DEF GraphInv, PayInv, VideoInv, VideoTypes, EditorsFit, VideoTypeOK, TypesOK
<1>5. QED BY <1>1, <1>3, <1>4, PTL DEF Spec

=====
