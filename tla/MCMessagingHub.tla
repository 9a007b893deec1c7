---- MODULE MCMessagingHub ----
\* Two users; alice may have two tabs, bob has one connection.
EXTENDS MessagingHub

CONSTANTS alice, bob, a1, a2, b1, chat, team

OwnerOf == [c \in Conns |-> IF c = b1 THEN bob ELSE alice]
BothTakePart == [k \in Convs |-> IF k = chat THEN {alice, bob} ELSE {alice}]
NoChanges == {}
AliceJoins == {<<alice, chat>>}

Opened == {c \in Conns : reader'[c] # "new"}

\* An ACTION_CONSTRAINT: a connection each and two broadcasts, or two tabs of alice, who
\* leaves and joins the conversation, and one broadcast.
InScenario ==
    \/ Opened \subseteq {a1, b1} /\ members' = members /\ members = OpeningMembers
    \/ Opened \subseteq {a1, a2} /\ posted' <= 1

=====
