---- MODULE DirectMessages ----
\* Conversations of the deployed backend (backend/main.go): finding or
\* creating the conversation of two users, sending to it and reading it.
\* Every statement is a step; there is no transaction and no uniqueness.
\* The order of the list (updated_at) and the read marks are left out.
EXTENDS Integers, FiniteSets

CONSTANTS
    Folks,            \* users
    Talks,            \* ids of conversations
    Taps,             \* HTTP requests; each is used once (bounds everything)
    MaxDMFaults       \* statements that fail, requests that end early

ASSUME DirectMessagesAssumption == MaxDMFaults \in Nat

VARIABLES
    tap,              \* what each request is doing
    talks,            \* rows of conversations
    members,          \* rows of conversation_members
    messages,         \* rows of messages
    dmFaults,
    pairsRaced        \* pairs of users two requests sought at once, so far

dmVars == <<tap, talks, members, messages, dmFaults, pairsRaced>>

Nobody == "none"
TapSteps == {"idle", "create", "join", "send", "read", "handed", "sent", "shown", "refused", "failed"}
IdleTap == [step |-> "idle", by |-> Nobody, with |-> Nobody, talk |-> Nobody]
TapRecords == [step : TapSteps, by : Folks \cup {Nobody}, with : Folks \cup {Nobody},
               talk : Talks \cup {Nobody}]

DMInit ==
    /\ tap = [q \in Taps |-> IdleTap]
    /\ talks = {} /\ members = [k \in Talks |-> {}] /\ messages = {}
    /\ dmFaults = 0 /\ pairsRaced = {}

TapGoes(q, step) == tap' = [tap EXCEPT ![q].step = step]
DMFault == dmFaults < MaxDMFaults /\ dmFaults' = dmFaults + 1
NoDMFault == UNCHANGED dmFaults
Parties(q) == {tap[q].by, tap[q].with}

\* The two self-joins of conversation_members.
TalksOf(u, w) == {k \in talks : u \in members[k] /\ w \in members[k]}

\* createOrGetConversation: the first conversation both are members of, if any.  A look-up that
\* fails hands out the id 0, which is no conversation's.
FindConversation(q, u, w) ==
    /\ tap[q].step = "idle" /\ u # w
    /\ \/ \E k \in TalksOf(u, w) :
             /\ tap' = [tap EXCEPT ![q] = [step |-> "handed", by |-> u, with |-> w, talk |-> k]]
             /\ NoDMFault
       \/ /\ TalksOf(u, w) = {} /\ NoDMFault
          /\ tap' = [tap EXCEPT ![q] = [step |-> "create", by |-> u, with |-> w, talk |-> Nobody]]
       \/ /\ DMFault
          /\ tap' = [tap EXCEPT ![q] = [step |-> "handed", by |-> u, with |-> w, talk |-> Nobody]]
    /\ pairsRaced' = IF \E p \in Taps : tap[p].step \in {"create", "join"} /\ Parties(p) = {u, w}
                     THEN pairsRaced \cup {{u, w}} ELSE pairsRaced
    /\ UNCHANGED <<talks, members, messages>>

CreateConversation(q) ==
    /\ tap[q].step = "create"
    /\ \/ \E k \in Talks \ talks :
             /\ talks' = talks \cup {k}
             /\ tap' = [tap EXCEPT ![q].step = "join", ![q].talk = k]
             /\ NoDMFault
       \/ UNCHANGED talks /\ TapGoes(q, "failed") /\ DMFault
    /\ UNCHANGED <<members, messages, pairsRaced>>

\* Both rows in one statement.  Its error is dropped and the id handed out.
InsertMembers(q) ==
    /\ tap[q].step = "join"
    /\ \/ members' = [members EXCEPT ![tap[q].talk] = Parties(q)] /\ NoDMFault
       \/ UNCHANGED members /\ DMFault
    /\ TapGoes(q, "handed")
    /\ UNCHANGED <<talks, messages, pairsRaced>>

\* Mutant: the membership is not looked up.
EnterUnchecked(q, u, k, step) ==
    /\ tap[q].step = "idle" /\ k \in talks
    /\ tap' = [tap EXCEPT ![q] = [step |-> step, by |-> u, with |-> Nobody, talk |-> k]]
    /\ UNCHANGED <<talks, members, messages, dmFaults, pairsRaced>>

\* The membership check both endpoints start with.
Enter(q, u, k, step) ==
    /\ tap[q].step = "idle"
    /\ tap' = [tap EXCEPT ![q] = [step |-> IF u \in members[k] THEN step ELSE "refused",
                                  by |-> u, with |-> Nobody, talk |-> k]]
    /\ UNCHANGED <<talks, members, messages, dmFaults, pairsRaced>>

\* sendMessage: the row, after the check.
SendMessage(q) ==
    /\ tap[q].step = "send"
    /\ \/ /\ messages' = messages \cup {[id |-> q, talk |-> tap[q].talk, by |-> tap[q].by]}
          /\ TapGoes(q, "sent") /\ NoDMFault
       \/ UNCHANGED messages /\ TapGoes(q, "failed") /\ DMFault
    /\ UNCHANGED <<talks, members, pairsRaced>>

\* getMessages: the list, after the check.
GetMessages(q) ==
    /\ tap[q].step = "read" /\ TapGoes(q, "shown")
    /\ UNCHANGED <<talks, members, messages, dmFaults, pairsRaced>>

\* The process ends.
TapEndsEarly(q) ==
    /\ tap[q].step \in {"create", "join", "send", "read"} /\ DMFault
    /\ TapGoes(q, "failed")
    /\ UNCHANGED <<talks, members, messages, pairsRaced>>

DMNext ==
    \E q \in Taps :
        \/ \E u, w \in Folks : FindConversation(q, u, w)
        \/ \E u \in Folks, k \in Talks : Enter(q, u, k, "send") \/ Enter(q, u, k, "read")
        \/ CreateConversation(q) \/ InsertMembers(q) \/ SendMessage(q) \/ GetMessages(q)
        \/ TapEndsEarly(q)

DMSpec == DMInit /\ [][DMNext]_dmVars

--------
\* Properties.

\* A conversation is between two users, or nobody can reach it.
DMTypeOK ==
    /\ tap \in [Taps -> TapRecords]
    /\ talks \subseteq Talks
    /\ members \in [Talks -> SUBSET Folks]
    /\ \A k \in Talks : members[k] # {} => k \in talks /\ Cardinality(members[k]) = 2
    /\ messages \subseteq [id : Taps, talk : Talks, by : Folks]
    /\ dmFaults \in 0..MaxDMFaults

\* Two users have one conversation, whoever asked for it and whatever failed, unless two
\* requests for the pair were under way at once.
OneConversationPerPair ==
    \A u, w \in Folks : u # w /\ {u, w} \notin pairsRaced =>
        Cardinality({k \in Talks : members[k] = {u, w}}) <= 1

\* While no statement failed, the conversation a request is given is one that the two
\* users it asked for can use, now and later.
HandedOutIsUsable ==
    dmFaults = 0 =>
        \A q \in Taps : tap[q].step = "handed" => members[tap[q].talk] = Parties(q)

\* ... and so a chat that was opened stays the one chat of its two users.
OneUsableConversation == OneConversationPerPair /\ HandedOutIsUsable

\* The check at the start of a request still holds when its statement runs: whoever wrote
\* a message or was shown one is a party to that conversation, and to that one only
\* through the conversation's own two rows.
OnlyPartiesTalk ==
    /\ \A n \in messages : n.by \in members[n.talk]
    /\ \A q \in Taps : tap[q].step \in {"sent", "shown"} => tap[q].by \in members[tap[q].talk]

\* A conversation belongs to the two users it was opened for, and to them alone.
ChatsBelongToTheirTwo == OneUsableConversation /\ OnlyPartiesTalk

=====
