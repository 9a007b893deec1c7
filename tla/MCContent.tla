---- MODULE MCContent ----
\* Services around the content, checked in one run: limits on requests,
\* moderation and its reviews, notifications, likes and replies as three
\* services keep them, and the ads.  They share no state; a behaviour is
\* one of theirs.
EXTENDS RateLimits, Moderation, Reviews, Notifications, Interactions, Ads, TLC

CONSTANTS a1, a2, a3, b1, b2, Components

VARIABLE active
\* No disturbance of the notifications.
NoBudget == [deaths |-> 0, faults |-> 0, handovers |-> 0, edits |-> 0, reads |-> 0]

\* Phones change hands, and preferences are edited, while one partition is quiet.
UsersAct ==
    {[NoBudget EXCEPT !.deaths = 1, !.handovers = 1], [NoBudget EXCEPT !.faults = 1, !.handovers = 2],
     [NoBudget EXCEPT !.deaths = 1, !.edits = 2], [NoBudget EXCEPT !.faults = 1, !.edits = 2]}
QuietPartition == worker'["p2"].step = "idle"

vars == <<active, rateVars, modVars, reviewVars, noteVars, actVars, adVars>>

Init ==
    /\ active \in Components
    /\ RateInit /\ ModInit /\ ReviewInit /\ NoteInit /\ ActInit /\ AdInit
    \* What is not in use starts in one way.
    /\ active # "rates" => limiter = "gateway"
    /\ active # "reviews" => result[CHOOSE w \in Works : TRUE] = "rejected"
    /\ active = "notes" => left \notin UsersAct
    /\ active = "users" => left \in UsersAct
    /\ active \notin {"notes", "users"} => firebase /\ left = [NoBudget EXCEPT !.deaths = 1]
    /\ active # "likes" => keeper = "like" /\ marks = {} /\ cache = NoKey
    /\ active # "ads" => campaign = "active"

RateStep ==
    active = "rates" /\ RateNext /\ UNCHANGED <<active, modVars, reviewVars, noteVars, actVars, adVars>>
ModerationStep ==
    active = "moderation" /\ ModNext /\ UNCHANGED <<active, rateVars, reviewVars, noteVars, actVars, adVars>>
ReviewStep ==
    active = "reviews" /\ ReviewNext /\ UNCHANGED <<active, rateVars, modVars, noteVars, actVars, adVars>>
NoteStep ==
    /\ active \in {"notes", "users"} /\ NoteNext /\ (active = "users" => QuietPartition)
    /\ UNCHANGED <<active, rateVars, modVars, reviewVars, actVars, adVars>>
ActStep ==
    active = "likes" /\ ActNext /\ UNCHANGED <<active, rateVars, modVars, reviewVars, noteVars, adVars>>
AdStep ==
    active = "ads" /\ AdNext /\ UNCHANGED <<active, rateVars, modVars, reviewVars, noteVars, actVars>>

Next == RateStep \/ ModerationStep \/ ReviewStep \/ NoteStep \/ ActStep \/ AdStep

Spec == Init /\ [][Next]_vars

TheComponents == {"rates", "moderation", "reviews", "notes", "users", "likes", "ads"}
Symmetry == Permutations({a1, a2, a3}) \cup Permutations({b1, b2})

--------
\* A text without anything suspicious, and one full of it.
PlainText == [runes |-> 40, words |-> 8, tags |-> 1, sameTag |-> 1, urls |-> 0, phrases |-> 0,
              differing |-> 100, likeness |-> 0]
FullText == [runes |-> 3000, words |-> 40, tags |-> 20, sameTag |-> 3, urls |-> 4, phrases |-> 4,
             differing |-> 25, likeness |-> 60]
TwoTexts == {PlainText, FullText}

\* Two partitions: a like of u1 and an event that names its channels, for both users; another
\* like of u1.
LikeOf(u) == [to |-> <<u>>, group |-> "likes", explicit |-> FALSE, push |-> FALSE]
TwoPartitions ==
    [p \in Parts |-> IF p = "p1"
                     THEN <<LikeOf("u1"),
                            [to |-> <<"u1", "u2">>, group |-> "none", explicit |-> TRUE, push |-> TRUE]>>
                     ELSE <<LikeOf("u1")>>]
TwoWishes == [e \in Edits |-> [user |-> "u1", field |-> IF e = "e1" THEN "likes" ELSE "quiet"]]

\* A few kinds of disturbance in a behaviour.
SomeDisturbances ==
    {[NoBudget EXCEPT !.deaths = 1], [NoBudget EXCEPT !.faults = 1], [NoBudget EXCEPT !.edits = 1],
     [NoBudget EXCEPT !.reads = 1]} \cup UsersAct

\* An ad set for one country; users of that one and of another.
AnyUser == [c \in Criteria |-> {}]
OneCountry == [AnyUser EXCEPT !["country"] = {"at"}]
TwoUsers == {OneCountry, [AnyUser EXCEPT !["country"] = {"de"}]}

\* The type invariant of the component in use; nothing of the others changes.
TypesOK ==
    CASE active = "rates" -> RateTypeOK
      [] active = "moderation" -> ModTypeOK
      [] active = "reviews" -> ReviewTypeOK
      [] active \in {"notes", "users"} -> NoteTypeOK
      [] active = "likes" -> ActTypeOK
      [] OTHER -> AdTypeOK

=====
