---- MODULE MCStores ----
\* What is kept beside the tables, and the catalogue and carts of the
\* shop, checked in one run.  The components share no state; a behaviour
\* is one of theirs.
EXTENDS SessionCache, Boards, Shop, FeedCache, Presence, FeedService, Profiles, Recommender, SearchIndex,
        TLC

CONSTANTS a1, a2, a3, b1, b2, Components

VARIABLE active
vars == <<active, sessVars, boardVars, cartVars, shopVars, feedVars, presVars, pageVars, profVars, recVars,
          searchVars>>

\* What is not in use starts in one way.
Init ==
    /\ active \in Components
    /\ SessInit /\ (active # "sessions" => userSessions = {})
    /\ BoardInit /\ (active # "boards" => subject = "gifts")
    /\ CartInit /\ (active # "carts" => carts = {})
    /\ CatalogueInit
    /\ active # "catalogue" => product.title = "t1" /\ \A c \in ShopCalls : shopCall[c].step = "new"
    /\ FeedInit
    /\ PresInit /\ (active # "presence" => about = "user")
    /\ FeedServiceInit /\ (active # "pages" => matter = "pages")
    /\ ProfInit
    /\ RecInit /\ (active # "recommendations" => recMode = "matrix")
    /\ SearchInit /\ (active # "search" => searchMode = "index" /\ ~filtering)

SessionStep ==
    /\ active = "sessions" /\ SessNext
    /\ UNCHANGED <<active, boardVars, cartVars, shopVars, feedVars, presVars, pageVars, profVars, recVars, searchVars>>
BoardStep ==
    /\ active = "boards" /\ BoardNext
    /\ UNCHANGED <<active, sessVars, cartVars, shopVars, feedVars, presVars, pageVars, profVars, recVars, searchVars>>
CartStep ==
    /\ active = "carts" /\ CartNext
    /\ UNCHANGED <<active, sessVars, boardVars, shopVars, feedVars, presVars, pageVars, profVars, recVars, searchVars>>
CatalogueStep ==
    /\ active = "catalogue" /\ CatalogueNext
    /\ UNCHANGED <<active, sessVars, boardVars, cartVars, feedVars, presVars, pageVars, profVars, recVars, searchVars>>
FeedStep ==
    /\ active = "feeds" /\ FeedNext
    /\ UNCHANGED <<active, sessVars, boardVars, cartVars, shopVars, presVars, pageVars, profVars, recVars, searchVars>>
PresenceStep ==
    /\ active = "presence" /\ PresNext
    /\ UNCHANGED <<active, sessVars, boardVars, cartVars, shopVars, feedVars, pageVars, profVars, recVars, searchVars>>
PageStep ==
    /\ active = "pages" /\ FeedServiceNext
    /\ UNCHANGED <<active, sessVars, boardVars, cartVars, shopVars, feedVars, presVars, profVars, recVars, searchVars>>
ProfileStep ==
    /\ active = "profiles" /\ ProfNext
    /\ UNCHANGED <<active, sessVars, boardVars, cartVars, shopVars, feedVars, presVars, pageVars, recVars, searchVars>>
RecommendationStep ==
    /\ active = "recommendations" /\ RecNext
    /\ UNCHANGED <<active, sessVars, boardVars, cartVars, shopVars, feedVars, presVars, pageVars, profVars, searchVars>>
SearchStep ==
    /\ active = "search" /\ SearchNext
    /\ UNCHANGED <<active, sessVars, boardVars, cartVars, shopVars, feedVars, presVars, pageVars, profVars, recVars>>

Next ==
    \/ SessionStep \/ BoardStep \/ CartStep \/ CatalogueStep \/ FeedStep \/ PresenceStep \/ PageStep
    \/ ProfileStep \/ RecommendationStep \/ SearchStep

Spec == Init /\ [][Next]_vars

TheComponents == {"sessions", "boards", "carts", "catalogue", "feeds", "presence", "pages",
                   "profiles", "recommendations", "search"}
\* Any video may be liked, the third skipped.
SomeEvents == Fans \X Vids \X {1} \cup Fans \X {3} \X {-1}
MadeBy == [v \in Vids |-> IF v = 3 THEN "d2" ELSE "d1"]
SimilarOnes == [v \in Vids |-> {(v % 3) + 1}]
Ranks == [v \in Films |-> IF v = 3 THEN 2 ELSE v]
SomeBuilds == {{1, 2, 3}, {1, 3}}
Symmetry == Permutations({a1, a2, a3}) \cup Permutations({b1, b2})

--------
\* The type invariant of the component in use; nothing of the others changes.
TypesOK ==
    CASE active = "sessions" -> SessTypeOK
      [] active = "boards" -> BoardTypeOK
      [] active = "carts" -> CartTypeOK
      [] active = "feeds" -> FeedTypeOK
      [] active = "presence" -> PresTypeOK
      [] active = "pages" -> FeedServiceTypeOK
      [] active = "profiles" -> ProfTypeOK
      [] active = "recommendations" -> RecTypeOK
      [] active = "search" -> SearchTypeOK
      [] OTHER -> CatalogueTypeOK

\* What is kept beside the rows: a session that was ended stays so, a board ranks what was earned,
\* a feed has the newest, a user is online by their heartbeat, and a profile's copies, avatar and badge
\* are those of its row; each but for the races and the failures its module names.
CachesAreTrue ==
    /\ active = "sessions" => SessionsAreKept
    /\ active = "boards" => BoardsAreTrue
    /\ active = "feeds" => FeedsAreKept
    /\ active = "presence" => PresenceIsTrue
    /\ active = "profiles" => ProfilesAreKept

\* What is in carts and orders was put there, stock is held for it, and a search shows what the
\* catalogue has.
ShopIsTrue ==
    /\ active = "carts" => CartsAreTrue
    /\ active = "catalogue" => CatalogueAgrees

\* The pages of a feed hold what was built, each video once; what is recommended was earned by what users
\* watched; and a search finds what the topic of changes says, page after page.
WhatIsServed ==
    /\ active = "pages" => FeedsAreServed
    /\ active = "recommendations" => RecommendationsHold
    /\ active = "search" => SearchHolds

=====
