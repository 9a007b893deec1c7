---- MODULE MCServices ----
\* Services that share no state, checked in one run: the social graph,
\* payments, accounts' sessions, and the uploads and videos of the
\* video-service.  A behaviour is one of theirs.
EXTENDS SocialGraph, Payments, AuthSessions, Uploads, Videos, TLC

CONSTANTS a1, a2, a3, b1, b2, k1, k2, Components

VARIABLE active
vars == <<active, graphVars, payVars, authVars, uploadVars, videoVars>>

Init ==
    /\ active \in Components
    /\ GraphInit /\ PayInit /\ AuthInit /\ UploadInit /\ VideoInit
    \* What is not in use starts in one way.
    /\ active # "graph" => edges = {}
    /\ active # "payments" => customer
    /\ active # "auth" => account
    /\ active # "uploads" => uploadRow = NoUpload

GraphStep ==
    active = "graph" /\ GraphNext /\ UNCHANGED <<active, payVars, authVars, uploadVars, videoVars>>
PaymentStep ==
    active = "payments" /\ PayNext /\ UNCHANGED <<active, graphVars, authVars, uploadVars, videoVars>>
AuthStep ==
    active = "auth" /\ AuthNext /\ UNCHANGED <<active, graphVars, payVars, uploadVars, videoVars>>
UploadStep ==
    active = "uploads" /\ UploadNext /\ UNCHANGED <<active, graphVars, payVars, authVars, videoVars>>
VideoStep ==
    active = "videos" /\ VideoNext /\ UNCHANGED <<active, graphVars, payVars, authVars, uploadVars>>

Next == GraphStep \/ PaymentStep \/ AuthStep \/ UploadStep \/ VideoStep

Spec == Init /\ [][Next]_vars

TheComponents == {"graph", "payments", "auth", "uploads", "videos"}
GraphDuties == {"follow", "unfollow", "block", "count", "suggest"}
AllMethods == Methods
PaymentKinds == [k \in PayKeys |-> CASE k = k1 -> "coin_purchase"
                                     [] k = k2 -> "subscription"
                                     [] OTHER -> "withdrawal"]
Symmetry == Permutations({a1, a2, a3}) \cup Permutations({b1, b2})

\* The type invariant of the component in use; nothing of the others changes.
TypesOK ==
    CASE active = "graph" -> GraphTypeOK
      [] active = "payments" -> PayTypeOK
      [] active = "auth" -> AuthTypeOK
      [] active = "uploads" -> UploadTypeOK
      [] OTHER -> VideoTypeOK

=====
