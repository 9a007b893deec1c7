---- MODULE ContentProofs ----
\* Proofs about requests and content: the gateway's sliding windows
\* (RateLimits), the worker that moderates videos (Moderation), what
\* moderators decide and owners appeal (Reviews), likes and replies
\* (Interactions), notifications (Notifications) and ads (Ads), for any
\* number of events, requests and users, and any window, delay and limit.
\*
\* No property of the six is inductive.  RateLimits: the size a script
\* compares bounds the window only because nothing younger than a window
\* has been trimmed, and a bucket bounds what it admits only because it
\* keeps account from every moment on, and is forgotten no earlier than it
\* is full.  Moderation: that the position is earned needs that
\* whatever is past the statement that stores a result has one, and that
\* marks are of events that were taken.  Reviews: a stored decision
\* depends on who is between the checks and the statements of a request,
\* so the invariant says what every such request has seen and that those
\* who met nobody are alone.  Interactions: a count in the cache comes
\* from a reader, so the invariant says what a reader that met nobody
\* holds.  Notifications: a position is committed after the last user of
\* an event, so the invariant says who of the event in hand is dealt with.
\* Ads: a cap bounds what was counted, so the invariant counts the ads
\* that may still be shown, and what a request holds that meets nobody.
EXTENDS MCContent, FiniteSetTheorems, WellFoundedInduction, TLAPS

--------
\* Rate limits: the gateway's sliding windows.

RateInWindow == [at : 0..MaxClock, tag : Nat]

FiniteSoFar == \A w \in Windows : IsFiniteSet(zset[w]) /\ IsFiniteSet(admitted[w])

\* A script that will still run was given a time less than a window ago.
CallsAreRecent ==
    \A c \in Calls :
        /\ call[c].at <= clock
        /\ Waiting(c) => clock - call[c].at <= MaxDelay
        /\ limiter = "gateway" => call[c].size = 1

\* What a window remembers of what it admitted.
Since(es, t) == {e \in es : e.at > t - Window}

Remembers(w) ==
    /\ latest[w] <= clock
    /\ \A e \in admitted[w] : e.at <= latest[w] /\ e.at + 2 * Window <= expires[w]
    /\ \A m \in zset[w] : m.at <= latest[w] /\ m.at > latest[w] - Window
    /\ \A m \in zset[w] : m.at = latest[w] => m.tag < Cardinality(zset[w])
    /\ Cardinality(zset[w]) <= Limit
    /\ \A t \in Nat : t >= latest[w] =>
          Cardinality(Since(admitted[w], t)) <= Cardinality(Since(zset[w], t))

RateInv ==
    /\ RateTypeOK /\ FiniteSoFar /\ CallsAreRecent
    /\ limiter = "gateway" /\ ~overtaken => \A w \in Windows : Remembers(w) /\ Bounded(w)

--------
\* A part of a finite set is finite and no larger (Cardinality of the script's ZCARD).
LEMMA PartIsSmaller ==
    ASSUME NEW S, IsFiniteSet(S), NEW P, P \subseteq S
    PROVE  IsFiniteSet(P) /\ Cardinality(P) \in Nat /\ Cardinality(P) <= Cardinality(S)
BY FS_Subset, FS_CardinalityType

\* An element added to a finite set counts at most one, and one if it is new (ZADD).
LEMMA OneMore ==
    ASSUME NEW S, IsFiniteSet(S), NEW x
    PROVE  /\ IsFiniteSet(S \cup {x})
           /\ Cardinality(S \cup {x}) \in Nat /\ Cardinality(S) \in Nat
           /\ Cardinality(S \cup {x}) <= Cardinality(S) + 1
           /\ x \notin S => Cardinality(S \cup {x}) = Cardinality(S) + 1
<1>1. CASE x \in S
  <2>1. S \cup {x} = S  BY <1>1
  <2>2. Cardinality(S) \in Nat  BY FS_CardinalityType
  <2> QED BY <1>1, <2>1, <2>2
<1>2. CASE x \notin S
  <2>1. IsFiniteSet(S \cup {x}) /\ Cardinality(S \cup {x}) = Cardinality(S) + 1  BY <1>2, FS_AddElement
  <2> QED BY <2>1, FS_CardinalityType
<1> QED BY <1>1, <1>2

\* The steps of a call keep its record well formed (Check, CheckN and the middleware).
LEMMA CallTyped ==
    ASSUME RateTypeOK, NEW c \in Calls, NEW s \in CallSteps, Moves(c, s) \/ Ends(c, s)
    PROVE  call' \in [Calls -> [step : CallSteps, at : 0..MaxClock, size : Sizes \cup {1}]]
<1> DEFINE R == [step : CallSteps, at : 0..MaxClock, size : Sizes \cup {1}]
<1>1. call \in [Calls -> R] /\ clock \in 0..MaxClock /\ 0 \in 0..MaxClock  BY RateAssumption DEF RateTypeOK
<1>2. call[c] \in R  BY <1>1
<1>3. \A t \in 0..MaxClock : [call[c] EXCEPT !.step = s, !.at = t] \in R  BY <1>2
<1>4. \/ call' = [call EXCEPT ![c] = [call[c] EXCEPT !.step = s, !.at = clock]]
      \/ call' = [call EXCEPT ![c] = [call[c] EXCEPT !.step = s, !.at = 0]]
  BY <1>1 DEF Moves, Ends
<1> HIDE DEF R
<1>5. call' \in [Calls -> R]  BY <1>1, <1>3, <1>4
<1> QED BY <1>5 DEF R

\* What the script of one window leaves is of the types, and finite (the Lua scripts).
LEMMA ScriptTyped ==
    ASSUME RateTypeOK, FiniteSoFar, NEW w \in Windows, NEW c \in Calls, Script(w, c)
    PROVE  /\ zset' \in [Windows -> SUBSET RateInWindow] /\ expires' \in [Windows -> Nat]
           /\ admitted' \in [Windows -> SUBSET Entries]
           /\ latest' \in [Windows -> 0..MaxClock] /\ overtaken' \in BOOLEAN
           /\ FiniteSoFar'
<1> DEFINE K == Kept(w, call[c].at)
           e == [of |-> c, at |-> call[c].at, size |-> call[c].size]
           m == [at |-> call[c].at, tag |-> Tag(w, c)]
<1>1. K \subseteq zset[w] /\ IsFiniteSet(K) /\ Cardinality(K) \in Nat  BY PartIsSmaller DEF Kept, FiniteSoFar
<1>2. call[c].at \in 0..MaxClock /\ call[c].size \in Sizes \cup {1} /\ e \in Entries
  BY DEF RateTypeOK, Entries
<1>3. call[c].size \in Nat  BY <1>2, RateAssumption
<1>4. Tag(w, c) \in Nat  BY <1>1, <1>3 DEF Tag
<1>5. m \in RateInWindow /\ K \subseteq RateInWindow  BY <1>1, <1>2, <1>4 DEF RateTypeOK, RateInWindow
<1>6. Lasts \in Nat /\ clock \in Nat  BY RateAssumption DEF Lasts, RateTypeOK
<1>7. latest' \in [Windows -> 0..MaxClock] /\ overtaken' \in BOOLEAN  BY <1>2 DEF Script, Notes, RateTypeOK
<1>8. CASE Room(w, c)
  <2>1. /\ admitted' = [admitted EXCEPT ![w] = @ \cup {e}]
        /\ zset' = [zset EXCEPT ![w] = K \cup {m}]
        /\ expires' = [expires EXCEPT ![w] = clock + Lasts]
    BY <1>8 DEF Script, Admits
  <2> HIDE DEF K, e, m
  <2>2. IsFiniteSet(K \cup {m}) /\ IsFiniteSet(admitted[w] \cup {e})  BY <1>1, OneMore DEF FiniteSoFar
  <2>3. zset' \in [Windows -> SUBSET RateInWindow]  BY <2>1, <1>5 DEF RateTypeOK, RateInWindow
  <2>4. admitted' \in [Windows -> SUBSET Entries]  BY <2>1, <1>2 DEF RateTypeOK
  <2>5. expires' \in [Windows -> Nat]  BY <2>1, <1>6 DEF RateTypeOK
  <2>6. FiniteSoFar'  BY <2>1, <2>2 DEF FiniteSoFar, RateTypeOK
  <2> QED BY <2>3, <2>4, <2>5, <2>6, <1>7
<1>9. CASE ~Room(w, c)
  <2>1. zset' = [zset EXCEPT ![w] = K] /\ UNCHANGED <<admitted, expires>>  BY <1>9 DEF Script
  <2> HIDE DEF K
  <2>2. zset' \in [Windows -> SUBSET RateInWindow] /\ FiniteSoFar'
    BY <2>1, <1>1, <1>5 DEF FiniteSoFar, RateTypeOK, RateInWindow
  <2> QED BY <2>1, <2>2, <1>7 DEF RateTypeOK
<1> QED BY <1>8, <1>9

\* The script forgets only what is outside the windows still to come.
LEMMA KeptSince ==
    ASSUME RateInv, NEW w \in Windows, NEW a \in 0..MaxClock, clock < expires[w],
           NEW t \in Nat, t >= a
    PROVE  Since(Kept(w, a), t) = Since(zset[w], t)
BY RateAssumption DEF RateInv, RateTypeOK, Kept, Since

\* A key that is gone held nothing a window still to come looks at.
LEMMA ExpiredIsOver ==
    ASSUME RateInv, limiter = "gateway", ~overtaken, NEW w \in Windows, NEW c \in Calls,
           Waiting(c), clock >= expires[w], NEW t \in Nat, t >= call[c].at
    PROVE  Since(admitted[w], t) = {}
<1>1. \A e \in admitted[w] : e.at + 2 * Window <= clock /\ e.at \in Nat
  BY RateAssumption DEF RateInv, Remembers, RateTypeOK, Entries
<1>2. clock - call[c].at <= MaxDelay /\ clock \in Nat /\ call[c].at \in Nat
  BY DEF RateInv, CallsAreRecent, RateTypeOK
<1>3. MaxDelay \in Nat /\ Window \in Nat /\ MaxDelay < Window  BY RateAssumption
<1>4. \A e \in admitted[w] : ~(e.at > t - Window)  BY <1>1, <1>2, <1>3
<1> QED BY <1>4 DEF Since

\* The gateway's script keeps what its window remembers (slidingWindowScript).
LEMMA ScriptRemembers ==
    ASSUME RateInv, limiter = "gateway", NEW w \in Windows, NEW c \in Calls, Waiting(c),
           Script(w, c), ~overtaken', clock' = clock
    PROVE  Remembers(w)' /\ Bounded(w)'
<1> DEFINE a == call[c].at
           K == Kept(w, a)
           e == [of |-> c, at |-> a, size |-> call[c].size]
           m == [at |-> a, tag |-> Tag(w, c)]
<1>1. ~overtaken /\ a >= latest[w] /\ latest' = [latest EXCEPT ![w] = a]
  <2>1. /\ latest' = [latest EXCEPT ![w] = a]
        /\ overtaken' = (overtaken \/ a < latest[w])
    BY Zenon DEF Script, Notes
  <2>2. ~overtaken /\ ~(a < latest[w])  BY <2>1
  <2>3. a \in Int /\ latest[w] \in Int  BY RateAssumption DEF RateInv, RateTypeOK
  <2> QED BY <2>1, <2>2, <2>3
<1>2. Remembers(w) /\ Bounded(w)  BY <1>1 DEF RateInv
<1>3. /\ a \in 0..MaxClock /\ clock \in Nat /\ latest[w] \in Nat /\ expires[w] \in Nat
      /\ a <= clock /\ clock - a <= MaxDelay /\ call[c].size = 1
      /\ Window \in Nat \ {0} /\ Limit \in Nat \ {0} /\ MaxDelay \in Nat /\ MaxDelay < Window
      /\ MaxClock \in Nat
  BY RateAssumption DEF RateInv, CallsAreRecent, RateTypeOK
<1>4. latest'[w] = a  BY <1>1 DEF RateInv, RateTypeOK
<1>5. /\ K \subseteq zset[w] /\ IsFiniteSet(K) /\ Cardinality(K) \in Nat
      /\ Cardinality(K) <= Cardinality(zset[w]) /\ Cardinality(zset[w]) \in Nat
      /\ IsFiniteSet(zset[w]) /\ IsFiniteSet(admitted[w])
  BY PartIsSmaller, FS_CardinalityType DEF RateInv, Kept, FiniteSoFar
<1>6. \A k \in zset[w] : k.at \in Nat /\ k.tag \in Nat /\ k = [at |-> k.at, tag |-> k.tag]
  BY DEF RateInv, RateTypeOK
<1>7. \A x \in admitted[w] : x.at \in Nat  BY DEF RateInv, RateTypeOK, Entries
<1>8. \A k \in K : k.at <= a /\ k.at > a - Window  BY <1>1, <1>2, <1>3, <1>5, <1>6 DEF Remembers, Kept
<1>9. \A k \in K : k.at = a => k.tag < Cardinality(K)
  <2> SUFFICES ASSUME NEW k \in K, k.at = a PROVE k.tag < Cardinality(K)  OBVIOUS
  <2>1. a = latest[w]  BY <1>1, <1>2, <1>3, <1>5, <1>6 DEF Remembers
  <2>2. clock < expires[w]  BY DEF Kept
  <2>3. K = zset[w]  BY <2>1, <2>2, <1>2 DEF Kept, Remembers
  <2> QED BY <2>1, <2>3, <1>2 DEF Remembers
<1>10. \A t \in Nat : t >= a =>
          /\ Cardinality(Since(admitted[w], t)) \in Nat /\ Cardinality(Since(K, t)) \in Nat
          /\ IsFiniteSet(Since(admitted[w], t)) /\ IsFiniteSet(Since(K, t))
          /\ Cardinality(Since(admitted[w], t)) <= Cardinality(Since(K, t))
  BY <1>5, PartIsSmaller, <1>3, KeptSince, <1>1, <1>2, ExpiredIsOver, FS_EmptySet DEF Since, Remembers
<1>11. /\ \A x \in admitted[w] : x.at <= a
       /\ \A x \in admitted[w] : x.at + 2 * Window <= expires[w]
  BY <1>1, <1>2, <1>3, <1>7 DEF Remembers
<1>12. CASE Room(w, c)
  <2>1. /\ admitted'[w] = admitted[w] \cup {e} /\ zset'[w] = K \cup {m}
        /\ expires'[w] = clock + 2 * Window
    BY <1>12 DEF Script, Admits, Lasts, RateInv, RateTypeOK
  <2>2. m = [at |-> a, tag |-> Cardinality(K)] /\ Cardinality(K) < Limit  BY <1>12, <1>3 DEF Room, Tag
  <2> HIDE DEF K, e, m, a
  <2>3. e.at = a  BY DEF e
  <2>4. m.at = a /\ m.tag = Cardinality(K) /\ m \notin K  BY <2>2, <1>9, <1>5
  <2>5. Cardinality(K \cup {m}) = Cardinality(K) + 1  BY <2>4, <1>5, OneMore
  <2>6. /\ latest'[w] <= clock'
        /\ \A x \in admitted'[w] : x.at <= latest'[w] /\ x.at + 2 * Window <= expires'[w]
    BY <2>3, <1>3, <1>11, <1>7, <2>1, <1>4
  <2>7. /\ \A k \in zset'[w] : k.at <= latest'[w] /\ k.at > latest'[w] - Window
        /\ \A k \in zset'[w] : k.at = latest'[w] => k.tag < Cardinality(zset'[w])
        /\ Cardinality(zset'[w]) <= Limit  BY <1>9, <1>5, <1>6, <1>3, <2>1, <2>2, <2>4, <2>5, <1>4, <1>8
  <2>8. \A t \in Nat : t >= a =>
           /\ Cardinality(Since(admitted'[w], t)) <= Cardinality(Since(zset'[w], t))
           /\ Cardinality(Since(admitted'[w], t)) \in Nat /\ IsFiniteSet(Since(admitted'[w], t))
    <3> SUFFICES ASSUME NEW t \in Nat, t >= a
                 PROVE  /\ Cardinality(Since(admitted'[w], t)) <= Cardinality(Since(zset'[w], t))
                        /\ Cardinality(Since(admitted'[w], t)) \in Nat
                        /\ IsFiniteSet(Since(admitted'[w], t))
      OBVIOUS
    <3> DEFINE A == Since(admitted[w], t)
               Z == Since(K, t)
    <3>1. /\ IsFiniteSet(A) /\ IsFiniteSet(Z) /\ Cardinality(A) \in Nat /\ Cardinality(Z) \in Nat
          /\ Cardinality(A) <= Cardinality(Z)
      BY <1>10
    <3>2. CASE a > t - Window
      <4>1. Since(admitted'[w], t) = A \cup {e} /\ Since(zset'[w], t) = Z \cup {m}
        BY <2>1, <2>3, <2>4, <3>2 DEF Since
      <4>2. m \notin Z  BY <2>4 DEF Since
      <4> HIDE DEF A, Z
      <4>3. /\ IsFiniteSet(A \cup {e}) /\ Cardinality(A \cup {e}) \in Nat
            /\ Cardinality(A \cup {e}) <= Cardinality(A) + 1
        BY <3>1, OneMore
      <4>4. Cardinality(Z \cup {m}) = Cardinality(Z) + 1  BY <3>1, <4>2, OneMore
      <4> QED BY <4>1, <4>3, <4>4, <3>1
    <3>3. CASE ~(a > t - Window)  BY <2>1, <2>3, <2>4, <3>3, <3>1 DEF Since
    <3> QED BY <3>2, <3>3
  <2>9. Remembers(w)'  BY <2>6, <2>7, <2>8, <1>4 DEF Remembers
  <2>10. IsFiniteSet(zset'[w]) /\ Cardinality(zset'[w]) \in Nat  BY <1>5, OneMore, <2>1
  <2>11. ASSUME NEW t \in 0..MaxClock PROVE Cardinality(InWindow(w, t)') <= Limit
    <3>1. CASE t >= a
      <4>1. InWindow(w, t)' \subseteq Since(admitted'[w], t)  BY <2>1, <2>3, <1>7, <1>3 DEF InWindow, Since
      <4>2. Since(zset'[w], t) \subseteq zset'[w]  BY DEF Since
      <4>3. /\ Cardinality(InWindow(w, t)') \in Nat
            /\ Cardinality(InWindow(w, t)') <= Cardinality(Since(admitted'[w], t))
        BY <4>1, <2>8, <3>1, PartIsSmaller
      <4>4. /\ Cardinality(Since(zset'[w], t)) \in Nat
            /\ Cardinality(Since(zset'[w], t)) <= Cardinality(zset'[w])
        BY <4>2, <2>10, PartIsSmaller
      <4> QED BY <4>3, <4>4, <2>7, <2>8, <2>10, <3>1, <1>3
    <3>2. CASE ~(t >= a)  BY <2>1, <2>3, <3>2, <1>3, <1>2 DEF InWindow, Bounded
    <3> QED BY <3>1, <3>2
  <2> QED BY <2>9, <2>11 DEF Bounded
<1>13. CASE ~Room(w, c)
  <2>1. zset'[w] = K /\ admitted'[w] = admitted[w] /\ expires'[w] = expires[w]
    BY <1>13 DEF Script, RateInv, RateTypeOK
  <2>2. Cardinality(K) <= Limit  BY <1>2, <1>3, <1>5 DEF Remembers
  <2> HIDE DEF K, e, m, a
  <2>3. Remembers(w)'  BY <2>1, <2>2, <1>3, <1>4, <1>8, <1>9, <1>10, <1>11 DEF Remembers
  <2>4. Bounded(w)'  BY <2>1, <1>2 DEF Bounded, InWindow
  <2> QED BY <2>3, <2>4
<1> QED BY <1>12, <1>13

--------
\* The invariant holds at the start.
LEMMA RateStarts == RateInit => RateInv
<1> SUFFICES ASSUME RateInit PROVE RateInv  OBVIOUS
<1>1. /\ MaxClock \in Nat /\ Window \in Nat \ {0} /\ Limit \in Nat \ {0} /\ Capacity \in Nat \ {0}
      /\ MaxDelay \in Nat /\ MaxRateFaults \in Nat /\ Refill \in Nat \ {0} /\ 0 \in 0..MaxClock
  BY RateAssumption
<1>2. IsFiniteSet({}) /\ Cardinality({}) = 0  BY FS_EmptySet
<1>3. RateTypeOK
  <2>1. [step |-> "new", at |-> 0, size |-> 1]
          \in [step : CallSteps, at : 0..MaxClock, size : Sizes \cup {1}]
    BY <1>1 DEF CallSteps
  <2>2. bucket \in [tokens : 0..Capacity, ts : 0..MaxClock]  BY <1>1 DEF RateInit
  <2>3. call \in [Calls -> [step : CallSteps, at : 0..MaxClock, size : Sizes \cup {1}]]  BY <2>1 DEF RateInit
  <2>4. /\ zset \in [Windows -> SUBSET RateInWindow] /\ admitted \in [Windows -> SUBSET Entries]
        /\ expires \in [Windows -> Nat] /\ latest \in [Windows -> 0..MaxClock]
    BY <1>1 DEF RateInit
  <2> QED
    <3>1. clock = 0 /\ rateFaults = 0 /\ 0 \in 0..MaxRateFaults  BY <1>1 DEF RateInit
    <3>2. limiter \in Limiters /\ blocked = FALSE /\ overtaken = FALSE  BY DEF RateInit
    <3> QED BY <1>1, <3>1, <3>2, <2>2, <2>3, <2>4 DEF RateTypeOK, RateInWindow
<1>4. FiniteSoFar  BY <1>2 DEF RateInit, FiniteSoFar
<1>5. CallsAreRecent  BY <1>1 DEF RateInit, CallsAreRecent, Waiting, Windows
<1>6. ASSUME NEW w \in Windows PROVE Remembers(w)  BY <1>1, <1>2 DEF RateInit, Since, Remembers
<1>7. ASSUME NEW w \in Windows PROVE Bounded(w)  BY <1>1, <1>2 DEF RateInit, InWindow, Bounded
<1> QED BY <1>3, <1>4, <1>5, <1>6, <1>7 DEF RateInv

\* Calls stay recent when one of them goes on: it reads the clock (now := time.Now()).
LEMMA MovesRecently ==
    ASSUME RateInv, NEW c \in Calls, NEW s \in CallSteps, clock' = clock, limiter' = limiter,
           \/ Moves(c, s)
           \/ Ends(c, s) /\ s \notin Windows
    PROVE  CallsAreRecent'
<1>1. /\ clock \in Nat /\ MaxDelay \in Nat /\ MaxClock \in Nat
      /\ call \in [Calls -> [step : CallSteps, at : 0..MaxClock, size : Sizes \cup {1}]]
  BY RateAssumption DEF RateInv, RateTypeOK
<1>2. \A d \in Calls : d # c => call'[d] = call[d]  BY <1>1 DEF Moves, Ends
<1>3. call'[c].size = call[c].size  BY <1>1 DEF Moves, Ends
<1>4. \/ call'[c].at = clock
      \/ call'[c].at = 0 /\ call'[c].step \notin Windows
  BY <1>1 DEF Moves, Ends
<1>5. clock - clock <= MaxDelay /\ 0 <= clock /\ clock <= clock  BY <1>1
<1>6. call'[c].at <= clock /\ (call'[c].step \in Windows => clock - call'[c].at <= MaxDelay)  BY <1>4, <1>5
<1> QED BY <1>2, <1>3, <1>6 DEF RateInv, CallsAreRecent, Waiting

\* What a window is held to depends on nothing but its own state and the clock.
LEMMA WindowUntouched ==
    ASSUME RateInv, limiter = "gateway", ~overtaken, NEW w \in Windows,
           zset'[w] = zset[w], expires'[w] = expires[w], admitted'[w] = admitted[w],
           latest'[w] = latest[w], clock' \in Nat, clock' >= clock
    PROVE  Remembers(w)' /\ Bounded(w)'
<1>1. clock \in Nat /\ latest[w] \in Nat /\ Remembers(w) /\ Bounded(w)
  BY RateAssumption DEF RateInv, RateTypeOK
<1>2. Remembers(w)'  BY <1>1 DEF Remembers
<1>3. Bounded(w)'  BY <1>1 DEF Bounded, InWindow
<1> QED BY <1>2, <1>3

\* Running a window's script keeps the invariant's part on both windows.
LEMMA ScriptKeeps ==
    ASSUME RateInv, NEW w \in Windows, NEW c \in Calls, Waiting(c), Script(w, c),
           clock' = clock, limiter' = limiter
    PROVE  limiter' = "gateway" /\ ~overtaken' => \A v \in Windows : Remembers(v)' /\ Bounded(v)'
<1> SUFFICES ASSUME limiter = "gateway", ~overtaken', NEW v \in Windows
             PROVE  Remembers(v)' /\ Bounded(v)'
  OBVIOUS
<1>1. CASE v = w  BY <1>1, ScriptRemembers
<1>2. CASE v # w  BY <1>2, RateAssumption, WindowUntouched DEF Script, Notes, Admits, RateInv, RateTypeOK
<1> QED BY <1>1, <1>2

\* Every step of the limiters keeps the invariant (RateNext).
LEMMA RateSteps == RateInv /\ [RateNext]_rateVars => RateInv'
<1> SUFFICES ASSUME RateInv, [RateNext]_rateVars PROVE RateInv'  OBVIOUS
<1>0. /\ MaxClock \in Nat /\ MaxDelay \in Nat /\ MaxRateFaults \in Nat /\ clock \in 0..MaxClock
      /\ clock \in Nat /\ Sizes \subseteq Nat \ {0}
  BY RateAssumption DEF RateInv, RateTypeOK
<1> DEFINE TheWindows == limiter' = "gateway" /\ ~overtaken' =>
                            \A w \in Windows : Remembers(w)' /\ Bounded(w)'
<1>1. ASSUME UNCHANGED <<zset, expires, admitted, latest, overtaken, limiter>>,
             clock' \in Nat, clock' >= clock
      PROVE  TheWindows /\ FiniteSoFar'  BY <1>1, WindowUntouched DEF RateInv, FiniteSoFar
<1>2. ASSUME UNCHANGED rateVars PROVE RateInv'
  BY <1>2, <1>0, <1>1 DEF rateVars, RateInv, RateTypeOK, CallsAreRecent, Waiting
<1>3. ASSUME NEW c \in Calls, Check(c) \/ IsBlocked(c) PROVE RateInv'
  <2>1. PICK s \in {"first", "block", "refused"} : Moves(c, s) \/ (Ends(c, s) /\ s = "refused")
    BY <1>3 DEF Check, IsBlocked
  <2>2. s \in CallSteps /\ "refused" \notin Windows  BY DEF CallSteps, Windows
  <2>3. /\ UNCHANGED <<limiter, clock, zset, expires, bucket, blocked, admitted, latest, overtaken,
                        rateFaults>>
    BY <1>3 DEF Check, IsBlocked
  <2>4. RateTypeOK'  BY <2>1, <2>2, <2>3, CallTyped DEF RateInv, RateTypeOK
  <2>5. CallsAreRecent'  BY <2>1, <2>2, <2>3, MovesRecently
  <2>6. TheWindows /\ FiniteSoFar'  BY <1>0, <1>1, <2>3
  <2> QED BY <2>4, <2>5, <2>6 DEF RateInv
<1>4. ASSUME NEW c \in Calls, CheckN(c) PROVE RateInv'
  BY <1>4, <1>0, <1>1 DEF CheckN, CallSteps, RateInv, RateTypeOK, CallsAreRecent, Waiting
<1>5. ASSUME NEW c \in Calls, NEW w \in Windows, NEW s \in CallSteps, Waiting(c), Script(w, c),
             \/ Moves(c, s)
             \/ Ends(c, s) /\ s \notin Windows,
             UNCHANGED <<limiter, clock, bucket, blocked>>, rateFaults' \in 0..MaxRateFaults
      PROVE  RateInv'
  BY <1>5, CallTyped, ScriptTyped, MovesRecently, ScriptKeeps DEF RateInv, RateTypeOK, RateInWindow
<1>6. ASSUME NEW c \in Calls, SlidingWindow(c) \/ CheckGlobalLimit(c) PROVE RateInv'
  BY <1>6, <1>5 DEF SlidingWindow, CheckGlobalLimit, Windows, Goes2, CallSteps, Waiting, RateInv, RateTypeOK
<1>7. ASSUME NEW c \in Calls, RedisFails(c) PROVE RateInv'
  BY <1>7, <1>0, <1>5, CallTyped, MovesRecently, <1>1 DEF RedisFails, CallSteps, Windows, RateInv, RateTypeOK,
     Waiting
<1>8. ASSUME NEW c \in Calls, TokenBucket(c) PROVE RateInv'
  <2> DEFINE tokens == Refilled(call[c].at)
             spared == IF tokens >= call[c].size THEN tokens - call[c].size ELSE tokens
  <2>1. /\ limiter # "gateway" /\ UNCHANGED <<limiter, clock, zset, blocked, rateFaults>>
        /\ bucket' = [tokens |-> spared, ts |-> call[c].at]
        /\ expires' = [expires EXCEPT !["first"] = clock + BucketLasts]
        /\ latest' = [latest EXCEPT !["first"] = call[c].at]
        /\ overtaken' = (overtaken \/ call[c].at < latest["first"])
    BY <1>8, Zenon DEF TokenBucket, Notes
  <2>2. PICK s \in {"passed", "refused"} : Ends(c, s)  BY <1>8 DEF TokenBucket
  <2>3. /\ call[c].at \in 0..MaxClock /\ call[c].size \in Sizes \cup {1} /\ call[c].size \in Nat
        /\ bucket.tokens \in 0..Capacity /\ bucket.ts \in 0..MaxClock
        /\ Capacity \in Nat \ {0} /\ Refill \in Nat \ {0}
    <3>1. call[c].at \in 0..MaxClock /\ call[c].size \in Sizes \cup {1}  BY DEF RateInv, RateTypeOK
    <3>2. bucket.tokens \in 0..Capacity /\ bucket.ts \in 0..MaxClock  BY DEF RateInv, RateTypeOK
    <3>3. call[c].size \in Nat
      <4>1. \A n \in Sizes \cup {1} : n \in Nat  BY <1>0
      <4> QED BY <3>1, <4>1
    <3>4. Capacity \in Nat \ {0} /\ Refill \in Nat \ {0}  BY RateAssumption
    <3> QED BY <3>1, <3>2, <3>3, <3>4
  <2>4. tokens \in 0..Capacity
    <3> DEFINE elapsed == IF call[c].at > bucket.ts THEN call[c].at - bucket.ts ELSE 0
    <3>1. elapsed \in Nat  BY <2>3
    <3> HIDE DEF elapsed
    <3>2. elapsed * Refill \in Nat  BY <3>1, <2>3
    <3>3. tokens = IF clock >= expires["first"] \/ bucket.tokens + elapsed * Refill > Capacity
                   THEN Capacity ELSE bucket.tokens + elapsed * Refill
      BY Zenon DEF Refilled, elapsed
    <3> QED BY <3>2, <3>3, <2>3
  <2>5. spared \in 0..Capacity  BY <2>3, <2>4
  <2>6. BucketLasts \in Nat  BY <2>3 DEF BucketLasts
  <2>7. \/ UNCHANGED admitted
        \/ admitted' = [admitted EXCEPT !["first"] = @ \cup
                           {[of |-> c, at |-> call[c].at, size |-> call[c].size]}]
    BY <1>8 DEF TokenBucket, Admits
  <2>8. admitted' \in [Windows -> SUBSET Entries] /\ FiniteSoFar'
    <3>1. [of |-> c, at |-> call[c].at, size |-> call[c].size] \in Entries  BY <2>3 DEF Entries
    <3>2. IsFiniteSet(admitted["first"] \cup {[of |-> c, at |-> call[c].at, size |-> call[c].size]})
      BY OneMore DEF RateInv, FiniteSoFar, Windows
    <3> QED
      <4> DEFINE x == [of |-> c, at |-> call[c].at, size |-> call[c].size]
      <4> HIDE DEF x
      <4>1. CASE UNCHANGED admitted  BY <2>1, <4>1 DEF RateInv, RateTypeOK, FiniteSoFar
      <4>2. CASE admitted' = [admitted EXCEPT !["first"] = @ \cup {x}]
        BY <2>1, <3>1, <3>2, <4>2 DEF RateInv, RateTypeOK, FiniteSoFar, Windows, x
      <4> QED BY <2>7, <4>1, <4>2 DEF x
  <2> HIDE DEF spared, tokens
  <2>9. bucket' \in [tokens : 0..Capacity, ts : 0..MaxClock]  BY <2>1, <2>3, <2>5
  <2>10. /\ expires' \in [Windows -> Nat]
         /\ latest' \in [Windows -> 0..MaxClock]
    <3>1. clock + BucketLasts \in Nat  BY <1>0, <2>6
    <3> QED BY <2>1, <2>3, <3>1 DEF RateInv, RateTypeOK
  <2>11. "passed" \in CallSteps /\ "refused" \in CallSteps /\ {"passed", "refused"} \cap Windows = {}
    BY DEF CallSteps, Windows
  <2>12. call' \in [Calls -> [step : CallSteps, at : 0..MaxClock, size : Sizes \cup {1}]]
    BY <2>2, <2>11, CallTyped DEF RateInv
  <2>15. overtaken' \in BOOLEAN  BY <2>1
  <2>13. RateTypeOK'  BY <2>1, <2>8, <2>9, <2>10, <2>12, <2>15 DEF RateInv, RateTypeOK
  <2>14. CallsAreRecent'  BY <2>1, <2>2, <2>11, MovesRecently
  <2> QED BY <2>1, <2>8, <2>13, <2>14 DEF RateInv
<1>9. ASSUME Tick PROVE RateInv'  BY <1>9, <1>0, <1>1 DEF Tick, RateInv, RateTypeOK, CallsAreRecent, Waiting
<1>10. ASSUME Block \/ Unblock PROVE RateInv'
  <2>1. UNCHANGED <<limiter, clock, zset, expires, bucket, call, admitted, latest, overtaken,
                    rateFaults>> /\ blocked' \in BOOLEAN
    BY <1>10 DEF Block, Unblock
  <2>2. RateTypeOK' /\ CallsAreRecent'  BY <2>1 DEF RateInv, RateTypeOK, CallsAreRecent, Waiting
  <2>3. TheWindows /\ FiniteSoFar'  BY <1>0, <1>1, <2>1
  <2> QED BY <2>2, <2>3 DEF RateInv
<1>11. ASSUME Reset PROVE RateInv'
  BY <1>11, FS_EmptySet, <1>0 DEF Reset, RateInv, RateTypeOK, CallsAreRecent, Waiting, FiniteSoFar
<1> QED BY <1>2, <1>3, <1>4, <1>6, <1>7, <1>8, <1>9, <1>10, <1>11 DEF RateNext

--------
\* The strengthened invariant holds throughout: what the theorems below rest on.
LEMMA RateInvHolds == RateSpec => []RateInv
<1> QED BY RateStarts, RateSteps, PTL DEF RateSpec

\* Every variable of the limiters keeps its type.
THEOREM RateTypesHold == RateSpec => []RateTypeOK
<1>1. RateInv => RateTypeOK  BY DEF RateInv
<1> QED BY <1>1, RateInvHolds, PTL

\* Whatever the limit, the window and the delays below it, the gateway's script admits no
\* more than Limit requests in any window, as long as it is given times in their order.
THEOREM GatewayHolds == RateSpec => []GatewayIsBounded
<1>1. RateInv => GatewayIsBounded  BY DEF RateInv, GatewayIsBounded
<1> QED BY <1>1, RateInvHolds, PTL

--------
\* Rate limits: the library's sliding windows, and what passes the gateway.

\* A window of the library keeps a member for each request that is young enough to count.
LibraryRemembers(w) ==
    /\ latest[w] <= clock
    /\ \A e \in admitted[w] : /\ e.at <= latest[w] /\ e.at + Window <= expires[w]
                              /\ e.at > latest[w] - Window => [at |-> e.at, tag |-> e.size] \in zset[w]
    /\ Cardinality(zset[w]) <= Limit
    /\ \A t \in 0..MaxClock : Cardinality(Members(InWindow(w, t))) <= Limit
LibraryInv == limiter = "library" /\ ~overtaken => \A w \in Windows : LibraryRemembers(w)

\* Who is past a script of the gateway was admitted by it.
In(c, w) == \E e \in admitted[w] : e.of = c
GatewayInv ==
    limiter = "gateway" /\ rateFaults = 0 =>
        \A c \in Calls : /\ call[c].step \in {"second", "passed"} => In(c, "first")
                         /\ call[c].step = "passed" => In(c, "second")

\* The library's script keeps what its window remembers (slidingWindowLua).
LEMMA LibraryScript ==
    ASSUME RateInv, limiter = "library", NEW w \in Windows, NEW c \in Calls,
           Script(w, c), ~overtaken', clock' = clock, ~overtaken => LibraryRemembers(w)
    PROVE  LibraryRemembers(w)'
<1> DEFINE a == call[c].at
           K == Kept(w, a)
           e == [of |-> c, at |-> a, size |-> call[c].size]
           m == [at |-> a, tag |-> call[c].size]
<1>1. ~overtaken /\ ~(a < latest[w]) /\ ~(a < expires[w] /\ clock >= expires[w])
      /\ latest' = [latest EXCEPT ![w] = a]
  <2>1. /\ latest' = [latest EXCEPT ![w] = a]
        /\ overtaken' = (overtaken \/ a < latest[w] \/ (limiter = "library" /\ a < expires[w] /\ clock >= expires[w]))
    BY DEF Script, Notes
  <2> QED BY <2>1, Zenon
<1>2. LibraryRemembers(w)  BY <1>1
<1>3. /\ a \in Nat /\ clock \in Nat /\ latest[w] \in Nat /\ expires[w] \in Nat /\ a <= clock
      /\ Window \in Nat \ {0} /\ Limit \in Nat \ {0} /\ MaxClock \in Nat
      /\ call[c].size \in Nat \ {0}
  <2>0. Sizes \subseteq Nat \ {0}  BY RateAssumption, Zenon
  <2>1. \A n \in Sizes \cup {1} : n \in Nat \ {0}
    <3> SUFFICES ASSUME NEW n \in Sizes \cup {1} PROVE n \in Nat \ {0}  OBVIOUS
    <3> HIDE DEF a, K, e, m
    <3> QED BY <2>0
  <2>2. call[c].size \in Sizes \cup {1}  BY DEF RateInv, RateTypeOK
  <2>3. a <= clock  BY DEF RateInv, CallsAreRecent
  <2>4. /\ a \in Nat /\ clock \in Nat /\ latest[w] \in Nat /\ expires[w] \in Nat
        /\ Window \in Nat \ {0} /\ Limit \in Nat \ {0} /\ MaxClock \in Nat
    BY RateAssumption DEF RateInv, RateTypeOK
  <2> QED BY <2>1, <2>2, <2>3, <2>4
<1>4. latest'[w] = a  BY <1>1 DEF RateInv, RateTypeOK
<1>5. /\ IsFiniteSet(K) /\ Cardinality(K) \in Nat /\ Cardinality(K) <= Cardinality(zset[w])
      /\ Cardinality(zset[w]) \in Nat
  BY PartIsSmaller, FS_CardinalityType DEF RateInv, Kept, FiniteSoFar
<1>6. \A x \in admitted[w] : /\ x.at \in Nat /\ x.at <= a
                             /\ x.at > a - Window => [at |-> x.at, tag |-> x.size] \in K
  <2> SUFFICES ASSUME NEW x \in admitted[w]
               PROVE  x.at \in Nat /\ x.at <= a /\ (x.at > a - Window => [at |-> x.at, tag |-> x.size] \in K)
    OBVIOUS
  <2>0. x \in Entries  BY DEF RateInv, RateTypeOK
  <2>3. x.at \in 0..MaxClock  BY <2>0 DEF Entries
  <2>4. x.at <= latest[w] /\ x.at + Window <= expires[w]  BY <1>2, Zenon DEF LibraryRemembers
  <2>1. x.at \in Nat /\ x.at <= latest[w] /\ x.at + Window <= expires[w]  BY <1>3, <2>3, <2>4
  <2>2. x.at > latest[w] - Window => [at |-> x.at, tag |-> x.size] \in zset[w]  BY <1>2 DEF LibraryRemembers
  <2> QED BY <1>1, <1>3, <2>1, <2>2 DEF Kept
<1>7. CASE Room(w, c)
  <2>1. /\ admitted'[w] = admitted[w] \cup {e} /\ zset'[w] = K \cup {m}
        /\ expires'[w] = clock + Window
    BY <1>7 DEF Script, Admits, Lasts, Tag, RateInv, RateTypeOK
  <2>2. Cardinality(K) < Limit  BY <1>3, <1>5, <1>7 DEF Room
  <2>3. e.at = a /\ [at |-> e.at, tag |-> e.size] = m  OBVIOUS
  <2> HIDE DEF K, e, m, a
  <2>4. /\ IsFiniteSet(K \cup {m}) /\ Cardinality(K \cup {m}) \in Nat /\ Cardinality(K \cup {m}) <= Limit
    BY <1>3, <1>5, <2>2, OneMore
  <2>5. \A x \in admitted'[w] : /\ x.at \in Nat /\ x.at <= a /\ x.at + Window <= expires'[w]
                                /\ x.at > a - Window => [at |-> x.at, tag |-> x.size] \in zset'[w]
    <3> SUFFICES ASSUME NEW x \in admitted'[w]
                 PROVE  /\ x.at \in Nat /\ x.at <= a /\ x.at + Window <= expires'[w]
                        /\ x.at > a - Window => [at |-> x.at, tag |-> x.size] \in zset'[w]
      OBVIOUS
    <3>1. x.at \in Nat /\ x.at <= a /\ (x.at > a - Window => [at |-> x.at, tag |-> x.size] \in zset'[w])
      <4>1. CASE x = e  BY <1>3, <2>1, <2>3, <4>1
      <4>2. CASE x # e  BY <1>6, <2>1, <4>2
      <4> QED BY <4>1, <4>2
    <3>2. x.at + Window <= expires'[w]  BY <1>3, <2>1, <3>1
    <3> QED BY <3>1, <3>2
  <2>6. ASSUME NEW t \in 0..MaxClock PROVE Cardinality(Members(InWindow(w, t)))' <= Limit
    <3>1. CASE t >= a
      <4>1. Members(InWindow(w, t))' \subseteq K \cup {m}
        BY <1>3, <2>1, <2>5, <3>1 DEF Members, InWindow
      <4> QED BY <1>3, <2>4, <4>1, PartIsSmaller
    <3>2. CASE t < a
      <4>1. Members(InWindow(w, t))' = Members(InWindow(w, t))
        BY <1>3, <2>1, <2>3, <3>2 DEF Members, InWindow
      <4> QED BY <1>2, <4>1 DEF LibraryRemembers
    <3> QED BY <1>3, <3>1, <3>2
  <2> QED BY <1>3, <1>4, <2>1, <2>4, <2>5, <2>6 DEF LibraryRemembers
<1>8. CASE ~Room(w, c)
  <2>1. zset'[w] = K /\ admitted'[w] = admitted[w] /\ expires'[w] = expires[w]
    BY <1>8 DEF Script, RateInv, RateTypeOK
  <2> HIDE DEF K, a
  <2>2. \A t : Members(InWindow(w, t))' = Members(InWindow(w, t))  BY <2>1 DEF Members, InWindow
  <2> QED BY <1>2, <1>3, <1>4, <1>5, <1>6, <2>1, <2>2 DEF LibraryRemembers
<1> QED BY <1>7, <1>8

\* A window that nothing runs on stays as it was.
LEMMA LibraryUntouched ==
    ASSUME RateInv, NEW w \in Windows, LibraryRemembers(w), clock' \in Nat, clock' >= clock,
           zset'[w] = zset[w], expires'[w] = expires[w], admitted'[w] = admitted[w], latest'[w] = latest[w]
    PROVE  LibraryRemembers(w)'
<1>1. clock \in Nat /\ latest[w] \in Nat  BY RateAssumption DEF RateInv, RateTypeOK
<1>2. \A t : Members(InWindow(w, t))' = Members(InWindow(w, t))  BY DEF Members, InWindow
<1> QED BY <1>1, <1>2 DEF LibraryRemembers

\* One script, of either window, keeps both.
LEMMA LibraryScripts ==
    ASSUME RateInv, LibraryInv, NEW w \in Windows, NEW c \in Calls, Script(w, c),
           clock' = clock, limiter' = limiter
    PROVE  LibraryInv'
<1> SUFFICES ASSUME limiter = "library", ~overtaken', NEW v \in Windows PROVE LibraryRemembers(v)'
  BY DEF LibraryInv
<1>0. overtaken => overtaken'  BY DEF Script, Notes
<1>1. ~overtaken /\ clock \in Nat /\ \A u \in Windows : LibraryRemembers(u)
  BY <1>0, RateAssumption DEF LibraryInv, RateInv, RateTypeOK
<1>2. CASE v = w  BY <1>1, <1>2, LibraryScript
<1>3. CASE v # w
  BY <1>1, <1>3, LibraryUntouched DEF Script, Notes, Admits, RateInv, RateTypeOK
<1> QED BY <1>2, <1>3

\* Every step keeps the library's windows (RateNext).
LEMMA LibrarySteps == RateInv /\ LibraryInv /\ [RateNext]_rateVars => LibraryInv'
<1> SUFFICES ASSUME RateInv, LibraryInv, [RateNext]_rateVars PROVE LibraryInv'  OBVIOUS
<1>0. clock \in Nat /\ MaxClock \in Nat /\ Limit \in Nat /\ Window \in Nat
      /\ latest \in [Windows -> 0..MaxClock] /\ zset \in [Windows -> SUBSET RateInWindow]
      /\ admitted \in [Windows -> SUBSET Entries] /\ expires \in [Windows -> Nat]
  BY RateAssumption DEF RateInv, RateTypeOK, RateInWindow
<1>1. ASSUME UNCHANGED <<zset, expires, admitted, latest, overtaken, limiter>>, clock' \in Nat, clock' >= clock
      PROVE  LibraryInv'
  BY <1>1, LibraryUntouched DEF LibraryInv
<1>2. CASE UNCHANGED rateVars  BY <1>0, <1>1, <1>2 DEF rateVars
<1>3. ASSUME NEW c \in Calls, Check(c) \/ CheckN(c) \/ IsBlocked(c) PROVE LibraryInv'
  BY <1>0, <1>1, <1>3 DEF Check, CheckN, IsBlocked
<1>4. ASSUME NEW c \in Calls, SlidingWindow(c) \/ CheckGlobalLimit(c) PROVE LibraryInv'
  BY <1>4, LibraryScripts DEF SlidingWindow, CheckGlobalLimit, Windows
<1>5. ASSUME NEW c \in Calls, RedisFails(c) PROVE LibraryInv'
  BY <1>0, <1>1, <1>5, LibraryScripts DEF RedisFails
<1>6. ASSUME NEW c \in Calls, TokenBucket(c) PROVE LibraryInv'  BY <1>6 DEF TokenBucket, LibraryInv
<1>7. CASE Tick  BY <1>0, <1>1, <1>7 DEF Tick
<1>8. CASE Block \/ Unblock  BY <1>0, <1>1, <1>8 DEF Block, Unblock
<1>9. CASE Reset
  <2> SUFFICES ASSUME limiter = "library", ~overtaken, NEW w \in Windows PROVE LibraryRemembers(w)'
    BY <1>9 DEF Reset, LibraryInv
  <2>1. LibraryRemembers(w)  BY DEF LibraryInv
  <2>2. CASE w = "first"
    <3>1. zset'[w] = {} /\ admitted'[w] = {} /\ latest'[w] = latest[w] /\ clock' = clock
      BY <1>0, <1>9, <2>2 DEF Reset
    <3>2. \A t : Members(InWindow(w, t))' = {}  BY <3>1 DEF Members, InWindow
    <3>3. Cardinality({}) = 0 /\ 0 <= Limit  BY <1>0, FS_EmptySet
    <3>4. \A t : Cardinality(Members(InWindow(w, t)))' = 0  BY <3>2, <3>3
    <3>5. latest'[w] <= clock'  BY <2>1, <3>1 DEF LibraryRemembers
    <3> QED BY <3>1, <3>3, <3>4, <3>5 DEF LibraryRemembers
  <2>3. CASE w # "first"  BY <1>0, <1>9, <2>1, <2>3, LibraryUntouched DEF Reset
  <2> QED BY <2>2, <2>3
<1> QED BY <1>2, <1>3, <1>4, <1>5, <1>6, <1>7, <1>8, <1>9 DEF RateNext

\* Every step keeps who was admitted on the way through the gateway (RateNext).
LEMMA GatewaySteps == RateInv /\ GatewayInv /\ [RateNext]_rateVars => GatewayInv'
<1> SUFFICES ASSUME RateInv, GatewayInv, [RateNext]_rateVars, limiter' = "gateway", rateFaults' = 0,
                    NEW d \in Calls
             PROVE  /\ call'[d].step \in {"second", "passed"} => In(d, "first")'
                    /\ call'[d].step = "passed" => In(d, "second")'
  BY DEF GatewayInv
<1>0. /\ call \in [Calls -> [step : CallSteps, at : 0..MaxClock, size : Sizes \cup {1}]]
      /\ admitted \in [Windows -> SUBSET Entries] /\ rateFaults \in Nat
  BY RateAssumption DEF RateInv, RateTypeOK
<1>1. limiter = "gateway" /\ rateFaults = 0
  BY <1>0 DEF RateNext, rateVars, Check, CheckN, IsBlocked, SlidingWindow, TokenBucket, CheckGlobalLimit,
     RedisFails, Tick, Block, Unblock, Reset
<1>2. /\ call[d].step \in {"second", "passed"} => In(d, "first")
      /\ call[d].step = "passed" => In(d, "second")
  BY <1>1 DEF GatewayInv
<1>3. ASSUME admitted' = admitted, call'[d].step \in {"second", "passed"} => call'[d].step = call[d].step
      PROVE  /\ call'[d].step \in {"second", "passed"} => In(d, "first")'
             /\ call'[d].step = "passed" => In(d, "second")'
  BY <1>2, <1>3 DEF In
<1>4. CASE UNCHANGED rateVars \/ Tick \/ Block \/ Unblock
  BY <1>3, <1>4 DEF rateVars, Tick, Block, Unblock
<1>5. ASSUME NEW c \in Calls, Check(c) \/ CheckN(c) \/ IsBlocked(c)
      PROVE  /\ call'[d].step \in {"second", "passed"} => In(d, "first")'
             /\ call'[d].step = "passed" => In(d, "second")'
  BY <1>0, <1>1, <1>3, <1>5 DEF Check, CheckN, IsBlocked, Moves, Ends
<1>6. ASSUME NEW c \in Calls, NEW w \in Windows, call[c].step = w, Script(w, c),
             \/ Room(w, c) /\ w = "first" /\ Moves(c, "second")
             \/ Room(w, c) /\ w = "second" /\ Ends(c, "passed")
             \/ Ends(c, "refused")
      PROVE  /\ call'[d].step \in {"second", "passed"} => In(d, "first")'
             /\ call'[d].step = "passed" => In(d, "second")'
  <2>1. \A v \in Windows : admitted[v] \subseteq admitted'[v]  BY <1>0, <1>6 DEF Script, Admits
  <2>2. \A v \in Windows : In(d, v) => In(d, v)'  BY <2>1 DEF In
  <2>3. Room(w, c) => In(c, w)'
    <3> DEFINE x == [of |-> c, at |-> call[c].at, size |-> call[c].size]
    <3>1. Room(w, c) => x \in admitted'[w]  BY <1>0, <1>6 DEF Script, Admits
    <3> QED BY <3>1 DEF In
  <2>4. c # d => call'[d] = call[d]  BY <1>0, <1>6 DEF Moves, Ends
  <2>5. \/ Room(w, c) /\ w = "first" /\ call'[c].step = "second"
        \/ Room(w, c) /\ w = "second" /\ call'[c].step = "passed"
        \/ call'[c].step = "refused"
    BY <1>0, <1>6 DEF Moves, Ends
  <2> QED BY <1>2, <1>6, <2>2, <2>3, <2>4, <2>5 DEF Windows
<1>7. ASSUME NEW c \in Calls, SlidingWindow(c) \/ CheckGlobalLimit(c)
      PROVE  /\ call'[d].step \in {"second", "passed"} => In(d, "first")'
             /\ call'[d].step = "passed" => In(d, "second")'
  <2>1. "first" \in Windows /\ "second" \in Windows  BY DEF Windows
  <2> QED BY <1>1, <1>6, <1>7, <2>1 DEF SlidingWindow, CheckGlobalLimit, Goes2
<1>8. ASSUME NEW c \in Calls PROVE ~RedisFails(c) /\ ~TokenBucket(c)  BY <1>0, <1>1 DEF RedisFails, TokenBucket
<1>9. ~Reset  BY <1>1 DEF Reset
<1> QED BY <1>4, <1>5, <1>7, <1>8, <1>9 DEF RateNext

--------
\* Rate limits: the library's bucket of tokens.

\* What was taken since s and what is left came from a full bucket and what flowed in since;
\* a bucket that is gone was last used before it began to fill.
BucketAccounts ==
    /\ bucket.ts = latest["first"] /\ bucket.ts <= clock
    /\ \A e \in admitted["first"] : e.at <= bucket.ts
    /\ admitted["first"] # {} => bucket.ts + BucketLasts <= expires["first"]
    /\ \A s \in 0..bucket.ts :
          Taken(Between(s, bucket.ts)) + bucket.tokens <= Capacity + (bucket.ts - s) * Refill

BucketInv == limiter = "bucket" /\ ~overtaken => BucketAccounts

\* The requests a bucket has admitted took finitely many tokens, and one more takes its own.
LEMMA TakenOneMore ==
    ASSUME NEW es, IsFiniteSet(es), \A e \in es : e.size \in Nat,
           NEW x, x.size \in Nat, NEW part \in SUBSET es
    PROVE  /\ Taken(es) \in Nat /\ Taken(part) \in Nat /\ Taken(es \cup {x}) \in Nat
           /\ Taken(part) <= Taken(es)
           /\ Taken(es \cup {x}) <= Taken(es) + x.size
<1> DEFINE of(e) == {e} \X (1..e.size)
           units(xs) == UNION {of(e) : e \in xs}
<1>1. \A e : e.size \in Nat => IsFiniteSet(of(e)) /\ Cardinality(of(e)) = e.size
  <2>1. ASSUME NEW e, NEW n \in Nat
        PROVE  IsFiniteSet({e} \X (1..n)) /\ Cardinality({e} \X (1..n)) = n
    <3>1. IsFiniteSet(1..n) /\ Cardinality(1..n) = n  BY FS_Interval
    <3>2. IsFiniteSet({e}) /\ Cardinality({e}) = 1  BY FS_Singleton
    <3>3. /\ IsFiniteSet({e} \X (1..n))
          /\ Cardinality({e} \X (1..n)) = Cardinality({e}) * Cardinality(1..n)
      BY <3>1, <3>2, FS_Product
    <3>4. 1 * n = n  OBVIOUS
    <3> QED BY <3>1, <3>2, <3>3, <3>4
  <2>2. ASSUME NEW e, e.size \in Nat
        PROVE  IsFiniteSet(of(e)) /\ Cardinality(of(e)) = e.size  BY <2>2, <2>1
  <2> QED BY <2>2, Zenon
<1>2. IsFiniteSet(units(es))
  <2> DEFINE parts == {of(e) : e \in es}
  <2>1. [e \in es |-> of(e)] \in Surjection(es, parts)  BY DEF Surjection
  <2>2. \A p \in parts : IsFiniteSet(p)  BY <1>1
  <2> HIDE DEF parts
  <2>3. IsFiniteSet(UNION parts)  BY <2>1, <2>2, FS_Surjection, FS_UNION
  <2> QED BY <2>3 DEF parts
<1>3. /\ units(part) \subseteq units(es)
      /\ units(es \cup {x}) = units(es) \cup of(x)
  OBVIOUS
<1>4. /\ Taken(es) = Cardinality(units(es)) /\ Taken(part) = Cardinality(units(part))
      /\ Taken(es \cup {x}) = Cardinality(units(es \cup {x}))
  BY DEF Taken
<1>5. IsFiniteSet(of(x)) /\ Cardinality(of(x)) = x.size  BY <1>1
<1> HIDE DEF of, units
<1>6. /\ Cardinality(units(es)) \in Nat /\ Cardinality(units(part)) \in Nat
      /\ Cardinality(units(part)) <= Cardinality(units(es))
  BY <1>2, <1>3, FS_Subset, FS_CardinalityType
<1>7. /\ Cardinality(units(es) \cup of(x)) \in Nat
      /\ Cardinality(units(es) \cup of(x)) <= Cardinality(units(es)) + Cardinality(of(x))
  <2>1. /\ IsFiniteSet(units(es) \cup of(x)) /\ IsFiniteSet(units(es) \cap of(x))
        /\ Cardinality(units(es) \cup of(x)) = Cardinality(units(es)) + Cardinality(of(x))
                                                - Cardinality(units(es) \cap of(x))
    BY <1>5, FS_Subset, <1>2, FS_Union
  <2>2. Cardinality(units(es) \cap of(x)) \in Nat /\ Cardinality(units(es) \cup of(x)) \in Nat
    BY <2>1, FS_CardinalityType
  <2> QED BY <2>1, <2>2, <1>5, <1>6
<1> QED BY <1>3, <1>4, <1>5, <1>6, <1>7

\* Nobody takes nothing.
LEMMA NothingTaken == Taken({}) = 0
<1>1. UNION {{e} \X (1..e.size) : e \in {}} = {}  OBVIOUS
<1> QED BY <1>1, FS_EmptySet DEF Taken

\* What was admitted is finite and has sizes.
LEMMA BucketAdmits ==
    ASSUME RateInv
    PROVE  /\ IsFiniteSet(admitted["first"]) /\ admitted["first"] \subseteq Entries
           /\ \A e \in admitted["first"] : e.size \in Nat /\ e.at \in 0..MaxClock
           /\ \A s, t : Taken(Between(s, t)) \in Nat /\ IsFiniteSet(Between(s, t))
<1>1. IsFiniteSet(admitted["first"]) /\ admitted["first"] \subseteq Entries
  BY DEF RateInv, FiniteSoFar, RateTypeOK, Windows
<1>2. \A n \in Sizes \cup {1} : n \in Nat  BY RateAssumption
<1>3. \A e \in admitted["first"] : e.size \in Nat /\ e.at \in 0..MaxClock  BY <1>1, <1>2 DEF Entries
<1>4. ASSUME NEW s, NEW t PROVE Taken(Between(s, t)) \in Nat /\ IsFiniteSet(Between(s, t))
  <2>1. Between(s, t) \in SUBSET admitted["first"]  BY DEF Between
  <2>2. \A e \in Between(s, t) : e.size \in Nat  BY <1>3, <2>1
  <2>3. IsFiniteSet(Between(s, t))  BY <1>1, <2>1, FS_Subset
  <2> DEFINE x == [size |-> 1]
  <2>4. x.size \in Nat  OBVIOUS
  <2> HIDE DEF x
  <2> QED BY <2>2, <2>3, <2>4, TakenOneMore
<1> QED BY <1>1, <1>3, <1>4

\* The bucket holds what it accounts for while nothing of it changes and time goes on.
LEMMA BucketUntouched ==
    ASSUME RateInv, BucketInv, limiter' = limiter, overtaken' = FALSE => overtaken = FALSE,
           overtaken' \in BOOLEAN, bucket' = bucket, admitted'["first"] = admitted["first"],
           latest'["first"] = latest["first"], expires'["first"] = expires["first"],
           clock' \in Nat, clock' >= clock
    PROVE  BucketInv'
<1> SUFFICES ASSUME limiter' = "bucket", ~overtaken' PROVE BucketAccounts'  BY DEF BucketInv
<1>1. BucketAccounts  BY DEF BucketInv, RateInv, RateTypeOK
<1>2. \A s, t : Between(s, t)' = Between(s, t)  BY DEF Between
<1>3. clock \in Nat /\ bucket.ts \in Nat  BY RateAssumption DEF RateInv, RateTypeOK
<1>4. bucket'.ts <= clock'  BY <1>1, <1>3 DEF BucketAccounts
<1>6. \A s : Taken(Between(s, bucket.ts))' = Taken(Between(s, bucket.ts))  BY <1>2 DEF Taken
<1> QED BY <1>1, <1>2, <1>4, <1>6 DEF BucketAccounts, Taken, BucketLasts

\* A bucket that is gone would have been full for a script given a time of its delay ago: as
\* much has flowed in since as it holds (the key's TTL).
LEMMA ForgottenWhenFull ==
    ASSUME RateInv, NEW c \in Calls, Waiting(c), bucket.ts + BucketLasts <= expires["first"],
           clock >= expires["first"]
    PROVE  call[c].at >= bucket.ts /\ (call[c].at - bucket.ts) * Refill >= Capacity
<1> DEFINE gone == call[c].at - bucket.ts
           least == (2 * Capacity) \div Refill - MaxDelay
<1>1. /\ Capacity \in Nat \ {0} /\ Refill \in Nat \ {0} /\ MaxDelay \in Nat
      /\ least * Refill >= Capacity
  BY RateAssumption
<1>2. /\ clock \in Nat /\ bucket.ts \in Nat /\ expires["first"] \in Nat /\ call[c].at \in Nat
      /\ clock - call[c].at <= MaxDelay
  BY RateAssumption DEF RateInv, RateTypeOK, CallsAreRecent, Windows
<1>3. (2 * Capacity) \div Refill \in Nat  BY <1>1
<1>4. gone >= least /\ gone \in Int /\ least \in Int  BY <1>1, <1>2, <1>3 DEF BucketLasts
<1> HIDE DEF least
<1>5. least > 0  BY <1>1, <1>4
<1> HIDE DEF gone
<1>6. gone * Refill >= least * Refill /\ gone * Refill \in Int /\ least * Refill \in Int  BY <1>1, <1>4
<1>7. gone > 0 /\ gone * Refill >= Capacity  BY <1>1, <1>4, <1>5, <1>6
<1> QED BY <1>2, <1>7 DEF gone

\* A script that is given a time no earlier than the last finds at most what was left and
\* what flowed in, and at most a full bucket; a bucket nobody used may be full.
LEMMA RefillIsTrue ==
    ASSUME RateInv, limiter = "bucket", BucketAccounts, NEW c \in Calls, Waiting(c),
           call[c].at >= bucket.ts
    PROVE  LET t == call[c].at
           IN /\ Refilled(t) \in 0..Capacity
              /\ admitted["first"] # {} => Refilled(t) <= bucket.tokens + (t - bucket.ts) * Refill
<1> DEFINE t == call[c].at
           elapsed == IF t > bucket.ts THEN t - bucket.ts ELSE 0
<1>1. /\ Capacity \in Nat \ {0} /\ Refill \in Nat \ {0}
      /\ t \in Nat /\ bucket.ts \in Nat /\ bucket.tokens \in 0..Capacity
      /\ clock \in Nat /\ expires["first"] \in Nat
  BY RateAssumption DEF RateInv, RateTypeOK, Windows
<1>2. elapsed = t - bucket.ts /\ elapsed \in Nat  BY <1>1
<1>3. Refilled(t) = IF clock >= expires["first"] \/ bucket.tokens + elapsed * Refill > Capacity
                    THEN Capacity ELSE bucket.tokens + elapsed * Refill
  BY Zenon DEF Refilled, elapsed
<1>4. admitted["first"] # {} /\ clock >= expires["first"] => elapsed * Refill >= Capacity
  BY <1>2, ForgottenWhenFull DEF BucketAccounts
<1> HIDE DEF elapsed, t
<1>5. elapsed * Refill \in Nat  BY <1>1, <1>2
<1>6. Refilled(t) \in 0..Capacity  BY <1>1, <1>3, <1>5
<1>7. admitted["first"] # {} => Refilled(t) <= bucket.tokens + elapsed * Refill  BY <1>1, <1>3, <1>4, <1>5
<1> QED BY <1>2, <1>6, <1>7 DEF t

\* What a script finds, and what was taken before, came from a full bucket and what flowed in.
LEMMA FoundIsTrue ==
    ASSUME RateInv, limiter = "bucket", BucketAccounts, NEW c \in Calls, Waiting(c),
           call[c].at >= bucket.ts, NEW s \in 0..call[c].at
    PROVE  Taken(Between(s, call[c].at)) + Refilled(call[c].at)
               <= Capacity + (call[c].at - s) * Refill
<1> DEFINE t == call[c].at
           found == Refilled(t)
<1>1. /\ Capacity \in Nat \ {0} /\ Refill \in Nat \ {0} /\ s \in Nat
      /\ t \in Nat /\ bucket.ts \in Nat /\ bucket.tokens \in 0..Capacity /\ t >= s
  BY RateAssumption DEF RateInv, RateTypeOK
<1>2. /\ found \in 0..Capacity
      /\ admitted["first"] # {} => found <= bucket.tokens + (t - bucket.ts) * Refill
  BY RefillIsTrue
<1>3. \A e \in admitted["first"] : e.at <= bucket.ts /\ e.at \in Nat
  BY BucketAdmits, RateAssumption DEF BucketAccounts
<1>4. t >= bucket.ts  OBVIOUS
<1>5. \A u : Taken(Between(s, u)) \in Nat  BY BucketAdmits
<1> HIDE DEF t, found
<1>6. (t - s) * Refill \in Nat
  <2>1. t - s \in Nat  BY <1>1
  <2> HIDE <1>1
  <2> QED BY <2>1, RateAssumption
<1>7. CASE Between(s, t) = {}
  <2>1. Taken(Between(s, t)) = 0  BY <1>7, NothingTaken
  <2> QED BY <1>1, <1>2, <1>6, <2>1 DEF t, found
<1>8. CASE Between(s, t) # {}
  <2>1. PICK e \in admitted["first"] : e.at \in s..t  BY <1>8 DEF Between
  <2>2. s <= bucket.ts /\ s \in 0..bucket.ts /\ admitted["first"] # {}  BY <1>1, <1>3, <2>1
  <2>3. Between(s, t) = Between(s, bucket.ts)  BY <1>1, <1>3, <1>4 DEF Between
  <2>4. Taken(Between(s, t)) + bucket.tokens <= Capacity + (bucket.ts - s) * Refill
    BY <2>2, <2>3 DEF BucketAccounts
  <2>5. found <= bucket.tokens + (t - bucket.ts) * Refill  BY <1>2, <2>2
  <2>6. /\ (bucket.ts - s) * Refill + (t - bucket.ts) * Refill = (t - s) * Refill
        /\ (bucket.ts - s) * Refill \in Int /\ (t - bucket.ts) * Refill \in Int
    BY <1>1
  <2> QED BY <1>1, <1>2, <1>5, <1>6, <2>4, <2>5, <2>6 DEF t, found
<1> QED BY <1>7, <1>8

\* The script of the bucket takes what a request asks for of what it finds (tokenBucketLua).
LEMMA TokensStayTrue ==
    ASSUME RateInv, BucketInv, BucketIsBounded, NEW c \in Calls, TokenBucket(c)
    PROVE  BucketInv' /\ BucketIsBounded'
<1> SUFFICES ASSUME ~overtaken' PROVE BucketAccounts' /\ BucketIsBounded'  BY DEF BucketInv, BucketIsBounded
<1>0. PICK t : t = call[c].at  OBVIOUS
<1> DEFINE n == call[c].size
           x == [of |-> c, at |-> t, size |-> n]
           found == Refilled(t)
           took == found >= n
           es == admitted["first"]
<1>1. /\ limiter = "bucket" /\ Waiting(c) /\ ~overtaken /\ t >= latest["first"]
      /\ clock' = clock /\ latest'["first"] = t
      /\ expires'["first"] = clock + BucketLasts
  <2>1. limiter = "bucket" /\ call[c].step = "first" /\ clock' = clock  BY DEF TokenBucket
  <2>2. /\ latest' = [latest EXCEPT !["first"] = t]
        /\ overtaken' = (overtaken \/ t < latest["first"])
        /\ expires' = [expires EXCEPT !["first"] = clock + BucketLasts]
    BY <1>0 DEF TokenBucket, Notes
  <2>4. ~overtaken /\ ~(t < latest["first"])  BY <2>2, Zenon
  <2>3. t \in Nat /\ latest["first"] \in Nat /\ "first" \in DOMAIN latest /\ "first" \in DOMAIN expires
    BY <1>0, RateAssumption DEF RateInv, RateTypeOK, Windows
  <2>5. Waiting(c)  BY <2>1 DEF Waiting, Windows
  <2> QED BY <2>1, <2>2, <2>3, <2>4, <2>5
<1>2. BucketAccounts  BY <1>1 DEF BucketInv
<1>3. /\ Capacity \in Nat \ {0} /\ Refill \in Nat \ {0} /\ MaxClock \in Nat /\ BucketLasts \in Nat
      /\ t \in 0..MaxClock /\ t \in Nat /\ n \in Nat /\ bucket.ts \in Nat /\ clock \in Nat
      /\ t <= clock /\ bucket.tokens \in 0..Capacity
  <2>1. \A m \in Sizes \cup {1} : m \in Nat  BY RateAssumption
  <2>2. t \in 0..MaxClock /\ n \in Sizes \cup {1} /\ bucket.ts \in 0..MaxClock /\ clock \in 0..MaxClock
        /\ t <= clock /\ bucket.tokens \in 0..Capacity
    BY <1>0 DEF RateInv, RateTypeOK, CallsAreRecent
  <2>3. /\ Capacity \in Nat \ {0} /\ Refill \in Nat \ {0} /\ MaxClock \in Nat  BY RateAssumption
  <2> QED BY <2>1, <2>2, <2>3 DEF BucketLasts
<1>4. t >= bucket.ts  BY <1>1, <1>2 DEF BucketAccounts
<1>5. /\ bucket'.ts = t
      /\ bucket'.tokens = IF took THEN found - n ELSE found
      /\ admitted'["first"] = IF took THEN es \cup {x} ELSE es
  <2>1. bucket' = [tokens |-> IF took THEN found - n ELSE found, ts |-> t]  BY <1>0 DEF TokenBucket
  <2>2. IF took THEN admitted' = [admitted EXCEPT !["first"] = @ \cup {x}] ELSE admitted' = admitted
    BY <1>0 DEF TokenBucket, Admits
  <2>3. "first" \in DOMAIN admitted  BY DEF RateInv, RateTypeOK, Windows
  <2> HIDE DEF took, found, x
  <2> QED BY <2>1, <2>2, <2>3
<1>6. found \in 0..Capacity  BY <1>0, <1>1, <1>2, <1>4, RefillIsTrue
<1>7. \A s \in 0..t : Taken(Between(s, t)) + found <= Capacity + (t - s) * Refill
  BY <1>0, <1>1, <1>2, <1>4, FoundIsTrue
<1>8. \A e \in es : e.at <= bucket.ts /\ e.at <= t /\ e.at \in Nat /\ e.size \in Nat
  BY <1>2, <1>3, <1>4, BucketAdmits DEF BucketAccounts
<1>9. x.at = t /\ x.size = n  OBVIOUS
<1> HIDE DEF n, x, found, es
<1>10. \A e \in admitted'["first"] : e.at <= t  BY <1>3, <1>5, <1>8, <1>9
<1>11. \A s, u : /\ took /\ t \in s..u => Between(s, u)' = Between(s, u) \cup {x}
                 /\ ~(took /\ t \in s..u) => Between(s, u)' = Between(s, u)
  BY <1>5, <1>9 DEF Between, es
<1>12. \A s, u : Taken(Between(s, u)) \in Nat /\ Taken(Between(s, u) \cup {x}) \in Nat
                 /\ Taken(Between(s, u) \cup {x}) <= Taken(Between(s, u)) + n
  <2> TAKE s, u
  <2>1. IsFiniteSet(Between(s, u)) /\ Between(s, u) \subseteq es  BY BucketAdmits DEF Between, es
  <2>2. \A e \in Between(s, u) : e.size \in Nat  BY <1>8, <2>1
  <2>3. {} \in SUBSET Between(s, u) /\ x.size \in Nat  BY <1>3, <1>9
  <2> QED BY <1>9, <2>1, <2>2, <2>3, TakenOneMore
<1>13. ASSUME NEW s \in 0..t
       PROVE  Taken(Between(s, t))' + bucket'.tokens <= Capacity + (t - s) * Refill
  <2>1. t \in s..t /\ (t - s) * Refill \in Int  BY <1>3
  <2>2. Taken(Between(s, t)) + found <= Capacity + (t - s) * Refill  BY <1>7
  <2>3. CASE took
    <3>1. Taken(Between(s, t))' = Taken(Between(s, t) \cup {x})  BY <1>11, <2>1, <2>3 DEF Taken
    <3> QED BY <1>3, <1>5, <1>6, <1>12, <2>1, <2>2, <2>3, <3>1
  <2>4. CASE ~took  BY <1>11, <2>4, <1>5, <2>2 DEF Taken
  <2> QED BY <2>3, <2>4
<1>14. BucketAccounts'  BY <1>1, <1>3, <1>5, <1>13, <1>10 DEF Between, Taken, BucketAccounts, BucketLasts
<1>15. BucketIsBounded'
  <2> SUFFICES ASSUME NEW s \in 0..MaxClock, NEW u \in s..MaxClock
               PROVE  Taken(Between(s, u))' <= Capacity + (u - s) * Refill
    BY DEF BucketIsBounded
  <2>1. /\ s \in Nat /\ u \in Nat /\ s <= u /\ (u - s) * Refill \in Nat
        /\ Capacity \in Nat /\ Refill \in Nat  BY <1>3
  <2>2. CASE u < t  BY <1>3, <2>1, <2>2, <1>11, <1>1 DEF Taken, BucketIsBounded
  <2>3. CASE u >= t /\ s <= t
    <3>1. Between(s, u)' = Between(s, t)'  BY <1>3, <1>5, <1>8, <1>9, <1>10, <2>1, <2>3 DEF Between
    <3>2. Taken(Between(s, u))' = Taken(Between(s, t))'  BY <3>1 DEF Taken
    <3>3. s \in 0..t  BY <1>3, <2>1, <2>3
    <3>4. Taken(Between(s, t))' + bucket'.tokens <= Capacity + (t - s) * Refill  BY <1>13, <3>3
    <3>5. Taken(Between(s, t))' \in Nat /\ bucket'.tokens \in Nat
      <4>1. Taken(Between(s, t))' \in Nat  BY <1>11, <1>12 DEF Taken
      <4>2. found \in Nat /\ n \in Nat  BY <1>3, <1>6
      <4>3. (took => found - n \in Nat) /\ found \in Nat  BY <4>2
      <4>4. bucket'.tokens \in Nat  BY <1>5, <4>3
      <4> QED BY <4>1, <4>4
    <3>6. (t - s) * Refill <= (u - s) * Refill /\ (t - s) * Refill \in Int  BY <1>3, <2>1, <2>3
    <3> QED BY <2>1, <3>2, <3>4, <3>5, <3>6
  <2>4. CASE s > t
    <3>1. Between(s, u)' = {}  BY <1>3, <1>5, <1>8, <1>9, <1>10, <2>1, <2>4 DEF Between
    <3>2. Taken(Between(s, u))' = 0  BY <3>1, NothingTaken DEF Taken
    <3> QED BY <2>1, <3>2
  <2> QED BY <1>3, <2>1, <2>2, <2>3, <2>4
<1> QED BY <1>14, <1>15

\* The bucket starts full (First access: initialise with a full bucket).
LEMMA BucketStarts == RateInit => BucketInv /\ BucketIsBounded
<1> SUFFICES ASSUME RateInit PROVE BucketAccounts /\ BucketIsBounded  BY DEF BucketInv
<1>1. /\ Capacity \in Nat \ {0} /\ Refill \in Nat \ {0} /\ MaxClock \in Nat  BY RateAssumption
<1>2. /\ admitted["first"] = {} /\ bucket.ts = 0 /\ bucket.tokens = Capacity
      /\ latest["first"] = 0 /\ clock = 0
  BY DEF RateInit, Windows
<1>3. \A s, t : Taken(Between(s, t)) = 0
  <2>1. \A s, t : Between(s, t) = {}  BY <1>2 DEF Between
  <2> QED BY <2>1, NothingTaken
<1>4. BucketAccounts  BY <1>1, <1>2, <1>3 DEF BucketAccounts
<1>5. BucketIsBounded  BY <1>1, <1>3 DEF BucketIsBounded
<1> QED BY <1>4, <1>5

\* No step lets more tokens go than the bucket had.
LEMMA BucketSteps ==
    RateInv /\ BucketInv /\ BucketIsBounded /\ [RateNext]_rateVars
        => BucketInv' /\ BucketIsBounded'
<1> SUFFICES ASSUME RateInv, BucketInv, BucketIsBounded, [RateNext]_rateVars
             PROVE  BucketInv' /\ BucketIsBounded'
  OBVIOUS
<1>0. clock \in Nat /\ overtaken \in BOOLEAN /\ MaxClock \in Nat
      /\ \A w \in Windows : w \in DOMAIN admitted /\ w \in DOMAIN latest /\ w \in DOMAIN expires
  BY RateAssumption DEF RateInv, RateTypeOK
<1>1. ASSUME limiter' = limiter, overtaken' = FALSE => overtaken = FALSE, overtaken' \in BOOLEAN,
             bucket' = bucket, admitted'["first"] = admitted["first"],
             latest'["first"] = latest["first"], expires'["first"] = expires["first"],
             clock' \in Nat, clock' >= clock
      PROVE  BucketInv' /\ BucketIsBounded'  BY <1>1, BucketUntouched DEF Between, Taken, BucketIsBounded
<1>2. ASSUME UNCHANGED <<limiter, overtaken, bucket, admitted, latest, expires>>,
             clock' \in Nat, clock' >= clock
      PROVE  BucketInv' /\ BucketIsBounded'
  BY <1>0, <1>1, <1>2
<1>3. CASE UNCHANGED rateVars  BY <1>0, <1>2, <1>3 DEF rateVars
<1>4. ASSUME NEW c \in Calls, Check(c) \/ CheckN(c) \/ IsBlocked(c)
      PROVE  BucketInv' /\ BucketIsBounded'
  BY <1>0, <1>2, <1>4 DEF Check, CheckN, IsBlocked
<1>5. ASSUME limiter' # "bucket" PROVE BucketInv' /\ BucketIsBounded'  BY <1>5 DEF BucketInv, BucketIsBounded
<1>6. ASSUME NEW c \in Calls, SlidingWindow(c) PROVE BucketInv' /\ BucketIsBounded'
  BY <1>5, <1>6 DEF SlidingWindow
<1>7. ASSUME NEW c \in Calls, TokenBucket(c) PROVE BucketInv' /\ BucketIsBounded'  BY <1>7, TokensStayTrue
<1>8. ASSUME NEW c \in Calls, CheckGlobalLimit(c) PROVE BucketInv' /\ BucketIsBounded'
  <2>1. Script("second", c) /\ UNCHANGED <<limiter, clock, bucket>>  BY <1>8 DEF CheckGlobalLimit
  <2>2. /\ latest' = [latest EXCEPT !["second"] = call[c].at]
        /\ (overtaken' = FALSE => overtaken = FALSE) /\ overtaken' \in BOOLEAN
        /\ admitted'["first"] = admitted["first"] /\ expires'["first"] = expires["first"]
    BY <2>1, <1>0 DEF Script, Admits, Windows, Notes
  <2>3. latest'["first"] = latest["first"]  BY <1>0, <2>2 DEF Windows
  <2>4. (overtaken' = FALSE => overtaken = FALSE) /\ overtaken' \in BOOLEAN  BY <2>2
  <2>5. limiter' = limiter /\ bucket' = bucket /\ clock' \in Nat /\ clock' >= clock  BY <1>0, <2>1
  <2>6. admitted'["first"] = admitted["first"] /\ expires'["first"] = expires["first"]  BY <2>2
  <2> HIDE <2>1, <2>2
  <2> QED BY <1>1, <2>3, <2>4, <2>5, <2>6
<1>9. ASSUME NEW c \in Calls, RedisFails(c) PROVE BucketInv' /\ BucketIsBounded'
  BY <1>9, <1>0, <1>2, <1>5 DEF RedisFails
<1>10. ASSUME Tick PROVE BucketInv' /\ BucketIsBounded'  BY <1>0, <1>2, <1>10 DEF Tick
<1>11. ASSUME Block \/ Unblock PROVE BucketInv' /\ BucketIsBounded'  BY <1>0, <1>2, <1>11 DEF Block, Unblock
<1>12. ASSUME Reset PROVE BucketInv' /\ BucketIsBounded'
  <2>1. /\ UNCHANGED <<limiter, clock, bucket, latest, overtaken>>
        /\ admitted'["first"] = {}
    BY <1>0, <1>12 DEF Reset, Windows
  <2>2. \A s, t : Taken(Between(s, t))' = 0  BY <2>1, NothingTaken DEF Between, Taken
  <2>3. /\ Capacity \in Nat \ {0} /\ Refill \in Nat \ {0} /\ bucket.tokens \in 0..Capacity
        /\ bucket.ts \in Nat
    BY <1>0, RateAssumption DEF RateInv, RateTypeOK
  <2>4. ASSUME NEW s \in Nat, NEW t \in Nat, s <= t PROVE (t - s) * Refill \in Nat
    <3>1. t - s \in Nat  BY <2>4
    <3> QED BY <2>3, <3>1
  <2>5. BucketIsBounded'  BY <1>0, <2>4, <2>2, <2>3 DEF BucketIsBounded
  <2>6. ASSUME BucketAccounts PROVE BucketAccounts'
    <3>1. ASSUME NEW s \in 0..bucket.ts
          PROVE  0 + bucket.tokens <= Capacity + (bucket.ts - s) * Refill  BY <2>3, <2>4
    <3>2. \A s : Taken(Between(s, bucket.ts))' = 0  BY <2>1, NothingTaken DEF Between, Taken
    <3> QED BY <2>1, <2>6, <3>1, <3>2 DEF BucketAccounts, Taken
  <2> QED BY <2>1, <2>5, <2>6 DEF BucketInv
<1> QED BY <1>3, <1>4, <1>6, <1>7, <1>8, <1>9, <1>10, <1>11, <1>12 DEF RateNext

\* Whatever the capacity, the rate and the delays a bucket outlives, the script of the library
\* gives in any interval no more tokens than a full bucket and what flows in meanwhile; and the
\* windows of the gateway and the members of the library's hold, as long as scripts are given
\* times in their order; what passes the gateway while Redis answers was admitted.
THEOREM LimitsAlwaysHold == RateSpec => []LimitsHold
<1> DEFINE Both == LibraryInv /\ GatewayInv
           OfTokens == BucketInv /\ BucketIsBounded
<1>1. RateInit => RateInv /\ OfTokens  BY RateStarts, BucketStarts
<1>2. RateInit => Both
  <2>1. Limit \in Nat /\ Window \in Nat  BY RateAssumption
  <2> QED BY <2>1, FS_EmptySet DEF RateInit, LibraryInv, LibraryRemembers, GatewayInv, InWindow, Members
<1>3. RateInv /\ OfTokens /\ Both /\ [RateNext]_rateVars => (RateInv /\ OfTokens /\ Both)'
  BY RateSteps, BucketSteps, LibrarySteps, GatewaySteps
<1>4. RateInv /\ OfTokens /\ Both => LimitsHold
  <2>1. LibraryInv => LibraryIsBounded  BY DEF LibraryInv, LibraryRemembers, LibraryIsBounded
  <2>2. GatewayInv => PassedAreCounted  BY DEF GatewayInv, PassedAreCounted, In, Windows
  <2> QED BY <2>1, <2>2 DEF RateInv, GatewayIsBounded, LimitsHold
<1> HIDE DEF Both, OfTokens
<1> QED BY <1>1, <1>2, <1>3, <1>4, PTL DEF RateSpec

--------
\* Moderation: the position of the consumer group.

PipelineRecords == [step : ModSteps, verdict : Verdicts]

\* ModTypeOK without what is queued and published.
ModTypes ==
    /\ fetched \in 0..LastEvent
    /\ pipeline \in [Events -> PipelineRecords]
    /\ marked \in 1..LastEvent + 1 /\ committed \in 1..LastEvent + 1
    /\ results \subseteq ResultRecords
    /\ session \in 1..MaxSessions /\ modFaults \in 0..MaxModFaults

\* What has come to this step of the pipeline has its result stored.
Stored(w) == w.step \in {"queue", "publish", "mark", "commit", "done"}
ResultsAreStored == \A e \in Events : Stored(pipeline[e]) => Result(e) \in results

AnnouncedAreStored == queued \subseteq results /\ published \subseteq results

\* An event that was not taken yet is idle, and the marks are of events that were taken.
TakenInOrder ==
    /\ \A e \in Events : e > fetched => pipeline[e].step = "none"
    /\ committed <= marked /\ marked <= fetched + 1

\* The mark, like the position, is next to an event that is done or cannot be read.
Earned(n) == n > 1 => HasResult(n - 1) \/ n - 1 \in Malformed

\* What PositionIsEarned says of the events.
Accounted(e) ==
    \/ e > fetched \/ Busy(e) \/ pipeline[e].step = "failed" \/ HasResult(e) \/ e \in Malformed
EventsAreAccounted == \A e \in Events : e >= committed \/ session = 1 => Accounted(e)

ModInv ==
    /\ ModTypes
    /\ ResultsAreStored
    /\ AnnouncedAreStored
    /\ TakenInOrder
    /\ Earned(marked) /\ Earned(committed)
    /\ EventsAreAccounted

\* The initial state.
LEMMA ModStarts == ModInit => ModInv
BY ModerationAssumption
   DEF ModInit, ModInv, ModTypes, PipelineRecords, ModSteps, Verdicts, Idle, Events,
       ResultsAreStored, Stored, AnnouncedAreStored, TakenInOrder, Earned, EventsAreAccounted,
       Accounted

\* A step of one event's goroutine that stores nothing and leaves the position alone.
LEMMA WorkingKeepsAll ==
    ASSUME ModInv, NEW e \in Events, NEW w \in PipelineRecords,
           pipeline' = [pipeline EXCEPT ![e] = w],
           pipeline[e].step # "none",
           UNCHANGED <<fetched, marked, committed, results, session>>,
           queued' \subseteq results, published' \subseteq results,
           modFaults' \in 0..MaxModFaults,
           w.step \notin {"none", "done"},
           Stored(w) => Stored(pipeline[e]) /\ w.verdict = pipeline[e].verdict
    PROVE  ModInv'
<1> USE DEF ModInv
<1>1. ModTypes'  BY DEF ModTypes
<1>2. \A d \in Events : pipeline'[d] = IF d = e THEN w ELSE pipeline[d]  BY DEF ModTypes
<1>3. ResultsAreStored' /\ AnnouncedAreStored'
  BY <1>2 DEF ResultsAreStored, AnnouncedAreStored, Result, Stored
<1>4. TakenInOrder' /\ Earned(marked)' /\ Earned(committed)'  BY <1>2 DEF TakenInOrder, Earned, HasResult
<1>5. EventsAreAccounted'  BY <1>2 DEF EventsAreAccounted, Accounted, Busy, HasResult
<1>6. QED BY <1>1, <1>3, <1>4, <1>5

\* A goroutine that goes on keeps its verdict.
LEMMA EventGoesOn ==
    ASSUME ModTypes, NEW e \in Events, NEW step \in ModSteps, Goes(e, step)
    PROVE  \E w \in PipelineRecords :
              /\ pipeline' = [pipeline EXCEPT ![e] = w]
              /\ w.step = step /\ w.verdict = pipeline[e].verdict
<1>1. [pipeline[e] EXCEPT !.step = step] \in PipelineRecords  BY DEF ModTypes, PipelineRecords
<1>2. WITNESS [pipeline[e] EXCEPT !.step = step] \in PipelineRecords
<1>3. QED BY DEF ModTypes, PipelineRecords, Goes

\* Detect: the verdict is a verdict, nothing is stored yet.
LEMMA DetectKeeps == ASSUME ModInv, NEW e \in Events, Detect(e) PROVE ModInv'
<1>1. PICK verdict \in Verdicts :
         pipeline' = [pipeline EXCEPT ![e] = [step |-> "store", verdict |-> verdict]]
  BY DEF Detect, Assessments, AssessmentsOfSome, Assess
<1> DEFINE w == [step |-> "store", verdict |-> verdict]
<1>2. w \in PipelineRecords  BY DEF PipelineRecords, ModSteps
<1>3. modFaults' \in 0..MaxModFaults  BY ModerationAssumption DEF ModInv, ModTypes, Detect
<1>4. QED BY <1>1, <1>2, <1>3, WorkingKeepsAll DEF Detect, Stored, ModInv, AnnouncedAreStored

\* CallFails: an event fails, or goes on without its queue item or announcement.
LEMMA CallFailsKeeps == ASSUME ModInv, NEW e \in Events, CallFails(e) PROVE ModInv'
<1> DEFINE step == CASE pipeline[e].step = "queue" -> "publish"
                     [] pipeline[e].step = "publish" -> "mark"
                     [] OTHER -> "failed"
<1>1. step \in ModSteps /\ step \notin {"none", "done"} /\ Goes(e, step)  BY DEF CallFails, ModSteps
<1>2. Stored([step |-> step]) => pipeline[e].step \in {"queue", "publish"}  BY DEF Stored
<1> HIDE DEF step
<1>3. PICK w \in PipelineRecords :
         pipeline' = [pipeline EXCEPT ![e] = w] /\ w.step = step /\ w.verdict = pipeline[e].verdict
  BY <1>1, EventGoesOn DEF ModInv
<1>4. modFaults' \in 0..MaxModFaults  BY ModerationAssumption DEF ModInv, ModTypes, CallFails
<1>5. QED BY <1>1, <1>2, <1>3, <1>4, WorkingKeepsAll DEF CallFails, Stored, ModInv, AnnouncedAreStored

\* CreateQueueItem and PublishModerationResult tell of a result that is stored.
LEMMA AnnouncingKeeps ==
    ASSUME ModInv, NEW e \in Events, CreateQueueItem(e) \/ PublishModerationResult(e)
    PROVE  ModInv'
<1>1. Result(e) \in results  BY DEF ModInv, ResultsAreStored, Stored, CreateQueueItem, PublishModerationResult
<1>2. PICK w \in PipelineRecords :
         /\ pipeline' = [pipeline EXCEPT ![e] = w] /\ w.step \in {"publish", "mark"}
         /\ w.verdict = pipeline[e].verdict
  BY EventGoesOn DEF ModInv, ModSteps, CreateQueueItem, PublishModerationResult
<1>3. QED
  BY <1>1, <1>2, WorkingKeepsAll
     DEF CreateQueueItem, PublishModerationResult, Stored, ModInv, ModTypes, AnnouncedAreStored

\* CreateResult: the result of this session is stored.
LEMMA CreateResultKeeps == ASSUME ModInv, NEW e \in Events, CreateResult(e) PROVE ModInv'
<1> USE DEF ModInv
<1>1. PICK w \in PipelineRecords :
         /\ pipeline' = [pipeline EXCEPT ![e] = w] /\ w.step \in {"queue", "publish"}
         /\ w.verdict = pipeline[e].verdict
  BY EventGoesOn DEF ModSteps, CreateResult
<1>2. \A d \in Events : pipeline'[d] = IF d = e THEN w ELSE pipeline[d]  BY <1>1 DEF ModTypes
<1>3. Result(e) \in ResultRecords  BY DEF Result, ResultRecords, ModTypes, PipelineRecords
<1>4. ModTypes'  BY <1>1, <1>3 DEF ModTypes, CreateResult
<1>5. ResultsAreStored' /\ AnnouncedAreStored'
  BY <1>1, <1>2 DEF ResultsAreStored, AnnouncedAreStored, Result, CreateResult
<1>6. TakenInOrder' /\ Earned(marked)' /\ Earned(committed)'
  BY <1>1, <1>2 DEF TakenInOrder, Earned, HasResult, CreateResult
<1>7. EventsAreAccounted'  BY <1>1, <1>2 DEF EventsAreAccounted, Accounted, Busy, HasResult, CreateResult
<1>8. QED BY <1>4, <1>5, <1>6, <1>7

\* MarkMessage: the event that is marked has its result.
LEMMA MarkMessageKeeps == ASSUME ModInv, NEW e \in Events, MarkMessage(e) PROVE ModInv'
<1> USE DEF ModInv
<1>1. PICK w \in PipelineRecords :
         /\ pipeline' = [pipeline EXCEPT ![e] = w] /\ w.step = "commit"
         /\ w.verdict = pipeline[e].verdict
  BY EventGoesOn DEF ModSteps, MarkMessage
<1>2. \A d \in Events : pipeline'[d] = IF d = e THEN w ELSE pipeline[d]  BY <1>1 DEF ModTypes
<1>3. HasResult(e) /\ e <= fetched
  <2>1. HasResult(e)  BY DEF ResultsAreStored, Stored, HasResult, Result, MarkMessage
  <2>2. e <= fetched  BY ModerationAssumption DEF MarkMessage, TakenInOrder, Events, ModTypes
  <2>3. QED BY <2>1, <2>2
<1>4. ModTypes'  BY <1>1, ModerationAssumption DEF ModTypes, Events, MarkMessage
<1>5. ResultsAreStored' /\ AnnouncedAreStored'
  BY <1>1, <1>2 DEF ResultsAreStored, AnnouncedAreStored, Result, Stored, MarkMessage
<1>6. TakenInOrder' /\ Earned(marked)' /\ Earned(committed)'
  BY <1>1, <1>2, <1>3 DEF TakenInOrder, Earned, HasResult, MarkMessage, ModTypes, Events
<1>7. EventsAreAccounted'  BY <1>1, <1>2 DEF EventsAreAccounted, Accounted, Busy, HasResult, MarkMessage
<1>8. QED BY <1>4, <1>5, <1>6, <1>7

\* Commit: the position becomes the mark; the event is done and has its result.
LEMMA CommitKeeps == ASSUME ModInv, NEW e \in Events, Commit(e) PROVE ModInv'
<1> USE DEF ModInv
<1>1. PICK w \in PipelineRecords :
         /\ pipeline' = [pipeline EXCEPT ![e] = w] /\ w.step = "done"
         /\ w.verdict = pipeline[e].verdict
  BY EventGoesOn DEF ModSteps, Commit
<1>2. \A d \in Events : pipeline'[d] = IF d = e THEN w ELSE pipeline[d]  BY <1>1 DEF ModTypes
<1>3. HasResult(e)  BY DEF ResultsAreStored, Stored, HasResult, Result, Commit
<1>4. ModTypes'  BY <1>1 DEF ModTypes, Commit
<1>5. ResultsAreStored' /\ AnnouncedAreStored'
  BY <1>1, <1>2 DEF ResultsAreStored, AnnouncedAreStored, Result, Stored, Commit
<1>6. TakenInOrder' /\ Earned(marked)' /\ Earned(committed)'
  BY <1>1, <1>2 DEF TakenInOrder, Earned, HasResult, Commit, ModTypes
<1>7. EventsAreAccounted'
  BY <1>1, <1>2, <1>3
     DEF EventsAreAccounted, Accounted, Busy, HasResult, Commit, TakenInOrder, ModTypes, Events
<1>8. QED BY <1>4, <1>5, <1>6, <1>7

\* processMessage: an event is taken, and is being worked on or cannot be read.
LEMMA TakingKeeps == ASSUME ModInv, processMessage \/ PassMalformed PROVE ModInv'
<1> USE DEF ModInv
<1>1. fetched + 1 \in Events  BY ModerationAssumption DEF ModTypes, Events, processMessage, PassMalformed
<1>2. CASE processMessage
  <2>1. PICK w \in PipelineRecords :
           pipeline' = [pipeline EXCEPT ![fetched + 1] = w] /\ w.step = "detect"
    BY <1>1, <1>2, EventGoesOn DEF ModSteps, processMessage
  <2>2. \A d \in Events : pipeline'[d] = IF d = fetched + 1 THEN w ELSE pipeline[d]  BY <2>1 DEF ModTypes
  <2>3. ModTypes'  BY <1>1, <1>2, <2>1 DEF ModTypes, processMessage, Events
  <2>4. ResultsAreStored' /\ AnnouncedAreStored'
    BY <1>2, <2>1, <2>2 DEF ResultsAreStored, AnnouncedAreStored, Result, Stored, processMessage
  <2>5. TakenInOrder' /\ Earned(marked)' /\ Earned(committed)'
    BY <1>2, <2>1, <2>2 DEF TakenInOrder, Earned, HasResult, processMessage, ModTypes, Events
  <2>6. EventsAreAccounted'
    BY <1>2, <2>1, <2>2
       DEF EventsAreAccounted, Accounted, Busy, HasResult, processMessage, ModTypes, Events
  <2>7. QED BY <2>3, <2>4, <2>5, <2>6
<1>3. CASE PassMalformed
  <2>1. ModTypes'  BY <1>1, <1>3, ModerationAssumption DEF ModTypes, PassMalformed, Events
  <2>2. ResultsAreStored' /\ AnnouncedAreStored'
    BY <1>3 DEF ResultsAreStored, AnnouncedAreStored, Result, Stored, PassMalformed
  <2>3. TakenInOrder' /\ Earned(marked)' /\ Earned(committed)'
    BY <1>3 DEF TakenInOrder, Earned, HasResult, PassMalformed, ModTypes, Events
  <2>4. EventsAreAccounted'
    BY <1>3 DEF EventsAreAccounted, Accounted, Busy, HasResult, PassMalformed, ModTypes, Events
  <2>5. QED BY <2>1, <2>2, <2>3, <2>4
<1>4. QED BY <1>2, <1>3

\* SessionEnds: nothing is worked on, and the next session takes all from the position on.
LEMMA SessionEndsKeeps == ASSUME ModInv, SessionEnds PROVE ModInv'
<1> USE DEF ModInv
<1>1. ModTypes'
  BY ModerationAssumption
     DEF ModTypes, SessionEnds, PipelineRecords, Idle, ModSteps, Verdicts
<1>2. ResultsAreStored' /\ AnnouncedAreStored'
  BY DEF ResultsAreStored, AnnouncedAreStored, Stored, Idle, SessionEnds
<1>3. TakenInOrder' /\ Earned(marked)' /\ Earned(committed)'
  BY DEF TakenInOrder, Earned, HasResult, SessionEnds, Idle, ModTypes
<1>4. EventsAreAccounted'  BY DEF EventsAreAccounted, Accounted, HasResult, SessionEnds, ModTypes, Events
<1>5. QED BY <1>1, <1>2, <1>3, <1>4

\* The invariant is inductive.
LEMMA ModInductive == ModInv /\ [ModNext]_modVars => ModInv'
<1> SUFFICES ASSUME ModInv, [ModNext]_modVars PROVE ModInv'  OBVIOUS
<1>1. CASE UNCHANGED modVars
  <2> USE <1>1 DEF ModInv, modVars
  <2>1. ModTypes' /\ ResultsAreStored' /\ AnnouncedAreStored'
    BY DEF ModTypes, ResultsAreStored, AnnouncedAreStored, Stored, Result
  <2>2. TakenInOrder' /\ Earned(marked)' /\ Earned(committed)' /\ EventsAreAccounted'
    BY DEF TakenInOrder, Earned, EventsAreAccounted, Accounted, HasResult, Busy
  <2>3. QED BY <2>1, <2>2
<1>2. CASE PassMalformed \/ processMessage \/ SessionEnds  BY <1>2, TakingKeeps, SessionEndsKeeps
<1>3. ASSUME NEW e \in Events,
             \/ Detect(e) \/ CreateResult(e) \/ CreateQueueItem(e) \/ PublishModerationResult(e)
             \/ CallFails(e) \/ MarkMessage(e) \/ Commit(e)
      PROVE  ModInv'
  BY <1>3, DetectKeeps, CreateResultKeeps, AnnouncingKeeps, CallFailsKeeps, MarkMessageKeeps,
     CommitKeeps
<1>4. QED BY <1>1, <1>2, <1>3 DEF ModNext

\* Whichever goroutines end first and wherever sessions end, the invariant holds.
LEMMA ModInvHolds == ModSpec => []ModInv
BY ModStarts, ModInductive, PTL DEF ModSpec

\* Every variable of the worker keeps its type; what is queued or announced has been stored.
THEOREM ModTypesHold == ModSpec => []ModTypeOK
<1>1. ModInv => ModTypeOK  BY DEF ModInv, ModTypes, PipelineRecords, AnnouncedAreStored, ModTypeOK
<1>2. QED BY <1>1, ModInvHolds, PTL

\* video_moderation_worker.go: the position moves only to what has a result or cannot be
\* read, and an event is lost only to a session that ends.
THEOREM PositionStaysEarned == ModSpec => []PositionIsEarned
<1>1. ModInv => PositionIsEarned  BY DEF ModInv, Earned, EventsAreAccounted, Accounted, PositionIsEarned
<1>2. QED BY <1>1, ModInvHolds, PTL

--------
\* Reviews: what moderators and owners decide.

CachedStatuses == {"none", "pending", "approved", "denied"}
VisitRecords == [step : VisitSteps, work : Works, appeal : Visits, ruling : Rulings,
                 saw : CachedStatuses]

\* The members of AppealsOf, OnItem and OnAppeal.
IsOf(a, w) == appeal[a].status # "none" /\ appeal[a].of = w
Reviewing(v, w) == visit[v].step \in {"item", "result"} /\ visit[v].work = w
Deciding(v, a) == visit[v].step \in {"reverse", "decide"} /\ visit[v].appeal = a
Approving(v, a) == Deciding(v, a) /\ visit[v].step = "decide" /\ visit[v].ruling = "approved"

\* A request appeals under its own name, once.
AppealIsOwn ==
    \A v \in Visits :
        /\ visit[v].step \in Appealing \cup {"note"} => visit[v].appeal = v
        /\ visit[v].step \in Appealing \cup {"new"} => appeal[v].status = "none"

\* Who decides on an appeal, or looks at it, found its row; the work is the row's.
AppealIsThere ==
    \A v \in Visits : visit[v].step \in {"note", "reverse", "decide", "drop", "fill"} =>
        IsOf(visit[v].appeal, visit[v].work)

\* "reverse" is on the way of approvals only.
ReversalsApprove == \A v \in Visits : visit[v].step = "reverse" => visit[v].ruling = "approved"

\* Appeals that did not meet check one after the other ...
ChecksAreAlone ==
    ~appealsMet =>
        \A v, x \in Visits : visit[v].step \in Appealing /\ visit[x].step \in Appealing => v = x

\* ... so there is room for the one that was counted.
FewAreActive ==
    ~appealsMet => /\ Cardinality(Active) <= MaxAppeals
                   /\ \A v \in Visits : visit[v].step = "create" => Cardinality(Active) < MaxAppeals

\* ... and a result has one appeal, or one more for each look-up that failed.
FewOfEach ==
    ~appealsMet =>
        /\ \A w \in Works : Cardinality(AppealsOf(w)) <= 1 + reviewFaults
        /\ \A v \in Visits, w \in Works : visit[v].step \in {"count", "create"} /\ visit[v].work = w =>
              Cardinality(AppealsOf(w)) <= reviewFaults

\* A work with a rejected result or an appeal has left the queue.
Appealable(w) ==
    \/ result[w] = "rejected" \/ \E a \in Visits : IsOf(a, w)
    \/ \E v \in Visits : visit[v].step \in Appealing /\ visit[v].work = w
AppealedHaveLeft ==
    \A w \in Works : w \notin reviewsMet /\ Appealable(w) =>
        item[w] \in {"none"} \cup Rulings /\ \A v \in Visits : ~Reviewing(v, w)

\* Moderators who did not meet: one to an item, whose decision is the item's ...
ReviewsAreAlone ==
    \A w \in Works : w \notin reviewsMet =>
        /\ \A v, x \in Visits : Reviewing(v, w) /\ Reviewing(x, w) => v = x
        /\ \A v \in Visits : Reviewing(v, w) =>
              IF visit[v].step = "item" THEN MayReview(w) ELSE item[w] = visit[v].ruling

\* ... and one to an appeal, which is pending; the result is reversed before it is approved.
DecisionsAreAlone ==
    \A w \in Works : w \notin reviewsMet => \A a \in Visits : IsOf(a, w) =>
        /\ \A v, x \in Visits : Deciding(v, a) /\ Deciding(x, a) => v = x
        /\ \A v \in Visits : Deciding(v, a) => appeal[a].status = "pending"
        /\ reviewFaults = 0 /\ (appeal[a].status = "approved" \/ \E v \in Visits : Approving(v, a))
              => result[w] = "approved"

\* A result differs from the item's decision by an appeal that is approved, or about to be.
DifferencesAreAppeals ==
    \A w \in Works :
        w \notin reviewsMet /\ reviewFaults = 0 /\ item[w] \in Rulings
        /\ (\A v \in Visits : ~Reviewing(v, w)) /\ result[w] # item[w] =>
            \E a \in Visits : IsOf(a, w) /\ (appeal[a].status = "approved" \/ \E v \in Visits : Approving(v, a))

\* Who is about to cache an appeal's status read it since it was decided on, or met that.
LooksAreFresh ==
    \A v \in Visits : visit[v].step \in {"note", "fill"} =>
        visit[v].saw = appeal[visit[v].appeal].status \/ visit[v].appeal \in looksMet

\* A status that is cached and no longer true is about to be dropped, or met its decision.
CachedIsTrue ==
    \A a \in Visits :
        \/ appealCache[a] \in {"none", appeal[a].status} \/ a \in looksMet \/ reviewFaults > 0
        \/ \E v \in Visits : visit[v].step = "drop" /\ visit[v].appeal = a

ReviewInv ==
    /\ ReviewTypeOK
    /\ AppealIsOwn /\ AppealIsThere /\ ReversalsApprove
    /\ ChecksAreAlone /\ FewAreActive
    /\ AppealedHaveLeft /\ ReviewsAreAlone /\ DecisionsAreAlone /\ DifferencesAreAppeals
    /\ LooksAreFresh /\ CachedIsTrue

\* The invariant is more than DecisionsStand says.
LEMMA DecisionsFollow == ReviewInv /\ FewOfEach => DecisionsStand
<1> SUFFICES ASSUME ReviewInv, FewOfEach PROVE DecisionsStand  OBVIOUS
<1> USE DEF ReviewInv, ReviewTypeOK
<1>1. ResultsFollowDecisions
  BY DEF ResultsFollowDecisions, DecisionsAreAlone, DifferencesAreAppeals, AppealsOf, OnItem,
     OnAppeal,
         Doing, IsOf, Reviewing, Deciding, Approving
<1>2. AppealsAreFew  BY DEF AppealsAreFew, FewAreActive, FewOfEach
<1>3. AppealsAreShown  BY DEF AppealsAreShown, CachedIsTrue, Doing
<1>4. QED BY <1>1, <1>2, <1>3 DEF DecisionsStand

\* The initial states.
LEMMA ReviewStarts == ReviewInit => ReviewInv
<1> SUFFICES ASSUME ReviewInit PROVE ReviewInv  OBVIOUS
<1>1. ReviewTypeOK
  <2>1. PICK w \in Works :
           /\ appeal = [v \in Visits |-> [of |-> w, status |-> "none"]]
           /\ visit = [v \in Visits |-> [step |-> "new", work |-> w, appeal |-> v, ruling |-> "approved",
                                         saw |-> "none"]]
    BY DEF ReviewInit
  <2>2. appeal \in [Visits -> AppealRow] /\ visit \in [Visits -> VisitRecords]
    BY <2>1 DEF AppealRow, VisitRecords, VisitSteps, Rulings, CachedStatuses
  <2>3. /\ result \in [Works -> {"human_review"} \cup Rulings]
        /\ item \in [Works -> {"none", "human_review", "escalated"} \cup Rulings]
        /\ appealCache \in [Visits -> CachedStatuses]
    BY DEF ReviewInit, Rulings, CachedStatuses
  <2>4. appealsMet \in BOOLEAN  BY Zenon DEF ReviewInit
  <2>5. reviewsMet \subseteq Works /\ looksMet \subseteq Visits /\ reviewFaults \in 0..MaxReviewFaults
    BY ReviewAssumption DEF ReviewInit
  <2>6. QED BY <2>2, <2>3, <2>4, <2>5 DEF ReviewTypeOK, VisitRecords, CachedStatuses
<1>2. \A v \in Visits : visit[v].step = "new" /\ appeal[v].status = "none" /\ appealCache[v] = "none"
  BY DEF ReviewInit
<1>3. Cardinality(Active) = 0  BY <1>2, FS_EmptySet DEF Active
<1>4. FewAreActive  BY <1>2, <1>3, ReviewAssumption DEF FewAreActive
<1>5. \A w \in Works : result[w] = "rejected" => item[w] = "none"  BY DEF ReviewInit
<1>6. \A w \in Works : item[w] \notin Rulings  BY DEF ReviewInit, Rulings
<1>7. AppealIsOwn /\ AppealIsThere /\ ReversalsApprove /\ ChecksAreAlone /\ LooksAreFresh /\ CachedIsTrue
  BY <1>2 DEF AppealIsOwn, AppealIsThere, ReversalsApprove, ChecksAreAlone, LooksAreFresh,
     CachedIsTrue,
              IsOf, Appealing
<1>8. AppealedHaveLeft /\ ReviewsAreAlone /\ DecisionsAreAlone /\ DifferencesAreAppeals
  BY <1>2, <1>5, <1>6 DEF AppealedHaveLeft, ReviewsAreAlone, DecisionsAreAlone,
     DifferencesAreAppeals,
                          Appealable, Appealing, IsOf, Reviewing, Deciding, Approving
<1>9. QED BY <1>1, <1>4, <1>7, <1>8 DEF ReviewInv

--------
\* The steps.

\* A request that goes on keeps what it is about.
LEMMA VisitGoesOn ==
    ASSUME visit \in [Visits -> VisitRecords], NEW v \in Visits, NEW step \in VisitSteps,
           Steps(v, step)
    PROVE  \E n \in VisitRecords :
              /\ visit' = [visit EXCEPT ![v] = n] /\ n.step = step
              /\ n.work = visit[v].work /\ n.appeal = visit[v].appeal
              /\ n.ruling = visit[v].ruling /\ n.saw = visit[v].saw
<1>1. [visit[v] EXCEPT !.step = step] \in VisitRecords  BY DEF VisitRecords
<1>2. WITNESS [visit[v] EXCEPT !.step = step] \in VisitRecords
<1>3. QED BY DEF VisitRecords, Steps

\* A request that begins is about what it is given.
LEMMA VisitBegins ==
    ASSUME visit \in [Visits -> VisitRecords], NEW v \in Visits, NEW step \in VisitSteps,
           NEW w \in Works, NEW a \in Visits, NEW ruling \in Rulings, NEW saw \in CachedStatuses,
           Begins(v, step, w, a, ruling, saw)
    PROVE  \E n \in VisitRecords :
              /\ visit' = [visit EXCEPT ![v] = n] /\ n.step = step
              /\ n.work = w /\ n.appeal = a /\ n.ruling = ruling /\ n.saw = saw
<1> DEFINE m == [step |-> step, work |-> w, appeal |-> a, ruling |-> ruling, saw |-> saw]
<1>1. m \in VisitRecords  BY DEF VisitRecords
<1>2. WITNESS m \in VisitRecords
<1>3. QED BY DEF Begins

\* ReviewContent: a moderator begins on an item, alone or noted as met.
LEMMA ReviewContentStands ==
    ASSUME ReviewInv, NEW v \in Visits, NEW w \in Works, NEW ruling \in Rulings,
           ReviewContent(v, w, ruling)
    PROVE  ReviewInv'
<1> USE DEF ReviewInv
<1>t. visit \in [Visits -> VisitRecords]
  BY DEF ReviewTypeOK, VisitRecords, CachedStatuses
<1>1. PICK n \in VisitRecords :
         /\ visit' = [visit EXCEPT ![v] = n] /\ n.step = "item" /\ n.work = w
         /\ n.appeal = v /\ n.ruling = ruling /\ n.saw = "none"
  BY <1>t, VisitBegins DEF VisitSteps, Rulings, CachedStatuses, ReviewTypeOK, AppealRow, ReviewContent
<1>2. \A x \in Visits : visit'[x] = IF x = v THEN n ELSE visit[x]  BY <1>1 DEF ReviewTypeOK
<1>3. FewAreActive'  BY <1>1, <1>2 DEF FewAreActive, Active, ReviewContent, Begins
<1>4. ReviewTypeOK'
  BY <1>1, ReviewAssumption DEF ReviewTypeOK, AppealRow, VisitRecords, CachedStatuses,
     ReviewContent, Begins
<1>5. AppealIsOwn' /\ AppealIsThere' /\ ReversalsApprove'
  BY <1>1, <1>2
     DEF ReviewTypeOK, AppealRow, VisitRecords, AppealIsOwn, AppealIsThere,
         ReversalsApprove, IsOf, Appealing, ReviewContent, Begins
<1>6. ChecksAreAlone'
  BY <1>1, <1>2
     DEF ReviewTypeOK, AppealRow, VisitRecords, ChecksAreAlone, IsOf, Appealing,
         AppealIsOwn, Doing, AppealsOf, ReviewContent, Begins
<1>7. AppealedHaveLeft'
  <2>1. \A u \in Works : Appealable(u)' => Appealable(u)
    BY <1>1, <1>2 DEF Appealable, Appealing, IsOf, ReviewContent
  <2>2. QED
    BY <1>1, <1>2, <2>1
       DEF ReviewTypeOK, AppealedHaveLeft, Appealable, Reviewing, MayReview, Rulings, OnItem, Doing, ReviewContent, Begins
<1>8. ReviewsAreAlone'
  BY <1>1, <1>2
     DEF ReviewTypeOK, AppealRow, VisitRecords, ReviewsAreAlone, Reviewing, MayReview,
         OnItem, Doing, ReviewContent, Begins
<1>9. DecisionsAreAlone'
  BY <1>1, <1>2
     DEF ReviewTypeOK, AppealRow, VisitRecords, DecisionsAreAlone, AppealIsThere,
         AppealIsOwn, ReversalsApprove, IsOf, Deciding, Approving, Reviewing, OnAppeal,
         Doing, AppealedHaveLeft, Appealable, Appealing, ReviewContent, Begins
<1>10. DifferencesAreAppeals'
  BY <1>1, <1>2
     DEF ReviewTypeOK, AppealRow, VisitRecords, DifferencesAreAppeals,
         DecisionsAreAlone, AppealIsThere, AppealIsOwn, ReversalsApprove,
         ReviewsAreAlone, IsOf, Deciding, Approving, Reviewing, Appealing, ReviewContent, Begins
<1>11. LooksAreFresh' /\ CachedIsTrue'
  BY <1>1, <1>2
     DEF ReviewTypeOK, AppealRow, VisitRecords, LooksAreFresh, CachedIsTrue,
         AppealIsThere, AppealIsOwn, Appealing, IsOf, Doing, ReviewContent, Begins
<1>12. QED BY <1>3, <1>4, <1>5, <1>6, <1>7, <1>8, <1>9, <1>10, <1>11

\* UpdateQueueItem: the item's decision is the moderator's.
LEMMA UpdateQueueItemStands ==
    ASSUME ReviewInv, NEW v \in Visits, UpdateQueueItem(v)
    PROVE  ReviewInv'
<1> USE DEF ReviewInv
<1>t. visit \in [Visits -> VisitRecords]
  BY DEF ReviewTypeOK, VisitRecords, CachedStatuses
<1>1. PICK n \in VisitRecords :
         /\ visit' = [visit EXCEPT ![v] = n] /\ n.step = "result"
         /\ n.work = visit[v].work /\ n.appeal = visit[v].appeal
         /\ n.ruling = visit[v].ruling /\ n.saw = visit[v].saw
  BY VisitGoesOn DEF UpdateQueueItem, VisitSteps, VisitRecords, CachedStatuses, ReviewTypeOK
<1>2. \A x \in Visits : visit'[x] = IF x = v THEN n ELSE visit[x]  BY <1>1 DEF ReviewTypeOK
<1>3. FewAreActive'  BY <1>1, <1>2 DEF FewAreActive, Active, UpdateQueueItem
<1>4. ReviewTypeOK'
  BY <1>1, ReviewAssumption DEF ReviewTypeOK, AppealRow, VisitRecords, CachedStatuses,
     UpdateQueueItem
<1>5. AppealIsOwn' /\ AppealIsThere' /\ ReversalsApprove'
  BY <1>1, <1>2
     DEF ReviewTypeOK, AppealRow, VisitRecords, AppealIsOwn, AppealIsThere,
         ReversalsApprove, IsOf, Appealing, UpdateQueueItem
<1>6. ChecksAreAlone'
  BY <1>1, <1>2
     DEF ReviewTypeOK, AppealRow, VisitRecords, ChecksAreAlone, IsOf, Appealing,
         AppealIsOwn, Doing, AppealsOf, UpdateQueueItem
<1>7. AppealedHaveLeft'
  BY <1>1, <1>2
     DEF ReviewTypeOK, AppealRow, VisitRecords, AppealedHaveLeft, Appealable, IsOf,
         Reviewing, Appealing, MayReview, ReviewsAreAlone, OnItem, Doing,
         UpdateQueueItem
<1>8. ReviewsAreAlone'
  BY <1>1, <1>2
     DEF ReviewTypeOK, AppealRow, VisitRecords, ReviewsAreAlone, Reviewing, MayReview,
         OnItem, Doing, UpdateQueueItem
<1>9. DecisionsAreAlone'
  BY <1>1, <1>2
     DEF ReviewTypeOK, AppealRow, VisitRecords, DecisionsAreAlone, AppealIsThere,
         AppealIsOwn, ReversalsApprove, IsOf, Deciding, Approving, Reviewing, OnAppeal,
         Doing, AppealedHaveLeft, Appealable, Appealing, UpdateQueueItem
<1>10. DifferencesAreAppeals'
  BY <1>1, <1>2
     DEF ReviewTypeOK, AppealRow, VisitRecords, DifferencesAreAppeals,
         DecisionsAreAlone, AppealIsThere, AppealIsOwn, ReversalsApprove,
         ReviewsAreAlone, IsOf, Deciding, Approving, Reviewing, Appealing,
         UpdateQueueItem
<1>11. LooksAreFresh' /\ CachedIsTrue'
  BY <1>1, <1>2
     DEF ReviewTypeOK, AppealRow, VisitRecords, LooksAreFresh, CachedIsTrue,
         AppealIsThere, AppealIsOwn, Appealing, IsOf, Doing, UpdateQueueItem
<1>12. QED BY <1>3, <1>4, <1>5, <1>6, <1>7, <1>8, <1>9, <1>10, <1>11

\* UpdateResult: the result is what the item says.
LEMMA UpdateResultStands ==
    ASSUME ReviewInv, NEW v \in Visits, UpdateResult(v)
    PROVE  ReviewInv'
<1> USE DEF ReviewInv
<1>t. visit \in [Visits -> VisitRecords]
  BY DEF ReviewTypeOK, VisitRecords, CachedStatuses
<1>1. PICK n \in VisitRecords :
         /\ visit' = [visit EXCEPT ![v] = n] /\ n.step = "ended"
         /\ n.work = visit[v].work /\ n.appeal = visit[v].appeal
         /\ n.ruling = visit[v].ruling /\ n.saw = visit[v].saw
  BY VisitGoesOn DEF UpdateResult, VisitSteps, VisitRecords, CachedStatuses, ReviewTypeOK
<1>2. \A x \in Visits : visit'[x] = IF x = v THEN n ELSE visit[x]  BY <1>1 DEF ReviewTypeOK
<1>3. FewAreActive'  BY <1>1, <1>2 DEF FewAreActive, Active, UpdateResult
<1>4. ReviewTypeOK'
  BY <1>1, ReviewAssumption DEF ReviewTypeOK, AppealRow, VisitRecords, CachedStatuses, UpdateResult
<1>5. AppealIsOwn' /\ AppealIsThere' /\ ReversalsApprove'
  BY <1>1, <1>2
     DEF ReviewTypeOK, AppealRow, VisitRecords, AppealIsOwn, AppealIsThere,
         ReversalsApprove, IsOf, Appealing, UpdateResult
<1>6. ChecksAreAlone'
  BY <1>1, <1>2
     DEF ReviewTypeOK, AppealRow, VisitRecords, ChecksAreAlone, IsOf, Appealing,
         AppealIsOwn, Doing, AppealsOf, UpdateResult
<1>7. AppealedHaveLeft'
  BY <1>1, <1>2
     DEF ReviewTypeOK, AppealRow, VisitRecords, AppealedHaveLeft, Appealable, IsOf,
         Reviewing, Appealing, MayReview, ReviewsAreAlone, OnItem, Doing, UpdateResult
<1>8. ReviewsAreAlone'
  BY <1>1, <1>2
     DEF ReviewTypeOK, AppealRow, VisitRecords, ReviewsAreAlone, Reviewing, MayReview,
         OnItem, Doing, UpdateResult
<1>9. DecisionsAreAlone'
  BY <1>1, <1>2
     DEF ReviewTypeOK, AppealRow, VisitRecords, DecisionsAreAlone, AppealIsThere,
         AppealIsOwn, ReversalsApprove, IsOf, Deciding, Approving, Reviewing, OnAppeal,
         Doing, AppealedHaveLeft, Appealable, Appealing, UpdateResult
<1>10. DifferencesAreAppeals'
  BY <1>1, <1>2
     DEF ReviewTypeOK, AppealRow, VisitRecords, DifferencesAreAppeals,
         DecisionsAreAlone, AppealIsThere, AppealIsOwn, ReversalsApprove,
         ReviewsAreAlone, IsOf, Deciding, Approving, Reviewing, Appealing, UpdateResult
<1>11. LooksAreFresh' /\ CachedIsTrue'
  BY <1>1, <1>2
     DEF ReviewTypeOK, AppealRow, VisitRecords, LooksAreFresh, CachedIsTrue,
         AppealIsThere, AppealIsOwn, Appealing, IsOf, Doing, UpdateResult
<1>12. QED BY <1>3, <1>4, <1>5, <1>6, <1>7, <1>8, <1>9, <1>10, <1>11

\* AppealDecision: only a rejected result is appealed.
LEMMA AppealDecisionStands ==
    ASSUME ReviewInv, NEW v \in Visits, NEW w \in Works, AppealDecision(v, w)
    PROVE  ReviewInv'
<1> USE DEF ReviewInv
<1>t. visit \in [Visits -> VisitRecords]
  BY DEF ReviewTypeOK, VisitRecords, CachedStatuses
<1>1. PICK n \in VisitRecords :
         /\ visit' = [visit EXCEPT ![v] = n] /\ n.step = "duplicate" /\ n.work = w
         /\ n.appeal = v /\ n.ruling = "approved" /\ n.saw = "none"
  BY <1>t, VisitBegins DEF VisitSteps, Rulings, CachedStatuses, ReviewTypeOK, AppealRow, AppealDecision
<1>2. \A x \in Visits : visit'[x] = IF x = v THEN n ELSE visit[x]  BY <1>1 DEF ReviewTypeOK
<1>b. ~appealsMet' => ~appealsMet /\ \A x \in Visits : visit[x].step \notin Appealing
  BY DEF AppealDecision, Doing
<1>3. FewAreActive'  BY <1>1, <1>2, <1>b DEF FewAreActive, Active, AppealDecision, Begins
<1>4. ReviewTypeOK'
  BY <1>1, ReviewAssumption DEF ReviewTypeOK, AppealRow, VisitRecords, CachedStatuses,
     AppealDecision, Begins
<1>5. AppealIsOwn' /\ AppealIsThere' /\ ReversalsApprove'
  BY <1>1, <1>2, <1>b
     DEF ReviewTypeOK, AppealRow, VisitRecords, AppealIsOwn, AppealIsThere,
         ReversalsApprove, IsOf, Appealing, AppealDecision, Begins
<1>6. ChecksAreAlone'
  BY <1>1, <1>2, <1>b
     DEF ReviewTypeOK, AppealRow, VisitRecords, ChecksAreAlone, IsOf, Appealing,
         AppealIsOwn, Doing, AppealsOf, AppealDecision, Begins
<1>7. AppealedHaveLeft'
  <2>1. \A u \in Works : Appealable(u)' => Appealable(u)
    BY <1>1, <1>2, <1>b DEF Appealable, Appealing, IsOf, AppealDecision
  <2>2. QED
    BY <1>1, <1>2, <1>b, <2>1
       DEF ReviewTypeOK, AppealedHaveLeft, Appealable, Reviewing, MayReview, Rulings, OnItem, Doing, AppealDecision, Begins
<1>8. ReviewsAreAlone'
  BY <1>1, <1>2, <1>b
     DEF ReviewTypeOK, AppealRow, VisitRecords, ReviewsAreAlone, Reviewing, MayReview,
         OnItem, Doing, AppealDecision, Begins
<1>9. DecisionsAreAlone'
  BY <1>1, <1>2, <1>b
     DEF ReviewTypeOK, AppealRow, VisitRecords, DecisionsAreAlone, AppealIsThere,
         AppealIsOwn, ReversalsApprove, IsOf, Deciding, Approving, Reviewing, OnAppeal,
         Doing, AppealedHaveLeft, Appealable, Appealing, AppealDecision, Begins
<1>10. DifferencesAreAppeals'
  BY <1>1, <1>2, <1>b
     DEF ReviewTypeOK, AppealRow, VisitRecords, DifferencesAreAppeals,
         DecisionsAreAlone, AppealIsThere, AppealIsOwn, ReversalsApprove,
         ReviewsAreAlone, IsOf, Deciding, Approving, Reviewing, Appealing,
         AppealDecision, Begins
<1>11. LooksAreFresh' /\ CachedIsTrue'
  BY <1>1, <1>2, <1>b
     DEF ReviewTypeOK, AppealRow, VisitRecords, LooksAreFresh, CachedIsTrue,
         AppealIsThere, AppealIsOwn, Appealing, IsOf, Doing, AppealDecision, Begins
<1>12. QED BY <1>3, <1>4, <1>5, <1>6, <1>7, <1>8, <1>9, <1>10, <1>11

\* GetAppealByResultID: who goes on found no appeal of the result, or its look-up failed.
LEMMA GetAppealByResultIDStands ==
    ASSUME ReviewInv, NEW v \in Visits, GetAppealByResultID(v)
    PROVE  ReviewInv'
<1> USE DEF ReviewInv
<1>t. visit \in [Visits -> VisitRecords]
  BY DEF ReviewTypeOK, VisitRecords, CachedStatuses
<1>1. PICK n \in VisitRecords :
         /\ visit' = [visit EXCEPT ![v] = n] /\ n.step \in {"count", "ended"}
         /\ n.work = visit[v].work /\ n.appeal = visit[v].appeal
         /\ n.ruling = visit[v].ruling /\ n.saw = visit[v].saw
  BY VisitGoesOn DEF GetAppealByResultID, VisitSteps, VisitRecords, CachedStatuses, ReviewTypeOK
<1>2. \A x \in Visits : visit'[x] = IF x = v THEN n ELSE visit[x]  BY <1>1 DEF ReviewTypeOK
<1>3. FewAreActive'  BY <1>1, <1>2 DEF FewAreActive, Active, GetAppealByResultID
<1>4. ReviewTypeOK'
  BY <1>1, ReviewAssumption DEF ReviewTypeOK, AppealRow, VisitRecords, CachedStatuses,
     GetAppealByResultID
<1>5. AppealIsOwn' /\ AppealIsThere' /\ ReversalsApprove'
  BY <1>1, <1>2
     DEF ReviewTypeOK, AppealRow, VisitRecords, AppealIsOwn, AppealIsThere,
         ReversalsApprove, IsOf, Appealing, GetAppealByResultID
<1>6. ChecksAreAlone'
  BY <1>1, <1>2
     DEF ReviewTypeOK, AppealRow, VisitRecords, ChecksAreAlone, IsOf, Appealing,
         AppealIsOwn, Doing, AppealsOf, GetAppealByResultID
<1>7. AppealedHaveLeft'
  BY <1>1, <1>2
     DEF ReviewTypeOK, AppealRow, VisitRecords, AppealedHaveLeft, Appealable, IsOf,
         Reviewing, Appealing, MayReview, ReviewsAreAlone, OnItem, Doing,
         GetAppealByResultID
<1>8. ReviewsAreAlone'
  BY <1>1, <1>2
     DEF ReviewTypeOK, AppealRow, VisitRecords, ReviewsAreAlone, Reviewing, MayReview,
         OnItem, Doing, GetAppealByResultID
<1>9. DecisionsAreAlone'
  BY <1>1, <1>2
     DEF ReviewTypeOK, AppealRow, VisitRecords, DecisionsAreAlone, AppealIsThere,
         AppealIsOwn, ReversalsApprove, IsOf, Deciding, Approving, Reviewing, OnAppeal,
         Doing, AppealedHaveLeft, Appealable, Appealing, GetAppealByResultID
<1>10. DifferencesAreAppeals'
  BY <1>1, <1>2
     DEF ReviewTypeOK, AppealRow, VisitRecords, DifferencesAreAppeals,
         DecisionsAreAlone, AppealIsThere, AppealIsOwn, ReversalsApprove,
         ReviewsAreAlone, IsOf, Deciding, Approving, Reviewing, Appealing,
         GetAppealByResultID
<1>11. LooksAreFresh' /\ CachedIsTrue'
  BY <1>1, <1>2
     DEF ReviewTypeOK, AppealRow, VisitRecords, LooksAreFresh, CachedIsTrue,
         AppealIsThere, AppealIsOwn, Appealing, IsOf, Doing, GetAppealByResultID
<1>12. QED BY <1>3, <1>4, <1>5, <1>6, <1>7, <1>8, <1>9, <1>10, <1>11

\* CountActiveAppeals: who goes on found room.
LEMMA CountActiveAppealsStands ==
    ASSUME ReviewInv, NEW v \in Visits, CountActiveAppeals(v)
    PROVE  ReviewInv'
<1> USE DEF ReviewInv
<1>t. visit \in [Visits -> VisitRecords]
  BY DEF ReviewTypeOK, VisitRecords, CachedStatuses
<1>1. PICK n \in VisitRecords :
         /\ visit' = [visit EXCEPT ![v] = n] /\ n.step = (IF Cardinality(Active) < MaxAppeals THEN "create" ELSE "ended")
         /\ n.work = visit[v].work /\ n.appeal = visit[v].appeal
         /\ n.ruling = visit[v].ruling /\ n.saw = visit[v].saw
  BY VisitGoesOn DEF CountActiveAppeals, VisitSteps, VisitRecords, CachedStatuses, ReviewTypeOK
<1>2. \A x \in Visits : visit'[x] = IF x = v THEN n ELSE visit[x]  BY <1>1 DEF ReviewTypeOK
<1>3. FewAreActive'  BY <1>1, <1>2 DEF FewAreActive, Active, CountActiveAppeals
<1>4. ReviewTypeOK'
  BY <1>1, ReviewAssumption DEF ReviewTypeOK, AppealRow, VisitRecords, CachedStatuses,
     CountActiveAppeals
<1>5. AppealIsOwn' /\ AppealIsThere' /\ ReversalsApprove'
  BY <1>1, <1>2
     DEF ReviewTypeOK, AppealRow, VisitRecords, AppealIsOwn, AppealIsThere,
         ReversalsApprove, IsOf, Appealing, CountActiveAppeals
<1>6. ChecksAreAlone'
  BY <1>1, <1>2
     DEF ReviewTypeOK, AppealRow, VisitRecords, ChecksAreAlone, IsOf, Appealing,
         AppealIsOwn, Doing, AppealsOf, CountActiveAppeals
<1>7. AppealedHaveLeft'
  BY <1>1, <1>2
     DEF ReviewTypeOK, AppealRow, VisitRecords, AppealedHaveLeft, Appealable, IsOf,
         Reviewing, Appealing, MayReview, ReviewsAreAlone, OnItem, Doing,
         CountActiveAppeals
<1>8. ReviewsAreAlone'
  BY <1>1, <1>2
     DEF ReviewTypeOK, AppealRow, VisitRecords, ReviewsAreAlone, Reviewing, MayReview,
         OnItem, Doing, CountActiveAppeals
<1>9. DecisionsAreAlone'  BY <1>1, <1>2 DEF CountActiveAppeals, Deciding, Approving, DecisionsAreAlone, IsOf
<1>10. DifferencesAreAppeals'
  BY <1>1, <1>2 DEF CountActiveAppeals, Deciding, Approving, Reviewing, DifferencesAreAppeals, IsOf
<1>11. LooksAreFresh' /\ CachedIsTrue'
  BY <1>1, <1>2
     DEF ReviewTypeOK, AppealRow, VisitRecords, LooksAreFresh, CachedIsTrue,
         AppealIsThere, AppealIsOwn, Appealing, IsOf, Doing, CountActiveAppeals
<1>12. QED BY <1>3, <1>4, <1>5, <1>6, <1>7, <1>8, <1>9, <1>10, <1>11

\* CreateAppeal: the only one of the result, if checks did not meet.
LEMMA CreateAppealStands ==
    ASSUME ReviewInv, NEW v \in Visits, CreateAppeal(v)
    PROVE  ReviewInv'
<1> USE DEF ReviewInv
<1>t. visit \in [Visits -> VisitRecords]
  BY DEF ReviewTypeOK, VisitRecords, CachedStatuses
<1>1. PICK n \in VisitRecords :
         /\ visit' = [visit EXCEPT ![v] = n] /\ n.step = "note"
         /\ n.work = visit[v].work /\ n.appeal = visit[v].appeal
         /\ n.ruling = visit[v].ruling /\ n.saw = "pending"
  <2> DEFINE m == [visit[v] EXCEPT !.step = "note", !.saw = "pending"]
  <2>1. visit[v] \in VisitRecords  BY <1>t
  <2>2. m \in VisitRecords  BY <2>1 DEF VisitRecords, VisitSteps, CachedStatuses
  <2>3. /\ visit' = [visit EXCEPT ![v] = m] /\ m.step = "note"
        /\ m.work = visit[v].work /\ m.appeal = visit[v].appeal
        /\ m.ruling = visit[v].ruling /\ m.saw = "pending"
    BY <1>t, <2>1 DEF CreateAppeal, VisitRecords
  <2>4. QED BY <2>2, <2>3
<1>2. \A x \in Visits : visit'[x] = IF x = v THEN n ELSE visit[x]  BY <1>1 DEF ReviewTypeOK
<1>a. \A x \in Visits : appeal'[x] = IF x = v THEN [of |-> visit[v].work, status |-> "pending"]
                                   ELSE appeal[x]
  BY DEF ReviewTypeOK, CreateAppeal
<1>b. /\ visit[v].step = "create"
      /\ UNCHANGED <<result, item, appealCache, reviewsMet, appealsMet, looksMet, reviewFaults>>
  BY DEF CreateAppeal
<1>c. \A x \in Visits, u \in Works : IsOf(x, u)' <=> IsOf(x, u) \/ (x = v /\ u = visit[v].work)
  BY <1>a, <1>b DEF IsOf, AppealIsOwn, Appealing, ReviewTypeOK
<1>d. (\A u \in Works : ~IsOf(v, u)) /\ \A x \in Visits : ~Deciding(x, v) /\ ~Approving(x, v)
  BY <1>b DEF IsOf, AppealIsOwn, AppealIsThere, Appealing, Deciding, Approving
<1>e. \A x, y \in Visits : (Deciding(x, y)' <=> Deciding(x, y)) /\ (Approving(x, y)' <=> Approving(x, y))
  BY <1>1, <1>2, <1>b DEF Deciding, Approving
<1>f. \A x \in Visits, u \in Works : Reviewing(x, u)' <=> Reviewing(x, u)
  BY <1>1, <1>2, <1>b DEF Reviewing
<1>3. FewAreActive'
  <2>1. Active' = Active \cup {v} /\ v \notin Active
    BY <1>1, <1>2, <1>a, <1>b, <1>c, <1>d DEF Active, AppealIsOwn, Appealing, CreateAppeal
  <2>2. IsFiniteSet(Active)  BY ReviewAssumption, FS_Subset DEF Active
  <2>3. Cardinality(Active') = Cardinality(Active) + 1 /\ Cardinality(Active) \in Nat
    BY <2>1, <2>2, FS_AddElement, FS_CardinalityType
  <2>4. ~appealsMet => Cardinality(Active) < MaxAppeals /\ \A x \in Visits : visit[x].step = "create" => x = v
    BY DEF FewAreActive, ChecksAreAlone, Appealing, CreateAppeal
  <2>5. ~appealsMet' => /\ Cardinality(Active') <= MaxAppeals
                        /\ \A x \in Visits : visit'[x].step # "create"
    BY <1>1, <1>2, <1>a, <1>b, <1>c, <1>d, <2>3, <2>4, ReviewAssumption
  <2>6. QED BY <2>5 DEF FewAreActive
<1>4. ReviewTypeOK'
  <2>1. appeal' \in [Visits -> AppealRow]  BY DEF ReviewTypeOK, AppealRow, CreateAppeal
  <2>2. visit' \in [Visits -> VisitRecords]  BY <1>t, <1>1
  <2>3. QED BY <1>b, <2>1, <2>2 DEF ReviewTypeOK, VisitRecords, CachedStatuses
<1>5. AppealIsOwn' /\ AppealIsThere' /\ ReversalsApprove'
  BY <1>1, <1>2, <1>a, <1>b, <1>c, <1>d
     DEF ReviewTypeOK, AppealRow, VisitRecords, AppealIsOwn, AppealIsThere,
         ReversalsApprove, Appealing
<1>6. ChecksAreAlone'
  BY <1>1, <1>2, <1>a, <1>b, <1>c, <1>d
     DEF ReviewTypeOK, AppealRow, VisitRecords, ChecksAreAlone, Appealing, AppealIsOwn,
         Doing, AppealsOf
<1>7. AppealedHaveLeft'
  <2>1. \A u \in Works : Appealable(u)' => Appealable(u)
    BY <1>1, <1>2, <1>a, <1>b, <1>c, <1>d DEF Appealable, Appealing
  <2>2. QED
    BY <1>1, <1>2, <1>a, <1>b, <1>c, <1>d, <2>1
       DEF ReviewTypeOK, AppealedHaveLeft, Appealable, Reviewing, MayReview, Rulings, OnItem, Doing, CreateAppeal
<1>8. ReviewsAreAlone'
  BY <1>1, <1>2, <1>a, <1>b, <1>c, <1>d
     DEF ReviewTypeOK, AppealRow, VisitRecords, ReviewsAreAlone, Reviewing, MayReview,
         OnItem, Doing
<1>9. DecisionsAreAlone'  BY <1>a, <1>b, <1>c, <1>d, <1>e, <1>f DEF DecisionsAreAlone
<1>10. DifferencesAreAppeals'  BY <1>a, <1>b, <1>c, <1>d, <1>e, <1>f DEF DifferencesAreAppeals
<1>11. LooksAreFresh' /\ CachedIsTrue'
  BY <1>1, <1>2, <1>a, <1>b, <1>c, <1>d
     DEF ReviewTypeOK, AppealRow, VisitRecords, LooksAreFresh, CachedIsTrue,
         AppealIsThere, AppealIsOwn, Appealing, IsOf, Doing
<1>12. QED BY <1>3, <1>4, <1>5, <1>6, <1>7, <1>8, <1>9, <1>10, <1>11

\* ReviewAppeal: the appeal is pending when the decision begins.
LEMMA ReviewAppealStands ==
    ASSUME ReviewInv, NEW v \in Visits, NEW a \in Visits, NEW ruling \in Rulings,
           ReviewAppeal(v, a, ruling)
    PROVE  ReviewInv'
<1> USE DEF ReviewInv
<1>t. visit \in [Visits -> VisitRecords]
  BY DEF ReviewTypeOK, VisitRecords, CachedStatuses
<1>1. PICK n \in VisitRecords :
         /\ visit' = [visit EXCEPT ![v] = n] /\ n.step = (IF ruling = "approved" THEN "reverse" ELSE "decide") /\ n.work = appeal[a].of
         /\ n.appeal = a /\ n.ruling = ruling /\ n.saw = "none"
  <2>1. /\ (IF ruling = "approved" THEN "reverse" ELSE "decide") \in VisitSteps /\ appeal[a].of \in Works /\ a \in Visits
        /\ ruling \in Rulings /\ "none" \in CachedStatuses
    BY DEF VisitSteps, Rulings, CachedStatuses, ReviewTypeOK, AppealRow
  <2>2. Begins(v, (IF ruling = "approved" THEN "reverse" ELSE "decide"), appeal[a].of, a, ruling, "none")
    BY DEF ReviewAppeal
  <2>3. QED BY <1>t, <2>1, <2>2, VisitBegins
<1>2. \A x \in Visits : visit'[x] = IF x = v THEN n ELSE visit[x]  BY <1>1 DEF ReviewTypeOK
<1>3. FewAreActive'  BY <1>1, <1>2 DEF FewAreActive, Active, ReviewAppeal, Begins
<1>4. ReviewTypeOK'
  BY <1>1, ReviewAssumption DEF ReviewTypeOK, AppealRow, VisitRecords, CachedStatuses,
     ReviewAppeal, Begins
<1>5. AppealIsOwn' /\ AppealIsThere' /\ ReversalsApprove'
  BY <1>1, <1>2
     DEF ReviewTypeOK, AppealRow, VisitRecords, AppealIsOwn, AppealIsThere,
         ReversalsApprove, IsOf, Appealing, ReviewAppeal, Begins
<1>6. ChecksAreAlone'
  BY <1>1, <1>2
     DEF ReviewTypeOK, AppealRow, VisitRecords, ChecksAreAlone, IsOf, Appealing,
         AppealIsOwn, Doing, AppealsOf, ReviewAppeal, Begins
<1>7. AppealedHaveLeft'
  BY <1>1, <1>2
     DEF ReviewTypeOK, AppealRow, VisitRecords, AppealedHaveLeft, Appealable, IsOf,
         Reviewing, Appealing, MayReview, ReviewsAreAlone, OnItem, Doing, ReviewAppeal, Begins
<1>8. ReviewsAreAlone'
  BY <1>1, <1>2
     DEF ReviewTypeOK, AppealRow, VisitRecords, ReviewsAreAlone, Reviewing, MayReview,
         OnItem, Doing, ReviewAppeal, Begins
<1>9. DecisionsAreAlone'
  BY <1>1, <1>2
     DEF ReviewTypeOK, AppealRow, VisitRecords, DecisionsAreAlone, AppealIsThere,
         AppealIsOwn, ReversalsApprove, IsOf, Deciding, Approving, Reviewing, OnAppeal,
         Doing, AppealedHaveLeft, Appealable, Appealing, ReviewAppeal, Begins
<1>10. DifferencesAreAppeals'
  BY <1>1, <1>2
     DEF ReviewTypeOK, AppealRow, VisitRecords, DifferencesAreAppeals,
         DecisionsAreAlone, AppealIsThere, AppealIsOwn, ReversalsApprove,
         ReviewsAreAlone, IsOf, Deciding, Approving, Reviewing, Appealing, ReviewAppeal, Begins
<1>11. LooksAreFresh' /\ CachedIsTrue'
  BY <1>1, <1>2
     DEF ReviewTypeOK, AppealRow, VisitRecords, LooksAreFresh, CachedIsTrue,
         AppealIsThere, AppealIsOwn, Appealing, IsOf, Doing, ReviewAppeal, Begins
<1>12. QED BY <1>3, <1>4, <1>5, <1>6, <1>7, <1>8, <1>9, <1>10, <1>11

\* ReverseResult: the result is approved before the appeal, unless the call failed.
LEMMA ReverseResultStands ==
    ASSUME ReviewInv, NEW v \in Visits, ReverseResult(v)
    PROVE  ReviewInv'
<1> USE DEF ReviewInv
<1>t. visit \in [Visits -> VisitRecords]
  BY DEF ReviewTypeOK, VisitRecords, CachedStatuses
<1>1. PICK n \in VisitRecords :
         /\ visit' = [visit EXCEPT ![v] = n] /\ n.step = "decide"
         /\ n.work = visit[v].work /\ n.appeal = visit[v].appeal
         /\ n.ruling = visit[v].ruling /\ n.saw = visit[v].saw
  BY VisitGoesOn DEF ReverseResult, VisitSteps, VisitRecords, CachedStatuses, ReviewTypeOK
<1>2. \A x \in Visits : visit'[x] = IF x = v THEN n ELSE visit[x]  BY <1>1 DEF ReviewTypeOK
<1>3. FewAreActive'  BY <1>1, <1>2 DEF FewAreActive, Active, ReverseResult
<1>4. ReviewTypeOK'
  BY ReviewAssumption, <1>1 DEF ReviewTypeOK, Rulings, ReverseResult, VisitRecords, CachedStatuses
<1>5. AppealIsOwn' /\ AppealIsThere' /\ ReversalsApprove'
  BY <1>1, <1>2
     DEF ReviewTypeOK, AppealRow, VisitRecords, AppealIsOwn, AppealIsThere,
         ReversalsApprove, IsOf, Appealing, ReverseResult
<1>6. ChecksAreAlone'
  BY <1>1, <1>2
     DEF ReviewTypeOK, AppealRow, VisitRecords, ChecksAreAlone, IsOf, Appealing,
         AppealIsOwn, Doing, AppealsOf, ReverseResult
<1>7. AppealedHaveLeft'
  BY <1>1, <1>2
     DEF ReviewTypeOK, AppealRow, VisitRecords, AppealedHaveLeft, Appealable, IsOf,
         Reviewing, Appealing, MayReview, ReviewsAreAlone, OnItem, Doing, ReverseResult
<1>8. ReviewsAreAlone'
  BY <1>1, <1>2
     DEF ReviewTypeOK, AppealRow, VisitRecords, ReviewsAreAlone, Reviewing, MayReview,
         OnItem, Doing, ReverseResult
<1>9. DecisionsAreAlone'
  BY <1>1, <1>2
     DEF ReviewTypeOK, AppealRow, VisitRecords, DecisionsAreAlone, AppealIsThere,
         AppealIsOwn, ReversalsApprove, IsOf, Deciding, Approving, Reviewing, OnAppeal,
         Doing, AppealedHaveLeft, Appealable, Appealing, ReverseResult
<1>10. DifferencesAreAppeals'
  BY <1>1, <1>2
     DEF ReviewTypeOK, AppealRow, VisitRecords, DifferencesAreAppeals,
         DecisionsAreAlone, AppealIsThere, AppealIsOwn, ReversalsApprove,
         ReviewsAreAlone, IsOf, Deciding, Approving, Reviewing, Appealing, ReverseResult
<1>11. LooksAreFresh' /\ CachedIsTrue'
  BY <1>1, <1>2
     DEF ReviewTypeOK, AppealRow, VisitRecords, LooksAreFresh, CachedIsTrue,
         AppealIsThere, AppealIsOwn, Appealing, IsOf, Doing, ReverseResult
<1>12. QED BY <1>3, <1>4, <1>5, <1>6, <1>7, <1>8, <1>9, <1>10, <1>11

\* UpdateAppeal: a decided appeal is no longer active; those who look have met.
LEMMA UpdateAppealStands ==
    ASSUME ReviewInv, NEW v \in Visits, UpdateAppeal(v)
    PROVE  ReviewInv'
<1> USE DEF ReviewInv
<1>t. visit \in [Visits -> VisitRecords]
  BY DEF ReviewTypeOK, VisitRecords, CachedStatuses
<1>1. PICK n \in VisitRecords :
         /\ visit' = [visit EXCEPT ![v] = n] /\ n.step = "drop"
         /\ n.work = visit[v].work /\ n.appeal = visit[v].appeal
         /\ n.ruling = visit[v].ruling /\ n.saw = visit[v].saw
  BY VisitGoesOn DEF UpdateAppeal, VisitSteps, VisitRecords, CachedStatuses, ReviewTypeOK
<1>2. \A x \in Visits : visit'[x] = IF x = v THEN n ELSE visit[x]  BY <1>1 DEF ReviewTypeOK
<1>a. \A x \in Visits :
         /\ appeal'[x].of = appeal[x].of
         /\ appeal'[x].status = IF x # visit[v].appeal THEN appeal[x].status
                                ELSE IF visit[v].ruling = "approved" THEN "approved" ELSE "denied"
  BY DEF ReviewTypeOK, AppealRow, UpdateAppeal
<1>b. /\ visit[v].step = "decide"
      /\ \A x \in Visits : visit[x].step \in {"note", "fill"} => visit[x].appeal \in looksMet'
      /\ looksMet \subseteq looksMet'
      /\ UNCHANGED <<result, item, appealCache, reviewsMet, appealsMet, reviewFaults>>
  BY DEF UpdateAppeal, LooksMeet, Doing, ReviewTypeOK
<1>c. /\ \A x \in Visits, u \in Works : IsOf(x, u)' <=> IsOf(x, u)
      /\ IsOf(visit[v].appeal, visit[v].work) /\ appeal[visit[v].appeal].status # "none"
  BY <1>a, <1>b DEF IsOf, AppealIsThere, ReviewTypeOK
<1>d. Deciding(v, visit[v].appeal) /\ (visit[v].ruling = "approved" => Approving(v, visit[v].appeal))
  BY <1>b DEF Deciding, Approving
<1>e. \A x, y \in Visits :
         (Deciding(x, y)' <=> x # v /\ Deciding(x, y)) /\ (Approving(x, y)' <=> x # v /\ Approving(x, y))
  BY <1>1, <1>2, <1>b DEF Deciding, Approving
<1>f. visit[v].appeal \in Visits /\ visit[v].work \in Works
  BY DEF ReviewTypeOK
<1>3. FewAreActive'
  BY <1>a, ReviewAssumption, FS_Subset, FS_CardinalityType, <1>1, <1>2, <1>b, <1>c DEF Active, UpdateAppeal,
     FewAreActive
<1>4. ReviewTypeOK'
  BY <1>1 DEF ReviewTypeOK, AppealRow, UpdateAppeal, LooksMeet, Doing, VisitRecords, CachedStatuses
<1>5. AppealIsOwn' /\ AppealIsThere' /\ ReversalsApprove'
  BY <1>1, <1>2, <1>a, <1>b, <1>c
     DEF ReviewTypeOK, AppealRow, VisitRecords, AppealIsOwn, AppealIsThere,
         ReversalsApprove, Appealing
<1>6. ChecksAreAlone'
  BY <1>1, <1>2, <1>a, <1>b, <1>c
     DEF ReviewTypeOK, AppealRow, VisitRecords, ChecksAreAlone, Appealing, AppealIsOwn,
         Doing, AppealsOf
<1>7. AppealedHaveLeft'
  BY <1>1, <1>2, <1>a, <1>b, <1>c
     DEF ReviewTypeOK, AppealRow, VisitRecords, AppealedHaveLeft, Appealable, Reviewing,
         Appealing, MayReview, ReviewsAreAlone, OnItem, Doing
<1>8. ReviewsAreAlone'
  BY <1>1, <1>2, <1>a, <1>b, <1>c
     DEF ReviewTypeOK, AppealRow, VisitRecords, ReviewsAreAlone, Reviewing, MayReview,
         OnItem, Doing
<1>9. DecisionsAreAlone'  BY <1>a, <1>b, <1>c, <1>d, <1>e, <1>f DEF DecisionsAreAlone
<1>10. DifferencesAreAppeals'
  <2>1. \A w \in Works : w \notin reviewsMet /\ IsOf(visit[v].appeal, w) => appeal[visit[v].appeal].status = "pending"
    BY <1>d, <1>f DEF DecisionsAreAlone
  <2>2. ASSUME NEW w \in Works, w \notin reviewsMet, NEW a \in Visits, IsOf(a, w),
               appeal[a].status = "approved" \/ \E x \in Visits : Approving(x, a)
        PROVE  IsOf(a, w)' /\ (appeal'[a].status = "approved" \/ \E x \in Visits : Approving(x, a)')
    BY <2>1, <2>2, <1>a, <1>c, <1>e DEF Approving, Deciding
  <2>3. \A w \in Works, x \in Visits : Reviewing(x, w)' <=> Reviewing(x, w)  BY <1>1, <1>2, <1>b DEF Reviewing
  <2>4. QED BY <1>b, <2>2, <2>3 DEF DifferencesAreAppeals
<1>11. LooksAreFresh' /\ CachedIsTrue'  BY <1>1, <1>2, <1>b, <1>a DEF LooksAreFresh, CachedIsTrue, ReviewTypeOK
<1>12. QED BY <1>3, <1>4, <1>5, <1>6, <1>7, <1>8, <1>9, <1>10, <1>11

\* DropCache: nothing is cached, or the call failed.
LEMMA DropCacheStands ==
    ASSUME ReviewInv, NEW v \in Visits, DropCache(v)
    PROVE  ReviewInv'
<1> USE DEF ReviewInv
<1>t. visit \in [Visits -> VisitRecords]
  BY DEF ReviewTypeOK, VisitRecords, CachedStatuses
<1>1. PICK n \in VisitRecords :
         /\ visit' = [visit EXCEPT ![v] = n] /\ n.step = "ended"
         /\ n.work = visit[v].work /\ n.appeal = visit[v].appeal
         /\ n.ruling = visit[v].ruling /\ n.saw = visit[v].saw
  BY VisitGoesOn DEF DropCache, VisitSteps, VisitRecords, CachedStatuses, ReviewTypeOK
<1>2. \A x \in Visits : visit'[x] = IF x = v THEN n ELSE visit[x]  BY <1>1 DEF ReviewTypeOK
<1>3. FewAreActive'  BY <1>1, <1>2 DEF FewAreActive, Active, DropCache
<1>4. ReviewTypeOK'
  BY <1>1, ReviewAssumption DEF ReviewTypeOK, AppealRow, VisitRecords, CachedStatuses, DropCache
<1>5. AppealIsOwn' /\ AppealIsThere' /\ ReversalsApprove'
  BY <1>1, <1>2
     DEF ReviewTypeOK, AppealRow, VisitRecords, AppealIsOwn, AppealIsThere,
         ReversalsApprove, IsOf, Appealing, DropCache
<1>6. ChecksAreAlone'
  BY <1>1, <1>2
     DEF ReviewTypeOK, AppealRow, VisitRecords, ChecksAreAlone, IsOf, Appealing,
         AppealIsOwn, Doing, AppealsOf, DropCache
<1>7. AppealedHaveLeft'
  BY <1>1, <1>2
     DEF ReviewTypeOK, AppealRow, VisitRecords, AppealedHaveLeft, Appealable, IsOf,
         Reviewing, Appealing, MayReview, ReviewsAreAlone, OnItem, Doing, DropCache
<1>8. ReviewsAreAlone'
  BY <1>1, <1>2
     DEF ReviewTypeOK, AppealRow, VisitRecords, ReviewsAreAlone, Reviewing, MayReview,
         OnItem, Doing, DropCache
<1>9. DecisionsAreAlone'
  BY <1>1, <1>2
     DEF ReviewTypeOK, AppealRow, VisitRecords, DecisionsAreAlone, AppealIsThere,
         AppealIsOwn, ReversalsApprove, IsOf, Deciding, Approving, Reviewing, OnAppeal,
         Doing, AppealedHaveLeft, Appealable, Appealing, DropCache
<1>10. DifferencesAreAppeals'
  BY <1>1, <1>2
     DEF ReviewTypeOK, AppealRow, VisitRecords, DifferencesAreAppeals,
         DecisionsAreAlone, AppealIsThere, AppealIsOwn, ReversalsApprove,
         ReviewsAreAlone, IsOf, Deciding, Approving, Reviewing, Appealing, DropCache
<1>11. LooksAreFresh' /\ CachedIsTrue'
  BY <1>1, <1>2
     DEF ReviewTypeOK, AppealRow, VisitRecords, LooksAreFresh, CachedIsTrue,
         AppealIsThere, AppealIsOwn, Appealing, IsOf, Doing, DropCache
<1>12. QED BY <1>3, <1>4, <1>5, <1>6, <1>7, <1>8, <1>9, <1>10, <1>11

\* GetAppealStatus: the status is read.
LEMMA GetAppealStatusStands ==
    ASSUME ReviewInv, NEW v \in Visits, NEW a \in Visits, GetAppealStatus(v, a)
    PROVE  ReviewInv'
<1> USE DEF ReviewInv
<1>t. visit \in [Visits -> VisitRecords]
  BY DEF ReviewTypeOK, VisitRecords, CachedStatuses
<1>1. PICK n \in VisitRecords :
         /\ visit' = [visit EXCEPT ![v] = n] /\ n.step = "fill" /\ n.work = appeal[a].of
         /\ n.appeal = a /\ n.ruling = "approved" /\ n.saw = appeal[a].status
  <2>1. /\ "fill" \in VisitSteps /\ appeal[a].of \in Works /\ a \in Visits
        /\ "approved" \in Rulings /\ appeal[a].status \in CachedStatuses
    BY DEF VisitSteps, Rulings, CachedStatuses, ReviewTypeOK, AppealRow
  <2>2. Begins(v, "fill", appeal[a].of, a, "approved", appeal[a].status)  BY DEF GetAppealStatus
  <2>3. QED BY <1>t, <2>1, <2>2, VisitBegins
<1>2. \A x \in Visits : visit'[x] = IF x = v THEN n ELSE visit[x]  BY <1>1 DEF ReviewTypeOK
<1>3. FewAreActive'  BY <1>1, <1>2 DEF FewAreActive, Active, GetAppealStatus, Begins
<1>4. ReviewTypeOK'
  BY <1>1, ReviewAssumption DEF ReviewTypeOK, AppealRow, VisitRecords, CachedStatuses,
     GetAppealStatus, Begins
<1>5. AppealIsOwn' /\ AppealIsThere' /\ ReversalsApprove'
  BY <1>1, <1>2
     DEF ReviewTypeOK, AppealRow, VisitRecords, AppealIsOwn, AppealIsThere,
         ReversalsApprove, IsOf, Appealing, GetAppealStatus, Begins
<1>6. ChecksAreAlone'
  BY <1>1, <1>2
     DEF ReviewTypeOK, AppealRow, VisitRecords, ChecksAreAlone, IsOf, Appealing,
         AppealIsOwn, Doing, AppealsOf, GetAppealStatus, Begins
<1>7. AppealedHaveLeft'
  BY <1>1, <1>2
     DEF ReviewTypeOK, AppealRow, VisitRecords, AppealedHaveLeft, Appealable, IsOf,
         Reviewing, Appealing, MayReview, ReviewsAreAlone, OnItem, Doing,
         GetAppealStatus, Begins
<1>8. ReviewsAreAlone'
  BY <1>1, <1>2
     DEF ReviewTypeOK, AppealRow, VisitRecords, ReviewsAreAlone, Reviewing, MayReview,
         OnItem, Doing, GetAppealStatus, Begins
<1>9. DecisionsAreAlone'
  BY <1>1, <1>2
     DEF ReviewTypeOK, AppealRow, VisitRecords, DecisionsAreAlone, AppealIsThere,
         AppealIsOwn, ReversalsApprove, IsOf, Deciding, Approving, Reviewing, OnAppeal,
         Doing, AppealedHaveLeft, Appealable, Appealing, GetAppealStatus, Begins
<1>10. DifferencesAreAppeals'
  BY <1>1, <1>2
     DEF ReviewTypeOK, AppealRow, VisitRecords, DifferencesAreAppeals,
         DecisionsAreAlone, AppealIsThere, AppealIsOwn, ReversalsApprove,
         ReviewsAreAlone, IsOf, Deciding, Approving, Reviewing, Appealing,
         GetAppealStatus, Begins
<1>11. LooksAreFresh' /\ CachedIsTrue'
  BY <1>1, <1>2
     DEF ReviewTypeOK, AppealRow, VisitRecords, LooksAreFresh, CachedIsTrue,
         AppealIsThere, AppealIsOwn, Appealing, IsOf, Doing, GetAppealStatus, Begins
<1>12. QED BY <1>3, <1>4, <1>5, <1>6, <1>7, <1>8, <1>9, <1>10, <1>11

\* cacheAppealStatus: what is cached was read after the decision, or met it.
LEMMA cacheAppealStatusStands ==
    ASSUME ReviewInv, NEW v \in Visits, cacheAppealStatus(v)
    PROVE  ReviewInv'
<1> USE DEF ReviewInv
<1>t. visit \in [Visits -> VisitRecords]
  BY DEF ReviewTypeOK, VisitRecords, CachedStatuses
<1>1. PICK n \in VisitRecords :
         /\ visit' = [visit EXCEPT ![v] = n] /\ n.step = "ended"
         /\ n.work = visit[v].work /\ n.appeal = visit[v].appeal
         /\ n.ruling = visit[v].ruling /\ n.saw = visit[v].saw
  BY VisitGoesOn DEF cacheAppealStatus, VisitSteps, VisitRecords, CachedStatuses, ReviewTypeOK
<1>2. \A x \in Visits : visit'[x] = IF x = v THEN n ELSE visit[x]  BY <1>1 DEF ReviewTypeOK
<1>3. FewAreActive'  BY <1>1, <1>2 DEF FewAreActive, Active, cacheAppealStatus
<1>4. ReviewTypeOK'
  BY <1>1, ReviewAssumption DEF ReviewTypeOK, AppealRow, VisitRecords, CachedStatuses,
     cacheAppealStatus
<1>5. AppealIsOwn' /\ AppealIsThere' /\ ReversalsApprove'
  BY <1>1, <1>2
     DEF ReviewTypeOK, AppealRow, VisitRecords, AppealIsOwn, AppealIsThere,
         ReversalsApprove, IsOf, Appealing, cacheAppealStatus
<1>6. ChecksAreAlone'
  BY <1>1, <1>2
     DEF ReviewTypeOK, AppealRow, VisitRecords, ChecksAreAlone, IsOf, Appealing,
         AppealIsOwn, Doing, AppealsOf, cacheAppealStatus
<1>7. AppealedHaveLeft'
  BY <1>1, <1>2
     DEF ReviewTypeOK, AppealRow, VisitRecords, AppealedHaveLeft, Appealable, IsOf,
         Reviewing, Appealing, MayReview, ReviewsAreAlone, OnItem, Doing,
         cacheAppealStatus
<1>8. ReviewsAreAlone'
  BY <1>1, <1>2
     DEF ReviewTypeOK, AppealRow, VisitRecords, ReviewsAreAlone, Reviewing, MayReview,
         OnItem, Doing, cacheAppealStatus
<1>9. DecisionsAreAlone'
  BY <1>1, <1>2
     DEF ReviewTypeOK, AppealRow, VisitRecords, DecisionsAreAlone, AppealIsThere,
         AppealIsOwn, ReversalsApprove, IsOf, Deciding, Approving, Reviewing, OnAppeal,
         Doing, AppealedHaveLeft, Appealable, Appealing, cacheAppealStatus
<1>10. DifferencesAreAppeals'
  BY <1>1, <1>2
     DEF ReviewTypeOK, AppealRow, VisitRecords, DifferencesAreAppeals,
         DecisionsAreAlone, AppealIsThere, AppealIsOwn, ReversalsApprove,
         ReviewsAreAlone, IsOf, Deciding, Approving, Reviewing, Appealing,
         cacheAppealStatus
<1>11. LooksAreFresh' /\ CachedIsTrue'
  BY <1>1, <1>2
     DEF ReviewTypeOK, AppealRow, VisitRecords, LooksAreFresh, CachedIsTrue,
         AppealIsThere, AppealIsOwn, Appealing, IsOf, Doing, cacheAppealStatus
<1>12. QED BY <1>3, <1>4, <1>5, <1>6, <1>7, <1>8, <1>9, <1>10, <1>11

\* VisitEnds: a request that stops counts as a failure.
LEMMA VisitEndsStands ==
    ASSUME ReviewInv, NEW v \in Visits, VisitEnds(v)
    PROVE  ReviewInv'
<1> USE DEF ReviewInv
<1>t. visit \in [Visits -> VisitRecords]
  BY DEF ReviewTypeOK, VisitRecords, CachedStatuses
<1>1. PICK n \in VisitRecords :
         /\ visit' = [visit EXCEPT ![v] = n] /\ n.step = "ended"
         /\ n.work = visit[v].work /\ n.appeal = visit[v].appeal
         /\ n.ruling = visit[v].ruling /\ n.saw = visit[v].saw
  BY VisitGoesOn DEF VisitEnds, VisitSteps, VisitRecords, CachedStatuses, ReviewTypeOK
<1>2. \A x \in Visits : visit'[x] = IF x = v THEN n ELSE visit[x]  BY <1>1 DEF ReviewTypeOK
<1>3. FewAreActive'  BY <1>1, <1>2 DEF FewAreActive, Active, VisitEnds
<1>4. ReviewTypeOK'
  BY <1>1, ReviewAssumption DEF ReviewTypeOK, AppealRow, VisitRecords, CachedStatuses, VisitEnds
<1>5. AppealIsOwn' /\ AppealIsThere' /\ ReversalsApprove'
  BY <1>1, <1>2
     DEF ReviewTypeOK, AppealRow, VisitRecords, AppealIsOwn, AppealIsThere,
         ReversalsApprove, IsOf, Appealing, VisitEnds
<1>6. ChecksAreAlone'
  BY <1>1, <1>2
     DEF ReviewTypeOK, AppealRow, VisitRecords, ChecksAreAlone, IsOf, Appealing,
         AppealIsOwn, Doing, AppealsOf, VisitEnds
<1>7. AppealedHaveLeft'
  BY <1>1, <1>2
     DEF ReviewTypeOK, AppealRow, VisitRecords, AppealedHaveLeft, Appealable, IsOf,
         Reviewing, Appealing, MayReview, ReviewsAreAlone, OnItem, Doing, VisitEnds
<1>8. ReviewsAreAlone'
  BY <1>1, <1>2
     DEF ReviewTypeOK, AppealRow, VisitRecords, ReviewsAreAlone, Reviewing, MayReview,
         OnItem, Doing, VisitEnds
<1>9. DecisionsAreAlone'
  BY <1>1, <1>2
     DEF ReviewTypeOK, AppealRow, VisitRecords, DecisionsAreAlone, AppealIsThere,
         AppealIsOwn, ReversalsApprove, IsOf, Deciding, Approving, Reviewing, OnAppeal,
         Doing, AppealedHaveLeft, Appealable, Appealing, VisitEnds
<1>10. DifferencesAreAppeals'
  BY <1>1, <1>2
     DEF ReviewTypeOK, AppealRow, VisitRecords, DifferencesAreAppeals,
         DecisionsAreAlone, AppealIsThere, AppealIsOwn, ReversalsApprove,
         ReviewsAreAlone, IsOf, Deciding, Approving, Reviewing, Appealing, VisitEnds
<1>11. LooksAreFresh' /\ CachedIsTrue'
  BY <1>1, <1>2
     DEF ReviewTypeOK, AppealRow, VisitRecords, LooksAreFresh, CachedIsTrue,
         AppealIsThere, AppealIsOwn, Appealing, IsOf, Doing, VisitEnds
<1>12. QED BY <1>3, <1>4, <1>5, <1>6, <1>7, <1>8, <1>9, <1>10, <1>11

\* EscalateStaleItems: what waits for a decision still waits.
LEMMA EscalateStands == ASSUME ReviewInv, EscalateStaleItems PROVE ReviewInv'
<1> USE DEF ReviewInv, EscalateStaleItems
<1>1. ReviewTypeOK'  BY DEF ReviewTypeOK
<1>2. AppealIsOwn' /\ AppealIsThere' /\ ReversalsApprove' /\ ChecksAreAlone' /\ FewAreActive'
  BY DEF AppealIsOwn, AppealIsThere, ReversalsApprove, ChecksAreAlone, FewAreActive, IsOf, Active
<1>3. \A w \in Works : (item'[w] \in {"none"} \cup Rulings <=> item[w] \in {"none"} \cup Rulings)
         /\ (item'[w] \in Rulings => item'[w] = item[w]) /\ (MayReview(w) => MayReview(w)')
  BY DEF ReviewTypeOK, Rulings, MayReview
<1>4. \A w \in Works : item[w] \in Rulings => item'[w] = item[w]  BY DEF ReviewTypeOK, Rulings
<1>5. AppealedHaveLeft'  BY <1>3 DEF AppealedHaveLeft, Appealable, IsOf, Reviewing
<1>6. ReviewsAreAlone'  BY <1>3, <1>4 DEF ReviewsAreAlone, Reviewing, ReviewTypeOK
<1>7. DecisionsAreAlone' /\ DifferencesAreAppeals'
  BY <1>3 DEF DecisionsAreAlone, DifferencesAreAppeals, IsOf, Deciding, Approving, Reviewing
<1>8. LooksAreFresh' /\ CachedIsTrue'  BY DEF LooksAreFresh, CachedIsTrue
<1>9. QED BY <1>1, <1>2, <1>5, <1>6, <1>7, <1>8

\* A cached status that expires, or a step that changes nothing.
LEMMA ExpiryStands ==
    ASSUME ReviewInv, (\E a \in Visits : CacheExpires(a)) \/ UNCHANGED reviewVars
    PROVE  ReviewInv'
<1> USE DEF ReviewInv
<1>1. /\ UNCHANGED <<result, item, appeal, visit, reviewsMet, appealsMet, looksMet, reviewFaults>>
      /\ \A a \in Visits : appealCache'[a] \in {"none", appealCache[a]}
      /\ appealCache' \in [Visits -> CachedStatuses]
  BY DEF CacheExpires, reviewVars, ReviewTypeOK, CachedStatuses
<1>2. ReviewTypeOK'  BY <1>1 DEF ReviewTypeOK, CachedStatuses
<1>3. AppealIsOwn' /\ AppealIsThere' /\ ReversalsApprove' /\ ChecksAreAlone' /\ FewAreActive'
  BY <1>1 DEF AppealIsOwn, AppealIsThere, ReversalsApprove, ChecksAreAlone, FewAreActive, IsOf,
     Active
<1>4. AppealedHaveLeft' /\ ReviewsAreAlone'
  BY <1>1 DEF AppealedHaveLeft, ReviewsAreAlone, Appealable, IsOf, Reviewing, MayReview
<1>5. DecisionsAreAlone' /\ DifferencesAreAppeals'
  BY <1>1 DEF DecisionsAreAlone, DifferencesAreAppeals, IsOf, Deciding, Approving, Reviewing
<1>6. LooksAreFresh' /\ CachedIsTrue'  BY <1>1 DEF LooksAreFresh, CachedIsTrue
<1>7. QED BY <1>2, <1>3, <1>4, <1>5, <1>6

\* A request that gets to "count" found no appeal, or failed to; one that appeals was counted.
LEMMA EachStaysFew == ReviewInv /\ FewOfEach /\ [ReviewNext]_reviewVars => FewOfEach'
<1> SUFFICES ASSUME ReviewInv, FewOfEach, [ReviewNext]_reviewVars, ~appealsMet' PROVE FewOfEach'
  BY DEF FewOfEach
<1> USE DEF ReviewInv, ReviewTypeOK
<1>1. \A w \in Works : IsFiniteSet(AppealsOf(w)) /\ Cardinality(AppealsOf(w)) \in Nat
  BY ReviewAssumption, FS_Subset, FS_CardinalityType DEF AppealsOf
<1>a. reviewFaults' = reviewFaults \/ reviewFaults' = reviewFaults + 1
  BY DEF ReviewNext, EscalateStaleItems, AppealDecision, ReviewContent, GetAppealStatus,
     ReviewAppeal, UpdateQueueItem, UpdateResult, GetAppealByResultID, CountActiveAppeals, CreateAppeal,
     ReverseResult, UpdateAppeal, DropCache, cacheAppealStatus, CacheExpires, VisitEnds, reviewVars
<1>b. ~appealsMet
  BY Zenon DEF ReviewNext, EscalateStaleItems, AppealDecision, ReviewContent, GetAppealStatus,
     ReviewAppeal, UpdateQueueItem, UpdateResult, GetAppealByResultID, CountActiveAppeals, CreateAppeal,
     ReverseResult, UpdateAppeal, DropCache, cacheAppealStatus, CacheExpires, VisitEnds, reviewVars
<1>2. ~appealsMet /\ reviewFaults' \in Nat /\ reviewFaults \in Nat /\ reviewFaults <= reviewFaults'
  BY <1>a, <1>b, ReviewAssumption
<1>3. ASSUME NEW v \in Visits, CreateAppeal(v) PROVE FewOfEach'
  <2>1. \A w \in Works : w # visit[v].work => AppealsOf(w)' = AppealsOf(w)
    BY <1>3 DEF CreateAppeal, AppealsOf, AppealRow, AppealIsOwn, Appealing
  <2>w. PICK u \in Works : u = visit[v].work  OBVIOUS
  <2>2. AppealsOf(u)' = AppealsOf(u) \cup {v} /\ v \notin AppealsOf(u)
    BY <1>3, <2>w DEF CreateAppeal, AppealsOf, AppealRow, AppealIsOwn, Appealing
  <2>3. Cardinality(AppealsOf(u)') = Cardinality(AppealsOf(u)) + 1
    BY <1>1, <2>2, FS_AddElement
  <2>4. reviewFaults' = reviewFaults /\ Cardinality(AppealsOf(u)) <= reviewFaults
    BY <1>2, <1>3, <2>w DEF CreateAppeal, FewOfEach
  <2>5. \A x \in Visits : visit'[x].step \notin {"count", "create"}
    BY <1>2, <1>3 DEF CreateAppeal, ChecksAreAlone, Appealing
  <2>6. \A w \in Works : Cardinality(AppealsOf(w)') <= 1 + reviewFaults
    BY <1>1, <1>2, <2>1, <2>3, <2>4, <2>w DEF FewOfEach
  <2>7. QED BY <2>4, <2>5, <2>6 DEF FewOfEach
<1>4. ASSUME \A w \in Works : AppealsOf(w)' = AppealsOf(w),
             \A x \in Visits, w \in Works : visit'[x].step \in {"count", "create"} /\ visit'[x].work = w =>
                Cardinality(AppealsOf(w)) <= reviewFaults'
      PROVE  FewOfEach'
  <2>1. \A w \in Works : Cardinality(AppealsOf(w)') <= 1 + reviewFaults'
    BY <1>1, <1>2, <1>4 DEF FewOfEach
  <2>2. \A x \in Visits, w \in Works : visit'[x].step \in {"count", "create"} /\ visit'[x].work = w =>
           Cardinality(AppealsOf(w)') <= reviewFaults'
    BY <1>4
  <2>3. QED BY <2>1, <2>2 DEF FewOfEach
<1>5. ASSUME NEW v \in Visits, GetAppealByResultID(v) PROVE FewOfEach'
  <2>1. \A w \in Works : AppealsOf(w)' = AppealsOf(w)  BY <1>5 DEF GetAppealByResultID, AppealsOf
  <2>2. visit'[v].work = visit[v].work /\ \A x \in Visits \ {v} : visit'[x] = visit[x]
    BY <1>5 DEF GetAppealByResultID, Steps
  <2>3. visit'[v].step = "count" => Cardinality(AppealsOf(visit[v].work)) <= reviewFaults'
    <3>1. CASE AppealsOf(visit[v].work) = {}  BY <1>2, <3>1, FS_EmptySet
    <3>2. CASE reviewFaults' = reviewFaults + 1  BY <1>1, <1>2, <3>2 DEF FewOfEach
    <3>3. QED BY <1>5, <3>1, <3>2 DEF GetAppealByResultID, Steps
  <2>4. visit'[v].step # "create"  BY <1>5 DEF GetAppealByResultID, Steps
  <2>5. QED BY <1>1, <1>2, <1>4, <2>1, <2>2, <2>3, <2>4 DEF FewOfEach
<1>6. ASSUME NEW v \in Visits, UpdateAppeal(v) PROVE FewOfEach'
  <2>1. \A w \in Works : AppealsOf(w)' = AppealsOf(w)
    BY <1>6 DEF UpdateAppeal, AppealsOf, AppealRow, AppealIsThere, IsOf
  <2>2. \A x \in Visits : visit'[x].step \in {"count", "create"} => visit'[x] = visit[x]
    BY <1>6 DEF UpdateAppeal, Steps
  <2>3. QED BY <1>1, <1>2, <1>4, <2>1, <2>2 DEF FewOfEach
<1>7. ASSUME UNCHANGED appeal,
             \A x \in Visits : visit'[x].step \in {"count", "create"} =>
                visit[x].step \in {"count", "create"} /\ visit'[x].work = visit[x].work
      PROVE  FewOfEach'
  <2>1. \A w \in Works : AppealsOf(w)' = AppealsOf(w)  BY <1>7 DEF AppealsOf
  <2>2. QED BY <1>1, <1>2, <1>4, <1>7, <2>1 DEF FewOfEach
<1>8. ASSUME NEW v \in Visits,
             \/ \E w \in Works : AppealDecision(v, w) \/ \E d \in Rulings : ReviewContent(v, w, d)
             \/ \E a \in Visits : GetAppealStatus(v, a) \/ \E d \in Rulings : ReviewAppeal(v, a, d)
             \/ UpdateQueueItem(v) \/ UpdateResult(v) \/ CountActiveAppeals(v) \/ ReverseResult(v)
             \/ DropCache(v) \/ cacheAppealStatus(v) \/ CacheExpires(v) \/ VisitEnds(v)
      PROVE  FewOfEach'
  <2>1. UNCHANGED appeal
    BY <1>8 DEF AppealDecision, ReviewContent, GetAppealStatus, ReviewAppeal, UpdateQueueItem, UpdateResult,
       CountActiveAppeals, ReverseResult, DropCache, cacheAppealStatus, CacheExpires, VisitEnds
  <2>2. \A x \in Visits : visit'[x].step \in {"count", "create"} =>
           visit[x].step \in {"count", "create"} /\ visit'[x].work = visit[x].work
    BY <1>8 DEF AppealDecision, ReviewContent, GetAppealStatus, ReviewAppeal, UpdateQueueItem, UpdateResult,
       CountActiveAppeals, ReverseResult, DropCache, cacheAppealStatus, CacheExpires, VisitEnds, Steps, Begins
  <2>3. QED BY <1>7, <2>1, <2>2
<1>9. CASE EscalateStaleItems \/ UNCHANGED reviewVars
  BY <1>7, <1>9 DEF EscalateStaleItems, reviewVars
<1>10. QED BY <1>3, <1>5, <1>6, <1>8, <1>9 DEF ReviewNext

\* The invariant is inductive.
LEMMA ReviewInductive == ReviewInv /\ [ReviewNext]_reviewVars => ReviewInv'
<1> SUFFICES ASSUME ReviewInv, [ReviewNext]_reviewVars PROVE ReviewInv'  OBVIOUS
<1>1. CASE EscalateStaleItems \/ UNCHANGED reviewVars  BY <1>1, EscalateStands, ExpiryStands
<1>2. ASSUME NEW v \in Visits, CacheExpires(v)
      PROVE  ReviewInv'
  BY <1>2, ExpiryStands
<1>3. ASSUME NEW v \in Visits,
             \/ \E w \in Works : AppealDecision(v, w) \/ \E d \in Rulings : ReviewContent(v, w, d)
             \/ \E a \in Visits : GetAppealStatus(v, a) \/ \E d \in Rulings : ReviewAppeal(v, a, d)
      PROVE  ReviewInv'
  BY <1>3, AppealDecisionStands, ReviewContentStands, GetAppealStatusStands, ReviewAppealStands
<1>4. ASSUME NEW v \in Visits,
             \/ UpdateQueueItem(v) \/ UpdateResult(v) \/ GetAppealByResultID(v) \/ CountActiveAppeals(v)
             \/ CreateAppeal(v) \/ ReverseResult(v) \/ UpdateAppeal(v) \/ DropCache(v)
             \/ cacheAppealStatus(v) \/ VisitEnds(v)
      PROVE  ReviewInv'
  BY <1>4, UpdateQueueItemStands, UpdateResultStands, GetAppealByResultIDStands,
     CountActiveAppealsStands, CreateAppealStands, ReverseResultStands, UpdateAppealStands,
     DropCacheStands, cacheAppealStatusStands, VisitEndsStands
<1>5. QED BY <1>1, <1>2, <1>3, <1>4 DEF ReviewNext

\* Whichever requests meet, fail or stop, the invariant holds.
LEMMA ReviewInvHolds == ReviewSpec => []ReviewInv
BY ReviewStarts, ReviewInductive, PTL DEF ReviewSpec

\* Every variable of the reviews keeps its type.
THEOREM ReviewTypesHold == ReviewSpec => []ReviewTypeOK
<1>1. ReviewInv => ReviewTypeOK  BY DEF ReviewInv
<1>2. QED BY <1>1, ReviewInvHolds, PTL

\* moderation_service.go: where moderators did not meet, a result says what was decided last;
\* appeals that did not meet are one to a result, and one more for each call that failed, and no
\* more are active than a user may have; the owner
\* is shown a decided appeal as pending only by who read it before the decision.
THEOREM DecisionsStandAlways == ReviewSpec => []DecisionsStand
<1>1. ReviewInit => FewOfEach
  <2>1. ReviewInit => \A w \in Works : AppealsOf(w) = {}  BY DEF ReviewInit, AppealsOf
  <2>2. ReviewInit => \A v \in Visits : visit[v].step = "new"  BY DEF ReviewInit
  <2>3. ReviewInit => reviewFaults = 0  BY DEF ReviewInit
  <2>4. QED BY <2>1, <2>2, <2>3, FS_EmptySet DEF FewOfEach
<1>2. ReviewInv /\ FewOfEach => DecisionsStand  BY DecisionsFollow
<1>3. QED BY <1>1, <1>2, EachStaysFew, ReviewInvHolds, PTL DEF ReviewSpec

--------
\* Interactions: likes and replies add up.

ActRecords == [step : ActSteps, deed : Deeds, who : Fans \cup {"none"}, saw : Nat, raced : BOOLEAN]

\* ActTypeOK, the flags apart.
ActTypes ==
    /\ keeper \in Keepers /\ marks \subseteq Fans /\ tally \in Nat /\ cache \in Int /\ announced \in Int
    /\ replies \subseteq Fans /\ erased \subseteq replies /\ replyCount \in Nat
    /\ act \in [Acts -> ActRecords]
    /\ actFaults \in 0..MaxActFaults

FlagTypes == {repeated, clamped, cold, mixed, stale} \subseteq BOOLEAN

\* Who is about to count likes, or to announce one, likes or takes back; so for replies.
DeedsFit ==
    \A a \in Acts :
        /\ act[a].step \in {"count", "cache", "announce"} => act[a].deed \in {"like", "unlike"}
        /\ act[a].step \in {"read", "fill"} => act[a].deed = "look"
        /\ act[a].step = "replycount" => act[a].deed = "reply"

NobodyCounts == \A b \in Acts : ~(act[b].step \in {"count", "cache"} /\ act[b].deed \in {"like", "unlike"})

\* What a reader that was not raced is about to cache: the rows, where the cache is dropped
\* by who changes them; the counter, where nobody is about to count.
ReadersAreFresh ==
    \A a \in Acts : act[a].step = "fill" /\ ~act[a].raced =>
        /\ keeper = "interaction" => act[a].saw = Cardinality(marks)
        /\ keeper = "like" /\ actFaults = 0 /\ NobodyCounts => act[a].saw = tally

ActInv ==
    /\ ActTypes /\ FlagTypes
    /\ DeedsFit
    /\ ReadersAreFresh
    /\ TallyFollowsRows /\ CounterFollowsRows /\ CacheIsDropped /\ RepliesAreCounted

--------
\* Counting.

\* What one request adds to the likes that are on their way.
Net(r, steps) ==
    IF r.step \in steps THEN IF r.deed = "like" THEN 1 ELSE IF r.deed = "unlike" THEN -1 ELSE 0
    ELSE 0

\* The other requests do what they did.
OthersKeep(a) == \A b \in Acts : b # a => act'[b].step = act[b].step /\ act'[b].deed = act[b].deed

\* The requests that do something are finitely many, whatever it is.
LEMMA UnderIsFinite ==
    ASSUME NEW steps, NEW deed
    PROVE  IsFiniteSet(Under(steps, deed)) /\ Cardinality(Under(steps, deed)) \in Nat
<1>1. Under(steps, deed) \subseteq Acts  BY DEF Under
<1>2. QED BY <1>1, InteractionAssumption, FS_Subset, FS_CardinalityType

\* One request enters or leaves what is counted, or does neither.
LEMMA UnderMoves ==
    ASSUME NEW a \in Acts, OthersKeep(a), NEW steps, NEW deed
    PROVE  Cardinality(Under(steps, deed)') =
              Cardinality(Under(steps, deed))
              - (IF act[a].step \in steps /\ act[a].deed = deed THEN 1 ELSE 0)
              + (IF act'[a].step \in steps /\ act'[a].deed = deed THEN 1 ELSE 0)
<1> DEFINE Rest == Under(steps, deed) \ {a}
<1>1. IsFiniteSet(Rest) /\ Cardinality(Rest) \in Nat  BY UnderIsFinite, FS_Subset, FS_CardinalityType
<1>2. Under(steps, deed) = IF act[a].step \in steps /\ act[a].deed = deed THEN Rest \cup {a} ELSE Rest
  BY DEF Under
<1>3. Under(steps, deed)' = IF act'[a].step \in steps /\ act'[a].deed = deed THEN Rest \cup {a} ELSE Rest
  BY DEF Under, OthersKeep
<1>4. a \notin Rest  OBVIOUS
<1> HIDE DEF Rest
<1>5. Cardinality(Rest \cup {a}) = Cardinality(Rest) + 1  BY <1>1, <1>4, FS_AddElement
<1>6. QED BY <1>1, <1>2, <1>3, <1>5

\* So much for the likes that are on their way.
LEMMA PendingMoves ==
    ASSUME NEW a \in Acts, OthersKeep(a), NEW steps
    PROVE  /\ Pending(steps) \in Int
           /\ Pending(steps)' = Pending(steps) - Net(act[a], steps) + Net(act'[a], steps)
<1>1. /\ Cardinality(Under(steps, "like")) \in Nat /\ Cardinality(Under(steps, "unlike")) \in Nat
  BY UnderIsFinite
<1>2. Cardinality(Under(steps, "like")') =
         Cardinality(Under(steps, "like"))
         - (IF act[a].step \in steps /\ act[a].deed = "like" THEN 1 ELSE 0)
         + (IF act'[a].step \in steps /\ act'[a].deed = "like" THEN 1 ELSE 0)
  BY UnderMoves
<1>3. Cardinality(Under(steps, "unlike")') =
         Cardinality(Under(steps, "unlike"))
         - (IF act[a].step \in steps /\ act[a].deed = "unlike" THEN 1 ELSE 0)
         + (IF act'[a].step \in steps /\ act'[a].deed = "unlike" THEN 1 ELSE 0)
  BY UnderMoves
<1>4. QED BY <1>1, <1>2, <1>3 DEF Pending, Net

\* A like or an unlike is one row more or less, or none.
LEMMA MarksMove ==
    ASSUME marks \subseteq Fans, NEW u \in Fans
    PROVE  /\ IsFiniteSet(marks) /\ Cardinality(marks) \in Nat
           /\ Cardinality(marks \cup {u}) = Cardinality(marks) + (IF u \in marks THEN 0 ELSE 1)
           /\ Cardinality(marks \ {u}) = Cardinality(marks) - (IF u \in marks THEN 1 ELSE 0)
<1>1. IsFiniteSet(marks) /\ Cardinality(marks) \in Nat
  BY InteractionAssumption, FS_Subset, FS_CardinalityType
<1>2. Cardinality(marks \cup {u}) = Cardinality(marks) + (IF u \in marks THEN 0 ELSE 1)
  <2>1. CASE u \in marks
    <3>1. marks \cup {u} = marks  BY <2>1
    <3>2. Cardinality(marks \cup {u}) = Cardinality(marks)  BY <3>1, Zenon
    <3>3. QED BY <1>1, <2>1, <3>2
  <2>2. CASE u \notin marks  BY <1>1, <2>2, FS_AddElement
  <2>3. QED BY <2>1, <2>2
<1>3. Cardinality(marks \ {u}) = Cardinality(marks) - (IF u \in marks THEN 1 ELSE 0)
  <2>1. CASE u \notin marks  BY <2>1, <1>1
  <2>2. CASE u \in marks  BY <1>1, <2>2, FS_RemoveElement
  <2>3. QED BY <2>1, <2>2
<1>4. QED BY <1>1, <1>2, <1>3

--------
\* What a step leaves of the requests.

\* The readers among the others are as they were, or raced.
ReadersKeep(a) ==
    \A b \in Acts : b # a /\ act'[b].step = "fill" /\ ~act'[b].raced =>
        act'[b].saw = act[b].saw /\ ~act[b].raced

\* All of them were raced.
ReadersRaced(a) == \A b \in Acts : b # a /\ act'[b].step = "fill" => act'[b].raced

\* A request that begins, and with it races the readers.
LEMMA ActStarts ==
    ASSUME act \in [Acts -> ActRecords], NEW a \in Acts, NEW deed \in Deeds, NEW u \in Fans,
           NEW step \in ActSteps, Starts(a, deed, u, step)
    PROVE  /\ act' \in [Acts -> ActRecords]
           /\ act[a].step = "new" /\ act'[a].step = step /\ act'[a].deed = deed /\ ~act'[a].raced
           /\ OthersKeep(a) /\ ReadersRaced(a)
<1>1. Raced \in [Acts -> ActRecords]  BY DEF Raced, ActRecords
<1>2. \A b \in Acts : Raced[b].step = act[b].step /\ Raced[b].deed = act[b].deed
                     /\ (act[b].step = "fill" => Raced[b].raced)
  BY DEF Raced, ActRecords
<1> DEFINE n == [step |-> step, deed |-> deed, who |-> u, saw |-> 0, raced |-> FALSE]
<1>3. n \in ActRecords  BY DEF ActRecords
<1>4. act' = [Raced EXCEPT ![a] = n] /\ act[a].step = "new"  BY DEF Starts
<1>5. \A b \in Acts : act'[b] = IF b = a THEN n ELSE Raced[b]  BY <1>1, <1>4
<1>6. act' \in [Acts -> ActRecords]  BY <1>1, <1>3, <1>4
<1>7. QED BY <1>2, <1>4, <1>5, <1>6 DEF OthersKeep, ReadersRaced

\* A request that goes on.
LEMMA ActGoesOn ==
    ASSUME act \in [Acts -> ActRecords], NEW a \in Acts, NEW step \in ActSteps, Reaches(a, step)
    PROVE  /\ act' \in [Acts -> ActRecords]
           /\ act'[a].step = step /\ act'[a].deed = act[a].deed
           /\ act'[a].saw = act[a].saw /\ act'[a].raced = act[a].raced
           /\ OthersKeep(a) /\ ReadersKeep(a)
BY DEF ActRecords, Reaches, OthersKeep, ReadersKeep

\* A request that goes on and with it races the readers.
LEMMA ActRaces ==
    ASSUME act \in [Acts -> ActRecords], NEW a \in Acts, act[a].step = "cache", "announce" \in ActSteps,
           act' = [Raced EXCEPT ![a].step = "announce"]
    PROVE  /\ act' \in [Acts -> ActRecords]
           /\ act'[a].step = "announce" /\ act'[a].deed = act[a].deed /\ act'[a].raced = act[a].raced
           /\ OthersKeep(a) /\ ReadersKeep(a) /\ ReadersRaced(a)
<1>1. Raced \in [Acts -> ActRecords]  BY DEF Raced, ActRecords
<1>2. \A b \in Acts : Raced[b].step = act[b].step /\ Raced[b].deed = act[b].deed
                     /\ (act[b].step = "fill" => Raced[b].raced)
  BY DEF Raced, ActRecords
<1>3. Raced[a] = act[a]  BY DEF Raced
<1>4. \A b \in Acts : b # a => act'[b] = Raced[b]  BY <1>1
<1>5. /\ act' \in [Acts -> ActRecords]
      /\ act'[a].step = "announce" /\ act'[a].deed = act[a].deed /\ act'[a].raced = act[a].raced
  BY <1>1, <1>3 DEF ActRecords
<1>6. QED BY <1>2, <1>4, <1>5 DEF OthersKeep, ReadersKeep, ReadersRaced

--------
\* The initial states and the steps.

\* Nothing is on its way yet.
LEMMA ActBegins == ActInit => ActInv
<1> SUFFICES ASSUME ActInit PROVE ActInv  OBVIOUS
<1>1. \A a \in Acts : act[a].step = "new"  BY DEF ActInit
<1>2. marks \subseteq Fans /\ Cardinality(marks) \in Nat /\ tally = Cardinality(marks)
      /\ announced = Cardinality(marks)
  BY InteractionAssumption, FS_Subset, FS_CardinalityType DEF ActInit
<1>3. \A steps \in SUBSET (ActSteps \ {"new"}), deed \in Deeds : Under(steps, deed) = {}  BY <1>1 DEF Under
<1>4. /\ Pending({"count"}) = 0 /\ Pending({"count", "cache"}) = 0
      /\ Pending({"count", "cache", "announce"}) = 0
      /\ Cardinality(Under({"replycount"}, "reply")) = 0
  BY <1>3, FS_EmptySet DEF Pending, ActSteps, Deeds
<1>5. ActTypes  BY <1>2, InteractionAssumption DEF ActRecords, ActSteps, Deeds, ActInit, NoKey, ActTypes
<1>6. FlagTypes  BY Zenon DEF ActInit, FlagTypes
<1>7. DeedsFit /\ ReadersAreFresh  BY <1>1 DEF DeedsFit, ReadersAreFresh
<1>8. TallyFollowsRows  BY <1>2, <1>4 DEF TallyFollowsRows
<1>9. CounterFollowsRows  BY <1>2, <1>4 DEF CounterFollowsRows, ActInit
<1>10. CacheIsDropped  BY <1>2 DEF CacheIsDropped, ActInit
<1>11. RepliesAreCounted  BY <1>4, FS_EmptySet DEF RepliesAreCounted, ActInit
<1>12. QED BY <1>5, <1>6, <1>7, <1>8, <1>9, <1>10, <1>11 DEF ActInv

\* Like: a row, and unless it was there a like that is on its way.
LEMMA LikeAddsUp == ASSUME ActInv, NEW a \in Acts, NEW u \in Fans, Like(a, u) PROVE ActInv'
<1> USE DEF ActInv
<1>1. /\ act' \in [Acts -> ActRecords]
      /\ act[a].step = "new" /\ act'[a].deed = "like" /\ ~act'[a].raced
      /\ act'[a].step = (IF keeper = "transaction" \/ (u \in marks /\ keeper = "like") THEN "ended" ELSE AfterRow)
      /\ OthersKeep(a) /\ ReadersRaced(a)  BY ActStarts DEF Deeds, ActSteps, Like, ActTypes, AfterRow
<1>2. /\ Pending({"count"}) \in Int /\ Pending({"count"})' \in Int
      /\ Pending({"count"})' = Pending({"count"}) - Net(act[a], {"count"}) + Net(act'[a], {"count"})
  BY <1>1, PendingMoves DEF Net
<1>3. LET S == {"count", "cache"}
      IN Pending(S) \in Int /\ Pending(S)' = Pending(S) - Net(act[a], S) + Net(act'[a], S)
  BY <1>1, PendingMoves
<1>4. LET S == {"count", "cache", "announce"}
      IN Pending(S) \in Int /\ Pending(S)' = Pending(S) - Net(act[a], S) + Net(act'[a], S)
  BY <1>1, PendingMoves
<1>5. Cardinality(marks') = Cardinality(marks) + (IF u \in marks THEN 0 ELSE 1) /\ Cardinality(marks) \in Nat
  BY MarksMove DEF ActTypes, Like, Unmoved, AfterRow
<1>6. ActTypes'
  BY <1>1, InteractionAssumption DEF ActTypes, ActRecords, NoKey, Like, Unmoved, AfterRow,
      Up, Down
<1>7. FlagTypes'  BY Zenon DEF FlagTypes, Like, Unmoved, AfterRow
<1>8. DeedsFit'  BY <1>1 DEF DeedsFit, OthersKeep, Like, Unmoved, AfterRow
<1>9. ReadersAreFresh'
  BY <1>1, <1>5 DEF ReadersAreFresh, NobodyCounts, OthersKeep, ReadersKeep, ReadersRaced,
      DeedsFit, ActTypes, Like, Unmoved, AfterRow, Up, Down
<1>10. TallyFollowsRows'
  <2>1. keeper' = keeper /\ actFaults' = actFaults /\ clamped' = clamped
        /\ tally' = IF keeper = "transaction" THEN tally + 1 ELSE tally
    BY DEF Like, Unmoved, Up
  <2>2. keeper # "like" /\ ~repeated' => ~repeated /\ u \notin marks  BY Zenon DEF Like
  <2>3. Pending({"count"})' = Pending({"count"}) + (IF act'[a].step = "count" THEN 1 ELSE 0)
    BY <1>1, <1>2 DEF Net
  <2>4. act'[a].step = IF keeper = "transaction" \/ keeper = "interaction" \/ (u \in marks /\ keeper = "like")
                       THEN act'[a].step ELSE "count"
    BY <1>1 DEF AfterRow
  <2>5. keeper = "transaction" \/ (u \in marks /\ keeper = "like") => act'[a].step # "count"  BY <1>1
  <2>6. QED BY <1>2, <1>5, <2>1, <2>2, <2>3, <2>4, <2>5 DEF TallyFollowsRows, ActTypes, Keepers
<1>11. CounterFollowsRows'
  BY <1>1, <1>3, <1>4, <1>5 DEF CounterFollowsRows, Net, DeedsFit, ActTypes, Like,
      Unmoved, AfterRow
<1>12. CacheIsDropped'
  BY <1>1, <1>5 DEF CacheIsDropped, Under, OthersKeep, DeedsFit, ActTypes, Like, Unmoved,
      AfterRow
<1>13. RepliesAreCounted'
  BY <1>1, UnderIsFinite, UnderMoves DEF DeedsFit, Like, Unmoved, AfterRow, RepliesAreCounted, ActTypes
<1>14. QED BY <1>6, <1>7, <1>8, <1>9, <1>10, <1>11, <1>12, <1>13

\* Unlike: a row less, and unless it was refused an unlike that is on its way.
LEMMA UnlikeAddsUp == ASSUME ActInv, NEW a \in Acts, NEW u \in Fans, Unlike(a, u) PROVE ActInv'
<1> USE DEF ActInv
<1>1. /\ act' \in [Acts -> ActRecords]
      /\ act[a].step = "new" /\ act'[a].deed = "unlike" /\ ~act'[a].raced
      /\ act'[a].step = (IF Refuses(u) \/ keeper = "transaction" THEN "ended" ELSE AfterRow)
      /\ OthersKeep(a) /\ ReadersRaced(a)  BY ActStarts DEF Deeds, ActSteps, Unlike, ActTypes, AfterRow
<1>2. /\ Pending({"count"}) \in Int /\ Pending({"count"})' \in Int
      /\ Pending({"count"})' = Pending({"count"}) - Net(act[a], {"count"}) + Net(act'[a], {"count"})
  BY <1>1, PendingMoves DEF Net
<1>3. LET S == {"count", "cache"}
      IN Pending(S) \in Int /\ Pending(S)' = Pending(S) - Net(act[a], S) + Net(act'[a], S)
  BY <1>1, PendingMoves
<1>4. LET S == {"count", "cache", "announce"}
      IN Pending(S) \in Int /\ Pending(S)' = Pending(S) - Net(act[a], S) + Net(act'[a], S)
  BY <1>1, PendingMoves
<1>5. Cardinality(marks') = Cardinality(marks) - (IF u \in marks THEN 1 ELSE 0) /\ Cardinality(marks) \in Nat
  BY MarksMove DEF ActTypes, Unlike, Unmoved, AfterRow, Refuses
<1>6. ActTypes'
  BY <1>1, InteractionAssumption DEF ActTypes, ActRecords, NoKey, Unlike, Unmoved,
      AfterRow, Refuses, Up, Down
<1>7. FlagTypes'  BY Zenon DEF FlagTypes, Unlike, Unmoved, AfterRow, Refuses
<1>8. DeedsFit'  BY <1>1 DEF DeedsFit, OthersKeep, Unlike, Unmoved, AfterRow, Refuses
<1>9. ReadersAreFresh'
  BY <1>1, <1>5 DEF ReadersAreFresh, NobodyCounts, OthersKeep, ReadersKeep, ReadersRaced,
      DeedsFit, ActTypes, Unlike, Unmoved, AfterRow, Refuses, Up, Down
<1>10. TallyFollowsRows'
  <2>1. keeper' = keeper /\ actFaults' = actFaults
        /\ tally' = IF keeper = "transaction" /\ u \in marks THEN Down(tally) ELSE tally
    BY DEF Unlike, Unmoved, Refuses
  <2>2. ~clamped' => ~clamped /\ ~(keeper = "transaction" /\ u \in marks /\ tally = 0)
    BY Zenon DEF Unlike, Refuses
  <2>3. ~repeated' => ~repeated /\ ~(keeper = "comment" /\ u \notin marks)  BY Zenon DEF Unlike
  <2>4. Pending({"count"})' = Pending({"count"}) - (IF act'[a].step = "count" THEN 1 ELSE 0)
    BY <1>1, <1>2 DEF Net
  <2>5. keeper # "interaction" => (act'[a].step = "count" <=> ~Refuses(u) /\ keeper # "transaction")
    BY <1>1 DEF AfterRow
  <2>6. ~clamped' /\ keeper = "transaction" /\ u \in marks => tally' = tally - 1  BY <2>1, <2>2 DEF Down
  <2>7. Refuses(u) <=> u \notin marks /\ keeper # "comment"  BY DEF Refuses
  <2>8. QED BY <1>2, <1>5, <2>1, <2>2, <2>3, <2>4, <2>5, <2>6, <2>7 DEF TallyFollowsRows, ActTypes
<1>11. CounterFollowsRows'
  <2>1. CASE keeper # "like"  BY <2>1 DEF CounterFollowsRows, Unlike, Unmoved
  <2>2. CASE keeper = "like"
    <3>1. act'[a].step = IF u \in marks THEN "count" ELSE "ended"  BY <1>1, <2>2 DEF AfterRow, Refuses
    <3>2. LET d == IF u \in marks THEN 1 ELSE 0
          IN /\ Pending({"count", "cache"})' = Pending({"count", "cache"}) - d
             /\ Pending({"count", "cache", "announce"})' = Pending({"count", "cache", "announce"}) - d
      BY <1>1, <1>3, <1>4, <3>1 DEF Net
    <3>3. keeper' = keeper /\ actFaults' = actFaults /\ cache' = cache /\ announced' = announced
          /\ cold' = cold /\ mixed' = mixed
      BY DEF Unlike, Unmoved
    <3>4. ~clamped' => ~clamped  BY Zenon DEF Unlike
    <3>5. QED BY <1>3, <1>4, <1>5, <2>2, <3>2, <3>3, <3>4 DEF CounterFollowsRows, ActTypes
  <2>3. QED BY <2>1, <2>2
<1>12. CacheIsDropped'
  BY <1>1, <1>5 DEF CacheIsDropped, Under, OthersKeep, DeedsFit, ActTypes, Unlike,
      Unmoved, AfterRow, Refuses
<1>13. RepliesAreCounted'
  BY <1>1, UnderIsFinite, UnderMoves DEF DeedsFit, Unlike, Unmoved, AfterRow, Refuses, RepliesAreCounted,
     ActTypes
<1>14. QED BY <1>6, <1>7, <1>8, <1>9, <1>10, <1>11, <1>12, <1>13

\* Count: the counter follows the row.
LEMMA CountAddsUp == ASSUME ActInv, NEW a \in Acts, Count(a) PROVE ActInv'
<1> USE DEF ActInv
<1>1. /\ act' \in [Acts -> ActRecords]
      /\ act'[a].step = (IF keeper = "like" THEN "cache" ELSE "ended") /\ act'[a].deed = act[a].deed
      /\ act'[a].saw = act[a].saw /\ act'[a].raced = act[a].raced
      /\ OthersKeep(a) /\ ReadersKeep(a)
  BY ActGoesOn DEF Count, ActSteps, ActTypes
<1>2. /\ Pending({"count"}) \in Int /\ Pending({"count"})' \in Int
      /\ Pending({"count"})' = Pending({"count"}) - Net(act[a], {"count"}) + Net(act'[a], {"count"})
  BY <1>1, PendingMoves DEF Net
<1>3. LET S == {"count", "cache"}
      IN Pending(S) \in Int /\ Pending(S)' = Pending(S) - Net(act[a], S) + Net(act'[a], S)
  BY <1>1, PendingMoves
<1>4. LET S == {"count", "cache", "announce"}
      IN Pending(S) \in Int /\ Pending(S)' = Pending(S) - Net(act[a], S) + Net(act'[a], S)
  BY <1>1, PendingMoves
<1>5. Cardinality(marks') = Cardinality(marks) /\ Cardinality(marks) \in Nat
  BY InteractionAssumption, FS_Subset, FS_CardinalityType DEF ActTypes, Count, Unmoved
<1>6. ActTypes'  BY <1>1, InteractionAssumption DEF ActTypes, ActRecords, NoKey, Count, Unmoved, Up, Down
<1>7. FlagTypes'  BY Zenon DEF FlagTypes, Count, Unmoved
<1>8. DeedsFit'  BY <1>1 DEF DeedsFit, OthersKeep, Count, Unmoved
<1>9. ReadersAreFresh'
  BY <1>1, <1>5 DEF ReadersAreFresh, NobodyCounts, OthersKeep, ReadersKeep, ReadersRaced,
      DeedsFit, ActTypes, Count, Unmoved, Up, Down
<1>10. TallyFollowsRows'
  <2>1. act[a].deed \in {"like", "unlike"}  BY DEF DeedsFit, Count
  <2>2. Pending({"count"})' = Pending({"count"}) - (IF act[a].deed = "like" THEN 1 ELSE -1)
    BY <1>1, <1>2, <2>1 DEF Net, Count
  <2>3. ~clamped' => ~clamped /\ tally' = tally + (IF act[a].deed = "like" THEN 1 ELSE -1)
    BY <2>1 DEF Count, Up, Down, ActTypes
  <2>4. QED BY <1>2, <1>5, <2>2, <2>3 DEF TallyFollowsRows, ActTypes, Count, Unmoved
<1>11. CounterFollowsRows'
  <2>1. CASE keeper # "like"  BY <2>1 DEF CounterFollowsRows, Count, Unmoved
  <2>2. CASE keeper = "like"
    <3>1. act'[a].step = "cache" /\ act[a].step = "count" /\ act'[a].deed = act[a].deed
      BY <1>1, <2>2 DEF Count
    <3>2. /\ Pending({"count", "cache"})' = Pending({"count", "cache"})
          /\ Pending({"count", "cache", "announce"})' = Pending({"count", "cache", "announce"})
      BY <1>3, <1>4, <3>1 DEF Net
    <3>3. ~clamped' => ~clamped  BY DEF Count
    <3>4. QED BY <1>5, <3>2, <3>3 DEF CounterFollowsRows, ActTypes, Count, Unmoved
  <2>3. QED BY <2>1, <2>2
<1>12. CacheIsDropped'
  BY <1>1, <1>5 DEF CacheIsDropped, Under, OthersKeep, DeedsFit, ActTypes, Count, Unmoved
<1>13. RepliesAreCounted'
  BY <1>1, UnderIsFinite, UnderMoves DEF DeedsFit, Count, Unmoved, RepliesAreCounted, ActTypes
<1>14. QED BY <1>6, <1>7, <1>8, <1>9, <1>10, <1>11, <1>12, <1>13

\* Announce: what was announced follows the row.
LEMMA AnnounceAddsUp == ASSUME ActInv, NEW a \in Acts, Announce(a) PROVE ActInv'
<1> USE DEF ActInv
<1>1. /\ act' \in [Acts -> ActRecords]
      /\ act'[a].step = "ended" /\ act'[a].deed = act[a].deed
      /\ act'[a].saw = act[a].saw /\ act'[a].raced = act[a].raced
      /\ OthersKeep(a) /\ ReadersKeep(a)
  BY ActGoesOn DEF Announce, ActSteps, ActTypes
<1>2. /\ Pending({"count"}) \in Int /\ Pending({"count"})' \in Int
      /\ Pending({"count"})' = Pending({"count"}) - Net(act[a], {"count"}) + Net(act'[a], {"count"})
  BY <1>1, PendingMoves DEF Net
<1>3. LET S == {"count", "cache"}
      IN Pending(S) \in Int /\ Pending(S)' = Pending(S) - Net(act[a], S) + Net(act'[a], S)
  BY <1>1, PendingMoves
<1>4. LET S == {"count", "cache", "announce"}
      IN Pending(S) \in Int /\ Pending(S)' = Pending(S) - Net(act[a], S) + Net(act'[a], S)
  BY <1>1, PendingMoves
<1>5. Cardinality(marks') = Cardinality(marks) /\ Cardinality(marks) \in Nat
  BY InteractionAssumption, FS_Subset, FS_CardinalityType DEF ActTypes, Announce, Unmoved
<1>6. ActTypes'
  BY <1>1, InteractionAssumption DEF ActTypes, ActRecords, NoKey, Announce, Unmoved, Up,
      Down
<1>7. FlagTypes'  BY Zenon DEF FlagTypes, Announce, Unmoved
<1>8. DeedsFit'  BY <1>1 DEF DeedsFit, OthersKeep, Announce, Unmoved
<1>9. ReadersAreFresh'
  BY <1>1, <1>5 DEF ReadersAreFresh, NobodyCounts, OthersKeep, ReadersKeep, ReadersRaced,
      DeedsFit, ActTypes, Announce, Unmoved, Up, Down
<1>10. TallyFollowsRows'
  BY <1>1, <1>2, <1>5 DEF TallyFollowsRows, Net, DeedsFit, ActTypes, Announce, Unmoved,
      Up, Down
<1>11. CounterFollowsRows'
  BY <1>1, <1>3, <1>4, <1>5 DEF CounterFollowsRows, Net, DeedsFit, ActTypes, Announce,
      Unmoved
<1>12. CacheIsDropped'
  BY <1>1, <1>5 DEF CacheIsDropped, Under, OthersKeep, DeedsFit, ActTypes, Announce,
      Unmoved
<1>13. RepliesAreCounted'
  BY <1>1, UnderIsFinite, UnderMoves DEF DeedsFit, Announce, Unmoved, RepliesAreCounted, ActTypes
<1>14. QED BY <1>6, <1>7, <1>8, <1>9, <1>10, <1>11, <1>12, <1>13

\* ActFails: after a failure nothing is promised but that no reader knows better.
LEMMA ActFailsAddsUp == ASSUME ActInv, NEW a \in Acts, ActFails(a) PROVE ActInv'
<1> USE DEF ActInv
<1>1. /\ act' \in [Acts -> ActRecords]
      /\ act'[a].step = (IF act[a].step = "cache" THEN "announce" ELSE "ended") /\ act'[a].deed = act[a].deed
      /\ act'[a].saw = act[a].saw /\ act'[a].raced = act[a].raced
      /\ OthersKeep(a) /\ ReadersKeep(a)
  BY ActGoesOn DEF ActFails, ActSteps, ActTypes
<1>2. /\ Pending({"count"}) \in Int /\ Pending({"count"})' \in Int
      /\ Pending({"count"})' = Pending({"count"}) - Net(act[a], {"count"}) + Net(act'[a], {"count"})
  BY <1>1, PendingMoves DEF Net
<1>3. LET S == {"count", "cache"}
      IN Pending(S) \in Int /\ Pending(S)' = Pending(S) - Net(act[a], S) + Net(act'[a], S)
  BY <1>1, PendingMoves
<1>4. LET S == {"count", "cache", "announce"}
      IN Pending(S) \in Int /\ Pending(S)' = Pending(S) - Net(act[a], S) + Net(act'[a], S)
  BY <1>1, PendingMoves
<1>5. Cardinality(marks') = Cardinality(marks) /\ Cardinality(marks) \in Nat
  BY InteractionAssumption, FS_Subset, FS_CardinalityType DEF ActTypes, ActFails, Unmoved
<1>6. ActTypes'
  BY <1>1, InteractionAssumption DEF ActTypes, ActRecords, NoKey, ActFails, Unmoved, Up,
      Down
<1>7. FlagTypes'  BY Zenon DEF FlagTypes, ActFails, Unmoved
<1>8. DeedsFit'  BY <1>1 DEF DeedsFit, OthersKeep, ActFails, Unmoved
<1>9. ReadersAreFresh'
  BY <1>1, <1>5 DEF ReadersAreFresh, NobodyCounts, OthersKeep, ReadersKeep, ReadersRaced,
      DeedsFit, ActTypes, ActFails, Unmoved, Up, Down
<1>10. TallyFollowsRows'
  BY <1>1, <1>2, <1>5 DEF TallyFollowsRows, Net, DeedsFit, ActTypes, ActFails, Unmoved,
      Up, Down
<1>11. CounterFollowsRows'
  BY <1>1, <1>3, <1>4, <1>5 DEF CounterFollowsRows, Net, DeedsFit, ActTypes, ActFails,
      Unmoved
<1>12. CacheIsDropped'
  BY <1>1, <1>5 DEF CacheIsDropped, Under, OthersKeep, DeedsFit, ActTypes, ActFails,
      Unmoved
<1>13. RepliesAreCounted'  BY DEF RepliesAreCounted, ActFails, ActTypes
<1>14. QED BY <1>6, <1>7, <1>8, <1>9, <1>10, <1>11, <1>12, <1>13

\* FillCache: who was not raced, with nobody about to count, caches the count.
LEMMA FillCacheAddsUp == ASSUME ActInv, NEW a \in Acts, FillCache(a) PROVE ActInv'
<1> USE DEF ActInv
<1>1. /\ act' \in [Acts -> ActRecords]
      /\ act'[a].step = "ended" /\ act'[a].deed = act[a].deed
      /\ act'[a].saw = act[a].saw /\ act'[a].raced = act[a].raced
      /\ OthersKeep(a) /\ ReadersKeep(a)
  BY ActGoesOn DEF FillCache, ActSteps, ActTypes
<1>2. /\ Pending({"count"}) \in Int /\ Pending({"count"})' \in Int
      /\ Pending({"count"})' = Pending({"count"}) - Net(act[a], {"count"}) + Net(act'[a], {"count"})
  BY <1>1, PendingMoves DEF Net
<1>3. LET S == {"count", "cache"}
      IN Pending(S) \in Int /\ Pending(S)' = Pending(S) - Net(act[a], S) + Net(act'[a], S)
  BY <1>1, PendingMoves
<1>4. LET S == {"count", "cache", "announce"}
      IN Pending(S) \in Int /\ Pending(S)' = Pending(S) - Net(act[a], S) + Net(act'[a], S)
  BY <1>1, PendingMoves
<1>5. Cardinality(marks') = Cardinality(marks) /\ Cardinality(marks) \in Nat
  BY InteractionAssumption, FS_Subset, FS_CardinalityType DEF ActTypes, FillCache, Unmoved
<1>6. ActTypes'
  BY <1>1, InteractionAssumption DEF ActTypes, ActRecords, NoKey, FillCache, Unmoved, Up,
      Down
<1>7. FlagTypes'  BY DEF ActTypes, ActRecords, FlagTypes, FillCache, Unmoved
<1>8. DeedsFit'  BY <1>1 DEF DeedsFit, OthersKeep, FillCache, Unmoved
<1>9. ReadersAreFresh'
  BY <1>1, <1>5 DEF ReadersAreFresh, NobodyCounts, OthersKeep, ReadersKeep, ReadersRaced,
      DeedsFit, ActTypes, FillCache, Unmoved, Up, Down
<1>10. TallyFollowsRows'
  BY <1>1, <1>2, <1>5 DEF TallyFollowsRows, Net, DeedsFit, ActTypes, FillCache, Unmoved,
      Up, Down
<1>11. CounterFollowsRows'
  <2>1. CASE keeper # "like"  BY <2>1 DEF CounterFollowsRows, FillCache, Unmoved
  <2>2. CASE keeper = "like"
    <3>1. /\ Pending({"count", "cache"})' = Pending({"count", "cache"})
          /\ Pending({"count", "cache", "announce"})' = Pending({"count", "cache", "announce"})
      BY <1>1, <1>3, <1>4 DEF Net, FillCache
    <3>2. ASSUME actFaults = 0, ~mixed', ~clamped
          PROVE  cache' + Pending({"count", "cache"}) = Cardinality(marks)
      BY <3>2, FS_EmptySet, <2>2, <1>5 DEF FillCache, NobodyCounts, Under, Pending, ReadersAreFresh,
         TallyFollowsRows, ActTypes
    <3>3. QED BY <1>5, <2>2, <3>1, <3>2 DEF CounterFollowsRows, FillCache, Unmoved
  <2>3. QED BY <2>1, <2>2
<1>12. CacheIsDropped'  BY <1>5 DEF FillCache, ReadersAreFresh, CacheIsDropped, Unmoved
<1>13. RepliesAreCounted'
  BY <1>1, UnderIsFinite, UnderMoves DEF DeedsFit, FillCache, Unmoved, RepliesAreCounted, ActTypes
<1>14. QED BY <1>6, <1>7, <1>8, <1>9, <1>10, <1>11, <1>12, <1>13

\* CountReply: the counter follows the reply.
LEMMA CountReplyAddsUp == ASSUME ActInv, NEW a \in Acts, CountReply(a) PROVE ActInv'
<1> USE DEF ActInv
<1>1. /\ act' \in [Acts -> ActRecords]
      /\ act'[a].step = "ended" /\ act'[a].deed = act[a].deed
      /\ act'[a].saw = act[a].saw /\ act'[a].raced = act[a].raced
      /\ OthersKeep(a) /\ ReadersKeep(a)
  BY ActGoesOn DEF CountReply, ActSteps, ActTypes
<1>2. /\ Pending({"count"}) \in Int /\ Pending({"count"})' \in Int
      /\ Pending({"count"})' = Pending({"count"}) - Net(act[a], {"count"}) + Net(act'[a], {"count"})
  BY <1>1, PendingMoves DEF Net
<1>3. LET S == {"count", "cache"}
      IN Pending(S) \in Int /\ Pending(S)' = Pending(S) - Net(act[a], S) + Net(act'[a], S)
  BY <1>1, PendingMoves
<1>4. LET S == {"count", "cache", "announce"}
      IN Pending(S) \in Int /\ Pending(S)' = Pending(S) - Net(act[a], S) + Net(act'[a], S)
  BY <1>1, PendingMoves
<1>5. Cardinality(marks') = Cardinality(marks) /\ Cardinality(marks) \in Nat
  BY InteractionAssumption, FS_Subset, FS_CardinalityType DEF ActTypes, CountReply, Unmoved
<1>6. ActTypes'
  BY <1>1, InteractionAssumption DEF ActTypes, ActRecords, NoKey, CountReply, Unmoved, Up,
      Down
<1>7. FlagTypes'  BY Zenon DEF FlagTypes, CountReply, Unmoved
<1>8. DeedsFit'  BY <1>1 DEF DeedsFit, OthersKeep, CountReply, Unmoved
<1>9. ReadersAreFresh'
  BY <1>1, <1>5 DEF ReadersAreFresh, NobodyCounts, OthersKeep, ReadersKeep, ReadersRaced,
      DeedsFit, ActTypes, CountReply, Unmoved, Up, Down
<1>10. TallyFollowsRows'
  BY <1>1, <1>2, <1>5 DEF TallyFollowsRows, Net, DeedsFit, ActTypes, CountReply, Unmoved,
      Up, Down
<1>11. CounterFollowsRows'
  BY <1>1, <1>3, <1>4, <1>5 DEF CounterFollowsRows, Net, DeedsFit, ActTypes, CountReply,
      Unmoved
<1>12. CacheIsDropped'
  BY <1>1, <1>5 DEF CacheIsDropped, Under, OthersKeep, DeedsFit, ActTypes, CountReply,
      Unmoved
<1>13. RepliesAreCounted'
  BY <1>1, UnderIsFinite, UnderMoves DEF DeedsFit, CountReply, RepliesAreCounted, ActTypes
<1>14. QED BY <1>6, <1>7, <1>8, <1>9, <1>10, <1>11, <1>12, <1>13

\* CreateComment: a reply, and in the comment-service a count that is on its way.
LEMMA CreateCommentAddsUp == ASSUME ActInv, NEW a \in Acts, NEW u \in Fans, CreateComment(a, u) PROVE ActInv'
<1> USE DEF ActInv
<1>1. /\ act' \in [Acts -> ActRecords]
      /\ act[a].step = "new" /\ act'[a].deed = "reply" /\ ~act'[a].raced
      /\ act'[a].step = (IF keeper = "comment" THEN "replycount" ELSE "ended")
      /\ OthersKeep(a) /\ ReadersRaced(a)  BY ActStarts DEF Deeds, ActSteps, CreateComment, ActTypes, AfterRow
<1>2. /\ Pending({"count"}) \in Int /\ Pending({"count"})' \in Int
      /\ Pending({"count"})' = Pending({"count"}) - Net(act[a], {"count"}) + Net(act'[a], {"count"})
  BY <1>1, PendingMoves DEF Net
<1>3. LET S == {"count", "cache"}
      IN Pending(S) \in Int /\ Pending(S)' = Pending(S) - Net(act[a], S) + Net(act'[a], S)
  BY <1>1, PendingMoves
<1>4. LET S == {"count", "cache", "announce"}
      IN Pending(S) \in Int /\ Pending(S)' = Pending(S) - Net(act[a], S) + Net(act'[a], S)
  BY <1>1, PendingMoves
<1>5. Cardinality(marks') = Cardinality(marks) /\ Cardinality(marks) \in Nat
  BY InteractionAssumption, FS_Subset, FS_CardinalityType DEF ActTypes, CreateComment, Unmoved
<1>6. ActTypes'
  BY <1>1, InteractionAssumption DEF ActTypes, ActRecords, NoKey, CreateComment, Unmoved,
      Up, Down
<1>7. FlagTypes'  BY Zenon DEF FlagTypes, CreateComment, Unmoved
<1>8. DeedsFit'  BY <1>1 DEF DeedsFit, OthersKeep, CreateComment, Unmoved
<1>9. ReadersAreFresh'
  BY <1>1, <1>5 DEF ReadersAreFresh, NobodyCounts, OthersKeep, ReadersKeep, ReadersRaced,
      DeedsFit, ActTypes, CreateComment, Unmoved, Up, Down
<1>10. TallyFollowsRows'
  BY <1>1, <1>2, <1>5 DEF TallyFollowsRows, Net, DeedsFit, ActTypes, CreateComment,
      Unmoved, Up, Down
<1>11. CounterFollowsRows'
  BY <1>1, <1>3, <1>4, <1>5 DEF CounterFollowsRows, Net, DeedsFit, ActTypes,
      CreateComment, Unmoved
<1>12. CacheIsDropped'
  BY <1>1, <1>5 DEF CacheIsDropped, Under, OthersKeep, DeedsFit, ActTypes, CreateComment,
      Unmoved
<1>13. RepliesAreCounted'
  <2>1. CASE keeper # "comment"  BY <2>1 DEF RepliesAreCounted, CreateComment
  <2>2. CASE keeper = "comment"
    <3>1. Cardinality(Under({"replycount"}, "reply")') = Cardinality(Under({"replycount"}, "reply")) + 1
      BY <1>1, <2>2, UnderIsFinite, UnderMoves
    <3>2. Cardinality(replies') = Cardinality(replies) + 1 /\ Cardinality(replies) \in Nat
      BY InteractionAssumption, FS_Subset, FS_AddElement, FS_CardinalityType DEF ActTypes,
         CreateComment
    <3>3. Cardinality(Under({"replycount"}, "reply")) \in Nat  BY UnderIsFinite
    <3>4. QED BY <2>2, <3>1, <3>2, <3>3 DEF RepliesAreCounted, ActTypes, CreateComment
  <2>3. QED BY <2>1, <2>2
<1>14. QED BY <1>6, <1>7, <1>8, <1>9, <1>10, <1>11, <1>12, <1>13

\* Cache: the counter in Redis follows the row, or goes.
LEMMA CacheAddsUp == ASSUME ActInv, NEW a \in Acts, Cache(a) PROVE ActInv'
<1> USE DEF ActInv
<1>1. /\ act' \in [Acts -> ActRecords]
      /\ act[a].step = "cache" /\ act'[a].step = "announce" /\ act'[a].deed = act[a].deed
      /\ act'[a].raced = act[a].raced
      /\ OthersKeep(a) /\ ReadersKeep(a)
      /\ keeper # "interaction" => ReadersRaced(a)  BY ActGoesOn, ActRaces DEF ActSteps, Cache, ActTypes
<1>2. /\ Pending({"count"}) \in Int /\ Pending({"count"})' \in Int
      /\ Pending({"count"})' = Pending({"count"}) - Net(act[a], {"count"}) + Net(act'[a], {"count"})
  BY <1>1, PendingMoves DEF Net
<1>3. LET S == {"count", "cache"}
      IN Pending(S) \in Int /\ Pending(S)' = Pending(S) - Net(act[a], S) + Net(act'[a], S)
  BY <1>1, PendingMoves
<1>4. LET S == {"count", "cache", "announce"}
      IN Pending(S) \in Int /\ Pending(S)' = Pending(S) - Net(act[a], S) + Net(act'[a], S)
  BY <1>1, PendingMoves
<1>5. Cardinality(marks') = Cardinality(marks) /\ Cardinality(marks) \in Nat
  BY InteractionAssumption, FS_Subset, FS_CardinalityType DEF ActTypes, Cache, Unmoved
<1>6. ActTypes'  BY <1>1, InteractionAssumption DEF ActTypes, ActRecords, NoKey, Cache, Unmoved, Up, Down
<1>7. FlagTypes'  BY DEF FlagTypes, Cache, Unmoved
<1>8. DeedsFit'  BY <1>1 DEF DeedsFit, OthersKeep, Cache, Unmoved
<1>9. ReadersAreFresh'
  BY <1>1, <1>5 DEF ReadersAreFresh, NobodyCounts, OthersKeep, ReadersKeep, ReadersRaced,
      DeedsFit, ActTypes, Cache, Unmoved, Up, Down
<1>10. TallyFollowsRows'  BY <1>1, <1>2, <1>5 DEF Net, TallyFollowsRows, Cache, Unmoved
<1>11. CounterFollowsRows'
  <2>1. CASE keeper # "like"  BY <2>1 DEF CounterFollowsRows, Cache, Unmoved
  <2>2. CASE keeper = "like"
    <3> DEFINE n == IF act[a].deed = "like" THEN 1 ELSE -1
    <3>1. /\ Pending({"count", "cache"})' = Pending({"count", "cache"}) - n
          /\ Pending({"count", "cache", "announce"})' = Pending({"count", "cache", "announce"})
      BY <1>1, <1>3, <1>4 DEF Net, DeedsFit
    <3>2. keeper' = keeper /\ actFaults' = actFaults /\ announced' = announced /\ mixed' = mixed
          /\ clamped' = clamped /\ cache' = (IF cache = NoKey THEN 0 ELSE cache) + n
      BY <2>2 DEF Cache, Unmoved
    <3>3. ~cold' => ~cold /\ cache # NoKey  BY <2>2, Zenon DEF Cache
    <3>4. n \in Int  OBVIOUS
    <3> HIDE DEF n
    <3>5. QED BY <1>3, <1>5, <2>2, <3>1, <3>2, <3>3, <3>4 DEF CounterFollowsRows, ActTypes
  <2>3. QED BY <2>1, <2>2
<1>12. CacheIsDropped'  BY DEF CacheIsDropped, Cache, Unmoved
<1>13. RepliesAreCounted'
  BY <1>1, UnderIsFinite, UnderMoves DEF DeedsFit, Cache, Unmoved, RepliesAreCounted, ActTypes
<1>14. QED BY <1>6, <1>7, <1>8, <1>9, <1>10, <1>11, <1>12, <1>13

\* GetLikeCount: a reader begins.
LEMMA GetLikeCountAddsUp == ASSUME ActInv, NEW a \in Acts, NEW u \in Fans, GetLikeCount(a, u) PROVE ActInv'
<1> USE DEF ActInv
<1>1. /\ act' \in [Acts -> ActRecords]
      /\ act[a].step = "new" /\ act'[a].step = "read" /\ act'[a].deed = "look"
      /\ OthersKeep(a) /\ ReadersKeep(a)
  BY DEF GetLikeCount, OthersKeep, ReadersKeep, ActTypes, ActRecords, ActSteps, Deeds
<1>2. /\ Pending({"count"}) \in Int /\ Pending({"count"})' \in Int
      /\ Pending({"count"})' = Pending({"count"}) - Net(act[a], {"count"}) + Net(act'[a], {"count"})
  BY <1>1, PendingMoves DEF Net
<1>3. LET S == {"count", "cache"}
      IN Pending(S) \in Int /\ Pending(S)' = Pending(S) - Net(act[a], S) + Net(act'[a], S)
  BY <1>1, PendingMoves
<1>4. LET S == {"count", "cache", "announce"}
      IN Pending(S) \in Int /\ Pending(S)' = Pending(S) - Net(act[a], S) + Net(act'[a], S)
  BY <1>1, PendingMoves
<1>5. Cardinality(marks') = Cardinality(marks) /\ Cardinality(marks) \in Nat
  BY InteractionAssumption, FS_Subset, FS_CardinalityType DEF ActTypes, GetLikeCount, Unmoved
<1>6. ActTypes'
  BY <1>1, InteractionAssumption DEF ActTypes, ActRecords, NoKey, GetLikeCount, Unmoved,
      Up, Down
<1>7. FlagTypes'  BY Zenon DEF FlagTypes, GetLikeCount, Unmoved
<1>8. DeedsFit'  BY <1>1 DEF DeedsFit, OthersKeep, GetLikeCount, Unmoved
<1>9. ReadersAreFresh'
  BY <1>1, <1>5 DEF ReadersAreFresh, NobodyCounts, OthersKeep, ReadersKeep, ReadersRaced,
      DeedsFit, ActTypes, GetLikeCount, Unmoved, Up, Down
<1>10. TallyFollowsRows'
  BY <1>1, <1>2, <1>5 DEF TallyFollowsRows, Net, DeedsFit, ActTypes, GetLikeCount,
      Unmoved, Up, Down
<1>11. CounterFollowsRows'
  BY <1>1, <1>3, <1>4, <1>5 DEF CounterFollowsRows, Net, DeedsFit, ActTypes, GetLikeCount,
      Unmoved
<1>12. CacheIsDropped'
  BY <1>1, <1>5 DEF CacheIsDropped, Under, OthersKeep, DeedsFit, ActTypes, GetLikeCount,
      Unmoved
<1>13. RepliesAreCounted'
  BY <1>1, UnderIsFinite, UnderMoves DEF DeedsFit, GetLikeCount, Unmoved, RepliesAreCounted, ActTypes
<1>14. QED BY <1>6, <1>7, <1>8, <1>9, <1>10, <1>11, <1>12, <1>13

\* ReadCount: what the reader saw is what is stored.
LEMMA ReadCountAddsUp == ASSUME ActInv, NEW a \in Acts, ReadCount(a) PROVE ActInv'
<1> USE DEF ActInv
<1>1. /\ act' \in [Acts -> ActRecords]
      /\ act[a].step = "read" /\ act'[a].step = "fill" /\ act'[a].deed = act[a].deed
      /\ act'[a].saw = (IF keeper = "interaction" THEN Cardinality(marks) ELSE tally)
      /\ OthersKeep(a) /\ ReadersKeep(a)
  <2>1. Cardinality(marks) \in Nat  BY InteractionAssumption, FS_Subset, FS_CardinalityType DEF ActTypes
  <2>2. PICK n \in Nat : n = IF keeper = "interaction" THEN Cardinality(marks) ELSE tally
    BY <2>1 DEF ActTypes
  <2>3. act' = [act EXCEPT ![a].step = "fill", ![a].saw = n] /\ act[a].step = "read"  BY <2>2 DEF ReadCount
  <2>4. act[a] \in ActRecords /\ [act[a] EXCEPT !.step = "fill", !.saw = n] \in ActRecords
    BY DEF ActTypes, ActRecords, ActSteps
  <2>5. act'[a] = [act[a] EXCEPT !.step = "fill", !.saw = n] /\ \A b \in Acts : b # a => act'[b] = act[b]
    BY <2>3 DEF ActTypes
  <2>6. act' \in [Acts -> ActRecords]  BY <2>3, <2>4 DEF ActTypes
  <2>7. act'[a].step = "fill" /\ act'[a].deed = act[a].deed /\ act'[a].saw = n  BY <2>4, <2>5 DEF ActRecords
  <2>8. QED BY <2>2, <2>3, <2>5, <2>6, <2>7 DEF OthersKeep, ReadersKeep
<1>2. /\ Pending({"count"}) \in Int /\ Pending({"count"})' \in Int
      /\ Pending({"count"})' = Pending({"count"}) - Net(act[a], {"count"}) + Net(act'[a], {"count"})
  BY <1>1, PendingMoves DEF Net
<1>3. LET S == {"count", "cache"}
      IN Pending(S) \in Int /\ Pending(S)' = Pending(S) - Net(act[a], S) + Net(act'[a], S)
  BY <1>1, PendingMoves
<1>4. LET S == {"count", "cache", "announce"}
      IN Pending(S) \in Int /\ Pending(S)' = Pending(S) - Net(act[a], S) + Net(act'[a], S)
  BY <1>1, PendingMoves
<1>5. Cardinality(marks') = Cardinality(marks) /\ Cardinality(marks) \in Nat
  BY InteractionAssumption, FS_Subset, FS_CardinalityType DEF ActTypes, ReadCount, Unmoved
<1>6. ActTypes'
  BY <1>1, InteractionAssumption DEF ActTypes, ActRecords, NoKey, ReadCount, Unmoved, Up,
      Down
<1>7. FlagTypes'  BY Zenon DEF FlagTypes, ReadCount, Unmoved
<1>8. DeedsFit'  BY <1>1 DEF DeedsFit, OthersKeep, ReadCount, Unmoved
<1>9. ReadersAreFresh'
  BY <1>1, <1>5 DEF ReadersAreFresh, NobodyCounts, OthersKeep, ReadersKeep, ReadersRaced,
      DeedsFit, ActTypes, ReadCount, Unmoved, Up, Down
<1>10. TallyFollowsRows'
  BY <1>1, <1>2, <1>5 DEF TallyFollowsRows, Net, DeedsFit, ActTypes, ReadCount, Unmoved,
      Up, Down
<1>11. CounterFollowsRows'
  BY <1>1, <1>3, <1>4, <1>5 DEF CounterFollowsRows, Net, DeedsFit, ActTypes, ReadCount,
      Unmoved
<1>12. CacheIsDropped'
  BY <1>1, <1>5 DEF CacheIsDropped, Under, OthersKeep, DeedsFit, ActTypes, ReadCount,
      Unmoved
<1>13. RepliesAreCounted'
  BY <1>1, UnderIsFinite, UnderMoves DEF DeedsFit, ReadCount, Unmoved, RepliesAreCounted, ActTypes
<1>14. QED BY <1>6, <1>7, <1>8, <1>9, <1>10, <1>11, <1>12, <1>13

\* CacheGoes: no key, no promise.
LEMMA CacheGoesAddsUp == ASSUME ActInv, CacheGoes PROVE ActInv'
<1> USE DEF ActInv
<1>1. act' = act /\ marks' = marks /\ keeper' = keeper  BY DEF CacheGoes, Unmoved
<1>2. /\ Pending({"count"})' = Pending({"count"})
      /\ Pending({"count", "cache"})' = Pending({"count", "cache"})
      /\ Pending({"count", "cache", "announce"})' = Pending({"count", "cache", "announce"})
      /\ Cardinality(Under({"replycount"}, "reply"))' = Cardinality(Under({"replycount"}, "reply"))
      /\ Under({"cache"}, "like")' = Under({"cache"}, "like")
      /\ Under({"cache"}, "unlike")' = Under({"cache"}, "unlike")
  BY <1>1 DEF Pending, Under
<1>3. ActTypes'  BY <1>1, InteractionAssumption DEF ActTypes, NoKey, CacheGoes, Unmoved
<1>4. FlagTypes'  BY Zenon DEF FlagTypes, CacheGoes, Unmoved
<1>5. DeedsFit'  BY <1>1 DEF DeedsFit
<1>6. ReadersAreFresh'
  BY <1>1, InteractionAssumption DEF ReadersAreFresh, NobodyCounts, ActTypes, CacheGoes, Unmoved
<1>7. TallyFollowsRows'
  BY <1>1, <1>2, InteractionAssumption DEF TallyFollowsRows, ActTypes, CacheGoes, Unmoved
<1>8. CounterFollowsRows'
  BY <1>1, <1>2, InteractionAssumption DEF CounterFollowsRows, ActTypes, CacheGoes, Unmoved
<1>9. CacheIsDropped'  BY <1>1, <1>2, InteractionAssumption DEF CacheIsDropped, ActTypes, CacheGoes, Unmoved
<1>10. RepliesAreCounted'
  BY <1>1, <1>2, InteractionAssumption DEF RepliesAreCounted, ActTypes, CacheGoes, Unmoved
<1>11. QED BY <1>3, <1>4, <1>5, <1>6, <1>7, <1>8, <1>9, <1>10

\* DeleteComment: the reply stays counted.
LEMMA DeleteCommentAddsUp == ASSUME ActInv, NEW u \in Fans, DeleteComment(u) PROVE ActInv'
<1> USE DEF ActInv
<1>1. act' = act /\ marks' = marks /\ keeper' = keeper  BY DEF DeleteComment
<1>2. /\ Pending({"count"})' = Pending({"count"})
      /\ Pending({"count", "cache"})' = Pending({"count", "cache"})
      /\ Pending({"count", "cache", "announce"})' = Pending({"count", "cache", "announce"})
      /\ Cardinality(Under({"replycount"}, "reply"))' = Cardinality(Under({"replycount"}, "reply"))
      /\ Under({"cache"}, "like")' = Under({"cache"}, "like")
      /\ Under({"cache"}, "unlike")' = Under({"cache"}, "unlike")
  BY <1>1 DEF Pending, Under
<1>3. ActTypes'  BY <1>1, InteractionAssumption DEF ActTypes, NoKey, DeleteComment
<1>4. FlagTypes'  BY Zenon DEF FlagTypes, DeleteComment
<1>5. DeedsFit'  BY <1>1 DEF DeedsFit
<1>6. ReadersAreFresh'
  BY <1>1, InteractionAssumption DEF ReadersAreFresh, NobodyCounts, ActTypes, DeleteComment
<1>7. TallyFollowsRows'  BY <1>1, <1>2, InteractionAssumption DEF TallyFollowsRows, ActTypes, DeleteComment
<1>8. CounterFollowsRows'
  BY <1>1, <1>2, InteractionAssumption DEF CounterFollowsRows, ActTypes, DeleteComment
<1>9. CacheIsDropped'  BY <1>1, <1>2, InteractionAssumption DEF CacheIsDropped, ActTypes, DeleteComment
<1>10. RepliesAreCounted'  BY <1>1, <1>2, InteractionAssumption DEF RepliesAreCounted, ActTypes, DeleteComment
<1>11. QED BY <1>3, <1>4, <1>5, <1>6, <1>7, <1>8, <1>9, <1>10

\* Nothing changes.
LEMMA ActsStutter == ASSUME ActInv, UNCHANGED actVars PROVE ActInv'
BY DEF ActInv, ActTypes, FlagTypes, DeedsFit, ReadersAreFresh, NobodyCounts, TallyFollowsRows,
   Pending, Under,
       CounterFollowsRows, CacheIsDropped, RepliesAreCounted, actVars

\* The invariant is inductive: no step of any request breaks it.
LEMMA ActInductive == ActInv /\ [ActNext]_actVars => ActInv'
<1> SUFFICES ASSUME ActInv, [ActNext]_actVars PROVE ActInv'  OBVIOUS
<1>1. ASSUME NEW a \in Acts, NEW u \in Fans,
             Like(a, u) \/ Unlike(a, u) \/ GetLikeCount(a, u) \/ CreateComment(a, u)
      PROVE  ActInv'
  BY <1>1, LikeAddsUp, UnlikeAddsUp, GetLikeCountAddsUp, CreateCommentAddsUp
<1>2. ASSUME NEW a \in Acts,
             Count(a) \/ Cache(a) \/ Announce(a) \/ ReadCount(a) \/ FillCache(a) \/ CountReply(a) \/ ActFails(a)
      PROVE  ActInv'
  BY <1>2, CountAddsUp, CacheAddsUp, AnnounceAddsUp, ReadCountAddsUp, FillCacheAddsUp,
     CountReplyAddsUp,
     ActFailsAddsUp
<1>3. CASE CacheGoes  BY <1>3, CacheGoesAddsUp
<1>4. ASSUME NEW u \in Fans, DeleteComment(u) PROVE ActInv'  BY <1>4, DeleteCommentAddsUp
<1>5. CASE UNCHANGED actVars  BY <1>5, ActsStutter
<1>6. QED BY <1>1, <1>2, <1>3, <1>4, <1>5 DEF ActNext

\* So it always holds.
LEMMA ActInvHolds == ActSpec => []ActInv
BY ActBegins, ActInductive, PTL DEF ActSpec

\* The types of likes and replies, in every reachable state.
THEOREM ActTypesHold == ActSpec => []ActTypeOK
<1>1. ActInv => ActTypeOK  BY DEF ActInv, FlagTypes, ActTypes, ActTypeOK, ActRecords
<1>2. QED BY <1>1, ActInvHolds, PTL

\* Whatever requests of any number of users interleave, and wherever they stop: the counter in
\* the table, the one in Redis, the announcements, the cached count and the count of replies
\* agree with the rows as LikesAddUp says.
THEOREM LikesAlwaysAddUp == ActSpec => []LikesAddUp
<1>1. ActInv => LikesAddUp  BY DEF ActInv, LikesAddUp
<1>2. QED BY <1>1, ActInvHolds, PTL

--------
\* Notifications.

Noted(d) == d \in failed \cup muted \/ \E i \in 1..Len(notes) : d \in notes[i].of

\* What a goroutine that handles an event has of it, and what is done of the event before.
Handling == {"prefs", "count", "bump", "create"}
WorkersFit ==
    \A p \in Parts :
        /\ worker[p].step # "idle" => position[p] \in 1..Len(Topic[p])
        /\ worker[p].step \in Handling =>
              /\ worker[p].next \in 1..Len(Event(p).to)
              /\ \A k \in 1..worker[p].next - 1 : Noted(<<p, position[p], Event(p).to[k]>>)
        /\ worker[p].step \in {"count", "bump"} => Event(p).group = "likes"
        /\ worker[p].step = "bump" => GroupOf(Target(p), "likes") # {}
        /\ worker[p].step = "commit" =>
              \A k \in 1..Len(Event(p).to) : Noted(<<p, position[p], Event(p).to[k]>>)

\* While nothing disturbs the service, an event is in a group's notification only once it is
\* dealt with ...
Calm == ~died /\ ~erred
GroupsArePast ==
    Calm => \A i \in 1..Len(notes) : notes[i].group = "likes" =>
                \A d \in notes[i].of :
                    \/ d[2] < position[d[1]]
                    \/ d[2] = position[d[1]] /\ worker[d[1]].step = "commit"

\* ... a notification counts its events ...
CountsFit ==
    Calm => \A i \in 1..Len(notes) : /\ IsFiniteSet(notes[i].of)
                                     /\ notes[i].count = Cardinality(notes[i].of)

\* ... and a user whose events never met has one goroutine about to change the group, and one
\* notification at most.
GroupsAreAlone ==
    Calm => \A u \in Persons \ crossed :
                /\ \A p, q \in Grouping(u) : p = q
                /\ \A p \in Grouping(u) : worker[p].step = "create" => GroupOf(u, "likes") = {}
                /\ \A i, j \in GroupOf(u, "likes") : i = j

\* A row, who uses the phone, and what its app does: an active row is the user's, or of who has
\* just signed out, unless a call failed.
AppRecords == [does : {"nothing", "save", "remove"}, user : Persons \cup {"none"}, sure : BOOLEAN]
RowFits(d, u, a) ==
    /\ a.does = "save" => a.user = u
    /\ d.active /\ a.sure /\ a.does = "nothing" => u = d.user
    /\ d.active /\ a.sure /\ a.does = "remove" => a.user = d.user

\* A push under way knows which phones were not their users'.
PhonesFit ==
    /\ ~strayed
    /\ \A t \in Tokens : RowFits(device[t], phone[t], app[t])
    /\ \A s \in pushes : s.step = "send" => \A t \in s.tokens \ s.moved : phone[t] = s.of[3]

\* An edit that met no other is to change the one field it is about.
EditsFit ==
    \A u \in Persons \ editsMet :
        /\ prefs[u] = asked[u]
        /\ \A e \in Saving(u) : \E x \in BOOLEAN : edit[e].wants = [prefs[u] EXCEPT ![Wish[e].field] = x]
        /\ \A e, f \in Saving(u) : e = f

NoteInv == /\ NoteTypeOK /\ WorkersFit /\ EventsAreKept /\ GroupsArePast /\ CountsFit
           /\ GroupsAreAlone /\ PhonesFit /\ EditsFit

--------
\* A set of numbers that is not empty has a least one.
LEMMA HasLeast ==
    ASSUME NEW T, T \subseteq Nat, T # {}
    PROVE  \E x \in T : \A y \in T : x <= y
<1> DEFINE R == OpToRel(<, Nat)
<1>1. \A x, y \in Nat : x < y => <<x, y>> \in R  BY DEF OpToRel
<1>2. \E x \in T : \A y \in T : ~(<<y, x>> \in R)  BY WFMin, NatLessThanWellFounded, Zenon
<1> HIDE DEF R
<1>3. PICK x \in T : \A y \in T : ~(<<y, x>> \in R)  BY <1>2
<1>4. \A y \in T : ~(y < x)  BY <1>1, <1>3
<1>5. QED BY <1>3, <1>4

\* A bounded set of numbers that is not empty has a largest one.
LEMMA HasLargest ==
    ASSUME NEW b \in Nat, NEW S, S \subseteq 0..b, S # {}
    PROVE  \E x \in S : \A y \in S : x >= y
<1> DEFINE T == {m \in Nat : \A y \in S : y <= m}
<1>1. T \subseteq Nat /\ b \in T  OBVIOUS
<1>2. PICK m \in T : \A k \in T : m <= k  BY <1>1, HasLeast
<1>3. m \in S
  <2>1. SUFFICES ASSUME m \notin S PROVE FALSE  OBVIOUS
  <2>2. PICK y \in S : y \in 0..b  OBVIOUS
  <2>3. \A z \in S : z \in 0..b /\ z <= m /\ z # m  BY <2>1, <1>2
  <2>4. m - 1 \in T  BY <2>2, <2>3, <1>2
  <2>5. QED BY <2>4, <1>2
<1>4. QED BY <1>3, <1>2

\* A list of numbers is bounded.
LEMMA IsBounded ==
    ASSUME NEW n \in Nat, NEW f \in [1..n -> Nat]
    PROVE  \E b \in Nat : \A i \in 1..n : f[i] <= b
<1> DEFINE Below(m) == \E b \in Nat : \A i \in 1..m : f[i] <= b
           T == {m \in Nat : m <= n /\ ~Below(m)}
<1>1. Below(0)
  <2>1. \A i \in 1..0 : f[i] <= 0  OBVIOUS
  <2>2. QED BY <2>1
<1>2. ASSUME NEW m \in 1..n, Below(m - 1) PROVE Below(m)
  <2>1. PICK b \in Nat : \A i \in 1..m - 1 : f[i] <= b  BY <1>2
  <2>2. f[m] \in Nat  OBVIOUS
  <2>3. PICK c \in Nat : b <= c /\ f[m] <= c  BY <2>2
  <2>4. \A i \in 1..m : (i \in 1..m - 1 \/ i = m) /\ f[i] \in Nat  OBVIOUS
  <2>5. \A i \in 1..m : f[i] <= c  BY <2>1, <2>2, <2>3, <2>4
  <2>6. QED BY <2>5
<1>3. \A k \in Nat : k \in T <=> k <= n /\ ~Below(k)  OBVIOUS
<1>4. T \subseteq Nat  OBVIOUS
<1> HIDE DEF T, Below
<1>5. SUFFICES ASSUME ~Below(n) PROVE FALSE  BY DEF Below
<1>6. PICK m \in T : \A k \in T : m <= k
  <2>1. n \in T  BY <1>3, <1>5
  <2>2. T # {}  BY <2>1
  <2>3. QED BY <1>4, <2>2, HasLeast
<1>7. m \in 1..n /\ m - 1 \notin T  BY <1>1, <1>3, <1>4, <1>6
<1>8. Below(m - 1)  BY <1>3, <1>7
<1>9. QED BY <1>2, <1>3, <1>6, <1>7, <1>8

\* The latest notification of a group is one of it.
LEMMA LatestIsOne ==
    ASSUME NEW n \in Nat, NEW is, is \subseteq 1..n, is # {}
    PROVE  Latest(is) \in is
<1>1. is \subseteq 0..n  OBVIOUS
<1>2. \E i \in is : \A j \in is : i >= j  BY <1>1, HasLargest
<1>3. \E i \in is : \A j \in is : j <= i  BY <1>1, <1>2
<1>4. QED BY <1>3 DEF Latest

\* What the types say of a goroutine and its event.
LEMMA WorkerTypes ==
    ASSUME NoteTypeOK, WorkersFit, NEW p \in Parts
    PROVE  /\ worker \in [Parts -> [step : {"idle", "prefs", "count", "bump", "create", "commit"},
                                    next : Nat, saw : Nat, push : BOOLEAN, quiet : BOOLEAN]]
           /\ worker[p].step \in {"idle", "prefs", "count", "bump", "create", "commit"}
           /\ worker[p].next \in Nat /\ worker[p].saw \in Nat
           /\ worker[p].push \in BOOLEAN /\ worker[p].quiet \in BOOLEAN
           /\ position[p] \in 1..Len(Topic[p]) + 1 /\ Topic[p] \in Seq(EventRecords)
           /\ Len(Topic[p]) \in Nat
           /\ worker[p].step # "idle" => /\ position[p] \in 1..Len(Topic[p])
                                         /\ Event(p) \in EventRecords
                                         /\ Event(p).to \in Seq(Persons)
                                         /\ Len(Event(p).to) \in Nat
                                         /\ Event(p).group \in {"likes", "none"}
           /\ worker[p].step \in Handling => /\ worker[p].next \in 1..Len(Event(p).to)
                                             /\ Target(p) \in Persons
                                             /\ Name(p) \in Deliveries
<1>1. worker \in [Parts -> [step : {"idle", "prefs", "count", "bump", "create", "commit"},
                                    next : Nat, saw : Nat, push : BOOLEAN, quiet : BOOLEAN]]
  BY DEF NoteTypeOK
<1>2. /\ worker[p].step \in {"idle", "prefs", "count", "bump", "create", "commit"}
      /\ worker[p].next \in Nat /\ worker[p].saw \in Nat
      /\ worker[p].push \in BOOLEAN /\ worker[p].quiet \in BOOLEAN
  BY <1>1
<1>3. /\ position[p] \in 1..Len(Topic[p]) + 1 /\ Topic[p] \in Seq(EventRecords)
      /\ Len(Topic[p]) \in Nat
  BY NotificationAssumption DEF NoteTypeOK
<1>4. ASSUME worker[p].step # "idle"
      PROVE  /\ position[p] \in 1..Len(Topic[p]) /\ Event(p) \in EventRecords
             /\ Event(p).to \in Seq(Persons) /\ Len(Event(p).to) \in Nat
             /\ Event(p).group \in {"likes", "none"}
  <2>1. position[p] \in 1..Len(Topic[p])  BY <1>4 DEF WorkersFit
  <2>2. Event(p) \in EventRecords  BY <2>1, <1>3 DEF Event
  <2>3. QED BY <2>1, <2>2 DEF EventRecords
<1>5. ASSUME worker[p].step \in Handling
      PROVE  worker[p].next \in 1..Len(Event(p).to) /\ Target(p) \in Persons /\ Name(p) \in Deliveries
  BY <1>5, <1>4, <1>3 DEF WorkersFit, Handling, Target, Name, Deliveries
<1>6. QED BY <1>1, <1>2, <1>3, <1>4, <1>5

\* An event with a group is for one user.
LEMMA GroupedAreForOne ==
    ASSUME NoteTypeOK, WorkersFit, NEW p \in Parts, worker[p].step # "idle", Event(p).group = "likes"
    PROVE  Len(Event(p).to) = 1
<1>1. position[p] \in 1..Len(Topic[p])  BY WorkerTypes
<1>2. QED BY <1>1, NotificationAssumption DEF Event

\* What the types say of the notifications.
LEMMA NoteTypes ==
    ASSUME NoteTypeOK
    PROVE  /\ notes \in Seq(NoteRecords) /\ Len(notes) \in Nat
           /\ \A i \in 1..Len(notes) :
                 /\ notes[i] \in NoteRecords /\ notes[i].to \in Persons
                 /\ notes[i].group \in {"likes", "none"} /\ notes[i].count \in Nat \ {0}
                 /\ notes[i].read \in BOOLEAN /\ notes[i].of \subseteq Deliveries
           /\ \A u, g : GroupOf(u, g) \subseteq 1..Len(notes)
<1>1. notes \in Seq(NoteRecords)  BY DEF NoteTypeOK
<1>2. Len(notes) \in Nat /\ \A i \in 1..Len(notes) : notes[i] \in NoteRecords  BY <1>1
<1>3. QED BY <1>1, <1>2 DEF NoteRecords, GroupOf

\* Notifications stay whose they are, and of what.
NotesGrow ==
    /\ Len(notes') \in Nat /\ Len(notes) <= Len(notes')
    /\ \A i \in 1..Len(notes) : /\ notes[i].of \subseteq notes'[i].of
                                /\ notes'[i].to = notes[i].to /\ notes'[i].group = notes[i].group

LEMMA NotedStays ==
    ASSUME NoteTypeOK, NotesGrow, failed \subseteq failed', muted \subseteq muted', NEW d, Noted(d)
    PROVE  Noted(d)'
<1>1. CASE d \in failed \cup muted  BY <1>1 DEF Noted
<1>2. CASE \E i \in 1..Len(notes) : d \in notes[i].of  BY <1>2, NoteTypes DEF NotesGrow, Noted
<1>3. QED BY <1>1, <1>2 DEF Noted

LEMMA GroupStays ==
    ASSUME NoteTypeOK, NotesGrow, NEW u, NEW g
    PROVE  GroupOf(u, g) \subseteq GroupOf(u, g)'
BY NoteTypes DEF NotesGrow, GroupOf

\* Goroutine p goes on to w, with the same event.
LEMMA WorkersAfter ==
    ASSUME NoteInv, NEW p \in Parts, NEW w,
           worker' = [worker EXCEPT ![p] = w], position' = position, NotesGrow,
           failed \subseteq failed', muted \subseteq muted',
           w.step # "idle" => position[p] \in 1..Len(Topic[p]),
           w.step \in Handling =>
              /\ w.next \in 1..Len(Event(p).to)
              /\ \A k \in 1..w.next - 1 : Noted(<<p, position[p], Event(p).to[k]>>)',
           w.step \in {"count", "bump"} => Event(p).group = "likes",
           w.step = "bump" => GroupOf(Event(p).to[w.next], "likes") # {},
           w.step = "commit" =>
              \A k \in 1..Len(Event(p).to) : Noted(<<p, position[p], Event(p).to[k]>>)'
    PROVE  WorkersFit' /\ EventsAreKept'
<1>1. NoteTypeOK /\ WorkersFit /\ EventsAreKept /\ worker \in [Parts -> [step : {"idle", "prefs", "count", "bump", "create", "commit"},
                                    next : Nat, saw : Nat, push : BOOLEAN, quiet : BOOLEAN]]
  BY WorkerTypes DEF NoteInv
<1>2. worker'[p] = w /\ \A q \in Parts : q # p => worker'[q] = worker[q]  BY <1>1
<1>3. \A d : Noted(d) => Noted(d)'  BY <1>1, NotedStays
<1>4. \A q \in Parts : Event(q)' = Event(q)  BY DEF Event
<1>5. WorkersFit'
  <2> SUFFICES ASSUME NEW q \in Parts
      PROVE  (/\ worker[q].step # "idle" => position[q] \in 1..Len(Topic[q])
              /\ worker[q].step \in Handling =>
                    /\ worker[q].next \in 1..Len(Event(q).to)
                    /\ \A k \in 1..worker[q].next - 1 : Noted(<<q, position[q], Event(q).to[k]>>)
              /\ worker[q].step \in {"count", "bump"} => Event(q).group = "likes"
              /\ worker[q].step = "bump" => GroupOf(Target(q), "likes") # {}
              /\ worker[q].step = "commit" =>
                    \A k \in 1..Len(Event(q).to) : Noted(<<q, position[q], Event(q).to[k]>>))'
    BY DEF WorkersFit
  <2>1. CASE q = p
    <3>1. Target(p)' = Event(p).to[w.next]  BY <1>2, <1>4 DEF Target
    <3>2. \A u : GroupOf(u, "likes") \subseteq {i \in 1..Len(notes') : notes'[i].to = u /\ notes'[i].group = "likes"}
      BY <1>1, GroupStays DEF GroupOf
    <3>3. w.step = "bump" => GroupOf(Target(p), "likes")' # {}
      <4>1. GroupOf(Event(p).to[w.next], "likes") \subseteq
                {i \in 1..Len(notes') : notes'[i].to = Event(p).to[w.next] /\ notes'[i].group = "likes"}
        BY <3>2
      <4>2. GroupOf(Target(p), "likes")' =
                {i \in 1..Len(notes') : notes'[i].to = Target(p)' /\ notes'[i].group = "likes"}
        BY DEF GroupOf
      <4>3. QED BY <3>1, <4>1, <4>2
    <3>4. \A k : <<p, position[p], Event(p).to[k]>>' = <<p, position[p], Event(p).to[k]>>  BY <1>4
    <3>5. \A k : Noted(<<p, position[p], Event(p).to[k]>>)' <=> (<<p, position[p], Event(p).to[k]>> \in failed' \cup muted' \/ \E i \in 1..Len(notes') : <<p, position[p], Event(p).to[k]>> \in notes'[i].of)
      BY <1>4 DEF Noted
    <3>6. QED BY <2>1, <1>2, <1>4, <3>3
  <2>2. CASE q # p
    <3>1. worker'[q] = worker[q] /\ Target(q)' = Target(q)  BY <2>2, <1>2, <1>4 DEF Target
    <3>2. GroupOf(Target(q), "likes") \subseteq GroupOf(Target(q), "likes")'
      <4>1. \A u : GroupOf(u, "likes") \subseteq {i \in 1..Len(notes') : notes'[i].to = u /\ notes'[i].group = "likes"}
        BY <1>1, GroupStays DEF GroupOf
      <4>2. QED BY <3>1, <4>1 DEF GroupOf
    <3>3. \A k : Noted(<<q, position[q], Event(q).to[k]>>) => Noted(<<q, position[q], Event(q).to[k]>>)'
      BY <1>3, <1>4 DEF Noted
    <3>4. /\ worker[q].step # "idle" => position[q] \in 1..Len(Topic[q])
          /\ worker[q].step \in Handling =>
                    /\ worker[q].next \in 1..Len(Event(q).to)
                    /\ \A k \in 1..worker[q].next - 1 : Noted(<<q, position[q], Event(q).to[k]>>)
          /\ worker[q].step \in {"count", "bump"} => Event(q).group = "likes"
          /\ worker[q].step = "bump" => GroupOf(Target(q), "likes") # {}
          /\ worker[q].step = "commit" =>
                    \A k \in 1..Len(Event(q).to) : Noted(<<q, position[q], Event(q).to[k]>>)
      BY <1>1 DEF WorkersFit
    <3>5. QED BY <3>1, <3>2, <3>3, <3>4, <1>4
  <2>3. QED BY <2>1, <2>2
<1>6. EventsAreKept'  BY <1>1, <1>3 DEF EventsAreKept, Noted
<1>7. QED BY <1>5, <1>6

\* The row of the group is there, and now has the event.
LEMMA BumpedIs ==
    ASSUME NoteInv, NEW p \in Parts, worker[p].step = "bump", notes' = Bumped(p), position' = position
    PROVE  \E i \in GroupOf(Target(p), "likes") :
              /\ i \in 1..Len(notes) /\ Len(notes') = Len(notes) /\ notes' \in Seq(NoteRecords)
              /\ notes'[i] = [notes[i] EXCEPT !.count = notes[i].count + 1, !.of = notes[i].of \cup {Name(p)}]
              /\ \A j \in 1..Len(notes) : j # i => notes'[j] = notes[j]
<1> DEFINE i == Latest(GroupOf(Target(p), "likes"))
<1>1. NoteTypeOK /\ WorkersFit  BY DEF NoteInv
<1>2. i \in GroupOf(Target(p), "likes") /\ i \in 1..Len(notes)  BY <1>1, NoteTypes, LatestIsOne DEF WorkersFit
<1> DEFINE w == [notes[i] EXCEPT !.count = notes[i].count + 1, !.of = notes[i].of \cup {Name(p)}]
<1>3. Name(p) \in Deliveries  BY <1>1, WorkerTypes DEF Handling
<1>4. notes \in Seq(NoteRecords) /\ notes[i] \in NoteRecords  BY <1>1, <1>2, NoteTypes
<1>5. w \in NoteRecords
  <2>1. notes[i].count + 1 \in Nat \ {0} /\ notes[i].of \cup {Name(p)} \subseteq Deliveries
    BY <1>1, <1>2, <1>3, NoteTypes
  <2>2. QED BY <1>4, <2>1 DEF NoteRecords
<1>6. notes' = [notes EXCEPT ![i] = w]  BY <1>2, <1>4 DEF Bumped, NoteRecords
<1> HIDE DEF i, w
<1>7. /\ Len(notes') = Len(notes) /\ notes' \in Seq(NoteRecords) /\ notes'[i] = w
      /\ \A j \in 1..Len(notes) : j # i => notes'[j] = notes[j]
  BY <1>2, <1>4, <1>5, <1>6
<1>8. QED BY <1>2, <1>7 DEF w

LEMMA BumpedGrow ==
    ASSUME NoteInv, NEW p \in Parts, worker[p].step = "bump", notes' = Bumped(p), position' = position
    PROVE  /\ NotesGrow /\ notes' \in Seq(NoteRecords)
           /\ \E i \in 1..Len(notes') : Name(p) \in notes'[i].of
<1>1. NoteTypeOK  BY DEF NoteInv
<1>2. PICK i \in GroupOf(Target(p), "likes") :
              /\ i \in 1..Len(notes) /\ Len(notes') = Len(notes) /\ notes' \in Seq(NoteRecords)
              /\ notes'[i] = [notes[i] EXCEPT !.count = notes[i].count + 1, !.of = notes[i].of \cup {Name(p)}]
              /\ \A j \in 1..Len(notes) : j # i => notes'[j] = notes[j]
  BY BumpedIs
<1>3. notes[i] \in NoteRecords /\ Len(notes) \in Nat  BY <1>1, <1>2, NoteTypes
<1>4. /\ notes'[i].of = notes[i].of \cup {Name(p)} /\ notes'[i].to = notes[i].to
      /\ notes'[i].group = notes[i].group
  BY <1>2, <1>3 DEF NoteRecords
<1>5. NotesGrow
  <2>1. \A j \in 1..Len(notes) : /\ notes[j].of \subseteq notes'[j].of
                                 /\ notes'[j].to = notes[j].to /\ notes'[j].group = notes[j].group
    BY <1>2, <1>4
  <2>2. QED BY <1>2, <1>3, <2>1 DEF NotesGrow
<1>6. QED BY <1>2, <1>4, <1>5

\* A row of its own.
NewNote(p) == [to |-> Target(p), group |-> Event(p).group, count |-> 1, read |-> FALSE, of |-> {Name(p)}]

LEMMA CreatedGrow ==
    ASSUME NoteInv, NEW p \in Parts, worker[p].step = "create", notes' = Append(notes, NewNote(p))
    PROVE  /\ NotesGrow /\ notes' \in Seq(NoteRecords) /\ Len(notes') = Len(notes) + 1
           /\ notes'[Len(notes) + 1] = NewNote(p)
           /\ \A j \in 1..Len(notes) : notes'[j] = notes[j]
           /\ \E i \in 1..Len(notes') : Name(p) \in notes'[i].of
<1>1. NoteTypeOK /\ WorkersFit  BY DEF NoteInv
<1>2. notes \in Seq(NoteRecords) /\ Len(notes) \in Nat  BY <1>1, NoteTypes
<1>3. NewNote(p) \in NoteRecords  BY <1>1, WorkerTypes DEF Handling, NewNote, NoteRecords
<1>4. /\ notes' \in Seq(NoteRecords) /\ Len(notes') = Len(notes) + 1
      /\ notes'[Len(notes) + 1] = NewNote(p)
      /\ \A j \in 1..Len(notes) : notes'[j] = notes[j]
  BY <1>2, <1>3
<1>5. NotesGrow  BY <1>2, <1>4 DEF NotesGrow
<1>6. Name(p) \in notes'[Len(notes) + 1].of /\ Len(notes) + 1 \in 1..Len(notes')  BY <1>2, <1>4 DEF NewNote
<1>7. QED BY <1>4, <1>5, <1>6

\* What is marked as read says the same.
NotesAlike ==
    /\ notes' \in Seq(NoteRecords) /\ Len(notes') = Len(notes)
    /\ \A i \in 1..Len(notes) : /\ notes'[i].of = notes[i].of /\ notes'[i].count = notes[i].count
                                /\ notes'[i].to = notes[i].to /\ notes'[i].group = notes[i].group

LEMMA AlikeGrow ==
    ASSUME NoteTypeOK, NotesAlike
    PROVE  NotesGrow /\ \A u, g : GroupOf(u, g)' = GroupOf(u, g)
BY NoteTypes DEF NotesAlike, NotesGrow, GroupOf

\* Goroutine p goes on to w and writes nothing: only the groups in hand may be others.
LEMMA CalmAfter ==
    ASSUME NoteInv, NEW p \in Parts, NEW w,
           worker' = [worker EXCEPT ![p] = w], position' = position, notes' = notes,
           crossed \subseteq crossed', died' = died, erred' = erred, worker[p].step # "commit",
           w.step \in {"bump", "create"} /\ Event(p).group = "likes" =>
              \/ Event(p).to[w.next] \in crossed'
              \/ /\ w.step = "create" => GroupOf(Event(p).to[w.next], "likes") = {}
                 /\ \A q \in Grouping(Event(p).to[w.next]) : q = p
    PROVE  GroupsArePast' /\ CountsFit' /\ GroupsAreAlone'
<1>1. /\ NoteTypeOK /\ GroupsArePast /\ CountsFit /\ GroupsAreAlone
      /\ worker'[p] = w /\ \A q \in Parts : q # p => worker'[q] = worker[q]
      /\ Calm' <=> Calm
  BY WorkerTypes DEF NoteInv, Calm
<1>2. CountsFit'  BY <1>1 DEF CountsFit
<1>3. GroupsArePast'  BY <1>1, NoteTypes DEF GroupsArePast, Deliveries
<1>4. GroupsAreAlone'
  <2> SUFFICES ASSUME Calm, NEW u \in Persons, u \notin crossed'
      PROVE  (/\ \A q, r \in Grouping(u) : q = r
              /\ \A q \in Grouping(u) : worker[q].step = "create" => GroupOf(u, "likes") = {}
              /\ \A i, j \in GroupOf(u, "likes") : i = j)'
    BY <1>1 DEF GroupsAreAlone
  <2>1. /\ \A q, r \in Grouping(u) : q = r
        /\ \A q \in Grouping(u) : worker[q].step = "create" => GroupOf(u, "likes") = {}
        /\ \A i, j \in GroupOf(u, "likes") : i = j
    BY <1>1 DEF GroupsAreAlone
  <2>2. GroupOf(u, "likes")' = GroupOf(u, "likes")  BY DEF GroupOf
  <2>3. \A q \in Parts : Event(q)' = Event(q) /\ (q # p => Target(q)' = Target(q))  BY <1>1 DEF Event, Target
  <2>4. \A q \in Parts : q # p => (q \in Grouping(u)' <=> q \in Grouping(u))  BY <1>1, <2>3 DEF Grouping
  <2>5. Grouping(u)' \subseteq Parts  BY DEF Grouping
  <2>6. CASE p \notin Grouping(u)'  BY <1>1, <2>1, <2>2, <2>4, <2>5, <2>6
  <2>7. CASE p \in Grouping(u)'  BY <2>7, <1>1, <2>3, <2>4, <2>5, <2>1, <2>2 DEF Grouping, Target
  <2>8. QED BY <2>6, <2>7
<1>5. QED BY <1>2, <1>3, <1>4

\* Nobody's goroutine moves.
LEMMA CalmStays ==
    ASSUME NoteInv, UNCHANGED <<worker, position, crossed>>, NotesAlike,
           died => died', erred => erred'
    PROVE  GroupsArePast' /\ CountsFit' /\ GroupsAreAlone'
<1>1. /\ NoteTypeOK /\ GroupsArePast /\ CountsFit /\ GroupsAreAlone
      /\ Calm' => Calm
  BY DEF NoteInv, Calm
<1>2. CountsFit'  BY <1>1 DEF CountsFit, NotesAlike
<1>3. GroupsArePast'  BY <1>1 DEF GroupsArePast, NotesAlike
<1>4. GroupsAreAlone'  BY <1>1, AlikeGrow DEF Grouping, Event, Target, GroupsAreAlone
<1>5. QED BY <1>2, <1>3, <1>4

\* What the goroutine does next: it is at the next user, or done with all of them.
LEMMA AfterFits ==
    ASSUME NoteInv, NEW p \in Parts, worker[p].step \in Handling
    PROVE  /\ After(p) \in [step : {"idle", "prefs", "count", "bump", "create", "commit"},
                            next : Nat, saw : Nat, push : BOOLEAN, quiet : BOOLEAN]
           /\ After(p).step \in {"prefs", "commit"}
           /\ After(p).step = "prefs" => /\ After(p).next = worker[p].next + 1
                                         /\ After(p).next \in 1..Len(Event(p).to)
           /\ After(p).step = "commit" => worker[p].next = Len(Event(p).to)
           /\ Event(p).group = "likes" => After(p).step = "commit"
<1>1. /\ worker[p].next \in Nat /\ worker[p].next \in 1..Len(Event(p).to)
      /\ worker[p].step # "idle" /\ Len(Event(p).to) \in Nat
  BY WorkerTypes DEF NoteInv, Handling
<1>2. Event(p).group = "likes" => Len(Event(p).to) = 1  BY <1>1, GroupedAreForOne DEF NoteInv
<1>3. CASE worker[p].next < Len(Event(p).to)
  <2>1. After(p) = [step |-> "prefs", next |-> worker[p].next + 1, saw |-> 0, push |-> FALSE,
                    quiet |-> FALSE]
    BY <1>3 DEF After, AtRest
  <2>2. worker[p].next + 1 \in Nat /\ worker[p].next + 1 \in 1..Len(Event(p).to)  BY <1>1, <1>3
  <2>3. ASSUME Event(p).group = "likes" PROVE FALSE
    <3>1. Len(Event(p).to) = 1  BY <1>2, <2>3
    <3>2. worker[p].next \in 1..1 /\ worker[p].next < 1  BY <1>1, <1>3, <3>1
    <3>3. QED BY <3>2
  <2>4. QED BY <2>1, <2>2, <2>3
<1>4. CASE ~(worker[p].next < Len(Event(p).to))
  <2>1. After(p) = [step |-> "commit", next |-> 1, saw |-> 0, push |-> FALSE, quiet |-> FALSE]
    BY <1>4 DEF After, AtRest
  <2>2. worker[p].next = Len(Event(p).to)  BY <1>1, <1>4
  <2>3. QED BY <2>1, <2>2
<1>5. QED BY <1>3, <1>4

\* The event of a user is noted: the goroutine goes on.
LEMMA GoesOn ==
    ASSUME NoteInv, NEW p \in Parts, worker[p].step \in Handling,
           worker' = [worker EXCEPT ![p] = After(p)], position' = position, NotesGrow,
           failed \subseteq failed', muted \subseteq muted',
           Name(p) \in failed' \cup muted' \/ \E i \in 1..Len(notes') : Name(p) \in notes'[i].of
    PROVE  WorkersFit' /\ EventsAreKept'
<1>1. NoteTypeOK /\ WorkersFit  BY DEF NoteInv
<1>2. /\ worker[p].next \in 1..Len(Event(p).to) /\ Len(Event(p).to) \in Nat
      /\ position[p] \in 1..Len(Topic[p])
  BY <1>1, WorkerTypes DEF Handling
<1>3. \A k \in 1..worker[p].next - 1 : Noted(<<p, position[p], Event(p).to[k]>>)  BY <1>1 DEF WorkersFit
<1>4. \A d : Noted(d) => Noted(d)'  BY <1>1, NotedStays
<1>5. \A k : <<p, position[p], Event(p).to[k]>>' = <<p, position[p], Event(p).to[k]>>  BY DEF Event
<1>6. \A d : Noted(d)' <=> d \in failed' \cup muted' \/ \E i \in 1..Len(notes') : d \in notes'[i].of
  BY DEF Noted
<1>7. \A k \in 1..worker[p].next : Noted(<<p, position[p], Event(p).to[k]>>)'
  <2> SUFFICES ASSUME NEW k \in 1..worker[p].next PROVE Noted(<<p, position[p], Event(p).to[k]>>)'  OBVIOUS
  <2> DEFINE d == <<p, position[p], Event(p).to[k]>>
  <2>1. d \in failed' \cup muted' \/ \E i \in 1..Len(notes') : d \in notes'[i].of
    <3>1. CASE k = worker[p].next  BY <3>1 DEF Name, Target
    <3>2. CASE k # worker[p].next
      <4>1. k \in 1..worker[p].next - 1  BY <3>2, <1>2
      <4>2. Noted(d)  BY <4>1, <1>3
      <4> HIDE DEF d
      <4>3. QED BY <4>2, <1>1, NotedStays, <1>4, <1>6
    <3>3. QED BY <3>1, <3>2
  <2>2. QED BY <2>1, <1>5 DEF Noted
<1>8. /\ After(p).step \in {"prefs", "commit"}
      /\ After(p).step = "prefs" => /\ After(p).next = worker[p].next + 1
                                    /\ After(p).next \in 1..Len(Event(p).to)
      /\ After(p).step = "commit" => worker[p].next = Len(Event(p).to)
  BY AfterFits
<1> DEFINE w == After(p)
<1> HIDE DEF w
<1>9. w.step \in Handling =>
              /\ w.next \in 1..Len(Event(p).to)
              /\ \A k \in 1..w.next - 1 : Noted(<<p, position[p], Event(p).to[k]>>)'
  BY <1>8, <1>2, <1>7 DEF w, Handling
<1>10. w.step = "commit" => \A k \in 1..Len(Event(p).to) : Noted(<<p, position[p], Event(p).to[k]>>)'
  BY <1>7, <1>8 DEF w
<1>11. w.step \notin {"count", "bump"}  BY <1>8 DEF w
<1>12. worker' = [worker EXCEPT ![p] = w]  BY DEF w
<1>13. QED BY <1>2, <1>9, <1>10, <1>11, <1>12, WorkersAfter

--------
\* What is left alone by what goroutines do.
LEMMA UsersStay ==
    ASSUME NoteInv, UNCHANGED userVars, UNCHANGED died, UNCHANGED pushes
    PROVE  PhonesFit' /\ EditsFit'
BY DEF NoteInv, PhonesFit, EditsFit, Saving, userVars

LEMMA PushedStay ==
    ASSUME NoteInv, UNCHANGED userVars, UNCHANGED died, NEW p \in Parts,
           Pushes(p) \/ pushes' = pushes
    PROVE  PhonesFit' /\ EditsFit'
<1>1. EditsFit'  BY DEF NoteInv, EditsFit, Saving, userVars
<1>2. \A s \in pushes' : s.step = "send" => s \in pushes  BY DEF Pushes
<1>3. PhonesFit'  BY <1>2 DEF NoteInv, PhonesFit, userVars
<1>4. QED BY <1>1, <1>3

\* Types, where a goroutine moves.
LEMMA WorkTypes ==
    ASSUME NoteInv, NEW p \in Parts,
           NEW w \in [step : {"idle", "prefs", "count", "bump", "create", "commit"},
                      next : Nat, saw : Nat, push : BOOLEAN, quiet : BOOLEAN],
           worker' = [worker EXCEPT ![p] = w], UNCHANGED userVars, UNCHANGED died,
           notes' \in Seq(NoteRecords), position' = position,
           pushes' = pushes \/ (Pushes(p) /\ Name(p) \in Deliveries),
           failed' \subseteq Deliveries, muted' \subseteq Deliveries, crossed' \subseteq Persons,
           erred' \in BOOLEAN
    PROVE  NoteTypeOK'
<1>1. NoteTypeOK  BY DEF NoteInv
<1>2. worker' \in [Parts -> [step : {"idle", "prefs", "count", "bump", "create", "commit"},
                      next : Nat, saw : Nat, push : BOOLEAN, quiet : BOOLEAN]]
  BY <1>1 DEF NoteTypeOK
<1>3. pushes' \subseteq [of : Deliveries, step : {"devices", "send", "deactivate"}, tokens : SUBSET Tokens,
                         moved : SUBSET Tokens]
  BY <1>1 DEF NoteTypeOK, Pushes
<1>4. /\ prefs' \in [Persons -> Preference] /\ asked' \in [Persons -> Preference] /\ editsMet' \subseteq Persons
      /\ edit' \in [Edits -> [step : {"new", "save", "done"}, wants : Preference]]
      /\ device' \in [Tokens -> [user : Persons \cup {"none"}, active : BOOLEAN]]
      /\ phone' \in [Tokens -> Persons \cup {"none"}] /\ firebase' \in BOOLEAN
      /\ app' \in [Tokens -> AppRecords]
  BY <1>1 DEF NoteTypeOK, userVars, AppRecords
<1>5. strayed' \in BOOLEAN /\ died' \in BOOLEAN  BY <1>1, Zenon DEF NoteTypeOK, userVars
<1>6. {died', erred'} \subseteq BOOLEAN  BY <1>5
<1>7. /\ position' \in [Parts -> Nat \ {0}]
      /\ \A q \in Parts : position'[q] <= Len(Topic[q]) + 1
  BY <1>1 DEF NoteTypeOK
<1>8. /\ notes' \in Seq(NoteRecords) /\ failed' \subseteq Deliveries /\ muted' \subseteq Deliveries
      /\ crossed' \subseteq Persons
  OBVIOUS
<1>9. QED BY <1>2, <1>3, <1>4, <1>5, <1>6, <1>7, <1>8 DEF NoteTypeOK, Deliveries, NoteRecords, AppRecords

--------
\* The goroutine's actions.

\* A goroutine takes an event up, for nobody or for its first user.
LEMMA TakesUp ==
    \A w : /\ w = [AtRest EXCEPT !.step = "commit"] =>
                  w = [step |-> "commit", next |-> 1, saw |-> 0, push |-> FALSE, quiet |-> FALSE]
           /\ w = [AtRest EXCEPT !.step = "prefs"] =>
                  w = [step |-> "prefs", next |-> 1, saw |-> 0, push |-> FALSE, quiet |-> FALSE]
BY DEF AtRest

LEMMA ConsumeKeeps == ASSUME NoteInv, NEW p \in Parts, Consume(p) PROVE NoteInv'
<1> DEFINE w == [AtRest EXCEPT !.step = IF Event(p).to = <<>> THEN "commit" ELSE "prefs"]
<1>1. /\ worker[p].step = "idle" /\ position[p] <= Len(Topic[p]) /\ worker' = [worker EXCEPT ![p] = w]
      /\ UNCHANGED <<position, notes, pushes, failed, muted, crossed, userVars, died, erred, left>>
  BY DEF Consume, Turns
<1>2. NoteTypeOK /\ WorkersFit  BY DEF NoteInv
<1>3. /\ Event(p).to = <<>> =>
             w = [step |-> "commit", next |-> 1, saw |-> 0, push |-> FALSE, quiet |-> FALSE]
      /\ Event(p).to # <<>> =>
             w = [step |-> "prefs", next |-> 1, saw |-> 0, push |-> FALSE, quiet |-> FALSE]
  <2>1. /\ Event(p).to = <<>> => w = [AtRest EXCEPT !.step = "commit"]
        /\ Event(p).to # <<>> => w = [AtRest EXCEPT !.step = "prefs"]
    OBVIOUS
  <2> HIDE DEF w
  <2>2. QED BY <2>1, TakesUp
<1>4. /\ w \in [step : {"idle", "prefs", "count", "bump", "create", "commit"},
                next : Nat, saw : Nat, push : BOOLEAN, quiet : BOOLEAN]
      /\ w.step \in {"prefs", "commit"} /\ w.next = 1
      /\ w.step = "commit" <=> Event(p).to = <<>>
  <2>1. CASE Event(p).to = <<>>
    <3>1. w = [step |-> "commit", next |-> 1, saw |-> 0, push |-> FALSE, quiet |-> FALSE]  BY <1>3, <2>1
    <3> HIDE DEF w
    <3>2. QED BY <2>1, <3>1
  <2>2. CASE Event(p).to # <<>>
    <3>1. w = [step |-> "prefs", next |-> 1, saw |-> 0, push |-> FALSE, quiet |-> FALSE]  BY <1>3, <2>2
    <3> HIDE DEF w
    <3>2. QED BY <2>2, <3>1
  <2>3. QED BY <2>1, <2>2
<1> HIDE DEF w
<1>5. position[p] \in 1..Len(Topic[p]) /\ Event(p).to \in Seq(Persons)
  <2>1. position[p] \in 1..Len(Topic[p]) /\ Topic[p] \in Seq(EventRecords)  BY <1>1, <1>2, WorkerTypes
  <2>2. Event(p) \in EventRecords  BY <2>1 DEF Event
  <2>3. QED BY <2>1, <2>2 DEF EventRecords
<1>6. NotesGrow  BY <1>1, <1>2, NoteTypes DEF NotesGrow
<1>7. WorkersFit' /\ EventsAreKept'
  <2>1. w.step \in Handling =>
              /\ w.next \in 1..Len(Event(p).to)
              /\ \A k \in 1..w.next - 1 : Noted(<<p, position[p], Event(p).to[k]>>)'
    BY <1>4, <1>5 DEF Handling
  <2>2. w.step = "commit" => \A k \in 1..Len(Event(p).to) : Noted(<<p, position[p], Event(p).to[k]>>)'
    BY <1>4
  <2>3. QED BY <1>1, <1>4, <1>5, <1>6, <2>1, <2>2, WorkersAfter
<1>8. GroupsArePast' /\ CountsFit' /\ GroupsAreAlone'  BY <1>1, <1>4, CalmAfter
<1>9. NoteTypeOK'  BY <1>1, <1>2, <1>4, WorkTypes DEF NoteTypeOK
<1>10. PhonesFit' /\ EditsFit'  BY <1>1, UsersStay
<1>11. QED BY <1>7, <1>8, <1>9, <1>10 DEF NoteInv

LEMMA GetPreferencesKeeps == ASSUME NoteInv, NEW p \in Parts, GetPreferences(p) PROVE NoteInv'
<1>1. /\ worker[p].step = "prefs"
      /\ UNCHANGED <<position, notes, pushes, failed, crossed, userVars, died, erred, left>>
  BY DEF GetPreferences
<1>2. NoteTypeOK /\ WorkersFit  BY DEF NoteInv
<1>3. worker[p].step \in Handling  BY <1>1 DEF Handling
<1>4. NotesGrow  BY <1>1, <1>2, NoteTypes DEF NotesGrow
<1>5. Name(p) \in Deliveries /\ Target(p) \in Persons /\ Event(p).group \in {"likes", "none"}
      /\ position[p] \in 1..Len(Topic[p]) /\ Event(p).to[worker[p].next] = Target(p)
  BY <1>1, <1>2, <1>3, WorkerTypes DEF Target
<1>6. CASE worker' = [worker EXCEPT ![p] = After(p)] /\ muted' = muted \cup {Name(p)}
  <2>1. WorkersFit' /\ EventsAreKept'  BY <1>1, <1>3, <1>4, <1>6, GoesOn
  <2>2. GroupsArePast' /\ CountsFit' /\ GroupsAreAlone'  BY <1>1, <1>3, <1>6, AfterFits, CalmAfter
  <2>3. NoteTypeOK'  BY <1>1, <1>2, <1>5, <1>6, <1>3, AfterFits, WorkTypes DEF NoteTypeOK
  <2>4. PhonesFit' /\ EditsFit'  BY <1>1, UsersStay
  <2>5. QED BY <2>1, <2>2, <2>3, <2>4 DEF NoteInv
<1>7. ASSUME NEW isQuiet \in BOOLEAN, muted' = muted,
             worker' = [worker EXCEPT ![p] = [worker[p] EXCEPT
                           !.step = IF Event(p).group = "none" THEN "create" ELSE "count",
                           !.push = prefs[Target(p)].push, !.quiet = isQuiet]]
      PROVE  NoteInv'
  <2> DEFINE w == [worker[p] EXCEPT !.step = IF Event(p).group = "none" THEN "create" ELSE "count",
                                    !.push = prefs[Target(p)].push, !.quiet = isQuiet]
  <2>1. prefs[Target(p)].push \in BOOLEAN  BY <1>2, <1>5 DEF NoteTypeOK, Preference
  <2>2. worker[p] \in [step : {"idle", "prefs", "count", "bump", "create", "commit"},
                       next : Nat, saw : Nat, push : BOOLEAN, quiet : BOOLEAN]
    BY <1>2, WorkerTypes
  <2>3. /\ w \in [step : {"idle", "prefs", "count", "bump", "create", "commit"},
                  next : Nat, saw : Nat, push : BOOLEAN, quiet : BOOLEAN]
        /\ w.next = worker[p].next /\ w.step \in {"create", "count"}
        /\ w.step = "create" <=> Event(p).group = "none"
    BY <2>1, <2>2
  <2>4. worker' = [worker EXCEPT ![p] = w]  BY <1>7
  <2> HIDE DEF w
  <2>5. WorkersFit' /\ EventsAreKept'
    BY <1>2, <1>3, <1>1, <1>7, <2>3, <1>4, <1>5, <2>4, WorkersAfter DEF WorkersFit, Noted, Event
  <2>6. GroupsArePast' /\ CountsFit' /\ GroupsAreAlone'  BY <1>1, <2>3, <2>4, CalmAfter
  <2>7. NoteTypeOK'
    <3>1. /\ failed' \subseteq Deliveries /\ muted' \subseteq Deliveries /\ crossed' \subseteq Persons
          /\ erred' \in BOOLEAN /\ notes' \in Seq(NoteRecords)
      BY <1>1, <1>2, <1>7 DEF NoteTypeOK
    <3>2. QED BY <1>1, <2>3, <2>4, <3>1, WorkTypes
  <2>8. PhonesFit' /\ EditsFit'  BY <1>1, UsersStay
  <2>9. QED BY <2>5, <2>6, <2>7, <2>8 DEF NoteInv
<1>8. prefs[Target(p)].quiet \in BOOLEAN  BY <1>2, <1>5 DEF NoteTypeOK, Preference
<1>9. CASE Event(p).group = "likes" /\ ~prefs[Target(p)].likes  BY <1>6, <1>9 DEF GetPreferences, Turns
<1>10. CASE ~(Event(p).group = "likes" /\ ~prefs[Target(p)].likes)
  BY <1>10, <1>8, <1>7 DEF GetPreferences, Turns
<1>11. QED BY <1>9, <1>10

LEMMA CommitEventKeeps == ASSUME NoteInv, NEW p \in Parts, CommitEvent(p) PROVE NoteInv'
<1>1. /\ worker[p].step = "commit" /\ position' = [position EXCEPT ![p] = position[p] + 1]
      /\ worker' = [worker EXCEPT ![p] = AtRest]
      /\ UNCHANGED <<notes, pushes, failed, muted, crossed, userVars, died, erred, left>>
  BY DEF CommitEvent, Turns
<1>2. NoteTypeOK /\ WorkersFit /\ EventsAreKept /\ GroupsArePast /\ CountsFit /\ GroupsAreAlone
  BY DEF NoteInv
<1>3. /\ position[p] \in 1..Len(Topic[p]) /\ Len(Topic[p]) \in Nat
      /\ \A k \in 1..Len(Event(p).to) : Noted(<<p, position[p], Event(p).to[k]>>)
  BY <1>1, <1>2, WorkerTypes DEF WorkersFit
<1>4. \A q \in Parts : q # p => position'[q] = position[q] /\ worker'[q] = worker[q]
  BY <1>1, <1>2 DEF NoteTypeOK
<1>5. worker'[p] = AtRest /\ AtRest.step = "idle"  BY <1>1, <1>2, WorkerTypes DEF AtRest
<1>6. position'[p] = position[p] + 1  BY <1>1, <1>2 DEF NoteTypeOK
<1>7. \A q \in Parts : position'[q] \in 1..Len(Topic[q]) + 1 /\ position'[q] >= position[q]
  <2> SUFFICES ASSUME NEW q \in Parts
      PROVE  position'[q] \in 1..Len(Topic[q]) + 1 /\ position'[q] >= position[q]
    OBVIOUS
  <2>1. position[q] \in Nat /\ position[q] >= 1 /\ position[q] <= Len(Topic[q]) + 1 /\ Len(Topic[q]) \in Nat
    BY <1>2, WorkerTypes DEF NoteTypeOK
  <2>2. CASE q # p  BY <2>1, <2>2, <1>4
  <2>3. CASE q = p  BY <2>1, <2>3, <1>3, <1>6
  <2>4. QED BY <2>2, <2>3
<1>8. WorkersFit'
  <2>1. \A d : Noted(d)' <=> Noted(d)  BY <1>1 DEF Noted
  <2>2. \A q \in Parts : q # p => Event(q)' = Event(q) /\ Target(q)' = Target(q)  BY <1>4 DEF Event, Target
  <2> SUFFICES ASSUME NEW q \in Parts
      PROVE  (/\ worker[q].step # "idle" => position[q] \in 1..Len(Topic[q])
              /\ worker[q].step \in Handling =>
                    /\ worker[q].next \in 1..Len(Event(q).to)
                    /\ \A k \in 1..worker[q].next - 1 : Noted(<<q, position[q], Event(q).to[k]>>)
              /\ worker[q].step \in {"count", "bump"} => Event(q).group = "likes"
              /\ worker[q].step = "bump" => GroupOf(Target(q), "likes") # {}
              /\ worker[q].step = "commit" =>
                    \A k \in 1..Len(Event(q).to) : Noted(<<q, position[q], Event(q).to[k]>>))'
    BY DEF WorkersFit
  <2>3. CASE q = p  BY <1>5, <2>3 DEF Handling
  <2>4. CASE q # p
    <3>1. \A k : Noted(<<q, position[q], Event(q).to[k]>>)' <=> Noted(<<q, position[q], Event(q).to[k]>>)
      BY <1>1, <1>4, <2>2, <2>4 DEF Noted
    <3>2. GroupOf(Target(q), "likes")' = GroupOf(Target(q), "likes")  BY <1>1, <2>2, <2>4 DEF GroupOf
    <3>3. /\ worker[q].step # "idle" => position[q] \in 1..Len(Topic[q])
          /\ worker[q].step \in Handling =>
                    /\ worker[q].next \in 1..Len(Event(q).to)
                    /\ \A k \in 1..worker[q].next - 1 : Noted(<<q, position[q], Event(q).to[k]>>)
          /\ worker[q].step \in {"count", "bump"} => Event(q).group = "likes"
          /\ worker[q].step = "bump" => GroupOf(Target(q), "likes") # {}
          /\ worker[q].step = "commit" =>
                    \A k \in 1..Len(Event(q).to) : Noted(<<q, position[q], Event(q).to[k]>>)
      BY <1>2 DEF WorkersFit
    <3>4. QED BY <1>4, <2>2, <2>4, <3>1, <3>2, <3>3
  <2>5. QED BY <2>3, <2>4
<1>9. EventsAreKept'
  <2> SUFFICES ASSUME NEW q \in Parts, NEW n \in 1..position'[q] - 1, NEW k \in 1..Len(Topic[q][n].to)
      PROVE  <<q, n, Topic[q][n].to[k]>> \in failed \cup muted
                 \/ \E i \in 1..Len(notes) : <<q, n, Topic[q][n].to[k]>> \in notes[i].of
    BY <1>1 DEF EventsAreKept
  <2>1. CASE n \in 1..position[q] - 1  BY <1>2, <2>1 DEF EventsAreKept
  <2>2. CASE n \notin 1..position[q] - 1
    <3>1. q = p /\ n = position[p]  BY <1>3, <1>4, <1>6, <2>2
    <3>2. Noted(<<p, position[p], Event(p).to[k]>>)  BY <1>3, <3>1 DEF Event
    <3>3. QED BY <3>1, <3>2 DEF Noted, Event
  <2>3. QED BY <2>1, <2>2
<1>10. CountsFit'  BY <1>1, <1>2 DEF CountsFit, Calm
<1>11. GroupsArePast'
  <2> SUFFICES ASSUME Calm, NEW i \in 1..Len(notes), notes[i].group = "likes", NEW d \in notes[i].of
      PROVE  \/ d[2] < position'[d[1]]
             \/ d[2] = position'[d[1]] /\ worker'[d[1]].step = "commit"
    BY <1>1 DEF GroupsArePast, Calm
  <2>1. d[1] \in Parts /\ d[2] \in Nat  BY <1>2, NoteTypes DEF Deliveries
  <2>2. \/ d[2] < position[d[1]]
        \/ d[2] = position[d[1]] /\ worker[d[1]].step = "commit"
    BY <1>2 DEF GroupsArePast
  <2>3. CASE d[1] # p  BY <2>1, <2>2, <2>3, <1>4
  <2>4. CASE d[1] = p  BY <2>1, <2>2, <2>4, <1>3, <1>6
  <2>5. QED BY <2>3, <2>4
<1>12. GroupsAreAlone'
  <2>1. \A u : GroupOf(u, "likes")' = GroupOf(u, "likes")  BY <1>1 DEF GroupOf
  <2>2. \A q \in Parts : q # p => Event(q)' = Event(q) /\ Target(q)' = Target(q)  BY <1>4 DEF Event, Target
  <2>3. \A u : Grouping(u)' \subseteq Grouping(u) /\ p \notin Grouping(u)'  BY <1>4, <1>5, <2>2 DEF Grouping
  <2>4. \A u : \A q \in Grouping(u)' : q \in Parts /\ q # p  BY <2>3 DEF Grouping
  <2> SUFFICES ASSUME Calm, NEW u \in Persons, u \notin crossed
      PROVE  (/\ \A q, r \in Grouping(u) : q = r
              /\ \A q \in Grouping(u) : worker[q].step = "create" => GroupOf(u, "likes") = {}
              /\ \A i, j \in GroupOf(u, "likes") : i = j)'
    BY <1>1 DEF GroupsAreAlone, Calm
  <2>5. /\ \A q, r \in Grouping(u) : q = r
        /\ \A q \in Grouping(u) : worker[q].step = "create" => GroupOf(u, "likes") = {}
        /\ \A i, j \in GroupOf(u, "likes") : i = j
    BY <1>2 DEF GroupsAreAlone
  <2>6. QED BY <1>4, <2>1, <2>3, <2>4, <2>5
<1>13. NoteTypeOK'  BY <1>1, <1>2, WorkerTypes, <1>3, <1>7 DEF AtRest, NoteTypeOK, userVars
<1>14. PhonesFit' /\ EditsFit'  BY <1>1, UsersStay
<1>15. QED BY <1>8, <1>9, <1>10, <1>11, <1>12, <1>13, <1>14 DEF NoteInv

\* The largest count of a group is one of its counts.
LEMMA MostIsOne ==
    ASSUME NoteTypeOK, NEW u
    PROVE  LET counts == {notes[i].count : i \in GroupOf(u, "likes")}
           IN counts # {} => Sums!Max(counts) \in counts /\ Sums!Max(counts) \in Nat \ {0}
<1> DEFINE counts == {notes[i].count : i \in GroupOf(u, "likes")}
           f == [i \in 1..Len(notes) |-> notes[i].count]
<1>1. SUFFICES ASSUME counts # {}
      PROVE  Sums!Max(counts) \in counts /\ Sums!Max(counts) \in Nat \ {0}
  OBVIOUS
<1>2. /\ Len(notes) \in Nat /\ f \in [1..Len(notes) -> Nat] /\ GroupOf(u, "likes") \subseteq 1..Len(notes)
      /\ \A i \in 1..Len(notes) : notes[i].count \in Nat \ {0}
  BY NoteTypes
<1>3. PICK b \in Nat : \A i \in 1..Len(notes) : f[i] <= b  BY <1>2, IsBounded
<1>4. counts \subseteq 0..b /\ \A c \in counts : c \in Nat \ {0}  BY <1>2, <1>3
<1> HIDE DEF counts
<1>5. \E x \in counts : \A y \in counts : x >= y  BY <1>1, <1>3, <1>4, HasLargest
<1>6. Sums!Max(counts) \in counts  BY <1>5 DEF Sums!Max
<1>7. QED BY <1>4, <1>6

LEMMA GetGroupCountKeeps == ASSUME NoteInv, NEW p \in Parts, GetGroupCount(p) PROVE NoteInv'
<1> DEFINE u == Target(p)
           counts == {notes[i].count : i \in GroupOf(u, "likes")}
           most == IF counts = {} THEN 0 ELSE Sums!Max(counts)
           w == [worker[p] EXCEPT !.step = IF most = 0 THEN "create" ELSE "bump", !.saw = most]
<1>1. /\ worker[p].step = "count" /\ worker' = [worker EXCEPT ![p] = w]
      /\ crossed' = crossed \cup (IF Grouping(u) # {} THEN {u} ELSE {})
      /\ UNCHANGED <<position, notes, pushes, failed, muted, userVars, died, erred, left>>
  BY DEF GetGroupCount, Turns
<1>2. NoteTypeOK /\ WorkersFit  BY DEF NoteInv
<1>3. worker[p].step \in Handling  BY <1>1 DEF Handling
<1>4. /\ Name(p) \in Deliveries /\ u \in Persons /\ position[p] \in 1..Len(Topic[p])
      /\ Event(p).to[worker[p].next] = u
  BY <1>1, <1>2, <1>3, WorkerTypes DEF Target
<1>5. most \in Nat /\ (most = 0 <=> counts = {})  BY <1>2, MostIsOne
<1>6. counts = {} <=> GroupOf(u, "likes") = {}  OBVIOUS
<1>7. worker[p] \in [step : {"idle", "prefs", "count", "bump", "create", "commit"},
                     next : Nat, saw : Nat, push : BOOLEAN, quiet : BOOLEAN]
  BY <1>2, WorkerTypes
<1> HIDE DEF counts, most, u
<1>8. /\ w \in [step : {"idle", "prefs", "count", "bump", "create", "commit"},
                next : Nat, saw : Nat, push : BOOLEAN, quiet : BOOLEAN]
      /\ w.next = worker[p].next /\ w.step \in {"create", "bump"}
      /\ w.step = "create" <=> most = 0
  <2>1. CASE most = 0
    <3>1. w = [worker[p] EXCEPT !.step = "create", !.saw = most]  BY <2>1
    <3> HIDE DEF w
    <3>2. QED BY <1>5, <1>7, <2>1, <3>1
  <2>2. CASE most # 0
    <3>1. w = [worker[p] EXCEPT !.step = "bump", !.saw = most]  BY <2>2
    <3> HIDE DEF w
    <3>2. w.step = "bump" /\ w.next = worker[p].next  BY <1>7, <3>1
    <3>3. w \in [step : {"idle", "prefs", "count", "bump", "create", "commit"},
                 next : Nat, saw : Nat, push : BOOLEAN, quiet : BOOLEAN]  BY <1>5, <1>7, <3>1
    <3>4. QED BY <2>2, <3>2, <3>3
  <2>3. QED BY <2>1, <2>2
<1> HIDE DEF w
<1>9. NotesGrow  BY <1>1, <1>2, NoteTypes DEF NotesGrow
<1>10. WorkersFit' /\ EventsAreKept'
  BY <1>1, <1>2, <1>3, <1>8, <1>4, <1>5, <1>6, <1>9, WorkersAfter DEF WorkersFit, Noted, Event
<1>11. GroupsArePast' /\ CountsFit' /\ GroupsAreAlone'  BY <1>1, <1>5, <1>6, <1>8, <1>4, CalmAfter
<1>12. NoteTypeOK'  BY <1>1, <1>2, <1>4, <1>8, WorkTypes DEF NoteTypeOK
<1>13. PhonesFit' /\ EditsFit'  BY <1>1, UsersStay
<1>14. QED BY <1>10, <1>11, <1>12, <1>13 DEF NoteInv

\* The goroutine is done with a user whose notification it wrote: the groups in hand are fewer.
LEMMA LeavesGroup ==
    ASSUME NoteInv, NEW p \in Parts, worker[p].step \in {"bump", "create"},
           worker' = [worker EXCEPT ![p] = After(p)], position' = position
    PROVE  /\ \A u : Grouping(u)' = Grouping(u) \ {p}
           /\ \A q \in Parts : q # p => worker'[q] = worker[q]
           /\ worker'[p] = After(p)
<1>1. worker'[p] = After(p) /\ \A q \in Parts : q # p => worker'[q] = worker[q]  BY WorkerTypes DEF NoteInv
<1>2. After(p).step \in {"prefs", "commit"}  BY AfterFits DEF Handling
<1>3. \A q \in Parts : q # p => Event(q)' = Event(q) /\ Target(q)' = Target(q)  BY <1>1 DEF Event, Target
<1>4. QED BY <1>1, <1>2, <1>3 DEF Grouping

LEMMA IncrementKeeps == ASSUME NoteInv, NEW p \in Parts, IncrementGroupCount(p) PROVE NoteInv'
<1>1. /\ worker[p].step = "bump" /\ notes' = Bumped(p) /\ worker' = [worker EXCEPT ![p] = After(p)]
      /\ pushes' = pushes \/ Pushes(p)
      /\ UNCHANGED <<position, failed, muted, crossed, userVars, died, erred, left>>
  BY DEF IncrementGroupCount, Turns
<1>2. NoteTypeOK /\ WorkersFit /\ GroupsArePast /\ CountsFit /\ GroupsAreAlone  BY DEF NoteInv
<1>3. worker[p].step \in Handling  BY <1>1 DEF Handling
<1>4. /\ Name(p) \in Deliveries /\ Target(p) \in Persons /\ position[p] \in 1..Len(Topic[p])
      /\ Event(p).group = "likes"
  BY <1>1, <1>2, <1>3, WorkerTypes DEF WorkersFit
<1>5. NotesGrow /\ notes' \in Seq(NoteRecords) /\ \E i \in 1..Len(notes') : Name(p) \in notes'[i].of
  BY <1>1, BumpedGrow
<1>6. WorkersFit' /\ EventsAreKept'  BY <1>1, <1>3, <1>5, GoesOn
<1>7. PICK i \in GroupOf(Target(p), "likes") :
          /\ i \in 1..Len(notes) /\ Len(notes') = Len(notes) /\ notes' \in Seq(NoteRecords)
          /\ notes'[i] = [notes[i] EXCEPT !.count = notes[i].count + 1, !.of = notes[i].of \cup {Name(p)}]
          /\ \A j \in 1..Len(notes) : j # i => notes'[j] = notes[j]
  BY <1>1, BumpedIs
<1>8. /\ notes[i] \in NoteRecords /\ Len(notes) \in Nat /\ notes[i].count \in Nat
      /\ notes'[i].of = notes[i].of \cup {Name(p)} /\ notes'[i].count = notes[i].count + 1
      /\ notes'[i].to = notes[i].to /\ notes'[i].group = notes[i].group
  BY <1>2, <1>7, NoteTypes DEF NoteRecords
<1>9. Name(p)[1] = p /\ Name(p)[2] = position[p]  BY DEF Name
<1>10. /\ \A u : Grouping(u)' = Grouping(u) \ {p}
       /\ \A q \in Parts : q # p => worker'[q] = worker[q]
       /\ worker'[p] = After(p) /\ After(p).step = "commit"
  BY <1>1, <1>3, <1>4, LeavesGroup, AfterFits
<1>11. Calm' = Calm  BY <1>1 DEF Calm
<1>12. CountsFit'
  <2> SUFFICES ASSUME Calm, NEW j \in 1..Len(notes)
      PROVE  IsFiniteSet(notes'[j].of) /\ notes'[j].count = Cardinality(notes'[j].of)
    BY <1>7, <1>11 DEF CountsFit
  <2>1. IsFiniteSet(notes[j].of) /\ notes[j].count = Cardinality(notes[j].of)  BY <1>2 DEF CountsFit
  <2>2. CASE j # i  BY <1>7, <2>1, <2>2
  <2>3. CASE j = i
    <3>1. notes[i].group = "likes"  BY <1>7 DEF GroupOf
    <3>2. Name(p) \notin notes[i].of
      <4>1. SUFFICES ASSUME Name(p) \in notes[i].of PROVE FALSE  OBVIOUS
      <4>2. \/ position[p] < position[p]
            \/ worker[p].step = "commit"
        BY <1>2, <1>7, <1>9, <3>1, <4>1 DEF GroupsArePast
      <4>3. position[p] \in Nat  BY <1>2 DEF NoteTypeOK
      <4>4. QED BY <1>1, <4>2, <4>3
    <3>3. /\ IsFiniteSet(notes[i].of \cup {Name(p)})
          /\ Cardinality(notes[i].of \cup {Name(p)}) = Cardinality(notes[i].of) + 1
      BY <2>1, <2>3, <3>2, FS_AddElement
    <3>4. QED BY <1>8, <2>1, <2>3, <3>3
  <2>4. QED BY <2>2, <2>3
<1>13. GroupsArePast'
  <2> SUFFICES ASSUME Calm, NEW j \in 1..Len(notes), notes'[j].group = "likes", NEW d \in notes'[j].of
      PROVE  \/ d[2] < position[d[1]]
             \/ d[2] = position[d[1]] /\ worker'[d[1]].step = "commit"
    BY <1>1, <1>7, <1>11 DEF GroupsArePast
  <2>1. CASE j = i /\ d = Name(p)  BY <1>9, <1>10, <2>1
  <2>2. CASE ~(j = i /\ d = Name(p))
    <3>1. d \in notes[j].of /\ notes[j].group = "likes"  BY <1>7, <1>8, <2>2
    <3>2. \/ d[2] < position[d[1]]
          \/ d[2] = position[d[1]] /\ worker[d[1]].step = "commit"
      BY <1>2, <3>1 DEF GroupsArePast
    <3>3. d[1] \in Parts  BY <1>2, <3>1, NoteTypes DEF Deliveries
    <3>4. QED BY <1>1, <1>10, <3>2, <3>3
  <2>3. QED BY <2>1, <2>2
<1>14. GroupsAreAlone'
  <2>1. \A j \in 1..Len(notes) : notes'[j].to = notes[j].to /\ notes'[j].group = notes[j].group  BY <1>7, <1>8
  <2>2. \A u : GroupOf(u, "likes")' = GroupOf(u, "likes")  BY <1>7, <2>1 DEF GroupOf
  <2>3. \A u : Grouping(u)' \subseteq Grouping(u) /\ \A q \in Grouping(u)' : worker'[q] = worker[q]
    BY <1>10 DEF Grouping
  <2> SUFFICES ASSUME Calm, NEW u \in Persons, u \notin crossed
      PROVE  (/\ \A q, r \in Grouping(u) : q = r
              /\ \A q \in Grouping(u) : worker[q].step = "create" => GroupOf(u, "likes") = {}
              /\ \A k, j \in GroupOf(u, "likes") : k = j)'
    BY <1>1, <1>11 DEF GroupsAreAlone
  <2>4. /\ \A q, r \in Grouping(u) : q = r
        /\ \A q \in Grouping(u) : worker[q].step = "create" => GroupOf(u, "likes") = {}
        /\ \A k, j \in GroupOf(u, "likes") : k = j
    BY <1>2 DEF GroupsAreAlone
  <2>5. QED BY <2>2, <2>3, <2>4
<1>15. NoteTypeOK'  BY <1>1, <1>2, <1>3, <1>4, <1>5, AfterFits, WorkTypes DEF NoteTypeOK
<1>16. PhonesFit' /\ EditsFit'  BY <1>1, PushedStay
<1>17. QED BY <1>6, <1>12, <1>13, <1>14, <1>15, <1>16 DEF NoteInv

LEMMA CreateKeeps == ASSUME NoteInv, NEW p \in Parts, CreateNotification(p) PROVE NoteInv'
<1>1. /\ worker[p].step = "create" /\ notes' = Append(notes, NewNote(p))
      /\ worker' = [worker EXCEPT ![p] = After(p)]
      /\ pushes' = pushes \/ Pushes(p)
      /\ UNCHANGED <<position, failed, muted, crossed, userVars, died, erred, left>>
  BY DEF CreateNotification, Turns, NewNote
<1>2. NoteTypeOK /\ WorkersFit /\ GroupsArePast /\ CountsFit /\ GroupsAreAlone  BY DEF NoteInv
<1>3. worker[p].step \in Handling  BY <1>1 DEF Handling
<1>4. Name(p) \in Deliveries /\ Target(p) \in Persons /\ position[p] \in 1..Len(Topic[p])
  BY <1>1, <1>2, <1>3, WorkerTypes
<1> DEFINE n == Len(notes) + 1
<1>5. /\ NotesGrow /\ notes' \in Seq(NoteRecords) /\ Len(notes') = n
      /\ notes'[n] = NewNote(p) /\ \A j \in 1..Len(notes) : notes'[j] = notes[j]
      /\ \E i \in 1..Len(notes') : Name(p) \in notes'[i].of
  BY <1>1, CreatedGrow
<1>6. WorkersFit' /\ EventsAreKept'  BY <1>1, <1>3, <1>5, GoesOn
<1>7. /\ Len(notes) \in Nat /\ notes'[n].of = {Name(p)} /\ notes'[n].count = 1
      /\ notes'[n].to = Target(p) /\ notes'[n].group = Event(p).group
  BY <1>2, <1>5, NoteTypes DEF NewNote
<1>8. Name(p)[1] = p /\ Name(p)[2] = position[p]  BY DEF Name
<1>9. /\ \A u : Grouping(u)' = Grouping(u) \ {p}
      /\ \A q \in Parts : q # p => worker'[q] = worker[q]
      /\ worker'[p] = After(p)
  BY <1>1, LeavesGroup
<1>10. Calm' = Calm  BY <1>1 DEF Calm
<1>11. \A j \in 1..Len(notes') : j \in 1..Len(notes) \/ j = n  BY <1>5, <1>7
<1>12. CountsFit'
  <2> SUFFICES ASSUME Calm, NEW j \in 1..Len(notes')
      PROVE  IsFiniteSet(notes'[j].of) /\ notes'[j].count = Cardinality(notes'[j].of)
    BY <1>10 DEF CountsFit
  <2>1. CASE j \in 1..Len(notes)  BY <1>2, <1>5, <2>1 DEF CountsFit
  <2>2. CASE j = n  BY <1>7, <2>2, FS_Singleton
  <2>3. QED BY <1>11, <2>1, <2>2
<1>13. GroupsArePast'
  <2> SUFFICES ASSUME Calm, NEW j \in 1..Len(notes'), notes'[j].group = "likes", NEW d \in notes'[j].of
      PROVE  \/ d[2] < position[d[1]]
             \/ d[2] = position[d[1]] /\ worker'[d[1]].step = "commit"
    BY <1>1, <1>10 DEF GroupsArePast
  <2>1. CASE j = n  BY <1>3, <1>7, <2>1, AfterFits, <1>8, <1>9
  <2>2. CASE j \in 1..Len(notes)  BY <1>5, <2>2, <1>2, NoteTypes, <1>1, <1>9 DEF GroupsArePast, Deliveries
  <2>3. QED BY <1>11, <2>1, <2>2
<1>14. GroupsAreAlone'
  <2>1. \A u : GroupOf(u, "likes")' =
                  GroupOf(u, "likes") \cup (IF Target(p) = u /\ Event(p).group = "likes" THEN {n} ELSE {})
    BY <1>5, <1>7 DEF GroupOf
  <2>2. \A u : \A q \in Grouping(u)' : worker'[q] = worker[q] /\ q \in Grouping(u) /\ q # p
    BY <1>9 DEF Grouping
  <2> SUFFICES ASSUME Calm, NEW u \in Persons, u \notin crossed
      PROVE  (/\ \A q, r \in Grouping(u) : q = r
              /\ \A q \in Grouping(u) : worker[q].step = "create" => GroupOf(u, "likes") = {}
              /\ \A k, j \in GroupOf(u, "likes") : k = j)'
    BY <1>1, <1>10 DEF GroupsAreAlone
  <2>3. /\ \A q, r \in Grouping(u) : q = r
        /\ \A q \in Grouping(u) : worker[q].step = "create" => GroupOf(u, "likes") = {}
        /\ \A k, j \in GroupOf(u, "likes") : k = j
    BY <1>2 DEF GroupsAreAlone
  <2>4. CASE Target(p) = u /\ Event(p).group = "likes"  BY <1>1, <2>4, <2>3, <2>2, <2>1 DEF Grouping
  <2>5. CASE ~(Target(p) = u /\ Event(p).group = "likes")  BY <2>1, <2>5, <2>2, <2>3
  <2>6. QED BY <2>4, <2>5
<1>15. NoteTypeOK'  BY <1>1, <1>2, <1>3, <1>4, <1>5, AfterFits, WorkTypes DEF NoteTypeOK
<1>16. PhonesFit' /\ EditsFit'  BY <1>1, PushedStay
<1>17. QED BY <1>6, <1>12, <1>13, <1>14, <1>15, <1>16 DEF NoteInv

\* After a failed call or a death nothing is said of the groups.
LEMMA NoLongerCalm ==
    ASSUME died' \/ erred'
    PROVE  GroupsArePast' /\ CountsFit' /\ GroupsAreAlone'
BY DEF GroupsArePast, CountsFit, GroupsAreAlone, Calm

LEMMA StatementFailsKeeps == ASSUME NoteInv, NEW p \in Parts, StatementFails(p) PROVE NoteInv'
<1>1. /\ worker[p].step \in {"prefs", "count", "bump", "create"} /\ erred' = TRUE
      /\ IF worker[p].step \in {"count", "bump"}
         THEN /\ worker' = [worker EXCEPT ![p] = [worker[p] EXCEPT !.step = "create"]]
              /\ failed' = failed
         ELSE /\ worker' = [worker EXCEPT ![p] = After(p)]
              /\ failed' = failed \cup {Name(p)}
      /\ notes' = notes \/ (worker[p].step = "bump" /\ notes' = Bumped(p))
      /\ UNCHANGED <<position, pushes, muted, crossed, userVars, died>>
  BY DEF StatementFails, Turns
<1>2. NoteTypeOK /\ WorkersFit  BY DEF NoteInv
<1>3. worker[p].step \in Handling  BY <1>1 DEF Handling
<1>4. Name(p) \in Deliveries /\ position[p] \in 1..Len(Topic[p])  BY <1>1, <1>2, <1>3, WorkerTypes
<1>5. NotesGrow /\ notes' \in Seq(NoteRecords)  BY <1>2, NoteTypes, <1>1, BumpedGrow DEF NotesGrow
<1>6. GroupsArePast' /\ CountsFit' /\ GroupsAreAlone'  BY <1>1, NoLongerCalm
<1>7. PhonesFit' /\ EditsFit'  BY <1>1, UsersStay
<1>8. /\ failed' \subseteq Deliveries /\ muted' \subseteq Deliveries /\ crossed' \subseteq Persons
      /\ failed \subseteq failed'
  BY <1>1, <1>2, <1>4 DEF NoteTypeOK
<1>9. CASE worker[p].step \in {"count", "bump"}
  <2> DEFINE w == [worker[p] EXCEPT !.step = "create"]
  <2>1. worker' = [worker EXCEPT ![p] = w]  BY <1>1, <1>9
  <2>2. worker[p] \in [step : {"idle", "prefs", "count", "bump", "create", "commit"},
                       next : Nat, saw : Nat, push : BOOLEAN, quiet : BOOLEAN]
    BY <1>2, WorkerTypes
  <2>3. /\ w \in [step : {"idle", "prefs", "count", "bump", "create", "commit"},
                  next : Nat, saw : Nat, push : BOOLEAN, quiet : BOOLEAN]
        /\ w.step = "create" /\ w.next = worker[p].next
    BY <2>2
  <2> HIDE DEF w
  <2>4. /\ worker[p].next \in 1..Len(Event(p).to)
        /\ \A k \in 1..worker[p].next - 1 : Noted(<<p, position[p], Event(p).to[k]>>)
    BY <1>2, <1>3 DEF WorkersFit
  <2>5. \A k : Noted(<<p, position[p], Event(p).to[k]>>) => Noted(<<p, position[p], Event(p).to[k]>>)'
    BY <1>1, <1>2, <1>5, <1>8, NotedStays DEF Noted, Event
  <2>6. w.step \in Handling =>
            /\ w.next \in 1..Len(Event(p).to)
            /\ \A k \in 1..w.next - 1 : Noted(<<p, position[p], Event(p).to[k]>>)'
    BY <2>3, <2>4, <2>5
  <2>7. WorkersFit' /\ EventsAreKept'  BY <1>1, <1>4, <1>5, <1>8, <2>1, <2>3, <2>6, WorkersAfter
  <2>8. NoteTypeOK'  BY <1>1, <1>5, <1>8, <2>1, <2>3, WorkTypes
  <2>9. QED BY <1>6, <1>7, <2>7, <2>8 DEF NoteInv
<1>10. CASE worker[p].step \notin {"count", "bump"}
  BY <1>1, <1>10, <1>3, <1>5, <1>8, GoesOn, AfterFits, WorkTypes, <1>6, <1>7 DEF NoteInv
<1>11. QED BY <1>9, <1>10

\* The process dies: what it had in hand is forgotten.
LEMMA DiesKeeps == ASSUME NoteInv, Dies PROVE NoteInv'
<1>1. /\ died' = TRUE /\ worker' = [p \in Parts |-> AtRest] /\ pushes' = {}
      /\ edit' = [e \in Edits |-> IF edit[e].step = "save" THEN [edit[e] EXCEPT !.step = "done"] ELSE edit[e]]
      /\ app' = [t \in Tokens |-> IF app[t].does = "nothing" THEN app[t] ELSE Fails(t)]
      /\ UNCHANGED <<position, notes, prefs, asked, editsMet, device, phone, firebase, strayed, failed,
                     muted, crossed, erred>>
  BY DEF Dies
<1>2. NoteTypeOK /\ EventsAreKept /\ PhonesFit  BY DEF NoteInv
<1>3. /\ AtRest \in [step : {"idle", "prefs", "count", "bump", "create", "commit"},
                     next : Nat, saw : Nat, push : BOOLEAN, quiet : BOOLEAN]
      /\ AtRest.step = "idle"
  BY DEF AtRest
<1>4. worker' \in [Parts -> [step : {"idle", "prefs", "count", "bump", "create", "commit"},
                             next : Nat, saw : Nat, push : BOOLEAN, quiet : BOOLEAN]]
  BY <1>1, <1>3
<1>5. edit' \in [Edits -> [step : {"new", "save", "done"}, wants : Preference]]  BY <1>2, <1>1 DEF NoteTypeOK
<1>a. app' \in [Tokens -> AppRecords] /\ \A t \in Tokens : RowFits(device[t], phone[t], app'[t])
  <2>1. app \in [Tokens -> AppRecords] /\ \A t \in Tokens : RowFits(device[t], phone[t], app[t])
    BY <1>2 DEF NoteTypeOK, AppRecords, PhonesFit
  <2>2. ASSUME NEW t \in Tokens PROVE Fails(t) \in AppRecords /\ RowFits(device[t], phone[t], Fails(t))
    <3>1. PICK a \in AppRecords : a = app[t]  BY <2>1
    <3>2. Fails(t) \in AppRecords /\ Fails(t).does = "nothing" /\ ~Fails(t).sure
      BY <3>1 DEF AppRecords, Fails
    <3>3. QED BY <3>2 DEF RowFits
  <2>3. QED BY <1>1, <2>1, <2>2
<1>6. NoteTypeOK'  BY <1>1, <1>2, <1>4, <1>5, <1>a DEF NoteTypeOK, AppRecords
<1>7. WorkersFit'  BY <1>1, <1>3 DEF WorkersFit, Handling
<1>8. EventsAreKept'  BY <1>1, <1>2 DEF EventsAreKept
<1>9. GroupsArePast' /\ CountsFit' /\ GroupsAreAlone'  BY <1>1, NoLongerCalm
<1>10. PhonesFit'  BY <1>1, <1>2, <1>a DEF PhonesFit
<1>11. EditsFit'
  <2>1. \A u : Saving(u)' = {}
    <3>1. \A e \in Edits : edit'[e].step # "save"  BY <1>1, <1>2 DEF NoteTypeOK
    <3>2. QED BY <3>1 DEF Saving
  <2>2. QED BY <1>1, <2>1 DEF EditsFit, NoteInv
<1>12. QED BY <1>6, <1>7, <1>8, <1>9, <1>10, <1>11 DEF NoteInv

--------
\* What touches neither goroutines nor events.

LEMMA EventsStay ==
    ASSUME NoteInv, UNCHANGED <<worker, position, failed, muted, crossed, died, erred>>, NotesAlike
    PROVE  WorkersFit' /\ EventsAreKept' /\ GroupsArePast' /\ CountsFit' /\ GroupsAreAlone'
<1>1. NoteTypeOK /\ WorkersFit /\ EventsAreKept  BY DEF NoteInv
<1>2. GroupsArePast' /\ CountsFit' /\ GroupsAreAlone'  BY CalmStays
<1>3. \A u : GroupOf(u, "likes")' = GroupOf(u, "likes")  BY <1>1, AlikeGrow
<1>4. \A d : Noted(d)' <=> Noted(d)  BY <1>1, NoteTypes DEF Noted, NotesAlike
<1>5. WorkersFit'  BY <1>3, <1>4, <1>1 DEF Target, Event, Noted, WorkersFit
<1>6. EventsAreKept'  BY <1>1, <1>4 DEF EventsAreKept, Noted
<1>7. QED BY <1>2, <1>5, <1>6

LEMMA SameNotesAlike ==
    ASSUME NoteInv, notes' = notes
    PROVE  NotesAlike
BY DEF NoteInv, NoteTypeOK, NotesAlike

\* A push goes on: what its devices' rows say is known to be true of the phones.
LEMMA PushKeeps ==
    ASSUME NoteInv, NEW s \in pushes, GetDevicesByUserID(s) \/ SendMulticast(s) \/ DeactivateDevice(s)
    PROVE  NoteInv'
<1>1. /\ UNCHANGED <<position, worker, notes, prefs, edit, asked, editsMet, phone, app, failed, muted,
                     crossed, died, erred, left>>
      /\ firebase' = firebase
  BY DEF GetDevicesByUserID, SendMulticast, DeactivateDevice, Others
<1>2. NoteTypeOK /\ PhonesFit  BY DEF NoteInv
<1>3. WorkersFit' /\ EventsAreKept' /\ GroupsArePast' /\ CountsFit' /\ GroupsAreAlone'
  BY <1>1, SameNotesAlike, EventsStay
<1>4. EditsFit'  BY <1>1 DEF NoteInv, EditsFit, Saving
<1> DEFINE PushRecords == [of : Deliveries, step : {"devices", "send", "deactivate"}, tokens : SUBSET Tokens,
                           moved : SUBSET Tokens]
<1>5. s \in PushRecords /\ pushes \subseteq PushRecords  BY <1>2 DEF NoteTypeOK
<1>6. /\ \A t \in Tokens : RowFits(device[t], phone[t], app[t])
      /\ \A r \in pushes : r.step = "send" => \A t \in r.tokens \ r.moved : phone[t] = r.of[3]
      /\ ~strayed
  BY <1>2 DEF PhonesFit
<1>7. device \in [Tokens -> [user : Persons \cup {"none"}, active : BOOLEAN]]  BY <1>2 DEF NoteTypeOK
<1>8. /\ device' \in [Tokens -> [user : Persons \cup {"none"}, active : BOOLEAN]]
      /\ \A t \in Tokens : RowFits(device'[t], phone[t], app[t])
      /\ pushes' \subseteq PushRecords
      /\ \A r \in pushes' : r.step = "send" => \A t \in r.tokens \ r.moved : phone[t] = r.of[3]
      /\ strayed' = FALSE
  <2>1. CASE GetDevicesByUserID(s)
    <3> DEFINE mine == {t \in Tokens : device[t] = [user |-> s.of[3], active |-> TRUE]}
               next == [s EXCEPT !.step = "send", !.tokens = mine, !.moved = {t \in Tokens : ~Settled(t)}]
    <3>1. /\ device' = device /\ strayed' = strayed
          /\ pushes' \subseteq pushes \cup {next}
      BY <2>1 DEF GetDevicesByUserID, Advances
    <3>2. /\ next \in PushRecords /\ next.tokens = mine /\ next.of = s.of
          /\ next.moved = {t \in Tokens : ~Settled(t)}
      BY <1>5
    <3>3. mine \subseteq Tokens /\ \A t \in mine : Settled(t) => phone[t] = s.of[3]  BY <1>6 DEF RowFits, Settled
    <3> HIDE DEF mine, next, PushRecords
    <3>4. pushes' \subseteq PushRecords  BY <1>5, <3>1, <3>2
    <3>5. \A r \in pushes' : r.step = "send" => \A t \in r.tokens \ r.moved : phone[t] = r.of[3]
      BY <1>6, <3>1, <3>2, <3>3
    <3>6. QED BY <1>6, <1>7, <3>1, <3>4, <3>5
  <2>2. CASE SendMulticast(s)
    <3>1. /\ s.step = "send" /\ device' = device
          /\ strayed' = (strayed \/ \E t \in s.tokens \ s.moved : phone[t] # s.of[3])
      BY <2>2 DEF SendMulticast
    <3>2. PICK invalid \in SUBSET s.tokens :
              pushes' \subseteq pushes \cup {[s EXCEPT !.step = "deactivate", !.tokens = invalid]}
      BY <2>2 DEF SendMulticast, Advances
    <3> DEFINE next == [s EXCEPT !.step = "deactivate", !.tokens = invalid]
    <3>3. next \in PushRecords /\ next.step = "deactivate"  BY <1>5
    <3>4. \A t \in s.tokens \ s.moved : phone[t] = s.of[3]  BY <1>6, <3>1
    <3>5. strayed' = FALSE  BY <1>6, <3>1, <3>4
    <3> HIDE DEF next, PushRecords
    <3>6. pushes' \subseteq pushes \cup {next}  BY <3>2 DEF next
    <3>7. QED BY <1>5, <1>6, <1>7, <3>1, <3>3, <3>5, <3>6
  <2>3. CASE DeactivateDevice(s)
    <3>1. /\ pushes' = pushes \ {s} /\ strayed' = strayed
          /\ device' = [t \in Tokens |-> IF t \in s.tokens /\ device[t].user # "none"
                                         THEN [device[t] EXCEPT !.active = FALSE] ELSE device[t]]
      BY <2>3 DEF DeactivateDevice
    <3>2. \A t \in Tokens : /\ device'[t] \in [user : Persons \cup {"none"}, active : BOOLEAN]
                            /\ device'[t].active => device'[t] = device[t]  BY <3>1, <1>7
    <3>3. device' \in [Tokens -> [user : Persons \cup {"none"}, active : BOOLEAN]]  BY <3>1, <3>2
    <3>4. \A t \in Tokens : RowFits(device'[t], phone[t], app[t])  BY <1>6, <3>2 DEF RowFits
    <3>5. QED BY <1>5, <1>6, <3>1, <3>3, <3>4
  <2>4. QED BY <2>1, <2>2, <2>3
<1>9. NoteTypeOK'  BY <1>1, <1>2, <1>8 DEF NoteTypeOK
<1>10. PhonesFit'  BY <1>1, <1>8 DEF PhonesFit
<1>11. QED BY <1>3, <1>4, <1>9, <1>10 DEF NoteInv

\* A phone changes hands.
LEMMA HandsKeeps ==
    ASSUME NoteInv, NEW t \in Tokens, SignOut(t) \/ \E u \in Persons : SignIn(t, u)
    PROVE  NoteInv'
<1>1. PICK v \in Persons \cup {"none"}, does \in {"save", "remove"} : Hands(t, v, does)
  BY DEF SignIn, SignOut
<1> DEFINE a == [does |-> does, user |-> IF does = "save" THEN v ELSE phone[t], sure |-> app[t].sure]
<1>2. /\ app[t].does = "nothing" /\ app' = [app EXCEPT ![t] = a]
      /\ phone' = [phone EXCEPT ![t] = v]
      /\ pushes' = {[s EXCEPT !.moved = s.moved \cup {t}] : s \in pushes}
      /\ UNCHANGED <<position, worker, notes, prefs, edit, asked, editsMet, device, firebase, strayed, failed,
                     muted, crossed, died, erred>>
  BY <1>1 DEF Hands
<1>3. NoteTypeOK /\ PhonesFit  BY DEF NoteInv
<1>4. WorkersFit' /\ EventsAreKept' /\ GroupsArePast' /\ CountsFit' /\ GroupsAreAlone'
  BY <1>2, SameNotesAlike, EventsStay
<1>5. EditsFit'  BY <1>2 DEF NoteInv, EditsFit, Saving
<1> DEFINE PushRecords == [of : Deliveries, step : {"devices", "send", "deactivate"}, tokens : SUBSET Tokens,
                           moved : SUBSET Tokens]
<1>6. pushes \subseteq PushRecords  BY <1>3 DEF NoteTypeOK
<1>7. app \in [Tokens -> AppRecords] /\ phone \in [Tokens -> Persons \cup {"none"}]
  BY <1>3 DEF NoteTypeOK, AppRecords
<1>8. a \in AppRecords /\ RowFits(device[t], v, a)
  BY <1>2, <1>3, <1>7 DEF AppRecords, PhonesFit, RowFits
<1>9. /\ phone' \in [Tokens -> Persons \cup {"none"}]
      /\ phone'[t] = v /\ \A q \in Tokens : q # t => phone'[q] = phone[q]
  BY <1>2, <1>7
<1>10. \A s \in pushes : LET r == [s EXCEPT !.moved = s.moved \cup {t}]
                         IN /\ r \in PushRecords /\ r.step = s.step /\ r.tokens = s.tokens /\ r.of = s.of
                            /\ r.moved = s.moved \cup {t}
  BY <1>6
<1>11. \A r \in pushes' : \E s \in pushes : /\ r \in PushRecords /\ r.step = s.step /\ r.tokens = s.tokens
                                           /\ r.of = s.of /\ r.moved = s.moved \cup {t}
  BY <1>2, <1>10
<1>12. \A r \in pushes' : r.step = "send" => \A q \in r.tokens \ r.moved : phone'[q] = r.of[3]
  BY <1>11, <1>6, <1>3, <1>9 DEF PhonesFit
<1> HIDE DEF a
<1>13. /\ app' \in [Tokens -> AppRecords]
       /\ \A q \in Tokens : RowFits(device'[q], phone'[q], app'[q])
  BY <1>2, <1>3, <1>7, <1>8, <1>9 DEF PhonesFit
<1>14. NoteTypeOK'
  <2>1. pushes' \subseteq PushRecords  BY <1>11
  <2>2. QED BY <1>2, <1>3, <1>9, <1>13, <2>1 DEF NoteTypeOK, AppRecords
<1>15. PhonesFit'  BY <1>2, <1>3, <1>12, <1>13 DEF PhonesFit
<1>16. QED BY <1>4, <1>5, <1>14, <1>15 DEF NoteInv

\* The app of a phone is answered, or its call fails.
LEMMA AppsKeep ==
    ASSUME NoteInv, NEW t \in Tokens, SaveDevice(t) \/ RemoveDevice(t) \/ DeviceCallFails(t)
    PROVE  NoteInv'
<1>1. UNCHANGED Elsewhere  BY DEF SaveDevice, RemoveDevice, DeviceCallFails
<1>2. UNCHANGED <<position, worker, notes, prefs, edit, asked, editsMet, phone, firebase, pushes, strayed,
                  failed, muted, crossed, died, erred>>
  BY <1>1 DEF Elsewhere
<1>3. NoteTypeOK /\ PhonesFit  BY DEF NoteInv
<1>4. /\ device \in [Tokens -> [user : Persons \cup {"none"}, active : BOOLEAN]]
      /\ app \in [Tokens -> AppRecords] /\ RowFits(device[t], phone[t], app[t])
  BY <1>3 DEF NoteTypeOK, AppRecords, PhonesFit
<1>5. \E a \in AppRecords, d \in [user : Persons \cup {"none"}, active : BOOLEAN] :
          app' = [app EXCEPT ![t] = a] /\ device' = [device EXCEPT ![t] = d] /\ RowFits(d, phone[t], a)
  <2>1. CASE SaveDevice(t)
    <3> DEFINE a == [does |-> "nothing", user |-> "none", sure |-> TRUE]
               d == [user |-> app[t].user, active |-> TRUE]
    <3>1. a \in AppRecords /\ d \in [user : Persons \cup {"none"}, active : BOOLEAN] /\ RowFits(d, phone[t], a)
      BY <1>4, <2>1 DEF AppRecords, RowFits, SaveDevice
    <3>2. QED BY <2>1, <3>1 DEF SaveDevice
  <2>2. CASE RemoveDevice(t)
    <3> DEFINE a == [app[t] EXCEPT !.does = "nothing"]
               d == IF device[t].user = app[t].user THEN [user |-> "none", active |-> FALSE] ELSE device[t]
    <3>1. a \in AppRecords /\ a.sure = app[t].sure /\ a.does = "nothing"  BY <1>4 DEF AppRecords
    <3>2. d \in [user : Persons \cup {"none"}, active : BOOLEAN] /\ ~(d.active /\ app[t].sure)
      BY <1>4, <2>2 DEF RowFits, RemoveDevice
    <3>3. RowFits(d, phone[t], a)  BY <3>1, <3>2 DEF RowFits
    <3>4. app' = [app EXCEPT ![t] = a] /\ device' = [device EXCEPT ![t] = d]  BY <2>2 DEF RemoveDevice
    <3>5. QED BY <3>1, <3>2, <3>3, <3>4
  <2>3. CASE DeviceCallFails(t)
    <3>1. Fails(t) \in AppRecords /\ RowFits(device[t], phone[t], Fails(t))
      BY <1>4 DEF AppRecords, RowFits, Fails
    <3>2. app' = [app EXCEPT ![t] = Fails(t)] /\ device' = [device EXCEPT ![t] = device[t]]
      BY <1>4, <2>3 DEF DeviceCallFails
    <3>3. device[t] \in [user : Persons \cup {"none"}, active : BOOLEAN]  BY <1>4
    <3>4. QED BY <3>1, <3>2, <3>3
  <2>4. QED BY <2>1, <2>2, <2>3
<1>6. /\ device' \in [Tokens -> [user : Persons \cup {"none"}, active : BOOLEAN]]
      /\ app' \in [Tokens -> AppRecords]
      /\ \A q \in Tokens : RowFits(device'[q], phone'[q], app'[q])
  BY <1>2, <1>3, <1>4, <1>5 DEF PhonesFit
<1>7. WorkersFit' /\ EventsAreKept' /\ GroupsArePast' /\ CountsFit' /\ GroupsAreAlone'
  BY <1>2, SameNotesAlike, EventsStay
<1>8. EditsFit'  BY <1>2 DEF NoteInv, EditsFit, Saving
<1>9. NoteTypeOK'  BY <1>2, <1>3, <1>6 DEF NoteTypeOK, AppRecords
<1>10. PhonesFit'  BY <1>2, <1>3, <1>6 DEF PhonesFit
<1>11. QED BY <1>7, <1>8, <1>9, <1>10 DEF NoteInv

--------
\* Edits of preferences: two of one user that do not meet write what was asked for.
LEMMA EditsLeave ==
    ASSUME NoteInv, UNCHANGED <<notes, Remaining>>
    PROVE  /\ WorkersFit' /\ EventsAreKept' /\ GroupsArePast' /\ CountsFit' /\ GroupsAreAlone'
           /\ PhonesFit'
<1>1. /\ UNCHANGED <<position, worker, notes, device, phone, app, firebase, pushes, strayed, failed, muted,
                     crossed, died, erred>>
  BY DEF Remaining
<1>2. WorkersFit' /\ EventsAreKept' /\ GroupsArePast' /\ CountsFit' /\ GroupsAreAlone'
  BY <1>1, SameNotesAlike, EventsStay
<1>3. PhonesFit'  BY <1>1 DEF NoteInv, PhonesFit
<1>4. QED BY <1>2, <1>3

LEMMA UpdatePreferencesKeeps == ASSUME NoteInv, NEW e \in Edits, UpdatePreferences(e) PROVE NoteInv'
<1> DEFINE u == Wish[e].user
           f == Wish[e].field
           wants == [prefs[u] EXCEPT ![f] = ~prefs[u][f]]
<1>1. /\ edit[e].step = "new"
      /\ edit' = [edit EXCEPT ![e] = [step |-> "save", wants |-> wants]]
      /\ editsMet' = editsMet \cup (IF Saving(u) # {} THEN {u} ELSE {})
      /\ UNCHANGED <<notes, prefs, asked, Remaining>>
  BY DEF UpdatePreferences
<1>2. NoteTypeOK /\ EditsFit  BY DEF NoteInv
<1>3. u \in Persons /\ f \in {"likes", "push", "quiet"}  BY NotificationAssumption
<1>4. edit \in [Edits -> [step : {"new", "save", "done"}, wants : Preference]] /\ prefs[u] \in Preference
  BY <1>2, <1>3 DEF NoteTypeOK
<1>5. wants \in Preference /\ \E x \in BOOLEAN : wants = [prefs[u] EXCEPT ![f] = x]
  <2>1. (~prefs[u][f]) \in BOOLEAN
    <3>1. \A x \in BOOLEAN : (~x) \in BOOLEAN  OBVIOUS
    <3>2. prefs[u][f] \in BOOLEAN  BY <1>3, <1>4 DEF Preference
    <3>3. QED BY <3>1, <3>2
  <2>2. \A x \in BOOLEAN : [prefs[u] EXCEPT ![f] = x] \in Preference  BY <1>3, <1>4 DEF Preference
  <2>3. QED BY <2>1, <2>2
<1>6. \A v : Wish[e].user = v <=> u = v  OBVIOUS
<1> HIDE DEF wants
<1>7. /\ edit' \in [Edits -> [step : {"new", "save", "done"}, wants : Preference]]
      /\ edit'[e].step = "save" /\ edit'[e].wants = wants
      /\ \A d \in Edits : d # e => edit'[d] = edit[d]
  BY <1>1, <1>4, <1>5
<1>8. \A v : Saving(v)' = Saving(v) \cup (IF v = u THEN {e} ELSE {})  BY <1>1, <1>6, <1>7 DEF Saving
<1>9. \A v : \A d \in Saving(v) : d \in Edits /\ d # e  BY <1>1 DEF Saving
<1>10. EditsFit'
  <2> SUFFICES ASSUME NEW v \in Persons, v \notin editsMet'
      PROVE  (/\ prefs[v] = asked[v]
              /\ \A d \in Saving(v) : \E x \in BOOLEAN : edit[d].wants = [prefs[v] EXCEPT ![Wish[d].field] = x]
              /\ \A d, g \in Saving(v) : d = g)'
    BY <1>1 DEF EditsFit
  <2>1. /\ prefs[v] = asked[v] /\ prefs' = prefs /\ asked' = asked
        /\ \A d \in Saving(v) : \E x \in BOOLEAN : edit[d].wants = [prefs[v] EXCEPT ![Wish[d].field] = x]
        /\ \A d, g \in Saving(v) : d = g
    BY <1>1, <1>2 DEF EditsFit
  <2>2. CASE v = u
    <3>1. Saving(v)' = {e}  BY <1>1, <1>8, <2>2
    <3>2. \E x \in BOOLEAN : edit'[e].wants = [prefs[v] EXCEPT ![Wish[e].field] = x]  BY <1>5, <1>7, <2>2
    <3>3. QED BY <2>1, <3>1, <3>2
  <2>3. CASE v # u  BY <1>7, <1>8, <1>9, <2>1, <2>3
  <2>4. QED BY <2>2, <2>3
<1>11. NoteTypeOK'  BY <1>1, <1>2, <1>3, <1>7 DEF NoteTypeOK, Remaining
<1>12. QED BY <1>1, <1>10, <1>11, EditsLeave DEF NoteInv

\* An edit is written, or given up.
LEMMA EditsEndKeeps ==
    ASSUME NoteInv, NEW e \in Edits, UpsertPreferences(e) \/ EditFails(e)
    PROVE  NoteInv'
<1> DEFINE u == Wish[e].user
           f == Wish[e].field
<1>1. edit' = [edit EXCEPT ![e].step = "done"] /\ UNCHANGED <<notes, editsMet, Remaining>>
  BY DEF UpsertPreferences, EditFails
<1>2. NoteTypeOK /\ EditsFit  BY DEF NoteInv
<1>3. u \in Persons /\ f \in {"likes", "push", "quiet"}  BY NotificationAssumption
<1>4. /\ edit \in [Edits -> [step : {"new", "save", "done"}, wants : Preference]]
      /\ prefs \in [Persons -> Preference] /\ asked \in [Persons -> Preference]
  BY <1>2 DEF NoteTypeOK
<1>5. /\ edit' \in [Edits -> [step : {"new", "save", "done"}, wants : Preference]]
      /\ edit'[e].step = "done" /\ \A d \in Edits : d # e => edit'[d] = edit[d]
  BY <1>1, <1>4
<1>6. \A v : Saving(v)' = Saving(v) \ {e}  BY <1>5 DEF Saving
<1>7. CASE EditFails(e)
  <2>1. prefs' = prefs /\ asked' = asked  BY <1>7 DEF EditFails
  <2>2. \A v : \A d \in Saving(v)' : d \in Saving(v) /\ edit'[d] = edit[d]  BY <1>5, <1>6 DEF Saving
  <2>3. EditsFit'  BY <1>1, <1>2, <2>1, <2>2 DEF EditsFit
  <2>4. NoteTypeOK'  BY <1>1, <1>2, <1>5, <2>1 DEF NoteTypeOK, Remaining
  <2>5. QED BY <1>1, <2>3, <2>4, EditsLeave DEF NoteInv
<1>8. CASE UpsertPreferences(e)
  <2> DEFINE wants == edit[e].wants
             ask == [asked[u] EXCEPT ![f] = wants[f]]
  <2>1. e \in Saving(u)  BY <1>8 DEF UpsertPreferences, Saving
  <2>2. prefs' = [prefs EXCEPT ![u] = wants] /\ asked' = [asked EXCEPT ![u] = ask]
    BY <1>8 DEF UpsertPreferences
  <2>3. wants \in Preference /\ prefs[u] \in Preference /\ asked[u] \in Preference  BY <1>3, <1>4
  <2>4. ask \in Preference  BY <1>3, <2>3 DEF Preference
  <2>5. u \notin editsMet => ask = wants
    <3> SUFFICES ASSUME u \notin editsMet PROVE ask = wants  OBVIOUS
    <3>1. PICK x \in BOOLEAN : wants = [asked[u] EXCEPT ![f] = x]  BY <1>2, <1>3, <2>1 DEF EditsFit
    <3>2. \A r \in Preference : \A w : w = [r EXCEPT ![f] = x] => [r EXCEPT ![f] = w[f]] = w
      BY <1>3 DEF Preference
    <3>3. QED BY <2>3, <3>1, <3>2
  <2> HIDE DEF wants, ask, u
  <2>6. /\ prefs' \in [Persons -> Preference] /\ prefs'[u] = wants
        /\ asked' \in [Persons -> Preference] /\ asked'[u] = ask
        /\ \A v \in Persons : v # u => prefs'[v] = prefs[v] /\ asked'[v] = asked[v]
    BY <1>3, <1>4, <2>2, <2>3, <2>4
  <2>7. EditsFit'
    <3> SUFFICES ASSUME NEW v \in Persons, v \notin editsMet
        PROVE  (/\ prefs[v] = asked[v]
                /\ \A d \in Saving(v) : \E x \in BOOLEAN : edit[d].wants = [prefs[v] EXCEPT ![Wish[d].field] = x]
                /\ \A d, g \in Saving(v) : d = g)'
      BY <1>1 DEF EditsFit
    <3>1. /\ prefs[v] = asked[v]
          /\ \A d \in Saving(v) : \E x \in BOOLEAN : edit[d].wants = [prefs[v] EXCEPT ![Wish[d].field] = x]
          /\ \A d, g \in Saving(v) : d = g
      BY <1>2 DEF EditsFit
    <3>2. CASE v = u
      <4>1. Saving(v)' = {}  BY <1>6, <2>1, <3>1, <3>2
      <4>2. QED BY <2>5, <2>6, <3>2, <4>1
    <3>3. CASE v # u
      <4>1. \A d \in Saving(v)' : d \in Saving(v) /\ edit'[d] = edit[d]  BY <1>5, <1>6 DEF Saving
      <4>2. QED BY <2>6, <3>1, <3>3, <4>1
    <3>4. QED BY <3>2, <3>3
  <2>8. NoteTypeOK'  BY <1>1, <1>2, <1>5, <2>6 DEF NoteTypeOK, Remaining
  <2>9. QED BY <1>1, <2>7, <2>8, EditsLeave DEF NoteInv
<1>9. QED BY <1>7, <1>8

\* What is read is marked as read.
LEMMA ReadKeeps ==
    ASSUME NoteInv, (\E i \in 1..Len(notes) : MarkAsRead(i)) \/ \E u \in Persons : MarkAllRead(u)
    PROVE  NoteInv'
<1>1. UNCHANGED <<prefs, edit, asked, editsMet, Remaining>>  BY DEF MarkAsRead, MarkAllRead
<1>2. NoteTypeOK  BY DEF NoteInv
<1>3. notes \in Seq(NoteRecords) /\ Len(notes) \in Nat /\ \A i \in 1..Len(notes) : notes[i] \in NoteRecords
  BY <1>2, NoteTypes
<1>4. \A w \in NoteRecords :
          LET r == [w EXCEPT !.read = TRUE]
          IN r \in NoteRecords /\ r.of = w.of /\ r.count = w.count /\ r.to = w.to /\ r.group = w.group
  BY DEF NoteRecords
<1>5. NotesAlike
  <2>1. ASSUME NEW i \in 1..Len(notes), MarkAsRead(i) PROVE NotesAlike
    <3> DEFINE r == [notes[i] EXCEPT !.read = TRUE]
    <3>1. notes' = [notes EXCEPT ![i] = r]  BY <2>1 DEF MarkAsRead
    <3>2. /\ r \in NoteRecords /\ r.of = notes[i].of /\ r.count = notes[i].count /\ r.to = notes[i].to
          /\ r.group = notes[i].group
      BY <1>3, <1>4
    <3> HIDE DEF r
    <3>3. QED BY <1>3, <3>1, <3>2 DEF NotesAlike
  <2>2. ASSUME NEW u \in Persons, MarkAllRead(u) PROVE NotesAlike
    BY <2>2, <1>3, <1>4 DEF MarkAllRead, NotesAlike
  <2>3. QED BY <2>1, <2>2
<1>6. WorkersFit' /\ EventsAreKept' /\ GroupsArePast' /\ CountsFit' /\ GroupsAreAlone'
  BY <1>1, <1>5, EventsStay DEF Remaining
<1>7. PhonesFit' /\ EditsFit'  BY <1>1 DEF NoteInv, PhonesFit, EditsFit, Saving, Remaining
<1>8. NoteTypeOK'  BY <1>1, <1>2, <1>5 DEF NoteTypeOK, Remaining, NotesAlike
<1>9. QED BY <1>6, <1>7, <1>8 DEF NoteInv

--------
\* Nothing has been consumed.
LEMMA NotesStart == NoteInit => NoteInv
<1> SUFFICES ASSUME NoteInit PROVE NoteInv  OBVIOUS
<1>1. /\ position = [p \in Parts |-> 1] /\ worker = [p \in Parts |-> AtRest] /\ notes = <<>>
      /\ prefs = [u \in Persons |-> Defaults] /\ asked = prefs /\ editsMet = {}
      /\ edit = [e \in Edits |-> [step |-> "new", wants |-> Defaults]]
      /\ pushes = {} /\ strayed = FALSE /\ failed = {} /\ muted = {} /\ crossed = {}
      /\ died = FALSE /\ erred = FALSE /\ firebase \in BOOLEAN
  BY DEF NoteInit
<1>2. /\ \E u \in Persons : device = [t \in Tokens |-> [user |-> u, active |-> TRUE]] /\ phone = [t \in Tokens |-> u]
      /\ app = [t \in Tokens |-> [does |-> "nothing", user |-> "none", sure |-> TRUE]]
  BY NotificationAssumption DEF NoteInit
<1>3. /\ AtRest \in [step : {"idle", "prefs", "count", "bump", "create", "commit"},
                     next : Nat, saw : Nat, push : BOOLEAN, quiet : BOOLEAN]
      /\ AtRest.step = "idle" /\ Defaults \in Preference
  BY DEF AtRest, Defaults, Preference
<1>4. NoteTypeOK
  <2>1. /\ position \in [Parts -> Nat \ {0}] /\ \A p \in Parts : position[p] <= Len(Topic[p]) + 1
    BY NotificationAssumption, <1>1
  <2>2. worker \in [Parts -> [step : {"idle", "prefs", "count", "bump", "create", "commit"},
                              next : Nat, saw : Nat, push : BOOLEAN, quiet : BOOLEAN]]
    BY <1>1, <1>3
  <2>3. /\ prefs \in [Persons -> Preference] /\ asked \in [Persons -> Preference]
        /\ edit \in [Edits -> [step : {"new", "save", "done"}, wants : Preference]]
    BY <1>1, <1>3
  <2>4. /\ device \in [Tokens -> [user : Persons \cup {"none"}, active : BOOLEAN]]
        /\ phone \in [Tokens -> Persons \cup {"none"}] /\ app \in [Tokens -> AppRecords]
    BY <1>2 DEF AppRecords
  <2>5. notes \in Seq(NoteRecords) /\ died \in BOOLEAN /\ erred \in BOOLEAN
    <3>1. notes \in Seq(NoteRecords)  BY <1>1
    <3>2. died \in BOOLEAN /\ erred \in BOOLEAN  BY <1>1, Zenon
    <3>3. QED BY <3>1, <3>2
  <2>6. {died, erred} \subseteq BOOLEAN  BY <2>5
  <2>7. QED BY <1>1, <2>1, <2>2, <2>3, <2>4, <2>5, <2>6 DEF NoteTypeOK, AppRecords
<1>5. \A p \in Parts : worker[p].step = "idle" /\ position[p] = 1  BY <1>1, <1>3
<1>6. Len(notes) = 0  BY <1>1
<1>7. WorkersFit /\ EventsAreKept  BY <1>5 DEF WorkersFit, EventsAreKept, Handling
<1>8. \A u : Grouping(u) = {} /\ GroupOf(u, "likes") = {}  BY <1>5, <1>6 DEF Grouping, GroupOf
<1>9. GroupsArePast /\ CountsFit /\ GroupsAreAlone  BY <1>6, <1>8 DEF GroupsArePast, CountsFit, GroupsAreAlone
<1>10. PhonesFit  BY <1>1, <1>2 DEF PhonesFit, RowFits
<1>11. EditsFit
  <2>1. \A u : Saving(u) = {}  BY <1>1 DEF Saving
  <2>2. QED BY <1>1, <2>1 DEF EditsFit
<1>12. QED BY <1>4, <1>7, <1>9, <1>10, <1>11 DEF NoteInv

\* Every step keeps the invariant.
LEMMA NotesStep == NoteInv /\ [NoteNext]_noteVars => NoteInv'
<1> SUFFICES ASSUME NoteInv, [NoteNext]_noteVars PROVE NoteInv'  OBVIOUS
<1>1. ASSUME NEW p \in Parts,
             \/ Consume(p) \/ GetPreferences(p) \/ GetGroupCount(p) \/ IncrementGroupCount(p)
             \/ CreateNotification(p) \/ StatementFails(p) \/ CommitEvent(p)
      PROVE  NoteInv'
  BY <1>1, ConsumeKeeps, GetPreferencesKeeps, GetGroupCountKeeps, IncrementKeeps, CreateKeeps,
     StatementFailsKeeps, CommitEventKeeps
<1>2. CASE Dies  BY <1>2, DiesKeeps
<1>3. ASSUME NEW s \in pushes, GetDevicesByUserID(s) \/ Panics(s) \/ SendMulticast(s) \/ DeactivateDevice(s)
      PROVE  NoteInv'
  BY <1>3, PushKeeps, DiesKeeps DEF Panics
<1>4. ASSUME NEW t \in Tokens,
             \/ \E u \in Persons : SignIn(t, u)
             \/ SignOut(t) \/ SaveDevice(t) \/ RemoveDevice(t) \/ DeviceCallFails(t)
      PROVE  NoteInv'
  BY <1>4, HandsKeeps, AppsKeep
<1>5. ASSUME NEW e \in Edits, UpdatePreferences(e) \/ UpsertPreferences(e) \/ EditFails(e) PROVE NoteInv'
  BY <1>5, UpdatePreferencesKeeps, EditsEndKeeps
<1>6. CASE (\E i \in 1..Len(notes) : MarkAsRead(i)) \/ \E u \in Persons : MarkAllRead(u)  BY <1>6, ReadKeeps
<1>7. CASE UNCHANGED noteVars
  <2>1. EditsFit'  BY <1>7 DEF noteVars, NoteInv, EditsFit, Saving
  <2>2. NoteTypeOK'  BY <1>7 DEF noteVars, NoteInv, NoteTypeOK
  <2>3. QED BY <1>7, <2>1, <2>2, EditsLeave DEF noteVars, Remaining, NoteInv
<1>8. QED BY <1>1, <1>2, <1>3, <1>4, <1>5, <1>6, <1>7 DEF NoteNext

\* The parts of the property from those of the invariant.
LEMMA NotesAnswer == NoteInv => NotificationsAreKept
<1> SUFFICES ASSUME NoteInv PROVE NotificationsAreKept  OBVIOUS
<1>1. /\ NoteTypeOK /\ EventsAreKept /\ CountsFit /\ GroupsAreAlone /\ PhonesFit /\ EditsFit  BY DEF NoteInv
<1>2. GroupsAddUp
  <2>1. \A u \in Persons : Calm /\ u \notin crossed => Cardinality(GroupOf(u, "likes")) <= 1
    <3> SUFFICES ASSUME NEW u \in Persons, Calm, u \notin crossed
        PROVE  Cardinality(GroupOf(u, "likes")) <= 1
      OBVIOUS
    <3>1. \A i, j \in GroupOf(u, "likes") : i = j  BY <1>1 DEF GroupsAreAlone
    <3>2. CASE GroupOf(u, "likes") = {}  BY <3>2, FS_EmptySet
    <3>3. CASE GroupOf(u, "likes") # {}
      <4>1. PICK i \in GroupOf(u, "likes") : TRUE  BY <3>3
      <4>2. GroupOf(u, "likes") = {i}  BY <3>1, <4>1
      <4>3. QED BY <4>2, FS_Singleton
    <3>4. QED BY <3>2, <3>3
  <2>2. QED BY <1>1, <2>1 DEF GroupsAddUp, CountsFit, Calm
<1>3. PreferencesStick  BY <1>1 DEF EditsFit, PreferencesStick
<1>4. QED BY <1>1, <1>2, <1>3 DEF NotificationsAreKept, PushesReachTheirUser, PhonesFit

\* Every variable of the notifications keeps its type.
THEOREM NoteTypesHold == NoteSpec => []NoteTypeOK
<1>1. NoteInv => NoteTypeOK  BY DEF NoteInv
<1>2. QED BY NotesStart, NotesStep, <1>1, PTL DEF NoteSpec

\* No event is committed that is in no notification of a user it is for, unless a call failed or
\* the user wanted none; counts are right while nothing fails; a push reaches its user, but for
\* phones that changed hands or whose registration was under way or had failed; and preferences
\* are what the edits that were written asked for, unless edits met.
THEOREM NotesAlwaysKept == NoteSpec => []NotificationsAreKept
BY NotesStart, NotesStep, NotesAnswer, PTL DEF NoteSpec

--------
\* Ads: what an auction shows and what a campaign spends.

AdRows == [daily : DailyBudgets, today : Nat, exhausted : BOOLEAN]
AdWorks == [step : AdSteps, todo : SUBSET Creatives, eligible : SUBSET Creatives, ad : Creatives \cup {NoAd},
            charge : Nat, row : AdRows, status : Campaigns, then : AdSteps]

\* What a request goes on to, and that only an auction has an ad and a charge.
AdShape(w) ==
    /\ w.step = "new" => w = Fresh
    /\ w.step \in {"cap", "uncount", "count", "spend", "mark"} => w.ad # NoAd
    /\ w.step \in {"verify", "adjust"} => w.ad = NoAd
    /\ w.ad = NoAd => w.charge = 0
    /\ w.step = "pause" => w.then \in {"ended", "save"}
    /\ w.step = "write" => w.then \in {"ended", "save", "adjust"}
    /\ w.step = "save" => w.then \in {"ended", "save", "pause"}
    /\ w.step \in {"pause", "write", "save"} => (w.then = "save" <=> w.ad # NoAd)

AdFormed == AdTypeOK /\ \A r \in AdRequests : AdShape(doing[r])

\* Ads on their way to being shown, and the steps on which they are chosen.
Filtering == {"filter", "cap", "uncount"}
Hopeful == {r \in At(Filtering) : doing[r].eligible # {}}

Exposed ==
    /\ Cardinality(At({"uncount"})) <= exposure
    /\ adFaults = 0 =>
          /\ Cardinality(Units(shown)) + Cardinality(Hopeful) <= CapPerDay
          /\ Cardinality(Units(shown)) + Cardinality(Hopeful) + Cardinality(At({"uncount"})) <= exposure

\* Auctions that ran alone: what was shown is seen, or about to be.
SeenOnce ==
    adFaults = 0 /\ ~together =>
        /\ \A r, s \in UnderWay : r = s
        /\ \A x \in Creatives : shown[x] <= 1
        /\ \A x \in Creatives : shown[x] # 0 =>
              x \in seen \/ \E r \in UnderWay : doing[r].ad = x /\ doing[r].step \notin Filtering
        /\ \A r \in At(Filtering) : \A x \in doing[r].eligible : shown[x] = 0
        /\ \A r \in At({"cap"}) : shown[doing[r].ad] = 0

\* What a request that meets nobody holds: w is the request, b the budget, c the status.
HeldAlone(w, b, c) ==
    /\ (w.step = "save" \/ (w.step \in {"pause", "write"} /\ w.then = "save")) => w.row.today = b.today + w.charge
    /\ w.step = "write" /\ w.status = "active" => ~b.exhausted
    /\ w.step = "write" /\ w.then = "save" => w.status = "paused"
    /\ w.step = "save" /\ w.row.exhausted => (c = "paused" \/ w.then = "pause")
Stops(w) == w.step = "pause" \/ (w.step = "write" /\ w.status = "paused")

Spent ==
    ~met /\ adFaults = 0 =>
        /\ \A r, s \in At(Holding) : r = s
        /\ counted = budget.today + Cardinality(Units(Owed))
        /\ \A r \in AdRequests : HeldAlone(doing[r], budget, campaign)
        /\ budget.exhausted /\ campaign = "active" => \E r \in AdRequests : Stops(doing[r])

AdInv == AdFormed /\ Exposed /\ SeenOnce /\ Spent

AdMove(r) ==
    \/ RunAuction(r) \/ (\E x \in Creatives : ExcludeAlreadySeen(r, x)) \/ FrequencyCapping(r)
    \/ Uncount(r) \/ Win(r) \/ IncrementImpressions(r) \/ AddSpend(r) \/ MarkAdSeen(r)
    \/ PauseCampaign(r) \/ UpdateStatus(r) \/ UpdateBudget(r) \/ ResumeCampaign(r) \/ VerifyBudget(r)
    \/ UpdateCampaign(r) \/ AdjustBudget(r) \/ BudgetPacing(r) \/ AdCallFails(r)

--------
\* The least budget is one of the budgets, and what a request starts as has its type.
LEMMA FreshTyped ==
    /\ NoRow \in AdRows /\ Fresh \in AdWorks /\ AdShape(Fresh)
    /\ Least(DailyBudgets) \in DailyBudgets
    /\ NoAd \notin Creatives /\ DailyBudgets \subseteq Nat
<1>1. Least(DailyBudgets) \in DailyBudgets  BY AdAssumption DEF AdAssumption, Least
<1>2. NoRow \in AdRows  BY <1>1 DEF NoRow, AdRows
<1>3. Fresh \in AdWorks  BY <1>2 DEF Fresh, AdWorks, AdSteps, Campaigns, NoAd
<1>4. AdShape(Fresh)  BY DEF AdShape, Fresh
<1>5. NoAd \notin Creatives /\ DailyBudgets \subseteq Nat  BY AdAssumption DEF AdAssumption, NoAd
<1> QED BY <1>1, <1>2, <1>3, <1>4, <1>5

AdTurn(r) ==
    /\ doing' = [doing EXCEPT ![r] = doing'[r]]
    /\ doing'[r] \in AdWorks /\ AdShape(doing'[r])

\* A request whose record is set to one that is well formed takes a turn.
LEMMA AdTurns ==
    ASSUME AdFormed, NEW r \in AdRequests, NEW v, v \in AdWorks, AdShape(v), doing' = [doing EXCEPT ![r] = v]
    PROVE  AdTurn(r) /\ doing'[r] = v
<1>1. doing'[r] = v  BY DEF AdFormed, AdTypeOK
<1> QED BY <1>1 DEF AdTurn

\* The record of a request is well formed.
LEMMA AdRecord ==
    ASSUME AdFormed, NEW r \in AdRequests
    PROVE  doing[r] \in AdWorks /\ AdShape(doing[r]) /\ budget \in AdRows /\ budget.today \in Nat
           /\ budget.exhausted \in BOOLEAN /\ budget.daily \in DailyBudgets
BY DEF AdFormed, AdTypeOK, AdWorks, AdRows

\* The charge of an auction is an amount.
LEMMA ChargeTyped ==
    ASSUME NEW mine \in OwnECPM, NEW next \in OtherECPM
    PROVE  Charge(mine, next) \in Nat
<1>1. mine \in Nat /\ next \in Nat /\ PricePremium \in Nat /\ MinBid \in Nat  BY AdAssumption DEF AdAssumption
<1> QED BY <1>1 DEF Charge

\* An auction starts with nothing eligible, or ends at once (RunAuction).
LEMMA RunAuctionTurn ==
    ASSUME AdFormed, NEW r \in AdRequests, RunAuction(r)
    PROVE  /\ AdTurn(r) /\ doing[r].step = "new" /\ doing[r].ad = NoAd
           /\ doing'[r].step \in {"filter", "ended"} /\ doing'[r].eligible = {}
<1> DEFINE v1 == [Fresh EXCEPT !.step = "filter", !.todo = Creatives]
           v2 == [Fresh EXCEPT !.step = "ended"]
<1>1. v1 \in AdWorks /\ v1.step = "filter" /\ v1.eligible = {} /\ v1.ad = NoAd /\ v1.charge = 0
  BY FreshTyped DEF AdWorks, Fresh, AdSteps
<1>2. v2 \in AdWorks /\ v2.step = "ended" /\ v2.eligible = {} /\ v2.ad = NoAd /\ v2.charge = 0
  BY FreshTyped DEF AdWorks, Fresh, AdSteps
<1>3. AdShape(v1) /\ AdShape(v2)  BY <1>1, <1>2 DEF AdShape
<1>4. \E v \in {v1, v2} : doing' = [doing EXCEPT ![r] = v]  BY DEF RunAuction, Does
<1>5. doing[r].step = "new" /\ doing[r].ad = NoAd  BY AdRecord DEF RunAuction, AdShape, Fresh
<1> HIDE DEF v1, v2
<1>6. PICK v \in {v1, v2} : doing' = [doing EXCEPT ![r] = v]  BY <1>4
<1>7. v \in AdWorks /\ AdShape(v) /\ v.step \in {"filter", "ended"} /\ v.eligible = {}  BY <1>1, <1>2, <1>3
<1>8. AdTurn(r) /\ doing'[r] = v  BY <1>6, <1>7, AdTurns
<1> QED BY <1>5, <1>7, <1>8

\* An ad is skipped, or goes to the cap (ExcludeAlreadySeen).
LEMMA ExcludeTurn ==
    ASSUME AdFormed, NEW r \in AdRequests, NEW x \in Creatives, ExcludeAlreadySeen(r, x)
    PROVE  /\ AdTurn(r) /\ doing[r].step = "filter" /\ doing'[r].step \in {"filter", "cap"}
           /\ doing'[r].eligible = doing[r].eligible /\ doing'[r].ad = x
           /\ adFaults' = 0 /\ x \in seen => doing'[r].step = "filter"
<1> DEFINE W(step) == [doing[r] EXCEPT !.todo = @ \ {x}, !.ad = x, !.step = step]
<1>1. doing[r] \in AdWorks /\ AdShape(doing[r]) /\ doing[r].step = "filter" /\ x # NoAd
  BY AdRecord, FreshTyped DEF ExcludeAlreadySeen
<1>2. \A step \in {"filter", "cap"} : /\ W(step) \in AdWorks /\ W(step).step = step /\ W(step).ad = x
                                      /\ W(step).eligible = doing[r].eligible
  BY <1>1 DEF AdWorks, AdSteps
<1>3. \A step \in {"filter", "cap"} : AdShape(W(step))  BY <1>1, <1>2 DEF AdShape
<1>4. \E step \in {"filter", "cap"} :
         doing' = [doing EXCEPT ![r] = W(step)] /\ (adFaults' = 0 /\ x \in seen => step = "filter")
  <2>1. CASE Does(r, W(IF x \in seen THEN "filter" ELSE "cap"))  BY <2>1 DEF Does
  <2>2. CASE Falters /\ Does(r, W("cap"))
    <3>1. adFaults' # 0  BY <2>2 DEF Falters, AdFormed, AdTypeOK
    <3> QED BY <2>2, <3>1 DEF Does
  <2> QED BY <2>1, <2>2 DEF ExcludeAlreadySeen
<1> HIDE DEF W
<1>5. PICK step \in {"filter", "cap"} :
         doing' = [doing EXCEPT ![r] = W(step)] /\ (adFaults' = 0 /\ x \in seen => step = "filter")
  BY <1>4
<1>6. AdTurn(r) /\ doing'[r] = W(step)  BY <1>2, <1>3, <1>5, AdTurns
<1> QED BY <1>1, <1>2, <1>5, <1>6

\* An ad is eligible under the cap, or its count is taken back (FrequencyCapping).
LEMMA FrequencyTurn ==
    ASSUME AdFormed, NEW r \in AdRequests, FrequencyCapping(r)
    PROVE  /\ AdTurn(r) /\ doing[r].step = "cap" /\ doing'[r].ad = doing[r].ad
           /\ \/ doing'[r].step = "filter" /\ doing'[r].eligible = doing[r].eligible \cup {doing[r].ad}
                 /\ (adFaults' = 0 => exposure' = exposure + 1 /\ exposure < CapPerDay)
                 /\ exposure' \in {exposure, exposure + 1}
              \/ doing'[r].step = "uncount" /\ doing'[r].eligible = doing[r].eligible /\ exposure' = exposure + 1
<1> DEFINE v1 == [doing[r] EXCEPT !.step = "filter", !.eligible = @ \cup {doing[r].ad}]
           v2 == [doing[r] EXCEPT !.step = "uncount"]
<1>1. doing[r] \in AdWorks /\ AdShape(doing[r]) /\ doing[r].step = "cap"  BY AdRecord DEF FrequencyCapping
<1>2. doing[r].ad \in Creatives /\ doing[r].ad # NoAd  BY <1>1 DEF AdShape, AdWorks
<1>3. /\ v1 \in AdWorks /\ v1.step = "filter" /\ v1.eligible = doing[r].eligible \cup {doing[r].ad}
      /\ v1.ad = doing[r].ad
  BY <1>1, <1>2 DEF AdWorks, AdSteps
<1>4. v2 \in AdWorks /\ v2.step = "uncount" /\ v2.eligible = doing[r].eligible /\ v2.ad = doing[r].ad
  BY <1>1 DEF AdWorks, AdSteps
<1>5. AdShape(v1) /\ AdShape(v2)  BY <1>2, <1>3, <1>4 DEF AdShape
<1>6. \/ doing' = [doing EXCEPT ![r] = v1] /\ exposure' = exposure + 1 /\ exposure < CapPerDay
      \/ doing' = [doing EXCEPT ![r] = v1] /\ exposure' = exposure /\ adFaults' # 0
      \/ doing' = [doing EXCEPT ![r] = v2] /\ exposure' = exposure + 1
  <2>1. CASE exposure' = exposure + 1 /\ Does(r, IF exposure < CapPerDay THEN v1 ELSE v2)  BY <2>1 DEF Does
  <2>2. CASE Falters /\ UNCHANGED exposure /\ Does(r, v1)
    <3>1. adFaults' # 0  BY <2>2 DEF Falters, AdFormed, AdTypeOK
    <3> QED BY <2>2, <3>1 DEF Does
  <2> QED BY <2>1, <2>2 DEF FrequencyCapping
<1> HIDE DEF v1, v2
<1>7. CASE doing' = [doing EXCEPT ![r] = v1]  BY <1>3, <1>5, <1>7, AdTurns, <1>1, <1>4, <1>6
<1>8. CASE doing' = [doing EXCEPT ![r] = v2] /\ exposure' = exposure + 1  BY <1>4, <1>5, <1>8, AdTurns, <1>1
<1> QED BY <1>6, <1>7, <1>8

\* The count is taken back (FrequencyCapping).
LEMMA UncountTurn ==
    ASSUME AdFormed, NEW r \in AdRequests, Uncount(r)
    PROVE  /\ AdTurn(r) /\ doing[r].step = "uncount" /\ doing'[r].step = "filter"
           /\ doing'[r].eligible = doing[r].eligible /\ doing'[r].ad = doing[r].ad
           /\ exposure' = exposure - 1 \/ (exposure' = exposure /\ adFaults' # 0)
<1> DEFINE v == [doing[r] EXCEPT !.step = "filter"]
<1>1. doing[r] \in AdWorks /\ AdShape(doing[r]) /\ doing[r].step = "uncount"  BY AdRecord DEF Uncount
<1>2. v \in AdWorks /\ v.step = "filter" /\ v.eligible = doing[r].eligible /\ v.ad = doing[r].ad
  BY <1>1 DEF AdWorks, AdSteps
<1>3. AdShape(v)  BY <1>1, <1>2 DEF AdShape
<1>4. doing' = [doing EXCEPT ![r] = v]  BY DEF Uncount, On, Does
<1>5. exposure' = exposure - 1 \/ (exposure' = exposure /\ adFaults' # 0)
  BY DEF Uncount, Falters, AdFormed, AdTypeOK
<1> HIDE DEF v
<1> QED BY <1>1, <1>2, <1>3, <1>4, <1>5, AdTurns

\* An eligible ad is shown, and the request goes on to count it; or no ad is (RunAuction).
LEMMA WinTurn ==
    ASSUME AdFormed, NEW r \in AdRequests, Win(r)
    PROVE  /\ AdTurn(r) /\ doing[r].step = "filter"
           /\ \/ /\ doing'[r].step = "count" /\ doing'[r].eligible = {}
                 /\ \E x \in doing[r].eligible : doing'[r].ad = x /\ shown' = [shown EXCEPT ![x] = @ + 1]
              \/ doing'[r].step = "ended" /\ shown' = shown
<1>1. doing[r] \in AdWorks /\ AdShape(doing[r]) /\ doing[r].step = "filter"  BY AdRecord DEF Win
<1>2. CASE On(r, "ended") /\ UNCHANGED shown
  <2> DEFINE v == [doing[r] EXCEPT !.step = "ended"]
  <2>1. v \in AdWorks /\ v.step = "ended" /\ v.ad = doing[r].ad /\ v.charge = doing[r].charge
    BY <1>1 DEF AdWorks, AdSteps
  <2>2. AdShape(v)  BY <1>1, <2>1 DEF AdShape
  <2>3. doing' = [doing EXCEPT ![r] = v]  BY <1>2 DEF On, Does
  <2> HIDE DEF v
  <2>4. AdTurn(r) /\ doing'[r] = v  BY <2>1, <2>2, <2>3, AdTurns
  <2> QED BY <1>1, <1>2, <2>1, <2>4
<1>3. CASE \E x \in doing[r].eligible : \E mine \in OwnECPM : \E next \in OtherECPM :
                /\ Does(r, [Fresh EXCEPT !.step = "count", !.ad = x, !.charge = Charge(mine, next)])
                /\ shown' = [shown EXCEPT ![x] = @ + 1]
  <2>1. PICK x \in doing[r].eligible, mine \in OwnECPM, next \in OtherECPM :
           /\ Does(r, [Fresh EXCEPT !.step = "count", !.ad = x, !.charge = Charge(mine, next)])
           /\ shown' = [shown EXCEPT ![x] = @ + 1]
    BY <1>3
  <2> DEFINE v == [Fresh EXCEPT !.step = "count", !.ad = x, !.charge = Charge(mine, next)]
  <2>2. x \in Creatives /\ x # NoAd /\ Charge(mine, next) \in Nat
    BY <1>1, FreshTyped, ChargeTyped DEF AdWorks
  <2>3. v \in AdWorks /\ v.step = "count" /\ v.ad = x /\ v.eligible = {}
    BY <2>2, FreshTyped DEF AdWorks, AdSteps, Fresh
  <2>4. AdShape(v)  BY <2>2, <2>3 DEF AdShape
  <2>5. doing' = [doing EXCEPT ![r] = v]  BY <2>1 DEF Does
  <2> HIDE DEF v
  <2>6. AdTurn(r) /\ doing'[r] = v  BY <2>3, <2>4, <2>5, AdTurns
  <2> QED BY <1>1, <2>1, <2>3, <2>6
<1> QED BY <1>2, <1>3 DEF Win

\* The winner is marked (MarkAdSeen).
LEMMA MarkTurn ==
    ASSUME AdFormed, NEW r \in AdRequests, MarkAdSeen(r)
    PROVE  /\ AdTurn(r) /\ doing[r].step = "mark" /\ doing'[r].step = "ended"
           /\ seen' = seen \cup {doing[r].ad} \/ (seen' = seen /\ adFaults' # 0)
           /\ doing[r].ad \in Creatives
<1> DEFINE v == [doing[r] EXCEPT !.step = "ended"]
<1>1. doing[r] \in AdWorks /\ AdShape(doing[r]) /\ doing[r].step = "mark"  BY AdRecord DEF MarkAdSeen
<1>2. v \in AdWorks /\ v.step = "ended" /\ v.ad = doing[r].ad /\ v.charge = doing[r].charge
  BY <1>1 DEF AdWorks, AdSteps
<1>3. AdShape(v)  BY <1>1, <1>2 DEF AdShape
<1>4. doing' = [doing EXCEPT ![r] = v]  BY DEF MarkAdSeen, On, Does
<1>5. seen' = seen \cup {doing[r].ad} \/ (seen' = seen /\ adFaults' # 0)
  BY DEF MarkAdSeen, Falters, AdFormed, AdTypeOK
<1>6. doing[r].ad \in Creatives  BY <1>1 DEF AdShape, AdWorks
<1> HIDE DEF v
<1> QED BY <1>1, <1>2, <1>3, <1>4, <1>5, <1>6, AdTurns

--------
OwedSteps == {"spend", "pause", "write", "save"}
OwedBy(w) == IF w.step \in OwedSteps THEN w.charge ELSE 0

\* What holds of a request that is alone with campaign and budget.
Alone(w, b, c) == HeldAlone(w, b, c) /\ (b.exhausted /\ c = "active" => Stops(w))

\* A request that counts, pays or manages goes on: what it is about stays, and an auction does not
\* end before its winner is marked.
PayTurn(r) ==
    /\ AdTurn(r)
    /\ doing'[r].eligible = doing[r].eligible /\ doing'[r].ad = doing[r].ad
    /\ doing'[r].charge = doing[r].charge
    /\ doing[r].step \notin Filtering \cup {"mark", "ended"}
    /\ doing'[r].step \notin Filtering \cup {"new", "count"}
    /\ doing[r].ad # NoAd => doing'[r].step # "ended"

\* Alone with campaign and budget, it stays right, and what it owes moves as the sums do.
Pays(r) ==
    adFaults' = 0 /\ Alone(doing[r], budget, campaign) =>
        /\ Alone(doing'[r], budget', campaign')
        /\ counted' + budget.today + OwedBy(doing[r]) = counted + budget'.today + OwedBy(doing'[r])

Amend(w, step, row, status, then) ==
    [w EXCEPT !.step = step, !.row = row, !.status = status, !.then = then]

\* A request with another step, row and status is of its type.
LEMMA AmendTyped ==
    ASSUME NEW w \in AdWorks, NEW step \in AdSteps, NEW row \in AdRows, NEW status \in Campaigns,
           NEW then \in AdSteps
    PROVE  LET v == Amend(w, step, row, status, then)
           IN /\ v \in AdWorks /\ v.step = step /\ v.row = row /\ v.status = status /\ v.then = then
              /\ v.eligible = w.eligible /\ v.ad = w.ad /\ v.charge = w.charge
BY DEF Amend, AdWorks

\* The parts of a request's record.
LEMMA AdParts ==
    ASSUME NEW w \in AdWorks
    PROVE  /\ w.step \in AdSteps /\ w.row \in AdRows /\ w.status \in Campaigns /\ w.then \in AdSteps
           /\ w.charge \in Nat /\ w.row.today \in Nat /\ w.row.exhausted \in BOOLEAN
           /\ w.ad \in Creatives \cup {NoAd} /\ w.eligible \subseteq Creatives
BY DEF AdWorks, AdRows

PayMove(r, step, row, status, then) ==
    /\ step \in AdSteps /\ row \in AdRows /\ status \in Campaigns /\ then \in AdSteps
    /\ doing' = [doing EXCEPT ![r] = Amend(doing[r], step, row, status, then)]
    /\ doing[r].step \notin Filtering \cup {"mark", "ended"} /\ step \notin Filtering \cup {"new", "count"}
    /\ AdShape(Amend(doing[r], step, row, status, then))
    /\ doing[r].ad # NoAd => step # "ended"

\* To show that a request goes on: what it is set to, and that an auction is not cut short.
LEMMA PayStep ==
    ASSUME AdFormed, NEW r \in AdRequests, NEW step, NEW row, NEW status, NEW then,
           PayMove(r, step, row, status, then)
    PROVE  /\ PayTurn(r) /\ doing'[r].step = step /\ doing'[r].row = row /\ doing'[r].status = status
           /\ doing'[r].then = then
<1> DEFINE v == Amend(doing[r], step, row, status, then)
<1>1. doing[r] \in AdWorks  BY AdRecord
<1>2. /\ v \in AdWorks /\ v.step = step /\ v.row = row /\ v.status = status /\ v.then = then
      /\ v.eligible = doing[r].eligible /\ v.ad = doing[r].ad /\ v.charge = doing[r].charge
  BY <1>1, AmendTyped DEF PayMove
<1>3. doing' = [doing EXCEPT ![r] = v] /\ AdShape(v)  BY DEF PayMove
<1> HIDE DEF v
<1>4. AdTurn(r) /\ doing'[r] = v  BY <1>2, <1>3, AdTurns
<1> QED BY <1>2, <1>4 DEF PayTurn, PayMove

\* An impression is counted (RecordImpression).
LEMMA IncrementTurn ==
    ASSUME AdFormed, NEW r \in AdRequests, IncrementImpressions(r)
    PROVE  /\ PayTurn(r) /\ doing[r].step = "count" /\ doing'[r].step = "spend"
           /\ counted' = counted + doing[r].charge \/ adFaults' # 0
<1>1. doing[r] \in AdWorks /\ AdShape(doing[r]) /\ doing[r].step = "count"
  BY AdRecord DEF IncrementImpressions
<1> DEFINE w == doing[r]
           v == Amend(w, "spend", w.row, w.status, w.then)
<1>2. "spend" \in AdSteps /\ w.row \in AdRows /\ w.status \in Campaigns /\ w.then \in AdSteps
  BY <1>1, AdParts DEF AdSteps
<1>3. doing' = [doing EXCEPT ![r] = v]  BY <1>1 DEF Amend, AdWorks, IncrementImpressions, On, Does
<1>4. v.step = "spend" /\ v.ad = w.ad /\ v.charge = w.charge  BY <1>1, <1>2, AmendTyped
<1>5. AdShape(v)
  <2> HIDE DEF v
  <2> QED BY <1>1, <1>4 DEF AdShape
<1>6. PayTurn(r) /\ doing'[r].step = "spend"
  <2>1. w.step \notin Filtering \cup {"mark", "ended"} /\ "spend" \notin Filtering \cup {"new", "count"}
    BY <1>1 DEF Filtering
  <2>9. PayMove(r, "spend", w.row, w.status, w.then)  BY <1>2, <1>3, <1>5, <2>1 DEF PayMove
  <2> QED BY <2>9, PayStep
<1>7. counted' = counted + doing[r].charge \/ adFaults' # 0
  BY DEF IncrementImpressions, Falters, AdFormed, AdTypeOK
<1> QED BY <1>1, <1>6, <1>7

\* The spend is read and raised, and the request pauses the campaign or writes the row; or the
\* budget was not there (RecordImpression).
LEMMA AddSpendTurn ==
    ASSUME AdFormed, NEW r \in AdRequests, AddSpend(r)
    PROVE  PayTurn(r) /\ Pays(r) /\ doing[r].step = "spend" /\ (adFaults' # 0 \/ Meets(r))
<1> DEFINE w == doing[r]
           today == budget.today + w.charge
           over == today >= MaxSpend(budget.daily)
           row == [budget EXCEPT !.today = today, !.exhausted = @ \/ over]
           step == IF over THEN "pause" ELSE "save"
           v == Amend(w, step, row, w.status, "save")
           u == Amend(w, "mark", w.row, w.status, w.then)
<1>1. w \in AdWorks /\ AdShape(w) /\ w.step = "spend" /\ budget \in AdRows /\ budget.today \in Nat
  BY AdRecord DEF AddSpend
<1>2. w.row \in AdRows /\ w.status \in Campaigns /\ w.then \in AdSteps /\ w.charge \in Nat /\ w.ad # NoAd
  BY <1>1, AdParts DEF AdShape
<1>3. /\ "mark" \in AdSteps /\ "save" \in AdSteps /\ step \in AdSteps /\ step \in {"pause", "save"}
      /\ w.step \notin Filtering \cup {"mark", "ended"}
      /\ step \notin Filtering \cup {"new", "count"} /\ "mark" \notin Filtering \cup {"new", "count"}
      /\ step # "ended"
  BY <1>1 DEF AdSteps, Filtering
<1>4. row \in AdRows /\ row.today = today /\ (~over => row.exhausted = budget.exhausted)
  <2>1. today \in Nat  BY <1>1, <1>2
  <2>2. (budget.exhausted \/ over) \in BOOLEAN  BY Zenon
  <2> HIDE DEF over, today
  <2>3. row \in AdRows /\ row.today = today  BY <1>1, <2>1, <2>2 DEF AdRows
  <2>4. ~over => row.exhausted = budget.exhausted  BY <1>1 DEF AdRows
  <2> QED BY <2>3, <2>4
<1>5. /\ v.step = step /\ v.ad = w.ad /\ v.charge = w.charge /\ v.then = "save"
      /\ u.step = "mark" /\ u.ad = w.ad /\ u.charge = w.charge
  <2> HIDE DEF w, row, step
  <2>1. v.step = step /\ v.ad = w.ad /\ v.charge = w.charge /\ v.then = "save"
    <3> HIDE DEF u
    <3>1. step \in AdSteps /\ row \in AdRows /\ w.status \in Campaigns /\ "save" \in AdSteps
      BY <1>2, <1>3, <1>4
    <3> QED BY <1>1, <3>1, AmendTyped
  <2>2. u.step = "mark" /\ u.ad = w.ad /\ u.charge = w.charge
    <3> HIDE DEF v
    <3>1. "mark" \in AdSteps /\ w.row \in AdRows /\ w.status \in Campaigns /\ w.then \in AdSteps
      BY <1>2, <1>3
    <3> QED BY <1>1, <3>1, AmendTyped
  <2> QED BY <2>1, <2>2
<1>6. AdShape(v) /\ AdShape(u)
  <2> HIDE DEF v, u, w, row, step
  <2> QED BY <1>1, <1>2, <1>3, <1>5 DEF AdShape
<1>7. CASE /\ Does(r, [w EXCEPT !.row = row, !.then = "save", !.step = step])
           /\ Meets(r) /\ Fine
  <2>1. v = [w EXCEPT !.row = row, !.then = "save", !.step = step]
    <3> HIDE DEF row, step
    <3> QED BY <1>1 DEF Amend, AdWorks
  <2>2. doing' = [doing EXCEPT ![r] = v]  BY <1>7, <2>1 DEF Does
  <2>3. PayTurn(r) /\ doing'[r].step = step /\ doing'[r].row = row /\ doing'[r].then = "save"
    <3> HIDE DEF row, step
    <3>9. PayMove(r, step, row, w.status, "save")  BY <1>2, <1>3, <1>4, <1>6, <2>2 DEF PayMove
    <3> QED BY <3>9, PayStep
  <2>4. campaign' = campaign /\ budget' = budget /\ counted' = counted  BY DEF AddSpend
  <2>5. Pays(r)
    <3> SUFFICES ASSUME Alone(doing[r], budget, campaign) PROVE
            /\ Alone(doing'[r], budget', campaign')
            /\ counted' + budget.today + OwedBy(doing[r]) = counted + budget'.today + OwedBy(doing'[r])
      BY DEF Pays
    <3>1. doing'[r].charge = w.charge /\ doing'[r].row.today = budget.today + w.charge
      BY <1>4, <2>3 DEF PayTurn
    <3>2. budget.exhausted /\ campaign = "active" => FALSE  BY <1>1 DEF Alone, Stops
    <3>3. campaign \in {"active", "paused"}  BY DEF AdFormed, AdTypeOK, Campaigns
    <3>4. ASSUME step = "pause" PROVE Alone(doing'[r], budget', campaign')
      <4>1. doing'[r].step = "pause" /\ doing'[r].row.today = budget'.today + doing'[r].charge
        BY <2>3, <2>4, <3>1, <3>4
      <4> HIDE DEF row, step, over, today
      <4>2. HeldAlone(doing'[r], budget', campaign') /\ Stops(doing'[r])  BY <4>1 DEF HeldAlone, Stops
      <4> QED BY <4>2 DEF Alone
    <3>5. ASSUME step = "save" PROVE Alone(doing'[r], budget', campaign')
      <4>1. ~over  BY <3>5
      <4>2. doing'[r].row.exhausted = budget.exhausted  BY <1>4, <2>3, <4>1
      <4>3. HeldAlone(doing'[r], budget', campaign')
        BY <1>1, <2>3, <2>4, <3>1, <3>2, <3>3, <3>5, <4>2 DEF HeldAlone
      <4> QED
        <5>1. budget'.exhausted /\ campaign' = "active" => FALSE  BY <2>4, <3>2
        <5> QED BY Zenon, <4>3, <5>1 DEF Alone
    <3>6. OwedBy(doing[r]) = OwedBy(doing'[r])  BY <1>1, <1>3, <2>3, <3>1 DEF OwedBy, OwedSteps
    <3>7. OwedBy(doing[r]) \in Nat /\ counted \in Nat  BY <1>2 DEF OwedBy, AdFormed, AdTypeOK
    <3>8. Alone(doing'[r], budget', campaign')  BY <1>3, <3>4, <3>5
    <3>9. counted' + budget.today + OwedBy(doing[r]) = counted + budget'.today + OwedBy(doing'[r])
      BY <1>1, <2>4, <3>6, <3>7
    <3> QED BY <3>8, <3>9
  <2> QED BY <1>1, <1>7, <2>3, <2>5
<1>8. CASE Falters /\ On(r, "mark")
  <2>1. u = [w EXCEPT !.step = "mark"]  BY <1>1 DEF Amend, AdWorks
  <2>2. doing' = [doing EXCEPT ![r] = u]  BY <1>8, <2>1 DEF Does, On
  <2>3. PayTurn(r)
    <3>1. "mark" # "ended"  OBVIOUS
    <3> HIDE DEF row, step
    <3>9. PayMove(r, "mark", w.row, w.status, w.then)  BY <1>2, <1>3, <1>6, <2>2, <3>1 DEF PayMove
    <3> QED BY <3>9, PayStep
  <2>4. adFaults' # 0  BY <1>8 DEF Falters, AdFormed, AdTypeOK
  <2> QED BY <1>1, <2>3, <2>4 DEF Pays
<1> QED BY <1>7, <1>8 DEF AddSpend

\* What is not active stays as it is; what is active is written paused (PauseCampaign).
LEMMA PauseTurn ==
    ASSUME AdFormed, NEW r \in AdRequests, PauseCampaign(r)
    PROVE  PayTurn(r) /\ Pays(r) /\ Meets(r)
<1> DEFINE w == doing[r]
           then == IF w.step = "new" THEN "ended" ELSE w.then
           v == Amend(w, "write", w.row, "paused", then)
           u == Amend(w, then, w.row, w.status, w.then)
<1>1. w \in AdWorks /\ AdShape(w) /\ w.step \in {"new", "pause"} /\ Meets(r)  BY AdRecord DEF PauseCampaign
<1>2. w.row \in AdRows /\ w.status \in Campaigns /\ w.then \in AdSteps /\ w.charge \in Nat  BY <1>1, AdParts
<1>3. /\ then \in {"ended", "save"} /\ (then = "save" <=> w.ad # NoAd)
      /\ then = "save" => w.step = "pause" /\ w.then = "save"  BY <1>1 DEF AdShape, Fresh
<1>4. /\ "write" \in AdSteps /\ then \in AdSteps /\ "paused" \in Campaigns
      /\ w.step \notin Filtering \cup {"mark", "ended"}
      /\ then \notin Filtering \cup {"new", "count"} /\ "write" \notin Filtering \cup {"new", "count"}
  BY <1>1, <1>3 DEF AdSteps, Filtering, Campaigns
<1> HIDE DEF then
<1>5. /\ v.step = "write" /\ v.ad = w.ad /\ v.charge = w.charge /\ v.then = then
      /\ u.step = then /\ u.ad = w.ad /\ u.charge = w.charge /\ u.then = w.then
  BY <1>1, <1>2, <1>4, AmendTyped
<1>6. AdShape(v) /\ AdShape(u)
  <2> HIDE DEF v, u, w
  <2> QED BY <1>1, <1>2, <1>3, <1>5 DEF AdShape
<1>7. budget' = budget /\ counted' = counted /\ campaign' = campaign /\ campaign \in {"active", "paused"}
  BY DEF PauseCampaign, AdFormed, AdTypeOK, Campaigns
<1>8. counted \in Nat /\ budget.today \in Nat /\ (w.ad = NoAd => w.charge = 0)
  BY <1>1, AdRecord DEF AdFormed, AdTypeOK, AdShape
<1>9. CASE campaign = "active"
  <2>1. v = [w EXCEPT !.step = "write", !.status = "paused", !.then = then]  BY <1>1 DEF Amend, AdWorks
  <2>2. doing' = [doing EXCEPT ![r] = v]  BY <1>9, <2>1 DEF PauseCampaign, Does, then
  <2>3. /\ PayTurn(r) /\ doing'[r].step = "write" /\ doing'[r].row = w.row /\ doing'[r].status = "paused"
        /\ doing'[r].then = then  BY <1>2, <1>4, <1>6, <2>2, PayStep DEF PayMove
  <2>4. doing'[r].charge = w.charge  BY <2>3 DEF PayTurn
  <2>5. Alone(w, budget, campaign) => Alone(doing'[r], budget', campaign')
    BY <1>1, <1>3, <1>7, <2>3, <2>4 DEF Alone, HeldAlone, Stops
  <2>6. OwedBy(w) = OwedBy(doing'[r]) /\ OwedBy(w) \in Nat
    BY <1>2, <2>3, <2>4, <1>1, <1>3, <1>8 DEF OwedBy, OwedSteps
  <2>7. Pays(r)  BY <1>7, <1>8, <2>5, <2>6 DEF Pays
  <2> QED BY <1>1, <2>3, <2>7
<1>10. CASE campaign # "active"
  <2>1. u = [w EXCEPT !.step = then]  BY <1>1 DEF Amend, AdWorks
  <2>2. doing' = [doing EXCEPT ![r] = u]  BY <1>10, <2>1 DEF PauseCampaign, Does, then
  <2>3. PayTurn(r) /\ doing'[r].step = then /\ doing'[r].row = w.row /\ doing'[r].then = w.then
    <3>9. PayMove(r, then, w.row, w.status, w.then)  BY <1>2, <1>3, <1>4, <1>6, <2>2 DEF PayMove
    <3> QED BY <3>9, PayStep
  <2>4. doing'[r].charge = w.charge  BY <2>3 DEF PayTurn
  <2>5. Alone(w, budget, campaign) => Alone(doing'[r], budget', campaign')
    BY <1>1, <1>3, <1>7, <1>10, <2>3, <2>4 DEF Alone, HeldAlone, Stops
  <2>6. OwedBy(w) = OwedBy(doing'[r]) /\ OwedBy(w) \in Nat
    BY <1>2, <1>3, <2>3, <2>4, <1>1, <1>8 DEF OwedBy, OwedSteps
  <2>7. Pays(r)  BY <1>7, <1>8, <2>5, <2>6 DEF Pays
  <2> QED BY <1>1, <2>3, <2>7
<1> QED BY <1>9, <1>10

\* The status is written, and the request goes on (PauseCampaign, ResumeCampaign, UpdateCampaign).
LEMMA StatusTurn ==
    ASSUME AdFormed, NEW r \in AdRequests, UpdateStatus(r)
    PROVE  PayTurn(r) /\ Pays(r) /\ doing[r].step = "write" /\ campaign' \in Campaigns
<1> DEFINE w == doing[r]
           v == Amend(w, w.then, w.row, w.status, w.then)
<1>1. w \in AdWorks /\ AdShape(w) /\ w.step = "write"  BY AdRecord DEF UpdateStatus
<1>2. w.row \in AdRows /\ w.status \in Campaigns /\ w.then \in AdSteps /\ w.charge \in Nat  BY <1>1, AdParts
<1>3. w.then \in {"ended", "save", "adjust"} /\ (w.then = "save" <=> w.ad # NoAd)
      /\ (w.ad = NoAd => w.charge = 0)
  BY <1>1 DEF AdShape
<1>4. v.step = w.then /\ v.ad = w.ad /\ v.charge = w.charge /\ v.then = w.then  BY <1>1, <1>2, AmendTyped
<1>5. AdShape(v)
  <2> HIDE DEF v, w
  <2> QED BY <1>1, <1>3, <1>4 DEF AdShape
<1>6. doing' = [doing EXCEPT ![r] = v]  BY <1>1 DEF Amend, AdWorks, UpdateStatus, On, Does
<1>7. PayTurn(r) /\ doing'[r].step = w.then /\ doing'[r].row = w.row /\ doing'[r].then = w.then
  <2>1. /\ w.step \notin Filtering \cup {"mark", "ended"} /\ w.then \notin Filtering \cup {"new", "count"}
        /\ w.ad # NoAd => w.then # "ended"
    BY <1>1, <1>3 DEF Filtering
  <2>9. PayMove(r, w.then, w.row, w.status, w.then)  BY <1>2, <1>5, <1>6, <2>1 DEF PayMove
  <2> QED BY <2>9, PayStep
<1>8. doing'[r].charge = w.charge  BY <1>7 DEF PayTurn
<1>9. budget' = budget /\ counted' = counted /\ campaign' = w.status /\ w.status \in {"active", "paused"}
  BY <1>2 DEF UpdateStatus, Campaigns
<1>10. Alone(w, budget, campaign) => Alone(doing'[r], budget', campaign')
  BY <1>1, <1>3, <1>7, <1>8, <1>9 DEF Alone, HeldAlone
<1>11. OwedBy(w) = OwedBy(doing'[r]) /\ OwedBy(w) \in Nat
  BY <1>1, <1>2, <1>3, <1>7, <1>8 DEF OwedBy, OwedSteps
<1>12. counted \in Nat /\ budget.today \in Nat  BY AdRecord DEF AdFormed, AdTypeOK
<1>13. Pays(r)  BY <1>9, <1>10, <1>11, <1>12 DEF Pays
<1> QED BY <1>1, <1>2, <1>7, <1>9, <1>13

\* The row is written as it was read and changed (RecordImpression, UpdateCampaign, BudgetPacing).
LEMMA BudgetTurn ==
    ASSUME AdFormed, NEW r \in AdRequests, UpdateBudget(r)
    PROVE  PayTurn(r) /\ Pays(r) /\ doing[r].step = "save" /\ budget' \in AdRows
<1> DEFINE w == doing[r]
           step == IF w.ad # NoAd THEN "mark" ELSE w.then
           v == Amend(w, step, w.row, w.status, "ended")
<1>1. w \in AdWorks /\ AdShape(w) /\ w.step = "save"  BY AdRecord DEF UpdateBudget
<1>2. w.row \in AdRows /\ w.status \in Campaigns /\ w.then \in AdSteps /\ w.charge \in Nat
      /\ w.row.today \in Nat
  BY <1>1, AdParts
<1>3. w.then \in {"ended", "save", "pause"} /\ (w.then = "save" <=> w.ad # NoAd)
      /\ (w.ad = NoAd => w.charge = 0)
  BY <1>1 DEF AdShape
<1>4. /\ w.ad # NoAd => step = "mark"
      /\ w.ad = NoAd => step = w.then /\ w.then \in {"ended", "pause"}
  BY <1>3
<1>5. step \in {"mark", "ended", "pause"} /\ step \in AdSteps /\ "ended" \in AdSteps  BY <1>4 DEF AdSteps
<1>6. doing' = [doing EXCEPT ![r] = v]
  <2> HIDE DEF step
  <2>1. v = [w EXCEPT !.then = "ended", !.step = step]  BY <1>1 DEF Amend, AdWorks
  <2> QED BY <2>1 DEF UpdateBudget, Does, step
<1> HIDE DEF step
<1>7. v.step = step /\ v.ad = w.ad /\ v.charge = w.charge /\ v.then = "ended"  BY <1>1, <1>2, <1>5, AmendTyped
<1>8. AdShape(v)
  <2> HIDE DEF v, w
  <2> QED BY <1>1, <1>3, <1>4, <1>5, <1>7 DEF AdShape
<1>9. PayTurn(r) /\ doing'[r].step = step /\ doing'[r].row = w.row /\ doing'[r].then = "ended"
  <2>1. /\ w.step \notin Filtering \cup {"mark", "ended"} /\ step \notin Filtering \cup {"new", "count"}
        /\ w.ad # NoAd => step # "ended"
    BY <1>1, <1>4, <1>5 DEF Filtering
  <2>9. PayMove(r, step, w.row, w.status, "ended")  BY <1>2, <1>5, <1>6, <1>8, <2>1 DEF PayMove
  <2> QED BY <2>9, PayStep
<1>10. doing'[r].charge = w.charge  BY <1>9 DEF PayTurn
<1>11. /\ budget' = w.row /\ counted' = counted /\ campaign' = campaign /\ campaign \in {"active", "paused"}
       /\ counted \in Nat /\ budget.today \in Nat
  BY AdRecord DEF UpdateBudget, AdFormed, AdTypeOK, Campaigns
<1>12. ASSUME Alone(w, budget, campaign)
       PROVE  /\ Alone(doing'[r], budget', campaign')
              /\ counted' + budget.today + OwedBy(w) = counted + budget'.today + OwedBy(doing'[r])
  <2>1. w.row.today = budget.today + w.charge  BY <1>1, <1>12 DEF Alone, HeldAlone
  <2>2. w.row.exhausted => campaign = "paused" \/ w.then = "pause"  BY <1>1, <1>12 DEF Alone, HeldAlone
  <2>3. HeldAlone(doing'[r], budget', campaign')  BY <1>5, <1>9 DEF HeldAlone
  <2>4. w.then = "pause" => Stops(doing'[r])  BY <1>3, <1>4, <1>9 DEF Stops
  <2>5. budget'.exhausted /\ campaign' = "active" => Stops(doing'[r])  BY <1>11, <2>2, <2>4
  <2>6. OwedBy(doing'[r]) = 0  BY <1>3, <1>4, <1>5, <1>9, <1>10 DEF OwedBy, OwedSteps
  <2>7. OwedBy(w) = w.charge  BY <1>1 DEF OwedBy, OwedSteps
  <2>8. Alone(doing'[r], budget', campaign')  BY <2>3, <2>5 DEF Alone
  <2>9. counted' + budget.today + OwedBy(w) = counted + budget'.today + OwedBy(doing'[r])
    BY <1>2, <1>11, <2>1, <2>6, <2>7
  <2> QED BY <2>8, <2>9
<1>13. Pays(r)  BY <1>12 DEF Pays
<1> QED BY <1>1, <1>2, <1>9, <1>11, <1>13

\* A paused campaign is read to be resumed (ResumeCampaign).
LEMMA ResumeTurn ==
    ASSUME AdFormed, NEW r \in AdRequests, ResumeCampaign(r)
    PROVE  PayTurn(r) /\ Pays(r) /\ Meets(r)
<1> DEFINE w == doing[r]
           v == Amend(w, "verify", w.row, w.status, w.then)
<1>1. w \in AdWorks /\ AdShape(w) /\ w.step = "new" /\ w.ad = NoAd /\ Meets(r)
  <2>1. w.step = "new" /\ Meets(r)  BY DEF ResumeCampaign
  <2>2. w \in AdWorks /\ AdShape(w)  BY AdRecord
  <2> QED BY <2>1, <2>2 DEF AdShape, Fresh
<1>2. w.row \in AdRows /\ w.status \in Campaigns /\ w.then \in AdSteps /\ "verify" \in AdSteps
  BY <1>1, AdParts DEF AdSteps
<1>3. v.step = "verify" /\ v.ad = w.ad /\ v.charge = w.charge  BY <1>1, <1>2, AmendTyped
<1>4. AdShape(v)
  <2> HIDE DEF v, w
  <2> QED BY <1>1, <1>3 DEF AdShape
<1>5. doing' = [doing EXCEPT ![r] = v]  BY <1>1 DEF Amend, AdWorks, ResumeCampaign, On, Does
<1>6. PayTurn(r) /\ doing'[r].step = "verify"
  <2>1. w.step \notin Filtering \cup {"mark", "ended"} /\ "verify" \notin Filtering \cup {"new", "count"}
    BY <1>1 DEF Filtering
  <2>9. PayMove(r, "verify", w.row, w.status, w.then)  BY <1>1, <1>2, <1>4, <1>5, <2>1 DEF PayMove
  <2> QED BY <2>9, PayStep
<1>7. budget' = budget /\ counted' = counted /\ campaign' = campaign /\ counted \in Nat /\ budget.today \in Nat
  BY AdRecord DEF ResumeCampaign, AdFormed, AdTypeOK
<1>8. OwedBy(w) = 0 /\ OwedBy(doing'[r]) = 0  BY <1>1, <1>6 DEF OwedBy, OwedSteps
<1>9. Alone(w, budget, campaign) => Alone(doing'[r], budget', campaign')
  BY <1>1, <1>6, <1>7 DEF Alone, HeldAlone, Stops
<1>10. Pays(r)  BY <1>7, <1>8, <1>9 DEF Pays
<1> QED BY <1>1, <1>6, <1>10

\* A campaign whose budget is exhausted is not resumed, unless the row was not there (ResumeCampaign).
LEMMA VerifyTurn ==
    ASSUME AdFormed, NEW r \in AdRequests, VerifyBudget(r)
    PROVE  PayTurn(r) /\ Pays(r) /\ Meets(r)
<1> DEFINE w == doing[r]
           v == Amend(w, "write", w.row, "active", "ended")
           u == Amend(w, "ended", w.row, "active", "ended")
<1>1. w \in AdWorks /\ AdShape(w) /\ w.step = "verify" /\ w.ad = NoAd /\ Meets(r)
  BY AdRecord DEF VerifyBudget, AdShape
<1>2. /\ w.row \in AdRows /\ w.status \in Campaigns /\ "active" \in Campaigns
      /\ "write" \in AdSteps /\ "ended" \in AdSteps
  BY <1>1, AdParts DEF AdSteps, Campaigns
<1>3. v.step = "write" /\ v.ad = w.ad /\ v.charge = w.charge /\ v.then = "ended"  BY <1>1, <1>2, AmendTyped
<1>4. u.step = "ended" /\ u.ad = w.ad /\ u.charge = w.charge  BY <1>1, <1>2, AmendTyped
<1>5. AdShape(v) /\ AdShape(u)
  <2> HIDE DEF v, u, w
  <2> QED BY <1>1, <1>3, <1>4 DEF AdShape
<1>6. \/ doing' = [doing EXCEPT ![r] = v] /\ (adFaults' # 0 \/ ~budget.exhausted)
      \/ doing' = [doing EXCEPT ![r] = u]
  <2> DEFINE resumed == [w EXCEPT !.step = "write", !.status = "active", !.then = "ended"]
  <2>1. v = resumed /\ u = [resumed EXCEPT !.step = "ended"]  BY <1>1 DEF Amend, AdWorks
  <2>2. CASE Does(r, IF budget.exhausted THEN [resumed EXCEPT !.step = "ended"] ELSE resumed)
    BY <2>1, <2>2 DEF Does
  <2>3. CASE Falters /\ Does(r, resumed)
    <3>1. adFaults' # 0  BY <2>3 DEF Falters, AdFormed, AdTypeOK
    <3> QED BY <2>1, <2>3, <3>1 DEF Does
  <2> QED BY <2>2, <2>3 DEF VerifyBudget
<1>7. w.step \notin Filtering \cup {"mark", "ended"}
      /\ "write" \notin Filtering \cup {"new", "count"} /\ "ended" \notin Filtering \cup {"new", "count"}
  BY <1>1 DEF Filtering
<1>8. budget' = budget /\ counted' = counted /\ campaign' = campaign /\ counted \in Nat /\ budget.today \in Nat
  BY AdRecord DEF VerifyBudget, AdFormed, AdTypeOK
<1>9. OwedBy(w) = 0 /\ w.charge = 0  BY <1>1 DEF OwedBy, OwedSteps, AdShape
<1>10. CASE doing' = [doing EXCEPT ![r] = v] /\ (adFaults' # 0 \/ ~budget.exhausted)
  <2>1. PayTurn(r) /\ doing'[r].step = "write" /\ doing'[r].status = "active" /\ doing'[r].then = "ended"
    <3>1. doing' = [doing EXCEPT ![r] = v] /\ AdShape(v)  BY <1>5, <1>10
    <3>2. w.step \notin Filtering \cup {"mark", "ended"} /\ "write" \notin Filtering \cup {"new", "count"}
      BY <1>7
    <3>3. w.ad # NoAd => "write" # "ended"  OBVIOUS
    <3>4. w.row \in AdRows /\ "active" \in Campaigns /\ "write" \in AdSteps /\ "ended" \in AdSteps  BY <1>2
    <3>9. PayMove(r, "write", w.row, "active", "ended")  BY <3>1, <3>2, <3>3, <3>4 DEF PayMove
    <3> QED BY <3>9, PayStep
  <2>2. OwedBy(doing'[r]) = 0  BY <1>9, <2>1 DEF OwedBy, OwedSteps, PayTurn
  <2>3. ~budget.exhausted => Alone(doing'[r], budget', campaign')  BY <1>8, <2>1 DEF Alone, HeldAlone
  <2>4. Pays(r)  BY <1>8, <1>9, <1>10, <2>2, <2>3 DEF Pays
  <2> QED BY <1>1, <2>1, <2>4
<1>11. CASE doing' = [doing EXCEPT ![r] = u]
  <2>1. PayTurn(r) /\ doing'[r].step = "ended"  BY <1>1, <1>2, <1>5, <1>7, <1>11, PayStep DEF PayMove
  <2>2. OwedBy(doing'[r]) = 0  BY <2>1 DEF OwedBy, OwedSteps
  <2>3. Alone(w, budget, campaign) => Alone(doing'[r], budget', campaign')
    BY <1>1, <1>8, <2>1 DEF Alone, HeldAlone, Stops
  <2>4. Pays(r)  BY <1>8, <1>9, <2>2, <2>3 DEF Pays
  <2> QED BY <1>1, <2>1, <2>4
<1> QED BY <1>6, <1>10, <1>11

\* The campaign is read and will be written as it was (UpdateCampaign).
LEMMA UpdateTurn ==
    ASSUME AdFormed, NEW r \in AdRequests, UpdateCampaign(r)
    PROVE  PayTurn(r) /\ Pays(r) /\ Meets(r)
<1> DEFINE w == doing[r]
           v == Amend(w, "write", w.row, campaign, "adjust")
<1>1. w \in AdWorks /\ AdShape(w) /\ w.step = "new" /\ w.ad = NoAd /\ Meets(r)
  <2>1. w.step = "new" /\ Meets(r)  BY DEF UpdateCampaign
  <2>2. w \in AdWorks /\ AdShape(w)  BY AdRecord
  <2> QED BY <2>1, <2>2 DEF AdShape, Fresh
<1>2. w.row \in AdRows /\ campaign \in Campaigns /\ "write" \in AdSteps /\ "adjust" \in AdSteps
  BY <1>1, AdParts DEF AdSteps, AdFormed, AdTypeOK
<1>3. v.step = "write" /\ v.ad = w.ad /\ v.charge = w.charge /\ v.then = "adjust"  BY <1>1, <1>2, AmendTyped
<1>4. AdShape(v)
  <2> HIDE DEF v, w
  <2> QED BY <1>1, <1>3 DEF AdShape
<1>5. doing' = [doing EXCEPT ![r] = v]  BY <1>1 DEF Amend, AdWorks, UpdateCampaign, Does
<1>6. PayTurn(r) /\ doing'[r].step = "write" /\ doing'[r].status = campaign /\ doing'[r].then = "adjust"
  <2>1. w.step \notin Filtering \cup {"mark", "ended"} /\ "write" \notin Filtering \cup {"new", "count"}
    BY <1>1 DEF Filtering
  <2>9. PayMove(r, "write", w.row, campaign, "adjust")  BY <1>1, <1>2, <1>4, <1>5, <2>1 DEF PayMove
  <2> QED BY <2>9, PayStep
<1>7. budget' = budget /\ counted' = counted /\ campaign' = campaign /\ counted \in Nat /\ budget.today \in Nat
  BY AdRecord DEF UpdateCampaign, AdFormed, AdTypeOK
<1>8. OwedBy(w) = 0 /\ OwedBy(doing'[r]) = 0  BY <1>1, <1>6 DEF OwedBy, OwedSteps, PayTurn, AdShape
<1>9. Alone(w, budget, campaign) => Alone(doing'[r], budget', campaign')
  BY <1>1, <1>6, <1>7 DEF Alone, Stops, HeldAlone
<1>10. Pays(r)  BY <1>7, <1>8, <1>9 DEF Pays
<1> QED BY <1>1, <1>6, <1>10

\* The daily budget is changed in the row that was read (UpdateCampaign).
LEMMA AdjustTurn ==
    ASSUME AdFormed, NEW r \in AdRequests, AdjustBudget(r)
    PROVE  PayTurn(r) /\ Pays(r) /\ Meets(r)
<1> DEFINE w == doing[r]
<1>1. w \in AdWorks /\ AdShape(w) /\ w.step = "adjust" /\ w.ad = NoAd /\ w.charge = 0 /\ Meets(r)
      /\ budget \in AdRows
  BY AdRecord DEF AdjustBudget, AdShape
<1>2. PICK n \in DailyBudgets :
         Does(r, [w EXCEPT !.step = "save", !.row = [budget EXCEPT !.daily = n], !.then = "ended"])
  BY DEF AdjustBudget
<1> DEFINE row == [budget EXCEPT !.daily = n]
           v == Amend(w, "save", row, w.status, "ended")
<1>3. row \in AdRows /\ row.today = budget.today /\ row.exhausted = budget.exhausted  BY <1>1 DEF AdRows
<1> HIDE DEF row
<1>4. w.status \in Campaigns /\ "save" \in AdSteps /\ "ended" \in AdSteps  BY <1>1, AdParts DEF AdSteps
<1>5. v.step = "save" /\ v.ad = w.ad /\ v.charge = w.charge /\ v.then = "ended"
  BY <1>1, <1>3, <1>4, AmendTyped
<1>6. AdShape(v)
  <2> HIDE DEF v, w
  <2> QED BY <1>1, <1>5 DEF AdShape
<1>7. doing' = [doing EXCEPT ![r] = v]  BY <1>1, <1>2 DEF Amend, AdWorks, Does, row
<1>8. PayTurn(r) /\ doing'[r].step = "save" /\ doing'[r].row = row /\ doing'[r].then = "ended"
  <2>1. w.step \notin Filtering \cup {"mark", "ended"} /\ "save" \notin Filtering \cup {"new", "count"}
    BY <1>1 DEF Filtering
  <2>2. w.ad # NoAd => "save" # "ended"  OBVIOUS
  <2>9. PayMove(r, "save", row, w.status, "ended")  BY <1>3, <1>4, <1>6, <1>7, <2>1, <2>2 DEF PayMove
  <2> QED BY <2>9, PayStep
<1>9. /\ budget' = budget /\ counted' = counted /\ campaign' = campaign /\ counted \in Nat /\ budget.today \in Nat
      /\ campaign \in {"active", "paused"}
  BY AdRecord DEF AdjustBudget, AdFormed, AdTypeOK, Campaigns
<1>10. OwedBy(w) = 0 /\ OwedBy(doing'[r]) = 0 /\ doing'[r].charge = 0
  BY <1>1, <1>8 DEF OwedBy, OwedSteps, PayTurn
<1>11. Alone(w, budget, campaign) => Alone(doing'[r], budget', campaign')
  BY <1>1, <1>9, <1>3, <1>8, <1>10 DEF Alone, Stops, HeldAlone
<1>12. Pays(r)  BY <1>9, <1>10, <1>11 DEF Pays
<1> QED BY <1>1, <1>8, <1>12

\* The pacer writes the row back, or that it is exhausted and pauses the campaign (BudgetPacing).
LEMMA PacingTurn ==
    ASSUME AdFormed, NEW r \in AdRequests, BudgetPacing(r)
    PROVE  PayTurn(r) /\ Pays(r) /\ Meets(r)
<1> DEFINE w == doing[r]
           row == [budget EXCEPT !.exhausted = TRUE]
           v == Amend(w, "save", budget, w.status, w.then)
           u == Amend(w, "ended", w.row, w.status, w.then)
           t == Amend(w, "save", row, w.status, "pause")
<1>1. /\ w \in AdWorks /\ AdShape(w) /\ w.step = "new" /\ w.ad = NoAd /\ w.charge = 0 /\ w.then = "ended"
      /\ Meets(r) /\ budget \in AdRows
  <2>1. w.step = "new" /\ Meets(r)  BY DEF BudgetPacing
  <2>2. w \in AdWorks /\ AdShape(w) /\ budget \in AdRows  BY AdRecord
  <2> QED BY <2>1, <2>2 DEF AdShape, Fresh
<1>2. /\ w.row \in AdRows /\ w.status \in Campaigns /\ w.then \in AdSteps
      /\ "save" \in AdSteps /\ "ended" \in AdSteps /\ "pause" \in AdSteps
  BY <1>1, AdParts DEF AdSteps
<1>3. row \in AdRows /\ row.today = budget.today  BY <1>1 DEF AdRows
<1> HIDE DEF row
<1>4. v.step = "save" /\ v.ad = w.ad /\ v.charge = w.charge /\ v.then = "ended"  BY <1>1, <1>2, AmendTyped
<1>5. u.step = "ended" /\ u.ad = w.ad /\ u.charge = w.charge  BY <1>1, <1>2, AmendTyped
<1>6. t.step = "save" /\ t.ad = w.ad /\ t.charge = w.charge /\ t.then = "pause"
  BY <1>1, <1>2, <1>3, AmendTyped
<1>7. AdShape(v) /\ AdShape(u) /\ AdShape(t)
  <2> HIDE DEF v, u, t, w
  <2> QED BY <1>1, <1>4, <1>5, <1>6 DEF AdShape
<1>8. \/ doing' = [doing EXCEPT ![r] = v]
      \/ doing' = [doing EXCEPT ![r] = u]
      \/ doing' = [doing EXCEPT ![r] = t]
  <2>1. /\ v = [w EXCEPT !.step = "save", !.row = budget]
        /\ u = [w EXCEPT !.step = "ended"]
        /\ t = [w EXCEPT !.step = "save", !.row = row, !.then = "pause"]
    BY <1>1 DEF Amend, AdWorks
  <2>2. Does(r, IF budget.today < budget.daily THEN v ELSE IF budget.exhausted THEN u ELSE t)
    BY <2>1 DEF BudgetPacing, row
  <2> HIDE DEF v, u, t
  <2> QED BY <2>2 DEF Does
<1>9. w.step \notin Filtering \cup {"mark", "ended"}
      /\ "save" \notin Filtering \cup {"new", "count"} /\ "ended" \notin Filtering \cup {"new", "count"}
  BY <1>1 DEF Filtering
<1>10. /\ budget' = budget /\ counted' = counted /\ campaign' = campaign /\ counted \in Nat /\ budget.today \in Nat
       /\ campaign \in {"active", "paused"}
  BY AdRecord DEF BudgetPacing, AdFormed, AdTypeOK, Campaigns
<1>11. OwedBy(w) = 0  BY <1>1 DEF OwedBy, OwedSteps
<1>12. Alone(w, budget, campaign) => (budget.exhausted => campaign = "paused")
  BY <1>1, <1>10 DEF Alone, Stops
<1>13. campaign = "paused" => campaign # "active"  OBVIOUS
<1>14. CASE doing' = [doing EXCEPT ![r] = v]
  <2>1. PayTurn(r) /\ doing'[r].step = "save" /\ doing'[r].row = budget /\ doing'[r].then = w.then
    <3>1. /\ w.ad # NoAd => "save" # "ended"
          /\ budget \in AdRows /\ AdShape(v)
          /\ w.step \notin Filtering \cup {"mark", "ended"} /\ "save" \notin Filtering \cup {"new", "count"}
      BY <1>1, <1>7, <1>9
    <3>9. PayMove(r, "save", budget, w.status, w.then)  BY <1>2, <1>14, <3>1 DEF PayMove
    <3> QED BY <3>9, PayStep
  <2>2. OwedBy(doing'[r]) = 0 /\ doing'[r].row.today = budget'.today + doing'[r].charge
    BY <1>1, <1>10, <2>1 DEF OwedBy, OwedSteps, PayTurn
  <2>3. (budget.exhausted => campaign = "paused") => HeldAlone(doing'[r], budget', campaign')
    BY <1>10, <2>1, <2>2 DEF HeldAlone
  <2>4. Alone(w, budget, campaign) => Alone(doing'[r], budget', campaign')
    BY <1>10, <1>12, <1>13, <2>3 DEF Alone
  <2>5. Pays(r)  BY <1>10, <1>11, <2>2, <2>4 DEF Pays
  <2> QED BY <1>1, <2>1, <2>5
<1>15. CASE doing' = [doing EXCEPT ![r] = u]
  <2>1. PayTurn(r) /\ doing'[r].step = "ended"  BY <1>1, <1>2, <1>7, <1>9, <1>15, PayStep DEF PayMove
  <2>2. OwedBy(doing'[r]) = 0 /\ HeldAlone(doing'[r], budget', campaign')
    BY <2>1 DEF OwedBy, OwedSteps, HeldAlone
  <2>3. Alone(w, budget, campaign) => Alone(doing'[r], budget', campaign')
    BY <1>10, <1>12, <1>13, <2>2 DEF Alone
  <2>4. Pays(r)  BY <1>10, <1>11, <2>2, <2>3 DEF Pays
  <2> QED BY <1>1, <2>1, <2>4
<1>16. CASE doing' = [doing EXCEPT ![r] = t]
  <2>1. PayTurn(r) /\ doing'[r].step = "save" /\ doing'[r].row = row /\ doing'[r].then = "pause"
    <3>1. /\ w.ad # NoAd => "save" # "ended"
          /\ AdShape(t)
          /\ w.step \notin Filtering \cup {"mark", "ended"} /\ "save" \notin Filtering \cup {"new", "count"}
      BY <1>7, <1>9
    <3>9. PayMove(r, "save", row, w.status, "pause")  BY <1>2, <1>3, <1>16, <3>1 DEF PayMove
    <3> QED BY <3>9, PayStep
  <2>2. OwedBy(doing'[r]) = 0 /\ doing'[r].row.today = budget'.today + doing'[r].charge
    BY <1>1, <1>3, <1>10, <2>1 DEF OwedBy, OwedSteps, PayTurn
  <2>3. HeldAlone(doing'[r], budget', campaign')  BY <2>1, <2>2 DEF HeldAlone
  <2>4. Alone(w, budget, campaign) => Alone(doing'[r], budget', campaign')
    BY <1>10, <1>12, <1>13, <2>3 DEF Alone
  <2>5. Pays(r)  BY <1>10, <1>11, <2>2, <2>4 DEF Pays
  <2> QED BY <1>1, <2>1, <2>5
<1> QED BY <1>8, <1>14, <1>15, <1>16

\* A failure leaves a request well formed, and nothing else than it changes.
LEMMA FailTurn ==
    ASSUME AdFormed, NEW r \in AdRequests, AdCallFails(r)
    PROVE  AdTurn(r) /\ doing'[r].step # "uncount" /\ adFaults' # 0 /\ UNCHANGED <<moneyVars, userSide>>
<1> DEFINE w == doing[r]
           S(step) == Amend(w, step, w.row, w.status, w.then)
           p == Amend(w, "pause", w.row, w.status, "ended")
<1>1. w \in AdWorks /\ AdShape(w)  BY AdRecord
<1>2. /\ w.row \in AdRows /\ w.status \in Campaigns /\ w.then \in AdSteps
      /\ "pause" \in AdSteps /\ "ended" \in AdSteps /\ "save" \in AdSteps /\ "mark" \in AdSteps
  BY <1>1, AdParts DEF AdSteps
<1>3. \A step \in AdSteps : /\ S(step) \in AdWorks /\ S(step).step = step /\ S(step).ad = w.ad
                            /\ S(step).charge = w.charge /\ S(step).then = w.then
                            /\ S(step) = [w EXCEPT !.step = step]
  <2>1. \A step \in AdSteps : /\ S(step) \in AdWorks /\ S(step).step = step /\ S(step).ad = w.ad
                              /\ S(step).charge = w.charge /\ S(step).then = w.then
    <3> SUFFICES ASSUME NEW step \in AdSteps
                 PROVE  /\ S(step) \in AdWorks /\ S(step).step = step /\ S(step).ad = w.ad
                        /\ S(step).charge = w.charge /\ S(step).then = w.then
      OBVIOUS
    <3> HIDE DEF w
    <3> QED BY <1>1, <1>2 DEF Amend, AdWorks
  <2>2. \A step \in AdSteps : S(step) = [w EXCEPT !.step = step]  BY <1>1 DEF Amend, AdWorks
  <2> QED BY <2>1, <2>2
<1>4. /\ p \in AdWorks /\ p.step = "pause" /\ p.ad = w.ad /\ p.charge = w.charge /\ p.then = "ended"
      /\ p = [w EXCEPT !.step = "pause", !.then = "ended"]
  <2>1. p \in AdWorks /\ p.step = "pause" /\ p.ad = w.ad /\ p.charge = w.charge /\ p.then = "ended"
    <3> HIDE DEF S, w
    <3> QED BY <1>1, <1>2, AmendTyped
  <2>2. p = [w EXCEPT !.step = "pause", !.then = "ended"]  BY <1>1 DEF Amend, AdWorks
  <2> QED BY <2>1, <2>2
<1> HIDE DEF S, p, w
<1>5. \/ doing' = [doing EXCEPT ![r] = S("ended")]
      \/ doing' = [doing EXCEPT ![r] = S("save")] /\ w.step \in {"pause", "write"} /\ w.ad # NoAd
      \/ doing' = [doing EXCEPT ![r] = S("mark")] /\ w.step = "save" /\ w.ad # NoAd
      \/ doing' = [doing EXCEPT ![r] = p] /\ w.step = "save" /\ w.then = "pause"
  BY <1>2, <1>3, <1>4 DEF AdCallFails, On, Does, w
<1>6. adFaults' # 0 /\ UNCHANGED <<moneyVars, userSide>>  BY DEF AdCallFails, Falters, AdFormed, AdTypeOK
<1>7. CASE doing' = [doing EXCEPT ![r] = S("ended")]
  <2>1. AdShape(S("ended"))  BY <1>1, <1>2, <1>3 DEF AdShape
  <2>2. AdTurn(r) /\ doing'[r] = S("ended")  BY <1>2, <1>3, <1>7, <2>1, AdTurns
  <2> QED BY <1>2, <1>3, <1>6, <2>2
<1>8. CASE doing' = [doing EXCEPT ![r] = S("save")] /\ w.step \in {"pause", "write"} /\ w.ad # NoAd
  <2>1. AdShape(S("save"))  BY <1>1, <1>2, <1>3, <1>8 DEF AdShape
  <2>2. AdTurn(r) /\ doing'[r] = S("save")  BY <1>2, <1>3, <1>8, <2>1, AdTurns
  <2> QED BY <1>2, <1>3, <1>6, <2>2
<1>9. CASE doing' = [doing EXCEPT ![r] = S("mark")] /\ w.step = "save" /\ w.ad # NoAd
  <2>1. AdShape(S("mark"))  BY <1>1, <1>2, <1>3, <1>9 DEF AdShape
  <2>2. AdTurn(r) /\ doing'[r] = S("mark")  BY <1>2, <1>3, <1>9, <2>1, AdTurns
  <2> QED BY <1>2, <1>3, <1>6, <2>2
<1>10. CASE doing' = [doing EXCEPT ![r] = p] /\ w.step = "save" /\ w.then = "pause"
  BY <1>1, <1>4, <1>10, AdTurns, <1>6 DEF AdShape
<1> QED BY <1>5, <1>7, <1>8, <1>9, <1>10

--------
\* The units of a function on a finite set: one of its points counts what it is (Units).
LEMMA UnitsSplit ==
    ASSUME NEW D, IsFiniteSet(D), NEW f \in [D -> Nat], NEW x \in D
    PROVE  LET g == [y \in D \ {x} |-> f[y]]
           IN /\ IsFiniteSet(Units(f)) /\ IsFiniteSet(Units(g))
              /\ Cardinality(Units(f)) \in Nat /\ Cardinality(Units(g)) \in Nat
              /\ Cardinality(Units(f)) = Cardinality(Units(g)) + f[x]
<1> DEFINE g == [y \in D \ {x} |-> f[y]]
           own == {x} \X (1..f[x])
<1>1. \A y \in D : IsFiniteSet({y} \X (1..f[y])) /\ Cardinality({y} \X (1..f[y])) = f[y]
  <2> TAKE y \in D
  <2>1. f[y] \in Nat  OBVIOUS
  <2>2. IsFiniteSet(1..f[y]) /\ Cardinality(1..f[y]) = f[y]  BY <2>1, FS_Interval
  <2>3. IsFiniteSet({y}) /\ Cardinality({y}) = 1  BY FS_Singleton
  <2>4. /\ IsFiniteSet({y} \X (1..f[y]))
        /\ Cardinality({y} \X (1..f[y])) = Cardinality({y}) * Cardinality(1..f[y])
    BY <2>2, <2>3, FS_Product
  <2> QED BY <2>1, <2>2, <2>3, <2>4
<1>2. Units(f) = Units(g) \cup own  BY DEF Units
<1>3. Units(g) \cap own = {}  BY DEF Units
<1>4. IsFiniteSet(Units(f))
  <2> DEFINE parts == {{y} \X (1..f[y]) : y \in D}
  <2>1. [y \in D |-> {y} \X (1..f[y])] \in Surjection(D, parts)  BY DEF Surjection
  <2>2. \A part \in parts : IsFiniteSet(part)  BY <1>1
  <2> HIDE DEF parts
  <2>3. IsFiniteSet(UNION parts)  BY <2>1, <2>2, FS_Surjection, FS_UNION
  <2>4. UNION parts = Units(f)  BY DEF Units, parts
  <2> QED BY <2>3, <2>4
<1>5. IsFiniteSet(Units(g)) /\ IsFiniteSet(own) /\ Cardinality(own) = f[x]
  <2>1. Units(g) \subseteq Units(f)  BY <1>2
  <2> QED BY <1>1, <1>4, <2>1, FS_Subset
<1>6. /\ Cardinality(Units(g) \cup own) = Cardinality(Units(g)) + Cardinality(own) - Cardinality(Units(g) \cap own)
      /\ Cardinality(Units(g) \cap own) = 0
      /\ Cardinality(Units(g)) \in Nat /\ Cardinality(Units(f)) \in Nat
  BY <1>3, <1>4, <1>5, FS_Union, FS_EmptySet, FS_CardinalityType
<1>7. Cardinality(Units(f)) = Cardinality(Units(g)) + f[x]
  <2> HIDE DEF g, own
  <2> QED BY <1>2, <1>5, <1>6
<1> QED BY <1>4, <1>5, <1>6, <1>7

\* One showing more of an ad is one unit more (RunAuction).
LEMMA ShownOnce ==
    ASSUME NEW f \in [Creatives -> Nat], NEW x \in Creatives
    PROVE  /\ Cardinality(Units(f)) \in Nat
           /\ Cardinality(Units([f EXCEPT ![x] = @ + 1])) = Cardinality(Units(f)) + 1
<1> DEFINE h == [f EXCEPT ![x] = @ + 1]
           g == [y \in Creatives \ {x} |-> f[y]]
<1>1. IsFiniteSet(Creatives)  BY AdAssumption DEF AdAssumption
<1>2. h \in [Creatives -> Nat] /\ h[x] = f[x] + 1 /\ f[x] \in Nat  OBVIOUS
<1>3. g = [y \in Creatives \ {x} |-> h[y]]  OBVIOUS
<1>4. Cardinality(Units(f)) = Cardinality(Units(g)) + f[x] /\ Cardinality(Units(f)) \in Nat
      /\ Cardinality(Units(g)) \in Nat
  BY <1>1, UnitsSplit
<1>5. Cardinality(Units(h)) = Cardinality(Units(g)) + h[x]
  <2> HIDE DEF h
  <2>1. Cardinality(Units(h)) = Cardinality(Units([y \in Creatives \ {x} |-> h[y]])) + h[x]
    BY <1>1, <1>2, UnitsSplit
  <2> QED BY <1>3, <2>1
<1> HIDE DEF g, h
<1>6. Cardinality(Units(h)) = Cardinality(Units(f)) + 1  BY <1>2, <1>4, <1>5
<1> QED BY <1>4, <1>6 DEF h

OthersOwe(r) == [x \in At(OwedSteps) \ {r} |-> doing[x].charge]

OwedAddsUp ==
    \A r \in AdRequests :
        /\ Cardinality(Units(Owed)) \in Nat /\ Cardinality(Units(OthersOwe(r))) \in Nat
        /\ OwedBy(doing[r]) \in Nat
        /\ Cardinality(Units(Owed)) = Cardinality(Units(OthersOwe(r))) + OwedBy(doing[r])

\* What is owed is what one request owes and what the others do (RecordImpression).
LEMMA OwedSplit == AdFormed => OwedAddsUp
<1> SUFFICES ASSUME AdFormed, NEW r \in AdRequests
             PROVE  /\ Cardinality(Units(Owed)) \in Nat /\ Cardinality(Units(OthersOwe(r))) \in Nat
                    /\ OwedBy(doing[r]) \in Nat
                    /\ Cardinality(Units(Owed)) = Cardinality(Units(OthersOwe(r))) + OwedBy(doing[r])
  BY DEF OwedAddsUp
<1> DEFINE D == At(OwedSteps)
           all == D \cup {r}
           f == [x \in all |-> doing[x].charge]
           g == [x \in all \ {r} |-> f[x]]
<1>1. IsFiniteSet(all)  BY AdAssumption, FS_Subset DEF AdAssumption, At
<1>2. f \in [all -> Nat] /\ \A x \in AdRequests : doing[x].charge \in Nat  BY DEF AdFormed, AdTypeOK, At
<1>3. g = OthersOwe(r)  BY DEF OthersOwe
<1>4. r \in all /\ f[r] = doing[r].charge  OBVIOUS
<1>5. /\ Cardinality(Units(f)) \in Nat /\ Cardinality(Units(g)) \in Nat
      /\ Cardinality(Units(f)) = Cardinality(Units(g)) + f[r]
  <2> HIDE DEF f, all
  <2> QED BY <1>1, <1>2, <1>4, UnitsSplit
<1>6. Owed = [x \in D |-> doing[x].charge]  BY DEF Owed, OwedSteps
<1>7. CASE doing[r].step \in OwedSteps
  <2>1. all = D  BY <1>7 DEF At
  <2>2. Owed = f /\ OwedBy(doing[r]) = f[r]  BY <1>4, <1>6, <1>7, <2>1 DEF OwedBy
  <2> HIDE DEF f, g
  <2> QED BY <1>2, <1>3, <1>4, <1>5, <2>2
<1>8. CASE doing[r].step \notin OwedSteps
  <2>1. D \ {r} = D  BY <1>8 DEF At
  <2>2. Owed = OthersOwe(r)  BY <1>6, <2>1 DEF OthersOwe
  <2>3. OwedBy(doing[r]) = 0  BY <1>8 DEF OwedBy
  <2> HIDE DEF f, g
  <2> QED BY <1>3, <1>5, <2>2, <2>3
<1> QED BY <1>7, <1>8

\* The same of the next state.
LEMMA OwedSplitNext == AdFormed' => OwedAddsUp'
BY OwedSplit, PTL

\* Who does not take a turn stays.
LEMMA OthersStay ==
    ASSUME AdFormed, NEW r \in AdRequests, AdTurn(r)
    PROVE  /\ \A s \in AdRequests \ {r} : doing'[s] = doing[s]
           /\ doing' \in [AdRequests -> AdWorks]
           /\ \A s \in AdRequests : AdShape(doing'[s])
<1>1. doing \in [AdRequests -> AdWorks]  BY DEF AdFormed, AdTypeOK, AdWorks, AdRows
<1>2. PICK v : v = doing'[r]  OBVIOUS
<1>3. doing' = [doing EXCEPT ![r] = v] /\ v \in AdWorks /\ AdShape(v)  BY <1>2 DEF AdTurn
<1>4. \A s \in AdRequests \ {r} : doing'[s] = doing[s]  BY <1>1, <1>3
<1>5. doing' \in [AdRequests -> AdWorks]  BY <1>1, <1>3
<1>6. \A s \in AdRequests : AdShape(doing'[s])  BY <1>2, <1>3, <1>4 DEF AdFormed
<1> QED BY <1>4, <1>5, <1>6

\* A turn moves what is owed by what the request that takes it owes before and after.
LEMMA OwedMoves ==
    ASSUME AdFormed, AdFormed', NEW r \in AdRequests, AdTurn(r)
    PROVE  /\ Cardinality(Units(Owed))' \in Nat /\ Cardinality(Units(Owed)) \in Nat
           /\ OwedBy(doing[r]) \in Nat /\ OwedBy(doing'[r]) \in Nat
           /\ Cardinality(Units(Owed))' + OwedBy(doing[r]) = Cardinality(Units(Owed)) + OwedBy(doing'[r])
<1>1. OthersOwe(r)' = OthersOwe(r)  BY OthersStay DEF At, OthersOwe
<1>2. OwedBy(doing[r])' = OwedBy(doing'[r]) /\ Cardinality(Units(OthersOwe(r)))' = Cardinality(Units(OthersOwe(r)))
  BY <1>1 DEF OwedBy, Units
<1>3. /\ Cardinality(Units(Owed)) \in Nat /\ Cardinality(Units(OthersOwe(r))) \in Nat
      /\ OwedBy(doing[r]) \in Nat
      /\ Cardinality(Units(Owed)) = Cardinality(Units(OthersOwe(r))) + OwedBy(doing[r])
  BY OwedSplit DEF OwedAddsUp
<1>4. /\ Cardinality(Units(Owed))' \in Nat /\ OwedBy(doing'[r]) \in Nat
      /\ Cardinality(Units(Owed))' = Cardinality(Units(OthersOwe(r))) + OwedBy(doing'[r])
  BY <1>2, OwedSplitNext DEF OwedAddsUp
<1> QED BY <1>3, <1>4

--------
\* All but the requests are of their types in the next state.
RestTyped ==
    /\ campaign \in Campaigns /\ budget \in AdRows /\ counted \in Nat /\ met \in BOOLEAN
    /\ exposure \in Nat /\ seen \subseteq Creatives /\ shown \in [Creatives -> Nat]
    /\ together \in BOOLEAN /\ adFaults \in 0..MaxAdFaults

\* A step fails within the bound, or not.
LEMMA FaultsTyped ==
    ASSUME AdFormed, Fine \/ Falters
    PROVE  adFaults' \in 0..MaxAdFaults
BY AdAssumption DEF AdFormed, AdTypeOK, Fine, Falters, AdAssumption

\* The flags of meetings are truth values.
LEMMA FlagsTyped ==
    ASSUME NEW r \in AdRequests
    PROVE  /\ Meets(r) => met' \in BOOLEAN
           /\ RunAuction(r) => together' \in BOOLEAN
BY Zenon DEF Meets, RunAuction

\* Who waits to take a count back is counted (FrequencyCapping).
LEMMA UncountBound ==
    ASSUME NEW r \in AdRequests, doing[r].step = "uncount"
    PROVE  Cardinality(At({"uncount"})) \in Nat /\ Cardinality(At({"uncount"})) >= 1
<1>1. IsFiniteSet(AdRequests) /\ At({"uncount"}) \subseteq AdRequests /\ r \in At({"uncount"})
  BY AdAssumption DEF AdAssumption, At
<1>2. IsFiniteSet(At({"uncount"}))  BY <1>1, FS_Subset
<1>3. Cardinality(At({"uncount"})) \in Nat /\ Cardinality(At({"uncount"})) # 0
  BY <1>1, <1>2, FS_EmptySet, FS_CardinalityType
<1> QED BY <1>3

\* Choosing an ad keeps the types (RunAuction, FilterEligibleAds, MarkAdSeen).
LEMMA ChoosingTyped ==
    ASSUME AdFormed, Exposed, NEW r \in AdRequests,
           \/ RunAuction(r) \/ (\E x \in Creatives : ExcludeAlreadySeen(r, x)) \/ FrequencyCapping(r)
           \/ Uncount(r) \/ Win(r) \/ MarkAdSeen(r)
    PROVE  AdTurn(r) /\ RestTyped' /\ UNCHANGED moneyVars
<1>1. RestTyped  BY DEF AdFormed, AdTypeOK, RestTyped, AdRows
<1>2. CASE RunAuction(r)  BY <1>2, RunAuctionTurn, FlagsTyped, <1>1 DEF RunAuction, moneyVars, RestTyped
<1>3. CASE \E x \in Creatives : ExcludeAlreadySeen(r, x)
  BY <1>3, ExcludeTurn, FaultsTyped, <1>1 DEF ExcludeAlreadySeen, moneyVars, userSide, RestTyped
<1>4. CASE FrequencyCapping(r)
  <2>1. AdTurn(r) /\ exposure' \in {exposure, exposure + 1}  BY <1>4, FrequencyTurn
  <2>2. adFaults' \in 0..MaxAdFaults /\ UNCHANGED <<campaign, budget, counted, met, seen, shown, together>>
    BY <1>4, FaultsTyped DEF FrequencyCapping, moneyVars
  <2>3. exposure' \in Nat  BY <1>1, <2>1 DEF RestTyped
  <2> QED BY <1>1, <2>1, <2>2, <2>3 DEF RestTyped, moneyVars
<1>5. CASE Uncount(r)
  BY <1>5, UncountTurn, FaultsTyped, <1>1, UncountBound DEF Uncount, moneyVars, RestTyped, Exposed
<1>6. CASE Win(r)
  <2>1. AdTurn(r)  BY <1>6, WinTurn
  <2>2. UNCHANGED <<campaign, budget, counted, met, exposure, seen, together, adFaults>>
    BY <1>6 DEF Win, moneyVars
  <2>3. shown' \in [Creatives -> Nat]  BY AdRecord, AdParts, <1>6, WinTurn, <1>1 DEF RestTyped
  <2> QED BY <1>1, <2>1, <2>2, <2>3 DEF RestTyped, moneyVars
<1>7. CASE MarkAdSeen(r)  BY <1>7, MarkTurn, FaultsTyped, <1>1 DEF MarkAdSeen, moneyVars, RestTyped
<1> QED BY <1>2, <1>3, <1>4, <1>5, <1>6, <1>7

\* Who reads and writes campaign and budget.
Holds(r) ==
    \/ AddSpend(r) \/ PauseCampaign(r) \/ UpdateStatus(r) \/ UpdateBudget(r) \/ ResumeCampaign(r)
    \/ VerifyBudget(r) \/ UpdateCampaign(r) \/ AdjustBudget(r) \/ BudgetPacing(r)

\* Such a step is of one that pays; it meets who holds something, or holds something itself.
LEMMA HoldsPays ==
    ASSUME AdFormed, NEW r \in AdRequests, Holds(r)
    PROVE  /\ PayTurn(r) /\ Pays(r) /\ UNCHANGED userSide
           /\ adFaults' # 0 \/ Meets(r) \/ (doing[r].step \in Holding /\ met' = met)
           /\ doing[r].step # "count"
           /\ adFaults' = adFaults \/ adFaults' = adFaults + 1
<1>1. CASE AddSpend(r)  BY <1>1, AddSpendTurn DEF AddSpend, Fine, Falters
<1>2. CASE PauseCampaign(r)  BY <1>2, PauseTurn DEF PauseCampaign
<1>3. CASE UpdateStatus(r)  BY <1>3, StatusTurn DEF UpdateStatus, Holding
<1>4. CASE UpdateBudget(r)  BY <1>4, BudgetTurn DEF UpdateBudget, Holding
<1>5. CASE ResumeCampaign(r)  BY <1>5, ResumeTurn DEF ResumeCampaign
<1>6. CASE VerifyBudget(r)  BY <1>6, VerifyTurn DEF VerifyBudget, Fine, Falters
<1>7. CASE UpdateCampaign(r)  BY <1>7, UpdateTurn DEF UpdateCampaign
<1>8. CASE AdjustBudget(r)  BY <1>8, AdjustTurn DEF AdjustBudget
<1>9. CASE BudgetPacing(r)  BY <1>9, PacingTurn DEF BudgetPacing
<1> QED BY <1>1, <1>2, <1>3, <1>4, <1>5, <1>6, <1>7, <1>8, <1>9 DEF Holds

\* Such a step keeps the types.
LEMMA HoldsTyped ==
    ASSUME AdFormed, NEW r \in AdRequests, Holds(r)
    PROVE  AdTurn(r) /\ RestTyped'
<1>1. RestTyped  BY DEF AdFormed, AdTypeOK, RestTyped, AdRows
<1>2. AdTurn(r) /\ UNCHANGED userSide  BY HoldsPays DEF PayTurn
<1>3. adFaults' \in 0..MaxAdFaults
  <2>1. Fine \/ Falters
    BY DEF Holds, AddSpend, PauseCampaign, UpdateStatus, UpdateBudget, ResumeCampaign, VerifyBudget,
           UpdateCampaign, AdjustBudget, BudgetPacing, Fine
  <2> QED BY <2>1, FaultsTyped
<1>4. counted' = counted
  BY DEF Holds, AddSpend, PauseCampaign, UpdateStatus, UpdateBudget, ResumeCampaign, VerifyBudget,
         UpdateCampaign, AdjustBudget, BudgetPacing
<1>5. campaign' \in Campaigns
  BY StatusTurn, <1>1 DEF Holds, AddSpend, PauseCampaign, UpdateBudget, ResumeCampaign, VerifyBudget,
     UpdateCampaign, AdjustBudget, BudgetPacing, RestTyped
<1>6. budget' \in AdRows
  <2>1. CASE UpdateBudget(r)  BY <2>1, BudgetTurn
  <2>2. CASE ~UpdateBudget(r)
    <3>1. budget' = budget
      BY <2>2 DEF Holds, AddSpend, PauseCampaign, UpdateStatus, ResumeCampaign, VerifyBudget,
             UpdateCampaign, AdjustBudget, BudgetPacing
    <3> QED BY <1>1, <3>1 DEF RestTyped
  <2> QED BY <2>1, <2>2
<1>7. met' \in BOOLEAN
  <2>1. Meets(r) \/ met' = met
    BY DEF Holds, AddSpend, PauseCampaign, UpdateStatus, UpdateBudget, ResumeCampaign, VerifyBudget,
           UpdateCampaign, AdjustBudget, BudgetPacing
  <2>2. met \in BOOLEAN  BY <1>1 DEF RestTyped
  <2> QED BY <2>1, <2>2, FlagsTyped
<1> QED BY <1>1, <1>2, <1>3, <1>4, <1>5, <1>6, <1>7 DEF RestTyped, userSide

\* Every step keeps the types and the shapes of the requests.
LEMMA AdFormedKept ==
    ASSUME AdFormed, Exposed, NEW r \in AdRequests, AdMove(r)
    PROVE  AdTurn(r) /\ RestTyped' /\ AdFormed'
<1>1. RestTyped  BY DEF AdFormed, AdTypeOK, RestTyped, AdRows
<1>2. ASSUME IncrementImpressions(r) PROVE AdTurn(r) /\ RestTyped'
  BY <1>2, IncrementTurn, AdRecord, AdParts, FaultsTyped, <1>1 DEF PayTurn, IncrementImpressions, RestTyped,
     userSide
<1>3. ASSUME AdCallFails(r) PROVE AdTurn(r) /\ RestTyped'
  BY <1>3, FailTurn, FaultsTyped, <1>1 DEF AdCallFails, RestTyped, moneyVars, userSide
<1>4. AdTurn(r) /\ RestTyped'  BY HoldsTyped, ChoosingTyped, <1>2, <1>3 DEF AdMove, Holds
<1>5. doing' \in [AdRequests -> AdWorks] /\ \A s \in AdRequests : AdShape(doing'[s])  BY <1>4, OthersStay
<1>6. AdTypeOK'  BY <1>4, <1>5 DEF AdTypeOK, RestTyped, AdWorks, AdRows
<1> QED BY <1>4, <1>5, <1>6 DEF AdFormed

--------
\* A request on no step that holds or owes says nothing of campaign and budget.
LEMMA IdleHolds ==
    ASSUME NEW w, w.step \notin Holding
    PROVE  /\ ~Stops(w) /\ \A b, c : HeldAlone(w, b, c)
           /\ w.step # "spend" => OwedBy(w) = 0
BY DEF Holding, Stops, HeldAlone, OwedBy, OwedSteps

\* What is spent stays as it is where a request does nothing with campaign and budget
\* (FilterEligibleAds, MarkAdSeen), or counts an impression (RecordImpression).
LEMMA SpentApart ==
    ASSUME AdFormed, AdFormed', Spent, NEW r \in AdRequests, AdTurn(r),
           UNCHANGED <<campaign, budget, met>>, adFaults' = 0 => adFaults = 0,
           doing[r].step \notin Holding, doing'[r].step \notin Holding,
           adFaults' = 0 => counted' = counted + OwedBy(doing'[r]) - OwedBy(doing[r])
    PROVE  Spent'
<1> SUFFICES ASSUME ~met', adFaults' = 0
             PROVE  /\ \A p, s \in At(Holding)' : p = s
                    /\ counted' = budget'.today + Cardinality(Units(Owed))'
                    /\ \A s \in AdRequests : HeldAlone(doing'[s], budget', campaign')
                    /\ budget'.exhausted /\ campaign' = "active" => \E s \in AdRequests : Stops(doing'[s])
  BY DEF Spent, HeldAlone, Stops
<1>1. /\ \A p, s \in At(Holding) : p = s
      /\ counted = budget.today + Cardinality(Units(Owed))
      /\ \A s \in AdRequests : HeldAlone(doing[s], budget, campaign)
      /\ budget.exhausted /\ campaign = "active" => \E s \in AdRequests : Stops(doing[s])
  BY DEF Spent
<1>2. \A s \in AdRequests \ {r} : doing'[s] = doing[s]  BY OthersStay
<1>3. At(Holding)' = At(Holding)  BY <1>2 DEF At
<1>4. counted' = budget'.today + Cardinality(Units(Owed))'  BY AdRecord, OwedMoves, <1>1
<1>5. \A s \in AdRequests : HeldAlone(doing'[s], budget', campaign')  BY <1>1, <1>2, IdleHolds
<1>6. budget'.exhausted /\ campaign' = "active" => \E s \in AdRequests : Stops(doing'[s])
  BY <1>1, IdleHolds, <1>2
<1> QED BY <1>1, <1>3, <1>4, <1>5, <1>6

\* And where one that is alone with them reads or writes them.
LEMMA SpentAlone ==
    ASSUME AdFormed, AdFormed', Spent, NEW r \in AdRequests, AdTurn(r), Pays(r),
           adFaults' = 0 => adFaults = 0,
           adFaults' # 0 \/ Meets(r) \/ (doing[r].step \in Holding /\ met' = met)
    PROVE  Spent'
<1> SUFFICES ASSUME ~met', adFaults' = 0
             PROVE  /\ \A p, s \in At(Holding)' : p = s
                    /\ counted' = budget'.today + Cardinality(Units(Owed))'
                    /\ \A s \in AdRequests : HeldAlone(doing'[s], budget', campaign')
                    /\ budget'.exhausted /\ campaign' = "active" => \E s \in AdRequests : Stops(doing'[s])
  BY DEF Spent, HeldAlone, Stops
<1>1. ~met  BY DEF Meets
<1>2. /\ \A p, s \in At(Holding) : p = s
      /\ counted = budget.today + Cardinality(Units(Owed))
      /\ \A s \in AdRequests : HeldAlone(doing[s], budget, campaign)
      /\ budget.exhausted /\ campaign = "active" => \E s \in AdRequests : Stops(doing[s])
  BY <1>1 DEF Spent
<1>3. \A s \in AdRequests \ {r} : doing'[s] = doing[s]  BY OthersStay
<1>4. \A s \in AdRequests \ {r} : doing[s].step \notin Holding  BY <1>2 DEF Meets, At
<1>5. Alone(doing[r], budget, campaign)  BY <1>2, <1>4, IdleHolds DEF Alone
<1>6. /\ Alone(doing'[r], budget', campaign')
      /\ counted' + budget.today + OwedBy(doing[r]) = counted + budget'.today + OwedBy(doing'[r])
  BY <1>5 DEF Pays
<1>7. At(Holding)' \subseteq {r}  BY <1>3, <1>4 DEF At
<1>8. counted' = budget'.today + Cardinality(Units(Owed))'
  <2>1. budget'.today \in Nat /\ budget.today \in Nat /\ counted' \in Nat  BY DEF AdFormed, AdTypeOK
  <2>2. /\ Cardinality(Units(Owed))' \in Nat /\ Cardinality(Units(Owed)) \in Nat
        /\ OwedBy(doing[r]) \in Nat /\ OwedBy(doing'[r]) \in Nat
        /\ Cardinality(Units(Owed))' + OwedBy(doing[r]) = Cardinality(Units(Owed)) + OwedBy(doing'[r])
    BY OwedMoves
  <2> QED BY <1>2, <1>6, <2>1, <2>2
<1>9. \A s \in AdRequests : HeldAlone(doing'[s], budget', campaign')
  <2> TAKE s \in AdRequests
  <2>1. CASE s = r  BY <1>6, <2>1 DEF Alone
  <2>2. CASE s # r  BY <1>3, <1>4, <2>2, IdleHolds
  <2> QED BY <2>1, <2>2
<1>10. budget'.exhausted /\ campaign' = "active" => \E s \in AdRequests : Stops(doing'[s])  BY <1>6 DEF Alone
<1> QED BY <1>7, <1>8, <1>9, <1>10

\* Every step keeps what is spent.
LEMMA SpentKept ==
    ASSUME AdFormed, AdFormed', Exposed, Spent, NEW r \in AdRequests, AdMove(r)
    PROVE  Spent'
<1>1. CASE IncrementImpressions(r)
  <2>1. /\ PayTurn(r) /\ doing[r].step = "count" /\ doing'[r].step = "spend"
        /\ counted' = counted + doing[r].charge \/ adFaults' # 0
    BY <1>1, IncrementTurn
  <2>2. AdTurn(r) /\ doing'[r].charge = doing[r].charge  BY <2>1 DEF PayTurn
  <2>3. UNCHANGED <<campaign, budget, met>> /\ (adFaults' = 0 => adFaults = 0)
    BY <1>1 DEF IncrementImpressions, Fine, Falters, AdFormed, AdTypeOK
  <2>4. OwedBy(doing[r]) = 0 /\ OwedBy(doing'[r]) = doing[r].charge
        /\ doing[r].step \notin Holding /\ doing'[r].step \notin Holding
    BY <2>1, <2>2 DEF OwedBy, OwedSteps, Holding
  <2>5. doing[r].charge \in Nat /\ counted \in Nat  BY AdRecord, AdParts DEF AdFormed, AdTypeOK
  <2>6. adFaults' = 0 => counted' = counted + OwedBy(doing'[r]) - OwedBy(doing[r])  BY <2>1, <2>4, <2>5
  <2> QED BY <2>2, <2>3, <2>4, <2>6, SpentApart
<1>2. CASE AdCallFails(r)  BY <1>2, FailTurn DEF Spent
<1>3. CASE Holds(r)  BY <1>3, HoldsPays, SpentAlone DEF PayTurn, AdFormed, AdTypeOK
<1>4. CASE \/ RunAuction(r) \/ (\E x \in Creatives : ExcludeAlreadySeen(r, x)) \/ FrequencyCapping(r)
           \/ Uncount(r) \/ Win(r) \/ MarkAdSeen(r)
  <2> DEFINE Apart == {"new", "filter", "cap", "uncount", "count", "mark", "ended"}
  <2>1. AdTurn(r) /\ UNCHANGED moneyVars  BY <1>4, ChoosingTyped
  <2>2. doing[r].step \in Apart /\ doing'[r].step \in Apart
    BY <1>4, RunAuctionTurn, ExcludeTurn, FrequencyTurn, UncountTurn, WinTurn, MarkTurn
  <2>3. adFaults' = 0 => adFaults = 0
    <3>1. adFaults' = adFaults \/ adFaults' = adFaults + 1
      BY <1>4 DEF RunAuction, ExcludeAlreadySeen, FrequencyCapping, Uncount, Win, MarkAdSeen, Fine, Falters
    <3> QED BY <3>1 DEF AdFormed, AdTypeOK
  <2>4. OwedBy(doing[r]) = 0 /\ OwedBy(doing'[r]) = 0
        /\ doing[r].step \notin Holding /\ doing'[r].step \notin Holding
    BY <2>2 DEF OwedBy, OwedSteps, Holding
  <2>5. counted' = counted /\ counted \in Nat  BY <2>1 DEF moneyVars, AdFormed, AdTypeOK
  <2>6. counted' = counted + OwedBy(doing'[r]) - OwedBy(doing[r])  BY <2>4, <2>5
  <2>7. UNCHANGED <<campaign, budget, met>>  BY <2>1 DEF moneyVars
  <2> QED BY <2>1, <2>3, <2>4, <2>6, <2>7, SpentApart
<1> QED BY <1>1, <1>2, <1>3, <1>4 DEF AdMove, Holds

--------
\* Without a failure in the next state there was none before.
LEMMA NoFaultBefore ==
    ASSUME AdFormed, NEW r \in AdRequests, AdMove(r), adFaults' = 0
    PROVE  adFaults = 0
<1>1. adFaults' = adFaults \/ adFaults' = adFaults + 1
  BY DEF AdMove, RunAuction, ExcludeAlreadySeen, FrequencyCapping, Uncount, Win, IncrementImpressions, AddSpend,
         MarkAdSeen, PauseCampaign, UpdateStatus, UpdateBudget, ResumeCampaign, VerifyBudget, UpdateCampaign,
         AdjustBudget, BudgetPacing, AdCallFails, Fine, Falters
<1> QED BY <1>1 DEF AdFormed, AdTypeOK

\* The sets of requests are finite.
LEMMA RequestsFinite ==
    /\ \A S \in SUBSET AdRequests : IsFiniteSet(S) /\ Cardinality(S) \in Nat
    /\ \A S \in SUBSET AdRequests : \A T \in SUBSET S : Cardinality(T) <= Cardinality(S)
    /\ \A S \in SUBSET AdRequests : \A x \in AdRequests : Cardinality(S \cup {x}) <= Cardinality(S) + 1
    /\ \A S \in SUBSET AdRequests : \A x \in S : Cardinality(S \ {x}) = Cardinality(S) - 1
<1>1. \A S \in SUBSET AdRequests : IsFiniteSet(S) /\ Cardinality(S) \in Nat
  <2>1. IsFiniteSet(AdRequests)  BY AdAssumption DEF AdAssumption
  <2> QED BY <2>1, FS_Subset, FS_CardinalityType
<1>2. \A S \in SUBSET AdRequests : \A T \in SUBSET S : Cardinality(T) <= Cardinality(S)  BY <1>1, FS_Subset
<1>3. \A S \in SUBSET AdRequests : \A x \in AdRequests : Cardinality(S \cup {x}) <= Cardinality(S) + 1
  <2> SUFFICES ASSUME NEW S \in SUBSET AdRequests, NEW x \in AdRequests
               PROVE  Cardinality(S \cup {x}) <= Cardinality(S) + 1
    OBVIOUS
  <2>1. CASE x \in S
    <3>1. S \cup {x} = S  BY <2>1
    <3> QED BY <1>1, <3>1
  <2>2. CASE x \notin S  BY <1>1, <2>2, FS_AddElement
  <2> QED BY <2>1, <2>2
<1>4. \A S \in SUBSET AdRequests : \A x \in S : Cardinality(S \ {x}) = Cardinality(S) - 1
  BY <1>1, FS_RemoveElement
<1> QED BY <1>1, <1>2, <1>3, <1>4

\* Who is at a step, and who has eligible ads, after a turn of r.
LEMMA StepsAfter ==
    ASSUME AdFormed, NEW r \in AdRequests, AdTurn(r)
    PROVE  /\ At({"uncount"})' \subseteq At({"uncount"}) \cup {r}
           /\ r \in At({"uncount"})' <=> doing'[r].step = "uncount"
           /\ At({"uncount"}) \ {r} = At({"uncount"})' \ {r}
           /\ Hopeful' \subseteq Hopeful \cup {r}
           /\ r \in Hopeful' <=> doing'[r].step \in Filtering /\ doing'[r].eligible # {}
           /\ Hopeful \ {r} = Hopeful' \ {r}
           /\ At({"uncount"}) \subseteq AdRequests /\ Hopeful \subseteq AdRequests
           /\ At({"uncount"})' \subseteq AdRequests /\ Hopeful' \subseteq AdRequests
<1>1. \A s \in AdRequests \ {r} : doing'[s] = doing[s]  BY OthersStay
<1>2. At({"uncount"}) = {s \in AdRequests : doing[s].step = "uncount"}
      /\ At({"uncount"})' = {s \in AdRequests : doing'[s].step = "uncount"}
  BY DEF At
<1>3. /\ Hopeful = {s \in AdRequests : doing[s].step \in Filtering /\ doing[s].eligible # {}}
      /\ Hopeful' = {s \in AdRequests : doing'[s].step \in Filtering /\ doing'[s].eligible # {}}
  BY DEF Hopeful, At
<1> QED BY <1>1, <1>2, <1>3

\* What is shown is an amount.
LEMMA ShownTyped ==
    ASSUME AdFormed
    PROVE  Cardinality(Units(shown)) \in Nat
<1>1. shown \in [Creatives -> Nat]  BY DEF AdFormed, AdTypeOK
<1>2. CASE Creatives = {}
  <2>1. Units(shown) = {}  BY <1>1, <1>2 DEF Units
  <2> QED BY <2>1, FS_EmptySet
<1>3. CASE Creatives # {}
  <2>1. PICK x : x \in Creatives  BY <1>3
  <2> QED BY <1>1, <2>1, ShownOnce
<1> QED BY <1>2, <1>3

\* Where nobody is counted or waits to take a count back, the exposure stays right.
LEMMA ExposedApart ==
    ASSUME AdFormed, Exposed, NEW r \in AdRequests, AdTurn(r), exposure' = exposure,
           doing'[r].step # "uncount",
           adFaults' = 0 =>
              /\ adFaults = 0 /\ shown' = shown
              /\ doing'[r].step \in Filtering /\ doing'[r].eligible # {} => r \in Hopeful
    PROVE  Exposed'
<1> DEFINE U == At({"uncount"})
<1>1. U' \subseteq U /\ U \subseteq AdRequests  BY StepsAfter
<1>2. Cardinality(U') <= Cardinality(U) /\ Cardinality(U') \in Nat /\ Cardinality(U) \in Nat
  BY <1>1, RequestsFinite
<1>3. exposure \in Nat /\ Cardinality(U) <= exposure  BY DEF AdFormed, AdTypeOK, Exposed
<1>4. Cardinality(U)' = Cardinality(U')  OBVIOUS
<1> HIDE DEF U
<1>5. Cardinality(U)' <= exposure'  BY <1>2, <1>3, <1>4
<1>6. ASSUME adFaults' = 0
      PROVE  /\ Cardinality(Units(shown))' + Cardinality(Hopeful)' <= CapPerDay
             /\ Cardinality(Units(shown))' + Cardinality(Hopeful)' + Cardinality(U)' <= exposure'
  <2>1. Hopeful' \subseteq Hopeful /\ Hopeful \subseteq AdRequests  BY <1>6, StepsAfter
  <2>2. Cardinality(Hopeful') <= Cardinality(Hopeful) /\ Cardinality(Hopeful') \in Nat /\ Cardinality(Hopeful) \in Nat
    BY <2>1, RequestsFinite
  <2>3. Cardinality(Units(shown))' = Cardinality(Units(shown)) /\ Cardinality(Units(shown)) \in Nat
    BY <1>6, ShownTyped DEF Units
  <2>4. /\ Cardinality(Units(shown)) + Cardinality(Hopeful) <= CapPerDay
        /\ Cardinality(Units(shown)) + Cardinality(Hopeful) + Cardinality(U) <= exposure
    BY <1>6 DEF Exposed, U
  <2>5. CapPerDay \in Nat  BY AdAssumption DEF AdAssumption
  <2>6. Cardinality(Hopeful)' = Cardinality(Hopeful')  OBVIOUS
  <2> QED BY <1>2, <1>3, <1>4, <2>2, <2>3, <2>4, <2>5, <2>6
<1> QED BY <1>5, <1>6 DEF Exposed, U

\* An ad that becomes eligible is counted under the cap (FrequencyCapping).
LEMMA ExposedByCap ==
    ASSUME AdFormed, Exposed, NEW r \in AdRequests, FrequencyCapping(r), adFaults' = 0 => adFaults = 0
    PROVE  Exposed'
<1> DEFINE U == At({"uncount"})
<1>1. /\ AdTurn(r) /\ doing[r].step = "cap" /\ shown' = shown
      /\ \/ doing'[r].step = "filter" /\ doing'[r].eligible = doing[r].eligible \cup {doing[r].ad}
            /\ (adFaults' = 0 => exposure' = exposure + 1 /\ exposure < CapPerDay)
            /\ exposure' \in {exposure, exposure + 1}
         \/ doing'[r].step = "uncount" /\ doing'[r].eligible = doing[r].eligible /\ exposure' = exposure + 1
  BY FrequencyTurn DEF FrequencyCapping
<1>2. /\ U' \subseteq U \cup {r} /\ (r \in U' <=> doing'[r].step = "uncount")
      /\ Hopeful' \subseteq Hopeful \cup {r}
      /\ r \in Hopeful' <=> doing'[r].step \in Filtering /\ doing'[r].eligible # {}
      /\ U \subseteq AdRequests /\ Hopeful \subseteq AdRequests
  BY <1>1, StepsAfter
<1>3. exposure \in Nat /\ Cardinality(U) <= exposure /\ CapPerDay \in Nat
  BY AdAssumption DEF AdFormed, AdTypeOK, Exposed, AdAssumption
<1>4. Cardinality(Units(shown))' = Cardinality(Units(shown)) /\ Cardinality(Units(shown)) \in Nat
  BY <1>1, ShownTyped DEF Units
<1>5. adFaults' = 0 =>
        /\ Cardinality(Units(shown)) + Cardinality(Hopeful) <= CapPerDay
        /\ Cardinality(Units(shown)) + Cardinality(Hopeful) + Cardinality(U) <= exposure
  BY DEF Exposed
<1>6. Cardinality(U)' = Cardinality(U') /\ Cardinality(Hopeful)' = Cardinality(Hopeful')  OBVIOUS
<1>7. (r \in Hopeful <=> doing[r].eligible # {}) /\ r \notin U  BY <1>1 DEF Hopeful, At, Filtering
<1>8. Cardinality(U) \in Nat /\ Cardinality(Hopeful) \in Nat  BY <1>2, RequestsFinite
<1> SUFFICES /\ Cardinality(U') <= exposure'
             /\ adFaults' = 0 =>
                   /\ Cardinality(Units(shown)) + Cardinality(Hopeful') <= CapPerDay
                   /\ Cardinality(Units(shown)) + Cardinality(Hopeful') + Cardinality(U') <= exposure'
  BY <1>4, <1>6 DEF Exposed
<1> HIDE DEF U
<1>9. CASE doing'[r].step = "filter"
  <2>1. U' \subseteq U  BY <1>2, <1>9
  <2>2. Cardinality(U') <= Cardinality(U) /\ Cardinality(U') \in Nat  BY <1>2, <2>1, RequestsFinite
  <2>3. Cardinality(Hopeful \cup {r}) <= Cardinality(Hopeful) + 1 /\ Hopeful \cup {r} \subseteq AdRequests
    BY <1>2, RequestsFinite
  <2>4. Cardinality(Hopeful') <= Cardinality(Hopeful \cup {r}) /\ Cardinality(Hopeful') \in Nat
        /\ Cardinality(Hopeful \cup {r}) \in Nat
    BY <1>2, <2>3, RequestsFinite
  <2>5. (adFaults' = 0 => exposure' = exposure + 1 /\ exposure < CapPerDay)
        /\ exposure' \in {exposure, exposure + 1}
    BY <1>1, <1>9
  <2> QED BY <1>3, <1>4, <1>5, <1>8, <2>2, <2>3, <2>4, <2>5
<1>10. CASE doing'[r].step = "uncount"
  <2>1. Hopeful' \subseteq Hopeful  BY <1>1, <1>2, <1>7, <1>10
  <2>2. Cardinality(Hopeful') <= Cardinality(Hopeful) /\ Cardinality(Hopeful') \in Nat
    BY <1>2, <2>1, RequestsFinite
  <2>3. Cardinality(U \cup {r}) <= Cardinality(U) + 1 /\ U \cup {r} \subseteq AdRequests
    BY <1>2, RequestsFinite
  <2>4. Cardinality(U') <= Cardinality(U \cup {r}) /\ Cardinality(U') \in Nat /\ Cardinality(U \cup {r}) \in Nat
    BY <1>2, <2>3, RequestsFinite
  <2>5. exposure' = exposure + 1  BY <1>1, <1>10
  <2> QED BY <1>3, <1>4, <1>5, <1>8, <2>2, <2>3, <2>4, <2>5
<1> QED BY <1>1, <1>9, <1>10

\* A count is taken back once (FrequencyCapping).
LEMMA ExposedByUncount ==
    ASSUME AdFormed, Exposed, NEW r \in AdRequests, Uncount(r), adFaults' = 0 => adFaults = 0
    PROVE  Exposed'
<1> DEFINE U == At({"uncount"})
<1>1. /\ AdTurn(r) /\ doing[r].step = "uncount" /\ doing'[r].step = "filter" /\ shown' = shown
      /\ doing'[r].eligible = doing[r].eligible
      /\ exposure' = exposure - 1 \/ (exposure' = exposure /\ adFaults' # 0)
  BY UncountTurn DEF Uncount
<1>2. /\ U \ {r} = U' \ {r} /\ (r \in U' <=> doing'[r].step = "uncount")
      /\ Hopeful' \subseteq Hopeful \cup {r}
      /\ r \in Hopeful' <=> doing'[r].step \in Filtering /\ doing'[r].eligible # {}
      /\ U \subseteq AdRequests /\ Hopeful \subseteq AdRequests
  BY <1>1, StepsAfter
<1>3. exposure \in Nat /\ Cardinality(U) <= exposure /\ CapPerDay \in Nat
  BY AdAssumption DEF AdFormed, AdTypeOK, Exposed, AdAssumption
<1>4. Cardinality(Units(shown))' = Cardinality(Units(shown)) /\ Cardinality(Units(shown)) \in Nat
  BY <1>1, ShownTyped DEF Units
<1>5. adFaults' = 0 =>
        /\ Cardinality(Units(shown)) + Cardinality(Hopeful) <= CapPerDay
        /\ Cardinality(Units(shown)) + Cardinality(Hopeful) + Cardinality(U) <= exposure
  BY DEF Exposed
<1>6. Cardinality(U)' = Cardinality(U') /\ Cardinality(Hopeful)' = Cardinality(Hopeful')  OBVIOUS
<1>7. (r \in Hopeful <=> doing[r].eligible # {}) /\ r \in U  BY <1>1 DEF Hopeful, At, Filtering
<1>8. Cardinality(U) \in Nat /\ Cardinality(Hopeful) \in Nat  BY <1>2, RequestsFinite
<1> SUFFICES /\ Cardinality(U') <= exposure'
             /\ adFaults' = 0 =>
                   /\ Cardinality(Units(shown)) + Cardinality(Hopeful') <= CapPerDay
                   /\ Cardinality(Units(shown)) + Cardinality(Hopeful') + Cardinality(U') <= exposure'
  BY <1>4, <1>6 DEF Exposed
<1> HIDE DEF U
<1>9. U' = U \ {r}  BY <1>1, <1>2
<1>10. Cardinality(U') = Cardinality(U) - 1  BY <1>2, <1>7, <1>9, RequestsFinite
<1>11. Hopeful' \subseteq Hopeful  BY <1>1, <1>2, <1>7
<1>12. Cardinality(Hopeful') <= Cardinality(Hopeful) /\ Cardinality(Hopeful') \in Nat
  BY <1>2, <1>11, RequestsFinite
<1> QED BY <1>1, <1>3, <1>4, <1>5, <1>8, <1>10, <1>12

\* Who shows an ad had one eligible (RunAuction).
LEMMA ExposedByWin ==
    ASSUME AdFormed, Exposed, NEW r \in AdRequests, Win(r), doing'[r].step = "count"
    PROVE  Exposed'
<1> DEFINE U == At({"uncount"})
<1>1. /\ AdTurn(r) /\ doing[r].step = "filter" /\ doing'[r].eligible = {}
      /\ exposure' = exposure /\ adFaults' = adFaults
  BY WinTurn DEF Win
<1>2. PICK x \in doing[r].eligible : shown' = [shown EXCEPT ![x] = @ + 1]
  <2>1. "count" # "ended"  OBVIOUS
  <2> QED BY WinTurn, <2>1
<1>3. /\ U' \subseteq U \cup {r} /\ (r \in U' <=> doing'[r].step = "uncount")
      /\ Hopeful \ {r} = Hopeful' \ {r}
      /\ r \in Hopeful' <=> doing'[r].step \in Filtering /\ doing'[r].eligible # {}
      /\ U \subseteq AdRequests /\ Hopeful \subseteq AdRequests
  BY <1>1, StepsAfter
<1>4. exposure \in Nat /\ Cardinality(U) <= exposure /\ CapPerDay \in Nat
  BY AdAssumption DEF AdFormed, AdTypeOK, Exposed, AdAssumption
<1>5. Cardinality(Units(shown))' = Cardinality(Units(shown)) + 1 /\ Cardinality(Units(shown)) \in Nat
  BY <1>2, AdRecord, AdParts, ShownOnce DEF AdFormed, AdTypeOK, Units
<1>6. adFaults = 0 =>
        /\ Cardinality(Units(shown)) + Cardinality(Hopeful) <= CapPerDay
        /\ Cardinality(Units(shown)) + Cardinality(Hopeful) + Cardinality(U) <= exposure
  BY DEF Exposed
<1>7. Cardinality(U)' = Cardinality(U') /\ Cardinality(Hopeful)' = Cardinality(Hopeful')  OBVIOUS
<1>8. r \in Hopeful  BY <1>1, <1>2 DEF Hopeful, At, Filtering
<1>9. Cardinality(U) \in Nat /\ Cardinality(Hopeful) \in Nat  BY <1>3, RequestsFinite
<1> HIDE DEF U
<1>10. U' \subseteq U  BY <1>3
<1>11. Cardinality(U') <= Cardinality(U) /\ Cardinality(U') \in Nat  BY <1>3, <1>10, RequestsFinite
<1>12. Hopeful' = Hopeful \ {r}  BY <1>1, <1>3
<1>13. Cardinality(Hopeful') = Cardinality(Hopeful) - 1  BY <1>3, <1>8, <1>12, RequestsFinite
<1>14. /\ Cardinality(U)' <= exposure'
       /\ adFaults' = 0 =>
             /\ Cardinality(Units(shown))' + Cardinality(Hopeful)' <= CapPerDay
             /\ Cardinality(Units(shown))' + Cardinality(Hopeful)' + Cardinality(U)' <= exposure'
  BY <1>1, <1>4, <1>5, <1>6, <1>7, <1>9, <1>11, <1>13
<1> QED BY <1>14 DEF Exposed, U

\* Every step keeps the exposure right.
LEMMA ExposedKept ==
    ASSUME AdFormed, Exposed, NEW r \in AdRequests, AdMove(r)
    PROVE  Exposed'
<1>1. adFaults' = 0 => adFaults = 0  BY NoFaultBefore
<1>2. CASE FrequencyCapping(r)  BY <1>1, <1>2, ExposedByCap
<1>3. CASE Uncount(r)  BY <1>1, <1>3, ExposedByUncount
<1>4. CASE Win(r) /\ doing'[r].step = "count"  BY <1>4, ExposedByWin
<1>5. CASE Win(r) /\ doing'[r].step # "count"  BY <1>5, WinTurn, <1>1, ExposedApart DEF Win, Filtering
<1>6. CASE RunAuction(r)  BY <1>6, RunAuctionTurn, <1>1, ExposedApart DEF RunAuction
<1>7. CASE \E x \in Creatives : ExcludeAlreadySeen(r, x)
  BY <1>7, ExcludeTurn, <1>1, ExposedApart DEF ExcludeAlreadySeen, userSide, Hopeful, At, Filtering
<1>8. CASE MarkAdSeen(r)  BY <1>8, MarkTurn, <1>1, ExposedApart DEF MarkAdSeen, Filtering
<1>9. CASE IncrementImpressions(r) \/ Holds(r)
  BY IncrementTurn, HoldsPays, <1>9, <1>1, ExposedApart DEF IncrementImpressions, userSide, PayTurn, Filtering
<1>10. CASE AdCallFails(r)  BY <1>10, FailTurn, ExposedApart DEF userSide
<1> QED BY <1>2, <1>3, <1>4, <1>5, <1>6, <1>7, <1>8, <1>9, <1>10 DEF AdMove, Holds

--------
\* Auctions under way: who chooses is one, and who pays for an ad.
LEMMA UnderWayIs ==
    ASSUME AdFormed
    PROVE  /\ UnderWay \subseteq AdRequests
           /\ At(Filtering) \subseteq UnderWay /\ At({"cap"}) \subseteq UnderWay /\ At({"mark"}) \subseteq UnderWay
<1>1. \A s \in AdRequests : doing[s].step \in {"cap", "uncount", "mark"} => doing[s].ad # NoAd
  BY DEF AdFormed, AdShape
<1> QED BY <1>1 DEF UnderWay, At, Filtering

\* Who pays or manages changes nothing about what was shown and seen.
LEMMA SeenApart ==
    ASSUME AdFormed, SeenOnce, NEW r \in AdRequests, PayTurn(r), UNCHANGED userSide,
           adFaults' = 0 => adFaults = 0
    PROVE  SeenOnce'
<1>1. seen' = seen /\ shown' = shown /\ together' = together  BY DEF userSide
<1>2. \A s \in AdRequests \ {r} : doing'[s] = doing[s]  BY OthersStay DEF PayTurn
<1>3. /\ doing'[r].ad = doing[r].ad
      /\ doing[r].step \notin {"filter", "cap", "uncount", "ended"}
      /\ doing'[r].step \notin {"filter", "cap", "uncount"}
      /\ doing[r].ad # NoAd => doing'[r].step # "ended"
  BY DEF PayTurn, Filtering
<1>4. UnderWay' = UnderWay  BY <1>2, <1>3 DEF UnderWay
<1>5. At(Filtering)' = At(Filtering) /\ At({"cap"})' = At({"cap"}) /\ r \notin At(Filtering) /\ r \notin At({"cap"})
  BY <1>2, <1>3 DEF At, Filtering
<1> SUFFICES ASSUME adFaults' = 0, ~together'
             PROVE  /\ \A p, s \in UnderWay' : p = s
                    /\ \A x \in Creatives : shown'[x] <= 1
                    /\ \A x \in Creatives : shown'[x] # 0 =>
                          x \in seen' \/ \E s \in UnderWay' : doing'[s].ad = x /\ doing'[s].step \notin Filtering
                    /\ \A s \in At(Filtering)' : \A x \in doing'[s].eligible : shown'[x] = 0
                    /\ \A s \in At({"cap"})' : shown'[doing'[s].ad] = 0
  BY DEF SeenOnce, Filtering
<1>6. /\ \A p, s \in UnderWay : p = s
      /\ \A x \in Creatives : shown[x] <= 1
      /\ \A x \in Creatives : shown[x] # 0 =>
            x \in seen \/ \E s \in UnderWay : doing[s].ad = x /\ doing[s].step \notin Filtering
      /\ \A s \in At(Filtering) : \A x \in doing[s].eligible : shown[x] = 0
      /\ \A s \in At({"cap"}) : shown[doing[s].ad] = 0
  BY <1>1 DEF SeenOnce
<1>7. \A s \in UnderWay : doing[s].step \notin Filtering =>
          doing'[s].ad = doing[s].ad /\ doing'[s].step \notin Filtering
  BY <1>2, <1>3 DEF UnderWay, Filtering
<1>8. \A x \in Creatives : shown'[x] # 0 =>
          x \in seen' \/ \E s \in UnderWay' : doing'[s].ad = x /\ doing'[s].step \notin Filtering
  BY <1>1, <1>6, <1>7, <1>4
<1>9. \A s \in At(Filtering) : s \in AdRequests \ {r}  BY <1>5 DEF At
<1>10. \A s \in At({"cap"}) : s \in AdRequests \ {r}  BY <1>5 DEF At
<1>11. /\ \A s \in At(Filtering)' : \A x \in doing'[s].eligible : shown'[x] = 0
       /\ \A s \in At({"cap"})' : shown'[doing'[s].ad] = 0
  BY <1>1, <1>2, <1>5, <1>6, <1>9, <1>10
<1> QED BY <1>1, <1>4, <1>6, <1>8, <1>11

\* What the next state is about where only r is an auction under way.
LEMMA SeenByOne ==
    ASSUME AdFormed, AdFormed', NEW r \in AdRequests, AdTurn(r),
           \A s \in UnderWay : s = r,
           \A x \in Creatives : shown'[x] <= 1,
           \A x \in Creatives : shown'[x] # 0 =>
               \/ x \in seen'
               \/ /\ doing'[r].ad = x /\ doing'[r].ad # NoAd
                  /\ doing'[r].step \notin Filtering \cup {"ended"},
           doing'[r].step \in Filtering => \A x \in doing'[r].eligible : shown'[x] = 0,
           doing'[r].step = "cap" => shown'[doing'[r].ad] = 0
    PROVE  SeenOnce'
<1>1. \A s \in AdRequests \ {r} : doing'[s] = doing[s]  BY OthersStay
<1>2. UnderWay' \subseteq {r}  BY <1>1 DEF UnderWay
<1>3. At(Filtering)' \subseteq UnderWay' /\ At({"cap"})' \subseteq UnderWay'
  BY DEF AdFormed, AdShape, UnderWay, At, Filtering
<1>4. \A x \in Creatives : shown'[x] # 0 =>
          x \in seen' \/ \E s \in UnderWay' : doing'[s].ad = x /\ doing'[s].step \notin Filtering
  BY DEF UnderWay
<1>5. /\ \A s \in At(Filtering)' : s = r /\ doing'[s].step \in Filtering
      /\ \A s \in At({"cap"})' : s = r /\ doing'[s].step = "cap"
  BY <1>2, <1>3 DEF At
<1>6. /\ \A p, s \in UnderWay' : p = s
      /\ \A s \in At(Filtering)' : \A x \in doing'[s].eligible : shown'[x] = 0
      /\ \A s \in At({"cap"})' : shown'[doing'[s].ad] = 0
  BY <1>2, <1>5
<1> QED BY <1>4, <1>6 DEF SeenOnce, Filtering

\* Every step keeps what is shown once.
LEMMA SeenKept ==
    ASSUME AdFormed, AdFormed', SeenOnce, NEW r \in AdRequests, AdMove(r), AdTurn(r)
    PROVE  SeenOnce'
<1>1. adFaults' = 0 => adFaults = 0  BY NoFaultBefore
<1>2. CASE IncrementImpressions(r) \/ Holds(r)
  <2>1. PayTurn(r) /\ UNCHANGED userSide  BY IncrementTurn, HoldsPays, <1>2 DEF IncrementImpressions
  <2> QED BY <1>1, <2>1, SeenApart
<1>3. CASE adFaults' # 0 \/ together'  BY <1>3 DEF SeenOnce
<1>4. CASE RunAuction(r) /\ adFaults' = 0 /\ ~together'
  BY <1>4, RunAuctionTurn, <1>1, SeenByOne DEF RunAuction, SeenOnce
<1>5. ASSUME adFaults' = 0, ~together', UNCHANGED together,
             doing[r].step \in {"filter", "cap", "uncount", "mark"}
      PROVE  /\ \A s \in UnderWay : s = r
             /\ \A x \in Creatives : shown[x] <= 1
             /\ \A x \in Creatives : shown[x] # 0 =>
                   x \in seen \/ (doing[r].step = "mark" /\ doing[r].ad = x)
             /\ doing[r].step # "mark" => \A x \in doing[r].eligible : shown[x] = 0
             /\ doing[r].step = "cap" => shown[doing[r].ad] = 0
  <2>1. r \in UnderWay  BY <1>5, UnderWayIs DEF At, Filtering
  <2>2. /\ \A p, s \in UnderWay : p = s
        /\ \A x \in Creatives : shown[x] <= 1
        /\ \A x \in Creatives : shown[x] # 0 =>
              x \in seen \/ \E s \in UnderWay : doing[s].ad = x /\ doing[s].step \notin Filtering
        /\ \A s \in At(Filtering) : \A x \in doing[s].eligible : shown[x] = 0
        /\ \A s \in At({"cap"}) : shown[doing[s].ad] = 0
    BY <1>1, <1>5 DEF SeenOnce
  <2>3. \A s \in UnderWay : s = r  BY <2>1, <2>2
  <2>4. \A x \in Creatives : shown[x] # 0 => x \in seen \/ (doing[r].step = "mark" /\ doing[r].ad = x)
    BY <1>5, <2>2, <2>3 DEF Filtering
  <2>5. doing[r].step # "mark" => \A x \in doing[r].eligible : shown[x] = 0  BY <1>5, <2>2 DEF At, Filtering
  <2>6. doing[r].step = "cap" => shown[doing[r].ad] = 0  BY <2>2 DEF At
  <2> QED BY <2>2, <2>3, <2>4, <2>5, <2>6
<1>6. CASE (\E x \in Creatives : ExcludeAlreadySeen(r, x)) /\ adFaults' = 0 /\ ~together'
  <2>1. PICK x \in Creatives : ExcludeAlreadySeen(r, x)  BY <1>6
  <2>2. /\ doing[r].step = "filter" /\ doing'[r].step \in {"filter", "cap"}
        /\ doing'[r].eligible = doing[r].eligible /\ doing'[r].ad = x
        /\ x \in seen => doing'[r].step = "filter"
    BY <1>6, <2>1, ExcludeTurn
  <2>3. together' = together /\ shown' = shown /\ seen' = seen  BY <2>1 DEF ExcludeAlreadySeen, userSide
  <2>4. /\ \A s \in UnderWay : s = r
        /\ \A y \in Creatives : shown[y] <= 1
        /\ \A y \in Creatives : shown[y] # 0 => y \in seen
        /\ \A y \in doing[r].eligible : shown[y] = 0
    BY <1>5, <1>6, <2>2, <2>3
  <2>5. doing'[r].step = "cap" => shown'[doing'[r].ad] = 0  BY <2>2, <2>3, <2>4
  <2> QED BY <2>2, <2>3, <2>4, <2>5, SeenByOne
<1>7. CASE FrequencyCapping(r) /\ adFaults' = 0 /\ ~together'
  <2>1. /\ doing[r].step = "cap" /\ doing'[r].step \in {"filter", "uncount"}
        /\ doing'[r].eligible \subseteq doing[r].eligible \cup {doing[r].ad}
    BY <1>7, FrequencyTurn
  <2>2. together' = together /\ shown' = shown /\ seen' = seen  BY <1>7 DEF FrequencyCapping
  <2>3. /\ \A s \in UnderWay : s = r
        /\ \A y \in Creatives : shown[y] <= 1
        /\ \A y \in Creatives : shown[y] # 0 => y \in seen
        /\ \A y \in doing[r].eligible : shown[y] = 0
        /\ shown[doing[r].ad] = 0
    BY <1>5, <1>7, <2>1, <2>2
  <2>4. (\A y \in doing'[r].eligible : shown'[y] = 0) /\ doing'[r].step # "cap"  BY <2>1, <2>2, <2>3
  <2> QED BY <2>2, <2>3, <2>4, SeenByOne
<1>8. CASE Uncount(r) /\ adFaults' = 0 /\ ~together'  BY <1>8, UncountTurn, <1>5, SeenByOne DEF Uncount
<1>9. CASE Win(r) /\ adFaults' = 0 /\ ~together'
  <2>1. /\ doing[r].step = "filter"
        /\ \/ /\ doing'[r].step = "count" /\ doing'[r].eligible = {}
              /\ \E x \in doing[r].eligible : doing'[r].ad = x /\ shown' = [shown EXCEPT ![x] = @ + 1]
           \/ doing'[r].step = "ended" /\ shown' = shown
    BY <1>9, WinTurn
  <2>2. together' = together /\ seen' = seen  BY <1>9 DEF Win
  <2>3. /\ \A s \in UnderWay : s = r
        /\ \A y \in Creatives : shown[y] <= 1
        /\ \A y \in Creatives : shown[y] # 0 => y \in seen
        /\ \A y \in doing[r].eligible : shown[y] = 0
    BY <1>5, <1>9, <2>1, <2>2
  <2>4. CASE doing'[r].step = "ended" /\ shown' = shown  BY <2>4, <2>2, <2>3, SeenByOne DEF Filtering
  <2>5. CASE /\ doing'[r].step = "count" /\ doing'[r].eligible = {}
             /\ \E x \in doing[r].eligible : doing'[r].ad = x /\ shown' = [shown EXCEPT ![x] = @ + 1]
    <3>1. PICK x \in doing[r].eligible : doing'[r].ad = x /\ shown' = [shown EXCEPT ![x] = @ + 1]  BY <2>5
    <3>2. x \in Creatives /\ x # NoAd /\ shown \in [Creatives -> Nat]
      BY <3>1, AdRecord, AdParts, FreshTyped DEF AdFormed, AdTypeOK
    <3>3. \A y \in Creatives : shown'[y] = IF y = x THEN shown[y] + 1 ELSE shown[y]  BY <3>1, <3>2
    <3>4. \A y \in Creatives : shown'[y] <= 1  BY <2>3, <3>2, <3>3
    <3>5. /\ doing'[r].step \notin Filtering \cup {"ended"} /\ doing'[r].step # "cap"
          /\ doing'[r].step \notin Filtering
      BY <2>5 DEF Filtering
    <3>6. \A y \in Creatives : shown'[y] # 0 =>
             \/ y \in seen'
             \/ /\ doing'[r].ad = y /\ doing'[r].ad # NoAd
                /\ doing'[r].step \notin Filtering \cup {"ended"}
      BY <2>2, <2>3, <3>1, <3>2, <3>3, <3>5
    <3> QED BY <2>3, <3>4, <3>5, <3>6, SeenByOne
  <2> QED BY <2>1, <2>4, <2>5
<1>10. CASE MarkAdSeen(r) /\ adFaults' = 0 /\ ~together'
  BY <1>10, MarkTurn, <1>5, SeenByOne DEF MarkAdSeen, Filtering
<1>11. CASE AdCallFails(r)
  <2>1. adFaults' # 0  BY <1>11, FailTurn
  <2> QED BY <1>3, <2>1
<1> QED BY <1>2, <1>3, <1>4, <1>6, <1>7, <1>8, <1>9, <1>10, <1>11 DEF AdMove, Holds

--------
\* It holds at first: nothing was shown, counted or spent.
LEMMA AdBegins == AdInit => AdInv
<1> SUFFICES ASSUME AdInit PROVE AdInv  OBVIOUS
<1>1. \A r \in AdRequests : doing[r] = Fresh  BY DEF AdInit
<1>2. doing \in [AdRequests -> AdWorks]  BY FreshTyped DEF AdInit
<1>3. AdFormed
  <2>1. campaign \in Campaigns /\ budget \in AdRows /\ counted \in Nat /\ met \in BOOLEAN /\ exposure \in Nat
        /\ seen \subseteq Creatives /\ shown \in [Creatives -> Nat] /\ together \in BOOLEAN
        /\ adFaults \in 0..MaxAdFaults
    <3>1. 0 \in 0..MaxAdFaults  BY AdAssumption DEF AdAssumption
    <3>2. campaign \in Campaigns /\ budget \in AdRows /\ counted \in Nat /\ exposure \in Nat
          /\ seen \subseteq Creatives /\ shown \in [Creatives -> Nat] /\ adFaults \in 0..MaxAdFaults
      BY <3>1, FreshTyped DEF AdInit
    <3>3. met \in BOOLEAN /\ together \in BOOLEAN  BY DEF AdInit
    <3> QED BY <3>2, <3>3
  <2>2. AdTypeOK  BY <1>2, <2>1 DEF AdTypeOK, AdWorks, AdRows
  <2> QED BY <1>1, <2>2, FreshTyped DEF AdFormed
<1>4. \A r \in AdRequests : doing[r].step = "new" /\ doing[r].eligible = {} /\ doing[r].ad = NoAd
  BY <1>1 DEF Fresh
<1>5. /\ At({"uncount"}) = {} /\ At(Filtering) = {} /\ At({"cap"}) = {} /\ At(Holding) = {}
      /\ Hopeful = {} /\ UnderWay = {} /\ At({"spend", "pause", "write", "save"}) = {}
  BY <1>4 DEF At, Hopeful, UnderWay, Filtering, Holding
<1>6. Units(shown) = {} /\ Units(Owed) = {}  BY <1>5 DEF AdInit, Owed, Units
<1>7. Exposed  BY AdAssumption, <1>5, <1>6, FS_EmptySet DEF AdInit, AdAssumption, Exposed
<1>8. SeenOnce  BY <1>5 DEF AdInit, SeenOnce
<1>9. Spent  BY <1>4, <1>6, FS_EmptySet, <1>5 DEF AdInit, NoRow, HeldAlone, Spent
<1> QED BY <1>3, <1>7, <1>8, <1>9 DEF AdInv

\* A step that changes nothing of the service keeps it.
LEMMA AdStutters == ASSUME AdInv, UNCHANGED adVars PROVE AdInv'
<1>1. /\ campaign' = campaign /\ budget' = budget /\ counted' = counted /\ met' = met /\ exposure' = exposure
      /\ seen' = seen /\ shown' = shown /\ doing' = doing /\ together' = together /\ adFaults' = adFaults
  BY DEF adVars
<1>2. AdFormed'  BY <1>1 DEF AdInv, AdFormed, AdTypeOK
<1>3. /\ \A steps : At(steps)' = At(steps)
      /\ UnderWay' = UnderWay /\ Hopeful' = Hopeful /\ Owed' = Owed
  BY <1>1 DEF At, UnderWay, Hopeful, Owed
<1>4. Units(shown)' = Units(shown) /\ Units(Owed)' = Units(Owed)  BY <1>1, <1>3 DEF Units
<1>5. At({"uncount"})' = At({"uncount"}) /\ At(Filtering)' = At(Filtering) /\ At({"cap"})' = At({"cap"})
      /\ At(Holding)' = At(Holding)
  BY <1>1 DEF At
<1>6. Exposed'  BY <1>1, <1>3, <1>4, <1>5 DEF AdInv, Exposed
<1>7. SeenOnce'  BY <1>1, <1>3, <1>5 DEF AdInv, SeenOnce
<1>8. Spent'  BY <1>1, <1>4, <1>5 DEF AdInv, Spent
<1> QED BY <1>2, <1>6, <1>7, <1>8 DEF AdInv

\* Every step keeps the invariant.
LEMMA AdInductive == AdInv /\ [AdNext]_adVars => AdInv'
<1> SUFFICES ASSUME AdInv, [AdNext]_adVars PROVE AdInv'  OBVIOUS
<1>1. CASE AdNext
  <2>1. PICK r \in AdRequests : AdMove(r)  BY <1>1 DEF AdNext, AdMove
  <2>2. AdFormed /\ Exposed /\ SeenOnce /\ Spent  BY DEF AdInv
  <2>3. AdTurn(r) /\ AdFormed'  BY <2>1, <2>2, AdFormedKept
  <2>4. Exposed'  BY <2>1, <2>2, ExposedKept
  <2>5. SeenOnce'  BY <2>1, <2>2, <2>3, SeenKept
  <2>6. Spent'  BY <2>1, <2>2, <2>3, SpentKept
  <2> QED BY <2>3, <2>4, <2>5, <2>6 DEF AdInv
<1>2. CASE UNCHANGED adVars  BY <1>2, AdStutters
<1> QED BY <1>1, <1>2

\* So it always holds.
LEMMA AdInvHolds == AdSpec => []AdInv
BY AdBegins, AdInductive, PTL DEF AdSpec

\* The types of campaign, budget and requests, in every reachable state.
THEOREM AdTypesHold == AdSpec => []AdTypeOK
<1>1. AdInv => AdTypeOK  BY DEF AdInv, AdFormed
<1> QED BY <1>1, AdInvHolds, PTL

\* For any number of ads, requests and failures, any cap, prices and budgets: without a failure a
\* user meets the ad set within its cap, and an ad again only if two auctions ran together; where no
\* request met another one, every counted charge is in the budget or on its way, and a campaign
\* whose budget is exhausted is paused or about to be.
THEOREM AdsStayAccounted == AdSpec => []AdsAreAccounted
<1>1. AdInv => AdsAreAccounted
  <2> SUFFICES ASSUME AdInv PROVE AdsAreAccounted  OBVIOUS
  <2>1. ExposureIsCapped
    BY RequestsFinite, ShownTyped, AdAssumption DEF ExposureIsCapped, AdInv, Exposed, Hopeful, At,
       AdAssumption, SeenOnce
  <2>2. SpendStops  BY DEF SpendStops, AdInv, Spent, Stops, At
  <2> QED BY <2>1, <2>2 DEF AdsAreAccounted
<1> QED BY <1>1, AdInvHolds, PTL

--------
\* The components together (MCContent): a behaviour is one of each.

\* A step of the whole is, for each component, one of its steps or none.
LEMMA NextOfEach ==
    [Next]_vars => /\ [RateNext]_rateVars /\ [ModNext]_modVars /\ [ReviewNext]_reviewVars
                   /\ [NoteNext]_noteVars /\ [ActNext]_actVars /\ [AdNext]_adVars
BY DEF Next, vars, RateStep, ModerationStep, ReviewStep, NoteStep, ActStep, AdStep

\* So whatever holds of a component holds in the whole.
LEMMA EachRuns == Spec => RateSpec /\ ModSpec /\ ReviewSpec /\ NoteSpec /\ ActSpec /\ AdSpec
<1>1. Init => RateInit /\ ModInit /\ ReviewInit /\ NoteInit /\ ActInit /\ AdInit  BY DEF Init
<1> QED BY <1>1, NextOfEach, PTL DEF Spec, RateSpec, ModSpec, ReviewSpec, NoteSpec, ActSpec, AdSpec

\* In every run of the whole the component in use keeps the types of its variables: the gateway
\* and its limits, moderation and its reviews, notifications, likes and replies, and the ads.
THEOREM ContentTypesHold == Spec => []TypesOK
<1>1. RateTypeOK /\ ModTypeOK /\ ReviewTypeOK /\ NoteTypeOK /\ ActTypeOK /\ AdTypeOK => TypesOK
  BY DEF TypesOK
<1> QED
  BY <1>1, EachRuns, RateTypesHold, ModTypesHold, ReviewTypesHold, NoteTypesHold, ActTypesHold,
     AdTypesHold, PTL

=====
