---- MODULE SessionCache ----
\* The session cache of the Redis library, for one user: sessions that
\* are read, changed and written back whole; the set that lists them; the
\* key that names the session of each device; and the tokens that are
\* refused.  A pipeline in MULTI is one step, every other command is one
\* of its own.
\*
\* A session and a token are named after the request that made them.
EXTENDS Naturals, FiniteSets

CONSTANTS
    SessCalls,            \* requests
    Devices,
    MaxSessionsPerUser,
    MaxSessFaults         \* commands that fail and keys that expire (bounds them)

ASSUME SessionAssumption == MaxSessionsPerUser \in Nat \ {0} /\ MaxSessFaults \in Nat

VARIABLES
    sess,                 \* session:<id>
    userSessions,         \* user_sessions:<user>
    deviceSession,        \* device_session:<user>:<device>: none or one session
    revokedTokens,
    issued,               \* the session each token was made for
    born,                 \* sessions in the order of their creation
    stale,                \* sessions a goroutine is about to take from the list
    sessCall,             \* what each request does
    told,                 \* sessions whose end was confirmed
    passedOver,               \* sessions that could not be read when all were to be ended
    crossed,              \* a request wrote over what had changed since it was read
    sessFaults

sessVars == <<sess, userSessions, deviceSession, revokedTokens, issued, born, stale, sessCall, told, passedOver, crossed, sessFaults>>

GoneSession == [live |-> FALSE, device |-> {}, jti |-> {}]
SessKinds == {"create", "touch", "refresh", "revoke", "some", "all"}
SessSteps == {"new", "lookup", "get", "touch", "renew", "end", "write", "limit", "gather", "endall", "ended"}
FreshSess == [kind |-> "touch", step |-> "new", device |-> {}, target |-> {}, read |-> GoneSession,
          todo |-> {}, members |-> {}, found |-> {}]

\* CreateSession of a first session, or nothing yet.
SessInit ==
    \E C \in SUBSET SessCalls, d \in Devices :
        /\ Cardinality(C) <= 1
        /\ sess = [s \in SessCalls |-> IF s \in C THEN [live |-> TRUE, device |-> {d}, jti |-> {s}] ELSE GoneSession]
        /\ userSessions = C /\ deviceSession = [e \in Devices |-> IF e = d THEN C ELSE {}]
        /\ revokedTokens = {} /\ issued = [c \in SessCalls |-> IF c \in C THEN C ELSE {}]
        /\ born = [s \in SessCalls |-> IF s \in C THEN 1 ELSE 0] /\ stale = {}
        /\ sessCall = [c \in SessCalls |-> IF c \in C THEN [FreshSess EXCEPT !.step = "ended"] ELSE FreshSess]
        /\ told = {} /\ passedOver = {} /\ crossed = FALSE /\ sessFaults = 0

--------
Live == {s \in SessCalls : sess[s].live}
Current(c) == {s \in sessCall[c].target : sess[s] # sessCall[c].read} = {}
Ended(c) == [FreshSess EXCEPT !.kind = sessCall[c].kind, !.step = "ended"]
Sess(c, step) == sessCall' = [sessCall EXCEPT ![c] = IF step = "ended" THEN Ended(c) ELSE [@ EXCEPT !.step = step]]
SessBegins(c, kind, step, device, target) ==
    /\ sessCall[c].step = "new"
    /\ sessCall' = [sessCall EXCEPT ![c].kind = kind, ![c].step = step, ![c].device = device, ![c].target = target]
    /\ UNCHANGED <<sess, userSessions, deviceSession, revokedTokens, issued, born, stale, told, passedOver, crossed, sessFaults>>

CreateSession(c) == \E d \in Devices : SessBegins(c, "create", "lookup", {d}, {})
TouchSession(c) == \E s \in SessCalls : born[s] > 0 /\ SessBegins(c, "touch", "get", {}, {s})
RefreshSession(c) == \E s \in SessCalls : born[s] > 0 /\ SessBegins(c, "refresh", "get", {}, {s})
RevokeSession(c) == \E s \in SessCalls : born[s] > 0 /\ SessBegins(c, "revoke", "get", {}, {s})

\* What a request goes on with when one session is done: the next one it has to end, the session
\* it was to create, or nothing.
Oldest(S) == {s \in S : \A t \in S : born[s] <= born[t]}
Onward(c, todo) ==
    IF sessCall[c].kind = "create" /\ born[c] = 0 THEN [sessCall[c] EXCEPT !.step = "write", !.read = GoneSession]
    ELSE IF todo = {} THEN Ended(c)
    ELSE [sessCall[c] EXCEPT !.step = "get", !.device = {}, !.read = GoneSession, !.target = Oldest(todo), !.todo = todo \ Oldest(todo)]

\* CreateSession ends the session that the device has.
LookUpDevice(c) ==
    /\ sessCall[c].step = "lookup"
    /\ LET old == UNION {deviceSession[d] : d \in sessCall[c].device}
       IN sessCall' = [sessCall EXCEPT ![c].target = old, ![c].step = IF old = {} THEN "write" ELSE "get"]
    /\ UNCHANGED <<sess, userSessions, deviceSession, revokedTokens, issued, born, stale, told, passedOver, crossed, sessFaults>>

\* GetSession reads the session, and writes it back with a later end.  One that is gone needs no
\* ending: it stays on the list, and its device key too.
GetSession(c) ==
    /\ sessCall[c].step = "get"
    /\ \E s \in sessCall[c].target :
          IF sess[s].live
          THEN sessCall' = [sessCall EXCEPT ![c].read = sess[s], ![c].step = "touch"] /\ UNCHANGED told
          ELSE /\ sessCall' = [sessCall EXCEPT ![c] = Onward(c, sessCall[c].todo)]
               /\ told' = IF sessCall[c].kind \in {"touch", "refresh"} THEN told ELSE told \cup {s}
    /\ UNCHANGED <<sess, userSessions, deviceSession, revokedTokens, issued, born, stale, passedOver, crossed, sessFaults>>
AfterRead(c) == CASE sessCall[c].kind = "touch" -> "ended"
                  [] sessCall[c].kind = "refresh" -> "renew"
                  [] OTHER -> "end"
WriteBack(c) ==
    /\ sessCall[c].step = "touch"
    /\ sess' = [s \in SessCalls |-> IF s \in sessCall[c].target THEN sessCall[c].read ELSE sess[s]]
    /\ crossed' = (crossed \/ ~Current(c))
    /\ Sess(c, AfterRead(c))
    /\ UNCHANGED <<userSessions, deviceSession, revokedTokens, issued, born, stale, told, passedOver, sessFaults>>

\* The token that was read is refused from now on.
Refused(c) == revokedTokens \cup sessCall[c].read.jti

RenewToken(c) ==
    /\ sessCall[c].step = "renew"
    /\ sess' = [s \in SessCalls |-> IF s \in sessCall[c].target THEN [sessCall[c].read EXCEPT !.jti = {c}] ELSE sess[s]]
    /\ issued' = [issued EXCEPT ![c] = sessCall[c].target]
    /\ revokedTokens' = Refused(c)
    /\ crossed' = (crossed \/ ~Current(c))
    /\ Sess(c, "ended")
    /\ UNCHANGED <<userSessions, deviceSession, born, stale, told, passedOver, sessFaults>>

\* revokeSessionByID: the key of the session's device goes, whatever it names by now.
revokeSessionByID(c) ==
    /\ sessCall[c].step = "end"
    /\ sess' = [s \in SessCalls |-> IF s \in sessCall[c].target THEN GoneSession ELSE sess[s]]
    /\ userSessions' = userSessions \ sessCall[c].target
    /\ deviceSession' = [d \in Devices |-> IF d \in sessCall[c].read.device THEN {} ELSE deviceSession[d]]
    /\ revokedTokens' = Refused(c)
    /\ told' = told \cup sessCall[c].target
    /\ crossed' = (crossed \/ ~Current(c)
                   \/ \E d \in sessCall[c].read.device : ~(deviceSession[d] \subseteq sessCall[c].target))
    /\ sessCall' = [sessCall EXCEPT ![c] = Onward(c, sessCall[c].todo)]
    /\ UNCHANGED <<issued, born, stale, passedOver, sessFaults>>

WriteSession(c) ==
    /\ sessCall[c].step = "write"
    /\ sess' = [sess EXCEPT ![c] = [live |-> TRUE, device |-> sessCall[c].device, jti |-> {c}]]
    /\ userSessions' = userSessions \cup {c}
    /\ deviceSession' = [d \in Devices |-> IF d \in sessCall[c].device THEN {c} ELSE deviceSession[d]]
    /\ issued' = [issued EXCEPT ![c] = {c}]
    /\ born' = [born EXCEPT ![c] = Cardinality({s \in SessCalls : born[s] > 0}) + 1]
    /\ crossed' = (crossed \/ \E d \in sessCall[c].device : ~(deviceSession[d] \subseteq sessCall[c].target))
    /\ Sess(c, "limit")
    /\ UNCHANGED <<revokedTokens, stale, told, passedOver, sessFaults>>

\* ListUserSessions: those on the list that are there; a goroutine takes the others from it.
ListUserSessions == userSessions \cap Live
PurgesStale == stale' = stale \cup (userSessions \ Live)

\* enforceSessionLimit: the oldest of too many.
TooOld(S) == {s \in S : Cardinality({t \in S : born[t] > born[s]}) >= MaxSessionsPerUser}
enforceSessionLimit(c) ==
    /\ sessCall[c].step = "limit"
    /\ sessCall' = [sessCall EXCEPT ![c] = Onward(c, TooOld(ListUserSessions))]
    /\ PurgesStale
    /\ UNCHANGED <<sess, userSessions, deviceSession, revokedTokens, issued, born, told, passedOver, crossed, sessFaults>>

\* Those of one address: any of them.
RevokeSessionsByIP(c) ==
    /\ sessCall[c].step = "new"
    /\ \E S \in SUBSET ListUserSessions :
          S # {} /\ sessCall' = [sessCall EXCEPT ![c] = Onward(c, S), ![c].kind = "some"]
    /\ PurgesStale
    /\ UNCHANGED <<sess, userSessions, deviceSession, revokedTokens, issued, born, told, passedOver, crossed, sessFaults>>
PurgeStale ==
    /\ stale # {} /\ stale' = {}
    /\ \/ userSessions' = userSessions \ stale /\ UNCHANGED sessFaults
       \/ sessFaults < MaxSessFaults /\ sessFaults' = sessFaults + 1 /\ UNCHANGED userSessions
    /\ UNCHANGED <<sess, deviceSession, revokedTokens, issued, born, sessCall, told, passedOver, crossed>>

\* RevokeAllSessions reads the list, then each session; then the list goes as a whole.
RevokeAllSessions(c) ==
    /\ sessCall[c].step = "new" /\ userSessions # {}
    /\ sessCall' = [sessCall EXCEPT ![c].kind = "all", ![c].step = "gather", ![c].todo = userSessions,
                                    ![c].members = userSessions]
    /\ UNCHANGED <<sess, userSessions, deviceSession, revokedTokens, issued, born, stale, told, passedOver, crossed, sessFaults>>
Gathers(c, s, read) ==
    sessCall' = [sessCall EXCEPT
        ![c].todo = @ \ {s}, ![c].step = IF sessCall[c].todo = {s} THEN "endall" ELSE "gather",
        ![c].found = IF read THEN @ \cup {[id |-> s, jti |-> sess[s].jti]} ELSE @]
GatherSession(c) ==
    /\ sessCall[c].step = "gather"
    /\ \E s \in sessCall[c].todo :
          /\ Gathers(c, s, sess[s].live)
          /\ deviceSession' = IF sess[s].live
                              THEN [d \in Devices |-> IF d \in sess[s].device THEN {} ELSE deviceSession[d]]
                              ELSE deviceSession
          /\ crossed' = (crossed \/ \E d \in sess[s].device : ~(deviceSession[d] \subseteq {s}))
    /\ UNCHANGED <<sess, userSessions, revokedTokens, issued, born, stale, told, passedOver, sessFaults>>
\* One that could not be read is passed over.
GatherSkips(c) == \E s \in sessCall[c].todo : Gathers(c, s, FALSE) /\ passedOver' = passedOver \cup {s}
EndAllSessions(c) ==
    LET found == sessCall[c].found
        gone == {f.id : f \in found}
    IN /\ sessCall[c].step = "endall"
       /\ sess' = [s \in SessCalls |-> IF s \in gone THEN GoneSession ELSE sess[s]]
       /\ userSessions' = {}
       /\ revokedTokens' = revokedTokens \cup UNION {f.jti : f \in found}
       /\ told' = told \cup sessCall[c].members
       /\ crossed' = (crossed \/ userSessions # sessCall[c].members
                      \/ \E f \in found : sess[f.id].jti # f.jti)
       /\ Sess(c, "ended")
       /\ UNCHANGED <<deviceSession, issued, born, stale, passedOver, sessFaults>>

--------
\* A session or the key of a device reaches its time to live: the key is not extended with the
\* session.
KeyExpires ==
    /\ sessFaults < MaxSessFaults /\ sessFaults' = sessFaults + 1
    /\ \/ \E s \in Live : sess' = [sess EXCEPT ![s] = GoneSession] /\ UNCHANGED deviceSession
       \/ \E d \in Devices : /\ deviceSession[d] # {}
                             /\ deviceSession' = [deviceSession EXCEPT ![d] = {}] /\ UNCHANGED sess
    /\ UNCHANGED <<userSessions, revokedTokens, issued, born, stale, sessCall, told, passedOver, crossed>>

\* A command fails.  A session that was read is none the worse for not being written back; one
\* that could not be ended does not keep another from being made, nor the next of an address
\* from being ended; one that could not be read when all are ended is passed over, and its list
\* goes all the same.  Any other failure ends the request.
CommandFails(c) ==
    LET s == sessCall[c]
    IN /\ sessFaults < MaxSessFaults /\ sessFaults' = sessFaults + 1
       /\ \/ s.step = "lookup" /\ Sess(c, "write") /\ UNCHANGED passedOver
          \/ s.step = "touch" /\ Sess(c, AfterRead(c)) /\ UNCHANGED passedOver
          \/ /\ s.step \in {"get", "end"} /\ UNCHANGED passedOver
             /\ sessCall' = [sessCall EXCEPT ![c] = IF s.kind = "some" \/ (s.kind = "create" /\ born[c] = 0)
                                                    THEN Onward(c, s.todo) ELSE Ended(c)]
          \/ s.step = "gather" /\ GatherSkips(c)
          \/ /\ s.step = "gather" /\ UNCHANGED passedOver       \* the device's key stays
             /\ \E t \in s.todo \cap Live : Gathers(c, t, TRUE)
          \/ s.step \in {"renew", "write", "limit", "endall"} /\ Sess(c, "ended") /\ UNCHANGED passedOver
       /\ UNCHANGED <<sess, userSessions, deviceSession, revokedTokens, issued, born, stale, told, crossed>>

SessNext ==
    \/ \E c \in SessCalls :
          \/ CreateSession(c) \/ TouchSession(c) \/ RefreshSession(c) \/ RevokeSession(c)
          \/ RevokeSessionsByIP(c) \/ RevokeAllSessions(c)
          \/ LookUpDevice(c) \/ GetSession(c) \/ WriteBack(c) \/ RenewToken(c) \/ revokeSessionByID(c)
          \/ WriteSession(c) \/ enforceSessionLimit(c) \/ GatherSession(c) \/ EndAllSessions(c)
          \/ CommandFails(c)
    \/ PurgeStale \/ KeyExpires

SessSpec == SessInit /\ [][SessNext]_sessVars

--------
\* Properties.

SessTypeOK ==
    LET Sessions == [live : BOOLEAN, device : SUBSET Devices, jti : SUBSET SessCalls]
    IN /\ sess \in [SessCalls -> Sessions]
       /\ userSessions \subseteq SessCalls /\ deviceSession \in [Devices -> SUBSET SessCalls]
       /\ \A d \in Devices : Cardinality(deviceSession[d]) <= 1
       /\ revokedTokens \subseteq SessCalls /\ issued \in [SessCalls -> SUBSET SessCalls]
       /\ born \in [SessCalls -> 0..Cardinality(SessCalls)]
       /\ stale \cup told \cup passedOver \subseteq SessCalls
       /\ \A c \in SessCalls : /\ sessCall[c].kind \in SessKinds /\ sessCall[c].step \in SessSteps
                               /\ sessCall[c].read \in Sessions
       /\ crossed \in BOOLEAN /\ sessFaults \in 0..MaxSessFaults

\* A session whose end was confirmed is gone, and no token of it is accepted, unless a request
\* wrote over what had changed since it was read, or a key had expired with its token unread.
EndedForGood ==
    ~crossed /\ sessFaults = 0 =>
        \A s \in told : ~sess[s].live /\ \A j \in SessCalls : s \in issued[j] => j \in revokedTokens

\* A live session has one token that is accepted, and is on the list by which all are ended,
\* unless it could not be read when they were: the list went without it.
LiveAreListed ==
    ~crossed => /\ Live \subseteq userSessions \cup passedOver
                /\ \A j \in SessCalls : issued[j] \cap Live # {} =>
                       (j \notin revokedTokens) = (j \in UNION {sess[s].jti : s \in Live})

\* A device has one session, unless all are being ended, and once the creations are through there are no more than allowed.
SessionsAreFew ==
    ~crossed /\ sessFaults = 0 =>
        /\ (\A c \in SessCalls : sessCall[c].step \notin {"gather", "endall"})
               => \A d \in Devices : {s \in Live : sess[s].device = {d}} \subseteq deviceSession[d]
        /\ (\A c \in SessCalls : sessCall[c].kind = "create" => sessCall[c].step = "ended")
               => Cardinality(Live) <= MaxSessionsPerUser

SessionsAreKept == EndedForGood /\ LiveAreListed /\ SessionsAreFew

=====
