---- MODULE Profiles ----
\* The profile of one user in the user-service: its row, the two cached
\* copies of it, the avatar objects in the bucket, the verification badges
\* and the privacy settings.  A change reads the row, alters some columns
\* and writes all of them back, then drops the copies one after the other;
\* a badge and the row are two statements, and the settings are made by
\* the first request that misses them.
EXTENDS Integers, FiniteSets

CONSTANTS
    ProfCalls,        \* requests; an avatar object is known by the upload that stored it
    ProfNames,        \* values of the columns a user edits
    FirstName,        \* the one the row starts with
    MaxProfFaults     \* calls that fail or processes that stop (bounds them)

ASSUME ProfileAssumption == FirstName \in ProfNames /\ MaxProfFaults \in Nat

VARIABLES
    profile,          \* the row of the user in user_profiles
    copyOf,           \* the copies in Redis, under the id and under the username
    objects,          \* avatar objects in the bucket
    removals,         \* objects a goroutine is about to remove
    badges,           \* verification_badges, by the request that granted them
    settings,         \* privacy_settings rows, by the request that inserted them
    profCall,         \* what each request does
    confirmed,        \* objects the row has named
    chosen,           \* the user has set their privacy
    overtaken,        \* a row was written over one that had changed since it was read
    returned,         \* an avatar that had been replaced was confirmed again
    lateCopy,         \* a copy was kept of a row that had changed since
    madeRows,         \* settings were inserted where some had been inserted meanwhile
    profFaults

profVars == <<profile, copyOf, objects, removals, badges, settings, profCall, confirmed, chosen,
              overtaken, returned, lateCopy, madeRows, profFaults>>

ProfRows == [name : ProfNames, avatar : SUBSET ProfCalls, verified : BOOLEAN]
FirstRow == [name |-> FirstName, avatar |-> {}, verified |-> FALSE]
Keys == {"user", "username"}
ProfSteps == {"new", "row", "keep", "put", "stat", "badge", "save", "drop user", "drop username",
              "insert default", "insert chosen", "ended"}
ProfKinds == {"get", "edit", "presign", "upload", "confirm", "verify"}
Waits == [step |-> "new", kind |-> "get", key |-> "user", object |-> {}, name |-> FirstName, read |-> FirstRow]
Done == [Waits EXCEPT !.step = "ended"]

ProfInit ==
    /\ profile = FirstRow /\ copyOf = [k \in Keys |-> {}]
    /\ objects = {} /\ removals = {} /\ badges = {} /\ settings = [c \in ProfCalls |-> "none"]
    /\ profCall = [c \in ProfCalls |-> Waits]
    /\ confirmed = {} /\ chosen = FALSE
    /\ overtaken = FALSE /\ returned = FALSE /\ lateCopy = FALSE /\ madeRows = FALSE /\ profFaults = 0

--------
rowVars == <<profile, overtaken, returned, confirmed>>
keptVars == <<copyOf, lateCopy>>
bucketVars == <<objects, removals>>
settingVars == <<settings, chosen, madeRows>>

ProfAt(c, step) == profCall[c].step = step
ProfGoes(c, step) == profCall' = [profCall EXCEPT ![c] = IF step = "ended" THEN Done ELSE [@ EXCEPT !.step = step]]
ProfBegins(c, call) ==
    /\ ProfAt(c, "new")
    /\ profCall' = [profCall EXCEPT ![c] = call]
    /\ UNCHANGED <<rowVars, keptVars, bucketVars, settingVars, badges, profFaults>>

\* The copy answers if there is one.
GetProfile(c) ==
    \E k \in Keys :
        ProfBegins(c, IF copyOf[k] = {} THEN [Waits EXCEPT !.step = "row", !.key = k] ELSE Done)

UpdateProfile(c) == \E n \in ProfNames : ProfBegins(c, [Waits EXCEPT !.step = "row", !.kind = "edit", !.name = n])

\* The client stores the object itself under the presigned URL, or sends the file.
InitiateAvatarUpload(c) == ProfBegins(c, [Waits EXCEPT !.step = "put", !.kind = "presign", !.object = {c}])
UploadAvatar(c) == ProfBegins(c, [Waits EXCEPT !.step = "put", !.kind = "upload", !.object = {c}])
PutObject(c) ==
    /\ ProfAt(c, "put")
    /\ objects' = objects \cup profCall[c].object
    /\ ProfGoes(c, IF profCall[c].kind = "upload" THEN "stat" ELSE "ended")
    /\ UNCHANGED <<rowVars, keptVars, settingVars, removals, badges, profFaults>>

\* The object is named by the caller and looked for before the row is read.
ConfirmAvatarUpload(c) ==
    \E o \in ProfCalls : ProfBegins(c, [Waits EXCEPT !.step = "stat", !.kind = "confirm", !.object = {o}])
StatObject(c) ==
    /\ ProfAt(c, "stat")
    /\ ProfGoes(c, IF profCall[c].object \subseteq objects THEN "row" ELSE "ended")
    /\ UNCHANGED <<rowVars, keptVars, bucketVars, settingVars, badges, profFaults>>

VerifyCreator(c) == ProfBegins(c, [Waits EXCEPT !.step = "row", !.kind = "verify"])

\* What is done with the row: it is kept as a copy, a badge is granted first, or it is written back.
AfterRow(kind) == CASE kind = "get" -> "keep" [] kind = "verify" -> "badge" [] OTHER -> "save"

GetProfileByUserID(c) ==
    /\ ProfAt(c, "row")
    /\ profCall' = [profCall EXCEPT ![c].read = profile, ![c].step = AfterRow(profCall[c].kind)]
    /\ UNCHANGED <<rowVars, keptVars, bucketVars, settingVars, badges, profFaults>>

cacheProfile(c) ==
    /\ ProfAt(c, "keep")
    /\ copyOf' = [copyOf EXCEPT ![profCall[c].key] = {profCall[c].read}]
    /\ lateCopy' = (lateCopy \/ profCall[c].read # profile)
    /\ ProfGoes(c, "ended")
    /\ UNCHANGED <<rowVars, bucketVars, settingVars, badges, profFaults>>

CreateVerificationBadge(c) ==
    /\ ProfAt(c, "badge")
    /\ badges' = badges \cup {c}
    /\ ProfGoes(c, "save")
    /\ UNCHANGED <<rowVars, keptVars, bucketVars, settingVars, profFaults>>

\* Every column of the row that was read is written, the altered ones and the others.
Altered(call) ==
    CASE call.kind = "edit" -> [call.read EXCEPT !.name = call.name]
      [] call.kind = "verify" -> [call.read EXCEPT !.verified = TRUE]
      [] OTHER -> [call.read EXCEPT !.avatar = call.object]

\* The object the row named when it was read.
Replaced(call) == IF call.kind \in {"upload", "confirm"} THEN call.read.avatar \ call.object ELSE {}

SaveRow(c) ==
    LET call == profCall[c]
        row == Altered(call)
    IN /\ ProfAt(c, "save")
       /\ profile' = row
       /\ removals' = removals \cup Replaced(call)
       /\ confirmed' = confirmed \cup row.avatar
       /\ overtaken' = (overtaken \/ profile # call.read)
       /\ returned' = (returned \/ (row.avatar \cap confirmed # {} /\ row.avatar # profile.avatar))
       /\ ProfGoes(c, "drop user")
       /\ UNCHANGED <<keptVars, settingVars, objects, badges, profFaults>>

Drops(step) == IF step = "drop user" THEN {"user"} ELSE {"username"}

invalidateProfileCaches(c) ==
    LET step == profCall[c].step
    IN /\ step \in {"drop user", "drop username"}
       /\ copyOf' = [k \in Keys |-> IF k \in Drops(step) THEN {} ELSE copyOf[k]]
       /\ ProfGoes(c, IF step = "drop user" THEN "drop username" ELSE "ended")
       /\ UNCHANGED <<rowVars, bucketVars, settingVars, lateCopy, badges, profFaults>>

\* The goroutine of ConfirmAvatarUpload; an object it fails to remove is only logged.
RemoveObject(o) ==
    /\ o \in removals
    /\ removals' = removals \ {o}
    /\ \/ objects' = objects \ {o} /\ UNCHANGED profFaults
       \/ profFaults < MaxProfFaults /\ profFaults' = profFaults + 1 /\ UNCHANGED objects
    /\ UNCHANGED <<rowVars, keptVars, settingVars, badges, profCall>>

CopyExpires(k) ==
    /\ copyOf[k] # {}
    /\ copyOf' = [copyOf EXCEPT ![k] = {}]
    /\ UNCHANGED <<rowVars, bucketVars, settingVars, lateCopy, badges, profCall, profFaults>>

--------
Inserted == {c \in ProfCalls : settings[c] # "none"}

\* An account that has no settings is given the defaults.
GetPrivacySettings(c) ==
    ProfBegins(c, IF Inserted = {} THEN [Waits EXCEPT !.step = "insert default"] ELSE Done)

\* UPDATE, and INSERT if it finds no row.
UpdatePrivacySettings(c) ==
    /\ ProfAt(c, "new")
    /\ ProfGoes(c, IF Inserted = {} THEN "insert chosen" ELSE "ended")
    /\ settings' = [d \in ProfCalls |-> IF d \in Inserted THEN "chosen" ELSE "none"]
    /\ chosen' = (chosen \/ Inserted # {})
    /\ UNCHANGED <<rowVars, keptVars, bucketVars, madeRows, badges, profFaults>>

CreatePrivacySettings(c) ==
    LET made == IF ProfAt(c, "insert default") THEN "default" ELSE "chosen"
    IN /\ profCall[c].step \in {"insert default", "insert chosen"}
       /\ settings' = [settings EXCEPT ![c] = made]
       /\ chosen' = (chosen \/ made = "chosen")
       /\ madeRows' = (madeRows \/ Inserted # {})
       /\ ProfGoes(c, "ended")
       /\ UNCHANGED <<rowVars, keptVars, bucketVars, badges, profFaults>>

\* A call to the database, Redis or the bucket fails, or the process stops; a copy that is not
\* dropped is only logged.
ProfCallFails(c) ==
    /\ profCall[c].step \notin {"new", "ended"} /\ profFaults < MaxProfFaults
    /\ ProfGoes(c, "ended") \/ (ProfAt(c, "drop user") /\ ProfGoes(c, "drop username"))
    /\ profFaults' = profFaults + 1
    /\ UNCHANGED <<rowVars, keptVars, bucketVars, settingVars, badges>>

ProfNext ==
    \/ \E c \in ProfCalls :
          \/ GetProfile(c) \/ UpdateProfile(c) \/ InitiateAvatarUpload(c) \/ UploadAvatar(c) \/ PutObject(c)
          \/ ConfirmAvatarUpload(c) \/ StatObject(c) \/ VerifyCreator(c) \/ GetProfileByUserID(c)
          \/ cacheProfile(c) \/ CreateVerificationBadge(c) \/ SaveRow(c) \/ invalidateProfileCaches(c)
          \/ GetPrivacySettings(c) \/ UpdatePrivacySettings(c) \/ CreatePrivacySettings(c)
          \/ ProfCallFails(c) \/ RemoveObject(c)
    \/ \E k \in Keys : CopyExpires(k)

ProfSpec == ProfInit /\ [][ProfNext]_profVars

--------
\* Properties.

ProfTypeOK ==
    /\ profile \in ProfRows /\ copyOf \in [Keys -> SUBSET ProfRows]
    /\ \A k \in Keys : Cardinality(copyOf[k]) <= 1
    /\ objects \subseteq ProfCalls /\ removals \subseteq ProfCalls /\ badges \subseteq ProfCalls
    /\ confirmed \subseteq ProfCalls /\ Cardinality(profile.avatar) <= 1
    /\ settings \in [ProfCalls -> {"none", "default", "chosen"}]
    /\ profCall \in [ProfCalls -> [step : ProfSteps, kind : ProfKinds, key : Keys, object : SUBSET ProfCalls,
                                   name : ProfNames, read : ProfRows]]
    /\ {chosen, overtaken, returned, lateCopy, madeRows} \subseteq BOOLEAN /\ profFaults \in 0..MaxProfFaults

ProfsAt(S) == {c \in ProfCalls : profCall[c].step \in S}
Dropping(k) == ProfsAt({"drop user"} \cup (IF k = "user" THEN {} ELSE {"drop username"}))

\* A copy that stays is of the row, unless it was kept late or its dropping failed.
CopiesAgree == \A k \in Keys : Dropping(k) = {} /\ ~lateCopy /\ profFaults = 0 => copyOf[k] \subseteq {profile}

\* The avatar a row names is in the bucket, and no other is left there that the row has named, unless
\* rows were written over each other or a replaced avatar was named again.
AvatarsExist ==
    ~overtaken /\ ~returned =>
        /\ profile.avatar \subseteq objects \ removals
        /\ profFaults = 0 => confirmed \cap objects \subseteq profile.avatar \cup removals

\* Who has a badge is shown as verified, and who is shown as verified has one.
BadgesAreShown ==
    /\ badges \ ProfsAt({"save"}) # {} /\ ~overtaken /\ profFaults = 0 => profile.verified
    /\ profile.verified => badges # {}

\* A user has one row of settings, and it is as they chose, unless two requests missed it at one time.
SettingsAreKept == ~madeRows => Cardinality(Inserted) <= 1 /\ (chosen => \A c \in Inserted : settings[c] = "chosen")

ProfilesAreKept == CopiesAgree /\ AvatarsExist /\ BadgesAreShown /\ SettingsAreKept

=====
