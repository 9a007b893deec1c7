---- MODULE Notifications ----
\* The notification-service: a Kafka consumer makes a notification of each
\* event, or adds it to the one its group has, and pushes it to the user's
\* devices from a goroutine; users edit preferences, devices and what they
\* have read.  Each partition has a goroutine that handles one event at a
\* time and then commits it, whether it failed or not.  When the process
\* dies what was not committed comes again.
\*
\* E-mails are sent and not retried; their text, and the texts of
\* notifications, are left out.
EXTENDS Integers, FiniteSets, Sequences

Sums == INSTANCE FiniteSetsExt

CONSTANTS
    Persons,          \* users
    Parts,            \* partitions
    Topic,            \* the events of each, in their order
    Tokens,           \* push tokens, one to a phone
    Edits, Wish,      \* requests that change preferences: whose, and which of them
    Threshold,        \* aggregationThreshold
    Budgets           \* how many deaths of the process, failing calls, phones that change
                      \* hands, edits and marks as read there are (bounds them)

\* An event: whom it is for, its group, whether it names channels itself, and whether push
\* is one of them.
EventRecords == [to : Seq(Persons), group : {"likes", "none"}, explicit : BOOLEAN, push : BOOLEAN]

\* A request with a group key is for one user: the handlers of those events make one call.
ASSUME NotificationAssumption ==
    /\ Persons # {}
    /\ Topic \in [Parts -> Seq(EventRecords)]
    /\ \A p \in Parts : \A n \in 1..Len(Topic[p]) :
          Topic[p][n].group = "likes" => Len(Topic[p][n].to) = 1
    /\ Wish \in [Edits -> [user : Persons, field : {"likes", "push", "quiet"}]]
    /\ Threshold \in Nat \ {0, 1}
    /\ Budgets \subseteq [deaths : Nat, faults : Nat, handovers : Nat, edits : Nat, reads : Nat]

VARIABLES
    position,         \* the next event of each partition: all before are committed
    worker,           \* what each partition's goroutine does
    notes,            \* the notifications' rows, oldest first, and the events in each
    prefs,            \* each user's preferences
    edit,             \* what each UpdatePreferences has read
    asked, editsMet,  \* what the edits that were written asked for; users two of whose edits met
    device,           \* the row of each token
    phone,            \* who uses the phone
    app,              \* the call the app on each phone makes, and whether none before it failed
    firebase,         \* there is a push service
    pushes,           \* goroutines that send
    strayed,          \* a push reached a phone that its user had left, and the service knew
    failed, muted,    \* events and users: a call failed; the user wants none of this type
    crossed,          \* groups that two goroutines looked at together
    died, erred,      \* the process died; a call failed
    left              \* what is left of the budget

noteVars == <<position, worker, notes, prefs, edit, asked, editsMet, device, phone, app, firebase,
              pushes, strayed, failed, muted, crossed, died, erred, left>>
userVars == <<prefs, edit, asked, editsMet, device, phone, app, firebase, strayed>>

Preference == [likes : BOOLEAN, push : BOOLEAN, quiet : BOOLEAN]
Defaults == [likes |-> TRUE, push |-> TRUE, quiet |-> FALSE]
AtRest == [step |-> "idle", next |-> 1, saw |-> 0, push |-> FALSE, quiet |-> FALSE]

NoteInit ==
    /\ position = [p \in Parts |-> 1] /\ worker = [p \in Parts |-> AtRest] /\ notes = <<>>
    /\ prefs = [u \in Persons |-> Defaults] /\ asked = prefs /\ editsMet = {}
    /\ edit = [e \in Edits |-> [step |-> "new", wants |-> Defaults]]
    /\ LET u == CHOOSE u \in Persons : TRUE
       IN device = [t \in Tokens |-> [user |-> u, active |-> TRUE]] /\ phone = [t \in Tokens |-> u]
    /\ app = [t \in Tokens |-> [does |-> "nothing", user |-> "none", sure |-> TRUE]]
    /\ pushes = {} /\ strayed = FALSE
    /\ failed = {} /\ muted = {} /\ crossed = {}
    /\ died = FALSE /\ erred = FALSE /\ left \in Budgets
    /\ firebase \in BOOLEAN /\ (~firebase => left["deaths"] > 0)

--------
Spends(what) == left[what] > 0 /\ left' = [left EXCEPT ![what] = @ - 1]

Event(p) == Topic[p][position[p]]
Target(p) == Event(p).to[worker[p].next]
Name(p) == <<p, position[p], Target(p)>>

\* What the goroutine does after it is done with one user: the next one's, or the commit.
After(p) == IF worker[p].next < Len(Event(p).to)
            THEN [AtRest EXCEPT !.step = "prefs", !.next = worker[p].next + 1]
            ELSE [AtRest EXCEPT !.step = "commit"]
Turns(p, w) == worker' = [worker EXCEPT ![p] = w]

\* handleMessage
Consume(p) ==
    /\ worker[p].step = "idle" /\ position[p] <= Len(Topic[p])
    /\ Turns(p, [AtRest EXCEPT !.step = IF Event(p).to = <<>> THEN "commit" ELSE "prefs"])
    /\ UNCHANGED <<position, notes, pushes, failed, muted, crossed, userVars, died, erred, left>>

\* The time is within the quiet hours, if there are any, or not.
GetPreferences(p) ==
    /\ worker[p].step = "prefs"
    /\ LET mine == prefs[Target(p)]
       IN IF Event(p).group = "likes" /\ ~mine.likes
          THEN Turns(p, After(p)) /\ muted' = muted \cup {Name(p)}
          ELSE /\ \E isQuiet \in {FALSE, mine.quiet} :
                     Turns(p, [worker[p] EXCEPT !.step = IF Event(p).group = "none" THEN "create" ELSE "count",
                                                !.push = mine.push, !.quiet = isQuiet])
               /\ UNCHANGED muted
    /\ UNCHANGED <<position, notes, pushes, failed, crossed, userVars, died, erred, left>>

--------
\* tryAggregate
GroupOf(u, g) == {i \in 1..Len(notes) : notes[i].to = u /\ notes[i].group = g}
Latest(is) == CHOOSE i \in is : \A j \in is : j <= i
Grouping(u) == {q \in Parts : worker[q].step \in {"bump", "create"} /\ Event(q).group = "likes" /\ Target(q) = u}

GetGroupCount(p) ==
    /\ worker[p].step = "count"
    /\ LET counts == {notes[i].count : i \in GroupOf(Target(p), "likes")}
           most == IF counts = {} THEN 0 ELSE Sums!Max(counts)
       IN Turns(p, [worker[p] EXCEPT !.step = IF most = 0 THEN "create" ELSE "bump", !.saw = most])
    /\ crossed' = crossed \cup (IF Grouping(Target(p)) # {} THEN {Target(p)} ELSE {})
    /\ UNCHANGED <<position, notes, pushes, failed, muted, userVars, died, erred, left>>

Bumped(p) ==
    LET i == Latest(GroupOf(Target(p), "likes"))
    IN [notes EXCEPT ![i].count = @ + 1, ![i].of = @ \cup {Name(p)}]

\* A push goes out from a goroutine of its own, with what the event's preferences were.
Pushes(p) ==
    pushes' = pushes \cup {[of |-> Name(p), step |-> "devices", tokens |-> {}, moved |-> {}]}

\* The push of a group looks at no preference, and at no quiet hours.
IncrementGroupCount(p) ==
    /\ worker[p].step = "bump"
    /\ notes' = Bumped(p) /\ Turns(p, After(p))
    /\ IF (worker[p].saw + 1) % Threshold = 0 THEN Pushes(p) ELSE UNCHANGED pushes
    /\ UNCHANGED <<position, failed, muted, crossed, userVars, died, erred, left>>

\* In quiet hours, and where the event names its channels, those count; the master switch
\* always does.
Pushed(p) ==
    /\ worker[p].push /\ ~worker[p].quiet
    /\ Event(p).explicit => Event(p).push

CreateNotification(p) ==
    /\ worker[p].step = "create"
    /\ notes' = Append(notes, [to |-> Target(p), group |-> Event(p).group, count |-> 1, read |-> FALSE,
                               of |-> {Name(p)}])
    /\ Turns(p, After(p))
    /\ IF Pushed(p) THEN Pushes(p) ELSE UNCHANGED pushes
    /\ UNCHANGED <<position, failed, muted, crossed, userVars, died, erred, left>>

\* A query fails: without its group's count an event gets a row of its own, otherwise it fails.
\* The increment may have been made nevertheless.
StatementFails(p) ==
    /\ worker[p].step \in {"prefs", "count", "bump", "create"}
    /\ Spends("faults") /\ erred' = TRUE
    /\ IF worker[p].step \in {"count", "bump"}
       THEN Turns(p, [worker[p] EXCEPT !.step = "create"]) /\ UNCHANGED failed
       ELSE Turns(p, After(p)) /\ failed' = failed \cup {Name(p)}
    /\ \/ UNCHANGED notes
       \/ worker[p].step = "bump" /\ notes' = Bumped(p)
    /\ UNCHANGED <<position, pushes, muted, crossed, userVars, died>>

\* Mutant: the position is committed when the event is taken.
CommitAhead(p) ==
    /\ worker[p].step = "prefs" /\ worker[p].next = 1
    /\ position' = [position EXCEPT ![p] = @ + 1] /\ Turns(p, AtRest)
    /\ UNCHANGED <<notes, pushes, failed, muted, crossed, userVars, died, erred, left>>

CommitEvent(p) ==
    /\ worker[p].step = "commit"
    /\ position' = [position EXCEPT ![p] = @ + 1] /\ Turns(p, AtRest)
    /\ UNCHANGED <<notes, pushes, failed, muted, crossed, userVars, died, erred, left>>

\* A call of an app that fails leaves the row of its phone as it was.
Fails(t) == [app[t] EXCEPT !.does = "nothing", !.sure = FALSE]

\* The process dies, and starts again.
Dies ==
    /\ Spends("deaths") /\ died' = TRUE
    /\ worker' = [p \in Parts |-> AtRest] /\ pushes' = {}
    /\ edit' = [e \in Edits |-> IF edit[e].step = "save" THEN [edit[e] EXCEPT !.step = "done"] ELSE edit[e]]
    /\ app' = [t \in Tokens |-> IF app[t].does = "nothing" THEN app[t] ELSE Fails(t)]
    /\ UNCHANGED <<position, notes, prefs, asked, editsMet, device, phone, firebase, strayed, failed, muted, crossed, erred>>

--------
Advances(s, t) == pushes' = (pushes \ {s}) \cup {t}
Others == <<position, worker, notes, prefs, edit, asked, editsMet, phone, app, failed, muted,
            crossed, died, erred, left>>

\* The row of the phone is to be its user's: its app's calls are over, and did not fail.
Settled(t) == app[t].does = "nothing" /\ app[t].sure

\* SendToUser.  Without a push service the call is through a nil interface: the process dies.
GetDevicesByUserID(s) ==
    /\ s.step = "devices" /\ firebase
    /\ LET mine == {t \in Tokens : device[t] = [user |-> s.of[3], active |-> TRUE]}
       IN IF mine = {} THEN pushes' = pushes \ {s} 
          ELSE Advances(s, [s EXCEPT !.step = "send", !.tokens = mine,
                                     !.moved = {t \in Tokens : ~Settled(t)}])
    /\ UNCHANGED <<Others, device, firebase, strayed>>

Panics(s) == s.step = "devices" /\ ~firebase /\ Dies

\* Of the tokens FCM may report some as invalid; those are deactivated, whosever they are by then.
SendMulticast(s) ==
    /\ s.step = "send"
    /\ strayed' = (strayed \/ \E t \in s.tokens \ s.moved : phone[t] # s.of[3])
    /\ \E invalid \in SUBSET s.tokens :
          IF invalid = {} THEN pushes' = pushes \ {s}
          ELSE Advances(s, [s EXCEPT !.step = "deactivate", !.tokens = invalid])
    /\ UNCHANGED <<Others, device, firebase>>

DeactivateDevice(s) ==
    /\ s.step = "deactivate"
    /\ device' = [t \in Tokens |-> IF t \in s.tokens /\ device[t].user # "none"
                                   THEN [device[t] EXCEPT !.active = FALSE] ELSE device[t]]
    /\ pushes' = pushes \ {s}
    /\ UNCHANGED <<Others, firebase, strayed>>

--------
\* A phone changes hands, to a user who signs in or to nobody: pushes under way know it.  Its app
\* tells the service, by one call at a time.
Hands(t, u, call) ==
    /\ app[t].does = "nothing"
    /\ app' = [app EXCEPT ![t] = [does |-> call, user |-> IF call = "save" THEN u ELSE phone[t],
                                  sure |-> app[t].sure]]
    /\ phone' = [phone EXCEPT ![t] = u]
    /\ pushes' = {[s EXCEPT !.moved = @ \cup {t}] : s \in pushes}
    /\ Spends("handovers")
    /\ UNCHANGED <<position, worker, notes, prefs, edit, asked, editsMet, device, firebase, strayed, failed,
                   muted, crossed, died, erred>>

SignIn(t, u) == Hands(t, u, "save")
SignOut(t) == phone[t] # "none" /\ Hands(t, "none", "remove")

Elsewhere == <<position, worker, notes, prefs, edit, asked, editsMet, phone, firebase, pushes, strayed,
               failed, muted, crossed, died, erred>>

\* RegisterDevice: the row is the user's, whoever had it.
SaveDevice(t) ==
    /\ app[t].does = "save"
    /\ device' = [device EXCEPT ![t] = [user |-> app[t].user, active |-> TRUE]]
    /\ app' = [app EXCEPT ![t] = [does |-> "nothing", user |-> "none", sure |-> TRUE]]
    /\ UNCHANGED <<Elsewhere, left>>

\* UnregisterDevice: the row goes if it is the user's.
RemoveDevice(t) ==
    /\ app[t].does = "remove"
    /\ device' = [device EXCEPT ![t] = IF @.user = app[t].user THEN [user |-> "none", active |-> FALSE] ELSE @]
    /\ app' = [app EXCEPT ![t].does = "nothing"]
    /\ UNCHANGED <<Elsewhere, left>>

DeviceCallFails(t) ==
    /\ app[t].does # "nothing" /\ Spends("faults")
    /\ app' = [app EXCEPT ![t] = Fails(t)]
    /\ UNCHANGED <<Elsewhere, device>>

Remaining == <<position, worker, device, phone, app, firebase, pushes, strayed, failed, muted, crossed,
               died, erred>>

Saving(u) == {e \in Edits : edit[e].step = "save" /\ Wish[e].user = u}

\* UpdatePreferences reads the row or the defaults, changes what the request names, and writes
\* all of it.
UpdatePreferences(e) ==
    /\ edit[e].step = "new" /\ Spends("edits")
    /\ LET u == Wish[e].user
           wants == [prefs[u] EXCEPT ![Wish[e].field] = ~@]
       IN /\ edit' = [edit EXCEPT ![e] = [step |-> "save", wants |-> wants]]
          /\ editsMet' = editsMet \cup (IF Saving(u) # {} THEN {u} ELSE {})
    /\ UNCHANGED <<notes, prefs, asked, Remaining>>

UpsertPreferences(e) ==
    /\ edit[e].step = "save" /\ edit' = [edit EXCEPT ![e].step = "done"]
    /\ LET u == Wish[e].user
       IN /\ prefs' = [prefs EXCEPT ![u] = edit[e].wants]
          /\ asked' = [asked EXCEPT ![u][Wish[e].field] = edit[e].wants[Wish[e].field]]
    /\ UNCHANGED <<notes, editsMet, left, Remaining>>

\* The row is not read, or not written: the request fails and nothing has changed.
EditFails(e) ==
    /\ edit[e].step # "done" /\ edit' = [edit EXCEPT ![e].step = "done"] /\ Spends("faults")
    /\ UNCHANGED <<notes, prefs, asked, editsMet, Remaining>>

MarkAsRead(i) ==
    /\ ~notes[i].read /\ Spends("reads") /\ notes' = [notes EXCEPT ![i].read = TRUE]
    /\ UNCHANGED <<prefs, edit, asked, editsMet, Remaining>>

MarkAllRead(u) ==
    /\ \E i \in 1..Len(notes) : notes[i].to = u /\ ~notes[i].read
    /\ Spends("reads")
    /\ notes' = [i \in 1..Len(notes) |-> IF notes[i].to = u THEN [notes[i] EXCEPT !.read = TRUE] ELSE notes[i]]
    /\ UNCHANGED <<prefs, edit, asked, editsMet, Remaining>>

NoteNext ==
    \/ \E p \in Parts :
          \/ Consume(p) \/ GetPreferences(p) \/ GetGroupCount(p) \/ IncrementGroupCount(p)
          \/ CreateNotification(p) \/ StatementFails(p) \/ CommitEvent(p)
    \/ Dies
    \/ \E s \in pushes : GetDevicesByUserID(s) \/ Panics(s) \/ SendMulticast(s) \/ DeactivateDevice(s)
    \/ \E t \in Tokens :
          \/ \E u \in Persons : SignIn(t, u)
          \/ SignOut(t) \/ SaveDevice(t) \/ RemoveDevice(t) \/ DeviceCallFails(t)
    \/ \E e \in Edits :
          UpdatePreferences(e) \/ UpsertPreferences(e) \/ EditFails(e)
    \/ \E i \in 1..Len(notes) : MarkAsRead(i)
    \/ \E u \in Persons : MarkAllRead(u)

NoteSpec == NoteInit /\ [][NoteNext]_noteVars

--------
\* Properties.

Deliveries == {d \in Parts \X Nat \X Persons : d[2] \in 1..Len(Topic[d[1]])}
NoteRecords == [to : Persons, group : {"likes", "none"}, count : Nat \ {0}, read : BOOLEAN,
                of : SUBSET Deliveries]

NoteTypeOK ==
    /\ position \in [Parts -> Nat \ {0}] /\ \A p \in Parts : position[p] <= Len(Topic[p]) + 1
    /\ worker \in [Parts -> [step : {"idle", "prefs", "count", "bump", "create", "commit"}, next : Nat,
                             saw : Nat, push : BOOLEAN, quiet : BOOLEAN]]
    /\ notes \in Seq(NoteRecords)
    /\ prefs \in [Persons -> Preference] /\ asked \in [Persons -> Preference] /\ editsMet \subseteq Persons
    /\ edit \in [Edits -> [step : {"new", "save", "done"}, wants : Preference]]
    /\ device \in [Tokens -> [user : Persons \cup {"none"}, active : BOOLEAN]]
    /\ phone \in [Tokens -> Persons \cup {"none"}] /\ firebase \in BOOLEAN
    /\ app \in [Tokens -> [does : {"nothing", "save", "remove"}, user : Persons \cup {"none"}, sure : BOOLEAN]]
    /\ pushes \subseteq [of : Deliveries, step : {"devices", "send", "deactivate"}, tokens : SUBSET Tokens,
                         moved : SUBSET Tokens]
    /\ strayed \in BOOLEAN
    /\ failed \subseteq Deliveries /\ muted \subseteq Deliveries /\ crossed \subseteq Persons
    /\ {died, erred} \subseteq BOOLEAN

\* Every committed event is in a notification of each user it is for, unless a call failed
\* or the user wanted none of its type.
EventsAreKept ==
    \A p \in Parts : \A n \in 1..position[p] - 1 :
        \A k \in 1..Len(Topic[p][n].to) :
            LET d == <<p, n, Topic[p][n].to[k]>>
            IN d \in failed \cup muted \/ \E i \in 1..Len(notes) : d \in notes[i].of

\* Without deaths and failures a notification counts its events; those of a user whose
\* events never met are one.
GroupsAddUp ==
    ~died /\ ~erred =>
        /\ \A i \in 1..Len(notes) : notes[i].count = Cardinality(notes[i].of)
        /\ \A u \in Persons \ crossed : Cardinality(GroupOf(u, "likes")) <= 1

\* A push reaches the phone of somebody else only if the phone changed hands after the user's
\* devices were read, or its app's call was then under way, or had failed and no later one
\* registered the phone.
PushesReachTheirUser == ~strayed

\* A user whose edits never met has, in every field, what the last edit of it that was written
\* asked for, whichever edits failed or died with the process.
PreferencesStick == \A u \in Persons \ editsMet : prefs[u] = asked[u]

NotificationsAreKept ==
    EventsAreKept /\ GroupsAddUp /\ PushesReachTheirUser /\ PreferencesStick

=====
