---- MODULE Moderation ----
\* The moderation-service's worker: it takes uploaded videos from one
\* partition of a Kafka topic, moderates up to ModSlots of them at once
\* (ModerateContent), and commits the position of what it has done.
\* Goroutines end in any order; a session ends with the process or when
\* the group rebalances, and the next one starts at the committed position.
\*
\* The rows are kept by a Repository the service is written against; the
\* one main.go wires answers every call and keeps nothing.  Requests'
\* statuses are written and never read.
EXTENDS Integers, FiniteSets

CONSTANTS
    LastEvent,        \* the events of the partition are 1..LastEvent
    Malformed,        \* those that are not JSON
    ModSlots,         \* concurrencyLimit
    Levels,           \* scores of the classifiers, in percent
    Texts,            \* what the rules look at in a text: counts; the percentage of words that
                      \* differ; the similarity to known spam, in percent
    MaxSessions,      \* sessions of the consumer (bounds restarts and rebalances)
    MaxModFaults      \* failing calls (bounds them)

ASSUME ModerationAssumption ==
    /\ LastEvent \in Nat /\ Malformed \subseteq 1..LastEvent /\ ModSlots \in Nat \ {0}
    /\ Levels \subseteq 0..100 /\ MaxSessions \in Nat \ {0} /\ MaxModFaults \in Nat
    /\ Texts \subseteq [runes : Nat, words : Nat, tags : Nat, sameTag : Nat, urls : Nat, phrases : Nat,
                        differing : 0..100, likeness : 0..100]

Events == 1..LastEvent
VARIABLES
    fetched,          \* events taken from the claim in this session
    pipeline,         \* what the goroutine of each event does
    marked, committed,\* the session's mark and the group's position: all below are done
    results,          \* results stored: event, session and verdict
    queued,           \* those that moderators have in their queue
    published,        \* those announced on Kafka
    session, modFaults

modVars == <<fetched, pipeline, marked, committed, results, queued, published, session, modFaults>>

ModSteps == {"none", "detect", "store", "queue", "publish", "mark", "commit", "done", "failed"}
Verdicts == {"approved", "rejected", "human_review"}
Idle == [step |-> "none", verdict |-> "approved"]
Busy(e) == pipeline[e].step \notin {"none", "done", "failed"}

ModInit ==
    /\ fetched = 0 /\ pipeline = [e \in Events |-> Idle]
    /\ marked = 1 /\ committed = 1
    /\ results = {} /\ queued = {} /\ published = {}
    /\ session = 1 /\ modFaults = 0

--------
\* Scores are in percent.
AtMost100(n) == IF n > 100 THEN 100 ELSE n

HashtagSpam(t) ==
    IF t.tags = 0 \/ t.words = 0 THEN 0
    ELSE AtMost100((IF 100 * t.tags > 40 * t.words THEN 50 ELSE 0)
                   + (IF t.sameTag >= 3 THEN 50 ELSE 0) + (IF t.tags > 30 THEN 30 ELSE 0))
LinkSpam(t) == IF t.urls < 3 THEN 10 * t.urls ELSE AtMost100(30 + 15 * (t.urls - 3))
SpamPhrases(t) == AtMost100(25 * t.phrases)
TextPadding(t) ==
    IF t.runes <= 2200 \/ t.words = 0 THEN 0
    ELSE IF t.differing < 20 THEN 80 ELSE IF t.differing < 35 THEN 50 ELSE 20
CopyPaste(t) == IF t.words < 5 THEN 0 ELSE IF t.likeness >= 55 THEN t.likeness ELSE t.likeness \div 2

\* A video without a text scores zero.  The model's score, where it answers, is blended in.
RuleScore(t) == (25 * HashtagSpam(t) + 25 * LinkSpam(t) + 30 * SpamPhrases(t) + 10 * TextPadding(t)
                 + 10 * CopyPaste(t)) \div 100
SpamScores == {RuleScore(t) : t \in Texts} \cup {(60 * RuleScore(t) + 40 * ml) \div 100 : t \in Texts, ml \in Levels}
NsfwScores == Levels
ViolenceScores == Levels

Combined(nsfw, violence, spam) == (45 * nsfw + 35 * violence + 20 * spam) \div 100

decide(nsfw, violence, spam) ==
    LET combined == Combined(nsfw, violence, spam)
    IN IF nsfw >= 85 \/ violence >= 85 \/ spam >= 85 \/ combined >= 80 THEN "rejected"
       ELSE IF nsfw < 20 /\ violence < 20 /\ spam < 25 /\ combined < 15 THEN "approved"
       ELSE "human_review"

\* The verdicts that scores out of these sets lead to.
Assess(nsfw, violence, spam) ==
    {verdict \in Verdicts : \E n \in nsfw, v \in violence, s \in spam : decide(n, v, s) = verdict}

\* A detector that fails counts as a score of zero.
Assessments == Assess(NsfwScores, ViolenceScores, SpamScores)
AssessmentsOfSome == Assess(NsfwScores \cup {0}, ViolenceScores \cup {0}, SpamScores \cup {0})

--------
Goes(e, step) == pipeline' = [pipeline EXCEPT ![e].step = step]
Running == Cardinality({e \in Events : Busy(e)})

\* processMessage: what cannot be read is marked and passed over; nothing commits it.
PassMalformed ==
    /\ fetched < LastEvent /\ fetched + 1 \in Malformed
    /\ fetched' = fetched + 1 /\ marked' = IF marked < fetched + 2 THEN fetched + 2 ELSE marked
    /\ UNCHANGED <<pipeline, committed, results, queued, published, session, modFaults>>

\* A slot of the semaphore is taken before the next event is looked at.
processMessage ==
    /\ fetched < LastEvent /\ fetched + 1 \notin Malformed /\ Running < ModSlots
    /\ fetched' = fetched + 1
    /\ Goes(fetched + 1, "detect")
    /\ UNCHANGED <<marked, committed, results, queued, published, session, modFaults>>

Detect(e) ==
    /\ pipeline[e].step = "detect"
    /\ \/ /\ \E verdict \in Assessments :
                pipeline' = [pipeline EXCEPT ![e] = [step |-> "store", verdict |-> verdict]]
          /\ UNCHANGED modFaults
       \/ /\ \E verdict \in AssessmentsOfSome :
                pipeline' = [pipeline EXCEPT ![e] = [step |-> "store", verdict |-> verdict]]
          /\ modFaults < MaxModFaults /\ modFaults' = modFaults + 1
    /\ UNCHANGED <<fetched, marked, committed, results, queued, published, session>>

Result(e) == [event |-> e, session |-> session, verdict |-> pipeline[e].verdict]

CreateResult(e) ==
    /\ pipeline[e].step = "store"
    /\ results' = results \cup {Result(e)}
    /\ Goes(e, IF pipeline[e].verdict = "human_review" THEN "queue" ELSE "publish")
    /\ UNCHANGED <<fetched, marked, committed, queued, published, session, modFaults>>

CreateQueueItem(e) ==
    /\ pipeline[e].step = "queue"
    /\ queued' = queued \cup {Result(e)} /\ Goes(e, "publish")
    /\ UNCHANGED <<fetched, marked, committed, results, published, session, modFaults>>

PublishModerationResult(e) ==
    /\ pipeline[e].step = "publish"
    /\ published' = published \cup {Result(e)} /\ Goes(e, "mark")
    /\ UNCHANGED <<fetched, marked, committed, results, queued, session, modFaults>>

\* The request or the result could not be stored: the event fails.  A queue item or an
\* announcement that could not be made is logged, and the event goes on.
CallFails(e) ==
    /\ pipeline[e].step \in {"detect", "store", "queue", "publish"}
    /\ modFaults < MaxModFaults /\ modFaults' = modFaults + 1
    /\ Goes(e, CASE pipeline[e].step = "queue" -> "publish"
                 [] pipeline[e].step = "publish" -> "mark"
                 [] OTHER -> "failed")
    /\ UNCHANGED <<fetched, marked, committed, results, queued, published, session>>

\* Mutant: the mark is made for what failed too.
MarkAlways(e) ==
    /\ pipeline[e].step \in {"mark", "failed"}
    /\ marked' = IF marked < e + 1 THEN e + 1 ELSE marked
    /\ Goes(e, "commit")
    /\ UNCHANGED <<fetched, committed, results, queued, published, session, modFaults>>

MarkMessage(e) ==
    /\ pipeline[e].step = "mark"
    /\ marked' = IF marked < e + 1 THEN e + 1 ELSE marked
    /\ Goes(e, "commit")
    /\ UNCHANGED <<fetched, committed, results, queued, published, session, modFaults>>

Commit(e) ==
    /\ pipeline[e].step = "commit"
    /\ committed' = marked /\ Goes(e, "done")
    /\ UNCHANGED <<fetched, marked, results, queued, published, session, modFaults>>

\* The process ends, or the group rebalances: contexts are cancelled, the claim starts again.
SessionEnds ==
    /\ session < MaxSessions /\ session' = session + 1
    /\ fetched' = committed - 1 /\ marked' = committed
    /\ pipeline' = [e \in Events |-> Idle]
    /\ UNCHANGED <<committed, results, queued, published, modFaults>>

ModNext ==
    \/ PassMalformed \/ processMessage \/ SessionEnds
    \/ \E e \in Events :
          \/ Detect(e) \/ CreateResult(e) \/ CreateQueueItem(e) \/ PublishModerationResult(e)
          \/ CallFails(e) \/ MarkMessage(e) \/ Commit(e)

ModSpec == ModInit /\ [][ModNext]_modVars

--------
\* Properties.

ResultRecords == [event : Events, session : 1..MaxSessions, verdict : Verdicts]

ModTypeOK ==
    /\ fetched \in 0..LastEvent
    /\ pipeline \in [Events -> [step : ModSteps, verdict : Verdicts]]
    /\ marked \in 1..LastEvent + 1 /\ committed \in 1..LastEvent + 1
    /\ results \subseteq ResultRecords /\ queued \subseteq results /\ published \subseteq results
    /\ session \in 1..MaxSessions /\ modFaults \in 0..MaxModFaults

HasResult(e) == \E r \in results : r.event = e

\* The group's position moves only to what has a result or cannot be read.  An event that was
\* taken is being worked on, failed, or has a result, wherever the position is; only the end
\* of a session loses what lies below the position and was not done by then.
PositionIsEarned ==
    /\ committed > 1 => HasResult(committed - 1) \/ committed - 1 \in Malformed
    /\ \A e \in Events : e >= committed \/ session = 1 =>
          \/ e > fetched \/ Busy(e) \/ pipeline[e].step = "failed" \/ HasResult(e) \/ e \in Malformed

=====
