---- MODULE Ads ----
\* The ads-service: auctions for one user in which the ads of one ad set
\* take part against others, and the campaign they belong to with its
\* budget.  A request reads the rows of campaign and budget, computes, and
\* writes whole rows back later, in no transaction; Redis counts how often
\* the user met the ad set and keeps the ads the user has seen.
\*
\* The rows are kept by the CampaignRepository the service is written
\* against.  The campaign was reviewed; amounts are in units of the least
\* bid.  Nothing ever resets the day's spend or an exhausted budget.
EXTENDS Integers, FiniteSets

CONSTANTS
    Creatives,        \* ads of the ad set
    AdRequests,       \* requests; each is used once
    CapPerDay,        \* FrequencyCapPerDay
    Bid, MinBid, PricePremium,
    OwnECPM, OtherECPM, \* what an ad of the set is worth in an auction; what others are, 0: none takes part
    DailyBudgets,     \* daily budgets the owner sets, the first being the least
    Profiles, Targeting,\* of the user as the cache has it, and of the ad set
    MaxAdFaults       \* statements and calls that fail (bounds them)

Criteria == {"gender", "country", "language", "device", "interests", "segments"}
ASSUME AdAssumption ==
    /\ CapPerDay \in Nat \ {0} /\ {Bid, MinBid, PricePremium} \subseteq Nat /\ MinBid <= Bid
    /\ OwnECPM \subseteq Nat /\ OtherECPM \subseteq Nat /\ DailyBudgets \subseteq Nat \ {0}
    /\ \E least \in DailyBudgets : \A n \in DailyBudgets : least <= n
    /\ IsFiniteSet(Creatives) /\ IsFiniteSet(AdRequests) /\ "none" \notin Creatives
    /\ MaxAdFaults \in Nat

VARIABLES
    campaign,         \* its status
    budget,           \* its row: daily budget, what was spent today, BudgetExhausted
    counted,          \* what IncrementImpressions added to the campaign's spend
    met,              \* requests read campaign or budget while others had theirs still to write
    exposure,         \* the user's count of the ad set today
    seen,             \* the ads the user has seen, in Redis
    shown,            \* how often each was shown
    doing,            \* what each request does
    together,         \* two auctions ran together
    adFaults

adVars == <<campaign, budget, counted, met, exposure, seen, shown, doing, together, adFaults>>
moneyVars == <<campaign, budget, counted, met>>
userSide == <<exposure, seen, shown, together>>

Least(S) == CHOOSE n \in S : \A k \in S : n <= k
AdSteps == {"new", "filter", "cap", "uncount", "count", "spend", "pause", "write", "save",
            "mark", "verify", "adjust", "ended"}
Campaigns == {"active", "paused"}
NoAd == "none"
NoRow == [daily |-> Least(DailyBudgets), today |-> 0, exhausted |-> FALSE]
Fresh == [step |-> "new", todo |-> {}, eligible |-> {}, ad |-> NoAd, charge |-> 0, row |-> NoRow,
          status |-> "active", then |-> "ended"]

AdInit ==
    /\ campaign \in Campaigns /\ budget = NoRow /\ counted = 0 /\ met = FALSE
    /\ exposure = 0 /\ seen = {} /\ shown = [x \in Creatives |-> 0]
    /\ doing = [r \in AdRequests |-> Fresh] /\ together = FALSE /\ adFaults = 0

--------
Does(r, w) == doing' = [doing EXCEPT ![r] = w]
On(r, step) == Does(r, [doing[r] EXCEPT !.step = step])
At(steps) == {r \in AdRequests : doing[r].step \in steps}

Falters == adFaults < MaxAdFaults /\ adFaults' = adFaults + 1
Fine == UNCHANGED adFaults

\* A profile that does not know something matches what is asked of it, but for interests and
\* segments.
MatchesTargeting(profile, spec) ==
    \A c \in Criteria : \/ spec[c] = {} \/ profile[c] \cap spec[c] # {}
                        \/ profile[c] = {} /\ c \in {"country", "language", "device"}

\* An auction ends once its winner is marked as seen: only an owner's request has no ad.
UnderWay == {r \in AdRequests : doing[r].step # "ended" /\ (doing[r].step = "filter" \/ doing[r].ad # NoAd)}

RunAuction(r) ==
    /\ doing[r].step = "new" /\ campaign = "active"
    /\ \E p \in Profiles :
          Does(r, IF MatchesTargeting(p, Targeting) THEN [Fresh EXCEPT !.step = "filter", !.todo = Creatives]
                  ELSE [Fresh EXCEPT !.step = "ended"])
    /\ together' = (together \/ UnderWay # {})
    /\ UNCHANGED <<moneyVars, exposure, seen, shown, adFaults>>

\* FilterEligibleAds, one ad after the other.  Where Redis fails the ad is shown.
ExcludeAlreadySeen(r, x) ==
    /\ doing[r].step = "filter" /\ x \in doing[r].todo
    /\ \/ Does(r, [doing[r] EXCEPT !.todo = @ \ {x}, !.ad = x, !.step = IF x \in seen THEN "filter" ELSE "cap"])
          /\ Fine
       \/ x \in seen /\ Falters /\ Does(r, [doing[r] EXCEPT !.todo = @ \ {x}, !.ad = x, !.step = "cap"])
    /\ UNCHANGED <<moneyVars, userSide>>

\* Mutant: one more than the cap.
FrequencyCappingOneMore(r) ==
    LET eligible == [doing[r] EXCEPT !.step = "filter", !.eligible = @ \cup {doing[r].ad}]
    IN /\ doing[r].step = "cap"
       /\ \/ /\ exposure' = exposure + 1 /\ Fine
             /\ Does(r, IF exposure <= CapPerDay THEN eligible ELSE [doing[r] EXCEPT !.step = "uncount"])
          \/ Falters /\ UNCHANGED exposure /\ Does(r, eligible)
       /\ UNCHANGED <<moneyVars, seen, shown, together>>

\* Every eligible ad is counted, whether it wins or not.
FrequencyCapping(r) ==
    LET eligible == [doing[r] EXCEPT !.step = "filter", !.eligible = @ \cup {doing[r].ad}]
    IN /\ doing[r].step = "cap"
       /\ \/ /\ exposure' = exposure + 1 /\ Fine
             /\ Does(r, IF exposure < CapPerDay THEN eligible ELSE [doing[r] EXCEPT !.step = "uncount"])
          \/ Falters /\ UNCHANGED exposure /\ Does(r, eligible)
       /\ UNCHANGED <<moneyVars, seen, shown, together>>

Uncount(r) ==
    /\ doing[r].step = "uncount" /\ On(r, "filter")
    /\ \/ exposure' = exposure - 1 /\ Fine
       \/ Falters /\ UNCHANGED exposure
    /\ UNCHANGED <<moneyVars, seen, shown, together>>

\* The second price: the next one's worth and a premium, at most the winner's, at least the floor.
Charge(mine, next) ==
    LET second == (IF next = 0 THEN mine ELSE next) + PricePremium
        capped == IF second > mine THEN mine ELSE second
    IN IF capped < MinBid THEN MinBid ELSE capped

\* The ads of one set have one bid and different click rates.
Win(r) ==
    /\ doing[r].step = "filter" /\ doing[r].todo = {}
    /\ \/ /\ doing[r].eligible # {}
          /\ \E x \in doing[r].eligible : \E mine \in OwnECPM : \E next \in OtherECPM :
                /\ next <= mine
                /\ Does(r, [Fresh EXCEPT !.step = "count", !.ad = x, !.charge = Charge(mine, next)])
                /\ shown' = [shown EXCEPT ![x] = @ + 1]
       \/ On(r, "ended") /\ UNCHANGED shown
    /\ UNCHANGED <<moneyVars, exposure, seen, together, adFaults>>

--------
\* RecordImpression.  An error is logged, and the impression goes on.
IncrementImpressions(r) ==
    /\ doing[r].step = "count" /\ On(r, "spend")
    /\ \/ counted' = counted + doing[r].charge /\ Fine
       \/ Falters /\ UNCHANGED counted
    /\ UNCHANGED <<campaign, budget, met, userSide>>

\* Who reads a row it will write back or act on, while another one has.
Holding == {"pause", "write", "save", "verify", "adjust"}
Meets(r) == met' = (met \/ At(Holding) \ {r} # {})

MaxSpend(daily) == (daily * 105) \div 100

AddSpend(r) ==
    /\ doing[r].step = "spend"
    /\ \/ LET today == budget.today + doing[r].charge
              over == today >= MaxSpend(budget.daily)
          IN /\ Does(r, [doing[r] EXCEPT
                  !.row = [budget EXCEPT !.today = today, !.exhausted = @ \/ over],
                  !.then = "save", !.step = IF over THEN "pause" ELSE "save"])
             /\ Meets(r) /\ Fine
       \/ Falters /\ On(r, "mark") /\ UNCHANGED met
    /\ UNCHANGED <<campaign, budget, counted, userSide>>

\* PauseCampaign, by the owner or the pacer: what is not active stays as it is.
PauseCampaign(r) ==
    /\ doing[r].step \in {"new", "pause"}
    /\ LET then == IF doing[r].step = "new" THEN "ended" ELSE doing[r].then
       IN IF campaign = "active"
          THEN Does(r, [doing[r] EXCEPT !.step = "write", !.status = "paused", !.then = then])
          ELSE Does(r, [doing[r] EXCEPT !.step = then])
    /\ Meets(r) /\ UNCHANGED <<campaign, budget, counted, userSide, adFaults>>

UpdateStatus(r) ==
    /\ doing[r].step = "write" /\ campaign' = doing[r].status /\ On(r, doing[r].then)
    /\ UNCHANGED <<budget, counted, met, userSide, adFaults>>

UpdateBudget(r) ==
    /\ doing[r].step = "save" /\ budget' = doing[r].row
    /\ Does(r, [doing[r] EXCEPT !.then = "ended",
                               !.step = IF doing[r].ad # NoAd THEN "mark" ELSE doing[r].then])
    /\ UNCHANGED <<campaign, counted, met, userSide, adFaults>>

MarkAdSeen(r) ==
    /\ doing[r].step = "mark" /\ On(r, "ended")
    /\ \/ seen' = seen \cup {doing[r].ad} /\ Fine
       \/ Falters /\ UNCHANGED seen
    /\ UNCHANGED <<moneyVars, exposure, shown, together>>

--------
ResumeCampaign(r) ==
    /\ doing[r].step = "new" /\ campaign = "paused"
    /\ On(r, "verify") /\ Meets(r)
    /\ UNCHANGED <<campaign, budget, counted, userSide, adFaults>>

\* Without the budget's row the campaign is resumed.
VerifyBudget(r) ==
    /\ doing[r].step = "verify" /\ Meets(r)
    /\ LET resumed == [doing[r] EXCEPT !.step = "write", !.status = "active", !.then = "ended"]
       IN \/ Does(r, IF budget.exhausted THEN [resumed EXCEPT !.step = "ended"] ELSE resumed) /\ Fine
          \/ Falters /\ Does(r, resumed)
    /\ UNCHANGED <<campaign, budget, counted, userSide>>

\* UpdateCampaign writes the campaign back as it read it, whatever its status; an exhausted
\* budget stays so.
UpdateCampaign(r) ==
    /\ doing[r].step = "new"
    /\ Does(r, [doing[r] EXCEPT !.step = "write", !.status = campaign, !.then = "adjust"])
    /\ Meets(r) /\ UNCHANGED <<campaign, budget, counted, userSide, adFaults>>

AdjustBudget(r) ==
    /\ doing[r].step = "adjust" /\ Meets(r)
    /\ \E n \in DailyBudgets :
          Does(r, [doing[r] EXCEPT !.step = "save", !.row = [budget EXCEPT !.daily = n], !.then = "ended"])
    /\ UNCHANGED <<campaign, budget, counted, userSide, adFaults>>

\* The hourly budget is written with the rest of the row.
BudgetPacing(r) ==
    /\ doing[r].step = "new" /\ Meets(r)
    /\ Does(r, IF budget.today < budget.daily
               THEN [doing[r] EXCEPT !.step = "save", !.row = budget]
               ELSE IF budget.exhausted THEN [doing[r] EXCEPT !.step = "ended"]
               ELSE [doing[r] EXCEPT !.step = "save", !.row = [budget EXCEPT !.exhausted = TRUE],
                                     !.then = "pause"])
    /\ UNCHANGED <<campaign, budget, counted, userSide, adFaults>>

\* A statement fails; the client goes; the process ends.  Where an error is ignored the request
\* goes on to its next step.
AdCallFails(r) ==
    /\ doing[r].step \notin {"new", "ended"} /\ Falters
    /\ \/ On(r, "ended")
       \/ doing[r].step \in {"pause", "write"} /\ doing[r].ad # NoAd /\ On(r, "save")
       \/ doing[r].step = "save" /\ doing[r].ad # NoAd /\ On(r, "mark")
       \/ /\ doing[r].step = "save" /\ doing[r].then = "pause"
          /\ Does(r, [doing[r] EXCEPT !.step = "pause", !.then = "ended"])
    /\ UNCHANGED <<moneyVars, userSide>>

AdNext ==
    \E r \in AdRequests :
       \/ RunAuction(r) \/ (\E x \in Creatives : ExcludeAlreadySeen(r, x)) \/ FrequencyCapping(r)
       \/ Uncount(r) \/ Win(r) \/ IncrementImpressions(r) \/ AddSpend(r) \/ MarkAdSeen(r)
       \/ PauseCampaign(r) \/ UpdateStatus(r) \/ UpdateBudget(r) \/ ResumeCampaign(r) \/ VerifyBudget(r)
       \/ UpdateCampaign(r) \/ AdjustBudget(r) \/ BudgetPacing(r) \/ AdCallFails(r)

AdSpec == AdInit /\ [][AdNext]_adVars

--------
\* Properties.

AdTypeOK ==
    /\ campaign \in Campaigns
    /\ budget \in [daily : DailyBudgets, today : Nat, exhausted : BOOLEAN]
    /\ counted \in Nat /\ met \in BOOLEAN /\ exposure \in Nat
    /\ seen \subseteq Creatives /\ shown \in [Creatives -> Nat]
    /\ doing \in [AdRequests -> [step : AdSteps, todo : SUBSET Creatives, eligible : SUBSET Creatives,
                                 ad : Creatives \cup {NoAd}, charge : Nat,
                                 row : [daily : DailyBudgets, today : Nat, exhausted : BOOLEAN],
                                 status : Campaigns, then : AdSteps]]
    /\ together \in BOOLEAN /\ adFaults \in 0..MaxAdFaults

\* The units of what f has for each: as many as its sum.
Units(f) == UNION {{x} \X (1..f[x]) : x \in DOMAIN f}
\* Charges that are counted and not yet in the budget.
Owed == [r \in At({"spend", "pause", "write", "save"}) |-> doing[r].charge]

\* Without failures the user meets the ad set no more often than its cap, however auctions
\* run together; an ad is met again only if two auctions did.
ExposureIsCapped ==
    adFaults = 0 =>
        /\ Cardinality(Units(shown)) <= CapPerDay
        /\ ~together => \A x \in Creatives : shown[x] <= 1

\* Where no request met another one and no call failed, the budget has every charge that was
\* counted, but for one on its way; and an exhausted budget's campaign is paused, or about to be.
SpendStops ==
    ~met /\ adFaults = 0 =>
        /\ counted = budget.today + Cardinality(Units(Owed))
        /\ budget.exhausted /\ campaign = "active" => At({"pause", "write"}) # {}

AdsAreAccounted == ExposureIsCapped /\ SpendStops

=====
