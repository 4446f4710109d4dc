--------------------------- MODULE Subscriptions ---------------------------
(***************************************************************************)
(* SubscriptionService (src/backend/src/billing/services/                  *)
(* subscription.service.ts): the subscriptions of schools, their trials,   *)
(* periods, renewals and cancellation.  A method reads, decides and then   *)
(* writes by identifier in a call of its own; the two jobs list the rows   *)
(* first and write them one by one, each from the row as it was listed.    *)
(* A period runs from the start of one day to the end of another and is    *)
(* kept in days; a trial ends at an instant of its day.  The answer of the *)
(* Stripe client is a wrapper without the identifier the code reads from   *)
(* it, so no row ever holds a Stripe identifier and the calls that depend  *)
(* on one are not reached.                                                 *)
(***************************************************************************)
EXTENDS Requests, Integers

CONSTANTS
  Subs,          \* identifiers of subscription rows
  Subscribers,   \* schools
  Plans,         \* billing plans, all active
  Cycles,        \* billing cycles
  Length,        \* Length[c]: the days of a period of cycle c
  TrialDays,     \* TrialDays[p]: the days of trial plan p offers, 0 for none
  SubscribeDtos, \* what a creation may ask for
  SubUpdates,    \* what an update may carry, Blank for none
  Moments,       \* the instants of a day
  Starts,        \* the instants a request may name for its start
  Horizon,       \* bound: the day at whose start time stops
  Agents,        \* the requests and jobs that can interleave
  Duties         \* Duties[a]: the methods agent a may execute

SubMethods == {"create", "update", "cancel", "changePlan", "renewals", "trials"}
Instants == 0 .. Moments * Horizon

ASSUME SubscriptionAssumption ==
  /\ Length \in [Cycles -> Nat \ {0}]
  /\ TrialDays \in [Plans -> Nat]
  /\ SubscribeDtos \subseteq [school : Subscribers, plan : Plans, cycle : Cycles,
                              trial : BOOLEAN]
  /\ SubUpdates \subseteq [plan : Plans \cup {Blank}, cycle : Cycles \cup {Blank},
                           flag : BOOLEAN \cup {Blank}]
  /\ Horizon \in Nat /\ Moments \in Nat \ {0} /\ Starts \subseteq Instants
  /\ Duties \in [Agents -> SUBSET SubMethods]

Live == {"ACTIVE", "TRIAL"}

SubRow == [school : Subscribers, plan : Plans, cycle : Cycles,
           status : Live \cup {"CANCELED"}, start : Nat, end : Nat,
           trialEnd : Nat \cup {Blank}, cancelAtPeriodEnd : BOOLEAN]

ASSUME SubRowAssumption == Unused \notin SubRow

VARIABLES
  sub,     \* sub[s]: the row of subscription s
  call,    \* call[a]: the request of agent a and what it does next
  now

subVars == <<sub, call, now>>

DayAt(instant) == instant \div Moments
today == DayAt(now)

Exists(s)   == sub[s] # Unused
IsLive(s)   == Exists(s) /\ sub[s].status \in Live

(* What the jobs keep of a row they listed. *)
ListedRow == [sub : Subs, end : Nat, cycle : Cycles]

(* What a request or a job holds between two of its calls. *)
Call ==
  {Idle}
  \cup [at : {"insert"}, row : SubRow]
  \cup [at : {"update"}, sub : Subs, plan : Plans \cup {Blank}, cycle : Cycles \cup {Blank},
       end : Nat \cup {Blank}, flag : BOOLEAN \cup {Blank}]
  \cup [at : {"cancel"}, sub : Subs, immediately : BOOLEAN]
  \cup [at : {"plan"}, sub : Subs, plan : Plans]
  \cup [at : {"renewals", "trials"}, listed : SUBSET ListedRow]

SubTypeOK ==
  /\ sub \in [Subs -> SubRow \cup {Unused}]
  /\ call \in [Agents -> Call]
  /\ now \in Instants

SubInit ==
  /\ sub = [s \in Subs |-> Unused]
  /\ call = [a \in Agents |-> Idle]
  /\ now = 0

Accepts(a, method) == call[a] = Idle /\ method \in Duties[a]
Then(a, next) == call' = [call EXCEPT ![a] = next]
Answer(a) == Then(a, Idle)

(* calculateBillingPeriod: a period starts with the day it is given and ends
   with the end of the day one cycle later. *)
PeriodEnd(start, cycle) == start + Length[cycle]

-----------------------------------------------------------------------------
(* createSubscription: the search for a live subscription of the school, then
   the calls to Stripe, whose failure is swallowed, and the insert. *)

NewRow(dto, from) ==
  LET onTrial == dto.trial /\ TrialDays[dto.plan] > 0 IN
  [school |-> dto.school, plan |-> dto.plan, cycle |-> dto.cycle,
   status |-> IF onTrial THEN "TRIAL" ELSE "ACTIVE",
   start |-> DayAt(from), end |-> PeriodEnd(DayAt(from), dto.cycle),
   trialEnd |-> IF onTrial THEN from + Moments * TrialDays[dto.plan] ELSE Blank,
   cancelAtPeriodEnd |-> FALSE]

(* Mutant: a trial does not count as a subscription of the school. *)
SubscribeCheckPaid(a, dto, from) ==
  /\ Accepts(a, "create")
  /\ ~ \E s \in Subs : Exists(s) /\ sub[s].school = dto.school /\ sub[s].status = "ACTIVE"
  /\ Then(a, [at |-> "insert", row |-> NewRow(dto, from)])
  /\ UNCHANGED <<sub, now>>

SubscribeCheck(a, dto, from) ==
  /\ Accepts(a, "create")
  /\ ~ \E s \in Subs : IsLive(s) /\ sub[s].school = dto.school
  /\ Then(a, [at |-> "insert", row |-> NewRow(dto, from)])
  /\ UNCHANGED <<sub, now>>

SubscribeInsert(a) ==
  /\ call[a].at = "insert"
  /\ \E s \in Subs : ~ Exists(s) /\ sub' = [sub EXCEPT ![s] = call[a].row]
  /\ Answer(a)
  /\ UNCHANGED now

(* updateSubscription: whatever the status, the plan, the cycle and the flag
   that are given; a new cycle extends the period that was read. *)

Extended(row, cycle) == PeriodEnd(row.end, cycle)

UpdateRead(a, s, dto) ==
  LET recycled == dto.cycle \notin {Blank, sub[s].cycle} IN
  /\ Accepts(a, "update")
  /\ Exists(s)
  /\ Then(a, [at |-> "update", sub |-> s,
              plan |-> IF dto.plan = sub[s].plan THEN Blank ELSE dto.plan,
              cycle |-> IF recycled THEN dto.cycle ELSE Blank,
              end |-> IF recycled THEN Extended(sub[s], dto.cycle) ELSE Blank,
              flag |-> dto.flag])
  /\ UNCHANGED <<sub, now>>

Updated(row, change) ==
  [row EXCEPT !.plan = Kept(change.plan, @), !.cycle = Kept(change.cycle, @),
              !.end = Kept(change.end, @), !.cancelAtPeriodEnd = Kept(change.flag, @)]

UpdateWrite(a) ==
  /\ call[a].at = "update"
  /\ sub' = [sub EXCEPT ![call[a].sub] = Updated(sub[call[a].sub], call[a])]
  /\ Answer(a)
  /\ UNCHANGED now

(* cancelSubscription: refused once canceled; else at once or at the end. *)

CancelRead(a, s, immediately) ==
  /\ Accepts(a, "cancel")
  /\ Exists(s) /\ sub[s].status # "CANCELED"
  /\ Then(a, [at |-> "cancel", sub |-> s, immediately |-> immediately])
  /\ UNCHANGED <<sub, now>>

CancelWrite(a) ==
  /\ call[a].at = "cancel"
  /\ sub' = [sub EXCEPT ![call[a].sub] =
       IF call[a].immediately THEN [@ EXCEPT !.status = "CANCELED", !.end = today]
                              ELSE [@ EXCEPT !.cancelAtPeriodEnd = TRUE]]
  /\ Answer(a)
  /\ UNCHANGED now

(* changePlan: refused for the plan the subscription is on. *)

ChangePlanRead(a, s, plan) ==
  /\ Accepts(a, "changePlan")
  /\ Exists(s) /\ sub[s].plan # plan
  /\ Then(a, [at |-> "plan", sub |-> s, plan |-> plan])
  /\ UNCHANGED <<sub, now>>

ChangePlanWrite(a) ==
  /\ call[a].at = "plan"
  /\ sub' = [sub EXCEPT ![call[a].sub].plan = call[a].plan]
  /\ Answer(a)
  /\ UNCHANGED now

-----------------------------------------------------------------------------
(* processRenewals and processTrialExpirations: the list, then the rows one
   after the other; an error of one is logged and the job goes on. *)

Listing(s) == [sub |-> s, end |-> sub[s].end, cycle |-> sub[s].cycle]

(* Mutant: every row at the end of its period is renewed. *)
DueForRenewalAny(row) == row.end <= today /\ ~ row.cancelAtPeriodEnd

(* Mutant: the renewals look a whole day further ahead. *)
DueForRenewalEarly(row) ==
  row.status \in Live /\ row.end <= today + 1 /\ ~ row.cancelAtPeriodEnd

(* A period ends with the end of its last day and the job looks a day ahead, so
   that a row is due from the first instant of that day. *)
DueForRenewal(row) ==
  row.status \in Live /\ row.end <= today /\ ~ row.cancelAtPeriodEnd

ListRenewals(a) ==
  /\ Accepts(a, "renewals")
  /\ Then(a, [at |-> "renewals",
              listed |-> {Listing(s) : s \in {x \in Subs : Exists(x) /\ DueForRenewal(sub[x])}}])
  /\ UNCHANGED <<sub, now>>

(* Mutant: the new period starts on the day of the job. *)
RenewFromToday(a) ==
  /\ call[a].at = "renewals"
  /\ \E l \in call[a].listed :
       /\ sub' = [sub EXCEPT ![l.sub] = [@ EXCEPT
            !.start = today, !.end = PeriodEnd(today, l.cycle), !.status = "ACTIVE"]]
       /\ Then(a, [call[a] EXCEPT !.listed = @ \ {l}])
  /\ UNCHANGED now

(* renewSubscription *)
Renew(a) ==
  /\ call[a].at = "renewals"
  /\ \E l \in call[a].listed :
       /\ sub' = [sub EXCEPT ![l.sub] = [@ EXCEPT
            !.start = l.end, !.end = PeriodEnd(l.end, l.cycle), !.status = "ACTIVE"]]
       /\ Then(a, [call[a] EXCEPT !.listed = @ \ {l}])
  /\ UNCHANGED now

TrialOver(row) == row.status = "TRIAL" /\ row.trialEnd <= now

ListTrials(a) ==
  /\ Accepts(a, "trials")
  /\ Then(a, [at |-> "trials",
              listed |-> {Listing(s) : s \in {x \in Subs : Exists(x) /\ TrialOver(sub[x])}}])
  /\ UNCHANGED <<sub, now>>

ConvertTrial(a) ==
  /\ call[a].at = "trials"
  /\ \E l \in call[a].listed :
       /\ sub' = [sub EXCEPT ![l.sub].status = "ACTIVE"]
       /\ Then(a, [call[a] EXCEPT !.listed = @ \ {l}])
  /\ UNCHANGED now

SkipListed(a) ==
  /\ call[a].at \in {"renewals", "trials"}
  /\ \E l \in call[a].listed : Then(a, [call[a] EXCEPT !.listed = @ \ {l}])
  /\ UNCHANGED <<sub, now>>

JobDone(a) ==
  /\ call[a].at \in {"renewals", "trials"} /\ call[a].listed = {}
  /\ Answer(a)
  /\ UNCHANGED <<sub, now>>

(* A database error or the end of the process. *)
SubAbort(a) ==
  /\ call[a] # Idle
  /\ Answer(a)
  /\ UNCHANGED <<sub, now>>

Tick ==
  /\ now + 1 \in Instants
  /\ now' = now + 1
  /\ UNCHANGED <<sub, call>>

(* Bounds: only periods that end before the horizon are begun, and those that end
   by it extended. *)
Opening(dto, from) == PeriodEnd(DayAt(from), dto.cycle) < Horizon
Within(s) == Exists(s) /\ sub[s].end <= Horizon

SubStep(a) ==
  \/ \E dto \in SubscribeDtos, from \in Starts \cup {now} :
       Opening(dto, from) /\ SubscribeCheck(a, dto, from)
  \/ SubscribeInsert(a)
  \/ \E s \in Subs, dto \in SubUpdates : Within(s) /\ UpdateRead(a, s, dto)
  \/ UpdateWrite(a)
  \/ \E s \in Subs, immediately \in BOOLEAN : CancelRead(a, s, immediately)
  \/ CancelWrite(a)
  \/ \E s \in Subs, plan \in Plans : ChangePlanRead(a, s, plan)
  \/ ChangePlanWrite(a)
  \/ ListRenewals(a)
  \/ Renew(a)
  \/ ListTrials(a)
  \/ ConvertTrial(a)
  \/ SkipListed(a)
  \/ JobDone(a)
  \/ SubAbort(a)

SubNext == Tick \/ \E a \in Agents : SubStep(a)

SubSpec == SubInit /\ [][SubNext]_subVars

-----------------------------------------------------------------------------
(* A school never has two subscriptions that are active or in trial: "School
   already has an active subscription", although the check is calls away from
   the insert, and cancellations and renewals run beside it. *)
OneLive ==
  \A s, t \in Subs : IsLive(s) /\ IsLive(t) /\ sub[s].school = sub[t].school => s = t

(* A canceled subscription stays canceled: neither job writes ACTIVE into a row
   that was canceled, from the list it read before. *)
CanceledStays ==
  [][\A s \in Subs :
       Exists(s) /\ sub[s].status = "CANCELED" => sub'[s].status = "CANCELED"]_subVars

(* The next period starts on the day the last one ended, however renewals and
   changes of cycle follow each other: no day is left out and no month paid
   twice. *)
PeriodsContinue ==
  [][\A s \in Subs :
       Exists(s) /\ sub'[s].start # sub[s].start =>
         sub'[s].start = sub[s].end /\ sub'[s].end > sub[s].end]_subVars

(* The trial of a row ends before the day on which any period from its start
   could end, or not after that day. *)
ShortTrial(row) == \A c \in Cycles : DayAt(row.trialEnd) < PeriodEnd(row.start, c)
FullTrial(row)  == \A c \in Cycles : DayAt(row.trialEnd) <= PeriodEnd(row.start, c)

(* A trial that is shorter than every period is not turned into a paid
   subscription before the instant it ends, by the renewals job in particular;
   one that may be as long as a period, not before the day it ends: there the
   renewals, due from the start of the period's last day, come before the
   instant. *)
TrialKept ==
  [][\A s \in Subs :
       Exists(s) /\ sub[s].status = "TRIAL" /\ sub'[s].status = "ACTIVE" =>
         /\ ShortTrial(sub[s]) => sub[s].trialEnd <= now
         /\ FullTrial(sub[s]) => DayAt(sub[s].trialEnd) <= today]_subVars

(* The refinement: the live subscriptions are one register per school, in which
   no subscription ever takes the place of another that is live. *)
LiveOf == [k \in Subscribers |-> {s \in Subs : IsLive(s) /\ sub[s].school = k}]
SubRegister == INSTANCE ActiveRegister WITH Schools <- Subscribers, Entries <- Subs, inForce <- LiveOf
SubscriptionRegister == SubRegister!Spec
=============================================================================
