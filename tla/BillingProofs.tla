---------------------------- MODULE BillingProofs ----------------------------
(***************************************************************************)
(* Theorems about Subscriptions, for any number of subscriptions, schools, *)
(* requests and jobs and for any horizon, about Payments, for any number   *)
(* of payments, gateways and rules, and about Pricing, for any amounts,    *)
(* rates, features and usages.                                             *)
(***************************************************************************)
EXTENDS Subscriptions, Payments, Pricing, FiniteSetTheorems, TLAPS

(***************************************************************************)
(* Subscriptions                                                           *)
(***************************************************************************)

(* Agent a is about to write row s. *)
Targets(a, s) ==
  \/ call[a].at \in {"update", "cancel", "plan"} /\ call[a].sub = s
  \/ call[a].at \in {"renewals", "trials"} /\ \E l \in call[a].listed : l.sub = s

(* Rows are never deleted: what was read is there when it is written. *)
TargetsExist == \A a \in Agents, s \in Subs : Targets(a, s) => Exists(s)

(* Only an agent with the duty is at a method. *)
OnDuty ==
  \A a \in Agents :
    /\ call[a].at = "insert" => "create" \in Duties[a]
    /\ call[a].at = "update" => "update" \in Duties[a]
    /\ call[a].at = "cancel" => "cancel" \in Duties[a]
    /\ call[a].at = "plan" => "changePlan" \in Duties[a]
    /\ call[a].at = "renewals" => "renewals" \in Duties[a]
    /\ call[a].at = "trials" => "trials" \in Duties[a]

SubCore == SubTypeOK /\ TargetsExist /\ OnDuty

LEMMA CallFields ==
  ASSUME NEW k \in Call
  PROVE  /\ k.at = "insert" => k.row \in SubRow
         /\ k.at = "update" => /\ k.sub \in Subs /\ k.plan \in Plans \cup {Blank}
                               /\ k.cycle \in Cycles \cup {Blank} /\ k.end \in Nat \cup {Blank}
                               /\ k.flag \in BOOLEAN \cup {Blank}
         /\ k.at = "cancel" => k.sub \in Subs /\ k.immediately \in BOOLEAN
         /\ k.at = "plan" => k.sub \in Subs /\ k.plan \in Plans
         /\ k.at \in {"renewals", "trials"} =>
              k.listed \subseteq ListedRow /\ k = [at |-> k.at, listed |-> k.listed]
BY DEF Call, Idle

LEMMA InstantsAreNat ==
  /\ Instants \subseteq Nat /\ Starts \subseteq Instants
  /\ \A i \in Nat : DayAt(i) \in Nat
<1>1. \A i \in Nat : i \div Moments \in Nat
  BY SubscriptionAssumption
<1> QED
  BY <1>1, SubscriptionAssumption DEF Instants, DayAt

(* An instant of an earlier day is an earlier instant. *)
LEMMA EarlierDay ==
  ASSUME NEW i \in Nat, NEW j \in Nat
  PROVE  /\ i <= j => DayAt(i) <= DayAt(j)
         /\ DayAt(i) < DayAt(j) => i <= j
<1>1. ASSUME NEW M \in Nat \ {0}, NEW x \in Nat, NEW y \in Nat, x <= y
      PROVE  x \div M <= y \div M
  BY <1>1
<1>2. ASSUME NEW x \in Nat, NEW y \in Nat, x <= y PROVE DayAt(x) <= DayAt(y)
  BY <1>1, <1>2, SubscriptionAssumption DEF DayAt
<1> QED
  BY <1>2, InstantsAreNat

LEMMA PeriodLonger ==
  ASSUME NEW start \in Nat, NEW cycle \in Cycles
  PROVE  PeriodEnd(start, cycle) \in Nat /\ PeriodEnd(start, cycle) > start
BY SubscriptionAssumption DEF PeriodEnd

LEMMA NewRowTyped ==
  ASSUME NEW dto \in SubscribeDtos, NEW from \in Nat
  PROVE  /\ NewRow(dto, from) \in SubRow
         /\ NewRow(dto, from).school = dto.school
         /\ NewRow(dto, from).status = "TRIAL" =>
              NewRow(dto, from).trialEnd = from + Moments * TrialDays[dto.plan]
         /\ NewRow(dto, from).start = DayAt(from)
         /\ NewRow(dto, from).end = PeriodEnd(DayAt(from), dto.cycle)
<1>1. /\ dto.school \in Subscribers /\ dto.plan \in Plans /\ dto.cycle \in Cycles
      /\ dto.trial \in BOOLEAN
  BY SubscriptionAssumption
<1>2. DayAt(from) \in Nat /\ PeriodEnd(DayAt(from), dto.cycle) \in Nat
  BY <1>1, InstantsAreNat, PeriodLonger
<1>3. from + Moments * TrialDays[dto.plan] \in Nat
  <2>1. \A m, d \in Nat : m * d \in Nat
    OBVIOUS
  <2>2. Moments \in Nat /\ TrialDays[dto.plan] \in Nat
    BY <1>1, SubscriptionAssumption
  <2> QED BY <2>1, <2>2
<1> QED
  BY <1>1, <1>2, <1>3 DEF NewRow, SubRow, Live

(* The rows the writes by identifier leave. *)
LEMMA UpdatedRow ==
  ASSUME NEW row \in SubRow, NEW k \in Call, k.at = "update"
  PROVE  /\ Updated(row, k) \in SubRow
         /\ Updated(row, k).school = row.school /\ Updated(row, k).status = row.status
         /\ Updated(row, k).start = row.start /\ Updated(row, k).trialEnd = row.trialEnd
         /\ Updated(row, k).end = Kept(k.end, row.end)
<1>1. /\ Kept(k.plan, row.plan) \in Plans /\ Kept(k.cycle, row.cycle) \in Cycles
      /\ Kept(k.end, row.end) \in Nat /\ Kept(k.flag, row.cancelAtPeriodEnd) \in BOOLEAN
  BY CallFields DEF Kept, SubRow
<1> QED
  BY <1>1 DEF Updated, SubRow

LEMMA CanceledRow ==
  ASSUME NEW row \in SubRow, NEW day \in Nat
  PROVE  /\ [row EXCEPT !.status = "CANCELED", !.end = day] \in SubRow
         /\ [row EXCEPT !.cancelAtPeriodEnd = TRUE] \in SubRow
BY DEF SubRow

LEMMA RenewedRow ==
  ASSUME NEW row \in SubRow, NEW start \in Nat, NEW end \in Nat
  PROVE  [row EXCEPT !.start = start, !.end = end, !.status = "ACTIVE"] \in SubRow
BY DEF SubRow, Live

LEMMA OtherRows ==
  ASSUME NEW row \in SubRow, NEW plan \in Plans
  PROVE  [row EXCEPT !.plan = plan] \in SubRow /\ [row EXCEPT !.status = "ACTIVE"] \in SubRow
BY DEF SubRow, Live

LEMMA SubRowsExist == \A row \in SubRow : row # Unused
BY SubRowAssumption

(***************************************************************************)
(* Types, targets and duties                                               *)
(***************************************************************************)

(* What a step of agent a does to row s.  Only an insert makes a row, only the
   jobs write ACTIVE, and only a renewal gives a row a new start. *)
RowChange(a, s) ==
  \/ sub'[s] = sub[s]
  \/ /\ ~ Exists(s) /\ call[a].at = "insert" /\ sub'[s] = call[a].row /\ call'[a] = Idle
     /\ \A x \in Subs \ {s} : sub'[x] = sub[x]
  \/ /\ Targets(a, s) /\ sub'[s] \in SubRow
     /\ sub'[s].school = sub[s].school /\ sub'[s].trialEnd = sub[s].trialEnd
     /\ \/ /\ call[a].at = "update" /\ sub'[s].status = sub[s].status
           /\ sub'[s].start = sub[s].start /\ sub'[s].end = Kept(call[a].end, sub[s].end)
        \/ /\ call[a].at = "cancel" /\ sub'[s].start = sub[s].start
           /\ \/ sub'[s].status = "CANCELED"
              \/ sub'[s].status = sub[s].status /\ sub'[s].end = sub[s].end
        \/ /\ call[a].at = "plan" /\ sub'[s].status = sub[s].status
           /\ sub'[s].start = sub[s].start /\ sub'[s].end = sub[s].end
        \/ /\ call[a].at = "renewals" /\ sub'[s].status = "ACTIVE"
           /\ \E l \in call[a].listed :
                /\ l.sub = s /\ sub'[s].start = l.end /\ sub'[s].end = PeriodEnd(l.end, l.cycle)
                /\ call'[a] = [at |-> "renewals", listed |-> call[a].listed \ {l}]
                /\ \A x \in Subs \ {s} : sub'[x] = sub[x]
        \/ /\ call[a].at = "trials" /\ sub'[s].status = "ACTIVE"
           /\ sub'[s].start = sub[s].start /\ sub'[s].end = sub[s].end

(* What agent a, which was idle, has read and goes on to write. *)
Begun(a) ==
  LET k == call'[a] IN
  \/ /\ k.at = "insert" /\ "create" \in Duties[a]
     /\ \E dto \in SubscribeDtos, from \in Nat :
          /\ k.row = NewRow(dto, from)
          /\ \A s \in Subs : IsLive(s) => sub[s].school # dto.school
  \/ /\ k.at = "update" /\ "update" \in Duties[a]
     /\ \E s \in Subs :
          /\ k.sub = s /\ Exists(s)
          /\ k.end # Blank => \E cycle \in Cycles : k.end = PeriodEnd(sub[s].end, cycle)
  \/ /\ \/ k.at = "cancel" /\ "cancel" \in Duties[a]
        \/ k.at = "plan" /\ "changePlan" \in Duties[a]
     /\ \E s \in Subs : k.sub = s /\ Exists(s)
  \/ /\ k.at = "renewals" /\ "renewals" \in Duties[a]
     /\ k.listed = {Listing(s) : s \in {x \in Subs : Exists(x) /\ DueForRenewal(sub[x])}}
  \/ /\ k.at = "trials" /\ "trials" \in Duties[a]
     /\ k.listed = {Listing(s) : s \in {x \in Subs : Exists(x) /\ TrialOver(sub[x])}}

(* What a step of agent a does to its own call. *)
CallChange(a) ==
  /\ \A b \in Agents \ {a} : call'[b] = call[b]
  /\ \/ call'[a] = Idle
     \/ call[a] = Idle /\ sub' = sub /\ Begun(a)
     \/ /\ call[a].at \in {"renewals", "trials"}
        /\ \E l \in call[a].listed : call'[a] = [at |-> call[a].at, listed |-> call[a].listed \ {l}]

(* The listing of a job, one row of the list less. *)
LEMMA ListedLess ==
  ASSUME NEW k \in Call, k.at \in {"renewals", "trials"}, NEW l \in k.listed
  PROVE  /\ [k EXCEPT !.listed = @ \ {l}] = [at |-> k.at, listed |-> k.listed \ {l}]
         /\ [at |-> k.at, listed |-> k.listed \ {l}] \in Call
         /\ l \in ListedRow
<1>1. k.listed \subseteq ListedRow /\ k = [at |-> k.at, listed |-> k.listed]
  BY CallFields
<1>2. k.listed \ {l} \in SUBSET ListedRow
  BY <1>1
<1>3. [at |-> k.at, listed |-> k.listed \ {l}] \in [at : {"renewals", "trials"}, listed : SUBSET ListedRow]
  BY <1>2
<1>4. [at |-> k.at, listed |-> k.listed \ {l}] \in Call
  BY <1>3 DEF Call
<1>5. [k EXCEPT !.listed = @ \ {l}] = [at |-> k.at, listed |-> k.listed \ {l}]
  BY <1>1
<1> QED
  BY <1>1, <1>4, <1>5

LEMMA SubStepChanges ==
  ASSUME SubCore, NEW a \in Agents, SubStep(a)
  PROVE  /\ SubTypeOK'
         /\ CallChange(a)
         /\ \A s \in Subs : RowChange(a, s)
         /\ now' = now
<1> DEFINE k == call[a]
<1>0. /\ sub \in [Subs -> SubRow \cup {Unused}] /\ call \in [Agents -> Call] /\ k \in Call
      /\ now \in Instants /\ now \in Nat /\ today \in Nat /\ Idle \in Call
      /\ \A s \in Subs : Exists(s) => sub[s] \in SubRow
  BY InstantsAreNat DEF SubCore, SubTypeOK, Call, Exists, today
<1>1. CASE \E dto \in SubscribeDtos, from \in Starts \cup {now} : SubscribeCheck(a, dto, from)
  <2>1. PICK dto \in SubscribeDtos, from \in Starts \cup {now} : SubscribeCheck(a, dto, from)
    BY <1>1
  <2>2. from \in Nat
    BY <1>0, InstantsAreNat
  <2>3. [at |-> "insert", row |-> NewRow(dto, from)] \in Call
    BY <2>2, NewRowTyped DEF Call
  <2>4. call'[a] = [at |-> "insert", row |-> NewRow(dto, from)]
    BY <1>0, <2>1 DEF SubscribeCheck, Then
  <2>5. Begun(a)
    BY <2>1, <2>2, <2>4 DEF Begun, SubscribeCheck, Accepts
  <2> QED
    BY <1>0, <2>1, <2>3, <2>5 DEF SubscribeCheck, Accepts, Then, SubTypeOK, CallChange, RowChange
<1>2. CASE SubscribeInsert(a)
  <2>1. PICK s \in Subs : ~ Exists(s) /\ sub' = [sub EXCEPT ![s] = k.row]
    BY <1>2 DEF SubscribeInsert
  <2>2. k.at = "insert" /\ k.row \in SubRow /\ call' = [call EXCEPT ![a] = Idle] /\ now' = now
    BY <1>0, <1>2, CallFields DEF SubscribeInsert, Answer, Then
  <2> QED
    BY <1>0, <2>1, <2>2 DEF SubTypeOK, CallChange, RowChange
<1>3. CASE \E s \in Subs, dto \in SubUpdates : UpdateRead(a, s, dto)
  <2>1. PICK s \in Subs, dto \in SubUpdates : UpdateRead(a, s, dto)
    BY <1>3
  <2>2. /\ dto.plan \in Plans \cup {Blank} /\ dto.cycle \in Cycles \cup {Blank}
        /\ dto.flag \in BOOLEAN \cup {Blank}
    BY SubscriptionAssumption
  <2>3. sub[s].end \in Nat
    BY <1>0, <2>1 DEF UpdateRead, SubRow
  <2>4. dto.cycle # Blank => Extended(sub[s], dto.cycle) \in Nat
    BY <2>2, <2>3, PeriodLonger DEF Extended
  <2>5. PICK plan \in Plans \cup {Blank}, cycle \in Cycles \cup {Blank}, end \in Nat \cup {Blank} :
          /\ call' = [call EXCEPT ![a] = [at |-> "update", sub |-> s, plan |-> plan, cycle |-> cycle,
                                          end |-> end, flag |-> dto.flag]]
          /\ end # Blank => \E c \in Cycles : end = PeriodEnd(sub[s].end, c)
    BY <2>1, <2>2, <2>4 DEF UpdateRead, Then, Extended
  <2>6. [at |-> "update", sub |-> s, plan |-> plan, cycle |-> cycle, end |-> end, flag |-> dto.flag]
          \in Call
    BY <2>2 DEF Call
  <2>7. call'[a] = [at |-> "update", sub |-> s, plan |-> plan, cycle |-> cycle, end |-> end,
                    flag |-> dto.flag]
    BY <1>0, <2>5
  <2>8. Begun(a)
    BY <2>1, <2>5, <2>7 DEF Begun, UpdateRead, Accepts
  <2> QED
    BY <1>0, <2>1, <2>5, <2>6, <2>8 DEF UpdateRead, Accepts, SubTypeOK, CallChange, RowChange
<1>4. CASE UpdateWrite(a)
  <2>1. PICK s \in Subs : s = k.sub
    BY <1>0, <1>4, CallFields DEF UpdateWrite
  <2>2. Targets(a, s) /\ Exists(s)
    BY <1>4, <2>1 DEF UpdateWrite, Targets, SubCore, TargetsExist
  <2>3. sub' = [sub EXCEPT ![s] = Updated(sub[s], k)] /\ k.at = "update" /\ sub[s] \in SubRow
    BY <1>0, <1>4, <2>1, <2>2 DEF UpdateWrite
  <2>4. RowChange(a, s)
    BY <1>0, <2>2, <2>3, UpdatedRow DEF RowChange
  <2>5. sub' \in [Subs -> SubRow \cup {Unused}] /\ \A x \in Subs : x # s => sub'[x] = sub[x]
    BY <1>0, <2>3, UpdatedRow
  <2>6. call' = [call EXCEPT ![a] = Idle] /\ now' = now
    BY <1>4 DEF UpdateWrite, Answer, Then
  <2>7. CallChange(a) /\ SubTypeOK'
    BY <1>0, <2>5, <2>6 DEF CallChange, SubTypeOK
  <2> QED
    BY <2>4, <2>5, <2>6, <2>7 DEF RowChange
<1>5. CASE \E s \in Subs, immediately \in BOOLEAN : CancelRead(a, s, immediately)
  <2>1. PICK s \in Subs, immediately \in BOOLEAN : CancelRead(a, s, immediately)
    BY <1>5
  <2>2. [at |-> "cancel", sub |-> s, immediately |-> immediately] \in Call
    BY DEF Call
  <2>3. call'[a] = [at |-> "cancel", sub |-> s, immediately |-> immediately]
    BY <1>0, <2>1 DEF CancelRead, Then
  <2>4. Begun(a)
    BY <2>1, <2>3 DEF Begun, CancelRead, Accepts
  <2> QED
    BY <1>0, <2>1, <2>2, <2>4 DEF CancelRead, Accepts, Then, SubTypeOK, CallChange, RowChange
<1>6. CASE CancelWrite(a)
  <2>1. PICK s \in Subs : s = k.sub
    BY <1>0, <1>6, CallFields DEF CancelWrite
  <2>2. Targets(a, s) /\ Exists(s)
    BY <1>6, <2>1 DEF CancelWrite, Targets, SubCore, TargetsExist
  <2>3. sub[s] \in SubRow /\ k.at = "cancel"
    BY <1>0, <1>6, <2>2 DEF CancelWrite
  <2>4. PICK row \in {[sub[s] EXCEPT !.status = "CANCELED", !.end = today],
                      [sub[s] EXCEPT !.cancelAtPeriodEnd = TRUE]} : sub' = [sub EXCEPT ![s] = row]
    BY <1>6, <2>1 DEF CancelWrite
  <2>5. /\ row \in SubRow /\ row.school = sub[s].school /\ row.trialEnd = sub[s].trialEnd
        /\ row.start = sub[s].start
        /\ row.status = "CANCELED" \/ (row.status = sub[s].status /\ row.end = sub[s].end)
    <3>1. CASE row = [sub[s] EXCEPT !.status = "CANCELED", !.end = today]
      BY <1>0, <2>3, <3>1, CanceledRow DEF SubRow
    <3>2. CASE row = [sub[s] EXCEPT !.cancelAtPeriodEnd = TRUE]
      BY <1>0, <2>3, <3>2, CanceledRow DEF SubRow
    <3> QED
      BY <2>4, <3>1, <3>2
  <2>6. RowChange(a, s)
    BY <1>0, <2>2, <2>3, <2>4, <2>5 DEF RowChange
  <2>7. sub' \in [Subs -> SubRow \cup {Unused}] /\ \A x \in Subs : x # s => sub'[x] = sub[x]
    BY <1>0, <2>4, <2>5
  <2>8. call' = [call EXCEPT ![a] = Idle] /\ now' = now
    BY <1>6 DEF CancelWrite, Answer, Then
  <2>9. CallChange(a) /\ SubTypeOK'
    BY <1>0, <2>7, <2>8 DEF CallChange, SubTypeOK
  <2> QED
    BY <2>6, <2>7, <2>8, <2>9 DEF RowChange
<1>7. CASE \E s \in Subs, plan \in Plans : ChangePlanRead(a, s, plan)
  <2>1. PICK s \in Subs, plan \in Plans : ChangePlanRead(a, s, plan)
    BY <1>7
  <2>2. [at |-> "plan", sub |-> s, plan |-> plan] \in Call
    BY DEF Call
  <2>3. call'[a] = [at |-> "plan", sub |-> s, plan |-> plan]
    BY <1>0, <2>1 DEF ChangePlanRead, Then
  <2>4. Begun(a)
    BY <2>1, <2>3 DEF Begun, ChangePlanRead, Accepts
  <2> QED
    BY <1>0, <2>1, <2>2, <2>4 DEF ChangePlanRead, Accepts, Then, SubTypeOK, CallChange, RowChange
<1>8. CASE ChangePlanWrite(a)
  <2>1. PICK s \in Subs, plan \in Plans : s = k.sub /\ plan = k.plan
    BY <1>0, <1>8, CallFields DEF ChangePlanWrite
  <2>2. Targets(a, s) /\ Exists(s)
    BY <1>8, <2>1 DEF ChangePlanWrite, Targets, SubCore, TargetsExist
  <2>3. sub[s] \in SubRow /\ k.at = "plan"
    BY <1>0, <1>8, <2>2 DEF ChangePlanWrite
  <2>4. PICK row : row = [sub[s] EXCEPT !.plan = plan]
    OBVIOUS
  <2>5. sub' = [sub EXCEPT ![s] = row]
    BY <1>0, <1>8, <2>1, <2>4 DEF ChangePlanWrite
  <2>6. /\ row \in SubRow /\ row.school = sub[s].school /\ row.trialEnd = sub[s].trialEnd
        /\ row.start = sub[s].start /\ row.status = sub[s].status /\ row.end = sub[s].end
    BY <2>3, <2>4 DEF SubRow
  <2>7. RowChange(a, s)
    BY <1>0, <2>2, <2>3, <2>5, <2>6 DEF RowChange
  <2>8. sub' \in [Subs -> SubRow \cup {Unused}] /\ \A x \in Subs : x # s => sub'[x] = sub[x]
    BY <1>0, <2>5, <2>6
  <2>9. call' = [call EXCEPT ![a] = Idle] /\ now' = now
    BY <1>8 DEF ChangePlanWrite, Answer, Then
  <2>10. CallChange(a) /\ SubTypeOK'
    BY <1>0, <2>8, <2>9 DEF CallChange, SubTypeOK
  <2> QED
    BY <2>7, <2>8, <2>9, <2>10 DEF RowChange
<1>9. CASE ListRenewals(a) \/ ListTrials(a)
  <2>1. \A s \in Subs : Exists(s) => Listing(s) \in ListedRow
    BY <1>0 DEF Listing, ListedRow, SubRow
  <2>2. /\ {Listing(s) : s \in {x \in Subs : Exists(x) /\ DueForRenewal(sub[x])}} \in SUBSET ListedRow
        /\ {Listing(s) : s \in {x \in Subs : Exists(x) /\ TrialOver(sub[x])}} \in SUBSET ListedRow
    BY <2>1
  <2>3. PICK at \in {"renewals", "trials"}, listed \in SUBSET ListedRow :
          /\ call' = [call EXCEPT ![a] = [at |-> at, listed |-> listed]]
          /\ \/ /\ at = "renewals" /\ "renewals" \in Duties[a]
                /\ listed = {Listing(s) : s \in {x \in Subs : Exists(x) /\ DueForRenewal(sub[x])}}
             \/ /\ at = "trials" /\ "trials" \in Duties[a]
                /\ listed = {Listing(s) : s \in {x \in Subs : Exists(x) /\ TrialOver(sub[x])}}
    BY <1>9, <2>2 DEF ListRenewals, ListTrials, Then, Accepts
  <2>4. [at |-> at, listed |-> listed] \in Call
    BY DEF Call
  <2>5. call'[a] = [at |-> at, listed |-> listed]
    BY <1>0, <2>3
  <2>6. Begun(a)
    BY <2>3, <2>5 DEF Begun
  <2> QED
    BY <1>0, <1>9, <2>3, <2>4, <2>6
    DEF ListRenewals, ListTrials, Accepts, SubTypeOK, CallChange, RowChange
<1>10. CASE Renew(a)
  <2>1. PICK l \in k.listed :
          /\ sub' = [sub EXCEPT ![l.sub] = [@ EXCEPT
               !.start = l.end, !.end = PeriodEnd(l.end, l.cycle), !.status = "ACTIVE"]]
          /\ call' = [call EXCEPT ![a] = [k EXCEPT !.listed = @ \ {l}]]
    BY <1>10 DEF Renew, Then
  <2>2. k.at = "renewals" /\ now' = now
    BY <1>10 DEF Renew
  <2>3. /\ [k EXCEPT !.listed = @ \ {l}] = [at |-> k.at, listed |-> k.listed \ {l}]
        /\ [at |-> k.at, listed |-> k.listed \ {l}] \in Call
        /\ l \in ListedRow
    BY <1>0, <2>2, ListedLess
  <2>4. PICK s \in Subs : s = l.sub
    BY <2>3 DEF ListedRow
  <2>5. Targets(a, s) /\ Exists(s) /\ sub[s] \in SubRow
    BY <1>0, <2>2, <2>4 DEF Targets, SubCore, TargetsExist
  <2>6. PICK end : end = PeriodEnd(l.end, l.cycle)
    OBVIOUS
  <2>7. l.end \in Nat /\ end \in Nat
    BY <2>3, <2>6, PeriodLonger DEF ListedRow
  <2>8. PICK row : row = [sub[s] EXCEPT !.start = l.end, !.end = end, !.status = "ACTIVE"]
    OBVIOUS
  <2>9. sub' = [sub EXCEPT ![s] = row]
    BY <1>0, <2>1, <2>4, <2>6, <2>8
  <2>10. /\ row \in SubRow /\ row.school = sub[s].school /\ row.trialEnd = sub[s].trialEnd
         /\ row.start = l.end /\ row.status = "ACTIVE" /\ row.end = end
    BY <2>5, <2>7, <2>8, RenewedRow DEF SubRow
  <2>11. call' = [call EXCEPT ![a] = [at |-> "renewals", listed |-> k.listed \ {l}]]
    BY <2>1, <2>2, <2>3
  <2>12. sub' \in [Subs -> SubRow \cup {Unused}] /\ \A x \in Subs : x # s => sub'[x] = sub[x]
    BY <1>0, <2>9, <2>10
  <2>13. call'[a] = [at |-> "renewals", listed |-> k.listed \ {l}] /\ sub'[s] = row
    BY <1>0, <2>9, <2>11
  <2>14. RowChange(a, s)
    BY <2>2, <2>4, <2>5, <2>6, <2>10, <2>12, <2>13 DEF RowChange
  <2>15. CallChange(a) /\ SubTypeOK'
    BY <1>0, <2>2, <2>3, <2>11, <2>12, <2>13 DEF CallChange, SubTypeOK
  <2> QED
    BY <2>2, <2>12, <2>14, <2>15 DEF RowChange
<1>11. CASE ConvertTrial(a)
  <2>1. PICK l \in k.listed :
          /\ sub' = [sub EXCEPT ![l.sub].status = "ACTIVE"]
          /\ call' = [call EXCEPT ![a] = [k EXCEPT !.listed = @ \ {l}]]
    BY <1>11 DEF ConvertTrial, Then
  <2>2. k.at = "trials" /\ now' = now
    BY <1>11 DEF ConvertTrial
  <2>3. /\ [k EXCEPT !.listed = @ \ {l}] = [at |-> k.at, listed |-> k.listed \ {l}]
        /\ [at |-> k.at, listed |-> k.listed \ {l}] \in Call
        /\ l \in ListedRow
    BY <1>0, <2>2, ListedLess
  <2>4. PICK s \in Subs : s = l.sub
    BY <2>3 DEF ListedRow
  <2>5. Targets(a, s) /\ Exists(s) /\ sub[s] \in SubRow
    BY <1>0, <2>2, <2>4 DEF Targets, SubCore, TargetsExist
  <2>6. PICK row : row = [sub[s] EXCEPT !.status = "ACTIVE"]
    OBVIOUS
  <2>7. sub' = [sub EXCEPT ![s] = row]
    BY <1>0, <2>1, <2>4, <2>6
  <2>8. /\ row \in SubRow /\ row.school = sub[s].school /\ row.trialEnd = sub[s].trialEnd
        /\ row.start = sub[s].start /\ row.status = "ACTIVE" /\ row.end = sub[s].end
    BY <2>5, <2>6, OtherRows DEF SubRow
  <2>9. sub' \in [Subs -> SubRow \cup {Unused}] /\ \A x \in Subs : x # s => sub'[x] = sub[x]
    BY <1>0, <2>7, <2>8
  <2>10. RowChange(a, s)
    BY <1>0, <2>2, <2>5, <2>7, <2>8 DEF RowChange
  <2>11. CallChange(a) /\ SubTypeOK'
    BY <1>0, <2>1, <2>2, <2>3, <2>9 DEF CallChange, SubTypeOK
  <2> QED
    BY <2>2, <2>9, <2>10, <2>11 DEF RowChange
<1>12. CASE SkipListed(a)
  <2>1. PICK l \in k.listed : call' = [call EXCEPT ![a] = [k EXCEPT !.listed = @ \ {l}]]
    BY <1>12 DEF SkipListed, Then
  <2>2. k.at \in {"renewals", "trials"} /\ now' = now /\ sub' = sub
    BY <1>12 DEF SkipListed
  <2>3. /\ [k EXCEPT !.listed = @ \ {l}] = [at |-> k.at, listed |-> k.listed \ {l}]
        /\ [at |-> k.at, listed |-> k.listed \ {l}] \in Call
    BY <1>0, <2>2, ListedLess
  <2> QED
    BY <1>0, <2>1, <2>2, <2>3 DEF CallChange, SubTypeOK, RowChange
<1>13. CASE JobDone(a) \/ SubAbort(a)
  BY <1>0, <1>13 DEF JobDone, SubAbort, Answer, Then, CallChange, SubTypeOK, RowChange
<1> QED
  BY <1>1, <1>2, <1>3, <1>4, <1>5, <1>6, <1>7, <1>8, <1>9, <1>10, <1>11, <1>12, <1>13 DEF SubStep

(* A call stays what it is, ends, begins, or is a job that goes on. *)
LEMMA CallCases ==
  ASSUME NEW a \in Agents, CallChange(a), NEW b \in Agents
  PROVE  \/ call'[b] = call[b]
         \/ b = a /\ call'[a] = Idle
         \/ b = a /\ Begun(a) /\ sub' = sub
         \/ b = a /\ call'[a].at \in {"renewals", "trials"}
<1>1. ASSUME NEW l \in call[a].listed, call[a].at \in {"renewals", "trials"},
             call'[a] = [at |-> call[a].at, listed |-> call[a].listed \ {l}]
      PROVE  call'[a].at \in {"renewals", "trials"}
  BY <1>1
<1> QED
  BY <1>1 DEF CallChange

LEMMA RowsStayRows ==
  ASSUME NEW a \in Agents, NEW s \in Subs, RowChange(a, s), Exists(s)
  PROVE  sub'[s] # Unused
BY SubRowsExist DEF RowChange, Exists

LEMMA SubStepCore ==
  ASSUME SubCore, NEW a \in Agents, SubTypeOK', CallChange(a), \A s \in Subs : RowChange(a, s)
  PROVE  SubCore'
<1>1. TargetsExist'
  <2> SUFFICES ASSUME NEW b \in Agents, NEW s \in Subs, Targets(b, s)'
               PROVE  sub'[s] # Unused
    BY DEF TargetsExist, Exists
  <2>1. Exists(s)
    <3>1. CASE call'[b] = call[b]
      BY <3>1 DEF Targets, SubCore, TargetsExist
    <3>2. CASE b = a /\ call'[a] = Idle
      BY <3>2 DEF Targets, Idle
    <3>3. CASE b = a /\ Begun(a)
      BY <3>3 DEF Begun, Targets, Listing
    <3>4. CASE /\ b = a /\ call[a].at \in {"renewals", "trials"}
               /\ \E l \in call[a].listed : call'[a] = [at |-> call[a].at, listed |-> call[a].listed \ {l}]
      BY <3>4 DEF Targets, SubCore, TargetsExist
    <3> QED
      BY <3>1, <3>2, <3>3, <3>4 DEF CallChange
  <2> QED
    BY <2>1, RowsStayRows
<1>2. OnDuty'
  <2>1. ASSUME Begun(a), \A b \in Agents \ {a} : call'[b] = call[b] PROVE OnDuty'
    BY <2>1 DEF Begun, SubCore, OnDuty
  <2>2. ASSUME call'[a] = Idle, \A b \in Agents \ {a} : call'[b] = call[b] PROVE OnDuty'
    BY <2>2 DEF SubCore, OnDuty, Idle
  <2>3. ASSUME call'[a].at = call[a].at, \A b \in Agents \ {a} : call'[b] = call[b] PROVE OnDuty'
    BY <2>3 DEF SubCore, OnDuty
  <2>4. ASSUME NEW l \in call[a].listed, call'[a] = [at |-> call[a].at, listed |-> call[a].listed \ {l}]
        PROVE  call'[a].at = call[a].at
    BY <2>4
  <2>5. \/ Begun(a) \/ call'[a] = Idle \/ call'[a].at = call[a].at
    BY <2>4 DEF CallChange
  <2> QED
    BY <2>1, <2>2, <2>3, <2>5 DEF CallChange
<1> QED
  BY <1>1, <1>2 DEF SubCore

LEMMA SubInitCore == SubInit => SubCore
<1> SUFFICES ASSUME SubInit PROVE SubCore
  OBVIOUS
<1>1. SubTypeOK
  <2>1. 0 \in Instants
    BY SubscriptionAssumption DEF Instants
  <2> QED BY <2>1 DEF SubInit, SubTypeOK, Call
<1>2. \A a \in Agents : call[a].at = "idle"
  BY DEF SubInit, Idle
<1> QED
  BY <1>1, <1>2 DEF SubCore, TargetsExist, OnDuty, Targets

(* Every step is an agent's or leaves the rows and the calls alone. *)
LEMMA SubNextMoves ==
  ASSUME SubCore, [SubNext]_subVars
  PROVE  /\ SubCore'
         /\ \/ /\ now' = now
               /\ \E a \in Agents : CallChange(a) /\ \A s \in Subs : RowChange(a, s)
            \/ UNCHANGED <<sub, call>> /\ now' \in {now, now + 1}
<1>1. CASE Tick
  <2>1. UNCHANGED <<sub, call>> /\ now' = now + 1 /\ now' \in Instants
    BY <1>1 DEF Tick
  <2> QED
    BY <2>1 DEF SubCore, SubTypeOK, TargetsExist, OnDuty, Targets, Exists
<1>2. ASSUME NEW a \in Agents, SubStep(a)
      PROVE  SubCore' /\ CallChange(a) /\ (\A s \in Subs : RowChange(a, s)) /\ now' = now
  BY <1>2, SubStepChanges, SubStepCore
<1>3. CASE UNCHANGED subVars
  BY <1>3 DEF subVars, SubCore, SubTypeOK, TargetsExist, OnDuty, Targets, Exists
<1> QED
  BY <1>1, <1>2, <1>3 DEF SubNext

(***************************************************************************)
(* Canceled subscriptions                                                  *)
(***************************************************************************)

(* No cancellation runs beside a job of another agent. *)
CancellationSerialised ==
  \A a, b \in Agents : a # b /\ "cancel" \in Duties[a] =>
    Duties[b] \cap {"renewals", "trials"} = {}

(* Row s is on the list of the job agent a runs. *)
Listed(a, s) ==
  call[a].at \in {"renewals", "trials"} /\ \E l \in call[a].listed : l.sub = s

(* What a job has listed is live until it is written. *)
ListedLive == \A a \in Agents, s \in Subs : Listed(a, s) => IsLive(s)

LEMMA StaysLive ==
  ASSUME NEW a \in Agents, NEW s \in Subs, RowChange(a, s), IsLive(s), call[a].at # "cancel"
  PROVE  IsLive(s)'
BY SubRowsExist DEF RowChange, IsLive, Exists, Live

(* A row that is live after a step was live before, or is the one row inserted. *)
LEMMA LiveFrom ==
  ASSUME SubCore, ListedLive, NEW a \in Agents, NEW s \in Subs, RowChange(a, s), IsLive(s)'
  PROVE  \/ IsLive(s) /\ sub'[s].school = sub[s].school
         \/ /\ ~ Exists(s) /\ call[a].at = "insert" /\ sub'[s] = call[a].row /\ call'[a] = Idle
            /\ \A x \in Subs \ {s} : sub'[x] = sub[x]
<1>1. CASE sub'[s] = sub[s]
  BY <1>1 DEF IsLive, Exists
<1>2. ASSUME call[a].at \in {"renewals", "trials"}, Targets(a, s) PROVE IsLive(s)
  BY <1>2 DEF ListedLive, Listed, Targets
<1>3. ASSUME Targets(a, s), sub'[s].status = sub[s].status PROVE IsLive(s)
  BY <1>3 DEF SubCore, TargetsExist, IsLive
<1> QED
  BY <1>1, <1>2, <1>3 DEF RowChange, IsLive, Live

LEMMA ListedLiveStep ==
  ASSUME SubCore, ListedLive, CancellationSerialised, NEW a \in Agents, CallChange(a),
         \A s \in Subs : RowChange(a, s)
  PROVE  ListedLive'
<1> SUFFICES ASSUME NEW b \in Agents, NEW s \in Subs, Listed(b, s)' PROVE IsLive(s)'
  BY DEF ListedLive
<1>1. CASE b = a /\ Begun(a) /\ sub' = sub
  BY <1>1 DEF Begun, Listed, Listing, DueForRenewal, TrialOver, IsLive, Exists, Live
<1>2. CASE b = a /\ call'[a] = Idle
  BY <1>2 DEF Listed, Idle
<1>3. ASSUME Listed(b, s), call[a].at # "cancel" \/ b # a PROVE IsLive(s)'
  <2>1. CASE call[a].at # "cancel"
    BY <1>3, <2>1, StaysLive DEF ListedLive
  <2>2. CASE call[a].at = "cancel"
    BY <1>3, <2>2 DEF SubCore, OnDuty, Listed, CancellationSerialised
  <2> QED
    BY <2>1, <2>2
<1>4. CASE b # a
  BY <1>3, <1>4 DEF CallChange, Listed
<1>5. ASSUME b = a, call[a].at \in {"renewals", "trials"}, NEW l \in call[a].listed,
             call'[a] = [at |-> call[a].at, listed |-> call[a].listed \ {l}]
      PROVE  IsLive(s)'
  BY <1>3, <1>5 DEF Listed
<1> QED
  BY <1>1, <1>2, <1>4, <1>5 DEF CallChange

LEMMA ListedLiveHolds ==
  ASSUME CancellationSerialised
  PROVE  SubSpec => [](SubCore /\ ListedLive)
<1>1. SubInit => SubCore /\ ListedLive
  <2>1. SubInit => \A a \in Agents : call[a].at = "idle"
    BY DEF SubInit, Idle
  <2> QED
    BY <2>1, SubInitCore DEF ListedLive, Listed
<1>2. SubCore /\ ListedLive /\ [SubNext]_subVars => (SubCore /\ ListedLive)'
  <2>1. ASSUME ListedLive, UNCHANGED <<sub, call>> PROVE ListedLive'
    BY <2>1 DEF ListedLive, Listed, IsLive, Exists
  <2> QED
    BY <2>1, SubNextMoves, ListedLiveStep
<1> QED
  BY <1>1, <1>2, PTL DEF SubSpec

(* A canceled subscription stays canceled, whatever updates, plans and creations
   run beside it, if no cancellation runs beside a job: the rows a job has listed
   are then live until it writes ACTIVE into them. *)
THEOREM CanceledForGood ==
  ASSUME CancellationSerialised
  PROVE  SubSpec => CanceledStays
<1> DEFINE Stays == \A s \in Subs :
      Exists(s) /\ sub[s].status = "CANCELED" => sub'[s].status = "CANCELED"
<1>1. ASSUME SubCore, ListedLive, NEW a \in Agents, \A s \in Subs : RowChange(a, s) PROVE Stays
  BY <1>1 DEF RowChange, ListedLive, Listed, Targets, IsLive, Live
<1>2. SubCore /\ ListedLive /\ [SubNext]_subVars => [Stays]_subVars
  BY <1>1, SubNextMoves
<1> QED
  BY <1>2, ListedLiveHolds, PTL DEF SubSpec, CanceledStays

(***************************************************************************)
(* One live subscription                                                   *)
(***************************************************************************)

(* One agent creates subscriptions. *)
SubscribingSerialised ==
  \A a, b \in Agents : a # b /\ "create" \in Duties[a] => "create" \notin Duties[b]

(* The school of a subscription that is about to be inserted has no live one. *)
PendingFree ==
  \A a \in Agents, s \in Subs :
    call[a].at = "insert" /\ IsLive(s) => sub[s].school # call[a].row.school

LEMMA OneLiveStep ==
  ASSUME SubCore, ListedLive, PendingFree, OneLive, SubscribingSerialised,
         NEW a \in Agents, CallChange(a), \A s \in Subs : RowChange(a, s)
  PROVE  PendingFree' /\ OneLive'
<1>1. PendingFree'
  <2> SUFFICES ASSUME NEW b \in Agents, NEW s \in Subs, call'[b].at = "insert", IsLive(s)'
               PROVE  sub'[s].school # call'[b].row.school
    BY DEF PendingFree
  <2>1. CASE b # a
    <3>1. call'[b] = call[b] /\ "create" \in Duties[b]
      BY <2>1 DEF CallChange, SubCore, OnDuty
    <3>2. call[a].at # "insert"
      BY <2>1, <3>1 DEF SubCore, OnDuty, SubscribingSerialised
    <3> QED
      BY <3>1, <3>2, LiveFrom DEF PendingFree
  <2>2. CASE b = a
    <3>1. ASSUME NEW l \in call[a].listed,
                 call[a].at \in {"renewals", "trials"},
                 call'[a] = [at |-> call[a].at, listed |-> call[a].listed \ {l}]
          PROVE  FALSE
      BY <2>2, <3>1
    <3>2. Begun(a) /\ sub' = sub
      <4>1. call'[a] # Idle
        BY <2>2 DEF Idle
      <4> QED
        BY <3>1, <4>1 DEF CallChange
    <3>3. PICK dto \in SubscribeDtos, from \in Nat :
            /\ call'[a].row = NewRow(dto, from)
            /\ \A x \in Subs : IsLive(x) => sub[x].school # dto.school
      BY <2>2, <3>2 DEF Begun
    <3> QED
      BY <2>2, <3>2, <3>3, NewRowTyped DEF IsLive, Exists
  <2> QED
    BY <2>1, <2>2
<1>2. OneLive'
  <2> SUFFICES ASSUME NEW s \in Subs, NEW x \in Subs, IsLive(s)', IsLive(x)',
                      sub'[s].school = sub'[x].school, s # x
               PROVE  FALSE
    BY DEF OneLive
  <2>1. CASE /\ IsLive(s) /\ sub'[s].school = sub[s].school
             /\ IsLive(x) /\ sub'[x].school = sub[x].school
    BY <2>1 DEF OneLive
  <2>2. ASSUME NEW y \in Subs, NEW z \in Subs, y # z, IsLive(z)', sub'[y].school = sub'[z].school,
               call[a].at = "insert", sub'[y] = call[a].row,
               \A w \in Subs \ {y} : sub'[w] = sub[w]
        PROVE  FALSE
    <3>1. IsLive(z) /\ sub'[z] = sub[z]
      BY <2>2 DEF IsLive, Exists
    <3> QED
      BY <2>2, <3>1 DEF PendingFree
  <2> QED
    BY <2>1, <2>2, LiveFrom
<1> QED
  BY <1>1, <1>2

(* What keeps a school to one live subscription: the rows the jobs hold are live,
   and a school whose subscription is about to be inserted has none. *)
LiveInv == SubCore /\ ListedLive /\ PendingFree /\ OneLive

LEMMA LiveInvHolds ==
  ASSUME SubscribingSerialised, CancellationSerialised
  PROVE  SubSpec => []LiveInv
<1>1. SubInit => LiveInv
  <2>1. SubInit => (\A a \in Agents : call[a].at = "idle") /\ \A s \in Subs : ~ IsLive(s)
    BY DEF SubInit, Idle, IsLive, Exists
  <2> QED
    BY <2>1, SubInitCore DEF LiveInv, ListedLive, Listed, PendingFree, OneLive
<1>2. LiveInv /\ [SubNext]_subVars => LiveInv'
  <2>1. ASSUME LiveInv, UNCHANGED <<sub, call>> PROVE (ListedLive /\ PendingFree /\ OneLive)'
    BY <2>1 DEF LiveInv, ListedLive, Listed, PendingFree, OneLive, IsLive, Exists
  <2> QED
    BY <2>1, SubNextMoves, ListedLiveStep, OneLiveStep DEF LiveInv
<1> QED
  BY <1>1, <1>2, PTL DEF SubSpec

(* A school never has two live subscriptions ("School already has an active
   subscription"), although the check is calls away from the insert, if one agent
   creates and no cancellation runs beside a job: a job that wrote ACTIVE into a
   canceled row would bring it back beside its successor. *)
THEOREM OneSubscription ==
  ASSUME SubscribingSerialised, CancellationSerialised
  PROVE  SubSpec => []OneLive
<1>1. LiveInv => OneLive
  BY DEF LiveInv
<1> QED
  BY <1>1, LiveInvHolds, PTL

(* The step that inserts row y fills an empty register, if the row is live. *)
LEMMA SubscribedStep ==
  ASSUME LiveInv, NEW a \in Agents, NEW y \in Subs, ~ Exists(y),
         call[a].at = "insert", sub'[y] = call[a].row,
         \A x \in Subs \ {y} : sub'[x] = sub[x]
  PROVE  SubRegister!Next \/ UNCHANGED LiveOf
<1>1. call[a].row \in SubRow
  BY CallFields DEF LiveInv, SubCore, SubTypeOK
<1>2. PICK k0 \in Subscribers : k0 = call[a].row.school
  BY <1>1 DEF SubRow
<1>3. \A x \in Subs \ {y} : IsLive(x)' <=> IsLive(x)
  BY DEF IsLive, Exists
<1>4. ~ IsLive(y)
  BY DEF IsLive
<1>5. CASE IsLive(y)'
  <2>1. LiveOf[k0] = {}
    BY <1>2 DEF LiveOf, LiveInv, PendingFree
  <2>2. LiveOf' = [LiveOf EXCEPT ![k0] = {y}]
    <3>1. LiveOf'[k0] = {y}
      <4>1. \A x \in Subs : IsLive(x) => sub[x].school # k0
        BY <1>2 DEF LiveInv, PendingFree
      <4>2. \A x \in Subs : IsLive(x)' /\ sub'[x].school = k0 <=> x = y
        BY <1>2, <1>3, <1>5, <4>1
      <4> QED
        BY <4>2 DEF LiveOf
    <3>2. \A k \in Subscribers : k # k0 => LiveOf'[k] = LiveOf[k]
      BY <1>2, <1>3, <1>4 DEF LiveOf
    <3> QED
      BY <3>1, <3>2 DEF LiveOf
  <2> QED
    BY <2>1, <2>2 DEF SubRegister!Next, SubRegister!Enforce
<1>6. CASE ~ IsLive(y)'
  <2>1. \A x \in Subs, k \in Subscribers :
          IsLive(x)' /\ sub'[x].school = k <=> IsLive(x) /\ sub[x].school = k
    BY <1>3, <1>4, <1>6
  <2> QED
    BY <2>1 DEF LiveOf
<1> QED
  BY <1>5, <1>6

(* Every other step leaves what is live live, or cancels the one subscription of
   a school. *)
LEMMA UnsubscribedStep ==
  ASSUME LiveInv, NEW a \in Agents, \A s \in Subs : RowChange(a, s),
         \A s \in Subs : IsLive(s)' => IsLive(s) /\ sub'[s].school = sub[s].school
  PROVE  SubRegister!Next \/ UNCHANGED LiveOf
<1>1. CASE \A s \in Subs : IsLive(s) => IsLive(s)'
  <2>1. \A x \in Subs, k \in Subscribers :
          IsLive(x)' /\ sub'[x].school = k <=> IsLive(x) /\ sub[x].school = k
    BY <1>1
  <2> QED
    BY <2>1 DEF LiveOf
<1>2. ASSUME NEW y \in Subs, IsLive(y), ~ IsLive(y)'
      PROVE  SubRegister!Next
  <2>1. call[a].at = "cancel"
    BY <1>2, StaysLive
  <2>2. call[a].sub = y
    BY <1>2, <2>1 DEF RowChange, Targets, IsLive, Exists
  <2>3. \A x \in Subs \ {y} : sub'[x] = sub[x]
    BY <2>1, <2>2 DEF RowChange, Targets
  <2>4. PICK k0 \in Subscribers : k0 = sub[y].school
    BY <1>2 DEF LiveInv, SubCore, SubTypeOK, SubRow, IsLive, Exists
  <2>5. \A x \in Subs : IsLive(x) /\ sub[x].school = k0 => x = y
    BY <1>2, <2>4 DEF LiveInv, OneLive
  <2>6. LiveOf[k0] # {}
    BY <1>2, <2>4 DEF LiveOf
  <2>7. LiveOf'[k0] = {}
    <3>1. \A x \in Subs : ~ (IsLive(x)' /\ sub'[x].school = k0)
      BY <1>2, <2>3, <2>5
    <3> QED
      BY <3>1 DEF LiveOf
  <2>8. \A k \in Subscribers : k # k0 => LiveOf'[k] = LiveOf[k]
    <3>1. \A x \in Subs, k \in Subscribers \ {k0} :
            IsLive(x)' /\ sub'[x].school = k <=> IsLive(x) /\ sub[x].school = k
      BY <1>2, <2>3, <2>4 DEF IsLive, Exists
    <3> QED
      BY <3>1 DEF LiveOf
  <2>9. LiveOf' = [LiveOf EXCEPT ![k0] = {}]
    BY <2>7, <2>8 DEF LiveOf
  <2> QED
    BY <2>6, <2>9 DEF SubRegister!Next, SubRegister!Retire
<1> QED
  BY <1>1, <1>2

(* Under the same two conditions the live subscriptions of all schools behave as
   registers that hold one subscription at most and change one at a time: a
   subscription is taken up only where there is none, and none replaces another. *)
THEOREM SubscriptionsAreRegister ==
  ASSUME SubscribingSerialised, CancellationSerialised
  PROVE  SubSpec => SubscriptionRegister
<1>1. SubInit => SubRegister!Init
  BY DEF SubInit, SubRegister!Init, LiveOf, IsLive, Exists
<1>2. LiveInv /\ [SubNext]_subVars => [SubRegister!Next]_LiveOf
  <2> SUFFICES ASSUME LiveInv, [SubNext]_subVars PROVE SubRegister!Next \/ UNCHANGED LiveOf
    OBVIOUS
  <2>1. CASE UNCHANGED sub
    BY <2>1 DEF LiveOf, IsLive, Exists
  <2>2. ASSUME NEW a \in Agents, \A s \in Subs : RowChange(a, s)
        PROVE  SubRegister!Next \/ UNCHANGED LiveOf
    <3>1. CASE \A s \in Subs : IsLive(s)' => IsLive(s) /\ sub'[s].school = sub[s].school
      BY <2>2, <3>1, UnsubscribedStep
    <3>2. ASSUME NEW y \in Subs, IsLive(y)', ~ (IsLive(y) /\ sub'[y].school = sub[y].school)
          PROVE  SubRegister!Next \/ UNCHANGED LiveOf
      BY <2>2, <3>2, LiveFrom, SubscribedStep DEF LiveInv
    <3> QED
      BY <3>1, <3>2
  <2> QED
    BY <2>1, <2>2, SubNextMoves DEF LiveInv
<1> QED
  BY <1>1, <1>2, LiveInvHolds, PTL DEF SubSpec, SubscriptionRegister, SubRegister!Spec

(***************************************************************************)
(* Periods                                                                 *)
(***************************************************************************)

(* Nothing else that sets the end of a period runs beside the renewals. *)
RenewalSerialised ==
  \A a, b \in Agents : a # b /\ "renewals" \in Duties[a] =>
    Duties[b] \cap {"renewals", "update", "cancel"} = {}

(* The renewals know the end of the rows they listed, each listed once. *)
ListedFresh ==
  \A a \in Agents : call[a].at = "renewals" =>
    /\ \A l \in call[a].listed : l.end = sub[l.sub].end
    /\ \A l, m \in call[a].listed : l.sub = m.sub => l = m

LEMMA EndStays ==
  ASSUME SubCore, NEW a \in Agents, NEW s \in Subs, RowChange(a, s), Exists(s),
         call[a].at \notin {"renewals", "update", "cancel"}
  PROVE  sub'[s].end = sub[s].end
BY DEF RowChange

LEMMA ListedExist ==
  ASSUME SubCore, NEW a \in Agents, call[a].at \in {"renewals", "trials"}, NEW l \in call[a].listed
  PROVE  l.sub \in Subs /\ Exists(l.sub) /\ l.end \in Nat /\ l.cycle \in Cycles
<1>1. l \in ListedRow
  BY CallFields DEF SubCore, SubTypeOK
<1>2. PICK s \in Subs : s = l.sub
  BY <1>1 DEF ListedRow
<1>3. Targets(a, s)
  BY <1>2 DEF Targets
<1> QED
  BY <1>1, <1>2, <1>3 DEF SubCore, TargetsExist, ListedRow

LEMMA ListedFreshStep ==
  ASSUME SubCore, ListedFresh, RenewalSerialised, NEW a \in Agents, CallChange(a),
         \A s \in Subs : RowChange(a, s)
  PROVE  ListedFresh'
<1> SUFFICES ASSUME NEW b \in Agents, call'[b].at = "renewals"
             PROVE  /\ \A l \in call'[b].listed : l.end = sub'[l.sub].end
                    /\ \A l, m \in call'[b].listed : l.sub = m.sub => l = m
  BY DEF ListedFresh
<1>1. CASE b # a
  <2>1. call'[b] = call[b] /\ "renewals" \in Duties[b]
    BY <1>1 DEF CallChange, SubCore, OnDuty
  <2>2. call[a].at \notin {"renewals", "update", "cancel"}
    BY <1>1, <2>1 DEF SubCore, OnDuty, RenewalSerialised
  <2>3. \A l \in call[b].listed : l.sub \in Subs /\ Exists(l.sub)
    BY <2>1, ListedExist
  <2>4. \A l \in call[b].listed : sub'[l.sub].end = sub[l.sub].end
    BY <2>2, <2>3, EndStays
  <2> QED
    BY <2>1, <2>4 DEF ListedFresh
<1>2. CASE b = a /\ Begun(a) /\ sub' = sub
  BY <1>2 DEF Begun, Listing
<1>3. CASE b = a /\ call'[a] = Idle
  BY <1>3 DEF Idle
<1>4. ASSUME b = a, call[a].at \in {"renewals", "trials"}, NEW l \in call[a].listed,
             call'[a] = [at |-> call[a].at, listed |-> call[a].listed \ {l}]
      PROVE  /\ \A m \in call'[b].listed : m.end = sub'[m.sub].end
             /\ \A m, n \in call'[b].listed : m.sub = n.sub => m = n
  <2>1. call[a].at = "renewals" /\ call'[a].listed = call[a].listed \ {l}
    BY <1>4
  <2>2. ASSUME NEW m \in call[a].listed \ {l} PROVE sub'[m.sub].end = sub[m.sub].end
    <3>1. m.sub \in Subs /\ Exists(m.sub) /\ m.sub # l.sub
      BY <2>1, <2>2, ListedExist DEF ListedFresh
    <3>2. RowChange(a, m.sub)
      BY <3>1
    <3>3. ASSUME NEW n \in call[a].listed, n.sub = m.sub,
                 call'[a] = [at |-> "renewals", listed |-> call[a].listed \ {n}]
          PROVE  FALSE
      <4>1. n = m
        BY <2>1, <3>3 DEF ListedFresh
      <4>2. m \notin call'[a].listed
        BY <3>3, <4>1
      <4> QED
        BY <2>1, <2>2, <4>2
    <3> QED
      BY <2>1, <3>1, <3>2, <3>3 DEF RowChange
  <2> QED
    BY <1>4, <2>1, <2>2 DEF ListedFresh
<1> QED
  BY <1>1, <1>2, <1>3, <1>4 DEF CallChange

(* The next period starts on the day the last one ended and is not empty: no day
   is left out and no month paid twice, however changes of plan, creations and
   conversions of trials interleave with the renewals, and whatever the updates of
   their own agent did between two lists. *)
THEOREM PeriodsJoin ==
  ASSUME RenewalSerialised
  PROVE  SubSpec => PeriodsContinue
<1> DEFINE I == SubCore /\ ListedFresh
           Joins == \A s \in Subs :
             Exists(s) /\ sub'[s].start # sub[s].start =>
               sub'[s].start = sub[s].end /\ sub'[s].end > sub[s].end
<1>1. SubInit => I
  <2>1. SubInit => \A a \in Agents : call[a].at = "idle"
    BY DEF SubInit, Idle
  <2> QED
    BY <2>1, SubInitCore DEF ListedFresh
<1>2. I /\ [SubNext]_subVars => I'
  <2>1. ASSUME I, UNCHANGED <<sub, call>> PROVE ListedFresh'
    BY <2>1 DEF ListedFresh
  <2> QED
    BY <2>1, SubNextMoves, ListedFreshStep
<1>3. ASSUME I, NEW a \in Agents, \A s \in Subs : RowChange(a, s) PROVE Joins
  <2> SUFFICES ASSUME NEW s \in Subs, Exists(s), sub'[s].start # sub[s].start
               PROVE  sub'[s].start = sub[s].end /\ sub'[s].end > sub[s].end
    OBVIOUS
  <2>1. RowChange(a, s)
    BY <1>3
  <2>2. call[a].at = "renewals" /\ \E l \in call[a].listed :
          l.sub = s /\ sub'[s].start = l.end /\ sub'[s].end = PeriodEnd(l.end, l.cycle)
    BY <2>1 DEF RowChange
  <2>3. PICK l \in call[a].listed :
          l.sub = s /\ sub'[s].start = l.end /\ sub'[s].end = PeriodEnd(l.end, l.cycle)
    BY <2>2
  <2>4. l.end \in Nat /\ l.cycle \in Cycles
    BY <1>3, <2>2, <2>3, ListedExist
  <2>5. l.end = sub[s].end
    BY <1>3, <2>2, <2>3 DEF ListedFresh
  <2>6. PeriodEnd(l.end, l.cycle) > l.end
    BY <2>4, PeriodLonger
  <2> QED
    BY <2>3, <2>5, <2>6
<1>4. I /\ [SubNext]_subVars => [Joins]_subVars
  BY <1>3, SubNextMoves
<1> QED
  BY <1>1, <1>2, <1>4, PTL DEF SubSpec, PeriodsContinue

(***************************************************************************)
(* Trials                                                                  *)
(***************************************************************************)

OnTrial(s) == Exists(s) /\ sub[s].status = "TRIAL"

(* A day is not before the end of the shortest period from the start of a row. *)
Reaches(row, day) == \E c \in Cycles : PeriodEnd(row.start, c) <= day

(* The period of a trial is not cut short. *)
TrialsWithin ==
  /\ \A s \in Subs : OnTrial(s) => sub[s].trialEnd \in Nat /\ Reaches(sub[s], sub[s].end)
  /\ \A a \in Agents : call[a].at = "insert" /\ call[a].row.status = "TRIAL" =>
       call[a].row.trialEnd \in Nat /\ Reaches(call[a].row, call[a].row.end)

(* Nor does an update that is under way. *)
UpdatesBeyond ==
  \A a \in Agents, s \in Subs :
    call[a].at = "update" /\ call[a].sub = s /\ call[a].end # Blank /\ OnTrial(s) =>
      Reaches(sub[s], call[a].end)

(* What TrialKept asks of a row that leaves its trial. *)
TrialEnded(row) ==
  /\ ShortTrial(row) => row.trialEnd <= now
  /\ FullTrial(row) => DayAt(row.trialEnd) <= today

(* A trial that a job has listed is over. *)
ListedOver == \A a \in Agents, s \in Subs : Listed(a, s) /\ OnTrial(s) => TrialEnded(sub[s])

TrialInv == TrialsWithin /\ UpdatesBeyond /\ ListedOver

(* A row on trial was on trial before, with the same start and the same end of
   it, or was inserted. *)
LEMMA TrialFrom ==
  ASSUME SubCore, NEW a \in Agents, NEW s \in Subs, RowChange(a, s), OnTrial(s)'
  PROVE  \/ OnTrial(s) /\ sub'[s].trialEnd = sub[s].trialEnd /\ sub'[s].start = sub[s].start
         \/ ~ Exists(s) /\ call[a].at = "insert" /\ sub'[s] = call[a].row
BY DEF RowChange, OnTrial, Exists, SubCore, TargetsExist

LEMMA TrialNumbers ==
  ASSUME SubCore, TrialInv, NEW s \in Subs, OnTrial(s)
  PROVE  /\ sub[s].trialEnd \in Nat /\ sub[s].start \in Nat /\ sub[s].end \in Nat
         /\ now \in Nat /\ today \in Nat /\ DayAt(sub[s].trialEnd) \in Nat
BY InstantsAreNat
   DEF SubCore, SubTypeOK, SubRow, TrialInv, TrialsWithin, OnTrial, Exists, today

(* A trial that a job lists is over: it was due for renewal, when its period has
   reached its last day, or its own end has passed. *)
LEMMA ListedIsOver ==
  ASSUME SubCore, TrialInv, NEW s \in Subs, OnTrial(s),
         DueForRenewal(sub[s]) \/ TrialOver(sub[s])
  PROVE  TrialEnded(sub[s])
<1> DEFINE row == sub[s]
<1>1. row.trialEnd \in Nat /\ row.start \in Nat /\ row.end \in Nat /\ now \in Nat
      /\ today \in Nat /\ DayAt(row.trialEnd) \in Nat
  BY TrialNumbers
<1>2. CASE TrialOver(row)
  BY <1>1, <1>2, EarlierDay DEF TrialOver, TrialEnded, today
<1>3. CASE DueForRenewal(row)
  <2>1. PICK c \in Cycles : PeriodEnd(row.start, c) <= row.end
    BY DEF TrialInv, TrialsWithin, Reaches
  <2>2. PeriodEnd(row.start, c) \in Nat /\ row.end <= today
    BY <1>1, <1>3, PeriodLonger DEF DueForRenewal
  <2>3. ShortTrial(row) => DayAt(row.trialEnd) < DayAt(now)
    BY <1>1, <2>1, <2>2 DEF ShortTrial, today
  <2>4. FullTrial(row) => DayAt(row.trialEnd) <= today
    BY <1>1, <2>1, <2>2 DEF FullTrial
  <2> QED
    BY <1>1, <2>3, <2>4, EarlierDay DEF TrialEnded
<1> QED
  BY <1>2, <1>3

LEMMA TrialStep ==
  ASSUME SubCore, TrialInv, now' = now, NEW a \in Agents, CallChange(a),
         \A s \in Subs : RowChange(a, s)
  PROVE  TrialInv'
<1>1. ASSUME NEW s \in Subs, OnTrial(s)'
      PROVE  sub'[s].trialEnd \in Nat /\ Reaches(sub'[s], sub'[s].end)
  <2>1. CASE ~ Exists(s) /\ call[a].at = "insert" /\ sub'[s] = call[a].row
    BY <1>1, <2>1 DEF TrialInv, TrialsWithin, OnTrial
  <2>2. CASE OnTrial(s) /\ sub'[s].trialEnd = sub[s].trialEnd /\ sub'[s].start = sub[s].start
    <3>1. sub[s].trialEnd \in Nat /\ Reaches(sub[s], sub[s].end)
      BY <2>2 DEF TrialInv, TrialsWithin
    <3>2. \/ sub'[s].end = sub[s].end
          \/ call[a].at = "update" /\ Targets(a, s) /\ sub'[s].end = Kept(call[a].end, sub[s].end)
      BY <1>1, <2>2 DEF RowChange, OnTrial, Exists
    <3>3. ASSUME call[a].at = "update", Targets(a, s), sub'[s].end = Kept(call[a].end, sub[s].end)
          PROVE  Reaches(sub[s], sub'[s].end)
      BY <2>2, <3>1, <3>3 DEF TrialInv, UpdatesBeyond, Targets, Kept
    <3> QED
      BY <2>2, <3>1, <3>2, <3>3 DEF Reaches
  <2> QED
    BY <1>1, <2>1, <2>2, TrialFrom
<1>2. ASSUME Begun(a), call'[a].at = "insert", call'[a].row.status = "TRIAL"
      PROVE  call'[a].row.trialEnd \in Nat /\ Reaches(call'[a].row, call'[a].row.end)
  <2>1. PICK dto \in SubscribeDtos, from \in Nat : call'[a].row = NewRow(dto, from)
    BY <1>2 DEF Begun
  <2>2. dto.plan \in Plans /\ dto.cycle \in Cycles /\ TrialDays[dto.plan] \in Nat
    BY SubscriptionAssumption
  <2>3. /\ call'[a].row.trialEnd = from + Moments * TrialDays[dto.plan]
        /\ call'[a].row.start \in Nat
        /\ call'[a].row.end = PeriodEnd(call'[a].row.start, dto.cycle)
    BY <1>2, <2>1, NewRowTyped, InstantsAreNat
  <2>4. call'[a].row.trialEnd \in Nat
    <3>1. \A m, d \in Nat : m * d \in Nat
      OBVIOUS
    <3> QED BY <2>2, <2>3, <3>1, SubscriptionAssumption
  <2>5. call'[a].row.end \in Nat
    BY <2>2, <2>3, PeriodLonger
  <2> QED
    BY <2>2, <2>3, <2>4, <2>5 DEF Reaches
<1>3. \A b \in Agents : call'[b].at = "insert" => call'[b] = call[b] \/ (b = a /\ Begun(a))
  BY CallCases DEF Idle
<1>4. TrialsWithin'
  BY <1>1, <1>2, <1>3 DEF TrialInv, TrialsWithin
<1>5. UpdatesBeyond'
  <2> SUFFICES ASSUME NEW b \in Agents, NEW s \in Subs, call'[b].at = "update", call'[b].sub = s,
                      call'[b].end # Blank, OnTrial(s)'
               PROVE  Reaches(sub'[s], call'[b].end)
    BY DEF UpdatesBeyond
  <2>1. CASE b = a /\ Begun(a) /\ sub' = sub
    <3>1. OnTrial(s)
      BY <2>1 DEF OnTrial, Exists
    <3>2. PICK cycle \in Cycles : call'[a].end = PeriodEnd(sub[s].end, cycle)
      BY <2>1 DEF Begun
    <3>3. PeriodEnd(sub[s].end, cycle) \in Nat /\ PeriodEnd(sub[s].end, cycle) > sub[s].end
      BY <3>1, TrialNumbers, PeriodLonger
    <3>4. PICK c \in Cycles : PeriodEnd(sub[s].start, c) <= sub[s].end
      BY <3>1 DEF TrialInv, TrialsWithin, Reaches
    <3>5. PeriodEnd(sub[s].start, c) \in Nat /\ sub[s].end \in Nat
      BY <3>1, TrialNumbers, PeriodLonger
    <3> QED
      BY <2>1, <3>2, <3>3, <3>4, <3>5 DEF Reaches
  <2>2. CASE call'[b] = call[b]
    <3>1. Targets(b, s) /\ Exists(s)
      BY <2>2 DEF Targets, SubCore, TargetsExist
    <3>2. OnTrial(s) /\ sub'[s].start = sub[s].start
      BY <3>1, TrialFrom
    <3> QED
      BY <2>2, <3>2 DEF TrialInv, UpdatesBeyond, Reaches
  <2> QED
    BY <2>1, <2>2, CallCases DEF Idle
<1>6. ListedOver'
  <2> SUFFICES ASSUME NEW b \in Agents, NEW s \in Subs, Listed(b, s)', OnTrial(s)'
               PROVE  TrialEnded(sub[s])'
    BY DEF ListedOver
  <2>1. CASE b = a /\ Begun(a) /\ sub' = sub
    <3>1. OnTrial(s) /\ (DueForRenewal(sub[s]) \/ TrialOver(sub[s]))
      BY <2>1 DEF OnTrial, Exists, Begun, Listed, Listing
    <3> QED
      BY <2>1, <3>1, ListedIsOver DEF TrialEnded, today
  <2>2. ASSUME Listed(b, s) PROVE TrialEnded(sub[s])'
    <3>1. Exists(s)
      BY <2>2 DEF Listed, Targets, SubCore, TargetsExist
    <3>2. OnTrial(s) /\ sub'[s].trialEnd = sub[s].trialEnd /\ sub'[s].start = sub[s].start
      BY <3>1, TrialFrom
    <3> QED
      BY <2>2, <3>2 DEF TrialInv, ListedOver, TrialEnded, ShortTrial, FullTrial, today
  <2>3. CASE call'[b] = call[b]
    BY <2>2, <2>3 DEF Listed
  <2>4. CASE b = a /\ call'[a] = Idle
    BY <2>4 DEF Listed, Idle
  <2>5. ASSUME b = a, NEW l \in call[a].listed, call[a].at \in {"renewals", "trials"},
               call'[a] = [at |-> call[a].at, listed |-> call[a].listed \ {l}]
        PROVE  Listed(b, s)
    BY <2>5 DEF Listed
  <2> QED
    BY <2>1, <2>2, <2>3, <2>4, <2>5 DEF CallChange
<1> QED
  BY <1>4, <1>5, <1>6 DEF TrialInv

(* A trial shorter than every period is not turned into a paid subscription before
   the instant it ends, and one that may be as long as a period not before the day
   it ends, by either job and whatever interleaves: the renewals are due from the
   last day of a period, and no update moves that day before the first it could be. *)
THEOREM TrialsKept == SubSpec => TrialKept
<1> DEFINE I == SubCore /\ TrialInv
           Keeps == \A s \in Subs :
             Exists(s) /\ sub[s].status = "TRIAL" /\ sub'[s].status = "ACTIVE" =>
               /\ ShortTrial(sub[s]) => sub[s].trialEnd <= now
               /\ FullTrial(sub[s]) => DayAt(sub[s].trialEnd) <= today
<1>1. SubInit => I
  <2>1. SubInit => (\A a \in Agents : call[a].at = "idle") /\ \A s \in Subs : ~ Exists(s)
    BY DEF SubInit, Idle, Exists
  <2> QED
    BY <2>1, SubInitCore DEF TrialInv, TrialsWithin, UpdatesBeyond, ListedOver, OnTrial, Listed
<1>2. ASSUME I, UNCHANGED <<sub, call>>, now' \in {now, now + 1} PROVE TrialInv'
  <2>1. \A s \in Subs : OnTrial(s)' => OnTrial(s) /\ sub'[s] = sub[s]
    BY <1>2 DEF OnTrial, Exists
  <2>2. TrialsWithin' /\ UpdatesBeyond'
    BY <1>2, <2>1 DEF TrialInv, TrialsWithin, UpdatesBeyond
  <2>3. ASSUME NEW a \in Agents, NEW s \in Subs, Listed(a, s)', OnTrial(s)'
        PROVE  TrialEnded(sub[s])'
    <3>1. Listed(a, s) /\ OnTrial(s) /\ sub' = sub
      BY <1>2, <2>1, <2>3 DEF Listed
    <3>2. TrialEnded(sub[s])
      BY <1>2, <3>1 DEF TrialInv, ListedOver
    <3>3. /\ now \in Nat /\ today \in Nat /\ sub[s].trialEnd \in Nat
          /\ DayAt(sub[s].trialEnd) \in Nat
      BY <1>2, <3>1, TrialNumbers
    <3>4. now' \in Nat /\ now <= now'
      BY <1>2, <3>3
    <3>5. DayAt(now') \in Nat /\ DayAt(now) <= DayAt(now')
      BY <3>3, <3>4, EarlierDay, InstantsAreNat
    <3> QED
      BY <3>1, <3>2, <3>3, <3>4, <3>5 DEF TrialEnded, today
  <2> QED
    BY <2>2, <2>3 DEF TrialInv, ListedOver
<1>3. I /\ [SubNext]_subVars => I'
  BY <1>2, SubNextMoves, TrialStep
<1>4. ASSUME I, NEW a \in Agents, \A s \in Subs : RowChange(a, s) PROVE Keeps
  <2> SUFFICES ASSUME NEW s \in Subs, Exists(s), sub[s].status = "TRIAL", sub'[s].status = "ACTIVE"
               PROVE  TrialEnded(sub[s])
    BY DEF TrialEnded
  <2>1. RowChange(a, s)
    BY <1>4
  <2>2. Listed(a, s)
    BY <2>1 DEF RowChange, Targets, Listed
  <2> QED
    BY <1>4, <2>2 DEF TrialInv, ListedOver, OnTrial
<1>5. ASSUME I, UNCHANGED <<sub, call>> PROVE Keeps
  BY <1>5
<1>6. I /\ [SubNext]_subVars => [Keeps]_subVars
  BY <1>4, <1>5, SubNextMoves
<1> QED
  BY <1>1, <1>3, <1>6, PTL DEF SubSpec, TrialKept

(***************************************************************************)
(* Payments: what the counts and the log say of the gateways               *)
(***************************************************************************)

Searching == {"idle", "rule", "probe", "refused"}
Calling   == {"answer", "key", "log", "store"}
Answered  == {"ok", "failed"}

(* A request knows where it is, which registered gateway it calls as long as it
   does, and what the gateway answered when that is logged. *)
Proper(r) ==
  /\ "at" \in DOMAIN r /\ r.at \in Searching \cup {"ask"} \cup Calling \cup Answered
  /\ r.at \in {"ask"} \cup Calling => "gateway" \in DOMAIN r /\ r.gateway \in Registered
  /\ r.at = "log" => r.success \in BOOLEAN

PayTypes ==
  /\ PayTypeOK
  /\ payment = [p \in Payments |-> payment[p]]
  /\ \A p \in Payments : Proper(payment[p])

(* What is known of request p, whose record is r, which was sent to the gateways
   of to, when it has a key or not. *)
Told(r, to, key) ==
  /\ r.at \in Searching \cup {"ask"} => to = << >>
  /\ r.at \in Calling => to = <<r.gateway>>
  /\ r.at = "answer" /\ r.gateway = PayMob => key
  /\ r.at = "log" /\ r.gateway = PayMob /\ r.success => key

EntryTrue(e) ==
  /\ payment[e.payment].at \in Answered
  /\ asked[e.payment] = <<e.gateway>>
  /\ e.success /\ e.gateway = PayMob => e.payment \in keyed
  /\ e.success <=> payment[e.payment].at = "ok"

AttemptInv ==
  /\ PayTypes
  /\ \A p \in Payments : Told(payment[p], asked[p], p \in keyed)
  /\ \A i \in DOMAIN attempts : EntryTrue(attempts[i])

(* The payments that were sent to g or are about to be. *)
Credited(g) ==
  {p \in Payments : \/ g \in ToSet(asked[p])
                    \/ At(p, "ask") /\ payment[p].gateway = g}

CreditInv ==
  /\ AttemptInv
  /\ \A g \in Gateways : metrics[g].ok = Cardinality(Credited(g))

LEMMA CreditInvImplies ==
  CreditInv => PayTypeOK /\ SelectionsCredited /\ AttemptsTruthful
BY DEF CreditInv, AttemptInv, PayTypes, Credited, SelectionsCredited, AttemptsTruthful, EntryTrue, ToSet

LEMMA PayInitInv == PayInit => CreditInv
<1> SUFFICES ASSUME PayInit PROVE CreditInv
  OBVIOUS
<1>1. PayTypes
  <2>1. PayTypeOK
    BY PaymentAssumption DEF PayInit, PayTypeOK, Counts, Idle
  <2>2. \A p \in Payments : Proper(payment[p])
    BY DEF PayInit, Proper, Idle, Searching, Calling
  <2>3. payment = [p \in Payments |-> payment[p]]
    BY DEF PayInit
  <2> QED BY <2>1, <2>2, <2>3 DEF PayTypes
<1>2. AttemptInv
  BY <1>1 DEF PayInit, AttemptInv, Told, Idle, Calling
<1>3. ASSUME NEW g \in Gateways PROVE metrics[g].ok = Cardinality(Credited(g))
  <2>1. Credited(g) = {}
    BY DEF PayInit, Credited, At, Idle, ToSet
  <2> QED BY <2>1, FS_EmptySet DEF PayInit
<1> QED BY <1>2, <1>3 DEF CreditInv

-----------------------------------------------------------------------------
(* The steps of a request, by what they may do. *)

(* Request p goes on as r and nothing else is known to change. *)
GoesOn(p, r) == payment' = [payment EXCEPT ![p] = r] /\ Proper(r)

OkKept ==
  /\ metrics' \in Counts
  /\ \A g \in Gateways : metrics'[g].ok = metrics[g].ok

LEMMA FailureCounted ==
  ASSUME NEW m \in Counts, NEW g
  PROVE  /\ Counted(m, g, FALSE) \in Counts
         /\ \A h \in Gateways : Counted(m, g, FALSE)[h].ok = m[h].ok
<1>1. CASE g \in Gateways
  BY <1>1 DEF Counted, Counts
<1>2. CASE g \notin Gateways
  <2>1. Counted(m, g, FALSE) = m
    BY <1>2 DEF Counted, Counts
  <2> QED BY <2>1
<1> QED BY <1>1, <1>2

LEMMA SuccessCounted ==
  ASSUME NEW m \in Counts, NEW g \in Gateways
  PROVE  /\ Counted(m, g, TRUE) \in Counts
         /\ \A h \in Gateways : Counted(m, g, TRUE)[h].ok = IF h = g THEN m[h].ok + 1 ELSE m[h].ok
BY DEF Counted, Counts

(* The search for a gateway. *)
LEMMA SearchStep ==
  ASSUME AttemptInv, NEW p \in Payments,
         \/ \E kind \in Sent, ctx \in Contexts : Select(p, kind, ctx)
         \/ SkipRule(p) \/ TakeRule(p) \/ ProbeFails(p) \/ RuleExhausted(p)
  PROVE  /\ \E r : GoesOn(p, r) /\ r.at \in Searching
         /\ payment[p].at \in Searching
         /\ OkKept
         /\ UNCHANGED <<attempts, edits, asked, keyed, token, home>>
<1> USE DEF AttemptInv, PayTypes, PayTypeOK, GoesOn, Move, memory, Searching
<1>1. ASSUME NEW kind \in Sent, NEW ctx \in Contexts, Select(p, kind, ctx)
      PROVE  /\ \E r : GoesOn(p, r) /\ r.at \in Searching
             /\ payment[p].at \in Searching /\ OkKept
             /\ UNCHANGED <<attempts, edits, asked, keyed, token, home>>
  <2> DEFINE r == [at |-> "rule", kind |-> kind, amount |-> ctx.amount, queue |-> Matching(ctx)]
             q == [at |-> "refused"]
  <2>1. Proper(r) /\ Proper(q) /\ r.at \in Searching /\ q.at \in Searching
    BY DEF Proper, Calling
  <2>2. payment' = [payment EXCEPT ![p] = r] \/ payment' = [payment EXCEPT ![p] = q]
    BY <1>1 DEF Select
  <2>3. \E n : GoesOn(p, n) /\ n.at \in Searching
    <3> HIDE DEF r, q
    <3> QED BY <2>1, <2>2
  <2>4. payment[p].at = "idle"
    BY <1>1 DEF Select, Idle
  <2>5. OkKept /\ UNCHANGED <<attempts, edits, asked, keyed, token, home>>
    BY <1>1 DEF Select, OkKept
  <2> QED BY <2>3, <2>4, <2>5
<1>2. CASE SkipRule(p)
  <2>1. Proper(payment[p]) /\ payment[p].at = "rule"
    BY <1>2 DEF SkipRule, At
  <2>2. Proper(NextRule(p)) /\ NextRule(p).at \in Searching
    BY <2>1 DEF NextRule, Proper, Calling
  <2>3. \E r : GoesOn(p, r) /\ r.at \in Searching
    BY <1>2, <2>2 DEF SkipRule
  <2> QED BY <1>2, <2>1, <2>3 DEF SkipRule, OkKept
<1>3. CASE TakeRule(p)
  <2>1. PICK g : payment' = [payment EXCEPT ![p] =
          [at |-> "probe", kind |-> payment[p].kind, amount |-> payment[p].amount,
           queue |-> payment[p].queue, primary |-> g,
           rest |-> <<g>> \o Head(payment[p].queue).fallbacks]]
    BY <1>3 DEF TakeRule
  <2> DEFINE r == [at |-> "probe", kind |-> payment[p].kind, amount |-> payment[p].amount,
                   queue |-> payment[p].queue, primary |-> g,
                   rest |-> <<g>> \o Head(payment[p].queue).fallbacks]
  <2>2. Proper(r) /\ r.at \in Searching
    BY DEF Proper, Calling
  <2>3. \E n : GoesOn(p, n) /\ n.at \in Searching
    <3> HIDE DEF r
    <3>1. payment' = [payment EXCEPT ![p] = r]
      BY <2>1 DEF r
    <3> QED BY <2>2, <3>1
  <2> QED BY <1>3, <2>3 DEF TakeRule, At, OkKept
<1>4. CASE ProbeFails(p)
  <2>1. Proper(payment[p]) /\ payment[p].at = "probe"
    BY <1>4 DEF ProbeFails, At
  <2> DEFINE r == [payment[p] EXCEPT !.rest = Tail(@)]
  <2>2. Proper(r) /\ r.at = "probe"
    BY <2>1 DEF Proper, Calling
  <2>3. payment' = [payment EXCEPT ![p] = r]
    BY <1>4 DEF ProbeFails
  <2>4. \E n : GoesOn(p, n) /\ n.at \in Searching
    <3> HIDE DEF r
    <3> QED BY <2>2, <2>3
  <2> QED BY <1>4, <2>1, <2>4 DEF ProbeFails, OkKept
<1>5. CASE RuleExhausted(p)
  <2>1. OkKept
    <3>1. metrics' = Counted(metrics, payment[p].primary, FALSE) /\ metrics \in Counts
      BY <1>5 DEF RuleExhausted
    <3>2. Counted(metrics, payment[p].primary, FALSE) \in Counts
      BY <3>1, FailureCounted, Zenon
    <3>3. \A h \in Gateways : Counted(metrics, payment[p].primary, FALSE)[h].ok = metrics[h].ok
      BY <3>1, FailureCounted, Zenon
    <3> QED BY <3>1, <3>2, <3>3, Zenon DEF OkKept
  <2> DEFINE r == [at |-> "rule", kind |-> payment[p].kind, amount |-> payment[p].amount,
                   queue |-> Tail(payment[p].queue)]
             q == [at |-> "refused"]
  <2>2. Proper(r) /\ Proper(q) /\ r.at \in Searching /\ q.at \in Searching
    BY DEF Proper, Calling
  <2>3. payment' = [payment EXCEPT ![p] = r] \/ payment' = [payment EXCEPT ![p] = q]
    BY <1>5 DEF RuleExhausted
  <2>4. \E n : GoesOn(p, n) /\ n.at \in Searching
    <3> HIDE DEF r, q
    <3> QED BY <2>2, <2>3
  <2>5. payment[p].at = "probe" /\ UNCHANGED <<attempts, edits, asked, keyed, token, home>>
    BY <1>5 DEF RuleExhausted, At
  <2> QED BY <2>1, <2>4, <2>5
<1> QED BY <1>1, <1>2, <1>3, <1>4, <1>5

(* The selection of a gateway. *)
LEMMA ProbeStep ==
  ASSUME AttemptInv, NEW p \in Payments, ProbeHealthy(p)
  PROVE  \E g \in Registered :
           /\ \E r : GoesOn(p, r) /\ r.at = "ask" /\ r.gateway = g
           /\ payment[p].at \in Searching
           /\ metrics' \in Counts
           /\ \A h \in Gateways :
                metrics'[h].ok = IF h = g THEN metrics[h].ok + 1 ELSE metrics[h].ok
           /\ token' \in {"valid", token}
           /\ UNCHANGED <<attempts, edits, asked, keyed, home>>
<1> DEFINE g == Head(payment[p].rest)
           m == Counted(metrics, g, TRUE)
<1> USE DEF AttemptInv, PayTypes, PayTypeOK
<1>1. g \in Registered /\ metrics' = Credit(p, g)
  BY DEF ProbeHealthy
<1>2. /\ m \in Counts
      /\ \A h \in Gateways : m[h].ok = IF h = g THEN metrics[h].ok + 1 ELSE metrics[h].ok
  <2>1. metrics \in Counts
    OBVIOUS
  <2>2. g \in Gateways
    BY <1>1, PaymentAssumption
  <2> HIDE DEF g
  <2> QED BY <2>1, <2>2, SuccessCounted, Zenon
<1>3. \/ metrics' = m
      \/ metrics' = Counted(m, payment[p].primary, FALSE)
  BY <1>1 DEF Credit
<1>4. /\ metrics' \in Counts
      /\ \A h \in Gateways : metrics'[h].ok = m[h].ok
  <2> HIDE DEF m
  <2>1. /\ Counted(m, payment[p].primary, FALSE) \in Counts
        /\ \A h \in Gateways : Counted(m, payment[p].primary, FALSE)[h].ok = m[h].ok
    BY <1>2, FailureCounted, Zenon
  <2> QED BY <1>2, <1>3, <2>1, Zenon
<1>5. \E r : GoesOn(p, r) /\ r.at = "ask" /\ r.gateway = g
  <2> DEFINE r == [at |-> "ask", kind |-> payment[p].kind, gateway |-> g]
  <2>1. Proper(r) /\ r.at = "ask" /\ r.gateway = g
    BY <1>1 DEF Proper
  <2>2. payment' = [payment EXCEPT ![p] = r]
    BY DEF ProbeHealthy, Move
  <2> HIDE DEF r
  <2> QED BY <2>1, <2>2 DEF GoesOn
<1>6. /\ payment[p].at \in Searching
      /\ token' \in {"valid", token}
      /\ UNCHANGED <<attempts, edits, asked, keyed, home>>
  BY DEF ProbeHealthy, At, Searching
<1> QED
  <2> HIDE DEF g, m
  <2> QED BY <1>1, <1>2, <1>4, <1>5, <1>6

(* Request p goes on as r, whose gateway is the one it called. *)
Continues(p, r) ==
  /\ GoesOn(p, r)
  /\ r.at \in Calling \cup Answered
  /\ r.at \in Calling => r.gateway = payment[p].gateway

(* The call to the gateway. *)
LEMMA AskStep ==
  ASSUME AttemptInv, NEW p \in Payments, AskStripe(p) \/ AskPayTabs(p) \/ AskPayMob(p)
  PROVE  /\ \E r : /\ Continues(p, r) /\ r.at # "log"
                   /\ r.at = "answer" => r.gateway # PayMob
         /\ payment[p].at = "ask" /\ payment[p].gateway \in Registered
         /\ asked' = [asked EXCEPT ![p] = Append(@, payment[p].gateway)]
         /\ UNCHANGED <<metrics, attempts, edits, keyed, token, home>>
<1>1. /\ Proper(payment[p]) /\ payment[p].at = "ask"
      /\ "gateway" \in DOMAIN payment[p] /\ payment[p].gateway \in Registered
  BY DEF AttemptInv, PayTypes, AskStripe, AskPayTabs, AskPayMob, Proper
<1>2. ASSUME NEW place \in {"answer", "key"}
      PROVE  /\ Proper(Waits(p, place)) /\ Waits(p, place).at = place
             /\ Waits(p, place).gateway = payment[p].gateway
  BY <1>1 DEF Waits, Proper, Calling
<1>3. ASSUME ~ Pays(p)
      PROVE  /\ Proper(Unasked(p)) /\ Unasked(p).at \in {"store", "failed", "ok"}
             /\ Unasked(p).at = "store" => Unasked(p).gateway = payment[p].gateway
  BY <1>1, <1>3 DEF Unasked, After, Proper, Calling, Answered, Pays
<1>4. /\ asked' = [asked EXCEPT ![p] = Append(@, payment[p].gateway)]
      /\ UNCHANGED <<metrics, attempts, edits, keyed, token, home>>
  BY DEF AskStripe, AskPayTabs, AskPayMob, Asks, memory
<1>5. \/ payment[p].gateway # PayMob /\ payment' = [payment EXCEPT ![p] = Waits(p, "answer")]
      \/ payment' = [payment EXCEPT ![p] = Waits(p, "key")]
      \/ ~ Pays(p) /\ payment' = [payment EXCEPT ![p] = Unasked(p)]
  BY PaymentAssumption DEF AskStripe, AskPayTabs, AskPayMob, Asks, Move
<1> QED BY <1>1, <1>2, <1>3, <1>4, <1>5 DEF Continues, GoesOn, Calling, Answered

(* The rest of the call, before the log. *)
LEMMA AnswerStep ==
  ASSUME AttemptInv, NEW p \in Payments,
         IssueKey(p) \/ (\E success \in BOOLEAN : AnswerIntent(p, success)) \/ StoreMapping(p)
  PROVE  /\ \E r : /\ Continues(p, r)
                   /\ r.at = "answer" => p \in keyed'
                   /\ r.at = "log" /\ r.gateway = PayMob /\ r.success => p \in keyed'
         /\ payment[p].at \in Calling
         /\ keyed \subseteq keyed' /\ keyed' \subseteq keyed \cup {p}
         /\ home' \in Gateways \cup {Blank}
         /\ UNCHANGED <<metrics, attempts, edits, asked, token>>
<1> USE DEF AttemptInv, PayTypes, PayTypeOK, memory
<1>1. CASE IssueKey(p)
  <2> DEFINE r == [payment[p] EXCEPT !.at = "answer"]
  <2>1. /\ payment[p].at = "key"
        /\ "gateway" \in DOMAIN payment[p] /\ payment[p].gateway \in Registered
    BY <1>1 DEF IssueKey, At, Proper, Calling
  <2>2. Proper(r) /\ r.at = "answer" /\ r.gateway = payment[p].gateway
    BY <2>1 DEF Proper, Calling
  <2>3. payment' = [payment EXCEPT ![p] = r] /\ keyed' = keyed \cup {p}
    BY <1>1 DEF IssueKey, Move
  <2>4. \E n : /\ Continues(p, n)
               /\ n.at = "answer" => p \in keyed'
               /\ n.at = "log" /\ n.gateway = PayMob /\ n.success => p \in keyed'
    <3> HIDE DEF r
    <3> QED BY <2>2, <2>3 DEF Continues, GoesOn, Calling
  <2> QED BY <1>1, <2>1, <2>3, <2>4 DEF IssueKey, Calling
<1>2. ASSUME NEW success \in BOOLEAN, AnswerIntent(p, success)
      PROVE  /\ \E r : /\ Continues(p, r)
                       /\ r.at = "answer" => p \in keyed'
                       /\ r.at = "log" /\ r.gateway = PayMob /\ r.success => p \in keyed'
             /\ payment[p].at \in Calling
             /\ UNCHANGED <<metrics, attempts, edits, keyed, asked, token, home>>
  <2>1. /\ payment[p].at \in {"answer", "key"}
        /\ payment[p].at = "key" => ~ success
        /\ payment[p].gateway \in Registered
    BY <1>2 DEF AnswerIntent, At, Proper, Calling
  <2>2. /\ Proper(After(p, success))
        /\ After(p, success).at \in {"log", "store", "ok", "failed"}
        /\ After(p, success).at \in Calling => After(p, success).gateway = payment[p].gateway
        /\ After(p, success).at = "log" => After(p, success).success = success
    BY <2>1 DEF After, Proper, Calling, Answered
  <2>3. success /\ payment[p].gateway = PayMob => p \in keyed
    BY <2>1 DEF Told
  <2> QED BY <1>2, <2>1, <2>2, <2>3 DEF AnswerIntent, Continues, GoesOn, Move, Calling, Answered
<1>3. CASE StoreMapping(p)
  <2>1. payment[p].at = "store" /\ payment[p].gateway \in Gateways
    BY <1>3, PaymentAssumption DEF StoreMapping, At, Proper, Calling
  <2>2. Continues(p, [at |-> "ok"])
    BY <1>3 DEF StoreMapping, Move, Continues, GoesOn, Proper, Calling, Answered
  <2> QED BY <1>3, <2>1, <2>2 DEF StoreMapping, Calling
<1> QED BY <1>1, <1>2, <1>3


-----------------------------------------------------------------------------
(* The invariants are kept *)

(* A step of a request that is not answered yet leaves the log true. *)
LEMMA RequestStep ==
  ASSUME AttemptInv, NEW p \in Payments, NEW r, NEW to \in Seq(Registered),
         GoesOn(p, r), payment[p].at \notin Answered, Told(r, to, p \in keyed'),
         asked' = [asked EXCEPT ![p] = to], UNCHANGED <<attempts, edits>>,
         keyed \subseteq keyed', keyed' \subseteq keyed \cup {p},
         metrics' \in Counts, home' \in Gateways \cup {Blank}, token' \in {"none", "valid", "expired"}
  PROVE  AttemptInv'
<1> USE DEF AttemptInv, PayTypes, GoesOn
<1>1. /\ payment' = [q \in Payments |-> payment'[q]]
      /\ payment'[p] = r /\ asked'[p] = to
      /\ \A q \in Payments \ {p} : /\ payment'[q] = payment[q] /\ asked'[q] = asked[q]
                                   /\ q \in keyed' <=> q \in keyed
  BY DEF PayTypeOK
<1>2. \A q \in Payments : Proper(payment'[q])
  BY <1>1
<1>3. \A q \in Payments : payment'[q].at \in Searching \cup {"ask"} \cup Calling \cup Answered
  BY <1>2 DEF Proper
<1>4. asked' \in [Payments -> Seq(Registered)]
  BY DEF PayTypeOK
<1>5. PayTypeOK'
  BY <1>3, <1>4 DEF PayTypeOK, Searching, Calling, Answered, Ends
<1>6. \A q \in Payments : Told(payment'[q], asked'[q], q \in keyed')
  BY <1>1 DEF Told
<1>7. ASSUME NEW i \in DOMAIN attempts PROVE EntryTrue(attempts[i])'
  <2>1. attempts[i] \in LogEntry
    BY <1>7 DEF PayTypeOK
  <2>2. EntryTrue(attempts[i]) /\ attempts[i].payment \in Payments
    BY <2>1 DEF LogEntry
  <2>3. attempts[i].payment # p
    BY <2>2 DEF EntryTrue
  <2> QED BY <1>1, <2>2, <2>3 DEF EntryTrue
<1> QED BY <1>1, <1>2, <1>5, <1>6, <1>7

(* Where p is credited before and after its step, nobody else is concerned. *)
LEMMA CreditStep ==
  ASSUME AttemptInv, NEW p \in Payments, NEW r, NEW to,
         GoesOn(p, r), asked' = [asked EXCEPT ![p] = to], NEW g \in Gateways
  PROVE  /\ Credited(g)' \ {p} = Credited(g) \ {p}
         /\ p \in Credited(g)' <=> g \in ToSet(to) \/ (r.at = "ask" /\ r.gateway = g)
<1>1. /\ payment'[p] = r /\ asked'[p] = to
      /\ \A q \in Payments \ {p} : payment'[q] = payment[q] /\ asked'[q] = asked[q]
  BY DEF AttemptInv, PayTypes, PayTypeOK, GoesOn
<1>2. \A q \in Payments \ {p} : q \in Credited(g)' <=> q \in Credited(g)
  BY <1>1 DEF Credited, At
<1>3. p \in Credited(g)' <=> g \in ToSet(to) \/ (r.at = "ask" /\ r.gateway = g)
  BY <1>1 DEF Credited, At
<1>4. Credited(g) \subseteq Payments /\ Credited(g)' \subseteq Payments
  BY DEF Credited
<1> QED BY <1>2, <1>3, <1>4

(* A request that is searching has no credit, one that was sent to g has it. *)
LEMMA CreditBefore ==
  ASSUME AttemptInv, NEW p \in Payments, NEW g \in Gateways
  PROVE  /\ payment[p].at \in Searching => p \notin Credited(g)
         /\ payment[p].at = "ask" => (p \in Credited(g) <=> payment[p].gateway = g)
         /\ IsFiniteSet(Credited(g))
<1>1. payment[p].at \in Searching \cup {"ask"} => ToSet(asked[p]) = {}
  BY DEF AttemptInv, Told, ToSet
<1>2. IsFiniteSet(Credited(g))
  BY PaymentAssumption, FS_Subset DEF Credited
<1> QED BY <1>1, <1>2 DEF Credited, At, Searching

LEMMA SearchKeeps ==
  ASSUME CreditInv, NEW p \in Payments,
         \/ \E kind \in Sent, ctx \in Contexts : Select(p, kind, ctx)
         \/ SkipRule(p) \/ TakeRule(p) \/ ProbeFails(p) \/ RuleExhausted(p)
  PROVE  CreditInv'
<1>1. AttemptInv
  BY DEF CreditInv
<1>2. PICK r : GoesOn(p, r) /\ r.at \in Searching
  BY <1>1, SearchStep
<1>3. payment[p].at \in Searching /\ OkKept /\ UNCHANGED <<attempts, edits, asked, keyed, token, home>>
  BY <1>1, SearchStep
<1>4. asked[p] = << >> /\ asked' = [asked EXCEPT ![p] = << >>]
  BY <1>1, <1>3 DEF AttemptInv, Told, PayTypes, PayTypeOK
<1>5. AttemptInv'
  <2>1. Told(r, << >>, p \in keyed')
    BY <1>2 DEF Told, Searching, Calling
  <2>2. << >> \in Seq(Registered) /\ payment[p].at \notin Answered
    BY <1>3 DEF Searching, Answered
  <2>3. metrics' \in Counts
    BY <1>3 DEF OkKept
  <2> QED BY <1>1, <1>2, <1>3, <1>4, <2>1, <2>2, <2>3, RequestStep DEF AttemptInv, PayTypes, PayTypeOK
<1>6. ASSUME NEW g \in Gateways PROVE metrics'[g].ok = Cardinality(Credited(g)')
  <2>1. ToSet(<< >>) = {} /\ r.at # "ask"
    BY <1>2 DEF Searching, ToSet
  <2>2. Credited(g)' \ {p} = Credited(g) \ {p} /\ p \notin Credited(g)'
    BY <1>1, <1>2, <1>4, <2>1, CreditStep
  <2>3. Credited(g)' = Credited(g)
    BY <1>1, <1>3, <2>2, CreditBefore
  <2> QED BY <1>3, <2>3 DEF CreditInv, OkKept
<1> QED BY <1>5, <1>6 DEF CreditInv

LEMMA ProbeKeeps ==
  ASSUME CreditInv, NEW p \in Payments, ProbeHealthy(p)
  PROVE  CreditInv'
<1>1. AttemptInv
  BY DEF CreditInv
<1>2. PICK g \in Registered :
        /\ \E r : GoesOn(p, r) /\ r.at = "ask" /\ r.gateway = g
        /\ payment[p].at \in Searching
        /\ metrics' \in Counts
        /\ \A h \in Gateways : metrics'[h].ok = IF h = g THEN metrics[h].ok + 1 ELSE metrics[h].ok
        /\ token' \in {"valid", token}
        /\ UNCHANGED <<attempts, edits, asked, keyed, home>>
  BY <1>1, ProbeStep
<1>3. PICK r : GoesOn(p, r) /\ r.at = "ask" /\ r.gateway = g
  BY <1>2
<1>4. asked[p] = << >> /\ asked' = [asked EXCEPT ![p] = << >>]
  BY <1>1, <1>2 DEF AttemptInv, Told, PayTypes, PayTypeOK
<1>5. AttemptInv'
  <2>1. Told(r, << >>, p \in keyed')
    BY <1>3 DEF Told, Searching, Calling
  <2>2. << >> \in Seq(Registered) /\ payment[p].at \notin Answered
    BY <1>2 DEF Searching, Answered
  <2>3. token' \in {"none", "valid", "expired"} /\ home' \in Gateways \cup {Blank}
    BY <1>1, <1>2 DEF AttemptInv, PayTypes, PayTypeOK
  <2> QED BY <1>1, <1>2, <1>3, <1>4, <2>1, <2>2, <2>3, RequestStep
<1>6. ASSUME NEW h \in Gateways PROVE metrics'[h].ok = Cardinality(Credited(h)')
  <2>0. ToSet(<< >>) = {}
    BY DEF ToSet
  <2>1. /\ p \notin Credited(h) /\ IsFiniteSet(Credited(h))
        /\ Credited(h)' \ {p} = Credited(h) \ {p}
        /\ p \in Credited(h)' <=> h = g
    <3>1. p \notin Credited(h) /\ IsFiniteSet(Credited(h))
      BY <1>1, <1>2, CreditBefore
    <3>2. /\ Credited(h)' \ {p} = Credited(h) \ {p}
          /\ p \in Credited(h)' <=> h = g
      BY <1>1, <1>3, <1>4, <2>0, CreditStep
    <3> QED BY <3>1, <3>2
  <2>2. metrics[h].ok = Cardinality(Credited(h))
    BY DEF CreditInv
  <2>3. CASE h = g
    <3>1. Credited(h)' = Credited(h) \cup {p}
      BY <2>1, <2>3
    <3>2. Cardinality(Credited(h) \cup {p}) = Cardinality(Credited(h)) + 1
      BY <2>1, FS_AddElement
    <3> QED BY <1>2, <2>2, <2>3, <3>1, <3>2
  <2>4. CASE h # g
    <3>1. Credited(h)' = Credited(h)
      BY <2>1, <2>4
    <3> QED BY <1>2, <2>2, <2>4, <3>1
  <2> QED BY <2>3, <2>4
<1> QED BY <1>5, <1>6 DEF CreditInv

LEMMA AskKeeps ==
  ASSUME CreditInv, NEW p \in Payments, AskStripe(p) \/ AskPayTabs(p) \/ AskPayMob(p)
  PROVE  CreditInv'
<1> DEFINE g == payment[p].gateway
<1>1. AttemptInv
  BY DEF CreditInv
<1>2. PICK r : Continues(p, r) /\ r.at # "log" /\ (r.at = "answer" => r.gateway # PayMob)
  BY <1>1, AskStep
<1>3. /\ payment[p].at = "ask" /\ g \in Registered
      /\ asked' = [asked EXCEPT ![p] = Append(@, g)]
      /\ UNCHANGED <<metrics, attempts, edits, keyed, token, home>>
  BY <1>1, AskStep
<1>4. asked' = [asked EXCEPT ![p] = <<g>>]
  <2>1. asked[p] = << >>
    BY <1>1, <1>3 DEF AttemptInv, Told
  <2>2. Append(asked[p], g) = <<g>>
    BY <2>1
  <2> QED BY <1>3, <2>2
<1>5. AttemptInv'
  <2>1. Told(r, <<g>>, p \in keyed')
    BY <1>2 DEF Told, Continues, Searching, Calling, Answered
  <2>2. <<g>> \in Seq(Registered) /\ payment[p].at \notin Answered
    BY <1>3 DEF Answered
  <2> QED BY <1>1, <1>2, <1>3, <1>4, <2>1, <2>2, RequestStep
          DEF AttemptInv, PayTypes, PayTypeOK, Continues
<1>6. ASSUME NEW h \in Gateways PROVE metrics'[h].ok = Cardinality(Credited(h)')
  <2>1. ToSet(<<g>>) = {g} /\ r.at # "ask"
    BY <1>2 DEF Continues, Calling, Answered, ToSet
  <2>2. /\ p \in Credited(h) <=> h = g
        /\ Credited(h)' \ {p} = Credited(h) \ {p}
        /\ p \in Credited(h)' <=> h = g
    <3>1. p \in Credited(h) <=> h = g
      BY <1>1, <1>3, CreditBefore
    <3>2. /\ Credited(h)' \ {p} = Credited(h) \ {p}
          /\ p \in Credited(h)' <=> h = g
      <4> HIDE DEF g
      <4> QED BY <1>1, <1>2, <1>4, <2>1, CreditStep DEF Continues
    <3> QED BY <3>1, <3>2
  <2>3. Credited(h)' = Credited(h)
    BY <2>2
  <2> QED BY <1>3, <2>3 DEF CreditInv
<1> QED BY <1>5, <1>6 DEF CreditInv

LEMMA AnswerKeeps ==
  ASSUME CreditInv, NEW p \in Payments,
         IssueKey(p) \/ (\E success \in BOOLEAN : AnswerIntent(p, success)) \/ StoreMapping(p)
  PROVE  CreditInv'
<1>1. AttemptInv
  BY DEF CreditInv
<1>2. PICK r : /\ Continues(p, r)
               /\ r.at = "answer" => p \in keyed'
               /\ r.at = "log" /\ r.gateway = PayMob /\ r.success => p \in keyed'
  BY <1>1, AnswerStep
<1>3. /\ payment[p].at \in Calling
      /\ keyed \subseteq keyed' /\ keyed' \subseteq keyed \cup {p}
      /\ home' \in Gateways \cup {Blank}
      /\ UNCHANGED <<metrics, attempts, edits, asked, token>>
  BY <1>1, AnswerStep
<1>4. /\ asked[p] = <<payment[p].gateway>> /\ asked' = [asked EXCEPT ![p] = asked[p]]
      /\ asked[p] \in Seq(Registered)
  BY <1>1, <1>3 DEF AttemptInv, Told, PayTypes, PayTypeOK
<1>5. AttemptInv'
  <2>1. Told(r, asked[p], p \in keyed')
    BY <1>2, <1>4 DEF Told, Continues, Searching, Calling, Answered
  <2>2. payment[p].at \notin Answered
    BY <1>3 DEF Answered, Calling
  <2> QED BY <1>1, <1>2, <1>3, <1>4, <2>1, <2>2, RequestStep
          DEF AttemptInv, PayTypes, PayTypeOK, Continues
<1>6. ASSUME NEW h \in Gateways PROVE metrics'[h].ok = Cardinality(Credited(h)')
  <2>1. /\ payment[p].at # "ask" /\ r.at # "ask"
    BY <1>2, <1>3 DEF Continues, Calling, Answered
  <2>2. /\ p \in Credited(h) <=> h \in ToSet(asked[p])
        /\ Credited(h)' \ {p} = Credited(h) \ {p}
        /\ p \in Credited(h)' <=> h \in ToSet(asked[p])
    <3>1. p \in Credited(h) <=> h \in ToSet(asked[p])
      BY <2>1 DEF Credited, At
    <3>2. /\ Credited(h)' \ {p} = Credited(h) \ {p}
          /\ p \in Credited(h)' <=> h \in ToSet(asked[p])
      BY <1>1, <1>2, <1>4, <2>1, CreditStep DEF Continues
    <3> QED BY <3>1, <3>2
  <2>3. Credited(h)' = Credited(h)
    BY <2>2
  <2> QED BY <1>3, <2>3 DEF CreditInv
<1> QED BY <1>5, <1>6 DEF CreditInv

(* An entry is true of a payment that was answered by then. *)
LEMMA LogKeeps ==
  ASSUME CreditInv, NEW p \in Payments, LogPaymentAttempt(p)
  PROVE  CreditInv'
<1> DEFINE r == [at |-> IF payment[p].success THEN "ok" ELSE "failed"]
           full == Append(attempts, Entry(p))
<1>1. AttemptInv
  BY DEF CreditInv
<1>2. /\ payment[p].at = "log" /\ GoesOn(p, r) /\ r.at \in Answered
      /\ payment[p].gateway \in Gateways /\ payment[p].success \in BOOLEAN
      /\ UNCHANGED <<rules, metrics, edits, asked, keyed, token, home>>
  BY <1>1, PaymentAssumption
     DEF LogPaymentAttempt, Logged, At, Move, GoesOn, AttemptInv, PayTypes, Proper, Answered, Calling
<1>3. /\ Entry(p) \in LogEntry
      /\ Entry(p).payment = p /\ Entry(p).gateway = payment[p].gateway
      /\ Entry(p).success = payment[p].success
  <2>1. Cardinality({q \in Payments : payment[q].at \in {"ok", "failed"}}) \in Nat
    BY PaymentAssumption, FS_Subset, FS_CardinalityType
  <2> QED BY <1>2, <2>1 DEF Entry, LogEntry
<1>4. /\ payment'[p] = r
      /\ \A q \in Payments \ {p} : payment'[q] = payment[q]
      /\ payment' = [q \in Payments |-> payment'[q]]
  BY <1>1, <1>2 DEF AttemptInv, PayTypes, GoesOn
<1>5. attempts \in Seq(LogEntry) /\ Len(attempts) <= LogLimit
  BY <1>1 DEF AttemptInv, PayTypes, PayTypeOK
<1>6. /\ full \in Seq(LogEntry) /\ Len(full) = Len(attempts) + 1 /\ full # << >>
      /\ \A i \in DOMAIN full : full[i] = Entry(p) \/ \E j \in DOMAIN attempts : full[i] = attempts[j]
  BY <1>3, <1>5
<1>7. (attempts' = full /\ Len(full) <= LogLimit) \/ attempts' = Tail(full)
  BY <1>6, PaymentAssumption DEF LogPaymentAttempt
<1>8. /\ attempts' \in Seq(LogEntry) /\ Len(attempts') <= LogLimit
      /\ \A i \in DOMAIN attempts' : \E j \in DOMAIN full : attempts'[i] = full[j]
  <2> HIDE DEF full
  <2> QED BY <1>5, <1>6, <1>7, PaymentAssumption
<1>9. \A i \in DOMAIN attempts' :
        attempts'[i] = Entry(p) \/ \E j \in DOMAIN attempts : attempts'[i] = attempts[j]
  <2> HIDE DEF full
  <2> QED BY <1>6, <1>8
<1>10. ASSUME NEW e, e = Entry(p) PROVE EntryTrue(e)'
  <2>1. asked[p] = <<payment[p].gateway>>
    BY <1>1, <1>2 DEF AttemptInv, Told, Calling
  <2>2. payment[p].success /\ payment[p].gateway = PayMob => p \in keyed
    BY <1>1, <1>2 DEF AttemptInv, Told
  <2>3. e.payment = p /\ e.gateway = payment[p].gateway /\ e.success = payment[p].success
    BY <1>3, <1>10
  <2> QED BY <1>2, <1>4, <2>1, <2>2, <2>3 DEF EntryTrue, Answered
<1>11. ASSUME NEW e, NEW j \in DOMAIN attempts, e = attempts[j] PROVE EntryTrue(e)'
  <2>1. e \in LogEntry
    BY <1>5, <1>11
  <2>2. EntryTrue(e) /\ e.payment \in Payments
    BY <1>1, <1>11, <2>1 DEF AttemptInv, LogEntry
  <2>3. e.payment # p
    BY <1>2, <2>2 DEF EntryTrue, Answered
  <2> QED BY <1>2, <1>4, <2>2, <2>3 DEF EntryTrue
<1>12. \A i \in DOMAIN attempts' : EntryTrue(attempts[i])'
  <2> HIDE DEF full
  <2> QED BY <1>9, <1>10, <1>11
<1>13. \A q \in Payments : Told(payment'[q], asked'[q], q \in keyed')
  <2>1. Told(r, asked[p], p \in keyed)
    BY <1>2 DEF Told, Answered, Searching, Calling
  <2> QED BY <1>1, <1>2, <1>4, <2>1 DEF AttemptInv
<1>14. PayTypes'
  <2>1. \A q \in Payments : Proper(payment'[q])
    BY <1>1, <1>2, <1>4 DEF AttemptInv, PayTypes, GoesOn
  <2>2. \A q \in Payments : payment'[q].at \in Searching \cup {"ask"} \cup Calling \cup Answered
    BY <2>1 DEF Proper
  <2>3. UNCHANGED edits
    BY DEF LogPaymentAttempt
  <2>4. PayTypeOK'
    BY <1>1, <1>2, <1>8, <2>2, <2>3
       DEF AttemptInv, PayTypes, PayTypeOK, Searching, Calling, Answered, Ends
  <2> QED BY <1>4, <2>1, <2>4 DEF PayTypes
<1>15. AttemptInv'
  BY <1>12, <1>13, <1>14 DEF AttemptInv
<1>16. ASSUME NEW h \in Gateways PROVE metrics'[h].ok = Cardinality(Credited(h)')
  <2>1. r.at # "ask" /\ asked' = [asked EXCEPT ![p] = asked[p]]
    BY <1>1, <1>2 DEF Answered, AttemptInv, PayTypes, PayTypeOK
  <2>2. p \in Credited(h) <=> h \in ToSet(asked[p])
    BY <1>2 DEF Credited, At
  <2>3. /\ Credited(h)' \ {p} = Credited(h) \ {p}
        /\ p \in Credited(h)' <=> h \in ToSet(asked[p])
    <3> HIDE DEF r
    <3> QED BY <1>1, <1>2, <2>1, CreditStep
  <2>4. Credited(h)' = Credited(h)
    BY <2>2, <2>3
  <2> QED BY <1>2, <2>4 DEF CreditInv
<1> QED BY <1>15, <1>16 DEF CreditInv

(* Reading the log, the clock of the token, and the administrator of the rules
   move no request. *)
LEMMA OthersKeep ==
  ASSUME CreditInv, ReadAttempts \/ ExpireToken \/ (\E table : Edit(table)) \/ UNCHANGED payVars
  PROVE  CreditInv'
<1>1. AttemptInv
  BY DEF CreditInv
<1>2. UNCHANGED <<metrics, payment, asked, keyed, home>>
  BY DEF ReadAttempts, ExpireToken, Edit, payVars, memory
<1>3. /\ attempts \in Seq(LogEntry) /\ Len(attempts) <= LogLimit
      /\ \A i \in DOMAIN attempts : EntryTrue(attempts[i])
  BY <1>1 DEF AttemptInv, PayTypes, PayTypeOK
<1>4. /\ attempts' \in Seq(LogEntry) /\ Len(attempts') <= LogLimit
      /\ \A i \in DOMAIN attempts' : \E j \in DOMAIN attempts : attempts'[i] = attempts[j]
  <2>1. CASE ReadAttempts
    <3>1. PICK log \in [DOMAIN attempts -> ToSet(attempts)] : attempts' = log
      BY <2>1 DEF ReadAttempts
    <3>2. DOMAIN attempts = 1 .. Len(attempts) /\ Len(attempts) \in Nat
      BY <1>3
    <3>3. \A i \in DOMAIN log : \E j \in DOMAIN attempts : log[i] = attempts[j]
      BY <3>1 DEF ToSet
    <3>4. \A i \in DOMAIN attempts : attempts[i] \in LogEntry
      BY <1>3
    <3>5. log \in [1 .. Len(attempts) -> LogEntry]
      BY <3>1, <3>2, <3>3, <3>4
    <3> QED BY <1>3, <3>1, <3>2, <3>3, <3>5
  <2>2. CASE UNCHANGED attempts
    BY <1>3, <2>2
  <2> QED BY <2>1, <2>2 DEF ExpireToken, Edit, payVars, memory
<1>5. ASSUME NEW e, EntryTrue(e) PROVE EntryTrue(e)'
  BY <1>2, <1>5 DEF EntryTrue
<1>6. \A i \in DOMAIN attempts' : EntryTrue(attempts[i])'
  <2> QED BY <1>3, <1>4, <1>5
<1>7. token' \in {"none", "valid", "expired"} /\ edits' \in 0 .. MaxEdits
  BY <1>1, PaymentAssumption
     DEF AttemptInv, PayTypes, PayTypeOK, ReadAttempts, ExpireToken, Edit, payVars, memory
<1>8. PayTypes'
  BY <1>1, <1>2, <1>4, <1>7 DEF AttemptInv, PayTypes, PayTypeOK
<1>9. AttemptInv'
  BY <1>1, <1>2, <1>6, <1>8 DEF AttemptInv
<1>10. ASSUME NEW h \in Gateways PROVE metrics'[h].ok = Cardinality(Credited(h)')
  <2>1. Credited(h)' = Credited(h)
    BY <1>2 DEF Credited, At
  <2> QED BY <1>2, <2>1 DEF CreditInv
<1> QED BY <1>9, <1>10 DEF CreditInv

LEMMA PayStepInv == CreditInv /\ [PayNext]_payVars => CreditInv'
<1> SUFFICES ASSUME CreditInv, [PayNext]_payVars PROVE CreditInv'
  OBVIOUS
<1>1. ASSUME NEW p \in Payments, PayStep(p) PROVE CreditInv'
  BY <1>1, SearchKeeps, ProbeKeeps, AskKeeps, AnswerKeeps, LogKeeps DEF PayStep
<1>2. CASE CreateRoutingRule \/ UpdateRoutingRule \/ DeleteRoutingRule
  <2>1. \E table : Edit(table)
    BY <1>2 DEF CreateRoutingRule, UpdateRoutingRule, DeleteRoutingRule
  <2> QED BY <2>1, OthersKeep
<1> QED BY <1>1, <1>2, OthersKeep DEF PayNext

LEMMA PayInvariant == PaySpec => []CreditInv
BY PayInitInv, PayStepInv, PTL DEF PaySpec

(* What the log says of an attempt is true: one gateway was asked, once, and it is
   the one the entry names; the payment ended as the entry says; and a success at
   PayMob has a payment key.  For any number of payments, rules, gateways and log
   entries, with the rules edited and the log sorted by its readers meanwhile. *)
THEOREM LogTellsTruth == PaySpec => []AttemptsTruthful
BY PayInvariant, CreditInvImplies, PTL

(* A gateway's count of successes is the number of payments sent to it or about to
   be sent, however many rules and gateways the selections tried before: a failed
   probe or rule is charged as a failure and never as a success. *)
THEOREM SelectionsAreCredited == PaySpec => []SelectionsCredited
BY PayInvariant, CreditInvImplies, PTL

(***************************************************************************)
(* Pricing: what is told twice                                             *)
(***************************************************************************)

LEMMA RoundTyped == \A n \in Int, d \in Nat \ {0} : Round(n, d) \in Int
<1> SUFFICES ASSUME NEW n \in Int, NEW d \in Nat \ {0} PROVE Round(n, d) \in Int
  OBVIOUS
<1>1. 2 * d \in Nat \ {0} /\ 2 * n + d \in Int
  OBVIOUS
<1> QED BY <1>1 DEF Round

(* Rounding moves an amount by at most a half. *)
LEMMA RoundPercents ==
  ASSUME NEW n \in Int
  PROVE  /\ Round(n, 10) \in Int /\ 20 * Round(n, 10) - 2 * n \in -9 .. 10
         /\ Round(n, 30) \in Int /\ 60 * Round(n, 30) - 2 * n \in -29 .. 30
         /\ Round(n, 100) \in Int /\ 200 * Round(n, 100) - 2 * n \in -99 .. 100
         /\ Round(n, 1000) \in Int
BY DEF Round

-----------------------------------------------------------------------------
(* Quotes and charges *)

LEMMA Numbers ==
  /\ \A region \in DOMAIN TaxRate : TaxRate[region] \in 0 .. 100 /\ ExemptionThreshold[region] \in Nat
  /\ DOMAIN ExemptionThreshold = DOMAIN TaxRate
BY DEF TaxRate, ExemptionThreshold

LEMMA TaxTyped ==
  ASSUME NEW a \in Int, NEW region
  PROVE  Tax(a, region) \in Int
<1>1. CASE Exempt(a, region)
  BY <1>1 DEF Tax
<1>2. CASE ~ Exempt(a, region)
  <2>1. a * TaxRate[region] \in Int
    BY <1>2, Numbers DEF Exempt
  <2> QED BY <1>2, <2>1, RoundPercents DEF Tax
<1> QED BY <1>1, <1>2

(* More is taxed no less. *)
LEMMA TaxGrows ==
  ASSUME NEW a \in Int, NEW f \in Nat, NEW region, Exempt(a, region) <=> Exempt(a + f, region)
  PROVE  Tax(a, region) <= Tax(a + f, region)
<1>1. CASE Exempt(a, region)
  BY <1>1 DEF Tax
<1>2. CASE ~ Exempt(a, region)
  <2> DEFINE t == TaxRate[region]
  <2>1. t \in 0 .. 100
    BY <1>2, Numbers DEF Exempt
  <2>2. a * t \in Int /\ (a + f) * t \in Int /\ a * t <= (a + f) * t
    <3> HIDE DEF t
    <3>1. f * t \in Nat /\ (a + f) * t = a * t + f * t /\ a * t \in Int
      BY <2>1
    <3> QED BY <3>1
  <2>3. Round(a * t, 100) <= Round((a + f) * t, 100)
    <3> HIDE DEF t
    <3> QED BY <2>2 DEF Round
  <2> QED BY <1>2, <2>3 DEF Tax
<1> QED BY <1>1, <1>2

LEMMA ConversionTyped ==
  ASSUME NEW o \in Orders, NEW rate \in Rates
  PROVE  Converted(o, rate) \in Int /\ FeeOf(o, rate) \in Nat
<1>1. rate[1] \in Nat \ {0} /\ rate[2] \in Nat \ {0} /\ o.amount \in Nat
  BY PriceAssumption DEF Rates
<1>2. Converted(o, rate) \in Int
  <2>1. o.amount * rate[1] \in Int
    BY <1>1
  <2>2. Round(o.amount * rate[1], rate[2]) \in Int
    BY <1>1, <2>1, RoundTyped
  <2> QED BY <1>1, <2>2 DEF Converted
<1>3. ASSUME NEW c \in Int PROVE ConversionFee(c) \in Nat
  <2>1. Round(c * 5, 1000) \in Int
    BY RoundPercents
  <2> QED BY <2>1 DEF ConversionFee, Upper, Lower
<1> QED BY <1>2, <1>3 DEF FeeOf

LEMMA TotalsTyped ==
  ASSUME NEW o \in Orders, NEW rate \in Rates
  PROVE  TotalCost(o, rate) \in Int /\ AmountCharged(o, rate) \in Int
BY ConversionTyped, TaxTyped DEF TotalCost, AmountCharged

(* An order in one currency costs the same at every rate. *)
LEMMA OneCurrency ==
  ASSUME NEW o, o.from = o.to, NEW rate, NEW other
  PROVE  AmountCharged(o, rate) = AmountCharged(o, other)
BY DEF AmountCharged, Converted, FeeOf

LEMMA FallbackTyped == \A from, to : FallbackRate(from, to) \in Rates \cup {Blank}
<1>1. \A pair \in DOMAIN FallbackRates : FallbackRates[pair] \in Rates
  BY DEF FallbackRates, Rates
<1>2. \A rate \in Rates : <<rate[2], rate[1]>> \in Rates
  BY DEF Rates
<1> QED BY <1>1, <1>2 DEF FallbackRate

LEMMA QuotationsTyped ==
  ASSUME PriceTypeOK, NEW pair \in Pairs, NEW q \in ExchangeRates(pair)
  PROVE  /\ q.rate \in Rates /\ q.kept \in BOOLEAN
         /\ cached[pair] # Blank => q.rate = cached[pair]
<1>1. cached[pair] \in Rates \cup {Blank}
  BY DEF PriceTypeOK
<1>2. CASE cached[pair] # Blank
  <2>1. q = [rate |-> cached[pair], kept |-> TRUE]
    BY <1>2 DEF ExchangeRates, Quotation
  <2> QED BY <1>1, <1>2, <2>1
<1>3. CASE cached[pair] = Blank
  <2>1. ASSUME NEW rate \in Fetched(pair[1], pair[2]) PROVE rate \in Rates
    <3>1. CASE FallbackRate(pair[1], pair[2]) = Blank
      BY <3>1 DEF Fetched, Rates
    <3>2. CASE FallbackRate(pair[1], pair[2]) # Blank
      <4>1. PICK v \in Variations :
              rate = <<FallbackRate(pair[1], pair[2])[1] * v, FallbackRate(pair[1], pair[2])[2] * 100>>
        BY <2>1, <3>2 DEF Fetched
      <4>2. FallbackRate(pair[1], pair[2]) \in Rates
        BY <3>2, FallbackTyped
      <4>3. v \in Nat \ {0}
        BY PriceAssumption
      <4>4. \A m, n \in Nat \ {0} : m * n \in Nat \ {0}
        OBVIOUS
      <4> QED BY <4>1, <4>2, <4>3, <4>4 DEF Rates
    <3> QED BY <3>1, <3>2
  <2>2. \/ \E rate \in Fetched(pair[1], pair[2]) : q = [rate |-> rate, kept |-> TRUE]
        \/ \E rate \in {FallbackRate(pair[1], pair[2])} \ {Blank} : q = [rate |-> rate, kept |-> FALSE]
    BY <1>3 DEF ExchangeRates, Asked, Quotation
  <2>3. \A rate \in {FallbackRate(pair[1], pair[2])} \ {Blank} : rate \in Rates
    BY FallbackTyped
  <2>4. \E rate \in Rates, kept \in BOOLEAN : q = [rate |-> rate, kept |-> kept]
    BY <2>1, <2>2, <2>3
  <2> QED BY <1>3, <2>4
<1> QED BY <1>2, <1>3

-----------------------------------------------------------------------------
(* Tiers *)

LEMMA MonthlyBaseTyped == \A t \in Tiers : MonthlyBase(t.features) \in Int
<1> SUFFICES ASSUME NEW t \in Tiers PROVE MonthlyBase(t.features) \in Int
  OBVIOUS
<1>1. \A f \in DOMAIN FeaturePrice : FeaturePrice[f] \in Int
  BY DEF FeaturePrice
<1>2. \A f \in DOMAIN PerUnitPrice : PerUnitPrice[f] \in Int
  BY DEF PerUnitPrice
<1>3. ASSUME NEW f \in DOMAIN FeaturePrice PROVE PriceOf(t.features, f) \in Int
  <2>1. CASE f \notin On(t.features)
    BY <2>1 DEF PriceOf
  <2>2. CASE f \in On(t.features)
    <3>1. t.features[f] - 1 \in Int
      BY <2>2, PriceAssumption DEF On
    <3>2. f \in DOMAIN PerUnitPrice => (t.features[f] - 1) * PerUnitPrice[f] \in Int
      BY <1>2, <3>1
    <3> QED BY <1>1, <1>3, <2>2, <3>2 DEF PriceOf
  <2> QED BY <2>1, <2>2
<1>4. \A f \in {"unlimited_users", "extra_storage", "priority_support", "api_boost",
                "custom_fields_pack", "advanced_analytics", "white_labeling",
                "premium_integrations", "sso_provider", "backup_retention", "audit_logs"} :
         f \in DOMAIN FeaturePrice
  BY DEF FeaturePrice
<1> QED BY <1>3, <1>4 DEF MonthlyBase

LEMMA Multipliers == \A currency : RegionalMultiplier(currency) \in {110, 115, 80, 85, 30, 100}
BY DEF RegionalMultiplier

(* A year costs nine tenths of twelve months, but for three roundings. *)
LEMMA YearOfMonths ==
  ASSUME NEW b \in Int, NEW m \in {110, 115, 80, 85, 30, 100}
  PROVE  /\ Round(Round(b * 12 * 9, 10) * m, 100) \in Int
         /\ Round(b * m, 100) \in Int
         /\ 10 * Round(Round(b * 12 * 9, 10) * m, 100) - 108 * Round(b * m, 100) \in -70 .. 70
<1>1. PICK y : y = Round(b * 12 * 9, 10)
  OBVIOUS
<1>2. y \in Int /\ 20 * y - 216 * b \in -9 .. 10
  BY <1>1, RoundPercents
<1>3. PICK year, month : year = Round(y * m, 100) /\ month = Round(b * m, 100)
  OBVIOUS
<1>4. /\ year \in Int /\ 200 * year - 2 * (y * m) \in -99 .. 100
      /\ month \in Int /\ 200 * month - 2 * (b * m) \in -99 .. 100
  <2>1. y * m \in Int /\ b * m \in Int
    BY <1>2
  <2> QED BY <1>3, <2>1, RoundPercents
<1>5. 10 * year - 108 * month \in -70 .. 70
  <2>1. CASE m = 110 BY <1>2, <1>4, <2>1
  <2>2. CASE m = 115 BY <1>2, <1>4, <2>2
  <2>3. CASE m = 80 BY <1>2, <1>4, <2>3
  <2>4. CASE m = 85 BY <1>2, <1>4, <2>4
  <2>5. CASE m = 30 BY <1>2, <1>4, <2>5
  <2>6. CASE m = 100 BY <1>2, <1>4, <2>6
  <2> QED BY <2>1, <2>2, <2>3, <2>4, <2>5, <2>6
<1> QED BY <1>1, <1>3, <1>4, <1>5

LEMMA GatewaysSupport ==
  ASSUME NEW currency \in Currencies, NEW region
  PROVE  SupportedGateways(currency, region) \subseteq GatewaysFor(currency, region)
<1>1. {"STRIPE"} \subseteq GatewaySupport[currency]
  BY DEF Currencies, GatewaySupport
<1>2. ASSUME currency \in {"SAR", "AED", "KWD", "QAR", "BHD"}
      PROVE  "PAYTABS" \in GatewaySupport[currency]
  BY <1>2 DEF Currencies, GatewaySupport
<1>3. ASSUME currency = "EGP" PROVE "PAYMOB" \in GatewaySupport[currency]
  BY <1>3 DEF Currencies, GatewaySupport
<1>4. ASSUME region \in DOMAIN LocalCurrency
      PROVE  GatewaySupport[LocalCurrency[region]] \subseteq GatewaysFor(currency, region)
  BY <1>4 DEF GatewaysFor
<1>5. ASSUME region \in {"SA", "AE", "KW", "QA", "BH"}
      PROVE  region \in DOMAIN LocalCurrency /\ "PAYTABS" \in GatewaySupport[LocalCurrency[region]]
  <2>1. LocalCurrency[region] \in {"SAR", "AED", "KWD", "QAR", "BHD"}
    BY <1>5 DEF LocalCurrency
  <2> QED BY <1>5, <2>1 DEF LocalCurrency, Currencies, GatewaySupport
<1>6. ASSUME region = "EG"
      PROVE  region \in DOMAIN LocalCurrency /\ "PAYMOB" \in GatewaySupport[LocalCurrency[region]]
  BY <1>6 DEF LocalCurrency, Currencies, GatewaySupport
<1>7. GatewaySupport[currency] \subseteq GatewaysFor(currency, region)
  BY DEF GatewaysFor
<1> QED BY <1>1, <1>2, <1>3, <1>4, <1>5, <1>6, <1>7 DEF SupportedGateways

(* What a tier is stored with. *)
TierAgrees ==
  work.at \in {"tier", "stored"} =>
    /\ work.gateways \subseteq GatewaysFor(work.request.currency, work.request.region)
    /\ 10 * work.yearly - 108 * work.monthly \in -70 .. 70
    /\ \A region \in DOMAIN RegionalCurrency :
         RegionalCurrency[region] = work.request.currency => work.regional[region] = work.monthly

-----------------------------------------------------------------------------
(* Invoices *)

LEMMA OffersTyped ==
  \A offer \in DOMAIN Offers :
    /\ Offers[offer].price \in Nat
    /\ \A what \in {"schools", "users", "students", "apiCalls", "storage"} :
         Offers[offer].limits[what] \in Int
BY DEF Offers

LEMMA OverageTyped ==
  ASSUME NEW offer \in DOMAIN Offers, NEW usage \in Usages
  PROVE  /\ Overage(offer, usage) \in Nat
         /\ WithinLimits(offer, usage) => Overage(offer, usage) = 0
<1>1. usage \in [schools : Nat, users : Nat, students : Nat, apiCalls : Nat, storage : Nat]
  BY PriceAssumption
<1>2. ASSUME NEW what \in {"schools", "users", "storage"}
      PROVE  what \in DOMAIN usage /\ Excess(offer, usage, what) \in Nat
  <2>1. what \in DOMAIN usage /\ usage[what] \in Nat
    BY <1>1
  <2>2. Offers[offer].limits[what] \in Int
    BY OffersTyped
  <2> QED BY <2>1, <2>2 DEF Excess, Upper
<1> QED BY <1>2 DEF Overage, WithinLimits

InvoiceAgrees ==
  work.at = "invoice" =>
    /\ work.line + 30 * work.overage - 30 * work.subtotal \in -15 .. 15
    /\ work.settled => work.overage = 0

-----------------------------------------------------------------------------
(* A quote is the cost at its rate, which is the one in the cache for as long as
   the quote is held; the charge after it is made at the same rate. *)
QuoteKept ==
  /\ work.at \in {"quoted", "charged"} => work.quote = TotalCost(work.order, work.rate)
  /\ work.at = "quoted" /\ work.held /\ work.order.from # work.order.to =>
       cached[<<work.order.from, work.order.to>>] = work.rate
  /\ work.at = "charged" /\ work.held => work.charge = AmountCharged(work.order, work.rate)

AcceptedWithin == work.at = "accepted" => WithinLimits(work.offer, work.usage)

PriceInv == PriceTypeOK /\ QuoteKept /\ TierAgrees /\ AcceptedWithin /\ InvoiceAgrees

(* The parts of the invariant that speak of work hold of an idle service. *)
LEMMA PriceInitInv == PriceInit => PriceInv
BY DEF PriceInit, PriceInv, PriceTypeOK, MaxDeals, Idle, QuoteKept, TierAgrees, AcceptedWithin, InvoiceAgrees

LEMMA WorkFields ==
  ASSUME NEW r \in Work \cup {Idle}
  PROVE  /\ r.at = "quoted" => /\ r \in [at : {"quoted"}, order : Orders, quote : Int, rate : Rates,
                                         held : BOOLEAN]
                               /\ r.order \in Orders /\ r.rate \in Rates /\ r.held \in BOOLEAN
                               /\ r.quote \in Int
         /\ r.at = "charged" => r.order \in Orders /\ r.rate \in Rates
         /\ r.at = "tier" =>
              r \in [at : {"tier", "stored"}, request : Tiers, monthly : Int, yearly : Int,
                     regional : [DOMAIN RegionalCurrency -> Int],
                     limits : [users : Int, storage : Int, apiCalls : Int, customFields : Int,
                               integrations : Int],
                     gateways : SUBSET {"STRIPE", "PAYTABS", "PAYMOB"}]
         /\ r.at = "accepted" => r.offer \in DOMAIN Offers /\ r.usage \in Usages
BY DEF Work, Idle

LEMMA QuoteStep ==
  ASSUME PriceInv, NEW o \in Orders, QuoteCost(o)
  PROVE  PriceInv'
<1> DEFINE pair == <<o.from, o.to>>
<1>1. pair \in Pairs
  BY DEF Pairs
<1>2. PICK q \in ExchangeRates(pair) :
        /\ Keep(pair, q)
        /\ work' = [at |-> "quoted", order |-> o, quote |-> TotalCost(o, q.rate), rate |-> q.rate,
                    held |-> q.kept]
  BY DEF QuoteCost
<1>3. q.rate \in Rates /\ q.kept \in BOOLEAN
  BY <1>1, QuotationsTyped DEF PriceInv
<1>4. TotalCost(o, q.rate) \in Int
  BY <1>3, TotalsTyped
<1>5. work' \in Work /\ deals' \in 0 .. MaxDeals
  BY <1>2, <1>3, <1>4 DEF Work, QuoteCost, PriceInv, PriceTypeOK, MaxDeals
<1>6. /\ cached' \in [Pairs -> Rates \cup {Blank}]
      /\ q.kept /\ o.from # o.to => cached'[pair] = q.rate
  BY <1>1, <1>2, <1>3 DEF Keep, PriceInv, PriceTypeOK
<1> QED BY <1>2, <1>5, <1>6
        DEF PriceInv, PriceTypeOK, QuoteKept, TierAgrees, AcceptedWithin, InvoiceAgrees

LEMMA ChargeStep ==
  ASSUME PriceInv, ChargeConverted
  PROVE  PriceInv'
<1> DEFINE o == work.order
           pair == <<o.from, o.to>>
<1>1. work.at = "quoted" /\ o \in Orders /\ work.rate \in Rates /\ work.held \in BOOLEAN
      /\ work.quote \in Int
  BY WorkFields DEF ChargeConverted, PriceInv, PriceTypeOK
<1>2. pair \in Pairs
  BY <1>1 DEF Pairs
<1>3. PICK q \in ExchangeRates(pair) :
        /\ Keep(pair, q)
        /\ work' = [at |-> "charged", order |-> o, quote |-> work.quote, rate |-> work.rate,
                    held |-> work.held, charge |-> AmountCharged(o, q.rate)]
  BY DEF ChargeConverted
<1>4. q.rate \in Rates /\ (cached[pair] # Blank => q.rate = cached[pair])
  BY <1>2, QuotationsTyped DEF PriceInv
<1>5. AmountCharged(o, q.rate) \in Int
  BY <1>1, <1>4, TotalsTyped
<1>6. work' \in Work /\ deals' \in 0 .. MaxDeals
  BY <1>1, <1>3, <1>5 DEF Work, ChargeConverted, PriceInv, PriceTypeOK
<1>7. cached' \in [Pairs -> Rates \cup {Blank}]
  BY <1>2, <1>3, <1>4 DEF Keep, PriceInv, PriceTypeOK
<1>8. work.held => AmountCharged(o, q.rate) = AmountCharged(o, work.rate)
  <2>1. CASE o.from = o.to
    BY <2>1, OneCurrency
  <2>2. CASE o.from # o.to /\ work.held
    BY <1>1, <1>4, <2>2, PriceAssumption DEF PriceInv, QuoteKept
  <2> QED BY <2>1, <2>2
<1>9. work.quote = TotalCost(o, work.rate)
  BY <1>1 DEF PriceInv, QuoteKept
<1>10. QuoteKept'
  BY <1>3, <1>8, <1>9 DEF QuoteKept
<1> QED BY <1>3, <1>6, <1>7, <1>10
        DEF PriceInv, PriceTypeOK, TierAgrees, AcceptedWithin, InvoiceAgrees

LEMMA ForgetStep ==
  ASSUME PriceInv, NEW pairs, Forget(pairs)
  PROVE  PriceInv'
<1>1. cached' = [pair \in Pairs |-> IF pair \in pairs THEN Blank ELSE cached[pair]]
  BY DEF Forget, PriceInv, PriceTypeOK
<1>2. cached' \in [Pairs -> Rates \cup {Blank}] /\ UNCHANGED deals
  BY <1>1 DEF Forget, PriceInv, PriceTypeOK
<1>3. CASE work.at = "quoted" /\ <<work.order.from, work.order.to>> \in pairs
  <2>1. work' = [work EXCEPT !.held = FALSE]
    BY <1>3 DEF Forget
  <2>2. work \in [at : {"quoted"}, order : Orders, quote : Int, rate : Rates, held : BOOLEAN]
    BY <1>3, WorkFields DEF PriceInv, PriceTypeOK
  <2>3. work' \in [at : {"quoted"}, order : Orders, quote : Int, rate : Rates, held : BOOLEAN]
        /\ work'.at = "quoted" /\ work'.held = FALSE
        /\ work'.order = work.order /\ work'.rate = work.rate /\ work'.quote = work.quote
    BY <2>1, <2>2
  <2>4. work' \in Work
    BY <2>3 DEF Work
  <2> QED BY <1>2, <1>3, <2>3, <2>4
          DEF PriceInv, PriceTypeOK, QuoteKept, TierAgrees, AcceptedWithin, InvoiceAgrees
<1>4. CASE ~ (work.at = "quoted" /\ <<work.order.from, work.order.to>> \in pairs)
  <2>1. UNCHANGED work
    BY <1>4 DEF Forget
  <2>2. work.at = "quoted" => cached'[<<work.order.from, work.order.to>>]
                              = cached[<<work.order.from, work.order.to>>]
    <3> SUFFICES ASSUME work.at = "quoted" PROVE <<work.order.from, work.order.to>> \in Pairs
      BY <1>1, <1>4
    <3> QED BY WorkFields DEF PriceInv, PriceTypeOK, Pairs
  <2> QED BY <1>2, <2>1, <2>2
          DEF PriceInv, PriceTypeOK, QuoteKept, TierAgrees, AcceptedWithin, InvoiceAgrees
<1> QED BY <1>3, <1>4

LEMMA TierStep ==
  ASSUME PriceInv, NEW t \in Tiers, CreateCustomTier(t)
  PROVE  PriceInv'
<1> DEFINE month == MonthlyPrice(t.features, t.currency)
           year == YearlyPrice(t.features, t.currency)
           regional == RegionalPricing(t.features)
           limits == TierLimits(t.features)
           gateways == SupportedGateways(t.currency, t.region)
<1>1. work' = [at |-> "tier", request |-> t, monthly |-> month, yearly |-> year,
               regional |-> regional, limits |-> limits, gateways |-> gateways]
      /\ UNCHANGED cached /\ deals' \in 0 .. MaxDeals
  BY DEF CreateCustomTier, PriceInv, PriceTypeOK, MaxDeals
<1>2. month \in Int /\ year \in Int /\ 10 * year - 108 * month \in -70 .. 70
  BY MonthlyBaseTyped, Multipliers, YearOfMonths DEF MonthlyPrice, YearlyPrice
<1>3. /\ regional \in [DOMAIN RegionalCurrency -> Int]
      /\ \A region \in DOMAIN RegionalCurrency :
           RegionalCurrency[region] = t.currency => regional[region] = month
  <2>1. \A currency : MonthlyPrice(t.features, currency) \in Int
    BY MonthlyBaseTyped, Multipliers, YearOfMonths DEF MonthlyPrice
  <2> QED BY <2>1 DEF RegionalPricing
<1>4. limits \in [users : Int, storage : Int, apiCalls : Int, customFields : Int, integrations : Int]
  <2>1. \A f \in DOMAIN t.features : t.features[f] \in Int
    BY PriceAssumption
  <2> QED BY <2>1 DEF TierLimits
<1>5. gateways \subseteq GatewaysFor(t.currency, t.region) /\ gateways \subseteq {"STRIPE", "PAYTABS", "PAYMOB"}
  BY PriceAssumption, GatewaysSupport DEF SupportedGateways
<1> HIDE DEF month, year, regional, limits, gateways
<1>6. work' \in Work
  BY <1>1, <1>2, <1>3, <1>4, <1>5 DEF Work
<1>7. TierAgrees'
  BY <1>1, <1>2, <1>3, <1>5 DEF TierAgrees
<1> QED BY <1>1, <1>6, <1>7 DEF PriceInv, PriceTypeOK, QuoteKept, AcceptedWithin, InvoiceAgrees

LEMMA StoreStep ==
  ASSUME PriceInv, StoreCustomTier
  PROVE  PriceInv'
<1> DEFINE Tier == [at : {"tier", "stored"}, request : Tiers, monthly : Int, yearly : Int,
                    regional : [DOMAIN RegionalCurrency -> Int],
                    limits : [users : Int, storage : Int, apiCalls : Int, customFields : Int,
                              integrations : Int],
                    gateways : SUBSET {"STRIPE", "PAYTABS", "PAYMOB"}]
<1>1. work \in Tier /\ work.at = "tier"
  BY WorkFields DEF StoreCustomTier, PriceInv, PriceTypeOK
<1>2. work' = [work EXCEPT !.at = "stored"] /\ UNCHANGED <<cached, deals>>
  BY DEF StoreCustomTier
<1>3. /\ work' \in Tier /\ work'.at = "stored"
      /\ work'.gateways = work.gateways /\ work'.request = work.request
      /\ work'.yearly = work.yearly /\ work'.monthly = work.monthly /\ work'.regional = work.regional
  BY <1>1, <1>2
<1>4. work' \in Work
  BY <1>3 DEF Work
<1> HIDE DEF Tier
<1>5. TierAgrees'
  BY <1>1, <1>3 DEF PriceInv, TierAgrees
<1> QED BY <1>2, <1>3, <1>4, <1>5 DEF PriceInv, PriceTypeOK, QuoteKept, AcceptedWithin, InvoiceAgrees

LEMMA AcceptStep ==
  ASSUME PriceInv, NEW offer \in DOMAIN Offers, NEW usage \in Usages, Accept(offer, usage)
  PROVE  PriceInv'
<1>1. /\ work' = [at |-> "accepted", offer |-> offer, usage |-> usage]
      /\ WithinLimits(offer, usage) /\ UNCHANGED cached /\ deals' \in 0 .. MaxDeals
  BY DEF Accept, PriceInv, PriceTypeOK, MaxDeals
<1>2. work' \in Work
  BY <1>1 DEF Work
<1> QED BY <1>1, <1>2
        DEF PriceInv, PriceTypeOK, QuoteKept, TierAgrees, AcceptedWithin, InvoiceAgrees

LEMMA InvoiceStep ==
  ASSUME PriceInv, NEW offer \in DOMAIN Offers, NEW usage \in Usages, NEW days \in Terms,
         GenerateInvoice(offer, usage, days)
  PROVE  PriceInv'
<1> DEFINE line == PlanLine(offer, days)
           over == Overage(offer, usage)
           subtotal == Round(line + 30 * over, 30)
           total == subtotal + Round(subtotal * 85, 1000)
           settled == work.at = "accepted" /\ work.offer = offer /\ work.usage = usage
<1>1. /\ work' = [at |-> "invoice", offer |-> offer, days |-> days, line |-> line,
                  overage |-> over, subtotal |-> subtotal, total |-> total, settled |-> settled]
      /\ UNCHANGED cached
  BY DEF GenerateInvoice
<1>2. deals' \in 0 .. MaxDeals
  BY DEF GenerateInvoice, PriceInv, PriceTypeOK, MaxDeals, Lower
<1>3. line \in Int /\ over \in Nat
  <2>1. Offers[offer].price \in Int /\ days \in Int
    BY OffersTyped, PriceAssumption
  <2>2. Offers[offer].price * days \in Int
    BY <2>1
  <2> QED BY <2>2, OverageTyped DEF PlanLine
<1>4. subtotal \in Int /\ total \in Int /\ line + 30 * over - 30 * subtotal \in -15 .. 15
  <2> HIDE DEF line, over
  <2>1. /\ subtotal \in Int
        /\ 60 * subtotal - 2 * (line + 30 * over) \in -29 .. 30
    BY <1>3, RoundPercents
  <2>2. Round(subtotal * 85, 1000) \in Int
    BY <2>1, RoundPercents
  <2> QED BY <1>3, <2>1, <2>2
<1>5. settled => over = 0
  BY OverageTyped DEF PriceInv, AcceptedWithin
<1>6. settled \in BOOLEAN
  OBVIOUS
<1> HIDE DEF line, over, subtotal, total, settled
<1>7. work' \in Work
  BY <1>1, <1>3, <1>4, <1>6 DEF Work
<1>8. InvoiceAgrees'
  BY <1>1, <1>4, <1>5 DEF InvoiceAgrees
<1> QED BY <1>1, <1>2, <1>7, <1>8
        DEF PriceInv, PriceTypeOK, QuoteKept, TierAgrees, AcceptedWithin

LEMMA PriceStepInv == PriceInv /\ [PriceNext]_priceVars => PriceInv'
<1> SUFFICES ASSUME PriceInv, [PriceNext]_priceVars PROVE PriceInv'
  OBVIOUS
<1>1. CASE \E pair \in Pairs : RateExpires(pair)
  BY <1>1, ForgetStep DEF RateExpires
<1>2. CASE ClearCache
  BY <1>2, ForgetStep DEF ClearCache
<1>3. CASE \E offer \in DOMAIN Offers, usage \in Usages :
             ChangeToOffer(offer, usage) \/ Subscribe(offer, usage)
  BY <1>3, AcceptStep DEF ChangeToOffer, Subscribe
<1>4. CASE UNCHANGED priceVars
  BY <1>4 DEF priceVars, PriceInv, PriceTypeOK, QuoteKept, TierAgrees, AcceptedWithin, InvoiceAgrees
<1> QED BY <1>1, <1>2, <1>3, <1>4, QuoteStep, ChargeStep, TierStep, StoreStep, InvoiceStep
        DEF PriceNext

LEMMA PriceInvariant == PriceSpec => []PriceInv
BY PriceInitInv, PriceStepInv, PTL DEF PriceSpec

(* A payment charged at a rate that is still valid costs what was quoted and at
   most the tax on the fee more, for every amount, currency, region and rate, and
   however quotes, expiries and resets of the cache interleave: a quote is held only
   as long as the cache has its rate, and the tax grows with the amount unless the
   threshold of exemption lies between. *)
THEOREM QuotesHold == PriceSpec => []QuoteHolds
<1>1. PriceInv => QuoteHolds
  <2> SUFFICES ASSUME PriceInv, work.at = "charged", work.held PROVE QuoteHolds
    BY DEF QuoteHolds
  <2> DEFINE o == work.order
             c == Converted(o, work.rate)
             f == FeeOf(o, work.rate)
  <2>1. o \in Orders /\ work.rate \in Rates
    BY WorkFields DEF PriceInv, PriceTypeOK
  <2>2. c \in Int /\ f \in Nat
    BY <2>1, ConversionTyped
  <2>3. work.quote = c + f + Tax(c, o.region) /\ work.charge = c + f + Tax(c + f, o.region)
    BY DEF PriceInv, QuoteKept, TotalCost, AmountCharged
  <2>4. Tax(c, o.region) \in Int /\ Tax(c + f, o.region) \in Int
    <3> HIDE DEF c, f
    <3> QED BY <2>2, TaxTyped
  <2>5. (Exempt(c, o.region) <=> Exempt(c + f, o.region)) => Tax(c, o.region) <= Tax(c + f, o.region)
    <3> HIDE DEF c, f
    <3> QED BY <2>2, TaxGrows
  <2>6. (Exempt(c, o.region) <=> Exempt(c + f, o.region)) =>
          work.charge - work.quote \in 0 .. (Tax(c + f, o.region) - Tax(c, o.region))
    <3> HIDE DEF c, f, o
    <3> QED BY <2>2, <2>3, <2>4, <2>5
  <2> QED BY <2>6 DEF QuoteHolds
<1> QED BY <1>1, PriceInvariant, PTL

(* The subtotal of an invoice is the sum of its lines to half a cent, a change of
   plan that was accepted brings no overage for the same usage, a year of a custom
   tier costs nine tenths of its twelve months to seven cents ("10% yearly
   discount"), and its gateways take its currency: for every selection of features
   and quantities, every usage and every length of a cycle. *)
THEOREM PricesAlwaysAgree == PriceSpec => []PricesAgree
<1>1. PriceInv => PricesAgree
  BY DEF PriceInv, TierAgrees, InvoiceAgrees, PricesAgree
<1> QED BY <1>1, PriceInvariant, PTL
=============================================================================
