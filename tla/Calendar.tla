------------------------------ MODULE Calendar ------------------------------
(***************************************************************************)
(* TimeSlotService (src/backend/src/scheduling/services/                   *)
(* time-slot.service.ts) and the part of PreferencesService                *)
(* (preferences.service.ts) that concerns availabilities: the time slots   *)
(* of schools and the availabilities of teachers are spans of an owner's   *)
(* day, weekly or on one date.  Times are texts: a span is validated by    *)
(* the clock time its texts are parsed to, and compared with the others by *)
(* the order of the texts in the database.                                 *)
(***************************************************************************)
EXTENDS Requests, Integers

CONSTANTS
  Spans,      \* identifiers of slots and availabilities
  Owners,     \* weekdays of schools (for slots) and of teachers (for availabilities)
  SlotDays,   \* those of Owners that are schools'
  Dates,      \* the dates an availability may be for, instead of every week
  Times,      \* texts of times of the day
  Clock,      \* Clock[t]: the minute text t is parsed to
  TextOrder,  \* TextOrder[t]: the rank of text t among the texts
  SpanDtos,   \* what a creation may ask for
  SpanUpdates, \* what an update may carry, Blank for none
  Planners,   \* the requests that can interleave
  Tasks       \* Tasks[p]: the methods planner p may execute

SlotMethods == {"create", "bulk", "update", "activate", "deactivate", "delete"}

ASSUME CalendarAssumption ==
  /\ SlotDays \subseteq Owners
  /\ Clock \in [Times -> Nat] /\ TextOrder \in [Times -> Nat]
  /\ SpanDtos \subseteq [date : Dates \cup {Blank}, from : Times, to : Times]
  /\ SpanUpdates \subseteq [day : SlotDays \cup {Blank}, from : Times \cup {Blank},
                            to : Times \cup {Blank}, active : BOOLEAN \cup {Blank}]
  /\ Tasks \in [Planners -> SUBSET SlotMethods]

SpanRow == [owner : Owners, date : Dates \cup {Blank}, from : Times, to : Times,
            active : BOOLEAN]

ASSUME SpanRowAssumption == Absent \cap SpanRow = {}

VARIABLES
  span,     \* span[i]: the row of slot or availability i
  booked,   \* slots a session of some schedule takes place in
  plan      \* plan[p]: what the request of planner p does next

calVars == <<span, booked, plan>>

IsSpan(i) == span[i] \notin Absent
IsSlot(i) == IsSpan(i) /\ span[i].owner \in SlotDays

(* What a request holds between its check and its write. *)
Intent == {Idle} \cup [at : {"insert"}, row : SpanRow] \cup [at : {"delete"}, span : Spans]

CalTypeOK ==
  /\ span \in [Spans -> SpanRow \cup Absent]
  /\ booked \subseteq Spans
  /\ plan \in [Planners -> Intent]

CalInit ==
  /\ span = [i \in Spans |-> Unused]
  /\ booked = {}
  /\ plan = [p \in Planners |-> Idle]

Begins(p, method) == plan[p] = Idle /\ method \in Tasks[p]
Goes(p, next)    == plan' = [plan EXCEPT ![p] = next]

(* parseTime: the end is after the start. *)
Forward(from, to) == Clock[from] < Clock[to]

-----------------------------------------------------------------------------
(* validateNoOverlap and validateNoAvailabilityOverlap, three alternatives on
   the texts of the times: a span that covers the start, one that covers the
   end, one within. *)

Before(t, u) == TextOrder[t] < TextOrder[u]

(* Mutant: the alternative for a span within the new one is left out. *)
ClashesAtEnds(row, new) ==
  \/ ~ Before(new.from, row.from) /\ Before(new.from, row.to)
  \/ Before(row.from, new.to) /\ ~ Before(row.to, new.to)

Clashes(row, new) ==
  \/ ~ Before(new.from, row.from) /\ Before(new.from, row.to)
  \/ Before(row.from, new.to) /\ ~ Before(row.to, new.to)
  \/ ~ Before(row.from, new.from) /\ ~ Before(new.to, row.to)

(* What the query finds: active spans of the owner, only those of the date if the
   new one is for a date, those of any date and of every week if it is not. *)
InTheWay(row, new) ==
  /\ row.active /\ row.owner = new.owner
  /\ new.date # Blank => row.date = new.date
  /\ Clashes(row, new)

Free(new) == ~ \E i \in Spans : IsSpan(i) /\ InTheWay(span[i], new)

NewSpan(owner, dto) ==
  [owner |-> owner, date |-> dto.date, from |-> dto.from, to |-> dto.to, active |-> TRUE]

CheckSpan(p, new) ==
  /\ Begins(p, "create")
  /\ Forward(new.from, new.to)
  /\ Free(new)
  /\ Goes(p, [at |-> "insert", row |-> new])
  /\ UNCHANGED <<span, booked>>

(* A slot is for every week. *)
CreateTimeSlot(p, day, dto) ==
  day \in SlotDays /\ CheckSpan(p, NewSpan(day, [dto EXCEPT !.date = Blank]))

CreateAvailability(p, day, dto) ==
  day \in Owners \ SlotDays /\ CheckSpan(p, NewSpan(day, dto))

InsertSpan(p) ==
  /\ plan[p].at = "insert"
  /\ \E i \in Spans : span[i] = Unused /\ span' = [span EXCEPT ![i] = plan[p].row]
  /\ Goes(p, Idle)
  /\ UNCHANGED booked

(* createBulkAvailability: neither the order of the times nor the other spans
   are looked at. *)
CreateBulkAvailability(p, day, dto) ==
  /\ Begins(p, "bulk")
  /\ day \in Owners \ SlotDays
  /\ \E i \in Spans : span[i] = Unused /\ span' = [span EXCEPT ![i] = NewSpan(day, dto)]
  /\ UNCHANGED <<booked, plan>>

(* update: the order of the times if both are given, and no look at the other
   spans; a write by identifier after a read that finds the row. *)
Revised(row, dto) ==
  [row EXCEPT !.owner = Kept(dto.day, @), !.from = Kept(dto.from, @), !.to = Kept(dto.to, @),
              !.active = Kept(dto.active, @)]

Rewrite(p, i, dto) ==
  /\ Begins(p, "update")
  /\ dto.from # Blank /\ dto.to # Blank => Forward(dto.from, dto.to)
  /\ span' = [span EXCEPT ![i] = Revised(@, dto)]
  /\ UNCHANGED <<booked, plan>>

(* Only a slot can be moved to another day. *)
UpdateTimeSlot(p, i, dto)     == IsSlot(i) /\ Rewrite(p, i, dto)
UpdateAvailability(p, i, dto) ==
  IsSpan(i) /\ ~ IsSlot(i) /\ Rewrite(p, i, [dto EXCEPT !.day = Blank])

Switch(p, i, method, active) ==
  /\ Begins(p, method) /\ IsSlot(i)
  /\ span' = [span EXCEPT ![i].active = active]
  /\ UNCHANGED <<booked, plan>>

DeactivateTimeSlot(p, i) == Switch(p, i, "deactivate", FALSE)
ActivateTimeSlot(p, i)   == Switch(p, i, "activate", TRUE)

(* delete of a slot: the count of its sessions, then the deletion, with which
   the database deletes the sessions that were booked in between. *)
CountSessions(p, i) ==
  /\ Begins(p, "delete")
  /\ IsSlot(i) /\ i \notin booked
  /\ Goes(p, [at |-> "delete", span |-> i])
  /\ UNCHANGED <<span, booked>>

DeleteTimeSlot(p) ==
  /\ plan[p].at = "delete" /\ IsSpan(plan[p].span)
  /\ span' = [span EXCEPT ![plan[p].span] = Gone]
  /\ booked' = booked \ {plan[p].span}
  /\ Goes(p, Idle)

DeleteAvailability(p, i) ==
  /\ Begins(p, "delete")
  /\ IsSpan(i) /\ ~ IsSlot(i)
  /\ span' = [span EXCEPT ![i] = Gone]
  /\ UNCHANGED <<booked, plan>>

(* ScheduleService books and releases sessions. *)
Book == \E i \in Spans :
  /\ IsSlot(i)
  /\ booked' = IF i \in booked THEN booked \ {i} ELSE booked \cup {i}
  /\ UNCHANGED <<span, plan>>

CalAbort(p) ==
  /\ plan[p] # Idle
  /\ Goes(p, Idle)
  /\ UNCHANGED <<span, booked>>

(* What the two controllers call. *)

SlotStep(p) ==
  \/ \E day \in SlotDays, dto \in SpanDtos : CreateTimeSlot(p, day, dto)
  \/ \E i \in Spans, dto \in SpanUpdates : UpdateTimeSlot(p, i, dto)
  \/ \E i \in Spans : DeactivateTimeSlot(p, i) \/ ActivateTimeSlot(p, i) \/ CountSessions(p, i)

AvailabilityStep(p) ==
  \/ \E day \in Owners \ SlotDays, dto \in SpanDtos :
       CreateAvailability(p, day, dto) \/ CreateBulkAvailability(p, day, dto)
  \/ \E i \in Spans, dto \in SpanUpdates : UpdateAvailability(p, i, dto)
  \/ \E i \in Spans : DeleteAvailability(p, i)

CalStep(p) ==
  \/ SlotStep(p) \/ AvailabilityStep(p)
  \/ InsertSpan(p) \/ DeleteTimeSlot(p) \/ CalAbort(p)

CalNext == Book \/ \E p \in Planners : CalStep(p)

CalSpec == CalInit /\ [][CalNext]_calVars

-----------------------------------------------------------------------------
(* Two spans share a minute of their owner's day. *)
Overlap(a, b) ==
  /\ a.owner = b.owner
  /\ Clock[a.from] < Clock[b.to] /\ Clock[b.from] < Clock[a.to]

(* The texts of two spans are in the order of the clock: "9:00" comes after
   "10:00". *)
TextsAgree(a, b) ==
  \A t, u \in {a.from, a.to, b.from, b.to} : Before(t, u) <=> Clock[t] < Clock[u]

(* A slot or an availability that is created overlaps no active one of the same
   owner and weekday, by the clock: "Check for overlapping time slots on the same
   day", although the query is three alternatives on texts and a call away from
   the insert, and other spans are deleted and switched off beside it.  For texts
   in the order of the clock; and an availability for a date overlaps none for
   that date, while it may overlap one of every week. *)
NewSpansDisjoint ==
  [][\A i, j \in Spans :
       i # j /\ IsSpan(j) /\ span[j].active /\ (\E p \in Planners :
           plan[p].at = "insert" /\ plan'[p] = Idle /\ span[i] = Unused /\ span'[i] = plan[p].row)
         => \/ span'[i].date \notin {Blank, span[j].date}
            \/ ~ TextsAgree(span'[i], span[j])
            \/ ~ Overlap(span'[i], span[j])]_calVars
=============================================================================
