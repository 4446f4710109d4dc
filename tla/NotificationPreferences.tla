---------------------- MODULE NotificationPreferences -----------------------
(***************************************************************************)
(* NotificationPreferenceService (src/backend/src/notifications/services/  *)
(* notification-preference.service.ts): what one user wants to be told of, *)
(* by type of notification and by template, through which channels and at  *)
(* which hours, and the answer to whether a notification may be sent.      *)
(***************************************************************************)
EXTENDS Requests, Integers, Sequences

CONSTANTS
  WishRows,     \* identifiers of rows
  Templates,   \* templates a preference may be for
  Channels,    \* the channels the service knows
  Zones,       \* names of time zones
  KnownZones,  \* those that Node knows
  Minutes,     \* minutes of the user's day at which the service is asked
  SaveDtos,    \* bodies of createOrUpdatePreference, with a type and a template
  EditDtos,    \* bodies of updatePreference
  Writers,     \* the requests that can interleave
  Writes,      \* Writes[w]: the methods writer w may execute
  MaxWrites    \* bound: requests

PrefMethods == {"save", "bulk", "reset", "update", "delete"}

(* The methods that search for a row and then insert one. *)
Saving == {"save", "bulk", "reset"}

Day == 1440

Types == {"EMAIL", "SMS", "PUSH", "WEBSOCKET", "IN_APP"}
Keys  == Types \X (Templates \cup {Blank})

Hours == (0 .. Day - 1) \X (0 .. Day - 1)

Settings ==
  [enabled : BOOLEAN, channels : SUBSET Channels, quiet : Hours \cup {Blank},
   zone : Zones \cup {Blank}]

(* An update leaves blank what it does not change. *)
Edits ==
  [enabled : BOOLEAN \cup {Blank}, channels : (SUBSET Channels) \cup {Blank},
   quiet : Hours \cup {Blank}, zone : Zones \cup {Blank}]

Wishes == [key : Keys, set : Settings]

ASSUME PreferenceAssumption ==
  /\ Writes \in [Writers -> SUBSET PrefMethods]
  /\ KnownZones \subseteq Zones /\ Minutes \subseteq 0 .. Day - 1
  /\ {"email", "sms", "push", "websocket", "in_app"} \subseteq Channels
  /\ SaveDtos \subseteq Wishes /\ EditDtos \subseteq Edits
  /\ Blank \notin Templates \cup Zones \cup Hours \cup WishRows \cup Settings
  /\ Absent \cap Wishes = {}
  /\ MaxWrites \in Nat

VARIABLES
  choice,   \* choice[i]: the row of preference i
  writer,   \* writer[w]: what the request of writer w does next
  wanted,   \* wanted[k]: what was last written for key k, Blank for nothing (history)
  writes    \* bound: requests so far

prefVars == <<choice, writer, wanted, writes>>

Merged(row, dto) ==
  [enabled  |-> Kept(dto.enabled, row.enabled), channels |-> Kept(dto.channels, row.channels),
   quiet |-> Kept(dto.quiet, row.quiet), zone |-> Kept(dto.zone, row.zone)]

(* A channel a type has of its own; the settings of resetToDefaults. *)
OwnChannel == [EMAIL |-> "email", SMS |-> "sms", PUSH |-> "push", WEBSOCKET |-> "websocket",
               IN_APP |-> "in_app"]

DefaultFor(type) ==
  [enabled |-> type # "SMS", channels |-> {OwnChannel[type]}, quiet |-> Blank, zone |-> Blank]

Defaults ==
  [n \in 1 .. 5 |->
     LET type == <<"EMAIL", "SMS", "PUSH", "WEBSOCKET", "IN_APP">>[n]
     IN  [key |-> <<type, Blank>>, set |-> DefaultFor(type)]]

Here(i) == choice[i] \notin Absent

(* What a request knows between two calls. *)
Errand ==
  [at : {"find"}, items : Seq(Wishes) \ {<< >>}, how : Saving]
  \cup [at : {"save"}, row : WishRows \cup {Blank}, items : Seq(Wishes) \ {<< >>},
        how : Saving]
  \cup [at : {"update"}, row : WishRows, set : Edits]
  \cup [at : {"delete"}, row : WishRows]

PrefTypeOK ==
  /\ choice \in [WishRows -> Wishes \cup Absent]
  /\ writer \in [Writers -> Errand \cup {Idle}]
  /\ wanted \in [Keys -> Settings \cup {Blank}]
  /\ writes \in 0 .. MaxWrites

PrefInit ==
  /\ choice = [i \in WishRows |-> Unused]
  /\ writer = [w \in Writers |-> Idle]
  /\ wanted = [k \in Keys |-> Blank]
  /\ writes = 0

Opens(w, method) ==
  /\ writer[w] = Idle /\ method \in Writes[w]
  /\ writes < MaxWrites /\ writes' = writes + 1

Proceed(w, next) == writer' = [writer EXCEPT ![w] = next]

-----------------------------------------------------------------------------
(* Mutant: a type without a template is looked up with any template. *)
FoundAny(key) ==
  {i \in WishRows : Here(i) /\ choice[i].key[1] = key[1] /\ key[2] \in {Blank, choice[i].key[2]}}

(* findFirst with the type and the template, null where none is given. *)
Found(key) == {i \in WishRows : Here(i) /\ choice[i].key = key}

(* createOrUpdatePreference: the search, then an update of the row it found or
   an insert.  items are what bulk and reset go on with; each stands for a
   validated request. *)
Search(w, items, how) == [at |-> "find", items |-> items, how |-> how]

Save(w, dto) ==
  /\ Opens(w, "save")
  /\ Proceed(w, Search(w, <<dto>>, "save"))
  /\ UNCHANGED <<choice, wanted>>

(* bulkUpdatePreferences: one after the other, with neither hours nor zone. *)
Plain(dto) == [dto EXCEPT !.set = [@ EXCEPT !.quiet = Blank, !.zone = Blank]]

BulkUpdate(w, first, second) ==
  /\ Opens(w, "bulk")
  /\ Proceed(w, Search(w, <<Plain(first), Plain(second)>>, "bulk"))
  /\ UNCHANGED <<choice, wanted>>

(* resetToDefaults: all rows are deleted, then the defaults saved one by one. *)
Reset(w) ==
  /\ Opens(w, "reset")
  /\ choice' = [i \in WishRows |-> IF Here(i) THEN Gone ELSE choice[i]]
  /\ wanted' = [k \in Keys |-> Blank]
  /\ Proceed(w, Search(w, Defaults, "reset"))

Find(w) ==
  /\ writer[w].at = "find"
  /\ LET found == Found(Head(writer[w].items).key) IN
     \E i \in (IF found = {} THEN {Blank} ELSE found) :
       Proceed(w, [at |-> "save", row |-> i, items |-> writer[w].items, how |-> writer[w].how])
  /\ UNCHANGED <<choice, wanted, writes>>

(* The next item, if there is one. *)
Onward(w) ==
  Proceed(w, IF Len(writer[w].items) = 1 THEN Idle
             ELSE Search(w, Tail(writer[w].items), writer[w].how))

Written(key, dto) ==
  wanted' = [wanted EXCEPT ![key] = IF @ = Blank THEN dto ELSE Merged(@, dto)]

SaveFound(w) ==
  LET i == writer[w].row  dto == Head(writer[w].items) IN
  /\ writer[w].at = "save" /\ i # Blank /\ Here(i)
  /\ choice' = [choice EXCEPT ![i].set = Merged(@, dto.set)]
  /\ Written(dto.key, dto.set)
  /\ Onward(w)
  /\ UNCHANGED writes

(* The database refuses a second row for a template, not one for none. *)
SaveNew(w) ==
  LET dto == Head(writer[w].items) IN
  /\ writer[w].at = "save" /\ writer[w].row = Blank
  /\ dto.key[2] # Blank => Found(dto.key) = {}
  /\ \E i \in WishRows : choice[i] = Unused
  /\ choice' = [choice EXCEPT ![CHOOSE i \in WishRows : choice[i] = Unused] = dto]
  /\ Written(dto.key, dto.set)
  /\ Onward(w)
  /\ UNCHANGED writes

-----------------------------------------------------------------------------
(* updatePreference and deletePreference: by identifier, in two calls. *)

UpdateFind(w, i, dto) ==
  /\ Opens(w, "update") /\ Here(i)
  /\ Proceed(w, [at |-> "update", row |-> i, set |-> dto])
  /\ UNCHANGED <<choice, wanted>>

UpdatePreference(w) ==
  LET i == writer[w].row IN
  /\ writer[w].at = "update" /\ Here(i)
  /\ choice' = [choice EXCEPT ![i].set = Merged(@, writer[w].set)]
  /\ Written(choice[i].key, writer[w].set)
  /\ Proceed(w, Idle)
  /\ UNCHANGED writes

DeleteFind(w, i) ==
  /\ Opens(w, "delete") /\ Here(i)
  /\ Proceed(w, [at |-> "delete", row |-> i])
  /\ UNCHANGED <<choice, wanted>>

DeletePreference(w) ==
  LET i == writer[w].row IN
  /\ writer[w].at = "delete" /\ Here(i)
  /\ choice' = [choice EXCEPT ![i] = Gone]
  /\ wanted' = [wanted EXCEPT ![choice[i].key] = Blank]
  /\ Proceed(w, Idle)
  /\ UNCHANGED writes

(* A write the database refuses, or a call that fails: the bulk goes on with the
   next item, every other request ends. *)
PrefFails(w) ==
  /\ writer[w] # Idle
  /\ IF writer[w].at \in {"find", "save"} /\ writer[w].how = "bulk"
     THEN Onward(w) ELSE Proceed(w, Idle)
  /\ UNCHANGED <<choice, wanted, writes>>

(* What the controller calls. *)
PreferenceStep(w) ==
  \/ Reset(w)
  \/ \E dto \in SaveDtos : Save(w, dto) \/ \E next \in SaveDtos : BulkUpdate(w, dto, next)
  \/ \E i \in WishRows : DeleteFind(w, i) \/ \E dto \in EditDtos : UpdateFind(w, i, dto)

PrefStep(w) ==
  \/ PreferenceStep(w)
  \/ Find(w) \/ SaveFound(w) \/ SaveNew(w)
  \/ UpdatePreference(w) \/ DeletePreference(w) \/ PrefFails(w)

PrefNext == \E w \in Writers : PrefStep(w)

PrefSpec == PrefInit /\ [][PrefNext]_prefVars

(* Saving is one lane, which the code does not enforce. *)
SavingSerialised ==
  \A v, w \in Writers :
    Writes[v] \cap Saving # {} /\ Writes[w] \cap Saving # {} => v = w

-----------------------------------------------------------------------------
(* isInQuietHours.  The clock of the user's zone is read from a text in which
   the hour after midnight is the 24th; a zone that is not known is never quiet. *)
Shown(minute) == IF minute < 60 THEN Day + minute ELSE minute

InQuietHours(quiet, zone, minute) ==
  /\ zone \in KnownZones
  /\ IF quiet[1] > quiet[2]
     THEN Shown(minute) >= quiet[1] \/ Shown(minute) <= quiet[2]
     ELSE Shown(minute) >= quiet[1] /\ Shown(minute) <= quiet[2]

Verdict(receive, channels) == [receive |-> receive, channels |-> channels]

(* shouldReceiveNotification for a type, with the rows its search may find; the
   channel is asked for where there is a row. *)
ShouldReceive(type, found, channel, minute) ==
  LET asleep(set) == set.quiet # Blank /\ InQuietHours(set.quiet, set.zone, minute)
      decide(set) == IF set.enabled
                     THEN Verdict(~ asleep(set) /\ channel \in set.channels, set.channels)
                     ELSE Verdict(FALSE, {})
  IN  IF found = {}
      THEN {Verdict(DefaultFor(type).enabled, DefaultFor(type).channels)}
      ELSE {decide(choice[i].set) : i \in found}

(* A minute of the time from the first of two minutes to the second, over
   midnight if the second is the earlier one. *)
During(quiet, minute) == (minute - quiet[1]) % Day <= (quiet[2] - quiet[1]) % Day

(* What was last written for a key, or the default of its type, decides. *)
Promise(key, channel, minute) ==
  LET w == wanted[key]  default == DefaultFor(key[1])
      quiet == w.quiet # Blank /\ w.zone \in KnownZones /\ During(w.quiet, minute)
  IN  IF w = Blank THEN Verdict(default.enabled, default.channels)
      ELSE Verdict(w.enabled /\ ~ quiet /\ channel \in w.channels,
                   IF w.enabled THEN w.channels ELSE {})

(* The types and templates with a row or something written: any other key has the
   default by definition. *)
KeysInUse ==
  LET kept == {choice[i].key : i \in {j \in WishRows : Here(j)}}
  IN  {key \in Keys : wanted[key] # Blank \/ key \in kept}

(* The answer for a type and a template follows what was last written for the two
   and nothing written for another template, nor a request that failed half way:
   settings that were written decide, and the defaults of the type before any or
   after a deletion.  Quiet hours hold from their start to their end around the
   clock, but for the hour after midnight. *)
AnswersAsWritten ==
  \A key \in KeysInUse :
    LET found == Found(key) IN
    \A channel \in Channels, minute \in Minutes : minute >= 60 =>
      ShouldReceive(key[1], found, channel, minute) = {Promise(key, channel, minute)}
=============================================================================
