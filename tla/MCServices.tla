----------------------------- MODULE MCServices -----------------------------
(***************************************************************************)
(* Model-checking instances of the services that share no state with the   *)
(* timetable or with each other: each behaviour moves one of them, the     *)
(* focus, so that one run checks the eight side by side.                   *)
(***************************************************************************)
EXTENDS Subscriptions, Payments, Pricing, Resources, Calendar, Accounts, Constraints,
  NotificationPreferences, TLC

CONSTANTS
  school1, agent1, agent2, planner1, planner2, clerk1, clerk2, monday, tuesday, teacherDay, date1,
  writer1, writer2,
  Focuses   \* the services a run moves

VARIABLE focus

-----------------------------------------------------------------------------
(* Subscriptions: one agent updates, cancels and runs the jobs, another creates
   and changes plans beside it. *)
MCDuties == agent1 :> {"update", "cancel", "renewals", "trials"} @@ agent2 :> {"create", "changePlan"}
MCLength == "MONTHLY" :> 2 @@ "YEARLY" :> 3
MCTrialDays == "basic" :> 2 @@ "pro" :> 1
MCSubUpdates == {[plan |-> Blank, cycle |-> "YEARLY", flag |-> TRUE]}
MCSubscribeDtos == {[school |-> school1, plan |-> p, cycle |-> "MONTHLY", trial |-> TRUE] : p \in Plans}

(* Payments: a rule for the hours of a day and amounts that need no approval, and
   one with load balancing for a segment of customers; a rule may take over
   either's place. *)
Rule(priority, when, gateway, fallbacks, balance, hours, approval) ==
  [priority |-> priority, enabled |-> TRUE, when |-> when, gateway |-> gateway,
   fallbacks |-> fallbacks, balance |-> balance, hours |-> hours, approval |-> approval]
MCRules ==
  <<Rule(0, [amount |-> {1, 2}], "STRIPE", <<"PAYTABS">>, {}, TRUE, TRUE),
    Rule(2, [segment |-> {"VIP"}], "PAYMOB", <<"STRIPE">>, {"STRIPE"}, FALSE, FALSE)>>
MCRuleEdits == {Rule(1, [currency |-> {"EGP"}], "PAYTABS", <<"PAYMOB">>, {}, FALSE, FALSE)}
Context(currency, amount, tier, segment) ==
  [currency |-> currency, amount |-> amount, tier |-> tier, segment |-> segment,
   country |-> Blank, method |-> Blank]
MCContexts == {Context("USD", 2, "Enterprise", Blank), Context("EGP", 1, Blank, "VIP")}

(* Prices: orders around the thresholds of the taxes and the limits of the fee. *)
Order(amount, from, to, region) == [amount |-> amount, from |-> from, to |-> to, region |-> region]
MCOrders ==
  {Order(a, "USD", t[1], t[2]) : a \in {999, 7999, 10000, 19999},
                                 t \in {<<"EUR", "EU">>, <<"SAR", "SA">>, <<"USD", "US">>}}
  \cup {Order(a, "EGP", t[1], t[2]) : a \in {9999, 50000}, t \in {<<"USD", "AU">>, <<"EUR", Blank>>}}
MCFeatures ==
  {[extra_storage |-> 7, sso_provider |-> 1],
   [custom_fields_pack |-> 3, audit_logs |-> 1, advanced_analytics |-> 1],
   [audit_logs |-> 1, advanced_analytics |-> 0],
   [backup_retention |-> 33, api_boost |-> 1, white_labeling |-> 0],
   [unlimited_users |-> 1, premium_integrations |-> 1, priority_support |-> 1]}
MCTiers == {[features |-> f, currency |-> c, region |-> r] : f \in MCFeatures,
              c \in {"USD", "EUR", "GBP", "SAR", "AED", "EGP", "CAD"}, r \in {Blank, "EG", "SA", "US"}}
MCUsages == {[schools |-> s, users |-> u, students |-> 500, apiCalls |-> 999, storage |-> g] :
               s \in {1, 4}, u \in {50, 51, 200}, g \in {5, 6}}

(* Resources: one row of each kind. *)
MCKindOf == "tn" :> "tenant" @@ "sc" :> "school" @@ "cl" :> "class" @@ "su" :> "subject"
            @@ "ro" :> "room"
MCOffices == clerk1 :> {"create", "remove", "assign", "enroll"}
             @@ clerk2 :> {"update", "unassign", "status", "dismiss"}

(* Calendar: the times of a slot that covers another, meets it or is apart, and a
   time of one digit. *)
MCTextOrder == "08:00" :> 0 @@ "10:00" :> 1 @@ "11:00" :> 2 @@ "12:00" :> 3 @@ "9:00" :> 4
MCClock == "08:00" :> 480 @@ "9:00" :> 540 @@ "10:00" :> 600 @@ "11:00" :> 660 @@ "12:00" :> 720
NewTimes(date, from, to) == [date |-> date, from |-> from, to |-> to]
MCSpanDtos ==
  {NewTimes(Blank, "08:00", "11:00"), NewTimes(Blank, "10:00", "12:00"), NewTimes(Blank, "08:00", "12:00"),
   NewTimes(Blank, "10:00", "11:00"), NewTimes(Blank, "9:00", "10:00"), NewTimes(date1, "10:00", "11:00"),
   NewTimes(date1, "08:00", "12:00"), NewTimes(Blank, "12:00", "11:00")}
Retimed(day, from, to, active) == [day |-> day, from |-> from, to |-> to, active |-> active]
MCSpanUpdates ==
  {Retimed(Blank, "10:00", Blank, Blank), Retimed(tuesday, Blank, "12:00", Blank),
   Retimed(Blank, "9:00", "11:00", Blank), Retimed(Blank, Blank, Blank, FALSE),
   Retimed(Blank, Blank, Blank, TRUE)}
MCTasks == planner1 :> {"create", "bulk", "update", "activate"} @@ planner2 :> {"deactivate", "delete"}

(* Accounts: a password set by an administrator, a user switched off and on. *)
MCUserDtos ==
  {[email |-> "e", role |-> Blank, password |-> TRUE, active |-> Blank],
   [email |-> Blank, role |-> "TEACHER", password |-> FALSE, active |-> FALSE],
   [email |-> Blank, role |-> Blank, password |-> FALSE, active |-> TRUE]}

(* Constraints: sessions that share a teacher, a room, a class or a slot. *)
Lesson(t, r, c, u, s, d) ==
  [teacher |-> t, room |-> r, class |-> c, subject |-> u, slot |-> s, date |-> d, live |-> TRUE]
MCLessons ==
  {Lesson("t1", "r1", "c1", "u1", "s1", 1), Lesson("t2", "r1", "c2", "u2", "s1", 1),
   Lesson("t1", "r2", "c2", "u1", "s2", 1), Lesson("t1", "r1", "c1", "u1", "s3", 1),
   Lesson("t2", "r1", "c1", "u1", "s1", 2), Lesson("t1", "r2", "c1", "u1", "s9", 2)}
MCSlotOf == "s1" :> [order |-> 1, hour |-> 8, active |-> TRUE]
            @@ "s2" :> [order |-> 2, hour |-> 10, active |-> FALSE]
            @@ "s3" :> [order |-> 3, hour |-> 18, active |-> TRUE]
MCRoomOf == "r1" :> [capacity |-> 30, type |-> "LAB"] @@ "r2" :> [capacity |-> 20, type |-> "HALL"]
MCEnrolled == "c1" :> 25 @@ "c2" :> 20
MCPreferences ==
  {[type |-> "TEACHER_PREFERENCE", entity |-> "t1", weight |-> 2, avoid |-> {"s1"}, prefer |-> {"s3"}],
   [type |-> "SUBJECT_PREFERENCE", entity |-> "u1", weight |-> 1, avoid |-> {"s2"}, prefer |-> {"s1"}],
   [type |-> "ROOM_PREFERENCE", weight |-> 1, avoid |-> {"HALL"}, prefer |-> {}],
   [type |-> "TIME_PREFERENCE", weight |-> 1, avoid |-> {18}],
   [type |-> "WORKLOAD_DISTRIBUTION", weight |-> 1, max |-> 2, min |-> 1, target |-> 1],
   [type |-> "CONSECUTIVE_PERIODS", weight |-> 1, subject |-> 2, teacher |-> 1]}

(* Notification preferences: a type with and without a template, quiet hours over
   midnight and by day; one writer saves, another changes rows beside it. *)
Wish(enabled, channels, quiet, zone) ==
  [enabled |-> enabled, channels |-> channels, quiet |-> quiet, zone |-> zone]
MCSaveDtos ==
  {[key |-> <<"SMS", Blank>>, set |-> Wish(TRUE, {"sms", "push"}, <<1320, 420>>, "home")],
   [key |-> <<"SMS", "invoice">>, set |-> Wish(FALSE, {"sms"}, Blank, Blank)],
   [key |-> <<"EMAIL", Blank>>, set |-> Wish(TRUE, {"email"}, <<780, 840>>, "nowhere")]}
MCEditDtos ==
  {Wish(TRUE, Blank, <<780, 840>>, "home"), Wish(FALSE, {"email"}, Blank, Blank)}
MCWrites == writer1 :> {"save", "bulk", "reset"} @@ writer2 :> {"update", "delete"}

-----------------------------------------------------------------------------
(* Identifiers of rows and of requests are interchangeable. *)
Identifiers == Permutations(Subs) \cup Permutations(Payments)

ServicesInit ==
  /\ focus \in Focuses
  /\ SubInit /\ PayInit /\ PriceInit /\ ResInit /\ CalInit /\ AccInit /\ ConInit /\ PrefInit
  /\ focus # "constraints" => ~ bare /\ ~ fetched

ServicesNext ==
  /\ UNCHANGED focus
  /\ \/ /\ focus = "subscriptions" /\ SubNext
        /\ UNCHANGED <<payVars, priceVars, resVars, calVars, accVars, conVars, prefVars>>
     \/ /\ focus = "payments" /\ PayNext
        /\ UNCHANGED <<subVars, priceVars, resVars, calVars, accVars, conVars, prefVars>>
     \/ /\ focus = "pricing" /\ PriceNext
        /\ UNCHANGED <<subVars, payVars, resVars, calVars, accVars, conVars, prefVars>>
     \/ /\ focus = "resources" /\ ResNext
        /\ UNCHANGED <<subVars, payVars, priceVars, calVars, accVars, conVars, prefVars>>
     \/ /\ focus = "calendar" /\ CalNext
        /\ UNCHANGED <<subVars, payVars, priceVars, resVars, accVars, conVars, prefVars>>
     \/ /\ focus = "accounts" /\ AccNext
        /\ UNCHANGED <<subVars, payVars, priceVars, resVars, calVars, conVars, prefVars>>
     \/ /\ focus = "constraints" /\ ConNext
        /\ UNCHANGED <<subVars, payVars, priceVars, resVars, calVars, accVars, prefVars>>
     \/ /\ focus = "preferences" /\ PrefNext
        /\ UNCHANGED <<subVars, payVars, priceVars, resVars, calVars, accVars, conVars>>

ServicesSpec ==
  ServicesInit /\ [][ServicesNext]_<<focus, subVars, payVars, priceVars, resVars, calVars, accVars,
                                     conVars, prefVars>>

(* The types of all eight. *)
ServicesTypeOK ==
  SubTypeOK /\ PayTypeOK /\ PriceTypeOK /\ ResTypeOK /\ CalTypeOK /\ AccTypeOK /\ ConTypeOK
  /\ PrefTypeOK
=============================================================================
