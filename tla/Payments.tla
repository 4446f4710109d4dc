----------------------------- MODULE Payments ------------------------------
(***************************************************************************)
(* PaymentOrchestratorService (src/backend/src/billing/services/           *)
(* payment-orchestrator.service.ts): the choice of a gateway by routing    *)
(* rules, load balancing, health checks and fallbacks, the one call to it, *)
(* and what the service keeps in memory: the rules, a performance count    *)
(* per gateway and a log of attempts.  The clients of the gateways         *)
(* (stripe, paytabs and paymob.service.ts): Stripe is called for all, the  *)
(* other two make a customer without a call and refuse subscriptions, and  *)
(* PayMob takes a token and makes two calls per payment.  No code          *)
(* registers a gateway and no code inserts a payment row; Registered       *)
(* stands for what a deployment adds.                                      *)
(***************************************************************************)
EXTENDS Requests, Integers, Sequences, FiniteSets, SequencesExt

CONSTANTS
  Gateways,       \* the three kinds of gateway
  Stripe, PayMob, \* two of them, named by the code
  Registered,     \* gateways that are registered and enabled
  InitialRules,   \* the sequence of rules loaded at the start
  RuleEdits,      \* rules an administrator may create or put in place of one
  Contexts,       \* what payments are made for
  ApprovalLimit,  \* amounts above it need approval under some rules
  LogLimit,       \* attempts kept in memory
  Payments,       \* identifiers of requests
  MaxEdits        \* bound: changes of the rules

(* A rule restricts some attributes of the context; the candidates for load
   balancing are gateways, and so are the fallbacks, in order. *)
Attributes == {"currency", "country", "amount", "method", "tier", "segment"}

ASSUME PaymentAssumption ==
  /\ {Stripe, PayMob} \subseteq Gateways /\ Stripe # PayMob /\ Registered \subseteq Gateways
  /\ LogLimit \in Nat \ {0} /\ MaxEdits \in Nat /\ ApprovalLimit \in Nat
  /\ IsFiniteSet(Payments)

VARIABLES
  rules,      \* routingRules
  metrics,    \* metrics[g]: transactions counted as successes and as failures
  attempts,   \* paymentAttempts
  payment,    \* payment[p]: where request p is
  asked,      \* asked[p]: the gateways that were asked to take p (history)
  keyed,      \* payments for which PayMob issued a payment key
  token,      \* the token the PayMob client holds
  home,       \* the gateway stored with the user a customer was made for
  edits

payVars == <<rules, metrics, attempts, payment, asked, keyed, token, home, edits>>

memory == <<rules, metrics, attempts, edits, home>>

Ends == {"ok", "failed", "refused"}

Sent == {"intent", "customer", "subscription", "converted"}

Counts == [Gateways -> [ok : Nat, failed : Nat]]

LogEntry == [payment : Payments, gateway : Gateways, success : BOOLEAN, at : Nat]

PayTypeOK ==
  /\ metrics \in Counts
  /\ attempts \in Seq(LogEntry)
  /\ Len(attempts) <= LogLimit
  /\ \A p \in Payments :
       payment[p].at \in {"idle", "rule", "probe", "ask", "answer", "key", "log", "store"} \cup Ends
  /\ asked \in [Payments -> Seq(Registered)]
  /\ keyed \subseteq Payments
  /\ token \in {"none", "valid", "expired"}
  /\ home \in Gateways \cup {Blank}
  /\ edits \in 0 .. MaxEdits

PayInit ==
  /\ rules = InitialRules
  /\ metrics = [g \in Gateways |-> [ok |-> 0, failed |-> 0]]
  /\ attempts = << >>
  /\ payment = [p \in Payments |-> Idle]
  /\ asked = [p \in Payments |-> << >>]
  /\ keyed = {}
  /\ token = "none"
  /\ home = Blank
  /\ edits = 0

Move(p, next) == payment' = [payment EXCEPT ![p] = next]
At(p, place)  == payment[p].at = place

Counted(m, g, success) ==
  IF success THEN [m EXCEPT ![g].ok = @ + 1] ELSE [m EXCEPT ![g].failed = @ + 1]

-----------------------------------------------------------------------------
(* selectGateway: the rules that match when the request comes in, in the order
   of the table; the selection goes on with these
   whatever becomes of the table. *)

(* An attribute the context leaves undefined, or an amount of 0, satisfies
   every condition but the one on the currency. *)
RuleMatches(rule, ctx) ==
  \A f \in DOMAIN rule.when :
    \/ ctx[f] \in rule.when[f]
    \/ f # "currency" /\ ctx[f] = Blank
    \/ f = "amount" /\ ctx[f] = 0

(* The table is sorted by priority already, so that the sort of the matching
   rules keeps their order. *)
Matching(ctx) ==
  LET applies(rule) == rule.enabled /\ RuleMatches(rule, ctx) IN SelectSeq(rules, applies)

Select(p, kind, ctx) ==
  /\ payment[p] = Idle
  /\ Move(p, IF Matching(ctx) = << >> THEN [at |-> "refused"]
             ELSE [at |-> "rule", kind |-> kind, amount |-> ctx.amount, queue |-> Matching(ctx)])
  /\ UNCHANGED <<memory, asked, keyed, token>>

NeedsApproval(p) ==
  LET rule == Head(payment[p].queue) IN
  rule.approval /\ payment[p].amount # Blank /\ payment[p].amount > ApprovalLimit

NextRule(p) ==
  IF Tail(payment[p].queue) = << >> THEN [at |-> "refused"]
  ELSE [payment[p] EXCEPT !.queue = Tail(@)]

(* Outside the hours of a rule, or above the amount that needs approval. *)
SkipRule(p) ==
  /\ At(p, "rule")
  /\ Head(payment[p].queue).hours \/ NeedsApproval(p)
  /\ Move(p, NextRule(p))
  /\ UNCHANGED <<memory, asked, keyed, token>>

(* applyLoadBalancing draws the primary; the fallbacks follow it. *)
TakeRule(p) ==
  LET rule == Head(payment[p].queue) IN
  /\ At(p, "rule") /\ ~ NeedsApproval(p)
  /\ \E g \in {rule.gateway} \cup rule.balance :
       Move(p, [at |-> "probe", kind |-> payment[p].kind, amount |-> payment[p].amount,
                queue |-> payment[p].queue, primary |-> g, rest |-> <<g>> \o rule.fallbacks])
  /\ UNCHANGED <<memory, asked, keyed, token>>

(* Mutant: a fallback that is taken is counted for the primary. *)
CreditPrimary(p, g) ==
  LET m == Counted(metrics, payment[p].primary, TRUE) IN
  IF g = payment[p].primary THEN m ELSE Counted(m, payment[p].primary, FALSE)

(* The counts after g was found healthy. *)
Credit(p, g) ==
  LET m == Counted(metrics, g, TRUE) IN
  IF Len(payment[p].rest) = Len(Head(payment[p].queue).fallbacks) + 1
  THEN m ELSE Counted(m, payment[p].primary, FALSE)

ProbeHealthy(p) ==
  /\ At(p, "probe") /\ payment[p].rest # << >>
  /\ LET g == Head(payment[p].rest) IN
       /\ g \in Registered
       /\ metrics' = Credit(p, g)
       /\ token' = IF g = PayMob THEN "valid" ELSE token
       /\ Move(p, [at |-> "ask", kind |-> payment[p].kind, gateway |-> g])
  /\ UNCHANGED <<rules, attempts, edits, asked, keyed, home>>

(* Unregistered, disabled, or not healthy. *)
ProbeFails(p) ==
  /\ At(p, "probe") /\ payment[p].rest # << >>
  /\ Move(p, [payment[p] EXCEPT !.rest = Tail(@)])
  /\ UNCHANGED <<memory, asked, keyed, token>>

RuleExhausted(p) ==
  /\ At(p, "probe") /\ payment[p].rest = << >>
  /\ metrics' = Counted(metrics, payment[p].primary, FALSE)
  /\ Move(p, IF Tail(payment[p].queue) = << >> THEN [at |-> "refused"]
             ELSE [at |-> "rule", kind |-> payment[p].kind, amount |-> payment[p].amount,
                   queue |-> Tail(payment[p].queue)])
  /\ UNCHANGED <<rules, attempts, edits, asked, keyed, token, home>>

-----------------------------------------------------------------------------
(* The call to the gateway that was selected.  An answer may be an error, or be
   lost after the payment was taken. *)

Pays(p) == payment[p].kind \in {"intent", "converted"}

(* What follows the answer of a gateway. *)
After(p, success) ==
  IF payment[p].kind = "intent"
  THEN [at |-> "log", gateway |-> payment[p].gateway, success |-> success]
  ELSE IF payment[p].kind = "customer" /\ success
       THEN [at |-> "store", gateway |-> payment[p].gateway]
       ELSE [at |-> IF success THEN "ok" ELSE "failed"]

Asks(p, next) ==
  /\ At(p, "ask")
  /\ asked' = [asked EXCEPT ![p] = Append(@, payment[p].gateway)]
  /\ Move(p, next)
  /\ UNCHANGED <<memory, keyed, token>>

Waits(p, place) == [payment[p] EXCEPT !.at = place]

(* A customer is a reference made up by the client, a subscription an error. *)
Unasked(p) == After(p, payment[p].kind = "customer")

AskStripe(p) ==
  payment[p].at = "ask" /\ payment[p].gateway = Stripe /\ Asks(p, Waits(p, "answer"))

AskPayTabs(p) ==
  /\ payment[p].at = "ask" /\ payment[p].gateway \notin {Stripe, PayMob}
  /\ Asks(p, IF Pays(p) THEN Waits(p, "answer") ELSE Unasked(p))

(* An order, then a key with the token at hand. *)
AskPayMob(p) ==
  /\ payment[p].at = "ask" /\ payment[p].gateway = PayMob
  /\ Asks(p, IF Pays(p) THEN Waits(p, "key") ELSE Unasked(p))

IssueKey(p) ==
  /\ At(p, "key") /\ token = "valid"
  /\ keyed' = keyed \cup {p}
  /\ Move(p, [payment[p] EXCEPT !.at = "answer"])
  /\ UNCHANGED <<memory, asked, token>>

(* Mutant: the order alone is taken for a success. *)
AnswerOnOrder(p, success) ==
  /\ At(p, "answer") \/ At(p, "key")
  /\ Move(p, After(p, success))
  /\ UNCHANGED <<memory, asked, keyed, token>>

AnswerIntent(p, success) ==
  /\ At(p, "answer") \/ (At(p, "key") /\ ~ success)
  /\ Move(p, After(p, success))
  /\ UNCHANGED <<memory, asked, keyed, token>>

(* storeCustomerGatewayMapping, which swallows a database error; the mapping of
   a subscription is stored with rows no code ever writes the key of. *)
StoreMapping(p) ==
  /\ At(p, "store")
  /\ \E g \in {home, payment[p].gateway} : home' = g
  /\ Move(p, [at |-> "ok"])
  /\ UNCHANGED <<rules, metrics, attempts, edits, asked, keyed, token>>

(* What one attempt adds to the log; the place among the answers is its time. *)
Entry(p) ==
  [payment |-> p, gateway |-> payment[p].gateway, success |-> payment[p].success,
   at |-> Cardinality({q \in Payments : payment[q].at \in {"ok", "failed"}})]

Logged(p) == Move(p, [at |-> IF payment[p].success THEN "ok" ELSE "failed"])

(* Mutant: the log is cut before the entry is added. *)
LogPaymentAttemptLate(p) ==
  /\ At(p, "log")
  /\ attempts' = Append(IF Len(attempts) > LogLimit THEN Tail(attempts) ELSE attempts, Entry(p))
  /\ Logged(p)
  /\ UNCHANGED <<rules, metrics, edits, asked, keyed, token, home>>

(* logPaymentAttempt: the log keeps the end of the array. *)
LogPaymentAttempt(p) ==
  /\ At(p, "log")
  /\ LET full == Append(attempts, Entry(p))
     IN  attempts' = IF Len(full) > LogLimit THEN Tail(full) ELSE full
  /\ Logged(p)
  /\ UNCHANGED <<rules, metrics, edits, asked, keyed, token, home>>

(* getPaymentAttemptLogs without a tenant sorts the array itself, newest first.
   No two of its entries are equal. *)
ReadAttempts ==
  /\ \E log \in [DOMAIN attempts -> ToSet(attempts)] :
       /\ ToSet(log) = ToSet(attempts)
       /\ \A i, j \in DOMAIN log : i < j => log[i].at >= log[j].at
       /\ attempts' = log
  /\ UNCHANGED <<rules, metrics, edits, payment, asked, keyed, token, home>>

ExpireToken ==
  /\ token = "valid"
  /\ token' = "expired"
  /\ UNCHANGED <<memory, payment, asked, keyed>>

-----------------------------------------------------------------------------
(* The table of rules is kept sorted by priority. *)

Sorted(table) ==
  LET before(i, j) == \/ table[i].priority < table[j].priority
                      \/ table[i].priority = table[j].priority /\ i < j
      order == SetToSortSeq(DOMAIN table, before)
  IN  [k \in DOMAIN table |-> table[order[k]]]

Edit(table) ==
  /\ edits < MaxEdits
  /\ rules' = table /\ edits' = edits + 1
  /\ UNCHANGED <<metrics, attempts, payment, asked, keyed, token, home>>

CreateRoutingRule == \E r \in RuleEdits : Edit(Sorted(Append(rules, r)))

UpdateRoutingRule ==
  \E i \in DOMAIN rules, r \in RuleEdits : Edit(Sorted([rules EXCEPT ![i] = r]))

DeleteRoutingRule ==
  \E i \in DOMAIN rules : Edit(RemoveAt(rules, i))

PayStep(p) ==
  \/ \E kind \in Sent, ctx \in Contexts : Select(p, kind, ctx)
  \/ SkipRule(p)
  \/ TakeRule(p)
  \/ ProbeHealthy(p)
  \/ ProbeFails(p)
  \/ RuleExhausted(p)
  \/ AskStripe(p) \/ AskPayTabs(p) \/ AskPayMob(p)
  \/ IssueKey(p)
  \/ \E success \in BOOLEAN : AnswerIntent(p, success)
  \/ LogPaymentAttempt(p)
  \/ StoreMapping(p)

PayNext ==
  \/ \E p \in Payments : PayStep(p)
  \/ ReadAttempts
  \/ ExpireToken
  \/ CreateRoutingRule
  \/ UpdateRoutingRule
  \/ DeleteRoutingRule

PaySpec == PayInit /\ [][PayNext]_payVars

-----------------------------------------------------------------------------
(* Every success counted for a gateway is a payment it was asked for or is about
   to be: also when it is a fallback, when another rule was tried before, and
   when the rules were edited during the selection. *)
SelectionsCredited ==
  \A g \in Gateways :
    metrics[g].ok =
      Cardinality({p \in Payments :
        \/ g \in {asked[p][i] : i \in DOMAIN asked[p]}
        \/ At(p, "ask") /\ payment[p].gateway = g})

(* What the log tells of an attempt is true: it names the one gateway that was
   asked, and asked once, since a fallback stands in for a gateway that is not
   healthy before the call and never for one whose answer was an error or was
   lost; and a success at PayMob has a key and not only an order. *)
AttemptsTruthful ==
  \A i \in DOMAIN attempts :
    LET e == attempts[i] IN
    /\ asked[e.payment] = <<e.gateway>>
    /\ e.success /\ e.gateway = PayMob => e.payment \in keyed
    /\ e.success <=> payment[e.payment].at = "ok"
=============================================================================
