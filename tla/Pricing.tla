------------------------------- MODULE Pricing -------------------------------
(***************************************************************************)
(* What the billing services compute in numbers                            *)
(* (src/backend/src/billing/services): conversion of currencies with a     *)
(* cache of rates, fees and taxes (currency-conversion.service.ts), quoted *)
(* and charged by payment-orchestrator.service.ts; prices and limits of    *)
(* custom tiers (tier-customization.service.ts); usage limits, overage and *)
(* invoices (billing.service.ts, invoice.service.ts).  Amounts are cents,  *)
(* rates are fractions <<numerator, denominator>>, and the rounding is     *)
(* Math.round; the error of binary fractions is left out.                  *)
(***************************************************************************)
EXTENDS Requests, Integers, FiniteSets

CONSTANTS
  Orders,       \* what is sold: amount, currencies from and to, region
  Variations,   \* percentages by which the provider's rate varies, 100 for none
  Tiers,        \* custom tiers that are asked for: features, currency, region or Blank
  Usages,       \* schools, users, students, API calls and storage of a tenant
  Terms         \* lengths of billing cycles in days

Rates == (Nat \ {0}) \X (Nat \ {0})

(* The currencies the conversion service knows. *)
Currencies ==
  {"USD", "EUR", "GBP", "SAR", "AED", "KWD", "QAR", "BHD", "EGP", "CAD", "AUD", "JPY"}

ASSUME PriceAssumption ==
  /\ Blank \notin Rates /\ Variations \subseteq Nat \ {0} /\ Terms \subseteq Nat
  /\ \A o \in Orders : o.amount \in Nat
  /\ \A t \in Tiers : /\ t.currency \in Currencies
                      /\ \A f \in DOMAIN t.features : t.features[f] \in Nat
  /\ Usages \subseteq [schools : Nat, users : Nat, students : Nat, apiCalls : Nat, storage : Nat]

VARIABLES
  cached,    \* exchangeRateCache: cached[pair] is a rate, Blank where there is none
  work,      \* the computation under way and its result
  deals      \* bound: computations started

priceVars == <<cached, work, deals>>

Round(n, d) == (2 * n + d) \div (2 * d)
Lower(a, b) == IF a < b THEN a ELSE b
Upper(a, b) == IF a < b THEN b ELSE a

-----------------------------------------------------------------------------
(* The rates of the configuration: a pair, else the reverse one upside down,
   else none. *)

FallbackRates ==
  [pair \in {<<"USD", "EUR">>, <<"USD", "GBP">>, <<"USD", "SAR">>, <<"USD", "AED">>,
             <<"USD", "EGP">>, <<"EUR", "USD">>, <<"GBP", "USD">>, <<"SAR", "USD">>,
             <<"AED", "USD">>, <<"EGP", "USD">>} |->
     CASE pair[2] = "EUR" -> <<85, 100>>
       [] pair[2] = "GBP" -> <<75, 100>>
       [] pair[2] = "SAR" -> <<375, 100>>
       [] pair[2] = "AED" -> <<367, 100>>
       [] pair[2] = "EGP" -> <<3085, 100>>
       [] pair[1] = "EUR" -> <<118, 100>>
       [] pair[1] = "GBP" -> <<133, 100>>
       [] pair[1] \in {"SAR", "AED"} -> <<27, 100>>
       [] OTHER -> <<32, 1000>>]

FallbackRate(from, to) ==
  IF <<from, to>> \in DOMAIN FallbackRates THEN FallbackRates[<<from, to>>]
  ELSE IF <<to, from>> \in DOMAIN FallbackRates
       THEN <<FallbackRates[<<to, from>>][2], FallbackRates[<<to, from>>][1]>>
       ELSE Blank

(* fetchExchangeRate: without a rate the manual provider answers 1, the others
   fail; the others vary the rate they have. *)
Fetched(from, to) ==
  LET rate == FallbackRate(from, to) IN
  IF rate = Blank THEN {<<1, 1>> : v \in Variations \cap {100}}
  ELSE {<<rate[1] * v, rate[2] * 100>> : v \in Variations}

Pairs == {<<o.from, o.to>> : o \in Orders}

(* A rate and whether the cache keeps it. *)
Quotation(rate, kept) == [rate |-> rate, kept |-> kept]

(* What a call to the provider gives; when it fails, the rate of the
   configuration, which is not kept. *)
Asked(pair) ==
  {Quotation(rate, TRUE) : rate \in Fetched(pair[1], pair[2])}
  \cup {Quotation(rate, FALSE) : rate \in {FallbackRate(pair[1], pair[2])} \ {Blank}}

(* Mutant: the rate is fetched every time. *)
ExchangeRatesFresh(pair) == Asked(pair)

(* getExchangeRate: the rate in the cache, else one that is asked for. *)
ExchangeRates(pair) ==
  IF cached[pair] # Blank THEN {Quotation(cached[pair], TRUE)} ELSE Asked(pair)

ConversionFee(amount) == Upper(10, Lower(Round(amount * 5, 1000), 1000))

TaxRate ==
  [EU |-> 20, GB |-> 20, SA |-> 15, AE |-> 5, EG |-> 14, CA |-> 13, AU |-> 10]

ExemptionThreshold ==
  [EU |-> 10000, GB |-> 8500, SA |-> 37500, AE |-> 18350, EG |-> 500000, CA |-> 3000, AU |-> 7500]

Exempt(amount, region) == region \notin DOMAIN TaxRate \/ amount < ExemptionThreshold[region]

Tax(amount, region) == IF Exempt(amount, region) THEN 0 ELSE Round(amount * TaxRate[region], 100)

(* convertCurrency: nothing happens to an amount in the currency asked for. *)
Converted(o, rate) == IF o.from = o.to THEN o.amount ELSE Round(o.amount * rate[1], rate[2])
FeeOf(o, rate) == IF o.from = o.to THEN 0 ELSE ConversionFee(Converted(o, rate))

(* calculateTotalCost *)
TotalCost(o, rate) ==
  Converted(o, rate) + FeeOf(o, rate) + Tax(Converted(o, rate), o.region)

(* createPaymentIntentWithConversion: the amount the gateway is asked for. *)
AmountCharged(o, rate) ==
  LET amount == Converted(o, rate) + FeeOf(o, rate) IN amount + Tax(amount, o.region)

MaxDeals == 2   \* bound: one computation after another

PriceInit ==
  /\ cached = [pair \in Pairs |-> Blank]
  /\ work = Idle
  /\ deals = 0

Keep(pair, q) ==
  cached' = IF pair[1] # pair[2] /\ q.kept THEN [cached EXCEPT ![pair] = q.rate] ELSE cached

QuoteCost(o) ==
  LET pair == <<o.from, o.to>> IN
  /\ deals < MaxDeals
  /\ \E q \in ExchangeRates(pair) :
       /\ Keep(pair, q)
       /\ work' = [at |-> "quoted", order |-> o, quote |-> TotalCost(o, q.rate), rate |-> q.rate,
                   held |-> q.kept]
  /\ deals' = deals + 1

ChargeConverted ==
  LET pair == <<work.order.from, work.order.to>> IN
  /\ work.at = "quoted"
  /\ \E q \in ExchangeRates(pair) :
       /\ Keep(pair, q)
       /\ work' = [at |-> "charged", order |-> work.order, quote |-> work.quote,
                   rate |-> work.rate, held |-> work.held,
                   charge |-> AmountCharged(work.order, q.rate)]
  /\ UNCHANGED deals

(* A quotation no longer holds when its rate leaves the cache. *)
Forget(pairs) ==
  /\ cached' = [pair \in DOMAIN cached |-> IF pair \in pairs THEN Blank ELSE cached[pair]]
  /\ work' = IF work.at = "quoted" /\ <<work.order.from, work.order.to>> \in pairs
             THEN [work EXCEPT !.held = FALSE] ELSE work
  /\ UNCHANGED deals

RateExpires(pair) == cached[pair] # Blank /\ Forget({pair})
ClearCache == Forget(Pairs)

-----------------------------------------------------------------------------
(* createCustomTier.  The value of a feature is a number, 1 for a switch that is
   on and for an option that is chosen. *)

FeaturePrice ==
  [unlimited_users |-> 2000, extra_storage |-> 500, priority_support |-> 1500,
   api_boost |-> 1000, custom_fields_pack |-> 800, advanced_analytics |-> 1200,
   white_labeling |-> 5000, premium_integrations |-> 2500, sso_provider |-> 3000,
   backup_retention |-> 500, audit_logs |-> 1800]

PerUnitPrice == [extra_storage |-> 100, custom_fields_pack |-> 50, backup_retention |-> 10]

(* The features that are given and switched on. *)
On(features) == {f \in DOMAIN features : features[f] # 0}

(* validateFeatureConfiguration: known features, and one that needs another. *)
ValidFeatures(features) ==
  /\ On(features) \subseteq DOMAIN FeaturePrice
  /\ "audit_logs" \in On(features) => "advanced_analytics" \in On(features)

RegionalMultiplier(currency) ==
  CASE currency = "EUR" -> 110 [] currency = "GBP" -> 115 [] currency = "SAR" -> 80
    [] currency = "AED" -> 85 [] currency = "EGP" -> 30 [] OTHER -> 100

(* calculatePricing: the sum over the features that are on. *)
PriceOf(features, f) ==
  IF f \notin On(features) THEN 0
  ELSE FeaturePrice[f]
       + (IF f \in DOMAIN PerUnitPrice THEN (features[f] - 1) * PerUnitPrice[f] ELSE 0)

MonthlyBase(features) ==
  LET price(f) == PriceOf(features, f) IN
  price("unlimited_users") + price("extra_storage") + price("priority_support")
    + price("api_boost") + price("custom_fields_pack") + price("advanced_analytics")
    + price("white_labeling") + price("premium_integrations") + price("sso_provider")
    + price("backup_retention") + price("audit_logs")

MonthlyPrice(features, currency) ==
  Round(MonthlyBase(features) * RegionalMultiplier(currency), 100)

YearlyPrice(features, currency) ==
  Round(Round(MonthlyBase(features) * 12 * 9, 10) * RegionalMultiplier(currency), 100)

RegionalCurrency == [US |-> "USD", EU |-> "EUR", MENA |-> "SAR", EG |-> "EGP"]

RegionalPricing(features) ==
  [region \in DOMAIN RegionalCurrency |-> MonthlyPrice(features, RegionalCurrency[region])]

TierLimits(features) ==
  LET value(f) == IF f \in DOMAIN features THEN features[f] ELSE 0 IN
  [users |-> IF value("unlimited_users") # 0 THEN -1 ELSE 10,
   storage |-> 5 + value("extra_storage"),
   apiCalls |-> IF value("api_boost") # 0 THEN 50000 ELSE 10000,
   customFields |-> IF value("custom_fields_pack") # 0 THEN value("custom_fields_pack") ELSE 10,
   integrations |-> IF value("premium_integrations") # 0 THEN 20 ELSE 3]

(* determineSupportedGateways: by the currency, and by the region whatever the
   currency. *)
SupportedGateways(currency, region) ==
  {"STRIPE"}
  \cup {g \in {"PAYTABS"} : \/ currency \in {"SAR", "AED", "KWD", "QAR", "BHD"}
                           \/ region \in {"SA", "AE", "KW", "QA", "BH"}}
  \cup {g \in {"PAYMOB"} : currency = "EGP" \/ region = "EG"}

(* getSupportedCurrencies of the conversion service: the gateways that take a
   currency. *)
GatewaySupport ==
  [currency \in Currencies |->
     {"STRIPE"}
     \cup (IF currency \in {"EGP", "CAD", "AUD", "JPY"} THEN {} ELSE {"PAYTABS"})
     \cup (IF currency \in {"USD", "EUR", "EGP"} THEN {"PAYMOB"} ELSE {})]

(* The currencies of the regions that have gateways of their own. *)
LocalCurrency ==
  [SA |-> "SAR", AE |-> "AED", KW |-> "KWD", QA |-> "QAR", BH |-> "BHD", EG |-> "EGP"]

(* The gateways that take a currency or the one of a region. *)
GatewaysFor(currency, region) ==
  GatewaySupport[currency]
  \cup UNION {GatewaySupport[LocalCurrency[r]] : r \in DOMAIN LocalCurrency \cap {region}}

CreateCustomTier(t) ==
  /\ deals < MaxDeals
  /\ ValidFeatures(t.features)
  /\ work' = [at |-> "tier", request |-> t,
              monthly |-> MonthlyPrice(t.features, t.currency),
              yearly |-> YearlyPrice(t.features, t.currency),
              regional |-> RegionalPricing(t.features), limits |-> TierLimits(t.features),
              gateways |-> SupportedGateways(t.currency, t.region)]
  /\ deals' = deals + 1
  /\ UNCHANGED cached

(* storeCustomTier; after an error of the database the tier is not kept. *)
StoreCustomTier ==
  /\ work.at = "tier"
  /\ work' = [work EXCEPT !.at = "stored"]
  /\ UNCHANGED <<cached, deals>>

-----------------------------------------------------------------------------
(* BillingService and generateInvoice.  A limit of -1 is no limit. *)

Offers ==
  [starter |-> [price |-> 2999,
     limits |-> [schools |-> 1, users |-> 50, students |-> 500, apiCalls |-> 10000, storage |-> 5]],
   professional |-> [price |-> 7999,
     limits |-> [schools |-> 3, users |-> 200, students |-> 2000, apiCalls |-> 50000, storage |-> 25]],
   enterprise |-> [price |-> 19999,
     limits |-> [schools |-> -1, users |-> -1, students |-> -1, apiCalls |-> -1, storage |-> -1]]]

Excess(offer, usage, what) ==
  LET limit == Offers[offer].limits[what] IN
  IF limit = -1 THEN 0 ELSE Upper(0, usage[what] - limit)

(* checkUsageLimits *)
WithinLimits(offer, usage) == \A what \in DOMAIN usage : Excess(offer, usage, what) = 0

(* Mutant: the last unit within a limit is charged as overage. *)
OverageAtLimit(offer, usage) ==
  LET over(what) == IF Offers[offer].limits[what] = -1 THEN 0
                    ELSE Upper(0, usage[what] + 1 - Offers[offer].limits[what])
  IN  1000 * over("schools") + 200 * over("users") + 500 * over("storage")

(* calculateBillingAmount: students and API calls are not charged for. *)
Overage(offer, usage) ==
  1000 * Excess(offer, usage, "schools") + 200 * Excess(offer, usage, "users")
    + 500 * Excess(offer, usage, "storage")

(* The line of the plan is not rounded: here it is in thirtieths of a cent. *)
PlanLine(offer, days) == Offers[offer].price * days

(* changePlan: accepted if the usage is within the limits of the new plan. *)
Accept(offer, usage) ==
  /\ deals < MaxDeals
  /\ WithinLimits(offer, usage)
  /\ work' = [at |-> "accepted", offer |-> offer, usage |-> usage]
  /\ deals' = deals + 1
  /\ UNCHANGED cached

ChangeToOffer(offer, usage) == Accept(offer, usage)

(* POST subscribe: the same check, then a customer and a subscription at Stripe,
   of which nothing is stored. *)
Subscribe(offer, usage) == Accept(offer, usage)

(* createBillingCycle and generateInvoice, each from the usage of its moment. *)
GenerateInvoice(offer, usage, days) ==
  /\ deals < MaxDeals \/ work.at = "accepted"
  /\ work' =
       LET line     == PlanLine(offer, days)
           subtotal == Round(line + 30 * Overage(offer, usage), 30)
           tax      == Round(subtotal * 85, 1000)
       IN  [at |-> "invoice", offer |-> offer, days |-> days, line |-> line,
            overage |-> Overage(offer, usage), subtotal |-> subtotal, total |-> subtotal + tax,
            settled |-> work.at = "accepted" /\ work.offer = offer /\ work.usage = usage]
  /\ deals' = Lower(deals + 1, MaxDeals)
  /\ UNCHANGED cached

PriceNext ==
  \/ \E o \in Orders : QuoteCost(o)
  \/ ChargeConverted
  \/ \E pair \in Pairs : RateExpires(pair)
  \/ ClearCache
  \/ \E t \in Tiers : CreateCustomTier(t)
  \/ StoreCustomTier
  \/ \E offer \in DOMAIN Offers, usage \in Usages :
       \/ ChangeToOffer(offer, usage) \/ Subscribe(offer, usage)
       \/ \E days \in Terms : GenerateInvoice(offer, usage, days)

PriceSpec == PriceInit /\ [][PriceNext]_priceVars

Work ==
  [at : {"quoted"}, order : Orders, quote : Int, rate : Rates, held : BOOLEAN]
  \cup [at : {"charged"}, order : Orders, quote : Int, rate : Rates, held : BOOLEAN, charge : Int]
  \cup [at : {"tier", "stored"}, request : Tiers, monthly : Int, yearly : Int,
        regional : [DOMAIN RegionalCurrency -> Int],
        limits : [users : Int, storage : Int, apiCalls : Int, customFields : Int, integrations : Int],
        gateways : SUBSET {"STRIPE", "PAYTABS", "PAYMOB"}]
  \cup [at : {"accepted"}, offer : DOMAIN Offers, usage : Usages]
  \cup [at : {"invoice"}, offer : DOMAIN Offers, days : Terms, line : Int, overage : Nat,
        subtotal : Int, total : Int, settled : BOOLEAN]

PriceTypeOK ==
  /\ cached \in [Pairs -> Rates \cup {Blank}]
  /\ work \in Work \cup {Idle}
  /\ deals \in 0 .. MaxDeals

-----------------------------------------------------------------------------
(* A payment that is quoted and then charged while its rate is valid costs what
   was quoted, and at most the tax on the conversion fee more (the quote taxes
   the amount before the fee, the charge after it), unless the fee lifts the
   amount over the threshold below which no tax is due. *)
QuoteHolds ==
  work.at = "charged" /\ work.held =>
    LET o == work.order  c == Converted(o, work.rate)  f == FeeOf(o, work.rate) IN
    (Exempt(c, o.region) <=> Exempt(c + f, o.region)) =>
      work.charge - work.quote \in 0 .. (Tax(c + f, o.region) - Tax(c, o.region))

(* The amounts a service tells twice agree: the subtotal of an invoice is the
   sum of its lines to half a cent; a change to a plan that was accepted is not
   followed by overage for the same usage; a year of a tier costs nine tenths of
   its twelve months but for rounding; its price in a currency is its price in
   the region of that currency; and a tier is only stored with gateways that take
   its currency or the one of the region it is asked for.  (A tier in Canadian
   dollars for Saudi Arabia does get PAYTABS, which does not take its currency.) *)
PricesAgree ==
  /\ work.at = "invoice" =>
       /\ work.line + 30 * work.overage - 30 * work.subtotal \in -15 .. 15
       /\ work.settled => work.overage = 0
  /\ work.at = "stored" =>
       /\ work.gateways \subseteq GatewaysFor(work.request.currency, work.request.region)
       /\ 10 * work.yearly - 108 * work.monthly \in -70 .. 70
       /\ \A region \in DOMAIN RegionalCurrency :
            RegionalCurrency[region] = work.request.currency => work.regional[region] = work.monthly
=============================================================================
