-------------------------------- MODULE Rates --------------------------------
(***************************************************************************)
(* Currency rates: one row per day of the provider, fetched by whoever     *)
(* asks for a day that has none.  What cannot be fetched or stored is      *)
(* answered from the newest row, and without any row from a made-up one.   *)
(* Each round trip is a step.  The base is always the provider's.          *)
(***************************************************************************)
EXTENDS Integers

CONSTANTS
    MaxDay,     \* bound: days that pass
    RateCalls   \* requests being handled at the same time

ASSUME RatesAssumption == MaxDay \in Nat \ {0}

VARIABLES
    today,         \* the day of the process
    providerDay,   \* the day of the provider's rates: today, or still before
    rateDays,      \* table currency_rate: the days that have a row
    rateCall       \* the handlers in progress, with what they answered

ratesVars == <<today, providerDay, rateDays, rateCall>>

RateDays == 1..MaxDay
MadeUp == 0        \* in place of a day: rates that no provider gave

\* `newest' is history: the newest row when the request began.
RateHandlers ==
    [pc : {"idle", "fetch", "save", "latest", "answered"},
     day : 0..MaxDay, fetched : 0..MaxDay, answer : 0..MaxDay,
     newest : 0..MaxDay]
IdleRate ==
    [pc |-> "idle", day |-> 0, fetched |-> 0, answer |-> 0, newest |-> 0]

RatesTypeOK ==
    /\ today \in RateDays
    /\ providerDay \in RateDays
    /\ rateDays \in SUBSET RateDays
    /\ rateCall \in [RateCalls -> RateHandlers]

RatesInit ==
    /\ today = 1 /\ providerDay = 1
    /\ rateDays = {}
    /\ rateCall = [h \in RateCalls |-> IdleRate]

-----------------------------------------------------------------------------
RateAt(h, pc) == rateCall[h].pc = pc
RateTo(h, c) == rateCall' = [rateCall EXCEPT ![h] = c]
RateAnswers(h, day) ==
    RateTo(h, [rateCall[h] EXCEPT !.pc = "answered", !.answer = day])

\* The newest row: MadeUp when there is none.
NewestRate ==
    CHOOSE d \in rateDays \cup {MadeUp} : \A e \in rateDays : e <= d

-----------------------------------------------------------------------------
\* At startup, at one in the morning, and whenever an amount is converted.
\* Without a provider's key the newest row is next.
GetRateForDate(h, key) ==
    LET c == [IdleRate EXCEPT !.day = today, !.newest = NewestRate] IN
    /\ rateCall[h].pc \in {"idle", "answered"}
    /\ RateTo(h, IF today \in rateDays
                 THEN [c EXCEPT !.pc = "answered", !.answer = today]
                 ELSE [c EXCEPT !.pc = IF key THEN "fetch" ELSE "latest"])
    /\ UNCHANGED <<today, providerDay, rateDays>>

FetchRates(h) ==
    /\ RateAt(h, "fetch")
    /\ RateTo(h, [rateCall[h] EXCEPT !.pc = "save", !.fetched = providerDay])
    /\ UNCHANGED <<today, providerDay, rateDays>>

\* No answer, an error of the provider, or of the database as rates are saved.
FetchFails(h) ==
    /\ RateAt(h, "fetch") \/ RateAt(h, "save")
    /\ RateTo(h, [rateCall[h] EXCEPT !.pc = "latest"])
    /\ UNCHANGED <<today, providerDay, rateDays>>

\* The rates are stored under the provider's day, which may have a row.
SaveRates(h) ==
    LET c == rateCall[h] IN
    /\ RateAt(h, "save")
    /\ rateDays' = rateDays \cup {c.fetched}
    /\ IF c.fetched \in rateDays THEN RateTo(h, [c EXCEPT !.pc = "latest"])
       ELSE RateAnswers(h, c.fetched)
    /\ UNCHANGED <<today, providerDay>>

\* MUTANT: any row will do.
AnyRate(h) ==
    /\ RateAt(h, "latest")
    /\ \E d \in IF rateDays = {} THEN {MadeUp} ELSE rateDays :
          RateAnswers(h, d)
    /\ UNCHANGED <<today, providerDay, rateDays>>

LatestRate(h) ==
    /\ RateAt(h, "latest")
    /\ RateAnswers(h, NewestRate)
    /\ UNCHANGED <<today, providerDay, rateDays>>

\* The database does not answer the last question either.
RateCallFails(h) ==
    /\ RateAt(h, "latest")
    /\ RateTo(h, IdleRate)
    /\ UNCHANGED <<today, providerDay, rateDays>>

\* The provider's rates become those of the new day some time later.
NextDay ==
    /\ today < MaxDay
    /\ today' = today + 1
    /\ UNCHANGED <<providerDay, rateDays, rateCall>>

ProviderUpdates ==
    /\ providerDay < today
    /\ providerDay' = today
    /\ UNCHANGED <<today, rateDays, rateCall>>

-----------------------------------------------------------------------------
RateStep(h) ==
    \/ \E key \in BOOLEAN : GetRateForDate(h, key)
    \/ FetchRates(h) \/ FetchFails(h) \/ SaveRates(h)
    \/ LatestRate(h) \/ RateCallFails(h)

RatesNext == (\E h \in RateCalls : RateStep(h)) \/ NextDay \/ ProviderUpdates

RatesSpec == RatesInit /\ [][RatesNext]_ratesVars

-----------------------------------------------------------------------------
(***************************************************************************)
(* Properties.                                                             *)
(***************************************************************************)

\* However requests overlap, midnight passes between their steps, or the
\* provider and the database fail, an amount is converted with the rates of
\* the day asked for, or with rates no older than the newest that were stored
\* when it was asked; made-up ones only when nothing was stored then.
RatesNeverGoBack ==
    \A h \in RateCalls :
        LET c == rateCall[h] IN
        RateAt(h, "answered") => c.answer = c.day \/ c.answer >= c.newest

=============================================================================
