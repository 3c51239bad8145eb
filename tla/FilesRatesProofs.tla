--------------------------- MODULE FilesRatesProofs ---------------------------
(***************************************************************************)
(* What Files and Rates guarantee for any number of files, days and        *)
(* requests: recorded files are stored, and where the settings say; and    *)
(* currency rates never go back.                                           *)
(***************************************************************************)
EXTENDS Files, Rates, TLAPS, WellFoundedInduction

NamedPCs == {"bucket", "put", "record"}

\* The object of a file is somewhere, or was deleted with one of its name.
Kept(f) ==
    \/ stored[file[f].path] # {}
    \/ \E g \in doomed : file[g].path = file[f].path
Placed(f) ==
    \/ file[f].wanted \in stored[file[f].path]
    \/ file[f].wanted = "any"
    \/ \E g \in doomed : file[g].path = file[f].path

Uploading(h) ==
    fileCall[h].op \in {"upload", "again"} /\ ~FileAt(h, "idle")

\* What a handler knows of the file it uploads.
HandlerInv(h) ==
    LET c == fileCall[h] IN
    /\ c.pc \in NamedPCs => c.op = "upload"
    /\ c.pc = "rows" => c.op \in {"delete", "context"}
    /\ c.pc = "refresh" => c.op = "settings"
    /\ c.pc \in {"load", "apply"} => c.op \in {"upload", "again", "settings"}
    /\ c.op = "again" => /\ c.pc \in {"load", "apply"}
                         /\ file[c.file].path \in FileIds
                         /\ file[c.file].wanted = "any"
    /\ c.pc = "apply" => c.seen \in Drivers
    /\ Uploading(h) => c.file \in FileIds /\ file[c.file].state = "coming"
    /\ c.pc \in NamedPCs => file[c.file].path \in FileIds
    /\ c.pc = "record" => Kept(c.file) /\ Placed(c.file)

\* An upload that nothing disturbed finds the driver the settings name.
CalmInv(h) ==
    LET c == fileCall[h] IN
    Uploading(h) /\ file[c.file].wanted # "any" =>
        /\ Settled
        /\ file[c.file].wanted = savedDriver
        /\ c.pc \in NamedPCs => configLoaded
        /\ c.pc = "put" => savedDriver = "s3"

FilesInv ==
    /\ FilesTypeOK
    /\ \A h \in FileCalls : HandlerInv(h) /\ CalmInv(h)
    /\ \A g, h \in FileCalls :
          Uploading(g) /\ Uploading(h) /\ fileCall[g].file = fileCall[h].file
              => g = h
    /\ \A f \in doomed : file[f].state \in {"there", "gone"}
    /\ \A f \in ThereAre : file[f].path \in FileIds /\ Kept(f) /\ Placed(f)
    /\ configLoaded /\ Settled => fileDriver = savedDriver

-----------------------------------------------------------------------------
(***************************************************************************)
(* Rates.  A request that goes on knows that the newest row it saw is      *)
(* still there, and that the provider's rates it holds are no older.       *)
(***************************************************************************)
RateKnows(c, rows, day) ==
    /\ c.newest \in rows \cup {MadeUp}
    /\ c.pc = "save" => c.fetched \in 1..day /\ c.newest <= c.fetched
    /\ c.pc = "answered" => c.answer = c.day \/ c.answer >= c.newest

RatesInv ==
    /\ RatesTypeOK
    /\ rateDays \subseteq 1..providerDay
    /\ \A h \in RateCalls : RateKnows(rateCall[h], rateDays, providerDay)

\* The rows have a newest one, or there is none.
LEMMA NewestRateIsNewest ==
  ASSUME rateDays \subseteq RateDays
  PROVE  /\ NewestRate \in rateDays \cup {MadeUp}
         /\ \A d \in rateDays \cup {MadeUp} : d <= NewestRate
  <1> USE RatesAssumption DEF RateDays, MadeUp
  <1> DEFINE P == rateDays \cup {MadeUp}
             D == {MaxDay - d : d \in P}
  <1>1. P \subseteq 0..MaxDay /\ P # {}
    OBVIOUS
  <1>2. D \subseteq Nat /\ D # {}
    <2>1. \A d \in P : MaxDay - d \in Nat
      BY <1>1
    <2> QED BY <1>1, <2>1
  <1>3. PICK x \in D : \A y \in D : ~(<<y, x>> \in OpToRel(<, Nat))
    BY <1>2, NatLessThanWellFounded, WFMin
  <1>4. \A y \in D : x <= y
    <2>1. \A y \in D : ~(y < x)
      BY <1>2, <1>3 DEF OpToRel
    <2> QED BY <1>2, <2>1
  <1>5. PICK d \in P : x = MaxDay - d
    OBVIOUS
  <1>6. \A e \in P : e <= d
    <2> SUFFICES ASSUME NEW e \in P PROVE e <= d
      OBVIOUS
    <2>1. MaxDay - d <= MaxDay - e
      BY <1>4, <1>5
    <2> QED BY <1>1, <2>1
  <1>7. \A e \in rateDays : e <= d
    BY <1>6
  <1>8. NewestRate \in P /\ \A e \in rateDays : e <= NewestRate
    BY <1>7 DEF NewestRate
  <1>9. MadeUp <= NewestRate
    BY <1>1, <1>8
  <1> QED BY <1>8, <1>9

LEMMA RatesInitKeeps == RatesInit => RatesInv
  BY RatesAssumption
  DEF RatesInit, RatesInv, RatesTypeOK, RateKnows, RateDays, RateHandlers,
      IdleRate, MadeUp

\* A step of one request, which keeps the rows there are and knows what it
\* should, keeps the invariant.
LEMMA RateStepKeeps ==
  ASSUME RatesInv, NEW h \in RateCalls, NEW c \in RateHandlers, RateTo(h, c),
         rateDays \subseteq rateDays', rateDays' \subseteq 1..providerDay,
         UNCHANGED <<today, providerDay>>,
         RateKnows(c, rateDays', providerDay')
  PROVE  RatesInv'
  <1> USE DEF RatesInv
  <1>1. RatesTypeOK'
    <2>1. 1..providerDay \subseteq RateDays
      BY RatesAssumption DEF RatesTypeOK, RateDays
    <2> QED BY <2>1 DEF RatesTypeOK, RateTo
  <1>2. ASSUME NEW g \in RateCalls
        PROVE  RateKnows(rateCall'[g], rateDays', providerDay')
    <2>1. CASE g = h
      BY <2>1 DEF RatesTypeOK, RateTo, RateKnows
    <2>2. CASE g # h
      BY <2>2 DEF RatesTypeOK, RateTo, RateKnows
    <2> QED BY <2>1, <2>2
  <1> QED BY <1>1, <1>2

LEMMA RatesNextKeeps ==
  ASSUME RatesInv, [RatesNext]_ratesVars
  PROVE  RatesInv'
  <1> USE RatesAssumption DEF RatesInv
  <1>1. rateDays \subseteq RateDays /\ providerDay \in RateDays
    BY DEF RatesTypeOK
  <1>2. /\ NewestRate \in rateDays \cup {MadeUp}
        /\ \A d \in rateDays \cup {MadeUp} : d <= NewestRate
    BY <1>1, NewestRateIsNewest
  <1>3. PICK newest : newest = NewestRate
    OBVIOUS
  <1>4. newest \in 0..MaxDay
    BY <1>1, <1>2, <1>3 DEF RateDays, MadeUp
  <1>5. ASSUME NEW h \in RateCalls, NEW key \in BOOLEAN,
               GetRateForDate(h, key)
        PROVE  RatesInv'
    <2> DEFINE c == [IdleRate EXCEPT !.day = today, !.newest = newest]
               d == IF today \in rateDays
                    THEN [c EXCEPT !.pc = "answered", !.answer = today]
                    ELSE [c EXCEPT !.pc = IF key THEN "fetch" ELSE "latest"]
    <2>1. RateTo(h, d) /\ UNCHANGED <<today, providerDay, rateDays>>
      BY <1>3, <1>5 DEF GetRateForDate
    <2>2. d \in RateHandlers
      <3>1. today \in 0..MaxDay /\ 0 \in 0..MaxDay
        BY DEF RatesTypeOK, RateDays
      <3>2. c \in RateHandlers
        BY <1>4, <3>1 DEF IdleRate, RateHandlers
      <3> HIDE DEF c
      <3> QED BY <3>1, <3>2 DEF RateHandlers
    <2>3. RateKnows(d, rateDays', providerDay')
      BY <1>2, <1>3, <2>1 DEF IdleRate, RateKnows
    <2> QED BY <2>1, <2>2, <2>3, RateStepKeeps
  <1>6. ASSUME NEW h \in RateCalls, FetchRates(h) PROVE RatesInv'
    <2> DEFINE d == [rateCall[h] EXCEPT !.pc = "save",
                                        !.fetched = providerDay]
    <2>1. RateTo(h, d) /\ UNCHANGED <<today, providerDay, rateDays>>
      BY <1>6 DEF FetchRates
    <2>2. d \in RateHandlers
      <3>1. providerDay \in 0..MaxDay /\ rateCall[h] \in RateHandlers
        BY <1>1 DEF RatesTypeOK, RateDays
      <3> QED BY <3>1 DEF RateHandlers
    <2>3. RateKnows(rateCall[h], rateDays, providerDay)
      OBVIOUS
    <2>4. RateKnows(d, rateDays', providerDay')
      BY <1>1, <2>1, <2>2, <2>3
      DEF RateKnows, RatesTypeOK, RateHandlers, RateDays, MadeUp
    <2> QED BY <2>1, <2>2, <2>4, RateStepKeeps
  <1>7. ASSUME NEW h \in RateCalls, FetchFails(h) PROVE RatesInv'
    <2> DEFINE d == [rateCall[h] EXCEPT !.pc = "latest"]
    <2>1. RateTo(h, d) /\ UNCHANGED <<today, providerDay, rateDays>>
      BY <1>7 DEF FetchFails
    <2>2. d \in RateHandlers
      BY DEF RateHandlers, RatesTypeOK
    <2>3. RateKnows(rateCall[h], rateDays, providerDay)
      OBVIOUS
    <2>4. RateKnows(d, rateDays', providerDay')
      BY <2>1, <2>3 DEF RateKnows, RatesTypeOK, RateHandlers
    <2> QED BY <2>1, <2>2, <2>4, RateStepKeeps
  <1>8. ASSUME NEW h \in RateCalls, SaveRates(h) PROVE RatesInv'
    <2>1. RateAt(h, "save") /\ RateKnows(rateCall[h], rateDays, providerDay)
          /\ rateCall[h] \in RateHandlers
      BY <1>8 DEF SaveRates, RatesTypeOK
    <2>2. rateCall[h].fetched \in 1..providerDay
      BY <2>1 DEF RateAt, RateKnows
    <2>3. /\ rateDays' = rateDays \cup {rateCall[h].fetched}
          /\ UNCHANGED <<today, providerDay>>
      BY <1>8 DEF SaveRates
    <2>4. CASE rateCall[h].fetched \in rateDays
      <3> DEFINE d == [rateCall[h] EXCEPT !.pc = "latest"]
      <3>1. RateTo(h, d)
        BY <1>8, <2>4 DEF SaveRates
      <3>2. d \in RateHandlers
        BY <2>1 DEF RateHandlers
      <3>3. RateKnows(d, rateDays', providerDay')
        BY <2>1, <2>3 DEF RateKnows, RateHandlers
      <3> QED BY <2>2, <2>3, <3>1, <3>2, <3>3, RateStepKeeps
    <2>5. CASE rateCall[h].fetched \notin rateDays
      <3> DEFINE d == [rateCall[h] EXCEPT !.pc = "answered",
                                          !.answer = rateCall[h].fetched]
      <3>1. RateTo(h, d)
        BY <1>8, <2>5 DEF SaveRates, RateAnswers
      <3>2. d \in RateHandlers
        BY <2>1 DEF RateHandlers
      <3>3. rateCall[h].newest <= rateCall[h].fetched
        BY <2>1 DEF RateAt, RateKnows
      <3>4. RateKnows(d, rateDays', providerDay')
        BY <1>1, <2>1, <2>2, <2>3, <3>3
        DEF RateKnows, RateHandlers, RateDays
      <3> QED BY <2>2, <2>3, <3>1, <3>2, <3>4, RateStepKeeps
    <2> QED BY <2>4, <2>5
  <1>9. ASSUME NEW h \in RateCalls, LatestRate(h) PROVE RatesInv'
    <2> DEFINE d == [rateCall[h] EXCEPT !.pc = "answered", !.answer = newest]
    <2>1. RateTo(h, d) /\ UNCHANGED <<today, providerDay, rateDays>>
      BY <1>3, <1>9 DEF LatestRate, RateAnswers
    <2>2. /\ rateCall[h] \in RateHandlers
          /\ RateKnows(rateCall[h], rateDays, providerDay)
      BY DEF RatesTypeOK
    <2>3. d \in RateHandlers
      BY <1>4, <2>2 DEF RateHandlers
    <2>4. rateCall[h].newest <= newest
      BY <1>2, <1>3, <2>2 DEF RateKnows
    <2>5. RateKnows(d, rateDays', providerDay')
      BY <1>4, <2>1, <2>2, <2>4 DEF RateKnows, RateHandlers
    <2> QED BY <2>1, <2>3, <2>5, RateStepKeeps
  <1>10. ASSUME NEW h \in RateCalls, RateCallFails(h) PROVE RatesInv'
    <2>1. RateTo(h, IdleRate) /\ UNCHANGED <<today, providerDay, rateDays>>
      BY <1>10 DEF RateCallFails
    <2>2. /\ IdleRate \in RateHandlers
          /\ RateKnows(IdleRate, rateDays', providerDay')
      BY DEF IdleRate, RateHandlers, RateKnows, MadeUp
    <2> QED BY <2>1, <2>2, RateStepKeeps
  <1>11. CASE NextDay
    BY <1>11 DEF NextDay, RatesTypeOK, RateDays, RateKnows
  <1>12. CASE ProviderUpdates
    <2>1. providerDay < providerDay' /\ providerDay' \in RateDays
      BY <1>12 DEF ProviderUpdates, RatesTypeOK, RateDays
    <2>2. UNCHANGED <<today, rateDays, rateCall>>
      BY <1>12 DEF ProviderUpdates
    <2>3. 1..providerDay \subseteq 1..providerDay'
      BY <1>1, <2>1 DEF RateDays
    <2>4. RatesTypeOK' /\ rateDays' \subseteq 1..providerDay'
      BY <2>1, <2>2, <2>3 DEF RatesTypeOK
    <2>5. ASSUME NEW g \in RateCalls
          PROVE  RateKnows(rateCall'[g], rateDays', providerDay')
      BY <2>2, <2>3 DEF RateKnows
    <2> QED BY <2>4, <2>5
  <1>13. CASE UNCHANGED ratesVars
    BY <1>13 DEF ratesVars, RatesTypeOK, RateKnows
  <1> QED BY <1>5, <1>6, <1>7, <1>8, <1>9, <1>10, <1>11, <1>12, <1>13
          DEF RatesNext, RateStep

(***************************************************************************)
(* In every behaviour of the rates the rows are those the provider had,    *)
(* and a request knows that the rates it holds are no older than the       *)
(* newest row it began with.                                               *)
(***************************************************************************)
THEOREM RatesInvariance == RatesSpec => []RatesInv
  <1>1. RatesInv /\ [RatesNext]_ratesVars => RatesInv'
    BY RatesNextKeeps
  <1> QED BY <1>1, RatesInitKeeps, PTL DEF RatesSpec

(***************************************************************************)
(* However requests, midnights and failures interleave, getRateForDate     *)
(* answers the day it was asked for, or rates no older than it had.        *)
(***************************************************************************)
THEOREM RatesAreNewest == RatesSpec => []RatesNeverGoBack
  <1>1. RatesInv => RatesNeverGoBack
    BY DEF RatesInv, RatesNeverGoBack, RateKnows, RateAt
  <1> QED BY <1>1, RatesInvariance, PTL

-----------------------------------------------------------------------------
(***************************************************************************)
(* Files.  First what all steps have in common.                            *)
(***************************************************************************)

\* A step that keeps a file's place, and may only excuse it.
Same(f) ==
    /\ file'[f].state = file[f].state
    /\ file'[f].path = file[f].path
    /\ file'[f].wanted \in {file[f].wanted, "any"}

\* A step that removes objects only with files whose deletion began.
Safe ==
    /\ doomed \subseteq doomed'
    /\ \A g \in doomed : file'[g].path = file[g].path
    /\ \A p \in FileIds : \/ stored[p] \subseteq stored'[p]
                          \/ \E g \in doomed' : file'[g].path = p

\* Of the handlers only h moves, and goes to c.
Moves(h, c) ==
    /\ fileCall'[h] = c
    /\ \A g \in FileCalls \ {h} : fileCall'[g] = fileCall[g]

LEMMA FileToMoves ==
  ASSUME FilesTypeOK, NEW h \in FileCalls, NEW c \in FileHandlers,
         FileTo(h, c)
  PROVE  Moves(h, c) /\ fileCall' \in [FileCalls -> FileHandlers]
  BY DEF FilesTypeOK, FileTo, Moves

LEMMA IdleFileMeans ==
  IdleFile \in FileHandlers /\ IdleFile.pc = "idle" /\ IdleFile.op = "upload"
  BY FilesAssumption
  DEF IdleFile, FileHandlers, FilePCs, FileOps

LEMMA KeptStays ==
  ASSUME Safe, NEW f \in FileIds, Same(f), file[f].path \in FileIds
  PROVE  (Kept(f) => Kept(f)') /\ (Placed(f) => Placed(f)')
  <1> DEFINE p == file[f].path
  <1>1. file'[f].path = p
    BY DEF Same
  <1>2. \/ stored[p] \subseteq stored'[p]
        \/ \E g \in doomed' : file'[g].path = p
    BY DEF Safe
  <1>3. (\E g \in doomed : file[g].path = p)
            => \E g \in doomed' : file'[g].path = p
    BY DEF Safe
  <1>4. Kept(f) => Kept(f)'
    BY <1>1, <1>2, <1>3 DEF Kept
  <1>5. Placed(f) => Placed(f)'
    BY <1>1, <1>2, <1>3 DEF Placed, Same
  <1> QED BY <1>4, <1>5

LEMMA OthersKeep ==
  ASSUME Safe, NEW g \in FileCalls, fileCall'[g] = fileCall[g],
         HandlerInv(g), Uploading(g) => Same(fileCall[g].file)
  PROVE  HandlerInv(g)'
  <1>1. PICK f : f = fileCall[g].file
    OBVIOUS
  <1>2. CASE Uploading(g)
    <2>1. f \in FileIds /\ Same(f)
      BY <1>1, <1>2 DEF HandlerInv
    <2>2. CASE fileCall[g].pc \in NamedPCs
      <3>1. file[f].path \in FileIds
        BY <1>1, <2>2 DEF HandlerInv
      <3>2. (Kept(f) => Kept(f)') /\ (Placed(f) => Placed(f)')
        BY <2>1, <3>1, KeptStays
      <3> QED BY <1>1, <1>2, <2>1, <3>1, <3>2
              DEF HandlerInv, Uploading, FileAt, Same, Kept, Placed
    <2>3. CASE fileCall[g].pc \notin NamedPCs
      BY <1>1, <1>2, <2>1, <2>3
      DEF HandlerInv, Uploading, FileAt, Same, NamedPCs
    <2> QED BY <2>2, <2>3
  <1>3. CASE ~Uploading(g)
    BY <1>3 DEF HandlerInv, Uploading, FileAt, NamedPCs
  <1> QED BY <1>2, <1>3

\* The part of FilesInv about the files.
TableInv ==
    /\ FilesTypeOK
    /\ \A h \in FileCalls : HandlerInv(h)
    /\ \A g, h \in FileCalls :
          Uploading(g) /\ Uploading(h) /\ fileCall[g].file = fileCall[h].file
              => g = h
    /\ \A f \in doomed : file[f].state \in {"there", "gone"}
    /\ \A f \in ThereAre : file[f].path \in FileIds /\ Kept(f) /\ Placed(f)

\* The part of FilesInv about the configuration.
ConfigInv ==
    /\ \A h \in FileCalls : CalmInv(h)
    /\ configLoaded /\ Settled => fileDriver = savedDriver

LEMMA FilesInvParts == FilesInv <=> TableInv /\ ConfigInv
  BY DEF FilesInv, TableInv, ConfigInv

\* A file that is recorded after the step was so before, or may be.
RecordKept(f) ==
    \/ f \in ThereAre /\ Same(f)
    \/ file'[f].path \in FileIds /\ Kept(f)' /\ Placed(f)'

\* A step of one handler that touches, of the files on their way, only the
\* one it uploads.
LEMMA TableKeeps ==
  ASSUME TableInv, FilesTypeOK', Safe, NEW h \in FileCalls, NEW c,
         Moves(h, c), HandlerInv(h)',
         \A g \in FileCalls \ {h} : Uploading(g) =>
            /\ Same(fileCall[g].file)
            /\ Uploading(h)' => c.file # fileCall[g].file,
         \A f \in doomed' : file'[f].state \in {"there", "gone"},
         \A f \in ThereAre' : RecordKept(f)
  PROVE  TableInv'
  <1>1. ASSUME NEW g \in FileCalls PROVE HandlerInv(g)'
    <2>1. CASE g = h
      BY <2>1
    <2>2. CASE g # h
      <3>1. fileCall'[g] = fileCall[g] /\ HandlerInv(g)
        BY <2>2 DEF Moves, TableInv
      <3>2. Uploading(g) => Same(fileCall[g].file)
        BY <2>2
      <3> QED BY <3>1, <3>2, OthersKeep
    <2> QED BY <2>1, <2>2
  <1>2. ASSUME NEW g \in FileCalls, NEW i \in FileCalls, Uploading(g)',
               Uploading(i)', fileCall'[g].file = fileCall'[i].file
        PROVE  g = i
    BY <1>2 DEF TableInv, Moves, Uploading, FileAt
  <1>3. ASSUME NEW f \in ThereAre'
        PROVE  file'[f].path \in FileIds /\ Kept(f)' /\ Placed(f)'
    <2>1. CASE f \in ThereAre /\ Same(f)
      <3>1. f \in FileIds /\ file[f].path \in FileIds /\ Kept(f) /\ Placed(f)
        BY <2>1 DEF TableInv, ThereAre
      <3>2. Kept(f)' /\ Placed(f)'
        BY <2>1, <3>1, KeptStays
      <3> QED BY <2>1, <3>1, <3>2 DEF Same
    <2> QED BY <1>3, <2>1 DEF RecordKept
  <1> QED BY <1>1, <1>2, <1>3 DEF TableInv

-----------------------------------------------------------------------------
(***************************************************************************)
(* What all steps have in common of the configuration.                     *)
(***************************************************************************)

\* A handler with this record leaves the configuration settled.
Harmless(c) ==
    /\ c.op = "settings" => c.pc = "idle"
    /\ c.pc = "apply" => c.seen = savedDriver

LEMMA SettledMoves ==
  ASSUME NEW h \in FileCalls, NEW c, Moves(h, c), savedDriver' = savedDriver,
         Settled, Harmless(c), ~misled'
  PROVE  Settled'
  BY DEF Settled, Harmless, Moves, FileAt

LEMMA SettledBefore ==
  ASSUME NEW h \in FileCalls, NEW c, Moves(h, c), savedDriver' = savedDriver,
         Settled', Harmless(fileCall[h]), ~misled
  PROVE  Settled
  BY DEF Settled, Harmless, Moves, FileAt

\* An upload that is not disturbed stays so while another handler moves.
LEMMA OthersStayCalm ==
  ASSUME NEW g \in FileCalls, fileCall'[g] = fileCall[g], CalmInv(g),
         Uploading(g) => Same(fileCall[g].file),
         savedDriver' = savedDriver, configLoaded => configLoaded',
         Settled => Settled'
  PROVE  CalmInv(g)'
  BY DEF CalmInv, Uploading, FileAt, Same

\* Once they are excused, no upload counts as undisturbed.
LEMMA ExcusedAreCalm ==
  ASSUME TableInv, TableInv', file' = Excused
  PROVE  \A g \in FileCalls : CalmInv(g)'
  <1> SUFFICES ASSUME NEW g \in FileCalls PROVE CalmInv(g)'
    OBVIOUS
  <1>1. PICK f : f = fileCall'[g].file
    OBVIOUS
  <1>2. Uploading(g)' => f \in FileIds /\ file'[f].state = "coming"
    BY <1>1 DEF TableInv, HandlerInv
  <1>3. f \in FileIds /\ file'[f].state = "coming" => file'[f].wanted = "any"
    BY DEF Excused, TableInv, FilesTypeOK, FileRows
  <1> QED BY <1>1, <1>2, <1>3 DEF CalmInv

\* A step of one handler that leaves the configuration alone.
LEMMA ConfigKeeps ==
  ASSUME ConfigInv, NEW h \in FileCalls, NEW c, Moves(h, c),
         UNCHANGED config, Harmless(fileCall[h]) <=> Harmless(c),
         CalmInv(h)',
         \A g \in FileCalls \ {h} : Uploading(g) => Same(fileCall[g].file)
  PROVE  ConfigInv'
  <1> USE DEF config
  <1>1. Settled => Settled'
    <2>1. Settled => Harmless(fileCall[h]) /\ ~misled
      BY DEF Settled, Harmless, FileAt
    <2> QED BY <2>1, SettledMoves
  <1>2. Settled' => Settled
    <2>1. Settled' => Harmless(c) /\ ~misled
      BY DEF Settled, Harmless, FileAt, Moves
    <2> QED BY <2>1, SettledBefore
  <1>3. ASSUME NEW g \in FileCalls PROVE CalmInv(g)'
    <2>1. CASE g = h
      BY <2>1
    <2>2. CASE g # h
      BY <1>1, <2>2, OthersStayCalm DEF ConfigInv, Moves
    <2> QED BY <2>1, <2>2
  <1> QED BY <1>2, <1>3 DEF ConfigInv

-----------------------------------------------------------------------------
(***************************************************************************)
(* The actions.                                                            *)
(***************************************************************************)

LEMMA FilesInitKeeps == FilesInit => FilesInv
  <1> SUFFICES ASSUME FilesInit PROVE FilesInv
    OBVIOUS
  <1>1. FilesTypeOK
    <2>1. NoFile \in FileRows
      BY FilesAssumption DEF NoFile, FileRows
    <2> QED BY <2>1, IdleFileMeans DEF FilesInit, FilesTypeOK
  <1>2. ThereAre = {}
    BY DEF FilesInit, ThereAre, NoFile
  <1>3. \A h \in FileCalls : HandlerInv(h) /\ CalmInv(h) /\ ~Uploading(h)
    BY IdleFileMeans
    DEF FilesInit, HandlerInv, CalmInv, Uploading, FileAt, NamedPCs
  <1> QED BY <1>1, <1>2, <1>3 DEF FilesInv, FilesInit

\* What an answered handler, back at its start, has to know.
LEMMA IdleKnows ==
  ASSUME NEW h \in FileCalls, fileCall'[h] = IdleFile
  PROVE  HandlerInv(h)' /\ CalmInv(h)' /\ ~Uploading(h)'
  BY IdleFileMeans DEF HandlerInv, CalmInv, Uploading, FileAt, NamedPCs

\* A step that leaves the rows and the configuration alone.
LEMMA FileAlone ==
  ASSUME FilesInv, NEW h \in FileCalls, NEW c \in FileHandlers, FileTo(h, c),
         UNCHANGED <<config, file>>, Safe,
         stored' \in [FileIds -> SUBSET Drivers], doomed' \in SUBSET FileIds,
         \A f \in doomed' : file[f].state \in {"there", "gone"},
         Harmless(fileCall[h]) <=> Harmless(c),
         Uploading(h)' => Uploading(h) /\ c.file = fileCall[h].file,
         HandlerInv(h)', CalmInv(h)'
  PROVE  FilesInv'
  <1>1. TableInv /\ ConfigInv
    BY FilesInvParts
  <1>2. Moves(h, c) /\ fileCall' \in [FileCalls -> FileHandlers]
    BY <1>1, FileToMoves DEF TableInv
  <1>3. FilesTypeOK'
    BY <1>1, <1>2 DEF TableInv, FilesTypeOK, config
  <1>4. \A f \in FileIds : Same(f)
    BY DEF Same
  <1>5. \A g \in FileCalls : Uploading(g) => fileCall[g].file \in FileIds
    BY <1>1 DEF TableInv, HandlerInv
  <1>6. TableInv'
    <2>1. \A g \in FileCalls \ {h} : Uploading(g) =>
             /\ Same(fileCall[g].file)
             /\ Uploading(h)' => c.file # fileCall[g].file
      BY <1>1, <1>4, <1>5 DEF TableInv
    <2>2. \A f \in doomed' : file'[f].state \in {"there", "gone"}
      OBVIOUS
    <2>3. \A f \in ThereAre' : RecordKept(f)
      BY <1>4 DEF ThereAre, RecordKept
    <2> QED BY <1>1, <1>2, <1>3, <2>1, <2>2, <2>3, TableKeeps
  <1>7. ConfigInv'
    BY <1>1, <1>2, <1>4, <1>5, ConfigKeeps
  <1> QED BY <1>6, <1>7, FilesInvParts, PTL

LEMMA ReadSettingsKeeps ==
  ASSUME FilesInv, NEW h \in FileCalls, ReadSettings(h)
  PROVE  FilesInv'
  <1> DEFINE c == [fileCall[h] EXCEPT !.pc = "apply", !.seen = savedDriver]
  <1>1. /\ fileCall[h] \in FileHandlers /\ fileCall[h].pc = "load"
        /\ FileTo(h, c)
        /\ UNCHANGED <<config, stored, file, doomed>>
        /\ HandlerInv(h) /\ CalmInv(h) /\ FilesTypeOK
    BY DEF ReadSettings, FileAt, FilesInv, FilesTypeOK
  <1>2. /\ c \in FileHandlers
        /\ c.pc = "apply" /\ c.seen = savedDriver
        /\ c.op = fileCall[h].op /\ c.file = fileCall[h].file
    BY <1>1 DEF FilesTypeOK, FileHandlers, FilePCs
  <1>3. Moves(h, c)
    BY <1>1, <1>2, FileToMoves
  <1> HIDE DEF c
  <1>4. HandlerInv(h)'
    BY <1>1, <1>2, <1>3
    DEF FilesTypeOK, HandlerInv, Moves, Uploading, FileAt, NamedPCs, config
  <1>5. Settled => Settled'
    BY <1>1, <1>2, <1>3 DEF Settled, Moves, FileAt, config
  <1>6. CalmInv(h)'
    BY <1>1, <1>2, <1>3, <1>5
    DEF CalmInv, Moves, Uploading, FileAt, NamedPCs, config
  <1>7. Safe
    BY <1>1 DEF Safe
  <1>8. /\ Harmless(fileCall[h]) <=> Harmless(c)
        /\ Uploading(h)' => Uploading(h) /\ c.file = fileCall[h].file
    BY <1>1, <1>2, <1>3 DEF Harmless, Uploading, FileAt, Moves
  <1>9. /\ stored' \in [FileIds -> SUBSET Drivers]
        /\ doomed' \in SUBSET FileIds
        /\ \A f \in doomed' : file[f].state \in {"there", "gone"}
    BY <1>1 DEF FilesTypeOK, FilesInv
  <1> QED BY <1>1, <1>2, <1>4, <1>6, <1>7, <1>8, <1>9, FileAlone

\* What the upload of h knows once its object is put.
LEMMA PutKnows ==
  ASSUME FilesInv, NEW h \in FileCalls, NEW d \in Drivers,
         fileCall[h].pc \in {"bucket", "put"},
         FileTo(h, [fileCall[h] EXCEPT !.pc = "record"]),
         stored' = [stored EXCEPT ![file[fileCall[h].file].path] =
                                     @ \cup {d}],
         UNCHANGED <<config, file, doomed>>,
         file[fileCall[h].file].wanted \in {d, "any"}
  PROVE  FilesInv'
  <1> DEFINE c == [fileCall[h] EXCEPT !.pc = "record"]
  <1>1. /\ fileCall[h] \in FileHandlers /\ HandlerInv(h) /\ CalmInv(h)
        /\ FilesTypeOK
    BY DEF FilesInv, FilesTypeOK
  <1>2. /\ c \in FileHandlers /\ c.pc = "record"
        /\ c.op = fileCall[h].op /\ c.file = fileCall[h].file
        /\ c.seen = fileCall[h].seen
    BY <1>1 DEF FileHandlers, FilePCs
  <1>3. FileTo(h, c) /\ Moves(h, c)
    BY <1>1, <1>2, FileToMoves
  <1> HIDE DEF c
  <1>4. PICK f : f = fileCall[h].file
    OBVIOUS
  <1>5. /\ f \in FileIds /\ file[f].state = "coming"
        /\ file[f].path \in FileIds /\ c.op = "upload"
    BY <1>1, <1>2, <1>4 DEF HandlerInv, NamedPCs, Uploading, FileAt
  <1>6. /\ stored' \in [FileIds -> SUBSET Drivers]
        /\ d \in stored'[file[f].path]
        /\ \A p \in FileIds : stored[p] \subseteq stored'[p]
    BY <1>1, <1>4, <1>5 DEF FilesTypeOK
  <1>7. Kept(f)' /\ Placed(f)'
    BY <1>4, <1>5, <1>6 DEF Kept, Placed
  <1>8. HandlerInv(h)'
    BY <1>2, <1>3, <1>4, <1>5, <1>7
    DEF HandlerInv, Moves, Uploading, FileAt, NamedPCs, Kept, Placed
  <1>9. Harmless(fileCall[h]) /\ Harmless(c)
    BY <1>2, <1>5 DEF Harmless
  <1>10. Settled => Settled'
    BY <1>3, <1>9, SettledMoves DEF Settled, config
  <1>11. CalmInv(h)'
    BY <1>1, <1>2, <1>3, <1>10
    DEF CalmInv, Moves, Uploading, FileAt, NamedPCs, config
  <1>12. Safe
    BY <1>6 DEF Safe
  <1>13. Uploading(h)' => Uploading(h) /\ c.file = fileCall[h].file
    BY <1>2, <1>3, <1>5 DEF Uploading, FileAt, Moves
  <1>14. doomed' \in SUBSET FileIds
         /\ \A g \in doomed' : file[g].state \in {"there", "gone"}
    BY <1>1 DEF FilesInv, FilesTypeOK
  <1> QED BY <1>2, <1>3, <1>6, <1>8, <1>9, <1>11, <1>12, <1>13, <1>14,
             FileAlone

LEMMA PutObjectKeeps ==
  ASSUME FilesInv, NEW h \in FileCalls, PutObject(h)
  PROVE  FilesInv'
  <1>1. fileCall[h].pc = "put" /\ HandlerInv(h) /\ CalmInv(h)
    BY DEF PutObject, FileAt, FilesInv
  <1>2. Uploading(h)
    BY <1>1 DEF HandlerInv, NamedPCs, Uploading, FileAt
  <1>3. file[fileCall[h].file].wanted \in {"s3", "any"}
    BY <1>1, <1>2 DEF CalmInv
  <1> QED BY <1>1, <1>3, PutKnows DEF PutObject, Drivers

\* An upload that loads the configuration again, or has done so.
LEMMA AgainKeeps ==
  ASSUME FilesInv, NEW h \in FileCalls, NEW c \in FileHandlers, FileTo(h, c),
         UNCHANGED <<savedDriver, stored, doomed>>,
         file' \in [FileIds -> FileRows], \A f \in FileIds : Same(f),
         fileDriver' \in Drivers \cup {"unset"}, configLoaded' \in BOOLEAN,
         misled' \in BOOLEAN, Uploading(h), c.file = fileCall[h].file,
         \/ c.op = "again" /\ c.pc = "load"
         \/ c.op = "upload" /\ c.pc = "put",
         file[c.file].path \in FileIds, file[c.file].wanted = "any",
         configLoaded => configLoaded',
         file' = Excused \/ (Settled => Settled'),
         configLoaded' /\ Settled' => fileDriver' = savedDriver
  PROVE  FilesInv'
  <1>1. TableInv /\ ConfigInv /\ FilesTypeOK
    BY FilesInvParts DEF TableInv
  <1>2. /\ Moves(h, c) /\ fileCall'[h] = c
        /\ fileCall' \in [FileCalls -> FileHandlers]
    BY <1>1, FileToMoves DEF Moves
  <1>3. FilesTypeOK'
    BY <1>1, <1>2 DEF FilesTypeOK
  <1>4. PICK f : f = c.file
    OBVIOUS
  <1>5. f \in FileIds /\ file[f].state = "coming"
    BY <1>1, <1>4 DEF TableInv, HandlerInv
  <1>6. /\ file'[f].state = "coming" /\ file'[f].path \in FileIds
        /\ file'[f].wanted = "any"
    BY <1>4, <1>5 DEF Same
  <1>7. HandlerInv(h)' /\ CalmInv(h)'
    BY <1>2, <1>4, <1>5, <1>6
    DEF HandlerInv, CalmInv, Uploading, FileAt, NamedPCs
  <1>8. Safe /\ doomed \subseteq FileIds
    BY <1>1 DEF Safe, Same, FilesTypeOK
  <1>9. ASSUME NEW g \in FileCalls \ {h}, Uploading(g)
        PROVE  Same(fileCall[g].file) /\ c.file # fileCall[g].file
    BY <1>1, <1>9 DEF TableInv, HandlerInv
  <1>10. TableInv'
    <2>1. \A e \in doomed' : file'[e].state \in {"there", "gone"}
      BY <1>1, <1>8 DEF TableInv, Same
    <2>2. \A e \in ThereAre' : RecordKept(e)
      BY DEF ThereAre, RecordKept, Same
    <2> QED BY <1>1, <1>2, <1>3, <1>7, <1>8, <1>9, <2>1, <2>2, TableKeeps
  <1>11. ASSUME NEW g \in FileCalls PROVE CalmInv(g)'
    <2>1. CASE file' = Excused
      BY <1>1, <1>10, <2>1, ExcusedAreCalm
    <2>2. CASE g = h
      BY <1>7, <2>2
    <2>3. CASE g # h /\ (Settled => Settled')
      BY <1>1, <1>2, <1>9, <2>3, OthersStayCalm DEF ConfigInv, Moves
    <2> QED BY <2>1, <2>2, <2>3
  <1>12. ConfigInv'
    BY <1>11 DEF ConfigInv
  <1> QED BY <1>10, <1>12, FilesInvParts, PTL

LEMMA BucketKeeps ==
  ASSUME FilesInv, NEW h \in FileCalls, Bucket(h)
  PROVE  FilesInv'
  <1> DEFINE c == [fileCall[h] EXCEPT !.pc = "put"]
  <1>1. /\ fileCall[h] \in FileHandlers /\ fileCall[h].pc = "bucket"
        /\ HandlerInv(h) /\ CalmInv(h) /\ FilesTypeOK
        /\ UNCHANGED <<savedDriver, configLoaded, misled, file, doomed>>
    BY DEF Bucket, FileAt, FilesInv, FilesTypeOK
  <1>2. Uploading(h) /\ fileCall[h].op = "upload"
    BY <1>1 DEF HandlerInv, NamedPCs, Uploading, FileAt
  <1>3. file[fileCall[h].file].wanted = "any"
        \/ /\ Settled /\ fileDriver = savedDriver
           /\ file[fileCall[h].file].wanted = savedDriver
    BY <1>1, <1>2 DEF CalmInv, NamedPCs, FilesInv
  <1>4. CASE fileDriver = "local"
    <2>1. file[fileCall[h].file].wanted \in {"local", "any"}
      BY <1>3, <1>4
    <2> QED BY <1>1, <1>4, <2>1, PutKnows DEF Bucket, Drivers, config
  <1>5. CASE fileDriver # "local" /\ configLoaded
    <2>1. /\ c \in FileHandlers /\ c.pc = "put"
          /\ c.op = fileCall[h].op /\ c.file = fileCall[h].file
          /\ c.seen = fileCall[h].seen
      BY <1>1 DEF FileHandlers, FilePCs
    <2>2. FileTo(h, c) /\ UNCHANGED <<config, stored>>
      BY <1>1, <1>5 DEF Bucket, config
    <2>3. Moves(h, c)
      BY <1>1, <2>1, <2>2, FileToMoves
    <2> HIDE DEF c
    <2>4. HandlerInv(h)'
      BY <1>1, <1>2, <2>1, <2>2, <2>3
      DEF HandlerInv, Moves, Uploading, FileAt, NamedPCs
    <2>5. Harmless(fileCall[h]) /\ Harmless(c)
      BY <1>1, <1>2, <2>1 DEF Harmless
    <2>6. Settled => Settled'
      BY <1>1, <2>2, <2>3, <2>5, SettledMoves DEF Settled, config
    <2>7. CalmInv(h)'
      BY <1>1, <1>2, <1>3, <1>5, <2>1, <2>2, <2>3, <2>6
      DEF CalmInv, Moves, Uploading, FileAt, NamedPCs, config, FilesTypeOK,
          Drivers
    <2>8. Safe
      BY <1>1, <2>2 DEF Safe
    <2>9. Uploading(h)' => Uploading(h) /\ c.file = fileCall[h].file
      BY <1>2, <2>1
    <2>10. /\ stored' \in [FileIds -> SUBSET Drivers]
           /\ doomed' \in SUBSET FileIds
           /\ \A f \in doomed' : file[f].state \in {"there", "gone"}
      BY <1>1, <2>2 DEF FilesTypeOK, FilesInv
    <2> QED BY <1>1, <2>1, <2>2, <2>4, <2>5, <2>7, <2>8, <2>9, <2>10,
               FileAlone
  <1>6. CASE fileDriver # "local" /\ ~configLoaded
    <2> DEFINE d == [fileCall[h] EXCEPT !.op = "again", !.pc = "load"]
    <2>1. /\ d \in FileHandlers /\ d.pc = "load" /\ d.op = "again"
          /\ d.file = fileCall[h].file
      BY <1>1 DEF FileHandlers, FilePCs, FileOps
    <2>2. FileTo(h, d) /\ fileDriver' = EnvDriver /\ UNCHANGED stored
      BY <1>6 DEF Bucket
    <2>3. Moves(h, d)
      BY <1>1, <2>1, <2>2, FileToMoves
    <2> HIDE DEF d
    <2>4. /\ file[d.file].path \in FileIds /\ file[d.file].wanted = "any"
      BY <1>1, <1>2, <1>6, <2>1 DEF HandlerInv, CalmInv, NamedPCs
    <2>5. Harmless(d)
      BY <2>1 DEF Harmless
    <2>6. Settled => Settled'
      BY <1>1, <2>3, <2>5, SettledMoves DEF Settled
    <2>7. file' \in [FileIds -> FileRows] /\ \A f \in FileIds : Same(f)
      BY <1>1 DEF FilesTypeOK, Same
    <2> QED BY <1>1, <1>2, <1>6, <2>1, <2>2, <2>4, <2>6, <2>7, AgainKeeps,
               FilesAssumption DEF FilesTypeOK
  <1> QED BY <1>4, <1>5, <1>6

\* A handler that ends, and changes rows that no other upload works on.
LEMMA EndsKeeps ==
  ASSUME FilesInv, NEW h \in FileCalls, FileEnds(h),
         UNCHANGED <<config, stored, doomed>>, Harmless(fileCall[h]),
         file' \in [FileIds -> FileRows],
         \A g \in FileCalls \ {h} : Uploading(g) => Same(fileCall[g].file),
         \A f \in doomed : /\ file'[f].state \in {"there", "gone"}
                           /\ file'[f].path = file[f].path,
         \A f \in ThereAre' : RecordKept(f)
  PROVE  FilesInv'
  <1>1. TableInv /\ ConfigInv /\ FilesTypeOK
    BY FilesInvParts DEF TableInv
  <1>2. IdleFile \in FileHandlers /\ FileTo(h, IdleFile)
    BY IdleFileMeans DEF FileEnds
  <1>3. /\ Moves(h, IdleFile) /\ fileCall'[h] = IdleFile
        /\ fileCall' \in [FileCalls -> FileHandlers]
    BY <1>1, <1>2, FileToMoves DEF Moves
  <1>4. FilesTypeOK'
    BY <1>1, <1>3 DEF FilesTypeOK, config
  <1>5. HandlerInv(h)' /\ CalmInv(h)' /\ ~Uploading(h)'
    BY <1>3, IdleKnows
  <1>6. Safe
    BY DEF Safe
  <1>7. TableInv'
    BY <1>1, <1>3, <1>4, <1>5, <1>6, TableKeeps
  <1>8. Harmless(fileCall[h]) <=> Harmless(IdleFile)
    BY IdleFileMeans DEF Harmless
  <1>9. ConfigInv'
    BY <1>1, <1>3, <1>5, <1>8, ConfigKeeps
  <1> QED BY <1>7, <1>9, FilesInvParts, PTL

LEMMA RecordFileKeeps ==
  ASSUME FilesInv, NEW h \in FileCalls, RecordFile(h)
  PROVE  FilesInv'
  <1>1. PICK f : f = fileCall[h].file
    OBVIOUS
  <1>2. /\ fileCall[h].pc = "record" /\ HandlerInv(h) /\ FilesTypeOK
        /\ FileEnds(h) /\ UNCHANGED <<config, stored, doomed>>
        /\ file' = [file EXCEPT ![f].state = "there"]
    BY <1>1 DEF RecordFile, FileAt, FilesInv
  <1>3. /\ Uploading(h) /\ f \in FileIds /\ file[f].state = "coming"
        /\ file[f].path \in FileIds /\ Kept(f) /\ Placed(f)
        /\ fileCall[h].op = "upload"
    BY <1>1, <1>2 DEF HandlerInv, NamedPCs, Uploading, FileAt
  <1>4. file' \in [FileIds -> FileRows]
    BY <1>2, <1>3 DEF FilesTypeOK, FileRows
  <1>5. /\ file'[f].path = file[f].path /\ file'[f].wanted = file[f].wanted
        /\ \A g \in FileIds \ {f} : file'[g] = file[g]
    BY <1>2, <1>3 DEF FilesTypeOK, FileRows
  <1>6. \A g \in FileIds : file'[g].path = file[g].path
    BY <1>5
  <1>7. ASSUME NEW g \in FileCalls \ {h}, Uploading(g)
        PROVE  Same(fileCall[g].file)
    <2>1. fileCall[g].file \in FileIds /\ fileCall[g].file # f
      BY <1>1, <1>3, <1>7 DEF FilesInv, HandlerInv
    <2> QED BY <1>5, <2>1 DEF Same
  <1>8. f \notin doomed /\ doomed \subseteq FileIds
    BY <1>3 DEF FilesInv, FilesTypeOK
  <1>9. ASSUME NEW g \in doomed
        PROVE  /\ file'[g].state \in {"there", "gone"}
               /\ file'[g].path = file[g].path
    BY <1>5, <1>8 DEF FilesInv
  <1>10. Kept(f)' /\ Placed(f)'
    BY <1>2, <1>3, <1>5, <1>6, <1>8 DEF Kept, Placed
  <1>11. ASSUME NEW g \in ThereAre' PROVE RecordKept(g)
    <2>1. CASE g = f
      BY <1>3, <1>5, <1>10, <2>1 DEF RecordKept
    <2>2. CASE g # f
      BY <1>5, <2>2 DEF RecordKept, ThereAre, Same
    <2> QED BY <2>1, <2>2
  <1>12. Harmless(fileCall[h])
    BY <1>2, <1>3 DEF Harmless
  <1> QED BY <1>2, <1>4, <1>7, <1>9, <1>11, <1>12, EndsKeeps

\* Rows that go leave the others as they are.
LEMMA GoneKeeps ==
  ASSUME FilesInv, NEW h \in FileCalls, FileEnds(h),
         UNCHANGED <<config, stored, doomed>>, Harmless(fileCall[h]),
         NEW S \in SUBSET FileIds,
         file' = [f \in FileIds |-> IF f \in S
                                    THEN [file[f] EXCEPT !.state = "gone"]
                                    ELSE file[f]],
         \A g \in FileCalls \ {h} : Uploading(g) => fileCall[g].file \notin S
  PROVE  FilesInv'
  <1>1. FilesTypeOK
    BY DEF FilesInv
  <1>2. file' \in [FileIds -> FileRows]
    BY <1>1 DEF FilesTypeOK, FileRows
  <1>3. /\ \A f \in FileIds : file'[f].path = file[f].path
        /\ \A f \in S : file'[f].state = "gone"
        /\ \A f \in FileIds \ S : file'[f] = file[f]
    BY <1>1 DEF FilesTypeOK, FileRows
  <1>4. ASSUME NEW g \in FileCalls \ {h}, Uploading(g)
        PROVE  Same(fileCall[g].file)
    <2>1. fileCall[g].file \in FileIds \ S
      BY <1>4 DEF FilesInv, HandlerInv
    <2> QED BY <1>3, <2>1 DEF Same
  <1>5. ASSUME NEW f \in doomed
        PROVE  /\ file'[f].state \in {"there", "gone"}
               /\ file'[f].path = file[f].path
    BY <1>1, <1>3 DEF FilesInv, FilesTypeOK
  <1>6. ASSUME NEW f \in ThereAre' PROVE RecordKept(f)
    BY <1>3 DEF ThereAre, RecordKept, Same
  <1> QED BY <1>2, <1>4, <1>5, <1>6, EndsKeeps

LEMMA DeleteRowsKeeps ==
  ASSUME FilesInv, NEW h \in FileCalls, DeleteRows(h)
  PROVE  FilesInv'
  <1>1. PICK S : S = IF fileCall[h].op = "context" THEN ThereAre
                     ELSE {fileCall[h].file} \cap ThereAre
    OBVIOUS
  <1>2. /\ FileEnds(h) /\ UNCHANGED <<config, stored, doomed>>
        /\ fileCall[h].pc = "rows" /\ HandlerInv(h)
        /\ file' = [f \in FileIds |-> IF f \in S
                                      THEN [file[f] EXCEPT !.state = "gone"]
                                      ELSE file[f]]
    BY <1>1 DEF DeleteRows, FileAt, FilesInv
  <1>3. S \subseteq ThereAre /\ S \in SUBSET FileIds
    BY <1>1 DEF ThereAre
  <1>4. \A g \in FileCalls \ {h} : Uploading(g) => fileCall[g].file \notin S
    BY <1>3 DEF FilesInv, HandlerInv, ThereAre
  <1>5. Harmless(fileCall[h])
    BY <1>2 DEF Harmless, HandlerInv
  <1> QED BY <1>2, <1>3, <1>4, <1>5, GoneKeeps

LEMMA FileCallFailsKeeps ==
  ASSUME FilesInv, NEW h \in FileCalls, FileCallFails(h)
  PROVE  FilesInv'
  <1>1. PICK f : f = fileCall[h].file
    OBVIOUS
  <1>2. /\ FileEnds(h) /\ UNCHANGED <<config, stored, doomed>>
        /\ fileCall[h].pc \in {"bucket", "put", "record", "rows"}
        /\ HandlerInv(h) /\ FilesTypeOK
        /\ file' = IF fileCall[h].op = "upload"
                   THEN [file EXCEPT ![f].state = "gone"] ELSE file
    BY <1>1 DEF FileCallFails, FilesInv
  <1>3. PICK S : S = IF fileCall[h].op = "upload" THEN {f} ELSE {}
    OBVIOUS
  <1>4. fileCall[h].op = "upload" => Uploading(h) /\ f \in FileIds
    BY <1>1, <1>2 DEF Uploading, FileAt, HandlerInv
  <1>5. S \in SUBSET FileIds
    BY <1>3, <1>4
  <1>6. file' = [g \in FileIds |-> IF g \in S
                                   THEN [file[g] EXCEPT !.state = "gone"]
                                   ELSE file[g]]
    BY <1>2, <1>3, <1>4 DEF FilesTypeOK
  <1>7. \A g \in FileCalls \ {h} : Uploading(g) => fileCall[g].file \notin S
    BY <1>1, <1>3, <1>4 DEF FilesInv
  <1>8. Harmless(fileCall[h])
    BY <1>2 DEF Harmless, HandlerInv, NamedPCs
  <1> QED BY <1>2, <1>5, <1>6, <1>7, <1>8, GoneKeeps

LEMMA RestartFilesKeeps ==
  ASSUME FilesInv, RestartFiles
  PROVE  FilesInv'
  <1>1. FilesTypeOK /\ IdleFile \in FileHandlers
    BY IdleFileMeans DEF FilesInv
  <1>2. /\ fileDriver' = "unset" /\ configLoaded' = FALSE /\ misled' = FALSE
        /\ file' = [f \in FileIds |-> IF file[f].state = "coming"
                                      THEN [file[f] EXCEPT !.state = "gone"]
                                      ELSE file[f]]
        /\ fileCall' = [h \in FileCalls |-> IdleFile]
        /\ UNCHANGED <<savedDriver, stored, doomed>>
    BY DEF RestartFiles
  <1>3. FilesTypeOK'
    <2>1. file' \in [FileIds -> FileRows]
      BY <1>1, <1>2 DEF FilesTypeOK, FileRows
    <2> QED BY <1>1, <1>2, <2>1 DEF FilesTypeOK
  <1>4. \A h \in FileCalls : HandlerInv(h)' /\ CalmInv(h)' /\ ~Uploading(h)'
    BY <1>2, IdleKnows
  <1>5. /\ \A f \in FileIds : file'[f].path = file[f].path
        /\ \A f \in FileIds :
              file[f].state # "coming" => file'[f] = file[f]
        /\ \A f \in FileIds :
              file[f].state = "coming" => file'[f].state = "gone"
    BY <1>1, <1>2 DEF FilesTypeOK, FileRows
  <1>6. \A f \in doomed' : file'[f].state \in {"there", "gone"}
    BY <1>1, <1>2, <1>5 DEF FilesInv, FilesTypeOK
  <1>7. Safe
    BY <1>1, <1>2, <1>5 DEF Safe, FilesTypeOK
  <1>8. ASSUME NEW f \in ThereAre'
        PROVE  file'[f].path \in FileIds /\ Kept(f)' /\ Placed(f)'
    <2>1. f \in ThereAre /\ f \in FileIds /\ Same(f)
      BY <1>5 DEF ThereAre, Same
    <2>2. file[f].path \in FileIds /\ Kept(f) /\ Placed(f)
      BY <2>1 DEF FilesInv
    <2>3. Kept(f)' /\ Placed(f)'
      BY <1>7, <2>1, <2>2, KeptStays
    <2> QED BY <1>5, <2>1, <2>2, <2>3
  <1> QED BY <1>2, <1>3, <1>4, <1>6, <1>8 DEF FilesInv

\* A deletion begins: objects go, and the names they had are remembered.
LEMMA RemoveObjectsKeeps ==
  ASSUME FilesInv, NEW h \in FileCalls, FileAt(h, "idle"),
         NEW S \in SUBSET ThereAre, RemoveObjects(S),
         NEW c \in FileHandlers, FileTo(h, c), c.pc = "rows",
         c.op \in {"delete", "context"}, UNCHANGED <<config, file>>
  PROVE  FilesInv'
  <1>1. FilesTypeOK /\ S \subseteq FileIds
    BY DEF FilesInv, ThereAre
  <1>2. Moves(h, c)
    BY <1>1, FileToMoves
  <1>3. /\ doomed' = doomed \cup S
        /\ stored' \in [FileIds -> SUBSET Drivers]
        /\ \A p \in FileIds : \/ stored'[p] = stored[p]
                              \/ \E f \in S : file[f].path = p
    BY <1>1 DEF RemoveObjects, FilesTypeOK
  <1>4. Safe
    BY <1>3 DEF Safe
  <1>5. doomed' \in SUBSET FileIds
        /\ \A f \in doomed' : file[f].state \in {"there", "gone"}
    BY <1>1, <1>3 DEF FilesTypeOK, FilesInv, ThereAre
  <1>6. Harmless(fileCall[h]) /\ Harmless(c)
    BY DEF Harmless, FileAt
  <1>7. /\ ~Uploading(h)' /\ HandlerInv(h)' /\ CalmInv(h)'
    BY <1>2 DEF Moves, Uploading, HandlerInv, CalmInv, NamedPCs, FileAt
  <1> QED BY <1>3, <1>4, <1>5, <1>6, <1>7, FileAlone

LEMMA DeleteFileKeeps ==
  ASSUME FilesInv, NEW h \in FileCalls, NEW f \in FileIds, DeleteFile(h, f)
  PROVE  FilesInv'
  <1> DEFINE c == [IdleFile EXCEPT !.op = "delete", !.pc = "rows",
                                   !.file = f]
  <1>1. /\ c \in FileHandlers /\ c.pc = "rows" /\ c.op = "delete"
        /\ FileTo(h, c)
    <2>1. IdleFile \in FileHandlers /\ f \in 0..MaxFile
      BY IdleFileMeans, FilesAssumption DEF FileIds
    <2> QED BY <2>1 DEF DeleteFile, FileHandlers, FilePCs, FileOps
  <1> HIDE DEF c
  <1> QED BY <1>1, RemoveObjectsKeeps DEF DeleteFile

LEMMA DeleteFilesByContextKeeps ==
  ASSUME FilesInv, NEW h \in FileCalls, DeleteFilesByContext(h)
  PROVE  FilesInv'
  <1> DEFINE c == [IdleFile EXCEPT !.op = "context", !.pc = "rows"]
  <1>1. /\ c \in FileHandlers /\ c.pc = "rows" /\ c.op = "context"
        /\ FileTo(h, c)
    BY IdleFileMeans DEF DeleteFilesByContext, FileHandlers, FilePCs, FileOps
  <1> HIDE DEF c
  <1> QED BY <1>1, RemoveObjectsKeeps DEF DeleteFilesByContext

\* A step that excuses the uploads on their way, and takes h to c.
LEMMA ExcusedKeeps ==
  ASSUME FilesInv, NEW h \in FileCalls, NEW c \in FileHandlers, FileTo(h, c),
         file' = Excused, UNCHANGED <<stored, doomed>>,
         savedDriver' \in Drivers, fileDriver' \in Drivers \cup {"unset"},
         configLoaded' \in BOOLEAN, misled' \in BOOLEAN,
         c.op = "settings", c.pc \in {"idle", "refresh", "load"},
         ~configLoaded' \/ ~Settled'
  PROVE  FilesInv'
  <1>1. TableInv /\ FilesTypeOK
    BY FilesInvParts DEF TableInv
  <1>2. Moves(h, c) /\ fileCall' \in [FileCalls -> FileHandlers]
    BY <1>1, FileToMoves
  <1>3. file' \in [FileIds -> FileRows] /\ \A f \in FileIds : Same(f)
    BY <1>1 DEF Excused, FilesTypeOK, FileRows, Same
  <1>4. FilesTypeOK'
    BY <1>1, <1>2, <1>3 DEF FilesTypeOK
  <1>5. HandlerInv(h)' /\ ~Uploading(h)'
    BY <1>2 DEF Moves, HandlerInv, Uploading, NamedPCs, FileAt
  <1>6. Safe /\ doomed \subseteq FileIds
    BY <1>1, <1>3 DEF Safe, Same, FilesTypeOK
  <1>7. TableInv'
    <2>1. ASSUME NEW g \in FileCalls \ {h}, Uploading(g)
          PROVE  Same(fileCall[g].file)
      BY <1>1, <1>3, <2>1 DEF TableInv, HandlerInv
    <2>2. ASSUME NEW f \in doomed' PROVE file'[f].state \in {"there", "gone"}
      BY <1>1, <1>3, <1>6 DEF TableInv, Same
    <2>3. ASSUME NEW f \in ThereAre' PROVE RecordKept(f)
      BY <1>3 DEF ThereAre, RecordKept, Same
    <2> QED BY <1>1, <1>2, <1>4, <1>5, <1>6, <2>1, <2>2, <2>3, TableKeeps
  <1>8. \A g \in FileCalls : CalmInv(g)'
    BY <1>1, <1>7, ExcusedAreCalm
  <1>9. ConfigInv'
    BY <1>8 DEF ConfigInv
  <1> QED BY <1>7, <1>9, FilesInvParts, PTL

LEMMA SaveSettingsKeeps ==
  ASSUME FilesInv, NEW h \in FileCalls, NEW driver \in Drivers,
         SaveSettings(h, driver)
  PROVE  FilesInv'
  <1> DEFINE c == [IdleFile EXCEPT !.op = "settings", !.pc = "refresh"]
  <1>1. /\ c \in FileHandlers /\ c.pc = "refresh" /\ c.op = "settings"
        /\ FileTo(h, c) /\ FilesTypeOK
    BY IdleFileMeans
    DEF SaveSettings, FileHandlers, FilePCs, FileOps, FilesInv
  <1> HIDE DEF c
  <1>2. Moves(h, c)
    BY <1>1, FileToMoves
  <1>3. ~Settled'
    BY <1>1, <1>2 DEF Settled, Moves, FileAt
  <1> QED BY <1>1, <1>3, ExcusedKeeps DEF SaveSettings, FilesTypeOK

LEMMA RefreshConfigKeeps ==
  ASSUME FilesInv, NEW h \in FileCalls, RefreshConfig(h)
  PROVE  FilesInv'
  <1> DEFINE c == [fileCall[h] EXCEPT !.pc = "load"]
  <1>1. /\ fileCall[h] \in FileHandlers /\ fileCall[h].pc = "refresh"
        /\ FilesTypeOK /\ HandlerInv(h)
    BY DEF RefreshConfig, FileAt, FilesInv, FilesTypeOK
  <1>2. /\ c \in FileHandlers /\ c.pc = "load" /\ c.op = "settings"
        /\ FileTo(h, c)
    BY <1>1 DEF FileHandlers, FilePCs, HandlerInv, RefreshConfig
  <1> HIDE DEF c
  <1> QED BY <1>1, <1>2, ExcusedKeeps, FilesAssumption
          DEF RefreshConfig, FilesTypeOK

\* A step of an upload to its place.  It may excuse the others.
LEMMA PlaceKeepsTable ==
  ASSUME FilesInv, NEW h \in FileCalls, NEW c \in FileHandlers,
         NEW rows \in [FileIds -> FileRows], NEW driver,
         Place(h, c, rows, driver), doomed' = doomed,
         savedDriver' \in Drivers, fileDriver' \in Drivers \cup {"unset"},
         configLoaded' \in BOOLEAN, misled' \in BOOLEAN,
         c.op = "upload", c.file \in FileIds,
         file[c.file].state \in {"none", "coming"},
         rows[c.file].state = "coming",
         driver = "local" => rows[c.file].wanted \in {"local", "any"},
         \A f \in FileIds \ {c.file} :
            /\ rows[f].state = file[f].state /\ rows[f].path = file[f].path
            /\ rows[f].wanted \in {file[f].wanted, "any"},
         \A g \in FileCalls \ {h} :
            Uploading(g) => fileCall[g].file # c.file
  PROVE  /\ TableInv'
         /\ Uploading(h)' /\ fileCall'[h].file = c.file
         /\ fileCall'[h].pc \in {"bucket", "record"}
         /\ \A f \in FileIds : file'[f].wanted = rows[f].wanted
         /\ \A g \in FileCalls \ {h} : /\ fileCall'[g] = fileCall[g]
                                       /\ Uploading(g) =>
                                             Same(fileCall[g].file)
  <1> DEFINE d == [c EXCEPT !.pc = IF driver = "local" THEN "record"
                                                      ELSE "bucket"]
  <1>1. PICK f : f = c.file
    OBVIOUS
  <1>2. PICK p : /\ p \in {f} \cup ({rows[e].path : e \in {g \in FileIds :
                                       rows[g].state = "coming"}} \ {0})
                 /\ file' = [rows EXCEPT ![f].path = p]
                 /\ stored' = IF driver = "local"
                              THEN [stored EXCEPT ![p] = @ \cup {"local"}]
                              ELSE stored
                 /\ FileTo(h, d)
    BY <1>1 DEF Place
  <1>3. p \in FileIds
    <2>1. \A e \in FileIds : rows[e].path \in 0..MaxFile
      BY DEF FileRows
    <2> QED BY <1>1, <1>2, <2>1, FilesAssumption DEF FileIds
  <1>4. TableInv /\ FilesTypeOK
    BY FilesInvParts DEF TableInv
  <1>5. /\ d \in FileHandlers /\ d.op = "upload" /\ d.file = f
        /\ d.pc = IF driver = "local" THEN "record" ELSE "bucket"
    BY <1>1 DEF FileHandlers, FilePCs
  <1> HIDE DEF d
  <1>6. Moves(h, d) /\ fileCall' \in [FileCalls -> FileHandlers]
    BY <1>2, <1>4, <1>5, FileToMoves
  <1>7. /\ file' \in [FileIds -> FileRows]
        /\ file'[f].path = p /\ file'[f].state = "coming"
        /\ \A e \in FileIds : file'[e].wanted = rows[e].wanted
        /\ \A e \in FileIds \ {f} : file'[e] = rows[e]
    <2>1. p \in 0..MaxFile
      BY <1>3, FilesAssumption DEF FileIds
    <2> QED BY <1>1, <1>2, <2>1 DEF FileRows
  <1>8. /\ stored' \in [FileIds -> SUBSET Drivers]
        /\ \A q \in FileIds : stored[q] \subseteq stored'[q]
        /\ driver = "local" => "local" \in stored'[p]
    BY <1>2, <1>3, <1>4 DEF FilesTypeOK, Drivers
  <1>9. FilesTypeOK'
    BY <1>4, <1>6, <1>7, <1>8 DEF FilesTypeOK
  <1>10. \A e \in FileIds \ {f} : Same(e)
    BY <1>1, <1>7 DEF Same
  <1>11. f \notin doomed /\ doomed \subseteq FileIds
    BY <1>1, <1>4 DEF FilesTypeOK, TableInv
  <1>12. Safe
    BY <1>8, <1>10, <1>11 DEF Safe, Same
  <1>13. Uploading(h)' /\ fileCall'[h] = d
    BY <1>5, <1>6 DEF Uploading, Moves, FileAt
  <1>14. HandlerInv(h)'
    <2>1. d.pc = "record" => Kept(f)' /\ Placed(f)'
      BY <1>1, <1>5, <1>7, <1>8 DEF Kept, Placed
    <2> QED BY <1>1, <1>3, <1>5, <1>7, <1>13, <2>1
            DEF HandlerInv, NamedPCs, Kept, Placed
  <1>15. ASSUME NEW g \in FileCalls \ {h}, Uploading(g)
         PROVE  Same(fileCall[g].file) /\ d.file # fileCall[g].file
    <2>1. fileCall[g].file \in FileIds /\ fileCall[g].file # f
      BY <1>1, <1>4, <1>15 DEF TableInv, HandlerInv
    <2> QED BY <1>5, <1>10, <2>1
  <1>16. ASSUME NEW e \in doomed' PROVE file'[e].state \in {"there", "gone"}
    BY <1>4, <1>10, <1>11 DEF TableInv, Same
  <1>17. ASSUME NEW e \in ThereAre' PROVE RecordKept(e)
    <2>1. e \in FileIds /\ e # f
      BY <1>7 DEF ThereAre
    <2> QED BY <1>10, <2>1 DEF RecordKept, ThereAre, Same
  <1>18. TableInv'
    BY <1>4, <1>6, <1>9, <1>12, <1>14, <1>15, <1>16, <1>17, TableKeeps
  <1> QED BY <1>1, <1>5, <1>6, <1>7, <1>13, <1>15, <1>18 DEF Moves

\* What a step to a place leaves of the configuration's invariant.
LEMMA PlaceKeepsConfig ==
  ASSUME FilesInv, NEW h \in FileCalls, savedDriver' = savedDriver,
         configLoaded', TableInv',
         Uploading(h)', fileCall'[h].pc \in {"bucket", "record"},
         \A g \in FileCalls \ {h} :
            /\ fileCall'[g] = fileCall[g]
            /\ Uploading(g) => Same(fileCall[g].file),
         Settled => Settled',
         Settled' => fileDriver' = savedDriver,
         file'[fileCall'[h].file].wanted # "any" =>
            Settled' /\ file'[fileCall'[h].file].wanted = savedDriver
  PROVE  FilesInv'
  <1>1. CalmInv(h)'
    BY DEF CalmInv
  <1>2. ASSUME NEW g \in FileCalls \ {h} PROVE CalmInv(g)'
    <2>1. CalmInv(g) /\ fileCall'[g] = fileCall[g]
      BY DEF FilesInv
    <2> QED BY <2>1, OthersStayCalm
  <1>3. ConfigInv'
    BY <1>1, <1>2 DEF ConfigInv
  <1> QED BY <1>3, FilesInvParts, PTL

LEMMA ApplyConfigKeeps ==
  ASSUME FilesInv, NEW h \in FileCalls, ApplyConfig(h)
  PROVE  FilesInv'
  <1> DEFINE c == fileCall[h]
  <1>1. /\ c \in FileHandlers /\ c.pc = "apply" /\ c.seen \in Drivers
        /\ HandlerInv(h) /\ CalmInv(h) /\ FilesTypeOK
        /\ c.op \in {"upload", "again", "settings"}
    BY DEF ApplyConfig, FileAt, FilesInv, FilesTypeOK, HandlerInv
  <1>2. /\ fileDriver' = c.seen /\ configLoaded' = TRUE
        /\ misled' = (c.seen # savedDriver)
        /\ UNCHANGED <<savedDriver, doomed>>
    BY DEF ApplyConfig
  <1>3. TableInv /\ ConfigInv
    BY FilesInvParts
  <1>4. Settled' => fileDriver' = savedDriver
    BY <1>2 DEF Settled
  <1>5. CASE c.op = "upload"
    <2>1. Place(h, c, file, c.seen)
      BY <1>5 DEF ApplyConfig, GoOn
    <2>2. Uploading(h) /\ c.file \in FileIds /\ file[c.file].state = "coming"
      BY <1>1, <1>5 DEF Uploading, FileAt, HandlerInv
    <2>3. file[c.file].wanted # "any" =>
             Settled /\ file[c.file].wanted = savedDriver
      BY <1>1, <2>2 DEF CalmInv
    <2>4. Settled => c.seen = savedDriver
      BY <1>1 DEF Settled, FileAt
    <2>5. \A g \in FileCalls \ {h} :
             Uploading(g) => fileCall[g].file # c.file
      BY <2>2 DEF FilesInv
    <2>6. file \in [FileIds -> FileRows]
      BY <1>1 DEF FilesTypeOK
    <2>7. c.seen = "local" => file[c.file].wanted \in {"local", "any"}
      BY <2>3, <2>4
    <2>8. /\ savedDriver' \in Drivers /\ fileDriver' \in Drivers \cup {"unset"}
          /\ configLoaded' \in BOOLEAN /\ misled' \in BOOLEAN
      BY <1>1, <1>2 DEF FilesTypeOK
    <2>9. \A f \in FileIds : file[f].wanted \in {file[f].wanted, "any"}
      OBVIOUS
    <2>10. /\ TableInv'
           /\ Uploading(h)' /\ fileCall'[h].file = c.file
           /\ fileCall'[h].pc \in {"bucket", "record"}
           /\ \A f \in FileIds : file'[f].wanted = file[f].wanted
           /\ \A g \in FileCalls \ {h} : /\ fileCall'[g] = fileCall[g]
                                         /\ Uploading(g) =>
                                               Same(fileCall[g].file)
      <3> HIDE DEF c
      <3> QED BY <1>1, <1>2, <1>5, <2>1, <2>2, <2>5, <2>6, <2>7, <2>8, <2>9,
                 PlaceKeepsTable
    <2>11. Settled => Settled'
      BY <1>2, <2>4, <2>10 DEF Settled, FileAt, Uploading
    <2>12. file'[fileCall'[h].file].wanted # "any" =>
              Settled' /\ file'[fileCall'[h].file].wanted = savedDriver
      BY <2>2, <2>3, <2>10, <2>11
    <2> QED BY <1>2, <1>4, <2>10, <2>11, <2>12, PlaceKeepsConfig
  <1>6. CASE c.op = "settings"
    <2>1. FileTo(h, IdleFile) /\ UNCHANGED <<stored, file>>
      BY <1>6 DEF ApplyConfig, GoOn, FileEnds
    <2>2. /\ Moves(h, IdleFile) /\ fileCall'[h] = IdleFile
          /\ fileCall' \in [FileCalls -> FileHandlers]
      BY <1>1, <2>1, FileToMoves, IdleFileMeans DEF Moves
    <2>3. FilesTypeOK'
      BY <1>1, <1>2, <2>1, <2>2 DEF FilesTypeOK
    <2>4. HandlerInv(h)' /\ CalmInv(h)' /\ ~Uploading(h)'
      BY <2>2, IdleKnows
    <2>5. Safe /\ \A f : Same(f)
      BY <1>2, <2>1 DEF Safe, Same
    <2>6. TableInv'
      <3>1. \A f \in doomed' : file'[f].state \in {"there", "gone"}
        BY <1>2, <1>3, <2>1 DEF TableInv
      <3>2. \A f \in ThereAre' : RecordKept(f)
        BY <2>1, <2>5 DEF ThereAre, RecordKept
      <3> QED BY <1>3, <2>2, <2>3, <2>4, <2>5, <3>1, <3>2, TableKeeps
    <2>7. ~Settled
      BY <1>1, <1>6 DEF Settled, FileAt
    <2>8. ASSUME NEW g \in FileCalls PROVE CalmInv(g)'
      <3>1. CASE g = h
        BY <2>4, <3>1
      <3>2. CASE g # h
        BY <1>2, <1>3, <2>2, <2>5, <2>7, <3>2, OthersStayCalm
        DEF Moves, ConfigInv
      <3> QED BY <3>1, <3>2
    <2>9. ConfigInv'
      BY <1>2, <1>4, <2>8 DEF ConfigInv
    <2> QED BY <2>6, <2>9, FilesInvParts, PTL
  <1>7. CASE c.op = "again"
    <2> DEFINE d == [c EXCEPT !.op = "upload", !.pc = "put"]
    <2>1. /\ d \in FileHandlers /\ d.pc = "put" /\ d.op = "upload"
          /\ d.file = c.file
      BY <1>1 DEF FileHandlers, FilePCs, FileOps
    <2>2. FileTo(h, d) /\ UNCHANGED <<stored, file>>
      BY <1>7 DEF ApplyConfig, GoOn
    <2>3. Moves(h, d)
      BY <1>1, <2>1, <2>2, FileToMoves
    <2>4. Uploading(h)
      BY <1>1, <1>7 DEF Uploading, FileAt
    <2>5. file[c.file].path \in FileIds /\ file[c.file].wanted = "any"
      BY <1>1, <1>7 DEF HandlerInv
    <2> HIDE DEF d
    <2>6. Harmless(d)
      BY <2>1 DEF Harmless
    <2>7. Settled => ~misled'
      BY <1>1, <1>2 DEF Settled, FileAt
    <2>8. Settled => Settled'
      BY <1>2, <2>3, <2>6, <2>7, SettledMoves
    <2>9. file' \in [FileIds -> FileRows] /\ \A f \in FileIds : Same(f)
      BY <1>1, <2>2 DEF FilesTypeOK, Same
    <2> QED BY <1>1, <1>2, <1>4, <2>1, <2>2, <2>4, <2>5, <2>8, <2>9,
               AgainKeeps
  <1> QED BY <1>1, <1>5, <1>6, <1>7

LEMMA IgnoreSettingsKeeps ==
  ASSUME FilesInv, NEW h \in FileCalls, IgnoreSettings(h)
  PROVE  FilesInv'
  <1> DEFINE c == fileCall[h]
  <1>1. /\ c \in FileHandlers /\ c.pc = "load"
        /\ HandlerInv(h) /\ FilesTypeOK
        /\ c.op \in {"upload", "again", "settings"}
    BY DEF IgnoreSettings, FileAt, FilesInv, FilesTypeOK, HandlerInv
  <1>2. /\ configLoaded' = TRUE /\ misled' = TRUE
        /\ UNCHANGED <<savedDriver, fileDriver, doomed>>
    BY DEF IgnoreSettings
  <1>3. ~Settled'
    BY <1>2 DEF Settled
  <1>4. /\ savedDriver' \in Drivers /\ fileDriver' \in Drivers \cup {"unset"}
        /\ configLoaded' \in BOOLEAN /\ misled' \in BOOLEAN
    BY <1>1, <1>2 DEF FilesTypeOK
  <1>5. CASE c.op = "upload"
    <2>1. Place(h, c, Excused, fileDriver)
      BY <1>5 DEF IgnoreSettings, GoOn
    <2>2. Uploading(h) /\ c.file \in FileIds /\ file[c.file].state = "coming"
      BY <1>1, <1>5 DEF Uploading, FileAt, HandlerInv
    <2>3. PICK rows : rows = Excused
      OBVIOUS
    <2>4. /\ rows \in [FileIds -> FileRows]
          /\ \A f \in FileIds : /\ rows[f].state = file[f].state
                                /\ rows[f].path = file[f].path
                                /\ rows[f].wanted \in {file[f].wanted, "any"}
                                /\ file[f].state = "coming" =>
                                      rows[f].wanted = "any"
      BY <1>1, <2>3 DEF Excused, FilesTypeOK, FileRows
    <2>5. \A g \in FileCalls \ {h} :
             Uploading(g) => fileCall[g].file # c.file
      BY <2>2 DEF FilesInv
    <2>6. Place(h, c, rows, fileDriver)
      BY <2>1, <2>3
    <2>7. /\ TableInv'
          /\ Uploading(h)' /\ fileCall'[h].file = c.file
          /\ fileCall'[h].pc \in {"bucket", "record"}
          /\ \A f \in FileIds : file'[f].wanted = rows[f].wanted
          /\ \A g \in FileCalls \ {h} : /\ fileCall'[g] = fileCall[g]
                                        /\ Uploading(g) =>
                                              Same(fileCall[g].file)
      <3> HIDE DEF c
      <3> QED BY <1>1, <1>2, <1>4, <1>5, <2>2, <2>4, <2>5, <2>6,
                 PlaceKeepsTable
    <2>8. ASSUME NEW g \in FileCalls, Uploading(g)'
          PROVE  file'[fileCall'[g].file].wanted = "any"
      <3>1. fileCall'[g].file \in FileIds
        BY <2>7, <2>8 DEF TableInv, HandlerInv
      <3>2. file[fileCall'[g].file].state = "coming"
        <4>1. CASE g = h
          BY <2>2, <2>7, <4>1
        <4>2. CASE g # h
          BY <2>7, <2>8, <4>2 DEF FilesInv, HandlerInv, Uploading, FileAt
        <4> QED BY <4>1, <4>2
      <3> QED BY <2>4, <2>7, <3>1, <3>2
    <2>9. ConfigInv'
      BY <1>3, <2>8 DEF ConfigInv, CalmInv
    <2> QED BY <2>7, <2>9, FilesInvParts, PTL
  <1>6. CASE c.op = "settings"
    <2>1. FileTo(h, IdleFile) /\ file' = Excused /\ UNCHANGED stored
      BY <1>6 DEF IgnoreSettings, GoOn, FileEnds
    <2>2. TableInv /\ IdleFile \in FileHandlers
      BY FilesInvParts, IdleFileMeans
    <2>3. /\ Moves(h, IdleFile) /\ fileCall'[h] = IdleFile
          /\ fileCall' \in [FileCalls -> FileHandlers]
      BY <1>1, <2>1, <2>2, FileToMoves DEF Moves
    <2>4. file' \in [FileIds -> FileRows] /\ \A f \in FileIds : Same(f)
      BY <1>1, <2>1 DEF Excused, FilesTypeOK, FileRows, Same
    <2>5. FilesTypeOK'
      BY <1>1, <1>2, <1>4, <2>1, <2>3, <2>4 DEF FilesTypeOK
    <2>6. HandlerInv(h)' /\ ~Uploading(h)'
      BY <2>3, IdleKnows
    <2>7. Safe /\ doomed \subseteq FileIds
      BY <1>1, <1>2, <2>1, <2>4 DEF Safe, Same, FilesTypeOK
    <2>8. ASSUME NEW g \in FileCalls \ {h}, Uploading(g)
          PROVE  Same(fileCall[g].file)
      BY <2>2, <2>4, <2>8 DEF TableInv, HandlerInv
    <2>9. ASSUME NEW f \in doomed' PROVE file'[f].state \in {"there", "gone"}
      BY <1>2, <2>2, <2>4, <2>7 DEF TableInv, Same
    <2>10. ASSUME NEW f \in ThereAre' PROVE RecordKept(f)
      BY <2>4 DEF ThereAre, RecordKept, Same
    <2>11. TableInv'
      BY <2>2, <2>3, <2>5, <2>6, <2>7, <2>8, <2>9, <2>10, TableKeeps
    <2>12. \A g \in FileCalls : CalmInv(g)'
      BY <2>1, <2>2, <2>11, ExcusedAreCalm
    <2>13. ConfigInv'
      BY <1>3, <2>12 DEF ConfigInv
    <2> QED BY <2>11, <2>13, FilesInvParts, PTL
  <1>7. CASE c.op = "again"
    <2> DEFINE d == [c EXCEPT !.op = "upload", !.pc = "put"]
    <2>1. /\ d \in FileHandlers /\ d.pc = "put" /\ d.op = "upload"
          /\ d.file = c.file
      BY <1>1 DEF FileHandlers, FilePCs, FileOps
    <2>2. FileTo(h, d) /\ UNCHANGED stored /\ file' = Excused
      BY <1>7 DEF IgnoreSettings, GoOn
    <2>3. Uploading(h)
      BY <1>1, <1>7 DEF Uploading, FileAt
    <2>4. file[c.file].path \in FileIds /\ file[c.file].wanted = "any"
      BY <1>1, <1>7 DEF HandlerInv
    <2>5. file' \in [FileIds -> FileRows] /\ \A f \in FileIds : Same(f)
      BY <1>1, <2>2 DEF Excused, FilesTypeOK, FileRows, Same
    <2> HIDE DEF d
    <2> QED BY <1>2, <1>3, <1>4, <2>1, <2>2, <2>3, <2>4, <2>5, AgainKeeps
  <1> QED BY <1>1, <1>5, <1>6, <1>7

LEMMA StartUploadKeeps ==
  ASSUME FilesInv, NEW h \in FileCalls, NEW f \in FileIds, StartUpload(h, f)
  PROVE  FilesInv'
  <1> DEFINE c == [IdleFile EXCEPT !.file = f]
             want == IF Settled THEN savedDriver ELSE "any"
             row == [NoFile EXCEPT !.state = "coming", !.wanted = want]
             rows == [file EXCEPT ![f] = row]
             d == [c EXCEPT !.pc = "load"]
  <1>1. /\ fileCall[h].pc = "idle" /\ file[f].state = "none"
        /\ UNCHANGED <<savedDriver, configLoaded, misled, doomed>>
        /\ FilesTypeOK
    BY DEF StartUpload, FileAt, IsNextFile, FilesInv
  <1>2. /\ c \in FileHandlers /\ c.op = "upload" /\ c.file = f
        /\ c.pc = "idle"
    BY IdleFileMeans, FilesAssumption DEF FileHandlers, FileIds
  <1>3. /\ d \in FileHandlers /\ d.op = "upload" /\ d.file = f
        /\ d.pc = "load"
    <2> HIDE DEF c
    <2> QED BY <1>2 DEF FileHandlers, FilePCs
  <1>4. /\ row \in FileRows /\ row.state = "coming" /\ row.wanted = want
    <2>1. NoFile \in FileRows /\ want \in Drivers \cup {"any"}
      BY <1>1, FilesAssumption DEF NoFile, FileRows, FilesTypeOK
    <2> HIDE DEF want
    <2> QED BY <2>1 DEF FileRows
  <1>5. /\ want \in {savedDriver, "any"}
        /\ want # "any" => Settled /\ want = savedDriver
    OBVIOUS
  <1>6. IF configLoaded
        THEN Place(h, c, rows, fileDriver) /\ UNCHANGED fileDriver
        ELSE /\ fileDriver' = EnvDriver
             /\ file' = rows
             /\ FileTo(h, d)
             /\ UNCHANGED stored
    BY DEF StartUpload, EnsureConfigLoaded
  <1> HIDE DEF c, d, want, row
  <1>7. /\ rows \in [FileIds -> FileRows]
        /\ rows[f] = row
        /\ \A g \in FileIds \ {f} : rows[g] = file[g]
    BY <1>1, <1>4 DEF FilesTypeOK
  <1> HIDE DEF rows
  <1>8. Harmless(fileCall[h])
    BY <1>1 DEF Harmless
  <1>9. \A g \in FileCalls : Uploading(g) =>
           /\ fileCall[g].file \in FileIds /\ fileCall[g].file # f
           /\ g # h
    BY <1>1 DEF FilesInv, HandlerInv, Uploading, FileAt
  <1>10. CASE configLoaded
    <2>1. Place(h, c, rows, fileDriver) /\ UNCHANGED fileDriver
      BY <1>6, <1>10
    <2>2. Settled => fileDriver = savedDriver
      BY <1>10 DEF FilesInv
    <2>3. fileDriver = "local" => rows[f].wanted \in {"local", "any"}
      BY <1>4, <1>5, <1>7, <2>2
    <2>4. /\ savedDriver' \in Drivers /\ fileDriver' \in Drivers \cup {"unset"}
          /\ configLoaded' \in BOOLEAN /\ misled' \in BOOLEAN
      BY <1>1, <2>1 DEF FilesTypeOK
    <2>5. /\ TableInv'
          /\ Uploading(h)' /\ fileCall'[h].file = f
          /\ fileCall'[h].pc \in {"bucket", "record"}
          /\ \A g \in FileIds : file'[g].wanted = rows[g].wanted
          /\ \A g \in FileCalls \ {h} : /\ fileCall'[g] = fileCall[g]
                                        /\ Uploading(g) =>
                                              Same(fileCall[g].file)
      BY <1>1, <1>2, <1>4, <1>7, <1>9, <2>1, <2>3, <2>4, PlaceKeepsTable
    <2>6. Settled => Settled'
      BY <1>1, <2>5 DEF Settled, Uploading, FileAt
    <2>7. Settled' => Settled
      <3>1. Settled' => ~misled
        BY <1>1 DEF Settled
      <3> QED BY <1>1, <1>8, <2>5, <3>1 DEF Settled, Harmless, FileAt
    <2>8. file'[fileCall'[h].file].wanted # "any" =>
             Settled' /\ file'[fileCall'[h].file].wanted = savedDriver
      BY <1>4, <1>5, <1>7, <2>5, <2>6
    <2> QED BY <1>1, <1>10, <2>1, <2>2, <2>5, <2>6, <2>7, <2>8,
               PlaceKeepsConfig
  <1>11. CASE ~configLoaded
    <2>1. /\ fileDriver' = EnvDriver /\ file' = rows /\ FileTo(h, d)
          /\ UNCHANGED stored
      BY <1>6, <1>11
    <2>2. /\ Moves(h, d) /\ fileCall'[h] = d
          /\ fileCall' \in [FileCalls -> FileHandlers]
      BY <1>1, <1>3, <2>1, FileToMoves DEF Moves
    <2>3. FilesTypeOK'
      BY <1>1, <1>7, <2>1, <2>2, FilesAssumption DEF FilesTypeOK
    <2>4. HandlerInv(h)'
      BY <1>3, <1>4, <1>7, <2>1, <2>2
      DEF HandlerInv, Uploading, FileAt, NamedPCs
    <2>5. \A g \in FileIds \ {f} : Same(g)
      BY <1>7, <2>1 DEF Same
    <2>6. doomed \subseteq FileIds /\ f \notin doomed
      BY <1>1 DEF FilesInv, FilesTypeOK
    <2>7. Safe
      BY <1>1, <2>1, <2>5, <2>6 DEF Safe, Same
    <2>8. TableInv /\ ConfigInv
      BY FilesInvParts
    <2>9. TableInv'
      <3>1. ASSUME NEW g \in FileCalls \ {h}, Uploading(g)
            PROVE  Same(fileCall[g].file) /\ d.file # fileCall[g].file
        BY <1>3, <1>9, <2>5, <3>1
      <3>2. ASSUME NEW e \in doomed'
            PROVE  file'[e].state \in {"there", "gone"}
        BY <1>1, <2>5, <2>6, <2>8 DEF TableInv, Same
      <3>3. ASSUME NEW e \in ThereAre' PROVE RecordKept(e)
        <4>1. e \in FileIds /\ e # f
          BY <1>4, <1>7, <2>1 DEF ThereAre
        <4> QED BY <2>5, <4>1 DEF RecordKept, ThereAre, Same
      <3> QED BY <2>2, <2>3, <2>4, <2>7, <2>8, <3>1, <3>2, <3>3, TableKeeps
    <2>10. Harmless(d)
      BY <1>3 DEF Harmless
    <2>11. Settled => Settled'
      BY <1>1, <2>2, <2>10, SettledMoves DEF Settled
    <2>12. CalmInv(h)'
      BY <1>1, <1>3, <1>4, <1>5, <1>7, <2>1, <2>2, <2>11
      DEF CalmInv, NamedPCs
    <2>13. ASSUME NEW g \in FileCalls \ {h} PROVE CalmInv(g)'
      <3>1. CalmInv(g) /\ fileCall'[g] = fileCall[g]
        BY <2>2, <2>8 DEF ConfigInv, Moves
      <3>2. Uploading(g) => Same(fileCall[g].file)
        BY <1>9, <2>5
      <3> QED BY <1>1, <2>11, <3>1, <3>2, OthersStayCalm
    <2>14. ConfigInv'
      BY <1>1, <1>11, <2>12, <2>13 DEF ConfigInv
    <2> QED BY <2>9, <2>14, FilesInvParts, PTL
  <1> QED BY <1>10, <1>11

LEMMA FilesNextKeeps ==
  ASSUME FilesInv, [FilesNext]_filesVars
  PROVE  FilesInv'
  <1>1. CASE UNCHANGED filesVars
    BY <1>1
    DEF filesVars, FilesInv, FilesTypeOK, HandlerInv, CalmInv, Uploading,
        FileAt, NamedPCs, Settled, ThereAre, Kept, Placed
  <1>2. CASE RestartFiles
    BY <1>2, RestartFilesKeeps
  <1>3. ASSUME NEW h \in FileCalls, FileStep(h) PROVE FilesInv'
    BY <1>3, StartUploadKeeps, DeleteFileKeeps, SaveSettingsKeeps,
       ReadSettingsKeeps, ApplyConfigKeeps, IgnoreSettingsKeeps, BucketKeeps,
       PutObjectKeeps, RecordFileKeeps, RefreshConfigKeeps,
       DeleteFilesByContextKeeps, DeleteRowsKeeps, FileCallFailsKeeps
    DEF FileStep
  <1> QED BY <1>1, <1>2, <1>3 DEF FilesNext

(***************************************************************************)
(* In every behaviour of the files what a handler knows of its upload      *)
(* holds, and an upload that nothing disturbed finds the driver that the   *)
(* settings name.                                                          *)
(***************************************************************************)
THEOREM FilesInvariance == FilesSpec => []FilesInv
  <1>1. FilesInv /\ [FilesNext]_filesVars => FilesInv'
    BY FilesNextKeeps
  <1> QED BY <1>1, FilesInitKeeps, PTL DEF FilesSpec

(***************************************************************************)
(* The rows, stores, configuration and handlers keep their types.          *)
(***************************************************************************)
THEOREM FilesTypes == FilesSpec => []FilesTypeOK
  <1>1. FilesInv => FilesTypeOK
    BY DEF FilesInv
  <1> QED BY <1>1, FilesInvariance, PTL

(***************************************************************************)
(* However uploads, deletions, failures and restarts interleave, a file    *)
(* with a row has its object, unless one of its name was being deleted.    *)
(***************************************************************************)
THEOREM RecordedFilesStored == FilesSpec => []RecordedFileIsStored
  <1>1. FilesInv => RecordedFileIsStored
    BY DEF FilesInv, RecordedFileIsStored, Kept
  <1> QED BY <1>1, FilesInvariance, PTL

(***************************************************************************)
(* However many uploads load the configuration at once, an upload that no  *)
(* save and no failed read of the settings disturbed puts its file in the  *)
(* store the settings name.                                                *)
(***************************************************************************)
THEOREM FilesPlaced == FilesSpec => []StoredAsConfigured
  <1>1. FilesInv => StoredAsConfigured
    BY DEF FilesInv, StoredAsConfigured, Placed
  <1> QED BY <1>1, FilesInvariance, PTL

=============================================================================
