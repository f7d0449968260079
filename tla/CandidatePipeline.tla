--------------------------- MODULE CandidatePipeline ---------------------------
(***************************************************************************)
(* The rounds of the candidate pipeline (bot/live.ts,                      *)
(* pipeline/runInitialPipeline.ts, buildCandidates.ts, buildQueue.ts),     *)
(* from the reserves to the queue, and beside them the realtime updater's  *)
(* oracle cache, loaded once at startup and then fed by the stream.  Both  *)
(* load the reserves, and so clear the map of the Scope chains.            *)
(*                                                                         *)
(* A round awaits the RPC node at every step; prices, the clock and the    *)
(* stream go on.  Obligations themselves do not change here (what becomes  *)
(* of the queue between two rounds is TxQueueFile's and BotScheduler's).   *)
(***************************************************************************)
EXTENDS CandidateOps

CONSTANTS Obs,         \* the obligations: legs and what the program stored of their health
          Outcomes,    \* what a load of the reserves can find
          NewPrices,   \* the accounts an oracle can publish: price, width, decodability
          StartPrices, \* and those it can hold at the start
          Configs,     \* configurations: LIQSOL_HEALTH_SOURCE, and how candidates are
                       \* ranked, "ev" (USE_EV_RANKING) or "priority"
          KlendAnswers,   \* what KLend's SDK can make of each obligation
          MaxTime, MaxRounds, MaxPublished, MaxInFlight   \* bounds

ASSUME PublishedAssumption ==
  NewPrices \in [Mints -> SUBSET Account] /\ StartPrices \subseteq [Mints -> Account]
ASSUME AnswersAssumption ==
  KlendAnswers \in [DOMAIN Obs -> SUBSET [raw : Nat, debt : Nat \ {0}]] /\ None \notin UNION Range(KlendAnswers)
ASSUME OutcomesAssumption == Outcomes \subseteq [Mints -> Outcome]
ASSUME ObsAssumption ==
  /\ IsFiniteSet(DOMAIN Obs)
  /\ \A o \in DOMAIN Obs : \A l \in Range(Obs[o].deposits) \union Range(Obs[o].borrows) : l.mint \in Mints
ASSUME BoundsAssumption ==
  MaxTime \in Nat \ {0} /\ {MaxRounds, MaxPublished, MaxInFlight} \subseteq Nat

VARIABLES now, acct,    \* the clock and the price accounts
          published,    \* how many prices were published (bounded)
          wire,         \* updates the stream has not delivered yet
          source, ranking,   \* the configured source of health and mode of ranking
          pc, round,    \* the pipeline's step and its round
          rc, oc,       \* its reserve and oracle caches
          loadedAt,     \* when its oracle cache was loaded
          scored,       \* the obligations its indexer has scored
          ranked,       \* its candidates, ranked
          forecasts,    \* forecastCache, which outlives a round
          file, queue,  \* candidates.json and tx_queue.json
          chains,       \* scopeOracleMintChains: the mints that have a chain
          livePc, liveRc, live   \* the realtime updater: its startup, its caches

worldVars == <<now, acct, published, wire, source, ranking>>
roundVars == <<pc, round, rc, oc, loadedAt, scored, ranked, forecasts, file, queue>>
liveVars == <<livePc, liveRc, live>>
vars == <<worldVars, roundVars, chains, liveVars>>

NoReserves == [m \in Mints |-> "missing"]
NoPrices == [m \in Mints |-> NoPrice]
\* What a round holds in local variables is gone when it ends.  (rc stays to tell
\* what the last load found.)
Forgotten == oc' = NoPrices /\ loadedAt' = 0 /\ scored' = {} /\ ranked' = <<>>
NoForecasts == [o \in DOMAIN Obs |-> None]

Init ==
  /\ now = 1 /\ published = 0 /\ wire = {}
  /\ acct \in {[m \in Mints |-> [p[m] EXCEPT !.ts = 1]] : p \in StartPrices}
  /\ \E c \in Configs : source = c.source /\ ranking = c.ranking
  /\ pc = "idle" /\ round = 0
  /\ rc = NoReserves /\ oc = NoPrices /\ loadedAt = 0
  /\ scored = {} /\ ranked = <<>> /\ forecasts = NoForecasts
  /\ file = None /\ queue = {}
  /\ chains = {}
  /\ livePc = "off" /\ liveRc = NoReserves /\ live = NoPrices

(***************************************************************************)
(* A round.                                                                *)
(***************************************************************************)
\* loadReserves clears the map before it asks.
RoundBegins ==
  /\ pc = "idle" /\ round < MaxRounds
  /\ pc' = "reserves" /\ round' = round + 1
  /\ chains' = {}
  /\ rc' = NoReserves
  /\ UNCHANGED <<worldVars, oc, loadedAt, scored, ranked, forecasts, file, queue, liveVars>>

RoundReserves ==
  /\ pc = "reserves"
  /\ rc' \in Outcomes
  /\ chains' = chains \union ChainsOf(rc')
  /\ pc' = "oracles"
  /\ UNCHANGED <<worldVars, round, oc, loadedAt, scored, ranked, forecasts, file, queue, liveVars>>

RoundOracles ==
  /\ pc = "oracles"
  /\ oc' = LoadOracles(rc, acct, chains, now)
  /\ loadedAt' = now
  /\ pc' = "bootstrap"
  /\ UNCHANGED <<worldVars, round, rc, scored, ranked, forecasts, file, queue, chains, liveVars>>

\* The obligations of the batches that were answered are scored and ranked a
\* first time.  With none scored the candidates of before stay in the file.
Bootstrap(answered) ==
  LET obs == [o \in answered |-> Obs[o]]
      cands == FilterCandidatesBySelectedLegUsd(Candidates(obs, rc, oc, source))
  IN /\ pc = "bootstrap"
     /\ scored' = {o \in answered : Scored(Obs[o], rc, oc, source) # None}
     /\ IF scored' = {}
        THEN pc' = "queue" /\ ranked' = <<>> /\ UNCHANGED forecasts
        ELSE /\ pc' = "verify"
             /\ forecasts' = ForecastsAfter(ranking, forecasts, cands, now)
             /\ ranked' \in SelectCandidates(ranking, forecasts, cands, now)
     /\ UNCHANGED <<worldVars, round, rc, oc, loadedAt, file, queue, chains, liveVars>>

\* Mutant: a round that ranks nobody leaves the file alone.
WrittenUnlessEmpty(top) == IF top = <<>> THEN file ELSE [round |-> round, at |-> now, top |-> top]
Written(top) == [round |-> round, at |-> now, top |-> top]

\* The first of the ranking are verified, all are ranked again, and the first
\* of these written to the file.  KLend's SDK answers from the accounts as they
\* are, or from what the verifier kept of them; or there is no answer: it is not
\* asked, the market or the obligation was not loaded, or nothing is owed.
VerifyAndWrite ==
  /\ pc = "verify"
  /\ LET checked == 1..Least(TopK, Len(ranked))
         Answers(i) == {None} \union IF i \in checked THEN KlendAnswers[ranked[i].key] ELSE {}
     IN \E answer \in {f \in [DOMAIN ranked -> UNION {Answers(i) : i \in DOMAIN ranked}] :
                         \A i \in DOMAIN ranked : f[i] \in Answers(i)} :
          LET cands == {Verified(ranked[i], answer[i], source) : i \in DOMAIN ranked}
          IN /\ ranked' \in SelectCandidates(ranking, forecasts, cands, now)
             /\ forecasts' = ForecastsAfter(ranking, forecasts, cands, now)
  /\ file' = Written(SubSeq(ranked', 1, Least(TopN, Len(ranked'))))
  /\ pc' = "queue"
  /\ UNCHANGED <<worldVars, round, rc, oc, loadedAt, scored, queue, chains, liveVars>>

\* buildQueue replaces the queue with the plans of the file, whoever wrote it.
\* Without a file it throws.  The first round is followed by the scheduler.
BuildQueue ==
  /\ pc = "queue" /\ file # None
  /\ queue' = {BuildPlanFromCandidate(c) : c \in FilterCandidates(file.top)}
  /\ pc' = "idle"
  /\ livePc' = IF livePc = "off" THEN "starting" ELSE livePc
  /\ Forgotten
  /\ UNCHANGED <<worldVars, round, rc, forecasts, file, chains, liveRc, live>>

\* A step throws, the last one before it replaces the queue.  The first round ends
\* the process; a later one is given up ("will retry next cycle"), whatever it had
\* cleared.
Fails ==
  /\ pc # "idle" /\ livePc # "off"
  /\ pc' = "idle" /\ Forgotten
  /\ UNCHANGED <<worldVars, round, rc, forecasts, file, queue, chains, liveVars>>

(***************************************************************************)
(* The realtime updater.                                                   *)
(***************************************************************************)
\* startBotStartupScheduler; no round waits for it.
LiveBegins ==
  /\ livePc = "starting"
  /\ livePc' = "reserves"
  /\ chains' = {}
  /\ UNCHANGED <<worldVars, roundVars, liveRc, live>>

LiveReserves ==
  /\ livePc = "reserves"
  /\ liveRc' \in Outcomes
  /\ chains' = chains \union ChainsOf(liveRc')
  /\ livePc' = "oracles"
  /\ UNCHANGED <<worldVars, roundVars, live>>

LiveOracles ==
  /\ livePc = "oracles"
  /\ live' = LoadOracles(liveRc, acct, chains, now)
  /\ livePc' = "on"
  /\ UNCHANGED <<worldVars, roundVars, chains, liveRc>>

\* An update of the stream, in whatever order.
Delivered(u) ==
  /\ livePc = "on" /\ u \in wire
  /\ wire' = wire \ {u}
  /\ live' = ApplyOracleAccountUpdate(live, liveRc, chains, u.mint, u.account, now)
  /\ UNCHANGED <<now, acct, published, source, ranking, roundVars, chains, livePc, liveRc>>

(***************************************************************************)
(* The rest of the world.                                                  *)
(***************************************************************************)
Publishes(m) ==
  /\ published < MaxPublished
  /\ published' = published + 1
  /\ \E a \in NewPrices[m] :
       /\ acct' = [acct EXCEPT ![m] = [a EXCEPT !.ts = now]]
       /\ acct' # acct
       /\ wire' = IF livePc = "off" \/ Cardinality(wire) = MaxInFlight THEN wire
                  ELSE wire \union {[mint |-> m, account |-> acct'[m]]}
  /\ UNCHANGED <<now, source, ranking, roundVars, chains, liveVars>>

Tick ==
  /\ now < MaxTime
  /\ now' = now + 1
  /\ UNCHANGED <<acct, published, wire, source, ranking, roundVars, chains, liveVars>>

\* The process ends (also when the first round or the scheduler's start throws)
\* and is started again; the two files remain.  (After the last round of the
\* bound nothing would follow.)
Restart ==
  /\ round \in 1..(MaxRounds - 1)
  /\ pc' = "idle"
  /\ rc' = NoReserves /\ Forgotten /\ forecasts' = NoForecasts
  /\ chains' = {}
  /\ livePc' = "off" /\ liveRc' = NoReserves /\ live' = NoPrices
  /\ wire' = {}
  /\ UNCHANGED <<now, acct, published, source, ranking, round, file, queue>>

Next ==
  \/ RoundBegins \/ RoundReserves \/ RoundOracles
  \/ \E answered \in SUBSET DOMAIN Obs : Bootstrap(answered)
  \/ VerifyAndWrite \/ BuildQueue \/ Fails
  \/ LiveBegins \/ LiveReserves \/ LiveOracles
  \/ \E u \in wire : Delivered(u)
  \/ \E m \in Mints : Publishes(m)
  \/ Tick \/ Restart

Spec == Init /\ [][Next]_vars
-----------------------------------------------------------------------------
(* Properties.                                                              *)

TypeOK ==
  /\ now \in 1..MaxTime /\ published \in 0..MaxPublished /\ Cardinality(wire) <= MaxInFlight
  /\ pc \in {"idle", "reserves", "oracles", "bootstrap", "verify", "queue"}
  /\ round \in 0..MaxRounds
  /\ {rc, liveRc} \subseteq [Mints -> Outcome]
  /\ \A m \in Mints : \A cache \in {oc, live} :
       cache[m] # NoPrice => /\ cache[m].ts \in 0..now
                             /\ m \in Stable => cache[m].price \in StableLow..StableHigh
  /\ scored \subseteq DOMAIN Obs
  /\ \A i, j \in DOMAIN ranked : ranked[i].key = ranked[j].key => i = j
  /\ chains \subseteq {m \in Mints : Kind[m] = "scope"}
  /\ livePc \in {"off", "starting", "reserves", "oracles", "on"}
  /\ \A p, q \in queue : p.key = q.key => p = q

\* A round replaces the queue: here from the file it wrote itself.
Requeues == BuildQueue /\ file.round = round

\* Every leg of an obligation a round puts into the queue had a usable price when
\* it loaded the oracles, timestamped and no older than its reserve allows, also
\* when the program's stored numbers put it there.
QueuedWasPriced ==
  [][Requeues =>
       \A p \in queue' : \A l \in Range(Obs[p.key].deposits) \union Range(Obs[p.key].borrows) :
         Usable(l.mint, oc[l.mint]) /\ loadedAt - oc[l.mint].ts <= MaxAge[l.mint]]_vars

\* With USE_EV_RANKING, a round leaves out an obligation it takes for liquidatable
\* only in favour of others it takes for liquidatable, however much more the rest
\* are worth (candidateSelector.ts: "Sort bucket-first, then EV within bucket").
\* The default mode, which sorts by priorityScore alone, does not promise that: a
\* large obligation at the threshold outranks a small one just below it.
LiquidatableFirst ==
  [][Requeues /\ ranking = "ev" =>
       \A i \in DOMAIN ranked :
         ranked[i].eligible /\ (\A p \in queue' : p.key # ranked[i].key)
           => \A p \in queue' : p.eligible]_vars

\* What KLend's SDK answered in this round decides whether a plan is forced past
\* the scheduler's thresholds, in a bot that scores by its own prices.
VerdictDecides ==
  [][Requeues /\ source = "recomputed" =>
       \A p \in queue' : \A i \in DOMAIN ranked :
         ranked[i].key = p.key /\ ranked[i].verified # None
           => p.eligible = IsLiquidatable(ranked[i].verified)]_vars

\* A time to liquidation written to the file was estimated within FORECAST_TTL_MS,
\* through however many rankings and rounds it was used again.
TtlIsRecent ==
  file # None => \A i \in DOMAIN file.top :
    file.top[i].forecast # None => file.at - file.top[i].forecast.since <= ForecastTtl

\* After a round that scored anything, the queue holds plans for what it scored
\* and nothing of an older file.
NoOldPlansOnceScored ==
  [][BuildQueue /\ scored # {}
       => file.round = round /\ \A p \in queue' : p.key \in scored]_vars

\* A delivered update that decodes, is fresh and is newer reaches the updater's
\* cache; a Scope price may be missed while a round is loading the reserves, or
\* when its load failed or did not find the reserve.
LiveUpdateApplied ==
  [][\A u \in wire :
       /\ livePc = "on" /\ livePc' = "on" /\ wire' = wire \ {u}
       /\ u.mint \in Known(liveRc) /\ pc # "reserves"
       /\ Kind[u.mint] = "scope" => u.mint \in Known(rc)
       /\ Decodes(u.mint, u.account) /\ Fresh(u.mint, u.account, now)
       /\ live[u.mint] # NoPrice => live[u.mint].ts < u.account.ts
       => live'[u.mint] # NoPrice /\ live'[u.mint].ts = u.account.ts]_vars

\* The updater never replaces a price by an older one, in whatever order the
\* stream delivers.
LivePriceNeverRegresses ==
  [][\A m \in Mints :
       livePc = "on" /\ livePc' = "on" /\ live[m] # NoPrice
         => live'[m] # NoPrice /\ live'[m].ts >= live[m].ts]_vars
=============================================================================
