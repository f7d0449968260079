------------------------------ MODULE PlanBuild ------------------------------
(***************************************************************************)
(* How one plan becomes a transaction, tick after tick: the executor loads *)
(* (or creates, or warms up) its lookup table, has the presubmitter build  *)
(* the plan ahead, builds it again, shrinks it until it fits, validates    *)
(* it, and sends it with a rebuilt compute budget at every attempt         *)
(* (execute/executor.ts, execute/planTxBuilder.ts, presubmit/).            *)
(*                                                                         *)
(* Each build reads the chain up to four times and each read twice (the    *)
(* SDK's obligation, then its raw slots and the wallet's token accounts);  *)
(* between any two reads the obligation's owner, the wallet or another     *)
(* liquidator may change what the next one finds.  Broadcasting is on;     *)
(* which statuses end a tick and what a dry run does is module Executor's. *)
(***************************************************************************)
EXTENDS LiquidationIxs, LookupTable

CONSTANTS Obligations,   \* the shapes the obligation can take
          Plans,         \* the plans the queue can hold for it
          AtaNames,      \* the token accounts the wallet may lack
          PreMode,       \* PRE_RESERVE_REFRESH_MODE
          Limit,         \* MAX_RAW_TX_BYTES
          Prices,        \* the values EXEC_CU_PRICE can have
          Samples,       \* the percentiles of recent fees the RPC node can answer
          Floor, Cap,    \* EXEC_PRIORITY_FEE_FLOOR_, _CAP_MICROLAMPORTS
          Bump,          \* cuPriceBumpMicrolamports
          JitoTip,       \* transactions are sent to Jito, with a tip
          MaxAttempts,   \* BOT_MAX_ATTEMPTS_PER_PLAN
          None           \* nothing

\* The slots of an obligation hold reserves of the market; a plan names two of
\* them, or not.  Neither word for "nothing" is a table.
Leg == [reserve : Reserves, active : BOOLEAN]
ASSUME ReservesAssumption == IsFiniteSet(Reserves)
ASSUME ObligationsAssumption == \A o \in Obligations : o.deposits \in Seq(Leg) /\ o.borrows \in Seq(Leg)
ASSUME PlansAssumption == \A p \in Plans : {p.repay, p.collateral} \subseteq Reserves \union {NoReserve}
ASSUME NothingAssumption == NoTable \notin Seq(Reserves) /\ None \notin Seq(Reserves)
ASSUME LimitsAssumption == Limit \in Nat /\ MaxAttempts \in Nat

VARIABLES ob, missing,   \* the chain: the obligation, the accounts the wallet lacks
          plan, price0,  \* the plan, and EXEC_CU_PRICE
          pc,            \* where the tick is
          caller,        \* who builds: "warmup", "prebuild", "presubmit" or "executor"
          profiles,      \* the build profiles not yet tried; the first one is being tried
          read,          \* the obligation as the SDK loaded it, before its raw slots are read
          work,          \* the build in progress
          warmed,        \* executorLutWarmupAttempted
          preLut,        \* the presubmitter's copy of the table, loaded once, or None
          entry,         \* the presubmitter's cache: its transaction, or None
          cached,        \* presubmittedTx of this attempt, or None
          out            \* the transaction last simulated or sent, or None

chainVars == <<ob, missing, plan, price0>>
tickVars == <<pc, caller, profiles, read, work, cached, out>>
processVars == <<warmed, preLut, entry>>
vars == <<chainVars, tickVars, processVars, lutVars>>

\* A build profile: with or without farm refreshes, with or without the compute
\* budget instructions.  The first one has both; which others are tried when it
\* does not fit depends on whether farms are required.
Profile == [noFarms : BOOLEAN, omit : BOOLEAN]
\* Mutant: the smaller profiles, required or not.
SmallerAlways(required) ==
  <<[noFarms |-> TRUE, omit |-> FALSE], [noFarms |-> TRUE, omit |-> TRUE]>>
Default == [noFarms |-> FALSE, omit |-> FALSE]
Smaller(required) ==
  IF required # <<>> THEN <<[noFarms |-> FALSE, omit |-> TRUE]>>
  ELSE <<[noFarms |-> TRUE, omit |-> FALSE], [noFarms |-> TRUE, omit |-> TRUE]>>

NoWork == [stage |-> "initial", mode |-> "active", swap |-> <<>>, first |-> None, final |-> None,
           torn |-> FALSE, atomic |-> <<>>]

Complete == plan.repay # NoReserve /\ plan.collateral # NoReserve

Init ==
  /\ ob \in Obligations
  /\ missing \in SUBSET AtaNames
  /\ plan \in Plans
  /\ price0 \in Prices
  /\ pc = "idle" /\ caller = "executor"
  /\ profiles = <<>> /\ read = None /\ work = NoWork
  /\ warmed = FALSE /\ preLut = None /\ entry = None
  /\ cached = None /\ out = None
  /\ LutInit

Goto(p) == pc' = p

\* A build begins: buildFullTransaction, or one round of its caller's loop.
Begins(who, ps) ==
  /\ Goto("build")
  /\ caller' = who
  /\ profiles' = ps
  /\ read' = None
  /\ work' = NoWork

\* The tick returns, and with it everything that was local to it.
Ends ==
  /\ Goto("idle")
  /\ caller' = "executor"
  /\ profiles' = <<>> /\ read' = None /\ work' = NoWork
  /\ cached' = None /\ out' = None

Rest == UNCHANGED <<chainVars, processVars>>

(***************************************************************************)
(* The start of a tick: the lookup table, its warm-up, the prebuild.       *)
(***************************************************************************)
Tick ==
  /\ pc = "idle"
  /\ \/ ~saved /\ CreateSent /\ Goto("created")
     \/ saved /\ Load /\ Goto("loaded")
  /\ UNCHANGED <<caller, profiles, read, work, cached, out>>
  /\ Rest

\* createExecutorLut throws and the tick with it, or answers.
Created ==
  /\ pc = "created"
  /\ \/ CreateConfirmed /\ Goto("load") /\ UNCHANGED <<caller, profiles, read, work, cached, out>>
     \/ CreateFails /\ Ends
  /\ Rest

Loads ==
  /\ pc = "load"
  /\ Load
  /\ Goto("loaded")
  /\ UNCHANGED <<caller, profiles, read, work, cached, out>>
  /\ Rest

\* An empty table is filled from the queue, once in the life of the process.
\* A plan that is not complete gives the warm-up nothing.
WarmsUp ==
  /\ pc = "loaded"
  /\ IF ~warmed /\ lut = <<>>
     THEN /\ warmed' = TRUE
          /\ IF Complete THEN Begins("warmup", <<Default>>) /\ UNCHANGED <<cached, out>>
             ELSE Goto("prebuild") /\ UNCHANGED <<caller, profiles, read, work, cached, out>>
     ELSE /\ Goto("prebuild")
          /\ UNCHANGED <<warmed, caller, profiles, read, work, cached, out>>
  /\ UNCHANGED <<chainVars, preLut, entry, lutVars>>

\* After the presubmitter's first round comes the attempt, which drops a plan
\* that is not complete.
AfterPrebuild ==
  IF Complete THEN Goto("presubmit") /\ UNCHANGED <<caller, profiles, read, work, cached, out>>
  ELSE Ends

\* The presubmitter reads the table once: the flag is set before the answer is
\* there, so a load that fails is not repeated.
PresubmitterLut == IF preLut # None THEN preLut ELSE IF saved THEN chainLut ELSE NoTable

\* getOrBuild, for the prebuild and for the attempt: an entry that is fresh, or
\* was refreshed too recently, is answered as it is; otherwise the plan is built.
GetOrBuild ==
  /\ pc \in {"prebuild", "presubmit"}
  /\ \/ /\ entry # None
        /\ IF pc = "prebuild" THEN AfterPrebuild
           ELSE /\ Begins("executor", <<Default>>)
                /\ cached' = IF entry.mode = "atomic" THEN entry.ixs ELSE None
                /\ UNCHANGED out
        /\ UNCHANGED preLut
     \/ /\ Begins(pc, <<Default>>)
        /\ preLut' \in {PresubmitterLut, IF preLut # None THEN preLut ELSE NoTable}
        /\ UNCHANGED <<cached, out>>
  /\ UNCHANGED <<chainVars, warmed, entry, lutVars>>

(***************************************************************************)
(* buildPlanTransactions.                                                  *)
(***************************************************************************)
\* Mutant: the index of the flash borrow does not count the accounts created first.
OptsNoOffset(stage) ==
  [price |-> price0, omit |-> profiles[1].omit, noFarms |-> profiles[1].noFarms, pre |-> PreMode,
   mode |-> work.mode, swap |-> IF stage \in {"initial", "sizing"} THEN <<>> ELSE work.swap,
   flash |-> stage # "sizing", offset |-> 0]
Opts(stage) ==
  [price |-> price0, omit |-> profiles[1].omit, noFarms |-> profiles[1].noFarms, pre |-> PreMode,
   mode |-> work.mode, swap |-> IF stage \in {"initial", "sizing"} THEN <<>> ELSE work.swap,
   flash |-> stage # "sizing",
   offset |-> IF stage = "atomic" THEN Len(work.final.setup) ELSE 0]

\* The SDK loads the obligation ...
ReadsObligation ==
  /\ pc = "build" /\ read = None /\ work.stage # "built"
  /\ read' = ob
  /\ UNCHANGED <<pc, caller, profiles, work, cached, out, lutVars>>
  /\ Rest

\* ... and the builder reads its slots and the token accounts, and assembles.
Assembled == Canonical(read, ob, missing, plan, Opts(work.stage))
CrossMint == Mint[work.first.repay] # Mint[work.first.coll]

\* The build throws.  The warm-up skips the plan, the prebuild goes on without
\* it, and the attempt reports build-failed and ends the tick.
Throws ==
  CASE caller = "warmup" -> Goto("prebuild") /\ read' = None /\ UNCHANGED <<caller, profiles, work, cached, out>>
    [] caller = "prebuild" -> AfterPrebuild
    [] OTHER -> Ends

\* Of the first build only the pair and its farms are used again.
Initial ==
  /\ pc = "build" /\ read # None /\ work.stage = "initial"
  /\ IF ~Assembled.ok THEN Throws
     ELSE /\ work' = [work EXCEPT !.first = [Assembled EXCEPT !.setup = <<>>, !.ixs = <<>>],
                       !.stage = IF caller # "warmup" /\ Mint[Assembled.repay] # Mint[Assembled.coll]
                                      /\ Assembled.setup = <<>>
                                 THEN "sizing" ELSE "final"]
          /\ read' = None
          /\ UNCHANGED <<pc, caller, profiles, cached, out>>
  /\ UNCHANGED lutVars
  /\ Rest

\* The liquidation alone is simulated to size the swap.  Custom(6006) is retried
\* once with every slot that names a reserve; a healthy obligation ends the
\* build; any other failure, here or at the swap service, leaves it without a
\* swap, as does a service that knows no route.
Swap == <<Ix("swap", <<>>, 0)>>
Sizing(answer) ==
  /\ pc = "build" /\ read # None /\ work.stage = "sizing"
  /\ ~Assembled.ok => answer = "fails"
  /\ CASE answer = "healthy" \/ (answer = "6006" /\ work.mode = "nonDefault") -> Throws
       [] OTHER ->
            /\ work' = CASE answer = "swapped" -> [work EXCEPT !.swap = Swap, !.stage = "final"]
                         [] answer = "6006" -> [work EXCEPT !.mode = "nonDefault"]
                         [] OTHER -> [work EXCEPT !.stage = "final"]
            /\ read' = None
            /\ UNCHANGED <<pc, caller, profiles, cached, out>>
  /\ UNCHANGED lutVars
  /\ Rest

\* The transaction itself; when accounts are missing, once more with the flash
\* loan's index moved behind the instructions that create them.
Final ==
  /\ pc = "build" /\ read # None /\ work.stage = "final"
  /\ IF ~Assembled.ok THEN Throws
     ELSE /\ work' = [work EXCEPT !.final = Assembled, !.torn = (read # ob),
                       !.stage = IF Assembled.setup # <<>> THEN "atomic" ELSE "built",
                       !.atomic = Assembled.ixs]
          /\ read' = None
          /\ UNCHANGED <<pc, caller, profiles, cached, out>>
  /\ UNCHANGED lutVars
  /\ Rest

Atomic ==
  /\ pc = "build" /\ read # None /\ work.stage = "atomic"
  /\ IF ~Assembled.ok THEN Throws
     ELSE /\ work' = [work EXCEPT !.stage = "built", !.torn = (read # ob),
                       !.atomic = work.final.setup \o Assembled.ixs]
          /\ read' = None
          /\ UNCHANGED <<pc, caller, profiles, cached, out>>
  /\ UNCHANGED lutVars
  /\ Rest

SwapReady == CrossMint => work.swap # <<>>

\* A profile that does not fit is followed by the next one; the first says
\* which others there are.  With none left the build has failed.
NextProfiles ==
  IF profiles[1] = Default THEN Smaller(work.first.required) ELSE Tail(profiles)
NextProfile ==
  IF NextProfiles = <<>> THEN Throws /\ UNCHANGED entry
  ELSE Begins(caller, NextProfiles) /\ UNCHANGED <<cached, out, entry>>

\* The addresses of a copy of the table.
Table(copy) == IF copy \in {None, NoTable} THEN <<>> ELSE copy
\* Mutant: the accounts that are not in the table count for nothing.
TooLargeByCount(ixs, copy) == Len(ixs) > Limit
TooLarge(ixs, copy) == Bytes(ixs, Table(copy)) > Limit

(***************************************************************************)
(* What the callers do with a build.                                       *)
(***************************************************************************)
Built(who) == pc = "build" /\ work.stage = "built" /\ caller \in who

WarmupCollects ==
  /\ Built({"warmup"})
  /\ ExtendBegins(Candidates(work.final.setup \o work.final.ixs))
  /\ Goto("extend")
  /\ UNCHANGED <<caller, profiles, read, work, cached, out>>
  /\ Rest

\* buildEntry: a swap skipped because accounts are missing leaves no
\* transaction; a swap missing for another reason is an error.
PresubmitDecides ==
  /\ Built({"prebuild", "presubmit"})
  /\ LET skipped == work.final.setup # <<>> /\ ~SwapReady
         mode == IF skipped THEN "partial" ELSE IF work.final.setup # <<>> THEN "atomic" ELSE "main"
         ixs == IF mode = "atomic" THEN work.atomic ELSE work.final.ixs
     IN IF ~SwapReady /\ ~skipped THEN Throws /\ UNCHANGED entry
        ELSE IF ~skipped /\ TooLarge(ixs, preLut) THEN NextProfile
        ELSE /\ entry' = [mode |-> mode, ixs |-> IF mode = "atomic" THEN ixs ELSE <<>>]
             /\ IF caller = "prebuild" THEN AfterPrebuild
                ELSE /\ Begins("executor", <<Default>>)
                     /\ cached' = IF mode = "atomic" THEN ixs ELSE None
                     /\ UNCHANGED out
  /\ UNCHANGED <<chainVars, warmed, preLut, lutVars>>

\* The executor keeps the first profile that fits; a presubmitted transaction
\* stands only for the first one.  Without a swap a cross-mint liquidation ends
\* here, unless accounts must be created, which may be why it has none.
CandidateIxs == IF work.final.setup # <<>> THEN work.atomic ELSE work.final.ixs
\* Only the window check looks at the presubmitted transaction again.
Taken ==
  /\ Goto(IF work.final.setup # <<>> THEN "simulate" ELSE "validate")
  /\ cached' = IF profiles[1] = Default /\ work.final.setup = <<>> THEN cached ELSE None
  /\ UNCHANGED <<caller, profiles, read, work, out>>
\* A liquidation of two mints that creates no account needs its swap.
Chosen ==
  IF CrossMint /\ work.swap = <<>> /\ work.final.setup = <<>> THEN Ends ELSE Taken

ExecutorSizes ==
  /\ Built({"executor"})
  /\ IF ~TooLarge(CandidateIxs, lut) THEN Chosen /\ UNCHANGED <<entry, lutVars>>
     ELSE IF lut # NoTable /\ Accounts(CandidateIxs) \ Range(lut) # {}
     THEN /\ ExtendBegins(Candidates(CandidateIxs))
          /\ Goto("extend")
          /\ UNCHANGED <<caller, profiles, read, work, cached, out, entry>>
     ELSE NextProfile /\ UNCHANGED lutVars
  /\ UNCHANGED <<chainVars, warmed, preLut>>

\* extendExecutorLut, batch by batch.  The warm-up catches its failure and goes
\* on with the copy it has; in the attempt it ends the tick (build-failed).
Extends ==
  /\ pc = "extend"
  /\ \/ BatchConfirmed /\ UNCHANGED tickVars
     \/ /\ BatchFails
        /\ IF caller = "warmup" THEN Goto("prebuild") /\ UNCHANGED <<caller, profiles, read, work, cached, out>>
           ELSE Ends
  /\ Rest

Extended ==
  /\ pc = "extend" /\ todo = <<>>
  /\ IF caller = "warmup"
     THEN Goto("prebuild") /\ UNCHANGED <<caller, profiles, read, work, cached, out, entry>>
     ELSE IF TooLarge(CandidateIxs, lut) THEN NextProfile
     ELSE Chosen /\ UNCHANGED entry
  /\ UNCHANGED <<chainVars, warmed, preLut, lutVars>>

\* The atomic transaction is simulated; it is sent if that succeeds, whether or
\* not it has the swap it needs.  If it fails for want of the swap, the accounts
\* are created alone, and the tick ends.
Creates(accounts) == missing' = missing \ {accounts[i].kind : i \in DOMAIN accounts}
SimulatesAtomic ==
  /\ pc = "simulate"
  /\ \/ Goto("send") /\ UNCHANGED <<caller, profiles, read, work, cached, out, missing>>
     \/ Ends /\ UNCHANGED missing
     \/ ~SwapReady /\ Ends /\ Creates(work.final.setup)
  /\ UNCHANGED <<ob, plan, price0, processVars, lutVars>>

\* The window check.  It looks at the presubmitted transaction when there is one.
HasFarms == IF cached = None THEN work.first.hasFarms ELSE Position(cached, "refreshFarms") # -1
RequiresPost ==
  \/ work.first.required # <<>>
  \/ IF cached = None THEN work.final.hasFarms
     ELSE KindAt(cached, Position(cached, "liquidate") + 2) = "refreshFarms"
\* Mutant: the window is not looked at.
ValidatesNothing ==
  /\ pc = "validate"
  /\ Goto("send") /\ UNCHANGED <<caller, profiles, read, work, cached, out, lutVars>>
  /\ Rest
Validates ==
  /\ pc = "validate"
  /\ LET ixs == IF cached = None THEN work.final.ixs ELSE cached
     IN IF /\ work.first.required # <<>> => HasFarms
           /\ ValidWindow(ixs, HasFarms, RequiresPost)
        THEN Goto("send") /\ cached' = None /\ UNCHANGED <<caller, profiles, read, work, out>>
        ELSE Ends
  /\ UNCHANGED lutVars
  /\ Rest

\* The compute unit price of the first attempt: the configured one, or what
\* recent fees suggest, no less than the floor and no more than the cap; a
\* later attempt may raise it.
AtLeast(a, b) == IF a < b THEN b ELSE a
Clamped(v) == LET top == AtLeast(Floor, Cap) IN IF AtLeast(v, Floor) > top THEN top ELSE AtLeast(v, Floor)
Quoted == {price0} \union {Clamped(AtLeast(price0, s)) : s \in Samples}
NextPrices == IF out = None THEN Quoted ELSE {out.price, out.price + Bump}
Attempt == IF out = None THEN 1 ELSE out.attempt + 1

\* Every attempt rebuilds the budget and appends the tip; the size and the
\* window are not checked again.
Rebuilt(ixs, price) ==
  WithUpdatedComputeBudget(ixs, price) \o (IF JitoTip THEN <<Ix("tip", <<>>, 0)>> ELSE <<>>)
Sends ==
  /\ pc = "send"
  /\ Attempt <= MaxAttempts
  /\ \E price \in NextPrices :
       out' = [attempt |-> Attempt, price |-> price, ixs |-> Rebuilt(CandidateIxs, price)]
  /\ UNCHANGED <<pc, caller, profiles, read, work, cached, lutVars>>
  /\ Rest

\* The last attempt succeeded or failed; one that landed created the accounts.
Sent ==
  /\ pc = "send" /\ out # None
  /\ Ends
  /\ UNCHANGED missing \/ Creates(work.final.setup)
  /\ UNCHANGED <<ob, plan, price0, processVars, lutVars>>

(***************************************************************************)
(* The rest of the world.                                                  *)
(***************************************************************************)
ChainMoves ==
  /\ \/ ob' \in Obligations \ {ob} /\ UNCHANGED missing
     \/ UNCHANGED ob /\ \E a \in AtaNames :
          missing' = IF a \in missing THEN missing \ {a} ELSE missing \union {a}
  /\ UNCHANGED <<plan, price0, tickVars, processVars, lutVars>>

\* The process dies and is started again.
Crash ==
  /\ pc # "idle"
  /\ Ends
  /\ LutCrash
  /\ warmed' = FALSE /\ preLut' = None /\ entry' = None
  /\ UNCHANGED chainVars

Next ==
  \/ Tick \/ Created \/ Loads \/ WarmsUp \/ GetOrBuild
  \/ ReadsObligation \/ Initial \/ Final \/ Atomic
  \/ \E answer \in {"swapped", "noRoute", "6006", "healthy", "fails"} : Sizing(answer)
  \/ WarmupCollects \/ PresubmitDecides \/ ExecutorSizes \/ Extends \/ Extended
  \/ SimulatesAtomic \/ Validates \/ Sends \/ Sent
  \/ ChainMoves \/ Crash

Spec == Init /\ [][Next]_vars

-----------------------------------------------------------------------------
(* Properties.                                                              *)

IsIx(ix) == ix.index \in Nat /\ Range(ix.reserves) \subseteq Reserves
TypeOK ==
  /\ ob \in Obligations /\ missing \subseteq AtaNames /\ plan \in Plans /\ price0 \in Prices
  /\ pc \in {"idle", "created", "load", "loaded", "prebuild", "presubmit", "build", "extend",
              "simulate", "validate", "send"}
  /\ caller \in {"warmup", "prebuild", "presubmit", "executor"}
  /\ Range(profiles) \subseteq Profile /\ (pc = "build" => profiles # <<>>)
  /\ read \in Obligations \union {None}
  /\ warmed \in BOOLEAN /\ saved \in BOOLEAN
  /\ entry # None => entry.mode \in {"main", "atomic", "partial"}
  /\ cached # None => \A i \in DOMAIN cached : IsIx(cached[i])
  /\ out # None => out.attempt \in 1..MaxAttempts /\ \A i \in DOMAIN out.ixs : IsIx(out.ixs[i])
  /\ \A copy \in {chainLut, lut, preLut} : Range(Table(copy)) \subseteq Reserves
  /\ Len(Table(lut) \o todo) <= MaxAddresses /\ Len(Table(chainLut)) <= MaxAddresses

\* What is sent pays back the flash loan that was built: the index it names is
\* the borrow's, whatever was inserted before it (the accounts created first,
\* the compute budget a profile leaves out), but for the compute unit price
\* that a rebuilt budget adds to or takes from a transaction already built.
Count(ixs, kind) == Cardinality({i \in DOMAIN ixs : ixs[i].kind = kind})
IndexMovesOnlyWithBudget ==
  out # None =>
    LET repayAt == Position(out.ixs, "flashRepay") + 1
        added == Count(out.ixs, "computeBudget:price") - Count(CandidateIxs, "computeBudget:price")
    IN out.ixs[repayAt].index = Position(out.ixs, "flashBorrow") - added

\* "The borrowIxIndex parameter must match the position of flashBorrowIx in the
\* final transaction" (flashloan/kaminoFlashloan.ts).
BorrowIndexPointsAtBorrow ==
  out # None =>
    out.ixs[Position(out.ixs, "flashRepay") + 1].index = Position(out.ixs, "flashBorrow")

\* A transaction that creates no account is sent only as the program's own
\* window check accepts it, although it was built by profile, sized, validated,
\* perhaps in the place of the presubmitter's, and rebuilt afterwards.
SentWasValidated ==
  out # None /\ work.final.setup = <<>> =>
    ValidWindow(out.ixs, work.first.hasFarms, work.first.required # <<>> \/ work.final.hasFarms)

\* A farm the liquidation must refresh is refreshed right before and right
\* after it, however many profiles were tried to make the transaction fit.
FarmsNeverDropped ==
  out # None =>
    LET liq == Position(out.ixs, "liquidate") + 1
        farms == FarmModes(plan.repay, plan.collateral)
        there(from) == [i \in DOMAIN farms |-> KindAt(out.ixs, from + i)]
    IN \A i \in DOMAIN farms :
         /\ there(liq)[i] = "refreshFarms"
         /\ there(liq - Len(farms) - 1)[i] = "refreshFarms"

\* Whatever becomes of the obligation between planning and sending, the
\* transaction liquidates the pair of reserves the plan was made for.
PlannedPairOnly ==
  out # None =>
    LET liq == Position(out.ixs, "liquidate") + 1
    IN out.ixs[liq].reserves = <<plan.repay, plan.collateral>>

\* Every reserve the obligation's refresh reads was refreshed before it in the
\* same transaction, unless the obligation changed between the two reads of the
\* last build, has more reserves than are refreshed, or is named slot by slot
\* after a 6006.
ReservesAreFresh ==
  out # None /\ ~work.torn /\ work.mode = "active" =>
    LET at == Position(out.ixs, "refreshObligation") + 1
        named == Range(out.ixs[at].reserves)
        before == {r \in Reserves : \E i \in 1..at : /\ out.ixs[i].kind = "refreshReserve"
                                                   /\ out.ixs[i].reserves = <<r>>}
    IN Cardinality(named) <= MaxFull => named \subseteq before

\* What is sent exceeds the size limit by no more than the price and the tip
\* that are added after the size was checked.
OversizeIsBudgetOrTip ==
  out # None => Bytes(out.ixs, Table(lut)) <= Limit + (Len(out.ixs) - Len(CandidateIxs))

\* An address is put into the lookup table twice only by a tick that did not see
\* its own batch land.
Full == Table(chainLut) \o todo
RepeatsOnlyFromStaleCopy ==
  [][~Repeated(Full) /\ Repeated(Full') => lut # chainLut]_vars

\* The file names only a table that exists, whichever confirmation is lost and
\* wherever the process dies.
SavedIsOnChain == saved => chainLut # NoTable
=============================================================================
