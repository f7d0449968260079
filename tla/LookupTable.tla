----------------------------- MODULE LookupTable -----------------------------
(***************************************************************************)
(* The executor's address lookup table: solana/executorLutManager.ts       *)
(* creates it and adds addresses to it in batches, each a transaction of   *)
(* its own; state/setupState.ts keeps its address in a file; a tick works  *)
(* from the copy it loaded (execute/executor.ts).                          *)
(***************************************************************************)
EXTENDS Selections, SequencesExt

CONSTANTS NoTable,        \* there is no lookup table
          MaxAddresses,   \* MAX_LUT_ADDRESSES
          BatchSize       \* EXTEND_BATCH_SIZE

ASSUME MaxAddressesAssumption == MaxAddresses \in Nat \ {0}
ASSUME BatchSizeAssumption == BatchSize \in Nat \ {0}

VARIABLES chainLut,   \* the accounts of the table last created, on chain, or NoTable
          saved,      \* setup_state.json holds its address
          lut,        \* the copy this tick loaded, or NoTable
          todo        \* the addresses extendExecutorLut has still to add

lutVars == <<chainLut, saved, lut, todo>>

LutInit ==
  /\ chainLut \in {NoTable, <<>>}
  /\ saved = (chainLut # NoTable)
  /\ lut = NoTable
  /\ todo = <<>>

\* Mutant: the address is written before the confirmation.
CreateSentSaved ==
  /\ chainLut' \in {NoTable, <<>>}
  /\ saved' = TRUE
  /\ UNCHANGED <<lut, todo>>

\* createExecutorLut sends the transaction, which lands or does not.
CreateSent ==
  /\ chainLut' \in {NoTable, <<>>}
  /\ UNCHANGED <<saved, lut, todo>>

\* It is seen confirmed: the address is written to the file at once.
CreateConfirmed ==
  /\ chainLut # NoTable
  /\ saved' = TRUE
  /\ UNCHANGED <<chainLut, lut, todo>>

\* Without the address in the file nobody finds the table again: the wallet has
\* paid for it, and the next tick creates another.
Forgotten == chainLut' = IF saved THEN chainLut ELSE NoTable

\* The confirmation does not come: createExecutorLut throws, landed or not.
CreateFails == Forgotten /\ UNCHANGED <<saved, lut, todo>>

Load ==
  /\ lut' = IF saved THEN chainLut ELSE NoTable
  /\ UNCHANGED <<chainLut, saved, todo>>

\* Mutants: an extension adds what it wants, as far as there is room; or all
\* that the copy lacks.
LackingOrNot(want) ==
  LET room == MaxAddresses - Len(lut)
  IN SubSeq(want, 1, IF Len(want) < room THEN Len(want) ELSE room)
LackingWithoutRoom(want) == Kept(want, {i \in DOMAIN want : want[i] \notin Range(lut)})

\* What an extension adds: the addresses the copy lacks, as many as it has room for.
Lacking(want) ==
  LET new == Kept(want, {i \in DOMAIN want : want[i] \notin Range(lut)})
      room == MaxAddresses - Len(lut)
  IN SubSeq(new, 1, IF Len(new) < room THEN Len(new) ELSE room)

ExtendBegins(want) ==
  /\ todo' = Lacking(want)
  /\ UNCHANGED <<chainLut, saved, lut>>

Batch == SubSeq(todo, 1, IF Len(todo) < BatchSize THEN Len(todo) ELSE BatchSize)

\* A batch is confirmed; after the last one the table is loaded again.
BatchConfirmed ==
  /\ todo # <<>>
  /\ Len(chainLut) + Len(Batch) <= MaxAddresses
  /\ chainLut' = chainLut \o Batch
  /\ todo' = SubSeq(todo, Len(Batch) + 1, Len(todo))
  /\ lut' = IF todo' = <<>> THEN chainLut' ELSE lut
  /\ UNCHANGED <<saved>>

\* A batch fails, or lands without being seen: extendExecutorLut throws and the
\* caller keeps the copy it had.  (The reload after the last batch may fail too.)
BatchFails ==
  /\ todo # <<>>
  /\ \/ UNCHANGED chainLut
     \/ /\ Len(chainLut) + Len(Batch) <= MaxAddresses
        /\ chainLut' = chainLut \o Batch
  /\ todo' = <<>>
  /\ UNCHANGED <<saved, lut>>

\* The process dies.
LutCrash ==
  /\ Forgotten
  /\ lut' = NoTable
  /\ todo' = <<>>
  /\ UNCHANGED saved

\* An address stands twice in a table.
Repeated(s) == Cardinality(Range(s)) < Len(s)
=============================================================================
