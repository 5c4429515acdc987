---------------------------- MODULE LedgerHistory ----------------------------
(***************************************************************************)
(* What the checks of closeFiscalPeriod and of the handlers that write     *)
(* into a period achieve when they overlap.  The checks are calls of their *)
(* own, so an entry may reach a period after a close has counted its       *)
(* drafts, and a write may land after the close: this module adds to       *)
(* Ledger the record of such events (history variables, written by every   *)
(* step and read by the properties only) and bounds them.                  *)
(***************************************************************************)
EXTENDS Ledger

VARIABLES
  unseen,   \* entries inserted into their period after a close has counted it
  late      \* period -> entries inserted or posted in it since it was shut

history == <<unseen, late>>
historyVars == <<vars, history>>

\* A handler that has counted a period's drafts, or read it as CLOSED, and has
\* yet to write its status.
Closing(r) == req[r].at \in {"close.previous", "close.update", "lock.update"}
Counted(p) == Shut(p) \/ \E q \in Requests : Closing(q) /\ req[q].p = p

\* A handler that has read a period as not closed, and has yet to write an
\* entry into it.
Writing(r) == req[r].at \in {"create.accounts", "create.insert", "post.update"}
WrittenPeriod(r) ==
  IF At(r, "post.update") THEN journal[req[r].id].period ELSE req[r].row.period

Inserts(e) == e \in DOMAIN journal' \ DOMAIN journal
Posts(e) == /\ e \in DOMAIN journal
            /\ journal[e].status # "POSTED" /\ journal'[e].status = "POSTED"
Writes(p) == \E e \in DOMAIN journal' : (Inserts(e) \/ Posts(e)) /\ journal'[e].period = p

RecordWrites ==
  /\ unseen' = unseen \cup {e \in EntryIds : Inserts(e) /\ Counted(journal'[e].period)}
  /\ late' = [p \in Periods |-> IF ~(Shut(p) /\ Shut(p)') THEN 0
                                ELSE IF Writes(p) THEN late[p] + 1 ELSE late[p]]

HistoryInit == Init /\ unseen = {} /\ late = [p \in Periods |-> 0]
HistoryNext == Next /\ RecordWrites
HistorySpec == HistoryInit /\ [][HistoryNext]_historyVars

-----------------------------------------------------------------------------

\* Cannot close period with N draft journal entries (closeFiscalPeriod): a
\* draft in a closed or locked period was inserted after the close had counted
\* the drafts; none that was there to be counted is ever left behind, by
\* whatever posts, voids, reversals and other closes run meanwhile.
ShutDraftsUnseen ==
  \A e \in DOMAIN journal :
    journal[e].status = "DRAFT" /\ Shut(journal[e].period) => e \in unseen

\* Cannot create, cannot post in a closed period (createJournalEntry,
\* postJournalEntry): only handlers that had read the period before it was shut
\* still write into it, each once, so fewer than there are request slots, as
\* one of them was closing it.
LateWritesBounded ==
  \A p \in Periods : Shut(p) => late[p] < Cardinality(Requests)

\* What is inductive about drafts: from the moment a close has counted the
\* drafts of a period until it is reopened, every draft in it is unseen.
DraftsInv ==
  /\ unseen \subseteq EntryIds
  /\ \A e \in DOMAIN journal :
       journal[e].status = "DRAFT" /\ Counted(journal[e].period) => e \in unseen

\* What is inductive about late writes: a slot has either written late or may
\* still do so, and the slot that closed the period has done neither.
LateWriters(p) == {r \in Requests : Writing(r) /\ WrittenPeriod(r) = p}
WritesInv ==
  /\ late \in [Periods -> Nat]
  /\ \A p \in Periods :
       Shut(p) => late[p] + Cardinality(LateWriters(p)) < Cardinality(Requests)

=============================================================================
