----------------------------- MODULE WeightLedger -----------------------------
(***************************************************************************)
(* What the usage events promise of a spool's weight: every account (a     *)
(* spool) has a balance that changes only by posting an entry (a usage     *)
(* event), an entry is posted at most once and never changes afterwards,   *)
(* and it records the balance it found and the balance it left.  Copies of *)
(* the whole ledger may be kept, and the ledger may go back to one of them *)
(* (a restore of a backup).                                                *)
(***************************************************************************)
EXTENDS Integers

CONSTANTS Accounts, Entries, NoAccount

VARIABLES
  state,    \* state[a]: "new", "open" or "closed"
  balance,  \* balance[a], meaningful once the account is open
  entry,    \* entry[e]
  copies    \* the copies kept

bookVars == <<state, balance, entry>>
ledgerVars == <<state, balance, entry, copies>>

EntryStates == {"unused", "proposed", "posted", "discarded"}

\* The amounts of an entry mean something once it is posted.
Entry(st, a, delta, before, after) ==
  [state |-> st, account |-> a, delta |-> delta, before |-> before, after |-> after]

Unposted(st, a) == Entry(st, a, 0, 0, 0)

LedgerInit ==
  /\ state = [a \in Accounts |-> "new"]
  /\ balance = [a \in Accounts |-> 0]
  /\ entry = [e \in Entries |-> Unposted("unused", NoAccount)]
  /\ copies = {}

\* Only the balance of account a changes, to any amount.
ChangesOnly(a) ==
  /\ balance'[a] \in Int
  /\ balance' = [balance EXCEPT ![a] = balance'[a]]

Open(a) ==
  /\ state[a] = "new"
  /\ state' = [state EXCEPT ![a] = "open"]
  /\ ChangesOnly(a)
  /\ UNCHANGED entry

\* A closed account keeps its balance and takes no more entries.
Close(a) ==
  /\ state[a] = "open"
  /\ state' = [state EXCEPT ![a] = "closed"]
  /\ UNCHANGED <<balance, entry>>

Propose(e, a) ==
  /\ state[a] = "open"
  /\ entry[e].state = "unused"
  /\ entry' = [entry EXCEPT ![e] = Unposted("proposed", a)]
  /\ UNCHANGED <<state, balance>>

\* The entry states by how much the balance changes.
Post(e, a) ==
  /\ state[a] = "open"
  /\ \/ entry[e].state = "unused"
     \/ entry[e].state = "proposed" /\ entry[e].account = a
  /\ ChangesOnly(a)
  /\ entry' = [entry EXCEPT ![e] =
                 Entry("posted", a, balance'[a] - balance[a], balance[a], balance'[a])]
  /\ UNCHANGED state

Discard(e) ==
  /\ entry[e].state = "proposed"
  /\ entry' = [entry EXCEPT ![e].state = "discarded"]
  /\ UNCHANGED <<state, balance>>

\* Some copies are kept, possibly one of the ledger as it is.
Copy ==
  /\ copies' \subseteq copies \cup {[state |-> state, balance |-> balance, entry |-> entry]}
  /\ UNCHANGED bookVars

GoBack(copy) ==
  /\ state' = copy.state
  /\ balance' = copy.balance
  /\ entry' = copy.entry
  /\ UNCHANGED copies

BookNext ==
  \/ \E a \in Accounts :
       \/ Open(a)
       \/ Close(a)
       \/ \E e \in Entries : Propose(e, a) \/ Post(e, a)
  \/ \E e \in Entries : Discard(e)

LedgerNext ==
  \/ BookNext /\ UNCHANGED copies
  \/ Copy
  \/ \E copy \in copies : GoBack(copy)

LedgerSpec == LedgerInit /\ [][LedgerNext]_ledgerVars
=============================================================================
