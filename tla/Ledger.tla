------------------------------- MODULE Ledger -------------------------------
(***************************************************************************)
(* ledger/ledger.go: accounts in one PostgreSQL table.  A statement of a   *)
(* Transfer is a step, the other calls are one statement each.  What the   *)
(* database does is external: row locks held until the transaction ends,   *)
(* taken in the order of id by "for no key update" on the rows that exist  *)
(* when it starts; the check that money is not negative; the rollback of a *)
(* transaction that fails.                                                 *)
(***************************************************************************)
EXTENDS Integers, FiniteSets, Functions

CONSTANTS Clients,        \* goroutines that call the ledger
          Accounts,       \* ids, ordered as numbers
          Amounts,        \* the amounts, not negative: others are refused
          MaxMoney,       \* bound on what is paid in
          MaxNoRow        \* bound on the changes that find no row

ASSUME LedgerAssumption == /\ IsFiniteSet(Clients) /\ IsFiniteSet(Accounts)
                           /\ Accounts \subseteq Nat /\ Amounts \subseteq Nat
                           /\ MaxMoney \in Nat /\ MaxNoRow \in Nat

VARIABLES money,      \* the rows, with what open transactions did; -1: no row
          holds,      \* holds[c]: the rows that the transaction of c has locked
          transfer,   \* transfer[c]: the Transfer c is in
          paid,       \* deposits less withdrawals, as the callers were told
          noRow,      \* deposits less withdrawals that found no row to change
          lost        \* credits less debits, of committed transfers, that found none

ledgerVars == <<money, holds, transfer, paid, noRow, lost>>

\* missed: the credit less the debit that found no row
NoTransfer == [at |-> "none", from |-> 0, to |-> 0, amount |-> 0,
               rows |-> {}, took |-> 0, gave |-> 0, missed |-> 0]
Exists(a) == money[a] # -1
FreeFor(c, a) == \A d \in Clients \ {c} : a \notin holds[d]

LedgerTypeOK ==
  /\ money \in [Accounts -> Nat \union {-1}]
  /\ holds \in [Clients -> SUBSET Accounts]
  /\ \A c \in Clients : /\ transfer[c].at \in {"none", "lock", "debit", "credit", "commit", "panicked"}
                        /\ transfer[c].at \in {"none", "lock", "panicked"} => transfer[c].took = 0

LedgerInit == /\ money = [a \in Accounts |-> -1]
              /\ holds = [c \in Clients |-> {}]
              /\ transfer = [c \in Clients |-> NoTransfer]
              /\ paid = 0 /\ noRow = 0 /\ lost = 0

Statement(c) == transfer[c].at = "none"
Open(c) == transfer[c].at \notin {"none", "panicked"}

\* A second row with the same id violates the primary key.
CreateAccount(c, a) == /\ Statement(c)
                       /\ ~Exists(a)
                       /\ money' = [money EXCEPT ![a] = 0]
                       /\ UNCHANGED <<holds, transfer, paid, noRow, lost>>

\* No row changed is no error: the caller is told that the money is there.
Deposit(c, a, x) == /\ Statement(c)
                    /\ paid + x <= MaxMoney
                    /\ paid' = paid + x
                    /\ IF Exists(a)
                       THEN /\ FreeFor(c, a)
                            /\ money' = [money EXCEPT ![a] = @ + x] /\ UNCHANGED noRow
                       ELSE /\ noRow + x <= MaxNoRow
                            /\ noRow' = noRow + x /\ UNCHANGED money
                    /\ UNCHANGED <<holds, transfer, lost>>

\* ErrNoMoney, for a balance below x, changes nothing.
Withdraw(c, a, x) == /\ Statement(c)
                     /\ IF Exists(a)
                        THEN /\ FreeFor(c, a) /\ money[a] >= x
                             /\ money' = [money EXCEPT ![a] = @ - x] /\ UNCHANGED noRow
                        ELSE /\ noRow - x >= -MaxNoRow
                             /\ noRow' = noRow - x /\ UNCHANGED money
                     /\ paid' = paid - x
                     /\ UNCHANGED <<holds, transfer, lost>>

---------------------------------------------------------------------------
(* Transfer                                                                *)

\* The rows to lock are those the statement finds.
Begin(c, from, to, x) ==
  /\ Statement(c)
  /\ transfer' = [transfer EXCEPT ![c] =
       [NoTransfer EXCEPT !.at = "lock", !.from = from, !.to = to, !.amount = x,
                          !.rows = {a \in {from, to} : Exists(a)}]]
  /\ UNCHANGED <<money, holds, paid, noRow, lost>>

\* pgxpool finds no connection, or the context has ended: trx is nil, and the
\* defer of trx.Rollback panics before the error is returned.
BeginFails(c) == /\ Statement(c)
                 /\ transfer' = [transfer EXCEPT ![c].at = "panicked"]
                 /\ UNCHANGED <<money, holds, paid, noRow, lost>>

\* mutant: without "order by id" the rows come in any order
LockAnyRow(c) == /\ transfer[c].at = "lock"
                 /\ \E a \in transfer[c].rows \ holds[c] :
                      FreeFor(c, a) /\ holds' = [holds EXCEPT ![c] = @ \union {a}]
                 /\ UNCHANGED <<money, transfer, paid, noRow, lost>>

LockRow(c) == /\ transfer[c].at = "lock"
              /\ \E a \in transfer[c].rows \ holds[c] :
                   /\ \A b \in transfer[c].rows \ holds[c] : a <= b
                   /\ FreeFor(c, a)
                   /\ holds' = [holds EXCEPT ![c] = @ \union {a}]
              /\ UNCHANGED <<money, transfer, paid, noRow, lost>>

RowsLocked(c) == /\ transfer[c].at = "lock" /\ transfer[c].rows \subseteq holds[c]
                 /\ transfer' = [transfer EXCEPT ![c].at = "debit"]
                 /\ UNCHANGED <<money, holds, paid, noRow, lost>>

\* An update locks the row it changes, one that appeared meanwhile too; did
\* is what it did to the row, missed what it did not because there is none.
Update(c, a, x, did, missed) ==
  IF Exists(a)
  THEN /\ FreeFor(c, a) /\ money[a] + x >= 0
       /\ money' = [money EXCEPT ![a] = @ + x]
       /\ holds' = [holds EXCEPT ![c] = @ \union {a}]
       /\ did = x /\ missed = 0
  ELSE did = 0 /\ missed = x /\ UNCHANGED <<money, holds>>

Debit(c) == LET t == transfer[c] IN
  /\ t.at = "debit"
  /\ \E x, y \in {0, t.amount} :
       /\ Update(c, t.from, -t.amount, -x, -y)
       /\ transfer' = [transfer EXCEPT ![c] = [t EXCEPT !.at = "credit", !.took = x, !.missed = -y]]
  /\ UNCHANGED <<paid, noRow, lost>>

Credit(c) == LET t == transfer[c] IN
  /\ t.at = "credit"
  /\ \E x, y \in {0, t.amount} :
       /\ Update(c, t.to, t.amount, x, y)
       /\ transfer' = [transfer EXCEPT ![c] = [t EXCEPT !.at = "commit", !.gave = x, !.missed = @ + y]]
  /\ UNCHANGED <<paid, noRow, lost>>

CommitTransfer(c) == /\ transfer[c].at = "commit"
                     /\ lost + transfer[c].missed \in (-MaxNoRow)..MaxNoRow
                     /\ lost' = lost + transfer[c].missed
                     /\ transfer' = [transfer EXCEPT ![c] = NoTransfer]
                     /\ holds' = [holds EXCEPT ![c] = {}]
                     /\ UNCHANGED <<money, paid, noRow>>

\* mutant: Transfer returns an error and commits what it did
CommitOnError(c) == /\ Open(c)
                    /\ lost' = lost + transfer[c].missed
                    /\ transfer' = [transfer EXCEPT ![c] = NoTransfer]
                    /\ holds' = [holds EXCEPT ![c] = {}]
                    /\ UNCHANGED <<money, paid, noRow>>

\* ErrNoMoney, a cancelled context, a lost connection, the victim of a
\* deadlock: Transfer returns at any statement and the deferred Rollback runs.
Rollback(c) == LET t == transfer[c] IN
  /\ Open(c)
  /\ money' = [a \in Accounts |-> money[a] + (IF a = t.from THEN t.took ELSE 0)
                                           - (IF a = t.to THEN t.gave ELSE 0)]
  /\ transfer' = [transfer EXCEPT ![c] = NoTransfer]
  /\ holds' = [holds EXCEPT ![c] = {}]
  /\ UNCHANGED <<paid, noRow, lost>>

LedgerNext ==
  \E c \in Clients :
    \/ BeginFails(c)
    \/ RowsLocked(c) \/ LockRow(c) \/ Debit(c) \/ Credit(c) \/ CommitTransfer(c) \/ Rollback(c)
    \/ \E a \in Accounts : \/ CreateAccount(c, a)
                           \/ \E x \in Amounts : Deposit(c, a, x) \/ Withdraw(c, a, x)
    \/ \E from, to \in Accounts, x \in Amounts : Begin(c, from, to, x)

LedgerSpec == LedgerInit /\ [][LedgerNext]_ledgerVars

---------------------------------------------------------------------------
(* Properties                                                              *)

MoneyInRows == SumFunction([a \in Accounts |-> IF Exists(a) THEN money[a] ELSE 0])
MoneyUnderWay == SumFunction([c \in Clients |-> transfer[c].took - transfer[c].gave])

\* However transfers interleave and fail, the rows and what open transfers
\* took or gave add up to what the callers paid in, less exactly the changes
\* whose row does not exist: those of deposits and withdrawals, and those of
\* transfers that committed.  No change of a row is lost, kept by half or done
\* twice (ledger.go:79-119).
MoneyConserved == MoneyInRows + MoneyUnderWay = paid - noRow - lost

\* A transfer moves money and loses none (ledger/README.md:11, 15).  The code
\* does not keep this: no update looks at the number of rows that it changed,
\* so what goes to an account without a row is gone (ledger.go:109-119).
TransfersLoseNothing == MoneyInRows + MoneyUnderWay >= paid - noRow

Wants(c) == LET t == transfer[c]
                todo == t.rows \ holds[c]
            IN CASE t.at = "lock"   -> {a \in todo : \A b \in todo : a <= b}
                 [] t.at = "debit"  -> {a \in {t.from} : Exists(a)}
                 [] t.at = "credit" -> {a \in {t.to} : Exists(a)}
                 [] OTHER -> {}

Circle(waiting) == /\ waiting # {}
                   /\ \A c \in waiting : \E d \in waiting \ {c} : Wants(c) \cap holds[d] # {}

\* Transfers never wait for each other in a circle (ledger/README.md:15-16).
\* The code does not keep this: DeadlockNeedsANewRow says how far it does.
NoDeadlock == \A waiting \in SUBSET Clients : ~Circle(waiting)

\* The statement that locks the rows never closes a circle on its own: in
\* every circle some transfer is past it and waits in an update for a row that
\* the statement did not find, because it was created since (ledger.go:85-113).
DeadlockNeedsANewRow ==
  \A waiting \in SUBSET Clients :
    Circle(waiting) => \E c \in waiting : /\ transfer[c].at \in {"debit", "credit"}
                                         /\ Wants(c) \cap transfer[c].rows = {}
=============================================================================
