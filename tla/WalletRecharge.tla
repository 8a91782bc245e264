--------------------------- MODULE WalletRecharge ---------------------------
(***************************************************************************)
(* The recharges of one wallet in one department                           *)
(* (iic_booking/users/wallet_recharge_workflow.py, wallet_recharge_import  *)
(* .py, wallet_recharge_admin_actions.py, recharge_reversal.py).  A user   *)
(* asks for a recharge; the SRIC office approves or declines it; the       *)
(* department's cash book later confirms that the money arrived.  The      *)
(* wallet runs ahead of the money in two ways: an approved request is      *)
(* credited before its receipt, and a declined one becomes a credit that   *)
(* the user owes until later recharges recover it.  While something is     *)
(* owed, an approval is deferred: its wallet credit waits for the receipt. *)
(*                                                                         *)
(* Each operation is one database transaction that locks the request row.  *)
(* What it reads without a lock (the credit that is running, the balance   *)
(* before, the ledger, the import checks) it reads in a step of its own;   *)
(* its writes and its commit are the last step.  A task is a transaction   *)
(* between its steps.                                                      *)
(***************************************************************************)
EXTENDS Integers, Sequences, FiniteSets, Functions

Seqs == INSTANCE SequencesExt

CONSTANTS
    Requests,       \* recharge requests (WalletRechargeRequest)
    Entries,        \* rows of the cash book (WalletRechargeParseEntry)
    Workers,        \* requests and jobs the server runs at a time
    Cash,           \* the requests that are direct cash deposits; the others are project grants
    Amount,         \* Requests -> what is asked for
    EntryAmount,    \* Entries -> what the cash book says was received
    Opening,        \* the balance before; negative where an old overdraft is left
    MaxSpent,       \* bound: what bookings take from the wallet
    MaxIncome,      \* bound: what comes in beside recharges, beyond what was taken
    Operations,     \* the operations of this instance
    None            \* no entry, no balance read yet

ASSUME RechargeAssumption ==
    /\ Cash \subseteq Requests
    /\ Amount \in [Requests -> Nat \ {0}]
    /\ EntryAmount \in [Entries -> Nat \ {0}]
    /\ Opening \in Int /\ MaxSpent \in Nat /\ MaxIncome \in Nat
    /\ None \notin Entries \cup Int
    /\ IsFiniteSet(Requests) /\ IsFiniteSet(Entries)

VARIABLES
    request,        \* the request rows
    declined,       \* the requests turned into credit, in the order of responded_at
    balance,        \* SubWallet.balance
    ledger,         \* credits of the sub-wallet's ledger that name the request
    fresh,          \* requests whose credit no debit has followed
    imports,        \* WalletRechargeImportRecord of an entry: who consumed it
    spent,          \* what bookings took, less what else came in
    task            \* the transactions under way

vars == <<request, declined, balance, ledger, fresh, imports, spent, task>>

Status == {"none", "pending", "approved", "cancelled", "rejected"}

\* deferred: wallet_credit_pending; owed: decline_credit_outstanding; advanced, settled: its
\* decline_credit_amount, credit_settled_amount is positive.
Request ==
    [status: Status, deferred: BOOLEAN, credited: BOOLEAN, advanced: BOOLEAN, owed: Nat,
     settled: BOOLEAN, entry: Entries \cup {None}, verified: BOOLEAN, deleted: BOOLEAN]

NoRequest ==
    [status |-> "none", deferred |-> FALSE, credited |-> FALSE, advanced |-> FALSE, owed |-> 0,
     settled |-> FALSE, entry |-> None, verified |-> FALSE, deleted |-> FALSE]

Idle == [op |-> "idle"]

\* running: what the transaction saw of running credit; before: the balance it read.
Task ==
    {Idle}
    \cup [op: {"approve", "link", "verify", "decline", "reverse"}, req: Requests,
          entry: Entries \cup {None}, running: BOOLEAN, before: Int \cup {None}]
    \cup [op: {"import"}, entry: Entries]

Init ==
    /\ request = [r \in Requests |-> NoRequest]
    /\ declined = <<>>
    /\ balance = Opening
    /\ ledger = [r \in Requests |-> 0]
    /\ fresh = {}
    /\ imports = [e \in Entries |-> "none"]
    /\ spent = 0
    /\ task = [w \in Workers |-> Idle]

-----------------------------------------------------------------------------
(* What the operations read.                                               *)

Owing == {r \in Requests : request[r].owed > 0}

\* The admin credit facility, the third term of the sum, is left out.
RunningCredit == balance < 0 \/ Owing # {}

\* A row lock: no transaction under way holds the request, nor the entry.
Unlocked(r) == ~\E w \in Workers : task[w].op \notin {"idle", "import"} /\ task[w].req = r
EntryUnlocked(e) == ~\E w \in Workers : task[w].op = "link" /\ task[w].entry = e

Open(r) == request[r].status \in {"pending", "approved"}

Grant(r) == r \notin Cash

(* Mutant: a confirmed receipt no longer protects the approval. *)
CanDecline_Confirmed(r, converts) ==
    \/ request[r].status = "pending"
    \/ /\ request[r].status = "approved" /\ request[r].entry = None
       /\ request[r].deferred \/ (Grant(r) /\ converts)

CanDecline(r, converts) ==
    \/ request[r].status = "pending"
    \/ /\ request[r].status = "approved" /\ ~request[r].verified /\ request[r].entry = None
       /\ request[r].deferred \/ (Grant(r) /\ converts)

\* An entry fits a request when amount and grant or employee number agree; here, the amount.
Fits(e, r) == EntryAmount[e] = Amount[r]

(* Mutant: the entry's import record is consulted, its other request is not. *)
Consumed_ImportOnly(e) == imports[e] # "none"

Consumed(e) == imports[e] # "none" \/ \E r \in Requests : request[r].entry = e

CreditedWallet(r) ==
    \/ request[r].status = "approved" /\ ~request[r].deferred
    \/ request[r].credited
    \/ request[r].advanced

\* Only an approval by the requester himself can be reversed; any approval may be one.
Reversible(r) ==
    /\ request[r].status = "approved" /\ Grant(r) /\ ~request[r].deleted
    /\ request[r].entry = None /\ ~request[r].verified
    /\ ~request[r].deferred /\ request[r].credited /\ ~request[r].settled
    /\ ledger[r] = 1 /\ r \in fresh /\ balance >= Amount[r]

-----------------------------------------------------------------------------
(* Crediting a request: the overdraft is paid off through the balance, and *)
(* what is left of the amount recovers the credits that are owed, the      *)
(* oldest first.  recovered[c] is what c gives back.                       *)

(* Mutant: the newest credit is recovered first. *)
Older_Newest(c) ==
    {d \in Owing : \E i, j \in DOMAIN declined : j < i /\ declined[i] = d /\ declined[j] = c}

Older(c) ==
    {d \in Owing : \E i, j \in DOMAIN declined : i < j /\ declined[i] = d /\ declined[j] = c}

Owed == [r \in Requests |-> request[r].owed]

OwedBy(S) == SumFunctionOnSet(Owed, S)

(* Mutant: every credit is recovered in full, whatever is left of the amount. *)
Share_InFull(r, c, budget) == IF c = r THEN 0 ELSE request[c].owed

(* Mutant: the older credits leave all the rest to each younger one. *)
Share_MoreThanOwed(r, c, budget) ==
    LET left == budget - OwedBy(Older(c)) IN
    IF c = r \/ left <= 0 \/ request[c].owed = 0 THEN 0 ELSE left

Share(r, c, budget) ==
    LET left == budget - OwedBy(Older(c)) IN
    IF c = r \/ left <= 0 THEN 0
    ELSE IF left \in 0 .. request[c].owed THEN left ELSE request[c].owed

Budget(r, before) ==
    IF before >= 0 THEN Amount[r] ELSE IF -before >= Amount[r] THEN 0 ELSE Amount[r] + before

Recovered(r, before) == [c \in Requests |-> Share(r, c, Budget(r, before))]

RecoveredTotal(r, before) == SumFunctionOnSet(Recovered(r, before), Owing)

\* row is the request's row as the transaction leaves it otherwise.
CreditAndAdjust(r, before, row) ==
    LET total == RecoveredTotal(r, before) IN
    /\ balance' = balance + Amount[r] - total
    /\ ledger' = [ledger EXCEPT ![r] = @ + 1]
    /\ fresh' = IF total > 0 THEN {} ELSE fresh \cup {r}
    /\ request' = [c \in Requests |->
           IF c = r
           THEN [row EXCEPT !.deferred = FALSE, !.credited = TRUE,
                            !.settled = total > 0 \/ Budget(r, before) # Amount[r]]
           ELSE [request[c] EXCEPT !.owed = @ - Recovered(r, before)[c]]]

-----------------------------------------------------------------------------
(* The user and the wallet.                                                *)

\* A request whose one-time password is confirmed; drafts before that are left out.
Submit(r) ==
    /\ request[r].status = "none"
    /\ request' = [request EXCEPT ![r].status = "pending"]
    /\ UNCHANGED <<declined, balance, ledger, fresh, imports, spent, task>>

Cancel(r) ==
    /\ Unlocked(r)
    /\ request[r].status = "pending"
    /\ request' = [request EXCEPT ![r].status = "cancelled"]
    /\ UNCHANGED <<declined, balance, ledger, fresh, imports, spent, task>>

\* A booking takes one unit from the wallet.
Spend ==
    /\ balance >= 1 /\ spent < MaxSpent
    /\ balance' = balance - 1
    /\ spent' = spent + 1
    /\ fresh' = {}
    /\ UNCHANGED <<request, declined, ledger, imports, task>>

\* A unit that is no recharge comes in: a booking's refund, a transfer.
Receive ==
    /\ spent > -MaxIncome
    /\ balance' = balance + 1
    /\ spent' = spent - 1
    /\ UNCHANGED <<request, declined, ledger, fresh, imports, task>>

-----------------------------------------------------------------------------
(* Transactions that read first.                                           *)

Start(w, op, r, e) ==
    /\ task[w] = Idle
    /\ Unlocked(r)
    /\ task' = [task EXCEPT ![w] = [op |-> op, req |-> r, entry |-> e, running |-> RunningCredit,
                                    before |-> None]]
    /\ UNCHANGED <<request, declined, balance, ledger, fresh, imports, spent>>

StartApprove(w, r) ==
    /\ request[r].status = "pending"
    /\ Start(w, "approve", r, None)

\* A person or the matching job applies a cash-book entry to a request.
StartLink(w, r, e) ==
    /\ EntryUnlocked(e)
    /\ ~request[r].deleted /\ request[r].entry = None /\ Open(r)
    /\ ~Consumed(e) /\ Fits(e, r)
    /\ Start(w, "link", r, e)

\* Only a deferred credit makes the verification more than a mark; see Verify.
StartVerify(w, r) ==
    /\ ~request[r].verified /\ request[r].deferred
    /\ Start(w, "verify", r, None)

\* A pending grant: whether a credit is running decides what declining it does.
StartDecline(w, r) ==
    /\ request[r].status = "pending" /\ Grant(r)
    /\ Start(w, "decline", r, None)

StartReverse(w, r) ==
    /\ Reversible(r)
    /\ Start(w, "reverse", r, None)

\* The import of a row that no open request could want; nothing is locked.
StartImport(w, e) ==
    /\ task[w] = Idle
    /\ ~Consumed(e)
    /\ ~\E r \in Requests : Open(r) /\ request[r].entry = None /\ Fits(e, r)
    /\ task' = [task EXCEPT ![w] = [op |-> "import", entry |-> e]]
    /\ UNCHANGED <<request, declined, balance, ledger, fresh, imports, spent>>

Finish(w) == task' = [task EXCEPT ![w] = Idle]

Defers(t) == t.op = "approve" /\ Grant(t.req) /\ t.running

(* Mutant: the receipt of an approved request credits the wallet again. *)
Credits_Approved(t) == t.op \in {"approve", "verify", "link"} /\ ~Defers(t)

\* Linking a request that is approved and credited adds the receipt and no credit.
Credits(t) ==
    \/ t.op \in {"approve", "verify"} /\ ~Defers(t)
    \/ t.op = "link" /\ (request[t.req].status = "pending" \/ request[t.req].deferred)

\* The balance before the credit, read without a lock.
ReadBalance(w) ==
    LET t == task[w] IN
    /\ t.op \in {"approve", "verify", "link"} /\ t.before = None
    /\ Credits(t)
    /\ task' = [task EXCEPT ![w] = [op |-> t.op, req |-> t.req, entry |-> t.entry,
                                    running |-> t.running, before |-> balance]]
    /\ UNCHANGED <<request, declined, balance, ledger, fresh, imports, spent>>

Approve(w) ==
    LET t == task[w] r == t.req IN
    /\ t.op = "approve" /\ t.before # None
    /\ CreditAndAdjust(r, t.before, [request[r] EXCEPT !.status = "approved"])
    /\ Finish(w)
    /\ UNCHANGED <<declined, imports, spent>>

Defer(w) ==
    LET t == task[w] IN
    /\ t.op = "approve" /\ Defers(t)
    /\ request' = [request EXCEPT ![t.req].status = "approved", ![t.req].deferred = TRUE]
    /\ Finish(w)
    /\ UNCHANGED <<declined, balance, ledger, fresh, imports, spent>>

\* Approving a pending request through its entry also records the import.  The record is
\* unique, so the transaction is rolled back when the entry was imported meanwhile.
Link(w) ==
    LET t == task[w] r == t.req
        row == [request[r] EXCEPT !.status = "approved", !.entry = t.entry, !.verified = TRUE]
    IN
    /\ t.op = "link"
    /\ IF Credits(t)
       THEN t.before # None /\ CreditAndAdjust(r, t.before, row)
       ELSE request' = [request EXCEPT ![r] = row] /\ UNCHANGED <<balance, ledger, fresh>>
    /\ IF request[r].status = "pending"
       THEN imports[t.entry] = "none" /\ imports' = [imports EXCEPT ![t.entry] = "request"]
       ELSE UNCHANGED imports
    /\ Finish(w)
    /\ UNCHANGED <<declined, spent>>

LinkRefused(w) ==
    LET t == task[w] IN
    /\ t.op = "link" /\ t.before # None
    /\ request[t.req].status = "pending" /\ imports[t.entry] # "none"
    /\ Finish(w)
    /\ UNCHANGED <<request, declined, balance, ledger, fresh, imports, spent>>

\* The in-charge's confirmation looks at no status.
Verify(r) ==
    /\ Unlocked(r)
    /\ request[r].status # "none" /\ ~request[r].verified /\ ~request[r].deferred
    /\ request' = [request EXCEPT ![r].verified = TRUE]
    /\ UNCHANGED <<declined, balance, ledger, fresh, imports, spent, task>>

VerifyDeferred(w) ==
    LET t == task[w] r == t.req IN
    /\ t.op = "verify" /\ t.before # None
    /\ CreditAndAdjust(r, t.before, [request[r] EXCEPT !.verified = TRUE])
    /\ Finish(w)
    /\ UNCHANGED <<declined, imports, spent>>

-----------------------------------------------------------------------------
(* Declining.  A grant that is declined becomes a credit the user owes,    *)
(* unless a credit is running already; a cash deposit is just rejected.    *)

\* place: where responded_at puts it among the declines that have committed.
Owe(r, new, place) ==
    /\ request' = [request EXCEPT
           ![r].status = "cancelled", ![r].deferred = FALSE, ![r].advanced = new,
           ![r].owed = IF new THEN Amount[r] ELSE 0]
    /\ declined' = IF new THEN Seqs!InsertAt(declined, place, r) ELSE declined

Places == 1 .. Len(declined) + 1

(* Mutant: an approved request is credited a second time when it is declined. *)
DeclineApproved_CreditsAgain(r) ==
    /\ Unlocked(r)
    /\ request[r].status = "approved"
    /\ \E converts \in BOOLEAN : CanDecline(r, converts)
    /\ \E place \in Places : Owe(r, ~request[r].deferred, place)
    /\ balance' = IF request[r].deferred THEN balance ELSE balance + Amount[r]
    /\ ledger' = IF request[r].deferred THEN ledger ELSE [ledger EXCEPT ![r] = @ + 1]
    /\ UNCHANGED <<fresh, imports, spent, task>>

\* The wallet keeps what the approval gave; a deferred approval gave nothing.  Nothing but
\* its own row is locked, so declines with a later responded_at may have committed before.
DeclineApproved(r) ==
    /\ Unlocked(r)
    /\ request[r].status = "approved"
    /\ \E converts \in BOOLEAN : CanDecline(r, converts)
    /\ \E place \in Places : Owe(r, ~request[r].deferred, place)
    /\ UNCHANGED <<balance, ledger, fresh, imports, spent, task>>

\* A cash deposit, or any request while the switch decline_converts_to_credit is off.
Reject(r) ==
    /\ Unlocked(r)
    /\ request[r].status = "pending"
    /\ request' = [request EXCEPT ![r].status = "rejected"]
    /\ UNCHANGED <<declined, balance, ledger, fresh, imports, spent, task>>

\* A pending grant, with the switch on.  The credit comes before responded_at and locks the
\* sub-wallet until the commit, so this decline is behind all that have committed.
DeclinePending(w) ==
    LET t == task[w] r == t.req IN
    /\ t.op = "decline"
    /\ Owe(r, ~t.running, Len(declined) + 1)
    /\ IF t.running
       THEN UNCHANGED <<balance, ledger, fresh>>
       ELSE /\ balance' = balance + Amount[r]
            /\ ledger' = [ledger EXCEPT ![r] = @ + 1]
            /\ fresh' = fresh \cup {r}
    /\ Finish(w)
    /\ UNCHANGED <<imports, spent>>

-----------------------------------------------------------------------------
(* The Main Administrator.                                                 *)

Delete(r) ==
    /\ Unlocked(r)
    /\ request[r].status \notin {"none", "approved"}
    /\ ~request[r].deleted /\ ~CreditedWallet(r)
    /\ request' = [request EXCEPT
           ![r].status = IF @ = "pending" THEN "cancelled" ELSE @,
           ![r].entry = None, ![r].deleted = TRUE]
    /\ UNCHANGED <<declined, balance, ledger, fresh, imports, spent, task>>

\* The debit is made under the lock of the sub-wallet, after the ledger was read without it.
Reverse(w) ==
    LET t == task[w] r == t.req IN
    /\ t.op = "reverse"
    /\ balance >= Amount[r]
    /\ balance' = balance - Amount[r]
    /\ fresh' = {}
    /\ request' = [request EXCEPT ![r].status = "cancelled"]
    /\ Finish(w)
    /\ UNCHANGED <<declined, ledger, imports, spent>>

ReverseRefused(w) ==
    /\ task[w].op = "reverse"
    /\ balance < Amount[task[w].req]
    /\ Finish(w)
    /\ UNCHANGED <<request, declined, balance, ledger, fresh, imports, spent>>

Import(w) ==
    LET e == task[w].entry IN
    /\ task[w].op = "import"
    /\ IF imports[e] = "none"
       THEN /\ balance' = balance + EntryAmount[e]
            /\ imports' = [imports EXCEPT ![e] = "import"]
       ELSE UNCHANGED <<balance, imports>>      \* IntegrityError: rolled back
    /\ Finish(w)
    /\ UNCHANGED <<request, declined, ledger, fresh, spent>>

-----------------------------------------------------------------------------

Begins(w, r) ==
    \/ "approve" \in Operations /\ StartApprove(w, r)
    \/ "link" \in Operations /\ \E e \in Entries : StartLink(w, r, e)
    \/ "verify" \in Operations /\ StartVerify(w, r)
    \/ "decline" \in Operations /\ StartDecline(w, r)
    \/ "reverse" \in Operations /\ StartReverse(w, r)

Ends(w) ==
    \/ ReadBalance(w)
    \/ Approve(w)
    \/ Defer(w)
    \/ Link(w)
    \/ LinkRefused(w)
    \/ VerifyDeferred(w)
    \/ DeclinePending(w)
    \/ Reverse(w)
    \/ ReverseRefused(w)
    \/ Import(w)

AtOnce(r) ==
    \/ Submit(r)
    \/ "cancel" \in Operations /\ Cancel(r)
    \/ "verify" \in Operations /\ Verify(r)
    \/ "decline" \in Operations /\ (DeclineApproved(r) \/ Reject(r))
    \/ "delete" \in Operations /\ Delete(r)

Next ==
    \/ \E r \in Requests : AtOnce(r)
    \/ \E w \in Workers, r \in Requests : Begins(w, r)
    \/ "import" \in Operations /\ \E w \in Workers, e \in Entries : StartImport(w, e)
    \/ \E w \in Workers : Ends(w)
    \/ Spend
    \/ Receive

Spec == Init /\ [][Next]_vars

-----------------------------------------------------------------------------
(* Properties.                                                             *)

\* The columns, the tasks and the order of declines have their types, and a request
\* appears at most once among the declines.
TypeOK ==
    /\ request \in [Requests -> Request]
    /\ declined \in Seq(Requests)
    /\ balance \in Int /\ spent \in -MaxIncome .. MaxSpent
    /\ ledger \in [Requests -> Nat]
    /\ fresh \subseteq Requests
    /\ imports \in [Entries -> {"none", "import", "request"}]
    /\ task \in [Workers -> Task]

Funded == {r \in Requests : request[r].status = "approved" /\ ~request[r].deferred}
Imported == {e \in Entries : imports[e] = "import"}

\* Every unit of the balance is accounted for: the requests that are approved and
\* credited, what is still owed on the declined ones, the direct imports, less what
\* bookings took and were not given back.  No order of approvals, declines, receipts and reversals loses or
\* makes money (_credit_wallet_and_adjust, _decline_to_credit, reverse).
BalanceExplained ==
    balance = Opening - spent
              + SumFunctionOnSet(Amount, Funded)
              + OwedBy(Requests)
              + SumFunctionOnSet(EntryAmount, Imported)

\* The ledger credits a request at most once over its whole life, through approval,
\* deferral, receipt and decline, and what is owed was credited and is cancelled.
CreditedOnce ==
    \A r \in Requests :
        /\ ledger[r] <= 1
        /\ r \in Funded => ledger[r] = 1
        /\ request[r].owed > 0 => request[r].status = "cancelled" /\ ledger[r] = 1
        /\ request[r].deferred => request[r].status = "approved" /\ ledger[r] = 0

\* A receipt stands behind one request, whose money is in the wallet: nothing that may
\* happen to an approved request (decline, reversal, deletion) happens to that one.
MatchedIsFunded ==
    \A r \in Requests : request[r].entry # None =>
        /\ r \in Funded /\ request[r].verified
        /\ \A s \in Requests : request[s].entry = request[r].entry => s = r

\* Once the receipt of an approved request is confirmed, the approval is final: "the funds
\* have been confirmed as received, so it can no longer be declined".
ConfirmedIsFinal ==
    [][\A r \in Requests :
          (request[r].status = "approved" /\ request[r].verified)
              => request'[r].status = "approved" /\ request'[r].verified]_vars

\* A recharge never leaves the user with less than before: what an approval recovers is at
\* most what it brings, also when the balance it read is no longer the balance it credits
\* ("must never push the balance below where it stood before this recharge").
NeverBelow ==
    [][ledger' # ledger => balance' >= balance]_vars

\* Credits are recovered oldest first: a younger one is touched only by a recharge that
\* settles the older ones in full.
OldestFirst ==
    [][\A i, j \in DOMAIN declined :
          i < j /\ request'[declined[j]].owed < request[declined[j]].owed
              => request'[declined[i]].owed = 0]_vars

=============================================================================
