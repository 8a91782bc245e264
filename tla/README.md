# Formal models of the IIC booking backend

TLA+ models of `src/iic_booking`, a Django backend with which the users of an
instrument centre book time on equipment, pay for it from wallets, and reserve
PCs to analyse their results on. The models are about what its tests hardly
reach: HTTP requests and Celery jobs that overlap on the same rows, and the money,
slots and PCs that must come out right all the same.

    tlc -workers 2 -config MCBooking_overlap.cfg MCBooking     # check a model
    tlapm BookingLifecycle_proofs.tla                          # check the proofs of a model

## 1. How the program runs

- Each HTTP request is one PostgreSQL transaction (`ATOMIC_REQUESTS = True`,
  `src/config/settings/base.py:54`) at READ COMMITTED: a query sees what has
  committed before it, so two queries of one request may see different data,
  and a row that was read without `select_for_update` may be stale when it is
  saved. Row locks are held until the commit.
- Celery beat runs periodic jobs: refunds of undecided disruptions, expiry of HOLD
  bookings, waitlist sweeps, marking of bookings not utilized, the queue, timers
  and sweeps of remote analysis, matching of receipts. What is queued
  with `on_commit` runs after its transaction, each query committing at once.
- Payment gateways call back at any time, late or more than once. The agents on
  the analysis PCs send heartbeats and acknowledge commands, late or not at all.

So the question everywhere is which handlers lock before they read, and what
happens to those that do not. `BookingLifecycle`, `Waitlist`, `AnalysisScheduler`
and `WalletRecharge` answer it at the level of reads and commits, `SlotExchange`
at the level of single row locks.

## 2. Inventory

The parts with logic of their own, with the state they keep, their operations, what is
hard about them, and the properties that make them correct.

| Part | State | Operations | Hard | Correct when |
|---|---|---|---|---|
| Slot calendar (`models.py` DailySlot, `slot_utils.py`) | status and booking of each daily slot | booked, freed, marked; generated, blocked | two columns, written by a dozen handlers | the columns agree; a slot has one owner |
| Booking lifecycle (`equipment/api_views.py`) | Booking rows: status, wallet part, amount due | book, hold, confirm, release, refund, reschedule, complete, operator absent | half of the handlers decide on unlocked reads | active bookings have slots, closed ones none; paid once, refunded once |
| Cancellation (`booking_cancellation.py`) | the booking, its slots, the wallet | by user, by staff, with or without refund, part of the slots, by request | slot ids collected first, released later; saves the whole row | all its slots are freed, nobody else's |
| Disruption (`maintenance_policy.py`, `maintenance_reschedule.py`) | DISRUPTION_PENDING and a deadline | mark, refund or reschedule by choice, automatic refund | the choice races the deadline job | every disruption ends, refunded once |
| Not utilized (`booking_not_utilized_*.py`) | booking and slot marks | mark, restore | staff may book over marked slots | only marked slots are taken over |
| Wallets (`users/models/wallet.py`) | balances of department sub-wallets | debit, credit, recharge, transfer | checked early, debited late | never below the floor |
| Payments (`payments/razorpay_service.py`, `users/payment_settlement.py`) | orders, captures, receipts | open an order, capture, refund | late and repeated callbacks, several channels | a capture confirms; refunds do not exceed what was paid |
| Waitlist (`waitlist.py`, `waitlist_booking.py`) | entries per equipment | join, leave, sweep, promote, clear | the sweep works on lists read once, outside a transaction | depth kept, one row per user, only free slots given |
| Slot exchange (`slot_exchange.py`) | exchange requests | create, accept, decline, withdraw, expire | locks on four tables, stale plans | swaps as agreed, slot counts kept, no deadlock |
| Urgent requests (`urgent_allocation.py`) | request and its HOLD booking | request, approve, reject, expire | approval races expiry and approval | one debit, slots released |
| Quota (`quota_utils.py`) | nothing of its own: counts bookings | check | locked for group quotas only | quota not exceeded |
| Equipment modes (`mode_utils.py`) | sibling equipment of one instrument | overlap check | no lock | one mode at a time |
| Charges and edits (`calculators.py`, `input_edit_*.py`) | charges, pending differences | recalculate, pay or refund the difference | windows that expire | paid equals charged |
| Wallet recharge (`users/wallet_recharge_*.py`, `recharge_reversal.py`) | requests, cash-book entries, import records, what declined requests still owe | submit, approve, defer, decline, link or import a receipt, verify, delete, reverse | money is credited before it arrives; balance and ledger read unlocked | credited once, every unit explained, confirmed is final |
| Remote analysis: scheduler (`remote_analysis/services/`) | reservations, queue rows, check-in timers | request, queue, check in, release, cancel, sweep | PCs are never locked; one job locks the queue | one holder per PC, nobody lost in the queue, every reservation ends |
| Remote analysis: sessions (`guacamole/`, `heartbeat.py`, `commands.py`) | desktop sessions, status of the PC, CLEAN and COLLECT commands | launch, connect, end, fail, clean up, heartbeat, acknowledge | five writers of one status column, late acknowledgements | one desktop per reservation, not on a PC of somebody else; a free PC becomes available |

They meet in shared rows: everything above reads and writes `DailySlot` and
`Booking`; booking, cancellation, disruption and payment change `SubWallet`; freed
slots call the waitlist, which books like a user; an exchange swaps slots of
bookings that can be cancelled meanwhile. A recharge changes the `SubWallet` that
bookings debit; a booking that is refunded loses its analysis reservation.

Other parts, each a component of its own in `PROJECT.json` with its reason or its
place in the plan: users and registration, identity and legacy sync, sync agents
and their data plane, device provisioning, training, procurement and stock, fabrication,
results, reports, lab infrastructure, research copilot, communication, my
research, facility groups and support, exports and CMS, automation.

`PROJECT.json` also lists the hazards of this code, each at its line, with the
properties that cover it or the module that is planned for it.

## 3. The models

### 3.1 SlotCalendar: what the calendar promises

The abstract specification: an owner for each slot and a stage for each booking.
A booking claims free slots once, in one step; it may move to other free slots
in one step; it gives all of them back together, after which it owns nothing
ever again. There is no status, no money, no request in progress.

### 3.2 BookingLifecycle: bookings, slots and money of one equipment

| Variable | Code |
|---|---|
| `slotStatus`, `slotBooking` | `DailySlot.status`, `DailySlot.booking` |
| `booking` | `Booking`: status, user, `wallet_amount_applied`, `amount_due`, `payment_settled_at` set or not |
| `wallet` | `SubWallet.balance`, one per holder |
| `order` | `PaymentOrder.status` of the shortfall: CREATED for any number of orders not captured, failed ones included; FAILED for a captured one whose row a late failure was saved over |
| `paid`, `refunded` | sums of what moved between holder and centre for a booking, for the properties |
| `request` | what a worker (a web request, a job) remembers between its queries |

A worker's `request` holds the operation, the copy of the booking row it loaded, the slot
ids it collected and one decision. A handler is:

- **one action**, if it locks the rows before it reads them: `AutoCancel`,
  `Complete`, `NotUtilized`, `OpenOrder`, `Settle`, and what the gateway reports
  after a capture (`CaptureAgain`, `LateReport`);
- **load, (collect,) commit**, if it does not: `BookLoad/BookCommit`,
  `HoldLoad` then `ConfirmCommit` or `ReleaseCommit`,
  `CancelLoad/CancelCollect/CancelCommit`, `RefundLoad/RefundLookup/RefundCommit`,
  `AbsentLoad/AbsentCommit`, `RescheduleLoad/RescheduleCollect/RescheduleCommit`,
  `RestoreLoad/RestoreCommit` (the booking is locked, its slots are read in one
  statement and updated in another, and staff may book over them in between).
  All writes are in the commit, since nobody sees them before; what they write is
  decided by the copies. `CancelCommit` and `RescheduleCommit` save the whole row
  as it was loaded, as `booking.save()` does; `ConfirmCommit` only the status. Slots are
  released by the collected ids, but only those still the booking's (`ReleaseIds`); a booking whose slots are
  taken when it locks them falls back on as many others (`LockedSlots`).
- `Abandon`: an error response, a failed check or a deadlock victim rolls back.

A reschedule frees the old slots before its second query, so it already holds the
locks of those rows while it is "collected": `Writable` makes other writers of
them wait.

The models keep a deadline out of the state: `AutoCancel` runs five days after the
disruption, and no request is in progress that long, which is its guard on the
other workers' copies.

### 3.3 Waitlist: joining, sweeps and promotions

`entry` and `queue` are the `WaitlistEntry` rows and their order of `created_at`;
`holder` is who has a slot (free, shut by staff, a waiting user, anybody else);
`released` is the marker `released_by_booking_at`; `promoted` counts the bookings made for a row;
`task` is a worker's place in `add_user_to_waitlist` or in
`notify_waitlist_slots_available`.

Joining reads the depth (`JoinLoad`) and then writes (`Create`, `Rejoin`). A sweep
(`SweepLoad`) reads entries and slots once, goes through the entries
(`Promote`, `Refuse`, `PassOver`), marks the refused ones (`MarkRefused`) and
deletes the served ones (`DeleteProcessed`); the job that clears the queue before
a reference date deletes the rest (`Clear`). Between any two of these steps slots are booked,
closed, opened and released, users join and opt out, and another sweep runs.

### 3.4 SlotExchange: acceptances at the level of row locks

`lock` says which worker has locked each request, booking and slot row. An acceptance locks its request, reads
the plan, locks two bookings and the slots in order of primary key, checks the plan again, swaps, and updates
every overlapping request by key, which locks those rows one after another in no particular order. The plan is
read from the slots without locks: each side is slots of one booking, whichever has them now (`ReadTerms`).
Declining, withdrawing and creating decide on unlocked reads; a creation waits for whoever has locked a
booking or slot it refers to (`Referenced`: the database checks foreign keys with a share lock). PostgreSQL
ends a circular wait by rolling one waiter back (`Victim`).

### 3.5 AnalysisScheduler: analysis PCs, their queue and their desktops

| Variable | Code |
|---|---|
| `reservation` | `AnalysisReservation`: status, workstation, check-in timer (off, running, due), `missed` |
| `entry`, `order` | `ReservationQueue.status`, and the rows by `enqueued_at` |
| `pc` | `AnalysisWorkstation.status` as the portal keeps it |
| `session` | `RemoteDesktopSession` rows |
| `cleans`, `collecting` | PCs that were sent a CLEAN, whose acknowledgement may come, and come again; PCs whose output is being collected |
| `booking` | what the scheduler reads of the booking: eligible, and how late its window is |
| `task` | what a worker remembers between its queries |

The services (`Enqueue`, `Dequeue`, `Best`, `Allocate`, `FreePc`, `ReleaseHold`, `Serve`)
are operators that take the tables and return them changed, because they call
each other inside one transaction: a missed check-in releases the hold, moves the
entry to the back and serves the whole queue before it commits (`DueCommit`).
Requests, launches, the queue job, the timer job, the sweep and heartbeats are a
load and a commit; ending, failing, cancelling and acknowledging are one step,
which needs a worker that is idle (`SomeWorker`). Only the queue job locks the reservation it
works on, and those who write that row wait for it (`Unlocked`); what serves the queue may write
any row in it (`InQueue`). A launch that checks in locks it by writing it, which is
why it sees the desktop another launch has opened (`Reuses`).

`SweepCommit` writes what the list said, whatever the row says by now, as `expire_stale` does, and takes a
PC's status as it was when the list was read if the list was read with its PCs. A heartbeat always writes the
status it worked out from the one it loaded, even the same; it writes ERROR after a failed cleanup
(`Blocked`). An agent may fall silent while its PC still shows another status than OFFLINE (`Silent`), and the
sweep then ends its reservation. A collection that is uploaded sends another CLEAN. `CancelByManager` leaves
the PC RESERVED and `FailSession`, `Acknowledge` and `StatusCommit` change the status of a PC whoever holds
it: the calendar of holds (`Holders`) is what keeps such a PC from being given away.

### 3.6 WalletRecharge: the recharges of one wallet

The wallet runs ahead of the money in two ways. An approved request is credited
before its receipt arrives; a grant that is declined becomes a credit which
its user owes until later recharges recover it. While something is owed, an
approval is deferred until its receipt.

| Variable | Code |
|---|---|
| `request` | `WalletRechargeRequest`: status, `wallet_credit_pending`, `decline_credit_outstanding`, matched entry, `fund_receipt_verified`, deleted |
| `declined` | the declined requests by `responded_at`, the order of recovery: declines of approved requests lock only their own row, so they may commit in another order (`Places`); a decline of a pending request holds the sub-wallet's lock and comes last |
| `balance`, `ledger`, `fresh` | `SubWallet.balance`; its transactions that name a request; those no debit has followed |
| `imports` | `WalletRechargeImportRecord` of an entry |
| `spent` | what bookings took (`Spend`) less what came in that is no recharge (`Receive`: refunds of bookings, transfers) |
| `task` | a transaction between its unlocked reads and its writes |

Each operation locks the request row, so a transaction holds it from its start
(`StartApprove`, `StartLink`, `StartVerify`, `StartDecline`, `StartReverse`) to its end. The running
credit is read at the start and the balance before the credit in a step of
its own (`ReadBalance`); both may be stale when `CreditAndAdjust` writes. `Share` is the
recovery loop, oldest first, as a sum over the older credits instead of a
recursion. An import locks nothing and relies on the unique import record.

## 4. Runs

`MCBooking`, `MCWaitlist`, `MCSlotExchange`, `MCAnalysis` and `MCRecharge` give the instances.

| Run | What is checked | Instance | States |
|---|---|---|---|
| booking_sequential | `TypeOK`, `ActiveHoldsSlots`, `ConfirmedIsPaid`, `MoneyBackInFull`, `ImplementsCalendar`, `DisruptionResolved` | every operation except staff booking over others and second captures, one worker, the company, 2 bookings, 3 slots | 129,457 |
| booking_overlap | `SlotPairing`, `ClosedHoldsNothing`, `CopiesSound`, `ImplementsCalendar` | 2 workers, the company, 2 bookings, 2 slots; book, hold, confirm, release, cancel by staff, refund, absent, automatic refund | 376,687 |
| booking_staff | `SlotPairing`, `PaymentConfirms`, `TakenOverOnlyWhenNotUtilized` | 2 workers, both users, 2 bookings, 2 slots; book, staff booking, pay, second captures and late reports, staff cancellation, refund, complete, not utilized, restore | 493,965 |
| waitlist_sweeps | `TypeOK`, `OneRowPerUser`, `DepthBound`, `PromotedBound`, `PromotedLeaves`, `PromotionTakesFree` | depth 1, 2 users, 2 rows, 2 slots, 2 workers | 783,380 |
| exchange_accepts | `TypeOK`, `SlotCountKept`, `OrderedLocks`, `SwapsAgreed` | 3 bookings with 4 slots, 2 requests, 2 workers | 905,268 |
| analysis_sequential | `TypeOK`, `OneHoldPerPc`, `QueueAgrees`, `DesktopNotShared`, `MissedYields` | every operation except a manager's cancellation, silent agents and marking PCs OFFLINE, one worker, 2 reservations, 1 PC, 1 session | 730,670 |
| analysis_overlap | `QueuedWaits`, `OneDesktop` | 2 workers, 2 reservations, 1 PC, 2 sessions; request, launch, queue job, check-in timers, cancel | 225,240 |
| analysis_liveness | `CheckinEnds`, `EveryReservationEnds`, `PcReturns` | every operation, 1 reservation, 1 PC, 1 session, 1 worker, no symmetry | 13,553 |
| recharge | `TypeOK`, `BalanceExplained`, `CreditedOnce`, `MatchedIsFunded`, `ConfirmedIsFinal`, `NeverBelow`, `OldestFirst` | every operation, 3 requests (one of cash), 1 entry, 2 workers, opening balance -1 | 444,096 |

Three more runs check one statement of the repository each, which the code
does not keep; each is a finding:

| Run | Statement | What happens |
|---|---|---|
| booking_cancel | `RefundedOnce`: closed bookings are not cancelled | two overlapping cancellations both refund |
| booking_move | `NoTakeOver`: a slot is not booked twice at a time | a reschedule takes a slot booked between its query and its update |
| exchange_deadlock | `NeverWaitOnEachOther` | two acceptances wait for each other's request row |

**What the passing runs show.** Taken one at a time, the operations keep the whole
contract, money included. When they overlap, the slots still end up
consistent, however bookings end: a cancellation that collected its slots
before others released them frees nothing that is not its booking's, and a
closed booking holds nothing. Money is another matter, and this is what the
booking_cancel is about: `ConfirmedIsPaid` and `MoneyBackInFull` are checked without
overlaps. The same unlocked read lets the automatic refund of a disruption and a
refund its user began before it both be paid, and a staff refund of an urgent
HOLD credit what was never debited. Moves keep the calendar only without overlaps.

A slot the waitlist gives away was free when it was booked, but not necessarily
released by a user: staff may have closed and reopened it during the sweep, and
the marker is not looked at again under the lock.

An analysis PC has one holder while requests are allocated one at a time, although failed preparations, late
acknowledgements and heartbeats keep writing its status, and the user of an open desktop keeps the PC until
the start of the window is missed. After that (a desktop first opened late) the sweep does free the PC under
the desktop, it does so too when the agent falls silent under an open desktop, and two requests that are
allocated at the same moment do get the same PC: neither is claimed. What survives the overlaps is the queue
(nobody who is queued is lost) and one desktop per reservation.

Recharges lock what matters: with two of them overlapping, on stale balances and
stale running credit, no unit is made or lost, nothing is credited twice, and the
recovery stays within what a recharge brings.

**Bounds, and why they are enough.** `Users`: a student, who must afford a booking, and a company, which may
pay the rest through the gateway. With the booking kinds of booking_overlap and booking_sequential the company
alone takes every path (wallet, gateway or both), so these have one user; the taking over of another's slot,
in booking_staff, has both. `Charge` 2 and `InitialBalance` 3: one booking is affordable, not two, so the
debit fails, the split is partial (1 of 2), and a wrong refund is visible. Two bookings compete for slots; two
slots make a booking that has more than one slot and one that has one; three slots, with one worker, let a
move keep some slots and change others. Two workers: every race found here or suspected in the code is of two
parties; three are beyond TLC for the whole lifecycle, and the theorems below are for any number. Two
reservations for one PC: one holds it and one waits, which is what the queue and every wrong release are
about; a reservation's window is early, late or over, and two missed check-ins (`MissedLimit`) close it under
CANCEL_AFTER_N, so both the way back to the queue and the end are reached. Recharges of 2, 1 and 2 over an
overdraft of 1: one pays it off in part, one in full, one recovers a credit in part or two in a row;
`MaxSpent` 1 makes the balance change between its read and the credit; `MaxIncome` 0 lets other money
come in only after as much was spent (the theorems are for any `MaxIncome`). One capture too many per booking: one is enough to pay twice.
One entry fits two requests. Rows are not used again, so that runs end: the booking, exchange, analysis and
recharge configurations switch deadlock checking off for that reason (all bookings, reservations or requests
may be closed) and for no other; waitlist_sweeps checks it. Bookings, slots, rows and workers are symmetric
where a configuration says so, in analysis_sequential the reservations; the runs with liveness properties use
no symmetry.

**Fairness.** `FairSpec` assumes that a worker that began an operation ends it
(weak fairness of `Ends`: a request ends by an answer, an error or a
timeout), and strong fairness of the automatic refund for each booking: Celery beat runs it again
and again, so a booking that is past its deadline time after time is picked up
although requests on it keep starting and ending. Nothing is assumed of users
or the gateway. `AnalysisScheduler`'s `FairSpec` assumes the same of its workers (`Commits`), of its jobs
(timers, queue, each list of the sweep but that of silent PCs, end of idle or expired sessions: strong fairness, since they
are scheduled again and again while requests come and go), that heartbeats without a failed cleanup keep
arriving from the PC, that a collection ends (its upload, or two hours of silence), and
that time passes. Nothing is assumed of users and managers. Only `DisruptionResolved`
and the properties of analysis_liveness need fairness.

Each property of a passing run has a mutant, an operator beside the definition it
changes, with a comment that says which slip it stands for.

## 5. Proofs

TLC checks the instances above; the theorems are for all values of the constants
(any number of users, slots, bookings and requests in progress).

`BookingLifecycle_proofs`, from `ConstantsAssumption`:

- `TypeCorrect`: `Spec => []TypeOK`, inductive by itself. Wallets are naturals in it: no
  debit takes one below zero, whatever the split computed earlier says.
- `PairingCorrect`: `Spec => []SlotPairing`, for every set of operations, moves and staff
  bookings included. A commit writes slots for a booking that its worker
  remembers, so the invariant needs what it remembers: `PairingInv` is `TypeOK`,
  `SlotPairing` and `Remembered` of every request (the booking it loaded
  still exists, the row it will create is not a closed one).
- `ClosedCorrect`, `CopiesCorrect`, `CalendarRefinement` assume `NeverMoved`: neither reschedules
  nor staff bookings over others, as in booking_overlap. The assumption is needed: with them the properties are false,
  as booking_move and the take-over in booking_staff show. `CalendarInv` adds `ClosedHoldsNothing` and
  `Collected` (a cancellation's slot ids are all slots of its booking, or it has none left),
  and every step is shown to be a `SoundStep`: it leaves the owners alone, takes all slots from one
  booking, or gives free slots to a new one. Invariance and refinement both follow
  from that: a release maps to `Release`, a claim to `Claim`, and the rest
  to stuttering.

`BookingPayment_proofs`, from `ConstantsAssumption` too:

- `PaidIsConfirmed`: `Spec => []PaymentConfirms`, for every set of operations and any overlap. `OrderInv`
  adds that a booking that does not exist has no order.
- `TakenOverFromNotUtilized`: only slots marked as not utilized pass from one booking to another,
  staff bookings included; moves are left out, since booking_move refutes it with them.
- `PaidInFull`, `RefundedInFull`, under `OneAtATime` (any two workers are the same one)
  and `OneCapture` (no second order is captured):
  `MoneyInv` says of each status what has been paid, given back and ordered
  (`Accounted`), and that what the worker remembers is still so (`UpToDate`).
  `OneAtATime` is the hypothesis the code needs: booking_cancel shows the refund
  paid twice without it. `OneCapture` is needed because the code keeps the money of a second
  capture and refunds one order only; `PaidIsConfirmed` above needs neither.
- `ActiveCorrect`, `SerialRefinement`, under `Serial` (`OneAtATime`, no staff bookings over
  others): `SerialInv` adds `CalendarInv` and the slots a move or a cancellation has collected. A step
  is a `SoundStep` or `Moves` a booking, which maps to the abstract `Move`; so the refinement
  holds for all operations but that one.

`Waitlist_proofs`, from `WaitlistAssumption`:

- `DepthCorrect` (for at least one worker): the queue and the requests about to
  join it exceed the depth by less than the number of workers. `DepthBound` is
  inductive with `Typed`: a request begins to join only below the depth, and
  then the other workers bound how many are about to join.
- `PromotionSafe`: a promotion takes only slots that are free under the lock.
- `TypeCorrect`; and `OnePlace`, `PromotionsBounded`, `PromotedAreLeaving` from one invariant, `ServedInv`. How often a
  row was served is bounded by who may serve it still: `Counted` says that what
  was served and the sweeps that have the row on their list are together no more than the
  workers, and that an existing row was served only by sweeps that will delete it.

`SlotExchange_proofs`, from `ExchangeAssumption`, for any requests, bookings, slots and workers:

- `SwapsAsAgreed`, `CountsKept`, `LocksOrdered` from `Inv`: an acceptance has
  locked, or will lock, its request and every row of its plan (`AcceptInv`), so that when it commits the request is
  pending and the plan still holds; and it takes bookings and slots in the order of their
  keys (`OrderInv`). `CountsKept` is a bijection between the slots given and taken;
  `LocksOrdered` takes the highest booking or slot row that somebody in the circle waits for: its holder waits for a
  higher one, or for a request row.

`WalletRecharge_proofs`, from `RechargeAssumption`, for any requests, entries, amounts and
number of transactions under way:

- `CreditedAtMostOnce`, `ReceiptsStandBehindMoney`, `ConfirmationIsFinal`: one inductive
  invariant `IInv` gives all three. The properties speak of single rows, but a
  transaction writes a row from what it found at its start, so `IInv` adds `Locks` (no
  two transactions hold the same request or entry) and `Found` (what a
  transaction found under its locks is still so: pending, deferred, not consumed) to
  what the columns of a row say about each other (`RowsOK`, `OneRequestPerEntry`). Every
  step `Concerns` one row: of the others it only lowers what they owe, never
  below zero (`ShareBound`). So one lemma per operation is about one row, and one lemma
  carries the rest.
- `MoneyIsExplained`, `RechargeNeverLowers`, `OldestIsFirst`, `TypeCorrect` from `MInv`, which adds the
  equation itself in the form of a sum of what each request is `Worth`, and
  `Listing` (what is owed is owed on a declined request that is listed, once). The recovery
  takes from each row a share that depends on the sum over older rows; that the shares add up
  to at most the budget, and that a younger row is touched only if older ones are
  settled, follows from what `SumLemmas` says of sums over finite sets.

`AnalysisScheduler_proofs`, from the assumptions of `AnalysisScheduler`, for any PCs, reservations, sessions and limits:

- `TypeCorrect`, `NeverLost`: for any overlap. `Kind` is the types and `Waits`; each
  service is shown to be `Harmless` (whoever is QUEUED afterwards has an entry
  that waits), and a service called in a service, or once for each entry of the queue, inherits it.
- `OneDesktopOverlap`: launches overlap as they like, desktops do not end or fail (`NothingEnds`, as in
  analysis_overlap). `DesktopInv`: who has started has a desktop, and a launch
  that is no check-in has seen it. Where one fails between the two steps of a launch,
  that launch and another that loads after the failure both open a desktop (a counterexample of
  three session rows), so the hypothesis is needed.
- Under `OneAtATime`, with every operation: `OneReservationPerPc`, `QueueAgreesSerial`, `OneDesktopSerial`,
  `OwnDesktop` (under `NobodyLeaves`: no manager's cancellation and no silent agent, which leave the desktop open on a PC nobody holds) and `MissedYieldsSerial`.
  `SerialInv` is about whole tables (`Sound`: one holder for each PC, who waits has no
  PC, an offline PC has no holder; `AllAgree`: queue and status agree) because
  the services call each other on tables that nobody else ever sees; each service
  keeps it, then each step. It also says that what the worker has read
  is still so (`TaskSound`). Overlaps refute `OneHoldPerPc` and `QueueAgrees` in the model as in the
  code: two requests read the same candidate without a lock; a launch that is refused after the timer job
  has released its hold makes a reservation that is back in the queue await its check-in again.
- `MissedYieldsSerial` needs the whole of a timer job: entries of missed check-ins go behind all others
  (`ReleaseAll`), the queue is then served from its front, and a PC that somebody ahead
  could not get is not given to somebody behind him.

Attempting `OwnDesktop` corrected a property. `DesktopNotShared` used to say that nobody else holds the
PC of an open desktop; that held only because the instance had one session. With two, a
failed desktop leaves a reservation that still holds the PC when its window is
over, until the sweep finds it, and the next reservation may start there already. It now
excepts holders whose window is over.

`InductionLemmas` and `SumLemmas` hold what these share. The library's induction theorems take an operator as a
parameter and cannot be used, so an induction here is an argument about a least
element: the least natural, or the least subset of a finite set, for which a claim fails
(`WFMin` on the library's well-founded orders). In this way recursive functions are shown to have values
(`StepwiseFunction`, for `Kept`, `ServeAll` and `ReleaseAll`), `Kept` is shown to return the
rows asked for in their order, and `SumFunctionOnSet` to be independent of the order of summation.

Only model-checked: the liveness properties (`DisruptionResolved`, `CheckinEnds`, `EveryReservationEnds`,
`PcReturns`), which rest on fairness and ENABLED and are beyond the prover. Every other property of a passing run
is a theorem, under the hypotheses above.

## 6. Abstractions and what is left out

- A booking's charge is a constant; recalculated charges, partial
  cancellation, alternatives of another length, reward points, gateway fees
  and refunds of a part are left out. So are the credit facility (the floor of
  a wallet is 0), shared group wallets (a wallet has one holder) and the status PENDING.
- Of the disruptions only the operator's absence is modelled; maintenance windows
  are not. Staff reopening slots marked OPERATOR_ABSENT are not.
  The reschedule by staff has the shape of the user's and is not repeated.
- Handlers that lock first are one action and need an idle worker.
- `RestoreLoad` may happen to any marked booking: whether a mark was wrong depends on dates.
- A second capture for one booking is kept and never given back; `ConfirmedIsPaid` and
  `MoneyBackInFull` are about bookings with one. Of several orders only the one opened last is looked at by a refund.
- Waitlist: how many slots a user needs, quota and wallet refusals are nondeterministic;
  the two reads at the start of a sweep are one step; a sweep reaches its end (a crash in between is
  an open hazard); staff confirming users by hand are left out.
- Slot exchange: deadlines and business rules are a plan that fails at any
  point; cancellations during an exchange and exchanges between two equipments are left out;
  row locks are as in the code, writes are visible at the commit. The share locks of foreign keys make a
  creation wait; that others wait for a creation's own share locks, and the circles this could close, are left out.
- Remote analysis: a booking has one reservation (the check for a second
  one is not locked), all have one priority and want the same kind of PC, now: windows do not lie
  apart, and `time` (early, late, over) stands for the grace period (15 minutes), the
  limit for queued requests (30) and the end. A PC that is ONLINE is AVAILABLE here, the statuses only staff set
  are left out, and an agent reports itself idle or busy. `CancelByManager` and `EndAnalysis` read and write in one step. REQUESTED and VALIDATING are never seen by others. The
  policies that never cancel (END_OF_QUEUE, the default, and RETRY_LATER) behave like a `MissedLimit` that is
  not reached. Software, health,
  maintenance and the limit of sessions are left out or a refused launch. The launch token is used
  and a session ended in one step; the acknowledgement of PREPARE is part of `Advance`. `Best` is any fixed
  choice among the candidates.
- Liveness of remote analysis is checked for one reservation: the jobs treat each by itself,
  and the queue in turn.
- Recharge: drafts before the one-time password, the admin credit facility, test
  accounts, the cash book's cut-off date and notifications are left out. An entry fits a request if the
  amounts agree. `decline_converts_to_credit` may have another value at each decline. The checks of an import
  are one unlocked step. What is no recharge moves one unit at a time (`Spend`, `Receive`), and the recovery that a credit
  outside recharges sets off for the department's faculty facility (`on_subwallet_credited`) is left out with that facility.
  There is one wallet: import records are keyed by receipt, date and user, so a receipt that was imported for one user
  and is matched by grant code to a request of another is outside the model.
- The rest of the inventory is not modelled yet, or not worth a model (I/O,
  presentation); `PROJECT.json` says which.

## 7. Plan

The order of work, most important first. Done: 1 to 7.

1. `SlotCalendar`, `BookingLifecycle`: bookings, slots and money; refinement.
2. `BookingLifecycle_proofs`, `BookingPayment_proofs`: types, pairing, closed and active bookings, refinement, money.
3. `Waitlist` and `Waitlist_proofs`.
4. `SlotExchange` at the level of row locks, and `SlotExchange_proofs`.
5. `AnalysisScheduler`: reservations, queue, check-in, desktops and PC status; liveness; `AnalysisScheduler_proofs`.
6. `WalletRecharge` and `WalletRecharge_proofs`.
7. `InductionLemmas`, `SumLemmas`: what the proofs share.
   Next among proofs: `DesktopNotShared` under overlaps of launches and sweeps, and which single lock
   (on the PC a request picks) would make `OneHoldPerPc` a theorem without `OneAtATime`.
8. `Payments`: orders, three settlement channels, callbacks, receipts; withdrawals and peer transfers of wallets;
   abstract specification: a ledger in which each payment is credited once.
9. `UrgentRequests` with HOLD expiry and approval; `Quota` (locked and unlocked periods), checked together with booking.
10. Charge recalculation, input edits with their payment and refund windows, partial cancellation.
11. Maintenance windows with automatic rescheduling; exchange composed with cancellation; modes of one instrument.
12. Sync data plane: uploads, retries and recovery; procurement stock and budget; training selection.

Runs planned for these are one passing instance each, of two actors on at most three rows;
a run that asks a variant of another's question gives way to it.
