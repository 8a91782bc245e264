-------------------------- MODULE BookingLifecycle --------------------------
(***************************************************************************)
(* The life of a booking on one equipment: its slots, its status and its   *)
(* money, under requests that overlap.                                     *)
(*                                                                         *)
(* An HTTP request or a Celery job is run by a worker and is one           *)
(* READ COMMITTED transaction.  A handler that takes a row lock before it  *)
(* reads is one action.  A handler that decides on rows it read without a  *)
(* lock is several: it loads a copy of the rows, other transactions may    *)
(* commit, and its writes (which hold their row locks until the commit, so *)
(* that nobody sees half of them) are one last step decided by the copy.   *)
(* A worker can give up at any point before that step: an error, a failed  *)
(* validation or a deadlock victim rolls back and leaves no trace.         *)
(***************************************************************************)
EXTENDS Integers, FiniteSets

CONSTANTS
  Users,           \* holders of a department sub-wallet
  External,        \* those of them who may pay the rest through the gateway
  Slots,           \* daily slots of the equipment
  Bookings,        \* booking rows that may be created
  Workers,         \* requests and jobs that can be in progress at a time
  Kinds,           \* the operations of the instance, see AllKinds
  Charge,          \* total_charge of a booking
  InitialBalance,  \* balance of every sub-wallet at the start
  Free,            \* DailySlot.booking is NULL
  Nobody           \* the user of a row not created yet

AllKinds == {"book", "hold", "adminBook", "confirm", "release", "cancel",
             "adminCancel", "refund", "absent", "reschedule", "complete",
             "autoCancel", "notUtilized", "restore", "pay", "payAgain"}

ASSUME ConstantsAssumption ==
  /\ External \subseteq Users
  /\ Free \notin Bookings
  /\ Nobody \notin Users
  /\ Kinds \subseteq AllKinds
  /\ Charge \in Nat
  /\ InitialBalance \in Nat

VARIABLES
  slotStatus,   \* DailySlot.status
  slotBooking,  \* DailySlot.booking, or Free
  booking,      \* the Booking rows
  wallet,       \* SubWallet.balance
  order,        \* state of the PaymentOrders of a booking's shortfall
  paid,         \* wallet debits and gateway captures for a booking so far
  refunded,     \* wallet credits and gateway refunds for a booking so far
  request       \* what each worker is in the middle of

vars == <<slotStatus, slotBooking, booking, wallet, order, paid, refunded, request>>

(* SlotStatus, BookingStatus and PaymentOrderStatus values that occur here. *)
SlotStatuses == {"AVAILABLE", "BOOKED", "OPERATOR_ABSENT", "BOOKING_NOT_UTILIZED"}

Statuses == {"NONE", "HOLD", "PENDING_PAYMENT", "BOOKED", "DISRUPTION_PENDING",
             "COMPLETED", "BOOKING_NOT_UTILIZED", "CANCELLED", "REFUNDED", "ABSENT"}

Closed == {"CANCELLED", "REFUNDED", "ABSENT"}

(* The latest order of a booking's shortfall.  "CREATED" stands for any     *)
(* number of orders not captured yet, failed ones included: a capture       *)
(* settles them alike.  "FAILED" is a captured one whose row was overwritten, *)
(* "REFUNDED" one whose payment was given back.                             *)
OrderStatuses == {"none", "CREATED", "PAID", "FAILED", "REFUNDED"}

Row == [status : Statuses, user : Users \cup {Nobody},
        applied : 0..Charge, due : 0..Charge, settled : BOOLEAN]

NoRow == [status |-> "NONE", user |-> Nobody, applied |-> 0, due |-> 0, settled |-> FALSE]

(* What a worker remembers: the operation, how far it got, the booking, its *)
(* copy of the row, the slot ids it read, and one decision it already took. *)
Request == [kind : AllKinds \cup {"idle"}, step : {"idle", "loaded", "collected"},
            b : Bookings \cup {Free}, row : Row, ids : SUBSET Slots, flag : BOOLEAN]

Idle == [kind |-> "idle", step |-> "idle", b |-> Free, row |-> NoRow, ids |-> {}, flag |-> FALSE]

Owned(b) == {s \in Slots : slotBooking[s] = b}

Available == {s \in Slots : slotStatus[s] = "AVAILABLE"}

(* Slots a reschedule has already freed in its own uncommitted transaction: *)
(* it holds their row locks, so another write to them waits.                *)
LockedFor(w) ==
  {s \in Slots : \E v \in Workers \ {w} :
     request[v].kind = "reschedule" /\ request[v].step = "collected" /\ slotBooking[s] = request[v].b}

Writable(w, S) == S \cap LockedFor(w) = {}

(* One operation runs on an idle worker. *)
Idling(w, kind) == kind \in Kinds /\ request[w] = Idle

Begin(w, kind, b, row, ids, flag) ==
  request' = [request EXCEPT ![w] = [kind |-> kind, step |-> "loaded", b |-> b,
                                     row |-> row, ids |-> ids, flag |-> flag]]

Continue(w, ids, flag) ==
  LET q == request[w]
  IN request' = [request EXCEPT ![w] = [kind |-> q.kind, step |-> "collected", b |-> q.b,
                                        row |-> q.row, ids |-> ids, flag |-> flag]]

At(w, kinds, step) == request[w].kind \in kinds /\ request[w].step = step

Finish(w) == request' = [request EXCEPT ![w] = Idle]

(* DailySlot rows of S get the status, and b (or Free) as their booking. *)
SetSlots(S, b, status) ==
  /\ slotBooking' = [s \in Slots |-> IF s \in S THEN b ELSE slotBooking[s]]
  /\ slotStatus' = [s \in Slots |-> IF s \in S THEN status ELSE slotStatus[s]]

(* released_slot_status_after_booking_freed, or the intended marking of a  *)
(* booking under the operator-absent disruption.                           *)
FreedStatus(row) == IF row.status = "DISRUPTION_PENDING" THEN "OPERATOR_ABSENT" ELSE "AVAILABLE"

(* Mutant: the balance is not looked at again under the lock. *)
Debit_NoFloor(u, b, amount) ==
  /\ wallet' = [wallet EXCEPT ![u] = @ - amount]
  /\ paid' = [paid EXCEPT ![b] = @ + amount]

(* SubWallet.debit, under the wallet's row lock, never below zero. *)
Debit(u, b, amount) ==
  /\ wallet[u] - amount >= 0
  /\ wallet' = [wallet EXCEPT ![u] = @ - amount]
  /\ paid' = [paid EXCEPT ![b] = @ + amount]

(* SubWallet.credit, an in-place increment. *)
Credit(u, b, amount) == wallet' = [wallet EXCEPT ![u] = @ + amount]

Init ==
  /\ slotStatus = [s \in Slots |-> "AVAILABLE"]
  /\ slotBooking = [s \in Slots |-> Free]
  /\ booking = [b \in Bookings |-> NoRow]
  /\ wallet = [u \in Users |-> InitialBalance]
  /\ order = [b \in Bookings |-> "none"]
  /\ paid = [b \in Bookings |-> 0]
  /\ refunded = [b \in Bookings |-> 0]
  /\ request = [w \in Workers |-> Idle]

-----------------------------------------------------------------------------
(* Booking: the slots and the wallet are looked at, then the slots are      *)
(* locked, looked at again, and booked.                                     *)

(* Mutant: staff may book over any slot. *)
Bookable_Any(kind) == IF kind = "adminBook" THEN Slots ELSE Available

Bookable(kind) ==
  IF kind = "adminBook" THEN {s \in Slots : slotStatus[s] # "BOOKED"} ELSE Available

(* compute_booking_payment_split: the row to create, if the split is ok. *)
NewRow(u, kind) ==
  LET row(status, applied) ==
        [status |-> status, user |-> u, applied |-> applied,
         due |-> IF status = "HOLD" THEN 0 ELSE Charge - applied, settled |-> FALSE]
  IN IF kind = "hold" THEN row("HOLD", 0)
     ELSE IF wallet[u] >= Charge THEN row("BOOKED", Charge)
     ELSE row("PENDING_PAYMENT", wallet[u])

BookLoad(w, kind) ==
  /\ Idling(w, kind)
  /\ \E u \in Users, S \in (SUBSET Bookable(kind)) \ {{}} :
       /\ kind = "hold" \/ u \in External \/ wallet[u] >= Charge
       /\ Begin(w, kind, Free, NewRow(u, kind), S, FALSE)
  /\ UNCHANGED <<slotStatus, slotBooking, booking, wallet, order, paid, refunded>>

(* Mutant: the status of the slots is not looked at again under the lock. *)
LockedSlots_NoRecheck(kind, ids) == {ids}

(* The slots asked for, or as many free ones if any of them is taken: an     *)
(* equivalent run, or the ones collected for book_any_available_slots, for  *)
(* users, staff and urgent requests alike.  (Alternatives of another length *)
(* would change the charge, a constant.)                                    *)
LockedSlots(kind, ids) ==
  IF ids \subseteq Bookable(kind) THEN {ids}
  ELSE {S \in (SUBSET Available) \ {{}} : Cardinality(S) = Cardinality(ids)}

BookCommit(w, b) ==
  /\ At(w, {"book", "hold", "adminBook"}, "loaded")
  /\ booking[b].status = "NONE"
  /\ LET row == request[w].row
     IN \E S \in LockedSlots(request[w].kind, request[w].ids) :
          /\ Writable(w, S)
          /\ Debit(row.user, b, row.applied)
          /\ booking' = [booking EXCEPT ![b] = row]
          /\ SetSlots(S, b, "BOOKED")
  /\ Finish(w)
  /\ UNCHANGED <<order, refunded>>

-----------------------------------------------------------------------------
(* Urgent requests: a HOLD booking is confirmed or released.                *)

HoldLoad(w, kind, b) ==
  /\ Idling(w, kind)
  /\ booking[b].status = "HOLD"
  /\ Begin(w, kind, b, booking[b], {}, FALSE)
  /\ UNCHANGED <<slotStatus, slotBooking, booking, wallet, order, paid, refunded>>

(* Saves the status column only. *)
ConfirmCommit(w) ==
  /\ At(w, {"confirm"}, "loaded")
  /\ LET b == request[w].b
     IN /\ Debit(request[w].row.user, b, Charge)
        /\ booking' = [booking EXCEPT ![b].status = "BOOKED"]
  /\ Finish(w)
  /\ UNCHANGED <<slotStatus, slotBooking, order, refunded>>

(* Mutant: the slots lose their booking and stay marked as booked. *)
ReleaseCommit_StatusKept(w) ==
  /\ At(w, {"release"}, "loaded")
  /\ SetSlots(Owned(request[w].b), Free, "BOOKED")
  /\ booking' = [booking EXCEPT ![request[w].b].status = "CANCELLED"]
  /\ Finish(w)
  /\ UNCHANGED <<wallet, order, paid, refunded>>

ReleaseCommit(w) ==
  /\ At(w, {"release"}, "loaded")
  /\ LET b == request[w].b
     IN /\ Writable(w, Owned(b))
        /\ SetSlots(Owned(b), Free, "AVAILABLE")
        /\ booking' = [booking EXCEPT ![b].status = "CANCELLED"]
  /\ Finish(w)
  /\ UNCHANGED <<wallet, order, paid, refunded>>

-----------------------------------------------------------------------------
(* Cancellation of all slots, by the user or by staff, with or without      *)
(* refund: the row is loaded, the slot ids are collected, then released.    *)

Cancellable(kind) ==
  IF kind = "cancel" THEN {"BOOKED", "DISRUPTION_PENDING"}
  ELSE Statuses \ {"NONE", "CANCELLED", "REFUNDED", "BOOKING_NOT_UTILIZED"}

CancelLoad(w, kind, b) ==
  /\ Idling(w, kind)
  /\ booking[b].status \in Cancellable(kind)
  /\ \E refund \in BOOLEAN : Begin(w, kind, b, booking[b], {}, refund)
  /\ UNCHANGED <<slotStatus, slotBooking, booking, wallet, order, paid, refunded>>

(* Mutant: some of the slots are taken for all of them. *)
CancelCollect_Some(w) ==
  /\ At(w, {"cancel", "adminCancel"}, "loaded")
  /\ \E ids \in (SUBSET Owned(request[w].b)) \ {{}} : Continue(w, ids, request[w].flag)
  /\ UNCHANGED <<slotStatus, slotBooking, booking, wallet, order, paid, refunded>>

(* The slots are read to decide that the cancellation is a full one, and    *)
(* read again for its execution, which fails unless both readings agree:    *)
(* what goes on is the second reading.                                      *)
CancelCollect(w) ==
  /\ At(w, {"cancel", "adminCancel"}, "loaded")
  /\ Owned(request[w].b) # {}
  /\ Continue(w, Owned(request[w].b), request[w].flag)
  /\ UNCHANGED <<slotStatus, slotBooking, booking, wallet, order, paid, refunded>>

CancelledStatus(row, refund) ==
  IF ~refund THEN "CANCELLED"
  ELSE IF row.status = "DISRUPTION_PENDING" THEN "ABSENT" ELSE "REFUNDED"

(* Frees those of the slots read before that still belong to the booking. *)
ReleaseIds(b, ids, status) == SetSlots(ids \cap Owned(b), Free, status)

(* Saves the whole row as it was loaded, with the new status. *)
CancelCommit(w) ==
  /\ At(w, {"cancel", "adminCancel"}, "collected")
  /\ LET b == request[w].b
         row == request[w].row
         amount == IF request[w].flag THEN Charge ELSE 0
     IN /\ Writable(w, request[w].ids)
        /\ ReleaseIds(b, request[w].ids, FreedStatus(row))
        /\ Credit(row.user, b, amount)
        /\ refunded' = [refunded EXCEPT ![b] = @ + amount]
        /\ booking' = [booking EXCEPT ![b] = [row EXCEPT !.status = CancelledStatus(row, request[w].flag)]]
  /\ Finish(w)
  /\ UNCHANGED <<order, paid>>

-----------------------------------------------------------------------------
(* Refund by staff: through the gateway if it captured money for the        *)
(* booking, and to the wallet.                                              *)

RefundLoad(w, b) ==
  /\ Idling(w, "refund")
  /\ booking[b].status \notin {"NONE", "REFUNDED", "BOOKING_NOT_UTILIZED"}
  /\ Begin(w, "refund", b, booking[b], {}, FALSE)
  /\ UNCHANGED <<slotStatus, slotBooking, booking, wallet, order, paid, refunded>>

(* get_successful_booking_payment *)
RefundLookup(w) ==
  /\ At(w, {"refund"}, "loaded")
  /\ Continue(w, {}, order[request[w].b] = "PAID")
  /\ UNCHANGED <<slotStatus, slotBooking, booking, wallet, order, paid, refunded>>

(* What the gateway returns: the capture, once. *)
GatewayRefund(w) ==
  IF request[w].flag /\ order[request[w].b] = "PAID" THEN Charge - request[w].row.applied ELSE 0

(* Mutant: the wallet is credited with what the gateway also returns. *)
RefundCommit_PaysTwice(w) ==
  /\ At(w, {"refund"}, "collected")
  /\ LET b == request[w].b
     IN /\ SetSlots(Owned(b), Free, "AVAILABLE")
        /\ Credit(request[w].row.user, b, Charge)
        /\ refunded' = [refunded EXCEPT ![b] = @ + (Charge + GatewayRefund(w))]
        /\ order' = [order EXCEPT ![b] = IF request[w].flag THEN "REFUNDED" ELSE @]
        /\ booking' = [booking EXCEPT ![b].status = "REFUNDED"]
  /\ Finish(w)
  /\ UNCHANGED paid

RefundCommit(w) ==
  /\ At(w, {"refund"}, "collected")
  /\ LET b == request[w].b
         row == request[w].row
         credit == IF request[w].flag THEN row.applied ELSE Charge
     IN /\ Writable(w, Owned(b))
        /\ SetSlots(Owned(b), Free, "AVAILABLE")
        /\ Credit(row.user, b, credit)
        /\ refunded' = [refunded EXCEPT ![b] = @ + (credit + GatewayRefund(w))]
        /\ order' = [order EXCEPT ![b] = IF request[w].flag THEN "REFUNDED" ELSE @]
        /\ booking' = [booking EXCEPT ![b].status = "REFUNDED"]
  /\ Finish(w)
  /\ UNCHANGED paid

-----------------------------------------------------------------------------
(* Operator unavailable: the user gets to choose refund or reschedule.      *)

AbsentLoad(w, b) ==
  /\ Idling(w, "absent")
  /\ booking[b].status = "BOOKED"
  /\ Owned(b) # {}
  /\ Begin(w, "absent", b, booking[b], {}, FALSE)
  /\ UNCHANGED <<slotStatus, slotBooking, booking, wallet, order, paid, refunded>>

AbsentCommit(w) ==
  /\ At(w, {"absent"}, "loaded")
  /\ booking' = [booking EXCEPT ![request[w].b].status = "DISRUPTION_PENDING"]
  /\ Finish(w)
  /\ UNCHANGED <<slotStatus, slotBooking, wallet, order, paid, refunded>>

(* Mutant: only bookings paid through the gateway are refunded. *)
AutoCancel_SettledOnly(w, b) ==
  /\ Idling(w, "autoCancel")
  /\ booking[b].status = "DISRUPTION_PENDING" /\ booking[b].settled
  /\ SetSlots(Owned(b), Free, "OPERATOR_ABSENT")
  /\ Credit(booking[b].user, b, Charge)
  /\ refunded' = [refunded EXCEPT ![b] = @ + Charge]
  /\ booking' = [booking EXCEPT ![b].status = "REFUNDED"]
  /\ UNCHANGED <<order, paid, request>>

(* Without a choice within five days the booking is refunded, under its row *)
(* lock.  No request is in progress that long: one that is on this booking  *)
(* began after the disruption.                                              *)
AutoCancel(w, b) ==
  /\ Idling(w, "autoCancel")
  /\ booking[b].status = "DISRUPTION_PENDING"
  /\ \A v \in Workers : request[v].b = b => request[v].row.status = "DISRUPTION_PENDING"
  /\ Writable(w, Owned(b))
  /\ SetSlots(Owned(b), Free, "OPERATOR_ABSENT")
  /\ Credit(booking[b].user, b, Charge)
  /\ refunded' = [refunded EXCEPT ![b] = @ + Charge]
  /\ booking' = [booking EXCEPT ![b].status = "REFUNDED"]
  /\ UNCHANGED <<order, paid, request>>

-----------------------------------------------------------------------------
(* Reschedule into a window: its old slots are freed, the free slots of the *)
(* window are queried again, and those are booked without another look.     *)

(* Mutant: nobody looks whether the window has a free slot. *)
RescheduleLoad_AnyWindow(w, b) ==
  /\ Idling(w, "reschedule")
  /\ booking[b].status \in {"BOOKED", "DISRUPTION_PENDING"}
  /\ \E window \in SUBSET Slots : Begin(w, "reschedule", b, booking[b], window, FALSE)
  /\ UNCHANGED <<slotStatus, slotBooking, booking, wallet, order, paid, refunded>>

RescheduleLoad(w, b) ==
  /\ Idling(w, "reschedule")
  /\ booking[b].status \in {"BOOKED", "DISRUPTION_PENDING"}
  /\ \E window \in SUBSET Slots :
       /\ window \cap Available # {}
       /\ Begin(w, "reschedule", b, booking[b], window, FALSE)
  /\ UNCHANGED <<slotStatus, slotBooking, booking, wallet, order, paid, refunded>>

(* Mutant: the slots of the window are booked whatever their status. *)
RescheduleCollect_AnyStatus(w) ==
  /\ At(w, {"reschedule"}, "loaded")
  /\ Continue(w, request[w].ids, FALSE)
  /\ UNCHANGED <<slotStatus, slotBooking, booking, wallet, order, paid, refunded>>

RescheduleCollect(w) ==
  /\ At(w, {"reschedule"}, "loaded")
  /\ LET own == Owned(request[w].b)
         freed == IF FreedStatus(request[w].row) = "AVAILABLE" THEN own ELSE {}
     IN /\ Writable(w, own)
        /\ Continue(w, request[w].ids \cap (Available \cup freed), FALSE)
  /\ UNCHANGED <<slotStatus, slotBooking, booking, wallet, order, paid, refunded>>

RescheduleCommit(w) ==
  /\ At(w, {"reschedule"}, "collected")
  /\ LET b == request[w].b
         row == request[w].row
         new == request[w].ids
         old == Owned(b) \ new
     IN /\ Writable(w, new)
        /\ slotBooking' = [s \in Slots |-> IF s \in new THEN b ELSE IF s \in old THEN Free ELSE slotBooking[s]]
        /\ slotStatus' = [s \in Slots |-> IF s \in new THEN "BOOKED"
                                          ELSE IF s \in old THEN FreedStatus(row) ELSE slotStatus[s]]
        /\ booking' = [booking EXCEPT ![b] = [row EXCEPT !.status = "BOOKED"]]
  /\ Finish(w)
  /\ UNCHANGED <<wallet, order, paid, refunded>>

-----------------------------------------------------------------------------
(* A wrong mark of the scheduled check is undone.  The booking row is locked *)
(* all along (so its status is still the mark's when the restore commits),  *)
(* but its slots are read and then written by separate statements, between  *)
(* which staff may book over them.  Whether a mark is wrong depends on      *)
(* dates, so any of them may be.                                            *)

RestoreLoad(w, b) ==
  /\ Idling(w, "restore")
  /\ booking[b].status = "BOOKING_NOT_UTILIZED"
  /\ Owned(b) # {}
  /\ \A s \in Owned(b) : slotStatus[s] = "BOOKING_NOT_UTILIZED"
  /\ Begin(w, "restore", b, booking[b], {}, FALSE)
  /\ UNCHANGED <<slotStatus, slotBooking, booking, wallet, order, paid, refunded>>

(* Mutant: the restored slots become free while the booking keeps them. *)
RestoreCommit_SlotsFree(w) ==
  /\ At(w, {"restore"}, "loaded")
  /\ LET b == request[w].b
     IN /\ booking[b].status = "BOOKING_NOT_UTILIZED"
        /\ SetSlots(Owned(b), b, "AVAILABLE")
        /\ booking' = [booking EXCEPT ![b].status = "BOOKED"]
  /\ Finish(w)
  /\ UNCHANGED <<wallet, order, paid, refunded>>

(* Saves the status column, whichever slots the booking still has. *)
RestoreCommit(w) ==
  /\ At(w, {"restore"}, "loaded")
  /\ LET b == request[w].b
         marked == {s \in Owned(b) : slotStatus[s] = "BOOKING_NOT_UTILIZED"}
     IN /\ booking[b].status = "BOOKING_NOT_UTILIZED"
        /\ Writable(w, marked)
        /\ SetSlots(marked, b, "BOOKED")
        /\ booking' = [booking EXCEPT ![b].status = "BOOKED"]
  /\ Finish(w)
  /\ UNCHANGED <<wallet, order, paid, refunded>>

-----------------------------------------------------------------------------
(* Handlers that lock the booking row before they read it.                  *)

Complete(w, b) ==
  /\ Idling(w, "complete")
  /\ booking[b].status = "BOOKED"
  /\ booking' = [booking EXCEPT ![b].status = "COMPLETED"]
  /\ UNCHANGED <<slotStatus, slotBooking, wallet, order, paid, refunded, request>>

NotUtilized(w, b) ==
  /\ Idling(w, "notUtilized")
  /\ booking[b].status = "BOOKED"
  /\ Owned(b) # {}
  /\ \A s \in Owned(b) : slotStatus[s] = "BOOKED"
  /\ Writable(w, Owned(b))
  /\ SetSlots(Owned(b), b, "BOOKING_NOT_UTILIZED")
  /\ booking' = [booking EXCEPT ![b].status = "BOOKING_NOT_UTILIZED"]
  /\ UNCHANGED <<wallet, order, paid, refunded, request>>

(* create_order for the booking's shortfall. *)
OpenOrder(w, b) ==
  /\ Idling(w, "pay")
  /\ booking[b].due > 0 /\ ~booking[b].settled
  /\ booking[b].status \in {"PENDING_PAYMENT", "BOOKED"}
  /\ order[b] = "none"
  /\ order' = [order EXCEPT ![b] = "CREATED"]
  /\ UNCHANGED <<slotStatus, slotBooking, booking, wallet, paid, refunded, request>>

(* Mutant: an order already paid is settled again. *)
Settle_Again(w, b) ==
  /\ Idling(w, "pay")
  /\ order[b] \in {"CREATED", "PAID"}
  /\ paid' = [paid EXCEPT ![b] = @ + (Charge - booking[b].applied)]
  /\ booking' = [booking EXCEPT ![b].settled = TRUE, ![b].due = 0, ![b].status = "BOOKED"]
  /\ order' = [order EXCEPT ![b] = "PAID"]
  /\ UNCHANGED <<slotStatus, slotBooking, wallet, refunded, request>>

(* Mutant: the booking goes on waiting for the payment. *)
Settle_StillPending(w, b) ==
  /\ Idling(w, "pay")
  /\ order[b] = "CREATED"
  /\ paid' = [paid EXCEPT ![b] = @ + (Charge - booking[b].applied)]
  /\ booking' = [booking EXCEPT ![b].settled = TRUE, ![b].due = 0]
  /\ order' = [order EXCEPT ![b] = "PAID"]
  /\ UNCHANGED <<slotStatus, slotBooking, wallet, refunded, request>>

(* The gateway reports the capture of the order's amount.  The booking may  *)
(* have been closed meanwhile; it then keeps its status.                    *)
Settle(w, b) ==
  /\ Idling(w, "pay")
  /\ order[b] = "CREATED"
  /\ paid' = [paid EXCEPT ![b] = @ + (Charge - booking[b].applied)]
  /\ LET row == booking[b]
         status == IF row.status = "PENDING_PAYMENT" THEN "BOOKED" ELSE row.status
     IN booking' = [booking EXCEPT ![b] = [status |-> status, user |-> row.user,
                                           applied |-> row.applied, due |-> 0, settled |-> TRUE]]
  /\ order' = [order EXCEPT ![b] = "PAID"]
  /\ UNCHANGED <<slotStatus, slotBooking, wallet, refunded, request>>

(* Another order of the booking, opened after a failure of the first, is    *)
(* captured as well: the money is kept, the booking is settled already.  A  *)
(* refund looks at the order opened last.  (Bound: one capture too many.)   *)
CaptureAgain(w, b) ==
  /\ Idling(w, "payAgain")
  /\ order[b] \in {"PAID", "FAILED", "REFUNDED"} /\ paid[b] <= Charge
  /\ paid' = [paid EXCEPT ![b] = @ + (Charge - booking[b].applied)]
  /\ \/ order' = [order EXCEPT ![b] = "PAID"]
     \/ order[b] = "REFUNDED" /\ order' = order
  /\ UNCHANGED <<slotStatus, slotBooking, booking, wallet, refunded, request>>

(* A failure that was loaded before the capture is saved over it; the       *)
(* capture, reported again, finds its payment and sets the status back.     *)
LateReport(w, b) ==
  /\ Idling(w, "payAgain")
  /\ \/ order[b] = "PAID" /\ order' = [order EXCEPT ![b] = "FAILED"]
     \/ order[b] = "FAILED" /\ order' = [order EXCEPT ![b] = "PAID"]
  /\ UNCHANGED <<slotStatus, slotBooking, booking, wallet, paid, refunded, request>>

-----------------------------------------------------------------------------
(* An error response: the transaction is rolled back. *)
Abandon(w) ==
  /\ request[w] # Idle
  /\ Finish(w)
  /\ UNCHANGED <<slotStatus, slotBooking, booking, wallet, order, paid, refunded>>

Starts(w) ==
  \/ \E kind \in {"book", "hold", "adminBook"} : BookLoad(w, kind)
  \/ \E b \in Bookings :
       \/ \E kind \in {"confirm", "release"} : HoldLoad(w, kind, b)
       \/ \E kind \in {"cancel", "adminCancel"} : CancelLoad(w, kind, b)
       \/ RefundLoad(w, b)
       \/ AbsentLoad(w, b)
       \/ RescheduleLoad(w, b)
       \/ RestoreLoad(w, b)

Ends(w) ==
  \/ \E b \in Bookings : BookCommit(w, b)
  \/ ConfirmCommit(w)
  \/ ReleaseCommit(w)
  \/ CancelCollect(w)
  \/ CancelCommit(w)
  \/ RefundLookup(w)
  \/ RefundCommit(w)
  \/ AbsentCommit(w)
  \/ RescheduleCollect(w)
  \/ RescheduleCommit(w)
  \/ RestoreCommit(w)
  \/ Abandon(w)

LockedHandlers(w, b) ==
  \/ AutoCancel(w, b)
  \/ Complete(w, b)
  \/ NotUtilized(w, b)
  \/ OpenOrder(w, b)
  \/ Settle(w, b)
  \/ CaptureAgain(w, b)
  \/ LateReport(w, b)

Next ==
  \E w \in Workers :
    \/ Starts(w)
    \/ Ends(w)
    \/ \E b \in Bookings : LockedHandlers(w, b)

Spec == Init /\ [][Next]_vars

(* A worker that began an operation ends it, and the scheduled job that     *)
(* refunds undecided bookings runs again and again.                         *)
FairSpec ==
  /\ Spec
  /\ \A w \in Workers :
       /\ WF_vars(Ends(w))
       /\ \A b \in Bookings : SF_vars(AutoCancel(w, b))

-----------------------------------------------------------------------------
(* Types. *)
TypeOK ==
  /\ slotStatus \in [Slots -> SlotStatuses]
  /\ slotBooking \in [Slots -> Bookings \cup {Free}]
  /\ booking \in [Bookings -> Row]
  /\ wallet \in [Users -> Nat]
  /\ order \in [Bookings -> OrderStatuses]
  /\ paid \in [Bookings -> Nat]
  /\ refunded \in [Bookings -> Nat]
  /\ request \in [Workers -> Request]

(* The two columns of a slot tell the same story, whatever overlaps: it is  *)
(* marked as booked (or not utilized) exactly while a created booking owns  *)
(* it, so no slot is lost to everybody and none is free and owned.          *)
SlotPairing ==
  \A s \in Slots :
    /\ slotStatus[s] \in {"BOOKED", "BOOKING_NOT_UTILIZED"} <=> slotBooking[s] # Free
    /\ slotBooking[s] # Free => booking[slotBooking[s]].status # "NONE"

(* A cancelled or refunded booking keeps no slot blocked, even when the     *)
(* cancellation was decided on slots read before other commits.             *)
ClosedHoldsNothing ==
  \A b \in Bookings : booking[b].status \in Closed => Owned(b) = {}

(* A booking that is neither closed nor new has the slots it is for. *)
ActiveHoldsSlots ==
  \A b \in Bookings : booking[b].status \notin Closed \cup {"NONE"} => Owned(b) # {}

(* What a worker remembers of a row it does not lock.  A booking it loaded  *)
(* is still there, and a cancellation's collected slots are all the slots   *)
(* of the booking unless somebody else has already released them all.       *)
CopiesSound ==
  \A w \in Workers :
    LET q == request[w]
    IN /\ q.kind \in {"book", "hold", "adminBook"} => q.row.status \notin Closed \cup {"NONE"} /\ q.ids # {}
       /\ q.kind \notin {"book", "hold", "adminBook", "idle"}
            => q.b \in Bookings /\ booking[q.b].status # "NONE"
       /\ At(w, {"cancel", "adminCancel"}, "collected")
            => q.ids = Owned(q.b) \/ Owned(q.b) = {}

Confirmed == {"BOOKED", "DISRUPTION_PENDING", "COMPLETED", "BOOKING_NOT_UTILIZED"}

(* A confirmed booking is paid for once and in full, from the wallet, the   *)
(* gateway or both, although the split was computed before the debit.       *)
ConfirmedIsPaid ==
  \A b \in Bookings : booking[b].status \in Confirmed => paid[b] - refunded[b] = Charge

(* Refunding a confirmed booking, by whichever of the four ways, gives back *)
(* exactly what was paid.                                                   *)
MoneyBackInFull ==
  [][\A b \in Bookings :
       booking[b].status \in Confirmed /\ booking'[b].status \in {"REFUNDED", "ABSENT"}
         => paid'[b] = refunded'[b]]_vars

(* A captured payment confirms the booking that waited for it, whatever is  *)
(* reported of its orders later.                                            *)
PaymentConfirms ==
  \A b \in Bookings :
    order[b] \in {"PAID", "FAILED", "REFUNDED"} => booking[b].status # "PENDING_PAYMENT"

(* A slot passes from one booking to another without having been free only  *)
(* when staff book over one that was marked as not utilized.                *)
TakenOverOnlyWhenNotUtilized ==
  [][\A s \in Slots :
       slotBooking[s] # Free /\ slotBooking'[s] \notin {slotBooking[s], Free}
         => slotStatus[s] = "BOOKING_NOT_UTILIZED"]_vars

(* Every disruption ends: by the user's choice or by the automatic refund. *)
DisruptionResolved ==
  \A b \in Bookings :
    booking[b].status = "DISRUPTION_PENDING" ~> booking[b].status # "DISRUPTION_PENDING"

(* "Don't allow cancelling already cancelled, completed, or refunded        *)
(* bookings" (api_views.py:13617): the user gets the charge back once.      *)
RefundedOnce == \A b \in Bookings : refunded[b] <= Charge

(* "Lock slots at DB level to prevent concurrent booking of the same slot"  *)
(* (api_views.py:5000): a slot one booking holds is not given to another.   *)
NoTakeOver ==
  [][\A s \in Slots : slotBooking[s] # Free => slotBooking'[s] \in {slotBooking[s], Free}]_vars

-----------------------------------------------------------------------------
(* The calendar of SlotCalendar: a row is fresh until it is created, then   *)
(* holds slots, and is released once it has none.                           *)
Stage(b) ==
  IF booking[b].status = "NONE" THEN "fresh"
  ELSE IF Owned(b) # {} THEN "holding" ELSE "released"

Calendar == INSTANCE SlotCalendar
  WITH owner <- slotBooking, stage <- [b \in Bookings |-> Stage(b)]

(* What SlotCalendar promises holds of the calendar of these requests. *)
ImplementsCalendar == Calendar!Spec
=============================================================================
