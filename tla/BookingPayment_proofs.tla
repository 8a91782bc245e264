------------------------ MODULE BookingPayment_proofs ------------------------
(* Proofs about the money of BookingLifecycle, for any users, slots,        *)
(* bookings and charge: what holds however requests overlap, and what holds *)
(* when they are served one after another.                                  *)
EXTENDS BookingLifecycle_proofs

-----------------------------------------------------------------------------
(* A captured payment, for every set of operations and any overlap.         *)

(* A row that is not created has no order, and a captured order no row that *)
(* still waits for the payment.                                             *)
OrderAgrees(b) ==
  /\ order[b] # "none" => booking[b].status # "NONE"
  /\ order[b] \in {"PAID", "FAILED", "REFUNDED"} => booking[b].status # "PENDING_PAYMENT"

OrderInv == TypeOK /\ \A b \in Bookings : OrderAgrees(b)

(* A status other than these two agrees with every order. *)
LEMMA OrderStays ==
  ASSUME OrderInv, NEW b, NEW row, row.status \notin {"NONE", "PENDING_PAYMENT"},
         booking' = [booking EXCEPT ![b] = row],
         order' = order
  PROVE  \A c \in Bookings : OrderAgrees(c)'
BY DEF OrderInv, TypeOK, OrderAgrees

LEMMA OrderStatus ==
  ASSUME OrderInv, NEW b, NEW status, status \notin {"NONE", "PENDING_PAYMENT"},
         booking' = [booking EXCEPT ![b].status = status],
         order' = order
  PROVE  \A c \in Bookings : OrderAgrees(c)'
BY DEF OrderInv, TypeOK, OrderAgrees, Row

LEMMA OrderEnds ==
  ASSUME OrderInv, NEW w \in Workers, Ends(w)
  PROVE  \A c \in Bookings : OrderAgrees(c)'
<1>0. /\ TypeOK /\ request[w].row \in Row /\ \A c \in Bookings : OrderAgrees(c)
      /\ booking \in [Bookings -> Row] /\ order \in [Bookings -> OrderStatuses]
  BY RowTypes DEF OrderInv, TypeOK
<1>1. ASSUME NEW b \in Bookings, BookCommit(w, b)
      PROVE  \A c \in Bookings : OrderAgrees(c)'
  BY <1>0, <1>1 DEF BookCommit, OrderAgrees
<1>2. CASE ConfirmCommit(w) \/ ReleaseCommit(w) \/ AbsentCommit(w) \/ RestoreCommit(w)
  <2>1. PICK status \in {"BOOKED", "CANCELLED", "DISRUPTION_PENDING"} :
          booking' = [booking EXCEPT ![request[w].b].status = status] /\ order' = order
    BY <1>2 DEF ConfirmCommit, ReleaseCommit, AbsentCommit, RestoreCommit
  <2> QED
    BY <2>1, OrderStatus
<1>3. CASE CancelCommit(w)
  <2> DEFINE new == [request[w].row EXCEPT !.status = CancelledStatus(request[w].row, request[w].flag)]
  <2>1. new.status \notin {"NONE", "PENDING_PAYMENT"}
    BY <1>0 DEF CancelledStatus, Row
  <2>2. booking' = [booking EXCEPT ![request[w].b] = new] /\ order' = order
    BY <1>3 DEF CancelCommit
  <2> HIDE DEF new
  <2> QED
    BY <2>1, <2>2, OrderStays
<1>4. CASE RefundCommit(w)
  BY <1>0, <1>4 DEF RefundCommit, OrderAgrees, Row
<1>5. CASE RescheduleCommit(w)
  <2> DEFINE new == [request[w].row EXCEPT !.status = "BOOKED"]
  <2>1. new.status = "BOOKED"
    BY <1>0 DEF Row
  <2>2. booking' = [booking EXCEPT ![request[w].b] = new] /\ order' = order
    BY <1>5 DEF RescheduleCommit
  <2> HIDE DEF new
  <2> QED
    BY <2>1, <2>2, OrderStays
<1>6. CASE CancelCollect(w) \/ RefundLookup(w) \/ RescheduleCollect(w) \/ Abandon(w)
  BY <1>0, <1>6 DEF CancelCollect, RefundLookup, RescheduleCollect, Abandon, OrderAgrees
<1> QED
  BY <1>1, <1>2, <1>3, <1>4, <1>5, <1>6 DEF Ends

LEMMA OrderLocked ==
  ASSUME OrderInv, NEW w \in Workers, NEW b \in Bookings, LockedHandlers(w, b)
  PROVE  \A c \in Bookings : OrderAgrees(c)'
<1>0. /\ \A c \in Bookings : OrderAgrees(c)
      /\ booking \in [Bookings -> Row] /\ order \in [Bookings -> OrderStatuses]
  BY DEF OrderInv, TypeOK
<1>1. CASE AutoCancel(w, b) \/ Complete(w, b) \/ NotUtilized(w, b)
  <2>1. PICK status \in {"REFUNDED", "COMPLETED", "BOOKING_NOT_UTILIZED"} :
          booking' = [booking EXCEPT ![b].status = status] /\ order' = order
    BY <1>1 DEF AutoCancel, Complete, NotUtilized
  <2> QED
    BY <2>1, OrderStatus
<1>2. CASE OpenOrder(w, b)
  BY <1>0, <1>2 DEF OpenOrder, OrderAgrees
<1>3. CASE Settle(w, b)
  BY <1>0, <1>3 DEF Settle, OrderAgrees
<1>4. CASE CaptureAgain(w, b) \/ LateReport(w, b)
  BY <1>0, <1>4 DEF CaptureAgain, LateReport, OrderAgrees
<1> QED
  BY <1>1, <1>2, <1>3, <1>4 DEF LockedHandlers

LEMMA OrderInductive ==
  /\ Init => OrderInv
  /\ OrderInv /\ [Next]_vars => OrderInv'
<1>1. Init => OrderInv
  BY TypeInit DEF Init, OrderInv, OrderAgrees
<1>2. OrderInv /\ [Next]_vars => OrderInv'
  <2> SUFFICES ASSUME OrderInv, [Next]_vars PROVE OrderInv'
    OBVIOUS
  <2>0. TypeOK'
    BY TypeStarts, TypeEnds, TypeLocked DEF OrderInv, Next, vars, TypeOK
  <2>1. ASSUME booking' = booking, order' = order
        PROVE  OrderInv'
    BY <2>0, <2>1 DEF OrderInv, OrderAgrees
  <2>2. ASSUME NEW w \in Workers, Starts(w)
        PROVE  OrderInv'
    BY <2>1, <2>2, StartsKeep
  <2>3. CASE UNCHANGED vars
    BY <2>1, <2>3 DEF vars
  <2>4. ASSUME NEW w \in Workers, Ends(w)
        PROVE  OrderInv'
    BY <2>0, <2>4, OrderEnds DEF OrderInv
  <2>5. ASSUME NEW w \in Workers, NEW b \in Bookings, LockedHandlers(w, b)
        PROVE  OrderInv'
    BY <2>0, <2>5, OrderLocked DEF OrderInv
  <2> QED
    BY <2>2, <2>3, <2>4, <2>5 DEF Next
<1> QED
  BY <1>1, <1>2

(* A captured payment confirms the booking that waited for it: no copy of   *)
(* the row read before the capture, written back later, makes the booking   *)
(* wait again (the row saves of cancel and reschedule, api_views.py).       *)
THEOREM PaidIsConfirmed == Spec => []PaymentConfirms
<1>1. Spec => []OrderInv
  BY OrderInductive, PTL DEF Spec
<1>2. OrderInv => PaymentConfirms
  BY DEF OrderInv, OrderAgrees, PaymentConfirms
<1> QED
  BY <1>1, <1>2, PTL

-----------------------------------------------------------------------------
(* Slots that pass from one booking to another.                             *)

(* Where nothing moves a booking, b takes only the slots of a booking that  *)
(* was not utilized.                                                        *)
TakesOver ==
  \A s \in Slots : slotBooking[s] # Free /\ slotBooking'[s] \notin {slotBooking[s], Free}
                     => slotStatus[s] = "BOOKING_NOT_UTILIZED"

LEMMA FreedTakesOver ==
  ASSUME NEW S, NEW status, SetSlots(S, Free, status)
  PROVE  TakesOver
BY DEF SetSlots, TakesOver

LEMMA TakesOverStep ==
  ASSUME PairingInv, "reschedule" \notin Kinds, [Next]_vars
  PROVE  TakesOver
<1>0. TypeOK /\ SlotPairing
  BY DEF PairingInv
<1>1. ASSUME NEW w \in Workers, NEW b \in Bookings, BookCommit(w, b)
      PROVE  TakesOver
  <2>1. PICK S \in LockedSlots(request[w].kind, request[w].ids) : SetSlots(S, b, "BOOKED")
    BY <1>1 DEF BookCommit
  <2>2. S \subseteq {s \in Slots : slotStatus[s] # "BOOKED"}
    BY <2>1 DEF LockedSlots, Bookable, Available
  <2> QED
    BY <1>0, <2>1, <2>2 DEF SetSlots, TakesOver, SlotPairing, TypeOK
<1>2. ASSUME NEW w \in Workers, RescheduleCommit(w)
      PROVE  FALSE
  BY <1>2 DEF RescheduleCommit, At, PairingInv, Remembered
<1>3. ASSUME slotBooking' = slotBooking
      PROVE  TakesOver
  BY <1>3 DEF TakesOver
<1>4. ASSUME NEW w \in Workers, Ends(w)
      PROVE  TakesOver
  <2>1. CASE ReleaseCommit(w) \/ CancelCommit(w) \/ RefundCommit(w)
    BY <2>1, FreedTakesOver DEF ReleaseCommit, CancelCommit, ReleaseIds, RefundCommit
  <2>2. CASE \/ ConfirmCommit(w) \/ CancelCollect(w) \/ RefundLookup(w)
             \/ AbsentCommit(w) \/ RescheduleCollect(w) \/ Abandon(w)
    BY <1>3, <2>2 DEF ConfirmCommit, CancelCollect, RefundLookup, AbsentCommit, RescheduleCollect,
                      Abandon
  <2>3. CASE RestoreCommit(w)
    BY <1>0, <1>3, <2>3, KeptQuiet DEF RestoreCommit, Quiet
  <2> QED
    BY <1>1, <1>2, <1>4, <2>1, <2>2, <2>3 DEF Ends
<1>5. ASSUME NEW w \in Workers, NEW b \in Bookings, LockedHandlers(w, b)
      PROVE  TakesOver
  <2>1. CASE AutoCancel(w, b)
    BY <2>1, FreedTakesOver DEF AutoCancel
  <2>2. CASE NotUtilized(w, b)
    BY <1>0, <1>3, <2>2, KeptQuiet DEF NotUtilized, Quiet
  <2>3. CASE \/ Complete(w, b) \/ OpenOrder(w, b) \/ Settle(w, b)
             \/ CaptureAgain(w, b) \/ LateReport(w, b)
    BY <1>3, <2>3 DEF Complete, OpenOrder, Settle, CaptureAgain, LateReport
  <2> QED
    BY <1>5, <2>1, <2>2, <2>3 DEF LockedHandlers
<1> QED
  BY <1>3, <1>4, <1>5, StartsKeep DEF Next, vars, Unslotted

(* Where nothing moves a booking, a slot passes from one booking to another *)
(* only from one that was marked as not utilized (a staff booking,          *)
(* api_views.py), for staff and users together.                             *)
THEOREM TakenOverFromNotUtilized ==
  "reschedule" \notin Kinds => (Spec => TakenOverOnlyWhenNotUtilized)
<1> SUFFICES ASSUME "reschedule" \notin Kinds PROVE Spec => TakenOverOnlyWhenNotUtilized
  OBVIOUS
<1>1. PairingInv /\ [Next]_vars => PairingInv' /\ [TakesOver]_vars
  BY PairingInductive, TakesOverStep
<1>2. Init => PairingInv
  BY PairingInductive
<1> QED
  BY <1>1, <1>2, PTL DEF Spec, TakenOverOnlyWhenNotUtilized, TakesOver

-----------------------------------------------------------------------------
(* Requests served one after another: every operation, staff bookings and   *)
(* reschedules included.                                                    *)

OneAtATime == \A v, w \in Workers : v = w

(* The gateway does not capture a second order of a booking, nor report a   *)
(* failure after the capture.                                               *)
OneCapture == "payAgain" \notin Kinds

(* The money of one row: what was paid and given back so far, and its order. *)
Accounted(row, in, out, ord) ==
  OneCapture =>
    /\ row.status \in {"NONE", "HOLD"} => in = 0 /\ out = 0 /\ ord = "none" /\ row.due = 0
    /\ row.status = "PENDING_PAYMENT" => in = row.applied /\ out = 0 /\ ord \in {"none", "CREATED"}
    /\ row.status \in Confirmed => in - out = Charge /\ ord \in {"none", "PAID"} /\ row.due = 0

(* A row to be created, before the debit. *)
Priced(row) ==
  \/ row.status = "HOLD" /\ row.applied = 0 /\ row.due = 0
  \/ row.status = "BOOKED" /\ row.applied = Charge /\ row.due = 0
  \/ row.status = "PENDING_PAYMENT"

(* The statuses in which an operation loads its booking. *)
LoadedIn(kind) ==
  IF kind \in {"confirm", "release"} THEN {"HOLD"}
  ELSE IF kind \in {"cancel", "adminCancel"} THEN Cancellable(kind)
  ELSE IF kind = "refund" THEN Statuses \ {"NONE", "REFUNDED", "BOOKING_NOT_UTILIZED"}
  ELSE IF kind = "absent" THEN {"BOOKED"}
  ELSE IF kind = "restore" THEN {"BOOKING_NOT_UTILIZED"}
  ELSE {"BOOKED", "DISRUPTION_PENDING"}

(* What the only worker remembers is what the tables still say. *)
UpToDate(q) ==
  /\ q.kind \in Creating => Priced(q.row)
  /\ q.kind \notin Creating \cup {"idle"} =>
       q.b \in Bookings /\ q.row = booking[q.b] /\ q.row.status \in LoadedIn(q.kind)
  /\ q.kind = "refund" /\ q.step = "collected" => q.flag = (order[q.b] = "PAID")

MoneyInv ==
  /\ TypeOK
  /\ \A b \in Bookings : Accounted(booking[b], paid[b], refunded[b], order[b])
  /\ \A w \in Workers : UpToDate(request[w])

(* Only the row b is written, and its money stays accounted for; if it is   *)
(* refunded, in full.                                                       *)
Accounts(b) ==
  /\ \A c \in Bookings \ {b} :
       UNCHANGED <<booking[c], paid[c], refunded[c], order[c]>>
  /\ Accounted(booking'[b], paid'[b], refunded'[b], order'[b])
  /\ OneCapture /\ booking[b].status \in Confirmed /\ booking'[b].status \in {"REFUNDED", "ABSENT"}
       => paid'[b] = refunded'[b]

MoneyTypes == /\ booking \in [Bookings -> Row] /\ order \in [Bookings -> OrderStatuses]
              /\ paid \in [Bookings -> Nat] /\ refunded \in [Bookings -> Nat]
              /\ request \in [Workers -> Request] /\ Charge \in Nat

LEMMA MoneyTyped == TypeOK => MoneyTypes
BY ConstantsAssumption DEF TypeOK, MoneyTypes

(* The only worker is idle after a step that finishes. *)
LEMMA Finished ==
  ASSUME OneAtATime, TypeOK, NEW w \in Workers, request'[w] = Idle
  PROVE  \A v \in Workers : UpToDate(request[v])'
BY DEF OneAtATime, UpToDate, Idle, Creating

LEMMA FinishedOne ==
  ASSUME OneAtATime, TypeOK, NEW w \in Workers, Finish(w)
  PROVE  \A v \in Workers : UpToDate(request[v])'
<1>1. request'[w] = Idle
  BY DEF Finish, TypeOK
<1> QED
  BY <1>1, Finished

(* A status written into a row that keeps its money. *)
LEMMA StatusAccounts ==
  ASSUME MoneyInv, NEW b \in Bookings, NEW status,
         booking' = [booking EXCEPT ![b].status = status], UNCHANGED <<paid, refunded, order>>,
         \/ status = "CANCELLED"
         \/ status \in Confirmed /\ booking[b].status \in Confirmed
  PROVE  Accounts(b)
<1>1. MoneyTypes /\ Accounted(booking[b], paid[b], refunded[b], order[b])
  BY MoneyTyped DEF MoneyInv
<1>2. /\ booking'[b].status = status /\ booking'[b].due = booking[b].due
      /\ \A c \in Bookings \ {b} : booking'[c] = booking[c]
  BY <1>1 DEF MoneyTypes, Row
<1> QED
  BY <1>1, <1>2 DEF Accounts, Accounted, Confirmed

LEMMA MoneyEnds ==
  ASSUME OneAtATime, MoneyInv, NEW w \in Workers, Ends(w)
  PROVE  /\ \/ \E b \in Bookings : Accounts(b)
            \/ UNCHANGED <<booking, paid, refunded, order>>
         /\ \A v \in Workers : UpToDate(request[v])'
<1> DEFINE q == request[w]
<1>0. /\ TypeOK /\ MoneyTypes /\ UpToDate(q) /\ q \in Request /\ q.row \in Row
      /\ \A b \in Bookings : Accounted(booking[b], paid[b], refunded[b], order[b])
  BY MoneyTyped, RowTypes DEF MoneyInv
<1>1. ASSUME NEW b \in Bookings, BookCommit(w, b)
      PROVE  Accounts(b) /\ \A v \in Workers : UpToDate(request[v])'
  <2>1. /\ booking[b].status = "NONE" /\ Priced(q.row) /\ order' = order /\ refunded' = refunded
        /\ booking' = [booking EXCEPT ![b] = q.row]
        /\ paid' = [paid EXCEPT ![b] = @ + q.row.applied]
    BY <1>0, <1>1 DEF BookCommit, At, UpToDate, Creating, Debit
  <2>2. /\ OneCapture => paid[b] = 0 /\ refunded[b] = 0 /\ order[b] = "none"
        /\ q.row.applied \in Nat /\ paid[b] \in Nat
    BY <1>0, <2>1 DEF Accounted, Row, MoneyTypes
  <2>3. /\ booking'[b] = q.row /\ paid'[b] = paid[b] + q.row.applied
        /\ \A c \in Bookings \ {b} : booking'[c] = booking[c] /\ paid'[c] = paid[c]
    BY <1>0, <2>1, <2>2 DEF MoneyTypes
  <2>4. Accounted(q.row, q.row.applied, 0, "none")
    BY <1>0, <2>1, <2>2 DEF Priced, Accounted, Confirmed, MoneyTypes
  <2>5. Accounts(b)
    BY <2>1, <2>2, <2>3, <2>4 DEF Accounts, Accounted, Confirmed
  <2> QED
    BY <1>0, <1>1, <2>5, FinishedOne DEF BookCommit
<1>2. CASE ConfirmCommit(w)
  <2>1. PICK b \in Bookings : b = q.b /\ booking[b].status = "HOLD"
    BY <1>0, <1>2 DEF ConfirmCommit, At, UpToDate, Creating, LoadedIn
  <2>2. /\ booking' = [booking EXCEPT ![b].status = "BOOKED"] /\ order' = order /\ refunded' = refunded
        /\ paid' = [paid EXCEPT ![b] = @ + Charge]
    BY <1>2, <2>1 DEF ConfirmCommit, Debit
  <2>3. Accounts(b)
    BY <1>0, <2>1, <2>2 DEF Accounts, Accounted, Confirmed, MoneyTypes, Row
  <2> QED
    BY <1>0, <1>2, <2>3, FinishedOne DEF ConfirmCommit
<1>3. CASE ReleaseCommit(w)
  <2>1. PICK b \in Bookings : b = q.b
    BY <1>0, <1>3 DEF ReleaseCommit, At, UpToDate, Creating
  <2>2. Accounts(b)
    BY <1>3, <2>1, StatusAccounts DEF ReleaseCommit
  <2> QED
    BY <1>0, <1>3, <2>2, FinishedOne DEF ReleaseCommit
<1>4. CASE CancelCollect(w)
  <2>1. UNCHANGED <<booking, paid, refunded, order>>
    BY <1>4 DEF CancelCollect
  <2>2. /\ request'[w].kind = q.kind /\ request'[w].b = q.b /\ request'[w].row = q.row
        /\ q.kind \in {"cancel", "adminCancel"}
    BY <1>0, <1>4 DEF CancelCollect, Continue, At, MoneyTypes
  <2>3. UpToDate(request[w])'
    BY <1>0, <2>1, <2>2 DEF UpToDate, Creating
  <2> QED
    BY <2>1, <2>3 DEF OneAtATime
<1>5. CASE CancelCommit(w)
  <2>1. PICK b \in Bookings : b = q.b /\ q.row = booking[b]
    BY <1>0, <1>5 DEF CancelCommit, At, UpToDate, Creating
  <2> DEFINE status == CancelledStatus(q.row, q.flag)
             amount == IF q.flag THEN Charge ELSE 0
  <2>2. /\ booking' = [booking EXCEPT ![b] = [q.row EXCEPT !.status = status]]
        /\ refunded' = [refunded EXCEPT ![b] = @ + amount]
        /\ order' = order /\ paid' = paid
    BY <1>5, <2>1 DEF CancelCommit
  <2>3. /\ booking'[b].status = status
        /\ \A c \in Bookings \ {b} : booking'[c] = booking[c] /\ refunded'[c] = refunded[c]
        /\ refunded'[b] = refunded[b] + amount
    BY <1>0, <2>1, <2>2 DEF MoneyTypes, Row
  <2>4. status \in Closed /\ (status # "CANCELLED" => amount = Charge)
    BY DEF CancelledStatus, Closed
  <2> HIDE DEF status, amount
  <2>5. Accounted(booking'[b], paid'[b], refunded'[b], order'[b])
    BY <2>3, <2>4 DEF Accounted, Confirmed, Closed
  <2>6. OneCapture /\ booking[b].status \in Confirmed => paid[b] - refunded[b] = Charge
    BY <1>0 DEF Accounted
  <2>7. Accounts(b)
    BY <1>0, <2>2, <2>3, <2>4, <2>5, <2>6 DEF Accounts, MoneyTypes
  <2> QED
    BY <1>0, <1>5, <2>7, FinishedOne DEF CancelCommit
<1>6. CASE RefundLookup(w)
  <2>1. UNCHANGED <<booking, paid, refunded, order>>
    BY <1>6 DEF RefundLookup
  <2>2. /\ request'[w].kind = q.kind /\ request'[w].b = q.b /\ request'[w].row = q.row
        /\ q.kind = "refund" /\ request'[w].flag = (order[q.b] = "PAID")
    BY <1>0, <1>6 DEF RefundLookup, Continue, At, MoneyTypes
  <2>3. UpToDate(request[w])'
    BY <1>0, <2>1, <2>2 DEF UpToDate, Creating
  <2> QED
    BY <2>1, <2>3 DEF OneAtATime
<1>7. CASE RefundCommit(w)
  <2>1. PICK b \in Bookings : b = q.b /\ q.row = booking[b] /\ q.flag = (order[b] = "PAID")
    BY <1>0, <1>7 DEF RefundCommit, At, UpToDate, Creating
  <2> DEFINE credit == IF q.flag THEN q.row.applied ELSE Charge
             returned == IF q.flag THEN Charge - q.row.applied ELSE 0
  <2>2. GatewayRefund(w) = returned
    BY <2>1 DEF GatewayRefund
  <2>3. credit + returned = Charge
    BY <1>0 DEF Row, MoneyTypes
  <2>4. /\ booking' = [booking EXCEPT ![b].status = "REFUNDED"]
        /\ refunded' = [refunded EXCEPT ![b] = @ + (credit + returned)]
        /\ order' = [order EXCEPT ![b] = IF q.flag THEN "REFUNDED" ELSE @]
        /\ paid' = paid
    BY <1>7, <2>1, <2>2 DEF RefundCommit
  <2> HIDE DEF credit, returned
  <2>5. /\ booking'[b].status = "REFUNDED" /\ refunded'[b] = refunded[b] + Charge
        /\ \A c \in Bookings \ {b} : UNCHANGED <<booking[c], paid[c], refunded[c], order[c]>>
    BY <1>0, <2>3, <2>4 DEF MoneyTypes, Row
  <2>6. OneCapture /\ booking[b].status \in Confirmed => paid[b] - refunded[b] = Charge
    BY <1>0 DEF Accounted
  <2>7. Accounted(booking'[b], paid'[b], refunded'[b], order'[b])
    BY <2>5 DEF Accounted, Confirmed
  <2>8. Accounts(b)
    BY <1>0, <2>4, <2>5, <2>6, <2>7 DEF Accounts, MoneyTypes
  <2> QED
    BY <1>0, <1>7, <2>8, FinishedOne DEF RefundCommit
<1>8. CASE AbsentCommit(w)
  <2>1. PICK b \in Bookings : b = q.b /\ booking[b].status = "BOOKED"
    BY <1>0, <1>8 DEF AbsentCommit, At, UpToDate, Creating, LoadedIn
  <2>2. Accounts(b)
    BY <1>8, <2>1, StatusAccounts DEF AbsentCommit, Confirmed
  <2> QED
    BY <1>0, <1>8, <2>2, FinishedOne DEF AbsentCommit
<1>9. CASE RescheduleCollect(w)
  <2>1. UNCHANGED <<booking, paid, refunded, order>>
    BY <1>9 DEF RescheduleCollect
  <2>2. /\ request'[w].kind = q.kind /\ request'[w].b = q.b /\ request'[w].row = q.row
        /\ q.kind = "reschedule"
    BY <1>0, <1>9 DEF RescheduleCollect, Continue, At, MoneyTypes
  <2>3. UpToDate(request[w])'
    BY <1>0, <2>1, <2>2 DEF UpToDate, Creating
  <2> QED
    BY <2>1, <2>3 DEF OneAtATime
<1>10. CASE RescheduleCommit(w)
  <2>1. PICK b \in Bookings :
          b = q.b /\ q.row = booking[b] /\ booking[b].status \in {"BOOKED", "DISRUPTION_PENDING"}
    BY <1>0, <1>10 DEF RescheduleCommit, At, UpToDate, Creating, LoadedIn
  <2>2. /\ booking' = [booking EXCEPT ![b].status = "BOOKED"]
        /\ UNCHANGED <<paid, refunded, order>>
    BY <1>0, <1>10, <2>1 DEF RescheduleCommit
  <2>3. Accounts(b)
    BY <2>1, <2>2, StatusAccounts DEF Confirmed
  <2> QED
    BY <1>0, <1>10, <2>3, FinishedOne DEF RescheduleCommit
<1>11. CASE Abandon(w)
  BY <1>0, <1>11, FinishedOne DEF Abandon
<1>12. CASE RestoreCommit(w)
  <2>1. PICK b \in Bookings : b = q.b /\ booking[b].status = "BOOKING_NOT_UTILIZED"
    BY <1>0, <1>12 DEF RestoreCommit, At, UpToDate, Creating
  <2>2. Accounts(b)
    BY <1>12, <2>1, StatusAccounts DEF RestoreCommit, Confirmed
  <2> QED
    BY <1>0, <1>12, <2>2, FinishedOne DEF RestoreCommit
<1> QED
  BY <1>1, <1>2, <1>3, <1>4, <1>5, <1>6, <1>7, <1>8, <1>9, <1>10, <1>11, <1>12 DEF Ends

LEMMA MoneyStarts ==
  ASSUME OneAtATime, MoneyInv, NEW w \in Workers, Starts(w)
  PROVE  /\ UNCHANGED <<booking, paid, refunded, order>>
         /\ \A v \in Workers : UpToDate(request[v])'
<1>0. /\ TypeOK /\ MoneyTypes /\ UNCHANGED <<booking, paid, refunded, order>>
  BY MoneyTyped, StartsKeep DEF MoneyInv
<1>1. ASSUME NEW kind, NEW b, NEW row, NEW ids, NEW flag, Begin(w, kind, b, row, ids, flag),
             kind # "idle", kind \in Creating => Priced(row),
             kind \notin Creating => b \in Bookings /\ row = booking[b] /\ row.status \in LoadedIn(kind)
      PROVE  \A v \in Workers : UpToDate(request[v])'
  <2>1. /\ request'[w].kind = kind /\ request'[w].step = "loaded" /\ request'[w].b = b
        /\ request'[w].row = row
    BY <1>0, <1>1 DEF Begin, MoneyTypes
  <2>2. UpToDate(request[w])'
    BY <1>0, <1>1, <2>1 DEF UpToDate
  <2> QED
    BY <2>2 DEF OneAtATime
<1>2. ASSUME NEW kind \in Creating, BookLoad(w, kind)
      PROVE  \A v \in Workers : UpToDate(request[v])'
  <2>1. PICK u \in Users, S \in (SUBSET Bookable(kind)) \ {{}} :
          Begin(w, kind, Free, NewRow(u, kind), S, FALSE)
    BY <1>2 DEF BookLoad
  <2>2. wallet[u] \in Nat /\ Charge \in Nat
    BY <1>0 DEF TypeOK, MoneyTypes
  <2>3. Priced(NewRow(u, kind))
    BY <2>2 DEF NewRow, Priced
  <2> QED
    BY <1>1, <2>1, <2>3 DEF Creating
<1>3. ASSUME NEW b \in Bookings, NEW kind \in {"confirm", "release"}, HoldLoad(w, kind, b)
      PROVE  \A v \in Workers : UpToDate(request[v])'
  BY <1>1, <1>3 DEF HoldLoad, Creating, LoadedIn
<1>4. ASSUME NEW b \in Bookings, NEW kind \in {"cancel", "adminCancel"}, CancelLoad(w, kind, b)
      PROVE  \A v \in Workers : UpToDate(request[v])'
  <2>1. PICK refund \in BOOLEAN : Begin(w, kind, b, booking[b], {}, refund)
    BY <1>4 DEF CancelLoad
  <2>2. booking[b].status \in LoadedIn(kind) /\ kind \notin Creating \cup {"idle"}
    BY <1>4 DEF CancelLoad, LoadedIn, Creating
  <2> QED
    BY <1>1, <2>1, <2>2
<1>5. ASSUME NEW b \in Bookings, RefundLoad(w, b) \/ AbsentLoad(w, b) \/ RestoreLoad(w, b)
      PROVE  \A v \in Workers : UpToDate(request[v])'
  <2>1. PICK kind \in {"refund", "absent", "restore"} :
          Begin(w, kind, b, booking[b], {}, FALSE) /\ booking[b].status \in LoadedIn(kind)
    BY <1>0, <1>5 DEF RefundLoad, AbsentLoad, RestoreLoad, LoadedIn, MoneyTypes, Row
  <2> QED
    BY <1>1, <2>1 DEF Creating
<1>6. ASSUME NEW b \in Bookings, RescheduleLoad(w, b)
      PROVE  \A v \in Workers : UpToDate(request[v])'
  <2>1. PICK window \in SUBSET Slots : Begin(w, "reschedule", b, booking[b], window, FALSE)
    BY <1>6 DEF RescheduleLoad
  <2>2. booking[b].status \in LoadedIn("reschedule") /\ "reschedule" \notin Creating \cup {"idle"}
    BY <1>6 DEF RescheduleLoad, LoadedIn, Creating
  <2> QED
    BY <1>1, <2>1, <2>2
<1> QED
  BY <1>0, <1>2, <1>3, <1>4, <1>5, <1>6 DEF Starts, Creating

LEMMA MoneyLocked ==
  ASSUME OneAtATime, MoneyInv, NEW w \in Workers, NEW b \in Bookings, LockedHandlers(w, b)
  PROVE  Accounts(b) /\ \A v \in Workers : UpToDate(request[v])'
<1>0. TypeOK /\ MoneyTypes /\ Accounted(booking[b], paid[b], refunded[b], order[b])
  BY MoneyTyped DEF MoneyInv
<1>1. \A v \in Workers : UpToDate(request[v])'
  <2>1. request'[w] = Idle
    BY DEF LockedHandlers, AutoCancel, Complete, NotUtilized, OpenOrder, Settle, CaptureAgain, LateReport,
           Idling
  <2> QED
    BY <1>0, <2>1, Finished
<1>2. CASE AutoCancel(w, b)
  <2>1. /\ booking[b].status = "DISRUPTION_PENDING"
        /\ booking' = [booking EXCEPT ![b].status = "REFUNDED"]
        /\ refunded' = [refunded EXCEPT ![b] = @ + Charge] /\ order' = order /\ paid' = paid
    BY <1>2 DEF AutoCancel
  <2> QED
    BY <1>0, <1>1, <2>1 DEF Accounts, Accounted, Confirmed, MoneyTypes, Row
<1>3. CASE Complete(w, b) \/ NotUtilized(w, b)
  <2>1. PICK status \in Confirmed :
          /\ booking' = [booking EXCEPT ![b].status = status] /\ UNCHANGED <<paid, refunded, order>>
          /\ booking[b].status \in Confirmed
    BY <1>3 DEF Complete, NotUtilized, Confirmed
  <2> QED
    BY <1>1, <2>1, StatusAccounts
<1>4. CASE OpenOrder(w, b)
  <2>1. OneCapture => booking[b].status = "PENDING_PAYMENT"
    BY <1>0, <1>4 DEF OpenOrder, Accounted, Confirmed, MoneyTypes, Row
  <2> QED
    BY <1>0, <1>1, <1>4, <2>1 DEF OpenOrder, Accounts, Accounted, Confirmed, MoneyTypes
<1>5. CASE Settle(w, b)
  <2>1. OneCapture => booking[b].status = "PENDING_PAYMENT" \/ booking[b].status \in Closed
    BY <1>0, <1>5 DEF Settle, Accounted, Confirmed, Closed, MoneyTypes, Row, Statuses
  <2>2. /\ booking'[b].status = IF booking[b].status = "PENDING_PAYMENT" THEN "BOOKED"
                                ELSE booking[b].status
        /\ booking'[b].due = 0
        /\ paid'[b] = paid[b] + (Charge - booking[b].applied) /\ refunded' = refunded
        /\ order'[b] = "PAID" /\ booking[b].applied \in Nat
        /\ \A c \in Bookings \ {b} : UNCHANGED <<booking[c], paid[c], refunded[c], order[c]>>
    BY <1>0, <1>5 DEF Settle, MoneyTypes, Row
  <2>3. CASE booking[b].status = "PENDING_PAYMENT"
    <3>1. OneCapture => paid[b] = booking[b].applied /\ refunded[b] = 0
      BY <1>0, <2>3 DEF Accounted
    <3>2. paid[b] \in Nat /\ Charge \in Nat /\ refunded \in [Bookings -> Nat]
      BY <1>0 DEF MoneyTypes
    <3>3. OneCapture => paid'[b] - refunded'[b] = Charge
      BY <2>2, <3>1, <3>2
    <3> QED
      BY <1>1, <2>2, <2>3, <3>3 DEF Accounts, Accounted, Confirmed
  <2>4. CASE booking[b].status \in Closed
    BY <1>0, <1>1, <2>2, <2>4 DEF Accounts, Accounted, Confirmed, Closed
  <2>5. CASE ~OneCapture
    <3>1. \A c \in Bookings \ {b} : UNCHANGED <<booking[c], paid[c], refunded[c], order[c]>>
      BY <2>2
    <3> QED
      BY <1>1, <2>5, <3>1 DEF Accounts, Accounted
  <2> QED
    BY <2>1, <2>3, <2>4, <2>5
<1>6. CASE CaptureAgain(w, b) \/ LateReport(w, b)
  <2>1. ~OneCapture
    BY <1>6 DEF CaptureAgain, LateReport, Idling, OneCapture
  <2> QED
    BY <1>0, <1>1, <1>6, <2>1 DEF CaptureAgain, LateReport, Accounts, Accounted, MoneyTypes
<1> QED
  BY <1>2, <1>3, <1>4, <1>5, <1>6 DEF LockedHandlers

(* A step writes the money of one row, or of none. *)
LEMMA MoneyStep ==
  ASSUME OneAtATime, MoneyInv, [Next]_vars
  PROVE  /\ \/ \E b \in Bookings : Accounts(b)
            \/ UNCHANGED <<booking, paid, refunded, order>>
         /\ \A v \in Workers : UpToDate(request[v])'
<1>1. CASE UNCHANGED vars
  BY <1>1 DEF vars, MoneyInv, UpToDate
<1> QED
  BY <1>1, MoneyStarts, MoneyEnds, MoneyLocked DEF Next

LEMMA MoneyInductive ==
  /\ Init => MoneyInv
  /\ OneAtATime /\ MoneyInv /\ [Next]_vars => MoneyInv'
<1>1. Init => MoneyInv
  <2> SUFFICES ASSUME Init PROVE MoneyInv
    OBVIOUS
  <2>1. \A b \in Bookings : Accounted(booking[b], paid[b], refunded[b], order[b])
    BY DEF Init, Accounted, NoRow, Confirmed
  <2>2. \A w \in Workers : UpToDate(request[w])
    BY DEF Init, UpToDate, Idle, Creating
  <2> QED
    BY <2>1, <2>2, TypeInit DEF MoneyInv
<1>2. OneAtATime /\ MoneyInv /\ [Next]_vars => MoneyInv'
  <2> SUFFICES ASSUME OneAtATime, MoneyInv, [Next]_vars PROVE MoneyInv'
    OBVIOUS
  <2>1. TypeOK'
    BY TypeStarts, TypeEnds, TypeLocked DEF MoneyInv, Next, vars, TypeOK
  <2>2. \A b \in Bookings : Accounted(booking[b], paid[b], refunded[b], order[b])'
    BY MoneyStep DEF MoneyInv, Accounts
  <2> QED
    BY <2>1, <2>2, MoneyStep DEF MoneyInv
<1> QED
  BY <1>1, <1>2

(* Requests served one after another leave every confirmed booking paid for *)
(* once and in full, from the wallet, the gateway or both                   *)
(* (compute_booking_payment_split, the urgent hold, the settlement): what   *)
(* the runs with overlapping requests find wrong with the money is an       *)
(* overlap.  A second capture of the same shortfall is left out: the code   *)
(* keeps its money beside the first.                                        *)
THEOREM PaidInFull == OneAtATime /\ OneCapture => (Spec => []ConfirmedIsPaid)
<1> SUFFICES ASSUME OneAtATime, OneCapture PROVE Spec => []ConfirmedIsPaid
  OBVIOUS
<1>1. Init => MoneyInv
  BY MoneyInductive
<1>2. MoneyInv /\ [Next]_vars => MoneyInv'
  BY MoneyInductive
<1>3. MoneyInv => ConfirmedIsPaid
  BY DEF MoneyInv, Accounted, ConfirmedIsPaid
<1> QED
  BY <1>1, <1>2, <1>3, PTL DEF Spec

(* ... and every refund of a confirmed booking, by its user, by staff, by   *)
(* the gateway or by the job, gives back exactly what was paid for it.      *)
THEOREM RefundedInFull == OneAtATime /\ OneCapture => (Spec => MoneyBackInFull)
<1> SUFFICES ASSUME OneAtATime, OneCapture PROVE Spec => MoneyBackInFull
  OBVIOUS
<1> DEFINE Back == \A b \in Bookings :
             booking[b].status \in Confirmed /\ booking'[b].status \in {"REFUNDED", "ABSENT"}
               => paid'[b] = refunded'[b]
<1>1. Init => MoneyInv
  BY MoneyInductive
<1>2. MoneyInv /\ [Next]_vars => MoneyInv' /\ [Back]_vars
  <2> SUFFICES ASSUME MoneyInv, [Next]_vars PROVE MoneyInv' /\ Back
    OBVIOUS
  <2>1. CASE UNCHANGED <<booking, paid, refunded, order>>
    BY <2>1, MoneyInductive DEF Confirmed
  <2>2. ASSUME NEW b \in Bookings, Accounts(b)
        PROVE  Back
    BY <2>2 DEF Accounts, Confirmed
  <2> QED
    BY <2>1, <2>2, MoneyStep, MoneyInductive
<1> QED
  BY <1>1, <1>2, PTL DEF Spec, MoneyBackInFull

-----------------------------------------------------------------------------
(* The slots of requests served one after another, reschedules included;    *)
(* only staff who book over other bookings are left out.                    *)

Serial == OneAtATime /\ "adminBook" \notin Kinds

Active(b) == booking[b].status \notin Closed \cup {"NONE"}

(* The slots the only worker has read are what the calendar still says. *)
SlotsUpToDate(q) ==
  /\ q.kind \in {"cancel", "adminCancel"} /\ q.step = "collected" => q.ids = Owned(q.b)
  /\ q.kind = "reschedule" /\ q.step = "loaded" => q.ids \cap Available # {}
  /\ q.kind = "reschedule" /\ q.step = "collected" =>
       q.ids # {} /\ q.ids \subseteq Owned(Free) \cup Owned(q.b)

SerialInv ==
  /\ MoneyInv
  /\ CalendarInv
  /\ ActiveHoldsSlots
  /\ \A w \in Workers : SlotsUpToDate(request[w])

(* The fourth thing a step can do to the calendar, beside those of          *)
(* SoundStep: b exchanges its slots for free ones.                          *)
Moves(b) ==
  /\ \E S \in (SUBSET (Owned(Free) \cup Owned(b))) \ {{}} :
       slotBooking' = [s \in Slots |-> IF s \in S THEN b
                                       ELSE IF slotBooking[s] = b THEN Free ELSE slotBooking[s]]
  /\ Active(b) /\ Active(b)'
  /\ \A c \in Bookings \ {b} : booking'[c] = booking[c]

LEMMA MovesOwned ==
  ASSUME NEW b \in Bookings, Moves(b)
  PROVE  Owned(b)' # {} /\ \A c \in Bookings \ {b} : Owned(c)' = Owned(c)
BY ConstantsAssumption DEF Moves, Owned

(* Served alone, no operation opens a closed booking again. *)
LEMMA ClosedStays ==
  ASSUME OneAtATime, MoneyInv, [Next]_vars, NEW c \in Bookings, booking[c].status \in Closed
  PROVE  booking'[c].status \in Closed
<1>0. /\ MoneyTypes /\ \A w \in Workers : UpToDate(request[w]) /\ request[w].row \in Row
  BY MoneyTyped, RowTypes DEF MoneyInv
<1>1. ASSUME NEW w \in Workers, Starts(w)
      PROVE  booking'[c].status \in Closed
  BY <1>1, StartsKeep
<1>2. ASSUME NEW b, b = c => FALSE, NEW row, booking' = [booking EXCEPT ![b] = row]
      PROVE  booking'[c].status \in Closed
  BY <1>0, <1>2 DEF MoneyTypes
<1>3. ASSUME NEW b, NEW row, row.status \in Closed, booking' = [booking EXCEPT ![b] = row]
      PROVE  booking'[c].status \in Closed
  BY <1>0, <1>3 DEF MoneyTypes
<1>4. ASSUME NEW w \in Workers, Ends(w)
      PROVE  booking'[c].status \in Closed
  <2>1. ASSUME NEW b \in Bookings, BookCommit(w, b)
        PROVE  booking'[c].status \in Closed
    BY <1>2, <2>1 DEF BookCommit, Closed
  <2>2. CASE ConfirmCommit(w) \/ AbsentCommit(w) \/ RescheduleCommit(w) \/ RestoreCommit(w)
    <3>1. request[w].b = c => FALSE
      BY <1>0, <2>2 DEF ConfirmCommit, AbsentCommit, RescheduleCommit, RestoreCommit, At, UpToDate,
                        Creating, LoadedIn, Closed
    <3>2. PICK row : booking' = [booking EXCEPT ![request[w].b] = row]
      BY <2>2 DEF ConfirmCommit, AbsentCommit, RescheduleCommit, RestoreCommit
    <3> QED
      BY <1>2, <3>1, <3>2
  <2>3. CASE ReleaseCommit(w) \/ RefundCommit(w)
    BY <1>0, <2>3 DEF ReleaseCommit, RefundCommit, MoneyTypes, Row, Closed
  <2>4. CASE CancelCommit(w)
    <3> DEFINE new == [request[w].row EXCEPT !.status = CancelledStatus(request[w].row, request[w].flag)]
    <3>1. new.status \in Closed
      BY <1>0 DEF CancelledStatus, Row, Closed
    <3>2. booking' = [booking EXCEPT ![request[w].b] = new]
      BY <2>4 DEF CancelCommit
    <3> HIDE DEF new
    <3> QED
      BY <1>3, <3>1, <3>2
  <2>5. CASE CancelCollect(w) \/ RefundLookup(w) \/ RescheduleCollect(w) \/ Abandon(w)
    BY <2>5 DEF CancelCollect, RefundLookup, RescheduleCollect, Abandon
  <2> QED
    BY <1>4, <2>1, <2>2, <2>3, <2>4, <2>5 DEF Ends
<1>5. ASSUME NEW w \in Workers, NEW b \in Bookings, LockedHandlers(w, b)
      PROVE  booking'[c].status \in Closed
  <2>1. CASE Settle(w, b)
    BY <1>0, <2>1 DEF Settle, MoneyTypes, Closed
  <2>2. CASE OpenOrder(w, b) \/ CaptureAgain(w, b) \/ LateReport(w, b)
    BY <2>2 DEF OpenOrder, CaptureAgain, LateReport
  <2>3. CASE AutoCancel(w, b) \/ Complete(w, b) \/ NotUtilized(w, b)
    BY <1>0, <2>3 DEF AutoCancel, Complete, NotUtilized, MoneyTypes, Closed, Row
  <2> QED
    BY <1>5, <2>1, <2>2, <2>3 DEF LockedHandlers
<1> QED
  BY <1>1, <1>4, <1>5 DEF Next, vars

(* A reschedule moves its booking to slots that are free or its own. *)
LEMMA RescheduleMoves ==
  ASSUME SerialInv, NEW w \in Workers, RescheduleCommit(w)
  PROVE  \E b \in Bookings : Moves(b)
<1>0. /\ MoneyTypes /\ UpToDate(request[w]) /\ SlotsUpToDate(request[w])
      /\ slotBooking \in [Slots -> Bookings \cup {Free}]
  BY MoneyTyped DEF SerialInv, MoneyInv, TypeOK
<1>1. PICK b \in Bookings : /\ b = request[w].b /\ request[w].row = booking[b]
                            /\ booking[b].status \in {"BOOKED", "DISRUPTION_PENDING"}
  BY <1>0 DEF RescheduleCommit, At, UpToDate, Creating, LoadedIn
<1>2. PICK S \in (SUBSET (Owned(Free) \cup Owned(b))) \ {{}} : S = request[w].ids
  BY <1>0, <1>1 DEF RescheduleCommit, At, SlotsUpToDate
<1>3. slotBooking' = [s \in Slots |-> IF s \in S THEN b
                                      ELSE IF slotBooking[s] = b THEN Free ELSE slotBooking[s]]
  BY <1>1, <1>2 DEF RescheduleCommit, Owned
<1>4. booking'[b].status = "BOOKED" /\ \A c \in Bookings \ {b} : booking'[c] = booking[c]
  BY <1>0, <1>1 DEF RescheduleCommit, MoneyTypes, Row
<1> QED
  BY <1>1, <1>3, <1>4 DEF Moves, Active, Closed

LEMMA SerialStep ==
  ASSUME Serial, SerialInv, [Next]_vars
  PROVE  SoundStep \/ \E b \in Bookings : Moves(b)
<1>1. CalendarInv
  BY DEF SerialInv
<1>2. ASSUME NEW w \in Workers, Ends(w)
      PROVE  SoundStep \/ \E b \in Bookings : Moves(b)
  BY <1>1, <1>2, SoundEnds, RescheduleMoves DEF Serial
<1>3. CASE UNCHANGED vars
  BY <1>3 DEF vars, SoundStep, Quiet, Created
<1> QED
  BY <1>1, <1>2, <1>3, SoundStarts, SoundLocked DEF Next

LEMMA ActiveStep ==
  ASSUME Serial, SerialInv, [Next]_vars, SoundStep \/ \E b \in Bookings : Moves(b)
  PROVE  ActiveHoldsSlots'
<1> SUFFICES ASSUME NEW b \in Bookings, Active(b)'
             PROVE  Owned(b)' # {}
  BY DEF ActiveHoldsSlots, Active
<1>0. Active(b) => Owned(b) # {}
  BY DEF SerialInv, ActiveHoldsSlots, Active
<1>1. booking'[b].status \notin Closed /\ booking[b].status \notin Closed
  BY ClosedStays DEF Serial, SerialInv, Active
<1>2. Created(b) => Active(b)
  BY <1>1 DEF Created, Active
<1>3. Created(b)'
  BY DEF Created, Active
<1>4. CASE Quiet /\ \A c \in Bookings : Created(c)' = Created(c)
  BY <1>0, <1>2, <1>3, <1>4, QuietOwned
<1>5. ASSUME NEW c \in Bookings, Releases(c), booking'[c].status \in Closed, Created(b)' = Created(b)
      PROVE  Owned(b)' # {}
  BY <1>0, <1>1, <1>2, <1>3, <1>5, ReleasesOwned
<1>6. ASSUME NEW c \in Bookings, Claims(c) \/ Moves(c), c # b => booking'[b] = booking[b]
      PROVE  Owned(b)' # {}
  <2>1. c # b => Active(b)
    BY <1>1, <1>3, <1>6 DEF Created, Active
  <2> QED
    BY <1>0, <1>6, <2>1, ClaimsOwned, MovesOwned
<1> QED
  BY <1>4, <1>5, <1>6 DEF SoundStep, Moves

LEMMA ClosedMoves ==
  ASSUME CalendarInv, NEW b \in Bookings, Moves(b)
  PROVE  ClosedHoldsNothing'
<1> SUFFICES ASSUME NEW c \in Bookings, booking'[c].status \in Closed
             PROVE  Owned(c)' = {}
  BY DEF ClosedHoldsNothing
<1>1. c # b /\ booking'[c] = booking[c]
  BY DEF Moves, Active
<1> QED
  BY <1>1, MovesOwned DEF CalendarInv, ClosedHoldsNothing

(* What the worker has read after a step. *)
LEMMA SlotsRead ==
  ASSUME Serial, SerialInv, [Next]_vars, NEW v \in Workers
  PROVE  SlotsUpToDate(request[v])'
<1>0. /\ TypeOK /\ SlotPairing /\ MoneyTypes /\ SlotsUpToDate(request[v])
      /\ \A w \in Workers : w = v
  BY MoneyTyped DEF SerialInv, MoneyInv, CalendarInv, PairingInv, Serial, OneAtATime
<1>1. ASSUME request'[v] = Idle
      PROVE  SlotsUpToDate(request[v])'
  BY <1>1 DEF SlotsUpToDate, Idle
<1>2. ASSUME request'[v].kind \notin {"cancel", "adminCancel", "reschedule"}
      PROVE  SlotsUpToDate(request[v])'
  BY <1>2 DEF SlotsUpToDate
<1>3. CASE Starts(v)
  <2>1. ASSUME NEW kind, NEW b, NEW row, NEW ids, NEW flag, Begin(v, kind, b, row, ids, flag),
               kind # "reschedule"
        PROVE  SlotsUpToDate(request[v])'
    BY <1>0, <2>1 DEF Begin, MoneyTypes, SlotsUpToDate
  <2>2. ASSUME NEW b \in Bookings, RescheduleLoad(v, b)
        PROVE  SlotsUpToDate(request[v])'
    <3>1. PICK window \in SUBSET Slots :
            /\ window \cap Available # {}
            /\ Begin(v, "reschedule", b, booking[b], window, FALSE)
      BY <2>2 DEF RescheduleLoad
    <3>2. Available' = Available
      BY <2>2 DEF RescheduleLoad, Available
    <3> QED
      BY <1>0, <3>1, <3>2 DEF Begin, MoneyTypes, SlotsUpToDate
  <2>3. ASSUME NEW kind \in Creating, BookLoad(v, kind)
        PROVE  SlotsUpToDate(request[v])'
    BY <2>1, <2>3 DEF BookLoad, Creating
  <2>4. ASSUME NEW b \in Bookings,
               \/ \E kind \in {"confirm", "release"} : HoldLoad(v, kind, b)
               \/ \E kind \in {"cancel", "adminCancel"} : CancelLoad(v, kind, b)
               \/ RefundLoad(v, b) \/ AbsentLoad(v, b) \/ RestoreLoad(v, b)
        PROVE  SlotsUpToDate(request[v])'
    BY <2>1, <2>4 DEF HoldLoad, CancelLoad, RefundLoad, AbsentLoad, RestoreLoad
  <2> QED
    BY <1>3, <2>2, <2>3, <2>4 DEF Starts, Creating
<1>4. CASE CancelCollect(v)
  <2>1. /\ request'[v].kind = request[v].kind /\ request'[v].kind # "reschedule"
        /\ request'[v].b = request[v].b /\ request'[v].ids = Owned(request[v].b)
    BY <1>0, <1>4 DEF CancelCollect, Continue, At, MoneyTypes
  <2>2. Owned(request[v].b)' = Owned(request'[v].b)
    BY <1>4, <2>1 DEF CancelCollect, Owned
  <2>3. request'[v].ids = Owned(request[v].b)'
    BY <2>1, <2>2
  <2> QED
    BY <2>1, <2>3 DEF SlotsUpToDate
<1>5. CASE RescheduleCollect(v)
  <2> DEFINE q == request[v]
             own == Owned(q.b)
             freed == IF FreedStatus(q.row) = "AVAILABLE" THEN own ELSE {}
             new == q.ids \cap (Available \cup freed)
  <2>1. q.kind = "reschedule" /\ q.step = "loaded" /\ Continue(v, new, FALSE)
    BY <1>5 DEF RescheduleCollect, At
  <2>2. new # {} /\ new \subseteq Owned(Free) \cup own
    BY <1>0, <2>1 DEF SlotsUpToDate, SlotPairing, Available, Owned, TypeOK
  <2>3. request'[v].kind = "reschedule" /\ request'[v].ids = new /\ request'[v].b = q.b
        /\ request'[v].step = "collected"
    <3> HIDE DEF new
    <3> QED
      BY <1>0, <2>1 DEF Continue, MoneyTypes
  <2>4. Owned(Free)' = Owned(Free) /\ Owned(request[v].b)' = own
    BY <1>5, <2>3 DEF RescheduleCollect, Owned
  <2> QED
    BY <2>2, <2>3, <2>4 DEF SlotsUpToDate
<1>6. CASE RefundLookup(v)
  BY <1>0, <1>2, <1>6 DEF RefundLookup, Continue, At, MoneyTypes
<1>7. ASSUME Finish(v)
      PROVE  SlotsUpToDate(request[v])'
  BY <1>0, <1>1, <1>7 DEF Finish, MoneyTypes
<1>8. CASE Ends(v)
  BY <1>4, <1>5, <1>6, <1>7, <1>8
     DEF Ends, BookCommit, ConfirmCommit, ReleaseCommit, CancelCommit, RefundCommit, AbsentCommit,
         RescheduleCommit, RestoreCommit, Abandon
<1>9. ASSUME NEW b \in Bookings, LockedHandlers(v, b)
      PROVE  SlotsUpToDate(request[v])'
  BY <1>1, <1>9 DEF LockedHandlers, AutoCancel, Complete, NotUtilized, OpenOrder, Settle, CaptureAgain, LateReport,
           Idling
<1>10. CASE UNCHANGED vars
  BY <1>0, <1>10 DEF vars, SlotsUpToDate, Owned, Available
<1> QED
  BY <1>0, <1>3, <1>8, <1>9, <1>10 DEF Next

LEMMA SerialInductive ==
  /\ Init => SerialInv
  /\ Serial /\ SerialInv /\ [Next]_vars => SerialInv'
<1>1. Init => SerialInv
  <2> SUFFICES ASSUME Init PROVE SerialInv
    OBVIOUS
  <2>1. ActiveHoldsSlots
    BY DEF Init, ActiveHoldsSlots, NoRow
  <2>2. \A w \in Workers : SlotsUpToDate(request[w])
    BY DEF Init, SlotsUpToDate, Idle
  <2> QED
    BY <2>1, <2>2, MoneyInductive, CalendarInductive DEF SerialInv
<1>2. Serial /\ SerialInv /\ [Next]_vars => SerialInv'
  <2> SUFFICES ASSUME Serial, SerialInv, [Next]_vars PROVE SerialInv'
    OBVIOUS
  <2>1. MoneyInv' /\ PairingInv'
    BY MoneyInductive, PairingInductive DEF Serial, SerialInv, CalendarInv
  <2>2. SoundStep \/ \E b \in Bookings : Moves(b)
    BY SerialStep
  <2>3. ClosedHoldsNothing'
    BY <2>2, ClosedStep, ClosedMoves DEF SerialInv
  <2>4. \A w \in Workers : SlotsUpToDate(request[w])'
    BY SlotsRead
  <2>5. \A w \in Workers : Collected(request[w])'
    BY <2>4 DEF SlotsUpToDate, Collected
  <2> QED
    BY <2>1, <2>2, <2>3, <2>4, <2>5, ActiveStep DEF SerialInv, CalendarInv
<1> QED
  BY <1>1, <1>2

(* Requests served one after another leave every booking that is neither    *)
(* closed nor new with slots, rescheduled ones too: that a reschedule can   *)
(* leave one without any, or take the slots of another, is an overlap.      *)
THEOREM ActiveCorrect == Serial => (Spec => []ActiveHoldsSlots)
<1> SUFFICES ASSUME Serial PROVE Spec => []ActiveHoldsSlots
  OBVIOUS
<1>1. Init => SerialInv
  BY SerialInductive
<1>2. SerialInv /\ [Next]_vars => SerialInv'
  BY SerialInductive
<1>3. SerialInv => ActiveHoldsSlots
  BY DEF SerialInv
<1> QED
  BY <1>1, <1>2, <1>3, PTL DEF Spec

LEMMA CalendarMove ==
  ASSUME CalendarInv, ActiveHoldsSlots, NEW b \in Bookings, Moves(b)
  PROVE  Calendar!Move(b)
<1> DEFINE stage == [c \in Bookings |-> Stage(c)]
<1>1. Owned(b) # {} /\ Created(b) /\ Created(b)'
  BY DEF ActiveHoldsSlots, Moves, Active, Created
<1>2. \A c \in Bookings : Stage(c)' = Stage(c)
  BY <1>1, MovesOwned DEF Stage, Created, Moves
<1>3. stage' = stage /\ stage[b] = "holding"
  BY <1>1, <1>2 DEF Stage, Created
<1> QED
  BY <1>3 DEF Calendar!Move, Calendar!FreeSlots, Calendar!Owned, Moves, Owned

(* ... and they implement the calendar with its moves: every booking takes  *)
(* free slots in one step, exchanges them for free ones in one step, and    *)
(* gives all of them back in one step, for good.                            *)
THEOREM SerialRefinement == Serial => (Spec => ImplementsCalendar)
<1> SUFFICES ASSUME Serial PROVE Spec => ImplementsCalendar
  OBVIOUS
<1>1. Init => SerialInv /\ Calendar!Init
  <2>1. Init => Calendar!Init
    BY DEF Init, Calendar!Init, Stage, NoRow
  <2> QED
    BY <2>1, SerialInductive
<1>2. SerialInv /\ [Next]_vars => SerialInv' /\ [Calendar!Next]_(Calendar!vars)
  <2> SUFFICES ASSUME SerialInv, [Next]_vars
               PROVE  SerialInv' /\ [Calendar!Next]_(Calendar!vars)
    OBVIOUS
  <2>1. CASE SoundStep
    BY <2>1, SerialInductive, CalendarStep DEF SerialInv
  <2>2. CASE \E b \in Bookings : Moves(b)
    BY <2>2, SerialInductive, CalendarMove DEF SerialInv, Calendar!Next
  <2> QED
    BY <2>1, <2>2, SerialStep
<1> QED
  BY <1>1, <1>2, PTL DEF Spec, ImplementsCalendar, Calendar!Spec
=============================================================================
